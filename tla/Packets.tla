------------------------------- MODULE Packets -------------------------------
(***************************************************************************)
(* Packets on the wire (network/packet.c, network/buffer.c): a packet is   *)
(* serialized, may be cut short, and is deserialized again, by a relay     *)
(* that sends on what it received.  All fields are whole bytes, so that    *)
(* the bits of a buffer are left out; a byte has the values 0 .. Base - 1. *)
(***************************************************************************)
EXTENDS Integers, Sequences, SequencesExt

CONSTANTS Base,         \* values of a byte, 256 in the code
          Flags,        \* what users set in flags, without the reserved two
          Channels,     \* 8 bits
          Events,       \* 16 bits
          Ids,          \* 32 bits, of an object or a type; 0 is none
          Payloads,     \* sequences of bytes
          MaxHops       \* bound: times a packet is sent

VARIABLES packet,       \* the packet in memory
          wire,         \* the bytes sent
          at,           \* "memory", "wire" or, with bytes missing, "cut"
          hops,
          original      \* history: the packet as it was made

packetVars == <<packet, wire, at, hops, original>>

Byte == 0..(Base - 1)

\* What a number of bytes can hold: numbers below that power of Base
Power[n \in 0..4] == IF n = 0 THEN 1 ELSE Power[n - 1] * Base
Below(n) == 0..(Power[n] - 1)

\* The flags of users leave room for the reserved two in a byte
PacketsAssumption ==
    /\ Base \in Nat \ {0} /\ MaxHops \in Nat
    /\ \A f \in Flags : f \in Nat /\ f % 4 = 0 /\ f + 3 < Base
    /\ Channels \subseteq Below(1) /\ Events \subseteq Below(2) /\ Ids \subseteq Below(4)
    /\ Payloads \subseteq Seq(Byte)

TYPE   == 1
OBJECT == 2
Has(flags, f)   == (flags \div f) % 2 = 1
Marked(flags, f) == IF Has(flags, f) THEN flags ELSE flags + f
Unmark(flags, f) == IF Has(flags, f) THEN flags - f ELSE flags
-----------------------------------------------------------------------------
(***************************************************************************)
(* ilN_buf                                                                 *)
(***************************************************************************)

\* ilN_buf_writeu(), at a byte: the high byte first
Bytes(i, n) == [k \in 1..n |-> (i \div Power[n - k]) % Base]

\* Up to the first zero: strnlen() in ilN_buf_writec()
UpToZero(s) ==
    LET z == SelectInSeq(s, LAMBDA x : x = 0)
    IN  IF z = 0 THEN s ELSE SubSeq(s, 1, z - 1)

\* ilN_buf_check()
Enough(b, n) == Len(b.bytes) >= b.byte + n

\* Behind the length there are the zeros of calloc()
ByteAt(b, k) == IF k < Len(b.bytes) THEN b.bytes[k + 1] ELSE 0

\* read_bits(), a byte at a time
Value(b, n) ==
    LET number[k \in 0..n] == IF k = 0 THEN 0 ELSE number[k - 1] * Base + ByteAt(b, b.byte + k - 1)
    IN  number[n]

\* ilN_buf_readu() of n bytes: 0, and no step on, when there are not as many
ReadU(b, n) ==
    IF Enough(b, n) THEN [b EXCEPT !.byte = @ + n, !.value = Value(b, n)]
    ELSE [b EXCEPT !.value = 0]
-----------------------------------------------------------------------------
\* Mutant of SentFlags: the reserved flag of the other kind stays
SentFlagsKeeping(p) ==
    IF p.object # 0 THEN Marked(p.flags, OBJECT)
    ELSE IF p.type # 0 THEN Marked(p.flags, TYPE) ELSE p.flags

SentFlags(p) ==
    IF p.object # 0 THEN Unmark(Marked(p.flags, OBJECT), TYPE)
    ELSE IF p.type # 0 THEN Unmark(Marked(p.flags, TYPE), OBJECT) ELSE p.flags

Addressee(p) == IF p.object # 0 THEN p.object ELSE p.type

\* ilN_packet_serialize()
Serialized(p) ==
    Bytes(SentFlags(p), 1) \o Bytes(p.channel, 1) \o Bytes(p.event, 2)
        \o (IF Addressee(p) # 0 THEN Bytes(Addressee(p), 4) ELSE <<>>) \o UpToZero(p.data)

\* ilN_packet_deserialize(): a type is stored as an object
Deserialized(bytes) ==
    LET flags   == ReadU([bytes |-> bytes, byte |-> 0, value |-> 0], 1)
        channel == ReadU(flags, 1)
        event   == ReadU(channel, 2)
        target  == IF Has(flags.value, OBJECT) \/ Has(flags.value, TYPE)
                   THEN ReadU(event, 4) ELSE [event EXCEPT !.value = 0]
    IN  [flags |-> flags.value, channel |-> channel.value, event |-> event.value,
         object |-> target.value, type |-> 0,
         length |-> Len(bytes) - target.byte,
         data |-> SubSeq(bytes, target.byte + 1, Len(bytes))]
-----------------------------------------------------------------------------
PacketsInit ==
    /\ packet \in {[flags |-> f, channel |-> c, event |-> e, object |-> o, type |-> t,
                    length |-> Len(d), data |-> d] :
                        f \in Flags, c \in Channels, e \in Events, o \in Ids, t \in Ids, d \in Payloads}
    /\ original = packet
    /\ wire = <<>> /\ at = "memory" /\ hops = 0

Send ==
    /\ at = "memory" /\ hops < MaxHops
    /\ wire' = Serialized(packet)
    /\ at' = "wire" /\ hops' = hops + 1
    /\ UNCHANGED <<packet, original>>

\* The end of a packet is lost on the way
Cut ==
    /\ at = "wire"
    /\ \E n \in 0..(Len(wire) - 1) : wire' = SubSeq(wire, 1, n)
    /\ at' = "cut"
    /\ UNCHANGED <<packet, hops, original>>

Receive ==
    /\ at \in {"wire", "cut"}
    /\ packet' = Deserialized(wire)
    /\ at' = IF at = "cut" THEN "end" ELSE "memory"
    /\ UNCHANGED <<wire, hops, original>>

PacketsNext == Send \/ Cut \/ Receive

PacketsSpec == PacketsInit /\ [][PacketsNext]_packetVars
-----------------------------------------------------------------------------
PacketTypes ==
    /\ packet.flags \in Below(1) /\ packet.channel \in Below(1) /\ packet.event \in Below(2)
    /\ packet.object \in Below(4) /\ packet.type \in Below(4)
    /\ packet.data \in Seq(Byte) /\ packet.length = Len(packet.data)
    /\ wire \in Seq(Byte) /\ at \in {"memory", "wire", "cut", "end"}
    /\ hops \in 0..MaxHops

(***************************************************************************)
(* A packet that is not cut arrives with what it was sent with, however    *)
(* often it is sent on: channel, event, the flags of users, the object or  *)
(* else the type it is for, and the data up to the first zero in it.  What *)
(* was for an object stays marked so; a type is marked as a type once, and *)
(* from the second hop on as an object, which it is stored as.             *)
(***************************************************************************)
PacketSurvives ==
    at = "memory" /\ hops > 0 =>
        /\ packet.channel = original.channel /\ packet.event = original.event
        /\ Unmark(Unmark(packet.flags, TYPE), OBJECT) = original.flags
        /\ packet.object = Addressee(original) /\ packet.data = UpToZero(original.data)
        /\ Has(packet.flags, OBJECT) <=> original.object # 0 \/ (original.type # 0 /\ hops > 1)
        /\ Has(packet.flags, TYPE) <=> original.object = 0 /\ original.type # 0 /\ hops = 1

(***************************************************************************)
(* Wherever a packet is cut, what arrives is taken from the bytes there    *)
(* are: the data are the last of them, its length does not wrap around and *)
(* leaves no more than a header, and fields that are not whole are 0.      *)
(***************************************************************************)
CutPacketsRead ==
    at = "end" =>
        /\ packet.length \in 0..Len(wire) /\ Len(wire) - packet.length \in 0..8
        /\ packet.data = SubSeq(wire, Len(wire) - packet.length + 1, Len(wire))
        /\ packet.channel \in {0, original.channel}
        /\ Len(wire) < 4 => packet.event = 0 /\ packet.length <= 1
        /\ Len(wire) < 8 => packet.object = 0

\* A packet arrives with what it was sent with, and one that was cut is read
\* within its bytes (network/packet.c).
PacketsArrive == PacketSurvives /\ CutPacketsRead
=============================================================================
