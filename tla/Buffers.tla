-------------------------------- MODULE Buffers --------------------------------
(***************************************************************************)
(* Buffers of the network (network/buffer.c): numbers of any count of bits *)
(* and strings are written and read at a position, which may be sought.    *)
(* A byte is the set of the bits in it.                                    *)
(***************************************************************************)
EXTENDS Integers, Sequences, SequencesExt, FiniteSetsExt

CONSTANTS Width,        \* bits of a byte, 8 in the code
          MinCapacity,  \* what IL_AUTORESIZE begins with, 64 in the code
          Field,        \* the numbers that are written, <<value, bits>>
          String,       \* the strings, sequences of bytes
          MaxBytes,    \* bound: bytes
          MaxSteps      \* bound: operations

VARIABLES buf,          \* [data, length, byte, bit]; data is as long as the capacity
          failure,      \* why the program may do anything
          expected,     \* history: the bytes that were written, one after the other
          careless,     \* history: how the buffer was used that it does not support
          count

buffers == <<buf, failure, expected, careless, count>>

BitsOf(v) == {k \in 0..(Width - 1) : (v \div 2^k) % 2 = 1}
ValueOf(bits) == MapThenSumSet(LAMBDA k : 2^k, bits)
-----------------------------------------------------------------------------
\* The loop around IL_AUTORESIZE(): of the bytes that are there as many as the
\* length says are copied, the others are zero
RECURSIVE Grow(_, _, _)
Grow(data, length, needed) ==
    IF needed < Len(data) THEN data
    ELSE LET cap == IF 2 * Len(data) < MinCapacity THEN MinCapacity ELSE 2 * Len(data)
         IN  Grow([k \in 1..cap |-> IF k <= length /\ k <= Len(data) THEN data[k] ELSE {}],
                  length, needed)

\* ilN_buf_makeRoom(): the length grows wherever the position is
MakeRoom(b, bytes) ==
    [b EXCEPT !.data = Grow(@, b.length, b.byte + bytes + (IF b.bit > 0 THEN 1 ELSE 0)),
              !.length = @ + bytes]

\* ilN_buf_align()
Align(b) == IF b.bit = 0 THEN b ELSE [b EXCEPT !.bit = 0, !.byte = @ + 1]

\* The position some bits on, within a byte
Step(b, bits) == IF b.bit + bits < Width THEN [b EXCEPT !.bit = @ + bits]
                 ELSE [b EXCEPT !.bit = 0, !.byte = @ + 1]

Fitting(b, bits) == IF bits > Width - b.bit THEN Width - b.bit ELSE bits

\* write_bits(): the bits are added to those that are there
WriteBits(b, val, bits) ==
    LET n == Fitting(b, bits)
        low == {k \in BitsOf(val) : k < n}
    IN  Step([b EXCEPT !.data[b.byte + 1] = @ \cup {k + b.bit : k \in low}], n)

\* read_bits(): the value with what a byte has at the position
ReadBits(b, v, bits) ==
    LET n == Fitting(b, bits)
        here == {k - b.bit : k \in {j \in b.data[b.byte + 1] : j >= b.bit}}
    IN  v * 2^n + ValueOf({k \in here : k < n})

\* The loop of ilN_buf_writeu(), and whether no number was shifted by less than 0
RECURSIVE WriteFrom(_, _, _, _)
WriteFrom(b, i, size, bit) ==
    IF bit >= size THEN [buf |-> b, shifted |-> TRUE]
    ELSE IF size - bit - Width < 0 THEN [buf |-> b, shifted |-> FALSE]
    ELSE WriteFrom(WriteBits(b, i \div 2^(size - bit - Width), size - bit), i, size,
                   bit + Fitting(b, size - bit))

\* Mutant of Check: the last bytes are left
CheckStrict(b, bytes) == b.length > bytes + b.byte

\* ilN_buf_check()
Check(b, bytes) == b.length >= bytes + b.byte

\* The loop of ilN_buf_readu()
RECURSIVE ReadFrom(_, _, _, _)
ReadFrom(b, val, size, bit) ==
    IF bit >= size THEN [buf |-> b, value |-> val]
    ELSE LET n == Fitting(b, size - bit)
         IN  ReadFrom(Step(b, n), ReadBits(b, val, size - bit), size, bit + n)

\* ilN_buf_readu(): of a count that is no multiple, the last bits may be behind
\* the length
ReadU(b, size) == IF Check(b, size \div Width) THEN ReadFrom(b, 0, size, 0)
                  ELSE [buf |-> b, value |-> 0]
-----------------------------------------------------------------------------
BuffersInit == /\ buf = [data |-> <<>>, length |-> 0, byte |-> 0, bit |-> 0]
               /\ failure = "none"
               /\ expected = <<>>
               /\ careless = {}
               /\ count = 0

Does == count < MaxSteps /\ count' = count + 1

\* Writing is meant for the end, at a byte
Where == IF buf.bit > 0 THEN {"bits"}
         ELSE IF buf.byte = Len(expected) THEN {} ELSE {"over"}

\* ilN_buf_writeu(), and by it writei(), writef() and writed()
WriteU(i, size) ==
    LET bytes == size \div Width
        done  == WriteFrom(MakeRoom(buf, bytes), i, size, 0)
    IN  /\ Does /\ Len(expected) + bytes <= MaxBytes
        /\ buf' = done.buf
        /\ failure' = IF done.shifted THEN failure ELSE "shift"
        /\ expected' = expected \o [k \in 1..bytes |->
                          BitsOf((i \div 2^(size - k * Width)) % 2^Width)]
        /\ careless' = careless \cup Where \cup (IF size % Width # 0 THEN {"bits"} ELSE {})

\* ilN_buf_writes(), ilN_buf_writec() and ilN_buf_in(), which aligns first
WriteC(s) ==
    LET b == MakeRoom(Align(buf), Len(s))
    IN  /\ Does /\ Len(expected) + Len(s) <= MaxBytes
        /\ buf' = [b EXCEPT !.byte = @ + Len(s),
                            !.data = [k \in DOMAIN b.data |->
                                IF k - b.byte \in DOMAIN s THEN s[k - b.byte] ELSE b.data[k]]]
        /\ expected' = expected \o s
        /\ careless' = careless \cup Where
        /\ UNCHANGED failure

Unchanged == UNCHANGED <<failure, expected, careless>>

\* ilN_buf_seek()
Seek(pos) == /\ Does /\ buf' = [buf EXCEPT !.byte = pos \div Width, !.bit = pos % Width]
             /\ Unchanged

\* ilN_buf_clear(): what was written stays in memory
Clear == /\ Does /\ buf' = [buf EXCEPT !.length = 0, !.byte = 0, !.bit = 0]
         /\ expected' = <<>>
         /\ careless' = IF expected = <<>> THEN careless ELSE careless \cup {"over"}
         /\ UNCHANGED failure

\* ilN_buf_readu()
Read(size) ==
    /\ Does
    /\ IF Check(buf, size \div Width)
           /\ buf.byte * Width + buf.bit + size > Width * Len(buf.data)
       THEN failure' = "outside" /\ UNCHANGED <<buf, expected, careless>>
       ELSE buf' = ReadU(buf, size).buf /\ Unchanged

\* ilN_buf_readc() and ilN_buf_reads()
ReadC(len) == /\ Does
              /\ buf' = IF Check(buf, len)
                        THEN [Align(buf) EXCEPT !.byte = @ + len] ELSE buf
              /\ Unchanged

\* With a length that is more than the capacity memory behind it is read
BuffersNext ==
    /\ failure = "none" /\ buf.length <= Len(buf.data)
    /\ \/ \E f \in Field : WriteU(f[1], f[2])
       \/ \E s \in String : WriteC(s)
       \/ \E pos \in {0, 1, Width, 2 * Width} : Seek(pos)
       \/ \E f \in Field : Read(f[2])
       \/ Clear \/ ReadC(1)

BuffersSpec == BuffersInit /\ [][BuffersNext]_buffers
-----------------------------------------------------------------------------
BufferTypes == /\ buf.data \in Seq(SUBSET (0..(Width - 1)))
               /\ buf.length \in Nat /\ buf.byte \in Nat /\ buf.bit \in 0..(Width - 1)
               /\ failure \in {"none", "shift", "outside"}
               /\ careless \subseteq {"over", "bits"} /\ count \in 0..MaxSteps

\* As long as whole bytes are written at the end, the buffer has the bytes that were
\* written, and its length is theirs (buffer.c:110).
BufferKeeps == careless = {} => /\ failure # "shift"
                                /\ SubSeq(buf.data, 1, buf.length) = expected

\* Then each number that fits is read from any byte as it was written there, the
\* high byte first; one that does not fit is 0, and the position stays.
NumbersReadBack ==
    LET number(n) == FoldLeft(LAMBDA v, k : v * 2^Width + ValueOf(expected[buf.byte + k]),
                              0, [k \in 1..n |-> k])
        Whole == {n \in 1..2 : \E f \in Field : f[2] = n * Width}
    IN  careless = {} /\ buf.bit = 0 => \A n \in Whole :
            LET got == ReadU(buf, n * Width)
            IN  IF buf.byte + n <= Len(expected)
                THEN got.value = number(n) /\ got.buf.byte = buf.byte + n
                ELSE got.value = 0 /\ got.buf = buf

\* Then nothing is read behind the capacity, though it may be behind the length, but
\* from a buffer nothing was written to, or from the middle of a byte.  Bytes that
\* are written over are counted again, until the length is more than the capacity
\* (buffer.c:63).
ReadsInside == failure = "outside" => careless # {} \/ expected = <<>> \/ buf.bit > 0
=============================================================================
