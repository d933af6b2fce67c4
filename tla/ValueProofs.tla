------------------------------ MODULE ValueProofs ------------------------------
(***************************************************************************)
(* What is sent in packets arrives, whatever the packets, however often    *)
(* they are sent on and wherever they are cut; and strings keep their text *)
(* and are freed with the last reference, however they are cut and shared. *)
(***************************************************************************)
EXTENDS Packets, Strings, SequenceFacts, FiniteSetTheorems

-----------------------------------------------------------------------------
(* The powers of Base are positive numbers, each Base times the one before.*)
LEMMA PowerTypes ==
    ASSUME PacketsAssumption
    PROVE  /\ Power \in [0..4 -> Nat \ {0}] /\ Power[0] = 1
           /\ \A n \in 1..4 : Power[n] = Power[n - 1] * Base
PROOF
<1>1. Base \in Nat \ {0}
  BY DEF PacketsAssumption
<1>2. \A a \in Nat \ {0} : a * Base \in Nat \ {0}
  BY <1>1
<1>3. PICK a \in Nat \ {0} : a = 1 * Base
  BY <1>1
<1>4. PICK b \in Nat \ {0} : b = a * Base
  BY <1>2
<1>5. PICK c \in Nat \ {0} : c = b * Base
  BY <1>2
<1>6. PICK d \in Nat \ {0} : d = c * Base
  BY <1>2
<1>7. PICK f : f = [n \in 0..4 |-> CASE n = 0 -> 1 [] n = 1 -> a [] n = 2 -> b [] n = 3 -> c [] OTHER -> d]
  OBVIOUS
<1>8. f[0] = 1 /\ f[1] = a /\ f[2] = b /\ f[3] = c /\ f[4] = d
  BY <1>7
<1>9. f = [n \in 0..4 |-> IF n = 0 THEN 1 ELSE f[n - 1] * Base]
  <2>1. ASSUME NEW n \in 0..4
        PROVE  f[n] = IF n = 0 THEN 1 ELSE f[n - 1] * Base
    <3>1. n = 0 \/ n = 1 \/ n = 2 \/ n = 3 \/ n = 4
      OBVIOUS
    <3>2. CASE n = 0
      BY <3>2, <1>8
    <3>3. CASE n # 0
      <4>1. f[n] = f[n - 1] * Base
        BY <3>1, <3>3, <1>3, <1>4, <1>5, <1>6, <1>8
      <4> QED  BY <3>3, <4>1
    <3> QED  BY <3>2, <3>3
  <2>2. f = [n \in 0..4 |-> f[n]]
    BY <1>7
  <2> QED  BY <2>1, <2>2
<1>10. PICK h : h = Power
  OBVIOUS
<1>11. h = [n \in 0..4 |-> IF n = 0 THEN 1 ELSE h[n - 1] * Base]
  BY <1>9, <1>10 DEF Power
<1>12. h[0] = 1 /\ \A n \in 1..4 : h[n] = h[n - 1] * Base
  <2>1. h[0] = 1
    BY <1>11
  <2>2. ASSUME NEW n \in 1..4 PROVE h[n] = h[n - 1] * Base
    <3>1. n \in 0..4 /\ n # 0
      OBVIOUS
    <3> QED  BY <1>11, <3>1
  <2> QED  BY <2>1, <2>2
<1>13. h[1] = h[0] * Base /\ h[2] = h[1] * Base /\ h[3] = h[2] * Base /\ h[4] = h[3] * Base
  <2>1. 1 \in 1..4 /\ 2 \in 1..4 /\ 3 \in 1..4 /\ 4 \in 1..4
    OBVIOUS
  <2>2. 1 - 1 = 0 /\ 2 - 1 = 1 /\ 3 - 1 = 2 /\ 4 - 1 = 3
    OBVIOUS
  <2> QED  BY <1>12, <2>1, <2>2
<1>14. h[0] = 1 /\ h[1] = a /\ h[2] = b /\ h[3] = c /\ h[4] = d
  BY <1>3, <1>4, <1>5, <1>6, <1>12, <1>13
<1>15. \A n \in 0..4 : h[n] \in Nat \ {0}
  <2> TAKE n \in 0..4
  <2>1. n = 0 \/ n = 1 \/ n = 2 \/ n = 3 \/ n = 4
    OBVIOUS
  <2> QED  BY <1>14, <2>1
<1>16. h \in [0..4 -> Nat \ {0}]
  <2>1. h = [n \in 0..4 |-> h[n]]
    BY <1>11
  <2> QED  BY <1>15, <2>1
<1> QED  BY <1>10, <1>12, <1>16

(* Dividing twice is dividing once.                                        *)
LEMMA DivideTwice ==
    \A i, a, b \in Nat : a > 0 /\ b > 0 => (i \div a) \div b = i \div (a * b)
OBVIOUS

(* A number is what a division leaves of it.                               *)
LEMMA QuotientAndRest ==
    ASSUME NEW i \in Nat, NEW b \in Nat, b > 0
    PROVE  i = ((i \div b) * b) + (i % b) /\ i \div b \in Nat /\ i % b \in 0..(b - 1)
OBVIOUS

(* A number is written in bytes, the highest first.                        *)
LEMMA BytesTypes ==
    ASSUME PacketsAssumption, NEW n \in 0..4, NEW i \in Nat
    PROVE  /\ Bytes(i, n) \in Seq(Byte) /\ Len(Bytes(i, n)) = n
           /\ \A k \in 1..n : Bytes(i, n)[k] = (i \div Power[n - k]) % Base
PROOF
<1>1. PICK s : s = Bytes(i, n)
  OBVIOUS
<1>2. s = [k \in 1..n |-> (i \div Power[n - k]) % Base]
  BY <1>1 DEF Bytes
<1>3. ASSUME NEW k \in 1..n PROVE s[k] \in Byte
  <2>1. n - k \in 0..4
    OBVIOUS
  <2>2. PICK p \in Nat \ {0} : p = Power[n - k]
    BY <2>1, PowerTypes
  <2>3. i \div p \in Nat
    BY QuotientAndRest
  <2>4. Base \in Nat /\ Base > 0
    BY DEF PacketsAssumption
  <2>5. (i \div p) % Base \in 0..(Base - 1)
    BY <2>3, <2>4, QuotientAndRest
  <2> QED  BY <1>2, <2>2, <2>5 DEF Byte
<1>4. s = [k \in 1..n |-> s[k]]
  BY <1>2
<1>5. s \in Seq(Byte) /\ Len(s) = n
  BY <1>3, <1>4, FunctionIsSeq
<1> QED  BY <1>1, <1>2, <1>5
-----------------------------------------------------------------------------
(* Reading steps on where there are bytes enough.  Value is what a number  *)
(* was written from if all its bytes are there.                            *)
LEMMA ValueOfBytes ==
    ASSUME PacketsAssumption, NEW n \in 0..4, NEW i \in Below(n), NEW b,
           \A k \in 1..n : ByteAt(b, b.byte + k - 1) = (i \div Power[n - k]) % Base
    PROVE  Value(b, n) = i
PROOF
<1>1. Base \in Nat /\ Base > 0
  BY DEF PacketsAssumption
<1>2. PICK q : q = [k \in 0..n |-> i \div Power[n - k]]
  OBVIOUS
<1>3. i \in Nat /\ i < Power[n] /\ Power[n] \in Nat \ {0}
  BY PowerTypes DEF Below
<1>4. q[0] = 0
  <2>1. PICK p \in Nat \ {0} : p = Power[n] /\ i < p
    BY <1>3
  <2>2. i \div p = 0
    BY <1>3, <2>1
  <2>3. 0 \in 0..n /\ n - 0 = n
    OBVIOUS
  <2> QED  BY <1>2, <2>1, <2>2, <2>3
<1>5. ASSUME NEW k \in 1..n
      PROVE  q[k] = q[k - 1] * Base + ByteAt(b, b.byte + k - 1)
  <2>1. /\ k \in 0..n /\ k - 1 \in 0..n /\ n - k \in 0..4 /\ n - (k - 1) \in 1..4
        /\ (n - (k - 1)) - 1 = n - k
    OBVIOUS
  <2>2. PICK p \in Nat \ {0} : p = Power[n - k]
    BY <2>1, PowerTypes
  <2>3. Power[n - (k - 1)] = p * Base
    BY <2>1, <2>2, PowerTypes
  <2>4. PICK x \in Nat : x = i \div p
    BY <1>3, <2>2, QuotientAndRest
  <2>5. x \div Base = i \div (p * Base)
    BY <1>1, <1>3, <2>2, <2>4, DivideTwice
  <2>6. x = ((x \div Base) * Base) + (x % Base)
    BY <1>1, QuotientAndRest
  <2>7. q[k] = x /\ q[k - 1] = x \div Base
    BY <1>2, <2>1, <2>2, <2>3, <2>4, <2>5
  <2>8. ByteAt(b, b.byte + k - 1) = x % Base
    BY <2>2, <2>4
  <2> QED  BY <2>6, <2>7, <2>8
<1>6. q = [k \in 0..n |-> IF k = 0 THEN 0 ELSE q[k - 1] * Base + ByteAt(b, b.byte + k - 1)]
  <2>1. ASSUME NEW k \in 0..n
        PROVE  q[k] = IF k = 0 THEN 0 ELSE q[k - 1] * Base + ByteAt(b, b.byte + k - 1)
    <3>1. CASE k = 0
      BY <3>1, <1>4
    <3>2. CASE k # 0
      <4>1. k \in 1..n
        BY <3>2
      <4> QED  BY <3>2, <4>1, <1>5
    <3> QED  BY <3>1, <3>2
  <2>2. q = [k \in 0..n |-> q[k]]
    BY <1>2
  <2> QED  BY <2>1, <2>2
<1>7. PICK h : /\ h = [k \in 0..n |-> IF k = 0 THEN 0 ELSE h[k - 1] * Base + ByteAt(b, b.byte + k - 1)]
               /\ Value(b, n) = h[n]
  BY <1>6 DEF Value
<1>8. \A k \in 0..n : h[k] = q[k]
  <2> DEFINE Bad == {k \in 0..n : h[k] # q[k]}
  <2> SUFFICES ASSUME Bad # {} PROVE FALSE
    OBVIOUS
  <2>1. Bad \in SUBSET Nat
    OBVIOUS
  <2>2. PICK m \in Bad : \A y \in Bad : m <= y
    <3> HIDE DEF Bad
    <3> QED  BY <2>1, LeastNumber
  <2>3. m \in 0..n /\ h[m] # q[m]
    OBVIOUS
  <2>4. m # 0
    BY <1>4, <1>7, <2>3
  <2>5. m \in 1..n /\ m - 1 \in 0..n /\ m - 1 \notin Bad
    BY <2>2, <2>3, <2>4
  <2>6. h[m - 1] = q[m - 1]
    BY <2>5
  <2>7. h[m] = h[m - 1] * Base + ByteAt(b, b.byte + m - 1)
    BY <1>7, <2>3, <2>4
  <2> QED  BY <1>5, <2>3, <2>5, <2>6, <2>7
<1>9. n \in 0..n /\ n - n = 0 /\ Power[0] = 1
  BY PowerTypes
<1>10. q[n] = i \div 1
  BY <1>2, <1>9
<1>11. i \div 1 = i
  BY <1>3
<1> QED  BY <1>7, <1>8, <1>9, <1>10, <1>11

(* A field that is whole is read as it was written.                        *)
LEMMA ReadsField ==
    ASSUME PacketsAssumption, NEW n \in 0..4, NEW i \in Below(n), NEW s \in Seq(Byte), NEW at0 \in Nat, NEW v,
           Len(s) >= at0 + n, \A k \in 1..n : s[at0 + k] = Bytes(i, n)[k]
    PROVE  ReadU([bytes |-> s, byte |-> at0, value |-> v], n) =
             [bytes |-> s, byte |-> at0 + n, value |-> i]
PROOF
<1>1. PICK b : b = [bytes |-> s, byte |-> at0, value |-> v]
  OBVIOUS
<1>2. b.bytes = s /\ b.byte = at0
  BY <1>1
<1>3. i \in Nat
  BY PowerTypes DEF Below
<1>4. Len(s) \in Nat
  BY LenProperties
<1>5. ASSUME NEW k \in 1..n
      PROVE  ByteAt(b, b.byte + k - 1) = (i \div Power[n - k]) % Base
  <2>1. b.byte + k - 1 < Len(b.bytes) /\ (b.byte + k - 1) + 1 = at0 + k
    BY <1>2, <1>4
  <2>2. ByteAt(b, b.byte + k - 1) = s[at0 + k]
    BY <1>2, <2>1 DEF ByteAt
  <2> QED  BY <1>3, <2>2, BytesTypes
<1>6. Value(b, n) = i
  BY <1>5, ValueOfBytes
<1>7. Enough(b, n)
  BY <1>2 DEF Enough
<1>8. ReadU(b, n) = [b EXCEPT !.byte = @ + n, !.value = i]
  BY <1>6, <1>7 DEF ReadU
<1> QED  BY <1>1, <1>8

(* And one that is not is read as 0.                                       *)
LEMMA ReadsNothing ==
    ASSUME NEW n \in 0..4, NEW s \in Seq(Byte), NEW at0 \in Nat, NEW v, Len(s) < at0 + n
    PROVE  ReadU([bytes |-> s, byte |-> at0, value |-> v], n) =
             [bytes |-> s, byte |-> at0, value |-> 0]
PROOF
<1>1. Len(s) \in Nat
  BY LenProperties
<1> QED  BY <1>1 DEF ReadU, Enough
-----------------------------------------------------------------------------
(* A part of a sequence, place by place.                                   *)
LEMMA PartByIndex ==
    ASSUME NEW S, NEW s \in Seq(S), NEW a \in Nat, NEW n \in Nat, a <= n, n <= Len(s),
           NEW t, t = SubSeq(s, a + 1, n)
    PROVE  /\ t \in Seq(S) /\ Len(t) = n - a
           /\ \A k \in 1..(n - a) : t[k] = s[a + k]
PROOF
<1>1. PICK m : m = a + 1
  OBVIOUS
<1>2. Len(s) \in Nat
  BY LenProperties
<1>3. \A i \in m..n : s[i] \in S
  BY <1>1, <1>2, ElementOfSeq
<1>4. m \in Int /\ n \in Int /\ t = SubSeq(s, m, n)
  BY <1>1
<1>5. /\ t \in Seq(S) /\ Len(t) = (IF m <= n THEN n - m + 1 ELSE 0)
      /\ \A i \in 1..(n - m + 1) : t[i] = s[m + i - 1]
  BY <1>3, <1>4, SubSeqProperties
<1>6. /\ n - m + 1 = n - a /\ (\A i \in 1..(n - a) : m + i - 1 = a + i)
      /\ (~(m <= n) => n - a = 0)
  BY <1>1
<1> QED  BY <1>5, <1>6

(* What is taken of a text up to its first zero has none, and is taken     *)
(* whole the next time.                                                    *)
LEMMA UpToZeroTypes ==
    ASSUME NEW s \in Seq(Byte)
    PROVE  UpToZero(s) \in Seq(Byte) /\ UpToZero(UpToZero(s)) = UpToZero(s)
PROOF
<1> DEFINE Zeros(t) == {i \in 1..Len(t) : t[i] = 0}
<1>1. \A t : UpToZero(t) = IF Zeros(t) = {} \/ Min(Zeros(t)) = 0 THEN t
                           ELSE SubSeq(t, 1, Min(Zeros(t)) - 1)
  BY DEF UpToZero, SelectInSeq
<1>2. Len(s) \in Nat
  BY LenProperties
<1>3. CASE Zeros(s) = {}
  BY <1>1, <1>3
<1>4. CASE Zeros(s) # {}
  <2>1. Zeros(s) \in SUBSET Nat
    BY <1>2
  <2>2. PICK z : z = Min(Zeros(s))
    OBVIOUS
  <2>3. z \in Zeros(s) /\ \A i \in Zeros(s) : z <= i
    <3> HIDE DEF Zeros
    <3> QED  BY <1>4, <2>1, <2>2, MinIsLeast
  <2>4. z \in 1..Len(s) /\ \A i \in 1..(z - 1) : s[i] # 0 /\ s[i] \in Byte
    BY <1>2, <2>3, ElementOfSeq
  <2>5. PICK t : t = SubSeq(s, 1, z - 1)
    OBVIOUS
  <2>6. /\ t \in Seq(Byte) /\ Len(t) = z - 1
        /\ \A i \in 1..(z - 1) : t[i] = s[i]
    <3>1. PICK a, n : a = 0 /\ n = z - 1
      OBVIOUS
    <3>2. a \in Nat /\ n \in Nat /\ a <= n /\ n <= Len(s) /\ t = SubSeq(s, a + 1, n) /\ n - a = z - 1
      BY <1>2, <2>4, <2>5, <3>1
    <3>3. t \in Seq(Byte) /\ Len(t) = n - a /\ \A k \in 1..(n - a) : t[k] = s[a + k]
      BY <3>2, PartByIndex
    <3> QED  BY <2>4, <3>1, <3>2, <3>3
  <2>7. Zeros(t) = {}
    BY <2>4, <2>6
  <2>8. UpToZero(s) = t
    BY <1>1, <1>4, <2>2, <2>4, <2>5
  <2>9. UpToZero(t) = t
    BY <1>1, <2>7
  <2> QED  BY <2>6, <2>8, <2>9
<1> QED  BY <1>3, <1>4
-----------------------------------------------------------------------------
(* A packet in memory, as it is before the first hop or after any.         *)
Packet == [flags : Below(1), channel : Below(1), event : Below(2), object : Below(4),
           type : Below(4), length : Nat, data : Seq(Byte)]

\* How long its header is on the wire
HeaderOf(p) == IF Addressee(p) # 0 THEN 8 ELSE 4

(* Two sequences one after the other, place by place.                      *)
LEMMA ConcatByIndex ==
    ASSUME NEW S, NEW s \in Seq(S), NEW t \in Seq(S)
    PROVE  /\ s \o t \in Seq(S) /\ Len(s \o t) = Len(s) + Len(t)
           /\ \A i \in 1..Len(s) : (s \o t)[i] = s[i]
           /\ \A k \in 1..Len(t) : (s \o t)[Len(s) + k] = t[k]
PROOF
<1>1. Len(s) \in Nat /\ Len(t) \in Nat
  BY LenProperties
<1>2. PICK u : u = s \o t
  OBVIOUS
<1>3. /\ u \in Seq(S) /\ Len(u) = Len(s) + Len(t)
      /\ \A i \in 1..(Len(s) + Len(t)) : u[i] = IF i <= Len(s) THEN s[i] ELSE t[i - Len(s)]
  BY <1>2, ConcatProperties
<1>4. \A i \in 1..Len(s) : i \in 1..(Len(s) + Len(t)) /\ i <= Len(s)
  BY <1>1
<1>5. \A k \in 1..Len(t) : /\ Len(s) + k \in 1..(Len(s) + Len(t)) /\ ~(Len(s) + k <= Len(s))
                           /\ (Len(s) + k) - Len(s) = k
  BY <1>1
<1> QED  BY <1>2, <1>3, <1>4, <1>5

(* A packet is made of its fields in their places.                         *)
LEMMA SerializedLayout ==
    ASSUME PacketsAssumption, NEW p \in Packet, NEW w, w = Serialized(p), SentFlags(p) \in Nat
    PROVE  /\ w \in Seq(Byte) /\ Len(w) = HeaderOf(p) + Len(UpToZero(p.data))
           /\ \A k \in 1..1 : w[0 + k] = Bytes(SentFlags(p), 1)[k]
           /\ \A k \in 1..1 : w[1 + k] = Bytes(p.channel, 1)[k]
           /\ \A k \in 1..2 : w[2 + k] = Bytes(p.event, 2)[k]
           /\ Addressee(p) # 0 => \A k \in 1..4 : w[4 + k] = Bytes(Addressee(p), 4)[k]
           /\ \A k \in 1..Len(UpToZero(p.data)) : w[HeaderOf(p) + k] = UpToZero(p.data)[k]
PROOF
<1>1. PICK f, c, e, t, d :
         /\ f = Bytes(SentFlags(p), 1) /\ c = Bytes(p.channel, 1) /\ e = Bytes(p.event, 2)
         /\ t = (IF Addressee(p) # 0 THEN Bytes(Addressee(p), 4) ELSE <<>>)
         /\ d = UpToZero(p.data)
  OBVIOUS
<1>2. w = (((f \o c) \o e) \o t) \o d
  BY <1>1 DEF Serialized
<1>3. p.channel \in Nat /\ p.event \in Nat /\ Addressee(p) \in Nat
  BY PowerTypes DEF Packet, Addressee, Below
<1>4. f \in Seq(Byte) /\ Len(f) = 1 /\ c \in Seq(Byte) /\ Len(c) = 1
  <2>1. 1 \in 0..4
    OBVIOUS
  <2>2. \A i \in Nat : Bytes(i, 1) \in Seq(Byte) /\ Len(Bytes(i, 1)) = 1
    BY <2>1, BytesTypes
  <2> QED  BY <1>1, <1>3, <2>2
<1>5. e \in Seq(Byte) /\ Len(e) = 2
  <2>1. 2 \in 0..4
    OBVIOUS
  <2>2. \A i \in Nat : Bytes(i, 2) \in Seq(Byte) /\ Len(Bytes(i, 2)) = 2
    BY <2>1, BytesTypes
  <2> QED  BY <1>1, <1>3, <2>2
<1>6. t \in Seq(Byte) /\ Len(t) = HeaderOf(p) - 4
  <2>1. CASE Addressee(p) # 0
    <3>1. t = Bytes(Addressee(p), 4) /\ 4 \in 0..4
      BY <1>1, <2>1
    <3>2. t \in Seq(Byte) /\ Len(t) = 4
      BY <1>3, <3>1, BytesTypes
    <3> QED  BY <2>1, <3>2 DEF HeaderOf
  <2>2. CASE Addressee(p) = 0
    BY <1>1, <2>2, EmptySeq DEF HeaderOf
  <2> QED  BY <2>1, <2>2
<1>7. d \in Seq(Byte) /\ Len(d) \in Nat
  BY <1>1, UpToZeroTypes, LenProperties DEF Packet
<1>8. PICK x : x = f \o c
  OBVIOUS
<1>9. x \in Seq(Byte) /\ Len(x) = 2 /\ x[1] = f[1] /\ x[2] = c[1]
  <2>1. /\ x \in Seq(Byte) /\ Len(x) = 1 + 1 /\ (\A i \in 1..1 : x[i] = f[i])
        /\ \A k \in 1..1 : x[1 + k] = c[k]
    <3>1. /\ f \o c \in Seq(Byte) /\ Len(f \o c) = Len(f) + Len(c)
          /\ \A i \in 1..Len(f) : (f \o c)[i] = f[i]
          /\ \A k \in 1..Len(c) : (f \o c)[Len(f) + k] = c[k]
      <4>1. f \in Seq(Byte) /\ c \in Seq(Byte)
        BY <1>4
      <4> QED  BY <4>1, ConcatByIndex
    <3> QED  BY <3>1, <1>4, <1>8
  <2>2. 1 \in 1..1 /\ 1 + 1 = 2
    OBVIOUS
  <2> QED  BY <2>1, <2>2
<1>10. PICK y : y = x \o e
  OBVIOUS
<1>11. y \in Seq(Byte) /\ Len(y) = 4 /\ y[1] = f[1] /\ y[2] = c[1] /\ \A k \in 1..2 : y[2 + k] = e[k]
  <2>1. /\ y \in Seq(Byte) /\ Len(y) = 2 + 2 /\ (\A i \in 1..2 : y[i] = x[i])
        /\ \A k \in 1..2 : y[2 + k] = e[k]
    <3>1. /\ x \o e \in Seq(Byte) /\ Len(x \o e) = Len(x) + Len(e)
          /\ \A i \in 1..Len(x) : (x \o e)[i] = x[i]
          /\ \A k \in 1..Len(e) : (x \o e)[Len(x) + k] = e[k]
      <4>1. x \in Seq(Byte) /\ e \in Seq(Byte)
        BY <1>5, <1>9
      <4> QED  BY <4>1, ConcatByIndex
    <3> QED  BY <3>1, <1>5, <1>9, <1>10
  <2>2. 1 \in 1..2 /\ 2 \in 1..2 /\ 2 + 2 = 4
    OBVIOUS
  <2> QED  BY <1>9, <2>1, <2>2
<1>12. PICK z : z = y \o t
  OBVIOUS
<1>13. HeaderOf(p) \in {4, 8} /\ 4 + (HeaderOf(p) - 4) = HeaderOf(p)
  BY DEF HeaderOf
<1>14. z \in Seq(Byte) /\ Len(z) = HeaderOf(p) /\ (\A i \in 1..4 : z[i] = y[i])
       /\ \A k \in 1..(HeaderOf(p) - 4) : z[4 + k] = t[k]
  <2>1. /\ z \in Seq(Byte) /\ Len(z) = 4 + (HeaderOf(p) - 4) /\ (\A i \in 1..4 : z[i] = y[i])
        /\ \A k \in 1..(HeaderOf(p) - 4) : z[4 + k] = t[k]
    <3>1. /\ y \o t \in Seq(Byte) /\ Len(y \o t) = Len(y) + Len(t)
          /\ \A i \in 1..Len(y) : (y \o t)[i] = y[i]
          /\ \A k \in 1..Len(t) : (y \o t)[Len(y) + k] = t[k]
      <4>1. y \in Seq(Byte) /\ t \in Seq(Byte)
        BY <1>6, <1>11
      <4> QED  BY <4>1, ConcatByIndex
    <3> QED  BY <3>1, <1>6, <1>11, <1>12
  <2> QED  BY <1>13, <2>1
<1>15. /\ w \in Seq(Byte) /\ Len(w) = HeaderOf(p) + Len(d)
       /\ (\A i \in 1..HeaderOf(p) : w[i] = z[i])
       /\ \A k \in 1..Len(d) : w[HeaderOf(p) + k] = d[k]
  <2>1. w = z \o d
    BY <1>2, <1>8, <1>10, <1>12
  <2>2. /\ z \o d \in Seq(Byte) /\ Len(z \o d) = Len(z) + Len(d)
        /\ \A i \in 1..Len(z) : (z \o d)[i] = z[i]
        /\ \A k \in 1..Len(d) : (z \o d)[Len(z) + k] = d[k]
    <3>1. z \in Seq(Byte) /\ d \in Seq(Byte)
      BY <1>7, <1>14
    <3> QED  BY <3>1, ConcatByIndex
  <2> QED  BY <1>7, <1>14, <2>1, <2>2
<1>16. \A i \in 1..4 : w[i] = y[i]
  BY <1>13, <1>14, <1>15
<1>17. w[1] = f[1] /\ w[2] = c[1] /\ \A k \in 1..2 : w[2 + k] = e[k]
  <2>1. 1 \in 1..4 /\ 2 \in 1..4 /\ \A k \in 1..2 : 2 + k \in 1..4
    OBVIOUS
  <2> QED  BY <1>11, <1>16, <2>1
<1>18. \A k \in 1..1 : k = 1 /\ 0 + k = 1 /\ 1 + k = 2
  OBVIOUS
<1>19. Addressee(p) # 0 => \A k \in 1..4 : w[4 + k] = t[k]
  <2> SUFFICES ASSUME Addressee(p) # 0, NEW k \in 1..4 PROVE w[4 + k] = t[k]
    OBVIOUS
  <2>1. HeaderOf(p) = 8 /\ k \in 1..(HeaderOf(p) - 4) /\ 4 + k \in 1..HeaderOf(p)
    BY DEF HeaderOf
  <2> QED  BY <1>14, <1>15, <2>1
<1> QED  BY <1>1, <1>15, <1>17, <1>18, <1>19
-----------------------------------------------------------------------------
\* How far a packet is read of which there are n bytes
ReadOf(p, n) == IF n >= 8 /\ Addressee(p) # 0 THEN 8
                ELSE IF n >= 4 THEN 4 ELSE IF n >= 2 THEN 2 ELSE n

\* What it is read as: the fields that are whole, and the rest as data
ReadAs(p, n, u) ==
    [flags |-> IF n >= 1 THEN SentFlags(p) ELSE 0, channel |-> IF n >= 2 THEN p.channel ELSE 0,
     event |-> IF n >= 4 THEN p.event ELSE 0, object |-> IF n >= 8 THEN Addressee(p) ELSE 0,
     type |-> 0, length |-> n - ReadOf(p, n), data |-> SubSeq(u, ReadOf(p, n) + 1, n)]

\* The flags that are sent are those of a byte and say whether there is an addressee
MarkedWell(p) ==
    /\ SentFlags(p) \in Below(1)
    /\ Has(SentFlags(p), OBJECT) \/ Has(SentFlags(p), TYPE) <=> Addressee(p) # 0

(* Wherever a packet is cut, or not at all, its fields are read back.      *)
LEMMA DeserializesCut ==
    ASSUME PacketsAssumption, NEW p \in Packet, MarkedWell(p), NEW w, w = Serialized(p),
           NEW n \in 0..Len(w), NEW u, u = SubSeq(w, 1, n)
    PROVE  Deserialized(u) = ReadAs(p, n, u)
PROOF
<1>1. PICK F, A : F = SentFlags(p) /\ A = Addressee(p)
  OBVIOUS
<1>2. F \in Below(1) /\ F \in Nat /\ A \in Below(4) /\ p.channel \in Below(1) /\ p.event \in Below(2)
  <2>1. \A i \in Below(1) : i \in Nat
    BY PowerTypes DEF Below
  <2> QED  BY <1>1, <2>1 DEF MarkedWell, Packet, Addressee
<1>3. /\ w \in Seq(Byte) /\ Len(w) = HeaderOf(p) + Len(UpToZero(p.data))
      /\ \A k \in 1..1 : w[0 + k] = Bytes(F, 1)[k]
      /\ \A k \in 1..1 : w[1 + k] = Bytes(p.channel, 1)[k]
      /\ \A k \in 1..2 : w[2 + k] = Bytes(p.event, 2)[k]
      /\ A # 0 => \A k \in 1..4 : w[4 + k] = Bytes(A, 4)[k]
  BY <1>1, <1>2, SerializedLayout
<1>4. n \in Nat /\ Len(w) \in Nat /\ n <= Len(w)
  BY <1>3, LenProperties
<1>5. u \in Seq(Byte) /\ Len(u) = n /\ \A i \in 1..n : u[i] = w[i]
  <2>1. PICK a : a = 0
    OBVIOUS
  <2>2. a \in Nat /\ a <= n /\ u = SubSeq(w, a + 1, n) /\ n - a = n
    BY <1>4, <2>1
  <2>3. u \in Seq(Byte) /\ Len(u) = n - a /\ \A k \in 1..(n - a) : u[k] = w[a + k]
    BY <1>3, <1>4, <2>2, PartByIndex
  <2> QED  BY <1>4, <2>1, <2>2, <2>3
<1> DEFINE buffer(a, x) == [bytes |-> u, byte |-> a, value |-> x]
           flags    == ReadU(buffer(0, 0), 1)
           channel  == ReadU(flags, 1)
           event    == ReadU(channel, 2)
           target   == IF Has(flags.value, OBJECT) \/ Has(flags.value, TYPE)
                       THEN ReadU(event, 4) ELSE [event EXCEPT !.value = 0]
<1>6. Deserialized(u) =
        [flags |-> flags.value, channel |-> channel.value, event |-> event.value,
         object |-> target.value, type |-> 0, length |-> n - target.byte,
         data |-> SubSeq(u, target.byte + 1, n)]
  BY <1>5 DEF Deserialized
<1>7. \A v : n >= 1 => ReadU(buffer(0, v), 1) = buffer(1, F)
  <2> SUFFICES ASSUME NEW v, n >= 1 PROVE ReadU(buffer(0, v), 1) = buffer(1, F)
    OBVIOUS
  <2>1. \A k \in 1..1 : u[0 + k] = Bytes(F, 1)[k]
    BY <1>3, <1>4, <1>5
  <2>2. PICK m, a, i : m = 1 /\ a = 0 /\ i = F
    OBVIOUS
  <2>3. /\ m \in 0..4 /\ a \in Nat /\ i \in Below(m) /\ Len(u) >= a + m /\ a + m = 1
        /\ \A k \in 1..m : u[a + k] = Bytes(i, m)[k]
    BY <1>2, <1>4, <1>5, <2>1, <2>2
  <2>4. ReadU(buffer(a, v), m) = buffer(a + m, i)
    BY <1>5, <2>3, ReadsField
  <2> QED  BY <2>2, <2>3, <2>4
<1>8. \A v : n >= 2 => ReadU(buffer(1, v), 1) = buffer(2, p.channel)
  <2> SUFFICES ASSUME NEW v, n >= 2 PROVE ReadU(buffer(1, v), 1) = buffer(2, p.channel)
    OBVIOUS
  <2>1. \A k \in 1..1 : u[1 + k] = Bytes(p.channel, 1)[k]
    BY <1>3, <1>4, <1>5
  <2>2. PICK m, a, i : m = 1 /\ a = 1 /\ i = p.channel
    OBVIOUS
  <2>3. /\ m \in 0..4 /\ a \in Nat /\ i \in Below(m) /\ Len(u) >= a + m /\ a + m = 2
        /\ \A k \in 1..m : u[a + k] = Bytes(i, m)[k]
    BY <1>2, <1>4, <1>5, <2>1, <2>2
  <2>4. ReadU(buffer(a, v), m) = buffer(a + m, i)
    BY <1>5, <2>3, ReadsField
  <2> QED  BY <2>2, <2>3, <2>4
<1>9. \A v : n >= 4 => ReadU(buffer(2, v), 2) = buffer(4, p.event)
  <2> SUFFICES ASSUME NEW v, n >= 4 PROVE ReadU(buffer(2, v), 2) = buffer(4, p.event)
    OBVIOUS
  <2>1. \A k \in 1..2 : u[2 + k] = Bytes(p.event, 2)[k]
    BY <1>3, <1>4, <1>5
  <2>2. PICK m, a, i : m = 2 /\ a = 2 /\ i = p.event
    OBVIOUS
  <2>3. /\ m \in 0..4 /\ a \in Nat /\ i \in Below(m) /\ Len(u) >= a + m /\ a + m = 4
        /\ \A k \in 1..m : u[a + k] = Bytes(i, m)[k]
    BY <1>2, <1>4, <1>5, <2>1, <2>2
  <2>4. ReadU(buffer(a, v), m) = buffer(a + m, i)
    BY <1>5, <2>3, ReadsField
  <2> QED  BY <2>2, <2>3, <2>4
<1>10. \A v : n >= 8 /\ A # 0 => ReadU(buffer(4, v), 4) = buffer(8, A)
  <2> SUFFICES ASSUME NEW v, n >= 8, A # 0 PROVE ReadU(buffer(4, v), 4) = buffer(8, A)
    OBVIOUS
  <2>1. \A k \in 1..4 : u[4 + k] = Bytes(A, 4)[k]
    BY <1>3, <1>4, <1>5
  <2>2. PICK m, a, i : m = 4 /\ a = 4 /\ i = A
    OBVIOUS
  <2>3. /\ m \in 0..4 /\ a \in Nat /\ i \in Below(m) /\ Len(u) >= a + m /\ a + m = 8
        /\ \A k \in 1..m : u[a + k] = Bytes(i, m)[k]
    BY <1>2, <1>4, <1>5, <2>1, <2>2
  <2>4. ReadU(buffer(a, v), m) = buffer(a + m, i)
    BY <1>5, <2>3, ReadsField
  <2> QED  BY <2>2, <2>3, <2>4
<1>11. \A v : \A m \in 0..4, a \in Nat : n < a + m => ReadU(buffer(a, v), m) = buffer(a, 0)
  BY <1>5, ReadsNothing
<1>12. \A a, x : [buffer(a, x) EXCEPT !.value = 0] = buffer(a, 0) /\ buffer(a, x).value = x /\ buffer(a, x).byte = a
  <2> SUFFICES ASSUME NEW a, NEW x
               PROVE  [buffer(a, x) EXCEPT !.value = 0] = buffer(a, 0) /\ buffer(a, x).value = x /\ buffer(a, x).byte = a
    OBVIOUS
  <2> HIDE DEF flags, channel, event, target
  <2>1. buffer(a, x).value = x /\ buffer(a, x).byte = a
    OBVIOUS
  <2>2. PICK r : r = buffer(a, x)
    OBVIOUS
  <2>3. r = [bytes |-> u, byte |-> a, value |-> x] /\ buffer(a, 0) = [bytes |-> u, byte |-> a, value |-> 0]
    BY <2>2
  <2>4. [r EXCEPT !.value = 0] = buffer(a, 0)
    BY <2>3
  <2> QED  BY <2>1, <2>2, <2>4
<1>13. ~Has(0, OBJECT) /\ ~Has(0, TYPE)
  BY DEF Has, OBJECT, TYPE
<1>14. Has(F, OBJECT) \/ Has(F, TYPE) <=> A # 0
  BY <1>1 DEF MarkedWell
<1>15. A = 0 => \A i : (IF n >= 8 THEN A ELSE 0) = 0
  OBVIOUS
<1>16. /\ flags = buffer(IF n >= 1 THEN 1 ELSE 0, IF n >= 1 THEN F ELSE 0)
       /\ channel = buffer(IF n >= 2 THEN 2 ELSE n, IF n >= 2 THEN p.channel ELSE 0)
       /\ event = buffer(IF n >= 4 THEN 4 ELSE IF n >= 2 THEN 2 ELSE n, IF n >= 4 THEN p.event ELSE 0)
       /\ target = buffer(ReadOf(p, n), IF n >= 8 THEN A ELSE 0)
  <2> HIDE DEF buffer
  <2>1. CASE n = 0
    <3>1. flags = buffer(0, 0)
      BY <1>11, <2>1
    <3>2. channel = buffer(0, 0)
      BY <1>11, <2>1, <3>1
    <3>3. event = buffer(0, 0)
      BY <1>11, <2>1, <3>2
    <3>4. target = buffer(0, 0)
      BY <1>12, <1>13, <3>1, <3>3
    <3>5. ReadOf(p, n) = 0
      BY <2>1 DEF ReadOf
    <3> QED  BY <2>1, <3>1, <3>2, <3>3, <3>4, <3>5
  <2>2. CASE n = 1
    <3>1. flags = buffer(1, F)
      BY <1>7, <2>2
    <3>2. channel = buffer(1, 0)
      BY <1>11, <2>2, <3>1
    <3>3. event = buffer(1, 0)
      BY <1>11, <2>2, <3>2
    <3>4. target = buffer(1, 0)
      BY <1>11, <1>12, <2>2, <3>3
    <3>5. ReadOf(p, n) = 1
      BY <2>2 DEF ReadOf
    <3> QED  BY <2>2, <3>1, <3>2, <3>3, <3>4, <3>5
  <2>3. CASE n \in 2..3
    <3>1. flags = buffer(1, F)
      BY <1>7, <2>3
    <3>2. channel = buffer(2, p.channel)
      BY <1>8, <2>3, <3>1
    <3>3. event = buffer(2, 0)
      BY <1>11, <2>3, <3>2
    <3>4. target = buffer(2, 0)
      BY <1>11, <1>12, <2>3, <3>3
    <3>5. ReadOf(p, n) = 2
      BY <2>3 DEF ReadOf
    <3> QED  BY <2>3, <3>1, <3>2, <3>3, <3>4, <3>5
  <2>4. CASE n >= 4
    <3>1. flags = buffer(1, F)
      BY <1>4, <1>7, <2>4
    <3>2. channel = buffer(2, p.channel)
      BY <1>4, <1>8, <2>4, <3>1
    <3>3. event = buffer(4, p.event)
      BY <1>9, <2>4, <3>2
    <3>4. target = buffer(ReadOf(p, n), IF n >= 8 THEN A ELSE 0)
      <4>1. flags.value = F
        BY <1>12, <3>1
      <4>2. CASE A = 0
        <5>1. ReadOf(p, n) = 4
          BY <1>1, <2>4, <4>2 DEF ReadOf
        <5>2. target = buffer(4, 0)
          BY <1>12, <1>14, <3>3, <4>1, <4>2
        <5> QED  BY <4>2, <5>1, <5>2
      <4>3. CASE A # 0 /\ n >= 8
        <5>1. ReadOf(p, n) = 8
          BY <1>1, <4>3 DEF ReadOf
        <5>2. target = buffer(8, A)
          BY <1>10, <1>14, <3>3, <4>1, <4>3
        <5> QED  BY <4>3, <5>1, <5>2
      <4>4. CASE A # 0 /\ ~(n >= 8)
        <5>1. ReadOf(p, n) = 4
          BY <1>1, <2>4, <4>4 DEF ReadOf
        <5>2. n < 4 + 4 /\ 4 \in 0..4 /\ 4 \in Nat
          BY <1>4, <4>4
        <5>3. ReadU(event, 4) = buffer(4, 0)
          BY <1>11, <3>3, <5>2
        <5>4. target = buffer(4, 0)
          BY <1>14, <4>1, <4>4, <5>3
        <5> QED  BY <4>4, <5>1, <5>4
      <4> QED  BY <4>2, <4>3, <4>4
    <3>5. n >= 1 /\ n >= 2
      BY <1>4, <2>4
    <3> QED  BY <2>4, <3>1, <3>2, <3>3, <3>4, <3>5
  <2>5. n = 0 \/ n = 1 \/ n \in 2..3 \/ n >= 4
    BY <1>4
  <2> QED  BY <2>1, <2>2, <2>3, <2>4, <2>5
<1> HIDE DEF flags, channel, event, target
<1> QED  BY <1>1, <1>6, <1>16 DEF ReadAs
-----------------------------------------------------------------------------
\* The reserved flag a packet has after h hops
Mark(h) == IF Addressee(original) = 0 THEN 0
           ELSE IF original.object # 0 \/ h > 1 THEN OBJECT ELSE TYPE

\* What holds of a packet in memory after h hops
Arrived(p, h) ==
    /\ p \in Packet /\ p.length = Len(p.data)
    /\ p.channel = original.channel /\ p.event = original.event
    /\ Addressee(p) = Addressee(original)
    /\ h = 0 => p = original
    /\ h > 0 => /\ p.type = 0 /\ p.object = Addressee(original)
                /\ p.data = UpToZero(original.data)
                /\ p.flags = original.flags + Mark(h)

\* On the wire there is what was sent of the packet in memory, up to byte n
OnTheWire(n) ==
    /\ hops > 0 /\ Arrived(packet, hops - 1)
    /\ wire = SubSeq(Serialized(packet), 1, n)

PacketInv ==
    /\ original \in Packet /\ original.flags \in Flags /\ hops \in 0..MaxHops
    /\ packet \in Packet /\ packet.length = Len(packet.data)
    /\ wire \in Seq(Byte) /\ at \in {"memory", "wire", "cut", "end"}
    /\ at = "memory" => Arrived(packet, hops)
    /\ at \in {"wire", "cut"} =>
         \E n \in 0..Len(Serialized(packet)) :
            OnTheWire(n) /\ (at = "wire" => n = Len(Serialized(packet)))
    /\ CutPacketsRead

(* The reserved flags are those that Marked adds and Unmark takes away.    *)
LEMMA ReservedFlags ==
    ASSUME NEW f \in Nat, f % 4 = 0
    PROVE  /\ ~Has(f, TYPE) /\ ~Has(f, OBJECT)
           /\ Has(f + TYPE, TYPE) /\ ~Has(f + TYPE, OBJECT)
           /\ ~Has(f + OBJECT, TYPE) /\ Has(f + OBJECT, OBJECT)
           /\ Has(f + TYPE + OBJECT, TYPE) /\ Has(f + TYPE + OBJECT, OBJECT)
           /\ f + TYPE = f + 1 /\ f + OBJECT = f + 2 /\ f + TYPE + OBJECT = f + 3
PROOF
<1>1. PICK q \in Nat : f = 4 * q
  <2>1. f = 4 * (f \div 4) /\ f \div 4 \in Nat
    OBVIOUS
  <2> QED  BY <2>1
<1>2. /\ f \div 1 = 4 * q /\ f \div 2 = 2 * q
      /\ (f + 1) \div 1 = 4 * q + 1 /\ (f + 1) \div 2 = 2 * q
      /\ (f + 2) \div 1 = 4 * q + 2 /\ (f + 2) \div 2 = 2 * q + 1
      /\ (f + 3) \div 1 = 4 * q + 3 /\ (f + 3) \div 2 = 2 * q + 1
  BY <1>1
<1>3. /\ (4 * q) % 2 = 0 /\ (2 * q) % 2 = 0 /\ (4 * q + 1) % 2 = 1
      /\ (4 * q + 2) % 2 = 0 /\ (2 * q + 1) % 2 = 1 /\ (4 * q + 3) % 2 = 1
  OBVIOUS
<1>4. f + 1 + 2 = f + 3
  OBVIOUS
<1> QED  BY <1>2, <1>3, <1>4 DEF Has, TYPE, OBJECT

(* A packet is sent with one of the reserved flags, if it has an addressee,*)
(* and once it is marked as for an object it stays so.                     *)
LEMMA FlagsSent ==
    ASSUME PacketsAssumption, original \in Packet, original.flags \in Flags,
           NEW p, NEW h \in Nat, Arrived(p, h)
    PROVE  SentFlags(p) = original.flags + Mark(h + 1) /\ MarkedWell(p)
PROOF
<1>1. PICK f : f = original.flags
  OBVIOUS
<1>2. f \in Nat /\ f % 4 = 0 /\ f + 3 < Base
  BY <1>1 DEF PacketsAssumption
<1>3. /\ ~Has(f, TYPE) /\ ~Has(f, OBJECT)
      /\ Has(f + TYPE, TYPE) /\ ~Has(f + TYPE, OBJECT)
      /\ ~Has(f + OBJECT, TYPE) /\ Has(f + OBJECT, OBJECT)
      /\ Has(f + TYPE + OBJECT, TYPE) /\ Has(f + TYPE + OBJECT, OBJECT)
      /\ f + TYPE = f + 1 /\ f + OBJECT = f + 2 /\ f + TYPE + OBJECT = f + 3
  BY <1>2, ReservedFlags
<1>4. (f + 1) + OBJECT = f + 3 /\ (f + 3) - TYPE = f + 2
  BY <1>2 DEF OBJECT, TYPE
<1>5. /\ Marked(f, OBJECT) = f + 2 /\ Marked(f, TYPE) = f + 1
      /\ Marked(f + 1, OBJECT) = f + 3 /\ Marked(f + 2, OBJECT) = f + 2
      /\ Unmark(f + 1, OBJECT) = f + 1 /\ Unmark(f + 2, TYPE) = f + 2
      /\ Unmark(f + 3, TYPE) = f + 2
  BY <1>3, <1>4 DEF Marked, Unmark
<1>6. f + 0 = f
  BY <1>2
<1>7. SentFlags(p) = f + Mark(h + 1)
  <2>1. CASE h = 0
    <3>1. p = original /\ p.flags = f /\ ~(h + 1 > 1)
      BY <1>1, <2>1 DEF Arrived
    <3>2. CASE p.object # 0
      <4>1. SentFlags(p) = f + 2
        <5>1. SentFlags(p) = Unmark(Marked(p.flags, OBJECT), TYPE)
          BY <3>2 DEF SentFlags
        <5> QED  BY <1>5, <3>1, <5>1
      <4>2. Mark(h + 1) = OBJECT
        BY <3>1, <3>2 DEF Mark, Addressee
      <4> QED  BY <1>3, <4>1, <4>2
    <3>3. CASE p.object = 0 /\ p.type # 0
      <4>1. SentFlags(p) = f + 1
        BY <1>5, <3>1, <3>3 DEF SentFlags
      <4>2. Mark(h + 1) = TYPE
        BY <3>1, <3>3 DEF Mark, Addressee
      <4> QED  BY <1>3, <4>1, <4>2
    <3>4. CASE p.object = 0 /\ p.type = 0
      <4>1. SentFlags(p) = f
        BY <3>1, <3>4 DEF SentFlags
      <4>2. Mark(h + 1) = 0
        BY <3>1, <3>4 DEF Mark, Addressee
      <4> QED  BY <1>6, <4>1, <4>2
    <3> QED  BY <3>2, <3>3, <3>4
  <2>2. CASE h > 0
    <3>1. /\ p.type = 0 /\ p.object = Addressee(original) /\ p.flags = f + Mark(h)
          /\ h + 1 > 1
      BY <1>1, <2>2 DEF Arrived
    <3>2. CASE p.object # 0
      <4>1. Mark(h + 1) = OBJECT /\ (Mark(h) = OBJECT \/ Mark(h) = TYPE)
        BY <3>1, <3>2 DEF Mark
      <4>2. p.flags = f + 1 \/ p.flags = f + 2
        BY <1>3, <3>1, <4>1
      <4>3. SentFlags(p) = f + 2
        <5>1. SentFlags(p) = Unmark(Marked(p.flags, OBJECT), TYPE)
          BY <3>2 DEF SentFlags
        <5> QED  BY <1>5, <4>2, <5>1
      <4> QED  BY <1>3, <4>1, <4>3
    <3>3. CASE p.object = 0
      <4>1. Mark(h + 1) = 0 /\ Mark(h) = 0
        BY <3>1, <3>3 DEF Mark
      <4>2. SentFlags(p) = f
        BY <1>6, <3>1, <3>3, <4>1 DEF SentFlags
      <4> QED  BY <1>6, <4>1, <4>2
    <3> QED  BY <3>2, <3>3
  <2> QED  BY <2>1, <2>2
<1>8. Power[1] = Base
  <2>1. 1 \in 1..4 /\ 1 - 1 = 0 /\ Power[1] = Power[1 - 1] * Base /\ Power[0] = 1 /\ Base \in Nat
    BY PowerTypes DEF PacketsAssumption
  <2> QED  BY <2>1
<1>9. Mark(h + 1) \in {0, OBJECT, TYPE} /\ (Mark(h + 1) = 0 <=> Addressee(original) = 0)
  BY DEF Mark, OBJECT, TYPE
<1>10. SentFlags(p) \in {f, f + 1, f + 2}
  BY <1>3, <1>6, <1>7, <1>9
<1>11. SentFlags(p) \in Below(1)
  <2>1. Base \in Nat
    BY DEF PacketsAssumption
  <2> QED  BY <1>2, <1>8, <1>10, <2>1 DEF Below
<1>12. Has(SentFlags(p), OBJECT) \/ Has(SentFlags(p), TYPE) <=> Addressee(p) # 0
  <2>1. Addressee(p) = Addressee(original)
    BY DEF Arrived
  <2>2. CASE Mark(h + 1) = 0
    BY <1>3, <1>6, <1>7, <1>9, <2>1, <2>2
  <2>3. CASE Mark(h + 1) # 0
    BY <1>3, <1>7, <1>9, <2>1, <2>3
  <2> QED  BY <2>2, <2>3
<1> QED  BY <1>1, <1>7, <1>11, <1>12 DEF MarkedWell
-----------------------------------------------------------------------------
\* What is read of a packet of which there are n bytes
ReadWell(p, w, n, u) ==
    /\ u \in Seq(Byte) /\ Len(u) = n /\ w \in Seq(Byte) /\ n \in Nat
    /\ Deserialized(u) = ReadAs(p, n, u) /\ ReadAs(p, n, u) \in Packet
    /\ ReadOf(p, n) \in 0..8 /\ ReadOf(p, n) <= n
    /\ ReadAs(p, n, u).length = Len(ReadAs(p, n, u).data)
    /\ ReadAs(p, n, u).length = n - ReadOf(p, n)
    /\ \A k \in 1..(n - ReadOf(p, n)) : ReadAs(p, n, u).data[k] = w[ReadOf(p, n) + k]

(* A packet is read well, cut or whole.                                    *)
LEMMA ReadsWell ==
    ASSUME PacketsAssumption, NEW p \in Packet, MarkedWell(p),
           NEW w, w = Serialized(p), NEW n \in 0..Len(w), NEW u, u = SubSeq(w, 1, n)
    PROVE  ReadWell(p, w, n, u)
PROOF
<1>2. SentFlags(p) \in Nat /\ SentFlags(p) \in Below(1)
  <2>1. \A i \in Below(1) : i \in Nat
    BY PowerTypes DEF Below
  <2> QED  BY <2>1 DEF MarkedWell
<1>3. w \in Seq(Byte) /\ Len(w) \in Nat /\ n \in Nat /\ n <= Len(w) /\ u = SubSeq(w, 1, n)
  <2>1. w \in Seq(Byte)
    BY <1>2, SerializedLayout
  <2>2. Len(w) \in Nat
    BY <2>1, LenProperties
  <2> QED  BY <2>1, <2>2
<1>4. Deserialized(u) = ReadAs(p, n, u)
  BY <1>3, DeserializesCut
<1>5. \A i \in 1..n : w[i] \in Byte
  BY <1>3, ElementOfSeq
<1>6. u \in Seq(Byte) /\ Len(u) = n /\ \A i \in 1..n : u[i] = w[i]
  <2>1. PICK a : a = 0
    OBVIOUS
  <2>2. a \in Nat /\ a <= n /\ u = SubSeq(w, a + 1, n) /\ n - a = n
    BY <1>3, <2>1
  <2>3. u \in Seq(Byte) /\ Len(u) = n - a /\ \A k \in 1..(n - a) : u[k] = w[a + k]
    BY <1>3, <2>2, PartByIndex
  <2> QED  BY <1>3, <2>1, <2>2, <2>3
<1>7. PICK r : r = ReadOf(p, n)
  OBVIOUS
<1>8. r \in 0..8 /\ r <= n
  BY <1>3, <1>7 DEF ReadOf
<1>9. PICK d : d = SubSeq(u, r + 1, n)
  OBVIOUS
<1>10. /\ d \in Seq(Byte) /\ Len(d) = n - r
       /\ \A k \in 1..(n - r) : d[k] = w[r + k]
  <2>1. r \in Nat /\ r <= n /\ n <= Len(u)
    BY <1>3, <1>6, <1>8
  <2>2. d \in Seq(Byte) /\ Len(d) = n - r /\ \A k \in 1..(n - r) : d[k] = u[r + k]
    BY <1>3, <1>6, <1>9, <2>1, PartByIndex
  <2>3. \A k \in 1..(n - r) : r + k \in 1..n
    BY <1>3, <1>8
  <2> QED  BY <1>6, <2>2, <2>3
<1>11. 0 \in Below(1) /\ 0 \in Below(2) /\ 0 \in Below(4)
  <2>1. \A k \in 0..4 : 0 \in Below(k)
    <3> TAKE k \in 0..4
    <3>1. Power[k] \in Nat \ {0}
      BY PowerTypes
    <3> QED  BY <3>1 DEF Below
  <2> QED  BY <2>1
<1>12. /\ p.channel \in Below(1) /\ p.event \in Below(2) /\ Addressee(p) \in Below(4)
       /\ n - r \in Nat
  BY <1>3, <1>8 DEF Packet, Addressee
<1>13. ReadAs(p, n, u) =
         [flags |-> IF n >= 1 THEN SentFlags(p) ELSE 0, channel |-> IF n >= 2 THEN p.channel ELSE 0,
          event |-> IF n >= 4 THEN p.event ELSE 0, object |-> IF n >= 8 THEN Addressee(p) ELSE 0,
          type |-> 0, length |-> n - r, data |-> d]
  BY <1>7, <1>9 DEF ReadAs
<1>14. ReadAs(p, n, u) \in Packet
  BY <1>2, <1>10, <1>11, <1>12, <1>13 DEF Packet
<1>15. ReadAs(p, n, u).length = n - r /\ ReadAs(p, n, u).data = d
  BY <1>13
<1> QED  BY <1>3, <1>4, <1>6, <1>7, <1>8, <1>10, <1>14, <1>15 DEF ReadWell

(* A packet that is not cut arrives once more.                             *)
LEMMA WholeArrives ==
    ASSUME PacketsAssumption, original \in Packet, original.flags \in Flags,
           NEW p, NEW h \in Nat, Arrived(p, h), NEW n, n = Len(Serialized(p)), 
           NEW u, u = SubSeq(Serialized(p), 1, n)
    PROVE  Arrived(Deserialized(u), h + 1)
PROOF
<1>1. p \in Packet /\ SentFlags(p) = original.flags + Mark(h + 1) /\ MarkedWell(p)
  BY FlagsSent DEF Arrived
<1>2. SentFlags(p) \in Nat
  <2>1. \A i \in Below(1) : i \in Nat
    BY PowerTypes DEF Below
  <2> QED  BY <1>1, <2>1 DEF MarkedWell
<1>3. PICK w, d : w = Serialized(p) /\ d = UpToZero(p.data)
  OBVIOUS
<1>4. /\ w \in Seq(Byte) /\ n = HeaderOf(p) + Len(d)
      /\ \A k \in 1..Len(d) : w[HeaderOf(p) + k] = d[k]
  BY <1>1, <1>2, <1>3, SerializedLayout
<1>5. d \in Seq(Byte) /\ Len(d) \in Nat /\ d = UpToZero(original.data)
  <2>1. p.data \in Seq(Byte) /\ original.data \in Seq(Byte)
    BY <1>1 DEF Packet
  <2>2. d \in Seq(Byte) /\ Len(d) \in Nat
    BY <1>3, <2>1, UpToZeroTypes, LenProperties
  <2>3. CASE h = 0
    BY <1>3, <2>2, <2>3 DEF Arrived
  <2>4. CASE h > 0
    BY <1>3, <2>1, <2>2, <2>4, UpToZeroTypes DEF Arrived
  <2> QED  BY <2>3, <2>4
<1>6. HeaderOf(p) \in {4, 8} /\ ReadOf(p, n) = HeaderOf(p) /\ n >= 4 /\ n \in Nat
  BY <1>4, <1>5 DEF HeaderOf, ReadOf
<1>7. PICK q : q = ReadAs(p, n, u)
  OBVIOUS
<1>8. n \in 0..Len(w) /\ u = SubSeq(w, 1, n)
  BY <1>3, <1>6
<1>9. /\ Deserialized(u) = q /\ q \in Packet /\ q.length = Len(q.data) /\ q.length = n - ReadOf(p, n)
      /\ \A k \in 1..(n - ReadOf(p, n)) : q.data[k] = w[ReadOf(p, n) + k]
  <2>1. ReadWell(p, w, n, u)
    BY <1>1, <1>3, <1>8, ReadsWell
  <2> QED  BY <1>7, <2>1 DEF ReadWell
<1>10. q.data = d
  <2>1. n - ReadOf(p, n) = Len(d)
    BY <1>4, <1>5, <1>6
  <2>2. q.data \in Seq(Byte) /\ Len(q.data) = Len(d)
    BY <1>9, <2>1 DEF Packet
  <2>3. \A k \in 1..Len(q.data) : q.data[k] = d[k]
    BY <1>4, <1>6, <1>9, <2>1, <2>2
  <2> QED  BY <1>5, <2>2, <2>3, SeqEqual
<1>11. /\ q.flags = SentFlags(p) /\ q.channel = p.channel /\ q.event = p.event /\ q.type = 0
       /\ q.object = IF n >= 8 THEN Addressee(p) ELSE 0
  BY <1>6, <1>7 DEF ReadAs
<1>12. q.object = Addressee(p)
  <2>1. CASE Addressee(p) # 0
    <3>1. n >= 8
      BY <1>4, <1>5, <2>1 DEF HeaderOf
    <3> QED  BY <1>11, <3>1
  <2>2. CASE Addressee(p) = 0
    BY <1>11, <2>2
  <2> QED  BY <2>1, <2>2
<1>13. Addressee(q) = Addressee(p)
  BY <1>11, <1>12 DEF Addressee
<1>14. h + 1 # 0 /\ h + 1 > 0
  OBVIOUS
<1> QED  BY <1>1, <1>5, <1>9, <1>10, <1>11, <1>12, <1>13, <1>14 DEF Arrived
-----------------------------------------------------------------------------
(* A packet that was made has not been sent.                               *)
LEMMA PacketInitInv == PacketsAssumption /\ PacketsInit => PacketInv
PROOF
<1> SUFFICES ASSUME PacketsAssumption, PacketsInit PROVE PacketInv
  OBVIOUS
<1>1. PICK f \in Flags, c \in Channels, e \in Events, o \in Ids, t \in Ids, d \in Payloads :
        packet = [flags |-> f, channel |-> c, event |-> e, object |-> o, type |-> t,
                  length |-> Len(d), data |-> d]
  BY DEF PacketsInit
<1>2. original = packet /\ wire = <<>> /\ at = "memory" /\ hops = 0
  BY DEF PacketsInit
<1>3. /\ f \in Nat /\ f + 3 < Base /\ c \in Below(1) /\ e \in Below(2) /\ o \in Below(4)
      /\ t \in Below(4) /\ d \in Seq(Byte) /\ Base \in Nat /\ MaxHops \in Nat
  BY DEF PacketsAssumption
<1>4. f \in Below(1)
  <2>1. 1 \in 1..4 /\ 1 - 1 = 0 /\ Power[1] = Power[1 - 1] * Base /\ Power[0] = 1
    BY PowerTypes
  <2>2. Power[1] = Base
    BY <1>3, <2>1
  <2> QED  BY <1>3, <2>2 DEF Below
<1>5. Len(d) \in Nat
  BY <1>3, LenProperties
<1>6. packet \in Packet /\ packet.length = Len(packet.data) /\ packet.flags \in Flags
  BY <1>1, <1>3, <1>4, <1>5 DEF Packet
<1>7. Arrived(packet, 0)
  BY <1>2, <1>6 DEF Arrived
<1>8. <<>> \in Seq(Byte)
  BY EmptySeq
<1> QED  BY <1>2, <1>3, <1>6, <1>7, <1>8 DEF PacketInv, CutPacketsRead

(* It is sent as a whole,                                                  *)
LEMMA SendInv == PacketsAssumption /\ PacketInv /\ Send => PacketInv'
PROOF
<1> SUFFICES ASSUME PacketsAssumption, PacketInv, Send PROVE PacketInv'
  OBVIOUS
<1>1. /\ original \in Packet /\ original.flags \in Flags /\ hops \in Nat
      /\ Arrived(packet, hops) /\ hops < MaxHops /\ MaxHops \in Nat /\ packet \in Packet
  BY DEF PacketInv, Send, PacketsAssumption
<1>2. PICK w : w = Serialized(packet)
  OBVIOUS
<1>3. MarkedWell(packet)
  BY <1>1, FlagsSent
<1>4. w \in Seq(Byte) /\ Len(w) \in Nat
  <2>1. \A i \in Below(1) : i \in Nat
    BY PowerTypes DEF Below
  <2>2. SentFlags(packet) \in Nat
    BY <1>3, <2>1 DEF MarkedWell
  <2>3. w \in Seq(Byte)
    BY <1>1, <1>2, <2>2, SerializedLayout
  <2> QED  BY <2>3, LenProperties
<1>5. SubSeq(w, 1, Len(w)) = w
  BY <1>4, SubSeqFull
<1>6. /\ wire' = w /\ at' = "wire" /\ hops' = hops + 1 /\ packet' = packet /\ original' = original
  BY <1>2 DEF Send
<1>8. hops' - 1 = hops /\ hops' > 0 /\ hops' \in 0..MaxHops
  BY <1>1, <1>6
<1>9. (Arrived(packet, hops - 1))'
  <2>1. Arrived(packet, hops' - 1)
    BY <1>1, <1>8
  <2> QED  BY <1>6, <2>1 DEF Arrived, Mark
<1>10. OnTheWire(Len(w))'
  BY <1>2, <1>5, <1>6, <1>8, <1>9 DEF OnTheWire
<1>11. Serialized(packet)' = w /\ Len(w) \in 0..Len(w)
  BY <1>2, <1>4, <1>6
<1>12. \E n \in 0..Len(Serialized(packet))' :
          OnTheWire(n)' /\ (at' = "wire" => n = Len(Serialized(packet))')
  BY <1>10, <1>11
<1>13. (CutPacketsRead)'
  BY <1>6 DEF CutPacketsRead
<1> QED  BY <1>1, <1>4, <1>6, <1>8, <1>12, <1>13 DEF PacketInv

(* what is left of it when it was cut is the beginning of it,              *)
LEMMA CutInv == PacketsAssumption /\ PacketInv /\ Cut => PacketInv'
PROOF
<1> SUFFICES ASSUME PacketsAssumption, PacketInv, Cut PROVE PacketInv'
  OBVIOUS
<1>1. /\ original \in Packet /\ original.flags \in Flags /\ hops \in 0..MaxHops /\ MaxHops \in Nat
      /\ packet \in Packet /\ packet.length = Len(packet.data) /\ at = "wire"
  BY DEF PacketInv, Cut, PacketsAssumption
<1>2. PICK w : w = Serialized(packet)
  OBVIOUS
<1>3. PICK n \in 0..Len(w) : OnTheWire(n) /\ n = Len(w)
  BY <1>1, <1>2 DEF PacketInv
<1>4. hops > 0 /\ hops - 1 \in Nat /\ Arrived(packet, hops - 1) /\ wire = SubSeq(w, 1, Len(w))
  BY <1>1, <1>2, <1>3 DEF OnTheWire
<1>5. MarkedWell(packet)
  BY <1>1, <1>4, FlagsSent
<1>6. w \in Seq(Byte) /\ Len(w) \in Nat
  <2>1. \A i \in Below(1) : i \in Nat
    BY PowerTypes DEF Below
  <2>2. SentFlags(packet) \in Nat
    BY <1>5, <2>1 DEF MarkedWell
  <2>3. w \in Seq(Byte)
    BY <1>1, <1>2, <2>2, SerializedLayout
  <2> QED  BY <2>3, LenProperties
<1>7. wire = w
  BY <1>4, <1>6, SubSeqFull
<1>8. PICK m \in 0..(Len(w) - 1) : wire' = SubSeq(w, 1, m)
  BY <1>7 DEF Cut
<1>9. at' = "cut" /\ packet' = packet /\ hops' = hops /\ original' = original
  BY DEF Cut
<1>10. m \in 0..Len(w)
  BY <1>6, <1>8
<1>11. wire' \in Seq(Byte)
  <2>1. ReadWell(packet, w, m, wire')
    BY <1>1, <1>2, <1>5, <1>8, <1>10, ReadsWell
  <2> QED  BY <2>1 DEF ReadWell
<1>12. Arrived(packet, hops - 1)'
  BY <1>4, <1>9 DEF Arrived, Mark
<1>13. OnTheWire(m)'
  BY <1>2, <1>4, <1>8, <1>9, <1>12 DEF OnTheWire
<1>14. Serialized(packet)' = w
  BY <1>2, <1>9
<1>15. \E k \in 0..Len(Serialized(packet))' : OnTheWire(k)'
  BY <1>10, <1>13, <1>14
<1>16. CutPacketsRead'
  BY <1>9 DEF CutPacketsRead
<1> QED  BY <1>1, <1>9, <1>11, <1>15, <1>16 DEF PacketInv
(* and it arrives, whole or cut.                                           *)
LEMMA ReceiveInv == PacketsAssumption /\ PacketInv /\ Receive => PacketInv'
PROOF
<1> SUFFICES ASSUME PacketsAssumption, PacketInv, Receive PROVE PacketInv'
  OBVIOUS
<1>1. /\ original \in Packet /\ original.flags \in Flags /\ hops \in 0..MaxHops /\ MaxHops \in Nat
      /\ packet \in Packet /\ at \in {"wire", "cut"} /\ wire \in Seq(Byte)
  BY DEF PacketInv, Receive, PacketsAssumption
<1>2. PICK w : w = Serialized(packet)
  OBVIOUS
<1>3. PICK n \in 0..Len(w) : OnTheWire(n) /\ (at = "wire" => n = Len(w))
  BY <1>1, <1>2 DEF PacketInv
<1>4. /\ hops > 0 /\ hops - 1 \in Nat /\ (hops - 1) + 1 = hops
      /\ Arrived(packet, hops - 1) /\ wire = SubSeq(w, 1, n)
  BY <1>1, <1>2, <1>3 DEF OnTheWire
<1>5. MarkedWell(packet)
  BY <1>1, <1>4, FlagsSent
<1>6. ReadWell(packet, w, n, wire)
  BY <1>1, <1>2, <1>4, <1>5, ReadsWell
<1>7. PICK q : q = ReadAs(packet, n, wire)
  OBVIOUS
<1>8. packet' = q /\ hops' = hops /\ original' = original /\ wire' = wire
  BY <1>6, <1>7 DEF Receive, ReadWell
<1>9. q \in Packet /\ q.length = Len(q.data) /\ q.length = n - ReadOf(packet, n)
  BY <1>6, <1>7 DEF ReadWell
<1>10. CASE at = "wire"
  <2>1. at' = "memory"
    BY <1>10 DEF Receive
  <2>2. Arrived(Deserialized(wire), (hops - 1) + 1)
    <3>1. PICK h, m : h = hops - 1 /\ m = n
      OBVIOUS
    <3>2. h \in Nat /\ Arrived(packet, h) /\ m = Len(Serialized(packet))
          /\ wire = SubSeq(Serialized(packet), 1, m)
      BY <1>2, <1>3, <1>4, <1>10, <3>1
    <3>3. Arrived(Deserialized(wire), h + 1)
      BY <1>1, <3>2, WholeArrives
    <3> QED  BY <3>1, <3>3
  <2>3. Arrived(q, hops)
    BY <1>4, <1>8, <2>2 DEF Receive
  <2>4. Arrived(packet, hops)'
    BY <1>8, <2>3 DEF Arrived, Mark
  <2>5. CutPacketsRead'
    BY <2>1 DEF CutPacketsRead
  <2> QED  BY <1>1, <1>8, <1>9, <2>1, <2>4, <2>5 DEF PacketInv
<1>11. CASE at = "cut"
  <2>1. at' = "end"
    BY <1>11 DEF Receive
  <2>2. Len(wire) = n /\ n \in Nat /\ ReadOf(packet, n) \in 0..8 /\ ReadOf(packet, n) <= n
    BY <1>6 DEF ReadWell
  <2>3. PICK r \in 0..8 : r = ReadOf(packet, n)
    BY <2>2
  <2>4. /\ q.length = n - r /\ q.data = SubSeq(wire, r + 1, n)
        /\ q.channel = (IF n >= 2 THEN packet.channel ELSE 0)
        /\ q.event = (IF n >= 4 THEN packet.event ELSE 0)
        /\ q.object = (IF n >= 8 THEN Addressee(packet) ELSE 0)
    BY <1>7, <2>3 DEF ReadAs
  <2>5. n < 4 => r = IF n >= 2 THEN 2 ELSE n
    BY <2>2, <2>3 DEF ReadOf
  <2>6. q.length \in 0..Len(wire) /\ Len(wire) - q.length \in 0..8
    BY <2>2, <2>3, <2>4
  <2>7. q.data = SubSeq(wire, Len(wire) - q.length + 1, Len(wire))
    <3>1. Len(wire) - q.length + 1 = r + 1
      BY <2>2, <2>3, <2>4
    <3> QED  BY <2>2, <2>4, <3>1
  <2>8. q.channel \in {0, original.channel}
    BY <1>4, <2>4 DEF Arrived
  <2>9. Len(wire) < 4 => q.event = 0 /\ q.length <= 1
    BY <2>2, <2>3, <2>4, <2>5
  <2>10. Len(wire) < 8 => q.object = 0
    BY <2>2, <2>4
  <2>11. CutPacketsRead'
    BY <1>8, <2>1, <2>6, <2>7, <2>8, <2>9, <2>10 DEF CutPacketsRead
  <2> QED  BY <1>1, <1>8, <1>9, <2>1, <2>11 DEF PacketInv
<1> QED  BY <1>1, <1>10, <1>11

(* What the properties of packets follow from, PacketInv, holds always.   *)
THEOREM PacketInvariant ==
    ASSUME PacketsAssumption
    PROVE  PacketsSpec => []PacketInv
PROOF
<1>1. PacketsInit => PacketInv
  BY PacketInitInv
<1>2. PacketInv /\ [PacketsNext]_packetVars => PacketInv'
  <2> SUFFICES ASSUME PacketInv, [PacketsNext]_packetVars PROVE PacketInv'
    OBVIOUS
  <2>1. CASE Send
    BY <2>1, SendInv
  <2>2. CASE Cut
    BY <2>2, CutInv
  <2>3. CASE Receive
    BY <2>3, ReceiveInv
  <2>4. CASE UNCHANGED packetVars
    <3>1. /\ packet' = packet /\ wire' = wire /\ at' = at /\ hops' = hops /\ original' = original
      BY <2>4 DEF packetVars
    <3> QED  BY <3>1 DEF PacketInv, CutPacketsRead, OnTheWire, Arrived, Mark
  <2> QED  BY <2>1, <2>2, <2>3, <2>4 DEF PacketsNext
<1> QED  BY <1>1, <1>2, PTL DEF PacketsSpec

(* Types of packets: whatever is sent and cut, all fields fit their widths *)
(* (network/packet.c).                                                     *)
THEOREM PacketsKeepTypes ==
    ASSUME PacketsAssumption
    PROVE  PacketsSpec => []PacketTypes
PROOF
<1>1. PacketInv => PacketTypes
  BY DEF PacketInv, PacketTypes, Packet
<1> QED  BY <1>1, PacketInvariant, PTL

(* What is sent arrives, however often it is sent on, and a packet that    *)
(* was cut is read within its bytes: for any packets, bytes and hops       *)
(* (ilN_packet_serialize(), ilN_packet_deserialize()).                     *)
THEOREM PacketsDoArrive ==
    ASSUME PacketsAssumption
    PROVE  PacketsSpec => []PacketsArrive
PROOF
<1>1. PacketInv => PacketSurvives
  <2> SUFFICES ASSUME PacketInv, at = "memory", hops > 0
               PROVE  /\ packet.channel = original.channel /\ packet.event = original.event
                      /\ Unmark(Unmark(packet.flags, TYPE), OBJECT) = original.flags
                      /\ packet.object = Addressee(original) /\ packet.data = UpToZero(original.data)
                      /\ Has(packet.flags, OBJECT) <=> original.object # 0 \/ (original.type # 0 /\ hops > 1)
                      /\ Has(packet.flags, TYPE) <=> original.object = 0 /\ original.type # 0 /\ hops = 1
    BY DEF PacketSurvives
  <2>1. /\ packet.channel = original.channel /\ packet.event = original.event
        /\ packet.object = Addressee(original) /\ packet.data = UpToZero(original.data)
        /\ packet.flags = original.flags + Mark(hops)
    BY DEF PacketInv, Arrived
  <2>2. PICK f : f = original.flags
    OBVIOUS
  <2>3. f \in Nat /\ f % 4 = 0 /\ hops \in Nat
    BY <2>2 DEF PacketInv, PacketsAssumption
  <2>4. /\ ~Has(f, TYPE) /\ ~Has(f, OBJECT)
        /\ Has(f + TYPE, TYPE) /\ ~Has(f + TYPE, OBJECT)
        /\ ~Has(f + OBJECT, TYPE) /\ Has(f + OBJECT, OBJECT)
        /\ f + TYPE = f + 1 /\ f + OBJECT = f + 2
    BY <2>3, ReservedFlags
  <2>5. (f + 1) - TYPE = f /\ (f + 2) - OBJECT = f /\ f + 0 = f
    BY <2>3 DEF OBJECT, TYPE
  <2>6. CASE Addressee(original) = 0
    <3>1. original.object = 0 /\ original.type = 0
      BY <2>6 DEF Addressee
    <3>2. packet.flags = f
      BY <2>1, <2>2, <2>5, <2>6 DEF Mark
    <3>3. Unmark(Unmark(packet.flags, TYPE), OBJECT) = f
      BY <2>4, <3>2 DEF Unmark
    <3> QED  BY <2>1, <2>2, <2>4, <3>1, <3>2, <3>3
  <2>7. CASE Addressee(original) # 0 /\ (original.object # 0 \/ hops > 1)
    <3>1. original.object # 0 \/ original.type # 0
      BY <2>7 DEF Addressee
    <3>2. packet.flags = f + 2
      BY <2>1, <2>2, <2>4, <2>7 DEF Mark
    <3>3. Unmark(packet.flags, TYPE) = f + 2
      BY <2>4, <3>2 DEF Unmark
    <3>4. Unmark(f + 2, OBJECT) = f
      BY <2>4, <2>5 DEF Unmark
    <3>5. ~(original.object = 0 /\ hops = 1)
      BY <2>3, <2>7
    <3> QED  BY <2>1, <2>2, <2>4, <2>7, <3>1, <3>2, <3>3, <3>4, <3>5
  <2>8. CASE Addressee(original) # 0 /\ original.object = 0 /\ ~(hops > 1)
    <3>1. original.type # 0 /\ hops = 1
      BY <2>3, <2>8 DEF Addressee
    <3>2. packet.flags = f + 1
      BY <2>1, <2>2, <2>4, <2>8 DEF Mark
    <3>3. Unmark(packet.flags, TYPE) = f
      BY <2>4, <2>5, <3>2 DEF Unmark
    <3>4. Unmark(f, OBJECT) = f
      BY <2>4 DEF Unmark
    <3> QED  BY <2>1, <2>2, <2>4, <2>8, <3>1, <3>2, <3>3, <3>4
  <2> QED  BY <2>6, <2>7, <2>8
<1>2. PacketInv => CutPacketsRead
  BY DEF PacketInv
<1> QED  BY <1>1, <1>2, PacketInvariant, PTL DEF PacketsArrive
-----------------------------------------------------------------------------
(***************************************************************************)
(* Counted strings.  The invariant is about the structs st, the memory me  *)
(* and the references f to each struct, so that a step that gives up one   *)
(* reference and takes another can be shown one after the other.           *)
(***************************************************************************)

\* Behind byte a of b there are n bytes that read as t
Reads(b, a, n, t) ==
    /\ b \in Seq(Nat) /\ t \in Seq(Nat \ {0}) /\ a \in Nat /\ n \in Nat
    /\ a + n <= Len(b) /\ Len(t) <= n
    /\ \A i \in 1..Len(t) : b[a + i] = t[i]
    /\ \A i \in 1..n : i > Len(t) => b[a + i] = 0

\* Those bytes, and what il_string_cstring() gives of them
Part(b, a, n) == SubSeq(b, a + 1, a + n)
Within(N, b, a, n) == b \in Seq(N) /\ a \in Nat /\ n \in Nat /\ a + n <= Len(b)
ReadFrom(b, a, n) == LET c == Part(b, a, n) IN SubSeq(c, 1, Strnlen(c, Len(c)))

\* f[h] uses of each h
Uses(S, f) == UNION {{h} \X (1..f[h]) : h \in S}
Counted(S, f, n) == IsFiniteSet(Uses(S, f)) /\ Cardinality(Uses(S, f)) = n

Slices(st, o) == {h \in Slot : st[h] # Null /\ st[h].of = o}

\* A struct, and the bytes it shares
GoodStruct(st, me, f, h) ==
    LET s == st[h]
        o == s.of
    IN  /\ st[o] # Null /\ st[o].of = o /\ me[o] # Null
        /\ s.length <= s.capacity
        /\ s.overrun => s.spare
        /\ o = h => s.at = 0 /\ (s.spare \/ s.capacity <= Len(me[h].bytes))
        /\ f[h] > 0 /\ ~s.overrun => Reads(me[o].bytes, s.at, s.length, s.text)

Consistent(st, me, f) ==
    /\ st \in [Slot -> Struct \cup {Null}] /\ me \in [Slot -> Memory \cup {Null}]
    /\ f \in [Slot -> Nat]
    /\ \A h \in Slot : st[h] # Null => GoodStruct(st, me, f, h)
    /\ \A h \in Slot : f[h] > 0 => st[h] # Null
    /\ \A o \in Slot : me[o] # Null => /\ st[o] # Null /\ st[o].of = o
                                       /\ Counted(Slices(st, o), f, me[o].refs)

AllHolders == [h \in Slot |-> Holders(h)]

StringsInv == StringTypes /\ Consistent(str, memory, AllHolders)

(* The same of PartByIndex, for sequences of numbers.                      *)
LEMMA PartOfNumbers ==
    ASSUME NEW N, NEW b, NEW a, NEW n, Within(N, b, a, n)
    PROVE  /\ Part(b, a, n) \in Seq(N) /\ Len(Part(b, a, n)) = n
           /\ \A k \in 1..n : Part(b, a, n)[k] = b[a + k]
PROOF
<1>1. PICK m, c : m = a + n /\ c = SubSeq(b, a + 1, m)
  OBVIOUS
<1>2. /\ b \in Seq(N) /\ a \in Nat /\ n \in Nat /\ m \in Nat /\ a <= m /\ m <= Len(b) /\ m - a = n
      /\ c = SubSeq(b, a + 1, m)
  BY <1>1 DEF Within
<1>3. c \in Seq(N) /\ Len(c) = m - a /\ \A k \in 1..(m - a) : c[k] = b[a + k]
  BY <1>2, PartByIndex
<1>4. Part(b, a, n) = c
  BY <1>1 DEF Part
<1> QED  BY <1>2, <1>3, <1>4

(* What a sequence of numbers begins with.                                 *)
LEMMA BeginningIs ==
    ASSUME NEW c \in Seq(Nat), NEW t \in Seq(Nat), Len(t) <= Len(c),
           \A k \in 1..Len(t) : c[k] = t[k]
    PROVE  SubSeq(c, 1, Len(t)) = t
PROOF
<1>1. Len(t) \in Nat /\ Len(c) \in Nat
  BY LenProperties
<1>2. PICK a, n, u : a = 0 /\ n = Len(t) /\ u = SubSeq(c, 1, n)
  OBVIOUS
<1>3. a \in Nat /\ n \in Nat /\ a + n <= Len(c) /\ u = SubSeq(c, a + 1, a + n) /\ \A k \in 1..n : a + k = k
  BY <1>1, <1>2
<1>4. u \in Seq(Nat) /\ Len(u) = n /\ \A k \in 1..n : u[k] = c[a + k]
  <2>1. PICK N : N = Nat
    OBVIOUS
  <2>2. Within(N, c, a, n) /\ u = Part(c, a, n)
    BY <2>1, <1>3 DEF Part, Within
  <2>3. u \in Seq(N) /\ Len(u) = n /\ \A k \in 1..n : u[k] = c[a + k]
    BY <2>2, PartOfNumbers
  <2> QED  BY <2>1, <2>3
<1>5. u \in Seq(Nat) /\ Len(u) = Len(t) /\ \A k \in 1..Len(u) : u[k] = t[k]
  BY <1>2, <1>3, <1>4
<1>6. u = t
  BY <1>5, SeqEqual
<1> QED  BY <1>2, <1>6

(* The same of ConcatProperties.                                           *)
LEMMA ConcatOfNumbers ==
    ASSUME NEW s \in Seq(Nat), NEW t \in Seq(Nat)
    PROVE  /\ s \o t \in Seq(Nat) /\ Len(s) \in Nat /\ Len(t) \in Nat
           /\ Len(s \o t) = Len(s) + Len(t)
           /\ \A i \in 1..(Len(s) + Len(t)) : (s \o t)[i] = IF i <= Len(s) THEN s[i] ELSE t[i - Len(s)]
PROOF
<1>1. PICK N : N = Nat
  OBVIOUS
<1>2. s \in Seq(N) /\ t \in Seq(N)
  BY <1>1
<1>3. PICK u : u = s \o t
  OBVIOUS
<1>4. /\ u \in Seq(N) /\ Len(u) = Len(s) + Len(t)
      /\ \A i \in 1..(Len(s) + Len(t)) : u[i] = IF i <= Len(s) THEN s[i] ELSE t[i - Len(s)]
  BY <1>2, <1>3, ConcatProperties
<1>5. Len(s) \in Nat /\ Len(t) \in Nat
  BY LenProperties
<1> QED  BY <1>1, <1>3, <1>4, <1>5

(* A text ends at the first zero: what il_string_cstring() gives.          *)
LEMMA CStringReads ==
    ASSUME NEW b, NEW a, NEW n, NEW t, Reads(b, a, n, t)
    PROVE  ReadFrom(b, a, n) = t
PROOF
<1> PICK c : c = Part(b, a, n)
  OBVIOUS
<1>1. /\ b \in Seq(Nat) /\ t \in Seq(Nat \ {0}) /\ a \in Nat /\ n \in Nat
      /\ a + n <= Len(b) /\ Len(t) <= n
      /\ \A i \in 1..Len(t) : b[a + i] = t[i]
      /\ \A i \in 1..n : i > Len(t) => b[a + i] = 0
  BY DEF Reads
<1>2. c \in Seq(Nat) /\ Len(c) = n /\ \A k \in 1..n : c[k] = b[a + k]
  <2>1. PICK N : N = Nat
    OBVIOUS
  <2>2. Within(N, b, a, n) /\ c = Part(b, a, n)
    BY <2>1, <1>1 DEF Within
  <2>3. c \in Seq(N) /\ Len(c) = n /\ \A k \in 1..n : c[k] = b[a + k]
    BY <2>2, PartOfNumbers
  <2> QED  BY <2>1, <2>3
<1>3. PICK m : m = Len(t)
  OBVIOUS
<1>4. m \in Nat /\ \A i \in 1..m : t[i] \in Nat \ {0}
  BY <1>1, <1>3, LenProperties, ElementOfSeq
<1>5. PICK ends : ends = {i \in 1..n : c[i] = 0}
  OBVIOUS
<1>6. ends = {i \in 1..n : i > m}
  <2>1. ASSUME NEW i \in 1..n PROVE c[i] = 0 <=> i > m
    <3>1. CASE i > m
      BY <3>1, <1>1, <1>2, <1>3
    <3>2. CASE ~(i > m)
      <4>1. i \in 1..m
        BY <3>2, <1>1, <1>4
      <4>2. c[i] = t[i] /\ t[i] # 0
        BY <4>1, <1>1, <1>2, <1>3, <1>4
      <4> QED  BY <3>2, <4>2
    <3> QED  BY <3>1, <3>2
  <2> QED  BY <2>1, <1>5
<1>7. Strnlen(c, n) = m
  <2>1. CASE m = n
    <3>1. ends = {}
      BY <2>1, <1>1, <1>6
    <3> QED  BY <2>1, <3>1, <1>5 DEF Strnlen
  <2>2. CASE m # n
    <3>1. m + 1 \in ends /\ \A i \in ends : m + 1 <= i
      BY <2>2, <1>1, <1>3, <1>4, <1>6
    <3>2. ends \in SUBSET Nat /\ ends # {}
      BY <3>1, <1>6
    <3>3. Min(ends) \in ends /\ \A i \in ends : Min(ends) <= i
      BY <3>2, MinIsLeast
    <3>4. PICK x : x = Min(ends)
      OBVIOUS
    <3>5. x \in Nat /\ m + 1 <= x /\ x <= m + 1
      BY <3>1, <3>2, <3>3, <3>4
    <3>6. x = m + 1
      BY <3>5, <1>4
    <3>7. Strnlen(c, n) = x - 1
      BY <3>2, <3>4, <1>5 DEF Strnlen
    <3> QED  BY <3>6, <3>7, <1>4
  <2> QED  BY <2>1, <2>2
<1>8. c \in Seq(Nat) /\ t \in Seq(Nat) /\ Len(t) <= Len(c) /\ \A k \in 1..Len(t) : c[k] = t[k]
  <2>1. t \in Seq(Nat)
    BY <1>1
  <2>2. m <= n /\ \A k \in 1..m : k \in 1..n
    BY <1>1, <1>3, <1>4
  <2>3. ASSUME NEW k \in 1..m PROVE c[k] = t[k]
    <3>1. c[k] = b[a + k] /\ b[a + k] = t[k]
      BY <2>2, <1>1, <1>2, <1>3
    <3> QED  BY <3>1
  <2> QED  BY <2>1, <2>2, <2>3, <1>2, <1>3
<1>9. SubSeq(c, 1, Len(t)) = t
  BY <1>8, BeginningIs
<1>10. SubSeq(c, 1, Strnlen(c, Len(c))) = t
  BY <1>2, <1>3, <1>7, <1>9
<1> QED  BY <1>10 DEF ReadFrom

\* What il_string_copy() takes of those bytes, with an end behind it
Ended(b, a, n) == Part(b, a, n) \o <<0>>

(* It reads the same.                                                      *)
LEMMA CopyReads ==
    ASSUME NEW b, NEW a, NEW n, NEW t, Reads(b, a, n, t)
    PROVE  Reads(Ended(b, a, n), 0, n, t) /\ Len(Ended(b, a, n)) = n + 1
PROOF
<1>1. /\ b \in Seq(Nat) /\ t \in Seq(Nat \ {0}) /\ a \in Nat /\ n \in Nat
      /\ a + n <= Len(b) /\ Len(t) <= n
      /\ \A i \in 1..Len(t) : b[a + i] = t[i]
      /\ \A i \in 1..n : i > Len(t) => b[a + i] = 0
  BY DEF Reads
<1>2. PICK d : d = Part(b, a, n)
  OBVIOUS
<1>3. d \in Seq(Nat) /\ Len(d) = n /\ \A k \in 1..n : d[k] = b[a + k]
  <2>1. PICK N : N = Nat
    OBVIOUS
  <2>2. Within(N, b, a, n) /\ d = Part(b, a, n)
    BY <2>1, <1>1, <1>2 DEF Within
  <2>3. d \in Seq(N) /\ Len(d) = n /\ \A k \in 1..n : d[k] = b[a + k]
    BY <2>2, PartOfNumbers
  <2> QED  BY <2>1, <2>3
<1>4. PICK e, c, z, l : e = <<0>> /\ c = d \o e /\ z = 0 /\ l = Len(t)
  OBVIOUS
<1>5. e \in Seq(Nat) /\ Len(e) = 1
  BY <1>4
<1>6. /\ c \in Seq(Nat) /\ Len(c) = n + 1
      /\ \A k \in 1..n : c[k] = d[k]
  BY <1>1, <1>3, <1>4, <1>5, ConcatOfNumbers
<1>7. l \in Nat /\ l <= n
  BY <1>1, <1>4, LenProperties
<1>8. \A i \in 1..l : c[z + i] = t[i]
  <2> TAKE i \in 1..l
  <2>1. i \in 1..n /\ z + i = i /\ b[a + i] = t[i]
    BY <1>1, <1>4, <1>7
  <2> QED  BY <2>1, <1>3, <1>6
<1>9. \A i \in 1..n : i > l => c[z + i] = 0
  <2> SUFFICES ASSUME NEW i \in 1..n, i > l PROVE c[z + i] = 0
    OBVIOUS
  <2>1. z + i = i /\ b[a + i] = 0
    BY <1>1, <1>4
  <2> QED  BY <2>1, <1>3, <1>6
<1>10. z \in Nat /\ z + n <= Len(c)
  BY <1>1, <1>4, <1>6
<1>11. Reads(c, z, n, t)
  BY <1>1, <1>4, <1>6, <1>7, <1>8, <1>9, <1>10 DEF Reads
<1>12. Ended(b, a, n) = c
  BY <1>2, <1>4 DEF Ended
<1> QED  BY <1>4, <1>6, <1>11, <1>12

(* A C string, or the beginning of one, with its end or without.           *)
LEMMA BeginningReads ==
    ASSUME NEW t \in Seq(Nat \ {0}), NEW n \in Nat, n <= Len(t),
           NEW m \in Nat, m = n \/ (m = n + 1 /\ n = Len(t))
    PROVE  /\ Reads(t \o <<0>>, 0, m, SubSeq(t, 1, n)) /\ Len(t \o <<0>>) = Len(t) + 1
           /\ SubSeq(t, 1, n) \in Seq(Nat \ {0})
PROOF
<1>1. PICK P, a, u, e : P = Nat \ {0} /\ a = 0 /\ u = SubSeq(t, 1, n) /\ e = <<0>>
  OBVIOUS
<1>2. Len(t) \in Nat /\ t \in Seq(Nat) /\ e \in Seq(Nat) /\ Len(e) = 1 /\ e[1] = 0
  BY <1>1, LenProperties
<1>3. u \in Seq(P) /\ Len(u) = n - a /\ \A k \in 1..(n - a) : u[k] = t[a + k]
  <2>1. t \in Seq(P) /\ a \in Nat /\ n \in Nat /\ a <= n /\ n <= Len(t) /\ u = SubSeq(t, a + 1, n)
    BY <1>1, <1>2
  <2> QED  BY <2>1, PartByIndex
<1>4. u \in Seq(Nat \ {0}) /\ Len(u) = n /\ \A k \in 1..n : u[k] = t[k]
  <2>1. n - a = n /\ \A k \in 1..n : a + k = k
    BY <1>1
  <2> QED  BY <1>1, <1>3, <2>1
<1>5. PICK b : b = t \o e
  OBVIOUS
<1>6. /\ b \in Seq(Nat) /\ Len(b) = Len(t) + 1
      /\ \A i \in 1..(Len(t) + 1) : b[i] = IF i <= Len(t) THEN t[i] ELSE e[i - Len(t)]
  BY <1>2, <1>5, ConcatOfNumbers
<1>7. \A i \in 1..Len(u) : b[0 + i] = u[i]
  <2> SUFFICES ASSUME NEW i \in 1..n PROVE b[i] = u[i]
    BY <1>4
  <2>1. i \in 1..(Len(t) + 1) /\ i <= Len(t)
    BY <1>2
  <2> QED  BY <2>1, <1>4, <1>6
<1>8. \A i \in 1..m : i > Len(u) => b[0 + i] = 0
  <2> SUFFICES ASSUME NEW i \in 1..m, i > n PROVE b[i] = 0
    BY <1>4
  <2>1. i = Len(t) + 1 /\ i - Len(t) = 1 /\ ~(i <= Len(t)) /\ i \in 1..(Len(t) + 1)
    BY <1>2
  <2> QED  BY <2>1, <1>2, <1>6
<1>9. Reads(b, 0, m, u)
  BY <1>2, <1>4, <1>6, <1>7, <1>8 DEF Reads
<1> QED  BY <1>1, <1>4, <1>5, <1>6, <1>9

(* A string as it is created fits what is allocated for it.                *)
GoodMade(m) ==
    /\ m.bytes \in Seq(Nat) /\ m.length \in Nat /\ m.capacity \in Nat /\ m.text \in Seq(Nat \ {0})
    /\ m.length <= m.capacity /\ Reads(m.bytes, 0, m.length, m.text)

(* Those of clients have no more capacity than that (il_string_new(),      *)
(* il_string_bin(), il_string_format()).                                   *)
LEMMA CreatableIsGood ==
    ASSUME StringsAssumption, NEW m \in Creatable
    PROVE  GoodMade(m) /\ m.capacity <= Len(m.bytes)
PROOF
<1>1. ASSUME NEW t \in Text, NEW len \in Int, m = New(t, len), len = -1 \/ len \in Nat
      PROVE  GoodMade(m) /\ m.capacity <= Len(m.bytes)
  <2>1. t \in Seq(Nat \ {0}) /\ t \in Seq(Nat) /\ Len(t) \in Nat /\ \A i \in 1..Len(t) : t[i] \in Nat \ {0}
    BY <1>1, LenProperties, ElementOfSeq DEF StringsAssumption
  <2>2. PICK nlen : nlen = IF len < 0 THEN Len(t) ELSE Strnlen(t, Min({len, Len(t)}))
    OBVIOUS
  <2>3. PICK all : all = IF len < 0 \/ nlen < len THEN nlen + 1 ELSE nlen
    OBVIOUS
  <2>4. nlen \in Nat /\ nlen <= Len(t) /\ (len < 0 \/ nlen < len => nlen = Len(t))
    <3>1. CASE len < 0
      BY <3>1, <2>1, <2>2
    <3>2. CASE ~(len < 0)
      <4>1. len \in Nat /\ {len, Len(t)} \in SUBSET Nat /\ {len, Len(t)} # {}
        BY <3>2, <1>1, <2>1
      <4>2. PICK k : k = Min({len, Len(t)})
        OBVIOUS
      <4>3. k \in {len, Len(t)} /\ k <= len /\ k <= Len(t)
        BY <4>1, <4>2, MinIsLeast
      <4>4. {i \in 1..k : t[i] = 0} = {}
        BY <4>1, <4>3, <2>1
      <4>5. nlen = k
        BY <3>2, <4>2, <4>4, <2>2 DEF Strnlen
      <4> QED  BY <3>2, <4>1, <4>3, <4>5, <2>1
    <3> QED  BY <3>1, <3>2
  <2>5. all \in Nat /\ (all = nlen \/ (all = nlen + 1 /\ nlen = Len(t)))
    BY <2>3, <2>4
  <2>6. /\ Reads(t \o <<0>>, 0, all, SubSeq(t, 1, nlen)) /\ Len(t \o <<0>>) = Len(t) + 1
        /\ SubSeq(t, 1, nlen) \in Seq(Nat \ {0})
    BY <2>1, <2>4, <2>5, BeginningReads
  <2>7. m = [bytes |-> t \o <<0>>, length |-> all, capacity |-> all, text |-> SubSeq(t, 1, nlen)]
    BY <1>1, <2>2, <2>3 DEF New, Made
  <2>8. /\ m.bytes = t \o <<0>> /\ m.length = all /\ m.capacity = all /\ m.text = SubSeq(t, 1, nlen)
    BY <2>7
  <2>9. t \o <<0>> \in Seq(Nat)
    BY <2>6 DEF Reads
  <2>10. all <= Len(t) + 1
    BY <2>1, <2>4, <2>5
  <2> QED  BY <2>5, <2>6, <2>8, <2>9, <2>10 DEF GoodMade
<1>2. ASSUME m = NewNull PROVE GoodMade(m) /\ m.capacity <= Len(m.bytes)
  <2>1. Room \in Nat
    BY DEF StringsAssumption
  <2>2. PICK b : b = [i \in 1..Room |-> 0]
    OBVIOUS
  <2>3. b \in Seq(Nat) /\ Len(b) = Room
    <3>1. b = [i \in 1..Room |-> b[i]] /\ \A i \in 1..Room : b[i] \in Nat
      BY <2>2
    <3> QED  BY <2>1, <3>1, FunctionIsSeq
  <2>4. m = [bytes |-> b, length |-> 0, capacity |-> Room, text |-> <<>>]
    BY <1>2, <2>2 DEF NewNull, Made
  <2>5. m.bytes = b /\ m.length = 0 /\ m.capacity = Room /\ m.text = <<>>
    BY <2>4
  <2>6. <<>> \in Seq(Nat \ {0}) /\ Len(<<>>) = 0
    OBVIOUS
  <2>7. Reads(b, 0, 0, <<>>)
    BY <2>1, <2>3, <2>6 DEF Reads
  <2> QED  BY <2>1, <2>3, <2>5, <2>6, <2>7 DEF GoodMade
<1>3. ASSUME NEW t \in Text, m = Bin(t) PROVE GoodMade(m) /\ m.capacity <= Len(m.bytes)
  <2>1. t \in Seq(Nat \ {0}) /\ t \in Seq(Nat) /\ Len(t) \in Nat
    BY LenProperties DEF StringsAssumption
  <2>2. m = [bytes |-> t, length |-> Len(t), capacity |-> Len(t), text |-> t]
    BY <1>3 DEF Bin, Made
  <2>3. m.bytes = t /\ m.length = Len(t) /\ m.capacity = Len(t) /\ m.text = t
    BY <2>2
  <2>4. Reads(t, 0, Len(t), t)
    BY <2>1 DEF Reads
  <2> QED  BY <2>1, <2>3, <2>4 DEF GoodMade
<1>4. ASSUME NEW t \in Text, m = Format(t) PROVE GoodMade(m) /\ m.capacity <= Len(m.bytes)
  <2>1. t \in Seq(Nat \ {0}) /\ t \in Seq(Nat) /\ Len(t) \in Nat
    BY LenProperties DEF StringsAssumption
  <2>2. PICK n : n = Len(t)
    OBVIOUS
  <2>3. n \in Nat /\ n <= Len(t)
    BY <2>1, <2>2
  <2>4. /\ Reads(t \o <<0>>, 0, n, SubSeq(t, 1, n)) /\ Len(t \o <<0>>) = Len(t) + 1
    BY <2>1, <2>3, BeginningReads
  <2>5. SubSeq(t, 1, n) = t
    BY <2>1, <2>2, BeginningIs
  <2>6. m = [bytes |-> t \o <<0>>, length |-> n, capacity |-> n + 1, text |-> t]
    BY <1>4, <2>2 DEF Format, Made
  <2>7. m.bytes = t \o <<0>> /\ m.length = n /\ m.capacity = n + 1 /\ m.text = t
    BY <2>6
  <2>8. t \o <<0>> \in Seq(Nat)
    BY <2>4 DEF Reads
  <2>9. Reads(m.bytes, 0, m.length, m.text)
    BY <2>4, <2>5, <2>7
  <2>10. m.bytes \in Seq(Nat) /\ m.text \in Seq(Nat \ {0}) /\ m.capacity <= Len(m.bytes)
    BY <2>1, <2>2, <2>4, <2>7, <2>8
  <2> QED  BY <2>3, <2>7, <2>9, <2>10 DEF GoodMade
<1>5. \/ \E t \in Text, len \in Int : m = New(t, len) /\ (len = -1 \/ len \in Nat)
      \/ m = NewNull
      \/ \E t \in Text : m = Bin(t)
      \/ \E t \in Text : m = Format(t)
  <2>1. \A t \in Text : Len(t) \in Nat
    BY LenProperties DEF StringsAssumption
  <2>2. \A len \in {-1} \cup UNION {{Len(t), Len(t) + 1} : t \in Text} : len \in Int /\ (len = -1 \/ len \in Nat)
    BY <2>1
  <2> QED  BY <2>2 DEF Creatable
<1> QED  BY <1>1, <1>2, <1>3, <1>4, <1>5

(* A part of a sequence that may be empty.                                 *)
LEMMA PartOrNothing ==
    ASSUME NEW P, NEW t \in Seq(P), NEW p \in Nat, NEW k \in Nat, k <= Len(t),
           NEW u, u = SubSeq(t, p + 1, k)
    PROVE  /\ u \in Seq(P) /\ Len(u) = (IF p <= k THEN k - p ELSE 0)
           /\ \A i \in 1..Len(u) : u[i] = t[p + i]
PROOF
<1>1. PICK m : m = p + 1
  OBVIOUS
<1>2. Len(t) \in Nat
  BY LenProperties
<1>3. \A i \in m..k : t[i] \in P
  BY <1>1, <1>2, ElementOfSeq
<1>4. m \in Int /\ k \in Int /\ u = SubSeq(t, m, k)
  BY <1>1
<1>5. /\ u \in Seq(P) /\ Len(u) = (IF m <= k THEN k - m + 1 ELSE 0)
      /\ \A i \in 1..(k - m + 1) : u[i] = t[m + i - 1]
  BY <1>3, <1>4, SubSeqProperties
<1>6. /\ (IF m <= k THEN k - m + 1 ELSE 0) = (IF p <= k THEN k - p ELSE 0)
      /\ \A i \in 1..(IF p <= k THEN k - p ELSE 0) : i \in 1..(k - m + 1) /\ m + i - 1 = p + i
  BY <1>1
<1> QED  BY <1>5, <1>6

(* A slice reads as that part of the text.                                 *)
LEMMA SubReads ==
    ASSUME NEW b, NEW a, NEW n, NEW t, Reads(b, a, n, t),
           NEW p, NEW q, p \in Nat, q \in Nat, p <= q, q <= n
    PROVE  Reads(b, a + p, q - p, SubSeq(t, p + 1, Min({q, Len(t)})))
PROOF
<1>1. /\ b \in Seq(Nat) /\ t \in Seq(Nat \ {0}) /\ a \in Nat /\ n \in Nat
      /\ a + n <= Len(b) /\ Len(t) <= n
      /\ \A i \in 1..Len(t) : b[a + i] = t[i]
      /\ \A i \in 1..n : i > Len(t) => b[a + i] = 0
  BY DEF Reads
<1>2. Len(t) \in Nat /\ Len(b) \in Nat
  BY <1>1, LenProperties
<1>3. PICK k : k = Min({q, Len(t)})
  OBVIOUS
<1>4. k \in Nat /\ (k = q \/ k = Len(t)) /\ k <= q /\ k <= Len(t)
  <2>1. {q, Len(t)} \in SUBSET Nat /\ {q, Len(t)} # {}
    BY <1>2
  <2> QED  BY <2>1, <1>3, MinIsLeast
<1>5. PICK u : u = SubSeq(t, p + 1, k)
  OBVIOUS
<1>6. /\ u \in Seq(Nat \ {0}) /\ Len(u) = (IF p <= k THEN k - p ELSE 0)
      /\ \A i \in 1..Len(u) : u[i] = t[p + i]
  <2>1. PICK P, c, d : P = Nat \ {0} /\ c = p /\ d = k
    OBVIOUS
  <2>2. t \in Seq(P) /\ c \in Nat /\ d \in Nat /\ d <= Len(t) /\ u = SubSeq(t, c + 1, d)
    BY <2>1, <1>1, <1>4, <1>5
  <2>3. /\ u \in Seq(P) /\ Len(u) = (IF c <= d THEN d - c ELSE 0)
        /\ \A i \in 1..Len(u) : u[i] = t[c + i]
    BY <2>2, PartOrNothing
  <2> QED  BY <2>1, <2>3
<1>7. Len(u) \in Nat /\ (Len(u) = 0 \/ (p <= k /\ Len(u) = k - p))
  BY <1>4, <1>6
<1>8. a + p \in Nat /\ q - p \in Nat /\ a + p + (q - p) <= Len(b) /\ Len(u) <= q - p
  BY <1>1, <1>2, <1>4, <1>7
<1>9. ASSUME NEW i \in 1..Len(u) PROVE b[a + p + i] = u[i]
  <2>1. p + i \in 1..Len(t) /\ a + (p + i) = a + p + i
    BY <1>1, <1>2, <1>4, <1>7
  <2> QED  BY <2>1, <1>1, <1>6
<1>10. ASSUME NEW i \in 1..(q - p), i > Len(u) PROVE b[a + p + i] = 0
  <2>1. p + i \in 1..n /\ a + (p + i) = a + p + i
    BY <1>1, <1>2
  <2>2. p + i > Len(t)
    <3>1. p <= k => Len(u) = k - p
      BY <1>6
    <3> QED  BY <3>1, <1>2, <1>4, <1>7, <1>10
  <2> QED  BY <2>1, <2>2, <1>1
<1>11. Reads(b, a + p, q - p, u)
  BY <1>1, <1>6, <1>8, <1>9, <1>10 DEF Reads
<1> QED  BY <1>3, <1>5, <1>11

\* What il_string_cat() leaves in the bytes
Written(v, size) == [i \in 1..size |-> IF i <= Len(v) THEN v[i] ELSE 0]

(* What is written with its end reads so.                                  *)
LEMMA WrittenReads ==
    ASSUME NEW v, v \in Seq(Nat \ {0}), NEW size, size \in Nat
    PROVE  /\ Written(v, size) \in Seq(Nat) /\ Len(Written(v, size)) = size
           /\ Len(v) + 1 <= size => Reads(Written(v, size), 0, Len(v), v)
PROOF
<1>1. PICK b : b = Written(v, size)
  OBVIOUS
<1>2. Len(v) \in Nat /\ \A i \in 1..Len(v) : v[i] \in Nat
  BY LenProperties, ElementOfSeq
<1>3. b = [i \in 1..size |-> IF i <= Len(v) THEN v[i] ELSE 0]
  BY <1>1 DEF Written
<1>4. \A i \in 1..size : b[i] = IF i <= Len(v) THEN v[i] ELSE 0
  BY <1>3
<1>5. b \in Seq(Nat) /\ Len(b) = size
  <2>1. PICK N : N = Nat
    OBVIOUS
  <2>2. b = [i \in 1..size |-> b[i]]
    BY <1>3
  <2>3. \A i \in 1..size : b[i] \in N
    <3>1. ASSUME NEW i \in 1..size PROVE b[i] \in Nat
      <4>1. CASE i <= Len(v)
        <5>1. i \in 1..Len(v) /\ b[i] = v[i]
          BY <4>1, <1>2, <1>4
        <5> QED  BY <5>1, <1>2
      <4>2. CASE ~(i <= Len(v))
        <5>1. b[i] = 0
          BY <4>2, <1>4
        <5> QED  BY <5>1
      <4> QED  BY <4>1, <4>2
    <3> QED  BY <2>1, <3>1
  <2>4. b \in Seq(N) /\ Len(b) = size
    BY <2>2, <2>3, FunctionIsSeq
  <2> QED  BY <2>1, <2>4
<1>6. ASSUME Len(v) + 1 <= size PROVE Reads(b, 0, Len(v), v)
  <2>1. \A i \in 1..Len(v) : b[0 + i] = v[i]
    BY <1>2, <1>4, <1>6
  <2>2. 0 + Len(v) <= Len(b) /\ \A i \in 1..Len(v) : ~(i > Len(v))
    BY <1>2, <1>5, <1>6
  <2> QED  BY <2>1, <2>2, <1>2, <1>5 DEF Reads
<1> QED  BY <1>1, <1>5, <1>6

(* The uses one by one.                                                    *)
LEMMA InUses ==
    ASSUME NEW S, NEW f
    PROVE  \A x : x \in Uses(S, f) <=> \E h \in S : \E k \in 1..f[h] : x = <<h, k>>
PROOF
<1>1. \A x : x \in Uses(S, f) <=> \E h \in S : x \in {h} \X (1..f[h])
  BY DEF Uses
<1>2. \A x, h : x \in {h} \X (1..f[h]) <=> \E k \in 1..f[h] : x = <<h, k>>
  OBVIOUS
<1> QED  BY <1>1, <1>2

(* One use more, or one less, of what is there or of what is new.          *)
LEMMA CountedMore ==
    ASSUME NEW S, NEW T, NEW f, NEW g, NEW h, h \in T, S \subseteq T, T \subseteq S \cup {h},
           f[h] \in Nat, g[h] = f[h] + 1, h \in S \/ f[h] = 0,
           \A k \in S : k # h => g[k] = f[k], NEW n, n \in Nat
    PROVE  /\ Counted(S, f, n) => Counted(T, g, n + 1)
           /\ Counted(T, g, n) => n # 0 /\ Counted(S, f, n - 1)
PROOF
<1>1. PICK A, B, e : A = Uses(S, f) /\ B = Uses(T, g) /\ e = <<h, g[h]>>
  OBVIOUS
<1>2. e \notin A
  <2> SUFFICES ASSUME e \in A PROVE FALSE
    OBVIOUS
  <2>1. PICK k \in S : \E j \in 1..f[k] : e = <<k, j>>
    BY <1>1, InUses
  <2>2. PICK j \in 1..f[k] : e = <<k, j>>
    BY <2>1
  <2>3. k = h /\ j = g[h]
    BY <1>1, <2>2
  <2> QED  BY <2>3, <2>2
<1>3. e \in B
  <2>1. g[h] \in 1..g[h]
    OBVIOUS
  <2> QED  BY <2>1, <1>1, InUses
<1>4. B = A \cup {e}
  <2>1. ASSUME NEW x \in A PROVE x \in B
    <3>1. PICK k \in S : \E j \in 1..f[k] : x = <<k, j>>
      BY <1>1, InUses
    <3>2. PICK j \in 1..f[k] : x = <<k, j>>
      BY <3>1
    <3>3. j \in 1..g[k]
      BY <3>2
    <3> QED  BY <3>2, <3>3, <1>1, InUses
  <2>2. ASSUME NEW x \in B, x # e PROVE x \in A
    <3>1. PICK k \in T : \E j \in 1..g[k] : x = <<k, j>>
      BY <1>1, InUses
    <3>2. PICK j \in 1..g[k] : x = <<k, j>>
      BY <3>1
    <3>3. CASE k # h
      <4>1. k \in S /\ j \in 1..f[k]
        BY <3>2, <3>3
      <4> QED  BY <4>1, <3>2, <1>1, InUses
    <3>4. CASE k = h
      <4>1. j # g[h]
        BY <3>2, <3>4, <2>2, <1>1
      <4>2. j \in 1..f[h] /\ f[h] # 0
        BY <4>1, <3>2, <3>4
      <4>3. h \in S
        BY <4>2
      <4> QED  BY <4>2, <4>3, <3>2, <3>4, <1>1, InUses
    <3> QED  BY <3>3, <3>4
  <2> QED  BY <2>1, <2>2, <1>3
<1>5. ASSUME Counted(S, f, n) PROVE Counted(T, g, n + 1)
  <2>1. IsFiniteSet(A) /\ Cardinality(A) = n
    BY <1>1, <1>5 DEF Counted
  <2>2. IsFiniteSet(A \cup {e}) /\ Cardinality(A \cup {e}) = Cardinality(A) + 1
    BY <2>1, <1>2, FS_AddElement
  <2> QED  BY <2>1, <2>2, <1>1, <1>4 DEF Counted
<1>6. ASSUME Counted(T, g, n) PROVE n # 0 /\ Counted(S, f, n - 1)
  <2>1. IsFiniteSet(B) /\ Cardinality(B) = n
    BY <1>1, <1>6 DEF Counted
  <2>2. IsFiniteSet(B \ {e}) /\ Cardinality(B \ {e}) = Cardinality(B) - 1
    BY <2>1, <1>3, FS_RemoveElement
  <2>3. B \ {e} = A
    BY <1>2, <1>4
  <2>4. n # 0
    BY <2>1, <1>3, FS_EmptySet
  <2> QED  BY <2>1, <2>2, <2>3, <2>4, <1>1 DEF Counted
<1> QED  BY <1>5, <1>6

(* Nothing changes for those whose uses do not.                            *)
LEMMA CountedSame ==
    ASSUME NEW S, NEW f, NEW g, \A k \in S : g[k] = f[k], NEW n, Counted(S, f, n)
    PROVE  Counted(S, g, n)
PROOF
<1>1. \A x : x \in Uses(S, g) <=> x \in Uses(S, f)
  BY InUses
<1>2. Uses(S, g) = Uses(S, f)
  BY <1>1
<1> QED  BY <1>2 DEF Counted

(* A count of none is none of each.                                        *)
LEMMA CountedNone ==
    ASSUME NEW S, NEW f, Counted(S, f, 0), NEW h, h \in S, f[h] \in Nat
    PROVE  f[h] = 0
PROOF
<1>1. Uses(S, f) = {}
  BY FS_EmptySet DEF Counted
<1>2. CASE f[h] # 0
  <2>1. PICK k : k = f[h]
    OBVIOUS
  <2>2. k \in 1..f[h]
    BY <2>1, <1>2
  <2>3. <<h, k>> \in Uses(S, f)
    BY <2>2, InUses
  <2> QED  BY <2>3, <1>1
<1> QED  BY <1>2

(* Nothing is counted where there is nothing.                              *)
LEMMA CountedEmpty ==
    ASSUME NEW f
    PROVE  Counted({}, f, 0)
PROOF
<1>1. Uses({}, f) = {}
  BY DEF Uses
<1> QED  BY <1>1, FS_EmptySet DEF Counted

(* What can be used, in one place.                                         *)
LEMMA ConsistentFacts ==
    ASSUME NEW st, NEW me, NEW f, Consistent(st, me, f), NEW h, h \in Slot
    PROVE  /\ f[h] \in Nat /\ (f[h] > 0 => st[h] # Null)
           /\ st[h] # Null => /\ st[h] \in Struct /\ st[h].of \in Slot
                              /\ GoodStruct(st, me, f, h)
                              /\ st[st[h].of] # Null /\ st[st[h].of].of = st[h].of
                              /\ me[st[h].of] # Null /\ st[h].length \in Nat /\ st[h].at \in Nat
                              /\ st[h].capacity \in Nat
           /\ me[h] # Null => /\ me[h] \in Memory /\ me[h].refs \in Nat \ {0} /\ me[h].bytes \in Seq(Nat)
                              /\ st[h] # Null /\ st[h].of = h
                              /\ Counted(Slices(st, h), f, me[h].refs)
PROOF
<1>1. f[h] \in Nat /\ (f[h] > 0 => st[h] # Null)
  BY DEF Consistent
<1>2. ASSUME st[h] # Null PROVE st[h] \in Struct /\ GoodStruct(st, me, f, h)
  BY <1>2 DEF Consistent
<1>3. ASSUME st[h] # Null
      PROVE  /\ st[h].of \in Slot /\ st[st[h].of] # Null /\ st[st[h].of].of = st[h].of
             /\ me[st[h].of] # Null /\ st[h].length \in Nat /\ st[h].at \in Nat
             /\ st[h].capacity \in Nat
  BY <1>2, <1>3 DEF GoodStruct, Struct
<1>4. ASSUME me[h] # Null
      PROVE  /\ me[h] \in Memory /\ st[h] # Null /\ st[h].of = h
             /\ Counted(Slices(st, h), f, me[h].refs)
  BY <1>4 DEF Consistent
<1>5. ASSUME me[h] # Null PROVE me[h].refs \in Nat \ {0} /\ me[h].bytes \in Seq(Nat)
  BY <1>4, <1>5 DEF Memory
<1> QED  BY <1>1, <1>2, <1>3, <1>4, <1>5

(* A string is created, or copied, and has n references.                   *)
LEMMA NewOneIsConsistent ==
    ASSUME StringsAssumption, NEW st, NEW me, NEW f, Consistent(st, me, f),
           NEW a, a \in Slot, st[a] = Null, NEW m, GoodMade(m), NEW n, n \in {1, 2},
           NEW spare, spare \in BOOLEAN, spare \/ m.capacity <= Len(m.bytes),
           NEW r, r = [of |-> a, at |-> 0, length |-> m.length, capacity |-> m.capacity,
                       text |-> m.text, spare |-> spare, overrun |-> FALSE],
           NEW st2, st2 = [st EXCEPT ![a] = r],
           NEW me2, me2 = [me EXCEPT ![a] = [bytes |-> m.bytes, refs |-> n]],
           NEW f2, f2 = [f EXCEPT ![a] = n]
    PROVE  Consistent(st2, me2, f2)
PROOF
<1>1. /\ st \in [Slot -> Struct \cup {Null}] /\ me \in [Slot -> Memory \cup {Null}]
      /\ f \in [Slot -> Nat]
  BY DEF Consistent
<1>2. /\ m.bytes \in Seq(Nat) /\ m.length \in Nat /\ m.capacity \in Nat /\ m.text \in Seq(Nat \ {0})
      /\ m.length <= m.capacity /\ Reads(m.bytes, 0, m.length, m.text)
  BY DEF GoodMade
<1>3. PICK w : w = [bytes |-> m.bytes, refs |-> n]
  OBVIOUS
<1>4. w \in Memory /\ w.bytes = m.bytes /\ w.refs = n /\ n \in Nat \ {0}
  BY <1>2, <1>3 DEF Memory
<1>5. r \in Struct
  BY <1>2 DEF Struct
<1>6. /\ r.of = a /\ r.at = 0 /\ r.length = m.length /\ r.capacity = m.capacity
      /\ r.text = m.text /\ r.spare = spare /\ r.overrun = FALSE
  OBVIOUS
<1>7. Null \notin Slot \cup Struct \cup Memory
  BY DEF StringsAssumption
<1>8. r # Null /\ w # Null
  BY <1>4, <1>5, <1>7
<1>9. /\ st2[a] = r /\ me2[a] = w /\ f2[a] = n
      /\ \A h \in Slot : h # a => st2[h] = st[h] /\ me2[h] = me[h] /\ f2[h] = f[h]
  BY <1>1, <1>3
<1>10. /\ st2 \in [Slot -> Struct \cup {Null}] /\ me2 \in [Slot -> Memory \cup {Null}]
       /\ f2 \in [Slot -> Nat]
  BY <1>1, <1>3, <1>4, <1>5
<1>11. \A h \in Slot : st[h] # Null => st[h].of \in Slot /\ st[h].of # a
  BY ConsistentFacts
<1>12. ASSUME NEW h \in Slot, st2[h] # Null PROVE GoodStruct(st2, me2, f2, h)
  <2>1. CASE h = a
    <3>1. st2[h] = r /\ r.of = h /\ st2[r.of] = r /\ me2[r.of] = w
      BY <2>1, <1>6, <1>9
    <3>2. Reads(me2[r.of].bytes, r.at, r.length, r.text)
      BY <3>1, <1>2, <1>4, <1>6
    <3> QED  BY <3>1, <3>2, <1>2, <1>4, <1>6, <1>8, <2>1 DEF GoodStruct
  <2>2. CASE h # a
    <3>1. /\ GoodStruct(st, me, f, h) /\ me[st[h].of] # Null /\ st[h].of \in Slot /\ st[h].of # a
          /\ st2[h] = st[h] /\ f2[h] = f[h]
      BY <1>9, <1>11, <1>12, <2>2, ConsistentFacts
    <3>2. st2[st[h].of] = st[st[h].of] /\ me2[st[h].of] = me[st[h].of]
      BY <3>1, <1>9
    <3>3. /\ GoodStruct(st, me, f, h) /\ st2[h] = st[h] /\ st2[st[h].of] = st[st[h].of]
          /\ me2[st[h].of] # Null /\ me2[st[h].of].bytes = me[st[h].of].bytes
          /\ (f2[h] > 0 => f[h] > 0)
      BY <3>1, <3>2
    <3> QED  BY <3>3 DEF GoodStruct
  <2> QED  BY <2>1, <2>2
<1>13. ASSUME NEW h \in Slot, f2[h] > 0 PROVE st2[h] # Null
  BY <1>8, <1>9, <1>13, ConsistentFacts
<1>14. ASSUME NEW o \in Slot, me2[o] # Null
       PROVE  st2[o] # Null /\ st2[o].of = o /\ Counted(Slices(st2, o), f2, me2[o].refs)
  <2>1. CASE o = a
    <3>1. Slices(st2, o) = {a}
      BY <2>1, <1>6, <1>8, <1>9, <1>11 DEF Slices
    <3>2. Counted({a}, f2, n)
      <4>1. PICK e, g : e = [f EXCEPT ![a] = 0] /\ g = [f EXCEPT ![a] = 1]
        OBVIOUS
      <4>2. e[a] = 0 /\ g[a] = 1
        BY <1>1, <4>1
      <4>3. Counted({}, e, 0)
        BY CountedEmpty
      <4>4. PICK z, i, s, t : z = 0 /\ i = 1 /\ s = {} /\ t = {a}
        OBVIOUS
      <4>5. Counted(t, g, z + 1)
        <5>1. /\ Counted(s, e, z) /\ a \in t /\ s \subseteq t /\ t \subseteq s \cup {a} /\ e[a] \in Nat
              /\ g[a] = e[a] + 1 /\ (a \in s \/ e[a] = 0) /\ (\A k \in s : k # a => g[k] = e[k]) /\ z \in Nat
          BY <4>2, <4>3, <4>4
        <5> QED  BY <5>1, CountedMore
      <4>6. CASE n = 1
        <5>1. z + 1 = n /\ \A k \in t : f2[k] = g[k]
          BY <4>2, <4>4, <4>6, <1>9
        <5>2. PICK j : j = z + 1
          OBVIOUS
        <5>3. Counted(t, g, j)
          BY <4>5, <5>2
        <5>4. Counted(t, f2, j)
          BY <5>1, <5>3, CountedSame
        <5> QED  BY <4>4, <5>1, <5>2, <5>4
      <4>7. CASE n = 2
        <5>1. /\ Counted(t, g, i) /\ a \in t /\ t \subseteq t /\ t \subseteq t \cup {a} /\ g[a] \in Nat
              /\ f2[a] = g[a] + 1 /\ (a \in t \/ g[a] = 0) /\ (\A k \in t : k # a => f2[k] = g[k]) /\ i \in Nat
          BY <4>2, <4>4, <4>5, <4>7, <1>9
        <5>2. Counted(t, f2, i + 1)
          BY <5>1, CountedMore
        <5> QED  BY <5>2, <4>4, <4>7
      <4> QED  BY <4>6, <4>7
    <3> QED  BY <2>1, <3>1, <3>2, <1>4, <1>6, <1>8, <1>9
  <2>2. CASE o # a
    <3>1. me[o] # Null /\ st[o] # Null /\ st[o].of = o /\ Counted(Slices(st, o), f, me[o].refs)
      BY <2>2, <1>9, <1>14, ConsistentFacts
    <3>2. Slices(st2, o) = Slices(st, o)
      BY <2>2, <1>6, <1>9 DEF Slices
    <3>3. \A k \in Slices(st, o) : f2[k] = f[k]
      BY <1>9 DEF Slices
    <3>4. Counted(Slices(st, o), f2, me[o].refs)
      BY <3>1, <3>3, CountedSame
    <3> QED  BY <2>2, <3>1, <3>2, <3>4, <1>9
  <2> QED  BY <2>1, <2>2
<1> QED  BY <1>10, <1>12, <1>13, <1>14 DEF Consistent

(* One reference more to a string or slice.                                *)
LEMMA TakenIsConsistent ==
    ASSUME StringsAssumption, NEW st, NEW me, NEW f, Consistent(st, me, f),
           NEW h, h \in Slot, f[h] > 0,
           NEW o, o = st[h].of,
           NEW me2, me2 = [me EXCEPT ![o].refs = @ + 1],
           NEW f2, f2 = [f EXCEPT ![h] = @ + 1]
    PROVE  Consistent(st, me2, f2)
PROOF
<1>1. /\ st \in [Slot -> Struct \cup {Null}] /\ me \in [Slot -> Memory \cup {Null}]
      /\ f \in [Slot -> Nat]
  BY DEF Consistent
<1>2. /\ f[h] \in Nat /\ st[h] # Null /\ o \in Slot /\ st[o] # Null /\ st[o].of = o /\ me[o] # Null
      /\ me[o].refs \in Nat \ {0} /\ me[o].bytes \in Seq(Nat) /\ me[o] \in Memory
      /\ Counted(Slices(st, o), f, me[o].refs)
  BY ConsistentFacts
<1>3. PICK w : w = [me[o] EXCEPT !.refs = @ + 1]
  OBVIOUS
<1>4. w \in Memory /\ w.bytes = me[o].bytes /\ w.refs = me[o].refs + 1
  BY <1>2, <1>3 DEF Memory
<1>5. w # Null
  BY <1>4 DEF StringsAssumption
<1>6. /\ me2[o] = w /\ f2[h] = f[h] + 1
      /\ \A k \in Slot : (k # o => me2[k] = me[k]) /\ (k # h => f2[k] = f[k])
  BY <1>1, <1>2, <1>3
<1>7. me2 \in [Slot -> Memory \cup {Null}] /\ f2 \in [Slot -> Nat]
  BY <1>1, <1>2, <1>3, <1>4
<1>8. ASSUME NEW k \in Slot, st[k] # Null PROVE GoodStruct(st, me2, f2, k)
  <2>1. GoodStruct(st, me, f, k) /\ st[k].of \in Slot /\ me[st[k].of] # Null
    BY <1>8, ConsistentFacts
  <2>2. me2[st[k].of] # Null /\ me2[st[k].of].bytes = me[st[k].of].bytes
    BY <2>1, <1>4, <1>5, <1>6
  <2>3. f2[k] > 0 => f[k] > 0
    BY <1>6
  <2> QED  BY <2>1, <2>2, <2>3 DEF GoodStruct
<1>9. ASSUME NEW k \in Slot, f2[k] > 0 PROVE st[k] # Null
  BY <1>2, <1>6, <1>9, ConsistentFacts
<1>10. ASSUME NEW p \in Slot, me2[p] # Null
       PROVE  st[p] # Null /\ st[p].of = p /\ Counted(Slices(st, p), f2, me2[p].refs)
  <2>1. CASE p = o
    <3>1. PICK s, n : s = Slices(st, o) /\ n = me[o].refs
      OBVIOUS
    <3>2. h \in s
      BY <3>1, <1>2 DEF Slices
    <3>3. /\ Counted(s, f, n) /\ s \subseteq s /\ s \subseteq s \cup {h} /\ n \in Nat
          /\ f2[h] = f[h] + 1 /\ (h \in s \/ f[h] = 0) /\ (\A k \in s : k # h => f2[k] = f[k])
      BY <3>1, <3>2, <1>2, <1>6 DEF Slices
    <3>4. Counted(s, f2, n + 1)
      BY <3>2, <3>3, <1>2, CountedMore
    <3> QED  BY <2>1, <3>1, <3>4, <1>2, <1>4, <1>6
  <2>2. CASE p # o
    <3>1. me[p] # Null /\ st[p] # Null /\ st[p].of = p /\ Counted(Slices(st, p), f, me[p].refs)
      BY <2>2, <1>6, <1>10, ConsistentFacts
    <3>2. \A k \in Slices(st, p) : f2[k] = f[k]
      BY <2>2, <1>6 DEF Slices
    <3>3. PICK s, n : s = Slices(st, p) /\ n = me[p].refs
      OBVIOUS
    <3>4. Counted(s, f, n) /\ \A k \in s : f2[k] = f[k]
      BY <3>1, <3>2, <3>3
    <3>5. Counted(s, f2, n)
      BY <3>4, CountedSame
    <3> QED  BY <2>2, <3>1, <3>3, <3>5, <1>6
  <2> QED  BY <2>1, <2>2
<1> QED  BY <1>1, <1>7, <1>8, <1>9, <1>10 DEF Consistent

\* What is left of the structs st with the memory me
LeftOf(st, me) == [g \in Slot |-> IF st[g] # Null /\ me[st[g].of] = Null THEN Null ELSE st[g]]

(* One reference less: with the last of all slices the bytes go, and their *)
(* structs.                                                                *)
LEMMA GivenUpIsConsistent ==
    ASSUME StringsAssumption, NEW st, NEW me, NEW f, Consistent(st, me, f),
           NEW h, h \in Slot, f[h] > 0,
           NEW o, o = st[h].of,
           NEW me2, me2 = (IF me[o].refs > 1 THEN [me EXCEPT ![o].refs = @ - 1] ELSE [me EXCEPT ![o] = Null]),
           NEW st2, st2 = LeftOf(st, me2),
           NEW f2, f2 = [f EXCEPT ![h] = @ - 1]
    PROVE  Consistent(st2, me2, f2)
PROOF
<1>1. /\ st \in [Slot -> Struct \cup {Null}] /\ me \in [Slot -> Memory \cup {Null}]
      /\ f \in [Slot -> Nat]
  BY DEF Consistent
<1>2. /\ f[h] \in Nat /\ st[h] # Null /\ o \in Slot /\ st[o] # Null /\ st[o].of = o /\ me[o] # Null
      /\ me[o].refs \in Nat \ {0} /\ me[o].bytes \in Seq(Nat) /\ me[o] \in Memory
      /\ Counted(Slices(st, o), f, me[o].refs)
  BY ConsistentFacts
<1>3. /\ f2[h] = f[h] - 1 /\ f2[h] \in Nat /\ f2 \in [Slot -> Nat]
      /\ \A k \in Slot : k # h => f2[k] = f[k]
  BY <1>1, <1>2
<1>4. \A k \in Slot : st[k] # Null => st[k].of \in Slot /\ me[st[k].of] # Null
  BY ConsistentFacts
<1>5. PICK s, n : s = Slices(st, o) /\ n = me[o].refs
  OBVIOUS
<1>6. h \in s
  BY <1>2, <1>5 DEF Slices
<1>7. Counted(s, f2, n - 1)
  <2>1. /\ Counted(s, f, n) /\ s \subseteq s /\ s \subseteq s \cup {h} /\ n \in Nat /\ f2[h] \in Nat
        /\ f[h] = f2[h] + 1 /\ (h \in s \/ f2[h] = 0) /\ (\A k \in s : k # h => f[k] = f2[k])
    BY <1>2, <1>3, <1>5, <1>6 DEF Slices
  <2> QED  BY <2>1, <1>6, CountedMore
<1>8. \A k \in Slot : f2[k] > 0 => f[k] > 0
  BY <1>2, <1>3
<1>9. ASSUME NEW p \in Slot, p # o, me[p] # Null
      PROVE  st[p] # Null /\ st[p].of = p /\ Counted(Slices(st, p), f2, me[p].refs)
  <2>1. st[p] # Null /\ st[p].of = p /\ Counted(Slices(st, p), f, me[p].refs)
    BY <1>9, ConsistentFacts
  <2>2. \A k \in Slices(st, p) : f2[k] = f[k]
    BY <1>3, <1>9 DEF Slices
  <2>3. PICK t, m : t = Slices(st, p) /\ m = me[p].refs
    OBVIOUS
  <2>4. Counted(t, f, m) /\ \A k \in t : f2[k] = f[k]
    BY <2>1, <2>2, <2>3
  <2>5. Counted(t, f2, m)
    BY <2>4, CountedSame
  <2> QED  BY <2>1, <2>3, <2>5
<1>10. CASE n > 1
  <2>1. me2 = [me EXCEPT ![o].refs = @ - 1]
    BY <1>5, <1>10
  <2>2. PICK w : w = [me[o] EXCEPT !.refs = @ - 1]
    OBVIOUS
  <2>3. w \in Memory /\ w.bytes = me[o].bytes /\ w.refs = n - 1
    BY <1>2, <1>5, <1>10, <2>2 DEF Memory
  <2>4. w # Null
    BY <2>3 DEF StringsAssumption
  <2>5. /\ me2[o] = w /\ me2 \in [Slot -> Memory \cup {Null}]
        /\ \A k \in Slot : k # o => me2[k] = me[k]
    BY <1>1, <1>2, <2>1, <2>2, <2>3
  <2>6. \A k \in Slot : me2[k] = Null <=> me[k] = Null
    BY <1>2, <2>4, <2>5
  <2>7. \A k \in Slot : st2[k] = st[k]
    BY <1>4, <2>6 DEF LeftOf
  <2>8. st2 = st
    BY <1>1, <2>7 DEF LeftOf
  <2>9. ASSUME NEW k \in Slot, st[k] # Null PROVE GoodStruct(st, me2, f2, k)
    <3>1. GoodStruct(st, me, f, k) /\ st[k].of \in Slot /\ me[st[k].of] # Null
      BY <2>9, ConsistentFacts
    <3>2. me2[st[k].of] # Null /\ me2[st[k].of].bytes = me[st[k].of].bytes
      BY <3>1, <2>3, <2>4, <2>5
    <3> QED  BY <3>1, <3>2, <1>8 DEF GoodStruct
  <2>10. ASSUME NEW k \in Slot, f2[k] > 0 PROVE st[k] # Null
    BY <1>8, <2>10, ConsistentFacts
  <2>11. ASSUME NEW p \in Slot, me2[p] # Null
         PROVE  st[p] # Null /\ st[p].of = p /\ Counted(Slices(st, p), f2, me2[p].refs)
    <3>1. CASE p = o
      BY <3>1, <1>2, <1>5, <1>7, <2>3, <2>5
    <3>2. CASE p # o
      BY <3>2, <1>9, <2>5, <2>11
    <3> QED  BY <3>1, <3>2
  <2>12. Consistent(st, me2, f2)
    BY <1>1, <1>3, <2>5, <2>9, <2>10, <2>11 DEF Consistent
  <2> QED  BY <2>8, <2>12
<1>11. CASE ~(n > 1)
  <2>1. n = 1 /\ me2 = [me EXCEPT ![o] = Null]
    BY <1>2, <1>5, <1>11
  <2>2. /\ me2[o] = Null /\ me2 \in [Slot -> Memory \cup {Null}]
        /\ \A k \in Slot : k # o => me2[k] = me[k]
    BY <1>1, <1>2, <2>1
  <2>3. ASSUME NEW k \in s PROVE f2[k] = 0
    <3>1. Counted(s, f2, 0) /\ f2[k] \in Nat
      <4>1. n - 1 = 0 /\ k \in Slot
        BY <2>1, <1>5 DEF Slices
      <4>2. PICK z : z = n - 1
        OBVIOUS
      <4>3. Counted(s, f2, z) /\ z = 0
        BY <4>1, <4>2, <1>7
      <4> QED  BY <4>1, <4>3, <1>3
    <3> QED  BY <3>1, CountedNone
  <2>4. \A k \in Slot : st2[k] = IF st[k] # Null /\ st[k].of = o THEN Null ELSE st[k]
    BY <1>4, <2>2 DEF LeftOf
  <2>5. st2 \in [Slot -> Struct \cup {Null}]
    BY <1>1 DEF LeftOf
  <2>6. ASSUME NEW k \in Slot, st2[k] # Null PROVE GoodStruct(st2, me2, f2, k)
    <3>1. st[k] # Null /\ st[k].of # o /\ st2[k] = st[k]
      BY <2>4, <2>6
    <3>2. /\ GoodStruct(st, me, f, k) /\ st[k].of \in Slot /\ me[st[k].of] # Null
          /\ st[st[k].of] # Null /\ st[st[k].of].of = st[k].of
      BY <3>1, ConsistentFacts
    <3>3. st2[st[k].of] = st[st[k].of] /\ me2[st[k].of] = me[st[k].of]
      BY <3>1, <3>2, <2>2, <2>4
    <3>4. PICK q : q = st[k].of
      OBVIOUS
    <3>5. /\ st2[q] = st[q] /\ me2[q] = me[q] /\ me[q] # Null /\ st[q] # Null /\ st[q].of = q
          /\ st2[k].of = q /\ (f2[k] > 0 => f[k] > 0)
      BY <3>1, <3>2, <3>3, <3>4, <1>8
    <3> QED  BY <3>1, <3>2, <3>4, <3>5 DEF GoodStruct
  <2>7. ASSUME NEW k \in Slot, f2[k] > 0 PROVE st2[k] # Null
    <3>1. st[k] # Null
      BY <1>8, <2>7, ConsistentFacts
    <3>2. k \notin s
      BY <2>3, <2>7
    <3> QED  BY <3>1, <3>2, <2>4, <1>5 DEF Slices
  <2>8. ASSUME NEW p \in Slot, me2[p] # Null
        PROVE  st2[p] # Null /\ st2[p].of = p /\ Counted(Slices(st2, p), f2, me2[p].refs)
    <3>1. p # o /\ me2[p] = me[p]
      BY <2>2, <2>8
    <3>2. st[p] # Null /\ st[p].of = p /\ Counted(Slices(st, p), f2, me[p].refs)
      BY <3>1, <1>9, <2>8
    <3>3. st2[p] = st[p]
      BY <3>1, <3>2, <2>4
    <3>4. Slices(st2, p) = Slices(st, p)
      BY <3>1, <2>4 DEF Slices
    <3> QED  BY <3>1, <3>2, <3>3, <3>4
  <2> QED  BY <1>3, <2>2, <2>5, <2>6, <2>7, <2>8 DEF Consistent
<1> QED  BY <1>10, <1>11

(* A slice is cut from a string or slice (il_string_sub()).                *)
LEMMA SliceIsConsistent ==
    ASSUME StringsAssumption, NEW st, NEW me, NEW f, Consistent(st, me, f),
           NEW a, a \in Slot, st[a] = Null,
           NEW h, h \in Slot, f[h] > 0, ~st[h].overrun,
           NEW p, NEW q, p \in Nat, q \in Nat, p <= q, q <= st[h].length,
           NEW o, o = st[h].of,
           NEW r, r = [st[h] EXCEPT !.at = @ + p, !.length = q - p, !.capacity = @ - p,
                                    !.text = SubSeq(@, p + 1, Min({q, Len(@)}))],
           NEW st2, st2 = [st EXCEPT ![a] = r],
           NEW me2, me2 = [me EXCEPT ![o].refs = @ + 1],
           NEW f2, f2 = [f EXCEPT ![a] = 1]
    PROVE  Consistent(st2, me2, f2)
PROOF
<1>1. /\ st \in [Slot -> Struct \cup {Null}] /\ me \in [Slot -> Memory \cup {Null}]
      /\ f \in [Slot -> Nat]
  BY DEF Consistent
<1>2. /\ f[h] \in Nat /\ st[h] # Null /\ o \in Slot /\ st[o] # Null /\ st[o].of = o /\ me[o] # Null
      /\ me[o].refs \in Nat \ {0} /\ me[o].bytes \in Seq(Nat) /\ me[o] \in Memory
      /\ Counted(Slices(st, o), f, me[o].refs)
      /\ st[h] \in Struct /\ GoodStruct(st, me, f, h)
      /\ st[h].length \in Nat /\ st[h].at \in Nat /\ st[h].capacity \in Nat
  BY ConsistentFacts
<1>3. PICK s : s = st[h]
  OBVIOUS
<1>4. /\ s \in Struct /\ s.of = o /\ s.length \in Nat /\ s.at \in Nat /\ s.capacity \in Nat
      /\ s.spare \in BOOLEAN /\ s.length <= s.capacity
      /\ Reads(me[o].bytes, s.at, s.length, s.text)
  BY <1>2, <1>3 DEF GoodStruct, Struct
<1>5. PICK u : u = SubSeq(s.text, p + 1, Min({q, Len(s.text)}))
  OBVIOUS
<1>6. Reads(me[o].bytes, s.at + p, q - p, u)
  <2>1. PICK b, c, n, t : b = me[o].bytes /\ c = s.at /\ n = s.length /\ t = s.text
    OBVIOUS
  <2>2. Reads(b, c, n, t) /\ p \in Nat /\ q \in Nat /\ p <= q /\ q <= n
    BY <2>1, <1>3, <1>4
  <2>3. Reads(b, c + p, q - p, SubSeq(t, p + 1, Min({q, Len(t)})))
    BY <2>2, SubReads
  <2> QED  BY <2>1, <2>3, <1>5
<1>7. u \in Seq(Nat \ {0}) /\ s.at + p \in Nat /\ q - p \in Nat
  BY <1>6 DEF Reads
<1>8. s.capacity - p \in Nat /\ q - p <= s.capacity - p
  BY <1>3, <1>4
<1>9. r = [s EXCEPT !.at = @ + p, !.length = q - p, !.capacity = @ - p, !.text = u]
  BY <1>3, <1>5
<1>10. /\ r \in Struct /\ r.of = o /\ r.at = s.at + p /\ r.length = q - p /\ r.capacity = s.capacity - p
       /\ r.text = u /\ r.overrun = s.overrun /\ r.spare = s.spare
  BY <1>4, <1>7, <1>8, <1>9 DEF Struct
<1>11. r # Null
  BY <1>10 DEF StringsAssumption
<1>12. PICK w : w = [me[o] EXCEPT !.refs = @ + 1]
  OBVIOUS
<1>13. w \in Memory /\ w.bytes = me[o].bytes /\ w.refs = me[o].refs + 1
  BY <1>2, <1>12 DEF Memory
<1>14. w # Null
  BY <1>13 DEF StringsAssumption
<1>15. /\ st2[a] = r /\ f2[a] = 1 /\ me2[o] = w
       /\ \A k \in Slot : (k # a => st2[k] = st[k] /\ f2[k] = f[k]) /\ (k # o => me2[k] = me[k])
  BY <1>1, <1>2, <1>12
<1>16. /\ st2 \in [Slot -> Struct \cup {Null}] /\ me2 \in [Slot -> Memory \cup {Null}]
       /\ f2 \in [Slot -> Nat]
  BY <1>1, <1>2, <1>10, <1>12, <1>13
<1>17. a # o /\ f[a] = 0
  <2>1. f[a] \in Nat /\ ~(f[a] > 0)
    BY ConsistentFacts
  <2> QED  BY <2>1, <1>2
<1>18. \A k \in Slot : st[k] # Null => st[k].of \in Slot /\ st[k].of # a
  BY ConsistentFacts
<1>19. ASSUME NEW k \in Slot, st2[k] # Null PROVE GoodStruct(st2, me2, f2, k)
  <2>1. CASE k = a
    <3>1. st2[k] = r /\ st2[o] = st[o] /\ me2[o].bytes = me[o].bytes /\ me2[o] # Null
      BY <2>1, <1>2, <1>13, <1>14, <1>15, <1>17
    <3>2. Reads(me2[o].bytes, r.at, r.length, r.text)
      BY <3>1, <1>6, <1>10
    <3>3. ~r.overrun /\ r.length <= r.capacity /\ o # k
      BY <2>1, <1>3, <1>8, <1>10, <1>17
    <3> QED  BY <3>1, <3>2, <3>3, <1>2, <1>10 DEF GoodStruct
  <2>2. CASE k # a
    <3>1. /\ GoodStruct(st, me, f, k) /\ me[st[k].of] # Null /\ st[k].of \in Slot /\ st[k].of # a
          /\ st2[k] = st[k] /\ f2[k] = f[k]
      BY <1>15, <1>18, <1>19, <2>2, ConsistentFacts
    <3>2. PICK g : g = st[k].of
      OBVIOUS
    <3>3. st2[g] = st[g] /\ me2[g] # Null /\ me2[g].bytes = me[g].bytes
      BY <3>1, <3>2, <1>13, <1>14, <1>15
    <3> QED  BY <3>1, <3>2, <3>3 DEF GoodStruct
  <2> QED  BY <2>1, <2>2
<1>20. ASSUME NEW k \in Slot, f2[k] > 0 PROVE st2[k] # Null
  BY <1>11, <1>15, <1>20, ConsistentFacts
<1>21. ASSUME NEW k \in Slot, me2[k] # Null
       PROVE  st2[k] # Null /\ st2[k].of = k /\ Counted(Slices(st2, k), f2, me2[k].refs)
  <2>1. CASE k = o
    <3>1. PICK c, d, n : c = Slices(st, o) /\ d = Slices(st2, o) /\ n = me[o].refs
      OBVIOUS
    <3>2. d = c \cup {a} /\ a \notin c
      BY <3>1, <1>10, <1>11, <1>15 DEF Slices
    <3>3. /\ Counted(c, f, n) /\ a \in d /\ c \subseteq d /\ d \subseteq c \cup {a} /\ n \in Nat /\ f[a] \in Nat
          /\ f2[a] = f[a] + 1 /\ (a \in c \/ f[a] = 0) /\ (\A g \in c : g # a => f2[g] = f[g])
      BY <3>1, <3>2, <1>2, <1>15, <1>17 DEF Slices
    <3>4. Counted(d, f2, n + 1)
      BY <3>3, CountedMore
    <3> QED  BY <2>1, <3>1, <3>4, <1>2, <1>13, <1>15, <1>17
  <2>2. CASE k # o
    <3>1. me[k] # Null /\ st[k] # Null /\ st[k].of = k /\ Counted(Slices(st, k), f, me[k].refs)
      BY <2>2, <1>15, <1>21, ConsistentFacts
    <3>2. Slices(st2, k) = Slices(st, k)
      BY <2>2, <1>10, <1>15 DEF Slices
    <3>3. PICK c, n : c = Slices(st, k) /\ n = me[k].refs
      OBVIOUS
    <3>4. Counted(c, f, n) /\ \A g \in c : f2[g] = f[g]
      BY <3>1, <3>3, <1>15 DEF Slices
    <3>5. Counted(c, f2, n)
      BY <3>4, CountedSame
    <3>6. st2[k] = st[k] /\ me2[k] = me[k]
      BY <2>2, <3>1, <1>15
    <3> QED  BY <3>1, <3>2, <3>3, <3>5, <3>6
  <2> QED  BY <2>1, <2>2
<1> QED  BY <1>16, <1>19, <1>20, <1>21 DEF Consistent

\* What il_string_cat() has room for
SizeFor(st, me, h, n) ==
    IF Grown(st[h], n) > st[h].capacity THEN Grown(st[h], n) ELSE Len(me[h].bytes)

(* A string that is not shared is added to (il_string_cat()).              *)
LEMMA CatIsConsistent ==
    ASSUME StringsAssumption, NEW st, NEW me, NEW f, Consistent(st, me, f),
           NEW h, h \in Slot, f[h] > 0, ~st[h].overrun, st[h].of = h, me[h].refs = 1,
           NEW u, u \in Seq(Nat \ {0}),
           NEW v, v = st[h].text \o u,
           NEW size, size = SizeFor(st, me, h, Len(v)),
           NEW r, r = [st[h] EXCEPT !.length = Len(v), !.capacity = Grown(st[h], Len(v)),
                                    !.text = v, !.overrun = Len(v) + 1 > size],
           NEW st2, st2 = [st EXCEPT ![h] = r],
           NEW me2, me2 = [me EXCEPT ![h].bytes = Written(v, size)]
    PROVE  Consistent(st2, me2, f)
PROOF
<1>1. /\ st \in [Slot -> Struct \cup {Null}] /\ me \in [Slot -> Memory \cup {Null}]
      /\ f \in [Slot -> Nat]
  BY DEF Consistent
<1>2. /\ f[h] \in Nat /\ st[h] # Null /\ me[h] # Null
      /\ me[h].bytes \in Seq(Nat) /\ me[h] \in Memory
      /\ Counted(Slices(st, h), f, me[h].refs)
      /\ st[h] \in Struct /\ GoodStruct(st, me, f, h)
  BY ConsistentFacts
<1>3. PICK s, n, b : s = st[h] /\ n = Len(v) /\ b = me[h].bytes
  OBVIOUS
<1>4. /\ s \in Struct /\ s.of = h /\ s.length \in Nat /\ s.at \in Nat /\ s.capacity \in Nat
      /\ s.text \in Seq(Nat \ {0}) /\ s.spare \in BOOLEAN
      /\ s.at = 0 /\ (s.spare \/ s.capacity <= Len(b))
  BY <1>2, <1>3 DEF GoodStruct, Struct
<1>5. b \in Seq(Nat) /\ Len(b) \in Nat
  BY <1>2, <1>3, LenProperties
<1>6. PICK g : g = Grown(s, n)
  OBVIOUS
<1>7. n \in Nat /\ v \in Seq(Nat \ {0})
  <2>1. PICK P, t, c : P = Nat \ {0} /\ t = s.text /\ c = t \o u
    OBVIOUS
  <2>2. t \in Seq(P) /\ u \in Seq(P) /\ v = c
    BY <2>1, <1>3, <1>4
  <2>3. c \in Seq(P)
    BY <2>1, <2>2, ConcatProperties
  <2>4. v \in Seq(Nat \ {0})
    BY <2>1, <2>2, <2>3
  <2> QED  BY <2>4, <1>3, LenProperties
<1>8. g \in Nat /\ n < g /\ (n < s.capacity => g = s.capacity) /\ (~(n < s.capacity) => g > s.capacity)
  BY <1>4, <1>6, <1>7 DEF Grown
<1>9. size = IF g > s.capacity THEN g ELSE Len(b)
  BY <1>3, <1>6 DEF SizeFor
<1>10. size \in Nat /\ (s.spare \/ (n + 1 <= size /\ g <= size))
  BY <1>4, <1>5, <1>7, <1>8, <1>9
<1>11. PICK c : c = Written(v, size)
  OBVIOUS
<1>12. c \in Seq(Nat) /\ Len(c) = size /\ (n + 1 <= size => Reads(c, 0, n, v))
  <2>1. PICK x, z : x = v /\ z = size
    OBVIOUS
  <2>2. x \in Seq(Nat \ {0}) /\ z \in Nat
    BY <2>1, <1>7, <1>10
  <2>3. /\ Written(x, z) \in Seq(Nat) /\ Len(Written(x, z)) = z
        /\ Len(x) + 1 <= z => Reads(Written(x, z), 0, Len(x), x)
    BY <2>2, WrittenReads
  <2> QED  BY <2>1, <2>3, <1>3, <1>11
<1>13. r = [s EXCEPT !.length = n, !.capacity = g, !.text = v, !.overrun = n + 1 > size]
  BY <1>3, <1>6
<1>14. /\ r \in Struct /\ r.of = h /\ r.at = 0 /\ r.length = n /\ r.capacity = g /\ r.text = v
       /\ r.spare = s.spare /\ (r.overrun <=> n + 1 > size)
  <2>1. PICK x : x = (n + 1 > size)
    OBVIOUS
  <2>2. r = [s EXCEPT !.length = n, !.capacity = g, !.text = v, !.overrun = x]
    BY <2>1, <1>13
  <2>3. x \in BOOLEAN
    BY <2>1
  <2>4. r \in Struct
    BY <2>2, <2>3, <1>4, <1>7, <1>8 DEF Struct
  <2>5. /\ r.of = s.of /\ r.at = s.at /\ r.length = n /\ r.capacity = g /\ r.text = v
        /\ r.spare = s.spare /\ r.overrun = x
    BY <2>2, <1>4 DEF Struct
  <2> QED  BY <2>1, <2>4, <2>5, <1>4
<1>15. r # Null
  BY <1>14 DEF StringsAssumption
<1>16. PICK w : w = [me[h] EXCEPT !.bytes = c]
  OBVIOUS
<1>17. w \in Memory /\ w.bytes = c /\ w.refs = me[h].refs
  BY <1>2, <1>12, <1>16 DEF Memory
<1>18. w # Null
  BY <1>17 DEF StringsAssumption
<1>19. /\ st2[h] = r /\ me2[h] = w
       /\ \A k \in Slot : k # h => st2[k] = st[k] /\ me2[k] = me[k]
  BY <1>1, <1>11, <1>16
<1>20. st2 \in [Slot -> Struct \cup {Null}] /\ me2 \in [Slot -> Memory \cup {Null}]
  BY <1>1, <1>11, <1>14, <1>16, <1>17
<1>21. ASSUME NEW k \in Slices(st, h), k # h PROVE f[k] = 0
  <2>1. PICK e, d, i : e = [f EXCEPT ![h] = @ - 1] /\ d = Slices(st, h) /\ i = 1
    OBVIOUS
  <2>2. h \in d /\ k \in d /\ k \in Slot
    BY <2>1, <1>2, <1>21 DEF Slices
  <2>3. e[h] = f[h] - 1 /\ e[h] \in Nat /\ \A j \in Slot : j # h => e[j] = f[j]
    BY <2>1, <1>1, <1>2
  <2>4. /\ Counted(d, f, i) /\ d \subseteq d /\ d \subseteq d \cup {h} /\ i \in Nat
        /\ f[h] = e[h] + 1 /\ (h \in d \/ e[h] = 0) /\ (\A j \in d : j # h => f[j] = e[j])
    BY <2>1, <2>2, <2>3, <1>2 DEF Slices
  <2>5. Counted(d, e, i - 1)
    BY <2>2, <2>3, <2>4, CountedMore
  <2>6. Counted(d, e, 0)
    BY <2>1, <2>5
  <2>7. e[k] \in Nat /\ e[k] = f[k]
    BY <2>2, <2>3, <1>1, <1>21
  <2>8. e[k] = 0
    BY <2>2, <2>6, <2>7, CountedNone
  <2> QED  BY <2>7, <2>8
<1>22. ASSUME NEW k \in Slot, st2[k] # Null PROVE GoodStruct(st2, me2, f, k)
  <2>1. CASE k = h
    <3>1. st2[k] = r /\ r.of = k /\ me2[k] = w
      BY <2>1, <1>14, <1>19
    <3>2. r.length <= r.capacity /\ (r.overrun => r.spare) /\ (r.spare \/ r.capacity <= Len(w.bytes))
      BY <1>7, <1>8, <1>10, <1>12, <1>14, <1>17
    <3>3. ~r.overrun => Reads(w.bytes, r.at, r.length, r.text)
      BY <1>7, <1>10, <1>12, <1>14, <1>17
    <3> QED  BY <3>1, <3>2, <3>3, <1>14, <1>15, <1>18 DEF GoodStruct
  <2>2. CASE k # h
    <3>1. st[k] # Null /\ st2[k] = st[k]
      BY <1>19, <1>22, <2>2
    <3>2. PICK o : o = st[k].of
      OBVIOUS
    <3>3. /\ GoodStruct(st, me, f, k) /\ o \in Slot /\ me[o] # Null /\ st[o] # Null /\ st[o].of = o
          /\ f[k] \in Nat
      BY <3>1, <3>2, ConsistentFacts
    <3>4. CASE o = h
      <4>1. f[k] = 0
        BY <3>1, <3>2, <3>4, <1>21, <2>2 DEF Slices
      <4>2. st2[o] # Null /\ st2[o].of = o /\ me2[o] # Null
        BY <3>4, <1>14, <1>15, <1>18, <1>19
      <4>3. ~(f[k] > 0) /\ o # k
        BY <3>4, <4>1, <2>2
      <4>4. st[k].length <= st[k].capacity /\ (st[k].overrun => st[k].spare)
        BY <3>3 DEF GoodStruct
      <4> QED  BY <3>1, <3>2, <4>2, <4>3, <4>4 DEF GoodStruct
    <3>5. CASE o # h
      <4>1. st2[o] = st[o] /\ me2[o] = me[o]
        BY <3>3, <3>5, <1>19
      <4> QED  BY <3>1, <3>2, <3>3, <4>1 DEF GoodStruct
    <3> QED  BY <3>4, <3>5
  <2> QED  BY <2>1, <2>2
<1>23. ASSUME NEW k \in Slot, f[k] > 0 PROVE st2[k] # Null
  BY <1>15, <1>19, <1>23, ConsistentFacts
<1>24. ASSUME NEW k \in Slot, me2[k] # Null
       PROVE  st2[k] # Null /\ st2[k].of = k /\ Counted(Slices(st2, k), f, me2[k].refs)
  <2>1. Slices(st2, k) = Slices(st, k)
    BY <1>2, <1>3, <1>4, <1>14, <1>15, <1>19 DEF Slices
  <2>2. me[k] # Null /\ me2[k].refs = me[k].refs
    BY <1>2, <1>17, <1>19, <1>24
  <2>3. st[k] # Null /\ st[k].of = k /\ Counted(Slices(st, k), f, me[k].refs)
    BY <2>2, ConsistentFacts
  <2>4. st2[k] # Null /\ st2[k].of = k
    BY <2>3, <1>14, <1>15, <1>19
  <2> QED  BY <2>1, <2>2, <2>3, <2>4
<1> QED  BY <1>1, <1>20, <1>22, <1>23, <1>24 DEF Consistent

(* A slot that is free is found, and nobody has what was in it.            *)
LEMMA NewSlotIsFree ==
    ASSUME StringsAssumption, StringsInv, Used # Slot
    PROVE  /\ NewSlot \in Slot /\ str[NewSlot] = Null
           /\ AllHolders[NewSlot] = 0 /\ held[NewSlot] = 0
           /\ NewSlot \notin forgotten /\ NewSlot # source
PROOF
<1>1. Slot \ Used \in SUBSET Nat /\ Slot \ Used # {}
  BY DEF StringsAssumption, Slot, Used
<1>2. NewSlot \in Slot \ Used
  BY <1>1, MinIsLeast DEF NewSlot
<1>3. NewSlot \in Slot /\ str[NewSlot] = Null
  BY <1>2 DEF Used
<1>4. PICK a : a = NewSlot
  OBVIOUS
<1>5. AllHolders[a] \in Nat /\ ~(AllHolders[a] > 0)
  BY <1>3, <1>4, ConsistentFacts DEF StringsInv
<1>6. AllHolders[a] = Holders(a) /\ held[a] \in Nat
  BY <1>3, <1>4 DEF AllHolders, StringsInv, StringTypes
<1>7. Holders(a) = 0
  BY <1>5, <1>6
<1>8. held[a] = 0 /\ a \notin forgotten /\ a # source
  BY <1>6, <1>7 DEF Holders
<1> QED  BY <1>3, <1>4, <1>6, <1>7, <1>8

(* A client has one reference more or less.                                *)
LEMMA HoldersOfHold ==
    ASSUME StringsAssumption, StringsInv, NEW k, k \in Slot, NEW n, n \in {1, -1},
           Hold(k, n), held[k] + n \in Nat
    PROVE  /\ AllHolders' = [AllHolders EXCEPT ![k] = @ + n]
           /\ held' \in [Slot -> Nat] /\ forgotten' = forgotten /\ source' = source
PROOF
<1>1. /\ held' = [held EXCEPT ![k] = @ + n] /\ forgotten' = forgotten /\ source' = source
      /\ held \in [Slot -> Nat]
  BY DEF Hold, StringsInv, StringTypes
<1>2. held' \in [Slot -> Nat] /\ held'[k] = held[k] + n /\ \A j \in Slot : j # k => held'[j] = held[j]
  BY <1>1
<1>3. ASSUME NEW j \in Slot
      PROVE  Holders(j)' = IF j = k THEN Holders(j) + n ELSE Holders(j)
  <2>1. held[j] \in Nat
    BY <1>1
  <2> QED  BY <2>1, <1>1, <1>2 DEF Holders
<1>4. AllHolders' = [j \in Slot |-> IF j = k THEN Holders(j) + n ELSE Holders(j)]
  BY <1>3 DEF AllHolders
<1>5. [AllHolders EXCEPT ![k] = @ + n] = [j \in Slot |-> IF j = k THEN Holders(j) + n ELSE Holders(j)]
  BY DEF AllHolders
<1> QED  BY <1>1, <1>2, <1>4, <1>5

(* With types of the references, and what they are for, all types follow.  *)
LEMMA InvariantFollows ==
    ASSUME Consistent(str, memory, AllHolders)', held' \in [Slot -> Nat],
           forgotten' \subseteq Slot, source' \in Slot \cup {Null}, Null \notin Slot
    PROVE  StringsInv'
PROOF
<1>1. /\ str' \in [Slot -> Struct \cup {Null}] /\ memory' \in [Slot -> Memory \cup {Null}]
      /\ \A h \in Slot : AllHolders'[h] > 0 => str'[h] # Null
  BY DEF Consistent
<1>2. source' \in Used' \cup {Null}
  <2>1. CASE source' # Null
    <3>1. source' \in Slot /\ held'[source'] \in Nat
      BY <2>1
    <3>2. AllHolders'[source'] = Holders(source)'
      BY <3>1 DEF AllHolders
    <3>3. Holders(source)' > 0
      BY <3>1 DEF Holders
    <3> QED  BY <3>1, <3>2, <3>3, <1>1 DEF Used
  <2> QED  BY <2>1
<1> QED  BY <1>1, <1>2 DEF StringsInv, StringTypes

(* What a client has can be used, and reads as its text.                   *)
LEMMA MineFacts ==
    ASSUME StringsAssumption, StringsInv, NEW h, Mine(h)
    PROVE  /\ h \in Slot /\ AllHolders[h] \in Nat /\ AllHolders[h] > 0 /\ ~str[h].overrun
           /\ held[h] \in Nat /\ held[h] > 0 /\ str[h] # Null
           /\ Reads(memory[str[h].of].bytes, str[h].at, str[h].length, str[h].text)
           /\ CString(h) = str[h].text
PROOF
<1>1. h \in Slot /\ held[h] \in Nat /\ held[h] > 0 /\ str[h] # Null /\ ~str[h].overrun
  BY DEF Mine, Used, StringsInv, StringTypes
<1>2. AllHolders[h] = Holders(h)
  BY <1>1 DEF AllHolders
<1>3. Holders(h) \in Nat /\ Holders(h) > 0
  BY <1>1 DEF Holders
<1>4. GoodStruct(str, memory, AllHolders, h)
  BY <1>1, ConsistentFacts DEF StringsInv
<1>5. Reads(memory[str[h].of].bytes, str[h].at, str[h].length, str[h].text)
  BY <1>1, <1>2, <1>3, <1>4 DEF GoodStruct
<1>6. PICK b, a, n, t : /\ b = memory[str[h].of].bytes /\ a = str[h].at /\ n = str[h].length
                        /\ t = str[h].text
  OBVIOUS
<1>7. Reads(b, a, n, t)
  BY <1>5, <1>6
<1>8. ReadFrom(b, a, n) = t
  BY <1>7, CStringReads
<1>9. CString(h) = ReadFrom(b, a, n)
  BY <1>6 DEF CString, ReadFrom, Part
<1> QED  BY <1>1, <1>2, <1>3, <1>5, <1>6, <1>8, <1>9

(* It holds at the start.                                                  *)
LEMMA StringsInitInv == StringsAssumption /\ StringsInit => StringsInv
PROOF
<1> SUFFICES ASSUME StringsAssumption, StringsInit PROVE StringsInv
  OBVIOUS
<1>1. /\ str = [h \in Slot |-> Null] /\ memory = [h \in Slot |-> Null]
      /\ held = [h \in Slot |-> 0] /\ forgotten = {} /\ source = Null
  BY DEF StringsInit
<1>2. Null \notin Slot
  BY DEF StringsAssumption
<1>3. \A h \in Slot : Holders(h) = 0
  BY <1>1, <1>2 DEF Holders
<1>4. AllHolders \in [Slot -> Nat] /\ \A h \in Slot : AllHolders[h] = 0
  BY <1>3 DEF AllHolders
<1>5. Consistent(str, memory, AllHolders)
  BY <1>1, <1>4 DEF Consistent
<1> QED  BY <1>1, <1>5 DEF StringsInv, StringTypes, Used

(* A new string with n references, for whatever the references are.        *)
LEMMA AllocateInv ==
    ASSUME StringsAssumption, StringsInv, NEW m, GoodMade(m), NEW n, n \in {1, 2},
           NEW spare, spare \in BOOLEAN, spare \/ m.capacity <= Len(m.bytes),
           Allocate(m, n, spare), AllHolders' = [AllHolders EXCEPT ![NewSlot] = n]
    PROVE  Consistent(str, memory, AllHolders)'
PROOF
<1>1. Used # Slot
  BY DEF Allocate
<1>2. PICK a : a = NewSlot
  OBVIOUS
<1>3. a \in Slot /\ str[a] = Null
  BY <1>1, <1>2, NewSlotIsFree
<1>4. PICK st2, me2, f2 : st2 = str' /\ me2 = memory' /\ f2 = AllHolders'
  OBVIOUS
<1>5. PICK r : r = [of |-> a, at |-> 0, length |-> m.length, capacity |-> m.capacity,
                    text |-> m.text, spare |-> spare, overrun |-> FALSE]
  OBVIOUS
<1>6. /\ st2 = [str EXCEPT ![a] = r] /\ me2 = [memory EXCEPT ![a] = [bytes |-> m.bytes, refs |-> n]]
      /\ f2 = [AllHolders EXCEPT ![a] = n]
  BY <1>2, <1>4, <1>5 DEF Allocate
<1>7. Consistent(str, memory, AllHolders)
  BY DEF StringsInv
<1>8. PICK st, me, f : st = str /\ me = memory /\ f = AllHolders
  OBVIOUS
<1>9. /\ Consistent(st, me, f) /\ a \in Slot /\ st[a] = Null
      /\ st2 = [st EXCEPT ![a] = r] /\ me2 = [me EXCEPT ![a] = [bytes |-> m.bytes, refs |-> n]]
      /\ f2 = [f EXCEPT ![a] = n]
  BY <1>3, <1>6, <1>7, <1>8
<1>10. Consistent(st2, me2, f2)
  BY <1>5, <1>9, NewOneIsConsistent
<1> QED  BY <1>4, <1>10

(* A client's first reference to what was free.                            *)
LEMMA HoldersOfNew ==
    ASSUME StringsAssumption, StringsInv, Used # Slot, Hold(NewSlot, 1)
    PROVE  /\ AllHolders' = [AllHolders EXCEPT ![NewSlot] = 1]
           /\ held' \in [Slot -> Nat] /\ forgotten' = forgotten /\ source' = source
PROOF
<1>1. PICK a : a = NewSlot
  OBVIOUS
<1>2. a \in Slot /\ AllHolders[a] = 0 /\ held[a] = 0
  BY <1>1, NewSlotIsFree
<1>3. PICK n : n = 1
  OBVIOUS
<1>4. n \in {1, -1} /\ Hold(a, n) /\ held[a] + n \in Nat
  BY <1>1, <1>2, <1>3
<1>5. /\ AllHolders' = [AllHolders EXCEPT ![a] = @ + n]
      /\ held' \in [Slot -> Nat] /\ forgotten' = forgotten /\ source' = source
  BY <1>2, <1>4, HoldersOfHold
<1>6. [AllHolders EXCEPT ![a] = @ + n] = [AllHolders EXCEPT ![a] = 1]
  BY <1>2, <1>3
<1> QED  BY <1>1, <1>5, <1>6

(* What does not change of the references.                                 *)
LEMMA RestOfTypes ==
    ASSUME StringsAssumption, StringsInv
    PROVE  /\ Null \notin Slot /\ forgotten \subseteq Slot /\ source \in Slot \cup {Null}
           /\ held \in [Slot -> Nat] /\ Consistent(str, memory, AllHolders)
PROOF
<1> QED  BY DEF StringsInv, StringTypes, Used, StringsAssumption

(* A new string, of any of the ways to make one (il_string_new()).         *)
LEMMA CreateInv ==
    ASSUME StringsAssumption, StringsInv, Create
    PROVE  StringsInv'
PROOF
<1>1. PICK m \in Creatable : Allocate(m, 1, FALSE)
  BY DEF Create
<1>2. Used # Slot /\ Hold(NewSlot, 1)
  BY <1>1 DEF Create, Allocate
<1>3. /\ AllHolders' = [AllHolders EXCEPT ![NewSlot] = 1]
      /\ held' \in [Slot -> Nat] /\ forgotten' = forgotten /\ source' = source
  BY <1>2, HoldersOfNew
<1>4. GoodMade(m) /\ m.capacity <= Len(m.bytes)
  BY CreatableIsGood
<1>5. PICK m1, n, spare : m1 = m /\ n = 1 /\ spare = FALSE
  OBVIOUS
<1>6. /\ GoodMade(m1) /\ n \in {1, 2} /\ spare \in BOOLEAN
      /\ spare \/ m1.capacity <= Len(m1.bytes)
      /\ Allocate(m1, n, spare) /\ AllHolders' = [AllHolders EXCEPT ![NewSlot] = n]
  BY <1>1, <1>3, <1>4, <1>5
<1>7. Consistent(str, memory, AllHolders)'
  BY <1>6, AllocateInv
<1> QED  BY <1>3, <1>7, RestOfTypes, InvariantFollows

(* The source read from a file, which has two references                   *)
(* (ilG_material_vertex_file()).                                           *)
LEMMA SetSourceFileInv ==
    ASSUME StringsAssumption, StringsInv, NEW t \in Text, SetSourceFile(t)
    PROVE  StringsInv'
PROOF
<1>1. Used # Slot
  BY DEF SetSourceFile, Allocate
<1>2. PICK a : a = NewSlot
  OBVIOUS
<1>3. /\ a \in Slot /\ AllHolders[a] = 0 /\ held[a] = 0 /\ a \notin forgotten
      /\ source = Null /\ source' = a /\ forgotten' = forgotten \cup {a} /\ held' = held
  BY <1>1, <1>2, NewSlotIsFree DEF SetSourceFile
<1>4. AllHolders' = [AllHolders EXCEPT ![a] = 2]
  <2>1. ASSUME NEW j \in Slot
        PROVE  Holders(j)' = IF j = a THEN 2 ELSE Holders(j)
    <3>1. held[j] \in Nat /\ j # Null
      BY RestOfTypes
    <3> QED  BY <3>1, <1>3 DEF Holders
  <2> QED  BY <2>1 DEF AllHolders
<1>5. Bin(t) \in Creatable
  BY DEF Creatable
<1>6. PICK m1, n, spare : m1 = Bin(t) /\ n = 2 /\ spare = FALSE
  OBVIOUS
<1>7. GoodMade(m1) /\ m1.capacity <= Len(m1.bytes)
  BY <1>5, <1>6, CreatableIsGood
<1>8. /\ n \in {1, 2} /\ spare \in BOOLEAN /\ (spare \/ m1.capacity <= Len(m1.bytes))
      /\ Allocate(m1, n, spare) /\ AllHolders' = [AllHolders EXCEPT ![NewSlot] = n]
  BY <1>2, <1>4, <1>6, <1>7 DEF SetSourceFile
<1>9. Consistent(str, memory, AllHolders)'
  BY <1>7, <1>8, AllocateInv
<1>10. held' \in [Slot -> Nat] /\ forgotten' \subseteq Slot /\ source' \in Slot \cup {Null}
  BY <1>3, RestOfTypes
<1> QED  BY <1>9, <1>10, RestOfTypes, InvariantFollows

(* A copy has bytes of its own (il_string_copy()).                         *)
LEMMA CopyInv ==
    ASSUME StringsAssumption, StringsInv, NEW h, Copy(h)
    PROVE  StringsInv'
PROOF
<1>1. PICK s, o, b, a, n, t : /\ s = str[h] /\ o = s.of /\ b = memory[o].bytes
                              /\ a = s.at /\ n = s.length /\ t = s.text
  OBVIOUS
<1>2. Mine(h) /\ Hold(NewSlot, 1)
  BY DEF Copy
<1>3. PICK c : c = Ended(b, a, n)
  OBVIOUS
<1>4. PICK m : m = Made(c, n, s.capacity, t)
  OBVIOUS
<1>5. PICK spare : spare = (s.capacity > n + 1)
  OBVIOUS
<1>6. Allocate(m, 1, spare)
  BY <1>1, <1>3, <1>4, <1>5 DEF Copy, Ended, Part
<1>7. Used # Slot
  BY <1>6 DEF Allocate
<1>8. /\ AllHolders' = [AllHolders EXCEPT ![NewSlot] = 1]
      /\ held' \in [Slot -> Nat] /\ forgotten' = forgotten /\ source' = source
  BY <1>2, <1>7, HoldersOfNew
<1>9. h \in Slot /\ str[h] # Null /\ Reads(memory[str[h].of].bytes, str[h].at, str[h].length, str[h].text)
  BY <1>2, MineFacts
<1>10. Reads(b, a, n, t)
  BY <1>1, <1>9
<1>11. Reads(c, 0, n, t) /\ Len(c) = n + 1
  BY <1>3, <1>10, CopyReads
<1>12. GoodStruct(str, memory, AllHolders, h) /\ s.capacity \in Nat /\ n \in Nat
  BY <1>1, <1>9, ConsistentFacts, RestOfTypes
<1>13. n <= s.capacity
  BY <1>1, <1>12 DEF GoodStruct
<1>14. c \in Seq(Nat) /\ t \in Seq(Nat \ {0})
  BY <1>11 DEF Reads
<1>15. m.bytes = c /\ m.length = n /\ m.capacity = s.capacity /\ m.text = t
  BY <1>4 DEF Made
<1>16. GoodMade(m)
  BY <1>11, <1>12, <1>13, <1>14, <1>15 DEF GoodMade
<1>17. spare \in BOOLEAN /\ (spare \/ m.capacity <= Len(m.bytes))
  <2>1. spare \in BOOLEAN
    BY <1>5
  <2>2. CASE s.capacity > n + 1
    <3>1. spare = TRUE
      BY <2>2, <1>5
    <3> QED  BY <3>1
  <2>3. CASE ~(s.capacity > n + 1)
    <3>1. m.capacity <= Len(m.bytes)
      BY <2>3, <1>11, <1>12, <1>15
    <3> QED  BY <2>1, <3>1
  <2> QED  BY <2>2, <2>3
<1>18. PICK k : k = 1
  OBVIOUS
<1>19. k \in {1, 2} /\ Allocate(m, k, spare) /\ AllHolders' = [AllHolders EXCEPT ![NewSlot] = k]
  BY <1>6, <1>8, <1>18
<1>20. Consistent(str, memory, AllHolders)'
  BY <1>16, <1>17, <1>19, AllocateInv
<1> QED  BY <1>8, <1>20, RestOfTypes, InvariantFollows

(* A slice (il_string_sub()).                                              *)
LEMMA SubInv ==
    ASSUME StringsAssumption, StringsInv, NEW h, NEW p1, p1 \in Int, NEW p2, p2 \in Int, Sub(h, p1, p2)
    PROVE  StringsInv'
PROOF
<1>1. PICK s, o, a : s = str[h] /\ o = s.of /\ a = NewSlot
  OBVIOUS
<1>2. PICK p, q : /\ p = (IF p1 < 0 THEN p1 + s.length ELSE p1)
                  /\ q = (IF p2 < 0 THEN p2 + s.length ELSE p2)
  OBVIOUS
<1>3. /\ Mine(h) /\ Used # Slot /\ 0 <= p /\ p <= q /\ q <= s.length /\ Hold(NewSlot, 1)
      /\ str' = [str EXCEPT ![a] = [s EXCEPT !.at = @ + p, !.length = q - p, !.capacity = @ - p,
                                             !.text = SubSeq(@, p + 1, Min({q, Len(@)}))]]
      /\ memory' = [memory EXCEPT ![o].refs = @ + 1]
  BY <1>1, <1>2 DEF Sub, CountUp
<1>4. h \in Slot /\ AllHolders[h] > 0 /\ ~str[h].overrun /\ str[h] # Null
  BY <1>3, MineFacts
<1>5. s.length \in Nat
  BY <1>1, <1>4, ConsistentFacts, RestOfTypes
<1>6. p \in Nat /\ q \in Nat
  BY <1>2, <1>3, <1>5
<1>7. a \in Slot /\ str[a] = Null
  BY <1>1, <1>3, NewSlotIsFree
<1>8. /\ AllHolders' = [AllHolders EXCEPT ![a] = 1]
      /\ held' \in [Slot -> Nat] /\ forgotten' = forgotten /\ source' = source
  BY <1>1, <1>3, HoldersOfNew
<1>9. PICK st, me, f, st2, me2, f2 : /\ st = str /\ me = memory /\ f = AllHolders
                                     /\ st2 = str' /\ me2 = memory' /\ f2 = AllHolders'
  OBVIOUS
<1>10. PICK r : r = [s EXCEPT !.at = @ + p, !.length = q - p, !.capacity = @ - p,
                              !.text = SubSeq(@, p + 1, Min({q, Len(@)}))]
  OBVIOUS
<1>11. /\ Consistent(st, me, f) /\ a \in Slot /\ st[a] = Null
       /\ h \in Slot /\ f[h] > 0 /\ ~st[h].overrun
       /\ p \in Nat /\ q \in Nat /\ p <= q /\ q <= st[h].length /\ o = st[h].of
       /\ r = [st[h] EXCEPT !.at = @ + p, !.length = q - p, !.capacity = @ - p,
                            !.text = SubSeq(@, p + 1, Min({q, Len(@)}))]
       /\ st2 = [st EXCEPT ![a] = r] /\ me2 = [me EXCEPT ![o].refs = @ + 1]
       /\ f2 = [f EXCEPT ![a] = 1]
  BY <1>1, <1>3, <1>4, <1>6, <1>7, <1>8, <1>9, <1>10, RestOfTypes
<1>12. Consistent(st2, me2, f2)
  BY <1>11, SliceIsConsistent
<1>13. Consistent(str, memory, AllHolders)'
  BY <1>9, <1>12
<1> QED  BY <1>8, <1>13, RestOfTypes, InvariantFollows

(* One more reference (il_string_ref()).                                   *)
LEMMA RefInv ==
    ASSUME StringsAssumption, StringsInv, NEW h, Ref(h)
    PROVE  StringsInv'
PROOF
<1>1. PICK o, n : o = str[h].of /\ n = 1
  OBVIOUS
<1>2. /\ Mine(h) /\ Hold(h, n) /\ str' = str /\ memory' = [memory EXCEPT ![o].refs = @ + 1]
  BY <1>1 DEF Ref, CountUp
<1>3. h \in Slot /\ AllHolders[h] > 0 /\ held[h] \in Nat
  BY <1>2, MineFacts
<1>4. n \in {1, -1} /\ held[h] + n \in Nat
  BY <1>1, <1>3
<1>5. /\ AllHolders' = [AllHolders EXCEPT ![h] = @ + n]
      /\ held' \in [Slot -> Nat] /\ forgotten' = forgotten /\ source' = source
  BY <1>2, <1>3, <1>4, HoldersOfHold
<1>6. PICK st, me, f, me2, f2 : /\ st = str /\ me = memory /\ f = AllHolders
                                /\ me2 = memory' /\ f2 = AllHolders'
  OBVIOUS
<1>7. /\ Consistent(st, me, f) /\ h \in Slot /\ f[h] > 0 /\ o = st[h].of
      /\ me2 = [me EXCEPT ![o].refs = @ + 1] /\ f2 = [f EXCEPT ![h] = @ + 1]
  BY <1>1, <1>2, <1>3, <1>5, <1>6, RestOfTypes
<1>8. Consistent(st, me2, f2)
  BY <1>7, TakenIsConsistent
<1>9. Consistent(str, memory, AllHolders)'
  BY <1>2, <1>6, <1>8
<1> QED  BY <1>5, <1>9, RestOfTypes, InvariantFollows

(* What is left of the structs is what LeftOf says.                        *)
LEMMA LeftIs ==
    ASSUME NEW m
    PROVE  Left(m) = LeftOf(str, m)
PROOF
<1> QED  BY DEF Left, LeftOf, Used

(* One reference less (il_string_unref()).                                 *)
LEMMA UnrefInv ==
    ASSUME StringsAssumption, StringsInv, NEW h, Unref(h)
    PROVE  StringsInv'
PROOF
<1>1. PICK o, n : o = str[h].of /\ n = -1
  OBVIOUS
<1>2. PICK st, me, f, st2, me2, f2 : /\ st = str /\ me = memory /\ f = AllHolders
                                     /\ st2 = str' /\ me2 = memory' /\ f2 = AllHolders'
  OBVIOUS
<1>3. /\ Mine(h) /\ Hold(h, n) /\ st2 = Left(me2)
      /\ me2 = IF me[o].refs > 1 THEN [me EXCEPT ![o].refs = @ - 1] ELSE [me EXCEPT ![o] = Null]
  BY <1>1, <1>2 DEF Unref, CountDown
<1>4. h \in Slot /\ AllHolders[h] > 0 /\ held[h] \in Nat /\ held[h] > 0 /\ AllHolders[h] \in Nat
  BY <1>3, MineFacts
<1>5. n \in {1, -1} /\ held[h] + n \in Nat
  BY <1>1, <1>4
<1>6. /\ AllHolders' = [AllHolders EXCEPT ![h] = @ + n]
      /\ held' \in [Slot -> Nat] /\ forgotten' = forgotten /\ source' = source
  BY <1>3, <1>4, <1>5, HoldersOfHold
<1>7. f2 = [f EXCEPT ![h] = @ - 1]
  <2>1. f[h] + n = f[h] - 1
    BY <1>1, <1>2, <1>4
  <2> QED  BY <2>1, <1>2, <1>6
<1>8. st2 = LeftOf(st, me2)
  BY <1>2, <1>3, LeftIs
<1>9. Consistent(st, me, f) /\ h \in Slot /\ f[h] > 0 /\ o = st[h].of
  BY <1>1, <1>2, <1>4, RestOfTypes
<1>10. me2 = IF me[o].refs > 1 THEN [me EXCEPT ![o].refs = @ - 1] ELSE [me EXCEPT ![o] = Null]
  BY <1>3
<1>11. Consistent(st2, me2, f2)
  BY <1>7, <1>8, <1>9, <1>10, GivenUpIsConsistent
<1>12. Consistent(str, memory, AllHolders)'
  BY <1>2, <1>11
<1> QED  BY <1>6, <1>12, RestOfTypes, InvariantFollows

(* Adding to a string that is not shared (il_string_cat()).                *)
LEMMA CatInv ==
    ASSUME StringsAssumption, StringsInv, NEW h, Cat(h)
    PROVE  StringsInv'
PROOF
<1>1. /\ Mine(h) /\ str[h].of = h /\ memory[h].refs = 1
      /\ held' = held /\ forgotten' = forgotten /\ source' = source
  BY DEF Cat, Mutable
<1>2. PICK u \in Text \cup {CString(g) : g \in {g \in Used : Mine(g)}} : CatText(h, u)
  BY DEF Cat
<1>3. u \in Seq(Nat \ {0})
  <2>1. CASE u \in Text
    BY <2>1 DEF StringsAssumption
  <2>2. CASE u \notin Text
    <3>1. PICK g : Mine(g) /\ u = CString(g)
      BY <2>2, <1>2
    <3>2. u = str[g].text /\ Reads(memory[str[g].of].bytes, str[g].at, str[g].length, str[g].text)
      BY <3>1, MineFacts
    <3> QED  BY <3>2 DEF Reads
  <2> QED  BY <2>1, <2>2
<1>4. /\ h \in Slot /\ AllHolders[h] > 0 /\ ~str[h].overrun /\ CString(h) = str[h].text
      /\ Reads(memory[str[h].of].bytes, str[h].at, str[h].length, str[h].text)
  BY <1>1, MineFacts
<1>5. PICK st, me, f, st2, me2 : st = str /\ me = memory /\ f = AllHolders /\ st2 = str' /\ me2 = memory'
  OBVIOUS
<1>6. PICK v : v = st[h].text \o u
  OBVIOUS
<1>7. PICK size : size = SizeFor(st, me, h, Len(v))
  OBVIOUS
<1>8. PICK r : r = [st[h] EXCEPT !.length = Len(v), !.capacity = Grown(st[h], Len(v)),
                                 !.text = v, !.overrun = Len(v) + 1 > size]
  OBVIOUS
<1>9. st2 = [st EXCEPT ![h] = r] /\ me2 = [me EXCEPT ![h].bytes = Written(v, size)]
  BY <1>2, <1>4, <1>5, <1>6, <1>7, <1>8 DEF CatText, SizeFor, Written
<1>10. /\ Consistent(st, me, f) /\ h \in Slot /\ f[h] > 0 /\ ~st[h].overrun
       /\ st[h].of = h /\ me[h].refs = 1
  BY <1>1, <1>4, <1>5, RestOfTypes
<1>11. Consistent(st2, me2, f)
  BY <1>3, <1>6, <1>7, <1>8, <1>9, <1>10, CatIsConsistent
<1>12. AllHolders' = AllHolders
  BY <1>1 DEF AllHolders, Holders
<1>13. Consistent(str, memory, AllHolders)'
  BY <1>5, <1>11, <1>12
<1> QED  BY <1>1, <1>13, RestOfTypes, InvariantFollows

(* The material takes another source, and gives up the one it has, which   *)
(* may be the same (ilG_material_vertex()).                                *)
LEMMA SetSourceInv ==
    ASSUME StringsAssumption, StringsInv, NEW h, SetSource(h)
    PROVE  StringsInv'
PROOF
<1>1. PICK st, me, f, st2, me2, f2 : /\ st = str /\ me = memory /\ f = AllHolders
                                     /\ st2 = str' /\ me2 = memory' /\ f2 = AllHolders'
  OBVIOUS
<1>2. PICK m1 : m1 = WithoutSource
  OBVIOUS
<1>3. PICK p : p = str[h].of
  OBVIOUS
<1>4. /\ Mine(h) /\ source' = h /\ held' = held /\ forgotten' = forgotten
      /\ st2 = Left(me2) /\ me2 = [m1 EXCEPT ![p].refs = @ + 1]
  BY <1>1, <1>2, <1>3 DEF SetSource, CountUp
<1>5. h \in Slot /\ AllHolders[h] > 0 /\ held[h] \in Nat /\ held[h] > 0 /\ str[h] # Null
  BY <1>4, MineFacts
<1>6. st2 = LeftOf(st, me2)
  BY <1>1, <1>4, LeftIs
<1>7. Consistent(st, me, f) /\ f[h] > 0 /\ p = st[h].of /\ f \in [Slot -> Nat]
  BY <1>1, <1>3, <1>5, RestOfTypes DEF Consistent
<1>8. p \in Slot /\ me[p] # Null /\ st[h] # Null
  BY <1>1, <1>5, <1>7, ConsistentFacts
<1>9. PICK f1 : f1 = [j \in Slot |-> held[j] + (IF j \in forgotten THEN 1 ELSE 0)]
  OBVIOUS
<1>10. /\ f1 \in [Slot -> Nat] /\ f1[h] > 0
       /\ \A j \in Slot : f[j] = f1[j] + (IF j = source THEN 1 ELSE 0)
       /\ \A j \in Slot : f2[j] = f1[j] + (IF j = h THEN 1 ELSE 0)
       /\ f2 = [j \in Slot |-> f2[j]]
  <2>1. ASSUME NEW j \in Slot PROVE held[j] \in Nat
    BY RestOfTypes
  <2>2. ASSUME NEW j \in Slot
        PROVE  /\ f1[j] \in Nat /\ f[j] = f1[j] + (IF j = source THEN 1 ELSE 0)
               /\ f2[j] = f1[j] + (IF j = h THEN 1 ELSE 0)
    BY <2>1, <1>1, <1>4, <1>9 DEF AllHolders, Holders
  <2>3. f1[h] > 0
    BY <2>1, <1>5, <1>9
  <2> QED  BY <2>2, <2>3, <1>1, <1>9 DEF AllHolders
<1>11. f2 = [f1 EXCEPT ![h] = @ + 1]
  <2>1. f1[h] + 1 = f2[h] /\ \A j \in Slot : j # h => f1[j] = f2[j]
    BY <1>5, <1>10
  <2>2. [f1 EXCEPT ![h] = @ + 1] = [j \in Slot |-> f2[j]]
    BY <2>1, <1>5, <1>10
  <2> QED  BY <2>2, <1>10
<1>12. PICK st1 : st1 = LeftOf(st, m1)
  OBVIOUS
<1>13. Consistent(st1, m1, f1)
  <2>1. CASE source = Null
    <3>1. \A j \in Slot : j # source
      BY <2>1, RestOfTypes
    <3>2. f1 = f
      BY <3>1, <1>7, <1>10
    <3>3. m1 = me
      BY <2>1, <1>1, <1>2 DEF WithoutSource
    <3>4. \A j \in Slot : st[j] # Null => me[st[j].of] # Null
      BY <1>7, ConsistentFacts
    <3>5. st1 = [j \in Slot |-> st[j]] /\ st \in [Slot -> Struct \cup {Null}]
      BY <3>3, <3>4, <1>7, <1>12 DEF LeftOf, Consistent
    <3> QED  BY <3>2, <3>3, <3>5, <1>7
  <2>2. CASE source # Null
    <3>1. PICK g, o : g = source /\ o = st[g].of
      OBVIOUS
    <3>2. g \in Slot
      BY <2>2, <3>1, RestOfTypes
    <3>3. f[g] > 0 /\ f1 = [f EXCEPT ![g] = @ - 1]
      BY <3>1, <3>2, <1>7, <1>10
    <3>4. m1 = IF me[o].refs > 1 THEN [me EXCEPT ![o].refs = @ - 1] ELSE [me EXCEPT ![o] = Null]
      BY <2>2, <3>1, <1>1, <1>2 DEF WithoutSource, CountDown
    <3> QED  BY <3>1, <3>2, <3>3, <3>4, <1>7, <1>12, GivenUpIsConsistent
  <2> QED  BY <2>1, <2>2
<1>14. st1[h] # Null /\ st1[h] = st[h] /\ m1[p] # Null
  BY <1>5, <1>8, <1>7, <1>10, <1>12, <1>13, ConsistentFacts DEF LeftOf
<1>15. p = st1[h].of /\ f1[h] > 0
  BY <1>7, <1>10, <1>14
<1>16. Consistent(st1, me2, f2)
  BY <1>4, <1>5, <1>11, <1>13, <1>15, TakenIsConsistent
<1>17. st1 = st2
  <2>1. m1 \in [Slot -> Memory \cup {Null}] /\ m1[p] \in Memory /\ Null \notin Memory
    BY <1>8, <1>13, <1>14 DEF Consistent, StringsAssumption
  <2>2. me2[p] # Null
    <3>1. me2[p] = [m1[p] EXCEPT !.refs = @ + 1] /\ m1[p].refs \in Nat
      BY <2>1, <1>4, <1>8 DEF Memory
    <3>2. me2[p] \in Memory
      BY <3>1, <2>1 DEF Memory
    <3> QED  BY <3>2, <2>1
  <2>3. \A j \in Slot : me2[j] = Null <=> m1[j] = Null
    BY <2>1, <2>2, <1>4, <1>14
  <2>4. \A j \in Slot : st[j] # Null => st[j].of \in Slot
    BY <1>7, ConsistentFacts
  <2> QED  BY <2>3, <2>4, <1>6, <1>12 DEF LeftOf
<1>18. Consistent(str, memory, AllHolders)'
  BY <1>1, <1>16, <1>17
<1> QED  BY <1>4, <1>5, <1>18, RestOfTypes, InvariantFollows

(* Every step keeps the invariant.                                         *)
LEMMA StringsStep ==
    ASSUME StringsAssumption, StringsInv, [StringsNext]_strings
    PROVE  StringsInv'
PROOF
<1>1. CASE Create
  BY <1>1, CreateInv
<1>2. CASE \E t \in Text : SetSourceFile(t)
  BY <1>2, SetSourceFileInv
<1>3. CASE \E h \in Used : Copy(h) \/ Ref(h) \/ Unref(h) \/ Cat(h) \/ SetSource(h)
  BY <1>3, CopyInv, RefInv, UnrefInv, CatInv, SetSourceInv
<1>4. CASE \E h \in Used, p1 \in {0, 1}, p2 \in {-1, 1} : Sub(h, p1, p2)
  <2>1. PICK h, p1, p2 : p1 \in Int /\ p2 \in Int /\ Sub(h, p1, p2)
    BY <1>4
  <2> QED  BY <2>1, SubInv
<1>5. CASE UNCHANGED strings
  <2>1. str' = str /\ memory' = memory /\ held' = held /\ forgotten' = forgotten /\ source' = source
    BY <1>5 DEF strings
  <2>2. AllHolders' = AllHolders
    BY <2>1 DEF AllHolders, Holders
  <2> QED  BY <2>1, <2>2, RestOfTypes, InvariantFollows
<1> QED  BY <1>1, <1>2, <1>3, <1>4, <1>5 DEF StringsNext

(* The references to all that share the bytes of o are the uses of them.   *)
LEMMA ReferencesAreUses ==
    ASSUME NEW o
    PROVE  References(o) = Uses(Slices(str, o), AllHolders)
PROOF
<1>1. {h \in Used : str[h].of = o} = Slices(str, o)
  BY DEF Used, Slices
<1>2. ASSUME NEW h \in Slices(str, o) PROVE AllHolders[h] = Holders(h)
  BY DEF AllHolders, Slices
<1> QED  BY <1>1, <1>2 DEF References, Uses

(* What the invariant means.                                               *)
LEMMA StringsInvMeans ==
    ASSUME StringsAssumption, StringsInv
    PROVE  StringsKeepText
PROOF
<1>1. Consistent(str, memory, AllHolders)
  BY RestOfTypes
<1>2. ASSUME NEW h \in Slot PROVE AllHolders[h] = Holders(h)
  BY DEF AllHolders
<1>3. SharedUntilLast
  <2>1. ASSUME NEW o \in Slot, memory[o] # Null
        PROVE  memory[o].refs = Cardinality(References(o))
    <3>1. Counted(Slices(str, o), AllHolders, memory[o].refs)
      BY <2>1, <1>1, ConsistentFacts
    <3>2. Cardinality(Uses(Slices(str, o), AllHolders)) = memory[o].refs
      BY <3>1 DEF Counted
    <3> QED  BY <3>2, ReferencesAreUses
  <2>2. ASSUME NEW h \in Slot, Holders(h) > 0
        PROVE  h \in Used /\ memory[str[h].of] # Null
    <3>1. str[h] # Null /\ memory[str[h].of] # Null
      BY <2>2, <1>1, <1>2, ConsistentFacts
    <3> QED  BY <3>1 DEF Used
  <2> QED  BY <2>1, <2>2 DEF SharedUntilLast
<1>4. ASSUME NEW h \in Used
      PROVE  /\ Holders(h) > 0 /\ ~str[h].overrun => CString(h) = str[h].text
             /\ str[h].overrun => str[h].spare
  <2>1. h \in Slot /\ str[h] # Null
    BY DEF Used
  <2>2. GoodStruct(str, memory, AllHolders, h)
    BY <2>1, <1>1, ConsistentFacts
  <2>3. ASSUME Holders(h) > 0, ~str[h].overrun PROVE CString(h) = str[h].text
    <3>1. Reads(memory[str[h].of].bytes, str[h].at, str[h].length, str[h].text)
      BY <2>1, <2>2, <2>3, <1>2 DEF GoodStruct
    <3>2. PICK b, a, n, t : /\ b = memory[str[h].of].bytes /\ a = str[h].at /\ n = str[h].length
                            /\ t = str[h].text
      OBVIOUS
    <3>3. Reads(b, a, n, t)
      BY <3>1, <3>2
    <3>4. ReadFrom(b, a, n) = t
      BY <3>3, CStringReads
    <3>5. CString(h) = ReadFrom(b, a, n)
      BY <3>2 DEF CString, ReadFrom, Part
    <3> QED  BY <3>2, <3>4, <3>5
  <2>4. str[h].overrun => str[h].spare
    BY <2>2 DEF GoodStruct
  <2> QED  BY <2>3, <2>4
<1> QED  BY <1>3, <1>4 DEF StringsKeepText, TextKept, WritesInside

\* What a client has is there and reads as its text, and every count is that
\* of the references to a string and all its slices (util/string.c).
THEOREM StringsInvariant ==
    ASSUME StringsAssumption
    PROVE  StringsSpec => []StringsInv
PROOF
<1>1. StringsInit => StringsInv
  BY StringsInitInv
<1>2. StringsInv /\ [StringsNext]_strings => StringsInv'
  BY StringsStep
<1> QED  BY <1>1, <1>2, PTL DEF StringsSpec

\* Structs, bytes, counts and references keep their types (util/string.c).
THEOREM StringsKeepTypes ==
    ASSUME StringsAssumption
    PROVE  StringsSpec => []StringTypes
PROOF
<1>1. StringsInv => StringTypes
  BY DEF StringsInv
<1> QED  BY <1>1, StringsInvariant, PTL

\* Whatever strings are made, sliced, added to, given to a material and given
\* up: the bytes go with the last reference, what is left reads as what was put
\* together, and only a copy with capacity on record that it does not have is
\* written beyond its bytes (il_string_sub(), il_string_cat(), il_string_unref()).
THEOREM StringsDoKeepText ==
    ASSUME StringsAssumption
    PROVE  StringsSpec => []StringsKeepText
PROOF
<1>1. StringsInv => StringsKeepText
  BY StringsInvMeans
<1> QED  BY <1>1, StringsInvariant, PTL
================================================================================
