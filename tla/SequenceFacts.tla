---------------------------- MODULE SequenceFacts ----------------------------
(***************************************************************************)
(* What several proofs need of numbers and sequences: that a CHOOSE of the *)
(* least number is defined and so is a recursive function, and what the    *)
(* arrays of the code come to when an element is put in or taken out.      *)
(***************************************************************************)
EXTENDS Integers, SequencesExt, SequenceTheorems, WellFoundedInduction, TLAPS

(* Every non-empty set of natural numbers has a least element.             *)
LEMMA LeastNumber ==
    ASSUME NEW T \in SUBSET Nat, T # {}
    PROVE  \E x \in T : \A y \in T : x <= y
PROOF
<1> DEFINE R == {ss \in Nat \X Nat : ss[1] < ss[2]}
<1>1. \A x, y \in Nat : <<y, x>> \in R <=> y < x
  OBVIOUS
<1>2. IsWellFoundedOn(R, Nat)
  BY NatLessThanWellFounded DEF OpToRel
<1>3. PICK x \in T : \A y \in T : ~ (<<y, x>> \in R)
  <2> HIDE DEF R
  <2> QED  BY <1>2, WFMin
<1> HIDE DEF R
<1>4. \A y \in T : ~ (y < x)
  BY <1>1, <1>3
<1> QED  BY <1>4

(* The least number of a set is one of it.                                 *)
LEMMA MinIsLeast ==
    ASSUME NEW T \in SUBSET Nat, T # {}
    PROVE  Min(T) \in T /\ \A y \in T : Min(T) <= y
PROOF
<1>1. PICK x \in T : \A y \in T : x <= y
  BY LeastNumber
<1> QED  BY <1>1 DEF Min
-----------------------------------------------------------------------------
(* f is s at 0, and what F makes of the one before at 1 to n.              *)
Recursion(f, n, s, F) == f[0] = s /\ \A k \in 1..n : f[k] = F[k][f[k - 1]]

(* A recursion over 1..n defines a function.                               *)
LEMMA RecursionDefines ==
    ASSUME NEW S, NEW n \in Nat, NEW s \in S, NEW F \in [1..n -> [S -> S]]
    PROVE  \E f \in [0..n -> S] : Recursion(f, n, s, F)
PROOF
<1> DEFINE Upto(m) == \E f \in [0..m -> S] : f[0] = s /\ \A k \in 1..m : f[k] = F[k][f[k - 1]]
           Bad == {m \in 0..n : ~Upto(m)}
<1>1. Upto(0)
  <2>1. [k \in 0..0 |-> s] \in [0..0 -> S] /\ [k \in 0..0 |-> s][0] = s /\ 1..0 = {}
    OBVIOUS
  <2> QED  BY <2>1
<1>2. ASSUME NEW m \in 0..(n - 1), Upto(m)
      PROVE  Upto(m + 1)
  <2>1. PICK f \in [0..m -> S] : f[0] = s /\ \A k \in 1..m : f[k] = F[k][f[k - 1]]
    BY <1>2
  <2>2. PICK g : g = [k \in 0..(m + 1) |-> IF k = m + 1 THEN F[m + 1][f[m]] ELSE f[k]]
    OBVIOUS
  <2>3. m + 1 \in 1..n /\ f[m] \in S /\ F[m + 1][f[m]] \in S
    OBVIOUS
  <2>4. g \in [0..(m + 1) -> S] /\ g[0] = s
    BY <2>1, <2>2, <2>3
  <2>5. ASSUME NEW k \in 1..(m + 1)
        PROVE  g[k] = F[k][g[k - 1]]
    <3>1. CASE k = m + 1
      BY <3>1, <2>2
    <3>2. CASE k # m + 1
      <4>1. k \in 1..m /\ k - 1 \in 0..m /\ k \in 0..(m + 1) /\ k - 1 \in 0..(m + 1) /\ k - 1 # m + 1
        BY <3>2
      <4> QED  BY <4>1, <3>2, <2>1, <2>2
    <3> QED  BY <3>1, <3>2
  <2> QED  BY <2>4, <2>5
<1>3. Bad = {}
  <2> SUFFICES ASSUME Bad # {} PROVE FALSE
    OBVIOUS
  <2>1. Bad \in SUBSET Nat
    OBVIOUS
  <2>2. PICK m \in Bad : \A y \in Bad : m <= y
    <3> HIDE DEF Bad
    <3> QED  BY <2>1, LeastNumber
  <2> HIDE DEF Upto
  <2>3. m # 0 /\ m - 1 \in 0..(n - 1) /\ m - 1 \notin Bad
    BY <1>1, <2>2
  <2>4. Upto(m - 1) /\ (m - 1) + 1 = m
    BY <2>3
  <2> QED  BY <1>2, <2>3, <2>4
<1> QED  BY <1>3 DEF Recursion
-----------------------------------------------------------------------------
(* A function on 1..n is a sequence.                                       *)
LEMMA FunctionIsSeq ==
    ASSUME NEW S, NEW n \in Nat, NEW f, f = [i \in 1..n |-> f[i]],
           \A i \in 1..n : f[i] \in S
    PROVE  f \in Seq(S) /\ DOMAIN f = 1..n /\ Len(f) = n
PROOF
<1>1. [i \in 1..n |-> f[i]] \in Seq(S)
  BY IsASeq
<1>2. f \in Seq(S) /\ DOMAIN f = 1..n
  BY <1>1
<1>3. Len(f) \in Nat /\ 1..Len(f) = 1..n
  BY <1>2, LenProperties
<1> QED  BY <1>2, <1>3
-----------------------------------------------------------------------------
(* The elements of an array with one more at its end.                      *)
LEMMA SetOfAppend ==
    ASSUME NEW S, NEW s \in Seq(S), NEW e \in S
    PROVE  /\ Append(s, e) \in Seq(S)
           /\ ToSet(Append(s, e)) = ToSet(s) \cup {e}
           /\ DOMAIN Append(s, e) = 1..(Len(s) + 1)
           /\ \A i \in 1..Len(s) : Append(s, e)[i] = s[i]
           /\ Append(s, e)[Len(s) + 1] = e
PROOF
<1> DEFINE n == Len(s)
<1>1. n \in Nat /\ DOMAIN s = 1..n
  BY LenProperties
<1>2. /\ Append(s, e) \in Seq(S)
      /\ DOMAIN Append(s, e) = 1..(n + 1)
      /\ \A i \in 1..n : Append(s, e)[i] = s[i]
      /\ Append(s, e)[n + 1] = e
  BY <1>1, AppendProperties, LenProperties
<1> HIDE DEF n
<1>3. ToSet(Append(s, e)) = {Append(s, e)[i] : i \in 1..(n + 1)} /\ ToSet(s) = {s[i] : i \in 1..n}
  BY <1>1, <1>2 DEF ToSet
<1>4. 1..(n + 1) = (1..n) \cup {n + 1}
  BY <1>1
<1> QED  BY <1>2, <1>3, <1>4 DEF n

(* The elements of two sequences, one after the other.                     *)
LEMMA SetOfConcat ==
    ASSUME NEW S, NEW s \in Seq(S), NEW t \in Seq(S)
    PROVE  s \o t \in Seq(S) /\ ToSet(s \o t) \subseteq ToSet(s) \cup ToSet(t)
PROOF
<1>1. PICK u, m, n : u = s \o t /\ m = Len(s) /\ n = Len(t)
  OBVIOUS
<1>2. /\ m \in Nat /\ n \in Nat /\ DOMAIN s = 1..m /\ DOMAIN t = 1..n
      /\ u \in Seq(S) /\ Len(u) = m + n
      /\ \A i \in 1..(m + n) : u[i] = IF i <= m THEN s[i] ELSE t[i - m]
  BY <1>1, LenProperties, ConcatProperties
<1>3. DOMAIN u = 1..(m + n)
  BY <1>2, LenProperties
<1>4. ASSUME NEW x \in ToSet(u) PROVE x \in ToSet(s) \cup ToSet(t)
  <2>1. PICK i \in 1..(m + n) : x = u[i]
    BY <1>3, <1>4 DEF ToSet
  <2>2. CASE i <= m
    BY <2>1, <2>2, <1>2 DEF ToSet
  <2>3. CASE i > m
    <3>1. i - m \in 1..n /\ x = t[i - m]
      BY <2>1, <2>3, <1>2
    <3> QED  BY <3>1, <1>2 DEF ToSet
  <2> QED  BY <2>1, <2>2, <2>3, <1>2
<1> QED  BY <1>1, <1>2, <1>4

(* An array without duplicates with a new element at its end.              *)
LEMMA AppendToInjective ==
    ASSUME NEW S, NEW s \in Seq(S), IsInjective(s), NEW e \in S, e \notin ToSet(s)
    PROVE  /\ Append(s, e) \in Seq(S) /\ IsInjective(Append(s, e))
           /\ ToSet(Append(s, e)) = ToSet(s) \cup {e}
PROOF
<1> DEFINE n == Len(s)
<1>1. n \in Nat /\ DOMAIN s = 1..n
  BY LenProperties
<1>2. /\ DOMAIN Append(s, e) = 1..(n + 1)
      /\ \A i \in 1..n : Append(s, e)[i] = s[i]
      /\ Append(s, e)[n + 1] = e
  BY SetOfAppend
<1>3. /\ \A i, j \in 1..n : s[i] = s[j] => i = j
      /\ \A i \in 1..n : s[i] # e
  BY <1>1 DEF IsInjective, ToSet
<1> HIDE DEF n
<1>4. IsInjective(Append(s, e))
  BY <1>1, <1>2, <1>3 DEF IsInjective
<1> QED  BY <1>4, SetOfAppend

(* A part of an array, by index.                                           *)
LEMMA FrontByIndex ==
    ASSUME NEW S, NEW s \in Seq(S), s # <<>>
    PROVE  /\ Len(s) \in Nat /\ Len(s) >= 1 /\ DOMAIN s = 1..Len(s)
           /\ Front(s) \in Seq(S) /\ DOMAIN Front(s) = 1..(Len(s) - 1)
           /\ \A i \in 1..(Len(s) - 1) : Front(s)[i] = s[i]
           /\ Last(s) = s[Len(s)] /\ Last(s) \in S
PROOF
<1>1. Len(s) \in Nat /\ Len(s) >= 1 /\ DOMAIN s = 1..Len(s)
  BY EmptySeq, LenProperties
<1>2. /\ Front(s) \in Seq(S)
      /\ DOMAIN Front(s) = 1..(Len(s) - 1)
      /\ \A i \in 1..(Len(s) - 1) : Front(s)[i] = s[i]
  BY <1>1, SubSeqProperties, LenProperties DEF Front
<1>3. Last(s) = s[Len(s)] /\ s[Len(s)] \in S
  BY <1>1, ElementOfSeq DEF Last
<1> QED  BY <1>1, <1>2, <1>3

(* A sequence without its first element, by index.                         *)
LEMMA TailByIndex ==
    ASSUME NEW S, NEW s \in Seq(S), s # <<>>
    PROVE  /\ Len(s) \in Nat /\ Len(s) >= 1 /\ DOMAIN s = 1..Len(s)
           /\ Tail(s) \in Seq(S) /\ DOMAIN Tail(s) = 1..(Len(s) - 1)
           /\ \A i \in 1..(Len(s) - 1) : Tail(s)[i] = s[i + 1]
           /\ Head(s) = s[1] /\ Head(s) \in S
PROOF
<1>1. Len(s) \in Nat /\ Len(s) >= 1 /\ DOMAIN s = 1..Len(s)
  BY EmptySeq, LenProperties
<1> QED  BY <1>1, HeadTailProperties, LenProperties

(* A stack with one more on top.                                           *)
LEMMA PushByIndex ==
    ASSUME NEW S, NEW s \in Seq(S), NEW e \in S
    PROVE  /\ <<e>> \o s \in Seq(S) /\ <<e>> \o s # <<>>
           /\ Len(<<e>> \o s) = Len(s) + 1
           /\ DOMAIN (<<e>> \o s) = 1..(Len(s) + 1)
           /\ (<<e>> \o s)[1] = e /\ Head(<<e>> \o s) = e
           /\ \A k \in 2..(Len(s) + 1) : (<<e>> \o s)[k] = s[k - 1]
PROOF
<1> DEFINE t == <<e>> \o s
           n == Len(s)
<1>1. <<e>> \in Seq(S) /\ Len(<<e>>) = 1 /\ <<e>>[1] = e /\ n \in Nat
  BY LenProperties
<1>2. /\ t \in Seq(S) /\ Len(t) = 1 + n
      /\ \A k \in 1..(1 + n) : t[k] = IF k <= 1 THEN <<e>>[k] ELSE s[k - 1]
  BY <1>1, ConcatProperties
<1> HIDE DEF t, n
<1>3. DOMAIN t = 1..(n + 1) /\ t[1] = e /\ \A k \in 2..(n + 1) : t[k] = s[k - 1]
  BY <1>1, <1>2, LenProperties
<1>4. t # <<>>
  BY <1>1, <1>2, EmptySeq
<1>5. Head(t) = t[1]
  BY <1>2, <1>4, TailByIndex
<1> QED  BY <1>1, <1>2, <1>3, <1>4, <1>5 DEF t, n

(* An array without duplicates without its last, or without its first.     *)
LEMMA FrontOfInjective ==
    ASSUME NEW S, NEW s \in Seq(S), s # <<>>, IsInjective(s)
    PROVE  /\ Front(s) \in Seq(S) /\ IsInjective(Front(s))
           /\ Last(s) \in S
           /\ ToSet(Front(s)) = ToSet(s) \ {Last(s)}
           /\ Last(s) \in ToSet(s)
PROOF
<1> DEFINE n == Len(s)
<1>1. n \in Nat /\ n >= 1 /\ DOMAIN s = 1..n
  BY FrontByIndex
<1>2. /\ DOMAIN Front(s) = 1..(n - 1)
      /\ \A i \in 1..(n - 1) : Front(s)[i] = s[i]
      /\ Last(s) = s[n]
  BY FrontByIndex
<1>3. \A i, j \in 1..n : s[i] = s[j] => i = j
  BY <1>1 DEF IsInjective
<1> HIDE DEF n
<1>4. IsInjective(Front(s))
  BY <1>1, <1>2, <1>3 DEF IsInjective
<1>5. ToSet(Front(s)) = ToSet(s) \ {Last(s)}
  <2>1. ToSet(s) = {s[i] : i \in 1..n} /\ ToSet(Front(s)) = {Front(s)[i] : i \in 1..(n - 1)}
    BY <1>1, <1>2 DEF ToSet
  <2>2. \A i \in 1..n : i \in 1..(n - 1) <=> s[i] # s[n]
    BY <1>1, <1>3
  <2>3. \A i \in 1..(n - 1) : i \in 1..n /\ Front(s)[i] = s[i]
    BY <1>1, <1>2
  <2>4. ToSet(Front(s)) = {s[i] : i \in 1..(n - 1)}
    BY <1>2, <2>1
  <2> QED  BY <2>1, <2>2, <2>3, <2>4, <1>2
<1>6. Last(s) \in ToSet(s)
  BY <1>1, <1>2 DEF ToSet
<1> QED  BY <1>4, <1>5, <1>6, FrontByIndex

(* A queue of distinct elements, after the first is taken.                 *)
LEMMA TailOfInjective ==
    ASSUME NEW S, NEW s \in Seq(S), s # <<>>, IsInjective(s)
    PROVE  /\ Tail(s) \in Seq(S) /\ IsInjective(Tail(s))
           /\ Head(s) \in S
           /\ ToSet(Tail(s)) = ToSet(s) \ {Head(s)}
           /\ Head(s) \in ToSet(s)
PROOF
<1> DEFINE n == Len(s)
<1>1. n \in Nat /\ n >= 1 /\ DOMAIN s = 1..n
  BY TailByIndex
<1>2. /\ DOMAIN Tail(s) = 1..(n - 1)
      /\ \A i \in 1..(n - 1) : Tail(s)[i] = s[i + 1]
      /\ Head(s) = s[1]
  BY TailByIndex
<1>3. \A i, j \in 1..n : s[i] = s[j] => i = j
  BY <1>1 DEF IsInjective
<1> HIDE DEF n
<1>4. IsInjective(Tail(s))
  BY <1>1, <1>2, <1>3 DEF IsInjective
<1>5. ToSet(Tail(s)) = ToSet(s) \ {Head(s)}
  <2>1. ASSUME NEW x \in ToSet(Tail(s))
        PROVE  x \in ToSet(s) /\ x # Head(s)
    <3>1. PICK i \in 1..(n - 1) : x = s[i + 1]
      BY <2>1, <1>2 DEF ToSet
    <3>2. i + 1 \in 1..n /\ 1 \in 1..n /\ i + 1 # 1
      BY <1>1
    <3> QED  BY <3>1, <3>2, <1>1, <1>2, <1>3 DEF ToSet
  <2>2. ASSUME NEW x \in ToSet(s), x # Head(s)
        PROVE  x \in ToSet(Tail(s))
    <3>1. PICK i \in 1..n : x = s[i]
      BY <2>2, <1>1 DEF ToSet
    <3>2. i - 1 \in 1..(n - 1) /\ (i - 1) + 1 = i
      BY <3>1, <2>2, <1>1, <1>2
    <3> QED  BY <3>1, <3>2, <1>2 DEF ToSet
  <2> QED  BY <2>1, <2>2
<1>6. Head(s) \in ToSet(s)
  BY <1>1, <1>2 DEF ToSet
<1> QED  BY <1>4, <1>5, <1>6, TailByIndex

(* An array of which the last element has moved to the i-th place.         *)
LEMMA SwapByIndex ==
    ASSUME NEW S, NEW s \in Seq(S), NEW i \in DOMAIN s
    PROVE  LET t == SubSeq([s EXCEPT ![i] = s[Len(s)]], 1, Len(s) - 1)
           IN  /\ t \in Seq(S)
               /\ DOMAIN t = 1..(Len(s) - 1)
               /\ \A k \in 1..(Len(s) - 1) : t[k] = IF k = i THEN s[Len(s)] ELSE s[k]
PROOF
<1> DEFINE n == Len(s)
           moved == [s EXCEPT ![i] = s[n]]
<1>1. n \in Nat /\ DOMAIN s = 1..n /\ i \in 1..n /\ n \in 1..n /\ s[n] \in S
  BY LenProperties, ElementOfSeq
<1>2. \A k \in 1..n : moved[k] = IF k = i THEN s[n] ELSE s[k]
  BY <1>1, ExceptSeq
<1>3. \A k \in 1..n : s[k] \in S
  BY <1>1, ElementOfSeq
<1> HIDE DEF n, moved
<1>4. \A k \in 1..(n - 1) : moved[k] \in S
  BY <1>1, <1>2, <1>3
<1>5. /\ SubSeq(moved, 1, n - 1) \in Seq(S)
      /\ Len(SubSeq(moved, 1, n - 1)) = IF 1 <= n - 1 THEN n - 1 - 1 + 1 ELSE 0
      /\ \A k \in 1..(n - 1 - 1 + 1) : SubSeq(moved, 1, n - 1)[k] = moved[1 + k - 1]
  <2>1. 1 \in Int /\ n - 1 \in Int
    BY <1>1
  <2> QED  BY <1>4, <2>1, SubSeqProperties
<1>6. DOMAIN SubSeq(moved, 1, n - 1) = 1..(n - 1)
  BY <1>1, <1>5, LenProperties
<1>7. \A k \in 1..(n - 1) : SubSeq(moved, 1, n - 1)[k] = IF k = i THEN s[n] ELSE s[k]
  BY <1>1, <1>2, <1>5
<1> QED  BY <1>5, <1>6, <1>7 DEF n, moved

(* Without duplicates, that takes out the i-th element and no other.       *)
LEMMA SwapOfInjective ==
    ASSUME NEW S, NEW s \in Seq(S), NEW i \in DOMAIN s, IsInjective(s)
    PROVE  LET t == SubSeq([s EXCEPT ![i] = s[Len(s)]], 1, Len(s) - 1)
           IN  IsInjective(t) /\ ToSet(t) = ToSet(s) \ {s[i]}
PROOF
<1> DEFINE n == Len(s)
           t == SubSeq([s EXCEPT ![i] = s[n]], 1, n - 1)
<1>1. n \in Nat /\ DOMAIN s = 1..n /\ i \in 1..n
  BY LenProperties
<1>2. DOMAIN t = 1..(n - 1) /\ \A k \in 1..(n - 1) : t[k] = IF k = i THEN s[n] ELSE s[k]
  BY SwapByIndex
<1>3. \A a, b \in 1..n : s[a] = s[b] => a = b
  BY <1>1 DEF IsInjective
<1> HIDE DEF n, t
<1>4. IsInjective(t)
  BY <1>1, <1>2, <1>3 DEF IsInjective
<1>5. ASSUME NEW x \in ToSet(t)
      PROVE  x \in ToSet(s) /\ x # s[i]
  <2>1. PICK k \in 1..(n - 1) : x = t[k]
    BY <1>2 DEF ToSet
  <2> QED  BY <2>1, <1>1, <1>2, <1>3 DEF ToSet
<1>6. ASSUME NEW x \in ToSet(s), x # s[i]
      PROVE  x \in ToSet(t)
  <2>1. PICK j \in 1..n : x = s[j] /\ j # i
    BY <1>6, <1>1 DEF ToSet
  <2>2. CASE j = n
    <3>1. i \in 1..(n - 1) /\ t[i] = x
      BY <2>1, <2>2, <1>1, <1>2
    <3> QED  BY <3>1, <1>2 DEF ToSet
  <2>3. CASE j # n
    <3>1. j \in 1..(n - 1) /\ t[j] = x
      BY <2>1, <2>3, <1>1, <1>2
    <3> QED  BY <3>1, <1>2 DEF ToSet
  <2> QED  BY <2>2, <2>3
<1> QED  BY <1>4, <1>5, <1>6 DEF n, t

(* An array without its i-th element.                                      *)
LEMMA RemoveByIndex ==
    ASSUME NEW S, NEW s \in Seq(S), NEW i \in DOMAIN s
    PROVE  /\ RemoveAt(s, i) \in Seq(S)
           /\ DOMAIN RemoveAt(s, i) = 1..(Len(s) - 1)
           /\ \A k \in 1..(Len(s) - 1) : RemoveAt(s, i)[k] = IF k < i THEN s[k] ELSE s[k + 1]
PROOF
<1> DEFINE n == Len(s)
           a == SubSeq(s, 1, i - 1)
           b == SubSeq(s, i + 1, n)
<1>1. n \in Nat /\ DOMAIN s = 1..n /\ i \in 1..n
  BY LenProperties
<1>2. \A k \in 1..n : s[k] \in S
  BY <1>1, ElementOfSeq
<1>3. /\ a \in Seq(S) /\ Len(a) = i - 1
      /\ \A k \in 1..(i - 1) : a[k] = s[k]
  <2>1. 1 \in Int /\ i - 1 \in Int /\ \A k \in 1..(i - 1) : s[k] \in S
    BY <1>1, <1>2
  <2>2. /\ a \in Seq(S)
        /\ Len(a) = IF 1 <= i - 1 THEN i - 1 - 1 + 1 ELSE 0
        /\ \A k \in 1..(i - 1 - 1 + 1) : a[k] = s[1 + k - 1]
    BY <2>1, SubSeqProperties
  <2> QED  BY <2>2, <1>1
<1>4. /\ b \in Seq(S) /\ Len(b) = n - i
      /\ \A k \in 1..(n - i) : b[k] = s[i + k]
  <2>1. i + 1 \in Int /\ n \in Int /\ \A k \in (i + 1)..n : s[k] \in S
    BY <1>1, <1>2
  <2>2. /\ b \in Seq(S)
        /\ Len(b) = IF i + 1 <= n THEN n - (i + 1) + 1 ELSE 0
        /\ \A k \in 1..(n - (i + 1) + 1) : b[k] = s[i + 1 + k - 1]
    BY <2>1, SubSeqProperties
  <2> HIDE DEF a, b, n
  <2>3. Len(b) = n - i
    BY <2>2, <1>1
  <2>4. ASSUME NEW k \in 1..(n - i)
        PROVE  b[k] = s[i + k]
    <3>1. k \in 1..(n - (i + 1) + 1) /\ i + 1 + k - 1 = i + k
      BY <1>1
    <3> QED  BY <3>1, <2>2
  <2> QED  BY <2>2, <2>3, <2>4
<1>5. RemoveAt(s, i) = a \o b
  BY DEF RemoveAt
<1> HIDE DEF a, b, n
<1>6. /\ a \o b \in Seq(S) /\ Len(a \o b) = Len(a) + Len(b)
      /\ \A k \in 1..(Len(a) + Len(b)) :
            (a \o b)[k] = IF k <= Len(a) THEN a[k] ELSE b[k - Len(a)]
  BY <1>3, <1>4, ConcatProperties
<1>7. DOMAIN (a \o b) = 1..(n - 1)
  BY <1>1, <1>3, <1>4, <1>6, LenProperties
<1>8. \A k \in 1..(n - 1) : (a \o b)[k] = IF k < i THEN s[k] ELSE s[k + 1]
  <2> SUFFICES ASSUME NEW k \in 1..(n - 1)
               PROVE  (a \o b)[k] = IF k < i THEN s[k] ELSE s[k + 1]
    OBVIOUS
  <2>1. CASE k < i
    BY <2>1, <1>1, <1>3, <1>4, <1>6
  <2>2. CASE ~(k < i)
    <3>1. k - (i - 1) \in 1..(n - i) /\ i + (k - (i - 1)) = k + 1
      BY <2>2, <1>1
    <3>2. (a \o b)[k] = b[k - (i - 1)]
      BY <2>2, <1>1, <1>3, <1>4, <1>6
    <3> QED  BY <2>2, <3>1, <3>2, <1>4
  <2> QED  BY <2>1, <2>2
<1> QED  BY <1>5, <1>6, <1>7, <1>8 DEF n

(* Without duplicates, RemoveFirst takes out that one element.             *)
LEMMA RemoveFirstOfInjective ==
    ASSUME NEW S, NEW s \in Seq(S), IsInjective(s), NEW x
    PROVE  /\ RemoveFirst(s, x) \in Seq(S) /\ IsInjective(RemoveFirst(s, x))
           /\ ToSet(RemoveFirst(s, x)) = ToSet(s) \ {x}
PROOF
<1> DEFINE n == Len(s)
           Places == {k \in 1..n : s[k] = x}
<1>1. n \in Nat /\ DOMAIN s = 1..n
  BY LenProperties
<1>2. CASE \A k \in 1..n : s[k] # x
  <2>1. RemoveFirst(s, x) = s /\ x \notin ToSet(s)
    BY <1>1, <1>2 DEF RemoveFirst, ToSet
  <2> QED  BY <2>1
<1>3. CASE \E k \in 1..n : s[k] = x
  <2> DEFINE i == Min(Places)
             t == RemoveAt(s, i)
  <2>1. i \in 1..n /\ s[i] = x
    <3>1. Places \in SUBSET Nat /\ Places # {}
      BY <1>1, <1>3
    <3>2. i \in Places
      BY <3>1, MinIsLeast
    <3> QED  BY <3>2
  <2>2. RemoveFirst(s, x) = t
    <3>1. Places # {}
      BY <1>3
    <3> QED  BY <1>3, <3>1 DEF RemoveFirst, SelectInSeq
  <2> HIDE DEF i
  <2>3. /\ t \in Seq(S) /\ DOMAIN t = 1..(n - 1)
        /\ \A k \in 1..(n - 1) : t[k] = IF k < i THEN s[k] ELSE s[k + 1]
    BY <1>1, <2>1, RemoveByIndex
  <2>4. \A a, b \in 1..n : s[a] = s[b] => a = b
    BY <1>1 DEF IsInjective
  <2> HIDE DEF n, t
  <2>5. IsInjective(t)
    BY <1>1, <2>1, <2>3, <2>4 DEF IsInjective
  <2>6. ASSUME NEW y \in ToSet(t)
        PROVE  y \in ToSet(s) /\ y # x
    <3>1. PICK k \in 1..(n - 1) : y = t[k]
      BY <2>6, <2>3 DEF ToSet
    <3>2. k \in 1..n /\ k + 1 \in 1..n
      BY <1>1
    <3>3. PICK j \in 1..n : y = s[j] /\ j # i
      BY <3>1, <3>2, <1>1, <2>1, <2>3
    <3>4. y # x
      BY <3>3, <2>1, <2>4
    <3> QED  BY <3>3, <3>4, <1>1 DEF ToSet
  <2>7. ASSUME NEW y \in ToSet(s), y # x
        PROVE  y \in ToSet(t)
    <3>1. PICK j \in 1..n : y = s[j] /\ j # i
      BY <2>7, <2>1, <1>1 DEF ToSet
    <3>2. CASE j < i
      <4>1. j \in 1..(n - 1) /\ t[j] = y
        BY <3>1, <3>2, <1>1, <2>1, <2>3
      <4> QED  BY <4>1, <2>3 DEF ToSet
    <3>3. CASE j > i
      <4>1. j - 1 \in 1..(n - 1) /\ ~(j - 1 < i) /\ (j - 1) + 1 = j
        BY <3>1, <3>3, <1>1, <2>1
      <4>2. t[j - 1] = y
        BY <3>1, <4>1, <2>3
      <4> QED  BY <4>1, <4>2, <2>3 DEF ToSet
    <3> QED  BY <3>1, <3>2, <3>3, <1>1, <2>1
  <2> QED  BY <2>2, <2>3, <2>5, <2>6, <2>7
<1> QED  BY <1>1, <1>2, <1>3
=============================================================================
