--------------------------- MODULE RenderersProofs ---------------------------
(***************************************************************************)
(* The lists that renderers keep, for any things and any number of calls;  *)
(* what renderers draw with, for any of the kinds in any order; and the    *)
(* picture that the passes make of a scene, for any passes and blurs.      *)
(***************************************************************************)
EXTENDS Drawing, Members, Passes, SequenceFacts, FiniteSetTheorems


(* Where del finds what it looks for.                                      *)
LEMMA PlaceFound ==
    ASSUME NEW S, NEW s \in Seq(S), NEW t, t \in ToSet(s)
    PROVE  Min({i \in DOMAIN s : s[i] = t}) \in DOMAIN s /\ s[Min({i \in DOMAIN s : s[i] = t})] = t
PROOF
<1>1. PICK T : T = {i \in DOMAIN s : s[i] = t}
  OBVIOUS
<1>2. T \in SUBSET Nat /\ T # {}
  BY <1>1, LenProperties DEF ToSet
<1>3. Min(T) \in T
  BY <1>2, MinIsLeast
<1> QED  BY <1>1, <1>3

(* And where lights do.                                                    *)
LEMMA OtherFound ==
    ASSUME NEW S, NEW s \in Seq(S), NEW t, ~(ToSet(s) \subseteq {t})
    PROVE  Min({i \in DOMAIN s : s[i] # t}) \in DOMAIN s
PROOF
<1>1. PICK T : T = {i \in DOMAIN s : s[i] # t}
  OBVIOUS
<1>2. T \in SUBSET Nat /\ T # {}
  BY <1>1, LenProperties DEF ToSet
<1>3. Min(T) \in T
  BY <1>2, MinIsLeast
<1> QED  BY <1>1, <1>3

(* The last is where the one removed was.                                  *)
LEMMA WithoutByIndex ==
    ASSUME NEW S, NEW s \in Seq(S), NEW i \in DOMAIN s
    PROVE  /\ Without(s, i) \in Seq(S)
           /\ DOMAIN Without(s, i) = 1..(Len(s) - 1)
           /\ \A k \in 1..(Len(s) - 1) : Without(s, i)[k] = IF k = i THEN s[Len(s)] ELSE s[k]
PROOF
<1>1. s # <<>>
  BY EmptySeq
<1>2. PICK n : n = Len(s)
  OBVIOUS
<1>3. /\ n \in Nat /\ n >= 1 /\ DOMAIN s = 1..n
      /\ Front(s) \in Seq(S) /\ DOMAIN Front(s) = 1..(n - 1)
      /\ \A k \in 1..(n - 1) : Front(s)[k] = s[k]
      /\ Last(s) = s[n] /\ Last(s) \in S
  BY <1>1, <1>2, FrontByIndex
<1>4. CASE i = n
  <2>1. Without(s, i) = Front(s) /\ \A k \in 1..(n - 1) : k # i
    BY <1>2, <1>3, <1>4 DEF Without
  <2> QED  BY <1>2, <1>3, <2>1
<1>5. CASE i # n
  <2>1. Without(s, i) = [Front(s) EXCEPT ![i] = Last(s)] /\ i \in 1..(n - 1)
    BY <1>2, <1>3, <1>5 DEF Without
  <2>2. PICK f : f = Front(s)
    OBVIOUS
  <2>3. [f EXCEPT ![i] = Last(s)] \in Seq(S)
    BY <1>3, <2>1, <2>2, ExceptSeq
  <2>4. /\ DOMAIN [f EXCEPT ![i] = Last(s)] = 1..(n - 1)
        /\ \A k \in 1..(n - 1) : [f EXCEPT ![i] = Last(s)][k] = IF k = i THEN s[n] ELSE s[k]
    BY <1>3, <2>1, <2>2
  <2> QED  BY <1>2, <2>1, <2>2, <2>3, <2>4
<1> QED  BY <1>4, <1>5

(* A message leaves a list of things.                                      *)
LEMMA HandleKeepsLists ==
    ASSUME NEW kind \in Owners, NEW s \in Seq(Thing), NEW op \in Op
    PROVE  Handle(kind, s, op) \in Seq(Thing)
PROOF
<1>1. op.thing \in Thing
  BY DEF Op
<1>2. Append(s, op.thing) \in Seq(Thing)
  BY <1>1, SetOfAppend
<1>3. Del(s, op.thing) \in Seq(Thing)
  <2>1. CASE op.thing \in ToSet(s)
    <3>1. Min({i \in DOMAIN s : s[i] = op.thing}) \in DOMAIN s
      BY <2>1, PlaceFound
    <3> QED  BY <2>1, <3>1, WithoutByIndex DEF Del
  <2> QED  BY <2>1 DEF Del
<1>4. DelLight(s, op.thing) \in Seq(Thing)
  <2>1. CASE ~(ToSet(s) \subseteq {op.thing})
    <3>1. Min({i \in DOMAIN s : s[i] # op.thing}) \in DOMAIN s
      BY <2>1, OtherFound
    <3> QED  BY <2>1, <3>1, WithoutByIndex DEF DelLight
  <2> QED  BY <2>1 DEF DelLight
<1> QED  BY <1>2, <1>3, <1>4 DEF Handle, Owners, LegacyMessage, HeightmapMessage, TransMessage,
                             LightsMessage

(* The arrays after each of the calls are what the messages make.          *)
LEMMA ArraysByIndex ==
    ASSUME NEW kind \in Owners, NEW s \in Seq(Thing), NEW ops \in Seq(Op)
    PROVE  /\ Arrays(kind, s, ops)[0] = s
           /\ \A k \in 1..Len(ops) :
                 Arrays(kind, s, ops)[k] = Handle(kind, Arrays(kind, s, ops)[k - 1], ops[k])
           /\ \A k \in 0..Len(ops) : Arrays(kind, s, ops)[k] \in Seq(Thing)
PROOF
<1>1. PICK n : n = Len(ops)
  OBVIOUS
<1>2. n \in Nat /\ \A k \in 1..n : ops[k] \in Op
  BY <1>1, LenProperties, ElementOfSeq
<1>3. PICK F : F = [k \in 1..n |-> [a \in Seq(Thing) |-> Handle(kind, a, ops[k])]]
  OBVIOUS
<1>4. F \in [1..n -> [Seq(Thing) -> Seq(Thing)]]
  BY <1>2, <1>3, HandleKeepsLists
<1>5. \A k \in 1..n : \A a \in Seq(Thing) : F[k][a] = Handle(kind, a, ops[k])
  BY <1>3
<1>6. PICK f \in [0..n -> Seq(Thing)] : f[0] = s /\ \A k \in 1..n : f[k] = F[k][f[k - 1]]
  <2>1. n \in Nat /\ s \in Seq(Thing)
    BY <1>2
  <2>2. PICK f \in [0..n -> Seq(Thing)] : Recursion(f, n, s, F)
    BY <2>1, <1>4, RecursionDefines
  <2> QED  BY <2>2 DEF Recursion
<1>7. \A k \in 1..n : k - 1 \in 0..n /\ k \in 0..n /\ k # 0 /\ f[k - 1] \in Seq(Thing)
  BY <1>2
<1>8. f = [k \in 0..n |-> IF k = 0 THEN s ELSE Handle(kind, f[k - 1], ops[k])]
  <2>1. ASSUME NEW k \in 0..n
        PROVE  f[k] = IF k = 0 THEN s ELSE Handle(kind, f[k - 1], ops[k])
    <3>1. CASE k # 0
      <4>1. k \in 1..n
        BY <3>1, <1>2
      <4> QED  BY <3>1, <4>1, <1>5, <1>6, <1>7
    <3> QED  BY <3>1, <1>6
  <2> QED  BY <2>1
<1>9. PICK A : A = Arrays(kind, s, ops)
  OBVIOUS
<1>10. A = [k \in 0..n |-> IF k = 0 THEN s ELSE Handle(kind, A[k - 1], ops[k])]
  BY <1>8, <1>9, <1>1 DEF Arrays
<1>11. A[0] = s /\ \A k \in 1..n : A[k] = Handle(kind, A[k - 1], ops[k])
  <2>1. 0 \in 0..n
    BY <1>2
  <2> QED  BY <1>10, <1>7, <2>1
<1>12. \A k \in 0..n : A[k] \in Seq(Thing)
  <2> DEFINE Bad == {k \in 0..n : A[k] \notin Seq(Thing)}
  <2> SUFFICES ASSUME Bad # {} PROVE FALSE
    OBVIOUS
  <2>1. Bad \in SUBSET Nat
    OBVIOUS
  <2>2. PICK m \in Bad : \A y \in Bad : m <= y
    <3> HIDE DEF Bad
    <3> QED  BY <2>1, LeastNumber
  <2>3. m # 0 /\ m \in 1..n /\ m - 1 \in 0..n /\ m - 1 \notin Bad
    BY <2>2, <1>11, <1>2
  <2> QED  BY <1>2, <1>11, <2>2, <2>3, HandleKeepsLists
<1> QED  BY <1>1, <1>9, <1>11, <1>12

\* What comes of a list
Final(kind, s, ops) == Arrays(kind, s, ops)[Len(ops)]

(* One call more is handled last.                                          *)
LEMMA FinalOfAppend ==
    ASSUME NEW kind \in Owners, NEW s \in Seq(Thing), NEW ops \in Seq(Op), NEW op \in Op
    PROVE  Final(kind, s, Append(ops, op)) = Handle(kind, Final(kind, s, ops), op)
PROOF
<1>1. PICK A, B, n : A = Arrays(kind, s, ops) /\ B = Arrays(kind, s, Append(ops, op)) /\ n = Len(ops)
  OBVIOUS
<1>2. n \in Nat /\ \A k \in 1..n : ops[k] \in Op
  BY <1>1, LenProperties, ElementOfSeq
<1>3. /\ Append(ops, op) \in Seq(Op) /\ Len(Append(ops, op)) = n + 1
      /\ \A k \in 1..n : Append(ops, op)[k] = ops[k]
      /\ Append(ops, op)[n + 1] = op
  BY <1>1, AppendProperties
<1>4. /\ A[0] = s /\ \A k \in 0..n : A[k] \in Seq(Thing)
      /\ \A k \in 1..n : A[k] = Handle(kind, A[k - 1], ops[k])
  BY <1>1, ArraysByIndex
<1>5. /\ B[0] = s
      /\ \A k \in 1..(n + 1) : B[k] = Handle(kind, B[k - 1], Append(ops, op)[k])
  <2>1. PICK ops2 : ops2 = Append(ops, op)
    OBVIOUS
  <2>2. ops2 \in Seq(Op) /\ Len(ops2) = n + 1 /\ B = Arrays(kind, s, ops2)
    BY <2>1, <1>1, <1>3
  <2>3. /\ B[0] = s
        /\ \A k \in 1..Len(ops2) : B[k] = Handle(kind, B[k - 1], ops2[k])
    BY <2>2, ArraysByIndex
  <2> QED  BY <2>1, <2>2, <2>3
<1>6. \A k \in 0..n : A[k] = B[k]
  <2> DEFINE Bad == {k \in 0..n : A[k] # B[k]}
  <2> SUFFICES ASSUME Bad # {} PROVE FALSE
    OBVIOUS
  <2>1. Bad \in SUBSET Nat
    OBVIOUS
  <2>2. PICK m \in Bad : \A y \in Bad : m <= y
    <3> HIDE DEF Bad
    <3> QED  BY <2>1, LeastNumber
  <2>3. m # 0 /\ m \in 1..n /\ m \in 1..(n + 1) /\ m - 1 \in 0..n /\ m - 1 \notin Bad
    BY <2>2, <1>2, <1>4, <1>5
  <2>4. A[m] = Handle(kind, A[m - 1], ops[m]) /\ B[m] = Handle(kind, B[m - 1], ops[m])
    BY <2>3, <1>3, <1>4, <1>5
  <2> QED  BY <2>2, <2>3, <2>4
<1>7. B[n + 1] = Handle(kind, A[n], op)
  <2>1. n + 1 \in 1..(n + 1) /\ (n + 1) - 1 = n /\ n \in 0..n
    BY <1>2
  <2> QED  BY <2>1, <1>3, <1>5, <1>6
<1> QED  BY <1>1, <1>3, <1>7 DEF Final

(* The first call handled, the list comes to the same.                     *)
LEMMA FinalOfTail ==
    ASSUME NEW kind \in Owners, NEW s \in Seq(Thing), NEW ops \in Seq(Op), ops # <<>>
    PROVE  Final(kind, Handle(kind, s, Head(ops)), Tail(ops)) = Final(kind, s, ops)
PROOF
<1>1. PICK t, A, B, n : /\ t = Handle(kind, s, Head(ops))
                        /\ A = Arrays(kind, s, ops) /\ B = Arrays(kind, t, Tail(ops))
                        /\ n = Len(ops)
  OBVIOUS
<1>2. /\ n \in Nat /\ n >= 1
      /\ Tail(ops) \in Seq(Op) /\ Len(Tail(ops)) = n - 1
      /\ \A k \in 1..(n - 1) : Tail(ops)[k] = ops[k + 1]
      /\ Head(ops) = ops[1] /\ Head(ops) \in Op
  BY <1>1, TailByIndex, LenProperties
<1>3. t \in Seq(Thing)
  BY <1>1, <1>2, HandleKeepsLists
<1>4. /\ A[0] = s /\ \A k \in 1..n : A[k] = Handle(kind, A[k - 1], ops[k])
  BY <1>1, ArraysByIndex
<1>5. /\ B[0] = t
      /\ \A k \in 1..(n - 1) : B[k] = Handle(kind, B[k - 1], Tail(ops)[k])
  <2>1. PICK ops2 : ops2 = Tail(ops)
    OBVIOUS
  <2>2. ops2 \in Seq(Op) /\ Len(ops2) = n - 1 /\ B = Arrays(kind, t, ops2)
    BY <2>1, <1>1, <1>2
  <2>3. /\ B[0] = t
        /\ \A k \in 1..Len(ops2) : B[k] = Handle(kind, B[k - 1], ops2[k])
    BY <2>2, <1>3, ArraysByIndex
  <2> QED  BY <2>1, <2>2, <2>3
<1>6. \A k \in 0..(n - 1) : B[k] = A[k + 1]
  <2> DEFINE Bad == {k \in 0..(n - 1) : B[k] # A[k + 1]}
  <2> SUFFICES ASSUME Bad # {} PROVE FALSE
    OBVIOUS
  <2>1. Bad \in SUBSET Nat
    OBVIOUS
  <2>2. PICK m \in Bad : \A y \in Bad : m <= y
    <3> HIDE DEF Bad
    <3> QED  BY <2>1, LeastNumber
  <2>3. A[1] = B[0]
    <3>1. 1 \in 1..n /\ 1 - 1 = 0
      BY <1>2
    <3> QED  BY <3>1, <1>1, <1>2, <1>4, <1>5
  <2>4. m # 0 /\ m \in 1..(n - 1) /\ m + 1 \in 1..n /\ m - 1 \in 0..(n - 1) /\ m - 1 \notin Bad
    BY <2>2, <2>3, <1>2
  <2>5. B[m - 1] = A[m] /\ (m + 1) - 1 = m
    BY <2>4
  <2>6. A[m + 1] = Handle(kind, A[m], ops[m + 1]) /\ B[m] = Handle(kind, B[m - 1], ops[m + 1])
    BY <2>4, <2>5, <1>2, <1>4, <1>5
  <2> QED  BY <2>2, <2>5, <2>6
<1>7. n - 1 \in 0..(n - 1) /\ (n - 1) + 1 = n
  BY <1>2
<1> QED  BY <1>1, <1>2, <1>6, <1>7 DEF Final
\* Where t is in a list
Places(s, t) == {i \in DOMAIN s : s[i] = t}

(* There are finitely many of them.                                        *)
LEMMA CountIsNat ==
    ASSUME NEW S, NEW s \in Seq(S), NEW t
    PROVE  IsFiniteSet(Places(s, t)) /\ Cardinality(Places(s, t)) \in Nat
PROOF
<1>1. Len(s) \in Nat /\ DOMAIN s = 1..Len(s)
  BY LenProperties
<1>2. IsFiniteSet(1..Len(s))
  BY <1>1, FS_Interval
<1>3. Places(s, t) \in SUBSET (1..Len(s))
  BY <1>1 DEF Places
<1> QED  BY <1>2, <1>3, FS_Subset, FS_CardinalityType

(* What is added is there once more.                                       *)
LEMMA CountOfAppend ==
    ASSUME NEW S, NEW s \in Seq(S), NEW e \in S, NEW t
    PROVE  Cardinality(Places(Append(s, e), t)) =
               IF t = e THEN Cardinality(Places(s, t)) + 1 ELSE Cardinality(Places(s, t))
PROOF
<1>1. PICK n, u : n = Len(s) /\ u = Append(s, e)
  OBVIOUS
<1>2. /\ n \in Nat /\ DOMAIN s = 1..n /\ DOMAIN u = 1..(n + 1)
      /\ \A i \in 1..n : u[i] = s[i]
      /\ u[n + 1] = e
  BY <1>1, SetOfAppend, LenProperties
<1>3. Places(u, t) = IF t = e THEN Places(s, t) \cup {n + 1} ELSE Places(s, t)
  <2>1. 1..(n + 1) = (1..n) \cup {n + 1} /\ n + 1 \notin 1..n
    BY <1>2
  <2>2. Places(u, t) = {i \in 1..n : s[i] = t} \cup {i \in {n + 1} : e = t}
    BY <2>1, <1>2 DEF Places
  <2>3. Places(s, t) = {i \in 1..n : s[i] = t}
    BY <1>2 DEF Places
  <2> QED  BY <2>2, <2>3
<1>4. n + 1 \notin Places(s, t)
  BY <1>2 DEF Places
<1> QED  BY <1>1, <1>3, <1>4, CountIsNat, FS_AddElement

(* What is removed is there once less, and all others as often as before.  *)
LEMMA CountOfWithout ==
    ASSUME NEW S, NEW s \in Seq(S), NEW i \in DOMAIN s, NEW t
    PROVE  Cardinality(Places(Without(s, i), t)) =
               IF t = s[i] THEN Cardinality(Places(s, t)) - 1 ELSE Cardinality(Places(s, t))
PROOF
<1>1. PICK n, u, P, Q : /\ n = Len(s) /\ u = Without(s, i)
                        /\ P = Places(s, t) /\ Q = Places(u, t)
  OBVIOUS
<1>2. /\ n \in Nat /\ i \in 1..n /\ DOMAIN s = 1..n /\ DOMAIN u = 1..(n - 1)
      /\ \A k \in 1..(n - 1) : u[k] = IF k = i THEN s[n] ELSE s[k]
  BY <1>1, WithoutByIndex, LenProperties
<1>3. IsFiniteSet(P) /\ Cardinality(P) \in Nat
  BY <1>1, CountIsNat
<1>4. P = {k \in 1..n : s[k] = t} /\ Q = {k \in 1..(n - 1) : u[k] = t}
  BY <1>1, <1>2 DEF Places
<1>5. \A k : k \in 1..(n - 1) <=> k \in 1..n /\ k # n
  BY <1>2
<1>6. CASE t # s[n]
  <2>1. Q = P \ {i}
    BY <1>2, <1>4, <1>5, <1>6
  <2>2. i \in P <=> s[i] = t
    BY <1>2, <1>4
  <2>3. Cardinality(P \ {i}) = IF i \in P THEN Cardinality(P) - 1 ELSE Cardinality(P)
    BY <1>3, FS_RemoveElement
  <2> QED  BY <1>1, <2>1, <2>2, <2>3
<1>7. CASE t = s[n] /\ i = n
  <2>1. Q = P \ {n}
    BY <1>2, <1>4, <1>5, <1>7
  <2>2. n \in P
    BY <1>2, <1>4, <1>7
  <2> QED  BY <1>1, <1>3, <1>7, <2>1, <2>2, FS_RemoveElement
<1>8. CASE t = s[n] /\ i # n
  <2>1. Q = (P \ {n}) \cup {i}
    BY <1>2, <1>4, <1>5, <1>8
  <2>2. n \in P
    BY <1>2, <1>4, <1>8
  <2>3. i \in P \ {n} <=> s[i] = t
    BY <1>2, <1>4, <1>8
  <2>4. IsFiniteSet(P \ {n}) /\ Cardinality(P \ {n}) = Cardinality(P) - 1
    BY <1>3, <2>2, FS_RemoveElement
  <2>5. Cardinality(Q) = IF i \in P \ {n} THEN Cardinality(P \ {n}) ELSE Cardinality(P \ {n}) + 1
    BY <2>1, <2>4, FS_AddElement
  <2> QED  BY <1>1, <1>3, <2>3, <2>4, <2>5
<1> QED  BY <1>6, <1>7, <1>8

(* A message makes of a list what the call asks for, lights excepted.      *)
LEMMA HandleCounts ==
    ASSUME NEW kind \in Owners \ {"lights"}, NEW s \in Seq(Thing), NEW op \in Op
    PROVE  Count(Handle(kind, s, op)) = After(Count(s), op)
PROOF
<1>1. PICK x : x = op.thing
  OBVIOUS
<1>2. x \in Thing /\ op.type \in {"add", "del"}
  BY <1>1 DEF Op
<1>3. Handle(kind, s, op) = IF op.type = "add" THEN Append(s, x) ELSE Del(s, x)
  BY <1>1 DEF Handle, Owners, LegacyMessage, HeightmapMessage, TransMessage
<1>4. \A u : Count(u) = [t \in Thing |-> Cardinality(Places(u, t))]
  BY DEF Count, Places
<1>5. \A t : Cardinality(Places(s, t)) \in Nat
  BY CountIsNat
<1>6. CASE op.type = "add"
  <2>1. \A t : Cardinality(Places(Append(s, x), t)) =
               IF t = x THEN Cardinality(Places(s, t)) + 1 ELSE Cardinality(Places(s, t))
    BY <1>2, CountOfAppend
  <2>2. Count(Append(s, x)) = [Count(s) EXCEPT ![x] = @ + 1]
    BY <1>2, <1>4, <2>1
  <2> QED  BY <1>1, <1>3, <1>6, <2>2 DEF After
<1>7. CASE op.type = "del"
  <2>1. \A t \in Thing : Cardinality(Places(Del(s, x), t)) =
               IF t # x THEN Cardinality(Places(s, t))
               ELSE IF Cardinality(Places(s, t)) = 0 THEN 0 ELSE Cardinality(Places(s, t)) - 1
    <3>1. CASE x \in ToSet(s)
      <4>1. PICK i : i = Min({k \in DOMAIN s : s[k] = x})
        OBVIOUS
      <4>2. i \in DOMAIN s /\ s[i] = x /\ Del(s, x) = Without(s, i)
        BY <3>1, <4>1, PlaceFound DEF Del
      <4>3. Places(s, x) # {}
        BY <4>2 DEF Places
      <4>4. Cardinality(Places(s, x)) # 0
        BY <4>3, CountIsNat, FS_EmptySet
      <4>5. \A t : Cardinality(Places(Without(s, i), t)) =
                       IF t = x THEN Cardinality(Places(s, t)) - 1 ELSE Cardinality(Places(s, t))
        BY <4>2, CountOfWithout
      <4> QED  BY <4>2, <4>4, <4>5
    <3>2. CASE x \notin ToSet(s)
      <4>1. Del(s, x) = s
        BY <3>2 DEF Del
      <4>2. Places(s, x) = {}
        BY <3>2 DEF Places, ToSet
      <4>3. Cardinality(Places(s, x)) = 0
        BY <4>2, FS_EmptySet
      <4> QED  BY <4>1, <4>3
    <3> QED  BY <3>1, <3>2
  <2>2. Count(Del(s, x)) = [Count(s) EXCEPT ![x] = IF @ = 0 THEN 0 ELSE @ - 1]
    BY <1>2, <1>4, <2>1
  <2>3. op.type # "add"
    BY <1>7
  <2> QED  BY <1>1, <1>3, <2>2, <2>3 DEF After
<1> QED  BY <1>2, <1>6, <1>7
-----------------------------------------------------------------------------
\* Messages are only sent once the renderer has a context, and no call waits then
\* that changes the array itself
OnTheirWay == (~context => messages = <<>>) /\ (call # Nil => messages = <<>>)

\* What the list comes to is what was asked for
Follows == owner = "lights" \/ Count(Final(owner, list, Pending)) = wanted

MembersInv == MemberTypes /\ OnTheirWay /\ Follows

(* The calls on their way are a sequence of calls.                         *)
LEMMA PendingCalls ==
    ASSUME MembersAssumption, MembersInv
    PROVE  /\ Pending \in Seq(Op)
           /\ call = Nil => Pending = messages
           /\ call # Nil => Pending = <<call>>
PROOF
<1> USE DEF MembersInv, MemberTypes, OnTheirWay, MembersAssumption
<1>1. CASE call = Nil
  <2>1. <<>> \o messages = messages
    BY ConcatEmptySeq
  <2> QED  BY <1>1, <2>1 DEF Pending
<1>2. CASE call # Nil
  <2>1. <<call>> \in Seq(Op) /\ messages = <<>>
    BY <1>2
  <2>2. <<call>> \o <<>> = <<call>>
    BY <2>1, ConcatEmptySeq
  <2> QED  BY <1>2, <2>1, <2>2 DEF Pending
<1> QED  BY <1>1, <1>2

(* Nothing is asked for and nothing is there.                              *)
LEMMA MembersInitInv == MembersAssumption /\ MembersInit => MembersInv
PROOF
<1> SUFFICES ASSUME MembersAssumption, MembersInit PROVE MembersInv
  OBVIOUS
<1>1. MemberTypes /\ OnTheirWay
  <2>1. <<>> \in Seq(Thing) /\ <<>> \in Seq(Op) /\ [t \in Thing |-> 0] \in [Thing -> Nat]
    OBVIOUS
  <2>2. 0 \in 0..MaxCalls
    BY DEF MembersAssumption
  <2> QED  BY <2>1, <2>2 DEF MembersInit, MemberTypes, OnTheirWay
<1>2. <<>> \in Seq(Thing) /\ <<>> \in Seq(Op) /\ Len(<<>>) = 0
  OBVIOUS
<1>3. Pending = <<>> /\ list = <<>> /\ owner \in Owners /\ wanted = [t \in Thing |-> 0]
  <2>1. <<>> \o <<>> = <<>>
    BY <1>2, ConcatEmptySeq
  <2> QED  BY <2>1 DEF MembersInit, Pending
<1>4. Final(owner, list, Pending) = <<>>
  BY <1>2, <1>3, ArraysByIndex DEF Final
<1>5. \A t : Places(<<>>, t) = {}
  BY DEF Places
<1>6. Count(<<>>) = [t \in Thing |-> Cardinality(Places(<<>>, t))]
  BY DEF Count, Places
<1>7. Count(<<>>) = [t \in Thing |-> 0]
  BY <1>5, <1>6, FS_EmptySet
<1> QED  BY <1>1, <1>3, <1>4, <1>7 DEF MembersInv, Follows

(* A call is the last of those on their way.                               *)
LEMMA PushKeepsMembers ==
    ASSUME MembersAssumption, MembersInv, NEW op \in Op, PushMsg(op)
    PROVE  MembersInv'
PROOF
<1>1. /\ call = Nil /\ Pending \in Seq(Op) /\ Pending = messages
      /\ owner \in Owners /\ list \in Seq(Thing) /\ messages \in Seq(Op)
      /\ wanted \in [Thing -> Nat] /\ made \in Nat /\ op.thing \in Thing
  BY PendingCalls DEF PushMsg, MembersInv, MemberTypes, Op
<1>2. wanted' \in [Thing -> Nat] /\ wanted' = After(wanted, op)
  BY <1>1 DEF PushMsg, After
<1>3. made' \in 0..MaxCalls
  BY <1>1 DEF PushMsg, MembersAssumption, MembersInv, MemberTypes
<1>4. Append(messages, op) \in Seq(Op)
  BY <1>1, AppendProperties
<1>5. MemberTypes' /\ OnTheirWay'
  <2>1. CASE context
    BY <2>1, <1>1, <1>2, <1>3, <1>4 DEF PushMsg, MembersInv, MemberTypes, OnTheirWay
  <2>2. CASE ~context
    BY <2>2, <1>1, <1>2, <1>3 DEF PushMsg, MembersInv, MemberTypes, OnTheirWay
  <2> QED  BY <2>1, <2>2
<1>6. Pending' = Append(Pending, op)
  <2>1. CASE context
    <3>1. call' = Nil /\ messages' = Append(messages, op)
      BY <2>1, <1>1 DEF PushMsg
    <3>2. <<>> \o Append(messages, op) = Append(messages, op)
      BY <1>4, ConcatEmptySeq
    <3> QED  BY <1>1, <3>1, <3>2 DEF Pending
  <2>2. CASE ~context
    <3>1. call' = op /\ messages' = <<>> /\ messages = <<>> /\ op # Nil
      BY <2>2, <1>1 DEF PushMsg, MembersInv, OnTheirWay, MembersAssumption
    <3>2. <<op>> \in Seq(Op) /\ <<op>> \o <<>> = <<op>>
      BY ConcatEmptySeq
    <3>3. Append(<<>>, op) = <<op>>
      OBVIOUS
    <3> QED  BY <1>1, <3>1, <3>2, <3>3 DEF Pending
  <2> QED  BY <2>1, <2>2
<1>7. Follows'
  <2>1. owner' = owner /\ list' = list
    BY DEF PushMsg
  <2> SUFFICES ASSUME owner # "lights" PROVE Count(Final(owner', list', Pending')) = wanted'
    BY <2>1 DEF Follows
  <2>2. Count(Final(owner, list, Pending)) = wanted
    BY DEF MembersInv, Follows
  <2>3. PICK s : s = Final(owner, list, Pending)
    OBVIOUS
  <2>4. s \in Seq(Thing)
    BY <2>3, <1>1, ArraysByIndex, LenProperties DEF Final
  <2>5. Final(owner, list, Append(Pending, op)) = Handle(owner, s, op)
    BY <2>3, <1>1, FinalOfAppend
  <2>6. Count(Handle(owner, s, op)) = After(Count(s), op)
    BY <2>4, <1>1, HandleCounts
  <2> QED  BY <2>1, <2>2, <2>3, <2>5, <2>6, <1>2, <1>6
<1> QED  BY <1>5, <1>7 DEF MembersInv

(* The first of those on their way comes to the list.                      *)
LEMMA TakeKeepsFollows ==
    ASSUME MembersAssumption, MembersInv, Pending # <<>>, Take(Head(Pending)),
           Pending' = Tail(Pending), UNCHANGED <<owner, wanted>>
    PROVE  list' \in Seq(Thing) /\ undefined' \in BOOLEAN /\ Follows'
PROOF
<1>1. /\ Pending \in Seq(Op) /\ owner \in Owners /\ list \in Seq(Thing) /\ undefined \in BOOLEAN
  BY PendingCalls DEF MembersInv, MemberTypes
<1>2. Head(Pending) \in Op
  BY <1>1, TailByIndex
<1>3. list' = Handle(owner, list, Head(Pending)) /\ undefined' \in BOOLEAN
  BY <1>1 DEF Take
<1>4. list' \in Seq(Thing)
  BY <1>1, <1>2, <1>3, HandleKeepsLists
<1>5. Final(owner, Handle(owner, list, Head(Pending)), Tail(Pending)) = Final(owner, list, Pending)
  BY <1>1, FinalOfTail
<1> QED  BY <1>3, <1>4, <1>5 DEF MembersInv, Follows

(* Every step of the threads.                                              *)
LEMMA MembersStep == MembersAssumption /\ MembersInv /\ [MembersNext]_memberVars => MembersInv'
PROOF
<1> SUFFICES ASSUME MembersAssumption, MembersInv, [MembersNext]_memberVars PROVE MembersInv'
  OBVIOUS
<1>1. CASE UNCHANGED memberVars
  BY <1>1 DEF memberVars, MembersInv, MemberTypes, OnTheirWay, Follows, Pending
<1>2. ASSUME NEW op \in Op, PushMsg(op) PROVE MembersInv'
  BY <1>2, PushKeepsMembers
<1>3. CASE Direct
  <2>1. /\ call # Nil /\ call' = Nil /\ UNCHANGED <<owner, context, messages, made, wanted>>
        /\ Take(call)
    BY <1>3 DEF Direct
  <2>2. Pending = <<call>> /\ messages = <<>>
    BY <2>1, PendingCalls DEF MembersInv, OnTheirWay
  <2>3. <<call>> # <<>> /\ Head(<<call>>) = call /\ Tail(<<call>>) = <<>>
    OBVIOUS
  <2>4. <<>> \o <<>> = <<>>
    BY ConcatEmptySeq
  <2>5. Pending' = <<>>
    BY <2>1, <2>2, <2>4 DEF Pending
  <2>6. list' \in Seq(Thing) /\ undefined' \in BOOLEAN /\ Follows'
    <3>1. Pending # <<>> /\ Take(Head(Pending)) /\ Pending' = Tail(Pending) /\ UNCHANGED <<owner, wanted>>
      BY <2>1, <2>2, <2>3, <2>5
    <3> QED  BY <3>1, TakeKeepsFollows
  <2> QED  BY <2>1, <2>2, <2>6 DEF MembersInv, MemberTypes, OnTheirWay
<1>4. CASE BuildOwner
  BY <1>4 DEF BuildOwner, MembersInv, MemberTypes, OnTheirWay, Follows, Pending
<1>5. CASE Message
  <2>1. /\ messages # <<>> /\ messages' = Tail(messages) /\ UNCHANGED <<owner, context, call, made, wanted>>
        /\ Take(Head(messages))
    BY <1>5 DEF Message
  <2>2. Pending = messages /\ call = Nil /\ messages \in Seq(Op)
    BY <2>1, PendingCalls DEF MembersInv, OnTheirWay, MemberTypes
  <2>3. Tail(messages) \in Seq(Op)
    BY <2>1, <2>2, TailByIndex
  <2>4. <<>> \o Tail(messages) = Tail(messages)
    BY <2>3, ConcatEmptySeq
  <2>5. Pending' = Tail(Pending)
    BY <2>1, <2>2, <2>4 DEF Pending
  <2>6. list' \in Seq(Thing) /\ undefined' \in BOOLEAN /\ Follows'
    <3>1. Pending # <<>> /\ Take(Head(Pending)) /\ UNCHANGED <<owner, wanted>>
      BY <2>1, <2>2
    <3> QED  BY <3>1, <2>5, TakeKeepsFollows
  <2> QED  BY <2>1, <2>2, <2>3, <2>6 DEF MembersInv, MemberTypes, OnTheirWay
<1> QED  BY <1>1, <1>2, <1>3, <1>4, <1>5 DEF MembersNext

(* So it is at any time.                                                   *)
LEMMA MembersInvariant ==
    ASSUME MembersAssumption
    PROVE  MembersSpec => []MembersInv
PROOF
<1>1. MembersInit => MembersInv
  BY MembersInitInv
<1>2. MembersInv /\ [MembersNext]_memberVars => MembersInv'
  BY MembersStep
<1> QED  BY <1>1, <1>2, PTL DEF MembersSpec

(* The list of a renderer is one of things, and the calls on their way are *)
(* calls (legacyrenderer.c, heightmap.c, transparencypass.c, lightpass.c). *)
THEOREM MembersKeepTypes ==
    ASSUME MembersAssumption
    PROVE  MembersSpec => []MemberTypes
PROOF
<1>1. MembersInv => MemberTypes
  BY DEF MembersInv
<1> QED  BY <1>1, MembersInvariant, PTL

(* For any things and any number of calls, and wherever between them the   *)
(* renderer is built: what the calls of the main thread ask for is what    *)
(* the list comes to, once those on their way are handled in their order,  *)
(* lights and what a removal from an empty list does excepted.             *)
THEOREM ListsFollowCalls ==
    ASSUME MembersAssumption
    PROVE  MembersSpec => []ListFollowsCalls
PROOF
<1>1. MembersInv => ListFollowsCalls
  BY DEF MembersInv, Follows, Final, ListFollowsCalls
<1> QED  BY <1>1, MembersInvariant, PTL
-----------------------------------------------------------------------------
(***************************************************************************)
(* What renderers do to the state of GL.  In a frame, after n renderers of *)
(* a scene: the material on record was bound by one of them, and still is, *)
(* unless it failed to link or a heightmap came after it.                  *)
(***************************************************************************)
MaterialOnRecord(s, failed, g, n) ==
    g.material # None =>
        \E j \in 1..n :
            /\ Material[s[j]] = g.material
            /\ \/ g.material \in failed \/ g.program = g.material
               \/ \E k \in (j + 1)..n : Kind[s[k]] \in {"heightmap"}

\* And so was the drawable
DrawableOnRecord(s, g, n) ==
    g.drawable # None =>
        \E j \in 1..n :
            /\ Drawable(s[j]) = g.drawable
            /\ \/ g.vao = g.drawable
               \/ \E k \in (j + 1)..n : Kind[s[k]] \in {"heightmap", "out"}

\* With a material on record, the program in use has the matrices of the camera
ProgramIsFresh(failed, g, away) ==
    ~away /\ g.material \notin failed \cup {None} => g.program \notin g.stale

\* None is on record only where lights came after all that put one there
NoneOnRecord(s, g, n) ==
    g.drawable = None =>
        \A i \in 1..n : Swaps(s[i]) => \E j \in (i + 1)..n : Kind[s[j]] = "lights"

GoodRecord(s, failed, g, away, n) ==
    /\ MaterialOnRecord(s, failed, g, n) /\ DrawableOnRecord(s, g, n)
    /\ ProgramIsFresh(failed, g, away) /\ NoneOnRecord(s, g, n)

\* A call of the i-th renderer
OwnProgram(s, failed, c, i) ==
    \/ c.program = Material[c.by] \/ Material[c.by] \in failed
    \/ \E j \in 1..(i - 1) : /\ Material[s[j]] = Material[c.by]
                             /\ \E k \in (j + 1)..(i - 1) : Kind[s[k]] \in {"heightmap"}

OwnVertices(s, c, i) ==
    \/ c.vao = Drawable(c.by)
    \/ \E j \in 1..(i - 1) : /\ Drawable(s[j]) = Drawable(c.by)
                             /\ \E k \in (j + 1)..(i - 1) : Kind[s[k]] \in {"heightmap", "out"}

OwnCall(s, failed, c, i) == s[i] = c.by /\ OwnProgram(s, failed, c, i) /\ OwnVertices(s, c, i)

FreshCall(failed, c, away) == ~away => c.fresh \/ Material[c.by] \in failed

DrawingInv ==
    /\ DrawingTypes
    /\ IsInjective(scene)
    /\ phase = "messages" => calls = <<>>
    /\ phase # "crashed" => ~gl.crashed
    /\ phase = "frame" => GoodRecord(scene, invalid, gl, moved, drawn)
    /\ \A c \in ToSet(calls) : FreshCall(invalid, c, moved)
    /\ \A c \in ToSet(calls) : \E i \in 1..drawn : OwnCall(scene, invalid, c, i)
    /\ CrashesWithoutDrawable
-----------------------------------------------------------------------------
(* A renderer draws with a material and vertices.                          *)
LEMMA KindsOfDrawables ==
    ASSUME DrawingAssumption, NEW r \in Renderer
    PROVE  /\ Kind[r] \in Kinds
           /\ Material[r] \in Materials /\ Material[r] # None
           /\ Drawable(r) \in Drawables /\ Drawable(r) # None
           /\ Kind[r] \in {"filler", "image"} => Drawable(r) = "quad"
           /\ Kind[r] = "skybox" => Drawable(r) = "box"
           /\ Kind[r] = "lights" => Drawable(r) = "icosahedron"
PROOF
<1>1. Kind[r] \in Kinds /\ None # Material[r] /\ None # Drawable(r)
  BY DEF DrawingAssumption
<1>2. Material[r] \in Materials /\ Drawable(r) \in Drawables
  BY DEF Materials, Drawables
<1>3. Kind[r] \in {"filler", "image"} => Drawable(r) = "quad"
  BY DEF Drawable
<1>4. Kind[r] = "skybox" => Drawable(r) = "box"
  BY DEF Drawable
<1>5. Kind[r] = "lights" => Drawable(r) = "icosahedron"
  BY DEF Drawable
<1> QED  BY <1>1, <1>2, <1>3, <1>4, <1>5

\* Nothing but these fields differs
SameRecord(g, h) == h.material = g.material /\ h.drawable = g.drawable

\* The material is bound, past the record
Binds(m, g, h) ==
    /\ h.program = IF m \in invalid THEN g.program ELSE m
    /\ h.stale = IF m \in invalid THEN g.stale ELSE g.stale \ {m}

\* The material is bound if the record says otherwise
Swapping(m, g, h) ==
    /\ h.material = m
    /\ IF g.material = m THEN h.program = g.program /\ h.stale = g.stale ELSE Binds(m, g, h)

\* The drawable is bound, or was on record
Shows(d, g, h) == h.vao = d \/ (g.drawable = d /\ h.vao = g.vao)

(* mtl_bind()                                                              *)
LEMMA BindMaterialDoes ==
    ASSUME NEW g \in GLState, NEW m \in Materials
    PROVE  /\ BindMaterial(g, m) \in GLState /\ Binds(m, g, BindMaterial(g, m))
           /\ SameRecord(g, BindMaterial(g, m))
           /\ BindMaterial(g, m).vao = g.vao /\ BindMaterial(g, m).crashed = g.crashed
BY DEF BindMaterial, Binds, SameRecord, GLState

(* bind() of a drawable                                                    *)
LEMMA BindDrawableDoes ==
    ASSUME NEW g \in GLState, NEW d \in Drawables
    PROVE  /\ BindDrawable(g, d) \in GLState /\ SameRecord(g, BindDrawable(g, d))
           /\ BindDrawable(g, d).vao = d /\ BindDrawable(g, d).crashed = g.crashed
           /\ BindDrawable(g, d).program = g.program /\ BindDrawable(g, d).stale = g.stale
BY DEF BindDrawable, SameRecord, GLState

(* ilG_bindable_swap() of a material                                       *)
LEMMA SwapMaterialDoes ==
    ASSUME NEW g \in GLState, NEW m \in Materials
    PROVE  /\ SwapMaterial(g, m) \in GLState /\ Swapping(m, g, SwapMaterial(g, m))
           /\ SwapMaterial(g, m).drawable = g.drawable
           /\ SwapMaterial(g, m).vao = g.vao /\ SwapMaterial(g, m).crashed = g.crashed
PROOF
<1>1. PICK k : k = [g EXCEPT !.material = m]
  OBVIOUS
<1>2. /\ k \in GLState /\ k.material = m /\ k.drawable = g.drawable /\ k.vao = g.vao
      /\ k.crashed = g.crashed /\ k.program = g.program /\ k.stale = g.stale
  BY <1>1 DEF GLState
<1>3. CASE g.material = m
  BY <1>3 DEF SwapMaterial, Swapping
<1>4. CASE g.material # m
  <2>1. SwapMaterial(g, m) = BindMaterial(k, m)
    BY <1>1, <1>4 DEF SwapMaterial
  <2> QED  BY <1>2, <1>4, <2>1, BindMaterialDoes DEF Swapping, Binds, SameRecord
<1> QED  BY <1>3, <1>4

(* ilG_bindable_swap() of a drawable                                       *)
LEMMA SwapDrawableDoes ==
    ASSUME NEW g \in GLState, NEW d \in Drawables
    PROVE  /\ SwapDrawable(g, d) \in GLState /\ SwapDrawable(g, d).drawable = d
           /\ SwapDrawable(g, d).material = g.material /\ SwapDrawable(g, d).crashed = g.crashed
           /\ SwapDrawable(g, d).program = g.program /\ SwapDrawable(g, d).stale = g.stale
           /\ Shows(d, g, SwapDrawable(g, d))
BY DEF SwapDrawable, BindDrawable, GLState, Shows

(* Shapes are made by the first to ask for them.                           *)
LEMMA MakeDoes ==
    ASSUME NEW g \in GLState
    PROVE  /\ \A d \in Shared : /\ MakeShape(g, d) \in GLState /\ SameRecord(g, MakeShape(g, d))
                                /\ MakeShape(g, d).program = g.program /\ MakeShape(g, d).vao = g.vao
                                /\ MakeShape(g, d).stale = g.stale
                                /\ MakeShape(g, d).crashed = g.crashed
           /\ "quad" \in Drawables =>
                   /\ MakeQuad(g) \in GLState /\ SameRecord(g, MakeQuad(g))
                   /\ MakeQuad(g).program = g.program /\ MakeQuad(g).stale = g.stale
                   /\ MakeQuad(g).vao \in {g.vao, "quad"} /\ MakeQuad(g).crashed = g.crashed
BY DEF MakeShape, MakeQuad, SameRecord, GLState, Shared

\* Calls of a renderer in a state of GL
CallsIn(cs, r, g) == cs \in Seq(CallState) /\ \A c \in ToSet(cs) : c = Call(r, g)

(* A call is made in a state.                                              *)
LEMMA CallIsCall ==
    ASSUME NEW r \in Renderer, NEW g \in GLState
    PROVE  Call(r, g) \in CallState
BY DEF Call, CallState, GLState

(* Calls for each member crash for a material that linked, with no         *)
(* drawable on record.                                                     *)
LEMMA MembersDo ==
    ASSUME NEW r \in Renderer, NEW n \in Nat, NEW g \in GLState, ~g.crashed
    PROVE  LET h == Members(r, n, g).gl
           IN  /\ h \in GLState /\ SameRecord(g, h)
               /\ h.program = g.program /\ h.vao = g.vao /\ h.stale = g.stale
               /\ h.crashed => g.drawable = None
               /\ CallsIn(Members(r, n, g).calls, r, h)
PROOF
<1>1. PICK h : h = IF n = 0 THEN g ELSE UpdateMaterial(g, Material[r])
  OBVIOUS
<1>2. PICK cs : cs = IF h.crashed THEN <<>> ELSE [i \in 1..n |-> Call(r, h)]
  OBVIOUS
<1>3. Members(r, n, g).gl = h /\ Members(r, n, g).calls = cs
  BY <1>1, <1>2 DEF Members
<1>4. /\ h \in GLState /\ SameRecord(g, h)
      /\ h.program = g.program /\ h.vao = g.vao /\ h.stale = g.stale
      /\ h.crashed => g.drawable = None
  BY <1>1 DEF UpdateMaterial, GLState, SameRecord
<1>5. CallsIn(cs, r, h)
  <2>1. CASE h.crashed
    <3>1. cs = <<>>
      BY <1>2, <2>1
    <3>2. ToSet(cs) = {} /\ cs \in Seq(CallState)
      BY <3>1 DEF ToSet
    <3> QED  BY <3>2 DEF CallsIn
  <2>2. CASE ~h.crashed
    <3>1. Call(r, h) \in CallState
      BY <1>4, CallIsCall
    <3>2. cs = [i \in 1..n |-> Call(r, h)]
      BY <1>2, <2>2
    <3>3. cs \in Seq(CallState) /\ DOMAIN cs = 1..n
      BY <3>1, <3>2, IsASeq
    <3>4. \A c \in ToSet(cs) : c = Call(r, h)
      BY <3>2, <3>3 DEF ToSet
    <3> QED  BY <3>3, <3>4 DEF CallsIn
  <2> QED  BY <2>1, <2>2
<1> QED  BY <1>3, <1>4, <1>5

\* What a renderer that looks at the record does, and one that does not
SwapEffect(r, g, h) ==
    /\ Swapping(Material[r], g, h) /\ h.drawable = Drawable(r) /\ ~h.crashed
    /\ Shows(Drawable(r), g, h)

BindEffect(r, g, h) == Binds(Material[r], g, h) /\ h.vao = Drawable(r)

\* The effect of drawing r, from g to h with calls cs
DrawEffect(r, g, h, cs) ==
    /\ h \in GLState /\ CallsIn(cs, r, h)
    /\ IF Swaps(r) THEN SwapEffect(r, g, h) ELSE BindEffect(r, g, h)
    /\ Kind[r] = "heightmap" => SameRecord(g, h)
    /\ Kind[r] = "lights" /\ ~h.crashed => h.material = None /\ h.drawable = None
    /\ Kind[r] = "out" => h.material = None /\ h.drawable = g.drawable
    /\ h.crashed => g.drawable = None /\ Kind[r] \in {"heightmap", "lights"}

(* A renderer with members that binds by the record.                       *)
LEMMA SwappersDo ==
    ASSUME DrawingAssumption, NEW r \in Renderer, Swaps(r), NEW n \in Nat,
           NEW g \in GLState, ~g.crashed, NEW k \in GLState, SwapEffect(r, g, k)
    PROVE  DrawEffect(r, g, Members(r, n, k).gl, Members(r, n, k).calls)
PROOF
<1>1. PICK h, cs : h = Members(r, n, k).gl /\ cs = Members(r, n, k).calls
  OBVIOUS
<1>2. /\ h \in GLState /\ SameRecord(k, h)
      /\ h.program = k.program /\ h.vao = k.vao /\ h.stale = k.stale
      /\ h.crashed => k.drawable = None
      /\ CallsIn(cs, r, h)
  BY <1>1, MembersDo DEF SwapEffect
<1>3. Drawable(r) # None /\ Kind[r] \notin {"heightmap", "lights", "out"}
  BY KindsOfDrawables DEF Swaps
<1>4. ~h.crashed
  BY <1>2, <1>3 DEF SwapEffect
<1>5. SwapEffect(r, g, h)
  BY <1>2, <1>4 DEF SwapEffect, Swapping, Binds, SameRecord, Shows
<1> QED  BY <1>1, <1>2, <1>3, <1>4, <1>5 DEF DrawEffect

(* And one that binds past it.                                             *)
LEMMA BindersDo ==
    ASSUME DrawingAssumption, NEW r \in Renderer, Kind[r] \in {"heightmap", "lights"}, NEW n \in Nat,
           NEW g \in GLState, NEW k \in GLState, ~k.crashed, BindEffect(r, g, k), SameRecord(g, k)
    PROVE  LET h == Members(r, n, k).gl
           IN  /\ h \in GLState /\ CallsIn(Members(r, n, k).calls, r, h)
               /\ BindEffect(r, g, h) /\ SameRecord(g, h)
               /\ h.crashed => g.drawable = None
PROOF
<1>1. PICK h, cs : h = Members(r, n, k).gl /\ cs = Members(r, n, k).calls
  OBVIOUS
<1>2. /\ h \in GLState /\ SameRecord(k, h)
      /\ h.program = k.program /\ h.vao = k.vao /\ h.stale = k.stale
      /\ h.crashed => k.drawable = None
      /\ CallsIn(cs, r, h)
  BY <1>1, MembersDo
<1>3. BindEffect(r, g, h) /\ SameRecord(g, h)
  BY <1>2 DEF BindEffect, Binds, SameRecord
<1>4. h.crashed => g.drawable = None
  BY <1>2 DEF SameRecord
<1> QED  BY <1>1, <1>2, <1>3, <1>4

(* The draw functions, by kind of renderer.                                *)
LEMMA LegacyDraws ==
    ASSUME DrawingAssumption, DrawingTypes, ~gl.crashed, NEW r \in Renderer, Kind[r] = "legacy"
    PROVE  DrawEffect(r, gl, Draw(r).gl, Draw(r).calls)
PROOF
<1>1. PICK g, j, k : /\ g = gl /\ j = SwapDrawable(g, Drawable(r))
                     /\ k = SwapMaterial(j, Material[r])
  OBVIOUS
<1>2. g \in GLState /\ ~g.crashed /\ members \in Nat /\ Material[r] \in Materials /\ Drawable(r) \in Drawables
  BY <1>1, KindsOfDrawables DEF DrawingTypes, DrawingAssumption
<1>3. /\ j \in GLState /\ j.drawable = Drawable(r) /\ j.material = g.material
      /\ ~j.crashed /\ j.program = g.program /\ j.stale = g.stale
      /\ Shows(Drawable(r), g, j)
  BY <1>1, <1>2, SwapDrawableDoes
<1>4. /\ k \in GLState /\ Swapping(Material[r], j, k) /\ k.drawable = j.drawable
      /\ k.vao = j.vao /\ k.crashed = j.crashed
  BY <1>1, <1>2, <1>3, SwapMaterialDoes
<1>5. SwapEffect(r, g, k)
  <2>1. Shows(Drawable(r), g, k)
    BY <1>3, <1>4 DEF Shows
  <2>2. Swapping(Material[r], g, k)
    BY <1>3, <1>4 DEF Swapping, Binds
  <2> QED  BY <2>1, <2>2, <1>3, <1>4 DEF SwapEffect
<1>6. Draw(r) = Members(r, members, k)
  BY <1>1 DEF Draw, LegacyDraw
<1>7. Swaps(r)
  BY DEF Swaps
<1> QED  BY <1>1, <1>2, <1>4, <1>5, <1>6, <1>7, SwappersDo

(* sky_draw()                                                              *)
LEMMA SkyDraws ==
    ASSUME DrawingAssumption, DrawingTypes, ~gl.crashed, NEW r \in Renderer, Kind[r] = "skybox"
    PROVE  DrawEffect(r, gl, Draw(r).gl, Draw(r).calls)
PROOF
<1>1. PICK g, i, j, k : /\ g = gl /\ i = MakeShape(g, "box") /\ j = SwapDrawable(i, "box")
                        /\ k = SwapMaterial(j, Material[r])
  OBVIOUS
<1>2. /\ g \in GLState /\ ~g.crashed /\ Material[r] \in Materials /\ Drawable(r) = "box"
      /\ "box" \in Drawables /\ "box" \in Shared
  BY <1>1, KindsOfDrawables DEF DrawingTypes, Shared
<1>3. /\ i \in GLState /\ SameRecord(g, i) /\ i.program = g.program /\ i.vao = g.vao
      /\ i.stale = g.stale /\ ~i.crashed
  BY <1>1, <1>2, MakeDoes
<1>4. /\ j \in GLState /\ j.drawable = "box" /\ j.material = i.material
      /\ ~j.crashed /\ j.program = i.program /\ j.stale = i.stale
      /\ Shows("box", i, j)
  BY <1>1, <1>2, <1>3, SwapDrawableDoes
<1>5. /\ k \in GLState /\ Swapping(Material[r], j, k) /\ k.drawable = j.drawable
      /\ k.vao = j.vao /\ k.crashed = j.crashed
  BY <1>1, <1>2, <1>4, SwapMaterialDoes
<1>6. SwapEffect(r, g, k)
  <2>1. Shows(Drawable(r), g, k)
    BY <1>2, <1>3, <1>4, <1>5 DEF Shows, SameRecord
  <2>2. Swapping(Material[r], g, k)
    BY <1>3, <1>4, <1>5 DEF Swapping, Binds, SameRecord
  <2> QED  BY <2>1, <2>2, <1>2, <1>4, <1>5 DEF SwapEffect
<1>7. Draw(r) = Members(r, 1, k)
  BY <1>1 DEF Draw, SkyDraw
<1>8. Swaps(r) /\ 1 \in Nat
  BY DEF Swaps
<1> QED  BY <1>1, <1>2, <1>5, <1>6, <1>7, <1>8, SwappersDo

(* The filler of a frame of the GUI.                                       *)
LEMMA FillerDraws ==
    ASSUME DrawingAssumption, DrawingTypes, ~gl.crashed, NEW r \in Renderer, Kind[r] = "filler"
    PROVE  DrawEffect(r, gl, Draw(r).gl, Draw(r).calls)
PROOF
<1>1. PICK g, i, j, k : /\ g = gl /\ i = MakeQuad(g) /\ j = SwapDrawable(i, "quad")
                        /\ k = SwapMaterial(j, Material[r])
  OBVIOUS
<1>2. /\ g \in GLState /\ ~g.crashed /\ Material[r] \in Materials /\ Drawable(r) = "quad"
      /\ "quad" \in Drawables
  BY <1>1, KindsOfDrawables DEF DrawingTypes
<1>3. /\ i \in GLState /\ SameRecord(g, i) /\ i.program = g.program /\ i.vao \in {g.vao, "quad"}
      /\ i.stale = g.stale /\ ~i.crashed
  BY <1>1, <1>2, MakeDoes
<1>4. /\ j \in GLState /\ j.drawable = "quad" /\ j.material = i.material
      /\ ~j.crashed /\ j.program = i.program /\ j.stale = i.stale
      /\ Shows("quad", i, j)
  BY <1>1, <1>2, <1>3, SwapDrawableDoes
<1>5. /\ k \in GLState /\ Swapping(Material[r], j, k) /\ k.drawable = j.drawable
      /\ k.vao = j.vao /\ k.crashed = j.crashed
  BY <1>1, <1>2, <1>4, SwapMaterialDoes
<1>6. SwapEffect(r, g, k)
  <2>1. Shows(Drawable(r), g, k)
    BY <1>2, <1>3, <1>4, <1>5 DEF Shows, SameRecord
  <2>2. Swapping(Material[r], g, k)
    BY <1>3, <1>4, <1>5 DEF Swapping, Binds, SameRecord
  <2> QED  BY <2>1, <2>2, <1>2, <1>4, <1>5 DEF SwapEffect
<1>7. Draw(r) = Members(r, 1, k)
  BY <1>1 DEF Draw, FillerDraw
<1>8. Swaps(r) /\ 1 \in Nat
  BY DEF Swaps
<1> QED  BY <1>1, <1>2, <1>5, <1>6, <1>7, <1>8, SwappersDo

(* image_draw()                                                            *)
LEMMA ImageDraws ==
    ASSUME DrawingAssumption, DrawingTypes, ~gl.crashed, NEW r \in Renderer, Kind[r] = "image"
    PROVE  DrawEffect(r, gl, Draw(r).gl, Draw(r).calls)
PROOF
<1>1. PICK g, i, j, k : /\ g = gl /\ i = SwapMaterial(g, Material[r]) /\ j = MakeQuad(i)
                        /\ k = SwapDrawable(j, "quad")
  OBVIOUS
<1>2. /\ g \in GLState /\ ~g.crashed /\ Material[r] \in Materials /\ Drawable(r) = "quad"
      /\ "quad" \in Drawables
  BY <1>1, KindsOfDrawables DEF DrawingTypes
<1>3. /\ i \in GLState /\ Swapping(Material[r], g, i) /\ i.drawable = g.drawable
      /\ i.vao = g.vao /\ ~i.crashed
  BY <1>1, <1>2, SwapMaterialDoes
<1>4. /\ j \in GLState /\ SameRecord(i, j) /\ j.program = i.program /\ j.vao \in {i.vao, "quad"}
      /\ j.stale = i.stale /\ ~j.crashed
  BY <1>1, <1>2, <1>3, MakeDoes
<1>5. /\ k \in GLState /\ k.drawable = "quad" /\ k.material = j.material
      /\ ~k.crashed /\ k.program = j.program /\ k.stale = j.stale
      /\ Shows("quad", j, k)
  BY <1>1, <1>2, <1>4, SwapDrawableDoes
<1>6. SwapEffect(r, g, k)
  <2>1. Shows(Drawable(r), g, k)
    BY <1>2, <1>3, <1>4, <1>5 DEF Shows, SameRecord
  <2>2. Swapping(Material[r], g, k)
    BY <1>3, <1>4, <1>5 DEF Swapping, Binds, SameRecord
  <2> QED  BY <2>1, <2>2, <1>2, <1>4, <1>5 DEF SwapEffect
<1>7. Draw(r) = Members(r, 1, k)
  BY <1>1 DEF Draw, ImageDraw
<1>8. Swaps(r) /\ 1 \in Nat
  BY DEF Swaps
<1> QED  BY <1>1, <1>2, <1>5, <1>6, <1>7, <1>8, SwappersDo

(* heightmap_draw()                                                        *)
LEMMA HeightmapDraws ==
    ASSUME DrawingAssumption, DrawingTypes, ~gl.crashed, NEW r \in Renderer, Kind[r] = "heightmap"
    PROVE  DrawEffect(r, gl, Draw(r).gl, Draw(r).calls)
PROOF
<1>1. PICK g, j, k : /\ g = gl /\ j = BindDrawable(g, Drawable(r))
                     /\ k = BindMaterial(j, Material[r])
  OBVIOUS
<1>2. /\ g \in GLState /\ ~g.crashed /\ members \in Nat
      /\ Material[r] \in Materials /\ Drawable(r) \in Drawables
  BY <1>1, KindsOfDrawables DEF DrawingTypes, DrawingAssumption
<1>3. /\ j \in GLState /\ SameRecord(g, j) /\ j.vao = Drawable(r) /\ ~j.crashed
      /\ j.program = g.program /\ j.stale = g.stale
  BY <1>1, <1>2, BindDrawableDoes
<1>4. /\ k \in GLState /\ Binds(Material[r], j, k) /\ SameRecord(j, k) /\ k.vao = j.vao /\ ~k.crashed
  BY <1>1, <1>2, <1>3, BindMaterialDoes
<1>5. BindEffect(r, g, k) /\ SameRecord(g, k)
  BY <1>3, <1>4 DEF BindEffect, Binds, SameRecord
<1>6. Draw(r) = Members(r, members, k)
  BY <1>1 DEF Draw, HeightmapDraw
<1>7. PICK h, cs : h = Draw(r).gl /\ cs = Draw(r).calls
  OBVIOUS
<1>8. /\ h \in GLState /\ CallsIn(cs, r, h) /\ BindEffect(r, g, h) /\ SameRecord(g, h)
      /\ h.crashed => g.drawable = None
  BY <1>2, <1>4, <1>5, <1>6, <1>7, BindersDo
<1>9. ~Swaps(r) /\ Kind[r] # "lights" /\ Kind[r] # "out"
  BY DEF Swaps
<1> QED  BY <1>1, <1>7, <1>8, <1>9 DEF DrawEffect

(* lights_draw()                                                           *)
LEMMA LightsDraws ==
    ASSUME DrawingAssumption, DrawingTypes, ~gl.crashed, NEW r \in Renderer, Kind[r] = "lights"
    PROVE  DrawEffect(r, gl, Draw(r).gl, Draw(r).calls)
PROOF
<1>1. PICK g, i, j, k : /\ g = gl /\ i = MakeShape(g, Drawable(r)) /\ j = BindDrawable(i, Drawable(r))
                        /\ k = BindMaterial(j, Material[r])
  OBVIOUS
<1>2. /\ g \in GLState /\ ~g.crashed /\ members \in Nat
      /\ Material[r] \in Materials /\ Drawable(r) \in Drawables /\ Drawable(r) \in Shared
  BY <1>1, KindsOfDrawables DEF DrawingTypes, DrawingAssumption, Shared
<1>3. /\ i \in GLState /\ SameRecord(g, i) /\ i.program = g.program /\ i.vao = g.vao
      /\ i.stale = g.stale /\ ~i.crashed
  BY <1>1, <1>2, MakeDoes
<1>4. /\ j \in GLState /\ SameRecord(i, j) /\ j.vao = Drawable(r) /\ ~j.crashed
      /\ j.program = i.program /\ j.stale = i.stale
  BY <1>1, <1>2, <1>3, BindDrawableDoes
<1>5. /\ k \in GLState /\ Binds(Material[r], j, k) /\ SameRecord(j, k) /\ k.vao = j.vao /\ ~k.crashed
  BY <1>1, <1>2, <1>4, BindMaterialDoes
<1>6. BindEffect(r, g, k) /\ SameRecord(g, k)
  BY <1>3, <1>4, <1>5 DEF BindEffect, Binds, SameRecord
<1>7. PICK res, h, cs : res = Members(r, members, k) /\ h = res.gl /\ cs = res.calls
  OBVIOUS
<1>8. /\ h \in GLState /\ CallsIn(cs, r, h) /\ BindEffect(r, g, h) /\ SameRecord(g, h)
      /\ h.crashed => g.drawable = None
  BY <1>2, <1>5, <1>6, <1>7, BindersDo
<1>9. ~Swaps(r) /\ Kind[r] # "heightmap" /\ Kind[r] # "out"
  BY DEF Swaps
<1>10. Draw(r) = IF res.gl.crashed THEN res ELSE [res EXCEPT !.gl = LightsEnd(@)]
  BY <1>1, <1>7 DEF Draw, LightsDraw
<1>11. CASE h.crashed
  <2>1. Draw(r).gl = h /\ Draw(r).calls = cs
    BY <1>7, <1>10, <1>11
  <2> QED  BY <1>1, <1>8, <1>9, <1>11, <2>1 DEF DrawEffect
<1>12. CASE ~h.crashed
  <2>1. res = [gl |-> h, calls |-> cs]
    BY <1>7 DEF Members
  <2>2. Draw(r).gl = LightsEnd(h) /\ Draw(r).calls = cs
    BY <1>7, <1>10, <1>12, <2>1
  <2>3. PICK e : e = LightsEnd(h)
    OBVIOUS
  <2>4. /\ e \in GLState /\ e.material = None /\ e.drawable = None /\ ~e.crashed
        /\ e.program = h.program /\ e.vao = h.vao /\ e.stale = h.stale
    BY <1>8, <1>12, <2>3 DEF LightsEnd, GLState
  <2>5. Call(r, e) = Call(r, h)
    BY <2>4 DEF Call
  <2>6. CallsIn(cs, r, e) /\ BindEffect(r, g, e)
    BY <1>8, <2>4, <2>5 DEF CallsIn, BindEffect, Binds
  <2> QED  BY <1>1, <1>9, <2>2, <2>3, <2>4, <2>6 DEF DrawEffect
<1> QED  BY <1>11, <1>12

(* out_draw()                                                              *)
LEMMA OutDraws ==
    ASSUME DrawingAssumption, DrawingTypes, ~gl.crashed, NEW r \in Renderer, Kind[r] = "out"
    PROVE  DrawEffect(r, gl, Draw(r).gl, Draw(r).calls)
PROOF
<1>1. PICK g, j, k, h : /\ g = gl /\ j = BindMaterial(g, Material[r])
                        /\ k = BindDrawable(j, Drawable(r)) /\ h = [k EXCEPT !.material = None]
  OBVIOUS
<1>2. /\ g \in GLState /\ ~g.crashed /\ Material[r] \in Materials /\ Drawable(r) \in Drawables
  BY <1>1, KindsOfDrawables DEF DrawingTypes
<1>3. /\ j \in GLState /\ Binds(Material[r], g, j) /\ SameRecord(g, j) /\ ~j.crashed
  BY <1>1, <1>2, BindMaterialDoes
<1>4. /\ k \in GLState /\ SameRecord(j, k) /\ k.vao = Drawable(r) /\ ~k.crashed
      /\ k.program = j.program /\ k.stale = j.stale
  BY <1>1, <1>2, <1>3, BindDrawableDoes
<1>5. /\ h \in GLState /\ h.material = None /\ h.drawable = k.drawable /\ ~h.crashed
      /\ h.program = k.program /\ h.vao = k.vao /\ h.stale = k.stale
  BY <1>1, <1>4 DEF GLState
<1>6. BindEffect(r, g, h) /\ h.drawable = g.drawable
  BY <1>3, <1>4, <1>5 DEF BindEffect, Binds, SameRecord
<1>7. Draw(r).gl = h /\ Draw(r).calls = <<Call(r, k)>>
  BY <1>1 DEF Draw, OutDraw
<1>8. Call(r, k) = Call(r, h)
  BY <1>5 DEF Call
<1>9. CallsIn(<<Call(r, k)>>, r, h)
  <2>1. Call(r, k) \in CallState
    BY <1>4, CallIsCall
  <2>2. <<Call(r, k)>> \in Seq(CallState)
    BY <2>1
  <2>3. ToSet(<<Call(r, k)>>) = {Call(r, k)}
    BY DEF ToSet
  <2> QED  BY <1>8, <2>2, <2>3 DEF CallsIn
<1>10. ~Swaps(r) /\ Kind[r] # "heightmap" /\ Kind[r] # "lights"
  BY DEF Swaps
<1> QED  BY <1>1, <1>5, <1>6, <1>7, <1>9, <1>10 DEF DrawEffect

(* Whatever kind it is.                                                    *)
LEMMA DrawDoes ==
    ASSUME DrawingAssumption, DrawingTypes, ~gl.crashed, NEW r \in Renderer
    PROVE  DrawEffect(r, gl, Draw(r).gl, Draw(r).calls)
BY KindsOfDrawables, LegacyDraws, SkyDraws, FillerDraws, ImageDraws, HeightmapDraws, LightsDraws,
   OutDraws DEF Kinds

(* What was on record, and what was bound, after one renderer more.        *)
LEMMA MaterialFollows ==
    ASSUME DrawingAssumption, NEW r \in Renderer, NEW g, NEW h, NEW cs, DrawEffect(r, g, h, cs),
           ~h.crashed, NEW s, NEW n \in Nat, s[n + 1] = r, MaterialOnRecord(s, invalid, g, n)
    PROVE  MaterialOnRecord(s, invalid, h, n + 1)
PROOF
<1> SUFFICES ASSUME h.material # None
             PROVE  \E j \in 1..(n + 1) :
                       /\ Material[s[j]] = h.material
                       /\ \/ h.material \in invalid \/ h.program = h.material
                          \/ \E k \in (j + 1)..(n + 1) : Kind[s[k]] \in {"heightmap"}
  BY DEF MaterialOnRecord
<1>1. n + 1 \in 1..(n + 1)
  OBVIOUS
<1>2. \A j \in 1..n : j \in 1..(n + 1) /\ \A k \in (j + 1)..n : k \in (j + 1)..(n + 1)
  OBVIOUS
<1>3. CASE Swaps(r)
  <2>1. Swapping(Material[r], g, h)
    BY <1>3 DEF DrawEffect, SwapEffect
  <2>2. CASE g.material = Material[r]
    <3>1. h.material = g.material /\ h.program = g.program
      BY <2>1, <2>2 DEF Swapping
    <3> QED  BY <3>1, <1>2 DEF MaterialOnRecord
  <2>3. CASE g.material # Material[r]
    <3>1. h.material = Material[r] /\ (h.material \in invalid \/ h.program = h.material)
      BY <2>1, <2>3 DEF Swapping, Binds
    <3> QED  BY <3>1, <1>1
  <2> QED  BY <2>2, <2>3
<1>4. CASE Kind[r] = "heightmap"
  <2>1. h.material = g.material
    BY <1>4 DEF DrawEffect, SameRecord
  <2>2. PICK j \in 1..n : Material[s[j]] = g.material
    BY <2>1 DEF MaterialOnRecord
  <2>3. n + 1 \in (j + 1)..(n + 1)
    OBVIOUS
  <2> QED  BY <1>2, <1>4, <2>1, <2>2, <2>3
<1>5. Kind[r] \in Kinds
  BY KindsOfDrawables
<1>6. CASE Kind[r] \in {"lights", "out"}
  BY <1>6 DEF DrawEffect
<1> QED  BY <1>3, <1>4, <1>5, <1>6 DEF Swaps, Kinds

(* The same of the drawable.                                               *)
LEMMA DrawableFollows ==
    ASSUME DrawingAssumption, NEW r \in Renderer, NEW g, NEW h, NEW cs, DrawEffect(r, g, h, cs),
           ~h.crashed, NEW s, NEW n \in Nat, s[n + 1] = r, DrawableOnRecord(s, g, n)
    PROVE  DrawableOnRecord(s, h, n + 1)
PROOF
<1> SUFFICES ASSUME h.drawable # None
             PROVE  \E j \in 1..(n + 1) :
                       /\ Drawable(s[j]) = h.drawable
                       /\ \/ h.vao = h.drawable
                          \/ \E k \in (j + 1)..(n + 1) : Kind[s[k]] \in {"heightmap", "out"}
  BY DEF DrawableOnRecord
<1>1. n + 1 \in 1..(n + 1)
  OBVIOUS
<1>2. \A j \in 1..n : j \in 1..(n + 1) /\ \A k \in (j + 1)..n : k \in (j + 1)..(n + 1)
  OBVIOUS
<1>3. CASE Swaps(r)
  <2>1. h.drawable = Drawable(r) /\ Shows(Drawable(r), g, h)
    BY <1>3 DEF DrawEffect, SwapEffect
  <2>2. CASE h.vao = Drawable(r)
    BY <2>1, <2>2, <1>1
  <2>3. CASE h.vao # Drawable(r)
    <3>1. g.drawable = Drawable(r) /\ h.vao = g.vao
      BY <2>1, <2>3 DEF Shows
    <3> QED  BY <2>1, <3>1, <1>2 DEF DrawableOnRecord
  <2> QED  BY <2>2, <2>3
<1>4. CASE Kind[r] \in {"heightmap", "out"}
  <2>1. h.drawable = g.drawable
    BY <1>4 DEF DrawEffect, SameRecord
  <2>2. PICK j \in 1..n : Drawable(s[j]) = g.drawable
    BY <2>1 DEF DrawableOnRecord
  <2>3. n + 1 \in (j + 1)..(n + 1)
    OBVIOUS
  <2> QED  BY <1>2, <1>4, <2>1, <2>2, <2>3
<1>5. Kind[r] \in Kinds
  BY KindsOfDrawables
<1>6. CASE Kind[r] = "lights"
  BY <1>6 DEF DrawEffect
<1> QED  BY <1>3, <1>4, <1>5, <1>6 DEF Swaps, Kinds

(* The matrices of the program in use are still those of the camera.       *)
LEMMA FreshFollows ==
    ASSUME DrawingAssumption, NEW r \in Renderer, NEW g, NEW h, NEW cs, DrawEffect(r, g, h, cs),
           ~h.crashed, NEW away, ProgramIsFresh(invalid, g, away)
    PROVE  ProgramIsFresh(invalid, h, away)
PROOF
<1> SUFFICES ASSUME ~away, h.material \notin invalid \cup {None}
             PROVE  h.program \notin h.stale
  BY DEF ProgramIsFresh
<1>1. CASE Swaps(r)
  BY <1>1 DEF DrawEffect, SwapEffect, Swapping, Binds, ProgramIsFresh
<1>2. CASE Kind[r] = "heightmap"
  <2>1. h.material = g.material /\ Binds(Material[r], g, h)
    BY <1>2 DEF DrawEffect, SameRecord, BindEffect, Swaps
  <2> QED  BY <2>1 DEF Binds, ProgramIsFresh
<1>3. Kind[r] \in Kinds
  BY KindsOfDrawables
<1>4. CASE Kind[r] \in {"lights", "out"}
  BY <1>4 DEF DrawEffect
<1> QED  BY <1>1, <1>2, <1>3, <1>4 DEF Swaps, Kinds

(* None stays on record only after lights.                                 *)
LEMMA NoneFollows ==
    ASSUME DrawingAssumption, NEW r \in Renderer, NEW g, NEW h, NEW cs, DrawEffect(r, g, h, cs),
           ~h.crashed, NEW s, NEW n \in Nat, s[n + 1] = r, NoneOnRecord(s, g, n)
    PROVE  NoneOnRecord(s, h, n + 1)
PROOF
<1> SUFFICES ASSUME h.drawable = None, NEW i \in 1..(n + 1), Swaps(s[i])
             PROVE  \E j \in (i + 1)..(n + 1) : Kind[s[j]] = "lights"
  BY DEF NoneOnRecord
<1>1. ~Swaps(r)
  BY KindsOfDrawables DEF DrawEffect, SwapEffect
<1>2. i # n + 1 /\ i \in 1..n /\ n + 1 \in (i + 1)..(n + 1)
  BY <1>1
<1>3. CASE Kind[r] \in {"heightmap", "out"}
  <2>1. g.drawable = None
    BY <1>3 DEF DrawEffect, SameRecord
  <2>2. PICK j \in (i + 1)..n : Kind[s[j]] = "lights"
    BY <1>2, <2>1 DEF NoneOnRecord
  <2> QED  BY <2>2, <1>2
<1>4. CASE Kind[r] = "lights"
  BY <1>2, <1>4
<1>5. Kind[r] \in Kinds
  BY KindsOfDrawables
<1> QED  BY <1>1, <1>3, <1>4, <1>5 DEF Swaps, Kinds

(* Its calls are its own, and see the scene as it is.                      *)
LEMMA CallsAreOwn ==
    ASSUME DrawingAssumption, NEW r \in Renderer, NEW g, NEW h, NEW cs, DrawEffect(r, g, h, cs),
           NEW s, NEW n \in Nat, s[n + 1] = r, NEW away, GoodRecord(s, invalid, g, away, n)
    PROVE  \A c \in ToSet(cs) : OwnCall(s, invalid, c, n + 1) /\ FreshCall(invalid, c, away)
PROOF
<1> SUFFICES ASSUME NEW c, c = Call(r, h)
             PROVE  OwnCall(s, invalid, c, n + 1) /\ FreshCall(invalid, c, away)
  BY DEF DrawEffect, CallsIn
<1>1. c.by = r /\ c.program = h.program /\ c.vao = h.vao /\ c.fresh = (h.program \notin h.stale)
  BY DEF Call
<1>2. (n + 1) - 1 = n
  OBVIOUS
<1>3. Material[r] # None /\ Drawable(r) # None
  BY KindsOfDrawables
<1>4. OwnProgram(s, invalid, c, n + 1) /\ FreshCall(invalid, c, away)
  <2>1. CASE ~Swaps(r) \/ g.material # Material[r]
    <3>1. Binds(Material[r], g, h)
      BY <2>1 DEF DrawEffect, BindEffect, SwapEffect, Swapping
    <3>2. CASE Material[r] \in invalid
      BY <3>2, <1>1 DEF OwnProgram, FreshCall
    <3>3. CASE Material[r] \notin invalid
      <4>1. h.program = Material[r] /\ h.program \notin h.stale
        BY <3>1, <3>3 DEF Binds
      <4>2. c.fresh
        BY <4>1, <1>1
      <4> QED  BY <4>1, <4>2, <1>1 DEF OwnProgram, FreshCall
    <3> QED  BY <3>2, <3>3
  <2>2. CASE Swaps(r) /\ g.material = Material[r]
    <3>1. h.program = g.program /\ h.stale = g.stale
      BY <2>2 DEF DrawEffect, SwapEffect, Swapping
    <3>2. OwnProgram(s, invalid, c, n + 1)
      BY <3>1, <2>2, <1>1, <1>2, <1>3 DEF GoodRecord, MaterialOnRecord, OwnProgram
    <3>3. FreshCall(invalid, c, away)
      <4>1. ~away /\ Material[r] \notin invalid => g.program \notin g.stale
        BY <2>2, <1>3 DEF GoodRecord, ProgramIsFresh
      <4>2. c.fresh = (g.program \notin g.stale) /\ c.by = r
        BY <3>1, <1>1
      <4>3. ~away => c.fresh \/ Material[r] \in invalid
        BY <4>1, <4>2
      <4> QED  BY <4>2, <4>3 DEF FreshCall
    <3> QED  BY <3>2, <3>3
  <2> QED  BY <2>1, <2>2
<1>5. OwnVertices(s, c, n + 1)
  <2>1. CASE ~Swaps(r) \/ h.vao = Drawable(r)
    BY <2>1, <1>1 DEF DrawEffect, BindEffect, OwnVertices
  <2>2. CASE Swaps(r) /\ h.vao # Drawable(r)
    <3>1. g.drawable = Drawable(r) /\ h.vao = g.vao
      BY <2>2 DEF DrawEffect, SwapEffect, Shows
    <3> QED  BY <2>2, <3>1, <1>1, <1>2, <1>3 DEF GoodRecord, DrawableOnRecord, OwnVertices
  <2> QED  BY <2>1, <2>2
<1> QED  BY <1>1, <1>4, <1>5 DEF OwnCall

(* The next renderer is drawn.                                             *)
LEMMA DrawNextKeeps ==
    ASSUME DrawingAssumption, DrawingInv, DrawNext
    PROVE  DrawingInv'
PROOF
<1>1. PICK n, r, g, h, cs : /\ n = drawn /\ r = scene[n + 1] /\ g = gl
                            /\ h = Draw(scene[n + 1]).gl /\ cs = Draw(scene[n + 1]).calls
  OBVIOUS
<1>2. /\ n \in Nat /\ n < built /\ built \in 0..SceneSize /\ n + 1 \in 1..SceneSize
      /\ scene \in [1..SceneSize -> Renderer] /\ phase = "frame" /\ g \in GLState
      /\ calls \in Seq(CallState) /\ ~g.crashed
  BY <1>1 DEF DrawNext, DrawingInv, DrawingTypes, DrawingAssumption
<1>3. r \in Renderer
  BY <1>1, <1>2
<1>4. DrawEffect(r, g, h, cs)
  BY <1>1, <1>2, <1>3, DrawDoes DEF DrawingInv
<1>5. h \in GLState /\ cs \in Seq(CallState) /\ h.crashed \in BOOLEAN
  BY <1>4 DEF DrawEffect, CallsIn, GLState
<1>6. /\ drawn' = n + 1 /\ gl' = h /\ calls' = calls \o cs
      /\ phase' = IF h.crashed THEN "crashed" ELSE "frame"
      /\ UNCHANGED <<scene, members, built, invalid, uploads, moved>>
  BY <1>1, <1>2 DEF DrawNext
<1>7. GoodRecord(scene, invalid, g, moved, n)
  BY <1>1, <1>2 DEF DrawingInv
<1>8. ~h.crashed => GoodRecord(scene, invalid, h, moved, n + 1)
  <2> SUFFICES ASSUME ~h.crashed PROVE GoodRecord(scene, invalid, h, moved, n + 1)
    OBVIOUS
  <2>1. MaterialOnRecord(scene, invalid, h, n + 1)
    BY <1>1, <1>2, <1>3, <1>4, <1>7, MaterialFollows DEF GoodRecord
  <2>2. DrawableOnRecord(scene, h, n + 1)
    BY <1>1, <1>2, <1>3, <1>4, <1>7, DrawableFollows DEF GoodRecord
  <2>3. ProgramIsFresh(invalid, h, moved)
    BY <1>3, <1>4, <1>7, FreshFollows DEF GoodRecord
  <2>4. NoneOnRecord(scene, h, n + 1)
    BY <1>1, <1>2, <1>3, <1>4, <1>7, NoneFollows DEF GoodRecord
  <2> QED  BY <2>1, <2>2, <2>3, <2>4 DEF GoodRecord
<1>9. \A c \in ToSet(cs) : OwnCall(scene, invalid, c, n + 1) /\ FreshCall(invalid, c, moved)
  BY <1>1, <1>2, <1>3, <1>4, <1>7, CallsAreOwn
<1>10. calls' \in Seq(CallState) /\ ToSet(calls') \subseteq ToSet(calls) \cup ToSet(cs)
  BY <1>2, <1>5, <1>6, SetOfConcat
<1>11. DrawingTypes'
  BY <1>2, <1>5, <1>6, <1>10 DEF DrawingInv, DrawingTypes
<1>12. \A c \in ToSet(calls') : FreshCall(invalid', c, moved')
  BY <1>6, <1>9, <1>10 DEF DrawingInv
<1>13. \A c \in ToSet(calls') : \E i \in 1..drawn' : OwnCall(scene', invalid', c, i)
  <2>1. \A c \in ToSet(calls) : \E i \in 1..n : OwnCall(scene, invalid, c, i)
    BY <1>1 DEF DrawingInv
  <2>2. n + 1 \in 1..(n + 1) /\ \A i \in 1..n : i \in 1..(n + 1)
    BY <1>2
  <2> QED  BY <1>6, <1>9, <1>10, <2>1, <2>2
<1>14. CrashesWithoutDrawable'
  <2> SUFFICES ASSUME h.crashed
               PROVE  /\ Kind[scene[n + 1]] \in {"heightmap", "lights"}
                      /\ \A i \in 1..n : Swaps(scene[i]) =>
                             \E j \in (i + 1)..n : Kind[scene[j]] = "lights"
    <3>1. (n + 1) - 1 = n
      BY <1>2
    <3> QED  BY <1>5, <1>6, <3>1 DEF CrashesWithoutDrawable, Swaps
  <2>1. g.drawable = None /\ Kind[r] \in {"heightmap", "lights"}
    BY <1>4 DEF DrawEffect
  <2> QED  BY <1>1, <1>7, <2>1 DEF GoodRecord, NoneOnRecord
<1>15. /\ IsInjective(scene')
       /\ phase' = "messages" => calls' = <<>>
       /\ phase' # "crashed" => ~gl'.crashed
       /\ phase' = "frame" => GoodRecord(scene', invalid', gl', moved', drawn')
  <2>1. IsInjective(scene)
    BY DEF DrawingInv
  <2> QED  BY <1>5, <1>6, <1>8, <2>1
<1> QED  BY <1>11, <1>12, <1>13, <1>14, <1>15 DEF DrawingInv

(* What is done between frames.                                            *)
LEMMA BetweenFrames ==
    ASSUME DrawingAssumption, DrawingInv, phase = "messages", phase' = "messages",
           DrawingTypes', UNCHANGED <<scene, calls>>, ~gl'.crashed
    PROVE  DrawingInv'
PROOF
<1>1. ToSet(calls') = {} /\ calls' = <<>> /\ IsInjective(scene')
  BY DEF DrawingInv, ToSet
<1> QED  BY <1>1 DEF DrawingInv, CrashesWithoutDrawable

(* Every step of the threads.                                              *)
LEMMA DrawingStep == DrawingAssumption /\ DrawingInv /\ [DrawingNext]_drawing => DrawingInv'
PROOF
<1> SUFFICES ASSUME DrawingAssumption, DrawingInv, [DrawingNext]_drawing PROVE DrawingInv'
  OBVIOUS
<1>0. /\ scene \in [1..SceneSize -> Renderer] /\ SceneSize \in Nat /\ built \in 0..SceneSize
      /\ gl \in GLState /\ uploads \subseteq Drawables /\ invalid \subseteq Materials
      /\ drawn \in 0..built /\ DrawingTypes
  BY DEF DrawingInv, DrawingTypes, DrawingAssumption
<1>1. CASE UNCHANGED drawing
  BY <1>1 DEF drawing, DrawingInv, DrawingTypes, CrashesWithoutDrawable, Swaps
<1>2. CASE Build
  <2>1. PICK r : r = scene[built + 1]
    OBVIOUS
  <2>2. /\ phase = "messages" /\ built < Len(scene) /\ built' = built + 1
        /\ UNCHANGED <<scene, members, phase, moved, drawn, calls>>
        /\ Link(Material[r])
        /\ CASE Kind[r] = "heightmap" -> HeightmapBuild(r)
             [] Kind[r] = "out" -> OutBuild(r)
             [] OTHER -> UNCHANGED <<uploads, gl>>
    BY <1>2, <2>1 DEF Build
  <2>3. Len(scene) = SceneSize
    BY <1>0
  <2>4. built + 1 \in 1..SceneSize /\ r \in Renderer
    BY <1>0, <2>1, <2>2, <2>3
  <2>5. Material[r] \in Materials /\ Drawable(r) \in Drawables
    BY <2>4, KindsOfDrawables
  <2>6. invalid' \subseteq Materials
    BY <1>0, <2>2, <2>5 DEF Link
  <2>7. uploads' \subseteq Drawables /\ gl' \in GLState /\ gl'.crashed = gl.crashed
    <3>1. CASE HeightmapBuild(r)
      BY <3>1, <1>0, <2>5 DEF HeightmapBuild
    <3>2. CASE OutBuild(r)
      BY <3>2, <1>0, <2>5, BindDrawableDoes DEF OutBuild
    <3>3. CASE UNCHANGED <<uploads, gl>>
      BY <3>3, <1>0
    <3> QED  BY <2>2, <3>1, <3>2, <3>3
  <2>8. DrawingTypes'
    BY <1>0, <2>2, <2>4, <2>6, <2>7 DEF DrawingTypes
  <2> QED  BY <2>2, <2>7, <2>8, BetweenFrames DEF DrawingInv
<1>3. CASE Upload
  <2>1. PICK d \in uploads : gl' = BindDrawable(gl, d) /\ uploads' = uploads \ {d}
    BY <1>3 DEF Upload
  <2>2. gl' \in GLState /\ gl'.crashed = gl.crashed
    BY <1>0, <2>1, BindDrawableDoes
  <2>3. DrawingTypes'
    BY <1>0, <1>3, <2>1, <2>2 DEF Upload, DrawingTypes
  <2> QED  BY <1>3, <2>2, <2>3, BetweenFrames DEF Upload, DrawingInv
<1>4. CASE Relink
  <2>1. PICK i \in 1..built : Link(Material[scene[i]])
    BY <1>4 DEF Relink
  <2>2. Material[scene[i]] \in Materials
    BY <1>0 DEF Materials
  <2>3. invalid' \subseteq Materials
    BY <1>0, <2>1, <2>2 DEF Link
  <2>4. DrawingTypes'
    BY <1>0, <1>4, <2>3 DEF Relink, DrawingTypes
  <2> QED  BY <1>4, <2>4, BetweenFrames DEF Relink, DrawingInv
<1>5. CASE BeginFrame
  <2>1. /\ phase = "messages" /\ phase' = "frame" /\ gl' = Cleared(gl) /\ moved' = FALSE
        /\ drawn' = 0 /\ calls' = <<>>
        /\ UNCHANGED <<scene, members, built, invalid, uploads>>
    BY <1>5 DEF BeginFrame
  <2>2. /\ gl' \in GLState /\ gl'.crashed = gl.crashed /\ gl'.material = None /\ gl'.drawable = None
    BY <1>0, <2>1 DEF Cleared, GLState
  <2>3. DrawingTypes'
    <3>1. 0 \in 0..built /\ <<>> \in Seq(CallState)
      BY <1>0
    <3> QED  BY <1>0, <2>1, <2>2, <3>1 DEF DrawingTypes
  <2>4. ToSet(calls') = {}
    BY <2>1 DEF ToSet
  <2>5. GoodRecord(scene', invalid', gl', moved', drawn')
    BY <2>1, <2>2 DEF GoodRecord, MaterialOnRecord, DrawableOnRecord, ProgramIsFresh, NoneOnRecord
  <2> QED  BY <2>1, <2>2, <2>3, <2>4, <2>5 DEF DrawingInv, CrashesWithoutDrawable
<1>6. CASE DrawNext
  BY <1>6, DrawNextKeeps
<1>7. CASE EndFrame
  <2>1. /\ phase = "frame" /\ phase' = "messages" /\ drawn' = 0 /\ calls' = <<>>
        /\ UNCHANGED <<scene, members, built, invalid, uploads, gl, moved>>
    BY <1>7 DEF EndFrame
  <2>2. DrawingTypes'
    BY <1>0, <2>1 DEF DrawingTypes
  <2>3. ToSet(calls') = {}
    BY <2>1 DEF ToSet
  <2> QED  BY <2>1, <2>2, <2>3 DEF DrawingInv, CrashesWithoutDrawable
<1>8. CASE MoveCamera
  <2>1. /\ phase # "crashed" /\ moved' = TRUE
        /\ gl' = [gl EXCEPT !.stale = {Material[scene[i]] : i \in 1..built}]
        /\ UNCHANGED <<scene, members, built, invalid, uploads, phase, drawn, calls>>
    BY <1>8 DEF MoveCamera
  <2>2. {Material[scene[i]] : i \in 1..built} \subseteq Materials
    BY <1>0 DEF Materials
  <2>3. /\ gl' \in GLState /\ gl'.crashed = gl.crashed /\ gl'.material = gl.material
        /\ gl'.drawable = gl.drawable /\ gl'.program = gl.program /\ gl'.vao = gl.vao
    BY <1>0, <2>1, <2>2 DEF GLState
  <2>4. DrawingTypes'
    BY <1>0, <2>1, <2>3 DEF DrawingTypes
  <2>5. phase = "frame" => GoodRecord(scene', invalid', gl', moved', drawn')
    BY <2>1, <2>3 DEF DrawingInv, GoodRecord, MaterialOnRecord, DrawableOnRecord, ProgramIsFresh,
                      NoneOnRecord
  <2>6. \A c : FreshCall(invalid', c, moved')
    BY <2>1 DEF FreshCall
  <2> QED  BY <2>1, <2>3, <2>4, <2>5, <2>6 DEF DrawingInv, CrashesWithoutDrawable
<1> QED  BY <1>1, <1>2, <1>3, <1>4, <1>5, <1>6, <1>7, <1>8 DEF DrawingNext

(* Nothing is built, nothing drawn.                                        *)
LEMMA DrawingInitInv == DrawingAssumption /\ DrawingInit => DrawingInv
PROOF
<1> SUFFICES ASSUME DrawingAssumption, DrawingInit PROVE DrawingInv
  OBVIOUS
<1>1. gl \in GLState /\ ~gl.crashed
  BY DEF DrawingInit, GLState
<1>2. DrawingTypes
  <2>1. 0 \in 0..SceneSize /\ 0 \in 0..0 /\ <<>> \in Seq(CallState)
    BY DEF DrawingAssumption
  <2> QED  BY <1>1, <2>1 DEF DrawingInit, DrawingTypes
<1>3. ToSet(calls) = {}
  BY DEF DrawingInit, ToSet
<1> QED  BY <1>1, <1>2, <1>3 DEF DrawingInit, DrawingInv, CrashesWithoutDrawable

(* What the invariant says of the calls is what they promise.              *)
LEMMA OwnIsDrawnWithOwn == DrawingAssumption /\ DrawingInv => DrawnWithOwn
PROOF
<1> SUFFICES ASSUME DrawingAssumption, DrawingInv PROVE DrawnWithOwn
  OBVIOUS
<1>1. /\ scene \in [1..SceneSize -> Renderer] /\ SceneSize \in Nat /\ drawn \in 0..SceneSize
      /\ \A i, j \in 1..SceneSize : scene[i] = scene[j] => i = j
  BY DEF DrawingInv, DrawingTypes, DrawingAssumption, IsInjective
<1>2. DrawsWithOwn
  <2> SUFFICES ASSUME NEW c \in ToSet(calls), NEW i, i = CHOOSE n \in 1..drawn : scene[n] = c.by
               PROVE  /\ \/ c.program = Material[c.by] \/ Material[c.by] \in invalid
                         \/ Between(i, Having(Material[c.by]), {"heightmap"})
                      /\ \/ c.vao = Drawable(c.by)
                         \/ Between(i, Showing(Drawable(c.by)), {"heightmap", "out"})
    BY DEF DrawsWithOwn
  <2>1. PICK k \in 1..drawn : OwnCall(scene, invalid, c, k)
    BY DEF DrawingInv
  <2>2. scene[k] = c.by
    BY <2>1 DEF OwnCall
  <2>3. i \in 1..drawn /\ scene[i] = c.by
    BY <2>2
  <2>4. i = k
    BY <1>1, <2>2, <2>3
  <2>5. \A j \in 1..(i - 1) : scene[j] \in Renderer
    BY <1>1, <2>3
  <2>6. OwnProgram(scene, invalid, c, i) /\ OwnVertices(scene, c, i)
    BY <2>1, <2>4 DEF OwnCall
  <2>7. c.program = Material[c.by] \/ Material[c.by] \in invalid
            \/ Between(i, Having(Material[c.by]), {"heightmap"})
    BY <2>5, <2>6 DEF OwnProgram, Between, Having
  <2>8. c.vao = Drawable(c.by) \/ Between(i, Showing(Drawable(c.by)), {"heightmap", "out"})
    BY <2>5, <2>6 DEF OwnVertices, Between, Showing
  <2> QED  BY <2>7, <2>8
<1>3. SeesCamera
  BY DEF DrawingInv, SeesCamera, FreshCall
<1> QED  BY <1>2, <1>3 DEF DrawingInv, DrawnWithOwn

(* So it is at any time.                                                   *)
LEMMA DrawingInvariant ==
    ASSUME DrawingAssumption
    PROVE  DrawingSpec => []DrawingInv
PROOF
<1>1. DrawingInit => DrawingInv
  BY DrawingInitInv
<1>2. DrawingInv /\ [DrawingNext]_drawing => DrawingInv'
  BY DrawingStep
<1> QED  BY <1>1, <1>2, PTL DEF DrawingSpec

(* The state of GL, the record of it and the calls keep their types.       *)
THEOREM DrawingKeepsTypes ==
    ASSUME DrawingAssumption
    PROVE  DrawingSpec => []DrawingTypes
PROOF
<1>1. DrawingInv => DrawingTypes
  BY DEF DrawingInv
<1> QED  BY <1>1, DrawingInvariant, PTL

(* For any renderers of these kinds in any order, with any materials and   *)
(* meshes, shared or not, any of which may fail to link: each draws with   *)
(* its own, but for those the record of the context is wrong about, every  *)
(* call sees the camera where it is while that stays there, and a frame    *)
(* crashes only where none that records its drawable came before           *)
(* (bindable.c, material.c, the draw functions of the renderers).          *)
THEOREM EachDrawsItsOwn ==
    ASSUME DrawingAssumption
    PROVE  DrawingSpec => []DrawnWithOwn
PROOF
<1>1. DrawingInv => DrawnWithOwn
  BY OwnIsDrawnWithOwn
<1> QED  BY <1>1, DrawingInvariant, PTL
-----------------------------------------------------------------------------
\* What the state of GL is made of
TextureName == {"context", "front", "result", "none", "gbuffer"}
Shader == {"tone", "across", "down", "torn"}
LayerType == [by : Pass, depth : BOOLEAN, cull : BOOLEAN, blend : BOOLEAN]
Image == [layers : Seq(LayerType), filters : Seq(Shader), region : Nat, blend : BOOLEAN]
GLTextures == [TextureName -> [size : Nat, image : Image]]
MachineState == [draw : Target, read : Target, view : Nat, unit : TextureName,
            depth : BOOLEAN, cull : BOOLEAN, blend : BOOLEAN, tex : GLTextures,
            screen : Seq(Image \cup LayerType), loop : BOOLEAN]

PassStates ==
    /\ row \in [1..SceneLength -> Pass] /\ IsInjective(row)
    /\ hdr \in BOOLEAN /\ default \in BOOLEAN /\ whole \in BOOLEAN
    /\ width \in Width /\ builds \in 0..MaxBuilds /\ done \in 0..SceneLength
    /\ stage \in {"messages", "frame", "undefined"}
    /\ machine \in MachineState

\* The framebuffers are as large as the context, but after a failed resize
BuffersFit(g) ==
    /\ ~default => g.tex["context"].size = width
    /\ hdr /\ whole /\ builds > 0 => /\ g.tex["front"].size = width
                                     /\ g.tex["result"].size = width

\* What is switched on between passes
SwitchesInv(g) ==
    /\ g.blend => "transparency" \in ToSet(row)
    /\ ~default /\ ToSet(row) \cap {"lights", "gui", "out"} = {} => g.depth

\* What an action finds of a layer that was drawn
GoodLayer(l) ==
    /\ l.blend => l.by \in {"lights", "transparency"} \/ "transparency" \in ToSet(row)
    /\ l.by = "geometry" => l.depth /\ l.cull /\ ~l.blend
    /\ l.by = "plain" /\ ~default /\ ToSet(row) \cap {"lights", "gui", "out"} = {} => l.depth

LayersInv(g) ==
    /\ default => \A i \in DOMAIN g.screen : "by" \in DOMAIN g.screen[i] => GoodLayer(g.screen[i])
    /\ ~default => LET s == g.tex["context"].image.layers IN \A i \in DOMAIN s : GoodLayer(s[i])

\* What is in the framebuffer of the context after n passes
Holds(g, n) ==
    LET image == g.tex["context"].image
    IN  /\ DOMAIN image.layers = 1..n /\ \A i \in 1..n : image.layers[i].by = row[i]
        /\ image.filters = <<>> /\ image.region = width

\* ShowsTheScene of what is shown
ShowsIn(picture) ==
    picture # <<>> /\ ~default /\ whole =>
        LET first == CHOOSE i \in DOMAIN row : row[i] = "out"
            Whole(image) == [i \in DOMAIN image.layers |-> image.layers[i].by]
                                = SubSeq(row, 1, first - 1)
        IN  /\ Whole(picture[1]) /\ picture[1].filters = <<"tone">> /\ picture[1].region = width
            /\ Len(picture) = IF hdr THEN 1 + Levels ELSE 1
            /\ hdr /\ Halved[Levels - 1] > 0 =>
                  \A i \in 1..Levels :
                      /\ Whole(picture[i + 1]) /\ picture[i + 1].filters = <<"across", "down">>
                      /\ picture[i + 1].region = Halved[i - 1] /\ picture[i + 1].blend

OutAhead == \A i \in 1..done : row[i] # "out"

FrameInv(g) ==
    /\ g.view = width
    /\ default => g.draw = "screen"
    /\ ~default => g.draw \in {"context", "screen"}
    /\ ~default /\ OutAhead => g.draw = "context" /\ (whole => Holds(g, done))

PassesInv ==
    /\ PassStates
    /\ BuffersFit(machine) /\ SwitchesInv(machine) /\ LayersInv(machine) /\ NoFeedback
    /\ stage = "frame" => FrameInv(machine)
    /\ stage = "messages" => shown = <<>>
    /\ OutAhead => shown = <<>>
    /\ ShowsTheScene
-----------------------------------------------------------------------------
(* Binding a framebuffer changes nothing else.                             *)
LEMMA BindTypes ==
    ASSUME NEW g \in MachineState, NEW t \in Target, NEW u \in BOOLEAN, NEW v \in BOOLEAN,
           default \in BOOLEAN
    PROVE  /\ BindBoth(g, t) \in MachineState /\ FboBind(g, t, u, v) \in MachineState
           /\ BindFB(g) \in MachineState /\ BindForOutpass(g) \in MachineState
PROOF
  BY DEF BindBoth, FboBind, BindFB, BindForOutpass, MachineState, Target

(* An empty image, and a torn one, are images.                             *)
LEMMA BlankTypes ==
    /\ Blank \in Image /\ Torn \in Image
    /\ Blank.layers = <<>> /\ Blank.filters = <<>>
    /\ \A w \in Nat : /\ [Blank EXCEPT !.region = w] \in Image
                      /\ [Torn EXCEPT !.region = w] \in Image
                      /\ [Blank EXCEPT !.region = w].layers = <<>>
                      /\ [Blank EXCEPT !.region = w].filters = <<>>
                      /\ [Blank EXCEPT !.region = w].region = w
                      /\ Fresh(w) \in [size : Nat, image : Image]
                      /\ Fresh(w).size = w /\ Fresh(w).image = Blank
PROOF
<1>1. <<>> \in Seq(LayerType) /\ <<>> \in Seq(Shader) /\ <<"torn">> \in Seq(Shader)
  BY DEF Shader
<1>2. Blank \in Image /\ Blank.layers = <<>> /\ Blank.filters = <<>>
  BY <1>1 DEF Blank, Image
<1>3. Torn \in Image
  BY <1>1, <1>2 DEF Torn, Image
<1> QED  BY <1>2, <1>3 DEF Fresh, Image

(* A texture sampled in its region is its image.                           *)
LEMMA SampledTypes ==
    ASSUME NEW g \in MachineState, NEW t \in TextureName, NEW w \in Nat
    PROVE  /\ Sampled(g.tex[t], w) \in Image
           /\ g.tex[t].image.region = w /\ w > 0 => Sampled(g.tex[t], w) = g.tex[t].image
PROOF
<1>1. g.tex[t].image \in Image
  BY DEF MachineState, GLTextures
<1> QED  BY <1>1, BlankTypes DEF Sampled

\* p has what g has but a texture or the screen, where an image of w by w was put
SameSwitches(g, p) ==
    /\ p.draw = g.draw /\ p.read = g.read /\ p.view = g.view /\ p.unit = g.unit
    /\ p.depth = g.depth /\ p.cull = g.cull /\ p.blend = g.blend

PutInto(g, p, image, w) ==
    /\ p \in MachineState
    /\ g.draw = "screen" => p.screen = Append(g.screen, image)
    /\ g.draw # "screen" => p.screen = g.screen
    /\ \A t \in TextureName : /\ p.tex[t].size = g.tex[t].size
                              /\ t # g.draw => p.tex[t] = g.tex[t]
    /\ g.draw # "screen" /\ Complete(g.draw) /\ w > 0 /\ w <= g.tex[g.draw].size =>
          p.tex[g.draw].image = [image EXCEPT !.region = w]

(* An image that is put somewhere is put nowhere else, and changes nothing *)
(* else.                                                                   *)
LEMMA PutDoes ==
    ASSUME NEW g \in MachineState, NEW image \in Image, NEW w \in Nat
    PROVE  LET p == Put(g, image, w)
           IN  PutInto(g, p, image, w) /\ SameSwitches(g, p) /\ p.loop = g.loop
PROOF
<1>1. CASE g.draw = "screen"
  <2>1. Append(g.screen, image) \in Seq(Image \cup LayerType)
    BY SetOfAppend DEF MachineState
  <2>2. Put(g, image, w) = [g EXCEPT !.screen = Append(g.screen, image)]
    BY <1>1 DEF Put
  <2> QED  BY <1>1, <2>1, <2>2 DEF MachineState, PutInto, SameSwitches
<1>2. CASE g.draw # "screen" /\ (w = 0 \/ ~Complete(g.draw))
  <2>1. Put(g, image, w) = g
    BY <1>2 DEF Put
  <2> QED  BY <1>2, <2>1 DEF PutInto, SameSwitches
<1>3. CASE g.draw # "screen" /\ w # 0 /\ Complete(g.draw)
  <2>1. g.draw \in TextureName /\ g.tex \in GLTextures
    BY <1>3 DEF MachineState, Target, TextureName
  <2>2. PICK i \in Image : /\ i = IF w > g.tex[g.draw].size THEN [Torn EXCEPT !.region = w]
                                  ELSE [image EXCEPT !.region = w]
    BY BlankTypes DEF Image
  <2>3. PICK x : x = [g.tex EXCEPT ![g.draw].image = i]
    OBVIOUS
  <2>4. Put(g, image, w) = [g EXCEPT !.tex = x]
    BY <1>3, <2>2, <2>3 DEF Put
  <2>5. /\ x \in GLTextures
        /\ \A t \in TextureName : x[t].size = g.tex[t].size /\ (t # g.draw => x[t] = g.tex[t])
        /\ x[g.draw].image = i
    BY <2>1, <2>3 DEF GLTextures
  <2>6. [g EXCEPT !.tex = x] \in MachineState
    BY <2>5 DEF MachineState
  <2>7. w > 0 /\ g.tex[g.draw].size \in Nat
    BY <1>3, <2>1 DEF GLTextures
  <2> QED  BY <1>3, <2>2, <2>4, <2>5, <2>6, <2>7 DEF MachineState, PutInto, SameSwitches
<1> QED  BY <1>1, <1>2, <1>3

\* image is made of the texture that is bound
FilteredFrom(g, image, shader, w) ==
    LET from == g.tex[g.unit].image
    IN  /\ image.blend = g.blend
        /\ from.region = w /\ w > 0 => /\ image.layers = from.layers /\ image.region = w
                                       /\ image.filters = Append(from.filters, shader)

(* A filter puts what it made of the texture that is bound.                *)
LEMMA FilterDoes ==
    ASSUME NEW g \in MachineState, NEW shader \in Shader, NEW w \in Nat
    PROVE  LET f == Filter(g, shader, w)
           IN  /\ SameSwitches(g, f) /\ f.loop = (g.loop \/ g.unit = g.draw)
               /\ \E image \in Image : /\ PutInto(g, f, image, g.view)
                                       /\ FilteredFrom(g, image, shader, w)
PROOF
<1>1. PICK from \in Image : /\ from = Sampled(g.tex[g.unit], w)
                            /\ g.tex[g.unit].image.region = w /\ w > 0 => from = g.tex[g.unit].image
  BY SampledTypes DEF MachineState
<1>2. PICK h : h = [g EXCEPT !.loop = @ \/ g.unit = g.draw]
  OBVIOUS
<1>3. PICK image : image = [from EXCEPT !.filters = Append(@, shader), !.blend = g.blend]
  OBVIOUS
<1>4. Filter(g, shader, w) = Put(h, image, g.view)
  BY <1>1, <1>2, <1>3 DEF Filter
<1>5. /\ h \in MachineState /\ h.draw = g.draw /\ h.read = g.read /\ h.view = g.view
      /\ h.unit = g.unit /\ h.depth = g.depth /\ h.cull = g.cull /\ h.blend = g.blend
      /\ h.tex = g.tex /\ h.screen = g.screen
  BY <1>2 DEF MachineState
<1>6. h.loop = (g.loop \/ g.unit = g.draw)
  BY <1>2, Zenon DEF MachineState
<1>7. Append(from.filters, shader) \in Seq(Shader) /\ g.blend \in BOOLEAN /\ g.view \in Nat
  BY DEF Image, MachineState
<1>8. /\ image \in Image /\ image.blend = g.blend /\ image.layers = from.layers
      /\ image.region = from.region /\ image.filters = Append(from.filters, shader)
  BY <1>3, <1>7 DEF Image
<1>9. PICK p : p = Put(h, image, g.view)
  OBVIOUS
<1>10. PutInto(h, p, image, g.view) /\ SameSwitches(h, p) /\ p.loop = h.loop
  BY <1>5, <1>7, <1>8, <1>9, PutDoes
<1>11. PutInto(g, p, image, g.view) /\ SameSwitches(g, p)
  BY <1>5, <1>10 DEF PutInto, SameSwitches
<1>12. p.loop = (g.loop \/ g.unit = g.draw)
  BY <1>6, <1>10, Zenon
<1>13. FilteredFrom(g, image, shader, w)
  BY <1>1, <1>8 DEF FilteredFrom
<1>14. Filter(g, shader, w) = p
  BY <1>4, <1>9
<1> QED  BY <1>8, <1>11, <1>12, <1>13, <1>14
-----------------------------------------------------------------------------
(* The widths of the blurs are numbers, each half of the one before.       *)
LEMMA HalvedTypes ==
    ASSUME PassesAssumption, width \in Width
    PROVE  /\ Halved \in [0..Levels -> Nat] /\ Halved[0] = width
           /\ \A i \in 1..Levels : Halved[i] = Halved[i - 1] \div 2
PROOF
<1>1. Levels \in Nat /\ width \in Nat
  BY DEF PassesAssumption
<1>2. PICK F : F = [k \in 1..Levels |-> [a \in Nat |-> a \div 2]]
  OBVIOUS
<1>3. F \in [1..Levels -> [Nat -> Nat]] /\ \A k \in 1..Levels : \A a \in Nat : F[k][a] = a \div 2
  BY <1>2
<1>4. PICK f \in [0..Levels -> Nat] : f[0] = width /\ \A k \in 1..Levels : f[k] = F[k][f[k - 1]]
  <2>1. PICK f \in [0..Levels -> Nat] : Recursion(f, Levels, width, F)
    BY <1>1, <1>3, RecursionDefines
  <2> QED  BY <2>1 DEF Recursion
<1>5. \A k \in 1..Levels : k \in 0..Levels /\ k - 1 \in 0..Levels /\ k # 0 /\ f[k] = f[k - 1] \div 2
  <2> TAKE k \in 1..Levels
  <2>1. k \in 0..Levels /\ k - 1 \in 0..Levels /\ k # 0
    BY <1>1
  <2>2. f[k - 1] \in Nat
    BY <1>4, <2>1
  <2>3. F[k][f[k - 1]] = f[k - 1] \div 2
    BY <1>3, <2>2
  <2> QED  BY <1>4, <2>1, <2>3
<1>6. f = [k \in 0..Levels |-> IF k = 0 THEN width ELSE f[k - 1] \div 2]
  <2>1. ASSUME NEW k \in 0..Levels
        PROVE  f[k] = IF k = 0 THEN width ELSE f[k - 1] \div 2
    <3>1. CASE k # 0
      <4>1. k \in 1..Levels
        BY <3>1, <1>1
      <4> QED  BY <3>1, <4>1, <1>5
    <3> QED  BY <3>1, <1>4
  <2> QED  BY <2>1
<1>7. PICK h : h = Halved
  OBVIOUS
<1>8. h = [k \in 0..Levels |-> IF k = 0 THEN width ELSE h[k - 1] \div 2]
  BY <1>6, <1>7 DEF Halved
<1>9. h[0] = width /\ \A k \in 1..Levels : h[k] = h[k - 1] \div 2
  <2>1. 0 \in 0..Levels
    BY <1>1
  <2> QED  BY <1>5, <1>8, <2>1
<1>10. \A k \in 0..Levels : h[k] = f[k]
  <2> DEFINE Bad == {k \in 0..Levels : h[k] # f[k]}
  <2> SUFFICES ASSUME Bad # {} PROVE FALSE
    OBVIOUS
  <2>1. Bad \in SUBSET Nat
    OBVIOUS
  <2>2. PICK m \in Bad : \A y \in Bad : m <= y
    <3> HIDE DEF Bad
    <3> QED  BY <2>1, LeastNumber
  <2>3. m \in 0..Levels /\ h[m] # f[m] /\ m # 0
    BY <1>4, <1>9
  <2>4. m \in 1..Levels /\ m - 1 \in 0..Levels /\ m - 1 \notin Bad
    BY <1>1, <2>2, <2>3
  <2> QED  BY <1>5, <1>9, <2>3, <2>4
<1>11. h = [k \in 0..Levels |-> f[k]]
  BY <1>8, <1>10
<1>12. h = f
  BY <1>11
<1> QED  BY <1>7, <1>9, <1>12, <1>4

(* While the last of them is not empty, none is, nor larger than the       *)
(* context.                                                                *)
LEMMA HalvedFits ==
    ASSUME PassesAssumption, width \in Width, Halved[Levels - 1] > 0
    PROVE  \A i \in 0..(Levels - 1) : Halved[i] > 0 /\ Halved[i] <= width
PROOF
<1>1. Levels \in Nat /\ Levels - 1 \in Nat /\ width \in Nat
  BY DEF PassesAssumption
<1>2. PICK h : h = Halved
  OBVIOUS
<1>3. /\ h \in [0..Levels -> Nat] /\ h[0] = width /\ h[Levels - 1] > 0
      /\ \A i \in 1..Levels : h[i] = h[i - 1] \div 2
  BY <1>2, HalvedTypes
<1>4. \A i \in 1..Levels : h[i] <= h[i - 1] /\ (h[i] > 0 => h[i - 1] > 0)
  <2> TAKE i \in 1..Levels
  <2>1. PICK a, b \in Nat : a = h[i - 1] /\ b = h[i]
    <3>1. i \in 0..Levels /\ i - 1 \in 0..Levels
      BY <1>1
    <3>2. h[i - 1] \in Nat /\ h[i] \in Nat
      BY <1>3, <3>1
    <3> QED  BY <3>2
  <2>2. b = a \div 2
    BY <1>3, <2>1
  <2>3. b <= a /\ (b > 0 => a > 0)
    BY <2>2
  <2> QED  BY <2>1, <2>3
<1>5. \A i \in 0..(Levels - 1) : h[i] <= width
  <2> DEFINE Bad == {i \in 0..(Levels - 1) : ~(h[i] <= width)}
  <2> SUFFICES ASSUME Bad # {} PROVE FALSE
    OBVIOUS
  <2>1. Bad \in SUBSET Nat
    OBVIOUS
  <2>2. PICK m \in Bad : \A y \in Bad : m <= y
    <3> HIDE DEF Bad
    <3> QED  BY <2>1, LeastNumber
  <2>3. m \in 0..(Levels - 1) /\ ~(h[m] <= width) /\ m # 0
    BY <1>1, <1>3
  <2>4. m \in 1..Levels /\ m - 1 \in 0..(Levels - 1) /\ m - 1 \notin Bad
    BY <1>1, <2>2, <2>3
  <2>5. h[m - 1] <= width /\ h[m] <= h[m - 1]
    BY <1>4, <2>4
  <2>6. h[m] \in Nat /\ h[m - 1] \in Nat
    BY <1>1, <1>3, <2>3, <2>4
  <2> QED  BY <1>1, <2>3, <2>5, <2>6
<1>6. \A i \in 0..(Levels - 1) : h[i] > 0
  <2> DEFINE Bad == {i \in 0..(Levels - 1) : ~(h[Levels - 1 - i] > 0)}
  <2>1. Bad = {}
    <3> SUFFICES ASSUME Bad # {} PROVE FALSE
      OBVIOUS
    <3>1. Bad \in SUBSET Nat
      OBVIOUS
    <3>2. PICK m \in Bad : \A y \in Bad : m <= y
      <4> HIDE DEF Bad
      <4> QED  BY <3>1, LeastNumber
    <3>3. m \in 0..(Levels - 1) /\ ~(h[Levels - 1 - m] > 0) /\ m # 0
      BY <1>1, <1>3
    <3>4. m - 1 \in 0..(Levels - 1) /\ m - 1 \notin Bad
      BY <1>1, <3>2, <3>3
    <3>5. Levels - 1 - (m - 1) \in 1..Levels /\ Levels - 1 - (m - 1) - 1 = Levels - 1 - m
      BY <1>1, <3>3
    <3>6. h[Levels - 1 - (m - 1)] > 0
      BY <3>4
    <3> QED  BY <1>4, <3>3, <3>5, <3>6
  <2>2. ASSUME NEW i \in 0..(Levels - 1)
        PROVE  h[i] > 0
    <3>1. Levels - 1 - i \in 0..(Levels - 1) /\ Levels - 1 - (Levels - 1 - i) = i
      BY <1>1
    <3>2. Levels - 1 - i \notin Bad
      BY <2>1
    <3> QED  BY <3>1, <3>2
  <2> QED  BY <2>2
<1> QED  BY <1>2, <1>5, <1>6
-----------------------------------------------------------------------------
\* b is g with one more image on the screen
OnScreen(g, b) ==
    /\ b \in MachineState
    /\ b.draw = "screen" /\ b.view = width /\ b.depth = g.depth /\ b.cull = g.cull
    /\ b.blend = FALSE /\ b.loop = g.loop
    /\ b.tex["context"] = g.tex["context"]
    /\ \A t \in TextureName : b.tex[t].size = g.tex[t].size

\* The framebuffer of the context is a picture that can be blurred in a width of w
Blurable(g, w) ==
    /\ ~default /\ whole /\ width > 0 /\ w > 0
    /\ g.tex["context"].image.region = width /\ g.tex["context"].image.filters = <<>>
    /\ w <= g.tex["front"].size /\ w <= g.tex["result"].size

BlurOf(g, image, w) ==
    /\ image.layers = g.tex["context"].image.layers /\ image.region = w
    /\ image.filters = <<"across", "down">> /\ image.blend = TRUE

(* A blur adds an image to the screen, of what is in the context, and      *)
(* leaves everything else as it is, but the two buffers it uses.           *)
LEMMA BlurDoes ==
    ASSUME PassesAssumption, width \in Width, default \in BOOLEAN,
           NEW g \in MachineState, NEW i \in 0..(Levels - 1)
    PROVE  /\ OnScreen(g, Blur(g, i))
           /\ \E image \in Image : /\ Blur(g, i).screen = Append(g.screen, image)
                                   /\ Blurable(g, Halved[i]) => BlurOf(g, image, Halved[i])
PROOF
<1>1. PICK w \in Nat : w = Halved[i]
  <2>1. Halved \in [0..Levels -> Nat] /\ i \in 0..Levels
    BY HalvedTypes DEF PassesAssumption
  <2> QED  BY <2>1
<1>2. PICK a : a = BindForOutpass(FboBind(g, "front", TRUE, FALSE))
  OBVIOUS
<1>3. /\ a \in MachineState /\ a.draw = "front" /\ a.read = IF default THEN "screen" ELSE "context"
      /\ a.depth = g.depth /\ a.cull = g.cull /\ a.loop = g.loop
      /\ a.tex = g.tex /\ a.screen = g.screen
  BY <1>2 DEF BindForOutpass, FboBind, MachineState, Target
<1>4. PICK b : b = Blit(a, w)
  OBVIOUS
<1>5. PICK first \in Image : Blurable(g, w) => /\ first = g.tex["context"].image
                                               /\ PutInto(a, b, first, w)
  <2>1. CASE Blurable(g, w)
    <3>1. a.read = "context" /\ "context" \in TextureName /\ width \in Nat
      BY <1>3, <2>1 DEF Blurable, TextureName, PassesAssumption
    <3>2. PICK s \in Image : s = Sampled(a.tex["context"], width) /\ s = g.tex["context"].image
      BY <1>3, <2>1, <3>1, SampledTypes DEF Blurable
    <3>3. b = Put(a, s, w)
      BY <1>4, <2>1, <3>1, <3>2 DEF Blit, Blurable, Complete
    <3>4. PutInto(a, b, s, w)
      BY <1>3, <3>3, PutDoes
    <3> QED  BY <3>2, <3>4
  <2>2. CASE ~Blurable(g, w)
    BY <2>2, BlankTypes
  <2> QED  BY <2>1, <2>2
<1>6. /\ b \in MachineState /\ b.screen = a.screen /\ b.tex["context"] = a.tex["context"]
      /\ \A t \in TextureName : b.tex[t].size = a.tex[t].size
      /\ SameSwitches(a, b) /\ b.loop = a.loop
  <2>1. CASE b = a
    BY <1>3, <2>1 DEF SameSwitches
  <2>2. ASSUME NEW image \in Image, b = Put(a, image, w)
        PROVE  /\ b \in MachineState /\ b.screen = a.screen
               /\ b.tex["context"] = a.tex["context"]
               /\ \A t \in TextureName : b.tex[t].size = a.tex[t].size
               /\ SameSwitches(a, b) /\ b.loop = a.loop
    <3>1. PutInto(a, b, image, w) /\ SameSwitches(a, b) /\ b.loop = a.loop
      BY <1>3, <2>2, PutDoes
    <3> QED  BY <1>3, <3>1 DEF PutInto, TextureName
  <2>3. b = a \/ \E image \in Image : b = Put(a, image, w)
    <3>1. width \in Nat /\ (a.read # "screen" => a.read \in TextureName)
      BY <1>3 DEF PassesAssumption, TextureName
    <3>2. a.read # "screen" => Sampled(a.tex[a.read], width) \in Image
      BY <1>3, <3>1, SampledTypes
    <3> QED  BY <1>4, <3>2, BlankTypes DEF Blit
  <2> QED  BY <2>1, <2>2, <2>3
<1>7. PICK c : c = [FboBind([b EXCEPT !.unit = "front"], "result", TRUE, TRUE) EXCEPT !.view = w]
  OBVIOUS
<1>8. /\ c \in MachineState /\ c.draw = "result" /\ c.unit = "front" /\ c.view = w
      /\ c.depth = b.depth /\ c.cull = b.cull /\ c.loop = b.loop
      /\ c.tex = b.tex /\ c.screen = b.screen
  BY <1>6, <1>7 DEF FboBind, MachineState, Target, TextureName
<1>9. PICK d : d = Filter(c, "across", w)
  OBVIOUS
<1>10. PICK second \in Image : /\ PutInto(c, d, second, w) /\ FilteredFrom(c, second, "across", w)
                               /\ SameSwitches(c, d) /\ d.loop = (c.loop \/ c.unit = c.draw)
  <2>1. "across" \in Shader
    BY DEF Shader
  <2> QED  BY <1>8, <1>9, <2>1, FilterDoes
<1>11. PICK e : e = [BindBoth(d, "screen") EXCEPT !.view = width, !.blend = TRUE, !.unit = "result"]
  OBVIOUS
<1>12. /\ e \in MachineState /\ e.draw = "screen" /\ e.unit = "result" /\ e.view = width
       /\ e.depth = d.depth /\ e.cull = d.cull /\ e.loop = d.loop /\ e.blend = TRUE
       /\ e.tex = d.tex /\ e.screen = d.screen
  BY <1>10, <1>11 DEF BindBoth, MachineState, Target, TextureName, PutInto, PassesAssumption
<1>13. PICK f : f = Filter(e, "down", w)
  OBVIOUS
<1>14. PICK third \in Image : /\ PutInto(e, f, third, width) /\ FilteredFrom(e, third, "down", w)
                              /\ SameSwitches(e, f) /\ f.loop = (e.loop \/ e.unit = e.draw)
  <2>1. "down" \in Shader
    BY DEF Shader
  <2> QED  BY <1>12, <1>13, <2>1, FilterDoes
<1>15. Blur(g, i) = [f EXCEPT !.blend = FALSE]
  BY <1>1, <1>2, <1>4, <1>7, <1>9, <1>11, <1>13 DEF Blur
<1>16. PICK r : r = Blur(g, i)
  OBVIOUS
<1>17. /\ r \in MachineState /\ r.draw = f.draw /\ r.view = f.view /\ r.depth = f.depth
       /\ r.cull = f.cull /\ r.loop = f.loop /\ r.blend = FALSE
       /\ r.tex = f.tex /\ r.screen = f.screen
  BY <1>14, <1>15, <1>16 DEF MachineState, PutInto
<1>18. r.draw = "screen" /\ r.view = width
  BY <1>12, <1>14, <1>17 DEF SameSwitches
<1>19. r.depth = g.depth /\ r.cull = g.cull
  BY <1>3, <1>6, <1>8, <1>10, <1>12, <1>14, <1>17 DEF SameSwitches
<1>20. r.loop = g.loop
  <2>1. c.unit # c.draw /\ e.unit # e.draw
    BY <1>8, <1>12
  <2>2. c.loop = g.loop /\ c.loop \in BOOLEAN
    BY <1>3, <1>6, <1>8 DEF MachineState
  <2>3. d.loop = c.loop
    BY <1>10, <2>1, <2>2, Zenon
  <2>4. e.loop = d.loop /\ e.loop \in BOOLEAN
    BY <1>12 DEF MachineState
  <2>5. f.loop = e.loop
    BY <1>14, <2>1, <2>4, Zenon
  <2> QED  BY <1>17, <2>2, <2>3, <2>4, <2>5, Zenon
<1>21. /\ \A t \in TextureName : r.tex[t].size = g.tex[t].size
       /\ r.tex["context"] = g.tex["context"]
  BY <1>3, <1>6, <1>8, <1>10, <1>12, <1>14, <1>17 DEF PutInto, TextureName
<1>22. r.screen = Append(g.screen, third)
  BY <1>3, <1>6, <1>8, <1>10, <1>12, <1>14, <1>17 DEF PutInto
<1>23. OnScreen(g, r)
  BY <1>17, <1>18, <1>19, <1>20, <1>21, Zenon DEF OnScreen
<1>24. ASSUME Blurable(g, w)
       PROVE  BlurOf(g, third, w)
  <2>1. first = g.tex["context"].image /\ PutInto(a, b, first, w) /\ w > 0
    BY <1>5, <1>24 DEF Blurable
  <2>2. b.tex["front"].image = [first EXCEPT !.region = w]
    BY <1>3, <2>1, <1>24 DEF PutInto, Blurable, Complete
  <2>3. c.tex["front"].image = [first EXCEPT !.region = w]
    BY <2>2, <1>8
  <2>4. /\ second.layers = first.layers /\ second.filters = Append(first.filters, "across")
        /\ second.region = w
    BY <1>8, <1>10, <2>1, <2>3 DEF FilteredFrom, Image
  <2>5. w <= c.tex["result"].size
    BY <1>3, <1>6, <1>8, <1>24 DEF PutInto, Blurable, TextureName
  <2>6. d.tex["result"].image = [second EXCEPT !.region = w]
    BY <1>8, <1>10, <2>1, <2>5 DEF PutInto, Complete
  <2>7. e.tex["result"].image = [second EXCEPT !.region = w]
    BY <2>6, <1>12
  <2>8. /\ third.layers = second.layers /\ third.filters = Append(second.filters, "down")
        /\ third.region = w /\ third.blend = TRUE
    BY <1>12, <1>14, <2>1, <2>7 DEF FilteredFrom, Image
  <2>9. first.filters = <<>>
    BY <2>1, <1>24 DEF Blurable
  <2>10. third.filters = <<"across", "down">>
    <3>1. Append(<<>>, "across") = <<"across">>
      OBVIOUS
    <3>2. Append(<<"across">>, "down") = <<"across", "down">>
      <4>1. /\ <<"across">> \in Seq(Shader) /\ "down" \in Shader /\ Len(<<"across">>) = 1
            /\ <<"across", "down">> \in Seq(Shader) /\ Len(<<"across", "down">>) = 2
        BY DEF Shader
      <4>2. PICK s \in Seq(Shader) : s = Append(<<"across">>, "down")
        BY <4>1, AppendProperties
      <4>3. Len(s) = 2 /\ s[1] = "across" /\ s[2] = "down"
        BY <4>1, <4>2
      <4>4. ASSUME NEW j \in 1..Len(s)
            PROVE  s[j] = <<"across", "down">>[j]
        <5>1. j = 1 \/ j = 2
          BY <4>3
        <5> QED  BY <4>3, <5>1
      <4> QED  BY <4>1, <4>2, <4>3, <4>4, SeqEqual
    <3> QED  BY <2>4, <2>8, <2>9, <3>1, <3>2
  <2> QED  BY <2>1, <2>4, <2>8, <2>10 DEF BlurOf
<1> QED  BY <1>1, <1>16, <1>22, <1>23, <1>24
-----------------------------------------------------------------------------
\* b is what k blurs make of g, which shows one image
Stage(g, b, k) ==
    /\ b \in MachineState
    /\ b.draw = "screen" /\ b.view = width /\ b.depth = g.depth /\ b.cull = g.cull
    /\ b.loop = g.loop /\ (b.blend => g.blend)
    /\ b.tex["context"] = g.tex["context"]
    /\ \A t \in TextureName : b.tex[t].size = g.tex[t].size
    /\ Len(b.screen) = 1 + k /\ b.screen[1] = g.screen[1]
    /\ \A j \in 1..k : /\ b.screen[j + 1] \in Image
                       /\ Blurable(g, Halved[j - 1]) => BlurOf(g, b.screen[j + 1], Halved[j - 1])

(* One more blur is one more stage.                                        *)
LEMMA NextStage ==
    ASSUME PassesAssumption, width \in Width, default \in BOOLEAN,
           NEW g \in MachineState, NEW k \in 0..(Levels - 1), NEW b, Stage(g, b, k)
    PROVE  Stage(g, Blur(b, k), k + 1)
PROOF
<1>1. k \in Nat
  OBVIOUS
<1>2. PICK c : c = Blur(b, k)
  OBVIOUS
<1>3. b \in MachineState
  BY DEF Stage
<1>4. PICK image \in Image : /\ OnScreen(b, c) /\ c.screen = Append(b.screen, image)
                             /\ Blurable(b, Halved[k]) => BlurOf(b, image, Halved[k])
  BY <1>2, <1>3, BlurDoes
<1>5. b.screen \in Seq(Image \cup LayerType) /\ Len(b.screen) = 1 + k
  BY <1>3 DEF MachineState, Stage
<1>6. /\ Len(c.screen) = 1 + (k + 1) /\ c.screen[k + 2] = image
      /\ \A j \in 1..(k + 1) : c.screen[j] = b.screen[j]
  BY <1>1, <1>4, <1>5
<1>7. Blurable(g, Halved[k]) => BlurOf(g, image, Halved[k])
  BY <1>4 DEF Stage, Blurable, BlurOf, TextureName
<1>8. /\ c \in MachineState
      /\ c.draw = "screen" /\ c.view = width /\ c.depth = g.depth /\ c.cull = g.cull
      /\ c.loop = g.loop /\ (c.blend => g.blend)
      /\ c.tex["context"] = g.tex["context"]
      /\ \A t \in TextureName : c.tex[t].size = g.tex[t].size
  BY <1>4, Zenon DEF Stage, OnScreen
<1>9. ASSUME NEW j \in 1..(k + 1)
      PROVE  /\ c.screen[j + 1] \in Image
             /\ Blurable(g, Halved[j - 1]) => BlurOf(g, c.screen[j + 1], Halved[j - 1])
  <2>1. CASE j = k + 1
    <3>1. j + 1 = k + 2 /\ j - 1 = k
      BY <2>1, <1>1
    <3> QED  BY <3>1, <1>4, <1>6, <1>7
  <2>2. CASE j # k + 1
    <3>1. j \in 1..k /\ j + 1 \in 1..(k + 1)
      BY <2>2, <1>1
    <3> QED  BY <3>1, <1>6 DEF Stage
  <2> QED  BY <2>1, <2>2
<1>10. c.screen[1] = g.screen[1]
  <2>1. 1 \in 1..(k + 1)
    BY <1>1
  <2>2. c.screen[1] = b.screen[1]
    BY <1>6, <2>1
  <2> QED  BY <2>2 DEF Stage
<1>11. Stage(g, c, k + 1)
  BY <1>6, <1>8, <1>9, <1>10, Zenon DEF Stage
<1> QED  BY <1>2, <1>11

(* All the blurs together.                                                 *)
LEMMA BlurredDoes ==
    ASSUME PassesAssumption, width \in Width, default \in BOOLEAN,
           NEW g \in MachineState, g.draw = "screen", g.view = width, Len(g.screen) = 1
    PROVE  Stage(g, Blurred(g)[Levels], Levels)
PROOF
<1>1. Levels \in Nat
  BY DEF PassesAssumption
<1>2. \A k \in 1..Levels : k \in 0..Levels /\ k - 1 \in 0..(Levels - 1) /\ k # 0
  BY <1>1
<1>3. \A h \in MachineState : \A i \in 0..(Levels - 1) : Blur(h, i) \in MachineState
  BY BlurDoes DEF OnScreen
<1>4. PICK F : F = [k \in 1..Levels |-> [h \in MachineState |-> Blur(h, k - 1)]]
  OBVIOUS
<1>5. F \in [1..Levels -> [MachineState -> MachineState]]
  BY <1>2, <1>3, <1>4
<1>6. \A k \in 1..Levels : \A h \in MachineState : F[k][h] = Blur(h, k - 1)
  BY <1>4
<1>7. PICK f \in [0..Levels -> MachineState] :
         f[0] = g /\ \A k \in 1..Levels : f[k] = F[k][f[k - 1]]
  <2>1. PICK f \in [0..Levels -> MachineState] : Recursion(f, Levels, g, F)
    BY <1>1, <1>5, RecursionDefines
  <2> QED  BY <2>1 DEF Recursion
<1>8. f = [k \in 0..Levels |-> IF k = 0 THEN g ELSE Blur(f[k - 1], k - 1)]
  <2>1. ASSUME NEW k \in 0..Levels
        PROVE  f[k] = IF k = 0 THEN g ELSE Blur(f[k - 1], k - 1)
    <3>1. CASE k # 0
      <4>1. k \in 1..Levels /\ k - 1 \in 0..Levels
        BY <3>1, <1>1
      <4>2. f[k - 1] \in MachineState
        BY <4>1, <1>7
      <4> QED  BY <3>1, <4>1, <4>2, <1>6, <1>7
    <3> QED  BY <3>1, <1>7
  <2> QED  BY <2>1
<1>9. PICK A : A = Blurred(g)
  OBVIOUS
<1>10. A = [k \in 0..Levels |-> IF k = 0 THEN g ELSE Blur(A[k - 1], k - 1)]
  BY <1>8, <1>9 DEF Blurred
<1>11. A[0] = g /\ \A k \in 1..Levels : A[k] = Blur(A[k - 1], k - 1)
  <2>1. 0 \in 0..Levels
    BY <1>1
  <2> QED  BY <1>2, <1>10, <2>1
<1>12. Stage(g, A[0], 0)
  <2>1. \A j \in 1..0 : FALSE
    OBVIOUS
  <2> QED  BY <1>11, <2>1 DEF Stage
<1>13. \A k \in 0..Levels : Stage(g, A[k], k)
  <2> DEFINE Bad == {k \in 0..Levels : ~Stage(g, A[k], k)}
  <2> SUFFICES ASSUME Bad # {} PROVE FALSE
    OBVIOUS
  <2>1. Bad \in SUBSET Nat
    OBVIOUS
  <2>2. PICK m \in Bad : \A y \in Bad : m <= y
    <3> HIDE DEF Bad
    <3> QED  BY <2>1, LeastNumber
  <2>3. m \in 0..Levels /\ ~Stage(g, A[m], m) /\ m # 0
    BY <1>12
  <2>4. /\ m \in 1..Levels /\ m - 1 \in 0..Levels /\ m - 1 \in 0..(Levels - 1)
        /\ ~(m <= m - 1) /\ (m - 1) + 1 = m
    BY <1>1, <2>3
  <2>5. Stage(g, A[m - 1], m - 1)
    BY <2>2, <2>4
  <2>6. Stage(g, Blur(A[m - 1], m - 1), (m - 1) + 1)
    BY <2>4, <2>5, NextStage
  <2> QED  BY <1>11, <2>3, <2>4, <2>6
<1> QED  BY <1>1, <1>9, <1>13
-----------------------------------------------------------------------------
\* o is what the output pass makes of g
Output(g, o) ==
    /\ o \in MachineState
    /\ o.draw = (IF hdr /\ ~default THEN "context" ELSE "screen")
    /\ o.view = width /\ o.depth = FALSE /\ o.cull = FALSE
    /\ o.loop = g.loop /\ (o.blend => g.blend)
    /\ o.tex["context"] = g.tex["context"]
    /\ \A t \in TextureName : o.tex[t].size = g.tex[t].size
    /\ Len(o.screen) = IF hdr THEN 1 + Levels ELSE 1
    /\ o.screen[1] \in Image
    /\ LET image == g.tex["context"].image
       IN  ~default /\ image.region = width =>
              /\ o.screen[1].layers = image.layers /\ o.screen[1].region = width
              /\ o.screen[1].filters = Append(image.filters, "tone")
    /\ hdr => \A j \in 1..Levels :
          /\ o.screen[j + 1] \in Image
          /\ Blurable(g, Halved[j - 1]) => BlurOf(g, o.screen[j + 1], Halved[j - 1])

(* The output pass shows the context and its blurs.                        *)
LEMMA OutPassDoes ==
    ASSUME PassesAssumption, width \in Width, default \in BOOLEAN, hdr \in BOOLEAN,
           NEW g \in MachineState, g.view = width
    PROVE  Output(g, OutPass(g))
PROOF
<1>1. width \in Nat /\ width > 0
  BY DEF PassesAssumption
<1>2. PICK c : c = [BindBoth(g, "screen") EXCEPT !.screen = <<>>, !.depth = FALSE, !.cull = FALSE,
                        !.unit = IF default THEN "none" ELSE "context"]
  OBVIOUS
<1>3. /\ c \in MachineState /\ c.draw = "screen" /\ c.view = width
      /\ c.depth = FALSE /\ c.cull = FALSE
      /\ c.loop = g.loop /\ c.blend = g.blend /\ c.tex = g.tex /\ c.screen = <<>>
      /\ c.unit = IF default THEN "none" ELSE "context"
  <2>1. <<>> \in Seq(Image \cup LayerType)
    BY EmptySeq
  <2> QED  BY <1>2, <2>1 DEF BindBoth, MachineState, Target, TextureName
<1>4. PICK t : t = Filter(c, "tone", width)
  OBVIOUS
<1>5. PICK image \in Image : /\ PutInto(c, t, image, width) /\ FilteredFrom(c, image, "tone", width)
                             /\ SameSwitches(c, t) /\ t.loop = (c.loop \/ c.unit = c.draw)
  <2>1. "tone" \in Shader
    BY DEF Shader
  <2> QED  BY <1>1, <1>3, <1>4, <2>1, FilterDoes
<1>6. t.loop = g.loop /\ t.blend = g.blend
  <2>1. c.unit # c.draw /\ c.loop = g.loop /\ g.loop \in BOOLEAN
    BY <1>3 DEF MachineState
  <2>2. t.loop = g.loop
    BY <1>5, <2>1, Zenon
  <2> QED  BY <1>3, <1>5, <2>2 DEF SameSwitches
<1>7. /\ t \in MachineState /\ t.draw = "screen" /\ t.view = width
      /\ t.depth = FALSE /\ t.cull = FALSE
      /\ t.screen = Append(<<>>, image)
      /\ \A u \in TextureName : t.tex[u] = g.tex[u]
  BY <1>3, <1>5 DEF PutInto, SameSwitches, TextureName
<1>8. t.screen[1] = image /\ Len(t.screen) = 1
  BY <1>7
<1>9. LET shown1 == g.tex["context"].image
      IN  ~default /\ shown1.region = width =>
             /\ image.layers = shown1.layers /\ image.region = width
             /\ image.filters = Append(shown1.filters, "tone")
  BY <1>1, <1>3, <1>5 DEF FilteredFrom
<1>10. CASE ~hdr
  <2>1. OutPass(g) = t
    BY <1>2, <1>4, <1>10 DEF OutPass
  <2>2. t.tex["context"] = g.tex["context"] /\ \A u \in TextureName : t.tex[u].size = g.tex[u].size
    BY <1>7 DEF TextureName
  <2>3. /\ t.draw = (IF hdr /\ ~default THEN "context" ELSE "screen")
        /\ Len(t.screen) = IF hdr THEN 1 + Levels ELSE 1
    BY <1>7, <1>8, <1>10
  <2> QED  BY <1>6, <1>7, <1>8, <1>9, <1>10, <2>1, <2>2, <2>3, Zenon DEF Output
<1>11. CASE hdr
  <2>1. PICK b : b = Blurred(t)[Levels]
    OBVIOUS
  <2>2. Stage(t, b, Levels)
    BY <1>7, <1>8, <2>1, BlurredDoes
  <2>3. PICK o : o = BindFB(b)
    OBVIOUS
  <2>4. OutPass(g) = o
    BY <1>2, <1>4, <1>11, <2>1, <2>3 DEF OutPass
  <2>5. b \in MachineState
    BY <2>2 DEF Stage
  <2>6. /\ o \in MachineState /\ o.draw = IF default THEN "screen" ELSE "context"
        /\ o.view = b.view /\ o.depth = b.depth /\ o.cull = b.cull
        /\ o.loop = b.loop /\ o.blend = b.blend /\ o.tex = b.tex /\ o.screen = b.screen
    BY <2>3, <2>5 DEF BindFB, BindBoth, MachineState, Target
  <2>7. /\ o.view = width /\ o.depth = FALSE /\ o.cull = FALSE
        /\ o.loop = g.loop /\ (o.blend => g.blend)
    BY <1>6, <1>7, <2>2, <2>6, Zenon DEF Stage
  <2>8. /\ o.tex["context"] = g.tex["context"]
        /\ \A u \in TextureName : o.tex[u].size = g.tex[u].size
    BY <1>7, <2>2, <2>6 DEF Stage, TextureName
  <2>9. Len(o.screen) = 1 + Levels /\ o.screen[1] = image
    BY <1>8, <2>2, <2>6 DEF Stage
  <2>10. ASSUME NEW j \in 1..Levels
         PROVE  /\ o.screen[j + 1] \in Image
                /\ Blurable(g, Halved[j - 1]) => BlurOf(g, o.screen[j + 1], Halved[j - 1])
    <3>1. /\ o.screen[j + 1] \in Image
          /\ Blurable(t, Halved[j - 1]) => BlurOf(t, o.screen[j + 1], Halved[j - 1])
      BY <2>2, <2>6 DEF Stage
    <3>2. {"context", "front", "result"} \subseteq TextureName
      BY DEF TextureName
    <3> QED  BY <1>7, <3>1, <3>2 DEF Blurable, BlurOf
  <2>11. o.draw = (IF hdr /\ ~default THEN "context" ELSE "screen")
    BY <1>11, <2>6
  <2> QED  BY <1>9, <1>11, <2>4, <2>6, <2>7, <2>8, <2>9, <2>10, <2>11, Zenon DEF Output
<1> QED  BY <1>10, <1>11
-----------------------------------------------------------------------------
\* h differs from g in switches alone
SameImages(g, h) ==
    /\ h \in MachineState /\ h.draw = g.draw /\ h.view = g.view /\ h.loop = g.loop
    /\ h.tex = g.tex /\ h.screen = g.screen

\* r is g with the layer l in the framebuffer that is drawn into
Adds(g, r, l) ==
    /\ r \in MachineState /\ r.draw = g.draw /\ r.view = g.view /\ r.loop = g.loop
    /\ \A t \in TextureName : r.tex[t].size = g.tex[t].size
    /\ g.draw = "screen" => r.tex = g.tex /\ r.screen = Append(g.screen, l)
    /\ g.draw = "context" /\ ~whole => r.tex = g.tex
    /\ g.draw = "context" => r.screen = g.screen
    /\ g.draw = "context" /\ whole =>
          /\ r.tex["context"].image.layers = Append(g.tex["context"].image.layers, l)
          /\ r.tex["context"].image.filters = g.tex["context"].image.filters
          /\ r.tex["context"].image.region = g.tex["context"].image.region

LayerOf(g, p) == [by |-> p, depth |-> g.depth, cull |-> g.cull, blend |-> g.blend]

(* A layer is drawn with the switches of the moment.                       *)
LEMMA LayerDoes ==
    ASSUME NEW g \in MachineState, g.draw \in {"context", "screen"}, NEW h, SameImages(g, h),
           NEW p \in Pass
    PROVE  /\ LayerOf(h, p) \in LayerType /\ Adds(g, Layer(h, p), LayerOf(h, p))
           /\ Layer(h, p).depth = h.depth /\ Layer(h, p).blend = h.blend
PROOF
<1>1. PICK l : /\ l = LayerOf(h, p)
               /\ l = [by |-> p, depth |-> h.depth, cull |-> h.cull, blend |-> h.blend]
  BY DEF LayerOf
<1>2. l \in LayerType
  BY <1>1 DEF SameImages, MachineState, LayerType
<1>3. CASE g.draw = "screen"
  <2>1. Append(g.screen, l) \in Seq(Image \cup LayerType)
    BY <1>2, SetOfAppend DEF MachineState
  <2>2. Layer(h, p) = [h EXCEPT !.screen = Append(g.screen, l)]
    BY <1>1, <1>3 DEF Layer, SameImages
  <2>3. /\ Adds(g, Layer(h, p), l)
        /\ Layer(h, p).depth = h.depth /\ Layer(h, p).blend = h.blend
    BY <1>3, <2>1, <2>2 DEF Adds, SameImages, MachineState
  <2> QED  BY <1>1, <1>2, <2>3
<1>4. CASE g.draw = "context" /\ ~whole
  <2>1. Layer(h, p) = h
    BY <1>4 DEF Layer, SameImages, Complete
  <2>2. Adds(g, Layer(h, p), l)
    BY <1>4, <2>1 DEF Adds, SameImages
  <2> QED  BY <1>1, <1>2, <2>1, <2>2
<1>5. CASE g.draw = "context" /\ whole
  <2>1. "context" \in TextureName /\ g.tex \in GLTextures
    BY DEF MachineState, TextureName
  <2>2. PICK s \in Seq(LayerType) : s = Append(g.tex["context"].image.layers, l)
    <3>1. g.tex["context"].image.layers \in Seq(LayerType)
      BY <2>1 DEF GLTextures, Image
    <3> QED  BY <1>2, <3>1, SetOfAppend
  <2>3. PICK x : x = [g.tex EXCEPT !["context"].image.layers = s]
    OBVIOUS
  <2>4. Layer(h, p) = [h EXCEPT !.tex = x]
    BY <1>1, <1>5, <2>2, <2>3 DEF Layer, SameImages, MachineState, Complete
  <2>5. /\ x \in GLTextures /\ \A t \in TextureName : x[t].size = g.tex[t].size
        /\ x["context"].image.layers = s
        /\ x["context"].image.filters = g.tex["context"].image.filters
        /\ x["context"].image.region = g.tex["context"].image.region
    <3>1. PICK y : y = [g.tex["context"] EXCEPT !.image.layers = s]
      OBVIOUS
    <3>2. g.tex["context"] \in [size : Nat, image : Image]
      BY <2>1 DEF GLTextures
    <3>3. /\ y \in [size : Nat, image : Image] /\ y.size = g.tex["context"].size
          /\ y.image.layers = s
          /\ y.image.filters = g.tex["context"].image.filters
          /\ y.image.region = g.tex["context"].image.region
      BY <2>2, <3>1, <3>2 DEF Image
    <3>4. x = [g.tex EXCEPT !["context"] = y]
      BY <2>1, <2>3, <3>1 DEF GLTextures
    <3> QED  BY <2>1, <3>3, <3>4 DEF GLTextures
  <2>6. /\ Adds(g, Layer(h, p), l)
        /\ Layer(h, p).depth = h.depth /\ Layer(h, p).blend = h.blend
    BY <1>5, <2>2, <2>4, <2>5 DEF Adds, SameImages, MachineState
  <2> QED  BY <1>1, <1>2, <2>6
<1> QED  BY <1>3, <1>4, <1>5

(* Every pass but the last draws one layer, as it should be drawn, and     *)
(* leaves switches as the next may find them.                              *)
LEMMA PassDraws ==
    ASSUME NEW g \in MachineState, g.draw \in {"context", "screen"}, default \in BOOLEAN,
           NEW p \in Pass, p # "out", p \in ToSet(row), SwitchesInv(g)
    PROVE  /\ SwitchesInv(PassDraw(g, p))
           /\ \E l \in LayerType : Adds(g, PassDraw(g, p), l) /\ l.by = p /\ GoodLayer(l)
PROOF
<1>1. CASE p = "geometry"
  <2>1. PICK h : h = [g EXCEPT !.depth = TRUE, !.cull = TRUE, !.blend = FALSE]
    OBVIOUS
  <2>2. SameImages(g, h) /\ h.depth = TRUE /\ h.cull = TRUE /\ h.blend = FALSE
    BY <2>1 DEF SameImages, MachineState
  <2>3. PICK r : r = Layer(h, p)
    OBVIOUS
  <2>4. PICK l \in LayerType : /\ l = LayerOf(h, p)
                               /\ Adds(g, r, l) /\ r.depth = h.depth /\ r.blend = h.blend
    BY <2>2, <2>3, LayerDoes
  <2>5. PassDraw(g, p) = r
    BY <1>1, <2>1, <2>3 DEF PassDraw, GeometryPass
  <2>6. SwitchesInv(r) /\ GoodLayer(l) /\ l.by = p
    BY <1>1, <2>2, <2>4 DEF SwitchesInv, GoodLayer, LayerOf
  <2> QED  BY <2>4, <2>5, <2>6
<1>2. CASE p = "lights"
  <2>1. PICK h : h = [g EXCEPT !.blend = TRUE, !.depth = FALSE]
    OBVIOUS
  <2>2. SameImages(g, h) /\ h.depth = FALSE /\ h.blend = TRUE
    BY <2>1 DEF SameImages, MachineState
  <2>3. PICK r : r = Layer(h, p)
    OBVIOUS
  <2>4. PICK l \in LayerType : /\ l = LayerOf(h, p)
                               /\ Adds(g, r, l)
    BY <2>2, <2>3, LayerDoes
  <2>5. PICK q : q = [r EXCEPT !.blend = FALSE, !.unit = "gbuffer"]
    OBVIOUS
  <2>6. PassDraw(g, p) = q
    BY <1>2, <2>1, <2>3, <2>5 DEF PassDraw, LightsPass
  <2>7. SameImages(r, q) /\ q.blend = FALSE
    BY <2>4, <2>5 DEF SameImages, Adds, MachineState, TextureName
  <2>8. Adds(g, q, l)
    BY <2>4, <2>7 DEF SameImages, Adds
  <2>9. SwitchesInv(q) /\ GoodLayer(l) /\ l.by = p
    BY <1>2, <2>4, <2>7 DEF SwitchesInv, GoodLayer, LayerOf
  <2> QED  BY <2>6, <2>8, <2>9
<1>3. CASE p = "skybox"
  <2>1. PICK h : h = [g EXCEPT !.depth = FALSE, !.cull = FALSE]
    OBVIOUS
  <2>2. SameImages(g, h) /\ h.blend = g.blend
    BY <2>1 DEF SameImages, MachineState
  <2>3. PICK r : r = Layer(h, p)
    OBVIOUS
  <2>4. PICK l \in LayerType : /\ l = LayerOf(h, p)
                               /\ Adds(g, r, l) /\ r.blend = h.blend
    BY <2>2, <2>3, LayerDoes
  <2>5. PICK q : q = [r EXCEPT !.depth = TRUE]
    OBVIOUS
  <2>6. PassDraw(g, p) = q
    BY <1>3, <2>1, <2>3, <2>5 DEF PassDraw, SkyboxPass
  <2>7. SameImages(r, q) /\ q.blend = g.blend /\ q.depth = TRUE
    BY <2>2, <2>4, <2>5 DEF SameImages, Adds, MachineState
  <2>8. Adds(g, q, l)
    BY <2>4, <2>7 DEF SameImages, Adds
  <2>9. SwitchesInv(q) /\ GoodLayer(l) /\ l.by = p
    BY <1>3, <2>2, <2>4, <2>7 DEF SwitchesInv, GoodLayer, LayerOf
  <2> QED  BY <2>6, <2>8, <2>9
<1>4. CASE p = "transparency"
  <2>1. PICK h : h = [g EXCEPT !.blend = TRUE, !.depth = TRUE, !.cull = TRUE]
    OBVIOUS
  <2>2. SameImages(g, h) /\ h.depth = TRUE
    BY <2>1 DEF SameImages, MachineState
  <2>3. PICK r : r = Layer(h, p)
    OBVIOUS
  <2>4. PICK l \in LayerType : /\ l = LayerOf(h, p)
                               /\ Adds(g, r, l) /\ r.depth = h.depth
    BY <2>2, <2>3, LayerDoes
  <2>5. PassDraw(g, p) = r
    BY <1>4, <2>1, <2>3 DEF PassDraw, TransPass
  <2>6. SwitchesInv(r) /\ GoodLayer(l) /\ l.by = p
    BY <1>4, <2>2, <2>4 DEF SwitchesInv, GoodLayer, LayerOf
  <2> QED  BY <2>4, <2>5, <2>6
<1>5. CASE p = "gui"
  <2>1. PICK h : h = [g EXCEPT !.cull = FALSE, !.depth = FALSE]
    OBVIOUS
  <2>2. SameImages(g, h) /\ h.blend = g.blend
    BY <2>1 DEF SameImages, MachineState
  <2>3. PICK r : r = Layer(h, p)
    OBVIOUS
  <2>4. PICK l \in LayerType : /\ l = LayerOf(h, p)
                               /\ Adds(g, r, l) /\ r.blend = h.blend
    BY <2>2, <2>3, LayerDoes
  <2>5. PassDraw(g, p) = r
    BY <1>5, <2>1, <2>3 DEF PassDraw, GuiPass
  <2>6. SwitchesInv(r) /\ GoodLayer(l) /\ l.by = p
    BY <1>5, <2>2, <2>4 DEF SwitchesInv, GoodLayer, LayerOf
  <2> QED  BY <2>4, <2>5, <2>6
<1>6. CASE p = "plain"
  <2>1. PICK r : r = Layer(g, p)
    OBVIOUS
  <2>2. PICK l \in LayerType : /\ l = LayerOf(g, p)
                               /\ Adds(g, r, l) /\ r.blend = g.blend /\ r.depth = g.depth
    <3>1. SameImages(g, g)
      BY DEF SameImages
    <3> QED  BY <2>1, <3>1, LayerDoes
  <2>3. PassDraw(g, p) = r
    BY <1>6, <2>1 DEF PassDraw
  <2>4. SwitchesInv(r) /\ GoodLayer(l) /\ l.by = p
    BY <1>6, <2>2 DEF SwitchesInv, GoodLayer, LayerOf
  <2> QED  BY <2>2, <2>3, <2>4
<1> QED  BY <1>1, <1>2, <1>3, <1>4, <1>5, <1>6 DEF Pass
-----------------------------------------------------------------------------
\* r is g with its buffers for blurs as large as w by w
Rebuilt(g, r, w) ==
    /\ r \in MachineState /\ r.depth = g.depth /\ r.blend = g.blend /\ r.loop = g.loop
    /\ r.screen = g.screen /\ r.tex["context"] = g.tex["context"]
    /\ r.tex["front"].size = w /\ r.tex["result"].size = w

(* Building the buffers, or resizing them, changes no other.               *)
LEMMA BuildDoes ==
    ASSUME NEW g \in MachineState, NEW w \in Nat
    PROVE  Rebuilt(g, FboBuild(FboBuild(g, "front", w), "result", w), w)
PROOF
<1>1. PICK x : x = [g.tex EXCEPT !["front"] = Fresh(w)]
  OBVIOUS
<1>2. PICK y : y = [x EXCEPT !["result"] = Fresh(w)]
  OBVIOUS
<1>3. /\ g.tex \in GLTextures /\ Fresh(w) \in [size : Nat, image : Image] /\ Fresh(w).size = w
  BY BlankTypes DEF MachineState
<1>4. /\ x \in GLTextures /\ y \in GLTextures
      /\ y["front"].size = w /\ y["result"].size = w /\ y["context"] = g.tex["context"]
  BY <1>1, <1>2, <1>3 DEF GLTextures, TextureName
<1>5. PICK f : f = FboBuild(g, "front", w)
  OBVIOUS
<1>6. /\ f \in MachineState /\ f.depth = g.depth /\ f.blend = g.blend /\ f.loop = g.loop
      /\ f.screen = g.screen /\ f.tex = x
  BY <1>1, <1>4, <1>5 DEF FboBuild, BindBoth, MachineState, Target
<1>7. PICK r : r = FboBuild(f, "result", w)
  OBVIOUS
<1>8. /\ r \in MachineState /\ r.depth = f.depth /\ r.blend = f.blend /\ r.loop = f.loop
      /\ r.screen = f.screen /\ r.tex = y
  BY <1>2, <1>4, <1>6, <1>7 DEF FboBuild, BindBoth, MachineState, Target
<1> QED  BY <1>4, <1>5, <1>6, <1>7, <1>8 DEF Rebuilt

(* When a context is set up.                                               *)
LEMMA PassesStart ==
    ASSUME PassesAssumption, PassesInit
    PROVE  PassesInv
PROOF
<1>1. /\ IsInjective(row) /\ row \in [1..SceneLength -> Pass]
      /\ hdr \in BOOLEAN /\ default \in BOOLEAN /\ width \in Width /\ whole = TRUE
      /\ builds = 0 /\ done = 0 /\ stage = "messages" /\ shown = <<>>
  BY DEF PassesInit
<1>2. width \in Nat /\ 0 \in 0..MaxBuilds /\ 0 \in 0..SceneLength
  BY <1>1 DEF PassesAssumption
<1>3. PICK x : x = [t \in {"context", "front", "result", "none", "gbuffer"} |->
                      Fresh(IF t = "context" /\ ~default THEN width ELSE 0)]
  OBVIOUS
<1>4. /\ x \in GLTextures /\ (~default => x["context"].size = width)
      /\ x["context"].image.layers = <<>>
  <2>1. \A w \in Nat : /\ Fresh(w) \in [size : Nat, image : Image] /\ Fresh(w).size = w
                       /\ Fresh(w).image.layers = <<>>
    BY BlankTypes
  <2> QED  BY <1>2, <1>3, <2>1 DEF GLTextures, TextureName
<1>5. machine = [draw |-> IF default THEN "screen" ELSE "context",
            read |-> IF default THEN "screen" ELSE "context",
            view |-> 0, unit |-> "none", depth |-> ~default, cull |-> FALSE, blend |-> FALSE,
            tex |-> x, screen |-> <<>>, loop |-> FALSE]
  BY <1>3 DEF PassesInit
<1>6. <<>> \in Seq(Image \cup LayerType)
  BY EmptySeq
<1>7. /\ machine \in MachineState
      /\ machine.blend = FALSE /\ machine.depth = ~default /\ machine.loop = FALSE
      /\ machine.screen = <<>> /\ machine.tex = x
  BY <1>1, <1>4, <1>5, <1>6 DEF MachineState, Target, TextureName
<1>8. PassStates
  BY <1>1, <1>2, <1>7 DEF PassStates
<1>9. BuffersFit(machine) /\ SwitchesInv(machine) /\ NoFeedback
  <2>1. BuffersFit(machine)
    BY <1>1, <1>4, <1>7 DEF BuffersFit
  <2>2. SwitchesInv(machine) /\ NoFeedback
    BY <1>7, Zenon DEF SwitchesInv, NoFeedback
  <2> QED  BY <2>1, <2>2
<1>10. LayersInv(machine)
  <2>1. DOMAIN machine.screen = {} /\ DOMAIN machine.tex["context"].image.layers = {}
    BY <1>4, <1>7
  <2> QED  BY <2>1 DEF LayersInv
<1>11. ShowsTheScene
  BY <1>1 DEF ShowsTheScene
<1> QED  BY <1>1, <1>8, <1>9, <1>10, <1>11 DEF PassesInv

(* The output pass is built.                                               *)
LEMMA BuildOutKeeps ==
    ASSUME PassesAssumption, PassesInv, BuildOut
    PROVE  PassesInv'
PROOF
<1>1. /\ PassStates /\ builds' = builds + 1 /\ builds < MaxBuilds /\ stage = "messages"
      /\ machine' = (IF hdr THEN FboBuild(FboBuild(machine, "front", width), "result", width)
                     ELSE machine)
      /\ stage' \in {"messages", "undefined"}
      /\ UNCHANGED <<row, hdr, default, width, whole, done, shown>>
  BY DEF BuildOut, PassesInv
<1>2. width \in Nat /\ builds' \in 0..MaxBuilds
  BY <1>1 DEF PassesAssumption, PassStates
<1>3. /\ machine' \in MachineState /\ machine'.depth = machine.depth
      /\ machine'.blend = machine.blend /\ machine'.loop = machine.loop
      /\ machine'.screen = machine.screen /\ machine'.tex["context"] = machine.tex["context"]
      /\ hdr => machine'.tex["front"].size = width /\ machine'.tex["result"].size = width
  <2>1. machine \in MachineState
    BY <1>1 DEF PassStates
  <2>2. CASE hdr
    <3>1. machine' = FboBuild(FboBuild(machine, "front", width), "result", width)
      BY <1>1, <2>2
    <3>2. Rebuilt(machine, machine', width)
      BY <1>2, <2>1, <3>1, BuildDoes
    <3> QED  BY <3>2 DEF Rebuilt
  <2>3. CASE ~hdr
    BY <1>1, <2>1, <2>3
  <2> QED  BY <2>2, <2>3
<1>4. PassStates'
  BY <1>1, <1>2, <1>3 DEF PassStates
<1>5. BuffersFit(machine)' /\ SwitchesInv(machine)' /\ LayersInv(machine)' /\ NoFeedback'
  <2>1. BuffersFit(machine) /\ SwitchesInv(machine) /\ LayersInv(machine) /\ NoFeedback
    BY DEF PassesInv
  <2>2. BuffersFit(machine)'
    BY <1>1, <1>3, <2>1 DEF BuffersFit
  <2>3. SwitchesInv(machine)' /\ NoFeedback'
    BY <1>1, <1>3, <2>1 DEF SwitchesInv, NoFeedback
  <2>4. LayersInv(machine)'
    <3>1. /\ machine'.screen = machine.screen /\ machine'.tex["context"] = machine.tex["context"]
          /\ row' = row /\ default' = default /\ default \in BOOLEAN
      BY <1>1, <1>3 DEF PassStates
    <3>2. CASE default
      BY <2>1, <3>1, <3>2 DEF LayersInv, GoodLayer
    <3>3. CASE ~default
      BY <2>1, <3>1, <3>3 DEF LayersInv, GoodLayer
    <3> QED  BY <3>1, <3>2, <3>3
  <2> QED  BY <2>2, <2>3, <2>4
<1>6. shown' = <<>> /\ stage' # "frame"
  BY <1>1 DEF PassesInv
<1>7. ShowsTheScene'
  BY <1>6 DEF ShowsTheScene
<1> QED  BY <1>4, <1>5, <1>6, <1>7 DEF PassesInv

(* The context is resized.                                                 *)
LEMMA ContextResizeKeeps ==
    ASSUME PassesAssumption, PassesInv, NEW w \in Width, ContextResize(w)
    PROVE  PassesInv'
PROOF
<1>1. /\ PassStates /\ stage = "messages" /\ width' = w
      /\ UNCHANGED <<row, hdr, default, builds, done, stage, shown>>
      /\ whole' \in BOOLEAN /\ machine \in MachineState /\ w \in Nat
  BY DEF ContextResize, PassesInv, PassStates, PassesAssumption
<1>2. PICK g : g = IF default THEN machine
                   ELSE [BindBoth(machine, "context") EXCEPT !.depth = TRUE,
                            !.tex["context"] = Fresh(w)]
  OBVIOUS
<1>3. machine' = IF whole' THEN Resized(g, w) ELSE g
  BY <1>2 DEF ContextResize
<1>4. /\ g \in MachineState /\ g.blend = machine.blend /\ g.loop = machine.loop
      /\ g.screen = machine.screen
      /\ (default => g = machine)
      /\ ~default => /\ g.tex["context"].size = w /\ g.tex["context"].image.layers = <<>>
                     /\ g.depth = TRUE
  <2>1. CASE default
    BY <1>1, <1>2, <2>1
  <2>2. CASE ~default
    <3>1. PICK x : x = [machine.tex EXCEPT !["context"] = Fresh(w)]
      OBVIOUS
    <3>2. x \in GLTextures /\ x["context"].size = w /\ x["context"].image.layers = <<>>
      <4>1. /\ machine.tex \in GLTextures /\ Fresh(w) \in [size : Nat, image : Image]
            /\ Fresh(w).size = w /\ Fresh(w).image.layers = <<>>
        BY <1>1, BlankTypes DEF MachineState
      <4> QED  BY <3>1, <4>1 DEF GLTextures, TextureName
    <3>3. g = [BindBoth(machine, "context") EXCEPT !.depth = TRUE, !.tex = x]
      BY <1>1, <1>2, <2>2, <3>1 DEF BindBoth, MachineState
    <3> QED  BY <1>1, <2>2, <3>2, <3>3 DEF BindBoth, MachineState, Target
  <2> QED  BY <2>1, <2>2
<1>5. /\ machine' \in MachineState /\ machine'.depth = g.depth
      /\ machine'.blend = g.blend /\ machine'.loop = g.loop
      /\ machine'.screen = g.screen /\ machine'.tex["context"] = g.tex["context"]
      /\ whole' /\ hdr /\ builds > 0 => /\ machine'.tex["front"].size = w
                                        /\ machine'.tex["result"].size = w
  <2>1. CASE whole' /\ hdr /\ builds > 0
    <3>1. machine' = FboBuild(FboBuild(g, "front", w), "result", w)
      BY <1>3, <2>1 DEF Resized
    <3>2. Rebuilt(g, machine', w)
      BY <1>1, <1>4, <3>1, BuildDoes
    <3> QED  BY <3>2 DEF Rebuilt
  <2>2. CASE ~(whole' /\ hdr /\ builds > 0)
    <3>1. machine' = g
      BY <1>3, <2>2 DEF Resized
    <3> QED  BY <1>4, <2>2, <3>1
  <2> QED  BY <2>1, <2>2
<1>6. PassStates'
  BY <1>1, <1>5 DEF PassStates
<1>7. BuffersFit(machine)' /\ SwitchesInv(machine)' /\ NoFeedback'
  BY <1>1, <1>4, <1>5 DEF PassesInv, BuffersFit, SwitchesInv, NoFeedback
<1>8. LayersInv(machine)'
  <2>1. CASE default
    BY <1>1, <1>4, <1>5, <2>1 DEF PassesInv, LayersInv, GoodLayer
  <2>2. CASE ~default
    <3>1. DOMAIN machine'.tex["context"].image.layers = {}
      BY <1>4, <1>5, <2>2
    <3> QED  BY <1>1, <2>2, <3>1 DEF LayersInv
  <2> QED  BY <2>1, <2>2
<1>9. shown' = <<>> /\ stage' # "frame"
  BY <1>1 DEF PassesInv
<1>10. ShowsTheScene'
  BY <1>9 DEF ShowsTheScene
<1> QED  BY <1>6, <1>7, <1>8, <1>9, <1>10 DEF PassesInv

(* A frame begins.                                                         *)
LEMMA BeginPassesKeeps ==
    ASSUME PassesAssumption, PassesInv, BeginPasses
    PROVE  PassesInv'
PROOF
<1>1. /\ PassStates /\ stage' = "frame" /\ done' = 0 /\ shown' = <<>>
      /\ UNCHANGED <<row, hdr, default, width, whole, builds>>
      /\ default \in BOOLEAN /\ whole \in BOOLEAN /\ machine \in MachineState
      /\ width \in Nat /\ SceneLength \in Nat
  BY DEF BeginPasses, PassesInv, PassStates, PassesAssumption
<1>2. PICK g : g = BindFB([machine EXCEPT !.view = width])
  OBVIOUS
<1>3. /\ g \in MachineState /\ g.view = width /\ g.depth = machine.depth /\ g.blend = machine.blend
      /\ g.loop = machine.loop /\ g.tex = machine.tex
      /\ g.draw = IF default THEN "screen" ELSE "context"
  BY <1>1, <1>2 DEF BindFB, BindBoth, MachineState, Target
<1>4. PICK x : x = [g.tex EXCEPT !["context"].image = [Blank EXCEPT !.region = width]]
  OBVIOUS
<1>5. /\ x \in GLTextures /\ \A t \in TextureName : x[t].size = g.tex[t].size
      /\ x["context"].image.layers = <<>> /\ x["context"].image.filters = <<>>
      /\ x["context"].image.region = width
  <2>1. PICK b \in Image : /\ b = [Blank EXCEPT !.region = width] /\ b.layers = <<>>
                           /\ b.filters = <<>> /\ b.region = width
    BY <1>1, BlankTypes
  <2>2. g.tex \in GLTextures /\ "context" \in TextureName
    BY <1>3 DEF MachineState, TextureName
  <2> QED  BY <1>4, <2>1, <2>2 DEF GLTextures
<1>6. machine' = IF default THEN [g EXCEPT !.screen = <<>>]
                 ELSE IF whole THEN [g EXCEPT !.tex = x] ELSE g
  BY <1>1, <1>2, <1>3, <1>4 DEF BeginPasses, MachineState
<1>7. /\ machine' \in MachineState /\ machine'.view = width
      /\ machine'.depth = machine.depth /\ machine'.blend = machine.blend
      /\ machine'.loop = machine.loop /\ machine'.draw = g.draw
      /\ (default => machine'.screen = <<>> /\ machine'.tex = machine.tex)
      /\ ~default => machine'.tex = IF whole THEN x ELSE machine.tex
  <2>1. <<>> \in Seq(Image \cup LayerType)
    BY EmptySeq
  <2> QED  BY <1>3, <1>5, <1>6, <2>1 DEF MachineState
<1>8. PassStates'
  BY <1>1, <1>7 DEF PassStates
<1>9. BuffersFit(machine)'
  <2>1. \A t \in TextureName : machine'.tex[t].size = machine.tex[t].size
    BY <1>1, <1>3, <1>5, <1>7
  <2>2. BuffersFit(machine)
    BY DEF PassesInv
  <2> QED  BY <1>1, <2>1, <2>2 DEF BuffersFit, TextureName
<1>10. SwitchesInv(machine)' /\ NoFeedback'
  BY <1>1, <1>7 DEF PassesInv, SwitchesInv, NoFeedback
<1>11. LayersInv(machine)'
  <2>1. default => DOMAIN machine'.screen = {}
    BY <1>7
  <2>2. ~default /\ whole => DOMAIN machine'.tex["context"].image.layers = {}
    BY <1>5, <1>7
  <2>3. ~default /\ ~whole => machine'.tex = machine.tex
    BY <1>7
  <2>4. CASE default \/ whole
    BY <1>1, <2>1, <2>2, <2>4 DEF LayersInv
  <2>5. CASE ~default /\ ~whole
    <3>1. LayersInv(machine)
      BY DEF PassesInv
    <3> QED  BY <1>1, <2>3, <2>5, <3>1 DEF LayersInv, GoodLayer
  <2> QED  BY <2>4, <2>5
<1>12. FrameInv(machine)'
  <2>1. ~default /\ whole => Holds(machine, done)'
    <3>1. ~default /\ whole => machine'.tex["context"].image = x["context"].image /\ DOMAIN <<>> = 1..0
      BY <1>7
    <3> QED  BY <1>1, <1>5, <3>1 DEF Holds
  <2> QED  BY <1>1, <1>3, <1>7, <2>1 DEF FrameInv
<1>13. ShowsTheScene'
  BY <1>1 DEF ShowsTheScene
<1> QED  BY <1>1, <1>8, <1>9, <1>10, <1>11, <1>12, <1>13 DEF PassesInv

(* A frame ends.                                                           *)
LEMMA EndPassesKeeps ==
    ASSUME PassesAssumption, PassesInv, EndPasses
    PROVE  PassesInv'
PROOF
<1>1. /\ PassStates /\ stage' = "messages" /\ done' = 0 /\ shown' = <<>>
      /\ UNCHANGED <<row, hdr, default, width, whole, builds>>
      /\ machine' = (IF default THEN [machine EXCEPT !.view = width] ELSE machine)
      /\ machine \in MachineState /\ width \in Nat /\ SceneLength \in Nat
  BY DEF EndPasses, PassesInv, PassStates, PassesAssumption
<1>2. /\ machine' \in MachineState /\ machine'.depth = machine.depth
      /\ machine'.blend = machine.blend /\ machine'.loop = machine.loop
      /\ machine'.screen = machine.screen /\ machine'.tex = machine.tex
  BY <1>1 DEF MachineState
<1>3. PassStates'
  BY <1>1, <1>2 DEF PassStates
<1>4. BuffersFit(machine)' /\ SwitchesInv(machine)' /\ LayersInv(machine)' /\ NoFeedback'
  BY <1>1, <1>2 DEF PassesInv, BuffersFit, SwitchesInv, LayersInv, GoodLayer, NoFeedback
<1>5. ShowsTheScene'
  BY <1>1 DEF ShowsTheScene
<1> QED  BY <1>1, <1>3, <1>4, <1>5 DEF PassesInv
-----------------------------------------------------------------------------
(* The names of n layers are the passes they are of.                       *)
LEMMA NamesOfLayers ==
    ASSUME NEW n \in Nat, n <= SceneLength, SceneLength \in Nat,
           row \in [1..SceneLength -> Pass],
           NEW s, DOMAIN s = 1..n, \A i \in 1..n : s[i].by = row[i]
    PROVE  [i \in DOMAIN s |-> s[i].by] = SubSeq(row, 1, n)
PROOF
<1>1. PICK f : f = [i \in 1..n |-> row[i]]
  OBVIOUS
<1>2. f = [i \in 1..n |-> f[i]] /\ \A i \in 1..n : f[i] \in Pass
  BY <1>1
<1>3. f \in Seq(Pass) /\ Len(f) = n
  BY <1>2, FunctionIsSeq
<1>4. \A i \in 1..n : row[i] \in Pass
  OBVIOUS
<1>5. /\ SubSeq(row, 1, n) \in Seq(Pass)
      /\ Len(SubSeq(row, 1, n)) = IF 1 <= n THEN n - 1 + 1 ELSE 0
      /\ \A i \in 1..(n - 1 + 1) : SubSeq(row, 1, n)[i] = row[1 + i - 1]
  BY <1>4, SubSeqProperties
<1>6. Len(SubSeq(row, 1, n)) = n /\ \A i \in 1..n : SubSeq(row, 1, n)[i] = f[i]
  BY <1>1, <1>5
<1>7. f = SubSeq(row, 1, n)
  BY <1>3, <1>5, <1>6, SeqEqual
<1>8. [i \in DOMAIN s |-> s[i].by] = f
  BY <1>1
<1> QED  BY <1>7, <1>8

(* The picture of the output pass is that of the scene.                    *)
LEMMA PictureIsTheScene ==
    ASSUME PassesAssumption, PassStates, BuffersFit(machine), builds > 0,
           NEW n \in 0..(SceneLength - 1), row[n + 1] = "out", ~default /\ whole => Holds(machine, n),
           NEW o, Output(machine, o)
    PROVE  ShowsIn(o.screen)
PROOF
<1> SUFFICES ASSUME ~default, whole PROVE ShowsIn(o.screen)
  BY DEF ShowsIn
<1> DEFINE first == CHOOSE i \in DOMAIN row : row[i] = "out"
           Whole(image) == [i \in DOMAIN image.layers |-> image.layers[i].by]
                               = SubSeq(row, 1, first - 1)
<1>1. /\ SceneLength \in Nat /\ Levels \in Nat /\ width \in Nat /\ width > 0
      /\ row \in [1..SceneLength -> Pass] /\ n + 1 \in 1..SceneLength /\ n \in Nat
  BY DEF PassesAssumption, PassStates
<1>2. first = n + 1
  <2>1. \A i \in DOMAIN row : row[i] = "out" => i = n + 1
    BY <1>1 DEF PassStates, IsInjective
  <2>2. first \in DOMAIN row /\ row[first] = "out"
    BY <1>1
  <2> QED  BY <2>1, <2>2
<1> HIDE DEF first
<1>3. PICK image : image = machine.tex["context"].image
  OBVIOUS
<1>4. /\ DOMAIN image.layers = 1..n /\ \A i \in 1..n : image.layers[i].by = row[i]
      /\ image.filters = <<>> /\ image.region = width
  BY <1>3 DEF Holds
<1>5. Whole(image)
  <2>1. [i \in DOMAIN image.layers |-> image.layers[i].by] = SubSeq(row, 1, n)
    BY <1>1, <1>4, NamesOfLayers
  <2>2. first - 1 = n
    BY <1>1, <1>2
  <2> QED  BY <2>1, <2>2
<1>6. Whole(o.screen[1]) /\ o.screen[1].filters = <<"tone">> /\ o.screen[1].region = width
  <2>1. /\ o.screen[1].layers = image.layers /\ o.screen[1].region = width
        /\ o.screen[1].filters = Append(image.filters, "tone")
    BY <1>3, <1>4 DEF Output
  <2>2. Append(<<>>, "tone") = <<"tone">>
    OBVIOUS
  <2> QED  BY <1>4, <1>5, <2>1, <2>2
<1>7. Len(o.screen) = IF hdr THEN 1 + Levels ELSE 1
  BY DEF Output
<1>8. ASSUME hdr, Halved[Levels - 1] > 0, NEW i \in 1..Levels
      PROVE  /\ Whole(o.screen[i + 1]) /\ o.screen[i + 1].filters = <<"across", "down">>
             /\ o.screen[i + 1].region = Halved[i - 1] /\ o.screen[i + 1].blend
  <2>1. i - 1 \in 0..(Levels - 1)
    BY <1>1
  <2>2. Halved[i - 1] > 0 /\ Halved[i - 1] <= width
    BY <1>8, <2>1, HalvedFits DEF PassStates
  <2>3. Blurable(machine, Halved[i - 1])
    BY <1>1, <1>3, <1>4, <1>8, <2>2 DEF Blurable, BuffersFit
  <2>4. BlurOf(machine, o.screen[i + 1], Halved[i - 1])
    BY <1>8, <2>3 DEF Output
  <2>5. /\ o.screen[i + 1].layers = image.layers /\ o.screen[i + 1].region = Halved[i - 1]
        /\ o.screen[i + 1].filters = <<"across", "down">> /\ o.screen[i + 1].blend = TRUE
    BY <1>3, <2>4 DEF BlurOf
  <2>6. Whole(o.screen[i + 1])
    BY <1>5, <2>5
  <2>7. o.screen[i + 1].blend
    BY <2>5, Zenon
  <2> QED  BY <2>5, <2>6, <2>7
<1> QED  BY <1>6, <1>7, <1>8 DEF ShowsIn, first

(* A pass other than the last is drawn.                                    *)
LEMMA OtherDrawKeeps ==
    ASSUME PassesAssumption, PassesInv, DrawPass, row[done'] # "out"
    PROVE  PassesInv'
PROOF
<1>1. PICK p : p = row[done']
  OBVIOUS
<1>2. /\ PassStates /\ stage = "frame" /\ done < SceneLength /\ done' = done + 1 /\ p # "out"
      /\ machine' = PassDraw(machine, p) /\ shown' = shown
      /\ UNCHANGED <<row, hdr, default, width, whole, builds, stage>>
  BY <1>1 DEF DrawPass, PassesInv
<1>3. /\ machine \in MachineState /\ default \in BOOLEAN /\ row \in [1..SceneLength -> Pass]
      /\ SceneLength \in Nat /\ done \in Nat /\ done' \in 1..SceneLength
  BY <1>2 DEF PassStates, PassesAssumption
<1>4. p \in Pass /\ p \in ToSet(row)
  BY <1>1, <1>3 DEF ToSet
<1>5. /\ FrameInv(machine) /\ BuffersFit(machine) /\ SwitchesInv(machine)
      /\ LayersInv(machine) /\ NoFeedback
  BY <1>2 DEF PassesInv
<1>6. machine.draw \in {"context", "screen"}
  BY <1>5 DEF FrameInv
<1>7. PICK l \in LayerType : /\ SwitchesInv(machine') /\ Adds(machine, machine', l)
                             /\ l.by = p /\ GoodLayer(l)
  BY <1>2, <1>3, <1>4, <1>5, <1>6, PassDraws
<1>8. PassStates'
  BY <1>2, <1>3, <1>7 DEF PassStates, Adds
<1>9. BuffersFit(machine)' /\ SwitchesInv(machine)' /\ NoFeedback'
  BY <1>2, <1>5, <1>7 DEF BuffersFit, SwitchesInv, NoFeedback, Adds, TextureName
<1>10. /\ machine.screen \in Seq(Image \cup LayerType)
       /\ machine.tex["context"].image.layers \in Seq(LayerType)
  BY <1>3 DEF MachineState, GLTextures, TextureName, Image
<1>11. LayersInv(machine)'
  <2>1. ASSUME default, NEW i \in DOMAIN machine'.screen, "by" \in DOMAIN machine'.screen[i]
        PROVE  GoodLayer(machine'.screen[i])
    <3>1. machine'.screen = Append(machine.screen, l)
      BY <1>5, <1>7, <2>1 DEF FrameInv, Adds
    <3>2. \/ machine'.screen[i] = l
          \/ i \in DOMAIN machine.screen /\ machine'.screen[i] = machine.screen[i]
      BY <1>10, <2>1, <3>1
    <3> QED  BY <1>5, <1>7, <2>1, <3>2 DEF LayersInv
  <2>2. ASSUME ~default, NEW i \in DOMAIN machine'.tex["context"].image.layers
        PROVE  GoodLayer(machine'.tex["context"].image.layers[i])
    <3>1. PICK s, t : /\ s = machine.tex["context"].image.layers
                      /\ t = machine'.tex["context"].image.layers
      OBVIOUS
    <3>2. t = s \/ t = Append(s, l)
      BY <1>6, <1>7, <3>1 DEF Adds
    <3>3. s \in Seq(LayerType) /\ i \in DOMAIN t
      BY <1>10, <2>2, <3>1
    <3>4. t[i] = l \/ (i \in DOMAIN s /\ t[i] = s[i])
      BY <3>2, <3>3
    <3> QED  BY <1>5, <1>7, <2>2, <3>1, <3>4 DEF LayersInv
  <2> QED  BY <1>2, <2>1, <2>2 DEF LayersInv, GoodLayer
<1>12. OutAhead' => OutAhead
  BY <1>2, <1>3 DEF OutAhead
<1>13. FrameInv(machine)'
  <2>1. ~default /\ OutAhead' => machine'.draw = "context"
    BY <1>2, <1>5, <1>7, <1>12 DEF FrameInv, Adds
  <2>2. ASSUME ~default, OutAhead', whole
        PROVE  Holds(machine, done)'
    <3>1. machine.draw = "context" /\ Holds(machine, done)
      BY <1>5, <1>12, <2>2 DEF FrameInv
    <3>2. PICK s, t : /\ s = machine.tex["context"].image.layers
                      /\ t = machine'.tex["context"].image.layers
      OBVIOUS
    <3>3. /\ t = Append(s, l)
          /\ machine'.tex["context"].image.filters = machine.tex["context"].image.filters
          /\ machine'.tex["context"].image.region = machine.tex["context"].image.region
      BY <1>7, <2>2, <3>1, <3>2 DEF Adds
    <3>4. DOMAIN s = 1..done /\ \A i \in 1..done : s[i].by = row[i]
      BY <3>1, <3>2 DEF Holds
    <3>5. Len(s) = done
      BY <1>3, <1>10, <3>2, <3>4
    <3>6. DOMAIN t = 1..done' /\ t[done'] = l /\ \A i \in 1..done : t[i] = s[i]
      <4>1. s \in Seq(LayerType) /\ l \in LayerType
        BY <1>10, <3>2
      <4>2. Len(t) = done + 1 /\ t \in Seq(LayerType)
        BY <3>3, <3>5, <4>1, AppendProperties
      <4> QED  BY <1>2, <1>3, <3>3, <3>5, <4>1, <4>2
    <3>7. \A i \in 1..done' : t[i].by = row[i]
      <4> TAKE i \in 1..done'
      <4>1. CASE i = done'
        BY <1>1, <1>7, <3>6, <4>1
      <4>2. CASE i # done'
        <5>1. i \in 1..done
          BY <1>2, <1>3, <4>2
        <5> QED  BY <3>4, <3>6, <5>1
      <4> QED  BY <4>1, <4>2
    <3> QED  BY <1>2, <3>1, <3>2, <3>3, <3>6, <3>7 DEF Holds
  <2> QED  BY <1>2, <1>5, <1>7, <2>1, <2>2 DEF FrameInv, Adds
<1>14. OutAhead' => shown' = <<>>
  BY <1>2, <1>12 DEF PassesInv
<1>15. ShowsTheScene'
  <2>1. Halved' = Halved
    BY <1>2 DEF Halved
  <2>2. ShowsTheScene
    BY DEF PassesInv
  <2> QED  BY <1>2, <2>1, <2>2 DEF ShowsTheScene
<1> QED  BY <1>2, <1>8, <1>9, <1>11, <1>13, <1>14, <1>15 DEF PassesInv

(* The output pass is drawn.                                               *)
LEMMA OutPassKeeps ==
    ASSUME PassesAssumption, PassesInv, DrawPass, row[done'] = "out"
    PROVE  PassesInv'
PROOF
<1>1. /\ PassStates /\ stage = "frame" /\ done < SceneLength /\ done' = done + 1
      /\ UNCHANGED <<row, hdr, default, width, whole, builds>>
  BY DEF DrawPass, PassesInv
<1>2. /\ machine \in MachineState /\ default \in BOOLEAN /\ hdr \in BOOLEAN /\ width \in Width
      /\ row \in [1..SceneLength -> Pass] /\ IsInjective(row) /\ builds \in Nat
      /\ SceneLength \in Nat /\ done \in 0..(SceneLength - 1) /\ done' \in 1..SceneLength
  BY <1>1 DEF PassStates, PassesAssumption
<1>3. /\ FrameInv(machine) /\ BuffersFit(machine) /\ SwitchesInv(machine)
      /\ LayersInv(machine) /\ NoFeedback
  BY <1>1 DEF PassesInv
<1>4. OutAhead
  <2> SUFFICES ASSUME NEW i \in 1..done, row[i] = "out" PROVE FALSE
    BY DEF OutAhead
  <2>1. i \in DOMAIN row /\ done' \in DOMAIN row /\ i # done'
    BY <1>1, <1>2
  <2> QED  BY <1>2, <2>1 DEF IsInjective
<1>5. ~OutAhead'
  BY <1>1, <1>2 DEF OutAhead
<1>6. CASE builds = 0
  <2>1. stage' = "undefined" /\ machine' = machine /\ shown' = shown
    BY <1>6 DEF DrawPass
  <2>2. PassStates'
    BY <1>1, <1>2, <2>1 DEF PassStates
  <2>3. BuffersFit(machine)' /\ SwitchesInv(machine)' /\ LayersInv(machine)' /\ NoFeedback'
    BY <1>1, <1>3, <2>1 DEF BuffersFit, SwitchesInv, LayersInv, GoodLayer, NoFeedback
  <2>4. shown' = <<>>
    BY <1>4, <2>1 DEF PassesInv
  <2>5. ShowsTheScene'
    BY <2>4 DEF ShowsTheScene
  <2> QED  BY <2>1, <2>2, <2>3, <2>4, <2>5 DEF PassesInv
<1>7. CASE builds # 0
  <2>1. PICK o : o = OutPass(machine)
    OBVIOUS
  <2>2. machine' = o /\ shown' = o.screen /\ stage' = "frame"
    BY <1>1, <1>7, <2>1 DEF DrawPass, PassDraw
  <2>3. Output(machine, o)
    <3>1. machine.view = width
      BY <1>3 DEF FrameInv
    <3> QED  BY <1>2, <2>1, <3>1, OutPassDoes
  <2>4. PassStates'
    BY <1>1, <1>2, <2>2, <2>3 DEF PassStates, Output
  <2>5. BuffersFit(machine)'
    BY <1>1, <1>3, <2>2, <2>3 DEF BuffersFit, Output, TextureName
  <2>6. SwitchesInv(machine)'
    <3>1. "out" \in ToSet(row)
      BY <1>2 DEF ToSet
    <3>2. "out" \in ToSet(row) \cap {"lights", "gui", "out"}
      BY <3>1
    <3>3. o.blend => "transparency" \in ToSet(row)
      BY <1>3, <2>3 DEF SwitchesInv, Output
    <3> QED  BY <1>1, <2>2, <3>2, <3>3 DEF SwitchesInv
  <2>7. NoFeedback'
    BY <1>3, <2>2, <2>3 DEF NoFeedback, Output
  <2>8. LayersInv(machine)'
    <3>1. ASSUME default, NEW i \in DOMAIN o.screen, "by" \in DOMAIN o.screen[i]
          PROVE  FALSE
      <4>1. o.screen \in Seq(Image \cup LayerType) /\ i \in 1..Len(o.screen) /\ Levels \in Nat
        BY <2>3, <3>1 DEF Output, MachineState, PassesAssumption
      <4>2. o.screen[i] \in Image
        <5>1. CASE i = 1
          <6>1. o.screen[1] \in Image
            BY <2>3 DEF Output
          <6> QED  BY <5>1, <6>1
        <5>2. CASE i # 1
          <6>1. hdr /\ i - 1 \in 1..Levels /\ (i - 1) + 1 = i
            BY <2>3, <4>1, <5>2 DEF Output
          <6>2. o.screen[(i - 1) + 1] \in Image
            BY <2>3, <6>1 DEF Output
          <6> QED  BY <6>1, <6>2
        <5> QED  BY <5>1, <5>2
      <4>3. "by" \notin DOMAIN o.screen[i]
        BY <4>2 DEF Image
      <4> QED  BY <3>1, <4>3
    <3>2. ~default => o.tex["context"].image.layers = machine.tex["context"].image.layers
      BY <2>3 DEF Output
    <3>3. CASE default
      BY <1>1, <2>2, <3>1, <3>3 DEF LayersInv
    <3>4. CASE ~default
      BY <1>1, <1>3, <2>2, <3>2, <3>4 DEF LayersInv, GoodLayer
    <3> QED  BY <3>3, <3>4
  <2>9. FrameInv(machine)'
    BY <1>1, <1>2, <1>5, <2>2, <2>3 DEF FrameInv, Output
  <2>10. ShowsTheScene'
    <3>1. ~default /\ whole => Holds(machine, done)
      BY <1>3, <1>4 DEF FrameInv
    <3>2. builds > 0 /\ row[done + 1] = "out"
      BY <1>1, <1>2, <1>7
    <3>3. ShowsIn(o.screen)
      BY <1>1, <1>2, <1>3, <2>3, <3>1, <3>2, PictureIsTheScene
    <3>4. Halved' = Halved
      BY <1>1 DEF Halved
    <3> QED  BY <1>1, <2>2, <3>3, <3>4 DEF ShowsIn, ShowsTheScene
  <2> QED  BY <1>5, <2>2, <2>4, <2>5, <2>6, <2>7, <2>8, <2>9, <2>10 DEF PassesInv
<1> QED  BY <1>6, <1>7
-----------------------------------------------------------------------------
(* The invariant of the passes, which the theorems below rest on.          *)
THEOREM PassesInvariant ==
    ASSUME PassesAssumption
    PROVE  PassesSpec => []PassesInv
PROOF
<1>1. PassesInit => PassesInv
  BY PassesStart
<1>2. PassesInv /\ [PassesNext]_passes => PassesInv'
  <2> SUFFICES ASSUME PassesInv, [PassesNext]_passes PROVE PassesInv'
    OBVIOUS
  <2>1. CASE BuildOut
    BY <2>1, BuildOutKeeps
  <2>2. CASE BeginPasses
    BY <2>2, BeginPassesKeeps
  <2>3. CASE DrawPass
    BY <2>3, OtherDrawKeeps, OutPassKeeps
  <2>4. CASE EndPasses
    BY <2>4, EndPassesKeeps
  <2>5. ASSUME NEW w \in Width, ContextResize(w) PROVE PassesInv'
    BY <2>5, ContextResizeKeeps
  <2>6. CASE UNCHANGED passes
    <3>1. /\ UNCHANGED <<row, hdr, default, width, whole, machine, builds, done, stage, shown>>
          /\ Halved' = Halved
      BY <2>6 DEF passes, Halved
    <3>2. /\ PassStates' /\ BuffersFit(machine)' /\ SwitchesInv(machine)'
          /\ LayersInv(machine)' /\ NoFeedback'
      BY <3>1 DEF PassesInv, PassStates, BuffersFit, SwitchesInv, LayersInv, GoodLayer, NoFeedback
    <3>3. /\ (stage' = "frame" => FrameInv(machine)') /\ (stage' = "messages" => shown' = <<>>)
          /\ (OutAhead' => shown' = <<>>)
      BY <3>1 DEF PassesInv, FrameInv, OutAhead, Holds
    <3>4. ShowsTheScene'
      BY <3>1 DEF PassesInv, ShowsTheScene
    <3> QED  BY <3>2, <3>3, <3>4 DEF PassesInv
  <2> QED  BY <2>1, <2>2, <2>3, <2>4, <2>5, <2>6 DEF PassesNext
<1> QED  BY <1>1, <1>2, PTL DEF PassesSpec

(* Unless the last resize failed, the output pass shows all that was drawn *)
(* before it, in its order, and HDR adds it in every size; what is sampled *)
(* is never what is drawn into; and blending and depth testing do not leak *)
(* but from transparency: for any passes, blurs, resizes and builds        *)
(* (out_draw, framebuffer.c, the draw functions of the passes).            *)
THEOREM PassesShowTheScene ==
    ASSUME PassesAssumption
    PROVE  PassesSpec => []PassesShowScene
PROOF
<1>1. PassesInv => SwitchesRestored
  <2> SUFFICES ASSUME PassesInv, NEW l \in Layers PROVE GoodLayer(l)
    BY DEF SwitchesRestored, GoodLayer
  <2>1. LayersInv(machine) /\ default \in BOOLEAN
    BY DEF PassesInv, PassStates
  <2>2. CASE default
    <3>1. PICK i \in DOMAIN machine.screen : l = machine.screen[i] /\ "by" \in DOMAIN l
      BY <2>2 DEF Layers, ToSet
    <3> QED  BY <2>1, <2>2, <3>1 DEF LayersInv
  <2>3. CASE ~default
    <3>1. PICK i \in DOMAIN machine.tex["context"].image.layers :
             l = machine.tex["context"].image.layers[i]
      BY <2>3 DEF Layers, ToSet
    <3> QED  BY <2>1, <2>3, <3>1 DEF LayersInv
  <2> QED  BY <2>1, <2>2, <2>3
<1>2. PassesInv => PassesShowScene
  BY <1>1 DEF PassesInv, PassesShowScene
<1> QED  BY <1>2, PassesInvariant, PTL

(* The types of the passes.                                                *)
THEOREM PassesKeepTypes ==
    ASSUME PassesAssumption
    PROVE  PassesSpec => []PassTypes
PROOF
<1>1. PassesInv => PassTypes
  <2> SUFFICES ASSUME PassStates PROVE PassTypes
    BY DEF PassesInv
  <2>1. machine \in MachineState
    BY DEF PassStates
  <2>2. /\ machine.draw \in Target /\ machine.read \in Target
        /\ {machine.depth, machine.cull, machine.blend, machine.loop} \subseteq BOOLEAN
    BY <2>1 DEF MachineState
  <2> QED  BY <2>2 DEF PassTypes, PassStates
<1> QED  BY <1>1, PassesInvariant, PTL
=============================================================================
