----------------------------- MODULE EventProofs -----------------------------
(***************************************************************************)
(* What holds of the callbacks of a handler for all handlers, priorities   *)
(* and numbers of calls, whether clients are careful or not.               *)
(***************************************************************************)
EXTENDS Event, SequenceFacts, FiniteSetTheorems

\* In the order of priorities and, among equals, of registration
Ordered(s) ==
    \A i, j \in DOMAIN s : i < j =>
        \/ s[i].priority < s[j].priority
        \/ s[i].priority = s[j].priority /\ s[i].handle < s[j].handle

(* IL_INSERT at the first callback of a greater priority: there is such a  *)
(* place, and all before it have at most the priority of the new one.      *)
LEMMA PlaceIsFirst ==
    ASSUME NEW s \in Seq(Callback), NEW p \in Int
    PROVE  /\ Place(s, p) \in 1..(Len(s) + 1)
           /\ Place(s, p) <= Len(s) => s[Place(s, p)].priority > p
           /\ \A j \in 1..(Place(s, p) - 1) : s[j].priority <= p
PROOF
<1> DEFINE Found(i) == i <= Len(s) => s[i].priority > p
           Places == {i \in 1..(Len(s) + 1) : Found(i)}
<1>1. Places \in SUBSET Nat /\ Places # {}
  <2>1. Len(s) + 1 \in Places
    BY LenProperties
  <2> QED  BY <2>1, LenProperties
<1>2. PICK i \in Places : \A j \in Places : i <= j
  BY <1>1, LeastNumber
<1>3. \A j \in 1..(i - 1) : s[j].priority <= p
  <2> SUFFICES ASSUME NEW j \in 1..(i - 1)
               PROVE  s[j].priority <= p
    OBVIOUS
  <2>1. j \in 1..Len(s) /\ j \notin Places
    BY <1>2, LenProperties
  <2>2. s[j] \in Callback
    BY <2>1, ElementOfSeq
  <2> QED  BY <2>1, <2>2 DEF Callback
<1> QED  BY <1>2, <1>3, LenProperties DEF Place

(* The array after IL_INSERT.                                              *)
LEMMA InsertIsSeq ==
    ASSUME NEW s \in Seq(Callback), NEW c \in Callback
    PROVE  /\ ILInsert(s, c) \in Seq(Callback)
           /\ Len(ILInsert(s, c)) = Len(s) + 1
PROOF
<1>1. Place(s, c.priority) \in 1..(Len(s) + 1)
  BY PlaceIsFirst DEF Callback
<1>2. \A k \in 1..(Len(s) + 1) : ILInsert(s, c)[k] \in Callback
  BY <1>1, LenProperties, ElementOfSeq DEF ILInsert
<1>3. ILInsert(s, c) = [k \in 1..(Len(s) + 1) |-> ILInsert(s, c)[k]]
  BY DEF ILInsert
<1> QED  BY <1>2, <1>3, IsASeq, LenProperties

(* A callback with the newest handle, put at its place, keeps the order.   *)
LEMMA InsertKeepsOrder ==
    ASSUME NEW s \in Seq(Callback), NEW c \in Callback,
           Ordered(s), \A i \in DOMAIN s : s[i].handle < c.handle
    PROVE  /\ Ordered(ILInsert(s, c))
           /\ \A i \in DOMAIN ILInsert(s, c) : ILInsert(s, c)[i].handle <= c.handle
PROOF
<1> DEFINE p == Place(s, c.priority)
           t == ILInsert(s, c)
<1>1. /\ p \in 1..(Len(s) + 1)
      /\ p <= Len(s) => s[p].priority > c.priority
      /\ \A j \in 1..(p - 1) : s[j].priority <= c.priority
  BY PlaceIsFirst DEF Callback
<1>2. DOMAIN t = 1..(Len(s) + 1)
  BY DEF ILInsert
<1>3. \A k \in 1..(Len(s) + 1) : t[k] = IF k < p THEN s[k] ELSE IF k = p THEN c ELSE s[k - 1]
  BY DEF ILInsert
<1>4. \A k \in 1..Len(s) : s[k].priority \in Int /\ s[k].handle \in Nat
  <2>1. \A k \in 1..Len(s) : s[k] \in Callback
    BY ElementOfSeq
  <2> QED  BY <2>1 DEF Callback
<1>5. c.priority \in Int /\ c.handle \in Nat /\ Len(s) \in Nat /\ DOMAIN s = 1..Len(s)
  BY LenProperties DEF Callback
<1> HIDE DEF p, t
<1>6. \A k \in 1..Len(s) : k >= p => s[k].priority > c.priority
  <2> SUFFICES ASSUME NEW k \in 1..Len(s), k > p
               PROVE  s[k].priority > c.priority
    BY <1>1, <1>5
  <2>1. p \in 1..Len(s) /\ s[p].priority > c.priority
    BY <1>1, <1>5
  <2>2. s[p].priority <= s[k].priority
    BY <2>1, <1>4, <1>5 DEF Ordered
  <2> QED  BY <2>1, <2>2, <1>4, <1>5
<1>7. Ordered(t)
  <2> SUFFICES ASSUME NEW i \in 1..(Len(s) + 1), NEW j \in 1..(Len(s) + 1), i < j
               PROVE  \/ t[i].priority < t[j].priority
                      \/ t[i].priority = t[j].priority /\ t[i].handle < t[j].handle
    BY <1>2 DEF Ordered
  <2>1. CASE j < p
    BY <2>1, <1>1, <1>3, <1>5 DEF Ordered
  <2>2. CASE j = p
    BY <2>2, <1>1, <1>3, <1>4, <1>5
  <2>3. CASE i = p
    <3>1. t[i] = c /\ t[j] = s[j - 1] /\ j - 1 \in 1..Len(s) /\ j - 1 >= p
      BY <2>3, <1>1, <1>3, <1>5
    <3> QED  BY <3>1, <1>6
  <2>4. CASE i < p /\ j > p
    <3>1. t[i] = s[i] /\ t[j] = s[j - 1] /\ i \in 1..Len(s) /\ j - 1 \in 1..Len(s) /\ i < j - 1
      BY <2>4, <1>1, <1>3, <1>5
    <3> QED  BY <3>1, <1>5 DEF Ordered
  <2>5. CASE i > p
    <3>1. /\ t[i] = s[i - 1] /\ t[j] = s[j - 1]
          /\ i - 1 \in 1..Len(s) /\ j - 1 \in 1..Len(s) /\ i - 1 < j - 1
      BY <2>5, <1>1, <1>3, <1>5
    <3> QED  BY <3>1, <1>5 DEF Ordered
  <2> QED  BY <2>1, <2>2, <2>3, <2>4, <2>5, <1>1, <1>5
<1>8. \A i \in DOMAIN t : t[i].handle <= c.handle
  <2> SUFFICES ASSUME NEW i \in 1..(Len(s) + 1)
               PROVE  t[i].handle <= c.handle
    BY <1>2
  <2>1. CASE i = p
    BY <2>1, <1>3, <1>5
  <2>2. CASE i # p
    <3>1. PICK k \in 1..Len(s) : t[i] = s[k]
      BY <2>2, <1>1, <1>3, <1>5
    <3> QED  BY <3>1, <1>4, <1>5
  <2> QED  BY <2>1, <2>2
<1> QED  BY <1>7, <1>8 DEF t
-----------------------------------------------------------------------------
(* The inductive invariant: the lists are ordered and no handle in them is *)
(* as great as the next one to be given out, which makes new callbacks the *)
(* last among equals, those of ILE_BEFORE too.                             *)
GoodList(s, n) ==
    /\ s \in Seq(Callback)
    /\ Ordered(s)
    /\ \A i \in DOMAIN s : s[i].handle < n

OrderInv == \A h \in Handler : cur_id[h] \in Nat /\ GoodList(callbacks[h], cur_id[h])

OrderTypes == /\ callbacks = [h \in Handler |-> callbacks[h]]
              /\ cur_id = [h \in Handler |-> cur_id[h]]

(* The empty list is good.                                                 *)
LEMMA EmptyIsGood ==
    ASSUME NEW n \in Nat
    PROVE  GoodList(<<>>, n)
PROOF
  BY EmptySeq, LenProperties DEF GoodList, Ordered

(* IL_REMOVE keeps the priorities and handles of the elements it leaves,   *)
(* and of the last element nothing.                                        *)
LEMMA RemoveByPlace ==
    ASSUME NEW s \in Seq(Callback), NEW i \in DOMAIN s, NEW t \in ILRemove(s, i)
    PROVE  /\ t \in Seq(Callback) /\ DOMAIN t = 1..(Len(s) - 1)
           /\ \A k \in DOMAIN t : /\ k \in DOMAIN s
                                 /\ t[k].priority = s[k].priority /\ t[k].handle = s[k].handle
           /\ i = Len(s) => t = Front(s)
PROOF
<1>1. DOMAIN s = 1..Len(s) /\ Len(s) \in Nat /\ i \in 1..Len(s)
  BY LenProperties
<1>2. PICK r \in Seq(Callback) :
        /\ t = Front(r) /\ Len(r) = Len(s)
        /\ \A k \in 1..Len(s) : r[k].priority = s[k].priority /\ r[k].handle = s[k].handle
  <2>1. CASE i = Len(s)
    BY <2>1, <1>1 DEF ILRemove
  <2>2. CASE i # Len(s)
    <3>1. PICK f \in {s[i].function, s[i + 1].function, Wild} :
            t = Front([s EXCEPT ![i].function = f])
      BY <2>2, <1>1 DEF ILRemove
    <3>2. s[i] \in Callback /\ s[i + 1] \in Callback
      BY <2>2, <1>1, ElementOfSeq
    <3>3. [s[i] EXCEPT !.function = f] \in Callback
      BY <3>2 DEF Callback
    <3>4. /\ [s EXCEPT ![i].function = f] \in Seq(Callback)
          /\ Len([s EXCEPT ![i].function = f]) = Len(s)
      BY <3>3, <1>1, ExceptSeq
    <3>5. \A k \in 1..Len(s) :
            /\ [s EXCEPT ![i].function = f][k].priority = s[k].priority
            /\ [s EXCEPT ![i].function = f][k].handle = s[k].handle
      BY <3>2, <1>1 DEF Callback
    <3> QED  BY <3>1, <3>4, <3>5
  <2> QED  BY <2>1, <2>2
<1>3. /\ t = SubSeq(r, 1, Len(s) - 1)
      /\ t \in Seq(Callback) /\ DOMAIN t = 1..(Len(s) - 1)
      /\ \A k \in 1..(Len(s) - 1) : t[k] = r[k]
  BY <1>1, <1>2, SubSeqProperties, LenProperties DEF Front
<1>4. \A k \in DOMAIN t : /\ k \in DOMAIN s
                         /\ t[k].priority = s[k].priority /\ t[k].handle = s[k].handle
  BY <1>1, <1>2, <1>3
<1>5. i = Len(s) => t = Front(s)
  BY DEF ILRemove
<1> QED  BY <1>3, <1>4, <1>5

(* IL_REMOVE keeps a list good.                                            *)
LEMMA RemoveKeepsOrder ==
    ASSUME NEW s, NEW n \in Nat, GoodList(s, n),
           NEW i \in DOMAIN s, NEW t \in ILRemove(s, i)
    PROVE  GoodList(t, n)
PROOF
<1>1. /\ t \in Seq(Callback)
      /\ \A k \in DOMAIN t : /\ k \in DOMAIN s
                            /\ t[k].priority = s[k].priority /\ t[k].handle = s[k].handle
  BY RemoveByPlace DEF GoodList
<1>2. Ordered(t)
  <2> SUFFICES ASSUME NEW j \in DOMAIN t, NEW k \in DOMAIN t, j < k
               PROVE  \/ t[j].priority < t[k].priority
                      \/ t[j].priority = t[k].priority /\ t[j].handle < t[k].handle
    BY DEF Ordered
  <2> QED  BY <1>1 DEF GoodList, Ordered
<1>3. \A k \in DOMAIN t : t[k].handle < n
  BY <1>1 DEF GoodList
<1> QED  BY <1>1, <1>2, <1>3 DEF GoodList

(* Each action keeps the lists good; only three of them touch a list.      *)
LEMMA OrderStep ==
    ASSUME OrderTypes, OrderInv, [Next]_vars
    PROVE  (OrderTypes /\ OrderInv)'
PROOF
<1> USE DEF OrderTypes
<1>1. CASE UNCHANGED <<callbacks, cur_id>>
  BY <1>1 DEF OrderInv
<1>2. ASSUME NEW h \in Handler, NEW k \in Kind, New(h, k)
      PROVE  (OrderTypes /\ OrderInv)'
  BY <1>2, EmptyIsGood DEF New, OrderInv
<1>3. ASSUME NEW h \in Handler, NEW f \in Function, NEW p \in Priority, Register(h, f, p)
      PROVE  (OrderTypes /\ OrderInv)'
  <2> DEFINE c == [function |-> f, priority |-> p, handle |-> cur_id[h]]
  <2>1. c \in Callback /\ c.handle = cur_id[h] /\ cur_id[h] \in Nat
    BY EventAssumption DEF OrderInv, Callback
  <2>2. GoodList(ILInsert(callbacks[h], c), cur_id[h] + 1)
    <3>1. /\ ILInsert(callbacks[h], c) \in Seq(Callback)
          /\ Ordered(ILInsert(callbacks[h], c))
          /\ \A i \in DOMAIN ILInsert(callbacks[h], c) :
                ILInsert(callbacks[h], c)[i].handle <= cur_id[h]
      BY <2>1, InsertIsSeq, InsertKeepsOrder DEF OrderInv, GoodList
    <3>2. \A i \in DOMAIN ILInsert(callbacks[h], c) :
                ILInsert(callbacks[h], c)[i].handle \in Nat
      <4> DEFINE t == ILInsert(callbacks[h], c)
      <4>1. \A i \in DOMAIN t : t[i] \in Callback
        BY <3>1, ElementOfSeq, LenProperties
      <4> QED  BY <4>1 DEF Callback
    <3> QED  BY <3>1, <3>2, <2>1 DEF GoodList
  <2>3. /\ callbacks' = [callbacks EXCEPT ![h] = ILInsert(callbacks[h], c)]
        /\ cur_id' = [cur_id EXCEPT ![h] = cur_id[h] + 1]
    BY <1>3 DEF Register
  <2> HIDE DEF c
  <2>4. \A g \in Handler : cur_id'[g] \in Nat /\ GoodList(callbacks'[g], cur_id'[g])
    <3> SUFFICES ASSUME NEW g \in Handler
                 PROVE  cur_id'[g] \in Nat /\ GoodList(callbacks'[g], cur_id'[g])
      OBVIOUS
    <3>1. CASE g = h
      BY <3>1, <2>1, <2>2, <2>3
    <3>2. CASE g # h
      BY <3>2, <2>3 DEF OrderInv
    <3> QED  BY <3>1, <3>2
  <2> QED  BY <2>3, <2>4 DEF OrderInv
<1>4. ASSUME NEW h \in Handler, NEW i \in DOMAIN callbacks[h], Unregister(h, i)
      PROVE  (OrderTypes /\ OrderInv)'
  <2>1. PICK s \in ILRemove(callbacks[h], i) :
            callbacks' = [callbacks EXCEPT ![h] = s]
    BY <1>4 DEF Unregister
  <2>2. GoodList(s, cur_id[h])
    BY RemoveKeepsOrder DEF OrderInv
  <2> QED  BY <2>1, <2>2, <1>4 DEF Unregister, OrderInv
<1>5. CASE \E h \in Handler : Destroy(h) \/ Fire(h) \/ Ready(h) \/ \E e \in Event : FireAsync(h, e)
  <2>1. UNCHANGED <<callbacks, cur_id>>
    BY <1>5 DEF Destroy, Fire, Ready, FireAsync, handlers
  <2> QED  BY <2>1, <1>1
<1>6. CASE Loop \/ Idle \/ UNCHANGED vars
  <2>1. UNCHANGED <<callbacks, cur_id>>
    BY <1>6 DEF Loop, RunEvent, RunReady, Call, Return, EndDispatch, Idle, handlers, vars
  <2> QED  BY <2>1, <1>1
<1> QED  BY <1>2, <1>3, <1>4, <1>5, <1>6 DEF Next

(* A good list has lower priorities first and ILE_AFTER callbacks behind   *)
(* all that were there before them.                                        *)
LEMMA GoodIsInOrder ==
    ASSUME NEW s, NEW n \in Nat, GoodList(s, n), NEW i \in DOMAIN s, NEW j \in DOMAIN s
    PROVE  /\ i < j => s[i].priority <= s[j].priority
           /\ s[j].priority = ILE_AFTER /\ s[i].priority <= ILE_AFTER /\ s[i].handle < s[j].handle
              => i < j
PROOF
<1>1. i \in Nat /\ j \in Nat
  BY LenProperties DEF GoodList
<1>2. s[i] \in Callback /\ s[j] \in Callback
  BY ElementOfSeq, LenProperties DEF GoodList
<1>3. /\ s[i].priority \in Int /\ s[j].priority \in Int
      /\ s[i].handle \in Nat /\ s[j].handle \in Nat
  BY <1>2 DEF Callback
<1>4. i < j => \/ s[i].priority < s[j].priority
               \/ s[i].priority = s[j].priority /\ s[i].handle < s[j].handle
  BY DEF GoodList, Ordered
<1>5. j < i => \/ s[j].priority < s[i].priority
               \/ s[j].priority = s[i].priority /\ s[j].handle < s[i].handle
  BY DEF GoodList, Ordered
<1>6. i = j => s[i].handle = s[j].handle
  OBVIOUS
<1> QED  BY <1>1, <1>3, <1>4, <1>5, <1>6 DEF ILE_AFTER

(* In every behaviour the callbacks of every handler are called in the     *)
(* order of their priorities, those of ILE_AFTER after all that were there *)
(* before them.                                                            *)
THEOREM CallbacksStayOrdered == Spec => []CallbackOrder
PROOF
<1>1. Init => OrderTypes /\ OrderInv
  BY EmptyIsGood DEF Init, OrderTypes, OrderInv
<1>2. OrderTypes /\ OrderInv /\ [Next]_vars => (OrderTypes /\ OrderInv)'
  BY OrderStep
<1>3. OrderInv => CallbackOrder
  BY GoodIsInOrder DEF OrderInv, CallbackOrder
<1> QED  BY <1>1, <1>2, <1>3, PTL DEF Spec
-----------------------------------------------------------------------------
(***************************************************************************)
(* libevent's queue, the two registries, and the events under way          *)
(***************************************************************************)

\* The events whose dispatches are under way
Running == {stack[k].event : k \in DOMAIN stack} \ {NULL}

\* Events that are not allocated, in the queue or under way, each in one place
AsyncInv ==
    /\ IsInjective(active)
    /\ \A e \in Event : target[e] # NULL <=> e \in ToSet(active) \cup Running
    /\ Running \cap ToSet(active) = {}
    /\ \A j, k \in DOMAIN stack : stack[j].event = stack[k].event /\ stack[j].event # NULL => j = k
    /\ \A h \in Handler : h \in ToSet(active) => kind[h] \notin {"free", "normal"}

PendingInv ==
    /\ \A i, j \in DOMAIN pending : pending[i] = pending[j] /\ pending[i] # NULL => i = j
    /\ ToSet(pending) \ {NULL} = ToSet(active) \cap Event

PersistentInv ==
    /\ IsInjective(persistent)
    /\ ToSet(persistent) = {h \in Handler : kind[h] \notin {"free", "normal"}}

LoopInv == AsyncInv /\ PendingInv /\ PersistentInv

\* No two callbacks have one handle, whoever removes what
DistinctHandles(s) == \A i, j \in DOMAIN s : s[i].handle = s[j].handle => i = j

HandleInv == \A h \in Handler : DistinctHandles(callbacks[h])

\* A dispatch has called what was there when it began, or comes to it; what it
\* comes to it has not called
DueAhead(f, s) ==
    \A d \in f.due : d \in ToSet(f.called) \/ \E j \in DOMAIN s : j >= f.next /\ s[j].handle = d

NewAhead(f, s) ==
    ~f.grown => /\ IsInjective(f.called)
                /\ \A j \in DOMAIN s : j >= f.next => s[j].handle \notin ToSet(f.called)

FrameInv(f, kinds, lists) ==
    /\ kinds[f.handler] # "free"
    /\ DueAhead(f, lists[f.handler])
    /\ NewAhead(f, lists[f.handler])

\* With careful clients
CarefulInv ==
    /\ \A k \in DOMAIN stack : FrameInv(stack[k], kind, callbacks)
    /\ \A e \in Event : target[e] # NULL => kind[target[e]] # "free"
    /\ callbacks = registered
    /\ \A h \in Handler : \A i \in DOMAIN callbacks[h] : callbacks[h][i].function \in Function

(* The array after ilE_unregister() as its client thinks of it.            *)
LEMMA WithoutIsSeq ==
    ASSUME NEW s \in Seq(Callback), NEW g
    PROVE  /\ Without(s, g) \in Seq(Callback)
           /\ s # <<>> /\ DistinctHandles(s) /\ s[Len(s)].handle = g => Without(s, g) = Front(s)
PROOF
<1> DEFINE n == Len(s)
           Places == {k \in 1..n : s[k].handle = g}
           i == Min(Places)
<1>1. n \in Nat /\ DOMAIN s = 1..n
  BY LenProperties
<1>2. CASE \A k \in 1..n : s[k].handle # g
  <2>1. Without(s, g) = s
    BY <1>2 DEF Without, RemoveFirstMatch
  <2>2. s # <<>> => n \in 1..n
    BY <1>1, EmptySeq
  <2> QED  BY <2>1, <2>2, <1>2
<1>3. CASE \E k \in 1..n : s[k].handle = g
  <2>1. i \in Places
    <3>1. Places \in SUBSET Nat /\ Places # {}
      BY <1>1, <1>3
    <3> QED  BY <3>1, MinIsLeast
  <2>2. Without(s, g) = RemoveAt(s, i)
    <3>1. Places # {}
      BY <1>3
    <3> QED  BY <1>3, <3>1 DEF Without, RemoveFirstMatch, SelectInSeq
  <2>3. RemoveAt(s, i) \in Seq(Callback)
    BY <1>1, <2>1, RemoveByIndex
  <2>4. ASSUME s # <<>>, DistinctHandles(s), s[n].handle = g
        PROVE  Without(s, g) = Front(s)
    <3>1. n \in 1..n
      BY <2>4, <1>1, EmptySeq
    <3>2. i = n
      BY <2>1, <2>4, <1>1, <3>1 DEF DistinctHandles
    <3>3. /\ RemoveAt(s, n) \in Seq(Callback) /\ DOMAIN RemoveAt(s, n) = 1..(n - 1)
          /\ \A k \in 1..(n - 1) : RemoveAt(s, n)[k] = IF k < n THEN s[k] ELSE s[k + 1]
      BY <1>1, <3>1, RemoveByIndex
    <3>4. /\ Front(s) \in Seq(Callback) /\ DOMAIN Front(s) = 1..(n - 1)
          /\ \A k \in 1..(n - 1) : Front(s)[k] = s[k]
      BY <2>4, FrontByIndex
    <3> HIDE DEF n, i
    <3>5. /\ Len(RemoveAt(s, n)) \in Nat /\ 1..Len(RemoveAt(s, n)) = 1..(n - 1)
          /\ Len(Front(s)) \in Nat /\ 1..Len(Front(s)) = 1..(n - 1)
      BY <3>3, <3>4, LenProperties
    <3>6. Len(RemoveAt(s, n)) = Len(Front(s))
      BY <3>5, <1>1
    <3>7. \A k \in 1..Len(Front(s)) : RemoveAt(s, n)[k] = Front(s)[k]
      BY <3>3, <3>4, <3>5, <1>1
    <3>8. RemoveAt(s, n) = Front(s)
      BY <3>3, <3>4, <3>6, <3>7, SeqEqual
    <3> QED  BY <2>2, <3>2, <3>8
  <2> QED  BY <2>2, <2>3, <2>4
<1> QED  BY <1>2, <1>3

(* persistent_handlers after ilE_handler_destroy().                        *)
LEMMA ForgetTakesOut ==
    ASSUME persistent \in Seq(Handler), NEW h
    PROVE  /\ Forget(h) \in Seq(Handler)
           /\ IsInjective(persistent) =>
                 IsInjective(Forget(h)) /\ ToSet(Forget(h)) = ToSet(persistent) \ {h}
PROOF
<1> DEFINE n == Len(persistent)
           Places == {k \in 1..n : persistent[k] = h}
           i == SelectInSeq(persistent, LAMBDA g : g = h)
<1>1. n \in Nat /\ DOMAIN persistent = 1..n
  BY LenProperties
<1>2. i = IF Places # {} THEN Min(Places) ELSE 0
  BY DEF SelectInSeq
<1>3. Forget(h) = IF i = 0 THEN persistent
                  ELSE Front([persistent EXCEPT ![i] = Last(persistent)])
  BY DEF Forget
<1> HIDE DEF i
<1>4. CASE Places = {}
  <2>1. Forget(h) = persistent /\ h \notin ToSet(persistent)
    BY <1>1, <1>2, <1>3, <1>4 DEF ToSet
  <2> QED  BY <2>1
<1>5. CASE Places # {}
  <2>1. i \in 1..n /\ persistent[i] = h
    <3>1. Places \in SUBSET Nat
      BY <1>1
    <3> QED  BY <3>1, <1>2, <1>5, MinIsLeast
  <2>2. persistent[n] \in Handler
    BY <1>1, <2>1, ElementOfSeq
  <2>3. Len([persistent EXCEPT ![i] = persistent[n]]) = n
    BY <2>1, <2>2, ExceptSeq
  <2>4. Forget(h) = SubSeq([persistent EXCEPT ![i] = persistent[n]], 1, n - 1)
    BY <1>1, <1>3, <2>1, <2>3 DEF Front, Last
  <2>5. i \in DOMAIN persistent
    BY <1>1, <2>1
  <2>6. SubSeq([persistent EXCEPT ![i] = persistent[n]], 1, n - 1) \in Seq(Handler)
    BY <2>5, SwapByIndex
  <2>7. ASSUME IsInjective(persistent)
        PROVE  LET t == SubSeq([persistent EXCEPT ![i] = persistent[n]], 1, n - 1)
               IN  IsInjective(t) /\ ToSet(t) = ToSet(persistent) \ {persistent[i]}
    BY <2>5, <2>7, SwapOfInjective
  <2> QED  BY <2>1, <2>4, <2>6, <2>7
<1> QED  BY <1>4, <1>5
-----------------------------------------------------------------------------
(* The stack after a step in which no dispatch begins or ends: the same    *)
(* dispatches, of the same events.                                         *)
SameFrames(t) ==
    /\ DOMAIN t = DOMAIN stack
    /\ \A k \in DOMAIN stack : t[k].handler = stack[k].handler /\ t[k].event = stack[k].event

(* Fields of the dispatches change, but not their handlers and events.     *)
LEMMA FrameEdits ==
    ASSUME stack \in Seq(Frame), NEW t,
           t = [k \in DOMAIN stack |-> t[k]],
           \A k \in DOMAIN stack :
               /\ t[k] \in Frame
               /\ t[k].handler = stack[k].handler /\ t[k].event = stack[k].event
    PROVE  t \in Seq(Frame) /\ SameFrames(t)
PROOF
<1>1. DOMAIN stack = 1..Len(stack) /\ Len(stack) \in Nat
  BY LenProperties
<1>2. t \in Seq(Frame) /\ DOMAIN t = 1..Len(stack)
  BY <1>1, FunctionIsSeq
<1> QED  BY <1>1, <1>2 DEF SameFrames

(* What is put into the fields of a frame that change.                     *)
LEMMA FrameFields ==
    ASSUME NEW f \in Frame
    PROVE  /\ f.handler \in Handler /\ f.event \in Event \cup {NULL} /\ f.next \in Nat \ {0}
           /\ f.calling \in BOOLEAN /\ f.due \in SUBSET Nat /\ f.called \in Seq(Nat)
           /\ f.grown \in BOOLEAN
           /\ [f EXCEPT !.grown = TRUE] \in Frame
           /\ [f EXCEPT !.calling = FALSE] \in Frame
           /\ \A d \in SUBSET Nat : [f EXCEPT !.due = d] \in Frame
           /\ \A c \in Seq(Nat) :
                 [f EXCEPT !.next = f.next + 1, !.calling = TRUE, !.called = c] \in Frame
PROOF
<1> DEFINE Numbers == Seq(Nat)
<1>1. Frame = [handler : Handler, event : Event \cup {NULL}, next : Nat \ {0},
               calling : BOOLEAN, due : SUBSET Nat, called : Numbers, grown : BOOLEAN]
  BY DEF Frame
<1>2. f.called \in Numbers
  BY <1>1
<1> HIDE DEF Numbers
<1>3. /\ f.handler \in Handler /\ f.event \in Event \cup {NULL} /\ f.next \in Nat \ {0}
      /\ f.calling \in BOOLEAN /\ f.due \in SUBSET Nat /\ f.grown \in BOOLEAN
  BY <1>1
<1>4. [f EXCEPT !.grown = TRUE] \in Frame /\ [f EXCEPT !.calling = FALSE] \in Frame
  BY <1>1
<1>5. \A d \in SUBSET Nat : [f EXCEPT !.due = d] \in Frame
  BY <1>1
<1>6. \A c \in Numbers :
          [f EXCEPT !.next = f.next + 1, !.calling = TRUE, !.called = c] \in Frame
  <2>1. f.next + 1 \in Nat \ {0}
    BY <1>3
  <2> QED  BY <1>1, <2>1
<1> QED  BY <1>2, <1>3, <1>4, <1>5, <1>6 DEF Numbers

(* The dispatches while callbacks are registered and unregistered.         *)
LEMMA RegisterFrames ==
    ASSUME TypeOK, NEW h \in Handler, NEW f \in Function, NEW p \in Priority, Register(h, f, p)
    PROVE  stack' \in Seq(Frame) /\ SameFrames(stack')
PROOF
<1>1. stack \in Seq(Frame) /\ \A k \in DOMAIN stack : stack[k] \in Frame
  BY LenProperties, ElementOfSeq DEF TypeOK
<1>2. stack' = [k \in DOMAIN stack |->
                  IF stack[k].handler = h THEN [stack[k] EXCEPT !.grown = TRUE] ELSE stack[k]]
  BY DEF Register
<1>3. \A k \in DOMAIN stack :
          /\ stack'[k] \in Frame
          /\ stack'[k].handler = stack[k].handler /\ stack'[k].event = stack[k].event
  BY <1>1, <1>2, FrameFields DEF Frame
<1> QED  BY <1>1, <1>2, <1>3, FrameEdits

(* No dispatch begins or ends when a callback is unregistered.             *)
LEMMA UnregisterFrames ==
    ASSUME TypeOK, NEW h \in Handler, NEW i \in DOMAIN callbacks[h], Unregister(h, i)
    PROVE  stack' \in Seq(Frame) /\ SameFrames(stack')
PROOF
<1>1. stack \in Seq(Frame) /\ \A k \in DOMAIN stack : stack[k] \in Frame
  BY LenProperties, ElementOfSeq DEF TypeOK
<1>2. stack' = [k \in DOMAIN stack |->
                  IF stack[k].handler = h
                  THEN [stack[k] EXCEPT !.due = stack[k].due \ {callbacks[h][i].handle}]
                  ELSE stack[k]]
  BY DEF Unregister
<1>3. \A k \in DOMAIN stack :
          /\ stack'[k] \in Frame
          /\ stack'[k].handler = stack[k].handler /\ stack'[k].event = stack[k].event
  BY <1>1, <1>2, FrameFields DEF Frame
<1> QED  BY <1>1, <1>2, <1>3, FrameEdits

(* The dispatch on top while it calls, and the others below it.            *)
LEMMA TopByIndex ==
    ASSUME TypeOK, stack # <<>>
    PROVE  /\ Len(stack) \in Nat /\ Len(stack) >= 1 /\ DOMAIN stack = 1..Len(stack)
           /\ 1 \in DOMAIN stack /\ Head(stack) = stack[1] /\ Head(stack) \in Frame
           /\ Tail(stack) \in Seq(Frame) /\ DOMAIN Tail(stack) = 1..(Len(stack) - 1)
           /\ \A k \in 1..(Len(stack) - 1) : Tail(stack)[k] = stack[k + 1]
PROOF
  BY TailByIndex DEF TypeOK

(* Call, by index: the frame on top has called one more.                   *)
LEMMA CallFrames ==
    ASSUME TypeOK, Call
    PROVE  LET f == Head(stack)
               s == callbacks[f.handler]
           IN  /\ f \in Frame /\ f.handler \in Handler /\ f.next \in DOMAIN s
               /\ s[f.next].handle \in Nat
               /\ stack' \in Seq(Frame) /\ SameFrames(stack')
               /\ stack'[1] = [f EXCEPT !.next = f.next + 1, !.calling = TRUE,
                                        !.called = Append(f.called, s[f.next].handle)]
               /\ \A k \in DOMAIN stack : k # 1 => stack'[k] = stack[k]
PROOF
<1> DEFINE f == Head(stack)
           s == callbacks[f.handler]
           g == [f EXCEPT !.next = f.next + 1, !.calling = TRUE,
                          !.called = Append(f.called, s[f.next].handle)]
<1>1. /\ stack # <<>> /\ f.next <= Len(s) /\ stack' = <<g>> \o Tail(stack)
  BY DEF Call
<1>2. /\ Len(stack) \in Nat /\ Len(stack) >= 1 /\ DOMAIN stack = 1..Len(stack)
      /\ f = stack[1] /\ f \in Frame
      /\ Tail(stack) \in Seq(Frame) /\ DOMAIN Tail(stack) = 1..(Len(stack) - 1)
      /\ \A k \in 1..(Len(stack) - 1) : Tail(stack)[k] = stack[k + 1]
  BY <1>1, TopByIndex
<1> HIDE DEF f
<1>3. f.handler \in Handler /\ f.next \in Nat \ {0}
  BY <1>2, FrameFields
<1>4. s \in Seq(Callback)
  BY <1>3 DEF TypeOK
<1>5. DOMAIN s = 1..Len(s) /\ Len(s) \in Nat /\ f.next \in 1..Len(s)
  BY <1>1, <1>3, <1>4, LenProperties
<1>6. s[f.next].handle \in Nat
  <2>1. s[f.next] \in Callback
    BY <1>4, <1>5, ElementOfSeq
  <2> QED  BY <2>1 DEF Callback
<1>7. g \in Frame /\ g.handler = f.handler /\ g.event = f.event
  <2>1. f.called \in Seq(Nat)
    BY <1>2, FrameFields
  <2>2. Append(f.called, s[f.next].handle) \in Seq(Nat)
    BY <1>6, <2>1, AppendProperties
  <2>3. g \in Frame
    BY <1>2, <2>2, FrameFields
  <2>4. g.handler = f.handler /\ g.event = f.event
    BY <1>2 DEF Frame
  <2> QED  BY <2>3, <2>4
<1> HIDE DEF g
<1>8. /\ stack' \in Seq(Frame) /\ DOMAIN stack' = 1..(Len(Tail(stack)) + 1) /\ stack'[1] = g
      /\ \A k \in 2..(Len(Tail(stack)) + 1) : stack'[k] = Tail(stack)[k - 1]
  BY <1>1, <1>2, <1>7, PushByIndex
<1>9. Len(Tail(stack)) = Len(stack) - 1
  BY <1>1, HeadTailProperties DEF TypeOK
<1>10. \A k \in DOMAIN stack : k # 1 => stack'[k] = stack[k]
  <2> SUFFICES ASSUME NEW k \in 1..Len(stack), k # 1
               PROVE  stack'[k] = stack[k]
    BY <1>2
  <2>1. k \in 2..Len(stack) /\ k - 1 \in 1..(Len(stack) - 1) /\ (k - 1) + 1 = k
    BY <1>2
  <2> QED  BY <2>1, <1>2, <1>8, <1>9
<1>11. SameFrames(stack')
  BY <1>2, <1>7, <1>8, <1>9, <1>10 DEF SameFrames
<1> QED  BY <1>2, <1>3, <1>5, <1>6, <1>8, <1>10, <1>11 DEF f, g

(* A new dispatch, on top of the others.                                   *)
LEMMA DispatchIsFrame ==
    ASSUME TypeOK, NEW h \in Handler, NEW e \in Event \cup {NULL}
    PROVE  Dispatch(h, e) \in Frame
PROOF
<1>1. \A i \in DOMAIN callbacks[h] : callbacks[h][i].handle \in Nat
  <2>1. callbacks[h] \in Seq(Callback)
    BY DEF TypeOK
  <2>2. \A i \in DOMAIN callbacks[h] : callbacks[h][i] \in Callback
    BY <2>1, LenProperties, ElementOfSeq
  <2> QED  BY <2>2 DEF Callback
<1>2. Handles(callbacks[h]) \in SUBSET Nat
  BY <1>1 DEF Handles
<1>3. <<>> \in Seq(Nat)
  BY EmptySeq
<1> QED  BY <1>2, <1>3 DEF Dispatch, Frame

(* ilE_handler_fire(), by index.                                           *)
LEMMA FireFrames ==
    ASSUME TypeOK, NEW h \in Handler, Fire(h)
    PROVE  /\ stack' \in Seq(Frame) /\ stack' # <<>>
           /\ DOMAIN stack' = 1..(Len(stack) + 1) /\ DOMAIN stack = 1..Len(stack)
           /\ Len(stack) \in Nat
           /\ stack'[1] = Dispatch(h, NULL)
           /\ \A k \in 2..(Len(stack) + 1) : stack'[k] = stack[k - 1]
PROOF
<1>1. Dispatch(h, NULL) \in Frame
  BY DispatchIsFrame
<1>2. stack' = <<Dispatch(h, NULL)>> \o stack /\ stack \in Seq(Frame)
  BY DEF Fire, TypeOK
<1> QED  BY <1>1, <1>2, PushByIndex, LenProperties

(* A stack of one dispatch.                                                *)
LEMMA OneFrame ==
    ASSUME NEW f \in Frame
    PROVE  <<f>> \in Seq(Frame) /\ DOMAIN <<f>> = {1} /\ <<f>>[1] = f
PROOF
  BY LenProperties

(* Return, by index.                                                       *)
LEMMA ReturnFrames ==
    ASSUME TypeOK, Return
    PROVE  /\ stack' \in Seq(Frame) /\ SameFrames(stack')
           /\ 1 \in DOMAIN stack /\ stack'[1] = [stack[1] EXCEPT !.calling = FALSE]
           /\ \A k \in DOMAIN stack : k # 1 => stack'[k] = stack[k]
PROOF
<1>1. 1 \in DOMAIN stack /\ 1 \in 1..Len(stack) /\ DOMAIN stack = 1..Len(stack)
  BY TopByIndex DEF Return
<1>2. \A k \in DOMAIN stack : stack[k] \in Frame
  BY <1>1, ElementOfSeq DEF TypeOK
<1>3. stack' = [stack EXCEPT ![1] = [stack[1] EXCEPT !.calling = FALSE]]
  BY DEF Return
<1>4. [stack[1] EXCEPT !.calling = FALSE] \in Frame
  BY <1>1, <1>2, FrameFields
<1>5. /\ stack' = [k \in DOMAIN stack |-> stack'[k]]
      /\ stack'[1] = [stack[1] EXCEPT !.calling = FALSE]
      /\ \A k \in DOMAIN stack : k # 1 => stack'[k] = stack[k]
  BY <1>1, <1>3
<1>6. /\ [stack[1] EXCEPT !.calling = FALSE].handler = stack[1].handler
      /\ [stack[1] EXCEPT !.calling = FALSE].event = stack[1].event
  BY <1>1, <1>2 DEF Frame
<1>7. \A k \in DOMAIN stack :
          /\ stack'[k] \in Frame
          /\ stack'[k].handler = stack[k].handler /\ stack'[k].event = stack[k].event
  BY <1>2, <1>4, <1>5, <1>6
<1> QED  BY <1>1, <1>5, <1>7, FrameEdits DEF TypeOK

(* The first free slot of pending_events, or a new one, takes an event.    *)
LEMMA PendingSlot ==
    ASSUME TypeOK, NEW h \in Handler, NEW e \in Event, FireAsync(h, e)
    PROVE  /\ pending' \in Seq(Event \cup {NULL})
           /\ \E slot \in DOMAIN pending' :
                 /\ pending'[slot] = e
                 /\ slot \in DOMAIN pending => pending[slot] = NULL
                 /\ DOMAIN pending' = DOMAIN pending \cup {slot}
                 /\ \A i \in DOMAIN pending : i # slot => pending'[i] = pending[i]
PROOF
<1> DEFINE n == Len(pending)
           Places == {k \in 1..n : pending[k] = NULL}
           slot == SelectInSeq(pending, LAMBDA x : x = NULL)
<1>1. n \in Nat /\ DOMAIN pending = 1..n /\ pending \in Seq(Event \cup {NULL})
  BY LenProperties DEF TypeOK
<1>2. slot = IF Places # {} THEN Min(Places) ELSE 0
  BY DEF SelectInSeq
<1>3. pending' = IF slot = 0 THEN Append(pending, e) ELSE [pending EXCEPT ![slot] = e]
  BY DEF FireAsync
<1> HIDE DEF slot
<1>4. CASE Places = {}
  <2>1. pending' = Append(pending, e)
    BY <1>2, <1>3, <1>4
  <2>2. /\ pending' \in Seq(Event \cup {NULL})
        /\ DOMAIN pending' = 1..(n + 1) /\ pending'[n + 1] = e
        /\ \A i \in 1..n : pending'[i] = pending[i]
    BY <1>1, <2>1, SetOfAppend
  <2>3. n + 1 \in 1..(n + 1) /\ n + 1 \notin 1..n /\ 1..(n + 1) = (1..n) \cup {n + 1}
    BY <1>1
  <2> QED  BY <1>1, <2>2, <2>3
<1>5. CASE Places # {}
  <2>1. slot \in 1..n /\ pending[slot] = NULL
    <3>1. Places \in SUBSET Nat
      BY <1>1
    <3> QED  BY <3>1, <1>2, <1>5, MinIsLeast
  <2>2. pending' = [pending EXCEPT ![slot] = e]
    BY <1>3, <2>1
  <2>3. pending' \in Seq(Event \cup {NULL})
    BY <1>1, <2>1, <2>2, ExceptSeq
  <2> QED  BY <1>1, <2>1, <2>2, <2>3
<1> QED  BY <1>4, <1>5

(* Its slot is free again when an event is run.                            *)
LEMMA PendingCleared ==
    ASSUME TypeOK, RunEvent
    PROVE  /\ pending' \in Seq(Event \cup {NULL}) /\ DOMAIN pending' = DOMAIN pending
           /\ \A i \in DOMAIN pending :
                 pending'[i] = IF pending[i] = Head(active) THEN NULL ELSE pending[i]
PROOF
<1>1. DOMAIN pending = 1..Len(pending) /\ Len(pending) \in Nat
  BY LenProperties DEF TypeOK
<1>2. \A i \in 1..Len(pending) : pending[i] \in Event \cup {NULL}
  BY ElementOfSeq DEF TypeOK
<1>3. pending' = [i \in DOMAIN pending |->
                    IF pending[i] = Head(active) THEN NULL ELSE pending[i]]
  BY DEF RunEvent
<1>4. pending' = [i \in 1..Len(pending) |-> pending'[i]]
  BY <1>1, <1>3
<1>5. \A i \in 1..Len(pending) : pending'[i] \in Event \cup {NULL}
  BY <1>1, <1>2, <1>3
<1>6. pending' \in Seq(Event \cup {NULL})
  BY <1>1, <1>4, <1>5, FunctionIsSeq
<1> QED  BY <1>3, <1>6

(* Each action keeps the types.                                            *)
LEMMA TypeNext ==
    ASSUME TypeOK, AsyncInv, [Next]_vars
    PROVE  TypeOK'
PROOF
<1>1. ASSUME NEW h \in Handler, NEW k \in Kind, New(h, k)
      PROVE  TypeOK'
  <2>1. persistent' \in Seq(Handler)
    BY <1>1, AppendProperties DEF New, TypeOK
  <2>2. /\ kind' \in [Handler -> Kind \cup {"free"}]
        /\ callbacks' \in [Handler -> Seq(Callback)] /\ registered' \in [Handler -> Seq(Callback)]
        /\ cur_id' \in [Handler -> Nat]
    BY <1>1, EmptySeq DEF New, TypeOK
  <2>3. calls' \in 0..MaxCalls
    BY <1>1, EventAssumption DEF New, Client, TypeOK
  <2> QED  BY <1>1, <2>1, <2>2, <2>3 DEF New, TypeOK, loop
<1>2. ASSUME NEW h \in Handler, NEW f \in Function, NEW p \in Priority, Register(h, f, p)
      PROVE  TypeOK'
  <2> DEFINE c == [function |-> f, priority |-> p, handle |-> cur_id[h]]
  <2>1. c \in Callback
    BY EventAssumption DEF Callback, TypeOK
  <2>2. ILInsert(callbacks[h], c) \in Seq(Callback) /\ ILInsert(registered[h], c) \in Seq(Callback)
    BY <2>1, InsertIsSeq DEF TypeOK
  <2>3. /\ callbacks' = [callbacks EXCEPT ![h] = ILInsert(callbacks[h], c)]
        /\ registered' = [registered EXCEPT ![h] = ILInsert(registered[h], c)]
        /\ cur_id' = [cur_id EXCEPT ![h] = cur_id[h] + 1]
        /\ UNCHANGED <<kind, persistent, loop>>
    BY <1>2 DEF Register
  <2>4. calls' \in 0..MaxCalls
    BY <1>2, EventAssumption DEF Register, Client, TypeOK
  <2>5. stack' \in Seq(Frame)
    BY <1>2, RegisterFrames
  <2> HIDE DEF c
  <2> QED  BY <2>2, <2>3, <2>4, <2>5 DEF TypeOK, loop
<1>3. ASSUME NEW h \in Handler, NEW i \in DOMAIN callbacks[h], Unregister(h, i)
      PROVE  TypeOK'
  <2>1. PICK s \in ILRemove(callbacks[h], i) : callbacks' = [callbacks EXCEPT ![h] = s]
    BY <1>3 DEF Unregister
  <2>2. s \in Seq(Callback)
    BY RemoveByPlace DEF TypeOK
  <2>3. /\ registered' = [registered EXCEPT ![h] = Without(registered[h], callbacks[h][i].handle)]
        /\ UNCHANGED <<kind, cur_id, persistent, loop>>
    BY <1>3 DEF Unregister
  <2>4. Without(registered[h], callbacks[h][i].handle) \in Seq(Callback)
    BY WithoutIsSeq DEF TypeOK
  <2>5. calls' \in 0..MaxCalls
    BY <1>3, EventAssumption DEF Unregister, Client, TypeOK
  <2>6. stack' \in Seq(Frame)
    BY <1>3, UnregisterFrames
  <2> QED  BY <2>1, <2>2, <2>3, <2>4, <2>5, <2>6 DEF TypeOK, loop
<1>4. ASSUME NEW h \in Handler, Destroy(h)
      PROVE  TypeOK'
  <2>1. persistent' \in Seq(Handler)
    BY <1>4, ForgetTakesOut DEF Destroy, TypeOK
  <2>2. active' \in Seq(Event \cup Handler)
    BY <1>4, RemoveFirstOfInjective DEF Destroy, TypeOK, AsyncInv
  <2>3. calls' \in 0..MaxCalls
    BY <1>4, EventAssumption DEF Destroy, Client, TypeOK
  <2>4. kind' \in [Handler -> Kind \cup {"free"}]
    BY <1>4 DEF Destroy, TypeOK
  <2> QED  BY <1>4, <2>1, <2>2, <2>3, <2>4 DEF Destroy, TypeOK
<1>5. ASSUME NEW h \in Handler, Fire(h)
      PROVE  TypeOK'
  <2>1. calls' \in 0..MaxCalls
    BY <1>5, EventAssumption DEF Fire, Client, TypeOK
  <2> QED  BY <1>5, <2>1, FireFrames DEF Fire, TypeOK, handlers, loop
<1>6. ASSUME NEW h \in Handler, NEW e \in Event, FireAsync(h, e)
      PROVE  TypeOK'
  <2>1. calls' \in 0..MaxCalls
    BY <1>6, EventAssumption DEF FireAsync, Client, TypeOK
  <2>2. active' \in Seq(Event \cup Handler)
    BY <1>6, AppendProperties DEF FireAsync, TypeOK
  <2>3. target' \in [Event -> Handler \cup {NULL}]
    BY <1>6 DEF FireAsync, TypeOK
  <2>4. pending' \in Seq(Event \cup {NULL})
    BY <1>6, PendingSlot DEF TypeOK
  <2> QED  BY <1>6, <2>1, <2>2, <2>3, <2>4 DEF FireAsync, TypeOK, handlers
<1>7. ASSUME NEW h \in Handler, Ready(h)
      PROVE  TypeOK'
  BY <1>7, AppendProperties DEF Ready, TypeOK, handlers
<1>8. CASE RunEvent
  <2>1. /\ active # <<>> /\ Head(active) \in Event /\ Head(active) \in ToSet(active)
        /\ active' \in Seq(Event \cup Handler)
    BY <1>8, TailOfInjective DEF RunEvent, TypeOK, AsyncInv
  <2>2. target[Head(active)] \in Handler
    BY <2>1 DEF TypeOK, AsyncInv
  <2>3. stack' \in Seq(Frame)
    BY <1>8, <2>1, <2>2, DispatchIsFrame, OneFrame DEF RunEvent
  <2>4. pending' \in Seq(Event \cup {NULL})
    BY <1>8, PendingCleared DEF RunEvent, TypeOK
  <2> QED  BY <1>8, <2>1, <2>3, <2>4 DEF RunEvent, TypeOK, handlers
<1>9. CASE RunReady
  <2>1. active' \in Seq(Event \cup Handler)
    BY <1>9, HeadTailProperties DEF RunReady, TypeOK
  <2>2. stack' \in Seq(Frame)
    BY <1>9, DispatchIsFrame, OneFrame, EmptySeq DEF RunReady
  <2> QED  BY <1>9, <2>1, <2>2 DEF RunReady, TypeOK, handlers
<1>10. CASE Call
  <2>1. stack' \in Seq(Frame)
    BY <1>10, CallFrames
  <2> QED  BY <1>10, <2>1 DEF Call, TypeOK, handlers, loop
<1>11. CASE Return
  BY <1>11, ReturnFrames DEF Return, TypeOK, handlers, loop
<1>12. CASE EndDispatch
  <2>1. stack' \in Seq(Frame)
    BY <1>12, TopByIndex DEF EndDispatch
  <2>2. target' \in [Event -> Handler \cup {NULL}]
    BY <1>12 DEF EndDispatch, TypeOK
  <2> QED  BY <1>12, <2>1, <2>2 DEF EndDispatch, TypeOK, handlers
<1>13. CASE Idle \/ UNCHANGED vars
  BY <1>13 DEF Idle, vars, handlers, loop, TypeOK
<1> QED  BY <1>1, <1>2, <1>3, <1>4, <1>5, <1>6, <1>7, <1>8, <1>9, <1>10, <1>11, <1>12, <1>13
         DEF Next, Loop

-----------------------------------------------------------------------------
\* No event is under way twice
OneDispatchEach ==
    \A j, k \in DOMAIN stack : stack[j].event = stack[k].event /\ stack[j].event # NULL => j = k

(* What is under way when no dispatch begins or ends.                      *)
LEMMA SameRunning ==
    ASSUME SameFrames(stack')
    PROVE  Running' = Running /\ (OneDispatchEach => OneDispatchEach')
PROOF
<1>1. DOMAIN stack' = DOMAIN stack /\ \A k \in DOMAIN stack : stack'[k].event = stack[k].event
  BY DEF SameFrames
<1> QED  BY <1>1 DEF Running, OneDispatchEach

(* What is under way when a dispatch begins without an event.              *)
LEMMA FireRunning ==
    ASSUME TypeOK, NEW h \in Handler, Fire(h)
    PROVE  Running' = Running /\ (OneDispatchEach => OneDispatchEach')
PROOF
<1>1. /\ DOMAIN stack' = 1..(Len(stack) + 1) /\ DOMAIN stack = 1..Len(stack)
      /\ Len(stack) \in Nat
      /\ stack'[1] = Dispatch(h, NULL)
      /\ \A k \in 2..(Len(stack) + 1) : stack'[k] = stack[k - 1]
  BY FireFrames
<1>2. stack'[1].event = NULL
  BY <1>1 DEF Dispatch
<1>3. \A k \in DOMAIN stack' : k = 1 \/ (k - 1 \in DOMAIN stack /\ stack'[k] = stack[k - 1])
  BY <1>1
<1>4. \A k \in DOMAIN stack : k + 1 \in DOMAIN stack' /\ stack'[k + 1] = stack[k]
  <2> SUFFICES ASSUME NEW k \in 1..Len(stack)
               PROVE  k + 1 \in DOMAIN stack' /\ stack'[k + 1] = stack[k]
    BY <1>1
  <2>1. k + 1 \in 2..(Len(stack) + 1) /\ (k + 1) - 1 = k
    BY <1>1
  <2> QED  BY <2>1, <1>1
<1>5. Running' = Running
  BY <1>2, <1>3, <1>4 DEF Running
<1>6. ASSUME OneDispatchEach
      PROVE  OneDispatchEach'
  <2> SUFFICES ASSUME NEW j \in DOMAIN stack', NEW k \in DOMAIN stack',
                      stack'[j].event = stack'[k].event, stack'[j].event # NULL
               PROVE  j = k
    BY DEF OneDispatchEach
  <2>1. /\ j - 1 \in DOMAIN stack /\ stack'[j] = stack[j - 1]
        /\ k - 1 \in DOMAIN stack /\ stack'[k] = stack[k - 1]
    BY <1>2, <1>3
  <2>2. j - 1 = k - 1
    BY <2>1, <1>6 DEF OneDispatchEach
  <2> QED  BY <2>2, <1>1
<1> QED  BY <1>5, <1>6

(* What is under way when the innermost dispatch ends.                     *)
LEMMA EndRunning ==
    ASSUME TypeOK, OneDispatchEach, EndDispatch
    PROVE  Running' = Running \ {Head(stack).event} /\ OneDispatchEach'
PROOF
<1>1. /\ Len(stack) \in Nat /\ Len(stack) >= 1 /\ DOMAIN stack = 1..Len(stack)
      /\ Head(stack) = stack[1] /\ 1 \in DOMAIN stack
      /\ DOMAIN stack' = 1..(Len(stack) - 1)
      /\ \A k \in 1..(Len(stack) - 1) : stack'[k] = stack[k + 1]
  BY TopByIndex DEF EndDispatch
<1>2. \A k \in DOMAIN stack' : k \in Int /\ k + 1 \in DOMAIN stack /\ k + 1 # 1 /\ stack'[k] = stack[k + 1]
  BY <1>1
<1>3. \A k \in DOMAIN stack : k # 1 => k - 1 \in DOMAIN stack' /\ stack'[k - 1] = stack[k]
  <2> SUFFICES ASSUME NEW k \in 1..Len(stack), k # 1
               PROVE  k - 1 \in DOMAIN stack' /\ stack'[k - 1] = stack[k]
    BY <1>1
  <2>1. k - 1 \in 1..(Len(stack) - 1) /\ (k - 1) + 1 = k
    BY <1>1
  <2> QED  BY <2>1, <1>1
<1>4. Running' = Running \ {Head(stack).event}
  <2>1. ASSUME NEW e \in Running'
        PROVE  e \in Running \ {Head(stack).event}
    <3>1. PICK k \in DOMAIN stack' : e = stack'[k].event /\ e # NULL
      BY <2>1 DEF Running
    <3>2. e = stack[k + 1].event /\ k + 1 \in DOMAIN stack /\ k + 1 # 1
      BY <3>1, <1>2
    <3> QED  BY <3>1, <3>2, <1>1 DEF Running, OneDispatchEach
  <2>2. ASSUME NEW e \in Running, e # Head(stack).event
        PROVE  e \in Running'
    <3>1. PICK k \in DOMAIN stack : e = stack[k].event /\ e # NULL
      BY <2>2 DEF Running
    <3>2. k # 1
      BY <3>1, <2>2, <1>1
    <3> QED  BY <3>1, <3>2, <1>3 DEF Running
  <2> QED  BY <2>1, <2>2
<1>5. OneDispatchEach'
  <2> SUFFICES ASSUME NEW j \in DOMAIN stack', NEW k \in DOMAIN stack',
                      stack'[j].event = stack'[k].event, stack'[j].event # NULL
               PROVE  j = k
    BY DEF OneDispatchEach
  <2>1. j + 1 = k + 1
    BY <1>2 DEF OneDispatchEach
  <2> QED  BY <2>1, <1>2
<1> QED  BY <1>4, <1>5

(* The event loop between dispatches.                                      *)
LEMMA NoneRunning ==
    ASSUME stack = <<>>
    PROVE  Running = {}
PROOF
  BY DEF Running

(* What is under way when the loop has begun a dispatch.                   *)
LEMMA OneRunning ==
    ASSUME NEW f \in Frame, stack' = <<f>>
    PROVE  Running' = {f.event} \ {NULL} /\ OneDispatchEach'
PROOF
<1>1. DOMAIN stack' = {1} /\ stack'[1] = f
  BY OneFrame
<1> QED  BY <1>1 DEF Running, OneDispatchEach

(* Each event stays in one place.                                          *)
LEMMA AsyncNext ==
    ASSUME TypeOK, AsyncInv, [Next]_vars
    PROVE  AsyncInv'
PROOF
<1> USE DEF OneDispatchEach
<1>0. active \in Seq(Event \cup Handler) /\ target \in [Event -> Handler \cup {NULL}]
  BY DEF TypeOK
<1>1. ASSUME NEW h \in Handler, NEW k \in Kind, New(h, k)
      PROVE  AsyncInv'
  <2>1. Running' = Running
    BY <1>1 DEF New, Running
  <2> QED  BY <1>1, <2>1 DEF New, AsyncInv, loop, TypeOK
<1>2. ASSUME SameFrames(stack'), UNCHANGED <<kind, active, target>>
      PROVE  AsyncInv'
  BY <1>2, SameRunning DEF AsyncInv
<1>3. ASSUME NEW h \in Handler, Destroy(h)
      PROVE  AsyncInv'
  <2>1. IsInjective(active') /\ ToSet(active') = ToSet(active) \ {h}
    BY <1>0, <1>3, RemoveFirstOfInjective DEF Destroy, AsyncInv
  <2>2. kind' = [kind EXCEPT ![h] = "free"] /\ UNCHANGED <<target, stack>>
    BY <1>3 DEF Destroy
  <2>3. Running' = Running
    BY <2>2 DEF Running
  <2>4. h \notin Event
    BY EventAssumption
  <2> QED  BY <2>1, <2>2, <2>3, <2>4 DEF AsyncInv, TypeOK
<1>4. ASSUME NEW h \in Handler, Fire(h)
      PROVE  AsyncInv'
  BY <1>4, FireRunning DEF Fire, AsyncInv, handlers, loop
<1>5. ASSUME NEW h \in Handler, NEW e \in Event, FireAsync(h, e)
      PROVE  AsyncInv'
  <2>1. /\ target[e] = NULL /\ target' = [target EXCEPT ![e] = h]
        /\ active' = Append(active, e) /\ UNCHANGED <<kind, stack>>
    BY <1>5 DEF FireAsync, handlers
  <2>2. e \notin ToSet(active) /\ e \notin Running
    BY <2>1 DEF AsyncInv
  <2>3. IsInjective(active') /\ ToSet(active') = ToSet(active) \cup {e}
    BY <1>0, <2>1, <2>2, AppendToInjective DEF AsyncInv
  <2>4. Running' = Running
    BY <2>1 DEF Running
  <2>5. h # NULL /\ e \notin Handler
    BY EventAssumption
  <2> QED  BY <1>0, <2>1, <2>2, <2>3, <2>4, <2>5 DEF AsyncInv
<1>6. ASSUME NEW h \in Handler, Ready(h)
      PROVE  AsyncInv'
  <2>1. /\ kind[h] \in {"timer", "read", "readasarg"} /\ h \notin ToSet(active)
        /\ active' = Append(active, h) /\ UNCHANGED <<kind, target, stack>>
    BY <1>6 DEF Ready, handlers
  <2>2. IsInjective(active') /\ ToSet(active') = ToSet(active) \cup {h}
    BY <1>0, <2>1, AppendToInjective DEF AsyncInv
  <2>3. Running' = Running /\ Running = {}
    BY <1>6, <2>1, NoneRunning DEF Running, Ready
  <2>4. h \notin Event
    BY EventAssumption
  <2> QED  BY <2>1, <2>2, <2>3, <2>4 DEF AsyncInv
<1>7. CASE RunEvent
  <2> DEFINE e == Head(active)
  <2>1. /\ stack = <<>> /\ active # <<>> /\ e \in Event /\ active' = Tail(active)
        /\ stack' = <<Dispatch(target[e], e)>> /\ UNCHANGED <<kind, target>>
    BY <1>7 DEF RunEvent, handlers
  <2>2. IsInjective(active') /\ ToSet(active') = ToSet(active) \ {e} /\ e \in ToSet(active)
    BY <1>0, <2>1, TailOfInjective DEF AsyncInv
  <2> HIDE DEF e
  <2>3. target[e] \in Handler
    BY <1>0, <2>1, <2>2 DEF AsyncInv
  <2>4. Dispatch(target[e], e).event = e /\ e # NULL
    BY <2>1, EventAssumption DEF Dispatch
  <2>5. Running' = {e} /\ OneDispatchEach' /\ Running = {}
    BY <2>1, <2>3, <2>4, DispatchIsFrame, OneRunning, NoneRunning
  <2> QED  BY <2>1, <2>2, <2>5 DEF AsyncInv
<1>8. CASE RunReady
  <2> DEFINE h == Head(active)
  <2>1. /\ stack = <<>> /\ active # <<>> /\ h \in Handler /\ active' = Tail(active)
        /\ stack' \in {<<>>, <<Dispatch(h, NULL)>>} /\ UNCHANGED <<kind, target>>
    BY <1>8 DEF RunReady, handlers
  <2>2. IsInjective(active') /\ ToSet(active') = ToSet(active) \ {h}
    BY <1>0, <2>1, TailOfInjective DEF AsyncInv
  <2> HIDE DEF h
  <2>3. Running' = {} /\ OneDispatchEach' /\ Running = {}
    <3>1. CASE stack' = <<>>
      BY <3>1, <2>1 DEF Running
    <3>2. CASE stack' = <<Dispatch(h, NULL)>>
      <4>1. Dispatch(h, NULL).event = NULL /\ Dispatch(h, NULL) \in Frame
        BY <2>1, DispatchIsFrame DEF Dispatch
      <4> QED  BY <3>2, <4>1, <2>1, OneRunning, NoneRunning
    <3> QED  BY <3>1, <3>2, <2>1
  <2>4. h \notin Event
    BY <2>1, EventAssumption
  <2> QED  BY <2>1, <2>2, <2>3, <2>4 DEF AsyncInv
<1>9. CASE EndDispatch
  <2> DEFINE e == Head(stack).event
  <2>1. Running' = Running \ {e} /\ OneDispatchEach'
    BY <1>9, EndRunning DEF AsyncInv
  <2>2. target' = [x \in Event |-> IF x = e THEN NULL ELSE target[x]] /\ UNCHANGED <<kind, active>>
    BY <1>9 DEF EndDispatch, handlers
  <2>3. e # NULL => e \in Running
    BY <1>9, TopByIndex DEF EndDispatch, Running
  <2> HIDE DEF e
  <2>4. ASSUME NEW x \in Event
        PROVE  (target[x] # NULL <=> x \in ToSet(active) \cup Running)'
    <3>1. x # NULL
      BY EventAssumption
    <3>2. CASE x = e
      BY <3>1, <3>2, <2>1, <2>2, <2>3 DEF AsyncInv
    <3>3. CASE x # e
      BY <3>3, <2>1, <2>2 DEF AsyncInv
    <3> QED  BY <3>2, <3>3
  <2> QED  BY <2>1, <2>2, <2>4 DEF AsyncInv
<1>10. ASSUME NEW h \in Handler, NEW f \in Function, NEW p \in Priority, Register(h, f, p)
       PROVE  AsyncInv'
  BY <1>2, <1>10, RegisterFrames DEF Register, loop
<1>11. ASSUME NEW h \in Handler, NEW i \in DOMAIN callbacks[h], Unregister(h, i)
       PROVE  AsyncInv'
  BY <1>2, <1>11, UnregisterFrames DEF Unregister, loop
<1>12. CASE Call \/ Return
  BY <1>2, <1>12, CallFrames, ReturnFrames DEF Call, Return, handlers, loop
<1>13. CASE Idle \/ UNCHANGED vars
  BY <1>13 DEF Idle, vars, handlers, loop, AsyncInv, Running
<1> QED  BY <1>1, <1>3, <1>4, <1>5, <1>6, <1>7, <1>8, <1>9, <1>10, <1>11, <1>12, <1>13
         DEF Next, Loop
(* pending_events and libevent's queue change together.                    *)
LEMMA PendingNext ==
    ASSUME TypeOK, AsyncInv, PendingInv, [Next]_vars
    PROVE  PendingInv'
PROOF
<1>0. active \in Seq(Event \cup Handler) /\ pending \in Seq(Event \cup {NULL})
  BY DEF TypeOK
<1>1. CASE UNCHANGED <<active, pending>>
  BY <1>1 DEF PendingInv
<1>2. ASSUME NEW h \in Handler, Destroy(h)
      PROVE  PendingInv'
  <2>1. ToSet(active') = ToSet(active) \ {h} /\ pending' = pending
    BY <1>0, <1>2, RemoveFirstOfInjective DEF Destroy, AsyncInv
  <2>2. h \notin Event
    BY EventAssumption
  <2> QED  BY <2>1, <2>2 DEF PendingInv
<1>3. ASSUME NEW h \in Handler, NEW e \in Event, FireAsync(h, e)
      PROVE  PendingInv'
  <2>1. ToSet(active') = ToSet(active) \cup {e}
    BY <1>0, <1>3, SetOfAppend DEF FireAsync
  <2>2. e \notin ToSet(active) /\ e # NULL
    BY <1>3, EventAssumption DEF FireAsync, AsyncInv
  <2>3. PICK slot \in DOMAIN pending' :
            /\ pending'[slot] = e
            /\ slot \in DOMAIN pending => pending[slot] = NULL
            /\ DOMAIN pending' = DOMAIN pending \cup {slot}
            /\ \A i \in DOMAIN pending : i # slot => pending'[i] = pending[i]
    BY <1>3, PendingSlot
  <2>4. e \notin ToSet(pending)
    BY <2>2 DEF PendingInv
  <2>5. \A i \in DOMAIN pending : pending[i] # e
    BY <2>4 DEF ToSet
  <2>6. ToSet(pending') \ {NULL} = (ToSet(pending) \ {NULL}) \cup {e}
    <3>1. ASSUME NEW x \in ToSet(pending'), x # NULL
          PROVE  x \in (ToSet(pending) \ {NULL}) \cup {e}
      BY <2>3, <3>1 DEF ToSet
    <3>2. ASSUME NEW x \in ToSet(pending), x # NULL
          PROVE  x \in ToSet(pending')
      BY <2>3, <3>2 DEF ToSet
    <3>3. e \in ToSet(pending')
      BY <2>3 DEF ToSet
    <3> QED  BY <3>1, <3>2, <3>3, <2>2
  <2>7. \A i, j \in DOMAIN pending' : pending'[i] = pending'[j] /\ pending'[i] # NULL => i = j
    BY <2>3, <2>5 DEF PendingInv
  <2> QED  BY <2>1, <2>6, <2>7 DEF PendingInv
<1>4. ASSUME NEW h \in Handler, Ready(h)
      PROVE  PendingInv'
  <2>1. ToSet(active') = ToSet(active) \cup {h} /\ pending' = pending
    BY <1>0, <1>4, SetOfAppend DEF Ready
  <2>2. h \notin Event
    BY EventAssumption
  <2> QED  BY <2>1, <2>2 DEF PendingInv
<1>5. CASE RunEvent
  <2> DEFINE e == Head(active)
  <2>1. ToSet(active') = ToSet(active) \ {e} /\ e \in Event /\ e # NULL
    BY <1>0, <1>5, TailOfInjective, EventAssumption DEF RunEvent, AsyncInv
  <2>2. /\ DOMAIN pending' = DOMAIN pending
        /\ \A i \in DOMAIN pending : pending'[i] = IF pending[i] = e THEN NULL ELSE pending[i]
    BY <1>5, PendingCleared
  <2> HIDE DEF e
  <2>3. ToSet(pending') \ {NULL} = (ToSet(pending) \ {NULL}) \ {e}
    <3>1. ASSUME NEW x \in ToSet(pending'), x # NULL
          PROVE  x \in ToSet(pending) /\ x # e
      BY <2>2, <3>1 DEF ToSet
    <3>2. ASSUME NEW x \in ToSet(pending), x # NULL, x # e
          PROVE  x \in ToSet(pending')
      BY <2>2, <3>2 DEF ToSet
    <3> QED  BY <3>1, <3>2
  <2>4. \A i, j \in DOMAIN pending' : pending'[i] = pending'[j] /\ pending'[i] # NULL => i = j
    BY <2>2 DEF PendingInv
  <2> QED  BY <2>1, <2>3, <2>4 DEF PendingInv
<1>6. CASE RunReady
  <2>1. ToSet(active') = ToSet(active) \ {Head(active)} /\ pending' = pending
    BY <1>0, <1>6, TailOfInjective DEF RunReady, AsyncInv
  <2>2. Head(active) \notin Event
    BY <1>6, EventAssumption DEF RunReady
  <2> QED  BY <2>1, <2>2 DEF PendingInv
<1>7. CASE \/ \E h \in Handler :
                 \/ \E k \in Kind : New(h, k)
                 \/ \E f \in Function, p \in Priority : Register(h, f, p)
                 \/ \E i \in DOMAIN callbacks[h] : Unregister(h, i)
                 \/ Fire(h)
           \/ Call \/ Return \/ EndDispatch \/ Idle \/ UNCHANGED vars
  <2>1. UNCHANGED <<active, pending>>
    BY <1>7 DEF New, Register, Unregister, Fire, Call, Return, EndDispatch, Idle, loop, vars
  <2> QED  BY <2>1, <1>1
<1> QED  BY <1>2, <1>3, <1>4, <1>5, <1>6, <1>7 DEF Next, Loop

(* persistent_handlers follows the timers and watchers that exist.         *)
LEMMA PersistentNext ==
    ASSUME TypeOK, PersistentInv, [Next]_vars
    PROVE  PersistentInv'
PROOF
<1>0. persistent \in Seq(Handler) /\ kind \in [Handler -> Kind \cup {"free"}]
  BY DEF TypeOK
<1>1. CASE UNCHANGED <<persistent, kind>>
  BY <1>1 DEF PersistentInv
<1>2. ASSUME NEW h \in Handler, NEW k \in Kind, New(h, k)
      PROVE  PersistentInv'
  <2>1. /\ kind[h] = "free" /\ kind' = [kind EXCEPT ![h] = k] /\ k # "free"
        /\ persistent' = IF k = "normal" THEN persistent ELSE Append(persistent, h)
    BY <1>2, EventAssumption DEF New
  <2>2. h \notin ToSet(persistent)
    BY <2>1 DEF PersistentInv
  <2>3. CASE k = "normal"
    BY <1>0, <2>1, <2>3 DEF PersistentInv
  <2>4. CASE k # "normal"
    <3>1. IsInjective(persistent') /\ ToSet(persistent') = ToSet(persistent) \cup {h}
      BY <1>0, <2>1, <2>2, <2>4, AppendToInjective DEF PersistentInv
    <3> QED  BY <1>0, <2>1, <2>4, <3>1 DEF PersistentInv
  <2> QED  BY <2>3, <2>4
<1>3. ASSUME NEW h \in Handler, Destroy(h)
      PROVE  PersistentInv'
  <2>1. IsInjective(persistent') /\ ToSet(persistent') = ToSet(persistent) \ {h}
    BY <1>0, <1>3, ForgetTakesOut DEF Destroy, PersistentInv
  <2>2. kind' = [kind EXCEPT ![h] = "free"]
    BY <1>3 DEF Destroy
  <2> QED  BY <1>0, <2>1, <2>2 DEF PersistentInv
<1>4. CASE \/ \E h \in Handler :
                 \/ \E f \in Function, p \in Priority : Register(h, f, p)
                 \/ \E i \in DOMAIN callbacks[h] : Unregister(h, i)
                 \/ Fire(h) \/ Ready(h)
                 \/ \E e \in Event : FireAsync(h, e)
           \/ Loop \/ Idle \/ UNCHANGED vars
  <2>1. UNCHANGED <<persistent, kind>>
    BY <1>4 DEF Register, Unregister, Fire, Ready, FireAsync, Loop, RunEvent, RunReady, Call,
                Return, EndDispatch, Idle, handlers, vars
  <2> QED  BY <2>1, <1>1
<1> QED  BY <1>2, <1>3, <1>4 DEF Next

(* Nothing is queued, kept or under way at first.                          *)
LEMMA InitLoop ==
    Init => TypeOK /\ LoopInv
PROOF
<1> SUFFICES ASSUME Init
             PROVE  TypeOK /\ LoopInv
  OBVIOUS
<1>1. TypeOK
  BY EmptySeq, EventAssumption DEF Init, TypeOK
<1>2. ToSet(<<>>) = {} /\ IsInjective(<<>>)
  BY DEF ToSet, IsInjective
<1>3. Running = {}
  BY NoneRunning DEF Init
<1>4. AsyncInv
  BY <1>2, <1>3 DEF Init, AsyncInv
<1>5. PendingInv /\ PersistentInv
  BY <1>2 DEF Init, PendingInv, PersistentInv
<1> QED  BY <1>1, <1>4, <1>5 DEF LoopInv

(* The types and the registries in every state.                            *)
LEMMA LoopInvariant ==
    Spec => [](TypeOK /\ LoopInv)
PROOF
<1>1. Init => TypeOK /\ LoopInv
  BY InitLoop
<1>2. TypeOK /\ LoopInv /\ [Next]_vars => (TypeOK /\ LoopInv)'
  BY TypeNext, AsyncNext, PendingNext, PersistentNext DEF LoopInv
<1> QED  BY <1>1, <1>2, PTL DEF Spec

(* Every variable keeps its type, whatever the clients do and however many *)
(* handlers, events and callbacks there are.                               *)
THEOREM EventTypes == Spec => []TypeOK
PROOF
  BY LoopInvariant, PTL

(* At any time pending_events holds each event that libevent has still to  *)
(* run in exactly one slot, and no other event; and persistent_handlers    *)
(* each timer and watcher that exists, once.                               *)
THEOREM RegistriesAreExact == Spec => []RegistriesMirrorLoop
PROOF
<1>1. ASSUME LoopInv
      PROVE  RegistriesMirrorLoop
  <2> SUFFICES ASSUME NEW e \in Event
               PROVE  Cardinality({i \in DOMAIN pending : pending[i] = e})
                          = IF e \in ToSet(active) THEN 1 ELSE 0
    BY <1>1 DEF LoopInv, PersistentInv, RegistriesMirrorLoop
  <2> DEFINE Slots == {i \in DOMAIN pending : pending[i] = e}
  <2>1. e # NULL
    BY EventAssumption
  <2>2. e \in ToSet(pending) <=> e \in ToSet(active)
    BY <1>1, <2>1 DEF LoopInv, PendingInv
  <2>3. CASE e \in ToSet(active)
    <3>1. PICK i \in DOMAIN pending : pending[i] = e
      BY <2>2, <2>3 DEF ToSet
    <3>2. Slots = {i}
      BY <1>1, <2>1, <3>1 DEF LoopInv, PendingInv
    <3>3. Cardinality({i}) = 1
      BY FS_Singleton
    <3> QED  BY <2>3, <3>2, <3>3
  <2>4. CASE e \notin ToSet(active)
    <3>1. Slots = {}
      BY <2>2, <2>4 DEF ToSet
    <3> QED  BY <2>4, <3>1, FS_EmptySet
  <2> QED  BY <2>3, <2>4
<1> QED  BY <1>1, LoopInvariant, PTL
-----------------------------------------------------------------------------
(***************************************************************************)
(* Dispatches while the callbacks come and go                              *)
(***************************************************************************)

(* The array after IL_INSERT, by index.                                    *)
LEMMA InsertByIndex ==
    ASSUME NEW s \in Seq(Callback), NEW c \in Callback
    PROVE  LET t == ILInsert(s, c)
           IN  /\ t \in Seq(Callback) /\ DOMAIN t = 1..(Len(s) + 1) /\ DOMAIN s = 1..Len(s)
               /\ \A k \in DOMAIN t : \/ t[k] = c
                                      \/ \E j \in DOMAIN s : t[k] = s[j] /\ (k = j \/ k = j + 1)
               /\ \A j \in DOMAIN s : \E k \in DOMAIN t : t[k] = s[j] /\ (k = j \/ k = j + 1)
               /\ \A k, l \in DOMAIN t : t[k] = c /\ t[l] = c /\ k # l =>
                      \E j \in DOMAIN s : s[j] = c
               /\ DistinctHandles(s) /\ (\A i \in DOMAIN s : s[i].handle < c.handle) =>
                      DistinctHandles(t)
PROOF
<1> DEFINE n == Len(s)
           p == Place(s, c.priority)
           t == ILInsert(s, c)
<1>1. p \in 1..(n + 1) /\ n \in Nat /\ DOMAIN s = 1..n
  BY PlaceIsFirst, LenProperties DEF Callback
<1>2. t \in Seq(Callback) /\ DOMAIN t = 1..(n + 1)
  BY InsertIsSeq, LenProperties
<1>3. \A k \in 1..(n + 1) : t[k] = IF k < p THEN s[k] ELSE IF k = p THEN c ELSE s[k - 1]
  BY DEF ILInsert
<1> HIDE DEF n, p, t
<1>4. /\ \A k \in 1..(n + 1) : k < p => k \in 1..n /\ t[k] = s[k]
      /\ \A k \in 1..(n + 1) : k > p => k - 1 \in 1..n /\ t[k] = s[k - 1] /\ k = (k - 1) + 1
      /\ t[p] = c
  BY <1>1, <1>3
<1>5. \A k \in 1..(n + 1) : k # p => \E j \in 1..n : t[k] = s[j] /\ (k = j \/ k = j + 1)
  BY <1>1, <1>4
<1>6. \A j \in 1..n : \E k \in 1..(n + 1) : t[k] = s[j] /\ (k = j \/ k = j + 1)
  <2> SUFFICES ASSUME NEW j \in 1..n
               PROVE  \E k \in 1..(n + 1) : t[k] = s[j] /\ (k = j \/ k = j + 1)
    OBVIOUS
  <2>1. CASE j < p
    BY <2>1, <1>1, <1>4
  <2>2. CASE j >= p
    <3>1. j + 1 \in 1..(n + 1) /\ j + 1 > p /\ (j + 1) - 1 = j
      BY <2>2, <1>1
    <3> QED  BY <3>1, <1>4
  <2> QED  BY <2>1, <2>2, <1>1
<1>7. \A k, l \in 1..(n + 1) : t[k] = c /\ t[l] = c /\ k # l => \E j \in 1..n : s[j] = c
  BY <1>5
<1>8. ASSUME DistinctHandles(s), \A i \in 1..n : s[i].handle < c.handle
      PROVE  DistinctHandles(t)
  <2>1. \A i \in 1..n : s[i].handle # c.handle
    <3>1. \A i \in 1..n : s[i].handle \in Nat
      <4>1. \A i \in 1..n : s[i] \in Callback
        BY <1>1, ElementOfSeq DEF n
      <4> QED  BY <4>1 DEF Callback
    <3>2. c.handle \in Nat
      BY DEF Callback
    <3> QED  BY <1>8, <3>1, <3>2
  <2> SUFFICES ASSUME NEW k \in 1..(n + 1), NEW l \in 1..(n + 1), t[k].handle = t[l].handle
               PROVE  k = l
    BY <1>2 DEF DistinctHandles
  <2>2. CASE k = p \/ l = p
    BY <2>1, <2>2, <1>4, <1>5
  <2>3. CASE k # p /\ l # p
    <3>1. \A i, j \in 1..n : s[i].handle = s[j].handle => i = j
      BY <1>1, <1>8 DEF DistinctHandles
    <3>2. CASE k < p /\ l < p
      BY <3>1, <3>2, <1>4
    <3>3. CASE k > p /\ l > p
      BY <3>1, <3>3, <1>1, <1>4
    <3>4. CASE k < p /\ l > p
      <4>1. k = l - 1
        BY <3>1, <3>4, <1>4
      <4> QED  BY <4>1, <3>4, <1>1
    <3>5. CASE k > p /\ l < p
      <4>1. l = k - 1
        BY <3>1, <3>5, <1>4
      <4> QED  BY <4>1, <3>5, <1>1
    <3> QED  BY <2>3, <3>2, <3>3, <3>4, <3>5, <1>1
  <2> QED  BY <2>2, <2>3
<1> QED  BY <1>1, <1>2, <1>4, <1>5, <1>6, <1>7, <1>8 DEF n, t

(* Handles are never given out twice, and so no two callbacks of a handler *)
(* have the same.                                                          *)
LEMMA HandleNext ==
    ASSUME TypeOK, OrderInv, HandleInv, [Next]_vars
    PROVE  HandleInv'
PROOF
<1>1. CASE UNCHANGED callbacks
  BY <1>1 DEF HandleInv
<1>2. ASSUME NEW h \in Handler, NEW s, callbacks' = [callbacks EXCEPT ![h] = s], DistinctHandles(s)
      PROVE  HandleInv'
  BY <1>2 DEF HandleInv, TypeOK
<1>3. ASSUME NEW h \in Handler, NEW k \in Kind, New(h, k)
      PROVE  HandleInv'
  <2>1. DistinctHandles(<<>>)
    BY DEF DistinctHandles
  <2> QED  BY <1>2, <1>3, <2>1 DEF New
<1>4. ASSUME NEW h \in Handler, NEW f \in Function, NEW p \in Priority, Register(h, f, p)
      PROVE  HandleInv'
  <2> DEFINE c == [function |-> f, priority |-> p, handle |-> cur_id[h]]
  <2>1. c \in Callback /\ c.handle = cur_id[h]
    BY EventAssumption DEF Callback, TypeOK
  <2>2. \A i \in DOMAIN callbacks[h] : callbacks[h][i].handle < c.handle
    BY <2>1 DEF OrderInv, GoodList
  <2>3. callbacks' = [callbacks EXCEPT ![h] = ILInsert(callbacks[h], c)]
    BY <1>4 DEF Register
  <2> HIDE DEF c
  <2>4. DistinctHandles(ILInsert(callbacks[h], c))
    BY <2>1, <2>2, InsertByIndex DEF HandleInv, TypeOK
  <2> QED  BY <1>2, <2>3, <2>4
<1>5. ASSUME NEW h \in Handler, NEW i \in DOMAIN callbacks[h], Unregister(h, i)
      PROVE  HandleInv'
  <2>1. PICK s \in ILRemove(callbacks[h], i) : callbacks' = [callbacks EXCEPT ![h] = s]
    BY <1>5 DEF Unregister
  <2>2. \A k \in DOMAIN s : k \in DOMAIN callbacks[h] /\ s[k].handle = callbacks[h][k].handle
    BY RemoveByPlace DEF TypeOK
  <2>3. DistinctHandles(s)
    BY <2>2 DEF DistinctHandles, HandleInv
  <2> QED  BY <1>2, <2>1, <2>3
<1>6. CASE \/ \E h \in Handler : Destroy(h) \/ Fire(h) \/ Ready(h) \/ \E e \in Event : FireAsync(h, e)
           \/ Loop \/ Idle \/ UNCHANGED vars
  <2>1. UNCHANGED callbacks
    BY <1>6 DEF Destroy, Fire, Ready, FireAsync, Loop, RunEvent, RunReady, Call, Return,
                EndDispatch, Idle, handlers, vars
  <2> QED  BY <2>1, <1>1
<1> QED  BY <1>3, <1>4, <1>5, <1>6 DEF Next
-----------------------------------------------------------------------------
(* A dispatch that begins has everything ahead of it.                      *)
LEMMA AheadAtFirst ==
    ASSUME TypeOK, NEW h \in Handler, NEW e, kind[h] # "free"
    PROVE  FrameInv(Dispatch(h, e), kind, callbacks)
PROOF
<1> DEFINE f == Dispatch(h, e)
           s == callbacks[h]
<1>1. /\ f.handler = h /\ f.due = Handles(s) /\ f.called = <<>> /\ f.next = 1
  BY DEF Dispatch
<1>2. DOMAIN s = 1..Len(s) /\ Len(s) \in Nat
  BY LenProperties DEF TypeOK
<1>3. ToSet(f.called) = {} /\ IsInjective(f.called)
  BY <1>1 DEF ToSet, IsInjective
<1> HIDE DEF f
<1>4. DueAhead(f, s)
  <2> SUFFICES ASSUME NEW d \in Handles(s)
               PROVE  \E j \in DOMAIN s : j >= 1 /\ s[j].handle = d
    BY <1>1 DEF DueAhead
  <2>1. PICK j \in DOMAIN s : d = s[j].handle
    BY DEF Handles
  <2>2. j >= 1
    BY <1>2, <2>1
  <2> QED  BY <2>1, <2>2
<1>5. NewAhead(f, s)
  BY <1>3 DEF NewAhead
<1> QED  BY <1>1, <1>4, <1>5 DEF FrameInv, f

(* A callback that is registered moves none of those ahead behind.         *)
LEMMA AheadAfterRegister ==
    ASSUME NEW f \in Frame, NEW s \in Seq(Callback), NEW c \in Callback,
           DueAhead(f, s)
    PROVE  /\ DueAhead([f EXCEPT !.grown = TRUE], ILInsert(s, c))
           /\ NewAhead([f EXCEPT !.grown = TRUE], ILInsert(s, c))
PROOF
<1> DEFINE t == ILInsert(s, c)
           g == [f EXCEPT !.grown = TRUE]
<1>1. /\ DOMAIN s = 1..Len(s) /\ Len(s) \in Nat
      /\ \A j \in DOMAIN s : \E k \in DOMAIN t : t[k] = s[j] /\ (k = j \/ k = j + 1)
  BY InsertByIndex, LenProperties
<1>2. g.due = f.due /\ g.called = f.called /\ g.next = f.next /\ g.grown = TRUE /\ f.next \in Nat
  BY DEF Frame
<1> HIDE DEF t, g
<1>3. DueAhead(g, t)
  <2> SUFFICES ASSUME NEW d \in f.due, d \notin ToSet(f.called)
               PROVE  \E k \in DOMAIN t : k >= f.next /\ t[k].handle = d
    BY <1>2 DEF DueAhead
  <2>1. PICK j \in DOMAIN s : j >= f.next /\ s[j].handle = d
    BY DEF DueAhead
  <2>2. PICK k \in DOMAIN t : t[k] = s[j] /\ (k = j \/ k = j + 1)
    BY <1>1
  <2>3. k >= f.next
    BY <1>1, <1>2, <2>1, <2>2
  <2> QED  BY <2>1, <2>2, <2>3
<1>4. NewAhead(g, t)
  BY <1>2 DEF NewAhead
<1> QED  BY <1>3, <1>4 DEF t, g

(* Without the last callback, the others are ahead where they were.        *)
LEMMA AheadAfterUnregister ==
    ASSUME NEW f \in Frame, NEW s \in Seq(Callback), s # <<>>,
           DueAhead(f, s), NewAhead(f, s)
    PROVE  LET g == [f EXCEPT !.due = f.due \ {s[Len(s)].handle}]
           IN  DueAhead(g, Front(s)) /\ NewAhead(g, Front(s))
PROOF
<1> DEFINE n == Len(s)
           g == [f EXCEPT !.due = f.due \ {s[n].handle}]
<1>1. /\ n \in Nat /\ n >= 1 /\ DOMAIN s = 1..n
      /\ DOMAIN Front(s) = 1..(n - 1) /\ \A k \in 1..(n - 1) : Front(s)[k] = s[k]
  BY FrontByIndex
<1>2. /\ g.due = f.due \ {s[n].handle} /\ g.called = f.called /\ g.next = f.next
      /\ g.grown = f.grown
  BY DEF Frame
<1> HIDE DEF n, g
<1>3. DueAhead(g, Front(s))
  <2> SUFFICES ASSUME NEW d \in f.due, d # s[n].handle, d \notin ToSet(f.called)
               PROVE  \E k \in DOMAIN Front(s) : k >= f.next /\ Front(s)[k].handle = d
    BY <1>2 DEF DueAhead
  <2>1. PICK j \in DOMAIN s : j >= f.next /\ s[j].handle = d
    BY DEF DueAhead
  <2>2. j \in 1..(n - 1)
    BY <1>1, <2>1
  <2> QED  BY <1>1, <2>1, <2>2
<1>4. NewAhead(g, Front(s))
  <2>1. \A k \in DOMAIN Front(s) : k \in DOMAIN s /\ Front(s)[k] = s[k]
    BY <1>1
  <2> QED  BY <1>2, <2>1 DEF NewAhead
<1> QED  BY <1>3, <1>4 DEF n, g

(* The callback under the index is called and is no longer ahead.          *)
LEMMA AheadAfterCall ==
    ASSUME NEW f \in Frame, NEW s \in Seq(Callback), DistinctHandles(s), f.next \in DOMAIN s,
           DueAhead(f, s), NewAhead(f, s)
    PROVE  LET g == [f EXCEPT !.next = f.next + 1, !.calling = TRUE,
                              !.called = Append(f.called, s[f.next].handle)]
           IN  DueAhead(g, s) /\ NewAhead(g, s)
PROOF
<1> DEFINE x == s[f.next].handle
           g == [f EXCEPT !.next = f.next + 1, !.calling = TRUE, !.called = Append(f.called, x)]
<1>1. DOMAIN s = 1..Len(s) /\ Len(s) \in Nat
  BY LenProperties
<1>2. x \in Nat /\ f.called \in Seq(Nat) /\ f.next \in Nat
  <2>1. s[f.next] \in Callback
    BY <1>1, ElementOfSeq
  <2> QED  BY <2>1, FrameFields DEF Callback
<1>3. /\ g.due = f.due /\ g.grown = f.grown /\ g.next = f.next + 1
      /\ g.called = Append(f.called, x)
  BY DEF Frame
<1>4. ToSet(g.called) = ToSet(f.called) \cup {x}
  BY <1>2, <1>3, SetOfAppend
<1> HIDE DEF g
<1>5. DueAhead(g, s)
  <2> SUFFICES ASSUME NEW d \in f.due, d \notin ToSet(f.called), d # x
               PROVE  \E j \in DOMAIN s : j >= f.next + 1 /\ s[j].handle = d
    BY <1>3, <1>4 DEF DueAhead
  <2>1. PICK j \in DOMAIN s : j >= f.next /\ s[j].handle = d
    BY DEF DueAhead
  <2>2. j >= f.next + 1
    BY <1>1, <1>2, <2>1
  <2> QED  BY <2>1, <2>2
<1>6. NewAhead(g, s)
  <2> SUFFICES ASSUME ~f.grown
               PROVE  /\ IsInjective(g.called)
                      /\ \A j \in DOMAIN s : j >= f.next + 1 => s[j].handle \notin ToSet(g.called)
    BY <1>3 DEF NewAhead
  <2>1. IsInjective(f.called) /\ x \notin ToSet(f.called)
    BY <1>1, <1>2 DEF NewAhead
  <2>2. IsInjective(g.called)
    BY <1>2, <1>3, <2>1, AppendToInjective
  <2>3. ASSUME NEW j \in DOMAIN s, j >= f.next + 1
        PROVE  s[j].handle \notin ToSet(g.called)
    <3>1. s[j].handle # x
      BY <1>1, <1>2, <2>3 DEF DistinctHandles
    <3>2. s[j].handle \notin ToSet(f.called)
      BY <1>1, <1>2, <2>3 DEF NewAhead
    <3> QED  BY <3>1, <3>2, <1>4
  <2> QED  BY <2>2, <2>3
<1> QED  BY <1>5, <1>6 DEF g
(* Everything the proofs about careful clients use of a step before it.    *)
Known == TypeOK /\ LoopInv /\ OrderInv /\ HandleInv /\ CarefulInv

(* The dispatches under way, the queued events and the lists stay as       *)
(* careful clients expect them.                                            *)
LEMMA CarefulNext ==
    ASSUME Careful, Known, [Next]_vars
    PROVE  CarefulInv'
PROOF
<1> DEFINE Frames  == \A k \in DOMAIN stack : FrameInv(stack[k], kind, callbacks)
           Targets == \A e \in Event : target[e] # NULL => kind[target[e]] # "free"
           Intact  == callbacks = registered
           Defined == \A h \in Handler : \A i \in DOMAIN callbacks[h] :
                          callbacks[h][i].function \in Function
<1>0. /\ TypeOK /\ AsyncInv /\ Frames /\ Targets /\ Intact /\ Defined
      /\ CarefulInv' <=> Frames' /\ Targets' /\ Intact' /\ Defined'
      /\ \A h \in Handler : callbacks[h] \in Seq(Callback) /\ DistinctHandles(callbacks[h])
      /\ \A k \in DOMAIN stack : stack[k] \in Frame /\ stack[k].handler \in Handler
  <2>1. TypeOK /\ AsyncInv /\ Frames /\ Targets /\ Intact /\ Defined
    BY DEF Known, LoopInv, CarefulInv
  <2>2. CarefulInv' <=> Frames' /\ Targets' /\ Intact' /\ Defined'
    BY DEF CarefulInv
  <2>3. \A h \in Handler : callbacks[h] \in Seq(Callback) /\ DistinctHandles(callbacks[h])
    BY <2>1 DEF Known, HandleInv, TypeOK
  <2>4. \A k \in DOMAIN stack : stack[k] \in Frame
    BY <2>1, LenProperties, ElementOfSeq DEF TypeOK
  <2> QED  BY <2>1, <2>2, <2>3, <2>4, FrameFields
<1>1. ASSUME NEW h \in Handler, NEW k \in Kind, New(h, k)
      PROVE  CarefulInv'
  <2>1. /\ kind[h] = "free" /\ kind' = [kind EXCEPT ![h] = k]
        /\ callbacks' = [callbacks EXCEPT ![h] = <<>>]
        /\ registered' = [registered EXCEPT ![h] = <<>>]
        /\ UNCHANGED <<stack, target>>
    BY <1>1 DEF New, loop
  <2>2. Frames'
    <3> SUFFICES ASSUME NEW j \in DOMAIN stack
                 PROVE  FrameInv(stack[j], kind', callbacks')
      BY <2>1
    <3>1. FrameInv(stack[j], kind, callbacks) /\ stack[j].handler # h
      BY <1>0, <2>1 DEF FrameInv
    <3>2. kind'[stack[j].handler] = kind[stack[j].handler]
      BY <1>0, <2>1, <3>1 DEF TypeOK
    <3>3. callbacks'[stack[j].handler] = callbacks[stack[j].handler]
      BY <1>0, <2>1, <3>1 DEF TypeOK
    <3> QED  BY <3>1, <3>2, <3>3 DEF FrameInv
  <2>3. Targets'
    <3> SUFFICES ASSUME NEW e \in Event, target[e] # NULL
                 PROVE  kind'[target[e]] # "free"
      BY <2>1
    <3>1. target[e] \in Handler /\ target[e] # h
      BY <1>0, <2>1 DEF TypeOK
    <3> QED  BY <1>0, <2>1, <3>1 DEF TypeOK
  <2>4. Intact' /\ Defined'
    <3>1. Intact'
      BY <1>0, <2>1
    <3>2. Defined'
      BY <1>0, <2>1 DEF TypeOK
    <3> QED  BY <3>1, <3>2
  <2> QED  BY <1>0, <2>2, <2>3, <2>4
<1>2. ASSUME NEW h \in Handler, NEW f \in Function, NEW p \in Priority, Register(h, f, p)
      PROVE  CarefulInv'
  <2> DEFINE c == [function |-> f, priority |-> p, handle |-> cur_id[h]]
             s == callbacks[h]
  <2>1. c \in Callback /\ c.function = f
    BY <1>0, EventAssumption DEF Callback, TypeOK
  <2>2. /\ callbacks' = [callbacks EXCEPT ![h] = ILInsert(s, c)]
        /\ registered' = [registered EXCEPT ![h] = ILInsert(registered[h], c)]
        /\ stack' = [k \in DOMAIN stack |->
                        IF stack[k].handler = h THEN [stack[k] EXCEPT !.grown = TRUE] ELSE stack[k]]
        /\ UNCHANGED <<kind, target>>
    BY <1>2 DEF Register, loop
  <2> HIDE DEF c
  <2>3. s \in Seq(Callback) /\ callbacks' = registered'
    BY <1>0, <2>2
  <2>4. Frames'
    <3> SUFFICES ASSUME NEW k \in DOMAIN stack
                 PROVE  FrameInv(stack'[k], kind', callbacks')
      BY <2>2
    <3>1. FrameInv(stack[k], kind, callbacks) /\ stack[k] \in Frame /\ stack[k].handler \in Handler
      BY <1>0
    <3>2. CASE stack[k].handler = h
      <4>1. stack'[k] = [stack[k] EXCEPT !.grown = TRUE] /\ stack'[k].handler = h
        BY <2>2, <3>1, <3>2 DEF Frame
      <4>2. callbacks'[h] = ILInsert(s, c)
        BY <1>0, <2>2 DEF TypeOK
      <4>3. DueAhead(stack'[k], ILInsert(s, c)) /\ NewAhead(stack'[k], ILInsert(s, c))
        BY <2>1, <2>3, <3>1, <3>2, <4>1, AheadAfterRegister DEF FrameInv
      <4> QED  BY <2>2, <3>1, <3>2, <4>1, <4>2, <4>3 DEF FrameInv
    <3>3. CASE stack[k].handler # h
      <4>1. stack'[k] = stack[k]
        BY <2>2, <3>3
      <4>2. callbacks'[stack[k].handler] = callbacks[stack[k].handler]
        BY <1>0, <2>2, <3>1, <3>3 DEF TypeOK
      <4> QED  BY <2>2, <3>1, <4>1, <4>2 DEF FrameInv
    <3> QED  BY <3>2, <3>3
  <2>5. Defined'
    <3> SUFFICES ASSUME NEW g \in Handler, NEW i \in DOMAIN callbacks'[g]
                 PROVE  callbacks'[g][i].function \in Function
      OBVIOUS
    <3>1. CASE g = h
      <4>1. callbacks'[g] = ILInsert(s, c)
        BY <1>0, <2>2, <3>1 DEF TypeOK
      <4>2. callbacks'[g][i] = c \/ \E j \in DOMAIN s : callbacks'[g][i] = s[j]
        BY <2>1, <2>3, <4>1, InsertByIndex
      <4> QED  BY <1>0, <2>1, <4>2
    <3>2. CASE g # h
      <4>1. callbacks'[g] = callbacks[g]
        BY <1>0, <2>2, <3>2 DEF TypeOK
      <4> QED  BY <1>0, <4>1
    <3> QED  BY <3>1, <3>2
  <2>6. Targets'
    BY <1>0, <2>2
  <2> QED  BY <1>0, <2>3, <2>4, <2>5, <2>6
<1>3. ASSUME NEW h \in Handler, NEW i \in DOMAIN callbacks[h], Unregister(h, i)
      PROVE  CarefulInv'
  <2> DEFINE s == callbacks[h]
             gone == s[Len(s)].handle
  <2>1. s \in Seq(Callback) /\ DistinctHandles(s) /\ s # <<>> /\ i = Len(s)
    <3>1. s # <<>>
      BY EmptySeq
    <3> QED  BY <1>0, <1>3, <3>1 DEF Unregister
  <2>2. callbacks' = [callbacks EXCEPT ![h] = Front(s)]
    <3>1. PICK r \in ILRemove(s, i) : callbacks' = [callbacks EXCEPT ![h] = r]
      BY <1>3 DEF Unregister
    <3>2. r = Front(s)
      BY <2>1, <3>1, RemoveByPlace
    <3> QED  BY <3>1, <3>2
  <2>3. /\ registered' = [registered EXCEPT ![h] = Without(registered[h], gone)]
        /\ stack' = [k \in DOMAIN stack |->
                        IF stack[k].handler = h
                        THEN [stack[k] EXCEPT !.due = stack[k].due \ {gone}] ELSE stack[k]]
        /\ UNCHANGED <<kind, target>>
    BY <1>3, <2>1 DEF Unregister, loop
  <2>4. Without(registered[h], gone) = Front(s)
    BY <1>0, <2>1, WithoutIsSeq
  <2>5. Intact'
    BY <1>0, <2>2, <2>3, <2>4
  <2> HIDE DEF gone
  <2>6. Frames'
    <3> SUFFICES ASSUME NEW k \in DOMAIN stack
                 PROVE  FrameInv(stack'[k], kind', callbacks')
      BY <2>3
    <3>1. FrameInv(stack[k], kind, callbacks) /\ stack[k] \in Frame /\ stack[k].handler \in Handler
      BY <1>0
    <3>2. CASE stack[k].handler = h
      <4>1. /\ stack'[k] = [stack[k] EXCEPT !.due = stack[k].due \ {gone}]
            /\ stack'[k].handler = h
        BY <2>3, <3>1, <3>2 DEF Frame
      <4>2. callbacks'[h] = Front(s)
        BY <1>0, <2>2 DEF TypeOK
      <4>3. DueAhead(stack'[k], Front(s)) /\ NewAhead(stack'[k], Front(s))
        BY <2>1, <3>1, <3>2, <4>1, AheadAfterUnregister DEF FrameInv, gone
      <4> QED  BY <2>3, <3>1, <3>2, <4>1, <4>2, <4>3 DEF FrameInv
    <3>3. CASE stack[k].handler # h
      <4>1. stack'[k] = stack[k]
        BY <2>3, <3>3
      <4>2. callbacks'[stack[k].handler] = callbacks[stack[k].handler]
        BY <1>0, <2>2, <3>1, <3>3 DEF TypeOK
      <4>3. kind' = kind
        BY <2>3
      <4> QED  BY <3>1, <4>1, <4>2, <4>3 DEF FrameInv
    <3> QED  BY <3>2, <3>3
  <2>7. Defined'
    <3> SUFFICES ASSUME NEW g \in Handler, NEW j \in DOMAIN callbacks'[g]
                 PROVE  callbacks'[g][j].function \in Function
      OBVIOUS
    <3>1. CASE g = h
      <4>1. callbacks'[g] = Front(s)
        BY <1>0, <2>2, <3>1 DEF TypeOK
      <4>2. j \in DOMAIN s /\ Front(s)[j] = s[j]
        BY <2>1, <4>1, FrontByIndex
      <4> QED  BY <1>0, <4>1, <4>2
    <3>2. CASE g # h
      <4>1. callbacks'[g] = callbacks[g]
        BY <1>0, <2>2, <3>2 DEF TypeOK
      <4> QED  BY <1>0, <4>1
    <3> QED  BY <3>1, <3>2
  <2>8. Targets'
    BY <1>0, <2>3
  <2> QED  BY <1>0, <2>5, <2>6, <2>7, <2>8
<1>4. ASSUME NEW h \in Handler, Destroy(h)
      PROVE  CarefulInv'
  <2>1. /\ \A k \in DOMAIN stack : stack[k].handler # h
        /\ \A e \in Event : target[e] # h
        /\ kind' = [kind EXCEPT ![h] = "free"]
        /\ UNCHANGED <<callbacks, registered, target, stack>>
    BY <1>4 DEF Destroy
  <2>2. Frames'
    <3> SUFFICES ASSUME NEW k \in DOMAIN stack
                 PROVE  FrameInv(stack[k], kind', callbacks)
      BY <2>1
    <3>1. FrameInv(stack[k], kind, callbacks) /\ kind'[stack[k].handler] = kind[stack[k].handler]
      BY <1>0, <2>1 DEF TypeOK
    <3> QED  BY <3>1 DEF FrameInv
  <2>3. Targets'
    <3> SUFFICES ASSUME NEW e \in Event, target[e] # NULL
                 PROVE  kind'[target[e]] # "free"
      BY <2>1
    <3>1. target[e] \in Handler /\ target[e] # h
      BY <1>0, <2>1 DEF TypeOK
    <3> QED  BY <1>0, <2>1, <3>1 DEF TypeOK
  <2> QED  BY <1>0, <2>1, <2>2, <2>3
<1>5. ASSUME NEW h \in Handler, Fire(h)
      PROVE  CarefulInv'
  <2>1. kind[h] # "free" /\ UNCHANGED <<kind, callbacks, registered, target>>
    BY <1>5 DEF Fire, handlers, loop
  <2>2. /\ DOMAIN stack' = 1..(Len(stack) + 1) /\ DOMAIN stack = 1..Len(stack)
        /\ Len(stack) \in Nat /\ stack'[1] = Dispatch(h, NULL)
        /\ \A k \in 2..(Len(stack) + 1) : stack'[k] = stack[k - 1]
    BY <1>0, <1>5, FireFrames
  <2>3. Frames'
    <3> SUFFICES ASSUME NEW k \in 1..(Len(stack) + 1)
                 PROVE  FrameInv(stack'[k], kind, callbacks)
      BY <2>1, <2>2
    <3>1. CASE k = 1
      BY <1>0, <2>1, <2>2, <3>1, AheadAtFirst
    <3>2. CASE k # 1
      <4>1. k - 1 \in DOMAIN stack /\ stack'[k] = stack[k - 1]
        BY <2>2, <3>2
      <4> QED  BY <1>0, <4>1
    <3> QED  BY <3>1, <3>2
  <2> QED  BY <1>0, <2>1, <2>3
<1>6. ASSUME NEW h \in Handler, NEW e \in Event, FireAsync(h, e)
      PROVE  CarefulInv'
  <2>1. /\ kind[h] # "free" /\ target' = [target EXCEPT ![e] = h]
        /\ UNCHANGED <<kind, callbacks, registered, stack>>
    BY <1>6 DEF FireAsync, handlers
  <2>2. Targets'
    BY <1>0, <2>1 DEF TypeOK
  <2> QED  BY <1>0, <2>1, <2>2
<1>7. ASSUME NEW f \in Frame, FrameInv(f, kind, callbacks), stack' = <<f>>,
             UNCHANGED <<kind, callbacks, registered, target>>
      PROVE  CarefulInv'
  <2>1. DOMAIN stack' = {1} /\ stack'[1] = f
    BY <1>7, OneFrame
  <2> QED  BY <1>0, <1>7, <2>1
<1>8. CASE RunEvent
  <2> DEFINE e == Head(active)
  <2>1. /\ active # <<>> /\ e \in Event /\ stack' = <<Dispatch(target[e], e)>>
        /\ UNCHANGED <<kind, callbacks, registered, target>>
    BY <1>8 DEF RunEvent, handlers
  <2>2. e \in ToSet(active)
    BY <1>0, <2>1, TailOfInjective DEF TypeOK, AsyncInv
  <2> HIDE DEF e
  <2>3. target[e] \in Handler /\ kind[target[e]] # "free"
    BY <1>0, <2>1, <2>2 DEF TypeOK, AsyncInv
  <2> QED  BY <1>0, <1>7, <2>1, <2>3, DispatchIsFrame, AheadAtFirst
<1>9. CASE RunReady
  <2> DEFINE h == Head(active)
  <2>1. /\ active # <<>> /\ h \in Handler /\ stack' \in {<<>>, <<Dispatch(h, NULL)>>}
        /\ UNCHANGED <<kind, callbacks, registered, target>>
    BY <1>9 DEF RunReady, handlers
  <2>2. h \in ToSet(active)
    BY <1>0, <2>1, TailOfInjective DEF TypeOK, AsyncInv
  <2> HIDE DEF h
  <2>3. kind[h] # "free"
    BY <1>0, <2>1, <2>2 DEF AsyncInv
  <2>4. CASE stack' = <<>>
    BY <1>0, <2>1, <2>4
  <2>5. CASE stack' = <<Dispatch(h, NULL)>>
    BY <1>0, <1>7, <2>1, <2>3, <2>5, DispatchIsFrame, AheadAtFirst
  <2> QED  BY <2>1, <2>4, <2>5
<1>10. CASE Call
  <2> DEFINE f == Head(stack)
             s == callbacks[f.handler]
  <2>1. /\ f.handler \in Handler /\ f.next \in DOMAIN s /\ f = stack[1] /\ 1 \in DOMAIN stack
        /\ SameFrames(stack')
        /\ stack'[1] = [f EXCEPT !.next = f.next + 1, !.calling = TRUE,
                                 !.called = Append(f.called, s[f.next].handle)]
        /\ \A k \in DOMAIN stack : k # 1 => stack'[k] = stack[k]
        /\ UNCHANGED <<kind, callbacks, registered, target>>
    BY <1>0, <1>10, CallFrames, TopByIndex DEF Call, handlers, loop
  <2> HIDE DEF f
  <2>2. /\ f \in Frame /\ FrameInv(f, kind, callbacks)
        /\ s \in Seq(Callback) /\ DistinctHandles(s) /\ stack'[1].handler = f.handler
    BY <1>0, <2>1 DEF SameFrames
  <2>3. DueAhead(stack'[1], s) /\ NewAhead(stack'[1], s)
    BY <2>1, <2>2, AheadAfterCall DEF FrameInv
  <2>4. FrameInv(stack'[1], kind, callbacks)
    BY <2>2, <2>3 DEF FrameInv
  <2>5. Frames'
    BY <1>0, <2>1, <2>4 DEF SameFrames
  <2> QED  BY <1>0, <2>1, <2>5
<1>11. CASE Return
  <2>1. /\ 1 \in DOMAIN stack /\ stack'[1] = [stack[1] EXCEPT !.calling = FALSE]
        /\ \A k \in DOMAIN stack : k # 1 => stack'[k] = stack[k]
        /\ DOMAIN stack' = DOMAIN stack
        /\ UNCHANGED <<kind, callbacks, registered, target>>
    BY <1>0, <1>11, ReturnFrames DEF Return, handlers, loop, SameFrames
  <2>2. FrameInv(stack'[1], kind, callbacks)
    <3>1. stack[1] \in Frame /\ FrameInv(stack[1], kind, callbacks)
      BY <1>0, <2>1
    <3>2. /\ stack'[1].handler = stack[1].handler /\ stack'[1].due = stack[1].due
          /\ stack'[1].called = stack[1].called /\ stack'[1].next = stack[1].next
          /\ stack'[1].grown = stack[1].grown
      BY <2>1, <3>1 DEF Frame
    <3> QED  BY <3>1, <3>2 DEF FrameInv, DueAhead, NewAhead
  <2> QED  BY <1>0, <2>1, <2>2
<1>12. CASE EndDispatch
  <2>1. /\ \A k \in DOMAIN stack' : k + 1 \in DOMAIN stack /\ stack'[k] = stack[k + 1]
        /\ target' = [e \in Event |-> IF e = Head(stack).event THEN NULL ELSE target[e]]
        /\ UNCHANGED <<kind, callbacks, registered>>
    <3>1. stack # <<>> /\ stack' = Tail(stack)
      BY <1>12 DEF EndDispatch
    <3>2. \A k \in DOMAIN stack' : k + 1 \in DOMAIN stack /\ stack'[k] = stack[k + 1]
      BY <1>0, <3>1, TopByIndex
    <3> QED  BY <1>12, <3>2 DEF EndDispatch, handlers
  <2>2. Frames'
    BY <1>0, <2>1
  <2>3. Targets'
    BY <1>0, <2>1
  <2> QED  BY <1>0, <2>1, <2>2, <2>3
<1>13. CASE (\E h \in Handler : Ready(h)) \/ Idle \/ UNCHANGED vars
  <2>1. UNCHANGED <<kind, callbacks, registered, target, stack>>
    BY <1>13 DEF Ready, Idle, vars, handlers, loop
  <2> QED  BY <1>0, <2>1
<1> QED  BY <1>1, <1>2, <1>3, <1>4, <1>5, <1>6, <1>8, <1>9, <1>10, <1>11, <1>12, <1>13
         DEF Next, Loop

(* All of it together.                                                     *)
LEMMA CarefulInvariant ==
    ASSUME Careful
    PROVE  Spec => []Known
PROOF
<1>1. Init => Known
  <2> SUFFICES ASSUME Init
               PROVE  OrderInv /\ HandleInv /\ CarefulInv
    <3>1. Init => TypeOK /\ LoopInv
      BY InitLoop
    <3> QED  BY <3>1 DEF Known
  <2>1. OrderInv
    BY EmptyIsGood DEF Init, OrderInv
  <2>2. HandleInv /\ CarefulInv
    BY DEF Init, HandleInv, CarefulInv, DistinctHandles
  <2> QED  BY <2>1, <2>2
<1>2. Known /\ [Next]_vars => Known'
  <2> SUFFICES ASSUME Known, [Next]_vars
               PROVE  Known'
    OBVIOUS
  <2>1. (TypeOK /\ LoopInv)'
    BY TypeNext, AsyncNext, PendingNext, PersistentNext DEF Known, LoopInv
  <2>2. OrderInv'
    <3>1. OrderTypes
      BY DEF Known, TypeOK, OrderTypes
    <3> QED  BY <3>1, OrderStep DEF Known
  <2>3. HandleInv'
    BY HandleNext DEF Known
  <2>4. CarefulInv'
    BY CarefulNext
  <2> QED  BY <2>1, <2>2, <2>3, <2>4 DEF Known
<1> QED  BY <1>1, <1>2, PTL DEF Spec

(* While clients unregister only what is called last and destroy no        *)
(* handler that an event or a dispatch still needs, every dispatch calls   *)
(* what it has to call, and nothing twice, however deeply dispatches nest  *)
(* and whatever is registered under the running index.                     *)
THEOREM DispatchesAreComplete ==
    ASSUME Careful
    PROVE  Spec => []DispatchIsComplete
PROOF
<1>1. ASSUME Known
      PROVE  DispatchIsComplete
  <2> SUFFICES ASSUME NEW k \in DOMAIN stack, Ended(stack[k])
               PROVE  /\ stack[k].due \subseteq ToSet(stack[k].called)
                      /\ ~stack[k].grown => IsInjective(stack[k].called)
    BY DEF DispatchIsComplete
  <2> DEFINE f == stack[k]
             s == callbacks[f.handler]
  <2>1. stack \in Seq(Frame) /\ k \in 1..Len(stack)
    BY <1>1, LenProperties DEF Known, TypeOK
  <2>2. f \in Frame
    BY <2>1, ElementOfSeq
  <2>3. s \in Seq(Callback) /\ f.next \in Nat
    BY <1>1, <2>2, FrameFields DEF Known, TypeOK
  <2>4. DOMAIN s = 1..Len(s) /\ Len(s) \in Nat /\ f.next > Len(s)
    BY <2>3, LenProperties DEF Ended
  <2>5. DueAhead(f, s) /\ NewAhead(f, s)
    BY <1>1 DEF Known, CarefulInv, FrameInv
  <2> HIDE DEF f
  <2>6. f.due \subseteq ToSet(f.called)
    BY <2>3, <2>4, <2>5 DEF DueAhead
  <2> QED  BY <2>5, <2>6 DEF NewAhead, f
<1> QED  BY <1>1, CarefulInvariant, PTL

(* With the same clients, unregistering deletes just the one callback, and *)
(* no dispatch comes upon a handler that is gone: what the two runs that   *)
(* expect a violation show of careless clients is all that goes wrong.     *)
THEOREM CarefulClientsAreSafe ==
    ASSUME Careful
    PROVE  Spec => [](DeletesJustOne /\ DispatchesLiveHandler)
PROOF
<1>1. ASSUME Known
      PROVE  DeletesJustOne /\ DispatchesLiveHandler
  <2>1. DeletesJustOne
    BY <1>1 DEF Known, CarefulInv, DeletesJustOne
  <2>2. ASSUME active # <<>>, Head(active) \in Event
        PROVE  kind[target[Head(active)]] # "free"
    <3>1. Head(active) \in ToSet(active)
      BY <1>1, <2>2, TailOfInjective DEF Known, TypeOK, LoopInv, AsyncInv
    <3> QED  BY <1>1, <2>2, <3>1 DEF Known, LoopInv, AsyncInv, CarefulInv
  <2>3. ASSUME stack # <<>>
        PROVE  kind[Head(stack).handler] # "free"
    BY <1>1, <2>3, TopByIndex DEF Known, CarefulInv, FrameInv
  <2> QED  BY <2>1, <2>2, <2>3 DEF DispatchesLiveHandler
<1> QED  BY <1>1, CarefulInvariant, PTL
=============================================================================
