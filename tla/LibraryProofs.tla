---------------------------- MODULE LibraryProofs ----------------------------
(***************************************************************************)
(* The free list of a world and iterations over it, for any number of      *)
(* positionables; what holds of il_load_module() for any modules, whatever *)
(* they depend on in no circle and whichever are missing or fail; and      *)
(* counted objects and the file system built from them, for any number of  *)
(* objects, weak references, descriptors and parts: that a count is the    *)
(* number of references in the middle of any cascade of destructors, that  *)
(* weak references are null or alive, and that every descriptor but 0      *)
(* belongs to one file.  And textures: whatever renderers there are,       *)
(* whichever files are missing and in whatever order messages arrive, what *)
(* is to be uploaded has one owner, and what was uploaded stays with its   *)
(* place.                                                                  *)
(***************************************************************************)
EXTENDS World, Loader, Assets, Textures, SequenceFacts, FiniteSetTheorems

IdTypes == length \in Nat /\ free_list \in Seq(Nat) /\ live \subseteq Nat

IdInv == IdTypes /\ IdsPartitioned

-----------------------------------------------------------------------------
(* Each operation keeps the indices partitioned.                           *)
LEMMA NewKeepsIds == IdInv /\ New => IdInv'
PROOF
<1> SUFFICES ASSUME IdInv, New PROVE IdInv'
  OBVIOUS
<1> USE DEF IdInv, IdTypes, IdsPartitioned
<1>1. CASE free_list # <<>>
  <2>1. live' = live \cup {Last(free_list)} /\ free_list' = Front(free_list) /\ length' = length
    BY <1>1 DEF New, Recycled
  <2> QED  BY <2>1, <1>1, FrontOfInjective
<1>2. CASE free_list = <<>>
  <2>1. live' = live \cup {length} /\ length' = length + 1 /\ free_list' = free_list
    BY <1>2 DEF New
  <2>2. ToSet(free_list) = {}
    BY <1>2 DEF ToSet
  <2>3. 0..(length' - 1) = (0..(length - 1)) \cup {length}
    BY <2>1
  <2> QED  BY <2>1, <2>2, <2>3
<1> QED  BY <1>1, <1>2

(* An identifier is given back.                                            *)
LEMMA DestroyKeepsIds == \A id \in live : IdInv /\ Destroy(id) => IdInv'
PROOF
<1> SUFFICES ASSUME NEW id \in live, IdInv, Destroy(id) PROVE IdInv'
  OBVIOUS
<1> USE DEF IdInv, IdTypes, IdsPartitioned
<1>1. /\ free_list' = Append(free_list, id) /\ live' = live \ {id} /\ length' = length
      /\ id \in Nat /\ id \notin ToSet(free_list)
  BY DEF Destroy
<1> QED  BY <1>1, AppendToInjective

(* No identifier is in use at first.                                       *)
LEMMA InitialIds == Init => IdInv
PROOF
<1> SUFFICES ASSUME Init PROVE IdInv
  OBVIOUS
<1>1. length = 0 /\ free_list = <<>> /\ live = {}
  BY DEF Init
<1>2. IsInjective(<<>>) /\ ToSet(<<>>) = {}
  BY DEF IsInjective, ToSet
<1> QED  BY <1>1, <1>2 DEF IdInv, IdTypes, IdsPartitioned

(* The identifiers stay partitioned.                                       *)
LEMMA StepKeepsIds == IdInv /\ [Next]_worldVars => IdInv'
PROOF
<1> SUFFICES ASSUME IdInv, [Next]_worldVars PROVE IdInv'
  OBVIOUS
<1>1. CASE New
  BY <1>1, NewKeepsIds
<1>2. CASE Begin \/ Advance \/ UNCHANGED worldVars
  <2>1. UNCHANGED <<length, free_list, live>>
    BY <1>2 DEF Begin, Advance, worldVars
  <2> QED  BY <2>1 DEF IdInv, IdTypes, IdsPartitioned
<1>3. CASE \E id \in live : Destroy(id)
  BY <1>3, DestroyKeepsIds
<1> QED  BY <1>1, <1>2, <1>3 DEF Next

(* Every index below length is owned by one client or on the free list     *)
(* once, so il_positionable_new() never hands out one that is in use.      *)
THEOREM IdsStayPartitioned == Spec => []IdsPartitioned
PROOF
<1>1. IdInv => IdsPartitioned
  BY DEF IdInv
<1> QED  BY <1>1, InitialIds, StepKeepsIds, PTL DEF Spec
-----------------------------------------------------------------------------
(* An iteration on its way: behind it, in order, are indices that were     *)
(* alive; what it still owes is before it.  Only what is alive is owed.    *)
Ascending(s) == \A i, j \in DOMAIN s : i < j => s[i] < s[j]

WasLive == live \cup walk.gone \cup {0}

OnTheWay ==
    /\ walk.at \in Nat /\ walk.at \in WasLive
    /\ \A i \in DOMAIN walk.seen : walk.seen[i] < walk.at
    /\ \A i \in walk.due : i \in ToSet(walk.seen) \/ i >= walk.at

AtTheEnd == walk.at = NoId /\ walk.due \subseteq ToSet(walk.seen)

WalkInv ==
    /\ walk = [at |-> walk.at, seen |-> walk.seen, due |-> walk.due, gone |-> walk.gone]
    /\ walk.seen \in Seq(Nat) /\ Ascending(walk.seen)
    /\ ToSet(walk.seen) \subseteq WasLive
    /\ walk.due \subseteq live
    /\ OnTheWay \/ AtTheEnd

(* il_world_next() goes to the next index that is not on the list.         *)
LEMMA NextIdIsNext ==
    ASSUME IdInv, NEW id \in Nat
    PROVE  \/ NextId(id) = NoId /\ \A i \in live : i <= id
           \/ /\ NextId(id) \in live /\ NextId(id) > id
              /\ \A i \in live : i <= id \/ i >= NextId(id)
PROOF
<1> DEFINE rest == {i \in (id + 1)..(length - 1) : i \notin ToSet(free_list)}
<1>1. rest \in SUBSET Nat /\ rest = {i \in live : i > id}
  <2>1. \A i : i \in live <=> i \in 0..(length - 1) /\ i \notin ToSet(free_list)
    BY DEF IdInv, IdsPartitioned
  <2> QED  BY <2>1 DEF IdInv, IdTypes
<1>2. NextId(id) = IF rest = {} THEN NoId ELSE Min(rest)
  BY DEF NextId
<1>3. live \subseteq Nat
  BY DEF IdInv, IdTypes
<1> HIDE DEF rest
<1>4. CASE rest = {}
  BY <1>1, <1>2, <1>3, <1>4
<1>5. CASE rest # {}
  <2>1. \E x \in rest : \A y \in rest : x <= y
    BY <1>1, <1>5, LeastNumber
  <2>2. Min(rest) \in rest /\ \A y \in rest : Min(rest) <= y
    BY <2>1 DEF Min
  <2> QED  BY <1>1, <1>2, <1>3, <1>5, <2>2
<1> QED  BY <1>4, <1>5

(* The indices behind an iteration and the one where it is.                *)
LEMMA AppendAscends ==
    ASSUME NEW s \in Seq(Nat), NEW e \in Nat, Ascending(s),
           \A i \in DOMAIN s : s[i] < e
    PROVE  /\ Append(s, e) \in Seq(Nat) /\ Ascending(Append(s, e))
           /\ \A i \in DOMAIN Append(s, e) : Append(s, e)[i] <= e
           /\ ToSet(Append(s, e)) = ToSet(s) \cup {e}
PROOF
<1> DEFINE n == Len(s)
           t == Append(s, e)
<1>1. n \in Nat /\ DOMAIN s = 1..n /\ \A i \in 1..n : s[i] \in Nat
  BY LenProperties, ElementOfSeq
<1>2. /\ t \in Seq(Nat) /\ DOMAIN t = 1..(n + 1) /\ t[n + 1] = e
      /\ \A i \in 1..n : t[i] = s[i]
  BY <1>1, AppendProperties, LenProperties
<1> HIDE DEF n, t
<1>3. \A i \in 1..n : s[i] < e
  BY <1>1
<1>4. \A i, j \in 1..n : i < j => s[i] < s[j]
  BY <1>1 DEF Ascending
<1>5. Ascending(t)
  <2> SUFFICES ASSUME NEW i \in 1..(n + 1), NEW j \in 1..(n + 1), i < j
               PROVE  t[i] < t[j]
    BY <1>2 DEF Ascending
  <2>1. CASE j \in 1..n
    BY <2>1, <1>1, <1>2, <1>4
  <2>2. CASE j = n + 1
    BY <2>2, <1>1, <1>2, <1>3
  <2> QED  BY <2>1, <2>2, <1>1
<1>6. \A i \in 1..(n + 1) : t[i] <= e
  <2> SUFFICES ASSUME NEW i \in 1..(n + 1) PROVE t[i] <= e
    OBVIOUS
  <2>1. CASE i \in 1..n
    BY <2>1, <1>1, <1>2, <1>3
  <2>2. CASE i = n + 1
    BY <2>2, <1>2
  <2> QED  BY <2>1, <2>2, <1>1
<1>7. ToSet(t) = ToSet(s) \cup {e}
  BY SetOfAppend DEF t
<1> QED  BY <1>2, <1>5, <1>6, <1>7 DEF t

(* An iteration begins with everything ahead of it.                        *)
LEMMA BeginStartsWalk == IdInv /\ WalkInv /\ Begin => WalkInv'
PROOF
<1> SUFFICES ASSUME IdInv, WalkInv, Begin PROVE WalkInv'
  OBVIOUS
<1>1. /\ walk' = [at |-> FirstId, seen |-> <<>>, due |-> live, gone |-> {}]
      /\ length' = length /\ free_list' = free_list /\ live' = live
  BY DEF Begin
<1>2. walk'.at = FirstId /\ walk'.seen = <<>> /\ walk'.due = live /\ walk'.gone = {}
  BY <1>1
<1>3. /\ walk' = [at |-> walk'.at, seen |-> walk'.seen, due |-> walk'.due, gone |-> walk'.gone]
      /\ walk'.seen \in Seq(Nat) /\ Ascending(walk'.seen) /\ ToSet(walk'.seen) = {}
      /\ walk'.due \subseteq live'
  BY <1>1, <1>2 DEF Ascending, ToSet
<1>4. live \subseteq 0..(length - 1) /\ length \in Nat
  BY DEF IdInv, IdTypes, IdsPartitioned
<1>5. CASE length < 1
  BY <1>2, <1>3, <1>4, <1>5 DEF FirstId, WalkInv, AtTheEnd
<1>6. CASE length >= 1
  <2>1. FirstId = 0
    BY <1>4, <1>6 DEF FirstId
  <2> QED  BY <1>1, <1>2, <1>3, <1>4, <2>1 DEF WalkInv, OnTheWay, WasLive
<1> QED  BY <1>4, <1>5, <1>6

(* An iteration moves on by one.                                           *)
LEMMA AdvanceKeepsWalk == IdInv /\ WalkInv /\ Advance => WalkInv'
PROOF
<1> SUFFICES ASSUME IdInv, WalkInv, Advance PROVE WalkInv'
  OBVIOUS
<1> DEFINE s == walk.seen
           id == walk.at
<1>1. /\ walk' = [at |-> NextId(id), seen |-> Append(s, id), due |-> walk.due, gone |-> walk.gone]
      /\ live' = live
  <2>1. walk' = [walk EXCEPT !.at = NextId(@), !.seen = Append(@, walk.at)] /\ live' = live
    BY DEF Advance
  <2>2. walk = [at |-> walk.at, seen |-> walk.seen, due |-> walk.due, gone |-> walk.gone]
    BY DEF WalkInv
  <2> QED  BY <2>1, <2>2
<1>2. OnTheWay /\ s \in Seq(Nat) /\ Ascending(s) /\ ToSet(s) \subseteq WasLive /\ walk.due \subseteq live
  BY DEF Advance, WalkInv, AtTheEnd
<1>3. id \in Nat /\ id \in WasLive /\ \A i \in DOMAIN s : s[i] < id
  BY <1>2 DEF OnTheWay
<1>4. /\ Append(s, id) \in Seq(Nat) /\ Ascending(Append(s, id))
      /\ \A i \in DOMAIN Append(s, id) : Append(s, id)[i] <= id
      /\ ToSet(Append(s, id)) = ToSet(s) \cup {id}
  BY <1>2, <1>3, AppendAscends
<1>5. \A i \in walk.due : i \in ToSet(s) \/ i >= id
  BY <1>2 DEF OnTheWay
<1> HIDE DEF s, id
<1>6. /\ walk'.at = NextId(id) /\ walk'.seen = Append(s, id)
      /\ walk'.due = walk.due /\ walk'.gone = walk.gone
  BY <1>1
<1>7. WasLive' = WasLive
  BY <1>1, <1>6 DEF WasLive
<1>8. live \subseteq Nat
  BY DEF IdInv, IdTypes
<1>9. /\ walk' = [at |-> walk'.at, seen |-> walk'.seen, due |-> walk'.due, gone |-> walk'.gone]
      /\ walk'.seen \in Seq(Nat) /\ Ascending(walk'.seen)
      /\ ToSet(walk'.seen) \subseteq WasLive'
      /\ walk'.due \subseteq live'
  BY <1>1, <1>2, <1>3, <1>4, <1>6, <1>7
<1>10. CASE NextId(id) = NoId /\ \A i \in live : i <= id
  <2>1. walk.due \subseteq ToSet(s) \cup {id}
    <3> SUFFICES ASSUME NEW i \in walk.due PROVE i \in ToSet(s) \cup {id}
      OBVIOUS
    <3>1. i \in Nat /\ i <= id /\ (i \in ToSet(s) \/ i >= id)
      BY <1>2, <1>5, <1>8, <1>10
    <3> QED  BY <3>1, <1>3
  <2>2. AtTheEnd'
    BY <2>1, <1>4, <1>6, <1>10 DEF AtTheEnd
  <2> QED  BY <2>2, <1>9 DEF WalkInv
<1>11. CASE /\ NextId(id) \in live /\ NextId(id) > id
            /\ \A i \in live : i <= id \/ i >= NextId(id)
  <2>1. \A i \in walk.due : i \in ToSet(s) \cup {id} \/ i >= NextId(id)
    <3> SUFFICES ASSUME NEW i \in walk.due PROVE i \in ToSet(s) \cup {id} \/ i >= NextId(id)
      OBVIOUS
    <3>1. i \in Nat /\ i \in live /\ (i \in ToSet(s) \/ i >= id)
      BY <1>2, <1>5, <1>8
    <3>2. i <= id \/ i >= NextId(id)
      BY <3>1, <1>11
    <3> QED  BY <3>1, <3>2, <1>3
  <2>2. \A i \in DOMAIN Append(s, id) : Append(s, id)[i] < NextId(id)
    <3> SUFFICES ASSUME NEW i \in DOMAIN Append(s, id) PROVE Append(s, id)[i] < NextId(id)
      OBVIOUS
    <3>1. Append(s, id)[i] \in Nat /\ Append(s, id)[i] <= id
      BY <1>4, LenProperties, ElementOfSeq
    <3>2. NextId(id) \in Nat /\ NextId(id) > id
      BY <1>8, <1>11
    <3> QED  BY <3>1, <3>2, <1>3
  <2>3. NextId(id) \in Nat /\ NextId(id) \in WasLive
    BY <1>8, <1>11 DEF WasLive
  <2>4. OnTheWay'
    BY <2>1, <2>2, <2>3, <1>4, <1>6, <1>7 DEF OnTheWay
  <2> QED  BY <2>4, <1>9 DEF WalkInv
<1> QED  BY <1>3, <1>10, <1>11, NextIdIsNext

(* A positionable is created while others iterate.                         *)
LEMMA NewKeepsWalk == IdInv /\ WalkInv /\ New => WalkInv'
PROOF
<1> SUFFICES ASSUME IdInv, WalkInv, New PROVE WalkInv'
  OBVIOUS
<1>1. walk' = walk /\ live \subseteq live'
  BY DEF New
<1>2. WasLive \subseteq WasLive'
  BY <1>1 DEF WasLive
<1> QED  BY <1>1, <1>2 DEF WalkInv, OnTheWay, AtTheEnd

(* A positionable is destroyed while others iterate.                       *)
LEMMA DestroyKeepsWalk == \A id \in live : IdInv /\ WalkInv /\ Destroy(id) => WalkInv'
PROOF
<1> SUFFICES ASSUME NEW id \in live, WalkInv, Destroy(id) PROVE WalkInv'
  OBVIOUS
<1>1. /\ walk' = [at |-> walk.at, seen |-> walk.seen, due |-> walk.due \ {id},
                  gone |-> walk.gone \cup {id}]
      /\ live' = live \ {id}
  BY DEF Destroy, WalkInv
<1>2. /\ walk'.at = walk.at /\ walk'.seen = walk.seen
      /\ walk'.due = walk.due \ {id} /\ walk'.gone = walk.gone \cup {id}
  BY <1>1
<1>3. WasLive \subseteq WasLive'
  BY <1>1, <1>2 DEF WasLive
<1>4. OnTheWay => OnTheWay'
  BY <1>2, <1>3 DEF OnTheWay
<1>5. AtTheEnd => AtTheEnd'
  BY <1>2 DEF AtTheEnd
<1> QED  BY <1>1, <1>2, <1>3, <1>4, <1>5 DEF WalkInv

(* However positionables come and go on the way, an iteration visits all   *)
(* that were there all the time, each index once, and nothing that was     *)
(* never alive, but for index 0.                                           *)
THEOREM WalksVisitLive == Spec => []WalkVisitsLive
PROOF
<1>1. Init => IdInv /\ WalkInv
  <2> SUFFICES ASSUME Init PROVE WalkInv
    BY InitialIds
  <2>1. walk = [at |-> NoId, seen |-> <<>>, due |-> {}, gone |-> {}]
    BY DEF Init
  <2>2. walk.at = NoId /\ walk.seen = <<>> /\ walk.due = {} /\ walk.gone = {}
    BY <2>1
  <2>3. walk.seen \in Seq(Nat) /\ Ascending(walk.seen) /\ ToSet(walk.seen) = {}
    BY <2>2 DEF Ascending, ToSet
  <2> QED  BY <2>1, <2>2, <2>3 DEF WalkInv, AtTheEnd
<1>2. IdInv /\ WalkInv /\ [Next]_worldVars => IdInv' /\ WalkInv'
  <2> SUFFICES ASSUME IdInv, WalkInv, [Next]_worldVars PROVE WalkInv'
    BY StepKeepsIds
  <2>1. CASE New
    BY <2>1, NewKeepsWalk
  <2>2. CASE Begin
    BY <2>2, BeginStartsWalk
  <2>3. CASE Advance
    BY <2>3, AdvanceKeepsWalk
  <2>4. CASE \E id \in live : Destroy(id)
    BY <2>4, DestroyKeepsWalk
  <2>5. CASE UNCHANGED worldVars
    BY <2>5 DEF worldVars, WalkInv, WasLive, OnTheWay, AtTheEnd
  <2> QED  BY <2>1, <2>2, <2>3, <2>4, <2>5 DEF Next
<1>3. IdInv /\ WalkInv => WalkVisitsLive
  <2> SUFFICES ASSUME WalkInv, walk.at = NoId PROVE WalkVisitsLive
    BY DEF WalkVisitsLive
  <2>1. AtTheEnd
    BY DEF WalkInv, OnTheWay, NoId
  <2> QED  BY <2>1 DEF WalkInv, AtTheEnd, WalkVisitsLive, Ascending, WasLive
<1> QED  BY <1>1, <1>2, <1>3, PTL DEF Spec
-----------------------------------------------------------------------------
(***************************************************************************)
(* The calls under way, given the modules that are loaded: each was made   *)
(* by the one below it for the dependency it asked for last, none is for a *)
(* module that is loaded or for the same module as another, and what was   *)
(* asked for before the last dependency is loaded.                         *)
(***************************************************************************)
Asked(f, i) == Deps[f.library][i]

GoodFrame(f, ld) ==
    /\ f.library \notin ld
    /\ f.next \in 1..(Len(Deps[f.library]) + 1)
    /\ \A i \in DOMAIN Deps[f.library] : i + 1 < f.next => Asked(f, i) \in ld

AsksFor(f, m) == f.next > 1 /\ Asked(f, f.next - 1) = m

GoodFrames(fs, ld) ==
    /\ fs \in Seq(Frame)
    /\ \A k \in DOMAIN fs : GoodFrame(fs[k], ld)
    /\ \A j, k \in DOMAIN fs : fs[j].library = fs[k].library => j = k
    /\ \A k \in DOMAIN fs : k > 1 => AsksFor(fs[k], fs[k - 1].library)

\* Unless a dependency has failed, the innermost call has all it asked for
TopHasAll ==
    frames # <<>> /\ result # "failure" /\ frames[1].next > 1 =>
        Asked(frames[1], frames[1].next - 1) \in loaded

LoaderInv == LoaderTypes /\ GoodFrames(frames, loaded) /\ TopHasAll /\ LoadedIsUsable

(* A dependency is a module.                                               *)
LEMMA DepsAreModules ==
    ASSUME LoaderAssumption, NEW m \in Library
    PROVE  /\ Deps[m] \in Seq(Library) /\ Len(Deps[m]) \in Nat
           /\ DOMAIN Deps[m] = 1..Len(Deps[m])
           /\ \A i \in DOMAIN Deps[m] : Deps[m][i] \in Library
PROOF
<1>1. Deps[m] \in Seq(Library)
  BY DEF LoaderAssumption
<1> QED  BY <1>1, LenProperties, ElementOfSeq

(* The innermost call, and those below it.                                 *)
LEMMA TopFrame ==
    ASSUME NEW fs \in Seq(Frame), fs # <<>>
    PROVE  /\ Len(fs) \in Nat /\ Len(fs) >= 1 /\ DOMAIN fs = 1..Len(fs) /\ 1 \in DOMAIN fs
           /\ Head(fs) = fs[1] /\ fs[1] \in Frame
           /\ fs[1].library \in Library /\ fs[1].next \in Nat
           /\ Tail(fs) \in Seq(Frame) /\ DOMAIN Tail(fs) = 1..(Len(fs) - 1)
           /\ \A k \in 1..(Len(fs) - 1) : Tail(fs)[k] = fs[k + 1]
PROOF
<1>1. /\ Len(fs) \in Nat /\ Len(fs) >= 1 /\ DOMAIN fs = 1..Len(fs)
      /\ Head(fs) = fs[1] /\ Head(fs) \in Frame
      /\ Tail(fs) \in Seq(Frame) /\ DOMAIN Tail(fs) = 1..(Len(fs) - 1)
      /\ \A k \in 1..(Len(fs) - 1) : Tail(fs)[k] = fs[k + 1]
  BY TailByIndex
<1> QED  BY <1>1 DEF Frame

(* A call is made for a dependency: it cannot be for a module whose own    *)
(* call is waiting, for each of those in between depends on the next.      *)
LEMMA CallIsNew ==
    ASSUME LoaderAssumption, NEW ld, NEW fs, GoodFrames(fs, ld), fs # <<>>,
           NEW m, AsksFor(fs[1], m), NEW k \in DOMAIN fs
    PROVE  fs[k].library # m
PROOF
<1> SUFFICES ASSUME fs[k].library = m
             PROVE  FALSE
  OBVIOUS
<1> DEFINE S == {fs[j].library : j \in 1..k}
<1>1. /\ fs \in Seq(Frame) /\ DOMAIN fs = 1..Len(fs) /\ Len(fs) \in Nat
      /\ \A j \in 1..k : j \in DOMAIN fs /\ fs[j] \in Frame
  <2>1. fs \in Seq(Frame)
    BY DEF GoodFrames
  <2>2. DOMAIN fs = 1..Len(fs) /\ Len(fs) \in Nat
    BY <2>1, LenProperties
  <2>3. \A j \in 1..k : j \in DOMAIN fs
    BY <2>2
  <2> QED  BY <2>1, <2>2, <2>3, ElementOfSeq
<1>2. S \in SUBSET Library /\ S # {}
  <2>1. \A j \in 1..k : fs[j].library \in Library
    BY <1>1 DEF Frame
  <2>2. 1 \in 1..k
    BY <1>1
  <2> QED  BY <2>1, <2>2
<1>3. ASSUME NEW j \in 1..k
      PROVE  \E i \in DOMAIN Deps[fs[j].library] : Deps[fs[j].library][i] \in S
  <2>1. /\ fs[j].library \in Library /\ fs[j].next \in 1..(Len(Deps[fs[j].library]) + 1)
        /\ Len(Deps[fs[j].library]) \in Nat
        /\ DOMAIN Deps[fs[j].library] = 1..Len(Deps[fs[j].library])
    BY <1>1, DepsAreModules DEF GoodFrames, GoodFrame, Frame
  <2>2. fs[j].next > 1 /\ Asked(fs[j], fs[j].next - 1) \in S
    <3>1. CASE j = 1
      <4>1. k \in 1..k
        BY <1>1
      <4>2. m \in S
        BY <4>1
      <4> QED  BY <3>1, <4>2 DEF AsksFor
    <3>2. CASE j # 1
      <4>1. AsksFor(fs[j], fs[j - 1].library) /\ j - 1 \in 1..k
        <5>1. j \in DOMAIN fs /\ j > 1 /\ j - 1 \in 1..k
          BY <1>1, <3>2
        <5> QED  BY <5>1 DEF GoodFrames
      <4> QED  BY <4>1 DEF AsksFor
    <3> QED  BY <3>1, <3>2
  <2>3. fs[j].next - 1 \in DOMAIN Deps[fs[j].library]
    BY <2>1, <2>2
  <2> QED  BY <2>2, <2>3 DEF Asked
<1>4. PICK x \in S : \A i \in DOMAIN Deps[x] : Deps[x][i] \notin S
  <2> HIDE DEF S
  <2> QED  BY <1>2 DEF LoaderAssumption
<1> QED  BY <1>3, <1>4

(* il_load_module() is called for a module that is not loaded.             *)
LEMMA PushIsGood ==
    ASSUME LoaderAssumption, NEW ld, NEW fs, GoodFrames(fs, ld), NEW m \in Library, m \notin ld,
           fs # <<>> => AsksFor(fs[1], m)
    PROVE  /\ GoodFrames(<<[library |-> m, next |-> 1]>> \o fs, ld)
           /\ (<<[library |-> m, next |-> 1]>> \o fs)[1] = [library |-> m, next |-> 1]
PROOF
<1> DEFINE f == [library |-> m, next |-> 1]
           t == <<f>> \o fs
<1>1. fs \in Seq(Frame) /\ DOMAIN fs = 1..Len(fs) /\ Len(fs) \in Nat
  BY LenProperties DEF GoodFrames
<1>2. f \in Frame /\ f.library = m /\ f.next = 1
  BY DEF Frame
<1> HIDE DEF f
<1>3. /\ t \in Seq(Frame) /\ DOMAIN t = 1..(Len(fs) + 1) /\ t[1] = f
      /\ \A k \in 2..(Len(fs) + 1) : t[k] = fs[k - 1]
  BY <1>1, <1>2, PushByIndex
<1> HIDE DEF t
<1>4. \A k \in DOMAIN t : k # 1 => k \in Nat /\ k - 1 \in DOMAIN fs /\ t[k] = fs[k - 1]
  BY <1>1, <1>3
<1>5. GoodFrame(f, ld)
  BY <1>2, DepsAreModules DEF GoodFrame
<1>6. \A k \in DOMAIN t : GoodFrame(t[k], ld)
  BY <1>3, <1>4, <1>5 DEF GoodFrames
<1>7. \A k \in DOMAIN fs : fs[k].library # m
  <2>1. CASE fs = <<>>
    BY <2>1
  <2>2. CASE fs # <<>>
    BY <2>2, CallIsNew
  <2> QED  BY <2>1, <2>2
<1>8. ASSUME NEW j \in DOMAIN t, NEW k \in DOMAIN t, t[j].library = t[k].library
      PROVE  j = k
  <2>1. CASE j = 1 /\ k = 1
    BY <2>1
  <2>2. CASE j = 1 /\ k # 1
    BY <1>2, <1>3, <1>4, <1>7, <1>8, <2>2
  <2>3. CASE j # 1 /\ k = 1
    BY <1>2, <1>3, <1>4, <1>7, <1>8, <2>3
  <2>4. CASE j # 1 /\ k # 1
    <3>1. j - 1 = k - 1
      BY <1>4, <1>8, <2>4 DEF GoodFrames
    <3> QED  BY <1>4, <2>4, <3>1
  <2> QED  BY <2>1, <2>2, <2>3, <2>4
<1>9. ASSUME NEW k \in DOMAIN t, k > 1
      PROVE  AsksFor(t[k], t[k - 1].library)
  <2>1. k - 1 \in DOMAIN fs /\ t[k] = fs[k - 1] /\ k - 1 \in DOMAIN t /\ k \in Nat
    BY <1>1, <1>3, <1>4, <1>9
  <2>2. CASE k = 2
    <3>1. t[k] = fs[1] /\ t[k - 1].library = m /\ fs # <<>>
      BY <1>2, <1>3, <2>1, <2>2, EmptySeq
    <3> QED  BY <3>1
  <2>3. CASE k # 2
    <3>1. t[k - 1] = fs[(k - 1) - 1] /\ k - 1 > 1
      BY <1>4, <1>9, <2>1, <2>3
    <3> QED  BY <2>1, <3>1 DEF GoodFrames
  <2> QED  BY <2>2, <2>3
<1> QED  BY <1>3, <1>6, <1>8, <1>9 DEF GoodFrames, t, f

(* The innermost call asks for its next dependency.                        *)
LEMMA AskIsGood ==
    ASSUME LoaderAssumption, NEW ld, NEW fs, GoodFrames(fs, ld), fs # <<>>,
           fs[1].next <= Len(Deps[fs[1].library]),
           fs[1].next > 1 => Asked(fs[1], fs[1].next - 1) \in ld
    PROVE  LET f == [Head(fs) EXCEPT !.next = Head(fs).next + 1]
               t == <<f>> \o Tail(fs)
           IN  /\ GoodFrames(t, ld) /\ t # <<>> /\ t[1] = f
               /\ AsksFor(f, Deps[fs[1].library][fs[1].next])
               /\ Deps[fs[1].library][fs[1].next] \in Library
PROOF
<1> DEFINE f == [Head(fs) EXCEPT !.next = Head(fs).next + 1]
           t == <<f>> \o Tail(fs)
           n == Len(fs)
<1>0. fs \in Seq(Frame)
  BY DEF GoodFrames
<1>1. /\ n \in Nat /\ n >= 1 /\ DOMAIN fs = 1..n /\ 1 \in DOMAIN fs
      /\ Head(fs) = fs[1] /\ fs[1] \in Frame
      /\ fs[1].library \in Library /\ fs[1].next \in Nat
      /\ Tail(fs) \in Seq(Frame) /\ DOMAIN Tail(fs) = 1..(n - 1)
      /\ \A k \in 1..(n - 1) : Tail(fs)[k] = fs[k + 1]
  BY <1>0, TopFrame
<1>2. f \in Frame /\ f.library = fs[1].library /\ f.next = fs[1].next + 1
  BY <1>1 DEF Frame
<1> HIDE DEF f
<1>3. /\ t \in Seq(Frame) /\ t # <<>> /\ DOMAIN t = 1..(Len(Tail(fs)) + 1) /\ t[1] = f
      /\ \A k \in 2..(Len(Tail(fs)) + 1) : t[k] = Tail(fs)[k - 1]
  BY <1>1, <1>2, PushByIndex
<1>4. Len(Tail(fs)) = n - 1
  BY <1>0, HeadTailProperties
<1> HIDE DEF t
<1>5. DOMAIN t = 1..n /\ \A k \in 1..n : k # 1 => t[k] = fs[k]
  <2>1. ASSUME NEW k \in 1..n, k # 1
        PROVE  t[k] = fs[k]
    <3>1. k \in 2..n /\ k - 1 \in 1..(n - 1) /\ (k - 1) + 1 = k
      BY <1>1, <2>1
    <3> QED  BY <1>1, <1>3, <1>4, <3>1
  <2> QED  BY <1>1, <1>3, <1>4, <2>1
<1>6. /\ Len(Deps[fs[1].library]) \in Nat
      /\ DOMAIN Deps[fs[1].library] = 1..Len(Deps[fs[1].library])
      /\ \A i \in DOMAIN Deps[fs[1].library] : Deps[fs[1].library][i] \in Library
  BY <1>1, DepsAreModules
<1>7. GoodFrame(fs[1], ld)
  BY <1>1 DEF GoodFrames
<1>8. GoodFrame(f, ld)
  <2>1. f.library \notin ld /\ f.next \in 1..(Len(Deps[f.library]) + 1)
    BY <1>1, <1>2, <1>6, <1>7 DEF GoodFrame
  <2>2. ASSUME NEW i \in DOMAIN Deps[f.library], i + 1 < f.next
        PROVE  Asked(f, i) \in ld
    <3>1. i + 1 < fs[1].next \/ (i = fs[1].next - 1 /\ fs[1].next > 1)
      BY <1>1, <1>2, <1>6, <2>2
    <3>2. Asked(f, i) = Asked(fs[1], i)
      BY <1>2 DEF Asked
    <3> QED  BY <1>2, <1>7, <2>2, <3>1, <3>2 DEF GoodFrame
  <2> QED  BY <2>1, <2>2 DEF GoodFrame
<1>9. \A k \in DOMAIN t : GoodFrame(t[k], ld)
  BY <1>1, <1>3, <1>5, <1>8 DEF GoodFrames
<1>10. \A k \in DOMAIN t : t[k].library = fs[k].library
  BY <1>2, <1>3, <1>5
<1>11. \A j, k \in DOMAIN t : t[j].library = t[k].library => j = k
  BY <1>1, <1>5, <1>10 DEF GoodFrames
<1>12. ASSUME NEW k \in DOMAIN t, k > 1
       PROVE  AsksFor(t[k], t[k - 1].library)
  <2>1. t[k] = fs[k] /\ k - 1 \in DOMAIN t /\ k \in DOMAIN fs
    BY <1>1, <1>5, <1>12
  <2> QED  BY <1>10, <1>12, <2>1 DEF GoodFrames
<1>13. fs[1].next \in DOMAIN Deps[fs[1].library]
  <2>1. fs[1].next >= 1
    BY <1>1, <1>7 DEF GoodFrame
  <2> QED  BY <1>1, <1>6, <2>1
<1>14. AsksFor(f, Deps[fs[1].library][fs[1].next])
  <2>1. f.next > 1 /\ f.next - 1 = fs[1].next
    BY <1>2, <1>6, <1>13
  <2> QED  BY <1>2, <2>1 DEF AsksFor, Asked
<1> QED  BY <1>3, <1>6, <1>9, <1>11, <1>12, <1>13, <1>14 DEF GoodFrames, f, t

(* The innermost call returns; if it has loaded its module, the one below  *)
(* has what it asked for.                                                  *)
LEMMA PopIsGood ==
    ASSUME NEW ld, NEW fs, GoodFrames(fs, ld), fs # <<>>, NEW after,
           after = ld \/ after = ld \cup {fs[1].library}
    PROVE  /\ GoodFrames(Tail(fs), after)
           /\ Tail(fs) # <<>> => AsksFor(Tail(fs)[1], fs[1].library)
           /\ \A k \in DOMAIN Tail(fs) : Tail(fs)[k].library # fs[1].library
           /\ \A k \in DOMAIN Tail(fs) : \E j \in DOMAIN fs : Tail(fs)[k] = fs[j]
PROOF
<1> DEFINE t == Tail(fs)
           n == Len(fs)
<1>1. /\ n \in Nat /\ n >= 1 /\ DOMAIN fs = 1..n /\ 1 \in DOMAIN fs
      /\ t \in Seq(Frame) /\ DOMAIN t = 1..(n - 1)
      /\ \A k \in 1..(n - 1) : t[k] = fs[k + 1]
  BY TopFrame DEF GoodFrames
<1> HIDE DEF t
<1>2. \A k \in DOMAIN t : k \in Nat /\ k + 1 \in DOMAIN fs /\ k + 1 # 1 /\ t[k] = fs[k + 1]
  BY <1>1
<1>3. \A k \in DOMAIN t : t[k].library # fs[1].library
  BY <1>1, <1>2 DEF GoodFrames
<1>4. \A k \in DOMAIN t : GoodFrame(t[k], after)
  <2> SUFFICES ASSUME NEW k \in DOMAIN t
               PROVE  GoodFrame(t[k], after)
    OBVIOUS
  <2>1. GoodFrame(t[k], ld) /\ t[k].library # fs[1].library
    BY <1>2, <1>3 DEF GoodFrames
  <2> QED  BY <2>1 DEF GoodFrame
<1>5. \A j, k \in DOMAIN t : t[j].library = t[k].library => j = k
  <2> SUFFICES ASSUME NEW j \in DOMAIN t, NEW k \in DOMAIN t, t[j].library = t[k].library
               PROVE  j = k
    OBVIOUS
  <2>1. j + 1 = k + 1
    BY <1>2 DEF GoodFrames
  <2> QED  BY <1>2, <2>1
<1>6. ASSUME NEW k \in DOMAIN t, k > 1
      PROVE  AsksFor(t[k], t[k - 1].library)
  <2>1. t[k] = fs[k + 1] /\ t[k - 1] = fs[(k + 1) - 1] /\ k + 1 \in DOMAIN fs /\ k + 1 > 1
    <3>1. k - 1 \in 1..(n - 1) /\ (k - 1) + 1 = (k + 1) - 1
      BY <1>1, <1>6
    <3> QED  BY <1>1, <1>2, <3>1
  <2> QED  BY <2>1 DEF GoodFrames
<1>7. ASSUME t # <<>>
      PROVE  AsksFor(t[1], fs[1].library)
  <2>1. 1 \in DOMAIN t
    BY <1>1, <1>7, TopFrame
  <2>2. t[1] = fs[2] /\ 2 \in DOMAIN fs
    BY <1>1, <2>1
  <2>3. AsksFor(fs[2], fs[1].library)
    <3>1. \A k \in DOMAIN fs : k > 1 => AsksFor(fs[k], fs[k - 1].library)
      BY DEF GoodFrames
    <3>2. PICK k \in DOMAIN fs : k = 2 /\ k > 1 /\ k - 1 = 1
      BY <2>2
    <3>3. AsksFor(fs[k], fs[k - 1].library)
      BY <3>1, <3>2
    <3> QED  BY <3>2, <3>3
  <2> QED  BY <2>2, <2>3
<1> QED  BY <1>1, <1>2, <1>3, <1>4, <1>5, <1>6, <1>7 DEF GoodFrames, t
-----------------------------------------------------------------------------
(* The first half of il_load_module(), with calls below it that wait for   *)
(* the module, if any.                                                     *)
LEMMA LoadKeeps ==
    ASSUME LoaderAssumption, LoaderInv, NEW m \in Library, NEW rest, GoodFrames(rest, loaded),
           rest # <<>> => AsksFor(rest[1], m),
           \A k \in DOMAIN rest : \E j \in DOMAIN frames : rest[k].library = frames[j].library,
           Load(m, rest), UNCHANGED <<loaded, boots>>, entries' \subseteq Library,
           calls' \in 0..MaxCalls
    PROVE  LoaderInv'
PROOF
<1>1. CASE m \in loaded \/ m \in Absent
  <2>1. /\ result' = IF m \in loaded THEN "success" ELSE "failure"
        /\ frames' = rest /\ opens' = opens
    BY <1>1 DEF Load
  <2>2. GoodFrames(frames', loaded') /\ frames' \in Seq(Frame)
    BY <2>1 DEF GoodFrames
  <2>3. TopHasAll'
    BY <2>1 DEF TopHasAll, AsksFor
  <2>4. LoadedIsUsable'
    <3>1. DependenciesLoaded' /\ BootstrappedOnce'
      BY DEF LoaderInv, LoadedIsUsable, DependenciesLoaded, BootstrappedOnce
    <3>2. LoadedIsOpen'
      <4>1. \A x \in Library : (\E k \in DOMAIN frames' : frames'[k].library = x)
                                  => \E k \in DOMAIN frames : frames[k].library = x
        BY <2>1
      <4> QED  BY <2>1, <4>1 DEF LoaderInv, LoaderTypes, LoadedIsUsable, LoadedIsOpen
    <3> QED  BY <3>1, <3>2 DEF LoadedIsUsable
  <2>5. LoaderTypes'
    BY <2>1, <2>2 DEF LoaderInv, LoaderTypes
  <2> QED  BY <2>2, <2>3, <2>4, <2>5 DEF LoaderInv
<1>2. CASE m \notin loaded /\ m \notin Absent
  <2> DEFINE f == [library |-> m, next |-> 1]
  <2>1. /\ result' = "none" /\ frames' = <<f>> \o rest
        /\ opens' = [opens EXCEPT ![m] = opens[m] + 1]
    BY <1>2 DEF Load
  <2>2. GoodFrames(frames', loaded') /\ frames'[1] = f /\ frames' \in Seq(Frame)
    <3>1. GoodFrames(<<f>> \o rest, loaded) /\ (<<f>> \o rest)[1] = f
      BY <1>2, PushIsGood
    <3>2. GoodFrames(frames', loaded') /\ frames'[1] = f
      BY <2>1, <3>1
    <3> QED  BY <3>2 DEF GoodFrames
  <2>3. rest \in Seq(Frame) /\ f \in Frame
    BY DEF Frame, GoodFrames
  <2>4. /\ DOMAIN frames' = 1..(Len(rest) + 1) /\ DOMAIN rest = 1..Len(rest) /\ Len(rest) \in Nat
        /\ \A k \in 2..(Len(rest) + 1) : frames'[k] = rest[k - 1]
    BY <2>1, <2>3, PushByIndex, LenProperties
  <2>5. TopHasAll'
    BY <2>2 DEF TopHasAll
  <2>6. LoadedIsUsable'
    <3>1. DependenciesLoaded' /\ BootstrappedOnce'
      BY DEF LoaderInv, LoadedIsUsable, DependenciesLoaded, BootstrappedOnce
    <3>2. LoadedIsOpen'
      <4> SUFFICES ASSUME NEW x \in Library,
                          x \in loaded \/ \E k \in DOMAIN frames' : frames'[k].library = x
                   PROVE  opens'[x] >= 1
        BY <2>1 DEF LoadedIsOpen, LoaderInv, LoaderTypes
      <4>1. CASE x = m
        BY <2>1, <4>1 DEF LoaderInv, LoaderTypes
      <4>2. CASE x # m
        <5>1. x \in loaded \/ \E k \in DOMAIN frames : frames[k].library = x
          <6>1. ASSUME NEW k \in DOMAIN frames', frames'[k].library = x
                PROVE  \E j \in DOMAIN frames : frames[j].library = x
            <7>1. k # 1
              BY <2>2, <4>2, <6>1
            <7>2. frames'[k] = rest[k - 1] /\ k - 1 \in DOMAIN rest
              BY <2>4, <7>1
            <7> QED  BY <6>1, <7>2
          <6> QED  BY <6>1
        <5>2. opens[x] >= 1
          BY <5>1 DEF LoaderInv, LoadedIsUsable, LoadedIsOpen
        <5> QED  BY <2>1, <4>2, <5>2 DEF LoaderInv, LoaderTypes
      <4> QED  BY <4>1, <4>2
    <3> QED  BY <3>1, <3>2 DEF LoadedIsUsable
  <2>7. LoaderTypes'
    BY <2>1, <2>2 DEF LoaderInv, LoaderTypes
  <2> QED  BY <2>2, <2>5, <2>6, <2>7 DEF LoaderInv
<1> QED  BY <1>1, <1>2

(* No call is under way.                                                   *)
LEMMA NoFrames == \A ld : GoodFrames(<<>>, ld)
PROOF
  BY EmptySeq DEF GoodFrames

(* Each action keeps all of it.                                            *)
LEMMA LoaderStep ==
    ASSUME LoaderAssumption, LoaderInv, [LoaderNext]_loaderVars
    PROVE  LoaderInv'
PROOF
<1>1. ASSUME NEW m \in Library, LoadEntry(m) \/ LoadByName(m)
      PROVE  LoaderInv'
  <2>1. /\ Load(m, <<>>) /\ UNCHANGED <<loaded, boots>> /\ entries' \subseteq Library
        /\ calls' \in 0..MaxCalls
    BY <1>1 DEF LoadEntry, LoadByName, LoaderInv, LoaderTypes, LoaderAssumption
  <2> QED  BY <2>1, NoFrames, LoadKeeps
<1>2. CASE LoadDependency
  <2> DEFINE f == [Top EXCEPT !.next = Top.next + 1]
             rest == <<f>> \o Tail(frames)
             m == Deps[Top.library][Top.next]
  <2>1. /\ frames # <<>> /\ result = "none" /\ Top.next <= Len(Deps[Top.library])
        /\ Load(m, rest) /\ UNCHANGED <<loaded, entries, boots, calls>>
    BY <1>2 DEF LoadDependency
  <2>2. frames \in Seq(Frame) /\ GoodFrames(frames, loaded) /\ Top = frames[1]
    BY <2>1, TopFrame DEF Top, LoaderInv, LoaderTypes
  <2>3. frames[1].next > 1 => Asked(frames[1], frames[1].next - 1) \in loaded
    BY <2>1 DEF LoaderInv, TopHasAll
  <2>4. /\ GoodFrames(rest, loaded) /\ rest # <<>> /\ rest[1] = f
        /\ AsksFor(f, m) /\ m \in Library
    <3>1. frames[1].next <= Len(Deps[frames[1].library])
      BY <2>1, <2>2
    <3> QED  BY <2>1, <2>2, <2>3, <3>1, AskIsGood DEF Top
  <2>5. \A k \in DOMAIN rest : \E j \in DOMAIN frames : rest[k].library = frames[j].library
    <3>1. /\ Top \in Frame /\ 1 \in DOMAIN frames /\ Len(frames) \in Nat
          /\ DOMAIN frames = 1..Len(frames)
          /\ Tail(frames) \in Seq(Frame) /\ DOMAIN Tail(frames) = 1..(Len(frames) - 1)
          /\ \A k \in 1..(Len(frames) - 1) : Tail(frames)[k] = frames[k + 1]
      BY <2>1, <2>2, TopFrame
    <3>2. f \in Frame /\ f.library = frames[1].library
      BY <2>2, <3>1 DEF Frame
    <3> HIDE DEF f
    <3>3. /\ DOMAIN rest = 1..(Len(Tail(frames)) + 1)
          /\ \A k \in 2..(Len(Tail(frames)) + 1) : rest[k] = Tail(frames)[k - 1]
      BY <3>1, <3>2, PushByIndex
    <3>4. Len(Tail(frames)) = Len(frames) - 1
      BY <2>1, <2>2, HeadTailProperties
    <3>5. ASSUME NEW k \in DOMAIN rest
          PROVE  \E j \in DOMAIN frames : rest[k].library = frames[j].library
      <4>1. CASE k = 1
        BY <2>4, <3>1, <3>2, <4>1
      <4>2. CASE k # 1
        <5>1. rest[k] = frames[(k - 1) + 1] /\ (k - 1) + 1 \in DOMAIN frames
          BY <3>1, <3>3, <3>4, <4>2
        <5> QED  BY <5>1
      <4> QED  BY <4>1, <4>2
    <3> QED  BY <3>5
  <2>6. entries' \subseteq Library /\ calls' \in 0..MaxCalls
    BY <2>1 DEF LoaderInv, LoaderTypes
  <2> HIDE DEF f, rest, m
  <2> QED  BY <2>1, <2>4, <2>5, <2>6, LoadKeeps
<1>3. CASE Depend
  <2>1. /\ frames # <<>> /\ result # "none" /\ UNCHANGED <<loaded, opens, entries, boots, calls>>
        /\ IF result = "success" THEN result' = "none" /\ UNCHANGED frames
           ELSE frames' = Tail(frames) /\ UNCHANGED result
    BY <1>3 DEF Depend
  <2>2. CASE result = "success"
    BY <2>1, <2>2 DEF LoaderInv, LoaderTypes, TopHasAll, LoadedIsUsable, DependenciesLoaded,
                      LoadedIsOpen, BootstrappedOnce
  <2>3. CASE result # "success"
    <3>1. /\ frames' = Tail(frames) /\ result' = result /\ result = "failure"
          /\ GoodFrames(frames, loaded) /\ frames \in Seq(Frame)
      BY <2>1, <2>3 DEF LoaderInv, LoaderTypes
    <3>2. /\ GoodFrames(frames', loaded')
          /\ \A k \in DOMAIN frames' : \E j \in DOMAIN frames : frames'[k] = frames[j]
      BY <2>1, <3>1, PopIsGood
    <3>3. GoodFrames(frames', loaded') /\ frames' \in Seq(Frame)
      BY <3>2 DEF GoodFrames
    <3>4. TopHasAll'
      BY <3>1 DEF TopHasAll
    <3>5. LoadedIsOpen'
      BY <2>1, <3>2 DEF LoaderInv, LoaderTypes, LoadedIsUsable, LoadedIsOpen
    <3> QED  BY <2>1, <3>1, <3>3, <3>4, <3>5
             DEF LoaderInv, LoaderTypes, LoadedIsUsable, DependenciesLoaded, BootstrappedOnce
  <2> QED  BY <2>2, <2>3
<1>4. ASSUME DepsDone
      PROVE  /\ frames # <<>> /\ Top = frames[1] /\ Top.library \in Library
             /\ Top.library \notin loaded /\ opens[Top.library] >= 1
             /\ \A i \in DOMAIN Deps[Top.library] : Deps[Top.library][i] \in loaded
             /\ frames \in Seq(Frame) /\ GoodFrames(frames, loaded)
  <2>1. /\ frames # <<>> /\ result = "none" /\ Top.next > Len(Deps[Top.library])
        /\ frames \in Seq(Frame) /\ GoodFrames(frames, loaded)
    BY <1>4 DEF DepsDone, LoaderInv, LoaderTypes
  <2>2. Top = frames[1] /\ 1 \in DOMAIN frames /\ Top.library \in Library /\ Top.next \in Nat
    BY <2>1, TopFrame DEF Top
  <2>3. GoodFrame(Top, loaded)
    BY <2>1, <2>2 DEF GoodFrames
  <2>4. /\ Len(Deps[Top.library]) \in Nat
        /\ DOMAIN Deps[Top.library] = 1..Len(Deps[Top.library])
    BY <2>2, DepsAreModules
  <2>5. ASSUME NEW i \in DOMAIN Deps[Top.library]
        PROVE  Deps[Top.library][i] \in loaded
    <3>1. CASE i + 1 < Top.next
      BY <2>3, <3>1 DEF GoodFrame, Asked
    <3>2. CASE i + 1 >= Top.next
      <4>1. i = Top.next - 1 /\ Top.next > 1
        BY <2>1, <2>2, <2>4, <3>2
      <4> QED  BY <2>1, <2>2, <4>1 DEF LoaderInv, TopHasAll, Asked
    <3> QED  BY <2>2, <2>4, <3>1, <3>2
  <2>6. opens[Top.library] >= 1
    BY <2>2 DEF LoaderInv, LoadedIsUsable, LoadedIsOpen
  <2> QED  BY <2>1, <2>2, <2>3, <2>5, <2>6 DEF GoodFrame
<1>5. CASE Bootstrap
  <2> DEFINE t == Top.library
  <2>1. /\ frames # <<>> /\ t = frames[1].library /\ t \in Library /\ t \notin loaded
        /\ opens[t] >= 1 /\ \A i \in DOMAIN Deps[t] : Deps[t][i] \in loaded
        /\ frames \in Seq(Frame) /\ GoodFrames(frames, loaded)
    BY <1>4, <1>5 DEF Bootstrap
  <2>2. /\ loaded' = loaded \cup {t} /\ boots' = [boots EXCEPT ![t] = boots[t] + 1]
        /\ frames' = Tail(frames) /\ result' \in {"success", "failure"}
        /\ UNCHANGED <<opens, entries, calls>>
    BY <1>5 DEF Bootstrap
  <2> HIDE DEF t
  <2>3. /\ GoodFrames(frames', loaded') /\ frames' \in Seq(Frame)
        /\ frames' # <<>> => AsksFor(frames'[1], t)
        /\ \A k \in DOMAIN frames' : \E j \in DOMAIN frames : frames'[k] = frames[j]
    BY <2>1, <2>2, PopIsGood DEF GoodFrames
  <2>4. TopHasAll'
    BY <2>2, <2>3 DEF TopHasAll, AsksFor
  <2>5. DependenciesLoaded'
    BY <2>1, <2>2 DEF LoaderInv, LoadedIsUsable, DependenciesLoaded
  <2>6. BootstrappedOnce'
    BY <2>1, <2>2 DEF LoaderInv, LoaderTypes, LoadedIsUsable, BootstrappedOnce
  <2>7. LoadedIsOpen'
    <3> SUFFICES ASSUME NEW x \in Library,
                        x \in loaded' \/ \E k \in DOMAIN frames' : frames'[k].library = x
                 PROVE  opens[x] >= 1
      BY <2>2 DEF LoadedIsOpen, LoaderInv, LoaderTypes
    <3>1. x = t \/ x \in loaded \/ \E k \in DOMAIN frames : frames[k].library = x
      BY <2>2, <2>3
    <3> QED  BY <2>1, <3>1 DEF LoaderInv, LoadedIsUsable, LoadedIsOpen
  <2>8. LoaderTypes'
    BY <2>1, <2>2, <2>3 DEF LoaderInv, LoaderTypes
  <2> QED  BY <2>3, <2>4, <2>5, <2>6, <2>7, <2>8 DEF LoaderInv, LoadedIsUsable
<1>6. CASE BootstrapMissing
  <2> DEFINE t == Top.library
  <2>1. /\ frames # <<>> /\ t = frames[1].library /\ t \in Library /\ t \notin loaded
        /\ opens[t] >= 1 /\ frames \in Seq(Frame) /\ GoodFrames(frames, loaded)
    BY <1>4, <1>6 DEF BootstrapMissing
  <2>2. /\ opens' = [opens EXCEPT ![t] = opens[t] - 1] /\ frames' = Tail(frames)
        /\ result' = "failure" /\ UNCHANGED <<loaded, entries, boots, calls>>
    BY <1>6 DEF BootstrapMissing
  <2> HIDE DEF t
  <2>3. /\ GoodFrames(frames', loaded')
        /\ \A k \in DOMAIN frames' : frames'[k].library # t
        /\ \A k \in DOMAIN frames' : \E j \in DOMAIN frames : frames'[k] = frames[j]
    BY <2>1, <2>2, PopIsGood
  <2>4. GoodFrames(frames', loaded') /\ frames' \in Seq(Frame)
    BY <2>3 DEF GoodFrames
  <2>5. TopHasAll'
    BY <2>2 DEF TopHasAll
  <2>6. opens[t] \in Nat /\ opens[t] - 1 \in Nat
    BY <2>1 DEF LoaderInv, LoaderTypes
  <2>7. LoadedIsOpen'
    <3> SUFFICES ASSUME NEW x \in Library
                 PROVE  opens'[x] >= IF x \in loaded \/ \E k \in DOMAIN frames' : frames'[k].library = x
                                     THEN 1 ELSE 0
      BY <2>2 DEF LoadedIsOpen
    <3>1. CASE x = t
      BY <2>1, <2>2, <2>3, <2>6, <3>1 DEF LoaderInv, LoaderTypes
    <3>2. CASE x # t
      <4>1. opens'[x] = opens[x] /\ opens[x] \in Nat
        BY <2>2, <3>2 DEF LoaderInv, LoaderTypes
      <4>2. x \in loaded \/ (\E k \in DOMAIN frames' : frames'[k].library = x) => opens[x] >= 1
        BY <2>3 DEF LoaderInv, LoadedIsUsable, LoadedIsOpen
      <4> QED  BY <4>1, <4>2
    <3> QED  BY <3>1, <3>2
  <2>8. LoaderTypes'
    BY <2>2, <2>4, <2>6 DEF LoaderInv, LoaderTypes
  <2>9. DependenciesLoaded' /\ BootstrappedOnce'
    BY <2>2 DEF LoaderInv, LoadedIsUsable, DependenciesLoaded, BootstrappedOnce
  <2> QED  BY <2>4, <2>5, <2>7, <2>8, <2>9 DEF LoaderInv, LoadedIsUsable
<1>7. ASSUME NEW m \in Library, Close(m)
      PROVE  LoaderInv'
  <2>1. /\ frames = <<>> /\ m \in loaded /\ \A n \in loaded : m \notin ToSet(Deps[n])
        /\ loaded' = loaded \ {m} /\ opens' = [opens EXCEPT ![m] = opens[m] - 1]
        /\ boots' = [boots EXCEPT ![m] = 0] /\ calls' \in 0..MaxCalls
        /\ UNCHANGED <<frames, result, entries>>
    BY <1>7 DEF Close, LoaderInv, LoaderTypes, LoaderAssumption
  <2>2. opens[m] \in Nat /\ opens[m] >= 1 /\ opens[m] - 1 \in Nat
    <3>1. opens[m] \in Nat /\ opens[m] >= 1
      BY <2>1 DEF LoaderInv, LoaderTypes, LoadedIsUsable, LoadedIsOpen
    <3> QED  BY <3>1
  <2>3. GoodFrames(frames', loaded') /\ TopHasAll'
    BY <2>1, NoFrames DEF TopHasAll
  <2>4. LoaderTypes'
    BY <2>1, <2>2 DEF LoaderInv, LoaderTypes
  <2>5. DependenciesLoaded'
    BY <2>1 DEF LoaderInv, LoadedIsUsable, DependenciesLoaded, ToSet
  <2>6. BootstrappedOnce'
    BY <2>1 DEF LoaderInv, LoaderTypes, LoadedIsUsable, BootstrappedOnce
  <2>7. LoadedIsOpen'
    BY <2>1, <2>2 DEF LoaderInv, LoaderTypes, LoadedIsUsable, LoadedIsOpen
  <2> QED  BY <2>3, <2>4, <2>5, <2>6, <2>7 DEF LoaderInv, LoadedIsUsable
<1>8. CASE Idle \/ UNCHANGED loaderVars
  <2>1. UNCHANGED <<loaded, opens, frames, result, entries, boots, calls>>
    BY <1>8 DEF Idle, loaderVars, loading
  <2> QED  BY <2>1 DEF LoaderInv, LoaderTypes, TopHasAll, LoadedIsUsable, DependenciesLoaded,
                       LoadedIsOpen, BootstrappedOnce
<1> QED  BY <1>1, <1>2, <1>3, <1>5, <1>6, <1>7, <1>8 DEF LoaderNext, Step

(* All of it in every state.                                               *)
LEMMA LoaderInvariant ==
    ASSUME LoaderAssumption
    PROVE  LoaderSpec => []LoaderInv
PROOF
<1>1. LoaderInit => LoaderInv
  <2> SUFFICES ASSUME LoaderInit
               PROVE  LoaderInv
    OBVIOUS
  <2>1. LoaderTypes
    BY EmptySeq DEF LoaderInit, LoaderTypes, LoaderAssumption
  <2>2. GoodFrames(frames, loaded) /\ TopHasAll
    BY NoFrames DEF LoaderInit, TopHasAll
  <2>3. LoadedIsUsable
    BY DEF LoaderInit, LoadedIsUsable, DependenciesLoaded, LoadedIsOpen, BootstrappedOnce
  <2> QED  BY <2>1, <2>2, <2>3 DEF LoaderInv
<1>2. LoaderInv /\ [LoaderNext]_loaderVars => LoaderInv'
  BY LoaderStep
<1> QED  BY <1>1, <1>2, PTL DEF LoaderSpec

(* Every variable keeps its type.                                          *)
THEOREM LoaderKeepsTypes ==
    ASSUME LoaderAssumption
    PROVE  LoaderSpec => []LoaderTypes
PROOF
<1>1. LoaderInv => LoaderTypes
  BY DEF LoaderInv
<1> QED  BY <1>1, LoaderInvariant, PTL

(* For any modules that depend on each other in no circle, whichever are   *)
(* missing, lack a bootstrap or fail in it, in whatever order they are     *)
(* asked for and closed: a module that is loaded has all it depends on     *)
(* loaded, its library open, and has been bootstrapped exactly once.       *)
THEOREM LoadedStaysUsable ==
    ASSUME LoaderAssumption
    PROVE  LoaderSpec => []LoadedIsUsable
PROOF
<1>1. LoaderInv => LoadedIsUsable
  BY DEF LoaderInv
<1> QED  BY <1>1, LoaderInvariant, PTL
-----------------------------------------------------------------------------
(***************************************************************************)
(* The inductive invariant.  To what ObjectsOwned says it adds:            *)
(*   - an object is in the stack of destructors once, and not yet freed;   *)
(*   - the references to an object are finitely many;                      *)
(*   - no list of weak references has the same pointer twice;              *)
(*   - a file that has a descriptor is mapped, so that ilA_contents() does *)
(*     not open it again.                                                  *)
(***************************************************************************)
Under(stack) == {stack[k].object : k \in DOMAIN stack}

StackInv ==
    /\ \A k \in DOMAIN unrefs : unrefs[k].next >= 1 /\ kind[unrefs[k].object] # "free"
    /\ \A j, k \in DOMAIN unrefs : unrefs[j].object = unrefs[k].object => j = k

CountInv == RefsCountOwners /\ \A x \in Object : IsFiniteSet(Holders(x))

WeakInv == WeakRefsLive /\ \A o \in Object : Alive(o) => IsInjective(weak_refs[o])

FileInv ==
    /\ DescriptorsOwned
    /\ \A d \in Descriptor \ {0} : table[d] \in Object \cup {NULL}
    /\ \A o \in Object : kind[o] = "file" /\ fd[o] \notin {0, -1} => o \in mapped

AssetInv == AssetTypes /\ StackInv /\ CountInv /\ WeakInv /\ FileInv
-----------------------------------------------------------------------------
(***************************************************************************)
(* The stack of destructors                                                *)
(***************************************************************************)
Destructor == [object : Object, next : Nat]

(* No object twice, as StackInv says of the stack.                         *)
Distinct(stack) == \A j, k \in DOMAIN stack : stack[j].object = stack[k].object => j = k

(* The same parts are still to be given up.                                *)
SameLeft(after, stack) ==
    \A o : \A i \in Nat \ {0} : Left(after, o, i) <=> Left(stack, o, i)

(* A destructor that begins has all the parts of its object before it.     *)
LEMMA DestructorBegins ==
    ASSUME NEW stack \in Seq(Destructor), Distinct(stack),
           NEW y \in Object, y \notin Under(stack),
           NEW after, after = <<[object |-> y, next |-> 1]>> \o stack
    PROVE  /\ after \in Seq(Destructor) /\ Distinct(after)
           /\ Under(after) = Under(stack) \cup {y}
           /\ \A k \in DOMAIN after :
                  \/ after[k].object = y /\ after[k].next = 1
                  \/ \E j \in DOMAIN stack : after[k] = stack[j]
           /\ SameLeft(after, stack)
PROOF
<1> DEFINE e == [object |-> y, next |-> 1]
           n == Len(stack)
<1>1. n \in Nat /\ DOMAIN stack = 1..n /\ e \in Destructor /\ e.object = y /\ e.next = 1
  BY LenProperties DEF Destructor
<1>2. /\ after \in Seq(Destructor) /\ DOMAIN after = 1..(n + 1) /\ after[1] = e
      /\ \A k \in 2..(n + 1) : after[k] = stack[k - 1]
  BY <1>1, PushByIndex
<1>3. \A k \in 1..n : stack[k] \in Destructor
  BY <1>1, ElementOfSeq
<1>4. \A k \in 1..n : stack[k].object # y
  BY <1>1 DEF Under
<1> HIDE DEF e, n
<1>5. \A k \in 1..(n + 1) : k = 1 \/ (k \in 2..(n + 1) /\ k - 1 \in 1..n /\ after[k] = stack[k - 1])
  BY <1>1, <1>2
<1>6. \A k \in 1..n : k + 1 \in 2..(n + 1) /\ k + 1 \in 1..(n + 1) /\ after[k + 1] = stack[k]
  BY <1>1, <1>2
<1>7. Distinct(after)
  <2> SUFFICES ASSUME NEW j \in 1..(n + 1), NEW k \in 1..(n + 1),
                      after[j].object = after[k].object
               PROVE  j = k
    BY <1>2 DEF Distinct
  <2>1. \A a, b \in 1..n : stack[a].object = stack[b].object => a = b
    BY <1>1 DEF Distinct
  <2>2. CASE j = 1 /\ k = 1
    BY <2>2
  <2>3. CASE j = 1 /\ k # 1
    BY <2>3, <1>1, <1>2, <1>4, <1>5
  <2>4. CASE j # 1 /\ k = 1
    BY <2>4, <1>1, <1>2, <1>4, <1>5
  <2>5. CASE j # 1 /\ k # 1
    <3>1. j - 1 = k - 1
      BY <2>1, <2>5, <1>5
    <3> QED  BY <3>1, <1>1
  <2> QED  BY <2>2, <2>3, <2>4, <2>5
<1>8. Under(after) = Under(stack) \cup {y}
  <2>1. 1 \in 1..(n + 1)
    BY <1>1
  <2>2. Under(after) = {after[k].object : k \in 1..(n + 1)}
    BY <1>2 DEF Under
  <2>3. Under(stack) = {stack[k].object : k \in 1..n}
    BY <1>1 DEF Under
  <2>4. ASSUME NEW x \in Under(after)
        PROVE  x \in Under(stack) \cup {y}
    <3>1. PICK k \in 1..(n + 1) : x = after[k].object
      BY <2>2
    <3>2. CASE k = 1
      BY <3>1, <3>2, <1>1, <1>2
    <3>3. CASE k # 1
      BY <3>1, <3>3, <2>3, <1>5
    <3> QED  BY <3>2, <3>3
  <2>5. \A x \in Under(stack) : x \in Under(after)
    BY <2>2, <2>3, <1>6
  <2>6. y \in Under(after)
    BY <2>1, <2>2, <1>1, <1>2
  <2> QED  BY <2>4, <2>5, <2>6
<1>9. ASSUME NEW o, NEW i \in Nat \ {0}
      PROVE  Left(after, o, i) <=> Left(stack, o, i)
  <2>1. ASSUME Left(after, o, i)
        PROVE  Left(stack, o, i)
    BY <2>1, <1>1, <1>2, <1>6 DEF Left
  <2>2. ASSUME Left(stack, o, i)
        PROVE  Left(after, o, i)
    <3> SUFFICES ASSUME NEW k \in 1..(n + 1), after[k].object = o
                 PROVE  i >= after[k].next
      BY <1>2 DEF Left
    <3>1. CASE k = 1
      BY <3>1, <1>1, <1>2
    <3>2. CASE k # 1
      BY <3>2, <2>2, <1>1, <1>5 DEF Left
    <3> QED  BY <3>1, <3>2
  <2> QED  BY <2>1, <2>2
<1>10. ASSUME NEW k \in DOMAIN after
       PROVE  (after[k].object = y /\ after[k].next = 1) \/ \E j \in DOMAIN stack : after[k] = stack[j]
  BY <1>1, <1>2, <1>5
<1> QED  BY <1>2, <1>7, <1>8, <1>9, <1>10 DEF SameLeft

(* A destructor that has given up one part goes on with the next.          *)
LEMMA DestructorGoesOn ==
    ASSUME NEW stack \in Seq(Destructor), Distinct(stack), stack # <<>>,
           NEW after, after = <<[Head(stack) EXCEPT !.next = @ + 1]>> \o Tail(stack)
    PROVE  /\ after \in Seq(Destructor) /\ Distinct(after)
           /\ Under(after) = Under(stack)
           /\ \A k \in DOMAIN after : /\ k \in DOMAIN stack
                                      /\ after[k].object = stack[k].object
                                      /\ after[k].next >= stack[k].next
           /\ \A i \in Nat : Left(after, Head(stack).object, i) <=> i > Head(stack).next
           /\ \A i \in Nat : Left(stack, Head(stack).object, i) <=> i >= Head(stack).next
           /\ \A o \in Object \ {Head(stack).object}, i \in Nat :
                  Left(after, o, i) <=> Left(stack, o, i)
PROOF
<1> DEFINE e == [Head(stack) EXCEPT !.next = @ + 1]
           n == Len(stack)
           p == Head(stack).object
<1>1. /\ n \in Nat /\ n >= 1 /\ DOMAIN stack = 1..n
      /\ Tail(stack) \in Seq(Destructor) /\ DOMAIN Tail(stack) = 1..(n - 1)
      /\ \A k \in 1..(n - 1) : Tail(stack)[k] = stack[k + 1]
      /\ Head(stack) = stack[1] /\ Head(stack) \in Destructor
  BY TailByIndex
<1>2. /\ e \in Destructor /\ e.object = p /\ p = stack[1].object /\ p \in Object
      /\ stack[1].next \in Nat /\ e.next = stack[1].next + 1 /\ Head(stack).next = stack[1].next
  BY <1>1 DEF Destructor
<1>3. Len(Tail(stack)) = n - 1
  BY <1>1, LenProperties
<1>4. /\ after \in Seq(Destructor) /\ DOMAIN after = 1..n /\ after[1] = e
      /\ \A k \in 2..n : after[k] = Tail(stack)[k - 1]
  <2> HIDE DEF e
  <2>1. /\ after \in Seq(Destructor) /\ DOMAIN after = 1..(n - 1 + 1) /\ after[1] = e
        /\ \A k \in 2..(n - 1 + 1) : after[k] = Tail(stack)[k - 1]
    BY <1>1, <1>2, <1>3, PushByIndex DEF e
  <2>2. n - 1 + 1 = n
    BY <1>1
  <2> QED  BY <2>1, <2>2
<1> HIDE DEF e, n, p
<1>5. \A k \in 1..n : k = 1 \/ after[k] = stack[k]
  <2> SUFFICES ASSUME NEW k \in 2..n
               PROVE  after[k] = stack[k]
    BY <1>1
  <2>1. k - 1 \in 1..(n - 1) /\ (k - 1) + 1 = k
    BY <1>1
  <2>2. Tail(stack)[k - 1] = stack[k]
    BY <2>1, <1>1
  <2> QED  BY <2>2, <1>4
<1>6. \A k \in 1..n : /\ stack[k].object \in Object /\ stack[k].next \in Nat
                      /\ after[k].object = stack[k].object
                      /\ after[k].next >= stack[k].next
  <2>1. \A k \in 1..n : stack[k] \in Destructor
    BY <1>1, ElementOfSeq
  <2>2. \A k \in 1..n : stack[k].object \in Object /\ stack[k].next \in Nat
    BY <2>1 DEF Destructor
  <2>3. after[1].object = stack[1].object /\ after[1].next = stack[1].next + 1
    BY <1>2, <1>4
  <2>4. \A k \in 1..n : k = 1 \/ (after[k].object = stack[k].object /\ after[k].next = stack[k].next)
    BY <1>5
  <2> SUFFICES ASSUME NEW k \in 1..n
               PROVE  after[k].object = stack[k].object /\ after[k].next >= stack[k].next
    BY <2>2
  <2>5. CASE k = 1
    BY <2>3, <2>5, <1>2
  <2>6. CASE k # 1
    <3>1. after[k].object = stack[k].object /\ after[k].next = stack[k].next
      BY <2>4, <2>6
    <3>2. stack[k].next \in Nat
      BY <2>2
    <3>3. stack[k].next >= stack[k].next
      BY <3>2
    <3> QED  BY <3>1, <3>3
  <2> QED  BY <2>5, <2>6
<1>7. \A k \in 1..n : stack[k].object = p <=> k = 1
  BY <1>1, <1>2 DEF Distinct
<1>8. Distinct(after) /\ Under(after) = Under(stack)
  <2>1. DOMAIN after = DOMAIN stack /\ \A k \in DOMAIN stack : after[k].object = stack[k].object
    BY <1>1, <1>4, <1>6
  <2>2. Under(after) = Under(stack)
    BY <2>1 DEF Under
  <2>3. Distinct(after)
    BY <2>1 DEF Distinct
  <2> QED  BY <2>2, <2>3
<1>9. ASSUME NEW i \in Nat
      PROVE  /\ Left(after, p, i) <=> i > stack[1].next
             /\ Left(stack, p, i) <=> i >= stack[1].next
  <2>1. 1 \in 1..n
    BY <1>1
  <2>2. Left(stack, p, i) <=> i >= stack[1].next
    BY <2>1, <1>1, <1>2, <1>7 DEF Left
  <2>3. \A k \in 1..n : after[k].object = p <=> k = 1
    BY <1>6, <1>7
  <2>4. Left(after, p, i) <=> i >= after[1].next
    BY <2>1, <2>3, <1>4 DEF Left
  <2>5. after[1].next = stack[1].next + 1
    BY <1>2, <1>4
  <2> QED  BY <2>2, <2>4, <2>5, <1>2
<1>10. ASSUME NEW o \in Object \ {p}, NEW i \in Nat
       PROVE  Left(after, o, i) <=> Left(stack, o, i)
  <2>1. \A k \in 1..n : stack[k].object = o => after[k] = stack[k] /\ after[k].object = o
    BY <1>5, <1>7
  <2>2. \A k \in 1..n : after[k].object = o => stack[k].object = o
    BY <1>6
  <2> QED  BY <2>1, <2>2, <1>1, <1>4 DEF Left
<1> QED  BY <1>1, <1>2, <1>4, <1>6, <1>8, <1>9, <1>10 DEF p

(* A destructor that ends leaves the others as they were.                  *)
LEMMA DestructorEnds ==
    ASSUME NEW stack \in Seq(Destructor), Distinct(stack), stack # <<>>
    PROVE  /\ Tail(stack) \in Seq(Destructor) /\ Distinct(Tail(stack))
           /\ Under(Tail(stack)) = Under(stack) \ {Head(stack).object}
           /\ \A k \in DOMAIN Tail(stack) : /\ k + 1 \in DOMAIN stack
                                            /\ Tail(stack)[k] = stack[k + 1]
           /\ \A o \in Object \ {Head(stack).object}, i \in Nat :
                  Left(Tail(stack), o, i) <=> Left(stack, o, i)
PROOF
<1> DEFINE n == Len(stack)
           p == Head(stack).object
           t == Tail(stack)
<1>1. /\ n \in Nat /\ n >= 1 /\ DOMAIN stack = 1..n
      /\ t \in Seq(Destructor) /\ DOMAIN t = 1..(n - 1)
      /\ \A k \in 1..(n - 1) : t[k] = stack[k + 1]
      /\ p = stack[1].object
  BY TailByIndex
<1> HIDE DEF n, p, t
<1>2. \A k \in 1..(n - 1) : k + 1 \in 1..n /\ k + 1 # 1
  BY <1>1
<1>3. \A k \in 1..n : k = 1 \/ (k - 1 \in 1..(n - 1) /\ t[k - 1] = stack[k])
  <2> SUFFICES ASSUME NEW k \in 1..n, k # 1
               PROVE  k - 1 \in 1..(n - 1) /\ t[k - 1] = stack[k]
    OBVIOUS
  <2>1. k - 1 \in 1..(n - 1) /\ (k - 1) + 1 = k
    BY <1>1
  <2> QED  BY <2>1, <1>1
<1>4. \A j, k \in 1..n : stack[j].object = stack[k].object => j = k
  BY <1>1 DEF Distinct
<1>5. 1 \in 1..n
  BY <1>1
<1>6. Distinct(t)
  <2> SUFFICES ASSUME NEW j \in 1..(n - 1), NEW k \in 1..(n - 1), t[j].object = t[k].object
               PROVE  j = k
    BY <1>1 DEF Distinct
  <2>1. j + 1 = k + 1
    BY <1>1, <1>2, <1>4
  <2> QED  BY <2>1, <1>1
<1>7. Under(t) = Under(stack) \ {p}
  <2>1. Under(t) = {t[k].object : k \in 1..(n - 1)} /\ Under(stack) = {stack[k].object : k \in 1..n}
    BY <1>1 DEF Under
  <2>2. \A x \in Under(t) : x \in Under(stack) /\ x # p
    BY <2>1, <1>1, <1>2, <1>4, <1>5
  <2>3. \A x \in Under(stack) : x # p => x \in Under(t)
    BY <2>1, <1>1, <1>3
  <2> QED  BY <2>2, <2>3
<1>8. ASSUME NEW o \in Object \ {p}, NEW i \in Nat
      PROVE  Left(t, o, i) <=> Left(stack, o, i)
  <2>1. ASSUME Left(t, o, i)
        PROVE  Left(stack, o, i)
    BY <2>1, <1>1, <1>3 DEF Left
  <2>2. ASSUME Left(stack, o, i)
        PROVE  Left(t, o, i)
    BY <2>2, <1>1, <1>2 DEF Left
  <2> QED  BY <2>1, <2>2
<1> QED  BY <1>1, <1>2, <1>6, <1>7, <1>8 DEF n, p, t
-----------------------------------------------------------------------------
(***************************************************************************)
(* What the guards of the actions mean                                     *)
(***************************************************************************)

(* The actions, ilA_lookup() being an Open().                              *)
LEMMA Actions ==
    ASSUME [AssetsNext]_assetVars
    PROVE  \/ \E o \in Object : Unref(o) \/ Ref(o) \/ OpenMissing(o) \/ Contents(o)
           \/ \E o \in Object, k \in {"file", "dir"} : Open(o, k)
           \/ \E o, d \in Object : MakePrefix(o, d) \/ ExtendUnion(o, d)
           \/ \E o, a, b \in Object : MakeUnion(o, a, b)
           \/ \E o \in Object, s \in Slot : WeakRef(o, s) \/ WeakUnref(o, s)
           \/ DestroyPart
           \/ DestroyEnd
           \/ UNCHANGED assetVars
PROOF
<1>1. \A o, d \in Object, k \in {"file", "dir"} : Lookup(d, o, k) => Open(o, k)
  BY DEF Lookup
<1> QED  BY <1>1 DEF AssetsNext, Destroying

(* An object is alive until its destructor begins.                         *)
LEMMA AliveMeans ==
    ASSUME NEW x
    PROVE  Alive(x) <=> kind[x] # "free" /\ x \notin Under(unrefs)
PROOF
<1> QED  BY DEF Alive, Under

(* Clients act when no destructor runs.                                    *)
LEMMA ClientMeans ==
    ASSUME Client
    PROVE  /\ unrefs = <<>> /\ unrefs \in Seq(Destructor) /\ DOMAIN unrefs = {}
           /\ Under(unrefs) = {} /\ Distinct(unrefs)
           /\ \A x : Alive(x) <=> kind[x] # "free"
           /\ \A o, i : Left(unrefs, o, i)
PROOF
<1>1. unrefs = <<>> /\ DOMAIN unrefs = {}
  BY DEF Client
<1>2. unrefs \in Seq(Destructor)
  BY <1>1
<1> QED  BY <1>1, <1>2 DEF Under, Distinct, Alive, Left

(* il_unref() of an object whose destructor has not begun.                 *)
LEMMA ReleaseMeans ==
    ASSUME NEW y \in Object, kind[y] # "free",
           NEW stack \in Seq(Destructor), Distinct(stack), y \notin Under(stack),
           \A k \in DOMAIN stack : stack[k].next >= 1 /\ kind[stack[k].object] # "free",
           Release(y, stack)
    PROVE  /\ unrefs' \in Seq(Destructor) /\ Distinct(unrefs')
           /\ \A k \in DOMAIN unrefs' : unrefs'[k].next >= 1 /\ kind[unrefs'[k].object] # "free"
           /\ Under(unrefs') = IF refs[y] <= 1 THEN Under(stack) \cup {y} ELSE Under(stack)
           /\ SameLeft(unrefs', stack)
PROOF
<1>1. CASE refs[y] <= 1
  <2> DEFINE after == <<[object |-> y, next |-> 1]>> \o stack
  <2>1. unrefs' = after
    BY <1>1 DEF Release
  <2>2. /\ after \in Seq(Destructor) /\ Distinct(after)
        /\ Under(after) = Under(stack) \cup {y}
        /\ \A k \in DOMAIN after :
               \/ after[k].object = y /\ after[k].next = 1
               \/ \E j \in DOMAIN stack : after[k] = stack[j]
        /\ SameLeft(after, stack)
    BY DestructorBegins
  <2> HIDE DEF after
  <2>3. \A k \in DOMAIN after : after[k].next >= 1 /\ kind[after[k].object] # "free"
    BY <2>2
  <2> QED  BY <2>1, <2>2, <2>3, <1>1
<1>2. CASE ~ (refs[y] <= 1)
  <2>1. unrefs' = stack
    BY <1>2 DEF Release
  <2> QED  BY <2>1, <1>2 DEF SameLeft
<1> QED  BY <1>1, <1>2

(* Whoever has references held by clients is alive, and counts them.       *)
LEMMA OwnedIsAlive ==
    ASSUME AssetTypes, CountInv, NEW x \in Object, owned[x] > 0
    PROVE  Alive(x) /\ kind[x] # "free"
PROOF
<1>1. Alive(x)
  BY DEF CountInv, RefsCountOwners
<1> QED  BY <1>1 DEF Alive

(* The references to x, by who holds them.                                 *)
LEMMA HoldersByHolder ==
    ASSUME NEW x
    PROVE  /\ \A h \in Holders(x) : \E o \in Object : \E i \in Held(o, x) : h = <<o, i>>
           /\ \A o \in Object : \A i : <<o, i>> \in Holders(x) <=> i \in Held(o, x)
PROOF
<1> QED  BY DEF Holders

(* The reference that a destructor gives up is one that counts: what it    *)
(* refers to has not been destroyed.                                       *)
LEMMA PartIsAlive ==
    ASSUME AssetTypes, StackInv, CountInv, DestroyPart
    PROVE  LET p == Head(unrefs).object
               n == Head(unrefs).next
               y == parts[p][n]
           IN  /\ p \in Object /\ kind[p] # "free" /\ p \in Under(unrefs)
               /\ n \in DOMAIN parts[p] /\ n \in Nat \ {0}
               /\ n \in Held(p, y) /\ <<p, n>> \in Holders(y)
               /\ y \in Object /\ Alive(y) /\ kind[y] # "free" /\ y \notin Under(unrefs)
PROOF
<1> DEFINE p == Head(unrefs).object
           n == Head(unrefs).next
           y == parts[p][n]
<1>1. unrefs # <<>> /\ unrefs \in Seq(Destructor) /\ Distinct(unrefs)
  BY DEF DestroyPart, AssetTypes, Destructor, StackInv, Distinct
<1>2. /\ Head(unrefs) = unrefs[1] /\ Head(unrefs) \in Destructor
      /\ 1 \in DOMAIN unrefs
  BY <1>1, TailByIndex
<1>3. p \in Object /\ n \in Nat /\ n >= 1 /\ kind[p] # "free" /\ p \in Under(unrefs)
  BY <1>2 DEF Destructor, StackInv, Under
<1>4. parts[p] \in Seq(Object) /\ n <= Len(parts[p])
  BY <1>3 DEF AssetTypes, DestroyPart
<1>5. n \in DOMAIN parts[p]
  BY <1>3, <1>4, LenProperties
<1>6. y \in Object
  BY <1>4, <1>5, ElementOfSeq
<1>7. Left(unrefs, p, n)
  <2>1. n >= n
    BY <1>3
  <2> QED  BY <2>1, <1>1, <1>3, DestructorGoesOn
<1> HIDE DEF p, n
<1>8. n \in Held(p, y)
  BY <1>3, <1>5, <1>7 DEF Held
<1>9. <<p, n>> \in Holders(y)
  BY <1>3, <1>8, HoldersByHolder
<1>10. Alive(y)
  BY <1>6, <1>9 DEF CountInv, RefsCountOwners
<1> HIDE DEF y
<1>11. kind[y] # "free" /\ y \notin Under(unrefs)
  BY <1>10, AliveMeans
<1> QED  BY <1>3, <1>5, <1>6, <1>8, <1>9, <1>10, <1>11 DEF p, n, y
-----------------------------------------------------------------------------
(***************************************************************************)
(* Types, and the stack of destructors                                     *)
(***************************************************************************)

(* il_unref() keeps the stack and the count what they are.                 *)
LEMMA ReleaseKeepsStack ==
    ASSUME AssetTypes, NEW y \in Object, kind[y] # "free", refs[y] > 0,
           NEW stack \in Seq(Destructor), Distinct(stack), y \notin Under(stack),
           \A k \in DOMAIN stack : stack[k].next >= 1 /\ kind[stack[k].object] # "free",
           Release(y, stack), kind' = kind
    PROVE  /\ refs' \in [Object -> Nat] /\ slot' \in [Slot -> Object \cup {NULL}]
           /\ unrefs' \in Seq(Destructor) /\ StackInv'
PROOF
<1>1. refs' = [refs EXCEPT ![y] = @ - 1] /\ refs[y] \in Nat
  BY DEF Release, AssetTypes
<1>2. refs' \in [Object -> Nat]
  BY <1>1 DEF AssetTypes
<1>3. slot' \in [Slot -> Object \cup {NULL}]
  BY DEF Release, AssetTypes
<1>4. /\ unrefs' \in Seq(Destructor) /\ Distinct(unrefs')
      /\ \A k \in DOMAIN unrefs' : unrefs'[k].next >= 1 /\ kind[unrefs'[k].object] # "free"
  BY ReleaseMeans
<1>5. StackInv'
  BY <1>4 DEF StackInv, Distinct
<1> QED  BY <1>2, <1>3, <1>4, <1>5

(* An object that is made takes the place of none in the stack.            *)
LEMMA CreateTypes ==
    ASSUME AssetsAssumption, AssetTypes, NEW o \in Object,
           NEW k \in {"file"} \cup Dirs, NEW p \in Seq(Object), Create(o, k, p)
    PROVE  /\ kind' \in [Object -> {"free", "file"} \cup Dirs]
           /\ parts' \in [Object -> Seq(Object)]
           /\ fd' \in [Object -> Descriptor \cup {-1}] /\ mapped' \subseteq Object
           /\ weak_refs' \in [Object -> Seq(Slot)] /\ slot' \in [Slot -> Object \cup {NULL}]
           /\ table' \in [Descriptor -> Object \cup {NULL, Stdin}]
PROOF
<1>1. 0 \in Descriptor
  BY DEF AssetsAssumption
<1>2. kind' \in [Object -> {"free", "file"} \cup Dirs] /\ parts' \in [Object -> Seq(Object)]
  BY DEF Create, AssetTypes
<1>3. fd' \in [Object -> Descriptor \cup {-1}] /\ weak_refs' \in [Object -> Seq(Slot)]
  BY <1>1 DEF Create, AssetTypes
<1> QED  BY <1>2, <1>3 DEF Create, AssetTypes

(* Types, and the stack, are kept by what clients do to references.        *)
LEMMA ReferenceTypes ==
    ASSUME AssetsAssumption, AssetInv, NEW o \in Object, Unref(o) \/ Ref(o)
    PROVE  AssetTypes' /\ StackInv'
PROOF
<1>1. owned[o] \in 0..MaxOwned /\ MaxOwned \in Nat /\ refs[o] \in Nat
  BY DEF AssetInv, AssetTypes, AssetsAssumption
<1>2. CASE Unref(o)
  <2>1. owned[o] > 0 /\ Alive(o) /\ kind[o] # "free" /\ refs[o] > 0
    <3>1. owned[o] > 0
      BY <1>2 DEF Unref
    <3>2. Alive(o) /\ kind[o] # "free"
      BY <3>1, OwnedIsAlive DEF AssetInv
    <3> QED  BY <3>1, <3>2 DEF AssetInv, CountInv, RefsCountOwners
  <2>2. <<>> \in Seq(Destructor) /\ Distinct(<<>>) /\ DOMAIN <<>> = {} /\ o \notin Under(<<>>)
    BY DEF Distinct, Under
  <2>3. Release(o, <<>>) /\ kind' = kind
    BY <1>2 DEF Unref, memory
  <2>4. /\ refs' \in [Object -> Nat] /\ slot' \in [Slot -> Object \cup {NULL}]
        /\ unrefs' \in Seq(Destructor) /\ StackInv'
    BY <2>1, <2>2, <2>3, ReleaseKeepsStack DEF AssetInv
  <2>5. owned' \in [Object -> 0..MaxOwned]
    BY <1>1, <1>2, <2>1 DEF Unref, AssetInv, AssetTypes
  <2> QED  BY <1>2, <2>4, <2>5 DEF Unref, memory, AssetInv, AssetTypes, Destructor
<1>3. CASE Ref(o)
  <2>1. owned' \in [Object -> 0..MaxOwned]
    BY <1>1, <1>3 DEF Ref, AssetInv, AssetTypes
  <2>2. refs' \in [Object -> Nat]
    BY <1>1, <1>3 DEF Ref, AssetInv, AssetTypes
  <2>3. StackInv'
    BY <1>3 DEF Ref, memory, AssetInv, StackInv
  <2> QED  BY <1>3, <2>1, <2>2, <2>3 DEF Ref, memory, weak, AssetInv, AssetTypes
<1> QED  BY <1>2, <1>3

(* The same of what makes an object.                                       *)
LEMMA CreationTypes ==
    ASSUME AssetsAssumption, AssetInv, NEW o \in Object,
           \/ OpenMissing(o)
           \/ \E k \in {"file", "dir"} : Open(o, k)
           \/ \E d \in Object : MakePrefix(o, d)
           \/ \E a, b \in Object : MakeUnion(o, a, b)
    PROVE  AssetTypes' /\ StackInv'
PROOF
<1>1. Client /\ \E k \in {"file"} \cup Dirs, p \in Seq(Object) : Create(o, k, p)
  <2>1. <<>> \in Seq(Object)
    OBVIOUS
  <2>2. \A d \in Object : <<d>> \in Seq(Object)
    OBVIOUS
  <2>3. \A a, b \in Object : <<a, b>> \in Seq(Object)
    OBVIOUS
  <2>4. CASE OpenMissing(o)
    BY <2>1, <2>4 DEF OpenMissing
  <2>5. CASE \E k \in {"file", "dir"} : Open(o, k)
    BY <2>1, <2>5 DEF Open, Obtain, Dirs
  <2>6. CASE \E d \in Object : MakePrefix(o, d)
    BY <2>2, <2>6 DEF MakePrefix, Dirs
  <2>7. CASE \E a, b \in Object : MakeUnion(o, a, b)
    BY <2>3, <2>7 DEF MakeUnion, Dirs
  <2> QED  BY <2>4, <2>5, <2>6, <2>7
<1>2. /\ kind' \in [Object -> {"free", "file"} \cup Dirs]
      /\ parts' \in [Object -> Seq(Object)]
      /\ fd' \in [Object -> Descriptor \cup {-1}] /\ mapped' \subseteq Object
      /\ weak_refs' \in [Object -> Seq(Slot)] /\ slot' \in [Slot -> Object \cup {NULL}]
      /\ table' \in [Descriptor -> Object \cup {NULL, Stdin}]
  BY <1>1, CreateTypes DEF AssetInv
<1>3. 1 \in 0..MaxOwned
  BY DEF AssetsAssumption
<1>4. unrefs = <<>>
  BY <1>1 DEF Client
<1>5. unrefs' \in Seq(Destructor) /\ StackInv'
  <2>1. CASE OpenMissing(o)
    <3>1. unrefs' = <<[object |-> o, next |-> 1]>> /\ kind'[o] # "free"
      BY <2>1 DEF OpenMissing, Create, AssetInv, AssetTypes
    <3>2. [object |-> o, next |-> 1] \in Destructor
      BY DEF Destructor
    <3>3. unrefs' \in Seq(Destructor) /\ DOMAIN unrefs' = {1}
          /\ unrefs'[1].object = o /\ unrefs'[1].next = 1
      BY <3>1, <3>2
    <3> QED  BY <3>1, <3>3 DEF StackInv
  <2>2. CASE unrefs' = unrefs
    <3>1. unrefs' = <<>> /\ DOMAIN unrefs' = {} /\ unrefs' \in Seq(Destructor)
      BY <2>2, <1>4
    <3> QED  BY <3>1 DEF StackInv
  <2> QED  BY <2>1, <2>2 DEF Open, Obtain, MakePrefix, MakeUnion
<1>6. refs' \in [Object -> Nat] /\ owned' \in [Object -> 0..MaxOwned]
  <2>1. refs \in [Object -> Nat] /\ owned \in [Object -> 0..MaxOwned]
    BY DEF AssetInv, AssetTypes
  <2>2. CASE OpenMissing(o)
    BY <2>1, <2>2 DEF OpenMissing
  <2>3. CASE \E k \in {"file", "dir"} : Open(o, k)
    BY <2>1, <2>3, <1>3 DEF Open, Obtain
  <2>4. CASE \E d \in Object : MakePrefix(o, d)
    BY <2>1, <2>4, <1>3 DEF MakePrefix
  <2>5. CASE \E a, b \in Object : MakeUnion(o, a, b)
    <3>1. PICK a, b \in Object : MakeUnion(o, a, b)
      BY <2>5
    <3>2. \A x \in Object : refs[x] \in Nat
      BY <2>1
    <3>3. refs' \in [Object -> Nat]
      BY <3>1, <3>2 DEF MakeUnion
    <3> QED  BY <2>1, <3>1, <3>3, <1>3 DEF MakeUnion
  <2> QED  BY <2>2, <2>3, <2>4, <2>5
<1> QED  BY <1>2, <1>5, <1>6 DEF AssetTypes, Destructor
(* il_weakunref() takes one pointer out of the list and no other.          *)
LEMMA UnlistedTakesOut ==
    ASSUME NEW l \in Seq(Slot), NEW s
    PROVE  /\ Unlisted(l, s) \in Seq(Slot)
           /\ IsInjective(l) =>
                 IsInjective(Unlisted(l, s)) /\ ToSet(Unlisted(l, s)) = ToSet(l) \ {s}
PROOF
<1> DEFINE n == Len(l)
           Places == {k \in 1..n : l[k] = s}
           i == SelectInSeq(l, LAMBDA x : x = s)
<1>1. n \in Nat /\ DOMAIN l = 1..n
  BY LenProperties
<1>2. i = IF Places # {} THEN Min(Places) ELSE 0
  BY DEF SelectInSeq
<1>3. Unlisted(l, s) = IF i = 0 THEN l ELSE Front([l EXCEPT ![i] = Last(l)])
  BY DEF Unlisted
<1> HIDE DEF i
<1>4. CASE Places = {}
  <2>1. Unlisted(l, s) = l /\ s \notin ToSet(l)
    BY <1>1, <1>2, <1>3, <1>4 DEF ToSet
  <2> QED  BY <2>1
<1>5. CASE Places # {}
  <2>1. i \in 1..n /\ l[i] = s
    <3>1. Places \in SUBSET Nat
      BY <1>1
    <3> QED  BY <3>1, <1>2, <1>5, MinIsLeast
  <2>2. l[n] \in Slot
    BY <1>1, <2>1, ElementOfSeq
  <2>3. Len([l EXCEPT ![i] = l[n]]) = n
    BY <2>1, <2>2, ExceptSeq
  <2>4. Unlisted(l, s) = SubSeq([l EXCEPT ![i] = l[n]], 1, n - 1)
    BY <1>1, <1>3, <2>1, <2>3 DEF Front, Last
  <2>5. i \in DOMAIN l
    BY <1>1, <2>1
  <2>6. SubSeq([l EXCEPT ![i] = l[n]], 1, n - 1) \in Seq(Slot)
    BY <2>5, SwapByIndex
  <2>7. ASSUME IsInjective(l)
        PROVE  LET t == SubSeq([l EXCEPT ![i] = l[n]], 1, n - 1)
               IN  IsInjective(t) /\ ToSet(t) = ToSet(l) \ {l[i]}
    BY <2>5, <2>7, SwapOfInjective
  <2> QED  BY <2>1, <2>4, <2>6, <2>7
<1> QED  BY <1>4, <1>5

(* Types, and the stack, are kept by the client's other operations.        *)
LEMMA ClientTypes ==
    ASSUME AssetsAssumption, AssetInv, NEW o \in Object,
           \/ Contents(o)
           \/ \E d \in Object : ExtendUnion(o, d)
           \/ \E s \in Slot : WeakRef(o, s) \/ WeakUnref(o, s)
    PROVE  AssetTypes' /\ StackInv'
PROOF
<1>1. kind' = kind /\ unrefs' = unrefs /\ owned' = owned
  BY DEF Contents, ExtendUnion, WeakRef, WeakUnref, memory
<1>2. StackInv'
  BY <1>1 DEF AssetInv, StackInv
<1>3. CASE Contents(o)
  <2> DEFINE closed == {d \in Descriptor : table[d] = NULL}
  <2>1. closed # {} => Min(closed) \in Descriptor
    <3>1. closed \in SUBSET Nat /\ closed \subseteq Descriptor
      BY DEF AssetsAssumption
    <3> HIDE DEF closed
    <3> QED  BY <3>1, MinIsLeast
  <2>2. \/ closed # {} /\ fd' = [fd EXCEPT ![o] = Min(closed)]
           /\ table' = [table EXCEPT ![Min(closed)] = o] /\ mapped' = mapped \cup {o}
        \/ fd' = [fd EXCEPT ![o] = -1] /\ table' = table /\ mapped' = mapped
    BY <1>3 DEF Contents
  <2> HIDE DEF closed
  <2>3. /\ fd' \in [Object -> Descriptor \cup {-1}] /\ mapped' \subseteq Object
        /\ table' \in [Descriptor -> Object \cup {NULL, Stdin}]
    <3>1. /\ fd \in [Object -> Descriptor \cup {-1}] /\ mapped \subseteq Object
          /\ table \in [Descriptor -> Object \cup {NULL, Stdin}]
      BY DEF AssetInv, AssetTypes
    <3>2. PICK least : least = Min(closed)
      OBVIOUS
    <3>3. CASE fd' = [fd EXCEPT ![o] = -1] /\ table' = table /\ mapped' = mapped
      BY <3>1, <3>3
    <3>4. CASE least \in Descriptor /\ fd' = [fd EXCEPT ![o] = least]
               /\ table' = [table EXCEPT ![least] = o] /\ mapped' = mapped \cup {o}
      BY <3>1, <3>4
    <3> QED  BY <2>1, <2>2, <3>2, <3>3, <3>4
  <2> QED  BY <2>3, <1>2, <1>3 DEF Contents, weak, AssetInv, AssetTypes
<1>4. CASE \E d \in Object : ExtendUnion(o, d)
  <2>1. PICK d \in Object : ExtendUnion(o, d)
    BY <1>4
  <2>2. parts[o] \in Seq(Object) /\ refs[d] \in Nat
    BY DEF AssetInv, AssetTypes
  <2>3. Append(parts[o], d) \in Seq(Object)
    BY <2>2, SetOfAppend
  <2>4. parts' \in [Object -> Seq(Object)] /\ refs' \in [Object -> Nat]
    BY <2>1, <2>2, <2>3 DEF ExtendUnion, AssetInv, AssetTypes
  <2> QED  BY <2>1, <2>4, <1>2 DEF ExtendUnion, weak, AssetInv, AssetTypes
<1>5. CASE \E s \in Slot : WeakRef(o, s)
  <2>1. PICK s \in Slot : WeakRef(o, s)
    BY <1>5
  <2>2. weak_refs[o] \in Seq(Slot)
    BY DEF AssetInv, AssetTypes
  <2>3. Append(weak_refs[o], s) \in Seq(Slot)
    BY <2>2, SetOfAppend
  <2>4. weak_refs' \in [Object -> Seq(Slot)] /\ slot' \in [Slot -> Object \cup {NULL}]
    BY <2>1, <2>3 DEF WeakRef, AssetInv, AssetTypes
  <2> QED  BY <2>1, <2>4, <1>2 DEF WeakRef, memory, AssetInv, AssetTypes
<1>6. CASE \E s \in Slot : WeakUnref(o, s)
  <2>1. PICK s \in Slot : WeakUnref(o, s)
    BY <1>6
  <2>2. weak_refs[o] \in Seq(Slot)
    BY DEF AssetInv, AssetTypes
  <2>3. Unlisted(weak_refs[o], s) \in Seq(Slot)
    BY <2>2, UnlistedTakesOut
  <2>4. weak_refs' \in [Object -> Seq(Slot)] /\ slot' \in [Slot -> Object \cup {NULL}]
    BY <2>1, <2>3 DEF WeakUnref, AssetInv, AssetTypes
  <2> QED  BY <2>1, <2>4, <1>2 DEF WeakUnref, memory, AssetInv, AssetTypes
<1> QED  BY <1>3, <1>4, <1>5, <1>6

(* A destructor that gives up a part: its own frame, and what it releases. *)
LEMMA DestroyPartStack ==
    ASSUME AssetInv, DestroyPart
    PROVE  LET p == Head(unrefs).object
               n == Head(unrefs).next
               y == parts[p][n]
               stack == <<[Head(unrefs) EXCEPT !.next = @ + 1]>> \o Tail(unrefs)
           IN  /\ Release(y, stack) /\ kind' = kind /\ refs[y] > 0
               /\ stack \in Seq(Destructor) /\ Distinct(stack) /\ y \notin Under(stack)
               /\ Under(stack) = Under(unrefs)
               /\ \A k \in DOMAIN stack : stack[k].next >= 1 /\ kind[stack[k].object] # "free"
PROOF
<1> DEFINE p == Head(unrefs).object
           n == Head(unrefs).next
           y == parts[p][n]
           stack == <<[Head(unrefs) EXCEPT !.next = @ + 1]>> \o Tail(unrefs)
<1>1. unrefs # <<>> /\ unrefs \in Seq(Destructor) /\ Distinct(unrefs)
  BY DEF DestroyPart, AssetInv, AssetTypes, Destructor, StackInv, Distinct
<1>2. /\ stack \in Seq(Destructor) /\ Distinct(stack) /\ Under(stack) = Under(unrefs)
      /\ \A k \in DOMAIN stack : /\ k \in DOMAIN unrefs
                                 /\ stack[k].object = unrefs[k].object
                                 /\ stack[k].next >= unrefs[k].next
  BY <1>1, DestructorGoesOn
<1>3. y \in Object /\ Alive(y) /\ kind[y] # "free" /\ y \notin Under(unrefs)
  BY PartIsAlive DEF AssetInv
<1>4. Release(y, stack) /\ kind' = kind
  BY DEF DestroyPart, memory
<1> HIDE DEF y, stack
<1>5. refs[y] > 0
  BY <1>3 DEF AssetInv, CountInv, RefsCountOwners
<1>6. ASSUME NEW k \in DOMAIN stack
      PROVE  stack[k].next >= 1 /\ kind[stack[k].object] # "free"
  <2>1. /\ unrefs[k].next >= 1 /\ kind[unrefs[k].object] # "free"
        /\ stack[k].object = unrefs[k].object /\ stack[k].next >= unrefs[k].next
    BY <1>2 DEF AssetInv, StackInv
  <2>2. stack[k] \in Destructor /\ unrefs[k] \in Destructor
    BY <1>1, <1>2, ElementOfSeq
  <2>3. stack[k].next \in Nat /\ unrefs[k].next \in Nat
    BY <2>2 DEF Destructor
  <2> QED  BY <2>1, <2>3
<1> QED  BY <1>2, <1>3, <1>4, <1>5, <1>6 DEF y, stack

(* Types, and the stack, are kept by destructors.                          *)
LEMMA DestroyTypes ==
    ASSUME AssetsAssumption, AssetInv, DestroyPart \/ DestroyEnd
    PROVE  AssetTypes' /\ StackInv'
PROOF
<1>1. CASE DestroyPart
  <2> DEFINE y == parts[Head(unrefs).object][Head(unrefs).next]
             stack == <<[Head(unrefs) EXCEPT !.next = @ + 1]>> \o Tail(unrefs)
  <2>1. /\ Release(y, stack) /\ kind' = kind /\ refs[y] > 0
        /\ stack \in Seq(Destructor) /\ Distinct(stack) /\ y \notin Under(stack)
        /\ \A k \in DOMAIN stack : stack[k].next >= 1 /\ kind[stack[k].object] # "free"
    BY <1>1, DestroyPartStack
  <2>2. y \in Object /\ kind[y] # "free"
    BY <1>1, PartIsAlive DEF AssetInv
  <2> HIDE DEF y, stack
  <2>3. /\ refs' \in [Object -> Nat] /\ slot' \in [Slot -> Object \cup {NULL}]
        /\ unrefs' \in Seq(Destructor) /\ StackInv'
    BY <2>1, <2>2, ReleaseKeepsStack DEF AssetInv
  <2> QED  BY <1>1, <2>3 DEF DestroyPart, memory, AssetInv, AssetTypes, Destructor
<1>2. CASE DestroyEnd
  <2> DEFINE p == Head(unrefs).object
  <2>1. unrefs # <<>> /\ unrefs \in Seq(Destructor) /\ Distinct(unrefs)
    BY <1>2 DEF DestroyEnd, AssetInv, AssetTypes, Destructor, StackInv, Distinct
  <2>2. /\ Tail(unrefs) \in Seq(Destructor) /\ Distinct(Tail(unrefs))
        /\ Under(Tail(unrefs)) = Under(unrefs) \ {p}
        /\ \A k \in DOMAIN Tail(unrefs) : /\ k + 1 \in DOMAIN unrefs
                                          /\ Tail(unrefs)[k] = unrefs[k + 1]
    BY <2>1, DestructorEnds
  <2>3. unrefs' = Tail(unrefs) /\ kind' = [kind EXCEPT ![p] = "free"]
    BY <1>2 DEF DestroyEnd
  <2> HIDE DEF p
  <2>4. kind' \in [Object -> {"free", "file"} \cup Dirs]
    BY <2>3 DEF AssetInv, AssetTypes
  <2>5. table' \in [Descriptor -> Object \cup {NULL, Stdin}] /\ mapped' \subseteq Object
    BY <1>2 DEF DestroyEnd, AssetInv, AssetTypes
  <2>6. StackInv'
    <3>1. ASSUME NEW k \in DOMAIN Tail(unrefs)
          PROVE  Tail(unrefs)[k].next >= 1 /\ kind'[Tail(unrefs)[k].object] # "free"
      <4>1. Tail(unrefs)[k] \in Destructor /\ Tail(unrefs)[k].object \in Under(Tail(unrefs))
        BY <2>2, ElementOfSeq DEF Under
      <4>2. Tail(unrefs)[k].object \in Object /\ Tail(unrefs)[k].object # p
        BY <4>1, <2>2 DEF Destructor
      <4>3. Tail(unrefs)[k].next >= 1 /\ kind[Tail(unrefs)[k].object] # "free"
        BY <2>2 DEF AssetInv, StackInv
      <4> QED  BY <4>2, <4>3, <2>3 DEF AssetInv, AssetTypes
    <3> QED  BY <3>1, <2>2, <2>3 DEF StackInv, Distinct
  <2> QED  BY <1>2, <2>2, <2>3, <2>4, <2>5, <2>6 DEF DestroyEnd, weak, AssetInv, AssetTypes, Destructor
<1> QED  BY <1>1, <1>2
-----------------------------------------------------------------------------
(***************************************************************************)
(* Counts                                                                  *)
(***************************************************************************)

(* CountInv, of one object.                                                *)
CountOf(x) ==
    /\ IsFiniteSet(Holders(x))
    /\ IF Alive(x)
       THEN refs[x] = owned[x] + Cardinality(Holders(x)) /\ refs[x] > 0
       ELSE owned[x] = 0 /\ Holders(x) = {}

(* CountInv says it of each.                                               *)
LEMMA CountByObject ==
    /\ CountInv <=> \A x \in Object : CountOf(x)
    /\ CountInv' <=> \A x \in Object : CountOf(x)'
PROOF
<1> QED  BY DEF CountInv, RefsCountOwners, CountOf

(* What CountOf' asks for, and what CountOf gives.                         *)
LEMMA CountNext ==
    ASSUME NEW x
    PROVE  CountOf(x)' <=>
               /\ IsFiniteSet(Holders(x)')
               /\ IF kind'[x] # "free" /\ x \notin Under(unrefs')
                  THEN refs'[x] = owned'[x] + Cardinality(Holders(x)') /\ refs'[x] > 0
                  ELSE owned'[x] = 0 /\ Holders(x)' = {}
PROOF
<1>1. Alive(x)' <=> kind'[x] # "free" /\ x \notin Under(unrefs')
  BY DEF Alive, Under
<1> QED  BY <1>1 DEF CountOf

(* In numbers: the references clients hold and the others.                 *)
LEMMA CountNow ==
    ASSUME AssetTypes, CountInv, NEW x \in Object
    PROVE  /\ IsFiniteSet(Holders(x)) /\ Cardinality(Holders(x)) \in Nat
           /\ refs[x] \in Nat /\ owned[x] \in Nat
           /\ Cardinality(Holders(x)) = 0 <=> Holders(x) = {}
           /\ Alive(x) => refs[x] = owned[x] + Cardinality(Holders(x)) /\ refs[x] > 0
           /\ ~ Alive(x) => owned[x] = 0 /\ Holders(x) = {}
PROOF
<1>1. IsFiniteSet(Holders(x))
  BY DEF CountInv
<1>2. Cardinality(Holders(x)) \in Nat /\ (Cardinality(Holders(x)) = 0 <=> Holders(x) = {})
  BY <1>1, FS_CardinalityType, FS_EmptySet
<1>3. refs[x] \in Nat /\ owned[x] \in 0..MaxOwned
  BY DEF AssetTypes
<1>4. owned[x] \in Nat
  BY <1>3
<1> QED  BY <1>1, <1>2, <1>3, <1>4 DEF CountInv, RefsCountOwners

(* A count and what it counts, when neither changes.                       *)
LEMMA CountStays ==
    ASSUME AssetTypes, CountInv, NEW x \in Object,
           Holders(x)' = Holders(x), refs'[x] = refs[x], owned'[x] = owned[x],
           Alive(x) <=> kind'[x] # "free" /\ x \notin Under(unrefs')
    PROVE  CountOf(x)'
PROOF
<1> QED  BY CountNow, CountNext

(* The references to x after a step, by who holds them.                    *)
LEMMA HoldersNext ==
    ASSUME NEW x
    PROVE  /\ \A h \in Holders(x)' : \E o \in Object : \E i \in Held(o, x)' : h = <<o, i>>
           /\ \A o \in Object : \A i : <<o, i>> \in Holders(x)' <=> i \in Held(o, x)'
PROOF
<1> QED  BY DEF Holders

(* No holder changes.                                                      *)
LEMMA HoldersStay ==
    ASSUME NEW x, \A o \in Object : Held(o, x)' = Held(o, x)
    PROVE  Holders(x)' = Holders(x)
PROOF
<1>1. ASSUME NEW h \in Holders(x)
      PROVE  h \in Holders(x)'
  BY HoldersByHolder, HoldersNext
<1>2. ASSUME NEW h \in Holders(x)'
      PROVE  h \in Holders(x)
  BY HoldersByHolder, HoldersNext
<1> QED  BY <1>1, <1>2

(* One holder gains parts.                                                 *)
LEMMA HoldersGrow ==
    ASSUME NEW x, NEW p \in Object, NEW N,
           Held(p, x)' = Held(p, x) \cup N,
           \A o \in Object \ {p} : Held(o, x)' = Held(o, x)
    PROVE  Holders(x)' = Holders(x) \cup {<<p, n>> : n \in N}
PROOF
<1>1. ASSUME NEW h \in Holders(x)'
      PROVE  h \in Holders(x) \cup {<<p, n>> : n \in N}
  <2>1. PICK o \in Object : \E i \in Held(o, x)' : h = <<o, i>>
    BY HoldersNext
  <2>2. PICK i \in Held(o, x)' : h = <<o, i>>
    BY <2>1
  <2>3. (o = p /\ i \in N) \/ i \in Held(o, x)
    BY <2>2
  <2> QED  BY <2>2, <2>3, HoldersByHolder
<1>2. ASSUME NEW h \in Holders(x)
      PROVE  h \in Holders(x)'
  <2>1. PICK o \in Object : \E i \in Held(o, x) : h = <<o, i>>
    BY HoldersByHolder
  <2>2. PICK i \in Held(o, x) : h = <<o, i>>
    BY <2>1
  <2>3. i \in Held(o, x)'
    BY <2>2
  <2> QED  BY <2>2, <2>3, HoldersNext
<1>3. \A n \in N : <<p, n>> \in Holders(x)'
  BY HoldersNext
<1> QED  BY <1>1, <1>2, <1>3

(* A reference more, or two, is counted.                                   *)
LEMMA HoldersGain ==
    ASSUME NEW x, NEW p \in Object, NEW n, n \notin Held(p, x),
           Held(p, x)' = Held(p, x) \cup {n},
           \A o \in Object \ {p} : Held(o, x)' = Held(o, x),
           IsFiniteSet(Holders(x))
    PROVE  IsFiniteSet(Holders(x)') /\ Cardinality(Holders(x)') = Cardinality(Holders(x)) + 1
PROOF
<1>1. <<p, n>> \notin Holders(x)
  BY HoldersByHolder
<1>2. Holders(x)' = Holders(x) \cup {<<p, i>> : i \in {n}}
  BY HoldersGrow
<1>3. Holders(x)' = Holders(x) \cup {<<p, n>>}
  BY <1>2
<1> QED  BY <1>1, <1>3, FS_AddElement

(* Both parts of a new union.                                              *)
LEMMA HoldersGainBoth ==
    ASSUME NEW x, NEW p \in Object, Held(p, x) = {}, Held(p, x)' = {1, 2},
           \A o \in Object \ {p} : Held(o, x)' = Held(o, x),
           IsFiniteSet(Holders(x))
    PROVE  IsFiniteSet(Holders(x)') /\ Cardinality(Holders(x)') = Cardinality(Holders(x)) + 1 + 1
PROOF
<1>1. <<p, 1>> \notin Holders(x) /\ <<p, 2>> \notin Holders(x) /\ <<p, 1>> # <<p, 2>>
  BY HoldersByHolder
<1>2. Held(p, x)' = Held(p, x) \cup {1, 2}
  OBVIOUS
<1>3. Holders(x)' = Holders(x) \cup {<<p, i>> : i \in {1, 2}}
  BY <1>2, HoldersGrow
<1> DEFINE one == Holders(x) \cup {<<p, 1>>}
<1>4. Holders(x)' = one \cup {<<p, 2>>} /\ <<p, 2>> \notin one
  BY <1>1, <1>3
<1>5. IsFiniteSet(one) /\ Cardinality(one) = Cardinality(Holders(x)) + 1
  BY <1>1, FS_AddElement
<1> HIDE DEF one
<1>6. /\ IsFiniteSet(one \cup {<<p, 2>>})
      /\ Cardinality(one \cup {<<p, 2>>}) = Cardinality(one) + 1
  BY <1>4, <1>5, FS_AddElement
<1> QED  BY <1>4, <1>5, <1>6

(* One holder gives up a part.                                             *)
LEMMA HoldersLose ==
    ASSUME NEW x, NEW p \in Object, NEW n \in Held(p, x),
           Held(p, x)' = Held(p, x) \ {n},
           \A o \in Object \ {p} : Held(o, x)' = Held(o, x),
           IsFiniteSet(Holders(x))
    PROVE  IsFiniteSet(Holders(x)') /\ Cardinality(Holders(x)') = Cardinality(Holders(x)) - 1
PROOF
<1>1. <<p, n>> \in Holders(x)
  BY HoldersByHolder
<1>2. ASSUME NEW h \in Holders(x)'
      PROVE  h \in Holders(x) \ {<<p, n>>}
  <2>1. PICK o \in Object : \E i \in Held(o, x)' : h = <<o, i>>
    BY HoldersNext
  <2>2. PICK i \in Held(o, x)' : h = <<o, i>>
    BY <2>1
  <2>3. i \in Held(o, x) /\ ~ (o = p /\ i = n)
    BY <2>2
  <2> QED  BY <2>2, <2>3, HoldersByHolder
<1>3. ASSUME NEW h \in Holders(x) \ {<<p, n>>}
      PROVE  h \in Holders(x)'
  <2>1. PICK o \in Object : \E i \in Held(o, x) : h = <<o, i>>
    BY HoldersByHolder
  <2>2. PICK i \in Held(o, x) : h = <<o, i>>
    BY <2>1
  <2>3. i \in Held(o, x)'
    BY <2>2
  <2> QED  BY <2>2, <2>3, HoldersNext
<1>4. Holders(x)' = Holders(x) \ {<<p, n>>}
  BY <1>2, <1>3
<1> QED  BY <1>1, <1>4, FS_RemoveElement

(* The indices of parts are not 0, and nobody holds a part of what is not  *)
(* allocated.                                                              *)
LEMMA HeldMeans ==
    ASSUME AssetTypes, NEW o \in Object, NEW x
    PROVE  /\ Held(o, x) \subseteq Nat \ {0} /\ Held(o, x) \subseteq DOMAIN parts[o]
           /\ kind[o] = "free" => Held(o, x) = {}
PROOF
<1>1. parts[o] \in Seq(Object)
  BY DEF AssetTypes
<1>2. DOMAIN parts[o] = 1..Len(parts[o]) /\ Len(parts[o]) \in Nat
  BY <1>1, LenProperties
<1> QED  BY <1>2 DEF Held

(* While kinds and parts stay, and so does what is left of o, so do the    *)
(* references o holds.                                                     *)
LEMMA HeldStays ==
    ASSUME AssetTypes, NEW o \in Object, NEW x,
           kind'[o] = kind[o], parts'[o] = parts[o],
           \A i \in Nat \ {0} : Left(unrefs', o, i) <=> Left(unrefs, o, i)
    PROVE  Held(o, x)' = Held(o, x)
PROOF
<1>1. parts[o] \in Seq(Object)
  BY DEF AssetTypes
<1>2. DOMAIN parts[o] \subseteq Nat \ {0}
  BY <1>1, LenProperties
<1>3. Held(o, x)' = {i \in DOMAIN parts[o] : kind[o] # "free" /\ parts[o][i] = x /\ Left(unrefs', o, i)}
  <2>1. Held(o, x)' = {i \in DOMAIN parts'[o] : kind'[o] # "free" /\ parts'[o][i] = x /\ Left(unrefs', o, i)}
    BY DEF Held, Left
  <2> QED  BY <2>1
<1> QED  BY <1>2, <1>3 DEF Held
(* il_ref() and il_unref() of a client move the count of one object, and   *)
(* nobody else's references.                                               *)
LEMMA ReferenceCounts ==
    ASSUME AssetInv, NEW o \in Object, Unref(o) \/ Ref(o)
    PROVE  CountInv'
PROOF
<1> USE DEF AssetInv
<1>1. Client /\ kind' = kind /\ parts' = parts
  BY DEF Unref, Ref, memory
<1>2. /\ Under(unrefs) = {} /\ \A x : Alive(x) <=> kind[x] # "free"
      /\ \A q, i : Left(unrefs, q, i)
  BY <1>1, ClientMeans
<1>3. owned[o] > 0 /\ Alive(o) /\ kind[o] # "free"
  <2>1. owned[o] \in 0..MaxOwned
    BY DEF AssetTypes
  <2>2. owned[o] > 0
    BY <2>1 DEF Unref, Ref
  <2> QED  BY <2>2, OwnedIsAlive
<1>4. /\ Under(unrefs') = IF Unref(o) /\ refs[o] <= 1 THEN {o} ELSE {}
      /\ \A q : \A i \in Nat \ {0} : Left(unrefs', q, i)
  <2>1. CASE Unref(o)
    <3>1. <<>> \in Seq(Destructor) /\ Distinct(<<>>) /\ DOMAIN <<>> = {} /\ Under(<<>>) = {}
      BY DEF Distinct, Under
    <3>2. \A q, i : Left(<<>>, q, i)
      BY DEF Left
    <3>3. Release(o, <<>>)
      BY <2>1 DEF Unref
    <3>4. /\ Under(unrefs') = IF refs[o] <= 1 THEN Under(<<>>) \cup {o} ELSE Under(<<>>)
          /\ SameLeft(unrefs', <<>>)
      BY <1>3, <3>1, <3>3, ReleaseMeans
    <3> QED  BY <2>1, <3>1, <3>2, <3>4 DEF SameLeft
  <2>2. CASE ~ Unref(o)
    <3>1. unrefs' = unrefs
      BY <2>2 DEF Ref
    <3> QED  BY <2>2, <3>1, <1>2
  <2> QED  BY <2>1, <2>2
<1>5. \A x : Holders(x)' = Holders(x)
  <2> SUFFICES ASSUME NEW x
               PROVE  Holders(x)' = Holders(x)
    OBVIOUS
  <2>1. \A q \in Object : Held(q, x)' = Held(q, x)
    BY <1>1, <1>2, <1>4, HeldStays
  <2> QED  BY <2>1, HoldersStay
<1>6. ASSUME NEW x \in Object, x # o
      PROVE  CountOf(x)'
  <2>1. refs'[x] = refs[x] /\ owned'[x] = owned[x]
    BY <1>6 DEF Unref, Ref, Release, AssetTypes
  <2> QED  BY <2>1, <1>1, <1>2, <1>4, <1>5, <1>6, CountStays
<1>7. CountOf(o)'
  <2>1. /\ IsFiniteSet(Holders(o)) /\ Cardinality(Holders(o)) \in Nat
        /\ refs[o] \in Nat /\ owned[o] \in Nat
        /\ Cardinality(Holders(o)) = 0 <=> Holders(o) = {}
        /\ refs[o] = owned[o] + Cardinality(Holders(o))
    BY <1>3, CountNow
  <2>2. CASE Unref(o)
    <3>1. refs'[o] = refs[o] - 1 /\ owned'[o] = owned[o] - 1
      BY <2>2 DEF Unref, Release, AssetTypes
    <3>2. CASE refs[o] <= 1
      <4>1. owned'[o] = 0 /\ Holders(o) = {}
        BY <2>1, <3>1, <3>2, <1>3
      <4> QED  BY <2>1, <2>2, <3>2, <4>1, <1>4, <1>5, CountNext
    <3>3. CASE ~ (refs[o] <= 1)
      <4>1. refs'[o] = owned'[o] + Cardinality(Holders(o)) /\ refs'[o] > 0
        BY <2>1, <3>1, <3>3
      <4> QED  BY <2>1, <3>3, <4>1, <1>1, <1>3, <1>4, <1>5, CountNext
    <3> QED  BY <3>2, <3>3
  <2>3. CASE ~ Unref(o)
    <3>1. refs'[o] = refs[o] + 1 /\ owned'[o] = owned[o] + 1
      BY <2>3 DEF Ref, AssetTypes
    <3>2. refs'[o] = owned'[o] + Cardinality(Holders(o)) /\ refs'[o] > 0
      BY <2>1, <3>1
    <3> QED  BY <2>1, <2>3, <3>2, <1>1, <1>3, <1>4, <1>5, CountNext
  <2> QED  BY <2>2, <2>3
<1> QED  BY <1>6, <1>7, CountByObject

(* An object that is made holds its parts, and no other changes.           *)
LEMMA CreatedHolds ==
    ASSUME AssetInv, NEW o \in Object, NEW k \in {"file"} \cup Dirs, NEW p \in Seq(Object),
           Client, Create(o, k, p),
           \A q : \A i \in Nat \ {0} : Left(unrefs', q, i)
    PROVE  /\ \A x : \A q \in Object \ {o} : Held(q, x)' = Held(q, x)
           /\ \A x : Held(o, x) = {} /\ Held(o, x)' = {i \in DOMAIN p : p[i] = x}
           /\ \A x : Alive(x) <=> kind[x] # "free"
           /\ ~ Alive(o) /\ kind'[o] # "free"
           /\ \A q \in Object \ {o} : kind'[q] = kind[q]
PROOF
<1> USE DEF AssetInv
<1>1. /\ Under(unrefs) = {} /\ \A x : Alive(x) <=> kind[x] # "free"
      /\ \A q, i : Left(unrefs, q, i)
  BY ClientMeans
<1>2. /\ kind[o] = "free" /\ kind'[o] = k /\ k # "free" /\ parts'[o] = p
      /\ \A q \in Object \ {o} : kind'[q] = kind[q] /\ parts'[q] = parts[q]
  BY DEF Create, AssetTypes, Dirs
<1>3. ASSUME NEW x, NEW q \in Object \ {o}
      PROVE  Held(q, x)' = Held(q, x)
  BY <1>1, <1>2, HeldStays
<1>4. ASSUME NEW x
      PROVE  Held(o, x) = {} /\ Held(o, x)' = {i \in DOMAIN p : p[i] = x}
  <2>1. Held(o, x) = {}
    BY <1>2, HeldMeans
  <2>2. Held(o, x)' = {i \in DOMAIN parts'[o] :
                           kind'[o] # "free" /\ parts'[o][i] = x /\ Left(unrefs', o, i)}
    BY DEF Held, Left
  <2>3. DOMAIN p \subseteq Nat \ {0}
    BY LenProperties
  <2>4. \A i \in DOMAIN p : Left(unrefs', o, i)
    BY <2>3
  <2> QED  BY <2>1, <2>2, <2>4, <1>2
<1> QED  BY <1>1, <1>2, <1>3, <1>4
(* A new object counts for one, its parts for one more each; one that is   *)
(* not found goes as it came.                                              *)
LEMMA CreationCounts ==
    ASSUME AssetInv, NEW o \in Object,
           \/ OpenMissing(o)
           \/ \E k \in {"file", "dir"} : Open(o, k)
           \/ \E d \in Object : MakePrefix(o, d)
           \/ \E a, b \in Object : MakeUnion(o, a, b)
    PROVE  CountInv'
PROOF
<1> USE DEF AssetInv
<1>1. Client
  BY DEF OpenMissing, Open, MakePrefix, MakeUnion
<1>2. CASE OpenMissing(o)
  <2>1. Create(o, "file", <<>>) /\ <<>> \in Seq(Object) /\ "file" \in {"file"} \cup Dirs
    BY <1>2 DEF OpenMissing
  <2>2. Under(unrefs') = {o} /\ \A q : \A i \in Nat \ {0} : Left(unrefs', q, i)
    <3>1. <<>> \in Seq(Destructor) /\ Distinct(<<>>) /\ Under(<<>>) = {}
      BY DEF Distinct, Under
    <3>2. \A q, i : Left(<<>>, q, i)
      BY DEF Left
    <3>3. unrefs' = <<[object |-> o, next |-> 1]>> \o <<>>
      <4>1. unrefs' = <<[object |-> o, next |-> 1]>>
        BY <1>2 DEF OpenMissing
      <4>2. [object |-> o, next |-> 1] \in Destructor
        BY DEF Destructor
      <4> QED  BY <4>1, <4>2
    <3>4. Under(unrefs') = Under(<<>>) \cup {o} /\ SameLeft(unrefs', <<>>)
      BY <3>1, <3>3, DestructorBegins
    <3> QED  BY <3>1, <3>2, <3>4 DEF SameLeft
  <2>3. /\ \A x : \A q \in Object \ {o} : Held(q, x)' = Held(q, x)
        /\ \A x : Held(o, x) = {} /\ Held(o, x)' = {i \in DOMAIN <<>> : <<>>[i] = x}
        /\ \A x : Alive(x) <=> kind[x] # "free"
        /\ ~ Alive(o) /\ kind'[o] # "free"
        /\ \A q \in Object \ {o} : kind'[q] = kind[q]
    BY <2>1, <2>2, <1>1, CreatedHolds
  <2>4. ASSUME NEW x
        PROVE  Holders(x)' = Holders(x)
    <3>1. Held(o, x)' = Held(o, x)
      BY <2>3
    <3>2. \A q \in Object : Held(q, x)' = Held(q, x)
      BY <2>3, <3>1
    <3> QED  BY <3>2, HoldersStay
  <2>5. owned' = owned /\ \A x \in Object \ {o} : refs'[x] = refs[x]
    BY <1>2 DEF OpenMissing, AssetTypes
  <2>6. ASSUME NEW x \in Object, x # o
        PROVE  CountOf(x)'
    BY <2>2, <2>3, <2>4, <2>5, <2>6, CountStays
  <2>7. CountOf(o)'
    <3>1. IsFiniteSet(Holders(o)) /\ owned[o] = 0 /\ Holders(o) = {}
      BY <2>3, CountNow
    <3> QED  BY <3>1, <2>2, <2>4, <2>5, CountNext
  <2> QED  BY <2>6, <2>7, CountByObject
<1>3. ASSUME unrefs' = unrefs
      PROVE  Under(unrefs') = {} /\ \A q : \A i \in Nat \ {0} : Left(unrefs', q, i)
  BY <1>1, <1>3, ClientMeans
<1>4. CASE \E k \in {"file", "dir"} : Open(o, k)
  <2>1. PICK k \in {"file", "dir"} : Open(o, k)
    BY <1>4
  <2>2. Create(o, k, <<>>) /\ <<>> \in Seq(Object) /\ k \in {"file"} \cup Dirs /\ unrefs' = unrefs
    BY <2>1 DEF Open, Obtain, Dirs
  <2>3. /\ \A x : \A q \in Object \ {o} : Held(q, x)' = Held(q, x)
        /\ \A x : Held(o, x) = {} /\ Held(o, x)' = {i \in DOMAIN <<>> : <<>>[i] = x}
        /\ \A x : Alive(x) <=> kind[x] # "free"
        /\ ~ Alive(o) /\ kind'[o] # "free"
        /\ \A q \in Object \ {o} : kind'[q] = kind[q]
    BY <2>2, <1>1, <1>3, CreatedHolds
  <2>4. ASSUME NEW x
        PROVE  Holders(x)' = Holders(x)
    <3>1. Held(o, x)' = Held(o, x)
      BY <2>3
    <3>2. \A q \in Object : Held(q, x)' = Held(q, x)
      BY <2>3, <3>1
    <3> QED  BY <3>2, HoldersStay
  <2>5. /\ refs'[o] = 1 /\ owned'[o] = 1
        /\ \A x \in Object \ {o} : refs'[x] = refs[x] /\ owned'[x] = owned[x]
    BY <2>1 DEF Open, Obtain, AssetTypes
  <2>6. ASSUME NEW x \in Object, x # o
        PROVE  CountOf(x)'
    BY <2>2, <2>3, <2>4, <2>5, <2>6, <1>3, CountStays
  <2>7. CountOf(o)'
    <3>1. IsFiniteSet(Holders(o)) /\ Holders(o) = {} /\ Cardinality(Holders(o)) = 0
      BY <2>3, CountNow
    <3>2. kind'[o] # "free" /\ o \notin Under(unrefs')
      BY <2>2, <2>3, <1>3
    <3>3. refs'[o] = owned'[o] + Cardinality(Holders(o)') /\ refs'[o] > 0
      BY <3>1, <2>4, <2>5
    <3> QED  BY <3>1, <3>2, <3>3, <2>4, CountNext
  <2> QED  BY <2>6, <2>7, CountByObject
<1>5. CASE \E d \in Object : MakePrefix(o, d)
  <2>1. PICK d \in Object : MakePrefix(o, d)
    BY <1>5
  <2>2. Create(o, "prefix", <<d>>) /\ <<d>> \in Seq(Object) /\ "prefix" \in {"file"} \cup Dirs
    BY <2>1 DEF MakePrefix, Dirs
  <2>3. unrefs' = unrefs /\ kind[d] # "free"
    BY <2>1 DEF MakePrefix, Dirs
  <2>4. /\ \A x : \A q \in Object \ {o} : Held(q, x)' = Held(q, x)
        /\ \A x : Held(o, x) = {} /\ Held(o, x)' = {i \in DOMAIN <<d>> : <<d>>[i] = x}
        /\ \A x : Alive(x) <=> kind[x] # "free"
        /\ ~ Alive(o) /\ kind'[o] # "free"
        /\ \A q \in Object \ {o} : kind'[q] = kind[q]
    BY <2>2, <2>3, <1>1, <1>3, CreatedHolds
  <2>5. d # o /\ Alive(d)
    BY <2>3, <2>4
  <2>6. /\ refs'[o] = 1 /\ owned'[o] = 1 /\ refs'[d] = refs[d] + 1
        /\ \A x \in Object \ {o} : owned'[x] = owned[x]
        /\ \A x \in Object \ {o, d} : refs'[x] = refs[x]
    BY <2>1, <2>5 DEF MakePrefix, AssetTypes
  <2>7. \A x : Held(o, x)' = IF x = d THEN {1} ELSE {}
    <3>1. DOMAIN <<d>> = {1} /\ <<d>>[1] = d
      OBVIOUS
    <3> QED  BY <3>1, <2>4
  <2>8. ASSUME NEW x, x # d
        PROVE  Holders(x)' = Holders(x)
    <3>1. \A q \in Object : Held(q, x)' = Held(q, x)
      BY <2>4, <2>7, <2>8
    <3> QED  BY <3>1, HoldersStay
  <2>9. ASSUME NEW x \in Object, x # o, x # d
        PROVE  CountOf(x)'
    <3>1. Alive(x) <=> kind'[x] # "free" /\ x \notin Under(unrefs')
      BY <2>3, <2>4, <2>9, <1>3
    <3> QED  BY <2>6, <2>8, <2>9, <3>1, CountStays
  <2>10. CountOf(o)'
    <3>1. IsFiniteSet(Holders(o)) /\ Holders(o) = {} /\ Cardinality(Holders(o)) = 0
      BY <2>4, CountNow
    <3>2. kind'[o] # "free" /\ o \notin Under(unrefs')
      BY <2>3, <2>4, <1>3
    <3>3. refs'[o] = owned'[o] + Cardinality(Holders(o)') /\ refs'[o] > 0
      BY <3>1, <2>5, <2>6, <2>8
    <3> QED  BY <3>1, <3>2, <3>3, <2>5, <2>8, CountNext
  <2>11. CountOf(d)'
    <3>1. /\ IsFiniteSet(Holders(d)) /\ Cardinality(Holders(d)) \in Nat
          /\ refs[d] \in Nat /\ owned[d] \in Nat
          /\ refs[d] = owned[d] + Cardinality(Holders(d)) /\ refs[d] > 0
      BY <2>5, CountNow
    <3>2. /\ 1 \notin Held(o, d) /\ Held(o, d)' = Held(o, d) \cup {1}
          /\ \A q \in Object \ {o} : Held(q, d)' = Held(q, d)
      BY <2>4, <2>7
    <3>3. IsFiniteSet(Holders(d)') /\ Cardinality(Holders(d)') = Cardinality(Holders(d)) + 1
      BY <3>1, <3>2, HoldersGain
    <3>4. kind'[d] # "free" /\ d \notin Under(unrefs')
      BY <2>3, <2>4, <2>5, <1>3
    <3>5. refs'[d] = owned'[d] + Cardinality(Holders(d)') /\ refs'[d] > 0
      BY <3>1, <3>3, <2>5, <2>6
    <3> QED  BY <3>3, <3>4, <3>5, CountNext
  <2> QED  BY <2>9, <2>10, <2>11, CountByObject
<1>6. CASE \E a, b \in Object : MakeUnion(o, a, b)
  <2>1. PICK a, b \in Object : MakeUnion(o, a, b)
    BY <1>6
  <2>2. Create(o, "union", <<a, b>>) /\ <<a, b>> \in Seq(Object) /\ "union" \in {"file"} \cup Dirs
    BY <2>1 DEF MakeUnion, Dirs
  <2>3. unrefs' = unrefs /\ kind[a] # "free" /\ kind[b] # "free"
    BY <2>1 DEF MakeUnion
  <2>4. /\ \A x : \A q \in Object \ {o} : Held(q, x)' = Held(q, x)
        /\ \A x : Held(o, x) = {} /\ Held(o, x)' = {i \in DOMAIN <<a, b>> : <<a, b>>[i] = x}
        /\ \A x : Alive(x) <=> kind[x] # "free"
        /\ ~ Alive(o) /\ kind'[o] # "free"
        /\ \A q \in Object \ {o} : kind'[q] = kind[q]
    BY <2>2, <2>3, <1>1, <1>3, CreatedHolds
  <2>5. a # o /\ b # o /\ Alive(a) /\ Alive(b)
    BY <2>3, <2>4
  <2>6. /\ refs'[o] = 1 /\ owned'[o] = 1
        /\ \A x \in Object \ {o} :
               /\ owned'[x] = owned[x]
               /\ refs'[x] = refs[x] + (IF x = a THEN 1 ELSE 0) + (IF x = b THEN 1 ELSE 0)
    BY <2>1 DEF MakeUnion, AssetTypes
  <2>7. ASSUME NEW x
        PROVE  Held(o, x)' = (IF x = a THEN {1} ELSE {}) \cup (IF x = b THEN {2} ELSE {})
    <3>1. DOMAIN <<a, b>> = {1, 2} /\ <<a, b>>[1] = a /\ <<a, b>>[2] = b
      OBVIOUS
    <3>2. Held(o, x)' = {i \in {1, 2} : <<a, b>>[i] = x}
      BY <3>1, <2>4
    <3>3. \A i \in {1, 2} : <<a, b>>[i] = x <=> (i = 1 /\ x = a) \/ (i = 2 /\ x = b)
      BY <3>1
    <3> QED  BY <3>2, <3>3
  <2>8. ASSUME NEW x, x # a, x # b
        PROVE  Holders(x)' = Holders(x)
    <3>1. Held(o, x)' = {} /\ Held(o, x) = {}
      BY <2>4, <2>7, <2>8
    <3>2. \A q \in Object : Held(q, x)' = Held(q, x)
      BY <2>4, <3>1
    <3> QED  BY <3>2, HoldersStay
  <2>9. ASSUME NEW x \in Object, x # o, x # a, x # b
        PROVE  CountOf(x)'
    <3>1. Alive(x) <=> kind'[x] # "free" /\ x \notin Under(unrefs')
      BY <2>3, <2>4, <2>9, <1>3
    <3>2. refs'[x] = refs[x] /\ owned'[x] = owned[x]
      <4>1. refs[x] \in Nat
        BY DEF AssetTypes
      <4> QED  BY <4>1, <2>6, <2>9
    <3> QED  BY <2>8, <2>9, <3>1, <3>2, CountStays
  <2>10. CountOf(o)'
    <3>1. IsFiniteSet(Holders(o)) /\ Holders(o) = {} /\ Cardinality(Holders(o)) = 0
      BY <2>4, CountNow
    <3>2. kind'[o] # "free" /\ o \notin Under(unrefs')
      BY <2>3, <2>4, <1>3
    <3>3. refs'[o] = owned'[o] + Cardinality(Holders(o)') /\ refs'[o] > 0
      BY <3>1, <2>5, <2>6, <2>8
    <3> QED  BY <3>1, <3>2, <3>3, <2>5, <2>8, CountNext
  <2>11. ASSUME NEW x \in {a, b}
         PROVE  CountOf(x)'
    <3>1. x \in Object /\ x # o /\ Alive(x)
      BY <2>5
    <3>2. /\ IsFiniteSet(Holders(x)) /\ Cardinality(Holders(x)) \in Nat
          /\ refs[x] \in Nat /\ owned[x] \in Nat
          /\ refs[x] = owned[x] + Cardinality(Holders(x)) /\ refs[x] > 0
      BY <3>1, CountNow
    <3>3. kind'[x] # "free" /\ x \notin Under(unrefs')
      BY <2>3, <2>4, <2>5, <1>3
    <3>4. CASE x = a /\ x = b
      <4>1. Held(o, x) = {} /\ Held(o, x)' = {1, 2}
        <5>1. Held(o, x)' = {1} \cup {2}
          BY <3>4, <2>7
        <5> QED  BY <5>1, <2>4
      <4>2. /\ IsFiniteSet(Holders(x)')
            /\ Cardinality(Holders(x)') = Cardinality(Holders(x)) + 1 + 1
        BY <3>2, <4>1, <2>4, HoldersGainBoth
      <4>3. refs'[x] = refs[x] + 1 + 1 /\ owned'[x] = owned[x]
        BY <3>1, <3>4, <2>6
      <4>4. refs'[x] = owned'[x] + Cardinality(Holders(x)') /\ refs'[x] > 0
        BY <3>2, <4>2, <4>3
      <4> QED  BY <3>3, <4>2, <4>4, CountNext
    <3>5. CASE ~ (x = a /\ x = b)
      <4> DEFINE n == IF x = a THEN 1 ELSE 2
      <4>1. /\ n \notin Held(o, x) /\ Held(o, x)' = Held(o, x) \cup {n}
            /\ \A q \in Object \ {o} : Held(q, x)' = Held(q, x)
        <5>1. Held(o, x) = {} /\ Held(o, x)' = {n}
          <6>1. CASE x = a
            BY <3>5, <6>1, <2>4, <2>7
          <6>2. CASE x # a
            BY <3>5, <6>2, <2>4, <2>7
          <6> QED  BY <6>1, <6>2
        <5> HIDE DEF n
        <5> QED  BY <5>1, <2>4
      <4> HIDE DEF n
      <4>2. IsFiniteSet(Holders(x)') /\ Cardinality(Holders(x)') = Cardinality(Holders(x)) + 1
        BY <3>2, <4>1, HoldersGain
      <4>3. refs'[x] = refs[x] + 1 /\ owned'[x] = owned[x]
        BY <3>1, <3>2, <3>5, <2>6
      <4>4. refs'[x] = owned'[x] + Cardinality(Holders(x)') /\ refs'[x] > 0
        BY <3>2, <4>2, <4>3
      <4> QED  BY <3>3, <4>2, <4>4, CountNext
    <3> QED  BY <3>4, <3>5
  <2> QED  BY <2>9, <2>10, <2>11, CountByObject
<1> QED  BY <1>2, <1>4, <1>5, <1>6
(* A union that grows holds one more; contents and weak references are not *)
(* counted.                                                                *)
LEMMA ClientCounts ==
    ASSUME AssetInv, NEW o \in Object,
           \/ Contents(o)
           \/ \E d \in Object : ExtendUnion(o, d)
           \/ \E s \in Slot : WeakRef(o, s) \/ WeakUnref(o, s)
    PROVE  CountInv'
PROOF
<1> USE DEF AssetInv
<1>1. Client /\ kind' = kind /\ unrefs' = unrefs /\ owned' = owned
  BY DEF Contents, ExtendUnion, WeakRef, WeakUnref, memory
<1>2. /\ Under(unrefs) = {} /\ \A x : Alive(x) <=> kind[x] # "free"
      /\ \A q, i : Left(unrefs, q, i)
  BY <1>1, ClientMeans
<1>3. CASE Contents(o) \/ \E s \in Slot : WeakRef(o, s) \/ WeakUnref(o, s)
  <2>1. parts' = parts /\ refs' = refs
    BY <1>3 DEF Contents, WeakRef, WeakUnref, memory
  <2>2. ASSUME NEW x \in Object
        PROVE  CountOf(x)'
    <3>1. \A q \in Object : Held(q, x)' = Held(q, x)
      BY <2>1, <1>1, <1>2, HeldStays
    <3>2. Holders(x)' = Holders(x)
      BY <3>1, HoldersStay
    <3> QED  BY <2>1, <3>2, <1>1, <1>2, CountStays
  <2> QED  BY <2>2, CountByObject
<1>4. CASE \E d \in Object : ExtendUnion(o, d)
  <2>1. PICK d \in Object : ExtendUnion(o, d)
    BY <1>4
  <2> DEFINE n == Len(parts[o])
  <2>2. /\ parts[o] \in Seq(Object) /\ n \in Nat /\ DOMAIN parts[o] = 1..n
        /\ DOMAIN Append(parts[o], d) = 1..(n + 1)
        /\ \A i \in 1..n : Append(parts[o], d)[i] = parts[o][i]
        /\ Append(parts[o], d)[n + 1] = d
    <3>1. parts[o] \in Seq(Object)
      BY DEF AssetTypes
    <3> QED  BY <3>1, LenProperties, SetOfAppend
  <2>3. /\ parts'[o] = Append(parts[o], d) /\ kind[o] # "free" /\ kind[d] # "free"
        /\ \A q \in Object \ {o} : parts'[q] = parts[q]
        /\ refs'[d] = refs[d] + 1 /\ \A x \in Object \ {d} : refs'[x] = refs[x]
    BY <2>1 DEF ExtendUnion, AssetTypes, Dirs
  <2> HIDE DEF n
  <2>4. ASSUME NEW x
        PROVE  /\ \A q \in Object \ {o} : Held(q, x)' = Held(q, x)
               /\ Held(o, x)' = IF x = d THEN Held(o, x) \cup {n + 1} ELSE Held(o, x)
               /\ n + 1 \notin Held(o, x)
    <3>1. \A q \in Object \ {o} : Held(q, x)' = Held(q, x)
      BY <2>3, <1>1, <1>2, HeldStays
    <3>2. Held(o, x)' = {i \in DOMAIN parts'[o] :
                             kind'[o] # "free" /\ parts'[o][i] = x /\ Left(unrefs', o, i)}
      BY DEF Held, Left
    <3>3. Held(o, x)' = {i \in 1..(n + 1) : Append(parts[o], d)[i] = x}
      BY <3>2, <2>2, <2>3, <1>1, <1>2
    <3>4. Held(o, x) = {i \in 1..n : parts[o][i] = x}
      BY <2>2, <2>3, <1>2 DEF Held
    <3>5. 1..(n + 1) = (1..n) \cup {n + 1} /\ n + 1 \notin 1..n
      BY <2>2
    <3>6. CASE x = d
      BY <3>1, <3>3, <3>4, <3>5, <3>6, <2>2
    <3>7. CASE x # d
      BY <3>1, <3>3, <3>4, <3>5, <3>7, <2>2
    <3> QED  BY <3>6, <3>7
  <2>5. ASSUME NEW x \in Object, x # d
        PROVE  CountOf(x)'
    <3>1. \A q \in Object : Held(q, x)' = Held(q, x)
      BY <2>4, <2>5
    <3>2. Holders(x)' = Holders(x)
      BY <3>1, HoldersStay
    <3> QED  BY <2>3, <2>5, <3>2, <1>1, <1>2, CountStays
  <2>6. CountOf(d)'
    <3>1. /\ IsFiniteSet(Holders(d)) /\ Cardinality(Holders(d)) \in Nat
          /\ refs[d] \in Nat /\ owned[d] \in Nat
          /\ refs[d] = owned[d] + Cardinality(Holders(d)) /\ refs[d] > 0
      BY <2>3, <1>2, CountNow
    <3>2. /\ n + 1 \notin Held(o, d) /\ Held(o, d)' = Held(o, d) \cup {n + 1}
          /\ \A q \in Object \ {o} : Held(q, d)' = Held(q, d)
      BY <2>4
    <3>3. IsFiniteSet(Holders(d)') /\ Cardinality(Holders(d)') = Cardinality(Holders(d)) + 1
      BY <3>1, <3>2, HoldersGain
    <3>4. refs'[d] = owned'[d] + Cardinality(Holders(d)') /\ refs'[d] > 0
      BY <3>1, <3>3, <2>3, <1>1
    <3> QED  BY <3>3, <3>4, <2>3, <1>1, <1>2, CountNext
  <2> QED  BY <2>5, <2>6, CountByObject
<1> QED  BY <1>3, <1>4

(* A destructor takes its parts off the counts one by one, and when it has *)
(* given up all it holds none.                                             *)
LEMMA DestroyCounts ==
    ASSUME AssetInv, DestroyPart \/ DestroyEnd
    PROVE  CountInv'
PROOF
<1> USE DEF AssetInv
<1>0. PICK p, n : p = Head(unrefs).object /\ n = Head(unrefs).next
  OBVIOUS
<1>1. unrefs # <<>> /\ unrefs \in Seq(Destructor) /\ Distinct(unrefs)
  BY DEF DestroyPart, DestroyEnd, AssetTypes, Destructor, StackInv, Distinct
<1>2. Head(unrefs) = unrefs[1] /\ Head(unrefs) \in Destructor /\ 1 \in DOMAIN unrefs
  BY <1>1, TailByIndex
<1>3. p \in Object /\ n \in Nat /\ n >= 1 /\ kind[p] # "free" /\ p \in Under(unrefs)
  BY <1>0, <1>2 DEF Destructor, StackInv, Under
<1>4. parts[p] \in Seq(Object) /\ DOMAIN parts[p] = 1..Len(parts[p]) /\ Len(parts[p]) \in Nat
  <2>1. parts[p] \in Seq(Object)
    BY <1>3 DEF AssetTypes
  <2> QED  BY <2>1, LenProperties
<1>5. \A i \in Nat : Left(unrefs, p, i) <=> i >= n
  BY <1>0, <1>1, DestructorGoesOn
<1>6. owned' = owned /\ parts' = parts
  BY DEF DestroyPart, DestroyEnd, memory
<1>7. CASE DestroyPart
  <2>4. PICK y : y = parts[p][n]
    OBVIOUS
  <2> DEFINE stack == <<[Head(unrefs) EXCEPT !.next = @ + 1]>> \o Tail(unrefs)
  <2>1. /\ n \in DOMAIN parts[p] /\ n \in Held(p, y)
        /\ y \in Object /\ Alive(y) /\ kind[y] # "free" /\ y \notin Under(unrefs)
    BY <2>4, <1>0, <1>7, PartIsAlive
  <2>2. /\ Release(y, stack) /\ kind' = kind
        /\ stack \in Seq(Destructor) /\ Distinct(stack) /\ y \notin Under(stack)
        /\ Under(stack) = Under(unrefs)
        /\ \A k \in DOMAIN stack : stack[k].next >= 1 /\ kind[stack[k].object] # "free"
    BY <2>4, <1>0, <1>7, DestroyPartStack
  <2>3. /\ \A i \in Nat : Left(stack, p, i) <=> i > n
        /\ \A o \in Object \ {p}, i \in Nat : Left(stack, o, i) <=> Left(unrefs, o, i)
    BY <1>0, <1>1, DestructorGoesOn
  <2> HIDE DEF stack
  <2>5. /\ Under(unrefs') = IF refs[y] <= 1 THEN Under(unrefs) \cup {y} ELSE Under(unrefs)
        /\ SameLeft(unrefs', stack)
    BY <2>1, <2>2, ReleaseMeans
  <2>6. ASSUME NEW x
        PROVE  /\ \A o \in Object \ {p} : Held(o, x)' = Held(o, x)
               /\ Held(p, x)' = IF x = y THEN Held(p, x) \ {n} ELSE Held(p, x)
    <3>1. ASSUME NEW o \in Object \ {p}
          PROVE  Held(o, x)' = Held(o, x)
      <4>1. \A i \in Nat \ {0} : Left(unrefs', o, i) <=> Left(unrefs, o, i)
        BY <2>3, <2>5 DEF SameLeft
      <4> QED  BY <4>1, <2>2, <1>6, HeldStays
    <3>2. \A i \in Nat \ {0} : Left(unrefs', p, i) <=> i > n
      BY <2>3, <2>5 DEF SameLeft
    <3>3. DOMAIN parts[p] \subseteq Nat \ {0}
      BY <1>4
    <3>4. Held(p, x)' = {i \in DOMAIN parts'[p] :
                             kind'[p] # "free" /\ parts'[p][i] = x /\ Left(unrefs', p, i)}
      BY DEF Held, Left
    <3>5. Held(p, x)' = {i \in DOMAIN parts[p] : parts[p][i] = x /\ Left(unrefs', p, i)}
      BY <3>4, <2>2, <1>3, <1>6
    <3>6. Held(p, x)' = {i \in DOMAIN parts[p] : parts[p][i] = x /\ i > n}
      BY <3>2, <3>3, <3>5
    <3>7. Held(p, x) = {i \in DOMAIN parts[p] : parts[p][i] = x /\ i >= n}
      <4>1. Held(p, x) = {i \in DOMAIN parts[p] : parts[p][i] = x /\ Left(unrefs, p, i)}
        BY <1>3 DEF Held
      <4> QED  BY <4>1, <3>3, <1>5
    <3>8. \A i \in Nat : i > n <=> i >= n /\ i # n
      BY <1>3
    <3>9. CASE x = y
      BY <3>1, <3>3, <3>6, <3>7, <3>8, <3>9
    <3>10. CASE x # y
      BY <3>1, <3>3, <3>6, <3>7, <3>8, <3>10, <2>4
    <3> QED  BY <3>9, <3>10
  <2>7. refs'[y] = refs[y] - 1 /\ \A x \in Object \ {y} : refs'[x] = refs[x]
    BY <2>1, <2>2 DEF Release, AssetTypes
  <2>8. ASSUME NEW x \in Object, x # y
        PROVE  CountOf(x)'
    <3>1. \A q \in Object : Held(q, x)' = Held(q, x)
      BY <2>6, <2>8
    <3>2. Holders(x)' = Holders(x)
      BY <3>1, HoldersStay
    <3>3. Alive(x) <=> kind'[x] # "free" /\ x \notin Under(unrefs')
      BY <2>2, <2>5, <2>8, AliveMeans
    <3> QED  BY <2>7, <2>8, <3>2, <3>3, <1>6, CountStays
  <2>9. CountOf(y)'
    <3>1. /\ IsFiniteSet(Holders(y)) /\ Cardinality(Holders(y)) \in Nat
          /\ refs[y] \in Nat /\ owned[y] \in Nat
          /\ refs[y] = owned[y] + Cardinality(Holders(y)) /\ refs[y] > 0
      BY <2>1, CountNow
    <3>2. /\ Held(p, y)' = Held(p, y) \ {n}
          /\ \A o \in Object \ {p} : Held(o, y)' = Held(o, y)
      BY <2>6
    <3>3. IsFiniteSet(Holders(y)') /\ Cardinality(Holders(y)') = Cardinality(Holders(y)) - 1
      BY <3>1, <3>2, <2>1, <1>3, HoldersLose
    <3>4. Cardinality(Holders(y)') \in Nat /\ (Cardinality(Holders(y)') = 0 => Holders(y)' = {})
      BY <3>3, FS_CardinalityType, FS_EmptySet
    <3>5. CASE refs[y] <= 1
      <4>1. owned'[y] = 0 /\ Cardinality(Holders(y)') = 0
        BY <3>1, <3>3, <3>4, <3>5, <1>6
      <4> QED  BY <3>3, <3>4, <3>5, <4>1, <2>5, CountNext
    <3>6. CASE ~ (refs[y] <= 1)
      <4>1. refs'[y] = owned'[y] + Cardinality(Holders(y)') /\ refs'[y] > 0
        BY <3>1, <3>3, <3>6, <2>7, <1>6
      <4> QED  BY <3>3, <3>6, <4>1, <2>1, <2>2, <2>5, CountNext
    <3> QED  BY <3>5, <3>6
  <2> QED  BY <2>8, <2>9, CountByObject
<1>8. CASE DestroyEnd
  <2>1. /\ Under(Tail(unrefs)) = Under(unrefs) \ {p}
        /\ \A o \in Object \ {p}, i \in Nat : Left(Tail(unrefs), o, i) <=> Left(unrefs, o, i)
    BY <1>0, <1>1, DestructorEnds
  <2>2. unrefs' = Tail(unrefs) /\ kind' = [kind EXCEPT ![p] = "free"] /\ refs' = refs
        /\ n > Len(parts[p])
    BY <1>0, <1>8 DEF DestroyEnd
  <2>3. kind'[p] = "free" /\ \A o \in Object \ {p} : kind'[o] = kind[o]
    BY <2>2, <1>3 DEF AssetTypes
  <2>4. ASSUME NEW x \in Object
        PROVE  CountOf(x)'
    <3>1. \A o \in Object \ {p} : Held(o, x)' = Held(o, x)
      BY <2>1, <2>2, <2>3, <1>6, HeldStays
    <3>2. Held(p, x) = {}
      <4>1. \A i \in DOMAIN parts[p] : i \in Nat /\ ~ (i >= n)
        BY <2>2, <1>3, <1>4
      <4> QED  BY <4>1, <1>5 DEF Held
    <3>3. Held(p, x)' = {}
      BY <2>3 DEF Held
    <3>4. Holders(x)' = Holders(x)
      BY <3>1, <3>2, <3>3, HoldersStay
    <3>5. Alive(x) <=> kind'[x] # "free" /\ x \notin Under(unrefs')
      BY <2>1, <2>2, <2>3, <1>3, AliveMeans
    <3> QED  BY <3>4, <3>5, <2>2, <1>6, CountStays
  <2> QED  BY <2>4, CountByObject
<1> QED  BY <1>7, <1>8
-----------------------------------------------------------------------------
(***************************************************************************)
(* Weak references                                                         *)
(***************************************************************************)

(* WeakInv with the lists as sets, before and after a step.                *)
LEMMA WeakBySets ==
    /\ WeakInv <=>
           /\ \A s \in Slot : slot[s] # NULL => Alive(slot[s]) /\ s \in ToSet(weak_refs[slot[s]])
           /\ \A o \in Object : Alive(o) => /\ IsInjective(weak_refs[o])
                                            /\ \A s \in ToSet(weak_refs[o]) : slot[s] = o
    /\ WeakInv' <=>
           /\ \A s \in Slot : slot'[s] # NULL => /\ kind'[slot'[s]] # "free"
                                                 /\ slot'[s] \notin Under(unrefs')
                                                 /\ s \in ToSet(weak_refs'[slot'[s]])
           /\ \A o \in Object : kind'[o] # "free" /\ o \notin Under(unrefs') =>
                                    /\ IsInjective(weak_refs'[o])
                                    /\ \A s \in ToSet(weak_refs'[o]) : slot'[s] = o
PROOF
<1>1. \A x : Alive(x)' <=> kind'[x] # "free" /\ x \notin Under(unrefs')
  BY DEF Alive, Under
<1>2. WeakInv <=>
           /\ \A s \in Slot : slot[s] # NULL => Alive(slot[s]) /\ s \in ToSet(weak_refs[slot[s]])
           /\ \A o \in Object : Alive(o) => /\ IsInjective(weak_refs[o])
                                            /\ \A s \in ToSet(weak_refs[o]) : slot[s] = o
  BY DEF WeakInv, WeakRefsLive, ToSet
<1>3. WeakInv' <=>
           /\ \A s \in Slot : slot'[s] # NULL => /\ Alive(slot[s])'
                                                 /\ s \in ToSet(weak_refs'[slot'[s]])
           /\ \A o \in Object : Alive(o)' =>
                                    /\ IsInjective(weak_refs'[o])
                                    /\ \A s \in ToSet(weak_refs'[o]) : slot'[s] = o
  BY DEF WeakInv, WeakRefsLive, ToSet
<1>4. \A s : Alive(slot[s])' <=> kind'[slot'[s]] # "free" /\ slot'[s] \notin Under(unrefs')
  BY DEF Alive, Under
<1> QED  BY <1>1, <1>2, <1>3, <1>4

(* What is alive stays so with its list, and what comes to life has none.  *)
LEMMA WeakStays ==
    ASSUME AssetInv, slot' = slot,
           \A x \in Object : Alive(x) => /\ kind'[x] # "free" /\ x \notin Under(unrefs')
                                         /\ weak_refs'[x] = weak_refs[x],
           \A x \in Object : ~ Alive(x) => \/ kind'[x] = "free" \/ x \in Under(unrefs')
                                           \/ weak_refs'[x] = <<>>
    PROVE  WeakInv'
PROOF
<1>1. /\ \A s \in Slot : slot[s] # NULL => Alive(slot[s]) /\ s \in ToSet(weak_refs[slot[s]])
      /\ \A o \in Object : Alive(o) => /\ IsInjective(weak_refs[o])
                                       /\ \A s \in ToSet(weak_refs[o]) : slot[s] = o
  BY WeakBySets DEF AssetInv
<1>2. \A s \in Slot : slot[s] \in Object \cup {NULL}
  BY DEF AssetInv, AssetTypes
<1>3. \A s \in Slot : slot'[s] # NULL => /\ kind'[slot'[s]] # "free"
                                         /\ slot'[s] \notin Under(unrefs')
                                         /\ s \in ToSet(weak_refs'[slot'[s]])
  BY <1>1, <1>2
<1>4. IsInjective(<<>>) /\ ToSet(<<>>) = {}
  BY DEF IsInjective, ToSet
<1>5. ASSUME NEW o \in Object, kind'[o] # "free", o \notin Under(unrefs')
      PROVE  /\ IsInjective(weak_refs'[o])
             /\ \A s \in ToSet(weak_refs'[o]) : slot'[s] = o
  <2>1. CASE Alive(o)
    BY <2>1, <1>1
  <2>2. CASE ~ Alive(o)
    <3>1. weak_refs'[o] = <<>>
      BY <2>2, <1>5
    <3> QED  BY <3>1, <1>4
  <2> QED  BY <2>1, <2>2
<1> QED  BY <1>3, <1>5, WeakBySets

(* The last il_unref() clears the weak references to its object and no     *)
(* other.                                                                  *)
LEMMA ReleaseWeak ==
    ASSUME AssetInv, NEW y \in Object, Alive(y), NEW stack, Release(y, stack),
           kind' = kind, weak_refs' = weak_refs,
           Under(unrefs') = IF refs[y] <= 1 THEN Under(unrefs) \cup {y} ELSE Under(unrefs)
    PROVE  WeakInv'
PROOF
<1>1. /\ \A s \in Slot : slot[s] # NULL => Alive(slot[s]) /\ s \in ToSet(weak_refs[slot[s]])
      /\ \A o \in Object : Alive(o) => /\ IsInjective(weak_refs[o])
                                       /\ \A s \in ToSet(weak_refs[o]) : slot[s] = o
  BY WeakBySets DEF AssetInv
<1>2. \A s \in Slot : slot[s] \in Object \cup {NULL}
  BY DEF AssetInv, AssetTypes
<1>3. \A x : Alive(x) <=> kind[x] # "free" /\ x \notin Under(unrefs)
  BY AliveMeans
<1>4. CASE ~ (refs[y] <= 1)
  <2>1. slot' = slot /\ Under(unrefs') = Under(unrefs)
    BY <1>4 DEF Release
  <2> QED  BY <2>1, <1>3, WeakStays
<1>5. CASE refs[y] <= 1
  <2>1. /\ Under(unrefs') = Under(unrefs) \cup {y}
        /\ slot' = [s \in Slot |-> IF s \in ToSet(weak_refs[y]) THEN NULL ELSE slot[s]]
    BY <1>5 DEF Release
  <2>2. ASSUME NEW s \in Slot, slot'[s] # NULL
        PROVE  /\ kind'[slot'[s]] # "free" /\ slot'[s] \notin Under(unrefs')
               /\ s \in ToSet(weak_refs'[slot'[s]])
    <3>1. s \notin ToSet(weak_refs[y]) /\ slot'[s] = slot[s]
      BY <2>1, <2>2
    <3>2. slot[s] # y
      BY <3>1, <2>2, <1>1
    <3>3. Alive(slot[s]) /\ s \in ToSet(weak_refs[slot[s]])
      BY <3>1, <2>2, <1>1
    <3> QED  BY <3>1, <3>2, <3>3, <2>1, <1>3
  <2>3. ASSUME NEW o \in Object, kind'[o] # "free", o \notin Under(unrefs')
        PROVE  /\ IsInjective(weak_refs'[o])
               /\ \A s \in ToSet(weak_refs'[o]) : slot'[s] = o
    <3>1. Alive(o) /\ o # y
      BY <2>1, <2>3, <1>3
    <3>2. IsInjective(weak_refs[o]) /\ \A s \in ToSet(weak_refs[o]) : slot[s] = o
      BY <3>1, <1>1
    <3>3. \A s \in ToSet(weak_refs[y]) : slot[s] = y
      BY <1>1
    <3>4. ToSet(weak_refs[o]) \subseteq Slot
      <4>1. weak_refs[o] \in Seq(Slot)
        BY DEF AssetInv, AssetTypes
      <4> QED  BY <4>1, ElementOfSeq DEF ToSet
    <3>5. \A s \in ToSet(weak_refs[o]) : slot'[s] = o
      BY <3>1, <3>2, <3>3, <3>4, <2>1
    <3> QED  BY <3>2, <3>5
  <2> QED  BY <2>2, <2>3, WeakBySets
<1> QED  BY <1>4, <1>5

(* il_weakref() and il_weakunref(): a pointer is listed where it points.   *)
LEMMA ListedWeak ==
    ASSUME AssetsAssumption, AssetInv, NEW o \in Object, NEW s \in Slot,
           WeakRef(o, s) \/ WeakUnref(o, s)
    PROVE  WeakInv'
PROOF
<1>1. /\ \A t \in Slot : slot[t] # NULL => Alive(slot[t]) /\ t \in ToSet(weak_refs[slot[t]])
      /\ \A x \in Object : Alive(x) => /\ IsInjective(weak_refs[x])
                                       /\ \A t \in ToSet(weak_refs[x]) : slot[t] = x
  BY WeakBySets DEF AssetInv
<1>2. /\ \A t \in Slot : slot[t] \in Object \cup {NULL}
      /\ NULL \notin Object
  BY DEF AssetInv, AssetTypes, AssetsAssumption
<1>3. \A x : Alive(x) <=> kind'[x] # "free" /\ x \notin Under(unrefs')
  <2>1. kind' = kind /\ unrefs' = unrefs
    BY DEF WeakRef, WeakUnref, memory
  <2> QED  BY <2>1, AliveMeans
<1>4. \A x \in Object : weak_refs[x] \in Seq(Slot)
  BY DEF AssetInv, AssetTypes
<1>5. \A x \in Object : ToSet(weak_refs[x]) \subseteq Slot
  BY <1>4, ElementOfSeq DEF ToSet
<1>6. CASE WeakRef(o, s)
  <2>1. /\ Alive(o) /\ slot[s] = NULL
        /\ weak_refs'[o] = Append(weak_refs[o], s) /\ slot'[s] = o
        /\ \A x \in Object \ {o} : weak_refs'[x] = weak_refs[x]
        /\ \A t \in Slot \ {s} : slot'[t] = slot[t]
    BY <1>6 DEF WeakRef, AssetInv, AssetTypes
  <2>2. s \notin ToSet(weak_refs[o])
    BY <2>1, <1>1, <1>2
  <2>3. /\ IsInjective(Append(weak_refs[o], s))
        /\ ToSet(Append(weak_refs[o], s)) = ToSet(weak_refs[o]) \cup {s}
    BY <2>1, <2>2, <1>1, <1>4, AppendToInjective
  <2>4. ASSUME NEW t \in Slot, slot'[t] # NULL
        PROVE  /\ kind'[slot'[t]] # "free" /\ slot'[t] \notin Under(unrefs')
               /\ t \in ToSet(weak_refs'[slot'[t]])
    <3>1. CASE t = s
      BY <3>1, <2>1, <2>3, <1>3
    <3>2. CASE t # s
      <4>1. slot'[t] = slot[t] /\ Alive(slot[t]) /\ t \in ToSet(weak_refs[slot[t]])
            /\ slot[t] \in Object
        BY <3>2, <2>1, <2>4, <1>1, <1>2
      <4>2. t \in ToSet(weak_refs'[slot[t]])
        BY <4>1, <2>1, <2>3
      <4> QED  BY <4>1, <4>2, <1>3
    <3> QED  BY <3>1, <3>2
  <2>5. ASSUME NEW x \in Object, Alive(x)
        PROVE  /\ IsInjective(weak_refs'[x])
               /\ \A t \in ToSet(weak_refs'[x]) : slot'[t] = x
    <3>1. CASE x = o
      <4>1. \A t \in ToSet(weak_refs'[o]) : t = s \/ (t # s /\ t \in Slot /\ slot[t] = o)
        BY <2>1, <2>3, <1>1, <1>5
      <4> QED  BY <3>1, <4>1, <2>1, <2>3
    <3>2. CASE x # o
      <4>1. weak_refs'[x] = weak_refs[x]
        BY <3>2, <2>1
      <4>2. ASSUME NEW t \in ToSet(weak_refs[x])
            PROVE  slot'[t] = x
        <5>1. slot[t] = x /\ t # s /\ t \in Slot
          BY <2>1, <2>5, <1>1, <1>2, <1>5
        <5> QED  BY <5>1, <2>1
      <4> QED  BY <4>1, <4>2, <2>5, <1>1
    <3> QED  BY <3>1, <3>2
  <2> QED  BY <2>4, <2>5, <1>3, WeakBySets
<1>7. CASE WeakUnref(o, s)
  <2>1. /\ Alive(o) /\ slot[s] = o
        /\ weak_refs'[o] = Unlisted(weak_refs[o], s) /\ slot'[s] = NULL
        /\ \A x \in Object \ {o} : weak_refs'[x] = weak_refs[x]
        /\ \A t \in Slot \ {s} : slot'[t] = slot[t]
    BY <1>7 DEF WeakUnref, AssetInv, AssetTypes
  <2>2. /\ IsInjective(Unlisted(weak_refs[o], s))
        /\ ToSet(Unlisted(weak_refs[o], s)) = ToSet(weak_refs[o]) \ {s}
    BY <2>1, <1>1, <1>4, UnlistedTakesOut
  <2>3. ASSUME NEW t \in Slot, slot'[t] # NULL
        PROVE  /\ kind'[slot'[t]] # "free" /\ slot'[t] \notin Under(unrefs')
               /\ t \in ToSet(weak_refs'[slot'[t]])
    <3>1. /\ t # s /\ slot'[t] = slot[t] /\ Alive(slot[t]) /\ t \in ToSet(weak_refs[slot[t]])
          /\ slot[t] \in Object
      BY <2>1, <2>3, <1>1, <1>2
    <3>2. t \in ToSet(weak_refs'[slot[t]])
      BY <3>1, <2>1, <2>2
    <3> QED  BY <3>1, <3>2, <1>3
  <2>4. ASSUME NEW x \in Object, Alive(x)
        PROVE  /\ IsInjective(weak_refs'[x])
               /\ \A t \in ToSet(weak_refs'[x]) : slot'[t] = x
    <3>1. CASE x = o
      <4>1. \A t \in ToSet(weak_refs'[o]) : t # s /\ t \in Slot /\ slot[t] = o
        BY <2>1, <2>2, <1>1, <1>5
      <4> QED  BY <3>1, <4>1, <2>1, <2>2
    <3>2. CASE x # o
      <4>1. weak_refs'[x] = weak_refs[x]
        BY <3>2, <2>1
      <4>2. ASSUME NEW t \in ToSet(weak_refs[x])
            PROVE  slot'[t] = x
        <5>1. slot[t] = x /\ t # s /\ t \in Slot
          BY <3>2, <2>1, <2>4, <1>1, <1>5
        <5> QED  BY <5>1, <2>1
      <4> QED  BY <4>1, <4>2, <2>4, <1>1
    <3> QED  BY <3>1, <3>2
  <2> QED  BY <2>3, <2>4, <1>3, WeakBySets
<1> QED  BY <1>6, <1>7
(* Weak references through what clients do to references and objects.      *)
LEMMA ClientWeak ==
    ASSUME AssetsAssumption, AssetInv, NEW o \in Object,
           \/ Unref(o) \/ Ref(o) \/ OpenMissing(o) \/ Contents(o)
           \/ \E k \in {"file", "dir"} : Open(o, k)
           \/ \E d \in Object : MakePrefix(o, d) \/ ExtendUnion(o, d)
           \/ \E a, b \in Object : MakeUnion(o, a, b)
    PROVE  WeakInv'
PROOF
<1>1. Client
  BY DEF Unref, Ref, OpenMissing, Contents, Open, MakePrefix, ExtendUnion, MakeUnion
<1>2. Under(unrefs) = {} /\ \A x : Alive(x) <=> kind[x] # "free"
  BY <1>1, ClientMeans
<1>3. CASE Unref(o)
  <2>1. owned[o] > 0 /\ Release(o, <<>>) /\ kind' = kind /\ weak_refs' = weak_refs
    BY <1>3 DEF Unref, memory
  <2>2. Alive(o) /\ kind[o] # "free"
    BY <2>1, OwnedIsAlive DEF AssetInv
  <2>3. <<>> \in Seq(Destructor) /\ Distinct(<<>>) /\ DOMAIN <<>> = {} /\ Under(<<>>) = {}
    BY DEF Distinct, Under
  <2>4. Under(unrefs') = IF refs[o] <= 1 THEN Under(<<>>) \cup {o} ELSE Under(<<>>)
    BY <2>1, <2>2, <2>3, ReleaseMeans
  <2> QED  BY <2>1, <2>2, <2>3, <2>4, <1>2, ReleaseWeak
<1>4. CASE Ref(o) \/ Contents(o) \/ \E d \in Object : ExtendUnion(o, d)
  <2>1. kind' = kind /\ unrefs' = unrefs /\ weak_refs' = weak_refs /\ slot' = slot
    BY <1>4 DEF Ref, Contents, ExtendUnion, memory, weak
  <2> QED  BY <2>1, AliveMeans, WeakStays
<1>5. CASE \/ OpenMissing(o)
           \/ \E k \in {"file", "dir"} : Open(o, k)
           \/ \E d \in Object : MakePrefix(o, d)
           \/ \E a, b \in Object : MakeUnion(o, a, b)
  <2>1. \E k \in {"file"} \cup Dirs : \E p : Create(o, k, p)
    BY <1>5 DEF OpenMissing, Open, Obtain, MakePrefix, MakeUnion, Dirs
  <2>2. /\ kind[o] = "free" /\ weak_refs'[o] = <<>> /\ slot' = slot
        /\ \A x \in Object \ {o} : kind'[x] = kind[x] /\ weak_refs'[x] = weak_refs[x]
    BY <2>1 DEF Create, AssetInv, AssetTypes
  <2>3. Under(unrefs') \subseteq {o}
    <3>1. CASE OpenMissing(o)
      <4>1. unrefs' = <<[object |-> o, next |-> 1]>>
        BY <3>1 DEF OpenMissing
      <4>2. DOMAIN unrefs' = {1} /\ unrefs'[1].object = o
        BY <4>1
      <4> QED  BY <4>2 DEF Under
    <3>2. CASE ~ OpenMissing(o)
      <4>1. unrefs' = unrefs
        BY <3>2, <1>5 DEF Open, Obtain, MakePrefix, MakeUnion
      <4> QED  BY <4>1, <1>2
    <3> QED  BY <3>1, <3>2
  <2> QED  BY <2>2, <2>3, <1>2, WeakStays
<1> QED  BY <1>3, <1>4, <1>5

(* Weak references through the destructors.                                *)
LEMMA DestroyWeak ==
    ASSUME AssetInv, DestroyPart \/ DestroyEnd
    PROVE  WeakInv'
PROOF
<1>0. PICK p, n : p = Head(unrefs).object /\ n = Head(unrefs).next
  OBVIOUS
<1>1. weak_refs' = weak_refs
  BY DEF DestroyPart, DestroyEnd, weak
<1>2. CASE DestroyPart
  <2>1. PICK y : y = parts[p][n]
    OBVIOUS
  <2> DEFINE stack == <<[Head(unrefs) EXCEPT !.next = @ + 1]>> \o Tail(unrefs)
  <2>2. y \in Object /\ Alive(y) /\ kind[y] # "free" /\ y \notin Under(unrefs)
    BY <2>1, <1>0, <1>2, PartIsAlive DEF AssetInv
  <2>3. /\ Release(y, stack) /\ kind' = kind
        /\ stack \in Seq(Destructor) /\ Distinct(stack) /\ y \notin Under(stack)
        /\ Under(stack) = Under(unrefs)
        /\ \A k \in DOMAIN stack : stack[k].next >= 1 /\ kind[stack[k].object] # "free"
    BY <2>1, <1>0, <1>2, DestroyPartStack
  <2> HIDE DEF stack
  <2>4. Under(unrefs') = IF refs[y] <= 1 THEN Under(unrefs) \cup {y} ELSE Under(unrefs)
    BY <2>2, <2>3, ReleaseMeans
  <2> QED  BY <2>2, <2>3, <2>4, <1>1, ReleaseWeak
<1>3. CASE DestroyEnd
  <2>1. unrefs # <<>> /\ unrefs \in Seq(Destructor) /\ Distinct(unrefs)
    BY <1>3 DEF DestroyEnd, AssetInv, AssetTypes, Destructor, StackInv, Distinct
  <2>2. Under(Tail(unrefs)) = Under(unrefs) \ {p}
    BY <2>1, <1>0, DestructorEnds
  <2>3. unrefs' = Tail(unrefs) /\ kind' = [kind EXCEPT ![p] = "free"] /\ slot' = slot
    BY <1>0, <1>3 DEF DestroyEnd, weak
  <2>4. p \in Under(unrefs)
    <3>1. Head(unrefs) = unrefs[1] /\ 1 \in DOMAIN unrefs
      BY <2>1, TailByIndex
    <3> QED  BY <3>1, <1>0 DEF Under
  <2>5. kind'[p] = "free" \/ p \notin Object
    BY <2>3 DEF AssetInv, AssetTypes
  <2>6. \A x \in Object \ {p} : kind'[x] = kind[x]
    BY <2>3 DEF AssetInv, AssetTypes
  <2>7. \A x \in Object : Alive(x) <=> kind'[x] # "free" /\ x \notin Under(unrefs')
    BY <2>2, <2>3, <2>4, <2>5, <2>6, AliveMeans
  <2> QED  BY <2>3, <2>7, <1>1, WeakStays
<1> QED  BY <1>2, <1>3
-----------------------------------------------------------------------------
(***************************************************************************)
(* Descriptors                                                             *)
(***************************************************************************)

(* A new object has no descriptor, and stdiofile_contents() takes one that *)
(* is closed.                                                              *)
LEMMA ClientFiles ==
    ASSUME AssetsAssumption, AssetInv, NEW o \in Object,
           \/ OpenMissing(o) \/ Contents(o)
           \/ \E k \in {"file", "dir"} : Open(o, k)
           \/ \E d \in Object : MakePrefix(o, d)
           \/ \E a, b \in Object : MakeUnion(o, a, b)
    PROVE  FileInv'
PROOF
<1>1. /\ \A d \in Descriptor \ {0} :
             /\ table[d] # NULL => kind[table[d]] = "file" /\ fd[table[d]] = d
             /\ \A q \in Object : kind[q] = "file" /\ fd[q] = d => table[d] = q
             /\ table[d] \in Object \cup {NULL}
      /\ \A q \in Object : kind[q] = "file" /\ fd[q] \notin {0, -1} => q \in mapped
  BY DEF AssetInv, FileInv, DescriptorsOwned
<1>2. /\ NULL \notin Object /\ Descriptor \subseteq Nat
      /\ \A d \in Descriptor \ {0} : d \notin {0, -1}
  BY DEF AssetsAssumption
<1>3. CASE \/ OpenMissing(o)
           \/ \E k \in {"file", "dir"} : Open(o, k)
           \/ \E d \in Object : MakePrefix(o, d)
           \/ \E a, b \in Object : MakeUnion(o, a, b)
  <2>1. \E k \in {"file"} \cup Dirs : \E p : Create(o, k, p)
    BY <1>3 DEF OpenMissing, Open, Obtain, MakePrefix, MakeUnion, Dirs
  <2>2. /\ kind[o] = "free" /\ fd'[o] = 0 /\ mapped' = mapped /\ table' = table
        /\ \A q \in Object \ {o} : kind'[q] = kind[q] /\ fd'[q] = fd[q]
    BY <2>1 DEF Create, AssetInv, AssetTypes
  <2>3. ASSUME NEW d \in Descriptor \ {0}
        PROVE  /\ table'[d] # NULL => kind'[table'[d]] = "file" /\ fd'[table'[d]] = d
               /\ \A q \in Object : kind'[q] = "file" /\ fd'[q] = d => table'[d] = q
               /\ table'[d] \in Object \cup {NULL}
    BY <2>2, <1>1, <1>2
  <2>4. \A q \in Object : kind'[q] = "file" /\ fd'[q] \notin {0, -1} => q \in mapped'
    BY <2>2, <1>1
  <2> QED  BY <2>3, <2>4 DEF FileInv, DescriptorsOwned
<1>4. CASE Contents(o)
  <2> DEFINE closed == {d \in Descriptor : table[d] = NULL}
  <2>1. PICK least : least = Min(closed)
    OBVIOUS
  <2>2. closed # {} => least \in Descriptor /\ table[least] = NULL
    <3>1. closed \in SUBSET Nat /\ closed = {d \in Descriptor : table[d] = NULL}
      BY <1>2
    <3>2. closed # {} => least \in closed
      <4> HIDE DEF closed
      <4> QED  BY <2>1, <3>1, MinIsLeast
    <3> QED  BY <3>1, <3>2
  <2>3. kind' = kind /\ kind[o] = "file" /\ o \notin mapped
    BY <1>4 DEF Contents
  <2>4. \/ /\ closed # {} /\ fd' = [fd EXCEPT ![o] = least]
           /\ table' = [table EXCEPT ![least] = o] /\ mapped' = mapped \cup {o}
        \/ fd' = [fd EXCEPT ![o] = -1] /\ table' = table /\ mapped' = mapped
    BY <1>4, <2>1 DEF Contents
  <2> HIDE DEF closed
  <2>5. /\ fd \in [Object -> Descriptor \cup {-1}]
        /\ table \in [Descriptor -> Object \cup {NULL, Stdin}]
    BY DEF AssetInv, AssetTypes
  <2>6. fd[o] \in {0, -1}
    BY <2>3, <1>1
  <2>7. CASE /\ least \in Descriptor /\ table[least] = NULL
             /\ fd' = [fd EXCEPT ![o] = least]
             /\ table' = [table EXCEPT ![least] = o] /\ mapped' = mapped \cup {o}
    <3>1. /\ fd'[o] = least /\ \A q \in Object \ {o} : fd'[q] = fd[q]
          /\ table'[least] = o /\ \A d \in Descriptor \ {least} : table'[d] = table[d]
      BY <2>5, <2>7
    <3>2. ASSUME NEW d \in Descriptor \ {0}
          PROVE  /\ table'[d] # NULL => kind'[table'[d]] = "file" /\ fd'[table'[d]] = d
                 /\ \A q \in Object : kind'[q] = "file" /\ fd'[q] = d => table'[d] = q
                 /\ table'[d] \in Object \cup {NULL}
      <4>1. CASE d = least
        <5>1. table'[d] = o /\ kind'[o] = "file" /\ fd'[o] = d
          BY <4>1, <3>1, <2>3
        <5>2. \A q \in Object \ {o} : ~ (kind[q] = "file" /\ fd[q] = d)
          BY <4>1, <2>7, <1>1, <1>2
        <5> QED  BY <5>1, <5>2, <3>1, <2>3
      <4>2. CASE d # least
        <5>1. table'[d] = table[d]
          BY <4>2, <3>1
        <5>2. table[d] # o
          BY <2>6, <1>1, <1>2
        <5> QED  BY <4>2, <5>1, <5>2, <3>1, <2>3, <1>1
      <4> QED  BY <4>1, <4>2
    <3>3. \A q \in Object : kind'[q] = "file" /\ fd'[q] \notin {0, -1} => q \in mapped'
      BY <3>1, <2>3, <2>7, <1>1
    <3> QED  BY <3>2, <3>3 DEF FileInv, DescriptorsOwned
  <2>8. CASE fd' = [fd EXCEPT ![o] = -1] /\ table' = table /\ mapped' = mapped
    <3>1. fd'[o] = -1 /\ \A q \in Object \ {o} : fd'[q] = fd[q]
      BY <2>5, <2>8
    <3>2. ASSUME NEW d \in Descriptor \ {0}
          PROVE  /\ table'[d] # NULL => kind'[table'[d]] = "file" /\ fd'[table'[d]] = d
                 /\ \A q \in Object : kind'[q] = "file" /\ fd'[q] = d => table'[d] = q
                 /\ table'[d] \in Object \cup {NULL}
      <4>1. table[d] # o /\ d # -1
        BY <2>6, <1>1, <1>2
      <4> QED  BY <4>1, <3>1, <2>3, <2>8, <1>1
    <3>3. \A q \in Object : kind'[q] = "file" /\ fd'[q] \notin {0, -1} => q \in mapped'
      BY <3>1, <2>3, <2>8, <1>1
    <3> QED  BY <3>2, <3>3 DEF FileInv, DescriptorsOwned
  <2> QED  BY <2>2, <2>4, <2>7, <2>8
<1> QED  BY <1>3, <1>4

(* stdiofile_des() closes the descriptor of its file, and no other but 0.  *)
LEMMA DestroyFiles ==
    ASSUME AssetsAssumption, AssetInv, DestroyEnd
    PROVE  FileInv'
PROOF
<1>0. PICK p : p = Head(unrefs).object
  OBVIOUS
<1>1. /\ \A d \in Descriptor \ {0} :
             /\ table[d] # NULL => kind[table[d]] = "file" /\ fd[table[d]] = d
             /\ \A q \in Object : kind[q] = "file" /\ fd[q] = d => table[d] = q
             /\ table[d] \in Object \cup {NULL}
      /\ \A q \in Object : kind[q] = "file" /\ fd[q] \notin {0, -1} => q \in mapped
  BY DEF AssetInv, FileInv, DescriptorsOwned
<1>2. /\ kind' = [kind EXCEPT ![p] = "free"] /\ mapped' = mapped \ {p} /\ fd' = fd
      /\ table' = IF kind[p] = "file"
                  THEN [d \in Descriptor |-> IF d = fd[p] THEN NULL ELSE table[d]]
                  ELSE table
  BY <1>0 DEF DestroyEnd
<1>3. /\ \A q \in Object : kind'[q] = IF q = p THEN "free" ELSE kind[q]
      /\ \A d \in Descriptor :
             table'[d] = IF kind[p] = "file" /\ d = fd[p] THEN NULL ELSE table[d]
  BY <1>2 DEF AssetInv, AssetTypes
<1>4. NULL \notin Object
  BY DEF AssetsAssumption
<1>5. ASSUME NEW d \in Descriptor \ {0}
      PROVE  /\ table'[d] # NULL => kind'[table'[d]] = "file" /\ fd'[table'[d]] = d
             /\ \A q \in Object : kind'[q] = "file" /\ fd'[q] = d => table'[d] = q
             /\ table'[d] \in Object \cup {NULL}
  <2>1. CASE kind[p] = "file" /\ d = fd[p]
    <3>1. table'[d] = NULL
      BY <2>1, <1>3
    <3>2. p \in Object
      <4>1. unrefs # <<>> /\ unrefs \in Seq(Destructor)
        BY DEF DestroyEnd, AssetInv, AssetTypes, Destructor
      <4>2. Head(unrefs) \in Destructor
        BY <4>1, TailByIndex
      <4> QED  BY <4>2, <1>0 DEF Destructor
    <3>3. \A q \in Object : kind[q] = "file" /\ fd[q] = d => q = p
      BY <2>1, <3>2, <1>1
    <3> QED  BY <3>1, <3>3, <1>2, <1>3
  <2>2. CASE ~ (kind[p] = "file" /\ d = fd[p])
    <3>1. table'[d] = table[d]
      BY <2>2, <1>3
    <3>2. table[d] # NULL => table[d] \in Object /\ table[d] # p
      BY <2>2, <1>1
    <3> QED  BY <3>1, <3>2, <1>1, <1>2, <1>3
  <2> QED  BY <2>1, <2>2
<1>6. \A q \in Object : kind'[q] = "file" /\ fd'[q] \notin {0, -1} => q \in mapped'
  BY <1>1, <1>2, <1>3
<1> QED  BY <1>5, <1>6 DEF FileInv, DescriptorsOwned

(* The others touch no file.                                               *)
LEMMA FilesStay ==
    ASSUME FileInv, kind' = kind, fd' = fd, table' = table, mapped' = mapped
    PROVE  FileInv'
PROOF
<1> QED  BY DEF FileInv, DescriptorsOwned
-----------------------------------------------------------------------------
(***************************************************************************)
(* The theorems                                                            *)
(***************************************************************************)

(* At the start there is nothing, and descriptor 0 is somebody else's.     *)
LEMMA AssetStart ==
    ASSUME AssetsAssumption, AssetsInit
    PROVE  AssetInv
PROOF
<1>1. AssetTypes
  <2>1. <<>> \in Seq(Object) /\ <<>> \in Seq(Slot) /\ <<>> \in Seq([object : Object, next : Nat])
    OBVIOUS
  <2>2. 0 \in 0..MaxOwned /\ 0 \in Descriptor
    BY DEF AssetsAssumption
  <2> QED  BY <2>1, <2>2 DEF AssetsInit, AssetTypes
<1>2. unrefs = <<>> /\ DOMAIN unrefs = {} /\ \A o \in Object : kind[o] = "free" /\ owned[o] = 0
  BY DEF AssetsInit
<1>3. StackInv
  BY <1>2 DEF StackInv
<1>4. \A x : Alive(x) => kind[x] # "free"
  BY DEF Alive
<1>5. CountInv
  <2>1. ASSUME NEW x \in Object
        PROVE  Holders(x) = {}
    <3>1. \A o \in Object : Held(o, x) = {}
      BY <1>2 DEF Held
    <3> QED  BY <3>1, HoldersByHolder
  <2>2. IsFiniteSet({})
    BY FS_EmptySet
  <2> QED  BY <2>1, <2>2, <1>2, <1>4 DEF CountInv, RefsCountOwners
<1>6. WeakInv
  <2>1. \A s \in Slot : slot[s] = NULL
    BY DEF AssetsInit
  <2> QED  BY <2>1, <1>2, <1>4 DEF WeakInv, WeakRefsLive
<1>7. FileInv
  <2>1. \A d \in Descriptor \ {0} : table[d] = NULL
    BY DEF AssetsInit
  <2> QED  BY <2>1, <1>2 DEF FileInv, DescriptorsOwned
<1> QED  BY <1>1, <1>3, <1>5, <1>6, <1>7 DEF AssetInv

(* Every step keeps the invariant.                                         *)
LEMMA AssetStep ==
    ASSUME AssetsAssumption, AssetInv, [AssetsNext]_assetVars
    PROVE  AssetInv'
PROOF
<1>0. FileInv
  BY DEF AssetInv
<1>1. CASE \E o \in Object : Unref(o) \/ Ref(o)
  <2>1. PICK o \in Object : Unref(o) \/ Ref(o)
    BY <1>1
  <2>2. FileInv'
    BY <2>1, <1>0, FilesStay DEF Unref, Ref, memory
  <2> QED  BY <2>1, <2>2, ReferenceTypes, ReferenceCounts, ClientWeak DEF AssetInv
<1>2. CASE \E o \in Object : \/ OpenMissing(o)
                             \/ \E k \in {"file", "dir"} : Open(o, k)
                             \/ \E d \in Object : MakePrefix(o, d)
                             \/ \E a, b \in Object : MakeUnion(o, a, b)
  <2>1. PICK o \in Object : \/ OpenMissing(o)
                            \/ \E k \in {"file", "dir"} : Open(o, k)
                            \/ \E d \in Object : MakePrefix(o, d)
                            \/ \E a, b \in Object : MakeUnion(o, a, b)
    BY <1>2
  <2>2. AssetTypes' /\ StackInv'
    BY <2>1, CreationTypes
  <2>3. CountInv'
    BY <2>1, CreationCounts
  <2>4. WeakInv'
    BY <2>1, ClientWeak
  <2>5. FileInv'
    BY <2>1, ClientFiles
  <2> QED  BY <2>2, <2>3, <2>4, <2>5 DEF AssetInv
<1>3. CASE \E o \in Object : Contents(o) \/ \E d \in Object : ExtendUnion(o, d)
  <2>1. PICK o \in Object : Contents(o) \/ \E d \in Object : ExtendUnion(o, d)
    BY <1>3
  <2>2. AssetTypes' /\ StackInv'
    BY <2>1, ClientTypes
  <2>3. CountInv'
    BY <2>1, ClientCounts
  <2>4. WeakInv'
    BY <2>1, ClientWeak
  <2>5. FileInv'
    <3>1. CASE Contents(o)
      BY <3>1, ClientFiles
    <3>2. CASE \E d \in Object : ExtendUnion(o, d)
      BY <3>2, <1>0, FilesStay DEF ExtendUnion
    <3> QED  BY <2>1, <3>1, <3>2
  <2> QED  BY <2>2, <2>3, <2>4, <2>5 DEF AssetInv
<1>4. CASE \E o \in Object, s \in Slot : WeakRef(o, s) \/ WeakUnref(o, s)
  <2>1. PICK o \in Object, s \in Slot : WeakRef(o, s) \/ WeakUnref(o, s)
    BY <1>4
  <2>2. AssetTypes' /\ StackInv'
    BY <2>1, ClientTypes
  <2>3. CountInv'
    BY <2>1, ClientCounts
  <2>4. WeakInv'
    BY <2>1, ListedWeak
  <2>5. FileInv'
    BY <2>1, <1>0, FilesStay DEF WeakRef, WeakUnref, memory
  <2> QED  BY <2>2, <2>3, <2>4, <2>5 DEF AssetInv
<1>5. CASE DestroyPart
  <2>1. FileInv'
    BY <1>5, <1>0, FilesStay DEF DestroyPart, memory
  <2> QED  BY <1>5, <2>1, DestroyTypes, DestroyCounts, DestroyWeak DEF AssetInv
<1>6. CASE DestroyEnd
  BY <1>6, DestroyFiles, DestroyTypes, DestroyCounts, DestroyWeak DEF AssetInv
<1>7. CASE UNCHANGED assetVars
  <2>1. AssetTypes' /\ StackInv'
    BY <1>7 DEF assetVars, memory, weak, AssetInv, AssetTypes, StackInv
  <2>2. FileInv'
    BY <1>7, <1>0, FilesStay DEF assetVars, memory
  <2>3. /\ kind' = kind /\ parts' = parts /\ unrefs' = unrefs /\ refs' = refs /\ owned' = owned
        /\ weak_refs' = weak_refs /\ slot' = slot
    BY <1>7 DEF assetVars, memory, weak
  <2>4. WeakInv'
    BY <2>3, AliveMeans, WeakStays
  <2>5. ASSUME NEW x \in Object
        PROVE  CountOf(x)'
    <3>1. \A q \in Object : Held(q, x)' = Held(q, x)
      BY <2>3, HeldStays DEF AssetInv
    <3>2. Holders(x)' = Holders(x)
      BY <3>1, HoldersStay
    <3> QED  BY <2>3, <3>2, AliveMeans, CountStays DEF AssetInv
  <2>6. CountInv'
    BY <2>5, CountByObject
  <2> QED  BY <2>1, <2>2, <2>4, <2>6 DEF AssetInv
<1> QED  BY <1>1, <1>2, <1>3, <1>4, <1>5, <1>6, <1>7, Actions

(* The variables keep their types.                                         *)
THEOREM AssetsKeepTypes ==
    ASSUME AssetsAssumption
    PROVE  AssetsSpec => []AssetTypes
PROOF
<1>1. AssetInv => AssetTypes
  BY DEF AssetInv
<1> QED  BY <1>1, AssetStart, AssetStep, PTL DEF AssetsSpec

(***************************************************************************)
(* However many objects there are, and however they are put together and   *)
(* given up: a count is the number of references (base.c), in the middle   *)
(* of any cascade of destructors; no object is destroyed while it is       *)
(* referred to or twice; a weak reference is null or alive; and each       *)
(* descriptor but 0 is of one file that has not been destroyed.            *)
(***************************************************************************)
THEOREM ObjectsStayOwned ==
    ASSUME AssetsAssumption
    PROVE  AssetsSpec => []ObjectsOwned
PROOF
<1>1. AssetInv => ObjectsOwned
  BY DEF AssetInv, CountInv, WeakInv, FileInv, ObjectsOwned
<1> QED  BY <1>1, AssetStart, AssetStep, PTL DEF AssetsSpec
-----------------------------------------------------------------------------
\* What the render thread's part of the state is made of
States == [freed : SUBSET DOMAIN Files, place : [Place -> TextureType \cup {Nil}],
           haveTex : BOOLEAN, object : Seq(DOMAIN Files), active : 0..2,
           bound : [Units -> Nat], failure : {"none", "null", "freed", "outside"}]

Messages == [type : {"tex"}, tex : TextureType] \cup [type : {"build"}, renderer : Renderer]

\* The target that is sampled at a place
Face(p) == IF p = "sky" THEN "cube" ELSE "2D"

\* A texture that may be at place p: with its unit and target, and complete only
\* as long as its object holds what was uploaded for it
Fits(t, p, objects) ==
    /\ t.unit = Unit[p]
    /\ t.build # "none" => t.upload \in DOMAIN Files /\ t.target = Face(p)
    /\ t.build # "none" => (t.build = "cube" <=> p = "sky")
    /\ t.complete => /\ t.build # "none" /\ p # "model"
                     /\ t.object \in 1..Len(objects) /\ objects[t.object] = t.upload

Sane(s) ==
    /\ s \in States
    /\ \A u \in Units : s.bound[u] \in 0..Len(s.object)
    /\ \A p \in Place : s.place[p] # Nil => Fits(s.place[p], p, s.object)

\* What was loaded for an image and is on its way to it
Fresh(t) == t \in TextureType /\ Fits(t, "image", <<>>)

Sent(i) == i \in DOMAIN requests /\ requests[i].type = "tex"

NothingSent == \A i \in DOMAIN requests : ~Sent(i)

TypesInv ==
    /\ cast \in Scenes /\ given \subseteq DOMAIN Files
    /\ requests \in Seq(Messages)
    /\ things \in 1..2
    /\ context \subseteq Renderer /\ built \subseteq context
    /\ setting # Nil => Fresh(setting)
    /\ \A i \in DOMAIN requests : Sent(i) => Fresh(requests[i].tex)
    /\ Sane(State)

BuildAsked(r) == \E i \in DOMAIN requests : requests[i].type = "build" /\ requests[i].renderer = r

\* A renderer is built once it has its textures, and an image once it has one
OwnersInv ==
    /\ haveTex => place["image"] # Nil
    /\ \A r \in {"sky", "map"} :
         r \in built \/ BuildAsked(r) => \A p \in PlacesOf[r] : place[p] # Nil

\* What is to be uploaded was given away
Given(t) == t.build = "data" => t.upload \in given

GivenInv ==
    /\ freed \subseteq given
    /\ \A p \in Place \ {"model"} : place[p] # Nil => Given(place[p])
    /\ setting # Nil => Given(setting)
    /\ \A i \in DOMAIN requests : Sent(i) => Given(requests[i].tex)

\* Textures are sent once the image has a context, and set in place before; the
\* last that was set is the last that is sent, is being set, or is at its place
OrderInv ==
    /\ setting # Nil \/ "image" \notin context => NothingSent
    /\ setting # Nil => setting.upload = wanted
    /\ setting = Nil /\ NothingSent =>
         IF place["image"] = Nil THEN wanted = 0 ELSE place["image"].upload = wanted
    /\ \A i \in DOMAIN requests :
         Sent(i) /\ (\A j \in DOMAIN requests : j > i => ~Sent(j)) => requests[i].tex.upload = wanted

\* An image whose texture is not complete will build it when it is built
ImageInv ==
    failure = "none" /\ place["image"] # Nil /\ ~place["image"].complete =>
        haveTex /\ ("image" \in built => "late" \in careless)

\* The places with textures that are still to be uploaded from memory
Waiting(p) ==
    /\ place[p] # Nil /\ place[p].build = "data"
    /\ \/ p \in {"height", "normal", "color"} /\ "map" \notin built
       \/ p = "image" /\ haveTex /\ "image" \notin built

\* Its memory is there, and no place has the same
Unshared(t) ==
    t.build = "data" =>
        t.upload \notin freed /\ \A p \in Place : Waiting(p) => place[p].upload # t.upload

\* With careful clients all that waits to be uploaded has one owner
CareInv ==
    failure = "none" /\ careless = {} =>
        /\ haveTex /\ "image" \notin built => "image" \notin context
        /\ \A p \in Place : Waiting(p) => place[p].upload \notin freed
        /\ \A p, q \in Place : Waiting(p) /\ Waiting(q) /\ place[p].upload = place[q].upload => p = q
        /\ setting # Nil => Unshared(setting)
        /\ \A i \in DOMAIN requests : Sent(i) => Unshared(requests[i].tex)
        /\ \A i, j \in DOMAIN requests :
             /\ Sent(i) /\ Sent(j) /\ i # j
             /\ requests[i].tex.build = "data" /\ requests[j].tex.build = "data"
             => requests[i].tex.upload # requests[j].tex.upload

TextureInv == TypesInv /\ OwnersInv /\ GivenInv /\ OrderInv /\ ImageInv /\ CareInv /\ UploadsLive
-----------------------------------------------------------------------------
\* What a file is loaded as fits every place of its kind
LEMMA ValueTypes ==
    ASSUME TexturesAssumption, cast \in Scenes, NEW v \in DOMAIN Files
    PROVE  /\ v \in Nat /\ Files[v] \in {"data", "cube", "none"}
           /\ Value[v] \in TextureType /\ Value[v] # Nil
           /\ Value[v].build = Files[v]
           /\ Value[v].upload = (IF Files[v] = "none" THEN 0 ELSE v)
           /\ Value[v].target = (IF Files[v] = "cube" THEN "cube" ELSE "2D")
           /\ Value[v].unit = 0 /\ ~Value[v].complete
PROOF
<1>1. Files \in Seq({"data", "cube", "none"})
  BY DEF TexturesAssumption, Files
<1>2. v \in Nat /\ Files[v] \in {"data", "cube", "none"}
  BY <1>1
<1>3. Empty \in [build : {"none", "data", "cube"}, target : Target,
                 upload : {0} \cup DOMAIN Files, unit : 0..2, object : Nat, complete : BOOLEAN]
  BY DEF Empty, Target
<1>4. CASE Files[v] = "none"
  <2>1. Value[v] = Empty
    BY <1>4 DEF Value
  <2>2. Empty \in Texture
    BY DEF Empty, Texture
  <2>3. Empty \in TextureType /\ Empty # Nil
    BY <1>3, <2>2 DEF TextureType, TexturesAssumption
  <2>4. /\ Empty.build = "none" /\ Empty.upload = 0 /\ Empty.target = "2D"
        /\ Empty.unit = 0 /\ ~Empty.complete
    BY DEF Empty
  <2> QED  BY <1>2, <1>4, <2>1, <2>3, <2>4
<1>5. CASE Files[v] # "none"
  <2> DEFINE t == [build |-> Files[v], target |-> IF Files[v] = "cube" THEN "cube" ELSE "2D",
                   upload |-> v, unit |-> 0, object |-> 0, complete |-> FALSE]
  <2>1. Value[v] = t
    BY <1>5 DEF Value, Empty
  <2>2. t \in TextureType
    BY <1>2, <1>5 DEF TextureType, Target
  <2>3. t \in Texture
    BY <1>2, <1>5 DEF Texture
  <2>4. t # Nil
    BY <2>3 DEF TexturesAssumption
  <2>5. /\ t.build = Files[v] /\ t.upload = v /\ t.unit = 0 /\ ~t.complete
        /\ t.target = (IF Files[v] = "cube" THEN "cube" ELSE "2D")
    OBVIOUS
  <2> HIDE DEF t
  <2> QED  BY <1>2, <1>5, <2>1, <2>2, <2>4, <2>5
<1> QED  BY <1>4, <1>5

\* A texture is never Nil
LEMMA TextureIsNotNil ==
    ASSUME TexturesAssumption, cast \in Scenes, NEW t \in TextureType
    PROVE  t # Nil
PROOF
<1>1. Files \in Seq({"data", "cube", "none"})
  BY DEF TexturesAssumption, Files
<1>2. {0} \cup DOMAIN Files \subseteq Nat
  BY <1>1
<1>3. t \in Texture
  BY <1>2 DEF TextureType, Texture, Target
<1> QED  BY <1>3 DEF TexturesAssumption

\* With another unit it fits the place of that unit
LEMMA PlacedTypes ==
    ASSUME TexturesAssumption, cast \in Scenes, NEW v \in DOMAIN Files, NEW p \in Place,
           p = "sky" => Files[v] # "data", p # "sky" => Files[v] # "cube"
    PROVE  LET t == [Value[v] EXCEPT !.unit = Unit[p]]
           IN  /\ t \in TextureType /\ t # Nil
               /\ t.build = Files[v] /\ t.upload = Value[v].upload /\ ~t.complete
               /\ \A objects : Fits(t, p, objects)
PROOF
<1> DEFINE t == [Value[v] EXCEPT !.unit = Unit[p]]
<1>1. /\ v \in Nat /\ Files[v] \in {"data", "cube", "none"}
      /\ Value[v] \in TextureType /\ Value[v] # Nil
      /\ Value[v].build = Files[v]
      /\ Value[v].upload = (IF Files[v] = "none" THEN 0 ELSE v)
      /\ Value[v].target = (IF Files[v] = "cube" THEN "cube" ELSE "2D")
      /\ Value[v].unit = 0 /\ ~Value[v].complete
  BY ValueTypes
<1>2. Unit[p] \in 0..2
  BY DEF Unit, Place
<1>3. /\ t \in TextureType
      /\ t.build = Value[v].build /\ t.upload = Value[v].upload /\ t.target = Value[v].target
      /\ t.unit = Unit[p] /\ t.complete = Value[v].complete
  BY <1>1, <1>2 DEF TextureType
<1>4. t # Nil
  BY <1>3, TextureIsNotNil
<1> HIDE DEF t
<1>5. \A objects : Fits(t, p, objects)
  BY <1>1, <1>3 DEF Fits, Face
<1> QED  BY <1>1, <1>3, <1>4, <1>5 DEF t

-----------------------------------------------------------------------------
\* A sane state by its fields
LEMMA SaneFields ==
    ASSUME NEW s, Sane(s)
    PROVE  /\ s.freed \subseteq DOMAIN Files /\ s.place \in [Place -> TextureType \cup {Nil}]
           /\ s.haveTex \in BOOLEAN /\ s.object \in Seq(DOMAIN Files) /\ s.active \in 0..2
           /\ s.bound \in [Units -> Nat] /\ s.failure \in {"none", "null", "freed", "outside"}
           /\ \A u \in Units : s.bound[u] \in 0..Len(s.object)
           /\ \A p \in Place : s.place[p] # Nil => s.place[p] \in TextureType /\ Fits(s.place[p], p, s.object)
           /\ s = [freed |-> s.freed, place |-> s.place, haveTex |-> s.haveTex,
                   object |-> s.object, active |-> s.active, bound |-> s.bound,
                   failure |-> s.failure]
PROOF
<1>1. s \in States
  BY DEF Sane
<1>2. /\ s.freed \subseteq DOMAIN Files /\ s.place \in [Place -> TextureType \cup {Nil}]
      /\ s.haveTex \in BOOLEAN /\ s.object \in Seq(DOMAIN Files) /\ s.active \in 0..2
      /\ s.bound \in [Units -> Nat] /\ s.failure \in {"none", "null", "freed", "outside"}
  BY <1>1 DEF States
<1>3. s = [freed |-> s.freed, place |-> s.place, haveTex |-> s.haveTex,
           object |-> s.object, active |-> s.active, bound |-> s.bound,
           failure |-> s.failure]
  BY <1>1 DEF States
<1> QED  BY <1>2, <1>3 DEF Sane

\* A new object, filled for place p
LEMMA FillKeeps ==
    ASSUME TexturesAssumption, cast \in Scenes, NEW s, Sane(s),
           NEW p \in Place \ {"model"}, s.place[p] # Nil, s.place[p].build # "none"
    PROVE  LET n == Fill(s, p)
           IN  /\ Sane(n)
               /\ n.freed = s.freed /\ n.haveTex = s.haveTex /\ n.failure = s.failure
               /\ \A q \in Place \ {p} : n.place[q] = s.place[q]
               /\ n.place[p] # Nil /\ n.place[p].complete
               /\ n.place[p].upload = s.place[p].upload /\ n.place[p].build = s.place[p].build
PROOF
<1> DEFINE t   == s.place[p]
           new == Len(s.object) + 1
           o   == Append(s.object, t.upload)
           b   == [s.bound EXCEPT ![<<s.active, t.target>>] = new]
           u   == [[t EXCEPT !.object = new] EXCEPT !.complete = TRUE]
           q   == [s.place EXCEPT ![p] = u]
           n   == [freed |-> s.freed, place |-> q, haveTex |-> s.haveTex, object |-> o,
                   active |-> s.active, bound |-> b, failure |-> s.failure]
<1>1. /\ s.freed \subseteq DOMAIN Files /\ s.place \in [Place -> TextureType \cup {Nil}]
      /\ s.haveTex \in BOOLEAN /\ s.object \in Seq(DOMAIN Files) /\ s.active \in 0..2
      /\ s.bound \in [Units -> Nat] /\ s.failure \in {"none", "null", "freed", "outside"}
      /\ \A k \in Units : s.bound[k] \in 0..Len(s.object)
      /\ \A k \in Place : s.place[k] # Nil => s.place[k] \in TextureType /\ Fits(s.place[k], k, s.object)
      /\ s = [freed |-> s.freed, place |-> s.place, haveTex |-> s.haveTex,
              object |-> s.object, active |-> s.active, bound |-> s.bound,
              failure |-> s.failure]
  BY SaneFields
<1>2. t \in TextureType /\ Fits(t, p, s.object)
  BY <1>1
<1>3. t.upload \in DOMAIN Files /\ <<s.active, t.target>> \in Units
  BY <1>1, <1>2 DEF Fits, TextureType, Units
<1>4. /\ o \in Seq(DOMAIN Files) /\ Len(o) = new /\ new \in Nat
      /\ \A i \in 1..Len(s.object) : o[i] = s.object[i]
      /\ o[new] = t.upload /\ new >= 1
  BY <1>1, <1>3
<1>5. /\ u \in TextureType
      /\ u.build = t.build /\ u.upload = t.upload /\ u.target = t.target /\ u.unit = t.unit
      /\ u.object = new /\ u.complete
  BY <1>2, <1>4 DEF TextureType
<1>6. b \in [Units -> Nat] /\ \A k \in Units : b[k] \in 0..new
  BY <1>1, <1>3, <1>4
<1>7. u # Nil
  BY <1>5, TextureIsNotNil
<1>8. /\ q \in [Place -> TextureType \cup {Nil}]
      /\ q[p] = u /\ \A k \in Place \ {p} : q[k] = s.place[k]
  BY <1>1, <1>5
<1>9. Fill(s, p) = n
  <2> DEFINE m == [freed |-> s.freed, place |-> s.place, haveTex |-> s.haveTex,
                   object |-> s.object, active |-> s.active, bound |-> s.bound,
                   failure |-> s.failure]
         m1 == [m EXCEPT !.object = o]
         m2 == [m1 EXCEPT !.bound = b]
         m3 == [m2 EXCEPT !.place = [s.place EXCEPT ![p] = [t EXCEPT !.object = new]]]
         m4 == [m3 EXCEPT !.place = q]
  <2>1. Fill(m, p) = m4
    BY <1>1 DEF Fill
  <2>2. m4 = n
    <3> HIDE DEF q, o, b
    <3>0. m1 = [freed |-> s.freed, place |-> s.place, haveTex |-> s.haveTex, object |-> o,
                active |-> s.active, bound |-> s.bound, failure |-> s.failure]
      OBVIOUS
    <3> HIDE DEF m1
    <3>1. m2 = [freed |-> s.freed, place |-> s.place, haveTex |-> s.haveTex, object |-> o,
                active |-> s.active, bound |-> b, failure |-> s.failure]
      BY <3>0
    <3> HIDE DEF m2
    <3>2. m4 = [m2 EXCEPT !.place = q]
      BY <3>1
    <3> HIDE DEF m4
    <3> QED  BY <3>1, <3>2
  <2> QED  BY <1>1, <2>1, <2>2
<1>10. Fits(u, p, o)
  <2> HIDE DEF u, o, new
  <2> QED  BY <1>2, <1>4, <1>5 DEF Fits
<1>11. \A k \in Place \ {p} : s.place[k] # Nil => Fits(s.place[k], k, o)
  <2> TAKE k \in Place \ {p}
  <2> HAVE s.place[k] # Nil
  <2>1. Fits(s.place[k], k, s.object) /\ s.place[k] \in TextureType
    BY <1>1
  <2>2. Len(s.object) \in Nat
    BY <1>1
  <2> HIDE DEF o
  <2> QED  BY <2>1, <2>2, <1>4 DEF Fits
<1>12. n \in States
  <2> HIDE DEF q, o, b
  <2> QED  BY <1>1, <1>4, <1>6, <1>8 DEF States
<1>13. Sane(n)
  <2> HIDE DEF q, o, b, u, new
  <2> QED  BY <1>4, <1>6, <1>8, <1>10, <1>11, <1>12 DEF Sane
<1> HIDE DEF q, o, b, u
<1> QED  BY <1>5, <1>7, <1>8, <1>9, <1>13
\* What building the texture at p makes of state s
Builds(s, n, p) ==
    /\ Sane(n) /\ n.haveTex = s.haveTex
    /\ \A q \in Place \ {p} : n.place[q] = s.place[q]
    /\ n.place[p] # Nil
    /\ n.place[p].upload = s.place[p].upload /\ n.place[p].build = s.place[p].build
    /\ n.place[p].complete \/ n.place[p] = s.place[p]
    /\ n.failure = "none" => s.failure = "none" /\ n.place[p].complete
    /\ \/ n.freed = s.freed
       \/ s.place[p].build = "data" /\ n.freed = s.freed \cup {s.place[p].upload}
    /\ n.failure = "freed" =>
         \/ s.failure = "freed"
         \/ s.place[p].build = "data" /\ s.place[p].upload \in s.freed

\* ilG_tex_build() builds, or fails
LEMMA TexBuildBuilds ==
    ASSUME TexturesAssumption, cast \in Scenes, NEW s, Sane(s),
           NEW p \in Place \ {"model"}, s.place[p] # Nil
    PROVE  Builds(s, TexBuild(s, p), p)
PROOF
<1> DEFINE t == s.place[p]
<1>1. /\ s.freed \subseteq DOMAIN Files /\ s.place \in [Place -> TextureType \cup {Nil}]
      /\ s.haveTex \in BOOLEAN /\ s.object \in Seq(DOMAIN Files) /\ s.active \in 0..2
      /\ s.bound \in [Units -> Nat] /\ s.failure \in {"none", "null", "freed", "outside"}
      /\ \A k \in Units : s.bound[k] \in 0..Len(s.object)
      /\ \A k \in Place : s.place[k] # Nil => s.place[k] \in TextureType /\ Fits(s.place[k], k, s.object)
      /\ s = [freed |-> s.freed, place |-> s.place, haveTex |-> s.haveTex,
              object |-> s.object, active |-> s.active, bound |-> s.bound,
              failure |-> s.failure]
  BY SaneFields
<1>2. t \in TextureType /\ Fits(t, p, s.object)
  BY <1>1
<1>3. t.build \in {"none", "data", "cube"}
  BY <1>2 DEF TextureType
<1>4. ASSUME NEW f \in {"null", "freed"}
      PROVE  LET n == [s EXCEPT !.failure = f]
             IN  /\ Sane(n) /\ n.place = s.place /\ n.freed = s.freed
                 /\ n.haveTex = s.haveTex /\ n.failure = f
  <2> DEFINE n == [s EXCEPT !.failure = f]
  <2>1. s \in States
    BY DEF Sane
  <2>2. /\ n \in States /\ n.freed = s.freed /\ n.place = s.place /\ n.haveTex = s.haveTex
        /\ n.object = s.object /\ n.bound = s.bound /\ n.failure = f
    BY <2>1 DEF States
  <2> HIDE DEF n
  <2>3. Sane(n)
    BY <2>2 DEF Sane
  <2> QED  BY <2>2, <2>3 DEF n
<1>5. CASE s.failure # "none"
  <2>1. TexBuild(s, p) = s
    BY <1>5 DEF TexBuild
  <2> QED  BY <1>5, <2>1 DEF Builds
<1>6. CASE s.failure = "none" /\ t.build = "none"
  <2>1. TexBuild(s, p) = [s EXCEPT !.failure = "null"]
    BY <1>6 DEF TexBuild
  <2> QED  BY <1>4, <1>6, <2>1 DEF Builds
<1>7. ASSUME t.build # "none"
      PROVE  LET n == Fill(s, p)
             IN  /\ Sane(n)
                 /\ n.freed = s.freed /\ n.haveTex = s.haveTex /\ n.failure = s.failure
                 /\ \A q \in Place \ {p} : n.place[q] = s.place[q]
                 /\ n.place[p] # Nil /\ n.place[p].complete
                 /\ n.place[p].upload = t.upload /\ n.place[p].build = t.build
  BY <1>7, FillKeeps
<1>8. CASE s.failure = "none" /\ t.build = "cube"
  <2>1. TexBuild(s, p) = Fill(s, p)
    BY <1>8 DEF TexBuild, CubeBuild
  <2> QED  BY <1>7, <1>8, <2>1 DEF Builds
<1>9. CASE s.failure = "none" /\ t.build = "data"
  <2>1. TexBuild(s, p) = DataBuild(s, p)
    BY <1>9 DEF TexBuild
  <2>2. CASE t.upload \in s.freed
    <3>1. TexBuild(s, p) = [s EXCEPT !.failure = "freed"]
      BY <2>1, <2>2 DEF DataBuild
    <3> QED  BY <1>4, <1>9, <2>2, <3>1 DEF Builds
  <2>3. CASE t.upload \notin s.freed
    <3> DEFINE f == Fill(s, p)
               n == [f EXCEPT !.freed = s.freed \cup {t.upload}]
    <3>1. /\ Sane(f)
          /\ f.freed = s.freed /\ f.haveTex = s.haveTex /\ f.failure = s.failure
          /\ \A q \in Place \ {p} : f.place[q] = s.place[q]
          /\ f.place[p] # Nil /\ f.place[p].complete
          /\ f.place[p].upload = t.upload /\ f.place[p].build = t.build
      BY <1>7, <1>9
    <3>2. f \in States
      BY <3>1 DEF Sane
    <3>3. TexBuild(s, p) = n
      <4>1. DataBuild(s, p) = [f EXCEPT !.freed = f.freed \cup {t.upload}]
        BY <2>3, <3>2 DEF DataBuild
      <4> QED  BY <2>1, <3>1, <4>1
    <3>4. t.upload \in DOMAIN Files
      BY <1>2, <1>9 DEF Fits
    <3>5. /\ n \in States /\ n.freed = s.freed \cup {t.upload} /\ n.place = f.place
          /\ n.haveTex = f.haveTex /\ n.object = f.object /\ n.bound = f.bound
          /\ n.failure = f.failure
      <4> HIDE DEF f
      <4> QED  BY <1>1, <3>2, <3>4 DEF States
    <3> HIDE DEF n, f
    <3>6. Sane(n)
      BY <3>1, <3>5 DEF Sane
    <3> QED  BY <1>9, <3>1, <3>3, <3>5, <3>6 DEF Builds
  <2> QED  BY <2>2, <2>3
<1> QED  BY <1>3, <1>5, <1>6, <1>8, <1>9

\* Binding the texture at p, which changes no other unit
LEMMA BindKeeps ==
    ASSUME TexturesAssumption, cast \in Scenes, NEW s, Sane(s), NEW p \in Place, s.place[p] # Nil
    PROVE  LET n == BindPlace(s, p)
           IN  /\ Sane(n) /\ n.freed = s.freed /\ n.place = s.place /\ n.haveTex = s.haveTex
               /\ n.object = s.object /\ n.failure = s.failure
               /\ s.place[p].complete =>
                    /\ n.bound[<<Unit[p], Face(p)>>] = s.place[p].object
                    /\ \A u \in Units : u # <<Unit[p], Face(p)>> => n.bound[u] = s.bound[u]
               /\ ~s.place[p].complete => n = s
PROOF
<1> DEFINE t == s.place[p]
           n == [[s EXCEPT !.active = t.unit] EXCEPT !.bound = [s.bound EXCEPT ![<<t.unit, t.target>>] = t.object]]
<1>1. CASE ~t.complete
  BY <1>1 DEF BindPlace, TexBind
<1>2. CASE t.complete
  <2>1. s \in States
    BY DEF Sane
  <2>2. t \in TextureType /\ Fits(t, p, s.object)
    BY SaneFields
  <2>3. /\ s.bound \in [Units -> Nat] /\ s.object \in Seq(DOMAIN Files)
        /\ \A u \in Units : s.bound[u] \in 0..Len(s.object)
    BY SaneFields
  <2>4. /\ t.unit = Unit[p] /\ t.target = Face(p) /\ t.unit \in 0..2
        /\ <<t.unit, t.target>> \in Units
        /\ t.object \in Nat /\ t.object \in 0..Len(s.object)
    BY <1>2, <2>2, <2>3 DEF Fits, TextureType, Units
  <2>5. BindPlace(s, p) = n
    BY <1>2, <2>1 DEF BindPlace, TexBind, States
  <2> DEFINE b == [s.bound EXCEPT ![<<t.unit, t.target>>] = t.object]
  <2>6. /\ b \in [Units -> Nat] /\ \A u \in Units : b[u] \in 0..Len(s.object)
        /\ b[<<t.unit, t.target>>] = t.object
        /\ \A u \in Units : u # <<t.unit, t.target>> => b[u] = s.bound[u]
    BY <2>3, <2>4
  <2>7. /\ n \in States /\ n.freed = s.freed /\ n.place = s.place /\ n.haveTex = s.haveTex
        /\ n.object = s.object /\ n.failure = s.failure /\ n.bound = b
    <3>1. n = [[s EXCEPT !.active = t.unit] EXCEPT !.bound = b]
      OBVIOUS
    <3> HIDE DEF n, b
    <3>2. PICK a : a = t.unit /\ a \in 0..2
      BY <2>4
    <3>3. n = [[s EXCEPT !.active = a] EXCEPT !.bound = b]
      BY <3>1, <3>2
    <3> HIDE DEF t
    <3> QED  BY <2>1, <2>6, <3>2, <3>3 DEF States
  <2> HIDE DEF n, b
  <2>8. Sane(n)
    BY <2>6, <2>7 DEF Sane
  <2> QED  BY <1>2, <2>4, <2>5, <2>6, <2>7, <2>8
<1> QED  BY <1>1, <1>2
-----------------------------------------------------------------------------
\* The state by its fields
LEMMA StateFields ==
    /\ State.freed = freed /\ State.place = place /\ State.haveTex = haveTex
    /\ State.object = object /\ State.active = active /\ State.bound = bound
    /\ State.failure = failure
PROOF
BY DEF State

\* Before a renderer draws, what is complete at its places is bound there
LEMMA BoundIsOwn ==
    ASSUME TexturesAssumption, TypesInv, OwnersInv, NEW r \in built
    PROVE  LET n == Bound(r)
           IN  /\ Sane(n) /\ n.freed = freed /\ n.place = place /\ n.haveTex = haveTex
               /\ n.object = object /\ n.failure = failure
               /\ \A p \in PlacesOf[r] : place[p] # Nil /\ place[p].complete =>
                    n.bound[<<Unit[p], Face(p)>>] = place[p].object
PROOF
<1>1. r \in Renderer /\ Sane(State) /\ cast \in Scenes
  BY DEF TypesInv
<1>2. ASSUME NEW p \in Place, place[p] # Nil
      PROVE  LET n == BindPlace(State, p)
             IN  /\ Sane(n) /\ n.freed = freed /\ n.place = place /\ n.haveTex = haveTex
                 /\ n.object = object /\ n.failure = failure
                 /\ place[p].complete => n.bound[<<Unit[p], Face(p)>>] = place[p].object
  <2>1. State.place[p] # Nil
    BY <1>2, StateFields
  <2> QED  BY <1>1, <2>1, BindKeeps, StateFields
<1>3. CASE r = "sky"
  <2>1. PlacesOf[r] = {"sky"} /\ "sky" \in Place
    BY <1>3 DEF PlacesOf, Place
  <2>2. place["sky"] # Nil
    BY <1>3, <2>1 DEF OwnersInv
  <2>3. Bound(r) = BindPlace(State, "sky")
    BY <1>3 DEF Bound
  <2> QED  BY <1>2, <2>1, <2>2, <2>3
<1>4. CASE r = "map"
  <2>1. /\ PlacesOf[r] = {"height", "normal", "color"}
        /\ "height" \in Place /\ "normal" \in Place /\ "color" \in Place
    BY <1>4 DEF PlacesOf, Place
  <2>2. place["height"] # Nil /\ place["normal"] # Nil /\ place["color"] # Nil
    BY <1>4, <2>1 DEF OwnersInv
  <2>3. Bound(r) = BindPlace(BindPlace(BindPlace(State, "height"), "normal"), "color")
    BY <1>4 DEF Bound
  <2>4. PICK s1 : s1 = BindPlace(State, "height")
    OBVIOUS
  <2>5. PICK s2 : s2 = BindPlace(s1, "normal")
    OBVIOUS
  <2>6. PICK s3 : s3 = BindPlace(s2, "color")
    OBVIOUS
  <2>7. /\ Sane(s1) /\ s1.freed = freed /\ s1.place = place /\ s1.haveTex = haveTex
        /\ s1.object = object /\ s1.failure = failure
        /\ place["height"].complete => s1.bound[<<Unit["height"], Face("height")>>] = place["height"].object
    BY <1>2, <2>1, <2>2, <2>4
  <2>8. /\ Sane(s2) /\ s2.freed = freed /\ s2.place = place /\ s2.haveTex = haveTex
        /\ s2.object = object /\ s2.failure = failure
        /\ place["normal"].complete =>
             /\ s2.bound[<<Unit["normal"], Face("normal")>>] = place["normal"].object
             /\ \A u \in Units : u # <<Unit["normal"], Face("normal")>> => s2.bound[u] = s1.bound[u]
        /\ ~place["normal"].complete => s2 = s1
    <3>1. s1.place["normal"] # Nil
      BY <2>2, <2>7
    <3> QED  BY <1>1, <2>1, <2>5, <2>7, <3>1, BindKeeps
  <2>9. /\ Sane(s3) /\ s3.freed = freed /\ s3.place = place /\ s3.haveTex = haveTex
        /\ s3.object = object /\ s3.failure = failure
        /\ place["color"].complete =>
             /\ s3.bound[<<Unit["color"], Face("color")>>] = place["color"].object
             /\ \A u \in Units : u # <<Unit["color"], Face("color")>> => s3.bound[u] = s2.bound[u]
        /\ ~place["color"].complete => s3 = s2
    <3>1. s2.place["color"] # Nil
      BY <2>2, <2>8
    <3> QED  BY <1>1, <2>1, <2>6, <2>8, <3>1, BindKeeps
  <2>10. /\ <<Unit["height"], Face("height")>> = <<0, "2D">>
         /\ <<Unit["normal"], Face("normal")>> = <<1, "2D">>
         /\ <<Unit["color"], Face("color")>> = <<2, "2D">>
    BY DEF Unit, Face
  <2>11. /\ <<0, "2D">> \in Units /\ <<1, "2D">> \in Units
         /\ <<0, "2D">> # <<1, "2D">> /\ <<0, "2D">> # <<2, "2D">> /\ <<1, "2D">> # <<2, "2D">>
    BY DEF Units, Target
  <2>12. Bound(r) = s3
    BY <2>3, <2>4, <2>5, <2>6
  <2>13. s3.bound[<<0, "2D">>] = s2.bound[<<0, "2D">>] /\ s2.bound[<<0, "2D">>] = s1.bound[<<0, "2D">>]
    BY <2>8, <2>9, <2>10, <2>11
  <2>14. s3.bound[<<1, "2D">>] = s2.bound[<<1, "2D">>]
    BY <2>9, <2>10, <2>11
  <2>15. \A p \in {"height", "normal", "color"} : place[p].complete =>
           s3.bound[<<Unit[p], Face(p)>>] = place[p].object
    BY <2>7, <2>8, <2>9, <2>10, <2>13, <2>14
  <2> QED  BY <2>1, <2>9, <2>12, <2>15
<1>5. CASE r \in {"model", "image"}
  <2>1. PlacesOf[r] = {r} /\ r \in Place
    BY <1>5 DEF PlacesOf, Place
  <2>2. CASE place[r] = Nil
    <3>1. Bound(r) = State
      BY <1>5, <2>2 DEF Bound
    <3> QED  BY <1>1, <2>1, <2>2, <3>1, StateFields
  <2>3. CASE place[r] # Nil
    <3>1. Bound(r) = BindPlace(State, r)
      BY <1>5, <2>3 DEF Bound
    <3> QED  BY <1>2, <2>1, <2>3, <3>1
  <2> QED  BY <2>2, <2>3
<1> QED  BY <1>1, <1>3, <1>4, <1>5 DEF Renderer

\* So each samples its own
LEMMA SanePlacesSample ==
    ASSUME TexturesAssumption, TypesInv, OwnersInv
    PROVE  SamplesOwn
PROOF
<1>1. Sane(State) /\ built \subseteq Renderer
  BY DEF TypesInv
<1>2. \A p \in Place : place[p] # Nil => Fits(place[p], p, object)
  BY <1>1, StateFields DEF Sane
<1>3. ASSUME NEW r \in built, NEW p \in Place, p \in PlacesOf[r], place[p] # Nil,
             place[p].complete
      PROVE  LET o == Bound(r).bound[<<Unit[p], IF p = "sky" THEN "cube" ELSE "2D">>]
             IN  o # 0 /\ object[o] = place[p].upload
  <2>1. Bound(r).bound[<<Unit[p], Face(p)>>] = place[p].object
    BY <1>3, BoundIsOwn
  <2>2. place[p].object \in 1..Len(object) /\ object[place[p].object] = place[p].upload
    BY <1>2, <1>3 DEF Fits
  <2> QED  BY <2>1, <2>2 DEF Face
<1>4. ASSUME NEW r \in built, NEW p \in Place, p \in PlacesOf[r], place[p] # Nil, r = "model"
      PROVE  ~place[p].complete
  <2>1. p = "model"
    BY <1>4 DEF PlacesOf
  <2> QED  BY <1>2, <1>4, <2>1 DEF Fits
<1> QED  BY <1>3, <1>4 DEF SamplesOwn

\* The invariant has the types
LEMMA InvHasTypes ==
    ASSUME TypesInv
    PROVE  TextureTypes
PROOF
<1>1. Sane(State)
  BY DEF TypesInv
<1>2. /\ freed \subseteq DOMAIN Files /\ place \in [Place -> TextureType \cup {Nil}]
      /\ haveTex \in BOOLEAN /\ object \in Seq(DOMAIN Files) /\ active \in 0..2
      /\ bound \in [Units -> Nat] /\ failure \in {"none", "null", "freed", "outside"}
      /\ \A u \in Units : bound[u] \in 0..Len(object)
  BY <1>1, SaneFields, StateFields
<1>3. bound \in [Units -> 0..Len(object)]
  BY <1>2
<1>4. setting \in TextureType \cup {Nil}
  BY DEF TypesInv, Fresh
<1> QED  BY <1>2, <1>3, <1>4 DEF TypesInv, TextureTypes

\* With nothing on its way, an image that was built has what was last set
LEMMA ImageIsLast ==
    ASSUME OrderInv, ImageInv
    PROVE  ImageShowsLast
PROOF
<1> SUFFICES ASSUME failure = "none", wanted # 0, "image" \in built, setting = Nil,
                    \A i \in DOMAIN requests : requests[i].type # "tex", "late" \notin careless
             PROVE  place["image"].complete /\ place["image"].upload = wanted
  BY DEF ImageShowsLast
<1>1. NothingSent
  BY DEF NothingSent, Sent
<1>2. place["image"] # Nil /\ place["image"].upload = wanted
  BY <1>1 DEF OrderInv
<1> QED  BY <1>2 DEF ImageInv
-----------------------------------------------------------------------------
\* The scene stays, and with it what its files are loaded as
LEMMA SameFiles ==
    ASSUME cast' = cast
    PROVE  /\ Files' = Files /\ TextureType' = TextureType /\ Value' = Value
           /\ States' = States /\ Messages' = Messages
           /\ \A t, p, o : Fits(t, p, o)' <=> Fits(t, p, o)
           /\ \A t : Fresh(t)' <=> Fresh(t)
PROOF
<1>1. Files' = Files
  BY DEF Files
<1>2. TextureType' = TextureType /\ Value' = Value
  BY <1>1 DEF TextureType, Value
<1>3. States' = States /\ Messages' = Messages
  BY <1>1, <1>2 DEF States, Messages
<1>4. \A t, p, o : Fits(t, p, o)' <=> Fits(t, p, o)
  BY <1>1 DEF Fits
<1>5. \A t : Fresh(t)' <=> Fresh(t)
  BY <1>1, <1>2 DEF Fresh, Fits
<1> QED  BY <1>1, <1>2, <1>3, <1>4, <1>5

\* What the render thread leaves is sane if it was before it was stored
LEMMA BecomeSane ==
    ASSUME NEW s, Sane(s), Become(s), cast' = cast
    PROVE  /\ Sane(State)'
           /\ freed' = s.freed /\ place' = s.place /\ haveTex' = s.haveTex /\ object' = s.object
           /\ active' = s.active /\ bound' = s.bound /\ failure' = s.failure
PROOF
<1>1. State' = s
  <2>1. State' = [freed |-> s.freed, place |-> s.place, haveTex |-> s.haveTex,
                  object |-> s.object, active |-> s.active, bound |-> s.bound,
                  failure |-> s.failure]
    BY DEF State, Become
  <2> QED  BY <2>1, SaneFields
<1>2. States' = States /\ \A t, p, o : Fits(t, p, o)' <=> Fits(t, p, o)
  BY SameFiles
<1>3. Sane(State)'
  BY <1>1, <1>2 DEF Sane
<1> QED  BY <1>3 DEF Become

\* The first message is taken
LEMMA PopByIndex ==
    ASSUME TypesInv, requests # <<>>, requests' = Tail(requests)
    PROVE  /\ requests \in Seq(Messages) /\ requests' \in Seq(Messages)
           /\ Head(requests) = requests[1] /\ Head(requests) \in Messages
           /\ 1 \in DOMAIN requests /\ DOMAIN requests \subseteq Nat
           /\ \A i \in DOMAIN requests' : /\ i \in Nat /\ i >= 1 /\ i + 1 \in DOMAIN requests
                                          /\ requests'[i] = requests[i + 1]
           /\ \A i \in DOMAIN requests : i # 1 => /\ i >= 1 /\ i - 1 \in DOMAIN requests'
                                                  /\ requests'[i - 1] = requests[i]
PROOF
<1>1. requests \in Seq(Messages)
  BY DEF TypesInv
<1>2. /\ Len(requests) \in Nat /\ Len(requests) >= 1 /\ DOMAIN requests = 1..Len(requests)
      /\ Tail(requests) \in Seq(Messages) /\ DOMAIN Tail(requests) = 1..(Len(requests) - 1)
      /\ \A i \in 1..(Len(requests) - 1) : Tail(requests)[i] = requests[i + 1]
      /\ Head(requests) = requests[1] /\ Head(requests) \in Messages
  BY <1>1, TailByIndex
<1> QED  BY <1>1, <1>2

\* Another message is sent
LEMMA SendByIndex ==
    ASSUME TypesInv, NEW m \in Messages, Send(m)
    PROVE  /\ requests' \in Seq(Messages)
           /\ DOMAIN requests \subseteq Nat /\ DOMAIN requests \subseteq DOMAIN requests'
           /\ \A i \in DOMAIN requests : requests'[i] = requests[i]
           /\ \E n \in DOMAIN requests' :
                /\ n \in Nat /\ n \notin DOMAIN requests /\ requests'[n] = m
                /\ DOMAIN requests' = DOMAIN requests \cup {n}
                /\ \A i \in DOMAIN requests : i < n
PROOF
<1>1. requests \in Seq(Messages)
  BY DEF TypesInv
<1>2. requests' = Append(requests, m)
  BY DEF Send
<1>3. /\ requests' \in Seq(Messages) /\ DOMAIN requests' = 1..(Len(requests) + 1)
      /\ \A i \in 1..Len(requests) : requests'[i] = requests[i]
      /\ requests'[Len(requests) + 1] = m
  BY <1>1, <1>2, SetOfAppend
<1>4. Len(requests) \in Nat /\ DOMAIN requests = 1..Len(requests)
  BY <1>1
<1>5. Len(requests) + 1 \in DOMAIN requests'
  BY <1>3, <1>4
<1> QED  BY <1>3, <1>4, <1>5

-----------------------------------------------------------------------------
\* No messages, no textures, no context
LEMMA InitSane ==
    ASSUME TexturesAssumption, TexturesInit
    PROVE  TextureInv
PROOF
<1> USE DEF TexturesInit
<1>1. State \in States
  <2>1. /\ freed \in SUBSET DOMAIN Files /\ place \in [Place -> TextureType \cup {Nil}]
        /\ haveTex \in BOOLEAN /\ object \in Seq(DOMAIN Files) /\ active \in 0..2
        /\ bound \in [Units -> Nat] /\ failure \in {"none", "null", "freed", "outside"}
    <3>1. object \in Seq(DOMAIN Files)
      OBVIOUS
    <3>2. place \in [Place -> TextureType \cup {Nil}]
      OBVIOUS
    <3>3. bound \in [Units -> Nat]
      OBVIOUS
    <3>4. freed \in SUBSET DOMAIN Files
      OBVIOUS
    <3>5. haveTex \in BOOLEAN
      OBVIOUS
    <3>6. active \in 0..2 /\ failure \in {"none", "null", "freed", "outside"}
      OBVIOUS
    <3> QED  BY <3>1, <3>2, <3>3, <3>4, <3>5, <3>6
  <2> QED  BY <2>1 DEF State, States
<1>2. Len(object) = 0 /\ \A u \in Units : bound[u] \in 0..Len(object)
  OBVIOUS
<1>3. \A p \in Place : place[p] = Nil
  OBVIOUS
<1>4. Sane(State)
  BY <1>1, <1>2, <1>3, StateFields DEF Sane
<1>5. DOMAIN requests = {} /\ requests \in Seq(Messages)
  OBVIOUS
<1>6. "image" \in Place
  BY DEF Place
<1>7. TypesInv
  BY <1>4, <1>5 DEF TypesInv
<1>8. OwnersInv
  BY <1>5 DEF OwnersInv, BuildAsked
<1>9. GivenInv /\ CareInv
  BY <1>3, <1>5 DEF GivenInv, CareInv, Waiting
<1>10. OrderInv /\ ImageInv /\ UploadsLive
  BY <1>3, <1>5, <1>6 DEF OrderInv, NothingSent, ImageInv, UploadsLive
<1> QED  BY <1>7, <1>8, <1>9, <1>10 DEF TextureInv

\* What changes neither textures nor messages
LEMMA QuietKeeps ==
    ASSUME TextureInv, Sane(State)', things' \in 1..2,
           UNCHANGED <<cast, freed, place, haveTex, setting, context, requests, object, wanted,
                       given, built, careless>>,
           failure' = failure \/ failure' = "outside"
    PROVE  TextureInv'
PROOF
<1> USE DEF TextureInv
<1>1. \A t : (Fresh(t)' <=> Fresh(t)) /\ (Given(t)' <=> Given(t)) /\ (Unshared(t)' <=> Unshared(t))
  BY SameFiles DEF Given, Unshared, Waiting
<1>2. Files' = Files /\ Messages' = Messages /\ \A i : Sent(i)' <=> Sent(i)
  BY SameFiles DEF Sent
<1>3. TypesInv'
  BY <1>1, <1>2 DEF TypesInv
<1>4. OwnersInv' /\ GivenInv' /\ OrderInv'
  <2>1. OwnersInv'
    BY DEF OwnersInv, BuildAsked
  <2>2. GivenInv'
    BY <1>1, <1>2 DEF GivenInv
  <2>3. OrderInv'
    BY <1>2 DEF OrderInv, NothingSent
  <2> QED  BY <2>1, <2>2, <2>3
<1>5. ImageInv' /\ UploadsLive'
  BY DEF ImageInv, UploadsLive
<1>6. CareInv'
  <2>1. \A p : Waiting(p)' <=> Waiting(p)
    BY DEF Waiting
  <2> QED  BY <1>1, <1>2, <2>1 DEF CareInv
<1> QED  BY <1>3, <1>4, <1>5, <1>6

\* legacy_add_positionable()
LEMMA AddPositionableKeeps ==
    ASSUME TextureInv, AddPositionable
    PROVE  TextureInv'
PROOF
<1>1. /\ things' \in 1..2 /\ failure' = failure
      /\ UNCHANGED <<cast, freed, place, haveTex, setting, context, requests, object, wanted,
                     given, built, careless, active, bound>>
  BY DEF AddPositionable
<1>2. Sane(State)
  BY DEF TextureInv, TypesInv
<1>3. Sane(State)' <=> Sane(State)
  BY <1>1, SameFiles DEF Sane, State
<1> QED  BY <1>1, <1>2, <1>3, QuietKeeps

\* Drawing binds what is at the places of a renderer, or crashes
LEMMA DrawKeeps ==
    ASSUME TexturesAssumption, TextureInv, NEW r, Draw(r)
    PROVE  TextureInv'
PROOF
<1>1. /\ r \in built /\ TypesInv /\ OwnersInv /\ Sane(State)
      /\ UNCHANGED <<cast, things, setting, context, requests, wanted, given, built, careless>>
  BY DEF TextureInv, TypesInv, Draw
<1>2. things' \in 1..2
  BY <1>1 DEF TypesInv
<1>3. CASE r = "model" /\ things > 1 /\ place["model"] # Nil
  <2> DEFINE n == [State EXCEPT !.failure = "outside"]
  <2>1. Become(n)
    BY <1>3 DEF Draw
  <2>2. /\ n \in States /\ n.place = place /\ n.object = object /\ n.bound = bound
        /\ n.freed = freed /\ n.haveTex = haveTex /\ n.failure = "outside"
    BY <1>1, StateFields DEF Sane, States
  <2> HIDE DEF n
  <2>3. Sane(n)
    BY <1>1, <2>2, StateFields DEF Sane
  <2>4. /\ Sane(State)' /\ freed' = freed /\ place' = place /\ haveTex' = haveTex
        /\ object' = object /\ failure' = "outside"
    BY <1>1, <2>1, <2>2, <2>3, BecomeSane
  <2> QED  BY <1>1, <1>2, <2>4, QuietKeeps
<1>4. CASE ~(r = "model" /\ things > 1 /\ place["model"] # Nil)
  <2> DEFINE n == Bound(r)
  <2>1. Become(n)
    BY <1>4 DEF Draw
  <2>2. /\ Sane(n) /\ n.freed = freed /\ n.place = place /\ n.haveTex = haveTex
        /\ n.object = object /\ n.failure = failure
    BY <1>1, BoundIsOwn
  <2> HIDE DEF n
  <2>3. /\ Sane(State)' /\ freed' = freed /\ place' = place /\ haveTex' = haveTex
        /\ object' = object /\ failure' = failure
    BY <1>1, <2>1, <2>2, BecomeSane
  <2> QED  BY <1>1, <1>2, <2>3, QuietKeeps
<1> QED  BY <1>3, <1>4
-----------------------------------------------------------------------------
\* The messages stay, and what was given away grows
LEMMA SameMessages ==
    ASSUME TexturesAssumption, TextureInv, cast' = cast, requests' = requests
    PROVE  /\ cast' \in Scenes /\ Files' = Files /\ Messages' = Messages
           /\ requests' \in Seq(Messages)
           /\ \A i : Sent(i)' <=> Sent(i)
           /\ NothingSent' <=> NothingSent
           /\ \A r : BuildAsked(r)' <=> BuildAsked(r)
PROOF
<1>1. cast \in Scenes /\ requests \in Seq(Messages)
  BY DEF TextureInv, TypesInv
<1> QED  BY <1>1, SameFiles DEF Sent, NothingSent, BuildAsked

\* The textures of new renderers fit their places, and with careful clients they
\* have one owner
LEMMA GiveKeeps ==
    ASSUME TexturesAssumption, TextureInv, failure = "none",
           NEW which, DOMAIN which \subseteq Place \ {"image"}, Give(which),
           \A p \in DOMAIN which : /\ which[p] \in DOMAIN Files
                                   /\ p = "sky" => Files[which[p]] # "data"
                                   /\ p # "sky" => Files[which[p]] # "cube",
           given \subseteq given', given' \subseteq DOMAIN Files, careless \subseteq careless',
           \A p \in DOMAIN which \ {"model"} : which[p] \in given',
           careless' = {} =>
             \A p \in DOMAIN which \ {"model"} :
               /\ which[p] \notin given
               /\ \A q \in DOMAIN which : q # p => which[q] # which[p]
    PROVE  TextureInv'
PROOF
<1> DEFINE W == DOMAIN which
<1>1. /\ \A p \in W : place[p] = Nil
      /\ place' = [p \in Place |-> IF p \in W THEN [Value[which[p]] EXCEPT !.unit = Unit[p]]
                                              ELSE place[p]]
      /\ UNCHANGED <<cast, freed, things, haveTex, setting, context, requests, object, active,
                     bound, failure, wanted, built>>
  BY DEF Give
<1>2. /\ TypesInv /\ OwnersInv /\ GivenInv /\ OrderInv /\ ImageInv /\ CareInv
      /\ Sane(State) /\ cast \in Scenes
  BY DEF TextureInv, TypesInv
<1>3. /\ cast' \in Scenes /\ Files' = Files /\ Messages' = Messages
      /\ requests' \in Seq(Messages)
      /\ \A i : Sent(i)' <=> Sent(i)
      /\ NothingSent' <=> NothingSent
      /\ \A r : BuildAsked(r)' <=> BuildAsked(r)
  BY <1>1, SameMessages
<1>4. ASSUME NEW p \in W
      PROVE  /\ place'[p] \in TextureType /\ place'[p] # Nil
             /\ place'[p].build = Files[which[p]] /\ ~place'[p].complete
             /\ place'[p].build = "data" => place'[p].upload = which[p]
             /\ \A objects : Fits(place'[p], p, objects)
  <2>1. p \in Place /\ which[p] \in DOMAIN Files
    OBVIOUS
  <2>2. place'[p] = [Value[which[p]] EXCEPT !.unit = Unit[p]]
    BY <1>1, <2>1
  <2>3. /\ place'[p] \in TextureType /\ place'[p] # Nil
        /\ place'[p].build = Files[which[p]] /\ place'[p].upload = Value[which[p]].upload
        /\ ~place'[p].complete /\ \A objects : Fits(place'[p], p, objects)
    BY <1>2, <2>1, <2>2, PlacedTypes
  <2>4. Value[which[p]].upload = (IF Files[which[p]] = "none" THEN 0 ELSE which[p])
    BY <1>2, <2>1, ValueTypes
  <2> QED  BY <2>3, <2>4
<1>5. \A p \in Place \ W : place'[p] = place[p]
  BY <1>1
<1>6. "image" \in Place \ W
  BY DEF Place
<1>7. Sane(State)'
  <2>1. /\ freed \subseteq DOMAIN Files /\ place \in [Place -> TextureType \cup {Nil}]
        /\ haveTex \in BOOLEAN /\ object \in Seq(DOMAIN Files) /\ active \in 0..2
        /\ bound \in [Units -> Nat] /\ failure \in {"none", "null", "freed", "outside"}
        /\ \A u \in Units : bound[u] \in 0..Len(object)
        /\ \A p \in Place : place[p] # Nil => Fits(place[p], p, object)
    BY <1>2, SaneFields, StateFields
  <2>2. place' \in [Place -> TextureType \cup {Nil}]
    <3>1. \A p \in Place : place'[p] \in TextureType \cup {Nil}
      BY <1>4, <1>5, <2>1
    <3>2. place' = [p \in Place |-> place'[p]]
      BY <1>1
    <3> QED  BY <3>1, <3>2
  <2>3. \A p \in Place : place'[p] # Nil => Fits(place'[p], p, object)
    BY <1>4, <1>5, <2>1
  <2> DEFINE n == [freed |-> freed, place |-> place', haveTex |-> haveTex, object |-> object,
                   active |-> active, bound |-> bound, failure |-> failure]
  <2>4. n \in States
    BY <2>1, <2>2 DEF States
  <2>5. Sane(n)
    BY <2>1, <2>3, <2>4 DEF Sane
  <2>6. State' = n
    BY <1>1 DEF State
  <2>7. States' = States /\ \A t, p, o : Fits(t, p, o)' <=> Fits(t, p, o)
    BY <1>1, SameFiles
  <2> HIDE DEF n
  <2> QED  BY <2>5, <2>6, <2>7 DEF Sane
<1>8. \A t : (Fresh(t)' <=> Fresh(t)) /\ (Given(t) => Given(t)')
  BY <1>1, SameFiles DEF Given
<1>9. TypesInv'
  BY <1>1, <1>2, <1>3, <1>7, <1>8 DEF TypesInv
<1>10. OwnersInv'
  <2>1. \A p \in Place : place[p] # Nil => place'[p] # Nil
    BY <1>4, <1>5
  <2>2. \A r \in {"sky", "map"} : PlacesOf[r] \subseteq Place
    BY DEF PlacesOf, Place
  <2> QED  BY <1>1, <1>2, <1>3, <1>6, <2>1, <2>2 DEF OwnersInv
<1>11. GivenInv'
  <2>1. \A p \in Place \ {"model"} : place'[p] # Nil => Given(place[p])'
    <3> TAKE p \in Place \ {"model"}
    <3> HAVE place'[p] # Nil
    <3>1. CASE p \in W
      BY <1>4, <3>1 DEF Given
    <3>2. CASE p \notin W
      BY <1>2, <1>5, <1>8, <3>2 DEF GivenInv
    <3> QED  BY <3>1, <3>2
  <2> QED  BY <1>1, <1>2, <1>3, <1>8, <2>1 DEF GivenInv
<1>12. OrderInv'
  BY <1>1, <1>2, <1>3, <1>5, <1>6 DEF OrderInv
<1>13. ImageInv'
  BY <1>1, <1>2, <1>5, <1>6 DEF ImageInv
<1>14. CareInv'
  <2> SUFFICES ASSUME careless' = {}
               PROVE  CareInv'
    BY DEF CareInv
  <2>1. careless = {}
    OBVIOUS
  <2>2. ASSUME NEW p \in Place, Waiting(p)'
        PROVE  /\ p \notin W => Waiting(p) /\ place'[p] = place[p]
               /\ p \in W => place'[p].upload = which[p] /\ which[p] \notin given /\ p # "model"
    <3>1. CASE p \in W
      <4>1. p # "model"
        BY <2>2 DEF Waiting
      <4> QED  BY <1>4, <2>2, <3>1, <4>1 DEF Waiting
    <3>2. CASE p \notin W
      BY <1>1, <1>5, <2>2, <3>2 DEF Waiting
    <3> QED  BY <3>1, <3>2
  <2>3. \A p \in Place : Waiting(p) => place[p].upload \in given
    BY <1>2 DEF Waiting, GivenInv, Given
  <2>4. \A t : Given(t) /\ Unshared(t) => Unshared(t)'
    <3> TAKE t
    <3> HAVE Given(t) /\ Unshared(t)
    <3>1. ASSUME t.build = "data", NEW p \in Place, Waiting(p)'
          PROVE  place'[p].upload # t.upload
      <4>1. t.upload \in given
        BY <3>1 DEF Given
      <4> QED  BY <2>2, <3>1, <4>1 DEF Unshared
    <3> QED  BY <1>1, <3>1 DEF Unshared
  <2>5. \A p \in Place : Waiting(p)' => place'[p].upload \notin freed
    <3>1. freed \subseteq given
      BY <1>2 DEF GivenInv
    <3> QED  BY <1>2, <2>1, <2>2, <3>1 DEF CareInv
  <2>6. \A p, q \in Place : Waiting(p)' /\ Waiting(q)' /\ place'[p].upload = place'[q].upload => p = q
    <3> SUFFICES ASSUME NEW p \in Place, NEW q \in Place, Waiting(p)', Waiting(q)',
                        place'[p].upload = place'[q].upload, p # q
                 PROVE  FALSE
      OBVIOUS
    <3>1. CASE p \in W /\ q \in W
      BY <2>2, <3>1
    <3>2. CASE p \in W /\ q \notin W
      BY <2>2, <2>3, <3>2
    <3>3. CASE p \notin W /\ q \in W
      BY <2>2, <2>3, <3>3
    <3>4. CASE p \notin W /\ q \notin W
      BY <1>2, <2>1, <2>2, <3>4 DEF CareInv
    <3> QED  BY <3>1, <3>2, <3>3, <3>4
  <2>7. setting # Nil => Unshared(setting)'
    BY <1>1, <1>2, <2>1, <2>4 DEF CareInv, GivenInv
  <2>8. \A i \in DOMAIN requests : Sent(i) => Unshared(requests[i].tex)'
    BY <1>1, <1>2, <2>1, <2>4 DEF CareInv, GivenInv
  <2> QED  BY <1>1, <1>2, <1>3, <2>1, <2>5, <2>6, <2>7, <2>8 DEF CareInv
<1>15. UploadsLive'
  BY <1>1 DEF UploadsLive
<1> QED  BY <1>9, <1>10, <1>11, <1>12, <1>13, <1>14, <1>15 DEF TextureInv

\* ilG_skybox_new()
LEMMA NewSkyboxKeeps ==
    ASSUME TexturesAssumption, TextureInv, failure = "none", NEW v \in DOMAIN Files, NewSkybox(v)
    PROVE  TextureInv'
PROOF
<1> DEFINE which == [p \in {"sky"} |-> v]
<1>1. Files[v] # "data" /\ Give(which) /\ given' = given \cup {v}
  BY DEF NewSkybox, GiveAway
<1>2. careless \subseteq careless' /\ (careless' = {} => v \notin given)
  BY DEF NewSkybox, GiveAway
<1>3. given \subseteq DOMAIN Files
  BY DEF TextureInv, TypesInv
<1>4. DOMAIN which = {"sky"} /\ which["sky"] = v
  OBVIOUS
<1>5. DOMAIN which \subseteq Place \ {"image"}
  BY <1>4 DEF Place
<1> HIDE DEF which
<1> QED  BY <1>1, <1>2, <1>3, <1>4, <1>5, GiveKeeps

\* ilG_renderer_addTexture(), whose textures are never built
LEMMA AddTextureKeeps ==
    ASSUME TexturesAssumption, TextureInv, failure = "none", NEW v \in DOMAIN Files, AddTexture(v)
    PROVE  TextureInv'
PROOF
<1> DEFINE which == [p \in {"model"} |-> v]
<1>1. Files[v] # "cube" /\ Give(which) /\ given' = given /\ careless' = careless
  BY DEF AddTexture
<1>3. given \subseteq DOMAIN Files
  BY DEF TextureInv, TypesInv
<1>4. DOMAIN which = {"model"} /\ which["model"] = v
  OBVIOUS
<1>5. DOMAIN which \subseteq Place \ {"image"}
  BY <1>4 DEF Place
<1> HIDE DEF which
<1> QED  BY <1>1, <1>3, <1>4, <1>5, GiveKeeps

\* Two are fewer than three
LEMMA FewerThanThree ==
    ASSUME NEW a, NEW b
    PROVE  Cardinality({a, b}) < 3
PROOF
<1>1. IsFiniteSet({b}) /\ Cardinality({b}) = 1
  BY FS_Singleton
<1>2. Cardinality({b} \cup {a}) = IF a \in {b} THEN Cardinality({b}) ELSE Cardinality({b}) + 1
  BY <1>1, FS_AddElement
<1>3. {b} \cup {a} = {a, b}
  OBVIOUS
<1> QED  BY <1>1, <1>2, <1>3

\* ilG_heightmap_new(), given three textures
LEMMA NewHeightmapKeeps ==
    ASSUME TexturesAssumption, TextureInv, failure = "none",
           NEW h \in DOMAIN Files, NEW n \in DOMAIN Files, NEW c \in DOMAIN Files,
           Files[h] # "cube", Files[n] # "cube", Files[c] # "cube", NewHeightmap(h, n, c)
    PROVE  TextureInv'
PROOF
<1> DEFINE which == [height |-> h, normal |-> n, color |-> c]
           vs == {h, n, c}
<1>1. Give(which) /\ given' = given \cup vs
  BY DEF NewHeightmap, GiveAway
<1>2. /\ careless \subseteq careless'
      /\ careless' = {} => ~(Cardinality(vs) < 3) /\ given \cap vs = {}
  BY DEF NewHeightmap, GiveAway
<1>3. given \subseteq DOMAIN Files
  BY DEF TextureInv, TypesInv
<1>4. /\ DOMAIN which = {"height", "normal", "color"}
      /\ which["height"] = h /\ which["normal"] = n /\ which["color"] = c
  OBVIOUS
<1>5. DOMAIN which \subseteq Place \ {"image"}
  BY <1>4 DEF Place
<1>6. careless' = {} => h # n /\ h # c /\ n # c
  <2>1. CASE h = n
    <3>1. vs = {n, c}
      BY <2>1
    <3> QED  BY <1>2, <3>1, FewerThanThree
  <2>2. CASE h = c
    <3>1. vs = {n, c}
      BY <2>2
    <3> QED  BY <1>2, <3>1, FewerThanThree
  <2>3. CASE n = c
    <3>1. vs = {h, c}
      BY <2>3
    <3> QED  BY <1>2, <3>1, FewerThanThree
  <2> QED  BY <2>1, <2>2, <2>3
<1> HIDE DEF which
<1>7. /\ given \subseteq given' /\ given' \subseteq DOMAIN Files
      /\ \A p \in DOMAIN which \ {"model"} : which[p] \in given'
  BY <1>1, <1>3, <1>4
<1>8. careless' = {} => \A p \in DOMAIN which \ {"model"} :
               /\ which[p] \notin given
               /\ \A q \in DOMAIN which : q # p => which[q] # which[p]
  BY <1>2, <1>4, <1>6
<1>9. \A p \in DOMAIN which : /\ which[p] \in DOMAIN Files
                              /\ p = "sky" => Files[which[p]] # "data"
                              /\ p # "sky" => Files[which[p]] # "cube"
  BY <1>4
<1> QED  BY <1>1, <1>2, <1>5, <1>7, <1>8, <1>9, GiveKeeps
-----------------------------------------------------------------------------
\* ilG_gui_frame_image_setTex(), up to where it copies the texture itself
LEMMA SetTexKeeps ==
    ASSUME TexturesAssumption, TextureInv, failure = "none", NEW v \in DOMAIN Files, SetTex(v)
    PROVE  TextureInv'
PROOF
<1>0. PICK t : t = Value[v]
  OBVIOUS
<1>1. /\ setting = Nil /\ Files[v] # "cube"
      /\ wanted' = t.upload /\ given' = given \cup {v}
      /\ UNCHANGED <<cast, freed, place, things, haveTex, context, object, active, bound, failure,
                     built>>
  BY <1>0 DEF SetTex, GiveAway
<1>2. careless \subseteq careless' /\ (careless' = {} => v \notin given)
  BY DEF SetTex, GiveAway
<1>3. /\ TypesInv /\ OwnersInv /\ GivenInv /\ OrderInv /\ ImageInv /\ CareInv
      /\ Sane(State) /\ cast \in Scenes /\ requests \in Seq(Messages)
  BY DEF TextureInv, TypesInv
<1>4. /\ t \in TextureType /\ t # Nil /\ t.build = Files[v]
      /\ t.upload = (IF Files[v] = "none" THEN 0 ELSE v)
      /\ t.target = (IF Files[v] = "cube" THEN "cube" ELSE "2D")
      /\ t.unit = 0 /\ ~t.complete
  BY <1>0, <1>3, ValueTypes
<1>5. Fresh(t)
  BY <1>1, <1>4 DEF Fresh, Fits, Unit, Face
<1>6. Sane(State)' <=> Sane(State)
  BY <1>1, SameFiles DEF Sane, State
<1>7. Files' = Files /\ Messages' = Messages /\ \A x : Fresh(x)' <=> Fresh(x)
  BY <1>1, SameFiles
<1>8. \A x : Given(x) => Given(x)'
  BY <1>1 DEF Given
<1>9. Given(t)'
  BY <1>1, <1>4 DEF Given
<1>10. \A p : Waiting(p)' <=> Waiting(p)
  BY <1>1 DEF Waiting
<1>11. \A x : Unshared(x)' <=> Unshared(x)
  BY <1>1, <1>10 DEF Unshared
<1>12. careless' = {} => Unshared(t)
  <2> SUFFICES ASSUME careless' = {}, t.build = "data"
               PROVE  t.upload \notin freed /\ \A p \in Place : Waiting(p) => place[p].upload # t.upload
    BY DEF Unshared
  <2>1. t.upload = v /\ v \notin given
    BY <1>2, <1>4
  <2>2. \A p \in Place : Waiting(p) => place[p].upload \in given
    BY <1>3 DEF Waiting, GivenInv, Given
  <2>3. freed \subseteq given
    BY <1>3 DEF GivenInv
  <2> QED  BY <2>1, <2>2, <2>3
<1>13. UploadsLive' /\ ImageInv'
  <2>1. UploadsLive'
    BY <1>1 DEF UploadsLive
  <2>2. ImageInv'
    BY <1>1, <1>2, <1>3 DEF ImageInv
  <2> QED  BY <2>1, <2>2
<1>14. cast' \in Scenes /\ given' \subseteq DOMAIN Files /\ Sane(State)'
  BY <1>1, <1>3, <1>6 DEF TypesInv
<1>15. CASE "image" \in context
  <2> DEFINE m == [type |-> "tex", tex |-> t]
  <2>1. Send(m) /\ setting' = setting
    BY <1>0, <1>15 DEF SetTex
  <2>2. m \in Messages /\ m.type = "tex" /\ m.tex = t
    BY <1>4 DEF Messages
  <2> HIDE DEF m
  <2>3. PICK n \in DOMAIN requests' :
          /\ n \in Nat /\ n \notin DOMAIN requests /\ requests'[n] = m
          /\ DOMAIN requests' = DOMAIN requests \cup {n}
          /\ \A i \in DOMAIN requests : i < n
    BY <1>3, <2>1, <2>2, SendByIndex
  <2>4. /\ requests' \in Seq(Messages) /\ DOMAIN requests \subseteq Nat
        /\ \A i \in DOMAIN requests : requests'[i] = requests[i]
    BY <1>3, <2>1, <2>2, SendByIndex
  <2>5. Sent(n)' /\ requests'[n].tex = t
    BY <2>2, <2>3 DEF Sent
  <2>6. \A i \in DOMAIN requests : Sent(i)' <=> Sent(i)
    BY <2>3, <2>4 DEF Sent
  <2>7. TypesInv'
    <3>1. \A i \in DOMAIN requests' : Sent(i)' => Fresh(requests'[i].tex)
      BY <1>3, <1>5, <2>3, <2>4, <2>5, <2>6 DEF TypesInv
    <3> QED  BY <1>1, <1>3, <1>7, <1>14, <2>1, <2>4, <3>1 DEF TypesInv
  <2>8. OwnersInv'
    <3>1. \A r : BuildAsked(r)' => BuildAsked(r)
      <4> TAKE r
      <4> HAVE BuildAsked(r)'
      <4>1. PICK i \in DOMAIN requests' : requests'[i].type = "build" /\ requests'[i].renderer = r
        BY DEF BuildAsked
      <4>2. i # n
        BY <2>2, <2>3, <4>1
      <4> QED  BY <2>3, <2>4, <4>1, <4>2 DEF BuildAsked
    <3> QED  BY <1>1, <1>3, <3>1 DEF OwnersInv
  <2>9. GivenInv'
    <3>1. \A i \in DOMAIN requests : Sent(i) => Given(requests[i].tex)'
      BY <1>3, <1>8, <2>4 DEF GivenInv
    <3>2. \A i \in DOMAIN requests' : Sent(i)' => Given(requests[i].tex)'
      <4> TAKE i \in DOMAIN requests'
      <4>1. CASE i = n
        BY <1>9, <2>5, <4>1 DEF Given
      <4>2. CASE i \in DOMAIN requests
        BY <2>4, <2>6, <3>1, <4>2 DEF Given
      <4> QED  BY <2>3, <4>1, <4>2
    <3>3. \A p \in Place \ {"model"} : place[p] # Nil => Given(place[p])'
      BY <1>1, <1>3, <1>8 DEF GivenInv
    <3>4. freed \subseteq given'
      BY <1>1, <1>3 DEF GivenInv
    <3> QED  BY <1>1, <2>1, <3>2, <3>3, <3>4 DEF GivenInv
  <2>10. OrderInv'
    <3>1. ~NothingSent'
      BY <2>5 DEF NothingSent
    <3>2. ASSUME NEW i \in DOMAIN requests', Sent(i)',
                 \A j \in DOMAIN requests' : j > i => ~Sent(j)'
          PROVE  requests'[i].tex.upload = wanted'
      <4>1. i = n
        BY <2>3, <2>4, <2>5, <3>2
      <4> QED  BY <1>1, <2>5, <4>1
    <3> QED  BY <1>1, <1>15, <2>1, <3>1, <3>2 DEF OrderInv
  <2>11. CareInv'
    <3> SUFFICES ASSUME careless' = {}
                 PROVE  CareInv'
      BY DEF CareInv
    <3>1. careless = {} /\ v \notin given
      BY <1>2
    <3>2. \A i \in DOMAIN requests' : Sent(i)' => Unshared(requests'[i].tex)
      BY <1>3, <1>12, <2>3, <2>4, <2>5, <2>6, <3>1 DEF CareInv
    <3>3. \A i \in DOMAIN requests : Sent(i) /\ requests[i].tex.build = "data" => requests[i].tex.upload \in given
      BY <1>3 DEF GivenInv, Given
    <3>4. t.build = "data" => t.upload = v
      BY <1>4
    <3>5. ASSUME NEW i \in DOMAIN requests', NEW j \in DOMAIN requests', Sent(i)', Sent(j)', i # j,
                 requests'[i].tex.build = "data", requests'[j].tex.build = "data"
          PROVE  requests'[i].tex.upload # requests'[j].tex.upload
      <4>1. CASE i = n
        <5>1. j \in DOMAIN requests /\ Sent(j)
          BY <2>3, <2>6, <3>5, <4>1
        <5> QED  BY <2>4, <2>5, <3>1, <3>3, <3>4, <3>5, <4>1, <5>1
      <4>2. CASE j = n
        <5>1. i \in DOMAIN requests /\ Sent(i)
          BY <2>3, <2>6, <3>5, <4>2
        <5> QED  BY <2>4, <2>5, <3>1, <3>3, <3>4, <3>5, <4>2, <5>1
      <4>3. CASE i # n /\ j # n
        <5>1. i \in DOMAIN requests /\ Sent(i) /\ j \in DOMAIN requests /\ Sent(j)
          BY <2>3, <2>6, <3>5, <4>3
        <5> QED  BY <1>3, <2>4, <3>1, <3>5, <5>1, failure = "none" DEF CareInv
      <4> QED  BY <4>1, <4>2, <4>3
    <3>6. /\ haveTex /\ "image" \notin built => "image" \notin context
          /\ \A p \in Place : Waiting(p) => place[p].upload \notin freed
          /\ \A p, q \in Place : Waiting(p) /\ Waiting(q) /\ place[p].upload = place[q].upload => p = q
      BY <1>3, <3>1 DEF CareInv
    <3> QED  BY <1>1, <1>10, <1>11, <2>1, <3>2, <3>5, <3>6 DEF CareInv
  <2> QED  BY <1>13, <2>7, <2>8, <2>9, <2>10, <2>11 DEF TextureInv
<1>16. CASE "image" \notin context
  <2>1. setting' = t /\ requests' = requests
    BY <1>0, <1>16 DEF SetTex
  <2>2. NothingSent /\ \A i \in DOMAIN requests : ~Sent(i)
    BY <1>3, <1>16 DEF OrderInv, NothingSent
  <2>3. \A i : Sent(i)' <=> Sent(i)
    BY <2>1 DEF Sent
  <2>4. NothingSent' /\ \A i \in DOMAIN requests' : ~Sent(i)'
    BY <2>1, <2>2, <2>3 DEF NothingSent
  <2>5. TypesInv'
    BY <1>1, <1>3, <1>5, <1>7, <1>14, <2>1, <2>4 DEF TypesInv
  <2>6. OwnersInv'
    BY <1>1, <1>3, <2>1 DEF OwnersInv, BuildAsked
  <2>7. GivenInv'
    <3>1. \A p \in Place \ {"model"} : place[p] # Nil => Given(place[p])'
      BY <1>1, <1>3, <1>8 DEF GivenInv
    <3>2. freed \subseteq given'
      BY <1>1, <1>3 DEF GivenInv
    <3>3. Given(setting)'
      BY <1>9, <2>1 DEF Given
    <3> QED  BY <1>1, <2>1, <2>4, <3>1, <3>2, <3>3 DEF GivenInv
  <2>8. OrderInv'
    BY <1>1, <1>4, <2>1, <2>4 DEF OrderInv
  <2>9. CareInv'
    <3> SUFFICES ASSUME careless' = {}
                 PROVE  CareInv'
      BY DEF CareInv
    <3>1. careless = {}
      BY <1>2
    <3>2. Unshared(setting)'
      BY <1>11, <1>12, <2>1
    <3>3. /\ haveTex /\ "image" \notin built => "image" \notin context
          /\ \A p \in Place : Waiting(p) => place[p].upload \notin freed
          /\ \A p, q \in Place : Waiting(p) /\ Waiting(q) /\ place[p].upload = place[q].upload => p = q
      BY <1>3, <3>1 DEF CareInv
    <3> QED  BY <1>1, <1>10, <2>4, <3>2, <3>3 DEF CareInv
  <2> QED  BY <1>13, <2>5, <2>6, <2>7, <2>8, <2>9 DEF TextureInv
<1> QED  BY <1>15, <1>16
\* The texture that is set in place of another fits, and is not complete yet
LEMMA ReplaceKeeps ==
    ASSUME TexturesAssumption, cast \in Scenes, Sane(State), NEW t, Fresh(t),
           NEW n, n = [State EXCEPT !.place["image"] = t]
                  \/ n = [State EXCEPT !.place["image"] = t, !.haveTex = TRUE]
    PROVE  /\ Sane(n) /\ n.freed = freed /\ n.failure = failure
           /\ n.place = [place EXCEPT !["image"] = t] /\ t # Nil
           /\ n = [State EXCEPT !.place["image"] = t] => n.haveTex = haveTex
           /\ n = [State EXCEPT !.place["image"] = t, !.haveTex = TRUE] => n.haveTex
PROOF
<1> DEFINE q == [place EXCEPT !["image"] = t]
           m == [freed |-> freed, place |-> q, haveTex |-> haveTex, object |-> object,
                 active |-> active, bound |-> bound, failure |-> failure]
           k == [m EXCEPT !.haveTex = TRUE]
<1>1. /\ freed \subseteq DOMAIN Files /\ place \in [Place -> TextureType \cup {Nil}]
      /\ haveTex \in BOOLEAN /\ object \in Seq(DOMAIN Files) /\ active \in 0..2
      /\ bound \in [Units -> Nat] /\ failure \in {"none", "null", "freed", "outside"}
      /\ \A u \in Units : bound[u] \in 0..Len(object)
      /\ \A p \in Place : place[p] # Nil => Fits(place[p], p, object)
  BY SaneFields, StateFields
<1>2. t \in TextureType /\ ~t.complete /\ Fits(t, "image", object) /\ t # Nil
  <2>1. t \in TextureType /\ Fits(t, "image", <<>>)
    BY DEF Fresh
  <2>2. ~t.complete
    BY <2>1 DEF Fits
  <2> QED  BY <2>1, <2>2, TextureIsNotNil DEF Fits
<1>3. "image" \in Place
  BY DEF Place
<1>4. /\ q \in [Place -> TextureType \cup {Nil}]
      /\ q["image"] = t /\ \A p \in Place \ {"image"} : q[p] = place[p]
  BY <1>1, <1>2, <1>3
<1>5. [State EXCEPT !.place["image"] = t] = m
  BY DEF State
<1>6. [State EXCEPT !.place["image"] = t, !.haveTex = TRUE] = k
  <2>1. [State EXCEPT !.place["image"] = t, !.haveTex = TRUE]
          = [[State EXCEPT !.place["image"] = t] EXCEPT !.haveTex = TRUE]
    BY DEF State
  <2> QED  BY <1>5, <2>1
<1> HIDE DEF q
<1>7. /\ m \in States /\ m.freed = freed /\ m.place = q /\ m.object = object
      /\ m.bound = bound /\ m.failure = failure /\ m.haveTex = haveTex
  BY <1>1, <1>4 DEF States
<1> HIDE DEF m
<1>8. /\ k \in States /\ k.freed = freed /\ k.place = q /\ k.object = object
      /\ k.bound = bound /\ k.failure = failure /\ k.haveTex
  BY <1>7 DEF States
<1> HIDE DEF k
<1>9. Sane(m) /\ Sane(k)
  BY <1>1, <1>2, <1>4, <1>7, <1>8 DEF Sane
<1>10. n = m \/ n = k
  BY <1>5, <1>6
<1>11. CASE n = m
  BY <1>2, <1>5, <1>6, <1>7, <1>8, <1>9, <1>11 DEF q
<1>12. CASE n = k
  BY <1>2, <1>5, <1>6, <1>7, <1>8, <1>9, <1>12 DEF q
<1> QED  BY <1>10, <1>11, <1>12

\* ilG_gui_frame_image_setTex(), where it copies the texture itself
LEMMA SetTexDirectKeeps ==
    ASSUME TexturesAssumption, TextureInv, failure = "none", SetTexDirect
    PROVE  TextureInv'
PROOF
<1>0. PICK t : t = setting
  OBVIOUS
<1>1. /\ t # Nil /\ setting' = Nil
      /\ UNCHANGED <<cast, things, context, requests, wanted, given, built>>
      /\ careless' = IF "image" \in context THEN careless \cup {"late"} ELSE careless
  BY <1>0 DEF SetTexDirect, Careless
<1>2. /\ TypesInv /\ OwnersInv /\ GivenInv /\ OrderInv /\ ImageInv /\ CareInv
      /\ Sane(State) /\ cast \in Scenes /\ built \subseteq context
  BY DEF TextureInv, TypesInv
<1>3. Fresh(t) /\ Given(t) /\ t.upload = wanted /\ NothingSent
  BY <1>0, <1>1, <1>2 DEF TypesInv, GivenInv, OrderInv
<1>n. PICK n : n = [State EXCEPT !.place["image"] = t, !.haveTex = TRUE]
  OBVIOUS
<1>4. /\ Sane(n) /\ n.freed = freed /\ n.haveTex /\ n.failure = failure
      /\ \A q \in Place \ {"image"} : n.place[q] = place[q]
      /\ n.place["image"] = t /\ t # Nil
  <2>1. n.haveTex
    BY <1>2, <1>3, <1>n, ReplaceKeeps
  <2>2. Sane(n)
    BY <1>2, <1>3, <1>n, ReplaceKeeps
  <2>3. n.freed = freed /\ n.failure = failure
    BY <1>2, <1>3, <1>n, ReplaceKeeps
  <2>4. n.place = [place EXCEPT !["image"] = t]
    BY <1>2, <1>3, <1>n, ReplaceKeeps
  <2>5. place \in [Place -> TextureType \cup {Nil}] /\ "image" \in Place
    BY <1>2, SaneFields, StateFields DEF Place
  <2> QED  BY <1>1, <2>1, <2>2, <2>3, <2>4, <2>5
<1>5. Become(n)
  BY <1>0, <1>n DEF SetTexDirect
<1>6. /\ Sane(State)' /\ freed' = freed /\ haveTex' /\ failure' = failure
      /\ \A q \in Place \ {"image"} : place'[q] = place[q]
      /\ place'["image"] = t
  BY <1>1, <1>4, <1>5, BecomeSane
<1>7. /\ cast' \in Scenes /\ Files' = Files /\ Messages' = Messages
      /\ requests' \in Seq(Messages)
      /\ \A i : Sent(i)' <=> Sent(i)
      /\ NothingSent' <=> NothingSent
      /\ \A r : BuildAsked(r)' <=> BuildAsked(r)
  BY <1>1, SameMessages
<1>8. \A i \in DOMAIN requests : ~Sent(i)
  BY <1>3 DEF NothingSent
<1>9. \A x : Given(x)' <=> Given(x)
  BY <1>1 DEF Given
<1>10. TypesInv'
  BY <1>1, <1>2, <1>6, <1>7, <1>8 DEF TypesInv
<1>11. OwnersInv'
  <2>1. \A p \in Place : place[p] # Nil => place'[p] # Nil
    BY <1>4, <1>6
  <2>2. \A r \in {"sky", "map"} : PlacesOf[r] \subseteq Place
    BY DEF PlacesOf, Place
  <2> QED  BY <1>1, <1>2, <1>4, <1>6, <1>7, <2>1, <2>2 DEF OwnersInv
<1>12. GivenInv'
  <2>1. ASSUME NEW p \in Place \ {"model"}, place'[p] # Nil
        PROVE  Given(place[p])'
    <3>1. CASE p = "image"
      BY <1>3, <1>6, <1>9, <3>1
    <3>2. CASE p # "image"
      BY <1>2, <1>6, <1>9, <2>1, <3>2 DEF GivenInv
    <3> QED  BY <3>1, <3>2
  <2> QED  BY <1>1, <1>2, <1>6, <1>7, <1>8, <2>1 DEF GivenInv
<1>13. OrderInv'
  BY <1>1, <1>3, <1>4, <1>6, <1>7, <1>8 DEF OrderInv
<1>14. ImageInv'
  BY <1>1, <1>2, <1>6 DEF ImageInv
<1>15. UploadsLive'
  BY <1>6 DEF UploadsLive
<1>16. CareInv'
  <2> SUFFICES ASSUME careless' = {}
               PROVE  CareInv'
    BY DEF CareInv
  <2>1. careless = {} /\ "image" \notin context
    BY <1>1
  <2>2. Unshared(t)
    BY <1>0, <1>1, <1>2, <2>1, failure = "none" DEF CareInv
  <2>3. \A p \in Place \ {"image"} : Waiting(p)' <=> Waiting(p)
    BY <1>1, <1>6 DEF Waiting
  <2>4. Waiting("image")' => t.build = "data"
    BY <1>6 DEF Waiting
  <2>5. \A p \in Place : Waiting(p)' => place'[p].upload \notin freed
    <3> TAKE p \in Place
    <3>1. CASE p = "image"
      BY <1>6, <2>2, <2>4, <3>1 DEF Unshared
    <3>2. CASE p # "image"
      BY <1>2, <1>6, <2>1, <2>3, <3>2, failure = "none" DEF CareInv
    <3> QED  BY <3>1, <3>2
  <2>6. ASSUME NEW p \in Place, NEW q \in Place, Waiting(p)', Waiting(q)', p # q
        PROVE  place'[p].upload # place'[q].upload
    <3>1. CASE p = "image"
      BY <1>6, <2>2, <2>3, <2>4, <2>6, <3>1 DEF Unshared
    <3>2. CASE q = "image"
      BY <1>6, <2>2, <2>3, <2>4, <2>6, <3>2 DEF Unshared
    <3>3. CASE p # "image" /\ q # "image"
      BY <1>2, <1>6, <2>1, <2>3, <2>6, <3>3, failure = "none" DEF CareInv
    <3> QED  BY <3>1, <3>2, <3>3
  <2> QED  BY <1>1, <1>6, <1>7, <1>8, <2>1, <2>5, <2>6 DEF CareInv
<1> QED  BY <1>10, <1>11, <1>12, <1>13, <1>14, <1>15, <1>16 DEF TextureInv

\* A script sets the context
LEMMA SetContextKeeps ==
    ASSUME TexturesAssumption, TextureInv, failure = "none", SetContext
    PROVE  TextureInv'
PROOF
<1>1. /\ "image" \notin context /\ context' = context \cup {"image"}
      /\ careless' = IF haveTex THEN careless \cup {"late"} ELSE careless
      /\ UNCHANGED <<cast, freed, place, things, haveTex, setting, requests, object, active, bound,
                     failure, wanted, given, built>>
  BY DEF SetContext, Careless
<1>2. /\ TypesInv /\ OwnersInv /\ GivenInv /\ OrderInv /\ ImageInv /\ CareInv
      /\ Sane(State) /\ cast \in Scenes
  BY DEF TextureInv, TypesInv
<1>3. /\ cast' \in Scenes /\ Files' = Files /\ Messages' = Messages
      /\ requests' \in Seq(Messages)
      /\ \A i : Sent(i)' <=> Sent(i)
      /\ NothingSent' <=> NothingSent
      /\ \A r : BuildAsked(r)' <=> BuildAsked(r)
  BY <1>1, SameMessages
<1>4. \A t : (Fresh(t)' <=> Fresh(t)) /\ (Given(t)' <=> Given(t)) /\ (Unshared(t)' <=> Unshared(t))
  BY <1>1, SameFiles DEF Given, Unshared, Waiting
<1>5. Sane(State)' <=> Sane(State)
  BY <1>1, SameFiles DEF Sane, State
<1>6. context' \subseteq Renderer /\ built' \subseteq context'
  BY <1>1, <1>2 DEF TypesInv, Renderer
<1>7. TypesInv'
  BY <1>1, <1>2, <1>3, <1>4, <1>5, <1>6 DEF TypesInv
<1>8. OwnersInv'
  BY <1>1, <1>2, <1>3 DEF OwnersInv
<1>9. GivenInv'
  BY <1>1, <1>2, <1>3, <1>4 DEF GivenInv
<1>10. OrderInv'
  BY <1>1, <1>2, <1>3 DEF OrderInv
<1>11. ImageInv' /\ UploadsLive'
  BY <1>1, <1>2 DEF ImageInv, UploadsLive
<1>12. CareInv'
  <2>1. \A p : Waiting(p)' <=> Waiting(p)
    BY <1>1 DEF Waiting
  <2> SUFFICES ASSUME careless' = {}
               PROVE  CareInv'
    BY DEF CareInv
  <2>2. careless = {} /\ ~haveTex
    BY <1>1
  <2> QED  BY <1>1, <1>2, <1>3, <1>4, <2>1, <2>2 DEF CareInv
<1> QED  BY <1>7, <1>8, <1>9, <1>10, <1>11, <1>12 DEF TextureInv

\* ilG_renderer_build()
LEMMA RequestBuildKeeps ==
    ASSUME TexturesAssumption, TextureInv, failure = "none", NEW r \in Renderer, RequestBuild(r)
    PROVE  TextureInv'
PROOF
<1> DEFINE m == [type |-> "build", renderer |-> r]
<1>1. /\ r \in {"image", "model"} \/ \A p \in PlacesOf[r] : place[p] # Nil
      /\ Send(m)
      /\ UNCHANGED <<cast, freed, place, things, haveTex, setting, context, object, active, bound,
                     failure, wanted, given, built, careless>>
  BY DEF RequestBuild
<1>2. m \in Messages /\ m.type = "build" /\ m.renderer = r
  BY DEF Messages
<1> HIDE DEF m
<1>3. /\ TypesInv /\ OwnersInv /\ GivenInv /\ OrderInv /\ ImageInv /\ CareInv
      /\ Sane(State) /\ cast \in Scenes
  BY DEF TextureInv, TypesInv
<1>4. PICK n \in DOMAIN requests' :
        /\ n \in Nat /\ n \notin DOMAIN requests /\ requests'[n] = m
        /\ DOMAIN requests' = DOMAIN requests \cup {n}
        /\ \A i \in DOMAIN requests : i < n
  BY <1>1, <1>2, <1>3, SendByIndex
<1>5. /\ requests' \in Seq(Messages) /\ DOMAIN requests \subseteq Nat
      /\ \A i \in DOMAIN requests : requests'[i] = requests[i]
  BY <1>1, <1>2, <1>3, SendByIndex
<1>6. ~Sent(n)' /\ \A i \in DOMAIN requests : Sent(i)' <=> Sent(i)
  BY <1>2, <1>4, <1>5 DEF Sent
<1>7. \A i \in DOMAIN requests' : Sent(i)' => i \in DOMAIN requests /\ Sent(i) /\ requests'[i] = requests[i]
  BY <1>4, <1>5, <1>6
<1>8. NothingSent' <=> NothingSent
  BY <1>4, <1>6, <1>7 DEF NothingSent
<1>9. Files' = Files /\ Messages' = Messages /\ (Sane(State)' <=> Sane(State))
  BY <1>1, SameFiles DEF Sane, State
<1>10. \A t : (Fresh(t)' <=> Fresh(t)) /\ (Given(t)' <=> Given(t)) /\ (Unshared(t)' <=> Unshared(t))
  BY <1>1, SameFiles DEF Given, Unshared, Waiting
<1>11. TypesInv'
  BY <1>1, <1>3, <1>5, <1>7, <1>9, <1>10 DEF TypesInv
<1>12. OwnersInv'
  <2>1. \A s : BuildAsked(s)' => BuildAsked(s) \/ s = r
    <3> TAKE s
    <3> HAVE BuildAsked(s)'
    <3>1. PICK i \in DOMAIN requests' : requests'[i].type = "build" /\ requests'[i].renderer = s
      BY DEF BuildAsked
    <3>2. CASE i = n
      BY <1>2, <1>4, <3>1, <3>2
    <3>3. CASE i \in DOMAIN requests
      BY <1>5, <3>1, <3>3 DEF BuildAsked
    <3> QED  BY <1>4, <3>2, <3>3
  <2> QED  BY <1>1, <1>3, <2>1 DEF OwnersInv
<1>13. GivenInv'
  <2>1. \A i \in DOMAIN requests' : Sent(i)' => Given(requests[i].tex)'
    BY <1>3, <1>7, <1>10 DEF GivenInv
  <2> QED  BY <1>1, <1>3, <1>10, <2>1 DEF GivenInv
<1>14. OrderInv'
  <2>1. ASSUME NEW i \in DOMAIN requests', Sent(i)',
               \A j \in DOMAIN requests' : j > i => ~Sent(j)'
        PROVE  requests'[i].tex.upload = wanted'
    <3>1. \A j \in DOMAIN requests : j > i => ~Sent(j)
      BY <1>4, <1>6, <2>1
    <3> QED  BY <1>1, <1>3, <1>7, <2>1, <3>1 DEF OrderInv
  <2> QED  BY <1>1, <1>3, <1>8, <2>1 DEF OrderInv
<1>15. ImageInv' /\ UploadsLive'
  BY <1>1, <1>3 DEF ImageInv, UploadsLive
<1>16. CareInv'
  <2> SUFFICES ASSUME careless' = {}
               PROVE  CareInv'
    BY DEF CareInv
  <2>1. \A p : Waiting(p)' <=> Waiting(p)
    BY <1>1 DEF Waiting
  <2>2. /\ haveTex /\ "image" \notin built => "image" \notin context
        /\ \A p \in Place : Waiting(p) => place[p].upload \notin freed
        /\ \A p, q \in Place : Waiting(p) /\ Waiting(q) /\ place[p].upload = place[q].upload => p = q
        /\ setting # Nil => Unshared(setting)
        /\ \A i \in DOMAIN requests : Sent(i) => Unshared(requests[i].tex)
        /\ \A i, j \in DOMAIN requests :
             /\ Sent(i) /\ Sent(j) /\ i # j
             /\ requests[i].tex.build = "data" /\ requests[j].tex.build = "data"
             => requests[i].tex.upload # requests[j].tex.upload
    BY <1>1, <1>3, failure = "none" DEF CareInv
  <2>3. \A i \in DOMAIN requests' : Sent(i)' => Unshared(requests[i].tex)'
    BY <1>7, <1>10, <2>2
  <2> QED  BY <1>1, <1>7, <1>10, <2>1, <2>2, <2>3 DEF CareInv
<1> QED  BY <1>11, <1>12, <1>13, <1>14, <1>15, <1>16 DEF TextureInv
-----------------------------------------------------------------------------
\* The places whose textures are built with a renderer
BuiltWith(r) == IF r \in {"sky", "map"} THEN PlacesOf[r]
                ELSE IF r = "image" /\ haveTex THEN {"image"} ELSE {}

\* What building the textures at places P makes of state s
AllBuild(s, n, P) ==
    /\ Sane(n) /\ n.haveTex = s.haveTex
    /\ \A q \in Place \ P : n.place[q] = s.place[q]
    /\ \A p \in P : /\ n.place[p] # Nil /\ n.place[p].upload = s.place[p].upload
                    /\ n.place[p].build = s.place[p].build
                    /\ n.failure = "none" => n.place[p].complete
    /\ s.freed \subseteq n.freed
    /\ \A u \in n.freed : u \in s.freed \/ \E p \in P : s.place[p].build = "data" /\ s.place[p].upload = u
    /\ n.failure = "freed" =>
         \E p \in P : /\ s.place[p].build = "data"
                      /\ \/ s.place[p].upload \in s.freed
                         \/ \E q \in P \ {p} : s.place[q].build = "data" /\ s.place[q].upload = s.place[p].upload

\* One texture is built
LEMMA OneBuilds ==
    ASSUME NEW s, NEW n, NEW p \in Place, s.failure = "none", Builds(s, n, p)
    PROVE  AllBuild(s, n, {p})
PROOF
BY DEF Builds, AllBuild

\* The three of a heightmap, one after the other
LEMMA ThreeBuild ==
    ASSUME TexturesAssumption, cast \in Scenes, NEW s, Sane(s), s.failure = "none",
           s.place["height"] # Nil, s.place["normal"] # Nil, s.place["color"] # Nil
    PROVE  AllBuild(s, TexBuild(TexBuild(TexBuild(s, "height"), "normal"), "color"),
                    {"height", "normal", "color"})
PROOF
<1>1. /\ "height" \in Place \ {"model"} /\ "normal" \in Place \ {"model"}
      /\ "color" \in Place \ {"model"}
  BY DEF Place
<1>2. PICK s1 : s1 = TexBuild(s, "height")
  OBVIOUS
<1>3. PICK s2 : s2 = TexBuild(s1, "normal")
  OBVIOUS
<1>4. PICK s3 : s3 = TexBuild(s2, "color")
  OBVIOUS
<1>5. Builds(s, s1, "height")
  BY <1>1, <1>2, TexBuildBuilds
<1>6. Sane(s1) /\ s1.place["normal"] = s.place["normal"] /\ s1.place["color"] = s.place["color"]
  BY <1>1, <1>5 DEF Builds
<1>7. Builds(s1, s2, "normal")
  BY <1>1, <1>3, <1>6, TexBuildBuilds
<1>8. Sane(s2) /\ s2.place["color"] = s.place["color"]
  BY <1>1, <1>6, <1>7 DEF Builds
<1>9. Builds(s2, s3, "color")
  BY <1>1, <1>4, <1>8, TexBuildBuilds
<1> DEFINE P == {"height", "normal", "color"}
<1>10. /\ Sane(s3) /\ s3.haveTex = s.haveTex
       /\ \A q \in Place \ P : s3.place[q] = s.place[q]
  BY <1>5, <1>7, <1>9 DEF Builds
<1>11. \A p \in P : /\ s3.place[p] # Nil /\ s3.place[p].upload = s.place[p].upload
                    /\ s3.place[p].build = s.place[p].build
                    /\ s3.failure = "none" => s3.place[p].complete
  <2>1. s3.place["height"] = s2.place["height"] /\ s2.place["height"] = s1.place["height"]
    BY <1>1, <1>7, <1>9 DEF Builds
  <2>2. s3.place["normal"] = s2.place["normal"]
    BY <1>1, <1>9 DEF Builds
  <2>3. s3.failure = "none" => s2.failure = "none" /\ s1.failure = "none"
    BY <1>7, <1>9 DEF Builds
  <2>4. /\ s1.place["height"] # Nil /\ s1.place["height"].upload = s.place["height"].upload
        /\ s1.place["height"].build = s.place["height"].build
        /\ s1.failure = "none" => s1.place["height"].complete
    BY <1>5 DEF Builds
  <2>5. /\ s2.place["normal"] # Nil /\ s2.place["normal"].upload = s.place["normal"].upload
        /\ s2.place["normal"].build = s.place["normal"].build
        /\ s2.failure = "none" => s2.place["normal"].complete
    BY <1>6, <1>7 DEF Builds
  <2>6. /\ s3.place["color"] # Nil /\ s3.place["color"].upload = s.place["color"].upload
        /\ s3.place["color"].build = s.place["color"].build
        /\ s3.failure = "none" => s3.place["color"].complete
    BY <1>8, <1>9 DEF Builds
  <2> QED  BY <2>1, <2>2, <2>3, <2>4, <2>5, <2>6
<1>12. /\ s.freed \subseteq s3.freed
       /\ \A u \in s3.freed : u \in s.freed \/ \E p \in P : s.place[p].build = "data" /\ s.place[p].upload = u
  <2>1. s1.freed = s.freed \/ (s.place["height"].build = "data"
                               /\ s1.freed = s.freed \cup {s.place["height"].upload})
    BY <1>5 DEF Builds
  <2>2. s2.freed = s1.freed \/ (s.place["normal"].build = "data"
                                /\ s2.freed = s1.freed \cup {s.place["normal"].upload})
    BY <1>6, <1>7 DEF Builds
  <2>3. s3.freed = s2.freed \/ (s.place["color"].build = "data"
                                /\ s3.freed = s2.freed \cup {s.place["color"].upload})
    BY <1>8, <1>9 DEF Builds
  <2> QED  BY <2>1, <2>2, <2>3
<1>13. s3.failure = "freed" =>
         \E p \in P : /\ s.place[p].build = "data"
                      /\ \/ s.place[p].upload \in s.freed
                         \/ \E q \in P \ {p} : s.place[q].build = "data" /\ s.place[q].upload = s.place[p].upload
  <2> HAVE s3.failure = "freed"
  <2>1. \/ s2.failure = "freed"
        \/ s.place["color"].build = "data" /\ s.place["color"].upload \in s2.freed
    BY <1>8, <1>9 DEF Builds
  <2>2. s2.failure = "freed" =>
          \/ s1.failure = "freed"
          \/ s.place["normal"].build = "data" /\ s.place["normal"].upload \in s1.freed
    BY <1>6, <1>7 DEF Builds
  <2>3. s1.failure = "freed" =>
          s.place["height"].build = "data" /\ s.place["height"].upload \in s.freed
    BY <1>5 DEF Builds
  <2>4. s1.freed = s.freed \/ (s.place["height"].build = "data"
                               /\ s1.freed = s.freed \cup {s.place["height"].upload})
    BY <1>5 DEF Builds
  <2>5. s2.freed = s1.freed \/ (s.place["normal"].build = "data"
                                /\ s2.freed = s1.freed \cup {s.place["normal"].upload})
    BY <1>6, <1>7 DEF Builds
  <2>6. CASE s1.failure = "freed"
    BY <2>3, <2>6
  <2>7. CASE s1.failure # "freed" /\ s2.failure = "freed"
    <3>1. s.place["normal"].build = "data" /\ s.place["normal"].upload \in s1.freed
      BY <2>2, <2>7
    <3>2. CASE s.place["normal"].upload \in s.freed
      BY <3>1, <3>2
    <3>3. CASE s.place["height"].build = "data" /\ s.place["normal"].upload = s.place["height"].upload
      BY <3>1, <3>3
    <3> QED  BY <2>4, <3>1, <3>2, <3>3
  <2>8. CASE s2.failure # "freed"
    <3>1. s.place["color"].build = "data" /\ s.place["color"].upload \in s2.freed
      BY <2>1, <2>8
    <3>2. CASE s.place["color"].upload \in s.freed
      BY <3>1, <3>2
    <3>3. CASE s.place["height"].build = "data" /\ s.place["color"].upload = s.place["height"].upload
      BY <3>1, <3>3
    <3>4. CASE s.place["normal"].build = "data" /\ s.place["color"].upload = s.place["normal"].upload
      BY <3>1, <3>4
    <3> QED  BY <2>4, <2>5, <3>1, <3>2, <3>3, <3>4
  <2> QED  BY <2>6, <2>7, <2>8
<1>14. AllBuild(s, s3, P)
  BY <1>10, <1>11, <1>12, <1>13 DEF AllBuild
<1> QED  BY <1>2, <1>3, <1>4, <1>14

\* sky_build(), heightmap_build(), legacy_build(), image_build()
LEMMA RendererBuilds ==
    ASSUME TexturesAssumption, TypesInv, OwnersInv, failure = "none", NEW r \in Renderer,
           r \in {"sky", "map"} => \A p \in PlacesOf[r] : place[p] # Nil
    PROVE  AllBuild(State, Build(State, r), BuiltWith(r))
PROOF
<1>1. Sane(State) /\ cast \in Scenes /\ State.failure = "none"
  BY StateFields DEF TypesInv
<1>2. ASSUME NEW p \in Place \ {"model"}, place[p] # Nil
      PROVE  AllBuild(State, TexBuild(State, p), {p})
  BY <1>1, <1>2, StateFields, TexBuildBuilds, OneBuilds
<1>3. AllBuild(State, State, {})
  BY <1>1 DEF AllBuild
<1>4. CASE r = "sky"
  <2>1. BuiltWith(r) = {"sky"} /\ "sky" \in Place \ {"model"} /\ place["sky"] # Nil
    BY <1>4 DEF BuiltWith, PlacesOf, Place
  <2>2. Build(State, r) = TexBuild(State, "sky")
    BY <1>4 DEF Build
  <2> QED  BY <1>2, <2>1, <2>2
<1>5. CASE r = "map"
  <2>1. PlacesOf[r] = {"height", "normal", "color"}
    BY <1>5 DEF PlacesOf
  <2>2. /\ BuiltWith(r) = {"height", "normal", "color"}
        /\ place["height"] # Nil /\ place["normal"] # Nil /\ place["color"] # Nil
    BY <1>5, <2>1 DEF BuiltWith
  <2>3. Build(State, r) = TexBuild(TexBuild(TexBuild(State, "height"), "normal"), "color")
    BY <1>5 DEF Build
  <2> QED  BY <1>1, <2>2, <2>3, StateFields, ThreeBuild
<1>6. CASE r = "model"
  <2>1. BuiltWith(r) = {} /\ Build(State, r) = State
    BY <1>6 DEF BuiltWith, Build
  <2> QED  BY <1>3, <2>1
<1>7. CASE r = "image" /\ haveTex
  <2>1. BuiltWith(r) = {"image"} /\ "image" \in Place \ {"model"} /\ place["image"] # Nil
    BY <1>7 DEF BuiltWith, Place, OwnersInv
  <2>2. Build(State, r) = TexBuild(State, "image")
    BY <1>7, StateFields DEF Build, ImageBuild
  <2> QED  BY <1>2, <2>1, <2>2
<1>8. CASE r = "image" /\ ~haveTex
  <2>1. BuiltWith(r) = {} /\ Build(State, r) = State
    BY <1>8, StateFields DEF BuiltWith, Build, ImageBuild
  <2> QED  BY <1>3, <2>1
<1> QED  BY <1>4, <1>5, <1>6, <1>7, <1>8 DEF Renderer
\* A message that asks for a renderer to be built
LEMMA MessageBuildKeeps ==
    ASSUME TexturesAssumption, TextureInv, failure = "none", Message, Head(requests).type = "build"
    PROVE  TextureInv'
PROOF
<1>0. PICK r : r = Head(requests).renderer
  OBVIOUS
<1>1. /\ requests # <<>> /\ requests' = Tail(requests)
      /\ context' = context \cup {r} /\ built' = built \cup {r}
      /\ Become(Build(State, r))
      /\ careless' = IF r \in built THEN careless \cup {"again"} ELSE careless
      /\ UNCHANGED <<cast, things, setting, wanted, given>>
  BY <1>0 DEF Message, Careless
<1>2. /\ TypesInv /\ OwnersInv /\ GivenInv /\ OrderInv /\ ImageInv /\ CareInv
      /\ Sane(State) /\ cast \in Scenes
  BY DEF TextureInv, TypesInv
<1>3. /\ requests' \in Seq(Messages)
      /\ Head(requests) = requests[1] /\ Head(requests) \in Messages
      /\ 1 \in DOMAIN requests /\ DOMAIN requests \subseteq Nat
      /\ \A i \in DOMAIN requests' : /\ i \in Nat /\ i >= 1 /\ i + 1 \in DOMAIN requests
                                     /\ requests'[i] = requests[i + 1]
      /\ \A i \in DOMAIN requests : i # 1 => /\ i >= 1 /\ i - 1 \in DOMAIN requests'
                                             /\ requests'[i - 1] = requests[i]
  BY <1>1, <1>2, PopByIndex
<1>4. r \in Renderer
  BY <1>0, <1>3 DEF Messages
<1>5. BuildAsked(r) /\ ~Sent(1)
  BY <1>0, <1>3 DEF BuildAsked, Sent
<1>6. r \in {"sky", "map"} => \A p \in PlacesOf[r] : place[p] # Nil
  BY <1>2, <1>5 DEF OwnersInv
<1>7. PICK n : n = Build(State, r)
  OBVIOUS
<1>8. PICK P : P = BuiltWith(r)
  OBVIOUS
<1>9. AllBuild(State, n, P)
  BY <1>2, <1>4, <1>6, <1>7, <1>8, RendererBuilds
<1>10. /\ P \subseteq Place \ {"model"}
       /\ \A p \in P : place[p] # Nil
       /\ "image" \in P <=> r = "image" /\ haveTex
       /\ P \ {"sky", "image"} \subseteq {"height", "normal", "color"}
       /\ P \cap {"height", "normal", "color"} # {} => r = "map"
       /\ r = "map" => {"height", "normal", "color"} \subseteq P
  <2>1. CASE r = "sky"
    <3>1. P = {"sky"}
      BY <1>8, <2>1 DEF BuiltWith, PlacesOf
    <3> QED  BY <1>6, <2>1, <3>1 DEF PlacesOf, Place
  <2>2. CASE r = "map"
    <3>1. P = {"height", "normal", "color"} /\ P = PlacesOf[r]
      BY <1>8, <2>2 DEF BuiltWith, PlacesOf
    <3> QED  BY <1>6, <2>2, <3>1 DEF Place
  <2>3. CASE r = "image"
    <3>1. P = IF haveTex THEN {"image"} ELSE {}
      BY <1>8, <2>3 DEF BuiltWith
    <3> QED  BY <1>2, <2>3, <3>1 DEF Place, OwnersInv
  <2>4. CASE r = "model"
    <3>1. P = {}
      BY <1>8, <2>4 DEF BuiltWith
    <3> QED  BY <2>4, <3>1
  <2> QED  BY <1>4, <2>1, <2>2, <2>3, <2>4 DEF Renderer
<1>11. /\ Sane(n) /\ n.haveTex = haveTex
       /\ \A q \in Place \ P : n.place[q] = place[q]
       /\ \A p \in P : /\ n.place[p] # Nil /\ n.place[p].upload = place[p].upload
                       /\ n.place[p].build = place[p].build
                       /\ n.failure = "none" => n.place[p].complete
       /\ freed \subseteq n.freed
       /\ \A u \in n.freed : u \in freed \/ \E p \in P : place[p].build = "data" /\ place[p].upload = u
       /\ n.failure = "freed" =>
            \E p \in P : /\ place[p].build = "data"
                         /\ \/ place[p].upload \in freed
                            \/ \E q \in P \ {p} : place[q].build = "data" /\ place[q].upload = place[p].upload
  BY <1>9, StateFields DEF AllBuild
<1>12. /\ Sane(State)' /\ freed' = n.freed /\ place' = n.place /\ haveTex' = n.haveTex
       /\ failure' = n.failure
  BY <1>1, <1>7, <1>11, BecomeSane
<1>13. \A i \in DOMAIN requests' : Sent(i)' => i + 1 \in DOMAIN requests /\ Sent(i + 1)
                                               /\ requests'[i] = requests[i + 1]
  BY <1>3 DEF Sent
<1>14. \A i \in DOMAIN requests : Sent(i) => i # 1 /\ i - 1 \in DOMAIN requests' /\ Sent(i - 1)'
  BY <1>3, <1>5 DEF Sent
<1>15. NothingSent' <=> NothingSent
  BY <1>13, <1>14 DEF NothingSent
<1>16. Messages' = Messages /\ \A t : (Fresh(t)' <=> Fresh(t)) /\ (Given(t)' <=> Given(t))
  BY <1>1, SameFiles DEF Given
<1>17. TypesInv'
  <2>1. context' \subseteq Renderer /\ built' \subseteq context'
    BY <1>1, <1>2, <1>4 DEF TypesInv
  <2>2. \A i \in DOMAIN requests' : Sent(i)' => Fresh(requests'[i].tex)
    BY <1>2, <1>13 DEF TypesInv
  <2> QED  BY <1>1, <1>2, <1>3, <1>12, <1>16, <2>1, <2>2, SameFiles DEF TypesInv
<1>18. \A p \in Place : place[p] # Nil => place'[p] # Nil
  BY <1>11, <1>12
<1>19. OwnersInv'
  <2>1. \A s : BuildAsked(s)' => BuildAsked(s)
    BY <1>3 DEF BuildAsked
  <2>2. \A s \in {"sky", "map"} : PlacesOf[s] \subseteq Place
    BY DEF PlacesOf, Place
  <2>3. haveTex' => place'["image"] # Nil
    BY <1>2, <1>11, <1>12, <1>18 DEF OwnersInv, Place
  <2>4. ASSUME NEW s \in {"sky", "map"}, s \in built' \/ BuildAsked(s)'
        PROVE  \A p \in PlacesOf[s] : place[p] # Nil
    BY <1>1, <1>2, <1>5, <2>1, <2>4 DEF OwnersInv
  <2> QED  BY <1>18, <2>2, <2>3, <2>4 DEF OwnersInv
<1>20. GivenInv'
  <2>1. freed' \subseteq given
    BY <1>2, <1>10, <1>11, <1>12 DEF GivenInv, Given
  <2>2. ASSUME NEW p \in Place \ {"model"}, place'[p] # Nil
        PROVE  Given(place[p])'
    <3>1. CASE p \in P
      BY <1>1, <1>2, <1>10, <1>11, <1>12, <2>2, <3>1 DEF GivenInv, Given
    <3>2. CASE p \notin P
      BY <1>2, <1>11, <1>12, <1>16, <2>2, <3>2 DEF GivenInv
    <3> QED  BY <3>1, <3>2
  <2>3. \A i \in DOMAIN requests' : Sent(i)' => Given(requests[i].tex)'
    BY <1>2, <1>13, <1>16 DEF GivenInv
  <2> QED  BY <1>1, <1>2, <1>16, <2>1, <2>2, <2>3 DEF GivenInv
<1>21. "image" \in Place
  BY DEF Place
<1>22. OrderInv'
  <2>1. place'["image"] = Nil <=> place["image"] = Nil
    BY <1>10, <1>11, <1>12, <1>21
  <2>2. place["image"] # Nil => place'["image"].upload = place["image"].upload
    BY <1>11, <1>12, <1>21
  <2>3. ASSUME NEW i \in DOMAIN requests', Sent(i)',
               \A j \in DOMAIN requests' : j > i => ~Sent(j)'
        PROVE  requests'[i].tex.upload = wanted'
    <3>1. ASSUME NEW j \in DOMAIN requests, j > i + 1, Sent(j)
          PROVE  FALSE
      <4>1. j - 1 \in DOMAIN requests' /\ Sent(j - 1)'
        BY <1>14, <3>1
      <4>2. j - 1 > i
        BY <1>3, <3>1
      <4> QED  BY <2>3, <4>1, <4>2
    <3>2. /\ i + 1 \in DOMAIN requests /\ Sent(i + 1) /\ requests'[i] = requests[i + 1]
      BY <1>13, <2>3
    <3> QED  BY <1>1, <1>2, <3>1, <3>2 DEF OrderInv
  <2> QED  BY <1>1, <1>2, <1>15, <2>1, <2>2, <2>3 DEF OrderInv
<1>23. ImageInv'
  <2> SUFFICES ASSUME failure' = "none", place'["image"] # Nil, ~place'["image"].complete
               PROVE  haveTex' /\ ("image" \in built' => "late" \in careless')
    BY DEF ImageInv
  <2>1. "image" \notin P
    BY <1>11, <1>12
  <2>2. place'["image"] = place["image"] /\ haveTex' = haveTex
    BY <1>11, <1>12, <1>21, <2>1
  <2>3. haveTex /\ ("image" \in built => "late" \in careless)
    BY <1>2, <2>2, failure = "none" DEF ImageInv
  <2>4. r # "image"
    BY <1>10, <2>1, <2>3
  <2> QED  BY <1>1, <2>2, <2>3, <2>4
<1>24. careless' = {} => \A p \in P : place[p].build = "data" => Waiting(p)
  <2> SUFFICES ASSUME careless' = {}, NEW p \in P, place[p].build = "data"
               PROVE  Waiting(p)
    OBVIOUS
  <2>1. r \notin built
    BY <1>1
  <2>2. p \in Place /\ place[p] # Nil /\ Fits(place[p], p, object)
    BY <1>2, <1>10, StateFields DEF Sane
  <2>3. p # "sky"
    BY <2>2 DEF Fits
  <2> QED  BY <1>10, <2>1, <2>2, <2>3 DEF Waiting
<1>25. careless' = {} => careless = {} /\ CareInv
  BY <1>1, <1>2
<1>26. UploadsLive'
  <2> SUFFICES ASSUME n.failure = "freed", careless' = {}
               PROVE  FALSE
    BY <1>12 DEF UploadsLive
  <2>1. PICK p \in P : /\ place[p].build = "data"
                       /\ \/ place[p].upload \in freed
                          \/ \E q \in P \ {p} : place[q].build = "data" /\ place[q].upload = place[p].upload
    BY <1>11
  <2>2. p \in Place /\ Waiting(p) /\ place[p].upload \notin freed
    BY <1>10, <1>24, <1>25, <2>1, failure = "none" DEF CareInv
  <2>3. PICK q \in P \ {p} : place[q].build = "data" /\ place[q].upload = place[p].upload
    BY <2>1, <2>2
  <2>4. q \in Place /\ Waiting(q)
    BY <1>10, <1>24, <2>3
  <2> QED  BY <1>25, <2>2, <2>3, <2>4, failure = "none" DEF CareInv
<1>27. CareInv'
  <2> SUFFICES ASSUME careless' = {}
               PROVE  CareInv'
    BY DEF CareInv
  <2>1. /\ haveTex /\ "image" \notin built => "image" \notin context
        /\ \A p \in Place : Waiting(p) => place[p].upload \notin freed
        /\ \A p, q \in Place : Waiting(p) /\ Waiting(q) /\ place[p].upload = place[q].upload => p = q
        /\ setting # Nil => Unshared(setting)
        /\ \A i \in DOMAIN requests : Sent(i) => Unshared(requests[i].tex)
        /\ \A i, j \in DOMAIN requests :
             /\ Sent(i) /\ Sent(j) /\ i # j
             /\ requests[i].tex.build = "data" /\ requests[j].tex.build = "data"
             => requests[i].tex.upload # requests[j].tex.upload
    BY <1>25, failure = "none" DEF CareInv
  <2>2. ASSUME NEW p \in Place, Waiting(p)'
        PROVE  Waiting(p) /\ p \notin P /\ place'[p] = place[p]
    <3>1. p \notin P
      BY <1>1, <1>10, <2>2 DEF Waiting
    <3> QED  BY <1>1, <1>11, <1>12, <2>2, <3>1 DEF Waiting
  <2>3. \A p \in Place : Waiting(p)' => place'[p].upload \notin freed'
    <3> TAKE p \in Place
    <3> HAVE Waiting(p)'
    <3>1. Waiting(p) /\ p \notin P /\ place'[p] = place[p] /\ place[p].upload \notin freed
      BY <2>1, <2>2
    <3>2. ASSUME NEW q \in P, place[q].build = "data", place[q].upload = place[p].upload
          PROVE  FALSE
      BY <1>10, <1>24, <2>1, <3>1, <3>2
    <3> QED  BY <1>11, <1>12, <3>1, <3>2
  <2>4. \A p, q \in Place : Waiting(p)' /\ Waiting(q)' /\ place'[p].upload = place'[q].upload => p = q
    BY <2>1, <2>2
  <2>5. \A t : Unshared(t) => Unshared(t)'
    <3> TAKE t
    <3> HAVE Unshared(t)
    <3> SUFFICES ASSUME t.build = "data"
                 PROVE  t.upload \notin freed' /\ \A p \in Place : Waiting(p)' => place'[p].upload # t.upload
      BY DEF Unshared
    <3>1. t.upload \notin freed /\ \A p \in Place : Waiting(p) => place[p].upload # t.upload
      BY DEF Unshared
    <3> QED  BY <1>10, <1>11, <1>12, <1>24, <2>2, <3>1
  <2>6. \A i \in DOMAIN requests' : Sent(i)' => Unshared(requests[i].tex)'
    BY <1>13, <2>1, <2>5
  <2>7. ASSUME NEW i \in DOMAIN requests', NEW j \in DOMAIN requests', Sent(i)', Sent(j)', i # j,
               requests'[i].tex.build = "data", requests'[j].tex.build = "data"
        PROVE  requests'[i].tex.upload # requests'[j].tex.upload
    <3>1. /\ i + 1 \in DOMAIN requests /\ j + 1 \in DOMAIN requests /\ i + 1 # j + 1
          /\ Sent(i + 1) /\ Sent(j + 1)
          /\ requests'[i] = requests[i + 1] /\ requests'[j] = requests[j + 1]
      BY <1>3, <1>13, <2>7
    <3> QED  BY <2>1, <2>7, <3>1
  <2>8. haveTex' /\ "image" \notin built' => "image" \notin context'
    BY <1>1, <1>11, <1>12, <2>1
  <2>9. setting' # Nil => Unshared(setting)'
    BY <1>1, <2>1, <2>5
  <2> QED  BY <2>3, <2>4, <2>6, <2>7, <2>8, <2>9 DEF CareInv
<1> QED  BY <1>17, <1>19, <1>20, <1>22, <1>23, <1>26, <1>27 DEF TextureInv
\* A message that brings an image its texture
LEMMA MessageTexKeeps ==
    ASSUME TexturesAssumption, TextureInv, failure = "none", Message, Head(requests).type # "build"
    PROVE  TextureInv'
PROOF
<1>0. PICK t : t = Head(requests).tex
  OBVIOUS
<1>1. /\ requests # <<>> /\ requests' = Tail(requests)
      /\ Become(ImageMessage(State, t))
      /\ UNCHANGED <<cast, things, setting, wanted, given, context, built, careless>>
  BY <1>0 DEF Message
<1>2. /\ TypesInv /\ OwnersInv /\ GivenInv /\ OrderInv /\ ImageInv /\ CareInv
      /\ Sane(State) /\ cast \in Scenes /\ built \subseteq context
  BY DEF TextureInv, TypesInv
<1>3. /\ requests' \in Seq(Messages)
      /\ Head(requests) = requests[1] /\ Head(requests) \in Messages
      /\ 1 \in DOMAIN requests /\ DOMAIN requests \subseteq Nat
      /\ \A i \in DOMAIN requests' : /\ i \in Nat /\ i >= 1 /\ i + 1 \in DOMAIN requests
                                     /\ requests'[i] = requests[i + 1]
      /\ \A i \in DOMAIN requests : i # 1 => /\ i >= 1 /\ i - 1 \in DOMAIN requests'
                                             /\ requests'[i - 1] = requests[i]
  BY <1>1, <1>2, PopByIndex
<1>4. Sent(1) /\ requests[1].tex = t
  BY <1>0, <1>3 DEF Messages, Sent
<1>5. Fresh(t) /\ Given(t)
  BY <1>2, <1>3, <1>4 DEF TypesInv, GivenInv
<1>6. ~NothingSent /\ setting = Nil /\ "image" \in context
  BY <1>2, <1>3, <1>4 DEF NothingSent, OrderInv
<1>7. PICK s : s = [State EXCEPT !.place["image"] = t]
  OBVIOUS
<1>8. "image" \in Place
  BY DEF Place
<1>9. /\ Sane(s) /\ s.freed = freed /\ s.failure = failure /\ s.haveTex = haveTex
      /\ s.place["image"] = t /\ t # Nil
      /\ \A q \in Place \ {"image"} : s.place[q] = place[q]
  <2>1. Sane(s) /\ s.freed = freed /\ s.failure = failure
    BY <1>2, <1>5, <1>7, ReplaceKeeps
  <2>2. s.haveTex = haveTex
    BY <1>2, <1>5, <1>7, ReplaceKeeps
  <2>3. s.place = [place EXCEPT !["image"] = t] /\ t # Nil
    BY <1>2, <1>5, <1>7, ReplaceKeeps
  <2>4. place \in [Place -> TextureType \cup {Nil}]
    BY <1>2, SaneFields, StateFields
  <2> QED  BY <1>8, <2>1, <2>2, <2>3, <2>4
<1>10. PICK n : n = TexBuild(s, "image")
  OBVIOUS
<1>11. Become(n)
  BY <1>1, <1>7, <1>10 DEF ImageMessage
<1>12. Builds(s, n, "image")
  BY <1>2, <1>8, <1>9, <1>10, TexBuildBuilds
<1>13. /\ Sane(n) /\ n.haveTex = haveTex
       /\ \A q \in Place \ {"image"} : n.place[q] = place[q]
       /\ n.place["image"] # Nil
       /\ n.place["image"].upload = t.upload /\ n.place["image"].build = t.build
       /\ n.failure = "none" => n.place["image"].complete
       /\ n.freed = freed \/ (t.build = "data" /\ n.freed = freed \cup {t.upload})
       /\ n.failure = "freed" => t.build = "data" /\ t.upload \in freed
  BY <1>9, <1>12, failure = "none" DEF Builds
<1>14. /\ Sane(State)' /\ freed' = n.freed /\ place' = n.place /\ haveTex' = n.haveTex
       /\ failure' = n.failure
  BY <1>1, <1>11, <1>13, BecomeSane
<1>15. \A i \in DOMAIN requests' : Sent(i)' => i + 1 \in DOMAIN requests /\ Sent(i + 1)
                                               /\ requests'[i] = requests[i + 1]
  BY <1>3 DEF Sent
<1>16. \A i \in DOMAIN requests : i # 1 /\ Sent(i) => i - 1 \in DOMAIN requests' /\ Sent(i - 1)'
  BY <1>3 DEF Sent
<1>17. Messages' = Messages /\ \A x : (Fresh(x)' <=> Fresh(x)) /\ (Given(x)' <=> Given(x))
  BY <1>1, SameFiles DEF Given
<1>18. TypesInv'
  <2>1. \A i \in DOMAIN requests' : Sent(i)' => Fresh(requests'[i].tex)
    BY <1>2, <1>15 DEF TypesInv
  <2> QED  BY <1>1, <1>2, <1>3, <1>14, <1>17, <2>1, SameFiles DEF TypesInv
<1>19. OwnersInv'
  <2>1. \A r : BuildAsked(r)' => BuildAsked(r)
    BY <1>3 DEF BuildAsked
  <2>2. \A r \in {"sky", "map"} : PlacesOf[r] \subseteq Place
    BY DEF PlacesOf, Place
  <2>3. \A p \in Place : place[p] # Nil => place'[p] # Nil
    BY <1>13, <1>14
  <2>4. \A r \in {"sky", "map"} : r \in built' \/ BuildAsked(r)' => \A p \in PlacesOf[r] : place[p] # Nil
    BY <1>1, <1>2, <2>1 DEF OwnersInv
  <2> QED  BY <1>13, <1>14, <2>2, <2>3, <2>4 DEF OwnersInv
<1>20. GivenInv'
  <2>1. freed' \subseteq given
    BY <1>2, <1>5, <1>13, <1>14 DEF GivenInv, Given
  <2>2. ASSUME NEW p \in Place \ {"model"}, place'[p] # Nil
        PROVE  Given(place[p])'
    <3>1. CASE p = "image"
      BY <1>1, <1>5, <1>13, <1>14, <3>1 DEF Given
    <3>2. CASE p # "image"
      BY <1>2, <1>13, <1>14, <1>17, <2>2, <3>2 DEF GivenInv
    <3> QED  BY <3>1, <3>2
  <2>3. \A i \in DOMAIN requests' : Sent(i)' => Given(requests[i].tex)'
    BY <1>2, <1>15, <1>17 DEF GivenInv
  <2> QED  BY <1>1, <1>2, <1>17, <2>1, <2>2, <2>3 DEF GivenInv
<1>21. OrderInv'
  <2>1. NothingSent' => t.upload = wanted
    <3> HAVE NothingSent'
    <3>1. \A i \in DOMAIN requests : i > 1 => ~Sent(i)
      BY <1>16 DEF NothingSent
    <3> QED  BY <1>2, <1>3, <1>4, <3>1 DEF OrderInv
  <2>2. ASSUME NEW i \in DOMAIN requests', Sent(i)',
               \A j \in DOMAIN requests' : j > i => ~Sent(j)'
        PROVE  requests'[i].tex.upload = wanted'
    <3>1. ASSUME NEW j \in DOMAIN requests, j > i + 1, Sent(j)
          PROVE  FALSE
      <4>1. j # 1
        BY <1>3, <3>1
      <4>2. j - 1 \in DOMAIN requests' /\ Sent(j - 1)'
        BY <1>16, <3>1, <4>1
      <4>3. j - 1 > i
        BY <1>3, <3>1
      <4> QED  BY <2>2, <4>2, <4>3
    <3>2. /\ i + 1 \in DOMAIN requests /\ Sent(i + 1) /\ requests'[i] = requests[i + 1]
      BY <1>15, <2>2
    <3> QED  BY <1>1, <1>2, <3>1, <3>2 DEF OrderInv
  <2> QED  BY <1>1, <1>6, <1>13, <1>14, <2>1, <2>2 DEF OrderInv
<1>22. ImageInv'
  BY <1>13, <1>14 DEF ImageInv
<1>23. careless = {} =>
         /\ haveTex /\ "image" \notin built => "image" \notin context
         /\ \A p \in Place : Waiting(p) => place[p].upload \notin freed
         /\ \A p, q \in Place : Waiting(p) /\ Waiting(q) /\ place[p].upload = place[q].upload => p = q
         /\ \A i \in DOMAIN requests : Sent(i) => Unshared(requests[i].tex)
         /\ \A i, j \in DOMAIN requests :
              /\ Sent(i) /\ Sent(j) /\ i # j
              /\ requests[i].tex.build = "data" /\ requests[j].tex.build = "data"
              => requests[i].tex.upload # requests[j].tex.upload
  BY <1>2, failure = "none" DEF CareInv
<1>24. careless = {} => Unshared(t)
  BY <1>3, <1>4, <1>23
<1>25. UploadsLive'
  BY <1>1, <1>13, <1>14, <1>24 DEF UploadsLive, Unshared
<1>26. CareInv'
  <2> SUFFICES ASSUME careless' = {}
               PROVE  CareInv'
    BY DEF CareInv
  <2>1. careless = {}
    BY <1>1
  <2>2. ASSUME NEW p \in Place, Waiting(p)'
        PROVE  Waiting(p) /\ p # "image" /\ place'[p] = place[p]
    <3>1. p # "image"
      BY <1>1, <1>6, <1>13, <1>14, <1>23, <2>1, <2>2 DEF Waiting
    <3> QED  BY <1>1, <1>13, <1>14, <2>2, <3>1 DEF Waiting
  <2>3. \A p \in Place : Waiting(p)' => place'[p].upload \notin freed'
    <3> TAKE p \in Place
    <3> HAVE Waiting(p)'
    <3>1. Waiting(p) /\ place'[p] = place[p] /\ place[p].upload \notin freed
      BY <1>23, <2>1, <2>2
    <3>2. t.build = "data" => place[p].upload # t.upload
      BY <1>24, <2>1, <3>1 DEF Unshared
    <3> QED  BY <1>13, <1>14, <3>1, <3>2
  <2>4. \A p, q \in Place : Waiting(p)' /\ Waiting(q)' /\ place'[p].upload = place'[q].upload => p = q
    BY <1>23, <2>1, <2>2
  <2>5. ASSUME NEW i \in DOMAIN requests', Sent(i)'
        PROVE  Unshared(requests[i].tex)'
    <3>1. PICK u : u = requests[i + 1].tex
      OBVIOUS
    <3>2. /\ i + 1 \in DOMAIN requests /\ Sent(i + 1) /\ i + 1 # 1
          /\ requests'[i] = requests[i + 1]
      BY <1>3, <1>15, <2>5
    <3>3. Unshared(u)
      BY <1>23, <2>1, <3>1, <3>2
    <3>4. u.build = "data" /\ t.build = "data" => u.upload # t.upload
      BY <1>3, <1>4, <1>23, <2>1, <3>1, <3>2
    <3>5. Unshared(u)'
      BY <1>13, <1>14, <2>2, <3>3, <3>4 DEF Unshared
    <3> QED  BY <3>1, <3>2, <3>5 DEF Unshared
  <2>6. ASSUME NEW i \in DOMAIN requests', NEW j \in DOMAIN requests', Sent(i)', Sent(j)', i # j,
               requests'[i].tex.build = "data", requests'[j].tex.build = "data"
        PROVE  requests'[i].tex.upload # requests'[j].tex.upload
    <3>1. /\ i + 1 \in DOMAIN requests /\ j + 1 \in DOMAIN requests /\ i + 1 # j + 1
          /\ Sent(i + 1) /\ Sent(j + 1)
          /\ requests'[i] = requests[i + 1] /\ requests'[j] = requests[j + 1]
      BY <1>3, <1>15, <2>6
    <3> QED  BY <1>23, <2>1, <2>6, <3>1
  <2>7. haveTex' /\ "image" \notin built' => "image" \notin context'
    BY <1>1, <1>13, <1>14, <1>23, <2>1
  <2> QED  BY <1>1, <1>6, <2>3, <2>4, <2>5, <2>6, <2>7 DEF CareInv
<1> QED  BY <1>18, <1>19, <1>20, <1>21, <1>22, <1>25, <1>26 DEF TextureInv

-----------------------------------------------------------------------------
\* Every step keeps the invariant
LEMMA NextKeeps ==
    ASSUME TexturesAssumption, TextureInv, [TexturesNext]_textures
    PROVE  TextureInv'
PROOF
<1>1. CASE UNCHANGED textures
  <2>1. TextureInv' <=> TextureInv
    <3>1. /\ UNCHANGED <<cast, freed, place, things, haveTex, setting, context, requests, object,
                         active, bound, failure, wanted, given, built, careless>>
      BY <1>1 DEF textures
    <3>2. Sane(State)' <=> Sane(State)
      BY <3>1, SameFiles DEF Sane, State
    <3>3. Sane(State) /\ things \in 1..2
      BY DEF TextureInv, TypesInv
    <3> QED  BY <3>1, <3>2, <3>3, QuietKeeps
  <2> QED  BY <2>1
<1>2. CASE TexturesNext
  <2>1. failure = "none" /\ cast \in Scenes /\ cast.renderers \subseteq Renderer
    BY <1>2 DEF TexturesNext, TextureInv, TypesInv, TexturesAssumption, Renderer
  <2>2. ASSUME NEW v \in DOMAIN Files, NewSkybox(v) \/ AddTexture(v) \/ SetTex(v)
        PROVE  TextureInv'
    BY <2>1, <2>2, NewSkyboxKeeps, AddTextureKeeps, SetTexKeeps
  <2>3. ASSUME NEW m \in cast.maps, NewHeightmap(m[1], m[2], m[3])
        PROVE  TextureInv'
    <3>1. \A i \in 1..3 : m[i] \in DOMAIN Files /\ Files[m[i]] # "cube"
      BY <2>1 DEF TexturesAssumption, Files
    <3>2. /\ m[1] \in DOMAIN Files /\ Files[m[1]] # "cube"
          /\ m[2] \in DOMAIN Files /\ Files[m[2]] # "cube"
          /\ m[3] \in DOMAIN Files /\ Files[m[3]] # "cube"
      BY <3>1
    <3> QED  BY <2>1, <2>3, <3>2, NewHeightmapKeeps
  <2>4. ASSUME NEW r \in cast.renderers, RequestBuild(r) \/ Draw(r)
        PROVE  TextureInv'
    BY <2>1, <2>4, RequestBuildKeeps, DrawKeeps
  <2>5. ASSUME Message
        PROVE  TextureInv'
    BY <2>1, <2>5, MessageBuildKeeps, MessageTexKeeps
  <2>6. ASSUME AddPositionable \/ SetTexDirect \/ SetContext
        PROVE  TextureInv'
    BY <2>1, <2>6, AddPositionableKeeps, SetTexDirectKeeps, SetContextKeeps
  <2> QED  BY <1>2, <2>2, <2>3, <2>4, <2>5, <2>6 DEF TexturesNext
<1> QED  BY <1>1, <1>2

\* Type correctness of textures, whatever is loaded and in whatever order it is
\* built.
THEOREM TexturesKeepTypes ==
    ASSUME TexturesAssumption
    PROVE  TexturesSpec => []TextureTypes
PROOF
<1>1. TextureInv => TextureTypes
  BY InvHasTypes DEF TextureInv
<1> QED  BY <1>1, InitSane, NextKeeps, PTL DEF TexturesSpec

\* With careful clients nothing is uploaded from memory that was freed; whatever
\* other renderers bind, one samples the textures that were built for it; and an
\* image of the GUI ends with the texture that was last set.
THEOREM TexturesStayWithOwners ==
    ASSUME TexturesAssumption
    PROVE  TexturesSpec => []TexturesReachOwners
PROOF
<1>1. TextureInv => TexturesReachOwners
  BY SanePlacesSample, ImageIsLast DEF TextureInv, TexturesReachOwners
<1> QED  BY <1>1, InitSane, NextKeeps, PTL DEF TexturesSpec
=============================================================================
