-------------------------------- MODULE World --------------------------------
(***************************************************************************)
(* A world hands out positionables (common/world.c): indices into parallel *)
(* arrays that only grow, with a list of the indices to use again.  Clients *)
(* destroy a positionable once, and may create and destroy others while    *)
(* they iterate.  What is stored under an index is left out.               *)
(***************************************************************************)
EXTENDS Integers, Sequences, SequencesExt, FiniteSetsExt

CONSTANT MaxPositionables   \* bound: length of the arrays

VARIABLES
    length,         \* of positions, rotations, ...
    free_list,      \* indices to use again, the last one first
    live,           \* history: the positionables the clients own
    walk            \* a client's iteration; at = NoId when there is none

worldVars == <<length, free_list, live, walk>>

NoId == -1

\* An iteration: where it is, where it was, and for the properties what is
\* left to visit and what was destroyed since it began.
Walk == [at : Int, seen : Seq(Int), due : SUBSET Int, gone : SUBSET Int]

Init ==
    /\ length = 0 /\ free_list = <<>>
    /\ live = {}
    /\ walk = [at |-> NoId, seen |-> <<>>, due |-> {}, gone |-> {}]
-----------------------------------------------------------------------------
\* Mutant of Recycled: the index stays on the list
RecycledPeek == free_list

\* --self->free_list.length
Recycled == Front(free_list)

\* il_positionable_new()
New ==
    /\ IF free_list # <<>>
       THEN /\ live' = live \cup {Last(free_list)}
            /\ free_list' = Recycled
            /\ UNCHANGED length
       ELSE /\ length < MaxPositionables
            /\ live' = live \cup {length}
            /\ length' = length + 1
            /\ UNCHANGED free_list
    /\ UNCHANGED walk

\* il_positionable_destroy()
Destroy(id) ==
    /\ id \in live
    /\ free_list' = Append(free_list, id)
    /\ live' = live \ {id}
    /\ walk' = [walk EXCEPT !.due = @ \ {id}, !.gone = @ \cup {id}]
    /\ UNCHANGED length

\* il_world_iter(): index 0, whether it is free or not
FirstId == IF length < 1 THEN NoId ELSE 0

\* Mutant of NextId: stops one short
NextIdShort(id) ==
    LET rest == {i \in (id + 1)..(length - 2) : i \notin ToSet(free_list)}
    IN  IF rest = {} THEN NoId ELSE Min(rest)

\* il_world_next(): calls itself until the index is not on the list
NextId(id) ==
    LET rest == {i \in (id + 1)..(length - 1) : i \notin ToSet(free_list)}
    IN  IF rest = {} THEN NoId ELSE Min(rest)

\* for (p = il_world_iter(w); ...
Begin ==
    /\ walk.at = NoId
    /\ walk' = [at |-> FirstId, seen |-> <<>>, due |-> live, gone |-> {}]
    /\ UNCHANGED <<length, free_list, live>>

\* ...; p.id != -1; p = il_world_next(&p))
Advance ==
    /\ walk.at # NoId
    /\ walk' = [walk EXCEPT !.at = NextId(@), !.seen = Append(@, walk.at)]
    /\ UNCHANGED <<length, free_list, live>>

Next == New \/ Begin \/ Advance \/ \E id \in live : Destroy(id)

Spec == Init /\ [][Next]_worldVars
-----------------------------------------------------------------------------
WorldTypes ==
    /\ length \in Nat /\ free_list \in Seq(Nat) /\ live \subseteq Nat
    /\ walk \in Walk

(***************************************************************************)
(* Every index below length is either owned by one client or on the free   *)
(* list once: two positionables never share an index, and none is lost.    *)
(***************************************************************************)
IdsPartitioned ==
    /\ IsInjective(free_list)
    /\ live \cap ToSet(free_list) = {}
    /\ live \cup ToSet(free_list) = 0..(length - 1)

(***************************************************************************)
(* An iteration that has come to its end has visited every positionable    *)
(* that was there all the time, in ascending order and so none twice, and, *)
(* but for index 0, only what was alive at some time since it began,       *)
(* whatever was created and destroyed on the way.                          *)
(***************************************************************************)
WalkVisitsLive ==
    walk.at = NoId =>
        /\ walk.due \subseteq ToSet(walk.seen)
        /\ \A i, j \in DOMAIN walk.seen : i < j => walk.seen[i] < walk.seen[j]
        /\ ToSet(walk.seen) \subseteq live \cup walk.gone \cup {0}
=============================================================================
