------------------------------ MODULE Callbacks ------------------------------
(***************************************************************************)
(* The array of callbacks of a handler (common/event.c, util/array.h): the *)
(* place of a new one, and insertion and removal as the macros do them.    *)
(***************************************************************************)
EXTENDS Integers, Sequences, SequencesExt

CONSTANT Wild   \* a pointer to no function

\* Mutant of Place: >= for >
PlaceBeforeEquals(s, p) ==
    CHOOSE i \in 1..(Len(s) + 1) :
        /\ i <= Len(s) => s[i].priority >= p
        /\ \A j \in 1..(i - 1) : s[j].priority < p

\* The first callback with a greater priority, or the end
Place(s, p) ==
    CHOOSE i \in 1..(Len(s) + 1) :
        /\ i <= Len(s) => s[i].priority > p
        /\ \A j \in 1..(i - 1) : s[j].priority <= p

\* IL_INSERT, IL_APPEND
ILInsert(s, c) ==
    LET p == Place(s, c.priority)
    IN  [k \in 1..(Len(s) + 1) |-> IF k < p THEN s[k] ELSE IF k = p THEN c ELSE s[k - 1]]

\* IL_REMOVE as it is: memmove() counts bytes, one for each element after i.
\* They replace the first bytes of element i, its function, by those of the
\* next (fewer than nine callbacks are assumed); the last element is cut off.
ILRemove(s, i) ==
    IF i = Len(s) THEN {Front(s)}
    ELSE {Front([s EXCEPT ![i].function = f]) :
              f \in IF s[i].function = s[i + 1].function THEN {s[i].function}
                    ELSE {s[i].function, s[i + 1].function, Wild}}
=============================================================================
