-------------------------------- MODULE Strings --------------------------------
(***************************************************************************)
(* Counted strings (util/string.c): slices share the bytes and the count   *)
(* of the string they were cut from; and the sources of a material's       *)
(* shaders, which are such strings (material.c).  Bytes are small numbers, *)
(* 0 ends a C string.                                                      *)
(***************************************************************************)
EXTENDS Integers, Sequences, SequencesExt, FiniteSetsExt, Functions

CONSTANTS MaxStrings,   \* bound: strings ever allocated and not freed
          MaxHeld,      \* bound: references clients have
          MaxBytes,     \* bound: length of what is concatenated
          Text,         \* C strings clients use, without their end
          Room,         \* capacity of il_string_new(NULL), 64
          Null

VARIABLES str,          \* the structs, or Null.  History: text, what it has to
                        \* read as; spare, a copy that has capacity it did not
                        \* allocate; overrun, a write went past what it allocated
          memory,       \* what il_string.start and refs point to, under the
                        \* string that allocated it, or Null
          held,         \* references of clients
          forgotten,    \* those with a reference that is never given up
          source        \* config->vertsource of a material

strings == <<str, memory, held, forgotten, source>>

Slot == 1..MaxStrings

\* il_string, and what it points to
Struct == [of : Slot, at : Nat, length : Nat, capacity : Nat, text : Seq(Nat \ {0}),
           spare : BOOLEAN, overrun : BOOLEAN]
Memory == [bytes : Seq(Nat), refs : Nat \ {0}]

\* A C string has no zero before its end
StringsAssumption ==
    /\ MaxStrings \in Nat /\ Room \in Nat /\ Text \subseteq Seq(Nat \ {0})
    /\ Null \notin Slot \cup Struct \cup Memory

Used == {h \in Slot : str[h] # Null}

\* strnlen()
Strnlen(b, n) ==
    LET ends == {i \in 1..n : b[i] = 0} IN IF ends = {} THEN n ELSE Min(ends) - 1

\* What il_string_cstring() gives
CString(h) ==
    LET s == str[h]
        b == SubSeq(memory[s.of].bytes, s.at + 1, s.at + s.length)
    IN  SubSeq(b, 1, Strnlen(b, Len(b)))

Verify(h) == /\ str[h].capacity >= str[h].length
             /\ memory[str[h].of] # Null
             /\ memory[str[h].of].refs > 0

NewSlot == Min(Slot \ Used)

\* A string a client has.  After a write past its bytes nothing is known of it
Mine(h) == h \in Used /\ held[h] > 0 /\ Verify(h) /\ ~str[h].overrun
-----------------------------------------------------------------------------
\* A string as it is created
Made(b, length, capacity, t) ==
    [bytes |-> b, length |-> length, capacity |-> capacity, text |-> t]

\* il_string_new(): the end counts if len reaches past it, and if len is
\* negative, which is more than any length
New(t, len) ==
    LET nlen == IF len < 0 THEN Len(t) ELSE Strnlen(t, Min({len, Len(t)}))
        all  == IF len < 0 \/ nlen < len THEN nlen + 1 ELSE nlen
    IN  Made(t \o <<0>>, all, all, SubSeq(t, 1, nlen))

NewNull == Made([i \in 1..Room |-> 0], 0, Room, <<>>)
Bin(t) == Made(t, Len(t), Len(t), t)
Format(t) == Made(t \o <<0>>, Len(t), Len(t) + 1, t)

Creatable == {New(t, len) : t \in Text, len \in {-1} \cup UNION {{Len(t), Len(t) + 1} : t \in Text}}
             \cup {NewNull} \cup {Bin(t) : t \in Text} \cup {Format(t) : t \in Text}

\* A new string, with n references
Allocate(m, n, spare) ==
    /\ Used # Slot
    /\ str' = [str EXCEPT ![NewSlot] =
            [of |-> NewSlot, at |-> 0, length |-> m.length, capacity |-> m.capacity,
             text |-> m.text, spare |-> spare, overrun |-> FALSE]]
    /\ memory' = [memory EXCEPT ![NewSlot] = [bytes |-> m.bytes, refs |-> n]]

Hold(h, n) ==
    /\ n = 1 => SumFunction(held) < MaxHeld
    /\ held' = [held EXCEPT ![h] = @ + n]
    /\ UNCHANGED <<forgotten, source>>

\* il_string_new(), il_string_bin(), il_string_format()
Create == (\E m \in Creatable : Allocate(m, 1, FALSE)) /\ Hold(NewSlot, 1)

\* il_string_copy(): as much capacity as the other, and one byte more than
\* its length
Copy(h) ==
    LET s == str[h]
    IN  /\ Mine(h)
        /\ Allocate(Made(SubSeq(memory[s.of].bytes, s.at + 1, s.at + s.length) \o <<0>>,
                         s.length, s.capacity, s.text),
                    1, s.capacity > s.length + 1)
        /\ Hold(NewSlot, 1)

\* Counting one more or one less; at none the bytes are freed
CountUp(m, h) == [m EXCEPT ![str[h].of].refs = @ + 1]
CountDown(m, h) == IF m[str[h].of].refs > 1 THEN [m EXCEPT ![str[h].of].refs = @ - 1]
              ELSE [m EXCEPT ![str[h].of] = Null]

\* The structs left with the memory m.  That of the last reference is freed
\* with the bytes; those of the other slices are not, and nobody has them
Left(m) == [g \in Slot |-> IF g \in Used /\ m[str[g].of] = Null THEN Null ELSE str[g]]

\* Mutant of Sub: the slice does not count
SubUncounted(h, p1, p2) ==
    LET s  == str[h]
        q1 == IF p1 < 0 THEN p1 + s.length ELSE p1
        q2 == IF p2 < 0 THEN p2 + s.length ELSE p2
    IN  /\ Mine(h) /\ Used # Slot
        /\ 0 <= q1 /\ q1 <= q2 /\ q2 <= s.length
        /\ str' = [str EXCEPT ![NewSlot] =
                [s EXCEPT !.at = @ + q1, !.length = q2 - q1, !.capacity = @ - q1,
                          !.text = SubSeq(@, q1 + 1, Min({q2, Len(@)}))]]
        /\ Hold(NewSlot, 1)
        /\ UNCHANGED memory

\* il_string_sub(), NULL when out of range
Sub(h, p1, p2) ==
    LET s  == str[h]
        q1 == IF p1 < 0 THEN p1 + s.length ELSE p1
        q2 == IF p2 < 0 THEN p2 + s.length ELSE p2
    IN  /\ Mine(h) /\ Used # Slot
        /\ 0 <= q1 /\ q1 <= q2 /\ q2 <= s.length
        /\ str' = [str EXCEPT ![NewSlot] =
                [s EXCEPT !.at = @ + q1, !.length = q2 - q1, !.capacity = @ - q1,
                          !.text = SubSeq(@, q1 + 1, Min({q2, Len(@)}))]]
        /\ Hold(NewSlot, 1)
        /\ memory' = CountUp(memory, h)

Ref(h) ==
    /\ Mine(h)
    /\ memory' = CountUp(memory, h) /\ Hold(h, 1) /\ UNCHANGED str

Unref(h) ==
    /\ Mine(h)
    /\ memory' = CountDown(memory, h) /\ str' = Left(memory') /\ Hold(h, -1)

\* The capacity il_string_cat() asks il_string_resize() for, if any
Grown(s, len) ==
    IF len < s.capacity THEN s.capacity
    ELSE IF len >= 2 * s.capacity THEN len + 1 ELSE 2 * s.capacity

\* il_string_cat() of what reads as t.  The bytes after its end are not read
CatText(h, t) ==
    LET s    == str[h]
        keep == CString(h)
        all  == keep \o t
        size == IF Grown(s, Len(all)) > s.capacity THEN Grown(s, Len(all))
                ELSE Len(memory[h].bytes)
    IN  /\ str' = [str EXCEPT ![h] = [s EXCEPT
                !.length = Len(all), !.capacity = Grown(s, Len(all)),
                !.text = @ \o t, !.overrun = Len(all) + 1 > size]]
        /\ memory' = [memory EXCEPT ![h].bytes =
                [i \in 1..size |-> IF i <= Len(all) THEN all[i] ELSE 0]]

\* A mutable string, as clients use them: new or a copy, and not shared
Mutable(h) == Mine(h) /\ str[h].of = h /\ memory[h].refs = 1

\* il_string_cat() and il_string_catchars()
Cat(h) ==
    /\ Mutable(h)
    /\ \E t \in Text \cup {CString(g) : g \in {g \in Used : Mine(g)}} :
            Len(str[h].text) + Len(t) <= MaxBytes /\ CatText(h, t)
    /\ UNCHANGED <<held, forgotten, source>>
-----------------------------------------------------------------------------
\* The source that a material had is given up before the other is taken,
\* which the caller has
WithoutSource == IF source = Null THEN memory ELSE CountDown(memory, source)

\* ilG_material_vertex()
SetSource(h) ==
    /\ Mine(h)
    /\ memory' = CountUp(WithoutSource, h) /\ str' = Left(memory')
    /\ source' = h /\ UNCHANGED <<held, forgotten>>

\* ilG_material_vertex_file() of a material that has none: the reference the
\* new string comes with is never given up
SetSourceFile(t) ==
    /\ source = Null
    /\ Allocate(Bin(t), 2, FALSE)
    /\ source' = NewSlot /\ forgotten' = forgotten \cup {NewSlot}
    /\ UNCHANGED held
-----------------------------------------------------------------------------
StringsInit ==
    /\ str = [h \in Slot |-> Null] /\ memory = [h \in Slot |-> Null]
    /\ held = [h \in Slot |-> 0] /\ forgotten = {} /\ source = Null

StringsNext ==
    \/ Create \/ \E t \in Text : SetSourceFile(t)
    \/ \E h \in Used :
          \/ Copy(h) \/ Ref(h) \/ Unref(h) \/ Cat(h) \/ SetSource(h)
          \/ \E p1 \in {0, 1}, p2 \in {-1, 1} : Sub(h, p1, p2)

StringsSpec == StringsInit /\ [][StringsNext]_strings
-----------------------------------------------------------------------------
StringTypes ==
    /\ str \in [Slot -> Struct \cup {Null}] /\ memory \in [Slot -> Memory \cup {Null}]
    /\ held \in [Slot -> Nat] /\ forgotten \subseteq Slot
    /\ source \in Used \cup {Null}

\* The references to a string or slice, and those to all that share the bytes of o
Holders(h) == held[h] + (IF h \in forgotten THEN 1 ELSE 0) + (IF h = source THEN 1 ELSE 0)
References(o) == UNION {{h} \X (1..Holders(h)) : h \in {h \in Used : str[h].of = o}}

(***************************************************************************)
(* The count a string has with its slices is the number of references to   *)
(* all of them, and their bytes are there as long as one is left: whoever  *)
(* has a string, a slice or the material, can use it.                      *)
(***************************************************************************)
SharedUntilLast ==
    /\ \A o \in Slot : memory[o] # Null => memory[o].refs = Cardinality(References(o))
    /\ \A h \in Slot : Holders(h) > 0 => h \in Used /\ memory[str[h].of] # Null

(***************************************************************************)
(* A string reads as what was put together: neither the ends that count    *)
(* as part of it nor what happens to another string or slice changes it.   *)
(***************************************************************************)
TextKept == \A h \in Used : Holders(h) > 0 /\ ~str[h].overrun => CString(h) = str[h].text

(***************************************************************************)
(* Concatenating writes within the bytes that are allocated, but to a copy *)
(* of a string that had capacity to spare: the copy has as much on record  *)
(* and does not allocate it.                                               *)
(***************************************************************************)
WritesInside == \A h \in Used : str[h].overrun => str[h].spare

\* Strings and slices are freed with the last reference, read as what was put
\* together, and are written inside what is allocated, but for a copy of a string
\* with room to spare (util/string.c).
StringsKeepText == SharedUntilLast /\ TextKept /\ WritesInside
=============================================================================
