-------------------------------- MODULE Storage --------------------------------
(***************************************************************************)
(* Tables and vectors of values (common/storage.c).  A table owns the      *)
(* values in it, nested tables and vectors with all they hold among them,  *)
(* and destroys each with the destructor it came with.  A name with dots,  *)
(* "gui.text", is a path through nested tables that are made on the way.   *)
(***************************************************************************)
EXTENDS Integers, Sequences, SequencesExt, FiniteSets, FiniteSetsExt

CONSTANTS Dotted,       \* names, as their parts between dots, each with
                        \* those it is within
          Number,       \* numbers that are keys
          SameBucket,   \* whether their hashes meet in one bucket
          Opaque,       \* data with a destructor
          MaxIndex,     \* bound: index into a vector
          MaxEntries    \* bound: numbers that are keys in one table

VARIABLES root,         \* the table of an object or context: its entries in
                        \* the order of the bucket, the newest first
          freed,        \* opaque -> how often its destructor was called
          lost,         \* opaques that nobody will ever destroy
          given,        \* history: opaques that were handed over
          names         \* history: name -> what was set there last

storageVars == <<root, freed, lost, given, names>>

Plain     == [tag |-> "int"]
NilValue == [tag |-> "nil"]
Invalid   == [tag |-> "invalid"]
Void(d)   == [tag |-> "void", data |-> d]
Table(t)  == [tag |-> "table", entries |-> t]
Vector(v) == [tag |-> "vector", elements |-> v]

StringKey(n) == [tag |-> "string", name |-> n]
IntKey(i)    == [tag |-> "int", number |-> i]

-----------------------------------------------------------------------------
\* The opaques in a value, as often as they are in it
RECURSIVE Opaques(_)
Opaques(v) ==
    CASE v.tag = "void"   -> <<v.data>>
      [] v.tag = "table"  -> FlattenSeq([i \in DOMAIN v.entries |-> Opaques(v.entries[i].val)])
      [] v.tag = "vector" -> FlattenSeq([i \in DOMAIN v.elements |-> Opaques(v.elements[i])])
      [] OTHER            -> <<>>

Occurrences(d, v) == Cardinality({i \in DOMAIN Opaques(v) : Opaques(v)[i] = d})

\* il_value_free(), il_table_free(), il_vector_free(): every destructor once
FreeValue(v) == [d \in Opaque |-> freed[d] + Occurrences(d, v)]

\* HASH_FIND.  The key of a name belongs to the entry.  That of a number is the
\* address of an argument of a call long returned: whatever is there now may
\* be taken for any number of its bucket, or for none.
Candidates(t, key) ==
    IF key.tag = "string" THEN {Min({i \in DOMAIN t : t[i].key = key} \cup {Len(t) + 1})}
    ELSE {i \in DOMAIN t : t[i].key.tag = "int" /\ (SameBucket \/ t[i].key = key)}
         \cup {Len(t) + 1}

Value(t, i) == IF i \in DOMAIN t THEN t[i].val ELSE Invalid

\* Mutant of SetV: HASH_DEL is forgotten, the entry stays behind the new one
SetVKeeping(t, i, key, val) == <<[key |-> key, val |-> val]>> \o t

\* il_table_setv(), with the entry that HASH_FIND found
SetV(t, i, key, val) ==
    <<[key |-> key, val |-> val]>> \o IF i \in DOMAIN t THEN RemoveAt(t, i) ELSE t

NameIndex(t, n) == CHOOSE i \in Candidates(t, StringKey(n)) : TRUE

\* il_table_mgets()
RECURSIVE GetS(_, _)
GetS(t, path) ==
    LET v == Value(t, NameIndex(t, Head(path)))
    IN  CASE Len(path) = 1   -> v
          [] v.tag = "table" -> GetS(v.entries, Tail(path))
          [] OTHER           -> Invalid

\* il_table_sets(): nested tables are made where there is nothing, "like mkdir -p"
MayDescend(v) == v.tag \in {"table", "invalid"}

\* The table with val in it, the value val replaces, and whether it does
RECURSIVE SetS(_, _, _)
SetS(t, path, val) ==
    LET key  == StringKey(Head(path))
        i    == NameIndex(t, Head(path))
        v    == Value(t, i)
        deep == SetS(IF v.tag = "table" THEN v.entries ELSE <<>>, Tail(path), val)
    IN  CASE Len(path) = 1    -> [table |-> SetV(t, i, key, val), old |-> v, done |-> TRUE]
          [] ~MayDescend(v)   -> [table |-> t, old |-> Invalid, done |-> FALSE]
          [] v.tag = "table"  -> [deep EXCEPT !.table = [t EXCEPT ![i].val = Table(deep.table)]]
          [] OTHER            -> [deep EXCEPT !.table = SetV(t, i, key, Table(deep.table))]

\* il_vector_set(): elements between the end and the index become zero, which
\* is IL_INVALID; the element that was there is not destroyed
SetElement(v, i, val) ==
    [k \in 1..Max({i, Len(v)}) |-> IF k = i THEN val ELSE IF k > Len(v) THEN Invalid ELSE v[k]]

\* The table with another value in the place of the one at path
RECURSIVE InPlace(_, _, _)
InPlace(t, path, val) ==
    LET i == NameIndex(t, Head(path))
    IN  [t EXCEPT ![i].val = IF Len(path) = 1 THEN val
                             ELSE Table(InPlace(t[i].val.entries, Tail(path), val))]

\* il_value_copy() of a value that is there: opaques with a destructor, tables
\* and vectors become nil
CopyValue(v) == IF v.tag \in {"void", "table", "vector"} THEN NilValue ELSE v
-----------------------------------------------------------------------------
Init == /\ root = <<>> /\ freed = [d \in Opaque |-> 0] /\ lost = {} /\ given = {}
        /\ names = [p \in Dotted |-> Invalid]

Within(p, q) == p # q /\ IsPrefix(p, q)

\* The flat map of names: a name that is set takes the place of all within it
SetName(p, val) ==
    names' = IF \E q \in Dotted : Within(q, p) /\ names[q].tag \notin {"table", "invalid"}
             THEN names
             ELSE [q \in Dotted |-> CASE q = p        -> val
                                      [] Within(p, q) -> Invalid
                                      [] Within(q, p) -> Table(<<>>)
                                      [] OTHER        -> names[q]]

Set(p, val) ==
    LET r == SetS(root, p, val)
    IN  /\ root' = r.table
        /\ freed' = FreeValue(r.old)
        /\ lost' = lost \cup IF r.done THEN {} ELSE ToSet(Opaques(val))
        /\ given' = given \cup ToSet(Opaques(val))
        /\ SetName(p, val)

\* il_table_setsi() and the like
SetByName(p) ==
    \/ \E val \in {Plain, Table(<<>>)} : Set(p, val)
    \/ \E d \in Opaque \ given : Set(p, Void(d)) \/ Set(p, Vector(<<Plain, Void(d)>>))

\* il_value_copy() of what is at p, to q
CopyByName(p, q) ==
    /\ GetS(root, p) # Invalid
    /\ Set(q, CopyValue(GetS(root, p)))

\* il_table_seti(): HASH_FIND may or may not find what was there
SetByNumber(k, val) ==
    \E i \in Candidates(root, IntKey(k)) :
        /\ Cardinality({j \in DOMAIN root : root[j].key.tag = "int"}) < MaxEntries \/ i \in DOMAIN root
        /\ root' = SetV(root, i, IntKey(k), val)
        /\ freed' = FreeValue(Value(root, i))
        /\ given' = given \cup ToSet(Opaques(val))
        /\ UNCHANGED <<lost, names>>

\* il_vector_set() on what il_table_mgetsa() returns
SetInVector(p, i, val) ==
    LET v == GetS(root, p)
    IN  /\ v.tag = "vector"
        /\ LET w == Vector(SetElement(v.elements, i, val))
           IN  /\ root' = InPlace(root, p, w)
               /\ names' = [names EXCEPT ![p] = w]
               /\ lost' = lost \cup (ToSet(Opaques(v)) \ ToSet(Opaques(w)))
               /\ given' = given \cup ToSet(Opaques(val))
               /\ UNCHANGED freed

\* il_table_free(), and a new table
Free ==
    /\ freed' = FreeValue(Table(root))
    /\ root' = <<>>
    /\ names' = [p \in Dotted |-> Invalid]
    /\ UNCHANGED <<lost, given>>

Next == \/ \E p \in Dotted :
              \/ SetByName(p)
              \/ \E q \in Dotted : CopyByName(p, q)
              \/ \E i \in 1..MaxIndex : \/ SetInVector(p, i, Plain)
                                        \/ \E d \in Opaque \ given : SetInVector(p, i, Void(d))
        \/ \E k \in Number : \/ SetByNumber(k, Plain)
                             \/ \E d \in Opaque \ given : SetByNumber(k, Void(d))
        \/ Free

Spec == Init /\ [][Next]_storageVars
-----------------------------------------------------------------------------
StorageTypes ==
    /\ \A i \in DOMAIN root :
          /\ root[i].key \in {StringKey(Head(p)) : p \in Dotted} \cup {IntKey(k) : k \in Number}
          /\ root[i].val.tag \in {"int", "nil", "void", "table", "vector"}
    /\ freed \in [Opaque -> Nat] /\ lost \subseteq Opaque /\ given \subseteq Opaque
    /\ DOMAIN names = Dotted

(***************************************************************************)
(* Every opaque that was handed over is in the table once and alive, or    *)
(* was destroyed once, or was lost: to a name behind something that is no  *)
(* table, or under a new element of a vector.  It is so through nesting,   *)
(* replacing, entries that are not found again and il_table_free().        *)
(***************************************************************************)
OpaqueOwnedOnce ==
    \A d \in Opaque :
        Occurrences(d, Table(root)) + freed[d] + Cardinality(lost \cap {d})
            = Cardinality(given \cap {d})

(***************************************************************************)
(* The nested tables behave as one flat map of names: a name gives what    *)
(* was last set there, nothing once it, or a name it is within, was set to *)
(* something else, and stands for a table while there are names within it. *)
(* Numbers that are keys never get in the way.                             *)
(***************************************************************************)
FlatMapOfNames ==
    \A p \in Dotted :
        LET v == GetS(root, p)
        IN  IF names[p].tag = "table" THEN v.tag = "table" ELSE v = names[p]
=============================================================================
