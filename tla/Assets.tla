-------------------------------- MODULE Assets --------------------------------
(***************************************************************************)
(* Counted objects (common/base.c) and the virtual file system that is     *)
(* built from them: files and directories on disk, directories behind a    *)
(* prefix, and unions of directories (asset/).  The destructor of an       *)
(* object releases the objects it is made of, so that one il_unref may     *)
(* bring down many.  What is on disk is left open.                         *)
(***************************************************************************)
EXTENDS Integers, Sequences, SequencesExt, FiniteSets, FiniteSetsExt

CONSTANTS Object,       \* addresses of objects
          Slot,         \* pointers that il_weakref knows
          NULL,         \* the null pointer
          Descriptor,   \* 0 .. n, the file descriptors of the process
          MaxOwned,     \* bound: references that clients hold to one object
          MaxParts      \* bound: directories in a union

AssetsAssumption ==
    /\ NULL \notin Object
    /\ Descriptor \subseteq Nat /\ 0 \in Descriptor
    /\ MaxOwned \in Nat \ {0}

VARIABLES
    kind,           \* object -> its type, "free" when it is not allocated
    refs,           \* object -> its count
    parts,          \* object -> the directories in a prefix or union
    fd,             \* file -> its descriptor, 0 until it is opened
    mapped,         \* the files whose contents are mapped
    weak_refs,      \* object -> slots to clear when it is destroyed
    slot,           \* slot -> where it points
    table,          \* descriptor -> the file it was opened for, NULL if closed
    unrefs,         \* destructors under way, the innermost first
    owned           \* history: object -> references that clients hold

memory == <<kind, parts, fd, mapped, table>>
weak   == <<weak_refs, slot>>
assetVars == <<memory, refs, weak, unrefs, owned>>

Dirs == {"dir", "prefix", "union"}
Alive(o) == kind[o] # "free" /\ \A k \in DOMAIN unrefs : unrefs[k].object # o

\* Whoever opened descriptor 0 before the program did
Stdin == "stdin"

AssetsInit ==
    /\ kind = [o \in Object |-> "free"] /\ refs = [o \in Object |-> 0]
    /\ parts = [o \in Object |-> <<>>]
    /\ fd = [o \in Object |-> 0] /\ mapped = {}
    /\ weak_refs = [o \in Object |-> <<>>] /\ slot = [s \in Slot |-> NULL]
    /\ table = [d \in Descriptor |-> IF d = 0 THEN Stdin ELSE NULL]
    /\ unrefs = <<>> /\ owned = [o \in Object |-> 0]
-----------------------------------------------------------------------------
(***************************************************************************)
(* il_new(), il_ref(), il_unref()                                          *)
(***************************************************************************)
Client == unrefs = <<>>

\* calloc() and il_init(): one reference, owned by the caller
Create(o, k, p) ==
    /\ kind[o] = "free"
    /\ kind' = [kind EXCEPT ![o] = k]
    /\ parts' = [parts EXCEPT ![o] = p]
    /\ fd' = [fd EXCEPT ![o] = 0]
    /\ weak_refs' = [weak_refs EXCEPT ![o] = <<>>]
    /\ UNCHANGED <<mapped, table, slot>>

\* Mutant of Release: <= for <, one reference too early
ReleaseEarly(o, stack) ==
    /\ refs' = [refs EXCEPT ![o] = @ - 1]
    /\ IF refs[o] <= 2
       THEN /\ unrefs' = <<[object |-> o, next |-> 1]>> \o stack
            /\ slot' = [s \in Slot |-> IF s \in ToSet(weak_refs[o]) THEN NULL ELSE slot[s]]
       ELSE unrefs' = stack /\ UNCHANGED slot

\* il_unref(): the last one clears the weak references and calls the destructor
Release(o, stack) ==
    /\ refs' = [refs EXCEPT ![o] = @ - 1]
    /\ IF refs[o] <= 1
       THEN /\ unrefs' = <<[object |-> o, next |-> 1]>> \o stack
            /\ slot' = [s \in Slot |-> IF s \in ToSet(weak_refs[o]) THEN NULL ELSE slot[s]]
       ELSE unrefs' = stack /\ UNCHANGED slot

\* A client that owns a reference gives it up
Unref(o) ==
    /\ Client
    /\ owned[o] > 0
    /\ owned' = [owned EXCEPT ![o] = @ - 1]
    /\ Release(o, <<>>)
    /\ UNCHANGED <<memory, weak_refs>>

Ref(o) ==
    /\ Client
    /\ owned[o] \in 1..(MaxOwned - 1)
    /\ refs' = [refs EXCEPT ![o] = @ + 1]
    /\ owned' = [owned EXCEPT ![o] = @ + 1]
    /\ UNCHANGED <<memory, weak, unrefs>>

\* union_des(), prefix_des(): the next directory
DestroyPart ==
    /\ unrefs # <<>>
    /\ LET f == Head(unrefs)
       IN  /\ f.next <= Len(parts[f.object])
           /\ Release(parts[f.object][f.next], <<[f EXCEPT !.next = @ + 1]>> \o Tail(unrefs))
    /\ UNCHANGED <<memory, weak_refs, owned>>

\* The end of the destructor, stdiofile_des() among them: munmap() and close(),
\* of descriptor 0 for a file that was never opened; then free()
DestroyEnd ==
    /\ unrefs # <<>>
    /\ LET f == Head(unrefs)
       IN  /\ f.next > Len(parts[f.object])
           /\ kind' = [kind EXCEPT ![f.object] = "free"]
           /\ mapped' = mapped \ {f.object}
           /\ table' = IF kind[f.object] = "file"
                       THEN [d \in Descriptor |-> IF d = fd[f.object] THEN NULL ELSE table[d]]
                       ELSE table
    /\ unrefs' = Tail(unrefs)
    /\ UNCHANGED <<parts, fd, refs, weak, owned>>

\* il_weakref(), on a pointer that is not in use
WeakRef(o, s) ==
    /\ Client
    /\ Alive(o) /\ slot[s] = NULL
    /\ weak_refs' = [weak_refs EXCEPT ![o] = Append(@, s)]
    /\ slot' = [slot EXCEPT ![s] = o]
    /\ UNCHANGED <<memory, refs, unrefs, owned>>

\* The removal by the last element in il_weakunref()
Unlisted(l, s) ==
    LET i == SelectInSeq(l, LAMBDA x : x = s)
    IN  IF i = 0 THEN l ELSE Front([l EXCEPT ![i] = Last(l)])

\* il_weakunref()
WeakUnref(o, s) ==
    /\ Client
    /\ Alive(o) /\ slot[s] = o
    /\ weak_refs' = [weak_refs EXCEPT ![o] = Unlisted(@, s)]
    /\ slot' = [slot EXCEPT ![s] = NULL]
    /\ UNCHANGED <<memory, refs, unrefs, owned>>
-----------------------------------------------------------------------------
(***************************************************************************)
(* Files and directories                                                   *)
(***************************************************************************)

\* A new object with its one reference in the hands of the client
Obtain(o, k) ==
    /\ Create(o, k, <<>>)
    /\ refs' = [refs EXCEPT ![o] = 1]
    /\ owned' = [owned EXCEPT ![o] = 1]
    /\ UNCHANGED unrefs

\* ilA_stdiodir(), ilA_stdiofile()
Open(o, k) == Client /\ k \in {"dir", "file"} /\ Obtain(o, k)

\* ilA_stdiofile() of a file that does not exist: il_unref() of the new object
OpenMissing(o) ==
    /\ Client
    /\ Create(o, "file", <<>>)
    /\ refs' = [refs EXCEPT ![o] = 0]
    /\ unrefs' = <<[object |-> o, next |-> 1]>>
    /\ UNCHANGED owned

\* ilA_contents(), stdiofile_contents(): open() takes the lowest descriptor
\* that is closed, or fails
Contents(o) ==
    /\ Client
    /\ kind[o] = "file" /\ owned[o] > 0 /\ o \notin mapped
    /\ LET closed == {d \in Descriptor : table[d] = NULL}
       IN  \/ /\ closed # {}
              /\ fd' = [fd EXCEPT ![o] = Min(closed)]
              /\ table' = [table EXCEPT ![Min(closed)] = o]
              /\ mapped' = mapped \cup {o}
           \/ /\ fd' = [fd EXCEPT ![o] = -1]
              /\ UNCHANGED <<table, mapped>>
    /\ UNCHANGED <<kind, parts, refs, weak, unrefs, owned>>

\* The objects that o is made of, itself included
Closed(S) == \A x \in S : \A i \in DOMAIN parts[x] : parts[x][i] \in S

Reach(o) == {x \in Object : \A S \in SUBSET Object : o \in S /\ Closed(S) => x \in S}

\* ilA_lookup() finds a file or a directory in one of the directories on disk
Lookup(d, o, k) ==
    /\ Client
    /\ owned[d] > 0
    /\ \E e \in Reach(d) : kind[e] = "dir"
    /\ Open(o, k)

\* ilA_prefix()
MakePrefix(o, d) ==
    /\ Client
    /\ owned[d] > 0 /\ kind[d] \in Dirs
    /\ Create(o, "prefix", <<d>>)
    /\ refs' = [refs EXCEPT ![o] = 1, ![d] = @ + 1]
    /\ owned' = [owned EXCEPT ![o] = 1]
    /\ UNCHANGED unrefs

\* ilA_union() of two directories
MakeUnion(o, a, b) ==
    /\ Client
    /\ owned[a] > 0 /\ kind[a] \in {"dir", "prefix"}
    /\ owned[b] > 0 /\ kind[b] \in {"dir", "prefix"}
    /\ Create(o, "union", <<a, b>>)
    /\ refs' = [x \in Object |-> IF x = o THEN 1
                                 ELSE refs[x] + (IF x = a THEN 1 ELSE 0) + (IF x = b THEN 1 ELSE 0)]
    /\ owned' = [owned EXCEPT ![o] = 1]
    /\ UNCHANGED unrefs

\* ilA_union() of a union and a directory, in either order: the union grows and
\* is returned, without a reference of its own.  Clients do not build a circle,
\* which il_unref() could not free and ilA_lookup() would follow for ever.
ExtendUnion(u, d) ==
    /\ Client
    /\ owned[u] > 0 /\ kind[u] = "union"
    /\ owned[d] > 0 /\ kind[d] \in Dirs
    /\ u \notin Reach(d)
    /\ Len(parts[u]) < MaxParts
    /\ parts' = [parts EXCEPT ![u] = Append(@, d)]
    /\ refs' = [refs EXCEPT ![d] = @ + 1]
    /\ UNCHANGED <<kind, fd, mapped, table, weak, unrefs, owned>>

Destroying == DestroyPart \/ DestroyEnd

AssetsNext ==
        \/ \E o \in Object :
              \/ Unref(o) \/ Ref(o) \/ OpenMissing(o) \/ Contents(o)
              \/ \E k \in {"file", "dir"} : Open(o, k)
              \/ \E d \in Object : MakePrefix(o, d) \/ ExtendUnion(o, d)
              \/ \E a, b \in Object : MakeUnion(o, a, b)
              \/ \E d \in Object, k \in {"file", "dir"} : Lookup(d, o, k)
              \/ \E s \in Slot : WeakRef(o, s) \/ WeakUnref(o, s)
        \/ Destroying

AssetsSpec == AssetsInit /\ [][AssetsNext]_assetVars
-----------------------------------------------------------------------------
AssetTypes ==
    /\ kind \in [Object -> {"free", "file"} \cup Dirs] /\ refs \in [Object -> Nat]
    /\ parts \in [Object -> Seq(Object)]
    /\ fd \in [Object -> Descriptor \cup {-1}] /\ mapped \subseteq Object
    /\ weak_refs \in [Object -> Seq(Slot)] /\ slot \in [Slot -> Object \cup {NULL}]
    /\ table \in [Descriptor -> Object \cup {NULL, Stdin}]
    /\ unrefs \in Seq([object : Object, next : Nat])
    /\ owned \in [Object -> 0..MaxOwned]

\* What of o's parts a destructor of o, if it runs, has still to give up
Left(stack, o, i) == \A k \in DOMAIN stack : stack[k].object = o => i >= stack[k].next

\* The references to x that unions and prefixes hold
Held(o, x) == {i \in DOMAIN parts[o] : kind[o] # "free" /\ parts[o][i] = x /\ Left(unrefs, o, i)}

Holders(x) == UNION {{o} \X Held(o, x) : o \in Object}

(***************************************************************************)
(* The count of an object is the number of references to it: those clients *)
(* hold and those held by unions and prefixes, in the middle of a cascade  *)
(* of destructors too.  Nothing is destroyed while it is referred to,      *)
(* nothing twice, and what nobody refers to is gone.                       *)
(***************************************************************************)
RefsCountOwners ==
    \A x \in Object :
        IF Alive(x)
        THEN refs[x] = owned[x] + Cardinality(Holders(x)) /\ refs[x] > 0
        ELSE owned[x] = 0 /\ Holders(x) = {}

(***************************************************************************)
(* "This will be set to NULL when the object is freed" (base.h): a weak    *)
(* reference points to an object that is alive and lists it, or is null,   *)
(* and a pointer that was taken back is in no list.                        *)
(***************************************************************************)
WeakRefsLive ==
    /\ \A s \in Slot : slot[s] # NULL => Alive(slot[s]) /\ s \in ToSet(weak_refs[slot[s]])
    /\ \A o \in Object : Alive(o) => \A i \in DOMAIN weak_refs[o] : slot[weak_refs[o][i]] = o

(***************************************************************************)
(* Descriptors other than 0 belong to one file each for as long as it      *)
(* exists, and none stays open when its file is gone.  (Descriptor 0 is    *)
(* closed by every file that was never opened.)                            *)
(***************************************************************************)
DescriptorsOwned ==
    \A d \in Descriptor \ {0} :
        /\ table[d] # NULL => /\ kind[table[d]] = "file"
                              /\ fd[table[d]] = d
        /\ \A o \in Object : kind[o] = "file" /\ fd[o] = d => table[d] = o

\* What common/base.c and asset/ promise of objects, pointers and descriptors
ObjectsOwned == RefsCountOwners /\ WeakRefsLive /\ DescriptorsOwned
=============================================================================
