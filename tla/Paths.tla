-------------------------------- MODULE Paths --------------------------------
(***************************************************************************)
(* Paths (asset/path.c) and the search for a file in directories, unions   *)
(* and directories behind a prefix (asset/), as for the shaders of         *)
(* graphics.c.  A string is the sequence of its parts between slashes, and *)
(* a part a sequence of letters: "/u/.." is <<"", "u", "..">>.             *)
(***************************************************************************)
EXTENDS Integers, Sequences, SequencesExt, FiniteSets, FiniteSetsExt

CONSTANTS String,       \* what users and scripts write for a path
          Directory,    \* for a directory to search
          Prefix,       \* for a prefix
          Home, Cwd,    \* $HOME and the working directory, absolute strings
          File,         \* places where files may be
          MaxLength,    \* bound: letters and slashes in a string that is put
                        \* together
          MaxDirs       \* bound: directories to search

VARIABLES path,         \* a path in the hands of a script
          disk,         \* the places where there are files
          search,       \* directories in the order of the union
          asked         \* the last path looked up; Lookup(asked) is what it found

searchVars == <<disk, search, asked>>
pathVars   == <<path, searchVars>>

Here == <<".">>
Up   == <<".", ".">>
NoFile == <<>>        \* the root, which is no file

IsAbsolute(s) == Len(s) > 1 /\ Head(s) = <<>>
-----------------------------------------------------------------------------
\* Mutant of AddNode: the part between two slashes counts as a name
AddNodeKeepingEmpty(p, tok) ==
    IF tok = Here THEN p
    ELSE IF tok = Up /\ Len(p.nodes) > p.drops THEN [p EXCEPT !.nodes = Front(@)]
    ELSE [nodes |-> Append(p.nodes, tok), drops |-> p.drops + IF tok = Up THEN 1 ELSE 0]

\* The loop of ilA_path_string(): ".." takes back a name, but not another ".."
AddNode(p, tok) ==
    IF tok \in {<<>>, Here} THEN p
    ELSE IF tok = Up /\ Len(p.nodes) > p.drops THEN [p EXCEPT !.nodes = Front(@)]
    ELSE [nodes |-> Append(p.nodes, tok), drops |-> p.drops + IF tok = Up THEN 1 ELSE 0]

\* ilA_path_string(), with $HOME in front of a string that begins with "~"
FromString(s) ==
    LET t == IF Head(s) # <<>> /\ Head(Head(s)) = "~" THEN Home \o s ELSE s
    IN  [path |-> t, absolute |-> IsAbsolute(t),
         nodes |-> FoldLeft(AddNode, [nodes |-> <<>>, drops |-> 0], t).nodes]

\* ilA_path_copy(), which forgets that a path is absolute
Copy(p) == [p EXCEPT !.absolute = FALSE]

\* ilA_path_tostr(): the root becomes the empty string
ToStr(p) ==
    CASE p.nodes = <<>> -> << <<>> >>
      [] p.absolute     -> << <<>> >> \o p.nodes
      [] OTHER          -> p.nodes

\* il_string_cat(): the last part of s and the first of t become one
Glue(s, t) == Front(s) \o << Last(s) \o Head(t) >> \o Tail(t)

\* ilA_path_concat(): a slash comes after a relative path, none after an
\* absolute one
Concat(a, b) == FromString(IF a.absolute THEN Glue(a.path, b.path) ELSE a.path \o b.path)

\* ilA_path_absolute(), ilA_path_cwd()
Absolute(p) ==
    IF p.absolute THEN Copy(p)
    ELSE [Concat(FromString(Cwd), p) EXCEPT !.absolute = TRUE]

\* il_string_cmp() of two names: as far as the shorter goes
NameEq(x, y) == IsPrefix(x, y) \/ IsPrefix(y, x)

\* ilA_path_cmp()
Cmp(a, b) ==
    IF \E i \in DOMAIN a.nodes \cap DOMAIN b.nodes : ~NameEq(a.nodes[i], b.nodes[i]) THEN 1
    ELSE IF Len(a.nodes) < Len(b.nodes) THEN -1
    ELSE 0

IsBelow(a, b) == Cmp(b, a) = -1

\* ilA_path_relativeTo(), of a path that is below
RelativeTo(a, b) ==
    LET rest == SubSeq(a.nodes, Len(b.nodes) + 1, Len(a.nodes))
    IN  [path |-> rest, nodes |-> rest, absolute |-> FALSE]
-----------------------------------------------------------------------------
(***************************************************************************)
(* Where a string leads: the reference                                     *)
(***************************************************************************)
Walk(from, s) ==
    FoldLeft(LAMBDA at, tok : IF tok \in {<<>>, Here} THEN at
                              ELSE IF tok # Up THEN Append(at, tok)
                              ELSE IF at = <<>> THEN at ELSE Front(at), from, s)

Place(s) == Walk(IF IsAbsolute(s) THEN <<>> ELSE Walk(<<>>, Cwd), s)
-----------------------------------------------------------------------------
(***************************************************************************)
(* Directories                                                             *)
(***************************************************************************)

\* stat() of what ilA_path_tochars() makes of a path
Stat(s) == IF s # << <<>> >> /\ Place(s) \in disk THEN Place(s) ELSE NoFile

\* Mutant of DirLookup: the directory keeps its path as it is, absolute
DirLookupAbsolute(d, p) == Stat(ToStr(Concat(FromString(d.path.path), p)))

\* stdiodir_lookup()
DirLookup(d, p) == Stat(ToStr(Concat(d.path, p)))

\* prefix_lookup(), in front of one directory
EntryLookup(d, p) ==
    IF d.prefix = <<>> THEN DirLookup(d, p)
    ELSE IF IsBelow(p, Head(d.prefix)) THEN DirLookup(d, RelativeTo(p, Head(d.prefix)))
    ELSE NoFile

\* union_lookup(): the first directory that has it
Lookup(p) ==
    LET i == SelectInSeq(search, LAMBDA d : EntryLookup(d, p) # NoFile)
    IN  IF i = 0 THEN NoFile ELSE EntryLookup(search[i], p)
-----------------------------------------------------------------------------
Init == /\ path = FromString(Cwd)
        /\ disk \in SUBSET File
        /\ search = <<>> /\ asked = path

\* asset.path: path "..."
New(s) == path' = FromString(s) /\ UNCHANGED searchVars

CopyPath == path' = Copy(path) /\ UNCHANGED searchVars

Fits(p) == Len(FlattenSeq(p.path)) + Len(p.path) - 1 <= MaxLength

\* path .. "..."
ConcatWith(s) ==
    /\ Fits(Concat(path, FromString(s)))
    /\ path' = Concat(path, FromString(s))
    /\ UNCHANGED searchVars

MakeAbsolute ==
    /\ Fits(Absolute(path))
    /\ path' = Absolute(path)
    /\ UNCHANGED searchVars

\* path - "...", nil when it is not below
MakeRelative(s) ==
    /\ IsBelow(path, FromString(s))
    /\ path' = RelativeTo(path, FromString(s))
    /\ UNCHANGED searchVars

\* ilA_stdiodir() or a prefix in front of it, at the end of the union
AddDirectory(s, prefix) ==
    /\ Len(search) < MaxDirs
    /\ search' = Append(search, [path |-> Copy(FromString(s)), prefix |-> prefix])
    /\ UNCHANGED <<path, disk, asked>>

\* ilA_lookup() of the name of a shader
LookUp(s) ==
    /\ search # <<>>
    /\ asked' = FromString(s)
    /\ UNCHANGED <<path, disk, search>>

PathStep == \/ CopyPath \/ MakeAbsolute
            \/ \E s \in String : New(s) \/ ConcatWith(s) \/ MakeRelative(s)

SearchStep == \/ \E s \in Directory :
                    \/ AddDirectory(s, <<>>)
                    \/ \E t \in Prefix : AddDirectory(s, <<Copy(FromString(t))>>)
              \/ \E s \in String : LookUp(s)

Next == PathStep \/ SearchStep

Spec == Init /\ [][Next]_pathVars
-----------------------------------------------------------------------------
IsPath(p) ==
    /\ p.absolute \in BOOLEAN
    /\ \A i \in DOMAIN p.nodes : p.nodes[i] \notin {<<>>, Here}

PathTypes ==
    /\ IsPath(path) /\ disk \subseteq File
    /\ Len(search) <= MaxDirs /\ \A i \in DOMAIN search : IsPath(search[i].path)
    /\ IsPath(asked)

(***************************************************************************)
(* However a path came about, by parsing, copying, joining or chopping,    *)
(* the names it was taken apart into lead to the place its string leads    *)
(* to, from the root and from the working directory, with any ".." in it.  *)
(***************************************************************************)
NodesMatchPath ==
    \A p \in {path, asked} : Place(p.path) = Walk(IF IsAbsolute(p.path) THEN <<>> ELSE Place(<<Here>>), p.nodes)

\* The directory of the empty string is the root, since a slash comes after it
DirPlace(d) == IF d.path.path = << <<>> >> THEN <<>> ELSE Place(d.path.path)

\* Where the reference looks for p in one directory: beside it behind a prefix,
\* nowhere if p is not below that
Expected(d, p) ==
    IF d.prefix = <<>> THEN Walk(DirPlace(d), p.path)
    ELSE LET b == Head(d.prefix)
         IN  IF b.nodes # p.nodes /\ IsPrefix(b.nodes, p.nodes)
             THEN Walk(DirPlace(d), SubSeq(p.nodes, Len(b.nodes) + 1, Len(p.nodes)))
             ELSE NoFile

(***************************************************************************)
(* A lookup finds the file in the first directory that has it, where the   *)
(* strings of the directory, of the prefix and of the name lead one after  *)
(* the other, although ilA_path_copy() and ilA_path_concat() both take     *)
(* absolute paths for relative ones.  (The names here are not beginnings   *)
(* of one another, which il_string_cmp() cannot tell apart.)               *)
(***************************************************************************)
FirstMatchFound ==
    search # <<>> => Lookup(asked) =
        LET hits == {i \in DOMAIN search : Expected(search[i], asked) \in disk}
        IN  IF hits = {} THEN NoFile ELSE Expected(search[Min(hits)], asked)
=============================================================================
