-------------------------------- MODULE Loader --------------------------------
(***************************************************************************)
(* The module loader (loader.c): il_load_module() opens a library, loads   *)
(* the modules it depends on by calling itself, runs the bootstrap of the  *)
(* library and only then counts it as loaded.  Libraries may be missing,   *)
(* lack a bootstrap, or fail in it.  The dependencies form no circle,      *)
(* which il_load_module() would follow for ever, and bootstraps load no    *)
(* modules themselves.                                                     *)
(***************************************************************************)
EXTENDS Naturals, Sequences, SequencesExt

CONSTANTS Library,      \* names of modules
          Deps,         \* library -> what its il_dependencies() returns
          Absent,       \* those that are in no search path or cannot be opened
          NoBootstrap,  \* those without an il_bootstrap()
          Ignored,      \* il_ignore_module()
          MaxCalls      \* bound: calls of il_load_module(), il_close_module() by clients

\* Of the modules of any set, one depends on none of the set: no circle
LoaderAssumption ==
    /\ Deps \in [Library -> Seq(Library)] /\ MaxCalls \in Nat
    /\ \A S \in SUBSET Library :
          S # {} => \E m \in S : \A i \in DOMAIN Deps[m] : Deps[m][i] \notin S

VARIABLES
    loaded,         \* il_loaded
    opens,          \* library -> dlopen() less dlclose()
    frames,         \* il_load_module() under way, the innermost first
    result,         \* what the last one returned
    entries,        \* il_load_module_dir(): entries it has still to load
    boots,          \* history: library -> bootstraps run since it was closed
    calls           \* calls left to the clients

loading == <<opens, frames, result>>
loaderVars == <<loaded, loading, entries, boots, calls>>

Frame == [library : Library, next : Nat]

LoaderInit ==
    /\ loaded = {} /\ opens = [m \in Library |-> 0]
    /\ frames = <<>> /\ result = "none"
    /\ entries = Library \ (Absent \cup Ignored)
    /\ boots = [m \in Library |-> 0] /\ calls = MaxCalls
-----------------------------------------------------------------------------
\* The first half of il_load_module(), up to dlopen()
Load(m, rest) ==
    IF m \in loaded \/ m \in Absent
    THEN /\ result' = IF m \in loaded THEN "success" ELSE "failure"
         /\ frames' = rest
         /\ UNCHANGED opens
    ELSE /\ result' = "none"
         /\ frames' = <<[library |-> m, next |-> 1]>> \o rest
         /\ opens' = [opens EXCEPT ![m] = @ + 1]

\* il_load_module_dir(): readdir() returns the entries in any order
LoadEntry(m) ==
    /\ frames = <<>>
    /\ m \in entries
    /\ entries' = entries \ {m}
    /\ Load(m, <<>>)
    /\ UNCHANGED <<loaded, boots, calls>>

\* il_load_module() by a client: main() first loads the directory
LoadByName(m) ==
    /\ frames = <<>> /\ entries = {}
    /\ calls > 0 /\ calls' = calls - 1
    /\ Load(m, <<>>)
    /\ UNCHANGED <<loaded, entries, boots>>

Top == Head(frames)

\* Mutant of LoadDependency: the index is not incremented
LoadDependencyAgain ==
    /\ frames # <<>> /\ result = "none"
    /\ Top.next <= Len(Deps[Top.library])
    /\ Load(Deps[Top.library][Top.next], frames)
    /\ UNCHANGED <<loaded, entries, boots, calls>>

\* for (i = 0; mods[i]; i++) il_load_module(mods[i])
LoadDependency ==
    /\ frames # <<>> /\ result = "none"
    /\ Top.next <= Len(Deps[Top.library])
    /\ Load(Deps[Top.library][Top.next], <<[Top EXCEPT !.next = @ + 1]>> \o Tail(frames))
    /\ UNCHANGED <<loaded, entries, boots, calls>>

\* Mutant of Depend: goes on without the dependency, as on Windows
DependAnyway ==
    /\ frames # <<>> /\ result # "none"
    /\ result' = "none"
    /\ UNCHANGED <<loaded, opens, frames, entries, boots, calls>>

\* The dependency is loaded; or the module fails too, and stays open
Depend ==
    /\ frames # <<>> /\ result # "none"
    /\ IF result = "success"
       THEN result' = "none" /\ UNCHANGED frames
       ELSE frames' = Tail(frames) /\ UNCHANGED result
    /\ UNCHANGED <<loaded, opens, entries, boots, calls>>

DepsDone ==
    frames # <<>> /\ result = "none" /\ Top.next > Len(Deps[Top.library])

\* func(argc, argv): registered as loaded whatever it returns
Bootstrap ==
    /\ DepsDone /\ Top.library \notin NoBootstrap
    /\ result' \in {"success", "failure"}
    /\ loaded' = loaded \cup {Top.library}
    /\ boots' = [boots EXCEPT ![Top.library] = @ + 1]
    /\ frames' = Tail(frames)
    /\ UNCHANGED <<opens, entries, calls>>

\* dlsym() finds no il_bootstrap
BootstrapMissing ==
    /\ DepsDone /\ Top.library \in NoBootstrap
    /\ result' = "failure"
    /\ opens' = [opens EXCEPT ![Top.library] = @ - 1]
    /\ frames' = Tail(frames)
    /\ UNCHANGED <<loaded, entries, boots, calls>>

\* Mutant of Close: without the lookup
CloseUnlisted(m) ==
    /\ frames = <<>>
    /\ \A n \in loaded : m \notin ToSet(Deps[n])
    /\ calls > 0 /\ calls' = calls - 1
    /\ loaded' = loaded \ {m}
    /\ opens' = [opens EXCEPT ![m] = @ - 1]
    /\ boots' = [boots EXCEPT ![m] = 0]
    /\ UNCHANGED <<frames, result, entries>>

\* il_close_module(), of a module that no loaded module depends on
Close(m) ==
    /\ frames = <<>> /\ m \in loaded
    /\ \A n \in loaded : m \notin ToSet(Deps[n])
    /\ calls > 0 /\ calls' = calls - 1
    /\ loaded' = loaded \ {m}
    /\ opens' = [opens EXCEPT ![m] = @ - 1]
    /\ boots' = [boots EXCEPT ![m] = 0]
    /\ UNCHANGED <<frames, result, entries>>

Step == LoadDependency \/ Depend \/ Bootstrap \/ BootstrapMissing

\* No call is under way
Idle == frames = <<>> /\ entries = {} /\ UNCHANGED loaderVars

LoaderNext == Step \/ Idle \/ \E m \in Library : LoadEntry(m) \/ LoadByName(m) \/ Close(m)

LoaderSpec == LoaderInit /\ [][LoaderNext]_loaderVars
-----------------------------------------------------------------------------
LoaderTypes ==
    /\ loaded \subseteq Library /\ opens \in [Library -> Nat]
    /\ frames \in Seq(Frame) /\ result \in {"none", "success", "failure"}
    /\ entries \subseteq Library
    /\ boots \in [Library -> Nat] /\ calls \in 0..MaxCalls

(***************************************************************************)
(* Whatever fails and in whatever order a directory is read, a module is   *)
(* bootstrapped and counted as loaded only with all it depends on.         *)
(***************************************************************************)
DependenciesLoaded ==
    \A m \in loaded : \A i \in DOMAIN Deps[m] : Deps[m][i] \in loaded

(***************************************************************************)
(* A module is bootstrapped once for every time it is loaded, though the   *)
(* directory and several other modules ask for it and though its bootstrap *)
(* may have failed, and never without being counted as loaded.             *)
(***************************************************************************)
BootstrappedOnce ==
    \A m \in Library : boots[m] = IF m \in loaded THEN 1 ELSE 0

(***************************************************************************)
(* The library of a module that is loaded, or being loaded, is open: its   *)
(* symbols can be called.  Failures half-way and il_close_module() never   *)
(* take back more than il_load_module() opened.                            *)
(***************************************************************************)
LoadedIsOpen ==
    \A m \in Library :
        LET uses == IF m \in loaded \/ \E k \in DOMAIN frames : frames[k].library = m
                    THEN 1 ELSE 0
        IN  opens[m] >= uses

\* What a client of a module that is loaded relies on: its dependencies, its
\* library, its bootstrap.
LoadedIsUsable == DependenciesLoaded /\ LoadedIsOpen /\ BootstrappedOnce

(***************************************************************************)
(* il_load_module() comes to its end, however its dependencies branch and  *)
(* whichever of them fail.                                                 *)
(***************************************************************************)
LoadsReturn == frames # <<>> ~> frames = <<>>
=============================================================================
