------------------------------ MODULE MCLibrary ------------------------------
(***************************************************************************)
(* The libraries that keep state and know nothing of each other, and whose *)
(* promises are proved for any size of them: a behaviour is one of World,  *)
(* of Assets, of Loader or of Textures.  What each promises is stated      *)
(* there.                                                                  *)
(***************************************************************************)
EXTENDS World, Assets, Loader, Textures, TLC

CONSTANTS util, common, graphics, demo, lost, stray     \* libraries

VARIABLE part       \* whose behaviour it is

assets == <<kind, refs, parts, fd, mapped, weak_refs, slot, table, unrefs, owned>>
loader == <<loaded, opens, frames, result, entries, boots, calls>>
vars == <<part, worldVars, assets, loader, textures>>

\* graphics depends on common and util as in graphics.c:120; demo on a module
\* that is in no search path; stray has no il_bootstrap()
LibraryDeps == util :> <<>> @@ common :> <<util>> @@ graphics :> <<common, util>>
                @@ demo :> <<util, lost>> @@ lost :> <<>> @@ stray :> <<common>>

\* Renderers two by two, with images for the textures they need, and one heightmap
\* that gets the same texture twice
LibraryScenes ==
    { [renderers |-> {"sky", "map"}, files |-> <<"cube", "data", "data", "data">>,
       maps |-> {<<2, 3, 4>>, <<2, 2, 3>>}],
      [renderers |-> {"model", "image"}, files |-> <<"data", "none">>, maps |-> {}],
      [renderers |-> {"sky", "image"}, files |-> <<"cube", "data", "data">>, maps |-> {}] }

ASSUME LibraryAssumption == AssetsAssumption /\ LoaderAssumption /\ TexturesAssumption

\* The parts that it is not a behaviour of stay as they begin, in any one scene
LibraryInit ==
    /\ part \in {"world", "assets", "loader", "textures"}
    /\ Init /\ AssetsInit /\ LoaderInit /\ TexturesInit
    /\ part # "textures" => cast = CHOOSE c \in Scenes : TRUE

WorldStep  == part = "world"  /\ Next /\ UNCHANGED <<part, assets, loader, textures>>
AssetsStep == part = "assets" /\ AssetsNext /\ UNCHANGED <<part, worldVars, loader, textures>>
LoaderStep == part = "loader" /\ LoaderNext /\ UNCHANGED <<part, worldVars, assets, textures>>
TexturesStep == part = "textures" /\ TexturesNext /\ UNCHANGED <<part, worldVars, assets, loader>>

\* Where the program has crashed, and at the bound of builds
TexturesStop ==
    part = "textures" /\ (failure # "none" \/ Len(object) >= MaxBuilds) /\ UNCHANGED vars

LibraryNext == WorldStep \/ AssetsStep \/ LoaderStep \/ TexturesStep \/ TexturesStop

\* il_load_module() runs on, clients do as they like
LibrarySpec ==
    /\ LibraryInit /\ [][LibraryNext]_vars
    /\ WF_vars(part = "loader" /\ Step /\ UNCHANGED <<part, worldVars, assets, textures>>)
-----------------------------------------------------------------------------
\* Type correctness of the four.
TypeOK == WorldTypes /\ AssetTypes /\ LoaderTypes /\ TextureTypes
=============================================================================
