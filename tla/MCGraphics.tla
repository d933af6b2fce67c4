------------------------------ MODULE MCGraphics ------------------------------
(***************************************************************************)
(* The parts of the graphics that do not depend on the order of threads: a *)
(* behaviour is one of them.                                               *)
(***************************************************************************)
EXTENDS Drawing, Members, Passes, TLC

CONSTANT Nothing

VARIABLES part,         \* whose behaviour it is
          pose, projection, axes,
          parent, children, rect, ready, requested, tangled, loose, late,
          img, meaning, off, outside, steps

\* A camera that turns about all its axes, an object that turns about one,
\* two places and two sizes, modulo 97
T == INSTANCE Transforms WITH
        Q <- 97, Position <- {<<0, 0, 0>>, <<5, 7, 2>>}, Size <- {<<1, 1, 1>>, <<2, 3, 5>>},
        Projection <- {[f |-> 3, aspect |-> 2, near |-> 1, far |-> 11]},
        Turner <- [camera |-> 1..3, object |-> {1}]

\* Two objects with one material and one mesh, and one renderer of every other
\* kind, three of which are in the context
SceneKind == [box |-> "legacy", crate |-> "legacy", land |-> "heightmap", lamp |-> "lights",
              sky |-> "skybox", panel |-> "filler", label |-> "image", screen |-> "out"]
SceneMaterial == [r \in DOMAIN SceneKind |-> IF r = "crate" THEN "box" ELSE r]
SceneModel == [box |-> "cube", crate |-> "cube", land |-> "mesh", screen |-> "rectangle"]

ASSUME GraphicsAssumption == DrawingAssumption /\ MembersAssumption /\ PassesAssumption

\* The root and two frames, that may be at a corner or overlap
F == INSTANCE Frames WITH
        Frame <- {"root", "p", "q"}, Root <- "root", Orphan <- None, Screen <- <<5, 4>>,
        Corner <- {[x |-> -3, y |-> 1, xp |-> 2, yp |-> 0]},
        Extent <- {[x |-> 2, y |-> 3, xp |-> 1, yp |-> 0]},
        Answer <- [root |-> 0, p |-> 2, q |-> 1],
        Mouse <- {<<0, 0>>, <<3, 2>>}, MaxRequests <- 1,
        built <- ready

\* Images of all kinds that are loaded, higher than wide, wider than high and square
I == INSTANCE Images WITH
        Picture <- { [channels |-> {1}, width |-> 4, height |-> 4],
                     [channels |-> {1, 4}, width |-> 2, height |-> 3],
                     [channels |-> 1..3, width |-> 3, height |-> 2],
                     [channels |-> 1..4, width |-> 2, height |-> 2] },
        Size <- {<<1, 1>>, <<2, 3>>, <<4, 2>>, <<3, 3>>},
        Wanted <- {{1}, {1, 2}, 1..3, 1..4, {1, 4}, {2, 4}},
        Mask <- {<<{1}, {2}, {3}, {4}>>, <<{3}, {2}, {1}, {4}>>, <<{2, 4}, {}, 1..3, {1}>>},
        MaxSteps <- 2

transforms == <<pose, projection, axes>>
frames  == <<parent, children, rect, ready, requested, tangled, loose, late>>
images  == <<img, meaning, off, outside, steps>>
graphics == <<transforms, drawing, passes, memberVars, frames, images>>

GraphicsParts == {"transforms", "drawing", "passes", "lists", "frames", "images"}

\* The variables of the other parts stay empty, or as they begin in one scene
GraphicsInit ==
    /\ DrawingInit
    /\ part # "drawing" => /\ scene = CHOOSE s \in [1..SceneSize -> Renderer] : IsInjective(s)
                           /\ members = 0
    /\ MembersInit
    /\ part # "lists" => owner = "legacy"
    /\ part # "passes" => /\ row = CHOOSE s \in [1..SceneLength -> Pass] : IsInjective(s)
                          /\ hdr = FALSE /\ default = FALSE /\ width = CHOOSE w \in Width : TRUE
    /\ PassesInit
    /\ IF part = "transforms" THEN T!Init ELSE
         /\ pose = Nothing /\ projection = Nothing /\ axes = Nothing
    /\ IF part = "frames" THEN F!FramesInit ELSE
         /\ parent = Nothing /\ children = Nothing /\ rect = Nothing /\ ready = Nothing
         /\ requested = Nothing /\ tangled = Nothing /\ loose = Nothing /\ late = Nothing
    /\ IF part = "images" THEN I!ImagesInit ELSE
         /\ img = Nothing /\ meaning = Nothing /\ off = Nothing /\ outside = Nothing
         /\ steps = Nothing

GraphicsStep ==
    \/ part = "transforms" /\ T!Next /\ UNCHANGED <<drawing, passes, memberVars, frames, images>>
    \/ part = "drawing" /\ DrawingNext /\ UNCHANGED <<transforms, passes, memberVars, frames, images>>
    \/ part = "passes" /\ PassesNext /\ UNCHANGED <<transforms, drawing, memberVars, frames, images>>
    \/ part = "lists" /\ MembersNext /\ UNCHANGED <<transforms, drawing, passes, frames, images>>
    \/ part = "frames" /\ F!FramesNext /\ UNCHANGED <<transforms, drawing, passes, memberVars, images>>
    \/ part = "images" /\ I!ImagesNext /\ UNCHANGED <<transforms, drawing, passes, memberVars, frames>>
-----------------------------------------------------------------------------
GraphicsTypes == /\ part = "transforms" => T!TransformTypes
                 /\ part = "drawing" => DrawingTypes
                 /\ part = "lists" => MemberTypes
                 /\ part = "passes" => PassTypes
                 /\ part = "frames" => F!FrameTypes
                 /\ part = "images" => I!ImageTypes

\* Rotations follow the turns they are made of, what is before the camera comes
\* to its place there, a model is scaled, turned and moved to its own, and the
\* inverses that materials get undo what they invert (math/, graphics/glutil.c).
MatricesPlaceThings ==
    part = "transforms" => /\ T!RotationFollowsTurns
                           /\ T!ViewUndoesPose
                           /\ T!ModelPlacesPoints
                           /\ T!InverseUndoes

\* A frame is drawn where its absolute rectangle is, a click comes to what is
\* drawn under it, and what is drawn is built, but those added late
\* (graphics/gui/frame.c).
FramesWhereSeen ==
    part = "frames" => F!DrawnWhereAbs /\ F!ClickComesToDrawn /\ F!DrawnBuiltOrLate

\* Resizing, swizzling and what else is made of an image keep its colours, and the
\* texels of a texture are the pixels of its image, if its rows are aligned
\* (asset/image.c, asset/h2n.c, graphics/tex.c).
PixelsKept == part = "images" => I!ColoursFollow /\ I!TexelsArePixels /\ I!WritesInside
=============================================================================
