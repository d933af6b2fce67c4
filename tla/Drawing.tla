------------------------------- MODULE Drawing -------------------------------
(***************************************************************************)
(* What the renderers of a context do to the state of GL in a frame: the   *)
(* program and the vertex array in use, and the context's own record of    *)
(* them, by which ilG_bindable_swap() leaves out what is bound already     *)
(* (material.c, bindable.c, shape.c, mesh.c, gui/, and the passes).        *)
(***************************************************************************)
EXTENDS Integers, Sequences, SequencesExt, FiniteSets

CONSTANTS Renderer,
          Kind,         \* [Renderer -> kinds]
          Material,     \* [Renderer -> what they are drawn with]
          Model,        \* [Renderer -> drawables], of those that have their own
          SceneSize,    \* bound: renderers of the context
          MaxMembers,   \* bound: positionables or lights of one renderer
          MaxInvalid,   \* bound: materials that fail to link
          None

VARIABLES scene,        \* the renderers in the order in which they are drawn
          members,      \* how many positionables or lights each has
          built,        \* how many of them are built
          invalid,      \* materials whose shaders were not compiled
          uploads,      \* meshes on their way to GL
          gl,           \* see GLState
          phase,        \* of the render thread
          moved,        \* whether the camera moved since the frame began
          drawn,        \* how many of them are drawn in this frame
          calls         \* the draw calls of this frame

drawing == <<scene, members, built, invalid, uploads, gl, phase, moved, drawn, calls>>

Kinds  == {"legacy", "heightmap", "lights", "skybox", "filler", "image", "out"}
Shared == {"quad", "box", "icosahedron"}    \* one of each in a context

\* Drawables that are shared, and that of a renderer
Drawable(r) == CASE Kind[r] \in {"filler", "image"} -> "quad"
                 [] Kind[r] = "skybox" -> "box"
                 [] Kind[r] = "lights" -> "icosahedron"
                 [] OTHER -> Model[r]

DrawingAssumption ==
    /\ Kind \in [Renderer -> Kinds]
    /\ {SceneSize, MaxMembers} \subseteq Nat
    /\ \A r \in Renderer : None \notin {Material[r], Drawable(r)}

Materials == {Material[r] : r \in Renderer}
Drawables == {Drawable(r) : r \in Renderer}

GLState == [program:  {None} \cup Materials,
            vao:      {None} \cup Drawables,
            material: {None} \cup Materials,   \* of the context
            drawable: {None} \cup Drawables,   \* of the context
            made: SUBSET Shared,
            stale: SUBSET Materials,    \* whose matrices of the camera are older than it
            crashed: BOOLEAN]

CallState == [by: Renderer, program: {None} \cup Materials, vao: {None} \cup Drawables,
              fresh: BOOLEAN]
-----------------------------------------------------------------------------
(***************************************************************************)
(* Steps of a renderer, as functions of the state of GL                    *)
(***************************************************************************)

\* mtl_bind(): silently fails for a material that did not link.  Uploads the
\* matrices that are the same for any positionable
BindMaterial(g, m) ==
    IF m \in invalid THEN g ELSE [g EXCEPT !.program = m, !.stale = @ \ {m}]

\* bind() of shapes, meshes and the quad
BindDrawable(g, d) == [g EXCEPT !.vao = d]

\* ilG_bindable_swap() of a material
SwapMaterial(g, m) ==
    IF g.material = m THEN g ELSE BindMaterial([g EXCEPT !.material = m], m)

\* Mutant of SwapDrawable: what is bound is not recorded
SwapDrawableUnrecorded(g, d) == BindDrawable(g, d)

\* ilG_bindable_swap() of a drawable
SwapDrawable(g, d) ==
    IF g.drawable = d THEN g ELSE BindDrawable([g EXCEPT !.drawable = d], d)

\* mtl_update(): looks at the attributes of the drawable on record
UpdateMaterial(g, m) ==
    IF m \in invalid THEN g ELSE [g EXCEPT !.crashed = @ \/ g.drawable = None]

\* ilG_box(), ilG_icosahedron(): the first to ask makes the shape
MakeShape(g, d) == [g EXCEPT !.made = @ \cup {d}]

\* ilG_quad(): making it binds it
MakeQuad(g) ==
    IF "quad" \in g.made THEN g ELSE [g EXCEPT !.made = @ \cup {"quad"}, !.vao = "quad"]

\* The end of lights_draw()
LightsEnd(g) == [g EXCEPT !.material = None, !.drawable = None]

Call(r, g) == [by |-> r, program |-> g.program, vao |-> g.vao,
               fresh |-> g.program \notin g.stale]
-----------------------------------------------------------------------------
(***************************************************************************)
(* The draw functions: the state after, and the calls.  Nothing is drawn   *)
(* once it has crashed.                                           *)
(***************************************************************************)

\* After binding, one call for each of n members, with the matrices first
Members(r, n, bound) ==
    LET g == IF n = 0 THEN bound ELSE UpdateMaterial(bound, Material[r])
    IN  [gl |-> g, calls |-> IF g.crashed THEN <<>> ELSE [i \in 1..n |-> Call(r, g)]]

LegacyDraw(r, n) == Members(r, n, SwapMaterial(SwapDrawable(gl, Drawable(r)), Material[r]))

\* heightmap_draw() binds past the record
HeightmapDraw(r, n) == Members(r, n, BindMaterial(BindDrawable(gl, Drawable(r)), Material[r]))

LightsDraw(r, n) ==
    LET g   == BindDrawable(MakeShape(gl, Drawable(r)), Drawable(r))
        res == Members(r, n, BindMaterial(g, Material[r]))
    IN  IF res.gl.crashed THEN res ELSE [res EXCEPT !.gl = LightsEnd(@)]

SkyDraw(r) == Members(r, 1, SwapMaterial(SwapDrawable(MakeShape(gl, "box"), "box"), Material[r]))

\* filler_draw().  get_shader() links at the first draw; here Build does, since
\* linking changes nothing that is bound or on record
FillerDraw(r) == Members(r, 1, SwapMaterial(SwapDrawable(MakeQuad(gl), "quad"), Material[r]))

ImageDraw(r) == Members(r, 1, SwapDrawable(MakeQuad(SwapMaterial(gl, Material[r])), "quad"))

\* out_draw() and its own quad, without the blurs of HDR
OutDraw(r) ==
    LET g == BindDrawable(BindMaterial(gl, Material[r]), Drawable(r))
    IN  [gl |-> [g EXCEPT !.material = None],
         calls |-> <<Call(r, g)>>]

Draw(r) ==
    CASE Kind[r] = "legacy"    -> LegacyDraw(r, members)
      [] Kind[r] = "heightmap" -> HeightmapDraw(r, members)
      [] Kind[r] = "lights"    -> LightsDraw(r, members)
      [] Kind[r] = "skybox"    -> SkyDraw(r)
      [] Kind[r] = "filler"    -> FillerDraw(r)
      [] Kind[r] = "image"     -> ImageDraw(r)
      [] Kind[r] = "out"       -> OutDraw(r)
-----------------------------------------------------------------------------
DrawingInit ==
    /\ scene \in {s \in [1..SceneSize -> Renderer] : IsInjective(s)}
    /\ members \in 0..MaxMembers
    /\ built = 0 /\ invalid = {} /\ uploads = {}
    /\ gl = [program |-> None, vao |-> None, material |-> None, drawable |-> None,
             made |-> {}, stale |-> {}, crashed |-> FALSE]
    /\ phase = "messages" /\ moved = FALSE /\ drawn = 0 /\ calls = <<>>

\* ilG_material_link(), which does not tell whether it succeeded
Link(m) ==
    \/ invalid' = invalid \ {m}
    \/ Cardinality(invalid \cup {m}) <= MaxInvalid /\ invalid' = invalid \cup {m}

\* heightmap_build() sends its mesh to be uploaded, out_build() binds its quad
HeightmapBuild(r) == uploads' = uploads \cup {Drawable(r)} /\ UNCHANGED gl
OutBuild(r) == gl' = BindDrawable(gl, Drawable(r)) /\ UNCHANGED uploads

\* The build function of the next renderer
Build ==
    /\ phase = "messages" /\ built < Len(scene)
    /\ built' = built + 1
    /\ LET r == scene[built']
       IN  /\ Link(Material[r])
           /\ CASE Kind[r] = "heightmap" -> HeightmapBuild(r)
                [] Kind[r] = "out" -> OutBuild(r)
                [] OTHER -> UNCHANGED <<uploads, gl>>
    /\ UNCHANGED <<scene, members, phase, moved, drawn, calls>>

\* build_mesh() of an upload message
Upload ==
    /\ phase = "messages"
    /\ \E d \in uploads : gl' = BindDrawable(gl, d) /\ uploads' = uploads \ {d}
    /\ UNCHANGED <<scene, members, built, invalid, phase, moved, drawn, calls>>

\* Shaders are loaded and linked again
Relink ==
    /\ phase = "messages" /\ \E i \in 1..built : Link(Material[scene[i]])
    /\ UNCHANGED <<scene, members, built, uploads, gl, phase, moved, drawn, calls>>

Cleared(g) == [g EXCEPT !.material = None, !.drawable = None]

\* render_frame(), once all messages are handled
BeginFrame ==
    /\ phase = "messages" /\ built > 0 /\ uploads = {}
    /\ phase' = "frame" /\ gl' = Cleared(gl) /\ moved' = FALSE
    /\ drawn' = 0 /\ calls' = <<>>
    /\ UNCHANGED <<scene, members, built, invalid, uploads>>

DrawNext ==
    /\ phase = "frame" /\ drawn < built
    /\ drawn' = drawn + 1
    /\ LET res == Draw(scene[drawn'])
       IN  /\ gl' = res.gl
           /\ calls' = calls \o res.calls
           /\ phase' = IF res.gl.crashed THEN "crashed" ELSE phase
    /\ UNCHANGED <<scene, members, built, invalid, uploads, moved>>

EndFrame ==
    /\ phase = "frame" /\ drawn = built
    /\ phase' = "messages" /\ drawn' = 0 /\ calls' = <<>>
    /\ UNCHANGED <<scene, members, built, invalid, uploads, gl, moved>>

\* The main thread moves the camera, at any time (bound: once all are built)
MoveCamera ==
    /\ phase # "crashed" /\ ~moved /\ built = Len(scene)
    /\ moved' = TRUE
    /\ gl' = [gl EXCEPT !.stale = {Material[scene[i]] : i \in 1..built}]
    /\ UNCHANGED <<scene, members, built, invalid, uploads, phase, drawn, calls>>

DrawingNext == Build \/ Upload \/ Relink \/ BeginFrame \/ DrawNext \/ EndFrame \/ MoveCamera

DrawingSpec == DrawingInit /\ [][DrawingNext]_drawing
-----------------------------------------------------------------------------
DrawingTypes ==
    /\ scene \in [1..SceneSize -> Renderer] /\ built \in 0..SceneSize /\ members \in 0..MaxMembers
    /\ drawn \in 0..built /\ uploads \subseteq Drawables
    /\ invalid \subseteq Materials /\ calls \in Seq(CallState)
    /\ gl \in GLState /\ moved \in BOOLEAN /\ phase \in {"messages", "frame", "crashed"}

\* Before the i-th of the frame, one of those that have its material or drawable
\* was drawn, and a kind of renderer came between that binds past the record
Between(i, ones, kinds) ==
    \E j \in 1..(i - 1) : scene[j] \in ones /\ \E k \in (j + 1)..(i - 1) : Kind[scene[k]] \in kinds

Having(m) == {r \in Renderer : Material[r] = m}
Showing(d) == {r \in Renderer : Drawable(r) = d}

(***************************************************************************)
(* A renderer draws with its own material and its own vertices, whatever   *)
(* was drawn before it: a material that does not link and those the record *)
(* of the context is wrong about excepted.  It is wrong about what has     *)
(* been bound before when a heightmap stands between, which binds without  *)
(* recording it, and about the drawable after the output pass.             *)
(***************************************************************************)
DrawsWithOwn ==
    \A c \in ToSet(calls) :
        LET i == CHOOSE n \in 1..drawn : scene[n] = c.by
        IN  /\ \/ c.program = Material[c.by] \/ Material[c.by] \in invalid
               \/ Between(i, Having(Material[c.by]), {"heightmap"})
            /\ \/ c.vao = Drawable(c.by)
               \/ Between(i, Showing(Drawable(c.by)), {"heightmap", "out"})

Swaps(r) == Kind[r] \in {"legacy", "skybox", "filler", "image"}

(***************************************************************************)
(* In a frame in which the camera stays where it is, every call sees the   *)
(* scene through it as it is now: the matrices that are uploaded when a    *)
(* material is bound, too, although it need not be bound for every object. *)
(***************************************************************************)
SeesCamera == ~moved => \A c \in ToSet(calls) : c.fresh \/ Material[c.by] \in invalid

(***************************************************************************)
(* A frame crashes only where a heightmap or lights are drawn that bind    *)
(* past the record while no drawable is on it: none that records its own   *)
(* came before in the frame, since the last lights.                        *)
(***************************************************************************)
CrashesWithoutDrawable ==
    phase = "crashed" =>
        /\ Kind[scene[drawn]] \in {"heightmap", "lights"}
        /\ \A i \in 1..(drawn - 1) :
              Swaps(scene[i]) => \E j \in (i + 1)..(drawn - 1) : Kind[scene[j]] = "lights"

\* What bindable.c and the passes promise of what they draw
DrawnWithOwn == DrawsWithOwn /\ SeesCamera /\ CrashesWithoutDrawable
=============================================================================
