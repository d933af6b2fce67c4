-------------------------------- MODULE Passes --------------------------------
(***************************************************************************)
(* How the passes of a context turn a scene into a picture: the            *)
(* framebuffers they draw into and read from, what stays switched on       *)
(* between them, and the four blurs of HDR (outpass.c, framebuffer.c, the  *)
(* draw functions of the other passes).                                    *)
(***************************************************************************)
EXTENDS Integers, Sequences, SequencesExt, FiniteSets

CONSTANTS Width,        \* of windows; height is treated alike
          SceneLength,  \* bound: passes of the context
          Levels,       \* blurs of HDR
          MaxBuilds     \* bound: builds of the output pass

VARIABLES row,          \* the passes in the order in which they are drawn
          hdr, default, \* hints: blur what is bright, draw into the default framebuffer
          width,        \* of the context
          whole,        \* whether its framebuffer was complete when last resized
          machine,      \* the state of GL: bindings, switches, textures and the screen
          builds,       \* builds of the output pass, each of which registers for resizes
          done,         \* passes drawn in this frame
          stage,
          shown         \* what the output pass swapped in this frame

passes == <<row, hdr, default, width, whole, machine, builds, done, stage, shown>>

PassesAssumption ==
    /\ Width \subseteq Nat \ {0} /\ Levels \in Nat \ {0}
    /\ SceneLength \in Nat /\ MaxBuilds \in Nat

Pass == {"geometry", "lights", "skybox", "transparency", "gui", "plain", "out"}
Target == {"context", "front", "result", "screen"}    \* framebuffers
Blank == [layers |-> <<>>, filters |-> <<>>, region |-> 0, blend |-> FALSE]

\* A texture has a size and an image in a region at its corner
Fresh(w) == [size |-> w, image |-> Blank]
-----------------------------------------------------------------------------
(***************************************************************************)
(* Framebuffers                                                            *)
(***************************************************************************)

\* glBindFramebuffer(GL_FRAMEBUFFER), and what ilG_fbo_bind() does besides
BindBoth(g, t) == [g EXCEPT !.draw = t, !.read = t]
FboBind(g, t, write, read) ==
    [g EXCEPT !.draw = IF write THEN t ELSE @, !.read = IF read THEN t ELSE @]

\* ilG_context_bindFB()
BindFB(g) == IF default THEN BindBoth(g, "screen") ELSE [g EXCEPT !.draw = "context"]

\* ilG_context_bind_for_outpass()
BindForOutpass(g) == [g EXCEPT !.read = IF default THEN "screen" ELSE "context"]

\* fbo_build() with a relative size of 1
FboBuild(g, t, w) == BindBoth([g EXCEPT !.tex[t] = Fresh(w)], t)

\* The resize event: every build of the pass has registered both
Resized(g, w) == IF hdr /\ builds > 0 THEN FboBuild(FboBuild(g, "front", w), "result", w) ELSE g
-----------------------------------------------------------------------------
(***************************************************************************)
(* Drawing                                                                 *)
(***************************************************************************)

Torn == [Blank EXCEPT !.filters = <<"torn">>]

\* What a region of a texture looks like
Sampled(texture, w) ==
    IF texture.image.region = w /\ w > 0 THEN texture.image ELSE Torn

\* GL neither clears an incomplete framebuffer, nor draws into it, nor copies from
\* it.  Those of the output pass are taken to be complete.
Complete(t) == t = "context" => whole

\* An image of w by w is put into the framebuffer that is drawn into
Put(g, image, w) ==
    IF g.draw = "screen" THEN [g EXCEPT !.screen = Append(@, image)]
    ELSE IF w = 0 \/ ~Complete(g.draw) THEN g
    ELSE [g EXCEPT !.tex[g.draw].image =
            IF w > g.tex[g.draw].size THEN [Torn EXCEPT !.region = w]
            ELSE [image EXCEPT !.region = w]]

\* fullscreenTexture() with the shader that is bound: w is its size uniform,
\* the texture that of unit 0
Filter(g, shader, w) ==
    LET from == Sampled(g.tex[g.unit], w)
    IN  Put([g EXCEPT !.loop = @ \/ g.unit = g.draw],
            [from EXCEPT !.filters = Append(@, shader), !.blend = g.blend], g.view)

\* glBlitFramebuffer() from all of the context to a region
Blit(g, w) ==
    IF Complete(g.read)
    THEN Put(g, IF g.read = "screen" THEN Torn ELSE Sampled(g.tex[g.read], width), w)
    ELSE g

\* The widths that the blurs are made in, context->width / (1<<i)
Halved[i \in 0..Levels] == IF i = 0 THEN width ELSE Halved[i - 1] \div 2

\* Mutant of Blur: the result buffer is not bound for writing
BlurIntoFront(g, i) ==
    LET w == Halved[i]
        small == Blit(BindForOutpass(FboBind(g, "front", TRUE, FALSE)), w)
        across == Filter([FboBind([small EXCEPT !.unit = "front"], "result", FALSE, TRUE)
                             EXCEPT !.view = w], "across", w)
        down == Filter([BindBoth(across, "screen") EXCEPT !.view = width, !.blend = TRUE,
                           !.unit = "result"], "down", w)
    IN  [down EXCEPT !.blend = FALSE]

\* One of the blurs of out_draw()
Blur(g, i) ==
    LET w == Halved[i]
        small == Blit(BindForOutpass(FboBind(g, "front", TRUE, FALSE)), w)
        across == Filter([FboBind([small EXCEPT !.unit = "front"], "result", TRUE, TRUE)
                             EXCEPT !.view = w], "across", w)
        down == Filter([BindBoth(across, "screen") EXCEPT !.view = width, !.blend = TRUE,
                           !.unit = "result"], "down", w)
    IN  [down EXCEPT !.blend = FALSE]

\* What they make of g, one after another
Blurred(g) ==
    LET after[i \in 0..Levels] == IF i = 0 THEN g ELSE Blur(after[i - 1], i - 1)
    IN  after

\* out_draw(): the context's texture is 0 in the default framebuffer
OutPass(g) ==
    LET cleared == [BindBoth(g, "screen") EXCEPT !.screen = <<>>, !.depth = FALSE, !.cull = FALSE,
                        !.unit = IF default THEN "none" ELSE "context"]
        toned == Filter(cleared, "tone", width)
    IN  IF hdr THEN BindFB(Blurred(toned)[Levels]) ELSE toned

\* One that others draw is a layer of what is drawn into
Layer(g, p) ==
    LET l == [by |-> p, depth |-> g.depth, cull |-> g.cull, blend |-> g.blend]
    IN  IF g.draw = "screen" THEN [g EXCEPT !.screen = Append(@, l)]
        ELSE IF Complete(g.draw) THEN [g EXCEPT !.tex[g.draw].image.layers = Append(@, l)]
        ELSE g

GeometryPass(g) ==
    Layer([g EXCEPT !.depth = TRUE, !.cull = TRUE, !.blend = FALSE], "geometry")

\* lights_draw(): culling stays as it was, depth testing off
LightsPass(g) ==
    [Layer([g EXCEPT !.blend = TRUE, !.depth = FALSE], "lights")
        EXCEPT !.blend = FALSE, !.unit = "gbuffer"]

SkyboxPass(g) == [Layer([g EXCEPT !.depth = FALSE, !.cull = FALSE], "skybox") EXCEPT !.depth = TRUE]

\* trans_draw(): blending stays on
TransPass(g) == Layer([g EXCEPT !.blend = TRUE, !.depth = TRUE, !.cull = TRUE], "transparency")

\* gui_draw() with a frame of a colour
GuiPass(g) == Layer([g EXCEPT !.cull = FALSE, !.depth = FALSE], "gui")

PassDraw(g, p) ==
    CASE p = "geometry"     -> GeometryPass(g)
      [] p = "lights"       -> LightsPass(g)
      [] p = "skybox"       -> SkyboxPass(g)
      [] p = "transparency" -> TransPass(g)
      [] p = "gui"          -> GuiPass(g)
      [] p = "plain"        -> Layer(g, "plain")
      [] p = "out"          -> OutPass(g)
-----------------------------------------------------------------------------
\* ilG_context_hint(), setup_context(), the first context_resize()
PassesInit ==
    /\ row \in {s \in [1..SceneLength -> Pass] : IsInjective(s)}
    /\ hdr \in BOOLEAN /\ default \in BOOLEAN /\ width \in Width /\ whole = TRUE
    /\ machine = [draw |-> IF default THEN "screen" ELSE "context",
             read |-> IF default THEN "screen" ELSE "context",
             view |-> 0, unit |-> "none", depth |-> ~default, cull |-> FALSE, blend |-> FALSE,
             tex |-> [t \in {"context", "front", "result", "none", "gbuffer"} |->
                        Fresh(IF t = "context" /\ ~default THEN width ELSE 0)],
             screen |-> <<>>, loop |-> FALSE]
    /\ builds = 0 /\ done = 0 /\ stage = "messages" /\ shown = <<>>

\* out_build(), and ilG_fbo_build() of its two.  The first time, the names of
\* textures to delete are uninitialized: one may be that of another texture
BuildOut ==
    /\ stage = "messages" /\ builds < MaxBuilds /\ "out" \in ToSet(row)
    /\ builds' = builds + 1
    /\ machine' = IF hdr THEN FboBuild(FboBuild(machine, "front", width), "result", width)
                  ELSE machine
    /\ \/ UNCHANGED stage
       \/ hdr /\ builds = 0 /\ stage' = "undefined"
    /\ UNCHANGED <<row, hdr, default, width, whole, done, shown>>

\* context_resize(), for a message or because the window has another size.  The
\* textures are new, with nothing in them; the event is not fired when the
\* framebuffer is incomplete
ContextResize(w) ==
    /\ stage = "messages"
    /\ width' = w
    /\ whole' \in IF default THEN {TRUE} ELSE BOOLEAN
    /\ LET g == IF default THEN machine
                ELSE [BindBoth(machine, "context") EXCEPT !.depth = TRUE,
                         !.tex["context"] = Fresh(w)]
       IN  machine' = IF whole' THEN Resized(g, w) ELSE g
    /\ UNCHANGED <<row, hdr, default, builds, done, stage, shown>>

\* render_frame()
BeginPasses ==
    /\ stage = "messages"
    /\ stage' = "frame" /\ done' = 0 /\ shown' = <<>>
    /\ LET g == BindFB([machine EXCEPT !.view = width])
       IN  machine' = CASE default -> [g EXCEPT !.screen = <<>>]
                        [] ~default /\ whole ->
                             [g EXCEPT !.tex["context"].image = [Blank EXCEPT !.region = width]]
                        [] ~default /\ ~whole -> g
    /\ UNCHANGED <<row, hdr, default, width, whole, builds>>

\* The draw function of the next pass.  That of the output pass swaps, and
\* does not wait for having been built: without, it has no buffers
DrawPass ==
    /\ stage = "frame" /\ done < SceneLength
    /\ done' = done + 1
    /\ LET p == row[done']
       IN  IF p = "out" /\ builds = 0 THEN stage' = "undefined" /\ UNCHANGED <<machine, shown>>
           ELSE /\ machine' = PassDraw(machine, p)
                /\ shown' = IF p = "out" THEN machine'.screen ELSE shown
                /\ UNCHANGED stage
    /\ UNCHANGED <<row, hdr, default, width, whole, builds>>

EndPasses ==
    /\ stage = "frame" /\ done = SceneLength
    /\ stage' = "messages" /\ done' = 0 /\ shown' = <<>>
    /\ machine' = IF default THEN [machine EXCEPT !.view = width] ELSE machine
    /\ UNCHANGED <<row, hdr, default, width, whole, builds>>

PassesNext ==
    BuildOut \/ BeginPasses \/ DrawPass \/ EndPasses \/ \E w \in Width : ContextResize(w)

PassesSpec == PassesInit /\ [][PassesNext]_passes
-----------------------------------------------------------------------------
PassTypes ==
    /\ row \in [1..SceneLength -> Pass] /\ {hdr, default, whole} \subseteq BOOLEAN
    /\ width \in Width /\ builds \in 0..MaxBuilds /\ done \in 0..SceneLength
    /\ stage \in {"messages", "frame", "undefined"}
    /\ machine.draw \in Target /\ machine.read \in Target
    /\ {machine.depth, machine.cull, machine.blend, machine.loop} \subseteq BOOLEAN

(***************************************************************************)
(* With a framebuffer of its own, the output pass shows all that was drawn *)
(* before it in this frame, in its order and in full, and with HDR adds it *)
(* in Levels sizes, blurred across and then down: after any resizes and    *)
(* rebuilds, one that failed before among them, unless it was the last one *)
(* that failed (the context draws on then, into nothing) or, for the       *)
(* blurs, the framebuffer is too small to be halved so often.              *)
(***************************************************************************)
ShowsTheScene ==
    shown # <<>> /\ ~default /\ whole =>
        LET first == CHOOSE i \in DOMAIN row : row[i] = "out"
            Whole(image) == [i \in DOMAIN image.layers |-> image.layers[i].by]
                                = SubSeq(row, 1, first - 1)
        IN  /\ Whole(shown[1]) /\ shown[1].filters = <<"tone">> /\ shown[1].region = width
            /\ Len(shown) = IF hdr THEN 1 + Levels ELSE 1
            /\ hdr /\ Halved[Levels - 1] > 0 =>
                  \A i \in 1..Levels :
                      /\ Whole(shown[i + 1]) /\ shown[i + 1].filters = <<"across", "down">>
                      /\ shown[i + 1].region = Halved[i - 1] /\ shown[i + 1].blend

(***************************************************************************)
(* What the output pass samples is never what it draws into, in whatever   *)
(* order framebuffers were built, resized and bound before.                *)
(***************************************************************************)
NoFeedback == ~machine.loop

\* What others have drawn in this frame
Layers == IF default THEN {l \in ToSet(machine.screen) : "by" \in DOMAIN l}
          ELSE ToSet(machine.tex["context"].image.layers)

(***************************************************************************)
(* What a pass switches on does not reach the others, in this frame or the *)
(* next: lights and transparency blend, and no other does, unless there is *)
(* a transparency pass, which leaves blending on; geometry is always drawn *)
(* on what is behind it and is never blended; and one without a pass of    *)
(* its own is tested against depth where none of the lights, the GUI and   *)
(* the output pass, which leave that off, is in the scene.                 *)
(***************************************************************************)
SwitchesRestored ==
    stage # "undefined" => \A l \in Layers :
        /\ l.blend => l.by \in {"lights", "transparency"} \/ "transparency" \in ToSet(row)
        /\ l.by = "geometry" => l.depth /\ l.cull /\ ~l.blend
        /\ l.by = "plain" /\ ~default /\ ToSet(row) \cap {"lights", "gui", "out"} = {} => l.depth

\* The output pass shows what was drawn, with the blurs in every size, and never
\* samples what it draws into; blending and depth testing do not leak from pass
\* to pass, but from transparency (graphics/outpass.c, framebuffer.c,
\* transparencypass.c).
PassesShowScene == ShowsTheScene /\ NoFeedback /\ SwitchesRestored
=============================================================================
