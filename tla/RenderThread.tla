----------------------------- MODULE RenderThread -----------------------------
(***************************************************************************)
(* The life of a graphics context: the main thread builds a tree of        *)
(* renderers, starts the render thread, sends it messages and frees the    *)
(* context; the render thread builds the tree, then draws frame after      *)
(* frame, draining the message queue before each (graphics/context.c,      *)
(* context_renderer.c, renderer.c and the passes).  The queue is the       *)
(* Channel that ContextQueue implements.                                   *)
(***************************************************************************)
EXTENDS Naturals, Sequences, FiniteSets, SequencesExt

CONSTANTS Context,        \* the root of the tree, the ilG_context itself
          Pass,           \* renderers with children: geometry, transparency
          Leaf,           \* renderers without
          Size,           \* window and framebuffer sizes
          StartSize,      \* startWidth x startHeight
          NoSize,         \* "no window", "no complete framebuffer"
          MaxLog,         \* bound: messages sent before ILG_STOP, by both threads
          MaxWindow,      \* bound: times the user resizes the window
          GLMayFail       \* glCheckFramebufferStatus may report a failure

ASSUME RenderThreadAssumption ==
    /\ StartSize \in Size /\ NoSize \notin Size
    /\ Context \notin Pass \cup Leaf /\ Pass \cap Leaf = {}
    /\ GLMayFail \in BOOLEAN
    /\ MaxLog \in Nat /\ MaxWindow \in Nat

Parent == {Context} \cup Pass
Renderer == Pass \cup Leaf

\* What may be linked under what: passes under the context, leaves under passes
Edge == ({Context} \X Pass) \cup (Pass \X Leaf)

Upload(r)    == [type |-> "upload", node |-> r]     \* upload(build, r)
Resize(s)    == [type |-> "resize", size |-> s]
Change(t, e) == [type |-> t, edge |-> e]            \* t is "add" or "del"
Stop         == [type |-> "stop"]                   \* ILG_STOP
NoMsg        == [type |-> "none"]
Message == {Upload(r) : r \in Renderer} \cup {Resize(s) : s \in Size}
           \cup {Change(t, e) : t \in {"add", "del"}, e \in Edge} \cup {Stop}

VARIABLES
    mpc, act,                       \* main thread, and the push_msg it is in
    edges, requested,               \* the client's view: edges it made, builds it asked for
    window, sdl, resizes,           \* the window (or none), SDL's event queue, resizes left
    rpc, turn,                      \* render thread, and its index in context_build
    children, built,                \* the trees of renderers, and those that were built
    size, fb, shown, valid,         \* width/height, framebuffers, last resize event, valid
    log, taken, current, open       \* the message queue

client  == <<edges, requested>>
desktop == <<window, sdl, resizes>>
tree    == <<children, built>>
screen  == <<size, fb, shown, valid>>
queue   == <<log, taken, current, open>>
vars == <<mpc, act, client, desktop, rpc, turn, tree, screen, queue>>

Queue == INSTANCE Channel WITH Msg <- Message

Init ==
    /\ mpc = "setup" /\ act = <<>>
    /\ edges = {} /\ requested = {}
    /\ window = NoSize /\ sdl = <<>> /\ resizes = MaxWindow
    /\ rpc = "none" /\ turn = 1
    /\ children = [p \in Parent |-> <<>>] /\ built = {}
    /\ size = StartSize /\ fb = NoSize /\ shown = NoSize /\ valid = FALSE
    /\ Queue!Init
-----------------------------------------------------------------------------
\* Mutant of Position: the comparison inverted
PositionInverted(s, r) == SelectInSeq(s, LAMBDA c : c # r)

\* The first of s with the given obj, or 0
Position(s, r) == SelectInSeq(s, LAMBDA c : c = r)

\* del_renderer(): the last element moves into the gap
Without(s, r) ==
    LET i == Position(s, r)
    IN  IF i = 0 THEN s ELSE SubSeq([s EXCEPT ![i] = s[Len(s)]], 1, Len(s) - 1)

\* message() of the parent: IL_APPEND, or the removal
Link(t, e) ==
    [children EXCEPT ![e[1]] = IF t = "add" THEN Append(@, e[2]) ELSE Without(@, e[2])]

\* vtable->build of a pass uploads the build of each child
Build(r) == /\ built' = built \cup {r}
            /\ log' = IF r \in Leaf THEN log
                      ELSE log \o [i \in DOMAIN children[r] |-> Upload(children[r][i])]

\* context_resize(): the size is taken over before the framebuffer is checked
Reshape(s) ==
    /\ size' = s
    /\ \/ fb' = s /\ shown' = s /\ valid' = TRUE
       \/ GLMayFail /\ fb' = NoSize /\ UNCHANGED <<shown, valid>>
-----------------------------------------------------------------------------
(***************************************************************************)
(* The main thread                                                         *)
(***************************************************************************)

Send(m) == Len(log) < MaxLog /\ Queue!Send(m)

\* ilG_renderer_build(): asked for before the renderer is added to a running
\* tree, as demos/bouncing-lights/camera.lua does
RequestBuild(r) ==
    /\ mpc \in {"setup", "run"}
    /\ r \notin requested
    /\ requested' = requested \cup {r}
    /\ Send(Upload(r))
    /\ UNCHANGED <<mpc, act, edges, desktop, rpc, turn, tree, screen>>

\* The test in push_msg: context_push_msg looks at the window, the others at
\* the context that their build has set
Attached(p) == IF p = Context THEN window # NoSize ELSE p \in built

\* ilG_renderer_addRenderer(), ilG_renderer_delRenderer(), down to push_msg
PushMsg(t, e) ==
    /\ mpc \in {"setup", "run"}
    /\ IF t = "del" THEN e \in edges
       ELSE e \notin edges /\ (mpc = "run" => e[2] \in requested)
    /\ edges' = IF t = "add" THEN edges \cup {e} ELSE edges \ {e}
    /\ IF Attached(e[1])
       THEN Send(Change(t, e)) /\ UNCHANGED act
       ELSE act' = <<t, e>> /\ UNCHANGED queue
    /\ UNCHANGED <<mpc, requested, desktop, rpc, turn, tree, screen>>

\* The other branch of push_msg: message() is called on the main thread
DirectChange ==
    /\ act # <<>>
    /\ children' = Link(act[1], act[2])
    /\ act' = <<>>
    /\ UNCHANGED <<mpc, client, desktop, rpc, turn, built, screen, queue>>

\* ilG_context_resize() by the program
RequestResize(s) ==
    /\ mpc \in {"setup", "run"}
    /\ Send(Resize(s))
    /\ UNCHANGED <<mpc, act, client, desktop, rpc, turn, tree, screen>>

\* ilG_context_start(): create the window, then the thread
StartContext ==
    /\ mpc = "setup"
    /\ mpc' = "run"
    /\ rpc' = "build"
    /\ window' = StartSize /\ size' = StartSize
    /\ UNCHANGED <<act, client, sdl, resizes, turn, tree, fb, shown, valid, queue>>

\* The user drags the window's border
UserResize(s) ==
    /\ mpc = "run"
    /\ window # NoSize /\ s # window
    /\ resizes > 0
    /\ resizes' = resizes - 1
    /\ window' = s
    /\ sdl' = Append(sdl, s)
    /\ UNCHANGED <<mpc, act, client, rpc, turn, tree, screen, queue>>

\* poll_events(), handle_windowevent(): SDL_WINDOWEVENT_RESIZED
PollResize ==
    /\ mpc = "run"
    /\ sdl # <<>>
    /\ sdl' = Tail(sdl)
    /\ Queue!Send(Resize(Head(sdl)))
    /\ UNCHANGED <<mpc, act, client, window, resizes, rpc, turn, tree, screen>>

\* ilG_context_free() of a started context: ILG_STOP, pthread_join, free
FreeContext ==
    /\ mpc = "run"
    /\ mpc' = "join"
    /\ Queue!Send(Stop)
    /\ UNCHANGED <<act, client, desktop, rpc, turn, tree, screen>>

JoinAndFree ==
    /\ mpc = "join"
    /\ rpc = "end"
    /\ mpc' = "freed"
    /\ window' = NoSize
    /\ UNCHANGED <<act, client, sdl, resizes, rpc, turn, tree, screen, queue>>

\* The main thread does one thing at a time
Main == \/ /\ act = <<>>
           /\ \/ \E r \in Renderer : RequestBuild(r)
              \/ \E t \in {"add", "del"}, e \in Edge : PushMsg(t, e)
              \/ \E s \in Size : RequestResize(s)
              \/ StartContext \/ PollResize \/ FreeContext
        \/ DirectChange
        \/ JoinAndFree
        \/ \E s \in Size : UserResize(s)
-----------------------------------------------------------------------------
(***************************************************************************)
(* render_thread()                                                         *)
(***************************************************************************)
others == <<mpc, act, client, desktop>>

\* ilG_context_renderer.build: context_build(), one renderer at a time
BuildTree ==
    /\ rpc = "build"
    /\ IF turn <= Len(children[Context])
       THEN /\ Build(children[Context][turn])
            /\ turn' = turn + 1
            /\ UNCHANGED <<rpc, taken, current, open>>
       ELSE rpc' = "first" /\ UNCHANGED <<built, turn, queue>>
    /\ UNCHANGED <<others, children, screen>>

\* context_resize(self, self->startWidth, self->startHeight)
FirstResize ==
    /\ rpc = "first"
    /\ Reshape(StartSize)
    /\ rpc' = "frame"
    /\ UNCHANGED <<others, turn, tree, queue>>

\* while (self->valid), and the tick event
BeginFrame ==
    /\ rpc = "frame"
    /\ IF valid THEN rpc' = "drain" /\ UNCHANGED queue
                ELSE rpc' = "end" /\ Queue!Close
    /\ UNCHANGED <<others, turn, tree, screen>>

\* while ((msg = consume(self->queue)))
Drain ==
    /\ rpc = "drain"
    /\ IF taken = Len(log) THEN rpc' = "size" /\ UNCHANGED queue
                           ELSE rpc' = "handle" /\ Queue!Take
    /\ UNCHANGED <<others, turn, tree, screen>>

HandleUpload ==
    /\ current.type = "upload"
    /\ Build(current.node)
    /\ UNCHANGED <<children, screen, taken, current, open>>

HandleResize ==
    /\ current.type = "resize"
    /\ Reshape(current.size)
    /\ UNCHANGED <<tree, queue>>

HandleMessage ==
    /\ current.type \in {"add", "del"}
    /\ children' = Link(current.type, current.edge)
    /\ UNCHANGED <<built, screen, queue>>

\* switch (msg->type)
Handle ==
    /\ rpc = "handle"
    /\ current # Stop
    /\ HandleUpload \/ HandleResize \/ HandleMessage
    /\ rpc' = "done"
    /\ UNCHANGED <<others, turn>>

\* Mutant of DoneConsume: one message to a frame
DoneConsumeOne ==
    /\ rpc = "done"
    /\ Queue!Finish
    /\ rpc' = "size"
    /\ UNCHANGED <<others, turn, tree, screen>>

\* done_consume(self->queue)
DoneConsume ==
    /\ rpc = "done"
    /\ Queue!Finish
    /\ rpc' = "drain"
    /\ UNCHANGED <<others, turn, tree, screen>>

\* Mutant of HandleStop: leaves the switch only
HandleStopBreak ==
    /\ rpc = "handle"
    /\ current = Stop
    /\ current' = NoMsg
    /\ taken' = taken + 1
    /\ rpc' = "drain"
    /\ UNCHANGED <<others, turn, tree, screen, log, open>>

\* case ILG_STOP: goto stop
HandleStop ==
    /\ rpc = "handle"
    /\ current = Stop
    /\ Queue!Close
    /\ rpc' = "end"
    /\ UNCHANGED <<others, turn, tree, screen>>

\* Mutant of CheckWindow: relies on RESIZE messages
CheckWindowNot ==
    /\ rpc = "size"
    /\ rpc' = "draw"
    /\ UNCHANGED <<others, turn, tree, screen, queue>>

\* SDL_GetWindowSize() and the resize when it differs
CheckWindow ==
    /\ rpc = "size"
    /\ IF window # size THEN Reshape(window) ELSE UNCHANGED screen
    /\ rpc' = "draw"
    /\ UNCHANGED <<others, turn, tree, queue>>

\* render_frame(), SDL_GL_SwapWindow(), measure_frametime()
Draw ==
    /\ rpc = "draw"
    /\ rpc' = "frame"
    /\ UNCHANGED <<others, turn, tree, screen, queue>>

Render == \/ BuildTree \/ FirstResize \/ BeginFrame \/ Drain \/ Handle
          \/ DoneConsume \/ HandleStop \/ CheckWindow \/ Draw

Terminated == mpc = "freed" /\ UNCHANGED vars

Next == Main \/ Render \/ Terminated

Spec == Init /\ [][Next]_vars

\* The render thread runs; the main loop polls SDL and comes back from its calls.
FairSpec == /\ Spec
            /\ WF_vars(Render)
            /\ WF_vars(DirectChange \/ JoinAndFree)
            /\ WF_vars(act = <<>> /\ PollResize)
-----------------------------------------------------------------------------
TypeOK ==
    /\ mpc \in {"setup", "run", "join", "freed"}
    /\ act \in {<<>>} \cup ({"add", "del"} \X Edge)
    /\ edges \subseteq Edge /\ requested \subseteq Renderer
    /\ window \in Size \cup {NoSize} /\ sdl \in Seq(Size) /\ resizes \in 0..MaxWindow
    /\ rpc \in {"none", "build", "first", "frame", "drain", "handle", "done", "size", "draw", "end"}
    /\ turn \in Nat
    /\ children \in [Parent -> Seq(Renderer)] /\ built \subseteq Renderer
    /\ size \in Size /\ fb \in Size \cup {NoSize} /\ shown \in Size \cup {NoSize}
    /\ valid \in BOOLEAN
    /\ log \in Seq(Message) /\ taken \in 0..Len(log)
    /\ current \in Message \cup {NoMsg} /\ open \in BOOLEAN

\* The children of p, with those of its children
Drawn == LET passes == ToSet(children[Context])
         IN  passes \cup UNION {ToSet(children[p]) : p \in passes}

(***************************************************************************)
(* No renderer is drawn before it is built: legacy_draw and lights_draw    *)
(* read through the context pointer that build sets.  A client that builds *)
(* before it adds may rely on it at any time, because a frame is drawn     *)
(* only from an empty queue: the builds that a build uploads are run       *)
(* before the frame too, wherever the start of the thread falls between    *)
(* the test of push_msg and the change.                                    *)
(***************************************************************************)
DrawsOnlyBuilt == rpc = "draw" => Drawn \subseteq built

(***************************************************************************)
(* A removal finds the renderer it is to remove, whichever of the two      *)
(* threads carries it out.  The removal loops run to length-1, unsigned,   *)
(* and would run over an empty array.                                      *)
(***************************************************************************)
RemovalFindsRenderer ==
    /\ rpc = "handle" /\ current.type = "del" =>
           current.edge[2] \in ToSet(children[current.edge[1]])
    /\ act # <<>> /\ act[1] = "del" => act[2][2] \in ToSet(children[act[2][1]])

(***************************************************************************)
(* Additions and removals take effect in the order of the calls, half of   *)
(* them by message and half by direct change: a render thread that keeps   *)
(* running ends with the tree that the program asked for last.             *)
(***************************************************************************)
TreeIs(E) ==
    \A p \in Parent : /\ ToSet(children[p]) = {e[2] : e \in {d \in E : d[1] = p}}
                      /\ IsInjective(children[p])

TreeFollowsCalls ==
    \A E \in SUBSET Edge :
        <>[](mpc = "run" /\ edges = E) => <>[](TreeIs(E) \/ rpc = "end")

(***************************************************************************)
(* The size, the framebuffers if there are any, and the last resize event  *)
(* follow the window in the end, however RESIZE messages, stale ones among *)
(* them, and the check of the window size before each frame interleave.    *)
(***************************************************************************)
ResizeConverges ==
    <>[](mpc = "run" /\ rpc # "end" =>
            /\ size = window
            /\ fb # NoSize => fb = window /\ shown = window)

\* ilG_context_free() returns, also when the thread gave up on its first resize.
FreeReturns == mpc = "join" ~> mpc = "freed"

\* "Tried to render invalid context" (context.c:540): the loop is meant to
\* leave a context without complete framebuffers alone.
DrawsOnlyComplete == rpc = "draw" => fb # NoSize
=============================================================================
