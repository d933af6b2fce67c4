-------------------------------- MODULE Frames --------------------------------
(***************************************************************************)
(* The tree of GUI frames (graphics/gui/frame.c, guipass.c): where they    *)
(* are drawn, what ilG_gui_frame_abs() says, which of them a click comes   *)
(* to, and which are built.                                                *)
(***************************************************************************)
EXTENDS Integers, Sequences, SequencesExt, FiniteSets

CONSTANTS Frame, Root,
          Corner,       \* where frames are put: [x, y, xp, yp], xp and yp in halves
          Extent,       \* their sizes: [x, y, xp, yp]
          Screen,       \* <<width, height>> of the context
          Answer,       \* [Frame -> Action], what click handlers return
          Mouse,        \* where clicks are: <<x, y>>
          MaxRequests,  \* bound: frames to build at a time
          Orphan        \* NULL for a parent

VARIABLES parent, children, rect,
          built,        \* frames whose build function ran
          requested,    \* frames to build, uploaded to the render thread
          tangled,      \* a list of children was cut in the middle of a pointer
          loose,        \* history: frames added by a message
          late          \* history: frames added to one that was built

frames == <<parent, children, rect, built, requested, tangled, loose, late>>

Action == 0..2
UNHANDLED == 0
OVERRIDE  == 2

Kids(f) == ToSet(children[f])
Zero == [x |-> 0, y |-> 0, xp |-> 0, yp |-> 0]

\* A frame with all that is below it
Below(f) ==
    LET below[g \in Frame] == {g} \cup UNION {below[k] : k \in Kids(g)}
    IN  below[f]
-----------------------------------------------------------------------------
\* A number of halves as a float becomes an int
Trunc(h) == IF h >= 0 THEN h \div 2 ELSE -((-h) \div 2)

ComputeCoordAbs(c, p) ==
    [x |-> Trunc(2 * c.x + (p.b.x - p.a.x) * c.xp + 2 * p.a.x),
     y |-> Trunc(2 * c.y + (p.b.y - p.a.y) * c.yp + 2 * p.a.y), xp |-> 0, yp |-> 0]

ComputeRectAbs(r, p) == [a |-> ComputeCoordAbs(r.a, p), b |-> ComputeCoordAbs(r.b, p)]

\* ilG_gui_frame_abs(): from the frame up.  One without a parent is taken
\* without its percentages
Abs(f) ==
    LET abs[g \in Frame] ==
            IF parent[g] # Orphan THEN ComputeRectAbs(rect[g], abs[parent[g]])
            ELSE [a |-> [rect[g].a EXCEPT !.xp = 0, !.yp = 0],
                  b |-> [rect[g].b EXCEPT !.xp = 0, !.yp = 0]]
    IN  abs[f]

\* draw(): from the top down, every frame within the one that has it among
\* its children
Drawn == Below(Root)

DrawnAt(f) ==
    LET at[g \in Frame] == IF g = Root THEN Abs(Root)
                           ELSE ComputeRectAbs(rect[g], at[CHOOSE p \in Frame : g \in Kids(p)])
    IN  at[f]

\* ilG_gui_frame_contains() for a point that is relative to the frame
FrameContains(f, m) ==
    LET r == Abs(f)
        c == ComputeCoordAbs([x |-> m[1], y |-> m[2], xp |-> 0, yp |-> 0], r)
    IN  /\ c.x >= r.a.x /\ c.y >= r.a.y
        /\ c.x < r.b.x  /\ c.y < r.b.y

\* ilG_gui_click(): the result, and whose handlers were called, in that order
Click(m) ==
    LET click[f \in Frame] ==
          IF ~FrameContains(f, m) THEN [result |-> UNHANDLED, seen |-> <<>>]
          ELSE FoldLeft(LAMBDA r, k :
                            IF r.result = OVERRIDE THEN r
                            ELSE [result |-> IF click[k].result > r.result
                                             THEN click[k].result ELSE r.result,
                                  seen |-> r.seen \o click[k].seen],
                        [result |-> Answer[f], seen |-> <<f>>], children[f])
    IN  click[Root]
-----------------------------------------------------------------------------
FramesInit ==
    /\ parent = [f \in Frame |-> Orphan] /\ children = [f \in Frame |-> <<>>]
    /\ rect = [f \in Frame |-> [a |-> Zero, b |-> Zero]]
    /\ built = {} /\ requested = {} /\ tangled = FALSE /\ loose = {} /\ late = {}

\* setPosition() of frame.lua: the size stays
SetPosition(f, c) ==
    LET Moved(b, a) == [x |-> b.x + c.x - a.x, y |-> b.y + c.y - a.y,
                        xp |-> b.xp + c.xp - a.xp, yp |-> b.yp + c.yp - a.yp]
    IN  /\ rect' = [rect EXCEPT ![f] = [a |-> c, b |-> Moved(@.b, @.a)]]
        /\ UNCHANGED <<parent, children, built, requested, tangled, loose, late>>

\* setSize() of frame.lua
SetSize(f, e) ==
    LET a == rect[f].a
    IN  /\ rect' = [rect EXCEPT ![f].b = [x |-> a.x + e.x, y |-> a.y + e.y,
                                          xp |-> a.xp + e.xp, yp |-> a.yp + e.yp]]
        /\ UNCHANGED <<parent, children, built, requested, tangled, loose, late>>

\* Those who use frames add one to one place, and never below itself
Above(f) ==
    LET above[g \in Frame] == {g} \cup (IF parent[g] = Orphan THEN {} ELSE above[parent[g]])
    IN  above[f]

Addable(p, c) ==
    /\ c # Root /\ parent[c] = Orphan /\ \A g \in Frame : c \notin Kids(g)
    /\ p \notin Below(c) /\ c \notin Above(p)

Attach(p, c) ==
    /\ children' = [children EXCEPT ![p] = Append(@, c)]
    /\ late' = IF p \in built THEN late \cup {c} ELSE late

\* ilG_gui_addChild()
AddChild(p, c) ==
    /\ Addable(p, c) /\ Attach(p, c)
    /\ parent' = [parent EXCEPT ![c] = p]
    /\ UNCHANGED <<rect, built, requested, tangled, loose>>

\* frame_add_renderer(): sets no parent
AddRenderer(p, c) ==
    /\ Addable(p, c) /\ Attach(p, c)
    /\ loose' = loose \cup {c}
    /\ UNCHANGED <<parent, rect, built, requested, tangled>>

\* ilG_gui_pop(): the last child moves to its place
Pop(c) ==
    LET p == parent[c]
        s == children[p]
    IN  /\ p # Orphan
        /\ children' = IF c \notin Kids(p) THEN children
                       ELSE [children EXCEPT ![p] = IF c = Last(s) THEN Front(s)
                                ELSE [Front(s) EXCEPT ![CHOOSE i \in DOMAIN s : s[i] = c] = Last(s)]]
        /\ parent' = [parent EXCEPT ![c] = Orphan]
        /\ late' = late \ {c}
        /\ UNCHANGED <<rect, built, requested, tangled, loose>>

\* frame_del_renderer(): IL_REMOVE moves bytes, not pointers, and the child
\* keeps its parent
DelRenderer(p, c) ==
    /\ c \in Kids(p)
    /\ children' = [children EXCEPT ![p] = Front(@)]
    /\ tangled' = (c # Last(children[p]))
    /\ loose' = loose \ {c} /\ late' = late \ {c}
    /\ UNCHANGED <<parent, rect, built, requested>>

\* gui_build() for the root, ilG_renderer_build() for any
RequestBuild(f) ==
    /\ Cardinality(requested) < MaxRequests
    /\ requested' = requested \cup {f}
    /\ UNCHANGED <<parent, children, rect, built, tangled, loose, late>>

\* Mutant of FrameBuild: the children are left to build themselves
FrameBuildAlone(f) ==
    /\ f \in requested
    /\ requested' = requested \ {f}
    /\ built' = built \cup {f}
    /\ late' = late \ {f}
    /\ UNCHANGED <<parent, children, rect, tangled, loose>>

\* frame_build(), on the render thread
FrameBuild(f) ==
    /\ f \in requested
    /\ requested' = requested \ {f}
    /\ built' = built \cup Below(f)
    /\ late' = late \ Below(f)
    /\ UNCHANGED <<parent, children, rect, tangled, loose>>

\* gui_draw(): the root is as large as the screen
GuiDraw ==
    /\ Root \in built
    /\ rect' = [rect EXCEPT ![Root] = [a |-> Zero, b |-> [Zero EXCEPT !.x = Screen[1], !.y = Screen[2]]]]
    /\ UNCHANGED <<parent, children, built, requested, tangled, loose, late>>

FramesNext ==
    /\ ~tangled
    /\ \/ GuiDraw
       \/ \E f \in Frame : RequestBuild(f) \/ FrameBuild(f)
       \/ \E f \in Frame \ {Root} :
             \/ Pop(f)
             \/ \E c \in Corner : SetPosition(f, c)
             \/ \E e \in Extent : SetSize(f, e)
             \/ \E p \in Frame : AddChild(p, f) \/ AddRenderer(p, f) \/ DelRenderer(p, f)

FramesSpec == FramesInit /\ [][FramesNext]_frames
-----------------------------------------------------------------------------
Coord == [x : Int, y : Int, xp : Int, yp : Int]

FrameTypes ==
    /\ parent \in [Frame -> Frame \cup {Orphan}] /\ children \in [Frame -> Seq(Frame)]
    /\ rect \in [Frame -> [a : Coord, b : Coord]]
    /\ built \cup requested \cup loose \cup late \subseteq Frame /\ tangled \in BOOLEAN

Path(f) == {g \in Drawn : f \in Below(g)}

(***************************************************************************)
(* A frame is drawn where ilG_gui_frame_abs() says it is, down the lists   *)
(* of children as up the parents, unless it came there by a message to a   *)
(* renderer, or something above it did: that sets no parent.               *)
(***************************************************************************)
DrawnWhereAbs ==
    ~tangled => \A f \in Drawn : Path(f) \cap loose = {} => DrawnAt(f) = Abs(f)

Under(f, m) == LET r == DrawnAt(f) IN /\ m[1] >= r.a.x /\ m[1] < r.b.x
                                     /\ m[2] >= r.a.y /\ m[2] < r.b.y

(***************************************************************************)
(* A click comes to the frames that are drawn under it, with all they are  *)
(* in, up to the first that overrides it, and nowhere else: as long as     *)
(* they begin where the screen does.  Of others, the click is compared     *)
(* with their size and not with their place.                               *)
(***************************************************************************)
ClickComesToDrawn ==
    ~tangled /\ (\A f \in Drawn : DrawnAt(f).a = Zero) /\ Drawn \cap loose = {} =>
        \A m \in Mouse :
            LET got  == Click(m).seen
                hits == {f \in Drawn : \A g \in Path(f) : Under(g, m)}
            IN  /\ ToSet(got) \subseteq hits
                /\ \A i \in DOMAIN got : Answer[got[i]] = OVERRIDE => i = Len(got)
                /\ (\A f \in hits : Answer[f] # OVERRIDE) => ToSet(got) = hits

(***************************************************************************)
(* Once the root is built, a frame that is drawn has been built, unless it *)
(* or one it is in was added later to a frame that was built already.      *)
(***************************************************************************)
DrawnBuiltOrLate ==
    ~tangled /\ Root \in built => \A f \in Drawn : f \in built \/ Path(f) \cap late # {}
=============================================================================
