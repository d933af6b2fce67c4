-------------------------- MODULE RenderThreadProofs --------------------------
(***************************************************************************)
(* What holds of the tree of renderers for all trees, all numbers of       *)
(* messages and all interleavings of the main thread and the render        *)
(* thread: nothing is drawn before it is built, and a removal finds what   *)
(* it is to remove.                                                        *)
(***************************************************************************)
EXTENDS RenderThread, SequenceFacts

\* The messages in the queue whose effect the render thread has yet to produce
Handled == IF rpc = "done" THEN taken + 1 ELSE taken
Pending == (Handled + 1)..Len(log)

IsChange(m) == m.type \in {"add", "del"}

\* The two threads and the message that is being handled
ControlInv ==
    /\ rpc = "none" <=> mpc = "setup"
    /\ mpc = "setup" => window = NoSize /\ built = {}
    /\ mpc \in {"run", "join"} => window # NoSize
    /\ mpc = "freed" => rpc = "end"
    /\ act # <<>> => mpc \in {"setup", "run"}
    /\ act # <<>> /\ act[2][1] = Context => mpc = "setup"
    /\ rpc = "handle" => taken < Len(log) /\ current = log[taken + 1]
    /\ rpc = "done" => taken < Len(log)
    /\ turn >= 1
    /\ rpc = "none" => turn = 1

\* Passes stand under the context, leaves under passes
TreeInv ==
    \A p \in Parent : \A i \in DOMAIN children[p] : <<p, children[p][i]>> \in Edge

\* A change is sent to a renderer that is built, or to a context that runs; none
\* is on its way to the renderer that the main thread changes directly
SentInv ==
    \A i \in DOMAIN log : IsChange(log[i]) =>
        /\ mpc # "setup"
        /\ log[i].edge[1] \in built \cup {Context}
        /\ act # <<>> => log[i].edge[1] # act[2][1]

BaseInv == TypeOK /\ ControlInv /\ TreeInv /\ SentInv

\* Built, or to be built before the next frame
Ready(r) == r \in built \/ \E i \in Pending : log[i] = Upload(r)

RequestedReady == \A r \in requested : Ready(r)

\* A renderer to be added is built before it is added
AddedReady ==
    \A i \in Pending : log[i].type = "add" =>
        \/ log[i].edge[2] \in built
        \/ \E j \in Pending : j < i /\ log[j] = Upload(log[i].edge[2])

ChildReady(p) == \A i \in DOMAIN children[p] : Ready(children[p][i])
ChildBuilt(p) == \A i \in DOMAIN children[p] : children[p][i] \in built

ChildrenReady == \A p \in Pass \cap built : ChildReady(p)

TopReady ==
    /\ rpc = "build" =>
           \A i \in DOMAIN children[Context] : i < turn => children[Context][i] \in built
    /\ rpc \notin {"none", "build"} => ChildReady(Context)

ActRequested == act # <<>> /\ act[1] = "add" /\ mpc # "setup" => act[2][2] \in requested

\* From the empty queue to the end of the frame
FrameBuilt ==
    rpc \in {"size", "draw"} =>
        /\ ChildBuilt(Context)
        /\ \A p \in Pass \cap built : ChildBuilt(p)
        /\ act # <<>> /\ act[1] = "add" /\ act[2][1] \in built => act[2][2] \in built

DrawInv ==
    /\ ActRequested
    /\ rpc # "end" => RequestedReady /\ AddedReady /\ ChildrenReady /\ TopReady /\ FrameBuilt

\* e is in the tree
Linked(e) == \E i \in DOMAIN children[e[1]] : children[e[1]][i] = e[2]

\* The i-th message changes e; the main thread is about to
On(i, e) == IsChange(log[i]) /\ log[i].edge = e
Acting(e) == act # <<>> /\ act[2] = e

\* The render thread takes every change of e, or gets none
Followed(e) == rpc # "end" \/ e[1] \notin built \cup {Context}

PendingOn(e) == {i \in Pending : On(i, e)}

\* The pending changes of e alternate, from the tree as it is to the tree as
\* the client sees it
FirstFits(e) ==
    \A i \in PendingOn(e) : (\A j \in PendingOn(e) : j >= i) =>
        (log[i].type = "del" <=> Linked(e))
NextFits(e) ==
    \A i, k \in PendingOn(e) : i < k /\ (\A j \in PendingOn(e) : j <= i \/ j >= k) =>
        (log[i].type = "del" <=> log[k].type = "add")
LastFits(e) ==
    \A i \in PendingOn(e) : (\A j \in PendingOn(e) : j <= i) =>
        (log[i].type = "add" <=> e \in edges)
NoneFits(e) == PendingOn(e) = {} /\ ~ Acting(e) => (Linked(e) <=> e \in edges)

Alternate(e) == FirstFits(e) /\ NextFits(e) /\ LastFits(e) /\ NoneFits(e)

ActConsistent(e) ==
    Acting(e) => /\ act[1] = "del" <=> Linked(e)
                 /\ act[1] = "add" <=> e \in edges

RemoveInv ==
    /\ \A p \in Parent : IsInjective(children[p])
    /\ \A e \in Edge : /\ Followed(e) => Alternate(e)
                       /\ ActConsistent(e)
-----------------------------------------------------------------------------
(* The loop of del_renderer() finds r if it is there.                      *)
LEMMA PositionFinds ==
    ASSUME NEW S, NEW s \in Seq(S), NEW r
    PROVE  \/ Position(s, r) = 0 /\ \A j \in DOMAIN s : s[j] # r
           \/ Position(s, r) \in DOMAIN s /\ s[Position(s, r)] = r
PROOF
<1> DEFINE Places == {j \in 1..Len(s) : s[j] = r}
<1>1. Position(s, r) = IF Places # {} THEN Min(Places) ELSE 0
  BY DEF Position, SelectInSeq
<1>2. Len(s) \in Nat /\ DOMAIN s = 1..Len(s)
  BY LenProperties
<1>3. ASSUME Places # {}
      PROVE  Min(Places) \in Places
  <2>1. Places \in SUBSET Nat
    BY <1>2
  <2> QED  BY <1>3, <2>1, MinIsLeast
<1> QED  BY <1>1, <1>2, <1>3

(* The array after the removal, by index.                                  *)
LEMMA WithoutByIndex ==
    ASSUME NEW S, NEW s \in Seq(S), NEW r
    PROVE  /\ Without(s, r) \in Seq(S)
           /\ Position(s, r) = 0 => Without(s, r) = s
           /\ Position(s, r) # 0 =>
                  /\ DOMAIN Without(s, r) = 1..(Len(s) - 1)
                  /\ \A k \in 1..(Len(s) - 1) :
                        Without(s, r)[k] = IF k = Position(s, r) THEN s[Len(s)] ELSE s[k]
PROOF
<1>1. CASE Position(s, r) = 0
  BY <1>1 DEF Without
<1>2. CASE Position(s, r) # 0
  <2>1. Position(s, r) \in DOMAIN s
    BY <1>2, PositionFinds
  <2>2. Without(s, r) = SubSeq([s EXCEPT ![Position(s, r)] = s[Len(s)]], 1, Len(s) - 1)
    BY <1>2 DEF Without
  <2> QED  BY <1>2, <2>1, <2>2, SwapByIndex
<1> QED  BY <1>1, <1>2

(* A removal from an array without duplicates takes out that one renderer. *)
LEMMA WithoutRemoves ==
    ASSUME NEW S, NEW s \in Seq(S), NEW r, IsInjective(s)
    PROVE  /\ IsInjective(Without(s, r))
           /\ \A x : (\E k \in DOMAIN Without(s, r) : Without(s, r)[k] = x)
                     <=> x # r /\ \E j \in DOMAIN s : s[j] = x
PROOF
<1>1. CASE Position(s, r) = 0
  BY <1>1, PositionFinds DEF Without
<1>2. CASE Position(s, r) # 0
  <2>1. Position(s, r) \in DOMAIN s /\ s[Position(s, r)] = r
    BY <1>2, PositionFinds
  <2>2. Without(s, r) = SubSeq([s EXCEPT ![Position(s, r)] = s[Len(s)]], 1, Len(s) - 1)
    BY <1>2 DEF Without
  <2>3. IsInjective(Without(s, r)) /\ ToSet(Without(s, r)) = ToSet(s) \ {r}
    BY <2>1, <2>2, SwapOfInjective
  <2> QED  BY <2>3 DEF ToSet
<1> QED  BY <1>1, <1>2

(* What a message is, by its type.                                         *)
LEMMA MessageTypes ==
    ASSUME NEW m \in Message
    PROVE  /\ m # NoMsg
           /\ m.type = "upload" => m.node \in Renderer /\ m = Upload(m.node)
           /\ m.type = "resize" => m.size \in Size
           /\ m.type \in {"add", "del"} => m.edge \in Edge /\ m = Change(m.type, m.edge)
           /\ m.type = "stop" <=> m = Stop
           /\ m.type \in {"upload", "resize", "add", "del", "stop"}
PROOF
  BY DEF Message, NoMsg, Upload, Resize, Change, Stop

(* What an edge joins.                                                     *)
LEMMA EdgeTypes ==
    ASSUME NEW e \in Edge
    PROVE  /\ e[1] \in Parent /\ e[2] \in Renderer /\ e = <<e[1], e[2]>>
           /\ e[1] = Context <=> e[2] \in Pass
           /\ e[1] # Context <=> e[2] \in Leaf
PROOF
  BY RenderThreadAssumption DEF Edge, Parent, Renderer

(* The tree after a change: the other arrays are as they were, and the one *)
(* that changes has nothing new but what is added.                         *)
LEMMA LinkTypes ==
    ASSUME children \in [Parent -> Seq(Renderer)], NEW t \in {"add", "del"}, NEW e \in Edge
    PROVE  /\ Link(t, e) \in [Parent -> Seq(Renderer)]
           /\ \A p \in Parent : p # e[1] => Link(t, e)[p] = children[p]
           /\ \A i \in DOMAIN Link(t, e)[e[1]] :
                 \/ t = "add" /\ Link(t, e)[e[1]][i] = e[2]
                 \/ \E j \in DOMAIN children[e[1]] : Link(t, e)[e[1]][i] = children[e[1]][j]
PROOF
<1> DEFINE s == children[e[1]]
           new == IF t = "add" THEN Append(s, e[2]) ELSE Without(s, e[2])
<1>1. e[1] \in Parent /\ e[2] \in Renderer /\ s \in Seq(Renderer)
  BY EdgeTypes
<1>2. Link(t, e) = [children EXCEPT ![e[1]] = new]
  BY DEF Link
<1> HIDE DEF s
<1>3. DOMAIN s = 1..Len(s) /\ Len(s) \in Nat
  BY <1>1, LenProperties
<1> DEFINE NewIs == /\ new \in Seq(Renderer)
                    /\ \A i \in DOMAIN new : \/ t = "add" /\ new[i] = e[2]
                                           \/ \E j \in DOMAIN s : new[i] = s[j]
<1>4. ASSUME t = "add"
      PROVE  NewIs
  <2>1. /\ Append(s, e[2]) \in Seq(Renderer)
        /\ DOMAIN Append(s, e[2]) = 1..(Len(s) + 1)
        /\ \A i \in 1..Len(s) : Append(s, e[2])[i] = s[i]
        /\ Append(s, e[2])[Len(s) + 1] = e[2]
    BY <1>1, AppendProperties, LenProperties
  <2>2. \A i \in DOMAIN Append(s, e[2]) :
           Append(s, e[2])[i] = e[2] \/ \E j \in DOMAIN s : Append(s, e[2])[i] = s[j]
    BY <1>3, <2>1
  <2> QED  BY <1>4, <2>1, <2>2
<1>5. ASSUME t = "del"
      PROVE  NewIs
  <2>1. Without(s, e[2]) \in Seq(Renderer)
    BY <1>1, WithoutByIndex
  <2>2. \A i \in DOMAIN Without(s, e[2]) : \E j \in DOMAIN s : Without(s, e[2])[i] = s[j]
    <3>1. CASE Position(s, e[2]) = 0
      BY <1>1, <3>1, WithoutByIndex
    <3>2. CASE Position(s, e[2]) # 0
      <4>1. /\ DOMAIN Without(s, e[2]) = 1..(Len(s) - 1)
            /\ \A k \in 1..(Len(s) - 1) :
                  Without(s, e[2])[k] = IF k = Position(s, e[2]) THEN s[Len(s)] ELSE s[k]
        BY <1>1, <3>2, WithoutByIndex
      <4> QED  BY <1>3, <4>1
    <3> QED  BY <3>1, <3>2
  <2> QED  BY <1>5, <2>1, <2>2
<1>6. NewIs
  BY <1>4, <1>5
<1> HIDE DEF new
<1> QED  BY <1>1, <1>2, <1>6 DEF s

(* A change keeps passes under the context and leaves under passes.        *)
LEMMA LinkKeepsTree ==
    ASSUME children \in [Parent -> Seq(Renderer)], TreeInv,
           NEW t \in {"add", "del"}, NEW e \in Edge
    PROVE  \A p \in Parent : \A i \in DOMAIN Link(t, e)[p] : <<p, Link(t, e)[p][i]>> \in Edge
PROOF
<1> SUFFICES ASSUME NEW p \in Parent, NEW i \in DOMAIN Link(t, e)[p]
             PROVE  <<p, Link(t, e)[p][i]>> \in Edge
  OBVIOUS
<1>1. CASE p # e[1]
  BY <1>1, LinkTypes DEF TreeInv
<1>2. CASE p = e[1]
  <2>1. CASE t = "add" /\ Link(t, e)[p][i] = e[2]
    BY <1>2, <2>1, EdgeTypes
  <2>2. CASE \E j \in DOMAIN children[p] : Link(t, e)[p][i] = children[p][j]
    BY <2>2 DEF TreeInv
  <2>3. \/ t = "add" /\ Link(t, e)[p][i] = e[2]
        \/ \E j \in DOMAIN children[p] : Link(t, e)[p][i] = children[p][j]
    BY <1>2, LinkTypes
  <2> QED  BY <2>1, <2>2, <2>3
<1> QED  BY <1>1, <1>2

(* Without duplicates, a change adds or removes just what it says.         *)
LEMMA LinkEffect ==
    ASSUME children \in [Parent -> Seq(Renderer)], NEW t \in {"add", "del"}, NEW e \in Edge,
           IsInjective(children[e[1]]), t = "add" => ~ Linked(e)
    PROVE  /\ IsInjective(Link(t, e)[e[1]])
           /\ \A r : (\E i \in DOMAIN Link(t, e)[e[1]] : Link(t, e)[e[1]][i] = r)
                 <=> IF r = e[2] THEN t = "add"
                     ELSE \E j \in DOMAIN children[e[1]] : children[e[1]][j] = r
PROOF
<1> DEFINE s == children[e[1]]
<1>1. e[1] \in Parent /\ e[2] \in Renderer /\ s \in Seq(Renderer) /\ IsInjective(s)
  BY EdgeTypes
<1>2. /\ Link(t, e)[e[1]] = IF t = "add" THEN Append(s, e[2]) ELSE Without(s, e[2])
      /\ Linked(e) <=> \E j \in DOMAIN s : s[j] = e[2]
  BY <1>1 DEF Link, Linked
<1> HIDE DEF s
<1>3. CASE t = "add"
  <2>1. /\ DOMAIN s = 1..Len(s) /\ Len(s) \in Nat
        /\ DOMAIN Append(s, e[2]) = 1..(Len(s) + 1)
        /\ \A i \in 1..Len(s) : Append(s, e[2])[i] = s[i]
        /\ Append(s, e[2])[Len(s) + 1] = e[2]
    <3>1. /\ Append(s, e[2]) \in Seq(Renderer)
          /\ Len(Append(s, e[2])) = Len(s) + 1
          /\ \A i \in 1..Len(s) : Append(s, e[2])[i] = s[i]
          /\ Append(s, e[2])[Len(s) + 1] = e[2]
      BY <1>1, AppendProperties
    <3> QED  BY <1>1, <3>1, LenProperties
  <2>2. \A j \in 1..Len(s) : s[j] # e[2]
    BY <1>2, <1>3, <2>1
  <2>3. \A a, b \in 1..Len(s) : s[a] = s[b] => a = b
    BY <1>1, <2>1 DEF IsInjective
  <2>4. IsInjective(Append(s, e[2]))
    BY <2>1, <2>2, <2>3 DEF IsInjective
  <2>5. \A r : (\E i \in DOMAIN Append(s, e[2]) : Append(s, e[2])[i] = r)
               <=> r = e[2] \/ \E j \in DOMAIN s : s[j] = r
    <3>1. ASSUME NEW i \in DOMAIN Append(s, e[2])
          PROVE  \/ Append(s, e[2])[i] = e[2]
                 \/ \E j \in DOMAIN s : s[j] = Append(s, e[2])[i]
      BY <2>1
    <3>2. \E i \in DOMAIN Append(s, e[2]) : Append(s, e[2])[i] = e[2]
      BY <2>1
    <3>3. ASSUME NEW j \in DOMAIN s
          PROVE  \E i \in DOMAIN Append(s, e[2]) : Append(s, e[2])[i] = s[j]
      BY <2>1
    <3> QED  BY <3>1, <3>2, <3>3
  <2> QED  BY <1>2, <1>3, <2>4, <2>5 DEF s
<1>4. CASE t = "del"
  <2>1. Link(t, e)[e[1]] = Without(s, e[2])
    BY <1>2, <1>4
  <2>2. /\ IsInjective(Without(s, e[2]))
        /\ \A r : (\E k \in DOMAIN Without(s, e[2]) : Without(s, e[2])[k] = r)
                  <=> r # e[2] /\ \E j \in DOMAIN s : s[j] = r
    <3>1. s \in Seq(Renderer) /\ IsInjective(s)
      BY <1>1
    <3> QED  BY ONLY <3>1, WithoutRemoves
  <2> QED  BY <1>4, <2>1, <2>2 DEF s
<1> QED  BY <1>3, <1>4

(* What push_msg leaves in the queue.                                      *)
LEMMA Sends ==
    ASSUME TypeOK, NEW m \in Message, Queue!Send(m)
    PROVE  /\ log' \in Seq(Message) /\ Len(log') = Len(log) + 1
           /\ \A i \in 1..Len(log) : log'[i] = log[i]
           /\ log'[Len(log) + 1] = m
           /\ UNCHANGED <<taken, current, open>>
PROOF
<1>1. log \in Seq(Message) /\ log' = Append(log, m)
  BY DEF TypeOK, Queue!Send
<1>2. /\ Append(log, m) \in Seq(Message) /\ Len(Append(log, m)) = Len(log) + 1
      /\ \A i \in 1..Len(log) : Append(log, m)[i] = log[i]
      /\ Append(log, m)[Len(log) + 1] = m
  BY <1>1, AppendProperties
<1> QED  BY <1>1, <1>2 DEF Queue!Send

(* What the build of a renderer leaves in the queue.                       *)
LEMMA Builds ==
    ASSUME TypeOK, TreeInv, NEW r \in Renderer, Build(r)
    PROVE  /\ built' = built \cup {r}
           /\ log' \in Seq(Message) /\ Len(log') >= Len(log)
           /\ \A i \in 1..Len(log) : log'[i] = log[i]
           /\ \A i \in (Len(log) + 1)..Len(log') : log'[i].type = "upload"
           /\ r \in Pass => \A i \in DOMAIN children[r] :
                 \E k \in (Len(log) + 1)..Len(log') : log'[k] = Upload(children[r][i])
PROOF
<1>1. log \in Seq(Message) /\ Len(log) \in Nat
  BY LenProperties DEF TypeOK
<1>2. CASE r \in Leaf
  BY <1>1, <1>2, RenderThreadAssumption DEF Build
<1>3. CASE r \in Pass
  <2> DEFINE s == children[r]
             uploads == [i \in DOMAIN s |-> Upload(s[i])]
  <2>1. s \in Seq(Renderer) /\ DOMAIN s = 1..Len(s) /\ Len(s) \in Nat
    BY <1>3, LenProperties DEF TypeOK, Parent
  <2>2. log' = log \o uploads /\ built' = built \cup {r}
    BY <1>3, RenderThreadAssumption DEF Build
  <2>3. \A i \in 1..Len(s) : Upload(s[i]) \in Message
    BY <2>1, ElementOfSeq DEF Message
  <2> HIDE DEF s
  <2>4. uploads \in Seq(Message)
    BY <2>1, <2>3, IsASeq
  <2>5. Len(uploads) = Len(s) /\ \A i \in 1..Len(s) : uploads[i] = Upload(s[i])
    BY <2>1, <2>4, LenProperties
  <2> HIDE DEF uploads
  <2>6. /\ log' \in Seq(Message) /\ Len(log') = Len(log) + Len(s)
        /\ \A i \in 1..(Len(log) + Len(s)) :
              log'[i] = IF i <= Len(log) THEN log[i] ELSE uploads[i - Len(log)]
    <3>1. /\ log \o uploads \in Seq(Message)
          /\ Len(log \o uploads) = Len(log) + Len(uploads)
          /\ \A i \in 1..Len(log) + Len(uploads) :
                (log \o uploads)[i] = IF i <= Len(log) THEN log[i] ELSE uploads[i - Len(log)]
      BY <1>1, <2>4, ConcatProperties
    <3> QED  BY <2>2, <2>5, <3>1
  <2>7. \A i \in (Len(log) + 1)..Len(log') : log'[i].type = "upload"
    <3> SUFFICES ASSUME NEW i \in (Len(log) + 1)..Len(log')
                 PROVE  log'[i].type = "upload"
      OBVIOUS
    <3>1. i - Len(log) \in 1..Len(s) /\ log'[i] = uploads[i - Len(log)]
      BY <1>1, <2>1, <2>6
    <3>2. uploads[i - Len(log)] = Upload(s[i - Len(log)])
      BY <2>5, <3>1
    <3> QED  BY <3>1, <3>2 DEF Upload
  <2>8. \A i \in DOMAIN s : \E k \in (Len(log) + 1)..Len(log') : log'[k] = Upload(s[i])
    <3> SUFFICES ASSUME NEW i \in DOMAIN s
                 PROVE  log'[Len(log) + i] = Upload(s[i]) /\ Len(log) + i \in (Len(log) + 1)..Len(log')
      OBVIOUS
    <3> QED  BY <1>1, <2>1, <2>5, <2>6
  <2> QED  BY <1>1, <2>1, <2>2, <2>6, <2>7, <2>8 DEF s
<1> QED  BY <1>2, <1>3 DEF Renderer
-----------------------------------------------------------------------------
(* The framebuffers after context_resize().                                *)
LEMMA Reshapes ==
    ASSUME TypeOK, NEW s \in Size, Reshape(s)
    PROVE  /\ size' \in Size /\ fb' \in Size \cup {NoSize}
           /\ shown' \in Size \cup {NoSize} /\ valid' \in BOOLEAN
PROOF
  BY DEF TypeOK, Reshape

(* The messages of the queue.                                              *)
LEMMA LogTypes ==
    ASSUME TypeOK
    PROVE  /\ Len(log) \in Nat /\ DOMAIN log = 1..Len(log)
           /\ \A i \in 1..Len(log) : log[i] \in Message
PROOF
<1>1. log \in Seq(Message)
  BY DEF TypeOK
<1> QED  BY <1>1, LenProperties, ElementOfSeq

(* Each action keeps the types.                                            *)
LEMMA TypeNext ==
    ASSUME BaseInv, [Next]_vars
    PROVE  TypeOK'
PROOF
<1> USE DEF BaseInv
<1>1. /\ Len(log) \in Nat /\ taken \in 0..Len(log)
      /\ \A i \in 1..Len(log) : log[i] \in Message
  BY LogTypes DEF TypeOK
<1>2. ASSUME NEW r \in Renderer, RequestBuild(r)
      PROVE  TypeOK'
  <2>1. Upload(r) \in Message
    BY DEF Message
  <2> QED  BY <1>1, <1>2, <2>1, Sends DEF RequestBuild, Send, TypeOK, client, desktop, tree, screen
<1>3. ASSUME NEW t \in {"add", "del"}, NEW e \in Edge, PushMsg(t, e)
      PROVE  TypeOK'
  <2>1. Change(t, e) \in Message
    BY DEF Message
  <2>2. edges' \subseteq Edge
    BY <1>3 DEF PushMsg, TypeOK
  <2>3. CASE Attached(e[1])
    BY <1>1, <1>3, <2>1, <2>2, <2>3, Sends DEF PushMsg, Send, TypeOK, desktop, tree, screen
  <2>4. CASE ~ Attached(e[1])
    BY <1>3, <2>2, <2>4 DEF PushMsg, TypeOK, desktop, tree, screen, queue
  <2> QED  BY <2>3, <2>4
<1>4. ASSUME NEW s \in Size, RequestResize(s)
      PROVE  TypeOK'
  <2>1. Resize(s) \in Message
    BY DEF Message
  <2> QED  BY <1>1, <1>4, <2>1, Sends DEF RequestResize, Send, TypeOK, client, desktop, tree, screen
<1>5. CASE StartContext
  BY <1>5, RenderThreadAssumption DEF StartContext, TypeOK, client, tree, queue
<1>6. CASE PollResize
  <2>1. Head(sdl) \in Size /\ Tail(sdl) \in Seq(Size)
    BY <1>6, HeadTailProperties DEF PollResize, TypeOK
  <2>2. Resize(Head(sdl)) \in Message
    BY <2>1 DEF Message
  <2> QED  BY <1>1, <1>6, <2>1, <2>2, Sends DEF PollResize, TypeOK, client, tree, screen
<1>7. CASE FreeContext
  <2>1. Stop \in Message
    BY DEF Message
  <2> QED  BY <1>1, <1>7, <2>1, Sends DEF FreeContext, TypeOK, client, desktop, tree, screen
<1>8. CASE DirectChange
  <2>1. act[1] \in {"add", "del"} /\ act[2] \in Edge
    BY <1>8 DEF DirectChange, TypeOK
  <2>2. Link(act[1], act[2]) \in [Parent -> Seq(Renderer)]
    BY <2>1, LinkTypes DEF TypeOK
  <2> QED  BY <1>8, <2>2 DEF DirectChange, TypeOK, client, desktop, screen, queue
<1>9. CASE JoinAndFree
  BY <1>9 DEF JoinAndFree, TypeOK, client, tree, screen, queue
<1>10. ASSUME NEW s \in Size, UserResize(s)
       PROVE  TypeOK'
  <2>1. Append(sdl, s) \in Seq(Size)
    BY AppendProperties DEF TypeOK
  <2>2. resizes' \in 0..MaxWindow
    BY <1>10, RenderThreadAssumption DEF UserResize, TypeOK
  <2> QED  BY <1>10, <2>1, <2>2 DEF UserResize, TypeOK, client, tree, screen, queue
<1>11. CASE BuildTree
  <2>1. CASE turn <= Len(children[Context])
    <3>1. children[Context][turn] \in Renderer
      <4>1. children[Context] \in Seq(Renderer)
        BY DEF TypeOK, Parent
      <4> QED  BY <2>1, <4>1, ElementOfSeq DEF TypeOK, ControlInv
    <3> QED  BY <1>1, <1>11, <2>1, <3>1, Builds DEF BuildTree, TypeOK, others, client, desktop, screen
  <2>2. CASE ~ (turn <= Len(children[Context]))
    BY <1>11, <2>2 DEF BuildTree, TypeOK, others, client, desktop, screen, queue
  <2> QED  BY <2>1, <2>2
<1>12. CASE FirstResize
  BY <1>12, Reshapes, RenderThreadAssumption
     DEF FirstResize, TypeOK, others, client, desktop, tree, queue
<1>13. CASE BeginFrame
  <2>1. taken' \in 0..Len(log) /\ current' \in {current, NoMsg} /\ open' \in BOOLEAN /\ log' = log
    <3>1. CASE valid
      BY <1>1, <1>13, <3>1 DEF BeginFrame, TypeOK, queue
    <3>2. CASE ~ valid
      <4>1. taken' \in 0..Len(log) /\ current' = NoMsg /\ open' = FALSE /\ log' = log
        BY <1>1, <1>13, <3>2 DEF BeginFrame, Queue!Close
      <4> QED  BY <4>1
    <3> QED  BY <3>1, <3>2
  <2> QED  BY <1>13, <2>1 DEF BeginFrame, TypeOK, others, client, desktop, tree, screen
<1>14. CASE Drain
  BY <1>1, <1>14 DEF Drain, TypeOK, others, client, desktop, tree, screen, queue, Queue!Take
<1>15. CASE Handle
  <2>1. current \in Message
    BY <1>1, <1>15 DEF Handle, ControlInv, TypeOK
  <2>2. CASE HandleUpload
    <3>1. current.node \in Renderer
      BY <2>1, <2>2, MessageTypes DEF HandleUpload
    <3> QED  BY <1>1, <1>15, <2>2, <3>1, Builds
             DEF Handle, HandleUpload, TypeOK, others, client, desktop, screen
  <2>3. CASE HandleResize
    <3>1. current.size \in Size
      BY <2>1, <2>3, MessageTypes DEF HandleResize
    <3> QED  BY <1>15, <2>3, <3>1, Reshapes
             DEF Handle, HandleResize, TypeOK, others, client, desktop, tree, queue
  <2>4. CASE HandleMessage
    <3>1. Link(current.type, current.edge) \in [Parent -> Seq(Renderer)]
      BY <2>1, <2>4, MessageTypes, LinkTypes DEF HandleMessage, TypeOK
    <3> QED  BY <1>15, <2>4, <3>1
             DEF Handle, HandleMessage, TypeOK, others, client, desktop, screen, queue
  <2> QED  BY <1>15, <2>2, <2>3, <2>4 DEF Handle
<1>16. CASE DoneConsume
  BY <1>1, <1>16
     DEF DoneConsume, ControlInv, TypeOK, others, client, desktop, tree, screen, Queue!Finish
<1>17. CASE HandleStop
  <2>1. taken' \in 0..Len(log) /\ current' = NoMsg /\ open' = FALSE /\ log' = log
    BY <1>1, <1>17 DEF HandleStop, Queue!Close
  <2> QED  BY <1>17, <2>1 DEF HandleStop, TypeOK, others, client, desktop, tree, screen
<1>18. CASE CheckWindow
  <2>1. window # size => window \in Size
    BY <1>18 DEF CheckWindow, ControlInv, TypeOK
  <2>2. /\ size' \in Size /\ fb' \in Size \cup {NoSize}
        /\ shown' \in Size \cup {NoSize} /\ valid' \in BOOLEAN
    <3>1. CASE window # size
      BY <1>18, <2>1, <3>1, Reshapes DEF CheckWindow
    <3>2. CASE window = size
      BY <1>18, <3>2 DEF CheckWindow, TypeOK, screen
    <3> QED  BY <3>1, <3>2
  <2> QED  BY <1>18, <2>2 DEF CheckWindow, TypeOK, others, client, desktop, tree, queue
<1>19. CASE Draw
  BY <1>19 DEF Draw, TypeOK, others, client, desktop, tree, screen, queue
<1>20. CASE UNCHANGED vars
  BY <1>20 DEF vars, TypeOK, client, desktop, tree, screen, queue
<1> QED
  BY <1>2, <1>3, <1>4, <1>5, <1>6, <1>7, <1>8, <1>9, <1>10, <1>11, <1>12, <1>13, <1>14,
     <1>15, <1>16, <1>17, <1>18, <1>19, <1>20 DEF Next, Main, Render, Terminated

(* Each action leaves the two threads where they can be.                   *)
LEMMA ControlNext ==
    ASSUME BaseInv, [Next]_vars
    PROVE  ControlInv'
PROOF
<1> USE DEF BaseInv
<1>1. Len(log) \in Nat /\ taken \in 0..Len(log)
  BY LogTypes DEF TypeOK
<1>2. ASSUME NEW r \in Renderer, RequestBuild(r)
      PROVE  ControlInv'
  <2>1. Upload(r) \in Message
    BY DEF Message
  <2> QED  BY <1>1, <1>2, <2>1, Sends DEF RequestBuild, Send, ControlInv, client, desktop, tree
<1>3. ASSUME NEW t \in {"add", "del"}, NEW e \in Edge, act = <<>>, PushMsg(t, e)
      PROVE  ControlInv'
  <2>1. Change(t, e) \in Message
    BY DEF Message
  <2>2. CASE Attached(e[1])
    BY <1>1, <1>3, <2>1, <2>2, Sends DEF PushMsg, Send, ControlInv, desktop, tree
  <2>3. CASE ~ Attached(e[1])
    <3>1. act' = <<t, e>> /\ UNCHANGED <<mpc, window, rpc, turn, built, log, taken, current>>
      BY <1>3, <2>3 DEF PushMsg, desktop, tree, queue
    <3>2. e[1] = Context => mpc = "setup"
      BY <1>3, <2>3 DEF PushMsg, Attached, ControlInv
    <3> QED  BY <1>3, <3>1, <3>2 DEF PushMsg, ControlInv
  <2> QED  BY <2>2, <2>3
<1>4. ASSUME NEW s \in Size, RequestResize(s)
      PROVE  ControlInv'
  <2>1. Resize(s) \in Message
    BY DEF Message
  <2> QED  BY <1>1, <1>4, <2>1, Sends DEF RequestResize, Send, ControlInv, client, desktop, tree
<1>5. CASE act = <<>> /\ StartContext
  BY <1>5, RenderThreadAssumption DEF StartContext, ControlInv, tree, queue
<1>6. CASE PollResize
  <2>1. Head(sdl) \in Size
    BY <1>6, HeadTailProperties DEF PollResize, TypeOK
  <2>2. Resize(Head(sdl)) \in Message
    BY <2>1 DEF Message
  <2> QED  BY <1>1, <1>6, <2>2, Sends DEF PollResize, ControlInv, client, tree
<1>7. CASE act = <<>> /\ FreeContext
  <2>1. Stop \in Message
    BY DEF Message
  <2> QED  BY <1>1, <1>7, <2>1, Sends DEF FreeContext, ControlInv, client, desktop, tree
<1>8. CASE DirectChange
  BY <1>8 DEF DirectChange, ControlInv, client, desktop, queue
<1>9. CASE JoinAndFree
  BY <1>9 DEF JoinAndFree, ControlInv, tree, queue
<1>10. ASSUME NEW s \in Size, UserResize(s)
       PROVE  ControlInv'
  BY <1>10, RenderThreadAssumption DEF UserResize, ControlInv, tree, queue
<1>11. CASE BuildTree
  <2>1. CASE turn <= Len(children[Context])
    <3>1. children[Context][turn] \in Renderer
      <4>1. children[Context] \in Seq(Renderer)
        BY DEF TypeOK, Parent
      <4> QED  BY <2>1, <4>1, ElementOfSeq DEF TypeOK, ControlInv
    <3> QED  BY <1>1, <1>11, <2>1, <3>1, Builds DEF BuildTree, ControlInv, TypeOK, others, desktop
  <2>2. CASE ~ (turn <= Len(children[Context]))
    BY <1>11, <2>2 DEF BuildTree, ControlInv, others, desktop, queue
  <2> QED  BY <2>1, <2>2
<1>12. CASE FirstResize
  BY <1>12 DEF FirstResize, ControlInv, others, desktop, tree, queue
<1>13. CASE BeginFrame
  <2>1. rpc = "frame" /\ rpc' \in {"drain", "end"}
    BY <1>13 DEF BeginFrame
  <2> QED  BY <1>13, <2>1 DEF BeginFrame, ControlInv, others, desktop, tree
<1>14. CASE Drain
  BY <1>1, <1>14 DEF Drain, ControlInv, others, desktop, tree, queue, Queue!Take
<1>15. CASE Handle
  <2>1. UNCHANGED <<mpc, act, window, turn, taken>> /\ rpc = "handle" /\ rpc' = "done"
    BY <1>15 DEF Handle, HandleUpload, HandleResize, HandleMessage, others, desktop, queue
  <2>2. CASE HandleUpload
    <3>1. current.node \in Renderer
      BY <1>1, <1>15, <2>2, MessageTypes, LogTypes DEF Handle, HandleUpload, ControlInv
    <3>2. Len(log') >= Len(log) /\ Len(log') \in Nat
      BY <2>2, <3>1, Builds, LenProperties DEF HandleUpload
    <3>3. mpc # "setup"
      BY <2>1 DEF ControlInv
    <3> QED  BY <1>1, <2>1, <3>2, <3>3 DEF ControlInv
  <2>3. CASE HandleResize \/ HandleMessage
    BY <2>1, <2>3 DEF HandleResize, HandleMessage, ControlInv, tree, queue
  <2> QED  BY <1>15, <2>2, <2>3 DEF Handle
<1>16. CASE DoneConsume
  BY <1>16 DEF DoneConsume, ControlInv, others, desktop, tree
<1>17. CASE HandleStop
  BY <1>17 DEF HandleStop, ControlInv, others, desktop, tree
<1>18. CASE CheckWindow
  BY <1>18 DEF CheckWindow, ControlInv, others, desktop, tree, queue
<1>19. CASE Draw
  BY <1>19 DEF Draw, ControlInv, others, desktop, tree, queue
<1>20. CASE UNCHANGED vars
  BY <1>20 DEF vars, ControlInv, desktop, tree, queue
<1> QED
  BY <1>2, <1>3, <1>4, <1>5, <1>6, <1>7, <1>8, <1>9, <1>10, <1>11, <1>12, <1>13, <1>14,
     <1>15, <1>16, <1>17, <1>18, <1>19, <1>20 DEF Next, Main, Render, Terminated

(* Each action leaves passes under the context and leaves under passes.    *)
LEMMA TreeNext ==
    ASSUME BaseInv, [Next]_vars
    PROVE  TreeInv'
PROOF
<1>1. CASE DirectChange
  <2>1. act[1] \in {"add", "del"} /\ act[2] \in Edge /\ children' = Link(act[1], act[2])
    BY <1>1 DEF DirectChange, BaseInv, TypeOK
  <2> QED  BY <2>1, LinkKeepsTree DEF BaseInv, TypeOK, TreeInv
<1>2. CASE Handle /\ HandleMessage
  <2>1. current \in Message
    BY <1>2, LogTypes DEF Handle, BaseInv, ControlInv, TypeOK
  <2>2. /\ current.type \in {"add", "del"} /\ current.edge \in Edge
        /\ children' = Link(current.type, current.edge)
    BY <1>2, <2>1, MessageTypes DEF HandleMessage
  <2> QED  BY <2>2, LinkKeepsTree DEF BaseInv, TypeOK, TreeInv
<1>3. CASE UNCHANGED children
  BY <1>3 DEF BaseInv, TreeInv
<1> QED
  BY <1>1, <1>2, <1>3
     DEF Next, Main, Render, Terminated, vars, RequestBuild, PushMsg, RequestResize, StartContext,
         PollResize, FreeContext, JoinAndFree, UserResize, BuildTree, FirstResize, BeginFrame,
         Drain, Handle, HandleUpload, HandleResize, DoneConsume, HandleStop, CheckWindow, Draw, tree

(* Messages that are no changes leave what is known of the changes.        *)
LEMMA SentGrows ==
    ASSUME BaseInv, mpc' = mpc \/ mpc' # "setup", act' = act, built \subseteq built',
           log' \in Seq(Message), Len(log') >= Len(log),
           \A i \in 1..Len(log) : log'[i] = log[i],
           \A i \in (Len(log) + 1)..Len(log') : ~ IsChange(log'[i])
    PROVE  SentInv'
PROOF
<1>1. Len(log) \in Nat /\ DOMAIN log = 1..Len(log)
  BY LogTypes DEF BaseInv
<1>2. Len(log') \in Nat /\ DOMAIN log' = 1..Len(log')
  BY LenProperties
<1> SUFFICES ASSUME NEW i \in DOMAIN log', IsChange(log'[i])
             PROVE  /\ mpc' # "setup"
                    /\ log'[i].edge[1] \in built' \cup {Context}
                    /\ act' # <<>> => log'[i].edge[1] # act'[2][1]
  BY DEF SentInv, IsChange
<1>3. i \in DOMAIN log /\ log'[i] = log[i]
  BY <1>1, <1>2
<1> QED  BY <1>3 DEF BaseInv, SentInv, IsChange

(* Changes are sent only to renderers that are built, or to the context.   *)
LEMMA SentNext ==
    ASSUME BaseInv, [Next]_vars
    PROVE  SentInv'
PROOF
<1>1. /\ Len(log) \in Nat /\ DOMAIN log = 1..Len(log)
      /\ \A i \in 1..Len(log) : log[i] \in Message
  BY LogTypes DEF BaseInv
<1>2. ASSUME NEW m \in Message, Queue!Send(m), m.type \notin {"add", "del"},
             mpc' = mpc \/ mpc' # "setup", act' = act, built' = built
      PROVE  SentInv'
  <2>1. \A i \in (Len(log) + 1)..Len(log') : ~ IsChange(log'[i])
    BY <1>1, <1>2, Sends DEF BaseInv, IsChange
  <2> QED  BY <1>1, <1>2, <2>1, Sends, SentGrows DEF BaseInv
<1>3. ASSUME NEW t \in {"add", "del"}, NEW e \in Edge, act = <<>>, PushMsg(t, e)
      PROVE  SentInv'
  <2>1. Change(t, e) \in Message /\ Change(t, e).edge = e
    BY DEF Message, Change
  <2>2. CASE Attached(e[1])
    <3>1. UNCHANGED <<mpc, act, built>> /\ Queue!Send(Change(t, e))
      BY <1>3, <2>2 DEF PushMsg, Send, tree
    <3>2. mpc # "setup" /\ e[1] \in built \cup {Context}
      BY <1>3, <2>2 DEF PushMsg, Attached, BaseInv, ControlInv
    <3>3. /\ log' \in Seq(Message) /\ Len(log') = Len(log) + 1
          /\ \A i \in 1..Len(log) : log'[i] = log[i]
          /\ log'[Len(log) + 1] = Change(t, e)
      BY <2>1, <3>1, Sends DEF BaseInv
    <3>4. DOMAIN log' = 1..(Len(log) + 1)
      BY <3>3, LenProperties
    <3> SUFFICES ASSUME NEW i \in DOMAIN log', IsChange(log'[i])
                 PROVE  /\ mpc' # "setup"
                        /\ log'[i].edge[1] \in built' \cup {Context}
                        /\ act' = <<>>
      BY DEF SentInv, IsChange
    <3>5. CASE i = Len(log) + 1
      BY <1>3, <2>1, <3>1, <3>2, <3>3, <3>5
    <3>6. CASE i # Len(log) + 1
      <4>1. i \in DOMAIN log /\ log'[i] = log[i]
        BY <1>1, <3>3, <3>4, <3>6
      <4> QED  BY <1>3, <3>1, <3>2, <4>1 DEF BaseInv, SentInv, IsChange
    <3> QED  BY <3>5, <3>6
  <2>3. CASE ~ Attached(e[1])
    <3>1. act' = <<t, e>> /\ UNCHANGED <<mpc, built, log>>
      BY <1>3, <2>3 DEF PushMsg, tree, queue
    <3>2. IF e[1] = Context THEN mpc = "setup" ELSE e[1] \notin built
      BY <1>3, <2>3 DEF PushMsg, Attached, BaseInv, ControlInv
    <3>3. \A i \in DOMAIN log : IsChange(log[i]) => log[i].edge[1] # e[1]
      BY <3>2 DEF BaseInv, SentInv
    <3> QED  BY <3>1, <3>3 DEF BaseInv, SentInv, IsChange
  <2> QED  BY <2>2, <2>3
<1>4. ASSUME NEW r \in Renderer, Build(r), UNCHANGED <<mpc, act>>
      PROVE  SentInv'
  <2>1. \A i \in (Len(log) + 1)..Len(log') : ~ IsChange(log'[i])
    BY <1>4, Builds DEF BaseInv, IsChange
  <2> QED  BY <1>1, <1>4, <2>1, Builds, SentGrows DEF BaseInv
<1>5. ASSUME NEW r \in Renderer, RequestBuild(r)
      PROVE  SentInv'
  <2>1. Upload(r) \in Message /\ Upload(r).type = "upload"
    BY DEF Message, Upload
  <2> QED  BY <1>2, <1>5, <2>1 DEF RequestBuild, Send, tree
<1>6. ASSUME NEW s \in Size, RequestResize(s)
      PROVE  SentInv'
  <2>1. Resize(s) \in Message /\ Resize(s).type = "resize"
    BY DEF Message, Resize
  <2> QED  BY <1>2, <1>6, <2>1 DEF RequestResize, Send, tree
<1>7. CASE PollResize
  <2>1. Head(sdl) \in Size
    BY <1>7, HeadTailProperties DEF PollResize, BaseInv, TypeOK
  <2>2. Resize(Head(sdl)) \in Message /\ Resize(Head(sdl)).type = "resize"
    BY <2>1 DEF Message, Resize
  <2> QED  BY <1>2, <1>7, <2>2 DEF PollResize, tree
<1>8. CASE FreeContext
  <2>1. Stop \in Message /\ Stop.type = "stop"
    BY DEF Message, Stop
  <2> QED  BY <1>2, <1>8, <2>1 DEF FreeContext, tree
<1>9. CASE BuildTree
  <2>1. CASE turn <= Len(children[Context])
    <3>1. children[Context] \in Seq(Renderer) /\ turn \in 1..Len(children[Context])
      BY <2>1 DEF BaseInv, TypeOK, ControlInv, Parent
    <3>2. children[Context][turn] \in Renderer
      BY <3>1, ElementOfSeq
    <3> QED  BY <1>4, <1>9, <2>1, <3>2 DEF BuildTree, others
  <2>2. CASE ~ (turn <= Len(children[Context]))
    BY <1>9, <2>2 DEF BuildTree, BaseInv, SentInv, others, queue
  <2> QED  BY <2>1, <2>2
<1>10. CASE Handle /\ HandleUpload
  <2>1. current.node \in Renderer
    BY <1>1, <1>10, MessageTypes DEF Handle, HandleUpload, BaseInv, ControlInv, TypeOK
  <2> QED  BY <1>4, <1>10, <2>1 DEF Handle, HandleUpload, others
<1>11. CASE /\ log' = log /\ built' = built /\ act' \in {act, <<>>}
            /\ mpc' = mpc \/ mpc' # "setup"
  BY <1>11 DEF BaseInv, SentInv
<1>12. CASE \/ StartContext \/ DirectChange \/ JoinAndFree \/ UNCHANGED vars
            \/ \E s \in Size : UserResize(s)
  BY <1>11, <1>12 DEF StartContext, DirectChange, JoinAndFree, UserResize, vars, tree, queue
<1>13. CASE \/ FirstResize \/ BeginFrame \/ Drain \/ (Handle /\ HandleResize)
            \/ (Handle /\ HandleMessage) \/ DoneConsume \/ HandleStop \/ CheckWindow \/ Draw
  BY <1>11, <1>13
     DEF FirstResize, BeginFrame, Drain, Handle, HandleResize, HandleMessage, DoneConsume,
         HandleStop, CheckWindow, Draw, others, tree, queue, Queue!Take, Queue!Finish, Queue!Close
<1> QED
  BY <1>3, <1>5, <1>6, <1>7, <1>8, <1>9, <1>10, <1>12, <1>13
     DEF Next, Main, Render, Terminated, Handle

(* The initial state is as the basic invariant says.                       *)
LEMMA BaseInit == Init => BaseInv
PROOF
<1> SUFFICES ASSUME Init
             PROVE  BaseInv
  OBVIOUS
<1>1. /\ <<>> \in Seq(Message) /\ Len(<<>>) = 0 /\ <<>> \in Seq(Size) /\ <<>> \in Seq(Renderer)
      /\ DOMAIN <<>> = {}
  BY EmptySeq
<1>2. TypeOK
  <2>1. children \in [Parent -> Seq(Renderer)] /\ sdl \in Seq(Size)
    BY <1>1 DEF Init
  <2>2. log \in Seq(Message) /\ Len(log) = 0 /\ taken = 0 /\ current = NoMsg /\ open = TRUE
    BY <1>1 DEF Init, Queue!Init
  <2>3. resizes \in 0..MaxWindow /\ taken \in 0..Len(log) /\ turn \in Nat
    BY <2>2, RenderThreadAssumption DEF Init
  <2>4. act \in {<<>>} \cup ({"add", "del"} \X Edge)
    BY DEF Init
  <2>5. /\ window \in Size \cup {NoSize} /\ size \in Size /\ fb \in Size \cup {NoSize}
        /\ shown \in Size \cup {NoSize} /\ valid \in BOOLEAN
    BY RenderThreadAssumption DEF Init
  <2>6. /\ mpc \in {"setup", "run", "join", "freed"} /\ edges = {} /\ requested = {}
        /\ rpc = "none" /\ built = {}
    BY DEF Init
  <2> QED  BY <2>1, <2>2, <2>3, <2>4, <2>5, <2>6 DEF TypeOK
<1>3. ControlInv
  BY DEF Init, ControlInv
<1>4. TreeInv
  BY <1>1 DEF Init, TreeInv
<1>5. SentInv
  BY <1>1 DEF Init, SentInv, Queue!Init
<1> QED  BY <1>2, <1>3, <1>4, <1>5 DEF BaseInv

(* The basic invariant holds in every state.                               *)
LEMMA BaseInvariant == Spec => []BaseInv
PROOF
<1>1. BaseInv /\ [Next]_vars => BaseInv'
  BY TypeNext, ControlNext, TreeNext, SentNext DEF BaseInv
<1> QED  BY <1>1, BaseInit, PTL DEF Spec

(* Type correctness of the render thread and of the tree of renderers.     *)
THEOREM RenderTypes == Spec => []TypeOK
PROOF
<1>1. BaseInv => TypeOK
  BY DEF BaseInv
<1> QED  BY <1>1, BaseInvariant, PTL
-----------------------------------------------------------------------------
\* A step appends to the queue and handles at most one message; an upload that
\* is handled has built its renderer.
Advance ==
    /\ log' \in Seq(Message) /\ Len(log') >= Len(log)
    /\ \A i \in 1..Len(log) : log'[i] = log[i]
    /\ built \subseteq built'
    /\ \/ Handled' = Handled
       \/ /\ Handled' = Handled + 1
          /\ \A r \in Renderer : log[Handled + 1] = Upload(r) => r \in built'

(* The log grows at its end and is handled from its front.                 *)
LEMMA AdvanceNext ==
    ASSUME BaseInv, [Next]_vars, rpc' # "end"
    PROVE  Advance
PROOF
<1>1. /\ log \in Seq(Message) /\ Len(log) \in Nat /\ taken \in 0..Len(log)
      /\ \A i \in 1..Len(log) : log[i] \in Message
  BY LogTypes DEF BaseInv, TypeOK
<1>2. ASSUME NEW m \in Message, Queue!Send(m), built' = built, rpc' = rpc
      PROVE  Advance
  BY <1>1, <1>2, Sends DEF BaseInv, Advance, Handled
<1>3. ASSUME log' = log, built' = built, taken' = taken, rpc # "done", rpc' # "done"
      PROVE  Advance
  BY <1>1, <1>3 DEF Advance, Handled
<1>4. ASSUME NEW r \in Renderer, RequestBuild(r)
      PROVE  Advance
  <2>1. Upload(r) \in Message
    BY DEF Message
  <2> QED  BY <1>2, <1>4, <2>1 DEF RequestBuild, Send, tree
<1>5. ASSUME NEW t \in {"add", "del"}, NEW e \in Edge, PushMsg(t, e)
      PROVE  Advance
  <2>1. Change(t, e) \in Message
    BY DEF Message
  <2>2. CASE Attached(e[1])
    BY <1>2, <1>5, <2>1, <2>2 DEF PushMsg, Send, tree
  <2>3. CASE ~ Attached(e[1])
    BY <1>1, <1>5, <2>3 DEF PushMsg, tree, queue, Advance, Handled
  <2> QED  BY <2>2, <2>3
<1>6. ASSUME NEW s \in Size, RequestResize(s)
      PROVE  Advance
  <2>1. Resize(s) \in Message
    BY DEF Message
  <2> QED  BY <1>2, <1>6, <2>1 DEF RequestResize, Send, tree
<1>7. CASE PollResize
  <2>1. Head(sdl) \in Size
    BY <1>7, HeadTailProperties DEF PollResize, BaseInv, TypeOK
  <2>2. Resize(Head(sdl)) \in Message
    BY <2>1 DEF Message
  <2> QED  BY <1>2, <1>7, <2>2 DEF PollResize, tree
<1>8. CASE FreeContext
  <2>1. Stop \in Message
    BY DEF Message
  <2> QED  BY <1>2, <1>8, <2>1 DEF FreeContext, tree
<1>9. CASE BuildTree
  <2>1. CASE turn <= Len(children[Context])
    <3>1. children[Context] \in Seq(Renderer) /\ turn \in 1..Len(children[Context])
      BY <2>1 DEF BaseInv, TypeOK, ControlInv, Parent
    <3>2. children[Context][turn] \in Renderer
      BY <3>1, ElementOfSeq
    <3>3. Build(children[Context][turn]) /\ taken' = taken /\ rpc = "build" /\ rpc' = "build"
      BY <1>9, <2>1 DEF BuildTree
    <3> QED  BY <1>1, <3>2, <3>3, Builds DEF BaseInv, Advance, Handled
  <2>2. CASE ~ (turn <= Len(children[Context]))
    BY <1>3, <1>9, <2>2 DEF BuildTree, queue
  <2> QED  BY <2>1, <2>2
<1>10. CASE Handle
  <2>1. /\ rpc = "handle" /\ rpc' = "done" /\ taken' = taken
        /\ taken < Len(log) /\ current = log[taken + 1] /\ current \in Message
    BY <1>1, <1>10
       DEF Handle, HandleUpload, HandleResize, HandleMessage, queue, BaseInv, ControlInv
  <2>2. Handled = taken /\ Handled' = taken + 1
    BY <1>1, <2>1 DEF Handled
  <2>3. CASE HandleUpload
    <3>1. current.node \in Renderer /\ Build(current.node)
      BY <2>1, <2>3, MessageTypes DEF HandleUpload
    <3>2. \A r \in Renderer : current = Upload(r) => r \in built'
      BY <3>1, Builds DEF BaseInv, Upload
    <3> QED  BY <1>1, <2>1, <2>2, <3>1, <3>2, Builds DEF BaseInv, Advance
  <2>4. CASE HandleResize \/ HandleMessage
    <3>1. \A r \in Renderer : current # Upload(r)
      BY <2>4 DEF HandleResize, HandleMessage, Upload
    <3>2. log' = log /\ built' = built
      BY <2>4 DEF HandleResize, HandleMessage, tree, queue
    <3> QED  BY <1>1, <2>1, <2>2, <3>1, <3>2 DEF Advance
  <2> QED  BY <1>10, <2>3, <2>4 DEF Handle
<1>11. CASE DoneConsume
  BY <1>1, <1>11 DEF DoneConsume, Queue!Finish, tree, Advance, Handled
<1>12. CASE \/ DirectChange \/ JoinAndFree \/ UNCHANGED vars
            \/ \E s \in Size : UserResize(s)
  BY <1>1, <1>12 DEF DirectChange, JoinAndFree, UserResize, vars, tree, queue, Advance, Handled
<1>13. CASE \/ StartContext \/ FirstResize \/ BeginFrame \/ Drain \/ CheckWindow \/ Draw
  BY <1>3, <1>13
     DEF StartContext, FirstResize, BeginFrame, Drain, CheckWindow, Draw, Queue!Take, tree, queue,
         BaseInv, ControlInv
<1> QED
  BY <1>4, <1>5, <1>6, <1>7, <1>8, <1>9, <1>10, <1>11, <1>12, <1>13
     DEF Next, Main, Render, Terminated, HandleStop

(* What is built or to be built stays so.                                  *)
LEMMA ReadyStays ==
    ASSUME BaseInv, Advance, NEW r \in Renderer, Ready(r)
    PROVE  Ready(r)'
PROOF
<1>1. Len(log) \in Nat /\ Len(log') \in Nat /\ Handled \in Nat
  <2>1. Len(log) \in Nat /\ taken \in Nat
    BY LogTypes DEF BaseInv, TypeOK
  <2> QED  BY <2>1, LenProperties DEF Advance, Handled
<1>2. CASE r \in built
  BY <1>2 DEF Advance, Ready
<1>3. ASSUME NEW i \in Pending, log[i] = Upload(r)
      PROVE  Ready(r)'
  <2>1. i \in 1..Len(log) /\ log'[i] = Upload(r)
    BY <1>1, <1>3 DEF Pending, Advance
  <2>2. CASE i \in Pending'
    BY <2>1, <2>2 DEF Ready
  <2>3. CASE i \notin Pending'
    <3>1. Handled' = Handled + 1 /\ i = Handled + 1
      BY <1>1, <2>3 DEF Pending, Advance
    <3> QED  BY <1>3, <3>1 DEF Advance, Ready
  <2> QED  BY <2>2, <2>3
<1> QED  BY <1>2, <1>3 DEF Ready

(* An addition that is next in the queue finds its renderer built.         *)
LEMMA FirstAddedBuilt ==
    ASSUME BaseInv, AddedReady, rpc = "handle", current.type = "add"
    PROVE  current.edge[2] \in built
PROOF
<1>1. Len(log) \in Nat /\ taken \in 0..Len(log) /\ taken < Len(log) /\ current = log[taken + 1]
  BY LogTypes DEF BaseInv, TypeOK, ControlInv
<1>2. Handled = taken /\ taken + 1 \in Pending /\ \A j \in Pending : ~ (j < taken + 1)
  BY <1>1 DEF Handled, Pending
<1> QED  BY <1>1, <1>2 DEF AddedReady

(* What is requested stays on its way to being built.                      *)
LEMMA RequestedNext ==
    ASSUME BaseInv, Advance, RequestedReady, [Next]_vars
    PROVE  RequestedReady'
PROOF
<1>1. Len(log) \in Nat /\ taken \in 0..Len(log) /\ requested \subseteq Renderer
  BY LogTypes DEF BaseInv, TypeOK
<1>2. \A r \in requested : Ready(r)'
  BY <1>1, ReadyStays DEF RequestedReady
<1>3. ASSUME NEW r \in Renderer, RequestBuild(r)
      PROVE  RequestedReady'
  <2>1. requested' = requested \cup {r} /\ Queue!Send(Upload(r)) /\ Upload(r) \in Message /\ rpc' = rpc
    BY <1>3 DEF RequestBuild, Send, Message
  <2>2. Len(log') = Len(log) + 1 /\ log'[Len(log) + 1] = Upload(r) /\ taken' = taken
    BY <2>1, Sends DEF BaseInv
  <2>3. Len(log) + 1 \in Pending'
    BY <1>1, <2>1, <2>2 DEF Pending, Handled, BaseInv, ControlInv
  <2>4. Ready(r)'
    BY <2>2, <2>3 DEF Ready
  <2> QED  BY <1>2, <2>1, <2>4 DEF RequestedReady, Ready
<1>4. CASE requested' = requested
  BY <1>2, <1>4 DEF RequestedReady, Ready
<1> QED
  BY <1>3, <1>4
     DEF Next, Main, Render, Terminated, vars, PushMsg, RequestResize, StartContext,
         PollResize, FreeContext, DirectChange, JoinAndFree, UserResize, BuildTree, FirstResize,
         BeginFrame, Drain, Handle, DoneConsume, HandleStop, CheckWindow, Draw, others, client

(* The additions that wait stay behind the builds they wait for.           *)
LEMMA AddedStays ==
    ASSUME BaseInv, Advance, AddedReady,
           NEW i \in Pending', i <= Len(log), log'[i].type = "add"
    PROVE  \/ log'[i].edge[2] \in built'
           \/ \E j \in Pending' : j < i /\ log'[j] = Upload(log'[i].edge[2])
PROOF
<1>1. Len(log) \in Nat /\ Len(log') \in Nat /\ Handled \in Nat
  <2>1. Len(log) \in Nat /\ taken \in Nat
    BY LogTypes DEF BaseInv, TypeOK
  <2> QED  BY <2>1, LenProperties DEF Advance, Handled
<1>2. i \in Pending /\ i \in 1..Len(log) /\ log'[i] = log[i]
  BY <1>1 DEF Pending, Advance
<1>3. log[i].edge[2] \in Renderer
  <2>1. log[i] \in Message
    BY <1>2, LogTypes DEF BaseInv
  <2> QED  BY <1>2, <2>1, MessageTypes, EdgeTypes
<1>4. CASE log[i].edge[2] \in built
  BY <1>2, <1>4 DEF Advance
<1>5. ASSUME NEW j \in Pending, j < i, log[j] = Upload(log[i].edge[2])
      PROVE  \/ log'[i].edge[2] \in built'
             \/ \E k \in Pending' : k < i /\ log'[k] = Upload(log'[i].edge[2])
  <2>1. j \in 1..Len(log) /\ log'[j] = log[j]
    BY <1>1, <1>5 DEF Pending, Advance
  <2>2. CASE j \in Pending'
    BY <1>2, <1>5, <2>1, <2>2
  <2>3. CASE j \notin Pending'
    <3>1. Handled' = Handled + 1 /\ j = Handled + 1
      BY <1>1, <2>1, <2>3 DEF Pending, Advance
    <3> QED  BY <1>2, <1>3, <1>5, <3>1 DEF Advance
  <2> QED  BY <2>2, <2>3
<1> QED  BY <1>2, <1>4, <1>5 DEF AddedReady

(* An addition that waits stays behind the builds it needs.                *)
LEMMA AddedNext ==
    ASSUME BaseInv, Advance, RequestedReady, AddedReady, [Next]_vars
    PROVE  AddedReady'
PROOF
<1>1. /\ Len(log) \in Nat /\ Len(log') \in Nat /\ taken \in 0..Len(log)
      /\ \A i \in Pending' : i \in 1..Len(log) \/ i \in (Len(log) + 1)..Len(log')
  <2>1. Len(log) \in Nat /\ taken \in 0..Len(log) /\ Handled \in Nat
    BY LogTypes DEF BaseInv, TypeOK, Handled
  <2>2. Len(log') \in Nat
    BY LenProperties DEF Advance
  <2>3. ASSUME NEW i \in Pending'
        PROVE  i \in 1..Len(log) \/ i \in (Len(log) + 1)..Len(log')
    BY <2>1, <2>2, <2>3 DEF Pending, Advance
  <2> QED  BY <2>1, <2>2, <2>3
<1>2. ASSUME \A i \in (Len(log) + 1)..Len(log') : log'[i].type # "add"
      PROVE  AddedReady'
  BY <1>1, <1>2, AddedStays DEF AddedReady
<1>3. ASSUME NEW m \in Message, Queue!Send(m), m.type # "add"
      PROVE  AddedReady'
  BY <1>1, <1>2, <1>3, Sends DEF BaseInv
<1>4. ASSUME NEW r \in Renderer, Build(r)
      PROVE  AddedReady'
  BY <1>2, <1>4, Builds DEF BaseInv
<1>5. ASSUME NEW t \in {"add", "del"}, NEW e \in Edge, PushMsg(t, e)
      PROVE  AddedReady'
  <2>1. Change(t, e) \in Message /\ Change(t, e).type = t /\ Change(t, e).edge = e
    BY DEF Message, Change
  <2>2. CASE ~ Attached(e[1])
    BY <1>1, <1>2, <1>5, <2>2 DEF PushMsg, queue
  <2>3. CASE Attached(e[1]) /\ t = "del"
    BY <1>3, <1>5, <2>1, <2>3 DEF PushMsg, Send
  <2>4. CASE Attached(e[1]) /\ t = "add"
    <3>1. Queue!Send(Change(t, e)) /\ rpc' = rpc /\ mpc = "run" /\ e[2] \in requested
      BY <1>5, <2>4 DEF PushMsg, Send, Attached, BaseInv, ControlInv
    <3>2. /\ Len(log') = Len(log) + 1 /\ log'[Len(log) + 1] = Change(t, e) /\ taken' = taken
          /\ \A i \in 1..Len(log) : log'[i] = log[i]
      BY <2>1, <3>1, Sends DEF BaseInv
    <3>3. Handled' = Handled /\ Handled \in Nat
      BY <1>1, <3>1, <3>2 DEF Handled
    <3>4. \/ e[2] \in built'
          \/ \E j \in Pending' : j < Len(log) + 1 /\ log'[j] = Upload(e[2])
      <4>1. CASE e[2] \in built
        BY <4>1 DEF Advance
      <4>2. ASSUME NEW j \in Pending, log[j] = Upload(e[2])
            PROVE  j \in Pending' /\ j < Len(log) + 1 /\ log'[j] = Upload(e[2])
        <5>1. j \in 1..Len(log)
          BY <1>1, <3>3 DEF Pending
        <5>2. j \in Pending'
          BY <1>1, <3>2, <3>3 DEF Pending
        <5> QED  BY <1>1, <3>2, <4>2, <5>1, <5>2
      <4> QED  BY <3>1, <4>1, <4>2 DEF RequestedReady, Ready
    <3>5. ASSUME NEW i \in Pending', log'[i].type = "add"
          PROVE  \/ log'[i].edge[2] \in built'
                 \/ \E j \in Pending' : j < i /\ log'[j] = Upload(log'[i].edge[2])
      <4>1. CASE i \in 1..Len(log)
        BY <3>5, <4>1, AddedStays
      <4>2. CASE i \in (Len(log) + 1)..Len(log')
        <5>1. i = Len(log) + 1
          BY <1>1, <3>2, <4>2
        <5> QED  BY <2>1, <3>2, <3>4, <5>1
      <4> QED  BY <1>1, <4>1, <4>2
    <3> QED  BY <3>5 DEF AddedReady
  <2> QED  BY <2>2, <2>3, <2>4
<1>6. ASSUME NEW r \in Renderer, RequestBuild(r)
      PROVE  AddedReady'
  BY <1>3, <1>6 DEF RequestBuild, Send, Message, Upload
<1>7. ASSUME NEW s \in Size, RequestResize(s)
      PROVE  AddedReady'
  BY <1>3, <1>7 DEF RequestResize, Send, Message, Resize
<1>8. CASE PollResize
  <2>1. Head(sdl) \in Size
    BY <1>8, HeadTailProperties DEF PollResize, BaseInv, TypeOK
  <2> QED  BY <1>3, <1>8, <2>1 DEF PollResize, Message, Resize
<1>9. CASE FreeContext
  BY <1>3, <1>9 DEF FreeContext, Message, Stop
<1>10. CASE BuildTree
  <2>1. CASE turn <= Len(children[Context])
    <3>1. children[Context] \in Seq(Renderer) /\ turn \in 1..Len(children[Context])
      BY <2>1 DEF BaseInv, TypeOK, ControlInv, Parent
    <3>2. children[Context][turn] \in Renderer
      BY <3>1, ElementOfSeq
    <3> QED  BY <1>4, <1>10, <2>1, <3>2 DEF BuildTree
  <2>2. CASE ~ (turn <= Len(children[Context]))
    BY <1>1, <1>2, <1>10, <2>2 DEF BuildTree, queue
  <2> QED  BY <2>1, <2>2
<1>11. CASE Handle /\ HandleUpload
  <2>1. current.node \in Renderer
    BY <1>11, LogTypes, MessageTypes DEF Handle, HandleUpload, BaseInv, ControlInv, TypeOK
  <2> QED  BY <1>4, <1>11, <2>1 DEF HandleUpload
<1>12. ASSUME log' = log
       PROVE  AddedReady'
  BY <1>1, <1>2, <1>12
<1>13. CASE \/ StartContext \/ DirectChange \/ JoinAndFree \/ UNCHANGED vars
            \/ \E s \in Size : UserResize(s)
  BY <1>12, <1>13 DEF StartContext, DirectChange, JoinAndFree, UserResize, vars, queue
<1>14. CASE \/ FirstResize \/ BeginFrame \/ Drain \/ (Handle /\ HandleResize)
            \/ (Handle /\ HandleMessage) \/ DoneConsume \/ HandleStop \/ CheckWindow \/ Draw
  BY <1>12, <1>14
     DEF FirstResize, BeginFrame, Drain, HandleResize, HandleMessage, DoneConsume,
         HandleStop, CheckWindow, Draw, queue, Queue!Take, Queue!Finish, Queue!Close
<1> QED
  BY <1>5, <1>6, <1>7, <1>8, <1>9, <1>10, <1>11, <1>13, <1>14
     DEF Next, Main, Render, Terminated, Handle

\* The steps that change the tree
ChangesTree ==
    \/ DirectChange
    \/ Handle /\ HandleMessage

(* What a step can do to the tree.                                         *)
LEMMA TreeChanges ==
    ASSUME BaseInv, [Next]_vars
    PROVE  \/ UNCHANGED children
           \/ ChangesTree
PROOF
  BY DEF ChangesTree, Next, Main, Render, Terminated, vars, RequestBuild, PushMsg, RequestResize,
         StartContext, PollResize, FreeContext, JoinAndFree, UserResize, BuildTree, FirstResize,
         BeginFrame, Drain, Handle, HandleUpload, HandleResize, DoneConsume, HandleStop,
         CheckWindow, Draw, tree

(* What a step that changes the tree does to it.                           *)
LEMMA TreeChange ==
    ASSUME BaseInv, ChangesTree
    PROVE  \E t \in {"add", "del"}, e \in Edge :
              /\ children' = Link(t, e)
              /\ \/ Handle /\ HandleMessage /\ rpc = "handle" /\ current = Change(t, e)
                 \/ DirectChange /\ act = <<t, e>> /\ act # <<>>
PROOF
<1>1. CASE DirectChange
  <2>1. act[1] \in {"add", "del"} /\ act[2] \in Edge /\ act = <<act[1], act[2]>> /\ act # <<>>
    BY <1>1 DEF DirectChange, BaseInv, TypeOK
  <2> QED  BY <1>1, <2>1 DEF DirectChange
<1>2. CASE Handle /\ HandleMessage
  <2>1. current \in Message /\ current.type \in {"add", "del"} /\ rpc = "handle"
    BY <1>2, LogTypes DEF Handle, HandleMessage, BaseInv, ControlInv, TypeOK
  <2>2. current.edge \in Edge /\ current = Change(current.type, current.edge)
    BY <2>1, MessageTypes
  <2> QED  BY <1>2, <2>1, <2>2 DEF HandleMessage
<1> QED  BY <1>1, <1>2 DEF ChangesTree

(* The children of a renderer stay ready once the context has started.     *)
LEMMA ChildrenStay ==
    ASSUME BaseInv, Advance, RequestedReady, AddedReady, ActRequested, [Next]_vars,
           mpc # "setup", NEW p \in Parent, ChildReady(p)
    PROVE  ChildReady(p)'
PROOF
<1> SUFFICES ASSUME NEW i \in DOMAIN children'[p]
             PROVE  \E r \in Renderer : r = children'[p][i] /\ Ready(r)'
  BY DEF ChildReady, Ready
<1>1. \A j \in DOMAIN children[p] : Ready(children[p][j]) /\ children[p][j] \in Renderer
  <2>1. children[p] \in Seq(Renderer)
    BY DEF BaseInv, TypeOK
  <2> QED  BY <2>1, LenProperties, ElementOfSeq DEF ChildReady
<1>2. \A r \in Renderer : Ready(r) => Ready(r)'
  BY ReadyStays
<1>3. CASE UNCHANGED children
  BY <1>1, <1>2, <1>3
<1>4. CASE ChangesTree
  <2>1. PICK t \in {"add", "del"}, e \in Edge :
              /\ children' = Link(t, e)
              /\ \/ rpc = "handle" /\ current = Change(t, e)
                 \/ act = <<t, e>> /\ act # <<>>
    BY <1>4, TreeChange
  <2>2. t = "add" => Ready(e[2])
    <3>1. CASE rpc = "handle" /\ current = Change(t, e)
      BY <3>1, FirstAddedBuilt DEF Change, Ready
    <3>2. CASE act = <<t, e>> /\ act # <<>>
      BY <3>2 DEF ActRequested, RequestedReady
    <3> QED  BY <2>1, <3>1, <3>2
  <2>3. e[2] \in Renderer
    BY EdgeTypes
  <2>4. \/ t = "add" /\ children'[p][i] = e[2]
        \/ \E j \in DOMAIN children[p] : children'[p][i] = children[p][j]
    <3>1. CASE p = e[1]
      BY <2>1, <3>1, LinkTypes DEF BaseInv, TypeOK
    <3>2. CASE p # e[1]
      BY <2>1, <3>2, LinkTypes DEF BaseInv, TypeOK
    <3> QED  BY <3>1, <3>2
  <2> QED  BY <1>1, <1>2, <2>2, <2>3, <2>4
<1> QED  BY <1>3, <1>4, TreeChanges

\* The steps that build a renderer
BuildsOne(r) ==
    /\ Build(r)
    /\ UNCHANGED children
    /\ \/ rpc = "build" /\ UNCHANGED <<rpc, taken>>
       \/ rpc = "handle"

(* What a step can do to the renderers that are built.                     *)
LEMMA BuiltGrows ==
    ASSUME BaseInv, [Next]_vars
    PROVE  \/ UNCHANGED built
           \/ \E r \in Renderer : BuildsOne(r)
PROOF
<1>1. CASE BuildTree
  <2>1. CASE turn <= Len(children[Context])
    <3>1. children[Context] \in Seq(Renderer) /\ turn \in 1..Len(children[Context])
      BY <2>1 DEF BaseInv, TypeOK, ControlInv, Parent
    <3>2. children[Context][turn] \in Renderer
      BY <3>1, ElementOfSeq
    <3> QED  BY <1>1, <2>1, <3>2 DEF BuildTree, BuildsOne
  <2> QED  BY <1>1, <2>1 DEF BuildTree
<1>2. CASE Handle
  <2>1. CASE HandleUpload
    <3>1. current.node \in Renderer
      BY <1>2, <2>1, LogTypes, MessageTypes DEF Handle, HandleUpload, BaseInv, ControlInv, TypeOK
    <3> QED  BY <1>2, <2>1, <3>1 DEF Handle, HandleUpload, BuildsOne
  <2> QED  BY <1>2, <2>1 DEF Handle, HandleResize, HandleMessage, tree
<1> QED
  BY <1>1, <1>2
     DEF Next, Main, Render, Terminated, vars, RequestBuild, PushMsg, RequestResize, StartContext,
         PollResize, FreeContext, DirectChange, JoinAndFree, UserResize, FirstResize, BeginFrame,
         Drain, DoneConsume, HandleStop, CheckWindow, Draw, tree

(* The children of a pass that is built stay ready.                        *)
LEMMA ChildrenNext ==
    ASSUME BaseInv, Advance, RequestedReady, AddedReady, ActRequested, ChildrenReady, [Next]_vars
    PROVE  ChildrenReady'
PROOF
<1> SUFFICES ASSUME NEW p \in Pass, p \in built'
             PROVE  ChildReady(p)'
  BY DEF ChildrenReady
<1>1. p \in Parent /\ p \in Renderer
  BY DEF Parent, Renderer
<1>2. CASE p \in built
  <2>1. mpc # "setup"
    BY <1>2 DEF BaseInv, ControlInv
  <2> QED  BY <1>1, <1>2, <2>1, ChildrenStay DEF ChildrenReady
<1>3. CASE p \notin built
  <2>1. PICK r \in Renderer : BuildsOne(r)
    BY <1>3, BuiltGrows
  <2>2. r = p
    BY <1>3, <2>1, Builds DEF BaseInv, BuildsOne
  <2>3. ASSUME NEW i \in DOMAIN children'[p]
        PROVE  \E k \in Pending' : log'[k] = Upload(children'[p][i])
    <3>1. PICK k \in (Len(log) + 1)..Len(log') : log'[k] = Upload(children[p][i])
      BY <2>1, <2>2, <2>3, Builds DEF BaseInv, BuildsOne
    <3>2. Len(log) \in Nat /\ Len(log') \in Nat /\ Handled' <= Len(log) /\ Handled' \in Nat
      <4>1. Len(log) \in Nat /\ taken \in 0..Len(log) /\ Len(log') \in Nat
        BY LogTypes, LenProperties DEF BaseInv, TypeOK, Advance
      <4>2. Handled + 1 <= Len(log) \/ rpc = "build"
        BY <2>1, <4>1 DEF BuildsOne, BaseInv, ControlInv, Handled
      <4>3. Handled' = Handled \/ Handled' = Handled + 1
        BY DEF Advance
      <4>4. rpc = "build" => Handled' = Handled
        BY <2>1, <4>1 DEF BuildsOne, Handled
      <4> QED  BY <4>1, <4>2, <4>3, <4>4 DEF Handled, BaseInv, ControlInv
    <3>3. k \in Pending'
      BY <3>1, <3>2 DEF Pending
    <3> QED  BY <2>1, <3>1, <3>3 DEF BuildsOne
  <2> QED  BY <2>3 DEF ChildReady, Ready
<1> QED  BY <1>2, <1>3

(* The renderers of the context stay ready to be drawn.                    *)
LEMMA TopNext ==
    ASSUME BaseInv, Advance, RequestedReady, AddedReady, ActRequested, TopReady,
           [Next]_vars, rpc # "end"
    PROVE  TopReady'
PROOF
<1>1. children[Context] \in Seq(Renderer) /\ Context \in Parent
  BY DEF BaseInv, TypeOK, Parent
<1>2. DOMAIN children[Context] = 1..Len(children[Context]) /\ Len(children[Context]) \in Nat
  BY <1>1, LenProperties
<1>3. CASE rpc \notin {"none", "build"}
  <2>1. rpc' \notin {"none", "build"}
    BY <1>3
       DEF Next, Main, Render, Terminated, vars, RequestBuild, PushMsg, RequestResize, StartContext,
           PollResize, FreeContext, DirectChange, JoinAndFree, UserResize, BuildTree, FirstResize,
           BeginFrame, Drain, Handle, DoneConsume, HandleStop, CheckWindow, Draw, BaseInv, ControlInv
  <2>2. mpc # "setup"
    BY <1>3 DEF BaseInv, ControlInv
  <2> QED  BY <1>1, <1>3, <2>1, <2>2, ChildrenStay DEF TopReady
<1>4. CASE rpc \in {"none", "build"}
  <2>1. mpc # "setup" => rpc = "build" /\ UNCHANGED children[Context]
    <3>1. SUFFICES ASSUME mpc # "setup", ChangesTree
                   PROVE  UNCHANGED children[Context]
      BY <1>4, TreeChanges DEF BaseInv, ControlInv
    <3>2. PICK t \in {"add", "del"}, e \in Edge :
              children' = Link(t, e) /\ act = <<t, e>> /\ act # <<>>
      BY <1>4, <3>1, TreeChange
    <3>3. e[1] # Context
      BY <3>1, <3>2 DEF BaseInv, ControlInv
    <3> QED  BY <1>1, <3>2, <3>3, LinkTypes DEF BaseInv, TypeOK
  <2>2. CASE rpc = "none"
    <3>1. \/ rpc' = "none"
          \/ rpc' = "build" /\ UNCHANGED <<turn, children>>
      BY <2>2
         DEF Next, Main, Render, Terminated, vars, RequestBuild, PushMsg, RequestResize,
             StartContext, PollResize, FreeContext, DirectChange, JoinAndFree, UserResize, BuildTree,
             FirstResize, BeginFrame, Drain, Handle, DoneConsume, HandleStop, CheckWindow, Draw, tree
    <3>2. turn = 1
      BY <2>2 DEF BaseInv, ControlInv
    <3> QED  BY <1>2, <3>1, <3>2 DEF TopReady
  <2>3. CASE rpc = "build" /\ BuildTree
    <3>1. UNCHANGED children
      BY <2>3 DEF BuildTree
    <3>2. CASE turn <= Len(children[Context])
      <4>1. turn \in DOMAIN children[Context] /\ turn \in Nat
        BY <1>2, <3>2 DEF BaseInv, ControlInv, TypeOK
      <4>2. children[Context][turn] \in Renderer
        BY <1>1, <1>2, <4>1, ElementOfSeq
      <4>3. /\ rpc' = "build" /\ turn' = turn + 1
            /\ built' = built \cup {children[Context][turn]}
        BY <2>3, <3>2, <4>2, Builds DEF BuildTree, BaseInv
      <4>4. ASSUME NEW i \in DOMAIN children[Context], i < turn + 1
            PROVE  children[Context][i] \in built'
        <5>1. i < turn \/ i = turn
          BY <1>2, <4>1, <4>4
        <5> QED  BY <2>3, <4>3, <5>1 DEF TopReady
      <4> QED  BY <3>1, <4>3, <4>4 DEF TopReady
    <3>3. CASE ~ (turn <= Len(children[Context]))
      <4>1. \A i \in DOMAIN children[Context] : children[Context][i] \in built
        BY <1>2, <2>3, <3>3 DEF TopReady, BaseInv, TypeOK
      <4>2. built' = built /\ rpc' = "first"
        BY <2>3, <3>3 DEF BuildTree
      <4> QED  BY <3>1, <4>1, <4>2 DEF TopReady, ChildReady, Ready
    <3> QED  BY <3>2, <3>3
  <2>4. CASE rpc = "build" /\ ~ BuildTree
    <3>1. rpc' = "build" /\ UNCHANGED turn
      BY <2>4
         DEF Next, Main, Render, Terminated, vars, RequestBuild, PushMsg, RequestResize,
             StartContext, PollResize, FreeContext, DirectChange, JoinAndFree, UserResize,
             FirstResize, BeginFrame, Drain, Handle, DoneConsume, HandleStop, CheckWindow, Draw,
             BaseInv, ControlInv
    <3>2. mpc # "setup"
      BY <2>4 DEF BaseInv, ControlInv
    <3> QED  BY <2>1, <2>4, <3>1, <3>2 DEF TopReady, Advance
  <2> QED  BY <1>4, <2>2, <2>3, <2>4
<1> QED  BY <1>3, <1>4

(* What the client is about to add stays requested.                        *)
LEMMA ActNext ==
    ASSUME BaseInv, ActRequested, [Next]_vars
    PROVE  ActRequested'
PROOF
<1>1. ASSUME NEW t \in {"add", "del"}, NEW e \in Edge, PushMsg(t, e), act = <<>>
      PROVE  ActRequested'
  <2>1. UNCHANGED <<mpc, requested>> /\ (t = "add" /\ mpc # "setup" => e[2] \in requested)
    BY <1>1 DEF PushMsg
  <2>2. act' = <<>> \/ act' = <<t, e>>
    BY <1>1 DEF PushMsg
  <2> QED  BY <2>1, <2>2 DEF ActRequested
<1>2. CASE /\ act' \in {act, <<>>} /\ requested \subseteq requested'
           /\ mpc # "setup" \/ mpc' = mpc \/ act = <<>>
  BY <1>2 DEF ActRequested
<1>3. CASE Main
  <2>1. CASE \/ \E r \in Renderer : RequestBuild(r)
             \/ \E s \in Size : RequestResize(s) \/ UserResize(s)
             \/ act = <<>> /\ (StartContext \/ PollResize \/ FreeContext)
             \/ DirectChange \/ JoinAndFree
    BY <1>2, <2>1
       DEF RequestBuild, RequestResize, UserResize, StartContext, PollResize, FreeContext,
           DirectChange, JoinAndFree, client
  <2> QED  BY <1>1, <1>3, <2>1 DEF Main
<1>4. CASE Render
  BY <1>2, <1>4
     DEF Render, BuildTree, FirstResize, BeginFrame, Drain, Handle, DoneConsume, HandleStop,
         CheckWindow, Draw, others, client
<1>5. CASE UNCHANGED vars
  BY <1>2, <1>5 DEF vars, client
<1> QED  BY <1>1, <1>3, <1>4, <1>5 DEF Next, Terminated

(* From the last message of a frame to its end all that is drawn is built. *)
LEMMA FrameNext ==
    ASSUME BaseInv, DrawInv, [Next]_vars, rpc # "end"
    PROVE  FrameBuilt'
PROOF
<1>1. CASE Drain
  <2>1. SUFFICES ASSUME taken = Len(log), rpc = "drain"
                 PROVE  FrameBuilt'
    BY <1>1 DEF Drain, FrameBuilt
  <2>2. UNCHANGED <<act, children, built>>
    BY <1>1 DEF Drain, others, tree
  <2>3. \A r : Ready(r) => r \in built
    <3>1. Len(log) \in Nat /\ Handled = Len(log)
      BY <2>1, LogTypes DEF BaseInv, Handled
    <3> QED  BY <3>1 DEF Ready, Pending
  <2>4. ChildBuilt(Context) /\ \A p \in Pass \cap built : ChildBuilt(p)
    BY <2>1, <2>3 DEF DrawInv, ChildrenReady, TopReady, ChildReady, ChildBuilt
  <2>5. act # <<>> /\ act[1] = "add" => act[2][2] \in built
    BY <2>1, <2>3 DEF DrawInv, RequestedReady, ActRequested, BaseInv, ControlInv
  <2> QED  BY <2>2, <2>4, <2>5 DEF FrameBuilt, ChildBuilt
<1>2. CASE rpc \in {"size", "draw"} /\ rpc' \in {"size", "draw"}
  <2>1. UNCHANGED built
    BY <1>2, BuiltGrows DEF BuildsOne
  <2>2. ASSUME NEW p \in {Context} \cup (Pass \cap built)
        PROVE  ChildBuilt(p)'
    <3>1. ChildBuilt(p) /\ p \in Parent
      BY <1>2, <2>2 DEF DrawInv, FrameBuilt, Parent
    <3>2. CASE UNCHANGED children
      BY <2>1, <3>1, <3>2 DEF ChildBuilt
    <3>3. CASE ChangesTree
      <4>1. PICK t \in {"add", "del"}, e \in Edge :
                  children' = Link(t, e) /\ act = <<t, e>> /\ act # <<>>
        BY <1>2, <3>3, TreeChange
      <4>2. CASE p # e[1]
        BY <2>1, <3>1, <4>1, <4>2, LinkTypes DEF ChildBuilt, BaseInv, TypeOK
      <4>3. CASE p = e[1]
        <5>1. p # Context /\ p \in built
          BY <1>2, <2>2, <4>1, <4>3 DEF BaseInv, ControlInv
        <5>2. t = "add" => e[2] \in built
          BY <1>2, <4>1, <4>3, <5>1 DEF DrawInv, FrameBuilt
        <5>3. ASSUME NEW i \in DOMAIN children'[p]
              PROVE  \/ t = "add" /\ children'[p][i] = e[2]
                     \/ \E j \in DOMAIN children[p] : children'[p][i] = children[p][j]
          BY <4>1, <4>3, LinkTypes DEF BaseInv, TypeOK
        <5> QED  BY <2>1, <3>1, <5>2, <5>3 DEF ChildBuilt
      <4> QED  BY <4>2, <4>3
    <3> QED  BY <3>2, <3>3, TreeChanges
  <2>3. act' # <<>> /\ act'[1] = "add" /\ act'[2][1] \in built => act'[2][2] \in built
    <3>1. CASE act' \in {act, <<>>}
      BY <1>2, <3>1 DEF DrawInv, FrameBuilt
    <3>2. ASSUME NEW t \in {"add", "del"}, NEW e \in Edge, act = <<>>, PushMsg(t, e)
          PROVE  act'[2][1] \in built => act' = <<>>
      <4>1. CASE Attached(e[1])
        BY <3>2, <4>1 DEF PushMsg
      <4>2. CASE ~ Attached(e[1])
        <5>1. act' = <<t, e>> /\ mpc # "setup"
          BY <1>2, <3>2, <4>2 DEF PushMsg, BaseInv, ControlInv
        <5>2. e[1] # Context
          BY <3>2, <4>2, <5>1 DEF PushMsg, Attached, BaseInv, ControlInv
        <5> QED  BY <4>2, <5>1, <5>2 DEF Attached
      <4> QED  BY <4>1, <4>2
    <3> QED
      BY <3>1, <3>2
         DEF Next, Main, Render, Terminated, vars, RequestBuild, RequestResize, StartContext,
             PollResize, FreeContext, DirectChange, JoinAndFree, UserResize, BuildTree, FirstResize,
             BeginFrame, Drain, Handle, DoneConsume, HandleStop, CheckWindow, Draw, others, client
  <2> QED  BY <2>1, <2>2, <2>3 DEF FrameBuilt
<1>3. CASE rpc' \notin {"size", "draw"}
  BY <1>3 DEF FrameBuilt
<1>4. rpc \in {"size", "draw"} \/ rpc' \notin {"size", "draw"} \/ Drain
  BY DEF Next, Main, Render, Terminated, vars, RequestBuild, PushMsg, RequestResize, StartContext,
         PollResize, FreeContext, DirectChange, JoinAndFree, UserResize, BuildTree, FirstResize,
         BeginFrame, Handle, DoneConsume, HandleStop, CheckWindow, Draw
<1> QED  BY <1>1, <1>2, <1>3, <1>4

(* Nothing is in the tree at first.                                        *)
LEMMA DrawInit == Init => DrawInv
PROOF
<1> SUFFICES ASSUME Init
             PROVE  DrawInv
  OBVIOUS
<1>1. rpc = "none" /\ act = <<>> /\ built = {} /\ requested = {} /\ log = <<>> /\ taken = 0
  BY DEF Init, Queue!Init
<1>2. Pending = {}
  <2>1. Len(<<>>) = 0
    BY EmptySeq
  <2> QED  BY <1>1, <2>1 DEF Pending, Handled
<1>3. AddedReady
  BY <1>2 DEF AddedReady
<1> QED  BY <1>1, <1>3
         DEF DrawInv, ActRequested, RequestedReady, ChildrenReady, TopReady, FrameBuilt

(* Each action keeps what drawing relies on.                               *)
LEMMA DrawNext ==
    ASSUME BaseInv, DrawInv, [Next]_vars
    PROVE  DrawInv'
PROOF
<1>1. ActRequested'
  BY ActNext DEF DrawInv
<1>2. ASSUME rpc' # "end"
      PROVE  (RequestedReady /\ AddedReady /\ ChildrenReady /\ TopReady /\ FrameBuilt)'
  <2>1. rpc # "end"
    BY <1>2
       DEF Next, Main, Render, Terminated, vars, RequestBuild, PushMsg, RequestResize, StartContext,
           PollResize, FreeContext, DirectChange, JoinAndFree, UserResize, BuildTree, FirstResize,
           BeginFrame, Drain, Handle, DoneConsume, HandleStop, CheckWindow, Draw, BaseInv, ControlInv
  <2>2. Advance
    BY <1>2, AdvanceNext
  <2>3. RequestedReady' /\ AddedReady' /\ ChildrenReady'
    BY <2>1, <2>2, RequestedNext, AddedNext, ChildrenNext DEF DrawInv
  <2>4. TopReady' /\ FrameBuilt'
    BY <2>1, <2>2, TopNext, FrameNext DEF DrawInv
  <2> QED  BY <2>3, <2>4
<1> QED  BY <1>1, <1>2 DEF DrawInv

(* Nothing is drawn before it is built: a client that builds before it     *)
(* adds may count on it however the two threads interleave.                *)
THEOREM DrawnIsBuilt == Spec => []DrawsOnlyBuilt
PROOF
<1>1. BaseInv /\ DrawInv /\ [Next]_vars => DrawInv'
  BY DrawNext
<1>2. BaseInv /\ DrawInv => DrawsOnlyBuilt
  <2> SUFFICES ASSUME BaseInv, DrawInv, rpc = "draw"
               PROVE  Drawn \subseteq built
    BY DEF DrawsOnlyBuilt
  <2>1. ChildBuilt(Context) /\ \A p \in Pass \cap built : ChildBuilt(p)
    BY DEF DrawInv, FrameBuilt
  <2>2. ToSet(children[Context]) \subseteq Pass \cap built
    <3> SUFFICES ASSUME NEW i \in DOMAIN children[Context]
                 PROVE  children[Context][i] \in Pass \cap built
      BY DEF ToSet
    <3>1. <<Context, children[Context][i]>> \in Edge
      BY DEF BaseInv, TreeInv, Parent
    <3> QED  BY <2>1, <3>1, EdgeTypes DEF ChildBuilt
  <2>3. \A p \in ToSet(children[Context]) : ToSet(children[p]) \subseteq built
    BY <2>1, <2>2 DEF ToSet, ChildBuilt
  <2> QED  BY <2>2, <2>3 DEF Drawn
<1> QED  BY <1>1, <1>2, BaseInvariant, DrawInit, PTL DEF Spec
-----------------------------------------------------------------------------
(* What is followed after a step was followed before it.                   *)
LEMMA FollowedBefore ==
    ASSUME BaseInv, [Next]_vars, NEW e \in Edge, Followed(e)'
    PROVE  Followed(e)
PROOF
<1>1. built \subseteq built'
  BY BuiltGrows, Builds DEF BaseInv, BuildsOne
<1>2. rpc = "end" => rpc' = "end"
  BY DEF Next, Main, Render, Terminated, vars, RequestBuild, PushMsg, RequestResize, StartContext,
         PollResize, FreeContext, DirectChange, JoinAndFree, UserResize, BuildTree, FirstResize,
         BeginFrame, Drain, Handle, DoneConsume, HandleStop, CheckWindow, Draw, BaseInv, ControlInv
<1> QED  BY <1>1, <1>2 DEF Followed

(* No change of a renderer is pending that gets its changes directly.      *)
LEMMA NothingPending ==
    ASSUME BaseInv, NEW e \in Edge,
           \/ e[1] \notin built \cup {Context}
           \/ mpc = "setup"
           \/ Acting(e)
    PROVE  PendingOn(e) = {}
PROOF
<1>1. Len(log) \in Nat /\ DOMAIN log = 1..Len(log) /\ Handled \in Nat
  <2>1. Len(log) \in Nat /\ DOMAIN log = 1..Len(log) /\ taken \in Nat
    BY LogTypes DEF BaseInv, TypeOK
  <2> QED  BY <2>1 DEF Handled
<1>2. \A i \in PendingOn(e) : i \in DOMAIN log /\ IsChange(log[i]) /\ log[i].edge = e
  BY <1>1 DEF PendingOn, Pending, On
<1> QED  BY <1>2 DEF BaseInv, SentInv, Acting

(* The change that the render thread is about to make is the first pending *)
(* one of its edge.                                                        *)
LEMMA HandledFirst ==
    ASSUME BaseInv, rpc = "handle", NEW t \in {"add", "del"}, NEW e \in Edge,
           current = Change(t, e)
    PROVE  /\ taken + 1 \in PendingOn(e) /\ log[taken + 1] = Change(t, e)
           /\ \A j \in PendingOn(e) : j >= taken + 1
           /\ Handled = taken
PROOF
<1>1. Len(log) \in Nat /\ taken \in 0..Len(log) /\ taken < Len(log) /\ log[taken + 1] = Change(t, e)
  BY LogTypes DEF BaseInv, TypeOK, ControlInv
<1>2. Handled = taken /\ taken + 1 \in Pending /\ \A j \in Pending : j >= taken + 1
  BY <1>1 DEF Handled, Pending
<1> QED  BY <1>1, <1>2 DEF PendingOn, On, IsChange, Change

(* A change of the tree finds what it is to remove, does not add what is   *)
(* there, and leaves the rest.                                             *)
LEMMA TreeEffect ==
    ASSUME BaseInv, RemoveInv, ChangesTree
    PROVE  \E t \in {"add", "del"}, d \in Edge :
              /\ \/ Handle /\ HandleMessage /\ rpc = "handle" /\ current = Change(t, d)
                 \/ DirectChange /\ act = <<t, d>> /\ act # <<>>
              /\ t = "del" <=> Linked(d)
              /\ \A p \in Parent : IsInjective(children'[p])
              /\ \A e \in Edge : Linked(e)' <=> IF e = d THEN t = "add" ELSE Linked(e)
PROOF
<1>1. PICK t \in {"add", "del"}, d \in Edge :
              /\ children' = Link(t, d)
              /\ \/ Handle /\ HandleMessage /\ rpc = "handle" /\ current = Change(t, d)
                 \/ DirectChange /\ act = <<t, d>> /\ act # <<>>
  BY TreeChange
<1>2. t = "del" <=> Linked(d)
  <2>1. CASE rpc = "handle" /\ current = Change(t, d)
    <3>1. Alternate(d)
      BY <2>1 DEF RemoveInv, Followed
    <3>2. Change(t, d).type = t
      BY DEF Change
    <3> QED  BY <2>1, <3>1, <3>2, HandledFirst DEF Alternate, FirstFits
  <2>2. CASE act = <<t, d>> /\ act # <<>>
    BY <2>2 DEF RemoveInv, ActConsistent, Acting
  <2> QED  BY <1>1, <2>1, <2>2
<1>3. children \in [Parent -> Seq(Renderer)] /\ \A p \in Parent : IsInjective(children[p])
  BY DEF BaseInv, TypeOK, RemoveInv
<1>4. d[1] \in Parent
  BY EdgeTypes
<1>5. /\ IsInjective(children'[d[1]])
      /\ \A r : (\E i \in DOMAIN children'[d[1]] : children'[d[1]][i] = r)
            <=> IF r = d[2] THEN t = "add"
                ELSE \E j \in DOMAIN children[d[1]] : children[d[1]][j] = r
  <2>1. t = "add" => ~ Linked(d)
    BY <1>2
  <2>2. /\ IsInjective(Link(t, d)[d[1]])
        /\ \A r : (\E i \in DOMAIN Link(t, d)[d[1]] : Link(t, d)[d[1]][i] = r)
              <=> IF r = d[2] THEN t = "add"
                  ELSE \E j \in DOMAIN children[d[1]] : children[d[1]][j] = r
    <3>1. IsInjective(children[d[1]])
      BY <1>3, <1>4
    <3> QED  BY <1>3, <2>1, <3>1, LinkEffect
  <2> QED  BY <1>1, <2>2
<1>6. \A p \in Parent : p # d[1] => children'[p] = children[p]
  BY <1>1, <1>3, LinkTypes
<1>7. \A p \in Parent : IsInjective(children'[p])
  BY <1>3, <1>5, <1>6
<1>8. ASSUME NEW e \in Edge
      PROVE  Linked(e)' <=> IF e = d THEN t = "add" ELSE Linked(e)
  <2>1. CASE e[1] # d[1]
    <3>1. e[1] \in Parent
      BY EdgeTypes
    <3> QED  BY <1>6, <2>1, <3>1 DEF Linked
  <2>2. CASE e[1] = d[1]
    <3>1. e = d <=> e[2] = d[2]
      BY <2>2, EdgeTypes
    <3>2. Linked(e)' <=> \E i \in DOMAIN children'[d[1]] : children'[d[1]][i] = e[2]
      BY <2>2 DEF Linked
    <3>3. Linked(e) <=> \E i \in DOMAIN children[d[1]] : children[d[1]][i] = e[2]
      BY <2>2 DEF Linked
    <3> QED  BY <1>5, <3>1, <3>2, <3>3
  <2> QED  BY <2>1, <2>2
<1> QED  BY <1>1, <1>2, <1>7, <1>8

\* The pending changes of e stay; one is appended; the first is made.
SamePending(e) ==
    PendingOn(e)' = PendingOn(e) /\ \A i \in PendingOn(e) : log'[i] = log[i]
MorePending(t, e) ==
    /\ PendingOn(e)' = PendingOn(e) \cup {Len(log) + 1}
    /\ \A i \in PendingOn(e) : log'[i] = log[i] /\ i < Len(log) + 1
    /\ log'[Len(log) + 1] = Change(t, e)
LessPending(t, e) ==
    /\ PendingOn(e) = PendingOn(e)' \cup {taken + 1}
    /\ \A i \in PendingOn(e)' : log'[i] = log[i] /\ i > taken + 1
    /\ log[taken + 1] = Change(t, e)

(* A message that is no change of e leaves its pending changes.            *)
LEMMA OtherSent ==
    ASSUME BaseInv, NEW e \in Edge, NEW m \in Message, Queue!Send(m), rpc' = rpc,
           ~ (IsChange(m) /\ m.edge = e)
    PROVE  SamePending(e)
PROOF
<1>1. /\ Len(log') = Len(log) + 1 /\ log'[Len(log) + 1] = m /\ taken' = taken
      /\ \A i \in 1..Len(log) : log'[i] = log[i]
      /\ Len(log) \in Nat /\ taken \in Nat
  BY Sends, LogTypes DEF BaseInv, TypeOK
<1>2. Handled' = Handled /\ Handled \in Nat
  BY <1>1 DEF Handled
<1>3. ASSUME NEW i \in PendingOn(e)
      PROVE  i \in PendingOn(e)' /\ log'[i] = log[i]
  <2>1. i \in Pending /\ i \in 1..Len(log)
    BY <1>1, <1>2, <1>3 DEF PendingOn, Pending
  <2>2. i \in Pending'
    BY <1>1, <1>2, <2>1 DEF Pending
  <2> QED  BY <1>1, <1>3, <2>1, <2>2 DEF PendingOn, On
<1>4. ASSUME NEW i \in PendingOn(e)'
      PROVE  i \in PendingOn(e)
  <2>1. i \in Pending' /\ IsChange(log'[i]) /\ log'[i].edge = e
    BY <1>4 DEF PendingOn, On, IsChange
  <2>2. i \in 1..Len(log) \/ i = Len(log) + 1
    BY <1>1, <1>2, <2>1 DEF Pending
  <2>3. i \in 1..Len(log) /\ log'[i] = log[i]
    BY <1>1, <2>1, <2>2
  <2>4. i \in Pending
    BY <1>1, <1>2, <2>1, <2>3 DEF Pending
  <2> QED  BY <2>1, <2>3, <2>4 DEF PendingOn, On
<1> QED  BY <1>3, <1>4 DEF SamePending

(* A change of e that is sent goes behind the pending ones.                *)
LEMMA ChangeSent ==
    ASSUME BaseInv, NEW e \in Edge, NEW t \in {"add", "del"}, Queue!Send(Change(t, e)), rpc' = rpc
    PROVE  MorePending(t, e)
PROOF
<1>1. Change(t, e) \in Message /\ IsChange(Change(t, e)) /\ Change(t, e).edge = e
  BY DEF Message, IsChange, Change
<1>2. /\ Len(log') = Len(log) + 1 /\ log'[Len(log) + 1] = Change(t, e) /\ taken' = taken
      /\ \A i \in 1..Len(log) : log'[i] = log[i]
      /\ Len(log) \in Nat /\ taken \in 0..Len(log)
  BY <1>1, Sends, LogTypes DEF BaseInv, TypeOK
<1>3. Handled' = Handled /\ Handled \in Nat /\ Handled <= Len(log)
  BY <1>2 DEF Handled, BaseInv, ControlInv
<1>4. ASSUME NEW i \in PendingOn(e)
      PROVE  i \in PendingOn(e)' /\ log'[i] = log[i] /\ i < Len(log) + 1
  <2>1. i \in Pending /\ i \in 1..Len(log)
    BY <1>2, <1>3, <1>4 DEF PendingOn, Pending
  <2>2. i \in Pending'
    BY <1>2, <1>3, <2>1 DEF Pending
  <2> QED  BY <1>2, <1>4, <2>1, <2>2 DEF PendingOn, On
<1>5. ASSUME NEW i \in PendingOn(e)', i # Len(log) + 1
      PROVE  i \in PendingOn(e)
  <2>1. i \in Pending' /\ IsChange(log'[i]) /\ log'[i].edge = e
    BY <1>5 DEF PendingOn, On, IsChange
  <2>2. i \in 1..Len(log) /\ log'[i] = log[i]
    BY <1>2, <1>3, <1>5, <2>1 DEF Pending
  <2>3. i \in Pending
    BY <1>2, <1>3, <2>1, <2>2 DEF Pending
  <2> QED  BY <2>1, <2>2, <2>3 DEF PendingOn, On
<1>6. Len(log) + 1 \in PendingOn(e)'
  <2>1. Len(log) + 1 \in Pending'
    BY <1>2, <1>3 DEF Pending
  <2> QED  BY <1>1, <1>2, <2>1 DEF PendingOn, On, IsChange
<1> QED  BY <1>2, <1>4, <1>5, <1>6 DEF MorePending

(* Steps that send no change and make none leave the pending changes.      *)
LEMMA OtherStep ==
    ASSUME BaseInv, Advance, NEW e \in Edge,
           \A i \in (Len(log) + 1)..Len(log') : ~ IsChange(log'[i]),
           Handled' = Handled \/ Handled + 1 \notin PendingOn(e)
    PROVE  SamePending(e)
PROOF
<1>1. /\ Len(log) \in Nat /\ Len(log') \in Nat /\ Len(log') >= Len(log) /\ Handled \in Nat
      /\ \A i \in 1..Len(log) : log'[i] = log[i]
      /\ Handled' = Handled \/ Handled' = Handled + 1
  <2>1. Len(log) \in Nat /\ taken \in Nat
    BY LogTypes DEF BaseInv, TypeOK
  <2> QED  BY <2>1, LenProperties DEF Advance, Handled
<1>2. ASSUME NEW i \in PendingOn(e)
      PROVE  i \in PendingOn(e)' /\ log'[i] = log[i]
  <2>1. i \in Pending /\ i \in 1..Len(log)
    BY <1>1, <1>2 DEF PendingOn, Pending
  <2>2. i \in Pending'
    BY <1>1, <1>2, <2>1 DEF Pending
  <2> QED  BY <1>1, <1>2, <2>1, <2>2 DEF PendingOn, On
<1>3. ASSUME NEW i \in PendingOn(e)'
      PROVE  i \in PendingOn(e)
  <2>1. i \in Pending' /\ IsChange(log'[i]) /\ log'[i].edge = e
    BY <1>3 DEF PendingOn, On, IsChange
  <2>2. i \in 1..Len(log) \/ i \in (Len(log) + 1)..Len(log')
    BY <1>1, <2>1 DEF Pending
  <2>3. i \in 1..Len(log) /\ log'[i] = log[i]
    BY <1>1, <2>1, <2>2
  <2>4. i \in Pending
    BY <1>1, <2>1, <2>3 DEF Pending
  <2> QED  BY <2>1, <2>3, <2>4 DEF PendingOn, On
<1> QED  BY <1>2, <1>3 DEF SamePending

(* The render thread makes the first pending change of e.                  *)
LEMMA ChangeMade ==
    ASSUME BaseInv, NEW e \in Edge, NEW t \in {"add", "del"}, rpc = "handle",
           current = Change(t, e), rpc' = "done", UNCHANGED <<log, taken>>
    PROVE  LessPending(t, e)
PROOF
<1>1. /\ taken + 1 \in PendingOn(e) /\ log[taken + 1] = Change(t, e) /\ Handled = taken
      /\ \A j \in PendingOn(e) : j >= taken + 1
      /\ Len(log) \in Nat /\ taken \in Nat
  BY HandledFirst, LogTypes DEF BaseInv, TypeOK
<1>2. Handled' = taken + 1
  BY DEF Handled
<1>3. ASSUME NEW i \in PendingOn(e)'
      PROVE  i \in PendingOn(e) /\ i > taken + 1
  <2>1. i \in Pending' /\ IsChange(log[i]) /\ log[i].edge = e
    BY <1>3 DEF PendingOn, On, IsChange
  <2>2. i > taken + 1 /\ i \in Pending
    BY <1>1, <1>2, <2>1 DEF Pending
  <2> QED  BY <2>1, <2>2 DEF PendingOn, On
<1>4. ASSUME NEW i \in PendingOn(e), i # taken + 1
      PROVE  i \in PendingOn(e)'
  <2>1. i \in Pending
    BY <1>4 DEF PendingOn
  <2>2. i \in Pending'
    BY <1>1, <1>2, <1>4, <2>1 DEF Pending
  <2> QED  BY <1>4, <2>2 DEF PendingOn, On
<1> QED  BY <1>1, <1>3, <1>4 DEF LessPending

(* The places in the log of the changes that wait.                         *)
LEMMA PendingTypes ==
    ASSUME BaseInv, NEW e \in Edge
    PROVE  \A i \in PendingOn(e) : i \in Nat /\ i <= Len(log) /\ log[i].type \in {"add", "del"}
PROOF
<1>1. Len(log) \in Nat /\ Handled \in Nat
  <2>1. Len(log) \in Nat /\ taken \in Nat
    BY LogTypes DEF BaseInv, TypeOK
  <2> QED  BY <2>1 DEF Handled
<1> QED  BY <1>1 DEF PendingOn, Pending, On, IsChange

(* Changes that wait on an edge alternate while none comes or goes.        *)
LEMMA SameAlternates ==
    ASSUME NEW e \in Edge, Alternate(e), SamePending(e),
           Linked(e)' <=> Linked(e), e \in edges' <=> e \in edges, Acting(e) => Acting(e)'
    PROVE  Alternate(e)'
PROOF
<1>1. PendingOn(e)' = PendingOn(e) /\ \A i \in PendingOn(e) : log'[i] = log[i]
  BY DEF SamePending
<1>2. FirstFits(e)'
  BY <1>1 DEF Alternate, FirstFits
<1>3. NextFits(e)'
  BY <1>1 DEF Alternate, NextFits
<1>4. LastFits(e)'
  BY <1>1 DEF Alternate, LastFits
<1>5. NoneFits(e)'
  BY <1>1 DEF Alternate, NoneFits
<1> QED  BY <1>2, <1>3, <1>4, <1>5 DEF Alternate

(* They alternate when the client sends another.                           *)
LEMMA SentAlternates ==
    ASSUME BaseInv, NEW e \in Edge, NEW t \in {"add", "del"}, Alternate(e), MorePending(t, e),
           Linked(e)' <=> Linked(e), t = "del" <=> e \in edges, t = "add" <=> e \in edges',
           ~ Acting(e)
    PROVE  Alternate(e)'
PROOF
<1> DEFINE n == Len(log) + 1
<1>1. /\ PendingOn(e)' = PendingOn(e) \cup {n}
      /\ \A i \in PendingOn(e) : log'[i] = log[i] /\ i < n
      /\ log'[n].type = t
  BY DEF MorePending, Change
<1>2. n \in Nat /\ \A i \in PendingOn(e) : i \in Nat /\ log[i].type \in {"add", "del"}
  BY PendingTypes, LogTypes DEF BaseInv
<1> HIDE DEF n
<1>3. FirstFits(e)'
  <2> SUFFICES ASSUME NEW i \in PendingOn(e)', \A j \in PendingOn(e)' : j >= i
               PROVE  log'[i].type = "del" <=> Linked(e)'
    BY DEF FirstFits
  <2>1. CASE i \in PendingOn(e)
    BY <1>1, <2>1 DEF Alternate, FirstFits
  <2>2. CASE i = n
    <3>1. PendingOn(e) = {}
      BY <1>1, <1>2, <2>2
    <3> QED  BY <1>1, <2>2, <3>1 DEF Alternate, NoneFits
  <2> QED  BY <1>1, <2>1, <2>2
<1>4. NextFits(e)'
  <2> SUFFICES ASSUME NEW i \in PendingOn(e)', NEW k \in PendingOn(e)', i < k,
                      \A j \in PendingOn(e)' : j <= i \/ j >= k
               PROVE  log'[i].type = "del" <=> log'[k].type = "add"
    BY DEF NextFits
  <2>1. i \in PendingOn(e)
    BY <1>1, <1>2
  <2>2. CASE k \in PendingOn(e)
    BY <1>1, <2>1, <2>2 DEF Alternate, NextFits
  <2>3. CASE k = n
    <3>1. \A j \in PendingOn(e) : j <= i
      BY <1>1, <1>2, <2>3
    <3>2. log[i].type = "add" <=> e \in edges
      BY <2>1, <3>1 DEF Alternate, LastFits
    <3> QED  BY <1>1, <1>2, <2>1, <2>3, <3>2
  <2> QED  BY <1>1, <2>2, <2>3
<1>5. LastFits(e)'
  <2> SUFFICES ASSUME NEW i \in PendingOn(e)', \A j \in PendingOn(e)' : j <= i
               PROVE  log'[i].type = "add" <=> e \in edges'
    BY DEF LastFits
  <2>1. i = n
    BY <1>1, <1>2
  <2> QED  BY <1>1, <2>1
<1>6. NoneFits(e)'
  BY <1>1 DEF NoneFits
<1> QED  BY <1>3, <1>4, <1>5, <1>6 DEF Alternate

(* They alternate when the first of them is made.                          *)
LEMMA MadeAlternates ==
    ASSUME BaseInv, NEW e \in Edge, NEW t \in {"add", "del"}, Alternate(e), LessPending(t, e),
           Linked(e)' <=> t = "add", e \in edges' <=> e \in edges
    PROVE  Alternate(e)'
PROOF
<1> DEFINE m == taken + 1
<1>1. /\ PendingOn(e) = PendingOn(e)' \cup {m}
      /\ \A i \in PendingOn(e)' : log'[i] = log[i] /\ i > m
      /\ log[m].type = t
  BY DEF LessPending, Change
<1>2. m \in Nat /\ \A i \in PendingOn(e) : i \in Nat /\ log[i].type \in {"add", "del"}
  BY PendingTypes DEF BaseInv, TypeOK
<1> HIDE DEF m
<1>3. FirstFits(e)'
  <2> SUFFICES ASSUME NEW i \in PendingOn(e)', \A j \in PendingOn(e)' : j >= i
               PROVE  log'[i].type = "del" <=> Linked(e)'
    BY DEF FirstFits
  <2>1. log[m].type = "del" <=> log[i].type = "add"
    <3>1. m \in PendingOn(e) /\ i \in PendingOn(e) /\ m < i
      BY <1>1, <1>2
    <3>2. \A j \in PendingOn(e) : j <= m \/ j >= i
      BY <1>1, <1>2
    <3> QED  BY <3>1, <3>2 DEF Alternate, NextFits
  <2>2. log'[i] = log[i] /\ log[i].type \in {"add", "del"}
    BY <1>1, <1>2
  <2> QED  BY <1>1, <2>1, <2>2
<1>4. NextFits(e)'
  <2> SUFFICES ASSUME NEW i \in PendingOn(e)', NEW k \in PendingOn(e)', i < k,
                      \A j \in PendingOn(e)' : j <= i \/ j >= k
               PROVE  log'[i].type = "del" <=> log'[k].type = "add"
    BY DEF NextFits
  <2>1. i \in PendingOn(e) /\ k \in PendingOn(e)
    BY <1>1
  <2>2. \A j \in PendingOn(e) : j <= i \/ j >= k
    BY <1>1, <1>2
  <2> QED  BY <1>1, <2>1, <2>2 DEF Alternate, NextFits
<1>5. LastFits(e)'
  <2> SUFFICES ASSUME NEW i \in PendingOn(e)', \A j \in PendingOn(e)' : j <= i
               PROVE  log'[i].type = "add" <=> e \in edges'
    BY DEF LastFits
  <2>1. i \in PendingOn(e) /\ \A j \in PendingOn(e) : j <= i
    BY <1>1, <1>2
  <2> QED  BY <1>1, <2>1 DEF Alternate, LastFits
<1>6. NoneFits(e)'
  <2> SUFFICES ASSUME PendingOn(e)' = {}
               PROVE  Linked(e)' <=> e \in edges'
    BY DEF NoneFits
  <2>1. m \in PendingOn(e) /\ \A j \in PendingOn(e) : j <= m
    BY <1>1, <1>2
  <2> QED  BY <1>1, <2>1 DEF Alternate, LastFits
<1> QED  BY <1>3, <1>4, <1>5, <1>6 DEF Alternate

(* A change pushed by the client, by message or directly.                  *)
LEMMA PushKeeps ==
    ASSUME BaseInv, BaseInv', RemoveInv, NEW t \in {"add", "del"}, NEW d \in Edge, act = <<>>,
           PushMsg(t, d), NEW e \in Edge, Followed(e)' => Followed(e)
    PROVE  /\ Followed(e)' => Alternate(e)'
           /\ ActConsistent(e)'
PROOF
<1>1. /\ UNCHANGED <<children, rpc>>
      /\ t = "del" <=> d \in edges
      /\ edges' = IF t = "add" THEN edges \cup {d} ELSE edges \ {d}
  BY DEF PushMsg, tree
<1>2. (Linked(e)' <=> Linked(e)) /\ ~ Acting(e)
  BY <1>1 DEF Linked, Acting
<1>3. CASE Attached(d[1])
  <2>1. Queue!Send(Change(t, d)) /\ act' = act
    BY <1>3 DEF PushMsg, Send
  <2>2. Change(t, d) \in Message /\ Change(t, d).edge = d
    BY DEF Message, Change
  <2>3. ActConsistent(e)'
    BY <2>1 DEF ActConsistent, Acting
  <2>4. ASSUME Followed(e)', e = d
        PROVE  Alternate(e)'
    <3>1. MorePending(t, e) /\ Alternate(e)
      BY <1>1, <2>1, <2>4, ChangeSent DEF RemoveInv
    <3>2. t = "add" <=> e \in edges'
      BY <1>1, <2>4
    <3> QED  BY <1>1, <1>2, <2>4, <3>1, <3>2, SentAlternates
  <2>5. ASSUME Followed(e)', e # d
        PROVE  Alternate(e)'
    <3>1. SamePending(e) /\ Alternate(e)
      BY <1>1, <2>1, <2>2, <2>5, OtherSent DEF RemoveInv
    <3>2. e \in edges' <=> e \in edges
      BY <1>1, <2>5
    <3> QED  BY <1>2, <3>1, <3>2, SameAlternates
  <2> QED  BY <2>3, <2>4, <2>5
<1>4. CASE ~ Attached(d[1])
  <2>1. act' = <<t, d>> /\ act' # <<>> /\ UNCHANGED <<log, taken>>
    BY <1>4 DEF PushMsg, queue
  <2>2. SamePending(e)
    BY <1>1, <2>1 DEF SamePending, PendingOn, Pending, Handled, On
  <2>3. CASE e # d
    <3>1. ~ Acting(e)' /\ (e \in edges' <=> e \in edges)
      BY <1>1, <2>1, <2>3 DEF Acting
    <3> QED  BY <1>2, <2>2, <3>1, SameAlternates DEF RemoveInv, ActConsistent
  <2>4. CASE e = d
    <3>1. e[1] \notin built \cup {Context} \/ mpc = "setup"
      BY <1>4, <2>4 DEF PushMsg, Attached, BaseInv, ControlInv
    <3>2. PendingOn(e) = {} /\ PendingOn(e)' = {}
      BY <2>2, <3>1, NothingPending DEF SamePending
    <3>3. Followed(e)
      BY <3>1 DEF Followed, BaseInv, ControlInv
    <3>4. Linked(e) <=> e \in edges
      BY <1>2, <3>2, <3>3 DEF RemoveInv, Alternate, NoneFits
    <3>5. Acting(e)' /\ act'[1] = t /\ (t = "add" <=> e \in edges')
      BY <1>1, <2>1, <2>4 DEF Acting
    <3>6. ActConsistent(e)'
      BY <1>1, <1>2, <2>4, <3>4, <3>5 DEF ActConsistent
    <3>7. Alternate(e)'
      BY <3>2, <3>5 DEF Alternate, FirstFits, NextFits, LastFits, NoneFits
    <3> QED  BY <3>6, <3>7
  <2> QED  BY <2>3, <2>4
<1> QED  BY <1>3, <1>4

\* A call of ilG_renderer_addRenderer() or ilG_renderer_delRenderer()
Pushes == act = <<>> /\ \E t \in {"add", "del"}, e \in Edge : PushMsg(t, e)

(* The other steps send no change and make none.                           *)
LEMMA OtherNext ==
    ASSUME BaseInv, [Next]_vars, ~ ChangesTree, ~ Pushes
    PROVE  /\ UNCHANGED <<children, edges, act>>
           /\ \A i \in (Len(log) + 1)..Len(log') : ~ IsChange(log'[i])
           /\ rpc' # "end" => Handled' = Handled \/ ~ IsChange(log[Handled + 1])
PROOF
<1>1. Len(log) \in Nat /\ taken \in 0..Len(log)
  BY LogTypes DEF BaseInv, TypeOK
<1>2. ASSUME NEW m \in Message, Queue!Send(m), m.type \notin {"add", "del"}, rpc' = rpc,
             UNCHANGED <<children, edges, act>>
      PROVE  /\ UNCHANGED <<children, edges, act>>
             /\ \A i \in (Len(log) + 1)..Len(log') : ~ IsChange(log'[i])
             /\ Handled' = Handled
  BY <1>1, <1>2, Sends DEF BaseInv, IsChange, Handled
<1>3. ASSUME log' = log, UNCHANGED <<children, edges, act>>,
             Handled' = Handled \/ rpc' = "end"
      PROVE  /\ UNCHANGED <<children, edges, act>>
             /\ \A i \in (Len(log) + 1)..Len(log') : ~ IsChange(log'[i])
             /\ rpc' # "end" => Handled' = Handled
  BY <1>1, <1>3
<1>4. ASSUME NEW r \in Renderer, RequestBuild(r)
      PROVE  /\ UNCHANGED <<children, edges, act>>
             /\ \A i \in (Len(log) + 1)..Len(log') : ~ IsChange(log'[i])
             /\ Handled' = Handled
  BY <1>2, <1>4 DEF RequestBuild, Send, Message, Upload, tree
<1>5. ASSUME NEW s \in Size, RequestResize(s)
      PROVE  /\ UNCHANGED <<children, edges, act>>
             /\ \A i \in (Len(log) + 1)..Len(log') : ~ IsChange(log'[i])
             /\ Handled' = Handled
  BY <1>2, <1>5 DEF RequestResize, Send, Message, Resize, tree, client
<1>6. CASE PollResize
  <2>1. Head(sdl) \in Size
    BY <1>6, HeadTailProperties DEF PollResize, BaseInv, TypeOK
  <2> QED  BY <1>2, <1>6, <2>1 DEF PollResize, Message, Resize, tree, client
<1>7. CASE FreeContext
  BY <1>2, <1>7 DEF FreeContext, Message, Stop, tree, client
<1>8. CASE \/ StartContext \/ JoinAndFree \/ UNCHANGED vars \/ \E s \in Size : UserResize(s)
  <2>1. log' = log /\ taken' = taken /\ UNCHANGED <<children, edges, act>>
    BY <1>8 DEF StartContext, JoinAndFree, UserResize, vars, tree, client, queue
  <2>2. rpc' = rpc \/ (rpc = "none" /\ rpc' = "build")
    BY <1>8 DEF StartContext, JoinAndFree, UserResize, vars, BaseInv, ControlInv
  <2> QED  BY <1>3, <2>1, <2>2 DEF Handled
<1>9. CASE BuildTree
  <2>1. UNCHANGED <<children, edges, act>>
    BY <1>9 DEF BuildTree, others, client
  <2>2. CASE turn <= Len(children[Context])
    <3>1. children[Context] \in Seq(Renderer) /\ turn \in 1..Len(children[Context])
      BY <2>2 DEF BaseInv, TypeOK, ControlInv, Parent
    <3>2. children[Context][turn] \in Renderer
      BY <3>1, ElementOfSeq
    <3>3. Build(children[Context][turn]) /\ taken' = taken /\ rpc' = rpc
      BY <1>9, <2>2 DEF BuildTree
    <3> QED  BY <2>1, <3>2, <3>3, Builds DEF BaseInv, IsChange, Handled
  <2>3. CASE ~ (turn <= Len(children[Context]))
    <3>1. log' = log /\ taken' = taken /\ rpc = "build" /\ rpc' = "first"
      BY <1>9, <2>3 DEF BuildTree, queue
    <3> QED  BY <1>3, <2>1, <3>1 DEF Handled
  <2> QED  BY <2>2, <2>3
<1>10. CASE Handle
  <2>1. /\ rpc = "handle" /\ rpc' = "done" /\ taken' = taken /\ current = log[taken + 1]
        /\ current \in Message /\ (HandleUpload \/ HandleResize)
    BY <1>10, LogTypes
       DEF Handle, HandleUpload, HandleResize, HandleMessage, queue, ChangesTree, BaseInv,
           ControlInv, TypeOK
  <2>2. ~ IsChange(current) /\ UNCHANGED <<children, edges, act>>
    BY <1>10, <2>1 DEF Handle, HandleUpload, HandleResize, IsChange, tree, others, client
  <2>3. Handled = taken
    BY <2>1 DEF Handled
  <2>4. \A i \in (Len(log) + 1)..Len(log') : ~ IsChange(log'[i])
    <3>1. CASE HandleUpload
      <4>1. current.node \in Renderer
        BY <2>1, <3>1, MessageTypes DEF HandleUpload
      <4> QED  BY <3>1, <4>1, Builds DEF HandleUpload, BaseInv, IsChange
    <3>2. CASE HandleResize
      BY <1>1, <3>2 DEF HandleResize, queue
    <3> QED  BY <2>1, <3>1, <3>2
  <2> QED  BY <2>1, <2>2, <2>3, <2>4
<1>11. CASE DoneConsume
  <2>1. /\ log' = log /\ taken' = taken + 1 /\ rpc = "done" /\ rpc' = "drain"
        /\ UNCHANGED <<children, edges, act>>
    BY <1>11 DEF DoneConsume, Queue!Finish, tree, others, client
  <2> QED  BY <1>3, <2>1 DEF Handled
<1>12. CASE FirstResize \/ BeginFrame \/ Drain \/ HandleStop \/ CheckWindow \/ Draw
  <2>1. log' = log /\ UNCHANGED <<children, edges, act>>
    BY <1>12
       DEF FirstResize, BeginFrame, Drain, HandleStop, CheckWindow, Draw, Queue!Take, Queue!Close,
           tree, others, client, queue
  <2>2. rpc' = "end" \/ (taken' = taken /\ rpc # "done" /\ rpc' # "done")
    BY <1>12 DEF FirstResize, BeginFrame, Drain, HandleStop, CheckWindow, Draw, Queue!Take, queue
  <2> QED  BY <1>3, <2>1, <2>2 DEF Handled
<1> QED
  BY <1>4, <1>5, <1>6, <1>7, <1>8, <1>9, <1>10, <1>11, <1>12
     DEF Next, Main, Render, Terminated, ChangesTree, Pushes

(* Each action keeps what removals rely on.                                *)
LEMMA RemoveNext ==
    ASSUME BaseInv, BaseInv', RemoveInv, [Next]_vars
    PROVE  RemoveInv'
PROOF
<1>1. \A p \in Parent : IsInjective(children'[p])
  <2>1. CASE UNCHANGED children
    BY <2>1 DEF RemoveInv
  <2>2. CASE ChangesTree
    BY <2>2, TreeEffect
  <2> QED  BY <2>1, <2>2, TreeChanges
<1> SUFFICES ASSUME NEW e \in Edge
             PROVE  (Followed(e)' => Alternate(e)') /\ ActConsistent(e)'
  BY <1>1 DEF RemoveInv
<1>2. Followed(e)' => Followed(e)
  BY FollowedBefore
<1>3. (Followed(e) => Alternate(e)) /\ ActConsistent(e)
  BY DEF RemoveInv
<1>4. CASE Pushes
  BY <1>2, <1>4, PushKeeps DEF Pushes
<1>5. CASE ChangesTree
  <2>1. PICK t \in {"add", "del"}, d \in Edge :
              /\ \/ Handle /\ HandleMessage /\ rpc = "handle" /\ current = Change(t, d)
                 \/ DirectChange /\ act = <<t, d>> /\ act # <<>>
              /\ t = "del" <=> Linked(d)
              /\ \A f \in Edge : Linked(f)' <=> IF f = d THEN t = "add" ELSE Linked(f)
    BY <1>5, TreeEffect
  <2>2. CASE DirectChange /\ act = <<t, d>> /\ act # <<>>
    <3>1. act' = <<>> /\ UNCHANGED <<edges, log, taken, rpc>>
      BY <2>2 DEF DirectChange, client, queue
    <3>2. SamePending(e)
      BY <3>1 DEF SamePending, PendingOn, Pending, Handled, On
    <3>3. ActConsistent(e)'
      BY <3>1 DEF ActConsistent, Acting
    <3>4. CASE e # d
      BY <1>2, <1>3, <2>1, <2>2, <3>1, <3>2, <3>3, <3>4, SameAlternates DEF Acting
    <3>5. CASE e = d
      <4>1. Acting(e)
        BY <2>2, <3>5 DEF Acting
      <4>2. PendingOn(e)' = {}
        BY <3>2, <4>1, NothingPending DEF SamePending
      <4>3. Linked(e)' <=> e \in edges'
        BY <1>3, <2>1, <2>2, <3>1, <3>5, <4>1 DEF ActConsistent
      <4> QED  BY <3>3, <4>2, <4>3
               DEF Alternate, FirstFits, NextFits, LastFits, NoneFits
    <3> QED  BY <3>4, <3>5
  <2>3. CASE Handle /\ HandleMessage /\ rpc = "handle" /\ current = Change(t, d)
    <3>1. rpc' = "done" /\ UNCHANGED <<act, edges, log, taken>>
      BY <2>3 DEF Handle, HandleMessage, others, client, queue
    <3>2. /\ taken + 1 \in PendingOn(d) /\ log[taken + 1] = Change(t, d) /\ Handled = taken
      BY <2>3, HandledFirst
    <3>3. CASE e # d
      <4>1. SamePending(e)
        <5>1. Advance
          BY <3>1, AdvanceNext
        <5>2. Handled + 1 \notin PendingOn(e)
          BY <3>2, <3>3 DEF PendingOn, On, Change
        <5>3. Len(log) \in Nat
          BY LogTypes DEF BaseInv
        <5> QED  BY <3>1, <5>1, <5>2, <5>3, OtherStep
      <4>2. ActConsistent(e)'
        BY <1>3, <2>1, <3>1, <3>3 DEF ActConsistent, Acting
      <4> QED  BY <1>2, <1>3, <2>1, <3>1, <3>3, <4>1, <4>2, SameAlternates DEF Acting
    <3>4. CASE e = d
      <4>1. LessPending(t, e)
        BY <2>3, <3>1, <3>4, ChangeMade
      <4>2. ~ Acting(e)
        BY <3>2, <3>4, NothingPending
      <4>3. ActConsistent(e)'
        BY <3>1, <4>2 DEF ActConsistent, Acting
      <4> QED  BY <1>2, <1>3, <2>1, <3>1, <3>4, <4>1, <4>3, MadeAlternates
    <3> QED  BY <3>3, <3>4
  <2> QED  BY <2>1, <2>2, <2>3
<1>6. CASE ~ Pushes /\ ~ ChangesTree
  <2>1. /\ UNCHANGED <<children, edges, act>>
        /\ \A i \in (Len(log) + 1)..Len(log') : ~ IsChange(log'[i])
        /\ rpc' # "end" => Handled' = Handled \/ ~ IsChange(log[Handled + 1])
    BY <1>6, OtherNext
  <2>2. (Linked(e)' <=> Linked(e)) /\ (Acting(e)' <=> Acting(e)) /\ ActConsistent(e)'
    BY <1>3, <2>1 DEF Linked, Acting, ActConsistent
  <2>3. ASSUME Followed(e)'
        PROVE  SamePending(e)
    <3>1. CASE rpc' # "end"
      <4>1. Advance
        BY <3>1, AdvanceNext
      <4>2. Handled' = Handled \/ Handled + 1 \notin PendingOn(e)
        BY <2>1, <3>1 DEF PendingOn, On
      <4> QED  BY <2>1, <4>1, <4>2, OtherStep
    <3>2. CASE rpc' = "end"
      <4>1. e[1] \notin built' \cup {Context}
        BY <2>3, <3>2 DEF Followed
      <4>2. built \subseteq built'
        BY BuiltGrows, Builds DEF BaseInv, BuildsOne
      <4>3. PendingOn(e) = {}
        BY <4>1, <4>2, NothingPending
      <4>4. PendingOn(e)' = {}
        <5>1. Len(log') \in Nat /\ DOMAIN log' = 1..Len(log') /\ Handled' \in Nat
          <6>1. log' \in Seq(Message) /\ taken' \in Nat
            BY LenProperties DEF BaseInv, TypeOK
          <6> QED  BY <6>1, <3>2, LenProperties DEF Handled
        <5>2. \A i \in PendingOn(e)' : i \in DOMAIN log' /\ IsChange(log'[i]) /\ log'[i].edge = e
          BY <5>1, <3>2 DEF PendingOn, Pending, Handled, On, IsChange
        <5> QED  BY <4>1, <5>2 DEF BaseInv, SentInv, IsChange
      <4> QED  BY <4>3, <4>4 DEF SamePending
    <3> QED  BY <3>1, <3>2
  <2> QED  BY <1>2, <1>3, <2>1, <2>2, <2>3, SameAlternates
<1> QED  BY <1>4, <1>5, <1>6

(* No change waits at first.                                               *)
LEMMA RemoveInit == Init => RemoveInv
PROOF
<1> SUFFICES ASSUME Init
             PROVE  RemoveInv
  OBVIOUS
<1>1. /\ children = [p \in Parent |-> <<>>] /\ edges = {} /\ act = <<>> /\ rpc = "none"
      /\ log = <<>> /\ taken = 0
  BY DEF Init, Queue!Init
<1>2. DOMAIN <<>> = {} /\ Len(<<>>) = 0
  BY EmptySeq
<1>3. \A p \in Parent : IsInjective(children[p])
  BY <1>1, <1>2 DEF IsInjective
<1>4. ASSUME NEW e \in Edge
      PROVE  Alternate(e) /\ ActConsistent(e)
  <2>1. PendingOn(e) = {}
    BY <1>1, <1>2 DEF PendingOn, Pending, Handled
  <2>2. ~ Linked(e) /\ e \notin edges
    BY <1>1, <1>2, EdgeTypes DEF Linked
  <2> QED  BY <1>1, <2>1, <2>2
           DEF Alternate, FirstFits, NextFits, LastFits, NoneFits, ActConsistent, Acting
<1> QED  BY <1>3, <1>4 DEF RemoveInv

(* A removal finds the renderer that it is to remove, whichever thread     *)
(* carries it out, so that its loop to length-1 never meets an empty array.*)
THEOREM RemovalsFind == Spec => []RemovalFindsRenderer
PROOF
<1>1. BaseInv /\ BaseInv' /\ RemoveInv /\ [Next]_vars => RemoveInv'
  BY RemoveNext
<1>2. BaseInv /\ RemoveInv => RemovalFindsRenderer
  <2> SUFFICES ASSUME BaseInv, RemoveInv
               PROVE  RemovalFindsRenderer
    OBVIOUS
  <2>1. ASSUME rpc = "handle", current.type = "del"
        PROVE  current.edge[2] \in ToSet(children[current.edge[1]])
    <3>1. current \in Message
      BY <2>1, LogTypes DEF BaseInv, ControlInv, TypeOK
    <3>2. current.edge \in Edge /\ current = Change("del", current.edge)
      BY <2>1, <3>1, MessageTypes
    <3>3. Alternate(current.edge)
      BY <2>1, <3>2 DEF RemoveInv, Followed
    <3>4. Linked(current.edge)
      BY <2>1, <3>2, <3>3, HandledFirst DEF Alternate, FirstFits, Change
    <3> QED  BY <3>4 DEF Linked, ToSet
  <2>2. ASSUME act # <<>>, act[1] = "del"
        PROVE  act[2][2] \in ToSet(children[act[2][1]])
    <3>1. act[2] \in Edge
      BY <2>2 DEF BaseInv, TypeOK
    <3>2. Linked(act[2])
      BY <2>2, <3>1 DEF RemoveInv, ActConsistent, Acting
    <3> QED  BY <3>2 DEF Linked, ToSet
  <2> QED  BY <2>1, <2>2 DEF RemovalFindsRenderer
<1> QED  BY <1>1, <1>2, BaseInvariant, RemoveInit, PTL DEF Spec

\* Nothing is under way between the client and the tree
Settled == rpc # "end" /\ act = <<>> /\ taken = Len(log)

(* Whenever nothing is under way, the tree is the one that the calls of    *)
(* the client have made, half of them by message and half directly: what   *)
(* TreeFollowsCalls says of the end, without fairness.                     *)
THEOREM SettledTreeIsTheClients == Spec => [](Settled => TreeIs(edges))
PROOF
<1>1. BaseInv /\ BaseInv' /\ RemoveInv /\ [Next]_vars => RemoveInv'
  BY RemoveNext
<1>2. BaseInv /\ RemoveInv => (Settled => TreeIs(edges))
  <2> SUFFICES ASSUME BaseInv, RemoveInv, Settled, NEW p \in Parent
               PROVE  /\ ToSet(children[p]) = {e[2] : e \in {d \in edges : d[1] = p}}
                      /\ IsInjective(children[p])
    BY DEF TreeIs
  <2>1. \A e \in Edge : Linked(e) <=> e \in edges
    <3> SUFFICES ASSUME NEW e \in Edge
                 PROVE  Linked(e) <=> e \in edges
      OBVIOUS
    <3>1. PendingOn(e) = {}
      <4>1. Len(log) \in Nat /\ Handled = Len(log)
        BY LogTypes DEF BaseInv, ControlInv, Settled, Handled
      <4> QED  BY <4>1 DEF PendingOn, Pending
    <3>2. Alternate(e) /\ ~ Acting(e)
      BY DEF RemoveInv, Followed, Settled, Acting
    <3> QED  BY <3>1, <3>2 DEF Alternate, NoneFits
  <2>2. ASSUME NEW i \in DOMAIN children[p]
        PROVE  children[p][i] \in {e[2] : e \in {d \in edges : d[1] = p}}
    <3>1. <<p, children[p][i]>> \in Edge
      BY DEF BaseInv, TreeInv
    <3>2. Linked(<<p, children[p][i]>>)
      BY DEF Linked
    <3> QED  BY <2>1, <3>1, <3>2
  <2>3. ASSUME NEW e \in edges, e[1] = p
        PROVE  e[2] \in ToSet(children[p])
    <3>1. Linked(e)
      BY <2>1 DEF BaseInv, TypeOK
    <3> QED  BY <2>3, <3>1 DEF Linked, ToSet
  <2> QED  BY <2>2, <2>3 DEF ToSet, RemoveInv
<1> QED  BY <1>1, <1>2, BaseInvariant, RemoveInit, PTL DEF Spec
===============================================================================
