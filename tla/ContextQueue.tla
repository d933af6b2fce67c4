----------------------------- MODULE ContextQueue -----------------------------
(***************************************************************************)
(* The lock-free queue between the main thread and the render thread of a  *)
(* graphics context (src/graphics/context.c), one action per access to the *)
(* memory the threads share.  The queue is a linked list whose first nodes *)
(* are dead: first is the oldest node not yet freed, head the last message *)
(* the consumer is through with (a dummy at the start), tail the newest.   *)
(* Memory is a set of addresses that calloc hands out and free takes back, *)
(* so that an address is used again for another message.  In this module   *)
(* the main thread is the only producer; see TwoProducers for the other.   *)
(***************************************************************************)
EXTENDS Naturals, Sequences, FiniteSets

CONSTANTS Node,         \* the addresses calloc can return
          NULL,         \* the null pointer
          Msg,          \* the messages other than ILG_STOP
          Stop,         \* ILG_STOP
          NoMsg,        \* "no message in hand"
          MainSends,    \* bound: messages the main thread sends before Stop
          RenderSends   \* bound: messages the render thread sends itself

ASSUME QueueAssumption ==
    /\ NULL \notin Node
    /\ Node # {}
    /\ Stop \notin Msg
    /\ NoMsg \notin Msg \cup {Stop}
    /\ MainSends \in Nat
    /\ RenderSends \in Nat

Thread == {"main", "render"}
Payload == Msg \cup {Stop}
Pointer == Node \cup {NULL}

VARIABLES
    next, payload, live,        \* memory: the fields of a node, and what is allocated
    first, head, tail,          \* struct ilG_context_queue
    ppc, msg, tmp, left,        \* produce() in each thread: step, locals, sends left
    mpc,                        \* ilG_context_free() in the main thread
    rpc, cur, nxt, exiting,     \* the message loop of render_thread()
    log, addr, freed, taken     \* history: messages published, their nodes (the
                                \* dummy first), nodes unlinked and heads passed

memory   == <<next, payload, live>>
producer == <<ppc, msg, tmp, left>>
consumer == <<rpc, cur, nxt, exiting>>
history  == <<log, addr, freed, taken>>
vars == <<memory, first, head, tail, producer, mpc, consumer, history>>

Init ==
    \E dummy \in Node :
        /\ live = {dummy}
        /\ first = dummy /\ head = dummy /\ tail = dummy
        /\ addr = <<dummy>>
        /\ next = [n \in Node |-> NULL]
        /\ payload = [n \in Node |-> Stop]
        /\ ppc = [t \in Thread |-> "idle"]
        /\ msg = [t \in Thread |-> NULL]
        /\ tmp = [t \in Thread |-> NULL]
        /\ left = [t \in Thread |-> IF t = "main" THEN MainSends ELSE RenderSends]
        /\ mpc = "run" /\ rpc = "start"
        /\ cur = NULL /\ nxt = NULL /\ exiting = FALSE
        /\ log = <<>> /\ freed = 0 /\ taken = 0
-----------------------------------------------------------------------------
(***************************************************************************)
(* produce(queue, msg), run by thread t                                    *)
(***************************************************************************)

\* msg = calloc(); msg->type = ...; msg->next = NULL: nobody else sees it yet
Allocate(t, m) ==
    /\ ppc[t] = "idle"
    /\ \E n \in Node \ live :
        /\ live' = live \cup {n}
        /\ next' = [next EXCEPT ![n] = NULL]
        /\ payload' = [payload EXCEPT ![n] = m]
        /\ msg' = [msg EXCEPT ![t] = n]
    /\ ppc' = [ppc EXCEPT ![t] = "link"]
    /\ UNCHANGED <<first, head, tail, tmp, consumer, history>>

\* queue->tail->next = msg
Link(t) ==
    /\ ppc[t] = "link"
    /\ next' = [next EXCEPT ![tail] = msg[t]]
    /\ ppc' = [ppc EXCEPT ![t] = "publish"]
    /\ UNCHANGED <<payload, live, first, head, tail, msg, tmp, left, mpc, consumer, history>>

\* queue->tail = msg: the consumer can see the message from here on
Publish(t) ==
    /\ ppc[t] = "publish"
    /\ tail' = msg[t]
    /\ log' = Append(log, payload[msg[t]])
    /\ addr' = Append(addr, msg[t])
    /\ ppc' = [ppc EXCEPT ![t] = "check"]
    /\ UNCHANGED <<memory, first, head, msg, tmp, left, mpc, consumer, freed, taken>>

\* Mutant of Check: reclaims as far as tail, past the consumer
CheckAgainstTail(t) ==
    /\ ppc[t] = "check"
    /\ ppc' = [ppc EXCEPT ![t] = IF first = tail THEN "idle" ELSE "unlink"]
    /\ UNCHANGED <<memory, first, head, tail, msg, tmp, left, mpc, consumer, history>>

\* while (queue->first != queue->head)
Check(t) ==
    /\ ppc[t] = "check"
    /\ ppc' = [ppc EXCEPT ![t] = IF first = head THEN "idle" ELSE "unlink"]
    /\ UNCHANGED <<memory, first, head, tail, msg, tmp, left, mpc, consumer, history>>

\* tmp = queue->first; queue->first = queue->first->next
Unlink(t) ==
    /\ ppc[t] = "unlink"
    /\ first # NULL
    /\ tmp' = [tmp EXCEPT ![t] = first]
    /\ first' = next[first]
    /\ freed' = freed + 1
    /\ ppc' = [ppc EXCEPT ![t] = "free"]
    /\ UNCHANGED <<memory, head, tail, msg, left, mpc, consumer, log, addr, taken>>

\* free(tmp)
Free(t) ==
    /\ ppc[t] = "free"
    /\ live' = live \ {tmp[t]}
    /\ ppc' = [ppc EXCEPT ![t] = "check"]
    /\ UNCHANGED <<next, payload, first, head, tail, msg, tmp, left, mpc, consumer, history>>

Produce(t) == Link(t) \/ Publish(t) \/ Check(t) \/ Unlink(t) \/ Free(t)
-----------------------------------------------------------------------------
(***************************************************************************)
(* The main thread: ilG_context_upload, _resize and _message, then         *)
(* ilG_context_free, which sends ILG_STOP, joins the thread and frees the  *)
(* queue.                                                                  *)
(***************************************************************************)

\* ilG_context_upload(), ilG_context_resize(), ilG_context_message()
MainSend ==
    /\ mpc = "run"
    /\ left["main"] > 0
    /\ \E m \in Msg : Allocate("main", m)
    /\ left' = [left EXCEPT !["main"] = @ - 1]
    /\ UNCHANGED mpc

\* ilG_context_free(): send ILG_STOP
MainStop ==
    /\ mpc = "run"
    /\ Allocate("main", Stop)
    /\ mpc' = "join"
    /\ UNCHANGED left

\* Mutant of Join: the thread is not joined
JoinAtOnce ==
    /\ mpc = "join"
    /\ ppc["main"] = "idle"
    /\ mpc' = "free"
    /\ UNCHANGED <<memory, first, head, tail, producer, consumer, history>>

\* pthread_join(self->thread, NULL)
Join ==
    /\ mpc = "join"
    /\ ppc["main"] = "idle"
    /\ rpc = "end"
    /\ mpc' = "free"
    /\ UNCHANGED <<memory, first, head, tail, producer, consumer, history>>

\* Mutant of QueueFree: leaves the last node
QueueFreeToTail ==
    /\ mpc = "free"
    /\ IF first = tail
       THEN mpc' = "end" /\ UNCHANGED <<first, live, freed>>
       ELSE /\ first' = next[first]
            /\ live' = live \ {first}
            /\ freed' = freed + 1
            /\ UNCHANGED mpc
    /\ UNCHANGED <<next, payload, head, tail, producer, consumer, log, addr, taken>>

\* queue_free(): the main thread is alone, so one action per turn of the loop
QueueFree ==
    /\ mpc = "free"
    /\ IF first = NULL
       THEN /\ mpc' = "end"
            /\ UNCHANGED <<first, live, freed>>
       ELSE /\ first' = next[first]
            /\ live' = live \ {first}
            /\ freed' = freed + 1
            /\ UNCHANGED mpc
    /\ UNCHANGED <<next, payload, head, tail, producer, consumer, log, addr, taken>>

Main == MainSend \/ MainStop \/ Produce("main") \/ Join \/ QueueFree
-----------------------------------------------------------------------------
(***************************************************************************)
(* The render thread: the message loop of render_thread() over consume()   *)
(* and done_consume().                                                     *)
(***************************************************************************)

rendering == <<memory, first, tail, producer, mpc, log, addr, freed>>

\* while (self->valid): the first context_resize() may have failed
Start ==
    /\ rpc = "start"
    /\ ppc["render"] = "idle"
    /\ \/ rpc' = "consume" /\ UNCHANGED exiting
       \/ rpc' = "done" /\ exiting' = TRUE
    /\ UNCHANGED <<rendering, head, cur, nxt, taken>>

\* consume(): if (queue->head != queue->tail); otherwise the frame goes on
Consume ==
    /\ rpc = "consume"
    /\ head # tail
    /\ rpc' = "next"
    /\ UNCHANGED <<rendering, head, cur, nxt, exiting, taken>>

\* consume(): return queue->head->next
ConsumeNext ==
    /\ rpc = "next"
    /\ cur' = next[head]
    /\ rpc' = IF next[head] = NULL THEN "consume" ELSE "handle"
    /\ UNCHANGED <<rendering, head, nxt, exiting, taken>>

\* Mutant of Handle: ILG_STOP is just another message
HandleOnward ==
    /\ rpc = "handle"
    /\ ppc["render"] = "idle"
    /\ rpc' = "done"
    /\ UNCHANGED <<rendering, head, cur, nxt, exiting, taken>>

\* switch (msg->type): run the handler, or goto stop
Handle ==
    /\ rpc = "handle"
    /\ ppc["render"] = "idle"
    /\ exiting' = (payload[cur] = Stop)
    /\ rpc' = "done"
    /\ UNCHANGED <<rendering, head, cur, nxt, taken>>

\* done_consume(): if (queue->head != queue->tail)
DoneConsume ==
    /\ rpc = "done"
    /\ IF head # tail
       THEN rpc' = "load" /\ UNCHANGED cur
       ELSE rpc' = (IF exiting THEN "end" ELSE "consume") /\ cur' = NULL
    /\ UNCHANGED <<rendering, head, nxt, exiting, taken>>

\* Mutant of DoneLoad: moves on to the newest message
DoneLoadTail ==
    /\ rpc = "load"
    /\ nxt' = tail
    /\ rpc' = "store"
    /\ UNCHANGED <<rendering, head, cur, exiting, taken>>

\* done_consume(): load queue->head->next
DoneLoad ==
    /\ rpc = "load"
    /\ nxt' = next[head]
    /\ rpc' = "store"
    /\ UNCHANGED <<rendering, head, cur, exiting, taken>>

\* done_consume(): store it in queue->head
DoneStore ==
    /\ rpc = "store"
    /\ head' = nxt
    /\ taken' = taken + 1
    /\ cur' = NULL
    /\ rpc' = IF exiting THEN "end" ELSE "consume"
    /\ UNCHANGED <<rendering, nxt, exiting>>

Render == \/ Start \/ Consume \/ ConsumeNext \/ Handle
          \/ DoneConsume \/ DoneLoad \/ DoneStore

\* ilG_context_free() has returned
Terminated == mpc = "end" /\ UNCHANGED vars

Next == Main \/ Render \/ Terminated

Spec == Init /\ [][Next]_vars

\* Both threads are scheduled; nothing obliges the program to send or to stop.
FairSpec == /\ Spec
            /\ WF_vars(Produce("main") \/ Join \/ QueueFree)
            /\ WF_vars(Render)
-----------------------------------------------------------------------------
TypeOK ==
    /\ next \in [Node -> Pointer] /\ payload \in [Node -> Payload] /\ live \subseteq Node
    /\ first \in Pointer /\ head \in Node /\ tail \in Node
    /\ ppc \in [Thread -> {"idle", "link", "publish", "check", "unlink", "free"}]
    /\ msg \in [Thread -> Pointer] /\ tmp \in [Thread -> Pointer]
    /\ left \in [Thread -> Nat]
    /\ mpc \in {"run", "join", "free", "end"}
    /\ rpc \in {"start", "consume", "next", "handle", "done", "load", "store", "end"}
    /\ cur \in Pointer /\ nxt \in Pointer /\ exiting \in BOOLEAN
    /\ log \in Seq(Payload) /\ addr \in Seq(Node)
    /\ freed \in Nat /\ taken \in Nat

(***************************************************************************)
(* The inductive invariant.  The nodes not yet unlinked are addr[i] for i  *)
(* in Linked, in this order in the list.                                   *)
(***************************************************************************)
Linked == (freed + 1) .. Len(addr)

\* The three pointers of the queue, by their places in the list
PointersInv ==
    /\ Len(addr) = Len(log) + 1
    /\ taken <= Len(log) /\ freed <= Len(addr)
    /\ mpc \in {"run", "join"} => freed <= taken
    /\ first = IF freed < Len(addr) THEN addr[freed + 1] ELSE NULL
    /\ head = addr[taken + 1]
    /\ tail = addr[Len(addr)]

\* The list itself: distinct allocated nodes, linked up, with their messages
ListInv ==
    /\ \A i \in Linked : addr[i] \in live
    /\ \A i, j \in Linked : addr[i] = addr[j] => i = j
    /\ \A i \in Linked : i < Len(addr) => next[addr[i]] = addr[i + 1]
    /\ \A i \in Linked : i > 1 => payload[addr[i]] = log[i - 1]
    /\ freed < Len(addr) =>
           next[tail] = IF ppc["main"] = "publish" THEN msg["main"] ELSE NULL

\* The producer: the node it is about to link, the one it is about to free
OutsideList(n) == n \in live /\ \A i \in Linked : addr[i] # n

ProducerInv ==
    /\ ppc["render"] = "idle"
    /\ mpc \in {"free", "end"} => ppc["main"] = "idle"
    /\ ppc["main"] \in {"link", "publish"} =>
           OutsideList(msg["main"]) /\ next[msg["main"]] = NULL
    /\ ppc["main"] = "unlink" => freed < taken
    /\ ppc["main"] = "free" => OutsideList(tmp["main"])

\* Nothing else is allocated
LiveInv ==
    \A n \in live : \/ \E i \in Linked : n = addr[i]
                    \/ ppc["main"] \in {"link", "publish"} /\ n = msg["main"]
                    \/ ppc["main"] = "free" /\ n = tmp["main"]

\* The consumer: its message is the one after head, and Stop is on its way out
ConsumerInv ==
    /\ rpc \in {"next", "handle", "load", "store"} => taken < Len(log)
    /\ rpc = "handle" => cur # NULL
    /\ rpc \in {"start", "consume", "next", "end"} => cur = NULL
    /\ cur # NULL => taken < Len(log) /\ cur = addr[taken + 2]
    /\ rpc = "store" => nxt = addr[taken + 2]
    /\ rpc \in {"start", "consume", "next", "handle"} => ~exiting
    /\ rpc = "start" => taken = 0
    /\ rpc \in {"done", "load", "store"} =>
           IF cur = NULL THEN exiting /\ taken = 0
                         ELSE exiting = (payload[cur] = Stop)
    /\ mpc \in {"free", "end"} => rpc = "end"
    /\ mpc = "end" => freed = Len(addr)

QueueInv ==
    TypeOK /\ PointersInv /\ ListInv /\ ProducerInv /\ LiveInv /\ ConsumerInv

(***************************************************************************)
(* No thread reads or writes a node that free() has taken back, and none   *)
(* is freed twice: whatever the next step of either thread dereferences or *)
(* frees is allocated.  The nodes the producer reclaims are behind head,   *)
(* which only the consumer moves, so this is a matter of the order of the  *)
(* stores in produce() and done_consume().                                 *)
(***************************************************************************)
NoUseAfterFree ==
    /\ \A t \in Thread : /\ ppc[t] = "link" => tail \in live
                         /\ ppc[t] \in {"link", "publish"} => msg[t] \in live
                         /\ ppc[t] = "unlink" => first \in live
                         /\ ppc[t] = "free" => tmp[t] \in live
    /\ mpc = "free" => first = NULL \/ first \in live
    /\ rpc \in {"next", "load"} => head \in live
    /\ rpc = "handle" => cur \in live

\* Everything calloc() returned has gone back to free() when
\* ilG_context_free() returns, whatever was left in the queue.
NoLeak == mpc = "end" => live = {}

(***************************************************************************)
(* ilG_context_free() returns once it has sent ILG_STOP: the render thread *)
(* always comes to the message, or has left before it.                     *)
(***************************************************************************)
FreeReturns == mpc = "join" ~> mpc = "end"

\* The queue implements the channel: a message is in it from the moment tail
\* points to its node, and is in hand while the loop of render_thread holds it.
ChannelOf == INSTANCE Channel WITH
                Msg     <- Payload,
                current <- IF cur = NULL THEN NoMsg ELSE payload[cur],
                open    <- rpc # "end"

\* Order, exactly-once delivery and progress of the queue, see Channel.
ImplementsChannel == ChannelOf!FairSpec
=============================================================================
