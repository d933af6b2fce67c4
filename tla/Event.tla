-------------------------------- MODULE Event --------------------------------
(***************************************************************************)
(* The event system (common/event.c): handlers with their callbacks, fired *)
(* at once or by the event loop.  Callbacks are client code: while one     *)
(* runs it may create, destroy and fire handlers, and register and         *)
(* unregister callbacks, on the very handler that is being dispatched      *)
(* too.  All calls come from the thread of ilE_loop.                       *)
(***************************************************************************)
EXTENDS Callbacks, FiniteSets

CONSTANTS Handler,      \* the addresses of handlers; free() gives them back
          Event,        \* the addresses of struct ilE_event
          NULL,         \* the null pointer
          Function,     \* the callback functions
          Priority,     \* the priorities, those of ilE_behaviour among them
          Kind,         \* what handlers are created
          MaxCalls,     \* bound: calls into the event system by its clients
          MaxDepth,     \* bound: dispatches that run inside each other
          Careful       \* what clients may do, see Unregister and Destroy

ASSUME EventAssumption ==
    /\ NULL \notin Handler \cup Event /\ Handler \cap Event = {} /\ Wild \notin Function
    /\ Priority \subseteq Int
    /\ Kind \subseteq {"normal", "timer", "read", "readasarg"}
    /\ MaxCalls \in Nat /\ MaxDepth \in Nat /\ Careful \in BOOLEAN

\* enum ilE_behaviour
ILE_BEFORE   == -100
ILE_DONTCARE == 0
ILE_AFTER    == 100

Callback == [function : Function \cup {Wild}, priority : Int, handle : Nat]

VARIABLES
    kind,           \* handler -> its type, "free" when it is not allocated
    callbacks,      \* handler -> its callbacks, in the order they are called
    cur_id,         \* handler -> the next handle
    persistent,     \* persistent_handlers, timers and watchers
    active,         \* libevent's queue: events of fireasync, handlers that are ready
    target,         \* event -> its handler, NULL when it is not allocated
    pending,        \* pending_events, NULL in a free slot
    stack,          \* the dispatches under way, the innermost one first
    registered,     \* history: the callbacks as the clients think of them
    calls           \* calls left to the clients

handlers == <<kind, callbacks, cur_id, registered>>
loop     == <<active, target, pending>>
vars == <<handlers, persistent, loop, stack, calls>>

\* ilE_handler_fire_forced(handler): next index, whether callback next-1 is
\* running, the event to free afterwards; and for the properties the handles
\* registered when it began (less the unregistered), those called, and
\* whether a callback was registered meanwhile.
Frame == [handler : Handler, event : Event \cup {NULL}, next : Nat \ {0}, calling : BOOLEAN,
          due : SUBSET Nat, called : Seq(Nat), grown : BOOLEAN]

Handles(s) == {s[i].handle : i \in DOMAIN s}

Dispatch(h, e) == [handler |-> h, event |-> e, next |-> 1, calling |-> FALSE,
                   due |-> Handles(callbacks[h]), called |-> <<>>, grown |-> FALSE]

Init ==
    /\ kind = [h \in Handler |-> "free"]
    /\ callbacks = [h \in Handler |-> <<>>] /\ registered = callbacks
    /\ cur_id = [h \in Handler |-> 0]
    /\ persistent = <<>>
    /\ active = <<>> /\ target = [e \in Event |-> NULL] /\ pending = <<>>
    /\ stack = <<>> /\ calls = MaxCalls
-----------------------------------------------------------------------------
(***************************************************************************)
(* Calls from client code: between dispatches or from a running callback   *)
(***************************************************************************)
Client == /\ calls > 0 /\ calls' = calls - 1
          /\ stack # <<>> => Head(stack).calling

\* ilE_handler_new(), ilE_handler_timer(), ilE_handler_watch()
New(h, k) ==
    /\ Client
    /\ kind[h] = "free"
    /\ kind' = [kind EXCEPT ![h] = k]
    /\ callbacks' = [callbacks EXCEPT ![h] = <<>>]
    /\ registered' = [registered EXCEPT ![h] = <<>>]
    /\ cur_id' = [cur_id EXCEPT ![h] = 0]
    /\ persistent' = IF k = "normal" THEN persistent ELSE Append(persistent, h)
    /\ UNCHANGED <<loop, stack>>

\* ilE_register_real(): the new callback goes behind those of its priority
Register(h, f, p) ==
    /\ Client
    /\ kind[h] # "free"
    /\ LET c == [function |-> f, priority |-> p, handle |-> cur_id[h]]
       IN  /\ callbacks' = [callbacks EXCEPT ![h] = ILInsert(@, c)]
           /\ registered' = [registered EXCEPT ![h] = ILInsert(@, c)]
    /\ cur_id' = [cur_id EXCEPT ![h] = @ + 1]
    /\ stack' = [k \in DOMAIN stack |->
                    IF stack[k].handler = h THEN [stack[k] EXCEPT !.grown = TRUE] ELSE stack[k]]
    /\ UNCHANGED <<kind, persistent, loop>>

\* What the callbacks would be without one of them
Without(s, handle) == RemoveFirstMatch(s, LAMBDA c : c.handle = handle)

\* ilE_unregister() of the i-th callback; a careful client only ever removes
\* the one that is called last
Unregister(h, i) ==
    /\ Client
    /\ kind[h] # "free"
    /\ Careful => i = Len(callbacks[h])
    /\ LET gone == callbacks[h][i].handle
       IN  /\ \E s \in ILRemove(callbacks[h], i) : callbacks' = [callbacks EXCEPT ![h] = s]
           /\ registered' = [registered EXCEPT ![h] = Without(@, gone)]
           /\ stack' = [k \in DOMAIN stack |->
                           IF stack[k].handler = h THEN [stack[k] EXCEPT !.due = @ \ {gone}]
                           ELSE stack[k]]
    /\ UNCHANGED <<kind, cur_id, persistent, loop>>

\* The removal loop of ilE_handler_destroy()
Forget(h) ==
    LET i == SelectInSeq(persistent, LAMBDA g : g = h)
    IN  IF i = 0 THEN persistent
        ELSE Front([persistent EXCEPT ![i] = Last(persistent)])

\* ilE_handler_destroy(): callbacks should be gone, the code warns if not.  A
\* careful client also waits for its asynchronous events and dispatches.
Destroy(h) ==
    /\ Client
    /\ kind[h] # "free"
    /\ IF Careful
       THEN /\ \A k \in DOMAIN stack : stack[k].handler # h
            /\ \A e \in Event : target[e] # h
       ELSE callbacks[h] = <<>>
    /\ kind' = [kind EXCEPT ![h] = "free"]
    /\ persistent' = Forget(h)
    /\ active' = RemoveFirst(active, h)
    /\ UNCHANGED <<callbacks, cur_id, registered, target, pending, stack>>

\* ilE_handler_fire(): the dispatch runs inside the caller
Fire(h) ==
    /\ Client
    /\ kind[h] = "normal"
    /\ Len(stack) < MaxDepth
    /\ stack' = <<Dispatch(h, NULL)>> \o stack
    /\ UNCHANGED <<handlers, persistent, loop>>

\* Mutant of FireAsync: the event is not made active
FireAsyncInactive(h, e) ==
    /\ Client
    /\ kind[h] = "normal"
    /\ target[e] = NULL
    /\ target' = [target EXCEPT ![e] = h]
    /\ pending' = Append(pending, e)
    /\ UNCHANGED <<handlers, persistent, active, stack>>

\* ilE_handler_fireasync(): into libevent's queue and the first free slot
FireAsync(h, e) ==
    /\ Client
    /\ kind[h] = "normal"
    /\ target[e] = NULL
    /\ target' = [target EXCEPT ![e] = h]
    /\ active' = Append(active, e)
    /\ LET slot == SelectInSeq(pending, LAMBDA x : x = NULL)
       IN  pending' = IF slot = 0 THEN Append(pending, e) ELSE [pending EXCEPT ![slot] = e]
    /\ UNCHANGED <<handlers, persistent, stack>>
-----------------------------------------------------------------------------
(***************************************************************************)
(* The event loop                                                          *)
(***************************************************************************)

\* libevent finds a timer expired or a descriptor readable
Ready(h) ==
    /\ stack = <<>>
    /\ kind[h] \in {"timer", "read", "readasarg"}
    /\ h \notin ToSet(active)
    /\ active' = Append(active, h)
    /\ UNCHANGED <<handlers, persistent, target, pending, stack, calls>>

\* Mutant of RunEvent: the slot is not cleared
RunEventKeepingSlot ==
    /\ stack = <<>>
    /\ active # <<>> /\ Head(active) \in Event
    /\ stack' = <<Dispatch(target[Head(active)], Head(active))>>
    /\ active' = Tail(active)
    /\ UNCHANGED <<handlers, persistent, target, pending, calls>>

\* normal_dispatch(): clear the slot, fire, then free the event
RunEvent ==
    /\ stack = <<>>
    /\ active # <<>> /\ Head(active) \in Event
    /\ pending' = [i \in DOMAIN pending |->
                      IF pending[i] = Head(active) THEN NULL ELSE pending[i]]
    /\ stack' = <<Dispatch(target[Head(active)], Head(active))>>
    /\ active' = Tail(active)
    /\ UNCHANGED <<handlers, persistent, target, calls>>

\* timer_dispatch() and file_dispatch(), which fires for ILE_READASARG only
RunReady ==
    /\ stack = <<>>
    /\ active # <<>> /\ Head(active) \in Handler
    /\ active' = Tail(active)
    /\ stack' = IF kind[Head(active)] = "read" THEN <<>>
                ELSE <<Dispatch(Head(active), NULL)>>
    /\ UNCHANGED <<handlers, persistent, target, pending, calls>>

(***************************************************************************)
(* ilE_handler_fire_forced(): for (i = 0; i < self->callbacks.length; i++) *)
(* over the array as it is when the index gets there                       *)
(***************************************************************************)
Call ==
    /\ stack # <<>>
    /\ LET f == Head(stack)
           s == callbacks[f.handler]
       IN  /\ ~f.calling
           /\ f.next <= Len(s)
           /\ s[f.next].function # Wild     \* beyond it the program is undefined
           /\ stack' = <<[f EXCEPT !.next = @ + 1, !.calling = TRUE,
                                   !.called = Append(@, s[f.next].handle)]>> \o Tail(stack)
    /\ UNCHANGED <<handlers, persistent, loop, calls>>

\* The callback returns
Return ==
    /\ stack # <<>>
    /\ Head(stack).calling
    /\ stack' = [stack EXCEPT ![1].calling = FALSE]
    /\ UNCHANGED <<handlers, persistent, loop, calls>>

Ended(f) == ~f.calling /\ f.next > Len(callbacks[f.handler])

\* Mutant of EndDispatch: the index is kept in the handler, not on the stack
EndDispatchSharedIndex ==
    /\ stack # <<>>
    /\ Ended(Head(stack))
    /\ stack' = [k \in DOMAIN Tail(stack) |->
                    IF stack[k + 1].handler = Head(stack).handler
                    THEN [stack[k + 1] EXCEPT !.next = Head(stack).next] ELSE stack[k + 1]]
    /\ target' = [e \in Event |-> IF e = Head(stack).event THEN NULL ELSE target[e]]
    /\ UNCHANGED <<handlers, persistent, active, pending, calls>>

\* The loop is through; normal_dispatch() frees its event
EndDispatch ==
    /\ stack # <<>>
    /\ Ended(Head(stack))
    /\ stack' = Tail(stack)
    /\ target' = [e \in Event |-> IF e = Head(stack).event THEN NULL ELSE target[e]]
    /\ UNCHANGED <<handlers, persistent, active, pending, calls>>

\* Nothing to do but to wait, or to return from ilE_loop()
Idle == stack = <<>> /\ active = <<>> /\ UNCHANGED vars

Loop == RunEvent \/ RunReady \/ Call \/ Return \/ EndDispatch

Next == \/ \E h \in Handler :
              \/ \E k \in Kind : New(h, k)
              \/ \E f \in Function, p \in Priority : Register(h, f, p)
              \/ \E i \in DOMAIN callbacks[h] : Unregister(h, i)
              \/ Destroy(h) \/ Fire(h) \/ Ready(h)
              \/ \E e \in Event : FireAsync(h, e)
        \/ Loop \/ Idle

Spec == Init /\ [][Next]_vars

\* The loop runs and callbacks return.
FairSpec == Spec /\ WF_vars(Loop)
-----------------------------------------------------------------------------
TypeOK ==
    /\ kind \in [Handler -> Kind \cup {"free"}]
    /\ callbacks \in [Handler -> Seq(Callback)] /\ registered \in [Handler -> Seq(Callback)]
    /\ cur_id \in [Handler -> Nat]
    /\ persistent \in Seq(Handler)
    /\ active \in Seq(Event \cup Handler)
    /\ target \in [Event -> Handler \cup {NULL}] /\ pending \in Seq(Event \cup {NULL})
    /\ stack \in Seq(Frame) /\ calls \in 0..MaxCalls

(***************************************************************************)
(* However callbacks are registered and removed, those of a lower priority *)
(* stand before those of a higher one; and an ILE_AFTER callback stands    *)
(* behind every one that was registered before it, as event.h:43 has it    *)
(* (unless a client makes up a priority greater than ILE_AFTER).           *)
(***************************************************************************)
CallbackOrder ==
    \A h \in Handler : \A i, j \in DOMAIN callbacks[h] :
        LET b == callbacks[h][i]
            c == callbacks[h][j]
        IN  /\ i < j => b.priority <= c.priority
            /\ c.priority = ILE_AFTER /\ b.priority <= ILE_AFTER /\ b.handle < c.handle => i < j

\* "Must be called before previously registered handlers" (event.h:42)
BeforeGoesFirst ==
    \A h \in Handler : \A i, j \in DOMAIN callbacks[h] :
        /\ callbacks[h][i].priority = ILE_BEFORE
        /\ callbacks[h][j].handle < callbacks[h][i].handle
        => i < j

(***************************************************************************)
(* A dispatch calls every callback that was there when it began and has    *)
(* not been unregistered since, whatever the callbacks do: nested fires of *)
(* the same handler, new registrations before or behind the running index, *)
(* removals.  Unless a callback was registered meanwhile (which shifts the *)
(* array under the index), none is called twice.                           *)
(***************************************************************************)
DispatchIsComplete ==
    \A k \in DOMAIN stack :
        LET f == stack[k]
        IN  Ended(f) => /\ f.due \subseteq ToSet(f.called)
                        /\ ~f.grown => IsInjective(f.called)

(***************************************************************************)
(* pending_events holds exactly the events that libevent has still to run, *)
(* each in one slot, while slots are freed and used again out of order     *)
(* from inside dispatches; and persistent_handlers holds exactly the       *)
(* timers and watchers that exist, each once: ilE_dumpAll() names from it  *)
(* what keeps the program from shutting down.                              *)
(***************************************************************************)
RegistriesMirrorLoop ==
    /\ \A e \in Event :
           Cardinality({i \in DOMAIN pending : pending[i] = e})
               = IF e \in ToSet(active) THEN 1 ELSE 0
    /\ ToSet(persistent) = {h \in Handler : kind[h] \notin {"free", "normal"}}
    /\ IsInjective(persistent)

(***************************************************************************)
(* Every event of ilE_handler_fireasync() is run and freed, however busy   *)
(* timers and descriptors keep the loop.                                   *)
(***************************************************************************)
AsyncRuns == \A e \in Event : target[e] # NULL ~> target[e] = NULL

\* "Deletes a callback" (event.h:94): the others stay as they were registered.
DeletesJustOne == callbacks = registered

\* "Make sure all callbacks have been cleaned up first!" (event.h:73): with
\* the callbacks gone, no later dispatch comes upon a destroyed handler.
DispatchesLiveHandler ==
    /\ stack = <<>> /\ active # <<>> /\ Head(active) \in Event =>
           kind[target[Head(active)]] # "free"
    /\ stack # <<>> /\ ~Head(stack).calling => kind[Head(stack).handler] # "free"
=============================================================================
