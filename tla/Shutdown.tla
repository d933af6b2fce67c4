------------------------------- MODULE Shutdown -------------------------------
(***************************************************************************)
(* The life of a whole program: main.c starts the modules, a demo script   *)
(* opens a window and calls helper.camera, ilE_loop runs until the window  *)
(* is closed and the chain of shutdown handlers has taken everything down, *)
(* then ilE_quit.  One thread; `todo' is what it still has to do, the      *)
(* innermost first.  The handlers are those of the program, by name:       *)
(*   shutdown, shutdownCallbacks, shutdownHandlers   (common/event.c)      *)
(*   poll_timer                          (graphics/sdl_input_backend.c)    *)
(*   close: the context's handlers, of which scripts use this one          *)
(*   tick, on_after_close                              (demos/helper.lua)  *)
(***************************************************************************)
EXTENDS Callbacks, FiniteSets

CONSTANTS MaxCloses,    \* bound: how often the user clicks the window
          MaxResizes    \* bound: how often the user resizes it

ASSUME ShutdownAssumption ==
    /\ MaxCloses \in Nat /\ MaxResizes \in Nat
    /\ Wild \notin {"poll_events", "poll_shutdown_cb", "poll_shutdown_hnd", "quit",
                    "shutdownCallbacks", "shutdownHandlers", "showRemaining", "lua_dispatch"}

ILE_DONTCARE == 0
ILE_AFTER    == 100

Timer == {"poll_timer", "tick"}
Core  == {"shutdown", "shutdownCallbacks", "shutdownHandlers"}
Handler == Timer \cup Core \cup {"close", "on_after_close"}

VARIABLES
    phase,          \* "start", "loop", "quit", "exit": where main() is
    todo,           \* what the thread still has to do
    live,           \* handlers that are allocated
    callbacks,      \* handler -> its callbacks
    cur_id,         \* handler -> the next handle
    persistent,     \* persistent_handlers: the timers of the program
    active,         \* libevent's queue: timers that are due, asynchronous events
    ids,            \* the handles kept in static variables
    scripts,        \* event.lua's callbacks: handler -> functions
    lua_handlers,   \* event.lua: the handlers scripts have created
    context,        \* "none", "live", "freed"
    sdl,            \* whether SDL is initialised
    queue,          \* SDL's events
    clicks,         \* event -> how often the user may still cause it
    crashed         \* freed memory or a wild pointer was used

handlers == <<live, callbacks, cur_id, persistent, ids>>
lua      == <<scripts, lua_handlers>>
window   == <<context, sdl, queue>>
vars == <<phase, todo, handlers, active, lua, window, clicks, crashed>>
-----------------------------------------------------------------------------
(***************************************************************************)
(* What can be on the list                                                 *)
(***************************************************************************)
New(h)             == [do |-> "new", on |-> h]
Register(h, f, p, id) == [do |-> "register", on |-> h, function |-> f, priority |-> p, id |-> id]
Unregister(h, id)  == [do |-> "unregister", on |-> h, id |-> id]
Destroy(h)         == [do |-> "destroy", on |-> h]
Fire(h, i)         == [do |-> "fire", on |-> h, next |-> i]     \* at its i-th callback
FireAsync(h)       == [do |-> "fireasync", on |-> h]
LuaNew(h)          == [do |-> "event.create", on |-> h]
LuaRegister(h, f)  == [do |-> "event.register", on |-> h, function |-> f]
LuaDispatch(h, i, n) == [do |-> "lua_dispatch", on |-> h, next |-> i, last |-> n]
LuaDestroy(h)      == [do |-> "event.destroy", on |-> h]
Context(do)        == [do |-> do, on |-> "context"]
SDL(do)            == [do |-> do, on |-> "sdl"]
DumpAll            == [do |-> "dumpAll", on |-> "stderr"]

\* Mutant of RegisterShowRemaining: without its priority
RegisterShowRemainingFirst ==
    Register("shutdownHandlers", "showRemaining", ILE_DONTCARE, "showRemaining")

RegisterShowRemaining ==
    Register("shutdownHandlers", "showRemaining", ILE_AFTER, "showRemaining")

\* ilE_init(): the second handle goes into the variable of the first,
\* shutdownHandlers_id keeps its initial 0
IleInit ==
    <<New("shutdown"), Register("shutdown", "shutdownCallbacks", ILE_AFTER, "shutdownCallbacks"),
      New("shutdownCallbacks"),
      Register("shutdownCallbacks", "shutdownHandlers", ILE_AFTER, "shutdownCallbacks"),
      New("shutdownHandlers"), RegisterShowRemaining>>

\* ilG_registerSdlInputBackend()
RegisterSdlInputBackend ==
    <<New("poll_timer"), Register("poll_timer", "poll_events", ILE_DONTCARE, "poll"),
      Register("shutdownCallbacks", "poll_shutdown_cb", ILE_DONTCARE, "none"),
      Register("shutdownHandlers", "poll_shutdown_hnd", ILE_DONTCARE, "none")>>

\* il_bootstrap() of the graphics module: sdl_setup(), event_setup()
GraphicsBootstrap ==
    <<SDL("sdl.init")>> \o RegisterSdlInputBackend
        \o <<Register("shutdown", "quit", ILE_DONTCARE, "none")>>

\* event.lua when it is loaded; helper.context() and helper.camera()
Script ==
    <<LuaRegister("shutdownHandlers", "destroy_lua_handlers"),
      Context("context.new"), LuaNew("tick"), LuaNew("on_after_close"),
      LuaRegister("tick", "ontick"), LuaRegister("close", "close"),
      LuaRegister("on_after_close", "after_close")>>

\* ilE_quit()
IleQuit ==
    <<Unregister("shutdown", "shutdownCallbacks"),
      Unregister("shutdownCallbacks", "shutdownHandlers"),
      Unregister("shutdownHandlers", "showRemaining"),
      Destroy("shutdown"), Destroy("shutdownCallbacks"), Destroy("shutdownHandlers")>>

-----------------------------------------------------------------------------
(***************************************************************************)
(* Callbacks and functions of scripts                                      *)
(***************************************************************************)

\* Mutant of CloseScript: at once instead of asynchronously
CloseScriptAtOnce == <<Fire("on_after_close", 1)>>

\* helper.lua, on a close event of the context
CloseScript == <<FireAsync("on_after_close")>>

\* Mutant of AfterClose: shuts down before it frees the context
AfterCloseShuttingDown == <<LuaDestroy("tick"), Fire("shutdown", 1), Context("context.free")>>

\* helper.lua, later
AfterClose == <<LuaDestroy("tick"), Context("context.free"), FireAsync("shutdown")>>

\* Mutant of PollShutdownHnd: the timer is left running
PollShutdownHndNot == <<>>

\* sdl_input_backend.c, on shutdownHandlers and on shutdownCallbacks
PollShutdownHnd == <<Destroy("poll_timer")>>
PollShutdownCb  == <<Unregister("poll_timer", "poll")>>

\* event.lua, on shutdownHandlers
DestroyLuaHandlers == [i \in DOMAIN lua_handlers |-> Destroy(lua_handlers[i])]

\* What the callback f of handler h, or the function f of a script, does
Body(f, h) ==
    CASE f = "poll_events"          -> <<SDL("sdl.poll")>>
      [] f = "poll_shutdown_cb"     -> PollShutdownCb
      [] f = "poll_shutdown_hnd"    -> PollShutdownHnd
      [] f = "quit"                 -> <<SDL("sdl.quit")>>
      [] f = "shutdownCallbacks"    -> <<Fire("shutdownCallbacks", 1)>>
      [] f = "shutdownHandlers"     -> <<Fire("shutdownHandlers", 1)>>
      [] f = "showRemaining"        -> <<DumpAll>>
      [] f = "lua_dispatch"         -> <<LuaDispatch(h, 1, Len(scripts[h]))>>
      [] f = "destroy_lua_handlers" -> DestroyLuaHandlers
      [] f = "ontick"               -> <<Context("context.use")>>
      [] f = "close"                -> CloseScript
      [] f = "after_close"          -> AfterClose
      [] OTHER                      -> <<>>
-----------------------------------------------------------------------------
Init ==
    /\ phase = "start" /\ todo = IleInit \o GraphicsBootstrap \o Script
    /\ live = {} /\ persistent = {} /\ active = <<>>
    /\ callbacks = [h \in Handler |-> <<>>] /\ cur_id = [h \in Handler |-> 0]
    /\ ids = [v \in {"shutdownCallbacks", "shutdownHandlers", "showRemaining", "poll", "none"} |-> 0]
    /\ scripts = [h \in Handler |-> <<>>] /\ lua_handlers = <<>>
    /\ context = "none" /\ sdl = FALSE /\ queue = <<>> /\ clicks = [resized |-> MaxResizes, close |-> MaxCloses]
    /\ crashed = FALSE

\* Whether a step uses memory that is allocated, and calls a function.  The
\* events of a window that has been destroyed find a null pointer for a context.
Valid(op) ==
    /\ op.on \in Handler /\ op.do \notin {"new", "event.create"} => op.on \in live
    /\ op.do \in {"context.use", "context.free"} => context = "live"
    /\ op.do = "sdl.poll" /\ queue # <<>> => context = "live"
    /\ op.do = "fire" /\ op.next <= Len(callbacks[op.on]) =>
          callbacks[op.on][op.next].function # Wild

\* The thread takes the first step off its list, and puts others in its place
Do(do, steps) ==
    /\ ~crashed /\ todo # <<>> /\ Head(todo).do = do
    /\ crashed' = ~Valid(Head(todo))
    /\ todo' = steps \o Tail(todo)
    /\ UNCHANGED <<phase, clicks>>
-----------------------------------------------------------------------------
(***************************************************************************)
(* Handlers                                                                *)
(***************************************************************************)

\* Mutant of Create: every handler is taken for a persistent one
CreatePersistent(h) ==
    /\ live' = live \cup {h}
    /\ persistent' = persistent \cup {h}
    /\ UNCHANGED <<callbacks, cur_id, ids, active>>

\* ilE_handler_new(), ilE_handler_timer()
Create(h) ==
    /\ live' = live \cup {h}
    /\ persistent' = persistent \cup ({h} \cap Timer)
    /\ UNCHANGED <<callbacks, cur_id, ids, active>>

\* Mutant of Add: handles start at 1
AddCountingFromOne(h, f, p, id) ==
    /\ callbacks' = [callbacks EXCEPT ![h] =
                        ILInsert(@, [function |-> f, priority |-> p, handle |-> cur_id[h] + 1])]
    /\ ids' = IF id = "none" THEN ids ELSE [ids EXCEPT ![id] = cur_id[h] + 1]
    /\ cur_id' = [cur_id EXCEPT ![h] = @ + 1]
    /\ UNCHANGED <<live, persistent, active>>

\* ilE_register_real(), the handle kept or not
Add(h, f, p, id) ==
    /\ callbacks' = [callbacks EXCEPT ![h] =
                        ILInsert(@, [function |-> f, priority |-> p, handle |-> cur_id[h]])]
    /\ ids' = IF id = "none" THEN ids ELSE [ids EXCEPT ![id] = cur_id[h]]
    /\ cur_id' = [cur_id EXCEPT ![h] = @ + 1]
    /\ UNCHANGED <<live, persistent, active>>

\* ilE_unregister()
Withdraw(h, handle) ==
    /\ LET i == SelectInSeq(callbacks[h], LAMBDA c : c.handle = handle)
       IN  \E s \in IF i = 0 THEN {callbacks[h]} ELSE ILRemove(callbacks[h], i) :
              callbacks' = [callbacks EXCEPT ![h] = s]
    /\ UNCHANGED <<live, cur_id, persistent, ids, active>>

\* ilE_handler_destroy()
Release(h) ==
    /\ live' = live \ {h}
    /\ persistent' = persistent \ {h}
    /\ active' = IF h \in Timer THEN RemoveFirst(active, h) ELSE active
    /\ UNCHANGED <<callbacks, cur_id, ids>>

DoNew == Do("new", <<>>) /\ Create(Head(todo).on) /\ UNCHANGED <<lua, window>>

DoRegister ==
    /\ Do("register", <<>>)
    /\ LET op == Head(todo) IN Add(op.on, op.function, op.priority, op.id)
    /\ UNCHANGED <<lua, window>>

DoUnregister ==
    /\ Do("unregister", <<>>)
    /\ LET op == Head(todo) IN Withdraw(op.on, ids[op.id])
    /\ UNCHANGED <<lua, window>>

DoDestroy == Do("destroy", <<>>) /\ Release(Head(todo).on) /\ UNCHANGED <<lua, window>>

\* ilE_handler_fire_forced(): the next callback, or the end of the loop
DoFire ==
    /\ todo # <<>> /\ Head(todo).do = "fire"
    /\ LET op == Head(todo)
           cbs == callbacks[op.on]
       IN  Do("fire", IF op.next > Len(cbs) THEN <<>>
                      ELSE Body(cbs[op.next].function, op.on) \o <<Fire(op.on, op.next + 1)>>)
    /\ UNCHANGED <<handlers, active, lua, window>>

\* ilE_handler_fireasync()
DoFireAsync ==
    /\ Do("fireasync", <<>>)
    /\ active' = Append(active, Head(todo).on)
    /\ UNCHANGED <<handlers, lua, window>>

\* ilE_dumpAll() changes nothing
DoDumpAll == Do("dumpAll", <<>>) /\ UNCHANGED <<handlers, active, lua, window>>
-----------------------------------------------------------------------------
(***************************************************************************)
(* event.lua                                                               *)
(***************************************************************************)

\* event.create()
LuaCreates ==
    /\ Do("event.create", <<>>)
    /\ Create(Head(todo).on)
    /\ lua_handlers' = Append(lua_handlers, Head(todo).on)
    /\ UNCHANGED <<scripts, window>>

\* event.register(): one lua_dispatch for all functions of a handler
LuaRegisters ==
    LET h == Head(todo).on
    IN  /\ Do("event.register", <<>>)
        /\ IF \A c \in ToSet(callbacks[h]) : c.function # "lua_dispatch" THEN Add(h, "lua_dispatch", ILE_DONTCARE, "none")
           ELSE UNCHANGED <<handlers, active>>
        /\ scripts' = [scripts EXCEPT ![h] = Append(@, Head(todo).function)]
        /\ UNCHANGED <<lua_handlers, window>>

\* lua_dispatch(): the next function, unless one has been removed meanwhile
LuaDispatches ==
    /\ todo # <<>> /\ Head(todo).do = "lua_dispatch"
    /\ LET op == Head(todo)
           fs == scripts[op.on]
       IN  Do("lua_dispatch",
              IF op.next > op.last THEN <<>>
              ELSE (IF op.next > Len(fs) THEN <<>> ELSE Body(fs[op.next], op.on))
                   \o <<LuaDispatch(op.on, op.next + 1, op.last)>>)
    /\ UNCHANGED <<handlers, active, lua, window>>

\* The function raises an error and is removed.  Only ontick is taken to fail:
\* without close or after_close nothing would ever shut the program down.
LuaFails ==
    /\ todo # <<>> /\ Head(todo).do = "lua_dispatch"
    /\ LET op == Head(todo)
           fs == scripts[op.on]
       IN  /\ op.next <= Len(fs) /\ fs[op.next] = "ontick"
           /\ Do("lua_dispatch", <<LuaDispatch(op.on, op.next + 1, op.last)>>)
           /\ scripts' = [scripts EXCEPT ![op.on] = RemoveAt(@, op.next)]
    /\ UNCHANGED <<handlers, active, lua_handlers, window>>

\* event.destroy(): scripts keeps its entry
LuaDestroys ==
    /\ Do("event.destroy", <<>>)
    /\ Release(Head(todo).on)
    /\ lua_handlers' = RemoveFirst(lua_handlers, Head(todo).on)
    /\ UNCHANGED <<scripts, window>>
-----------------------------------------------------------------------------
(***************************************************************************)
(* The context and SDL                                                     *)
(***************************************************************************)

\* ilG_context_new(); its window is opened by ilG_context_start()
ContextNew ==
    /\ Do("context.new", <<>>)
    /\ Create("close")
    /\ context' = "live"
    /\ UNCHANGED <<lua, sdl, queue>>

\* ctx.width, ctx:averageFrametime()
ContextUse == Do("context.use", <<>>) /\ UNCHANGED <<handlers, active, lua, window>>

\* ilG_context_free(): joins the render thread, destroys handlers and window
ContextFree ==
    /\ Do("context.free", <<>>)
    /\ Release("close")
    /\ context' = "freed"
    /\ UNCHANGED <<lua, sdl, queue>>

SDLInit == /\ Do("sdl.init", <<>>) /\ sdl' = TRUE
           /\ UNCHANGED <<handlers, active, lua, context, queue>>

SDLQuit == /\ Do("sdl.quit", <<>>) /\ sdl' = FALSE /\ queue' = <<>>
           /\ UNCHANGED <<handlers, active, lua, context>>

\* poll_events() and handle_windowevent(): until the queue is empty
PollEvents ==
    /\ Do("sdl.poll", IF queue = <<>> THEN <<>>
                      ELSE (IF Head(queue) = "close" THEN <<Fire("close", 1)>> ELSE <<>>)
                           \o <<SDL("sdl.poll")>>)
    /\ queue' = IF queue = <<>> THEN <<>> ELSE Tail(queue)
    /\ UNCHANGED <<handlers, active, lua, context, sdl>>

\* The user resizes or clicks the window, at any time
User(event) ==
    /\ context = "live" /\ sdl /\ ~crashed
    /\ queue' = Append(queue, event)
    /\ clicks[event] > 0 /\ clicks' = [clicks EXCEPT ![event] = @ - 1]
    /\ UNCHANGED <<phase, todo, handlers, active, lua, context, sdl, crashed>>
-----------------------------------------------------------------------------
(***************************************************************************)
(* main() and libevent's loop                                              *)
(***************************************************************************)
Goto(from, to, steps) ==
    /\ phase = from /\ todo = <<>> /\ ~crashed
    /\ phase' = to /\ todo' = steps
    /\ UNCHANGED <<handlers, lua, window, clicks, crashed>>

StartLoop == Goto("start", "loop", <<>>) /\ UNCHANGED active

\* The first of those that are active is run
RunActive ==
    /\ active # <<>>
    /\ Goto("loop", "loop", <<Fire(Head(active), 1)>>)
    /\ active' = Tail(active)

\* When none is, the timers that are due become active
Due(timers) ==
    /\ active = <<>> /\ timers # {}
    /\ Goto("loop", "loop", <<>>)
    /\ active' \in SetToSeqs(timers)

\* Without a timer the loop returns, and main() calls ilE_quit()
LoopReturns ==
    /\ active = <<>> /\ live \cap Timer = {}
    /\ Goto("loop", "quit", IleQuit)
    /\ UNCHANGED active

Exit == Goto("quit", "exit", <<>>) /\ UNCHANGED active

Thread ==
    \/ DoNew \/ DoRegister \/ DoUnregister \/ DoDestroy \/ DoFire \/ DoFireAsync \/ DoDumpAll
    \/ LuaCreates \/ LuaRegisters \/ LuaDispatches \/ LuaFails \/ LuaDestroys
    \/ ContextNew \/ ContextUse \/ ContextFree \/ SDLInit \/ SDLQuit \/ PollEvents
    \/ StartLoop \/ RunActive \/ LoopReturns \/ Exit
    \/ \E timers \in SUBSET (live \cap Timer) : Due(timers)

Next == Thread \/ \E event \in {"resized", "close"} : User(event)

PollTimerIsDue == \E timers \in SUBSET (live \cap Timer) : "poll_timer" \in timers /\ Due(timers)

\* The thread goes on, timers expire again and again.
Spec == Init /\ [][Next]_vars /\ WF_vars(Thread) /\ SF_vars(PollTimerIsDue)
-----------------------------------------------------------------------------
Operation == {"new", "register", "unregister", "destroy", "fire", "fireasync", "dumpAll",
              "event.create", "event.register", "event.destroy", "lua_dispatch",
              "context.new", "context.use", "context.free",
              "sdl.init", "sdl.poll", "sdl.quit"}

TypeOK ==
    /\ phase \in {"start", "loop", "quit", "exit"}
    /\ \A i \in DOMAIN todo : todo[i].do \in Operation
    /\ live \subseteq Handler /\ persistent \subseteq Timer
    /\ \A h \in Handler : \A c \in ToSet(callbacks[h]) : c.handle \in 0..(cur_id[h] - 1)
    /\ active \in Seq(Handler) /\ lua_handlers \in Seq(Handler)
    /\ context \in {"none", "live", "freed"} /\ sdl \in BOOLEAN
    /\ queue \in Seq({"resized", "close"}) /\ clicks \in [{"resized", "close"} -> Nat] /\ crashed \in BOOLEAN

(***************************************************************************)
(* From the start of the program to its end no handler, context or         *)
(* callback is used after it was freed: neither by the poll that delivers  *)
(* the close event and others behind it, nor by timers that are due when   *)
(* the window goes, nor by the handlers that are destroyed from inside the *)
(* dispatches of shutdown, nor by ilE_quit() in the end.                   *)
(***************************************************************************)
NoUseAfterFree == ~crashed

(***************************************************************************)
(* SDL is shut down only when the context, with its window and its render  *)
(* thread, is gone.                                                        *)
(***************************************************************************)
ContextGoneBeforeSDL == context = "live" => sdl

(***************************************************************************)
(* When the shutdown handlers have run, ilE_dumpAll() finds no handler     *)
(* that would keep the program from ending.                                *)
(***************************************************************************)
NothingRemains == todo # <<>> /\ Head(todo) = DumpAll => persistent = {}

(***************************************************************************)
(* ilE_quit() takes off the callbacks ilE_init() has registered, and no    *)
(* others, although it does not have their handles: with two variables for *)
(* three of them it depends on each being the first of its handler.        *)
(***************************************************************************)
QuitRemovesItsOwn ==
    phase = "quit" /\ (todo # <<>> => Head(todo).do = "destroy") =>
        \A h \in Core : {c.function : c \in ToSet(callbacks[h])}
            = CASE h = "shutdown"          -> {"quit"}
                [] h = "shutdownCallbacks" -> {"poll_shutdown_cb"}
                [] h = "shutdownHandlers"  -> {"poll_shutdown_hnd", "lua_dispatch"}

(***************************************************************************)
(* Once the window has been closed the program comes to its end.           *)
(***************************************************************************)
CloseEnds == ("close" \in ToSet(queue)) ~> (phase = "exit")

(***************************************************************************)
(* event.h:108: shutdownCallbacks is "called to destroy all callbacks      *)
(* currently registered, except for those registered to this one and the   *)
(* shutdownHandlers event".  Nothing of the kind is done for scripts.      *)
(***************************************************************************)
CallbacksGoFirst ==
    todo # <<>> /\ Head(todo) = Fire("shutdownHandlers", 1) =>
        \A h \in live \ Core : callbacks[h] = <<>>
=============================================================================
