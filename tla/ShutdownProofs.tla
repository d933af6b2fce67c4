---------------------------- MODULE ShutdownProofs ----------------------------
(***************************************************************************)
(* From the start of the program to its end: what is set up and taken down *)
(* in which order, however often the window is resized, whenever timers    *)
(* expire and whenever the window is closed, once.                         *)
(***************************************************************************)
EXTENDS Shutdown, SequenceFacts, FiniteSetTheorems

Places == Handler \cup {"context", "sdl", "stderr"}

\* Functions of C and of scripts; the static variables for handles
Functions == {"poll_events", "poll_shutdown_cb", "poll_shutdown_hnd", "quit",
              "shutdownCallbacks", "shutdownHandlers", "showRemaining", "lua_dispatch",
              "destroy_lua_handlers", "ontick", "close", "after_close"}
Variables == {"shutdownCallbacks", "shutdownHandlers", "showRemaining", "poll", "none"}

Steps == [do : Operation, on : Places]
           \cup [do : {"register"}, on : Places, function : Functions, priority : Nat, id : Variables]
           \cup [do : {"unregister"}, on : Places, id : Variables]
           \cup [do : {"fire"}, on : Places, next : Nat]
           \cup [do : {"event.register"}, on : Places, function : Functions]
           \cup [do : {"lua_dispatch"}, on : Places, next : Nat, last : Nat]

\* A step before others
Push(op, s) == <<op>> \o s

-----------------------------------------------------------------------------
(***************************************************************************)
(* What is set up or taken down, each at its time: those up to 19 by the   *)
(* steps the program starts with, 20 to 25 by the shutdown, the rest by    *)
(* ilE_quit().                                                             *)
(***************************************************************************)
Born(h) == CASE h = "shutdown" -> 1 [] h = "shutdownCallbacks" -> 3
             [] h = "shutdownHandlers" -> 5 [] h = "poll_timer" -> 8
             [] h = "close" -> 14 [] h = "tick" -> 15 [] h = "on_after_close" -> 16

Dies(h) == CASE h = "tick" -> 20 [] h = "close" -> 21 [] h = "poll_timer" -> 24
             [] h = "on_after_close" -> 25 [] h = "shutdown" -> 29
             [] h = "shutdownCallbacks" -> 30 [] h = "shutdownHandlers" -> 31

LiveAt(t) == {h \in Handler : Born(h) <= t /\ t < Dies(h)}

Cb(f, p, n) == [function |-> f, priority |-> p, handle |-> n]

\* The callbacks of a handler
CallbacksAt(h, t) ==
    CASE h = "shutdown" ->
            IF t < 2 THEN <<>>
            ELSE IF t < 12 THEN <<Cb("shutdownCallbacks", ILE_AFTER, 0)>>
            ELSE IF t < 26 THEN <<Cb("quit", ILE_DONTCARE, 1), Cb("shutdownCallbacks", ILE_AFTER, 0)>>
            ELSE <<Cb("quit", ILE_DONTCARE, 1)>>
      [] h = "shutdownCallbacks" ->
            IF t < 4 THEN <<>>
            ELSE IF t < 10 THEN <<Cb("shutdownHandlers", ILE_AFTER, 0)>>
            ELSE IF t < 27 THEN <<Cb("poll_shutdown_cb", ILE_DONTCARE, 1), Cb("shutdownHandlers", ILE_AFTER, 0)>>
            ELSE <<Cb("poll_shutdown_cb", ILE_DONTCARE, 1)>>
      [] h = "shutdownHandlers" ->
            IF t < 6 THEN <<>>
            ELSE IF t < 11 THEN <<Cb("showRemaining", ILE_AFTER, 0)>>
            ELSE IF t < 13 THEN <<Cb("poll_shutdown_hnd", ILE_DONTCARE, 1), Cb("showRemaining", ILE_AFTER, 0)>>
            ELSE IF t < 28 THEN <<Cb("poll_shutdown_hnd", ILE_DONTCARE, 1), Cb("lua_dispatch", ILE_DONTCARE, 2),
                                  Cb("showRemaining", ILE_AFTER, 0)>>
            ELSE <<Cb("poll_shutdown_hnd", ILE_DONTCARE, 1), Cb("lua_dispatch", ILE_DONTCARE, 2)>>
      [] h = "poll_timer" ->
            IF t < 9 \/ t >= 23 THEN <<>> ELSE <<Cb("poll_events", ILE_DONTCARE, 0)>>
      [] h = "tick"  -> IF t < 17 THEN <<>> ELSE <<Cb("lua_dispatch", ILE_DONTCARE, 0)>>
      [] h = "close" -> IF t < 18 THEN <<>> ELSE <<Cb("lua_dispatch", ILE_DONTCARE, 0)>>
      [] h = "on_after_close" -> IF t < 19 THEN <<>> ELSE <<Cb("lua_dispatch", ILE_DONTCARE, 0)>>

\* How many there have been
CountAt(h, t) == Len(CallbacksAt(h, IF t < 19 THEN t ELSE 19))

\* The functions of scripts; ticks is what is left of those of the frame
ScriptAt(h, t, ticks) ==
    CASE h = "shutdownHandlers" -> IF t < 13 THEN <<>> ELSE <<"destroy_lua_handlers">>
      [] h = "tick"  -> IF t < 17 THEN <<>> ELSE ticks
      [] h = "close" -> IF t < 18 THEN <<>> ELSE <<"close">>
      [] h = "on_after_close" -> IF t < 19 THEN <<>> ELSE <<"after_close">>
      [] OTHER -> <<>>

ScriptsAt(t) == {[h \in Handler |-> ScriptAt(h, t, ticks)] : ticks \in {<<>>, <<"ontick">>}}

LuaHandlersAt(t) == IF t < 15 THEN <<>> ELSE IF t = 15 THEN <<"tick">>
                    ELSE IF t < 20 THEN <<"tick", "on_after_close">> ELSE <<"on_after_close">>

ContextAt(t) == IF t < 14 THEN "none" ELSE IF t < 21 THEN "live" ELSE "freed"

\* The state of the program at time t
Data(t) ==
    /\ live = LiveAt(t) /\ persistent = live \cap Timer
    /\ callbacks = [h \in Handler |-> CallbacksAt(h, t)]
    /\ cur_id = [h \in Handler |-> CountAt(h, t)]
    /\ ids = [v \in Variables |-> 0]
    /\ scripts \in ScriptsAt(t)
    /\ lua_handlers = LuaHandlersAt(t)
    /\ context = ContextAt(t)
    /\ sdl = (7 <= t /\ t < 22)
-----------------------------------------------------------------------------
(***************************************************************************)
(* What the thread is doing                                                *)
(***************************************************************************)
Opening == IleInit \o GraphicsBootstrap \o Script

Polled  == Push(Fire("poll_timer", 2), <<>>)
Polling == Push(SDL("sdl.poll"), Polled)
PollStacks == {Push(Fire("poll_timer", 1), <<>>), Polling, Polled}

Ticked == Push(Fire("tick", 2), <<>>)
TickStacks == {Push(Fire("tick", 1), <<>>),
               Push(LuaDispatch("tick", 1, Len(scripts["tick"])), Ticked),
               Push(Context("context.use"), Push(LuaDispatch("tick", 2, 1), Ticked)),
               Push(LuaDispatch("tick", 2, 1), Ticked), Ticked}

\* The close event, before and after it is passed on
ClosedOnce == Push(Fire("close", 2), Polling)
Closed     == Push(LuaDispatch("close", 2, 1), ClosedOnce)
CloseStacks  == {Push(Fire("close", 1), Polling), Push(LuaDispatch("close", 1, 1), ClosedOnce),
                 Push(FireAsync("on_after_close"), Closed)}
ClosedStacks == {Closed, ClosedOnce}

\* on_after_close
Left      == Push(Fire("on_after_close", 2), <<>>)
Leaving   == Push(LuaDispatch("on_after_close", 2, 1), Left)
Leaving21 == Push(FireAsync("shutdown"), Leaving)
Leaving20 == Push(Context("context.free"), Leaving21)
LeaveStacks == {Push(Fire("on_after_close", 1), <<>>),
                Push(LuaDispatch("on_after_close", 1, 1), Left),
                Push(LuaDestroy("tick"), Leaving20)}

\* shutdown, shutdownCallbacks in it, and shutdownHandlers in that
Down  == Push(Fire("shutdown", 3), <<>>)
DownC == Push(Fire("shutdownCallbacks", 3), Down)
DownL == Push(LuaDispatch("shutdownHandlers", 2, 1), Push(Fire("shutdownHandlers", 3), DownC))

Down21 == {Push(Fire("shutdown", 1), <<>>), Push(SDL("sdl.quit"), Push(Fire("shutdown", 2), <<>>))}
Down22 == {Push(Fire("shutdown", 2), <<>>), Push(Fire("shutdownCallbacks", 1), Down),
           Push(Unregister("poll_timer", "poll"), Push(Fire("shutdownCallbacks", 2), Down))}
Down23 == {Push(Fire("shutdownCallbacks", 2), Down), Push(Fire("shutdownHandlers", 1), DownC),
           Push(Destroy("poll_timer"), Push(Fire("shutdownHandlers", 2), DownC))}
Down24 == {Push(Fire("shutdownHandlers", 2), DownC),
           Push(LuaDispatch("shutdownHandlers", 1, 1), Push(Fire("shutdownHandlers", 3), DownC)),
           Push(Destroy("on_after_close"), DownL)}
Down25 == {DownL, Push(Fire("shutdownHandlers", 3), DownC),
           Push(DumpAll, Push(Fire("shutdownHandlers", 4), DownC)),
           Push(Fire("shutdownHandlers", 4), DownC), DownC, Down, <<>>}

\* At most one close event is still to come or in the queue; none is
Unspent ==
    /\ clicks["close"] <= 1
    /\ \A i \in DOMAIN queue : queue[i] = "close" =>
          clicks["close"] = 0 /\ \A j \in DOMAIN queue : queue[j] = "close" => j = i

Spent == clicks["close"] = 0 /\ \A i \in DOMAIN queue : queue[i] # "close"

\* The poll timer is in the queue of libevent no more than once
PollOnce == \A i, j \in DOMAIN active : active[i] = "poll_timer" /\ active[j] = "poll_timer" => i = j

Starting(t) == /\ phase = "start" /\ t \in 0..19 /\ todo = SubSeq(Opening, t + 1, 19)
               /\ active = <<>> /\ Unspent /\ (t < 14 => queue = <<>>)

Open(t) == /\ phase = "loop" /\ t = 19 /\ Unspent
           /\ \/ todo \in {<<>>} \cup TickStacks
              \/ todo \in PollStacks /\ active \in Seq({"tick"})
           /\ active \in Seq(Timer) /\ PollOnce

Closing(t) == /\ phase = "loop" /\ t = 19 /\ Spent
              /\ todo \in CloseStacks /\ active \in Seq({"tick"})

Clicked(t) == /\ phase = "loop" /\ t = 19 /\ Spent
              /\ todo \in {<<>>} \cup TickStacks \cup PollStacks \cup ClosedStacks
              /\ active \in Seq(Handler) /\ active # <<>>
              /\ \A i \in DOMAIN active :
                    active[i] = (IF i = Len(active) THEN "on_after_close" ELSE "tick")

Leave(t) == /\ phase = "loop" /\ Spent /\ active = <<>>
            /\ \/ t = 19 /\ todo \in LeaveStacks
               \/ t = 20 /\ todo = Leaving20
               \/ t = 21 /\ todo = Leaving21

Gone(t) == /\ phase = "loop" /\ Spent /\ t = 21 /\ active = <<"shutdown">>
           /\ todo \in {Leaving, Left, <<>>}

Downing(t) == /\ phase = "loop" /\ Spent /\ active = <<>>
              /\ \/ t = 21 /\ todo \in Down21
                 \/ t = 22 /\ todo \in Down22
                 \/ t = 23 /\ todo \in Down23
                 \/ t = 24 /\ todo \in Down24
                 \/ t = 25 /\ todo \in Down25

Quitting(t) == /\ phase = "quit" /\ Spent /\ active = <<>>
               /\ t \in 25..31 /\ todo = SubSeq(IleQuit, t - 24, 6)

Ended(t) == phase = "exit" /\ Spent /\ active = <<>> /\ t = 31 /\ todo = <<>>

Situation(t) == \/ Starting(t) \/ Open(t) \/ Closing(t) \/ Clicked(t) \/ Leave(t)
                \/ Gone(t) \/ Downing(t) \/ Quitting(t) \/ Ended(t)

Window == /\ queue \in Seq({"resized", "close"}) /\ clicks \in [{"resized", "close"} -> Nat]
          /\ ~crashed

ShutdownInv == Window /\ \E t \in 0..31 : Data(t) /\ Situation(t)
-----------------------------------------------------------------------------
(***************************************************************************)
(* Lists of steps                                                          *)
(***************************************************************************)

(* What is put before other steps comes first, and they come after it.     *)
LEMMA PushFacts ==
    ASSUME NEW op \in Steps, NEW s \in Seq(Steps)
    PROVE  /\ Push(op, s) \in Seq(Steps) /\ Push(op, s) # <<>>
           /\ Head(Push(op, s)) = op /\ Tail(Push(op, s)) = s
PROOF
<1>1. <<op>> \in Seq(Steps) /\ Len(<<op>>) = 1
  OBVIOUS
<1>2. Push(op, s) \in Seq(Steps) /\ Len(Push(op, s)) = 1 + Len(s)
  BY <1>1, ConcatProperties DEF Push
<1>3. Push(op, s)[1] = op /\ \A i \in 1..Len(s) : Push(op, s)[i + 1] = s[i]
  BY <1>1, ConcatProperties, LenProperties DEF Push
<1>4. Push(op, s) # <<>> /\ Head(Push(op, s)) = op
  BY <1>2, <1>3, LenProperties
<1>5. Tail(Push(op, s)) \in Seq(Steps) /\ Len(Tail(Push(op, s))) = Len(s)
  BY <1>2, <1>4, HeadTailProperties, LenProperties
<1>6. \A i \in 1..Len(s) : Tail(Push(op, s))[i] = s[i]
  BY <1>2, <1>3, <1>4, <1>5, HeadTailProperties, LenProperties
<1>7. Tail(Push(op, s)) = s
  BY <1>5, <1>6, SeqEqual
<1> QED  BY <1>2, <1>4, <1>7

(* Steps taken off a list and put on it in front of what is left.          *)
LEMMA PushSome ==
    ASSUME NEW s \in Seq(Steps), NEW a \in Steps, NEW b \in Steps
    PROVE  /\ <<>> \o s = s /\ <<a>> \o s = Push(a, s) /\ <<a>> = Push(a, <<>>)
           /\ (<<>> \o <<b>>) \o s = Push(b, s)
           /\ (<<a>> \o <<b>>) \o s = Push(a, Push(b, s))
PROOF
<1>1. <<a>> \in Seq(Steps) /\ <<b>> \in Seq(Steps)
  OBVIOUS
<1> QED  BY <1>1, ConcatEmptySeq, ConcatAssociative DEF Push

(* The three steps of after_close.                                         *)
LEMMA PushFour ==
    ASSUME NEW s \in Seq(Steps), NEW a \in Steps, NEW b \in Steps, NEW c \in Steps, NEW d \in Steps
    PROVE  (<<a, b, c>> \o <<d>>) \o s = Push(a, Push(b, Push(c, Push(d, s))))
PROOF
<1>1. /\ <<a>> \in Seq(Steps) /\ <<b>> \in Seq(Steps) /\ <<c>> \in Seq(Steps) /\ <<d>> \in Seq(Steps)
      /\ <<b, c>> \in Seq(Steps) /\ <<a, b, c>> \in Seq(Steps) /\ <<b, c, d>> \in Seq(Steps)
      /\ <<c, d>> \in Seq(Steps)
  OBVIOUS
<1>2. <<a, b, c>> = <<a>> \o <<b, c>>
  <2>1. PICK u : u = <<a>> \o <<b, c>>
    OBVIOUS
  <2>2. u \in Seq(Steps) /\ Len(u) = 3
    BY <1>1, <2>1, ConcatProperties, Len(<<a>>) = 1, Len(<<b, c>>) = 2
  <2>3. u[1] = a /\ u[2] = b /\ u[3] = c
    <3>1. u[1] = <<a>>[1] /\ u[2] = <<b, c>>[1] /\ u[3] = <<b, c>>[2]
      BY <1>1, <2>1, ConcatProperties, Len(<<a>>) = 1, Len(<<b, c>>) = 2
    <3> QED  BY <3>1
  <2>4. \A i \in 1..3 : u[i] = <<a, b, c>>[i]
    BY <2>3
  <2> QED  BY <1>1, <2>1, <2>2, <2>4, SeqEqual, Len(<<a, b, c>>) = 3
<1>3. <<b, c>> = <<b>> \o <<c>>
  <2>1. PICK u : u = <<b>> \o <<c>>
    OBVIOUS
  <2>2. u \in Seq(Steps) /\ Len(u) = 2
    BY <1>1, <2>1, ConcatProperties, Len(<<b>>) = 1, Len(<<c>>) = 1
  <2>3. u[1] = b /\ u[2] = c
    <3>1. u[1] = <<b>>[1] /\ u[2] = <<c>>[1]
      BY <1>1, <2>1, ConcatProperties, Len(<<b>>) = 1, Len(<<c>>) = 1
    <3> QED  BY <3>1
  <2>4. \A i \in 1..2 : u[i] = <<b, c>>[i]
    BY <2>3
  <2> QED  BY <1>1, <2>1, <2>2, <2>4, SeqEqual, Len(<<b, c>>) = 2
<1>4. (<<a, b, c>> \o <<d>>) \o s = <<a, b, c>> \o (<<d>> \o s)
  BY <1>1, ConcatAssociative
<1>5. <<d>> \o s \in Seq(Steps) /\ <<c>> \o (<<d>> \o s) \in Seq(Steps)
  BY <1>1, ConcatProperties
<1>6. <<a, b, c>> \o (<<d>> \o s) = <<a>> \o (<<b, c>> \o (<<d>> \o s))
  BY <1>1, <1>2, <1>5, ConcatAssociative
<1>7. <<b, c>> \o (<<d>> \o s) = <<b>> \o (<<c>> \o (<<d>> \o s))
  <2>1. PICK u : u = <<d>> \o s
    OBVIOUS
  <2>2. (<<b>> \o <<c>>) \o u = <<b>> \o (<<c>> \o u)
    BY <1>1, <1>5, <2>1, ConcatAssociative
  <2> QED  BY <1>3, <2>1, <2>2
<1> QED  BY <1>4, <1>6, <1>7 DEF Push

(* The steps of the program.                                               *)
LEMMA StepsAre ==
    /\ \A h \in Handler :
          /\ New(h) \in Steps /\ Destroy(h) \in Steps /\ FireAsync(h) \in Steps
          /\ LuaNew(h) \in Steps /\ LuaDestroy(h) \in Steps
    /\ \A h \in Handler, i \in Nat : Fire(h, i) \in Steps
    /\ \A h \in Handler, i, n \in Nat : LuaDispatch(h, i, n) \in Steps
    /\ \A h \in Handler, f \in Functions : LuaRegister(h, f) \in Steps
    /\ \A h \in Handler, id \in Variables : Unregister(h, id) \in Steps
    /\ \A h \in Handler, f \in Functions, p \in Nat, id \in Variables :
          Register(h, f, p, id) \in Steps
    /\ \A do \in {"context.new", "context.use", "context.free"} : Context(do) \in Steps
    /\ \A do \in {"sdl.init", "sdl.poll", "sdl.quit"} : SDL(do) \in Steps
    /\ DumpAll \in Steps
PROOF
<1> USE DEF Steps, Places, Operation
<1>1. /\ \A do \in {"context.new", "context.use", "context.free"} : Context(do) \in Steps
      /\ \A do \in {"sdl.init", "sdl.poll", "sdl.quit"} : SDL(do) \in Steps
      /\ DumpAll \in Steps
  BY DEF Context, SDL, DumpAll
<1>2. ASSUME NEW h \in Handler
      PROVE  /\ New(h) \in Steps /\ Destroy(h) \in Steps /\ FireAsync(h) \in Steps
             /\ LuaNew(h) \in Steps /\ LuaDestroy(h) \in Steps
  BY DEF New, Destroy, FireAsync, LuaNew, LuaDestroy
<1>3. /\ \A h \in Handler, i \in Nat : Fire(h, i) \in Steps
      /\ \A h \in Handler, i, n \in Nat : LuaDispatch(h, i, n) \in Steps
  BY DEF Fire, LuaDispatch
<1>4. \A h \in Handler, f \in Functions : LuaRegister(h, f) \in Steps
  BY DEF LuaRegister
<1>5. \A h \in Handler, id \in Variables : Unregister(h, id) \in Steps
  BY DEF Unregister
<1>6. \A h \in Handler, f \in Functions, p \in Nat, id \in Variables : Register(h, f, p, id) \in Steps
  BY DEF Register
<1> QED  BY <1>1, <1>2, <1>3, <1>4, <1>5, <1>6
-----------------------------------------------------------------------------
(***************************************************************************)
(* What each kind of step does                                             *)
(***************************************************************************)

(* The first step on the list is what the thread does.                     *)
LEMMA FirstIsDone ==
    ASSUME NEW op \in Steps, NEW s \in Seq(Steps), todo = Push(op, s), Thread
    PROVE  /\ op.do = "new" => DoNew
           /\ op.do = "register" => DoRegister
           /\ op.do = "unregister" => DoUnregister
           /\ op.do = "destroy" => DoDestroy
           /\ op.do = "fire" => DoFire
           /\ op.do = "fireasync" => DoFireAsync
           /\ op.do = "dumpAll" => DoDumpAll
           /\ op.do = "event.create" => LuaCreates
           /\ op.do = "event.register" => LuaRegisters
           /\ op.do = "lua_dispatch" => LuaDispatches \/ LuaFails
           /\ op.do = "event.destroy" => LuaDestroys
           /\ op.do = "context.new" => ContextNew
           /\ op.do = "context.use" => ContextUse
           /\ op.do = "context.free" => ContextFree
           /\ op.do = "sdl.init" => SDLInit
           /\ op.do = "sdl.quit" => SDLQuit
           /\ op.do = "sdl.poll" => PollEvents
PROOF
<1>1. todo # <<>> /\ Head(todo) = op
  BY PushFacts
<1>2. ~StartLoop /\ ~RunActive /\ ~LoopReturns /\ ~Exit
  BY <1>1 DEF StartLoop, RunActive, LoopReturns, Exit, Goto
<1>3. \A timers \in SUBSET (live \cap Timer) : ~Due(timers)
  BY <1>1 DEF Due, Goto
<1>4. /\ DoNew => op.do = "new"
      /\ DoRegister => op.do = "register"
      /\ DoUnregister => op.do = "unregister"
      /\ DoDestroy => op.do = "destroy"
      /\ DoFireAsync => op.do = "fireasync"
      /\ DoDumpAll => op.do = "dumpAll"
  BY <1>1 DEF DoNew, DoRegister, DoUnregister, DoDestroy, DoFireAsync, DoDumpAll, Do
<1>5. /\ DoFire => op.do = "fire"
      /\ LuaDispatches => op.do = "lua_dispatch"
      /\ LuaFails => op.do = "lua_dispatch"
  BY <1>1 DEF DoFire, LuaDispatches, LuaFails
<1>6. /\ LuaCreates => op.do = "event.create"
      /\ LuaRegisters => op.do = "event.register"
      /\ LuaDestroys => op.do = "event.destroy"
  BY <1>1 DEF LuaCreates, LuaRegisters, LuaDestroys, Do
<1>7. /\ ContextNew => op.do = "context.new"
      /\ ContextUse => op.do = "context.use"
      /\ ContextFree => op.do = "context.free"
      /\ SDLInit => op.do = "sdl.init"
      /\ SDLQuit => op.do = "sdl.quit"
      /\ PollEvents => op.do = "sdl.poll"
  BY <1>1 DEF ContextNew, ContextUse, ContextFree, SDLInit, SDLQuit, PollEvents, Do
<1> QED  BY <1>2, <1>3, <1>4, <1>5, <1>6, <1>7 DEF Thread

(* A callback is taken from the array of a handler, and its body is put    *)
(* before the rest of the loop; after the last one the loop ends.          *)
LEMMA FireDoes ==
    ASSUME NEW h \in Handler, NEW i \in Nat, NEW s \in Seq(Steps),
           todo = Push(Fire(h, i), s), h \in live,
           i <= Len(callbacks[h]) => callbacks[h][i].function # Wild,
           Thread
    PROVE  /\ UNCHANGED <<phase, clicks, handlers, active, lua, window>> /\ ~crashed'
           /\ i > Len(callbacks[h]) => todo' = <<>> \o s
           /\ ~(i > Len(callbacks[h])) =>
                 todo' = (Body(callbacks[h][i].function, h) \o <<Fire(h, i + 1)>>) \o s
PROOF
<1>1. Fire(h, i) \in Steps
  BY StepsAre
<1>2. Head(todo) = Fire(h, i) /\ Tail(todo) = s
  BY <1>1, PushFacts
<1>3. DoFire
  BY <1>1, FirstIsDone DEF Fire
<1>4. Valid(Fire(h, i))
  BY DEF Valid, Fire
<1>5. Head(todo).on = h /\ Head(todo).next = i
  BY <1>2 DEF Fire
<1>6. /\ Do("fire", IF i > Len(callbacks[h]) THEN <<>>
                   ELSE Body(callbacks[h][i].function, h) \o <<Fire(h, i + 1)>>)
      /\ UNCHANGED <<handlers, active, lua, window>>
  BY <1>3, <1>5 DEF DoFire
<1>7. /\ crashed' = ~Valid(Head(todo)) /\ UNCHANGED <<phase, clicks>>
      /\ todo' = (IF i > Len(callbacks[h]) THEN <<>>
                  ELSE Body(callbacks[h][i].function, h) \o <<Fire(h, i + 1)>>) \o Tail(todo)
  BY <1>6 DEF Do
<1> QED  BY <1>2, <1>4, <1>6, <1>7

\* What lua_dispatch() does with the i-th of the functions of h, when there
\* were n of them and s comes after it
LuaDispatched(h, i, n, s) ==
    \/ scripts' = scripts /\ i > n /\ todo' = <<>> \o s
    \/ /\ scripts' = scripts /\ i <= n /\ i > Len(scripts[h])
       /\ todo' = (<<>> \o <<LuaDispatch(h, i + 1, n)>>) \o s
    \/ /\ scripts' = scripts /\ i <= n /\ ~(i > Len(scripts[h]))
       /\ todo' = (Body(scripts[h][i], h) \o <<LuaDispatch(h, i + 1, n)>>) \o s
    \/ /\ i <= Len(scripts[h]) /\ scripts[h][i] = "ontick"
       /\ scripts' = [scripts EXCEPT ![h] = RemoveAt(@, i)]
       /\ todo' = <<LuaDispatch(h, i + 1, n)>> \o s

(* lua_dispatch() calls the next function, or removes it after an error.   *)
LEMMA LuaDispatchDoes ==
    ASSUME NEW h \in Handler, NEW i \in Nat, NEW n \in Nat, NEW s \in Seq(Steps),
           todo = Push(LuaDispatch(h, i, n), s), h \in live, Thread
    PROVE  /\ UNCHANGED <<phase, clicks, handlers, active, lua_handlers, window>> /\ ~crashed'
           /\ LuaDispatched(h, i, n, s)
PROOF
<1>1. LuaDispatch(h, i, n) \in Steps
  BY StepsAre
<1>2. Head(todo) = LuaDispatch(h, i, n) /\ Tail(todo) = s
  BY <1>1, PushFacts
<1>3. LuaDispatches \/ LuaFails
  BY <1>1, FirstIsDone DEF LuaDispatch
<1>4. Valid(LuaDispatch(h, i, n))
  BY DEF Valid, LuaDispatch
<1>5. Head(todo).on = h /\ Head(todo).next = i /\ Head(todo).last = n
  BY <1>2 DEF LuaDispatch
<1>6. CASE LuaDispatches
  <2>1. /\ Do("lua_dispatch",
              IF i > n THEN <<>>
              ELSE (IF i > Len(scripts[h]) THEN <<>> ELSE Body(scripts[h][i], h))
                   \o <<LuaDispatch(h, i + 1, n)>>)
        /\ UNCHANGED <<handlers, active, lua, window>>
    BY <1>5, <1>6 DEF LuaDispatches
  <2>2. /\ crashed' = ~Valid(Head(todo)) /\ UNCHANGED <<phase, clicks>>
        /\ todo' = (IF i > n THEN <<>>
                    ELSE (IF i > Len(scripts[h]) THEN <<>> ELSE Body(scripts[h][i], h))
                         \o <<LuaDispatch(h, i + 1, n)>>) \o Tail(todo)
    BY <2>1 DEF Do
  <2>3. i > n \/ i <= n
    OBVIOUS
  <2> QED  BY <1>2, <1>4, <2>1, <2>2, <2>3 DEF lua, LuaDispatched
<1>7. CASE LuaFails
  <2>1. /\ i <= Len(scripts[h]) /\ scripts[h][i] = "ontick"
        /\ Do("lua_dispatch", <<LuaDispatch(h, i + 1, n)>>)
        /\ scripts' = [scripts EXCEPT ![h] = RemoveAt(@, i)]
        /\ UNCHANGED <<handlers, active, lua_handlers, window>>
    BY <1>5, <1>7 DEF LuaFails
  <2>2. /\ crashed' = ~Valid(Head(todo)) /\ UNCHANGED <<phase, clicks>>
        /\ todo' = <<LuaDispatch(h, i + 1, n)>> \o Tail(todo)
    BY <2>1 DEF Do
  <2> QED  BY <1>2, <1>4, <2>1, <2>2 DEF LuaDispatched
<1> QED  BY <1>3, <1>6, <1>7

(* Every other step is taken off the list and changes what it is for.      *)
LEMMA StepDoes ==
    ASSUME NEW op \in Steps, NEW s \in Seq(Steps), todo = Push(op, s), Valid(op), Thread,
           op.do \notin {"fire", "lua_dispatch", "sdl.poll"}
    PROVE  /\ todo' = s /\ ~crashed' /\ UNCHANGED <<phase, clicks>>
           /\ op.do \in {"new", "register", "unregister", "destroy", "fireasync", "dumpAll"} =>
                 UNCHANGED <<scripts, lua_handlers, context, sdl, queue>>
           /\ op.do = "new" => Create(op.on)
           /\ op.do = "register" => Add(op.on, op.function, op.priority, op.id)
           /\ op.do = "unregister" => Withdraw(op.on, ids[op.id])
           /\ op.do = "destroy" => Release(op.on)
           /\ op.do = "fireasync" => UNCHANGED handlers /\ active' = Append(active, op.on)
           /\ op.do = "dumpAll" => UNCHANGED <<handlers, active>>
           /\ op.do = "event.create" =>
                 /\ Create(op.on) /\ lua_handlers' = Append(lua_handlers, op.on)
                 /\ UNCHANGED <<scripts, context, sdl, queue>>
           /\ op.do = "event.register" =>
                 /\ IF \A c \in ToSet(callbacks[op.on]) : c.function # "lua_dispatch"
                    THEN Add(op.on, "lua_dispatch", ILE_DONTCARE, "none")
                    ELSE UNCHANGED <<handlers, active>>
                 /\ scripts' = [scripts EXCEPT ![op.on] = Append(@, op.function)]
                 /\ UNCHANGED <<lua_handlers, context, sdl, queue>>
           /\ op.do = "event.destroy" =>
                 /\ Release(op.on)
                 /\ lua_handlers' = RemoveFirst(lua_handlers, op.on)
                 /\ UNCHANGED <<scripts, context, sdl, queue>>
           /\ op.do = "context.new" =>
                 /\ Create("close") /\ context' = "live"
                 /\ UNCHANGED <<scripts, lua_handlers, sdl, queue>>
           /\ op.do = "context.use" => UNCHANGED <<handlers, active, lua, window>>
           /\ op.do = "context.free" =>
                 /\ Release("close") /\ context' = "freed"
                 /\ UNCHANGED <<scripts, lua_handlers, sdl, queue>>
           /\ op.do = "sdl.init" => sdl' = TRUE /\ UNCHANGED <<handlers, active, lua, context, queue>>
           /\ op.do = "sdl.quit" =>
                 sdl' = FALSE /\ queue' = <<>> /\ UNCHANGED <<handlers, active, lua, context>>
PROOF
<1>1. Head(todo) = op /\ Tail(todo) = s /\ <<>> \o s = s
  BY PushFacts, ConcatEmptySeq
<1>2. \E do : Do(do, <<>>)
  <2>1. op.do \in Operation
    BY DEF Steps, Operation
  <2>2. CASE op.do \in {"new", "register", "unregister", "destroy", "fireasync", "dumpAll"}
    BY <2>2, FirstIsDone DEF DoNew, DoRegister, DoUnregister, DoDestroy, DoFireAsync, DoDumpAll
  <2>3. CASE op.do \in {"event.create", "event.register", "event.destroy"}
    BY <2>3, FirstIsDone DEF LuaCreates, LuaRegisters, LuaDestroys
  <2>4. CASE op.do \in {"context.new", "context.use", "context.free", "sdl.init", "sdl.quit"}
    BY <2>4, FirstIsDone DEF ContextNew, ContextUse, ContextFree, SDLInit, SDLQuit
  <2> QED  BY <2>1, <2>2, <2>3, <2>4 DEF Operation
<1>3. todo' = s /\ ~crashed' /\ UNCHANGED <<phase, clicks>>
  BY <1>1, <1>2 DEF Do
<1>4. /\ op.do \in {"new", "register", "unregister", "destroy", "fireasync", "dumpAll"} =>
            UNCHANGED <<scripts, lua_handlers, context, sdl, queue>>
      /\ op.do = "new" => Create(op.on)
      /\ op.do = "register" => Add(op.on, op.function, op.priority, op.id)
      /\ op.do = "unregister" => Withdraw(op.on, ids[op.id])
      /\ op.do = "destroy" => Release(op.on)
      /\ op.do = "fireasync" => UNCHANGED handlers /\ active' = Append(active, op.on)
      /\ op.do = "dumpAll" => UNCHANGED <<handlers, active>>
  BY <1>1, FirstIsDone DEF DoNew, DoRegister, DoUnregister, DoDestroy, DoFireAsync, DoDumpAll, lua, window
<1>5. /\ op.do = "event.create" =>
            /\ Create(op.on) /\ lua_handlers' = Append(lua_handlers, op.on)
            /\ UNCHANGED <<scripts, context, sdl, queue>>
      /\ op.do = "event.register" =>
            /\ IF \A c \in ToSet(callbacks[op.on]) : c.function # "lua_dispatch"
               THEN Add(op.on, "lua_dispatch", ILE_DONTCARE, "none")
               ELSE UNCHANGED <<handlers, active>>
            /\ scripts' = [scripts EXCEPT ![op.on] = Append(@, op.function)]
            /\ UNCHANGED <<lua_handlers, context, sdl, queue>>
      /\ op.do = "event.destroy" =>
            /\ Release(op.on)
            /\ lua_handlers' = RemoveFirst(lua_handlers, op.on)
            /\ UNCHANGED <<scripts, context, sdl, queue>>
  <2>1. CASE op.do = "event.create"
    BY <2>1, <1>1, FirstIsDone DEF LuaCreates, window
  <2>2. CASE op.do = "event.register"
    <3>1. LuaRegisters
      BY <2>2, FirstIsDone
    <3> QED  BY <1>1, <2>2, <3>1 DEF LuaRegisters, window
  <2>3. CASE op.do = "event.destroy"
    <3>1. LuaDestroys
      BY <2>3, FirstIsDone
    <3> QED  BY <1>1, <2>3, <3>1 DEF LuaDestroys, window
  <2> QED  BY <2>1, <2>2, <2>3
<1>6. /\ op.do = "context.new" =>
            /\ Create("close") /\ context' = "live"
            /\ UNCHANGED <<scripts, lua_handlers, sdl, queue>>
      /\ op.do = "context.use" => UNCHANGED <<handlers, active, lua, window>>
      /\ op.do = "context.free" =>
            /\ Release("close") /\ context' = "freed"
            /\ UNCHANGED <<scripts, lua_handlers, sdl, queue>>
      /\ op.do = "sdl.init" => sdl' = TRUE /\ UNCHANGED <<handlers, active, lua, context, queue>>
      /\ op.do = "sdl.quit" =>
            sdl' = FALSE /\ queue' = <<>> /\ UNCHANGED <<handlers, active, lua, context>>
  BY <1>1, FirstIsDone DEF ContextNew, ContextUse, ContextFree, SDLInit, SDLQuit, lua
<1> QED  BY <1>3, <1>4, <1>5, <1>6

(* Polling takes an event from the queue, and comes back as long as there  *)
(* is one.                                                                 *)
LEMMA PollDoes ==
    ASSUME NEW s \in Seq(Steps), todo = Push(SDL("sdl.poll"), s),
           queue # <<>> => context = "live", Thread
    PROVE  /\ UNCHANGED <<phase, clicks, handlers, active, lua, context, sdl>> /\ ~crashed'
           /\ queue = <<>> => queue' = <<>> /\ todo' = s
           /\ queue # <<>> =>
                 /\ queue' = Tail(queue)
                 /\ Head(queue) = "close" =>
                       todo' = Push(Fire("close", 1), Push(SDL("sdl.poll"), s))
                 /\ Head(queue) # "close" => todo' = Push(SDL("sdl.poll"), s)
PROOF
<1>1. SDL("sdl.poll") \in Steps /\ Fire("close", 1) \in Steps
  BY StepsAre DEF Handler
<1>2. Head(todo) = SDL("sdl.poll") /\ Tail(todo) = s
  BY <1>1, PushFacts
<1>3. PollEvents
  BY <1>1, FirstIsDone DEF SDL
<1>4. Valid(SDL("sdl.poll"))
  BY DEF Valid, SDL, Handler, Timer, Core
<1>5. /\ crashed' = ~Valid(Head(todo)) /\ UNCHANGED <<phase, clicks>>
      /\ todo' = (IF queue = <<>> THEN <<>>
                  ELSE (IF Head(queue) = "close" THEN <<Fire("close", 1)>> ELSE <<>>)
                       \o <<SDL("sdl.poll")>>) \o Tail(todo)
      /\ queue' = IF queue = <<>> THEN <<>> ELSE Tail(queue)
      /\ UNCHANGED <<handlers, active, lua, context, sdl>>
  BY <1>3 DEF PollEvents, Do
<1>6. CASE queue = <<>>
  BY <1>2, <1>4, <1>5, <1>6, ConcatEmptySeq
<1>7. CASE queue # <<>> /\ Head(queue) = "close"
  <2>1. todo' = (<<Fire("close", 1)>> \o <<SDL("sdl.poll")>>) \o s
    BY <1>2, <1>5, <1>7
  <2> QED  BY <1>1, <1>4, <1>5, <1>7, <1>2, <2>1, PushSome
<1>8. CASE queue # <<>> /\ Head(queue) # "close"
  <2>1. todo' = (<<>> \o <<SDL("sdl.poll")>>) \o s
    BY <1>2, <1>5, <1>8
  <2> QED  BY <1>1, <1>4, <1>5, <1>8, <1>2, <2>1, PushSome
<1> QED  BY <1>6, <1>7, <1>8
-----------------------------------------------------------------------------
(***************************************************************************)
(* Arrays of callbacks                                                     *)
(***************************************************************************)
CallbackType == [function : Functions, priority : Int, handle : Nat]

(* The place of a new callback is where the greater priorities begin.      *)
LEMMA PlaceIs ==
    ASSUME NEW s \in Seq(CallbackType), NEW p \in Int, NEW k \in 1..(Len(s) + 1),
           k <= Len(s) => s[k].priority > p, \A j \in 1..(k - 1) : s[j].priority <= p
    PROVE  Place(s, p) = k
PROOF
<1> DEFINE Fits(i) == /\ i <= Len(s) => s[i].priority > p
                      /\ \A j \in 1..(i - 1) : s[j].priority <= p
<1>1. Len(s) \in Nat /\ \A j \in 1..Len(s) : s[j].priority \in Int
  <2>1. Len(s) \in Nat /\ \A j \in 1..Len(s) : s[j] \in CallbackType
    BY LenProperties, ElementOfSeq
  <2> QED  BY <2>1 DEF CallbackType
<1>2. ASSUME NEW i \in 1..(Len(s) + 1), NEW j \in 1..(Len(s) + 1), Fits(i), Fits(j), i < j
      PROVE  FALSE
  <2>1. i \in 1..(j - 1) /\ i <= Len(s)
    BY <1>1, <1>2
  <2>2. s[i].priority <= p /\ s[i].priority > p /\ s[i].priority \in Int
    BY <1>1, <1>2, <2>1
  <2> QED  BY <2>2
<1>3. \A i \in 1..(Len(s) + 1) : Fits(i) => i = k
  <2> SUFFICES ASSUME NEW i \in 1..(Len(s) + 1), Fits(i) PROVE i = k
    OBVIOUS
  <2>1. Fits(k)
    OBVIOUS
  <2>2. i < k \/ k < i \/ i = k
    BY <1>1
  <2> QED  BY <1>2, <2>1, <2>2
<1>4. Place(s, p) = CHOOSE i \in 1..(Len(s) + 1) : Fits(i)
  BY DEF Place
<1>5. Fits(k)
  OBVIOUS
<1> HIDE DEF Fits
<1> QED  BY <1>3, <1>4, <1>5

(* Insertion into the arrays of the program: nothing is in the array, one  *)
(* callback of a greater priority, or one of each.                         *)
LEMMA InsertFirst ==
    ASSUME NEW c \in CallbackType
    PROVE  ILInsert(<<>>, c) = <<c>>
PROOF
<1>1. Place(<<>>, c.priority) = 1
  <2>1. <<>> \in Seq(CallbackType) /\ Len(<<>>) = 0 /\ c.priority \in Int
    BY DEF CallbackType
  <2>2. PICK s \in Seq(CallbackType), p \in Int : s = <<>> /\ p = c.priority
    BY <2>1
  <2>3. /\ Len(s) = 0 /\ 1 \in 1..(0 + 1)
        /\ 1 <= Len(s) => s[1].priority > p
        /\ \A j \in 1..(1 - 1) : s[j].priority <= p
    BY <2>1, <2>2
  <2> QED  BY <2>2, <2>3, PlaceIs
<1>2. ILInsert(<<>>, c) = [k \in 1..1 |-> c]
  BY <1>1 DEF ILInsert
<1> QED  BY <1>2

(* A callback comes before one that is to be called after it.              *)
LEMMA InsertBefore ==
    ASSUME NEW c \in CallbackType, NEW d \in CallbackType, c.priority < d.priority
    PROVE  ILInsert(<<d>>, c) = <<c, d>>
PROOF
<1>1. Place(<<d>>, c.priority) = 1
  <2>1. <<d>> \in Seq(CallbackType) /\ Len(<<d>>) = 1 /\ c.priority \in Int
    BY DEF CallbackType
  <2>2. PICK s \in Seq(CallbackType), p \in Int : s = <<d>> /\ p = c.priority
    BY <2>1
  <2>3. /\ Len(s) = 1 /\ 1 \in 1..(1 + 1)
        /\ 1 <= Len(s) => s[1].priority > p
        /\ \A j \in 1..(1 - 1) : s[j].priority <= p
    BY <2>1, <2>2
  <2> QED  BY <2>2, <2>3, PlaceIs
<1>2. ILInsert(<<d>>, c) = [k \in 1..2 |-> IF k = 1 THEN c ELSE d]
  <2>1. ILInsert(<<d>>, c) = [k \in 1..2 |-> IF k < 1 THEN <<d>>[k] ELSE IF k = 1 THEN c ELSE <<d>>[k - 1]]
    BY <1>1 DEF ILInsert
  <2>2. \A k \in 1..2 : (IF k < 1 THEN <<d>>[k] ELSE IF k = 1 THEN c ELSE <<d>>[k - 1])
                           = IF k = 1 THEN c ELSE d
    OBVIOUS
  <2> QED  BY <2>1, <2>2
<1> QED  BY <1>2

(* One that comes after another of its priority and before the last.       *)
LEMMA InsertBetween ==
    ASSUME NEW c \in CallbackType, NEW b \in CallbackType, NEW d \in CallbackType,
           b.priority <= c.priority, c.priority < d.priority
    PROVE  ILInsert(<<b, d>>, c) = <<b, c, d>>
PROOF
<1>1. Place(<<b, d>>, c.priority) = 2
  <2>1. <<b, d>> \in Seq(CallbackType) /\ Len(<<b, d>>) = 2 /\ c.priority \in Int
    BY DEF CallbackType
  <2>2. PICK s \in Seq(CallbackType), p \in Int : s = <<b, d>> /\ p = c.priority
    BY <2>1
  <2>3. /\ Len(s) = 2 /\ 2 \in 1..(2 + 1)
        /\ 2 <= Len(s) => s[2].priority > p
        /\ \A j \in 1..(2 - 1) : s[j].priority <= p
    BY <2>1, <2>2
  <2> QED  BY <2>2, <2>3, PlaceIs
<1>2. ILInsert(<<b, d>>, c) = [k \in 1..3 |-> IF k = 1 THEN b ELSE IF k = 2 THEN c ELSE d]
  <2>1. ILInsert(<<b, d>>, c) =
          [k \in 1..3 |-> IF k < 2 THEN <<b, d>>[k] ELSE IF k = 2 THEN c ELSE <<b, d>>[k - 1]]
    BY <1>1 DEF ILInsert
  <2>2. \A k \in 1..3 : (IF k < 2 THEN <<b, d>>[k] ELSE IF k = 2 THEN c ELSE <<b, d>>[k - 1])
                           = IF k = 1 THEN b ELSE IF k = 2 THEN c ELSE d
    OBVIOUS
  <2> QED  BY <2>1, <2>2
<1> QED  BY <1>2

(* ilE_unregister() takes off the callback with the handle, when it stands *)
(* last and no other has it.                                               *)
LEMMA WithdrawLast ==
    ASSUME NEW h \in Handler, NEW handle \in Nat, Withdraw(h, handle),
           callbacks[h] \in Seq(CallbackType), callbacks[h] # <<>>,
           \A i \in 1..Len(callbacks[h]) : callbacks[h][i].handle = handle <=> i = Len(callbacks[h])
    PROVE  /\ callbacks' = [callbacks EXCEPT ![h] = Front(callbacks[h])]
           /\ UNCHANGED <<live, cur_id, persistent, ids, active>>
PROOF
<1> DEFINE s == callbacks[h]
           i == SelectInSeq(s, LAMBDA c : c.handle = handle)
<1>1. Len(s) \in Nat /\ Len(s) >= 1 /\ DOMAIN s = 1..Len(s)
  BY EmptySeq, LenProperties
<1>2. {k \in 1..Len(s) : s[k].handle = handle} = {Len(s)}
  BY <1>1
<1>3. i = Len(s)
  <2>1. {Len(s)} \in SUBSET Nat /\ {Len(s)} # {}
    BY <1>1
  <2>2. Min({Len(s)}) \in {Len(s)}
    BY <2>1, MinIsLeast
  <2> QED  BY <1>1, <1>2, <2>2 DEF SelectInSeq
<1>4. ILRemove(s, i) = {Front(s)}
  BY <1>3 DEF ILRemove
<1>5. \E u \in (IF i = 0 THEN {s} ELSE ILRemove(s, i)) : callbacks' = [callbacks EXCEPT ![h] = u]
  BY DEF Withdraw
<1> HIDE DEF i
<1>6. \E u \in {Front(s)} : callbacks' = [callbacks EXCEPT ![h] = u]
  BY <1>1, <1>3, <1>4, <1>5
<1> QED  BY <1>6 DEF Withdraw
-----------------------------------------------------------------------------
(***************************************************************************)
(* How the program is set up                                               *)
(***************************************************************************)

\* u has m steps of s and n of t
Joins(u, s, t, m, n) ==
    /\ u \in Seq(Steps) /\ Len(u) = m + n
    /\ \A i \in 1..m : u[i] = s[i]
    /\ \A i \in 1..n : u[i + m] = t[i]

(* What is in two lists of steps, one after the other.                     *)
LEMMA BothLists ==
    ASSUME NEW s \in Seq(Steps), NEW t \in Seq(Steps)
    PROVE  Joins(s \o t, s, t, Len(s), Len(t))
PROOF
<1>1. PICK u, m, n : u = s \o t /\ m = Len(s) /\ n = Len(t)
  OBVIOUS
<1>2. /\ u \in Seq(Steps) /\ Len(u) = m + n /\ m \in Nat /\ n \in Nat
      /\ \A i \in 1..(m + n) : u[i] = IF i <= m THEN s[i] ELSE t[i - m]
  BY <1>1, ConcatProperties, LenProperties
<1>3. ASSUME NEW i \in 1..n PROVE u[i + m] = t[i]
  <2>1. i + m \in 1..(m + n) /\ ~(i + m <= m) /\ (i + m) - m = i
    BY <1>2
  <2> QED  BY <1>2, <2>1
<1>4. \A i \in 1..m : u[i] = s[i]
  BY <1>2
<1> QED  BY <1>1, <1>2, <1>3, <1>4 DEF Joins

(* The rest of a list of steps is the next one and what follows it.        *)
LEMMA RestIs ==
    ASSUME NEW s \in Seq(Steps), NEW n \in Nat, n = Len(s), NEW k \in 1..(n + 1)
    PROVE  /\ SubSeq(s, k, n) \in Seq(Steps)
           /\ k <= n => s[k] \in Steps /\ SubSeq(s, k, n) = Push(s[k], SubSeq(s, k + 1, n))
           /\ k = n + 1 => SubSeq(s, k, n) = <<>>
PROOF
<1>1. \A i \in 1..n : s[i] \in Steps
  BY ElementOfSeq
<1>2. \A j \in 1..(n + 1) : SubSeq(s, j, n) \in Seq(Steps) /\ Len(SubSeq(s, j, n)) = n - j + 1
                            /\ \A i \in 1..(n - j + 1) : SubSeq(s, j, n)[i] = s[j + i - 1]
  BY <1>1, SubSeqProperties
<1>3. ASSUME k <= n PROVE SubSeq(s, k, n) = Push(s[k], SubSeq(s, k + 1, n))
  <2>1. PICK r : r = SubSeq(s, k + 1, n)
    OBVIOUS
  <2>2. PICK a : a = <<s[k]>>
    OBVIOUS
  <2>3. /\ r \in Seq(Steps) /\ Len(r) = n - k
        /\ \A i \in 1..(n - k) : r[i] = s[k + i]
    <3>1. k + 1 \in 1..(n + 1)
      BY <1>3
    <3> QED  BY <1>2, <2>1, <3>1
  <2>4. a \in Seq(Steps) /\ Len(a) = 1 /\ a[1] = s[k]
    BY <1>1, <1>3, <2>2
  <2>5. PICK u : u = a \o r
    OBVIOUS
  <2>6. /\ u \in Seq(Steps) /\ Len(u) = n - k + 1
        /\ u[1] = a[1] /\ \A i \in 1..(n - k) : u[i + 1] = r[i]
    <3>1. n - k \in Nat
      BY <1>3
    <3>2. /\ u \in Seq(Steps) /\ Len(u) = 1 + (n - k)
          /\ \A i \in 1..1 : u[i] = a[i]
          /\ \A i \in 1..(n - k) : u[i + 1] = r[i]
      <4>1. Joins(u, a, r, 1, n - k)
        BY <2>3, <2>4, <2>5, BothLists
      <4> QED  BY <4>1 DEF Joins
    <3> QED  BY <3>1, <3>2
  <2>7. PICK v : v = SubSeq(s, k, n)
    OBVIOUS
  <2>8. /\ v \in Seq(Steps) /\ Len(v) = n - k + 1
        /\ \A i \in 1..(n - k + 1) : v[i] = s[k + i - 1]
    BY <1>2, <2>7
  <2>9. \A i \in 1..(n - k + 1) : u[i] = v[i]
    <3> SUFFICES ASSUME NEW i \in 1..(n - k + 1) PROVE u[i] = v[i]
      OBVIOUS
    <3>1. CASE i = 1
      <4>1. 1 \in 1..(n - k + 1) /\ k + 1 - 1 = k
        BY <1>3
      <4>2. v[1] = s[k + 1 - 1]
        BY <2>8, <4>1
      <4>3. v[1] = s[k] /\ u[1] = s[k]
        BY <2>4, <2>6, <4>1, <4>2
      <4> QED  BY <3>1, <4>3
    <3>2. CASE i > 1
      <4>1. PICK j : j = i - 1
        OBVIOUS
      <4>2. j \in 1..(n - k) /\ j + 1 = i /\ k + j = k + i - 1
        BY <3>2, <4>1
      <4>3. r[j] = s[k + j]
        BY <2>3, <4>2
      <4>4. u[j + 1] = r[j]
        BY <2>6, <4>2
      <4>5. v[i] = s[k + i - 1]
        BY <2>8
      <4> QED  BY <4>2, <4>3, <4>4, <4>5
    <3> QED  BY <3>1, <3>2
  <2>10. u = v
    BY <2>6, <2>8, <2>9, SeqEqual
  <2> QED  BY <2>1, <2>2, <2>5, <2>7, <2>10 DEF Push
<1>4. ASSUME k = n + 1 PROVE SubSeq(s, k, n) = <<>>
  BY <1>2, <1>4, EmptySeq
<1> QED  BY <1>1, <1>2, <1>3, <1>4

(* The steps with which the program starts, one by one.                    *)
LEMMA OpeningIs ==
    /\ Opening \in Seq(Steps) /\ Len(Opening) = 19
    /\ Opening[1] = New("shutdown")
    /\ Opening[2] = Register("shutdown", "shutdownCallbacks", ILE_AFTER, "shutdownCallbacks")
    /\ Opening[3] = New("shutdownCallbacks")
    /\ Opening[4] = Register("shutdownCallbacks", "shutdownHandlers", ILE_AFTER, "shutdownCallbacks")
    /\ Opening[5] = New("shutdownHandlers")
    /\ Opening[6] = Register("shutdownHandlers", "showRemaining", ILE_AFTER, "showRemaining")
    /\ Opening[7] = SDL("sdl.init")
    /\ Opening[8] = New("poll_timer")
    /\ Opening[9] = Register("poll_timer", "poll_events", ILE_DONTCARE, "poll")
    /\ Opening[10] = Register("shutdownCallbacks", "poll_shutdown_cb", ILE_DONTCARE, "none")
    /\ Opening[11] = Register("shutdownHandlers", "poll_shutdown_hnd", ILE_DONTCARE, "none")
    /\ Opening[12] = Register("shutdown", "quit", ILE_DONTCARE, "none")
    /\ Opening[13] = LuaRegister("shutdownHandlers", "destroy_lua_handlers")
    /\ Opening[14] = Context("context.new")
    /\ Opening[15] = LuaNew("tick")
    /\ Opening[16] = LuaNew("on_after_close")
    /\ Opening[17] = LuaRegister("tick", "ontick")
    /\ Opening[18] = LuaRegister("close", "close")
    /\ Opening[19] = LuaRegister("on_after_close", "after_close")
PROOF
<1> DEFINE r1 == Register("shutdown", "shutdownCallbacks", ILE_AFTER, "shutdownCallbacks")
           r2 == Register("shutdownCallbacks", "shutdownHandlers", ILE_AFTER, "shutdownCallbacks")
           r3 == Register("shutdownHandlers", "showRemaining", ILE_AFTER, "showRemaining")
           r4 == Register("poll_timer", "poll_events", ILE_DONTCARE, "poll")
           r5 == Register("shutdownCallbacks", "poll_shutdown_cb", ILE_DONTCARE, "none")
           r6 == Register("shutdownHandlers", "poll_shutdown_hnd", ILE_DONTCARE, "none")
           r7 == Register("shutdown", "quit", ILE_DONTCARE, "none")
           l1 == LuaRegister("shutdownHandlers", "destroy_lua_handlers")
           l2 == LuaRegister("tick", "ontick")
           l3 == LuaRegister("close", "close")
           l4 == LuaRegister("on_after_close", "after_close")
<1>0. /\ {"shutdown", "shutdownCallbacks", "shutdownHandlers", "poll_timer", "tick", "close",
          "on_after_close"} \subseteq Handler
      /\ ILE_AFTER \in Nat /\ ILE_DONTCARE \in Nat
  BY DEF Handler, Timer, Core, ILE_AFTER, ILE_DONTCARE
<1>1. /\ New("shutdown") \in Steps /\ New("shutdownCallbacks") \in Steps
      /\ New("shutdownHandlers") \in Steps /\ New("poll_timer") \in Steps
      /\ LuaNew("tick") \in Steps /\ LuaNew("on_after_close") \in Steps
      /\ SDL("sdl.init") \in Steps /\ Context("context.new") \in Steps
  BY <1>0, StepsAre
<1>2. /\ r1 \in Steps /\ r2 \in Steps /\ r3 \in Steps /\ r4 \in Steps /\ r5 \in Steps
      /\ r6 \in Steps /\ r7 \in Steps
  BY <1>0 DEF Register, Steps, Places, Functions, Variables
<1>3. l1 \in Steps /\ l2 \in Steps /\ l3 \in Steps /\ l4 \in Steps
  BY <1>0 DEF LuaRegister, Steps, Places, Functions
<1>4. RegisterShowRemaining = r3
  BY DEF RegisterShowRemaining
<1> HIDE DEF r1, r2, r3, r4, r5, r6, r7, l1, l2, l3, l4
<1>5. PICK a : a = <<New("shutdown"), r1, New("shutdownCallbacks"), r2, New("shutdownHandlers"), r3>>
  OBVIOUS
<1>6. /\ a \in Seq(Steps) /\ Len(a) = 6 /\ a[1] = New("shutdown") /\ a[2] = r1
      /\ a[3] = New("shutdownCallbacks") /\ a[4] = r2 /\ a[5] = New("shutdownHandlers") /\ a[6] = r3
  BY <1>1, <1>2, <1>5
<1>7. PICK b : b = <<New("poll_timer"), r4, r5, r6>>
  OBVIOUS
<1>8. /\ b \in Seq(Steps) /\ Len(b) = 4 /\ b[1] = New("poll_timer")
      /\ b[2] = r4 /\ b[3] = r5 /\ b[4] = r6
  BY <1>1, <1>2, <1>7
<1>9. PICK c, d : c = <<SDL("sdl.init")>> /\ d = <<r7>>
  OBVIOUS
<1>10. /\ c \in Seq(Steps) /\ Len(c) = 1 /\ c[1] = SDL("sdl.init")
       /\ d \in Seq(Steps) /\ Len(d) = 1 /\ d[1] = r7
  BY <1>1, <1>2, <1>9
<1>11. PICK e : e = <<l1, Context("context.new"), LuaNew("tick"), LuaNew("on_after_close"), l2, l3, l4>>
  OBVIOUS
<1>12. /\ e \in Seq(Steps) /\ Len(e) = 7 /\ e[1] = l1 /\ e[2] = Context("context.new")
       /\ e[3] = LuaNew("tick") /\ e[4] = LuaNew("on_after_close")
       /\ e[5] = l2 /\ e[6] = l3 /\ e[7] = l4
  BY <1>1, <1>3, <1>11
<1>13. PICK f : f = c \o b
  OBVIOUS
<1>14. /\ f \in Seq(Steps) /\ Len(f) = 1 + 4 /\ \A i \in 1..1 : f[i] = c[i]
       /\ \A i \in 1..4 : f[i + 1] = b[i]
  <2>1. Joins(f, c, b, 1, 4)
    BY <1>8, <1>10, <1>13, BothLists
  <2> QED  BY <2>1 DEF Joins
<1>15. PICK g : g = f \o d
  OBVIOUS
<1>16. /\ g \in Seq(Steps) /\ Len(g) = 5 + 1 /\ \A i \in 1..5 : g[i] = f[i]
       /\ \A i \in 1..1 : g[i + 5] = d[i]
  <2>1. Len(f) = 5
    BY <1>14
  <2>2. Joins(g, f, d, 5, 1)
    BY <1>10, <1>14, <1>15, <2>1, BothLists
  <2> QED  BY <2>2 DEF Joins
<1>17. PICK h : h = a \o g
  OBVIOUS
<1>18. /\ h \in Seq(Steps) /\ Len(h) = 6 + 6 /\ \A i \in 1..6 : h[i] = a[i]
       /\ \A i \in 1..6 : h[i + 6] = g[i]
  <2>1. Len(g) = 6
    BY <1>16
  <2>2. Joins(h, a, g, 6, 6)
    BY <1>6, <1>16, <1>17, <2>1, BothLists
  <2> QED  BY <2>2 DEF Joins
<1>19. PICK o : o = h \o e
  OBVIOUS
<1>20. /\ o \in Seq(Steps) /\ Len(o) = 12 + 7 /\ \A i \in 1..12 : o[i] = h[i]
       /\ \A i \in 1..7 : o[i + 12] = e[i]
  <2>1. Len(h) = 12
    BY <1>18
  <2>2. Joins(o, h, e, 12, 7)
    BY <1>12, <1>18, <1>19, <2>1, BothLists
  <2> QED  BY <2>2 DEF Joins
<1>21. Opening = o
  <2>1. IleInit = a /\ Script = e
    BY <1>4, <1>5, <1>11 DEF IleInit, Script, r1, r2, l1, l2, l3, l4
  <2>2. GraphicsBootstrap = g
    <3>1. RegisterSdlInputBackend = b
      BY <1>7 DEF RegisterSdlInputBackend, r4, r5, r6
    <3>2. d = <<Register("shutdown", "quit", ILE_DONTCARE, "none")>>
      BY <1>9 DEF r7
    <3> QED  BY <1>9, <1>13, <1>15, <3>1, <3>2 DEF GraphicsBootstrap
  <2> QED  BY <1>17, <1>19, <2>1, <2>2 DEF Opening
<1>22. /\ g[1] = c[1] /\ g[2] = b[1] /\ g[3] = b[2] /\ g[4] = b[3] /\ g[5] = b[4] /\ g[6] = d[1]
  <2>1. f[1] = c[1] /\ f[1 + 1] = b[1] /\ f[2 + 1] = b[2] /\ f[3 + 1] = b[3] /\ f[4 + 1] = b[4]
    BY <1>14
  <2>2. g[1] = f[1] /\ g[2] = f[2] /\ g[3] = f[3] /\ g[4] = f[4] /\ g[5] = f[5] /\ g[1 + 5] = d[1]
    BY <1>16
  <2> QED  BY <2>1, <2>2
<1>23. /\ h[1] = a[1] /\ h[2] = a[2] /\ h[3] = a[3] /\ h[4] = a[4] /\ h[5] = a[5] /\ h[6] = a[6]
       /\ h[7] = g[1] /\ h[8] = g[2] /\ h[9] = g[3] /\ h[10] = g[4] /\ h[11] = g[5] /\ h[12] = g[6]
  <2>1. h[1 + 6] = g[1] /\ h[2 + 6] = g[2] /\ h[3 + 6] = g[3] /\ h[4 + 6] = g[4] /\ h[5 + 6] = g[5]
        /\ h[6 + 6] = g[6]
    BY <1>18
  <2> QED  BY <1>18, <2>1
<1>24. /\ o[13] = e[1] /\ o[14] = e[2] /\ o[15] = e[3] /\ o[16] = e[4] /\ o[17] = e[5]
       /\ o[18] = e[6] /\ o[19] = e[7]
  <2>1. o[1 + 12] = e[1] /\ o[2 + 12] = e[2] /\ o[3 + 12] = e[3] /\ o[4 + 12] = e[4] /\ o[5 + 12] = e[5]
        /\ o[6 + 12] = e[6] /\ o[7 + 12] = e[7]
    BY <1>20
  <2> QED  BY <2>1
<1>25. /\ o[1] = h[1] /\ o[2] = h[2] /\ o[3] = h[3] /\ o[4] = h[4] /\ o[5] = h[5] /\ o[6] = h[6]
       /\ o[7] = h[7] /\ o[8] = h[8] /\ o[9] = h[9] /\ o[10] = h[10] /\ o[11] = h[11] /\ o[12] = h[12]
  BY <1>20
<1>26. Len(o) = 19
  BY <1>20
<1>27. /\ o[1] = New("shutdown") /\ o[2] = r1 /\ o[3] = New("shutdownCallbacks") /\ o[4] = r2
       /\ o[5] = New("shutdownHandlers") /\ o[6] = r3
  BY <1>6, <1>23, <1>25
<1>28. /\ o[7] = SDL("sdl.init") /\ o[8] = New("poll_timer") /\ o[9] = r4 /\ o[10] = r5
       /\ o[11] = r6 /\ o[12] = r7
  BY <1>8, <1>10, <1>22, <1>23, <1>25
<1> QED  BY <1>12, <1>20, <1>21, <1>24, <1>26, <1>27, <1>28 DEF r1, r2, r3, r4, r5, r6, r7, l1, l2, l3, l4

(* The steps of ilE_quit().                                                *)
LEMMA IleQuitIs ==
    /\ IleQuit \in Seq(Steps) /\ Len(IleQuit) = 6
    /\ IleQuit[1] = Unregister("shutdown", "shutdownCallbacks")
    /\ IleQuit[2] = Unregister("shutdownCallbacks", "shutdownHandlers")
    /\ IleQuit[3] = Unregister("shutdownHandlers", "showRemaining")
    /\ IleQuit[4] = Destroy("shutdown")
    /\ IleQuit[5] = Destroy("shutdownCallbacks")
    /\ IleQuit[6] = Destroy("shutdownHandlers")
PROOF
<1>1. /\ Unregister("shutdown", "shutdownCallbacks") \in Steps
      /\ Unregister("shutdownCallbacks", "shutdownHandlers") \in Steps
      /\ Unregister("shutdownHandlers", "showRemaining") \in Steps
      /\ Destroy("shutdown") \in Steps /\ Destroy("shutdownCallbacks") \in Steps
      /\ Destroy("shutdownHandlers") \in Steps
  BY StepsAre DEF Handler, Core, Variables
<1> QED  BY <1>1 DEF IleQuit

(* What the thread can have before it.                                     *)
LEMMA StacksAre ==
    /\ <<>> \in Seq(Steps) /\ Polled \in Seq(Steps) /\ Polling \in Seq(Steps)
    /\ Ticked \in Seq(Steps)
    /\ ClosedOnce \in Seq(Steps) /\ Closed \in Seq(Steps)
    /\ Left \in Seq(Steps) /\ Leaving \in Seq(Steps)
    /\ Leaving21 \in Seq(Steps) /\ Leaving20 \in Seq(Steps)
    /\ Down \in Seq(Steps) /\ DownC \in Seq(Steps) /\ DownL \in Seq(Steps)
    /\ Push(Fire("shutdownHandlers", 3), DownC) \in Seq(Steps)
PROOF
<1>1. /\ \A h \in Handler : \A i \in Nat : Fire(h, i) \in Steps
      /\ \A h \in Handler : LuaDispatch(h, 2, 1) \in Steps
      /\ FireAsync("shutdown") \in Steps /\ Context("context.free") \in Steps
      /\ SDL("sdl.poll") \in Steps
      /\ <<>> \in Seq(Steps)
  <2>1. "shutdown" \in Handler
    BY DEF Handler, Core
  <2> QED  BY <2>1, StepsAre
<1>2. {"poll_timer", "tick", "close", "on_after_close"} \cup Core \subseteq Handler
  BY DEF Handler, Timer
<1>3. Polled \in Seq(Steps) /\ Ticked \in Seq(Steps) /\ Left \in Seq(Steps) /\ Down \in Seq(Steps)
  BY <1>1, <1>2, PushFacts DEF Polled, Ticked, Left, Down, Core
<1>4. Polling \in Seq(Steps) /\ Leaving \in Seq(Steps) /\ DownC \in Seq(Steps)
  BY <1>1, <1>2, <1>3, PushFacts DEF Polling, Leaving, DownC, Core
<1>5. /\ ClosedOnce \in Seq(Steps) /\ Leaving21 \in Seq(Steps)
      /\ Push(Fire("shutdownHandlers", 3), DownC) \in Seq(Steps)
  BY <1>1, <1>2, <1>4, PushFacts DEF ClosedOnce, Leaving21, Core
<1>6. Closed \in Seq(Steps) /\ Leaving20 \in Seq(Steps) /\ DownL \in Seq(Steps)
  BY <1>1, <1>2, <1>5, PushFacts DEF Closed, Leaving20, DownL, Core
<1> QED  BY <1>1, <1>3, <1>4, <1>5, <1>6
-----------------------------------------------------------------------------
(***************************************************************************)
(* What is called                                                          *)
(***************************************************************************)

(* What the functions that handlers call do.                               *)
LEMMA BodyOf ==
    ASSUME NEW h \in Handler
    PROVE  /\ Body("poll_events", h) = <<SDL("sdl.poll")>>
           /\ Body("poll_shutdown_cb", h) = <<Unregister("poll_timer", "poll")>>
           /\ Body("poll_shutdown_hnd", h) = <<Destroy("poll_timer")>>
           /\ Body("quit", h) = <<SDL("sdl.quit")>>
           /\ Body("shutdownCallbacks", h) = <<Fire("shutdownCallbacks", 1)>>
           /\ Body("shutdownHandlers", h) = <<Fire("shutdownHandlers", 1)>>
           /\ Body("showRemaining", h) = <<DumpAll>>
           /\ Body("lua_dispatch", h) = <<LuaDispatch(h, 1, Len(scripts[h]))>>
           /\ lua_handlers = <<"on_after_close">> =>
                 Body("destroy_lua_handlers", h) = <<Destroy("on_after_close")>>
           /\ Body("ontick", h) = <<Context("context.use")>>
           /\ Body("close", h) = <<FireAsync("on_after_close")>>
           /\ Body("after_close", h) = <<LuaDestroy("tick"), Context("context.free"), FireAsync("shutdown")>>
PROOF
<1>1. /\ Body("poll_events", h) = <<SDL("sdl.poll")>>
      /\ Body("poll_shutdown_cb", h) = PollShutdownCb
      /\ Body("poll_shutdown_hnd", h) = PollShutdownHnd
      /\ Body("quit", h) = <<SDL("sdl.quit")>>
      /\ Body("shutdownCallbacks", h) = <<Fire("shutdownCallbacks", 1)>>
      /\ Body("shutdownHandlers", h) = <<Fire("shutdownHandlers", 1)>>
      /\ Body("showRemaining", h) = <<DumpAll>>
      /\ Body("lua_dispatch", h) = <<LuaDispatch(h, 1, Len(scripts[h]))>>
      /\ Body("destroy_lua_handlers", h) = DestroyLuaHandlers
      /\ Body("ontick", h) = <<Context("context.use")>>
      /\ Body("close", h) = CloseScript
      /\ Body("after_close", h) = AfterClose
  BY DEF Body
<1>2. ASSUME lua_handlers = <<"on_after_close">>
      PROVE  DestroyLuaHandlers = <<Destroy("on_after_close")>>
  <2>1. DestroyLuaHandlers = [i \in 1..1 |-> Destroy(<<"on_after_close">>[i])]
    BY <1>2 DEF DestroyLuaHandlers
  <2>2. \A i \in 1..1 : Destroy(<<"on_after_close">>[i]) = Destroy("on_after_close")
    BY DEF Destroy
  <2> QED  BY <2>1, <2>2
<1>3. /\ PollShutdownCb = <<Unregister("poll_timer", "poll")>>
      /\ PollShutdownHnd = <<Destroy("poll_timer")>>
      /\ CloseScript = <<FireAsync("on_after_close")>>
      /\ AfterClose = <<LuaDestroy("tick"), Context("context.free"), FireAsync("shutdown")>>
  BY DEF PollShutdownCb, PollShutdownHnd, CloseScript, AfterClose
<1> HIDE DEF Body, Unregister, Destroy, FireAsync, LuaDestroy, Context, Fire, SDL, LuaDispatch, DumpAll
<1> QED  BY <1>1, <1>2, <1>3, ZenonT(30)

(* What is called from the moment the loop runs to the moment it ends.     *)
LEMMA Called ==
    ASSUME NEW t \in 19..25, Data(t)
    PROVE  /\ Len(callbacks["shutdown"]) = 2
           /\ callbacks["shutdown"][1].function = "quit"
           /\ callbacks["shutdown"][2].function = "shutdownCallbacks"
           /\ Len(callbacks["shutdownCallbacks"]) = 2
           /\ callbacks["shutdownCallbacks"][1].function = "poll_shutdown_cb"
           /\ callbacks["shutdownCallbacks"][2].function = "shutdownHandlers"
           /\ Len(callbacks["shutdownHandlers"]) = 3
           /\ callbacks["shutdownHandlers"][1].function = "poll_shutdown_hnd"
           /\ callbacks["shutdownHandlers"][2].function = "lua_dispatch"
           /\ callbacks["shutdownHandlers"][3].function = "showRemaining"
           /\ t < 23 => Len(callbacks["poll_timer"]) = 1
                        /\ callbacks["poll_timer"][1].function = "poll_events"
           /\ \A h \in {"tick", "close", "on_after_close"} :
                 Len(callbacks[h]) = 1 /\ callbacks[h][1].function = "lua_dispatch"
PROOF
<1>1. \A h \in Handler : callbacks[h] = CallbacksAt(h, t)
  BY DEF Data
<1>2. {"poll_timer", "tick", "close", "on_after_close"} \cup Core \subseteq Handler
  BY DEF Handler, Timer
<1>3. /\ callbacks["shutdown"] = <<Cb("quit", ILE_DONTCARE, 1), Cb("shutdownCallbacks", ILE_AFTER, 0)>>
      /\ callbacks["shutdownCallbacks"] =
            <<Cb("poll_shutdown_cb", ILE_DONTCARE, 1), Cb("shutdownHandlers", ILE_AFTER, 0)>>
      /\ callbacks["shutdownHandlers"] =
            <<Cb("poll_shutdown_hnd", ILE_DONTCARE, 1), Cb("lua_dispatch", ILE_DONTCARE, 2),
              Cb("showRemaining", ILE_AFTER, 0)>>
  BY <1>1, <1>2 DEF CallbacksAt, Core
<1>4. /\ t < 23 => callbacks["poll_timer"] = <<Cb("poll_events", ILE_DONTCARE, 0)>>
      /\ \A h \in {"tick", "close", "on_after_close"} :
            callbacks[h] = <<Cb("lua_dispatch", ILE_DONTCARE, 0)>>
  BY <1>1, <1>2 DEF CallbacksAt, Core
<1>5. /\ Len(callbacks["shutdown"]) = 2 /\ Len(callbacks["shutdownCallbacks"]) = 2
      /\ Len(callbacks["shutdownHandlers"]) = 3
      /\ t < 23 => Len(callbacks["poll_timer"]) = 1
      /\ \A h \in {"tick", "close", "on_after_close"} : Len(callbacks[h]) = 1
  BY <1>3, <1>4
<1>6. /\ callbacks["shutdown"][1].function = "quit"
      /\ callbacks["shutdown"][2].function = "shutdownCallbacks"
  BY <1>3 DEF Cb
<1>7. /\ callbacks["shutdownCallbacks"][1].function = "poll_shutdown_cb"
      /\ callbacks["shutdownCallbacks"][2].function = "shutdownHandlers"
  BY <1>3 DEF Cb
<1>8. /\ callbacks["shutdownHandlers"][1].function = "poll_shutdown_hnd"
      /\ callbacks["shutdownHandlers"][2].function = "lua_dispatch"
      /\ callbacks["shutdownHandlers"][3].function = "showRemaining"
  BY <1>3 DEF Cb
<1>9. /\ t < 23 => callbacks["poll_timer"][1].function = "poll_events"
      /\ \A h \in {"tick", "close", "on_after_close"} : callbacks[h][1].function = "lua_dispatch"
  BY <1>4 DEF Cb
<1>10. ASSUME NEW h \in {"tick", "close", "on_after_close"}
       PROVE  Len(callbacks[h]) = 1 /\ callbacks[h][1].function = "lua_dispatch"
  BY <1>5, <1>9
<1> QED  BY <1>5, <1>6, <1>7, <1>8, <1>9, <1>10

(* The functions of scripts that are called then.                          *)
LEMMA CalledInLua ==
    ASSUME NEW t \in 19..25, Data(t)
    PROVE  /\ \/ scripts["tick"] = <<>>
              \/ scripts["tick"] = <<"ontick">>
           /\ scripts["close"] = <<"close">>
           /\ scripts["on_after_close"] = <<"after_close">>
           /\ scripts["shutdownHandlers"] = <<"destroy_lua_handlers">>
PROOF
<1>1. PICK ticks \in {<<>>, <<"ontick">>} : \A h \in Handler : scripts[h] = ScriptAt(h, t, ticks)
  BY DEF Data, ScriptsAt
<1>2. {"tick", "close", "on_after_close", "shutdownHandlers"} \subseteq Handler
  BY DEF Handler, Timer, Core
<1>3. /\ scripts["tick"] = ticks /\ scripts["close"] = <<"close">>
      /\ scripts["on_after_close"] = <<"after_close">>
      /\ scripts["shutdownHandlers"] = <<"destroy_lua_handlers">>
  BY <1>1, <1>2 DEF ScriptAt
<1>4. ticks = <<>> \/ ticks = <<"ontick">>
  OBVIOUS
<1> QED  BY <1>3, <1>4
-----------------------------------------------------------------------------
(***************************************************************************)
(* From one time to the next                                               *)
(***************************************************************************)

(* Handlers are born and die one at a time.                                *)
LEMMA TimesAre ==
    /\ \A h \in Handler : Born(h) \in 1..16 /\ Dies(h) \in 20..31
    /\ \A g, h \in Handler : Born(g) = Born(h) => g = h
    /\ \A g, h \in Handler : Dies(g) = Dies(h) => g = h
PROOF
<1> USE DEF Handler, Timer, Core
<1>1. \A h \in Handler : Born(h) \in 1..16 /\ Dies(h) \in 20..31
  BY DEF Born, Dies
<1>2. \A g, h \in Handler : Born(g) = Born(h) => g = h
  BY DEF Born
<1>3. \A g, h \in Handler : Dies(g) = Dies(h) => g = h
  BY DEF Dies
<1> QED  BY <1>1, <1>2, <1>3

(* Which handlers are live from one time to the next.                      *)
LEMMA LiveMoves ==
    ASSUME NEW t \in Nat
    PROVE  /\ \A h \in Handler : Born(h) = t + 1 => LiveAt(t + 1) = LiveAt(t) \cup {h}
           /\ \A h \in Handler : Dies(h) = t + 1 => LiveAt(t + 1) = LiveAt(t) \ {h}
           /\ (\A h \in Handler : Born(h) # t + 1 /\ Dies(h) # t + 1) => LiveAt(t + 1) = LiveAt(t)
PROOF
<1>1. ASSUME NEW g \in Handler
      PROVE  g \in LiveAt(t + 1) <=> (g \in LiveAt(t) /\ Dies(g) # t + 1) \/ Born(g) = t + 1
  BY TimesAre DEF LiveAt
<1>2. LiveAt(t) \subseteq Handler /\ LiveAt(t + 1) \subseteq Handler
  BY DEF LiveAt
<1>3. \A g, h \in Handler : Born(h) # Dies(g)
  BY TimesAre
<1>4. ASSUME NEW h \in Handler, Born(h) = t + 1 PROVE LiveAt(t + 1) = LiveAt(t) \cup {h}
  BY <1>1, <1>2, <1>3, <1>4, TimesAre
<1>5. ASSUME NEW h \in Handler, Dies(h) = t + 1 PROVE LiveAt(t + 1) = LiveAt(t) \ {h}
  BY <1>1, <1>2, <1>3, <1>5, TimesAre
<1>6. (\A h \in Handler : Born(h) # t + 1 /\ Dies(h) # t + 1) => LiveAt(t + 1) = LiveAt(t)
  BY <1>1, <1>2
<1> QED  BY <1>4, <1>5, <1>6

\* The times at which no callback comes or goes
Quiet == {0, 2, 4, 6, 7, 13, 14, 15, 19, 20, 21, 23, 24, 28, 29, 30}

(* Callbacks stay as they are except at their times.                       *)
LEMMA QuietTimes ==
    ASSUME NEW t \in Quiet
    PROVE  /\ \A h \in Handler : CallbacksAt(h, t + 1) = CallbacksAt(h, t)
           /\ \A h \in Handler : CountAt(h, t + 1) = CountAt(h, t)
PROOF
<1>1. ASSUME NEW h \in Handler PROVE CallbacksAt(h, t + 1) = CallbacksAt(h, t)
  <2>1. /\ t < 2 <=> t + 1 < 2
        /\ t < 4 <=> t + 1 < 4
        /\ t < 6 <=> t + 1 < 6
        /\ t < 9 <=> t + 1 < 9
        /\ t < 10 <=> t + 1 < 10
        /\ t < 11 <=> t + 1 < 11
        /\ t < 12 <=> t + 1 < 12
        /\ t < 13 <=> t + 1 < 13
    BY DEF Quiet
  <2>2. /\ t < 17 <=> t + 1 < 17
        /\ t < 18 <=> t + 1 < 18
        /\ t < 19 <=> t + 1 < 19
        /\ t >= 23 <=> t + 1 >= 23
        /\ t < 26 <=> t + 1 < 26
        /\ t < 27 <=> t + 1 < 27
        /\ t < 28 <=> t + 1 < 28
    BY DEF Quiet
  <2>3. CASE h \in Core
    BY <2>1, <2>2, <2>3 DEF CallbacksAt, Core
  <2>4. CASE h \notin Core
    BY <2>1, <2>2, <2>4 DEF CallbacksAt, Core, Timer, Handler
  <2> QED  BY <2>3, <2>4
<1>2. ASSUME NEW h \in Handler PROVE CountAt(h, t + 1) = CountAt(h, t)
  <2>1. t < 19 <=> t + 1 < 19
    BY DEF Quiet
  <2> QED  BY <1>1, <2>1 DEF CountAt
<1> QED  BY <1>1, <1>2

(* Nothing that is set up or taken down changes.                           *)
LEMMA DataStays ==
    ASSUME NEW t \in 0..31, Data(t),
           UNCHANGED <<live, persistent, callbacks, cur_id, ids, scripts, lua_handlers, context, sdl>>
    PROVE  Data(t)'
BY DEF Data

(* An error has been raised in ontick.                                     *)
LEMMA TickFails ==
    ASSUME NEW t \in 17..31, Data(t),
           UNCHANGED <<live, persistent, callbacks, cur_id, ids, lua_handlers, context, sdl>>,
           scripts' = [scripts EXCEPT !["tick"] = <<>>]
    PROVE  Data(t)'
PROOF
<1>1. PICK ticks \in {<<>>, <<"ontick">>} : scripts = [h \in Handler |-> ScriptAt(h, t, ticks)]
  BY DEF Data, ScriptsAt
<1>2. scripts' = [h \in Handler |-> ScriptAt(h, t, <<>>)]
  <2>1. \A h \in Handler : h # "tick" => ScriptAt(h, t, <<>>) = ScriptAt(h, t, ticks)
    BY DEF ScriptAt
  <2>2. ScriptAt("tick", t, <<>>) = <<>>
    BY DEF ScriptAt
  <2> HIDE DEF ScriptAt
  <2> QED  BY <1>1, <2>1, <2>2
<1> QED  BY <1>2 DEF Data, ScriptsAt

(* So do the functions of scripts.                                         *)
LEMMA ScriptsStay ==
    ASSUME NEW t \in (0..31) \ {12, 16, 17, 18}
    PROVE  ScriptsAt(t + 1) = ScriptsAt(t)
PROOF
<1>1. /\ t < 13 <=> t + 1 < 13
      /\ t < 17 <=> t + 1 < 17
      /\ t < 18 <=> t + 1 < 18
      /\ t < 19 <=> t + 1 < 19
  OBVIOUS
<1>2. \A h \in Handler, ticks \in {<<>>, <<"ontick">>} :
         ScriptAt(h, t + 1, ticks) = ScriptAt(h, t, ticks)
  BY <1>1 DEF ScriptAt
<1>3. \A ticks \in {<<>>, <<"ontick">>} :
         [h \in Handler |-> ScriptAt(h, t + 1, ticks)] = [h \in Handler |-> ScriptAt(h, t, ticks)]
  BY <1>2
<1> QED  BY <1>3 DEF ScriptsAt

(* A handler is created.                                                   *)
LEMMA BornAt ==
    ASSUME NEW h \in Handler, NEW t \in {0, 2, 4, 7, 13, 14, 15}, Born(h) = t + 1, Data(t),
           Create(h), UNCHANGED <<scripts, sdl>>,
           lua_handlers' = LuaHandlersAt(t + 1), context' = ContextAt(t + 1)
    PROVE  Data(t + 1)'
PROOF
<1>1. t \in Quiet
  BY DEF Quiet
<1>2. live' = LiveAt(t + 1) /\ persistent' = live' \cap Timer
  <2>1. LiveAt(t + 1) = LiveAt(t) \cup {h}
    BY LiveMoves
  <2> QED  BY <2>1 DEF Data, Create
<1>3. /\ callbacks' = [g \in Handler |-> CallbacksAt(g, t + 1)]
      /\ cur_id' = [g \in Handler |-> CountAt(g, t + 1)]
  BY <1>1, QuietTimes DEF Data, Create
<1>4. scripts' \in ScriptsAt(t + 1)
  BY ScriptsStay DEF Data
<1>5. ids' = [v \in Variables |-> 0] /\ sdl' = (7 <= t + 1 /\ t + 1 < 22)
  BY DEF Data, Create
<1> QED  BY <1>2, <1>3, <1>4, <1>5 DEF Data

(* A handler is destroyed.                                                 *)
LEMMA DiesAt ==
    ASSUME NEW h \in Handler, NEW t \in {19, 20, 23, 24, 28, 29, 30}, Dies(h) = t + 1, Data(t),
           Release(h), UNCHANGED <<scripts, sdl>>,
           lua_handlers' = LuaHandlersAt(t + 1), context' = ContextAt(t + 1)
    PROVE  Data(t + 1)'
PROOF
<1>1. t \in Quiet
  BY DEF Quiet
<1>2. live' = LiveAt(t + 1) /\ persistent' = live' \cap Timer
  <2>1. LiveAt(t + 1) = LiveAt(t) \ {h}
    BY LiveMoves
  <2> QED  BY <2>1 DEF Data, Release
<1>3. /\ callbacks' = [g \in Handler |-> CallbacksAt(g, t + 1)]
      /\ cur_id' = [g \in Handler |-> CountAt(g, t + 1)]
  BY <1>1, QuietTimes DEF Data, Release
<1>4. scripts' \in ScriptsAt(t + 1)
  BY ScriptsStay DEF Data
<1>5. ids' = [v \in Variables |-> 0] /\ sdl' = (7 <= t + 1 /\ t + 1 < 22)
  BY DEF Data, Release
<1> QED  BY <1>2, <1>3, <1>4, <1>5 DEF Data

(* SDL is initialised, or shut down.                                       *)
LEMMA SDLAt ==
    ASSUME NEW t \in {6, 21}, Data(t), sdl' = (t = 6),
           UNCHANGED <<live, persistent, callbacks, cur_id, ids, scripts, lua_handlers, context>>
    PROVE  Data(t + 1)'
PROOF
<1>1. t \in Quiet
  BY DEF Quiet
<1>2. live' = LiveAt(t + 1) /\ persistent' = live' \cap Timer
  <2>1. \A h \in Handler : Born(h) # t + 1 /\ Dies(h) # t + 1
    BY DEF Born, Dies, Handler, Timer, Core
  <2>2. LiveAt(t + 1) = LiveAt(t)
    BY <2>1, LiveMoves
  <2> QED  BY <2>2 DEF Data
<1>3. /\ callbacks' = [g \in Handler |-> CallbacksAt(g, t + 1)]
      /\ cur_id' = [g \in Handler |-> CountAt(g, t + 1)]
  BY <1>1, QuietTimes DEF Data
<1>4. scripts' \in ScriptsAt(t + 1)
  BY ScriptsStay DEF Data
<1>5. ids' = [v \in Variables |-> 0] /\ sdl' = (7 <= t + 1 /\ t + 1 < 22)
  BY DEF Data
<1>6. lua_handlers' = LuaHandlersAt(t + 1) /\ context' = ContextAt(t + 1)
  BY DEF Data, LuaHandlersAt, ContextAt
<1> QED  BY <1>2, <1>3, <1>4, <1>5, <1>6 DEF Data
\* The callbacks at the time after t are those at t, with f of h among them
Registers(t, h, f, p) ==
    /\ CallbacksAt(h, t + 1) = ILInsert(CallbacksAt(h, t), Cb(f, p, CountAt(h, t)))
    /\ CountAt(h, t + 1) = CountAt(h, t) + 1
    /\ \A g \in Handler \ {h} : CallbacksAt(g, t + 1) = CallbacksAt(g, t)

(* The registrations that are made while the program starts.               *)
LEMMA Registrations ==
    /\ Registers(1, "shutdown", "shutdownCallbacks", ILE_AFTER)
    /\ Registers(3, "shutdownCallbacks", "shutdownHandlers", ILE_AFTER)
    /\ Registers(5, "shutdownHandlers", "showRemaining", ILE_AFTER)
    /\ Registers(8, "poll_timer", "poll_events", ILE_DONTCARE)
    /\ Registers(9, "shutdownCallbacks", "poll_shutdown_cb", ILE_DONTCARE)
    /\ Registers(10, "shutdownHandlers", "poll_shutdown_hnd", ILE_DONTCARE)
    /\ Registers(11, "shutdown", "quit", ILE_DONTCARE)
    /\ Registers(12, "shutdownHandlers", "lua_dispatch", ILE_DONTCARE)
    /\ Registers(16, "tick", "lua_dispatch", ILE_DONTCARE)
    /\ Registers(17, "close", "lua_dispatch", ILE_DONTCARE)
    /\ Registers(18, "on_after_close", "lua_dispatch", ILE_DONTCARE)
PROOF
<1>1. \A f \in Functions, n \in Nat :
         Cb(f, ILE_AFTER, n) \in CallbackType /\ Cb(f, ILE_DONTCARE, n) \in CallbackType
  BY DEF CallbackType, Cb, ILE_AFTER, ILE_DONTCARE
<1>2. \A f, g \in Functions, m, n \in Nat :
         /\ Cb(f, ILE_DONTCARE, m).priority < Cb(g, ILE_AFTER, n).priority
         /\ Cb(f, ILE_DONTCARE, m).priority <= Cb(g, ILE_DONTCARE, n).priority
  BY DEF Cb, ILE_AFTER, ILE_DONTCARE
<1>3. {"shutdownCallbacks", "shutdownHandlers", "showRemaining", "poll_events", "poll_shutdown_cb",
       "poll_shutdown_hnd", "quit", "lua_dispatch"} \subseteq Functions
  BY DEF Functions
<1>4. Registers(1, "shutdown", "shutdownCallbacks", ILE_AFTER)
  <2>1. /\ CallbacksAt("shutdown", 1) = <<>>
        /\ CallbacksAt("shutdown", 1 + 1) =
              <<Cb("shutdownCallbacks", ILE_AFTER, 0)>>
    BY DEF CallbacksAt
  <2>2. ILInsert(<<>>, Cb("shutdownCallbacks", ILE_AFTER, 0)) =
           <<Cb("shutdownCallbacks", ILE_AFTER, 0)>>
    BY <1>1, <1>2, <1>3, InsertFirst
  <2>3. \A g \in Handler \ {"shutdown"} : CallbacksAt(g, 1 + 1) = CallbacksAt(g, 1)
    BY DEF CallbacksAt, Handler, Timer, Core
  <2>4. CountAt("shutdown", 1) = 0 /\ CountAt("shutdown", 1 + 1) = 1
    BY <2>1 DEF CountAt
  <2> QED  BY <2>1, <2>2, <2>3, <2>4 DEF Registers
<1>5. Registers(3, "shutdownCallbacks", "shutdownHandlers", ILE_AFTER)
  <2>1. /\ CallbacksAt("shutdownCallbacks", 3) = <<>>
        /\ CallbacksAt("shutdownCallbacks", 3 + 1) =
              <<Cb("shutdownHandlers", ILE_AFTER, 0)>>
    BY DEF CallbacksAt
  <2>2. ILInsert(<<>>, Cb("shutdownHandlers", ILE_AFTER, 0)) =
           <<Cb("shutdownHandlers", ILE_AFTER, 0)>>
    BY <1>1, <1>2, <1>3, InsertFirst
  <2>3. \A g \in Handler \ {"shutdownCallbacks"} : CallbacksAt(g, 3 + 1) = CallbacksAt(g, 3)
    BY DEF CallbacksAt, Handler, Timer, Core
  <2>4. CountAt("shutdownCallbacks", 3) = 0 /\ CountAt("shutdownCallbacks", 3 + 1) = 1
    BY <2>1 DEF CountAt
  <2> QED  BY <2>1, <2>2, <2>3, <2>4 DEF Registers
<1>6. Registers(5, "shutdownHandlers", "showRemaining", ILE_AFTER)
  <2>1. /\ CallbacksAt("shutdownHandlers", 5) = <<>>
        /\ CallbacksAt("shutdownHandlers", 5 + 1) =
              <<Cb("showRemaining", ILE_AFTER, 0)>>
    BY DEF CallbacksAt
  <2>2. ILInsert(<<>>, Cb("showRemaining", ILE_AFTER, 0)) =
           <<Cb("showRemaining", ILE_AFTER, 0)>>
    BY <1>1, <1>2, <1>3, InsertFirst
  <2>3. \A g \in Handler \ {"shutdownHandlers"} : CallbacksAt(g, 5 + 1) = CallbacksAt(g, 5)
    BY DEF CallbacksAt, Handler, Timer, Core
  <2>4. CountAt("shutdownHandlers", 5) = 0 /\ CountAt("shutdownHandlers", 5 + 1) = 1
    BY <2>1 DEF CountAt
  <2> QED  BY <2>1, <2>2, <2>3, <2>4 DEF Registers
<1>7. Registers(8, "poll_timer", "poll_events", ILE_DONTCARE)
  <2>1. /\ CallbacksAt("poll_timer", 8) = <<>>
        /\ CallbacksAt("poll_timer", 8 + 1) =
              <<Cb("poll_events", ILE_DONTCARE, 0)>>
    BY DEF CallbacksAt
  <2>2. ILInsert(<<>>, Cb("poll_events", ILE_DONTCARE, 0)) =
           <<Cb("poll_events", ILE_DONTCARE, 0)>>
    BY <1>1, <1>2, <1>3, InsertFirst
  <2>3. \A g \in Handler \ {"poll_timer"} : CallbacksAt(g, 8 + 1) = CallbacksAt(g, 8)
    BY DEF CallbacksAt, Handler, Timer, Core
  <2>4. CountAt("poll_timer", 8) = 0 /\ CountAt("poll_timer", 8 + 1) = 1
    BY <2>1 DEF CountAt
  <2> QED  BY <2>1, <2>2, <2>3, <2>4 DEF Registers
<1>8. Registers(9, "shutdownCallbacks", "poll_shutdown_cb", ILE_DONTCARE)
  <2>1. /\ CallbacksAt("shutdownCallbacks", 9) = <<Cb("shutdownHandlers", ILE_AFTER, 0)>>
        /\ CallbacksAt("shutdownCallbacks", 9 + 1) =
              <<Cb("poll_shutdown_cb", ILE_DONTCARE, 1), Cb("shutdownHandlers", ILE_AFTER, 0)>>
    BY DEF CallbacksAt
  <2>2. ILInsert(<<Cb("shutdownHandlers", ILE_AFTER, 0)>>, Cb("poll_shutdown_cb", ILE_DONTCARE, 1)) =
           <<Cb("poll_shutdown_cb", ILE_DONTCARE, 1), Cb("shutdownHandlers", ILE_AFTER, 0)>>
    BY <1>1, <1>2, <1>3, InsertBefore
  <2>3. \A g \in Handler \ {"shutdownCallbacks"} : CallbacksAt(g, 9 + 1) = CallbacksAt(g, 9)
    BY DEF CallbacksAt, Handler, Timer, Core
  <2>4. CountAt("shutdownCallbacks", 9) = 1 /\ CountAt("shutdownCallbacks", 9 + 1) = 2
    BY <2>1 DEF CountAt
  <2> QED  BY <2>1, <2>2, <2>3, <2>4 DEF Registers
<1>9. Registers(10, "shutdownHandlers", "poll_shutdown_hnd", ILE_DONTCARE)
  <2>1. /\ CallbacksAt("shutdownHandlers", 10) = <<Cb("showRemaining", ILE_AFTER, 0)>>
        /\ CallbacksAt("shutdownHandlers", 10 + 1) =
              <<Cb("poll_shutdown_hnd", ILE_DONTCARE, 1), Cb("showRemaining", ILE_AFTER, 0)>>
    BY DEF CallbacksAt
  <2>2. ILInsert(<<Cb("showRemaining", ILE_AFTER, 0)>>, Cb("poll_shutdown_hnd", ILE_DONTCARE, 1)) =
           <<Cb("poll_shutdown_hnd", ILE_DONTCARE, 1), Cb("showRemaining", ILE_AFTER, 0)>>
    BY <1>1, <1>2, <1>3, InsertBefore
  <2>3. \A g \in Handler \ {"shutdownHandlers"} : CallbacksAt(g, 10 + 1) = CallbacksAt(g, 10)
    BY DEF CallbacksAt, Handler, Timer, Core
  <2>4. CountAt("shutdownHandlers", 10) = 1 /\ CountAt("shutdownHandlers", 10 + 1) = 2
    BY <2>1 DEF CountAt
  <2> QED  BY <2>1, <2>2, <2>3, <2>4 DEF Registers
<1>10. Registers(11, "shutdown", "quit", ILE_DONTCARE)
  <2>1. /\ CallbacksAt("shutdown", 11) = <<Cb("shutdownCallbacks", ILE_AFTER, 0)>>
        /\ CallbacksAt("shutdown", 11 + 1) =
              <<Cb("quit", ILE_DONTCARE, 1), Cb("shutdownCallbacks", ILE_AFTER, 0)>>
    BY DEF CallbacksAt
  <2>2. ILInsert(<<Cb("shutdownCallbacks", ILE_AFTER, 0)>>, Cb("quit", ILE_DONTCARE, 1)) =
           <<Cb("quit", ILE_DONTCARE, 1), Cb("shutdownCallbacks", ILE_AFTER, 0)>>
    BY <1>1, <1>2, <1>3, InsertBefore
  <2>3. \A g \in Handler \ {"shutdown"} : CallbacksAt(g, 11 + 1) = CallbacksAt(g, 11)
    BY DEF CallbacksAt, Handler, Timer, Core
  <2>4. CountAt("shutdown", 11) = 1 /\ CountAt("shutdown", 11 + 1) = 2
    BY <2>1 DEF CountAt
  <2> QED  BY <2>1, <2>2, <2>3, <2>4 DEF Registers
<1>11. Registers(12, "shutdownHandlers", "lua_dispatch", ILE_DONTCARE)
  <2>1. /\ CallbacksAt("shutdownHandlers", 12) = <<Cb("poll_shutdown_hnd", ILE_DONTCARE, 1), Cb("showRemaining", ILE_AFTER, 0)>>
        /\ CallbacksAt("shutdownHandlers", 12 + 1) =
              <<Cb("poll_shutdown_hnd", ILE_DONTCARE, 1), Cb("lua_dispatch", ILE_DONTCARE, 2), Cb("showRemaining", ILE_AFTER, 0)>>
    BY DEF CallbacksAt
  <2>2. ILInsert(<<Cb("poll_shutdown_hnd", ILE_DONTCARE, 1), Cb("showRemaining", ILE_AFTER, 0)>>, Cb("lua_dispatch", ILE_DONTCARE, 2)) =
           <<Cb("poll_shutdown_hnd", ILE_DONTCARE, 1), Cb("lua_dispatch", ILE_DONTCARE, 2), Cb("showRemaining", ILE_AFTER, 0)>>
    BY <1>1, <1>2, <1>3, InsertBetween
  <2>3. \A g \in Handler \ {"shutdownHandlers"} : CallbacksAt(g, 12 + 1) = CallbacksAt(g, 12)
    BY DEF CallbacksAt, Handler, Timer, Core
  <2>4. CountAt("shutdownHandlers", 12) = 2 /\ CountAt("shutdownHandlers", 12 + 1) = 3
    BY <2>1 DEF CountAt
  <2> QED  BY <2>1, <2>2, <2>3, <2>4 DEF Registers
<1>12. Registers(16, "tick", "lua_dispatch", ILE_DONTCARE)
  <2>1. /\ CallbacksAt("tick", 16) = <<>>
        /\ CallbacksAt("tick", 16 + 1) =
              <<Cb("lua_dispatch", ILE_DONTCARE, 0)>>
    BY DEF CallbacksAt
  <2>2. ILInsert(<<>>, Cb("lua_dispatch", ILE_DONTCARE, 0)) =
           <<Cb("lua_dispatch", ILE_DONTCARE, 0)>>
    BY <1>1, <1>2, <1>3, InsertFirst
  <2>3. \A g \in Handler \ {"tick"} : CallbacksAt(g, 16 + 1) = CallbacksAt(g, 16)
    BY DEF CallbacksAt, Handler, Timer, Core
  <2>4. CountAt("tick", 16) = 0 /\ CountAt("tick", 16 + 1) = 1
    BY <2>1 DEF CountAt
  <2> QED  BY <2>1, <2>2, <2>3, <2>4 DEF Registers
<1>13. Registers(17, "close", "lua_dispatch", ILE_DONTCARE)
  <2>1. /\ CallbacksAt("close", 17) = <<>>
        /\ CallbacksAt("close", 17 + 1) =
              <<Cb("lua_dispatch", ILE_DONTCARE, 0)>>
    BY DEF CallbacksAt
  <2>2. ILInsert(<<>>, Cb("lua_dispatch", ILE_DONTCARE, 0)) =
           <<Cb("lua_dispatch", ILE_DONTCARE, 0)>>
    BY <1>1, <1>2, <1>3, InsertFirst
  <2>3. \A g \in Handler \ {"close"} : CallbacksAt(g, 17 + 1) = CallbacksAt(g, 17)
    BY DEF CallbacksAt, Handler, Timer, Core
  <2>4. CountAt("close", 17) = 0 /\ CountAt("close", 17 + 1) = 1
    BY <2>1 DEF CountAt
  <2> QED  BY <2>1, <2>2, <2>3, <2>4 DEF Registers
<1>14. Registers(18, "on_after_close", "lua_dispatch", ILE_DONTCARE)
  <2>1. /\ CallbacksAt("on_after_close", 18) = <<>>
        /\ CallbacksAt("on_after_close", 18 + 1) =
              <<Cb("lua_dispatch", ILE_DONTCARE, 0)>>
    BY DEF CallbacksAt
  <2>2. ILInsert(<<>>, Cb("lua_dispatch", ILE_DONTCARE, 0)) =
           <<Cb("lua_dispatch", ILE_DONTCARE, 0)>>
    BY <1>1, <1>2, <1>3, InsertFirst
  <2>3. \A g \in Handler \ {"on_after_close"} : CallbacksAt(g, 18 + 1) = CallbacksAt(g, 18)
    BY DEF CallbacksAt, Handler, Timer, Core
  <2>4. CountAt("on_after_close", 18) = 0 /\ CountAt("on_after_close", 18 + 1) = 1
    BY <2>1 DEF CountAt
  <2> QED  BY <2>1, <2>2, <2>3, <2>4 DEF Registers
<1> QED  BY <1>4, <1>5, <1>6, <1>7, <1>8, <1>9, <1>10, <1>11, <1>12, <1>13, <1>14

(* A callback is registered.                                               *)
LEMMA RegisteredAt ==
    ASSUME NEW h \in Handler, NEW f \in Functions, NEW p \in {ILE_DONTCARE, ILE_AFTER}, NEW id \in Variables,
           NEW t \in {1, 3, 5, 8, 9, 10, 11, 12, 16, 17, 18}, Data(t),
           Registers(t, h, f, p), id = "none" \/ CountAt(h, t) = 0,
           Add(h, f, p, id), UNCHANGED <<lua_handlers, context, sdl>>,
           scripts' \in ScriptsAt(t + 1)
    PROVE  Data(t + 1)'
PROOF
<1>1. live' = LiveAt(t + 1) /\ persistent' = live' \cap Timer
  <2>1. \A g \in Handler : Born(g) # t + 1 /\ Dies(g) # t + 1
    <3>1. \A g \in Handler : Born(g) \in {1, 3, 5, 8, 14, 15, 16} /\ Dies(g) \in {20, 21, 24, 25, 29, 30, 31}
      BY DEF Born, Dies, Handler, Timer, Core
    <3> QED  BY <3>1
  <2>2. LiveAt(t + 1) = LiveAt(t)
    BY <2>1, LiveMoves
  <2> QED  BY <2>2 DEF Data, Add
<1>2. callbacks' = [g \in Handler |-> CallbacksAt(g, t + 1)]
  <2>1. callbacks = [g \in Handler |-> CallbacksAt(g, t)] /\ cur_id[h] = CountAt(h, t)
    BY DEF Data
  <2>2. callbacks' = [callbacks EXCEPT ![h] = ILInsert(@, Cb(f, p, CountAt(h, t)))]
    BY <2>1 DEF Add, Cb
  <2> QED  BY <2>1, <2>2 DEF Registers
<1>3. cur_id' = [g \in Handler |-> CountAt(g, t + 1)]
  <2>1. \A g \in Handler \ {h} : CountAt(g, t + 1) = CountAt(g, t)
    BY DEF Registers, CountAt
  <2> QED  BY <2>1 DEF Data, Add, Registers
<1>4. ids' = [v \in Variables |-> 0]
  BY DEF Data, Add
<1>5. sdl' = (7 <= t + 1 /\ t + 1 < 22)
  BY DEF Data
<1>6. lua_handlers' = LuaHandlersAt(t + 1) /\ context' = ContextAt(t + 1)
  BY DEF Data, LuaHandlersAt, ContextAt
<1> QED  BY <1>1, <1>2, <1>3, <1>4, <1>5, <1>6 DEF Data

(* A function of a script is registered, the first of its handler.         *)
LEMMA LuaRegisteredAt ==
    ASSUME NEW t \in {12, 16, 17, 18}, Data(t), NEW h \in Handler, NEW f \in Functions,
           \/ t = 12 /\ h = "shutdownHandlers" /\ f = "destroy_lua_handlers"
           \/ t = 16 /\ h = "tick" /\ f = "ontick"
           \/ t = 17 /\ h = "close" /\ f = "close"
           \/ t = 18 /\ h = "on_after_close" /\ f = "after_close",
           IF \A c \in ToSet(callbacks[h]) : c.function # "lua_dispatch"
           THEN Add(h, "lua_dispatch", ILE_DONTCARE, "none")
           ELSE UNCHANGED <<handlers, active>>,
           scripts' = [scripts EXCEPT ![h] = Append(@, f)],
           UNCHANGED <<lua_handlers, context, sdl>>
    PROVE  Data(t + 1)' /\ active' = active
PROOF
<1>1. \A c \in ToSet(callbacks[h]) : c.function # "lua_dispatch"
  <2>1. callbacks[h] = CallbacksAt(h, t)
    BY DEF Data
  <2>2. CASE t = 12
    <3>1. callbacks[h] = <<Cb("poll_shutdown_hnd", ILE_DONTCARE, 1), Cb("showRemaining", ILE_AFTER, 0)>>
      BY <2>1, <2>2 DEF CallbacksAt
    <3>2. ToSet(callbacks[h]) = {Cb("poll_shutdown_hnd", ILE_DONTCARE, 1), Cb("showRemaining", ILE_AFTER, 0)}
      BY <3>1 DEF ToSet
    <3> QED  BY <3>2 DEF Cb
  <2>3. CASE t # 12
    <3>1. callbacks[h] = <<>>
      BY <2>1, <2>3 DEF CallbacksAt
    <3> QED  BY <3>1 DEF ToSet
  <2> QED  BY <2>2, <2>3
<1>2. Add(h, "lua_dispatch", ILE_DONTCARE, "none")
  BY <1>1
<1>3. Registers(t, h, "lua_dispatch", ILE_DONTCARE)
  BY Registrations
<1>4. scripts' \in ScriptsAt(t + 1)
  <2>1. PICK ticks \in {<<>>, <<"ontick">>} : scripts = [g \in Handler |-> ScriptAt(g, t, ticks)]
    BY DEF Data, ScriptsAt
  <2>2. PICK later \in {<<>>, <<"ontick">>} : later = (IF t = 16 THEN <<"ontick">> ELSE ticks)
    OBVIOUS
  <2>3. \A g \in Handler \ {h} : ScriptAt(g, t + 1, later) = ScriptAt(g, t, ticks)
    BY <2>2 DEF ScriptAt
  <2>4. ScriptAt(h, t, ticks) = <<>> /\ ScriptAt(h, t + 1, later) = <<f>>
    BY <2>2 DEF ScriptAt
  <2>5. Append(<<>>, f) = <<f>>
    OBVIOUS
  <2>6. scripts' = [g \in Handler |-> ScriptAt(g, t + 1, later)]
    BY <2>1, <2>3, <2>4, <2>5
  <2> QED  BY <2>6 DEF ScriptsAt
<1>5. "lua_dispatch" \in Functions /\ "none" \in Variables
  BY DEF Functions, Variables
<1>6. Data(t + 1)'
  BY <1>2, <1>3, <1>4, <1>5, RegisteredAt
<1> QED  BY <1>2, <1>6 DEF Add

(* Without its last callback.                                              *)
LEMMA FrontIs ==
    ASSUME NEW a \in CallbackType, NEW b \in CallbackType, NEW c \in CallbackType
    PROVE  Front(<<a>>) = <<>> /\ Front(<<a, b>>) = <<a>> /\ Front(<<a, b, c>>) = <<a, b>>
PROOF
<1>1. /\ <<a>> \in Seq(CallbackType) /\ Len(<<a>>) = 1
      /\ <<a, b>> \in Seq(CallbackType) /\ Len(<<a, b>>) = 2
      /\ <<a, b, c>> \in Seq(CallbackType) /\ Len(<<a, b, c>>) = 3
  OBVIOUS
<1>2. Front(<<a>>) = <<>>
  <2>1. PICK s : s = <<a>>
    OBVIOUS
  <2>2. Front(s) \in Seq(CallbackType) /\ DOMAIN Front(s) = 1..0
    <3>1. s \in Seq(CallbackType) /\ Len(s) = 1 /\ s # <<>>
      BY <1>1, <2>1
    <3> QED  BY <3>1, FrontByIndex
  <2> QED  BY <2>1, <2>2, EmptySeq, LenProperties
<1>3. Front(<<a, b>>) = <<a>>
  <2>1. PICK s : s = <<a, b>>
    OBVIOUS
  <2>2. /\ Front(s) \in Seq(CallbackType) /\ DOMAIN Front(s) = 1..1
        /\ \A i \in 1..1 : Front(s)[i] = s[i]
    <3>1. s \in Seq(CallbackType) /\ Len(s) = 2 /\ s # <<>>
      BY <1>1, <2>1
    <3>2. PICK k : k = Len(s) - 1
      OBVIOUS
    <3>3. /\ Front(s) \in Seq(CallbackType) /\ DOMAIN Front(s) = 1..k
          /\ \A i \in 1..k : Front(s)[i] = s[i]
      BY <3>1, <3>2, FrontByIndex
    <3>4. k = 1
      BY <3>1, <3>2
    <3> QED  BY <3>3, <3>4
  <2>3. Front(s)[1] = a /\ Len(Front(s)) = 1
    BY <2>1, <2>2, LenProperties
  <2> QED  BY <1>1, <2>1, <2>2, <2>3, SeqEqual
<1>4. Front(<<a, b, c>>) = <<a, b>>
  <2>1. PICK s : s = <<a, b, c>>
    OBVIOUS
  <2>2. /\ Front(s) \in Seq(CallbackType) /\ DOMAIN Front(s) = 1..2
        /\ \A i \in 1..2 : Front(s)[i] = s[i]
    <3>1. s \in Seq(CallbackType) /\ Len(s) = 3 /\ s # <<>>
      BY <1>1, <2>1
    <3>2. PICK k : k = Len(s) - 1
      OBVIOUS
    <3>3. /\ Front(s) \in Seq(CallbackType) /\ DOMAIN Front(s) = 1..k
          /\ \A i \in 1..k : Front(s)[i] = s[i]
      BY <3>1, <3>2, FrontByIndex
    <3>4. k = 2
      BY <3>1, <3>2
    <3> QED  BY <3>3, <3>4
  <2>3. Front(s)[1] = a /\ Front(s)[2] = b /\ Len(Front(s)) = 2
    BY <2>1, <2>2, LenProperties
  <2> QED  BY <1>1, <2>1, <2>2, <2>3, SeqEqual
<1> QED  BY <1>2, <1>3, <1>4

(* A callback is taken off, the one with handle 0.                         *)
LEMMA WithdrawnAt ==
    ASSUME NEW t \in {22, 25, 26, 27}, Data(t), NEW h \in Handler, NEW id \in Variables,
           \/ t = 22 /\ h = "poll_timer"
           \/ t = 25 /\ h = "shutdown"
           \/ t = 26 /\ h = "shutdownCallbacks"
           \/ t = 27 /\ h = "shutdownHandlers",
           Withdraw(h, ids[id]), UNCHANGED <<scripts, lua_handlers, context, sdl>>
    PROVE  Data(t + 1)' /\ active' = active
PROOF
<1>1. ids[id] = 0 /\ callbacks[h] = CallbacksAt(h, t)
  BY DEF Data
<1>2. \A f \in Functions, p \in {ILE_DONTCARE, ILE_AFTER}, n \in Nat :
         Cb(f, p, n) \in CallbackType /\ Cb(f, p, n).handle = n
  BY DEF CallbackType, Cb, ILE_AFTER, ILE_DONTCARE
<1>3. PICK last, first, n : /\ last = CallbacksAt(h, t) /\ first = CallbacksAt(h, t + 1)
                            /\ n = Len(last)
  OBVIOUS
<1>4. /\ last \in Seq(CallbackType) /\ n \in 1..3 /\ last # <<>>
      /\ \A i \in 1..n : last[i].handle = 0 <=> i = n
      /\ first = Front(last)
  <2>1. CASE t = 22
    <3>1. last = <<Cb("poll_events", ILE_DONTCARE, 0)>> /\ first = <<>>
      BY <1>3, <2>1 DEF CallbacksAt
    <3>2. Cb("poll_events", ILE_DONTCARE, 0) \in CallbackType /\ Cb("poll_events", ILE_DONTCARE, 0).handle = 0
      BY <1>2 DEF Functions
    <3>3. Front(last) = <<>>
      BY <3>1, <3>2, FrontIs
    <3> QED  BY <1>3, <3>1, <3>2, <3>3
  <2>2. CASE t = 25
    <3> DEFINE a == Cb("quit", ILE_DONTCARE, 1)
               b == Cb("shutdownCallbacks", ILE_AFTER, 0)
    <3>1. last = <<a, b>> /\ first = <<a>>
      BY <1>3, <2>2 DEF CallbacksAt
    <3>2. a \in CallbackType /\ a.handle = 1 /\ b \in CallbackType /\ b.handle = 0
      BY <1>2 DEF Functions
    <3> HIDE DEF a, b
    <3>3. Front(last) = <<a>>
      BY <3>1, <3>2, FrontIs
    <3> QED  BY <1>3, <3>1, <3>2, <3>3
  <2>3. CASE t = 26
    <3> DEFINE a == Cb("poll_shutdown_cb", ILE_DONTCARE, 1)
               b == Cb("shutdownHandlers", ILE_AFTER, 0)
    <3>1. last = <<a, b>> /\ first = <<a>>
      BY <1>3, <2>3 DEF CallbacksAt
    <3>2. a \in CallbackType /\ a.handle = 1 /\ b \in CallbackType /\ b.handle = 0
      BY <1>2 DEF Functions
    <3> HIDE DEF a, b
    <3>3. Front(last) = <<a>>
      BY <3>1, <3>2, FrontIs
    <3> QED  BY <1>3, <3>1, <3>2, <3>3
  <2>4. CASE t = 27
    <3> DEFINE a == Cb("poll_shutdown_hnd", ILE_DONTCARE, 1)
               b == Cb("lua_dispatch", ILE_DONTCARE, 2)
               c == Cb("showRemaining", ILE_AFTER, 0)
    <3>1. last = <<a, b, c>> /\ first = <<a, b>>
      BY <1>3, <2>4 DEF CallbacksAt
    <3>2. /\ a \in CallbackType /\ a.handle = 1 /\ b \in CallbackType /\ b.handle = 2
          /\ c \in CallbackType /\ c.handle = 0
      BY <1>2 DEF Functions
    <3> HIDE DEF a, b, c
    <3>3. Front(last) = <<a, b>>
      BY <3>1, <3>2, FrontIs
    <3> QED  BY <1>3, <3>1, <3>2, <3>3
  <2> QED  BY <2>1, <2>2, <2>3, <2>4
<1>5. /\ callbacks' = [callbacks EXCEPT ![h] = first]
      /\ UNCHANGED <<live, cur_id, persistent, ids, active>>
  BY <1>1, <1>3, <1>4, WithdrawLast
<1>6. callbacks' = [g \in Handler |-> CallbacksAt(g, t + 1)]
  <2>1. \A g \in Handler \ {h} : CallbacksAt(g, t + 1) = CallbacksAt(g, t)
    <3>1. CASE t = 22
      BY <3>1 DEF CallbacksAt, Handler, Timer, Core
    <3>2. CASE t = 25
      BY <3>2 DEF CallbacksAt, Handler, Timer, Core
    <3>3. CASE t = 26
      BY <3>3 DEF CallbacksAt, Handler, Timer, Core
    <3>4. CASE t = 27
      BY <3>4 DEF CallbacksAt, Handler, Timer, Core
    <3> QED  BY <3>1, <3>2, <3>3, <3>4
  <2>2. callbacks = [g \in Handler |-> CallbacksAt(g, t)]
    BY DEF Data
  <2> QED  BY <1>3, <1>5, <2>1, <2>2
<1>7. live' = LiveAt(t + 1) /\ persistent' = live' \cap Timer
  <2>1. \A g \in Handler : Born(g) # t + 1 /\ Dies(g) # t + 1
    <3>1. \A g \in Handler : Born(g) \in {1, 3, 5, 8, 14, 15, 16} /\ Dies(g) \in {20, 21, 24, 25, 29, 30, 31}
      BY DEF Born, Dies, Handler, Timer, Core
    <3> QED  BY <3>1
  <2>2. LiveAt(t + 1) = LiveAt(t)
    BY <2>1, LiveMoves
  <2> QED  BY <1>5, <2>2 DEF Data
<1>8. cur_id' = [g \in Handler |-> CountAt(g, t + 1)] /\ ids' = [v \in Variables |-> 0]
  BY <1>5 DEF Data, CountAt
<1>9. scripts' \in ScriptsAt(t + 1)
  BY ScriptsStay DEF Data
<1>10. sdl' = (7 <= t + 1 /\ t + 1 < 22)
  <2>1. sdl = (7 <= t /\ t < 22) /\ sdl' = sdl
    BY DEF Data
  <2> QED  BY <2>1
<1>11. lua_handlers' = LuaHandlersAt(t + 1) /\ context' = ContextAt(t + 1)
  BY DEF Data, LuaHandlersAt, ContextAt
<1> QED  BY <1>5, <1>6, <1>7, <1>8, <1>9, <1>10, <1>11 DEF Data
-----------------------------------------------------------------------------
(***************************************************************************)
(* Steps that change nothing but the list                                  *)
(***************************************************************************)

\* The thread goes on with s, nothing has been set up or taken down since t
Onward(t, s) == /\ todo' = s /\ Data(t)' /\ Window'
                /\ UNCHANGED <<phase, active, queue, clicks>>

(* Which handlers are live while the loop runs.                            *)
LEMMA LiveIs ==
    ASSUME NEW t \in 19..31, Data(t)
    PROVE  \A h \in Handler : h \in live <=> t < Dies(h)
PROOF
<1>1. \A h \in Handler : Born(h) <= t
  BY TimesAre
<1> QED  BY <1>1 DEF Data, LiveAt

(* The next callback is called, which does one thing.                      *)
LEMMA FireOn ==
    ASSUME NEW t \in 0..31, Data(t), Window, NEW h \in Handler, h \in live, NEW i \in Nat,
           NEW s \in Seq(Steps), todo = Push(Fire(h, i), s), Thread,
           i <= Len(callbacks[h]), Len(callbacks[h]) \in Nat,
           callbacks[h][i].function # Wild,
           NEW op \in Steps, Body(callbacks[h][i].function, h) = <<op>>
    PROVE  Onward(t, Push(op, Push(Fire(h, i + 1), s)))
PROOF
<1>1. /\ UNCHANGED <<phase, clicks, handlers, active, lua, window>> /\ ~crashed'
      /\ todo' = (<<op>> \o <<Fire(h, i + 1)>>) \o s
  <2>1. ~(i > Len(callbacks[h]))
    OBVIOUS
  <2> QED  BY <2>1, FireDoes
<1>2. todo' = Push(op, Push(Fire(h, i + 1), s))
  BY <1>1, PushSome, StepsAre
<1>3. Data(t)'
  BY <1>1, DataStays DEF handlers, lua, window
<1> QED  BY <1>1, <1>2, <1>3 DEF Onward, Window, window

(* After the last callback the loop ends.                                  *)
LEMMA FireEnds ==
    ASSUME NEW t \in 0..31, Data(t), Window, NEW h \in Handler, h \in live, NEW i \in Nat,
           NEW s \in Seq(Steps), todo = Push(Fire(h, i), s), Thread, i > Len(callbacks[h]),
           Len(callbacks[h]) \in Nat
    PROVE  Onward(t, s)
PROOF
<1>1. /\ UNCHANGED <<phase, clicks, handlers, active, lua, window>> /\ ~crashed'
      /\ todo' = <<>> \o s
  <2>1. ~(i <= Len(callbacks[h]))
    OBVIOUS
  <2> QED  BY <2>1, FireDoes
<1>2. todo' = s
  BY <1>1, ConcatEmptySeq
<1>3. Data(t)'
  BY <1>1, DataStays DEF handlers, lua, window
<1> QED  BY <1>1, <1>2, <1>3 DEF Onward, Window, window

(* The only function of a handler is called.                               *)
LEMMA LuaOn ==
    ASSUME NEW t \in 0..31, Data(t), Window, NEW h \in Handler, h \in live,
           NEW s \in Seq(Steps), todo = Push(LuaDispatch(h, 1, 1), s), Thread,
           NEW f, scripts[h] = <<f>>, f # "ontick"
    PROVE  \E r : r = (Body(f, h) \o <<LuaDispatch(h, 2, 1)>>) \o s /\ Onward(t, r)
PROOF
<1>1. Len(scripts[h]) = 1 /\ scripts[h][1] = f
  OBVIOUS
<1>2. /\ UNCHANGED <<phase, clicks, handlers, active, lua_handlers, window>> /\ ~crashed'
      /\ scripts' = scripts
      /\ todo' = (Body(f, h) \o <<LuaDispatch(h, 2, 1)>>) \o s
  <2>1. PICK i \in Nat, n \in Nat : i = 1 /\ n = 1
    OBVIOUS
  <2>2. todo = Push(LuaDispatch(h, i, n), s)
    BY <2>1
  <2>3. /\ UNCHANGED <<phase, clicks, handlers, active, lua_handlers, window>> /\ ~crashed'
        /\ LuaDispatched(h, i, n, s)
    BY <2>2, LuaDispatchDoes
  <2>4. i + 1 = 2 /\ i <= n /\ ~(i > Len(scripts[h])) /\ scripts[h][i] # "ontick"
    BY <1>1, <2>1
  <2> QED  BY <1>1, <2>1, <2>3, <2>4 DEF LuaDispatched
<1>3. Data(t)'
  BY <1>2, DataStays DEF handlers, window
<1> QED  BY <1>2, <1>3 DEF Onward, Window, window

(* After the only one, or when it has been removed, the dispatch ends.     *)
LEMMA LuaEnds ==
    ASSUME NEW t \in 0..31, Data(t), Window, NEW h \in Handler, h \in live,
           NEW n \in Nat, NEW i \in Nat, i = n + 1,
           NEW s \in Seq(Steps), todo = Push(LuaDispatch(h, i, n), s), Thread,
           Len(scripts[h]) \in Nat, i <= Len(scripts[h]) => scripts[h][i] # "ontick"
    PROVE  Onward(t, s)
PROOF
<1>1. /\ UNCHANGED <<phase, clicks, handlers, active, lua_handlers, window>> /\ ~crashed'
      /\ scripts' = scripts /\ todo' = <<>> \o s
  <2>1. /\ UNCHANGED <<phase, clicks, handlers, active, lua_handlers, window>> /\ ~crashed'
        /\ LuaDispatched(h, i, n, s)
    BY LuaDispatchDoes
  <2>2. ~(i <= n) /\ ~(i <= Len(scripts[h]) /\ scripts[h][i] = "ontick")
    OBVIOUS
  <2> QED  BY <2>1, <2>2 DEF LuaDispatched
<1>2. todo' = s
  BY <1>1, ConcatEmptySeq
<1>3. Data(t)'
  BY <1>1, DataStays DEF handlers, window
<1> QED  BY <1>1, <1>2, <1>3 DEF Onward, Window, window

(* The queue of events is as it was.                                       *)
LEMMA QueueStays ==
    ASSUME UNCHANGED <<queue, clicks>>
    PROVE  Spent' = Spent /\ Unspent' = Unspent
BY DEF Spent, Unspent

(* What is done when the list is empty.                                    *)
LEMMA IdleDoes ==
    ASSUME todo = <<>>, Thread, NEW t \in 0..31, Data(t), Window
    PROVE  /\ Data(t)' /\ Window' /\ UNCHANGED <<queue, clicks>>
           /\ \/ phase = "start" /\ phase' = "loop" /\ todo' = <<>> /\ active' = active
              \/ /\ phase = "loop" /\ phase' = "loop" /\ active # <<>>
                 /\ todo' = <<Fire(Head(active), 1)>> /\ active' = Tail(active)
              \/ /\ phase = "loop" /\ phase' = "loop" /\ active = <<>> /\ todo' = <<>>
                 /\ \E timers \in SUBSET (live \cap Timer) : timers # {} /\ active' \in SetToSeqs(timers)
              \/ /\ phase = "loop" /\ phase' = "quit" /\ active = <<>> /\ active' = active
                 /\ live \cap Timer = {} /\ todo' = IleQuit
              \/ phase = "quit" /\ phase' = "exit" /\ todo' = <<>> /\ active' = active
PROOF
<1>1. \A do, steps : ~Do(do, steps)
  BY DEF Do
<1>2. ~DoNew /\ ~DoRegister /\ ~DoUnregister /\ ~DoDestroy /\ ~DoFire /\ ~DoFireAsync /\ ~DoDumpAll
  BY <1>1 DEF DoNew, DoRegister, DoUnregister, DoDestroy, DoFire, DoFireAsync, DoDumpAll
<1>3. ~LuaCreates /\ ~LuaRegisters /\ ~LuaDispatches /\ ~LuaFails /\ ~LuaDestroys
  BY <1>1 DEF LuaCreates, LuaRegisters, LuaDispatches, LuaFails, LuaDestroys
<1>4. ~ContextNew /\ ~ContextUse /\ ~ContextFree /\ ~SDLInit /\ ~SDLQuit /\ ~PollEvents
  BY <1>1 DEF ContextNew, ContextUse, ContextFree, SDLInit, SDLQuit, PollEvents
<1>5. \/ StartLoop \/ RunActive \/ LoopReturns \/ Exit
      \/ \E timers \in SUBSET (live \cap Timer) : Due(timers)
  BY <1>2, <1>3, <1>4 DEF Thread
<1>6. /\ UNCHANGED <<handlers, lua, window, clicks, crashed>>
      /\ \/ phase = "start" /\ phase' = "loop" /\ todo' = <<>> /\ active' = active
         \/ /\ phase = "loop" /\ phase' = "loop" /\ active # <<>>
            /\ todo' = <<Fire(Head(active), 1)>> /\ active' = Tail(active)
         \/ /\ phase = "loop" /\ phase' = "loop" /\ active = <<>> /\ todo' = <<>>
            /\ \E timers \in SUBSET (live \cap Timer) : timers # {} /\ active' \in SetToSeqs(timers)
         \/ /\ phase = "loop" /\ phase' = "quit" /\ active = <<>> /\ active' = active
            /\ live \cap Timer = {} /\ todo' = IleQuit
         \/ phase = "quit" /\ phase' = "exit" /\ todo' = <<>> /\ active' = active
  <2>1. CASE StartLoop
    BY <2>1 DEF StartLoop, Goto
  <2>2. CASE RunActive
    BY <2>2 DEF RunActive, Goto
  <2>3. CASE LoopReturns
    BY <2>3 DEF LoopReturns, Goto
  <2>4. CASE Exit
    BY <2>4 DEF Exit, Goto
  <2>5. CASE \E timers \in SUBSET (live \cap Timer) : Due(timers)
    <3>1. PICK timers \in SUBSET (live \cap Timer) : Due(timers)
      BY <2>5
    <3> QED  BY <3>1 DEF Due, Goto
  <2> QED  BY <1>5, <2>1, <2>2, <2>3, <2>4, <2>5
<1>7. Data(t)'
  BY <1>6, DataStays DEF handlers, lua, window
<1>8. Window' /\ UNCHANGED <<queue, clicks>>
  BY <1>6 DEF Window, window
<1> QED  BY <1>6, <1>7, <1>8
-----------------------------------------------------------------------------
(***************************************************************************)
(* From one situation to the next                                          *)
(***************************************************************************)

(* Where the next moment is described, the invariant holds.                *)
LEMMA Described ==
    ASSUME NEW t \in 0..31, Window', Data(t)', Situation(t)'
    PROVE  ShutdownInv'
BY DEF ShutdownInv

(* The steps at the start that create a handler.                           *)
LEMMA Creations ==
    ASSUME NEW t \in {0, 2, 4, 7, 14, 15}
    PROVE  \E h \in Handler : /\ Born(h) = t + 1
                              /\ t < 14 => Opening[t + 1] = New(h)
                              /\ t >= 14 => Opening[t + 1] = LuaNew(h)
                              /\ t >= 14 => h = (IF t = 14 THEN "tick" ELSE "on_after_close")
PROOF
<1> USE DEF Handler, Timer, Core, Born
<1>1. CASE t = 0
  BY <1>1, OpeningIs
<1>2. CASE t = 2
  BY <1>2, OpeningIs
<1>3. CASE t = 4
  BY <1>3, OpeningIs
<1>4. CASE t = 7
  BY <1>4, OpeningIs
<1>5. CASE t = 14
  BY <1>5, OpeningIs
<1>6. CASE t = 15
  BY <1>6, OpeningIs
<1> QED  BY <1>1, <1>2, <1>3, <1>4, <1>5, <1>6

(* The callbacks that the modules register.                                *)
LEMMA ModuleCallbacks ==
    ASSUME NEW t \in {1, 3, 5, 8, 9, 10, 11}
    PROVE  \E h \in Handler, f \in Functions, p \in {ILE_DONTCARE, ILE_AFTER}, id \in Variables :
              /\ Opening[t + 1] = Register(h, f, p, id) /\ Registers(t, h, f, p)
              /\ h \in LiveAt(t) /\ (id = "none" \/ CountAt(h, t) = 0)
PROOF
<1> USE DEF Handler, Timer, Core, Functions, Variables
<1>1. \A h \in Handler : Born(h) <= t => h \in LiveAt(t)
  BY TimesAre DEF LiveAt
<1>2. CASE t = 1
  <2>1. Opening[t + 1] = Register("shutdown", "shutdownCallbacks", ILE_AFTER, "shutdownCallbacks")
    BY <1>2, OpeningIs
  <2>2. Registers(t, "shutdown", "shutdownCallbacks", ILE_AFTER)
    BY <1>2, Registrations
  <2>3. CountAt("shutdown", t) = 0 /\ "shutdown" \in LiveAt(t)
    BY <1>1, <1>2 DEF CountAt, CallbacksAt, Born
  <2> QED  BY <2>1, <2>2, <2>3
<1>3. CASE t = 3
  <2>1. Opening[t + 1] = Register("shutdownCallbacks", "shutdownHandlers", ILE_AFTER, "shutdownCallbacks")
    BY <1>3, OpeningIs
  <2>2. Registers(t, "shutdownCallbacks", "shutdownHandlers", ILE_AFTER)
    BY <1>3, Registrations
  <2>3. CountAt("shutdownCallbacks", t) = 0 /\ "shutdownCallbacks" \in LiveAt(t)
    BY <1>1, <1>3 DEF CountAt, CallbacksAt, Born
  <2> QED  BY <2>1, <2>2, <2>3
<1>4. CASE t = 5
  <2>1. Opening[t + 1] = Register("shutdownHandlers", "showRemaining", ILE_AFTER, "showRemaining")
    BY <1>4, OpeningIs
  <2>2. Registers(t, "shutdownHandlers", "showRemaining", ILE_AFTER)
    BY <1>4, Registrations
  <2>3. CountAt("shutdownHandlers", t) = 0 /\ "shutdownHandlers" \in LiveAt(t)
    BY <1>1, <1>4 DEF CountAt, CallbacksAt, Born
  <2> QED  BY <2>1, <2>2, <2>3
<1>5. CASE t = 8
  <2>1. Opening[t + 1] = Register("poll_timer", "poll_events", ILE_DONTCARE, "poll")
    BY <1>5, OpeningIs
  <2>2. Registers(t, "poll_timer", "poll_events", ILE_DONTCARE)
    BY <1>5, Registrations
  <2>3. CountAt("poll_timer", t) = 0 /\ "poll_timer" \in LiveAt(t)
    BY <1>1, <1>5 DEF CountAt, CallbacksAt, Born
  <2> QED  BY <2>1, <2>2, <2>3
<1>6. CASE t = 9
  <2>1. Opening[t + 1] = Register("shutdownCallbacks", "poll_shutdown_cb", ILE_DONTCARE, "none")
    BY <1>6, OpeningIs
  <2>2. Registers(t, "shutdownCallbacks", "poll_shutdown_cb", ILE_DONTCARE)
    BY <1>6, Registrations
  <2>3. "shutdownCallbacks" \in LiveAt(t)
    BY <1>1, <1>6 DEF Born
  <2> QED  BY <2>1, <2>2, <2>3
<1>7. CASE t = 10
  <2>1. Opening[t + 1] = Register("shutdownHandlers", "poll_shutdown_hnd", ILE_DONTCARE, "none")
    BY <1>7, OpeningIs
  <2>2. Registers(t, "shutdownHandlers", "poll_shutdown_hnd", ILE_DONTCARE)
    BY <1>7, Registrations
  <2>3. "shutdownHandlers" \in LiveAt(t)
    BY <1>1, <1>7 DEF Born
  <2> QED  BY <2>1, <2>2, <2>3
<1>8. CASE t = 11
  <2>1. Opening[t + 1] = Register("shutdown", "quit", ILE_DONTCARE, "none")
    BY <1>8, OpeningIs
  <2>2. Registers(t, "shutdown", "quit", ILE_DONTCARE)
    BY <1>8, Registrations
  <2>3. "shutdown" \in LiveAt(t)
    BY <1>1, <1>8 DEF Born
  <2> QED  BY <2>1, <2>2, <2>3
<1> HIDE DEF Handler, Timer, Core, Functions, Variables
<1> QED  BY ZenonT(30), <1>2, <1>3, <1>4, <1>5, <1>6, <1>7, <1>8

(* The functions that the scripts register.                                *)
LEMMA ScriptCallbacks ==
    ASSUME NEW t \in {12, 16, 17, 18}
    PROVE  \E h \in Handler, f \in Functions :
              /\ Opening[t + 1] = LuaRegister(h, f) /\ h \in LiveAt(t)
              /\ \/ t = 12 /\ h = "shutdownHandlers" /\ f = "destroy_lua_handlers"
                 \/ t = 16 /\ h = "tick" /\ f = "ontick"
                 \/ t = 17 /\ h = "close" /\ f = "close"
                 \/ t = 18 /\ h = "on_after_close" /\ f = "after_close"
PROOF
<1> USE DEF Handler, Timer, Core, Functions
<1>1. \A h \in Handler : Born(h) <= t => h \in LiveAt(t)
  BY TimesAre DEF LiveAt
<1>2. CASE t = 12
  BY <1>1, <1>2, OpeningIs DEF Born
<1>3. CASE t = 16
  BY <1>1, <1>3, OpeningIs DEF Born
<1>4. CASE t = 17
  BY <1>1, <1>4, OpeningIs DEF Born
<1>5. CASE t = 18
  BY <1>1, <1>5, OpeningIs DEF Born
<1> QED  BY <1>2, <1>3, <1>4, <1>5

(* What is appended to one element comes second.                           *)
LEMMA AppendToOne ==
    ASSUME NEW a \in Handler, NEW b \in Handler
    PROVE  Append(<<a>>, b) = <<a, b>>
PROOF
<1>1. PICK s : s = <<a>>
  OBVIOUS
<1>2. s \in Seq(Handler) /\ Len(s) = 1 /\ s[1] = a
  BY <1>1
<1>3. /\ Append(s, b) \in Seq(Handler) /\ Len(Append(s, b)) = 2
      /\ Append(s, b)[1] = a /\ Append(s, b)[2] = b
  <2>1. PICK n : n = Len(s)
    OBVIOUS
  <2>2. /\ Append(s, b) \in Seq(Handler) /\ DOMAIN Append(s, b) = 1..(n + 1)
        /\ \A i \in 1..n : Append(s, b)[i] = s[i]
        /\ Append(s, b)[n + 1] = b
    BY <1>2, <2>1, SetOfAppend
  <2>3. n = 1 /\ n + 1 = 2
    BY <1>2, <2>1
  <2>4. DOMAIN Append(s, b) = 1..2
    BY <2>2, <2>3
  <2>5. Len(Append(s, b)) = 2
    BY <2>2, <2>4, LenProperties
  <2> QED  BY <1>2, <2>2, <2>3, <2>5
<1>4. <<a, b>> \in Seq(Handler) /\ Len(<<a, b>>) = 2 /\ <<a, b>>[1] = a /\ <<a, b>>[2] = b
  OBVIOUS
<1>5. PICK u, v : u = Append(s, b) /\ v = <<a, b>>
  OBVIOUS
<1>6. \A i \in 1..2 : u[i] = v[i]
  BY <1>3, <1>4, <1>5
<1>7. u = v
  BY <1>3, <1>4, <1>5, <1>6, SeqEqual
<1> QED  BY <1>1, <1>5, <1>7

(* While the program starts.                                               *)
LEMMA StartingStep ==
    ASSUME NEW t \in 0..31, Window, Data(t), Starting(t), Thread
    PROVE  ShutdownInv'
PROOF
<1>1. t \in 0..19 /\ phase = "start" /\ active = <<>> /\ Unspent /\ (t < 14 => queue = <<>>)
      /\ todo = SubSeq(Opening, t + 1, 19)
  BY DEF Starting
<1>2. Len(Opening) = 19 /\ Opening \in Seq(Steps)
  BY OpeningIs
<1>3. CASE t = 19
  <2>1. todo = <<>>
    BY <1>1, <1>2, <1>3, RestIs
  <2>2. /\ Data(t)' /\ Window' /\ UNCHANGED <<queue, clicks>>
        /\ phase' = "loop" /\ todo' = <<>> /\ active' = <<>>
    BY <1>1, <2>1, IdleDoes
  <2>3. active' \in Seq(Timer) /\ PollOnce' /\ Unspent'
    BY <1>1, <2>2, QueueStays DEF PollOnce
  <2>4. Open(t)'
    BY <1>3, <2>2, <2>3 DEF Open
  <2> QED  BY <2>2, <2>4, Described DEF Situation
<1>4. CASE t # 19
  <2> DEFINE op == Opening[t + 1]
             rest == SubSeq(Opening, t + 2, 19)
  <2>1. /\ op \in Steps /\ todo = Push(op, rest) /\ rest \in Seq(Steps)
        /\ rest = SubSeq(Opening, (t + 1) + 1, 19)
    <3>1. t + 1 \in 1..(19 + 1) /\ t + 2 \in 1..(19 + 1) /\ t + 1 <= 19 /\ (t + 1) + 1 = t + 2
      BY <1>1, <1>4
    <3> QED  BY <1>1, <1>2, <3>1, RestIs
  <2>2. op.do \notin {"fire", "lua_dispatch", "sdl.poll"} /\ Valid(op)
        /\ Data(t + 1)' /\ UNCHANGED <<queue, active>>
    <3>1. live = LiveAt(t)
      BY DEF Data
    <3>2. CASE t \in {0, 2, 4, 7}
      <4>1. PICK h \in Handler : Born(h) = t + 1 /\ op = New(h)
        BY <3>2, Creations
      <4>2. op.do = "new" /\ op.on = h /\ Valid(op)
        BY <4>1 DEF New, Valid
      <4>3. Create(h) /\ UNCHANGED <<scripts, lua_handlers, context, sdl, queue>>
        BY <2>1, <4>2, StepDoes
      <4>4. lua_handlers' = LuaHandlersAt(t + 1) /\ context' = ContextAt(t + 1)
        BY <3>2, <4>3 DEF Data, LuaHandlersAt, ContextAt
      <4>5. Data(t + 1)'
        BY <3>2, <4>1, <4>3, <4>4, BornAt
      <4> QED  BY <4>2, <4>3, <4>5 DEF Create
    <3>3. CASE t \in {1, 3, 5, 8, 9, 10, 11}
      <4>1. PICK h \in Handler, f \in Functions, p \in {ILE_DONTCARE, ILE_AFTER}, id \in Variables :
               /\ op = Register(h, f, p, id) /\ Registers(t, h, f, p)
               /\ h \in LiveAt(t) /\ (id = "none" \/ CountAt(h, t) = 0)
        BY <3>3, ModuleCallbacks
      <4>2. /\ op.do = "register" /\ op.on = h /\ op.function = f /\ op.priority = p /\ op.id = id
            /\ Valid(op)
        BY <3>1, <4>1 DEF Register, Valid
      <4>3. Add(h, f, p, id) /\ UNCHANGED <<scripts, lua_handlers, context, sdl, queue>>
        BY <2>1, <4>2, StepDoes
      <4>4. scripts' \in ScriptsAt(t + 1)
        BY <3>3, <4>3, ScriptsStay DEF Data
      <4>5. Data(t + 1)'
        BY <3>3, <4>1, <4>3, <4>4, RegisteredAt
      <4> QED  BY <4>2, <4>3, <4>5 DEF Add
    <3>4. CASE t = 6
      <4>1. op.do = "sdl.init" /\ Valid(op)
        <5>1. op = SDL("sdl.init")
          BY <3>4, OpeningIs
        <5>2. "sdl" \notin Handler => Valid(op)
          BY <5>1 DEF SDL, Valid
        <5> QED  BY <5>1, <5>2 DEF SDL, Handler, Timer, Core
      <4>2. sdl' = TRUE /\ UNCHANGED <<handlers, active, lua, context, queue>>
        BY <2>1, <4>1, StepDoes
      <4>3. Data(t + 1)'
        BY <3>4, <4>2, SDLAt DEF handlers, lua
      <4> QED  BY <4>1, <4>2, <4>3
    <3>5. CASE t \in {12, 16, 17, 18}
      <4>1. PICK h \in Handler, f \in Functions :
               /\ op = LuaRegister(h, f) /\ h \in LiveAt(t)
               /\ \/ t = 12 /\ h = "shutdownHandlers" /\ f = "destroy_lua_handlers"
                  \/ t = 16 /\ h = "tick" /\ f = "ontick"
                  \/ t = 17 /\ h = "close" /\ f = "close"
                  \/ t = 18 /\ h = "on_after_close" /\ f = "after_close"
        BY <3>5, ScriptCallbacks
      <4>2. op.do = "event.register" /\ op.on = h /\ op.function = f /\ Valid(op)
        BY <3>1, <4>1 DEF LuaRegister, Valid
      <4>3. /\ IF \A c \in ToSet(callbacks[op.on]) : c.function # "lua_dispatch"
               THEN Add(op.on, "lua_dispatch", ILE_DONTCARE, "none")
               ELSE UNCHANGED <<handlers, active>>
            /\ scripts' = [scripts EXCEPT ![op.on] = Append(@, op.function)]
            /\ UNCHANGED <<lua_handlers, context, sdl, queue>>
        BY <2>1, <4>2, StepDoes
      <4>4. Data(t + 1)' /\ active' = active
        BY <3>5, <4>1, <4>2, <4>3, LuaRegisteredAt
      <4> QED  BY <4>2, <4>3, <4>4
    <3>6. CASE t = 13
      <4>1. op.do = "context.new" /\ Valid(op)
        <5>1. op = Context("context.new")
          BY <3>6, OpeningIs
        <5>2. "context" \notin Handler => Valid(op)
          BY <5>1 DEF Context, Valid
        <5> QED  BY <5>1, <5>2 DEF Context, Handler, Timer, Core
      <4>2. Create("close") /\ context' = "live" /\ UNCHANGED <<scripts, lua_handlers, sdl, queue>>
        BY <2>1, <4>1, StepDoes
      <4>3. lua_handlers' = LuaHandlersAt(t + 1) /\ context' = ContextAt(t + 1)
        BY <3>6, <4>2 DEF Data, LuaHandlersAt, ContextAt
      <4>4. "close" \in Handler /\ Born("close") = t + 1
        BY <3>6 DEF Handler, Born
      <4>5. Data(t + 1)'
        BY <3>6, <4>2, <4>3, <4>4, BornAt
      <4> QED  BY <4>1, <4>2, <4>5 DEF Create
    <3>7. CASE t \in {14, 15}
      <4>1. PICK h \in Handler : /\ Born(h) = t + 1 /\ op = LuaNew(h)
                                 /\ h = (IF t = 14 THEN "tick" ELSE "on_after_close")
        BY <3>7, Creations
      <4>2. op.do = "event.create" /\ op.on = h /\ Valid(op)
        BY <4>1 DEF LuaNew, Valid
      <4>3. /\ Create(h) /\ lua_handlers' = Append(lua_handlers, h)
            /\ UNCHANGED <<scripts, context, sdl, queue>>
        BY <2>1, <4>2, StepDoes
      <4>4. lua_handlers' = LuaHandlersAt(t + 1)
        <5>1. lua_handlers = LuaHandlersAt(t)
          BY DEF Data
        <5>2. CASE t = 14
          BY <4>1, <4>3, <5>1, <5>2 DEF LuaHandlersAt
        <5>3. CASE t = 15
          <6>1. lua_handlers = <<"tick">> /\ LuaHandlersAt(t + 1) = <<"tick", "on_after_close">>
            BY <5>1, <5>3 DEF LuaHandlersAt
          <6>2. h = "on_after_close"
            BY <4>1, <5>3
          <6>3. Append(<<"tick">>, h) = <<"tick", h>>
            BY AppendToOne DEF Handler, Timer
          <6> QED  BY <4>3, <6>1, <6>2, <6>3
        <5> QED  BY <3>7, <5>2, <5>3
      <4>5. context' = ContextAt(t + 1)
        BY <3>7, <4>3 DEF Data, ContextAt
      <4>6. Data(t + 1)'
        BY <3>7, <4>1, <4>3, <4>4, <4>5, BornAt
      <4> QED  BY <4>2, <4>3, <4>6 DEF Create
    <3>8. \/ t \in {0, 2, 4, 7} \/ t \in {1, 3, 5, 8, 9, 10, 11} \/ t = 6
          \/ t \in {12, 16, 17, 18} \/ t = 13 \/ t \in {14, 15}
      BY <1>1, <1>4
    <3> HIDE DEF op, rest
    <3> QED  BY <3>2, <3>3, <3>4, <3>5, <3>6, <3>7, <3>8
  <2> HIDE DEF op, rest
  <2>3. todo' = rest /\ ~crashed' /\ UNCHANGED <<phase, clicks>>
    BY <2>1, <2>2, StepDoes
  <2>4. t + 1 \in 0..19 /\ (t + 1 < 14 => queue' = <<>>)
    BY <1>1, <1>4, <2>2
  <2>5. Unspent' /\ Window'
    BY <1>1, <2>2, <2>3, QueueStays DEF Window
  <2>6. Starting(t + 1)'
    BY <1>1, <2>1, <2>2, <2>3, <2>4, <2>5 DEF Starting
  <2>7. t + 1 \in 0..31
    BY <2>4
  <2> QED  BY <2>2, <2>5, <2>6, <2>7, Described DEF Situation
<1> QED  BY <1>3, <1>4

(* Where the poll takes an event from the queue, one that closes the       *)
(* window is the only one.                                                 *)
LEMMA QueueTail ==
    ASSUME Window, queue # <<>>, queue' = Tail(queue), clicks' = clicks
    PROVE  /\ Unspent => Unspent'
           /\ Unspent /\ Head(queue) = "close" => Spent'
           /\ Spent => Spent' /\ Head(queue) # "close"
           /\ queue' \in Seq({"resized", "close"})
PROOF
<1>1. PICK n : n = Len(queue)
  OBVIOUS
<1>2. /\ n \in Nat /\ n >= 1 /\ DOMAIN queue = 1..n
      /\ queue' \in Seq({"resized", "close"}) /\ DOMAIN queue' = 1..(n - 1)
      /\ \A i \in 1..(n - 1) : queue'[i] = queue[i + 1]
      /\ Head(queue) = queue[1]
  BY <1>1, TailByIndex DEF Window
<1>3. ASSUME Unspent PROVE Unspent'
  <2>1. ASSUME NEW i \in 1..(n - 1), queue'[i] = "close" PROVE clicks'["close"] = 0
    BY <1>2, <1>3, <2>1 DEF Unspent
  <2>2. ASSUME NEW i \in 1..(n - 1), queue'[i] = "close", NEW j \in 1..(n - 1), queue'[j] = "close"
        PROVE  j = i
    <3>1. i + 1 \in 1..n /\ j + 1 \in 1..n /\ queue[i + 1] = "close" /\ queue[j + 1] = "close"
      BY <1>2, <2>2
    <3>2. j + 1 = i + 1
      BY <1>2, <1>3, <3>1 DEF Unspent
    <3> QED  BY <3>2
  <2>3. clicks'["close"] <= 1
    BY <1>3 DEF Unspent
  <2> QED  BY <1>2, <2>1, <2>2, <2>3 DEF Unspent
<1>4. ASSUME Unspent, Head(queue) = "close" PROVE Spent'
  <2>1. clicks'["close"] = 0
    BY <1>2, <1>4 DEF Unspent
  <2>2. ASSUME NEW i \in 1..(n - 1), queue'[i] = "close" PROVE FALSE
    <3>1. i + 1 \in 1..n /\ 1 \in 1..n /\ queue[i + 1] = "close" /\ queue[1] = "close"
      BY <1>2, <1>4, <2>2
    <3>2. i + 1 = 1
      BY <1>2, <1>4, <3>1 DEF Unspent
    <3> QED  BY <3>2
  <2> QED  BY <1>2, <2>1, <2>2 DEF Spent
<1>5. ASSUME Spent PROVE Spent' /\ Head(queue) # "close"
  <2>1. \A i \in 1..(n - 1) : queue'[i] # "close"
    <3>1. \A i \in 1..(n - 1) : i + 1 \in 1..n
      BY <1>2
    <3> QED  BY <1>2, <1>5, <3>1 DEF Spent
  <2> QED  BY <1>2, <1>5, <2>1 DEF Spent
<1> QED  BY <1>2, <1>3, <1>4, <1>5

(* The poll of SDL's events, which ends with the queue empty or comes to   *)
(* the event that closes the window.                                       *)
LEMMA PollStep ==
    ASSUME NEW t \in 0..31, t = 19, Data(t), Window, todo \in PollStacks, Thread
    PROVE  /\ Data(t)' /\ Window' /\ UNCHANGED <<phase, active, clicks>>
           /\ \/ /\ todo' \in {<<>>} \cup PollStacks
                 /\ Unspent => Unspent'
                 /\ Spent => Spent'
              \/ /\ todo' = Push(Fire("close", 1), Polling)
                 /\ Unspent => Spent'
                 /\ ~Spent
PROOF
<1>1. /\ "poll_timer" \in Handler /\ "poll_timer" \in live
      /\ Len(callbacks["poll_timer"]) = 1 /\ callbacks["poll_timer"][1].function = "poll_events"
  <2>1. t \in 19..25 /\ t \in 19..31 /\ t < 23
    OBVIOUS
  <2>2. "poll_timer" \in Handler /\ t < Dies("poll_timer")
    BY DEF Handler, Timer, Dies
  <2> QED  BY <2>1, <2>2, Called, LiveIs
<1>2. context = "live"
  BY DEF Data, ContextAt
<1>3. ASSUME NEW s, Onward(t, s), s \in {<<>>} \cup PollStacks
      PROVE  /\ Data(t)' /\ Window' /\ UNCHANGED <<phase, active, clicks>>
             /\ todo' \in {<<>>} \cup PollStacks
             /\ Unspent => Unspent'
             /\ Spent => Spent'
  BY <1>3, QueueStays DEF Onward
<1>4. CASE todo = Push(Fire("poll_timer", 1), <<>>)
  <2>1. Body("poll_events", "poll_timer") = <<SDL("sdl.poll")>> /\ SDL("sdl.poll") \in Steps
    BY <1>1, BodyOf, StepsAre
  <2>2. "poll_events" # Wild /\ 1 \in Nat /\ 1 <= Len(callbacks["poll_timer"]) /\ <<>> \in Seq(Steps)
    BY <1>1, ShutdownAssumption
  <2>3. Onward(t, Push(SDL("sdl.poll"), Push(Fire("poll_timer", 1 + 1), <<>>)))
    BY <1>1, <1>4, <2>1, <2>2, FireOn
  <2>4. Onward(t, Polling)
    BY <2>3 DEF Polling, Polled
  <2> QED  BY <1>3, <2>4 DEF PollStacks
<1>5. CASE todo = Polled
  <2>1. /\ todo = Push(Fire("poll_timer", 2), <<>>) /\ <<>> \in Seq(Steps)
        /\ 2 \in Nat /\ 2 > Len(callbacks["poll_timer"]) /\ Len(callbacks["poll_timer"]) \in Nat
    BY <1>1, <1>5 DEF Polled
  <2>2. Onward(t, <<>>)
    BY <1>1, <2>1, FireEnds
  <2> QED  BY <1>3, <2>2
<1>6. CASE todo = Polling
  <2>1. /\ UNCHANGED <<phase, clicks, handlers, active, lua, context, sdl>> /\ ~crashed'
        /\ queue = <<>> => queue' = <<>> /\ todo' = Polled
        /\ queue # <<>> =>
              /\ queue' = Tail(queue)
              /\ Head(queue) = "close" => todo' = Push(Fire("close", 1), Polling)
              /\ Head(queue) # "close" => todo' = Polling
    BY <1>2, <1>6, PollDoes, StacksAre DEF Polling
  <2>2. Data(t)'
    BY <2>1, DataStays DEF handlers, lua
  <2>3. Window'
    BY <2>1, QueueTail DEF Window
  <2>4. CASE queue = <<>>
    BY <2>1, <2>2, <2>3, <2>4, QueueStays DEF PollStacks
  <2>5. CASE queue # <<>> /\ Head(queue) = "close"
    BY <2>1, <2>2, <2>3, <2>5, QueueTail
  <2>6. CASE queue # <<>> /\ Head(queue) # "close"
    BY <2>1, <2>2, <2>3, <2>6, QueueTail DEF PollStacks
  <2> QED  BY <2>4, <2>5, <2>6
<1> QED  BY <1>4, <1>5, <1>6 DEF PollStacks

(* The tick of the scripts, whether ontick fails or not.                   *)
LEMMA TickStep ==
    ASSUME NEW t \in 0..31, t = 19, Data(t), Window, todo \in TickStacks, Thread
    PROVE  /\ Data(t)' /\ Window' /\ UNCHANGED <<phase, active, queue, clicks>>
           /\ todo' \in ({<<>>} \cup TickStacks)'
PROOF
<1>1. /\ "tick" \in Handler /\ "tick" \in live
      /\ Len(callbacks["tick"]) = 1 /\ callbacks["tick"][1].function = "lua_dispatch"
      /\ scripts["tick"] = <<>> \/ scripts["tick"] = <<"ontick">>
  <2>1. t \in 19..25 /\ t \in 19..31
    OBVIOUS
  <2>2. "tick" \in Handler /\ t < Dies("tick")
    BY DEF Handler, Timer, Dies
  <2> QED  BY <2>1, <2>2, Called, CalledInLua, LiveIs
<1>2. PICK n \in Nat : /\ n = Len(scripts["tick"])
                       /\ \/ n = 0 /\ scripts["tick"] = <<>>
                          \/ n = 1 /\ scripts["tick"] = <<"ontick">>
  <2>1. scripts["tick"] = <<>> => Len(scripts["tick"]) = 0
    OBVIOUS
  <2>2. scripts["tick"] = <<"ontick">> => Len(scripts["tick"]) = 1
    OBVIOUS
  <2> QED  BY <1>1, <2>1, <2>2
<1>3. /\ Ticked \in Seq(Steps) /\ <<>> \in Seq(Steps)
      /\ LuaDispatch("tick", 2, 1) \in Steps /\ LuaDispatch("tick", 1, n) \in Steps
      /\ Context("context.use") \in Steps
  BY <1>1, StacksAre, StepsAre
<1>4. /\ {Ticked, Push(LuaDispatch("tick", 2, 1), Ticked),
          Push(Context("context.use"), Push(LuaDispatch("tick", 2, 1), Ticked))} \subseteq TickStacks'
      /\ scripts' = scripts => Push(LuaDispatch("tick", 1, n), Ticked) \in TickStacks'
  BY <1>2 DEF TickStacks
<1>5. CASE todo = Push(Fire("tick", 1), <<>>)
  <2>1. Body("lua_dispatch", "tick") = <<LuaDispatch("tick", 1, n)>>
    BY <1>1, <1>2, BodyOf
  <2>2. "lua_dispatch" # Wild /\ 1 \in Nat /\ 1 <= Len(callbacks["tick"]) /\ Len(callbacks["tick"]) \in Nat
    BY <1>1, ShutdownAssumption
  <2>3. /\ UNCHANGED <<phase, clicks, handlers, active, lua, window>>
        /\ Onward(t, Push(LuaDispatch("tick", 1, n), Push(Fire("tick", 1 + 1), <<>>)))
    <3>1. callbacks["tick"][1].function # Wild
      BY <1>1, <2>2
    <3>2. UNCHANGED <<phase, clicks, handlers, active, lua, window>>
      BY <1>1, <1>3, <1>5, <2>2, <3>1, FireDoes
    <3>3. Onward(t, Push(LuaDispatch("tick", 1, n), Push(Fire("tick", 1 + 1), <<>>)))
      BY <1>1, <1>3, <1>5, <2>1, <2>2, <3>1, FireOn
    <3> QED  BY <3>2, <3>3
  <2>4. Onward(t, Push(LuaDispatch("tick", 1, n), Ticked)) /\ scripts' = scripts
    BY <2>3 DEF Ticked, lua
  <2> QED  BY <1>4, <2>4 DEF Onward
<1>6. CASE todo = Push(LuaDispatch("tick", 1, n), Ticked)
  <2>1. PICK i \in Nat : i = 1
    OBVIOUS
  <2>2. /\ UNCHANGED <<phase, clicks, handlers, active, lua_handlers, window>> /\ ~crashed'
        /\ LuaDispatched("tick", i, n, Ticked)
    <3>1. todo = Push(LuaDispatch("tick", i, n), Ticked)
      BY <1>6, <2>1
    <3> QED  BY <1>1, <1>3, <3>1, LuaDispatchDoes
  <2>3. Window'
    BY <2>2 DEF Window, window
  <2>4. CASE n = 0
    <3>1. scripts' = scripts /\ todo' = Ticked
      <4>1. i > n /\ ~(i <= n) /\ ~(i <= Len(scripts["tick"]))
        BY <1>2, <2>1, <2>4
      <4> QED  BY <1>3, <2>2, <4>1, ConcatEmptySeq DEF LuaDispatched
    <3>2. Data(t)'
      BY <2>2, <3>1, DataStays DEF handlers, window
    <3> QED  BY <1>4, <2>2, <2>3, <3>1, <3>2 DEF window
  <2>5. CASE n = 1 /\ scripts' = scripts
    <3>1. scripts["tick"] = <<"ontick">> /\ scripts["tick"][i] = "ontick" /\ i + 1 = 2
      BY <1>1, <1>2, <2>1, <2>5
    <3>2. \/ todo' = (<<Context("context.use")>> \o <<LuaDispatch("tick", 2, 1)>>) \o Ticked
          \/ todo' = <<LuaDispatch("tick", 2, 1)>> \o Ticked
      <4>1. Body(scripts["tick"][i], "tick") = <<Context("context.use")>>
        BY <1>1, <3>1, BodyOf
      <4>2. ~(i > n) /\ ~(i > Len(scripts["tick"]))
        BY <1>2, <2>1, <2>5
      <4> QED  BY <2>2, <2>5, <3>1, <4>1, <4>2 DEF LuaDispatched
    <3>3. todo' \in {Push(LuaDispatch("tick", 2, 1), Ticked),
                     Push(Context("context.use"), Push(LuaDispatch("tick", 2, 1), Ticked))}
      BY <1>3, <3>2, PushSome
    <3>4. Data(t)'
      BY <2>2, <2>5, DataStays DEF handlers, window
    <3> QED  BY <1>4, <2>2, <2>3, <3>3, <3>4 DEF window
  <2>6. CASE n = 1 /\ scripts' # scripts
    <3>1. scripts["tick"] = <<"ontick">> /\ i + 1 = 2
      BY <1>1, <1>2, <2>1, <2>6
    <3>2. /\ todo' = <<LuaDispatch("tick", 2, 1)>> \o Ticked
          /\ scripts' = [scripts EXCEPT !["tick"] = RemoveAt(@, i)]
      BY <2>2, <2>6, <3>1 DEF LuaDispatched
    <3>3. RemoveAt(scripts["tick"], i) = <<>>
      <4>1. /\ scripts["tick"] \in Seq(Functions) /\ Len(scripts["tick"]) = 1
            /\ i \in DOMAIN scripts["tick"]
        BY <2>1, <3>1 DEF Functions
      <4>2. /\ RemoveAt(scripts["tick"], i) \in Seq(Functions)
            /\ DOMAIN RemoveAt(scripts["tick"], i) = 1..(Len(scripts["tick"]) - 1)
        BY <4>1, RemoveByIndex
      <4> QED  BY <4>1, <4>2, EmptySeq, LenProperties
    <3>4. scripts' = [scripts EXCEPT !["tick"] = <<>>]
      BY <3>2, <3>3
    <3>5. Data(t)'
      BY <2>2, <3>4, TickFails DEF handlers, window
    <3>6. todo' = Push(LuaDispatch("tick", 2, 1), Ticked)
      BY <1>3, <3>2, PushSome
    <3> QED  BY <1>4, <2>2, <2>3, <3>5, <3>6 DEF window
  <2> QED  BY <1>2, <2>4, <2>5, <2>6
<1>7. CASE todo = Push(Context("context.use"), Push(LuaDispatch("tick", 2, 1), Ticked))
  <2>1. Push(LuaDispatch("tick", 2, 1), Ticked) \in Seq(Steps)
    BY <1>3, PushFacts
  <2>2. Context("context.use").do = "context.use" /\ Valid(Context("context.use"))
    <3>1. "context" \notin Handler /\ context = "live"
      BY DEF Handler, Timer, Core, Data, ContextAt
    <3> QED  BY <3>1 DEF Context, Valid
  <2>3. /\ todo' = Push(LuaDispatch("tick", 2, 1), Ticked) /\ ~crashed'
        /\ UNCHANGED <<phase, clicks, handlers, active, lua, window>>
    BY <1>3, <1>7, <2>1, <2>2, StepDoes
  <2>4. Data(t)'
    BY <2>3, DataStays DEF handlers, lua, window
  <2> QED  BY <1>4, <2>3, <2>4 DEF Window, window
<1>8. CASE todo = Push(LuaDispatch("tick", 2, 1), Ticked)
  <2>1. ~(2 <= n) /\ 2 = 1 + 1
    BY <1>2
  <2>2. Onward(t, Ticked)
    BY <1>1, <1>2, <1>3, <1>8, <2>1, LuaEnds
  <2> QED  BY <1>4, <2>2 DEF Onward
<1>9. CASE todo = Ticked
  <2>1. /\ todo = Push(Fire("tick", 2), <<>>)
        /\ 2 \in Nat /\ 2 > Len(callbacks["tick"]) /\ Len(callbacks["tick"]) \in Nat
    BY <1>1, <1>9 DEF Ticked
  <2>2. Onward(t, <<>>)
    BY <1>1, <1>3, <2>1, FireEnds
  <2> QED  BY <2>2 DEF Onward
<1> QED  BY <1>2, <1>5, <1>6, <1>7, <1>8, <1>9 DEF TickStacks

(* An array of some things that are all of one kind.                       *)
LEMMA ArrayOf ==
    ASSUME NEW S, NEW R, NEW s \in Seq(S), \A i \in DOMAIN s : s[i] \in R
    PROVE  s \in Seq(R)
PROOF
<1>1. PICK n : n = Len(s)
  OBVIOUS
<1>2. n \in Nat /\ DOMAIN s = 1..n /\ s = [i \in 1..n |-> s[i]]
  BY <1>1, LenProperties
<1> QED  BY <1>2, FunctionIsSeq

(* Timers that are due are in the queue once each.                         *)
LEMMA OnceEach ==
    ASSUME NEW timers \in SUBSET Timer, NEW s \in SetToSeqs(timers)
    PROVE  s \in Seq(Timer) /\ \A i, j \in DOMAIN s : s[i] = s[j] => i = j
PROOF
<1>1. Cardinality(timers) \in Nat
  <2>1. IsFiniteSet({"poll_timer"}) /\ IsFiniteSet({"poll_timer"} \cup {"tick"})
    BY FS_Singleton, FS_AddElement
  <2>2. Timer = {"poll_timer"} \cup {"tick"}
    BY DEF Timer
  <2>3. IsFiniteSet(timers)
    BY <2>1, <2>2, FS_Subset
  <2> QED  BY <2>3, FS_CardinalityType
<1>2. PICK n : n = Cardinality(timers)
  OBVIOUS
<1>3. s \in [1..n -> timers] /\ \A i, j \in 1..n : i # j => s[i] # s[j]
  BY <1>2 DEF SetToSeqs
<1>4. s = [i \in 1..n |-> s[i]] /\ \A i \in 1..n : s[i] \in Timer
  BY <1>3
<1>5. s \in Seq(Timer) /\ DOMAIN s = 1..n
  BY <1>1, <1>2, <1>4, FunctionIsSeq
<1> QED  BY <1>3, <1>5

(* While the window is open.                                               *)
LEMMA OpenStep ==
    ASSUME NEW t \in 0..31, Window, Data(t), Open(t), Thread
    PROVE  ShutdownInv'
PROOF
<1>1. /\ phase = "loop" /\ t = 19 /\ Unspent /\ active \in Seq(Timer) /\ PollOnce
      /\ \/ todo \in {<<>>} \cup TickStacks
         \/ todo \in PollStacks /\ active \in Seq({"tick"})
  BY DEF Open
<1>2. CASE todo = <<>>
  <2>1. /\ Data(t)' /\ Window' /\ UNCHANGED <<queue, clicks>>
        /\ \/ /\ phase' = "loop" /\ active # <<>>
              /\ todo' = <<Fire(Head(active), 1)>> /\ active' = Tail(active)
           \/ /\ phase' = "loop" /\ todo' = <<>>
              /\ \E timers \in SUBSET (live \cap Timer) : timers # {} /\ active' \in SetToSeqs(timers)
           \/ live \cap Timer = {}
    BY <1>1, <1>2, IdleDoes
  <2>2. live \cap Timer # {}
    <3>1. "tick" \in Timer /\ "tick" \in Handler /\ t < Dies("tick") /\ t \in 19..31
      BY <1>1 DEF Timer, Handler, Dies
    <3>2. "tick" \in live
      BY <3>1, LiveIs
    <3> QED  BY <3>1, <3>2
  <2>3. Unspent'
    BY <1>1, <2>1, QueueStays
  <2>4. CASE /\ phase' = "loop" /\ active # <<>>
             /\ todo' = <<Fire(Head(active), 1)>> /\ active' = Tail(active)
    <3>1. PICK n : n = Len(active)
      OBVIOUS
    <3>2. /\ n \in Nat /\ n >= 1 /\ DOMAIN active = 1..n
          /\ active' \in Seq(Timer) /\ DOMAIN active' = 1..(n - 1)
          /\ \A i \in 1..(n - 1) : active'[i] = active[i + 1]
          /\ Head(active) = active[1] /\ Head(active) \in Timer
      BY <1>1, <2>4, <3>1, TailByIndex
    <3>3. PollOnce'
      <4>1. ASSUME NEW i \in 1..(n - 1), NEW j \in 1..(n - 1),
                   active'[i] = "poll_timer", active'[j] = "poll_timer"
            PROVE  i = j
        <5>1. /\ i + 1 \in 1..n /\ j + 1 \in 1..n
              /\ active[i + 1] = "poll_timer" /\ active[j + 1] = "poll_timer"
          BY <3>2, <4>1
        <5>2. i + 1 = j + 1
          BY <1>1, <3>2, <5>1 DEF PollOnce
        <5> QED  BY <5>2
      <4> QED  BY <3>2, <4>1 DEF PollOnce
    <3>4. todo' = Push(Fire(Head(active), 1), <<>>)
      BY <2>4 DEF Push
    <3>5. CASE Head(active) = "tick"
      <4>1. todo' \in ({<<>>} \cup TickStacks)'
        BY <3>4, <3>5 DEF TickStacks
      <4>2. Open(t)'
        BY <1>1, <2>3, <2>4, <3>2, <3>3, <4>1 DEF Open
      <4> QED  BY <2>1, <4>2, Described DEF Situation
    <3>6. CASE Head(active) = "poll_timer"
      <4>1. todo' \in PollStacks
        BY <3>4, <3>6 DEF PollStacks
      <4>2. \A i \in 1..(n - 1) : active'[i] \in {"tick"}
        <5>1. ASSUME NEW i \in 1..(n - 1), active'[i] = "poll_timer" PROVE FALSE
          <6>1. i + 1 \in 1..n /\ 1 \in 1..n /\ active[i + 1] = "poll_timer" /\ active[1] = "poll_timer"
            BY <3>2, <3>6, <5>1
          <6>2. i + 1 = 1
            BY <1>1, <3>2, <6>1 DEF PollOnce
          <6> QED  BY <6>2
        <5>2. \A i \in 1..(n - 1) : active'[i] \in Timer
          BY <3>2, ElementOfSeq, LenProperties
        <5> QED  BY <5>1, <5>2 DEF Timer
      <4>3. active' \in Seq({"tick"})
        BY <3>2, <4>2, ArrayOf
      <4>4. Open(t)'
        BY <1>1, <2>3, <2>4, <3>2, <3>3, <4>1, <4>3 DEF Open
      <4> QED  BY <2>1, <4>4, Described DEF Situation
    <3> QED  BY <3>2, <3>5, <3>6 DEF Timer
  <2>5. CASE /\ phase' = "loop" /\ todo' = <<>>
             /\ \E timers \in SUBSET (live \cap Timer) : timers # {} /\ active' \in SetToSeqs(timers)
    <3>1. PICK timers \in SUBSET Timer : active' \in SetToSeqs(timers)
      BY <2>5
    <3>2. active' \in Seq(Timer) /\ \A i, j \in DOMAIN active' : active'[i] = active'[j] => i = j
      BY <3>1, OnceEach
    <3>3. PollOnce'
      BY <3>2 DEF PollOnce
    <3>4. Open(t)'
      BY <1>1, <2>3, <2>5, <3>2, <3>3 DEF Open
    <3> QED  BY <2>1, <3>4, Described DEF Situation
  <2> QED  BY <2>1, <2>2, <2>4, <2>5
<1>3. CASE todo \in TickStacks
  <2>1. /\ Data(t)' /\ Window' /\ UNCHANGED <<phase, active, queue, clicks>>
        /\ todo' \in ({<<>>} \cup TickStacks)'
    BY <1>1, <1>3, TickStep
  <2>2. Unspent' /\ PollOnce'
    BY <1>1, <2>1, QueueStays DEF PollOnce
  <2>3. Open(t)'
    BY <1>1, <2>1, <2>2 DEF Open
  <2> QED  BY <2>1, <2>3, Described DEF Situation
<1>4. CASE todo \in PollStacks /\ active \in Seq({"tick"})
  <2>1. /\ Data(t)' /\ Window' /\ UNCHANGED <<phase, active, clicks>>
        /\ \/ todo' \in {<<>>} \cup PollStacks /\ Unspent'
           \/ todo' = Push(Fire("close", 1), Polling) /\ Spent'
    BY <1>1, <1>4, PollStep
  <2>2. PollOnce'
    BY <1>1, <2>1 DEF PollOnce
  <2>3. CASE todo' \in {<<>>} \cup PollStacks /\ Unspent'
    <3>1. Open(t)'
      BY <1>1, <1>4, <2>1, <2>2, <2>3 DEF Open
    <3> QED  BY <2>1, <3>1, Described DEF Situation
  <2>4. CASE todo' = Push(Fire("close", 1), Polling) /\ Spent'
    <3>1. Closing(t)'
      BY <1>1, <1>4, <2>1, <2>4 DEF Closing, CloseStacks
    <3> QED  BY <2>1, <3>1, Described DEF Situation
  <2> QED  BY <2>1, <2>3, <2>4
<1> QED  BY <1>1, <1>2, <1>3, <1>4

(* A handler is not in an empty queue of libevent.                         *)
LEMMA NoneToRemove ==
    ASSUME NEW h
    PROVE  RemoveFirst(<<>>, h) = <<>>
BY DEF RemoveFirst

(* A handler taken out of the list of the scripts.                         *)
LEMMA FirstOfTwo ==
    ASSUME NEW a \in Handler, NEW b \in Handler, a # b
    PROVE  RemoveFirst(<<a, b>>, a) = <<b>>
PROOF
<1>1. PICK s : s = <<a, b>>
  OBVIOUS
<1>2. /\ s \in Seq(Handler) /\ Len(s) = 2 /\ s[1] = a /\ s[2] = b /\ DOMAIN s = 1..2
  BY <1>1
<1>3. PICK r : r = RemoveFirst(s, a)
  OBVIOUS
<1>4. r \in Seq(Handler) /\ IsInjective(r) /\ ToSet(r) = ToSet(s) \ {a}
  <2>1. IsInjective(s)
    BY <1>2 DEF IsInjective
  <2> QED  BY <1>2, <1>3, <2>1, RemoveFirstOfInjective
<1>5. ToSet(s) = {a, b}
  BY <1>2 DEF ToSet
<1>6. \A i \in DOMAIN r : r[i] = b
  BY <1>4, <1>5 DEF ToSet
<1>7. \E i \in DOMAIN r : r[i] = b
  BY <1>4, <1>5 DEF ToSet
<1>8. Len(r) = 1
  <2>1. PICK n : n = Len(r)
    OBVIOUS
  <2>2. n \in Nat /\ DOMAIN r = 1..n /\ n >= 1
    BY <1>4, <1>7, <2>1, LenProperties
  <2>3. ~(n >= 2)
    <3>1. ASSUME n >= 2 PROVE FALSE
      <4>1. 1 \in 1..n /\ 2 \in 1..n /\ r[1] = r[2]
        BY <1>6, <2>2, <3>1
      <4> QED  BY <1>4, <2>2, <4>1 DEF IsInjective
    <3> QED  BY <3>1
  <2> QED  BY <2>1, <2>2, <2>3
<1>9. r[1] = b
  BY <1>4, <1>6, <1>8, LenProperties
<1>10. PICK v : v = <<b>>
  OBVIOUS
<1>11. v \in Seq(Handler) /\ Len(v) = 1 /\ v[1] = b
  BY <1>10
<1>12. r = v
  BY <1>4, <1>8, <1>9, <1>11, SeqEqual
<1> QED  BY <1>1, <1>3, <1>10, <1>12

(* The handler of the context for the close event.                         *)
LEMMA ClosingStep ==
    ASSUME NEW t \in 0..31, Window, Data(t), Closing(t), Thread
    PROVE  ShutdownInv'
PROOF
<1>1. phase = "loop" /\ t = 19 /\ Spent /\ todo \in CloseStacks /\ active \in Seq({"tick"})
  BY DEF Closing
<1>2. /\ "close" \in Handler /\ "close" \in live
      /\ "on_after_close" \in Handler /\ "on_after_close" \in live
      /\ Len(callbacks["close"]) = 1 /\ callbacks["close"][1].function = "lua_dispatch"
      /\ scripts["close"] = <<"close">>
  <2>1. t \in 19..25 /\ t \in 19..31
    BY <1>1
  <2>2. /\ "close" \in Handler /\ t < Dies("close")
        /\ "on_after_close" \in Handler /\ t < Dies("on_after_close")
    BY <1>1 DEF Handler, Dies
  <2> QED  BY <2>1, <2>2, Called, CalledInLua, LiveIs
<1>3. /\ Polling \in Seq(Steps) /\ ClosedOnce \in Seq(Steps) /\ Closed \in Seq(Steps)
      /\ LuaDispatch("close", 1, 1) \in Steps /\ LuaDispatch("close", 2, 1) \in Steps
      /\ FireAsync("on_after_close") \in Steps
  BY <1>2, StacksAre, StepsAre
<1>4. ASSUME NEW s, Onward(t, s), s \in CloseStacks PROVE ShutdownInv'
  <2>1. Closing(t)'
    BY <1>1, <1>4, QueueStays DEF Onward, Closing
  <2> QED  BY <1>4, <2>1, Described DEF Onward, Situation
<1>5. CASE todo = Push(Fire("close", 1), Polling)
  <2>1. Body("lua_dispatch", "close") = <<LuaDispatch("close", 1, 1)>>
    <3>1. Len(scripts["close"]) = 1
      BY <1>2
    <3> QED  BY <1>2, <3>1, BodyOf
  <2>2. "lua_dispatch" # Wild /\ 1 \in Nat /\ 1 <= Len(callbacks["close"]) /\ Len(callbacks["close"]) \in Nat
    BY <1>2, ShutdownAssumption
  <2>3. Onward(t, Push(LuaDispatch("close", 1, 1), Push(Fire("close", 1 + 1), Polling)))
    BY <1>2, <1>3, <1>5, <2>1, <2>2, FireOn
  <2>4. Onward(t, Push(LuaDispatch("close", 1, 1), ClosedOnce))
    BY <2>3 DEF ClosedOnce
  <2> QED  BY <1>4, <2>4 DEF CloseStacks
<1>6. CASE todo = Push(LuaDispatch("close", 1, 1), ClosedOnce)
  <2>1. \E r : r = (Body("close", "close") \o <<LuaDispatch("close", 2, 1)>>) \o ClosedOnce /\ Onward(t, r)
    BY <1>2, <1>3, <1>6, LuaOn
  <2>2. Body("close", "close") = <<FireAsync("on_after_close")>>
    BY <1>2, BodyOf
  <2>3. PICK r : /\ r = (<<FireAsync("on_after_close")>> \o <<LuaDispatch("close", 2, 1)>>) \o ClosedOnce
                 /\ Onward(t, r)
    BY <2>1, <2>2
  <2>4. r = Push(FireAsync("on_after_close"), Push(LuaDispatch("close", 2, 1), ClosedOnce))
    BY <1>3, <2>3, PushSome
  <2>5. r = Push(FireAsync("on_after_close"), Closed)
    BY <2>4 DEF Closed
  <2> QED  BY <1>4, <2>3, <2>5 DEF CloseStacks
<1>7. CASE todo = Push(FireAsync("on_after_close"), Closed)
  <2>1. /\ FireAsync("on_after_close").do = "fireasync"
        /\ FireAsync("on_after_close").on = "on_after_close"
        /\ Valid(FireAsync("on_after_close"))
    BY <1>2 DEF FireAsync, Valid
  <2>2. /\ todo' = Closed /\ ~crashed' /\ UNCHANGED <<phase, clicks>>
        /\ UNCHANGED <<scripts, lua_handlers, context, sdl, queue>>
        /\ UNCHANGED handlers /\ active' = Append(active, "on_after_close")
    BY <1>3, <1>7, <2>1, StepDoes
  <2>3. Data(t)' /\ Window' /\ Spent'
    BY <1>1, <2>2, DataStays, QueueStays DEF handlers, Window
  <2>4. /\ active' \in Seq(Handler) /\ active' # <<>>
        /\ \A i \in DOMAIN active' : active'[i] = (IF i = Len(active') THEN "on_after_close" ELSE "tick")
    <3>1. PICK n : n = Len(active)
      OBVIOUS
    <3>2. active \in Seq(Handler)
      BY <1>1, ArrayOf, ElementOfSeq, LenProperties DEF Handler, Timer
    <3>3. /\ n \in Nat /\ \A i \in 1..n : active[i] = "tick"
      BY <1>1, <3>1, ElementOfSeq, LenProperties
    <3>4. /\ active' \in Seq(Handler) /\ DOMAIN active' = 1..(n + 1)
          /\ \A i \in 1..n : active'[i] = active[i]
          /\ active'[n + 1] = "on_after_close"
      BY <1>2, <2>2, <3>1, <3>2, SetOfAppend
    <3>5. Len(active') = n + 1
      BY <3>3, <3>4, LenProperties
    <3> QED  BY <3>3, <3>4, <3>5, EmptySeq
  <2>5. Clicked(t)'
    BY <1>1, <2>2, <2>3, <2>4 DEF Clicked, ClosedStacks
  <2> QED  BY <2>3, <2>5, Described DEF Situation
<1> QED  BY <1>1, <1>5, <1>6, <1>7 DEF CloseStacks

(* After the click, until on_after_close is run.                           *)
LEMMA ClickedStep ==
    ASSUME NEW t \in 0..31, Window, Data(t), Clicked(t), Thread
    PROVE  ShutdownInv'
PROOF
<1>1. /\ phase = "loop" /\ t = 19 /\ Spent
      /\ todo \in {<<>>} \cup TickStacks \cup PollStacks \cup ClosedStacks
      /\ active \in Seq(Handler) /\ active # <<>>
      /\ \A i \in DOMAIN active : active[i] = (IF i = Len(active) THEN "on_after_close" ELSE "tick")
  BY DEF Clicked
<1>2. ASSUME Data(t)', Window', Spent', UNCHANGED <<phase, active>>,
             todo' \in ({<<>>} \cup TickStacks \cup PollStacks \cup ClosedStacks)'
      PROVE  ShutdownInv'
  <2>1. Clicked(t)'
    BY <1>1, <1>2 DEF Clicked
  <2> QED  BY <1>2, <2>1, Described DEF Situation
<1>3. CASE todo = <<>>
  <2>1. /\ Data(t)' /\ Window' /\ UNCHANGED <<queue, clicks>>
        /\ phase' = "loop" /\ todo' = <<Fire(Head(active), 1)>> /\ active' = Tail(active)
    BY <1>1, <1>3, IdleDoes
  <2>2. Spent'
    BY <1>1, <2>1, QueueStays
  <2>3. PICK n : n = Len(active)
    OBVIOUS
  <2>4. /\ n \in Nat /\ n >= 1 /\ DOMAIN active = 1..n
        /\ active' \in Seq(Handler) /\ DOMAIN active' = 1..(n - 1)
        /\ \A i \in 1..(n - 1) : active'[i] = active[i + 1]
        /\ Head(active) = active[1]
    BY <1>1, <2>1, <2>3, TailByIndex
  <2>5. todo' = Push(Fire(Head(active), 1), <<>>)
    BY <2>1 DEF Push
  <2>6. Len(active') = n - 1
    BY <2>4, LenProperties
  <2>7. CASE n = 1
    <3>1. Head(active) = "on_after_close" /\ active' = <<>>
      BY <1>1, <2>3, <2>4, <2>6, <2>7, EmptySeq
    <3>2. Leave(t)'
      BY <1>1, <2>1, <2>2, <2>5, <3>1 DEF Leave, LeaveStacks
    <3> QED  BY <2>1, <3>2, Described DEF Situation
  <2>8. CASE n # 1
    <3>1. Head(active) = "tick"
      BY <1>1, <2>3, <2>4, <2>8
    <3>2. active' # <<>>
      BY <2>4, <2>6, <2>8, EmptySeq
    <3>3. \A i \in DOMAIN active' : active'[i] = (IF i = Len(active') THEN "on_after_close" ELSE "tick")
      <4> SUFFICES ASSUME NEW i \in 1..(n - 1)
                   PROVE  active'[i] = (IF i = n - 1 THEN "on_after_close" ELSE "tick")
        BY <2>4, <2>6
      <4>1. i + 1 \in 1..n /\ active'[i] = active[i + 1] /\ (i + 1 = n <=> i = n - 1)
        BY <2>4
      <4> QED  BY <1>1, <2>3, <2>4, <4>1
    <3>4. todo' \in TickStacks'
      BY <2>5, <3>1 DEF TickStacks
    <3>5. Clicked(t)'
      BY <1>1, <2>1, <2>2, <2>4, <3>2, <3>3, <3>4 DEF Clicked
    <3> QED  BY <2>1, <3>5, Described DEF Situation
  <2> QED  BY <2>7, <2>8
<1>4. CASE todo \in TickStacks
  <2>1. /\ Data(t)' /\ Window' /\ UNCHANGED <<phase, active, queue, clicks>>
        /\ todo' \in ({<<>>} \cup TickStacks)'
    BY <1>1, <1>4, TickStep
  <2> QED  BY <1>1, <1>2, <2>1, QueueStays
<1>5. CASE todo \in PollStacks
  <2>1. /\ Data(t)' /\ Window' /\ UNCHANGED <<phase, active, clicks>>
        /\ todo' \in {<<>>} \cup PollStacks /\ Spent'
    BY <1>1, <1>5, PollStep
  <2> QED  BY <1>2, <2>1
<1>6. CASE todo \in ClosedStacks
  <2>1. /\ "close" \in Handler /\ "close" \in live /\ Len(callbacks["close"]) = 1
        /\ scripts["close"] = <<"close">>
    <3>1. t \in 19..25 /\ t \in 19..31
      BY <1>1
    <3>2. "close" \in Handler /\ t < Dies("close")
      BY <1>1 DEF Handler, Dies
    <3> QED  BY <3>1, <3>2, Called, CalledInLua, LiveIs
  <2>2. Polling \in Seq(Steps) /\ ClosedOnce \in Seq(Steps)
    BY StacksAre
  <2>3. CASE todo = Closed
    <3>1. todo = Push(LuaDispatch("close", 2, 1), ClosedOnce)
      BY <2>3 DEF Closed
    <3>2. Len(scripts["close"]) = 1
      BY <2>1
    <3>3. Len(scripts["close"]) \in Nat /\ ~(2 <= Len(scripts["close"])) /\ 2 = 1 + 1
      BY <3>2
    <3>4. Onward(t, ClosedOnce)
      BY <2>1, <2>2, <3>1, <3>3, LuaEnds
    <3> QED  BY <1>1, <1>2, <3>4, QueueStays DEF Onward, ClosedStacks
  <2>4. CASE todo = ClosedOnce
    <3>1. todo = Push(Fire("close", 2), Polling)
      BY <2>4 DEF ClosedOnce
    <3>2. Len(callbacks["close"]) \in Nat /\ 2 > Len(callbacks["close"])
      BY <2>1
    <3>3. Onward(t, Polling)
      BY <2>1, <2>2, <3>1, <3>2, FireEnds
    <3> QED  BY <1>1, <1>2, <3>3, QueueStays DEF Onward, PollStacks
  <2> QED  BY <1>6, <2>3, <2>4 DEF ClosedStacks
<1> QED  BY <1>1, <1>3, <1>4, <1>5, <1>6

(* on_after_close, up to the freeing of the context.                       *)
LEMMA LeaveStep ==
    ASSUME NEW t \in 0..31, Window, Data(t), Leave(t), Thread
    PROVE  ShutdownInv'
PROOF
<1>1. /\ phase = "loop" /\ Spent /\ active = <<>>
      /\ \/ t = 19 /\ todo \in LeaveStacks
         \/ t = 20 /\ todo = Leaving20
         \/ t = 21 /\ todo = Leaving21
  BY DEF Leave
<1>2. /\ "on_after_close" \in Handler /\ "on_after_close" \in live
      /\ Len(callbacks["on_after_close"]) = 1
      /\ callbacks["on_after_close"][1].function = "lua_dispatch"
      /\ scripts["on_after_close"] = <<"after_close">>
      /\ "shutdown" \in Handler /\ "shutdown" \in live
  <2>1. t \in 19..25 /\ t \in 19..31
    BY <1>1
  <2>2. /\ "on_after_close" \in Handler /\ t < Dies("on_after_close")
        /\ "shutdown" \in Handler /\ t < Dies("shutdown")
    BY <1>1 DEF Handler, Core, Dies
  <2> QED  BY <2>1, <2>2, Called, CalledInLua, LiveIs
<1>3. /\ <<>> \in Seq(Steps) /\ Left \in Seq(Steps) /\ Leaving \in Seq(Steps)
      /\ Leaving20 \in Seq(Steps) /\ Leaving21 \in Seq(Steps)
      /\ LuaDispatch("on_after_close", 1, 1) \in Steps /\ LuaDispatch("on_after_close", 2, 1) \in Steps
      /\ LuaDestroy("tick") \in Steps /\ Context("context.free") \in Steps
      /\ FireAsync("shutdown") \in Steps
  <2>1. "tick" \in Handler
    BY DEF Handler, Timer
  <2> QED  BY <1>2, <2>1, StacksAre, StepsAre
<1>4. ASSUME t = 19, NEW s, Onward(t, s), s \in LeaveStacks PROVE ShutdownInv'
  <2>1. Leave(t)'
    BY <1>1, <1>4, QueueStays DEF Onward, Leave
  <2> QED  BY <1>4, <2>1, Described DEF Onward, Situation
<1>5. CASE t = 19 /\ todo = Push(Fire("on_after_close", 1), <<>>)
  <2>1. Body("lua_dispatch", "on_after_close") = <<LuaDispatch("on_after_close", 1, 1)>>
    <3>1. Len(scripts["on_after_close"]) = 1
      BY <1>2
    <3> QED  BY <1>2, <3>1, BodyOf
  <2>2. /\ "lua_dispatch" # Wild /\ 1 \in Nat
        /\ 1 <= Len(callbacks["on_after_close"]) /\ Len(callbacks["on_after_close"]) \in Nat
    BY <1>2, ShutdownAssumption
  <2>3. Onward(t, Push(LuaDispatch("on_after_close", 1, 1), Push(Fire("on_after_close", 1 + 1), <<>>)))
    BY <1>2, <1>3, <1>5, <2>1, <2>2, FireOn
  <2>4. Onward(t, Push(LuaDispatch("on_after_close", 1, 1), Left))
    BY <2>3 DEF Left
  <2> QED  BY <1>4, <1>5, <2>4 DEF LeaveStacks
<1>6. CASE t = 19 /\ todo = Push(LuaDispatch("on_after_close", 1, 1), Left)
  <2>1. /\ todo = Push(LuaDispatch("on_after_close", 1, 1), Left)
        /\ scripts["on_after_close"] = <<"after_close">> /\ "after_close" # "ontick"
    BY <1>2, <1>6
  <2>2. \E r : /\ r = (Body("after_close", "on_after_close") \o <<LuaDispatch("on_after_close", 2, 1)>>) \o Left
               /\ Onward(t, r)
    BY <1>2, <1>3, <2>1, LuaOn
  <2>3. Body("after_close", "on_after_close")
           = <<LuaDestroy("tick"), Context("context.free"), FireAsync("shutdown")>>
    BY <1>2, BodyOf
  <2>4. PICK r : /\ r = (<<LuaDestroy("tick"), Context("context.free"), FireAsync("shutdown")>>
                             \o <<LuaDispatch("on_after_close", 2, 1)>>) \o Left
                 /\ Onward(t, r)
    BY <2>2, <2>3
  <2>5. r = Push(LuaDestroy("tick"), Push(Context("context.free"), Push(FireAsync("shutdown"),
               Push(LuaDispatch("on_after_close", 2, 1), Left))))
    BY <1>3, <2>4, PushFour
  <2>6. r = Push(LuaDestroy("tick"), Leaving20)
    BY <2>5 DEF Leaving20, Leaving21, Leaving
  <2> QED  BY <1>4, <1>6, <2>4, <2>6 DEF LeaveStacks
<1>7. CASE t = 19 /\ todo = Push(LuaDestroy("tick"), Leaving20)
  <2>1. "tick" \in Handler /\ "tick" \in live /\ Dies("tick") = t + 1 /\ t \in 19..31
    <3>1. "tick" \in Handler /\ Dies("tick") = t + 1 /\ t < Dies("tick") /\ t \in 19..31
      BY <1>7 DEF Handler, Timer, Dies
    <3> QED  BY <3>1, LiveIs
  <2>2. /\ LuaDestroy("tick").do = "event.destroy" /\ LuaDestroy("tick").on = "tick"
        /\ Valid(LuaDestroy("tick"))
    BY <2>1 DEF LuaDestroy, Valid
  <2>3. /\ todo' = Leaving20 /\ ~crashed' /\ UNCHANGED <<phase, clicks>>
        /\ Release("tick") /\ lua_handlers' = RemoveFirst(lua_handlers, "tick")
        /\ UNCHANGED <<scripts, context, sdl, queue>>
    BY <1>3, <1>7, <2>2, StepDoes
  <2>4. active' = <<>>
    BY <1>1, <2>3, NoneToRemove DEF Release
  <2>5. lua_handlers' = LuaHandlersAt(t + 1) /\ context' = ContextAt(t + 1)
    <3>1. lua_handlers = <<"tick", "on_after_close">>
      BY <1>7 DEF Data, LuaHandlersAt
    <3>2. RemoveFirst(lua_handlers, "tick") = <<"on_after_close">>
      BY <1>2, <2>1, <3>1, FirstOfTwo
    <3> QED  BY <1>7, <2>3, <3>2 DEF Data, LuaHandlersAt, ContextAt
  <2>6. Data(t + 1)'
    BY <1>7, <2>1, <2>3, <2>5, DiesAt
  <2>7. Window' /\ Spent'
    BY <1>1, <2>3, QueueStays DEF Window
  <2>8. Leave(t + 1)'
    BY <1>1, <1>7, <2>3, <2>4, <2>7 DEF Leave
  <2>9. t + 1 \in 0..31
    BY <1>7
  <2> QED  BY <2>6, <2>7, <2>8, <2>9, Described DEF Situation
<1>8. CASE t = 20 /\ todo = Leaving20
  <2>1. "close" \in Handler /\ Dies("close") = t + 1 /\ context = "live"
    BY <1>8 DEF Handler, Dies, Data, ContextAt
  <2>2. Context("context.free").do = "context.free" /\ Valid(Context("context.free"))
    <3>1. "context" \notin Handler
      BY DEF Handler, Timer, Core
    <3> QED  BY <2>1, <3>1 DEF Context, Valid
  <2>3. /\ todo' = Leaving21 /\ ~crashed' /\ UNCHANGED <<phase, clicks>>
        /\ Release("close") /\ context' = "freed" /\ UNCHANGED <<scripts, lua_handlers, sdl, queue>>
    BY <1>3, <1>8, <2>2, StepDoes DEF Leaving20
  <2>4. active' = <<>>
    BY <1>1, <2>3 DEF Release, Timer
  <2>5. lua_handlers' = LuaHandlersAt(t + 1) /\ context' = ContextAt(t + 1)
    BY <1>8, <2>3 DEF Data, LuaHandlersAt, ContextAt
  <2>6. Data(t + 1)'
    BY <1>8, <2>1, <2>3, <2>5, DiesAt
  <2>7. Window' /\ Spent'
    BY <1>1, <2>3, QueueStays DEF Window
  <2>8. Leave(t + 1)'
    BY <1>1, <1>8, <2>3, <2>4, <2>7 DEF Leave
  <2>9. t + 1 \in 0..31
    BY <1>8
  <2> QED  BY <2>6, <2>7, <2>8, <2>9, Described DEF Situation
<1>9. CASE t = 21 /\ todo = Leaving21
  <2>1. /\ FireAsync("shutdown").do = "fireasync" /\ FireAsync("shutdown").on = "shutdown"
        /\ Valid(FireAsync("shutdown"))
    BY <1>2 DEF FireAsync, Valid
  <2>2. /\ todo' = Leaving /\ ~crashed' /\ UNCHANGED <<phase, clicks>>
        /\ UNCHANGED <<scripts, lua_handlers, context, sdl, queue>>
        /\ UNCHANGED handlers /\ active' = Append(active, "shutdown")
    BY <1>3, <1>9, <2>1, StepDoes DEF Leaving21
  <2>3. active' = <<"shutdown">>
    <3>1. Append(<<>>, "shutdown") = <<"shutdown">>
      OBVIOUS
    <3> QED  BY <1>1, <2>2, <3>1
  <2>4. Data(t)' /\ Window' /\ Spent'
    BY <1>1, <2>2, DataStays, QueueStays DEF handlers, Window
  <2>5. Gone(t)'
    BY <1>1, <1>9, <2>2, <2>3, <2>4 DEF Gone
  <2> QED  BY <2>4, <2>5, Described DEF Situation
<1> QED  BY <1>1, <1>5, <1>6, <1>7, <1>8, <1>9 DEF LeaveStacks

(* What is left of on_after_close when the context is gone.                *)
LEMMA GoneStep ==
    ASSUME NEW t \in 0..31, Window, Data(t), Gone(t), Thread
    PROVE  ShutdownInv'
PROOF
<1>1. phase = "loop" /\ Spent /\ t = 21 /\ active = <<"shutdown">> /\ todo \in {Leaving, Left, <<>>}
  BY DEF Gone
<1>2. /\ "on_after_close" \in Handler /\ "on_after_close" \in live
      /\ Len(callbacks["on_after_close"]) = 1 /\ scripts["on_after_close"] = <<"after_close">>
  <2>1. t \in 19..25 /\ t \in 19..31
    BY <1>1
  <2>2. "on_after_close" \in Handler /\ t < Dies("on_after_close")
    BY <1>1 DEF Handler, Dies
  <2> QED  BY <2>1, <2>2, Called, CalledInLua, LiveIs
<1>3. <<>> \in Seq(Steps) /\ Left \in Seq(Steps)
  BY StacksAre
<1>4. ASSUME NEW s, Onward(t, s), s \in {Leaving, Left, <<>>} PROVE ShutdownInv'
  <2>1. Gone(t)'
    BY <1>1, <1>4, QueueStays DEF Onward, Gone
  <2> QED  BY <1>4, <2>1, Described DEF Onward, Situation
<1>5. CASE todo = Leaving
  <2>1. todo = Push(LuaDispatch("on_after_close", 2, 1), Left)
    BY <1>5 DEF Leaving
  <2>2. Len(scripts["on_after_close"]) = 1
    BY <1>2
  <2>3. Len(scripts["on_after_close"]) \in Nat /\ ~(2 <= Len(scripts["on_after_close"])) /\ 2 = 1 + 1
    BY <2>2
  <2>4. Onward(t, Left)
    BY <1>2, <1>3, <2>1, <2>3, LuaEnds
  <2> QED  BY <1>4, <2>4
<1>6. CASE todo = Left
  <2>1. todo = Push(Fire("on_after_close", 2), <<>>)
    BY <1>6 DEF Left
  <2>2. Len(callbacks["on_after_close"]) \in Nat /\ 2 > Len(callbacks["on_after_close"])
    BY <1>2
  <2>3. Onward(t, <<>>)
    BY <1>2, <1>3, <2>1, <2>2, FireEnds
  <2> QED  BY <1>4, <2>3
<1>7. CASE todo = <<>>
  <2>1. active # <<>> /\ Head(active) = "shutdown" /\ Tail(active) = <<>>
    BY <1>1
  <2>2. /\ Data(t)' /\ Window' /\ UNCHANGED <<queue, clicks>>
        /\ phase' = "loop" /\ todo' = <<Fire("shutdown", 1)>> /\ active' = <<>>
    BY <1>1, <1>7, <2>1, IdleDoes
  <2>3. Spent' /\ todo' \in Down21
    BY <1>1, <2>2, QueueStays DEF Push, Down21
  <2>4. Downing(t)'
    BY <1>1, <2>2, <2>3 DEF Downing
  <2> QED  BY <2>2, <2>4, Described DEF Situation
<1> QED  BY <1>1, <1>5, <1>6, <1>7

(* The shutdown handlers call what the modules have registered, one after  *)
(* the other.                                                              *)
LEMMA CoreFires ==
    ASSUME NEW t \in 21..25, Window, Data(t), NEW s \in Seq(Steps), Thread
    PROVE  /\ todo = Push(Fire("shutdown", 1), s) =>
                Onward(t, Push(SDL("sdl.quit"), Push(Fire("shutdown", 2), s)))
           /\ todo = Push(Fire("shutdown", 2), s) =>
                Onward(t, Push(Fire("shutdownCallbacks", 1), Push(Fire("shutdown", 3), s)))
           /\ todo = Push(Fire("shutdown", 3), s) => Onward(t, s)
           /\ todo = Push(Fire("shutdownCallbacks", 1), s) =>
                Onward(t, Push(Unregister("poll_timer", "poll"), Push(Fire("shutdownCallbacks", 2), s)))
           /\ todo = Push(Fire("shutdownCallbacks", 2), s) =>
                Onward(t, Push(Fire("shutdownHandlers", 1), Push(Fire("shutdownCallbacks", 3), s)))
           /\ todo = Push(Fire("shutdownCallbacks", 3), s) => Onward(t, s)
           /\ todo = Push(Fire("shutdownHandlers", 1), s) =>
                Onward(t, Push(Destroy("poll_timer"), Push(Fire("shutdownHandlers", 2), s)))
           /\ todo = Push(Fire("shutdownHandlers", 2), s) =>
                Onward(t, Push(LuaDispatch("shutdownHandlers", 1, 1), Push(Fire("shutdownHandlers", 3), s)))
           /\ todo = Push(Fire("shutdownHandlers", 3), s) =>
                Onward(t, Push(DumpAll, Push(Fire("shutdownHandlers", 4), s)))
           /\ todo = Push(Fire("shutdownHandlers", 4), s) => Onward(t, s)
PROOF
<1>1. t \in 0..31 /\ t \in 19..25 /\ t \in 19..31
  OBVIOUS
<1>2. /\ "shutdown" \in Handler /\ "shutdownCallbacks" \in Handler /\ "shutdownHandlers" \in Handler
      /\ "poll_timer" \in Handler /\ "poll" \in Variables
  BY DEF Handler, Core, Timer, Variables
<1>3. t < Dies("shutdown") /\ t < Dies("shutdownCallbacks") /\ t < Dies("shutdownHandlers")
  BY DEF Dies
<1>4. "shutdown" \in live /\ "shutdownCallbacks" \in live /\ "shutdownHandlers" \in live
  BY <1>1, <1>2, <1>3, LiveIs
<1>5. /\ Len(callbacks["shutdown"]) = 2 /\ Len(callbacks["shutdownCallbacks"]) = 2
      /\ Len(callbacks["shutdownHandlers"]) = 3
      /\ callbacks["shutdown"][1].function = "quit"
      /\ callbacks["shutdown"][2].function = "shutdownCallbacks"
      /\ callbacks["shutdownCallbacks"][1].function = "poll_shutdown_cb"
      /\ callbacks["shutdownCallbacks"][2].function = "shutdownHandlers"
      /\ callbacks["shutdownHandlers"][1].function = "poll_shutdown_hnd"
      /\ callbacks["shutdownHandlers"][2].function = "lua_dispatch"
      /\ callbacks["shutdownHandlers"][3].function = "showRemaining"
  BY <1>1, Called
<1>6. /\ SDL("sdl.quit") \in Steps /\ Unregister("poll_timer", "poll") \in Steps
      /\ Destroy("poll_timer") \in Steps /\ DumpAll \in Steps
      /\ Fire("shutdownCallbacks", 1) \in Steps /\ Fire("shutdownHandlers", 1) \in Steps
      /\ LuaDispatch("shutdownHandlers", 1, 1) \in Steps
  BY <1>2, StepsAre
<1>7. /\ Body("quit", "shutdown") = <<SDL("sdl.quit")>>
      /\ Body("shutdownCallbacks", "shutdown") = <<Fire("shutdownCallbacks", 1)>>
      /\ Body("poll_shutdown_cb", "shutdownCallbacks") = <<Unregister("poll_timer", "poll")>>
      /\ Body("shutdownHandlers", "shutdownCallbacks") = <<Fire("shutdownHandlers", 1)>>
      /\ Body("poll_shutdown_hnd", "shutdownHandlers") = <<Destroy("poll_timer")>>
      /\ Body("showRemaining", "shutdownHandlers") = <<DumpAll>>
  BY <1>2, BodyOf
<1>8. Body("lua_dispatch", "shutdownHandlers") = <<LuaDispatch("shutdownHandlers", 1, 1)>>
  <2>1. scripts["shutdownHandlers"] = <<"destroy_lua_handlers">>
    BY <1>1, CalledInLua
  <2>2. Len(scripts["shutdownHandlers"]) = 1
    BY <2>1
  <2> QED  BY <1>2, <2>2, BodyOf
<1>9. /\ "quit" # Wild /\ "shutdownCallbacks" # Wild /\ "poll_shutdown_cb" # Wild
      /\ "shutdownHandlers" # Wild /\ "poll_shutdown_hnd" # Wild /\ "lua_dispatch" # Wild
      /\ "showRemaining" # Wild
  BY ShutdownAssumption
<1>10. /\ 1 \in Nat /\ 2 \in Nat /\ 3 \in Nat /\ 4 \in Nat
       /\ 1 + 1 = 2 /\ 2 + 1 = 3 /\ 3 + 1 = 4
  OBVIOUS
<1>11. /\ 1 <= Len(callbacks["shutdown"]) /\ 2 <= Len(callbacks["shutdown"]) /\ 3 > Len(callbacks["shutdown"])
       /\ 1 <= Len(callbacks["shutdownCallbacks"]) /\ 2 <= Len(callbacks["shutdownCallbacks"])
       /\ 3 > Len(callbacks["shutdownCallbacks"])
       /\ 1 <= Len(callbacks["shutdownHandlers"]) /\ 2 <= Len(callbacks["shutdownHandlers"])
       /\ 3 <= Len(callbacks["shutdownHandlers"]) /\ 4 > Len(callbacks["shutdownHandlers"])
       /\ Len(callbacks["shutdown"]) \in Nat /\ Len(callbacks["shutdownCallbacks"]) \in Nat
       /\ Len(callbacks["shutdownHandlers"]) \in Nat
  BY <1>5
<1>12. todo = Push(Fire("shutdown", 1), s) =>
        Onward(t, Push(SDL("sdl.quit"), Push(Fire("shutdown", 1 + 1), s)))
  BY <1>1, <1>2, <1>4, <1>5, <1>6, <1>7, <1>9, <1>10, <1>11, FireOn
<1>13. todo = Push(Fire("shutdown", 2), s) =>
        Onward(t, Push(Fire("shutdownCallbacks", 1), Push(Fire("shutdown", 2 + 1), s)))
  BY <1>1, <1>2, <1>4, <1>5, <1>6, <1>7, <1>9, <1>10, <1>11, FireOn
<1>14. todo = Push(Fire("shutdown", 3), s) => Onward(t, s)
  BY <1>1, <1>2, <1>4, <1>10, <1>11, FireEnds
<1>15. todo = Push(Fire("shutdownCallbacks", 1), s) =>
        Onward(t, Push(Unregister("poll_timer", "poll"), Push(Fire("shutdownCallbacks", 1 + 1), s)))
  BY <1>1, <1>2, <1>4, <1>5, <1>6, <1>7, <1>9, <1>10, <1>11, FireOn
<1>16. todo = Push(Fire("shutdownCallbacks", 2), s) =>
        Onward(t, Push(Fire("shutdownHandlers", 1), Push(Fire("shutdownCallbacks", 2 + 1), s)))
  BY <1>1, <1>2, <1>4, <1>5, <1>6, <1>7, <1>9, <1>10, <1>11, FireOn
<1>17. todo = Push(Fire("shutdownCallbacks", 3), s) => Onward(t, s)
  BY <1>1, <1>2, <1>4, <1>10, <1>11, FireEnds
<1>18. todo = Push(Fire("shutdownHandlers", 1), s) =>
        Onward(t, Push(Destroy("poll_timer"), Push(Fire("shutdownHandlers", 1 + 1), s)))
  BY <1>1, <1>2, <1>4, <1>5, <1>6, <1>7, <1>9, <1>10, <1>11, FireOn
<1>19. todo = Push(Fire("shutdownHandlers", 2), s) =>
        Onward(t, Push(LuaDispatch("shutdownHandlers", 1, 1), Push(Fire("shutdownHandlers", 2 + 1), s)))
  BY <1>1, <1>2, <1>4, <1>5, <1>6, <1>8, <1>9, <1>10, <1>11, FireOn
<1>20. todo = Push(Fire("shutdownHandlers", 3), s) =>
        Onward(t, Push(DumpAll, Push(Fire("shutdownHandlers", 3 + 1), s)))
  BY <1>1, <1>2, <1>4, <1>5, <1>6, <1>7, <1>9, <1>10, <1>11, FireOn
<1>21. todo = Push(Fire("shutdownHandlers", 4), s) => Onward(t, s)
  BY <1>1, <1>2, <1>4, <1>10, <1>11, FireEnds
<1> QED  BY <1>10, <1>12, <1>13, <1>14, <1>15, <1>16, <1>17, <1>18, <1>19, <1>20, <1>21

(* SDL is shut down first.                                                 *)
LEMMA Down21Step ==
    ASSUME NEW t \in 0..31, t = 21, Window, Data(t), Downing(t), Thread
    PROVE  ShutdownInv'
PROOF
<1>1. phase = "loop" /\ Spent /\ active = <<>> /\ todo \in Down21 /\ t \in 21..25
  BY DEF Downing
<1>2. /\ <<>> \in Seq(Steps) /\ Push(Fire("shutdown", 2), <<>>) \in Seq(Steps)
      /\ SDL("sdl.quit") \in Steps
  <2>1. "shutdown" \in Handler /\ 2 \in Nat
    BY DEF Handler, Core
  <2>2. Fire("shutdown", 2) \in Steps /\ SDL("sdl.quit") \in Steps /\ <<>> \in Seq(Steps)
    BY <2>1, StepsAre, StacksAre
  <2> QED  BY <2>2, PushFacts
<1>3. CASE todo = Push(Fire("shutdown", 1), <<>>)
  <2>1. Onward(t, Push(SDL("sdl.quit"), Push(Fire("shutdown", 2), <<>>)))
    BY <1>1, <1>2, <1>3, CoreFires
  <2>2. Downing(t)'
    BY <1>1, <2>1, QueueStays DEF Onward, Downing, Down21
  <2> QED  BY <2>1, <2>2, Described DEF Onward, Situation
<1>4. CASE todo = Push(SDL("sdl.quit"), Push(Fire("shutdown", 2), <<>>))
  <2>1. SDL("sdl.quit").do = "sdl.quit" /\ Valid(SDL("sdl.quit"))
    <3>1. "sdl" \notin Handler
      BY DEF Handler, Timer, Core
    <3> QED  BY <3>1 DEF SDL, Valid
  <2>2. /\ todo' = Push(Fire("shutdown", 2), <<>>) /\ ~crashed' /\ UNCHANGED <<phase, clicks>>
        /\ sdl' = FALSE /\ queue' = <<>> /\ UNCHANGED <<handlers, active, lua, context>>
    BY <1>2, <1>4, <2>1, StepDoes
  <2>3. UNCHANGED <<live, persistent, callbacks, cur_id, ids, scripts, lua_handlers, context>>
    BY <2>2 DEF handlers, lua
  <2>4. Data(t + 1)'
    <3>1. t \in {6, 21} /\ sdl' = (t = 6)
      <4>1. (t = 6) = FALSE /\ t \in {6, 21}
        OBVIOUS
      <4> QED  BY <2>2, <4>1
    <3> QED  BY <2>3, <3>1, SDLAt
  <2>5. Window' /\ Spent'
    BY <1>1, <2>2 DEF Window, Spent
  <2>6. Downing(t + 1)'
    BY <1>1, <2>2, <2>5 DEF Downing, Down22
  <2>7. t + 1 \in 0..31
    OBVIOUS
  <2> QED  BY <2>4, <2>5, <2>6, <2>7, Described DEF Situation
<1> QED  BY <1>1, <1>3, <1>4 DEF Down21

(* The poll timer loses its callback.                                      *)
LEMMA Down22Step ==
    ASSUME NEW t \in 0..31, t = 22, Window, Data(t), Downing(t), Thread
    PROVE  ShutdownInv'
PROOF
<1>1. phase = "loop" /\ Spent /\ active = <<>> /\ todo \in Down22 /\ t \in 21..25
  BY DEF Downing
<1>2. /\ <<>> \in Seq(Steps) /\ Down \in Seq(Steps)
      /\ Push(Fire("shutdownCallbacks", 2), Down) \in Seq(Steps)
      /\ "poll_timer" \in Handler /\ "poll" \in Variables
      /\ Unregister("poll_timer", "poll") \in Steps
  <2>1. /\ "shutdownCallbacks" \in Handler /\ 2 \in Nat /\ "poll_timer" \in Handler
        /\ "poll" \in Variables
    BY DEF Handler, Core, Timer, Variables
  <2>2. /\ Fire("shutdownCallbacks", 2) \in Steps /\ Unregister("poll_timer", "poll") \in Steps
        /\ Down \in Seq(Steps) /\ <<>> \in Seq(Steps)
    BY <2>1, StepsAre, StacksAre
  <2> QED  BY <2>1, <2>2, PushFacts
<1>3. ASSUME NEW s, Onward(t, s), s \in Down22 PROVE ShutdownInv'
  <2>1. Downing(t)'
    BY <1>1, <1>3, QueueStays DEF Onward, Downing
  <2> QED  BY <1>3, <2>1, Described DEF Onward, Situation
<1>4. CASE todo = Push(Fire("shutdown", 2), <<>>)
  <2>1. Onward(t, Push(Fire("shutdownCallbacks", 1), Push(Fire("shutdown", 3), <<>>)))
    BY <1>1, <1>2, <1>4, CoreFires
  <2>2. Onward(t, Push(Fire("shutdownCallbacks", 1), Down))
    BY <2>1 DEF Down
  <2> QED  BY <1>3, <2>2 DEF Down22
<1>5. CASE todo = Push(Fire("shutdownCallbacks", 1), Down)
  <2>1. Onward(t, Push(Unregister("poll_timer", "poll"), Push(Fire("shutdownCallbacks", 2), Down)))
    BY <1>1, <1>2, <1>5, CoreFires
  <2> QED  BY <1>3, <2>1 DEF Down22
<1>6. CASE todo = Push(Unregister("poll_timer", "poll"), Push(Fire("shutdownCallbacks", 2), Down))
  <2>1. "poll_timer" \in live
    <3>1. t \in 19..31 /\ t < Dies("poll_timer")
      BY DEF Dies
    <3> QED  BY <1>2, <3>1, LiveIs
  <2>2. /\ Unregister("poll_timer", "poll").do = "unregister"
        /\ Unregister("poll_timer", "poll").on = "poll_timer"
        /\ Unregister("poll_timer", "poll").id = "poll"
        /\ Valid(Unregister("poll_timer", "poll"))
    BY <2>1 DEF Unregister, Valid
  <2>3. /\ todo' = Push(Fire("shutdownCallbacks", 2), Down) /\ ~crashed' /\ UNCHANGED <<phase, clicks>>
        /\ Withdraw("poll_timer", ids["poll"])
        /\ UNCHANGED <<scripts, lua_handlers, context, sdl, queue>>
    BY <1>2, <1>6, <2>2, StepDoes
  <2>4. Data(t + 1)' /\ active' = active
    BY <1>2, <2>3, WithdrawnAt
  <2>5. Window' /\ Spent'
    BY <1>1, <2>3, QueueStays DEF Window
  <2>6. Downing(t + 1)'
    BY <1>1, <2>3, <2>4, <2>5 DEF Downing, Down23
  <2>7. t + 1 \in 0..31
    OBVIOUS
  <2> QED  BY <2>4, <2>5, <2>6, <2>7, Described DEF Situation
<1> QED  BY <1>1, <1>4, <1>5, <1>6 DEF Down22

(* The poll timer is destroyed.                                            *)
LEMMA Down23Step ==
    ASSUME NEW t \in 0..31, t = 23, Window, Data(t), Downing(t), Thread
    PROVE  ShutdownInv'
PROOF
<1>1. phase = "loop" /\ Spent /\ active = <<>> /\ todo \in Down23 /\ t \in 21..25
  BY DEF Downing
<1>2. /\ Down \in Seq(Steps) /\ DownC \in Seq(Steps)
      /\ Push(Fire("shutdownHandlers", 2), DownC) \in Seq(Steps)
      /\ "poll_timer" \in Handler /\ Destroy("poll_timer") \in Steps
  <2>1. "shutdownHandlers" \in Handler /\ 2 \in Nat /\ "poll_timer" \in Handler
    BY DEF Handler, Core, Timer
  <2>2. /\ Fire("shutdownHandlers", 2) \in Steps /\ Destroy("poll_timer") \in Steps
        /\ Down \in Seq(Steps) /\ DownC \in Seq(Steps)
    BY <2>1, StepsAre, StacksAre
  <2> QED  BY <2>1, <2>2, PushFacts
<1>3. ASSUME NEW s, Onward(t, s), s \in Down23 PROVE ShutdownInv'
  <2>1. Downing(t)'
    BY <1>1, <1>3, QueueStays DEF Onward, Downing
  <2> QED  BY <1>3, <2>1, Described DEF Onward, Situation
<1>4. CASE todo = Push(Fire("shutdownCallbacks", 2), Down)
  <2>1. Onward(t, Push(Fire("shutdownHandlers", 1), Push(Fire("shutdownCallbacks", 3), Down)))
    BY <1>1, <1>2, <1>4, CoreFires
  <2>2. Onward(t, Push(Fire("shutdownHandlers", 1), DownC))
    BY <2>1 DEF DownC
  <2> QED  BY <1>3, <2>2 DEF Down23
<1>5. CASE todo = Push(Fire("shutdownHandlers", 1), DownC)
  <2>1. Onward(t, Push(Destroy("poll_timer"), Push(Fire("shutdownHandlers", 2), DownC)))
    BY <1>1, <1>2, <1>5, CoreFires
  <2> QED  BY <1>3, <2>1 DEF Down23
<1>6. CASE todo = Push(Destroy("poll_timer"), Push(Fire("shutdownHandlers", 2), DownC))
  <2>1. "poll_timer" \in live /\ Dies("poll_timer") = t + 1
    <3>1. t \in 19..31 /\ t < Dies("poll_timer") /\ Dies("poll_timer") = t + 1
      BY DEF Dies
    <3> QED  BY <1>2, <3>1, LiveIs
  <2>2. /\ Destroy("poll_timer").do = "destroy" /\ Destroy("poll_timer").on = "poll_timer"
        /\ Valid(Destroy("poll_timer"))
    BY <2>1 DEF Destroy, Valid
  <2>3. /\ todo' = Push(Fire("shutdownHandlers", 2), DownC) /\ ~crashed' /\ UNCHANGED <<phase, clicks>>
        /\ Release("poll_timer") /\ UNCHANGED <<scripts, lua_handlers, context, sdl, queue>>
    BY <1>2, <1>6, <2>2, StepDoes
  <2>4. active' = <<>>
    BY <1>1, <2>3, NoneToRemove DEF Release
  <2>5. lua_handlers' = LuaHandlersAt(t + 1) /\ context' = ContextAt(t + 1)
    BY <2>3 DEF Data, LuaHandlersAt, ContextAt
  <2>6. Data(t + 1)'
    BY <1>2, <2>1, <2>3, <2>5, DiesAt
  <2>7. Window' /\ Spent'
    BY <1>1, <2>3, QueueStays DEF Window
  <2>8. Downing(t + 1)'
    BY <1>1, <2>3, <2>4, <2>7 DEF Downing, Down24
  <2>9. t + 1 \in 0..31
    OBVIOUS
  <2> QED  BY <2>6, <2>7, <2>8, <2>9, Described DEF Situation
<1> QED  BY <1>1, <1>4, <1>5, <1>6 DEF Down23

(* event.lua destroys the handlers the script has created.                 *)
LEMMA DestroysItsOwn ==
    ASSUME NEW t \in 0..31, Window, Data(t), "shutdownHandlers" \in live,
           scripts["shutdownHandlers"] = <<"destroy_lua_handlers">>,
           lua_handlers = <<"on_after_close">>, Thread,
           todo = Push(LuaDispatch("shutdownHandlers", 1, 1), Push(Fire("shutdownHandlers", 3), DownC))
    PROVE  Onward(t, Push(Destroy("on_after_close"), DownL))
PROOF
<1> DEFINE Rest == Push(Fire("shutdownHandlers", 3), DownC)
<1>1. /\ Rest \in Seq(Steps) /\ Destroy("on_after_close") \in Steps
      /\ "shutdownHandlers" \in Handler
      /\ LuaDispatch("shutdownHandlers", 2, 1) \in Steps
  <2>1. "shutdownHandlers" \in Handler /\ "on_after_close" \in Handler
    BY DEF Handler, Core
  <2> QED  BY <2>1, StepsAre, StacksAre
<1>2. todo = Push(LuaDispatch("shutdownHandlers", 1, 1), Rest) /\ "destroy_lua_handlers" # "ontick"
  OBVIOUS
<1> HIDE DEF Rest
<1>3. \E r : /\ r = (Body("destroy_lua_handlers", "shutdownHandlers")
                        \o <<LuaDispatch("shutdownHandlers", 2, 1)>>) \o Rest
             /\ Onward(t, r)
  BY <1>1, <1>2, LuaOn
<1>4. Body("destroy_lua_handlers", "shutdownHandlers") = <<Destroy("on_after_close")>>
  BY <1>1, BodyOf
<1>5. PICK r : /\ r = (<<Destroy("on_after_close")>> \o <<LuaDispatch("shutdownHandlers", 2, 1)>>) \o Rest
               /\ Onward(t, r)
  BY <1>3, <1>4
<1>6. r = Push(Destroy("on_after_close"), Push(LuaDispatch("shutdownHandlers", 2, 1), Rest))
  BY <1>1, <1>5, PushSome
<1>7. r = Push(Destroy("on_after_close"), DownL)
  BY <1>6 DEF DownL, Rest
<1> QED  BY <1>5, <1>7

(* So is the handler of the script.                                        *)
LEMMA Down24Step ==
    ASSUME NEW t \in 0..31, t = 24, Window, Data(t), Downing(t), Thread
    PROVE  ShutdownInv'
PROOF
<1>1. phase = "loop" /\ Spent /\ active = <<>> /\ todo \in Down24 /\ t \in 21..25
  BY DEF Downing
<1> DEFINE Rest == Push(Fire("shutdownHandlers", 3), DownC)
<1>2. /\ DownC \in Seq(Steps) /\ DownL \in Seq(Steps) /\ Rest \in Seq(Steps)
      /\ "on_after_close" \in Handler /\ Destroy("on_after_close") \in Steps
      /\ "shutdownHandlers" \in Handler
      /\ LuaDispatch("shutdownHandlers", 2, 1) \in Steps
  <2>1. "shutdownHandlers" \in Handler /\ "on_after_close" \in Handler
    BY DEF Handler, Core
  <2> QED  BY <2>1, StepsAre, StacksAre
<1>3. ASSUME NEW s, Onward(t, s), s \in Down24 PROVE ShutdownInv'
  <2>1. Downing(t)'
    BY <1>1, <1>3, QueueStays DEF Onward, Downing
  <2> QED  BY <1>3, <2>1, Described DEF Onward, Situation
<1>4. lua_handlers = <<"on_after_close">>
  BY DEF Data, LuaHandlersAt
<1>5. CASE todo = Push(Fire("shutdownHandlers", 2), DownC)
  <2>1. Onward(t, Push(LuaDispatch("shutdownHandlers", 1, 1), Rest))
    BY <1>1, <1>2, <1>5, CoreFires
  <2> QED  BY <1>3, <2>1 DEF Down24
<1>6. CASE todo = Push(LuaDispatch("shutdownHandlers", 1, 1), Rest)
  <2>1. "shutdownHandlers" \in live /\ scripts["shutdownHandlers"] = <<"destroy_lua_handlers">>
    <3>1. t \in 19..31 /\ t \in 19..25 /\ t < Dies("shutdownHandlers")
      BY DEF Dies
    <3> QED  BY <1>2, <3>1, LiveIs, CalledInLua
  <2>2. Onward(t, Push(Destroy("on_after_close"), DownL))
    BY <1>4, <1>6, <2>1, DestroysItsOwn
  <2> QED  BY <1>3, <2>2 DEF Down24
<1>7. CASE todo = Push(Destroy("on_after_close"), DownL)
  <2>1. "on_after_close" \in live /\ Dies("on_after_close") = t + 1
    <3>1. t \in 19..31 /\ t < Dies("on_after_close") /\ Dies("on_after_close") = t + 1
      BY DEF Dies
    <3> QED  BY <1>2, <3>1, LiveIs
  <2>2. /\ Destroy("on_after_close").do = "destroy" /\ Destroy("on_after_close").on = "on_after_close"
        /\ Valid(Destroy("on_after_close"))
    BY <2>1 DEF Destroy, Valid
  <2>3. /\ todo' = DownL /\ ~crashed' /\ UNCHANGED <<phase, clicks>>
        /\ Release("on_after_close") /\ UNCHANGED <<scripts, lua_handlers, context, sdl, queue>>
    BY <1>2, <1>7, <2>2, StepDoes
  <2>4. active' = <<>>
    BY <1>1, <2>3, NoneToRemove DEF Release
  <2>5. lua_handlers' = LuaHandlersAt(t + 1) /\ context' = ContextAt(t + 1)
    BY <2>3 DEF Data, LuaHandlersAt, ContextAt
  <2>6. Data(t + 1)'
    BY <1>2, <2>1, <2>3, <2>5, DiesAt
  <2>7. Window' /\ Spent'
    BY <1>1, <2>3, QueueStays DEF Window
  <2>8. Downing(t + 1)'
    BY <1>1, <2>3, <2>4, <2>7 DEF Downing, Down25
  <2>9. t + 1 \in 0..31
    OBVIOUS
  <2> QED  BY <2>6, <2>7, <2>8, <2>9, Described DEF Situation
<1> QED  BY <1>1, <1>5, <1>6, <1>7 DEF Down24

(* No timer is left, and the loop returns.                                 *)
LEMMA Down25Step ==
    ASSUME NEW t \in 0..31, t = 25, Window, Data(t), Downing(t), Thread
    PROVE  ShutdownInv'
PROOF
<1>1. phase = "loop" /\ Spent /\ active = <<>> /\ todo \in Down25 /\ t \in 21..25
  BY DEF Downing
<1>2. /\ <<>> \in Seq(Steps) /\ Down \in Seq(Steps) /\ DownC \in Seq(Steps)
      /\ Push(Fire("shutdownHandlers", 3), DownC) \in Seq(Steps)
      /\ Push(Fire("shutdownHandlers", 4), DownC) \in Seq(Steps)
      /\ "shutdownHandlers" \in Handler /\ DumpAll \in Steps
  <2>1. "shutdownHandlers" \in Handler /\ 4 \in Nat
    BY DEF Handler, Core
  <2>2. /\ Fire("shutdownHandlers", 4) \in Steps /\ DumpAll \in Steps
        /\ <<>> \in Seq(Steps) /\ Down \in Seq(Steps) /\ DownC \in Seq(Steps)
        /\ Push(Fire("shutdownHandlers", 3), DownC) \in Seq(Steps)
    BY <2>1, StepsAre, StacksAre
  <2> QED  BY <2>1, <2>2, PushFacts
<1>3. ASSUME NEW s, Onward(t, s), s \in Down25 PROVE ShutdownInv'
  <2>1. Downing(t)'
    BY <1>1, <1>3, QueueStays DEF Onward, Downing
  <2> QED  BY <1>3, <2>1, Described DEF Onward, Situation
<1>4. CASE todo = DownL
  <2>1. /\ "shutdownHandlers" \in live /\ scripts["shutdownHandlers"] = <<"destroy_lua_handlers">>
    <3>1. t \in 19..31 /\ t \in 19..25 /\ t < Dies("shutdownHandlers")
      BY DEF Dies
    <3> QED  BY <1>2, <3>1, LiveIs, CalledInLua
  <2>2. Len(scripts["shutdownHandlers"]) = 1
    BY <2>1
  <2>3. Len(scripts["shutdownHandlers"]) \in Nat /\ ~(2 <= Len(scripts["shutdownHandlers"])) /\ 2 = 1 + 1
    BY <2>2
  <2>4. todo = Push(LuaDispatch("shutdownHandlers", 2, 1), Push(Fire("shutdownHandlers", 3), DownC))
    BY <1>4 DEF DownL
  <2>5. Onward(t, Push(Fire("shutdownHandlers", 3), DownC))
    BY <1>2, <2>1, <2>3, <2>4, LuaEnds
  <2> QED  BY <1>3, <2>5 DEF Down25
<1>5. CASE todo = Push(Fire("shutdownHandlers", 3), DownC)
  <2>1. Onward(t, Push(DumpAll, Push(Fire("shutdownHandlers", 4), DownC)))
    BY <1>1, <1>2, <1>5, CoreFires
  <2> QED  BY <1>3, <2>1 DEF Down25
<1>6. CASE todo = Push(DumpAll, Push(Fire("shutdownHandlers", 4), DownC))
  <2>1. DumpAll.do = "dumpAll" /\ Valid(DumpAll)
    <3>1. "stderr" \notin Handler
      BY DEF Handler, Timer, Core
    <3> QED  BY <3>1 DEF DumpAll, Valid
  <2>2. /\ todo' = Push(Fire("shutdownHandlers", 4), DownC) /\ ~crashed' /\ UNCHANGED <<phase, clicks>>
        /\ UNCHANGED <<handlers, active>> /\ UNCHANGED <<scripts, lua_handlers, context, sdl, queue>>
    BY <1>2, <1>6, <2>1, StepDoes
  <2>3. Data(t)' /\ Window'
    BY <2>2, DataStays DEF handlers, Window
  <2>4. Onward(t, Push(Fire("shutdownHandlers", 4), DownC))
    BY <2>2, <2>3 DEF Onward
  <2> QED  BY <1>3, <2>4 DEF Down25
<1>7. CASE todo = Push(Fire("shutdownHandlers", 4), DownC)
  <2>1. Onward(t, DownC)
    BY <1>1, <1>2, <1>7, CoreFires
  <2> QED  BY <1>3, <2>1 DEF Down25
<1>8. CASE todo = DownC
  <2>1. todo = Push(Fire("shutdownCallbacks", 3), Down)
    BY <1>8 DEF DownC
  <2>2. Onward(t, Down)
    BY <1>1, <1>2, <2>1, CoreFires
  <2> QED  BY <1>3, <2>2 DEF Down25
<1>9. CASE todo = Down
  <2>1. todo = Push(Fire("shutdown", 3), <<>>)
    BY <1>9 DEF Down
  <2>2. Onward(t, <<>>)
    BY <1>1, <1>2, <2>1, CoreFires
  <2> QED  BY <1>3, <2>2 DEF Down25
<1>10. CASE todo = <<>>
  <2>1. live \cap Timer = {}
    <3>1. t \in 19..31 /\ \A h \in Timer : h \in Handler /\ ~(t < Dies(h))
      BY DEF Timer, Handler, Dies
    <3> QED  BY <3>1, LiveIs
  <2>2. /\ Data(t)' /\ Window' /\ UNCHANGED <<queue, clicks>>
        /\ phase' = "quit" /\ active' = active /\ todo' = IleQuit
    BY <1>1, <1>10, <2>1, IdleDoes
  <2>3. IleQuit = SubSeq(IleQuit, t - 24, 6)
    BY IleQuitIs, SubSeqFull
  <2>4. Quitting(t)'
    BY <1>1, <2>2, <2>3, QueueStays DEF Quitting
  <2> QED  BY <2>2, <2>4, Described DEF Situation
<1> QED  BY <1>1, <1>4, <1>5, <1>6, <1>7, <1>8, <1>9, <1>10 DEF Down25

(* The dispatch of shutdown, with the two others inside it.                *)
LEMMA DowningStep ==
    ASSUME NEW t \in 0..31, Window, Data(t), Downing(t), Thread
    PROVE  ShutdownInv'
PROOF
<1>1. t \in {21, 22, 23, 24, 25}
  BY DEF Downing
<1> QED  BY <1>1, Down21Step, Down22Step, Down23Step, Down24Step, Down25Step

(* ilE_quit() takes down what ilE_init() has set up.                       *)
LEMMA QuittingStep ==
    ASSUME NEW t \in 0..31, Window, Data(t), Quitting(t), Thread
    PROVE  ShutdownInv'
PROOF
<1>1. /\ phase = "quit" /\ Spent /\ active = <<>> /\ t \in 25..31
      /\ todo = SubSeq(IleQuit, t - 24, 6)
  BY DEF Quitting
<1>2. IleQuit \in Seq(Steps) /\ 6 = Len(IleQuit) /\ 6 \in Nat
  BY IleQuitIs
<1>3. CASE t = 31
  <2>1. PICK k : k = t - 24
    OBVIOUS
  <2>2. k \in 1..(6 + 1) /\ k = 6 + 1
    BY <1>3, <2>1
  <2>3. todo = <<>>
    BY <1>1, <1>2, <2>1, <2>2, RestIs
  <2>4. /\ Data(t)' /\ Window' /\ UNCHANGED <<queue, clicks>>
        /\ phase' = "exit" /\ todo' = <<>> /\ active' = active
    BY <1>1, <2>3, IdleDoes
  <2>5. Ended(t)'
    BY <1>1, <1>3, <2>4, QueueStays DEF Ended
  <2> QED  BY <2>4, <2>5, Described DEF Situation
<1>4. CASE t # 31
  <2>1. PICK k : k = t - 24
    OBVIOUS
  <2>2. k \in 1..(6 + 1) /\ k <= 6 /\ k + 1 = (t + 1) - 24 /\ t + 1 \in 25..31 /\ t + 1 \in 0..31
    BY <1>1, <1>4, <2>1
  <2>3. PICK op, rest : op = IleQuit[k] /\ rest = SubSeq(IleQuit, k + 1, 6)
    OBVIOUS
  <2>4. op \in Steps /\ todo = Push(op, rest)
    BY <1>1, <1>2, <2>1, <2>2, <2>3, RestIs
  <2>5. rest \in Seq(Steps)
    <3>1. k + 1 \in 1..(6 + 1)
      BY <2>2
    <3> QED  BY <1>2, <2>3, <3>1, RestIs
  <2>6. ASSUME todo' = rest, ~crashed', UNCHANGED <<phase, clicks, queue>>, active' = <<>>, Data(t + 1)'
        PROVE  ShutdownInv'
    <3>1. Window' /\ Spent'
      BY <1>1, <2>6, QueueStays DEF Window
    <3>2. Quitting(t + 1)'
      BY <1>1, <2>2, <2>3, <2>6, <3>1 DEF Quitting
    <3> QED  BY <2>2, <2>6, <3>1, <3>2, Described DEF Situation
  <2>7. \A h \in Core : h \in Handler /\ h \notin Timer
    BY DEF Core, Handler, Timer
  <2>8. ASSUME NEW h \in Core, NEW id \in Variables, op = Unregister(h, id),
               \/ t = 25 /\ h = "shutdown"
               \/ t = 26 /\ h = "shutdownCallbacks"
               \/ t = 27 /\ h = "shutdownHandlers"
        PROVE  ShutdownInv'
    <3>1. h \in live
      <4>1. t \in 19..31 /\ t < Dies(h)
        BY <2>8 DEF Dies
      <4> QED  BY <2>7, <4>1, LiveIs
    <3>2. op.do = "unregister" /\ op.on = h /\ op.id = id /\ Valid(op)
      BY <2>8, <3>1 DEF Unregister, Valid
    <3>3. /\ todo' = rest /\ ~crashed' /\ UNCHANGED <<phase, clicks>>
          /\ Withdraw(h, ids[id]) /\ UNCHANGED <<scripts, lua_handlers, context, sdl, queue>>
      BY <2>4, <2>5, <3>2, StepDoes
    <3>4. t \in {22, 25, 26, 27} /\ h \in Handler
      BY <2>7, <2>8
    <3>5. Data(t + 1)' /\ active' = active
      BY <2>8, <3>3, <3>4, WithdrawnAt
    <3> QED  BY <1>1, <2>6, <3>3, <3>5
  <2>9. ASSUME NEW h \in Core, op = Destroy(h), t \in {28, 29, 30}, Dies(h) = t + 1
        PROVE  ShutdownInv'
    <3>1. h \in live
      <4>1. t \in 19..31 /\ t < Dies(h)
        BY <2>9
      <4> QED  BY <2>7, <4>1, LiveIs
    <3>2. op.do = "destroy" /\ op.on = h /\ Valid(op)
      BY <2>9, <3>1 DEF Destroy, Valid
    <3>3. /\ todo' = rest /\ ~crashed' /\ UNCHANGED <<phase, clicks>>
          /\ Release(h) /\ UNCHANGED <<scripts, lua_handlers, context, sdl, queue>>
      BY <2>4, <2>5, <3>2, StepDoes
    <3>4. active' = <<>>
      BY <1>1, <2>7, <3>3 DEF Release
    <3>5. lua_handlers' = LuaHandlersAt(t + 1) /\ context' = ContextAt(t + 1)
      BY <2>9, <3>3 DEF Data, LuaHandlersAt, ContextAt
    <3>6. t \in {19, 20, 23, 24, 28, 29, 30} /\ h \in Handler
      BY <2>7, <2>9
    <3>7. Data(t + 1)'
      BY <2>9, <3>3, <3>5, <3>6, DiesAt
    <3> QED  BY <2>6, <3>3, <3>4, <3>7
  <2>10. /\ "shutdown" \in Core /\ "shutdownCallbacks" \in Core /\ "shutdownHandlers" \in Core
         /\ "shutdownCallbacks" \in Variables /\ "shutdownHandlers" \in Variables
         /\ "showRemaining" \in Variables
    BY DEF Core, Variables
  <2>11. /\ Dies("shutdown") = 29 /\ Dies("shutdownCallbacks") = 30 /\ Dies("shutdownHandlers") = 31
    BY DEF Dies
  <2>12. CASE t = 25
    <3>1. op = Unregister("shutdown", "shutdownCallbacks")
      BY <2>1, <2>3, <2>12, IleQuitIs
    <3> QED  BY <2>8, <2>10, <2>12, <3>1
  <2>13. CASE t = 26
    <3>1. op = Unregister("shutdownCallbacks", "shutdownHandlers")
      BY <2>1, <2>3, <2>13, IleQuitIs
    <3> QED  BY <2>8, <2>10, <2>13, <3>1
  <2>14. CASE t = 27
    <3>1. op = Unregister("shutdownHandlers", "showRemaining")
      BY <2>1, <2>3, <2>14, IleQuitIs
    <3> QED  BY <2>8, <2>10, <2>14, <3>1
  <2>15. CASE t = 28
    <3>1. op = Destroy("shutdown") /\ t + 1 = 29
      BY <2>1, <2>3, <2>15, IleQuitIs
    <3> QED  BY <2>9, <2>10, <2>11, <2>15, <3>1
  <2>16. CASE t = 29
    <3>1. op = Destroy("shutdownCallbacks") /\ t + 1 = 30
      BY <2>1, <2>3, <2>16, IleQuitIs
    <3> QED  BY <2>9, <2>10, <2>11, <2>16, <3>1
  <2>17. CASE t = 30
    <3>1. op = Destroy("shutdownHandlers") /\ t + 1 = 31
      BY <2>1, <2>3, <2>17, IleQuitIs
    <3> QED  BY <2>9, <2>10, <2>11, <2>17, <3>1
  <2>18. t \in {25, 26, 27, 28, 29, 30}
    BY <1>1, <1>4
  <2> QED  BY <2>12, <2>13, <2>14, <2>15, <2>16, <2>17, <2>18
<1> QED  BY <1>3, <1>4

(* Nothing comes after the end.                                            *)
LEMMA EndedStep ==
    ASSUME NEW t \in 0..31, Window, Data(t), Ended(t), Thread
    PROVE  ShutdownInv'
PROOF
<1>1. todo = <<>> /\ phase = "exit"
  BY DEF Ended
<1> QED  BY <1>1, IdleDoes
-----------------------------------------------------------------------------
(***************************************************************************)
(* The user                                                                *)
(***************************************************************************)

(* A click is counted and put behind the events that wait.                 *)
LEMMA UserStep ==
    ASSUME NEW t \in 0..31, Window, Data(t), Situation(t), NEW event \in {"resized", "close"},
           User(event)
    PROVE  ShutdownInv'
PROOF
<1>1. /\ context = "live" /\ sdl /\ ~crashed /\ queue' = Append(queue, event)
      /\ clicks[event] > 0 /\ clicks' = [clicks EXCEPT ![event] = @ - 1]
      /\ UNCHANGED <<phase, todo, active, context, sdl, crashed, scripts, lua_handlers>>
      /\ UNCHANGED <<live, callbacks, cur_id, persistent, ids>>
  BY DEF User, handlers, lua
<1>2. queue \in Seq({"resized", "close"}) /\ clicks \in [{"resized", "close"} -> Nat]
  BY DEF Window
<1>3. PICK n : n = Len(queue)
  OBVIOUS
<1>4. /\ n \in Nat /\ queue' \in Seq({"resized", "close"}) /\ DOMAIN queue = 1..n
      /\ DOMAIN queue' = 1..(n + 1)
      /\ \A i \in 1..n : queue'[i] = queue[i]
      /\ queue'[n + 1] = event
  BY <1>1, <1>2, <1>3, SetOfAppend, LenProperties
<1>5. /\ clicks' \in [{"resized", "close"} -> Nat]
      /\ event = "close" => clicks["close"] > 0 /\ clicks'["close"] = clicks["close"] - 1
      /\ event # "close" => clicks'["close"] = clicks["close"]
  BY <1>1, <1>2
<1>6. Window'
  BY <1>1, <1>4, <1>5 DEF Window
<1>7. Data(t)'
  BY <1>1, DataStays
<1>8. Spent => Spent'
  <2>1. ASSUME Spent PROVE Spent'
    <3>1. event # "close" /\ clicks'["close"] = 0
      BY <1>5, <2>1 DEF Spent
    <3>2. \A i \in 1..(n + 1) : queue'[i] # "close"
      BY <1>4, <2>1, <3>1 DEF Spent
    <3> QED  BY <1>4, <3>1, <3>2 DEF Spent
  <2> QED  BY <2>1
<1>9. Unspent => Unspent'
  <2>1. ASSUME Unspent PROVE Unspent'
    <3>1. clicks["close"] \in Nat /\ clicks["close"] <= 1
      BY <1>2, <2>1 DEF Unspent
    <3>2. CASE event = "close"
      <4>1. clicks["close"] = 1 /\ clicks'["close"] = 0
        BY <1>5, <3>1, <3>2
      <4>2. \A i \in 1..n : queue'[i] # "close"
        BY <1>4, <2>1, <4>1 DEF Unspent
      <4>3. \A i, j \in 1..(n + 1) : queue'[i] = "close" /\ queue'[j] = "close" => i = n + 1 /\ j = n + 1
        BY <1>4, <4>2
      <4>4. \A i \in 1..(n + 1) : queue'[i] = "close" =>
               clicks'["close"] = 0 /\ \A j \in 1..(n + 1) : queue'[j] = "close" => j = i
        BY <4>1, <4>3
      <4> QED  BY <1>4, <4>1, <4>4 DEF Unspent
    <3>3. CASE event # "close"
      <4>1. clicks'["close"] = clicks["close"]
        BY <1>5, <3>3
      <4>2. \A i \in 1..(n + 1) : queue'[i] = "close" => i \in 1..n /\ queue[i] = "close"
        BY <1>4, <3>3
      <4>3. \A i \in 1..(n + 1) : queue'[i] = "close" =>
               clicks'["close"] = 0 /\ \A j \in 1..(n + 1) : queue'[j] = "close" => j = i
        BY <1>4, <2>1, <4>1, <4>2 DEF Unspent
      <4> QED  BY <1>4, <3>1, <4>1, <4>3 DEF Unspent
    <3> QED  BY <3>2, <3>3
  <2> QED  BY <2>1
<1>10. t >= 14
  BY <1>1 DEF Data, ContextAt
<1>11. TickStacks' = TickStacks
  BY <1>1 DEF TickStacks
<1>12. CASE Starting(t)
  <2>1. Starting(t)'
    BY <1>1, <1>9, <1>10, <1>12 DEF Starting
  <2> QED  BY <1>6, <1>7, <2>1, Described DEF Situation
<1>13. CASE Open(t)
  <2>1. PollOnce'
    BY <1>1, <1>13 DEF Open, PollOnce
  <2>2. Open(t)'
    BY <1>1, <1>9, <1>11, <1>13, <2>1 DEF Open
  <2> QED  BY <1>6, <1>7, <2>2, Described DEF Situation
<1>14. CASE Closing(t)
  <2>1. Closing(t)'
    BY <1>1, <1>8, <1>14 DEF Closing
  <2> QED  BY <1>6, <1>7, <2>1, Described DEF Situation
<1>15. CASE Clicked(t)
  <2>1. Clicked(t)'
    BY <1>1, <1>8, <1>11, <1>15 DEF Clicked
  <2> QED  BY <1>6, <1>7, <2>1, Described DEF Situation
<1>16. CASE Leave(t)
  <2>1. Leave(t)'
    BY <1>1, <1>8, <1>16 DEF Leave
  <2> QED  BY <1>6, <1>7, <2>1, Described DEF Situation
<1>17. CASE Gone(t)
  <2>1. Gone(t)'
    BY <1>1, <1>8, <1>17 DEF Gone
  <2> QED  BY <1>6, <1>7, <2>1, Described DEF Situation
<1>18. CASE Downing(t)
  <2>1. Downing(t)'
    BY <1>1, <1>8, <1>18 DEF Downing
  <2> QED  BY <1>6, <1>7, <2>1, Described DEF Situation
<1>19. CASE Quitting(t)
  <2>1. Quitting(t)'
    BY <1>1, <1>8, <1>19 DEF Quitting
  <2> QED  BY <1>6, <1>7, <2>1, Described DEF Situation
<1>20. CASE Ended(t)
  <2>1. Ended(t)'
    BY <1>1, <1>8, <1>20 DEF Ended
  <2> QED  BY <1>6, <1>7, <2>1, Described DEF Situation
<1> QED
  BY <1>12, <1>13, <1>14, <1>15, <1>16, <1>17, <1>18, <1>19, <1>20 DEF Situation

(* A step that changes nothing.                                            *)
LEMMA NoStep ==
    ASSUME ShutdownInv, UNCHANGED vars
    PROVE  ShutdownInv'
PROOF
<1>1. UNCHANGED <<phase, todo, live, callbacks, cur_id, persistent, ids, active, scripts,
                  lua_handlers, context, sdl, queue, clicks, crashed>>
  BY DEF vars, handlers, lua, window
<1>2. Window /\ \E t \in 0..31 : Data(t) /\ Situation(t)
  BY DEF ShutdownInv
<1>3. PICK t \in 0..31 : Data(t) /\ Situation(t)
  BY <1>2
<1>4. Window' /\ Data(t)'
  BY <1>1, <1>2, <1>3, DataStays DEF Window
<1>5. Spent' = Spent /\ Unspent' = Unspent /\ PollOnce' = PollOnce /\ TickStacks' = TickStacks
  BY <1>1 DEF Spent, Unspent, PollOnce, TickStacks
<1>6. /\ Starting(t)' = Starting(t) /\ Open(t)' = Open(t) /\ Closing(t)' = Closing(t)
      /\ Clicked(t)' = Clicked(t) /\ Leave(t)' = Leave(t) /\ Gone(t)' = Gone(t)
      /\ Downing(t)' = Downing(t) /\ Quitting(t)' = Quitting(t) /\ Ended(t)' = Ended(t)
  BY <1>1, <1>5 DEF Starting, Open, Closing, Clicked, Leave, Gone, Downing, Quitting, Ended
<1>7. Situation(t)'
  BY <1>3, <1>6 DEF Situation
<1> QED  BY <1>4, <1>7, Described
-----------------------------------------------------------------------------
(***************************************************************************)
(* The invariant                                                           *)
(***************************************************************************)

(* A user who closes the window no more than once is what it is about.     *)
LEMMA Begins ==
    ASSUME Init, MaxCloses <= 1
    PROVE  ShutdownInv
PROOF
<1>1. /\ phase = "start" /\ todo = Opening /\ live = {} /\ persistent = {} /\ active = <<>>
      /\ callbacks = [h \in Handler |-> <<>>] /\ cur_id = [h \in Handler |-> 0]
      /\ ids = [v \in Variables |-> 0] /\ scripts = [h \in Handler |-> <<>>] /\ lua_handlers = <<>>
      /\ context = "none" /\ sdl = FALSE /\ queue = <<>>
      /\ clicks = [resized |-> MaxResizes, close |-> MaxCloses] /\ crashed = FALSE
  BY DEF Init, Opening, Variables
<1>2. todo = SubSeq(Opening, 0 + 1, 19)
  <2>1. Opening \in Seq(Steps) /\ Len(Opening) = 19
    BY OpeningIs
  <2>2. SubSeq(Opening, 1, Len(Opening)) = Opening
    BY <2>1, SubSeqFull
  <2> QED  BY <1>1, <2>1, <2>2
<1>3. Window
  <2>1. MaxResizes \in Nat /\ MaxCloses \in Nat
    BY ShutdownAssumption
  <2> QED  BY <1>1, <2>1 DEF Window
<1>4. Unspent
  <2>1. DOMAIN queue = {} /\ clicks["close"] = MaxCloses
    BY <1>1
  <2> QED  BY <2>1 DEF Unspent
<1>5. Starting(0)
  BY <1>1, <1>2, <1>4 DEF Starting
<1>6. live = LiveAt(0) /\ persistent = live \cap Timer
  <2>1. \A h \in Handler : ~(Born(h) <= 0)
    BY TimesAre
  <2> QED  BY <1>1, <2>1 DEF LiveAt
<1>7. \A h \in Handler : CallbacksAt(h, 0) = <<>>
  BY DEF CallbacksAt, Handler, Timer, Core
<1>8. \A h \in Handler : CountAt(h, 0) = 0
  BY <1>7 DEF CountAt
<1>9. scripts \in ScriptsAt(0)
  <2>1. \A h \in Handler : ScriptAt(h, 0, <<>>) = <<>>
    BY DEF ScriptAt, Handler, Timer, Core
  <2>2. scripts = [h \in Handler |-> ScriptAt(h, 0, <<>>)]
    BY <1>1, <2>1
  <2> QED  BY <2>2 DEF ScriptsAt
<1>10. callbacks = [h \in Handler |-> CallbacksAt(h, 0)] /\ cur_id = [h \in Handler |-> CountAt(h, 0)]
  BY <1>1, <1>7, <1>8
<1>11. lua_handlers = LuaHandlersAt(0) /\ context = ContextAt(0) /\ sdl = (7 <= 0 /\ 0 < 22)
  <2>1. (7 <= 0 /\ 0 < 22) = FALSE
    OBVIOUS
  <2>2. LuaHandlersAt(0) = <<>> /\ ContextAt(0) = "none"
    BY DEF LuaHandlersAt, ContextAt
  <2> QED  BY <1>1, <2>1, <2>2
<1>12. Data(0)
  BY <1>1, <1>6, <1>9, <1>10, <1>11 DEF Data
<1>13. 0 \in 0..31
  OBVIOUS
<1> QED  BY <1>3, <1>5, <1>12, <1>13 DEF ShutdownInv, Situation

(* Every step of the thread and of the user leads to a situation of these. *)
LEMMA GoesOn ==
    ASSUME ShutdownInv, [Next]_vars
    PROVE  ShutdownInv'
PROOF
<1>1. Window /\ \E t \in 0..31 : Data(t) /\ Situation(t)
  BY DEF ShutdownInv
<1>2. PICK t \in 0..31 : Data(t) /\ Situation(t)
  BY <1>1
<1>3. CASE Thread
  <2>1. CASE Starting(t)
    BY <1>1, <1>2, <1>3, <2>1, StartingStep
  <2>2. CASE Open(t)
    BY <1>1, <1>2, <1>3, <2>2, OpenStep
  <2>3. CASE Closing(t)
    BY <1>1, <1>2, <1>3, <2>3, ClosingStep
  <2>4. CASE Clicked(t)
    BY <1>1, <1>2, <1>3, <2>4, ClickedStep
  <2>5. CASE Leave(t)
    BY <1>1, <1>2, <1>3, <2>5, LeaveStep
  <2>6. CASE Gone(t)
    BY <1>1, <1>2, <1>3, <2>6, GoneStep
  <2>7. CASE Downing(t)
    BY <1>1, <1>2, <1>3, <2>7, DowningStep
  <2>8. CASE Quitting(t)
    BY <1>1, <1>2, <1>3, <2>8, QuittingStep
  <2>9. CASE Ended(t)
    BY <1>1, <1>2, <1>3, <2>9, EndedStep
  <2> QED  BY <1>2, <2>1, <2>2, <2>3, <2>4, <2>5, <2>6, <2>7, <2>8, <2>9 DEF Situation
<1>4. ASSUME NEW event \in {"resized", "close"}, User(event) PROVE ShutdownInv'
  BY <1>1, <1>2, <1>4, UserStep
<1>5. CASE UNCHANGED vars
  BY <1>5, NoStep
<1> QED  BY <1>3, <1>4, <1>5 DEF Next

(* The program, whose user closes the window no more than once, is always  *)
(* at one of the times above and in the situation that goes with it.       *)
THEOREM ShutdownInvariant ==
    ASSUME MaxCloses <= 1
    PROVE  Spec => []ShutdownInv
PROOF
<1>1. Init => ShutdownInv
  BY Begins
<1>2. ShutdownInv /\ [Next]_vars => ShutdownInv'
  BY GoesOn
<1> QED  BY <1>1, <1>2, PTL DEF Spec

(* No handler, context or callback is used after it was freed: neither by  *)
(* the poll that goes on behind the close event, nor by timers that are    *)
(* due when the window goes, nor inside the dispatches of shutdown, nor by *)
(* ilE_quit().                                                             *)
THEOREM NoUseAfterFreeHolds ==
    ASSUME MaxCloses <= 1
    PROVE  Spec => []NoUseAfterFree
PROOF
<1>1. ShutdownInv => NoUseAfterFree
  BY DEF ShutdownInv, Window, NoUseAfterFree
<1> QED  BY <1>1, ShutdownInvariant, PTL

(* SDL is there as long as the context, its window and its thread are.     *)
THEOREM ContextGoneBeforeSDLHolds ==
    ASSUME MaxCloses <= 1
    PROVE  Spec => []ContextGoneBeforeSDL
PROOF
<1>1. ShutdownInv => ContextGoneBeforeSDL
  <2>1. ASSUME ShutdownInv, context = "live" PROVE sdl
    <3>1. PICK t \in 0..31 : Data(t)
      BY <2>1 DEF ShutdownInv
    <3>2. 14 <= t /\ t < 21
      BY <2>1, <3>1 DEF Data, ContextAt
    <3>3. 7 <= t /\ t < 22
      BY <3>2
    <3> QED  BY <3>1, <3>3 DEF Data
  <2> QED  BY <2>1 DEF ContextGoneBeforeSDL
<1> QED  BY <1>1, ShutdownInvariant, PTL

-----------------------------------------------------------------------------
(***************************************************************************)
(* What the invariant says of the list, and of callbacks                   *)
(***************************************************************************)

(* When the program starts nothing is listed.                              *)
LEMMA OpeningFirst ==
    ASSUME NEW t \in 0..31, Starting(t)
    PROVE  todo \in Seq(Steps) /\ (todo # <<>> => Head(todo).do # "dumpAll")
PROOF
<1>1. t \in 0..19 /\ todo = SubSeq(Opening, t + 1, 19)
  BY DEF Starting
<1>2. Opening \in Seq(Steps) /\ 19 = Len(Opening) /\ 19 \in Nat
  BY OpeningIs
<1>3. PICK k : k = t + 1
  OBVIOUS
<1>4. k \in 1..(19 + 1)
  BY <1>1, <1>3
<1>5. CASE k = 19 + 1
  BY <1>1, <1>2, <1>3, <1>4, <1>5, RestIs
<1>6. CASE k <= 19
  <2>1. k + 1 \in 1..(19 + 1)
    BY <1>4, <1>6
  <2>2. SubSeq(Opening, k + 1, 19) \in Seq(Steps)
    BY <1>2, <2>1, RestIs
  <2>3. /\ Opening[k] \in Steps /\ todo = Push(Opening[k], SubSeq(Opening, k + 1, 19))
        /\ todo \in Seq(Steps)
    BY <1>1, <1>2, <1>3, <1>4, <1>6, RestIs
  <2>4. Head(todo) = Opening[k]
    BY <2>2, <2>3, PushFacts
  <2>5. Opening[k].do # "dumpAll"
    <3>1. PICK op : op = Opening[k]
      OBVIOUS
    <3>2. /\ \A h : New(h).do = "new"
          /\ \A h, f, p, id : Register(h, f, p, id).do = "register"
          /\ \A h : LuaNew(h).do = "event.create"
          /\ \A h, f : LuaRegister(h, f).do = "event.register"
          /\ SDL("sdl.init").do = "sdl.init" /\ Context("context.new").do = "context.new"
      BY DEF New, Register, LuaNew, LuaRegister, SDL, Context
    <3>3. CASE k \in 1..6
      <4>1. k = 1 \/ k = 2 \/ k = 3 \/ k = 4 \/ k = 5 \/ k = 6
        BY <3>3
      <4>2. \/ \E h : op = New(h)
            \/ \E h, f, p, id : op = Register(h, f, p, id)
        BY <3>1, <4>1, OpeningIs
      <4> QED  BY <3>1, <3>2, <4>2
    <3>4. CASE k \in 7..12
      <4>1. k = 7 \/ k = 8 \/ k = 9 \/ k = 10 \/ k = 11 \/ k = 12
        BY <3>4
      <4>2. \/ op = SDL("sdl.init")
            \/ \E h : op = New(h)
            \/ \E h, f, p, id : op = Register(h, f, p, id)
        BY <3>1, <4>1, OpeningIs
      <4> QED  BY <3>1, <3>2, <4>2
    <3>5. CASE k \in 13..19
      <4>1. k = 13 \/ k = 14 \/ k = 15 \/ k = 16 \/ k = 17 \/ k = 18 \/ k = 19
        BY <3>5
      <4>2. \/ op = Context("context.new")
            \/ \E h : op = LuaNew(h)
            \/ \E h, f : op = LuaRegister(h, f)
        BY <3>1, <4>1, OpeningIs
      <4> QED  BY <3>1, <3>2, <4>2
    <3> QED  BY <1>4, <1>6, <3>3, <3>4, <3>5
  <2> QED  BY <2>3, <2>4, <2>5
<1> QED  BY <1>4, <1>5, <1>6

(* When ilE_quit() runs nothing is listed, and what is first is known.     *)
LEMMA QuitFirst ==
    ASSUME NEW t \in 0..31, Quitting(t)
    PROVE  /\ todo \in Seq(Steps) /\ (todo # <<>> => Head(todo).do # "dumpAll")
           /\ t < 28 => todo # <<>> /\ Head(todo).do # "destroy"
PROOF
<1>1. t \in 25..31 /\ todo = SubSeq(IleQuit, t - 24, 6)
  BY DEF Quitting
<1>2. IleQuit \in Seq(Steps) /\ 6 = Len(IleQuit) /\ 6 \in Nat
  BY IleQuitIs
<1>3. PICK k : k = t - 24
  OBVIOUS
<1>4. k \in 1..(6 + 1)
  BY <1>1, <1>3
<1>5. CASE k = 6 + 1
  <2>1. ~(t < 28)
    BY <1>1, <1>3, <1>5
  <2>2. todo = <<>> /\ todo \in Seq(Steps)
    BY <1>1, <1>2, <1>3, <1>4, <1>5, RestIs
  <2> QED  BY <2>1, <2>2
<1>6. CASE k <= 6
  <2>1. k + 1 \in 1..(6 + 1)
    BY <1>4, <1>6
  <2>2. SubSeq(IleQuit, k + 1, 6) \in Seq(Steps)
    BY <1>2, <2>1, RestIs
  <2>3. /\ IleQuit[k] \in Steps /\ todo = Push(IleQuit[k], SubSeq(IleQuit, k + 1, 6))
        /\ todo \in Seq(Steps)
    BY <1>1, <1>2, <1>3, <1>4, <1>6, RestIs
  <2>4. todo # <<>> /\ Head(todo) = IleQuit[k]
    BY <2>2, <2>3, PushFacts
  <2>5. IleQuit[k].do # "dumpAll" /\ (k <= 3 => IleQuit[k].do # "destroy")
    <3>1. ASSUME NEW h, NEW id
          PROVE  /\ Unregister(h, id).do # "dumpAll" /\ Destroy(h).do # "dumpAll"
                 /\ Unregister(h, id).do # "destroy"
      BY DEF Unregister, Destroy
    <3>2. k \in 1..3 \/ (k \in 4..6 /\ ~(k <= 3))
      <4>1. k \in 1..6
        BY <1>4, <1>6
      <4> QED  BY <4>1
    <3>3. CASE k \in 1..3
      <4>1. k = 1 \/ k = 2 \/ k = 3
        BY <3>3
      <4> QED  BY <3>1, <4>1, IleQuitIs
    <3>4. CASE k \in 4..6 /\ ~(k <= 3)
      <4>1. k = 4 \/ k = 5 \/ k = 6
        BY <3>4
      <4> QED  BY <3>1, <3>4, <4>1, IleQuitIs
    <3> QED  BY <3>2, <3>3, <3>4
  <2>6. t < 28 => k <= 3
    BY <1>1, <1>3
  <2> QED  BY <2>3, <2>4, <2>5, <2>6
<1> QED  BY <1>4, <1>5, <1>6

(* The list is one of steps, and ilE_dumpAll() is called at one time only. *)
LEMMA ListIs ==
    ASSUME NEW t \in 0..31, Data(t), Situation(t)
    PROVE  todo \in Seq(Steps) /\ (todo # <<>> => (Head(todo).do = "dumpAll" => t = 25))
PROOF
<1> DEFINE G == todo \in Seq(Steps) /\ (todo # <<>> => (Head(todo).do = "dumpAll" => t = 25))
<1>1. \A op \in Steps, s \in Seq(Steps) : todo = Push(op, s) /\ (op.do = "dumpAll" => t = 25) => G
  BY PushFacts
<1>2. todo = <<>> => G
  BY StacksAre
<1> HIDE DEF G
<1>3. /\ \A h \in {"poll_timer", "tick", "close", "on_after_close", "shutdown", "shutdownCallbacks",
                   "shutdownHandlers"} : h \in Handler
      /\ "poll" \in Variables /\ 1 \in Nat /\ 2 \in Nat /\ 3 \in Nat /\ 4 \in Nat
  BY DEF Handler, Timer, Core, Variables
<1>4. \A h \in Handler : /\ FireAsync(h) \in Steps /\ FireAsync(h).do # "dumpAll"
                         /\ Destroy(h) \in Steps /\ Destroy(h).do # "dumpAll"
                         /\ LuaDestroy(h) \in Steps /\ LuaDestroy(h).do # "dumpAll"
  <2>1. ASSUME NEW h \in Handler
        PROVE  FireAsync(h).do # "dumpAll" /\ Destroy(h).do # "dumpAll" /\ LuaDestroy(h).do # "dumpAll"
    BY DEF FireAsync, Destroy, LuaDestroy
  <2>2. ASSUME NEW h \in Handler
        PROVE  FireAsync(h) \in Steps /\ Destroy(h) \in Steps /\ LuaDestroy(h) \in Steps
    BY StepsAre
  <2> QED  BY <2>1, <2>2
<1>5. /\ \A h \in Handler, i \in Nat : Fire(h, i) \in Steps /\ Fire(h, i).do # "dumpAll"
      /\ \A h \in Handler, i, n \in Nat : LuaDispatch(h, i, n) \in Steps /\ LuaDispatch(h, i, n).do # "dumpAll"
  BY StepsAre DEF Fire, LuaDispatch
<1>6. /\ \A do \in {"context.use", "context.free"} : Context(do) \in Steps /\ Context(do).do # "dumpAll"
      /\ \A do \in {"sdl.poll", "sdl.quit"} : SDL(do) \in Steps /\ SDL(do).do # "dumpAll"
      /\ \A h \in Handler, id \in Variables :
            Unregister(h, id) \in Steps /\ Unregister(h, id).do # "dumpAll"
  BY StepsAre DEF Context, SDL, Unregister
<1>7. /\ <<>> \in Seq(Steps) /\ Polled \in Seq(Steps) /\ Polling \in Seq(Steps)
      /\ Ticked \in Seq(Steps) /\ ClosedOnce \in Seq(Steps) /\ Closed \in Seq(Steps)
      /\ Left \in Seq(Steps) /\ Leaving \in Seq(Steps)
      /\ Leaving21 \in Seq(Steps) /\ Leaving20 \in Seq(Steps)
      /\ Down \in Seq(Steps) /\ DownC \in Seq(Steps) /\ DownL \in Seq(Steps)
      /\ Push(Fire("shutdownHandlers", 3), DownC) \in Seq(Steps)
  BY StacksAre
<1>8. \A op \in Steps, s \in Seq(Steps) : Push(op, s) \in Seq(Steps)
  BY PushFacts
<1>9. todo \in PollStacks => G
  BY <1>1, <1>3, <1>5, <1>6, <1>7 DEF PollStacks, Polling, Polled
<1>10. t = 19 /\ todo \in TickStacks => G
  <2>1. ASSUME t = 19, todo \in TickStacks PROVE G
    <3>1. PICK n \in Nat : n = Len(scripts["tick"])
      <4>1. t \in 19..25
        BY <2>1
      <4>2. scripts["tick"] = <<>> \/ scripts["tick"] = <<"ontick">>
        BY <4>1, CalledInLua
      <4>3. Len(<<>>) = 0 /\ Len(<<"ontick">>) = 1
        OBVIOUS
      <4> QED  BY <4>2, <4>3
    <3>2. /\ LuaDispatch("tick", 2, 1) \in Steps /\ Context("context.use") \in Steps
          /\ LuaDispatch("tick", 1, n) \in Steps
          /\ Push(LuaDispatch("tick", 2, 1), Ticked) \in Seq(Steps)
      BY <1>3, <1>5, <1>6, <1>7, <1>8
    <3>3. todo \in {Push(Fire("tick", 1), <<>>), Push(LuaDispatch("tick", 1, n), Ticked),
                    Push(Context("context.use"), Push(LuaDispatch("tick", 2, 1), Ticked)),
                    Push(LuaDispatch("tick", 2, 1), Ticked), Ticked}
      BY <2>1, <3>1 DEF TickStacks
    <3>4. todo = Push(Fire("tick", 1), <<>>) => G
      BY <1>1, <1>3, <1>5, <1>7
    <3>5. todo = Push(LuaDispatch("tick", 1, n), Ticked) => G
      BY <1>1, <1>3, <1>5, <1>7
    <3>6. todo = Push(Context("context.use"), Push(LuaDispatch("tick", 2, 1), Ticked)) => G
      BY <1>1, <1>6, <3>2
    <3>7. todo = Push(LuaDispatch("tick", 2, 1), Ticked) => G
      BY <1>1, <1>3, <1>5, <1>7
    <3>8. todo = Ticked => G
      BY <1>1, <1>3, <1>5, <1>7 DEF Ticked
    <3> QED  BY <3>3, <3>4, <3>5, <3>6, <3>7, <3>8
  <2> QED  BY <2>1
<1>11. todo \in CloseStacks => G
  BY <1>1, <1>3, <1>4, <1>5, <1>7 DEF CloseStacks
<1>12. todo \in ClosedStacks => G
  BY <1>1, <1>3, <1>5, <1>7 DEF ClosedStacks, Closed, ClosedOnce
<1>13. todo \in LeaveStacks => G
  BY <1>1, <1>3, <1>4, <1>5, <1>7 DEF LeaveStacks
<1>14. /\ todo = Leaving20 => G
       /\ todo = Leaving21 => G
  BY <1>1, <1>3, <1>4, <1>6, <1>7 DEF Leaving20, Leaving21
<1>15. /\ todo = Leaving => G
       /\ todo = Left => G
  BY <1>1, <1>3, <1>5, <1>7 DEF Leaving, Left
<1>16. todo \in Down21 => G
  <2>1. Push(Fire("shutdown", 2), <<>>) \in Seq(Steps)
    BY <1>3, <1>5, <1>7, <1>8
  <2> QED  BY <1>1, <1>3, <1>5, <1>6, <1>7, <2>1 DEF Down21
<1>17. todo \in Down22 => G
  <2>1. Push(Fire("shutdownCallbacks", 2), Down) \in Seq(Steps)
    BY <1>3, <1>5, <1>7, <1>8
  <2> QED  BY <1>1, <1>3, <1>5, <1>6, <1>7, <2>1 DEF Down22
<1>18. todo \in Down23 => G
  <2>1. Push(Fire("shutdownHandlers", 2), DownC) \in Seq(Steps)
    BY <1>3, <1>5, <1>7, <1>8
  <2> QED  BY <1>1, <1>3, <1>4, <1>5, <1>7, <2>1 DEF Down23
<1>19. todo \in Down24 => G
  BY <1>1, <1>3, <1>4, <1>5, <1>7 DEF Down24
<1>20. t = 25 /\ todo \in Down25 => G
  <2>1. Push(Fire("shutdownHandlers", 4), DownC) \in Seq(Steps) /\ DumpAll \in Steps
    BY <1>3, <1>5, <1>7, <1>8, StepsAre
  <2>2. t = 25 /\ todo \in Seq(Steps) => G
    BY DEF G
  <2>3. todo \in Down25 => todo \in Seq(Steps)
    BY <1>7, <1>8, <2>1 DEF Down25
  <2> QED  BY <2>2, <2>3
<1>21. Starting(t) => G
  BY OpeningFirst DEF G
<1>22. Open(t) \/ Closing(t) \/ Clicked(t) => G
  BY <1>2, <1>9, <1>10, <1>11, <1>12 DEF Open, Closing, Clicked
<1>23. Leave(t) \/ Gone(t) => G
  BY <1>2, <1>13, <1>14, <1>15 DEF Leave, Gone
<1>24. Downing(t) => G
  BY <1>16, <1>17, <1>18, <1>19, <1>20 DEF Downing
<1>25. Quitting(t) => G
  BY QuitFirst DEF G
<1>26. Ended(t) => G
  BY <1>2 DEF Ended
<1>27. G
  BY <1>21, <1>22, <1>23, <1>24, <1>25, <1>26 DEF Situation
<1> QED  BY <1>27 DEF G

(* ilE_dumpAll() finds no handler that keeps the program from ending.      *)
THEOREM NothingRemainsHolds ==
    ASSUME MaxCloses <= 1
    PROVE  Spec => []NothingRemains
PROOF
<1>1. ShutdownInv => NothingRemains
  <2>1. ASSUME ShutdownInv, todo # <<>>, Head(todo) = DumpAll PROVE persistent = {}
    <3>1. PICK t \in 0..31 : Data(t) /\ Situation(t)
      BY <2>1 DEF ShutdownInv
    <3>2. DumpAll.do = "dumpAll"
      BY DEF DumpAll
    <3>3. t = 25
      BY <2>1, <3>1, <3>2, ListIs
    <3>4. t \in 19..31 /\ \A h \in Timer : h \in Handler /\ ~(t < Dies(h))
      BY <3>3 DEF Timer, Handler, Dies
    <3>5. live \cap Timer = {}
      BY <3>1, <3>4, LiveIs
    <3> QED  BY <3>1, <3>5 DEF Data
  <2> QED  BY <2>1 DEF NothingRemains
<1> QED  BY <1>1, ShutdownInvariant, PTL

(* ilE_quit() takes off what ilE_init() has registered, and nothing else,  *)
(* although one variable keeps the handles of two of its callbacks.        *)
THEOREM QuitRemovesItsOwnHolds ==
    ASSUME MaxCloses <= 1
    PROVE  Spec => []QuitRemovesItsOwn
PROOF
<1>1. ShutdownInv => QuitRemovesItsOwn
  <2>1. ASSUME ShutdownInv, phase = "quit", todo # <<>> => Head(todo).do = "destroy", NEW h \in Core
        PROVE  {c.function : c \in ToSet(callbacks[h])}
                   = CASE h = "shutdown"          -> {"quit"}
                       [] h = "shutdownCallbacks" -> {"poll_shutdown_cb"}
                       [] h = "shutdownHandlers"  -> {"poll_shutdown_hnd", "lua_dispatch"}
    <3>1. PICK t \in 0..31 : Data(t) /\ Situation(t)
      BY <2>1 DEF ShutdownInv
    <3>2. Quitting(t)
      BY <2>1, <3>1 DEF Situation, Starting, Open, Closing, Clicked, Leave, Gone, Downing, Ended
    <3>3. /\ ~(t < 28) /\ ~(t < 27) /\ ~(t < 26) /\ ~(t < 13) /\ ~(t < 12) /\ ~(t < 11) /\ ~(t < 10)
          /\ ~(t < 6) /\ ~(t < 4) /\ ~(t < 2)
      <4>1. ~(t < 28)
        BY <2>1, <3>2, QuitFirst
      <4> QED  BY <4>1
    <3>4. callbacks[h] = CallbacksAt(h, t)
      BY <2>1, <3>1 DEF Data, Handler
    <3>5. CASE h = "shutdown"
      <4>1. callbacks[h] = <<Cb("quit", ILE_DONTCARE, 1)>>
        BY <3>3, <3>4, <3>5 DEF CallbacksAt
      <4>2. ToSet(callbacks[h]) = {Cb("quit", ILE_DONTCARE, 1)}
        BY <4>1 DEF ToSet
      <4> QED  BY <3>5, <4>2 DEF Cb
    <3>6. CASE h = "shutdownCallbacks"
      <4>1. callbacks[h] = <<Cb("poll_shutdown_cb", ILE_DONTCARE, 1)>>
        BY <3>3, <3>4, <3>6 DEF CallbacksAt
      <4>2. ToSet(callbacks[h]) = {Cb("poll_shutdown_cb", ILE_DONTCARE, 1)}
        BY <4>1 DEF ToSet
      <4> QED  BY <3>6, <4>2 DEF Cb
    <3>7. CASE h = "shutdownHandlers"
      <4>1. callbacks[h] = <<Cb("poll_shutdown_hnd", ILE_DONTCARE, 1), Cb("lua_dispatch", ILE_DONTCARE, 2)>>
        BY <3>3, <3>4, <3>7 DEF CallbacksAt
      <4>2. ToSet(callbacks[h]) = {Cb("poll_shutdown_hnd", ILE_DONTCARE, 1), Cb("lua_dispatch", ILE_DONTCARE, 2)}
        BY <4>1 DEF ToSet
      <4> QED  BY <3>7, <4>2 DEF Cb
    <3> QED  BY <3>5, <3>6, <3>7 DEF Core
  <2> QED  BY <2>1 DEF QuitRemovesItsOwn
<1> QED  BY <1>1, ShutdownInvariant, PTL

(* The elements of short sequences.                                        *)
LEMMA ShortSets ==
    ASSUME NEW a, NEW b, NEW c
    PROVE  /\ ToSet(<<>>) = {} /\ ToSet(<<a>>) = {a} /\ ToSet(<<a, b>>) = {a, b}
           /\ ToSet(<<a, b, c>>) = {a, b, c}
BY DEF ToSet

(* A handle is one of those a handler has given.                           *)
LEMMA HandlesAre ==
    ASSUME NEW h \in Handler, NEW t \in 0..31
    PROVE  \A c \in ToSet(CallbacksAt(h, t)) : c.handle \in 0..(CountAt(h, t) - 1)
PROOF
<1>1. PICK u \in 0..19 : u = IF t < 19 THEN t ELSE 19
  OBVIOUS
<1>2. CountAt(h, t) = Len(CallbacksAt(h, u))
  BY <1>1 DEF CountAt
<1>3. \A f, p, n : Cb(f, p, n).handle = n
  BY DEF Cb
<1>4. CallbacksAt(h, t) = <<>> => ToSet(CallbacksAt(h, t)) = {}
  BY ShortSets
<1>5. ASSUME NEW x, x.handle = 0, CallbacksAt(h, t) = <<x>>, CallbacksAt(h, u) = <<x>>
      PROVE  \A c \in ToSet(CallbacksAt(h, t)) : c.handle \in 0..(CountAt(h, t) - 1)
  <2>1. ToSet(CallbacksAt(h, t)) = {x}
    BY <1>5, ShortSets
  <2>2. CountAt(h, t) = 1
    BY <1>2, <1>5
  <2> QED  BY <1>5, <2>1, <2>2
<1>6. ASSUME NEW x, NEW y, x.handle = 1, y.handle = 0, CallbacksAt(h, u) = <<x, y>>,
             CallbacksAt(h, t) = <<x, y>> \/ CallbacksAt(h, t) = <<x>>
      PROVE  \A c \in ToSet(CallbacksAt(h, t)) : c.handle \in 0..(CountAt(h, t) - 1)
  <2>1. ToSet(CallbacksAt(h, t)) \subseteq {x, y}
    <3>1. ToSet(<<x>>) = {x} /\ ToSet(<<x, y>>) = {x, y}
      BY DEF ToSet
    <3> QED  BY <1>6, <3>1
  <2>2. CountAt(h, t) = 2
    BY <1>2, <1>6
  <2> QED  BY <1>6, <2>1, <2>2
<1>7. ASSUME NEW x, NEW y, NEW z, x.handle = 1, y.handle = 2, z.handle = 0,
             CallbacksAt(h, u) = <<x, y, z>>,
             CallbacksAt(h, t) = <<x, y, z>> \/ CallbacksAt(h, t) = <<x, y>>
      PROVE  \A c \in ToSet(CallbacksAt(h, t)) : c.handle \in 0..(CountAt(h, t) - 1)
  <2>1. ToSet(CallbacksAt(h, t)) \subseteq {x, y, z}
    <3>1. ToSet(<<x, y, z>>) = {x, y, z} /\ ToSet(<<x, y>>) = {x, y}
      BY DEF ToSet
    <3> QED  BY <1>7, <3>1
  <2>2. CountAt(h, t) = 3
    BY <1>2, <1>7
  <2> QED  BY <1>7, <2>1, <2>2
<1>8. CASE h = "shutdown"
  <2>1. CASE t < 2
    <3>1. CallbacksAt(h, t) = <<>>
      BY <1>8, <2>1 DEF CallbacksAt
    <3> QED  BY <1>4, <3>1
  <2>2. CASE ~(t < 2) /\ t < 12
    <3>1. u = t
      BY <1>1, <2>2
    <3>2. CallbacksAt(h, t) = <<Cb("shutdownCallbacks", ILE_AFTER, 0)>>
      BY <1>8, <2>2 DEF CallbacksAt
    <3> QED  BY <1>3, <1>5, <3>1, <3>2
  <2>3. CASE ~(t < 12)
    <3>1. ~(t < 2) /\ ~(u < 2) /\ ~(u < 12) /\ u < 26
      BY <1>1, <2>3
    <3>2. CallbacksAt(h, u) = <<Cb("quit", ILE_DONTCARE, 1), Cb("shutdownCallbacks", ILE_AFTER, 0)>>
      BY <1>8, <3>1 DEF CallbacksAt
    <3>3. \/ CallbacksAt(h, t) = <<Cb("quit", ILE_DONTCARE, 1), Cb("shutdownCallbacks", ILE_AFTER, 0)>>
          \/ CallbacksAt(h, t) = <<Cb("quit", ILE_DONTCARE, 1)>>
      BY <1>8, <2>3, <3>1 DEF CallbacksAt
    <3> QED  BY <1>3, <1>6, <3>2, <3>3
  <2> QED  BY <2>1, <2>2, <2>3
<1>9. CASE h = "shutdownCallbacks"
  <2>1. CASE t < 4
    <3>1. CallbacksAt(h, t) = <<>>
      BY <1>9, <2>1 DEF CallbacksAt
    <3> QED  BY <1>4, <3>1
  <2>2. CASE ~(t < 4) /\ t < 10
    <3>1. u = t
      BY <1>1, <2>2
    <3>2. CallbacksAt(h, t) = <<Cb("shutdownHandlers", ILE_AFTER, 0)>>
      BY <1>9, <2>2 DEF CallbacksAt
    <3> QED  BY <1>3, <1>5, <3>1, <3>2
  <2>3. CASE ~(t < 10)
    <3>1. ~(t < 4) /\ ~(u < 4) /\ ~(u < 10) /\ u < 27
      BY <1>1, <2>3
    <3>2. CallbacksAt(h, u)
            = <<Cb("poll_shutdown_cb", ILE_DONTCARE, 1), Cb("shutdownHandlers", ILE_AFTER, 0)>>
      BY <1>9, <3>1 DEF CallbacksAt
    <3>3. \/ CallbacksAt(h, t)
               = <<Cb("poll_shutdown_cb", ILE_DONTCARE, 1), Cb("shutdownHandlers", ILE_AFTER, 0)>>
          \/ CallbacksAt(h, t) = <<Cb("poll_shutdown_cb", ILE_DONTCARE, 1)>>
      BY <1>9, <2>3, <3>1 DEF CallbacksAt
    <3> QED  BY <1>3, <1>6, <3>2, <3>3
  <2> QED  BY <2>1, <2>2, <2>3
<1>10. CASE h = "shutdownHandlers"
  <2> DEFINE first  == Cb("poll_shutdown_hnd", ILE_DONTCARE, 1)
             second == Cb("lua_dispatch", ILE_DONTCARE, 2)
             last   == Cb("showRemaining", ILE_AFTER, 0)
  <2>1. first.handle = 1 /\ second.handle = 2 /\ last.handle = 0
    BY <1>3
  <2>2. CASE t < 6
    <3>1. CallbacksAt(h, t) = <<>>
      BY <1>10, <2>2 DEF CallbacksAt
    <3> QED  BY <1>4, <3>1
  <2>3. CASE ~(t < 6) /\ t < 11
    <3>1. u = t
      BY <1>1, <2>3
    <3>2. CallbacksAt(h, t) = <<last>>
      BY <1>10, <2>3 DEF CallbacksAt
    <3> HIDE DEF last
    <3> QED  BY <1>5, <2>1, <3>1, <3>2
  <2>4. CASE ~(t < 11) /\ t < 13
    <3>1. u = t /\ ~(t < 6)
      BY <1>1, <2>4
    <3>2. CallbacksAt(h, t) = <<first, last>>
      BY <1>10, <2>4, <3>1 DEF CallbacksAt
    <3> HIDE DEF first, last
    <3> QED  BY <1>6, <2>1, <3>1, <3>2
  <2>5. CASE ~(t < 13)
    <3>1. /\ ~(t < 6) /\ ~(t < 11)
          /\ ~(u < 6) /\ ~(u < 11) /\ ~(u < 13) /\ u < 28
      BY <1>1, <2>5
    <3>2. CallbacksAt(h, u) = <<first, second, last>>
      BY <1>10, <3>1 DEF CallbacksAt
    <3>3. CallbacksAt(h, t) = <<first, second, last>> \/ CallbacksAt(h, t) = <<first, second>>
      BY <1>10, <2>5, <3>1 DEF CallbacksAt
    <3> HIDE DEF first, second, last
    <3> QED  BY <1>7, <2>1, <3>2, <3>3
  <2> QED  BY <2>2, <2>3, <2>4, <2>5
<1>11. CASE h = "poll_timer"
  <2>1. CallbacksAt(h, t) = <<>> \/ (~(t < 9) /\ CallbacksAt(h, t) = <<Cb("poll_events", ILE_DONTCARE, 0)>>)
    <3>1. t < 9 \/ t >= 23 => CallbacksAt(h, t) = <<>>
      BY <1>11 DEF CallbacksAt
    <3>2. ~(t < 9) /\ ~(t >= 23) => CallbacksAt(h, t) = <<Cb("poll_events", ILE_DONTCARE, 0)>>
      BY <1>11 DEF CallbacksAt
    <3> QED  BY <3>1, <3>2
  <2>2. ~(t < 9) => CallbacksAt(h, u) = <<Cb("poll_events", ILE_DONTCARE, 0)>>
    <3>1. ~(t < 9) => ~(u < 9) /\ ~(u >= 23)
      BY <1>1
    <3> QED  BY <1>11, <3>1 DEF CallbacksAt
  <2> QED  BY <1>3, <1>4, <1>5, <2>1, <2>2
<1>12. CASE h \in {"tick", "close", "on_after_close"}
  <2>1. PICK x : x = Cb("lua_dispatch", ILE_DONTCARE, 0)
    OBVIOUS
  <2>2. x.handle = 0
    BY <1>3, <2>1
  <2>3. PICK b : b = IF h = "tick" THEN 17 ELSE IF h = "close" THEN 18 ELSE 19
    OBVIOUS
  <2>4. CASE t < b
    <3>1. CallbacksAt(h, t) = <<>>
      <4>1. CASE h = "tick"
        BY <2>3, <2>4, <4>1 DEF CallbacksAt
      <4>2. CASE h = "close"
        BY <2>3, <2>4, <4>2 DEF CallbacksAt
      <4>3. CASE h = "on_after_close"
        BY <2>3, <2>4, <4>3 DEF CallbacksAt
      <4> QED  BY <1>12, <4>1, <4>2, <4>3
    <3> QED  BY <1>4, <3>1
  <2>5. CASE ~(t < b)
    <3>1. CallbacksAt(h, t) = <<x>> /\ CallbacksAt(h, u) = <<x>>
      <4>1. CASE h = "tick"
        <5>1. ~(t < 17) /\ ~(u < 17)
          BY <1>1, <2>3, <2>5, <4>1
        <5> QED  BY <2>1, <4>1, <5>1 DEF CallbacksAt
      <4>2. CASE h = "close"
        <5>1. ~(t < 18) /\ ~(u < 18)
          BY <1>1, <2>3, <2>5, <4>2
        <5> QED  BY <2>1, <4>2, <5>1 DEF CallbacksAt
      <4>3. CASE h = "on_after_close"
        <5>1. ~(t < 19) /\ ~(u < 19)
          BY <1>1, <2>3, <2>5, <4>3
        <5> QED  BY <2>1, <4>3, <5>1 DEF CallbacksAt
      <4> QED  BY <1>12, <4>1, <4>2, <4>3
    <3> QED  BY <1>5, <2>2, <3>1
  <2> QED  BY <2>4, <2>5
<1> QED  BY <1>8, <1>9, <1>10, <1>11, <1>12 DEF Handler, Timer, Core

(* Every variable has its type, and every handle in use was given out.     *)
THEOREM ShutdownTypeCorrect ==
    ASSUME MaxCloses <= 1
    PROVE  Spec => []TypeOK
PROOF
<1>1. ShutdownInv => TypeOK
  <2>1. SUFFICES ASSUME ShutdownInv PROVE TypeOK
    OBVIOUS
  <2>2. Window /\ \E t \in 0..31 : Data(t) /\ Situation(t)
    BY <2>1 DEF ShutdownInv
  <2>3. PICK t \in 0..31 : Data(t) /\ Situation(t)
    BY <2>2
  <2>4. phase \in {"start", "loop", "quit", "exit"} /\ active \in Seq(Handler)
    <3>1. /\ "tick" \in Handler /\ "shutdown" \in Handler /\ Timer \subseteq Handler
          /\ {"tick"} \subseteq Handler
      BY DEF Handler, Timer, Core
    <3>2. Starting(t) \/ Leave(t) \/ Downing(t) \/ Quitting(t) \/ Ended(t) =>
             phase \in {"start", "loop", "quit", "exit"} /\ active = <<>>
      BY DEF Starting, Leave, Downing, Quitting, Ended
    <3>3. Open(t) => phase = "loop" /\ active \in Seq(Timer)
      BY DEF Open
    <3>4. Closing(t) => phase = "loop" /\ active \in Seq({"tick"})
      BY DEF Closing
    <3>5. Clicked(t) => phase = "loop" /\ active \in Seq(Handler)
      BY DEF Clicked
    <3>6. Gone(t) => phase = "loop" /\ active = <<"shutdown">>
      BY DEF Gone
    <3>7. <<>> \in Seq(Handler) /\ <<"shutdown">> \in Seq(Handler)
      BY <3>1
    <3>8. active \in Seq(Timer) \/ active \in Seq({"tick"}) => active \in Seq(Handler)
      BY <3>1, SeqMonotonic
    <3> QED  BY <2>3, <3>2, <3>3, <3>4, <3>5, <3>6, <3>7, <3>8 DEF Situation
  <2>5. \A i \in DOMAIN todo : todo[i].do \in Operation
    <3>1. todo \in Seq(Steps)
      BY <2>3, ListIs
    <3>2. \A op \in Steps : op.do \in Operation
      BY DEF Steps, Operation
    <3> QED  BY <3>1, <3>2, ElementOfSeq, LenProperties
  <2>6. live \subseteq Handler /\ persistent \subseteq Timer
    BY <2>3 DEF Data, LiveAt
  <2>7. \A h \in Handler : \A c \in ToSet(callbacks[h]) : c.handle \in 0..(cur_id[h] - 1)
    <3>1. \A h \in Handler : callbacks[h] = CallbacksAt(h, t) /\ cur_id[h] = CountAt(h, t)
      BY <2>3 DEF Data
    <3> QED  BY <3>1, HandlesAre
  <2>8. lua_handlers \in Seq(Handler)
    <3>1. "tick" \in Handler /\ "on_after_close" \in Handler
      BY DEF Handler, Timer
    <3>2. lua_handlers = LuaHandlersAt(t)
      BY <2>3 DEF Data
    <3>3. /\ <<>> \in Seq(Handler) /\ <<"tick">> \in Seq(Handler)
          /\ <<"tick", "on_after_close">> \in Seq(Handler) /\ <<"on_after_close">> \in Seq(Handler)
      BY <3>1
    <3> QED  BY <3>2, <3>3 DEF LuaHandlersAt
  <2>9. context \in {"none", "live", "freed"} /\ sdl \in BOOLEAN
    BY <2>3 DEF Data, ContextAt
  <2>10. /\ queue \in Seq({"resized", "close"}) /\ clicks \in [{"resized", "close"} -> Nat]
         /\ crashed = FALSE
    BY <2>2 DEF Window
  <2> QED  BY <2>4, <2>5, <2>6, <2>7, <2>8, <2>9, <2>10 DEF TypeOK
<1> QED  BY <1>1, ShutdownInvariant, PTL
=============================================================================
