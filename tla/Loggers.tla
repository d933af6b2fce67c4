-------------------------------- MODULE Loggers --------------------------------
(***************************************************************************)
(* Loggers (util/logger.c): each has a level above which it takes no       *)
(* messages, a handler that is fired for every message, loggers it         *)
(* forwards copies to, and a ring of the last messages.  il_log() and its  *)
(* kin (util/log.c) tell the logger of stderr.                             *)
(***************************************************************************)
EXTENDS Integers, Sequences, FiniteSets, SequencesExt, TLC

CONSTANTS Logger,
          Stderr,       \* il_logger_stderr
          Level,        \* of importance; 2 is IL_NOTIFY, higher is less
          Capacity,     \* what il_logger_setBuffering() is called with
          MaxMessages,  \* bound: messages, copies among them
          MaxForwards,  \* bound: calls of il_logger_forward()
          MaxCalls      \* bound: calls that change loggers

VARIABLES logger,       \* the loggers
          configured,   \* history: calls that changed them
          message,      \* the messages that were ever made
          destroyed,    \* history: those whose memory was freed, one after the other
          failure,      \* why the program has crashed, or may do anything
          stored        \* history: what came into the ring since setBuffering()

loggers == <<logger, configured, message, destroyed, failure, stored>>

\* il_logger_new(): IL_NOTIFY
New == [alive |-> TRUE, filter |-> 2, forwards |-> <<>>, capacity |-> 0, start |-> 0,
        end |-> 0, offset |-> 0, len |-> 0, buffer |-> <<>>]

\* With how often the handlers were fired
State == [logger |-> logger, message |-> message, destroyed |-> destroyed,
          failure |-> failure, stored |-> stored, fired |-> [l \in Logger |-> 0]]

Fails(s, why) == [s EXCEPT !.failure = why]

Become(s) ==
    /\ logger' = s.logger /\ message' = s.message /\ destroyed' = s.destroyed
    /\ failure' = s.failure /\ stored' = s.stored
-----------------------------------------------------------------------------
\* il_logmsg_isLevel()
IsLevel(level, filter) == level <= filter

\* il_logmsg_destroy()
DestroyMessage(s, m) == [s EXCEPT !.destroyed = Append(@, m)]

\* Mutant of CopyMessage: the message itself is passed on
CopyMessageNot(s, m) == [state |-> s, copy |-> m]

\* il_logmsg_copy(): what comes after the first place of a trace is copied
\* without an end
CopyMessage(s, m) ==
    [state |-> IF s.message[m].trace THEN Fails(s, "trace")
               ELSE [s EXCEPT !.message = Append(@, s.message[m])],
     copy  |-> Len(s.message) + 1]

\* The loggers that a message is passed on to
Admitting(lg, level) ==
    LET open == SelectSeq(lg.forwards, LAMBDA f : IsLevel(level, f.filter))
    IN  [i \in DOMAIN open |-> open[i].to]

\* The message comes into the ring.  With as many in it as fit, the place
\* that is made free is read first; nothing was ever written there.
Keep(s, l, m) ==
    LET lg == s.logger[l]
        at == (lg.end + 1) % lg.capacity
    IN  IF lg.capacity = 0 THEN s
        ELSE IF at # lg.start
        THEN [s EXCEPT !.logger[l].end = at, !.logger[l].len = @ + 1,
                       !.logger[l].buffer = (at :> m) @@ @,
                       !.stored[l] = Append(@, m)]
        ELSE IF at \notin DOMAIN lg.buffer THEN Fails(s, "ring")
        ELSE DestroyMessage(
               [s EXCEPT !.logger[l].end = at, !.logger[l].offset = @ + 1,
                         !.logger[l].start = (@ + 1) % lg.capacity,
                         !.logger[l].buffer[at] = m,
                         !.stored[l] = Append(@, m)], lg.buffer[at])

\* il_logger_log(), which consumes the message.  Loggers that were passed on
\* the way come again only in a circle, which has no end.
RECURSIVE LogAt(_, _, _, _)
LogAt(s, l, m, way) ==
    LET level == s.message[m].level
        Pass(t, to) ==
            LET new == CopyMessage(t, m)
            IN  IF t.failure # "none" \/ new.state.failure # "none" THEN new.state
                ELSE LogAt(new.state, to, new.copy, way \cup {l})
    IN  IF s.failure # "none" THEN s
        ELSE IF ~s.logger[l].alive THEN Fails(s, "destroyed")
        ELSE IF l \in way THEN Fails(s, "circle")
        ELSE IF ~IsLevel(level, s.logger[l].filter) THEN DestroyMessage(s, m)
        ELSE LET passed == FoldLeft(Pass, [s EXCEPT !.fired[l] = @ + 1],
                                    Admitting(s.logger[l], level))
             IN  IF passed.failure # "none" THEN passed ELSE Keep(passed, l, m)

\* il_logmsg_new(), il_logmsg_setLevel() and il_logger_log()
Logged(l, level, trace) ==
    LET new == [State EXCEPT !.message = Append(@, [level |-> level, trace |-> trace])]
    IN  LogAt(new, l, Len(new.message), {})

\* il_logger_getMessage(), where it passes its assertions
GetMessage(lg, id) == IF id < 0 THEN lg.buffer[lg.len + id] ELSE lg.buffer[id - lg.offset]
-----------------------------------------------------------------------------
LoggersInit == /\ logger = [l \in Logger |-> New]
               /\ configured = 0
               /\ message = <<>>
               /\ destroyed = <<>>
               /\ failure = "none"
               /\ stored = [l \in Logger |-> <<>>]

Log(l, level, trace) ==
    /\ Len(message) < MaxMessages
    /\ logger[l].alive
    /\ Become(Logged(l, level, trace))
    /\ UNCHANGED configured

\* il_log_real(): without a message if stderr would not take it, and else with
\* the place in the source
LogReal(level) == IsLevel(level, logger[Stderr].filter) /\ Log(Stderr, level, TRUE)

\* No message has been logged with the loggers as they are now
Configure(s) == /\ configured < MaxCalls /\ configured' = configured + 1
                /\ Become(s)

SetFilter(l, level) ==
    /\ logger[l].alive /\ level # logger[l].filter
    /\ Configure([State EXCEPT !.logger[l].filter = level])

\* il_logger_setBuffering(): what was in the ring is lost
SetBuffering(l, messages) ==
    /\ logger[l].alive
    /\ Configure([State EXCEPT !.logger[l] = [@ EXCEPT
                    !.buffer = <<>>, !.capacity = messages, !.len = 0, !.start = 0,
                    !.end = messages],
                  !.stored[l] = <<>>])

Forward(from, to, filter) ==
    /\ Cardinality({<<l, i>> \in Logger \X (1..MaxForwards) : i \in DOMAIN logger[l].forwards})
            < MaxForwards
    /\ logger[from].alive /\ logger[to].alive
    /\ Configure([State EXCEPT !.logger[from].forwards = Append(@, [to |-> to, filter |-> filter])])

\* il_logger_destroy(): the messages and the ways are not freed
Destroy(l) == /\ l # Stderr /\ logger[l].alive
              /\ Configure([State EXCEPT !.logger[l] = [New EXCEPT !.alive = FALSE],
                                         !.stored[l] = <<>>])

LoggersNext ==
    /\ failure = "none"
    /\ \/ \E l \in Logger, level \in Level : Log(l, level, FALSE) \/ SetFilter(l, level)
       \/ \E level \in Level : LogReal(level)
       \/ \E l \in Logger, n \in Capacity : SetBuffering(l, n)
       \/ \E from, to \in Logger, filter \in Level : Forward(from, to, filter)
       \/ \E l \in Logger : Destroy(l)

LoggersSpec == LoggersInit /\ [][LoggersNext]_loggers
-----------------------------------------------------------------------------
LoggerTypes ==
    /\ \A l \in Logger : /\ logger[l].filter \in Level
                         /\ logger[l].forwards \in Seq([to : Logger, filter : Level])
                         /\ {logger[l].start, logger[l].end, logger[l].len} \subseteq Nat
                         /\ DOMAIN logger[l].buffer \subseteq Nat
    /\ configured \in 0..MaxCalls
    /\ message \in Seq([level : Level, trace : BOOLEAN])
    /\ destroyed \in Seq(DOMAIN message)
    /\ failure \in {"none", "trace", "ring", "destroyed", "circle"}

\* A message has one owner: it is in one place of one ring, or it was destroyed,
\* or nobody has it any more.  It is destroyed at most once, on whichever way it
\* or its copies went, and no ring holds one that was (logger.h: il_logger_log()
\* consumes the message).
MessagesOwnedOnce ==
    LET places == {<<l, i>> \in Logger \X (0..MaxMessages) : i \in DOMAIN logger[l].buffer}
    IN  /\ IsInjective(destroyed)
        /\ \A p \in places :
            /\ logger[p[1]].buffer[p[2]] \notin ToSet(destroyed)
            /\ \A q \in places \ {p} : logger[p[1]].buffer[p[2]] # logger[q[1]].buffer[q[2]]

\* What a ring holds are the messages since il_logger_setBuffering(), the first
\* at 1, so il_logger_getMessage() with -1 gives the last but one, and the last
\* only with their number.  The ring fails with one less in it than it was made
\* for and never goes round (logger.c:178).
RingHoldsAll ==
    LET Holds(lg, kept) ==
            LET n == Len(kept)
            IN  /\ lg.capacity > 0 => n < lg.capacity
                /\ DOMAIN lg.buffer = 1..n
                /\ \A k \in 1..(n - 1) : GetMessage(lg, -k) = kept[n - k]
                /\ n > 0 => GetMessage(lg, n) = kept[n]
    IN  /\ \A l \in Logger : Holds(logger[l], stored[l])
        /\ failure = "ring" => \E l \in Logger : logger[l].capacity = Len(stored[l]) + 1

\* Whatever is logged next: the handlers that are fired for it are those of the
\* loggers on the ways along which the filters of all ways and of all loggers
\* let it pass, as often as there are ways.
HeardAlongForwards ==
    \A from \in Logger, level \in Level :
        LET Ways(l) == {<<k, i>> \in Logger \X (1..MaxForwards) :
                            /\ i \in DOMAIN logger[k].forwards
                            /\ logger[k].forwards[i].to = l
                            /\ level <= logger[k].forwards[i].filter}
            Expected[n \in 0..Cardinality(Logger)] ==
                [l \in Logger |->
                    IF level > logger[l].filter THEN 0
                    ELSE (IF l = from THEN 1 ELSE 0)
                         + (IF n = 0 THEN 0
                            ELSE FoldLeft(LAMBDA sum, w : sum + Expected[n - 1][w[1]], 0,
                                          SetToSeq(Ways(l))))]
            after == Logged(from, level, FALSE)
        IN  logger[from].alive /\ failure = "none" /\ after.failure = "none"
                => after.fired = Expected[Cardinality(Logger)]
=============================================================================
