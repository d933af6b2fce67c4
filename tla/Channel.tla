------------------------------- MODULE Channel -------------------------------
(***************************************************************************)
(* What the queue of a graphics context promises to its two ends: messages *)
(* come out one at a time, in the order they went in, each at most once,   *)
(* and none is skipped while the receiving end is open.  The receiving end *)
(* closes for good when the render thread leaves its loop.                 *)
(***************************************************************************)
EXTENDS Naturals, Sequences

CONSTANTS Msg,      \* the messages that can be sent, Stop among them
          Stop,     \* the message that ends the receiver
          NoMsg     \* "the receiver holds no message"

VARIABLES log,      \* every message sent so far
          taken,    \* how many of them the receiver is through with
          current,  \* the message the receiver is handling
          open      \* the receiver is still receiving

channelVars == <<log, taken, current, open>>

Init == /\ log = <<>>
        /\ taken = 0
        /\ current = NoMsg
        /\ open = TRUE

Send(m) == /\ log' = Append(log, m)
           /\ UNCHANGED <<taken, current, open>>

Take == /\ open
        /\ current = NoMsg
        /\ taken < Len(log)
        /\ current' = log[taken + 1]
        /\ UNCHANGED <<log, taken, open>>

Finish == /\ current \notin {NoMsg, Stop}
          /\ current' = NoMsg
          /\ taken' = taken + 1
          /\ UNCHANGED <<log, open>>

\* The receiver closes on Stop, or before it has taken anything: it then
\* throws away the first message if there is one.
Close == /\ open
         /\ \/ current = Stop
            \/ current = NoMsg /\ taken = 0
         /\ open' = FALSE
         /\ current' = NoMsg
         /\ taken' = IF taken < Len(log) THEN taken + 1 ELSE taken
         /\ UNCHANGED log

Next == Take \/ Finish \/ Close \/ \E m \in Msg : Send(m)

Spec == Init /\ [][Next]_channelVars

\* A receiver that stays open drains the channel, and closes on Stop.
FairSpec == Spec /\ WF_channelVars(Take \/ Finish \/ (current = Stop /\ Close))
=============================================================================
