-------------------------------- MODULE Members --------------------------------
(***************************************************************************)
(* The lists renderers keep: positionables (legacyrenderer.c,              *)
(* heightmap.c), renderers (transparencypass.c) and lights (lightpass.c).  *)
(* The main thread adds and removes by a message to the render thread once *)
(* the renderer is built, and by itself before.                            *)
(***************************************************************************)
EXTENDS Integers, Sequences, SequencesExt, FiniteSets

CONSTANTS Thing,        \* positionables, renderers or lights
          MaxCalls,     \* bound: calls of the main thread
          Nil

VARIABLES owner,        \* what kind of renderer
          list,         \* what is in its array
          context,      \* whether it has one: its build function ran
          call,         \* the call of the main thread that changes the array, or Nil
          messages,     \* on their way
          undefined,    \* the program has crashed, or may do anything
          made,         \* history: how many calls
          wanted        \* history: the bag of things by the calls so far

memberVars == <<owner, list, context, call, messages, undefined, made, wanted>>

Owners == {"legacy", "heightmap", "transparency", "lights"}

Op == [type : {"add", "del"}, thing : Thing]

MembersAssumption == MaxCalls \in Nat /\ Nil \notin Op

Count(s) == [t \in Thing |-> Cardinality({i \in DOMAIN s : s[i] = t})]
-----------------------------------------------------------------------------
\* Mutant of Without: what comes after is not moved to the gap
WithoutLast(s, i) == Front(s)

\* The last moves to the place of the i-th
Without(s, i) == IF i = Len(s) THEN Front(s) ELSE [Front(s) EXCEPT ![i] = Last(s)]

\* legacy_del_positionable(), heightmap_del_positionable(), trans_del_renderer()
Del(s, t) == IF t \in ToSet(s) THEN Without(s, Min({i \in DOMAIN s : s[i] = t})) ELSE s

\* lights_del_light(): memcmp() is not 0 for the first light that differs
DelLight(s, t) ==
    IF ToSet(s) \subseteq {t} THEN s ELSE Without(s, Min({i \in DOMAIN s : s[i] # t}))

\* The arrays after a message of the four renderers
LegacyMessage(s, op)    == IF op.type = "add" THEN Append(s, op.thing) ELSE Del(s, op.thing)
HeightmapMessage(s, op) == IF op.type = "add" THEN Append(s, op.thing) ELSE Del(s, op.thing)
TransMessage(s, op)     == IF op.type = "add" THEN Append(s, op.thing) ELSE Del(s, op.thing)
LightsMessage(s, op)    == IF op.type = "add" THEN Append(s, op.thing) ELSE DelLight(s, op.thing)

Handle(kind, s, op) == CASE kind = "legacy"       -> LegacyMessage(s, op)
                         [] kind = "heightmap"    -> HeightmapMessage(s, op)
                         [] kind = "transparency" -> TransMessage(s, op)
                         [] kind = "lights"       -> LightsMessage(s, op)

\* The loop goes to length-1, which is without a sign: with nothing in it, it
\* goes past the array
Undefined(kind, s, op) == s = <<>> /\ op.type = "del" /\ kind # "lights"

Take(op) ==
    /\ list' = Handle(owner, list, op)
    /\ undefined' = (undefined \/ Undefined(owner, list, op))
-----------------------------------------------------------------------------
MembersInit ==
    /\ owner \in Owners
    /\ list = <<>> /\ context = FALSE /\ call = Nil /\ messages = <<>>
    /\ undefined = FALSE /\ made = 0 /\ wanted = [t \in Thing |-> 0]

\* What a call asks for: a bag with one more of the thing, or one less
After(bag, op) ==
    IF op.type = "add" THEN [bag EXCEPT ![op.thing] = @ + 1]
    ELSE [bag EXCEPT ![op.thing] = IF @ = 0 THEN 0 ELSE @ - 1]

\* ilG_renderer_addPositionable(), delPositionable(), addRenderer(),
\* delRenderer(), addLight(), delLight(): push_msg() asks for the context
PushMsg(op) ==
    /\ call = Nil /\ made < MaxCalls
    /\ made' = made + 1 /\ wanted' = After(wanted, op)
    /\ IF context THEN messages' = Append(messages, op) /\ UNCHANGED call
                  ELSE call' = op /\ UNCHANGED messages
    /\ UNCHANGED <<owner, list, context, undefined>>

\* and changes the array itself when there was none
Direct ==
    /\ call # Nil /\ Take(call) /\ call' = Nil
    /\ UNCHANGED <<owner, context, messages, made, wanted>>

\* The build function, on the render thread
BuildOwner ==
    /\ ~context /\ context' = TRUE
    /\ UNCHANGED <<owner, list, call, messages, undefined, made, wanted>>

\* The render thread handles messages between frames
Message ==
    /\ messages # <<>>
    /\ Take(Head(messages)) /\ messages' = Tail(messages)
    /\ UNCHANGED <<owner, context, call, made, wanted>>

MembersNext ==
    /\ ~undefined
    /\ \/ \E op \in Op : PushMsg(op)
       \/ Direct \/ BuildOwner \/ Message

MembersSpec == MembersInit /\ [][MembersNext]_memberVars
-----------------------------------------------------------------------------
MemberTypes ==
    /\ owner \in Owners /\ list \in Seq(Thing) /\ context \in BOOLEAN
    /\ call \in Op \cup {Nil} /\ messages \in Seq(Op)
    /\ undefined \in BOOLEAN /\ made \in 0..MaxCalls /\ wanted \in [Thing -> Nat]

\* The calls that have not come to the array yet, in their order
Pending == (IF call = Nil THEN <<>> ELSE <<call>>) \o messages

\* The array before the calls in ops, after the first of them, and so on
Arrays(kind, s, ops) ==
    LET arrays[n \in 0..Len(ops)] == IF n = 0 THEN s ELSE Handle(kind, arrays[n - 1], ops[n])
    IN  arrays

\* A removal that finds nothing in the array
Misses == \E i \in DOMAIN Pending :
             Undefined(owner, Arrays(owner, list, Pending)[i - 1], Pending[i])

(***************************************************************************)
(* What the calls ask for is what the list comes to, once those on their   *)
(* way are handled in their order: no call is lost, doubled or overtaken   *)
(* at the change from direct calls to messages.  Lights are removed by the *)
(* wrong comparison, and a removal from an empty list is undefined.        *)
(***************************************************************************)
ListFollowsCalls ==
    \/ undefined \/ Misses \/ owner = "lights"
    \/ Count(Arrays(owner, list, Pending)[Len(Pending)]) = wanted
=============================================================================
