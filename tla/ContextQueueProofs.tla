-------------------------- MODULE ContextQueueProofs --------------------------
(***************************************************************************)
(* Proofs about ContextQueue for any number of addresses, messages and     *)
(* sends: QueueInv is inductive, hence no use after free and no leak.      *)
(***************************************************************************)
EXTENDS ContextQueue, TLAPS

(* The list holds its dummy at first, and nothing is under way.            *)
LEMMA InitInv == Init => QueueInv
<1> SUFFICES ASSUME Init PROVE QueueInv
  OBVIOUS
<1> USE QueueAssumption
<1>1. PICK dummy \in Node : /\ live = {dummy} /\ first = dummy /\ head = dummy
                            /\ tail = dummy /\ addr = <<dummy>>
                            /\ next = [n \in Node |-> NULL]
                            /\ payload = [n \in Node |-> Stop]
  BY DEF Init
<1>2. Len(addr) = 1 /\ addr[1] = dummy /\ Len(log) = 0 /\ Linked = 1..1
      /\ log \in Seq(Payload) /\ addr \in Seq(Node)
  BY <1>1 DEF Init, Linked
<1>3. TypeOK
  <2>1. next \in [Node -> Pointer] /\ payload \in [Node -> Payload] /\ live \subseteq Node
        /\ first \in Pointer /\ head \in Node /\ tail \in Node
    BY <1>1 DEF Pointer, Payload
  <2>2. /\ ppc \in [Thread -> {"idle", "link", "publish", "check", "unlink", "free"}]
        /\ msg \in [Thread -> Pointer] /\ tmp \in [Thread -> Pointer]
        /\ left \in [Thread -> Nat]
    BY DEF Init, Pointer
  <2>3. /\ mpc = "run" /\ rpc = "start" /\ cur = NULL /\ nxt = NULL /\ exiting = FALSE
        /\ freed = 0 /\ taken = 0
    BY DEF Init
  <2> QED
    BY <1>2, <2>1, <2>2, <2>3 DEF TypeOK, Pointer
<1>4. PointersInv
  BY <1>1, <1>2 DEF Init, PointersInv
<1>5. ListInv
  BY <1>1, <1>2 DEF Init, ListInv, Thread
<1>6. ProducerInv
  BY <1>1, <1>2 DEF Init, ProducerInv, Thread
<1>7. LiveInv
  BY <1>1, <1>2 DEF Init, LiveInv
<1>8. ConsumerInv
  BY <1>1, <1>2 DEF Init, ConsumerInv
<1> QED
  BY <1>3, <1>4, <1>5, <1>6, <1>7, <1>8 DEF QueueInv

-----------------------------------------------------------------------------
(* Produce *)

LEMMA AllocateInv ==
  ASSUME QueueInv, NEW m \in Payload, Allocate("main", m),
         mpc' \in {mpc, "join"}, mpc = "run", left' \in [Thread -> Nat]
  PROVE  QueueInv'
<1> USE DEF Linked, OutsideList
<1>1. PICK n \in Node : /\ n \notin live
                        /\ live' = live \cup {n}
                        /\ next' = [next EXCEPT ![n] = NULL]
                        /\ payload' = [payload EXCEPT ![n] = m]
                        /\ msg' = [msg EXCEPT !["main"] = n]
  BY DEF Allocate
<1>2. /\ ppc["main"] = "idle" /\ ppc' = [ppc EXCEPT !["main"] = "link"]
      /\ UNCHANGED <<first, head, tail, tmp, rpc, cur, nxt, exiting, log, addr, freed, taken>>
  BY DEF Allocate, consumer, history
<1>3. /\ freed <= taken /\ taken <= Len(log) /\ Len(addr) = Len(log) + 1
      /\ freed \in Nat /\ taken \in Nat /\ Len(log) \in Nat
      /\ tail = addr[Len(addr)] /\ tail \in live /\ tail # n
      /\ \A i \in Linked : addr[i] # n /\ addr[i] \in Node
  BY <1>1 DEF QueueInv, TypeOK, PointersInv, ListInv
<1>4. TypeOK'
  BY <1>1, <1>2, QueueAssumption DEF QueueInv, TypeOK, Pointer, Thread
<1>5. PointersInv'
  BY <1>1, <1>2, <1>3 DEF QueueInv, TypeOK, PointersInv
<1>6. ListInv'
  <2>1. \A i \in Linked : next'[addr[i]] = next[addr[i]] /\ payload'[addr[i]] = payload[addr[i]]
    BY <1>1, <1>3 DEF QueueInv, TypeOK
  <2>2. next'[tail] = next[tail] /\ ppc'["main"] # "publish"
    BY <1>1, <1>2, <1>3 DEF QueueInv, TypeOK, Thread
  <2> QED
    BY <1>1, <1>2, <1>3, <2>1, <2>2 DEF QueueInv, ListInv
<1>7. ProducerInv'
  <2>1. ppc'["main"] = "link" /\ ppc'["render"] = ppc["render"] /\ msg'["main"] = n
    BY <1>1, <1>2 DEF QueueInv, TypeOK, Thread
  <2>2. n \in live' /\ next'[n] = NULL
    BY <1>1 DEF QueueInv, TypeOK
  <2> QED
    BY <1>1, <1>2, <1>3, <2>1, <2>2 DEF QueueInv, ProducerInv
<1>8. LiveInv'
  <2>1. ppc'["main"] = "link" /\ msg'["main"] = n
    BY <1>1, <1>2 DEF QueueInv, TypeOK, Thread
  <2> QED
    BY <1>1, <1>2, <2>1 DEF QueueInv, LiveInv
<1>9. ConsumerInv'
  <2>1. cur # NULL => cur = addr[taken + 2] /\ taken + 2 \in Linked
    BY <1>3 DEF QueueInv, ConsumerInv
  <2>2. cur # NULL => payload'[cur] = payload[cur]
    BY <1>1, <1>3, <2>1 DEF QueueInv, TypeOK
  <2> QED
    BY <1>2, <2>2 DEF QueueInv, ConsumerInv
<1> QED
  BY <1>4, <1>5, <1>6, <1>7, <1>8, <1>9 DEF QueueInv

(* The new node is last once tail->next points to it.                      *)
LEMMA LinkInv ==
  ASSUME QueueInv, Link("main") PROVE QueueInv'
<1> USE DEF Linked, OutsideList
<1> DEFINE n == msg["main"]
<1>1. /\ ppc["main"] = "link" /\ ppc' = [ppc EXCEPT !["main"] = "publish"]
      /\ next' = [next EXCEPT ![tail] = n]
      /\ UNCHANGED <<payload, live, first, head, tail, msg, tmp, left, mpc, rpc, cur, nxt,
                     exiting, log, addr, freed, taken>>
  BY DEF Link, consumer, history
<1>2. /\ freed <= taken /\ taken <= Len(log) /\ Len(addr) = Len(log) + 1
      /\ freed \in Nat /\ taken \in Nat /\ Len(log) \in Nat
      /\ n \in live /\ n # tail /\ next[n] = NULL
      /\ tail = addr[Len(addr)] /\ Len(addr) \in Linked
      /\ \A i \in Linked : i < Len(addr) => addr[i] # tail
      /\ \A i \in Linked : addr[i] # n /\ addr[i] \in Node
  BY <1>1 DEF QueueInv, TypeOK, PointersInv, ListInv, ProducerInv
<1>3. ppc'["main"] = "publish" /\ ppc'["render"] = ppc["render"] /\ tail \in Node /\ n \in Node
  BY <1>1, <1>2 DEF QueueInv, TypeOK, Thread
<1>4. /\ next'[tail] = n /\ next'[n] = NULL
      /\ \A i \in Linked : i < Len(addr) => next'[addr[i]] = next[addr[i]]
  BY <1>1, <1>2, <1>3 DEF QueueInv, TypeOK
<1>5. TypeOK'
  BY <1>1, <1>3 DEF QueueInv, TypeOK, Pointer, Thread
<1>6. PointersInv'
  BY <1>1 DEF QueueInv, PointersInv
<1>7. ListInv'
  BY <1>1, <1>2, <1>3, <1>4 DEF QueueInv, ListInv
<1>8. ProducerInv'
  BY <1>1, <1>2, <1>3, <1>4 DEF QueueInv, ProducerInv
<1>9. LiveInv'
  BY <1>1, <1>3 DEF QueueInv, LiveInv
<1>10. ConsumerInv'
  BY <1>1 DEF QueueInv, ConsumerInv
<1> QED
  BY <1>5, <1>6, <1>7, <1>8, <1>9, <1>10 DEF QueueInv

(* Consumers may take the message once ctx->queue.tail has moved.          *)
LEMMA PublishInv ==
  ASSUME QueueInv, Publish("main") PROVE QueueInv'
<1> USE DEF Linked, OutsideList
<1> DEFINE n == msg["main"]
<1>1. /\ ppc["main"] = "publish" /\ ppc' = [ppc EXCEPT !["main"] = "check"]
      /\ tail' = n /\ log' = Append(log, payload[n]) /\ addr' = Append(addr, n)
      /\ UNCHANGED <<next, payload, live, first, head, msg, tmp, left, mpc, rpc, cur, nxt,
                     exiting, freed, taken>>
  BY DEF Publish, consumer, memory
<1>2. /\ freed <= taken /\ taken <= Len(log) /\ Len(addr) = Len(log) + 1
      /\ freed \in Nat /\ taken \in Nat /\ Len(log) \in Nat
      /\ n \in live /\ n \in Node /\ next[n] = NULL
      /\ tail = addr[Len(addr)] /\ next[tail] = n
      /\ \A i \in Linked : addr[i] # n /\ addr[i] \in Node
      /\ mpc \in {"run", "join"} /\ ppc["render"] = "idle"
  BY <1>1 DEF QueueInv, TypeOK, PointersInv, ListInv, ProducerInv
<1>3. /\ Len(addr') = Len(addr) + 1 /\ Len(log') = Len(log) + 1
      /\ addr'[Len(addr) + 1] = n /\ log'[Len(log) + 1] = payload[n]
      /\ \A i \in 1..Len(addr) : addr'[i] = addr[i]
      /\ \A i \in 1..Len(log) : log'[i] = log[i]
      /\ addr' \in Seq(Node) /\ log' \in Seq(Payload)
  BY <1>1, <1>2 DEF QueueInv, TypeOK
<1>4. ppc'["main"] = "check" /\ ppc'["render"] = "idle"
  BY <1>1, <1>2 DEF QueueInv, TypeOK, Thread
<1>5. TypeOK'
  BY <1>1, <1>2, <1>3 DEF QueueInv, TypeOK, Thread
<1>6. PointersInv'
  BY <1>1, <1>2, <1>3 DEF QueueInv, PointersInv
<1>7. ListInv'
  <2>1. \A i \in Linked' : i \in Linked \/ i = Len(addr) + 1
    BY <1>1, <1>2, <1>3
  <2>2. \A i \in Linked : addr'[i] = addr[i]
    BY <1>2, <1>3
  <2>3. (\A i \in Linked : addr[i] \in live)'
    BY <1>1, <1>2, <1>3, <2>1, <2>2 DEF QueueInv, ListInv
  <2>4. (\A i, j \in Linked : addr[i] = addr[j] => i = j)'
    BY <1>1, <1>2, <1>3, <2>1, <2>2 DEF QueueInv, ListInv
  <2>5. (\A i \in Linked : i < Len(addr) => next[addr[i]] = addr[i + 1])'
    <3> SUFFICES ASSUME NEW i \in Linked', i < Len(addr') PROVE next'[addr'[i]] = addr'[i + 1]
      OBVIOUS
    <3>1. CASE i = Len(addr)
      BY <1>1, <1>2, <1>3, <3>1
    <3>2. CASE i < Len(addr)
      BY <1>1, <1>2, <1>3, <3>2 DEF QueueInv, ListInv
    <3> QED
      BY <1>2, <1>3, <3>1, <3>2
  <2>6. (\A i \in Linked : i > 1 => payload[addr[i]] = log[i - 1])'
    <3> SUFFICES ASSUME NEW i \in Linked', i > 1 PROVE payload'[addr'[i]] = log'[i - 1]
      OBVIOUS
    <3>1. CASE i = Len(addr) + 1
      BY <1>1, <1>2, <1>3, <3>1
    <3>2. CASE i \in Linked
      BY <1>1, <1>2, <1>3, <3>2 DEF QueueInv, ListInv
    <3> QED
      BY <2>1, <3>1, <3>2
  <2> QED
    BY <1>1, <1>2, <1>4, <2>3, <2>4, <2>5, <2>6 DEF ListInv
<1>8. ProducerInv'
  BY <1>1, <1>2, <1>4 DEF ProducerInv
<1>9. LiveInv'
  <2> SUFFICES ASSUME NEW k \in live PROVE \E i \in Linked' : k = addr'[i]
    BY <1>1 DEF LiveInv
  <2>1. CASE k = n
    BY <1>1, <1>2, <1>3, <2>1
  <2>2. CASE \E i \in Linked : k = addr[i]
    BY <1>1, <1>2, <1>3, <2>2
  <2> QED
    BY <1>1, <2>1, <2>2 DEF QueueInv, LiveInv
<1>10. ConsumerInv'
  BY <1>1, <1>2, <1>3 DEF QueueInv, ConsumerInv
<1> QED
  BY <1>5, <1>6, <1>7, <1>8, <1>9, <1>10 DEF QueueInv

(* The producer looks whether consumed nodes are left to free.             *)
LEMMA CheckInv ==
  ASSUME QueueInv, Check("main") PROVE QueueInv'
<1> USE DEF Linked, OutsideList
<1>1. /\ ppc["main"] = "check"
      /\ ppc' = [ppc EXCEPT !["main"] = IF first = head THEN "idle" ELSE "unlink"]
      /\ UNCHANGED <<next, payload, live, first, head, tail, msg, tmp, left, mpc, rpc, cur, nxt,
                     exiting, log, addr, freed, taken>>
  BY DEF Check, consumer, memory, history
<1>2. /\ ppc'["main"] = (IF first = head THEN "idle" ELSE "unlink")
      /\ ppc'["render"] = ppc["render"]
  BY <1>1 DEF QueueInv, TypeOK, Thread
<1>3. mpc \in {"run", "join"}
  BY <1>1 DEF QueueInv, TypeOK, ProducerInv
<1>4. first # head => freed < taken
  BY <1>3 DEF QueueInv, TypeOK, PointersInv
<1>5. TypeOK'
  BY <1>1 DEF QueueInv, TypeOK, Thread
<1>6. PointersInv'
  BY <1>1 DEF QueueInv, PointersInv
<1>7. ListInv'
  BY <1>1, <1>2 DEF QueueInv, ListInv
<1>8. ProducerInv'
  BY <1>1, <1>2, <1>3, <1>4 DEF QueueInv, ProducerInv
<1>9. LiveInv'
  BY <1>1, <1>2 DEF QueueInv, LiveInv
<1>10. ConsumerInv'
  BY <1>1 DEF QueueInv, ConsumerInv
<1> QED
  BY <1>5, <1>6, <1>7, <1>8, <1>9, <1>10 DEF QueueInv

(* A consumed node is taken off the front of the list.                     *)
LEMMA UnlinkInv ==
  ASSUME QueueInv, Unlink("main") PROVE QueueInv'
<1> USE DEF Linked, OutsideList
<1>1. /\ ppc["main"] = "unlink" /\ ppc' = [ppc EXCEPT !["main"] = "free"]
      /\ tmp' = [tmp EXCEPT !["main"] = first] /\ first' = next[first] /\ freed' = freed + 1
      /\ UNCHANGED <<next, payload, live, head, tail, msg, left, mpc, rpc, cur, nxt,
                     exiting, log, addr, taken>>
  BY DEF Unlink, consumer, memory
<1>2. /\ freed < taken /\ taken <= Len(log) /\ Len(addr) = Len(log) + 1
      /\ freed \in Nat /\ taken \in Nat /\ Len(log) \in Nat
      /\ first = addr[freed + 1] /\ next[first] = addr[freed + 2]
      /\ freed + 1 \in Linked /\ freed + 2 \in Linked
      /\ \A i \in Linked : addr[i] \in Node /\ addr[i] \in live
      /\ mpc \in {"run", "join"} /\ ppc["render"] = "idle"
  <2>1. /\ freed < taken /\ taken <= Len(log) /\ Len(addr) = Len(log) + 1
        /\ freed \in Nat /\ taken \in Nat /\ Len(log) \in Nat
        /\ first = addr[freed + 1]
        /\ mpc \in {"run", "join"} /\ ppc["render"] = "idle"
    BY <1>1 DEF QueueInv, TypeOK, PointersInv, ProducerInv
  <2>2. freed + 1 \in Linked /\ freed + 2 \in Linked
    BY <2>1
  <2>3. next[first] = addr[freed + 2]
    BY <2>1, <2>2 DEF QueueInv, ListInv
  <2> QED
    BY <2>1, <2>2, <2>3 DEF QueueInv, TypeOK, ListInv
<1>3. ppc'["main"] = "free" /\ ppc'["render"] = "idle" /\ tmp'["main"] = first
  BY <1>1, <1>2 DEF QueueInv, TypeOK, Thread
<1>4. /\ Linked' \subseteq Linked
      /\ \A i \in Linked : i = freed + 1 \/ i \in Linked'
      /\ \A i \in Linked' : addr[i] # first
  BY <1>1, <1>2 DEF QueueInv, ListInv
<1>5. TypeOK'
  BY <1>1, <1>2 DEF QueueInv, TypeOK, Pointer, Thread
<1>6. PointersInv'
  BY <1>1, <1>2 DEF QueueInv, PointersInv
<1>7. ListInv'
  BY <1>1, <1>2, <1>3, <1>4 DEF QueueInv, ListInv
<1>8. ProducerInv'
  BY <1>1, <1>2, <1>3, <1>4 DEF ProducerInv
<1>9. LiveInv'
  BY <1>1, <1>2, <1>3, <1>4 DEF QueueInv, LiveInv
<1>10. ConsumerInv'
  BY <1>1, <1>2 DEF QueueInv, ConsumerInv
<1> QED
  BY <1>5, <1>6, <1>7, <1>8, <1>9, <1>10 DEF QueueInv

(* The node that was unlinked is freed; nobody refers to it.               *)
LEMMA FreeInv ==
  ASSUME QueueInv, Free("main") PROVE QueueInv'
<1> USE DEF Linked, OutsideList
<1>1. /\ ppc["main"] = "free" /\ ppc' = [ppc EXCEPT !["main"] = "check"]
      /\ live' = live \ {tmp["main"]}
      /\ UNCHANGED <<next, payload, first, head, tail, msg, tmp, left, mpc, rpc, cur, nxt,
                     exiting, log, addr, freed, taken>>
  BY DEF Free, consumer, history
<1>2. ppc'["main"] = "check" /\ ppc'["render"] = ppc["render"]
  BY <1>1 DEF QueueInv, TypeOK, Thread
<1>3. \A i \in Linked : addr[i] # tmp["main"]
  BY <1>1 DEF QueueInv, ProducerInv
<1>5. TypeOK'
  BY <1>1 DEF QueueInv, TypeOK, Thread
<1>6. PointersInv'
  BY <1>1 DEF QueueInv, PointersInv
<1>7. ListInv'
  BY <1>1, <1>2, <1>3 DEF QueueInv, ListInv
<1>8. ProducerInv'
  BY <1>1, <1>2 DEF QueueInv, ProducerInv
<1>9. LiveInv'
  BY <1>1, <1>2 DEF QueueInv, LiveInv
<1>10. ConsumerInv'
  BY <1>1 DEF QueueInv, ConsumerInv
<1> QED
  BY <1>5, <1>6, <1>7, <1>8, <1>9, <1>10 DEF QueueInv

(* The five steps of produce().                                            *)
LEMMA ProduceInv ==
  ASSUME QueueInv, Produce("main") PROVE QueueInv'
BY LinkInv, PublishInv, CheckInv, UnlinkInv, FreeInv DEF Produce

(* What else the main thread does.                                         *)
LEMMA MainInv ==
  ASSUME QueueInv, MainSend \/ MainStop \/ Join \/ QueueFree PROVE QueueInv'
<1> USE DEF Linked, OutsideList
<1>1. CASE MainSend
  <2>1. PICK m \in Msg : Allocate("main", m)
    BY <1>1 DEF MainSend
  <2>2. mpc = "run" /\ mpc' = mpc /\ left' = [left EXCEPT !["main"] = @ - 1]
        /\ left["main"] > 0 /\ left \in [Thread -> Nat]
    BY <1>1 DEF MainSend, QueueInv, TypeOK
  <2>3. left' \in [Thread -> Nat]
    BY <2>2 DEF Thread
  <2> QED
    BY <2>1, <2>2, <2>3, AllocateInv DEF Payload
<1>2. CASE MainStop
  <2>1. Allocate("main", Stop) /\ mpc = "run" /\ mpc' = "join" /\ left' = left
    BY <1>2 DEF MainStop
  <2>2. left' \in [Thread -> Nat] /\ Stop \in Payload
    BY <2>1 DEF QueueInv, TypeOK, Payload
  <2> QED
    BY <2>1, <2>2, AllocateInv
<1>3. CASE Join
  <2>1. /\ mpc = "join" /\ ppc["main"] = "idle" /\ rpc = "end" /\ mpc' = "free"
        /\ UNCHANGED <<next, payload, live, first, head, tail, ppc, msg, tmp, left, rpc, cur, nxt,
                     exiting, log, addr, freed, taken>>
    BY <1>3 DEF Join, consumer, producer, memory, history
  <2> QED
    BY <2>1 DEF QueueInv, TypeOK, PointersInv, ListInv, ProducerInv, LiveInv, ConsumerInv
<1>4. CASE QueueFree
  <2>1. /\ mpc = "free"
        /\ UNCHANGED <<next, payload, head, tail, ppc, msg, tmp, left, rpc, cur, nxt,
                       exiting, log, addr, taken>>
    BY <1>4 DEF QueueFree, consumer, producer
  <2>2. /\ freed \in Nat /\ Len(addr) \in Nat /\ freed <= Len(addr) /\ Len(addr) = Len(log) + 1
        /\ ppc["main"] = "idle" /\ ppc["render"] = "idle" /\ rpc = "end" /\ cur = NULL
        /\ \A i \in 1..Len(addr) : addr[i] \in Node
    BY <2>1 DEF QueueInv, TypeOK, PointersInv, ProducerInv, ConsumerInv
  <2>3. CASE first = NULL
    <3>1. mpc' = "end" /\ UNCHANGED <<first, live, freed>> /\ freed = Len(addr)
      BY <1>4, <2>1, <2>2, <2>3, QueueAssumption DEF QueueFree, QueueInv, PointersInv
    <3> QED
      BY <2>1, <2>2, <3>1 DEF QueueInv, TypeOK, PointersInv, ListInv, ProducerInv, LiveInv, ConsumerInv
  <2>4. CASE first # NULL
    <3>1. /\ first' = next[first] /\ live' = live \ {first} /\ freed' = freed + 1 /\ mpc' = mpc
          /\ freed < Len(addr) /\ first = addr[freed + 1]
      BY <1>4, <2>1, <2>2, <2>4 DEF QueueFree, QueueInv, PointersInv
    <3>2. /\ Linked' \subseteq Linked /\ freed + 1 \in Linked
          /\ \A i \in Linked : i = freed + 1 \/ i \in Linked'
          /\ \A i \in Linked' : addr[i] # first
      BY <2>1, <2>2, <3>1 DEF QueueInv, ListInv
    <3>3. first' = IF freed' < Len(addr) THEN addr[freed' + 1] ELSE NULL
      BY <2>1, <2>2, <3>1, <3>2 DEF QueueInv, ListInv, PointersInv
    <3>4. TypeOK'
      BY <2>1, <2>2, <3>1, <3>3 DEF QueueInv, TypeOK, Pointer
    <3>5. PointersInv'
      BY <2>1, <2>2, <3>1, <3>3 DEF QueueInv, PointersInv
    <3>6. ListInv'
      BY <2>1, <2>2, <3>1, <3>2 DEF QueueInv, ListInv
    <3>7. ProducerInv'
      BY <2>1, <2>2, <3>1 DEF QueueInv, ProducerInv
    <3>8. LiveInv'
      BY <2>1, <2>2, <3>1, <3>2 DEF QueueInv, LiveInv
    <3>9. ConsumerInv'
      BY <2>1, <2>2, <3>1 DEF QueueInv, ConsumerInv
    <3> QED
      BY <3>4, <3>5, <3>6, <3>7, <3>8, <3>9 DEF QueueInv
  <2> QED
    BY <2>3, <2>4
<1> QED
  BY <1>1, <1>2, <1>3, <1>4

-----------------------------------------------------------------------------
(* Consume *)

\* What every step of the consumer leaves alone
LEMMA RenderFrame ==
  ASSUME Render
  PROVE  UNCHANGED <<next, payload, live, first, tail, ppc, msg, tmp, left, mpc, log, addr, freed>>
BY DEF Render, Start, Consume, ConsumeNext, Handle, DoneConsume, DoneLoad, DoneStore,
       rendering, memory, producer

(* What the render thread does.                                            *)
LEMMA RenderInv ==
  ASSUME QueueInv, Render PROVE QueueInv'
<1> USE DEF Linked, OutsideList
<1>1. UNCHANGED <<next, payload, live, first, tail, ppc, msg, tmp, left, mpc, log, addr, freed>>
  BY RenderFrame
<1>2. /\ freed \in Nat /\ taken \in Nat /\ Len(log) \in Nat /\ Len(addr) = Len(log) + 1
      /\ taken <= Len(log) /\ mpc \in {"run", "join", "free", "end"}
      /\ head = addr[taken + 1] /\ tail = addr[Len(addr)] /\ head \in Node
  BY DEF QueueInv, TypeOK, PointersInv
<1>3. rpc # "end" /\ mpc \in {"run", "join"} /\ freed <= taken
  BY <1>2 DEF Render, Start, Consume, ConsumeNext, Handle, DoneConsume, DoneLoad, DoneStore,
              QueueInv, PointersInv, ConsumerInv
<1>4. ListInv' /\ ProducerInv' /\ LiveInv'
  <2>1. ListInv'
    BY <1>1 DEF QueueInv, ListInv
  <2>2. ProducerInv'
    <3>1. taken' = taken \/ taken' = taken + 1
      BY DEF Render, Start, Consume, ConsumeNext, Handle, DoneConsume, DoneLoad, DoneStore
    <3> QED
      BY <1>1, <1>2, <3>1 DEF QueueInv, TypeOK, ProducerInv
  <2>3. LiveInv'
    BY <1>1 DEF QueueInv, LiveInv
  <2> QED
    BY <2>1, <2>2, <2>3
<1>5. head # tail => taken < Len(log)
  BY <1>2
<1>6. taken < Len(log) => /\ next[head] = addr[taken + 2]
                          /\ addr[taken + 2] \in Node
                          /\ head # tail
  <2>1. taken < Len(log) => taken + 1 \in Linked /\ taken + 2 \in Linked
    BY <1>2, <1>3
  <2>2. ASSUME taken < Len(log) PROVE next[head] = addr[taken + 2]
    BY <1>2, <2>1, <2>2 DEF QueueInv, ListInv
  <2>3. ASSUME taken < Len(log) PROVE addr[taken + 2] \in Node
    BY <1>2, <2>1, <2>3 DEF QueueInv, TypeOK
  <2>4. ASSUME taken < Len(log) PROVE head # tail
    <3>1. Len(addr) \in Linked /\ taken + 1 # Len(addr)
      BY <1>2, <2>1, <2>4
    <3> QED
      BY <1>2, <2>1, <2>4, <3>1 DEF QueueInv, ListInv
  <2> QED
    BY <2>2, <2>3, <2>4
<1> HIDE DEF Linked, OutsideList
<1>7. ASSUME UNCHANGED <<head, taken>>, TypeOK', ConsumerInv' PROVE QueueInv'
  BY <1>1, <1>4, <1>7 DEF QueueInv, PointersInv

<1>8. CASE Start
  <2>1. /\ rpc = "start" /\ UNCHANGED <<head, cur, nxt, taken>> /\ cur = NULL /\ taken = 0
        /\ \/ rpc' = "consume" /\ exiting' = FALSE
           \/ rpc' = "done" /\ exiting' = TRUE
    BY <1>8 DEF Start, QueueInv, TypeOK, ConsumerInv
  <2>2. TypeOK'
    BY <1>1, <2>1 DEF QueueInv, TypeOK
  <2>3. ConsumerInv'
    BY <1>1, <1>2, <1>3, <2>1 DEF ConsumerInv
  <2> QED
    BY <1>7, <2>1, <2>2, <2>3
<1>9. CASE Consume
  <2>1. TypeOK' /\ ConsumerInv' /\ UNCHANGED <<head, taken>>
    BY <1>1, <1>2, <1>3, <1>5, <1>9 DEF Consume, QueueInv, TypeOK, ConsumerInv
  <2> QED
    BY <1>7, <2>1
<1>10. CASE ConsumeNext
  <2>1. taken < Len(log) /\ cur' = addr[taken + 2] /\ cur' \in Node /\ rpc' = "handle"
        /\ UNCHANGED <<head, nxt, exiting, taken>> /\ ~exiting
    BY <1>6, <1>10, QueueAssumption DEF ConsumeNext, QueueInv, ConsumerInv
  <2>2. TypeOK' /\ ConsumerInv'
    BY <1>1, <1>2, <1>3, <2>1, QueueAssumption DEF QueueInv, TypeOK, ConsumerInv, Pointer
  <2> QED
    BY <1>7, <2>1, <2>2
<1>11. CASE Handle
  <2>1. rpc = "handle" /\ rpc' = "done" /\ exiting' = (payload[cur] = Stop)
        /\ UNCHANGED <<head, cur, nxt, taken>> /\ cur # NULL
    BY <1>11 DEF Handle, QueueInv, ConsumerInv
  <2>2. TypeOK' /\ ConsumerInv'
    BY <1>1, <1>2, <1>3, <2>1 DEF QueueInv, TypeOK, ConsumerInv
  <2> QED
    BY <1>7, <2>1, <2>2
<1>12. CASE DoneConsume
  <2>1. TypeOK' /\ ConsumerInv' /\ UNCHANGED <<head, taken>>
    BY <1>1, <1>2, <1>3, <1>5, <1>6, <1>12 DEF DoneConsume, QueueInv, TypeOK, ConsumerInv, Pointer
  <2> QED
    BY <1>7, <2>1
<1>13. CASE DoneLoad
  <2>1. TypeOK' /\ ConsumerInv' /\ UNCHANGED <<head, taken>>
    BY <1>1, <1>2, <1>3, <1>6, <1>13 DEF DoneLoad, QueueInv, TypeOK, ConsumerInv, Pointer
  <2> QED
    BY <1>7, <2>1
<1>14. CASE DoneStore
  <2>1. /\ rpc = "store" /\ head' = addr[taken + 2] /\ taken' = taken + 1 /\ cur' = NULL
        /\ rpc' = (IF exiting THEN "end" ELSE "consume") /\ UNCHANGED <<nxt, exiting>>
        /\ taken < Len(log)
    BY <1>14 DEF DoneStore, QueueInv, ConsumerInv
  <2>2. TypeOK'
    BY <1>1, <1>2, <1>6, <2>1 DEF QueueInv, TypeOK, Pointer
  <2>3. ConsumerInv'
    BY <1>1, <1>2, <1>3, <2>1 DEF QueueInv, TypeOK, ConsumerInv
  <2>4. PointersInv'
    BY <1>1, <1>2, <1>3, <2>1 DEF QueueInv, PointersInv
  <2> QED
    BY <1>4, <2>2, <2>3, <2>4 DEF QueueInv
<1> QED
  BY <1>8, <1>9, <1>10, <1>11, <1>12, <1>13, <1>14 DEF Render

-----------------------------------------------------------------------------
(* The theorems *)

LEMMA StepInv == QueueInv /\ [Next]_vars => QueueInv'
<1> SUFFICES ASSUME QueueInv, [Next]_vars PROVE QueueInv'
  OBVIOUS
<1>1. CASE Main
  BY <1>1, MainInv, ProduceInv DEF Main
<1>2. CASE Render
  BY <1>2, RenderInv
<1>3. CASE UNCHANGED vars
  BY <1>3 DEF vars, memory, producer, consumer, history, QueueInv, TypeOK, PointersInv, ListInv,
              ProducerInv, LiveInv, ConsumerInv, Linked, OutsideList
<1> QED
  BY <1>1, <1>2, <1>3 DEF Next, Terminated

\* In every state the list is what the code takes it to be: the nodes from
\* first to tail are distinct, allocated and linked in the order of the
\* messages, head and the consumer's message have their places in it, and
\* nothing else is allocated but the producer's own node.
THEOREM QueueInvariant == Spec => []QueueInv
BY InitInv, StepInv, PTL DEF Spec

\* Type correctness; head and tail never become null.
THEOREM QueueTypes == Spec => []TypeOK
BY QueueInvariant, PTL DEF QueueInv

\* With one producer no freed node is read, written or freed again, whatever
\* the interleaving and however calloc reuses addresses.
THEOREM QueueIsMemorySafe == Spec => []NoUseAfterFree
<1>1. QueueInv => NoUseAfterFree
  <2> SUFFICES ASSUME QueueInv PROVE NoUseAfterFree
    OBVIOUS
  <2> USE DEF Linked, OutsideList
  <2>1. /\ freed \in Nat /\ taken \in Nat /\ Len(log) \in Nat /\ Len(addr) = Len(log) + 1
        /\ taken <= Len(log) /\ freed <= Len(addr)
        /\ head = addr[taken + 1] /\ tail = addr[Len(addr)]
        /\ first = IF freed < Len(addr) THEN addr[freed + 1] ELSE NULL
        /\ ppc["render"] = "idle"
        /\ \A i \in Linked : addr[i] \in live
    BY DEF QueueInv, TypeOK, PointersInv, ListInv, ProducerInv
  <2>2. ppc["main"] # "idle" => freed <= taken
    BY DEF QueueInv, TypeOK, PointersInv, ProducerInv
  <2>3. rpc # "end" => freed <= taken
    BY DEF QueueInv, TypeOK, PointersInv, ConsumerInv
  <2>4. \A t \in Thread : t = "main" \/ t = "render"
    BY DEF Thread
  <2>5. \A t \in Thread : /\ ppc[t] = "link" => tail \in live
                          /\ ppc[t] \in {"link", "publish"} => msg[t] \in live
                          /\ ppc[t] = "unlink" => first \in live
                          /\ ppc[t] = "free" => tmp[t] \in live
    BY <2>1, <2>2, <2>4 DEF QueueInv, ProducerInv
  <2>6. mpc = "free" => first = NULL \/ first \in live
    BY <2>1
  <2>7. rpc \in {"next", "load"} => head \in live
    BY <2>1, <2>3
  <2>8. rpc = "handle" => cur \in live
    BY <2>1, <2>3 DEF QueueInv, ConsumerInv
  <2> QED
    BY <2>5, <2>6, <2>7, <2>8 DEF NoUseAfterFree
<1> QED
  BY <1>1, QueueInvariant, PTL

\* queue_free() leaves nothing behind.
THEOREM QueueDoesNotLeak == Spec => []NoLeak
<1>1. QueueInv => NoLeak
  BY DEF QueueInv, TypeOK, ProducerInv, LiveInv, ConsumerInv, Linked, NoLeak
<1> QED
  BY <1>1, QueueInvariant, PTL

-----------------------------------------------------------------------------
(* Refinement *)

inHand == IF cur = NULL THEN NoMsg ELSE payload[cur]

(* The empty queue is the empty channel.                                   *)
LEMMA InitRefines == Init => ChannelOf!Init
<1> SUFFICES ASSUME Init PROVE ChannelOf!Init
  OBVIOUS
<1>1. log = <<>> /\ taken = 0 /\ cur = NULL /\ rpc = "start"
  BY DEF Init
<1> QED
  BY <1>1 DEF ChannelOf!Init

\* No message changes while the consumer holds it: the producer neither frees
\* nor reuses its node.
LEMMA InHandIsStable ==
  ASSUME QueueInv, Main PROVE inHand' = inHand /\ UNCHANGED <<taken, rpc>>
<1>1. UNCHANGED <<cur, taken, rpc>>
  BY DEF Main, MainSend, MainStop, Allocate, Produce, Link, Publish, Check, Unlink, Free, Join,
         QueueFree, consumer, history
<1>2. ASSUME cur # NULL PROVE cur \in live /\ cur \in Node
  <2>1. taken < Len(log) /\ cur = addr[taken + 2] /\ rpc # "end"
    BY <1>2 DEF QueueInv, ConsumerInv
  <2>2. taken + 2 \in Linked
    BY <2>1 DEF QueueInv, TypeOK, PointersInv, ConsumerInv, Linked
  <2> QED
    BY <2>1, <2>2 DEF QueueInv, TypeOK, ListInv
<1>3. ASSUME NEW n \in live PROVE payload'[n] = payload[n]
  BY <1>3 DEF Main, MainSend, MainStop, Allocate, Produce, Link, Publish, Check, Unlink, Free,
              Join, QueueFree, memory, QueueInv, TypeOK
<1> QED
  BY <1>1, <1>2, <1>3 DEF inHand

(* Publishing is sending, consuming is receiving; the rest is invisible.   *)
LEMMA StepRefines ==
  ASSUME QueueInv, [Next]_vars
  PROVE  ChannelOf!Next \/ UNCHANGED <<log, taken, inHand, rpc # "end">>
<1>1. CASE Main
  <2>1. inHand' = inHand /\ UNCHANGED <<taken, rpc>>
    BY <1>1, InHandIsStable
  <2>2. CASE Publish("main")
    <3>1. log' = Append(log, payload[msg["main"]]) /\ payload[msg["main"]] \in Payload
      BY <2>2 DEF Publish, QueueInv, TypeOK, ProducerInv, OutsideList
    <3> QED
      BY <2>1, <3>1 DEF ChannelOf!Next, ChannelOf!Send, inHand
  <2>3. CASE ~Publish("main")
    <3>1. log' = log
      BY <1>1, <2>3 DEF Main, MainSend, MainStop, Allocate, Produce, Link, Check, Unlink, Free,
                        Join, QueueFree, history
    <3> QED
      BY <2>1, <3>1
  <2> QED
    BY <2>2, <2>3
<1>2. CASE Render
  <2>1. UNCHANGED <<log, payload>> /\ Len(log) \in Nat /\ taken \in Nat /\ taken <= Len(log)
    BY <1>2, RenderFrame DEF QueueInv, TypeOK, PointersInv
  <2>2. NoMsg \notin Payload /\ NULL \notin Node
    BY QueueAssumption DEF Payload
  <2>3. CASE Start \/ Consume \/ Handle \/ DoneLoad
    <3>1. UNCHANGED <<cur, taken>> /\ rpc # "end" /\ rpc' # "end"
      BY <2>3 DEF Start, Consume, Handle, DoneLoad
    <3> QED
      BY <2>1, <3>1 DEF inHand
  <2>4. CASE ConsumeNext
    <3>1. /\ cur = NULL /\ taken < Len(log) /\ rpc = "next" /\ cur' = next[head]
          /\ taken' = taken /\ rpc' # "end"
      BY <2>4 DEF ConsumeNext, QueueInv, ConsumerInv
    <3>2. taken + 1 \in Linked /\ taken + 2 \in Linked /\ head = addr[taken + 1]
      BY <2>1, <3>1 DEF QueueInv, TypeOK, PointersInv, ConsumerInv, Linked
    <3>3. next[head] = addr[taken + 2] /\ addr[taken + 2] \in Node
          /\ payload[addr[taken + 2]] = log[taken + 1]
      <4>1. next[addr[taken + 1]] = addr[(taken + 1) + 1]
        BY <2>1, <3>1, <3>2 DEF QueueInv, PointersInv, ListInv
      <4>2. payload[addr[taken + 2]] = log[(taken + 2) - 1]
        BY <2>1, <3>1, <3>2 DEF QueueInv, PointersInv, ListInv
      <4>3. addr[taken + 2] \in Node
        BY <2>1, <3>1, <3>2 DEF QueueInv, TypeOK, PointersInv
      <4>4. (taken + 1) + 1 = taken + 2 /\ (taken + 2) - 1 = taken + 1
        BY <2>1
      <4> QED
        BY <3>2, <4>1, <4>2, <4>3, <4>4
    <3>4. inHand = NoMsg /\ inHand' = log[taken + 1]
      BY <2>1, <2>2, <3>1, <3>3 DEF inHand
    <3> QED
      BY <2>1, <3>1, <3>4 DEF ChannelOf!Next, ChannelOf!Take, inHand
  <2>5. CASE DoneConsume
    <3>1. CASE head # tail
      BY <2>1, <2>5, <3>1 DEF DoneConsume, inHand
    <3>2. CASE head = tail
      <4>1. /\ rpc = "done" /\ cur' = NULL /\ rpc' = (IF exiting THEN "end" ELSE "consume")
            /\ taken' = taken
        BY <2>5, <3>2 DEF DoneConsume
      <4>2. cur = NULL
        <5> SUFFICES ASSUME cur # NULL PROVE FALSE
          OBVIOUS
        <5>1. taken < Len(log) /\ freed <= taken /\ Len(addr) = Len(log) + 1
              /\ freed \in Nat
          BY <4>1 DEF QueueInv, TypeOK, PointersInv, ConsumerInv
        <5>2. taken + 1 \in Linked /\ Len(addr) \in Linked /\ taken + 1 # Len(addr)
          BY <2>1, <5>1 DEF Linked
        <5> QED
          BY <3>2, <5>2 DEF QueueInv, PointersInv, ListInv
      <4>3. exiting /\ taken = 0
        BY <4>1, <4>2 DEF QueueInv, ConsumerInv
      <4>4. taken = Len(log)
        <5>1. freed <= taken /\ Len(addr) = Len(log) + 1 /\ freed \in Nat
          BY <4>1 DEF QueueInv, TypeOK, PointersInv, ConsumerInv
        <5>2. taken + 1 \in Linked /\ Len(addr) \in Linked
          BY <2>1, <5>1 DEF Linked
        <5>3. addr[taken + 1] = addr[Len(addr)]
          BY <3>2 DEF QueueInv, PointersInv
        <5>4. taken + 1 = Len(addr)
          BY <5>2, <5>3 DEF QueueInv, ListInv
        <5> QED
          BY <2>1, <5>1, <5>4
      <4> QED
        BY <2>1, <4>1, <4>2, <4>3, <4>4 DEF ChannelOf!Next, ChannelOf!Close
    <3> QED
      BY <3>1, <3>2
  <2>6. CASE DoneStore
    <3>1. /\ rpc = "store" /\ taken' = taken + 1 /\ cur' = NULL /\ taken < Len(log)
          /\ rpc' = (IF exiting THEN "end" ELSE "consume")
          /\ IF cur = NULL THEN exiting /\ taken = 0 ELSE exiting = (payload[cur] = Stop)
      BY <2>6 DEF DoneStore, QueueInv, ConsumerInv
    <3>2. cur # NULL => payload[cur] \in Payload
      BY DEF QueueInv, TypeOK, Pointer
    <3>3. CASE exiting
      BY <2>1, <3>1, <3>3 DEF ChannelOf!Next, ChannelOf!Close
    <3>4. CASE ~exiting
      BY <2>1, <2>2, <3>1, <3>2, <3>4 DEF ChannelOf!Next, ChannelOf!Finish
    <3> QED
      BY <3>3, <3>4
  <2> QED
    BY <1>2, <2>3, <2>4, <2>5, <2>6 DEF Render
<1>3. CASE UNCHANGED vars
  BY <1>3 DEF vars, memory, producer, consumer, history, inHand
<1> QED
  BY <1>1, <1>2, <1>3 DEF Next, Terminated

\* The linked list delivers every message once and in the order it was sent
\* (safety part of ImplementsChannel).
THEOREM QueueRefinesChannel == Spec => ChannelOf!Spec
<1>1. QueueInv /\ [Next]_vars => [ChannelOf!Next]_ChannelOf!channelVars
  BY StepRefines DEF ChannelOf!channelVars, inHand
<1> QED
  BY InitRefines, QueueInvariant, <1>1, PTL DEF Spec, ChannelOf!Spec
=============================================================================
