------------------------- MODULE EventDelivery_proofs -------------------------
(***************************************************************************)
(* Proofs about EventDelivery, for every set of events, every finite set of *)
(* replicas and every MaxDeliver: the type invariant, and that an event is  *)
(* acknowledged only when handled, given up only after its last delivery    *)
(* and handled no more often than delivered.                                *)
(***************************************************************************)
EXTENDS EventDelivery, FiniteSetTheorems, TLAPS

\* The replicas that have event m in their hands and have not run its handler.
Busy(m) == {w \in Workers : hand[w].pc = "received" /\ hand[w].msg = m}

\* A delivery whose handler has not run yet is not counted as an effect; a replica
\* is about to acknowledge only what it handled; and what JetStream may hand out
\* once more was handed out less than MaxDeliver times. Without the first,
\* effects are not bounded by deliveries; without the second, an acknowledgement
\* need not be earned.
DeliveriesAccounted ==
  /\ \A m \in Messages : effect[m] + Cardinality(Busy(m)) <= deliveries[m]
  /\ \A w \in Workers : hand[w].pc = "ack" => effect[hand[w].msg] > 0
  /\ \A m \in Messages :
       /\ state[m] = "new" => deliveries[m] = 0
       /\ state[m] = "ready" => deliveries[m] < MaxDeliver

IInv == TypeOK /\ LostOnlyAfterRetries /\ DeliveriesAccounted

Hand == [pc : {"idle", "received", "ack", "nak"}, msg : Messages \cup {NoMessage}]

\* What the replicas have in their hands is a finite set.
LEMMA BusyIsFinite ==
  ASSUME NEW m \in Messages
  PROVE  IsFiniteSet(Busy(m)) /\ Cardinality(Busy(m)) \in Nat
<1>1. Busy(m) \subseteq Workers
  BY DEF Busy
<1>2. QED BY <1>1, WorkersAssumption, FS_Subset, FS_CardinalityType

LEMMA InitIInv == Init => IInv
<1> SUFFICES ASSUME Init PROVE IInv
  OBVIOUS
<1> USE MessagesAssumption, WorkersAssumption, DeliverAssumption DEF Init
<1>1. \A w \in Workers : hand[w].pc = "idle" /\ hand[w] \in Hand
  BY DEF Idle, Hand
<1>2. ASSUME NEW m \in Messages PROVE Cardinality(Busy(m)) = 0
  <2>1. Busy(m) = {}
    BY <1>1 DEF Busy
  <2>2. QED BY <2>1, FS_EmptySet
<1>3. filterSubject \in Seq({StreamName, EventType})
  <2>1. <<EventType>> \in Seq({StreamName, EventType})
    OBVIOUS
  <2>2. <<StreamName, EventType>> \in Seq({StreamName, EventType})
    OBVIOUS
  <2>3. QED BY <2>1, <2>2
<1>4. hand \in [Workers -> Hand]
  <2>1. hand = [w \in Workers |-> hand[w]]
    OBVIOUS
  <2>2. QED BY <1>1, <2>1
<1>5. TypeOK
  BY <1>1, <1>3, <1>4 DEF TypeOK, States, At, Hand
<1>6. LostOnlyAfterRetries
  BY DEF LostOnlyAfterRetries
<1>7. DeliveriesAccounted
  BY <1>1, <1>2 DEF DeliveriesAccounted
<1>8. QED BY <1>5, <1>6, <1>7 DEF IInv

\* A replica that puts down what it has, or turns to what it will answer, is busy
\* with nothing, and the others stay as they were.
LEMMA NoLongerBusy ==
  ASSUME hand \in [Workers -> Hand], NEW w \in Workers, NEW r \in Hand, r.pc # "received",
         hand' = [hand EXCEPT ![w] = r], NEW m \in Messages
  PROVE  /\ Cardinality(Busy(m)') <= Cardinality(Busy(m))
         /\ hand[w].pc = "received" /\ hand[w].msg = m
              => Cardinality(Busy(m)') = Cardinality(Busy(m)) - 1
         /\ Cardinality(Busy(m)') \in Nat
<1>1. Busy(m)' = Busy(m) \ {w}
  BY DEF Busy
<1>2. IsFiniteSet(Busy(m)) /\ Cardinality(Busy(m)) \in Nat
  BY BusyIsFinite
<1>3. Cardinality(Busy(m) \ {w}) =
        IF w \in Busy(m) THEN Cardinality(Busy(m)) - 1 ELSE Cardinality(Busy(m))
  BY <1>2, FS_RemoveElement
<1>4. hand[w].pc = "received" /\ hand[w].msg = m => w \in Busy(m)
  BY DEF Busy
<1>5. w \in Busy(m) => Cardinality(Busy(m)) # 0
  BY <1>2, FS_EmptySet
<1>6. QED BY <1>1, <1>2, <1>3, <1>4, <1>5

LEMMA NextIInv == IInv /\ [Next]_vars => IInv'
<1> SUFFICES ASSUME IInv, [Next]_vars PROVE IInv'
  OBVIOUS
<1> USE MessagesAssumption, DeliverAssumption
<1>T. /\ state \in [Messages -> States] /\ deliveries \in [Messages -> 0..MaxDeliver]
      /\ hand \in [Workers -> Hand] /\ effect \in [Messages -> Nat]
      /\ filterSubject \in Seq({StreamName, EventType}) /\ lost \subseteq Messages
      /\ \A w \in Workers : hand[w].pc # "idle" => hand[w].msg \in Messages /\ deliveries[hand[w].msg] > 0
  BY DEF IInv, TypeOK, At, Hand
<1>L. LostOnlyAfterRetries
  BY DEF IInv
<1>D. DeliveriesAccounted
  BY DEF IInv
<1>I. Idle \in Hand /\ Idle.pc = "idle"
  BY DEF Idle, Hand
<1>C. \A m \in Messages : Cardinality(Busy(m)) \in Nat
  BY BusyIsFinite
\* A replica puts its event down or turns to its answer; the event's state moves on.
<1>K. ASSUME NEW w \in Workers, NEW r \in Hand, hand' = [hand EXCEPT ![w] = r],
             r.pc # "received",
             r.pc # "idle" => hand[w].pc # "idle" /\ r.msg = hand[w].msg,
             r.pc = "ack" => effect[r.msg] > 0,
             UNCHANGED <<deliveries, effect, filterSubject>>, lost' \subseteq Messages,
             state' \in [Messages -> States],
             \A m \in Messages : state'[m] # state[m] =>
               \/ state'[m] = "acked" /\ effect[m] > 0
               \/ state'[m] = "ready" /\ deliveries[m] < MaxDeliver
               \/ state'[m] = "given_up" /\ deliveries[m] = MaxDeliver
      PROVE  IInv'
  <2>1. hand' \in [Workers -> Hand] /\ hand'[w] = r
        /\ \A v \in Workers \ {w} : hand'[v] = hand[v]
    BY <1>K, <1>T
  <2>2. TypeOK'
    <3>1. ASSUME NEW v \in Workers, hand'[v].pc # "idle"
          PROVE  hand'[v].msg \in Messages /\ deliveries'[hand'[v].msg] > 0
      BY <1>K, <1>T, <2>1, <3>1
    <3>2. QED BY <1>K, <1>T, <2>1, <3>1 DEF TypeOK, At, Hand
  <2>3. LostOnlyAfterRetries'
    BY <1>K, <1>L DEF LostOnlyAfterRetries
  <2>4. DeliveriesAccounted'
    <3>1. ASSUME NEW m \in Messages
          PROVE  effect'[m] + Cardinality(Busy(m)') <= deliveries'[m]
      <4>1. Cardinality(Busy(m)') <= Cardinality(Busy(m)) /\ Cardinality(Busy(m)') \in Nat
        BY <1>K, <1>T, NoLongerBusy
      <4>2. effect[m] + Cardinality(Busy(m)) <= deliveries[m]
        BY <1>D DEF DeliveriesAccounted
      <4>3. QED BY <1>K, <1>T, <1>C, <4>1, <4>2
    <3>2. ASSUME NEW v \in Workers, hand'[v].pc = "ack"
          PROVE  effect'[hand'[v].msg] > 0
      BY <1>K, <1>D, <2>1, <3>2 DEF DeliveriesAccounted
    <3>3. \A m \in Messages : /\ state'[m] = "new" => deliveries'[m] = 0
                              /\ state'[m] = "ready" => deliveries'[m] < MaxDeliver
      BY <1>K, <1>D DEF DeliveriesAccounted
    <3>4. QED BY <3>1, <3>2, <3>3 DEF DeliveriesAccounted
  <2>5. QED BY <2>2, <2>3, <2>4 DEF IInv
\* No hand moves, and one event's state does.
<1>S. ASSUME NEW m \in Messages, NEW s \in States, Become(m, s), s # "acked", s # "new",
             s = "ready" => deliveries[m] < MaxDeliver,
             s = "given_up" => deliveries[m] = MaxDeliver,
             UNCHANGED <<deliveries, hand, effect, filterSubject, lost>>
      PROVE  IInv'
  <2>1. state' = [state EXCEPT ![m] = s]
    BY <1>S DEF Become
  <2>2. TypeOK'
    BY <1>S, <1>T, <2>1 DEF TypeOK, At, Hand
  <2>3. LostOnlyAfterRetries'
    BY <1>S, <1>T, <1>L, <2>1 DEF LostOnlyAfterRetries
  <2>4. \A n \in Messages : Busy(n)' = Busy(n)
    BY <1>S DEF Busy
  <2>5. DeliveriesAccounted'
    BY <1>S, <1>T, <1>D, <2>1, <2>4 DEF DeliveriesAccounted
  <2>6. QED BY <2>2, <2>3, <2>5 DEF IInv
\* The same event with another answer.
<1>G. ASSUME NEW w \in Workers, NEW p \in {"ack", "nak"}, Goto(w, p)
      PROVE  \E r \in Hand : hand' = [hand EXCEPT ![w] = r] /\ r.pc = p /\ r.msg = hand[w].msg
  <2>1. hand[w] \in Hand
    BY <1>T
  <2>2. [hand[w] EXCEPT !.pc = p] \in Hand
    BY <2>1 DEF Hand
  <2>3. PICK r \in Hand : r = [hand[w] EXCEPT !.pc = p]
    BY <2>2
  <2>4. r.pc = p /\ r.msg = hand[w].msg
    BY <2>1, <2>3 DEF Hand
  <2>5. hand' = [hand EXCEPT ![w] = r]
    BY <1>G, <2>3 DEF Goto
  <2>6. QED BY <2>4, <2>5
\* What is retried may be handed out again, or was handed out for the last time.
<1>R. ASSUME NEW m \in Messages
      PROVE  /\ Retried(m) \in {"ready", "given_up"} /\ Retried(m) \in States
             /\ Retried(m) = "ready" => deliveries[m] < MaxDeliver
             /\ Retried(m) = "given_up" => deliveries[m] = MaxDeliver
  BY <1>T DEF Retried, States
<1>1. ASSUME NEW w \in Workers, Reject(w) PROVE IInv'
  <2>1. PICK r \in Hand : hand' = [hand EXCEPT ![w] = r] /\ r.pc = "nak" /\ r.msg = hand[w].msg
    BY <1>1, <1>G DEF Reject
  <2>2. /\ UNCHANGED <<state, deliveries, effect, filterSubject>> /\ lost' = lost
        /\ hand[w].pc = "received"
    BY <1>1 DEF Reject, At
  <2>3. QED BY <1>K, <1>T, <2>1, <2>2
<1>2. ASSUME NEW w \in Workers, HandleFails(w) PROVE IInv'
  <2>1. PICK r \in Hand : hand' = [hand EXCEPT ![w] = r] /\ r.pc = "nak" /\ r.msg = hand[w].msg
    BY <1>2, <1>G DEF HandleFails
  <2>2. /\ UNCHANGED <<state, deliveries, effect, filterSubject>> /\ lost' = lost
        /\ hand[w].pc = "received"
    BY <1>2 DEF HandleFails, At
  <2>3. QED BY <1>K, <1>T, <2>1, <2>2
<1>3. ASSUME NEW w \in Workers, Handle(w) PROVE IInv'
  <2>1. PICK m \in Messages : m = hand[w].msg
    BY <1>3, <1>T DEF Handle, At
  <2>2. PICK r \in Hand : hand' = [hand EXCEPT ![w] = r] /\ r.pc = "ack" /\ r.msg = m
    BY <1>3, <1>G, <2>1 DEF Handle
  <2>3. /\ hand[w].pc = "received" /\ UNCHANGED <<state, deliveries, filterSubject>> /\ lost' = lost
        /\ effect' = [effect EXCEPT ![m] = effect[m] + 1]
    BY <1>3, <2>1 DEF Handle, At
  <2>4. /\ effect' \in [Messages -> Nat] /\ effect'[m] = effect[m] + 1
        /\ \A n \in Messages \ {m} : effect'[n] = effect[n]
    BY <1>T, <2>3
  <2>5. /\ hand' \in [Workers -> Hand] /\ hand'[w] = r
        /\ \A v \in Workers \ {w} : hand'[v] = hand[v]
    BY <1>T, <2>2
  <2>6. ASSUME NEW n \in Messages PROVE effect'[n] + Cardinality(Busy(n)') <= deliveries'[n]
    <3>1. /\ Cardinality(Busy(n)') <= Cardinality(Busy(n)) /\ Cardinality(Busy(n)') \in Nat
          /\ n = m => Cardinality(Busy(n)') = Cardinality(Busy(n)) - 1
      BY <1>T, <2>1, <2>2, <2>3, NoLongerBusy
    <3>2. effect[n] + Cardinality(Busy(n)) <= deliveries[n]
      BY <1>D DEF DeliveriesAccounted
    <3>3. effect[n] \in Nat /\ deliveries'[n] = deliveries[n] /\ deliveries[n] \in Nat
          /\ Cardinality(Busy(n)) \in Nat
      BY <1>T, <1>C, <2>3
    <3>4. CASE n = m
      BY <2>4, <3>1, <3>2, <3>3, <3>4
    <3>5. CASE n # m
      BY <2>4, <3>1, <3>2, <3>3, <3>5
    <3>6. QED BY <3>4, <3>5
  <2>7. TypeOK'
    <3>1. ASSUME NEW v \in Workers, hand'[v].pc # "idle"
          PROVE  hand'[v].msg \in Messages /\ deliveries'[hand'[v].msg] > 0
      BY <1>T, <2>1, <2>2, <2>3, <2>5, <3>1
    <3>2. QED BY <1>T, <2>3, <2>4, <2>5, <3>1 DEF TypeOK, At, Hand
  <2>8. LostOnlyAfterRetries'
    <3>1. ASSUME NEW n \in Messages
          PROVE  effect'[n] <= deliveries'[n] /\ effect'[n] >= effect[n]
      <4>1. Cardinality(Busy(n)') \in Nat
        BY <1>T, <2>2, NoLongerBusy
      <4>2. deliveries'[n] \in Nat /\ effect[n] \in Nat /\ effect'[n] \in Nat
        BY <1>T, <2>3, <2>4
      <4>3. effect'[n] <= deliveries'[n]
        BY <2>6, <4>1, <4>2
      <4>4. effect'[n] >= effect[n]
        BY <2>4, <4>2
      <4>5. QED BY <4>3, <4>4
    <3>2. ASSUME NEW n \in Messages, state'[n] = "acked" PROVE effect'[n] > 0
      BY <1>T, <1>L, <2>3, <2>4, <3>1, <3>2 DEF LostOnlyAfterRetries
    <3>3. QED BY <1>L, <2>3, <3>1, <3>2 DEF LostOnlyAfterRetries
  <2>9. DeliveriesAccounted'
    <3>1. ASSUME NEW v \in Workers, hand'[v].pc = "ack" PROVE effect'[hand'[v].msg] > 0
      <4>1. CASE v = w
        BY <1>T, <2>2, <2>4, <2>5, <4>1
      <4>2. CASE v # w
        <5>1. hand[v].pc = "ack" /\ hand'[v] = hand[v] /\ hand[v].msg \in Messages
          BY <1>T, <2>5, <3>1, <4>2
        <5>2. PICK n \in Messages : n = hand[v].msg
          BY <5>1
        <5>3. effect[n] > 0
          BY <1>D, <5>1, <5>2 DEF DeliveriesAccounted
        <5>4. effect'[n] >= effect[n] /\ effect'[n] \in Nat /\ effect[n] \in Nat
          BY <1>T, <2>4
        <5>5. effect'[n] > 0
          BY <5>3, <5>4
        <5>6. QED BY <5>1, <5>2, <5>5
      <4>3. QED BY <4>1, <4>2
    <3>2. QED BY <1>D, <2>3, <2>6, <3>1 DEF DeliveriesAccounted
  <2>10. QED BY <2>7, <2>8, <2>9 DEF IInv
<1>4. ASSUME NEW w \in Workers, Ack(w) PROVE IInv'
  <2>1. PICK m \in Messages : m = hand[w].msg
    BY <1>4, <1>T DEF Ack, At
  <2>2. /\ UNCHANGED <<deliveries, effect, filterSubject>> /\ lost' = lost
        /\ hand' = [hand EXCEPT ![w] = Idle]
    BY <1>4 DEF Ack, Finish
  <2>3. effect[m] > 0
    BY <1>4, <1>D, <2>1 DEF Ack, At, DeliveriesAccounted
  <2>4. \/ state' = [state EXCEPT ![m] = "acked"]
        \/ state' = state
    BY <1>4, <2>1 DEF Ack, Become
  <2>5. state' \in [Messages -> States]
        /\ \A n \in Messages : state'[n] # state[n] => state'[n] = "acked" /\ effect[n] > 0
    BY <1>T, <2>3, <2>4 DEF States
  <2>6. QED BY <1>K, <1>I, <1>T, <2>2, <2>5
<1>5. ASSUME NEW w \in Workers, Nak(w) PROVE IInv'
  <2>1. PICK m \in Messages : m = hand[w].msg
    BY <1>5, <1>T DEF Nak, At
  <2>2. /\ UNCHANGED <<deliveries, effect, filterSubject>> /\ lost' = lost
        /\ hand' = [hand EXCEPT ![w] = Idle]
    BY <1>5 DEF Nak, Finish
  <2>3. \/ state' = [state EXCEPT ![m] = Retried(m)]
        \/ state' = state
    BY <1>5, <2>1 DEF Nak, Become
  <2>4. state' \in [Messages -> States]
        /\ \A n \in Messages : state'[n] # state[n] => n = m /\ state'[n] = Retried(m)
    BY <1>T, <1>R, <2>3
  <2>5. \A n \in Messages : state'[n] # state[n] =>
          \/ state'[n] = "ready" /\ deliveries[n] < MaxDeliver
          \/ state'[n] = "given_up" /\ deliveries[n] = MaxDeliver
    BY <1>R, <2>4
  <2>6. QED BY <1>K, <1>I, <1>T, <2>2, <2>4, <2>5
<1>6. ASSUME NEW w \in Workers, Lose(w) PROVE IInv'
  <2>1. /\ UNCHANGED <<state, deliveries, effect, filterSubject>>
        /\ hand' = [hand EXCEPT ![w] = Idle]
    BY <1>6 DEF Lose, Finish
  <2>2. lost' \subseteq Messages
    BY <1>6, <1>T DEF Lose, At
  <2>3. QED BY <1>K, <1>I, <1>T, <2>1, <2>2
<1>7. ASSUME NEW m \in Messages, Publish(m) PROVE IInv'
  <2>1. deliveries[m] < MaxDeliver
    BY <1>7, <1>D, DeliverAssumption DEF Publish, Fresh, DeliveriesAccounted
  <2>2. QED BY <1>7, <1>S, <2>1 DEF Publish, States
<1>8. ASSUME NEW m \in Messages, AckWait(m) PROVE IInv'
  BY <1>8, <1>S, <1>R DEF AckWait
<1>9. ASSUME NEW w \in Workers, NEW m \in Messages, Deliver(w, m) PROVE IInv'
  <2>1. /\ hand[w].pc = "idle" /\ state[m] = "ready" /\ UNCHANGED <<effect, filterSubject>> /\ lost' = lost
        /\ deliveries' = [deliveries EXCEPT ![m] = deliveries[m] + 1]
        /\ state' = [state EXCEPT ![m] = "out"]
        /\ hand' = [hand EXCEPT ![w] = [pc |-> "received", msg |-> m]]
    BY <1>9 DEF Deliver, At, Become
  <2>2. PICK r \in Hand : r = [pc |-> "received", msg |-> m]
    BY DEF Hand
  <2>3. /\ hand' \in [Workers -> Hand] /\ hand'[w] = r /\ r.pc = "received" /\ r.msg = m
        /\ \A v \in Workers \ {w} : hand'[v] = hand[v]
    BY <1>T, <2>1, <2>2
  <2>4. deliveries[m] < MaxDeliver
    BY <1>D, <2>1 DEF DeliveriesAccounted
  <2>5. /\ deliveries' \in [Messages -> 0..MaxDeliver] /\ deliveries'[m] = deliveries[m] + 1
        /\ \A n \in Messages \ {m} : deliveries'[n] = deliveries[n]
    BY <1>T, <2>1, <2>4
  <2>6. state' \in [Messages -> States]
    BY <1>T, <2>1 DEF States
  <2>7. ASSUME NEW n \in Messages PROVE effect'[n] + Cardinality(Busy(n)') <= deliveries'[n]
    <3>1. effect[n] + Cardinality(Busy(n)) <= deliveries[n] /\ effect[n] \in Nat
          /\ deliveries[n] \in Nat /\ Cardinality(Busy(n)) \in Nat /\ effect'[n] = effect[n]
      BY <1>T, <1>C, <1>D, <2>1 DEF DeliveriesAccounted
    <3>2. CASE n = m
      <4>1. Busy(n)' = Busy(n) \cup {w} /\ w \notin Busy(n)
        BY <2>1, <2>3, <3>2 DEF Busy
      <4>2. Cardinality(Busy(n)') = Cardinality(Busy(n)) + 1
        BY <4>1, BusyIsFinite, FS_AddElement
      <4>3. QED BY <2>5, <3>1, <3>2, <4>2
    <3>3. CASE n # m
      <4>1. Busy(n)' = Busy(n)
        BY <2>1, <2>3, <3>3 DEF Busy
      <4>2. QED BY <2>5, <3>1, <3>3, <4>1
    <3>4. QED BY <3>2, <3>3
  <2>8. TypeOK'
    <3>1. ASSUME NEW v \in Workers, hand'[v].pc # "idle"
          PROVE  hand'[v].msg \in Messages /\ deliveries'[hand'[v].msg] > 0
      <4>1. CASE v = w
        BY <1>T, <2>3, <2>5, <4>1
      <4>2. CASE v # w
        <5>1. hand'[v] = hand[v] /\ hand[v].pc # "idle"
          BY <2>3, <3>1, <4>2
        <5>2. PICK n \in Messages : n = hand[v].msg
          BY <1>T, <5>1
        <5>3. deliveries[n] > 0 /\ deliveries[n] \in Nat
          BY <1>T, <5>1, <5>2
        <5>4. deliveries'[n] > 0
          BY <2>5, <5>3
        <5>5. QED BY <5>1, <5>2, <5>4
      <4>3. QED BY <4>1, <4>2
    <3>2. QED BY <1>T, <2>1, <2>3, <2>5, <2>6, <3>1 DEF TypeOK, At, Hand
  <2>9. LostOnlyAfterRetries'
    BY <1>T, <1>L, <2>1, <2>5, <2>6 DEF LostOnlyAfterRetries
  <2>10. DeliveriesAccounted'
    <3>1. ASSUME NEW v \in Workers, hand'[v].pc = "ack" PROVE effect'[hand'[v].msg] > 0
      BY <1>D, <2>1, <2>3, <3>1 DEF DeliveriesAccounted
    <3>2. ASSUME NEW n \in Messages
          PROVE  /\ state'[n] = "new" => deliveries'[n] = 0
                 /\ state'[n] = "ready" => deliveries'[n] < MaxDeliver
      BY <1>T, <1>D, <2>1, <2>5 DEF DeliveriesAccounted
    <3>3. QED BY <2>7, <3>1, <3>2 DEF DeliveriesAccounted
  <2>11. QED BY <2>8, <2>9, <2>10 DEF IInv
<1>10. CASE UNCHANGED vars
  <2>1. \A m \in Messages : Busy(m)' = Busy(m)
    BY <1>10 DEF vars, Busy
  <2>2. TypeOK' /\ LostOnlyAfterRetries'
    BY <1>10, <1>L DEF IInv, vars, TypeOK, At, LostOnlyAfterRetries
  <2>3. DeliveriesAccounted'
    BY <1>10, <1>D, <2>1 DEF vars, DeliveriesAccounted
  <2>4. QED BY <2>2, <2>3 DEF IInv
<1>11. CASE Next
  BY <1>11, <1>1, <1>2, <1>3, <1>4, <1>5, <1>6, <1>7, <1>8, <1>9 DEF Next, Work
<1>12. QED BY <1>10, <1>11

\* The inductive invariant holds in every reachable state.
THEOREM Invariance == Spec => []IInv
<1>1. Init => IInv
  BY InitIInv
<1>2. IInv /\ [Next]_vars => IInv'
  BY NextIInv
<1>3. QED BY <1>1, <1>2, PTL DEF Spec

\* Every reachable state is well typed: a message is handed out MaxDeliver times at
\* most, and what a replica works on was handed out.
THEOREM TypeCorrect == Spec => []TypeOK
<1>1. IInv => TypeOK
  BY DEF IInv
<1>2. QED BY <1>1, Invariance, PTL

\* However acknowledgements are lost, late or raced by AckWait: an acknowledged
\* event was handled, one is given up only after its last delivery, and it is
\* handled no more often than it was handed out.
THEOREM LossIsBounded == Spec => []LostOnlyAfterRetries
<1>1. IInv => LostOnlyAfterRetries
  BY DEF IInv
<1>2. QED BY <1>1, Invariance, PTL
===============================================================================
