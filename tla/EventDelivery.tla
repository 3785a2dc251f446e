----------------------------- MODULE EventDelivery -----------------------------
(***************************************************************************)
(* Events of shared/pkg/events: Publish into the JetStream stream, and one  *)
(* durable consumer created by Subscribe, which every replica of a service  *)
(* that calls it shares. JetStream hands a message out, counts deliveries,  *)
(* and hands it out again after a Nak or when AckWait passes, MaxDeliver     *)
(* times in all; the callback of Subscribe decides between Ack and Nak.     *)
(*                                                                         *)
(* JetStream is external and modelled from the consumer's configuration. A  *)
(* replica runs its callback for one message at a time. The model covers    *)
(* the seven days (MaxAge) for which the stream keeps a message.            *)
(***************************************************************************)
EXTENDS Naturals, FiniteSets, Sequences

CONSTANTS
  Messages,         \* events that are published
  Malformed,        \* those whose data is not the JSON of an Event
  Workers,          \* replicas that consume
  MaxDeliver,       \* ConsumerConfig.MaxDeliver
  StreamName,       \* Config.StreamName
  EventType,        \* the type of the events
  NoMessage

ASSUME MessagesAssumption == Malformed \subseteq Messages /\ NoMessage \notin Messages
ASSUME WorkersAssumption == IsFiniteSet(Workers)
ASSUME DeliverAssumption == MaxDeliver \in Nat \ {0}

VARIABLES
  state,            \* of each message, for the consumer
  deliveries,       \* how often it was handed out
  hand,             \* the message each worker works on, and how far it is
  filterSubject,    \* what the caller passed to Subscribe, as a path; never changes
  effect,           \* history: how often the handler succeeded with it
  lost              \* history: events of which a delivery or its answer was lost

vars == <<state, deliveries, hand, filterSubject, effect, lost>>

States == {"new", "ready", "out", "acked", "given_up"}
Idle   == [pc |-> "idle", msg |-> NoMessage]

At(w, p)   == hand[w].pc = p
Goto(w, p) == hand' = [hand EXCEPT ![w].pc = p]
Finish(w)  == hand' = [hand EXCEPT ![w] = Idle]
Become(m, s) == state' = [state EXCEPT ![m] = s]

\* Mutant: deliveries are not limited (MaxDeliver -1).
RetriedUnlimited(m) == "ready"

\* What becomes of a message that is not acknowledged.
Retried(m) == IF deliveries[m] < MaxDeliver THEN "ready" ELSE "given_up"
Pending(m) == state[m] \in {"ready", "out"}

\* Publish: StreamName + "." + event.Type.
Subject == <<StreamName, EventType>>
\* Subscribe: c.cfg.StreamName + "." + filterSubject.
Filter  == <<StreamName>> \o filterSubject

\* Subscribe was called with the type of the event, or with its whole subject,
\* as the comment of Subscribe has it.
Init ==
  /\ state = [m \in Messages |-> "new"]
  /\ deliveries = [m \in Messages |-> 0]
  /\ hand = [w \in Workers |-> Idle]
  /\ effect = [m \in Messages |-> 0] /\ lost = {}
  /\ filterSubject \in {<<EventType>>, <<StreamName, EventType>>}

\* NewEvent gives every event an id of its own, so each is published once.
Fresh(m) == state[m] = "new"

\* The stream stores the event. (If it does not, Publish returns an error, the
\* callers log or return it, and nothing happens here.)
Publish(m) ==
  /\ Fresh(m)
  /\ Become(m, "ready")
  /\ UNCHANGED <<deliveries, hand, effect, filterSubject, lost>>

\* JetStream hands a message that matches the filter to an idle worker.
Deliver(w, m) ==
  /\ At(w, "idle")
  /\ state[m] = "ready" /\ Subject = Filter
  /\ deliveries' = [deliveries EXCEPT ![m] = @ + 1]
  /\ Become(m, "out")
  /\ hand' = [hand EXCEPT ![w] = [pc |-> "received", msg |-> m]]
  /\ UNCHANGED <<effect, filterSubject, lost>>

\* Mutant: a malformed message is dropped without an answer.
RejectSilently(w) ==
  /\ At(w, "received") /\ hand[w].msg \in Malformed
  /\ Finish(w)
  /\ UNCHANGED <<state, deliveries, effect, filterSubject, lost>>

\* json.Unmarshal fails: the message is answered with Nak.
Reject(w) ==
  /\ At(w, "received") /\ hand[w].msg \in Malformed
  /\ Goto(w, "nak")
  /\ UNCHANGED <<state, deliveries, effect, filterSubject, lost>>

\* Mutant: an error of the handler is logged and the message acknowledged.
HandleFailsAcks(w) ==
  /\ At(w, "received") /\ hand[w].msg \notin Malformed
  /\ Goto(w, "ack")
  /\ UNCHANGED <<state, deliveries, effect, filterSubject, lost>>

\* The handler returns an error: Nak with a delay, which matters to no one here.
HandleFails(w) ==
  /\ At(w, "received") /\ hand[w].msg \notin Malformed
  /\ Goto(w, "nak")
  /\ UNCHANGED <<state, deliveries, effect, filterSubject, lost>>

\* The handler succeeds.
Handle(w) ==
  /\ At(w, "received") /\ hand[w].msg \notin Malformed
  /\ effect' = [effect EXCEPT ![hand[w].msg] = @ + 1]
  /\ Goto(w, "ack")
  /\ UNCHANGED <<state, deliveries, filterSubject, lost>>

\* Ack reaches JetStream, which settles the message although it may have been
\* handed out again meanwhile. A message it has given up stays given up.
Ack(w) ==
  /\ At(w, "ack")
  /\ IF Pending(hand[w].msg) THEN Become(hand[w].msg, "acked") ELSE UNCHANGED state
  /\ Finish(w)
  /\ UNCHANGED <<deliveries, effect, filterSubject, lost>>

\* Nak reaches JetStream.
Nak(w) ==
  /\ At(w, "nak")
  /\ LET m == hand[w].msg IN
     IF state[m] = "out" THEN Become(m, Retried(m)) ELSE UNCHANGED state
  /\ Finish(w)
  /\ UNCHANGED <<deliveries, effect, filterSubject, lost>>

\* Ack or Nak is lost, and its error dropped; or the replica dies.
Lose(w) ==
  /\ ~At(w, "idle")
  /\ lost' = lost \cup {hand[w].msg}
  /\ Finish(w)
  /\ UNCHANGED <<state, deliveries, effect, filterSubject>>

\* AckWait passes, while a worker may still be busy with the message.
AckWait(m) ==
  /\ state[m] = "out"
  /\ Become(m, Retried(m))
  /\ UNCHANGED <<deliveries, hand, effect, filterSubject, lost>>

Work(w) == Reject(w) \/ HandleFails(w) \/ Handle(w) \/ Ack(w) \/ Nak(w)

Next ==
  \/ \E w \in Workers : Work(w) \/ Lose(w)
  \/ \E m \in Messages : Publish(m) \/ AckWait(m)
  \/ \E w \in Workers, m \in Messages : Deliver(w, m)

Spec == Init /\ [][Next]_vars

\* A worker that is not lost goes on, and JetStream hands out what is ready to some
\* idle worker. AckWait passes for sure only where a delivery or its answer was lost:
\* otherwise it is the callback that is to settle the message.
FairSpec ==
  /\ Spec
  /\ \A w \in Workers : WF_vars(Work(w))
  /\ \A m \in Messages :
       WF_vars(\E w \in Workers : Deliver(w, m)) /\ WF_vars(m \in lost /\ AckWait(m))

-------------------------------------------------------------------------------
(* Correctness.                                                            *)

\* The shape of the consumer; a message is handed out MaxDeliver times at most,
\* and what a worker holds was handed out.
TypeOK ==
  /\ state \in [Messages -> States]
  /\ deliveries \in [Messages -> 0..MaxDeliver]
  /\ hand \in [Workers -> [pc : {"idle", "received", "ack", "nak"}, msg : Messages \cup {NoMessage}]]
  /\ effect \in [Messages -> Nat] /\ lost \subseteq Messages
  /\ filterSubject \in Seq({StreamName, EventType})
  /\ \A w \in Workers : ~At(w, "idle") => hand[w].msg \in Messages /\ deliveries[hand[w].msg] > 0

\* An acknowledged event was handled, an event is given up only after MaxDeliver
\* deliveries, and it is handled no more often than it was handed out, whatever
\* acknowledgements are lost or late.
LostOnlyAfterRetries ==
  \A m \in Messages :
    /\ state[m] = "acked" => effect[m] > 0
    /\ state[m] = "given_up" => deliveries[m] = MaxDeliver
    /\ effect[m] <= deliveries[m]

\* Every stored event is settled in the end by what the callback answers, Ack, or Nak
\* until the last delivery; only an event of which a delivery or its answer was lost
\* waits for AckWait (FairSpec). So the callback answers on every path, malformed
\* events included. This is for subscribers that pass the type of the event; one that
\* passes its whole subject, as the comment of Subscribe has it, is given nothing,
\* since StreamName is put in front of it.
Settled ==
  \A m \in Messages :
    (state[m] # "new" /\ filterSubject = <<EventType>>) ~> (state[m] \in {"acked", "given_up"})
===============================================================================
