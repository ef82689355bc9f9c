--------------------------- MODULE EventConsumers ---------------------------
(***************************************************************************)
(* The RabbitMQ consumers: the topology of queue/rabbit-topology.ts, the   *)
(* consume / retryOrDeadLetter handlers of rabbit-consumers.service.ts     *)
(* with manual acknowledgement, and the idempotent transactions of         *)
(* audit.repository.ts and notifications.repository.ts.                    *)
(*                                                                         *)
(* Queues are bags: the order of messages, and the delay a retry queue     *)
(* adds, decide nothing here.  A message is an event and its x-retry-count *)
(* header.  A slot is one of the unacknowledged messages a consumer of a   *)
(* worker may have in hand (prefetch); each slot runs one call of consume. *)
(***************************************************************************)
EXTENDS Naturals, FiniteSets

CONSTANTS Orders,            \* OrderCreated events   (key order.created)
          Payments,          \* PaymentCompleted events (key payment.completed)
          Workers,           \* worker replicas
          Prefetch,          \* channel.prefetch (10 in the code)
          MaxRetries,        \* MAX_RETRIES (3 in the code)
          Poison,            \* <<consumer, event>>: the handler always throws
          MaxCopies,         \* bound: publications of one event by the outbox
          MaxFailures,       \* bound: failing database, Redis or broker calls
          MaxOutages,        \* bound: worker deaths and broker restarts
          MaxBrokerRestarts  \* bound: orderly restarts of the broker

Events == Orders \cup Payments
Consumers == {"notification", "audit"}

ASSUME EventsAssumption == Orders \cap Payments = {} /\ Events # {}
ASSUME WorkersAssumption == IsFiniteSet(Workers)
ASSUME SizesAssumption == Prefetch \in Nat \ {0} /\ MaxRetries \in Nat
ASSUME PoisonAssumption == Poison \subseteq Consumers \X Events
ASSUME BoundsAssumption == /\ MaxCopies \in Nat /\ MaxFailures \in Nat
                           /\ MaxOutages \in Nat /\ MaxBrokerRestarts \in Nat

VARIABLES
  \* the broker
  published,   \* [event -> publications on the event exchange]
  ready,       \* [<<consumer, event, retries>> -> messages in <consumer>.events]
  retry,       \* [<<consumer, event, retries>> -> messages in <consumer>.events.retry]
  dead,        \* [<<consumer, event>> -> messages in <consumer>.events.dlq]
  \* worker processes
  consuming,   \* [worker -> does the broker still know its consumers]
  phase,       \* [slot -> where its call of consume is]
  event,       \* [slot -> event of the message in hand]
  retries,     \* [slot -> x-retry-count of the message in hand]
  attached,    \* [slot -> was the message delivered on the open channel]
  \* PostgreSQL and Redis
  processed,   \* [<<consumer, event>> -> marker in processed_messages]
  rows,        \* [<<consumer, event>> -> audit rows / notification deliveries]
  queued,      \* orders whose delivery has been added to BullMQ
  \* what went wrong so far
  failures, crashes, brokerRestarts

broker   == <<published, ready, retry, dead>>
slots    == <<phase, event, retries, attached>>
database == <<processed, rows, queued>>
history  == <<failures, crashes, brokerRestarts>>
vars     == <<broker, consuming, slots, database, history>>

Slots    == Workers \X Consumers \X (1..Prefetch)
Messages == Consumers \X Events \X (0..MaxRetries)
Phases   == {"free", "read", "write", "enqueue", "ack", "failed"}

TypeOK ==
  /\ published \in [Events -> Nat]
  /\ ready \in [Messages -> Nat] /\ retry \in [Messages -> Nat]
  /\ dead \in [Consumers \X Events -> Nat]
  /\ consuming \in [Workers -> BOOLEAN]
  /\ phase \in [Slots -> Phases]
  /\ event \in [Slots -> Events]
  /\ retries \in [Slots -> 0..MaxRetries]
  /\ attached \in [Slots -> BOOLEAN]
  /\ processed \in [Consumers \X Events -> BOOLEAN]
  /\ rows \in [Consumers \X Events -> Nat]
  /\ queued \subseteq Orders
  /\ failures \in Nat /\ crashes \in Nat /\ brokerRestarts \in Nat

Init ==
  /\ published = [e \in Events |-> 0]
  /\ ready = [m \in Messages |-> 0] /\ retry = [m \in Messages |-> 0]
  /\ dead = [p \in Consumers \X Events |-> 0]
  /\ consuming = [w \in Workers |-> TRUE]
  /\ phase = [s \in Slots |-> "free"]
  /\ event = [s \in Slots |-> CHOOSE e \in Events : TRUE]
  /\ retries = [s \in Slots |-> 0]
  /\ attached = [s \in Slots |-> FALSE]
  /\ processed = [p \in Consumers \X Events |-> FALSE]
  /\ rows = [p \in Consumers \X Events |-> 0]
  /\ queued = {}
  /\ failures = 0 /\ crashes = 0 /\ brokerRestarts = 0

-----------------------------------------------------------------------------
(* Routing *)

\* consumerDefinitions: the bindings of <consumer>.events, on the event
\* exchange, and of <consumer>.events.retry, on the retry exchange.
Bound(c, e) == c = "audit" \/ e \in Orders

\* Every queue of q bound to the event's key gets a copy with n retries.
Route(q, e, n) ==
  [m \in Messages |-> IF m[2] = e /\ m[3] = n /\ Bound(m[1], e)
                        THEN q[m] + 1 ELSE q[m]]

ConsumerOf(s) == s[2]
Subject(s)    == <<ConsumerOf(s), event[s]>>
Message(s)    == <<ConsumerOf(s), event[s], retries[s]>>

\* Messages the broker counts as delivered but unacknowledged on slots S.
Unacked(S, m) == {s \in S : attached[s] /\ phase[s] # "free" /\ Message(s) = m}

Failure == failures < MaxFailures /\ failures' = failures + 1

\* The slot is idle again; its registers get their initial values.
Release(s) == /\ phase' = [phase EXCEPT ![s] = "free"]
              /\ event' = [event EXCEPT ![s] = CHOOSE e \in Events : TRUE]
              /\ retries' = [retries EXCEPT ![s] = 0]
              /\ attached' = [attached EXCEPT ![s] = FALSE]

Goto(s, p) == /\ phase' = [phase EXCEPT ![s] = p]
              /\ UNCHANGED <<event, retries, attached>>

-----------------------------------------------------------------------------
(* The broker *)

\* The outbox publisher publishes event e (again).
Publish(e) ==
  /\ published[e] < MaxCopies
  /\ published' = [published EXCEPT ![e] = @ + 1]
  /\ ready' = Route(ready, e, 0)
  /\ UNCHANGED <<retry, dead, consuming, slots, database, history>>

\* A message of a retry queue expires: it is dead-lettered to the event
\* exchange under its original routing key.
RetryExpires ==
  \E m \in Messages :
    /\ retry[m] > 0
    /\ retry' = [retry EXCEPT ![m] = @ - 1]
    /\ ready' = Route(ready, m[2], m[3])
    /\ UNCHANGED <<published, dead, consuming, slots, database, history>>

\* A message is delivered to a free slot: consume is called.
Deliver(s) ==
  /\ consuming[s[1]] /\ phase[s] = "free"
  /\ \E e \in Events, n \in 0..MaxRetries :
       /\ ready[ConsumerOf(s), e, n] > 0
       /\ ready' = [ready EXCEPT ![<<ConsumerOf(s), e, n>>] = @ - 1]
       /\ event' = [event EXCEPT ![s] = e]
       /\ retries' = [retries EXCEPT ![s] = n]
  /\ phase' = [phase EXCEPT ![s] = "read"]
  /\ attached' = [attached EXCEPT ![s] = TRUE]
  /\ UNCHANGED <<published, retry, dead, consuming, database, history>>

-----------------------------------------------------------------------------
(* consume *)

\* A notification handler that skips the enqueue of a repeated event.
SkipsRepeated(s) ==
  /\ phase[s] = "read"
  /\ Goto(s, IF Subject(s) \in Poison THEN "failed"
             ELSE IF ~processed[Subject(s)] THEN "write"
             ELSE "ack")
  /\ UNCHANGED <<broker, consuming, database, history>>

\* The message is parsed and the transaction looks for its marker.  A
\* repeated order event yields the delivery that exists already.
Read(s) ==
  /\ phase[s] = "read"
  /\ Goto(s, IF Subject(s) \in Poison THEN "failed"
             ELSE IF ~processed[Subject(s)] THEN "write"
             ELSE IF ConsumerOf(s) = "notification" THEN "enqueue"
             ELSE "ack")
  /\ UNCHANGED <<broker, consuming, database, history>>

\* A marker table with no unique constraint.
InsertsBlindly(s) ==
  /\ processed' = [processed EXCEPT ![Subject(s)] = TRUE]
  /\ rows' = [rows EXCEPT ![Subject(s)] = @ + 1]
  /\ UNCHANGED queued

\* The transaction inserts the row and the marker and commits.
Inserts(s) ==
  /\ ~processed[Subject(s)]
  /\ processed' = [processed EXCEPT ![Subject(s)] = TRUE]
  /\ rows' = [rows EXCEPT ![Subject(s)] = @ + 1]
  /\ UNCHANGED queued

Write(s) ==
  /\ phase[s] = "write"
  /\ Inserts(s)
  /\ Goto(s, IF ConsumerOf(s) = "notification" THEN "enqueue" ELSE "ack")
  /\ UNCHANGED <<broker, consuming, history>>

\* A concurrent call committed the marker first: the unique constraint
\* rolls this transaction back and the handler throws.
WriteConflict(s) ==
  /\ phase[s] = "write"
  /\ processed[Subject(s)]
  /\ Goto(s, "failed")
  /\ UNCHANGED <<broker, consuming, database, history>>

\* notificationQueue.enqueue of the delivery.
Enqueue(s) ==
  /\ phase[s] = "enqueue"
  /\ queued' = queued \cup {event[s]}
  /\ Goto(s, "ack")
  /\ UNCHANGED <<broker, consuming, processed, rows, history>>

\* A database or Redis call of the handler fails, before or after its
\* effect.
HandlerFails(s) ==
  /\ Failure
  /\ \/ phase[s] \in {"read", "write", "enqueue"} /\ UNCHANGED database
     \/ phase[s] = "write" /\ Inserts(s)
     \/ /\ phase[s] = "enqueue"
        /\ queued' = queued \cup {event[s]}
        /\ UNCHANGED <<processed, rows>>
  /\ Goto(s, "failed")
  /\ UNCHANGED <<broker, consuming, crashes, brokerRestarts>>

\* channel.ack, on the channel the message came from.
Ack(s) ==
  /\ phase[s] = "ack" /\ attached[s]
  /\ Release(s)
  /\ UNCHANGED <<broker, consuming, database, history>>

-----------------------------------------------------------------------------
(* retryOrDeadLetter *)

\* At the limit the message is put back in its queue instead of dead-lettered.
NeverGivesUp(s) ==
  /\ IF retries[s] + 1 <= MaxRetries
       THEN retry' = Route(retry, event[s], retries[s] + 1) /\ UNCHANGED ready
       ELSE ready' = [ready EXCEPT ![Message(s)] = @ + 1] /\ UNCHANGED retry
  /\ UNCHANGED <<published, dead>>

\* The copy is sent with the x-retry-count of the message that failed.
SameCount(s) ==
  /\ retry' = Route(retry, event[s], retries[s])
  /\ UNCHANGED <<published, ready, dead>>

\* The copy that replaces the message: on the retry exchange with the next
\* x-retry-count, or in the consumer's own dead-letter queue.
Replace(s) ==
  /\ IF retries[s] + 1 <= MaxRetries
       THEN retry' = Route(retry, event[s], retries[s] + 1) /\ UNCHANGED dead
       ELSE dead' = [dead EXCEPT ![Subject(s)] = @ + 1] /\ UNCHANGED retry
  /\ UNCHANGED <<published, ready>>

\* Acknowledges first and publishes the copy afterwards.
AckFirst(s) ==
  /\ phase[s] = "failed" /\ attached[s]
  /\ Goto(s, "ack")
  /\ UNCHANGED <<broker, consuming, database, history>>

\* The copy is published and confirmed; the acknowledgement comes next.
RetryOrDeadLetter(s) ==
  /\ phase[s] = "failed" /\ attached[s]
  /\ Replace(s)
  /\ Goto(s, "ack")
  /\ UNCHANGED <<consuming, database, history>>

\* Publishing or the confirm fails (the copy may exist all the same): the
\* message is put back with nack.
RetryPublishFails(s) ==
  /\ phase[s] = "failed" /\ attached[s]
  /\ Failure
  /\ \/ /\ ready' = [ready EXCEPT ![Message(s)] = @ + 1]
        /\ UNCHANGED <<published, retry, dead>>
     \/ /\ retries[s] + 1 <= MaxRetries
        /\ ready' = [ready EXCEPT ![Message(s)] = @ + 1]
        /\ retry' = Route(retry, event[s], retries[s] + 1)
        /\ UNCHANGED <<published, dead>>
     \/ /\ retries[s] + 1 > MaxRetries
        /\ ready' = [ready EXCEPT ![Message(s)] = @ + 1]
        /\ dead' = [dead EXCEPT ![Subject(s)] = @ + 1]
        /\ UNCHANGED <<published, retry>>
  /\ Release(s)
  /\ UNCHANGED <<consuming, database, crashes, brokerRestarts>>

-----------------------------------------------------------------------------
(* Processes and connections *)

\* The broker puts the unacknowledged messages of slots S back.
Requeue(S) ==
  /\ ready' = [m \in Messages |-> ready[m] + Cardinality(Unacked(S, m))]
  /\ UNCHANGED <<published, retry, dead>>

\* Worker w starts again: onModuleInit connects and consumes.
Restarted(w) ==
  /\ consuming' = [consuming EXCEPT ![w] = TRUE]
  /\ phase' = [s \in Slots |-> IF s[1] = w THEN "free" ELSE phase[s]]
  /\ event' = [s \in Slots |-> IF s[1] = w THEN CHOOSE e \in Events : TRUE ELSE event[s]]
  /\ retries' = [s \in Slots |-> IF s[1] = w THEN 0 ELSE retries[s]]
  /\ attached' = [s \in Slots |-> attached[s] /\ s[1] # w]

\* The process dies, or its connection breaks with an 'error' event, which
\* has no listener; the orchestrator starts it again.
Crash(w) ==
  /\ crashes + brokerRestarts < MaxOutages
  /\ crashes' = crashes + 1
  /\ Requeue({s \in Slots : s[1] = w})
  /\ Restarted(w)
  /\ UNCHANGED <<database, failures, brokerRestarts>>

\* An orderly broker restart closes every connection.  The clients see a
\* 'close' event, to which the consumers do not react: calls of consume go
\* on, and no message is delivered to the process any more.
BrokerRestarts ==
  /\ crashes + brokerRestarts < MaxOutages /\ brokerRestarts < MaxBrokerRestarts
  /\ brokerRestarts' = brokerRestarts + 1
  /\ Requeue(Slots)
  /\ consuming' = [w \in Workers |-> FALSE]
  /\ attached' = [s \in Slots |-> FALSE]
  /\ UNCHANGED <<phase, event, retries, database, failures, crashes>>

\* ack, publish and nack all throw on the closed channel: the rejection of
\* consume is unhandled and ends the process (or is only reported, when
\* Sentry is configured).
ClosedChannel(s) ==
  /\ phase[s] \in {"ack", "failed"} /\ ~attached[s]
  /\ \/ Release(s) /\ UNCHANGED <<broker, consuming>>
     \/ Requeue({t \in Slots : t[1] = s[1]}) /\ Restarted(s[1])
  /\ UNCHANGED <<database, history>>

-----------------------------------------------------------------------------
Handle(s) == \/ Deliver(s) \/ Read(s) \/ Write(s) \/ WriteConflict(s) \/ Enqueue(s)
             \/ Ack(s) \/ RetryOrDeadLetter(s) \/ ClosedChannel(s)

Fault(s) == HandlerFails(s) \/ RetryPublishFails(s)

Next == \/ \E e \in Events : Publish(e)
        \/ RetryExpires
        \/ \E s \in Slots : Handle(s) \/ Fault(s)
        \/ \E w \in Workers : Crash(w)
        \/ BrokerRestarts

Spec == Init /\ [][Next]_vars

(***************************************************************************)
(* Fairness: the broker delivers to free slots and expires retries, and    *)
(* the awaited calls of a handler end.                                     *)
(***************************************************************************)
Fairness == WF_vars(RetryExpires) /\ \A s \in Slots : WF_vars(Handle(s))

FairSpec == Spec /\ Fairness
-----------------------------------------------------------------------------
(* Properties *)

Waiting(q, c, e) == {n \in 0..MaxRetries : q[c, e, n] > 0}

\* Consumer c still has a message about e: queued, waiting for a retry, in
\* hand, or dead-lettered.
Kept(c, e) == \/ Waiting(ready, c, e) # {} \/ Waiting(retry, c, e) # {}
              \/ dead[c, e] > 0
              \/ \E s \in Slots : /\ phase[s] # "free" /\ attached[s]
                                  /\ Subject(s) = <<c, e>>

\* What consumer c owes for e: the audit row, or the delivery and its job.
Done(c, e) == rows[c, e] > 0 /\ (c = "notification" => e \in queued)

\* Never acknowledged before the effects: an event the broker accepted is
\* done, or a message about it remains, for each consumer bound to it,
\* through crashes, lost confirms, broker restarts and retries.
NothingLost ==
  \A c \in Consumers, e \in Events :
    published[e] > 0 /\ Bound(c, e) => Done(c, e) \/ Kept(c, e)

\* Duplicated, redelivered and concurrent messages leave exactly one audit
\* row and one delivery per event, present exactly when the marker is.
ExactlyOnceEffect ==
  \A p \in Consumers \X Events : rows[p] = IF processed[p] THEN 1 ELSE 0

\* Without broker restarts, every event is done or dead-lettered in the end
\* for each consumer bound to it.
EventuallySettled ==
  \A c \in Consumers, e \in Events :
    published[e] > 0 /\ Bound(c, e) ~> Done(c, e) \/ dead[c, e] > 0

\* ... and the queues drain: no message is retried for ever.
EventuallyDrained ==
  <>[](\A m \in Messages : ready[m] = 0 /\ retry[m] = 0)

\* One failed message about e becomes a copy in every retry queue bound to
\* its key, and each of those comes back to every consumer bound to it.
FanOut(e) == Cardinality({c \in Consumers : Bound(c, e)})

\* The dead letters that one message about e with n retries can become.
Weight(e, n) ==
  LET after[k \in 0..MaxRetries] == IF k = 0 THEN 1 ELSE FanOut(e) * FanOut(e) * after[k - 1]
  IN  after[MaxRetries - n]

\* The messages about e with n retries: queued, to come back, or in hand.
Load(e, n) == ready["audit", e, n] + ready["notification", e, n]
              + FanOut(e) * (retry["audit", e, n] + retry["notification", e, n])
              + Cardinality({s \in Slots : /\ attached[s] /\ event[s] = e /\ retries[s] = n
                                           /\ phase[s] \notin {"free", "ack"}})

\* a[0] + ... + a[MaxRetries]
SumOverRetries(a) ==
  LET upTo[n \in 0..MaxRetries] == IF n = 0 THEN a[0] ELSE upTo[n - 1] + a[n]
  IN  upTo[MaxRetries]

\* The dead letters that the messages about e can still become, or are.
Traffic(e) == SumOverRetries([n \in 0..MaxRetries |-> Weight(e, n) * Load(e, n)])
              + dead["audit", e] + dead["notification", e]

\* Deliveries that an outage or a lost confirm may have repeated.
Repeats == failures + 2 * Prefetch * crashes + Cardinality(Slots) * brokerRestarts

\* Types, and retries do not run away although both consumers share the retry
\* exchange: however handlers fail, one publication of e causes at most Weight(e, 0)
\* dead letters per consumer bound to it, and so does each repeated delivery.
TrafficBounded ==
  TypeOK /\ \A e \in Events : Traffic(e) <= (FanOut(e) * published[e] + Repeats) * Weight(e, 0)
=============================================================================
