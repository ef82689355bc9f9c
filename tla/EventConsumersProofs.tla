------------------------ MODULE EventConsumersProofs ------------------------
(***************************************************************************)
(* The RabbitMQ consumers for any number of events, workers, retries and   *)
(* faults, and any prefetch: types, effects that happen exactly once, no   *)
(* message acknowledged before its effects, and retries that do not run    *)
(* away.                                                                   *)
(***************************************************************************)
EXTENDS EventConsumers, FiniteSetTheorems, WellFoundedInduction, TLAPS

-----------------------------------------------------------------------------
(* The invariant *)

\* Messages are only where the bindings put them, copies included.
Routed ==
  /\ \A m \in Messages : ready[m] > 0 \/ retry[m] > 0 => Bound(m[1], m[2])
  /\ \A s \in Slots : phase[s] # "free" => Bound(ConsumerOf(s), event[s])

\* A delivery is enqueued only after its transaction has committed.
Marked ==
  \A s \in Slots : phase[s] = "enqueue" =>
    ConsumerOf(s) = "notification" /\ processed[Subject(s)]

\* A call of consume that has not come to its acknowledgement.
Working(s) == phase[s] \notin {"free", "ack"} /\ attached[s]

\* A message about e that is not about to be acknowledged.
Firm(c, e) ==
  \/ \E n \in 0..MaxRetries : ready[<<c, e, n>>] > 0
  \/ \E n \in 0..MaxRetries : retry[<<c, e, n>>] > 0
  \/ dead[<<c, e>>] > 0
  \/ \E s \in Slots : Working(s) /\ Subject(s) = <<c, e>>

\* NothingLost without counting the messages whose acknowledgement is due:
\* what entitles consume to acknowledge.
Owed ==
  \A c \in Consumers, e \in Events :
    published[e] > 0 /\ Bound(c, e) => Done(c, e) \/ Firm(c, e)

Inv == TypeOK /\ Routed /\ Marked /\ ExactlyOnceEffect /\ Owed

-----------------------------------------------------------------------------
(* Operators *)

\* What a slot has in hand belongs to a queue of its consumer.
LEMMA SlotFacts ==
  ASSUME TypeOK, NEW s \in Slots
  PROVE  /\ s[1] \in Workers
         /\ ConsumerOf(s) \in Consumers
         /\ Subject(s) \in Consumers \X Events
         /\ Message(s) \in Messages
         /\ Message(s)[1] = ConsumerOf(s) /\ Message(s)[2] = event[s] /\ Message(s)[3] = retries[s]
  BY DEF TypeOK, Slots, ConsumerOf, Subject, Message, Messages

\* The event whose registers an idle slot has.
LEMMA IdleEvent == (CHOOSE e \in Events : TRUE) \in Events
  BY EventsAssumption

\* Routing adds at most one copy to each queue, exactly one to the bound ones.
LEMMA RouteFacts ==
  ASSUME NEW q \in [Messages -> Nat], NEW e \in Events, NEW n \in 0..MaxRetries
  PROVE  /\ Route(q, e, n) \in [Messages -> Nat]
         /\ \A m \in Messages : Route(q, e, n)[m] >= q[m]
         /\ \A m \in Messages : Route(q, e, n)[m] > 0 => q[m] > 0 \/ Bound(m[1], m[2])
         /\ \A c \in Consumers : Bound(c, e) => Route(q, e, n)[<<c, e, n>>] > 0
<1>1. \A m \in Messages : Route(q, e, n)[m] = IF m[2] = e /\ m[3] = n /\ Bound(m[1], e)
                                                THEN q[m] + 1 ELSE q[m]
  BY DEF Route
<1>2. Route(q, e, n) \in [Messages -> Nat]
  BY DEF Route
<1>3. ASSUME NEW c \in Consumers, Bound(c, e)
      PROVE  Route(q, e, n)[<<c, e, n>>] > 0
  <2>1. <<c, e, n>> \in Messages
    BY DEF Messages
  <2> QED
    BY <1>1, <1>3, <2>1
<1> QED
  BY <1>1, <1>2, <1>3

\* One more message under one key.
LEMMA OneMore ==
  ASSUME NEW D, NEW q \in [D -> Nat], NEW k \in D
  PROVE  /\ \A d \in D : [q EXCEPT ![k] = @ + 1][d] >= q[d]
         /\ \A d \in D : d # k => [q EXCEPT ![k] = @ + 1][d] = q[d]
         /\ [q EXCEPT ![k] = @ + 1][k] > 0
  OBVIOUS

\* A message in the queue is a member of Messages.
LEMMA MessageFacts ==
  ASSUME NEW c \in Consumers, NEW e \in Events, NEW n \in 0..MaxRetries
  PROVE  <<c, e, n>> \in Messages
  BY DEF Messages

\* The slots are finitely many, so that counting the unacknowledged messages is sound.
LEMMA UnackedFacts ==
  ASSUME NEW S \in SUBSET Slots, NEW m
  PROVE  /\ IsFiniteSet(Unacked(S, m))
         /\ Cardinality(Unacked(S, m)) \in Nat
         /\ Unacked(S, m) # {} => Cardinality(Unacked(S, m)) > 0
<1>1. IsFiniteSet(1..Prefetch)
  BY SizesAssumption, FS_Interval
<1>2. IsFiniteSet(Consumers)
  <2>1. IsFiniteSet({"audit"})
    BY FS_Singleton
  <2>2. IsFiniteSet({"audit"} \cup {"notification"})
    BY <2>1, FS_AddElement
  <2>3. Consumers = {"audit"} \cup {"notification"}
    BY DEF Consumers
  <2> QED
    BY <2>2, <2>3
<1>3. IsFiniteSet(Slots)
  <2> DEFINE P == Workers \X (Consumers \X (1..Prefetch))
             f == [p \in P |-> <<p[1], p[2][1], p[2][2]>>]
  <2>1. IsFiniteSet(P)
    BY <1>1, <1>2, FS_Product, WorkersAssumption
  <2>2. \A s \in Slots : \E p \in P : f[p] = s
    <3> TAKE s \in Slots
    <3>1. <<s[1], <<s[2], s[3]>>>> \in P /\ s = <<s[1], s[2], s[3]>>
      BY DEF Slots
    <3> QED
      BY <3>1
  <2>3. \A p \in P : f[p] \in Slots
    BY DEF Slots
  <2>4. f \in Surjection(P, Slots)
    BY <2>2, <2>3 DEF Surjection
  <2> QED
    BY <2>1, <2>4, FS_Surjection
<1>4. IsFiniteSet(Unacked(S, m))
  BY <1>3, FS_Subset DEF Unacked
<1>5. Cardinality(Unacked(S, m)) \in Nat
  BY <1>4, FS_CardinalityType
<1>6. Unacked(S, m) # {} => Cardinality(Unacked(S, m)) # 0
  BY <1>4, FS_EmptySet
<1> QED
  BY <1>4, <1>5, <1>6

-----------------------------------------------------------------------------
(* Types *)

\* Goto and Release keep the types of a slot's registers.
LEMMA SlotTypes ==
  ASSUME TypeOK, NEW s \in Slots, NEW p \in Phases, Goto(s, p) \/ Release(s)
  PROVE  /\ phase' \in [Slots -> Phases] /\ event' \in [Slots -> Events]
         /\ retries' \in [Slots -> 0..MaxRetries] /\ attached' \in [Slots -> BOOLEAN]
<1>1. CASE Goto(s, p)
  BY <1>1 DEF TypeOK, Goto
<1>2. CASE Release(s)
  <2>1. "free" \in Phases /\ 0 \in 0..MaxRetries
    BY SizesAssumption DEF Phases
  <2> QED
    BY <1>2, <2>1, IdleEvent DEF TypeOK, Release
<1> QED
  BY <1>1, <1>2

\* Requeue counts finite sets.
LEMMA RequeueTypes ==
  ASSUME TypeOK, NEW S \in SUBSET Slots, Requeue(S)
  PROVE  /\ ready' \in [Messages -> Nat] /\ UNCHANGED <<published, retry, dead>>
         /\ \A m \in Messages : ready'[m] >= ready[m]
         /\ \A m \in Messages : Unacked(S, m) # {} => ready'[m] > 0
         /\ \A m \in Messages : ready'[m] > 0 => ready[m] > 0 \/ Unacked(S, m) # {}
<1>1. \A m \in Messages : /\ Cardinality(Unacked(S, m)) \in Nat
                          /\ Unacked(S, m) # {} => Cardinality(Unacked(S, m)) > 0
                          /\ Unacked(S, m) = {} => Cardinality(Unacked(S, m)) = 0
  BY UnackedFacts, FS_EmptySet
<1>2. \A m \in Messages : ready'[m] = ready[m] + Cardinality(Unacked(S, m))
  BY DEF Requeue
<1>3. \A m \in Messages : ready[m] \in Nat
  BY DEF TypeOK
<1>4. ready' \in [Messages -> Nat]
  BY <1>1, <1>3 DEF Requeue
<1> HIDE DEF Messages
<1> QED
  BY <1>1, <1>2, <1>3, <1>4 DEF Requeue

\* A worker that starts again has idle slots.
LEMMA RestartedTypes ==
  ASSUME TypeOK, NEW w \in Workers, Restarted(w)
  PROVE  /\ consuming' \in [Workers -> BOOLEAN]
         /\ phase' \in [Slots -> Phases] /\ event' \in [Slots -> Events]
         /\ retries' \in [Slots -> 0..MaxRetries] /\ attached' \in [Slots -> BOOLEAN]
<1>1. "free" \in Phases /\ 0 \in 0..MaxRetries
  BY SizesAssumption DEF Phases
<1> QED
  BY <1>1, IdleEvent DEF TypeOK, Restarted

\* The steps of the broker keep the types.
LEMMA BrokerTypes ==
  ASSUME TypeOK,
         \/ \E e \in Events : Publish(e)
         \/ RetryExpires
         \/ \E s \in Slots : Deliver(s)
  PROVE  TypeOK'
<1>1. ASSUME NEW e \in Events, Publish(e)
      PROVE  TypeOK'
  <2>1. 0 \in 0..MaxRetries
    BY SizesAssumption
  <2>2. ready' \in [Messages -> Nat]
    BY <1>1, <2>1, RouteFacts DEF TypeOK, Publish
  <2> QED
    BY <1>1, <2>2 DEF TypeOK, Publish, slots, database, history
<1>2. CASE RetryExpires
  <2>1. PICK m \in Messages : /\ retry[m] > 0
                              /\ retry' = [retry EXCEPT ![m] = @ - 1]
                              /\ ready' = Route(ready, m[2], m[3])
    BY <1>2 DEF RetryExpires
  <2>2. UNCHANGED <<published, dead, consuming, slots, database, history>>
    BY <1>2 DEF RetryExpires
  <2>3. m[2] \in Events /\ m[3] \in 0..MaxRetries
    BY DEF Messages
  <2>4. ready' \in [Messages -> Nat]
    BY <2>1, <2>3, RouteFacts DEF TypeOK
  <2>5. retry' \in [Messages -> Nat]
    BY <2>1 DEF TypeOK
  <2> QED
    BY <2>2, <2>4, <2>5 DEF TypeOK, slots, database, history
<1>3. ASSUME NEW s \in Slots, Deliver(s)
      PROVE  TypeOK'
  <2>1. PICK e \in Events, n \in 0..MaxRetries :
          /\ ready[<<ConsumerOf(s), e, n>>] > 0
          /\ ready' = [ready EXCEPT ![<<ConsumerOf(s), e, n>>] = @ - 1]
          /\ event' = [event EXCEPT ![s] = e]
          /\ retries' = [retries EXCEPT ![s] = n]
    BY <1>3 DEF Deliver
  <2>2. <<ConsumerOf(s), e, n>> \in Messages
    BY SlotFacts, MessageFacts
  <2>3. ready' \in [Messages -> Nat]
    BY <2>1, <2>2 DEF TypeOK
  <2> QED
    BY <1>3, <2>1, <2>3 DEF TypeOK, Deliver, Phases, database, history
<1> QED
  BY <1>1, <1>2, <1>3

\* The steps of consume keep the types.
LEMMA ConsumeTypes ==
  ASSUME Inv, NEW s \in Slots,
         Read(s) \/ Write(s) \/ WriteConflict(s) \/ Enqueue(s) \/ HandlerFails(s) \/ Ack(s)
  PROVE  TypeOK'
<1>0. TypeOK
  BY DEF Inv
<1>1. \A p \in Phases : Goto(s, p) \/ Release(s) =>
         /\ phase' \in [Slots -> Phases] /\ event' \in [Slots -> Events]
         /\ retries' \in [Slots -> 0..MaxRetries] /\ attached' \in [Slots -> BOOLEAN]
  BY <1>0, SlotTypes
<1>2. /\ phase' \in [Slots -> Phases] /\ event' \in [Slots -> Events]
      /\ retries' \in [Slots -> 0..MaxRetries] /\ attached' \in [Slots -> BOOLEAN]
  BY <1>1 DEF Read, Write, WriteConflict, Enqueue, HandlerFails, Ack, Phases
<1>3. Inserts(s) => /\ processed' \in [Consumers \X Events -> BOOLEAN]
                    /\ rows' \in [Consumers \X Events -> Nat]
                    /\ queued' \subseteq Orders
  BY <1>0, SlotFacts DEF Inserts, TypeOK
<1>4. phase[s] = "enqueue" => event[s] \in Orders
  BY <1>0, SlotFacts DEF Inv, Routed, Marked, Bound, TypeOK, Phases
<1>5. /\ processed' \in [Consumers \X Events -> BOOLEAN]
      /\ rows' \in [Consumers \X Events -> Nat]
      /\ queued' \subseteq Orders
  BY <1>0, <1>3, <1>4 DEF TypeOK, Read, Write, WriteConflict, Enqueue, HandlerFails, Ack, database
<1>6. failures' \in Nat /\ crashes' \in Nat /\ brokerRestarts' \in Nat
  BY <1>0 DEF TypeOK, Read, Write, WriteConflict, Enqueue, HandlerFails, Ack, history, Failure
<1>7. UNCHANGED <<published, ready, retry, dead, consuming>>
  BY DEF Read, Write, WriteConflict, Enqueue, HandlerFails, Ack, broker
<1> QED
  BY <1>0, <1>2, <1>5, <1>6, <1>7 DEF TypeOK

\* The steps of retryOrDeadLetter keep the types.
LEMMA RetryTypes ==
  ASSUME TypeOK, NEW s \in Slots, RetryOrDeadLetter(s) \/ RetryPublishFails(s)
  PROVE  TypeOK'
<1>1. Message(s) \in Messages /\ Subject(s) \in Consumers \X Events
      /\ event[s] \in Events /\ retries[s] \in Nat
  BY SlotFacts DEF TypeOK
<1>2. retries[s] + 1 <= MaxRetries =>
        Route(retry, event[s], retries[s] + 1) \in [Messages -> Nat]
  <2> SUFFICES ASSUME retries[s] + 1 <= MaxRetries
               PROVE  Route(retry, event[s], retries[s] + 1) \in [Messages -> Nat]
    OBVIOUS
  <2>1. retries[s] + 1 \in 0..MaxRetries
    BY <1>1, SizesAssumption
  <2> QED
    BY <1>1, <2>1, RouteFacts DEF TypeOK
<1>3. /\ [ready EXCEPT ![Message(s)] = @ + 1] \in [Messages -> Nat]
      /\ [dead EXCEPT ![Subject(s)] = @ + 1] \in [Consumers \X Events -> Nat]
  BY <1>1 DEF TypeOK
<1>4. CASE RetryOrDeadLetter(s)
  <2>1. Goto(s, "ack") /\ "ack" \in Phases
    BY <1>4 DEF RetryOrDeadLetter, Phases
  <2>2. ready' \in [Messages -> Nat] /\ retry' \in [Messages -> Nat]
        /\ dead' \in [Consumers \X Events -> Nat] /\ UNCHANGED published
    BY <1>2, <1>3, <1>4 DEF TypeOK, RetryOrDeadLetter, Replace
  <2>3. /\ phase' \in [Slots -> Phases] /\ event' \in [Slots -> Events]
        /\ retries' \in [Slots -> 0..MaxRetries] /\ attached' \in [Slots -> BOOLEAN]
    BY <2>1, SlotTypes
  <2> QED
    BY <1>4, <2>2, <2>3 DEF TypeOK, RetryOrDeadLetter, database, history
<1>5. CASE RetryPublishFails(s)
  <2>1. Release(s) /\ "free" \in Phases
    BY <1>5 DEF RetryPublishFails, Phases
  <2>2. ready' \in [Messages -> Nat] /\ retry' \in [Messages -> Nat]
        /\ dead' \in [Consumers \X Events -> Nat] /\ UNCHANGED published
    BY <1>2, <1>3, <1>5 DEF TypeOK, RetryPublishFails
  <2>3. /\ phase' \in [Slots -> Phases] /\ event' \in [Slots -> Events]
        /\ retries' \in [Slots -> 0..MaxRetries] /\ attached' \in [Slots -> BOOLEAN]
    BY <2>1, SlotTypes
  <2>4. failures' \in Nat
    BY <1>5 DEF RetryPublishFails, Failure, TypeOK
  <2> QED
    BY <1>5, <2>2, <2>3, <2>4 DEF TypeOK, RetryPublishFails, database
<1> QED
  BY <1>4, <1>5

\* Outages keep the types.
LEMMA OutageTypes ==
  ASSUME TypeOK,
         \/ \E w \in Workers : Crash(w)
         \/ BrokerRestarts
         \/ \E s \in Slots : ClosedChannel(s)
  PROVE  TypeOK'
<1>1. ASSUME NEW w \in Workers, Crash(w)
      PROVE  TypeOK'
  <2>1. {s \in Slots : s[1] = w} \subseteq Slots
    OBVIOUS
  <2>2. ready' \in [Messages -> Nat] /\ UNCHANGED <<published, retry, dead>>
    BY <1>1, <2>1, RequeueTypes DEF Crash
  <2> QED
    BY <1>1, <2>2, RestartedTypes DEF TypeOK, Crash, database
<1>2. CASE BrokerRestarts
  <2>1. ready' \in [Messages -> Nat] /\ UNCHANGED <<published, retry, dead>>
    BY <1>2, RequeueTypes DEF BrokerRestarts
  <2> QED
    BY <1>2, <2>1 DEF TypeOK, BrokerRestarts, database
<1>3. ASSUME NEW s \in Slots, ClosedChannel(s)
      PROVE  TypeOK'
  <2>1. CASE Release(s) /\ UNCHANGED <<broker, consuming>>
    <3>1. "free" \in Phases
      BY DEF Phases
    <3>2. /\ phase' \in [Slots -> Phases] /\ event' \in [Slots -> Events]
          /\ retries' \in [Slots -> 0..MaxRetries] /\ attached' \in [Slots -> BOOLEAN]
      BY <2>1, <3>1, SlotTypes
    <3> QED
      BY <1>3, <2>1, <3>2 DEF TypeOK, ClosedChannel, broker, database, history
  <2>2. CASE Requeue({t \in Slots : t[1] = s[1]}) /\ Restarted(s[1])
    <3>1. {t \in Slots : t[1] = s[1]} \subseteq Slots /\ s[1] \in Workers
      BY SlotFacts
    <3>2. ready' \in [Messages -> Nat] /\ UNCHANGED <<published, retry, dead>>
      BY <2>2, <3>1, RequeueTypes
    <3> QED
      BY <1>3, <2>2, <3>1, <3>2, RestartedTypes DEF TypeOK, ClosedChannel, database, history
  <2> QED
    BY <1>3, <2>1, <2>2 DEF ClosedChannel
<1> QED
  BY <1>1, <1>2, <1>3

-----------------------------------------------------------------------------
(* PostgreSQL and Redis: effects happen once and stay *)

\* How a step may change the database: not at all, by the transaction of a
\* call of consume that finds no marker, or by adding a job.
LEMMA DatabaseSteps ==
  ASSUME [Next]_vars
  PROVE  \/ UNCHANGED database
         \/ \E s \in Slots : Inserts(s)
         \/ \E s \in Slots : queued' = queued \cup {event[s]} /\ UNCHANGED <<processed, rows>>
<1> DEFINE G == \/ UNCHANGED database
                \/ \E s \in Slots : Inserts(s)
                \/ \E s \in Slots : queued' = queued \cup {event[s]} /\ UNCHANGED <<processed, rows>>
<1>1. ASSUME NEW s \in Slots, Handle(s) \/ Fault(s)
      PROVE  G
  <2>1. CASE Deliver(s) \/ Read(s) \/ WriteConflict(s) \/ Ack(s) \/ RetryOrDeadLetter(s)
             \/ ClosedChannel(s) \/ RetryPublishFails(s)
    BY <2>1 DEF Deliver, Read, WriteConflict, Ack, RetryOrDeadLetter, ClosedChannel, RetryPublishFails
  <2>2. CASE Write(s)
    BY <2>2 DEF Write
  <2>3. CASE Enqueue(s)
    BY <2>3 DEF Enqueue
  <2>4. CASE HandlerFails(s)
    BY <2>4 DEF HandlerFails
  <2> QED
    BY <1>1, <2>1, <2>2, <2>3, <2>4 DEF Handle, Fault
<1>2. CASE \E e \in Events : Publish(e)
  BY <1>2 DEF Publish
<1>3. CASE RetryExpires
  BY <1>3 DEF RetryExpires
<1>4. CASE \E w \in Workers : Crash(w)
  BY <1>4 DEF Crash
<1>5. CASE BrokerRestarts
  BY <1>5 DEF BrokerRestarts
<1>6. CASE UNCHANGED vars
  BY <1>6 DEF vars
<1> QED
  BY <1>1, <1>2, <1>3, <1>4, <1>5, <1>6 DEF Next

\* A marker is never withdrawn, a row never deleted and never doubled, and what
\* a consumer has done for an event stays done.
LEMMA EffectsStay ==
  ASSUME TypeOK, ExactlyOnceEffect, [Next]_vars
  PROVE  /\ ExactlyOnceEffect'
         /\ \A p \in Consumers \X Events : processed[p] => processed'[p]
         /\ \A c \in Consumers, e \in Events : Done(c, e) => Done(c, e)'
<1>1. CASE UNCHANGED database
  BY <1>1 DEF ExactlyOnceEffect, Done, database
<1>2. ASSUME NEW s \in Slots, Inserts(s)
      PROVE  /\ ExactlyOnceEffect'
             /\ \A p \in Consumers \X Events : processed[p] => processed'[p]
             /\ \A c \in Consumers, e \in Events : Done(c, e) => Done(c, e)'
  <2>1. Subject(s) \in Consumers \X Events
    BY SlotFacts
  <2>2. /\ ~processed[Subject(s)] /\ UNCHANGED queued
        /\ processed' = [processed EXCEPT ![Subject(s)] = TRUE]
        /\ rows' = [rows EXCEPT ![Subject(s)] = @ + 1]
    BY <1>2 DEF Inserts
  <2>3. \A p \in Consumers \X Events :
          /\ p = Subject(s) => processed'[p] = TRUE /\ rows'[p] = rows[p] + 1
          /\ p # Subject(s) => processed'[p] = processed[p] /\ rows'[p] = rows[p]
    BY <2>1, <2>2 DEF TypeOK
  <2>4. rows[Subject(s)] = 0
    BY <2>1, <2>2 DEF ExactlyOnceEffect
  <2>5. ExactlyOnceEffect'
    BY <2>3, <2>4 DEF ExactlyOnceEffect
  <2>6. \A p \in Consumers \X Events : rows[p] > 0 => rows'[p] > 0
    BY <2>3, <2>4
  <2>7. \A c \in Consumers, e \in Events : Done(c, e) => Done(c, e)'
    BY <2>2, <2>6 DEF Done
  <2> QED
    BY <2>3, <2>5, <2>7
<1>3. ASSUME NEW s \in Slots, queued' = queued \cup {event[s]}, UNCHANGED <<processed, rows>>
      PROVE  /\ ExactlyOnceEffect'
             /\ \A p \in Consumers \X Events : processed[p] => processed'[p]
             /\ \A c \in Consumers, e \in Events : Done(c, e) => Done(c, e)'
  BY <1>3 DEF ExactlyOnceEffect, Done
<1> QED
  BY <1>1, <1>2, <1>3, DatabaseSteps

-----------------------------------------------------------------------------
(* Routing and markers *)

\* One slot moves on with the message it has: what is said of the others stays.
LEMMA SlotMoves ==
  ASSUME TypeOK, NEW s \in Slots, NEW p, Goto(s, p)
  PROVE  /\ phase'[s] = p
         /\ UNCHANGED <<event, retries, attached>>
         /\ \A t \in Slots : t # s => phase'[t] = phase[t]
         /\ \A t \in Slots : Subject(t)' = Subject(t)
  BY DEF TypeOK, Goto, Subject, ConsumerOf

\* A slot is released and the others stay as they are.
LEMMA SlotFreed ==
  ASSUME TypeOK, NEW s \in Slots, Release(s)
  PROVE  /\ phase'[s] = "free"
         /\ \A t \in Slots : t # s => /\ phase'[t] = phase[t] /\ event'[t] = event[t]
                                      /\ retries'[t] = retries[t] /\ attached'[t] = attached[t]
                                      /\ Subject(t)' = Subject(t)
  BY DEF TypeOK, Release, Subject, ConsumerOf

\* The slots of a worker are released and the others stay as they are.
LEMMA WorkerFreed ==
  ASSUME TypeOK, NEW w \in Workers, Restarted(w)
  PROVE  /\ \A t \in Slots : t[1] = w => phase'[t] = "free"
         /\ \A t \in Slots : t[1] # w => /\ phase'[t] = phase[t] /\ event'[t] = event[t]
                                         /\ retries'[t] = retries[t] /\ attached'[t] = attached[t]
                                         /\ Subject(t)' = Subject(t)
  BY DEF TypeOK, Restarted, Subject, ConsumerOf

\* The slots' part of Routed and Marked is kept by any step that lets a slot
\* be, frees it, or moves it with its message to a phase that follows.
LEMMA SlotsKept ==
  ASSUME Inv, [Next]_vars,
         \A t \in Slots :
           \/ phase'[t] = "free"
           \/ /\ phase[t] # "free" /\ event'[t] = event[t]
              /\ phase'[t] = "enqueue" => \/ phase[t] = "enqueue"
                                          \/ ConsumerOf(t) = "notification" /\ processed'[Subject(t)]
  PROVE  /\ Marked'
         /\ \A t \in Slots : phase'[t] # "free" => Bound(ConsumerOf(t), event[t])'
<1>1. \A p \in Consumers \X Events : processed[p] => processed'[p]
  BY EffectsStay DEF Inv
<1>2. ASSUME NEW t \in Slots, phase'[t] # "free"
      PROVE  /\ Subject(t)' = Subject(t) /\ Subject(t) \in Consumers \X Events
             /\ Bound(ConsumerOf(t), event[t])'
  BY <1>2, SlotFacts DEF Inv, Routed, Bound, ConsumerOf, Subject
<1>3. ASSUME NEW t \in Slots, phase'[t] = "enqueue"
      PROVE  ConsumerOf(t)' = "notification" /\ processed'[Subject(t)']
  <2>1. Subject(t)' = Subject(t) /\ Subject(t) \in Consumers \X Events
    BY <1>2, <1>3
  <2>2. phase[t] = "enqueue" => ConsumerOf(t) = "notification" /\ processed[Subject(t)]
    BY DEF Inv, Marked
  <2> QED
    BY <1>1, <1>3, <2>1, <2>2 DEF ConsumerOf
<1> QED
  BY <1>2, <1>3 DEF Marked

-----------------------------------------------------------------------------
(* Nothing is lost *)

Safe(c, e) == Done(c, e) \/ Firm(c, e)

\* It is enough to follow the events one by one: a step that publishes nothing
\* and leaves what was safe safe keeps Owed.
LEMMA OwedKept ==
  ASSUME Owed, UNCHANGED published,
         \A c \in Consumers, e \in Events : Bound(c, e) /\ Safe(c, e) => Safe(c, e)'
  PROVE  Owed'
  BY DEF Owed, Safe, Bound

\* A message in a queue of the next state is enough.
LEMMA SafeInQueue ==
  ASSUME NEW c \in Consumers, NEW e \in Events, NEW n \in 0..MaxRetries,
         ready'[<<c, e, n>>] > 0 \/ retry'[<<c, e, n>>] > 0
  PROVE  Safe(c, e)'
  BY DEF Safe, Firm

\* So is a slot that goes on working.
LEMMA SafeInHand ==
  ASSUME NEW c \in Consumers, NEW e \in Events, NEW s \in Slots, Working(s)', Subject(s)' = <<c, e>>
  PROVE  Safe(c, e)'
  BY DEF Safe, Firm

\* When no queue loses a message, a safe event stays safe unless the slot that
\* has its message in hand says otherwise.
LEMMA SafeUnlessInHand ==
  ASSUME Inv, [Next]_vars,
         \A m \in Messages : ready'[m] >= ready[m] /\ retry'[m] >= retry[m],
         \A p \in Consumers \X Events : dead'[p] >= dead[p],
         ready' \in [Messages -> Nat], retry' \in [Messages -> Nat],
         dead' \in [Consumers \X Events -> Nat],
         \A t \in Slots, c \in Consumers, e \in Events :
           Working(t) /\ Subject(t) = <<c, e>> /\ Bound(c, e) => Safe(c, e)'
  PROVE  \A c \in Consumers, e \in Events : Bound(c, e) /\ Safe(c, e) => Safe(c, e)'
<1> SUFFICES ASSUME NEW c \in Consumers, NEW e \in Events, Bound(c, e), Safe(c, e)
             PROVE  Safe(c, e)'
  OBVIOUS
<1>1. CASE Done(c, e)
  <2>1. Done(c, e)'
    BY <1>1, EffectsStay DEF Inv
  <2> QED
    BY <2>1 DEF Safe
<1>2. ASSUME NEW n \in 0..MaxRetries, ready[<<c, e, n>>] > 0 \/ retry[<<c, e, n>>] > 0
      PROVE  Safe(c, e)'
  <2>1. <<c, e, n>> \in Messages
    BY MessageFacts
  <2>2. ready'[<<c, e, n>>] > 0 \/ retry'[<<c, e, n>>] > 0
    <3> DEFINE m == <<c, e, n>>
    <3>1. /\ ready[m] \in Nat /\ retry[m] \in Nat /\ ready'[m] \in Nat /\ retry'[m] \in Nat
          /\ ready'[m] >= ready[m] /\ retry'[m] >= retry[m]
      BY <2>1 DEF Inv, TypeOK
    <3> QED
      BY <1>2, <3>1
  <2> QED
    BY <2>2, SafeInQueue
<1>3. CASE dead[<<c, e>>] > 0
  <2>1. <<c, e>> \in Consumers \X Events
    OBVIOUS
  <2>2. dead'[<<c, e>>] > 0
    BY <1>3, <2>1 DEF Inv, TypeOK
  <2> QED
    BY <2>2 DEF Safe, Firm
<1>4. ASSUME NEW t \in Slots, Working(t), Subject(t) = <<c, e>>
      PROVE  Safe(c, e)'
  BY <1>4
<1> QED
  BY <1>1, <1>2, <1>3, <1>4 DEF Safe, Firm

\* publish on the event exchange: the topology binds every consumer that owes
\* something for the event.
LEMMA PublishInv ==
  ASSUME Inv, NEW e \in Events, Publish(e)
  PROVE  Inv'
<1>0. [Next]_vars
  BY DEF Next
<1>1. TypeOK'
  BY BrokerTypes DEF Inv
<1>2. /\ ready' = Route(ready, e, 0) /\ 0 \in 0..MaxRetries
      /\ UNCHANGED <<retry, dead, phase, event, retries, attached, processed, rows, queued>>
      /\ \A f \in Events : f # e => published'[f] = published[f]
  BY SizesAssumption DEF Publish, slots, database, Inv, TypeOK
<1>3. /\ \A m \in Messages : ready'[m] >= ready[m]
      /\ \A m \in Messages : ready'[m] > 0 => ready[m] > 0 \/ Bound(m[1], m[2])
      /\ \A c \in Consumers : Bound(c, e) => ready'[<<c, e, 0>>] > 0
  BY <1>2, RouteFacts DEF Inv, TypeOK
<1>4. Routed' /\ Marked' /\ ExactlyOnceEffect'
  BY <1>2, <1>3 DEF Inv, Routed, Marked, ExactlyOnceEffect, Bound, ConsumerOf, Subject
<1>5. Owed'
  <2> SUFFICES ASSUME NEW c \in Consumers, NEW f \in Events, published'[f] > 0, Bound(c, f)
               PROVE  Safe(c, f)'
    BY DEF Owed, Safe, Bound
  <2>1. CASE f = e
    BY <1>2, <1>3, <2>1, SafeInQueue
  <2>2. CASE f # e
    <3>1. Safe(c, f)
      BY <1>2, <2>2 DEF Inv, Owed, Safe
    <3>2. \A m \in Messages : ready'[m] >= ready[m] /\ retry'[m] >= retry[m]
      BY <1>2, <1>3 DEF Inv, TypeOK
    <3>3. \A p \in Consumers \X Events : dead'[p] >= dead[p]
      BY <1>2 DEF Inv, TypeOK
    <3>4. \A t \in Slots : Working(t) => Working(t)' /\ Subject(t)' = Subject(t)
      BY <1>2 DEF Working, Subject, ConsumerOf
    <3>5. \A t \in Slots, d \in Consumers, g \in Events :
            Working(t) /\ Subject(t) = <<d, g>> /\ Bound(d, g) => Safe(d, g)'
      BY <3>4, SafeInHand
    <3> QED
      BY <1>0, <1>1, <3>1, <3>2, <3>3, <3>5, SafeUnlessInHand DEF TypeOK
  <2> QED
    BY <2>1, <2>2
<1> QED
  BY <1>1, <1>4, <1>5 DEF Inv

\* A retry queue gives a message back to every queue bound to its key, that
\* of the consumer it failed at included.
LEMMA RetryExpiresInv ==
  ASSUME Inv, RetryExpires
  PROVE  Inv'
<1>0. [Next]_vars
  BY DEF Next
<1>1. TypeOK'
  BY BrokerTypes DEF Inv
<1>2. PICK m \in Messages : /\ retry[m] > 0
                            /\ retry' = [retry EXCEPT ![m] = @ - 1]
                            /\ ready' = Route(ready, m[2], m[3])
  BY DEF RetryExpires
<1>3. UNCHANGED <<published, dead, phase, event, retries, attached, processed, rows, queued>>
  BY DEF RetryExpires, slots, database
<1>4. m[1] \in Consumers /\ m[2] \in Events /\ m[3] \in 0..MaxRetries /\ m = <<m[1], m[2], m[3]>>
  BY DEF Messages
<1>5. /\ \A k \in Messages : ready'[k] >= ready[k]
      /\ \A k \in Messages : ready'[k] > 0 => ready[k] > 0 \/ Bound(k[1], k[2])
      /\ \A c \in Consumers : Bound(c, m[2]) => ready'[<<c, m[2], m[3]>>] > 0
  BY <1>2, <1>4, RouteFacts DEF Inv, TypeOK
<1>6. \A k \in Messages : k # m => retry'[k] = retry[k]
  BY <1>2 DEF Inv, TypeOK
<1>7. Routed' /\ Marked' /\ ExactlyOnceEffect'
  BY <1>2, <1>3, <1>5, <1>6 DEF Inv, Routed, Marked, ExactlyOnceEffect, Bound, ConsumerOf, Subject
<1>8. ASSUME NEW c \in Consumers, NEW e \in Events, Bound(c, e), Safe(c, e)
      PROVE  Safe(c, e)'
  <2>1. CASE Done(c, e) \/ dead[<<c, e>>] > 0
    BY <1>3, <2>1 DEF Safe, Firm, Done
  <2>2. ASSUME NEW n \in 0..MaxRetries, ready[<<c, e, n>>] > 0 \/ retry[<<c, e, n>>] > 0
        PROVE  Safe(c, e)'
    <3>1. <<c, e, n>> \in Messages
      BY MessageFacts
    <3>2. CASE <<c, e, n>> = m
      <4>1. ready'[<<c, e, n>>] > 0
        BY <1>4, <1>5, <1>8, <3>2
      <4> QED
        BY <4>1, SafeInQueue
    <3>3. CASE <<c, e, n>> # m
      <4> DEFINE k == <<c, e, n>>
      <4>1. ready'[k] >= ready[k] /\ retry'[k] = retry[k] /\ ready'[k] \in Nat /\ ready[k] \in Nat
        BY <1>1, <1>5, <1>6, <3>1, <3>3 DEF TypeOK, Inv
      <4>2. ready'[k] > 0 \/ retry'[k] > 0
        BY <2>2, <4>1
      <4> QED
        BY <4>2, SafeInQueue
    <3> QED
      BY <3>2, <3>3
  <2>3. ASSUME NEW t \in Slots, Working(t), Subject(t) = <<c, e>>
        PROVE  Safe(c, e)'
    <3>1. Working(t)' /\ Subject(t)' = <<c, e>>
      BY <1>3, <2>3 DEF Working, Subject, ConsumerOf
    <3> QED
      BY <3>1, SafeInHand
  <2> QED
    BY <1>8, <2>1, <2>2, <2>3 DEF Safe, Firm
<1>9. Owed'
  BY <1>3, <1>8, OwedKept DEF Inv
<1> QED
  BY <1>1, <1>7, <1>9 DEF Inv

\* A delivery moves a message from its queue into a slot.
LEMMA DeliverInv ==
  ASSUME Inv, NEW s \in Slots, Deliver(s)
  PROVE  Inv'
<1>1. TypeOK'
  BY BrokerTypes DEF Inv
<1>2. PICK f \in Events, k \in 0..MaxRetries :
        /\ ready[<<ConsumerOf(s), f, k>>] > 0
        /\ ready' = [ready EXCEPT ![<<ConsumerOf(s), f, k>>] = @ - 1]
        /\ event' = [event EXCEPT ![s] = f]
        /\ retries' = [retries EXCEPT ![s] = k]
  BY DEF Deliver
<1> DEFINE m == <<ConsumerOf(s), f, k>>
<1>3. /\ phase' = [phase EXCEPT ![s] = "read"] /\ attached' = [attached EXCEPT ![s] = TRUE]
      /\ phase[s] = "free"
      /\ UNCHANGED <<published, retry, dead, processed, rows, queued>>
  BY DEF Deliver, database
<1>4. m \in Messages /\ ConsumerOf(s) \in Consumers
  BY SlotFacts, MessageFacts DEF Inv
<1>5. \A j \in Messages : j # m => ready'[j] = ready[j]
  BY <1>2, <1>4 DEF Inv, TypeOK
<1>6. /\ phase'[s] = "read" /\ attached'[s] = TRUE /\ event'[s] = f
      /\ \A t \in Slots : t # s => /\ phase'[t] = phase[t] /\ attached'[t] = attached[t]
                                   /\ event'[t] = event[t]
  BY <1>2, <1>3 DEF Inv, TypeOK
<1>7. Bound(ConsumerOf(s), f)
  BY <1>2, <1>4 DEF Inv, Routed
<1>8. Routed'
  <2>1. \A j \in Messages : ready'[j] > 0 => ready[j] > 0
    BY <1>2, <1>4, <1>5
  <2> QED
    BY <1>3, <1>6, <1>7, <2>1 DEF Inv, Routed, Bound, ConsumerOf
<1>9. Marked' /\ ExactlyOnceEffect'
  BY <1>3, <1>6 DEF Inv, Marked, ExactlyOnceEffect, ConsumerOf, Subject
<1>10. ASSUME NEW c \in Consumers, NEW e \in Events, Bound(c, e), Safe(c, e)
       PROVE  Safe(c, e)'
  <2>1. CASE Done(c, e) \/ dead[<<c, e>>] > 0
    BY <1>3, <2>1 DEF Safe, Firm, Done
  <2>2. ASSUME NEW n \in 0..MaxRetries, ready[<<c, e, n>>] > 0 \/ retry[<<c, e, n>>] > 0
        PROVE  Safe(c, e)'
    <3>1. <<c, e, n>> \in Messages
      BY MessageFacts
    <3>2. CASE <<c, e, n>> = m
      <4>1. c = ConsumerOf(s) /\ e = f
        BY <3>2
      <4>2. Working(s)' /\ Subject(s)' = <<c, e>>
        BY <1>6, <4>1 DEF Working, Subject, ConsumerOf
      <4> QED
        BY <4>2, SafeInHand
    <3>3. CASE <<c, e, n>> # m
      <4>1. ready'[<<c, e, n>>] = ready[<<c, e, n>>]
        BY <1>5, <3>1, <3>3
      <4> QED
        BY <1>3, <2>2, <4>1, SafeInQueue
    <3> QED
      BY <3>2, <3>3
  <2>3. ASSUME NEW t \in Slots, Working(t), Subject(t) = <<c, e>>
        PROVE  Safe(c, e)'
    <3>1. t # s
      BY <1>3, <2>3 DEF Working
    <3>2. Working(t)' /\ Subject(t)' = <<c, e>>
      BY <1>6, <2>3, <3>1 DEF Working, Subject, ConsumerOf
    <3> QED
      BY <3>2, SafeInHand
  <2> QED
    BY <1>10, <2>1, <2>2, <2>3 DEF Safe, Firm
<1>11. Owed'
  BY <1>3, <1>10, OwedKept DEF Inv
<1> QED
  BY <1>1, <1>8, <1>9, <1>11 DEF Inv

\* consume goes on in one slot with the message it has.  It reaches "ack" only
\* when the effects are there: the marker found or set by the audit consumer,
\* and the job added by the notification consumer.
LEMMA ConsumeInv ==
  ASSUME Inv, NEW s \in Slots,
         Read(s) \/ Write(s) \/ WriteConflict(s) \/ Enqueue(s) \/ HandlerFails(s)
  PROVE  Inv'
<1>0. [Next]_vars
  BY DEF Next, Handle, Fault
<1>1. TypeOK'
  BY ConsumeTypes
<1>2. UNCHANGED <<published, ready, retry, dead>>
  BY DEF Read, Write, WriteConflict, Enqueue, HandlerFails, broker
<1>3. PICK p \in Phases : Goto(s, p)
  BY DEF Read, Write, WriteConflict, Enqueue, HandlerFails, Phases
<1>4. /\ phase'[s] = p
      /\ UNCHANGED <<event, retries, attached>>
      /\ \A t \in Slots : t # s => phase'[t] = phase[t]
      /\ \A t \in Slots : Subject(t)' = Subject(t)
  BY <1>3, SlotMoves DEF Inv
<1>5. phase[s] \in {"read", "write", "enqueue"} /\ p # "free"
  BY <1>4 DEF Read, Write, WriteConflict, Enqueue, HandlerFails, Goto, Inv, TypeOK
<1>6. Subject(s) \in Consumers \X Events /\ Subject(s) = <<ConsumerOf(s), event[s]>>
      /\ ConsumerOf(s) \in Consumers /\ event[s] \in Events
  BY SlotFacts DEF Inv, TypeOK, Subject
<1>7. ExactlyOnceEffect'
  BY <1>0, EffectsStay DEF Inv
<1>8. p = "enqueue" => ConsumerOf(s) = "notification" /\ processed'[Subject(s)]
  <2>1. CASE Read(s)
    BY <1>4, <1>6, <2>1 DEF Read, Goto, Inv, TypeOK, database
  <2>2. CASE Write(s)
    BY <1>4, <1>6, <2>2 DEF Write, Goto, Inserts, Inv, TypeOK
  <2>3. CASE WriteConflict(s) \/ Enqueue(s) \/ HandlerFails(s)
    BY <1>4, <2>3 DEF WriteConflict, Enqueue, HandlerFails, Goto, Inv, TypeOK
  <2> QED
    BY <2>1, <2>2, <2>3
<1>9. Marked' /\ \A t \in Slots : phase'[t] # "free" => Bound(ConsumerOf(t), event[t])'
  BY <1>0, <1>4, <1>5, <1>8, SlotsKept
<1>10. Routed'
  BY <1>2, <1>9 DEF Inv, Routed, Bound
<1>11. p = "ack" => Done(ConsumerOf(s), event[s])'
  <2>1. processed'[Subject(s)] => rows'[Subject(s)] > 0
    BY <1>6, <1>7 DEF ExactlyOnceEffect
  <2>2. CASE Read(s)
    <3>1. p = "ack" => ConsumerOf(s) # "notification" /\ processed'[Subject(s)]
      BY <1>4, <1>6, <2>2 DEF Read, Goto, Inv, TypeOK, database
    <3> QED
      BY <1>4, <1>6, <2>1, <3>1 DEF Done, ConsumerOf
  <2>3. CASE Write(s)
    <3>1. p = "ack" => ConsumerOf(s) # "notification" /\ processed'[Subject(s)]
      BY <1>4, <1>6, <2>3 DEF Write, Goto, Inserts, Inv, TypeOK
    <3> QED
      BY <1>4, <1>6, <2>1, <3>1 DEF Done, ConsumerOf
  <2>4. CASE Enqueue(s)
    <3>1. processed'[Subject(s)] /\ event[s] \in queued'
      BY <1>6, <2>4 DEF Enqueue, Inv, Marked
    <3> QED
      BY <1>4, <1>6, <2>1, <3>1 DEF Done, ConsumerOf
  <2>5. CASE WriteConflict(s) \/ HandlerFails(s)
    BY <1>4, <2>5 DEF WriteConflict, HandlerFails, Goto, Inv, TypeOK
  <2> QED
    BY <2>2, <2>3, <2>4, <2>5
<1>12. ASSUME NEW t \in Slots, NEW c \in Consumers, NEW e \in Events,
              Working(t), Subject(t) = <<c, e>>
       PROVE  Safe(c, e)'
  <2>1. CASE t = s /\ p = "ack"
    <3>1. c = ConsumerOf(s) /\ e = event[s] /\ event' = event
      BY <1>4, <1>12, <2>1 DEF Subject
    <3> QED
      BY <1>11, <2>1, <3>1 DEF Safe, Done, ConsumerOf
  <2>2. CASE ~(t = s /\ p = "ack")
    <3>1. Working(t)' /\ Subject(t)' = <<c, e>>
      BY <1>4, <1>5, <1>12, <2>2 DEF Working
    <3> QED
      BY <3>1, SafeInHand
  <2> QED
    BY <2>1, <2>2
<1>13. /\ \A m \in Messages : ready'[m] >= ready[m] /\ retry'[m] >= retry[m]
       /\ \A d \in Consumers \X Events : dead'[d] >= dead[d]
  BY <1>2 DEF Inv, TypeOK
<1>14. \A c \in Consumers, e \in Events : Bound(c, e) /\ Safe(c, e) => Safe(c, e)'
  BY <1>0, <1>1, <1>12, <1>13, SafeUnlessInHand DEF TypeOK
<1>15. Owed'
  BY <1>2, <1>14, OwedKept DEF Inv
<1> QED
  BY <1>1, <1>7, <1>9, <1>10, <1>15 DEF Inv

\* An acknowledgement, or a slot given up on a closed channel, takes away
\* no message that anything depends on.
LEMMA ReleaseInv ==
  ASSUME Inv, [Next]_vars, TypeOK', NEW s \in Slots, ~Working(s), Release(s),
         UNCHANGED <<published, ready, retry, dead>>
  PROVE  Inv'
<1>1. /\ phase'[s] = "free"
      /\ \A t \in Slots : t # s => /\ phase'[t] = phase[t] /\ event'[t] = event[t]
                                   /\ attached'[t] = attached[t] /\ Subject(t)' = Subject(t)
  BY SlotFreed DEF Inv
<1>2. ExactlyOnceEffect'
  BY EffectsStay DEF Inv
<1>3. Marked' /\ \A t \in Slots : phase'[t] # "free" => Bound(ConsumerOf(t), event[t])'
  BY <1>1, SlotsKept
<1>4. Routed'
  BY <1>3 DEF Inv, Routed, Bound
<1>5. \A t \in Slots, c \in Consumers, e \in Events :
        Working(t) /\ Subject(t) = <<c, e>> /\ Bound(c, e) => Safe(c, e)'
  <2> SUFFICES ASSUME NEW t \in Slots, NEW c \in Consumers, NEW e \in Events,
                      Working(t), Subject(t) = <<c, e>>
               PROVE  Safe(c, e)'
    OBVIOUS
  <2>1. Working(t)' /\ Subject(t)' = <<c, e>>
    BY <1>1 DEF Working
  <2> QED
    BY <2>1, SafeInHand
<1>6. /\ \A m \in Messages : ready'[m] >= ready[m] /\ retry'[m] >= retry[m]
      /\ \A d \in Consumers \X Events : dead'[d] >= dead[d]
  BY DEF Inv, TypeOK
<1>7. \A c \in Consumers, e \in Events : Bound(c, e) /\ Safe(c, e) => Safe(c, e)'
  BY <1>5, <1>6, SafeUnlessInHand DEF TypeOK
<1>8. Owed'
  BY <1>7, OwedKept DEF Inv
<1> QED
  BY <1>2, <1>3, <1>4, <1>8 DEF Inv

\* retryOrDeadLetter: there is a copy, or the message is back in its queue,
\* before the slot lets go of it.
LEMMA RetryInv ==
  ASSUME Inv, NEW s \in Slots, RetryOrDeadLetter(s) \/ RetryPublishFails(s)
  PROVE  Inv'
<1>0. [Next]_vars
  BY DEF Next, Handle, Fault
<1>1. TypeOK'
  BY RetryTypes DEF Inv
<1> DEFINE c0 == ConsumerOf(s)
           e0 == event[s]
<1>2. /\ c0 \in Consumers /\ e0 \in Events /\ retries[s] \in 0..MaxRetries
      /\ Message(s) = <<c0, e0, retries[s]>> /\ Message(s) \in Messages
      /\ Subject(s) = <<c0, e0>> /\ Subject(s) \in Consumers \X Events
  BY SlotFacts DEF Inv, TypeOK, Message, Subject
<1>3. phase[s] = "failed" /\ Bound(c0, e0)
  BY DEF RetryOrDeadLetter, RetryPublishFails, Inv, Routed
<1>4. retries[s] + 1 <= MaxRetries =>
        LET q == Route(retry, e0, retries[s] + 1)
        IN  /\ \A m \in Messages : q[m] >= retry[m]
            /\ \A m \in Messages : q[m] > 0 => retry[m] > 0 \/ Bound(m[1], m[2])
            /\ q[<<c0, e0, retries[s] + 1>>] > 0
  <2> SUFFICES ASSUME retries[s] + 1 <= MaxRetries
               PROVE  LET q == Route(retry, e0, retries[s] + 1)
                      IN  /\ \A m \in Messages : q[m] >= retry[m]
                          /\ \A m \in Messages : q[m] > 0 => retry[m] > 0 \/ Bound(m[1], m[2])
                          /\ q[<<c0, e0, retries[s] + 1>>] > 0
    OBVIOUS
  <2>1. retries[s] + 1 \in 0..MaxRetries /\ retry \in [Messages -> Nat]
    BY <1>2, SizesAssumption DEF Inv, TypeOK
  <2> QED
    BY <1>2, <1>3, <2>1, RouteFacts
<1>5. /\ \A m \in Messages : [ready EXCEPT ![Message(s)] = @ + 1][m] >= ready[m]
      /\ \A m \in Messages : m # Message(s) => [ready EXCEPT ![Message(s)] = @ + 1][m] = ready[m]
      /\ [ready EXCEPT ![Message(s)] = @ + 1][Message(s)] > 0
      /\ \A d \in Consumers \X Events : [dead EXCEPT ![Subject(s)] = @ + 1][d] >= dead[d]
      /\ [dead EXCEPT ![Subject(s)] = @ + 1][Subject(s)] > 0
  <2>1. ready \in [Messages -> Nat] /\ dead \in [Consumers \X Events -> Nat]
    BY DEF Inv, TypeOK
  <2> QED
    BY <1>2, <2>1, OneMore
<1>6. /\ \A m \in Messages : ready[m] >= ready[m] /\ retry[m] >= retry[m]
      /\ \A d \in Consumers \X Events : dead[d] >= dead[d]
  BY DEF Inv, TypeOK
<1>7. /\ \A m \in Messages : ready'[m] >= ready[m] /\ retry'[m] >= retry[m]
      /\ \A d \in Consumers \X Events : dead'[d] >= dead[d]
      /\ UNCHANGED <<published, processed, rows, queued>>
  <2>1. CASE RetryOrDeadLetter(s)
    BY <1>4, <1>5, <1>6, <2>1 DEF RetryOrDeadLetter, Replace, database
  <2>2. CASE RetryPublishFails(s)
    BY <1>4, <1>5, <1>6, <2>2 DEF RetryPublishFails, database
  <2> QED
    BY <2>1, <2>2
<1>8. \A m \in Messages : (ready'[m] > 0 \/ retry'[m] > 0) => Bound(m[1], m[2])
  <2>1. Bound(Message(s)[1], Message(s)[2])
    BY <1>2, <1>3
  <2>2. \A m \in Messages : (ready[m] > 0 \/ retry[m] > 0) => Bound(m[1], m[2])
    BY DEF Inv, Routed
  <2>3. CASE RetryOrDeadLetter(s)
    BY <1>4, <2>2, <2>3 DEF RetryOrDeadLetter, Replace
  <2>4. CASE RetryPublishFails(s)
    BY <1>4, <1>5, <2>1, <2>2, <2>4 DEF RetryPublishFails
  <2> QED
    BY <2>3, <2>4
<1>10. \A c \in Consumers, e \in Events : c = c0 /\ e = e0 => Safe(c, e)'
  <2> SUFFICES ASSUME NEW c \in Consumers, NEW e \in Events, c = c0, e = e0
               PROVE  Safe(c, e)'
    OBVIOUS
  <2>1. \/ ready'[<<c, e, retries[s]>>] > 0
        \/ retries[s] + 1 <= MaxRetries /\ retry'[<<c, e, retries[s] + 1>>] > 0
        \/ dead'[<<c, e>>] > 0
    <3>1. CASE RetryOrDeadLetter(s)
      BY <1>2, <1>4, <1>5, <3>1 DEF RetryOrDeadLetter, Replace
    <3>2. CASE RetryPublishFails(s)
      BY <1>2, <1>5, <3>2 DEF RetryPublishFails
    <3> QED
      BY <3>1, <3>2
  <2>2. retries[s] + 1 <= MaxRetries => retries[s] + 1 \in 0..MaxRetries
    BY <1>2, SizesAssumption
  <2> QED
    BY <1>2, <2>1, <2>2, SafeInQueue DEF Safe, Firm
<1>11. /\ phase'[s] \in {"ack", "free"}
       /\ phase'[s] = "ack" => event'[s] = event[s]
       /\ \A t \in Slots : t # s => /\ phase'[t] = phase[t] /\ event'[t] = event[t]
                                    /\ attached'[t] = attached[t] /\ Subject(t)' = Subject(t)
  <2>1. CASE RetryOrDeadLetter(s)
    BY <2>1, SlotMoves DEF RetryOrDeadLetter, Inv
  <2>2. CASE RetryPublishFails(s)
    BY <2>2, SlotFreed DEF RetryPublishFails, Inv
  <2> QED
    BY <2>1, <2>2
<1>12. Marked' /\ \A t \in Slots : phase'[t] # "free" => Bound(ConsumerOf(t), event[t])'
  BY <1>0, <1>3, <1>11, SlotsKept
<1>13. Routed'
  BY <1>8, <1>12 DEF Routed, Bound
<1>14. ASSUME NEW t \in Slots, NEW c \in Consumers, NEW e \in Events,
              Working(t), Subject(t) = <<c, e>>
       PROVE  Safe(c, e)'
  <2>1. CASE t = s
    BY <1>2, <1>10, <1>14, <2>1
  <2>2. CASE t # s
    <3>1. Working(t)' /\ Subject(t)' = <<c, e>>
      BY <1>11, <1>14, <2>2 DEF Working
    <3> QED
      BY <3>1, SafeInHand
  <2> QED
    BY <2>1, <2>2
<1>15. \A c \in Consumers, e \in Events : Bound(c, e) /\ Safe(c, e) => Safe(c, e)'
  BY <1>0, <1>1, <1>7, <1>14, SafeUnlessInHand DEF TypeOK
<1>16. Owed'
  BY <1>7, <1>15, OwedKept DEF Inv
<1>17. ExactlyOnceEffect'
  BY <1>7 DEF Inv, ExactlyOnceEffect
<1> QED
  BY <1>1, <1>12, <1>13, <1>16, <1>17 DEF Inv

\* A process or the broker goes away: every unacknowledged message is back in
\* its queue, and slots that go on have a message that is in the queue as well.
LEMMA RequeueInv ==
  ASSUME Inv, [Next]_vars, TypeOK', NEW S \in SUBSET Slots, Requeue(S), UNCHANGED database,
         \A t \in Slots :
           \/ t \in S /\ phase'[t] = "free"
           \/ t \in S /\ phase'[t] = phase[t] /\ event'[t] = event[t]
           \/ t \notin S /\ phase'[t] = phase[t] /\ event'[t] = event[t] /\ attached'[t] = attached[t]
  PROVE  Inv'
<1>1. /\ UNCHANGED <<published, retry, dead>>
      /\ \A m \in Messages : ready'[m] >= ready[m]
      /\ \A m \in Messages : Unacked(S, m) # {} => ready'[m] > 0
      /\ \A m \in Messages : ready'[m] > 0 => ready[m] > 0 \/ Unacked(S, m) # {}
  BY RequeueTypes DEF Inv
<1>2. ExactlyOnceEffect'
  BY EffectsStay DEF Inv
<1>3. \A m \in Messages : Unacked(S, m) # {} => Bound(m[1], m[2])
  <2> SUFFICES ASSUME NEW m \in Messages, NEW s \in Unacked(S, m)
               PROVE  Bound(m[1], m[2])
    OBVIOUS
  <2>1. s \in Slots /\ phase[s] # "free" /\ Message(s) = m
    BY DEF Unacked
  <2> QED
    BY <2>1, SlotFacts DEF Inv, Routed
<1>4. \A m \in Messages : ready'[m] > 0 \/ retry'[m] > 0 => Bound(m[1], m[2])
  BY <1>1, <1>3 DEF Inv, Routed
<1>5. Marked' /\ \A t \in Slots : phase'[t] # "free" => Bound(ConsumerOf(t), event[t])'
  <2>1. \A t \in Slots :
           \/ phase'[t] = "free"
           \/ /\ phase[t] # "free" /\ event'[t] = event[t]
              /\ phase'[t] = "enqueue" => \/ phase[t] = "enqueue"
                                          \/ ConsumerOf(t) = "notification" /\ processed'[Subject(t)]
    OBVIOUS
  <2> QED
    BY <2>1, SlotsKept
<1>6. Routed'
  BY <1>4, <1>5 DEF Routed, Bound
<1>7. ASSUME NEW t \in Slots, NEW c \in Consumers, NEW e \in Events,
             Working(t), Subject(t) = <<c, e>>
      PROVE  Safe(c, e)'
  <2>1. CASE t \in S
    <3>1. t \in Unacked(S, Message(t)) /\ Message(t) \in Messages
      BY <1>7, <2>1, SlotFacts DEF Unacked, Working, Inv
    <3>2. Message(t) = <<c, e, retries[t]>> /\ retries[t] \in 0..MaxRetries
      BY <1>7 DEF Message, Subject, Inv, TypeOK
    <3>3. ready'[<<c, e, retries[t]>>] > 0
      BY <1>1, <3>1, <3>2
    <3> QED
      BY <3>2, <3>3, SafeInQueue
  <2>2. CASE t \notin S
    <3>1. Working(t)' /\ Subject(t)' = <<c, e>>
      BY <1>7, <2>2 DEF Working, Subject, ConsumerOf
    <3> QED
      BY <3>1, SafeInHand
  <2> QED
    BY <2>1, <2>2
<1>8. \A m \in Messages : ready'[m] >= ready[m] /\ retry'[m] >= retry[m]
  BY <1>1 DEF Inv, TypeOK
<1>9. \A d \in Consumers \X Events : dead'[d] >= dead[d]
  BY <1>1 DEF Inv, TypeOK
<1>10. \A c \in Consumers, e \in Events : Bound(c, e) /\ Safe(c, e) => Safe(c, e)'
  BY <1>7, <1>8, <1>9, SafeUnlessInHand DEF TypeOK
<1>11. Owed'
  BY <1>1, <1>10, OwedKept DEF Inv
<1> QED
  BY <1>2, <1>5, <1>6, <1>11 DEF Inv

\* Outages keep the invariant.
LEMMA OutageInv ==
  ASSUME Inv,
         \/ \E w \in Workers : Crash(w)
         \/ BrokerRestarts
         \/ \E s \in Slots : ClosedChannel(s)
  PROVE  Inv'
<1>0. [Next]_vars
  BY DEF Next, Handle
<1>1. TypeOK /\ TypeOK'
  BY OutageTypes DEF Inv
<1>2. ASSUME NEW w \in Workers, Restarted(w), Requeue({s \in Slots : s[1] = w}), UNCHANGED database
      PROVE  Inv'
  <2> DEFINE S == {s \in Slots : s[1] = w}
  <2>1. \A t \in Slots :
          \/ t \in S /\ phase'[t] = "free"
          \/ t \notin S /\ phase'[t] = phase[t] /\ event'[t] = event[t] /\ attached'[t] = attached[t]
    BY <1>1, <1>2, WorkerFreed
  <2>2. S \in SUBSET Slots
    OBVIOUS
  <2> QED
    BY <1>0, <1>1, <1>2, <2>1, <2>2, RequeueInv
<1>3. CASE \E w \in Workers : Crash(w)
  BY <1>2, <1>3 DEF Crash
<1>4. CASE BrokerRestarts
  <2>1. \A t \in Slots : t \in Slots /\ phase'[t] = phase[t] /\ event'[t] = event[t]
    BY <1>4 DEF BrokerRestarts
  <2>2. Requeue(Slots) /\ UNCHANGED database
    BY <1>4 DEF BrokerRestarts
  <2> QED
    BY <1>0, <1>1, <2>1, <2>2, RequeueInv
<1>5. ASSUME NEW s \in Slots, ClosedChannel(s)
      PROVE  Inv'
  <2>1. CASE Release(s) /\ UNCHANGED <<broker, consuming>>
    <3>1. ~Working(s)
      BY <1>5 DEF ClosedChannel, Working
    <3> QED
      BY <1>0, <1>1, <2>1, <3>1, ReleaseInv DEF broker
  <2>2. CASE Requeue({t \in Slots : t[1] = s[1]}) /\ Restarted(s[1])
    BY <1>1, <1>2, <1>5, <2>2, SlotFacts DEF ClosedChannel
  <2> QED
    BY <1>5, <2>1, <2>2 DEF ClosedChannel
<1> QED
  BY <1>3, <1>4, <1>5

-----------------------------------------------------------------------------
(* The theorems *)

\* Before anything is published, nothing is owed.
LEMMA InitInv == Init => Inv
<1> SUFFICES ASSUME Init PROVE Inv
  OBVIOUS
<1>1. TypeOK
  <2>1. "free" \in Phases /\ 0 \in 0..MaxRetries
    BY SizesAssumption DEF Phases
  <2> QED
    BY <2>1, IdleEvent DEF Init, TypeOK
<1>2. Routed /\ Marked
  BY DEF Init, Routed, Marked
<1>3. ExactlyOnceEffect /\ Owed
  BY DEF Init, ExactlyOnceEffect, Owed
<1> QED
  BY <1>1, <1>2, <1>3 DEF Inv

\* Every step keeps the invariant.
LEMMA InvStep == Inv /\ [Next]_vars => Inv'
<1> SUFFICES ASSUME Inv, [Next]_vars
             PROVE  Inv'
  OBVIOUS
<1>1. ASSUME NEW e \in Events, Publish(e)
      PROVE  Inv'
  BY <1>1, PublishInv
<1>2. CASE RetryExpires
  BY <1>2, RetryExpiresInv
<1>3. ASSUME NEW s \in Slots, Handle(s) \/ Fault(s)
      PROVE  Inv'
  <2>1. CASE Deliver(s)
    BY <2>1, DeliverInv
  <2>2. CASE Read(s) \/ Write(s) \/ WriteConflict(s) \/ Enqueue(s) \/ HandlerFails(s)
    BY <2>2, ConsumeInv
  <2>3. CASE Ack(s)
    <3>1. ~Working(s) /\ Release(s) /\ UNCHANGED <<published, ready, retry, dead>>
      BY <2>3 DEF Ack, Working, broker
    <3>2. TypeOK'
      BY <2>3, ConsumeTypes
    <3> QED
      BY <3>1, <3>2, ReleaseInv
  <2>4. CASE RetryOrDeadLetter(s) \/ RetryPublishFails(s)
    BY <2>4, RetryInv
  <2>5. CASE ClosedChannel(s)
    BY <2>5, OutageInv
  <2> QED
    BY <1>3, <2>1, <2>2, <2>3, <2>4, <2>5 DEF Handle, Fault
<1>4. CASE (\E w \in Workers : Crash(w)) \/ BrokerRestarts
  BY <1>4, OutageInv
<1>5. CASE UNCHANGED vars
  <2>1. /\ UNCHANGED <<published, ready, retry, dead, consuming, phase, event, retries, attached>>
        /\ UNCHANGED <<processed, rows, queued, failures, crashes, brokerRestarts>>
    BY <1>5 DEF vars, broker, slots, database, history
  <2>2. TypeOK'
    BY <2>1 DEF Inv, TypeOK
  <2>3. Routed' /\ Marked' /\ ExactlyOnceEffect'
    BY <2>1 DEF Inv, Routed, Marked, ExactlyOnceEffect, Bound, ConsumerOf, Subject
  <2>4. \A c \in Consumers, e \in Events : Bound(c, e) /\ Safe(c, e) => Safe(c, e)'
    BY <2>1 DEF Safe, Done, Firm, Working, ConsumerOf, Subject
  <2> QED
    BY <2>1, <2>2, <2>3, <2>4, OwedKept DEF Inv
<1> QED
  BY <1>1, <1>2, <1>3, <1>4, <1>5 DEF Next

\* Every variable keeps its type, the retry count its bound and the jobs added
\* to BullMQ are for orders only (the bindings of consumerDefinitions).
THEOREM ConsumersTypeCorrect == Spec => []TypeOK
<1>1. Inv => TypeOK
  BY DEF Inv
<1> QED
  BY <1>1, InitInv, InvStep, PTL DEF Spec

\* Duplicated, redelivered and concurrent messages leave exactly one audit row
\* and one delivery per event: at the unique marker of processed_messages.
THEOREM EffectsExactlyOnce == Spec => []ExactlyOnceEffect
<1>1. Inv => ExactlyOnceEffect
  BY DEF Inv
<1> QED
  BY <1>1, InitInv, InvStep, PTL DEF Spec

\* Whatever handlers, workers, confirms and the broker do, an event that was
\* published is done or still has a message, for each consumer bound to it.
THEOREM NoMessageLost == Spec => []NothingLost
<1>1. Inv => NothingLost
  <2> SUFFICES ASSUME Inv, NEW c \in Consumers, NEW e \in Events, published[e] > 0, Bound(c, e)
               PROVE  Done(c, e) \/ Kept(c, e)
    BY DEF NothingLost
  <2>1. Done(c, e) \/ Firm(c, e)
    BY DEF Inv, Owed
  <2>2. ASSUME NEW n \in 0..MaxRetries, ready[<<c, e, n>>] > 0
        PROVE  Waiting(ready, c, e) # {}
    BY <2>2 DEF Waiting
  <2>3. ASSUME NEW n \in 0..MaxRetries, retry[<<c, e, n>>] > 0
        PROVE  Waiting(retry, c, e) # {}
    BY <2>3 DEF Waiting
  <2> QED
    BY <2>1, <2>2, <2>3 DEF Firm, Kept, Working
<1> QED
  BY <1>1, InitInv, InvStep, PTL DEF Spec

\* What a consumer has done for an event stays done: no message that comes
\* again, in whatever order, undoes a row, a marker or a job.
THEOREM DoneForGood ==
  Spec => [][\A c \in Consumers, e \in Events : Done(c, e) => Done(c, e)']_vars
<1>1. Inv /\ [Next]_vars => [\A c \in Consumers, e \in Events : Done(c, e) => Done(c, e)']_vars
  BY EffectsStay DEF Inv
<1> QED
  BY <1>1, InitInv, InvStep, PTL DEF Spec

-----------------------------------------------------------------------------
(* Sums over the x-retry-count *)

\* A nonempty set of naturals has a least element.
LEMMA Least ==
  ASSUME NEW S, S \subseteq Nat, S # {}
  PROVE  \E m \in S : \A x \in S : m <= x
<1>1. PICK m \in S : \A x \in S : ~(<<x, m>> \in OpToRel(<, Nat))
  BY NatLessThanWellFounded, WFMin
<1>2. ASSUME NEW x \in S PROVE m <= x
  <2>1. m \in Nat /\ x \in Nat
    OBVIOUS
  <2>2. x < m => <<x, m>> \in OpToRel(<, Nat)
    BY <2>1 DEF OpToRel
  <2>3. ~(x < m)
    BY <1>1, <2>2, Zenon
  <2> QED BY <2>1, <2>3
<1> QED BY <1>2

\* Induction up to N, with the set of the numbers that have the property.
LEMMA UpTo ==
  ASSUME NEW N \in Nat, NEW S, 0 \in S, \A n \in 1..N : n - 1 \in S => n \in S
  PROVE  \A n \in 0..N : n \in S
<1> DEFINE T == {n \in 0..N : n \notin S}
<1> SUFFICES ASSUME T # {} PROVE FALSE
  OBVIOUS
<1>1. T \subseteq Nat
  OBVIOUS
<1>2. PICK m \in T : \A x \in T : m <= x
  <2> HIDE DEF T
  <2> QED BY <1>1, Least
<1>3. m \in 1..N /\ m - 1 \in 0..N
  OBVIOUS
<1>4. m - 1 \notin T
  BY <1>2, <1>3
<1> QED BY <1>3, <1>4

\* What is counted for each x-retry-count, and how each count gives the next.
Amounts == [0..MaxRetries -> Nat]
Steps == [0..MaxRetries -> [Nat -> Nat]]

\* f begins with b and goes on as g says.
Recursive(f, b, g) == \A n \in 0..MaxRetries : f[n] = IF n = 0 THEN b ELSE g[n][f[n - 1]]

\* A recursive definition has a solution.
LEMMA Recursion ==
  ASSUME NEW b \in Nat, NEW g \in Steps
  PROVE  \E f \in Amounts : Recursive(f, b, g)
<1>0. MaxRetries \in Nat
  BY SizesAssumption
<1> DEFINE P(n) == \E f \in [0..n -> Nat] :
                     \A k \in 0..n : f[k] = IF k = 0 THEN b ELSE g[k][f[k - 1]]
           S == {n \in 0..MaxRetries : P(n)}
<1>1. 0 \in S
  <2> DEFINE f == [k \in 0..0 |-> b]
  <2>1. f \in [0..0 -> Nat] /\ \A k \in 0..0 : f[k] = IF k = 0 THEN b ELSE g[k][f[k - 1]]
    OBVIOUS
  <2>2. P(0)
    <3> HIDE DEF f
    <3> QED BY <2>1
  <2> QED BY <1>0, <2>2
<1>2. ASSUME NEW n \in 1..MaxRetries, n - 1 \in S PROVE n \in S
  <2>1. PICK f \in [0..(n - 1) -> Nat] :
          \A k \in 0..(n - 1) : f[k] = IF k = 0 THEN b ELSE g[k][f[k - 1]]
    BY <1>2
  <2> DEFINE h == [k \in 0..n |-> IF k = n THEN g[n][f[n - 1]] ELSE f[k]]
  <2>2. n \in 0..MaxRetries /\ n - 1 \in 0..(n - 1) /\ g[n] \in [Nat -> Nat] /\ f[n - 1] \in Nat
    <3>1. n \in 0..MaxRetries /\ n - 1 \in 0..(n - 1)
      BY <1>0
    <3>2. g[n] \in [Nat -> Nat]
      BY <3>1 DEF Steps
    <3> QED BY <3>1, <3>2
  <2>3. \A k \in 0..n : k # n => k \in 0..(n - 1)
    BY <1>0
  <2>4. h \in [0..n -> Nat]
    BY <2>2, <2>3
  <2>5. ASSUME NEW k \in 0..n
        PROVE  h[k] = IF k = 0 THEN b ELSE g[k][h[k - 1]]
    <3>1. CASE k = n
      <4>1. h[k] = g[n][f[n - 1]] /\ h[k - 1] = f[n - 1] /\ k # 0
        BY <1>0, <3>1
      <4> QED BY <3>1, <4>1
    <3>2. CASE k # n
      <4>1. k \in 0..(n - 1) /\ h[k] = f[k]
        BY <1>0, <3>2
      <4>2. k # 0 => k - 1 \in 0..n /\ k - 1 # n
        BY <1>0, <3>2
      <4>3. k # 0 => h[k - 1] = f[k - 1]
        BY <4>2
      <4> QED BY <2>1, <4>1, <4>3
    <3> QED BY <3>1, <3>2
  <2>6. P(n)
    <3> HIDE DEF h
    <3> QED BY <2>4, <2>5
  <2> QED BY <2>2, <2>6
<1>3. MaxRetries \in S
  <2> HIDE DEF S
  <2>1. \A n \in 0..MaxRetries : n \in S
    BY <1>0, <1>1, <1>2, UpTo
  <2> QED BY <1>0, <2>1
<1> QED BY <1>3 DEF Amounts, Recursive

\* The partial sums of a.
PartialSums(a) == CHOOSE f : f = [n \in 0..MaxRetries |-> IF n = 0 THEN a[0] ELSE f[n - 1] + a[n]]

\* SumOverRetries is the last partial sum.
LEMMA SumFacts ==
  ASSUME NEW a \in Amounts
  PROVE  /\ PartialSums(a) \in Amounts
         /\ PartialSums(a)[0] = a[0]
         /\ \A n \in 1..MaxRetries : PartialSums(a)[n] = PartialSums(a)[n - 1] + a[n]
         /\ SumOverRetries(a) = PartialSums(a)[MaxRetries]
         /\ SumOverRetries(a) \in Nat
<1>0. MaxRetries \in Nat /\ 0 \in 0..MaxRetries /\ MaxRetries \in 0..MaxRetries
  BY SizesAssumption
<1> DEFINE g == [n \in 0..MaxRetries |-> [x \in Nat |-> x + a[n]]]
<1>1. g \in Steps /\ a[0] \in Nat
  BY <1>0 DEF Amounts, Steps
<1>2. PICK f \in Amounts : Recursive(f, a[0], g)
  <2> HIDE DEF g
  <2> QED BY <1>1, Recursion
<1>3. \A n \in 1..MaxRetries : n \in 0..MaxRetries /\ n - 1 \in 0..MaxRetries
  BY <1>0
<1>4. ASSUME NEW n \in 0..MaxRetries, n # 0 PROVE g[n][f[n - 1]] = f[n - 1] + a[n]
  BY <1>0, <1>4 DEF Amounts
<1>5. f = [n \in 0..MaxRetries |-> IF n = 0 THEN a[0] ELSE f[n - 1] + a[n]]
  <2> HIDE DEF g
  <2> QED BY <1>2, <1>4 DEF Recursive, Amounts
<1> DEFINE F == PartialSums(a)
<1>6. F = [n \in 0..MaxRetries |-> IF n = 0 THEN a[0] ELSE F[n - 1] + a[n]]
  BY <1>5 DEF PartialSums
<1>7. SumOverRetries(a) = F[MaxRetries]
  BY DEF SumOverRetries, PartialSums
<1> HIDE DEF F, g
<1>8. F[0] = a[0] /\ \A n \in 1..MaxRetries : F[n] = F[n - 1] + a[n]
  BY <1>0, <1>3, <1>6
<1>9. \A n \in 0..MaxRetries : F[n] \in Nat
  <2> DEFINE S == {n \in 0..MaxRetries : F[n] \in Nat}
  <2>1. 0 \in S
    BY <1>0, <1>1, <1>8
  <2>2. ASSUME NEW n \in 1..MaxRetries, n - 1 \in S PROVE n \in S
    BY <1>3, <1>8, <2>2 DEF Amounts
  <2>3. \A n \in 0..MaxRetries : n \in S
    <3> HIDE DEF S
    <3> QED BY <1>0, <2>1, <2>2, UpTo
  <2> QED BY <2>3
<1>10. F \in Amounts
  BY <1>6, <1>9 DEF Amounts
<1>11. F[MaxRetries] \in Nat
  BY <1>0, <1>9
<1> QED BY <1>7, <1>8, <1>10, <1>11 DEF F

\* Sums compare as what is added up does.
LEMMA SumBalance ==
  ASSUME NEW a \in Amounts, NEW b \in Amounts, NEW x \in Amounts, NEW y \in Amounts,
         \A n \in 0..MaxRetries : b[n] + x[n] <= a[n] + y[n]
  PROVE  SumOverRetries(b) + SumOverRetries(x) <= SumOverRetries(a) + SumOverRetries(y)
<1>0. MaxRetries \in Nat /\ 0 \in 0..MaxRetries /\ MaxRetries \in 0..MaxRetries
      /\ \A n \in 1..MaxRetries : n \in 0..MaxRetries /\ n - 1 \in 0..MaxRetries
  BY SizesAssumption
<1> DEFINE A == PartialSums(a)
           B == PartialSums(b)
           X == PartialSums(x)
           Y == PartialSums(y)
           S == {n \in 0..MaxRetries : B[n] + X[n] <= A[n] + Y[n]}
<1>1. /\ \A n \in 0..MaxRetries : A[n] \in Nat /\ B[n] \in Nat /\ X[n] \in Nat /\ Y[n] \in Nat
      /\ \A n \in 0..MaxRetries : a[n] \in Nat /\ b[n] \in Nat /\ x[n] \in Nat /\ y[n] \in Nat
  <2>1. A \in Amounts /\ B \in Amounts /\ X \in Amounts /\ Y \in Amounts
    BY SumFacts
  <2> QED
    <3> HIDE DEF A, B, X, Y
    <3> QED BY <2>1 DEF Amounts
<1>2. A[0] = a[0] /\ B[0] = b[0] /\ X[0] = x[0] /\ Y[0] = y[0]
  BY SumFacts
<1>3. \A n \in 1..MaxRetries : /\ A[n] = A[n - 1] + a[n] /\ B[n] = B[n - 1] + b[n]
                               /\ X[n] = X[n - 1] + x[n] /\ Y[n] = Y[n - 1] + y[n]
  BY SumFacts
<1>4. /\ SumOverRetries(a) = A[MaxRetries] /\ SumOverRetries(b) = B[MaxRetries]
      /\ SumOverRetries(x) = X[MaxRetries] /\ SumOverRetries(y) = Y[MaxRetries]
  BY SumFacts
<1> HIDE DEF A, B, X, Y
<1>5. 0 \in S
  BY <1>0, <1>2
<1>6. ASSUME NEW n \in 1..MaxRetries, n - 1 \in S PROVE n \in S
  <2>1. n \in 0..MaxRetries /\ n - 1 \in 0..MaxRetries /\ B[n - 1] + X[n - 1] <= A[n - 1] + Y[n - 1]
    BY <1>0, <1>6
  <2>2. b[n] + x[n] <= a[n] + y[n]
    BY <2>1
  <2>3. B[n] + X[n] <= A[n] + Y[n]
    BY <1>1, <1>3, <2>1, <2>2
  <2> QED BY <2>1, <2>3
<1>7. \A n \in 0..MaxRetries : n \in S
  <2> HIDE DEF S
  <2> QED BY <1>0, <1>5, <1>6, UpTo
<1>8. B[MaxRetries] + X[MaxRetries] <= A[MaxRetries] + Y[MaxRetries]
  BY <1>0, <1>7
<1> QED BY <1>4, <1>8

\* A single amount at k.
Single(k, v) == [n \in 0..MaxRetries |-> IF n = k THEN v ELSE 0]

\* The sum of a single amount is that amount.
LEMMA SumSingle ==
  ASSUME NEW k \in 0..MaxRetries, NEW v \in Nat
  PROVE  Single(k, v) \in Amounts /\ SumOverRetries(Single(k, v)) = v
<1>0. MaxRetries \in Nat /\ 0 \in 0..MaxRetries /\ MaxRetries \in 0..MaxRetries
      /\ \A n \in 1..MaxRetries : n \in 0..MaxRetries /\ n - 1 \in 0..MaxRetries
  BY SizesAssumption
<1> DEFINE a == Single(k, v)
           A == PartialSums(a)
           S == {n \in 0..MaxRetries : A[n] = IF k <= n THEN v ELSE 0}
<1>1. a \in Amounts /\ \A n \in 0..MaxRetries : a[n] = IF n = k THEN v ELSE 0
  BY DEF Single, Amounts
<1> HIDE DEF a
<1>2. A[0] = a[0] /\ (\A n \in 1..MaxRetries : A[n] = A[n - 1] + a[n])
      /\ SumOverRetries(a) = A[MaxRetries]
  BY <1>1, SumFacts
<1> HIDE DEF A
<1>3. 0 \in S
  BY <1>0, <1>1, <1>2
<1>4. ASSUME NEW n \in 1..MaxRetries, n - 1 \in S PROVE n \in S
  <2>1. A[n - 1] = (IF k <= n - 1 THEN v ELSE 0) /\ A[n] = A[n - 1] + a[n]
        /\ a[n] = (IF n = k THEN v ELSE 0)
    BY <1>0, <1>1, <1>2, <1>4
  <2>2. A[n] = IF k <= n THEN v ELSE 0
    BY <2>1
  <2> QED BY <1>0, <2>2
<1>5. MaxRetries \in S
  <2> HIDE DEF S
  <2>1. \A n \in 0..MaxRetries : n \in S
    BY <1>0, <1>3, <1>4, UpTo
  <2> QED BY <1>0, <2>1
<1>6. A[MaxRetries] = v
  BY <1>0, <1>5
<1> QED BY <1>1, <1>2, <1>6 DEF a

\* Slots counted once for each x-retry-count are counted once.
LEMMA SumOfSlots ==
  ASSUME NEW S, IsFiniteSet(S), NEW r \in [S -> 0..MaxRetries]
  PROVE  LET u == [n \in 0..MaxRetries |-> Cardinality({s \in S : r[s] = n})]
         IN  u \in Amounts /\ SumOverRetries(u) = Cardinality(S)
<1>0. MaxRetries \in Nat /\ 0 \in 0..MaxRetries /\ MaxRetries \in 0..MaxRetries
      /\ \A n \in 1..MaxRetries : n \in 0..MaxRetries /\ n - 1 \in 0..MaxRetries
  BY SizesAssumption
<1> DEFINE At(n) == {s \in S : r[s] = n}
           Below(n) == {s \in S : r[s] <= n}
           u == [n \in 0..MaxRetries |-> Cardinality(At(n))]
           U == PartialSums(u)
           Q == {n \in 0..MaxRetries : U[n] = Cardinality(Below(n))}
<1>1. \A n : IsFiniteSet(At(n)) /\ Cardinality(At(n)) \in Nat
             /\ IsFiniteSet(Below(n)) /\ Cardinality(Below(n)) \in Nat
  BY FS_Subset, FS_CardinalityType
<1>2. u \in Amounts /\ \A n \in 0..MaxRetries : u[n] = Cardinality(At(n))
  BY <1>1 DEF Amounts
<1> HIDE DEF u
<1>3. U[0] = u[0] /\ (\A n \in 1..MaxRetries : U[n] = U[n - 1] + u[n])
      /\ SumOverRetries(u) = U[MaxRetries]
  BY <1>2, SumFacts
<1> HIDE DEF U
<1>4. 0 \in Q
  <2>1. At(0) = Below(0)
    BY <1>0
  <2> QED BY <1>0, <1>2, <1>3, <2>1
<1>5. ASSUME NEW n \in 1..MaxRetries, n - 1 \in Q PROVE n \in Q
  <2>1. U[n - 1] = Cardinality(Below(n - 1)) /\ u[n] = Cardinality(At(n)) /\ U[n] = U[n - 1] + u[n]
    BY <1>0, <1>2, <1>3, <1>5
  <2>2. Below(n) = Below(n - 1) \cup At(n) /\ Below(n - 1) \cap At(n) = {}
    BY <1>0
  <2>3. Cardinality(Below(n)) = Cardinality(Below(n - 1)) + Cardinality(At(n))
    <3> HIDE DEF Below, At
    <3>1. Cardinality(Below(n - 1) \cup At(n))
            = Cardinality(Below(n - 1)) + Cardinality(At(n)) - Cardinality(Below(n - 1) \cap At(n))
      BY <1>1, FS_Union
    <3>2. Cardinality(Below(n - 1) \cap At(n)) = 0
      BY <2>2, FS_EmptySet
    <3> QED BY <1>1, <2>2, <3>1, <3>2
  <2> QED BY <1>0, <2>1, <2>3
<1>6. \A n \in 0..MaxRetries : n \in Q
  <2> HIDE DEF Q
  <2> QED BY <1>0, <1>4, <1>5, UpTo
<1>7. U[MaxRetries] = Cardinality(Below(MaxRetries))
  BY <1>0, <1>6
<1>8. Below(MaxRetries) = S
  BY <1>0
<1> QED BY <1>2, <1>3, <1>7, <1>8 DEF u

\* A sum of multiples.
LEMMA SumMultiple ==
  ASSUME NEW a \in Amounts, NEW w \in Nat
  PROVE  LET b == [n \in 0..MaxRetries |-> w * a[n]]
         IN  b \in Amounts /\ SumOverRetries(b) = w * SumOverRetries(a)
<1>0. MaxRetries \in Nat /\ 0 \in 0..MaxRetries /\ MaxRetries \in 0..MaxRetries
      /\ \A n \in 1..MaxRetries : n \in 0..MaxRetries /\ n - 1 \in 0..MaxRetries
  BY SizesAssumption
<1>m. \A x, y \in Nat : w * x \in Nat /\ w * (x + y) = w * x + w * y
  OBVIOUS
<1> DEFINE b == [n \in 0..MaxRetries |-> w * a[n]]
           A == PartialSums(a)
           B == PartialSums(b)
           S == {n \in 0..MaxRetries : B[n] = w * A[n]}
<1>1. b \in Amounts /\ \A n \in 0..MaxRetries : b[n] = w * a[n] /\ a[n] \in Nat
  BY <1>m DEF Amounts
<1> HIDE DEF b
<1>2. A[0] = a[0] /\ B[0] = b[0] /\ A \in Amounts
      /\ (\A n \in 1..MaxRetries : A[n] = A[n - 1] + a[n] /\ B[n] = B[n - 1] + b[n])
      /\ SumOverRetries(a) = A[MaxRetries] /\ SumOverRetries(b) = B[MaxRetries]
  BY <1>1, SumFacts
<1> HIDE DEF A, B
<1>3. 0 \in S
  BY <1>0, <1>1, <1>2
<1>4. ASSUME NEW n \in 1..MaxRetries, n - 1 \in S PROVE n \in S
  <2>1. B[n - 1] = w * A[n - 1] /\ A[n - 1] \in Nat /\ a[n] \in Nat /\ n \in 0..MaxRetries
    BY <1>0, <1>1, <1>2, <1>4 DEF Amounts
  <2>2. B[n] = w * A[n - 1] + w * a[n] /\ A[n] = A[n - 1] + a[n]
    BY <1>1, <1>2, <2>1
  <2>3. B[n] = w * A[n]
    BY <1>m, <2>1, <2>2
  <2> QED BY <2>1, <2>3
<1>5. MaxRetries \in S
  <2> HIDE DEF S
  <2>1. \A n \in 0..MaxRetries : n \in S
    BY <1>0, <1>3, <1>4, UpTo
  <2> QED BY <1>0, <2>1
<1> QED BY <1>1, <1>2, <1>5 DEF b

-----------------------------------------------------------------------------
(* Fan-out *)

\* The audit consumer is bound to every event, the notification consumer to orders.
LEMMA FanOutFacts ==
  ASSUME NEW e \in Events
  PROVE  FanOut(e) = IF Bound("notification", e) THEN 2 ELSE 1
<1>1. CASE Bound("notification", e)
  <2>1. {c \in Consumers : Bound(c, e)} = {"audit", "notification"}
    BY <1>1 DEF Consumers, Bound
  <2>2. Cardinality({"audit", "notification"}) = 2
    <3>1. IsFiniteSet({"audit"}) /\ Cardinality({"audit"}) = 1
      BY FS_Singleton
    <3>2. Cardinality({"audit"} \cup {"notification"}) = 2
      BY <3>1, FS_AddElement
    <3>3. {"audit"} \cup {"notification"} = {"audit", "notification"}
      OBVIOUS
    <3> QED BY <3>2, <3>3
  <2> QED BY <1>1, <2>1, <2>2 DEF FanOut
<1>2. CASE ~Bound("notification", e)
  <2>1. {c \in Consumers : Bound(c, e)} = {"audit"}
    BY <1>2 DEF Consumers, Bound
  <2> QED BY <1>2, <2>1, FS_Singleton DEF FanOut
<1> QED BY <1>1, <1>2

\* The weights of the messages with MaxRetries - k retries.
Weights(e) == CHOOSE f :
  f = [k \in 0..MaxRetries |-> IF k = 0 THEN 1 ELSE FanOut(e) * FanOut(e) * f[k - 1]]

\* A message weighs as much as all the messages its next retry makes, and none
\* weighs more than one that has not been retried.
LEMMA WeightFacts ==
  ASSUME NEW e \in Events
  PROVE  /\ \A n \in 0..MaxRetries : Weight(e, n) \in Nat /\ Weight(e, n) <= Weight(e, 0)
         /\ Weight(e, MaxRetries) = 1
         /\ \A n \in 1..MaxRetries :
              Weight(e, n - 1) = FanOut(e) * (FanOut(e) * Weight(e, n))
         /\ \A n \in 0..MaxRetries : 1 <= Weight(e, n)
<1>0. MaxRetries \in Nat /\ 0 \in 0..MaxRetries /\ MaxRetries \in 0..MaxRetries
      /\ \A n \in 1..MaxRetries : n \in 0..MaxRetries /\ n - 1 \in 0..MaxRetries
  BY SizesAssumption
<1>f. FanOut(e) \in {1, 2}
  BY FanOutFacts
<1> DEFINE g == [n \in 0..MaxRetries |-> [x \in Nat |-> FanOut(e) * FanOut(e) * x]]
           F == Weights(e)
<1>1. g \in Steps
  BY <1>0, <1>f DEF Steps
<1>2. PICK f \in Amounts : Recursive(f, 1, g)
  <2> HIDE DEF g
  <2> QED BY <1>1, Recursion
<1>4. ASSUME NEW n \in 0..MaxRetries, n # 0
      PROVE  g[n][f[n - 1]] = FanOut(e) * FanOut(e) * f[n - 1]
  BY <1>0, <1>4 DEF Amounts
<1>5. f = [n \in 0..MaxRetries |-> IF n = 0 THEN 1 ELSE FanOut(e) * FanOut(e) * f[n - 1]]
  <2> HIDE DEF g
  <2> QED BY <1>2, <1>4 DEF Recursive, Amounts
<1>6. F = [n \in 0..MaxRetries |-> IF n = 0 THEN 1 ELSE FanOut(e) * FanOut(e) * F[n - 1]]
  BY <1>5 DEF Weights
<1>7. \A n \in 0..MaxRetries : Weight(e, n) = F[MaxRetries - n]
  BY DEF Weight, Weights
<1> HIDE DEF F, g
<1>8. F[0] = 1 /\ \A n \in 1..MaxRetries : F[n] = FanOut(e) * FanOut(e) * F[n - 1]
  BY <1>0, <1>6
<1>9. \A n \in 0..MaxRetries : F[n] \in Nat /\ 1 <= F[n]
  <2> DEFINE S == {n \in 0..MaxRetries : F[n] \in Nat /\ 1 <= F[n]}
  <2>1. 0 \in S
    BY <1>0, <1>8
  <2>2. ASSUME NEW n \in 1..MaxRetries, n - 1 \in S PROVE n \in S
    <3>1. F[n - 1] \in Nat /\ 1 <= F[n - 1] /\ F[n] = FanOut(e) * FanOut(e) * F[n - 1] /\ n \in 0..MaxRetries
      BY <1>0, <1>8, <2>2
    <3>2. F[n] \in Nat /\ 1 <= F[n]
      BY <1>f, <3>1
    <3> QED BY <3>1, <3>2
  <2>3. \A n \in 0..MaxRetries : n \in S
    <3> HIDE DEF S
    <3> QED BY <1>0, <2>1, <2>2, UpTo
  <2> QED BY <2>3
<1>10. \A n \in 0..MaxRetries : MaxRetries - n \in 0..MaxRetries
  BY <1>0
<1>11. \A n \in 0..MaxRetries : Weight(e, n) \in Nat /\ 1 <= Weight(e, n)
  BY <1>7, <1>9, <1>10
<1>12. Weight(e, MaxRetries) = 1
  BY <1>0, <1>7, <1>8
<1>13. ASSUME NEW n \in 1..MaxRetries
       PROVE  Weight(e, n - 1) = FanOut(e) * (FanOut(e) * Weight(e, n))
  <2>1. n \in 0..MaxRetries /\ n - 1 \in 0..MaxRetries /\ MaxRetries - (n - 1) \in 1..MaxRetries
        /\ (MaxRetries - (n - 1)) - 1 = MaxRetries - n
    BY <1>0
  <2>2. Weight(e, n - 1) = F[MaxRetries - (n - 1)] /\ Weight(e, n) = F[MaxRetries - n]
    BY <1>7, <2>1
  <2>3. F[MaxRetries - (n - 1)] = FanOut(e) * FanOut(e) * F[(MaxRetries - (n - 1)) - 1]
    BY <1>8, <2>1
  <2>4. Weight(e, n - 1) = FanOut(e) * FanOut(e) * Weight(e, n)
    BY <2>1, <2>2, <2>3
  <2> QED BY <1>f, <1>11, <2>1, <2>4
<1>14. \A n \in 0..MaxRetries : Weight(e, n) <= Weight(e, 0)
  <2> DEFINE S == {n \in 0..MaxRetries : Weight(e, n) <= Weight(e, 0)}
  <2>1. 0 \in S
    BY <1>0, <1>11
  <2>2. ASSUME NEW n \in 1..MaxRetries, n - 1 \in S PROVE n \in S
    <3>1. n \in 0..MaxRetries /\ n - 1 \in 0..MaxRetries /\ Weight(e, n - 1) <= Weight(e, 0)
      BY <1>0, <2>2
    <3>2. Weight(e, n) <= Weight(e, n - 1)
      BY <1>f, <1>11, <1>13, <3>1
    <3> QED BY <1>0, <1>11, <3>1, <3>2
  <2>3. \A n \in 0..MaxRetries : n \in S
    <3> HIDE DEF S
    <3> QED BY <1>0, <2>1, <2>2, UpTo
  <2> QED BY <2>3
<1> QED BY <1>11, <1>12, <1>13, <1>14

\* Each amount with its weight.
Weighted(e, a) == [n \in 0..MaxRetries |-> Weight(e, n) * a[n]]

\* Weights are kept in a balance of amounts.
LEMMA WeightedBalance ==
  ASSUME NEW e \in Events,
         NEW a \in Amounts, NEW b \in Amounts, NEW x \in Amounts, NEW y \in Amounts,
         \A n \in 0..MaxRetries : b[n] + x[n] <= a[n] + y[n]
  PROVE  SumOverRetries(Weighted(e, b)) + SumOverRetries(Weighted(e, x))
           <= SumOverRetries(Weighted(e, a)) + SumOverRetries(Weighted(e, y))
<1>1. \A w, p, q, r, t \in Nat : /\ w * p \in Nat
                                 /\ p + q <= r + t => w * p + w * q <= w * r + w * t
  <2> SUFFICES ASSUME NEW w \in Nat, NEW p \in Nat, NEW q \in Nat, NEW r \in Nat, NEW t \in Nat,
                      p + q <= r + t
               PROVE  w * p + w * q <= w * r + w * t
    OBVIOUS
  <2>1. w * (p + q) = w * p + w * q /\ w * (r + t) = w * r + w * t
    OBVIOUS
  <2>2. PICK d \in Nat : r + t = (p + q) + d
    <3>1. (r + t) - (p + q) \in Nat /\ r + t = (p + q) + ((r + t) - (p + q))
      OBVIOUS
    <3> QED BY <3>1
  <2>3. w * (r + t) = w * (p + q) + w * d /\ w * d \in Nat
    BY <2>2
  <2>4. w * p \in Nat /\ w * q \in Nat /\ w * r \in Nat /\ w * t \in Nat
    OBVIOUS
  <2> QED BY <2>1, <2>3, <2>4
<1>2. \A n \in 0..MaxRetries : /\ Weight(e, n) \in Nat
                               /\ a[n] \in Nat /\ b[n] \in Nat /\ x[n] \in Nat /\ y[n] \in Nat
  BY WeightFacts DEF Amounts
<1>3. /\ Weighted(e, a) \in Amounts /\ Weighted(e, b) \in Amounts
      /\ Weighted(e, x) \in Amounts /\ Weighted(e, y) \in Amounts
  BY <1>1, <1>2 DEF Weighted, Amounts
<1>4. \A n \in 0..MaxRetries :
        Weighted(e, b)[n] + Weighted(e, x)[n] <= Weighted(e, a)[n] + Weighted(e, y)[n]
  BY <1>1, <1>2 DEF Weighted
<1> QED BY <1>3, <1>4, SumBalance

\* Nothing weighs nothing, and a single amount its weight.
LEMMA WeightedSingle ==
  ASSUME NEW e \in Events, NEW k \in 0..MaxRetries, NEW v \in Nat
  PROVE  Single(k, v) \in Amounts /\ SumOverRetries(Weighted(e, Single(k, v))) = Weight(e, k) * v
<1>1. \A n \in 0..MaxRetries : Weight(e, n) \in Nat /\ Weight(e, n) * 0 = 0
  BY WeightFacts
<1>2. Weighted(e, Single(k, v)) = Single(k, Weight(e, k) * v)
  BY <1>1 DEF Weighted, Single
<1>3. Weight(e, k) * v \in Nat
  <2>1. \A p, q \in Nat : p * q \in Nat
    OBVIOUS
  <2> QED BY <1>1, <2>1
<1> QED BY <1>2, <1>3, SumSingle

\* No amount weighs more than if it had not been retried.
LEMMA WeightedBound ==
  ASSUME NEW e \in Events, NEW a \in Amounts
  PROVE  /\ SumOverRetries(Weighted(e, a)) \in Nat
         /\ SumOverRetries(Weighted(e, a)) <= Weight(e, 0) * SumOverRetries(a)
<1>0. MaxRetries \in Nat /\ 0 \in 0..MaxRetries
  BY SizesAssumption
<1>1. \A n \in 0..MaxRetries : /\ Weight(e, n) \in Nat /\ a[n] \in Nat
                               /\ Weight(e, n) <= Weight(e, 0)
  BY WeightFacts DEF Amounts
<1>2. \A p, q, r \in Nat : p * r \in Nat /\ (p <= q => p * r <= q * r)
  OBVIOUS
<1>3. Weighted(e, a) \in Amounts
  BY <1>1, <1>2 DEF Weighted, Amounts
<1> DEFINE b == [n \in 0..MaxRetries |-> Weight(e, 0) * a[n]]
           z == Single(0, 0)
<1>4. b \in Amounts /\ SumOverRetries(b) = Weight(e, 0) * SumOverRetries(a)
  BY <1>0, <1>1, SumMultiple
<1>5. z \in Amounts /\ SumOverRetries(z) = 0 /\ \A n \in 0..MaxRetries : z[n] = 0
  BY <1>0, SumSingle DEF Single
<1>6. \A n \in 0..MaxRetries : Weighted(e, a)[n] + z[n] <= b[n] + z[n]
  <2> SUFFICES ASSUME NEW n \in 0..MaxRetries PROVE Weighted(e, a)[n] + z[n] <= b[n] + z[n]
    OBVIOUS
  <2>1. Weighted(e, a)[n] = Weight(e, n) * a[n] /\ b[n] = Weight(e, 0) * a[n] /\ z[n] = 0
    BY <1>5 DEF Weighted
  <2>2. /\ Weight(e, n) * a[n] <= Weight(e, 0) * a[n]
        /\ Weight(e, n) * a[n] \in Nat /\ Weight(e, 0) * a[n] \in Nat
    BY <1>0, <1>1, <1>2
  <2> HIDE DEF b, z
  <2> QED BY <2>1, <2>2
<1> HIDE DEF b, z
<1>7. SumOverRetries(Weighted(e, a)) + SumOverRetries(z) <= SumOverRetries(b) + SumOverRetries(z)
  BY <1>3, <1>4, <1>5, <1>6, SumBalance
<1>8. SumOverRetries(Weighted(e, a)) \in Nat /\ SumOverRetries(b) \in Nat
  BY <1>3, <1>4, SumFacts
<1> QED BY <1>4, <1>5, <1>7, <1>8

-----------------------------------------------------------------------------
(* Retries do not run away *)

\* The parts of the load: queued, waiting for a retry, in hand.
Queued(e, n)   == ready[<<"audit", e, n>>] + ready[<<"notification", e, n>>]
Retrying(e, n) == retry[<<"audit", e, n>>] + retry[<<"notification", e, n>>]
InHand(e, n)   == {s \in Slots : /\ attached[s] /\ event[s] = e /\ retries[s] = n
                                 /\ phase[s] \notin {"free", "ack"}}
Dead(e)        == dead[<<"audit", e>>] + dead[<<"notification", e>>]

Loads(e) == [n \in 0..MaxRetries |-> Load(e, n)]

\* A worker whose consumers the broker has forgotten has no message it could
\* still acknowledge, and only such a worker works on after its channel closed.
CutOff ==
  \A s \in Slots : /\ ~consuming[s[1]] => ~attached[s]
                   /\ phase[s] # "free" /\ ~attached[s] => ~consuming[s[1]]

\* The slots are finitely many, and those of a worker at most two per prefetch.
LEMMA SlotsFinite ==
  /\ IsFiniteSet(Slots) /\ Cardinality(Slots) \in Nat
  /\ \A S \in SUBSET Slots : /\ IsFiniteSet(S) /\ Cardinality(S) \in Nat
                             /\ Cardinality(S) <= Cardinality(Slots)
  /\ \A w \in Workers : Cardinality({s \in Slots : s[1] = w}) <= 2 * Prefetch
<1>1. IsFiniteSet(1..Prefetch) /\ Cardinality(1..Prefetch) = Prefetch /\ Prefetch \in Nat
  BY SizesAssumption, FS_Interval
<1>2. IsFiniteSet(Consumers) /\ Cardinality(Consumers) = 2
  <2>1. IsFiniteSet({"audit"}) /\ Cardinality({"audit"}) = 1
    BY FS_Singleton
  <2>2. IsFiniteSet({"audit"} \cup {"notification"}) /\ Cardinality({"audit"} \cup {"notification"}) = 2
    BY <2>1, FS_AddElement
  <2>3. Consumers = {"audit"} \cup {"notification"}
    BY DEF Consumers
  <2> QED
    BY <2>2, <2>3
<1> DEFINE C == Consumers \X (1..Prefetch)
<1>3. IsFiniteSet(C) /\ Cardinality(C) = 2 * Prefetch
  BY <1>1, <1>2, FS_Product
<1>4. IsFiniteSet(Slots)
  <2> DEFINE P == Workers \X C
             f == [p \in P |-> <<p[1], p[2][1], p[2][2]>>]
  <2>1. IsFiniteSet(P)
    BY <1>3, FS_Product, WorkersAssumption
  <2>2. ASSUME NEW s \in Slots PROVE \E p \in P : f[p] = s
    <3>1. <<s[1], <<s[2], s[3]>>>> \in P /\ s = <<s[1], s[2], s[3]>>
      BY DEF Slots
    <3> QED
      BY <3>1
  <2>3. \A p \in P : f[p] \in Slots
    BY DEF Slots
  <2>4. f \in Surjection(P, Slots)
    BY <2>2, <2>3 DEF Surjection
  <2> QED
    BY <2>1, <2>4, FS_Surjection
<1>5. \A S \in SUBSET Slots : /\ IsFiniteSet(S) /\ Cardinality(S) \in Nat
                              /\ Cardinality(S) <= Cardinality(Slots)
  BY <1>4, FS_Subset, FS_CardinalityType
<1>6. ASSUME NEW w \in Workers PROVE Cardinality({s \in Slots : s[1] = w}) <= 2 * Prefetch
  <2> DEFINE S == {s \in Slots : s[1] = w}
             f == [p \in C |-> <<w, p[1], p[2]>>]
  <2>1. ASSUME NEW s \in S PROVE \E p \in C : f[p] = s
    <3>1. <<s[2], s[3]>> \in C /\ s = <<w, s[2], s[3]>>
      BY DEF Slots
    <3> QED
      BY <3>1
  <2>2. \A p \in C : f[p] \in S
    BY DEF Slots
  <2>3. f \in Surjection(C, S)
    BY <2>1, <2>2 DEF Surjection
  <2> HIDE DEF S, C, f
  <2>4. Cardinality(S) <= Cardinality(C)
    BY <1>3, <2>3, FS_Surjection
  <2> QED
    BY <1>3, <2>4 DEF S
<1> QED
  BY <1>4, <1>5, <1>6, FS_CardinalityType

\* The load in its parts, and the traffic as a sum of it.
LEMMA TrafficFacts ==
  ASSUME TypeOK, NEW e \in Events
  PROVE  /\ \A n \in 0..MaxRetries :
              /\ Queued(e, n) \in Nat /\ Retrying(e, n) \in Nat
              /\ IsFiniteSet(InHand(e, n)) /\ Cardinality(InHand(e, n)) \in Nat
              /\ Load(e, n) = Queued(e, n) + FanOut(e) * Retrying(e, n) + Cardinality(InHand(e, n))
              /\ Load(e, n) \in Nat
         /\ Dead(e) \in Nat
         /\ Loads(e) \in Amounts /\ SumOverRetries(Weighted(e, Loads(e))) \in Nat
         /\ Traffic(e) = SumOverRetries(Weighted(e, Loads(e))) + Dead(e)
         /\ Traffic(e) \in Nat
<1>0. "audit" \in Consumers /\ "notification" \in Consumers
  BY DEF Consumers
<1>f. FanOut(e) \in {1, 2}
  BY FanOutFacts
<1>1. ASSUME NEW n \in 0..MaxRetries
      PROVE  /\ Queued(e, n) \in Nat /\ Retrying(e, n) \in Nat
             /\ IsFiniteSet(InHand(e, n)) /\ Cardinality(InHand(e, n)) \in Nat
             /\ Load(e, n) = Queued(e, n) + FanOut(e) * Retrying(e, n) + Cardinality(InHand(e, n))
             /\ Load(e, n) \in Nat
  <2>1. <<"audit", e, n>> \in Messages /\ <<"notification", e, n>> \in Messages
    BY <1>0, MessageFacts
  <2>2. /\ ready[<<"audit", e, n>>] \in Nat /\ ready[<<"notification", e, n>>] \in Nat
        /\ retry[<<"audit", e, n>>] \in Nat /\ retry[<<"notification", e, n>>] \in Nat
    BY <2>1 DEF TypeOK
  <2>3. Queued(e, n) \in Nat /\ Retrying(e, n) \in Nat
    BY <2>2 DEF Queued, Retrying
  <2>4. IsFiniteSet(InHand(e, n)) /\ Cardinality(InHand(e, n)) \in Nat
    BY SlotsFinite DEF InHand
  <2>5. Load(e, n) = Queued(e, n) + FanOut(e) * Retrying(e, n) + Cardinality(InHand(e, n))
    BY DEF Load, Queued, Retrying, InHand
  <2> QED
    BY <1>f, <2>3, <2>4, <2>5
<1>2. Dead(e) \in Nat
  <2>1. <<"audit", e>> \in Consumers \X Events /\ <<"notification", e>> \in Consumers \X Events
    BY <1>0
  <2>2. dead[<<"audit", e>>] \in Nat /\ dead[<<"notification", e>>] \in Nat
    BY <2>1 DEF TypeOK
  <2> QED
    BY <2>2 DEF Dead
<1>3. Loads(e) \in Amounts
  BY <1>1 DEF Loads, Amounts
<1>4. SumOverRetries(Weighted(e, Loads(e))) \in Nat
  BY <1>3, WeightedBound
<1>5. [n \in 0..MaxRetries |-> Weight(e, n) * Load(e, n)] = Weighted(e, Loads(e))
  BY DEF Weighted, Loads
<1>6. /\ dead[<<"audit", e>>] \in Nat /\ dead[<<"notification", e>>] \in Nat
  <2>1. <<"audit", e>> \in Consumers \X Events /\ <<"notification", e>> \in Consumers \X Events
    BY <1>0
  <2> QED
    BY <2>1 DEF TypeOK
<1>7. Traffic(e) = SumOverRetries(Weighted(e, Loads(e))) + Dead(e)
  <2>1. Traffic(e) = SumOverRetries(Weighted(e, Loads(e)))
                       + dead[<<"audit", e>>] + dead[<<"notification", e>>]
    BY <1>5 DEF Traffic
  <2> QED
    BY <1>4, <1>6, <2>1 DEF Dead
<1> QED
  BY <1>1, <1>2, <1>3, <1>4, <1>7

\* Loads balance before and after a step: so does the traffic.
LEMMA TrafficStep ==
  ASSUME TypeOK, TypeOK', NEW e \in Events, NEW x \in Amounts, NEW y \in Amounts,
         \A n \in 0..MaxRetries : Load(e, n)' + x[n] <= Load(e, n) + y[n]
  PROVE  Traffic(e)' + SumOverRetries(Weighted(e, x)) + Dead(e)
           <= Traffic(e) + SumOverRetries(Weighted(e, y)) + Dead(e)'
<1> DEFINE a == Loads(e)
           b == Loads(e)'
<1>1. /\ a \in Amounts /\ SumOverRetries(Weighted(e, a)) \in Nat
      /\ Traffic(e) = SumOverRetries(Weighted(e, a)) + Dead(e) /\ Dead(e) \in Nat
  BY TrafficFacts
<1>2. /\ b \in Amounts /\ SumOverRetries(Weighted(e, b)) \in Nat
      /\ Traffic(e)' = SumOverRetries(Weighted(e, b)) + Dead(e)' /\ Dead(e)' \in Nat
  <2>1. (/\ Loads(e) \in Amounts /\ SumOverRetries(Weighted(e, Loads(e))) \in Nat
         /\ Traffic(e) = SumOverRetries(Weighted(e, Loads(e))) + Dead(e) /\ Dead(e) \in Nat)'
    BY TrafficFacts, PTL
  <2> QED
    BY <2>1 DEF Amounts, SumOverRetries, Weighted, Weight, FanOut, Bound
<1>3. \A n \in 0..MaxRetries : a[n] = Load(e, n) /\ b[n] = Load(e, n)'
  BY DEF Loads
<1> HIDE DEF a, b
<1>4. SumOverRetries(Weighted(e, b)) + SumOverRetries(Weighted(e, x))
        <= SumOverRetries(Weighted(e, a)) + SumOverRetries(Weighted(e, y))
  BY <1>1, <1>2, <1>3, WeightedBalance
<1>5. SumOverRetries(Weighted(e, x)) \in Nat /\ SumOverRetries(Weighted(e, y)) \in Nat
  BY WeightedBound
<1> QED
  BY <1>1, <1>2, <1>4, <1>5

\* The parts of the load now ...
LEMMA LoadNow ==
  ASSUME TypeOK, NEW e \in Events, NEW n \in 0..MaxRetries
  PROVE  /\ Queued(e, n) \in Nat /\ Retrying(e, n) \in Nat
         /\ IsFiniteSet(InHand(e, n)) /\ Cardinality(InHand(e, n)) \in Nat
         /\ Load(e, n) = Queued(e, n) + FanOut(e) * Retrying(e, n) + Cardinality(InHand(e, n))
         /\ Load(e, n) \in Nat
  BY TrafficFacts

\* ... and after a step.
LEMMA LoadNext ==
  ASSUME TypeOK', NEW e \in Events, NEW n \in 0..MaxRetries
  PROVE  /\ Queued(e, n)' \in Nat /\ Retrying(e, n)' \in Nat
         /\ IsFiniteSet(InHand(e, n)') /\ Cardinality(InHand(e, n)') \in Nat
         /\ Load(e, n)' = Queued(e, n)' + FanOut(e) * Retrying(e, n)' + Cardinality(InHand(e, n)')
         /\ Load(e, n)' \in Nat
<1>1. (/\ Queued(e, n) \in Nat /\ Retrying(e, n) \in Nat
       /\ IsFiniteSet(InHand(e, n)) /\ Cardinality(InHand(e, n)) \in Nat
       /\ Load(e, n) = Queued(e, n) + FanOut(e) * Retrying(e, n) + Cardinality(InHand(e, n))
       /\ Load(e, n) \in Nat)'
  BY LoadNow, PTL
<1> QED
  BY <1>1 DEF FanOut, Bound

\* What published events and repeated deliveries account for.
Allowed(e) == FanOut(e) * published[e] + Repeats

\* It is a natural number now ...
LEMMA AllowedType ==
  ASSUME TypeOK, NEW e \in Events
  PROVE  Allowed(e) \in Nat
<1>1. FanOut(e) \in Nat /\ published[e] \in Nat /\ Cardinality(Slots) \in Nat
      /\ failures \in Nat /\ crashes \in Nat /\ brokerRestarts \in Nat /\ Prefetch \in Nat
  BY FanOutFacts, SlotsFinite, SizesAssumption DEF TypeOK
<1>2. \A p, q \in Nat : p * q \in Nat
  OBVIOUS
<1>3. FanOut(e) * published[e] \in Nat /\ 2 * Prefetch * crashes \in Nat
      /\ Cardinality(Slots) * brokerRestarts \in Nat
  BY <1>1, <1>2
<1> QED
  BY <1>1, <1>3 DEF Allowed, Repeats

\* ... and after a step.
LEMMA AllowedNext ==
  ASSUME TypeOK', NEW e \in Events
  PROVE  Allowed(e)' \in Nat
<1>1. (Allowed(e) \in Nat)'
  BY AllowedType, PTL
<1> QED
  BY <1>1

\* The invariant for one event, kept by a step that adds at most k unretried
\* messages' worth of traffic and accounts for them.
LEMMA BoundStep ==
  ASSUME TrafficBounded, TypeOK', NEW e \in Events, NEW k \in Nat,
         Traffic(e)' <= Traffic(e) + Weight(e, 0) * k, Allowed(e) + k <= Allowed(e)'
  PROVE  Traffic(e)' <= Allowed(e)' * Weight(e, 0)
<1>0. 0 \in 0..MaxRetries
  BY SizesAssumption
<1>1. Traffic(e) <= Allowed(e) * Weight(e, 0) /\ Traffic(e) \in Nat /\ TypeOK
  BY TrafficFacts DEF TrafficBounded, Allowed
<1>2. Traffic(e)' \in Nat
  <2>1. (Traffic(e) \in Nat)'
    BY TrafficFacts, PTL
  <2> QED
    BY <2>1
<1>3. Allowed(e) \in Nat
  BY <1>1, AllowedType
<1>4. Allowed(e)' \in Nat
  BY AllowedNext
<1>5. Weight(e, 0) \in Nat
  BY <1>0, WeightFacts
<1>6. \A p, q, r, w \in Nat : p + q <= r => p * w + w * q <= r * w
  <2> SUFFICES ASSUME NEW p \in Nat, NEW q \in Nat, NEW r \in Nat, NEW w \in Nat, p + q <= r
               PROVE  p * w + w * q <= r * w
    OBVIOUS
  <2>1. PICK d \in Nat : r = (p + q) + d
    <3>1. r - (p + q) \in Nat /\ r = (p + q) + (r - (p + q))
      OBVIOUS
    <3> QED
      BY <3>1
  <2>2. r * w = p * w + w * q + w * d /\ w * d \in Nat /\ p * w \in Nat /\ w * q \in Nat
    BY <2>1
  <2> QED
    BY <2>2
<1>7. Allowed(e) * Weight(e, 0) + Weight(e, 0) * k <= Allowed(e)' * Weight(e, 0)
  BY <1>3, <1>4, <1>5, <1>6
<1>8. Allowed(e) * Weight(e, 0) \in Nat /\ Weight(e, 0) * k \in Nat /\ Allowed(e)' * Weight(e, 0) \in Nat
  <2>1. \A p, q \in Nat : p * q \in Nat
    OBVIOUS
  <2> QED
    BY <1>3, <1>4, <1>5, <2>1
<1> QED
  BY <1>1, <1>2, <1>7, <1>8

\* A step that gives each load at most what y says adds at most y's weight.
LEMMA LoadsGrow ==
  ASSUME TypeOK, TypeOK', NEW e \in Events, NEW y \in Amounts,
         \A n \in 0..MaxRetries : Load(e, n)' <= Load(e, n) + y[n]
  PROVE  Traffic(e)' + Dead(e) <= Traffic(e) + SumOverRetries(Weighted(e, y)) + Dead(e)'
<1>0. 0 \in 0..MaxRetries
  BY SizesAssumption
<1> DEFINE x == Single(0, 0)
<1>1. x \in Amounts /\ SumOverRetries(Weighted(e, x)) = Weight(e, 0) * 0 /\ Weight(e, 0) \in Nat
  BY <1>0, WeightedSingle, WeightFacts
<1>2. \A n \in 0..MaxRetries : x[n] = 0 /\ Load(e, n) \in Nat /\ Load(e, n)' \in Nat
  BY LoadNow, LoadNext DEF Single
<1>3. \A n \in 0..MaxRetries : Load(e, n)' + x[n] <= Load(e, n) + y[n]
  <2> HIDE DEF x
  <2> QED
    BY <1>2 DEF Amounts
<1> HIDE DEF x
<1>4. Traffic(e)' + SumOverRetries(Weighted(e, x)) + Dead(e)
        <= Traffic(e) + SumOverRetries(Weighted(e, y)) + Dead(e)'
  BY <1>1, <1>3, TrafficStep
<1>5. Traffic(e)' \in Nat /\ Dead(e) \in Nat
  <2>1. (Traffic(e) \in Nat)'
    BY TrafficFacts, PTL
  <2> QED
    BY <2>1, TrafficFacts
<1>6. SumOverRetries(Weighted(e, x)) = 0
  BY <1>1
<1> QED
  BY <1>4, <1>5, <1>6

\* A step that adds at most v to the load at k.
LEMMA LoadGrowsAt ==
  ASSUME TypeOK, TypeOK', NEW e \in Events, NEW k \in 0..MaxRetries, NEW v \in Nat,
         \A n \in 0..MaxRetries : Load(e, n)' <= Load(e, n) + (IF n = k THEN v ELSE 0),
         Dead(e)' = Dead(e)
  PROVE  Traffic(e)' <= Traffic(e) + Weight(e, k) * v
<1> DEFINE y == Single(k, v)
<1>1. y \in Amounts /\ SumOverRetries(Weighted(e, y)) = Weight(e, k) * v
      /\ \A n \in 0..MaxRetries : y[n] = IF n = k THEN v ELSE 0
  BY WeightedSingle DEF Single
<1> HIDE DEF y
<1>2. Traffic(e)' + Dead(e) <= Traffic(e) + SumOverRetries(Weighted(e, y)) + Dead(e)'
  BY <1>1, LoadsGrow
<1>3. Traffic(e)' \in Nat /\ Dead(e) \in Nat /\ Traffic(e) \in Nat
  <2>1. (Traffic(e) \in Nat)'
    BY TrafficFacts, PTL
  <2> QED
    BY <2>1, TrafficFacts
<1>4. SumOverRetries(Weighted(e, y)) \in Nat
  BY <1>1, WeightedBound
<1> QED
  BY <1>1, <1>2, <1>3, <1>4

\* Routing adds FanOut copies of the event to the queues of its consumers.
LEMMA RouteTotal ==
  ASSUME NEW q \in [Messages -> Nat], NEW f \in Events, NEW k \in 0..MaxRetries,
         NEW e \in Events, NEW n \in 0..MaxRetries
  PROVE  Route(q, f, k)[<<"audit", e, n>>] + Route(q, f, k)[<<"notification", e, n>>]
           = q[<<"audit", e, n>>] + q[<<"notification", e, n>>]
               + (IF e = f /\ n = k THEN FanOut(e) ELSE 0)
<1>1. <<"audit", e, n>> \in Messages /\ <<"notification", e, n>> \in Messages
  BY MessageFacts DEF Consumers
<1>2. q[<<"audit", e, n>>] \in Nat /\ q[<<"notification", e, n>>] \in Nat
  BY <1>1
<1>3. Route(q, f, k)[<<"audit", e, n>>]
        = IF e = f /\ n = k THEN q[<<"audit", e, n>>] + 1 ELSE q[<<"audit", e, n>>]
  BY <1>1 DEF Route, Bound
<1>4. Route(q, f, k)[<<"notification", e, n>>]
        = IF e = f /\ n = k /\ Bound("notification", e)
            THEN q[<<"notification", e, n>>] + 1 ELSE q[<<"notification", e, n>>]
  BY <1>1 DEF Route
<1>5. FanOut(e) = IF Bound("notification", e) THEN 2 ELSE 1
  BY FanOutFacts
<1> QED
  BY <1>2, <1>3, <1>4, <1>5

\* Steps that only take messages out of a call's hand add nothing: consume's
\* own steps, its acknowledgement, and calls whose channel is closed.
LEMMA QuietTraffic ==
  ASSUME TypeOK, TypeOK', NEW e \in Events, UNCHANGED <<ready, retry, dead>>,
         \A n \in 0..MaxRetries : InHand(e, n)' \subseteq InHand(e, n)
  PROVE  Traffic(e)' <= Traffic(e) + Weight(e, 0) * 0
<1>0. 0 \in 0..MaxRetries
  BY SizesAssumption
<1>1. ASSUME NEW n \in 0..MaxRetries
      PROVE  Load(e, n)' <= Load(e, n) + (IF n = 0 THEN 0 ELSE 0)
  <2>1. Queued(e, n)' = Queued(e, n) /\ Retrying(e, n)' = Retrying(e, n)
    BY DEF Queued, Retrying
  <2>2. Cardinality(InHand(e, n)') <= Cardinality(InHand(e, n))
    BY LoadNow, FS_Subset
  <2>3. FanOut(e) \in {1, 2}
    BY FanOutFacts
  <2> QED
    BY <2>1, <2>2, <2>3, LoadNow, LoadNext
<1>2. Dead(e)' = Dead(e)
  BY DEF Dead
<1> QED
  BY <1>0, <1>1, <1>2, LoadGrowsAt

\* A publication adds FanOut messages, which it accounts for.
LEMMA PublishTraffic ==
  ASSUME TypeOK, TypeOK', NEW e \in Events, NEW f \in Events, Publish(f)
  PROVE  Traffic(e)' <= Traffic(e) + Weight(e, 0) * (IF e = f THEN FanOut(e) ELSE 0)
<1>0. 0 \in 0..MaxRetries /\ FanOut(e) \in {1, 2}
  BY SizesAssumption, FanOutFacts
<1> DEFINE v == IF e = f THEN FanOut(e) ELSE 0
<1>1. ASSUME NEW n \in 0..MaxRetries
      PROVE  Load(e, n)' <= Load(e, n) + (IF n = 0 THEN v ELSE 0)
  <2>1. Queued(e, n)' = Queued(e, n) + (IF e = f /\ n = 0 THEN FanOut(e) ELSE 0)
    <3>1. ready \in [Messages -> Nat] /\ ready' = Route(ready, f, 0)
      BY DEF TypeOK, Publish
    <3> QED
      BY <1>0, <3>1, RouteTotal DEF Queued
  <2>2. Retrying(e, n)' = Retrying(e, n) /\ InHand(e, n)' = InHand(e, n)
    BY DEF Publish, Retrying, InHand, slots
  <2> QED
    BY <1>0, <2>1, <2>2, LoadNow, LoadNext
<1>2. Dead(e)' = Dead(e) /\ v \in Nat
  BY <1>0 DEF Dead, Publish
<1> HIDE DEF v
<1>3. Traffic(e)' <= Traffic(e) + Weight(e, 0) * v
  BY <1>0, <1>1, <1>2, LoadGrowsAt
<1> QED
  BY <1>3 DEF v

\* An expired retry comes back to every consumer bound to its key, as its
\* weight in the retry queue says.
LEMMA RetryExpiresTraffic ==
  ASSUME TypeOK, TypeOK', NEW e \in Events, RetryExpires
  PROVE  Traffic(e)' <= Traffic(e) + Weight(e, 0) * 0
<1>0. 0 \in 0..MaxRetries /\ FanOut(e) \in {1, 2}
  BY SizesAssumption, FanOutFacts
<1>1. PICK m \in Messages : /\ retry[m] > 0
                            /\ retry' = [retry EXCEPT ![m] = @ - 1]
                            /\ ready' = Route(ready, m[2], m[3])
                            /\ UNCHANGED <<published, dead, consuming, slots, database, history>>
  BY DEF RetryExpires
<1>2. m[1] \in Consumers /\ m[2] \in Events /\ m[3] \in 0..MaxRetries /\ m = <<m[1], m[2], m[3]>>
  BY DEF Messages
<1>3. ASSUME NEW n \in 0..MaxRetries
      PROVE  Load(e, n)' <= Load(e, n) + (IF n = 0 THEN 0 ELSE 0)
  <2>1. Queued(e, n)' = Queued(e, n) + (IF e = m[2] /\ n = m[3] THEN FanOut(e) ELSE 0)
    <3>1. ready \in [Messages -> Nat] /\ ready' = Route(ready, m[2], m[3])
      BY <1>1 DEF TypeOK
    <3> QED
      BY <1>2, <3>1, RouteTotal DEF Queued
  <2>2. Retrying(e, n)' = Retrying(e, n) - (IF e = m[2] /\ n = m[3] THEN 1 ELSE 0)
    <3>1. <<"audit", e, n>> \in Messages /\ <<"notification", e, n>> \in Messages
      BY MessageFacts DEF Consumers
    <3>2. /\ retry[<<"audit", e, n>>] \in Nat /\ retry[<<"notification", e, n>>] \in Nat
      BY <3>1 DEF TypeOK
    <3>3. retry'[<<"audit", e, n>>] = IF <<"audit", e, n>> = m
                                        THEN retry[<<"audit", e, n>>] - 1 ELSE retry[<<"audit", e, n>>]
      BY <1>1, <3>1 DEF TypeOK
    <3>4. retry'[<<"notification", e, n>>]
            = IF <<"notification", e, n>> = m
                THEN retry[<<"notification", e, n>>] - 1 ELSE retry[<<"notification", e, n>>]
      BY <1>1, <3>1 DEF TypeOK
    <3>5. /\ <<"audit", e, n>> = m <=> m[1] = "audit" /\ e = m[2] /\ n = m[3]
          /\ <<"notification", e, n>> = m <=> m[1] = "notification" /\ e = m[2] /\ n = m[3]
          /\ m[1] = "audit" \/ m[1] = "notification"
      BY <1>2 DEF Consumers
    <3> QED
      BY <3>2, <3>3, <3>4, <3>5 DEF Retrying
  <2>3. InHand(e, n)' = InHand(e, n)
    BY <1>1 DEF InHand, slots
  <2> QED
    BY <1>0, <2>1, <2>2, <2>3, LoadNow, LoadNext
<1>4. Dead(e)' = Dead(e)
  BY <1>1 DEF Dead
<1> QED
  BY <1>0, <1>3, <1>4, LoadGrowsAt

\* A set with at most one more element ...
LEMMA OneLarger ==
  ASSUME NEW A, NEW B, NEW s, IsFiniteSet(B), \A t \in A : t = s \/ t \in B
  PROVE  Cardinality(A) <= Cardinality(B) + 1
<1>1. PICK C : C = B \cup {s}
  OBVIOUS
<1>2. A \subseteq C
  BY <1>1
<1>3. Cardinality(B) \in Nat /\ IsFiniteSet(C) /\ Cardinality(C) <= Cardinality(B) + 1
  <2>1. Cardinality(B) \in Nat
    BY FS_CardinalityType
  <2>2. IsFiniteSet(B \cup {s})
        /\ Cardinality(B \cup {s}) = IF s \in B THEN Cardinality(B) ELSE Cardinality(B) + 1
    BY FS_AddElement
  <2> QED
    BY <1>1, <2>1, <2>2
<1>4. Cardinality(A) <= Cardinality(C) /\ Cardinality(A) \in Nat /\ Cardinality(C) \in Nat
  BY <1>2, <1>3, FS_Subset, FS_CardinalityType
<1> QED
  BY <1>3, <1>4

\* ... and a subset that lacks an element.
LEMMA OneSmaller ==
  ASSUME NEW A, NEW B, NEW s, IsFiniteSet(B), A \subseteq B, s \notin A
  PROVE  /\ Cardinality(A) <= Cardinality(B)
         /\ s \in B => Cardinality(A) + 1 <= Cardinality(B)
<1>1. IsFiniteSet(A) /\ Cardinality(A) <= Cardinality(B) /\ Cardinality(A) \in Nat /\ Cardinality(B) \in Nat
  BY FS_Subset, FS_CardinalityType
<1>2. ASSUME s \in B PROVE Cardinality(A) + 1 <= Cardinality(B)
  <2>1. PICK C : C = A \cup {s}
    OBVIOUS
  <2>2. C \subseteq B
    BY <1>2, <2>1
  <2>3. Cardinality(A \cup {s}) = Cardinality(A) + 1
    BY <1>1, FS_AddElement
  <2>4. Cardinality(C) <= Cardinality(B)
    BY <2>2, FS_Subset
  <2> QED
    BY <2>1, <2>3, <2>4
<1> QED
  BY <1>1, <1>2

\* A delivery moves a message from its queue to a hand.
LEMMA DeliverTraffic ==
  ASSUME TypeOK, TypeOK', NEW e \in Events, NEW s \in Slots, Deliver(s)
  PROVE  Traffic(e)' <= Traffic(e) + Weight(e, 0) * 0
<1>0. 0 \in 0..MaxRetries /\ FanOut(e) \in {1, 2}
  BY SizesAssumption, FanOutFacts
<1>1. PICK f \in Events, k \in 0..MaxRetries :
        /\ ready[<<ConsumerOf(s), f, k>>] > 0
        /\ ready' = [ready EXCEPT ![<<ConsumerOf(s), f, k>>] = @ - 1]
        /\ event' = [event EXCEPT ![s] = f]
        /\ retries' = [retries EXCEPT ![s] = k]
  BY DEF Deliver
<1>2. ASSUME NEW n \in 0..MaxRetries
      PROVE  Load(e, n)' <= Load(e, n) + (IF n = 0 THEN 0 ELSE 0)
  <2>1. Queued(e, n)' = Queued(e, n) - (IF e = f /\ n = k THEN 1 ELSE 0)
    <3> DEFINE m == <<ConsumerOf(s), f, k>>
    <3>1. <<"audit", e, n>> \in Messages /\ <<"notification", e, n>> \in Messages /\ m \in Messages
      BY SlotFacts, MessageFacts DEF Consumers
    <3>2. /\ ready[<<"audit", e, n>>] \in Nat /\ ready[<<"notification", e, n>>] \in Nat
      BY <3>1 DEF TypeOK
    <3>3. /\ <<"audit", e, n>> = m <=> ConsumerOf(s) = "audit" /\ e = f /\ n = k
          /\ <<"notification", e, n>> = m <=> ConsumerOf(s) = "notification" /\ e = f /\ n = k
          /\ ConsumerOf(s) = "audit" \/ ConsumerOf(s) = "notification"
      BY SlotFacts DEF Consumers
    <3> HIDE DEF m
    <3>4. ready' = [ready EXCEPT ![m] = @ - 1]
      BY <1>1 DEF m
    <3>5. ready'[<<"audit", e, n>>] = IF <<"audit", e, n>> = m
                                        THEN ready[<<"audit", e, n>>] - 1 ELSE ready[<<"audit", e, n>>]
      BY <3>1, <3>4 DEF TypeOK
    <3>6. ready'[<<"notification", e, n>>]
            = IF <<"notification", e, n>> = m
                THEN ready[<<"notification", e, n>>] - 1 ELSE ready[<<"notification", e, n>>]
      BY <3>1, <3>4 DEF TypeOK
    <3> QED
      BY <3>2, <3>3, <3>5, <3>6 DEF Queued
  <2>2. Retrying(e, n)' = Retrying(e, n)
    BY DEF Deliver, Retrying
  <2>3. Cardinality(InHand(e, n)') <= Cardinality(InHand(e, n)) + (IF e = f /\ n = k THEN 1 ELSE 0)
    <3>1. \A t \in Slots : t # s => /\ phase'[t] = phase[t] /\ event'[t] = event[t]
                                    /\ attached'[t] = attached[t] /\ retries'[t] = retries[t]
      BY <1>1 DEF Deliver, TypeOK
    <3>2. event'[s] = f /\ retries'[s] = k
      BY <1>1 DEF TypeOK
    <3>3. CASE e = f /\ n = k
      <4>1. \A t \in InHand(e, n)' : t = s \/ t \in InHand(e, n)
        BY <3>1 DEF InHand
      <4>2. Cardinality(InHand(e, n)') <= Cardinality(InHand(e, n)) + 1
        BY <4>1, LoadNow, OneLarger
      <4> QED
        BY <3>3, <4>2
    <3>4. CASE ~(e = f /\ n = k)
      <4>1. InHand(e, n)' \subseteq InHand(e, n)
        BY <3>1, <3>2, <3>4 DEF InHand
      <4>2. Cardinality(InHand(e, n)') <= Cardinality(InHand(e, n))
        BY <4>1, LoadNow, FS_Subset
      <4> QED
        BY <3>4, <4>2, LoadNow, LoadNext
    <3> QED
      BY <3>3, <3>4
  <2> QED
    BY <1>0, <2>1, <2>2, <2>3, LoadNow, LoadNext
<1>3. Dead(e)' = Dead(e)
  BY DEF Dead, Deliver
<1> QED
  BY <1>0, <1>2, <1>3, LoadGrowsAt

\* A call that gives its message away has one message less in hand.
LEMMA HandEmptied ==
  ASSUME TypeOK, TypeOK', NEW s \in Slots, phase[s] = "failed", attached[s],
         Goto(s, "ack") \/ Release(s), NEW e \in Events, NEW n \in 0..MaxRetries
  PROVE  Cardinality(InHand(e, n)') + (IF e = event[s] /\ n = retries[s] THEN 1 ELSE 0)
           <= Cardinality(InHand(e, n))
<1>1. phase'[s] \in {"ack", "free"}
      /\ \A t \in Slots : t # s => /\ phase'[t] = phase[t] /\ event'[t] = event[t]
                                   /\ attached'[t] = attached[t] /\ retries'[t] = retries[t]
  BY DEF Goto, Release, TypeOK
<1>2. s \notin InHand(e, n)' /\ InHand(e, n)' \subseteq InHand(e, n)
  BY <1>1 DEF InHand
<1>3. e = event[s] /\ n = retries[s] => s \in InHand(e, n)
  BY DEF InHand
<1>4. /\ Cardinality(InHand(e, n)') <= Cardinality(InHand(e, n))
      /\ s \in InHand(e, n) => Cardinality(InHand(e, n)') + 1 <= Cardinality(InHand(e, n))
  BY <1>2, LoadNow, OneSmaller
<1>5. Cardinality(InHand(e, n)') \in Nat
  BY LoadNext
<1> QED
  BY <1>3, <1>4, <1>5

\* The copies that replace a failed message: a round of retries, which weighs
\* at most what the message did, or a dead letter.
LEMMA ReplaceTraffic ==
  ASSUME TypeOK, TypeOK', NEW e \in Events, NEW s \in Slots, NEW x \in Amounts,
         \/ /\ retries[s] + 1 <= MaxRetries
            /\ retry' = Route(retry, event[s], retries[s] + 1) /\ UNCHANGED dead
         \/ /\ retries[s] + 1 > MaxRetries
            /\ dead' = [dead EXCEPT ![Subject(s)] = @ + 1] /\ UNCHANGED retry,
         \A n \in 0..MaxRetries : Queued(e, n)' + Cardinality(InHand(e, n)') + x[n]
                                    <= Queued(e, n) + Cardinality(InHand(e, n))
  PROVE  Traffic(e)' + SumOverRetries(Weighted(e, x))
           <= Traffic(e) + (IF e = event[s] THEN Weight(e, retries[s]) ELSE 0)
<1>0. retries[s] \in 0..MaxRetries /\ event[s] \in Events /\ MaxRetries \in Nat /\ 0 \in 0..MaxRetries
  BY SizesAssumption DEF TypeOK
<1>f. FanOut(e) \in {1, 2}
  BY FanOutFacts
<1>t. Traffic(e)' \in Nat /\ Traffic(e) \in Nat /\ Dead(e) \in Nat
      /\ SumOverRetries(Weighted(e, x)) \in Nat
  <2>1. (Traffic(e) \in Nat)'
    BY TrafficFacts, PTL
  <2> QED
    BY <2>1, TrafficFacts, WeightedBound
<1>w. \A n \in 0..MaxRetries : Weight(e, n) \in Nat
  BY WeightFacts
<1>x. \A n \in 0..MaxRetries : x[n] \in Nat
  BY DEF Amounts
<1>1. CASE retries[s] + 1 <= MaxRetries
  <2> DEFINE k == retries[s] + 1
             v == IF e = event[s] THEN FanOut(e) * FanOut(e) ELSE 0
             y == Single(k, v)
  <2>1. k \in 1..MaxRetries /\ k \in 0..MaxRetries /\ v \in Nat
    BY <1>0, <1>1, <1>f
  <2>2. retry' = Route(retry, event[s], k) /\ UNCHANGED dead /\ retry \in [Messages -> Nat]
    BY <1>0, <1>1 DEF TypeOK
  <2>3. y \in Amounts /\ SumOverRetries(Weighted(e, y)) = Weight(e, k) * v
        /\ \A n \in 0..MaxRetries : y[n] = IF n = k THEN v ELSE 0
    BY <2>1, WeightedSingle DEF Single
  <2>4. Weight(e, k) * v = IF e = event[s] THEN Weight(e, retries[s]) ELSE 0
    <3>1. Weight(e, k - 1) = FanOut(e) * (FanOut(e) * Weight(e, k)) /\ k - 1 = retries[s]
      BY <1>0, <2>1, WeightFacts
    <3>2. Weight(e, k) \in Nat
      BY <1>w, <2>1
    <3> QED
      BY <1>f, <3>1, <3>2
  <2> HIDE DEF y, k
  <2>5. ASSUME NEW n \in 0..MaxRetries PROVE Load(e, n)' + x[n] <= Load(e, n) + y[n]
    <3>1. Retrying(e, n)' = Retrying(e, n) + (IF e = event[s] /\ n = k THEN FanOut(e) ELSE 0)
      BY <1>0, <2>1, <2>2, RouteTotal DEF Retrying
    <3>2. FanOut(e) * Retrying(e, n)' = FanOut(e) * Retrying(e, n) + (IF n = k THEN v ELSE 0)
      BY <1>f, <3>1, LoadNow
    <3>3. FanOut(e) * Retrying(e, n) \in Nat
      BY <1>f, LoadNow
    <3> HIDE DEF v
    <3> QED
      BY <1>x, <2>1, <2>3, <3>2, <3>3, LoadNow, LoadNext
  <2>6. Traffic(e)' + SumOverRetries(Weighted(e, x)) + Dead(e)
          <= Traffic(e) + SumOverRetries(Weighted(e, y)) + Dead(e)'
    BY <2>3, <2>5, TrafficStep
  <2>7. Dead(e)' = Dead(e)
    BY <2>2 DEF Dead
  <2>8. (IF e = event[s] THEN Weight(e, retries[s]) ELSE 0) \in Nat
    BY <1>0, <1>w
  <2> QED
    BY <1>t, <2>3, <2>4, <2>6, <2>7, <2>8
<1>2. CASE retries[s] + 1 > MaxRetries
  <2>1. retries[s] = MaxRetries /\ UNCHANGED retry /\ dead' = [dead EXCEPT ![Subject(s)] = @ + 1]
    BY <1>0, <1>2
  <2> DEFINE y == Single(0, 0)
  <2>2. y \in Amounts /\ SumOverRetries(Weighted(e, y)) = 0
        /\ \A n \in 0..MaxRetries : y[n] = 0
    <3>1. y \in Amounts /\ SumOverRetries(Weighted(e, y)) = Weight(e, 0) * 0
      BY <1>0, WeightedSingle
    <3> QED
      BY <1>0, <1>w, <3>1 DEF Single
  <2> HIDE DEF y
  <2>3. ASSUME NEW n \in 0..MaxRetries PROVE Load(e, n)' + x[n] <= Load(e, n) + y[n]
    <3>1. Retrying(e, n)' = Retrying(e, n)
      BY <2>1 DEF Retrying
    <3>2. FanOut(e) * Retrying(e, n) \in Nat
      BY <1>f, LoadNow
    <3> QED
      BY <1>x, <2>2, <3>1, <3>2, LoadNow, LoadNext
  <2>4. Traffic(e)' + SumOverRetries(Weighted(e, x)) + Dead(e)
          <= Traffic(e) + SumOverRetries(Weighted(e, y)) + Dead(e)'
    BY <2>2, <2>3, TrafficStep
  <2>5. Dead(e)' = Dead(e) + (IF e = event[s] THEN 1 ELSE 0)
    <3> DEFINE d == Subject(s)
    <3>1. <<"audit", e>> \in Consumers \X Events /\ <<"notification", e>> \in Consumers \X Events
          /\ d \in Consumers \X Events
      BY SlotFacts DEF Consumers
    <3>2. dead[<<"audit", e>>] \in Nat /\ dead[<<"notification", e>>] \in Nat
      BY <3>1 DEF TypeOK
    <3>3. /\ <<"audit", e>> = d <=> ConsumerOf(s) = "audit" /\ e = event[s]
          /\ <<"notification", e>> = d <=> ConsumerOf(s) = "notification" /\ e = event[s]
          /\ ConsumerOf(s) = "audit" \/ ConsumerOf(s) = "notification"
      BY SlotFacts DEF Consumers, Subject
    <3>4. dead' = [dead EXCEPT ![d] = @ + 1]
      BY <2>1
    <3> HIDE DEF d
    <3>5. dead'[<<"audit", e>>] = IF <<"audit", e>> = d
                                    THEN dead[<<"audit", e>>] + 1 ELSE dead[<<"audit", e>>]
      BY <3>1, <3>4 DEF TypeOK
    <3>6. dead'[<<"notification", e>>] = IF <<"notification", e>> = d
                                           THEN dead[<<"notification", e>>] + 1
                                           ELSE dead[<<"notification", e>>]
      BY <3>1, <3>4 DEF TypeOK
    <3> QED
      BY <3>2, <3>3, <3>5, <3>6 DEF Dead
  <2>6. Weight(e, retries[s]) = 1
    BY <2>1, WeightFacts
  <2> QED
    BY <1>t, <2>2, <2>4, <2>5, <2>6
<1> QED
  BY <1>1, <1>2

\* retryOrDeadLetter replaces the message by what it weighs.
LEMMA RetryOrDeadLetterTraffic ==
  ASSUME TypeOK, TypeOK', NEW e \in Events, NEW s \in Slots, RetryOrDeadLetter(s)
  PROVE  Traffic(e)' <= Traffic(e) + Weight(e, 0) * 0
<1>0. retries[s] \in 0..MaxRetries /\ 0 \in 0..MaxRetries /\ MaxRetries \in Nat
  BY SizesAssumption DEF TypeOK
<1> DEFINE v == IF e = event[s] THEN 1 ELSE 0
           x == Single(retries[s], v)
<1>1. x \in Amounts /\ SumOverRetries(Weighted(e, x)) = Weight(e, retries[s]) * v
      /\ \A n \in 0..MaxRetries : x[n] = IF n = retries[s] THEN v ELSE 0
  BY <1>0, WeightedSingle DEF Single
<1> HIDE DEF x
<1>2. \A n \in 0..MaxRetries : Queued(e, n)' = Queued(e, n)
  BY DEF RetryOrDeadLetter, Replace, Queued
<1>3. ASSUME NEW n \in 0..MaxRetries
      PROVE  Queued(e, n)' + Cardinality(InHand(e, n)') + x[n]
               <= Queued(e, n) + Cardinality(InHand(e, n))
  <2>1. Cardinality(InHand(e, n)') + (IF e = event[s] /\ n = retries[s] THEN 1 ELSE 0)
          <= Cardinality(InHand(e, n))
    BY HandEmptied DEF RetryOrDeadLetter
  <2>2. x[n] = IF e = event[s] /\ n = retries[s] THEN 1 ELSE 0
    BY <1>1
  <2> QED
    BY <1>2, <2>1, <2>2, LoadNow, LoadNext
<1>4. \/ /\ retries[s] + 1 <= MaxRetries
         /\ retry' = Route(retry, event[s], retries[s] + 1) /\ UNCHANGED dead
      \/ /\ retries[s] + 1 > MaxRetries
         /\ dead' = [dead EXCEPT ![Subject(s)] = @ + 1] /\ UNCHANGED retry
  BY <1>0 DEF RetryOrDeadLetter, Replace
<1>5. Traffic(e)' + SumOverRetries(Weighted(e, x))
        <= Traffic(e) + (IF e = event[s] THEN Weight(e, retries[s]) ELSE 0)
  BY <1>1, <1>3, <1>4, ReplaceTraffic
<1>6. Weight(e, retries[s]) \in Nat /\ Weight(e, 0) \in Nat
  BY <1>0, WeightFacts
<1>7. SumOverRetries(Weighted(e, x)) = IF e = event[s] THEN Weight(e, retries[s]) ELSE 0
  BY <1>1, <1>6
<1>8. Traffic(e)' \in Nat /\ Traffic(e) \in Nat
  <2>1. (Traffic(e) \in Nat)'
    BY TrafficFacts, PTL
  <2> QED
    BY <2>1, TrafficFacts
<1> QED
  BY <1>5, <1>6, <1>7, <1>8

\* When the confirm fails, the copy may exist and the message is back in its
\* queue all the same: one more message, which the failure accounts for.
LEMMA RetryPublishFailsTraffic ==
  ASSUME TypeOK, TypeOK', NEW e \in Events, NEW s \in Slots, RetryPublishFails(s)
  PROVE  Traffic(e)' <= Traffic(e) + Weight(e, 0) * 1
<1>0. retries[s] \in 0..MaxRetries /\ 0 \in 0..MaxRetries /\ MaxRetries \in Nat
  BY SizesAssumption DEF TypeOK
<1>t. Traffic(e)' \in Nat /\ Traffic(e) \in Nat
  <2>1. (Traffic(e) \in Nat)'
    BY TrafficFacts, PTL
  <2> QED
    BY <2>1, TrafficFacts
<1>w. /\ Weight(e, retries[s]) \in Nat /\ Weight(e, 0) \in Nat
      /\ Weight(e, retries[s]) <= Weight(e, 0)
  BY <1>0, WeightFacts
<1>1. ready' = [ready EXCEPT ![Message(s)] = @ + 1] /\ Release(s) /\ phase[s] = "failed" /\ attached[s]
  BY DEF RetryPublishFails
<1>2. ASSUME NEW n \in 0..MaxRetries
      PROVE  Queued(e, n)' = Queued(e, n) + (IF e = event[s] /\ n = retries[s] THEN 1 ELSE 0)
  <2> DEFINE m == Message(s)
  <2>1. <<"audit", e, n>> \in Messages /\ <<"notification", e, n>> \in Messages /\ m \in Messages
    BY SlotFacts, MessageFacts DEF Consumers
  <2>2. ready[<<"audit", e, n>>] \in Nat /\ ready[<<"notification", e, n>>] \in Nat
    BY <2>1 DEF TypeOK
  <2>3. /\ <<"audit", e, n>> = m <=> ConsumerOf(s) = "audit" /\ e = event[s] /\ n = retries[s]
        /\ <<"notification", e, n>> = m <=> ConsumerOf(s) = "notification" /\ e = event[s] /\ n = retries[s]
        /\ ConsumerOf(s) = "audit" \/ ConsumerOf(s) = "notification"
    BY SlotFacts DEF Consumers, Message
  <2>4. ready' = [ready EXCEPT ![m] = @ + 1]
    BY <1>1
  <2> HIDE DEF m
  <2>5. ready'[<<"audit", e, n>>] = IF <<"audit", e, n>> = m
                                      THEN ready[<<"audit", e, n>>] + 1 ELSE ready[<<"audit", e, n>>]
    BY <2>1, <2>4 DEF TypeOK
  <2>6. ready'[<<"notification", e, n>>]
          = IF <<"notification", e, n>> = m
              THEN ready[<<"notification", e, n>>] + 1 ELSE ready[<<"notification", e, n>>]
    BY <2>1, <2>4 DEF TypeOK
  <2> QED
    BY <2>2, <2>3, <2>5, <2>6 DEF Queued
<1> DEFINE x == Single(0, 0)
<1>3. x \in Amounts /\ SumOverRetries(Weighted(e, x)) = 0
      /\ \A n \in 0..MaxRetries : x[n] = 0
  <2>1. x \in Amounts /\ SumOverRetries(Weighted(e, x)) = Weight(e, 0) * 0
    BY <1>0, WeightedSingle
  <2> QED
    BY <1>w, <2>1 DEF Single
<1> HIDE DEF x
<1>4. ASSUME NEW n \in 0..MaxRetries
      PROVE  Queued(e, n)' + Cardinality(InHand(e, n)') + x[n]
               <= Queued(e, n) + Cardinality(InHand(e, n))
  <2>1. Cardinality(InHand(e, n)') + (IF e = event[s] /\ n = retries[s] THEN 1 ELSE 0)
          <= Cardinality(InHand(e, n))
    BY <1>1, HandEmptied
  <2> QED
    BY <1>2, <1>3, <2>1, LoadNow, LoadNext
<1>5. CASE UNCHANGED <<retry, dead>>
  <2>1. ASSUME NEW n \in 0..MaxRetries
        PROVE  Load(e, n)' <= Load(e, n) + (IF n = 0 THEN 0 ELSE 0)
    <3>1. Retrying(e, n)' = Retrying(e, n)
      BY <1>5 DEF Retrying
    <3>2. FanOut(e) * Retrying(e, n) \in Nat
      BY FanOutFacts, LoadNow
    <3> QED
      BY <1>3, <1>4, <3>1, <3>2, LoadNow, LoadNext
  <2>2. Dead(e)' = Dead(e)
    BY <1>5 DEF Dead
  <2>3. Traffic(e)' <= Traffic(e) + Weight(e, 0) * 0
    BY <1>0, <2>1, <2>2, LoadGrowsAt
  <2> QED
    BY <1>t, <1>w, <2>3
<1>6. CASE \/ /\ retries[s] + 1 <= MaxRetries
              /\ retry' = Route(retry, event[s], retries[s] + 1) /\ UNCHANGED dead
           \/ /\ retries[s] + 1 > MaxRetries
              /\ dead' = [dead EXCEPT ![Subject(s)] = @ + 1] /\ UNCHANGED retry
  <2>1. Traffic(e)' + SumOverRetries(Weighted(e, x))
          <= Traffic(e) + (IF e = event[s] THEN Weight(e, retries[s]) ELSE 0)
    BY <1>3, <1>4, <1>6, ReplaceTraffic
  <2> QED
    BY <1>3, <1>t, <1>w, <2>1
<1> QED
  BY <1>5, <1>6 DEF RetryPublishFails

\* Putting back the messages in the hands of S adds at most one for each.
LEMMA RequeueTraffic ==
  ASSUME TypeOK, TypeOK', NEW e \in Events, NEW S \in SUBSET Slots, Requeue(S),
         \A t \in Slots : phase'[t] \notin {"free", "ack"} /\ attached'[t] =>
           phase'[t] = phase[t] /\ event'[t] = event[t] /\ retries'[t] = retries[t] /\ attached[t]
  PROVE  Traffic(e)' <= Traffic(e) + Weight(e, 0) * Cardinality(S)
<1>0. 0 \in 0..MaxRetries /\ MaxRetries \in Nat
  BY SizesAssumption
<1>1. IsFiniteSet(S) /\ Cardinality(S) \in Nat
      /\ \A T \in SUBSET S : IsFiniteSet(T) /\ Cardinality(T) \in Nat
  BY SlotsFinite
<1> DEFINE r == [t \in S |-> retries[t]]
           y == [n \in 0..MaxRetries |-> Cardinality({t \in S : r[t] = n})]
<1>2. r \in [S -> 0..MaxRetries]
  BY DEF TypeOK
<1>3. y \in Amounts /\ SumOverRetries(y) = Cardinality(S)
  <2> HIDE DEF r
  <2> QED
    BY <1>1, <1>2, SumOfSlots
<1>4. ASSUME NEW n \in 0..MaxRetries PROVE Load(e, n)' <= Load(e, n) + y[n]
  <2> DEFINE A == Unacked(S, <<"audit", e, n>>)
             N == Unacked(S, <<"notification", e, n>>)
             R == {t \in S : r[t] = n}
  <2>1. A \cap N = {} /\ A \subseteq R /\ N \subseteq R
    BY DEF Unacked, Message
  <2>2. IsFiniteSet(A) /\ IsFiniteSet(N) /\ IsFiniteSet(R) /\ y[n] = Cardinality(R)
    <3>1. A \in SUBSET S /\ N \in SUBSET S /\ R \in SUBSET S
      BY DEF Unacked
    <3> QED
      BY <1>1, <3>1
  <2>3. <<"audit", e, n>> \in Messages /\ <<"notification", e, n>> \in Messages
    BY MessageFacts DEF Consumers
  <2>4. /\ ready'[<<"audit", e, n>>] = ready[<<"audit", e, n>>] + Cardinality(A)
        /\ ready'[<<"notification", e, n>>] = ready[<<"notification", e, n>>] + Cardinality(N)
        /\ ready[<<"audit", e, n>>] \in Nat /\ ready[<<"notification", e, n>>] \in Nat
    BY <2>3 DEF Requeue, TypeOK
  <2> HIDE DEF A, N, R
  <2>5. Cardinality(A) + Cardinality(N) <= Cardinality(R)
        /\ Cardinality(A) \in Nat /\ Cardinality(N) \in Nat /\ Cardinality(R) \in Nat
    <3>1. Cardinality(A \cup N) = Cardinality(A) + Cardinality(N) - Cardinality(A \cap N)
      BY <2>2, FS_Union
    <3>2. Cardinality(A \cap N) = 0
      BY <2>1, FS_EmptySet
    <3>3. PICK U : U = A \cup N
      OBVIOUS
    <3>4. U \subseteq R
      BY <2>1, <3>3
    <3>5. Cardinality(U) <= Cardinality(R)
      BY <2>2, <3>4, FS_Subset
    <3>6. Cardinality(A) \in Nat /\ Cardinality(N) \in Nat /\ Cardinality(R) \in Nat
      BY <2>2, FS_CardinalityType
    <3> QED
      BY <3>1, <3>2, <3>3, <3>5, <3>6
  <2>6. Queued(e, n)' = Queued(e, n) + Cardinality(A) + Cardinality(N)
    BY <2>4, <2>5 DEF Queued
  <2>7. Retrying(e, n)' = Retrying(e, n)
    BY DEF Requeue, Retrying
  <2>8. Cardinality(InHand(e, n)') <= Cardinality(InHand(e, n))
    <3>1. InHand(e, n)' \subseteq InHand(e, n)
      BY DEF InHand, TypeOK
    <3> QED
      BY <3>1, LoadNow, FS_Subset
  <2>9. FanOut(e) * Retrying(e, n) \in Nat
    BY FanOutFacts, LoadNow
  <2> HIDE DEF y
  <2> QED
    BY <2>2, <2>5, <2>6, <2>7, <2>8, <2>9, LoadNow, LoadNext
<1> HIDE DEF y
<1>5. Traffic(e)' + Dead(e) <= Traffic(e) + SumOverRetries(Weighted(e, y)) + Dead(e)'
  BY <1>3, <1>4, LoadsGrow
<1>6. Dead(e)' = Dead(e)
  BY DEF Requeue, Dead
<1>7. /\ SumOverRetries(Weighted(e, y)) \in Nat
      /\ SumOverRetries(Weighted(e, y)) <= Weight(e, 0) * Cardinality(S)
  BY <1>3, WeightedBound
<1>8. Weight(e, 0) * Cardinality(S) \in Nat
  <2>1. \A p, q \in Nat : p * q \in Nat
    OBVIOUS
  <2>2. Weight(e, 0) \in Nat
    BY <1>0, WeightFacts
  <2> QED
    BY <1>1, <2>1, <2>2
<1>9. Traffic(e)' \in Nat /\ Traffic(e) \in Nat /\ Dead(e) \in Nat
  <2>1. (Traffic(e) \in Nat)'
    BY TrafficFacts, PTL
  <2> QED
    BY <2>1, TrafficFacts
<1> QED
  BY <1>5, <1>6, <1>7, <1>8, <1>9

\* What a step accounts for: publications, failures, crashes, broker restarts.
LEMMA AllowedStep ==
  ASSUME TypeOK, TypeOK', NEW e \in Events, published'[e] >= published[e], failures' >= failures,
         crashes' >= crashes, brokerRestarts' >= brokerRestarts
  PROVE  /\ Allowed(e) <= Allowed(e)'
         /\ published'[e] = published[e] + 1 => Allowed(e) + FanOut(e) <= Allowed(e)'
         /\ failures' = failures + 1 => Allowed(e) + 1 <= Allowed(e)'
         /\ crashes' = crashes + 1 => Allowed(e) + 2 * Prefetch <= Allowed(e)'
         /\ brokerRestarts' = brokerRestarts + 1 => Allowed(e) + Cardinality(Slots) <= Allowed(e)'
<1>1. FanOut(e)' = FanOut(e) /\ FanOut(e) \in Nat
  BY FanOutFacts DEF FanOut, Bound
<1>2. Prefetch \in Nat /\ Cardinality(Slots) \in Nat
  BY SizesAssumption, SlotsFinite
<1>3. /\ published[e] \in Nat /\ failures \in Nat /\ crashes \in Nat /\ brokerRestarts \in Nat
      /\ published'[e] \in Nat /\ failures' \in Nat /\ crashes' \in Nat /\ brokerRestarts' \in Nat
  BY DEF TypeOK
<1>4. \A c, p, q \in Nat : /\ c * p \in Nat /\ (q >= p => c * p <= c * q)
                           /\ q = p + 1 => c * q = c * p + c
  <2> SUFFICES ASSUME NEW c \in Nat, NEW p \in Nat, NEW q \in Nat, q >= p
               PROVE  c * p <= c * q
    OBVIOUS
  <2>1. PICK d \in Nat : q = p + d
    <3>1. q - p \in Nat /\ q = p + (q - p)
      OBVIOUS
    <3> QED
      BY <3>1
  <2>2. c * q = c * p + c * d /\ c * d \in Nat /\ c * p \in Nat
    BY <2>1
  <2> QED
    BY <2>2
<1> DEFINE P == FanOut(e) * published[e]
           C == (2 * Prefetch) * crashes
           B == Cardinality(Slots) * brokerRestarts
           P1 == FanOut(e) * published'[e]
           C1 == (2 * Prefetch) * crashes'
           B1 == Cardinality(Slots) * brokerRestarts'
<1>5. P \in Nat /\ C \in Nat /\ B \in Nat /\ P1 \in Nat /\ C1 \in Nat /\ B1 \in Nat
  BY <1>1, <1>2, <1>3, <1>4
<1>6. P <= P1 /\ C <= C1 /\ B <= B1
  BY <1>1, <1>2, <1>3, <1>4
<1>7. /\ published'[e] = published[e] + 1 => P1 = P + FanOut(e)
      /\ crashes' = crashes + 1 => C1 = C + 2 * Prefetch
      /\ brokerRestarts' = brokerRestarts + 1 => B1 = B + Cardinality(Slots)
  BY <1>1, <1>2, <1>3, <1>4
<1>8. Allowed(e) = P + (failures + C + B) /\ Allowed(e)' = P1 + (failures' + C1 + B1)
  BY <1>1 DEF Allowed, Repeats
<1> HIDE DEF P, C, B, P1, C1, B1
<1>a. PICK p \in Nat, p1 \in Nat, f \in Nat, f1 \in Nat :
        p = P /\ p1 = P1 /\ f = failures /\ f1 = failures' /\ p <= p1 /\ f <= f1
  BY <1>3, <1>5, <1>6
<1>b. PICK c \in Nat, c1 \in Nat, b \in Nat, b1 \in Nat :
        c = C /\ c1 = C1 /\ b = B /\ b1 = B1 /\ c <= c1 /\ b <= b1
  BY <1>5, <1>6
<1>c. PICK k \in Nat : k = 2 * Prefetch /\ (crashes' = crashes + 1 => c1 = c + k)
  BY <1>2, <1>7, <1>b
<1>d. Allowed(e) = p + (f + c + b) /\ Allowed(e)' = p1 + (f1 + c1 + b1)
  BY <1>8, <1>a, <1>b
<1>e. /\ p + (f + c + b) <= p1 + (f1 + c1 + b1)
      /\ c1 = c + k => (p + (f + c + b)) + k <= p1 + (f1 + c1 + b1)
  <2>1. p <= p1 /\ f <= f1 /\ c <= c1 /\ b <= b1
    BY <1>a, <1>b
  <2>2. p + (f + c + b) <= p1 + (f1 + c1 + b1)
    BY ONLY <2>1, p \in Nat, p1 \in Nat, f \in Nat, f1 \in Nat, c \in Nat, c1 \in Nat, b \in Nat, b1 \in Nat
  <2>3. c1 = c + k => (p + (f + c + b)) + k <= p1 + (f1 + c1 + b1)
    BY ONLY <2>1, p \in Nat, p1 \in Nat, f \in Nat, f1 \in Nat, c \in Nat, c1 \in Nat,
       b \in Nat, b1 \in Nat, k \in Nat
  <2> QED
    BY ONLY <2>2, <2>3
<1>9. Allowed(e) <= Allowed(e)'
  BY <1>d, <1>e
<1>10. published'[e] = published[e] + 1 => Allowed(e) + FanOut(e) <= Allowed(e)'
  BY <1>1, <1>3, <1>5, <1>6, <1>7, <1>8
<1>11. failures' = failures + 1 => Allowed(e) + 1 <= Allowed(e)'
  BY <1>3, <1>5, <1>6, <1>8
<1>12. crashes' = crashes + 1 => Allowed(e) + 2 * Prefetch <= Allowed(e)'
  BY <1>c, <1>d, <1>e
<1>13. brokerRestarts' = brokerRestarts + 1 => Allowed(e) + Cardinality(Slots) <= Allowed(e)'
  BY <1>2, <1>3, <1>5, <1>6, <1>7, <1>8
<1> QED
  BY <1>9, <1>10, <1>11, <1>12, <1>13

\* The broker forgets a worker's consumers and its deliveries together.
LEMMA CutOffStep ==
  ASSUME TypeOK, CutOff, [Next]_vars
  PROVE  CutOff'
<1>1. ASSUME NEW s \in Slots, Release(s), UNCHANGED consuming
      PROVE  CutOff'
  <2>1. phase'[s] = "free" /\ ~attached'[s]
    BY <1>1 DEF Release, TypeOK
  <2>2. \A t \in Slots : t # s => phase'[t] = phase[t] /\ attached'[t] = attached[t]
    BY <1>1, SlotFreed
  <2> QED
    BY <1>1, <2>1, <2>2 DEF CutOff
<1>2. ASSUME NEW s \in Slots, NEW p \in Phases, Goto(s, p), phase[s] # "free", UNCHANGED consuming
      PROVE  CutOff'
  <2>1. UNCHANGED attached /\ \A t \in Slots : phase'[t] # "free" => phase[t] # "free"
    BY <1>2 DEF Goto, TypeOK
  <2> QED
    BY <1>2, <2>1 DEF CutOff
<1>3. ASSUME NEW w \in Workers, Restarted(w)
      PROVE  CutOff'
  <2> SUFFICES ASSUME NEW t \in Slots
               PROVE  /\ ~consuming'[t[1]] => ~attached'[t]
                      /\ phase'[t] # "free" /\ ~attached'[t] => ~consuming'[t[1]]
    BY DEF CutOff
  <2>0. t[1] \in Workers
    BY SlotFacts
  <2>1. CASE t[1] = w
    BY <1>3, <2>0, <2>1 DEF Restarted, TypeOK
  <2>2. CASE t[1] # w
    <3>1. phase'[t] = phase[t] /\ attached'[t] = attached[t]
      BY <1>3, <2>2, WorkerFreed
    <3>2. consuming'[t[1]] = consuming[t[1]]
      BY <1>3, <2>0, <2>2 DEF Restarted, TypeOK
    <3> QED
      BY <3>1, <3>2 DEF CutOff
  <2> QED
    BY <2>1, <2>2
<1>4. ASSUME NEW s \in Slots, Handle(s) \/ Fault(s)
      PROVE  CutOff'
  <2>1. CASE Deliver(s)
    <3>1. /\ \A t \in Slots : t # s => phase'[t] = phase[t] /\ attached'[t] = attached[t]
          /\ attached'[s] /\ consuming[s[1]] /\ UNCHANGED consuming
      BY <2>1 DEF Deliver, TypeOK
    <3> QED
      BY <3>1 DEF CutOff
  <2>2. CASE Read(s) \/ Write(s) \/ WriteConflict(s) \/ Enqueue(s) \/ HandlerFails(s)
             \/ RetryOrDeadLetter(s)
    <3>1. phase[s] # "free" /\ UNCHANGED consuming /\ \E p \in Phases : Goto(s, p)
      BY <2>2 DEF Read, Write, WriteConflict, Enqueue, HandlerFails, RetryOrDeadLetter, Phases
    <3> QED
      BY <1>2, <3>1
  <2>3. CASE Ack(s) \/ RetryPublishFails(s)
    BY <1>1, <2>3 DEF Ack, RetryPublishFails
  <2>4. CASE ClosedChannel(s)
    BY <1>1, <1>3, <2>4, SlotFacts DEF ClosedChannel
  <2> QED
    BY <1>4, <2>1, <2>2, <2>3, <2>4 DEF Handle, Fault
<1>5. CASE \E w \in Workers : Crash(w)
  BY <1>3, <1>5 DEF Crash
<1>6. CASE BrokerRestarts
  <2>1. \A t \in Slots : ~attached'[t] /\ ~consuming'[t[1]]
    BY <1>6, SlotFacts DEF BrokerRestarts
  <2> QED
    BY <2>1 DEF CutOff
<1>7. CASE (\E e \in Events : Publish(e)) \/ RetryExpires \/ UNCHANGED vars
  <2>1. UNCHANGED <<phase, attached, consuming>>
    BY <1>7 DEF Publish, RetryExpires, vars, slots
  <2> QED
    BY <2>1 DEF CutOff
<1> QED
  BY <1>4, <1>5, <1>6, <1>7 DEF Next

\* Every step keeps the traffic of every event within its bound.
LEMMA TrafficBoundedStep ==
  ASSUME TrafficBounded, CutOff, TypeOK', [Next]_vars
  PROVE  TrafficBounded'
<1>0. TypeOK /\ 0 \in 0..MaxRetries /\ MaxRetries \in Nat
  BY SizesAssumption DEF TrafficBounded
<1> SUFFICES ASSUME NEW e \in Events
             PROVE  Traffic(e)' <= Allowed(e)' * Weight(e, 0)
  BY DEF TrafficBounded, Allowed, Weight, FanOut, Bound
<1>a. published[e] \in Nat /\ failures \in Nat /\ crashes \in Nat /\ brokerRestarts \in Nat
  BY <1>0 DEF TypeOK
<1>b. FanOut(e) \in Nat /\ Prefetch \in Nat
  BY FanOutFacts, SizesAssumption
\* a step that adds nothing
<1>q. ASSUME Traffic(e)' <= Traffic(e) + Weight(e, 0) * 0, published'[e] = published[e],
             failures' >= failures, crashes' = crashes, brokerRestarts' = brokerRestarts
      PROVE  Traffic(e)' <= Allowed(e)' * Weight(e, 0)
  <2>1. Allowed(e) <= Allowed(e)'
    BY <1>0, <1>a, <1>q, AllowedStep
  <2>2. Allowed(e) + 0 = Allowed(e)
    <3>1. Allowed(e) \in Nat
      BY <1>0, AllowedType
    <3> QED
      BY <3>1
  <2> QED
    BY <1>q, <2>1, <2>2, BoundStep
<1>1. ASSUME NEW f \in Events, Publish(f)
      PROVE  Traffic(e)' <= Allowed(e)' * Weight(e, 0)
  <2>1. Traffic(e)' <= Traffic(e) + Weight(e, 0) * (IF e = f THEN FanOut(e) ELSE 0)
    BY <1>0, <1>1, PublishTraffic
  <2>2. /\ published'[e] = IF e = f THEN published[e] + 1 ELSE published[e]
        /\ UNCHANGED <<failures, crashes, brokerRestarts>>
    BY <1>0, <1>1 DEF Publish, TypeOK, history
  <2>3. CASE e = f
    <3>1. Allowed(e) + FanOut(e) <= Allowed(e)'
      BY <1>0, <1>a, <2>2, <2>3, AllowedStep
    <3> QED
      BY <1>b, <2>1, <2>3, <3>1, BoundStep
  <2>4. CASE e # f
    BY <1>a, <1>q, <2>1, <2>2, <2>4
  <2> QED
    BY <2>3, <2>4
<1>2. CASE RetryExpires
  <2>1. UNCHANGED <<published, failures, crashes, brokerRestarts>>
    BY <1>2 DEF RetryExpires, history
  <2> QED
    BY <1>0, <1>2, <1>a, <1>q, <2>1, RetryExpiresTraffic
<1>3. ASSUME NEW s \in Slots, Handle(s) \/ Fault(s)
      PROVE  Traffic(e)' <= Allowed(e)' * Weight(e, 0)
  <2>1. CASE Deliver(s)
    <3>1. UNCHANGED <<published, failures, crashes, brokerRestarts>>
      BY <2>1 DEF Deliver, history
    <3> QED
      BY <1>0, <1>a, <1>q, <2>1, <3>1, DeliverTraffic
  <2>2. CASE Read(s) \/ Write(s) \/ WriteConflict(s) \/ Enqueue(s) \/ HandlerFails(s) \/ Ack(s)
    <3>1. /\ UNCHANGED <<published, ready, retry, dead, crashes, brokerRestarts>>
          /\ failures' = failures \/ failures' = failures + 1
      BY <2>2 DEF Read, Write, WriteConflict, Enqueue, HandlerFails, Ack, broker, history, Failure
    <3>2. phase[s] # "free" /\ (Ack(s) \/ \E p \in Phases : Goto(s, p))
          /\ (Ack(s) \/ phase[s] # "ack")
      BY <2>2 DEF Read, Write, WriteConflict, Enqueue, HandlerFails, Ack, Phases
    <3>3. \A n \in 0..MaxRetries : InHand(e, n)' \subseteq InHand(e, n)
      <4>1. CASE Ack(s)
        <5>1. phase'[s] = "free"
              /\ \A t \in Slots : t # s => /\ phase'[t] = phase[t] /\ event'[t] = event[t]
                                           /\ retries'[t] = retries[t] /\ attached'[t] = attached[t]
          BY <1>0, <4>1, SlotFreed DEF Ack
        <5> QED
          BY <5>1 DEF InHand
      <4>2. CASE ~Ack(s)
        <5>1. PICK p \in Phases : Goto(s, p)
          BY <3>2, <4>2
        <5>2. UNCHANGED <<event, retries, attached>>
              /\ \A t \in Slots : t # s => phase'[t] = phase[t]
          BY <1>0, <5>1, SlotMoves
        <5> QED
          BY <3>2, <4>2, <5>2 DEF InHand
      <4> QED
        BY <4>1, <4>2
    <3>4. Traffic(e)' <= Traffic(e) + Weight(e, 0) * 0
      BY <1>0, <3>1, <3>3, QuietTraffic
    <3> QED
      BY <1>a, <1>q, <3>1, <3>4
  <2>3. CASE RetryOrDeadLetter(s)
    <3>1. UNCHANGED <<published, failures, crashes, brokerRestarts>>
      BY <2>3 DEF RetryOrDeadLetter, Replace, history
    <3> QED
      BY <1>0, <1>a, <1>q, <2>3, <3>1, RetryOrDeadLetterTraffic
  <2>4. CASE RetryPublishFails(s)
    <3>1. UNCHANGED <<published, crashes, brokerRestarts>> /\ failures' = failures + 1
      BY <2>4 DEF RetryPublishFails, Failure
    <3>2. Allowed(e) + 1 <= Allowed(e)'
      BY <1>0, <1>a, <3>1, AllowedStep
    <3>3. Traffic(e)' <= Traffic(e) + Weight(e, 0) * 1
      BY <1>0, <2>4, RetryPublishFailsTraffic
    <3> QED
      BY <3>2, <3>3, BoundStep
  <2>5. CASE ClosedChannel(s)
    <3>1. phase[s] # "free" /\ ~attached[s] /\ UNCHANGED <<failures, crashes, brokerRestarts>>
      BY <2>5 DEF ClosedChannel, history
    <3>2. CASE Release(s) /\ UNCHANGED <<broker, consuming>>
      <4>1. phase'[s] = "free"
            /\ \A t \in Slots : t # s => /\ phase'[t] = phase[t] /\ event'[t] = event[t]
                                         /\ retries'[t] = retries[t] /\ attached'[t] = attached[t]
        BY <1>0, <3>2, SlotFreed
      <4>2. \A n \in 0..MaxRetries : InHand(e, n)' \subseteq InHand(e, n)
        BY <4>1 DEF InHand
      <4>3. UNCHANGED <<published, ready, retry, dead>>
        BY <3>2 DEF broker
      <4>4. Traffic(e)' <= Traffic(e) + Weight(e, 0) * 0
        BY <1>0, <4>2, <4>3, QuietTraffic
      <4> QED
        BY <1>a, <1>q, <3>1, <4>3, <4>4
    <3>3. CASE Requeue({t \in Slots : t[1] = s[1]}) /\ Restarted(s[1])
      <4> DEFINE S == {t \in Slots : t[1] = s[1]}
      <4>0. s[1] \in Workers
        BY <1>0, SlotFacts
      <4>1. \A t \in S : ~attached[t]
        BY <3>1 DEF CutOff
      <4>2. \A m \in Messages : Unacked(S, m) = {}
        BY <4>1 DEF Unacked
      <4>3. ready' = ready /\ UNCHANGED <<published, retry, dead>>
        <5>1. \A m \in Messages : ready[m] \in Nat
          BY <1>0 DEF TypeOK
        <5>2. ready' = [m \in Messages |-> ready[m] + Cardinality(Unacked(S, m))]
              /\ UNCHANGED <<published, retry, dead>>
          BY <3>3 DEF Requeue
        <5>3. ready \in [Messages -> Nat] /\ Cardinality({}) = 0
          BY <1>0, FS_EmptySet DEF TypeOK
        <5> HIDE DEF S, Messages
        <5>4. \A m \in Messages : ready'[m] = ready[m]
          BY <4>2, <5>1, <5>2, <5>3
        <5> QED
          BY <5>2, <5>3, <5>4
      <4>4. \A t \in Slots :
              \/ phase'[t] = "free"
              \/ /\ phase'[t] = phase[t] /\ event'[t] = event[t]
                 /\ retries'[t] = retries[t] /\ attached'[t] = attached[t]
        BY <1>0, <3>3, <4>0, WorkerFreed
      <4>5. \A n \in 0..MaxRetries : InHand(e, n)' \subseteq InHand(e, n)
        BY <4>4 DEF InHand
      <4>6. Traffic(e)' <= Traffic(e) + Weight(e, 0) * 0
        BY <1>0, <4>3, <4>5, QuietTraffic
      <4> QED
        BY <1>a, <1>q, <3>1, <4>3, <4>6
    <3> QED
      BY <2>5, <3>2, <3>3 DEF ClosedChannel
  <2> QED
    BY <1>3, <2>1, <2>2, <2>3, <2>4, <2>5 DEF Handle, Fault
<1>4. ASSUME NEW w \in Workers, Crash(w)
      PROVE  Traffic(e)' <= Allowed(e)' * Weight(e, 0)
  <2> DEFINE S == {s \in Slots : s[1] = w}
  <2>1. \A t \in Slots :
          \/ phase'[t] = "free"
          \/ /\ phase'[t] = phase[t] /\ event'[t] = event[t]
             /\ retries'[t] = retries[t] /\ attached'[t] = attached[t]
    BY <1>0, <1>4, WorkerFreed DEF Crash
  <2>2. S \in SUBSET Slots /\ Requeue(S)
    BY <1>4 DEF Crash
  <2>3. Cardinality(S) \in Nat /\ Cardinality(S) <= 2 * Prefetch
    BY SlotsFinite
  <2>4. UNCHANGED <<published, failures, brokerRestarts>> /\ crashes' = crashes + 1
    BY <1>4 DEF Crash, Requeue
  <2> HIDE DEF S
  <2>5. Traffic(e)' <= Traffic(e) + Weight(e, 0) * Cardinality(S)
    BY <1>0, <2>1, <2>2, RequeueTraffic
  <2>6. Allowed(e) + 2 * Prefetch <= Allowed(e)' /\ Allowed(e) \in Nat /\ Allowed(e)' \in Nat
    <3>1. Allowed(e) + 2 * Prefetch <= Allowed(e)'
      BY <1>0, <1>a, <2>4, AllowedStep
    <3> QED
      BY <1>0, <3>1, AllowedType, AllowedNext
  <2>7. Allowed(e) + Cardinality(S) <= Allowed(e)'
    BY <1>b, <2>3, <2>6
  <2> QED
    BY <2>3, <2>5, <2>7, BoundStep
<1>5. CASE BrokerRestarts
  <2>1. \A t \in Slots : ~attached'[t]
    BY <1>5 DEF BrokerRestarts
  <2>2. Slots \in SUBSET Slots /\ Requeue(Slots)
    BY <1>5 DEF BrokerRestarts
  <2>3. UNCHANGED <<published, failures, crashes>> /\ brokerRestarts' = brokerRestarts + 1
    BY <1>5 DEF BrokerRestarts, Requeue
  <2>4. Traffic(e)' <= Traffic(e) + Weight(e, 0) * Cardinality(Slots)
    BY <1>0, <2>1, <2>2, RequeueTraffic
  <2>5. Allowed(e) + Cardinality(Slots) <= Allowed(e)'
    BY <1>0, <1>a, <2>3, AllowedStep
  <2> QED
    BY <2>4, <2>5, BoundStep, SlotsFinite
<1>6. CASE UNCHANGED vars
  <2>1. UNCHANGED <<published, ready, retry, dead, phase, event, retries, attached>>
        /\ UNCHANGED <<failures, crashes, brokerRestarts>>
    BY <1>6 DEF vars, broker, slots, history
  <2>2. \A n \in 0..MaxRetries : InHand(e, n)' \subseteq InHand(e, n)
    BY <2>1 DEF InHand
  <2>3. Traffic(e)' <= Traffic(e) + Weight(e, 0) * 0
    BY <1>0, <2>1, <2>2, QuietTraffic
  <2> QED
    BY <1>a, <1>q, <2>1, <2>3
<1> QED
  BY <1>1, <1>2, <1>3, <1>4, <1>5, <1>6 DEF Next

\* Nothing is published, and nothing is under way, at first.
LEMMA InitTraffic == Init => TrafficBounded /\ CutOff
<1> SUFFICES ASSUME Init PROVE TrafficBounded /\ CutOff
  OBVIOUS
<1>0. TypeOK /\ 0 \in 0..MaxRetries
  BY InitInv, SizesAssumption DEF Inv
<1>1. CutOff
  BY SlotFacts, <1>0 DEF Init, CutOff
<1>2. ASSUME NEW e \in Events PROVE Traffic(e) <= Allowed(e) * Weight(e, 0)
  <2>1. ASSUME NEW n \in 0..MaxRetries PROVE Load(e, n) = 0
    <3>1. <<"audit", e, n>> \in Messages /\ <<"notification", e, n>> \in Messages
      BY MessageFacts DEF Consumers
    <3>2. Queued(e, n) = 0 /\ Retrying(e, n) = 0
      BY <3>1 DEF Init, Queued, Retrying
    <3>3. InHand(e, n) = {}
      BY DEF Init, InHand
    <3>4. Cardinality(InHand(e, n)) = 0
      BY <3>3, FS_EmptySet
    <3> QED
      BY <1>0, <3>2, <3>4, LoadNow, FanOutFacts
  <2>2. Loads(e) = Single(0, 0)
    BY <2>1 DEF Loads, Single
  <2>3. Weight(e, 0) \in Nat
    BY <1>0, WeightFacts
  <2>4. SumOverRetries(Weighted(e, Loads(e))) = 0
    <3>1. SumOverRetries(Weighted(e, Single(0, 0))) = Weight(e, 0) * 0
      BY <1>0, WeightedSingle
    <3> QED
      BY <2>2, <2>3, <3>1
  <2>5. Dead(e) = 0
    BY DEF Init, Dead, Consumers
  <2>6. Traffic(e) = 0
    BY <1>0, <2>4, <2>5, TrafficFacts
  <2>7. Allowed(e) * Weight(e, 0) \in Nat
    <3>1. \A p, q \in Nat : p * q \in Nat
      OBVIOUS
    <3> QED
      BY <1>0, <2>3, <3>1, AllowedType
  <2> QED
    BY <2>6, <2>7
<1> QED
  BY <1>0, <1>1, <1>2 DEF TrafficBounded, Allowed

\* Although both consumers share the retry exchange, so that one failure
\* multiplies messages (rabbit-topology.ts), a publication or a repeated delivery
\* of e makes at most Weight(e, 0) dead letters per consumer bound to it.
THEOREM RetriesBounded == Spec => []TrafficBounded
<1>1. Inv /\ TrafficBounded /\ CutOff /\ [Next]_vars => TrafficBounded' /\ CutOff'
  <2> SUFFICES ASSUME Inv, TrafficBounded, CutOff, [Next]_vars
               PROVE  TrafficBounded' /\ CutOff'
    OBVIOUS
  <2>1. TypeOK /\ TypeOK'
    BY InvStep DEF Inv
  <2> QED
    BY <2>1, TrafficBoundedStep, CutOffStep
<1> QED
  BY <1>1, InitTraffic, InitInv, InvStep, PTL DEF Spec
=============================================================================
