------------------------------- MODULE Outbox -------------------------------
(***************************************************************************)
(* The transactional outbox: rows of outbox_events, written by business    *)
(* transactions, and the publisher instances that lease them in batches,   *)
(* publish them to RabbitMQ with a confirm and mark them published         *)
(* (queue/outbox-publisher.service.ts, queue/rabbit-publisher.service.ts). *)
(*                                                                         *)
(* An event is the number of its row in created_at order; transactions     *)
(* commit in any order.  Time is abstracted to the two comparisons the     *)
(* lease statement makes: leaseFresh (locked_at within 30 seconds) and due *)
(* (next_attempt_at reached).  Each database statement is one step.        *)
(***************************************************************************)
EXTENDS Naturals, FiniteSets

CONSTANTS Events,        \* outbox rows, numbered in created_at order
          Instances,     \* publisher processes (API replicas)
          NULL,          \* SQL NULL, and "no record in hand"
          BatchLimit,    \* LIMIT of the lease statement (25 in the code)
          MaxFaults,     \* bound: failed broker or database calls, restarts
          MaxOverruns    \* bound: leases that expire under a working owner

ASSUME EventsAssumption == Events \subseteq Nat /\ IsFiniteSet(Events)
ASSUME InstancesAssumption == IsFiniteSet(Instances)
ASSUME BatchLimitAssumption == BatchLimit \in Nat \ {0}
ASSUME BoundsAssumption == /\ MaxFaults \in Nat
                           /\ MaxOverruns \in Nat
ASSUME NullAssumption == NULL \notin Events /\ NULL \notin Instances \X Nat

VARIABLES
  \* the table outbox_events
  committed,    \* rows visible to other transactions
  publishedAt,  \* [row -> is published_at set]
  lockedBy,     \* [row -> instance id or NULL]
  leaseFresh,   \* [row -> is locked_at set and at most 30 seconds old]
  due,          \* [row -> next_attempt_at <= NOW()]
  attempts,     \* [row -> attempts]
  \* each publisher process
  incarnation,  \* [process -> number of restarts]; stands for the uuid
  phase,        \* [process -> where publishBatch is]
  batch,        \* [process -> leased records publishOne has not finished]
  current,      \* [process -> the record publishOne works on, or NULL]
  \* the broker
  copies,       \* [row -> messages the broker durably accepted for it]
  \* history of what went wrong, for the bounds and for the properties
  faults,       \* failed calls so far
  overruns,     \* leases that expired while their owner was working
  expired       \* [row -> leases on it that expired]

table   == <<committed, publishedAt, lockedBy, leaseFresh, due, attempts>>
process == <<incarnation, phase, batch, current>>
history == <<faults, overruns, expired>>
vars    == <<table, process, copies, history>>

Phases == {"idle", "batch", "mark", "defer", "hung"}
Ids == Instances \X Nat

TypeOK ==
  /\ committed \subseteq Events
  /\ publishedAt \in [Events -> BOOLEAN]
  /\ lockedBy \in [Events -> Ids \cup {NULL}]
  /\ leaseFresh \in [Events -> BOOLEAN]
  /\ due \in [Events -> BOOLEAN]
  /\ attempts \in [Events -> Nat]
  /\ incarnation \in [Instances -> Nat]
  /\ phase \in [Instances -> Phases]
  /\ batch \in [Instances -> SUBSET Events]
  /\ current \in [Instances -> Events \cup {NULL}]
  /\ copies \in [Events -> Nat]
  /\ faults \in Nat /\ overruns \in Nat
  /\ expired \in [Events -> Nat]

Init ==
  /\ committed = {}
  /\ publishedAt = [e \in Events |-> FALSE]
  /\ lockedBy = [e \in Events |-> NULL]
  /\ leaseFresh = [e \in Events |-> FALSE]
  /\ due = [e \in Events |-> TRUE]
  /\ attempts = [e \in Events |-> 0]
  /\ incarnation = [i \in Instances |-> 0]
  /\ phase = [i \in Instances |-> "idle"]
  /\ batch = [i \in Instances |-> {}]
  /\ current = [i \in Instances |-> NULL]
  /\ copies = [e \in Events |-> 0]
  /\ faults = 0 /\ overruns = 0
  /\ expired = [e \in Events |-> 0]

-----------------------------------------------------------------------------
(* Helpers *)

\* `${process.pid}-${randomUUID()}`: new for every process that starts.
InstanceId(i) == <<i, incarnation[i]>>

\* The update matches whoever holds the row.
AnyHolder(i, e) == TRUE

\* WHERE id = e AND locked_by = instanceId, of both updates of publishOne.
Holds(i, e) == lockedBy[e] = InstanceId(i)

\* A lease statement that never takes over an expired lease.
OnlyUnlocked(e) == /\ e \in committed
                   /\ ~publishedAt[e] /\ due[e]
                   /\ lockedBy[e] = NULL

\* A lease statement that ignores leases.
LeaseIgnored(e) == e \in committed /\ ~publishedAt[e] /\ due[e]

\* The WHERE clause of the lease statement.
Eligible(e) == /\ e \in committed
               /\ ~publishedAt[e] /\ due[e]
               /\ lockedBy[e] = NULL \/ ~leaseFresh[e]

\* Rows that an update of another process may hold locked: SKIP LOCKED
\* passes over them.
RowLocked(i) == {current[j] : j \in {k \in Instances \ {i} :
                                       phase[k] \in {"mark", "defer"}}}

\* ORDER BY created_at LIMIT BatchLimit of the rows in S.
IsOldest(T, S) == /\ T \subseteq S
                  /\ Cardinality(T) <= BatchLimit
                  /\ T = S \/ Cardinality(T) = BatchLimit
                  /\ \A a \in T, b \in S \ T : a < b

\* Row e is being worked on by the process that holds it.
Working(e) == \E i \in Instances : Holds(i, e) /\ e \in batch[i] /\ phase[i] # "hung"

Fault == faults < MaxFaults /\ faults' = faults + 1

\* Process i is done with its current record; the loop goes on with the
\* rest of the batch or ends (running = false).
NextRecord(i) ==
  LET rest == batch[i] \ {current[i]} IN
  /\ batch' = [batch EXCEPT ![i] = rest]
  /\ phase' = [phase EXCEPT ![i] = IF rest = {} THEN "idle" ELSE "batch"]
  /\ current' = [current EXCEPT ![i] = NULL]

-----------------------------------------------------------------------------
(* Business transactions *)

\* A transaction that inserted row e commits.
Commit(e) ==
  /\ e \notin committed
  /\ committed' = committed \cup {e}
  /\ UNCHANGED <<publishedAt, lockedBy, leaseFresh, due, attempts,
                 process, copies, history>>

-----------------------------------------------------------------------------
(* The publisher *)

SetLeases(i, T) ==
  /\ lockedBy' = [e \in Events |-> IF e \in T THEN InstanceId(i) ELSE lockedBy[e]]
  /\ leaseFresh' = [e \in Events |-> leaseFresh[e] \/ e \in T]
  /\ UNCHANGED <<committed, publishedAt, due, attempts>>

\* publishBatch: running becomes true and the lease statement returns rows.
\* (When it returns none, running is reset and nothing has changed.)
Lease(i) ==
  /\ phase[i] = "idle"
  /\ \E skipped \in SUBSET RowLocked(i) :
     \E T \in SUBSET {e \in Events : Eligible(e)} :
       /\ T # {}
       /\ IsOldest(T, {e \in Events : Eligible(e)} \ skipped)
       /\ SetLeases(i, T)
       /\ batch' = [batch EXCEPT ![i] = T]
       /\ phase' = [phase EXCEPT ![i] = "batch"]
  /\ UNCHANGED <<incarnation, current, copies, history>>

\* The lease statement commits but its answer is lost: publishBatch logs the
\* error and the rows stay leased to a process that does not know it.
LeaseLost(i) ==
  /\ phase[i] = "idle"
  /\ Fault
  /\ \E T \in SUBSET {e \in Events : Eligible(e)} :
       /\ T # {}
       /\ IsOldest(T, {e \in Events : Eligible(e)})
       /\ SetLeases(i, T)
  /\ UNCHANGED <<process, copies, overruns, expired>>

\* publishOne with no wait for the confirm: the message may be lost.
PublishUnconfirmed(i) ==
  /\ phase[i] = "batch"
  /\ \E e \in batch[i] :
       /\ current' = [current EXCEPT ![i] = e]
       /\ \/ copies' = [copies EXCEPT ![e] = @ + 1]
          \/ copies' = copies
       /\ phase' = [phase EXCEPT ![i] = "mark"]
  /\ UNCHANGED <<table, incarnation, batch, history>>

\* publishOne: the broker confirms the next record of the batch.
PublishConfirmed(i) ==
  /\ phase[i] = "batch"
  /\ \E e \in batch[i] :
       /\ current' = [current EXCEPT ![i] = e]
       /\ copies' = [copies EXCEPT ![e] = @ + 1]
       /\ phase' = [phase EXCEPT ![i] = "mark"]
  /\ UNCHANGED <<table, incarnation, batch, history>>

\* The next record gets no confirm and the process goes on in phase p.  The
\* broker may hold the message all the same.
PublishUnanswered(i, p) ==
  /\ phase[i] = "batch"
  /\ Fault
  /\ \E e \in batch[i] :
       /\ current' = [current EXCEPT ![i] = e]
       /\ \/ copies' = [copies EXCEPT ![e] = @ + 1]
          \/ copies' = copies
       /\ phase' = [phase EXCEPT ![i] = p]
  /\ UNCHANGED <<table, incarnation, batch, overruns, expired>>

\* publishOne: connecting, publishing or the confirm fails.
PublishFails(i) == PublishUnanswered(i, "defer")

\* waitForConfirms never settles: running stays set until the process dies.
PublishHangs(i) == PublishUnanswered(i, "hung")

\* The update forgets to clear the lease.
KeepsLease(i, e) ==
  /\ publishedAt' = IF Holds(i, e) THEN [publishedAt EXCEPT ![e] = TRUE]
                                  ELSE publishedAt
  /\ UNCHANGED <<committed, lockedBy, leaseFresh, due, attempts>>

\* The update that sets published_at and clears the lease.
SetPublished(i, e) ==
  /\ IF Holds(i, e)
       THEN /\ publishedAt' = [publishedAt EXCEPT ![e] = TRUE]
            /\ lockedBy' = [lockedBy EXCEPT ![e] = NULL]
            /\ leaseFresh' = [leaseFresh EXCEPT ![e] = FALSE]
       ELSE UNCHANGED <<publishedAt, lockedBy, leaseFresh>>
  /\ UNCHANGED <<committed, due, attempts>>

MarkPublished(i) ==
  /\ phase[i] = "mark"
  /\ SetPublished(i, current[i])
  /\ NextRecord(i)
  /\ UNCHANGED <<incarnation, copies, history>>

\* The update fails, before or after the database applied it; publishOne's
\* catch block then defers a record the broker already holds.
MarkFails(i) ==
  /\ phase[i] = "mark"
  /\ Fault
  /\ SetPublished(i, current[i]) \/ UNCHANGED table
  /\ phase' = [phase EXCEPT ![i] = "defer"]
  /\ UNCHANGED <<incarnation, batch, current, copies, overruns, expired>>

\* The catch block forgets to count the attempt.
DeferUncounted(i, e) ==
  /\ IF Holds(i, e)
       THEN /\ due' = [due EXCEPT ![e] = FALSE]
            /\ lockedBy' = [lockedBy EXCEPT ![e] = NULL]
            /\ leaseFresh' = [leaseFresh EXCEPT ![e] = FALSE]
       ELSE UNCHANGED <<due, lockedBy, leaseFresh>>
  /\ UNCHANGED <<committed, publishedAt, attempts>>

\* The update of the catch block: back off and clear the lease.
SetDeferred(i, e) ==
  /\ IF Holds(i, e)
       THEN /\ attempts' = [attempts EXCEPT ![e] = @ + 1]
            /\ due' = [due EXCEPT ![e] = FALSE]
            /\ lockedBy' = [lockedBy EXCEPT ![e] = NULL]
            /\ leaseFresh' = [leaseFresh EXCEPT ![e] = FALSE]
       ELSE UNCHANGED <<attempts, due, lockedBy, leaseFresh>>
  /\ UNCHANGED <<committed, publishedAt>>

Defer(i) ==
  /\ phase[i] = "defer"
  /\ SetDeferred(i, current[i])
  /\ NextRecord(i)
  /\ UNCHANGED <<incarnation, copies, history>>

\* The catch block itself fails: publishBatch gives up the whole batch and
\* the leases on the rest of it stay behind.
DeferFails(i) ==
  /\ phase[i] = "defer"
  /\ Fault
  /\ SetDeferred(i, current[i]) \/ UNCHANGED table
  /\ batch' = [batch EXCEPT ![i] = {}]
  /\ phase' = [phase EXCEPT ![i] = "idle"]
  /\ current' = [current EXCEPT ![i] = NULL]
  /\ UNCHANGED <<incarnation, copies, overruns, expired>>

\* The process dies and its supervisor starts a new one.
Restart(i) ==
  /\ Fault
  /\ incarnation' = [incarnation EXCEPT ![i] = @ + 1]
  /\ phase' = [phase EXCEPT ![i] = "idle"]
  /\ batch' = [batch EXCEPT ![i] = {}]
  /\ current' = [current EXCEPT ![i] = NULL]
  /\ UNCHANGED <<table, copies, overruns, expired>>

-----------------------------------------------------------------------------
(* The passage of time *)

\* 30 seconds have passed since row e was leased.
LeaseExpires(e) ==
  /\ leaseFresh[e]
  /\ leaseFresh' = [leaseFresh EXCEPT ![e] = FALSE]
  /\ expired' = [expired EXCEPT ![e] = @ + 1]
  /\ UNCHANGED <<committed, publishedAt, lockedBy, due, attempts,
                 process, copies, faults>>

\* ... and nobody works on it any more.
AbandonedLeaseExpires(e) == /\ ~Working(e)
                            /\ LeaseExpires(e)
                            /\ UNCHANGED overruns

\* ... while the batch that holds it is still being published.
LeaseOverruns(e) == /\ Working(e)
                    /\ overruns < MaxOverruns
                    /\ LeaseExpires(e)
                    /\ overruns' = overruns + 1

\* The backoff of row e is over.
BackoffElapses(e) ==
  /\ ~due[e]
  /\ due' = [due EXCEPT ![e] = TRUE]
  /\ UNCHANGED <<committed, publishedAt, lockedBy, leaseFresh, attempts,
                 process, copies, history>>

-----------------------------------------------------------------------------
Step(i) == Lease(i) \/ PublishConfirmed(i) \/ MarkPublished(i) \/ Defer(i)

Failure(i) == \/ LeaseLost(i) \/ PublishFails(i) \/ PublishHangs(i)
              \/ MarkFails(i) \/ DeferFails(i)

Time(e) == AbandonedLeaseExpires(e) \/ LeaseOverruns(e) \/ BackoffElapses(e)

Next == \/ \E e \in Events : Commit(e) \/ Time(e)
        \/ \E i \in Instances : Step(i) \/ Failure(i) \/ Restart(i)

Spec == Init /\ [][Next]_vars

(***************************************************************************)
(* Fairness: @Interval(1000) keeps calling publishBatch and awaited calls  *)
(* end (Step), but for a confirm that never comes; clocks advance.         *)
(* Failures, restarts and overruns are never forced; they are bounded, so  *)
(* an outage ends.                                                         *)
(***************************************************************************)
Fairness == /\ \A i \in Instances : WF_vars(Step(i))
            /\ \A e \in Events : /\ WF_vars(AbandonedLeaseExpires(e))
                                 /\ WF_vars(BackoffElapses(e))

FairSpec == Spec /\ Fairness
-----------------------------------------------------------------------------
(* Properties *)

\* No event is lost between the table and the broker: published_at is set
\* only on rows whose message the broker has confirmed, whatever replicas,
\* restarts, lost answers and expired leases do in between.
MarkedMeansAccepted == \A e \in Events : publishedAt[e] => copies[e] > 0

\* Every message beyond the first for one row is paid for by a recorded
\* attempt of that row or by an expired lease on it: with no failure and no
\* expiry an event is published exactly once, however many replicas poll.
DuplicatesExplained ==
  \A e \in Events : copies[e] <= 1 + attempts[e] + expired[e]

\* Two replicas never work on one row under fresh leases: a row whose lease
\* is fresh is in the batch of at most the process that holds it, unless an
\* earlier lease on it expired.
ExclusiveLease ==
  \A e \in Events : \A i, j \in Instances :
    /\ e \in batch[i] /\ e \in batch[j] /\ expired[e] = 0
    => i = j

\* A published row is final: no late update of a process that lost its
\* lease, or that retries after a lost answer, un-publishes it, changes its
\* attempts or leases it again.
PublishedIsFinal ==
  [][\A e \in Events : publishedAt[e] =>
       /\ publishedAt'[e]
       /\ attempts'[e] = attempts[e]
       /\ lockedBy'[e] = lockedBy[e]]_vars

\* A fresh lease is only given up by the process it was granted to: neither
\* update of publishOne clears or replaces the lease another one holds.
FreshLeaseRespected ==
  [][\A e \in Events :
       leaseFresh[e] /\ lockedBy'[e] # lockedBy[e] =>
         \E i \in Instances :
           /\ lockedBy[e] = <<i, incarnation[i]>>
           /\ current[i] = e
           /\ <<phase'[i], current'[i]>> # <<phase[i], current[i]>>]_vars

\* Once failures stop, every committed event is published and marked, also
\* after its publisher crashed, gave up its batch or waits for ever for a
\* confirm: the lease runs out and a replica that does not hang takes over.
EventuallyPublished ==
  \A e \in Events :
    (e \in committed) ~> publishedAt[e] \/ \A i \in Instances : phase[i] = "hung"

Promise == INSTANCE ReliableOutbox
             WITH accepted <- {e \in Events : copies[e] > 0},
                  settled <- {e \in Events : publishedAt[e]}

\* The publisher implements the outbox's promise.
ImplementsPromise == Promise!Spec
=============================================================================
