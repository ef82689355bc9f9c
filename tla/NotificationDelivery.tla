------------------------ MODULE NotificationDelivery ------------------------
(***************************************************************************)
(* Delivery of notifications: rows of notification_deliveries, BullMQ jobs *)
(* whose id is the delivery id, the job processor and the periodic         *)
(* recovery of pending rows (notifications/notification-queue.service.ts,  *)
(* notifications/notifications.repository.ts).                             *)
(*                                                                         *)
(* A delivery is the number of its row in createdAt order.  A runner is    *)
(* one of the concurrent executions of a BullMQ worker.  BullMQ itself is  *)
(* modelled as the code uses it: a job id that exists, in any state, makes *)
(* add a no-op; a failed attempt is delayed and retried up to the job's    *)
(* attempts; a job whose lock is lost is handed out again once.            *)
(***************************************************************************)
EXTENDS Naturals, FiniteSets

CONSTANTS Deliveries,     \* notification rows, numbered in createdAt order
          Runners,        \* executions of the BullMQ workers
          NULL,
          ClaimLimit,     \* attempts < 5 of findPending and deliver
          JobAttempts,    \* attempts: 5 of the job
          RecoverLimit,   \* findPending(100)
          KeepJobs,       \* removeOnComplete / removeOnFail
          MaxFaults,      \* bound: failing database or Redis calls
          MaxStalls       \* bound: executions that die or lose their lock

ASSUME DeliveriesAssumption == Deliveries \subseteq Nat /\ IsFiniteSet(Deliveries)
ASSUME RunnersAssumption == IsFiniteSet(Runners)
ASSUME LimitsAssumption == /\ ClaimLimit \in Nat /\ JobAttempts \in Nat \ {0}
                           /\ RecoverLimit \in Nat \ {0} /\ KeepJobs \in Nat
ASSUME BoundsAssumption == MaxFaults \in Nat /\ MaxStalls \in Nat

VARIABLES
  status,     \* [delivery -> DeliveryStatus, or NULL before it is persisted]
  attempts,   \* [delivery -> attempts]
  job,        \* [delivery -> state of the job with its id, or NULL]
  made,       \* [delivery -> failed attempts of that job]
  stalled,    \* [delivery -> times that job was found stalled]
  holder,     \* [delivery -> runner that holds the job's lock, or NULL]
  phase,      \* [runner -> where process() is]
  work,       \* [runner -> the delivery of its job, or NULL]
  scan,       \* deliveries recoverPending has read and not enqueued yet
  faults, crashes, lockLosses

table == <<status, attempts>>
jobs  == <<job, made, stalled, holder>>
runs  == <<phase, work>>
ills  == <<faults, crashes, lockLosses>>
vars  == <<table, jobs, runs, scan, ills>>

Statuses == {"PENDING", "PROCESSING", "DELIVERED", "FAILED"}
JobStates == {"waiting", "active", "delayed", "completed", "failed"}
Phases == {"idle", "claim", "record", "fail"}

ASSUME NullAssumption == NULL \notin Deliveries \cup Runners /\ NULL \notin Statuses \cup JobStates

TypeOK ==
  /\ status \in [Deliveries -> Statuses \cup {NULL}]
  /\ attempts \in [Deliveries -> 0..ClaimLimit]
  /\ job \in [Deliveries -> JobStates \cup {NULL}]
  /\ made \in [Deliveries -> 0..JobAttempts]
  /\ stalled \in [Deliveries -> Nat]
  /\ holder \in [Deliveries -> Runners \cup {NULL}]
  /\ phase \in [Runners -> Phases]
  /\ work \in [Runners -> Deliveries \cup {NULL}]
  /\ scan \subseteq Deliveries
  /\ faults \in Nat /\ crashes \in Nat /\ lockLosses \in Nat

Init ==
  /\ status = [d \in Deliveries |-> NULL]
  /\ attempts = [d \in Deliveries |-> 0]
  /\ job = [d \in Deliveries |-> NULL]
  /\ made = [d \in Deliveries |-> 0]
  /\ stalled = [d \in Deliveries |-> 0]
  /\ holder = [d \in Deliveries |-> NULL]
  /\ phase = [r \in Runners |-> "idle"]
  /\ work = [r \in Runners |-> NULL]
  /\ scan = {}
  /\ faults = 0 /\ crashes = 0 /\ lockLosses = 0

Fault == /\ faults < MaxFaults /\ faults' = faults + 1
         /\ UNCHANGED <<crashes, lockLosses>>

-----------------------------------------------------------------------------
(* Persisting and enqueueing *)

\* The notification consumer commits delivery d.
Persist(d) ==
  /\ status[d] = NULL
  /\ status' = [status EXCEPT ![d] = "PENDING"]
  /\ UNCHANGED <<attempts, jobs, runs, scan, ills>>

\* queue.add with jobId = d: nothing happens when the id is taken.
Add(d) ==
  /\ job' = [job EXCEPT ![d] = IF @ = NULL THEN "waiting" ELSE @]
  /\ UNCHANGED <<made, stalled, holder>>

\* The notification consumer enqueues d, after its commit or on a redelivery.
Enqueue(d) ==
  /\ status[d] # NULL
  /\ Add(d)
  /\ UNCHANGED <<table, runs, scan, ills>>

\* A scan of failed rows only.
OnlyFailed(d) == status[d] = "FAILED" /\ attempts[d] < ClaimLimit

\* The WHERE clause of findPending.
Pending(d) == status[d] \in {"PENDING", "FAILED"} /\ attempts[d] < ClaimLimit

\* ORDER BY createdAt LIMIT RecoverLimit.
IsOldest(T, S) == /\ T \subseteq S
                  /\ Cardinality(T) <= RecoverLimit
                  /\ T = S \/ Cardinality(T) = RecoverLimit
                  /\ \A a \in T, b \in S \ T : a < b

\* recoverPending reads the pending rows ...
Scan ==
  /\ scan = {}
  /\ \E T \in SUBSET Deliveries :
       /\ T # {}
       /\ IsOldest(T, {d \in Deliveries : Pending(d)})
       /\ scan' = T
  /\ UNCHANGED <<table, jobs, runs, ills>>

\* ... and enqueues them one by one, oldest first.
EnqueueScanned ==
  \E d \in scan :
    /\ \A x \in scan : d <= x
    /\ Add(d)
    /\ scan' = scan \ {d}
    /\ UNCHANGED <<table, runs, ills>>

\* Redis fails: recoverPending throws and the rest of the scan is dropped.
ScanFails ==
  /\ scan # {}
  /\ Fault
  /\ scan' = {}
  /\ UNCHANGED <<table, jobs, runs>>

-----------------------------------------------------------------------------
(* process(job) *)

Start(r) ==
  /\ phase[r] = "idle"
  /\ \E d \in Deliveries :
       /\ job[d] = "waiting"
       /\ job' = [job EXCEPT ![d] = "active"]
       /\ holder' = [holder EXCEPT ![d] = r]
       /\ work' = [work EXCEPT ![r] = d]
  /\ phase' = [phase EXCEPT ![r] = "claim"]
  /\ UNCHANGED <<table, made, stalled, scan, ills>>

\* The runner reports the outcome; BullMQ ignores it without the job's lock.
Report(r, ok) ==
  LET d == work[r]
      failedAttempts == IF ok THEN made[d] ELSE made[d] + 1
  IN
  /\ IF holder[d] = r
       THEN /\ job' = [job EXCEPT ![d] = IF ok THEN "completed"
                                         ELSE IF failedAttempts < JobAttempts
                                           THEN "delayed" ELSE "failed"]
            /\ made' = [made EXCEPT ![d] = failedAttempts]
            /\ holder' = [holder EXCEPT ![d] = NULL]
       ELSE UNCHANGED <<job, made, holder>>
  /\ phase' = [phase EXCEPT ![r] = "idle"]
  /\ work' = [work EXCEPT ![r] = NULL]
  /\ UNCHANGED stalled

Goto(r, p) == phase' = [phase EXCEPT ![r] = p] /\ UNCHANGED work

\* A claim that also takes over deliveries in progress.
ClaimsInProgress(d) ==
  status[d] \in {"PENDING", "FAILED", "PROCESSING"} /\ attempts[d] < ClaimLimit

\* The WHERE clause of the claim.
Claimable(d) == status[d] \in {"PENDING", "FAILED"} /\ attempts[d] < ClaimLimit

SetClaimed(d) ==
  /\ status' = [status EXCEPT ![d] = "PROCESSING"]
  /\ attempts' = [attempts EXCEPT ![d] = @ + 1]

\* deliver: the claim updates one row, or none and deliver returns.
Claim(r) ==
  /\ phase[r] = "claim"
  /\ \/ Claimable(work[r]) /\ SetClaimed(work[r]) /\ Goto(r, "record") /\ UNCHANGED jobs
     \/ ~Claimable(work[r]) /\ UNCHANGED table /\ Report(r, TRUE)
  /\ UNCHANGED <<scan, ills>>

SetDelivered(d) ==
  status' = [status EXCEPT ![d] = "DELIVERED"] /\ UNCHANGED attempts

\* deliver: the delivery is recorded and the job completes.
Record(r) ==
  /\ phase[r] = "record"
  /\ SetDelivered(work[r])
  /\ Report(r, TRUE)
  /\ UNCHANGED <<scan, ills>>

\* A statement of deliver fails, before or after the database applied it.
DeliverFails(r) ==
  /\ phase[r] \in {"claim", "record"}
  /\ Fault
  /\ \/ UNCHANGED table
     \/ phase[r] = "claim" /\ Claimable(work[r]) /\ SetClaimed(work[r])
     \/ phase[r] = "record" /\ SetDelivered(work[r])
  /\ Goto(r, "fail")
  /\ UNCHANGED <<jobs, scan>>

\* markFailed by id alone.
FailsAnyStatus(d) == status' = [status EXCEPT ![d] = "FAILED"] /\ UNCHANGED attempts

\* An update of markFailed that matches no row.
FailsNothing(d) == UNCHANGED <<status, attempts>>

\* The update of markFailed: only a row in PROCESSING matches.
SetFailed(d) ==
  /\ status' = [status EXCEPT ![d] = IF @ = "PROCESSING" THEN "FAILED" ELSE @]
  /\ UNCHANGED attempts

\* process: the catch block marks the row and rethrows.
MarkFailed(r) ==
  /\ phase[r] = "fail"
  /\ SetFailed(work[r])
  /\ Report(r, FALSE)
  /\ UNCHANGED <<scan, ills>>

\* markFailed itself fails; the job attempt fails with its error.
MarkFailedFails(r) ==
  /\ phase[r] = "fail"
  /\ Fault
  /\ UNCHANGED table
  /\ Report(r, FALSE)
  /\ UNCHANGED scan

-----------------------------------------------------------------------------
(* BullMQ *)

BackoffElapses(d) ==
  /\ job[d] = "delayed"
  /\ job' = [job EXCEPT ![d] = "waiting"]
  /\ UNCHANGED <<table, made, stalled, holder, runs, scan, ills>>

\* An execution dies; its job stays active under a lock nobody renews.
Crash(r) ==
  /\ phase[r] # "idle"
  /\ crashes + lockLosses < MaxStalls /\ crashes' = crashes + 1
  /\ phase' = [phase EXCEPT ![r] = "idle"]
  /\ work' = [work EXCEPT ![r] = NULL]
  /\ UNCHANGED <<table, jobs, scan, faults, lockLosses>>

\* The stalled check finds an active job without a lock.
Stall(d) ==
  /\ job[d] = "active"
  /\ job' = [job EXCEPT ![d] = IF stalled[d] = 0 THEN "waiting" ELSE "failed"]
  /\ stalled' = [stalled EXCEPT ![d] = @ + 1]
  /\ holder' = [holder EXCEPT ![d] = NULL]
  /\ UNCHANGED <<table, made, runs, scan, faults, crashes>>

Running(d) == \E r \in Runners : holder[d] = r /\ work[r] = d

\* ... because its execution died, ...
Stalled(d) == ~Running(d) /\ Stall(d) /\ UNCHANGED lockLosses

\* ... or did not renew the lock in time and goes on without it.
LockLost(d) == /\ Running(d) /\ Stall(d)
               /\ crashes + lockLosses < MaxStalls /\ lockLosses' = lockLosses + 1

\* A finished job beyond the number that is kept is removed.
Evict(d) ==
  /\ job[d] \in {"completed", "failed"}
  /\ Cardinality({x \in Deliveries : job[x] = job[d]}) > KeepJobs
  /\ job' = [job EXCEPT ![d] = NULL]
  /\ made' = [made EXCEPT ![d] = 0]
  /\ stalled' = [stalled EXCEPT ![d] = 0]
  /\ UNCHANGED <<table, holder, runs, scan, ills>>

-----------------------------------------------------------------------------
Process(r) == Start(r) \/ Claim(r) \/ Record(r) \/ MarkFailed(r)

Next ==
  \/ \E d \in Deliveries : \/ Persist(d) \/ Enqueue(d) \/ BackoffElapses(d)
                           \/ Stalled(d) \/ LockLost(d) \/ Evict(d)
  \/ Scan \/ EnqueueScanned \/ ScanFails
  \/ \E r \in Runners : Process(r) \/ DeliverFails(r) \/ MarkFailedFails(r) \/ Crash(r)

Spec == Init /\ [][Next]_vars

(***************************************************************************)
(* Fairness: recoverPending runs every 30 seconds, BullMQ hands out jobs,  *)
(* ends their delays and finds stalled ones, and awaited calls end.  The   *)
(* consumer's own enqueue is not fair: it may be lost with its process.    *)
(***************************************************************************)
Fairness ==
  /\ WF_vars(Scan) /\ WF_vars(EnqueueScanned)
  /\ \A r \in Runners : WF_vars(Process(r))
  /\ \A d \in Deliveries : WF_vars(BackoffElapses(d)) /\ WF_vars(Stalled(d))

FairSpec == Spec /\ Fairness
-----------------------------------------------------------------------------
(* Properties *)

\* DELIVERED is final: no late markFailed, stale claim or rerun of a job
\* changes a delivered row.
DeliveredIsFinal ==
  [][\A d \in Deliveries : status[d] = "DELIVERED" =>
       status'[d] = "DELIVERED" /\ attempts'[d] = attempts[d]]_vars

\* The job's lock or the claim is enough: as long as not both an execution
\* lost its lock and a call failed, ...
Protected == lockLosses = 0 \/ faults = 0

\* ... a delivery is recorded by at most one execution at a time, through
\* reruns of stalled jobs and repeated enqueueing, and the unconditional update
\* to DELIVERED hits a row that is still in PROCESSING for it.  And types.
OneDeliverer ==
  /\ TypeOK
  /\ Protected =>
       \A r1 \in Runners : phase[r1] = "record" =>
         /\ status[work[r1]] = "PROCESSING"
         /\ \A r2 \in Runners : phase[r2] = "record" /\ work[r1] = work[r2] => r1 = r2

\* Rows left in PROCESSING by an execution that is gone: the claim and the
\* recovery scan both pass over them.
Orphans ==
  {d \in Deliveries : status[d] = "PROCESSING"} \
    {work[r] : r \in {x \in Runners : phase[x] \in {"record", "fail"}}}

\* A row is orphaned only by a process that died over it, or when deliver and
\* then markFailed failed: every other failure gives the claim back.
OrphansExplained == Cardinality(Orphans) <= crashes + faults \div 2

\* "pending notification records are recovered": a row in PENDING or FAILED
\* with attempts left does not stay so for ever.
PendingIsRecovered == \A d \in Deliveries : Claimable(d) ~> ~Claimable(d)

\* The id of d is taken by a finished job that is still kept, so that adding
\* it again does nothing, ...
Kept(d) == job[d] \in {"completed", "failed"}

\* ... or such rows, all older than d, fill the LIMIT of every scan.
Crowded(d) ==
  Cardinality({x \in Deliveries : x < d /\ Claimable(x) /\ Kept(x)}) >= RecoverLimit

\* Recovery fails for no other reason: even when the consumer's enqueue was
\* lost, calls failed or an execution lost its lock, a pending row is settled
\* unless its own finished job is kept or such rows fill every scan.
RecoveredUnlessKept ==
  \A d \in Deliveries : Claimable(d) ~> ~Claimable(d) \/ Kept(d) \/ Crowded(d)
=============================================================================
