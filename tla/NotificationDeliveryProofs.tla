--------------------- MODULE NotificationDeliveryProofs ---------------------
(***************************************************************************)
(* Notification delivery for any number of rows, runners, attempts, faults *)
(* and stalls: DELIVERED is final, one execution records a delivery at a   *)
(* time, and every row left in PROCESSING is accounted for.                *)
(***************************************************************************)
EXTENDS NotificationDelivery, FiniteSetTheorems, TLAPS

-----------------------------------------------------------------------------
(* The invariant *)

\* A runner has a job exactly while process() runs.
Busy == \A r \in Runners : phase[r] = "idle" <=> work[r] = NULL

\* Only an active job is locked, and a job that may still run has attempts left.
Locks ==
  /\ \A d \in Deliveries : holder[d] # NULL => job[d] = "active"
  /\ \A d \in Deliveries : job[d] \notin {"completed", "failed"} => made[d] < JobAttempts

\* As long as no lock was lost, whoever runs a job holds its lock.
Owners == lockLosses = 0 => \A r \in Runners : phase[r] # "idle" => holder[work[r]] = r

\* process() comes to its catch block only after a fault.
Caught == faults = 0 => \A r \in Runners : phase[r] # "fail"

\* Under Protected, what a runner is about to record is claimed and its own.
Guarded ==
  Protected =>
    \A r1 \in Runners : phase[r1] = "record" =>
      /\ status[work[r1]] = "PROCESSING"
      /\ \A r2 \in Runners : phase[r2] = "record" /\ work[r1] = work[r2] => r1 = r2

Inv == TypeOK /\ Busy /\ Locks /\ Owners /\ Caught /\ Guarded

-----------------------------------------------------------------------------
(* Operators *)

\* A runner that is not idle works on a delivery.
LEMMA AtWork ==
  ASSUME TypeOK, Busy, NEW r \in Runners, phase[r] # "idle"
  PROVE  work[r] \in Deliveries
  BY DEF TypeOK, Busy

\* The report changes the job only under its lock, and ends the run.
LEMMA ReportFacts ==
  ASSUME Inv, NEW r \in Runners, phase[r] # "idle", NEW ok \in BOOLEAN, Report(r, ok)
  PROVE  /\ job' \in [Deliveries -> JobStates \cup {NULL}]
         /\ made' \in [Deliveries -> 0..JobAttempts]
         /\ stalled' \in [Deliveries -> Nat]
         /\ holder' \in [Deliveries -> Runners \cup {NULL}]
         /\ phase' \in [Runners -> Phases] /\ work' \in [Runners -> Deliveries \cup {NULL}]
         /\ Busy' /\ Locks'
         /\ phase'[r] = "idle" /\ work'[r] = NULL
         /\ \A x \in Runners : x # r => phase'[x] = phase[x] /\ work'[x] = work[x]
         /\ \A d \in Deliveries : d # work[r] => holder'[d] = holder[d]
<1> DEFINE d == work[r]
           n == IF ok THEN made[d] ELSE made[d] + 1
<1>1. d \in Deliveries
  BY AtWork DEF Inv
<1>2. /\ phase' = [phase EXCEPT ![r] = "idle"] /\ work' = [work EXCEPT ![r] = NULL]
      /\ UNCHANGED stalled
  BY DEF Report
<1>3. /\ phase' \in [Runners -> Phases] /\ work' \in [Runners -> Deliveries \cup {NULL}]
      /\ stalled' \in [Deliveries -> Nat]
      /\ phase'[r] = "idle" /\ work'[r] = NULL
      /\ \A x \in Runners : x # r => phase'[x] = phase[x] /\ work'[x] = work[x]
  BY <1>2 DEF Inv, TypeOK, Phases
<1>4. Busy'
  BY <1>3 DEF Inv, Busy
<1>5. CASE holder[d] = r
  <2>1. /\ job' = [job EXCEPT ![d] = IF ok THEN "completed"
                                     ELSE IF n < JobAttempts THEN "delayed" ELSE "failed"]
        /\ made' = [made EXCEPT ![d] = n]
        /\ holder' = [holder EXCEPT ![d] = NULL]
    BY <1>5 DEF Report
  <2>2. job[d] = "active"
    BY <1>1, <1>5, NullAssumption DEF Inv, Locks
  <2>3. made[d] < JobAttempts /\ made[d] \in Nat
    BY <1>1, <2>2 DEF Inv, Locks, TypeOK
  <2>4. n \in 0..JobAttempts
    BY <2>3, LimitsAssumption
  <2>5. /\ job' \in [Deliveries -> JobStates \cup {NULL}]
        /\ made' \in [Deliveries -> 0..JobAttempts]
        /\ holder' \in [Deliveries -> Runners \cup {NULL}]
    BY <1>1, <2>1, <2>4 DEF Inv, TypeOK, JobStates
  <2>6. \A x \in Deliveries : x # d => job'[x] = job[x] /\ made'[x] = made[x] /\ holder'[x] = holder[x]
    BY <1>1, <2>1 DEF Inv, TypeOK
  <2>7. /\ holder'[d] = NULL
        /\ job'[d] \notin {"completed", "failed"} => made'[d] < JobAttempts
    BY <1>1, <2>1 DEF Inv, TypeOK
  <2>8. Locks'
    BY <2>6, <2>7 DEF Inv, Locks
  <2> QED
    BY <1>3, <1>4, <2>5, <2>6, <2>8
<1>6. CASE holder[d] # r
  <2>1. UNCHANGED <<job, made, holder>>
    BY <1>6 DEF Report
  <2> QED
    BY <1>3, <1>4, <2>1 DEF Inv, TypeOK, Locks
<1> QED
  BY <1>5, <1>6

-----------------------------------------------------------------------------
(* The steps *)

\* Persisting, enqueueing and scanning leave the runners alone.
LEMMA QueueInv ==
  ASSUME Inv,
         \/ \E d \in Deliveries : Persist(d) \/ Enqueue(d)
         \/ Scan \/ EnqueueScanned \/ ScanFails
  PROVE  Inv'
<1>1. ASSUME NEW d \in Deliveries, Persist(d)
      PROVE  Inv'
  <2>1. TypeOK'
    BY <1>1 DEF Inv, TypeOK, Persist, Statuses, jobs, runs, ills
  <2>2. \A x \in Deliveries : x # d => status'[x] = status[x]
    BY <1>1 DEF Inv, TypeOK, Persist
  <2>3. \A r \in Runners : phase[r] = "record" => work[r] \in Deliveries
    BY AtWork DEF Inv
  <2>4. UNCHANGED <<job, made, holder, phase, work, faults, crashes, lockLosses>> /\ status[d] = NULL
    BY <1>1 DEF Persist, jobs, runs, ills
  <2>5. Guarded'
    BY <2>2, <2>3, <2>4, NullAssumption DEF Inv, Guarded, Protected, Statuses
  <2> QED
    BY <2>1, <2>4, <2>5 DEF Inv, Busy, Locks, Owners, Caught
<1>2. ASSUME NEW d \in Deliveries, Add(d), scan' \subseteq Deliveries, UNCHANGED <<table, runs, ills>>
      PROVE  Inv'
  <2>1. UNCHANGED <<status, attempts, made, stalled, holder, phase, work, faults, crashes, lockLosses>>
    BY <1>2 DEF Add, table, runs, ills
  <2>2. TypeOK'
    BY <1>2, <2>1 DEF Inv, TypeOK, Add, JobStates
  <2>3. \A x \in Deliveries : job'[x] = job[x] \/ (job[x] = NULL /\ job'[x] = "waiting")
    BY <1>2 DEF Inv, TypeOK, Add
  <2>4. Locks'
    BY <2>1, <2>3, NullAssumption DEF Inv, Locks, JobStates
  <2> QED
    BY <2>1, <2>2, <2>4 DEF Inv, Busy, Owners, Caught, Guarded, Protected
<1>3. ASSUME NEW d \in Deliveries, Enqueue(d)
      PROVE  Inv'
  BY <1>2, <1>3 DEF Enqueue, Inv, TypeOK
<1>4. CASE EnqueueScanned
  <2>1. PICK d \in scan : Add(d) /\ scan' = scan \ {d} /\ UNCHANGED <<table, runs, ills>>
    BY <1>4 DEF EnqueueScanned
  <2>2. d \in Deliveries /\ scan' \subseteq Deliveries
    BY <2>1 DEF Inv, TypeOK
  <2> QED
    BY <1>2, <2>1, <2>2
<1>5. CASE Scan
  <2>1. scan' \subseteq Deliveries /\ UNCHANGED <<table, jobs, runs, ills>>
    BY <1>5 DEF Scan
  <2> QED
    BY <2>1 DEF Inv, TypeOK, Busy, Locks, Owners, Caught, Guarded, Protected, table, jobs, runs, ills
<1>6. CASE ScanFails
  <2>1. /\ scan' = {} /\ UNCHANGED <<table, jobs, runs, crashes, lockLosses>>
        /\ faults' = faults + 1 /\ faults \in Nat
    BY <1>6 DEF ScanFails, Fault, Inv, TypeOK
  <2> QED
    BY <2>1 DEF Inv, TypeOK, Busy, Locks, Owners, Caught, Guarded, Protected, table, jobs, runs
<1> QED
  BY <1>1, <1>3, <1>4, <1>5, <1>6

\* A runner takes a waiting job, which nobody has locked and, as long as no
\* lock was lost, nobody works on.
LEMMA StartInv ==
  ASSUME Inv, NEW r \in Runners, Start(r)
  PROVE  Inv'
<1>1. PICK d \in Deliveries :
        /\ job[d] = "waiting"
        /\ job' = [job EXCEPT ![d] = "active"]
        /\ holder' = [holder EXCEPT ![d] = r]
        /\ work' = [work EXCEPT ![r] = d]
  BY DEF Start
<1>2. /\ phase[r] = "idle" /\ phase' = [phase EXCEPT ![r] = "claim"]
      /\ UNCHANGED <<status, attempts, made, stalled, scan, faults, crashes, lockLosses>>
  BY DEF Start, table, ills
<1>3. TypeOK'
  BY <1>1, <1>2 DEF Inv, TypeOK, JobStates, Phases
<1>4. /\ phase'[r] = "claim" /\ work'[r] = d /\ holder'[d] = r /\ job'[d] = "active"
      /\ \A x \in Runners : x # r => phase'[x] = phase[x] /\ work'[x] = work[x]
      /\ \A x \in Deliveries : x # d => holder'[x] = holder[x] /\ job'[x] = job[x]
  BY <1>1, <1>2 DEF Inv, TypeOK
<1>5. Busy'
  BY <1>4, NullAssumption DEF Inv, Busy
<1>6. Locks'
  BY <1>1, <1>2, <1>4 DEF Inv, Locks
<1>7. Owners'
  <2> SUFFICES ASSUME lockLosses = 0, NEW x \in Runners, phase'[x] # "idle"
               PROVE  holder'[work'[x]] = x
    BY <1>2 DEF Owners
  <2>1. CASE x = r
    BY <1>4, <2>1
  <2>2. CASE x # r
    <3>1. holder[work[x]] = x /\ work[x] \in Deliveries /\ work'[x] = work[x]
      BY <1>4, <2>2, AtWork DEF Inv, Owners
    <3>2. work[x] # d
      BY <1>1, <3>1, NullAssumption DEF Inv, Locks
    <3> QED
      BY <1>4, <3>1, <3>2
  <2> QED
    BY <2>1, <2>2
<1>8. Caught' /\ Guarded'
  BY <1>2, <1>4 DEF Inv, Caught, Guarded, Protected
<1> QED
  BY <1>3, <1>5, <1>6, <1>7, <1>8 DEF Inv

\* process() ends with a report: the invariant is kept when the row it leaves
\* is still in PROCESSING for whoever else is about to record it.
LEMMA EndInv ==
  ASSUME Inv, NEW r \in Runners, phase[r] # "idle", Report(r, TRUE) \/ Report(r, FALSE),
         status' \in [Deliveries -> Statuses \cup {NULL}], UNCHANGED <<attempts, scan>>,
         \A d \in Deliveries : d # work[r] => status'[d] = status[d],
         faults' \in Nat, faults' >= faults, UNCHANGED <<crashes, lockLosses>>,
         Protected => \A x \in Runners : x # r /\ phase[x] = "record" /\ work[x] = work[r]
                        => status'[work[r]] = "PROCESSING"
  PROVE  Inv'
<1>0. \A ok \in BOOLEAN : Report(r, ok) =>
        /\ job' \in [Deliveries -> JobStates \cup {NULL}]
        /\ made' \in [Deliveries -> 0..JobAttempts]
        /\ stalled' \in [Deliveries -> Nat]
        /\ holder' \in [Deliveries -> Runners \cup {NULL}]
        /\ phase' \in [Runners -> Phases] /\ work' \in [Runners -> Deliveries \cup {NULL}]
        /\ Busy' /\ Locks'
        /\ phase'[r] = "idle" /\ work'[r] = NULL
        /\ \A x \in Runners : x # r => phase'[x] = phase[x] /\ work'[x] = work[x]
        /\ \A d \in Deliveries : d # work[r] => holder'[d] = holder[d]
  BY ReportFacts
<1>1. /\ job' \in [Deliveries -> JobStates \cup {NULL}]
      /\ made' \in [Deliveries -> 0..JobAttempts]
      /\ stalled' \in [Deliveries -> Nat]
      /\ holder' \in [Deliveries -> Runners \cup {NULL}]
      /\ phase' \in [Runners -> Phases] /\ work' \in [Runners -> Deliveries \cup {NULL}]
      /\ Busy' /\ Locks'
  BY <1>0, Zenon
<1>2. /\ phase'[r] = "idle" /\ work'[r] = NULL
      /\ \A x \in Runners : x # r => phase'[x] = phase[x] /\ work'[x] = work[x]
      /\ \A d \in Deliveries : d # work[r] => holder'[d] = holder[d]
  BY <1>0, Zenon
<1>3. TypeOK'
  BY <1>1 DEF Inv, TypeOK
<1>4. faults' = 0 => faults = 0
  BY DEF Inv, TypeOK
<1>5. Owners'
  <2> SUFFICES ASSUME lockLosses = 0, NEW x \in Runners, x # r, phase[x] # "idle"
               PROVE  holder'[work[x]] = x
    BY <1>2 DEF Owners
  <2>1. holder[work[x]] = x /\ holder[work[r]] = r /\ work[x] \in Deliveries
    BY AtWork DEF Inv, Owners
  <2> QED
    BY <1>2, <2>1
<1>6. Caught'
  BY <1>2, <1>4 DEF Inv, Caught
<1>7. Guarded'
  <2> SUFFICES ASSUME Protected, NEW x \in Runners, x # r, phase[x] = "record"
               PROVE  /\ status'[work[x]] = "PROCESSING"
                      /\ \A y \in Runners : y # r /\ phase[y] = "record" /\ work[x] = work[y] => x = y
    BY <1>2, <1>4 DEF Guarded, Protected
  <2>1. work[x] \in Deliveries
    BY AtWork DEF Inv
  <2> QED
    BY <2>1 DEF Inv, Guarded
<1> QED
  BY <1>1, <1>3, <1>5, <1>6, <1>7 DEF Inv

\* deliver: the claim finds a row nobody is about to record, or nothing.
LEMMA ClaimInv ==
  ASSUME Inv, NEW r \in Runners, Claim(r)
  PROVE  Inv'
<1>1. /\ phase[r] = "claim" /\ work[r] \in Deliveries
      /\ UNCHANGED <<scan, faults, crashes, lockLosses>>
  BY AtWork DEF Claim, ills, Inv
<1> DEFINE d == work[r]
<1>2. CASE ~Claimable(d) /\ UNCHANGED table /\ Report(r, TRUE)
  <2>1. UNCHANGED <<status, attempts>>
    BY <1>2 DEF table
  <2>2. Protected => \A x \in Runners : x # r /\ phase[x] = "record" /\ work[x] = work[r]
                       => status'[work[r]] = "PROCESSING"
    BY <2>1 DEF Inv, Guarded
  <2>3. /\ status' \in [Deliveries -> Statuses \cup {NULL}] /\ phase[r] # "idle"
        /\ \A x \in Deliveries : x # work[r] => status'[x] = status[x]
        /\ faults' \in Nat /\ faults' >= faults
    BY <1>1, <2>1 DEF Inv, TypeOK
  <2> QED
    BY <1>1, <1>2, <2>1, <2>2, <2>3, EndInv
<1>3. CASE Claimable(d) /\ SetClaimed(d) /\ Goto(r, "record") /\ UNCHANGED jobs
  <2>1. /\ status[d] \in {"PENDING", "FAILED"} /\ attempts[d] < ClaimLimit
        /\ status' = [status EXCEPT ![d] = "PROCESSING"]
        /\ attempts' = [attempts EXCEPT ![d] = @ + 1]
        /\ phase' = [phase EXCEPT ![r] = "record"]
        /\ UNCHANGED <<work, job, made, stalled, holder>>
    BY <1>3 DEF Claimable, SetClaimed, Goto, jobs
  <2>2. attempts' \in [Deliveries -> 0..ClaimLimit]
    <3>1. attempts[d] + 1 \in 0..ClaimLimit
      BY <1>1, <2>1, LimitsAssumption DEF Inv, TypeOK
    <3> QED
      BY <1>1, <2>1, <3>1 DEF Inv, TypeOK
  <2>3. TypeOK'
    BY <1>1, <2>1, <2>2 DEF Inv, TypeOK, Phases, Statuses
  <2>4. /\ phase'[r] = "record" /\ status'[d] = "PROCESSING"
        /\ \A x \in Runners : x # r => phase'[x] = phase[x]
        /\ \A x \in Deliveries : x # d => status'[x] = status[x]
    BY <1>1, <2>1 DEF Inv, TypeOK
  <2>5. Busy' /\ Locks' /\ Owners' /\ Caught'
    BY <1>1, <2>1, <2>4 DEF Inv, Busy, Locks, Owners, Caught
  <2>6. Guarded'
    <3> SUFFICES ASSUME Protected, NEW x \in Runners, phase'[x] = "record"
                 PROVE  /\ status'[work[x]] = "PROCESSING"
                        /\ \A y \in Runners : phase'[y] = "record" /\ work[x] = work[y] => x = y
      BY <1>1, <2>1 DEF Guarded, Protected
    <3>1. \A y \in Runners : y # r /\ phase'[y] = "record" => work[y] # d /\ work[y] \in Deliveries
      BY <2>1, <2>4, AtWork DEF Inv, Guarded
    <3> QED
      BY <2>4, <3>1 DEF Inv, Guarded
  <2> QED
    BY <2>3, <2>5, <2>6 DEF Inv
<1> QED
  BY <1>2, <1>3 DEF Claim

\* deliver: the row is recorded by the only runner that may.
LEMMA RecordInv ==
  ASSUME Inv, NEW r \in Runners, Record(r)
  PROVE  Inv'
<1>1. /\ phase[r] = "record" /\ work[r] \in Deliveries /\ Report(r, TRUE)
      /\ status' = [status EXCEPT ![work[r]] = "DELIVERED"]
      /\ UNCHANGED <<attempts, scan, faults, crashes, lockLosses>>
  BY AtWork DEF Record, SetDelivered, ills, Inv
<1>2. /\ status' \in [Deliveries -> Statuses \cup {NULL}]
      /\ \A d \in Deliveries : d # work[r] => status'[d] = status[d]
  BY <1>1 DEF Inv, TypeOK, Statuses
<1>3. Protected => \A x \in Runners : x # r /\ phase[x] = "record" /\ work[x] = work[r]
                     => status'[work[r]] = "PROCESSING"
  BY <1>1 DEF Inv, Guarded
<1>4. phase[r] # "idle" /\ faults' \in Nat /\ faults' >= faults
  BY <1>1 DEF Inv, TypeOK
<1> QED
  BY <1>1, <1>2, <1>3, <1>4, EndInv

\* A statement of deliver fails; from here on only the locks protect.
LEMMA DeliverFailsInv ==
  ASSUME Inv, NEW r \in Runners, DeliverFails(r)
  PROVE  Inv'
<1>1. /\ phase[r] \in {"claim", "record"} /\ work[r] \in Deliveries
      /\ phase' = [phase EXCEPT ![r] = "fail"]
      /\ faults \in Nat /\ faults' = faults + 1
      /\ UNCHANGED <<work, job, made, stalled, holder, scan, crashes, lockLosses>>
  BY AtWork DEF DeliverFails, Fault, Goto, jobs, Inv, TypeOK
<1> DEFINE d == work[r]
<1>2. /\ status' \in [Deliveries -> Statuses \cup {NULL}]
      /\ attempts' \in [Deliveries -> 0..ClaimLimit]
      /\ \A x \in Deliveries : x # d => status'[x] = status[x]
  <2>1. CASE UNCHANGED table
    BY <2>1 DEF table, Inv, TypeOK
  <2>2. CASE Claimable(d) /\ SetClaimed(d)
    <3>1. attempts[d] + 1 \in 0..ClaimLimit
      BY <1>1, <2>2, LimitsAssumption DEF Inv, TypeOK, Claimable
    <3> QED
      BY <1>1, <2>2, <3>1 DEF SetClaimed, Inv, TypeOK, Statuses
  <2>3. CASE SetDelivered(d)
    BY <1>1, <2>3 DEF SetDelivered, Inv, TypeOK, Statuses
  <2> QED
    BY <2>1, <2>2, <2>3 DEF DeliverFails
<1>3. TypeOK'
  BY <1>1, <1>2 DEF Inv, TypeOK, Phases
<1>4. /\ phase'[r] = "fail" /\ \A x \in Runners : x # r => phase'[x] = phase[x]
  BY <1>1 DEF Inv, TypeOK
<1>5. Busy' /\ Locks' /\ Owners' /\ Caught'
  BY <1>1, <1>4 DEF Inv, TypeOK, Busy, Locks, Owners, Caught
<1>6. Guarded'
  <2> SUFFICES ASSUME lockLosses = 0, NEW x \in Runners, x # r, phase[x] = "record"
               PROVE  /\ status'[work[x]] = "PROCESSING"
                      /\ \A y \in Runners : y # r /\ phase[y] = "record" /\ work[x] = work[y] => x = y
    BY <1>1, <1>4 DEF Guarded, Protected
  <2>1. holder[work[x]] = x /\ holder[work[r]] = r /\ work[x] \in Deliveries
    BY <1>1, AtWork DEF Inv, Owners
  <2> QED
    BY <1>2, <2>1 DEF Inv, Guarded, Protected
<1> QED
  BY <1>3, <1>5, <1>6 DEF Inv

\* The catch block: after a fault, only the locks keep others away from the row.
LEMMA MarkFailedInv ==
  ASSUME Inv, NEW r \in Runners, MarkFailed(r) \/ MarkFailedFails(r)
  PROVE  Inv'
<1>1. phase[r] = "fail" /\ work[r] \in Deliveries /\ Report(r, FALSE)
  BY AtWork DEF MarkFailed, MarkFailedFails, Inv
<1>2. CASE MarkFailed(r)
  <2>1. /\ status' = [status EXCEPT ![work[r]] = IF @ = "PROCESSING" THEN "FAILED" ELSE @]
        /\ UNCHANGED <<attempts, scan, faults, crashes, lockLosses>>
    BY <1>2 DEF MarkFailed, SetFailed, ills
  <2>2. /\ status' \in [Deliveries -> Statuses \cup {NULL}]
        /\ \A d \in Deliveries : d # work[r] => status'[d] = status[d]
    BY <1>1, <2>1 DEF Inv, TypeOK, Statuses
  <2>3. Protected => \A x \in Runners : x # r /\ phase[x] = "record" => work[x] # work[r]
    BY <1>1 DEF Inv, Owners, Caught, Protected
  <2>4. phase[r] # "idle" /\ faults' \in Nat /\ faults' >= faults
    BY <1>1, <2>1 DEF Inv, TypeOK
  <2> QED
    BY <1>1, <2>1, <2>2, <2>3, <2>4, EndInv
<1>3. CASE MarkFailedFails(r)
  <2>1. /\ UNCHANGED <<status, attempts, scan, crashes, lockLosses>>
        /\ faults \in Nat /\ faults' = faults + 1
    BY <1>3 DEF MarkFailedFails, Fault, table, Inv, TypeOK
  <2>2. Protected => \A x \in Runners : x # r /\ phase[x] = "record" /\ work[x] = work[r]
                       => status'[work[r]] = "PROCESSING"
    BY <2>1 DEF Inv, Guarded
  <2>3. /\ status' \in [Deliveries -> Statuses \cup {NULL}] /\ phase[r] # "idle"
        /\ \A d \in Deliveries : d # work[r] => status'[d] = status[d]
        /\ faults' \in Nat /\ faults' >= faults
    BY <1>1, <2>1 DEF Inv, TypeOK
  <2> QED
    BY <1>1, <2>1, <2>2, <2>3, EndInv
<1> QED
  BY <1>2, <1>3

\* BullMQ and dying executions.
LEMMA BullInv ==
  ASSUME Inv,
         \/ \E d \in Deliveries : BackoffElapses(d) \/ Stalled(d) \/ LockLost(d) \/ Evict(d)
         \/ \E r \in Runners : Crash(r)
  PROVE  Inv'
<1>1. ASSUME NEW d \in Deliveries, BackoffElapses(d)
      PROVE  Inv'
  <2>1. /\ job[d] = "delayed" /\ job' = [job EXCEPT ![d] = "waiting"]
        /\ UNCHANGED <<status, attempts, made, stalled, holder, phase, work, scan, faults, crashes, lockLosses>>
    BY <1>1 DEF BackoffElapses, table, runs, ills
  <2>2. TypeOK' /\ Locks'
    BY <2>1 DEF Inv, TypeOK, Locks, JobStates
  <2> QED
    BY <2>1, <2>2 DEF Inv, Busy, Owners, Caught, Guarded, Protected
<1>2. ASSUME NEW d \in Deliveries, Stall(d), lockLosses' \in Nat,
             lockLosses' = 0 => lockLosses = 0 /\ ~Running(d)
      PROVE  Inv'
  <2>1. /\ job[d] = "active"
        /\ job' = [job EXCEPT ![d] = IF stalled[d] = 0 THEN "waiting" ELSE "failed"]
        /\ stalled' = [stalled EXCEPT ![d] = @ + 1]
        /\ holder' = [holder EXCEPT ![d] = NULL]
        /\ UNCHANGED <<status, attempts, made, phase, work, scan, faults, crashes>>
    BY <1>2 DEF Stall, table, runs
  <2>2. TypeOK'
    BY <1>2, <2>1 DEF Inv, TypeOK, JobStates
  <2>3. Locks'
    BY <2>1 DEF Inv, TypeOK, Locks
  <2>4. Owners'
    BY <1>2, <2>1, AtWork DEF Inv, TypeOK, Owners, Running
  <2>5. Protected' => Protected
    BY <1>2, <2>1 DEF Protected
  <2>6. Guarded'
    BY <2>1, <2>5 DEF Inv, Guarded
  <2> QED
    BY <2>1, <2>2, <2>3, <2>4, <2>6 DEF Inv, Busy, Caught
<1>3. ASSUME NEW d \in Deliveries, Stalled(d) \/ LockLost(d)
      PROVE  Inv'
  BY <1>2, <1>3 DEF Stalled, LockLost, Inv, TypeOK
<1>4. ASSUME NEW d \in Deliveries, Evict(d)
      PROVE  Inv'
  <2>1. /\ job[d] \in {"completed", "failed"}
        /\ job' = [job EXCEPT ![d] = NULL]
        /\ made' = [made EXCEPT ![d] = 0]
        /\ stalled' = [stalled EXCEPT ![d] = 0]
        /\ UNCHANGED <<status, attempts, holder, phase, work, scan, faults, crashes, lockLosses>>
    BY <1>4 DEF Evict, table, runs, ills
  <2>2. TypeOK'
    BY <2>1, LimitsAssumption DEF Inv, TypeOK
  <2>3. Locks'
    BY <2>1, LimitsAssumption DEF Inv, TypeOK, Locks
  <2> QED
    BY <2>1, <2>2, <2>3 DEF Inv, Busy, Owners, Caught, Guarded, Protected
<1>5. ASSUME NEW r \in Runners, Crash(r)
      PROVE  Inv'
  <2>1. /\ phase' = [phase EXCEPT ![r] = "idle"] /\ work' = [work EXCEPT ![r] = NULL]
        /\ crashes' = crashes + 1
        /\ UNCHANGED <<status, attempts, job, made, stalled, holder, scan, faults, lockLosses>>
    BY <1>5 DEF Crash, table, jobs
  <2>2. TypeOK'
    BY <2>1 DEF Inv, TypeOK, Phases
  <2>3. /\ phase'[r] = "idle" /\ work'[r] = NULL
        /\ \A x \in Runners : x # r => phase'[x] = phase[x] /\ work'[x] = work[x]
    BY <2>1 DEF Inv, TypeOK
  <2> QED
    BY <2>1, <2>2, <2>3 DEF Inv, Busy, Locks, Owners, Caught, Guarded, Protected
<1> QED
  BY <1>1, <1>3, <1>4, <1>5

-----------------------------------------------------------------------------
(* Types, one deliverer, DELIVERED is final *)

\* Nothing is persisted and every runner is idle.
LEMMA InitInv == Init => Inv
<1> SUFFICES ASSUME Init PROVE Inv
  OBVIOUS
<1>1. TypeOK
  BY LimitsAssumption DEF Init, TypeOK, Phases
<1>2. Busy /\ Locks
  BY LimitsAssumption DEF Init, Busy, Locks
<1>3. Owners /\ Caught /\ Guarded
  BY DEF Init, Owners, Caught, Guarded
<1> QED
  BY <1>1, <1>2, <1>3 DEF Inv

\* Every step keeps the invariant.
LEMMA InvStep == Inv /\ [Next]_vars => Inv'
<1> SUFFICES ASSUME Inv, [Next]_vars
             PROVE  Inv'
  OBVIOUS
<1>1. ASSUME NEW d \in Deliveries, \/ Persist(d) \/ Enqueue(d) \/ BackoffElapses(d)
                                   \/ Stalled(d) \/ LockLost(d) \/ Evict(d)
      PROVE  Inv'
  BY <1>1, QueueInv, BullInv
<1>2. CASE Scan \/ EnqueueScanned \/ ScanFails
  BY <1>2, QueueInv
<1>3. ASSUME NEW r \in Runners, Process(r) \/ DeliverFails(r) \/ MarkFailedFails(r) \/ Crash(r)
      PROVE  Inv'
  BY <1>3, StartInv, ClaimInv, RecordInv, DeliverFailsInv, MarkFailedInv, BullInv DEF Process
<1>4. CASE UNCHANGED vars
  BY <1>4 DEF vars, table, jobs, runs, ills, Inv, TypeOK, Busy, Locks, Owners, Caught,
              Guarded, Protected
<1> QED
  BY <1>1, <1>2, <1>3, <1>4 DEF Next

\* Through reruns of stalled jobs, repeated enqueueing and recovery, a delivery
\* is recorded by one execution at a time, on a row it has claimed, unless both
\* an execution lost its lock and a call failed; and every variable keeps its type.
THEOREM RecordedByOne == Spec => []OneDeliverer
<1>1. Inv => OneDeliverer
  BY DEF Inv, Guarded, OneDeliverer
<1> QED
  BY <1>1, InitInv, InvStep, PTL DEF Spec

\* How a step may change a row of notification_deliveries.
LEMMA TableSteps ==
  ASSUME Inv, [Next]_vars
  PROVE  \/ UNCHANGED table
         \/ \E d \in Deliveries : Persist(d)
         \/ \E d \in Deliveries : Claimable(d) /\ SetClaimed(d)
         \/ \E d \in Deliveries : SetDelivered(d)
         \/ \E d \in Deliveries : SetFailed(d)
<1> DEFINE G == \/ UNCHANGED table
                \/ \E d \in Deliveries : Persist(d)
                \/ \E d \in Deliveries : Claimable(d) /\ SetClaimed(d)
                \/ \E d \in Deliveries : SetDelivered(d)
                \/ \E d \in Deliveries : SetFailed(d)
<1>1. ASSUME NEW d \in Deliveries, \/ Persist(d) \/ Enqueue(d) \/ BackoffElapses(d)
                                   \/ Stalled(d) \/ LockLost(d) \/ Evict(d)
      PROVE  G
  BY <1>1 DEF Enqueue, BackoffElapses, Stalled, LockLost, Stall, Evict
<1>2. CASE Scan \/ EnqueueScanned \/ ScanFails
  BY <1>2 DEF Scan, EnqueueScanned, ScanFails
<1>3. ASSUME NEW r \in Runners, Start(r) \/ MarkFailedFails(r) \/ Crash(r)
      PROVE  G
  BY <1>3 DEF Start, MarkFailedFails, Crash
<1>4. ASSUME NEW r \in Runners, Claim(r) \/ Record(r) \/ MarkFailed(r) \/ DeliverFails(r)
      PROVE  G
  <2>1. work[r] \in Deliveries
    BY <1>4, AtWork DEF Claim, Record, MarkFailed, DeliverFails, Inv
  <2> QED
    BY <1>4, <2>1 DEF Claim, Record, MarkFailed, DeliverFails
<1>5. CASE UNCHANGED vars
  BY <1>5 DEF vars
<1> QED
  BY <1>1, <1>2, <1>3, <1>4, <1>5 DEF Next, Process

\* No late markFailed, stale claim or rerun of a job changes a delivered row,
\* even where an execution has lost its lock: by the WHERE clauses of the claim
\* and of markFailed alone.
THEOREM DeliveredStays == Spec => DeliveredIsFinal
<1>1. ASSUME Inv, [Next]_vars, NEW d \in Deliveries, status[d] = "DELIVERED"
      PROVE  status'[d] = "DELIVERED" /\ attempts'[d] = attempts[d]
  <2>0. status \in [Deliveries -> Statuses \cup {NULL}] /\ attempts \in [Deliveries -> 0..ClaimLimit]
    BY <1>1 DEF Inv, TypeOK
  <2>1. CASE UNCHANGED table
    BY <1>1, <2>1 DEF table
  <2>2. ASSUME NEW x \in Deliveries, Persist(x)
        PROVE  status'[d] = "DELIVERED" /\ attempts'[d] = attempts[d]
    BY <1>1, <2>0, <2>2, NullAssumption DEF Persist, Statuses
  <2>3. ASSUME NEW x \in Deliveries, Claimable(x), SetClaimed(x)
        PROVE  status'[d] = "DELIVERED" /\ attempts'[d] = attempts[d]
    BY <1>1, <2>0, <2>3 DEF Claimable, SetClaimed
  <2>4. ASSUME NEW x \in Deliveries, SetDelivered(x) \/ SetFailed(x)
        PROVE  status'[d] = "DELIVERED" /\ attempts'[d] = attempts[d]
    BY <1>1, <2>0, <2>4 DEF SetDelivered, SetFailed
  <2> QED
    BY <1>1, <2>1, <2>2, <2>3, <2>4, TableSteps
<1>2. Inv /\ [Next]_vars =>
        [\A d \in Deliveries : status[d] = "DELIVERED" =>
           status'[d] = "DELIVERED" /\ attempts'[d] = attempts[d]]_vars
  BY <1>1
<1> QED
  BY <1>2, InitInv, InvStep, PTL DEF Spec, DeliveredIsFinal

-----------------------------------------------------------------------------
(* Orphans *)

Failing == {r \in Runners : phase[r] = "fail"}

\* Every orphan took a crash or two faults; a runner in its catch block has
\* had the first of them.
Accounted == 2 * Cardinality(Orphans) + Cardinality(Failing) <= 2 * crashes + faults

\* A row is an orphan when it is in PROCESSING and no execution that has
\* claimed it is left.
LEMMA OrphanFacts ==
  /\ \A d : d \in Orphans <=> /\ d \in Deliveries /\ status[d] = "PROCESSING"
                              /\ \A r \in Runners : phase[r] \in {"record", "fail"} => work[r] # d
  /\ \A d : d \in Orphans' <=> /\ d \in Deliveries /\ status'[d] = "PROCESSING"
                               /\ \A r \in Runners : phase'[r] \in {"record", "fail"} => work'[r] # d
  BY DEF Orphans

\* Rows and runners are finitely many.
LEMMA Counts ==
  /\ IsFiniteSet(Orphans) /\ Cardinality(Orphans) \in Nat
  /\ IsFiniteSet(Orphans') /\ Cardinality(Orphans') \in Nat
  /\ IsFiniteSet(Failing) /\ Cardinality(Failing) \in Nat
  /\ IsFiniteSet(Failing') /\ Cardinality(Failing') \in Nat
<1>1. Orphans \subseteq Deliveries /\ Orphans' \subseteq Deliveries
  BY DEF Orphans
<1>2. Failing \subseteq Runners /\ Failing' \subseteq Runners
  BY DEF Failing
<1>3. IsFiniteSet(Orphans) /\ IsFiniteSet(Orphans') /\ IsFiniteSet(Failing) /\ IsFiniteSet(Failing')
  BY <1>1, <1>2, FS_Subset, DeliveriesAssumption, RunnersAssumption
<1> QED
  BY <1>3, FS_CardinalityType

\* One more element counts at most one more.
LEMMA AtMostOneMore ==
  ASSUME NEW S, NEW x, IsFiniteSet(S)
  PROVE  /\ IsFiniteSet(S \cup {x}) /\ Cardinality(S \cup {x}) \in Nat
         /\ Cardinality(S \cup {x}) <= Cardinality(S) + 1
<1>1. IsFiniteSet(S \cup {x}) /\ Cardinality(S) \in Nat
  BY FS_AddElement, FS_CardinalityType
<1>2. Cardinality(S \cup {x}) = IF x \in S THEN Cardinality(S) ELSE Cardinality(S) + 1
  BY FS_AddElement
<1> QED
  BY <1>1, <1>2

\* A step that orphans no row and lets no runner fail costs nothing.
LEMMA CostsNothing ==
  ASSUME Inv, Accounted, Orphans' \subseteq Orphans, Failing' \subseteq Failing,
         faults' \in Nat, faults' >= faults, UNCHANGED crashes
  PROVE  Accounted'
<1>1. Cardinality(Orphans') <= Cardinality(Orphans) /\ Cardinality(Failing') <= Cardinality(Failing)
  BY Counts, FS_Subset
<1> QED
  BY <1>1, Counts DEF Inv, TypeOK, Accounted

\* A failing call of deliver costs its fault.
LEMMA CostsFault ==
  ASSUME Inv, Accounted, NEW r \in Runners, Orphans' \subseteq Orphans,
         Failing' \subseteq Failing \cup {r}, faults' = faults + 1, UNCHANGED crashes
  PROVE  Accounted'
<1>1. Cardinality(Orphans') <= Cardinality(Orphans)
  BY Counts, FS_Subset
<1>2. /\ IsFiniteSet(Failing \cup {r}) /\ Cardinality(Failing \cup {r}) \in Nat
      /\ Cardinality(Failing \cup {r}) <= Cardinality(Failing) + 1
  BY Counts, AtMostOneMore
<1>3. Cardinality(Failing') <= Cardinality(Failing \cup {r})
  BY <1>2, FS_Subset
<1> QED
  BY <1>1, <1>2, <1>3, Counts DEF Inv, TypeOK, Accounted

\* A row orphaned by a crash, or by a runner whose markFailed fails too.
LEMMA CostsOrphan ==
  ASSUME Inv, Accounted, NEW d, NEW r, Orphans' \subseteq Orphans \cup {d}, Failing' \subseteq Failing \ {r},
         \/ crashes' = crashes + 1 /\ UNCHANGED faults
         \/ r \in Failing /\ faults' = faults + 1 /\ UNCHANGED crashes
  PROVE  Accounted'
<1>1. /\ IsFiniteSet(Orphans \cup {d}) /\ Cardinality(Orphans \cup {d}) \in Nat
      /\ Cardinality(Orphans \cup {d}) <= Cardinality(Orphans) + 1
  BY Counts, AtMostOneMore
<1>2. Cardinality(Orphans') <= Cardinality(Orphans \cup {d})
  BY <1>1, FS_Subset
<1>3. /\ IsFiniteSet(Failing \ {r}) /\ Cardinality(Failing \ {r}) \in Nat
      /\ Cardinality(Failing \ {r}) = IF r \in Failing THEN Cardinality(Failing) - 1 ELSE Cardinality(Failing)
  BY Counts, FS_RemoveElement, FS_CardinalityType
<1>4. Cardinality(Failing') <= Cardinality(Failing \ {r})
  BY <1>3, FS_Subset
<1> QED
  BY <1>1, <1>2, <1>3, <1>4, Counts DEF Inv, TypeOK, Accounted

\* The runners stay as they are, and no row goes to PROCESSING.
LEMMA RunnersAtRest ==
  ASSUME UNCHANGED <<phase, work>>, \A d \in Deliveries : status'[d] = "PROCESSING" => status[d] = "PROCESSING"
  PROVE  Orphans' \subseteq Orphans /\ Failing' \subseteq Failing
  BY OrphanFacts DEF Failing

\* Who else is at work, and on what, is not changed by a step of runner r.
Alone(r) == \A x \in Runners : x # r => phase'[x] = phase[x] /\ work'[x] = work[x]

\* A report ends the run of one runner only.
LEMMA ReportAlone ==
  ASSUME Inv, NEW r \in Runners, Report(r, TRUE) \/ Report(r, FALSE)
  PROVE  phase'[r] = "idle" /\ Alone(r) /\ Failing' \subseteq Failing \ {r}
<1>1. phase' = [phase EXCEPT ![r] = "idle"] /\ work' = [work EXCEPT ![r] = NULL]
  BY DEF Report
<1> QED
  BY <1>1 DEF Inv, TypeOK, Alone, Failing

\* When a runner ends, only the row it worked on can be orphaned, and not that
\* one if it has left PROCESSING or was never claimed by it.
LEMMA LeavesOrphan ==
  ASSUME Inv, NEW r \in Runners, Alone(r),
         \A d \in Deliveries : d # work[r] => status'[d] = status[d],
         status'[work[r]] = "PROCESSING" => status[work[r]] = "PROCESSING"
  PROVE  /\ Orphans' \subseteq Orphans \cup {work[r]}
         /\ phase[r] \notin {"record", "fail"} \/ status'[work[r]] # "PROCESSING"
              => Orphans' \subseteq Orphans
<1>1. ASSUME NEW d \in Orphans', d # work[r] \/ phase[r] \notin {"record", "fail"}
      PROVE  d \in Orphans
  <2>1. d \in Deliveries /\ status'[d] = "PROCESSING"
    BY OrphanFacts
  <2>2. \A x \in Runners : x # r /\ phase[x] \in {"record", "fail"} => work[x] # d
    BY OrphanFacts DEF Alone
  <2> QED
    BY <1>1, <2>1, <2>2, OrphanFacts
<1>2. ASSUME NEW d \in Orphans'
      PROVE  status'[d] = "PROCESSING"
  BY OrphanFacts
<1> QED
  BY <1>1, <1>2

\* Every step pays for the rows it orphans.
LEMMA AccountedStep == Inv /\ Accounted /\ [Next]_vars => Accounted'
<1> SUFFICES ASSUME Inv, Accounted, [Next]_vars
             PROVE  Accounted'
  OBVIOUS
<1>0. /\ status \in [Deliveries -> Statuses \cup {NULL}]
      /\ phase \in [Runners -> Phases] /\ work \in [Runners -> Deliveries \cup {NULL}]
      /\ faults \in Nat /\ crashes \in Nat
  BY DEF Inv, TypeOK
<1>1. ASSUME NEW d \in Deliveries, \/ Persist(d) \/ Enqueue(d) \/ BackoffElapses(d)
                                   \/ Stalled(d) \/ LockLost(d) \/ Evict(d)
      PROVE  Accounted'
  <2>1. UNCHANGED <<phase, work, faults, crashes>>
    BY <1>1 DEF Persist, Enqueue, BackoffElapses, Stalled, LockLost, Stall, Evict, runs, ills
  <2>2. \A x \in Deliveries : status'[x] = "PROCESSING" => status[x] = "PROCESSING"
    BY <1>0, <1>1 DEF Persist, Enqueue, BackoffElapses, Stalled, LockLost, Stall, Evict, table
  <2>3. faults' \in Nat /\ faults' >= faults
    BY <1>0, <2>1
  <2> QED
    BY <2>1, <2>2, <2>3, RunnersAtRest, CostsNothing
<1>2. CASE Scan \/ EnqueueScanned \/ ScanFails
  <2>1. UNCHANGED <<phase, work, status, crashes>>
    BY <1>2 DEF Scan, EnqueueScanned, ScanFails, Fault, runs, table, ills
  <2>2. faults' \in Nat /\ faults' >= faults
    BY <1>0, <1>2 DEF Scan, EnqueueScanned, ScanFails, Fault, ills
  <2> QED
    BY <2>1, <2>2, RunnersAtRest, CostsNothing
<1>3. ASSUME NEW r \in Runners, Start(r)
      PROVE  Accounted'
  <2>1. /\ phase'[r] = "claim" /\ phase[r] = "idle" /\ Alone(r)
        /\ UNCHANGED <<status, faults, crashes>>
    BY <1>0, <1>3 DEF Start, table, ills, Alone
  <2>2. Orphans' \subseteq Orphans
    BY <2>1, LeavesOrphan
  <2>3. Failing' \subseteq Failing
    BY <2>1 DEF Failing, Alone
  <2>4. faults' \in Nat /\ faults' >= faults
    BY <1>0, <2>1
  <2> QED
    BY <2>1, <2>2, <2>3, <2>4, CostsNothing
<1>4. ASSUME NEW r \in Runners, Claim(r)
      PROVE  Accounted'
  <2>1. phase[r] = "claim" /\ UNCHANGED <<faults, crashes>> /\ work[r] \in Deliveries
    BY <1>4, AtWork DEF Claim, ills, Inv
  <2>2. faults' \in Nat /\ faults' >= faults
    BY <1>0, <2>1
  <2>3. CASE Claimable(work[r]) /\ SetClaimed(work[r]) /\ Goto(r, "record")
    <3>1. /\ phase'[r] = "record" /\ UNCHANGED work
          /\ \A x \in Runners : x # r => phase'[x] = phase[x]
          /\ \A d \in Deliveries : d # work[r] => status'[d] = status[d]
      BY <1>0, <2>3 DEF SetClaimed, Goto
    <3>2. Orphans' \subseteq Orphans
      BY <2>1, <3>1, OrphanFacts
    <3>3. Failing' \subseteq Failing
      BY <3>1 DEF Failing
    <3> QED
      BY <2>1, <2>2, <3>2, <3>3, CostsNothing
  <2>4. CASE UNCHANGED table /\ Report(r, TRUE)
    <3>1. UNCHANGED status /\ Alone(r) /\ Failing' \subseteq Failing
      BY <2>4, ReportAlone DEF table
    <3>2. Orphans' \subseteq Orphans
      BY <2>1, <3>1, LeavesOrphan
    <3> QED
      BY <2>1, <2>2, <3>1, <3>2, CostsNothing
  <2> QED
    BY <1>4, <2>3, <2>4 DEF Claim
<1>5. ASSUME NEW r \in Runners, Record(r) \/ MarkFailed(r)
      PROVE  Accounted'
  <2>1. work[r] \in Deliveries /\ UNCHANGED <<faults, crashes>>
    BY <1>5, AtWork DEF Record, MarkFailed, ills, Inv
  <2>2. Alone(r) /\ Failing' \subseteq Failing
    BY <1>5, ReportAlone DEF Record, MarkFailed
  <2>3. /\ \A d \in Deliveries : d # work[r] => status'[d] = status[d]
        /\ status'[work[r]] # "PROCESSING"
    BY <1>0, <1>5, <2>1 DEF Record, MarkFailed, SetDelivered, SetFailed
  <2>4. Orphans' \subseteq Orphans
    BY <2>2, <2>3, LeavesOrphan
  <2>5. faults' \in Nat /\ faults' >= faults
    BY <1>0, <2>1
  <2> QED
    BY <2>1, <2>2, <2>4, <2>5, CostsNothing
<1>6. ASSUME NEW r \in Runners, DeliverFails(r)
      PROVE  Accounted'
  <2>1. /\ phase[r] \in {"claim", "record"} /\ work[r] \in Deliveries
        /\ phase' = [phase EXCEPT ![r] = "fail"] /\ UNCHANGED work
        /\ faults' = faults + 1 /\ UNCHANGED crashes
    BY <1>6, AtWork DEF DeliverFails, Goto, Fault, Inv
  <2>2. \A d \in Deliveries : d # work[r] => status'[d] = status[d]
    BY <1>0, <1>6, <2>1 DEF DeliverFails, SetClaimed, SetDelivered, table
  <2>3. phase'[r] = "fail" /\ \A x \in Runners : x # r => phase'[x] = phase[x]
    BY <1>0, <2>1
  <2>4. Orphans' \subseteq Orphans
    <3> SUFFICES ASSUME NEW d \in Orphans' PROVE d \in Orphans
      OBVIOUS
    <3>1. d # work[r] /\ d \in Deliveries /\ status'[d] = "PROCESSING"
      BY <2>1, <2>3, OrphanFacts
    <3>2. \A x \in Runners : phase[x] \in {"record", "fail"} => work[x] # d
      BY <2>1, <2>3, <3>1, OrphanFacts
    <3> QED
      BY <2>2, <3>1, <3>2, OrphanFacts
  <2>5. Failing' \subseteq Failing \cup {r}
    BY <2>3 DEF Failing
  <2> QED
    BY <2>1, <2>4, <2>5, CostsFault
<1>7. ASSUME NEW r \in Runners, MarkFailedFails(r)
      PROVE  Accounted'
  <2>1. /\ r \in Failing /\ UNCHANGED <<status, crashes>> /\ faults' = faults + 1
        /\ Alone(r) /\ Failing' \subseteq Failing \ {r}
    BY <1>7, ReportAlone DEF MarkFailedFails, Fault, table, Failing
  <2>2. Orphans' \subseteq Orphans \cup {work[r]}
    BY <2>1, LeavesOrphan
  <2> QED
    BY <2>1, <2>2, CostsOrphan
<1>8. ASSUME NEW r \in Runners, Crash(r)
      PROVE  Accounted'
  <2>1. /\ phase' = [phase EXCEPT ![r] = "idle"] /\ work' = [work EXCEPT ![r] = NULL]
        /\ UNCHANGED <<status, faults>> /\ crashes' = crashes + 1
    BY <1>8 DEF Crash, table
  <2>2. Alone(r) /\ Failing' \subseteq Failing \ {r}
    BY <1>0, <2>1 DEF Alone, Failing
  <2>3. Orphans' \subseteq Orphans \cup {work[r]}
    BY <2>1, <2>2, LeavesOrphan
  <2> QED
    BY <2>1, <2>2, <2>3, CostsOrphan
<1>9. CASE UNCHANGED vars
  <2>1. UNCHANGED <<phase, work, status, faults, crashes>>
    BY <1>9 DEF vars, table, runs, ills
  <2>2. faults' \in Nat /\ faults' >= faults
    BY <1>0, <2>1
  <2> QED
    BY <2>1, <2>2, RunnersAtRest, CostsNothing
<1> QED
  BY <1>1, <1>2, <1>3, <1>4, <1>5, <1>6, <1>7, <1>8, <1>9 DEF Next, Process

\* Rows stuck in PROCESSING are at most one for each execution that died and one
\* for each two failed calls: every other failure of deliver gives the claim
\* back through markFailed.
THEOREM OrphansPaidFor == Spec => []OrphansExplained
<1>1. Init => Accounted
  <2> SUFFICES ASSUME Init PROVE Accounted
    OBVIOUS
  <2>1. Orphans = {}
    BY NullAssumption DEF Init, Orphans, Statuses
  <2>2. Failing = {}
    BY DEF Init, Failing
  <2> QED
    BY <2>1, <2>2, FS_EmptySet DEF Init, Accounted
<1>2. Inv /\ Accounted => OrphansExplained
  <2> SUFFICES ASSUME Inv, Accounted PROVE OrphansExplained
    OBVIOUS
  <2>1. /\ Cardinality(Orphans) \in Nat /\ crashes \in Nat /\ faults \in Nat
        /\ 2 * Cardinality(Orphans) <= 2 * crashes + faults
    BY Counts DEF Inv, TypeOK, Accounted
  <2> QED
    BY <2>1 DEF OrphansExplained
<1> QED
  BY <1>1, <1>2, InitInv, InvStep, AccountedStep, PTL DEF Spec
=============================================================================
