---------------------------- MODULE OutboxProofs ----------------------------
(***************************************************************************)
(* Proofs about Outbox for every set of rows, replicas and every bound.    *)
(***************************************************************************)
EXTENDS Outbox, FiniteSetTheorems, TLAPS

(***************************************************************************)
(* The facts about a process and about a row that make the safety          *)
(* properties inductive.                                                   *)
(***************************************************************************)
\* A process inside publishOne works on a committed record of its batch.
WorkInHand ==
  \A i \in Instances :
    /\ batch[i] \subseteq committed
    /\ phase[i] = "idle" => batch[i] = {}
    /\ phase[i] \in {"mark", "defer", "hung"} => current[i] \in batch[i]

\* A process about to mark a row has a confirmed message for it.
ConfirmedBeforeMark ==
  \A i \in Instances : phase[i] = "mark" => copies[current[i]] > 0

\* A published row carries no lease that a late update could match.
PublishedUnlocked == \A e \in Events : publishedAt[e] => lockedBy[e] = NULL

\* A fresh lease always has a holder.
FreshMeansLeased == \A e \in Events : leaseFresh[e] => lockedBy[e] # NULL

\* While no lease on a row has expired, a process that has the row in its
\* batch holds it, or the row is published already.
UnexpiredWorkIsLeased ==
  \A i \in Instances : \A e \in batch[i] :
    expired[e] = 0 => \/ publishedAt[e]
                      \/ lockedBy[e] = InstanceId(i) /\ leaseFresh[e]

Facts == /\ WorkInHand
         /\ ConfirmedBeforeMark
         /\ PublishedUnlocked
         /\ FreshMeansLeased
         /\ UnexpiredWorkIsLeased
         /\ MarkedMeansAccepted
         /\ ExclusiveLease

IInv == TypeOK /\ Facts

-----------------------------------------------------------------------------
(* Type correctness *)

\* NextRecord keeps the process variables well typed.
LEMMA NextRecordType ==
  ASSUME TypeOK, NEW i \in Instances, NextRecord(i)
  PROVE  /\ phase' \in [Instances -> Phases]
         /\ batch' \in [Instances -> SUBSET Events]
         /\ current' \in [Instances -> Events \cup {NULL}]
  BY DEF TypeOK, NextRecord, Phases

\* The columns of outbox_events have their types.
TableType == /\ committed \subseteq Events
             /\ publishedAt \in [Events -> BOOLEAN]
             /\ lockedBy \in [Events -> Ids \cup {NULL}]
             /\ leaseFresh \in [Events -> BOOLEAN]
             /\ due \in [Events -> BOOLEAN]
             /\ attempts \in [Events -> Nat]

\* The statements of the publisher keep the table well typed.
LEMMA StatementsType ==
  ASSUME TypeOK, NEW i \in Instances, NEW e \in Events, NEW T \in SUBSET Events,
         SetLeases(i, T) \/ SetPublished(i, e) \/ SetDeferred(i, e)
  PROVE  TableType'
  <1> USE DEF TableType
  <1>1. InstanceId(i) \in Ids
    BY DEF TypeOK, InstanceId, Ids
  <1>2. CASE SetLeases(i, T)
    BY <1>1, <1>2 DEF TypeOK, SetLeases
  <1>3. CASE SetPublished(i, e)
    <2>1. CASE Holds(i, e)
      BY <1>3, <2>1 DEF TypeOK, SetPublished
    <2>2. CASE ~Holds(i, e)
      BY <1>3, <2>2 DEF TypeOK, SetPublished
    <2> QED BY <2>1, <2>2
  <1>4. CASE SetDeferred(i, e)
    <2>1. CASE Holds(i, e)
      <3>1. attempts' \in [Events -> Nat]
        BY <1>4, <2>1 DEF TypeOK, SetDeferred
      <3> QED BY <1>4, <2>1, <3>1 DEF TypeOK, SetDeferred
    <2>2. CASE ~Holds(i, e)
      BY <1>4, <2>2 DEF TypeOK, SetDeferred
    <2> QED BY <2>1, <2>2
  <1> QED BY <1>2, <1>3, <1>4

\* Every step of the outbox keeps the types (and, for the updates of
\* publishOne, the record in hand).
LEMMA TypeStep ==
  ASSUME TypeOK, WorkInHand, [Next]_vars
  PROVE  TypeOK'
  <1> USE DEF Phases
  <1>1. CASE UNCHANGED vars
    BY <1>1 DEF TypeOK, vars, table, process, history
  <1>2. ASSUME NEW e \in Events, Commit(e)
        PROVE  TypeOK'
    BY <1>2 DEF TypeOK, Commit, process, history
  <1>3. ASSUME NEW e \in Events, Time(e)
        PROVE  TypeOK'
    <2>1. CASE LeaseExpires(e) /\ overruns' \in Nat
      <3>1. expired' \in [Events -> Nat]
        BY <2>1 DEF TypeOK, LeaseExpires
      <3> QED BY <2>1, <3>1 DEF TypeOK, LeaseExpires, process
    <2>2. CASE BackoffElapses(e)
      BY <2>2 DEF TypeOK, BackoffElapses, process, history
    <2> QED BY <1>3, <2>1, <2>2
            DEF Time, AbandonedLeaseExpires, LeaseOverruns, TypeOK
  <1>4. ASSUME NEW i \in Instances, Step(i) \/ Failure(i) \/ Restart(i)
        PROVE  TypeOK'
    <2>1. phase[i] \in {"mark", "defer", "hung"} => current[i] \in Events
      BY DEF WorkInHand, TypeOK
    <2>2. CASE Lease(i)
      <3>1. PICK T \in SUBSET Events : /\ SetLeases(i, T)
                                       /\ batch' = [batch EXCEPT ![i] = T]
                                       /\ phase' = [phase EXCEPT ![i] = "batch"]
        BY <2>2 DEF Lease
      <3> QED BY <2>2, <3>1, StatementsType DEF TypeOK, TableType, Lease, history
    <2>3. CASE LeaseLost(i)
      <3>1. PICK T \in SUBSET Events : SetLeases(i, T)
        BY <2>3 DEF LeaseLost
      <3> QED BY <2>3, <3>1, StatementsType DEF TypeOK, TableType, LeaseLost, Fault, process
    <2>4. CASE PublishConfirmed(i)
      BY <2>4 DEF TypeOK, PublishConfirmed, table, history
    <2>5. CASE PublishFails(i) \/ PublishHangs(i)
      BY <2>5 DEF TypeOK, PublishFails, PublishHangs, PublishUnanswered, Fault, table
    <2>6. CASE MarkPublished(i)
      <3>1. current[i] \in Events /\ SetPublished(i, current[i]) /\ NextRecord(i)
        BY <2>1, <2>6 DEF MarkPublished
      <3> QED BY <2>6, <3>1, StatementsType, NextRecordType
              DEF TypeOK, TableType, MarkPublished, history
    <2>7. CASE MarkFails(i)
      <3>1. current[i] \in Events
        BY <2>1, <2>7 DEF MarkFails
      <3>2. CASE SetPublished(i, current[i])
        <4>1. TableType'
          BY <3>1, <3>2, StatementsType
        <4> QED BY <2>7, <4>1 DEF TypeOK, TableType, MarkFails, Fault
      <3>3. CASE UNCHANGED table
        BY <2>7, <3>3 DEF TypeOK, MarkFails, Fault, table
      <3> QED BY <2>7, <3>2, <3>3 DEF MarkFails
    <2>8. CASE Defer(i)
      <3>1. current[i] \in Events /\ SetDeferred(i, current[i]) /\ NextRecord(i)
        BY <2>1, <2>8 DEF Defer
      <3> QED BY <2>8, <3>1, StatementsType, NextRecordType
              DEF TypeOK, TableType, Defer, history
    <2>9. CASE DeferFails(i)
      <3>1. current[i] \in Events
        BY <2>1, <2>9 DEF DeferFails
      <3>2. CASE SetDeferred(i, current[i])
        <4>1. TableType'
          BY <3>1, <3>2, StatementsType
        <4> QED BY <2>9, <4>1 DEF TypeOK, TableType, DeferFails, Fault
      <3>3. CASE UNCHANGED table
        BY <2>9, <3>3 DEF TypeOK, DeferFails, Fault, table
      <3> QED BY <2>9, <3>2, <3>3 DEF DeferFails
    <2>10. CASE Restart(i)
      BY <2>10 DEF TypeOK, Restart, Fault, table
    <2> QED BY <1>4, <2>2, <2>3, <2>4, <2>5, <2>6, <2>7, <2>8, <2>9, <2>10
            DEF Step, Failure
  <1> QED BY <1>1, <1>2, <1>3, <1>4 DEF Next

-----------------------------------------------------------------------------
(* The inductive invariant *)

\* Business transactions, clocks and the broker's answers.
LEMMA FactsEnvironment ==
  ASSUME IInv,
         \/ UNCHANGED vars
         \/ \E e \in Events : Commit(e) \/ Time(e)
         \/ \E i \in Instances : \/ PublishConfirmed(i) \/ PublishFails(i)
                                 \/ PublishHangs(i) \/ Restart(i)
  PROVE  Facts'
  <1> USE DEF IInv, Facts, TypeOK, Phases
  <1>1. CASE UNCHANGED vars
    BY <1>1 DEF vars, table, process, history, WorkInHand, ConfirmedBeforeMark,
                PublishedUnlocked, FreshMeansLeased, UnexpiredWorkIsLeased,
                MarkedMeansAccepted, ExclusiveLease, InstanceId
  <1>2. ASSUME NEW e \in Events, Commit(e)
        PROVE  Facts'
    BY <1>2 DEF Commit, process, history, WorkInHand, ConfirmedBeforeMark,
                PublishedUnlocked, FreshMeansLeased, UnexpiredWorkIsLeased,
                MarkedMeansAccepted, ExclusiveLease, InstanceId
  <1>3. ASSUME NEW e \in Events, LeaseExpires(e)
        PROVE  Facts'
    <2>1. expired'[e] # 0 /\ \A f \in Events \ {e} : /\ expired'[f] = expired[f]
                                                     /\ leaseFresh'[f] = leaseFresh[f]
      BY <1>3 DEF LeaseExpires
    <2>2. UnexpiredWorkIsLeased' /\ ExclusiveLease'
      <3>1. UNCHANGED <<publishedAt, lockedBy, incarnation, batch>>
        BY <1>3 DEF LeaseExpires, process
      <3> QED BY <2>1, <3>1 DEF UnexpiredWorkIsLeased, ExclusiveLease, InstanceId
    <2> QED BY <1>3, <2>2 DEF LeaseExpires, process, WorkInHand,
                ConfirmedBeforeMark, PublishedUnlocked, FreshMeansLeased,
                MarkedMeansAccepted
  <1>4. ASSUME NEW e \in Events, BackoffElapses(e)
        PROVE  Facts'
    BY <1>4 DEF BackoffElapses, process, history, WorkInHand, ConfirmedBeforeMark,
                PublishedUnlocked, FreshMeansLeased, UnexpiredWorkIsLeased,
                MarkedMeansAccepted, ExclusiveLease, InstanceId
  <1>5. ASSUME NEW i \in Instances, PublishConfirmed(i) \/ PublishFails(i) \/ PublishHangs(i)
        PROVE  Facts'
    <2>1. PICK e \in batch[i] :
            /\ current' = [current EXCEPT ![i] = e]
            /\ \/ /\ copies' = [copies EXCEPT ![e] = @ + 1]
                  /\ phase' = [phase EXCEPT ![i] = "mark"]
               \/ /\ copies' \in {copies, [copies EXCEPT ![e] = @ + 1]}
                  /\ phase' \in {[phase EXCEPT ![i] = "defer"], [phase EXCEPT ![i] = "hung"]}
      BY <1>5 DEF PublishConfirmed, PublishFails, PublishHangs, PublishUnanswered
    <2>2. UNCHANGED <<table, incarnation, batch, expired>> /\ phase[i] = "batch"
      BY <1>5 DEF PublishConfirmed, PublishFails, PublishHangs, PublishUnanswered, history
    <2>3. \A f \in Events : copies[f] > 0 => copies'[f] > 0
      BY <2>1
    <2>4. WorkInHand'
      BY <2>1, <2>2 DEF WorkInHand, table
    <2>5. ConfirmedBeforeMark'
      BY <2>1, <2>2, <2>3, <2>4 DEF ConfirmedBeforeMark, WorkInHand
    <2>6. MarkedMeansAccepted'
      BY <2>2, <2>3 DEF MarkedMeansAccepted, table
    <2> QED BY <2>2, <2>4, <2>5, <2>6 DEF table, PublishedUnlocked,
               FreshMeansLeased, UnexpiredWorkIsLeased, ExclusiveLease, InstanceId
  <1>6. ASSUME NEW i \in Instances, Restart(i)
        PROVE  Facts'
    BY <1>6 DEF Restart, table, WorkInHand, ConfirmedBeforeMark,
                PublishedUnlocked, FreshMeansLeased, UnexpiredWorkIsLeased,
                MarkedMeansAccepted, ExclusiveLease, InstanceId
  <1> QED BY <1>1, <1>2, <1>3, <1>4, <1>5, <1>6
          DEF Time, AbandonedLeaseExpires, LeaseOverruns

\* The lease statement.  A row it takes is in no batch, unless a lease on it
\* has expired before.
LEMMA FactsLease ==
  ASSUME IInv, NEW i \in Instances, Lease(i) \/ LeaseLost(i)
  PROVE  Facts'
  <1> USE DEF IInv, Facts, TypeOK, Phases
  <1>1. PICK T \in SUBSET {e \in Events : Eligible(e)} :
          /\ SetLeases(i, T)
          /\ \/ /\ batch' = [batch EXCEPT ![i] = T]
                /\ phase' = [phase EXCEPT ![i] = "batch"]
             \/ UNCHANGED <<batch, phase>>
    BY DEF Lease, LeaseLost, process
  <1>2. UNCHANGED <<committed, publishedAt, incarnation, current, copies, expired>>
        /\ phase[i] = "idle" /\ batch[i] = {}
    BY <1>1 DEF Lease, LeaseLost, process, history, SetLeases, WorkInHand
  <1>3. InstanceId(i) # NULL /\ \A j \in Instances : InstanceId(j)' = InstanceId(j)
    BY <1>2, NullAssumption DEF InstanceId
  <1>4. \A e \in T : /\ e \in committed /\ ~publishedAt[e]
                     /\ lockedBy'[e] = InstanceId(i) /\ leaseFresh'[e]
                     /\ lockedBy[e] = NULL \/ ~leaseFresh[e]
    BY <1>1 DEF SetLeases, Eligible
  <1>5. \A e \in Events \ T : lockedBy'[e] = lockedBy[e] /\ leaseFresh'[e] = leaseFresh[e]
    BY <1>1 DEF SetLeases
  <1>6. \A e \in T : expired[e] = 0 => \A j \in Instances : e \notin batch[j]
    BY <1>4, NullAssumption DEF UnexpiredWorkIsLeased, FreshMeansLeased
  <1>7. WorkInHand'
    BY <1>1, <1>2, <1>4 DEF WorkInHand
  <1>8. ConfirmedBeforeMark'
    BY <1>1, <1>2 DEF ConfirmedBeforeMark
  <1>9. PublishedUnlocked'
    BY <1>2, <1>4, <1>5 DEF PublishedUnlocked
  <1>10. FreshMeansLeased'
    BY <1>3, <1>4, <1>5 DEF FreshMeansLeased
  <1>11. UnexpiredWorkIsLeased'
    BY <1>1, <1>2, <1>3, <1>4, <1>5, <1>6 DEF UnexpiredWorkIsLeased
  <1>12. MarkedMeansAccepted'
    BY <1>2 DEF MarkedMeansAccepted
  <1>13. ExclusiveLease'
    BY <1>1, <1>2, <1>6 DEF ExclusiveLease
  <1> QED BY <1>7, <1>8, <1>9, <1>10, <1>11, <1>12, <1>13

\* The two updates of publishOne.  They change a row only for the process
\* that holds it, so never a published row and never another's fresh lease.
LEMMA FactsUpdate ==
  ASSUME IInv, NEW i \in Instances,
         MarkPublished(i) \/ MarkFails(i) \/ Defer(i) \/ DeferFails(i)
  PROVE  Facts'
  <1> USE DEF IInv, Facts, TypeOK, Phases
  <1> DEFINE e == current[i]
  <1>1. e \in batch[i] /\ e \in Events /\ e \in committed
    BY DEF MarkPublished, MarkFails, Defer, DeferFails, WorkInHand
  <1>2. UNCHANGED <<committed, incarnation, copies, expired>>
    BY DEF MarkPublished, MarkFails, Defer, DeferFails, SetPublished,
           SetDeferred, table, history
  <1>3. \A f \in Events \ {e} : /\ publishedAt'[f] = publishedAt[f]
                                /\ lockedBy'[f] = lockedBy[f]
                                /\ leaseFresh'[f] = leaseFresh[f]
    BY <1>1 DEF MarkPublished, MarkFails, Defer, DeferFails, SetPublished,
           SetDeferred, table
  <1>4. \/ /\ publishedAt'[e] = publishedAt[e]
           /\ lockedBy'[e] = lockedBy[e]
           /\ leaseFresh'[e] = leaseFresh[e]
        \/ /\ lockedBy[e] = InstanceId(i)
           /\ lockedBy'[e] = NULL
           /\ ~leaseFresh'[e]
           /\ \/ publishedAt'[e] /\ phase[i] = "mark"
              \/ publishedAt'[e] = publishedAt[e] /\ e \notin batch'[i]
    BY <1>1 DEF MarkPublished, MarkFails, Defer, DeferFails, SetPublished,
           SetDeferred, table, Holds, NextRecord
  <1>5. /\ \A j \in Instances \ {i} : /\ batch'[j] = batch[j]
                                     /\ phase'[j] = phase[j]
                                     /\ current'[j] = current[j]
        /\ batch'[i] \subseteq batch[i]
        /\ phase'[i] \in {"idle", "batch", "defer"}
        /\ phase'[i] = "idle" => batch'[i] = {}
        /\ phase'[i] = "defer" => batch'[i] = batch[i] /\ current'[i] = e
    BY <1>1 DEF MarkPublished, MarkFails, Defer, DeferFails, NextRecord
  <1>6. InstanceId(i) # NULL /\ \A j \in Instances : InstanceId(j)' = InstanceId(j)
    BY <1>2, NullAssumption DEF InstanceId
  <1>7. WorkInHand'
    BY <1>1, <1>2, <1>5 DEF WorkInHand
  <1>8. ConfirmedBeforeMark'
    BY <1>2, <1>5 DEF ConfirmedBeforeMark
  <1>9. PublishedUnlocked'
    BY <1>3, <1>4 DEF PublishedUnlocked
  <1>10. FreshMeansLeased'
    BY <1>3, <1>4 DEF FreshMeansLeased
  <1>11. UnexpiredWorkIsLeased'
    BY <1>1, <1>2, <1>3, <1>4, <1>5, <1>6 DEF UnexpiredWorkIsLeased, ExclusiveLease
  <1>12. MarkedMeansAccepted'
    BY <1>1, <1>2, <1>3, <1>4 DEF MarkedMeansAccepted, ConfirmedBeforeMark
  <1>13. ExclusiveLease'
    BY <1>2, <1>5 DEF ExclusiveLease
  <1> QED BY <1>7, <1>8, <1>9, <1>10, <1>11, <1>12, <1>13

\* IInv is inductive.
LEMMA IInvInductive ==
  /\ Init => IInv
  /\ IInv /\ [Next]_vars => IInv'
  <1>1. Init => IInv
    BY DEF Init, IInv, Facts, TypeOK, Phases, WorkInHand, ConfirmedBeforeMark,
           PublishedUnlocked, FreshMeansLeased, UnexpiredWorkIsLeased,
           MarkedMeansAccepted, ExclusiveLease
  <1>2. IInv /\ [Next]_vars => IInv'
    <2> SUFFICES ASSUME IInv, [Next]_vars
                 PROVE  IInv'
      OBVIOUS
    <2>1. TypeOK'
      BY TypeStep DEF IInv, Facts
    <2>2. Facts'
      BY FactsEnvironment, FactsLease, FactsUpdate DEF Next, Step, Failure
    <2> QED BY <2>1, <2>2 DEF IInv
  <1> QED BY <1>1, <1>2

\* IInv holds in every state the publishers can reach.
THEOREM Invariance == Spec => []IInv
  BY IInvInductive, PTL DEF Spec

\* The table, the processes and the broker keep their types.
THEOREM TypeCorrect == Spec => []TypeOK
  <1>1. IInv => TypeOK
    BY DEF IInv
  <1> QED BY <1>1, Invariance, PTL

\* No event is lost between the table and the broker, for any number of
\* rows, replicas, failures, restarts and expired leases: a row marked
\* published has a message the broker confirmed.
THEOREM NoEventLost == Spec => []MarkedMeansAccepted
  <1>1. IInv => MarkedMeansAccepted
    BY DEF IInv, Facts
  <1> QED BY <1>1, Invariance, PTL

\* Replicas never work on one row together unless a lease on it expired.
THEOREM LeaseIsExclusive == Spec => []ExclusiveLease
  <1>1. IInv => ExclusiveLease
    BY DEF IInv, Facts
  <1> QED BY <1>1, Invariance, PTL

-----------------------------------------------------------------------------
(* Action properties and refinement *)

\* What any step does to one row's lease and publication, from IInv: the
\* updates of publishOne reach it only through the process that holds it.
LEMMA RowStep ==
  ASSUME IInv, [Next]_vars, NEW e \in Events
  PROVE  \/ UNCHANGED <<publishedAt[e], attempts[e], lockedBy[e]>>
         \/ ~publishedAt[e] /\ Eligible(e) /\ UNCHANGED <<publishedAt[e], attempts[e]>>
         \/ /\ ~publishedAt[e]
            /\ \E i \in Instances :
                 /\ lockedBy[e] = <<i, incarnation[i]>>
                 /\ current[i] = e
                 /\ <<phase'[i], current'[i]>> # <<phase[i], current[i]>>
                 /\ \/ publishedAt'[e] = publishedAt[e]
                    \/ publishedAt'[e] /\ copies[e] > 0
  <1> USE DEF IInv, Facts, TypeOK, Phases
  <1>1. CASE UNCHANGED vars
    BY <1>1 DEF vars, table
  <1>2. CASE \E f \in Events : Commit(f) \/ Time(f)
    BY <1>2 DEF Commit, Time, AbandonedLeaseExpires, LeaseOverruns, LeaseExpires,
                BackoffElapses
  <1>3. ASSUME NEW i \in Instances,
               PublishConfirmed(i) \/ PublishFails(i) \/ PublishHangs(i) \/ Restart(i)
        PROVE  UNCHANGED <<publishedAt[e], attempts[e], lockedBy[e]>>
    BY <1>3 DEF PublishConfirmed, PublishFails, PublishHangs, PublishUnanswered, Restart, table
  <1>4. ASSUME NEW i \in Instances, Lease(i) \/ LeaseLost(i)
        PROVE  /\ UNCHANGED <<publishedAt[e], attempts[e]>>
               /\ lockedBy'[e] # lockedBy[e] => Eligible(e)
    <2>1. PICK T \in SUBSET {f \in Events : Eligible(f)} : SetLeases(i, T)
      BY <1>4 DEF Lease, LeaseLost
    <2> QED BY <2>1 DEF SetLeases
  <1>5. ASSUME NEW i \in Instances,
               MarkPublished(i) \/ MarkFails(i) \/ Defer(i) \/ DeferFails(i)
        PROVE  \/ UNCHANGED <<publishedAt[e], attempts[e], lockedBy[e]>>
               \/ /\ Holds(i, e)
                  /\ current[i] = e
                  /\ <<phase'[i], current'[i]>> # <<phase[i], current[i]>>
                  /\ \/ publishedAt'[e] = publishedAt[e]
                     \/ publishedAt'[e] /\ copies[e] > 0
    <2>1. current[i] \in batch[i] /\ current[i] \in Events
      BY <1>5 DEF MarkPublished, MarkFails, Defer, DeferFails, WorkInHand
    <2>2. <<phase'[i], current'[i]>> # <<phase[i], current[i]>>
      BY <1>5, <2>1 DEF MarkPublished, MarkFails, Defer, DeferFails, NextRecord
    <2>3. CASE UNCHANGED table
      BY <2>3 DEF table
    <2>4. CASE SetPublished(i, current[i]) /\ phase[i] = "mark"
      <3>1. copies[current[i]] > 0
        BY <2>4 DEF ConfirmedBeforeMark
      <3> QED BY <2>1, <2>2, <2>4, <3>1 DEF SetPublished
    <2>5. CASE SetDeferred(i, current[i])
      BY <2>1, <2>2, <2>5 DEF SetDeferred
    <2> QED BY <1>5, <2>3, <2>4, <2>5
            DEF MarkPublished, MarkFails, Defer, DeferFails
  <1>6. \A i \in Instances : Holds(i, e) => ~publishedAt[e]
    <2>1. \A i \in Instances : InstanceId(i) # NULL
      BY NullAssumption DEF InstanceId
    <2> QED BY <2>1 DEF Holds, PublishedUnlocked
  <1>7. Eligible(e) => ~publishedAt[e]
    BY DEF Eligible
  <1> QED BY <1>1, <1>2, <1>3, <1>4, <1>5, <1>6, <1>7
          DEF Next, Step, Failure, Holds, InstanceId

\* No late or repeated update touches a published row.
THEOREM PublishedRowsFinal == Spec => PublishedIsFinal
  <1>1. IInv /\ [Next]_vars =>
          [\A e \in Events : publishedAt[e] =>
             /\ publishedAt'[e]
             /\ attempts'[e] = attempts[e]
             /\ lockedBy'[e] = lockedBy[e]]_vars
    <2> SUFFICES ASSUME IInv, [Next]_vars, NEW e \in Events, publishedAt[e]
                 PROVE  /\ publishedAt'[e]
                        /\ attempts'[e] = attempts[e]
                        /\ lockedBy'[e] = lockedBy[e]
      OBVIOUS
    <2>1. UNCHANGED <<publishedAt[e], attempts[e], lockedBy[e]>>
      BY RowStep
    <2> QED BY <2>1
  <1> QED BY <1>1, Invariance, PTL DEF Spec, PublishedIsFinal

\* A fresh lease is given up only by the process it was granted to.
THEOREM LeaseRespected == Spec => FreshLeaseRespected
  <1>1. IInv /\ [Next]_vars =>
          [\A e \in Events :
             leaseFresh[e] /\ lockedBy'[e] # lockedBy[e] =>
               \E i \in Instances :
                 /\ lockedBy[e] = <<i, incarnation[i]>>
                 /\ current[i] = e
                 /\ <<phase'[i], current'[i]>> # <<phase[i], current[i]>>]_vars
    <2> SUFFICES ASSUME IInv, [Next]_vars, NEW e \in Events,
                        leaseFresh[e], lockedBy'[e] # lockedBy[e]
                 PROVE  \E i \in Instances :
                          /\ lockedBy[e] = <<i, incarnation[i]>>
                          /\ current[i] = e
                          /\ <<phase'[i], current'[i]>> # <<phase[i], current[i]>>
      OBVIOUS
    <2>1. ~Eligible(e)
      BY DEF Eligible, IInv, Facts, FreshMeansLeased
    <2> QED BY <2>1, RowStep
  <1> QED BY <1>1, Invariance, PTL DEF Spec, FreshLeaseRespected

\* Every step of the publishers is a step of the promise or none.
LEMMA RefinementStep ==
  ASSUME IInv, [Next]_vars
  PROVE  [Promise!Next]_(Promise!vars)
  <1> USE DEF IInv, Facts, TypeOK
  <1>1. CASE UNCHANGED vars
    BY <1>1 DEF vars, table, Promise!vars
  <1>2. ASSUME NEW e \in Events, Commit(e)
        PROVE  Promise!Commit(e)
    BY <1>2 DEF Commit, Promise!Commit
  <1>3. ASSUME NEW e \in Events, Time(e)
        PROVE  UNCHANGED Promise!vars
    BY <1>3 DEF Time, AbandonedLeaseExpires, LeaseOverruns, LeaseExpires,
                BackoffElapses, Promise!vars
  <1>4. ASSUME NEW i \in Instances,
               Lease(i) \/ LeaseLost(i) \/ Restart(i)
        PROVE  UNCHANGED Promise!vars
    <2>1. UNCHANGED <<committed, publishedAt, copies>>
      BY <1>4 DEF Lease, LeaseLost, Restart, SetLeases, table
    <2> QED BY <2>1 DEF Promise!vars
  <1>5. ASSUME NEW i \in Instances, PublishConfirmed(i) \/ PublishFails(i) \/ PublishHangs(i)
        PROVE  \/ \E e \in Events : Promise!Accept(e)
               \/ UNCHANGED Promise!vars
    <2>1. PICK e \in batch[i] : copies' \in {copies, [copies EXCEPT ![e] = @ + 1]}
      BY <1>5 DEF PublishConfirmed, PublishFails, PublishHangs, PublishUnanswered
    <2>2. UNCHANGED <<committed, publishedAt>> /\ e \in Events /\ e \in committed
      BY <1>5, <2>1
         DEF PublishConfirmed, PublishFails, PublishHangs, PublishUnanswered, table, WorkInHand
    <2>3. CASE copies' = copies
      BY <2>2, <2>3 DEF Promise!vars
    <2>4. CASE copies' = [copies EXCEPT ![e] = @ + 1]
      <3>1. {f \in Events : copies'[f] > 0} = {f \in Events : copies[f] > 0} \cup {e}
        BY <2>2, <2>4
      <3> QED BY <2>2, <3>1 DEF Promise!Accept
    <2> QED BY <2>1, <2>3, <2>4
  <1>6. ASSUME NEW i \in Instances,
               MarkPublished(i) \/ MarkFails(i) \/ Defer(i) \/ DeferFails(i)
        PROVE  \/ \E e \in Events : Promise!Settle(e)
               \/ UNCHANGED Promise!vars
    <2>1. UNCHANGED <<committed, copies>>
      BY <1>6 DEF MarkPublished, MarkFails, Defer, DeferFails, SetPublished,
             SetDeferred, table
    <2>2. CASE publishedAt' = publishedAt
      BY <2>1, <2>2 DEF Promise!vars
    <2>3. CASE /\ current[i] \in Events /\ copies[current[i]] > 0
               /\ publishedAt' = [publishedAt EXCEPT ![current[i]] = TRUE]
      <3>1. {f \in Events : publishedAt'[f]} =
              {f \in Events : publishedAt[f]} \cup {current[i]}
        BY <2>3
      <3> QED BY <2>1, <2>3, <3>1 DEF Promise!Settle
    <2>4. phase[i] = "mark" => current[i] \in Events /\ copies[current[i]] > 0
      BY DEF WorkInHand, ConfirmedBeforeMark
    <2> QED BY <1>6, <2>2, <2>3, <2>4 DEF MarkPublished, MarkFails, Defer,
               DeferFails, SetPublished, SetDeferred, table
  <1> QED BY <1>1, <1>2, <1>3, <1>4, <1>5, <1>6
          DEF Next, Step, Failure, Promise!Next

\* The publishers, with all their failures, keep the outbox's promise.
THEOREM KeepsPromise == Spec => ImplementsPromise
  <1>1. Init => Promise!Init
    BY DEF Init, Promise!Init
  <1>2. IInv /\ [Next]_vars => [Promise!Next]_(Promise!vars)
    BY RefinementStep
  <1> QED BY <1>1, <1>2, Invariance, PTL DEF Spec, ImplementsPromise, Promise!Spec

-----------------------------------------------------------------------------
(***************************************************************************)
(* Duplicates.  A row can still be published by the processes that have it *)
(* in their batch and have not published it (Pending), and by one more if  *)
(* a lease statement can take it (Free).  Publications so far and to come  *)
(* never exceed one plus the attempts and expiries recorded for the row.   *)
(***************************************************************************)
Pending(e) == {i \in Instances : /\ e \in batch[i]
                                 /\ phase[i] \in {"mark", "defer", "hung"} => current[i] # e}

Free(e) == ~publishedAt[e] /\ (lockedBy[e] = NULL \/ ~leaseFresh[e])

Slack(e) == IF Free(e) THEN 1 ELSE 0

Budget == \A e \in Events :
  copies[e] + Cardinality(Pending(e)) + Slack(e) <= 1 + attempts[e] + expired[e]

\* Cardinality facts about the processes that may still publish a row.
LEMMA PendingCount ==
  ASSUME NEW e \in Events
  PROVE  /\ IsFiniteSet(Pending(e)) /\ Cardinality(Pending(e)) \in Nat
         /\ IsFiniteSet(Pending(e)') /\ Cardinality(Pending(e)') \in Nat
         /\ Pending(e)' \subseteq Pending(e)
              => Cardinality(Pending(e)') <= Cardinality(Pending(e))
         /\ \A i \in Instances :
              /\ Pending(e)' \subseteq Pending(e) \cup {i}
                   => Cardinality(Pending(e)') <= Cardinality(Pending(e)) + 1
              /\ i \in Pending(e) /\ Pending(e)' \subseteq Pending(e) \ {i}
                   => Cardinality(Pending(e)') + 1 <= Cardinality(Pending(e))
  <1> DEFINE P == Pending(e)
  <1> DEFINE Q == Pending(e)'
  <1>1. P \subseteq Instances /\ Q \subseteq Instances
    BY DEF Pending
  <1>2. IsFiniteSet(P) /\ IsFiniteSet(Q)
    BY <1>1, FS_Subset, InstancesAssumption
  <1>3. Cardinality(P) \in Nat /\ Cardinality(Q) \in Nat
    BY <1>2, FS_CardinalityType
  <1> HIDE DEF P, Q
  <1>4. Q \subseteq P => Cardinality(Q) <= Cardinality(P)
    BY <1>2, FS_Subset
  <1>5. ASSUME NEW i \in Instances, Q \subseteq P \cup {i}
        PROVE  Cardinality(Q) <= Cardinality(P) + 1
    <2>1. IsFiniteSet(P \cup {i}) /\ Cardinality(P \cup {i}) <= Cardinality(P) + 1
      <3>1. /\ IsFiniteSet(P \cup {i})
            /\ Cardinality(P \cup {i}) = IF i \in P THEN Cardinality(P)
                                                  ELSE Cardinality(P) + 1
        BY <1>2, FS_AddElement
      <3> QED BY <1>3, <3>1
    <2>2. Cardinality(Q) <= Cardinality(P \cup {i}) /\ Cardinality(P \cup {i}) \in Nat
      BY <1>5, <2>1, FS_Subset, FS_CardinalityType
    <2> QED BY <1>3, <2>1, <2>2
  <1>6. ASSUME NEW i \in P, Q \subseteq P \ {i}
        PROVE  Cardinality(Q) + 1 <= Cardinality(P)
    <2>1. IsFiniteSet(P \ {i}) /\ Cardinality(P \ {i}) = Cardinality(P) - 1
      BY <1>2, FS_RemoveElement
    <2>2. Cardinality(Q) <= Cardinality(P \ {i})
      BY <1>6, <2>1, FS_Subset
    <2> QED BY <1>3, <2>1, <2>2
  <1> QED BY <1>2, <1>3, <1>4, <1>5, <1>6 DEF P, Q

\* Every step keeps the budget of every row.
LEMMA BudgetStep ==
  ASSUME IInv, Budget, [Next]_vars
  PROVE  Budget'
  <1> SUFFICES ASSUME NEW e \in Events
               PROVE  copies'[e] + Cardinality(Pending(e)') + Slack(e)'
                        <= 1 + attempts'[e] + expired'[e]
    BY DEF Budget
  <1> USE DEF IInv, Facts, TypeOK, Phases
  <1> DEFINE p == Cardinality(Pending(e))
             q == Cardinality(Pending(e)')
  <1>a. /\ p \in Nat /\ q \in Nat
        /\ Slack(e) \in {0, 1} /\ Slack(e)' \in {0, 1}
        /\ copies[e] \in Nat /\ attempts[e] \in Nat /\ expired[e] \in Nat
        /\ copies[e] + p + Slack(e) <= 1 + attempts[e] + expired[e]
    BY PendingCount DEF Slack, Budget
  <1> HIDE DEF p, q
  <1>1. CASE UNCHANGED vars \/ \E f \in Events : Commit(f) \/ BackoffElapses(f)
    <2>1. UNCHANGED <<publishedAt, lockedBy, leaseFresh, attempts, expired, copies,
                      batch, phase, current>>
      BY <1>1 DEF vars, table, process, history, Commit, BackoffElapses
    <2>2. Pending(e)' \subseteq Pending(e) /\ Slack(e)' = Slack(e)
      BY <2>1 DEF Pending, Slack, Free
    <2>3. q <= p
      BY <2>2, PendingCount DEF p, q
    <2> QED BY <1>a, <2>1, <2>2, <2>3 DEF p, q
  <1>2. ASSUME NEW f \in Events, LeaseExpires(f)
        PROVE  copies'[e] + q + Slack(e)' <= 1 + attempts'[e] + expired'[e]
    <2>1. UNCHANGED <<publishedAt, lockedBy, attempts, copies, batch, phase, current>>
      BY <1>2 DEF LeaseExpires, process
    <2>2. q <= p
      BY <2>1, PendingCount DEF p, q, Pending
    <2>3. CASE f = e
      <3>1. expired'[e] = expired[e] + 1
        BY <1>2, <2>3 DEF LeaseExpires
      <3>2. Slack(e)' <= Slack(e) + 1
        BY <1>a
      <3> QED BY <1>a, <2>1, <2>2, <3>1, <3>2
    <2>4. CASE f # e
      <3>1. leaseFresh'[e] = leaseFresh[e] /\ expired'[e] = expired[e]
        BY <1>2, <2>4 DEF LeaseExpires
      <3>2. Slack(e)' = Slack(e)
        BY <2>1, <3>1 DEF Slack, Free
      <3> QED BY <1>a, <2>1, <2>2, <3>1, <3>2
    <2> QED BY <2>3, <2>4
  <1>3. ASSUME NEW i \in Instances, Lease(i) \/ LeaseLost(i)
        PROVE  copies'[e] + q + Slack(e)' <= 1 + attempts'[e] + expired'[e]
    <2>1. PICK T \in SUBSET {f \in Events : Eligible(f)} :
            /\ SetLeases(i, T)
            /\ \/ /\ batch' = [batch EXCEPT ![i] = T]
                  /\ phase' = [phase EXCEPT ![i] = "batch"]
               \/ UNCHANGED <<batch, phase>>
      BY <1>3 DEF Lease, LeaseLost, process
    <2>2. UNCHANGED <<publishedAt, attempts, current, copies, expired>>
          /\ phase[i] = "idle" /\ batch[i] = {}
      BY <1>3, <2>1 DEF Lease, LeaseLost, process, history, SetLeases, WorkInHand
    <2>3. CASE e \in T
      <3>1. Slack(e) = 1
        BY <2>1, <2>3 DEF Slack, Free, Eligible
      <3>2. lockedBy'[e] # NULL /\ leaseFresh'[e]
        <4>1. InstanceId(i) # NULL
          BY NullAssumption DEF InstanceId
        <4> QED BY <2>1, <2>3, <4>1 DEF SetLeases
      <3>3. Slack(e)' = 0
        BY <3>2 DEF Slack, Free
      <3>4. Pending(e)' \subseteq Pending(e) \cup {i}
        BY <2>1, <2>2 DEF Pending
      <3>5. q <= p + 1
        BY <3>4, PendingCount DEF p, q
      <3> QED BY <1>a, <2>2, <3>1, <3>3, <3>5
    <2>4. CASE e \notin T
      <3>1. lockedBy'[e] = lockedBy[e] /\ leaseFresh'[e] = leaseFresh[e]
        BY <2>1, <2>4 DEF SetLeases
      <3>2. Slack(e)' = Slack(e)
        BY <2>2, <3>1 DEF Slack, Free
      <3>3. Pending(e)' \subseteq Pending(e)
        BY <2>1, <2>2, <2>4 DEF Pending
      <3>4. q <= p
        BY <3>3, PendingCount DEF p, q
      <3> QED BY <1>a, <2>2, <3>2, <3>4
    <2> QED BY <2>3, <2>4
  <1>4. ASSUME NEW i \in Instances, PublishConfirmed(i) \/ PublishFails(i) \/ PublishHangs(i)
        PROVE  copies'[e] + q + Slack(e)' <= 1 + attempts'[e] + expired'[e]
    <2>1. PICK f \in batch[i] :
            /\ current' = [current EXCEPT ![i] = f]
            /\ copies' \in {copies, [copies EXCEPT ![f] = @ + 1]}
            /\ \/ phase' = [phase EXCEPT ![i] = "mark"]
               \/ phase' = [phase EXCEPT ![i] = "defer"]
               \/ phase' = [phase EXCEPT ![i] = "hung"]
      BY <1>4 DEF PublishConfirmed, PublishFails, PublishHangs, PublishUnanswered
    <2>2. UNCHANGED <<table, batch, expired>> /\ phase[i] = "batch"
      BY <1>4 DEF PublishConfirmed, PublishFails, PublishHangs, PublishUnanswered, history
    <2>3. Slack(e)' = Slack(e) /\ attempts'[e] = attempts[e] /\ expired'[e] = expired[e]
      BY <2>2 DEF Slack, Free, table
    <2>4. CASE f = e
      <3>1. i \in Pending(e) /\ Pending(e)' \subseteq Pending(e) \ {i}
        BY <2>1, <2>2, <2>4 DEF Pending
      <3>2. q + 1 <= p
        BY <3>1, PendingCount DEF p, q
      <3>3. copies'[e] \in Nat /\ copies'[e] <= copies[e] + 1
        BY <2>1, <2>4, <1>a
      <3> QED BY <1>a, <2>3, <3>2, <3>3
    <2>5. CASE f # e
      <3>1. Pending(e)' \subseteq Pending(e)
        BY <2>1, <2>2, <2>5 DEF Pending
      <3>2. q <= p
        BY <3>1, PendingCount DEF p, q
      <3>3. copies'[e] = copies[e]
        BY <2>1, <2>5
      <3> QED BY <1>a, <2>3, <3>2, <3>3
    <2> QED BY <2>4, <2>5
  <1>5. ASSUME NEW i \in Instances,
               MarkPublished(i) \/ MarkFails(i) \/ Defer(i) \/ DeferFails(i)
        PROVE  copies'[e] + q + Slack(e)' <= 1 + attempts'[e] + expired'[e]
    <2>1. current[i] \in batch[i] /\ current[i] \in Events
      BY <1>5 DEF MarkPublished, MarkFails, Defer, DeferFails, WorkInHand
    <2>2. UNCHANGED <<copies, expired>> /\ phase[i] \in {"mark", "defer"}
      BY <1>5 DEF MarkPublished, MarkFails, Defer, DeferFails, history
    <2>3. Pending(e)' \subseteq Pending(e)
      BY <1>5, <2>1 DEF MarkPublished, MarkFails, Defer, DeferFails, NextRecord, Pending
    <2>4. q <= p
      BY <2>3, PendingCount DEF p, q
    <2>5. CASE UNCHANGED table
      <3>1. Slack(e)' = Slack(e) /\ attempts'[e] = attempts[e]
        BY <2>5 DEF table, Slack, Free
      <3> QED BY <1>a, <2>2, <2>4, <3>1
    <2>6. CASE SetPublished(i, current[i])
      <3>1. Free(e)' => Free(e)
        BY <2>1, <2>6 DEF SetPublished, Free
      <3>2. Slack(e)' <= Slack(e) /\ attempts'[e] = attempts[e]
        BY <2>6, <3>1 DEF Slack, SetPublished
      <3> QED BY <1>a, <2>2, <2>4, <3>2
    <2>7. CASE SetDeferred(i, current[i])
      <3>1. \/ Slack(e)' = Slack(e) /\ attempts'[e] = attempts[e]
            \/ Slack(e)' <= 1 /\ attempts'[e] = attempts[e] + 1
        <4>1. CASE Holds(i, current[i]) /\ e = current[i]
          BY <1>a, <2>1, <2>7, <4>1 DEF SetDeferred
        <4>2. CASE ~(Holds(i, current[i]) /\ e = current[i])
          BY <2>1, <2>7, <4>2 DEF SetDeferred, Slack, Free
        <4> QED BY <4>1, <4>2
      <3> QED BY <1>a, <2>2, <2>4, <3>1
    <2> QED BY <1>5, <2>5, <2>6, <2>7 DEF MarkPublished, MarkFails, Defer, DeferFails
  <1>6. ASSUME NEW i \in Instances, Restart(i)
        PROVE  copies'[e] + q + Slack(e)' <= 1 + attempts'[e] + expired'[e]
    <2>1. UNCHANGED <<table, copies, expired>> /\ Pending(e)' \subseteq Pending(e)
      BY <1>6 DEF Restart, Pending
    <2>2. q <= p
      BY <2>1, PendingCount DEF p, q
    <2>3. Slack(e)' = Slack(e) /\ attempts'[e] = attempts[e]
      BY <2>1 DEF table, Slack, Free
    <2> QED BY <1>a, <2>1, <2>2, <2>3
  <1> QED BY <1>1, <1>2, <1>3, <1>4, <1>5, <1>6
          DEF Next, Step, Failure, Time, AbandonedLeaseExpires, LeaseOverruns, p, q

\* For any number of rows and replicas, every message beyond the first for
\* one row is paid for by a recorded attempt or an expired lease.
THEOREM DuplicatesBounded == Spec => []DuplicatesExplained
  <1>1. Init => Budget
    <2> SUFFICES ASSUME Init, NEW e \in Events
                 PROVE  copies[e] + Cardinality(Pending(e)) + Slack(e)
                          <= 1 + attempts[e] + expired[e]
      BY DEF Budget
    <2>1. Pending(e) = {}
      BY DEF Init, Pending
    <2>2. Cardinality(Pending(e)) = 0
      BY <2>1, FS_EmptySet
    <2>3. Slack(e) <= 1 /\ Slack(e) \in Nat
      BY DEF Slack
    <2> QED BY <2>2, <2>3 DEF Init
  <1>2. IInv /\ Budget /\ [Next]_vars => Budget'
    BY BudgetStep
  <1>3. IInv /\ Budget => DuplicatesExplained
    <2> SUFFICES ASSUME IInv, Budget, NEW e \in Events
                 PROVE  copies[e] <= 1 + attempts[e] + expired[e]
      BY DEF DuplicatesExplained
    <2>1. Cardinality(Pending(e)) \in Nat /\ Slack(e) \in Nat
      BY PendingCount DEF Slack
    <2> QED BY <2>1 DEF Budget, IInv, TypeOK
  <1> QED BY <1>1, <1>2, <1>3, Invariance, PTL DEF Spec

=============================================================================
