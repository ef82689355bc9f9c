------------------------ MODULE OrderLifecycleProofs ------------------------
(***************************************************************************)
(* Proofs about OrderLifecycle for every set of orders, handlers and keys, *)
(* whatever version of an order the clients send.                          *)
(***************************************************************************)
EXTENDS OrderLifecycle, TLAPS

\* A request past its checks is about an order that exists.
OrderExists(h) ==
  /\ phase[h] # "idle" => order[h] \in Orders
  /\ phase[h] \in {"apply", "lookup", "begin", "commit"} => status[order[h]] # NULL
  /\ phase[h] \in {"find", "lookup", "begin", "commit"} => key[h] \in Keys

\* What a handler has read is a past state of the row: its version is not
\* ahead, and if the version is unchanged so is the status.
ReadsArePast(h) ==
  phase[h] \in {"apply", "commit"} =>
    /\ seen[h].version <= version[order[h]]
    /\ seen[h].version = version[order[h]] => seen[h].status = status[order[h]]

\* A transition about to be applied was checked against the handler's read.
Checked(h) ==
  phase[h] = "apply" =>
    seen[h].status \in Statuses /\ target[h] \in transitions[seen[h].status]

\* An order seen beyond PENDING does not become pending again.
LeftPending(h) ==
  phase[h] = "commit" /\ seen[h].status # "PENDING" => status[order[h]] # "PENDING"

ReadsOf(h) == OrderExists(h) /\ ReadsArePast(h) /\ Checked(h) /\ LeftPending(h)

Reads == \A h \in Handlers : ReadsOf(h)

\* An order that does not exist has neither versions nor payments.
Uncreated ==
  \A o \in Orders : status[o] = NULL => /\ version[o] = 0
                                        /\ \A k \in Keys : payments[<<k, o>>] = 0

\* Writes so far were decided on versions that are past by now.
BasesArePast == \A o \in Orders : \A v \in Nat : <<o, v>> \in based => v < version[o]

Rows == Uncreated /\ BasesArePast /\ ChargedOnce /\ ReceiptsHonoured /\ PaidIsNotPending

IInv == TypeOK /\ Reads /\ Rows /\ OneWriterPerVersion

-----------------------------------------------------------------------------
(* Type correctness *)

\* Ending a request keeps its registers well typed.
LEMMA FinishType ==
  ASSUME TypeOK, NEW h \in Handlers, Finish(h)
  PROVE  /\ phase' \in [Handlers -> Phases]
         /\ order' \in [Handlers -> Orders \cup {NULL}]
         /\ actor' \in [Handlers -> Actors]
         /\ target' \in [Handlers -> Statuses]
         /\ sent' \in [Handlers -> Nat]
         /\ key' \in [Handlers -> Keys \cup {NULL}]
         /\ seen' \in [Handlers -> Seen]
  BY DEF TypeOK, Finish, Phases, Actors, Statuses, Seen, NothingSeen

\* What a status update brings along.
LEMMA UpdateInputs ==
  ASSUME NEW h \in Handlers, BeginUpdate(h)
  PROVE  \E o \in Orders, a \in Actors, t \in Statuses, v \in Nat :
           /\ order' = [order EXCEPT ![h] = o]
           /\ actor' = [actor EXCEPT ![h] = a]
           /\ target' = [target EXCEPT ![h] = t]
           /\ sent' = [sent EXCEPT ![h] = v]
  <1>1. 1..MaxVersion \subseteq Nat
    BY VersionsAssumption
  <1>2. PICK o \in Orders, a \in Actors, t \in Statuses, v \in 1..MaxVersion :
           /\ order' = [order EXCEPT ![h] = o]
           /\ actor' = [actor EXCEPT ![h] = a]
           /\ target' = [target EXCEPT ![h] = t]
           /\ sent' = [sent EXCEPT ![h] = v]
    BY Zenon DEF BeginUpdate
  <1>3. v \in Nat
    BY <1>1
  <1> QED BY <1>2, <1>3, Zenon

\* Every step keeps the types.
LEMMA TypeStep ==
  ASSUME TypeOK, Reads, [Next]_vars
  PROVE  TypeOK'
  <1>1. CASE UNCHANGED vars
    BY <1>1 DEF TypeOK, vars, database, request, history
  <1>2. ASSUME NEW o \in Orders, Create(o)
        PROVE  TypeOK'
    BY <1>2 DEF TypeOK, Create, request, history, Statuses
  <1>3. ASSUME NEW h \in Handlers, Request(h)
        PROVE  TypeOK'
    <2>1. CASE BeginUpdate(h)
      <3>1. PICK o \in Orders, a \in Actors, t \in Statuses, v \in Nat :
              /\ order' = [order EXCEPT ![h] = o]
              /\ actor' = [actor EXCEPT ![h] = a]
              /\ target' = [target EXCEPT ![h] = t]
              /\ sent' = [sent EXCEPT ![h] = v]
        BY <2>1, UpdateInputs
      <3> QED BY <2>1, <3>1 DEF BeginUpdate, TypeOK, Phases, database, history
    <2>2. CASE Load(h)
      <3>1. seen' \in [Handlers -> Seen]
        BY <2>2 DEF Load, See, TypeOK, Seen, Reads, ReadsOf, OrderExists
      <3> QED BY <2>2, <3>1 DEF Load, Goto, TypeOK, Phases, database, history
    <2>3. CASE LoadRejects(h) \/ ApplyConflict(h) \/ FindRejects(h)
               \/ CommitConflict(h) \/ Abort(h)
      <3>1. Finish(h) /\ UNCHANGED <<database, history>>
        BY <2>3 DEF LoadRejects, ApplyConflict, FindRejects, CommitConflict, Abort
      <3> QED BY <3>1, FinishType DEF TypeOK, database, history
    <2>4. CASE Apply(h)
      <3>1. Finish(h) /\ Writes(h) /\ order[h] \in Orders
        BY <2>4 DEF Apply, Reads, ReadsOf, OrderExists
      <3>2. version' \in [Orders -> Nat] /\ <<order[h], seen[h].version>> \in Orders \X Nat
        BY <3>1 DEF Writes, TypeOK, Seen
      <3>3. based' \subseteq Orders \X Nat /\ clobbered' \subseteq Orders \X Nat \X Nat
        BY <3>1, <3>2 DEF Writes, TypeOK
      <3>4. status' \in [Orders -> Statuses \cup {NULL}]
        BY <2>4, <3>1 DEF Apply, TypeOK
      <3> QED BY <2>4, <3>1, <3>2, <3>3, <3>4, FinishType DEF Apply, TypeOK
    <2>5. CASE BeginPayment(h)
      <3>1. PICK o \in Orders, a \in Actors, k \in Keys :
              /\ order' = [order EXCEPT ![h] = o]
              /\ actor' = [actor EXCEPT ![h] = a]
              /\ key' = [key EXCEPT ![h] = k]
        BY <2>5 DEF BeginPayment
      <3> QED BY <2>5, <3>1 DEF BeginPayment, TypeOK, Phases, database, history
    <2>6. CASE Find(h) \/ LookupMisses(h)
      BY <2>6 DEF Find, LookupMisses, Goto, TypeOK, Phases, database, history
    <2>7. CASE LookupFinds(h)
      <3>1. Finish(h) /\ UNCHANGED <<database, based, clobbered>>
        BY <2>7 DEF LookupFinds
      <3>2. receipts' \subseteq Keys \X Orders
        BY <2>7 DEF LookupFinds, TypeOK, Reads, ReadsOf, OrderExists
      <3> QED BY <3>1, <3>2, FinishType DEF TypeOK, database
    <2>8. CASE BeginTransaction(h)
      <3>1. seen' \in [Handlers -> Seen]
        BY <2>8 DEF BeginTransaction, See, TypeOK, Seen, Reads, ReadsOf, OrderExists
      <3> QED BY <2>8, <3>1 DEF BeginTransaction, Goto, TypeOK, Phases, database, history
    <2>9. CASE CommitPayment(h)
      <3>1. Finish(h) /\ order[h] \in Orders /\ key[h] \in Keys
        BY <2>9 DEF CommitPayment, Reads, ReadsOf, OrderExists
      <3>2. payments' \in [Keys \X Orders -> Nat] /\ events' \in [Keys \X Orders -> Nat]
            /\ receipts' \subseteq Keys \X Orders
        BY <2>9, <3>1 DEF CommitPayment, TypeOK
      <3>3. CASE seen[h].status = "PENDING"
        <4>1. Writes(h) /\ status' = [status EXCEPT ![order[h]] = "CONFIRMED"]
          BY <2>9, <3>3 DEF CommitPayment
        <4>2. version' \in [Orders -> Nat] /\ <<order[h], seen[h].version>> \in Orders \X Nat
          BY <3>1, <4>1 DEF Writes, TypeOK, Seen
        <4>3. based' \subseteq Orders \X Nat /\ clobbered' \subseteq Orders \X Nat \X Nat
          BY <4>1, <4>2 DEF Writes, TypeOK
        <4>4. status' \in [Orders -> Statuses \cup {NULL}]
          BY <3>1, <4>1 DEF TypeOK, Statuses
        <4> QED BY <3>1, <3>2, <4>2, <4>3, <4>4, FinishType DEF TypeOK
      <3>4. CASE seen[h].status # "PENDING"
        <4>1. UNCHANGED <<status, version, based, clobbered>>
          BY <2>9, <3>4 DEF CommitPayment
        <4> QED BY <3>1, <3>2, <4>1, FinishType DEF TypeOK
      <3> QED BY <3>3, <3>4
    <2> QED BY <1>3, <2>1, <2>2, <2>3, <2>4, <2>5, <2>6, <2>7, <2>8, <2>9 DEF Request
  <1> QED BY <1>1, <1>2, <1>3 DEF Next

-----------------------------------------------------------------------------
(* What one step does to a row and to the registers of a handler *)

\* A step leaves an order row alone, creates it, or moves an existing one to
\* a status other than PENDING under the next version.
RowAdvances(o) ==
  \/ status'[o] = status[o] /\ version'[o] = version[o]
  \/ status[o] = NULL /\ status'[o] = "PENDING" /\ version'[o] = 1
  \/ /\ status[o] # NULL /\ status'[o] \in Statuses \ {"PENDING"}
     /\ version'[o] = version[o] + 1

\* The registers of a handler are untouched by a step.
Untouched(g) ==
  /\ phase'[g] = phase[g] /\ order'[g] = order[g] /\ target'[g] = target[g]
  /\ sent'[g] = sent[g] /\ key'[g] = key[g] /\ seen'[g] = seen[g]

\* A request's write moves its own row to a status other than PENDING.
LEMMA WriteAdvances ==
  ASSUME TypeOK, NEW h \in Handlers, order[h] \in Orders, status[order[h]] # NULL,
         NEW t \in Statuses \ {"PENDING"},
         status' = [status EXCEPT ![order[h]] = t], Writes(h)
  PROVE  \A o \in Orders : RowAdvances(o)
  BY DEF TypeOK, Writes, RowAdvances

\* Every step advances every row.
LEMMA RowsAdvance ==
  ASSUME TypeOK, Reads, [Next]_vars
  PROVE  \A o \in Orders : RowAdvances(o)
  <1>1. CASE UNCHANGED <<status, version>>
    BY <1>1 DEF RowAdvances
  <1>2. ASSUME NEW o \in Orders, Create(o)
        PROVE  \A q \in Orders : RowAdvances(q)
    BY <1>2 DEF Create, RowAdvances, TypeOK
  <1>3. ASSUME NEW h \in Handlers, Apply(h)
        PROVE  \A q \in Orders : RowAdvances(q)
    <2>1. target[h] \in Statuses \ {"PENDING"}
      BY <1>3 DEF Apply, Reads, ReadsOf, Checked, transitions, Statuses
    <2> QED BY <1>3, <2>1, WriteAdvances DEF Apply, Reads, ReadsOf, OrderExists
  <1>4. ASSUME NEW h \in Handlers, CommitPayment(h), seen[h].status = "PENDING"
        PROVE  \A q \in Orders : RowAdvances(q)
    <2>1. status' = [status EXCEPT ![order[h]] = "CONFIRMED"] /\ Writes(h)
      BY <1>4 DEF CommitPayment
    <2>2. order[h] \in Orders /\ status[order[h]] # NULL
      BY <1>4 DEF CommitPayment, Reads, ReadsOf, OrderExists
    <2>3. "CONFIRMED" \in Statuses \ {"PENDING"}
      BY DEF Statuses
    <2> QED BY <2>1, <2>2, <2>3, WriteAdvances
  <1>5. ASSUME NEW h \in Handlers, Request(h), ~Apply(h),
               ~(CommitPayment(h) /\ seen[h].status = "PENDING")
        PROVE  UNCHANGED <<status, version>>
    BY <1>5 DEF Request, BeginUpdate, Load, LoadRejects, ApplyConflict, BeginPayment,
       Find, FindRejects, LookupMisses, LookupFinds, BeginTransaction, CommitPayment,
       CommitConflict, Abort, database
  <1>6. CASE UNCHANGED vars
    BY <1>6, <1>1 DEF vars, database
  <1> QED BY <1>1, <1>2, <1>3, <1>4, <1>5, <1>6 DEF Next

\* A request touches its own handler's registers only.
LEMMA OthersUntouched ==
  ASSUME TypeOK, NEW h \in Handlers, Request(h), NEW g \in Handlers, g # h
  PROVE  Untouched(g)
  <1>1. CASE Finish(h)
    BY <1>1 DEF Finish, Untouched, TypeOK
  <1>2. CASE BeginUpdate(h) \/ BeginPayment(h)
    BY <1>2 DEF BeginUpdate, BeginPayment, Untouched, TypeOK
  <1>3. CASE Load(h) \/ Find(h) \/ LookupMisses(h) \/ BeginTransaction(h)
    BY <1>3 DEF Load, Find, LookupMisses, BeginTransaction, Goto, See, Untouched, TypeOK
  <1>4. Finish(h) \/ BeginUpdate(h) \/ BeginPayment(h) \/ Load(h) \/ Find(h)
        \/ LookupMisses(h) \/ BeginTransaction(h)
    BY DEF Request, LoadRejects, Apply, ApplyConflict, FindRejects, LookupFinds,
       CommitPayment, CommitConflict, Abort
  <1> QED BY <1>1, <1>2, <1>3, <1>4

\* Only a step that is not the end of a request leaves its handler busy, and
\* such a step writes no row.
LEMMA BusySteps ==
  ASSUME NEW h \in Handlers, Request(h)
  PROVE  \/ Finish(h)
         \/ /\ UNCHANGED <<status, version>>
            /\ BeginUpdate(h) \/ BeginPayment(h) \/ Load(h) \/ Find(h)
               \/ LookupMisses(h) \/ BeginTransaction(h)
  BY DEF Request, BeginUpdate, Load, LoadRejects, Apply, ApplyConflict, BeginPayment,
     Find, FindRejects, LookupMisses, LookupFinds, BeginTransaction, CommitPayment,
     CommitConflict, Abort, database

-----------------------------------------------------------------------------
(* What the requests in progress have read *)

\* A handler's reads stay in the past in a step that leaves its registers
\* alone, whatever row the step writes.
LEMMA ReadsFrame ==
  ASSUME TypeOK, NEW g \in Handlers, ReadsOf(g),
         \A o \in Orders : RowAdvances(o), Untouched(g)
  PROVE  ReadsOf(g)'
  <1>1. OrderExists(g)'
    BY NullAssumption DEF ReadsOf, OrderExists, RowAdvances, Untouched, Statuses
  <1>2. Checked(g)'
    BY DEF ReadsOf, Checked, Untouched
  <1>3. CASE phase[g] \in {"apply", "commit"}
    <2>1. order[g] \in Orders /\ status[order[g]] # NULL
      BY <1>3 DEF ReadsOf, OrderExists
    <2>2. \/ status'[order[g]] = status[order[g]] /\ version'[order[g]] = version[order[g]]
          \/ /\ status'[order[g]] # "PENDING"
             /\ version'[order[g]] = version[order[g]] + 1
      BY <2>1 DEF RowAdvances
    <2>3. seen[g].version \in Nat /\ version[order[g]] \in Nat
      BY <2>1 DEF TypeOK, Seen
    <2>4. ReadsArePast(g)'
      BY <1>3, <2>2, <2>3 DEF ReadsOf, ReadsArePast, Untouched
    <2>5. LeftPending(g)'
      BY <1>3, <2>2 DEF ReadsOf, LeftPending, Untouched
    <2> QED BY <1>1, <1>2, <2>4, <2>5 DEF ReadsOf
  <1>4. CASE phase[g] \notin {"apply", "commit"}
    <2>1. phase'[g] \notin {"apply", "commit"}
      BY <1>4 DEF Untouched
    <2> QED BY <1>1, <1>2, <2>1 DEF ReadsOf, ReadsArePast, LeftPending
  <1> QED BY <1>3, <1>4

\* The step of a handler keeps its own reads in the past.
LEMMA ReadsOwn ==
  ASSUME TypeOK, NEW h \in Handlers, ReadsOf(h), Request(h)
  PROVE  ReadsOf(h)'
  <1>1. CASE Finish(h)
    <2>1. phase'[h] = "idle"
      BY <1>1 DEF Finish, TypeOK
    <2> QED BY <2>1 DEF ReadsOf, OrderExists, ReadsArePast, Checked, LeftPending
  <1>2. CASE BeginUpdate(h)
    <2>1. phase'[h] = "load" /\ order'[h] \in Orders
      BY <1>2, UpdateInputs DEF BeginUpdate, TypeOK
    <2> QED BY <2>1 DEF ReadsOf, OrderExists, ReadsArePast, Checked, LeftPending
  <1>3. CASE BeginPayment(h)
    <2>1. phase'[h] = "find" /\ order'[h] \in Orders /\ key'[h] \in Keys
      BY <1>3 DEF BeginPayment, TypeOK
    <2> QED BY <2>1 DEF ReadsOf, OrderExists, ReadsArePast, Checked, LeftPending
  <1>4. CASE Load(h)
    <2>1. order[h] \in Orders /\ status[order[h]] # NULL
          /\ target[h] \in transitions[status[order[h]]]
      BY <1>4 DEF Load, MayUpdate, ReadsOf, OrderExists
    <2>2. status[order[h]] \in Statuses /\ version[order[h]] \in Nat
      BY <2>1 DEF TypeOK
    <2>3. /\ phase'[h] = "apply" /\ order'[h] = order[h] /\ target'[h] = target[h]
          /\ seen'[h].status = status[order[h]] /\ seen'[h].version = version[order[h]]
          /\ status' = status /\ version' = version
      BY <1>4 DEF Load, Goto, See, TypeOK, database
    <2> QED BY <2>1, <2>2, <2>3 DEF ReadsOf, OrderExists, ReadsArePast, Checked, LeftPending
  <1>5. CASE Find(h) \/ LookupMisses(h)
    <2>1. /\ phase'[h] \in {"lookup", "begin"}
          /\ order'[h] = order[h] /\ key'[h] = key[h] /\ status' = status
          /\ order[h] \in Orders /\ status[order[h]] # NULL /\ key[h] \in Keys
      BY <1>5 DEF Find, MayPay, LookupMisses, Goto, database, TypeOK, ReadsOf, OrderExists
    <2> QED BY <2>1 DEF ReadsOf, OrderExists, ReadsArePast, Checked, LeftPending
  <1>6. CASE BeginTransaction(h)
    <2>1. /\ order[h] \in Orders /\ status[order[h]] # NULL /\ key[h] \in Keys
          /\ version[order[h]] \in Nat
      BY <1>6 DEF BeginTransaction, ReadsOf, OrderExists, TypeOK
    <2>2. /\ phase'[h] = "commit" /\ order'[h] = order[h] /\ key'[h] = key[h]
          /\ seen'[h].status = status[order[h]] /\ seen'[h].version = version[order[h]]
          /\ status' = status /\ version' = version
      BY <1>6 DEF BeginTransaction, Goto, See, TypeOK, database
    <2> QED BY <2>1, <2>2 DEF ReadsOf, OrderExists, ReadsArePast, Checked, LeftPending
  <1> QED BY <1>1, <1>2, <1>3, <1>4, <1>5, <1>6, BusySteps

\* Every step keeps every handler's reads in the past.
LEMMA ReadsStep ==
  ASSUME TypeOK, Reads, [Next]_vars
  PROVE  Reads'
  <1>1. \A o \in Orders : RowAdvances(o)
    BY RowsAdvance
  <1>2. SUFFICES ASSUME NEW g \in Handlers
                 PROVE  ReadsOf(g)'
    BY DEF Reads
  <1>3. ReadsOf(g)
    BY DEF Reads
  <1>4. CASE Untouched(g)
    BY <1>1, <1>3, <1>4, ReadsFrame
  <1>5. CASE Request(g)
    BY <1>3, <1>5, ReadsOwn
  <1>6. CASE UNCHANGED request
    BY <1>4, <1>6 DEF request, Untouched
  <1>7. UNCHANGED request \/ \E h \in Handlers : Request(h)
    BY DEF Next, Create, vars
  <1> QED BY <1>4, <1>5, <1>6, <1>7, OthersUntouched

-----------------------------------------------------------------------------
(* Rows of the database *)

\* Every step other than the commit of a payment leaves the payments alone.
LEMMA OnlyCommitPays ==
  ASSUME [Next]_vars, ~ \E h \in Handlers : CommitPayment(h)
  PROVE  UNCHANGED <<payments, events>>
  BY DEF Next, Create, Request, BeginUpdate, Load, LoadRejects, Apply, ApplyConflict,
     BeginPayment, Find, FindRejects, LookupMisses, LookupFinds, BeginTransaction,
     CommitConflict, Abort, database, vars

\* The commit of a payment adds the first payment of its key, to an order
\* that exists and that it leaves beyond PENDING.
LEMMA CommitPays ==
  ASSUME TypeOK, NEW h \in Handlers, ReadsOf(h), CommitPayment(h)
  PROVE  /\ <<key[h], order[h]>> \in Keys \X Orders
         /\ \A o \in Orders : payments[<<key[h], o>>] = 0
         /\ payments' = [payments EXCEPT ![<<key[h], order[h]>>] = @ + 1]
         /\ events' = [events EXCEPT ![<<key[h], order[h]>>] = @ + 1]
         /\ receipts' = receipts \cup {<<key[h], order[h]>>}
         /\ status[order[h]] # NULL
         /\ status'[order[h]] # "PENDING"
  <1>1. key[h] \in Keys /\ order[h] \in Orders /\ status[order[h]] # NULL
    BY DEF CommitPayment, ReadsOf, OrderExists
  <1>2. \A o \in Orders : payments[<<key[h], o>>] = 0
    <2>1. ASSUME NEW o \in Orders
          PROVE  payments[<<key[h], o>>] = 0
      <3>1. ~(payments[<<key[h], o>>] > 0)
        BY DEF CommitPayment, MayCommit, KeyUsed
      <3>2. payments[<<key[h], o>>] \in Nat
        BY <1>1 DEF TypeOK
      <3> QED BY <3>1, <3>2
    <2> QED BY <2>1
  <1>3. status'[order[h]] # "PENDING"
    <2>1. CASE seen[h].status = "PENDING"
      BY <1>1, <2>1 DEF CommitPayment, TypeOK
    <2>2. CASE seen[h].status # "PENDING"
      BY <2>2 DEF CommitPayment, ReadsOf, LeftPending
    <2> QED BY <2>1, <2>2
  <1> QED BY <1>1, <1>2, <1>3 DEF CommitPayment

\* A key is charged once, step after step.
LEMMA ChargeStep ==
  ASSUME TypeOK, Reads, ChargedOnce, [Next]_vars
  PROVE  ChargedOnce'
  <1>1. CASE \E h \in Handlers : CommitPayment(h)
    <2>1. PICK h \in Handlers : CommitPayment(h)
      BY <1>1
    <2>2. /\ <<key[h], order[h]>> \in Keys \X Orders
          /\ \A o \in Orders : payments[<<key[h], o>>] = 0
          /\ payments' = [payments EXCEPT ![<<key[h], order[h]>>] = @ + 1]
          /\ events' = [events EXCEPT ![<<key[h], order[h]>>] = @ + 1]
      BY <2>1, CommitPays DEF Reads
    <2>3. ASSUME NEW k \in Keys, NEW o1 \in Orders, NEW o2 \in Orders
          PROVE  /\ payments'[<<k, o1>>] <= 1 /\ events'[<<k, o1>>] = payments'[<<k, o1>>]
                 /\ payments'[<<k, o1>>] > 0 /\ payments'[<<k, o2>>] > 0 => o1 = o2
      <3>1. \A o \in Orders : payments[<<k, o>>] <= 1 /\ events[<<k, o>>] = payments[<<k, o>>]
        BY DEF ChargedOnce
      <3>2. payments[<<k, o1>>] > 0 /\ payments[<<k, o2>>] > 0 => o1 = o2
        BY DEF ChargedOnce
      <3>3. <<k, o1>> \in Keys \X Orders /\ <<k, o2>> \in Keys \X Orders
        OBVIOUS
      <3>4. \A o \in Orders : <<k, o>> # <<key[h], order[h]>>
              => payments'[<<k, o>>] = payments[<<k, o>>] /\ events'[<<k, o>>] = events[<<k, o>>]
        BY <2>2 DEF TypeOK
      <3>5. payments'[<<key[h], order[h]>>] = 1 /\ events'[<<key[h], order[h]>>] = 1
        <4>1. /\ payments[<<key[h], order[h]>>] = 0
              /\ events[<<key[h], order[h]>>] = payments[<<key[h], order[h]>>]
          BY <2>2 DEF ChargedOnce
        <4> QED BY <2>2, <4>1 DEF TypeOK
      <3>6. CASE k # key[h]
        BY <3>1, <3>2, <3>4, <3>6
      <3>7. CASE k = key[h]
        BY <2>2, <3>1, <3>4, <3>5, <3>7
      <3> QED BY <3>6, <3>7
    <2> QED BY <2>3 DEF ChargedOnce
  <1>2. CASE ~ \E h \in Handlers : CommitPayment(h)
    BY <1>2, OnlyCommitPays DEF ChargedOnce
  <1> QED BY <1>1, <1>2

\* Receipts are honoured: a payment a client was told of is never removed.
LEMMA ReceiptStep ==
  ASSUME TypeOK, Reads, ReceiptsHonoured, [Next]_vars
  PROVE  ReceiptsHonoured'
  <1>1. CASE \E h \in Handlers : CommitPayment(h)
    <2>1. PICK h \in Handlers : CommitPayment(h)
      BY <1>1
    <2>2. /\ <<key[h], order[h]>> \in Keys \X Orders
          /\ payments' = [payments EXCEPT ![<<key[h], order[h]>>] = @ + 1]
          /\ receipts' = receipts \cup {<<key[h], order[h]>>}
      BY <2>1, CommitPays DEF Reads
    <2>3. ASSUME NEW r \in receipts'
          PROVE  payments'[r] > 0
      <3>1. r \in Keys \X Orders /\ payments[r] \in Nat
        BY <2>2, <2>3 DEF TypeOK
      <3>2. CASE r = <<key[h], order[h]>>
        BY <2>2, <3>1, <3>2 DEF TypeOK
      <3>3. CASE r # <<key[h], order[h]>>
        BY <2>2, <2>3, <3>1, <3>3 DEF TypeOK, ReceiptsHonoured
      <3> QED BY <3>2, <3>3
    <2> QED BY <2>3 DEF ReceiptsHonoured
  <1>2. CASE ~ \E h \in Handlers : CommitPayment(h)
    <2>1. UNCHANGED payments
      BY <1>2, OnlyCommitPays
    <2>2. CASE UNCHANGED receipts
      BY <2>1, <2>2 DEF ReceiptsHonoured
    <2>3. ASSUME NEW h \in Handlers, LookupFinds(h)
          PROVE  ReceiptsHonoured'
      <3>1. CASE payments[<<key[h], order[h]>>] > 0
        BY <2>1, <2>3, <3>1 DEF LookupFinds, ReceiptsHonoured
      <3>2. CASE ~(payments[<<key[h], order[h]>>] > 0)
        BY <2>1, <2>3, <3>2 DEF LookupFinds, ReceiptsHonoured
      <3> QED BY <3>1, <3>2
    <2>4. UNCHANGED receipts \/ \E h \in Handlers : LookupFinds(h)
      BY <1>2 DEF Next, Create, Request, BeginUpdate, Load, LoadRejects, Apply, ApplyConflict,
         BeginPayment, Find, FindRejects, LookupMisses, BeginTransaction,
         CommitConflict, Abort, history, vars
    <2> QED BY <2>2, <2>3, <2>4
  <1> QED BY <1>1, <1>2

\* Rows that do not exist stay empty, and paid orders stay out of PENDING.
LEMMA PaidStep ==
  ASSUME TypeOK, Reads, Uncreated, PaidIsNotPending, [Next]_vars
  PROVE  Uncreated' /\ PaidIsNotPending'
  <1>1. \A o \in Orders : RowAdvances(o)
    BY RowsAdvance
  <1>2. ASSUME NEW k \in Keys, NEW o \in Orders
        PROVE  /\ status'[o] = NULL => version'[o] = 0 /\ payments'[<<k, o>>] = 0
               /\ payments'[<<k, o>>] > 0 => status'[o] # "PENDING"
    <2>1. status'[o] = NULL => status[o] = NULL /\ version'[o] = version[o]
      BY <1>1, NullAssumption DEF RowAdvances, Statuses
    <2>2. status'[o] = "PENDING" => status[o] = "PENDING" \/ status[o] = NULL
      BY <1>1 DEF RowAdvances
    <2>3. CASE payments'[<<k, o>>] = payments[<<k, o>>]
      <3>1. payments[<<k, o>>] > 0 => status[o] # "PENDING" /\ status[o] # NULL
        <4>1. payments[<<k, o>>] > 0 => status[o] # "PENDING"
          BY DEF PaidIsNotPending
        <4>2. status[o] = NULL => payments[<<k, o>>] = 0
          BY DEF Uncreated
        <4> QED BY <4>1, <4>2
      <3>2. status[o] = NULL => version[o] = 0 /\ payments[<<k, o>>] = 0
        BY DEF Uncreated
      <3> QED BY <2>1, <2>2, <2>3, <3>1, <3>2
    <2>4. CASE payments'[<<k, o>>] # payments[<<k, o>>]
      <3>1. PICK h \in Handlers : CommitPayment(h)
        BY <2>4, OnlyCommitPays
      <3>2. /\ payments' = [payments EXCEPT ![<<key[h], order[h]>>] = @ + 1]
            /\ status[order[h]] # NULL /\ status'[order[h]] # "PENDING"
        BY <3>1, CommitPays DEF Reads
      <3>3. o = order[h]
        BY <2>4, <3>2 DEF TypeOK
      <3> QED BY <2>1, <3>2, <3>3
    <2> QED BY <2>3, <2>4
  <1>3. ASSUME NEW o \in Orders, status'[o] = NULL
        PROVE  version'[o] = 0
    BY <1>1, <1>3, NullAssumption DEF RowAdvances, Statuses, Uncreated
  <1> QED BY <1>2, <1>3 DEF Uncreated, PaidIsNotPending

-----------------------------------------------------------------------------
(* Versions *)

\* The write of a handler is decided on the row's version as it is in the
\* step itself: for a payment by its isolation level, for a status update
\* unless the client sent a version ahead of it.
LEMMA WriteIsCurrent ==
  ASSUME TypeOK, NEW h \in Handlers, ReadsOf(h),
         \/ CommitPayment(h) /\ seen[h].status = "PENDING"
         \/ Apply(h) /\ sent[h] <= seen[h].version
  PROVE  /\ order[h] \in Orders
         /\ seen[h].version = version[order[h]] /\ seen[h].status = status[order[h]]
  <1>1. order[h] \in Orders /\ phase[h] \in {"apply", "commit"}
    BY DEF CommitPayment, Apply, ReadsOf, OrderExists
  <1>2. seen[h].version \in Nat /\ version[order[h]] \in Nat /\ sent[h] \in Nat
    BY <1>1 DEF TypeOK, Seen
  <1>3. seen[h].version <= version[order[h]]
    BY <1>1 DEF ReadsOf, ReadsArePast
  <1>4. CASE CommitPayment(h) /\ seen[h].status = "PENDING"
    <2>1. seen[h].version = version[order[h]]
      BY <1>4 DEF CommitPayment, MayCommit
    <2> QED BY <1>1, <2>1 DEF ReadsOf, ReadsArePast
  <1>5. CASE Apply(h) /\ sent[h] <= seen[h].version
    <2>1. sent[h] <= seen[h].version /\ version[order[h]] = sent[h]
      BY <1>5 DEF Apply, VersionMatches
    <2>2. seen[h].version = version[order[h]]
      BY <1>2, <1>3, <2>1
    <2> QED BY <1>1, <2>2 DEF ReadsOf, ReadsArePast
  <1> QED BY <1>4, <1>5

\* Steps that write a row, and the others.
LEMMA WritingSteps ==
  ASSUME [Next]_vars
  PROVE  \/ UNCHANGED <<status, version, based, clobbered>>
         \/ \E o \in Orders : Create(o)
         \/ \E h \in Handlers : Apply(h)
         \/ \E h \in Handlers : CommitPayment(h) /\ seen[h].status = "PENDING"
  BY DEF Next, Create, Request, BeginUpdate, Load, LoadRejects, ApplyConflict,
     BeginPayment, Find, FindRejects, LookupMisses, LookupFinds, BeginTransaction,
     CommitPayment, CommitConflict, Abort, database, history, vars

\* The bases of writes stay behind the versions of their rows.
LEMMA BasesStep ==
  ASSUME TypeOK, Reads, Uncreated, BasesArePast, [Next]_vars
  PROVE  BasesArePast'
  <1>1. ASSUME NEW h \in Handlers, Writes(h), order[h] \in Orders,
               seen[h].version <= version[order[h]]
        PROVE  BasesArePast'
    <2>1. ASSUME NEW o \in Orders, NEW v \in Nat, <<o, v>> \in based'
          PROVE  v < version'[o]
      <3>1. version[o] \in Nat /\ version'[o] \in {version[o], version[o] + 1}
        BY <1>1 DEF Writes, TypeOK
      <3>2. CASE <<o, v>> \in based
        BY <3>1, <3>2 DEF BasesArePast
      <3>3. CASE <<o, v>> \notin based
        <4>1. o = order[h] /\ v = seen[h].version
          BY <1>1, <2>1, <3>3 DEF Writes
        <4>2. version'[o] = version[o] + 1
          BY <1>1, <4>1 DEF Writes, TypeOK
        <4> QED BY <1>1, <3>1, <4>1, <4>2
      <3> QED BY <3>2, <3>3
    <2> QED BY <2>1 DEF BasesArePast
  <1>2. ASSUME NEW h \in Handlers, Apply(h)
        PROVE  BasesArePast'
    BY <1>1, <1>2 DEF Apply, Reads, ReadsOf, OrderExists, ReadsArePast
  <1>3. ASSUME NEW h \in Handlers, CommitPayment(h), seen[h].status = "PENDING"
        PROVE  BasesArePast'
    BY <1>1, <1>3 DEF CommitPayment, Reads, ReadsOf, OrderExists, ReadsArePast
  <1>4. ASSUME NEW o \in Orders, Create(o)
        PROVE  BasesArePast'
    <2>1. ASSUME NEW q \in Orders, NEW v \in Nat, <<q, v>> \in based'
          PROVE  v < version'[q]
      <3>1. v < version[q]
        BY <1>4, <2>1 DEF Create, history, BasesArePast
      <3>2. q # o
        BY <1>4, <3>1 DEF Create, Uncreated
      <3> QED BY <1>4, <3>1, <3>2 DEF Create, TypeOK
    <2> QED BY <2>1 DEF BasesArePast
  <1>5. CASE UNCHANGED <<status, version, based, clobbered>>
    BY <1>5 DEF BasesArePast
  <1> QED BY <1>2, <1>3, <1>4, <1>5, WritingSteps

\* A further write decided on one version of a row is one that sent a later
\* version.
LEMMA OneWriterStep ==
  ASSUME TypeOK, Reads, BasesArePast, OneWriterPerVersion, [Next]_vars
  PROVE  OneWriterPerVersion'
  <1>1. ASSUME NEW h \in Handlers, Writes(h), order[h] \in Orders,
               seen[h].version = version[order[h]]
        PROVE  OneWriterPerVersion'
    <2>1. version[order[h]] \in Nat
      BY <1>1 DEF TypeOK
    <2>2. <<order[h], seen[h].version>> \notin based
      BY <1>1, <2>1 DEF BasesArePast
    <2> QED BY <1>1, <2>2 DEF Writes, OneWriterPerVersion
  <1>2. ASSUME NEW h \in Handlers, Apply(h)
        PROVE  OneWriterPerVersion'
    <2>1. CASE sent[h] <= seen[h].version
      BY <1>1, <1>2, <2>1, WriteIsCurrent DEF Apply, Reads
    <2>2. CASE ~(sent[h] <= seen[h].version)
      <3>1. sent[h] > seen[h].version
        BY <2>2 DEF TypeOK, Seen
      <3>2. \A c \in clobbered' : c \in clobbered
                                 \/ c = <<order[h], seen[h].version, sent[h]>>
        BY <1>2 DEF Apply, Writes
      <3> QED BY <3>1, <3>2 DEF OneWriterPerVersion
    <2> QED BY <2>1, <2>2
  <1>3. ASSUME NEW h \in Handlers, CommitPayment(h), seen[h].status = "PENDING"
        PROVE  OneWriterPerVersion'
    BY <1>1, <1>3, WriteIsCurrent DEF CommitPayment, Reads
  <1>4. CASE UNCHANGED clobbered
    BY <1>4 DEF OneWriterPerVersion
  <1> QED BY <1>2, <1>3, <1>4, WritingSteps DEF Create, history

-----------------------------------------------------------------------------
(* Theorems *)

\* Before the first request everything holds.
LEMMA InitInv == Init => IInv
  <1> SUFFICES ASSUME Init
               PROVE  IInv
    OBVIOUS
  <1>1. TypeOK
    BY DEF Init, TypeOK, Phases, Actors, Statuses, Seen, NothingSeen
  <1>2. Reads
    BY DEF Init, Reads, ReadsOf, OrderExists, ReadsArePast, Checked, LeftPending
  <1>3. Uncreated /\ BasesArePast /\ ReceiptsHonoured
    BY DEF Init, Uncreated, BasesArePast, ReceiptsHonoured
  <1>4. \A k \in Keys, o \in Orders : payments[<<k, o>>] = 0 /\ events[<<k, o>>] = 0
    BY DEF Init
  <1>5. ChargedOnce /\ PaidIsNotPending
    <2>1. PaidIsNotPending
      <3>1. ASSUME NEW k \in Keys, NEW o \in Orders
            PROVE  ~(payments[<<k, o>>] > 0)
        <4>1. payments[<<k, o>>] = 0
          BY <1>4
        <4> QED BY <4>1
      <3> QED BY <3>1 DEF PaidIsNotPending
    <2>2. ASSUME NEW k \in Keys, NEW o1 \in Orders, NEW o2 \in Orders
          PROVE  /\ payments[<<k, o1>>] <= 1 /\ events[<<k, o1>>] = payments[<<k, o1>>]
                 /\ payments[<<k, o1>>] > 0 /\ payments[<<k, o2>>] > 0 => o1 = o2
      <3>1. payments[<<k, o1>>] = 0 /\ events[<<k, o1>>] = 0
        BY <1>4
      <3> QED BY <3>1
    <2> QED BY <2>1, <2>2 DEF ChargedOnce
  <1>6. OneWriterPerVersion
    BY DEF Init, OneWriterPerVersion
  <1> QED BY <1>1, <1>2, <1>3, <1>5, <1>6 DEF IInv, Rows

\* Every step keeps the inductive invariant.
LEMMA InvStep == IInv /\ [Next]_vars => IInv'
  <1> SUFFICES ASSUME IInv, [Next]_vars
               PROVE  IInv'
    OBVIOUS
  <1>1. TypeOK /\ Reads /\ Uncreated /\ BasesArePast /\ ChargedOnce /\ ReceiptsHonoured
        /\ PaidIsNotPending /\ OneWriterPerVersion
    BY DEF IInv, Rows
  <1>2. TypeOK' /\ Reads'
    BY <1>1, TypeStep, ReadsStep
  <1>3. Rows'
    BY <1>1, BasesStep, ChargeStep, ReceiptStep, PaidStep DEF Rows
  <1>4. OneWriterPerVersion'
    BY <1>1, OneWriterStep
  <1> QED BY <1>2, <1>3, <1>4 DEF IInv

\* The inductive invariant of orders and payments: reads in progress are past
\* states of their rows, and the rows keep what the repositories promise.
THEOREM Invariance == Spec => []IInv
  BY InitInv, InvStep, PTL DEF Spec

\* The registers of requests and the rows stay well typed.
THEOREM TypeCorrect == Spec => []TypeOK
  <1>1. IInv => TypeOK
    BY DEF IInv
  <1> QED BY <1>1, Invariance, PTL

\* PaymentsRepository.complete charges an idempotency key once, whatever
\* requests overlap and however often a client retries.
THEOREM ChargesOnce == Spec => []ChargedOnce
  <1>1. IInv => ChargedOnce
    BY DEF IInv, Rows
  <1> QED BY <1>1, Invariance, PTL

\* PaymentsService.complete answers with a payment only when that order has
\* one under that key.
THEOREM HonoursReceipts == Spec => []ReceiptsHonoured
  <1>1. IInv => ReceiptsHonoured
    BY DEF IInv, Rows
  <1> QED BY <1>1, Invariance, PTL

\* The serializable transaction never leaves a paid order in PENDING, not
\* even when clients send versions they have not read.
THEOREM PaidLeavesPending == Spec => []PaidIsNotPending
  <1>1. IInv => PaidIsNotPending
    BY DEF IInv, Rows
  <1> QED BY <1>1, Invariance, PTL

\* OrdersRepository.updateStatus and PaymentsRepository.complete decide no two
\* writes on one version of an order, unless a client sent a version ahead of
\* the one its handler read.
THEOREM OneWriteWins == Spec => []OneWriterPerVersion
  <1>1. IInv => OneWriterPerVersion
    BY DEF IInv
  <1> QED BY <1>1, Invariance, PTL

\* OrdersService.updateStatus takes an order off the transition table only for
\* a client that sent a version ahead of the one its handler validated, and
\* then along the table from that version; payments never do.
THEOREM TransitionsAreValidated == Spec => ValidatedTransitions
  <1>1. ASSUME IInv, [Next]_vars
        PROVE  [\A o \in Orders : status[o] # NULL /\ status'[o] # status[o] =>
                  \/ status'[o] \in transitions[status[o]]
                  \/ \E h \in Handlers : /\ SentAhead(h) /\ phase'[h] = "idle" /\ order[h] = o
                                         /\ status'[o] \in transitions[seen[h].status]]_vars
    <2>1. SUFFICES ASSUME NEW o \in Orders, status[o] # NULL, status'[o] # status[o],
                          ~ \E h \in Handlers : /\ SentAhead(h) /\ phase'[h] = "idle"
                                                /\ order[h] = o
                                                /\ status'[o] \in transitions[seen[h].status]
                   PROVE  status'[o] \in transitions[status[o]]
      OBVIOUS
    <2>2. TypeOK /\ Reads
      BY <1>1 DEF IInv
    <2>3. ASSUME NEW h \in Handlers, Apply(h)
          PROVE  status'[o] \in transitions[status[o]]
      <3>1. /\ phase[h] = "apply" /\ phase'[h] = "idle" /\ order[h] \in Orders
            /\ target[h] \in transitions[seen[h].status]
        BY <2>2, <2>3 DEF Apply, Finish, TypeOK, Reads, ReadsOf, Checked, OrderExists
      <3>2. order[h] = o /\ status'[o] = target[h]
        BY <2>1, <2>2, <2>3, <3>1 DEF Apply, TypeOK
      <3>3. ~(sent[h] > seen[h].version)
        BY <2>1, <3>1, <3>2 DEF SentAhead
      <3>4. sent[h] <= seen[h].version
        BY <2>2, <3>3 DEF TypeOK, Seen
      <3>5. seen[h].status = status[order[h]]
        BY <2>2, <2>3, <3>4, WriteIsCurrent DEF Reads
      <3> QED BY <3>1, <3>2, <3>5
    <2>4. ASSUME NEW h \in Handlers, CommitPayment(h), seen[h].status = "PENDING"
          PROVE  status'[o] \in transitions[status[o]]
      <3>1. order[h] \in Orders /\ status[order[h]] = "PENDING"
        BY <2>2, <2>4, WriteIsCurrent DEF Reads
      <3>2. o = order[h] /\ status'[o] = "CONFIRMED"
        BY <2>1, <2>2, <2>4, <3>1 DEF CommitPayment, TypeOK
      <3> QED BY <3>1, <3>2 DEF transitions
    <2>5. ASSUME NEW q \in Orders, Create(q)
          PROVE  FALSE
      BY <2>1, <2>2, <2>5 DEF Create, TypeOK
    <2> QED BY <1>1, <2>1, <2>3, <2>4, <2>5, WritingSteps
  <1> QED BY <1>1, Invariance, PTL DEF Spec, ValidatedTransitions
=============================================================================
