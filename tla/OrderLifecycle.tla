--------------------------- MODULE OrderLifecycle ---------------------------
(***************************************************************************)
(* Orders and payments under concurrent requests: OrdersService /          *)
(* OrdersRepository (optimistic locking of status updates) and             *)
(* PaymentsService / PaymentsRepository (idempotency keys, a serializable  *)
(* transaction that confirms a pending order).                             *)
(*                                                                         *)
(* A handler is a request process that runs one request at a time; each    *)
(* database call is one step, so requests interleave between their reads   *)
(* and their writes.  An actor is what the role and ownership checks can   *)
(* tell apart: staff, the order's owner, or another user.                  *)
(***************************************************************************)
EXTENDS Naturals

CONSTANTS Orders, Handlers, Keys,
          NULL,
          MaxVersion       \* bound: versions a client may send

ASSUME VersionsAssumption == MaxVersion \in Nat \ {0}
Statuses == {"PENDING", "CONFIRMED", "PREPARING", "READY", "COMPLETED", "CANCELLED"}
Actors == {"staff", "owner", "other"}

ASSUME NullAssumption == NULL \notin Orders \cup Keys \cup Statuses

VARIABLES
  \* PostgreSQL
  status,       \* [order -> its status, or NULL before it is created]
  version,      \* [order -> version]
  payments,     \* [<<key, order>> -> completed payment rows]
  events,       \* [<<key, order>> -> PaymentCompleted rows of the outbox]
  \* requests in progress
  phase,        \* [handler -> "idle", "load" / "apply", or a step of complete]
  order,        \* [handler -> order of the request]
  actor,        \* [handler -> who sent it]
  target,       \* [handler -> dto.status]
  sent,         \* [handler -> dto.version]
  key,          \* [handler -> Idempotency-Key]
  seen,         \* [handler -> status and version the handler has read]
  \* what clients were told, and which versions writes were based on
  receipts,     \* <<key, order>>: answered with a completed payment
  based,        \* <<order, version>>: a write was decided on that version
  clobbered     \* <<order, version, sent>>: a further write was, by a request
                \* that sent that version (0 for a payment, which sends none)

database == <<status, version, payments, events>>
request  == <<phase, order, actor, target, sent, key, seen>>
history  == <<receipts, based, clobbered>>
vars     == <<database, request, history>>

Phases == {"idle", "load", "apply", "find", "lookup", "begin", "commit"}
Seen == [status : Statuses \cup {NULL}, version : Nat]
NothingSeen == [status |-> NULL, version |-> 0]

TypeOK ==
  /\ status \in [Orders -> Statuses \cup {NULL}]
  /\ version \in [Orders -> Nat]
  /\ payments \in [Keys \X Orders -> Nat]
  /\ events \in [Keys \X Orders -> Nat]
  /\ phase \in [Handlers -> Phases]
  /\ order \in [Handlers -> Orders \cup {NULL}]
  /\ actor \in [Handlers -> Actors]
  /\ target \in [Handlers -> Statuses]
  /\ sent \in [Handlers -> Nat]
  /\ key \in [Handlers -> Keys \cup {NULL}]
  /\ seen \in [Handlers -> Seen]
  /\ receipts \subseteq Keys \X Orders
  /\ based \subseteq Orders \X Nat
  /\ clobbered \subseteq Orders \X Nat \X Nat

Init ==
  /\ status = [o \in Orders |-> NULL]
  /\ version = [o \in Orders |-> 0]
  /\ payments = [p \in Keys \X Orders |-> 0]
  /\ events = [p \in Keys \X Orders |-> 0]
  /\ phase = [h \in Handlers |-> "idle"]
  /\ order = [h \in Handlers |-> NULL]
  /\ actor = [h \in Handlers |-> "other"]
  /\ target = [h \in Handlers |-> "PENDING"]
  /\ sent = [h \in Handlers |-> 0]
  /\ key = [h \in Handlers |-> NULL]
  /\ seen = [h \in Handlers |-> NothingSeen]
  /\ receipts = {} /\ based = {} /\ clobbered = {}

-----------------------------------------------------------------------------
transitions ==
  [PENDING   |-> {"CONFIRMED", "CANCELLED"},
   CONFIRMED |-> {"PREPARING", "CANCELLED"},
   PREPARING |-> {"READY", "CANCELLED"},
   READY     |-> {"COMPLETED"},
   COMPLETED |-> {},
   CANCELLED |-> {}]

\* The request is answered (or dies with its process): nothing is kept.
Finish(h) ==
  /\ phase' = [phase EXCEPT ![h] = "idle"]
  /\ order' = [order EXCEPT ![h] = NULL]
  /\ actor' = [actor EXCEPT ![h] = "other"]
  /\ target' = [target EXCEPT ![h] = "PENDING"]
  /\ sent' = [sent EXCEPT ![h] = 0]
  /\ key' = [key EXCEPT ![h] = NULL]
  /\ seen' = [seen EXCEPT ![h] = NothingSeen]

\* The handler reads the order row.
See(h) == seen' = [seen EXCEPT ![h] = [status  |-> status[order[h]],
                                       version |-> version[order[h]]]]

Goto(h, p) == /\ phase' = [phase EXCEPT ![h] = p]
              /\ UNCHANGED <<order, actor, target, sent, key>>

\* A write to the order, decided on the version the handler has read.
Writes(h) ==
  LET basis == <<order[h], seen[h].version>> IN
  /\ version' = [version EXCEPT ![order[h]] = @ + 1]
  /\ based' = based \cup {basis}
  /\ clobbered' = IF basis \in based
                    THEN clobbered \cup {<<order[h], seen[h].version, sent[h]>>}
                    ELSE clobbered

-----------------------------------------------------------------------------
(* Orders *)

\* OrdersRepository.create commits order o with its items and outbox row.  Its
\* catalog checks either throw, and nothing is kept, or only fix the price.
Create(o) ==
  /\ status[o] = NULL
  /\ status' = [status EXCEPT ![o] = "PENDING"]
  /\ version' = [version EXCEPT ![o] = 1]
  /\ UNCHANGED <<payments, events, request, history>>

\* PATCH /orders/:id/status arrives.  Of the version only @Min(1) is checked:
\* it may be one the order does not have yet.
BeginUpdate(h) ==
  /\ phase[h] = "idle"
  /\ \E o \in Orders, a \in Actors, t \in Statuses, v \in 1..MaxVersion :
       /\ order' = [order EXCEPT ![h] = o]
       /\ actor' = [actor EXCEPT ![h] = a]
       /\ target' = [target EXCEPT ![h] = t]
       /\ sent' = [sent EXCEPT ![h] = v]
  /\ phase' = [phase EXCEPT ![h] = "load"]
  /\ UNCHANGED <<database, key, seen, history>>

\* The checks of OrdersService.updateStatus on the order it has read.
MayUpdate(h) ==
  /\ status[order[h]] # NULL
  /\ actor[h] = "staff" \/ (actor[h] = "owner" /\ target[h] = "CANCELLED")
  /\ target[h] \in transitions[status[order[h]]]

Load(h) ==
  /\ phase[h] = "load" /\ MayUpdate(h)
  /\ See(h)
  /\ Goto(h, "apply")
  /\ UNCHANGED <<database, history>>

\* 404, 403 or 400.
LoadRejects(h) ==
  /\ phase[h] = "load" /\ ~MayUpdate(h)
  /\ Finish(h)
  /\ UNCHANGED <<database, history>>

\* An update by id alone: the last write wins.
AnyVersion(h) == TRUE

\* WHERE id = order AND version = dto.version.
VersionMatches(h) == version[order[h]] = sent[h]

\* OrdersRepository.updateStatus: the guarded update and its audit row.
Apply(h) ==
  /\ phase[h] = "apply" /\ VersionMatches(h)
  /\ status' = [status EXCEPT ![order[h]] = target[h]]
  /\ Writes(h)
  /\ Finish(h)
  /\ UNCHANGED <<payments, events, receipts>>

\* 409: no row matched.
ApplyConflict(h) ==
  /\ phase[h] = "apply" /\ ~VersionMatches(h)
  /\ Finish(h)
  /\ UNCHANGED <<database, history>>

-----------------------------------------------------------------------------
(* Payments *)

\* POST /orders/:id/payments with a well-formed Idempotency-Key arrives.
BeginPayment(h) ==
  /\ phase[h] = "idle"
  /\ \E o \in Orders, a \in Actors, k \in Keys :
       /\ order' = [order EXCEPT ![h] = o]
       /\ actor' = [actor EXCEPT ![h] = a]
       /\ key' = [key EXCEPT ![h] = k]
  /\ phase' = [phase EXCEPT ![h] = "find"]
  /\ UNCHANGED <<database, target, sent, seen, history>>

MayPay(h) == status[order[h]] # NULL /\ actor[h] # "other"

Find(h) ==
  /\ phase[h] = "find" /\ MayPay(h)
  /\ Goto(h, "lookup")
  /\ UNCHANGED <<database, seen, history>>

\* 404 or 403.
FindRejects(h) ==
  /\ phase[h] = "find" /\ ~MayPay(h)
  /\ Finish(h)
  /\ UNCHANGED <<database, history>>

KeyUsed(k) == \E o \in Orders : payments[k, o] > 0

LookupMisses(h) ==
  /\ phase[h] = "lookup" /\ ~KeyUsed(key[h])
  /\ Goto(h, "begin")
  /\ UNCHANGED <<database, seen, history>>

\* The existing payment is returned without looking at its order.
ReplaysAnyOrder(h) ==
  /\ phase[h] = "lookup" /\ KeyUsed(key[h])
  /\ receipts' = receipts \cup {<<key[h], order[h]>>}
  /\ Finish(h)
  /\ UNCHANGED <<database, based, clobbered>>

\* The key has a payment: it is returned, or 409 when it is for another
\* order.
LookupFinds(h) ==
  /\ phase[h] = "lookup" /\ KeyUsed(key[h])
  /\ receipts' = IF payments[key[h], order[h]] > 0
                   THEN receipts \cup {<<key[h], order[h]>>} ELSE receipts
  /\ Finish(h)
  /\ UNCHANGED <<database, based, clobbered>>

\* The serializable transaction takes its snapshot of the order.
BeginTransaction(h) ==
  /\ phase[h] = "begin"
  /\ See(h)
  /\ Goto(h, "commit")
  /\ UNCHANGED <<database, history>>

\* The isolation level is left at its default.
KeyUnused(h) == ~KeyUsed(key[h])

\* The payments table has no unique constraint on the key.
OnlySerializable(h) ==
  seen[h].status = "PENDING" => version[order[h]] = seen[h].version

\* The unique constraint on the key holds, and no concurrent transaction
\* changed the order row this one writes.
MayCommit(h) ==
  /\ ~KeyUsed(key[h])
  /\ seen[h].status = "PENDING" => version[order[h]] = seen[h].version

\* The payment is stored and the order is left as it is.
CommitUnconfirmed(h) ==
  /\ phase[h] = "commit" /\ MayCommit(h)
  /\ payments' = [payments EXCEPT ![<<key[h], order[h]>>] = @ + 1]
  /\ events' = [events EXCEPT ![<<key[h], order[h]>>] = @ + 1]
  /\ receipts' = receipts \cup {<<key[h], order[h]>>}
  /\ Finish(h)
  /\ UNCHANGED <<status, version, based, clobbered>>

\* The payment, its outbox row and, for a pending order, the confirmation.
CommitPayment(h) ==
  /\ phase[h] = "commit" /\ MayCommit(h)
  /\ payments' = [payments EXCEPT ![<<key[h], order[h]>>] = @ + 1]
  /\ events' = [events EXCEPT ![<<key[h], order[h]>>] = @ + 1]
  /\ IF seen[h].status = "PENDING"
       THEN status' = [status EXCEPT ![order[h]] = "CONFIRMED"] /\ Writes(h)
       ELSE UNCHANGED <<status, version, based, clobbered>>
  /\ receipts' = receipts \cup {<<key[h], order[h]>>}
  /\ Finish(h)

\* Unique violation (409) or serialization failure (500): all rolled back.
CommitConflict(h) ==
  /\ phase[h] = "commit" /\ ~MayCommit(h)
  /\ Finish(h)
  /\ UNCHANGED <<database, history>>

-----------------------------------------------------------------------------
\* A database error, a spurious serialization failure or the death of the
\* process ends the request; an open transaction is rolled back.
Abort(h) ==
  /\ phase[h] # "idle"
  /\ Finish(h)
  /\ UNCHANGED <<database, history>>

Request(h) == \/ BeginUpdate(h) \/ Load(h) \/ LoadRejects(h)
              \/ Apply(h) \/ ApplyConflict(h)
              \/ BeginPayment(h) \/ Find(h) \/ FindRejects(h)
              \/ LookupMisses(h) \/ LookupFinds(h) \/ BeginTransaction(h)
              \/ CommitPayment(h) \/ CommitConflict(h) \/ Abort(h)

Next == \/ \E o \in Orders : Create(o)
        \/ \E h \in Handlers : Request(h)

Spec == Init /\ [][Next]_vars
-----------------------------------------------------------------------------
(* Properties *)

\* orders.controller.ts: "Apply a validated order-state transition with
\* optimistic locking": whatever requests overlap, the status stored for an
\* order only moves along the transition table.
OnlyValidTransitions ==
  [][\A o \in Orders : status[o] # NULL /\ status'[o] # status[o]
                         => status'[o] \in transitions[status[o]]]_vars

\* The request of handler h sent a version ahead of the one updateStatus read
\* before its checks, so the guarded update does not test that read.
SentAhead(h) == phase[h] = "apply" /\ sent[h] > seen[h].version

\* What updateStatus and complete do keep of it: a status that leaves the
\* transition table was written by a request that sent a version ahead of the
\* row its handler validated, and is a valid transition from that row.  All
\* other writes, payments and stale clients included, move along the table.
ValidatedTransitions ==
  [][\A o \in Orders : status[o] # NULL /\ status'[o] # status[o] =>
       \/ status'[o] \in transitions[status[o]]
       \/ \E h \in Handlers : /\ SentAhead(h) /\ phase'[h] = "idle" /\ order[h] = o
                              /\ status'[o] \in transitions[seen[h].status]]_vars

\* "One update wins by version": of the writes to an order, status updates and
\* payment confirmations alike, no two were decided on the same version of it,
\* except by a request that sent a version ahead of the one it was decided on.
OneWriterPerVersion == \A c \in clobbered : c[3] > c[2]

\* A key is charged once: one payment and one PaymentCompleted event per
\* idempotency key, over all orders, retries and concurrent requests.
ChargedOnce ==
  \A k \in Keys : \A o1, o2 \in Orders :
    /\ payments[k, o1] <= 1 /\ events[k, o1] = payments[k, o1]
    /\ payments[k, o1] > 0 /\ payments[k, o2] > 0 => o1 = o2

\* A client that is told its payment completed has a payment of that order
\* under its key.
ReceiptsHonoured == \A r \in receipts : payments[r] > 0

\* A paid order never waits for payment: no interleaving with a status
\* update leaves an order with a completed payment in PENDING.
PaidIsNotPending ==
  \A k \in Keys, o \in Orders : payments[k, o] > 0 => status[o] # "PENDING"
=============================================================================
