---------------------------- MODULE OrderListing ----------------------------
(***************************************************************************)
(* GET /orders (OrdersController, OrdersService and OrdersRepository.list):*)
(* a client walks the pages of its list while orders are placed and change *)
(* status, and while its role, and with it the scope of the list, changes. *)
(*                                                                         *)
(* Orders are numbered by createdAt, id.  createdAt is set before the      *)
(* order commits, so they appear in any order.  findMany and count run in  *)
(* one transaction at READ COMMITTED: each sees what is committed when it  *)
(* runs.  The filters on restaurant and date never change their answer on  *)
(* an order, so Orders are those they let through.                         *)
(***************************************************************************)
EXTENDS AccessTokens

CONSTANTS MaxOrders,  \* bound: orders the filters on restaurant and date let through
          Mine,       \* those of the client
          Limits,     \* query.limit the client may ask for
          MaxMoves,   \* bound: departures after which no status changes
          MaxFaults   \* bound: pages that fail

Orders == 1 .. MaxOrders
ASSUME ListAssumption ==
  /\ {MaxOrders, MaxMoves, MaxFaults} \subseteq Nat
  /\ Mine \subseteq Orders /\ Limits \subseteq Nat \ {0}
ASSUME ListNullAssumption == NULL \notin [role : Roles, at : Nat, lag : Nat]

VARIABLES
  place,      \* [order -> whether its status is query.status, or NULL]
  limit,      \* query.limit
  filter,     \* query.status: none, PENDING, or one an order reaches later
  phase,      \* "ask", "find", "count" or "done"
  page,       \* query.page
  user,       \* the request's user as the guard left it, or NULL
  data,       \* rows findMany returned to the request in progress
  faults,
  \* what the client got since page 1, and how the list changed meanwhile
  returned, repeats, stable, arrivals, departures

walk == <<limit, filter, phase, page, user, data, faults, returned, repeats>>
tally == <<stable, arrivals, departures>>
vars == <<tokenVars, place, walk, tally>>

Filters == {NULL, "PENDING", "LATER"}
Places == {"at", "off"}

TypeOK ==
  /\ TokenTypeOK
  /\ place \in [Orders -> Places \cup {NULL}]
  /\ limit \in Limits /\ filter \in Filters
  /\ phase \in {"ask", "find", "count", "done"} /\ page \in Nat \ {0}
  /\ user \in [role : Roles, at : Times, lag : Times] \cup {NULL}
  /\ faults \in 0 .. MaxFaults /\ data \subseteq Orders /\ Cardinality(data) <= limit
  /\ returned \subseteq Orders /\ stable \subseteq Orders
  /\ {repeats, arrivals, departures} \subseteq Nat

Init ==
  /\ TokenInit
  /\ place = [o \in Orders |-> NULL]
  /\ limit \in Limits /\ filter \in Filters
  /\ phase = "ask" /\ page = 1 /\ user = NULL /\ data = {} /\ faults = 0
  /\ returned = {} /\ repeats = 0
  /\ stable = {} /\ arrivals = 0 /\ departures = 0

-----------------------------------------------------------------------------
(* Orders *)

\* POST /orders commits an order, in status PENDING.
Create(o) ==
  /\ place[o] = NULL
  /\ place' = [place EXCEPT ![o] = IF filter = "LATER" THEN "off" ELSE "at"]
  /\ UNCHANGED <<tokenVars, walk>>

\* PATCH /orders/:id/status or a payment changes the status of an order.  No
\* transition leads to PENDING; the others may come and go, as a client that
\* sends a version ahead can leave the transition table (OrderLifecycle).
UpdateStatus(o) ==
  /\ filter # NULL /\ departures < MaxMoves
  /\ \/ place[o] = "at" /\ place' = [place EXCEPT ![o] = "off"]
     \/ filter = "LATER" /\ place[o] = "off" /\ place' = [place EXCEPT ![o] = "at"]
  /\ UNCHANGED <<tokenVars, walk>>

-----------------------------------------------------------------------------
(* OrdersService.list, OrdersRepository.list *)

\* where: the user's own orders for a USER, and the status if one is given.
InScope(o) ==
  /\ place[o] # NULL
  /\ user # NULL /\ user.role = "USER" => o \in Mine
  /\ filter # NULL => place[o] = "at"

List == {o \in Orders : InScope(o)}

\* skip: page * limit, as for a page that starts at 0.
SkipsPage == page * limit

\* skip: (page - 1) * (limit - 1).
SkipsShort == (page - 1) * (limit - 1)

Skip == (page - 1) * limit

\* orderBy createdAt desc, id desc; skip; take.
PageRows == {o \in List : Cardinality({p \in List : p >= o}) \in Skip + 1 .. Skip + limit}

Pages == (Cardinality(List) + limit - 1) \div limit

\* The request passes JwtAuthGuard with one of the client's tokens.
Admit(t) ==
  /\ phase = "ask" /\ Verifies(t)
  /\ phase' = "find"
  /\ user' = [role |-> t.role, at |-> now, lag |-> t.issued - t.read]
  /\ UNCHANGED <<tokenVars, place, limit, filter, page, data, faults, returned, repeats>>

FindMany ==
  /\ phase = "find"
  /\ phase' = "count" /\ data' = PageRows
  /\ UNCHANGED <<tokenVars, place, limit, filter, page, user, faults, returned, repeats>>

\* The answer reaches the client, which asks on while page < meta.pages.
CountAndAnswer ==
  /\ phase = "count"
  /\ returned' = returned \cup data
  /\ repeats' = repeats + Cardinality(returned \cap data)
  /\ data' = {}
  /\ IF page < Pages THEN phase' = "ask" /\ page' = page + 1
                     ELSE phase' = "done" /\ UNCHANGED page
  /\ UNCHANGED <<tokenVars, place, limit, filter, user, faults>>

\* The request fails, or its answer is lost: the client asks for the page again.
PageFails ==
  /\ phase \in {"find", "count"} /\ faults < MaxFaults
  /\ faults' = faults + 1
  /\ phase' = "ask" /\ data' = {}
  /\ UNCHANGED <<tokenVars, place, limit, filter, page, user, returned, repeats>>

\* History, kept by every step: how the list changed since page 1 was read.
Tally ==
  IF page = 1 /\ phase # "count"
    THEN stable' = List' /\ arrivals' = 0 /\ departures' = 0
    ELSE /\ stable' = stable \cap List'
         /\ arrivals' = arrivals + Cardinality(List' \ List)
         /\ departures' = departures + Cardinality(List \ List')

Act == \/ TokenStep /\ UNCHANGED <<place, walk>>
       \/ \E o \in Orders : Create(o) \/ UpdateStatus(o)
       \/ \E t \in tokens : Admit(t)
       \/ FindMany \/ CountAndAnswer \/ PageFails

Next == phase # "done" /\ Act /\ Tally

Spec == Init /\ [][Next]_vars

-----------------------------------------------------------------------------
(* Properties *)

\* Types, and an order that was in the list during the whole walk and is on no page the
\* client got was pushed over a page boundary by one that left the list: by
\* offset pagination no more orders are missed than left, however placements,
\* status changes, changes of scope, failed pages and the two statements of a
\* page interleave.
SkipsExplained ==
  TypeOK /\ (phase = "done" => Cardinality(stable \ returned) <= departures)

\* Orders come twice only because others were added in front of them: there
\* are no more repetitions than orders that entered the list.
RepeatsExplained == repeats <= arrivals

\* docs/architecture.md: "Order list scope and payment ownership are enforced
\* in services, not trusted from JWT role alone": a page with orders of others
\* goes to a user whose account had a staff role when the request was admitted.
ScopeNotFromTokenAlone ==
  data \ Mine # {} => held["STAFF"] # NULL /\ user.at <= held["STAFF"]

\* How long the scope of a withdrawn role lasts, as OrdersService.list takes the
\* role from the token: orders of others go to a user who had a staff role at
\* most the lifetime of an access token before the request, plus the time the
\* login or refresh took from reading the role to signing it.  Nothing but the
\* expiry of the token ends it (JwtAuthGuard).
StaleScopeExpires ==
  data \ Mine # {} =>
    held["STAFF"] # NULL /\ user.at < held["STAFF"] + AccessTtl + user.lag

=============================================================================
