--------------------------- MODULE ReliableOutbox ---------------------------
(***************************************************************************)
(* What the transactional outbox promises to the rest of the system, with  *)
(* no leases, publishers or failures in sight: an event that a business    *)
(* transaction committed is handed to the broker, and only an event the    *)
(* broker holds is ever settled (never to be published again).             *)
(***************************************************************************)
CONSTANT Events

VARIABLES committed,   \* events whose transaction has committed
          accepted,    \* events the broker holds at least one copy of
          settled      \* events the outbox will never publish again

vars == <<committed, accepted, settled>>

Init == committed = {} /\ accepted = {} /\ settled = {}

Commit(e) == /\ e \notin committed
             /\ committed' = committed \cup {e}
             /\ UNCHANGED <<accepted, settled>>

Accept(e) == /\ e \in committed
             /\ accepted' = accepted \cup {e}
             /\ UNCHANGED <<committed, settled>>

Settle(e) == /\ e \in accepted
             /\ settled' = settled \cup {e}
             /\ UNCHANGED <<committed, accepted>>

Next == \E e \in Events : Commit(e) \/ Accept(e) \/ Settle(e)

Spec == Init /\ [][Next]_vars
=============================================================================
