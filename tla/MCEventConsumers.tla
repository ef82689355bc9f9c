-------------------------- MODULE MCEventConsumers --------------------------
(* Small instances of EventConsumers for TLC. *)
EXTENDS EventConsumers, TLC

NoPoison == {}

\* Every order's notification fails for good.
PoisonOrders == {"notification"} \X Orders

WorkerSymmetry == Permutations(Workers)
=============================================================================
