-------------------------- MODULE MCOrderLifecycle --------------------------
(* Small instances of OrderLifecycle for TLC. *)
EXTENDS OrderLifecycle, TLC

\* Handlers are interchangeable, and so are orders.
RequestSymmetry == Permutations(Handlers) \cup Permutations(Orders)
=============================================================================
