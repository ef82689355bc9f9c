------------------------------ MODULE MCTokens ------------------------------
(***************************************************************************)
(* Sessions and OrderListing for TLC: the two lives of a user's tokens.    *)
(* They share no state, so a behaviour is one of either part while the     *)
(* other one rests in an initial state, and the parts are not multiplied.  *)
(***************************************************************************)
EXTENDS Sessions, OrderListing, TLC

VARIABLE part   \* the part this behaviour is about

TokensInit ==
  /\ SessionsInit /\ Init
  /\ part \in {"sessions", "listing"}
  /\ part = "sessions" => role = "USER" /\ filter = NULL /\ limit = 1

TokensNext ==
  /\ UNCHANGED part
  /\ \/ part = "sessions" /\ SessionsNext /\ UNCHANGED vars
     \/ part = "listing" /\ Next /\ UNCHANGED sessionVars

TokensSpec == TokensInit /\ [][TokensNext]_<<sessionVars, vars, part>>

\* Requests are interchangeable.
RequestSymmetry == Permutations(Requests)
=============================================================================
