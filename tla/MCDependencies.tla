--------------------------- MODULE MCDependencies ---------------------------
(***************************************************************************)
(* The catalog cache and the broker connection for TLC: what the API makes *)
(* of Redis and of RabbitMQ when they fail.  They share no state, so a     *)
(* behaviour is one of either part while the other one rests in an initial *)
(* state, and the parts are not multiplied.                                *)
(***************************************************************************)
EXTENDS CatalogCache, Readiness

VARIABLE part   \* the part this behaviour is about

DependenciesInit ==
  /\ CacheInit /\ Init
  /\ part \in {"cache", "broker"}
  /\ part = "cache" => broker = "down"

DependenciesNext ==
  /\ UNCHANGED part
  /\ \/ part = "cache" /\ CacheNext /\ UNCHANGED vars
     \/ part = "broker" /\ Next /\ UNCHANGED cacheVars

DependenciesSpec ==
  /\ DependenciesInit /\ [][DependenciesNext]_<<cacheVars, vars, part>>
  /\ part = "cache" => CacheFairness
  /\ part = "broker" => Fairness
=============================================================================
