---------------------------- MODULE CatalogCache ----------------------------
(***************************************************************************)
(* The cached restaurant catalog: cache-aside reads with a TTL and prefix  *)
(* invalidation after a committed write (restaurants/restaurants.service   *)
(* .ts, common/cache/redis-cache.service.ts).                              *)
(*                                                                         *)
(* The catalog is its version: the number of restaurants committed.  Every *)
(* database or Redis call is one step of a request, and requests of all    *)
(* replicas interleave.                                                    *)
(***************************************************************************)
EXTENDS Naturals

CONSTANTS Requests,    \* concurrent requests
          NoEntry,     \* what a miss returns
          MaxCreates,  \* bound: restaurants created
          MaxFailed    \* bound: failing Redis calls and dying processes

ASSUME CacheBoundsAssumption == MaxCreates \in Nat /\ MaxFailed \in Nat
ASSUME EntryAssumption == NoEntry \notin Nat

VARIABLES
  catalog,    \* committed version of the catalog
  entry,      \* version under restaurants:active:v1, or NoEntry
  phase,      \* [request -> where it is]
  data,       \* [request -> version it has read from the database]
  failed,     \* requests that ended early
  dropped,    \* a committed write never got its invalidation
  raced       \* a reader stored a version that was already outdated

cacheVars == <<catalog, entry, phase, data, failed, dropped, raced>>

Phases == {"idle", "query", "fill", "scan", "delete"}

CacheTypeOK ==
  /\ catalog \in Nat
  /\ entry \in Nat \cup {NoEntry}
  /\ phase \in [Requests -> Phases]
  /\ data \in [Requests -> Nat]
  /\ failed \in Nat
  /\ dropped \in BOOLEAN /\ raced \in BOOLEAN

CacheInit ==
  /\ catalog = 0
  /\ entry = NoEntry
  /\ phase = [r \in Requests |-> "idle"]
  /\ data = [r \in Requests |-> 0]
  /\ failed = 0 /\ dropped = FALSE /\ raced = FALSE

Goto(r, p) == phase' = [phase EXCEPT ![r] = p]

-----------------------------------------------------------------------------
(* listActive *)

\* The cache misses; a hit answers the request and changes nothing.
Miss(r) ==
  /\ phase[r] = "idle" /\ entry = NoEntry
  /\ Goto(r, "query")
  /\ UNCHANGED <<catalog, entry, data, failed, dropped, raced>>

Query(r) ==
  /\ phase[r] = "query"
  /\ data' = [data EXCEPT ![r] = catalog]
  /\ Goto(r, "fill")
  /\ UNCHANGED <<catalog, entry, failed, dropped, raced>>

\* setJson with the TTL: the data read earlier, whatever happened since.
Fill(r) ==
  /\ phase[r] = "fill"
  /\ entry' = data[r]
  /\ raced' = (raced \/ data[r] < catalog)
  /\ data' = [data EXCEPT ![r] = 0]
  /\ Goto(r, "idle")
  /\ UNCHANGED <<catalog, failed, dropped>>

-----------------------------------------------------------------------------
(* create *)

\* The cache is left to its TTL.
CommitOnly(r) ==
  /\ phase[r] = "idle" /\ catalog < MaxCreates
  /\ catalog' = catalog + 1
  /\ UNCHANGED <<entry, phase, data, failed, dropped, raced>>

\* The restaurant is committed; invalidatePrefix comes next.
Commit(r) ==
  /\ phase[r] = "idle" /\ catalog < MaxCreates
  /\ catalog' = catalog + 1
  /\ Goto(r, "scan")
  /\ UNCHANGED <<entry, data, failed, dropped, raced>>

\* SCAN: only a key that exists now is going to be deleted.
ScanKeys(r) ==
  /\ phase[r] = "scan"
  /\ Goto(r, IF entry = NoEntry THEN "idle" ELSE "delete")
  /\ UNCHANGED <<catalog, entry, data, failed, dropped, raced>>

Delete(r) ==
  /\ phase[r] = "delete"
  /\ entry' = NoEntry
  /\ Goto(r, "idle")
  /\ UNCHANGED <<catalog, data, failed, dropped, raced>>

-----------------------------------------------------------------------------
\* Redis fails or the process dies: the request ends where it is.
Fails(r) ==
  /\ phase[r] # "idle"
  /\ failed < MaxFailed /\ failed' = failed + 1
  /\ dropped' = (dropped \/ phase[r] \in {"scan", "delete"})
  /\ data' = [data EXCEPT ![r] = 0]
  /\ Goto(r, "idle")
  /\ UNCHANGED <<catalog, entry, raced>>

\* An entry stored with no TTL.
NeverExpires == FALSE /\ UNCHANGED cacheVars

\* The 60 seconds of the entry are over.
Expire ==
  /\ entry # NoEntry
  /\ entry' = NoEntry
  /\ UNCHANGED <<catalog, phase, data, failed, dropped, raced>>

Proceed(r) == Query(r) \/ Fill(r) \/ ScanKeys(r) \/ Delete(r)

CacheNext ==
  \/ \E r \in Requests : Miss(r) \/ Commit(r) \/ Proceed(r) \/ Fails(r)
  \/ Expire

CacheSpec == CacheInit /\ [][CacheNext]_cacheVars

\* Requests in progress go on, and the TTL runs out.
CacheFairness == WF_cacheVars(Expire) /\ \A r \in Requests : WF_cacheVars(Proceed(r))

CacheFairSpec == CacheSpec /\ CacheFairness
-----------------------------------------------------------------------------
(* Properties *)

Stale == entry # NoEntry /\ entry < catalog

\* Types, and an outdated catalog is served only while a write is between its
\* commit and its invalidation, after an invalidation was lost, or after a reader
\* stored what it had read before the write: a write that finds no reader in
\* progress is visible as soon as it is answered.
StaleExplained ==
  /\ CacheTypeOK
  /\ Stale => \/ \E r \in Requests : phase[r] \in {"scan", "delete"}
              \/ dropped \/ raced

\* "TTL bounds stale display data": whatever invalidation lost and readers
\* stored late, once writes stop the catalog served is the current one.
EventuallyCurrent == <>[](~Stale)
=============================================================================
