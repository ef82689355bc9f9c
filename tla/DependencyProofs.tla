-------------------------- MODULE DependencyProofs --------------------------
(***************************************************************************)
(* What the API keeps while the services it depends on fail, for any       *)
(* number of concurrent requests and any number of faults: the catalog     *)
(* behind Redis (CatalogCache), and the connection to RabbitMQ with the    *)
(* answers of the API (Readiness).                                         *)
(***************************************************************************)
EXTENDS CatalogCache, Readiness, FiniteSetTheorems, TLAPS

-----------------------------------------------------------------------------
(* The catalog: staleness *)

\* Initially nothing is cached.
LEMMA InitExplained == CacheInit => StaleExplained
<1> SUFFICES ASSUME CacheInit PROVE StaleExplained
  OBVIOUS
<1>1. CacheTypeOK
  BY DEF CacheInit, CacheTypeOK, Phases
<1>2. ~Stale
  BY DEF CacheInit, Stale
<1> QED
  BY <1>1, <1>2 DEF StaleExplained

\* listActive: a miss moves the reader only, a query remembers the current
\* version, and only storing an outdated one can make the entry stale.
LEMMA ReadersExplained ==
  ASSUME StaleExplained, NEW r \in Requests, Miss(r) \/ Query(r) \/ Fill(r)
  PROVE  StaleExplained'
<1>1. CASE Miss(r)
  <2>1. CacheTypeOK'
    BY <1>1 DEF StaleExplained, CacheTypeOK, Phases, Miss, Goto
  <2>2. ~Stale'
    BY <1>1 DEF Miss, Stale
  <2> QED
    BY <2>1, <2>2 DEF StaleExplained
<1>2. CASE Query(r)
  <2>1. CacheTypeOK'
    BY <1>2 DEF StaleExplained, CacheTypeOK, Phases, Query, Goto
  <2>2. \A s \in Requests : phase[s] \in {"scan", "delete"} => phase'[s] = phase[s]
    BY <1>2 DEF StaleExplained, CacheTypeOK, Query, Goto
  <2> QED
    BY <1>2, <2>1, <2>2 DEF StaleExplained, Stale, Query
<1>3. CASE Fill(r)
  <2>1. CacheTypeOK'
    BY <1>3 DEF StaleExplained, CacheTypeOK, Phases, Fill, Goto
  <2>2. Stale' => raced'
    BY <1>3 DEF StaleExplained, CacheTypeOK, Fill, Stale
  <2> QED
    BY <2>1, <2>2 DEF StaleExplained
<1> QED
  BY <1>1, <1>2, <1>3

\* create: the writer that makes an entry stale is itself the explanation,
\* until it has deleted the entry or has seen that there is none.
LEMMA WritersExplained ==
  ASSUME StaleExplained, NEW r \in Requests, Commit(r) \/ ScanKeys(r) \/ Delete(r)
  PROVE  StaleExplained'
<1>1. CASE Commit(r)
  <2>1. CacheTypeOK'
    BY <1>1 DEF StaleExplained, CacheTypeOK, Phases, Commit, Goto
  <2>2. phase'[r] = "scan"
    BY <1>1 DEF StaleExplained, CacheTypeOK, Commit, Goto
  <2> QED
    BY <2>1, <2>2 DEF StaleExplained
<1>2. CASE ScanKeys(r)
  <2>1. CacheTypeOK'
    BY <1>2 DEF StaleExplained, CacheTypeOK, Phases, ScanKeys, Goto
  <2>2. Stale' => phase'[r] = "delete"
    BY <1>2 DEF StaleExplained, CacheTypeOK, ScanKeys, Goto, Stale
  <2> QED
    BY <2>1, <2>2 DEF StaleExplained
<1>3. CASE Delete(r)
  <2>1. CacheTypeOK'
    BY <1>3 DEF StaleExplained, CacheTypeOK, Phases, Delete, Goto
  <2>2. ~Stale'
    BY <1>3 DEF Delete, Stale
  <2> QED
    BY <2>1, <2>2 DEF StaleExplained
<1> QED
  BY <1>1, <1>2, <1>3

\* A writer that ends before its invalidation leaves the mark of it.
LEMMA FailsExplained ==
  ASSUME StaleExplained, NEW r \in Requests, Fails(r)
  PROVE  StaleExplained'
<1>1. CacheTypeOK'
  BY DEF StaleExplained, CacheTypeOK, Phases, Fails, Goto
<1>2. Stale' => Stale
  BY DEF Fails, Stale
<1>3. (dropped \/ raced) => (dropped' \/ raced')
  BY DEF Fails, StaleExplained, CacheTypeOK
<1>4. ASSUME NEW s \in Requests, phase[s] \in {"scan", "delete"}
      PROVE  dropped' \/ phase'[s] \in {"scan", "delete"}
  <2>1. CASE s = r
    BY <1>4, <2>1 DEF Fails, StaleExplained, CacheTypeOK
  <2>2. CASE s # r
    <3>1. phase'[s] = phase[s]
      BY <2>2 DEF Fails, Goto, StaleExplained, CacheTypeOK
    <3> QED
      BY <1>4, <3>1
  <2> QED
    BY <2>1, <2>2
<1> QED
  BY <1>1, <1>2, <1>3, <1>4 DEF StaleExplained

\* Every step keeps the invariant, the end of the TTL by removing the entry.
LEMMA ExplainedStep == StaleExplained /\ [CacheNext]_cacheVars => StaleExplained'
<1> SUFFICES ASSUME StaleExplained, [CacheNext]_cacheVars
             PROVE  StaleExplained'
  OBVIOUS
<1>1. ASSUME NEW r \in Requests, Miss(r) \/ Commit(r) \/ Proceed(r) \/ Fails(r)
      PROVE  StaleExplained'
  BY <1>1, ReadersExplained, WritersExplained, FailsExplained DEF Proceed
<1>2. CASE Expire
  <2>1. CacheTypeOK'
    BY <1>2 DEF StaleExplained, CacheTypeOK, Expire
  <2>2. ~Stale'
    BY <1>2 DEF Expire, Stale
  <2> QED
    BY <2>1, <2>2 DEF StaleExplained
<1>3. CASE UNCHANGED cacheVars
  BY <1>3 DEF cacheVars, StaleExplained, CacheTypeOK, Stale
<1> QED
  BY <1>1, <1>2, <1>3 DEF CacheNext

\* An outdated catalog is served only while a write is on its way from commit
\* to invalidation, after an invalidation was lost, or after a reader stored
\* what it had read before a write (listActive, create, invalidatePrefix).
THEOREM StalenessExplained == CacheSpec => []StaleExplained
  BY InitExplained, ExplainedStep, PTL DEF CacheSpec

-----------------------------------------------------------------------------
(* The catalog: no version from the future *)

\* Nothing that was read or stored is newer than what is committed, and a
\* query's result is at most the version of now.
NeverAhead ==
  /\ entry # NoEntry => entry <= catalog
  /\ \A r \in Requests : data[r] <= catalog

\* Every step keeps the versions behind the committed one.
LEMMA AheadStep == StaleExplained /\ NeverAhead /\ [CacheNext]_cacheVars => NeverAhead'
<1> SUFFICES ASSUME CacheTypeOK, NeverAhead, [CacheNext]_cacheVars
             PROVE  NeverAhead'
  BY DEF StaleExplained
<1>1. ASSUME NEW r \in Requests, Miss(r) \/ Commit(r) \/ Query(r) \/ Fill(r)
                                 \/ ScanKeys(r) \/ Delete(r) \/ Fails(r)
      PROVE  NeverAhead'
  <2>1. CASE Miss(r) \/ ScanKeys(r) \/ Delete(r)
    BY <2>1 DEF NeverAhead, Miss, ScanKeys, Delete
  <2>2. CASE Commit(r)
    BY <2>2, EntryAssumption DEF NeverAhead, CacheTypeOK, Commit
  <2>3. CASE Query(r)
    BY <2>3 DEF NeverAhead, CacheTypeOK, Query
  <2>4. CASE Fill(r)
    BY <2>4 DEF NeverAhead, CacheTypeOK, Fill
  <2>5. CASE Fails(r)
    BY <2>5 DEF NeverAhead, CacheTypeOK, Fails
  <2> QED
    BY <1>1, <2>1, <2>2, <2>3, <2>4, <2>5
<1>2. CASE Expire
  BY <1>2 DEF NeverAhead, Expire
<1>3. CASE UNCHANGED cacheVars
  BY <1>3 DEF NeverAhead, cacheVars
<1> QED
  BY <1>1, <1>2, <1>3 DEF CacheNext, Proceed

\* Whenever no request is between two of its steps, no invalidation was lost
\* and no reader came late, a hit is the catalog of the database.
FreshAtRest ==
  (~dropped /\ ~raced /\ \A r \in Requests : phase[r] = "idle") => entry \in {NoEntry, catalog}

\* Cache-aside with invalidation after the commit leaves the current catalog or
\* none, and never one that was not committed.
THEOREM CacheFreshAtRest == CacheSpec => []FreshAtRest
<1>1. CacheInit => NeverAhead
  BY DEF CacheInit, NeverAhead
<1>2. StaleExplained /\ NeverAhead => FreshAtRest
  <2> SUFFICES ASSUME StaleExplained, NeverAhead, ~dropped, ~raced, entry # NoEntry,
                      \A r \in Requests : phase[r] = "idle"
               PROVE  entry = catalog
    BY DEF FreshAtRest
  <2>1. ~Stale
    BY DEF StaleExplained
  <2> QED
    BY <2>1 DEF StaleExplained, CacheTypeOK, Stale, NeverAhead
<1> QED
  BY <1>1, <1>2, InitExplained, ExplainedStep, AheadStep, PTL DEF CacheSpec

-----------------------------------------------------------------------------
(* Readiness: the invariant *)

InUse == {"ready", "closing"}
InSetUp == {"connecting", "setup", "lost"}
Leaked == {n \in Connections : connection[n] = "leaked"}

\* this.channel and this.connecting refer to what the state of the connection
\* says, and a connection that is neither is closed or left over.
Referred ==
  /\ channel # NULL => connection[channel] \in InUse
  /\ connecting # NULL => connection[connecting] \in InSetUp
  /\ channel = NULL \/ connecting = NULL
  /\ \A n \in Connections : connection[n] \in InUse => n = channel
  /\ \A n \in Connections : connection[n] \in InSetUp => n = connecting

LeaksCounted == IsFiniteSet(Leaked) /\ Cardinality(Leaked) <= faults

ConnInv == PublisherTypeOK /\ Referred /\ LeaksCounted

-----------------------------------------------------------------------------
(* The set of leaked connections *)

\* Connections that are no longer leaked do not count more.
LEMMA LeaksShrink ==
  ASSUME LeaksCounted, Leaked' \subseteq Leaked, faults \in Nat, faults' \in Nat, faults' >= faults
  PROVE  LeaksCounted'
<1>1. IsFiniteSet(Leaked') /\ Cardinality(Leaked') <= Cardinality(Leaked)
  BY FS_Subset DEF LeaksCounted
<1>2. Cardinality(Leaked) \in Nat /\ Cardinality(Leaked') \in Nat
  BY <1>1, FS_CardinalityType DEF LeaksCounted
<1> QED
  BY <1>1, <1>2 DEF LeaksCounted

\* One more leaked connection is paid for with one fault.
LEMMA LeaksGrow ==
  ASSUME LeaksCounted, NEW n \in Connections, Leaked' = Leaked \cup {n},
         faults \in Nat, faults' = faults + 1
  PROVE  LeaksCounted'
<1>1. /\ IsFiniteSet(Leaked')
      /\ Cardinality(Leaked') \in {Cardinality(Leaked), Cardinality(Leaked) + 1}
  BY FS_AddElement DEF LeaksCounted
<1>2. Cardinality(Leaked) \in Nat
  BY FS_CardinalityType DEF LeaksCounted
<1> QED
  BY <1>1, <1>2 DEF LeaksCounted

-----------------------------------------------------------------------------
(* The steps *)

\* Callers that are told of a failure wait for nothing any more.
LEMMA FailCallsType ==
  ASSUME PublisherTypeOK, NEW n \in Connections, FailCalls(n)
  PROVE  /\ call' \in [Callers -> {"idle", "wait", "sent", "ok", "failed", "hung"}]
         /\ on' \in [Callers -> Connections \cup {NULL}]
         /\ \A c \in Callers : call'[c] \in {"wait", "sent"} <=> on'[c] # NULL
<1>1. PICK end \in {"failed", "hung"} :
        call' = [c \in Callers |-> IF c \notin On(n) THEN call[c]
                                   ELSE IF c = Poller /\ call[c] = "sent" THEN end
                                   ELSE "failed"]
  BY DEF FailCalls
<1>2. on' = [c \in Callers |-> IF c \in On(n) THEN NULL ELSE on[c]]
  BY DEF FailCalls
<1> QED
  BY <1>1, <1>2 DEF PublisherTypeOK

\* One caller moves: to a connection it waits for or has sent on, or to none.
LEMMA CallType ==
  ASSUME PublisherTypeOK, NEW c \in Callers,
         NEW state \in {"idle", "wait", "sent", "ok", "failed"},
         NEW n \in Connections \cup {NULL}, Call(c, state, n),
         state \in {"wait", "sent"} <=> n # NULL
  PROVE  /\ call' \in [Callers -> {"idle", "wait", "sent", "ok", "failed", "hung"}]
         /\ on' \in [Callers -> Connections \cup {NULL}]
         /\ \A d \in Callers : call'[d] \in {"wait", "sent"} <=> on'[d] # NULL
  BY DEF PublisherTypeOK, Call

\* Connections are numbers, so that none of them is NULL.
LEMMA ConnectionsAreNotNull == NULL \notin Connections /\ Connections \subseteq Nat
  BY PublisherAssumption DEF Connections

\* ensureConnected: the single flight.  A connection is opened only when there
\* is none in use and none being set up.
LEMMA EnsureConnectedInv ==
  ASSUME ConnInv, NEW c \in Callers, EnsureConnected(c)
  PROVE  ConnInv'
<1> USE ConnectionsAreNotNull
<1>1. CASE SendAtOnce(c)
  <2>1. PublisherTypeOK'
    BY <1>1, CallType DEF ConnInv, PublisherTypeOK, EnsureConnected, SendAtOnce, service
  <2> QED
    BY <1>1, <2>1 DEF ConnInv, Referred, LeaksCounted, Leaked, SendAtOnce, EnsureConnected, service
<1>2. CASE JoinConnecting(c)
  <2>1. PublisherTypeOK'
    BY <1>2, CallType DEF ConnInv, PublisherTypeOK, EnsureConnected, JoinConnecting, service
  <2> QED
    BY <1>2, <2>1 DEF ConnInv, Referred, LeaksCounted, Leaked, JoinConnecting, EnsureConnected, service
<1>3. CASE StartConnecting(c)
  <2>1. PICK n \in Connections :
          /\ connection[n] = "none"
          /\ connection' = [connection EXCEPT ![n] = "connecting"]
          /\ connecting' = n
          /\ Call(c, "wait", n)
          /\ UNCHANGED channel
    BY <1>3 DEF StartConnecting, Connect, Unused
  <2>2. PublisherTypeOK'
    <3>1. /\ call' \in [Callers -> {"idle", "wait", "sent", "ok", "failed", "hung"}]
          /\ on' \in [Callers -> Connections \cup {NULL}]
          /\ \A d \in Callers : call'[d] \in {"wait", "sent"} <=> on'[d] # NULL
      BY <2>1, CallType DEF ConnInv
    <3> QED
      BY <2>1, <3>1 DEF ConnInv, PublisherTypeOK, States, EnsureConnected
  <2>3. Referred'
    BY <1>3, <2>1 DEF ConnInv, Referred, PublisherTypeOK, StartConnecting, InUse, InSetUp
  <2>4. Leaked' = Leaked /\ UNCHANGED faults
    BY <2>1 DEF Leaked, ConnInv, PublisherTypeOK, EnsureConnected
  <2> QED
    BY <2>2, <2>3, <2>4 DEF ConnInv, LeaksCounted
<1> QED
  BY <1>1, <1>2, <1>3 DEF EnsureConnected

\* A reply, or a probe that takes the outcome of its ping, frees the caller.
LEMMA CallerFreedInv ==
  ASSUME ConnInv, NEW c \in Callers,
         \/ Reply(c)
         \/ /\ call[c] \in {"ok", "failed"} /\ call' = [call EXCEPT ![c] = "idle"]
            /\ UNCHANGED <<broker, service, on, faults>>
  PROVE  ConnInv'
<1> USE ConnectionsAreNotNull
<1>1. UNCHANGED <<broker, connection, channel, connecting, faults>>
  BY DEF Reply, service
<1>2. PublisherTypeOK'
  <2>1. CASE Reply(c)
    BY <1>1, <2>1, CallType DEF ConnInv, PublisherTypeOK, Reply
  <2>2. CASE /\ call[c] \in {"ok", "failed"} /\ call' = [call EXCEPT ![c] = "idle"]
             /\ UNCHANGED on
    BY <1>1, <2>2 DEF ConnInv, PublisherTypeOK
  <2> QED
    BY <2>1, <2>2
<1> QED
  BY <1>1, <1>2 DEF ConnInv, Referred, LeaksCounted, Leaked

\* connect goes on, ends in a channel, or rejects.
LEMMA ConnectInv ==
  ASSUME ConnInv, NEW n \in Connections,
         Connected(n) \/ ConnectRejects(n) \/ SetUp(n) \/ SetUpFails(n) \/ Closed(n)
  PROVE  ConnInv'
<1> USE ConnectionsAreNotNull
<1>0. faults \in Nat
  BY PublisherAssumption DEF ConnInv, PublisherTypeOK
<1>1. CASE Connected(n)
  <2>1. PublisherTypeOK'
    BY <1>1 DEF ConnInv, PublisherTypeOK, States, Connected
  <2>2. Referred'
    BY <1>1 DEF ConnInv, PublisherTypeOK, Referred, InUse, InSetUp, Connected
  <2>3. Leaked' = Leaked /\ UNCHANGED faults
    BY <1>1 DEF Leaked, ConnInv, PublisherTypeOK, Connected
  <2> QED
    BY <2>1, <2>2, <2>3 DEF ConnInv, LeaksCounted
<1>2. CASE ConnectRejects(n)
  <2>1. PublisherTypeOK'
    BY <1>2, FailCallsType DEF ConnInv, PublisherTypeOK, States, ConnectRejects
  <2>2. Referred'
    BY <1>2 DEF ConnInv, PublisherTypeOK, Referred, InUse, InSetUp, ConnectRejects
  <2>3. Leaked' = Leaked /\ UNCHANGED faults
    BY <1>2 DEF Leaked, ConnInv, PublisherTypeOK, ConnectRejects
  <2> QED
    BY <2>1, <2>2, <2>3 DEF ConnInv, LeaksCounted
<1>3. CASE SetUp(n)
  <2>1. PublisherTypeOK'
    BY <1>3 DEF ConnInv, PublisherTypeOK, States, SetUp, On
  <2>2. Referred'
    BY <1>3 DEF ConnInv, PublisherTypeOK, Referred, InUse, InSetUp, SetUp
  <2>3. Leaked' = Leaked /\ UNCHANGED faults
    BY <1>3 DEF Leaked, ConnInv, PublisherTypeOK, SetUp
  <2> QED
    BY <2>1, <2>2, <2>3 DEF ConnInv, LeaksCounted
<1>4. CASE SetUpFails(n)
  <2>1. PublisherTypeOK'
    BY <1>4, FailCallsType, PublisherAssumption DEF ConnInv, PublisherTypeOK, States, SetUpFails, Fault
  <2>2. Referred'
    BY <1>4 DEF ConnInv, PublisherTypeOK, Referred, InUse, InSetUp, SetUpFails
  <2>3. Leaked' = Leaked \cup {n} /\ faults' = faults + 1
    BY <1>4 DEF Leaked, ConnInv, PublisherTypeOK, SetUpFails, Fault
  <2>4. LeaksCounted'
    BY <1>0, <2>3, LeaksGrow DEF ConnInv
  <2> QED
    BY <2>1, <2>2, <2>4 DEF ConnInv
<1>5. CASE Closed(n)
  <2>1. PublisherTypeOK'
    BY <1>5, FailCallsType DEF ConnInv, PublisherTypeOK, States, Closed
  <2>2. Referred'
    BY <1>5 DEF ConnInv, PublisherTypeOK, Referred, InUse, InSetUp, Closed
  <2>3. Leaked' = Leaked /\ UNCHANGED faults
    BY <1>5 DEF Leaked, ConnInv, PublisherTypeOK, Closed
  <2> QED
    BY <2>1, <2>2, <2>3 DEF ConnInv, LeaksCounted
<1> QED
  BY <1>1, <1>2, <1>3, <1>4, <1>5

\* Losing connections keeps the references: lost and closing ones are still
\* referred to until connect rejects or the close event is handled.
LEMMA LoseInv ==
  ASSUME ConnInv, NEW lost \in SUBSET Open, Lose(lost), broker' \in {"up", "down"}
  PROVE  ConnInv'
<1> USE ConnectionsAreNotNull
<1>0. faults \in Nat /\ faults' = faults + 1 /\ faults' \in 0 .. MaxFaults
  BY PublisherAssumption DEF ConnInv, PublisherTypeOK, Lose, Fault
<1>1. \A n \in Connections :
        /\ n \notin lost => connection'[n] = connection[n]
        /\ n \in lost => \/ connection[n] = "setup" /\ connection'[n] = "lost"
                         \/ connection[n] = "ready" /\ connection'[n] = "closing"
                         \/ connection[n] = "leaked" /\ connection'[n] = "none"
  BY DEF Lose, Open, Gone
<1>2. connection' \in [Connections -> States]
  <2>1. \A n \in Connections : connection'[n] \in States
    BY <1>1 DEF ConnInv, PublisherTypeOK, States
  <2> QED
    BY <2>1 DEF Lose
<1>3. PublisherTypeOK'
  BY <1>0, <1>2 DEF ConnInv, PublisherTypeOK, Lose
<1>4. Referred'
  BY <1>1 DEF ConnInv, PublisherTypeOK, Referred, InUse, InSetUp, Lose
<1>5. Leaked' \subseteq Leaked
  BY <1>1 DEF Leaked
<1>6. LeaksCounted'
  BY <1>0, <1>5, LeaksShrink DEF ConnInv
<1> QED
  BY <1>3, <1>4, <1>6 DEF ConnInv

\* The broker, the network and the process.
LEMMA TroubleInv ==
  ASSUME ConnInv, ConnectionLost \/ BrokerStops \/ BrokerStarts \/ Restart
  PROVE  ConnInv'
<1> USE ConnectionsAreNotNull
<1>1. CASE ConnectionLost
  BY <1>1, LoseInv DEF ConnectionLost, ConnInv, PublisherTypeOK
<1>2. CASE BrokerStops
  BY <1>2, LoseInv DEF BrokerStops
<1>3. CASE BrokerStarts
  BY <1>3 DEF BrokerStarts, ConnInv, PublisherTypeOK, Referred, LeaksCounted, Leaked, service
<1>4. CASE Restart
  <2>1. PublisherTypeOK'
    BY <1>4, PublisherAssumption DEF ConnInv, PublisherTypeOK, States, Restart, Fault
  <2>2. Referred'
    BY <1>4 DEF Referred, InUse, InSetUp, Restart
  <2>3. Leaked' \subseteq Leaked
    BY <1>4 DEF Leaked, Restart
  <2>4. faults \in Nat /\ faults' = faults + 1
    BY <1>4, PublisherAssumption DEF ConnInv, PublisherTypeOK, Restart, Fault
  <2>5. LeaksCounted'
    BY <2>3, <2>4, LeaksShrink DEF ConnInv
  <2> QED
    BY <2>1, <2>2, <2>5 DEF ConnInv
<1> QED
  BY <1>1, <1>2, <1>3, <1>4

-----------------------------------------------------------------------------
(* One connection *)

\* The process starts without a connection.
LEMMA InitConn == Init => ConnInv
<1> SUFFICES ASSUME Init PROVE ConnInv
  OBVIOUS
<1> USE ConnectionsAreNotNull
<1>1. PublisherTypeOK /\ Referred
  BY PublisherAssumption DEF Init, PublisherInit, PublisherTypeOK, States, Referred, InUse, InSetUp
<1>2. Leaked = {}
  BY DEF Leaked, Init, PublisherInit
<1>3. LeaksCounted
  BY <1>2, FS_EmptySet DEF LeaksCounted, Init, PublisherInit
<1> QED
  BY <1>1, <1>3 DEF ConnInv

\* Every step of the process and of its surroundings keeps the invariant.
LEMMA ConnStep == ConnInv /\ [Next]_vars => ConnInv'
<1> SUFFICES ASSUME ConnInv, [Next]_vars
             PROVE  ConnInv'
  OBVIOUS
<1>1. UNCHANGED publisherVars => ConnInv'
  BY DEF publisherVars, service, ConnInv, PublisherTypeOK, Referred, LeaksCounted, Leaked, On
<1>2. ASSUME NEW r \in Probes, Request(r)
      PROVE  ConnInv'
  <2>1. r \in Callers
    BY DEF Callers
  <2>2. ASSUME NEW x \in DOMAIN Routes, NEW credential \in Credentials,
               Refuse(r, x, credential) \/ Admit(r, x, credential)
        PROVE  ConnInv'
    BY <1>1, <2>2 DEF Refuse, Admit
  <2>6. CASE Reject(r)
    BY <1>1, <2>6 DEF Reject
  <2>3. CASE Handle(r)
    BY <1>1, <2>3 DEF Handle
  <2>4. CASE Ping(r)
    BY <2>1, <2>4, EnsureConnectedInv DEF Ping
  <2>5. CASE Settled(r)
    BY <2>1, <2>5, CallerFreedInv DEF Settled
  <2> QED
    BY <1>2, <2>2, <2>3, <2>4, <2>5, <2>6 DEF Request
<1>3. CASE PollerPublishes
  BY <1>3, EnsureConnectedInv DEF PollerPublishes, Callers
<1>4. CASE Progress
  BY <1>4, ConnectInv, CallerFreedInv DEF Progress
<1>5. CASE Trouble
  BY <1>5, ConnectInv, TroubleInv DEF Trouble
<1>6. CASE RequestsDie
  BY <1>6, TroubleInv DEF RequestsDie
<1> QED
  BY <1>1, <1>2, <1>3, <1>4, <1>5, <1>6 DEF Next, Act, vars

\* However many probes and polls need a connection at once, and whatever they
\* meet, the process holds one: in use or being set up, never both; the
\* connections left open are as many as set-ups were refused (ensureConnected,
\* connect and the close handler of rabbit-publisher.service.ts).
THEOREM OneConnection == Spec => []ConnectionsAccounted
<1>1. ConnInv => ConnectionsAccounted
  <2> SUFFICES ASSUME ConnInv PROVE ConnectionsAccounted
    OBVIOUS
  <2> USE ConnectionsAreNotNull
  <2> DEFINE held == {n \in Connections : connection[n] \notin {"none", "leaked"}}
  <2>1. held = {channel, connecting} \ {NULL}
    <3>1. \A n \in held : n = channel \/ n = connecting
      BY DEF ConnInv, PublisherTypeOK, States, Referred, InUse, InSetUp
    <3>2. channel # NULL => channel \in held
      BY DEF ConnInv, PublisherTypeOK, Referred, InUse
    <3>3. connecting # NULL => connecting \in held
      BY DEF ConnInv, PublisherTypeOK, Referred, InSetUp
    <3> QED
      BY <3>1, <3>2, <3>3
  <2>2. NULL \in {channel, connecting}
    BY DEF ConnInv, Referred
  <2>3. Cardinality({n \in Connections : connection[n] = "leaked"}) <= faults
    BY DEF ConnInv, LeaksCounted, Leaked
  <2> QED
    BY <2>1, <2>2, <2>3 DEF ConnectionsAccounted
<1> QED
  BY <1>1, InitConn, ConnStep, PTL DEF Spec

-----------------------------------------------------------------------------
(* Readiness *)

\* A connection that is open is one to a broker that is up.
OpenMeansUp == Open # {} => broker = "up"

\* A request that is no readiness probe has no call at the publisher, and a
\* probe whose ping succeeded has reached the broker.
PingsHonest ==
  \A r \in Probes : /\ route[r] # "ready" => call[r] = "idle"
                    /\ route[r] = "ready" /\ call[r] = "ok" => reached[r]

AnswersHonest == answer # NULL /\ answer.route = "ready" /\ answer.sent = 200 => answer.reached

RequestsType ==
  /\ route \in [Probes -> DOMAIN Routes \cup {NULL}]
  /\ answer \in Answers \cup {NULL}
  /\ reached \in [Probes -> BOOLEAN]

ReadyInv == OpenMeansUp /\ PingsHonest /\ AnswersHonest /\ RequestsType

\* The filter and the routes answer with statuses.
LEMMA AnswerStatuses ==
  /\ \A exception \in Exceptions \cup Rejections : StatusOf(exception) \in Statuses
  /\ \A x \in DOMAIN Routes : Routes[x].status \in Statuses
<1>1. ASSUME NEW exception \in Exceptions \cup Rejections PROVE StatusOf(exception) \in Statuses
  <2>1. CASE exception \in {"HttpException"} \X {400, 403, 404, 409, 413}
    BY <2>1 DEF StatusOf, Statuses
  <2>2. CASE exception = <<"P2002", NULL>>
    BY <2>2 DEF StatusOf, Statuses
  <2>3. CASE exception = <<"Error", NULL>>
    BY <2>3 DEF StatusOf, Statuses
  <2> QED
    BY <2>1, <2>2, <2>3 DEF Exceptions, Rejections
<1>2. \A x \in DOMAIN Routes : Routes[x].status \in Statuses
  BY DEF Routes, Statuses
<1> QED
  BY <1>1, <1>2

\* Connections open only while the broker is up, and none outlives it.
LEMMA OpenStep ==
  ASSUME ConnInv, OpenMeansUp, [Next]_vars
  PROVE  OpenMeansUp'
<1>1. CASE UNCHANGED <<broker, connection>>
  BY <1>1 DEF OpenMeansUp, Open
<1>2. ASSUME NEW n \in Connections, Connected(n) PROVE OpenMeansUp'
  BY <1>2 DEF Connected, OpenMeansUp
<1>3. ASSUME UNCHANGED broker, Open' \subseteq Open PROVE OpenMeansUp'
  BY <1>3 DEF OpenMeansUp
<1>4. ASSUME NEW n \in Connections, ConnectRejects(n) \/ SetUp(n) \/ SetUpFails(n) \/ Closed(n)
      PROVE  OpenMeansUp'
  <2>1. UNCHANGED broker /\ Open' \subseteq Open
    BY <1>4 DEF ConnectRejects, SetUp, SetUpFails, Closed, Open, ConnInv, PublisherTypeOK
  <2> QED
    BY <1>3, <2>1
<1>5. CASE ConnectionLost
  <2>1. PICK n \in Open : Lose({n})
    BY <1>5 DEF ConnectionLost
  <2>2. Open' \subseteq Open
    BY <2>1 DEF Lose, Gone, Open, ConnInv, PublisherTypeOK
  <2> QED
    BY <1>3, <1>5, <2>2 DEF ConnectionLost
<1>6. CASE BrokerStops
  <2>1. \A n \in Open : connection'[n] \in {"lost", "closing", "none"}
    BY <1>6 DEF BrokerStops, Lose, Gone, Open, ConnInv, PublisherTypeOK
  <2>2. \A n \in Connections \ Open : connection'[n] = connection[n]
    BY <1>6 DEF BrokerStops, Lose, ConnInv, PublisherTypeOK
  <2>3. Open' = {}
    BY <2>1, <2>2 DEF Open
  <2> QED
    BY <2>3 DEF OpenMeansUp
<1>7. CASE BrokerStarts
  BY <1>7 DEF BrokerStarts, OpenMeansUp
<1>8. CASE Restart
  BY <1>8 DEF Restart, OpenMeansUp, Open
<1>9. ASSUME NEW c \in Callers, EnsureConnected(c)
      PROVE  OpenMeansUp'
  <2>1. UNCHANGED broker /\ Open' \subseteq Open
    BY <1>9 DEF EnsureConnected, SendAtOnce, JoinConnecting, StartConnecting, Connect, service,
                Open, ConnInv, PublisherTypeOK
  <2> QED
    BY <1>3, <2>1
<1>10. ASSUME NEW r \in Probes, Request(r), ~Ping(r)
       PROVE  UNCHANGED <<broker, connection>>
  BY <1>10 DEF Request, Reject, Refuse, Admit, Handle, Settled, publisherVars, service
<1>11. ASSUME NEW r \in Probes, Request(r) PROVE OpenMeansUp'
  BY <1>1, <1>9, <1>10, <1>11 DEF Ping, Callers
<1>12. ASSUME NEW c \in Callers, Reply(c) PROVE OpenMeansUp'
  BY <1>1, <1>12 DEF Reply, service
<1> QED
  BY <1>1, <1>2, <1>4, <1>5, <1>6, <1>7, <1>8, <1>9, <1>11, <1>12
     DEF Next, Act, Progress, Trouble, PollerPublishes, RequestsDie, Callers, vars, publisherVars, service

\* What connections, broker and poller do to the call of a probe: they change
\* one in progress only, and make it succeed only while the broker answers.
LEMMA CallMoves ==
  ASSUME ConnInv, OpenMeansUp, NEW r \in Probes, PollerPublishes \/ Progress \/ Trouble
  PROVE  \/ call'[r] = call[r]
         \/ call[r] \in {"wait", "sent"} /\ call'[r] # "idle" /\ (call'[r] = "ok" => Reachable')
<1>0. r \in Callers /\ r # Poller /\ call \in [Callers -> {"idle", "wait", "sent", "ok", "failed", "hung"}]
      /\ (call[r] \in {"wait", "sent"} <=> on[r] # NULL)
  BY PublisherAssumption DEF Callers, ConnInv, PublisherTypeOK
<1>1. CASE PollerPublishes
  BY <1>0, <1>1 DEF PollerPublishes, EnsureConnected, SendAtOnce, JoinConnecting, StartConnecting,
                    Connect, Call
<1>2. ASSUME NEW n \in Connections, FailCalls(n)
      PROVE  call'[r] = call[r] \/ (call[r] \in {"wait", "sent"} /\ call'[r] = "failed")
  BY <1>0, <1>2, ConnectionsAreNotNull DEF FailCalls, On
<1>3. ASSUME NEW n \in Connections, SetUp(n)
      PROVE  call'[r] = call[r] \/ (call[r] \in {"wait", "sent"} /\ call'[r] = "sent")
  BY <1>0, <1>3, ConnectionsAreNotNull DEF SetUp, On
<1>4. ASSUME NEW c \in Callers, Reply(c)
      PROVE  call'[r] = call[r] \/ (call[r] = "sent" /\ call'[r] = "ok" /\ Reachable')
  <2>1. CASE c # r
    BY <1>0, <1>4, <2>1 DEF Reply, Call
  <2>2. CASE c = r
    <3>1. on[r] \in Connections /\ connection[on[r]] = "ready" /\ call[r] = "sent"
      BY <1>0, <1>4, <2>2 DEF Reply, ConnInv, PublisherTypeOK
    <3>2. channel = on[r]
      BY <3>1 DEF ConnInv, Referred, InUse
    <3>3. broker = "up"
      BY <3>1 DEF OpenMeansUp, Open
    <3>4. UNCHANGED <<broker, connection, channel>> /\ call'[r] = "ok"
      BY <1>0, <1>4, <2>2 DEF Reply, Call, service
    <3> QED
      BY <3>1, <3>2, <3>3, <3>4, ConnectionsAreNotNull DEF Reachable
  <2> QED
    BY <2>1, <2>2
<1>5. CASE UNCHANGED call
  BY <1>5
<1> QED
  BY <1>1, <1>2, <1>3, <1>4, <1>5
     DEF Progress, Trouble, Connected, ConnectRejects, Closed, SetUpFails, ConnectionLost, BrokerStops,
         BrokerStarts, Lose

\* The history of a probe in progress is kept.
LEMMA Tracked ==
  ASSUME Track, RequestsType, NEW r \in Probes, route'[r] = "ready"
  PROVE  reached'[r] = (reached[r] \/ Reachable')
  BY DEF Track, RequestsType

\* An answered request leaves the honest answers and types behind.
LEMMA AnswerKeeps ==
  ASSUME RequestsType, Track, NEW r \in Probes, route[r] # NULL, NEW status \in Statuses,
         Answer(r, status), route[r] = "ready" /\ status = 200 => reached[r]
  PROVE  RequestsType' /\ AnswersHonest'
<1>1. route[r] \in DOMAIN Routes /\ CountedStatus(r) \in Statuses /\ reached[r] \in BOOLEAN
  BY AnswerStatuses DEF RequestsType, CountedStatus
<1>2. answer' = [route |-> route[r], counted |-> CountedStatus(r),
                 sent |-> status, reached |-> reached[r]]
  BY DEF Answer
<1>3. answer' \in Answers
  BY <1>1, <1>2 DEF Answers
<1>4. route' \in [Probes -> DOMAIN Routes \cup {NULL}] /\ reached' \in [Probes -> BOOLEAN]
  BY DEF RequestsType, Answer, Track, Reachable
<1>5. AnswersHonest'
  BY <1>2 DEF AnswersHonest
<1> QED
  BY <1>3, <1>4, <1>5 DEF RequestsType

\* A request that ends before the interceptor leaves them too.
LEMMA UncountedKeeps ==
  ASSUME RequestsType, Track, NEW status \in Statuses, AnswerUncounted(status), UNCHANGED route
  PROVE  RequestsType' /\ AnswersHonest'
<1>1. answer' \in Answers /\ answer'.route = NULL
  BY DEF AnswerUncounted, Answers
<1>2. NULL # "ready"
  BY RoutesAssumption DEF Routes
<1>3. reached' \in [Probes -> BOOLEAN]
  BY DEF RequestsType, Track, Reachable
<1> QED
  BY <1>1, <1>2, <1>3 DEF RequestsType, AnswersHonest

\* So does a step that answers nothing.
LEMMA SilenceKeeps ==
  ASSUME RequestsType, Track, answer' = NULL, route' \in [Probes -> DOMAIN Routes \cup {NULL}]
  PROVE  RequestsType' /\ AnswersHonest'
  BY DEF RequestsType, AnswersHonest, Track, Reachable

\* Every step answers honestly.
LEMMA AnswersStep ==
  ASSUME RequestsType, AnswersHonest, PingsHonest, Act, Track
  PROVE  RequestsType' /\ AnswersHonest'
<1>1. ASSUME NEW r \in Probes, Reject(r) PROVE RequestsType' /\ AnswersHonest'
  BY <1>1, UncountedKeeps, AnswerStatuses DEF Reject
<1>2. ASSUME NEW r \in Probes, NEW x \in DOMAIN Routes, NEW credential \in Credentials,
             Refuse(r, x, credential)
      PROVE  RequestsType' /\ AnswersHonest'
  BY <1>2, UncountedKeeps DEF Refuse, Refusals, Statuses
<1>3. ASSUME NEW r \in Probes, NEW x \in DOMAIN Routes, NEW credential \in Credentials,
             Admit(r, x, credential)
      PROVE  RequestsType' /\ AnswersHonest'
  <2>1. route' \in [Probes -> DOMAIN Routes \cup {NULL}]
    BY <1>3 DEF Admit, RequestsType
  <2> QED
    BY <1>3, <2>1, SilenceKeeps DEF Admit
<1>4. ASSUME NEW r \in Probes, Handle(r) PROVE RequestsType' /\ AnswersHonest'
  <2>1. route[r] # NULL /\ route[r] # "ready" /\ route[r] \in DOMAIN Routes
    BY <1>4 DEF Handle, RequestsType
  <2>2. PICK status \in Statuses : Answer(r, status)
    BY <1>4, <2>1, AnswerStatuses DEF Handle
  <2> QED
    BY <2>1, <2>2, AnswerKeeps
<1>5. ASSUME NEW r \in Probes, Settled(r) PROVE RequestsType' /\ AnswersHonest'
  <2>1. route[r] = "ready" /\ route[r] # NULL
    BY <1>5, RoutesAssumption DEF Settled, Routes
  <2>2. PICK othersUp \in BOOLEAN : Answer(r, IF othersUp /\ call[r] = "ok" THEN 200 ELSE 503)
    BY <1>5 DEF Settled
  <2>3. call[r] = "ok" => reached[r]
    BY <2>1 DEF PingsHonest
  <2>4. (IF othersUp /\ call[r] = "ok" THEN 200 ELSE 503) \in Statuses
    BY DEF Statuses
  <2>5. (IF othersUp /\ call[r] = "ok" THEN 200 ELSE 503) = 200 => reached[r]
    BY <2>3
  <2> QED
    BY <2>1, <2>2, <2>4, <2>5, AnswerKeeps
<1>6. ASSUME answer' = NULL, UNCHANGED route \/ route' = [r \in Probes |-> NULL]
      PROVE  RequestsType' /\ AnswersHonest'
  BY <1>6, SilenceKeeps DEF RequestsType
<1> QED
  BY <1>1, <1>2, <1>3, <1>4, <1>5, <1>6 DEF Act, Request, Ping, Silent, RequestsDie

\* Every step leaves the pings honest.
LEMMA PingsStep ==
  ASSUME ConnInv, OpenMeansUp, PingsHonest, RequestsType, Act, Track
  PROVE  PingsHonest'
<1>0. NULL # "ready" /\ Probes \subseteq Callers
      /\ call \in [Callers -> {"idle", "wait", "sent", "ok", "failed", "hung"}]
  BY RoutesAssumption DEF Routes, Callers, ConnInv, PublisherTypeOK
<1>1. SUFFICES ASSUME NEW r \in Probes
               PROVE  /\ route'[r] # "ready" => call'[r] = "idle"
                      /\ route'[r] = "ready" /\ call'[r] = "ok" => reached'[r]
  BY DEF PingsHonest
<1>2. /\ route[r] # "ready" => call[r] = "idle"
      /\ route[r] = "ready" /\ call[r] = "ok" => reached[r]
      /\ route'[r] = "ready" => reached'[r] = (reached[r] \/ Reachable')
  BY Tracked DEF PingsHonest
<1>3. CASE route'[r] = route[r] /\ call'[r] = call[r]
  BY <1>2, <1>3
<1>4. ASSUME NEW q \in Probes, q # r, Request(q)
      PROVE  route'[r] = route[r] /\ call'[r] = call[r]
  BY <1>0, <1>4 DEF Request, Reject, Refuse, Admit, Handle, Answer, Ping, Silent, Settled, EnsureConnected,
     SendAtOnce, JoinConnecting, StartConnecting, Connect, Call, publisherVars, RequestsType
<1>5. CASE Request(r)
  <2>1. CASE Reject(r)
    BY <1>3, <2>1 DEF Reject, publisherVars
  <2>2. ASSUME NEW x \in DOMAIN Routes, NEW credential \in Credentials,
               Refuse(r, x, credential)
        PROVE  route'[r] = route[r] /\ call'[r] = call[r]
    BY <2>2 DEF Refuse, publisherVars
  <2>3. ASSUME NEW x \in DOMAIN Routes, NEW credential \in Credentials,
               Admit(r, x, credential)
        PROVE  call'[r] = "idle"
    BY <1>0, <1>2, <2>3 DEF Admit, publisherVars
  <2>4. CASE Handle(r)
    BY <1>2, <2>4 DEF Handle, Answer, publisherVars, RequestsType
  <2>5. CASE Ping(r)
    BY <1>0, <2>5 DEF Ping, Silent, EnsureConnected, SendAtOnce, JoinConnecting, StartConnecting, Connect, Call
  <2>6. CASE Settled(r)
    BY <1>0, <2>6 DEF Settled
  <2> QED
    BY <1>3, <1>5, <2>1, <2>2, <2>3, <2>4, <2>5, <2>6 DEF Request
<1>6. CASE (PollerPublishes \/ Progress \/ Trouble) /\ Silent
  <2>1. route'[r] = route[r]
    BY <1>6 DEF Silent
  <2>2. \/ call'[r] = call[r]
        \/ call[r] \in {"wait", "sent"} /\ call'[r] # "idle" /\ (call'[r] = "ok" => Reachable')
    BY <1>6, CallMoves
  <2> QED
    BY <1>2, <2>1, <2>2
<1>7. CASE RequestsDie
  BY <1>0, <1>7 DEF RequestsDie, Restart
<1> QED
  BY <1>3, <1>4, <1>5, <1>6, <1>7 DEF Act

\* Every step keeps the invariant of readiness.
LEMMA ReadyStep == ConnInv /\ ReadyInv /\ [Next]_vars => ReadyInv'
<1> SUFFICES ASSUME ConnInv, ReadyInv, [Next]_vars
             PROVE  ReadyInv'
  OBVIOUS
<1>1. CASE Next
  BY <1>1, OpenStep, AnswersStep, PingsStep DEF ReadyInv, Next
<1>2. CASE UNCHANGED vars
  BY <1>2 DEF vars, publisherVars, service, ReadyInv, OpenMeansUp, Open, PingsHonest, AnswersHonest, RequestsType
<1> QED
  BY <1>1, <1>2

\* HealthController.ready answers 200 only after the broker was reachable over
\* the publisher's channel since the probe was admitted, for any number of
\* probes and faults; and every variable keeps its type.
THEOREM ReadyMeansReached == Spec => []ReadyIsCurrent
<1>1. Init => ReadyInv
  BY RoutesAssumption DEF Init, PublisherInit, ReadyInv, OpenMeansUp, Open, PingsHonest, AnswersHonest, RequestsType,
     Callers, Routes
<1>2. ConnInv /\ ReadyInv => ReadyIsCurrent
  BY DEF ConnInv, ReadyInv, AnswersHonest, RequestsType, ReadyIsCurrent, TypeOK
<1> QED
  BY <1>1, <1>2, InitConn, ConnStep, ReadyStep, PTL DEF Spec
=============================================================================
