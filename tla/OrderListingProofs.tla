------------------------ MODULE OrderListingProofs ------------------------
(***************************************************************************)
(* The scope of a list of orders follows the role within the lifetime of   *)
(* an access token, and a walk through its pages misses and repeats no     *)
(* more orders than left and entered it, for every lifetime, limit and     *)
(* number of orders.                                                       *)
(***************************************************************************)
EXTENDS OrderListing, FiniteSetTheorems, WellFoundedInduction, TLAPS

\* A role was read when the user had it, and is known to be had since.
Backed(r, time) == held[r] \in Nat /\ time <= held[r]

Clock == /\ now \in Nat /\ role \in Roles
         /\ held \in [Roles -> Nat \cup {NULL}]
         /\ held[role] = now
         /\ \A r \in Roles : held[r] \in Nat => held[r] <= now

\* What has been read of the user, and signed, is backed by the database.
Claims ==
  /\ reading # NULL => /\ reading \in [role : Roles, read : Nat]
                       /\ reading.read <= now /\ Backed(reading.role, reading.read)
  /\ tokens \subseteq [role : Roles, read : Nat, issued : Nat]
  /\ \A t \in tokens : t.read <= t.issued /\ Backed(t.role, t.read)

\* The user of a request was admitted within the lifetime of such a token.
Admitted ==
  user # NULL =>
    /\ user \in [role : Roles, at : Nat, lag : Nat]
    /\ held[user.role] \in Nat /\ user.at < held[user.role] + AccessTtl + user.lag

\* Rows are read for an admitted user and in the scope of its role.
Scoped ==
  /\ phase = "ask" => data = {}
  /\ phase \in {"find", "count"} => user # NULL
  /\ user # NULL /\ user.role = "USER" => data \subseteq Mine
  /\ user = NULL => data = {}

IInv == Clock /\ Claims /\ Admitted /\ Scoped

\* Nothing is read, signed or shown at first.
LEMMA InitInv == Init => IInv
  BY TokenNullAssumption DEF Init, TokenInit, IInv, Clock, Claims, Admitted, Scoped, Roles, Times

\* Time and changes of the role only move held forward.
LEMMA HeldGrows ==
  ASSUME Clock, Tick \/ (\E r \in Roles : UpdateRole(r))
  PROVE  /\ Clock'
         /\ \A r \in Roles : held[r] \in Nat => held'[r] \in Nat /\ held[r] <= held'[r]
  <1>1. CASE Tick
    BY <1>1 DEF Clock, Tick, Roles
  <1>2. CASE \E r \in Roles : UpdateRole(r)
    BY <1>2 DEF Clock, UpdateRole, Roles
  <1> QED BY <1>1, <1>2

\* Logins, refreshes, changes of the role and the clock keep the invariant.
LEMMA TokenStepInv ==
  ASSUME IInv, TokenStep, UNCHANGED <<place, walk>>
  PROVE  IInv'
  <1>1. Clock /\ Claims /\ Admitted /\ Scoped
    BY DEF IInv
  <1>2. Scoped'
    BY <1>1 DEF Scoped, walk
  <1>3. CASE Tick \/ (\E r \in Roles : UpdateRole(r))
    <2>1. /\ Clock'
          /\ \A r \in Roles : held[r] \in Nat => held'[r] \in Nat /\ held[r] <= held'[r]
      BY <1>1, <1>3, HeldGrows
    <2>2. /\ reading' = reading /\ tokens' = tokens
          /\ now \in Nat /\ now' \in Nat /\ now <= now'
      BY <1>1, <1>3 DEF Tick, UpdateRole, Clock
    <2>3. \A r \in Roles, time \in Nat : Backed(r, time) => Backed(r, time)'
      BY <2>1 DEF Backed
    <2>4. Claims'
      <3>1. reading' # NULL => /\ reading' \in [role : Roles, read : Nat]
                               /\ reading'.read <= now'
                               /\ Backed(reading.role, reading.read)'
        BY <1>1, <2>2, <2>3 DEF Claims
      <3>2. \A t \in tokens' : t.read <= t.issued /\ Backed(t.role, t.read)'
        BY <1>1, <2>2, <2>3 DEF Claims
      <3> QED BY <1>1, <2>2, <3>1, <3>2 DEF Claims
    <2>5. Admitted'
      <3>1. user' = user
        BY DEF walk
      <3> QED BY <1>1, <2>1, <3>1, TtlAssumption DEF Admitted
    <2> QED BY <1>2, <2>1, <2>4, <2>5 DEF IInv
  <1>4. CASE ReadUser
    <2>1. Clock' /\ Admitted'
      BY <1>1, <1>4 DEF ReadUser, Clock, Admitted, walk
    <2>2. Claims'
      BY <1>1, <1>4 DEF ReadUser, Clock, Claims, Backed
    <2> QED BY <1>2, <2>1, <2>2 DEF IInv
  <1>5. CASE SignAccessToken
    <2>1. Clock' /\ Admitted'
      BY <1>1, <1>5 DEF SignAccessToken, Clock, Admitted, walk
    <2>2. Claims'
      BY <1>1, <1>5 DEF SignAccessToken, Clock, Claims, Backed
    <2> QED BY <1>2, <2>1, <2>2 DEF IInv
  <1> QED BY <1>3, <1>4, <1>5 DEF TokenStep

\* Every step does.
LEMMA InvStep == IInv /\ [Next]_vars => IInv'
  <1> SUFFICES ASSUME IInv, [Next]_vars
               PROVE  IInv'
    OBVIOUS
  <1>1. Clock /\ Claims /\ Admitted /\ Scoped
    BY DEF IInv
  <1>2. CASE UNCHANGED vars
    BY <1>1, <1>2 DEF vars, tokenVars, walk, IInv, Clock, Claims, Admitted, Scoped, Backed
  <1>3. CASE TokenStep /\ UNCHANGED <<place, walk>>
    BY <1>3, TokenStepInv
  <1>4. ASSUME UNCHANGED tokenVars
        PROVE  Clock' /\ Claims'
    BY <1>1, <1>4 DEF tokenVars, Clock, Claims, Backed
  <1>5. CASE \E o \in Orders : Create(o) \/ UpdateStatus(o)
    <2>1. UNCHANGED tokenVars /\ UNCHANGED walk
      BY <1>5 DEF Create, UpdateStatus
    <2>2. Admitted' /\ Scoped'
      BY <1>1, <2>1 DEF tokenVars, walk, Admitted, Scoped
    <2> QED BY <1>4, <2>1, <2>2 DEF IInv
  <1>6. CASE \E t \in tokens : Admit(t)
    <2>1. PICK t \in tokens : Admit(t)
      BY <1>6
    <2>2. /\ t \in [role : Roles, read : Nat, issued : Nat] /\ t.read <= t.issued
          /\ held[t.role] \in Nat /\ t.read <= held[t.role]
      BY <1>1 DEF Claims, Backed
    <2>3. /\ now \in Nat /\ now < t.issued + AccessTtl
          /\ user' = [role |-> t.role, at |-> now, lag |-> t.issued - t.read]
          /\ held' = held /\ phase = "ask" /\ phase' = "find" /\ data' = data
      BY <1>1, <2>1 DEF Admit, Verifies, Clock, tokenVars
    <2>4. /\ t.issued - t.read \in Nat
          /\ now < held[t.role] + AccessTtl + (t.issued - t.read)
      BY <2>2, <2>3, TtlAssumption
    <2>5. Admitted'
      BY <2>2, <2>3, <2>4 DEF Admitted
    <2>6. user' # NULL
      BY <2>2, <2>3, <2>4, ListNullAssumption
    <2>7. Scoped'
      BY <1>1, <2>3, <2>6 DEF Scoped
    <2> QED BY <1>4, <2>1, <2>5, <2>7 DEF IInv, Admit
  <1>7. CASE FindMany
    <2>1. /\ user' = user /\ user # NULL /\ held' = held /\ phase' = "count"
          /\ data' = PageRows
      BY <1>1, <1>7 DEF FindMany, Scoped, tokenVars
    <2>2. user.role = "USER" => PageRows \subseteq Mine
      BY <2>1 DEF PageRows, List, InScope
    <2>3. Admitted' /\ Scoped'
      BY <1>1, <2>1, <2>2 DEF Admitted, Scoped
    <2> QED BY <1>4, <1>7, <2>3 DEF IInv, FindMany
  <1>8. CASE CountAndAnswer \/ PageFails
    <2>1. /\ user' = user /\ held' = held /\ data' = {} /\ phase' \in {"ask", "done"}
          /\ UNCHANGED tokenVars
      BY <1>8 DEF CountAndAnswer, PageFails, tokenVars
    <2>2. Admitted' /\ Scoped'
      BY <1>1, <2>1 DEF Admitted, Scoped
    <2> QED BY <1>4, <2>1, <2>2 DEF IInv
  <1> QED BY <1>2, <1>3, <1>5, <1>6, <1>7, <1>8 DEF Next, Act

\* Whatever roles are given and taken and however logins, refreshes and list
\* requests overlap, orders of others are shown within the lifetime of an
\* access token, and the time it took to sign it, of having a staff role.
THEOREM ScopeExpires == Spec => []StaleScopeExpires
  <1>1. IInv => StaleScopeExpires
    BY TokenNullAssumption DEF IInv, Admitted, Scoped, StaleScopeExpires, Roles
  <1>2. Spec => []IInv
    BY InitInv, InvStep, PTL DEF Spec
  <1> QED BY <1>1, <1>2, PTL

-----------------------------------------------------------------------------
(* Rows of a list by their place in it, the largest number first *)

Rank(L, o) == Cardinality({p \in L : p >= o})
Top(L, s) == {o \in L : Rank(L, o) <= s}

\* A set of numbers has a least element.
LEMMA Least ==
  ASSUME NEW S, S \subseteq Nat, S # {}
  PROVE  \E m \in S : \A x \in S : m <= x
  <1>1. PICK m \in S : \A x \in S : ~(<<x, m>> \in OpToRel(<, Nat))
    BY NatLessThanWellFounded, WFMin
  <1>2. ASSUME NEW x \in S PROVE m <= x
    <2>1. m \in Nat /\ x \in Nat
      OBVIOUS
    <2>2. x < m => <<x, m>> \in OpToRel(<, Nat)
      BY <2>1 DEF OpToRel
    <2>3. ~(x < m)
      BY <1>1, <2>2, Zenon
    <2> QED BY <2>1, <2>3
  <1> QED BY <1>2

\* A bounded one has a greatest element.
LEMMA Greatest ==
  ASSUME NEW n \in Nat, NEW S, S \subseteq 1 .. n, S # {}
  PROVE  \E m \in S : \A x \in S : x <= m
  <1> DEFINE T == {n - x : x \in S}
  <1>0. \A x \in S : x \in 1 .. n
    OBVIOUS
  <1>1. T \subseteq Nat
    BY <1>0
  <1>2. T # {}
    OBVIOUS
  <1>3. PICK k \in T : \A y \in T : k <= y
    <2> HIDE DEF T
    <2> QED BY <1>1, <1>2, Least
  <1>4. PICK m \in S : k = n - m
    OBVIOUS
  <1>5. ASSUME NEW x \in S PROVE x <= m
    <2>1. n - m <= n - x
      BY <1>3, <1>4
    <2>2. x \in 1 .. n /\ m \in 1 .. n
      BY <1>0
    <2> QED BY <2>1, <2>2
  <1> QED BY <1>5

\* What is counted is finite.
LEMMA RankType ==
  ASSUME NEW n \in Nat, NEW L, L \subseteq 1 .. n
  PROVE  /\ IsFiniteSet(L) /\ Cardinality(L) \in Nat
         /\ \A U \in SUBSET L : IsFiniteSet(U) /\ Cardinality(U) \in Nat
         /\ \A o : Rank(L, o) \in Nat /\ Rank(L, o) <= Cardinality(L)
  <1>1. IsFiniteSet(1 .. n)
    BY FS_Interval
  <1>2. IsFiniteSet(L)
    BY <1>1, FS_Subset
  <1>3. \A U \in SUBSET L : IsFiniteSet(U) /\ Cardinality(U) \in Nat /\ Cardinality(U) <= Cardinality(L)
    BY <1>2, FS_Subset, FS_CardinalityType
  <1>4. ASSUME NEW o PROVE Rank(L, o) \in Nat /\ Rank(L, o) <= Cardinality(L)
    <2>1. {p \in L : p >= o} \in SUBSET L
      OBVIOUS
    <2> QED BY <1>3, <2>1 DEF Rank
  <1>5. Cardinality(L) \in Nat
    BY <1>2, FS_CardinalityType
  <1> QED BY <1>2, <1>3, <1>4, <1>5

\* A larger number ranks at least as high.
LEMMA RankMonotone ==
  ASSUME NEW n \in Nat, NEW L, L \subseteq 1 .. n, NEW o \in L, NEW p \in L, o <= p
  PROVE  Rank(L, p) <= Rank(L, o)
  <1>0. \A q \in L : q \in 1 .. n
    OBVIOUS
  <1>1. {q \in L : q >= p} \subseteq {q \in L : q >= o}
    <2>1. ASSUME NEW q \in L, q >= p PROVE q >= o
      <3>1. q \in 1 .. n /\ p \in 1 .. n /\ o \in 1 .. n
        BY <1>0
      <3> QED BY <2>1, <3>1
    <2> QED BY <2>1
  <1>2. IsFiniteSet({q \in L : q >= o})
    BY RankType
  <1> QED BY <1>1, <1>2, FS_Subset DEF Rank

\* The first s rows are upward closed.
LEMMA TopUpward ==
  ASSUME NEW n \in Nat, NEW L, L \subseteq 1 .. n, NEW s \in Nat,
         NEW o \in Top(L, s), NEW p \in L, o <= p
  PROVE  p \in Top(L, s)
  <1>1. o \in L /\ Rank(L, o) <= s
    BY DEF Top
  <1>2. Rank(L, p) <= Rank(L, o)
    BY <1>1, RankMonotone
  <1>3. Rank(L, p) \in Nat /\ Rank(L, o) \in Nat
    BY RankType
  <1> QED BY <1>1, <1>2, <1>3 DEF Top

\* They are at most s.
LEMMA TopBounded ==
  ASSUME NEW n \in Nat, NEW L, L \subseteq 1 .. n, NEW s \in Nat
  PROVE  /\ IsFiniteSet(Top(L, s)) /\ Cardinality(Top(L, s)) \in Nat
         /\ Cardinality(Top(L, s)) <= s
  <1>1. Top(L, s) \in SUBSET L
    BY DEF Top
  <1>2. IsFiniteSet(Top(L, s)) /\ Cardinality(Top(L, s)) \in Nat
    BY <1>1, RankType
  <1>3. CASE Top(L, s) = {}
    BY <1>2, <1>3, FS_EmptySet
  <1>4. CASE Top(L, s) # {}
    <2>1. Top(L, s) \subseteq Nat
      <3>1. 1 .. n \subseteq Nat
        OBVIOUS
      <3> QED BY <1>1, <3>1
    <2>2. PICK m \in Top(L, s) : \A x \in Top(L, s) : m <= x
      BY <1>4, <2>1, Least
    <2>3. Top(L, s) \subseteq {p \in L : p >= m}
      BY <1>1, <2>1, <2>2
    <2>4. IsFiniteSet({p \in L : p >= m})
      BY RankType
    <2>5. Cardinality(Top(L, s)) <= Rank(L, m)
      BY <2>3, <2>4, FS_Subset DEF Rank
    <2>6. Rank(L, m) <= s /\ Rank(L, m) \in Nat
      BY RankType DEF Top
    <2> QED BY <1>2, <2>5, <2>6
  <1> QED BY <1>2, <1>3, <1>4

\* And s of them unless they are all.
LEMMA TopFull ==
  ASSUME NEW n \in Nat, NEW L, L \subseteq 1 .. n, NEW s \in Nat, Top(L, s) # L
  PROVE  Cardinality(Top(L, s)) = s
  <1>0. Top(L, s) \subseteq L /\ \A q \in L : q \in 1 .. n
    BY DEF Top
  <1>1. L \ Top(L, s) # {} /\ L \ Top(L, s) \subseteq 1 .. n
    BY <1>0
  <1>2. PICK y \in L \ Top(L, s) : \A x \in L \ Top(L, s) : x <= y
    BY <1>1, Greatest
  <1>3. Rank(L, y) \in Nat /\ Rank(L, y) > s
    <2>1. Rank(L, y) \in Nat
      BY RankType
    <2> QED BY <2>1 DEF Top
  <1>4. {p \in L : p >= y} = Top(L, s) \cup {y}
    <2>1. ASSUME NEW p \in L, p >= y PROVE p \in Top(L, s) \cup {y}
      BY <1>0, <1>2, <2>1
    <2>2. ASSUME NEW p \in Top(L, s) PROVE p \in L /\ p >= y
      <3>1. p \in L /\ p \in 1 .. n /\ y \in 1 .. n /\ y \in L
        BY <1>0
      <3>2. ~(p <= y)
        BY <3>1, TopUpward
      <3> QED BY <3>1, <3>2
    <2>3. y \in L /\ y >= y
      BY <1>0
    <2> QED BY <2>1, <2>2, <2>3
  <1>5. IsFiniteSet(Top(L, s)) /\ Cardinality(Top(L, s)) \in Nat /\ Cardinality(Top(L, s)) <= s
    BY TopBounded
  <1>6. Rank(L, y) = Cardinality(Top(L, s)) + 1
    BY <1>4, <1>5, FS_AddElement DEF Rank
  <1> QED BY <1>3, <1>5, <1>6

\* A set covered by two has at most as many elements as they have together.
LEMMA UnionBound ==
  ASSUME NEW A, IsFiniteSet(A), Cardinality(A) \in Nat, NEW B, IsFiniteSet(B), Cardinality(B) \in Nat,
         NEW C, C \subseteq A \cup B
  PROVE  /\ IsFiniteSet(C) /\ Cardinality(C) \in Nat
         /\ Cardinality(C) <= Cardinality(A) + Cardinality(B)
  <1>1. /\ IsFiniteSet(A \cup B)
        /\ Cardinality(A \cup B) = Cardinality(A) + Cardinality(B) - Cardinality(A \cap B)
    BY FS_Union
  <1>2. IsFiniteSet(C) /\ Cardinality(C) <= Cardinality(A \cup B)
    BY <1>1, FS_Subset
  <1>3. Cardinality(C) \in Nat /\ Cardinality(A \cap B) \in Nat
    <2>1. IsFiniteSet(A \cap B)
      BY FS_Intersection
    <2> QED BY <1>2, <2>1, FS_CardinalityType
  <1> QED BY <1>1, <1>2, <1>3

\* Rows of M that were added to L, or were among its first s, and are not
\* among the first s of M.
Pushed(L, M, s) == ((M \ L) \cup (Top(L, s) \cap M)) \ Top(M, s)

\* When a list becomes another one, at most as many rows are pushed behind the
\* first s as were added to it.
LEMMA Crossing ==
  ASSUME NEW n \in Nat, NEW L, L \subseteq 1 .. n, NEW M, M \subseteq 1 .. n, NEW s \in Nat
  PROVE  /\ IsFiniteSet(Pushed(L, M, s)) /\ Cardinality(Pushed(L, M, s)) \in Nat
         /\ Cardinality(Pushed(L, M, s)) <= Cardinality(M \ L)
  <1> DEFINE K == Top(L, s) \cap M
             X == (M \ L) \cup K
  <1>0. Top(L, s) \subseteq L /\ Top(M, s) \subseteq M /\ \A q \in L \cup M : q \in 1 .. n
    BY DEF Top
  <1>p. Pushed(L, M, s) = X \ Top(M, s)
    BY DEF Pushed
  <1>1. /\ IsFiniteSet(M \ L) /\ Cardinality(M \ L) \in Nat
        /\ IsFiniteSet(X) /\ Cardinality(X) \in Nat
        /\ IsFiniteSet(Pushed(L, M, s)) /\ Cardinality(Pushed(L, M, s)) \in Nat
        /\ IsFiniteSet(K) /\ Cardinality(K) \in Nat
    <2>1. M \ L \in SUBSET M /\ X \in SUBSET M /\ K \in SUBSET M
      OBVIOUS
    <2>2. Pushed(L, M, s) \in SUBSET M
      BY <1>p, <2>1
    <2> HIDE DEF X, K
    <2> QED BY <2>1, <2>2, RankType
  <1>2. CASE Top(M, s) \subseteq X /\ Top(M, s) = M
    <2>1. Pushed(L, M, s) = {}
      BY <1>2, <1>p
    <2> QED BY <1>1, <2>1, FS_EmptySet
  <1>3. CASE Top(M, s) \subseteq X /\ Top(M, s) # M
    <2>1. Cardinality(Top(M, s)) = s
      BY <1>3, TopFull
    <2>2. X \cap Top(M, s) = Top(M, s)
      BY <1>3
    <2>3. Cardinality(Pushed(L, M, s)) = Cardinality(X) - s
      <3> HIDE DEF X
      <3>1. Cardinality(X \ Top(M, s)) = Cardinality(X) - Cardinality(X \cap Top(M, s))
        BY <1>1, FS_Difference
      <3> QED BY <1>p, <2>1, <2>2, <3>1
    <2>4. Cardinality(X) = Cardinality(M \ L) + Cardinality(K)
      <3>1. (M \ L) \cap K = {}
        BY <1>0
      <3> HIDE DEF K
      <3>2. Cardinality(X) = Cardinality(M \ L) + Cardinality(K) - Cardinality((M \ L) \cap K)
        BY <1>1, FS_Union
      <3> HIDE DEF X
      <3> QED BY <1>1, <3>1, <3>2, FS_EmptySet
    <2>5. Cardinality(K) <= s
      <3>1. IsFiniteSet(Top(L, s)) /\ Cardinality(Top(L, s)) \in Nat /\ Cardinality(Top(L, s)) <= s
        BY TopBounded
      <3>2. Cardinality(K) <= Cardinality(Top(L, s))
        BY <3>1, FS_Intersection
      <3> HIDE DEF K
      <3> QED BY <1>1, <3>1, <3>2
    <2> HIDE DEF X, K
    <2> QED BY <1>1, <2>3, <2>4, <2>5
  <1>4. CASE ~(Top(M, s) \subseteq X)
    <2>1. PICK y \in Top(M, s) : y \notin X
      BY <1>4
    <2>2. y \in M /\ y \in L /\ y \notin Top(L, s) /\ y \in 1 .. n
      BY <1>0, <2>1
    <2>3. ASSUME NEW p \in Top(L, s) \cap M PROVE p \in Top(M, s)
      <3>1. p \in L /\ p \in M /\ p \in 1 .. n
        BY <1>0
      <3>2. ~(p <= y)
        BY <2>2, TopUpward
      <3>3. y <= p
        BY <2>2, <3>1, <3>2
      <3> QED BY <3>1, <3>3, TopUpward
    <2>4. Pushed(L, M, s) \subseteq M \ L
      BY <1>p, <2>3
    <2> QED BY <1>1, <2>4, FS_Subset
  <1> QED BY <1>2, <1>3, <1>4

-----------------------------------------------------------------------------
(* Types *)

\* Orders are finitely many, so that they can be counted.
LEMMA OrdersFinite ==
  ASSUME NEW S, S \subseteq Orders
  PROVE  IsFiniteSet(S) /\ Cardinality(S) \in Nat
  BY ListAssumption, RankType DEF Orders

\* Both lists of a step are sets of orders.
LEMMA ListType == List \subseteq 1 .. MaxOrders /\ List' \subseteq 1 .. MaxOrders /\ MaxOrders \in Nat
  BY ListAssumption DEF List, Orders

\* The rows before a page are a natural number.
LEMMA SkipType ==
  ASSUME TypeOK
  PROVE  Skip \in Nat /\ limit \in Nat \ {0} /\ page \in Nat \ {0} /\ Skip + limit \in Nat
  <1>1. limit \in Nat \ {0} /\ page - 1 \in Nat /\ page \in Nat \ {0}
    BY ListAssumption DEF TypeOK
  <1>2. \A a, b \in Nat : a * b \in Nat
    OBVIOUS
  <1>3. Skip \in Nat
    BY <1>1, <1>2 DEF Skip
  <1> QED BY <1>1, <1>3

\* findMany returns the first Skip + limit rows without the first Skip ...
LEMMA PageIsSlice ==
  ASSUME TypeOK
  PROVE  /\ PageRows = Top(List, Skip + limit) \ Top(List, Skip)
         /\ Top(List, Skip) \subseteq Top(List, Skip + limit)
  <1>1. Skip \in Nat /\ limit \in Nat /\ \A o : Rank(List, o) \in Nat
    BY SkipType, ListType, RankType
  <1>2. PageRows = {o \in List : Rank(List, o) \in Skip + 1 .. Skip + limit}
    BY DEF PageRows, Rank
  <1>3. \A o : /\ Rank(List, o) \in Skip + 1 .. Skip + limit
                   <=> Rank(List, o) <= Skip + limit /\ ~(Rank(List, o) <= Skip)
               /\ Rank(List, o) <= Skip => Rank(List, o) <= Skip + limit
    BY <1>1
  <1> QED BY <1>2, <1>3 DEF Top

\* ... which are at most limit.
LEMMA PageFits ==
  ASSUME TypeOK
  PROVE  PageRows \subseteq Orders /\ Cardinality(PageRows) <= limit
  <1>1. PageRows \subseteq Orders
    BY DEF PageRows, List
  <1>2. Skip \in Nat /\ limit \in Nat /\ Skip + limit \in Nat
    BY SkipType
  <1> DEFINE upper == Top(List, Skip + limit)
             lower == Top(List, Skip)
  <1>3. PageRows = upper \ lower /\ lower \subseteq upper /\ upper \subseteq List /\ lower \subseteq List
    BY PageIsSlice DEF Top
  <1>4. CASE lower = List
    <2>1. PageRows = {}
      BY <1>3, <1>4
    <2> QED BY <1>1, <1>2, <2>1, FS_EmptySet
  <1>5. CASE lower # List
    <2>1. Cardinality(lower) = Skip
      BY <1>2, <1>5, ListType, TopFull
    <2>2. IsFiniteSet(upper) /\ Cardinality(upper) \in Nat /\ Cardinality(upper) <= Skip + limit
      BY <1>2, ListType, TopBounded
    <2> HIDE DEF upper, lower
    <2>3. Cardinality(upper \ lower) = Cardinality(upper) - Cardinality(upper \cap lower)
      BY <2>2, FS_Difference
    <2>4. upper \cap lower = lower /\ PageRows = upper \ lower
      BY <1>3
    <2>5. Cardinality(PageRows) = Cardinality(upper) - Skip
      BY <2>1, <2>3, <2>4
    <2> QED BY <1>1, <1>2, <2>2, <2>5
  <1> QED BY <1>4, <1>5

\* The initial states are of the right type ...
LEMMA InitType == Init => TypeOK
  <1> SUFFICES ASSUME Init PROVE TypeOK
    OBVIOUS
  <1>1. TokenTypeOK
    BY TokenBoundsAssumption DEF Init, TokenInit, TokenTypeOK, Times, Roles
  <1>2. Cardinality({}) = 0 /\ limit \in Nat
    BY FS_EmptySet, ListAssumption DEF Init
  <1> QED BY <1>1, <1>2, ListAssumption DEF Init, TypeOK

\* ... the steps of the tokens keep it ...
LEMMA TokenTypeStep ==
  ASSUME IInv, TokenTypeOK, TokenStep
  PROVE  TokenTypeOK'
  <1>0. MaxTime \in Nat /\ MaxChanges \in Nat
    BY TokenBoundsAssumption
  <1>1. CASE Tick
    BY <1>0, <1>1 DEF Tick, TokenTypeOK, Times
  <1>2. CASE \E r \in Roles : UpdateRole(r)
    BY <1>0, <1>2 DEF UpdateRole, TokenTypeOK, Times
  <1>3. CASE ReadUser
    BY <1>3 DEF ReadUser, TokenTypeOK
  <1>4. CASE SignAccessToken
    BY <1>4 DEF SignAccessToken, TokenTypeOK
  <1> QED BY <1>1, <1>2, <1>3, <1>4 DEF TokenStep

\* What the history of a step adds.
LEMMA TallyType ==
  ASSUME TypeOK, Tally
  PROVE  /\ stable' \subseteq Orders /\ arrivals' \in Nat /\ departures' \in Nat
  <1>1. List \subseteq Orders /\ List' \subseteq Orders
    BY DEF List
  <1>2. Cardinality(List' \ List) \in Nat /\ Cardinality(List \ List') \in Nat
    BY <1>1, OrdersFinite
  <1>3. stable \subseteq Orders /\ arrivals \in Nat /\ departures \in Nat
    BY DEF TypeOK
  <1>4. CASE page = 1 /\ phase # "count"
    BY <1>1, <1>4 DEF Tally
  <1>5. CASE ~(page = 1 /\ phase # "count")
    BY <1>2, <1>3, <1>5 DEF Tally
  <1> QED BY <1>4, <1>5

\* ... and so does every step; a token is signed after its role was read.
LEMMA TypeStep == IInv /\ TypeOK /\ [Next]_vars => TypeOK'
  <1> SUFFICES ASSUME IInv, TypeOK, [Next]_vars
               PROVE  TypeOK'
    OBVIOUS
  <1>1. CASE UNCHANGED vars
    BY <1>1 DEF vars, tokenVars, walk, tally, TypeOK, TokenTypeOK
  <1> SUFFICES ASSUME Act, Tally
               PROVE  TypeOK'
    BY <1>1 DEF Next
  <1>2. /\ stable' \subseteq Orders /\ arrivals' \in Nat /\ departures' \in Nat
    BY TallyType
  <1>3. ASSUME UNCHANGED tokenVars PROVE TokenTypeOK'
    BY <1>3 DEF tokenVars, TypeOK, TokenTypeOK
  <1>4. CASE TokenStep /\ UNCHANGED <<place, walk>>
    <2>1. TokenTypeOK'
      BY <1>4, TokenTypeStep DEF TypeOK
    <2> QED BY <1>2, <1>4, <2>1 DEF TypeOK, walk
  <1>5. CASE \E o \in Orders : Create(o) \/ UpdateStatus(o)
    <2>1. UNCHANGED tokenVars /\ UNCHANGED walk
      BY <1>5 DEF Create, UpdateStatus
    <2>2. place' \in [Orders -> Places \cup {NULL}]
      BY <1>5 DEF Create, UpdateStatus, TypeOK, Places
    <2> QED BY <1>2, <1>3, <2>1, <2>2 DEF TypeOK, walk
  <1>6. CASE \E t \in tokens : Admit(t)
    <2>1. PICK t \in tokens : Admit(t)
      BY <1>6
    <2>2. /\ t \in [role : Roles, read : Times, issued : Times] /\ t.read <= t.issued
          /\ now \in Times
      BY DEF IInv, Claims, TypeOK, TokenTypeOK
    <2>3. t.issued - t.read \in Times /\ t.role \in Roles
      BY <2>2, TokenBoundsAssumption DEF Times
    <2>4. user' \in [role : Roles, at : Times, lag : Times] \cup {NULL}
      BY <2>1, <2>2, <2>3 DEF Admit
    <2>5. TokenTypeOK'
      BY <1>3, <2>1 DEF Admit
    <2> QED BY <1>2, <2>1, <2>4, <2>5 DEF TypeOK, Admit
  <1>7. CASE FindMany
    <2>1. TokenTypeOK'
      BY <1>3, <1>7 DEF FindMany
    <2>2. data' \subseteq Orders /\ Cardinality(data') <= limit'
      BY <1>7, PageFits DEF FindMany
    <2> QED BY <1>2, <1>7, <2>1, <2>2 DEF TypeOK, FindMany
  <1>8. ASSUME data' = {}, limit' = limit
        PROVE  data' \subseteq Orders /\ Cardinality(data') <= limit'
    BY <1>8, FS_EmptySet, ListAssumption DEF TypeOK
  <1>9. CASE CountAndAnswer
    <2>1. TokenTypeOK'
      BY <1>3, <1>9 DEF CountAndAnswer
    <2>2. data' \subseteq Orders /\ Cardinality(data') <= limit'
      BY <1>8, <1>9 DEF CountAndAnswer
    <2>3. returned' \subseteq Orders
      BY <1>9 DEF TypeOK, CountAndAnswer
    <2>4. repeats' \in Nat
      <3>1. Cardinality(returned \cap data) \in Nat
        BY OrdersFinite DEF TypeOK
      <3> QED BY <1>9, <3>1 DEF TypeOK, CountAndAnswer
    <2>5. phase' \in {"ask", "find", "count", "done"} /\ page' \in Nat \ {0}
      BY <1>9 DEF TypeOK, CountAndAnswer
    <2> QED BY <1>2, <1>9, <2>1, <2>2, <2>3, <2>4, <2>5 DEF TypeOK, CountAndAnswer
  <1>10. CASE PageFails
    <2>1. TokenTypeOK'
      BY <1>3, <1>10 DEF PageFails
    <2>2. data' \subseteq Orders /\ Cardinality(data') <= limit'
      BY <1>8, <1>10 DEF PageFails
    <2>3. faults' \in 0 .. MaxFaults
      BY <1>10, ListAssumption DEF PageFails, TypeOK
    <2> QED BY <1>2, <1>10, <2>1, <2>2, <2>3 DEF TypeOK, PageFails
  <1> QED BY <1>4, <1>5, <1>6, <1>7, <1>9, <1>10 DEF Act


-----------------------------------------------------------------------------
(* The walk *)

\* Of the rows the client has, those that lie behind the first s of the list
\* and are still to come again; of the others, those that were there all the
\* time and are among the first s: they are not to come any more.
Behind(rows, s) == (rows \cap List) \ Top(List, s)
Passed(rows, s) == (stable \ rows) \cap Top(List, s)

Explained(rows, s, twice) ==
  /\ twice + Cardinality(Behind(rows, s)) <= arrivals
  /\ Cardinality(Passed(rows, s)) <= departures

\* What the client has is explained before the page it asks for and, from
\* findMany to the answer, behind it as well: the answer may still be lost.
WalkExplained ==
  /\ stable \subseteq List
  /\ page = 1 /\ phase # "done" => returned = {} /\ repeats = 0
  /\ phase # "done" => Explained(returned, Skip, repeats)
  /\ phase = "count" =>
       Explained(returned \cup data, Skip + limit, repeats + Cardinality(returned \cap data))
  /\ phase = "done" => repeats <= arrivals /\ Cardinality(stable \ returned) <= departures

\* A change of the list pushes at most as many rows back over a boundary as
\* were added, and at most as many forward as left.
LEMMA ListMoves ==
  ASSUME TypeOK, stable \subseteq List, Tally, ~(page = 1 /\ phase # "count"),
         NEW rows, rows \subseteq Orders, NEW s \in Nat, NEW twice \in Nat,
         Explained(rows, s, twice)
  PROVE  /\ twice + Cardinality((rows \cap List') \ Top(List', s)) <= arrivals'
         /\ Cardinality((stable' \ rows) \cap Top(List', s)) <= departures'
  <1>0. /\ List \subseteq 1 .. MaxOrders /\ List' \subseteq 1 .. MaxOrders /\ MaxOrders \in Nat
        /\ List \subseteq Orders /\ List' \subseteq Orders
    BY ListType DEF Orders
  <1>1. /\ stable' = stable \cap List'
        /\ arrivals' = arrivals + Cardinality(List' \ List)
        /\ departures' = departures + Cardinality(List \ List')
        /\ arrivals \in Nat /\ departures \in Nat
    BY DEF Tally, TypeOK
  <1>2. /\ Cardinality(List' \ List) \in Nat /\ Cardinality(List \ List') \in Nat
    BY <1>0, OrdersFinite
  <1>3. twice + Cardinality((rows \cap List') \ Top(List', s)) <= arrivals'
    <2> DEFINE before == Behind(rows, s)
               after == (rows \cap List') \ Top(List', s)
               pushed == Pushed(List, List', s)
    <2>1. after \subseteq before \cup pushed
      BY DEF Behind, Pushed
    <2>2. /\ IsFiniteSet(pushed) /\ Cardinality(pushed) \in Nat
          /\ Cardinality(pushed) <= Cardinality(List' \ List)
      BY <1>0, Crossing
    <2>3. IsFiniteSet(before) /\ Cardinality(before) \in Nat
      BY OrdersFinite DEF Behind
    <2>4. twice + Cardinality(before) <= arrivals
      BY DEF Explained
    <2> HIDE DEF before, after, pushed
    <2>5. /\ Cardinality(after) \in Nat
          /\ Cardinality(after) <= Cardinality(before) + Cardinality(pushed)
      BY <2>1, <2>2, <2>3, UnionBound
    <2>6. twice + Cardinality(after) <= arrivals + Cardinality(List' \ List)
      BY <1>1, <1>2, <2>2, <2>3, <2>4, <2>5
    <2> QED BY <1>1, <2>6 DEF after
  <1>4. Cardinality((stable' \ rows) \cap Top(List', s)) <= departures'
    <2> DEFINE before == Passed(rows, s)
               after == (stable' \ rows) \cap Top(List', s)
               pulled == Pushed(List', List, s)
    <2>1. after \subseteq before \cup pulled
      BY <1>1 DEF Passed, Pushed
    <2>2. /\ IsFiniteSet(pulled) /\ Cardinality(pulled) \in Nat
          /\ Cardinality(pulled) <= Cardinality(List \ List')
      BY <1>0, Crossing
    <2>3. IsFiniteSet(before) /\ Cardinality(before) \in Nat
      BY <1>0, OrdersFinite DEF Passed
    <2>4. Cardinality(before) <= departures
      BY DEF Explained
    <2> HIDE DEF before, after, pulled
    <2>5. /\ Cardinality(after) \in Nat
          /\ Cardinality(after) <= Cardinality(before) + Cardinality(pulled)
      BY <2>1, <2>2, <2>3, UnionBound
    <2>6. Cardinality(after) <= departures + Cardinality(List \ List')
      BY <1>1, <1>2, <2>2, <2>3, <2>4, <2>5
    <2> QED BY <1>1, <2>6 DEF after
  <1> QED BY <1>3, <1>4

\* Before the first page there is nothing to explain.
LEMMA NothingYet ==
  ASSUME TypeOK, Tally, page = 1, phase # "count"
  PROVE  /\ 0 + Cardinality(({} \cap List') \ Top(List', 0)) <= arrivals'
         /\ Cardinality((stable' \ {}) \cap Top(List', 0)) <= departures'
  <1>1. arrivals' = 0 /\ departures' = 0
    BY DEF Tally
  <1>2. /\ IsFiniteSet(Top(List', 0)) /\ Cardinality(Top(List', 0)) \in Nat
        /\ Cardinality(Top(List', 0)) <= 0
    BY ListType, TopBounded
  <1>3. Top(List', 0) = {}
    BY <1>2, FS_EmptySet
  <1>4. ({} \cap List') \ Top(List', 0) = {} /\ (stable' \ {}) \cap Top(List', 0) = {}
    BY <1>3
  <1> QED BY <1>1, <1>4, FS_EmptySet

\* Whatever a step does to the list, what the client has stays explained.
LEMMA StaysExplained ==
  ASSUME TypeOK, WalkExplained, Tally, phase # "done", UNCHANGED <<returned, repeats, page, limit>>
  PROVE  Explained(returned, Skip, repeats)'
  <1>1. Skip \in Nat /\ Skip' = Skip /\ repeats \in Nat /\ returned \subseteq Orders
    BY SkipType DEF Skip, TypeOK
  <1>2. CASE page = 1 /\ phase # "count"
    <2>1. returned = {} /\ repeats = 0
      BY <1>2 DEF WalkExplained
    <2>2. Skip = 0
      BY <1>2, SkipType DEF Skip
    <2> QED BY <1>1, <1>2, <2>1, <2>2, NothingYet DEF Explained, Behind, Passed
  <1>3. CASE ~(page = 1 /\ phase # "count")
    <2>1. stable \subseteq List /\ Explained(returned, Skip, repeats)
      BY DEF WalkExplained
    <2>2. /\ repeats + Cardinality((returned \cap List') \ Top(List', Skip)) <= arrivals'
          /\ Cardinality((stable' \ returned) \cap Top(List', Skip)) <= departures'
      BY <1>1, <1>3, <2>1, ListMoves
    <2> QED BY <1>1, <2>2 DEF Explained, Behind, Passed
  <1> QED BY <1>2, <1>3

\* So does the answer that is on its way.
LEMMA AnswerStaysExplained ==
  ASSUME TypeOK, WalkExplained, Tally, phase = "count",
         UNCHANGED <<returned, repeats, page, limit, data>>
  PROVE  Explained(returned \cup data, Skip + limit, repeats + Cardinality(returned \cap data))'
  <1> DEFINE s == Skip + limit
             twice == repeats + Cardinality(returned \cap data)
             rows == returned \cup data
  <1>1. s \in Nat /\ Skip' = Skip /\ rows \subseteq Orders
    BY SkipType DEF Skip, TypeOK
  <1>2. twice \in Nat
    <2>1. Cardinality(returned \cap data) \in Nat
      BY OrdersFinite DEF TypeOK
    <2> QED BY <2>1 DEF TypeOK
  <1>3. stable \subseteq List /\ Explained(rows, s, twice)
    BY DEF WalkExplained
  <1>4. /\ twice + Cardinality((rows \cap List') \ Top(List', s)) <= arrivals'
        /\ Cardinality((stable' \ rows) \cap Top(List', s)) <= departures'
    <2> HIDE DEF s, twice, rows
    <2> QED BY <1>1, <1>2, <1>3, ListMoves
  <1> QED BY <1>1, <1>4 DEF Explained, Behind, Passed

\* The history only remembers what is in the list.
LEMMA StableListed ==
  ASSUME Tally
  PROVE  stable' \subseteq List'
  BY DEF Tally


\* findMany: the rows the client already has are repeated by the page or lie
\* behind it, and nothing in the page is passed.
LEMMA FindExplained ==
  ASSUME TypeOK, TypeOK', WalkExplained, Tally, FindMany
  PROVE  WalkExplained'
  <1>1. /\ phase = "find" /\ phase' = "count" /\ data' = PageRows
        /\ UNCHANGED <<returned, repeats, page, limit>> /\ Skip' = Skip /\ List' = List
    BY DEF FindMany, Skip, List, InScope
  <1>2. Explained(returned, Skip, repeats)'
    BY <1>1, StaysExplained
  <1> DEFINE s == Skip + limit
             again == returned \cap PageRows
             behind == (returned \cap List) \ Top(List, s)
  <1>3. /\ PageRows = Top(List, s) \ Top(List, Skip) /\ Top(List, Skip) \subseteq Top(List, s)
        /\ Top(List, s) \subseteq List
    BY PageIsSlice DEF Top
  <1>4. /\ repeats + Cardinality((returned \cap List) \ Top(List, Skip)) <= arrivals'
        /\ Cardinality((stable' \ returned) \cap Top(List, Skip)) <= departures'
    BY <1>1, <1>2 DEF Explained, Behind, Passed
  <1>5. /\ (returned \cap List) \ Top(List, Skip) = again \cup behind
        /\ again \cap behind = {}
        /\ ((returned \cup PageRows) \cap List) \ Top(List, s) = behind
        /\ (stable' \ (returned \cup PageRows)) \cap Top(List, s)
             = (stable' \ returned) \cap Top(List, Skip)
    <2> HIDE DEF s
    <2> QED BY <1>3
  <1>6. /\ IsFiniteSet(again) /\ Cardinality(again) \in Nat
        /\ IsFiniteSet(behind) /\ Cardinality(behind) \in Nat
    BY OrdersFinite DEF TypeOK
  <1>7. Cardinality(again \cup behind) = Cardinality(again) + Cardinality(behind)
    <2> HIDE DEF again, behind
    <2>1. Cardinality(again \cup behind)
            = Cardinality(again) + Cardinality(behind) - Cardinality(again \cap behind)
      BY <1>6, FS_Union
    <2>2. Cardinality(again \cap behind) = 0
      BY <1>5, FS_EmptySet
    <2> QED BY <1>6, <2>1, <2>2
  <1>8. Explained(returned \cup data, Skip + limit, repeats + Cardinality(returned \cap data))'
    <2>1. repeats \in Nat /\ arrivals' \in Nat
      BY DEF TypeOK
    <2>2. (repeats + Cardinality(again)) + Cardinality(behind) <= arrivals'
      <3> HIDE DEF again, behind
      <3>1. repeats + Cardinality(again \cup behind) <= arrivals'
        BY <1>4, <1>5
      <3> QED BY <1>6, <1>7, <2>1, <3>1
    <2>3. /\ (repeats + Cardinality(returned \cap PageRows))
               + Cardinality(((returned \cup PageRows) \cap List) \ Top(List, Skip + limit)) <= arrivals'
          /\ Cardinality((stable' \ (returned \cup PageRows)) \cap Top(List, Skip + limit)) <= departures'
      BY <1>4, <1>5, <2>2
    <2> QED BY <1>1, <2>3 DEF Explained, Behind, Passed
  <1>9. stable' \subseteq List'
    BY StableListed
  <1> QED BY <1>1, <1>2, <1>8, <1>9 DEF WalkExplained

\* The number of pages is enough for all rows.
LEMMA LastPage ==
  ASSUME NEW n \in Nat, NEW l \in Nat \ {0}, NEW k \in Nat \ {0}, ~(k < (n + l - 1) \div l)
  PROVE  n <= (k - 1) * l + l
  <1> DEFINE q == (n + l - 1) \div l
  <1>1. q \in Nat /\ q <= k
    OBVIOUS
  <1>2. n + l - 1 = l * q + ((n + l - 1) % l) /\ (n + l - 1) % l \in 0 .. l - 1
    OBVIOUS
  <1> HIDE DEF q
  <1>3. l * q <= l * k
    BY <1>1
  <1>4. (k - 1) * l + l = l * k
    OBVIOUS
  <1>5. l * q \in Nat /\ l * k \in Nat
    BY <1>1
  <1> QED BY <1>2, <1>3, <1>4, <1>5

\* The answer: the client has the page, and asks for the next one or is done.
LEMMA AnswerExplained ==
  ASSUME TypeOK, TypeOK', WalkExplained, Tally, CountAndAnswer
  PROVE  WalkExplained'
  <1>0. /\ page \in Nat \ {0} /\ limit \in Nat \ {0} /\ Skip \in Nat
        /\ arrivals \in Nat /\ departures \in Nat /\ repeats \in Nat
    BY SkipType DEF TypeOK
  <1>1. /\ phase = "count" /\ returned' = returned \cup data /\ limit' = limit
        /\ repeats' = repeats + Cardinality(returned \cap data) /\ List' = List
    BY DEF CountAndAnswer, List, InScope
  <1>2. Explained(returned \cup data, Skip + limit, repeats + Cardinality(returned \cap data))
    BY <1>1 DEF WalkExplained
  <1>3. stable' = stable /\ arrivals' = arrivals /\ departures' = departures
    <2>1. stable \cap List = stable
      BY DEF WalkExplained
    <2>2. List \ List = {}
      OBVIOUS
    <2>3. Cardinality({}) = 0
      BY FS_EmptySet
    <2> QED BY <1>0, <1>1, <2>1, <2>2, <2>3 DEF Tally
  <1>4. stable' \subseteq List'
    BY StableListed
  <1>5. CASE page < Pages
    <2>1. phase' = "ask" /\ page' = page + 1
      BY <1>5 DEF CountAndAnswer
    <2>2. Skip' = Skip + limit
      <3>1. ((page + 1) - 1) * limit = (page - 1) * limit + limit
        BY <1>0
      <3> QED BY <1>1, <2>1, <3>1 DEF Skip
    <2>3. Explained(returned, Skip, repeats)'
      BY <1>1, <1>2, <1>3, <2>2 DEF Explained, Behind, Passed
    <2>4. page' # 1
      BY <1>0, <2>1
    <2> QED BY <1>4, <2>1, <2>3, <2>4 DEF WalkExplained
  <1>6. CASE ~(page < Pages)
    <2>1. phase' = "done"
      BY <1>6 DEF CountAndAnswer
    <2>2. Cardinality(List) \in Nat /\ \A o : Rank(List, o) \in Nat /\ Rank(List, o) <= Cardinality(List)
      BY ListType, RankType
    <2>3. Cardinality(List) <= Skip + limit
      BY <1>0, <1>6, <2>2, LastPage DEF Pages, Skip
    <2>4. Top(List, Skip + limit) = List
      BY <1>0, <2>2, <2>3 DEF Top
    <2>5. Passed(returned \cup data, Skip + limit) = stable' \ returned'
      BY <1>1, <1>3, <1>4, <2>4 DEF Passed
    <2>6. Cardinality(stable' \ returned') <= departures'
      BY <1>2, <1>3, <2>5 DEF Explained
    <2>7. repeats' <= arrivals'
      <3>1. Cardinality(Behind(returned \cup data, Skip + limit)) \in Nat
        BY OrdersFinite DEF Behind, TypeOK
      <3>2. repeats' \in Nat
        BY DEF TypeOK
      <3> QED BY <1>0, <1>1, <1>2, <1>3, <3>1, <3>2 DEF Explained
    <2> QED BY <1>4, <2>1, <2>6, <2>7 DEF WalkExplained
  <1> QED BY <1>5, <1>6

\* A step that leaves the walk as it is, or only admits or fails a request.
LEMMA ElseExplained ==
  ASSUME TypeOK, WalkExplained, Tally, phase # "done",
         UNCHANGED <<returned, repeats, page, limit>>,
         phase' = "count" => phase = "count" /\ data' = data, phase' # "done"
  PROVE  WalkExplained'
  <1>1. Explained(returned, Skip, repeats)'
    BY StaysExplained
  <1>2. phase' = "count" =>
          Explained(returned \cup data, Skip + limit, repeats + Cardinality(returned \cap data))'
    BY AnswerStaysExplained
  <1>3. stable' \subseteq List'
    BY StableListed
  <1> QED BY <1>1, <1>2, <1>3 DEF WalkExplained

\* Every step keeps the walk explained.
LEMMA WalkStep == IInv /\ TypeOK /\ WalkExplained /\ [Next]_vars => WalkExplained'
  <1> SUFFICES ASSUME IInv, TypeOK, WalkExplained, [Next]_vars
               PROVE  WalkExplained'
    OBVIOUS
  <1>0. TypeOK'
    BY TypeStep
  <1>1. CASE UNCHANGED vars
    BY <1>1 DEF vars, walk, tally, WalkExplained, Explained, Behind, Passed, List, InScope, Skip
  <1> SUFFICES ASSUME Act, Tally, phase # "done"
               PROVE  WalkExplained'
    BY <1>1 DEF Next
  <1>2. CASE TokenStep /\ UNCHANGED <<place, walk>>
    BY <1>2, ElseExplained DEF walk
  <1>3. CASE \E o \in Orders : Create(o) \/ UpdateStatus(o)
    <2>1. UNCHANGED walk
      BY <1>3 DEF Create, UpdateStatus
    <2> QED BY <2>1, ElseExplained DEF walk
  <1>4. CASE \E t \in tokens : Admit(t)
    <2>1. phase' = "find" /\ UNCHANGED <<returned, repeats, page, limit>>
      BY <1>4 DEF Admit
    <2> QED BY <2>1, ElseExplained
  <1>5. CASE PageFails
    <2>1. phase' = "ask" /\ UNCHANGED <<returned, repeats, page, limit>>
      BY <1>5 DEF PageFails
    <2> QED BY <2>1, ElseExplained
  <1>6. CASE FindMany
    BY <1>0, <1>6, FindExplained
  <1>7. CASE CountAndAnswer
    BY <1>0, <1>7, AnswerExplained
  <1> QED BY <1>2, <1>3, <1>4, <1>5, <1>6, <1>7 DEF Act

\* Nothing is in the list and nothing is returned at first.
LEMMA InitWalk == Init => WalkExplained
  <1> SUFFICES ASSUME Init PROVE WalkExplained
    OBVIOUS
  <1>1. stable = {} /\ returned = {} /\ List = {} /\ phase = "ask"
        /\ repeats = 0 /\ arrivals = 0 /\ departures = 0
    BY DEF Init, List, InScope
  <1>2. \A s : Behind({}, s) = {} /\ Passed({}, s) = {}
    BY <1>1 DEF Behind, Passed
  <1>3. Cardinality({}) = 0
    BY FS_EmptySet
  <1> QED BY <1>1, <1>2, <1>3 DEF WalkExplained, Explained

\* The three invariants together.
LEMMA WalkInvariant == Spec => [](IInv /\ TypeOK /\ WalkExplained)
  BY InitInv, InvStep, InitType, TypeStep, InitWalk, WalkStep, PTL DEF Spec

\* However placements, status changes, changes of scope, failed pages and the
\* two statements of a page interleave, a walk misses no more of the orders
\* that were there all the time than left the list meanwhile, for every page
\* size and number of orders.
THEOREM MissesExplained == Spec => []SkipsExplained
  <1>1. TypeOK /\ WalkExplained => SkipsExplained
    BY DEF WalkExplained, SkipsExplained
  <1> QED BY <1>1, WalkInvariant, PTL

\* And it shows no more orders twice than entered the list.
THEOREM RepetitionsExplained == Spec => []RepeatsExplained
  <1>1. TypeOK /\ WalkExplained => RepeatsExplained
    <2> SUFFICES ASSUME TypeOK, WalkExplained PROVE repeats <= arrivals
      BY DEF RepeatsExplained
    <2>1. Cardinality(Behind(returned, Skip)) \in Nat
      BY OrdersFinite DEF Behind, TypeOK
    <2>2. repeats \in Nat /\ arrivals \in Nat
      BY DEF TypeOK
    <2> QED BY <2>1, <2>2 DEF WalkExplained, Explained
  <1> QED BY <1>1, WalkInvariant, PTL
=============================================================================
