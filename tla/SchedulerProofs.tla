-------------------------- MODULE SchedulerProofs ---------------------------
(***************************************************************************)
(* Proofs about the load balancer's scheduler, for any configuration of    *)
(* tiers, backends, connections and limits and any number of clients.      *)
(***************************************************************************)
EXTENDS Scheduler, FiniteSetTheorems, WellFoundedInduction, NaturalsInduction, TLAPS

-----------------------------------------------------------------------------
(* Smallest elements and cursors that wrap around.                         *)

\* A nonempty set of natural numbers has a smallest element, and Min is it.
LEMMA MinNat ==
    ASSUME NEW S \in SUBSET Nat, S # {}
    PROVE  /\ Min(S) \in S
           /\ \A y \in S : Min(S) <= y
<1>1. PICK x \in S : \A y \in S : ~(<<y, x>> \in OpToRel(<, Nat))
  BY NatLessThanWellFounded, WFMin
<1>2. \A y \in Nat : <<y, x>> \in OpToRel(<, Nat) <=> y < x
  BY DEF OpToRel
<1>3. ASSUME NEW y \in S PROVE x <= y
  <2>1. ~(y < x)
    BY <1>1, <1>2
  <2>. QED  BY <2>1
<1>. QED  BY <1>3 DEF Min

\* A cursor taken modulo the length is an index.
LEMMA ModIndex ==
    ASSUME NEW n \in Nat, n > 0, NEW a \in Nat
    PROVE  a % n \in 0..(n - 1)
  BY SMT

\* From any cursor on, n offsets reach every index.
LEMMA Rotation ==
    ASSUME NEW n \in Nat, n > 0, NEW s \in 0..(n - 1), NEW i \in 0..(n - 1)
    PROVE  \E k \in 0..(n - 1) : (s + k) % n = i
<1>1. CASE i >= s
  <2>1. i - s \in 0..(n - 1) /\ s + (i - s) = i
    BY <1>1
  <2>2. i % n = i
    BY SMT
  <2>. QED  BY <2>1, <2>2
<1>2. CASE i < s
  <2>1. (i - s) + n \in 0..(n - 1) /\ s + ((i - s) + n) = i + n
    BY <1>2
  <2>2. (i + n) % n = i
    BY SMT
  <2>. QED  BY <2>1, <2>2
<1>. QED  BY <1>1, <1>2

-----------------------------------------------------------------------------
(* What a selection takes.                                                 *)

\* The configuration, seen through indices that start at 0.
LEMMA ConfigIndices ==
    /\ \A b \in Backends : /\ Len(Members[b]) \in Nat
                           /\ \A i \in 0..(Len(Members[b]) - 1) :
                                 /\ ConnectionAt(b, i) \in Connections
                                 /\ Owner[ConnectionAt(b, i)] = b
    /\ \A t \in Tiers : /\ Len(TierBackends[t]) \in Nat
                        /\ \A i \in Indices(t) : BackendAt(t, i) \in Backends
<1>1. ASSUME NEW b \in Backends
      PROVE  /\ Len(Members[b]) \in Nat
             /\ \A i \in 0..(Len(Members[b]) - 1) :
                   ConnectionAt(b, i) \in Connections /\ Owner[ConnectionAt(b, i)] = b
  <2>1. Members[b] \in Seq(Connections)
    BY ConfigAssumption
  <2>2. \A i \in 1..Len(Members[b]) : Members[b][i] \in Connections /\ Owner[Members[b][i]] = b
    BY <2>1, MembersAssumption
  <2>3. \A i \in 0..(Len(Members[b]) - 1) : i + 1 \in 1..Len(Members[b])
    BY <2>1
  <2>. QED  BY <2>1, <2>2, <2>3 DEF ConnectionAt
<1>2. ASSUME NEW t \in Tiers
      PROVE  /\ Len(TierBackends[t]) \in Nat
             /\ \A i \in Indices(t) : BackendAt(t, i) \in Backends
  <2>1. TierBackends[t] \in Seq(Backends)
    BY ConfigAssumption DEF Tiers
  <2>2. \A i \in Indices(t) : i + 1 \in 1..Len(TierBackends[t])
    BY <2>1 DEF Indices
  <2>. QED  BY <2>1, <2>2 DEF BackendAt
<1>. QED  BY <1>1, <1>2

\* tryBackendLocked: a backend that accepts is below its limit and gives out a
\* usable connection of its own.
LEMMA TryBackendSelected ==
    ASSUME TypeOK, NEW b \in Backends, NEW pool \in Pools, TryBackend(b, pool) = "selected"
    PROVE  /\ ~BackendFull(b)
           /\ Len(Members[b]) > 0
           /\ ConnectionIndex(b, pool) \in 0..(Len(Members[b]) - 1)
           /\ Usable(ConnectionAt(b, ConnectionIndex(b, pool)), pool)
<1> DEFINE n == Len(Members[b])
           K == ConnectionOffsets(b, pool)
<1>1. ~BackendFull(b) /\ K # {}
  BY DEF TryBackend
<1>2. n \in Nat /\ nextConnection[b][pool] \in Nat
  BY ConfigIndices DEF TypeOK
<1>3. K \in SUBSET Nat
  BY <1>2 DEF ConnectionOffsets
<1>4. Min(K) \in K
  BY <1>1, <1>3, MinNat
<1>5. n > 0
  BY <1>2, <1>4 DEF ConnectionOffsets
<1>6. ConnectionIndex(b, pool) \in 0..(n - 1)
  <2>1. nextConnection[b][pool] + Min(K) \in Nat
    BY <1>2, <1>3, <1>4
  <2>. QED  BY <1>2, <1>5, <2>1, ModIndex DEF ConnectionIndex
<1>7. Usable(ConnectionAt(b, ConnectionIndex(b, pool)), pool)
  BY <1>4 DEF ConnectionOffsets, ConnectionIndex
<1>. QED  BY <1>1, <1>5, <1>6, <1>7

\* The three policies choose a backend that accepts.
LEMMA PolicyAccepts ==
    ASSUME TypeOK, NEW t \in Tiers, NEW pool \in Pools, Accepting(t, pool) # {},
           NEW i \in PolicyChoices(t, pool)
    PROVE  /\ i \in Indices(t)
           /\ BackendAt(t, i) \in Backends
           /\ TryBackend(BackendAt(t, i), pool) = "selected"
<1> DEFINE n == Len(TierBackends[t])
<1>1. i \in Accepting(t, pool)
  <2>1. CASE TierPolicy[t] = "roundrobin"
    <3> DEFINE K == {k \in Indices(t) : (next[t] + k) % n \in Accepting(t, pool)}
    <3>1. n \in Nat /\ n > 0
      BY ConfigIndices DEF Accepting, Indices
    <3>2. next[t] \in 0..(n - 1)
      BY <3>1 DEF TypeOK, Indices
    <3>3. PICK j \in Accepting(t, pool) : TRUE
      OBVIOUS
    <3>4. j \in 0..(n - 1)
      BY <3>3 DEF Accepting, Indices
    <3>5. K # {}
      <4>1. PICK k \in 0..(n - 1) : (next[t] + k) % n = j
        BY <3>1, <3>2, <3>4, Rotation
      <4>2. k \in K
        BY <3>3, <4>1 DEF Indices
      <4>. QED  BY <4>2
    <3>6. K \in SUBSET Nat
      BY <3>1 DEF Indices
    <3>7. Min(K) \in K
      BY <3>5, <3>6, MinNat
    <3>8. i = (next[t] + Min(K)) % n
      BY <2>1 DEF PolicyChoices, RoundRobinChoices
    <3>. QED  BY <3>7, <3>8
  <2>2. CASE TierPolicy[t] = "weighted"
    BY <2>2 DEF PolicyChoices, WeightedChoices
  <2>3. CASE TierPolicy[t] = "bestof"
    BY <2>3 DEF PolicyChoices, BestOfChoices
  <2>. QED  BY <2>1, <2>2, <2>3, ConfigAssumption DEF Policies
<1>. QED  BY <1>1, ConfigIndices DEF Accepting

\* An unrestricted selection is decided by the first tier that is not
\* unavailable.
LEMMA FirstTierDecides ==
    ASSUME NEW pool \in Pools, SelectUnrestricted(pool) # "unavailable"
    PROVE  LET t == Min(DecidingTiers(pool))
           IN  /\ t \in Tiers
               /\ TierResult(t, pool) = SelectUnrestricted(pool)
               /\ \A u \in 1..(t - 1) : TierResult(u, pool) = "unavailable"
<1>1. DecidingTiers(pool) # {}
  BY DEF SelectUnrestricted
<1>2. DecidingTiers(pool) \in SUBSET Nat
  BY DEF DecidingTiers, Tiers
<1>3. Min(DecidingTiers(pool)) \in DecidingTiers(pool)
  BY <1>1, <1>2, MinNat
<1>. QED  BY <1>1, <1>3 DEF DecidingTiers, SelectUnrestricted

-----------------------------------------------------------------------------
(* Accounting.                                                             *)

\* A client knows what it asks for until it is idle again, and one that holds
\* a lease holds it for a connection.
ClientsConsistent ==
    \A c \in Clients : /\ pc[c] # "idle" => request[c] \in Requests
                       /\ pc[c] \in {"held", "released"} => leased[c] \in Connections

\* What every selection amounts to for the counters: a reservation of x, under
\* the limits that apply to this kind of request.
Grant(c, x) ==
    /\ pc[c] = "attempt"
    /\ x \in Connections
    /\ request[c].kind # "signaling" => ~BackendFull(Owner[x])
    /\ request[c].kind = "select" => ~AtCapacity(connectionPending[x], ConnectionMax[x])
    /\ Reserve(c, x)

\* Requests are one of three kinds of records.
LEMMA RequestKinds ==
    \A r \in Requests :
        /\ r.kind \in {"select", "owned", "signaling"}
        /\ r.kind = "select" => /\ r.pool \in Pools
                                /\ r.backend \in Backends \cup {None}
                                /\ r.connection \in Connections \cup {None}
        /\ r.kind \in {"owned", "signaling"} => r.connection \in Connections
        /\ r.kind = "owned" => r.limit \in Nat
  BY ConfigAssumption DEF RequestType

\* reserveLocked and the cursor of the backend keep the types.
LEMMA TakeConnectionTypes ==
    ASSUME TypeOK, NEW c \in Clients, NEW b \in Backends, NEW pool \in Pools,
           TryBackend(b, pool) = "selected", TakeConnection(c, b, pool),
           next' \in [Tiers -> Nat], \A u \in Tiers : next'[u] \in Indices(u) \cup {0},
           passed' \in [Backends -> Nat]
    PROVE  TypeOK'
<1> DEFINE i == ConnectionIndex(b, pool)
           x == ConnectionAt(b, i)
<1>1. Len(Members[b]) \in Nat /\ Len(Members[b]) > 0 /\ i \in 0..(Len(Members[b]) - 1)
  BY TryBackendSelected, ConfigIndices
<1>2. x \in Connections /\ Owner[x] = b
  BY <1>1, ConfigIndices
<1>3. (i + 1) % Len(Members[b]) \in 0..(Len(Members[b]) - 1)
  BY <1>1, ModIndex
<1>4. /\ nextConnection' \in [Backends -> [Pools -> Nat]]
      /\ \A d \in Backends, q \in Pools :
            nextConnection'[d][q] \in 0..(Len(Members[d]) - 1) \cup {0}
  <2>1. nextConnection' = [nextConnection EXCEPT ![b][pool] = (i + 1) % Len(Members[b])]
    BY DEF TakeConnection
  <2>2. (i + 1) % Len(Members[b]) \in Nat
    BY <1>1, <1>3
  <2>. QED  BY <1>3, <2>1, <2>2 DEF TypeOK
<1>5. Reserve(c, x)
  BY DEF TakeConnection
<1>. QED  BY <1>2, <1>4, <1>5 DEF Reserve, TypeOK

\* Select without affinity grants a usable connection of a backend that accepts.
LEMMA SelectTierGrants ==
    ASSUME TypeOK, ClientsConsistent, NEW c \in Clients, SelectTier(c)
    PROVE  /\ \E x \in Connections : Grant(c, x)
           /\ TypeOK'
           /\ \E t \in Tiers, pool \in Pools : \E i \in PolicyChoices(t, pool) :
                 /\ Accepting(t, pool) # {}
                 /\ next' = NextBackend(t, i) /\ passed' = PassedAfter(t, i, pool)
<1> DEFINE pool == request[c].pool
           t == Min(DecidingTiers(pool))
<1>1. /\ pc[c] = "attempt" /\ request[c] \in Requests /\ request[c].kind = "select"
      /\ pool \in Pools
      /\ SelectUnrestricted(pool) = "selected"
  <2>1. pc[c] = "attempt" /\ Unrestricted(request[c]) /\ Result(request[c]) = "selected"
    BY DEF SelectTier, Attempting
  <2>2. request[c] \in Requests /\ request[c].kind = "select"
    BY <2>1 DEF ClientsConsistent, Unrestricted
  <2>3. Result(request[c]) = SelectUnrestricted(pool)
    BY <2>1, <2>2 DEF Result, Unrestricted, BackendAffinity, ConnectionAffinity
  <2>. QED  BY <2>1, <2>2, <2>3, RequestKinds
<1>2. t \in Tiers /\ TierResult(t, pool) = "selected"
  BY <1>1, FirstTierDecides
<1>3. Accepting(t, pool) # {}
  BY <1>2 DEF TierResult
<1>4. PICK i \in PolicyChoices(t, pool) :
          /\ TakeConnection(c, BackendAt(t, i), pool)
          /\ next' = NextBackend(t, i)
          /\ passed' = PassedAfter(t, i, pool)
  BY DEF SelectTier
<1> DEFINE b == BackendAt(t, i)
           x == ConnectionAt(b, ConnectionIndex(b, pool))
<1>5. i \in Indices(t) /\ b \in Backends /\ TryBackend(b, pool) = "selected"
  BY <1>1, <1>2, <1>3, <1>4, PolicyAccepts
<1>6. /\ ~BackendFull(b) /\ Len(Members[b]) > 0
      /\ ConnectionIndex(b, pool) \in 0..(Len(Members[b]) - 1)
      /\ Usable(x, pool)
  BY <1>1, <1>5, TryBackendSelected
<1>7. x \in Connections /\ Owner[x] = b
  BY <1>5, <1>6, ConfigIndices
<1>8. Grant(c, x)
  BY <1>1, <1>4, <1>6, <1>7 DEF Grant, TakeConnection, Usable
<1>9. TypeOK'
  <2>1. next' \in [Tiers -> Nat] /\ \A u \in Tiers : next'[u] \in Indices(u) \cup {0}
    <3>1. (i + 1) % Len(TierBackends[t]) \in Indices(t)
      <4>1. Len(TierBackends[t]) \in Nat /\ Len(TierBackends[t]) > 0 /\ i + 1 \in Nat
        BY <1>2, <1>5, ConfigIndices DEF Indices
      <4>. QED  BY <4>1, ModIndex DEF Indices
    <3>2. (i + 1) % Len(TierBackends[t]) \in Nat
      BY <1>2, <3>1, ConfigIndices DEF Indices
    <3>. QED  BY <1>2, <1>4, <3>1, <3>2 DEF NextBackend, TypeOK
  <2>2. passed' \in [Backends -> Nat]
    BY <1>4 DEF PassedAfter, TypeOK
  <2>3. TakeConnection(c, b, pool)
    BY <1>4
  <2>. QED  BY <1>1, <1>5, <1>7, <2>1, <2>2, <2>3, TakeConnectionTypes
<1>. QED  BY <1>1, <1>2, <1>3, <1>4, <1>7, <1>8, <1>9

\* Select with backend affinity.
LEMMA SelectBackendGrants ==
    ASSUME TypeOK, ClientsConsistent, NEW c \in Clients, SelectBackend(c)
    PROVE  /\ \E x \in Connections : Grant(c, x)
           /\ TypeOK'
<1> DEFINE pool == request[c].pool
           b == request[c].backend
           x == ConnectionAt(b, ConnectionIndex(b, pool))
<1>1. pc[c] = "attempt" /\ BackendAffinity(request[c]) /\ Result(request[c]) = "selected"
  BY DEF SelectBackend, Attempting
<1>2. request[c] \in Requests /\ request[c].kind = "select" /\ b # None
  BY <1>1 DEF ClientsConsistent, BackendAffinity
<1>3. pool \in Pools /\ b \in Backends
  BY <1>2, RequestKinds
<1>4. TryBackend(b, pool) = "selected"
  BY <1>1, <1>2 DEF Result, Unrestricted, BackendAffinity, ConnectionAffinity
<1>5. /\ ~BackendFull(b)
      /\ ConnectionIndex(b, pool) \in 0..(Len(Members[b]) - 1)
      /\ Usable(x, pool)
  BY <1>3, <1>4, TryBackendSelected
<1>6. x \in Connections /\ Owner[x] = b
  BY <1>3, <1>5, ConfigIndices
<1>7. TakeConnection(c, b, pool) /\ next' = next /\ passed' = passed
  BY DEF SelectBackend
<1>8. Grant(c, x)
  BY <1>1, <1>2, <1>5, <1>6, <1>7 DEF Grant, TakeConnection, Usable
<1>9. TypeOK'
  BY <1>3, <1>4, <1>7, TakeConnectionTypes DEF TypeOK
<1>. QED  BY <1>6, <1>8, <1>9

\* A reservation that moves no cursor keeps the types.
LEMMA ReserveTypes ==
    ASSUME TypeOK, NEW c \in Clients, NEW x \in Connections, Reserve(c, x),
           UNCHANGED <<next, nextConnection, passed>>
    PROVE  TypeOK'
<1>1. Owner[x] \in Backends
  BY ConfigAssumption
<1>2. backendPending' \in [Backends -> Nat] /\ connectionPending' \in [Connections -> Nat]
  BY <1>1 DEF Reserve, TypeOK
<1>3. /\ \A t \in Tiers : next'[t] \in Indices(t) \cup {0}
      /\ \A b \in Backends, p \in Pools :
            nextConnection'[b][p] \in 0..(Len(Members[b]) - 1) \cup {0}
  BY DEF TypeOK
<1>. QED  BY <1>2, <1>3 DEF Reserve, TypeOK

\* Select with connection affinity, and the reservations for owners and Cancels.
LEMMA SelectConnectionGrants ==
    ASSUME TypeOK, ClientsConsistent, NEW c \in Clients, SelectConnection(c)
    PROVE  /\ \E x \in Connections : Grant(c, x)
           /\ TypeOK'
<1> DEFINE r == request[c]
           x == r.connection
<1>1. /\ pc[c] = "attempt" /\ Result(r) = "selected"
      /\ ConnectionAffinity(r) \/ r.kind \in {"owned", "signaling"}
      /\ Reserve(c, x) /\ UNCHANGED <<next, nextConnection, passed>>
  BY DEF SelectConnection, Attempting, configVars
<1>2. r \in Requests
  BY <1>1 DEF ClientsConsistent
<1>3. x \in Connections
  BY <1>1, <1>2, RequestKinds DEF ConnectionAffinity
<1>4. request[c].kind # "signaling" => ~BackendFull(Owner[x])
  <2>1. CASE r.kind = "select"
    <3>1. SelectConnectionAffinity(r) = "selected"
      BY <1>1, <2>1 DEF Result, Unrestricted, BackendAffinity, ConnectionAffinity
    <3>. QED  BY <3>1 DEF SelectConnectionAffinity
  <2>2. CASE r.kind = "owned"
    <3>1. OwnedResult(r) = "selected"
      BY <1>1, <2>2 DEF Result, Unrestricted, BackendAffinity, ConnectionAffinity
    <3>. QED  BY <3>1 DEF OwnedResult
  <2>. QED  BY <1>2, <2>1, <2>2, RequestKinds
<1>5. request[c].kind = "select" => ~AtCapacity(connectionPending[x], ConnectionMax[x])
  <2>1. SUFFICES ASSUME r.kind = "select" PROVE Usable(x, r.pool)
    BY DEF Usable
  <2>2. SelectConnectionAffinity(r) = "selected"
    BY <1>1, <2>1 DEF Result, Unrestricted, BackendAffinity, ConnectionAffinity
  <2>. QED  BY <2>2 DEF SelectConnectionAffinity
<1>6. Grant(c, x)
  BY <1>1, <1>3, <1>4, <1>5 DEF Grant
<1>7. TypeOK'
  BY <1>1, <1>3, ReserveTypes
<1>. QED  BY <1>3, <1>6, <1>7

\* The holders of anything can be counted.
LEMMA HoldersFinite ==
    ASSUME NEW S \in SUBSET Clients
    PROVE  IsFiniteSet(S) /\ Cardinality(S) \in Nat
  BY ClientsAssumption, FS_Subset, FS_CardinalityType

\* reserveLocked keeps the counters exact and, for what the limits apply to,
\* within them.
LEMMA GrantAccounts ==
    ASSUME TypeOK, ClientsConsistent, PendingIsExact, LimitsHold,
           NEW c \in Clients, NEW x \in Connections, Grant(c, x)
    PROVE  ClientsConsistent' /\ PendingIsExact' /\ LimitsHold'
<1> DEFINE b == Owner[x]
<1>0. /\ pc[c] = "attempt" /\ b \in Backends /\ request' = request
      /\ request[c] \in Requests
      /\ pc' = [pc EXCEPT ![c] = "held"] /\ leased' = [leased EXCEPT ![c] = x]
      /\ backendPending' = [backendPending EXCEPT ![b] = @ + 1]
      /\ connectionPending' = [connectionPending EXCEPT ![x] = @ + 1]
  BY ConfigAssumption DEF Grant, Reserve, ClientsConsistent
<1>1. ClientsConsistent'
  BY <1>0 DEF ClientsConsistent, TypeOK
<1>2. /\ Holders(x)' = Holders(x) \cup {c} /\ c \notin Holders(x)
      /\ \A y \in Connections : y # x => Holders(y)' = Holders(y)
  BY <1>0 DEF Holders, TypeOK
<1>3. /\ BackendHolders(b)' = BackendHolders(b) \cup {c} /\ c \notin BackendHolders(b)
      /\ \A d \in Backends : d # b => BackendHolders(d)' = BackendHolders(d)
  BY <1>0 DEF BackendHolders, TypeOK
<1>4. /\ \A y \in Connections : IsFiniteSet(Holders(y)) /\ Cardinality(Holders(y)) \in Nat
      /\ \A d \in Backends :
            IsFiniteSet(BackendHolders(d)) /\ Cardinality(BackendHolders(d)) \in Nat
  BY HoldersFinite DEF Holders, BackendHolders
<1>5. PendingIsExact'
  <2>1. Cardinality(Holders(x) \cup {c}) = Cardinality(Holders(x)) + 1
    BY <1>2, <1>4, FS_AddElement
  <2>2. Cardinality(BackendHolders(b) \cup {c}) = Cardinality(BackendHolders(b)) + 1
    BY <1>0, <1>3, <1>4, FS_AddElement
  <2>3. ASSUME NEW d \in Backends
        PROVE  backendPending'[d] = Cardinality(BackendHolders(d)')
    BY <1>0, <1>3, <2>2 DEF PendingIsExact, TypeOK
  <2>4. ASSUME NEW y \in Connections
        PROVE  connectionPending'[y] = Cardinality(Holders(y)')
    BY <1>0, <1>2, <2>1 DEF PendingIsExact, TypeOK
  <2>. QED  BY <2>3, <2>4 DEF PendingIsExact
<1>6. LimitsHold'
  <2> DEFINE Limited(d) == {e \in BackendHolders(d) : request[e].kind # "signaling"}
             Placed(y) == {e \in Holders(y) : request[e].kind = "select"}
  <2>1. /\ \A d \in Backends : Limited(d) \in SUBSET BackendHolders(d)
        /\ \A y \in Connections : Placed(y) \in SUBSET Holders(y)
    OBVIOUS
  <2>2. ASSUME NEW d \in Backends, BackendMax[d] > 0
        PROVE  Cardinality({e \in BackendHolders(d)' : request'[e].kind # "signaling"})
                 <= BackendMax[d]
    <3>1. Cardinality(Limited(d)) <= BackendMax[d]
      BY <2>2 DEF LimitsHold
    <3>2. CASE d # b \/ request[c].kind = "signaling"
      <4>1. {e \in BackendHolders(d)' : request'[e].kind # "signaling"} = Limited(d)
        BY <1>0, <1>3, <3>2
      <4>. QED  BY <3>1, <4>1
    <3>3. CASE d = b /\ request[c].kind # "signaling"
      <4>1. {e \in BackendHolders(d)' : request'[e].kind # "signaling"}
              = Limited(b) \cup {c}
        BY <1>0, <1>3, <3>3
      <4>2. Cardinality(Limited(b)) <= Cardinality(BackendHolders(b))
        BY <1>0, <1>4, <2>1, FS_Subset
      <4>3. Cardinality(BackendHolders(b)) < BackendMax[b]
        <5>1. ~AtCapacity(backendPending[b], BackendMax[b])
          BY <3>3 DEF Grant, BackendFull
        <5>2. backendPending[b] = Cardinality(BackendHolders(b))
          BY <1>0 DEF PendingIsExact
        <5>3. BackendMax[b] \in Nat
          BY <1>0, ConfigAssumption
        <5>. QED  BY <1>0, <1>4, <2>2, <3>3, <5>1, <5>2, <5>3 DEF AtCapacity
      <4>4. IsFiniteSet(Limited(b)) /\ Cardinality(Limited(b)) \in Nat /\ c \notin Limited(b)
        BY <1>0, <1>3, <1>4, <2>1, FS_Subset, FS_CardinalityType
      <4>5. Cardinality(Limited(b) \cup {c}) = Cardinality(Limited(b)) + 1
        BY <4>4, FS_AddElement
      <4>6. BackendMax[b] \in Nat /\ Cardinality(BackendHolders(b)) \in Nat
        BY <1>0, <1>4, ConfigAssumption
      <4>7. Cardinality(Limited(b) \cup {c}) <= BackendMax[b]
        BY <4>2, <4>3, <4>4, <4>5, <4>6
      <4>. QED  BY <3>3, <4>1, <4>7
    <3>. QED  BY <3>2, <3>3
  <2>3. ASSUME NEW y \in Connections, ConnectionMax[y] > 0
        PROVE  Cardinality({e \in Holders(y)' : request'[e].kind = "select"})
                 <= ConnectionMax[y]
    <3>1. Cardinality(Placed(y)) <= ConnectionMax[y]
      BY <2>3 DEF LimitsHold
    <3>2. CASE y # x \/ request[c].kind # "select"
      <4>1. {e \in Holders(y)' : request'[e].kind = "select"} = Placed(y)
        BY <1>0, <1>2, <3>2
      <4>. QED  BY <3>1, <4>1
    <3>3. CASE y = x /\ request[c].kind = "select"
      <4>1. {e \in Holders(y)' : request'[e].kind = "select"} = Placed(x) \cup {c}
        BY <1>0, <1>2, <3>3
      <4>2. Cardinality(Placed(x)) <= Cardinality(Holders(x))
        BY <1>4, <2>1, FS_Subset
      <4>3. Cardinality(Holders(x)) < ConnectionMax[x]
        <5>1. ~AtCapacity(connectionPending[x], ConnectionMax[x])
          BY <3>3 DEF Grant
        <5>2. connectionPending[x] = Cardinality(Holders(x))
          BY DEF PendingIsExact
        <5>3. ConnectionMax[x] \in Nat
          BY ConfigAssumption
        <5>. QED  BY <1>4, <2>3, <3>3, <5>1, <5>2, <5>3 DEF AtCapacity
      <4>4. IsFiniteSet(Placed(x)) /\ Cardinality(Placed(x)) \in Nat /\ c \notin Placed(x)
        BY <1>2, <1>4, <2>1, FS_Subset, FS_CardinalityType
      <4>5. Cardinality(Placed(x) \cup {c}) = Cardinality(Placed(x)) + 1
        BY <4>4, FS_AddElement
      <4>6. ConnectionMax[x] \in Nat /\ Cardinality(Holders(x)) \in Nat
        BY <1>4, ConfigAssumption
      <4>7. Cardinality(Placed(x) \cup {c}) <= ConnectionMax[x]
        BY <4>2, <4>3, <4>4, <4>5, <4>6
      <4>. QED  BY <3>3, <4>1, <4>7
    <3>. QED  BY <3>2, <3>3
  <2>. QED  BY <2>2, <2>3 DEF LimitsHold
<1>. QED  BY <1>1, <1>5, <1>6

\* A step of a client that neither takes nor gives back a lease touches no
\* counter and no holder.
LEMMA OutsideLeases ==
    ASSUME TypeOK, ClientsConsistent, PendingIsExact, LimitsHold, NEW c \in Clients,
           NEW q, NEW r \in Requests \cup {None}, NEW l \in Connections \cup {None},
           pc[c] # "held", q \in {"idle", "attempt", "wait"}, q # "idle" => r \in Requests,
           pc' = [pc EXCEPT ![c] = q],
           request' = [request EXCEPT ![c] = r],
           leased' = [leased EXCEPT ![c] = l],
           signal' \in [Clients -> {"none", "open", "closed"}],
           UNCHANGED <<state, backendPending, connectionPending, next, nextConnection, passed>>
    PROVE  TypeOK' /\ ClientsConsistent' /\ PendingIsExact' /\ LimitsHold'
<1>1. TypeOK'
  BY DEF TypeOK
<1>2. ClientsConsistent'
  BY DEF ClientsConsistent, TypeOK
<1>3. /\ \A y : Holders(y)' = Holders(y)
      /\ \A d : BackendHolders(d)' = BackendHolders(d)
  BY DEF Holders, BackendHolders, TypeOK
<1>4. PendingIsExact'
  BY <1>3 DEF PendingIsExact
<1>5. /\ \A y : {e \in Holders(y)' : request'[e].kind = "select"}
                  = {e \in Holders(y) : request[e].kind = "select"}
      /\ \A d : {e \in BackendHolders(d)' : request'[e].kind # "signaling"}
                  = {e \in BackendHolders(d) : request[e].kind # "signaling"}
  BY <1>3 DEF Holders, BackendHolders, TypeOK
<1>6. LimitsHold'
  BY <1>5 DEF LimitsHold
<1>. QED  BY <1>1, <1>2, <1>4, <1>6

\* Lease.Release frees both slots the first time and nothing the second.
LEMMA ReleaseAccounts ==
    ASSUME TypeOK, ClientsConsistent, PendingIsExact, LimitsHold,
           NEW c \in Clients, Release(c)
    PROVE  TypeOK' /\ ClientsConsistent' /\ PendingIsExact' /\ LimitsHold'
<1>0. /\ pc[c] \in {"held", "released"} /\ leased[c] \in Connections
      /\ UNCHANGED <<state, next, nextConnection, passed>>
  BY DEF Release, ClientsConsistent, configVars
<1> DEFINE x == leased[c]
           b == Owner[x]
<1>1. b \in Backends
  BY <1>0, ConfigAssumption
<1>2. /\ \A y \in Connections : IsFiniteSet(Holders(y)) /\ Cardinality(Holders(y)) \in Nat
      /\ \A d \in Backends :
            IsFiniteSet(BackendHolders(d)) /\ Cardinality(BackendHolders(d)) \in Nat
  BY HoldersFinite DEF Holders, BackendHolders
<1>3. CASE pc[c] = "held"
  <2>1. /\ pc' = [pc EXCEPT ![c] = "released"] /\ leased' = leased /\ request' = request
        /\ backendPending' = [backendPending EXCEPT ![b] = Decrement(@)]
        /\ connectionPending' = [connectionPending EXCEPT ![x] = Decrement(@)]
        /\ signal' = SignalCapacity
    BY <1>3 DEF Release, ReleaseToken, FreeSlots, TypeOK
  <2>2. /\ Holders(x)' = Holders(x) \ {c} /\ c \in Holders(x)
        /\ \A y \in Connections : y # x => Holders(y)' = Holders(y)
    BY <1>3, <2>1 DEF Holders, TypeOK
  <2>3. /\ BackendHolders(b)' = BackendHolders(b) \ {c} /\ c \in BackendHolders(b)
        /\ \A d \in Backends : d # b => BackendHolders(d)' = BackendHolders(d)
    BY <1>3, <2>1 DEF BackendHolders, TypeOK
  <2>4. Cardinality(Holders(x) \ {c}) = Cardinality(Holders(x)) - 1
    BY <1>0, <1>2, <2>2, FS_RemoveElement
  <2>5. Cardinality(BackendHolders(b) \ {c}) = Cardinality(BackendHolders(b)) - 1
    BY <1>1, <1>2, <2>3, FS_RemoveElement
  <2>6. connectionPending[x] > 0 /\ backendPending[b] > 0
    <3>1. Holders(x) # {} /\ BackendHolders(b) # {}
      BY <2>2, <2>3
    <3>2. Cardinality(Holders(x)) # 0 /\ Cardinality(BackendHolders(b)) # 0
      BY <1>0, <1>1, <1>2, <3>1, FS_EmptySet
    <3>. QED  BY <1>0, <1>1, <1>2, <3>2 DEF PendingIsExact
  <2>7. PendingIsExact'
    <3>1. ASSUME NEW d \in Backends
          PROVE  backendPending'[d] = Cardinality(BackendHolders(d)')
      BY <1>1, <2>1, <2>3, <2>5, <2>6 DEF PendingIsExact, TypeOK, Decrement
    <3>2. ASSUME NEW y \in Connections
          PROVE  connectionPending'[y] = Cardinality(Holders(y)')
      BY <1>0, <2>1, <2>2, <2>4, <2>6 DEF PendingIsExact, TypeOK, Decrement
    <3>. QED  BY <3>1, <3>2 DEF PendingIsExact
  <2>8. LimitsHold'
    <3>1. ASSUME NEW d \in Backends
          PROVE  Cardinality({e \in BackendHolders(d)' : request'[e].kind # "signaling"})
                   <= Cardinality({e \in BackendHolders(d) : request[e].kind # "signaling"})
      <4>1. {e \in BackendHolders(d)' : request'[e].kind # "signaling"}
              \in SUBSET {e \in BackendHolders(d) : request[e].kind # "signaling"}
        BY <2>1, <2>3
      <4>2. IsFiniteSet({e \in BackendHolders(d) : request[e].kind # "signaling"})
        BY HoldersFinite DEF BackendHolders
      <4>. QED  BY <4>1, <4>2, FS_Subset
    <3>2. ASSUME NEW y \in Connections
          PROVE  Cardinality({e \in Holders(y)' : request'[e].kind = "select"})
                   <= Cardinality({e \in Holders(y) : request[e].kind = "select"})
      <4>1. {e \in Holders(y)' : request'[e].kind = "select"}
              \in SUBSET {e \in Holders(y) : request[e].kind = "select"}
        BY <2>1, <2>2
      <4>2. IsFiniteSet({e \in Holders(y) : request[e].kind = "select"})
        BY HoldersFinite DEF Holders
      <4>. QED  BY <4>1, <4>2, FS_Subset
    <3>3. /\ \A d \in Backends :
                /\ BackendMax[d] \in Nat
                /\ Cardinality({e \in BackendHolders(d)' : request'[e].kind # "signaling"}) \in Nat
                /\ Cardinality({e \in BackendHolders(d) : request[e].kind # "signaling"}) \in Nat
          /\ \A y \in Connections :
                /\ ConnectionMax[y] \in Nat
                /\ Cardinality({e \in Holders(y)' : request'[e].kind = "select"}) \in Nat
                /\ Cardinality({e \in Holders(y) : request[e].kind = "select"}) \in Nat
      BY HoldersFinite, ConfigAssumption DEF Holders, BackendHolders
    <3>4. ASSUME NEW d \in Backends, BackendMax[d] > 0
          PROVE  Cardinality({e \in BackendHolders(d)' : request'[e].kind # "signaling"})
                   <= BackendMax[d]
      <4>1. Cardinality({e \in BackendHolders(d) : request[e].kind # "signaling"})
              <= BackendMax[d]
        BY <3>4 DEF LimitsHold
      <4>2. /\ BackendMax[d] \in Nat
            /\ Cardinality({e \in BackendHolders(d)' : request'[e].kind # "signaling"}) \in Nat
            /\ Cardinality({e \in BackendHolders(d) : request[e].kind # "signaling"}) \in Nat
        BY <3>3
      <4>3. Cardinality({e \in BackendHolders(d)' : request'[e].kind # "signaling"})
              <= Cardinality({e \in BackendHolders(d) : request[e].kind # "signaling"})
        BY <3>1
      <4>. QED  BY <4>1, <4>2, <4>3
    <3>5. ASSUME NEW y \in Connections, ConnectionMax[y] > 0
          PROVE  Cardinality({e \in Holders(y)' : request'[e].kind = "select"})
                   <= ConnectionMax[y]
      <4>1. Cardinality({e \in Holders(y) : request[e].kind = "select"}) <= ConnectionMax[y]
        BY <3>5 DEF LimitsHold
      <4>. QED  BY <3>2, <3>3, <4>1
    <3>. QED  BY <3>4, <3>5 DEF LimitsHold
  <2>9. ClientsConsistent'
    BY <1>0, <1>3, <2>1 DEF ClientsConsistent, TypeOK
  <2>10. TypeOK'
    <3>1. backendPending' \in [Backends -> Nat] /\ connectionPending' \in [Connections -> Nat]
      BY <1>0, <1>1, <2>1, <2>6 DEF TypeOK, Decrement
    <3>2. signal' \in [Clients -> {"none", "open", "closed"}]
      BY <2>1 DEF SignalCapacity, TypeOK
    <3>3. pc' \in [Clients -> {"idle", "attempt", "wait", "held", "released"}]
      BY <2>1 DEF TypeOK
    <3>. QED  BY <1>0, <2>1, <3>1, <3>2, <3>3 DEF TypeOK
  <2>. QED  BY <2>7, <2>8, <2>9, <2>10
<1>4. CASE pc[c] = "released"
  <2>1. /\ pc' = [pc EXCEPT ![c] = "idle"] /\ leased' = [leased EXCEPT ![c] = None]
        /\ request' = [request EXCEPT ![c] = None]
        /\ UNCHANGED <<backendPending, connectionPending, signal>>
    BY <1>4 DEF Release, ReleaseToken, pendingVars, TypeOK
  <2>2. /\ pc[c] # "held" /\ "idle" \in {"idle", "attempt", "wait"}
        /\ None \in Requests \cup {None} /\ None \in Connections \cup {None}
        /\ signal' \in [Clients -> {"none", "open", "closed"}]
    BY <1>4, <2>1 DEF TypeOK
  <2>. QED  BY <1>0, <2>1, <2>2, OutsideLeases
<1>. QED  BY <1>0, <1>3, <1>4

-----------------------------------------------------------------------------
(* Waiting for capacity: only a release or a change of state, both of which *)
(* close the capacity channel, can turn a busy answer into another.         *)

\* Nothing is freed and no connection changes its state.
PendingGrows ==
    /\ state' = state
    /\ \A b \in Backends : backendPending'[b] >= backendPending[b]
    /\ \A x \in Connections : connectionPending'[x] >= connectionPending[x]

\* atCapacity is monotone.
LEMMA CapacityShrinks ==
    ASSUME TypeOK, TypeOK', PendingGrows
    PROVE  /\ \A b \in Backends : BackendFull(b) => BackendFull(b)'
           /\ \A x \in Connections, m \in Nat :
                 AtCapacity(connectionPending[x], m) => AtCapacity(connectionPending'[x], m)
           /\ \A x \in Connections, pool \in Pools : Usable(x, pool)' => Usable(x, pool)
<1>1. ASSUME NEW b \in Backends, BackendFull(b) PROVE BackendFull(b)'
  BY <1>1, ConfigAssumption DEF BackendFull, AtCapacity, PendingGrows, TypeOK
<1>2. ASSUME NEW x \in Connections, NEW m \in Nat, AtCapacity(connectionPending[x], m)
      PROVE  AtCapacity(connectionPending'[x], m)
  BY <1>2 DEF AtCapacity, PendingGrows, TypeOK
<1>3. ASSUME NEW x \in Connections, NEW pool \in Pools, Usable(x, pool)'
      PROVE  Usable(x, pool)
  <2>1. ConnectionMax[x] \in Nat
    BY ConfigAssumption
  <2>. QED  BY <1>2, <1>3, <2>1 DEF Usable, PendingGrows
<1>. QED  BY <1>1, <1>2, <1>3

\* tryBackendLocked: a busy backend stays busy, one that is unavailable stays
\* unavailable, wherever the cursors are.
LEMMA TryBackendStays ==
    ASSUME TypeOK, TypeOK', PendingGrows, NEW b \in Backends, NEW pool \in Pools
    PROVE  /\ TryBackend(b, pool) = "busy" => TryBackend(b, pool)' = "busy"
           /\ TryBackend(b, pool) = "unavailable" => TryBackend(b, pool)' = "unavailable"
<1> DEFINE n == Len(Members[b])
<1>1. n \in Nat
  BY ConfigIndices
<1>2. Established(b, pool)' <=> Established(b, pool)
  BY DEF Established, PendingGrows
<1>3. ASSUME ConnectionOffsets(b, pool) = {}
      PROVE  ConnectionOffsets(b, pool)' = {}
  <2>1. SUFFICES ASSUME NEW k \in 0..(n - 1),
                        Usable(ConnectionAt(b, (nextConnection[b][pool] + k) % n), pool)'
                 PROVE  FALSE
    BY DEF ConnectionOffsets
  <2>2. n > 0 /\ nextConnection'[b][pool] + k \in Nat
    BY <1>1, <2>1 DEF TypeOK
  <2>3. PICK j \in 0..(n - 1) : j = (nextConnection'[b][pool] + k) % n
    BY <1>1, <2>2, ModIndex
  <2>4. ConnectionAt(b, j) \in Connections
    BY ConfigIndices
  <2>5. Usable(ConnectionAt(b, j), pool)'
    BY <2>1, <2>3
  <2>6. Usable(ConnectionAt(b, j), pool)
    <3>1. PICK x \in Connections : x = ConnectionAt(b, j)
      BY <2>4
    <3>2. Usable(x, pool)'
      BY <2>5, <3>1 DEF ConnectionAt, Usable
    <3>. QED  BY <3>1, <3>2, CapacityShrinks
  <2>7. nextConnection[b][pool] \in 0..(n - 1)
    BY <1>1, <2>2 DEF TypeOK
  <2>8. PICK h \in 0..(n - 1) : (nextConnection[b][pool] + h) % n = j
    BY <1>1, <2>2, <2>7, Rotation
  <2>9. h \in ConnectionOffsets(b, pool)
    BY <2>6, <2>8 DEF ConnectionOffsets
  <2>. QED  BY <1>3, <2>9
<1>4. BackendFull(b) => BackendFull(b)'
  BY CapacityShrinks
<1>5. ASSUME TryBackend(b, pool) = "busy" PROVE TryBackend(b, pool)' = "busy"
  <2>1. Established(b, pool) /\ (BackendFull(b) \/ ConnectionOffsets(b, pool) = {})
    BY <1>5 DEF TryBackend
  <2>2. /\ Established(b, pool)'
        /\ BackendFull(b)' \/ ConnectionOffsets(b, pool)' = {}
    BY <1>2, <1>3, <1>4, <2>1
  <2>. QED  BY <2>2 DEF TryBackend
<1>6. ASSUME TryBackend(b, pool) = "unavailable" PROVE TryBackend(b, pool)' = "unavailable"
  BY <1>2, <1>6 DEF TryBackend
<1>. QED  BY <1>5, <1>6

\* The same for a tier.
LEMMA TierResultStays ==
    ASSUME TypeOK, TypeOK', PendingGrows, NEW t \in Tiers, NEW pool \in Pools
    PROVE  /\ TierResult(t, pool) = "busy" => TierResult(t, pool)' = "busy"
           /\ TierResult(t, pool) = "unavailable" => TierResult(t, pool)' = "unavailable"
<1>1. \A i \in Indices(t) :
          /\ TryBackend(BackendAt(t, i), pool) = "busy"
                => TryBackend(BackendAt(t, i), pool)' = "busy"
          /\ TryBackend(BackendAt(t, i), pool) = "unavailable"
                => TryBackend(BackendAt(t, i), pool)' = "unavailable"
  <2>1. SUFFICES ASSUME NEW i \in Indices(t)
                 PROVE  /\ TryBackend(BackendAt(t, i), pool) = "busy"
                              => TryBackend(BackendAt(t, i), pool)' = "busy"
                        /\ TryBackend(BackendAt(t, i), pool) = "unavailable"
                              => TryBackend(BackendAt(t, i), pool)' = "unavailable"
    OBVIOUS
  <2>2. PICK b \in Backends : b = BackendAt(t, i)
    BY ConfigIndices
  <2>3. /\ TryBackend(b, pool) = "busy" => TryBackend(b, pool)' = "busy"
        /\ TryBackend(b, pool) = "unavailable" => TryBackend(b, pool)' = "unavailable"
    BY TryBackendStays
  <2>4. BackendAt(t, i)' = b
    BY <2>2 DEF BackendAt
  <2>. QED  BY <2>2, <2>3, <2>4
<1>2. \A i \in Indices(t) :
          TryBackend(BackendAt(t, i), pool) \in {"unavailable", "busy", "selected"}
  BY DEF TryBackend
<1>3. Accepting(t, pool)' = {i \in Indices(t) : TryBackend(BackendAt(t, i), pool)' = "selected"}
  BY DEF Accepting, Indices
<1>4. Accepting(t, pool) = {} => Accepting(t, pool)' = {}
  BY <1>1, <1>2, <1>3 DEF Accepting
<1>5. ASSUME TierResult(t, pool) = "busy" PROVE TierResult(t, pool)' = "busy"
  <2>1. Accepting(t, pool) = {}
    BY <1>5 DEF TierResult
  <2>2. PICK i \in Indices(t) : TryBackend(BackendAt(t, i), pool) = "busy"
    BY <1>5, <2>1 DEF TierResult
  <2>3. \E j \in Indices(t) : TryBackend(BackendAt(t, j), pool)' = "busy"
    BY <1>1, <2>2
  <2>. QED  BY <1>4, <2>1, <2>3 DEF TierResult, Indices
<1>6. ASSUME TierResult(t, pool) = "unavailable" PROVE TierResult(t, pool)' = "unavailable"
  <2>1. /\ Accepting(t, pool) = {}
        /\ \A i \in Indices(t) : TryBackend(BackendAt(t, i), pool) # "busy"
    BY <1>6 DEF TierResult
  <2>2. \A i \in Indices(t) : TryBackend(BackendAt(t, i), pool) = "unavailable"
    BY <1>2, <2>1 DEF Accepting
  <2>3. \A i \in Indices(t) : TryBackend(BackendAt(t, i), pool)' = "unavailable"
    BY <1>1, <2>2
  <2>. QED  BY <1>4, <2>1, <2>3 DEF TierResult, Indices
<1>. QED  BY <1>5, <1>6

\* Select without affinity stays busy.
LEMMA UnrestrictedStays ==
    ASSUME TypeOK, TypeOK', PendingGrows, NEW pool \in Pools,
           SelectUnrestricted(pool) = "busy"
    PROVE  SelectUnrestricted(pool)' = "busy"
<1>1. PICK t \in Tiers : /\ TierResult(t, pool) = "busy"
                         /\ \A u \in 1..(t - 1) : TierResult(u, pool) = "unavailable"
  BY FirstTierDecides
<1>2. t \in Nat /\ \A u \in 1..(t - 1) : u \in Tiers
  BY DEF Tiers
<1>3. TierResult(t, pool)' = "busy"
  BY <1>1, TierResultStays
<1>4. \A u \in 1..(t - 1) : TierResult(u, pool)' = "unavailable"
  BY <1>1, <1>2, TierResultStays
<1>5. DecidingTiers(pool)' = {t}
  <2>1. t \in DecidingTiers(pool)'
    BY <1>3, <1>4 DEF DecidingTiers, Tiers
  <2>2. ASSUME NEW v \in DecidingTiers(pool)' PROVE v = t
    <3>1. /\ v \in Tiers /\ TierResult(v, pool)' # "unavailable"
          /\ \A u \in 1..(v - 1) : TierResult(u, pool)' = "unavailable"
      BY <2>2 DEF DecidingTiers, Tiers
    <3>2. v \notin 1..(t - 1) /\ t \notin 1..(v - 1)
      BY <1>3, <1>4, <3>1
    <3>. QED  BY <1>2, <3>1, <3>2 DEF Tiers
  <2>. QED  BY <2>1, <2>2
<1>6. Min({t}) = t
  BY <1>2, MinNat
<1>. QED  BY <1>3, <1>5, <1>6 DEF SelectUnrestricted

\* Every kind of request stays busy.
LEMMA ResultStays ==
    ASSUME TypeOK, TypeOK', PendingGrows
    PROVE  \A r \in Requests : Result(r) = "busy" => Result(r)' = "busy"
<1>1. SUFFICES ASSUME NEW r \in Requests, Result(r) = "busy" PROVE Result(r)' = "busy"
  OBVIOUS
<1> DEFINE x == r.connection
<1>2. CASE Unrestricted(r)
  <2>1. r.kind = "select" /\ r.pool \in Pools
    BY <1>2, RequestKinds DEF Unrestricted
  <2>2. Result(r) = SelectUnrestricted(r.pool) /\ Result(r)' = SelectUnrestricted(r.pool)'
    BY <1>2, <2>1 DEF Result, Unrestricted, BackendAffinity, ConnectionAffinity
  <2>. QED  BY <1>1, <2>1, <2>2, UnrestrictedStays
<1>3. CASE BackendAffinity(r)
  <2>1. r.kind = "select" /\ r.pool \in Pools /\ r.backend \in Backends
    BY <1>3, RequestKinds DEF BackendAffinity
  <2>2. Result(r) = TryBackend(r.backend, r.pool) /\ Result(r)' = TryBackend(r.backend, r.pool)'
    BY <1>3, <2>1 DEF Result, Unrestricted, BackendAffinity, ConnectionAffinity
  <2>. QED  BY <1>1, <2>1, <2>2, TryBackendStays
<1>4. CASE ConnectionAffinity(r)
  <2>1. r.kind = "select" /\ r.pool \in Pools /\ x \in Connections
    BY <1>4, RequestKinds DEF ConnectionAffinity
  <2>2. Result(r) = SelectConnectionAffinity(r) /\ Result(r)' = SelectConnectionAffinity(r)'
    BY <1>4, <2>1 DEF Result, Unrestricted, BackendAffinity, ConnectionAffinity
  <2>3. /\ r.backend \in {None, Owner[x]} /\ PoolOf[x] = r.pool /\ state[x] # "unavailable"
        /\ BackendFull(Owner[x]) \/ ~Usable(x, r.pool)
    BY <1>1, <2>2 DEF SelectConnectionAffinity
  <2>4. Owner[x] \in Backends /\ state'[x] # "unavailable"
    BY <2>1, <2>3, ConfigAssumption DEF PendingGrows
  <2>5. BackendFull(Owner[x])' \/ ~Usable(x, r.pool)'
    BY <2>1, <2>3, <2>4, CapacityShrinks
  <2>6. SelectConnectionAffinity(r)' = "busy"
    BY <2>3, <2>4, <2>5 DEF SelectConnectionAffinity
  <2>. QED  BY <2>2, <2>6
<1>5. CASE r.kind = "owned"
  <2>1. x \in Connections /\ r.limit \in Nat /\ Owner[x] \in Backends
    BY <1>5, RequestKinds, ConfigAssumption
  <2>2. Result(r) = OwnedResult(r) /\ Result(r)' = OwnedResult(r)'
    BY <1>5 DEF Result, Unrestricted, BackendAffinity, ConnectionAffinity
  <2>3. /\ state[x] # "unavailable"
        /\ BackendFull(Owner[x]) \/ AtCapacity(connectionPending[x], r.limit)
    BY <1>1, <2>2 DEF OwnedResult
  <2>4. /\ state'[x] # "unavailable"
        /\ BackendFull(Owner[x])' \/ AtCapacity(connectionPending'[x], r.limit)
    BY <2>1, <2>3, CapacityShrinks DEF PendingGrows
  <2>5. OwnedResult(r)' = "busy"
    BY <2>4 DEF OwnedResult, AtCapacity
  <2>. QED  BY <2>2, <2>5
<1>6. CASE r.kind = "signaling"
  <2>1. Result(r) = SignalingResult(r)
    BY <1>6 DEF Result, Unrestricted, BackendAffinity, ConnectionAffinity
  <2>. QED  BY <1>1, <2>1 DEF SignalingResult
<1>7. r.kind = "select" => Unrestricted(r) \/ BackendAffinity(r) \/ ConnectionAffinity(r)
  BY DEF Unrestricted, BackendAffinity, ConnectionAffinity
<1>. QED  BY <1>2, <1>3, <1>4, <1>5, <1>6, <1>7, RequestKinds

\* While nothing is freed, the requests that wait are right to wait, and so is
\* one that joins them after a busy answer.
LEMMA WaitersStay ==
    ASSUME TypeOK, TypeOK', ClientsConsistent, NoMissedWakeup, PendingGrows,
           NEW c \in Clients,
           \A d \in Clients : d # c => /\ pc'[d] = pc[d] /\ request'[d] = request[d]
                                       /\ signal'[d] = signal[d],
           \/ pc'[c] # "wait" \/ signal'[c] # "open"
           \/ /\ request[c] \in Requests /\ request'[c] = request[c]
              /\ Result(request[c]) = "busy"
    PROVE  NoMissedWakeup'
<1>1. SUFFICES ASSUME NEW d \in Clients, pc'[d] = "wait", signal'[d] = "open"
               PROVE  Result(request[d])' = "busy"
  BY DEF NoMissedWakeup
<1>2. request[d] \in Requests /\ request'[d] = request[d] /\ Result(request[d]) = "busy"
  BY <1>1 DEF NoMissedWakeup, ClientsConsistent
<1>3. PICK r \in Requests : r = request[d]
  BY <1>2
<1>4. Result(r)' = "busy"
  BY <1>2, <1>3, ResultStays
<1>. QED  BY <1>2, <1>3, <1>4

\* signalCapacityLocked leaves nobody with an open channel.
LEMMA SignalWakesAll ==
    ASSUME TypeOK, signal' = SignalCapacity
    PROVE  NoMissedWakeup' /\ signal' \in [Clients -> {"none", "open", "closed"}]
  BY DEF SignalCapacity, NoMissedWakeup, TypeOK

-----------------------------------------------------------------------------
(* Fairness of the round robin.                                            *)

\* The steps from index s to index i on a ring of n.
Away(n, s, i) == IF i >= s THEN i - s ELSE (i - s) + n

\* How many backends of tier t are tried before the one at index i.
Distance(t, i) == Away(Len(TierBackends[t]), next[t], i)

\* Every selection that passes a backend over brings the cursor closer to it.
RoundRobinBound ==
    \A t \in Tiers : \A i \in Indices(t) :
        /\ TierPolicy[t] = "roundrobin" =>
              passed[BackendAt(t, i)] + Distance(t, i) <= Len(TierBackends[t]) - 1
        /\ TierPolicy[t] # "roundrobin" => passed[BackendAt(t, i)] = 0

\* One lap beyond the end, % subtracts the length once.
LEMMA ModLap ==
    ASSUME NEW n \in Nat, n > 0, NEW a \in Nat, a < 2 * n
    PROVE  a % n = IF a < n THEN a ELSE a - n
<1>1. CASE a < n
  BY <1>1, SMT
<1>2. CASE a >= n
  <2>1. PICK i \in 0..(n - 1) : a = i + n
    <3>1. a - n \in 0..(n - 1) /\ a = (a - n) + n
      BY <1>2
    <3>. QED  BY <3>1
  <2>2. (i + n) % n = i
    BY SMT
  <2>. QED  BY <1>2, <2>1, <2>2
<1>. QED  BY <1>1, <1>2

\* As many steps as the distance lead there.
LEMMA AwayReaches ==
    ASSUME NEW n \in Nat, n > 0, NEW s \in 0..(n - 1), NEW i \in 0..(n - 1)
    PROVE  Away(n, s, i) \in 0..(n - 1) /\ (s + Away(n, s, i)) % n = i
<1>1. Away(n, s, i) \in 0..(n - 1)
  BY DEF Away
<1>2. s + Away(n, s, i) \in Nat /\ s + Away(n, s, i) < 2 * n
  BY <1>1
<1>3. (s + Away(n, s, i)) % n
        = IF s + Away(n, s, i) < n THEN s + Away(n, s, i) ELSE (s + Away(n, s, i)) - n
  BY <1>2, ModLap
<1>4. i = IF s + Away(n, s, i) < n THEN s + Away(n, s, i) ELSE (s + Away(n, s, i)) - n
  BY DEF Away
<1>. QED  BY <1>1, <1>3, <1>4

\* A cursor that moves behind an index m steps ahead comes closer to everything
\* further ahead.
LEMMA AwayDecreases ==
    ASSUME NEW n \in Nat, n > 0, NEW s \in 0..(n - 1), NEW i \in 0..(n - 1),
           NEW j \in 0..(n - 1), NEW m \in 0..(n - 1), NEW z,
           i = IF s + m < n THEN s + m ELSE (s + m) - n,
           z = IF i + 1 < n THEN i + 1 ELSE 0,
           j # i, m <= Away(n, s, j)
    PROVE  Away(n, z, j) + 1 <= Away(n, s, j)
  BY DEF Away

\* selectRoundRobinLocked moves the cursor behind the backend it takes, and
\* past none that accepts.
LEMMA RoundRobinStep ==
    ASSUME TypeOK, NEW t \in Tiers, NEW pool \in Pools, Accepting(t, pool) # {},
           TierPolicy[t] = "roundrobin", NEW i \in PolicyChoices(t, pool),
           next' = NextBackend(t, i)
    PROVE  /\ i \in Indices(t)
           /\ \A j \in Indices(t) :
                 /\ Distance(t, j)' \in 0..(Len(TierBackends[t]) - 1)
                 /\ j \in Accepting(t, pool) /\ j # i => Distance(t, j)' + 1 <= Distance(t, j)
<1> DEFINE n == Len(TierBackends[t])
           s == next[t]
           K == {k \in Indices(t) : (s + k) % n \in Accepting(t, pool)}
           m == Min(K)
<1>1. i \in Indices(t)
  BY PolicyAccepts
<1>2. n \in Nat /\ n > 0 /\ i \in 0..(n - 1) /\ s \in 0..(n - 1)
  BY <1>1, ConfigIndices DEF Indices, TypeOK
<1>3. i = (s + m) % n
  BY DEF PolicyChoices, RoundRobinChoices
<1>4. K \in SUBSET Nat
  BY <1>2 DEF Indices
<1>5. ASSUME NEW j \in Accepting(t, pool)
      PROVE  Distance(t, j) \in K
  <2>1. j \in 0..(n - 1)
    BY DEF Accepting, Indices
  <2>2. Distance(t, j) \in 0..(n - 1) /\ (s + Distance(t, j)) % n = j
    BY <1>2, <2>1, AwayReaches DEF Distance
  <2>. QED  BY <2>2 DEF Indices
<1>6. m \in K /\ \A k \in K : m <= k
  <2>1. K # {}
    BY <1>5
  <2>. QED  BY <1>4, <2>1, MinNat
<1>7. m \in 0..(n - 1)
  BY <1>6 DEF Indices
<1>8. i = IF s + m < n THEN s + m ELSE (s + m) - n
  <2>1. s + m \in Nat /\ s + m < 2 * n
    BY <1>2, <1>7
  <2>. QED  BY <1>2, <1>3, <2>1, ModLap
<1>9. next'[t] = IF i + 1 < n THEN i + 1 ELSE 0
  <2>1. next'[t] = (i + 1) % n
    BY DEF NextBackend, TypeOK
  <2>2. i + 1 \in Nat /\ i + 1 < 2 * n
    BY <1>2
  <2>3. (i + 1) % n = IF i + 1 < n THEN i + 1 ELSE (i + 1) - n
    BY <1>2, <2>2, ModLap
  <2>4. ~(i + 1 < n) => (i + 1) - n = 0
    BY <1>2
  <2>. QED  BY <2>1, <2>3, <2>4
<1>10. ASSUME NEW j \in Indices(t)
       PROVE  Distance(t, j)' \in 0..(n - 1)
  <2>1. j \in 0..(n - 1) /\ next'[t] \in 0..(n - 1)
    BY <1>2, <1>9 DEF Indices
  <2>. QED  BY <1>2, <2>1, AwayReaches DEF Distance
<1>11. ASSUME NEW j \in Indices(t), j \in Accepting(t, pool), j # i
       PROVE  Distance(t, j)' + 1 <= Distance(t, j)
  <2>1. j \in 0..(n - 1) /\ m <= Away(n, s, j)
    BY <1>5, <1>6, <1>11 DEF Indices, Distance
  <2>2. Away(n, next'[t], j) + 1 <= Away(n, s, j)
    BY <1>2, <1>7, <1>8, <1>9, <1>11, <2>1, AwayDecreases
  <2>. QED  BY <2>2 DEF Distance
<1>. QED  BY <1>1, <1>10, <1>11

\* A selection keeps the bound of its own tier and touches no other.
LEMMA SelectTierFair ==
    ASSUME TypeOK, TypeOK', RoundRobinBound, NEW t \in Tiers, NEW pool \in Pools,
           Accepting(t, pool) # {}, NEW i \in PolicyChoices(t, pool),
           next' = NextBackend(t, i), passed' = PassedAfter(t, i, pool)
    PROVE  RoundRobinBound'
<1>0. i \in Indices(t)
  BY PolicyAccepts
<1>1. ASSUME NEW u \in Tiers, NEW j \in Indices(u), u # t
      PROVE  /\ passed'[BackendAt(u, j)] = passed[BackendAt(u, j)]
             /\ Distance(u, j)' = Distance(u, j)
  <2>1. BackendAt(u, j) \in Backends /\ \A h \in Indices(t) : BackendAt(t, h) # BackendAt(u, j)
    BY <1>1, ConfigIndices, DistinctAssumption
  <2>2. next'[u] = next[u]
    BY <1>1 DEF NextBackend, TypeOK
  <2>. QED  BY <2>1, <2>2 DEF PassedAfter, Distance
<1>2. ASSUME NEW j \in Indices(t), TierPolicy[t] # "roundrobin"
      PROVE  passed'[BackendAt(t, j)] = passed[BackendAt(t, j)]
  <2>1. BackendAt(t, j) \in Backends
    BY ConfigIndices
  <2>. QED  BY <1>2, <2>1 DEF PassedAfter
<1>3. ASSUME NEW j \in Indices(t), TierPolicy[t] = "roundrobin"
      PROVE  passed'[BackendAt(t, j)] + Distance(t, j)' <= Len(TierBackends[t]) - 1
  <2> DEFINE b == BackendAt(t, j)
             n == Len(TierBackends[t])
  <2>1. b \in Backends /\ passed[b] \in Nat /\ n \in Nat /\ next[t] \in Nat /\ j \in Nat
    BY ConfigIndices DEF TypeOK, Indices
  <2>2. Distance(t, j)' \in 0..(n - 1)
    BY <1>3, RoundRobinStep
  <2>3. CASE j \in Accepting(t, pool) /\ j # i
    <3>1. b # BackendAt(t, i) /\ TryBackend(b, pool) = "selected"
      BY <1>0, <2>3, DistinctAssumption DEF Accepting
    <3>2. passed'[b] = passed[b] + 1
      BY <1>3, <2>1, <3>1 DEF PassedAfter
    <3>3. Distance(t, j)' + 1 <= Distance(t, j)
      BY <1>3, <2>3, RoundRobinStep
    <3>4. passed[b] + Distance(t, j) <= n - 1
      BY <1>3 DEF RoundRobinBound
    <3>5. Distance(t, j) \in Int
      BY <2>1 DEF Distance, Away
    <3>. QED  BY <2>1, <2>2, <3>2, <3>3, <3>4, <3>5
  <2>4. CASE ~(j \in Accepting(t, pool) /\ j # i)
    <3>1. ~(b # BackendAt(t, i) /\ TryBackend(b, pool) = "selected")
      BY <2>4 DEF Accepting
    <3>2. passed'[b] = 0
      BY <1>3, <2>1, <3>1 DEF PassedAfter
    <3>. QED  BY <2>1, <2>2, <3>2
  <2>. QED  BY <2>3, <2>4
<1>4. ASSUME NEW u \in Tiers, NEW j \in Indices(u)
      PROVE  /\ TierPolicy[u] = "roundrobin" =>
                   passed'[BackendAt(u, j)] + Distance(u, j)' <= Len(TierBackends[u]) - 1
             /\ TierPolicy[u] # "roundrobin" => passed'[BackendAt(u, j)] = 0
  <2>1. CASE u # t
    BY <1>1, <2>1 DEF RoundRobinBound
  <2>2. CASE u = t
    BY <1>2, <1>3, <2>2 DEF RoundRobinBound
  <2>. QED  BY <2>1, <2>2
<1>. QED  BY <1>4 DEF RoundRobinBound, BackendAt, Indices, Distance

-----------------------------------------------------------------------------
(* The inductive invariant.                                                *)

\* Accounting, waiting and fairness together.
SchedulerInv ==
    /\ TypeOK
    /\ ClientsConsistent
    /\ PendingIsExact
    /\ LimitsHold
    /\ NoMissedWakeup
    /\ RoundRobinBound

\* newScheduler: no lease, no waiter, all cursors at the start.
LEMMA InitSchedulerInv == Init => SchedulerInv
<1>. SUFFICES ASSUME Init PROVE SchedulerInv
  OBVIOUS
<1>1. TypeOK
  BY NoneAssumption DEF Init, TypeOK, States, Pools
<1>2. ClientsConsistent /\ NoMissedWakeup
  BY DEF Init, ClientsConsistent, NoMissedWakeup
<1>3. (\A y : Holders(y) = {}) /\ (\A d : BackendHolders(d) = {})
  BY DEF Init, Holders, BackendHolders
<1>4. PendingIsExact
  BY <1>3, FS_EmptySet DEF Init, PendingIsExact
<1>5. LimitsHold
  <2>1. /\ \A y : {e \in Holders(y) : request[e].kind = "select"} = {}
        /\ \A d : {e \in BackendHolders(d) : request[e].kind # "signaling"} = {}
    BY <1>3
  <2>2. \A d \in Backends : BackendMax[d] > 0 => 0 <= BackendMax[d]
    BY ConfigAssumption
  <2>3. \A y \in Connections : ConnectionMax[y] > 0 => 0 <= ConnectionMax[y]
    BY ConfigAssumption
  <2>. QED  BY <2>1, <2>2, <2>3, FS_EmptySet DEF LimitsHold
<1>6. RoundRobinBound
  <2>1. ASSUME NEW t \in Tiers, NEW i \in Indices(t)
        PROVE  /\ passed[BackendAt(t, i)] = 0
               /\ Distance(t, i) = i
               /\ 0 + i <= Len(TierBackends[t]) - 1
    BY ConfigIndices DEF Init, Distance, Away, Indices
  <2>. QED  BY <2>1 DEF RoundRobinBound
<1>. QED  BY <1>1, <1>2, <1>4, <1>5, <1>6 DEF SchedulerInv

\* A step that moves no cursor of a tier keeps the bound.
LEMMA FairFrame ==
    ASSUME RoundRobinBound, next' = next, passed' = passed
    PROVE  RoundRobinBound'
  BY DEF RoundRobinBound, BackendAt, Indices, Distance

\* A selection keeps the waiters waiting.
LEMMA GrantWaiters ==
    ASSUME TypeOK, TypeOK', ClientsConsistent, NoMissedWakeup,
           NEW c \in Clients, NEW x \in Connections, Grant(c, x)
    PROVE  NoMissedWakeup'
<1>1. PendingGrows
  <2>1. Owner[x] \in Backends
    BY ConfigAssumption
  <2>. QED  BY <2>1 DEF Grant, Reserve, PendingGrows, TypeOK
<1>2. pc'[c] # "wait"
  BY DEF Grant, Reserve, TypeOK
<1>3. \A d \in Clients : d # c => /\ pc'[d] = pc[d] /\ request'[d] = request[d]
                                  /\ signal'[d] = signal[d]
  BY DEF Grant, Reserve, TypeOK
<1>. QED  BY <1>1, <1>2, <1>3, WaitersStay

\* capacitySignal, a busy answer and giving up.
LEMMA OutsideInv ==
    ASSUME SchedulerInv, NEW c \in Clients, TakeSignal(c) \/ AttemptBusy(c) \/ GiveUp(c)
    PROVE  SchedulerInv'
<1>0. TypeOK /\ ClientsConsistent /\ PendingIsExact /\ LimitsHold /\ NoMissedWakeup
      /\ RoundRobinBound
  BY DEF SchedulerInv
<1>1. /\ pc[c] \in {"idle", "attempt", "wait"}
      /\ leased[c] \in Connections \cup {None}
      /\ leased' = [leased EXCEPT ![c] = leased[c]]
      /\ UNCHANGED <<state, backendPending, connectionPending, next, nextConnection, passed>>
      /\ signal' \in [Clients -> {"none", "open", "closed"}]
      /\ \A d \in Clients : d # c => signal'[d] = signal[d]
  BY <1>0 DEF TakeSignal, AttemptBusy, GiveUp, TypeOK, pendingVars, configVars
<1>2. \E q \in {"idle", "attempt", "wait"} : \E r \in Requests \cup {None} :
          /\ q # "idle" => r \in Requests
          /\ pc' = [pc EXCEPT ![c] = q]
          /\ request' = [request EXCEPT ![c] = r]
          /\ q = "wait" => r = request[c] /\ Result(request[c]) = "busy"
  <2>1. CASE TakeSignal(c)
    <3>1. pc' = [pc EXCEPT ![c] = "attempt"]
      BY <2>1 DEF TakeSignal
    <3>2. \E r \in Requests : request' = [request EXCEPT ![c] = r]
      <4>1. CASE \E r \in Requests : request' = [request EXCEPT ![c] = r]
        BY <4>1
      <4>2. CASE pc[c] = "wait" /\ UNCHANGED request
        <5>1. request[c] \in Requests /\ request' = [request EXCEPT ![c] = request[c]]
          BY <1>0, <4>2 DEF ClientsConsistent, TypeOK
        <5>. QED  BY <5>1
      <4>. QED  BY <2>1, <4>1, <4>2 DEF TakeSignal
    <3>. QED  BY <3>1, <3>2
  <2>2. CASE AttemptBusy(c)
    <3>1. pc' = [pc EXCEPT ![c] = "wait"] /\ Result(request[c]) = "busy"
      BY <2>2 DEF AttemptBusy
    <3>2. request[c] \in Requests /\ request' = [request EXCEPT ![c] = request[c]]
      BY <1>0, <2>2 DEF AttemptBusy, ClientsConsistent, TypeOK
    <3>. QED  BY <3>1, <3>2
  <2>3. CASE GiveUp(c)
    <3>1. pc' = [pc EXCEPT ![c] = "idle"] /\ request' = [request EXCEPT ![c] = None]
      BY <2>3 DEF GiveUp
    <3>. QED  BY <3>1
  <2>. QED  BY <2>1, <2>2, <2>3
<1>3. PICK q \in {"idle", "attempt", "wait"} : \E r \in Requests \cup {None} :
          /\ q # "idle" => r \in Requests
          /\ pc' = [pc EXCEPT ![c] = q]
          /\ request' = [request EXCEPT ![c] = r]
          /\ q = "wait" => r = request[c] /\ Result(request[c]) = "busy"
  BY <1>2
<1>4. PICK r \in Requests \cup {None} :
          /\ q # "idle" => r \in Requests
          /\ pc' = [pc EXCEPT ![c] = q]
          /\ request' = [request EXCEPT ![c] = r]
          /\ q = "wait" => r = request[c] /\ Result(request[c]) = "busy"
  BY <1>3
<1>5. PICK l \in Connections \cup {None} : leased' = [leased EXCEPT ![c] = l]
  BY <1>1
<1>6. pc[c] # "held"
  BY <1>1
<1>7. TypeOK' /\ ClientsConsistent' /\ PendingIsExact' /\ LimitsHold'
  BY <1>0, <1>1, <1>4, <1>5, <1>6, OutsideLeases
<1>8. NoMissedWakeup'
  <2>1. PendingGrows
    BY <1>0, <1>1 DEF PendingGrows, TypeOK
  <2>2. \A d \in Clients : d # c => /\ pc'[d] = pc[d] /\ request'[d] = request[d]
                                    /\ signal'[d] = signal[d]
    BY <1>0, <1>1, <1>4 DEF TypeOK
  <2>3. \/ pc'[c] # "wait"
        \/ /\ request[c] \in Requests /\ request'[c] = request[c]
           /\ Result(request[c]) = "busy"
    BY <1>0, <1>4 DEF TypeOK
  <2>. QED  BY <1>0, <1>7, <2>1, <2>2, <2>3, WaitersStay
<1>9. RoundRobinBound'
  BY <1>0, <1>1, FairFrame
<1>. QED  BY <1>7, <1>8, <1>9 DEF SchedulerInv

\* Every step of the scheduler keeps the invariant.
LEMMA NextSchedulerInv == SchedulerInv /\ [Next]_vars => SchedulerInv'
<1>. SUFFICES ASSUME SchedulerInv, [Next]_vars PROVE SchedulerInv'
  OBVIOUS
<1>0. TypeOK /\ ClientsConsistent /\ PendingIsExact /\ LimitsHold /\ NoMissedWakeup
      /\ RoundRobinBound
  BY DEF SchedulerInv
<1>1. ASSUME NEW c \in Clients, TakeSignal(c) \/ AttemptBusy(c) \/ GiveUp(c)
      PROVE  SchedulerInv'
  BY <1>1, OutsideInv
<1>2. ASSUME NEW c \in Clients, SelectTier(c)
      PROVE  SchedulerInv'
  <2>1. /\ \E x \in Connections : Grant(c, x)
        /\ TypeOK'
        /\ \E t \in Tiers, pool \in Pools : \E i \in PolicyChoices(t, pool) :
              /\ Accepting(t, pool) # {}
              /\ next' = NextBackend(t, i) /\ passed' = PassedAfter(t, i, pool)
    BY <1>0, <1>2, SelectTierGrants
  <2>2. ClientsConsistent' /\ PendingIsExact' /\ LimitsHold'
    BY <1>0, <2>1, GrantAccounts
  <2>3. NoMissedWakeup'
    BY <1>0, <2>1, GrantWaiters
  <2>4. RoundRobinBound'
    BY <1>0, <2>1, SelectTierFair
  <2>. QED  BY <2>1, <2>2, <2>3, <2>4 DEF SchedulerInv
<1>3. ASSUME NEW c \in Clients, SelectBackend(c) \/ SelectConnection(c)
      PROVE  SchedulerInv'
  <2>1. /\ \E x \in Connections : Grant(c, x)
        /\ TypeOK'
    BY <1>0, <1>3, SelectBackendGrants, SelectConnectionGrants
  <2>2. ClientsConsistent' /\ PendingIsExact' /\ LimitsHold'
    BY <1>0, <2>1, GrantAccounts
  <2>3. NoMissedWakeup'
    BY <1>0, <2>1, GrantWaiters
  <2>4. RoundRobinBound'
    BY <1>0, <1>3, FairFrame DEF SelectBackend, SelectConnection, configVars
  <2>. QED  BY <2>1, <2>2, <2>3, <2>4 DEF SchedulerInv
<1>4. ASSUME NEW c \in Clients, Release(c)
      PROVE  SchedulerInv'
  <2>1. TypeOK' /\ ClientsConsistent' /\ PendingIsExact' /\ LimitsHold'
    BY <1>0, <1>4, ReleaseAccounts
  <2>2. NoMissedWakeup'
    <3>1. CASE pc[c] = "held"
      <4>1. signal' = SignalCapacity
        BY <1>4, <3>1 DEF Release, ReleaseToken, FreeSlots
      <4>. QED  BY <1>0, <4>1, SignalWakesAll
    <3>2. CASE pc[c] = "released"
      <4>1. PendingGrows
        BY <1>0, <1>4, <3>2 DEF Release, ReleaseToken, pendingVars, PendingGrows, TypeOK
      <4>2. /\ pc'[c] # "wait"
            /\ \A d \in Clients : d # c => /\ pc'[d] = pc[d] /\ request'[d] = request[d]
                                           /\ signal'[d] = signal[d]
        BY <1>0, <1>4, <3>2 DEF Release, ReleaseToken, TypeOK
      <4>. QED  BY <1>0, <2>1, <4>1, <4>2, WaitersStay
    <3>. QED  BY <1>4, <3>1, <3>2 DEF Release
  <2>3. RoundRobinBound'
    BY <1>0, <1>4, FairFrame DEF Release, configVars
  <2>. QED  BY <2>1, <2>2, <2>3 DEF SchedulerInv
<1>5. ASSUME NEW x \in Connections, NEW s \in States, SetConnectionState(x, s)
      PROVE  SchedulerInv'
  <2>1. /\ state' = [state EXCEPT ![x] = s] /\ signal' = SignalCapacity
        /\ UNCHANGED <<backendPending, connectionPending, next, nextConnection, passed,
                       pc, request, leased>>
    BY <1>5 DEF SetConnectionState, pendingVars, configVars
  <2>2. NoMissedWakeup' /\ signal' \in [Clients -> {"none", "open", "closed"}]
    BY <1>0, <2>1, SignalWakesAll
  <2>3. TypeOK'
    BY <1>0, <2>1, <2>2 DEF TypeOK
  <2>4. ClientsConsistent' /\ PendingIsExact' /\ LimitsHold'
    BY <1>0, <2>1 DEF ClientsConsistent, PendingIsExact, LimitsHold, Holders, BackendHolders
  <2>5. RoundRobinBound'
    BY <1>0, <2>1, FairFrame
  <2>. QED  BY <2>2, <2>3, <2>4, <2>5 DEF SchedulerInv
<1>6. CASE UNCHANGED vars
  <2>1. UNCHANGED <<state, backendPending, connectionPending, next, nextConnection, passed,
                    pc, request, leased, signal>>
    BY <1>6 DEF vars, pendingVars, configVars, clientVars
  <2>2. TypeOK'
    BY <1>0, <2>1 DEF TypeOK
  <2>3. ClientsConsistent' /\ PendingIsExact' /\ LimitsHold'
    BY <1>0, <2>1 DEF ClientsConsistent, PendingIsExact, LimitsHold, Holders, BackendHolders
  <2>4. ASSUME NEW c \in Clients PROVE NoMissedWakeup'
    <3>1. PendingGrows
      BY <1>0, <2>1 DEF PendingGrows, TypeOK
    <3>2. \/ pc'[c] # "wait" \/ signal'[c] # "open"
          \/ /\ request[c] \in Requests /\ request'[c] = request[c]
             /\ Result(request[c]) = "busy"
      BY <1>0, <2>1 DEF NoMissedWakeup, ClientsConsistent
    <3>. QED  BY <1>0, <2>1, <2>2, <3>1, <3>2, WaitersStay
  <2>5. NoMissedWakeup'
    BY <2>4 DEF NoMissedWakeup
  <2>6. RoundRobinBound'
    BY <1>0, <2>1, FairFrame
  <2>. QED  BY <2>2, <2>3, <2>5, <2>6 DEF SchedulerInv
<1>. QED  BY <1>1, <1>2, <1>3, <1>4, <1>5, <1>6 DEF Next, ClientStep

\* The invariant holds in every reachable state of the scheduler.
THEOREM SchedulerInvariant == Spec => []SchedulerInv
<1>. QED  BY InitSchedulerInv, NextSchedulerInv, PTL DEF Spec

\* Type correctness; the cursors always index a backend or a connection.
THEOREM SchedulerTypeCorrect == Spec => []TypeOK
<1>1. SchedulerInv => TypeOK
  BY DEF SchedulerInv
<1>. QED  BY <1>1, SchedulerInvariant, PTL

\* reserveLocked and Lease.Release: the pending counters are the leases in
\* force, for any number of clients and any mix of reservations.
THEOREM PendingCountsLeases == Spec => []PendingIsExact
<1>1. SchedulerInv => PendingIsExact
  BY DEF SchedulerInv
<1>. QED  BY <1>1, SchedulerInvariant, PTL

\* atCapacity: MaxPending of every backend and connection is respected by all
\* but the Cancels.
THEOREM LimitsRespected == Spec => []LimitsHold
<1>1. SchedulerInv => LimitsHold
  BY DEF SchedulerInv
<1>. QED  BY <1>1, SchedulerInvariant, PTL

\* capacitySignal: no request sleeps on an open channel when Select would
\* answer something other than busy.
THEOREM NoWakeupIsMissed == Spec => []NoMissedWakeup
<1>1. SchedulerInv => NoMissedWakeup
  BY DEF SchedulerInv
<1>. QED  BY <1>1, SchedulerInvariant, PTL

\* selectRoundRobinLocked: a willing backend is passed over at most once per
\* other backend of its tier.
THEOREM RoundRobinIsFair == Spec => []RoundRobinFair
<1>1. SchedulerInv => RoundRobinFair
  <2>1. SUFFICES ASSUME SchedulerInv, NEW t \in Tiers, NEW i \in Indices(t)
                 PROVE  passed[BackendAt(t, i)] <= Len(TierBackends[t]) - 1
    BY DEF RoundRobinFair
  <2> DEFINE n == Len(TierBackends[t])
             b == BackendAt(t, i)
  <2>2. /\ n \in Nat /\ n > 0 /\ i \in 0..(n - 1) /\ next[t] \in 0..(n - 1)
        /\ passed[b] \in Nat
    BY <2>1, ConfigIndices DEF SchedulerInv, TypeOK, Indices
  <2>3. Distance(t, i) \in 0..(n - 1)
    BY <2>2, AwayReaches DEF Distance
  <2>4. CASE TierPolicy[t] = "roundrobin"
    <3>1. passed[b] + Distance(t, i) <= n - 1
      BY <2>1, <2>4 DEF SchedulerInv, RoundRobinBound
    <3>. QED  BY <2>2, <2>3, <3>1
  <2>5. CASE TierPolicy[t] # "roundrobin"
    <3>1. passed[b] = 0
      BY <2>1, <2>5 DEF SchedulerInv, RoundRobinBound
    <3>. QED  BY <2>2, <3>1
  <2>. QED  BY <2>4, <2>5
<1>. QED  BY <1>1, SchedulerInvariant, PTL

-----------------------------------------------------------------------------
(* Tiers.                                                                  *)

\* A tier is unavailable exactly when no backend of it is established.
LEMMA UnavailableIsNotLive ==
    ASSUME NEW t \in Tiers, NEW pool \in Pools
    PROVE  TierResult(t, pool) = "unavailable" <=> t \notin LiveTiers(pool)
<1>1. \A i \in Indices(t) :
          /\ TryBackend(BackendAt(t, i), pool) \in {"unavailable", "busy", "selected"}
          /\ TryBackend(BackendAt(t, i), pool) = "unavailable"
                <=> ~Established(BackendAt(t, i), pool)
  BY DEF TryBackend
<1>2. TierResult(t, pool) = "unavailable"
        <=> \A i \in Indices(t) : TryBackend(BackendAt(t, i), pool) = "unavailable"
  BY <1>1 DEF TierResult, Accepting
<1>. QED  BY <1>1, <1>2 DEF LiveTiers

\* The deciding tier is the first live one.
LEMMA DecidingIsFirstLive ==
    ASSUME NEW pool \in Pools, SelectUnrestricted(pool) # "unavailable"
    PROVE  Min(LiveTiers(pool)) = Min(DecidingTiers(pool))
<1> DEFINE t == Min(DecidingTiers(pool))
           v == Min(LiveTiers(pool))
<1>1. /\ t \in Tiers /\ TierResult(t, pool) # "unavailable"
      /\ \A u \in 1..(t - 1) : TierResult(u, pool) = "unavailable"
  BY FirstTierDecides
<1>2. t \in LiveTiers(pool)
  BY <1>1, UnavailableIsNotLive
<1>3. LiveTiers(pool) \in SUBSET Nat
  BY DEF LiveTiers, Tiers
<1>4. v \in LiveTiers(pool) /\ v <= t
  BY <1>2, <1>3, MinNat
<1>5. v \in Tiers /\ TierResult(v, pool) # "unavailable"
  <2>1. v \in Tiers
    BY <1>4 DEF LiveTiers
  <2>. QED  BY <1>4, <2>1, UnavailableIsNotLive
<1>6. v \notin 1..(t - 1)
  BY <1>1, <1>5
<1>. QED  BY <1>1, <1>4, <1>5, <1>6 DEF Tiers

\* A backend that does not accept is full or has no usable connection.
LEMMA NotAcceptingHasNothing ==
    ASSUME TypeOK, NEW pool \in Pools, NEW x \in Connections,
           TryBackend(Owner[x], pool) # "selected"
    PROVE  BackendFull(Owner[x]) \/ ~Usable(x, pool)
<1> DEFINE b == Owner[x]
           n == Len(Members[b])
<1>1. SUFFICES ASSUME ~BackendFull(b), Usable(x, pool) PROVE FALSE
  OBVIOUS
<1>2. b \in Backends /\ n \in Nat /\ \E i \in 1..n : Members[b][i] = x
  BY ConfigAssumption, ConfigIndices, MembersAssumption
<1>3. PICK i \in 1..n : Members[b][i] = x
  BY <1>2
<1>4. Established(b, pool)
  BY <1>1, <1>3 DEF Established, Usable
<1>5. /\ n > 0 /\ i - 1 \in 0..(n - 1) /\ (i - 1) + 1 = i
      /\ nextConnection[b][pool] \in 0..(n - 1)
  BY <1>2, <1>3 DEF TypeOK
<1>6. ConnectionAt(b, i - 1) = x
  BY <1>3, <1>5 DEF ConnectionAt
<1>7. PICK k \in 0..(n - 1) : (nextConnection[b][pool] + k) % n = i - 1
  BY <1>2, <1>5, Rotation
<1>8. k \in ConnectionOffsets(b, pool)
  BY <1>1, <1>6, <1>7 DEF ConnectionOffsets
<1>9. TryBackend(b, pool) = "selected"
  BY <1>1, <1>4, <1>8 DEF TryBackend
<1>. QED  BY <1>9

\* Select without affinity hands out a ready connection of the first live tier.
LEMMA HeldRespectsTiers ==
    ASSUME TypeOK, ClientsConsistent, NEW c \in Clients, SelectTier(c)
    PROVE  /\ InTier(Owner[leased'[c]], Min(LiveTiers(request[c].pool)))
           /\ PoolOf[leased'[c]] = request[c].pool /\ state[leased'[c]] = "ready"
<1> DEFINE pool == request[c].pool
           t == Min(DecidingTiers(pool))
<1>1. /\ request[c] \in Requests /\ request[c].kind = "select" /\ pool \in Pools
      /\ SelectUnrestricted(pool) = "selected"
  <2>1. pc[c] = "attempt" /\ Unrestricted(request[c]) /\ Result(request[c]) = "selected"
    BY DEF SelectTier, Attempting
  <2>2. request[c] \in Requests /\ request[c].kind = "select"
    BY <2>1 DEF ClientsConsistent, Unrestricted
  <2>3. Result(request[c]) = SelectUnrestricted(pool)
    BY <2>1, <2>2 DEF Result, Unrestricted, BackendAffinity, ConnectionAffinity
  <2>. QED  BY <2>1, <2>2, <2>3, RequestKinds
<1>2. t \in Tiers /\ Accepting(t, pool) # {}
  BY <1>1, FirstTierDecides DEF TierResult
<1>3. PICK i \in PolicyChoices(t, pool) : TakeConnection(c, BackendAt(t, i), pool)
  BY DEF SelectTier
<1> DEFINE b == BackendAt(t, i)
           x == ConnectionAt(b, ConnectionIndex(b, pool))
<1>4. i \in Indices(t) /\ b \in Backends /\ TryBackend(b, pool) = "selected"
  BY <1>1, <1>2, <1>3, PolicyAccepts
<1>5. ConnectionIndex(b, pool) \in 0..(Len(Members[b]) - 1) /\ Usable(x, pool)
  BY <1>1, <1>4, TryBackendSelected
<1>6. x \in Connections /\ Owner[x] = b
  BY <1>4, <1>5, ConfigIndices
<1>7. leased'[c] = x
  BY <1>3 DEF TakeConnection, Reserve, TypeOK
<1>8. InTier(b, t)
  BY <1>4 DEF InTier
<1>9. Min(LiveTiers(pool)) = t
  BY <1>1, DecidingIsFirstLive
<1>. QED  BY <1>5, <1>6, <1>7, <1>8, <1>9 DEF Usable

\* A busy answer means that the first live tier has nothing to give.
LEMMA BusyRespectsTiers ==
    ASSUME TypeOK, ClientsConsistent, NEW c \in Clients, AttemptBusy(c),
           Unrestricted(request[c]), NEW x \in Connections,
           InTier(Owner[x], Min(LiveTiers(request[c].pool)))
    PROVE  BackendFull(Owner[x]) \/ ~Usable(x, request[c].pool)
<1>0. PICK pool : pool = request[c].pool
  OBVIOUS
<1>1. pool \in Pools /\ SelectUnrestricted(pool) = "busy"
  <2>1. pc[c] = "attempt" /\ Result(request[c]) = "busy"
    BY DEF AttemptBusy
  <2>2. request[c] \in Requests /\ request[c].kind = "select"
    BY <2>1 DEF ClientsConsistent, Unrestricted
  <2>3. Result(request[c]) = SelectUnrestricted(request[c].pool)
    BY <2>1, <2>2 DEF Result, Unrestricted, BackendAffinity, ConnectionAffinity
  <2>. QED  BY <1>0, <2>1, <2>2, <2>3, RequestKinds
<1>2. PICK t \in Tiers : t = Min(LiveTiers(pool)) /\ TierResult(t, pool) = "busy"
  BY <1>1, FirstTierDecides, DecidingIsFirstLive
<1>3. PICK i \in Indices(t) : BackendAt(t, i) = Owner[x]
  BY <1>0, <1>2 DEF InTier
<1>4. TryBackend(Owner[x], pool) # "selected"
  BY <1>2, <1>3 DEF TierResult, Accepting
<1>. QED  BY <1>0, <1>1, <1>4, NotAcceptingHasNothing

\* Select: "lower tiers are examined only when every backend in the current
\* tier has no established connection in the requested pool", for every
\* configuration of tiers.
THEOREM TiersAreRespected == Spec => SelectionRespectsTiers
<1> DEFINE Respects(c) ==
      (pc[c] = "attempt" /\ Unrestricted(request[c])) =>
          LET pool == request[c].pool
              first == Min(LiveTiers(pool))
          IN  /\ pc'[c] = "held" =>
                    /\ InTier(Owner[leased'[c]], first)
                    /\ PoolOf[leased'[c]] = pool /\ state[leased'[c]] = "ready"
              /\ pc'[c] = "wait" =>
                    \A x \in Connections :
                        InTier(Owner[x], first) =>
                            BackendFull(Owner[x]) \/ ~Usable(x, pool)
<1>1. SchedulerInv /\ [Next]_vars => [\A c \in Clients : Respects(c)]_vars
  <2>1. SUFFICES ASSUME SchedulerInv, Next, NEW c \in Clients,
                        pc[c] = "attempt", Unrestricted(request[c])
                 PROVE  Respects(c)
    OBVIOUS
  <2>2. TypeOK /\ ClientsConsistent
    BY <2>1 DEF SchedulerInv
  <2>3. CASE SelectTier(c)
    <3>1. pc'[c] = "held"
      BY <2>2, <2>3 DEF SelectTier, TakeConnection, Reserve, TypeOK
    <3>. QED  BY <2>2, <2>3, <3>1, HeldRespectsTiers
  <2>4. CASE AttemptBusy(c)
    <3>1. pc'[c] = "wait"
      BY <2>2, <2>4 DEF AttemptBusy, TypeOK
    <3>. QED  BY <2>1, <2>2, <2>4, <3>1, BusyRespectsTiers
  <2>5. CASE ~SelectTier(c) /\ ~AttemptBusy(c)
    <3>1. pc'[c] \in {"attempt", "idle"}
      <4>1. ASSUME NEW d \in Clients, ClientStep(d), d # c PROVE pc'[c] = pc[c]
        BY <2>2, <4>1 DEF ClientStep, TakeSignal, SelectTier, SelectBackend,
           SelectConnection, AttemptBusy, GiveUp, Release, TakeConnection, Reserve, TypeOK
      <4>2. CASE ClientStep(c)
        <5>1. ~SelectBackend(c) /\ ~SelectConnection(c)
          BY <2>1 DEF Unrestricted, SelectBackend, SelectConnection, BackendAffinity,
             ConnectionAffinity
        <5>2. GiveUp(c)
          BY <2>1, <2>5, <4>2, <5>1 DEF ClientStep, TakeSignal, Release
        <5>. QED  BY <2>2, <5>2, SMTT(40) DEF GiveUp, TypeOK
      <4>3. ASSUME NEW x \in Connections, NEW s \in States, SetConnectionState(x, s)
            PROVE  pc'[c] = pc[c]
        BY <4>3 DEF SetConnectionState
      <4>. QED  BY <2>1, <4>1, <4>2, <4>3 DEF Next
    <3>. QED  BY <3>1
  <2>. QED  BY <2>3, <2>4, <2>5
<1>. QED  BY <1>1, SchedulerInvariant, PTL DEF Spec, SelectionRespectsTiers

=============================================================================
