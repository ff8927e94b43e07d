----------------------------- MODULE Scheduler ------------------------------
(***************************************************************************)
(* The scheduler of the LDAP load balancer, internal/lloadd/scheduler.go,  *)
(* and the loop with which a client's request waits for capacity           *)
(* (proxy_client.go).  Every method of Scheduler and Lease holds           *)
(* scheduler.mu, so each is one step.                                      *)
(*                                                                         *)
(* A request is the life of one lease: it takes the capacity signal,       *)
(* attempts a reservation, waits when the upstreams are busy, holds its    *)
(* lease and releases it, possibly twice (a timeout racing a response).    *)
(* Latencies, and the fitness bestof derives from them, only decide which  *)
(* backend bestof prefers; any may be.                                     *)
(***************************************************************************)
EXTENDS Integers, Sequences, FiniteSetsExt

CONSTANTS
    Clients,         \* the requests in flight, one lease each
    Backends,
    Connections,
    TierBackends,    \* the backends of each tier, in configuration order
    TierPolicy,      \* the policy of each tier
    Members,         \* the connections of each backend, in order
    Owner,           \* the backend of each connection
    PoolOf,          \* the pool of each connection
    Weight,          \* the weight of each backend
    BackendMax,      \* MaxPending of each backend, 0 for unlimited
    ConnectionMax,   \* MaxPending of each connection, 0 for unlimited
    Requests,        \* what clients ask for
    None

Pools == {"regular", "bind"}
Policies == {"roundrobin", "weighted", "bestof"}
States == {"ready", "busy", "unavailable"}
Tiers == 1..Len(TierBackends)

\* A SelectRequest with its affinity, a reservation of a connection the client
\* owns, with its own limit, or one for a Cancel beside its target.
RequestType ==
    [kind : {"select"}, pool : Pools, backend : Backends \cup {None},
     connection : Connections \cup {None}]
    \cup [kind : {"owned"}, connection : Connections, limit : Nat]
    \cup [kind : {"signaling"}, connection : Connections]

ASSUME ClientsAssumption == IsFiniteSet(Clients)
ASSUME ConfigAssumption ==
    /\ TierBackends \in Seq(Seq(Backends))
    /\ TierPolicy \in [Tiers -> Policies]
    /\ Members \in [Backends -> Seq(Connections)]
    /\ Owner \in [Connections -> Backends]
    /\ PoolOf \in [Connections -> Pools]
    /\ Weight \in [Backends -> Nat]
    /\ BackendMax \in [Backends -> Nat]
    /\ ConnectionMax \in [Connections -> Nat]
    /\ Requests \subseteq RequestType
ASSUME MembersAssumption ==
    /\ \A b \in Backends : \A i \in 1..Len(Members[b]) : Owner[Members[b][i]] = b
    /\ \A x \in Connections : \E i \in 1..Len(Members[Owner[x]]) : Members[Owner[x]][i] = x
ASSUME NoneAssumption == None \notin Backends \cup Connections \cup Requests

VARIABLES
    state,              \* connectionState.state
    backendPending,     \* backendState.pending
    connectionPending,  \* connectionState.pending
    next,               \* tierState.next
    nextConnection,     \* backendState.nextConnection
    pc,                 \* where each request is
    request,            \* what it asks for
    leased,             \* the connection its lease is for
    signal,             \* its capacity channel: "none", "open" or "closed"
    passed              \* selections in a row that passed a willing backend over

configVars == <<next, nextConnection>>
pendingVars == <<backendPending, connectionPending>>
clientVars == <<pc, request, leased, signal>>
vars == <<state, pendingVars, configVars, clientVars, passed>>

-----------------------------------------------------------------------------
(* Capacity. *)

\* Mutant: one reservation too many.
AtCapacity_OffByOne(pending, maximum) == maximum > 0 /\ pending > maximum

AtCapacity(pending, maximum) == maximum > 0 /\ pending >= maximum

BackendFull(b) == AtCapacity(backendPending[b], BackendMax[b])

Usable(c, pool) ==
    /\ PoolOf[c] = pool
    /\ state[c] = "ready"
    /\ ~AtCapacity(connectionPending[c], ConnectionMax[c])

Established(b, pool) ==
    \E i \in 1..Len(Members[b]) :
        PoolOf[Members[b][i]] = pool /\ state[Members[b][i]] # "unavailable"

-----------------------------------------------------------------------------
(* tryBackendLocked: the first usable connection from nextConnection on. *)

ConnectionAt(b, i) == Members[b][i + 1]

ConnectionOffsets(b, pool) ==
    {k \in 0..(Len(Members[b]) - 1) :
        Usable(ConnectionAt(b, (nextConnection[b][pool] + k) % Len(Members[b])), pool)}

TryBackend(b, pool) ==
    CASE ~Established(b, pool) -> "unavailable"
      [] Established(b, pool) /\ (BackendFull(b) \/ ConnectionOffsets(b, pool) = {}) -> "busy"
      [] OTHER -> "selected"

\* The index of the connection it takes.
ConnectionIndex(b, pool) ==
    (nextConnection[b][pool] + Min(ConnectionOffsets(b, pool))) % Len(Members[b])

-----------------------------------------------------------------------------
(* selectTierLocked: every policy tries the backends in some order and takes *)
(* the first that accepts.                                                   *)

BackendAt(t, i) == TierBackends[t][i + 1]
Indices(t) == 0..(Len(TierBackends[t]) - 1)

\* newScheduler refuses a backend ID that occurs twice.
ASSUME DistinctAssumption ==
    \A t, u \in Tiers : \A i \in Indices(t), j \in Indices(u) :
        BackendAt(t, i) = BackendAt(u, j) => t = u /\ i = j

Accepting(t, pool) == {i \in Indices(t) : TryBackend(BackendAt(t, i), pool) = "selected"}

\* Mutant: a busy backend sends the request on to the next tier.
TierResult_BusyFallsBack(t, pool) ==
    IF Accepting(t, pool) # {} THEN "selected" ELSE "unavailable"

TierResult(t, pool) ==
    CASE Accepting(t, pool) # {} -> "selected"
      [] /\ Accepting(t, pool) = {}
         /\ \E i \in Indices(t) : TryBackend(BackendAt(t, i), pool) = "busy" -> "busy"
      [] OTHER -> "unavailable"

\* selectRoundRobinLocked: from tier.next on.
RoundRobinChoices(t, pool) ==
    LET n == Len(TierBackends[t])
        offset == Min({k \in Indices(t) : (next[t] + k) % n \in Accepting(t, pool)})
    IN  {(next[t] + offset) % n}

\* selectWeightedLocked: weightedOrderLocked may put any backend with a weight
\* first; of those without, the first in configuration order, and the others
\* only behind it or behind everything that has a weight.
WeightedChoices(t, pool) ==
    LET able == Accepting(t, pool)
        zero(i) == Weight[BackendAt(t, i)] = 0
    IN  {i \in able :
            \/ ~zero(i)
            \/ \A j \in able : zero(j) => i <= j
            \/ \A j \in able : zero(j)}

\* selectBestOfLocked: whichever of two random backends is fitter, or the first
\* from tier.next on when that one does not accept.
BestOfChoices(t, pool) == Accepting(t, pool)

PolicyChoices(t, pool) ==
    CASE TierPolicy[t] = "roundrobin" -> RoundRobinChoices(t, pool)
      [] TierPolicy[t] = "weighted"   -> WeightedChoices(t, pool)
      [] TierPolicy[t] = "bestof"     -> BestOfChoices(t, pool)

\* The first tier that is not unavailable decides.
DecidingTiers(pool) ==
    {t \in Tiers : /\ TierResult(t, pool) # "unavailable"
                   /\ \A u \in 1..(t - 1) : TierResult(u, pool) = "unavailable"}

SelectUnrestricted(pool) ==
    IF DecidingTiers(pool) = {} THEN "unavailable"
    ELSE TierResult(Min(DecidingTiers(pool)), pool)

\* selectConnectionAffinityLocked
SelectConnectionAffinity(r) ==
    CASE r.backend \notin {None, Owner[r.connection]} -> "invalid"
      [] /\ r.backend \in {None, Owner[r.connection]}
         /\ (PoolOf[r.connection] # r.pool \/ state[r.connection] = "unavailable")
            -> "unavailable"
      [] /\ r.backend \in {None, Owner[r.connection]}
         /\ PoolOf[r.connection] = r.pool /\ state[r.connection] # "unavailable"
            -> IF BackendFull(Owner[r.connection]) \/ ~Usable(r.connection, r.pool)
               THEN "busy" ELSE "selected"

\* reserveOwnedConnection
OwnedResult(r) ==
    IF state[r.connection] = "unavailable" THEN "unavailable"
    ELSE IF BackendFull(Owner[r.connection])
            \/ AtCapacity(connectionPending[r.connection], r.limit)
         THEN "busy" ELSE "selected"

\* reserveSignalingConnection
SignalingResult(r) ==
    IF state[r.connection] = "unavailable" THEN "unavailable" ELSE "selected"

Unrestricted(r) == r.kind = "select" /\ r.backend = None /\ r.connection = None
BackendAffinity(r) == r.kind = "select" /\ r.backend # None /\ r.connection = None
ConnectionAffinity(r) == r.kind = "select" /\ r.connection # None

Result(r) ==
    CASE Unrestricted(r)       -> SelectUnrestricted(r.pool)
      [] BackendAffinity(r)    -> TryBackend(r.backend, r.pool)
      [] ConnectionAffinity(r) -> SelectConnectionAffinity(r)
      [] r.kind = "owned"      -> OwnedResult(r)
      [] r.kind = "signaling"  -> SignalingResult(r)

-----------------------------------------------------------------------------
(* Leases. *)

\* Mutant: nobody is told.
SignalCapacity_Forgotten == signal

\* signalCapacityLocked closes the channel every waiting request has taken.
SignalCapacity ==
    [c \in Clients |-> IF signal[c] = "open" THEN "closed" ELSE signal[c]]

\* reserveLocked: the request holds a lease for connection x.
Reserve(c, x) ==
    /\ backendPending' = [backendPending EXCEPT ![Owner[x]] = @ + 1]
    /\ connectionPending' = [connectionPending EXCEPT ![x] = @ + 1]
    /\ leased' = [leased EXCEPT ![c] = x]
    /\ pc' = [pc EXCEPT ![c] = "held"]
    /\ signal' = [signal EXCEPT ![c] = "none"]
    /\ UNCHANGED <<state, request>>

\* Mutant: the cursor runs over the end.
TakeConnection_NoWrap(c, b, pool) ==
    /\ Reserve(c, ConnectionAt(b, ConnectionIndex(b, pool)))
    /\ nextConnection' = [nextConnection EXCEPT ![b][pool] = ConnectionIndex(b, pool) + 1]

\* The cursor of a backend moves behind the connection it gave out.
TakeConnection(c, b, pool) ==
    /\ Reserve(c, ConnectionAt(b, ConnectionIndex(b, pool)))
    /\ nextConnection' = [nextConnection EXCEPT
            ![b][pool] = (ConnectionIndex(b, pool) + 1) % Len(Members[b])]

\* Mutant: the cursor of the tier stays where it is.
NextBackend_Stays(t, i) == next

\* weighted draws afresh every time and keeps no cursor.
NextBackend(t, i) ==
    IF TierPolicy[t] = "weighted" THEN next
    ELSE [next EXCEPT ![t] = (i + 1) % Len(TierBackends[t])]

\* How often in a row a round robin has passed over a backend that would have
\* accepted.
PassedAfter(t, i, pool) ==
    [b \in Backends |->
        IF TierPolicy[t] # "roundrobin" \/ \A j \in Indices(t) : BackendAt(t, j) # b THEN passed[b]
        ELSE IF b # BackendAt(t, i) /\ TryBackend(b, pool) = "selected" THEN passed[b] + 1
        ELSE 0]

-----------------------------------------------------------------------------
(* A request's life. *)

\* capacitySignal, before every attempt.
TakeSignal(c) ==
    /\ \/ /\ pc[c] = "idle"
          /\ \E r \in Requests : request' = [request EXCEPT ![c] = r]
       \/ /\ pc[c] = "wait" /\ signal[c] = "closed"
          /\ UNCHANGED request
    /\ pc' = [pc EXCEPT ![c] = "attempt"]
    /\ signal' = [signal EXCEPT ![c] = "open"]
    /\ UNCHANGED <<state, pendingVars, configVars, leased, passed>>

Attempting(c) == pc[c] = "attempt" /\ Result(request[c]) = "selected"

SelectTier(c) ==
    /\ Attempting(c) /\ Unrestricted(request[c])
    /\ LET pool == request[c].pool
           t == Min(DecidingTiers(pool))
       IN  \E i \in PolicyChoices(t, pool) :
              /\ TakeConnection(c, BackendAt(t, i), pool)
              /\ next' = NextBackend(t, i)
              /\ passed' = PassedAfter(t, i, pool)

SelectBackend(c) ==
    /\ Attempting(c) /\ BackendAffinity(request[c])
    /\ TakeConnection(c, request[c].backend, request[c].pool)
    /\ UNCHANGED <<next, passed>>

SelectConnection(c) ==
    /\ Attempting(c)
    /\ ConnectionAffinity(request[c]) \/ request[c].kind \in {"owned", "signaling"}
    /\ Reserve(c, request[c].connection)
    /\ UNCHANGED <<configVars, passed>>

\* With ReadPause a request that finds the upstreams busy waits for the signal...
AttemptBusy(c) ==
    /\ pc[c] = "attempt" /\ Result(request[c]) = "busy"
    /\ pc' = [pc EXCEPT ![c] = "wait"]
    /\ UNCHANGED <<state, pendingVars, configVars, request, leased, signal, passed>>

\* ... without it, and with any other failure, the request is answered; the
\* client of a waiting request may also go away.
GiveUp(c) ==
    /\ \/ pc[c] = "attempt" /\ Result(request[c]) # "selected"
       \/ pc[c] = "wait"
    /\ pc' = [pc EXCEPT ![c] = "idle"]
    /\ request' = [request EXCEPT ![c] = None]
    /\ signal' = [signal EXCEPT ![c] = "none"]
    /\ UNCHANGED <<state, pendingVars, configVars, leased, passed>>

Decrement(n) == IF n > 0 THEN n - 1 ELSE n

\* Both pending slots are freed.
FreeSlots(c) ==
    /\ backendPending' = [backendPending EXCEPT ![Owner[leased[c]]] = Decrement(@)]
    /\ connectionPending' = [connectionPending EXCEPT ![leased[c]] = Decrement(@)]
    /\ signal' = SignalCapacity

\* Mutant: a second Release frees somebody else's slots.
ReleaseToken_Twice(c) == FreeSlots(c)

\* Lease.Release does nothing the second time.
ReleaseToken(c) ==
    IF pc[c] = "released" THEN UNCHANGED <<pendingVars, signal>> ELSE FreeSlots(c)

\* The response, the timeout and the end of the client may all call Release.
Release(c) ==
    /\ pc[c] \in {"held", "released"}
    /\ ReleaseToken(c)
    /\ pc' = [pc EXCEPT ![c] = IF pc[c] = "held" THEN "released" ELSE "idle"]
    /\ leased' = [leased EXCEPT ![c] = IF pc[c] = "held" THEN @ ELSE None]
    /\ request' = [request EXCEPT ![c] = IF pc[c] = "held" THEN @ ELSE None]
    /\ UNCHANGED <<state, configVars, passed>>

\* The proxy establishes, loses and, for Binds, hands over connections; only
\* connections of the Bind pool are ever marked busy.
SetConnectionState(x, s) ==
    /\ s # state[x]
    /\ s = "busy" => PoolOf[x] = "bind"
    /\ state' = [state EXCEPT ![x] = s]
    /\ signal' = SignalCapacity
    /\ UNCHANGED <<pendingVars, configVars, pc, request, leased, passed>>

-----------------------------------------------------------------------------
\* newScheduler; the proxy configures every connection unavailable.
Init ==
    /\ state = [x \in Connections |-> "unavailable"]
    /\ backendPending = [b \in Backends |-> 0]
    /\ connectionPending = [x \in Connections |-> 0]
    /\ next = [t \in Tiers |-> 0]
    /\ nextConnection = [b \in Backends |-> [p \in Pools |-> 0]]
    /\ pc = [c \in Clients |-> "idle"]
    /\ request = [c \in Clients |-> None]
    /\ leased = [c \in Clients |-> None]
    /\ signal = [c \in Clients |-> "none"]
    /\ passed = [b \in Backends |-> 0]

ClientStep(c) ==
    \/ TakeSignal(c) \/ SelectTier(c) \/ SelectBackend(c) \/ SelectConnection(c)
    \/ AttemptBusy(c) \/ GiveUp(c) \/ Release(c)

Next ==
    \/ \E c \in Clients : ClientStep(c)
    \/ \E x \in Connections, s \in States : SetConnectionState(x, s)

Spec == Init /\ [][Next]_vars

-----------------------------------------------------------------------------
(* Properties. *)

\* Type invariant of the scheduler's state; the cursors are indices of their
\* backends and connections.
TypeOK ==
    /\ state \in [Connections -> States]
    /\ backendPending \in [Backends -> Nat]
    /\ connectionPending \in [Connections -> Nat]
    /\ next \in [Tiers -> Nat]
    /\ \A t \in Tiers : next[t] \in Indices(t) \cup {0}
    /\ nextConnection \in [Backends -> [Pools -> Nat]]
    /\ \A b \in Backends, p \in Pools :
          nextConnection[b][p] \in 0..(Len(Members[b]) - 1) \cup {0}
    /\ pc \in [Clients -> {"idle", "attempt", "wait", "held", "released"}]
    /\ request \in [Clients -> Requests \cup {None}]
    /\ leased \in [Clients -> Connections \cup {None}]
    /\ signal \in [Clients -> {"none", "open", "closed"}]
    /\ passed \in [Backends -> Nat]

Holders(x) == {c \in Clients : pc[c] = "held" /\ leased[c] = x}
BackendHolders(b) == {c \in Clients : pc[c] = "held" /\ Owner[leased[c]] = b}

\* Both pending counters are exactly the leases in force, whatever order
\* selections, state changes and repeated releases come in; a connection that
\* goes away and comes back keeps counting its old leases.
PendingIsExact ==
    /\ \A b \in Backends : backendPending[b] = Cardinality(BackendHolders(b))
    /\ \A x \in Connections : connectionPending[x] = Cardinality(Holders(x))

\* docs/architecture.md: only "its signaling lease may temporarily exceed a full
\* client/backend/connection limit".  Without the Cancels, MaxPending holds of
\* every backend, and of every connection for what Select put there.
LimitsHold ==
    /\ \A b \in Backends :
          BackendMax[b] > 0 =>
              Cardinality({c \in BackendHolders(b) : request[c].kind # "signaling"})
                  <= BackendMax[b]
    /\ \A x \in Connections :
          ConnectionMax[x] > 0 =>
              Cardinality({c \in Holders(x) : request[c].kind = "select"})
                  <= ConnectionMax[x]

\* "Callers take the signal before attempting a reservation to avoid missed
\* wakeups": a request that waits on an open channel would still find the
\* upstreams busy, so everything that could change the answer closes it.
NoMissedWakeup ==
    \A c \in Clients :
        (pc[c] = "wait" /\ signal[c] = "open") => Result(request[c]) = "busy"

\* A tier is live for a pool while one of its backends has a connection of the
\* pool that is not unavailable.
LiveTiers(pool) ==
    {t \in Tiers : \E i \in Indices(t) : Established(BackendAt(t, i), pool)}

InTier(b, t) == \E i \in Indices(t) : BackendAt(t, i) = b

\* "lower tiers are examined only when every backend in the current tier has no
\* established connection in the requested pool" (Select): an unrestricted
\* request gets a connection of the first live tier, of the pool it asked for
\* and ready, and waits only when that tier has none to give.
SelectionRespectsTiers ==
    [][\A c \in Clients :
          (pc[c] = "attempt" /\ Unrestricted(request[c])) =>
              LET pool == request[c].pool
                  first == Min(LiveTiers(pool))
              IN  /\ pc'[c] = "held" =>
                        /\ InTier(Owner[leased'[c]], first)
                        /\ PoolOf[leased'[c]] = pool /\ state[leased'[c]] = "ready"
                  /\ pc'[c] = "wait" =>
                        \A x \in Connections :
                            InTier(Owner[x], first) =>
                                BackendFull(Owner[x]) \/ ~Usable(x, pool)]_vars

\* The round robin is fair however full, lost or busy backends are skipped: a
\* backend that would have accepted is passed over by at most one selection per
\* other backend of its tier.
RoundRobinFair ==
    \A t \in Tiers : \A i \in Indices(t) :
        passed[BackendAt(t, i)] <= Len(TierBackends[t]) - 1

=============================================================================
