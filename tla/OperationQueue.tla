--------------------------- MODULE OperationQueue ---------------------------
(***************************************************************************)
(* The per-connection operation queue of internal/server/operation.go: one *)
(* reader goroutine admits decoded requests, a fixed set of workers pops   *)
(* them under one mutex and one condition variable.                        *)
(*                                                                         *)
(* Every method of operationQueue runs under queue.mu, so each is a single *)
(* action here.  sync.Cond is modelled by the workers whose pc is "wait":  *)
(* Wait releases the mutex and joins that set atomically, Signal moves one *)
(* arbitrary waiter back to "pop", Broadcast moves all of them.            *)
(*                                                                         *)
(* The reader is an executor too: an idle simple Bind is run inline        *)
(* (tryClaimIdleSimpleBind) and occupies a slot like a worker would.       *)
(***************************************************************************)
EXTENDS Integers, Sequences, FiniteSets, FiniteSetsExt, SequencesExt

CONSTANTS
    Ops,               \* the requests this connection may ever admit
    Workers,           \* the connection's worker goroutines
    Reader,            \* the connection's reader goroutine
    NoOp,              \* "executes nothing"
    Bytes,             \* retainedBytes of each request
    MaxPending,        \* conn_max_pending, as passed to push
    MaxRetainedBytes,  \* MaxPendingBytesPerConnection, 0 = unlimited
    MaxReservedBytes   \* MaxPendingOperationBytes of the process

ASSUME OpsAssumption == NoOp \notin Ops
ASSUME WorkersAssumption ==
    /\ IsFiniteSet(Workers)
    /\ Workers # {}
    /\ Reader \notin Workers
ASSUME BytesAssumption == Bytes \in [Ops -> Nat \ {0}]
ASSUME LimitsAssumption ==
    /\ MaxPending \in Int
    /\ MaxRetainedBytes \in Nat
    /\ MaxReservedBytes \in Nat

VARIABLES
    items,     \* operationQueue.items
    active,    \* operationQueue.active
    fence,     \* operationQueue.fence
    retained,  \* operationQueue.retainedBytes, kept per request
    closed,    \* operationQueue.closed
    drain,     \* operationQueue.drain
    conc,      \* queuedOperation.concurrent of every admitted request
    status,    \* where each request is in its life
    arrival,   \* history: the admitted requests in the order they were read
    reserved,  \* this connection's share of pendingByteLimiter.active, per request
    released,  \* requests whose releaseRetainedOnce has fired
    pc,        \* control state of every goroutine
    exec       \* the request each goroutine is executing

queueVars == <<items, active, fence, retained, closed, drain, conc, status,
               arrival, reserved, released, pc, exec>>

Executors == Workers \cup {Reader}

\* newOperationQueue(MaxOperationsPerConnection), one worker per slot.
maximum == Cardinality(Workers)

Statuses == {"new", "queued", "running", "done", "dropped", "refused"}
WorkerStates == {"pop", "wait", "run", "return", "exit"}
ReaderStates == {"read", "run", "return", "stop", "closed"}

-----------------------------------------------------------------------------
(* The condition variable queue.ready. *)

Waiters == {w \in Workers : pc[w] = "wait"}

WakeUp(S) == [e \in Executors |-> IF e \in S THEN "pop" ELSE pc[e]]

\* sync.Cond.Signal: one waiter, if there is any.
Signalled ==
    IF Waiters = {} THEN {pc} ELSE {WakeUp({w}) : w \in Waiters}

\* sync.Cond.Broadcast: every waiter.
Broadcast == WakeUp(Waiters)

-----------------------------------------------------------------------------
(* Byte accounting.  A byte counter is kept as the number of times it        *)
(* contains the bytes of each request (0 or 1 in a correct run; -1 or 2 show *)
(* a double release or a double charge); its value is the weighted sum.      *)

CounterValue(counter) == MapThenSumSet(LAMBDA o : counter[o] * Bytes[o], Ops)

\* resourceByteLimiter.tryAcquire on the process-wide limiter.
TryAcquire(o) == Bytes[o] <= MaxReservedBytes - CounterValue(reserved)

\* Mutant: the limit is compared with the request alone.
RetainedLimitExceeded_PerRequest(o) ==
    MaxRetainedBytes > 0 /\ Bytes[o] > MaxRetainedBytes

\* The connection-local limit that push and tryClaimIdleSimpleBind share.
RetainedLimitExceeded(o) ==
    /\ MaxRetainedBytes > 0
    /\ Bytes[o] > MaxRetainedBytes - CounterValue(retained)

\* Both counters take the bytes of an admitted request.
ChargeRetained(o) ==
    /\ retained' = [retained EXCEPT ![o] = @ + 1]
    /\ reserved' = [reserved EXCEPT ![o] = @ + 1]

\* queuedOperation.releaseRetainedBytes for a set of requests, with the
\* matching subtraction from queue.retainedBytes: both happen only for the
\* requests whose sync.Once has not fired.
ReleaseRetained(S) ==
    LET first == S \ released
        without(counter) == [o \in Ops |-> IF o \in first THEN counter[o] - 1
                                                          ELSE counter[o]]
    IN  /\ released' = released \cup S
        /\ retained' = without(retained)
        /\ reserved' = without(reserved)

-----------------------------------------------------------------------------
(* Admission. *)

\* Mutant: a running fence does not take the free slots away.
FreeSlots_IgnoresFence == IF maximum < active THEN 0 ELSE maximum - active

\* The slots that are free for queued requests.
FreeSlots == IF fence \/ maximum < active THEN 0 ELSE maximum - active

\* pendingAfterPushLocked: how many requests would still be waiting after o
\* joined the queue and the free slots were filled.  walk[i] is the state of
\* the loop after i iterations.
PendingAfterPush(o, c) ==
    LET count == Len(items) + 1
        concurrentAt(i) == IF i <= Len(items) THEN conc[items[i]] ELSE c
        walk[i \in 0..count] ==
            IF i = 0 THEN [pending |-> count, available |-> FreeSlots, break |-> FALSE]
            ELSE LET before == walk[i - 1]
                 IN  IF before.break \/ before.available = 0
                     THEN [before EXCEPT !.break = TRUE]
                     ELSE IF concurrentAt(i)
                     THEN [before EXCEPT !.pending = @ - 1, !.available = @ - 1]
                     ELSE [before EXCEPT
                             !.pending = IF active = 0 /\ @ = count THEN @ - 1 ELSE @,
                             !.break = TRUE]
    IN  walk[count].pending

PendingLimitExceeded(o, c) ==
    LET pending == PendingAfterPush(o, c)
    IN  pending > 0 /\ pending > MaxPending

\* tryClaimIdleSimpleBind: the reader takes the fence of an idle queue and
\* executes the Bind itself, without queueing it.
TryClaimIdleSimpleBind(o) ==
    /\ pc[Reader] = "read"
    /\ status[o] = "new"
    /\ TryAcquire(o)
    /\ ~closed /\ items = <<>> /\ active = 0 /\ ~fence
    /\ ~RetainedLimitExceeded(o)
    /\ active' = active + 1
    /\ fence' = TRUE
    /\ ChargeRetained(o)
    /\ conc' = [conc EXCEPT ![o] = FALSE]
    /\ status' = [status EXCEPT ![o] = "running"]
    /\ arrival' = Append(arrival, o)
    /\ pc' = [pc EXCEPT ![Reader] = "run"]
    /\ exec' = [exec EXCEPT ![Reader] = o]
    /\ UNCHANGED <<items, closed, drain, released>>

\* Mutant: push forgets to signal.
PushWakes_Nobody == {pc}

\* push signals queue.ready.
PushWakes == Signalled

\* push: append and wake one worker.
Push(o, c) ==
    /\ pc[Reader] = "read"
    /\ status[o] = "new"
    /\ TryAcquire(o)
    /\ ~closed
    /\ ~RetainedLimitExceeded(o)
    /\ ~PendingLimitExceeded(o, c)
    /\ items' = Append(items, o)
    /\ ChargeRetained(o)
    /\ conc' = [conc EXCEPT ![o] = c]
    /\ status' = [status EXCEPT ![o] = "queued"]
    /\ arrival' = Append(arrival, o)
    /\ pc' \in PushWakes
    /\ UNCHANGED <<active, fence, closed, drain, released, exec>>

\* A refused request ends the connection: either the process-wide limiter had
\* no room, or push refused and the reservation is given back at once.
Refuse(o, c) ==
    /\ pc[Reader] = "read"
    /\ status[o] = "new"
    /\ \/ ~TryAcquire(o)
       \/ closed
       \/ RetainedLimitExceeded(o)
       \/ PendingLimitExceeded(o, c)
    /\ status' = [status EXCEPT ![o] = "refused"]
    /\ conc' = [conc EXCEPT ![o] = c]
    /\ released' = IF TryAcquire(o) THEN released \cup {o} ELSE released
    /\ pc' = [pc EXCEPT ![Reader] = "stop"]
    /\ UNCHANGED <<items, active, fence, retained, closed, drain, arrival,
                   reserved, exec>>

-----------------------------------------------------------------------------
(* The workers. *)

\* Mutant: a fence starts as soon as no other fence is up.
HeadEligible_FenceJoins == items # <<>> /\ ~fence /\ active < maximum

\* The head of the queue may start now (the condition pop waits for).
HeadEligible ==
    /\ items # <<>>
    /\ ~fence
    /\ active < maximum
    /\ conc[Head(items)] \/ active = 0

\* pop takes the head.
Pop(w) ==
    /\ pc[w] = "pop"
    /\ ~(closed /\ ~drain)
    /\ HeadEligible
    /\ items' = Tail(items)
    /\ active' = active + 1
    /\ fence' = (fence \/ ~conc[Head(items)])
    /\ status' = [status EXCEPT ![Head(items)] = "running"]
    /\ pc' = [pc EXCEPT ![w] = "run"]
    /\ exec' = [exec EXCEPT ![w] = Head(items)]
    /\ UNCHANGED <<retained, closed, drain, conc, arrival, reserved, released>>

\* pop finds nothing it may start: queue.ready.Wait().
PopWait(w) ==
    /\ pc[w] = "pop"
    /\ IF items = <<>> THEN ~closed ELSE ~(closed /\ ~drain) /\ ~HeadEligible
    /\ pc' = [pc EXCEPT ![w] = "wait"]
    /\ UNCHANGED <<items, active, fence, retained, closed, drain, conc, status,
                   arrival, reserved, released, exec>>

\* pop reports that the queue is finished and the worker returns.
PopExit(w) ==
    /\ pc[w] = "pop"
    /\ closed
    /\ items = <<>> \/ ~drain
    /\ pc' = [pc EXCEPT ![w] = "exit"]
    /\ UNCHANGED <<items, active, fence, retained, closed, drain, conc, status,
                   arrival, reserved, released, exec>>

\* Mutant: only a fence gives its slot back.
ActiveAfterComplete_FenceOnly == IF fence THEN active - 1 ELSE active

\* complete gives the slot back.
ActiveAfterComplete == IF active > 0 THEN active - 1 ELSE active

\* Mutant: complete signals instead of broadcasting.
CompleteWakes_One == IF items # <<>> \/ closed THEN Signalled ELSE {pc}

\* Mutant: complete wakes nobody while the queue is open.
CompleteWakes_WhenClosed == IF closed THEN {Broadcast} ELSE {pc}

\* complete broadcasts when requests are queued or the queue is closed.
CompleteWakes == IF items # <<>> \/ closed THEN {Broadcast} ELSE {pc}

\* complete: give back the slot, the fence and the bytes; wake everybody when
\* there is something to wake up for.
Complete(e) ==
    /\ pc[e] = "run"
    /\ active' = ActiveAfterComplete
    /\ fence' = FALSE
    /\ ReleaseRetained({exec[e]})
    /\ status' = [status EXCEPT ![exec[e]] = "done"]
    /\ \E woken \in CompleteWakes : pc' = [woken EXCEPT ![e] = "return"]
    /\ exec' = [exec EXCEPT ![e] = NoOp]
    /\ UNCHANGED <<items, closed, drain, conc, arrival>>

\* runConnectionOperation returned true: the worker pops again, the reader
\* reads again.
Continue(e) ==
    /\ pc[e] = "return"
    /\ pc' = [pc EXCEPT ![e] = IF e = Reader THEN "read" ELSE "pop"]
    /\ UNCHANGED <<items, active, fence, retained, closed, drain, conc, status,
                   arrival, reserved, released, exec>>

\* runConnectionOperation returned false (connection context done, response
\* not writable, or the handler closed the connection): the worker exits.
GiveUp(e) ==
    /\ pc[e] = "return"
    /\ pc' = [pc EXCEPT ![e] = IF e = Reader THEN "stop" ELSE "exit"]
    /\ UNCHANGED <<items, active, fence, retained, closed, drain, conc, status,
                   arrival, reserved, released, exec>>

-----------------------------------------------------------------------------
(* The reader's other queue operations. *)

\* Mutant: the last request is moved into the hole.
WithoutIndex_SwapLast(s, i) == [j \in 1..(Len(s) - 1) |-> IF j = i THEN s[Len(s)] ELSE s[j]]

\* Mutant: the slice is not shortened, its nil tail stays.
WithoutIndex_KeepsNil(s, i) ==
    [j \in 1..Len(s) |-> IF j < i THEN s[j] ELSE IF j < Len(s) THEN s[j + 1] ELSE NoOp]

\* copy(items[index:], items[index+1:]) and the slice shortened by one.
WithoutIndex(s, i) == [j \in 1..(Len(s) - 1) |-> IF j < i THEN s[j] ELSE s[j + 1]]

\* remove: Abandon of a request that is still queued.
RemoveQueued(i) ==
    /\ pc[Reader] = "read"
    /\ LET o == items[i]
       IN  /\ items' = WithoutIndex(items, i)
           /\ ReleaseRetained({o})
           /\ status' = [status EXCEPT ![o] = "dropped"]
    /\ pc' \in IF Len(items) > 1 THEN Signalled ELSE {pc}
    /\ UNCHANGED <<active, fence, closed, drain, conc, arrival, exec>>

\* Mutant: the requests are dropped with their bytes still charged.
DropAll_KeepsBytes ==
    /\ items' = <<>>
    /\ UNCHANGED <<retained, reserved, released>>
    /\ status' = [o \in Ops |-> IF o \in ToSet(items) THEN "dropped" ELSE status[o]]

\* The loop discardPending and close share: every queued request is dropped
\* and its bytes are released.
DropAll ==
    /\ items' = <<>>
    /\ ReleaseRetained(ToSet(items))
    /\ status' = [o \in Ops |-> IF o \in ToSet(items) THEN "dropped" ELSE status[o]]

\* discardPending: a Bind throws every queued request away.
DiscardPending ==
    /\ pc[Reader] = "read"
    /\ DropAll
    /\ pc' = IF items # <<>> \/ closed THEN Broadcast ELSE pc
    /\ UNCHANGED <<active, fence, closed, drain, conc, arrival, exec>>

\* close: the reader returns while the server is not draining.
Close ==
    /\ pc[Reader] \in {"read", "stop"}
    /\ closed' = TRUE
    /\ drain' = FALSE
    /\ DropAll
    /\ pc' = [Broadcast EXCEPT ![Reader] = "closed"]
    /\ UNCHANGED <<active, fence, conc, arrival, exec>>

\* closeAndDrain: the reader returns while the server drains; what is queued
\* is still executed.
CloseAndDrain ==
    /\ pc[Reader] \in {"read", "stop"}
    /\ closed' = TRUE
    /\ drain' = TRUE
    /\ pc' = [Broadcast EXCEPT ![Reader] = "closed"]
    /\ UNCHANGED <<items, active, fence, retained, conc, status, arrival,
                   reserved, released, exec>>

-----------------------------------------------------------------------------
QueueInit ==
    /\ items = <<>>
    /\ active = 0
    /\ fence = FALSE
    /\ retained = [o \in Ops |-> 0]
    /\ closed = FALSE
    /\ drain = FALSE
    /\ conc = [o \in Ops |-> FALSE]
    /\ status = [o \in Ops |-> "new"]
    /\ arrival = <<>>
    /\ reserved = [o \in Ops |-> 0]
    /\ released = {}
    /\ pc = [e \in Executors |-> IF e = Reader THEN "read" ELSE "pop"]
    /\ exec = [e \in Executors |-> NoOp]

ReaderStep ==
    \/ \E o \in Ops : TryClaimIdleSimpleBind(o)
    \/ \E o \in Ops, c \in BOOLEAN : Push(o, c) \/ Refuse(o, c)
    \/ \E i \in 1..Len(items) : RemoveQueued(i)
    \/ DiscardPending
    \/ Close
    \/ CloseAndDrain

WorkerStep(w) == Pop(w) \/ PopWait(w) \/ PopExit(w)

ExecutorStep(e) == Complete(e) \/ Continue(e) \/ GiveUp(e)

\* serveConnection has returned: the reader is gone and workerDone is closed.
Terminated ==
    /\ pc[Reader] = "closed"
    /\ \A w \in Workers : pc[w] = "exit"

QueueNext ==
    \/ ReaderStep
    \/ \E w \in Workers : WorkerStep(w)
    \/ \E e \in Executors : ExecutorStep(e)
    \/ Terminated /\ UNCHANGED queueVars

QueueSpec == QueueInit /\ [][QueueNext]_queueVars

\* Goroutines are scheduled and every request finishes: pop returns or waits,
\* a running request reaches complete, and its executor moves on.  The reader
\* owes nothing (a client may stay silent), except that it returns once it has
\* decided to or once a worker has closed the connection under it.
QueueFairness ==
    /\ \A w \in Workers : WF_queueVars(WorkerStep(w))
    /\ \A e \in Executors : WF_queueVars(Complete(e)) /\ WF_queueVars(Continue(e) \/ GiveUp(e))
    /\ WF_queueVars((pc[Reader] = "stop" \/ \E w \in Workers : pc[w] = "exit")
                      /\ (Close \/ CloseAndDrain))

FairQueueSpec == QueueSpec /\ QueueFairness

-----------------------------------------------------------------------------
(* Properties. *)

Running == {e \in Executors : pc[e] = "run"}

\* Type invariant of the queue's state.
QueueTypeOK ==
    /\ items \in Seq(Ops)
    /\ active \in 0..maximum
    /\ fence \in BOOLEAN
    /\ retained \in [Ops -> Int]
    /\ closed \in BOOLEAN
    /\ drain \in BOOLEAN
    /\ conc \in [Ops -> BOOLEAN]
    /\ status \in [Ops -> Statuses]
    /\ arrival \in Seq(Ops)
    /\ reserved \in [Ops -> Int]
    /\ released \in SUBSET Ops
    /\ pc \in [Executors -> WorkerStates \cup ReaderStates]
    /\ exec \in [Executors -> Ops \cup {NoOp}]

\* A fence (a write, a Bind, StartTLS, a transaction step...) never overlaps
\* any other operation of the connection: pop and tryClaimIdleSimpleBind admit
\* it only into an idle connection, and nothing joins it.
FenceExclusive ==
    \A e, f \in Running : e # f => conc[exec[e]] /\ conc[exec[f]]

\* operationQueue.active counts exactly the goroutines between pop (or the
\* inline claim) and complete, the reader included, and never passes maximum.
ActiveCounts == active = Cardinality(Running) /\ active <= maximum

\* A request's bytes are counted exactly once, in the connection counter and in
\* the process-wide limiter, from its admission until it ends, and not at all
\* before or after: nothing is released twice and nothing is forgotten,
\* whatever mix of complete, remove, Bind discard and close ends the requests.
BytesConserved ==
    \A o \in Ops :
        /\ retained[o] = IF status[o] \in {"queued", "running"} THEN 1 ELSE 0
        /\ reserved[o] = retained[o]

\* The limits the two counters are checked against are never exceeded.
ByteLimitsHold ==
    /\ MaxRetainedBytes > 0 => CounterValue(retained) <= MaxRetainedBytes
    /\ CounterValue(reserved) <= MaxReservedBytes

\* The architecture's "ordered fences": taken in the order the reader admitted
\* them, a request starts only after every earlier one has left the queue, and
\* two requests of which one is a fence never overlap: the earlier has ended
\* before the later one starts.
OrderedFences ==
    \A i, j \in 1..Len(arrival) :
        (i < j /\ status[arrival[j]] \in {"running", "done"})
            => /\ status[arrival[i]] # "queued"
               /\ status[arrival[i]] = "running"
                    => conc[arrival[i]] /\ conc[arrival[j]]

\* What pop would do with the queue, taken k times in a row: the reference that
\* pendingAfterPushLocked has to predict.
PopsInARow(q, cc, k) ==
    \A j \in 1..k :
        /\ ~fence /\ \A i \in 1..(j - 1) : cc[i]
        /\ active + (j - 1) < maximum
        /\ cc[j] \/ active + (j - 1) = 0

\* Admission control counts as pending exactly the requests that the idle
\* slots could not take over at once (conn_max_pending is about waiting
\* requests, not executing ones).
AdmissionPredictsPop ==
    \A o \in Ops, c \in BOOLEAN :
        LET q == Append(items, o)
            cc == [i \in 1..Len(q) |-> IF i <= Len(items) THEN conc[q[i]] ELSE c]
            started == Max({k \in 0..Len(q) : PopsInARow(q, cc, k)})
        IN  status[o] = "new" => PendingAfterPush(o, c) = Len(q) - started

\* No wakeup is lost for good: a queue with work and nothing executing always
\* has a worker on its way to pop, unless every worker has given up.
IdleQueueHasAPopper ==
    (items # <<>> /\ active = 0)
        => \/ \E e \in Executors : pc[e] \in {"pop", "return"}
           \/ \A w \in Workers : pc[w] = "exit"

\* No startable request waits beside an idle worker: when the head may start
\* and some worker sleeps in queue.ready.Wait, another one is on its way.
NoStrandedHead ==
    (HeadEligible /\ Waiters # {})
        => \E e \in Executors : pc[e] \in {"pop", "return"}

\* Push, complete and discardPending pass their wakeups on well enough: a
\* startable request may wait beside an idle worker only on a connection that
\* has lost a queued fence to an Abandon, a Bind or close.
NoStrandedHeadUnlessFenceDropped ==
    (\A o \in Ops : status[o] = "dropped" => conc[o]) => NoStrandedHead

\* After an ordinary connection close, nothing of the connection's requests
\* stays reserved against the process-wide limiter.
BytesReleasedAtClose ==
    (Terminated /\ ~drain) => CounterValue(reserved) = 0

\* A queued request does not stay queued: it is started, removed, discarded or
\* dropped by close, however wakeups, fences and exiting workers interleave.
EveryRequestLeavesTheQueue ==
    \A o \in Ops :
        status[o] = "queued"
            ~> (status[o] # "queued" \/ \A w \in Workers : pc[w] = "exit")

=============================================================================
