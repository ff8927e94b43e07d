# A TLA+ model of ldap-go

ldap-go is an LDAP server (a slapd replacement) and an LDAP load balancer
(`lloadd`) in Go. This directory holds TLA+ specifications of the concurrent core
of both, of replication and of storage commits, TLC configurations that check them on small instances, and TLAPS proofs.
`PROJECT.json` lists components, runs, mutants, the map from definitions to source
lines, findings, hazards and theorems.

## 1. Inventory

### 1.1 Parts, state and interaction

| Part | Source | State | Operations |
|---|---|---|---|
| Operation queue | `internal/server/operation.go`, `resource_limit.go` | pending list, `active`, `fence`, retained bytes, `closed`, condition variable | push, claim, pop, complete, remove, discardPending, close, closeAndDrain |
| Operation lifecycle, registry | `operation.go` | per request: phase, cancellation allowed/requested/acknowledged, context; per connection: message ID -> request | register, start, finish, abandon, cancel, markCommitPoint, beginFinalResponse, abandonForBind, cancelAll, shutdown, closeIfIdle |
| Connection engine | `server.go`, `connection_timeout.go`, `extended.go` | connection state (identity, TLS, SASL session, transaction), reader position, draining flags | read a request, Abandon, Cancel, Bind barrier, StartTLS, worker loop, idle watcher, drain, forced drain |
| Request handlers, proxying backends | `search.go`, `write.go`, `chain.go`, `meta_*.go`, ... | storage, remote connections | one handler per LDAP operation |
| SASL, transactions, paging, VLV | `sasl*.go`, `transaction.go`, `paging.go`, `vlv.go` | connection-local | multi-step Bind; start, queue, settle; snapshots |
| Storage | `internal/storage` | bbolt file (data pages, two meta pages), `singleSync` | View, Update, single-sync commit, falling back to ordinary commits |
| Replication, provider | `sync_state.go`, `sync_search.go` | stored: contextCSN, tombstones; in memory: CSN clock, session log, subscriptions and their channels | record and publish a change, subscribe, snapshot, refresh (Present phase or session log), persist |
| Replication, consumer | `syncrepl_*.go` | stored: content, cookie, tombstones; in memory: the UUIDs seen in a refresh | connect, apply an entry, a delete, a UUID set or a cookie, finish a refresh, reconnect |
| Overlays | `pcache*.go`, `ppolicy.go`, `dds.go`, `accesslog.go`, `memberof.go`, ... | caches, counters, expiry times | hooks around operations, background tasks |
| lloadd scheduler | `internal/lloadd/scheduler.go` | connection states, pending counters, cursors, the capacity channel | Select, reserveOwned/Signaling, SetConnectionState, Release, capacitySignal |
| lloadd proxy | `internal/lloadd/proxy*.go` | client operations, upstream operations, Bind owners | route, attach, finish, forwarded Cancel, reconnect |
| Codec, schema, ACL, crypto, tools | `internal/ldapwire`, `directory`, `schema`, `acl`, `auth`, `cmd`, ... | none shared, or immutable | pure functions and command lines |

How the server parts interact. One *reader* goroutine per connection decodes
requests. Abandon, Cancel and Unbind it handles itself. Every other request is
registered, classified as concurrent (Search, Compare, ... outside a SASL Bind or a
transaction) or as an ordered *fence*, and pushed into the *operation queue*. A
pool of *workers* pops: concurrent requests overlap, a fence runs alone. Binds and
StartTLS make the reader wait until the request has completed (the read barrier);
a Bind first stops what is outstanding. A worker clones the connection state for a
concurrent request, takes a slot of the server-wide `operationLimiter`, moves the
request to *executing*, dispatches, writes the final response, and finishes it in
registry and queue. The reader (Cancel, Abandon, Bind), the idle watcher, the drain
and storage's commit callback all reach the same request through its phases:

    queued -> executing -> [commit point] -> final response -> complete

How replication interacts with the rest. A write records its change (CSN, contextCSN,
tombstone) in its own transaction and publishes it to the *hub* afterwards, outside
any lock that orders it with other writers. The hub appends it to the session log
and offers it to the bounded channel of every persistent search. A replication
search subscribes, then reads a storage snapshot, answers from it, and then streams
what its channel holds beyond the snapshot. The consumer's worker applies one
response per transaction, cookie included, and reconnects with that cookie. A
consumer that is itself a provider publishes what it applied.

How the lloadd parts interact. A client's request takes the scheduler's capacity
channel, asks for a lease, waits on the channel if the upstreams are busy, attaches
to the upstream the lease is for and releases the lease when the response, a
timeout, the loss of the upstream or the end of the client comes first.

### 1.2 What is hard

* A fence among concurrent workers, with removals from the middle of the queue.
* A condition variable with `Signal` and `Broadcast`: lost or misdirected wakeups.
* The Cancel/commit/response race, in particular with writes whose commit another
  server performs.
* State read by the reader while a fence that changes it still executes: identity,
  transport, SASL session, transaction.
* A drain which must finish while persistent searches would run for ever and others
  may still be admitted.
* Byte and slot accounting over every path on which a request can end.
* The capacity signal and repeated releases of a lease in the load balancer.
* Commit, publication and snapshot as three orders of the same changes, with a log
  and channels that forget, and restarts and lost connections in between.
* What of a commit is on the disk when the machine loses power.

Section 5 of this file says which of these have properties; `PROJECT.json` lists
every one at its line.

### 1.3 What makes each part correct

* Queue: fences are exclusive and ordered; slots and bytes are exact; admission
  agrees with pop; nothing startable is stranded.
* Lifecycle: at most one final response; a granted Cancel means no effect and a
  committed write is never reported canceled; an abandoned request is silent.
* Connection: each request runs in the session it was read in; the registry is the
  set of live requests; a drain answers everything and ends.
* Scheduler: pending counters equal leases; limits hold; no missed wakeup; tiers are
  respected; round robin is fair.
* Replication: a cookie means content; the session log is complete for its window;
  the persist phase misses nothing; the consumer converges.
* Storage: what was acknowledged survives a power loss, and the version a store opens
  on has all its pages.
* Proxy: one answer per client request, whatever happens upstream. (Planned.)

## 2. Modules

| Module | Models |
|---|---|
| `OperationQueue` | `operationQueue`, `queuedOperation`, the byte limiter |
| `OperationQueueProofs` | theorems about `OperationQueue` |
| `TrackedOperation` | `trackedOperation` as operators on a record |
| `OperationContract` | abstract specification: what a client may rely on |
| `Connection` | reader, workers, registry, idle watcher, drain; composes the two above |
| `ConnectionProofs` | the connection as a user of the queue, its types, the registry |
| `ConnectionSessionProofs` | requests and the session they were read in |
| `ConnectionAnswerProofs` | answers, effects and Cancels; refinement of `OperationContract`; what a drain answers |
| `Scheduler` | lloadd's scheduler and the loop that waits for capacity |
| `SchedulerProofs` | theorems about `Scheduler` |
| `SyncSessionLog` | CSNs, CSN vectors and the session log, as operators |
| `SyncReplication` | writers, provider and consumer; extends `SyncSessionLog` |
| `SyncReplicationProofs` | theorems about `SyncReplication`: types, persist phase, session log |
| `SyncContentProofs` | theorems about `SyncReplication`: cookies and content |
| `Storage` | commits of the bbolt store, writeback and power loss |
| `StorageProofs` | theorem about `Storage` |
| `MCOperationQueue`, `MCConnection`, `MCScheduler`, `MCSyncReplication` | instances for TLC |

### 2.1 OperationQueue

Each action is one method under `queue.mu`. `items` is the pending list, `conc` says
which requests are concurrent, `active` and `fence` are the code's counter and flag.
`retained` and `reserved` are the connection's and the process's byte counts, kept
per request: a count is the sum over the set, so a double charge or a double release
shows as a multiplicity and not only as a wrong total. `pc` and `exec` describe the
goroutines: the workers, and the reader, which runs an idle simple Bind itself
(`tryClaimIdleSimpleBind`). The condition variable is modelled by its waiters: a worker that
finds nothing eligible sleeps, `Signal` wakes some sleeper if there is one,
`Broadcast` wakes all; a woken worker looks again. A worker may stop popping at any
time because its connection loop returned false (`GiveUp`).
A request's bytes are a constant. `MaxPending`, `MaxRetainedBytes` and
`MaxReservedBytes` are the configuration's limits.

### 2.2 TrackedOperation and Connection

`TrackedOperation` gives, for each method of `trackedOperation`, its guard and the
record it leaves. `Connection` extends the queue and adds what `PROJECT.json` maps
to `serveConnection` and `runConnectionOperation`. A request is a *kind* (search,
metasearch, persist, whoami, write, proxywrite, bind, saslbind, starttls, badstarttls,
txnstart, txnend; badstarttls is a StartTLS that validation refuses): the payload is abstracted away, and with it every result code. A handler is
modelled by the steps at which it meets others: relaying an entry (meta search),
the commit callback and the commit (local write), sending the request away and
waiting for it (chained write), publishing a new identity (Bind), replacing the
transport (StartTLS). `committed` has the local writes that took effect. A chained
write is tried at one server or at several, one after the other; a Cancel is closed
off before the request is written (`SendRemote`), and the wait ends with the answer, a
timeout, a transport error or the end of the context (`AwaitRemote`). From the moment it
is written the request is in `remote`, and the other server carries it out (`applied`)
or refuses it in its own time: `RemoteDecides` is independent of the connection and may
come after the client was answered with an error, or after the connection is gone.
A Search may run into a response limit with an entry or with its result, in any of its
three forms (`ResponseLimit`).

The executor's position `at` walks through clone, acquire, start, dispatch, ...,
respond, post, canceled, finish, complete; the reader's `rpc` through loop, reading,
cancel, bind, admit, barrier and the four steps with which it leaves. A step takes
at most one lock, except where two consecutive critical sections cannot be told
apart by any other goroutine:

* registration, classification and push, all by the reader;
* the two locks of `registry.finish` (the registry's and the operation's);
* `queue.complete` and the send on the completion channel the reader waits for;
* the store to `transactionAdmission` together with the read that decides how the
  worker goes on, and, when a response limit was hit, with the boundary of the result
  that is written instead (the reader reads the store only when it admits a request,
  and a Search stores what is stored already);
* the three sections of an Abandon that finds its target queued: `queue.remove`, the
  target's stop and `registry.finish`. Once it is out of the queue no worker can reach
  the request, and nobody but the reader looks it up by its message ID;
* the mark before a chained write and the write itself: between them there is nothing
  another goroutine could see but the mark.

`dispatch` may fail before any handler runs (`DispatchFails`: controls, an
authorization-identity request, an overlay). While a SASL Bind is in progress the same
early failures, answered within the boundary, are not separate from the rejection that
follows them in the code, which is answered outside it.

`Events` names what may happen from outside: a lost connection, the idle watcher, a
drain, a forced drain.

### 2.3 OperationContract

A request is unread, open or retired. It takes effect here at most once, only while
open and unanswered. It may be handed to another server, again only while open and
unanswered; that server decides when it likes, after the answer and after the request
is retired too, and more than once if the request was handed over again. It is answered
at most once, with its result or with *canceled*, and *canceled* only if it neither had
an effect nor is elsewhere. A Cancel is granted only for a request answered *canceled*
that has no effect anywhere, then or later.
`Connection!KeepsContract` is refinement under the mapping: life from the queue's
status, answer from what was written, effect from `committed` and `applied`, elsewhere
from `remote`, granted from `acked`. The contract promises nothing about a
chained write that was answered with an error: it may have happened, or still happen. The contract does not tell a successful result from an error: a request may
take effect and be answered with an error (storage may fail after the commit, while
it synchronises its metadata), which LDAP allows.

### 2.4 Scheduler

Each action is one method under `scheduler.mu`. The configuration (tiers, policies,
backends, connections, pools, weights, limits) is a set of constants; all
connections start unavailable, as the proxy configures them. A client is the life of
one request: capacity signal, attempt, wait, lease, one or two releases. The
generation channel is modelled by what its holder can observe: open, or closed since
it was taken. `weighted` is the set of backends its random order can bring first;
`bestof` depends on measured latencies and may prefer any backend. `passed` is a
history variable: how often in a row a round robin went past a backend that would
have accepted. A cursor is shared by both pools of a tier, as in the code; a
selection for a pool in which a backend is not willing restarts its count, so the
property says nothing about strict alternation under mixed load.

### 2.5 SyncSessionLog and SyncReplication

A CSN is a number that orders by time and then by server ID; a vector of CSNs is a
function on server IDs with 0 for an absent one. An entry is its entryCSN and its
*visibility* in the replication search: absent, there but outside base, scope, filter
or access (`out`), or returned (`in`). That is all the provider and the consumer
decide on, so Modify and ModDN are one action that leaves an entry inside or outside.
A write that fails rolls back and leaves no trace, so only committed writes are
actions.

Nodes and links are constants: a link is one `olcSyncrepl` value. `entries`,
`context`, `tombstones` and `cookie` are stored; `clock`, `log`, `publishing` and
`session` are memory, and `Restart` loses what is in them. `publishing` holds the
changes a writer has committed and not yet published. `session` is one search with
its worker: the subscription's channel (`events`, `overflow`), the snapshot it read
(`view`, `snapshot`), the last CSN streamed live (`live`), the responses in flight
(`stream`) and the UUIDs the worker has seen (`seen`). The provider's steps are
Connect (subscribe), CaptureSnapshot (open the read transaction), Refresh (look into
the session log, choose log, Present phase or full content, write the responses),
PersistChange and PersistOverflow; between any two of them writers commit and publish.
The refresh's responses become visible to the worker together: TCP keeps their order,
and the worker still takes them one at a time and may be cut off after each.
The worker's actions are one transaction each, with the cookie in it. The CSN clock
is one counter per server, capped by `MaxTime`; the import that the providers start
with fits under that cap (`BoundsAssumption`), and the entries are finitely many.

Left out: `olcSpNoPresent` and minimum CSNs, checkpoints (a copy of the vector),
glued partitions, a changed search base, two UUIDs that contend for one DN,
delta-syncrepl from an access log, changelog consumers.

### 2.6 Storage

The file is seen twice, as processes see it (`cached`) and as the disk holds it
(`durable`). Transaction t has pages of its own and shares those of earlier versions;
it becomes current when the meta page t mod 2 names it. `bbolt` writes pages, then
the meta page, and flushes after each unless `NoSync` is set; either flush may fail,
and a later transaction then writes its pages over those of the failed one. The kernel
may write back any dirty page at any time. On platforms with O_SYNC the server's store sets
`NoSync` and writes the changed meta page once more through an O_SYNC descriptor;
when that fails it flushes and goes back to ordinary commits. `SyncReachesFile` says
whether that write also flushes the rest of the file: POSIX does not promise it, the
finding holds either way.

## 3. Runs

| Run | Instance | Checks |
|---|---|---|
| `queue` | 4 requests of 1-2 bytes, 3 workers and the reader, 2 pending | all safety of the queue |
| `queue_liveness` | weak fairness of the goroutines | no request stays queued for ever |
| `queue_stranded_by_abandon` | finding | a startable request beside a sleeping worker |
| `conn` | 2 requests of 4 kinds and one that is too large, 1 worker and the reader, lost connection, another server | answers, effects, refinement of the contract |
| `conn_end` | 2 requests: whoami, bind, saslbind, starttls valid and not, transactions; 2 workers; idle watcher, drain, forced drain | identity, transport and SASL ordering, registry |
| `conn_liveness` | 2 requests: persist, search, write, bind; 1 worker; 1 pending slot; drain; fairness | drain and reader make progress |
| `conn_sasl_cancel` | finding | a second final response |
| `conn_transaction` | finding | a Search beside an open transaction |
| `scheduler` | 2 requests of 6 kinds; 4 backends in 3 tiers; 5 connections | accounting, limits, wakeups, tiers, fairness |
| `replication` | provider and consumer, both modes; 1 client, 2 entries, one of them loaded, 3 writes; log of 1, channel of 1; 2 faults; fairness | cookie, session log, persist phase, convergence |
| `replication_reordered` | finding | two writers publish out of order |
| `storage_power_loss` | finding | 3 transactions in single-sync mode |

Why these bounds. The queue's decisions look at the head, at whether a fence is
active and at the number of free workers: one executing request, a fence and two
requests behind it are the largest pattern that any of them distinguishes, which
takes four requests and three workers. `MaxPending` 2 and byte limits just above two
requests make every limit reachable. The races of a connection are between a request,
its Cancel or the next request, and the end of the connection, so two requests show
them. What `conn` is about happens between one executor and the reader, or between the executor and another server; the second executor is the reader
itself when it runs a Bind. Two workers matter where requests run beside each other,
in `conn_end`; its one limiter slot makes workers wait for it. In `conn_liveness` one
pending slot behind one worker allows a Bind to be queued behind a write that it cannot
stop and the reader to wait for it. The third request of `conn` exceeds the bytes a
connection may retain, so that a refusal may come at any point. Its searches are meta
searches: one that has relayed nothing behaves as a plain Search does. In `conn_end`
`whoami` stands for the concurrent requests, which differ only in whether they can be
canceled. In the scheduler, one backend is limited as a whole and the others per connection, so each limit is
met alone; two tiers below the first show falling through; a Cancel's reservation
exceeds the limits on purpose. Requests, workers and clients are symmetric.
In `replication` a loaded entry and three writes are enough for an entry to leave the
search and for a later change to push that departure out of a log of one; a channel
of one slot overflows as soon as two changes wait; one response in flight makes the
persist phase block on a slow reader; two faults allow a restart and a lost
connection in one history. The mode is chosen freely, so the Present phase, the log
and full content are each met with and without a persist phase. The run has one
writer: with two, publication order differs from commit order and finding 4 applies.
Deadlock is checked in every passing run but `replication`: elsewhere the only state
without a further step is the one in which the connection is gone, and there the
specifications stutter explicitly. Replication ends when the bounded writes are all
applied and a persistent search waits for the next.

Fairness. Every goroutine that can run eventually does, which Go's scheduler
provides: weak fairness of each worker, of each executor, of the reader once it
has something to do (a request at hand, a drain or a closed connection), of the
sweep a drain has begun and of an idle close that has been decided. A handler is assumed to return, except that a persistent Search
runs until it is stopped. Nothing is assumed of the client, of another server, of a meta entry
arriving, of overflow, or of the watcher. In replication a writer that has committed
publishes, a search that can go on does, and a worker applies what it has received
and connects again for ever, as `runSyncConsumer` does with a retry policy that ends
in `+`; writes, lost connections and restarts are bounded, and nothing is assumed of
them. The list of servers a chained write is tried at is finite in the code and unbounded in
`AwaitRemote`; no liveness run has chained writes. `sync.Cond` wakes in arrival order; the model lets it
wake any waiter, which is weaker.

### 3.1 Findings

1. *Abandoning a queued fence strands a request* (`operation.go:626`). `remove`
   signals one waiter. If an operation executes, a fence heads the queue and two
   concurrent requests follow it, removing the fence makes both startable and wakes
   one worker; pop does not pass the wakeup on. The second request waits until
   another operation completes. `NoStrandedHeadUnlessFenceDropped` shows that this is
   the only way, and `EveryRequestLeavesTheQueue` that it ends when operations do.
2. *Two final responses* (`sasl.go:441`). A request rejected during a SASL Bind is
   answered without `beginFinalResponse`; a Cancel read before `registry.finish` is
   granted and a second response, *canceled*, is written.
3. *A Search beside a transaction* (`server.go:1164`). The reader raises
   `transactionAdmission` when it reads Start Transaction; a fence that was already
   executing then stores the old state over it.
4. *A change lost to a persistent consumer* (`sync_search.go:765`). Publication
   follows the commit outside its lock. If two writers publish in the opposite of
   their CSN order, `persistSyncSearch` streams the later change, then skips the
   earlier one because its CSN is lower than what was streamed. The cookie covers
   both, so no refresh ever sends the skipped entry: `Converges` fails without any
   fault. With one writer it holds.
5. *Power loss in single-sync mode* (`bolt.go:155`). `NoSync` removes the flush that
   orders data pages before the meta page. The kernel may write the meta page first;
   after a power loss the store opens on a version whose pages are not on the disk.
   The O_SYNC write comes after the damage is possible, whatever it flushes. A killed
   process is not affected: what it wrote is in the page cache. `OrdinaryCommitsAreDurable`
   proves that the ordinary mode is safe.

### 3.2 Observations without a run

* After `closeAndDrain` workers that give up leave queued requests' bytes reserved;
  `docs/architecture.md:97-99` says they are released exactly once. The rest of the
  accounting is covered by `BytesReleasedAtClose`.
* `closeIfIdle` (`operation.go:406-416`) checks and closes under the registry's
  mutex, which `start` does not take. A request that is pending at the check may execute
  at the close: one that has waited for the `operationLimiter` for longer than the
  timeout, or one queued behind a long write that has just finished, since only reads
  count as activity. `docs/implementation-status.md:97-98` exempts executing operations.
* `selectUpstream` (`proxy_client.go:1097-1117`) marks a connection ID unavailable
  after a failed attach without checking that the ID still belongs to the upstream
  it failed on; the maintainer may have re-added it.
* A request that obtains a lease but fails to attach releases the lease, which closes
  the very capacity channel it took: it retries at once rather than waiting.

* A relay (a consumer that is a provider) publishes the entries of a refresh in the
  order in which it received them, which is not CSN order (`syncrepl_consumer.go:830`).
  A persistent consumer behind it drops those below a CSN it has seen, by the rule of
  finding 4. `docs/architecture.md:662-663` says such a node relays changes.
* A delete whose cookie does not advance the stored one deletes nothing
  (`syncrepl_consumer.go:1116`). Of two deletions published with one CSN the second is
  lost unless it carries a `delcsn`; `docs/compatibility.md:1136` says "Equal-CSN
  delete batches remain distinct events".
* A session log enabled online starts from a context read when the configuration was
  validated (`sync_state.go:133`); a change committed and published before activation
  is in neither the base nor the log.
* `observeCSN` is called when a runtime is activated only: a server whose clock is
  behind gives a write to a replicated entry a CSN older than the version it replaces
  (`write.go:4358`), and other servers reject it.

## 4. Proofs

### 4.1 The operation queue

`OperationQueueProofs` proves, for any set of requests and workers, any sizes and
any limits, from the assumptions named in `OperationQueue`:

| Theorem | States |
|---|---|
| `QueueInvariant` | the inductive invariant `QueueInv` |
| `QueueTypeCorrect` | `QueueTypeOK` |
| `FencesAreExclusive` | a fence never overlaps another operation |
| `ActiveIsExact` | `active` counts the executing goroutines and stays within the maximum |
| `BytesAreConserved` | what is charged is what is queued or executing, in both counters |
| `FencesAreOrdered` | `OrderedFences`: requests start in the order read, fences wait for all before them |
| `IdleQueuesAreServed` | `IdleQueueHasAPopper` |
| `StartableHeadsAreServed` | `NoStrandedHeadUnlessFenceDropped` |
| `NothingChargedAfterClose` | after an ordinary close both byte counters are empty, request by request |
| `ByteLimitsAreKept` | `ByteLimitsHold`: the two byte sums stay within their limits (`IsFiniteSet(Ops)`) |
| `BytesAreReleasedAtClose` | `BytesReleasedAtClose`: after an ordinary close no byte stays reserved (`IsFiniteSet(Ops)`) |
| `AdmissionIsExact` | `AdmissionPredictsPop`: the admission loop counts what pop could not start |

`QueueInv` is the conjunction of `QueueTypeOK`; `ExecConsistent` (an executing
goroutine has one request, no two the same); `ItemsConsistent` (the queue holds no
request twice and none that executes); `FenceFlag` (`fence` says that a fence
executes); `FenceExclusive`; `ActiveCounts`; `ReleasedEnded` (released requests
neither wait nor execute); `BytesConserved`. Exclusion is not inductive alone: pop
looks at `active` and `fence`, never at the goroutines, so the proof needs that
the counters agree with them, and that in turn needs that a request is in one place
only. The step theorem has one case per action; the frame lemmas say what a wakeup
leaves alone. The run `queue` checks the
parts that are of interest by themselves on its instance.

Two further invariants are proved on top of it. `OrderInv` is about order: the history
of arrivals names a request once (`ArrivalHistory`), `items` keeps the order of that
history (`ItemsInOrder`), whoever counts as executing has a goroutine (`RunningHeld`),
and `OrderedFences` itself. Pop is the only interesting step: what it takes is the
oldest queued request because `items` is in order, and what still executes is
concurrent because the fence flag is down.

`WakeInv` is about the condition variable. The wakeup properties are not inductive:
they say that *one* worker is on its way, while push relies on its own `Signal` for the
request it adds and pop uses a wakeup up. `HeadsServed` counts: while a worker sleeps,
there are at least as many workers on their way to pop as there are requests at the
front of the queue that could be started one after the other, unless a queued fence
was dropped. Push adds one of each, pop takes one of each, complete wakes everybody,
and removing a concurrent request makes nothing startable. Removing a fence does, and
there finding 1 begins. `IdleServed` needs no such exception, and `ClosedForGood` says
that nothing is left in a queue that is closed without a drain.

The byte *sums* are recursive functions over sets of requests, so they need an induction,
and the library's induction theorems cannot be instantiated. The proofs take a least
counterexample instead: among the subsets of `Ops` of which a fact about the sum fails
there is one of least cardinality (`PickInduction`, from the well-foundedness of the
naturals), and without the request that the sum picks first it holds. This gives the
three facts that the steps need: charging one request adds its bytes (`CounterCharged`),
giving requests up never raises the sum (`CounterLowered`), and a sum of nothing is
zero. `ByteLimitsHold` then follows from the guards of admission. The hypothesis
`IsFiniteSet(Ops)` gives the sums a meaning; a connection reads finitely many requests
in any finite run, and a safety property is violated in a finite run.

`AdmissionIsExact` compares two loops that are written differently:
`pendingAfterPushLocked` walks over the queue with a budget of free slots and stops at
the first fence or when the budget is used up; pop takes one request at a time and
looks at `active` and `fence`. `LoopSound` states what holds after iteration *i*: what
the loop no longer counts as pending is what pop could take in a row, and once the loop
has stopped pop could take no more. One iteration preserves it (`LoopStepSound`); that
it holds at the end follows from the least iteration after which it would not.

`ConnectionUsesTheQueue` (4.4) proves that a connection's queue makes no other steps
than `OperationQueue`'s, so these theorems hold inside every connection.

### 4.2 The scheduler

`SchedulerProofs` proves, for any tiers, policies, backends, connections, pools,
limits, requests and finite set of clients:

| Theorem | States |
|---|---|
| `SchedulerInvariant` | the inductive invariant `SchedulerInv` |
| `SchedulerTypeCorrect` | `TypeOK`: every cursor stays a position of its list |
| `PendingCountsLeases` | `PendingIsExact` |
| `LimitsRespected` | `LimitsHold` |
| `NoWakeupIsMissed` | `NoMissedWakeup` |
| `RoundRobinIsFair` | `RoundRobinFair` |
| `TiersAreRespected` | `SelectionRespectsTiers`, an action property |

The assumptions are what `newScheduler` validates or builds: lists of existing
backends and connections (`ConfigAssumption`), a connection is in its backend's list
and in no other (`MembersAssumption`), a backend has one place in the tiers
(`DistinctAssumption`), the placeholder is none of them (`NoneAssumption`), and there
are finitely many clients (`ClientsAssumption`), so that leases can be counted.

`SchedulerInv` adds two parts to the properties. `ClientsConsistent` (who is
not idle has a request, and who holds a lease holds it for a connection) is what the counters are compared
with: without it a release could take a slot from a connection the client never
held. `RoundRobinBound` strengthens the fairness bound, which is not inductive: the
number of times a backend was passed over *plus* its distance from the cursor is at
most n - 1, so a selection that passes it over trades one for the other.

The wakeup theorem rests on monotonicity. `CapacityShrinks` and `ResultStays` show
that as long as nothing is released and no connection changes state, a request that
found the upstreams busy finds them busy again, although cursors have moved in the
meantime: `Rotation` says that a walk of a full lap meets the same members wherever
it starts. Everything else closes the channel (`SignalWakesAll`).

### 4.3 Storage

`StorageProofs` proves `OrdinaryCommitsAreDurable`: without synchronized writes
(`SynchronizedWrites` = FALSE), in every reachable state a power loss would leave a
store that opens on a version no older than the last acknowledged one, with all its
pages on the disk, for any number of transactions. Run `storage_power_loss` refutes
the same formula in single-sync mode. The property is not inductive: it looks at the
disk alone. `DurableInv` adds that the store stays in ordinary mode; that each meta
page on the disk is no newer than in the cache; that the disk has the pages of every
version a *cached* meta page names, although it may not have that meta page yet; that
the transaction at hand is the successor of the current version until its meta page is
written, with its pages on the disk from the first flush on; and that what is
acknowledged is never newer than what the disk opens on. The second and third parts
make writeback harmless in any order: whatever meta page it brings to the disk, the
pages are there (`OpenedIsMonotone`). `CommitPages` takes pages off the disk when it
overwrites a failed attempt, which is sound because they belong to no version yet.

### 4.4 The connection

Three modules, each extending the one before, prove for any requests, workers, limits,
kinds and outside events, from the assumptions named in `Connection`:

| Theorem | Module | States |
|---|---|---|
| `ConnectionTypeCorrect` | `ConnectionProofs` | `TypeOK` |
| `ConnectionUsesTheQueue` | | `Spec => QueueSpec`: what is proved of the queue holds in a connection (no run: the connection's actions are built from the queue's) |
| `RegistryIsExact` | | `RegistryTracksLiveRequests` |
| `RequestsKeepTheirSession` | `ConnectionSessionProofs` | `SameSession` |
| `SASLBindIsPassedByNothing` | | `NothingPassesASASLBind` |
| `ConnectionInvariant` | `ConnectionAnswerProofs` | the inductive invariant `ConnectionInv` |
| `CommittedWritesAreReported` | | `CommittedIsReported` |
| `LateCancelsAreAnswered` | | `TooLateIsAnswered` |
| `GrantedCancelsHadNoEffect` | | `CancelMeansNoEffect` (*) |
| `OneFinalResponse` | | `AtMostOneFinalResponse` (*) |
| `AbandonedRequestsLeaveNoTrace` | | `AbandonedLeavesNoTrace` (*) |
| `ConnectionKeepsContract` | | `KeepsContract`: the connection implements `OperationContract` (*) |
| `DrainedConnectionsAreAnswered` | | `DrainAnswersEverything` (**) |

(*) under `"saslbind" \notin Kinds`. The hypothesis is finding 2: a request rejected
during a SASL Bind is answered outside the final-response boundary, and run
`conn_sasl_cancel` refutes `AtMostOneFinalResponse` when SASL Binds are admitted. All
else a connection does is included: simple Binds, StartTLS, transactions, persistent
searches, chained writes, lost peers, the idle watcher, drain and forced drain.

(**) under `OnlyDrained`: no other event than a drain (`Events \subseteq {"drain"}`) and
neither SASL Bind nor a StartTLS that may succeed. A drain can only promise answers if nothing else cuts
the connection; a lost peer, the idle watcher, the forced end of the drain and a failed
handshake do exactly that, and a rejection during a SASL Bind is answered outside the
boundary the argument rests on. The other ten kinds of request, Abandon, Cancel and
refusals stay.

*The queue inside the connection.* The steps of `Connection` are sorted by what they
do to the queue (`StepCases`): a reader step that calls one of the queue's methods, a
worker's pop or wait, a completion, or a step that leaves the queue alone. A step of a
handler concerns its own request, its executor and what they publish
(`HandlerStepIsLocal`), which is what makes the number of requests irrelevant.
`BaseInv` is `QueueInv`, the types, `ReaderControl` (the reader's two program counters
agree), `AtMatchesPc` and `RunningExecuted` (each executing request has a goroutine at
a step of `runConnectionOperation`).

*The registry.* `RegisteredAreLive` alone is not inductive: a worker leaves the registry
before it leaves the queue, so `CompletedAreOut` and `LiveAreRegistered` say where in
between it is.

*Sessions.* A Bind or StartTLS changes the session, and the reader waits for it. Hence
nothing is read behind it (`BarrierLive`, `BarrierLast`), and because a fence is alone
nothing executes beside it (`BarrierAlone`, from `FenceExclusive`). So between the
moment a request is read or copies the state, and its end, nobody changes the session
(`ReadInSession`, `CopiedInSession`). The fence rule of the queue and the read barrier
of the reader are each insufficient; the proof uses both.

*Answers.* `RequestInv(o)` says for each stage of a request (new, queued, executed,
done, dropped, refused) how phase, context, stop mode, effect, acknowledgements and
answers agree, and for an executed request what its executor's step adds (`Executed`:
whether the commit point is behind it, whether a final response has been claimed, what
was sent). `Delegated(o)` is the part about other servers: a request that one of them
has or had can no longer be canceled, for the mark is set before it is sent and nothing
takes it back. Six lemmas, one per way in which a step can concern a request
(`RequestCases`: admitted, popped, its own handler, completed, dropped, bystander),
preserve it; a bystander can only be asked to stop. The part that makes the whole
inductive is that a granted Cancel (`op.stop = "canceled"`) excludes every step from
which an effect or an ordinary answer is still possible, although the executor may be
anywhere when the Cancel is read.

*The contract.* The refinement mapping (`Life`, `Answers`, `Granted`) reads the
contract's state off the connection's: an answer is the final write, an effect the
commit or what another server does, handing over the writing of a chained request, a
grant the acknowledgement of a Cancel. `RemoteDecides` maps to the contract's `Decide`
in every state of the request, retired ones included.
Each is a step of the contract because `ConnectionInv` holds before it; every other
step of the connection is a stutter.

*The drain.* A worker leaves only when the queue is closed and empty or the
connection is cut (`ExitReason`); under `OnlyDrained` nobody cuts it before the workers
are gone (`Calm`); and what is dropped from the queue by a Bind has been stopped first
(`BindStops`, `DroppedStopped`). So what was never stopped has run to its answer.

### 4.5 Replication

`SyncReplicationProofs` and `SyncContentProofs` are about any set of servers and links, any entries, log and
channel sizes and fault bounds. Beyond the named assumptions on the constants, three
hypotheses appear in the theorems that need them:

* `NoRelays`: no consumer is a provider itself. A relay moves contexts and tombstones
  of its own database from what another server sends, and republishes a refresh in the
  order of the DNs (3.2), so what follows is not claimed for it.
* `OneWriter`: each server has one client that writes. Publication happens after the
  commit and outside any lock, so two writers can publish against the order of their
  CSNs; the run `replication_reordered` shows what that does, and the session log drops
  the earlier change in the same way.
* `SingleSource`: a consumer has one provider. Two providers have two cookies and write
  the same entries; which of the two a version came from is not in the state.

The instance of `replication` satisfies all three: one provider with one writer, and
one consumer.

| Theorem | Statement | Hypotheses |
|---|---|---|
| `TypeCorrect` | `TypeOK` | none |
| `PersistentSearchMissesNothing` | `PersistMissesNothing` | `NoRelays` |
| `SessionLogAnswersForItsWindow` | `LogAnswersForItsWindow` | `NoRelays`, `OneWriter` |
| `CookiesMeanContent` | `CookieMeansContent` | `NoRelays`, `OneWriter`, `SingleSource` |

*Types.* `TypeInv` adds to `TypeOK` that a search in its read transaction has a view.
The work is in the operators: `Sorted` and `Max` are choices, so a sequence has a type
only once the set is known to be finite and to have a greatest element
(`GreatestNumber`, `SortedFacts`), and every set of CSNs that a refresh or a cookie is
made from must be shown finite (`FiniteImage`).

*The persist phase.* `PersistMissesNothing` is about the persist phase; its reason is
older. The channel is subscribed before the snapshot, so from the moment of the
snapshot (`reading`) on, everything newer is in the channel or with its writer
(`SearchesMissNothing`). CaptureSnapshot establishes it, because the context that the
snapshot reads covers every stored entry and tombstone (`ContextCoversLatest`, from
`CSNsOrdered`); a commit adds a change that its writer holds; Publish moves it into the
channel or closes the channel; PersistChange takes a change out only when it covers it.
No order of publication is needed: the theorem says that nothing *newer than what the
search covers* is missed. That a change published late is covered without having been
sent is the finding of `replication_reordered`, and does not contradict it.

*The session log.* `LogInv` says where a departure can be (`DeparturesKept`): behind
the log's base, in the log, with the writer that has yet to publish it, or it was an
entry added outside the search, the one departure that `append` does not log, and then
nobody has heard of the entry (`AddedOutside`). The last case needs an invariant of its
own about everything that could carry an entry to a consumer, that is stored entries,
views, channels, responses in flight (`NoTrace`, `FreshIsUnknown`). A published change
is never behind the log, because nothing at a provider is ahead of its clock
(`BehindTheClock`) and with one writer the unpublished change is newer than all that was
logged (`NewestUnpublished`). Trimming moves the base past what it drops
(`LogAppendFacts`), a restart starts at a context that covers every departure, so what
was committed and never published is behind the base.

*Cookies and content.* `CookieMeansContent` compares the stored cookie with the stored
entries, and is about the last step of a long way: a change is committed, published into
the session log and the channel, read in a snapshot or replayed from the log, sent, and
applied by a worker that stores the cookie of the response with it. The invariant has to
say what every stage owes to the next one. `ContentInv` is `LogInv` and, for each link,
`LinkOK` of a record with what the provider has (entries, tombstones, context, log,
unpublished changes) and one with what the consumer has (search, cookie, entries):

* `ServerBehind`, `ConsumerBehind`: contexts cover entries, and no cookie, stored or on
  its way, is ahead of the provider's context.
* `ChannelOrdered`: the channel has the provider's own changes in the order of their
  CSNs, all before the unpublished one. This is where `OneWriter` enters: a cookie that
  advances with a late change must not have passed an earlier one.
* `SearchShape`: which responses can be on their way in which phase; after a refresh
  they bring the cookie to the snapshot.
* `ContentOf`, for each entry, in one of two forms. An entry that the search returns at
  version *c* (`InLink`): for every *j*, if the first *j* responses bring the cookie to
  *c* then they, or the consumer's store, have version *c* as well; no response on
  the way deletes it, and a Present phase mentions it (`InStream`). An entry that last
  left the search at *d* (`OutServer`, `OutLink`): the departure is behind the log's
  base, in the log or unpublished; the consumer has a version only as long as its cookie
  is below *d*, and the response with which the cookie reaches *d* is a deletion, or the
  end of a Present phase that did not mention the entry (`OutStream`). In both cases a
  change after the snapshot of a running persistent search is in the channel or with its
  writer, or the channel has overflowed before it (`Follows`).

"After the first *j* responses" is what makes this inductive: each step moves the line
between stored and in flight, and no step changes the whole. The proof has one lemma on
records for each thing that happens to a link (`LinkConnect`, `LinkCapture`,
`LinkRefresh`, `LinkStream`, `LinkSkip`, `LinkWorker`, `LinkDrop`, `LinkFails`,
`LinkCommit`, `LinkPublish`, `LinkRestart`), and one per action that shows that the
action does this to its own link and nothing to the others; `LinkRefresh` has the
three ways to refresh under it, `LinkCommit` the writes. `EntriesOneByOne` (an entry is
sent with its own UUID alone) goes along, so that a worker that applies an entry touches
one entry. `LinkContent` reads the property off with *j* = 0.

`TypeInv`, `PersistInv` and `LogInv` were checked with TLC on instances with one and
two providers before they were proved, `ContentInv` on the instance of `replication`.

### 4.6 What is only model-checked

Liveness under fairness is outside the prover, so `Converges`, `DrainTerminates`,
`ReaderNeverHangs` and `EveryRequestLeavesTheQueue` stay with TLC, and with them every
fact about ENABLED. Every safety invariant of a passing run is stated by a theorem of
sections 4.1 to 4.5. What is not claimed of replication is in the hypotheses: relays,
several writers at one server and several providers of one consumer; the first two fail
for reasons that section 3 describes.

## 5. Hazards and properties

* Fence against workers: `FenceExclusive`, `OrderedFences`, `ActiveCounts`.
* Wakeups: `IdleQueueHasAPopper`, `NoStrandedHeadUnlessFenceDropped`,
  `EveryRequestLeavesTheQueue`; `NoMissedWakeup` in the scheduler.
* Accounting: `BytesConserved`, `ByteLimitsHold`, `BytesReleasedAtClose`,
  `AdmissionPredictsPop`; `PendingIsExact`, `LimitsHold`.
* Cancel, commit, response: `CancelMeansNoEffect`, `CommittedIsReported`,
  `AtMostOneFinalResponse`, `AbandonedLeavesNoTrace`, `TooLateIsAnswered`,
  `KeepsContract`.
* Stale state: `SameSession`, `NothingPassesASASLBind`, `TransactionRunsAlone`.
* End of a connection: `RegistryTracksLiveRequests`, `DrainAnswersEverything`,
  `DrainTerminates`, `ReaderNeverHangs`.
* Load balancing: `SelectionRespectsTiers`, `RoundRobinFair`.
* Replication: `CookieMeansContent` (refresh, log and faults), `LogAnswersForItsWindow`
  (trimming, restarts, commit before publication), `PersistMissesNothing` (refresh
  against persist, overflow), `Converges` (everything together).
* Power loss: `PowerLossKeepsAcknowledged`.

Eight hazards have no property; each has a note in `PROJECT.json` that says why, and
sections 3.2 and 6 say what would be needed.

Every property of a passing run has a mutant in `PROJECT.json`: a definition changed
the way a plausible bug would change the code (named `X_What` beside `X`), under
which TLC finds the property violated.

## 6. Not modelled

* Codec, schema, DN and value normalisation, filters, ACLs, crypto, conversion tools:
  sequential functions of data, covered by the repository's differential tests.
* Monitoring and logging: no influence on control.
* Results of handlers beyond "answered": entry contents, result codes, referrals.
* Message-ID reuse: requests are model values and each is sent once.
* Several connections sharing the operation limiter; the limiter's slots are there
  for one connection.
* Replication among several writable servers, chains of relays, delta-syncrepl and
  changelog consumers, `olcSpNoPresent`, DN conflicts between UUIDs. The model's
  constants allow more nodes and links; the properties are stated for what is checked.
* Most of the repository's lines are data: schema and matching rules, filters, ACLs,
  rewriting, the administration tools and clients, the wire format. They have no
  state of their own that several actors share, so this project models a small share
  of the lines and aims at the parts where order, failure and concurrency decide.

## 7. Plan

1. **Proxy** (composes `Scheduler`): attach, finish, forwarded Cancel, Bind ownership,
   upstream loss and reconnection under the same ID, client disconnect. Abstract
   specification: one answer per client request.
2. **Transaction**: start, queue of updates with its limits, settle, abort by Bind,
   StartTLS or disconnect; atomicity of the commit.
3. Password-policy lockout counters, dynamic-entry expiry against refresh, proxy
   cache expiry, paging snapshots.
4. Replication with two writable providers once publication follows CSN order; the
   session log's activation; delta-syncrepl.
5. Proofs: `CookieMeansContent` for a consumer with several providers, once (4) has
   them.

Runs of one module are merged as modules are added, one run per distinct question.
