-------------------------- MODULE ConnectionProofs --------------------------
(***************************************************************************)
(* Proofs about Connection, first part: the connection uses the operation  *)
(* queue as the queue's specification allows, its state keeps its types, and *)
(* the operation registry knows exactly the live requests.                 *)
(*                                                                         *)
(* The steps of the connection are first sorted by what they do to the queue *)
(* (StepCases) and the handlers' steps shown to concern their own request  *)
(* only (HandlerStepIsLocal); the invariants are then proved case by case  *)
(* from what each kind of step may change.                                 *)
(***************************************************************************)
EXTENDS Connection, OperationQueueProofs

-----------------------------------------------------------------------------
(* The connection's steps are steps of the queue. *)

\* The reader has left serveConnection's loop.
Leaving == {"leave", "drain", "drained", "close", "shutdown", "hangup", "gone"}
\* Nothing is promised to the client any more: the connection is closed or the
\* reader has left the loop.
Quiet == connClosed \/ rpc \in Leaving

\* Where the reader is in serveConnection and what it has in hand agree: it
\* executes a request only in the middle of admitting it, it has a request in
\* hand while it binds, cancels or waits, and the connection's context is canceled
\* only once it is closed or left.
ReaderControl ==
    /\ pc[Reader] \in {"run", "return"} => rpc = "admit"
    /\ rpc \in {"bind", "cancel", "barrier"} => rop \in Ops
    /\ rpc = "admit" => rop \in Ops \/ pc[Reader] \in {"run", "return"}
    /\ connDone => Quiet

\* An executor's step is a step of the queue or leaves the queue alone.
LEMMA ExecuteQueue ==
    ASSUME NEW e \in Executors, Execute(e) \/ Occasional(e)
    PROVE  QueueNext \/ UNCHANGED queueVars
<1>1. CASE CompleteOperation(e) \/ ReturnTrue(e) \/ ReturnFalse(e)
  BY <1>1 DEF CompleteOperation, ReturnTrue, ReturnFalse, QueueNext, ExecutorStep
<1>2. CASE CloneState(e) \/ Acquire(e) \/ Start(e) \/ DispatchReject(e)
           \/ DispatchRead(e) \/ DispatchMeta(e) \/ MetaDone(e) \/ MetaEntry(e)
           \/ DispatchPersist(e) \/ PersistStops(e) \/ PersistOverflows(e)
  BY <1>2 DEF CloneState, Acquire, Start, DispatchReject, DispatchRead, DispatchMeta,
              MetaDone, MetaEntry, DispatchPersist, PersistStops, PersistOverflows
<1>3. CASE DispatchWrite(e) \/ CommitPoint(e) \/ CommitWrite(e) \/ DispatchProxyWrite(e)
           \/ SendRemote(e) \/ AwaitRemote(e) \/ DispatchBind(e) \/ DispatchStartTLS(e)
           \/ Handshake(e) \/ DispatchTransaction(e) \/ DispatchFails(e)
  BY <1>3 DEF DispatchWrite, CommitPoint, CommitWrite, DispatchProxyWrite, SendRemote, AwaitRemote,
              DispatchBind, DispatchStartTLS, Handshake, DispatchTransaction, DispatchFails
<1>4. CASE Respond(e) \/ WriteFinal(e) \/ ResponseLimit(e)
           \/ Post(e) \/ WriteCanceled(e) \/ Finish(e)
  BY <1>4 DEF Respond, WriteFinal, ResponseLimit, Post, WriteCanceled,
              Finish
<1>. QED  BY <1>1, <1>2, <1>3, <1>4 DEF Execute, Occasional

\* The reader's steps, and everything else.
LEMMA ReaderQueue ==
    ASSUME ReaderControl, ReadEnds \/ ClientRequest \/ ReaderProgress \/ ServerEvent
    PROVE  QueueNext \/ UNCHANGED queueVars
<1>1. ASSUME NEW o \in Ops, NEW k, Admit(o, k)
      PROVE  QueueNext
  BY <1>1 DEF Admit, CanRunConcurrent, QueueNext, ReaderStep
<1>2. ASSUME NEW o \in Ops, NEW k, TurnAway(o, k)
      PROVE  QueueNext
  BY <1>2 DEF TurnAway, CanRunConcurrent, QueueNext, ReaderStep
<1>3. R("admit") => rop \in Ops
  BY DEF R, ReaderControl
<1>4. CASE ClientRequest
  <2>1. ASSUME NEW t \in Ops, AbandonQueued(t) PROVE QueueNext
    BY <2>1 DEF AbandonQueued, QueueNext, ReaderStep
  <2>2. ASSUME NEW t \in Ops, AbandonTracked(t) \/ CancelTracked(t)
        PROVE  UNCHANGED queueVars
    BY <2>2 DEF AbandonTracked, CancelTracked
  <2>3. ASSUME NEW o \in Ops, NEW k \in Kinds, ReadBind(o, k) PROVE UNCHANGED queueVars
    BY <2>3 DEF ReadBind
  <2>4. ASSUME NEW o \in Ops, NEW k \in Kinds, ReadRequest(o, k) \/ RefuseRequest(o, k)
        PROVE  QueueNext
    BY <2>4, <1>1, <1>2 DEF ReadRequest, RefuseRequest
  <2>. QED  BY <1>4, <2>1, <2>2, <2>3, <2>4 DEF ClientRequest
<1>5. CASE ReaderProgress
  <2>1. CASE PushBind \/ RefuseBind
    BY <2>1, <1>1, <1>2, <1>3 DEF PushBind, RefuseBind
  <2>2. CASE ClaimBind
    BY <2>2, <1>3 DEF ClaimBind, QueueNext, ReaderStep
  <2>3. CASE BindDiscards
    BY <2>3 DEF BindDiscards, QueueNext, ReaderStep
  <2>4. CASE DrainClose \/ CloseQueue
    BY <2>4 DEF DrainClose, CloseQueue, QueueNext, ReaderStep
  <2>5. CASE \/ ReadNext \/ CancelTargetDone \/ WaitInterrupted \/ BarrierDone
             \/ \E t \in Ops : AbandonForBind(t)
             \/ DrainSweep \/ DrainEnds \/ CancelConnection \/ ShutdownOperations \/ HangUp
    BY <2>5 DEF ReadNext, CancelTargetDone, WaitInterrupted, BarrierDone, AbandonForBind,
                DrainSweep, DrainEnds, CancelConnection, ShutdownOperations, HangUp
  <2>. QED  BY <1>5, <2>1, <2>2, <2>3, <2>4, <2>5 DEF ReaderProgress
<1>6. CASE ReadEnds \/ ServerEvent
  BY <1>6 DEF ReadEnds, ServerEvent, ConnectionLost, IdleCheck, IdleClose, BeginDrain,
              SweepLongLived, ForceOperations, RemoteDecides
<1>. QED  BY <1>4, <1>5, <1>6

\* Every step of the connection is a step of operationQueue or leaves the queue
\* alone: serveConnection and runConnectionOperation use the queue only through
\* its methods, each where its precondition holds.
LEMMA ConnectionStepIsQueueStep ==
    ASSUME ReaderControl, [Next]_vars
    PROVE  [QueueNext]_queueVars
<1>1. ASSUME NEW w \in Workers, WorkerLoop(w) PROVE QueueNext
  BY <1>1 DEF WorkerLoop, PopOperation, PopNothing, QueueNext, WorkerStep
<1>2. CASE UNCHANGED vars
  BY <1>2 DEF vars
<1>. QED  BY <1>1, <1>2, ExecuteQueue, ReaderQueue DEF Next

-----------------------------------------------------------------------------
(* trackedOperation. *)

\* The methods of trackedOperation take records to records.
LEMMA TrackedOperationsClosed ==
    ASSUME NEW r \in TrackedOperations
    PROVE  /\ StartOperation(r) \in TrackedOperations
           /\ RequestAbandon(r) \in TrackedOperations
           /\ RequestBindAbandon(r) \in TrackedOperations
           /\ RequestCancel(r) \in TrackedOperations
           /\ EnableMetaBackendSearch(r) \in TrackedOperations
           /\ ObserveMetaBackendResponse(r) \in TrackedOperations
           /\ BeginFinalResponse(r) \in TrackedOperations
           /\ MarkCommitPoint(r) \in TrackedOperations
           /\ DisableCancellationForRemoteCommit(r) \in TrackedOperations
           /\ FinishOperation(r) \in TrackedOperations
<1>. USE DEF TrackedOperations, Phases, StopModes, Stopped
<1>1. StartOperation(r) \in TrackedOperations
  BY DEF StartOperation
<1>2. RequestAbandon(r) \in TrackedOperations
  BY DEF RequestAbandon
<1>3. RequestBindAbandon(r) \in TrackedOperations
  BY DEF RequestBindAbandon
<1>4. RequestCancel(r) \in TrackedOperations
  BY DEF RequestCancel
<1>5. EnableMetaBackendSearch(r) \in TrackedOperations
  BY DEF EnableMetaBackendSearch
<1>6. ObserveMetaBackendResponse(r) \in TrackedOperations
  BY DEF ObserveMetaBackendResponse
<1>7. BeginFinalResponse(r) \in TrackedOperations
  BY DEF BeginFinalResponse
<1>8. MarkCommitPoint(r) \in TrackedOperations
  BY DEF MarkCommitPoint
<1>9. DisableCancellationForRemoteCommit(r) \in TrackedOperations
  BY DEF DisableCancellationForRemoteCommit
<1>10. FinishOperation(r) \in TrackedOperations
  BY DEF FinishOperation
<1>. QED  BY <1>1, <1>2, <1>3, <1>4, <1>5, <1>6, <1>7, <1>8, <1>9, <1>10

\* So does newTrackedOperation.
LEMMA NewTrackedOperationType ==
    ASSUME NEW a \in BOOLEAN, NEW b \in BOOLEAN, NEW c \in BOOLEAN
    PROVE  NewTrackedOperation(a, b, c) \in TrackedOperations
BY DEF NewTrackedOperation, TrackedOperations, Phases, StopModes

\* fields
LEMMA AbandonFields ==
    ASSUME NEW r \in TrackedOperations, NEW a, a = RequestAbandon(r) \/ a = RequestBindAbandon(r)
    PROVE  /\ a \in TrackedOperations
           /\ a.phase = r.phase /\ a.cancelable = r.cancelable
           /\ a.abandonable = r.abandonable /\ a.longLived = r.longLived
           /\ a.metaSearch = r.metaSearch /\ a.metaSeen = r.metaSeen
           /\ a.metaCompletes = r.metaCompletes
           /\ \/ a = r
              \/ r.stop = "running" /\ a.stop = "abandoned" /\ a.ctx = TRUE /\ ~PastFinal(r)
                 /\ (a = RequestAbandon(r) => r.abandonable)
BY DEF TrackedOperations, Phases, StopModes, Stopped, RequestAbandon, RequestBindAbandon

\* requestCancel stops a running request, or only cancels the context of a meta
\* search that has relayed an entry, or changes nothing.
LEMMA CancelFields ==
    ASSUME NEW r \in TrackedOperations, NEW c, c = RequestCancel(r)
    PROVE  /\ c \in TrackedOperations
           /\ c.phase = r.phase /\ c.cancelable = r.cancelable
           /\ c.abandonable = r.abandonable /\ c.longLived = r.longLived
           /\ c.metaSearch = r.metaSearch /\ c.metaSeen = r.metaSeen
           /\ CancelResult(r) = "success" =>
                 /\ c.stop = "canceled" /\ r.stop = "running" /\ r.cancelable
                 /\ r.phase = "executing" /\ ~PastFinal(r) /\ ~(r.metaSearch /\ r.metaSeen)
           /\ CancelResult(r) # "success" => c.stop = r.stop
           /\ CancelResult(r) = "tooLate" =>
                 /\ r.cancelable
                 /\ \/ PastFinal(r)
                    \/ r.phase = "executing" /\ r.stop = "running" /\ r.metaSeen /\ c.metaCompletes
           /\ CancelResult(r) \in {"success", "tooLate", "cannotCancel", "operationsError"}
           /\ r.metaCompletes => c.metaCompletes
           /\ c.metaCompletes => r.metaCompletes \/ r.metaSeen
           /\ c.ctx => r.ctx \/ c.stop # "running" \/ c.metaCompletes
<1>. USE DEF TrackedOperations, Phases, StopModes, Stopped, RequestCancel, CancelResult, PastFinal
<1>1. CASE ~r.cancelable \/ r.phase = "pending"
  BY <1>1
<1>2. CASE r.cancelable /\ r.phase \in {"finalizing", "complete"}
  BY <1>2
<1>3. CASE r.cancelable /\ r.phase = "executing" /\ r.stop # "running"
  BY <1>3
<1>4. CASE r.cancelable /\ r.phase = "executing" /\ r.stop = "running" /\ ~(r.metaSearch /\ r.metaSeen)
  BY <1>4
<1>5. CASE r.cancelable /\ r.phase = "executing" /\ r.stop = "running" /\ (r.metaSearch /\ r.metaSeen)
  BY <1>5
<1>. QED BY <1>1, <1>2, <1>3, <1>4, <1>5

-----------------------------------------------------------------------------
(* What the queue's operations do, seen from the connection. *)

\* Only the executor e, if any, starts or stops executing.
LEMMA NotRunningElsewhere ==
    ASSUME QueueInv
    PROVE  /\ \A e \in Executors : pc[e] = "run" => exec[e] \in Ops /\ status[exec[e]] = "running"
           /\ \A e, f \in Executors : pc[e] = "run" /\ exec[e] = exec[f] => e = f
           /\ \A e \in Executors : pc[e] # "run" => exec[e] = NoOp
           /\ Reader \in Executors /\ \A w \in Workers : w \in Executors /\ w # Reader
BY WorkersAssumption DEF QueueInv, QueueTypeOK, ExecConsistent, Executors

\* No executor changes what it does.
SameExecutors ==
    /\ \A e \in Executors : exec'[e] = exec[e]
    /\ \A e \in Executors : pc'[e] = "run" <=> pc[e] = "run"

\* Waking the waiting workers changes no executor's request.
LEMMA WakeEffect ==
    ASSUME QueueInv, pc' \in Signalled \/ pc' = pc \/ pc' = Broadcast
    PROVE  /\ \A e \in Executors : pc'[e] = "run" <=> pc[e] = "run"
           /\ \A e \in Executors : pc'[e] = "return" <=> pc[e] = "return"
           /\ pc'[Reader] = pc[Reader]
<1>1. ASSUME NEW W \in SUBSET Waiters, pc' = WakeUp(W)
      PROVE  /\ \A e \in Executors : pc'[e] = "run" <=> pc[e] = "run"
             /\ \A e \in Executors : pc'[e] = "return" <=> pc[e] = "return"
             /\ pc'[Reader] = pc[Reader]
  BY <1>1, WorkersAssumption DEF WakeUp, Waiters, Executors
<1>2. CASE pc' \in Signalled
  <2>1. CASE Waiters = {}
    BY <1>2, <2>1 DEF Signalled
  <2>2. CASE Waiters # {}
    <3>1. PICK w \in Waiters : pc' = WakeUp({w})
      BY <1>2, <2>2 DEF Signalled
    <3>. QED  BY <3>1, <1>1
  <2>. QED  BY <2>1, <2>2
<1>3. CASE pc' = Broadcast
  BY <1>3, <1>1 DEF Broadcast
<1>. QED  BY <1>2, <1>3

\* pop: w starts the head of the queue.
LEMMA PopEffect ==
    ASSUME QueueInv, NEW w \in Workers, Pop(w)
    PROVE  /\ Head(items) \in Ops /\ status[Head(items)] = "queued"
           /\ items # <<>> /\ items[1] = Head(items) /\ items' = Tail(items)
           /\ w \in Executors /\ w # Reader /\ pc[w] = "pop" /\ exec[w] = NoOp
           /\ pc'[w] = "run" /\ exec'[w] = Head(items)
           /\ \A e \in Executors : e # w => pc'[e] = pc[e] /\ exec'[e] = exec[e]
           /\ status'[Head(items)] = "running"
           /\ \A p \in Ops : p # Head(items) => status'[p] = status[p]
           /\ UNCHANGED conc
<1>1. /\ items \in Seq(Ops) /\ items # <<>> /\ status \in [Ops -> Statuses]
      /\ pc \in [Executors -> WorkerStates \cup ReaderStates]
      /\ exec \in [Executors -> Ops \cup {NoOp}] /\ pc[w] = "pop"
  BY DEF QueueInv, QueueTypeOK, Pop, HeadEligible
<1>2. Head(items) \in Ops /\ Head(items) = items[1] /\ 1 \in 1..Len(items)
  BY <1>1
<1>3. status[Head(items)] = "queued"
  BY <1>2 DEF QueueInv, ItemsConsistent
<1>4. w \in Executors /\ w # Reader /\ exec[w] = NoOp
  BY <1>1, NotRunningElsewhere
<1>5. UNCHANGED conc /\ items' = Tail(items)
  BY DEF Pop
<1>6. /\ pc' = [pc EXCEPT ![w] = "run"]
      /\ exec' = [exec EXCEPT ![w] = Head(items)]
      /\ status' = [status EXCEPT ![Head(items)] = "running"]
  BY DEF Pop
<1>. QED  BY <1>1, <1>2, <1>3, <1>4, <1>5, <1>6

\* complete: e is done with its request.
LEMMA CompleteEffect ==
    ASSUME QueueInv, NEW e \in Executors, Complete(e)
    PROVE  /\ pc[e] = "run" /\ exec[e] \in Ops /\ status[exec[e]] = "running"
           /\ pc'[e] = "return" /\ exec'[e] = NoOp
           /\ \A f \in Executors : f # e =>
                 exec'[f] = exec[f] /\ (pc'[f] = "run" <=> pc[f] = "run")
           /\ e # Reader => pc'[Reader] = pc[Reader]
           /\ status'[exec[e]] = "done"
           /\ \A p \in Ops : p # exec[e] => status'[p] = status[p]
           /\ UNCHANGED <<conc, items>>
<1>1. /\ status \in [Ops -> Statuses] /\ exec \in [Executors -> Ops \cup {NoOp}]
      /\ pc \in [Executors -> WorkerStates \cup ReaderStates]
  BY DEF QueueInv, QueueTypeOK
<1>2. pc[e] = "run" /\ exec[e] \in Ops /\ status[exec[e]] = "running"
  BY NotRunningElsewhere DEF Complete
<1>3. PICK q \in CompleteWakes : pc' = [q EXCEPT ![e] = "return"]
  BY DEF Complete
<1>4. /\ q \in [Executors -> WorkerStates \cup ReaderStates]
      /\ \A f \in Executors : q[f] = "run" <=> pc[f] = "run"
      /\ q[Reader] = pc[Reader]
  <2>1. q = Broadcast \/ q = pc
    BY <1>3 DEF CompleteWakes
  <2>. QED  BY <2>1, <1>1, WorkersAssumption
            DEF Broadcast, WakeUp, Waiters, Executors, WorkerStates
<1>5. /\ exec' = [exec EXCEPT ![e] = NoOp]
      /\ status' = [status EXCEPT ![exec[e]] = "done"]
      /\ UNCHANGED <<conc, items>>
  BY DEF Complete
<1>6. /\ pc'[e] = "return"
      /\ \A f \in Executors : f # e => (pc'[f] = "run" <=> pc[f] = "run")
      /\ e # Reader => pc'[Reader] = pc[Reader]
  BY <1>3, <1>4, NotRunningElsewhere
<1>. QED  BY <1>1, <1>2, <1>5, <1>6

\* push and the refusal to push.
LEMMA PushEffect ==
    ASSUME QueueInv, NEW o \in Ops, NEW c \in BOOLEAN, Push(o, c)
    PROVE  /\ SameExecutors /\ pc[Reader] = "read" /\ pc'[Reader] = "read"
           /\ status[o] = "new" /\ status'[o] = "queued"
           /\ \A p \in Ops : p # o => status'[p] = status[p] /\ conc'[p] = conc[p]
           /\ conc'[o] = c
           /\ items' = Append(items, o)
<1>1. status \in [Ops -> Statuses] /\ conc \in [Ops -> BOOLEAN]
  BY DEF QueueInv, QueueTypeOK
<1>2. SameExecutors /\ pc'[Reader] = pc[Reader]
  BY WakeEffect DEF Push, PushWakes, SameExecutors
<1>. QED  BY <1>1, <1>2 DEF Push

\* push turns a request away: it is refused, and nothing else changes status.
LEMMA RefuseEffect ==
    ASSUME QueueInv, NEW o \in Ops, NEW c \in BOOLEAN, Refuse(o, c)
    PROVE  /\ SameExecutors /\ pc[Reader] = "read" /\ pc'[Reader] = "stop"
           /\ status[o] = "new" /\ status'[o] = "refused"
           /\ \A p \in Ops : p # o => status'[p] = status[p] /\ conc'[p] = conc[p]
           /\ conc'[o] = c
           /\ UNCHANGED items
<1>1. /\ status \in [Ops -> Statuses] /\ conc \in [Ops -> BOOLEAN]
      /\ pc \in [Executors -> WorkerStates \cup ReaderStates]
  BY DEF QueueInv, QueueTypeOK
<1>2. SameExecutors /\ pc'[Reader] = "stop"
  BY <1>1, NotRunningElsewhere DEF Refuse, SameExecutors
<1>. QED  BY <1>1, <1>2 DEF Refuse

\* tryClaimIdleSimpleBind: the reader starts o.
LEMMA ClaimEffect ==
    ASSUME QueueInv, NEW o \in Ops, TryClaimIdleSimpleBind(o)
    PROVE  /\ pc[Reader] = "read" /\ exec[Reader] = NoOp
           /\ pc'[Reader] = "run" /\ exec'[Reader] = o
           /\ \A e \in Executors : e # Reader => pc'[e] = pc[e] /\ exec'[e] = exec[e]
           /\ status[o] = "new" /\ status'[o] = "running"
           /\ \A p \in Ops : p # o => status'[p] = status[p] /\ conc'[p] = conc[p]
           /\ conc'[o] = FALSE
           /\ items = <<>> /\ items' = <<>> /\ active = 0
<1>1. /\ status \in [Ops -> Statuses] /\ conc \in [Ops -> BOOLEAN]
      /\ pc \in [Executors -> WorkerStates \cup ReaderStates]
      /\ exec \in [Executors -> Ops \cup {NoOp}]
  BY DEF QueueInv, QueueTypeOK
<1>. QED  BY <1>1, NotRunningElsewhere DEF TryClaimIdleSimpleBind

\* remove: one queued request is dropped.
LEMMA RemoveEffect ==
    ASSUME QueueInv, NEW i \in 1..Len(items), RemoveQueued(i)
    PROVE  /\ SameExecutors /\ pc'[Reader] = pc[Reader]
           /\ items[i] \in Ops /\ status[items[i]] = "queued"
           /\ status'[items[i]] = "dropped"
           /\ \A p \in Ops : p # items[i] => status'[p] = status[p]
           /\ UNCHANGED conc
<1>1. status \in [Ops -> Statuses] /\ items \in Seq(Ops)
  BY DEF QueueInv, QueueTypeOK
<1>2. items[i] \in Ops /\ status[items[i]] = "queued"
  BY <1>1 DEF QueueInv, ItemsConsistent
<1>3. SameExecutors /\ pc'[Reader] = pc[Reader]
  BY WakeEffect DEF RemoveQueued, SameExecutors
<1>4. status' = [status EXCEPT ![items[i]] = "dropped"] /\ UNCHANGED conc
  BY DEF RemoveQueued
<1>. QED  BY <1>1, <1>2, <1>3, <1>4

\* items holds the queued requests.
LEMMA QueuedAreItems ==
    ASSUME QueueInv
    PROVE  /\ ToSet(items) \subseteq Ops
           /\ \A o \in Ops : o \in ToSet(items) <=> status[o] = "queued"
<1>1. items \in Seq(Ops)
  BY DEF QueueInv, QueueTypeOK
<1>2. \A o : o \in ToSet(items) <=> \E i \in 1..Len(items) : items[i] = o
  BY <1>1 DEF ToSet
<1>. QED  BY <1>1, <1>2 DEF QueueInv, ItemsConsistent

\* discardPending and close: every queued request is dropped.
DropsQueued ==
    /\ \A p \in Ops : status'[p] = IF status[p] = "queued" THEN "dropped" ELSE status[p]
    /\ items' = <<>>
    /\ UNCHANGED conc

\* discardPending does so and moves no executor.
LEMMA DiscardEffect ==
    ASSUME QueueInv, DiscardPending
    PROVE  SameExecutors /\ pc'[Reader] = pc[Reader] /\ DropsQueued
<1>1. SameExecutors /\ pc'[Reader] = pc[Reader]
  BY WakeEffect DEF DiscardPending, SameExecutors
<1>. QED  BY <1>1, QueuedAreItems DEF DiscardPending, DropAll, DropsQueued

\* close and closeAndDrain wake the workers; close also drops what is queued.
LEMMA CloseEffect ==
    ASSUME QueueInv, Close \/ CloseAndDrain
    PROVE  /\ SameExecutors /\ pc[Reader] \in {"read", "stop"} /\ pc'[Reader] = "closed"
           /\ \A e \in Executors : pc'[e] = "return" <=> pc[e] = "return"
           /\ Close => DropsQueued
           /\ CloseAndDrain => UNCHANGED <<status, items, conc>>
<1>1. /\ pc \in [Executors -> WorkerStates \cup ReaderStates]
      /\ pc' = [Broadcast EXCEPT ![Reader] = "closed"]
      /\ pc[Reader] \in {"read", "stop"} /\ exec' = exec
  BY DEF QueueInv, QueueTypeOK, Close, CloseAndDrain
<1>2. SameExecutors /\ pc'[Reader] = "closed"
      /\ \A e \in Executors : pc'[e] = "return" <=> pc[e] = "return"
  BY <1>1, WorkersAssumption DEF SameExecutors, Broadcast, WakeUp, Waiters, Executors
<1>3. Close => DropsQueued
  BY QueuedAreItems DEF Close, DropAll, DropsQueued
<1>4. CloseAndDrain => UNCHANGED <<status, items, conc>>
  BY DEF CloseAndDrain
<1>. QED  BY <1>1, <1>2, <1>3, <1>4

\* The steps that only move one goroutine between waiting, popping, reading.
LEMMA MoveEffect ==
    ASSUME QueueInv, NEW e \in Executors,
           \/ e \in Workers /\ (PopWait(e) \/ PopExit(e))
           \/ Continue(e) \/ GiveUp(e)
    PROVE  /\ SameExecutors /\ pc[e] # "run"
           /\ \A f \in Executors : f # e => pc'[f] = pc[f]
           /\ pc'[e] \notin {"run", "return"}
           /\ UNCHANGED <<status, items, conc>>
<1>1. pc \in [Executors -> WorkerStates \cup ReaderStates]
  BY DEF QueueInv, QueueTypeOK
<1>. QED  BY <1>1, NotRunningElsewhere
          DEF PopWait, PopExit, Continue, GiveUp, SameExecutors

-----------------------------------------------------------------------------
(* Types.  TypeOK in the groups in which the actions leave variables alone. *)

\* The records and the registry.
LifeTypes == op \in [Ops -> TrackedOperations] /\ registry \in SUBSET Ops
\* What has been written, committed and acknowledged.
WireTypes ==
    /\ sent \in [Ops -> Seq({"result", "canceled"})]
    /\ committed \in SUBSET Ops
    /\ remote \in SUBSET Ops /\ applied \in SUBSET Ops
    /\ acked \in [Ops -> SUBSET {"success", "tooLate"}]
\* Where the executors are.
ExecTypes ==
    /\ at \in [Executors -> ExecutorSteps]
    /\ out \in [Executors -> {"ok", "err"}]
    /\ snap \in [Executors -> Nat]
\* The session.
SessionTypes ==
    /\ session \in Nat
    /\ sasl \in BOOLEAN /\ txn \in BOOLEAN /\ txnAdm \in BOOLEAN
\* The reader.
ReaderTypes ==
    /\ kind \in [Ops -> AllKinds \cup {"none"}]
    /\ readIn \in [Ops -> Nat]
    /\ rpc \in ReaderSteps
    /\ rop \in Ops \cup {NoOp}
    /\ rset \in SUBSET Ops
    /\ completion \in {"none", "ok", "err"}
\* The end of the connection.
EndTypes ==
    /\ connDone \in BOOLEAN /\ connClosed \in BOOLEAN
    /\ draining \in BOOLEAN /\ swept \in BOOLEAN
    /\ idle \in {"watching", "closing", "done"}

\* TypeOK is the conjunction of the groups and the queue's own type invariant.
LEMMA TypeGroups ==
    TypeOK <=> /\ QueueTypeOK /\ LifeTypes /\ WireTypes /\ ExecTypes
               /\ SessionTypes /\ ReaderTypes /\ EndTypes
BY DEF TypeOK, LifeTypes, WireTypes, ExecTypes, SessionTypes, ReaderTypes, EndTypes

\* A group whose variables do not change keeps its types.
LEMMA TypeFrames ==
    /\ LifeTypes /\ UNCHANGED lifeVars => LifeTypes'
    /\ WireTypes /\ UNCHANGED wireVars => WireTypes'
    /\ ExecTypes /\ UNCHANGED execVars => ExecTypes'
    /\ SessionTypes /\ UNCHANGED sessionVars => SessionTypes'
    /\ ReaderTypes /\ UNCHANGED readerVars => ReaderTypes'
    /\ EndTypes /\ UNCHANGED endVars => EndTypes'
<1>1. LifeTypes /\ UNCHANGED lifeVars => LifeTypes'
  BY DEF LifeTypes, lifeVars
<1>2. WireTypes /\ UNCHANGED wireVars => WireTypes'
  BY DEF WireTypes, wireVars, remoteVars
<1>3. ExecTypes /\ UNCHANGED execVars => ExecTypes'
  BY DEF ExecTypes, execVars
<1>4. SessionTypes /\ UNCHANGED sessionVars => SessionTypes'
  BY DEF SessionTypes, sessionVars
<1>5. ReaderTypes /\ UNCHANGED readerVars => ReaderTypes'
  BY DEF ReaderTypes, readerVars
<1>6. EndTypes /\ UNCHANGED endVars => EndTypes'
  BY DEF EndTypes, endVars
<1>. QED  BY <1>1, <1>2, <1>3, <1>4, <1>5, <1>6

\* After dispatch, by the way the request was stopped.
LEMMA PostCases ==
    ASSUME QueueInv, LifeTypes, NEW e \in Executors, Post(e)
    PROVE  /\ S(e, "post") /\ exec[e] \in Ops
           /\ UNCHANGED <<session, sasl, txn, snap, queueVars, lifeVars, wireVars, readerVars, endVars>>
           /\ txnAdm' = (IF conc[exec[e]] THEN txnAdm ELSE txn)
           /\ \/ op[exec[e]].stop = "running" /\ Goto(e, "finish") /\ UNCHANGED out
              \/ op[exec[e]].stop = "abandoned" /\ Goto(e, "finish") /\ out' = [out EXCEPT ![e] = "ok"]
              \/ op[exec[e]].stop = "canceled" /\ Goto(e, "canceled") /\ UNCHANGED out
<1>1. S(e, "post") /\ exec[e] \in Ops
  BY NotRunningElsewhere DEF Post, S
<1>2. op[exec[e]].stop \in {"running", "abandoned", "canceled"}
  BY <1>1 DEF LifeTypes, TrackedOperations, StopModes
<1>3. CASE op[exec[e]].stop = "running"
  BY <1>1, <1>3 DEF Post
<1>4. CASE op[exec[e]].stop = "abandoned"
  BY <1>1, <1>4 DEF Post
<1>5. CASE op[exec[e]].stop = "canceled"
  BY <1>1, <1>5 DEF Post
<1>. QED  BY <1>2, <1>3, <1>4, <1>5

\* The program counter of an executor.
LEMMA ExecuteExecTypes ==
    ASSUME QueueInv, LifeTypes, ExecTypes, SessionTypes,
           NEW e \in Executors, Execute(e) \/ Occasional(e)
    PROVE  ExecTypes'
<1>1. CASE CloneState(e) \/ CompleteOperation(e)
  BY <1>1 DEF CloneState, CompleteOperation, Goto, ExecTypes, ExecutorSteps, SlotSteps, SessionTypes
<1>2. CASE Acquire(e) \/ Start(e) \/ DispatchReject(e) \/ DispatchRead(e) \/ DispatchMeta(e)
           \/ MetaDone(e) \/ DispatchPersist(e) \/ PersistStops(e) \/ PersistOverflows(e)
  BY <1>2 DEF Acquire, Start, DispatchReject, DispatchRead, DispatchMeta,
              MetaDone, DispatchPersist, PersistStops, PersistOverflows,
              Goto, Returns, ExecTypes, ExecutorSteps, SlotSteps
<1>3. CASE DispatchWrite(e) \/ CommitPoint(e) \/ CommitWrite(e) \/ DispatchProxyWrite(e)
           \/ SendRemote(e) \/ AwaitRemote(e) \/ DispatchBind(e) \/ DispatchStartTLS(e)
           \/ Handshake(e) \/ DispatchTransaction(e) \/ DispatchFails(e)
  BY <1>3 DEF DispatchWrite, CommitPoint, CommitWrite, DispatchProxyWrite, SendRemote, AwaitRemote,
              DispatchBind, DispatchStartTLS, Handshake, DispatchTransaction, DispatchFails,
              Goto, Returns, ExecTypes, ExecutorSteps, SlotSteps
<1>4. CASE Respond(e) \/ WriteFinal(e) \/ ResponseLimit(e)
           \/ WriteCanceled(e) \/ Finish(e)
  BY <1>4 DEF Respond, WriteFinal, ResponseLimit, WriteCanceled,
              Finish, Goto, Returns, ExecTypes, ExecutorSteps, SlotSteps
<1>5. CASE MetaEntry(e) \/ ReturnTrue(e) \/ ReturnFalse(e)
  BY <1>5, TypeFrames DEF MetaEntry, ReturnTrue, ReturnFalse
<1>6. CASE Post(e)
  <2>1. /\ UNCHANGED snap
        /\ \E s \in {"finish", "canceled"} : Goto(e, s)
        /\ \E r \in {"ok", "err"} : out' = out \/ out' = [out EXCEPT ![e] = r]
    BY <1>6, PostCases DEF ExecTypes
  <2>. QED  BY <2>1 DEF Goto, ExecTypes, ExecutorSteps, SlotSteps
<1>. QED  BY <1>1, <1>2, <1>3, <1>4, <1>5, <1>6 DEF Execute, Occasional

-----------------------------------------------------------------------------
(* The steps of a request's execution. *)

\* The executor steps between pop and complete.
HandlerStep(e) ==
    \/ CloneState(e) \/ Acquire(e) \/ Start(e) \/ DispatchReject(e)
    \/ DispatchRead(e) \/ DispatchMeta(e) \/ MetaEntry(e) \/ MetaDone(e)
    \/ DispatchPersist(e) \/ PersistStops(e) \/ PersistOverflows(e) \/ DispatchWrite(e)
    \/ CommitPoint(e) \/ CommitWrite(e) \/ DispatchProxyWrite(e) \/ SendRemote(e)
    \/ AwaitRemote(e) \/ DispatchBind(e) \/ DispatchFails(e) \/ DispatchStartTLS(e)
    \/ Handshake(e) \/ DispatchTransaction(e)
    \/ Respond(e) \/ WriteFinal(e) \/ ResponseLimit(e)
    \/ Post(e) \/ WriteCanceled(e) \/ Finish(e)

\* An executor's step is a handler step or one of the steps that end an
\* execution.
LEMMA ExecutorStepCases ==
    ASSUME NEW e, Execute(e) \/ Occasional(e)
    PROVE  HandlerStep(e) \/ CompleteOperation(e) \/ ReturnTrue(e) \/ ReturnFalse(e)
BY DEF Execute, Occasional, HandlerStep

\* A handler step of e concerns e and its request only.
LocalTo(e) ==
    /\ pc[e] = "run" /\ exec[e] \in Ops
    /\ UNCHANGED <<queueVars, readerVars, endVars, acked, applied>>
    /\ \A f \in Executors : f # e => at'[f] = at[f] /\ out'[f] = out[f] /\ snap'[f] = snap[f]
    /\ \A p \in Ops : p # exec[e] =>
          /\ op'[p] = op[p] /\ sent'[p] = sent[p]
          /\ (p \in committed' <=> p \in committed) /\ (p \in registry' <=> p \in registry)
          /\ (p \in remote' <=> p \in remote)

\* runConnectionOperation works on its own request: a handler step of e changes
\* no other executor and the record, the responses and the effects of no other
\* request.
LEMMA HandlerStepIsLocal ==
    ASSUME QueueInv, LifeTypes, WireTypes, ExecTypes, NEW e \in Executors, HandlerStep(e)
    PROVE  LocalTo(e)
<1>0. pc[e] = "run" => exec[e] \in Ops
  BY NotRunningElsewhere
<1>. USE <1>0 DEF LocalTo, S, At, LifeTypes, WireTypes, ExecTypes, lifeVars, wireVars, remoteVars, execVars
<1>1. CASE CloneState(e)
  BY <1>1 DEF CloneState, Goto
<1>2. CASE Acquire(e)
  BY <1>2 DEF Acquire, Goto
<1>3. CASE Start(e)
  BY <1>3 DEF Start, Goto
<1>4. CASE DispatchReject(e)
  BY <1>4 DEF DispatchReject, Goto
<1>5. CASE DispatchRead(e)
  BY <1>5 DEF DispatchRead, Goto, Returns
<1>6. CASE DispatchMeta(e)
  BY <1>6 DEF DispatchMeta, Goto
<1>7. CASE MetaEntry(e)
  BY <1>7 DEF MetaEntry
<1>8. CASE MetaDone(e)
  BY <1>8 DEF MetaDone, Goto
<1>9. CASE DispatchPersist(e)
  BY <1>9 DEF DispatchPersist, Goto
<1>10. CASE PersistStops(e)
  BY <1>10 DEF PersistStops, Returns
<1>11. CASE PersistOverflows(e)
  BY <1>11 DEF PersistOverflows, Goto
<1>12. CASE DispatchWrite(e)
  BY <1>12 DEF DispatchWrite, Goto
<1>13. CASE CommitPoint(e)
  BY <1>13 DEF CommitPoint, Goto
<1>14. CASE CommitWrite(e)
  BY <1>14 DEF CommitWrite, Goto
<1>15. CASE DispatchProxyWrite(e)
  BY <1>15 DEF DispatchProxyWrite, Goto
<1>16. CASE SendRemote(e) \/ AwaitRemote(e)
  BY <1>16 DEF SendRemote, AwaitRemote, Goto
<1>17. CASE DispatchBind(e)
  BY <1>17 DEF DispatchBind, Goto
<1>18. CASE DispatchStartTLS(e)
  BY <1>18 DEF DispatchStartTLS, Goto
<1>19. CASE Handshake(e)
  BY <1>19 DEF Handshake, Returns
<1>20. CASE DispatchTransaction(e)
  BY <1>20 DEF DispatchTransaction, Goto
<1>21. CASE Respond(e)
  BY <1>21 DEF Respond, Goto, Returns
<1>22. CASE WriteFinal(e)
  BY <1>22 DEF WriteFinal, Goto, Returns
<1>23. CASE ResponseLimit(e)
  BY <1>23 DEF ResponseLimit, Goto
<1>24. CASE DispatchFails(e)
  BY <1>24 DEF DispatchFails, Goto
<1>25. CASE Post(e)
  BY <1>25, PostCases DEF Goto
<1>26. CASE WriteCanceled(e)
  BY <1>26 DEF WriteCanceled, Goto
<1>27. CASE Finish(e)
  BY <1>27 DEF Finish, Goto, FinishAll
<1>. QED
  BY <1>1, <1>2, <1>3, <1>4, <1>5, <1>6, <1>7, <1>8, <1>9, <1>10, <1>11, <1>12, <1>13, <1>14, <1>15, <1>16, <1>17, <1>18, <1>19, <1>20, <1>21, <1>22, <1>23, <1>24, <1>25, <1>26, <1>27
     DEF HandlerStep

\* Handler steps keep the types.
LEMMA HandlerTypes ==
    ASSUME QueueInv, LifeTypes, WireTypes, ExecTypes, SessionTypes, ReaderTypes, EndTypes,
           NEW e \in Executors, HandlerStep(e)
    PROVE  LifeTypes' /\ WireTypes' /\ SessionTypes' /\ ReaderTypes' /\ EndTypes'
<1>1. LocalTo(e) /\ exec[e] \in Ops /\ op[exec[e]] \in TrackedOperations
  BY HandlerStepIsLocal, NotRunningElsewhere DEF LocalTo, LifeTypes
<1>2. ReaderTypes' /\ EndTypes'
  BY <1>1, TypeFrames DEF LocalTo
<1>3. LifeTypes'
  <2>1. CASE UNCHANGED lifeVars
    BY <2>1, TypeFrames
  <2>2. CASE \E r \in TrackedOperations :
               op' = [op EXCEPT ![exec[e]] = r] /\ registry' \subseteq registry
    BY <2>2, <1>1 DEF LifeTypes
  <2>3. CASE Start(e) \/ DispatchMeta(e) \/ MetaEntry(e) \/ CommitPoint(e)
             \/ SendRemote(e) \/ Respond(e)
    <3>1. \/ UNCHANGED op
          \/ op' = [op EXCEPT ![exec[e]] = StartOperation(@)]
          \/ op' = [op EXCEPT ![exec[e]] = EnableMetaBackendSearch(@)]
          \/ op' = [op EXCEPT ![exec[e]] = ObserveMetaBackendResponse(@)]
          \/ op' = [op EXCEPT ![exec[e]] = MarkCommitPoint(@)]
          \/ op' = [op EXCEPT ![exec[e]] = DisableCancellationForRemoteCommit(@)]
          \/ op' = [op EXCEPT ![exec[e]] = BeginFinalResponse(@)]
      BY <2>3 DEF Start, DispatchMeta, MetaEntry, CommitPoint, SendRemote, Respond
    <3>2. UNCHANGED registry
      BY <2>3 DEF Start, DispatchMeta, MetaEntry, CommitPoint, SendRemote, Respond
    <3>. QED  BY <3>1, <3>2, <2>1, <2>2, <1>1, TrackedOperationsClosed DEF lifeVars
  <2>4. CASE Finish(e)
    <3>1. /\ registry' = registry \ {exec[e]}
          /\ op' = [o \in Ops |-> IF o \in {exec[e]} THEN FinishOperation(op[o]) ELSE op[o]]
      BY <2>4 DEF Finish, FinishAll
    <3>2. FinishOperation(op[exec[e]]) \in TrackedOperations
      BY <1>1, TrackedOperationsClosed
    <3>. QED  BY <3>1, <3>2 DEF LifeTypes
  <2>5. \/ UNCHANGED lifeVars \/ Finish(e)
        \/ Start(e) \/ DispatchMeta(e) \/ MetaEntry(e) \/ CommitPoint(e)
        \/ SendRemote(e) \/ Respond(e)
    <3>1. CASE Post(e)
      BY <3>1, PostCases
    <3>. QED
    BY <3>1 DEF HandlerStep, CloneState, Acquire, DispatchReject, DispatchRead, MetaDone,
           DispatchPersist, PersistStops, PersistOverflows, DispatchWrite, CommitWrite,
           DispatchProxyWrite, AwaitRemote, DispatchBind, DispatchFails, DispatchStartTLS,
           Handshake, DispatchTransaction, WriteFinal, ResponseLimit, WriteCanceled
  <2>. QED  BY <2>1, <2>3, <2>4, <2>5
<1>4. WireTypes'
  <2>1. UNCHANGED acked
    BY <1>1 DEF LocalTo
  <2>2. \/ UNCHANGED wireVars
        \/ WriteFinal(e) \/ WriteCanceled(e) \/ CommitWrite(e) \/ SendRemote(e)
    <3>1. CASE Post(e)
      BY <3>1, PostCases
    <3>. QED
    BY <3>1 DEF HandlerStep, CloneState, Acquire, Start, DispatchReject, DispatchRead,
           DispatchMeta, MetaEntry, MetaDone, DispatchPersist, PersistStops, PersistOverflows,
           DispatchWrite, CommitPoint, DispatchProxyWrite, AwaitRemote, DispatchBind,
           DispatchFails, DispatchStartTLS, Handshake, DispatchTransaction, Respond, ResponseLimit, Finish
  <2>3. CASE WriteFinal(e) \/ WriteCanceled(e)
    <3>1. /\ UNCHANGED <<committed, remote, applied>>
          /\ \/ UNCHANGED sent
             \/ sent' = [sent EXCEPT ![exec[e]] = Append(@, "result")]
             \/ sent' = [sent EXCEPT ![exec[e]] = Append(@, "canceled")]
      BY <2>3 DEF WriteFinal, WriteCanceled, remoteVars
    <3>2. \A a \in {"result", "canceled"} :
             Append(sent[exec[e]], a) \in Seq({"result", "canceled"})
      BY <1>1 DEF WireTypes
    <3>. QED  BY <3>1, <3>2, <2>1 DEF WireTypes
  <2>4. CASE CommitWrite(e) \/ SendRemote(e)
    BY <2>4, <1>1 DEF CommitWrite, SendRemote, WireTypes, remoteVars
  <2>. QED  BY <2>2, <2>3, <2>4, TypeFrames
<1>5. SessionTypes'
  <2>1. \/ UNCHANGED sessionVars
        \/ DispatchBind(e) \/ DispatchStartTLS(e) \/ Handshake(e) \/ DispatchTransaction(e)
        \/ Post(e) \/ DispatchFails(e)
    BY DEF HandlerStep, CloneState, Acquire, Start, DispatchReject, DispatchRead,
           DispatchMeta, MetaEntry, MetaDone, DispatchPersist, PersistStops, PersistOverflows,
           DispatchWrite, CommitPoint, CommitWrite, DispatchProxyWrite, SendRemote, AwaitRemote,
           Respond, WriteFinal, ResponseLimit, WriteCanceled, Finish
  <2>2. CASE DispatchStartTLS(e) \/ Handshake(e)
    BY <2>2 DEF DispatchStartTLS, Handshake, SessionTypes
  <2>3. CASE DispatchTransaction(e)
    <3>1. UNCHANGED <<session, sasl, txnAdm>> /\ (txn' = txn \/ txn' = TRUE \/ txn' = FALSE)
      BY <2>3 DEF DispatchTransaction
    <3>. QED  BY <3>1 DEF SessionTypes
  <2>4. CASE DispatchBind(e)
    <3>1. UNCHANGED txnAdm /\ session' = session + 1 /\ txn' = FALSE
          /\ sasl' \in IF kind[exec[e]] = "saslbind" THEN BOOLEAN ELSE {FALSE}
      BY <2>4 DEF DispatchBind
    <3>2. sasl' \in BOOLEAN /\ txn' \in BOOLEAN
      BY <3>1
    <3>3. session' \in Nat /\ txnAdm' \in BOOLEAN
      BY <3>1 DEF SessionTypes
    <3>. QED  BY <3>2, <3>3 DEF SessionTypes
  <2>5. CASE Post(e)
    <3>1. UNCHANGED <<session, sasl, txn>> /\ (txnAdm' = txnAdm \/ txnAdm' = txn)
      BY <2>5, PostCases
    <3>. QED  BY <3>1 DEF SessionTypes
  <2>6. CASE DispatchFails(e)
    <3>1. /\ UNCHANGED txnAdm /\ (session' = session \/ session' = session + 1)
          /\ (sasl' = sasl \/ sasl' = FALSE) /\ (txn' = txn \/ txn' = FALSE)
      BY <2>6 DEF DispatchFails
    <3>2. sasl' \in BOOLEAN /\ txn' \in BOOLEAN /\ txnAdm' \in BOOLEAN
      BY <3>1, Zenon DEF SessionTypes
    <3>3. session' \in Nat
      BY <3>1 DEF SessionTypes
    <3>. QED  BY <3>2, <3>3, Zenon DEF SessionTypes
  <2>. QED  BY <2>1, <2>2, <2>3, <2>4, <2>5, <2>6, TypeFrames
<1>. QED  BY <1>2, <1>3, <1>4, <1>5

-----------------------------------------------------------------------------
(* Every step keeps the types. *)

\* The type invariant without the queue's part.
Typed == LifeTypes /\ WireTypes /\ ExecTypes /\ SessionTypes /\ ReaderTypes /\ EndTypes

\* newTrackedOperation for a request of any kind.
LEMMA NewOperationType == \A k : NewOperation(k) \in TrackedOperations
<1>1. \A k : Cancelable(k) \in BOOLEAN /\ (k \notin Binds) \in BOOLEAN /\ (k = "persist") \in BOOLEAN
  BY DEF Cancelable
<1>. QED  BY <1>1, NewTrackedOperationType DEF NewOperation

\* FinishAll and AbandonLongLived, which visit several requests, keep the types.
LEMMA SweepTypes ==
    ASSUME LifeTypes
    PROVE  /\ \A Q : FinishAll(Q) => LifeTypes'
           /\ AbandonLongLived /\ UNCHANGED registry => LifeTypes'
<1>1. \A o \in Ops : /\ op[o] \in TrackedOperations
                     /\ FinishOperation(op[o]) \in TrackedOperations
                     /\ RequestAbandon(op[o]) \in TrackedOperations
  BY TrackedOperationsClosed DEF LifeTypes
<1>2. ASSUME NEW Q, FinishAll(Q) PROVE LifeTypes'
  BY <1>1, <1>2 DEF FinishAll, LifeTypes
<1>3. ASSUME AbandonLongLived, UNCHANGED registry PROVE LifeTypes'
  BY <1>1, <1>3 DEF AbandonLongLived, LifeTypes
<1>. QED  BY <1>2, <1>3

\* The end of an execution keeps the types.
LEMMA ReturnTypes ==
    ASSUME QueueInv, Typed, NEW e \in Executors,
           CompleteOperation(e) \/ ReturnTrue(e) \/ ReturnFalse(e)
    PROVE  Typed'
<1>. USE DEF Typed
<1>0. ExecTypes'
  BY ExecuteExecTypes DEF Execute
<1>1. LifeTypes' /\ WireTypes' /\ SessionTypes'
  BY TypeFrames DEF CompleteOperation, ReturnTrue, ReturnFalse
<1>2. EndTypes'
  <2>1. CASE CompleteOperation(e) \/ ReturnTrue(e)
    BY <2>1, TypeFrames DEF CompleteOperation, ReturnTrue
  <2>2. CASE ReturnFalse(e)
    BY <2>2 DEF ReturnFalse, EndTypes
  <2>. QED  BY <2>1, <2>2
<1>3. ReaderTypes'
  <2>1. CASE CompleteOperation(e)
    BY <2>1 DEF CompleteOperation, Completion, ReaderTypes, ExecTypes
  <2>2. CASE ReturnTrue(e)
    BY <2>2 DEF ReturnTrue, ReaderTypes, ReaderSteps
  <2>3. CASE ReturnFalse(e)
    BY <2>3 DEF ReturnFalse, ReaderTypes, ReaderSteps
  <2>. QED  BY <2>1, <2>2, <2>3
<1>. QED  BY <1>0, <1>1, <1>2, <1>3

\* Requests of the client keep the types.
LEMMA ClientTypes ==
    ASSUME QueueInv, Typed, ReaderControl, ReadEnds \/ ClientRequest \/ PushBind \/ RefuseBind \/ ClaimBind
    PROVE  Typed'
<1>. USE DEF Typed
<1>0. /\ \A o \in Ops : /\ op[o] \in TrackedOperations
                        /\ FinishOperation(RequestAbandon(op[o])) \in TrackedOperations
                        /\ RequestAbandon(op[o]) \in TrackedOperations
                        /\ RequestCancel(op[o]) \in TrackedOperations
      /\ \A k : /\ NewOperation(k) \in TrackedOperations
                /\ FinishOperation(NewOperation(k)) \in TrackedOperations
  BY TrackedOperationsClosed, NewOperationType DEF LifeTypes
<1>1. ASSUME NEW o \in Ops, NEW k \in AllKinds \cup {"none"}, Admit(o, k) PROVE Typed'
  <2>1. LifeTypes' /\ WireTypes' /\ ExecTypes' /\ EndTypes'
    BY <1>1, <1>0, TypeFrames DEF Admit, LifeTypes
  <2>2. SessionTypes'
    <3>1. UNCHANGED <<session, sasl, txn>> /\ txnAdm' = (txnAdm \/ k = "txnstart")
      BY <1>1 DEF Admit
    <3>. QED  BY <3>1 DEF SessionTypes
  <2>3. ReaderTypes'
    BY <1>1 DEF Admit, ReaderTypes, ReaderSteps, SessionTypes
  <2>. QED  BY <2>1, <2>2, <2>3
<1>2. ASSUME NEW o \in Ops, NEW k \in AllKinds \cup {"none"}, TurnAway(o, k) PROVE Typed'
  <2>1. LifeTypes' /\ WireTypes' /\ ExecTypes' /\ EndTypes'
    BY <1>2, <1>0, TypeFrames DEF TurnAway, LifeTypes
  <2>2. SessionTypes'
    <3>1. UNCHANGED <<session, sasl, txn>> /\ txnAdm' = (txnAdm \/ k = "txnstart")
      BY <1>2 DEF TurnAway
    <3>. QED  BY <3>1 DEF SessionTypes
  <2>3. ReaderTypes'
    BY <1>2 DEF TurnAway, ReaderTypes, ReaderSteps
  <2>. QED  BY <2>1, <2>2, <2>3
<1>3. R("admit") => rop \in Ops /\ kind[rop] \in AllKinds \cup {"none"}
  BY DEF R, ReaderControl, ReaderTypes
<1>4. CASE ReadEnds
  BY <1>4, TypeFrames DEF ReadEnds, ReaderTypes, ReaderSteps
<1>5. CASE ClientRequest
  <2>1. ASSUME NEW t \in Ops, AbandonQueued(t) PROVE Typed'
    BY <2>1, <1>0, TypeFrames DEF AbandonQueued, ReaderTypes, ReaderSteps, LifeTypes
  <2>2. ASSUME NEW t \in Ops, AbandonTracked(t) PROVE Typed'
    BY <2>2, <1>0, TypeFrames DEF AbandonTracked, ReaderTypes, ReaderSteps, LifeTypes
  <2>3. ASSUME NEW t \in Ops, CancelTracked(t) PROVE Typed'
    <3>1. LifeTypes' /\ ExecTypes' /\ SessionTypes' /\ EndTypes'
      BY <2>3, <1>0, TypeFrames DEF CancelTracked, LifeTypes
    <3>2. CASE CancelResult(op[t]) = "success"
      BY <2>3, <3>1, <3>2 DEF CancelTracked, WireTypes, remoteVars, ReaderTypes, ReaderSteps
    <3>3. CASE CancelResult(op[t]) # "success"
      <4>1. /\ rpc' = "loop"
            /\ UNCHANGED <<kind, readIn, rop, rset, completion, sent, committed, remote, applied>>
            /\ acked' = [acked EXCEPT ![t] = @ \cup ({CancelResult(op[t])} \cap {"tooLate"})]
        BY <2>3, <3>3 DEF CancelTracked, remoteVars
      <4>2. ReaderTypes'
        BY <4>1 DEF ReaderTypes, ReaderSteps
      <4>3. acked[t] \cup ({CancelResult(op[t])} \cap {"tooLate"}) \in SUBSET {"success", "tooLate"}
        BY DEF WireTypes
      <4>4. WireTypes'
        BY <4>1, <4>3 DEF WireTypes
      <4>. QED  BY <3>1, <4>2, <4>4
    <3>. QED  BY <3>2, <3>3
  <2>4. ASSUME NEW o \in Ops, NEW k \in Kinds, ReadBind(o, k) PROVE Typed'
    <3>1. k \in AllKinds
      BY KindsAssumption
    <3>. QED  BY <2>4, <3>1, TypeFrames DEF ReadBind, ReaderTypes, ReaderSteps, LifeTypes
  <2>5. ASSUME NEW o \in Ops, NEW k \in Kinds, ReadRequest(o, k) \/ RefuseRequest(o, k) PROVE Typed'
    <3>1. k \in AllKinds \cup {"none"}
      BY KindsAssumption
    <3>. QED  BY <2>5, <3>1, <1>1, <1>2 DEF ReadRequest, RefuseRequest
  <2>. QED  BY <1>5, <2>1, <2>2, <2>3, <2>4, <2>5 DEF ClientRequest
<1>6. CASE PushBind \/ RefuseBind
  BY <1>6, <1>1, <1>2, <1>3 DEF PushBind, RefuseBind
<1>7. CASE ClaimBind
  <2>1. rop \in Ops
    BY <1>3, <1>7 DEF ClaimBind
  <2>2. LifeTypes' /\ WireTypes' /\ SessionTypes' /\ EndTypes'
    BY <1>7, <1>0, <2>1, TypeFrames DEF ClaimBind, LifeTypes
  <2>3. ReaderTypes' /\ ExecTypes'
    BY <1>7, <2>1 DEF ClaimBind, ReaderTypes, ExecTypes, SessionTypes, Goto, ExecutorSteps
  <2>. QED  BY <2>2, <2>3
<1>. QED  BY <1>4, <1>5, <1>6, <1>7

\* So do the reader's own steps and the server's.
LEMMA ReaderTypesStep ==
    ASSUME QueueInv, Typed, ReaderControl, ReaderProgress \/ ServerEvent,
           ~(PushBind \/ RefuseBind \/ ClaimBind)
    PROVE  Typed'
<1>. USE DEF Typed
<1>1. CASE ReadNext \/ BarrierDone \/ WaitInterrupted
  BY <1>1, TypeFrames DEF ReadNext, BarrierDone, WaitInterrupted, ReaderTypes, ReaderSteps
<1>2. CASE CancelTargetDone
  <2>1. LifeTypes' /\ ExecTypes' /\ SessionTypes' /\ EndTypes'
    BY <1>2, TypeFrames DEF CancelTargetDone
  <2>2. ReaderTypes'
    BY <1>2 DEF CancelTargetDone, ReaderTypes, ReaderSteps
  <2>3. WireTypes'
    BY <1>2 DEF CancelTargetDone, WireTypes, remoteVars
  <2>. QED  BY <2>1, <2>2, <2>3
<1>3. ASSUME NEW t \in Ops, AbandonForBind(t) PROVE Typed'
  <2>1. RequestBindAbandon(op[t]) \in TrackedOperations
    BY TrackedOperationsClosed DEF LifeTypes
  <2>. QED  BY <1>3, <2>1, TypeFrames DEF AbandonForBind, LifeTypes, ReaderTypes
<1>4. CASE BindDiscards
  <2>1. LifeTypes'
    BY <1>4, SweepTypes DEF BindDiscards
  <2>. QED  BY <1>4, <2>1, TypeFrames DEF BindDiscards, ReaderTypes, ReaderSteps
<1>5. ASSUME NEW from, NEW to \in ReaderSteps, LeaveStep(from, to)
      PROVE  ReaderTypes' /\ ExecTypes' /\ WireTypes' /\ SessionTypes'
  BY <1>5, TypeFrames DEF LeaveStep, ReaderTypes
<1>6. CASE DrainClose \/ DrainSweep \/ DrainEnds \/ CancelConnection \/ CloseQueue
           \/ ShutdownOperations \/ HangUp
  <2>1. ReaderTypes' /\ ExecTypes' /\ WireTypes' /\ SessionTypes'
    BY <1>6, <1>5 DEF DrainClose, DrainSweep, DrainEnds, CancelConnection, CloseQueue,
                      ShutdownOperations, HangUp, ReaderSteps
  <2>2. LifeTypes'
    BY <1>6, SweepTypes, TypeFrames
       DEF DrainClose, DrainSweep, DrainEnds, CancelConnection, CloseQueue,
           ShutdownOperations, HangUp, Shutdown
  <2>3. EndTypes'
    <3>1. UNCHANGED <<draining, swept>>
      BY <1>6 DEF DrainClose, DrainSweep, DrainEnds, CancelConnection, CloseQueue,
           ShutdownOperations, HangUp, LeaveStep
    <3>2. connDone' \in BOOLEAN /\ connClosed' \in BOOLEAN
      BY <1>6 DEF DrainClose, DrainSweep, DrainEnds, CancelConnection, CloseQueue,
           ShutdownOperations, HangUp, EndTypes
    <3>3. idle' \in {"watching", "closing", "done"}
      BY <1>6 DEF DrainClose, DrainSweep, DrainEnds, CancelConnection, CloseQueue,
           ShutdownOperations, HangUp, EndTypes
    <3>. QED  BY <3>1, <3>2, <3>3 DEF EndTypes
  <2>. QED  BY <2>1, <2>2, <2>3
<1>7. CASE ServerEvent
  <2>0. \A o \in Ops : RemoteDecides(o) => WireTypes'
    BY DEF RemoteDecides, WireTypes
  <2>1. ReaderTypes' /\ ExecTypes' /\ WireTypes' /\ SessionTypes'
    BY <1>7, <2>0, TypeFrames DEF ServerEvent, ConnectionLost, IdleCheck, IdleClose, BeginDrain,
              SweepLongLived, ForceOperations, RemoteDecides
  <2>2. LifeTypes'
    BY <1>7, TypeFrames, SweepTypes
       DEF ServerEvent, ConnectionLost, IdleCheck, IdleClose, BeginDrain,
              SweepLongLived, ForceOperations, RemoteDecides
  <2>3. EndTypes'
    BY <1>7, TypeFrames DEF ServerEvent, ConnectionLost, IdleCheck, IdleClose, BeginDrain,
              SweepLongLived, ForceOperations, RemoteDecides, EndTypes
  <2>. QED  BY <2>1, <2>2, <2>3
<1>. QED  BY <1>1, <1>2, <1>3, <1>4, <1>6, <1>7 DEF ReaderProgress

-----------------------------------------------------------------------------
(* Who executes what, and the base invariant. *)

\* An executor is at a step of runConnectionOperation exactly while it runs one.
AtMatchesPc == \A e \in Executors : at[e] = "none" <=> pc[e] # "run"
\* A running request has an executor.
RunningExecuted == \A o \in Ops : status[o] = "running" => \E e \in Executors : exec[e] = o

\* A step that leaves the queue alone changes no executor and no status.
LEMMA UnchangedQueue ==
    ASSUME UNCHANGED queueVars
    PROVE  UNCHANGED <<pc, exec, status, conc, items, arrival, active, fence>>
BY DEF queueVars

\* The steps outside the queue and outside the executors: the reader moves, a request is
\* asked to stop, the connection is taken down, something happens to the server.
ReaderMove ==
    \/ ReadEnds \/ ReadNext \/ CancelTargetDone \/ WaitInterrupted \/ BarrierDone
    \/ \E o \in Ops, k \in Kinds : ReadBind(o, k)
\* A request is asked to stop: Abandon, Cancel, and a Bind's sweep.
StopRequest ==
    \E t \in Ops : AbandonTracked(t) \/ CancelTracked(t) \/ AbandonForBind(t)
\* The connection is taken down after the reader has left.
TakeDown ==
    DrainSweep \/ DrainEnds \/ CancelConnection \/ ShutdownOperations \/ HangUp
\* Any of these, or nothing at all.
Elsewhere == ReaderMove \/ StopRequest \/ TakeDown \/ ServerEvent \/ UNCHANGED vars

\* The reader has o in hand, which asks for k.
InHand(o, k) ==
    \/ R("reading") /\ k \in Kinds \ Binds
    \/ R("admit") /\ o = rop /\ k = kind[o]

\* Every step of the connection, by the part of the queue it uses.
LEMMA StepCases ==
    ASSUME ReaderControl, [Next]_vars
    PROVE  \/ \E w \in Workers : PopOperation(w) \/ PopNothing(w)
           \/ \E e \in Executors : \/ HandlerStep(e) \/ CompleteOperation(e)
                                   \/ ReturnTrue(e) \/ ReturnFalse(e)
           \/ \E o \in Ops : \E k : InHand(o, k) /\ (Admit(o, k) \/ TurnAway(o, k))
           \/ ClaimBind /\ rop \in Ops
           \/ \E t \in Ops : AbandonQueued(t)
           \/ BindDiscards \/ DrainClose \/ CloseQueue
           \/ Elsewhere
<1>1. CASE ClientRequest
  BY <1>1 DEF ClientRequest, ReadRequest, RefuseRequest, InHand, Elsewhere, ReaderMove, StopRequest
<1>2. CASE ReaderProgress
  <2>1. R("admit") => rop \in Ops
    BY DEF R, ReaderControl
  <2>. QED  BY <1>2, <2>1 DEF ReaderProgress, PushBind, RefuseBind, ClaimBind, InHand, Elsewhere,
                      ReaderMove, StopRequest, TakeDown
<1>3. CASE UNCHANGED vars \/ ReadEnds \/ ServerEvent
  BY <1>3 DEF Elsewhere, ReaderMove
<1>. QED  BY <1>1, <1>2, <1>3, ExecutorStepCases DEF Next, WorkerLoop

\* Such a step changes neither the queue nor the executors.
LEMMA ElsewhereFrame ==
    ASSUME Elsewhere
    PROVE  UNCHANGED <<queueVars, execVars, sent, committed, sessionVars, readIn>>
<1>1. CASE ReaderMove
  BY <1>1 DEF ReaderMove, ReadEnds, ReadNext, CancelTargetDone, WaitInterrupted, BarrierDone,
              ReadBind, wireVars
<1>2. CASE StopRequest
  BY <1>2 DEF StopRequest, AbandonTracked, CancelTracked, AbandonForBind, wireVars
<1>3. CASE TakeDown
  BY <1>3 DEF TakeDown, DrainSweep, DrainEnds, CancelConnection, ShutdownOperations, HangUp,
              LeaveStep, wireVars
<1>4. CASE ServerEvent
  BY <1>4 DEF ServerEvent, ConnectionLost, IdleCheck, IdleClose, BeginDrain,
              SweepLongLived, ForceOperations, RemoteDecides, readerVars, wireVars
<1>5. CASE UNCHANGED vars
  BY <1>5 DEF vars, readerVars, wireVars
<1>. QED  BY <1>1, <1>2, <1>3, <1>4, <1>5 DEF Elsewhere

\* Every step keeps the reader's control state consistent.
LEMMA ReaderControlStep ==
    ASSUME QueueInv, Typed, ReaderControl, [Next]_vars
    PROVE  ReaderControl'
<1>. USE DEF ReaderControl, Quiet, Leaving
<1>0. pc \in [Executors -> WorkerStates \cup ReaderStates] /\ Reader \in Executors
  BY NotRunningElsewhere DEF QueueInv, QueueTypeOK
<1>1. ASSUME NEW w \in Workers, WorkerLoop(w) PROVE ReaderControl'
  <2>1. pc'[Reader] = pc[Reader]
    BY <1>1, PopEffect, MoveEffect, NotRunningElsewhere DEF WorkerLoop, PopOperation, PopNothing
  <2>. QED  BY <1>1, <2>1 DEF WorkerLoop, PopOperation, PopNothing, readerVars, endVars
<1>2. ASSUME NEW e \in Executors, HandlerStep(e) PROVE ReaderControl'
  BY <1>2, HandlerStepIsLocal, UnchangedQueue DEF LocalTo, readerVars, endVars, Typed
<1>3. ASSUME NEW e \in Executors, CompleteOperation(e) PROVE ReaderControl'
  BY <1>3, CompleteEffect DEF CompleteOperation, endVars
<1>4. ASSUME NEW e \in Executors, ReturnTrue(e) PROVE ReaderControl'
  BY <1>4, MoveEffect, <1>0 DEF ReturnTrue, Continue, endVars
<1>5. ASSUME NEW e \in Executors, ReturnFalse(e) PROVE ReaderControl'
  BY <1>5, MoveEffect, <1>0 DEF ReturnFalse, GiveUp
<1>6. ASSUME NEW o \in Ops, NEW k, R("reading") \/ R("admit"), Admit(o, k) PROVE ReaderControl'
  <2>1. pc'[Reader] = "read"
    BY <1>6, PushEffect DEF Admit, CanRunConcurrent
  <2>2. UNCHANGED <<connDone, connClosed>> /\ rpc' \in {"barrier", "loop"} /\ (rpc' = "barrier" => rop' = o)
    BY <1>6 DEF Admit, endVars
  <2>. QED  BY <1>6, <2>1, <2>2 DEF R
<1>7. ASSUME NEW o \in Ops, NEW k, TurnAway(o, k) PROVE ReaderControl'
  <2>1. pc'[Reader] = "stop"
    BY <1>7, RefuseEffect DEF TurnAway, CanRunConcurrent
  <2>. QED  BY <1>7, <2>1 DEF TurnAway, endVars
<1>8. CASE ReadEnds \/ ClientRequest
  <2>1. ASSUME NEW t \in Ops, AbandonQueued(t) PROVE ReaderControl'
    BY <2>1, RemoveEffect DEF AbandonQueued, R, endVars
  <2>2. ASSUME NEW t \in Ops, AbandonTracked(t) \/ CancelTracked(t) PROVE ReaderControl'
    BY <2>2, UnchangedQueue DEF AbandonTracked, CancelTracked, R, endVars
  <2>3. ASSUME NEW o \in Ops, NEW k \in Kinds, ReadBind(o, k) PROVE ReaderControl'
    BY <2>3, UnchangedQueue DEF ReadBind, R, endVars
  <2>4. ASSUME NEW o \in Ops, NEW k \in Kinds, ReadRequest(o, k) \/ RefuseRequest(o, k)
        PROVE  ReaderControl'
    BY <2>4, <1>6, <1>7 DEF ReadRequest, RefuseRequest
  <2>5. CASE ReadEnds
    BY <2>5, UnchangedQueue DEF ReadEnds, R, endVars
  <2>. QED  BY <1>8, <2>1, <2>2, <2>3, <2>4, <2>5 DEF ClientRequest
<1>9. CASE ReaderProgress
  <2>1. R("admit") => rop \in Ops
    BY DEF R
  <2>2. CASE PushBind \/ RefuseBind
    BY <2>1, <2>2, <1>6, <1>7 DEF PushBind, RefuseBind
  <2>3. CASE ClaimBind
    BY <2>1, <2>3, ClaimEffect DEF ClaimBind, endVars, R
  <2>4. CASE BindDiscards
    BY <2>4, DiscardEffect DEF BindDiscards, endVars, R
  <2>5. ASSUME NEW t \in Ops, AbandonForBind(t) PROVE ReaderControl'
    BY <2>5, UnchangedQueue DEF AbandonForBind, endVars, R
  <2>6. CASE ReadNext \/ CancelTargetDone \/ WaitInterrupted \/ BarrierDone
    BY <2>6, UnchangedQueue
       DEF ReadNext, CancelTargetDone, WaitInterrupted, BarrierDone, endVars, R
  <2>7. CASE DrainClose \/ CloseQueue
    <3>1. pc'[Reader] = "closed"
      BY <2>7, CloseEffect DEF DrainClose, CloseQueue
    <3>. QED  BY <2>7, <3>1 DEF DrainClose, CloseQueue, LeaveStep
  <2>8. CASE DrainSweep \/ DrainEnds \/ CancelConnection \/ ShutdownOperations \/ HangUp
    BY <2>8, UnchangedQueue
       DEF DrainSweep, DrainEnds, CancelConnection, ShutdownOperations, HangUp, LeaveStep
  <2>. QED  BY <1>9, <2>2, <2>3, <2>4, <2>5, <2>6, <2>7, <2>8 DEF ReaderProgress
<1>10. CASE ServerEvent
  BY <1>10, UnchangedQueue DEF ServerEvent, ConnectionLost, IdleCheck, IdleClose, BeginDrain,
              SweepLongLived, ForceOperations, RemoteDecides, readerVars, endVars
<1>11. CASE UNCHANGED vars
  BY <1>11, UnchangedQueue DEF vars, readerVars, endVars
<1>. QED  BY <1>1, <1>2, <1>3, <1>4, <1>5, <1>8, <1>9, <1>10, <1>11, ExecutorStepCases DEF Next

\* The Bind that the reader claims is the one it has in hand.
LEMMA ClaimBindEffect ==
    ASSUME QueueInv, ClaimBind, rop \in Ops
    PROVE  \E o \in Ops :
              /\ o = rop
              /\ pc[Reader] = "read" /\ exec[Reader] = NoOp
              /\ pc'[Reader] = "run" /\ exec'[Reader] = o
              /\ \A e \in Executors : e # Reader => pc'[e] = pc[e] /\ exec'[e] = exec[e]
              /\ status[o] = "new" /\ status'[o] = "running"
              /\ \A p \in Ops : p # o => status'[p] = status[p] /\ conc'[p] = conc[p]
              /\ conc'[o] = FALSE
              /\ items = <<>> /\ items' = <<>> /\ active = 0
<1>1. TryClaimIdleSimpleBind(rop)
  BY DEF ClaimBind
<1>2. PICK o \in Ops : TryClaimIdleSimpleBind(o)
  BY <1>1
<1>3. exec' = [exec EXCEPT ![Reader] = rop] /\ exec \in [Executors -> Ops \cup {NoOp}]
      /\ Reader \in Executors
  BY <1>1, NotRunningElsewhere DEF TryClaimIdleSimpleBind, QueueInv, QueueTypeOK
<1>4. exec'[Reader] = o
  BY <1>2, ClaimEffect
<1>5. o = rop
  BY <1>3, <1>4
<1>. QED  BY <1>2, <1>5, ClaimEffect

\* Every step keeps the two program counters of an executor in agreement.
LEMMA AtMatchesPcStep ==
    ASSUME QueueInv, Typed, ReaderControl, AtMatchesPc, [Next]_vars
    PROVE  AtMatchesPc'
<1>. USE DEF AtMatchesPc
<1>0. at \in [Executors -> ExecutorSteps] /\ LifeTypes /\ WireTypes /\ ExecTypes /\ Reader \in Executors
  BY NotRunningElsewhere DEF Typed, ExecTypes
<1>f. ASSUME SameExecutors, at' = at PROVE AtMatchesPc'
  BY <1>f DEF SameExecutors
<1>1. ASSUME NEW w \in Workers, PopOperation(w) PROVE AtMatchesPc'
  BY <1>1, <1>0, PopEffect DEF PopOperation, Goto
<1>2. ASSUME NEW w \in Workers, PopNothing(w) PROVE AtMatchesPc'
  BY <1>2, <1>f, MoveEffect, NotRunningElsewhere DEF PopNothing, execVars
<1>3. ASSUME NEW e \in Executors, HandlerStep(e) PROVE AtMatchesPc'
  <2>1. LocalTo(e) /\ UNCHANGED pc
    BY <1>0, <1>3, HandlerStepIsLocal, UnchangedQueue DEF LocalTo
  <2>2. at'[e] # "none" \/ at' = at
    <3>1. CASE Post(e)
      BY <3>1, <1>0, PostCases DEF Goto
    <3>2. CASE ~Post(e)
      BY <1>0, <1>3, <3>2
         DEF HandlerStep, CloneState, Acquire, Start, DispatchReject, DispatchRead, DispatchMeta,
             MetaEntry, MetaDone, DispatchPersist, PersistStops, PersistOverflows, DispatchWrite,
             CommitPoint, CommitWrite, DispatchProxyWrite, SendRemote, AwaitRemote, DispatchFails, DispatchBind,
             DispatchStartTLS, Handshake, DispatchTransaction, Respond, WriteFinal, ResponseLimit,
              WriteCanceled, Finish, Goto, Returns, execVars
    <3>. QED  BY <3>1, <3>2
  <2>. QED  BY <2>1, <2>2 DEF LocalTo
<1>4. ASSUME NEW e \in Executors, CompleteOperation(e) PROVE AtMatchesPc'
  BY <1>4, <1>0, CompleteEffect DEF CompleteOperation, Goto
<1>5. ASSUME NEW e \in Executors, ReturnTrue(e) \/ ReturnFalse(e) PROVE AtMatchesPc'
  BY <1>5, <1>f, MoveEffect DEF ReturnTrue, ReturnFalse, execVars
<1>6. ASSUME NEW o \in Ops, NEW k, Admit(o, k) \/ TurnAway(o, k) PROVE AtMatchesPc'
  BY <1>6, <1>f, PushEffect, RefuseEffect DEF Admit, TurnAway, CanRunConcurrent, execVars
<1>7. ASSUME ClaimBind, rop \in Ops PROVE AtMatchesPc'
  <2>1. at' = [at EXCEPT ![Reader] = "clone"] /\ TryClaimIdleSimpleBind(rop)
    BY <1>7 DEF ClaimBind, Goto
  <2>2. PICK o \in Ops : TryClaimIdleSimpleBind(o)
    BY <2>1, <1>7
  <2>3. /\ pc'[Reader] = "run"
        /\ \A e \in Executors : e # Reader => pc'[e] = pc[e]
    BY <2>2, ClaimEffect, ZenonT(60)
  <2>. QED  BY <2>1, <2>3, <1>0
<1>8. ASSUME NEW t \in Ops, AbandonQueued(t) PROVE AtMatchesPc'
  BY <1>8, <1>f, RemoveEffect DEF AbandonQueued, execVars
<1>9. CASE BindDiscards
  BY <1>9, <1>f, DiscardEffect DEF BindDiscards, execVars
<1>10. CASE DrainClose \/ CloseQueue
  BY <1>10, <1>f, CloseEffect DEF DrainClose, CloseQueue, LeaveStep, execVars
<1>11. CASE Elsewhere
  BY <1>11, ElsewhereFrame, UnchangedQueue DEF execVars
<1>. QED  BY <1>1, <1>2, <1>3, <1>4, <1>5, <1>6, <1>7, <1>8, <1>9, <1>10, <1>11, StepCases

\* A request that runs after a step has an executor.
LEMMA RunningExecutedStep ==
    ASSUME QueueInv, Typed, ReaderControl, RunningExecuted, [Next]_vars
    PROVE  RunningExecuted'
<1>. USE DEF RunningExecuted
<1>f. ASSUME SameExecutors, \A p \in Ops : status'[p] = "running" => status[p] = "running"
      PROVE  RunningExecuted'
  BY <1>f DEF SameExecutors
<1>1. ASSUME NEW w \in Workers, PopOperation(w) PROVE RunningExecuted'
  <2>1. /\ Head(items) \in Ops /\ w \in Executors /\ exec[w] = NoOp /\ exec'[w] = Head(items)
        /\ \A e \in Executors : e # w => exec'[e] = exec[e]
        /\ \A p \in Ops : p # Head(items) => status'[p] = status[p]
    BY <1>1, PopEffect DEF PopOperation
  <2>. QED  BY <2>1, OpsAssumption
<1>2. ASSUME NEW w \in Workers, PopNothing(w) PROVE RunningExecuted'
  BY <1>2, <1>f, MoveEffect, NotRunningElsewhere DEF PopNothing
<1>3. ASSUME NEW e \in Executors, HandlerStep(e) PROVE RunningExecuted'
  BY <1>3, HandlerStepIsLocal, UnchangedQueue DEF LocalTo, Typed
<1>4. ASSUME NEW e \in Executors, CompleteOperation(e) PROVE RunningExecuted'
  <2>1. /\ exec[e] \in Ops /\ status'[exec[e]] = "done"
        /\ \A f \in Executors : f # e => exec'[f] = exec[f]
        /\ \A p \in Ops : p # exec[e] => status'[p] = status[p]
    BY <1>4, CompleteEffect DEF CompleteOperation
  <2>. QED  BY <2>1
<1>5. ASSUME NEW e \in Executors, ReturnTrue(e) \/ ReturnFalse(e) PROVE RunningExecuted'
  BY <1>5, <1>f, MoveEffect DEF ReturnTrue, ReturnFalse
<1>6. ASSUME NEW o \in Ops, NEW k, Admit(o, k) \/ TurnAway(o, k) PROVE RunningExecuted'
  BY <1>6, <1>f, PushEffect, RefuseEffect DEF Admit, TurnAway, CanRunConcurrent
<1>7. ASSUME ClaimBind, rop \in Ops PROVE RunningExecuted'
  <2>1. TryClaimIdleSimpleBind(rop) /\ Reader \in Executors
    BY <1>7, NotRunningElsewhere DEF ClaimBind
  <2>2. PICK o \in Ops : TryClaimIdleSimpleBind(o)
    BY <2>1, <1>7
  <2>3. /\ exec[Reader] = NoOp /\ exec'[Reader] = o
        /\ \A e \in Executors : e # Reader => exec'[e] = exec[e]
        /\ \A p \in Ops : p # o => status'[p] = status[p]
    BY <2>2, ClaimEffect, ZenonT(60)
  <2>4. ASSUME NEW p \in Ops, status'[p] = "running" PROVE \E e \in Executors : exec'[e] = p
    <3>1. CASE p = o
      BY <2>1, <2>3, <3>1
    <3>2. CASE p # o
      <4>1. PICK e \in Executors : exec[e] = p
        BY <2>3, <2>4, <3>2
      <4>2. e # Reader
        BY <2>3, <4>1, OpsAssumption
      <4>. QED  BY <2>3, <4>1, <4>2
    <3>. QED  BY <3>1, <3>2
  <2>. QED  BY <2>4
<1>8. ASSUME NEW t \in Ops, AbandonQueued(t) PROVE RunningExecuted'
  BY <1>8, <1>f, RemoveEffect DEF AbandonQueued
<1>9. CASE BindDiscards
  BY <1>9, <1>f, DiscardEffect DEF BindDiscards, DropsQueued
<1>10. CASE DrainClose \/ CloseQueue
  BY <1>10, <1>f, CloseEffect DEF DrainClose, CloseQueue, DropsQueued
<1>11. CASE Elsewhere
  BY <1>11, ElsewhereFrame, UnchangedQueue
<1>. QED  BY <1>1, <1>2, <1>3, <1>4, <1>5, <1>6, <1>7, <1>8, <1>9, <1>10, <1>11, StepCases

\* The inductive invariant on which everything else rests.
BaseInv == QueueInv /\ Typed /\ ReaderControl /\ AtMatchesPc /\ RunningExecuted

\* It holds initially.
LEMMA InitBase == Init => BaseInv
<1>. SUFFICES ASSUME Init PROVE BaseInv
  OBVIOUS
<1>1. QueueInv /\ pc = [e \in Executors |-> IF e = Reader THEN "read" ELSE "pop"]
      /\ status = [o \in Ops |-> "new"]
  BY InitQueueInv DEF Init, QueueInit
<1>2. LifeTypes /\ WireTypes
  <2>1. NewTrackedOperation(FALSE, FALSE, FALSE) \in TrackedOperations
    BY NewTrackedOperationType
  <2>2. <<>> \in Seq({"result", "canceled"})
    OBVIOUS
  <2>. QED  BY <2>1, <2>2 DEF Init, LifeTypes, WireTypes
<1>3. SessionTypes /\ ReaderTypes /\ EndTypes
  BY DEF Init, SessionTypes, ReaderTypes, EndTypes, ReaderSteps
<1>4. ExecTypes
  BY DEF Init, ExecTypes, ExecutorSteps
<1>5. ReaderControl
  BY <1>1, NotRunningElsewhere DEF Init, ReaderControl
<1>6. AtMatchesPc /\ RunningExecuted
  BY <1>1 DEF Init, AtMatchesPc, RunningExecuted
<1>. QED  BY <1>1, <1>2, <1>3, <1>4, <1>5, <1>6 DEF BaseInv, Typed

\* Every step keeps the types.
LEMMA TypedStep ==
    ASSUME QueueInv, Typed, ReaderControl, [Next]_vars
    PROVE  Typed'
<1>1. ASSUME NEW w \in Workers, PopOperation(w) \/ PopNothing(w) PROVE Typed'
  <2>1. CASE PopOperation(w)
    <3>1. LifeTypes' /\ WireTypes' /\ SessionTypes' /\ ReaderTypes' /\ EndTypes'
      BY <2>1, TypeFrames DEF PopOperation, Typed
    <3>2. ExecTypes'
      BY <2>1 DEF PopOperation, Typed, ExecTypes, Goto, ExecutorSteps
    <3>. QED  BY <3>1, <3>2 DEF Typed
  <2>2. CASE PopNothing(w)
    BY <2>2, TypeFrames DEF PopNothing, Typed
  <2>. QED  BY <1>1, <2>1, <2>2
<1>2. ASSUME NEW e \in Executors, HandlerStep(e) PROVE Typed'
  <2>1. Execute(e) \/ Occasional(e)
    BY <1>2 DEF HandlerStep, Execute, Occasional
  <2>. QED  BY <1>2, <2>1, HandlerTypes, ExecuteExecTypes DEF Typed
<1>3. ASSUME NEW e \in Executors, CompleteOperation(e) \/ ReturnTrue(e) \/ ReturnFalse(e)
      PROVE  Typed'
  BY <1>3, ReturnTypes
<1>4. CASE UNCHANGED vars
  BY <1>4, TypeFrames DEF vars, Typed
<1>. QED  BY <1>1, <1>2, <1>3, <1>4, ClientTypes, ReaderTypesStep, ExecutorStepCases
          DEF Next, WorkerLoop, ReaderProgress

\* Every step keeps the whole of it.
LEMMA BaseStep == BaseInv /\ [Next]_vars => BaseInv'
<1>. SUFFICES ASSUME BaseInv, [Next]_vars PROVE BaseInv'
  OBVIOUS
<1>1. QueueInv'
  BY ConnectionStepIsQueueStep, NextQueueInv DEF BaseInv
<1>. QED  BY <1>1, TypedStep, ReaderControlStep, AtMatchesPcStep, RunningExecutedStep DEF BaseInv

\* Every reachable state of the connection satisfies the base invariant.
THEOREM ConnectionBase == Spec => []BaseInv
BY InitBase, BaseStep, PTL DEF Spec

\* TypeOK: serveConnection, runConnectionOperation and the registry keep the
\* types of the connection's state, for any number of workers and requests.
THEOREM ConnectionTypeCorrect == Spec => []TypeOK
<1>1. BaseInv => TypeOK
  BY TypeGroups DEF BaseInv, Typed, QueueInv
<1>. QED  BY <1>1, ConnectionBase, PTL

\* QueueSpec: the connection implements the specification of operationQueue, so
\* that everything proved of the queue alone holds of the connection: no caller
\* pushes twice, completes what it does not run, or claims a Bind past others.
THEOREM ConnectionUsesTheQueue == Spec => QueueSpec
<1>1. Init => QueueInit
  BY DEF Init
<1>2. BaseInv /\ [Next]_vars => [QueueNext]_queueVars
  BY ConnectionStepIsQueueStep DEF BaseInv
<1>. QED  BY <1>1, <1>2, ConnectionBase, PTL DEF Spec, QueueSpec

-----------------------------------------------------------------------------
(* What is done to the record of a request. *)

\* Abandon, Bind, the sweeps and Cancel ask a request to stop.
Asked(r, s) ==
    s = r \/ s = RequestAbandon(r) \/ s = RequestBindAbandon(r) \/ s = RequestCancel(r)

\* What being asked to stop may change in a record: the stop mode of a running
\* request and its context, and for a meta search that it is to complete.
LEMMA AskedFields ==
    ASSUME NEW r \in TrackedOperations, NEW s, Asked(r, s)
    PROVE  /\ s \in TrackedOperations
           /\ s.phase = r.phase /\ s.cancelable = r.cancelable
           /\ s.abandonable = r.abandonable /\ s.longLived = r.longLived
           /\ s.metaSearch = r.metaSearch /\ s.metaSeen = r.metaSeen
           /\ \/ s.stop = r.stop
              \/ r.stop = "running" /\ ~PastFinal(r) /\ s.stop # "running"
           /\ s.stop = "canceled" =>
                 \/ r.stop = "canceled"
                 \/ r.cancelable /\ r.phase = "executing" /\ ~(r.metaSearch /\ r.metaSeen)
           /\ r.metaCompletes => s.metaCompletes
           /\ s.metaCompletes => r.metaCompletes \/ r.metaSeen
           /\ s.ctx => r.ctx \/ s.stop # "running" \/ s.metaCompletes
<1>1. CASE s = r
  BY <1>1
<1>2. CASE s = RequestAbandon(r) \/ s = RequestBindAbandon(r)
  <2>1. /\ s \in TrackedOperations
        /\ s.phase = r.phase /\ s.cancelable = r.cancelable
        /\ s.abandonable = r.abandonable /\ s.longLived = r.longLived
        /\ s.metaSearch = r.metaSearch /\ s.metaSeen = r.metaSeen
        /\ s.metaCompletes = r.metaCompletes
        /\ \/ s = r
           \/ r.stop = "running" /\ s.stop = "abandoned" /\ s.ctx = TRUE /\ ~PastFinal(r)
    BY <1>2, AbandonFields, ZenonT(60)
  <2>. QED  BY <2>1
<1>3. CASE s = RequestCancel(r)
  <2>1. CASE CancelResult(r) = "success"
    BY <1>3, <2>1, CancelFields
  <2>2. CASE CancelResult(r) # "success"
    BY <1>3, <2>2, CancelFields
  <2>. QED  BY <2>1, <2>2
<1>. QED  BY <1>1, <1>2, <1>3 DEF Asked

\* The queue has been closed and operationRegistry.shutdown follows or has run.
Down == {"shutdown", "hangup", "gone"}

\* shutdown finishes what is registered; nothing else outside the executors does more
\* than ask requests to stop.
LEMMA ElsewhereOps ==
    ASSUME Typed, Elsewhere
    PROVE  \/ registry' = registry /\ \A p \in Ops : Asked(op[p], op'[p])
           \/ /\ rpc' \in {"hangup", "gone"} /\ registry' = {}
              /\ \A p \in Ops : op'[p] = IF p \in registry THEN FinishOperation(op[p]) ELSE op[p]
<1>. USE DEF Asked
<1>0. op \in [Ops -> TrackedOperations]
  BY DEF Typed, LifeTypes
<1>1. CASE UNCHANGED lifeVars
  BY <1>1 DEF lifeVars
<1>2. CASE AbandonLongLived /\ UNCHANGED registry
  BY <1>2 DEF AbandonLongLived
<1>3. CASE Shutdown /\ rpc' \in {"hangup", "gone"}
  BY <1>3 DEF Shutdown, FinishAll
<1>4. CASE StopRequest
  <2>1. PICK t \in Ops : \/ op' = [op EXCEPT ![t] = RequestAbandon(@)]
                         \/ op' = [op EXCEPT ![t] = RequestCancel(@)]
                         \/ op' = [op EXCEPT ![t] = RequestBindAbandon(@)]
    BY <1>4 DEF StopRequest, AbandonTracked, CancelTracked, AbandonForBind
  <2>2. UNCHANGED registry
    BY <1>4 DEF StopRequest, AbandonTracked, CancelTracked, AbandonForBind
  <2>. QED  BY <2>1, <2>2, <1>0
<1>5. CASE ReaderMove
  BY <1>5, <1>1 DEF ReaderMove, ReadEnds, ReadNext, CancelTargetDone, WaitInterrupted, BarrierDone,
              ReadBind
<1>6. CASE TakeDown
  BY <1>6, <1>1, <1>2, <1>3
     DEF TakeDown, DrainSweep, DrainEnds, CancelConnection, ShutdownOperations, HangUp, LeaveStep
<1>7. CASE ServerEvent
  BY <1>7, <1>1, <1>2 DEF ServerEvent, ConnectionLost, IdleCheck, IdleClose, BeginDrain,
              SweepLongLived, ForceOperations, RemoteDecides
<1>8. CASE UNCHANGED vars
  BY <1>8, <1>1 DEF vars
<1>. QED  BY <1>4, <1>5, <1>6, <1>7, <1>8 DEF Elsewhere

\* The reader's place after such a step.
LEMMA ElsewhereReader ==
    ASSUME Elsewhere
    PROVE  /\ rpc \in Down => rpc' \in Down
           /\ rpc' \in Down => rpc \in Down \/ registry' = {}
           /\ rpc \in Leaving => rpc' \in Leaving
<1>. USE DEF Down, Leaving
<1>1. CASE ReaderMove
  BY <1>1 DEF ReaderMove, ReadEnds, ReadNext, CancelTargetDone, WaitInterrupted, BarrierDone,
              ReadBind, R
<1>2. CASE StopRequest
  BY <1>2 DEF StopRequest, AbandonTracked, CancelTracked, AbandonForBind, R
<1>3. CASE TakeDown
  BY <1>3 DEF TakeDown, DrainSweep, DrainEnds, CancelConnection, ShutdownOperations, HangUp,
              LeaveStep, Shutdown, FinishAll
<1>4. CASE ServerEvent
  BY <1>4 DEF ServerEvent, ConnectionLost, IdleCheck, IdleClose, BeginDrain,
              SweepLongLived, ForceOperations, RemoteDecides, readerVars
<1>5. CASE UNCHANGED vars
  BY <1>5 DEF vars, readerVars
<1>. QED  BY <1>1, <1>2, <1>3, <1>4, <1>5 DEF Elsewhere

\* What a handler does to its own request's record: it never finishes it...
LEMMA HandlerPhase ==
    ASSUME QueueInv, Typed, NEW e \in Executors, HandlerStep(e), ~Finish(e)
    PROVE  /\ at'[e] # "complete"
           /\ UNCHANGED registry
           /\ op'[exec[e]].phase = "complete" <=> op[exec[e]].phase = "complete"
<1>0. LocalTo(e) /\ exec[e] \in Ops /\ op[exec[e]] \in TrackedOperations /\ at \in [Executors -> ExecutorSteps]
  BY HandlerStepIsLocal DEF LocalTo, Typed, LifeTypes, ExecTypes
<1>1. CASE Start(e) \/ DispatchMeta(e) \/ MetaEntry(e) \/ CommitPoint(e)
           \/ SendRemote(e) \/ Respond(e)
  <2>1. UNCHANGED registry
    BY <1>1 DEF Start, DispatchMeta, MetaEntry, CommitPoint, SendRemote, Respond
  <2>2. at'[e] # "complete"
    BY <1>0, <1>1 DEF Start, DispatchMeta, MetaEntry, CommitPoint, SendRemote, Respond,
                      Goto, Returns, execVars, S
  <2>3. \/ op' = op
        \/ op' = [op EXCEPT ![exec[e]] = StartOperation(@)] /\ CanStart(op[exec[e]])
        \/ op' = [op EXCEPT ![exec[e]] = EnableMetaBackendSearch(@)]
        \/ op' = [op EXCEPT ![exec[e]] = ObserveMetaBackendResponse(@)]
        \/ op' = [op EXCEPT ![exec[e]] = MarkCommitPoint(@)]
        \/ op' = [op EXCEPT ![exec[e]] = DisableCancellationForRemoteCommit(@)]
        \/ op' = [op EXCEPT ![exec[e]] = BeginFinalResponse(@)]
    BY <1>1 DEF Start, DispatchMeta, MetaEntry, CommitPoint, SendRemote, Respond
  <2>4. op \in [Ops -> TrackedOperations]
    BY DEF Typed, LifeTypes
  <2>5. op'[exec[e]].phase = "complete" <=> op[exec[e]].phase = "complete"
    BY <1>0, <2>3, <2>4
       DEF TrackedOperations, StartOperation, CanStart, EnableMetaBackendSearch,
           ObserveMetaBackendResponse, MarkCommitPoint, DisableCancellationForRemoteCommit,
           BeginFinalResponse, PastFinal
  <2>. QED  BY <2>1, <2>2, <2>5
<1>2. CASE CommitWrite(e) \/ DispatchProxyWrite(e) \/ AwaitRemote(e) \/ DispatchFails(e)
           \/ CloneState(e) \/ Acquire(e) \/ DispatchReject(e)
           \/ DispatchRead(e) \/ MetaDone(e) \/ DispatchPersist(e) \/ PersistStops(e)
           \/ PersistOverflows(e) \/ DispatchWrite(e)
  BY <1>0, <1>2
     DEF CloneState, Acquire, DispatchReject, DispatchRead, MetaDone, DispatchPersist, PersistStops,
         PersistOverflows, DispatchWrite, CommitWrite, DispatchProxyWrite, AwaitRemote, DispatchFails,
         lifeVars, Goto, Returns
<1>3. CASE \/ DispatchBind(e) \/ DispatchStartTLS(e) \/ Handshake(e) \/ DispatchTransaction(e)
           \/ WriteFinal(e) \/ ResponseLimit(e) \/ WriteCanceled(e)
  BY <1>0, <1>3
     DEF DispatchBind, DispatchStartTLS, Handshake, DispatchTransaction, WriteFinal, ResponseLimit,
          WriteCanceled, lifeVars, Goto, Returns
<1>4. CASE Post(e)
  BY <1>0, <1>4, PostCases DEF Typed, lifeVars, Goto
<1>. QED  BY <1>1, <1>2, <1>3, <1>4 DEF HandlerStep

\* ... except at the end.
LEMMA FinishEffect ==
    ASSUME QueueInv, Typed, NEW e \in Executors, Finish(e)
    PROVE  /\ LocalTo(e) /\ S(e, "finish") /\ at'[e] = "complete"
           /\ registry' = registry \ {exec[e]}
           /\ op'[exec[e]] = FinishOperation(op[exec[e]])
           /\ UNCHANGED <<wireVars, sessionVars, out, snap>>
<1>1. LocalTo(e)
  BY HandlerStepIsLocal DEF HandlerStep, Typed
<1>2. at'[e] = "complete"
  BY DEF Finish, Goto, Typed, ExecTypes
<1>. QED  BY <1>1, <1>2 DEF Finish, FinishAll, LocalTo

-----------------------------------------------------------------------------
(* The registry. *)

\* A request that the queue or a goroutine still has.
Live(o) == status[o] \in {"queued", "running"}

\* What is registered is live.
RegisteredAreLive ==
    \A o \in registry : /\ Live(o) \/ (rpc \in Down /\ status[o] = "dropped")
                        /\ op[o].phase # "complete"
\* A completed record is no longer registered.
CompletedAreOut ==
    \A e \in Executors : at[e] = "complete" => /\ exec[e] \notin registry
                                               /\ op[exec[e]].phase = "complete"
\* What is live is registered until its executor has finished it, or shutdown
\* has.
LiveAreRegistered ==
    rpc \notin Down => /\ \A o \in Ops : status[o] = "queued" => o \in registry
                       /\ \A e \in Executors : pc[e] = "run" /\ at[e] # "complete" => exec[e] \in registry
\* The registry's part of the inductive invariant.
RegistryInv == RegisteredAreLive /\ CompletedAreOut /\ LiveAreRegistered

\* What the base invariant says of the registry, the records and the executors.
LEMMA RegistryFacts ==
    ASSUME BaseInv
    PROVE  /\ registry \subseteq Ops /\ at \in [Executors -> ExecutorSteps]
           /\ \A o \in Ops : op[o] \in TrackedOperations
           /\ \A e \in Executors : pc[e] = "run" => exec[e] \in Ops /\ status[exec[e]] = "running"
           /\ \A e, f \in Executors : pc[e] = "run" /\ exec[e] = exec[f] => e = f
           /\ \A e \in Executors : at[e] = "none" <=> pc[e] # "run"
           /\ QueueInv /\ Typed /\ Reader \in Executors
BY NotRunningElsewhere DEF BaseInv, Typed, LifeTypes, ExecTypes, AtMatchesPc

\* A new request is in nobody's hands.
LEMMA NewIsUnknown ==
    ASSUME BaseInv, RegistryInv, NEW o \in Ops, status[o] = "new"
    PROVE  o \notin registry /\ \A e \in Executors : exec[e] # o
<1>1. o \notin registry
  BY DEF RegistryInv, RegisteredAreLive, Live
<1>2. \A e \in Executors : exec[e] # o
  BY NotRunningElsewhere, OpsAssumption DEF BaseInv
<1>. QED  BY <1>1, <1>2

\* Admission registers a request when it queues it and not when it refuses it.
LEMMA RegistryAdmit ==
    ASSUME BaseInv, RegistryInv, NEW o \in Ops, NEW k, InHand(o, k), Admit(o, k) \/ TurnAway(o, k)
    PROVE  RegistryInv'
<1>. USE DEF RegistryInv, RegisteredAreLive, CompletedAreOut, LiveAreRegistered, Live
<1>0. SameExecutors /\ status[o] = "new" /\ rpc \notin Down /\ rpc' \notin Down /\ at' = at
      /\ \A p \in Ops : p # o => status'[p] = status[p]
      /\ op' \in [Ops -> TrackedOperations]
  <2>1. rpc \notin Down /\ rpc' \notin Down /\ at' = at
    BY DEF InHand, R, Admit, TurnAway, Down, execVars
  <2>2. op' \in [Ops -> TrackedOperations]
    BY RegistryFacts, TrackedOperationsClosed, NewOperationType DEF Admit, TurnAway, BaseInv, Typed, LifeTypes
  <2>3. CASE Admit(o, k)
    <3>1. PICK c \in BOOLEAN : Push(o, c)
      BY <2>3 DEF Admit, CanRunConcurrent
    <3>. QED  BY <2>1, <2>2, <3>1, PushEffect DEF BaseInv
  <2>4. CASE TurnAway(o, k)
    <3>1. PICK c \in BOOLEAN : Refuse(o, c)
      BY <2>4 DEF TurnAway, CanRunConcurrent
    <3>. QED  BY <2>1, <2>2, <3>1, RefuseEffect DEF BaseInv
  <2>. QED  BY <2>3, <2>4
<1>1. o \notin registry /\ \A e \in Executors : exec[e] # o
  BY <1>0, NewIsUnknown
<1>2. CASE Admit(o, k)
  <2>1. /\ status'[o] = "queued" /\ registry' = registry \cup {o}
        /\ op'[o].phase = "pending" /\ \A p \in Ops : p # o => op'[p] = op[p]
    <3>1. op' = [op EXCEPT ![o] = NewOperation(k)] /\ op \in [Ops -> TrackedOperations]
      BY <1>2 DEF Admit, BaseInv, Typed, LifeTypes
    <3>2. NewOperation(k).phase = "pending"
      BY DEF NewOperation, NewTrackedOperation
    <3>3. status'[o] = "queued" /\ registry' = registry \cup {o}
      BY <1>2, PushEffect DEF Admit, CanRunConcurrent, BaseInv
    <3>. QED  BY <3>1, <3>2, <3>3
  <2>. QED  BY <1>0, <1>1, <2>1, RegistryFacts DEF SameExecutors
<1>3. CASE TurnAway(o, k)
  <2>1. /\ status'[o] = "refused" /\ registry' = registry
        /\ \A p \in Ops : p # o => op'[p] = op[p]
    <3>1. op' = [op EXCEPT ![o] = FinishOperation(NewOperation(k))] /\ op \in [Ops -> TrackedOperations]
      BY <1>3 DEF TurnAway, BaseInv, Typed, LifeTypes
    <3>3. status'[o] = "refused" /\ registry' = registry
      BY <1>3, RefuseEffect DEF TurnAway, CanRunConcurrent, BaseInv
    <3>. QED  BY <3>1, <3>3
  <2>. QED  BY <1>0, <1>1, <2>1, RegistryFacts DEF SameExecutors
<1>. QED  BY <1>2, <1>3

\* An executor takes its own request out of the registry when it finishes it,
\* and at no other step.
LEMMA RegistryExecute ==
    ASSUME BaseInv, RegistryInv, NEW e \in Executors, HandlerStep(e) \/ CompleteOperation(e)
    PROVE  RegistryInv'
<1>. USE DEF RegistryInv, RegisteredAreLive, CompletedAreOut, LiveAreRegistered, Live
<1>1. CASE HandlerStep(e)
  <2>0. LocalTo(e) /\ UNCHANGED <<status, exec, pc, rpc>> /\ exec[e] \in Ops
    BY <1>1, HandlerStepIsLocal, UnchangedQueue DEF LocalTo, BaseInv, Typed, readerVars
  <2>1. \A f \in Executors : f # e => at'[f] = at[f] /\ (pc[f] = "run" => exec[f] # exec[e])
    BY <2>0, RegistryFacts DEF LocalTo
  <2>2. \A p \in Ops : p # exec[e] => op'[p] = op[p] /\ (p \in registry' <=> p \in registry)
    BY <2>0 DEF LocalTo
  <2>3. registry' \subseteq registry /\ registry \subseteq Ops
    BY <1>1, HandlerPhase, FinishEffect DEF BaseInv, Typed, LifeTypes
  <2>4. CASE Finish(e)
    <3>1. op[exec[e]] \in TrackedOperations /\ QueueInv /\ Typed
      BY <2>0, RegistryFacts
    <3>2. at'[e] = "complete" /\ exec[e] \notin registry' /\ op'[exec[e]] = FinishOperation(op[exec[e]])
      BY <2>4, <3>1, FinishEffect
    <3>3. op'[exec[e]].phase = "complete"
      BY <3>1, <3>2 DEF FinishOperation, TrackedOperations
    <3>4. RegisteredAreLive'
      BY <2>0, <2>2, <2>3, <3>2
    <3>5. CompletedAreOut'
      <4>1. SUFFICES ASSUME NEW f \in Executors, at'[f] = "complete"
                     PROVE  exec[f] \notin registry' /\ op'[exec[f]].phase = "complete"
        BY <2>0
      <4>2. CASE f # e
        BY <2>0, <2>1, <2>2, <4>1, <4>2, RegistryFacts
      <4>. QED  BY <3>2, <3>3, <4>2
    <3>6. LiveAreRegistered'
      <4>1. SUFFICES ASSUME rpc \notin Down
                     PROVE  /\ \A o \in Ops : status[o] = "queued" => o \in registry'
                            /\ \A f \in Executors : pc[f] = "run" /\ at'[f] # "complete" => exec[f] \in registry'
        BY <2>0
      <4>2. status[exec[e]] = "running"
        BY <2>0, RegistryFacts DEF LocalTo
      <4>3. ASSUME NEW f \in Executors, pc[f] = "run", at'[f] # "complete" PROVE exec[f] \in registry'
        BY <2>1, <2>2, <3>2, <4>1, <4>3, RegistryFacts
      <4>. QED  BY <2>2, <4>1, <4>2, <4>3
    <3>. QED  BY <3>4, <3>5, <3>6
  <2>5. CASE ~Finish(e)
    <3>1. at'[e] # "complete" /\ registry' = registry
          /\ (op'[exec[e]].phase = "complete" <=> op[exec[e]].phase = "complete")
      <4>1. QueueInv /\ Typed
        BY Zenon DEF BaseInv
      <4>. QED  BY <1>1, <2>5, <4>1, HandlerPhase
    <3>2. at[e] # "complete"
      BY <1>1, <2>5, PostCases DEF HandlerStep, CloneState, Acquire, Start, DispatchReject, DispatchRead, DispatchMeta,
             MetaEntry, MetaDone, DispatchPersist, PersistStops, PersistOverflows, DispatchWrite,
             CommitPoint, CommitWrite, DispatchProxyWrite, SendRemote, AwaitRemote, DispatchFails, DispatchBind,
             DispatchStartTLS, Handshake, DispatchTransaction, Respond, WriteFinal, ResponseLimit,
              WriteCanceled, Post, S, At
    <3>. QED  BY <2>0, <2>1, <2>2, <3>1, <3>2, RegistryFacts
  <2>. QED  BY <2>4, <2>5
<1>2. CASE CompleteOperation(e)
  <2>1. /\ pc[e] = "run" /\ exec[e] \in Ops /\ at[e] = "complete"
        /\ pc'[e] = "return" /\ exec'[e] = NoOp
        /\ \A f \in Executors : f # e => exec'[f] = exec[f] /\ (pc'[f] = "run" <=> pc[f] = "run")
        /\ \A p \in Ops : p # exec[e] => status'[p] = status[p]
        /\ status'[exec[e]] = "done"
    BY <1>2, CompleteEffect DEF CompleteOperation, BaseInv
  <2>2. UNCHANGED <<rpc, op, registry>> /\ at' = [at EXCEPT ![e] = "none"]
    BY <1>2 DEF CompleteOperation, lifeVars, Goto
  <2>3. exec[e] \notin registry
    BY <2>1
  <2>. QED  BY <2>1, <2>2, <2>3, RegistryFacts
<1>. QED  BY <1>1, <1>2

\* Every step keeps the registry exact.
LEMMA RegistryStep ==
    ASSUME BaseInv, RegistryInv, [Next]_vars
    PROVE  RegistryInv'
<1>. USE DEF RegistryInv, RegisteredAreLive, CompletedAreOut, LiveAreRegistered, Live
<1>f. ASSUME SameExecutors, UNCHANGED <<status, at, op, registry>>, rpc' \in Down <=> rpc \in Down
      PROVE  RegistryInv'
  BY <1>f, RegistryFacts DEF SameExecutors
<1>1. ASSUME NEW w \in Workers, PopOperation(w) PROVE RegistryInv'
  <2>1. /\ Head(items) \in Ops /\ status[Head(items)] = "queued"
        /\ w \in Executors /\ pc'[w] = "run" /\ exec'[w] = Head(items)
        /\ \A e \in Executors : e # w => pc'[e] = pc[e] /\ exec'[e] = exec[e]
        /\ status'[Head(items)] = "running"
        /\ \A p \in Ops : p # Head(items) => status'[p] = status[p]
    BY <1>1, PopEffect DEF PopOperation, BaseInv
  <2>2. at' = [at EXCEPT ![w] = "clone"] /\ UNCHANGED <<op, registry, rpc>>
    BY <1>1 DEF PopOperation, Goto, lifeVars, readerVars
  <2>. QED  BY <2>1, <2>2, RegistryFacts
<1>2. ASSUME NEW w \in Workers, PopNothing(w) PROVE RegistryInv'
  BY <1>2, <1>f, MoveEffect, NotRunningElsewhere DEF PopNothing, execVars, lifeVars, readerVars, BaseInv
<1>3. ASSUME NEW e \in Executors, ReturnTrue(e) \/ ReturnFalse(e) PROVE RegistryInv'
  <2>1. rpc' \in Down <=> rpc \in Down
    <3>1. e = Reader => rpc = "admit"
      BY <1>3 DEF BaseInv, ReaderControl, ReturnTrue, ReturnFalse, Continue, GiveUp
    <3>. QED  BY <1>3, <3>1 DEF ReturnTrue, ReturnFalse, Down
  <2>. QED  BY <1>3, <2>1, <1>f, MoveEffect DEF ReturnTrue, ReturnFalse, execVars, lifeVars, BaseInv
<1>4. ASSUME ClaimBind, rop \in Ops PROVE RegistryInv'
  <2>1. QueueInv
    BY DEF BaseInv
  <2>2. PICK o \in Ops :
          /\ o = rop
          /\ pc'[Reader] = "run" /\ exec'[Reader] = o /\ status[o] = "new" /\ status'[o] = "running"
          /\ \A e \in Executors : e # Reader => pc'[e] = pc[e] /\ exec'[e] = exec[e]
          /\ \A p \in Ops : p # o => status'[p] = status[p]
    BY <1>4, <2>1, ClaimBindEffect
  <2>3. /\ at' = [at EXCEPT ![Reader] = "clone"] /\ registry' = registry \cup {o}
        /\ op' = [op EXCEPT ![o] = NewOperation("bind")] /\ rpc' = "admit" /\ rpc = "admit"
    BY <1>4, <2>2 DEF ClaimBind, Goto, R
  <2>4. NewOperation("bind").phase = "pending"
    BY DEF NewOperation, NewTrackedOperation
  <2>5. op \in [Ops -> TrackedOperations]
    BY DEF BaseInv, Typed, LifeTypes
  <2>6. o \notin registry /\ \A e \in Executors : exec[e] # o
    BY <2>2, NewIsUnknown
  <2>. QED  BY <2>1, <2>2, <2>3, <2>4, <2>5, <2>6, RegistryFacts DEF Down
<1>5. ASSUME NEW t \in Ops, AbandonQueued(t) PROVE RegistryInv'
  <2>1. /\ SameExecutors /\ status[t] = "queued" /\ status'[t] = "dropped"
        /\ \A p \in Ops : p # t => status'[p] = status[p]
    BY <1>5, RemoveEffect DEF AbandonQueued, BaseInv
  <2>2. /\ op' = [op EXCEPT ![t] = FinishOperation(RequestAbandon(@))]
        /\ registry' = registry \ {t} /\ rpc' = "loop" /\ rpc = "reading" /\ at' = at
    BY <1>5 DEF AbandonQueued, R, execVars
  <2>3. op \in [Ops -> TrackedOperations]
    BY DEF BaseInv, Typed, LifeTypes
  <2>. QED  BY <2>1, <2>2, <2>3, RegistryFacts DEF SameExecutors, Down
<1>6. CASE BindDiscards
  <2>1. SameExecutors /\ DropsQueued
    BY <1>6, DiscardEffect DEF BindDiscards, BaseInv
  <2>2. /\ registry' = registry \ ToSet(items) /\ rpc' = "admit" /\ rpc = "bind" /\ at' = at
        /\ \A p \in Ops : p \notin ToSet(items) => op'[p] = op[p]
    BY <1>6 DEF BindDiscards, FinishAll, R, execVars
  <2>3. \A p \in Ops : p \in ToSet(items) <=> status[p] = "queued"
    BY QueuedAreItems DEF BaseInv
  <2>. QED  BY <2>1, <2>2, <2>3, RegistryFacts DEF SameExecutors, Down, DropsQueued
<1>7. CASE DrainClose
  BY <1>7, <1>f, CloseEffect DEF DrainClose, LeaveStep, execVars, lifeVars, BaseInv, Down
<1>8. CASE CloseQueue
  <2>1. SameExecutors /\ DropsQueued /\ UNCHANGED <<at, op, registry>> /\ rpc' = "shutdown"
    BY <1>8, CloseEffect DEF CloseQueue, LeaveStep, execVars, lifeVars, BaseInv
  <2>. QED  BY <2>1, RegistryFacts DEF SameExecutors, Down, DropsQueued
<1>9. CASE Elsewhere
  <2>1. UNCHANGED <<pc, exec, status, at>>
    BY <1>9, ElsewhereFrame, UnchangedQueue DEF execVars
  <2>2. /\ rpc \in Down => rpc' \in Down
        /\ rpc' \in Down => rpc \in Down \/ registry' = {}
    BY <1>9, ElsewhereReader
  <2>3. CASE registry' = registry /\ \A p \in Ops : Asked(op[p], op'[p])
    <3>1. \A p \in Ops : op'[p].phase = op[p].phase
      BY <2>3, RegistryFacts, AskedFields
    <3>. QED  BY <2>1, <2>2, <2>3, <3>1, RegistryFacts
  <2>4. CASE /\ rpc' \in {"hangup", "gone"} /\ registry' = {}
             /\ \A p \in Ops : op'[p] = IF p \in registry THEN FinishOperation(op[p]) ELSE op[p]
    BY <2>1, <2>2, <2>4, RegistryFacts DEF Down
  <2>. QED  BY <1>9, <2>3, <2>4, ElsewhereOps DEF BaseInv
<1>. QED
  BY <1>1, <1>2, <1>3, <1>4, <1>5, <1>6, <1>7, <1>8, <1>9, RegistryAdmit, RegistryExecute, StepCases
     DEF BaseInv

\* The registry is exact initially.
LEMMA InitRegistry == Init => RegistryInv
<1>. SUFFICES ASSUME Init PROVE RegistryInv
  OBVIOUS
<1>1. status = [o \in Ops |-> "new"] /\ pc = [e \in Executors |-> IF e = Reader THEN "read" ELSE "pop"]
  BY DEF Init, QueueInit
<1>. QED  BY <1>1 DEF Init, RegistryInv, RegisteredAreLive, CompletedAreOut, LiveAreRegistered

\* The registry is exact in every reachable state.
THEOREM RegistryKept == Spec => [](BaseInv /\ RegistryInv)
<1>1. Init => BaseInv /\ RegistryInv
  BY InitBase, InitRegistry
<1>2. BaseInv /\ RegistryInv /\ [Next]_vars => (BaseInv /\ RegistryInv)'
  BY BaseStep, RegistryStep
<1>. QED  BY <1>1, <1>2, PTL DEF Spec

\* The registry knows exactly the live requests.
THEOREM RegistryIsExact == Spec => []RegistryTracksLiveRequests
<1>1. BaseInv /\ RegistryInv => RegistryTracksLiveRequests
  <2>. SUFFICES ASSUME BaseInv, RegistryInv, rpc \notin Down
               PROVE  registry = {o \in Ops : status[o] = "queued" \/
                        \E e \in Executors : exec[e] = o /\ at[e] # "complete"}
    BY DEF RegistryTracksLiveRequests, Down
  <2>1. ASSUME NEW o \in registry
        PROVE  o \in Ops /\ (status[o] = "queued" \/ \E e \in Executors : exec[e] = o /\ at[e] # "complete")
    <3>1. o \in Ops /\ (status[o] = "queued" \/ status[o] = "running")
      BY RegistryFacts DEF RegistryInv, RegisteredAreLive, Live
    <3>2. CASE status[o] = "running"
      <4>1. PICK e \in Executors : exec[e] = o
        BY <3>1, <3>2 DEF BaseInv, RunningExecuted
      <4>2. at[e] # "complete"
        BY <4>1 DEF RegistryInv, CompletedAreOut
      <4>. QED  BY <3>1, <4>1, <4>2
    <3>. QED  BY <3>1, <3>2
  <2>2. ASSUME NEW o \in Ops, status[o] = "queued" \/ \E e \in Executors : exec[e] = o /\ at[e] # "complete"
        PROVE  o \in registry
    <3>1. CASE status[o] = "queued"
      BY <3>1 DEF RegistryInv, LiveAreRegistered
    <3>2. CASE \E e \in Executors : exec[e] = o /\ at[e] # "complete"
      <4>1. PICK e \in Executors : exec[e] = o /\ at[e] # "complete"
        BY <3>2
      <4>2. pc[e] = "run"
        BY <4>1, NotRunningElsewhere, OpsAssumption DEF BaseInv
      <4>. QED  BY <4>1, <4>2 DEF RegistryInv, LiveAreRegistered
    <3>. QED  BY <2>2, <3>1, <3>2
  <2>. QED  BY <2>1, <2>2
<1>. QED  BY <1>1, RegistryKept, PTL

=============================================================================
