----------------------------- MODULE Connection -----------------------------
(***************************************************************************)
(* One LDAP connection of internal/server: the reader goroutine of         *)
(* serveConnection, the workers that run runConnectionOperation, the       *)
(* operation registry through which Abandon, Cancel, Bind and the drain    *)
(* stop requests, the idle watcher, and the two ways a connection ends.    *)
(* The operation queue is OperationQueue, a request's life is              *)
(* TrackedOperation.                                                       *)
(*                                                                         *)
(* Requests are abstracted to a kind.  An executor walks through the steps *)
(*     clone, acquire, start, dispatch, ..., post, (canceled,) finish      *)
(* of runConnectionOperation; each step takes at most one lock, so other   *)
(* goroutines interleave between any two of them.                          *)
(***************************************************************************)
EXTENDS OperationQueue, TrackedOperation

CONSTANTS
    Kinds,                    \* the kinds of requests this client sends
    MaxConcurrentOperations,  \* slots of the server-wide operationLimiter
    Events                    \* what happens to this connection from outside

AllKinds == {"search", "metasearch", "persist", "whoami", "write", "proxywrite",
             "bind", "saslbind", "starttls", "badstarttls", "txnstart", "txnend"}

ASSUME KindsAssumption == Kinds \subseteq AllKinds
ASSUME EventsAssumption == Events \subseteq {"lost", "idle", "drain", "force"}
ASSUME LimiterAssumption == MaxConcurrentOperations \in Nat \ {0}

VARIABLES
    kind,       \* what each request asks for
    op,         \* its trackedOperation
    registry,   \* operationRegistry.operations
    sent,       \* the final responses written for each request, in order
    committed,  \* requests whose local write has taken effect
    acked,      \* "success" and "tooLate" answers to Cancels of each request
    remote,     \* requests sent to another server that may still take effect there
    applied,    \* requests that another server has carried out
    at,         \* where each executor is in runConnectionOperation
    out,        \* "ok", or "err": an error or a request to close the connection
    snap,       \* the session its cloned connectionState belongs to
    session,    \* number of changes of identity or transport so far
    readIn,     \* the session in which each request was read
    sasl,       \* connectionState.saslSession # nil
    txn,        \* connectionState.transaction # nil
    txnAdm,     \* connectionState.transactionAdmission
    rpc,        \* where the reader is in serveConnection
    rop,        \* the request the reader is busy with (Bind, Cancel target)
    rset,       \* what abandonForBind has still to stop
    completion, \* queuedOperation.completion of the request in rop
    connDone,   \* connectionContext is canceled
    connClosed, \* the network connection is closed (or writeFailed latched)
    draining,   \* Server.draining
    swept,      \* beginConnectionDrain has visited this connection
    idle        \* the idle watcher: "watching", "closing" or "done"

lifeVars == <<op, registry>>
remoteVars == <<remote, applied>>
wireVars == <<sent, committed, acked, remoteVars>>
execVars == <<at, out, snap>>
sessionVars == <<session, sasl, txn, txnAdm>>
readerVars == <<kind, readIn, rpc, rop, rset, completion>>
endVars == <<connDone, connClosed, draining, swept, idle>>
vars == <<queueVars, lifeVars, wireVars, execVars, sessionVars, readerVars, endVars>>

-----------------------------------------------------------------------------
(* Kinds. *)

Binds == {"bind", "saslbind"}
Searches == {"search", "metasearch", "persist"}

\* operationRequestCancelable
Cancelable(k) == k \in Searches \cup {"write", "proxywrite"}

\* Mutant: only Bind stops the reader.
ConnectionReadBarrier_BindOnly(k) == k \in Binds

\* Mutant: a SASL Bind does not stop the reader.
ConnectionReadBarrier_SimpleOnly(k) == k \in {"bind", "starttls", "badstarttls"}

\* connectionReadBarrier: the reader waits until these have completed.
ConnectionReadBarrier(k) == k \in Binds \cup {"starttls", "badstarttls"}

\* connectionOperationCanRunConcurrent; ta is the transactionAdmission it loads.
CanRunConcurrent(k, ta) ==
    k \in Searches \cup {"whoami"} /\ ~txn /\ ~sasl /\ ~ta

\* newTrackedOperation
NewOperation(k) ==
    NewTrackedOperation(Cancelable(k), k \notin Binds, k = "persist")

ContextDone(o) == op[o].ctx \/ connDone

-----------------------------------------------------------------------------
(* runConnectionOperation.  S(e, s): executor e is at step s. *)

S(e, s) == pc[e] = "run" /\ at[e] = s

Goto(e, s) == at' = [at EXCEPT ![e] = s]
Returns(e, result) == at' = [at EXCEPT ![e] = "post"] /\ out' = [out EXCEPT ![e] = result]

\* The steps that hold a slot of the operationLimiter.
SlotSteps == {"start", "dispatch", "commitpoint", "commit", "remote", "await", "meta",
              "persist", "direct", "respond", "write", "handshake"}
SlotHolders == {e \in Executors : pc[e] = "run" /\ at[e] \in SlotSteps}

\* A worker takes the head of the queue.
PopOperation(w) ==
    /\ Pop(w)
    /\ Goto(w, "clone")
    /\ out' = [out EXCEPT ![w] = "ok"]
    /\ UNCHANGED <<snap, lifeVars, wireVars, sessionVars, readerVars, endVars>>

PopNothing(w) ==
    /\ PopWait(w) \/ PopExit(w)
    /\ UNCHANGED <<lifeVars, wireVars, execVars, sessionVars, readerVars, endVars>>

\* cloneConcurrentConnectionState: a concurrent request works on a copy.
CloneState(e) ==
    /\ S(e, "clone")
    /\ snap' = [snap EXCEPT ![e] = session]
    /\ Goto(e, "acquire")
    /\ UNCHANGED <<out, queueVars, lifeVars, wireVars, sessionVars, readerVars, endVars>>

\* operationLimiter.acquire: a free slot, or the request's context is done.
Acquire(e) ==
    /\ S(e, "acquire")
    /\ \/ Cardinality(SlotHolders) < MaxConcurrentOperations /\ Goto(e, "start")
       \/ ContextDone(exec[e]) /\ Goto(e, "post")
    /\ UNCHANGED <<out, snap, queueVars, lifeVars, wireVars, sessionVars, readerVars, endVars>>

\* trackedOperation.start
Start(e) ==
    /\ S(e, "start")
    /\ IF CanStart(op[exec[e]])
       THEN op' = [op EXCEPT ![exec[e]] = StartOperation(@)] /\ Goto(e, "dispatch")
       ELSE UNCHANGED op /\ Goto(e, "post")
    /\ UNCHANGED <<out, snap, registry, queueVars, wireVars, sessionVars, readerVars, endVars>>

-----------------------------------------------------------------------------
(* dispatch and the handlers. *)

\* dispatch rejects everything but Bind during a SASL Bind.  A clone carries no
\* SASL session.
RejectedDuringSASL(e) == sasl /\ ~conc[exec[e]] /\ kind[exec[e]] \notin Binds

At(e, k) == S(e, "dispatch") /\ kind[exec[e]] = k /\ ~RejectedDuringSASL(e)

\* rejectOperationDuringSASLBind
DispatchReject(e) ==
    /\ S(e, "dispatch")
    /\ RejectedDuringSASL(e)
    /\ Goto(e, "direct")
    /\ UNCHANGED <<out, snap, queueVars, lifeVars, wireVars, sessionVars, readerVars, endVars>>

\* dispatch fails before any handler: bad controls, a Bind that an overlay or the
\* authorization-identity control turns away (its state may be dropped), and a
\* StartTLS that validation refuses.
DispatchFails(e) ==
    /\ S(e, "dispatch")
    /\ ~RejectedDuringSASL(e)
    /\ \/ UNCHANGED <<session, sasl, txn>>
       \/ /\ kind[exec[e]] \in Binds
          /\ session' = session + 1 /\ sasl' = FALSE /\ txn' = FALSE
    /\ Goto(e, "respond")
    /\ UNCHANGED <<txnAdm, out, snap, queueVars, lifeVars, wireVars, readerVars, endVars>>

\* A Search or Who Am I?: a result, or an error once its context is done.
DispatchRead(e) ==
    /\ At(e, "search") \/ At(e, "whoami")
    /\ \/ Goto(e, "respond") /\ UNCHANGED out
       \/ ContextDone(exec[e]) /\ Returns(e, "err")
    /\ UNCHANGED <<snap, queueVars, lifeVars, wireVars, sessionVars, readerVars, endVars>>

\* A search of a meta backend makes itself known to Cancel.
DispatchMeta(e) ==
    /\ At(e, "metasearch")
    /\ op' = [op EXCEPT ![exec[e]] = EnableMetaBackendSearch(@)]
    /\ Goto(e, "meta")
    /\ UNCHANGED <<out, snap, registry, queueVars, wireVars, sessionVars, readerVars, endVars>>

\* An entry of a target has been relayed.
MetaEntry(e) ==
    /\ S(e, "meta")
    /\ ~op[exec[e]].metaSeen
    /\ op' = [op EXCEPT ![exec[e]] = ObserveMetaBackendResponse(@)]
    /\ UNCHANGED <<registry, execVars, queueVars, wireVars, sessionVars, readerVars, endVars>>

\* Mutant: every canceled meta search returns without a result.
MetaReturnsSilently_Always(o) == ContextDone(o)

\* A meta search whose context is done writes no result, unless a late Cancel
\* left it to complete normally.
MetaReturnsSilently(o) == ContextDone(o) /\ ~op[o].metaCompletes

MetaDone(e) ==
    /\ S(e, "meta")
    /\ IF MetaReturnsSilently(exec[e]) THEN Goto(e, "post") ELSE Goto(e, "respond")
    /\ UNCHANGED <<out, snap, queueVars, lifeVars, wireVars, sessionVars, readerVars, endVars>>

\* persistSyncSearch: until the context is done or the change queue overflows.
DispatchPersist(e) ==
    /\ At(e, "persist")
    /\ Goto(e, "persist")
    /\ UNCHANGED <<out, snap, queueVars, lifeVars, wireVars, sessionVars, readerVars, endVars>>

PersistStops(e) ==
    /\ S(e, "persist")
    /\ ContextDone(exec[e])
    /\ Returns(e, "err")
    /\ UNCHANGED <<snap, queueVars, lifeVars, wireVars, sessionVars, readerVars, endVars>>

PersistOverflows(e) ==
    /\ S(e, "persist")
    /\ Goto(e, "respond")
    /\ UNCHANGED <<out, snap, queueVars, lifeVars, wireVars, sessionVars, readerVars, endVars>>

\* A local write is refused by validation or reaches updateStorage's callback.
DispatchWrite(e) ==
    /\ At(e, "write")
    /\ Goto(e, "respond") \/ Goto(e, "commitpoint")
    /\ UNCHANGED <<out, snap, queueVars, lifeVars, wireVars, sessionVars, readerVars, endVars>>

\* markTrackedOperationCommitPoint, the last thing the callback does: a
\* stopped request rolls back.
CommitPoint(e) ==
    /\ S(e, "commitpoint")
    /\ IF ResponseAllowed(op[exec[e]])
       THEN op' = [op EXCEPT ![exec[e]] = MarkCommitPoint(@)] /\ Goto(e, "commit")
       ELSE UNCHANGED op /\ Goto(e, "respond")
    /\ UNCHANGED <<out, snap, registry, queueVars, wireVars, sessionVars, readerVars, endVars>>

\* Store.Update looks at the context once more and commits, or fails.
CommitWrite(e) ==
    /\ S(e, "commit")
    /\ \/ ~ContextDone(exec[e]) /\ committed' = committed \cup {exec[e]}
       \/ UNCHANGED committed
    /\ Goto(e, "respond")
    /\ UNCHANGED <<sent, acked, remoteVars, out, snap, queueVars, lifeVars, sessionVars, readerVars,
                   endVars>>

\* A write of a chained or proxied entry is refused, or delegated.
DispatchProxyWrite(e) ==
    /\ At(e, "proxywrite")
    /\ Goto(e, "respond") \/ Goto(e, "remote")
    /\ UNCHANGED <<out, snap, queueVars, lifeVars, wireVars, sessionVars, readerVars, endVars>>

\* One attempt at a server.  Before a request that may commit there is written no
\* Cancel is granted any more; a stopped request is not written, and an attempt
\* may also fail before or after that mark with nothing sent.
SendRemote(e) ==
    /\ S(e, "remote")
    /\ \/ /\ ResponseAllowed(op[exec[e]])
          /\ op' = [op EXCEPT ![exec[e]] = DisableCancellationForRemoteCommit(@)]
          /\ remote' \in {remote, remote \cup {exec[e]}}
       \/ UNCHANGED <<op, remote>>
    /\ Goto(e, "await")
    /\ UNCHANGED <<sent, committed, acked, applied, out, snap, registry, queueVars, sessionVars,
                   readerVars, endVars>>

\* The server's answer, a timeout, an error of the transport or the end of the
\* context.  Unless it is the answer to use, the next referral or remote is
\* tried; a request that was sent may be sent again.
AwaitRemote(e) ==
    /\ S(e, "await")
    /\ Goto(e, "respond") \/ Goto(e, "remote")
    /\ UNCHANGED <<out, snap, queueVars, lifeVars, wireVars, sessionVars, readerVars, endVars>>

\* The other server carries a request out or refuses it, in its own time: the
\* client may have been answered long before, and the connection be gone.  That
\* one of two copies is refused while the other is on its way is a stutter.
RemoteDecides(o) ==
    /\ o \in remote
    /\ remote' = remote \ {o}
    /\ applied' \in {applied, applied \cup {o}}
    /\ UNCHANGED <<sent, committed, acked, queueVars, lifeVars, execVars, sessionVars, readerVars,
                   endVars>>

\* handleBind, handleSASLBind: the transaction and the identity are dropped
\* first, whatever the outcome; a SASL exchange may stay in progress.
DispatchBind(e) ==
    /\ S(e, "dispatch")
    /\ kind[exec[e]] \in Binds
    /\ session' = session + 1
    /\ txn' = FALSE
    /\ sasl' \in IF kind[exec[e]] = "saslbind" THEN BOOLEAN ELSE {FALSE}
    /\ Goto(e, "direct")
    /\ UNCHANGED <<txnAdm, out, snap, queueVars, lifeVars, wireVars, readerVars, endVars>>

\* handleStartTLS up to its response, which a handshake follows unless it is a
\* refusal; the identity may be dropped in either case.
DispatchStartTLS(e) ==
    /\ At(e, "starttls")
    /\ session' \in {session, session + 1}
    /\ Goto(e, "respond")
    /\ UNCHANGED <<sasl, txn, txnAdm, out, snap, queueVars, lifeVars, wireVars, readerVars, endVars>>

Handshake(e) ==
    /\ S(e, "handshake")
    /\ \/ session' = session + 1 /\ Returns(e, "ok")
       \/ UNCHANGED session /\ Returns(e, "err")
    /\ UNCHANGED <<sasl, txn, txnAdm, snap, queueVars, lifeVars, wireVars, readerVars, endVars>>

\* handleTransactionStart and handleTransactionEnd: refused, or the state of the
\* transaction changes.
DispatchTransaction(e) ==
    /\ \/ At(e, "txnstart") /\ txn' \in {txn, TRUE}
       \/ At(e, "txnend") /\ txn' \in {txn, FALSE}
    /\ Goto(e, "respond")
    /\ UNCHANGED <<session, sasl, txnAdm, out, snap, queueVars, lifeVars, wireVars, readerVars, endVars>>

-----------------------------------------------------------------------------
(* Responses. *)

\* beginFinalResponse, for the result of a handler or for the one that
\* runConnectionOperation writes in its place.
Respond(e) ==
    /\ S(e, "respond") \/ S(e, "limit")
    /\ IF ResponseAllowed(op[exec[e]])
       THEN /\ op' = [op EXCEPT ![exec[e]] = BeginFinalResponse(@)]
            /\ Goto(e, IF at[e] = "limit" THEN "limited" ELSE "write")
            /\ UNCHANGED out
       ELSE UNCHANGED op /\ Returns(e, "err")
    /\ UNCHANGED <<snap, registry, queueVars, wireVars, sessionVars, readerVars, endVars>>

\* writeOperationResponse: the final response, or an error once the connection
\* is closed.  StartTLS goes on to its handshake when it was accepted.
WriteFinal(e) ==
    /\ S(e, "write") \/ S(e, "direct") \/ S(e, "limited")
    /\ LET o == exec[e]
       IN  IF connClosed \/ ~ResponseAllowed(op[o])
           THEN UNCHANGED sent /\ Returns(e, "err")
           ELSE /\ sent' = [sent EXCEPT ![o] = Append(@, "result")]
                /\ \/ Returns(e, "ok")
                   \/ /\ kind[o] = "starttls" /\ at[e] = "write" /\ ~txn
                      /\ Goto(e, "handshake") /\ UNCHANGED out
    /\ UNCHANGED <<committed, acked, remoteVars, snap, queueVars, lifeVars, sessionVars, readerVars,
                   endVars>>

\* A Search runs into errSearchResponseLimit with one of its entries or with its
\* result; runConnectionOperation writes adminLimitExceeded instead, without limits.
ResponseLimit(e) ==
    /\ \E s \in {"dispatch", "meta", "persist", "direct", "write"} : S(e, s)
    /\ kind[exec[e]] \in Searches
    /\ Goto(e, "limit")
    /\ UNCHANGED <<out, snap, queueVars, lifeVars, wireVars, sessionVars, readerVars, endVars>>

\* After dispatch: a fence publishes whether a transaction is open, and the
\* stop mode decides what becomes of the result.
Post(e) ==
    /\ S(e, "post")
    /\ txnAdm' = IF conc[exec[e]] THEN txnAdm ELSE txn
    /\ CASE op[exec[e]].stop = "running"   -> Goto(e, "finish") /\ UNCHANGED out
         [] op[exec[e]].stop = "abandoned" -> /\ Goto(e, "finish")
                                              /\ out' = [out EXCEPT ![e] = "ok"]
         [] op[exec[e]].stop = "canceled"  -> Goto(e, "canceled") /\ UNCHANGED out
    /\ UNCHANGED <<session, sasl, txn, snap, queueVars, lifeVars, wireVars, readerVars, endVars>>

WriteCanceled(e) ==
    /\ S(e, "canceled")
    /\ sent' = IF connClosed THEN sent ELSE [sent EXCEPT ![exec[e]] = Append(@, "canceled")]
    /\ out' = [out EXCEPT ![e] = IF connClosed THEN "err" ELSE "ok"]
    /\ Goto(e, "finish")
    /\ UNCHANGED <<committed, acked, remoteVars, snap, queueVars, lifeVars, sessionVars, readerVars,
                   endVars>>

\* The idle watcher closes the connection with registry.mu held.
RegistryFree == idle # "closing"

\* Mutant: a finished request stays registered.
FinishAll_KeepsEntry(Q) ==
    /\ UNCHANGED registry
    /\ op' = [o \in Ops |-> IF o \in Q THEN FinishOperation(op[o]) ELSE op[o]]

\* operationRegistry.finish for a set of requests.
FinishAll(Q) ==
    /\ registry' = registry \ Q
    /\ op' = [o \in Ops |-> IF o \in Q THEN FinishOperation(op[o]) ELSE op[o]]

Finish(e) ==
    /\ S(e, "finish")
    /\ RegistryFree
    /\ FinishAll({exec[e]})
    /\ Goto(e, "complete")
    /\ UNCHANGED <<out, snap, queueVars, wireVars, sessionVars, readerVars, endVars>>

\* Mutant: nothing is sent on the completion channel.
Completion_Forgotten(e) == completion

\* What is sent on queuedOperation.completion, for which the reader may be waiting.
Completion(e) == IF rpc = "barrier" /\ rop = exec[e] THEN out[e] ELSE completion

\* queue.complete and the send on the completion channel.
CompleteOperation(e) ==
    /\ at[e] = "complete"
    /\ Complete(e)
    /\ Goto(e, "none")
    /\ snap' = [snap EXCEPT ![e] = 0]
    /\ completion' = Completion(e)
    /\ UNCHANGED <<kind, readIn, rpc, rop, rset, out, lifeVars, wireVars, sessionVars, endVars>>

\* The return value of runConnectionOperation.
ReturnTrue(e) ==
    /\ Continue(e)
    /\ ~connDone /\ out[e] = "ok"
    /\ rpc' = IF e = Reader THEN "loop" ELSE rpc
    /\ UNCHANGED <<kind, readIn, rop, rset, completion, execVars, lifeVars, wireVars, sessionVars, endVars>>

ReturnFalse(e) ==
    /\ GiveUp(e)
    /\ connDone \/ out[e] # "ok"
    /\ connClosed' = (connClosed \/ ~connDone)
    /\ rpc' = IF e = Reader THEN "leave" ELSE rpc
    /\ UNCHANGED <<kind, readIn, rop, rset, completion, connDone, draining, swept, idle,
                   execVars, lifeVars, wireVars, sessionVars>>

-----------------------------------------------------------------------------
(* The reader. *)

R(s) == pc[Reader] = "read" /\ rpc = s

\* The top of the loop.
ReadNext ==
    /\ R("loop")
    /\ rpc' = IF draining THEN "leave" ELSE "reading"
    /\ UNCHANGED <<kind, readIn, rop, rset, completion, queueVars, execVars, lifeVars,
                   wireVars, sessionVars, endVars>>

\* The read fails (end of file, deadline, malformed), the message ID is in use,
\* or the client unbinds.
ReadEnds ==
    /\ R("reading")
    /\ rpc' = "leave"
    /\ UNCHANGED <<kind, readIn, rop, rset, completion, queueVars, execVars, lifeVars,
                   wireVars, sessionVars, endVars>>

\* Abandon of a queued request takes it out of the queue...
AbandonQueued(t) ==
    /\ R("reading") /\ ~connClosed /\ RegistryFree
    /\ \E i \in 1..Len(items) : items[i] = t /\ RemoveQueued(i)
    /\ op' = [op EXCEPT ![t] = FinishOperation(RequestAbandon(@))]
    /\ registry' = registry \ {t}
    /\ rpc' = "loop"
    /\ UNCHANGED <<kind, readIn, rop, rset, completion, execVars, wireVars, sessionVars, endVars>>

\* ... any other known request is asked to stop.
AbandonTracked(t) ==
    /\ R("reading") /\ ~connClosed /\ RegistryFree
    /\ t \in registry \ ToSet(items)
    /\ op' = [op EXCEPT ![t] = RequestAbandon(@)]
    /\ rpc' = "loop"
    /\ UNCHANGED <<kind, readIn, rop, rset, completion, registry, queueVars, execVars,
                   wireVars, sessionVars, endVars>>

\* handleCancel.  Anything but success is answered at once; success waits for
\* the target.
CancelTracked(t) ==
    /\ R("reading") /\ ~connClosed /\ RegistryFree
    /\ t \in registry
    /\ op' = [op EXCEPT ![t] = RequestCancel(@)]
    /\ IF CancelResult(op[t]) = "success"
       THEN rpc' = "cancel" /\ rop' = t /\ UNCHANGED acked
       ELSE /\ rpc' = "loop" /\ UNCHANGED rop
            /\ acked' = [acked EXCEPT ![t] = @ \cup ({CancelResult(op[t])} \cap {"tooLate"})]
    /\ UNCHANGED <<kind, readIn, rset, completion, registry, sent, committed, remoteVars, queueVars,
                   execVars, sessionVars, endVars>>

\* target.done is closed.
TargetDone(t) == op[t].phase = "complete"

CancelTargetDone ==
    /\ R("cancel")
    /\ TargetDone(rop)
    /\ acked' = IF connClosed THEN acked ELSE [acked EXCEPT ![rop] = @ \cup {"success"}]
    /\ rpc' = IF connClosed THEN "leave" ELSE "loop"
    /\ rop' = NoOp
    /\ UNCHANGED <<kind, readIn, rset, completion, sent, committed, remoteVars, queueVars, execVars,
                   lifeVars, sessionVars, endVars>>

\* The reader stops waiting because the connection is going down.
WaitInterrupted ==
    /\ \/ R("cancel") /\ connDone
       \/ R("barrier") /\ (connDone \/ \A w \in Workers : pc[w] = "exit")
    /\ rpc' = "leave"
    /\ rop' = NoOp
    /\ UNCHANGED <<kind, readIn, rset, completion, queueVars, execVars, lifeVars,
                   wireVars, sessionVars, endVars>>

\* A Bind first stops everything: abandonForBind takes the registered requests
\* and asks each to stop, in no particular order...
ReadBind(o, k) ==
    /\ R("reading") /\ ~connClosed /\ RegistryFree
    /\ status[o] = "new" /\ k \in Kinds \cap Binds
    /\ kind' = [kind EXCEPT ![o] = k]
    /\ rop' = o
    /\ rset' = registry
    /\ rpc' = "bind"
    /\ UNCHANGED <<readIn, completion, queueVars, execVars, lifeVars, wireVars,
                   sessionVars, endVars>>

AbandonForBind(t) ==
    /\ R("bind")
    /\ t \in rset
    /\ op' = [op EXCEPT ![t] = RequestBindAbandon(@)]
    /\ rset' = rset \ {t}
    /\ UNCHANGED <<kind, readIn, rpc, rop, completion, registry, queueVars, execVars,
                   wireVars, sessionVars, endVars>>

\* ... and discardPending throws the queue away.
BindDiscards ==
    /\ R("bind") /\ rset = {} /\ RegistryFree
    /\ DiscardPending
    /\ FinishAll(ToSet(items))
    /\ rpc' = "admit"
    /\ UNCHANGED <<kind, readIn, rop, rset, completion, execVars, wireVars, sessionVars, endVars>>

\* register, classify and push; k is what the message asks for.  A request
\* behind a barrier is only read when the barrier has completed.
Admit(o, k) ==
    /\ RegistryFree
    /\ LET ta == txnAdm \/ k = "txnstart"
       IN  /\ Push(o, CanRunConcurrent(k, ta))
           /\ txnAdm' = ta
    /\ kind' = [kind EXCEPT ![o] = k]
    /\ readIn' = [readIn EXCEPT ![o] = session]
    /\ registry' = registry \cup {o}
    /\ op' = [op EXCEPT ![o] = NewOperation(k)]
    /\ IF ConnectionReadBarrier(k)
       THEN rpc' = "barrier" /\ rop' = o /\ completion' = "none"
       ELSE rpc' = "loop" /\ rop' = NoOp /\ UNCHANGED completion
    /\ UNCHANGED <<session, sasl, txn, rset, execVars, wireVars, endVars>>

\* startTLSOutstandingResult turns StartTLS away while requests are registered,
\* unless validation has another reason to refuse it ("badstarttls": controls, a
\* value, a restriction, TLS or a SASL layer already there).
StartTLSOutstanding(k) == k = "starttls" /\ registry # {} /\ ~txn /\ ~sasl

ReadRequest(o, k) ==
    /\ R("reading") /\ ~connClosed
    /\ k \in Kinds \ Binds
    /\ ~StartTLSOutstanding(k)
    /\ Admit(o, k)

PushBind == R("admit") /\ Admit(rop, kind[rop])
            /\ (kind[rop] = "saslbind" \/ items # <<>> \/ active > 0 \/ fence)

\* tryClaimIdleSimpleBind: the reader runs the Bind itself.
ClaimBind ==
    /\ R("admit") /\ kind[rop] = "bind" /\ RegistryFree
    /\ TryClaimIdleSimpleBind(rop)
    /\ readIn' = [readIn EXCEPT ![rop] = session]
    /\ registry' = registry \cup {rop}
    /\ op' = [op EXCEPT ![rop] = NewOperation("bind")]
    /\ Goto(Reader, "clone")
    /\ out' = [out EXCEPT ![Reader] = "ok"]
    /\ rop' = NoOp
    /\ UNCHANGED <<kind, rpc, rset, completion, snap, wireVars, sessionVars, endVars>>

\* A refused request is finished at once and the reader returns.
TurnAway(o, k) ==
    /\ RegistryFree
    /\ Refuse(o, CanRunConcurrent(k, txnAdm \/ k = "txnstart"))
    /\ txnAdm' = (txnAdm \/ k = "txnstart")
    /\ kind' = [kind EXCEPT ![o] = k]
    /\ op' = [op EXCEPT ![o] = FinishOperation(NewOperation(k))]
    /\ rpc' = "leave"
    /\ rop' = NoOp
    /\ UNCHANGED <<readIn, rset, completion, registry, session, sasl, txn, execVars,
                   wireVars, endVars>>

RefuseRequest(o, k) ==
    /\ R("reading") /\ ~connClosed
    /\ k \in Kinds \ Binds
    /\ ~StartTLSOutstanding(k)
    /\ TurnAway(o, k)

RefuseBind == R("admit") /\ TurnAway(rop, kind[rop])

\* The barrier's request has completed.
BarrierDone ==
    /\ R("barrier")
    /\ completion # "none"
    /\ rpc' = IF completion = "ok" THEN "loop" ELSE "leave"
    /\ rop' = NoOp
    /\ UNCHANGED <<kind, readIn, rset, completion, queueVars, execVars, lifeVars,
                   wireVars, sessionVars, endVars>>

-----------------------------------------------------------------------------
(* The end of the connection: serveConnection's deferred functions. *)

\* requestAbandon on every long-lived request of the registry.
AbandonLongLived ==
    op' = [o \in Ops |-> IF o \in registry /\ op[o].longLived THEN RequestAbandon(op[o])
                                                              ELSE op[o]]

\* operationRegistry.shutdown
Shutdown == RegistryFree /\ FinishAll(registry)

\* The idle watcher is stopped and waited for before anything else.
LeaveStep(from, to) ==
    /\ rpc = from
    /\ pc[Reader] \in {"read", "stop", "closed"}
    /\ idle # "closing"
    /\ rpc' = to
    /\ UNCHANGED <<kind, readIn, rop, rset, completion, execVars, wireVars, sessionVars,
                   draining, swept>>

\* Mutant: a drain closes the queue like any other end of the connection.
DrainClose_Drops ==
    /\ LeaveStep("leave", "drain")
    /\ draining
    /\ Close
    /\ idle' = "done"
    /\ UNCHANGED <<lifeVars, connDone, connClosed>>

DrainClose ==
    /\ LeaveStep("leave", "drain")
    /\ draining
    /\ CloseAndDrain
    /\ idle' = "done"
    /\ UNCHANGED <<lifeVars, connDone, connClosed>>

\* Mutant: the sweep of beginConnectionDrain is taken to be enough.
DrainSweep_OnlyOnce ==
    /\ LeaveStep("drain", "drained")
    /\ UNCHANGED <<lifeVars, queueVars, connDone, connClosed, idle>>

DrainSweep ==
    /\ LeaveStep("drain", "drained")
    /\ AbandonLongLived
    /\ UNCHANGED <<registry, queueVars, connDone, connClosed, idle>>

WorkersGone == \A w \in Workers : pc[w] = "exit"

DrainEnds ==
    /\ LeaveStep("drained", "gone")
    /\ WorkersGone
    /\ connDone' = TRUE
    /\ connClosed' = TRUE
    /\ Shutdown
    /\ UNCHANGED <<queueVars, idle>>

CancelConnection ==
    /\ LeaveStep("leave", "close")
    /\ ~draining
    /\ connDone' = TRUE
    /\ idle' = "done"
    /\ UNCHANGED <<queueVars, lifeVars, connClosed>>

CloseQueue ==
    /\ LeaveStep("close", "shutdown")
    /\ Close
    /\ UNCHANGED <<lifeVars, connDone, connClosed, idle>>

ShutdownOperations ==
    /\ LeaveStep("shutdown", "hangup")
    /\ Shutdown
    /\ UNCHANGED <<queueVars, connDone, connClosed, idle>>

HangUp ==
    /\ LeaveStep("hangup", "gone")
    /\ connClosed' = TRUE
    /\ UNCHANGED <<queueVars, lifeVars, connDone, idle>>

-----------------------------------------------------------------------------
(* The rest of the server. *)

\* The peer resets the connection, or a write times out and latches it closed.
ConnectionLost ==
    /\ "lost" \in Events /\ ~connClosed
    /\ connClosed' = TRUE
    /\ UNCHANGED <<connDone, draining, swept, idle, queueVars, execVars, lifeVars,
                   wireVars, sessionVars, readerVars>>

\* closeIfIdle looks at the registered requests...
IdleCheck ==
    /\ "idle" \in Events /\ idle = "watching" /\ ~connDone
    /\ \A o \in registry : ~IsExecuting(op[o])
    /\ idle' = "closing"
    /\ UNCHANGED <<connDone, connClosed, draining, swept, queueVars, execVars, lifeVars,
                   wireVars, sessionVars, readerVars>>

\* ... and closes the connection, still holding registry.mu.
IdleClose ==
    /\ idle = "closing"
    /\ idle' = "done"
    /\ connDone' = TRUE
    /\ connClosed' = TRUE
    /\ UNCHANGED <<draining, swept, queueVars, execVars, lifeVars, wireVars, sessionVars,
                   readerVars>>

\* The serve context is canceled: new reads fail...
BeginDrain ==
    /\ "drain" \in Events /\ ~draining
    /\ draining' = TRUE
    /\ UNCHANGED <<connDone, connClosed, swept, idle, queueVars, execVars, lifeVars,
                   wireVars, sessionVars, readerVars>>

\* ... and beginConnectionDrain abandons the long-lived requests.
SweepLongLived ==
    /\ draining /\ ~swept /\ RegistryFree
    /\ swept' = TRUE
    /\ AbandonLongLived
    /\ UNCHANGED <<registry, connDone, connClosed, draining, idle, queueVars, execVars,
                   wireVars, sessionVars, readerVars>>

\* waitForConnectionDrain gives up after ShutdownTimeout.
ForceOperations ==
    /\ "force" \in Events /\ draining /\ ~connDone
    /\ connDone' = TRUE
    /\ connClosed' = TRUE
    /\ UNCHANGED <<draining, swept, idle, queueVars, execVars, lifeVars, wireVars,
                   sessionVars, readerVars>>

-----------------------------------------------------------------------------
Init ==
    /\ QueueInit
    /\ kind = [o \in Ops |-> "none"]
    /\ op = [o \in Ops |-> NewTrackedOperation(FALSE, FALSE, FALSE)]
    /\ registry = {}
    /\ sent = [o \in Ops |-> <<>>]
    /\ committed = {}
    /\ acked = [o \in Ops |-> {}]
    /\ remote = {} /\ applied = {}
    /\ at = [e \in Executors |-> "none"]
    /\ out = [e \in Executors |-> "ok"]
    /\ snap = [e \in Executors |-> 0]
    /\ session = 0
    /\ readIn = [o \in Ops |-> 0]
    /\ sasl = FALSE /\ txn = FALSE /\ txnAdm = FALSE
    /\ rpc = "loop" /\ rop = NoOp /\ rset = {} /\ completion = "none"
    /\ connDone = FALSE /\ connClosed = FALSE
    /\ draining = FALSE /\ swept = FALSE
    /\ idle = "watching"

Execute(e) ==
    \/ CloneState(e) \/ Acquire(e) \/ Start(e)
    \/ DispatchReject(e) \/ DispatchFails(e) \/ DispatchRead(e) \/ DispatchMeta(e) \/ MetaDone(e)
    \/ DispatchPersist(e) \/ PersistStops(e)
    \/ DispatchWrite(e) \/ CommitPoint(e) \/ CommitWrite(e)
    \/ DispatchProxyWrite(e) \/ SendRemote(e) \/ AwaitRemote(e)
    \/ DispatchBind(e) \/ DispatchStartTLS(e) \/ Handshake(e) \/ DispatchTransaction(e)
    \/ Respond(e) \/ WriteFinal(e)
    \/ Post(e) \/ WriteCanceled(e) \/ Finish(e) \/ CompleteOperation(e)
    \/ ReturnTrue(e) \/ ReturnFalse(e)

\* What an executor's environment may or may not bring about.
Occasional(e) == MetaEntry(e) \/ PersistOverflows(e) \/ ResponseLimit(e)

WorkerLoop(w) == PopOperation(w) \/ PopNothing(w)

ClientRequest ==
    \/ \E t \in Ops : AbandonQueued(t) \/ AbandonTracked(t) \/ CancelTracked(t)
    \/ \E o \in Ops, k \in Kinds : ReadBind(o, k) \/ ReadRequest(o, k) \/ RefuseRequest(o, k)

\* What the reader does without waiting for the client.
ReaderProgress ==
    \/ ReadNext \/ CancelTargetDone \/ WaitInterrupted \/ BarrierDone
    \/ \E t \in Ops : AbandonForBind(t)
    \/ BindDiscards \/ PushBind \/ ClaimBind \/ RefuseBind
    \/ DrainClose \/ DrainSweep \/ DrainEnds
    \/ CancelConnection \/ CloseQueue \/ ShutdownOperations \/ HangUp

ServerEvent ==
    \/ ConnectionLost \/ IdleCheck \/ IdleClose \/ BeginDrain \/ SweepLongLived \/ ForceOperations
    \/ \E o \in Ops : RemoteDecides(o)

ConnectionGone == rpc = "gone" /\ Terminated

Next ==
    \/ \E w \in Workers : WorkerLoop(w)
    \/ \E e \in Executors : Execute(e) \/ Occasional(e)
    \/ ReadEnds \/ ClientRequest \/ ReaderProgress
    \/ ServerEvent
    \/ ConnectionGone /\ UNCHANGED vars

Spec == Init /\ [][Next]_vars

\* Goroutines are scheduled, handlers return, and a persistent search or a
\* reader stops once it is told to.  The client owes nothing; a drain makes its
\* read fail.  Nothing is assumed of ForceOperations or of the idle watcher's
\* timer.
Fairness ==
    /\ \A w \in Workers : WF_vars(WorkerLoop(w))
    /\ \A e \in Executors : WF_vars(Execute(e))
    /\ WF_vars(ReaderProgress)
    /\ WF_vars((draining \/ connClosed) /\ ReadEnds)
    /\ WF_vars(SweepLongLived) /\ WF_vars(IdleClose)

FairSpec == Spec /\ Fairness

-----------------------------------------------------------------------------
(* Properties. *)

ExecutorSteps == SlotSteps \cup {"none", "clone", "acquire", "limit", "limited", "post",
                                 "canceled", "finish", "complete"}
ReaderSteps == {"loop", "reading", "cancel", "bind", "admit", "barrier", "leave", "drain",
                "drained", "close", "shutdown", "hangup", "gone"}

\* Type invariant of the connection's state.
TypeOK ==
    /\ QueueTypeOK
    /\ kind \in [Ops -> AllKinds \cup {"none"}]
    /\ op \in [Ops -> TrackedOperations]
    /\ registry \in SUBSET Ops
    /\ sent \in [Ops -> Seq({"result", "canceled"})]
    /\ committed \in SUBSET Ops
    /\ acked \in [Ops -> SUBSET {"success", "tooLate"}]
    /\ remote \in SUBSET Ops /\ applied \in SUBSET Ops
    /\ at \in [Executors -> ExecutorSteps]
    /\ out \in [Executors -> {"ok", "err"}]
    /\ snap \in [Executors -> Nat]
    /\ session \in Nat
    /\ readIn \in [Ops -> Nat]
    /\ {sasl, txn, txnAdm} \subseteq BOOLEAN
    /\ rpc \in ReaderSteps
    /\ rop \in Ops \cup {NoOp}
    /\ rset \in SUBSET Ops
    /\ completion \in {"none", "ok", "err"}
    /\ {connDone, connClosed, draining, swept} \subseteq BOOLEAN
    /\ idle \in {"watching", "closing", "done"}

Dispatching(e) == pc[e] = "run" /\ at[e] \in SlotSteps \ {"start"}

\* A Cancel is acknowledged with success only for a request that has been
\* answered "canceled" and never takes effect: it has not been committed, and no
\* other server has it or may still carry it out.  The commit point and the
\* remote-commit mark close the window in time.
CancelMeansNoEffect ==
    \A o \in Ops :
        "success" \in acked[o]
            => o \notin committed \cup remote \cup applied /\ sent[o] = <<"canceled">>

\* docs/architecture.md, "an atomic final-response boundary": a request gets at
\* most one final response, whatever Cancel, Abandon, Bind and the handler do.
AtMostOneFinalResponse == \A o \in Ops : Len(sent[o]) <= 1

\* An abandoned request gets no response and a local write that was abandoned
\* has not taken effect.
AbandonedLeavesNoTrace ==
    \A o \in Ops :
        op[o].stop = "abandoned"
            => sent[o] = <<>> /\ (kind[o] = "write" => o \notin committed)

\* Once a local write has taken effect nobody can talk the server out of
\* reporting it: unless the connection is lost, the client learns the result.
CommittedIsReported ==
    \A o \in committed :
        (kind[o] = "write" /\ status[o] = "done" /\ ~connClosed) => sent[o] = <<"result">>

\* Who was told "tooLate" gets the ordinary result, unless the request is then
\* abandoned or the connection goes away: a late Cancel of a meta search, which
\* does have its context canceled, is no exception.
TooLateIsAnswered ==
    \A o \in Ops :
        (/\ "tooLate" \in acked[o] /\ op[o].stop # "abandoned"
         /\ status[o] = "done" /\ ~connDone /\ ~connClosed)
            => sent[o] = <<"result">>

\* A request runs in the session it was read in: nothing read before a Bind or a
\* StartTLS runs under the identity or the transport it produced, and nothing
\* runs on a copy taken before it.
SameSession ==
    \A e \in Executors :
        (Dispatching(e) /\ kind[exec[e]] \notin Binds \cup {"starttls"})
            => /\ readIn[exec[e]] = session
               /\ snap[e] = session

\* Nothing but Bind gets past dispatch while a SASL Bind is in progress, not
\* even on a cloned state, which has no SASL session.
NothingPassesASASLBind ==
    \A e \in Executors :
        (sasl /\ Dispatching(e) /\ at[e] # "dispatch")
            => kind[exec[e]] \in Binds \/ (at[e] = "direct" /\ ~conc[exec[e]])

\* The registry knows exactly the requests that are queued or between pop and
\* finish, until shutdown empties it: no Cancel or Abandon can miss a live
\* request or reach a finished one.
RegistryTracksLiveRequests ==
    rpc \notin {"shutdown", "hangup", "gone"} =>
        registry = {o \in Ops : status[o] = "queued" \/
                        \E e \in Executors : exec[e] = o /\ at[e] # "complete"}

\* The refinement mapping: a request is open while a goroutine or the queue
\* still has it, which outlasts its place in the registry.
LifeOf(o) ==
    CASE status[o] = "new" -> "unread"
      [] status[o] \in {"queued", "running"} -> "open"
      [] OTHER -> "retired"

AnswerOf(o) == IF sent[o] = <<>> THEN "none" ELSE sent[o][Len(sent[o])]

Contract == INSTANCE OperationContract WITH
    life <- [o \in Ops |-> LifeOf(o)],
    answer <- [o \in Ops |-> AnswerOf(o)],
    effect <- committed \cup applied,
    elsewhere <- remote,
    granted <- {o \in Ops : "success" \in acked[o]}

\* The connection keeps the contract of OperationContract: every response,
\* effect and acknowledgement is one the client may see, in an order it may see
\* them in, whatever the reader, the workers and the server do meanwhile.
KeepsContract == Contract!ContractSpec

\* docs/architecture.md: "Queued and executing ordinary operations retain their
\* contexts and drain".  When the reader left because of the drain and the
\* workers are gone, every request that nobody stopped was executed and answered.
DrainAnswersEverything ==
    (rpc = "drained" /\ WorkersGone) =>
        \A o \in Ops :
            (status[o] \in {"queued", "running", "done", "dropped"} /\ op[o].stop = "running")
                => sent[o] = <<"result">>

\* A drain ends by itself, without ForceOperations: persistent searches are
\* abandoned even when they are admitted after beginConnectionDrain's sweep.
DrainTerminates == draining ~> ConnectionGone

\* operation_queue_limit_test.go, "Search remained concurrent during transaction
\* admission": while a transaction is open no request runs on a cloned state.
TransactionRunsAlone ==
    txn => \A e \in Executors : Dispatching(e) => ~conc[exec[e]]

\* The reader never hangs in a Cancel or behind a Bind: the target it waits for
\* ends, the Bind it waits for completes, or the connection goes down.
ReaderNeverHangs == (rpc \in {"cancel", "barrier"}) ~> (rpc \notin {"cancel", "barrier"})

=============================================================================
