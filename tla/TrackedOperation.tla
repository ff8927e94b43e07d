-------------------------- MODULE TrackedOperation --------------------------
(***************************************************************************)
(* trackedOperation of internal/server/operation.go: the life of one LDAP  *)
(* request, as pure operators on a record.  Each method holds              *)
(* operation.mu, so whoever uses these operators takes one per step.       *)
(*                                                                         *)
(* ctx says that the operation's own cancel function has been called; done *)
(* is the channel that finish closes.                                      *)
(***************************************************************************)
EXTENDS Naturals

Phases == {"pending", "executing", "finalizing", "complete"}
StopModes == {"running", "abandoned", "canceled"}

TrackedOperations ==
    [phase : Phases, stop : StopModes, cancelable : BOOLEAN,
     abandonable : BOOLEAN, longLived : BOOLEAN, ctx : BOOLEAN,
     metaSearch : BOOLEAN, metaSeen : BOOLEAN, metaCompletes : BOOLEAN]

\* phase >= operationFinalizing
PastFinal(r) == r.phase \in {"finalizing", "complete"}

\* newTrackedOperation, from the properties of the request.
NewTrackedOperation(isCancelable, isAbandonable, isLongLived) ==
    [phase |-> "pending", stop |-> "running", cancelable |-> isCancelable,
     abandonable |-> isAbandonable, longLived |-> isLongLived, ctx |-> FALSE,
     metaSearch |-> FALSE, metaSeen |-> FALSE, metaCompletes |-> FALSE]

CanStart(r) == r.phase = "pending" /\ r.stop = "running"
StartOperation(r) == [r EXCEPT !.phase = "executing"]

Stopped(r, mode) == [r EXCEPT !.stop = mode, !.ctx = TRUE]

\* Mutant: Abandon does not look at the final-response boundary.
RequestAbandon_Late(r) ==
    IF ~r.abandonable \/ r.stop # "running" THEN r ELSE Stopped(r, "abandoned")

\* requestAbandon: Abandon, and the sweep over long-lived operations.
RequestAbandon(r) ==
    IF ~r.abandonable \/ PastFinal(r) \/ r.stop # "running" THEN r
    ELSE Stopped(r, "abandoned")

\* requestBindAbandon: a Bind abandons the others whatever they are.
RequestBindAbandon(r) ==
    IF PastFinal(r) \/ r.stop # "running" THEN r ELSE Stopped(r, "abandoned")

\* requestCancel: the result code of the Cancel operation...
CancelResult(r) ==
    CASE ~r.cancelable \/ r.phase = "pending" -> "cannotCancel"
      [] r.cancelable /\ PastFinal(r)         -> "tooLate"
      [] r.cancelable /\ r.phase = "executing" ->
            IF r.stop # "running" THEN "operationsError"
            ELSE IF r.metaSearch /\ r.metaSeen THEN "tooLate" ELSE "success"

\* ... and what it does to the target.  A meta search that has relayed an entry
\* is too late for Cancel, yet its context is canceled and it completes early.
RequestCancel(r) ==
    CASE CancelResult(r) = "success" -> Stopped(r, "canceled")
      [] CancelResult(r) = "tooLate" /\ ~PastFinal(r)
                                     -> [r EXCEPT !.metaCompletes = TRUE, !.ctx = TRUE]
      [] OTHER                       -> r

EnableMetaBackendSearch(r) == [r EXCEPT !.metaSearch = TRUE]
ObserveMetaBackendResponse(r) == [r EXCEPT !.metaSeen = r.metaSearch]

\* responseAllowed; beginFinalResponse, markCommitPoint and
\* disableCancellationForRemoteCommit fail with errOperationStopped without it.
ResponseAllowed(r) == r.stop = "running"

\* Mutant: the final response raises no boundary.
BeginFinalResponse_NoBoundary(r) == r

BeginFinalResponse(r) ==
    IF PastFinal(r) THEN r ELSE [r EXCEPT !.phase = "finalizing"]

\* Mutant: the commit point is not recorded.
MarkCommitPoint_Forgotten(r) == r

MarkCommitPoint(r) ==
    IF PastFinal(r) THEN r ELSE [r EXCEPT !.phase = "finalizing"]

\* Mutant: a remote write stays cancelable after it was sent.
DisableCancellationForRemoteCommit_Forgotten(r) == r

DisableCancellationForRemoteCommit(r) == [r EXCEPT !.cancelable = FALSE]

\* finish: complete, cancel the context and close done (once).
FinishOperation(r) == [r EXCEPT !.phase = "complete", !.ctx = TRUE]

\* executing(): what keeps the idle watcher away.
IsExecuting(r) == r.phase \in {"executing", "finalizing"}

=============================================================================
