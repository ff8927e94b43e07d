----------------------- MODULE ConnectionAnswerProofs -----------------------
(***************************************************************************)
(* Proofs about Connection, third part: answers, effects and Cancels agree. *)
(*                                                                         *)
(* RequestInv(o) says what is known of a request at each stage of its life, *)
(* and while it is executed at each step of runConnectionOperation.  A step *)
(* concerns a request in one of six ways (RequestCases): it is a step of its *)
(* own handler, it moves the request into or out of the queue (admitted,   *)
(* popped, completed, dropped), or the request is a bystander, which others *)
(* may at most ask to stop.  Each of the six keeps RequestInv(o).          *)
(*                                                                         *)
(* On top of it: the connection implements the contract with its client,   *)
(* OperationContract, and a drain answers what it finds.                   *)
(***************************************************************************)
EXTENDS ConnectionSessionProofs

-----------------------------------------------------------------------------
(* What is known of a request at each stage of its life. *)

\* A record and the kind of request it was made for.
Shape(o) ==
    /\ op[o].cancelable => Cancelable(kind[o])
    /\ op[o].abandonable <=> kind[o] \notin Binds
    /\ op[o].phase = "finalizing" => op[o].stop = "running"
    /\ op[o].metaSearch => kind[o] = "metasearch"
    /\ op[o].metaSeen => op[o].metaSearch
    /\ op[o].metaCompletes => op[o].metaSeen

\* Nobody has executed o: it has no response, no effect and no Cancel to be too late for.
Untouched(o) ==
    /\ sent[o] = <<>> /\ o \notin committed \cup remote \cup applied /\ acked[o] = {}
    /\ status[o] # "new" => op[o].phase \in {"pending", "complete"}

\* A canceled context has a reason.
ContextInv(o) ==
    op[o].ctx => op[o].stop # "running" \/ op[o].phase = "complete" \/ op[o].metaCompletes

\* A request that nobody has started was not canceled (Cancel waits for a request
\* to execute, Abandon takes it out of the queue) and has relayed nothing.
Waiting(o) == op[o].stop # "canceled" /\ ~op[o].metaSeen /\ ContextInv(o)

\* The steps of runConnectionOperation before anything can be written, and after everything
\* has been.
Early == {"clone", "acquire", "start", "dispatch", "meta", "persist", "commitpoint", "commit",
          "remote", "await", "direct"}
Over == {"post", "finish", "complete"}

\* Where the executor is, the phase and the stop mode agree.
Boundary(o, e) ==
    /\ at[e] \in {"clone", "acquire", "start"} =>
          op[o].phase \in {"pending", "complete"} /\ Waiting(o) /\ acked[o] = {}
    /\ at[e] \in {"commit", "write", "limited", "handshake"} =>
          PastFinal(op[o]) /\ op[o].stop = "running"
    /\ at[e] = "canceled" => op[o].stop = "canceled"
    /\ op[o].phase = "finalizing" =>
          at[e] \in {"commit", "respond", "write", "limit", "limited", "handshake", "post", "finish"}
    /\ op[o].metaSeen => at[e] \in {"meta", "respond", "write", "limit", "limited", "canceled"} \cup Over
    /\ ContextInv(o)

\* A request that has taken effect can no longer be canceled, nor a local write abandoned.
Effective(o) ==
    o \in committed => /\ op[o].stop # "canceled"
                       /\ PastFinal(op[o]) \/ ~op[o].cancelable
                       /\ kind[o] = "write" => PastFinal(op[o]) /\ op[o].stop = "running"

\* A request that another server has or had can no longer be canceled.
Delegated(o) == o \in remote \cup applied => ~op[o].cancelable /\ op[o].stop # "canceled"

\* Where the executor is, and whether the request has taken effect.
Effects(o, e) ==
    /\ Effective(o)
    /\ at[e] \in Early => o \notin committed
    /\ o \in committed /\ kind[o] = "write" => at[e] \in {"respond", "write"} \cup Over

\* What is promised to the client and delivered when the execution is over.
Promised(o) ==
    \/ o \in committed /\ kind[o] = "write" /\ ~connClosed
    \/ op[o].phase = "finalizing" /\ ~connClosed
    \/ "tooLate" \in acked[o] /\ op[o].stop # "abandoned" /\ ~connDone /\ ~connClosed
    \/ op[o].metaSeen /\ op[o].stop = "running" /\ ~connDone /\ ~connClosed

\* Where the executor is, and what has been written for its request; and a Cancel
\* that was told tooLate leaves a request that is going to be answered.
Responses(o, e) ==
    /\ at[e] \in Early \cup {"respond", "write", "limit", "limited"} => sent[o] = <<>>
    /\ at[e] = "handshake" => sent[o] = <<"result">>
    /\ at[e] \in Over /\ Promised(o) => sent[o] = <<"result">>
    /\ "tooLate" \in acked[o] /\ op[o].stop # "abandoned" /\ ~connDone /\ ~connClosed =>
          op[o].stop = "running" /\ (PastFinal(op[o]) \/ op[o].metaCompletes)

\* The responses are sound: one at most, "canceled" only for a canceled request, and
\* silence only for one that was stopped or whose connection is going down.
Sound(o) ==
    /\ sent[o] \in {<<>>, <<"result">>, <<"canceled">>}
    /\ sent[o] = <<"canceled">> => op[o].stop = "canceled"
    /\ sent[o] = <<"result">> => op[o].stop = "running" /\ (PastFinal(op[o]) \/ kind[o] \in Binds)
    /\ "success" \in acked[o] => sent[o] = <<"canceled">>

\* The connection's context is canceled or the connection is closed.
Cut == connDone \/ connClosed

\* The same while somebody executes the request: the response is not written yet
\* where it is about to be, and an execution that ends without one was stopped or
\* has lost its client.
SoundAt(o, e) ==
    /\ Sound(o)
    /\ at[e] = "canceled" => sent[o] = <<>>
    /\ at[e] = "post" => sent[o] # <<"canceled">>
    /\ at[e] \in Over /\ sent[o] = <<>> /\ op[o].stop = "running" => Cut
    /\ at[e] \in {"finish", "complete"} /\ op[o].stop = "canceled" => sent[o] = <<"canceled">> \/ Quiet

\* A request that somebody executes.
Executed(o, e) ==
    /\ Boundary(o, e) /\ Effects(o, e) /\ Responses(o, e)
    /\ "saslbind" \notin Kinds => SoundAt(o, e)

\* A request whose execution is over.
Finished(o) ==
    /\ op[o].phase = "complete"
    /\ Effective(o)
    /\ o \in committed /\ kind[o] = "write" /\ ~connClosed => sent[o] = <<"result">>
    /\ "tooLate" \in acked[o] /\ op[o].stop # "abandoned" /\ ~connDone /\ ~connClosed =>
          sent[o] = <<"result">>
    /\ "saslbind" \notin Kinds =>
          /\ Sound(o)
          /\ op[o].stop = "canceled" => sent[o] = <<"canceled">> \/ Quiet
          /\ op[o].stop = "running" /\ sent[o] = <<>> => Cut

\* The part of the inductive invariant about one request.
RequestInv(o) ==
    /\ status[o] # "new" => Shape(o)
    /\ status[o] \in {"new", "queued", "dropped", "refused"} => Untouched(o)
    /\ status[o] = "queued" => Waiting(o)
    /\ \A e \in Executors : exec[e] = o => Executed(o, e)
    /\ status[o] = "done" => Finished(o)
    /\ Delegated(o)

\* The reader waits for the target of a successful Cancel, and shuts the registry down only
\* after it has canceled the connection's context.
CancelWait ==
    rpc = "cancel" => op[rop].stop = "canceled" /\ status[rop] \in {"running", "done"}
DownIsDone == rpc \in Down \cup {"close"} => connDone

\* The part of the inductive invariant about answers, effects and Cancels.
AnswerInv == (\A o \in Ops : RequestInv(o)) /\ CancelWait /\ DownIsDone

\* What is over stays over.
LEMMA FlagsLast ==
    ASSUME BaseInv, [Next]_vars
    PROVE  /\ connDone => connDone'
           /\ connClosed => connClosed'
           /\ Quiet => Quiet'
<1>0. QueueInv /\ ReaderControl /\ Typed
  BY DEF BaseInv
<1>1. (connDone => connDone') /\ (connClosed => connClosed')
  <2>1. CASE UNCHANGED endVars
    BY <2>1 DEF endVars
  <2>2. CASE Elsewhere
    BY <2>2 DEF Elsewhere, ReaderMove, StopRequest, TakeDown, ReadEnds, ReadNext,
       CancelTargetDone, WaitInterrupted, BarrierDone, ReadBind, AbandonTracked, CancelTracked,
       AbandonForBind, DrainSweep, DrainEnds, CancelConnection, ShutdownOperations, HangUp,
       ServerEvent, ConnectionLost, IdleCheck, IdleClose, BeginDrain, SweepLongLived,
       ForceOperations, RemoteDecides, vars, endVars
  <2>3. ASSUME NEW e \in Executors, ReturnFalse(e)
        PROVE  (connDone => connDone') /\ (connClosed => connClosed')
    BY <2>3 DEF ReturnFalse
  <2>4. ASSUME NEW e \in Executors, HandlerStep(e) PROVE UNCHANGED endVars
    BY <1>0, <2>4, HandlerStepIsLocal DEF LocalTo, Typed, endVars
  <2>5. CASE DrainClose \/ CloseQueue
    BY <2>5 DEF DrainClose, CloseQueue
  <2>6. ASSUME NEW w, PopOperation(w) \/ PopNothing(w) \/ CompleteOperation(w) \/ ReturnTrue(w)
        PROVE  UNCHANGED endVars
    BY <2>6 DEF PopOperation, PopNothing, CompleteOperation, ReturnTrue
  <2>7. ASSUME NEW o, NEW k, Admit(o, k) \/ TurnAway(o, k) \/ ClaimBind \/ AbandonQueued(o) \/ BindDiscards
        PROVE  UNCHANGED endVars
    BY <2>7 DEF Admit, TurnAway, ClaimBind, AbandonQueued, BindDiscards
  <2>. QED  BY <1>0, <2>1, <2>2, <2>3, <2>4, <2>5, <2>6, <2>7, StepCases
<1>2. rpc \in Leaving => rpc' \in Leaving
  <2>1. CASE UNCHANGED rpc
    BY <2>1
  <2>2. CASE Elsewhere
    BY <2>2, ElsewhereReader
  <2>3. ASSUME NEW e \in Executors, ReturnTrue(e) \/ ReturnFalse(e)
        PROVE  rpc \in Leaving => rpc' \in Leaving
    <3>1. pc[e] = "return"
      BY <2>3 DEF ReturnTrue, ReturnFalse, Continue, GiveUp
    <3>2. e = Reader => rpc \notin Leaving
      BY <1>0, <3>1 DEF ReaderControl, Leaving
    <3>. QED  BY <2>3, <3>2 DEF ReturnTrue, ReturnFalse
  <2>4. ASSUME NEW e \in Executors, HandlerStep(e) PROVE UNCHANGED rpc
    BY <1>0, <2>4, HandlerStepIsLocal DEF LocalTo, Typed, readerVars
  <2>5. CASE DrainClose \/ CloseQueue
    BY <2>5 DEF DrainClose, CloseQueue, LeaveStep, Leaving
  <2>6. ASSUME NEW w, PopOperation(w) \/ PopNothing(w) \/ CompleteOperation(w)
        PROVE  UNCHANGED rpc
    BY <2>6 DEF PopOperation, PopNothing, CompleteOperation, readerVars
  <2>7. ASSUME NEW o, NEW k, InHand(o, k) \/ ClaimBind \/ AbandonQueued(o) \/ BindDiscards
        PROVE  rpc \notin Leaving
    BY <2>7 DEF InHand, ClaimBind, AbandonQueued, BindDiscards, R, Leaving
  <2>. QED  BY <1>0, <2>1, <2>2, <2>3, <2>4, <2>5, <2>6, <2>7, StepCases
<1>. QED  BY <1>1, <1>2 DEF Quiet

\* Somebody else asks o to stop, finishes it with the registry, or acknowledges a Cancel of it.
Acknowledged(o) ==
    \/ /\ Asked(op[o], op'[o]) /\ acked'[o] = acked[o]
       /\ status[o] # "new" /\ kind[o] \in Binds => op'[o].stop = op[o].stop
    \/ op'[o] = FinishOperation(op[o]) /\ acked'[o] = acked[o] /\ status[o] # "new"
    \/ /\ CancelResult(op[o]) = "tooLate" /\ op'[o] = RequestCancel(op[o]) /\ o \in registry
       /\ acked'[o] = acked[o] \cup {"tooLate"}
    \/ /\ op'[o] = op[o] /\ op[o].phase = "complete" /\ rpc = "cancel" /\ rop = o /\ ~connClosed
       /\ acked'[o] = acked[o] \cup {"success"}

\* A step that neither executes o nor moves it into the queue or out of it.
Bystander(o) ==
    /\ status'[o] = status[o] /\ sent'[o] = sent[o]
    /\ status[o] # "new" => kind'[o] = kind[o]
    /\ o \in committed' <=> o \in committed
    /\ o \in remote' \cup applied' => o \in remote \cup applied
    /\ \A e \in Executors : exec'[e] = o => exec[e] = o /\ at'[e] = at[e]
    /\ Acknowledged(o)

\* A step that reads o: push, the refusal of push, or the direct claim of a Bind.
Admitted(o) ==
    /\ status[o] = "new" /\ status'[o] \in {"queued", "running", "refused"}
    /\ \E k : /\ kind'[o] = k
              /\ \/ op'[o] = NewOperation(k)
                 \/ op'[o] = FinishOperation(NewOperation(k)) /\ status'[o] = "refused"
    /\ \A e \in Executors : exec'[e] = o => at'[e] = "clone"
    /\ UNCHANGED wireVars

\* A step in which a worker takes o from the queue.
Popped(o) ==
    /\ status[o] = "queued" /\ status'[o] = "running"
    /\ kind'[o] = kind[o] /\ op'[o] = op[o]
    /\ \A e \in Executors : exec'[e] = o => at'[e] = "clone"
    /\ UNCHANGED wireVars

\* A step in which queue.complete retires o.
Completed(o) ==
    /\ \E e \in Executors : exec[e] = o /\ at[e] = "complete"
    /\ status'[o] = "done"
    /\ kind'[o] = kind[o] /\ op'[o] = op[o]
    /\ \A e \in Executors : exec'[e] # o
    /\ UNCHANGED wireVars

\* A step that drops o from the queue without executing it.
Dropped(o) ==
    /\ status[o] = "queued" /\ status'[o] = "dropped"
    /\ kind'[o] = kind[o]
    /\ op'[o] \in {op[o], FinishOperation(op[o]), FinishOperation(RequestAbandon(op[o]))}
    /\ \A e \in Executors : exec'[e] # o
    /\ UNCHANGED wireVars

\* A request that nothing happens to.
LEMMA NotConcerned ==
    ASSUME NEW o \in Ops, status'[o] = status[o], op'[o] = op[o], UNCHANGED wireVars,
           status[o] # "new" => kind'[o] = kind[o],
           \A e \in Executors : exec'[e] = o => exec[e] = o /\ at'[e] = at[e]
    PROVE  Bystander(o)
BY DEF Bystander, Acknowledged, Asked, wireVars, remoteVars

\* Asking a Bind to stop has no effect: Abandon and Cancel do not apply to it and a Bind
\* abandons only what was registered before it.
LEMMA BindsGoOn ==
    ASSUME BaseInv, RegistryInv, BindSparesBinds, Elsewhere, NEW o \in Ops,
           status[o] # "new", kind[o] \in Binds, Shape(o), Asked(op[o], op'[o])
    PROVE  op'[o].stop = op[o].stop
<1>0. op[o] \in TrackedOperations /\ op \in [Ops -> TrackedOperations] /\ QueueInv /\ Typed
  BY DEF BaseInv, Typed, LifeTypes
<1>1. ~op[o].abandonable /\ ~op[o].cancelable
  BY DEF Shape, Cancelable, Binds, Searches
<1>2. op'[o] = RequestAbandon(op[o]) => op'[o].stop = op[o].stop
  BY <1>0, <1>1, AbandonFields
<1>3. op'[o] = RequestCancel(op[o]) => op'[o].stop = op[o].stop
  BY <1>0, <1>1, CancelFields
<1>4. CASE op'[o] = op[o]
  BY <1>4
<1>5. CASE op'[o] # op[o] /\ op'[o] = RequestBindAbandon(op[o])
  <2>1. CASE \E t \in Ops : AbandonForBind(t)
    <3>1. PICK t \in Ops : AbandonForBind(t)
      BY <2>1
    <3>2. t # o
      BY <3>1 DEF AbandonForBind, BindSparesBinds
    <3>. QED  BY <1>0, <1>5, <3>1, <3>2 DEF AbandonForBind
  <2>2. CASE \E t \in Ops : AbandonTracked(t) \/ CancelTracked(t)
    BY <1>0, <1>2, <1>3, <1>5, <2>2 DEF AbandonTracked, CancelTracked
  <2>3. CASE AbandonLongLived
    BY <1>0, <1>2, <1>5, <2>3 DEF AbandonLongLived
  <2>4. CASE Shutdown
    BY <1>0, <1>5, <2>4 DEF Shutdown, FinishAll, FinishOperation, RequestBindAbandon, Stopped,
                             TrackedOperations
  <2>5. CASE UNCHANGED op
    BY <2>5
  <2>. QED
    BY <2>1, <2>2, <2>3, <2>4, <2>5
       DEF Elsewhere, ReaderMove, StopRequest, TakeDown, ReadEnds, ReadNext,
       CancelTargetDone, WaitInterrupted, BarrierDone, ReadBind,
       DrainSweep, DrainEnds, CancelConnection, ShutdownOperations, HangUp,
       ServerEvent, ConnectionLost, IdleCheck, IdleClose, BeginDrain, SweepLongLived,
       ForceOperations, RemoteDecides, vars, lifeVars
<1>. QED  BY <1>2, <1>3, <1>4, <1>5 DEF Asked

\* What another server has is decided there, and nowhere else outside the handlers.
LEMMA ElsewhereRemote ==
    ASSUME Elsewhere
    PROVE  UNCHANGED remoteVars \/ \E o \in Ops : RemoteDecides(o)
BY DEF Elsewhere, ReaderMove, StopRequest, TakeDown, ReadEnds, ReadNext,
       CancelTargetDone, WaitInterrupted, BarrierDone, ReadBind, AbandonTracked, CancelTracked,
       AbandonForBind, DrainSweep, DrainEnds, CancelConnection, ShutdownOperations, HangUp,
       LeaveStep, ServerEvent, ConnectionLost, IdleCheck, IdleClose, BeginDrain, SweepLongLived,
       ForceOperations, vars, wireVars

\* The steps outside the queue and the executors.
LEMMA ElsewhereBystander ==
    ASSUME BaseInv, RegistryInv, BindSparesBinds, [Next]_vars, Elsewhere, NEW o \in Ops,
           status[o] # "new" => Shape(o)
    PROVE  Bystander(o)
<1>0. QueueInv /\ Typed /\ op \in [Ops -> TrackedOperations] /\ acked \in [Ops -> SUBSET {"success", "tooLate"}]
      /\ ReaderControl
  BY DEF BaseInv, Typed, LifeTypes, WireTypes
<1>1. UNCHANGED <<queueVars, execVars, sent, committed>>
  BY ElsewhereFrame
<1>2. UNCHANGED <<status, exec, at>>
  BY <1>1, UnchangedQueue DEF execVars
<1>3. status[o] # "new" => kind'[o] = kind[o]
  BY AdmittedOnce
<1>4. Acknowledged(o)
  <2>1. CASE UNCHANGED acked
    <3>1. CASE Asked(op[o], op'[o])
      BY <2>1, <3>1, BindsGoOn DEF Acknowledged
    <3>2. CASE op'[o] = FinishOperation(op[o]) /\ o \in registry
      <4>1. status[o] # "new"
        BY <3>2 DEF RegistryInv, RegisteredAreLive, Live
      <4>. QED  BY <2>1, <3>2, <4>1 DEF Acknowledged
    <3>. QED  BY <1>0, <3>1, <3>2, ElsewhereOps DEF Asked
  <2>2. ASSUME NEW t \in Ops, CancelTracked(t), acked' # acked PROVE Acknowledged(o)
    <3>0. CASE t # o
      <4>1. op'[o] = op[o] /\ acked'[o] = acked[o]
        BY <1>0, <2>2, <3>0 DEF CancelTracked
      <4>. QED  BY <4>1 DEF Acknowledged, Asked
    <3>1. CASE t = o /\ CancelResult(op[o]) = "tooLate"
      BY <1>0, <2>2, <3>1 DEF CancelTracked, Acknowledged
    <3>2. CASE t = o /\ CancelResult(op[o]) # "tooLate"
      BY <1>0, <2>2, <3>2 DEF CancelTracked
    <3>. QED  BY <3>0, <3>1, <3>2
  <2>3. CASE CancelTargetDone /\ acked' # acked
    <3>1. rop \in Ops /\ rpc = "cancel" /\ ~connClosed /\ op[rop].phase = "complete"
          /\ UNCHANGED op /\ acked' = [acked EXCEPT ![rop] = @ \cup {"success"}]
      BY <1>0, <2>3 DEF CancelTargetDone, ReaderControl, R, TargetDone, lifeVars
    <3>. QED  BY <1>0, <3>1 DEF Acknowledged, Asked
  <2>. QED
    BY <2>1, <2>2, <2>3
       DEF Elsewhere, ReaderMove, StopRequest, TakeDown, ReadEnds, ReadNext,
       WaitInterrupted, BarrierDone, ReadBind, AbandonTracked, AbandonForBind,
       DrainSweep, DrainEnds, CancelConnection, ShutdownOperations, HangUp, LeaveStep,
       ServerEvent, ConnectionLost, IdleCheck, IdleClose, BeginDrain, SweepLongLived,
       ForceOperations, RemoteDecides, vars, wireVars
<1>5. o \in remote' \cup applied' => o \in remote \cup applied
  BY ElsewhereRemote DEF RemoteDecides, remoteVars
<1>. QED  BY <1>1, <1>2, <1>3, <1>4, <1>5 DEF Bystander

\* How a step concerns the request o: its executor takes a step in its handler, it is
\* admitted, popped, completed or dropped, or it only happens to be there.
LEMMA RequestCases ==
    ASSUME BaseInv, RegistryInv, BindSparesBinds, [Next]_vars, NEW o \in Ops,
           status[o] # "new" => Shape(o)
    PROVE  \/ \E e \in Executors : exec[e] = o /\ HandlerStep(e)
           \/ Admitted(o) \/ Popped(o) \/ Completed(o) \/ Dropped(o)
           \/ Bystander(o)
<1>. DEFINE Goal == \/ \E e \in Executors : exec[e] = o /\ HandlerStep(e)
                    \/ Admitted(o) \/ Popped(o) \/ Completed(o) \/ Dropped(o)
                    \/ Bystander(o)
<1>0. /\ QueueInv /\ Typed /\ ReaderControl
      /\ at \in [Executors -> ExecutorSteps] /\ op \in [Ops -> TrackedOperations]
      /\ kind \in [Ops -> AllKinds \cup {"none"}]
  BY DEF BaseInv, Typed, ExecTypes, LifeTypes, ReaderTypes
<1>e. /\ \A e \in Executors : exec[e] = o => pc[e] = "run" /\ status[o] = "running"
      /\ \A e, f \in Executors : exec[e] = o /\ exec[f] = o => e = f
  BY <1>0, NotRunningElsewhere, OpsAssumption
<1>s. ASSUME SameExecutors, UNCHANGED <<at, wireVars>>, status'[o] = status[o], op'[o] = op[o],
             status[o] # "new" => kind'[o] = kind[o]
      PROVE  Goal
  BY <1>s, NotConcerned DEF SameExecutors
<1>1. ASSUME NEW w \in Workers, PopOperation(w) PROVE Goal
  <2>0. UNCHANGED <<lifeVars, wireVars, kind>> /\ at' = [at EXCEPT ![w] = "clone"]
    BY <1>1 DEF PopOperation, Goto, readerVars
  <2>1. /\ w \in Executors /\ exec'[w] = Head(items)
        /\ \A e \in Executors : e # w => exec'[e] = exec[e]
        /\ status[Head(items)] = "queued" /\ status'[Head(items)] = "running"
        /\ \A p \in Ops : p # Head(items) => status'[p] = status[p]
        /\ Head(items) \in Ops
    BY <1>0, <1>1, PopEffect DEF PopOperation
  <2>2. CASE o = Head(items)
    <3>1. Popped(o)
      BY <1>0, <1>e, <2>0, <2>1, <2>2 DEF Popped, lifeVars
    <3>. QED  BY <3>1
  <2>3. CASE o # Head(items)
    <3>1. Bystander(o)
      BY <1>0, <2>0, <2>1, <2>3, NotConcerned DEF lifeVars
    <3>. QED  BY <3>1
  <2>. QED  BY <2>2, <2>3
<1>2. ASSUME NEW w \in Workers, PopNothing(w) PROVE Goal
  <2>1. SameExecutors /\ UNCHANGED status
    BY <1>0, <1>2, MoveEffect, WorkersAssumption DEF PopNothing, Executors, PopWait, PopExit
  <2>. QED  BY <1>2, <1>s, <2>1 DEF PopNothing, lifeVars, execVars, readerVars
<1>3. ASSUME NEW e \in Executors, HandlerStep(e) PROVE Goal
  <2>0. LocalTo(e) /\ UNCHANGED <<status, exec, kind>>
    BY <1>0, <1>3, HandlerStepIsLocal, UnchangedQueue DEF LocalTo, Typed, readerVars
  <2>1. CASE exec[e] = o
    BY <1>3, <2>1
  <2>2. CASE exec[e] # o
    <3>1. Bystander(o)
      BY <2>0, <2>2 DEF LocalTo, Bystander, Acknowledged, Asked
    <3>. QED  BY <3>1
  <2>. QED  BY <2>1, <2>2
<1>4. ASSUME NEW e \in Executors, CompleteOperation(e) PROVE Goal
  <2>0. UNCHANGED <<lifeVars, wireVars, kind>> /\ at[e] = "complete" /\ at' = [at EXCEPT ![e] = "none"]
    BY <1>4 DEF CompleteOperation, Goto
  <2>1. /\ exec'[e] = NoOp /\ status'[exec[e]] = "done" /\ exec[e] \in Ops
        /\ \A f \in Executors : f # e => exec'[f] = exec[f]
        /\ \A p \in Ops : p # exec[e] => status'[p] = status[p]
    BY <1>0, <1>4, CompleteEffect DEF CompleteOperation
  <2>2. CASE o = exec[e]
    <3>1. Completed(o)
      BY <1>0, <1>e, <2>0, <2>1, <2>2, OpsAssumption DEF Completed, lifeVars
    <3>. QED  BY <3>1
  <2>3. CASE o # exec[e]
    <3>1. Bystander(o)
      BY <1>0, <2>0, <2>1, <2>3, NotConcerned, OpsAssumption DEF lifeVars
    <3>. QED  BY <3>1
  <2>. QED  BY <2>2, <2>3
<1>5. ASSUME NEW e \in Executors, ReturnTrue(e) \/ ReturnFalse(e) PROVE Goal
  <2>1. SameExecutors /\ UNCHANGED status
    BY <1>0, <1>5, MoveEffect DEF ReturnTrue, ReturnFalse, Continue, GiveUp
  <2>. QED  BY <1>5, <1>s, <2>1 DEF ReturnTrue, ReturnFalse, lifeVars, execVars
<1>6. ASSUME NEW p \in Ops, NEW k, Admit(p, k) \/ TurnAway(p, k) PROVE Goal
  <2>0. /\ UNCHANGED <<wireVars, at>> /\ kind' = [kind EXCEPT ![p] = k]
        /\ \/ op' = [op EXCEPT ![p] = NewOperation(k)] /\ Admit(p, k)
           \/ op' = [op EXCEPT ![p] = FinishOperation(NewOperation(k))] /\ TurnAway(p, k)
    BY <1>6 DEF Admit, TurnAway, execVars
  <2>1. /\ SameExecutors /\ status[p] = "new"
        /\ Admit(p, k) => status'[p] = "queued"
        /\ TurnAway(p, k) => status'[p] = "refused"
        /\ \A q \in Ops : q # p => status'[q] = status[q]
    <3>1. CASE Admit(p, k)
      <4>1. PICK c \in BOOLEAN : Push(p, c)
        BY <3>1 DEF Admit, CanRunConcurrent
      <4>2. SameExecutors /\ status[p] = "new" /\ status'[p] = "queued"
            /\ \A q \in Ops : q # p => status'[q] = status[q]
        BY <1>0, <4>1, PushEffect
      <4>3. ~TurnAway(p, k)
        <5>1. ASSUME TurnAway(p, k) PROVE FALSE
          <6>1. PICK d \in BOOLEAN : Refuse(p, d)
            BY <5>1 DEF TurnAway, CanRunConcurrent
          <6>. QED  BY <1>0, <6>1, <4>2, RefuseEffect
        <5>. QED  BY <5>1
      <4>. QED  BY <4>2, <4>3
    <3>2. CASE TurnAway(p, k) /\ ~Admit(p, k)
      <4>1. PICK c \in BOOLEAN : Refuse(p, c)
        BY <3>2 DEF TurnAway, CanRunConcurrent
      <4>. QED  BY <1>0, <3>2, <4>1, RefuseEffect
    <3>. QED  BY <1>6, <3>1, <3>2
  <2>2. CASE o = p
    <3>1. \A e \in Executors : exec'[e] # o
      BY <1>e, <2>1, <2>2 DEF SameExecutors
    <3>2. Admitted(o)
      BY <1>0, <2>0, <2>1, <2>2, <3>1 DEF Admitted
    <3>. QED  BY <3>2
  <2>3. CASE o # p
    BY <1>0, <1>s, <2>0, <2>1, <2>3
  <2>. QED  BY <2>2, <2>3
<1>7. CASE ClaimBind /\ rop \in Ops
  <2>0. PICK p \in Ops : p = rop
    BY <1>7
  <2>1. /\ UNCHANGED <<wireVars, kind>> /\ kind[p] = "bind"
        /\ op' = [op EXCEPT ![p] = NewOperation("bind")]
        /\ at' = [at EXCEPT ![Reader] = "clone"]
    BY <1>7, <2>0 DEF ClaimBind, Goto
  <2>2. /\ Reader \in Executors /\ exec'[Reader] = p
        /\ \A e \in Executors : e # Reader => exec'[e] = exec[e]
        /\ status[p] = "new" /\ status'[p] = "running"
        /\ \A q \in Ops : q # p => status'[q] = status[q]
    BY <1>0, <1>7, <2>0, ClaimBindEffect, NotRunningElsewhere
  <2>3. CASE o = p
    <3>1. Admitted(o)
      BY <1>0, <1>e, <2>1, <2>2, <2>3 DEF Admitted
    <3>. QED  BY <3>1
  <2>4. CASE o # p
    <3>1. Bystander(o)
      BY <1>0, <2>1, <2>2, <2>4, NotConcerned
    <3>. QED  BY <3>1
  <2>. QED  BY <2>3, <2>4
<1>8. ASSUME NEW t \in Ops, AbandonQueued(t) PROVE Goal
  <2>0. /\ UNCHANGED <<wireVars, kind, at>>
        /\ op' = [op EXCEPT ![t] = FinishOperation(RequestAbandon(@))]
    BY <1>8 DEF AbandonQueued, execVars
  <2>1. /\ SameExecutors /\ status[t] = "queued" /\ status'[t] = "dropped"
        /\ \A q \in Ops : q # t => status'[q] = status[q]
    BY <1>0, <1>8, RemoveEffect DEF AbandonQueued
  <2>2. CASE o = t
    <3>1. Dropped(o)
      BY <1>0, <1>e, <2>0, <2>1, <2>2 DEF Dropped, SameExecutors
    <3>. QED  BY <3>1
  <2>3. CASE o # t
    BY <1>0, <1>s, <2>0, <2>1, <2>3
  <2>. QED  BY <2>2, <2>3
<1>9. CASE BindDiscards
  <2>0. /\ UNCHANGED <<wireVars, kind, at>>
        /\ op'[o] = IF o \in ToSet(items) THEN FinishOperation(op[o]) ELSE op[o]
    BY <1>9 DEF BindDiscards, FinishAll, execVars
  <2>1. SameExecutors /\ DropsQueued
    BY <1>0, <1>9, DiscardEffect DEF BindDiscards
  <2>2. CASE status[o] = "queued"
    <3>1. Dropped(o)
      BY <1>0, <1>e, <2>0, <2>1, <2>2, QueuedAreItems DEF Dropped, SameExecutors, DropsQueued
    <3>. QED  BY <3>1
  <2>3. CASE status[o] # "queued"
    BY <1>0, <1>s, <2>0, <2>1, <2>3, QueuedAreItems DEF DropsQueued
  <2>. QED  BY <2>2, <2>3
<1>10. CASE DrainClose \/ CloseQueue
  <2>0. UNCHANGED <<wireVars, kind, at, op>>
    BY <1>10 DEF DrainClose, CloseQueue, LeaveStep, execVars, lifeVars
  <2>1. SameExecutors /\ (DropsQueued \/ UNCHANGED status)
    BY <1>0, <1>10, CloseEffect DEF DrainClose, CloseQueue
  <2>2. CASE status[o] = "queued" /\ status'[o] # status[o]
    <3>1. Dropped(o)
      BY <1>0, <1>e, <2>0, <2>1, <2>2 DEF Dropped, SameExecutors, DropsQueued
    <3>. QED  BY <3>1
  <2>3. CASE status'[o] = status[o]
    BY <1>0, <1>s, <2>0, <2>1, <2>3
  <2>. QED  BY <2>1, <2>2, <2>3 DEF DropsQueued
<1>11. CASE Elsewhere
  BY <1>11, ElsewhereBystander
<1>. QED  BY <1>0, <1>1, <1>2, <1>3, <1>4, <1>5, <1>6, <1>7, <1>8, <1>9, <1>10, <1>11, StepCases

-----------------------------------------------------------------------------
(* Bystanders. *)

\* What others may do to the record of a request and to the acknowledgements of its Cancels.
LEMMA AcknowledgedFields ==
    ASSUME BaseInv, RegistryInv, CancelWait, NEW o \in Ops, status[o] # "new", Shape(o),
           Acknowledged(o)
    PROVE  /\ op[o] \in TrackedOperations /\ op'[o] \in TrackedOperations
           /\ op'[o].cancelable = op[o].cancelable /\ op'[o].abandonable = op[o].abandonable
           /\ op'[o].metaSearch = op[o].metaSearch /\ op'[o].metaSeen = op[o].metaSeen
           /\ op'[o].phase = op[o].phase \/ op'[o].phase = "complete"
           /\ \/ op'[o].stop = op[o].stop
              \/ op[o].stop = "running" /\ ~PastFinal(op[o]) /\ op'[o].stop # "running"
                 /\ kind[o] \notin Binds
           /\ op'[o].stop = "canceled" =>
                 op[o].stop = "canceled" \/ (op[o].cancelable /\ op[o].phase = "executing" /\ ~op[o].metaSeen)
           /\ op[o].metaCompletes => op'[o].metaCompletes
           /\ op'[o].metaCompletes => op[o].metaCompletes \/ op[o].metaSeen
           /\ op'[o].ctx => \/ op[o].ctx \/ op'[o].stop # "running"
                            \/ op'[o].metaCompletes \/ op'[o].phase = "complete"
           /\ \/ acked'[o] = acked[o]
              \/ /\ acked'[o] = acked[o] \cup {"tooLate"} /\ op[o].stop = "running"
                 /\ op'[o].stop = "running" /\ op[o].phase \in {"executing", "finalizing"}
                 /\ op[o].phase = "executing" => op[o].metaSeen /\ op'[o].metaCompletes
              \/ /\ acked'[o] = acked[o] \cup {"success"} /\ op'[o] = op[o] /\ ~Quiet
                 /\ op[o].phase = "complete" /\ op[o].stop = "canceled"
                 /\ rpc = "cancel" /\ status[o] \in {"running", "done"}
<1>0. op[o] \in TrackedOperations
  BY DEF BaseInv, Typed, LifeTypes
<1>1. CASE /\ Asked(op[o], op'[o]) /\ acked'[o] = acked[o]
           /\ kind[o] \in Binds => op'[o].stop = op[o].stop
  BY <1>0, <1>1, AskedFields DEF Shape
<1>2. CASE op'[o] = FinishOperation(op[o]) /\ acked'[o] = acked[o]
  BY <1>0, <1>2 DEF FinishOperation, TrackedOperations, Phases
<1>3. CASE /\ CancelResult(op[o]) = "tooLate" /\ op'[o] = RequestCancel(op[o]) /\ o \in registry
           /\ acked'[o] = acked[o] \cup {"tooLate"}
  <2>1. op[o].phase # "complete"
    BY <1>3 DEF RegistryInv, RegisteredAreLive
  <2>2. op'[o].stop = op[o].stop
    BY <1>0, <1>3, CancelFields
  <2>3. op[o].phase \in {"executing", "finalizing"} /\ op[o].stop = "running"
        /\ (op[o].phase = "executing" => op[o].metaSeen /\ op'[o].metaCompletes)
    BY <1>0, <1>3, <2>1, CancelFields DEF Shape, PastFinal
  <2>4. /\ op'[o] \in TrackedOperations /\ op'[o].phase = op[o].phase
        /\ op'[o].cancelable = op[o].cancelable /\ op'[o].abandonable = op[o].abandonable
        /\ op'[o].metaSearch = op[o].metaSearch /\ op'[o].metaSeen = op[o].metaSeen
        /\ op[o].metaCompletes => op'[o].metaCompletes
        /\ op'[o].metaCompletes => op[o].metaCompletes \/ op[o].metaSeen
        /\ op'[o].ctx => op[o].ctx \/ op'[o].stop # "running" \/ op'[o].metaCompletes
    BY <1>0, <1>3, CancelFields
  <2>. QED  BY <1>0, <1>3, <2>2, <2>3, <2>4
<1>4. CASE /\ op'[o] = op[o] /\ op[o].phase = "complete" /\ rpc = "cancel" /\ rop = o /\ ~connClosed
           /\ acked'[o] = acked[o] \cup {"success"}
  BY <1>0, <1>4 DEF CancelWait, Quiet, Leaving
<1>. QED  BY <1>1, <1>2, <1>3, <1>4 DEF Acknowledged

\* A finished record whose executor is not done with it: the registry was shut down.
LEMMA FinishedEarly ==
    ASSUME BaseInv, RegistryInv, DownIsDone, NEW e \in Executors, pc[e] = "run",
           op[exec[e]].phase = "complete", at[e] # "complete"
    PROVE  rpc \in Down /\ connDone /\ Quiet
<1>1. rpc \in Down
  BY DEF RegistryInv, LiveAreRegistered, RegisteredAreLive
<1>. QED  BY <1>1 DEF DownIsDone, Quiet, Down, Leaving

\* A request that a step only passes by keeps what is known of it.
LEMMA BystanderKeeps ==
    ASSUME BaseInv, RegistryInv, [Next]_vars, NEW o \in Ops, RequestInv(o), CancelWait, DownIsDone,
           Bystander(o)
    PROVE  RequestInv(o)'
<1>0. /\ status'[o] = status[o] /\ sent'[o] = sent[o]
      /\ status[o] # "new" => kind'[o] = kind[o]
      /\ o \in committed' <=> o \in committed
      /\ o \in remote' \cup applied' => o \in remote \cup applied
      /\ \A e \in Executors : exec'[e] = o => exec[e] = o /\ at'[e] = at[e]
      /\ Acknowledged(o)
  BY DEF Bystander
<1>1. (connDone => connDone') /\ (connClosed => connClosed') /\ (Quiet => Quiet')
  BY FlagsLast
<1>2. \A e \in Executors : exec[e] = o => pc[e] = "run" /\ status[o] = "running"
  BY NotRunningElsewhere, OpsAssumption DEF BaseInv
<1>3. CASE status[o] = "new"
  <2>1. acked'[o] = acked[o]
    <3>1. o \notin registry
      BY <1>3 DEF RegistryInv, RegisteredAreLive, Live
    <3>2. ~(rpc = "cancel" /\ rop = o)
      BY <1>3 DEF CancelWait
    <3>. QED  BY <1>0, <3>1, <3>2 DEF Acknowledged
  <2>. QED  BY <1>0, <1>2, <1>3, <2>1 DEF RequestInv, Untouched, Delegated
<1>4. CASE status[o] # "new"
  <2>0. Shape(o)
    BY <1>4 DEF RequestInv
  <2>. DEFINE r == op[o]
              s == op'[o]
  <2>1. /\ s.cancelable = r.cancelable /\ s.abandonable = r.abandonable
        /\ s.metaSearch = r.metaSearch /\ s.metaSeen = r.metaSeen
        /\ s.phase = r.phase \/ s.phase = "complete"
        /\ \/ s.stop = r.stop
           \/ r.stop = "running" /\ ~PastFinal(r) /\ s.stop # "running" /\ kind[o] \notin Binds
        /\ s.stop = "canceled" =>
                 r.stop = "canceled" \/ (r.cancelable /\ r.phase = "executing" /\ ~r.metaSeen)
        /\ r.metaCompletes => s.metaCompletes
        /\ s.metaCompletes => r.metaCompletes \/ r.metaSeen
        /\ s.ctx => r.ctx \/ s.stop # "running" \/ s.metaCompletes \/ s.phase = "complete"
    BY <1>0, <1>4, <2>0, AcknowledgedFields
  <2>2. \/ acked'[o] = acked[o]
        \/ /\ acked'[o] = acked[o] \cup {"tooLate"} /\ r.stop = "running" /\ s.stop = "running"
           /\ r.phase \in {"executing", "finalizing"}
           /\ r.phase = "executing" => r.metaSeen /\ s.metaCompletes
        \/ /\ acked'[o] = acked[o] \cup {"success"} /\ s = r /\ ~Quiet
           /\ r.phase = "complete" /\ r.stop = "canceled"
           /\ rpc = "cancel" /\ status[o] \in {"running", "done"}
    BY <1>0, <1>4, <2>0, AcknowledgedFields
  <2>3. r \in TrackedOperations /\ s \in TrackedOperations
    BY <1>0, <1>4, <2>0, AcknowledgedFields
  <2>. HIDE DEF r, s
  <2>4. Shape(o)'
    <3>1. s.phase = "finalizing" => s.stop = "running"
      BY <2>0, <2>1 DEF Shape, PastFinal, r
    <3>. QED  BY <1>0, <1>4, <2>0, <2>1, <3>1 DEF Shape, r, s
  <2>5. ContextInv(o) => ContextInv(o)'
    BY <2>1 DEF ContextInv, r, s, PastFinal
  <2>6. ASSUME status[o] \in {"queued", "dropped", "refused"} PROVE Untouched(o)'
    <3>1. Untouched(o)
      BY <2>6 DEF RequestInv
    <3>2. r.phase \in {"pending", "complete"}
      BY <1>4, <3>1 DEF Untouched, r
    <3>3. acked'[o] = acked[o]
      BY <2>2, <2>6, <3>2
    <3>. QED  BY <1>0, <2>1, <3>1, <3>2, <3>3 DEF Untouched, s
  <2>7. ASSUME Waiting(o), r.phase \in {"pending", "complete"} PROVE Waiting(o)'
    BY <2>1, <2>5, <2>7 DEF Waiting, r, s
  <2>8. Effective(o) => Effective(o)'
    BY <1>0, <1>4, <2>1 DEF Effective, r, s, PastFinal
  <2>9. ASSUME NEW e \in Executors, exec'[e] = o PROVE Executed(o, e)'
    <3>0. exec[e] = o /\ at'[e] = at[e] /\ Executed(o, e) /\ pc[e] = "run" /\ status[o] = "running"
      BY <1>0, <1>2, <2>9 DEF RequestInv
    <3>1. Boundary(o, e)'
      <4>0. Boundary(o, e)
        BY <3>0 DEF Executed
      <4>1. ASSUME at[e] \in {"clone", "acquire", "start"}
            PROVE  s.phase \in {"pending", "complete"} /\ Waiting(o)' /\ acked'[o] = {}
        <5>1. r.phase \in {"pending", "complete"} /\ Waiting(o) /\ acked[o] = {}
          BY <4>0, <4>1 DEF Boundary, r
        <5>2. r.stop # "canceled"
          BY <5>1 DEF Waiting, r
        <5>. QED  BY <2>1, <2>2, <2>7, <5>1, <5>2
      <4>2. ContextInv(o)'
        BY <2>5, <4>0 DEF Boundary
      <4>3. /\ at[e] \in {"commit", "write", "limited", "handshake"} => PastFinal(s) /\ s.stop = "running"
            /\ at[e] = "canceled" => s.stop = "canceled"
        BY <2>1, <4>0 DEF Boundary, r, PastFinal
      <4>4. /\ s.phase = "finalizing" =>
                  at[e] \in {"commit", "respond", "write", "limit", "limited", "handshake", "post", "finish"}
            /\ s.metaSeen => at[e] \in {"meta", "respond", "write", "limit", "limited", "canceled"} \cup Over
        BY <2>1, <4>0 DEF Boundary, r
      <4>. QED  BY <3>0, <4>1, <4>2, <4>3, <4>4 DEF Boundary, s
    <3>2. Effects(o, e)'
      BY <1>0, <1>4, <2>8, <3>0 DEF Executed, Effects
    <3>3. Responses(o, e)'
      <4>0. Responses(o, e)
        BY <3>0 DEF Executed
      <4>1. /\ at[e] \in Early \cup {"respond", "write", "limit", "limited"} => sent[o] = <<>>
            /\ at[e] = "handshake" => sent[o] = <<"result">>
        BY <4>0 DEF Responses
      <4>2. Promised(o)' => Promised(o)
        <5>1. CASE o \in committed' /\ kind'[o] = "write" /\ ~connClosed'
          BY <5>1, <1>0, <1>1, <1>4 DEF Promised
        <5>2. CASE s.phase = "finalizing" /\ ~connClosed'
          BY <5>2, <1>1, <2>1 DEF Promised, r
        <5>3. CASE s.metaSeen /\ s.stop = "running" /\ ~connDone' /\ ~connClosed'
          BY <5>3, <1>1, <2>1 DEF Promised, r
        <5>4. CASE "tooLate" \in acked'[o] /\ s.stop # "abandoned" /\ ~connDone' /\ ~connClosed'
          <6>1. CASE "tooLate" \in acked[o] /\ r.stop # "abandoned"
            BY <6>1, <5>4, <1>1 DEF Promised, r
          <6>2. CASE "tooLate" \notin acked[o]
            BY <6>2, <5>4, <1>1, <2>2 DEF Promised, r
          <6>3. r.stop = "abandoned" => s.stop = "abandoned"
            BY <2>1
          <6>. QED  BY <5>4, <6>1, <6>2, <6>3
        <5>. QED  BY <5>1, <5>2, <5>3, <5>4 DEF Promised, s
      <4>3. ASSUME "tooLate" \in acked'[o], s.stop # "abandoned", ~connDone', ~connClosed'
            PROVE  s.stop = "running" /\ (PastFinal(s) \/ s.metaCompletes)
        <5>1. CASE "tooLate" \in acked[o]
          <6>1. r.stop # "abandoned"
            BY <2>1, <4>3
          <6>2. r.stop = "running" /\ (PastFinal(r) \/ r.metaCompletes)
            BY <1>1, <4>0, <4>3, <5>1, <6>1 DEF Responses, r
          <6>3. s.stop # "canceled"
            BY <2>0, <2>1, <6>2 DEF Shape, PastFinal, r
          <6>4. s.stop = "running"
            BY <2>1, <4>3, <6>2, <6>3, <2>3 DEF TrackedOperations, StopModes
          <6>. QED  BY <2>1, <6>2, <6>4 DEF PastFinal
        <5>2. CASE "tooLate" \notin acked[o]
          BY <2>1, <2>2, <4>3, <5>2 DEF PastFinal
        <5>. QED  BY <5>1, <5>2
      <4>. QED  BY <1>0, <3>0, <4>0, <4>1, <4>2, <4>3 DEF Responses, s
    <3>4. ASSUME "saslbind" \notin Kinds PROVE SoundAt(o, e)'
      <4>0. SoundAt(o, e) /\ Sound(o)
        BY <3>0, <3>4 DEF Executed, SoundAt
      <4>1. /\ at[e] = "canceled" => sent[o] = <<>>
            /\ at[e] = "post" => sent[o] # <<"canceled">>
        BY <4>0 DEF SoundAt
      <4>2. ASSUME at[e] \in Over, sent[o] = <<>>, s.stop = "running" PROVE Cut'
        BY <1>1, <2>1, <4>0, <4>2 DEF SoundAt, Cut, r
      <4>3. ASSUME at[e] \in {"finish", "complete"}, s.stop = "canceled"
            PROVE  sent[o] = <<"canceled">> \/ Quiet'
        <5>1. CASE r.stop = "canceled"
          BY <1>1, <4>0, <4>3, <5>1 DEF SoundAt, r
        <5>2. CASE r.stop = "running"
          <6>1. ~PastFinal(r) /\ kind[o] \notin Binds
            BY <2>1, <4>3, <5>2
          <6>2. sent[o] = <<>>
            BY <4>0, <5>2, <6>1 DEF Sound, r
          <6>3. Cut => Quiet
            BY DEF BaseInv, ReaderControl, Quiet, Cut
          <6>. QED  BY <1>1, <4>0, <4>3, <5>2, <6>2, <6>3 DEF SoundAt, Over, r
        <5>. QED  BY <2>1, <4>3, <5>1, <5>2
      <4>4. Sound(o)'
        <5>1. /\ sent[o] = <<"canceled">> => s.stop = "canceled"
              /\ sent[o] = <<"result">> => s.stop = "running" /\ (PastFinal(s) \/ kind[o] \in Binds)
          BY <2>1, <4>0 DEF Sound, r, PastFinal
        <5>2. ASSUME "success" \in acked'[o] PROVE sent[o] = <<"canceled">>
          <6>1. CASE "success" \in acked[o]
            BY <4>0, <6>1 DEF Sound
          <6>2. CASE "success" \notin acked[o]
            <7>1. ~Quiet /\ r.phase = "complete" /\ r.stop = "canceled" /\ rpc = "cancel"
              BY <2>2, <5>2, <6>2
            <7>2. at[e] = "complete"
              BY <3>0, <7>1, FinishedEarly DEF r
            <7>. QED  BY <4>0, <7>1, <7>2 DEF SoundAt, r
          <6>. QED  BY <6>1, <6>2
        <5>. QED  BY <1>0, <1>4, <4>0, <5>1, <5>2 DEF Sound, s
      <4>. QED  BY <1>0, <3>0, <4>1, <4>2, <4>3, <4>4 DEF SoundAt, s
    <3>. QED  BY <3>1, <3>2, <3>3, <3>4 DEF Executed
  <2>10. ASSUME status[o] = "done" PROVE Finished(o)'
    <3>0. Finished(o) /\ r.phase = "complete"
      BY <2>10 DEF RequestInv, Finished, r
    <3>1. s.phase = "complete" /\ s.stop = r.stop
      BY <2>1, <3>0 DEF PastFinal
    <3>2. Effective(o)'
      BY <2>8, <3>0 DEF Finished
    <3>3. "tooLate" \in acked'[o] => "tooLate" \in acked[o]
      BY <2>2, <3>0
    <3>4. /\ o \in committed' /\ kind'[o] = "write" /\ ~connClosed' => sent'[o] = <<"result">>
          /\ "tooLate" \in acked'[o] /\ s.stop # "abandoned" /\ ~connDone' /\ ~connClosed' =>
                sent'[o] = <<"result">>
      BY <1>0, <1>1, <1>4, <3>0, <3>1, <3>3 DEF Finished, r
    <3>5. ASSUME "saslbind" \notin Kinds
          PROVE  /\ Sound(o)' /\ (s.stop = "canceled" => sent'[o] = <<"canceled">> \/ Quiet')
                 /\ s.stop = "running" /\ sent'[o] = <<>> => Cut'
      <4>1. /\ Sound(o) /\ (r.stop = "canceled" => sent[o] = <<"canceled">> \/ Quiet)
            /\ r.stop = "running" /\ sent[o] = <<>> => Cut
        BY <3>0, <3>5 DEF Finished, r
      <4>2. "success" \in acked'[o] => sent[o] = <<"canceled">>
        BY <2>2, <4>1 DEF Sound
      <4>3. Sound(o)'
        BY <1>0, <1>4, <3>1, <4>1, <4>2 DEF Sound, r, s, PastFinal
      <4>. QED  BY <1>0, <1>1, <3>1, <4>1, <4>3 DEF Cut
    <3>. QED  BY <3>1, <3>2, <3>4, <3>5 DEF Finished, s
  <2>11. ASSUME status[o] = "queued" PROVE Waiting(o)'
    BY <2>7, <2>11 DEF RequestInv, Untouched, r
  <2>12. Delegated(o)'
    BY <1>0, <2>1 DEF RequestInv, Delegated, r, s
  <2>. QED  BY <1>0, <1>4, <2>4, <2>6, <2>9, <2>10, <2>11, <2>12 DEF RequestInv
<1>. QED  BY <1>3, <1>4

-----------------------------------------------------------------------------
(* Requests that move, and the reader. *)

\* A fresh record, and one that is finished at once.
LEMMA NewOperationFields ==
    ASSUME NEW k, NEW r, r = NewOperation(k) \/ r = FinishOperation(NewOperation(k))
    PROVE  /\ r.phase \in {"pending", "complete"} /\ r.stop = "running"
           /\ r.cancelable => Cancelable(k)
           /\ r.abandonable <=> k \notin Binds
           /\ r.metaSearch = FALSE /\ r.metaSeen = FALSE /\ r.metaCompletes = FALSE
           /\ r.ctx => r.phase = "complete"
<1>2. PICK t : t = NewOperation(k)
  OBVIOUS
<1>3. Cancelable(k) \in BOOLEAN /\ (k \notin Binds) \in BOOLEAN /\ (k = "persist") \in BOOLEAN
  BY DEF Cancelable
<1>4. PICK a \in BOOLEAN : a = Cancelable(k)
  BY <1>3
<1>5. PICK b \in BOOLEAN : b = (k \notin Binds)
  BY <1>3
<1>6. PICK c \in BOOLEAN : c = (k = "persist")
  BY <1>3
<1>7. t = NewTrackedOperation(a, b, c)
  BY <1>2, <1>4, <1>5, <1>6 DEF NewOperation
<1>8. /\ t \in TrackedOperations
      /\ t.phase = "pending" /\ t.stop = "running" /\ t.cancelable = a /\ t.abandonable = b
      /\ t.metaSearch = FALSE /\ t.metaSeen = FALSE /\ t.metaCompletes = FALSE
      /\ t.ctx = FALSE
  BY <1>7 DEF NewTrackedOperation, TrackedOperations, Phases, StopModes
<1>9. (t.cancelable => Cancelable(k)) /\ (t.abandonable <=> k \notin Binds)
  BY <1>4, <1>5, <1>8
<1>10. CASE r = t
  BY <1>8, <1>9, <1>10
<1>11. CASE r = FinishOperation(t)
  <2>1. /\ r.phase = "complete" /\ r.stop = "running"
        /\ r.cancelable = t.cancelable /\ r.abandonable = t.abandonable
        /\ r.metaSearch = FALSE /\ r.metaSeen = FALSE /\ r.metaCompletes = FALSE
    BY <1>8, <1>11 DEF FinishOperation, TrackedOperations
  <2>. QED  BY <1>9, <2>1
<1>. QED  BY <1>2, <1>10, <1>11

\* A handler never changes the stop mode of its request and makes none cancelable.
LEMMA HandlerKeepsStop ==
    ASSUME QueueInv, Typed, NEW e \in Executors, HandlerStep(e)
    PROVE  /\ op'[exec[e]].stop = op[exec[e]].stop
           /\ op'[exec[e]].cancelable => op[exec[e]].cancelable
<1>0. exec[e] \in Ops /\ op \in [Ops -> TrackedOperations]
  BY HandlerStepIsLocal DEF LocalTo, Typed, LifeTypes
<1>1. CASE Start(e) \/ DispatchMeta(e) \/ MetaEntry(e) \/ CommitPoint(e)
           \/ SendRemote(e) \/ Respond(e)
  <2>1. \/ UNCHANGED op
        \/ op' = [op EXCEPT ![exec[e]] = StartOperation(@)]
        \/ op' = [op EXCEPT ![exec[e]] = EnableMetaBackendSearch(@)]
        \/ op' = [op EXCEPT ![exec[e]] = ObserveMetaBackendResponse(@)]
        \/ op' = [op EXCEPT ![exec[e]] = MarkCommitPoint(@)]
        \/ op' = [op EXCEPT ![exec[e]] = DisableCancellationForRemoteCommit(@)]
        \/ op' = [op EXCEPT ![exec[e]] = BeginFinalResponse(@)]
    BY <1>1 DEF Start, DispatchMeta, MetaEntry, CommitPoint, SendRemote, Respond
  <2>. QED  BY <1>0, <2>1 DEF StartOperation, EnableMetaBackendSearch, ObserveMetaBackendResponse,
                MarkCommitPoint, DisableCancellationForRemoteCommit, BeginFinalResponse, TrackedOperations
<1>2. CASE Finish(e)
  BY <1>0, <1>2 DEF Finish, FinishAll, FinishOperation, TrackedOperations
<1>3. CASE Post(e)
  BY <1>3, PostCases DEF Typed, lifeVars
<1>4. CASE UNCHANGED op
  BY <1>4
<1>. QED
  BY <1>1, <1>2, <1>3, <1>4 DEF HandlerStep, CloneState, Acquire, DispatchReject, DispatchFails,
     DispatchRead, MetaDone, DispatchPersist, PersistStops, PersistOverflows, DispatchWrite, CommitWrite,
     DispatchProxyWrite, AwaitRemote, DispatchBind, DispatchStartTLS, Handshake, DispatchTransaction,
     WriteFinal, ResponseLimit, WriteCanceled, lifeVars

\* What a step of a handler does to the responses and the effects.
LEMMA HandlerWire ==
    ASSUME QueueInv, Typed, NEW e \in Executors, HandlerStep(e)
    PROVE  \/ UNCHANGED wireVars
           \/ SendRemote(e)
           \/ /\ UNCHANGED remoteVars
              /\ \/ /\ at[e] = "commit" /\ committed' = committed \cup {exec[e]}
                    /\ UNCHANGED sent
                 \/ /\ at[e] \in {"write", "limited", "direct"} /\ UNCHANGED committed
                    /\ sent' = [sent EXCEPT ![exec[e]] = Append(@, "result")]
                 \/ /\ at[e] = "canceled" /\ UNCHANGED committed
                    /\ sent' = [sent EXCEPT ![exec[e]] = Append(@, "canceled")]
<1>. USE DEF wireVars
<1>1. CASE CommitWrite(e)
  BY <1>1 DEF CommitWrite, S
<1>2. CASE SendRemote(e)
  BY <1>2
<1>3. CASE WriteFinal(e)
  BY <1>3 DEF WriteFinal, S
<1>4. CASE WriteCanceled(e)
  BY <1>4 DEF WriteCanceled, S
<1>5. CASE Post(e)
  BY <1>5, PostCases DEF Typed
<1>6. CASE CloneState(e) \/ Acquire(e) \/ Start(e) \/ DispatchReject(e) \/ DispatchRead(e)
           \/ DispatchMeta(e) \/ MetaEntry(e) \/ MetaDone(e) \/ DispatchFails(e)
  BY <1>6 DEF CloneState, Acquire, Start, DispatchReject, DispatchRead, DispatchMeta, MetaEntry, MetaDone,
     DispatchFails
<1>7. CASE DispatchPersist(e) \/ PersistStops(e) \/ PersistOverflows(e) \/ DispatchWrite(e)
           \/ CommitPoint(e) \/ DispatchProxyWrite(e) \/ AwaitRemote(e)
  BY <1>7 DEF DispatchPersist, PersistStops, PersistOverflows, DispatchWrite, CommitPoint,
     DispatchProxyWrite, AwaitRemote
<1>8. CASE DispatchBind(e) \/ DispatchStartTLS(e) \/ Handshake(e) \/ DispatchTransaction(e)
           \/ Respond(e) \/ ResponseLimit(e) \/ Finish(e)
  BY <1>8 DEF DispatchBind, DispatchStartTLS, Handshake, DispatchTransaction, Respond, ResponseLimit, Finish
<1>. QED  BY <1>1, <1>2, <1>3, <1>4, <1>5, <1>6, <1>7, <1>8 DEF HandlerStep

\* Who sends a request to another server has made sure that it is not canceled.
LEMMA HandlerDelegates ==
    ASSUME QueueInv, Typed, NEW e \in Executors, HandlerStep(e), Delegated(exec[e])
    PROVE  Delegated(exec[e])'
<1>1. PICK o \in Ops : o = exec[e]
  BY HandlerStepIsLocal DEF LocalTo, Typed
<1>2. UNCHANGED exec /\ op[o] \in TrackedOperations /\ op \in [Ops -> TrackedOperations]
  BY HandlerStepIsLocal, UnchangedQueue DEF LocalTo, Typed, LifeTypes
<1>3. CASE UNCHANGED remoteVars
  BY <1>1, <1>2, <1>3, HandlerKeepsStop DEF Delegated, remoteVars
<1>4. CASE SendRemote(e)
  <2>1. CASE UNCHANGED <<op, remote>>
    BY <1>1, <1>2, <1>4, <2>1 DEF SendRemote, Delegated
  <2>2. CASE op' = [op EXCEPT ![o] = DisableCancellationForRemoteCommit(@)] /\ ResponseAllowed(op[o])
    BY <1>1, <1>2, <2>2 DEF Delegated, DisableCancellationForRemoteCommit, ResponseAllowed, TrackedOperations
  <2>. QED  BY <1>1, <1>4, <2>1, <2>2 DEF SendRemote
<1>. QED  BY <1>3, <1>4, HandlerWire DEF wireVars

\* A request that is admitted, popped, completed or dropped keeps what is known of it.
LEMMA MoveKeeps ==
    ASSUME BaseInv, RegistryInv, [Next]_vars, NEW o \in Ops, RequestInv(o), CancelWait, DownIsDone,
           Admitted(o) \/ Popped(o) \/ Completed(o) \/ Dropped(o)
    PROVE  RequestInv(o)'
<1>0. op[o] \in TrackedOperations
  BY DEF BaseInv, Typed, LifeTypes
<1>1. (connDone => connDone') /\ (connClosed => connClosed') /\ (Quiet => Quiet')
  BY FlagsLast
<1>2. CASE Admitted(o)
  <2>1. PICK k : /\ kind'[o] = k
                 /\ \/ op'[o] = NewOperation(k)
                    \/ op'[o] = FinishOperation(NewOperation(k)) /\ status'[o] = "refused"
    BY <1>2 DEF Admitted
  <2>2. Untouched(o) /\ status[o] = "new"
    BY <1>2 DEF Admitted, RequestInv
  <2>r. PICK r : r = op'[o]
    OBVIOUS
  <2>g. r = NewOperation(k) \/ r = FinishOperation(NewOperation(k))
    BY <2>1, <2>r
  <2>f. /\ r.phase \in {"pending", "complete"} /\ r.stop = "running"
        /\ r.cancelable => Cancelable(k)
        /\ r.abandonable <=> k \notin Binds
        /\ r.metaSearch = FALSE /\ r.metaSeen = FALSE /\ r.metaCompletes = FALSE
        /\ r.ctx => r.phase = "complete"
    BY <2>g, NewOperationFields, Zenon
  <2>3. Shape(o)'
    <3>1. PICK m : m = kind'[o]
      OBVIOUS
    <3>2. k = m
      BY <2>1, <3>1
    <3>3. (r.cancelable => Cancelable(m)) /\ (r.abandonable <=> m \notin Binds)
      BY <2>f, <3>2
    <3>. QED  BY <2>r, <2>f, <3>1, <3>3 DEF Shape
  <2>4. sent'[o] = <<>> /\ o \notin committed' \cup remote' \cup applied' /\ acked'[o] = {}
    BY <1>2, <2>2 DEF Admitted, Untouched, wireVars, remoteVars
  <2>5. op'[o].phase \in {"pending", "complete"}
    BY <2>r, <2>f
  <2>6. Waiting(o)' /\ op'[o].stop = "running"
    BY <2>r, <2>f DEF Waiting, ContextInv
  <2>7. ASSUME NEW e \in Executors, exec'[e] = o PROVE Executed(o, e)'
    <3>1. at'[e] = "clone"
      BY <1>2, <2>7 DEF Admitted
    <3>2. Boundary(o, e)'
      BY <2>4, <2>5, <2>6, <3>1 DEF Boundary, Waiting
    <3>3. Effects(o, e)'
      BY <2>4, <3>1 DEF Effects, Effective, Early
    <3>4. Responses(o, e)'
      BY <2>4, <3>1 DEF Responses, Over
    <3>5. SoundAt(o, e)'
      BY <2>4, <3>1 DEF SoundAt, Sound, Over
    <3>. QED  BY <3>2, <3>3, <3>4, <3>5 DEF Executed
  <2>. QED  BY <1>2, <2>3, <2>4, <2>5, <2>6, <2>7 DEF RequestInv, Untouched, Delegated, Admitted
<1>3. CASE Popped(o)
  <2>1. Shape(o) /\ Untouched(o) /\ Waiting(o)
    BY <1>3 DEF Popped, RequestInv
  <2>2. Shape(o)' /\ Waiting(o)'
    BY <1>3, <2>1 DEF Popped, Shape, Waiting, ContextInv
  <2>3. sent'[o] = <<>> /\ o \notin committed' \cup remote' \cup applied' /\ acked'[o] = {} /\ op'[o].phase \in {"pending", "complete"}
    BY <1>3, <2>1 DEF Popped, Untouched, wireVars, remoteVars
  <2>4. ASSUME NEW e \in Executors, exec'[e] = o PROVE Executed(o, e)'
    <3>1. at'[e] = "clone"
      BY <1>3, <2>4 DEF Popped
    <3>2. Boundary(o, e)'
      BY <2>2, <2>3, <3>1 DEF Boundary, Waiting
    <3>3. Effects(o, e)'
      BY <2>3, <3>1 DEF Effects, Effective, Early
    <3>4. Responses(o, e)'
      BY <2>3, <3>1 DEF Responses, Over
    <3>5. SoundAt(o, e)'
      BY <2>3, <3>1 DEF SoundAt, Sound, Over
    <3>. QED  BY <3>2, <3>3, <3>4, <3>5 DEF Executed
  <2>. QED  BY <1>3, <2>2, <2>3, <2>4 DEF RequestInv, Delegated, Popped
<1>4. CASE Dropped(o)
  <2>1. Shape(o) /\ Untouched(o)
    BY <1>4 DEF Dropped, RequestInv
  <2>2. /\ op'[o].cancelable = op[o].cancelable /\ op'[o].abandonable = op[o].abandonable
        /\ op'[o].metaSearch = op[o].metaSearch /\ op'[o].metaSeen = op[o].metaSeen
        /\ op'[o].metaCompletes = op[o].metaCompletes
        /\ op'[o].phase \in {op[o].phase, "complete"}
    <3>1. PICK a : a = RequestAbandon(op[o])
      OBVIOUS
    <3>2. /\ a \in TrackedOperations /\ a.cancelable = op[o].cancelable
          /\ a.abandonable = op[o].abandonable /\ a.metaSearch = op[o].metaSearch
          /\ a.metaSeen = op[o].metaSeen /\ a.metaCompletes = op[o].metaCompletes
      BY <1>0, <3>1, AbandonFields
    <3>. QED  BY <1>0, <1>4, <3>1, <3>2 DEF Dropped, FinishOperation, TrackedOperations
  <2>3. sent'[o] = <<>> /\ o \notin committed' \cup remote' \cup applied' /\ acked'[o] = {} /\ op'[o].phase \in {"pending", "complete"}
    BY <1>4, <2>1, <2>2 DEF Dropped, Untouched, wireVars, remoteVars
  <2>4. Shape(o)'
    BY <1>4, <2>1, <2>2, <2>3 DEF Dropped, Shape
  <2>. QED  BY <1>4, <2>3, <2>4 DEF RequestInv, Untouched, Delegated, Dropped
<1>5. CASE Completed(o)
  <2>1. PICK e \in Executors : exec[e] = o /\ at[e] = "complete"
    BY <1>5 DEF Completed
  <2>2. /\ Executed(o, e) /\ op[o].phase = "complete" /\ status[o] = "running" /\ Shape(o)
        /\ pc[e] = "run"
    BY <2>1, NotRunningElsewhere, OpsAssumption
       DEF RequestInv, RegistryInv, CompletedAreOut, BaseInv
  <2>3. Shape(o)' /\ (Effective(o) => Effective(o)')
    BY <1>5, <2>2 DEF Completed, Shape, Effective, wireVars
  <2>4. Finished(o)'
    <3>1. op'[o].phase = "complete" /\ Effective(o)'
      BY <1>5, <2>2, <2>3 DEF Completed, Executed, Effects
    <3>2. Promised(o) => sent[o] = <<"result">>
      BY <2>1, <2>2 DEF Executed, Responses, Over
    <3>3. /\ o \in committed' /\ kind'[o] = "write" /\ ~connClosed' => sent'[o] = <<"result">>
          /\ "tooLate" \in acked'[o] /\ op'[o].stop # "abandoned" /\ ~connDone' /\ ~connClosed' =>
                sent'[o] = <<"result">>
      BY <1>1, <1>5, <3>2 DEF Completed, Promised, wireVars
    <3>4. ASSUME "saslbind" \notin Kinds
          PROVE  /\ Sound(o)' /\ (op'[o].stop = "canceled" => sent'[o] = <<"canceled">> \/ Quiet')
                 /\ op'[o].stop = "running" /\ sent'[o] = <<>> => Cut'
      <4>1. /\ Sound(o) /\ (op[o].stop = "canceled" => sent[o] = <<"canceled">> \/ Quiet)
            /\ op[o].stop = "running" /\ sent[o] = <<>> => Cut
        BY <2>1, <2>2, <3>4 DEF Executed, SoundAt, Over
      <4>. QED  BY <1>1, <1>5, <4>1 DEF Completed, Sound, wireVars, Cut
    <3>. QED  BY <3>1, <3>3, <3>4 DEF Finished
  <2>5. Delegated(o)'
    BY <1>5 DEF Completed, RequestInv, Delegated, wireVars, remoteVars
  <2>. QED  BY <1>5, <2>3, <2>4, <2>5 DEF RequestInv, Completed
<1>. QED  BY <1>2, <1>3, <1>4, <1>5

\* The reader waits for a canceled request that somebody executes or has executed.
LEMMA CancelWaitStep ==
    ASSUME BaseInv, RegistryInv, BindSparesBinds, AnswerInv, [Next]_vars
    PROVE  CancelWait'
<1>0. QueueInv /\ Typed /\ ReaderControl /\ op \in [Ops -> TrackedOperations] /\ CancelWait
  BY DEF BaseInv, Typed, LifeTypes, AnswerInv
<1>. SUFFICES ASSUME rpc' = "cancel"
              PROVE  op'[rop'].stop = "canceled" /\ status'[rop'] \in {"running", "done"}
  BY DEF CancelWait
<1>1. \/ \E t \in Ops : CancelTracked(t)
      \/ rpc = "cancel" /\ rop' = rop
  <2>1. CASE UNCHANGED <<rpc, rop>>
    BY <2>1
  <2>2. ASSUME NEW e \in Executors, HandlerStep(e) PROVE UNCHANGED <<rpc, rop>>
    BY <1>0, <2>2, HandlerStepIsLocal DEF LocalTo, Typed, readerVars
  <2>3. ASSUME NEW w, PopOperation(w) \/ PopNothing(w) \/ CompleteOperation(w)
        PROVE  UNCHANGED <<rpc, rop>>
    BY <2>3 DEF PopOperation, PopNothing, CompleteOperation, readerVars
  <2>4. ASSUME NEW e, ReturnTrue(e) \/ ReturnFalse(e) PROVE UNCHANGED <<rpc, rop>>
    BY <2>4 DEF ReturnTrue, ReturnFalse
  <2>5. ASSUME NEW o, NEW k, Admit(o, k) \/ TurnAway(o, k) \/ AbandonQueued(o) PROVE FALSE
    BY <2>5 DEF Admit, TurnAway, AbandonQueued
  <2>6. CASE ClaimBind
    BY <2>6 DEF ClaimBind, R
  <2>7. CASE BindDiscards \/ DrainClose \/ CloseQueue
    BY <2>7 DEF BindDiscards, DrainClose, CloseQueue, LeaveStep
  <2>8. CASE Elsewhere /\ ~\E t \in Ops : CancelTracked(t)
    BY <2>8 DEF Elsewhere, ReaderMove, StopRequest, TakeDown, ReadEnds, ReadNext,
       CancelTargetDone, WaitInterrupted, BarrierDone, ReadBind, AbandonTracked,
       AbandonForBind, DrainSweep, DrainEnds, CancelConnection, ShutdownOperations, HangUp,
       LeaveStep, ServerEvent, ConnectionLost, IdleCheck, IdleClose, BeginDrain, SweepLongLived,
       ForceOperations, RemoteDecides, vars, readerVars
  <2>. QED  BY <1>0, <2>1, <2>2, <2>3, <2>4, <2>5, <2>6, <2>7, <2>8, StepCases
<1>2. ASSUME NEW t \in Ops, CancelTracked(t)
      PROVE  op'[rop'].stop = "canceled" /\ status'[rop'] \in {"running", "done"}
  <2>1. /\ CancelResult(op[t]) = "success" /\ rop' = t /\ op'[t] = RequestCancel(op[t])
        /\ t \in registry /\ UNCHANGED status
    BY <1>0, <1>2, UnchangedQueue DEF CancelTracked
  <2>2. op'[t].stop = "canceled" /\ op[t].phase = "executing"
    BY <1>0, <2>1, CancelFields
  <2>3. status[t] = "running"
    <3>1. status[t] \in {"queued", "running"} \cup {"dropped"}
      BY <2>1 DEF RegistryInv, RegisteredAreLive, Live
    <3>2. RequestInv(t)
      BY DEF AnswerInv
    <3>. QED  BY <2>2, <3>1, <3>2 DEF RequestInv, Untouched
  <2>. QED  BY <2>1, <2>2, <2>3
<1>3. CASE rpc = "cancel" /\ rop' = rop
  <2>1. PICK o \in Ops : o = rop
    BY <1>0, <1>3 DEF ReaderControl
  <2>2. op[o].stop = "canceled" /\ status[o] \in {"running", "done"}
    BY <1>0, <1>3, <2>1 DEF CancelWait
  <2>3. RequestInv(o) /\ Shape(o)
    BY <2>2 DEF AnswerInv, RequestInv
  <2>4. CASE \E e \in Executors : exec[e] = o /\ HandlerStep(e)
    <3>1. PICK e \in Executors : exec[e] = o /\ HandlerStep(e)
      BY <2>4
    <3>2. UNCHANGED status
      BY <1>0, <3>1, HandlerStepIsLocal, UnchangedQueue DEF LocalTo, Typed
    <3>3. op'[o].stop = op[o].stop
      BY <1>0, <3>1, HandlerKeepsStop
    <3>. QED  BY <1>3, <2>1, <2>2, <3>2, <3>3
  <2>5. CASE Completed(o)
    BY <1>3, <2>1, <2>2, <2>5 DEF Completed
  <2>6. CASE Bystander(o)
    <3>1. op'[o].stop = "canceled"
      BY <1>0, <2>2, <2>3, <2>6, AcknowledgedFields DEF Bystander
    <3>. QED  BY <1>3, <2>1, <2>2, <2>6, <3>1 DEF Bystander
  <2>. QED  BY <2>1, <2>2, <2>3, <2>4, <2>5, <2>6, RequestCases DEF Admitted, Popped, Dropped
<1>. QED  BY <1>1, <1>2, <1>3

\* The registry is shut down only after the connection's context is canceled.
LEMMA DownIsDoneStep ==
    ASSUME BaseInv, DownIsDone, [Next]_vars
    PROVE  DownIsDone'
<1>0. QueueInv /\ Typed /\ ReaderControl
  BY DEF BaseInv
<1>1. connDone => connDone'
  BY FlagsLast
<1>2. CASE UNCHANGED rpc
  BY <1>1, <1>2 DEF DownIsDone
<1>3. ASSUME NEW e \in Executors, HandlerStep(e) PROVE UNCHANGED rpc
  BY <1>0, <1>3, HandlerStepIsLocal DEF LocalTo, Typed, readerVars
<1>4. ASSUME NEW w, PopOperation(w) \/ PopNothing(w) \/ CompleteOperation(w) PROVE UNCHANGED rpc
  BY <1>4 DEF PopOperation, PopNothing, CompleteOperation, readerVars
<1>5. ASSUME NEW e, ReturnTrue(e) \/ ReturnFalse(e) PROVE DownIsDone'
  BY <1>1, <1>5 DEF ReturnTrue, ReturnFalse, DownIsDone, Down
<1>6. ASSUME NEW o, NEW k, Admit(o, k) \/ TurnAway(o, k) \/ AbandonQueued(o) PROVE DownIsDone'
  BY <1>6 DEF Admit, TurnAway, AbandonQueued, DownIsDone, Down
<1>7. CASE ClaimBind
  BY <1>2, <1>7 DEF ClaimBind
<1>8. CASE BindDiscards \/ DrainClose \/ CloseQueue
  BY <1>1, <1>8 DEF BindDiscards, DrainClose, CloseQueue, LeaveStep, DownIsDone, Down
<1>9. CASE Elsewhere
  BY <1>1, <1>9 DEF Elsewhere, ReaderMove, StopRequest, TakeDown, ReadEnds, ReadNext,
       CancelTargetDone, WaitInterrupted, BarrierDone, ReadBind, AbandonTracked, CancelTracked,
       AbandonForBind, DrainSweep, DrainEnds, CancelConnection, ShutdownOperations, HangUp,
       LeaveStep, ServerEvent, ConnectionLost, IdleCheck, IdleClose, BeginDrain, SweepLongLived,
       ForceOperations, RemoteDecides, vars, readerVars, DownIsDone, Down
<1>. QED  BY <1>0, <1>2, <1>3, <1>4, <1>5, <1>6, <1>7, <1>8, <1>9, StepCases

-----------------------------------------------------------------------------
(* Handlers. *)

\* Reasons to end an execution without a response: the request was stopped, its registry was
\* shut down, or the connection is going down; a meta search that a late Cancel left to
\* complete has none.
Excused(o) ==
    \/ op[o].stop # "running"
    \/ connDone
    \/ op[o].ctx /\ ~op[o].metaCompletes
    \/ op[o].phase = "complete"

\* Where an execution goes on without touching its request.
Turn(o, e, s) ==
    \/ at[e] = "clone" /\ s = "acquire"
    \/ at[e] = "acquire" /\ s = "start"
    \/ at[e] = "dispatch" /\ s \in {"direct", "persist", "commitpoint", "remote"}
    \/ at[e] = "remote" /\ s = "await"
    \/ at[e] = "await" /\ s = "remote"
    \/ at[e] \in {"dispatch", "meta", "persist", "commitpoint", "commit", "await"} /\ s = "respond"
    \/ at[e] \in {"acquire", "start", "dispatch", "meta", "persist"} /\ s = "post" /\ Excused(o)
    \/ at[e] \in {"respond", "limit"} /\ s = "post" /\ op[o].stop # "running"
    \/ at[e] \in {"write", "direct", "limited"} /\ s = "post" /\ (connClosed \/ op[o].stop # "running")
    \/ at[e] \in {"dispatch", "meta", "persist", "direct", "write"} /\ s = "limit" /\ kind[o] \in Searches
    \/ at[e] = "handshake" /\ s = "post"
    \/ at[e] = "post" /\ s = "finish" /\ op[o].stop # "canceled"
    \/ at[e] = "post" /\ s = "canceled" /\ op[o].stop = "canceled"
    \/ at[e] = "canceled" /\ s = "finish" /\ connClosed

\* What a handler step of e leaves alone, whatever it does.
Kept(o, e) ==
    /\ kind'[o] = kind[o] /\ acked'[o] = acked[o]
    /\ connDone' = connDone /\ connClosed' = connClosed /\ Quiet' = Quiet

\* Before anything is written, the responses are sound.
LEMMA SilenceIsSound ==
    ASSUME NEW o \in Ops, NEW e \in Executors, Sound(o), sent[o] = <<>>, sent'[o] = <<>>,
           acked'[o] = acked[o], at'[e] \notin Over
    PROVE  SoundAt(o, e)'
<1>1. "success" \notin acked'[o]
  <2>1. <<>> # <<"canceled">>
    OBVIOUS
  <2>. QED  BY <2>1 DEF Sound
<1>2. Sound(o)'
  BY <1>1 DEF Sound
<1>. QED  BY <1>2 DEF SoundAt, Over

\* A turn keeps what is known of the request.
LEMMA TurnKeeps ==
    ASSUME BaseInv, RegistryInv, DownIsDone, NEW o \in Ops, NEW e \in Executors, NEW s,
           exec[e] = o, pc[e] = "run", Shape(o), Executed(o, e), Kept(o, e), Turn(o, e, s),
           at'[e] = s, op'[o] = op[o], sent'[o] = sent[o], o \in committed' <=> o \in committed
    PROVE  Shape(o)' /\ Executed(o, e)'
<1>0. /\ op[o] \in TrackedOperations
      /\ (connDone => Quiet) /\ (connClosed => Quiet)
      /\ op[o].phase = "complete" /\ at[e] # "complete" => connDone
  BY FinishedEarly DEF BaseInv, Typed, LifeTypes, ReaderControl, Quiet
<1>1. Shape(o)'
  BY DEF Shape, Kept
<1>2. Boundary(o, e) /\ Effects(o, e) /\ Responses(o, e) /\ ("saslbind" \notin Kinds => SoundAt(o, e))
  BY DEF Executed
<1>3. ContextInv(o)' /\ ContextInv(o)
  BY <1>2 DEF Boundary, ContextInv
<1>4. Boundary(o, e)'
  <2>1. s \in {"clone", "acquire", "start"} => Waiting(o) /\ op[o].phase \in {"pending", "complete"} /\ acked[o] = {}
    BY <1>2 DEF Turn, Boundary
  <2>2. /\ s \in {"commit", "write", "limited", "handshake"} => PastFinal(op[o]) /\ op[o].stop = "running"
        /\ s = "canceled" => op[o].stop = "canceled"
    BY <1>2 DEF Turn, Boundary
  <2>3. op[o].phase = "finalizing" =>
          s \in {"commit", "respond", "write", "limit", "limited", "handshake", "post", "finish"}
    BY <1>2 DEF Turn, Boundary, Shape
  <2>4. op[o].metaSeen => s \in {"meta", "respond", "write", "limit", "limited", "canceled"} \cup Over
    BY <1>2 DEF Turn, Boundary, Over, Waiting, Shape
  <2>5. Waiting(o)' <=> Waiting(o)
    BY DEF Waiting, ContextInv
  <2>. QED  BY <1>3, <2>1, <2>2, <2>3, <2>4, <2>5 DEF Boundary, Kept
<1>5. Effects(o, e)'
  <2>1. Effective(o)'
    BY <1>2 DEF Effects, Effective, Kept
  <2>2. s \in Early => o \notin committed
    BY <1>2 DEF Effects, Turn, Early
  <2>3. o \in committed /\ kind[o] = "write" => s \in {"respond", "write"} \cup Over
    BY <1>2 DEF Effects, Effective, Turn, Over, Early, Searches
  <2>. QED  BY <2>1, <2>2, <2>3 DEF Effects, Kept
<1>6. Promised(o)' <=> Promised(o)
  BY DEF Promised, Kept
<1>7. Responses(o, e)'
  <2>1. /\ s \in Early \cup {"respond", "write", "limit", "limited"} => sent[o] = <<>>
        /\ s # "handshake"
    BY <1>2 DEF Responses, Turn, Early
  <2>2. ASSUME s \in Over, Promised(o) PROVE sent[o] = <<"result">>
    <3>1. CASE at[e] \in Over
      BY <1>2, <2>2, <3>1 DEF Responses
    <3>2. CASE at[e] = "handshake"
      BY <1>2, <3>2 DEF Responses
    <3>3. CASE at[e] \in {"acquire", "start", "dispatch", "meta", "persist"}
      <4>1. Excused(o)
        BY <2>2, <3>3 DEF Turn, Over
      <4>2. o \notin committed /\ op[o].phase # "finalizing"
        BY <1>2, <3>3 DEF Effects, Early, Boundary
      <4>3. ~connDone /\ ~connClosed /\ op[o].phase # "complete"
        BY <1>0, <2>2, <3>3, <4>2 DEF Promised
      <4>4. op[o].stop = "running"
        BY <1>2, <2>2, <4>2, <4>3 DEF Promised, Responses
      <4>5. op[o].ctx /\ ~op[o].metaCompletes
        BY <4>1, <4>3, <4>4 DEF Excused
      <4>. QED  BY <1>3, <4>3, <4>4, <4>5 DEF ContextInv
    <3>4. CASE at[e] \in {"respond", "limit"}
      <4>1. op[o].stop # "running"
        BY <2>2, <3>4 DEF Turn, Over
      <4>. QED  BY <1>2, <2>2, <4>1 DEF Promised, Effects, Effective, Shape, Responses
    <3>5. CASE at[e] \in {"write", "limited"}
      <4>1. connClosed
        BY <1>2, <2>2, <3>5 DEF Turn, Over, Boundary
      <4>. QED  BY <2>2, <4>1 DEF Promised
    <3>6. CASE at[e] = "direct"
      <4>1. o \notin committed /\ op[o].phase # "finalizing" /\ ~op[o].metaSeen
        BY <1>2, <3>6 DEF Effects, Early, Boundary, Over
      <4>2. connClosed \/ op[o].stop # "running"
        BY <2>2, <3>6 DEF Turn, Over
      <4>. QED  BY <1>2, <2>2, <4>1, <4>2 DEF Promised, Responses
    <3>7. CASE at[e] = "canceled"
      BY <2>2, <3>7 DEF Turn, Over, Promised
    <3>. QED  BY <2>2, <3>1, <3>2, <3>3, <3>4, <3>5, <3>6, <3>7 DEF Turn, Over
  <2>3. "tooLate" \in acked[o] /\ op[o].stop # "abandoned" /\ ~connDone /\ ~connClosed =>
          op[o].stop = "running" /\ (PastFinal(op[o]) \/ op[o].metaCompletes)
    BY <1>2 DEF Responses
  <2>. QED  BY <1>6, <2>1, <2>2, <2>3 DEF Responses, Kept
<1>8. ASSUME "saslbind" \notin Kinds PROVE SoundAt(o, e)'
  <2>0. SoundAt(o, e) /\ Sound(o)
    BY <1>2, <1>8 DEF SoundAt
  <2>1. Sound(o)'
    BY <2>0 DEF Sound, Kept
  <2>2. s = "canceled" => sent[o] = <<>>
    BY <2>0 DEF Turn, SoundAt, Sound
  <2>3. s = "post" => sent[o] # <<"canceled">>
    <3>1. <<"result">> # <<"canceled">> /\ <<>> # <<"canceled">>
      <4>1. <<"result">>[1] = "result" /\ <<"canceled">>[1] = "canceled"
        OBVIOUS
      <4>2. Len(<<>>) = 0 /\ Len(<<"canceled">>) = 1
        OBVIOUS
      <4>. QED  BY <4>1, <4>2
    <3>2. s = "post" => sent[o] = <<>> \/ sent[o] = <<"result">>
      BY <1>2 DEF Turn, Responses, Early
    <3>. QED  BY <3>1, <3>2
  <2>4. ASSUME s \in Over, sent[o] = <<>>, op[o].stop = "running" PROVE Cut
    <3>1. CASE at[e] = "handshake"
      BY <1>2, <2>4, <3>1 DEF Responses
    <3>2. CASE at[e] \in Over
      BY <2>0, <2>4, <3>2 DEF SoundAt
    <3>3. CASE at[e] \in {"acquire", "start", "dispatch", "meta", "persist"}
      <4>1. Excused(o)
        BY <2>4, <3>3 DEF Turn, Over
      <4>. QED  BY <1>0, <1>3, <2>4, <3>3, <4>1 DEF Excused, ContextInv, Cut
    <3>. QED  BY <1>0, <2>4, <3>1, <3>2, <3>3 DEF Turn, Over, Cut
  <2>5. s \in {"finish", "complete"} /\ op[o].stop = "canceled" => Quiet
    BY <1>0 DEF Turn
  <2>. QED  BY <2>1, <2>2, <2>3, <2>4, <2>5 DEF SoundAt, Kept, Cut
<1>. QED  BY <1>1, <1>4, <1>5, <1>7, <1>8 DEF Executed

\* A handler step keeps what is known of its request.
LEMMA HandlerKeeps ==
    ASSUME BaseInv, RegistryInv, KindInv, SessionInv, DownIsDone, NEW o \in Ops, NEW e \in Executors,
           exec[e] = o, Shape(o), Executed(o, e), HandlerStep(e)
    PROVE  Shape(o)' /\ Executed(o, e)'
<1>. DEFINE Goal == Shape(o)' /\ Executed(o, e)'
<1>0. /\ QueueInv /\ Typed /\ LocalTo(e) /\ pc[e] = "run" /\ StepKind(e)
      /\ at \in [Executors -> ExecutorSteps] /\ op \in [Ops -> TrackedOperations]
      /\ sent \in [Ops -> Seq({"result", "canceled"})]
  BY HandlerStepIsLocal DEF BaseInv, Typed, ExecTypes, LifeTypes, WireTypes, LocalTo, SessionInv, KindAtStep
<1>1. Kept(o, e) /\ kind[o] \in Kinds
  BY <1>0, NotRunningElsewhere DEF LocalTo, Kept, readerVars, endVars, Quiet, KindInv
<1>2. PICK s : s = at'[e]
  OBVIOUS
<1>3. ASSUME Turn(o, e, s), op'[o] = op[o], sent'[o] = sent[o], o \in committed' <=> o \in committed
      PROVE  Goal
  BY <1>0, <1>1, <1>2, <1>3, TurnKeeps
<1>4. ASSUME op[o].phase = "complete", at[e] # "complete" PROVE connDone
  BY <1>0, <1>4, FinishedEarly
<1>5. ASSUME UNCHANGED <<lifeVars, wireVars>>, Turn(o, e, s) PROVE Goal
  BY <1>3, <1>5 DEF lifeVars, wireVars
<1>6. CASE CloneState(e)
  BY <1>0, <1>2, <1>5, <1>6 DEF CloneState, S, Goto, Turn
<1>7. CASE Acquire(e)
  BY <1>0, <1>2, <1>5, <1>7 DEF Acquire, S, Goto, Turn, ContextDone, Excused, Executed, Boundary,
     Waiting, Shape
<1>8. CASE DispatchReject(e)
  BY <1>0, <1>2, <1>5, <1>8 DEF DispatchReject, S, Goto, Turn
<1>9. CASE DispatchRead(e)
  BY <1>0, <1>2, <1>5, <1>9 DEF DispatchRead, At, S, Goto, Returns, Turn, ContextDone, Excused, Shape
<1>10. CASE MetaDone(e)
  BY <1>0, <1>2, <1>5, <1>10 DEF MetaDone, S, Goto, Turn, MetaReturnsSilently, ContextDone, Excused
<1>11. CASE DispatchPersist(e)
  BY <1>0, <1>2, <1>5, <1>11 DEF DispatchPersist, At, S, Goto, Turn
<1>12. CASE PersistStops(e)
  BY <1>0, <1>2, <1>5, <1>12 DEF PersistStops, S, Returns, Turn, ContextDone, Excused, Shape,
     Executed, Boundary, Over
<1>13. CASE PersistOverflows(e)
  BY <1>0, <1>2, <1>5, <1>13 DEF PersistOverflows, S, Goto, Turn
<1>14. CASE DispatchWrite(e) \/ DispatchProxyWrite(e) \/ AwaitRemote(e)
  BY <1>0, <1>2, <1>5, <1>14 DEF DispatchWrite, DispatchProxyWrite, AwaitRemote, At, S, Goto, Turn
<1>15. CASE DispatchBind(e) \/ DispatchFails(e)
  BY <1>0, <1>2, <1>5, <1>15 DEF DispatchBind, DispatchFails, S, Goto, Turn
<1>16. CASE DispatchStartTLS(e) \/ DispatchTransaction(e)
  BY <1>0, <1>2, <1>5, <1>16 DEF DispatchStartTLS, DispatchTransaction, At, S, Goto, Turn
<1>17. CASE Handshake(e)
  BY <1>0, <1>2, <1>5, <1>17 DEF Handshake, S, Returns, Turn
<1>18. CASE ResponseLimit(e)
  BY <1>0, <1>2, <1>5, <1>18 DEF ResponseLimit, S, Goto, Turn
<1>19. CASE Post(e)
  BY <1>0, <1>2, <1>5, <1>19, PostCases DEF Typed, S, Goto, Turn
<1>k. Boundary(o, e) /\ Effects(o, e) /\ Responses(o, e) /\ ("saslbind" \notin Kinds => SoundAt(o, e) /\ Sound(o))
  BY DEF Executed, SoundAt
<1>20. CASE Start(e)
  <2>0. at[e] = "start" /\ UNCHANGED wireVars /\ op[o] \in TrackedOperations
    BY <1>0, <1>20 DEF Start, S
  <2>w. Waiting(o) /\ op[o].phase \in {"pending", "complete"} /\ acked[o] = {}
    BY <1>k, <2>0 DEF Boundary
  <2>1. CASE ~CanStart(op[o])
    <3>1. Turn(o, e, s) /\ UNCHANGED op
      BY <1>0, <1>2, <1>20, <2>0, <2>w, <2>1 DEF Start, S, Goto, Turn, Excused, CanStart
    <3>. QED  BY <1>3, <2>0, <3>1 DEF wireVars
  <2>2. CASE CanStart(op[o])
    <3>1. at'[e] = "dispatch" /\ op'[o] = StartOperation(op[o]) /\ op[o].stop = "running" /\ op[o].phase = "pending"
      BY <1>0, <1>20, <2>2 DEF Start, Goto, CanStart
    <3>2. /\ op'[o].phase = "executing" /\ op'[o].stop = "running" /\ op'[o].ctx = op[o].ctx
          /\ op'[o].cancelable = op[o].cancelable /\ op'[o].abandonable = op[o].abandonable
          /\ op'[o].metaSearch = op[o].metaSearch /\ op'[o].metaSeen = op[o].metaSeen
          /\ op'[o].metaCompletes = op[o].metaCompletes
      BY <2>0, <3>1 DEF StartOperation, TrackedOperations
    <3>3. Shape(o)'
      BY <1>1, <3>2 DEF Shape, Kept
    <3>4. Boundary(o, e)'
      BY <2>w, <3>1, <3>2 DEF Boundary, Waiting, ContextInv, Shape
    <3>5. Effects(o, e)'
      BY <1>k, <2>0, <3>1 DEF Effects, Effective, Early, wireVars
    <3>6. Responses(o, e)'
      BY <1>1, <1>k, <2>0, <2>w, <3>1 DEF Responses, Early, Over, Kept, wireVars
    <3>7. "saslbind" \notin Kinds => SoundAt(o, e)'
      <4>1. sent[o] = <<>> /\ sent'[o] = <<>> /\ acked'[o] = acked[o] /\ at'[e] \notin Over
        BY <1>k, <2>0, <3>1 DEF Responses, Early, Over, wireVars
      <4>. QED  BY <1>k, <4>1, SilenceIsSound
    <3>. QED  BY <3>3, <3>4, <3>5, <3>6, <3>7 DEF Executed
  <2>. QED  BY <2>1, <2>2
<1>21. CASE DispatchMeta(e) \/ MetaEntry(e)
  <2>0. at[e] \in {"dispatch", "meta"} /\ at'[e] = "meta" /\ UNCHANGED wireVars
        /\ op[o] \in TrackedOperations
    BY <1>0, <1>21 DEF DispatchMeta, MetaEntry, At, S, Goto, execVars
  <2>1. kind[o] = "metasearch"
    BY <1>0, <1>21 DEF DispatchMeta, MetaEntry, At, S, StepKind
  <2>2. /\ op'[o].phase = op[o].phase /\ op'[o].stop = op[o].stop /\ op'[o].ctx = op[o].ctx
        /\ op'[o].cancelable = op[o].cancelable /\ op'[o].abandonable = op[o].abandonable
        /\ op'[o].metaCompletes = op[o].metaCompletes
        /\ op'[o].metaSeen => op'[o].metaSearch
        /\ op[o].metaSeen => op'[o].metaSeen
    <3>1. CASE DispatchMeta(e)
      BY <1>0, <2>0, <3>1 DEF DispatchMeta, EnableMetaBackendSearch, TrackedOperations
    <3>2. CASE MetaEntry(e)
      BY <1>0, <2>0, <3>2 DEF MetaEntry, ObserveMetaBackendResponse, TrackedOperations, Shape
    <3>. QED  BY <1>21, <3>1, <3>2
  <2>3. Shape(o)'
    BY <1>1, <2>1, <2>2 DEF Shape, Kept
  <2>4. Boundary(o, e)'
    BY <1>k, <2>0, <2>2 DEF Boundary, ContextInv
  <2>5. Effects(o, e)'
    BY <1>k, <2>0 DEF Effects, Effective, Early, wireVars
  <2>6. Responses(o, e)'
    BY <1>1, <1>k, <2>0, <2>2 DEF Responses, Early, Over, Kept, wireVars, PastFinal
  <2>7. "saslbind" \notin Kinds => SoundAt(o, e)'
    <3>1. sent[o] = <<>> /\ sent'[o] = <<>> /\ acked'[o] = acked[o] /\ at'[e] \notin Over
      BY <1>k, <2>0 DEF Responses, Early, Over, wireVars
    <3>. QED  BY <1>k, <3>1, SilenceIsSound
  <2>. QED  BY <2>3, <2>4, <2>5, <2>6, <2>7 DEF Executed
<1>22. CASE CommitPoint(e) \/ Respond(e)
  <2>0. /\ at[e] \in {"commitpoint", "respond", "limit"}
        /\ UNCHANGED wireVars /\ op[o] \in TrackedOperations
    BY <1>0, <1>22 DEF CommitPoint, Respond, S, Goto, Returns
  <2>1. CASE op[o].stop # "running"
    <3>1. Turn(o, e, s) /\ UNCHANGED op
      BY <1>0, <1>2, <1>22, <2>1 DEF CommitPoint, Respond, S, Goto, Returns, Turn, ResponseAllowed
    <3>. QED  BY <1>3, <2>0, <3>1 DEF wireVars
  <2>2. CASE op[o].stop = "running"
    <3>1. /\ at[e] = "commitpoint" => at'[e] = "commit" /\ kind[o] = "write"
          /\ at[e] = "respond" => at'[e] = "write"
          /\ at[e] = "limit" => at'[e] = "limited" /\ kind[o] \in Searches
          /\ op'[o] = BeginFinalResponse(op[o])
      BY <1>0, <1>22, <2>2 DEF CommitPoint, Respond, S, Goto, ResponseAllowed, MarkCommitPoint,
         BeginFinalResponse, StepKind
    <3>2. /\ PastFinal(op'[o]) /\ op'[o].stop = "running" /\ op'[o].ctx = op[o].ctx
          /\ op'[o].cancelable = op[o].cancelable /\ op'[o].abandonable = op[o].abandonable
          /\ op'[o].metaSearch = op[o].metaSearch /\ op'[o].metaSeen = op[o].metaSeen
          /\ op'[o].metaCompletes = op[o].metaCompletes
          /\ op[o].phase = "complete" => op'[o].phase = "complete"
      BY <2>0, <2>2, <3>1 DEF BeginFinalResponse, PastFinal, TrackedOperations
    <3>3. Shape(o)'
      BY <1>1, <3>2 DEF Shape, Kept
    <3>4. Boundary(o, e)'
      <4>1. ContextInv(o)'
        BY <1>k, <2>2, <3>2 DEF Boundary, ContextInv
      <4>2. op'[o].metaSeen => at'[e] \in {"meta", "respond", "write", "limit", "limited", "canceled"} \cup Over
        BY <1>k, <2>0, <3>1, <3>2 DEF Boundary, Over
      <4>. QED  BY <2>0, <3>1, <3>2, <4>1, <4>2 DEF Boundary
    <3>5. Effects(o, e)'
      BY <1>1, <1>k, <2>0, <3>1, <3>2 DEF Effects, Effective, Early, wireVars, Kept, Searches
    <3>6. Responses(o, e)'
      BY <1>1, <1>k, <2>0, <3>1, <3>2 DEF Responses, Early, Over, Kept, wireVars
    <3>7. "saslbind" \notin Kinds => SoundAt(o, e)'
      <4>1. sent[o] = <<>> /\ sent'[o] = <<>> /\ acked'[o] = acked[o] /\ at'[e] \notin Over
        BY <1>k, <2>0, <3>1 DEF Responses, Early, Over, wireVars
      <4>. QED  BY <1>k, <4>1, SilenceIsSound
    <3>. QED  BY <3>3, <3>4, <3>5, <3>6, <3>7 DEF Executed
  <2>. QED  BY <2>1, <2>2
<1>23. CASE SendRemote(e)
  <2>0. /\ at[e] = "remote" /\ at'[e] = "await" /\ UNCHANGED <<sent, committed, acked>>
        /\ op[o] \in TrackedOperations
    BY <1>0, <1>23 DEF SendRemote, S, Goto
  <2>1. CASE UNCHANGED op
    <3>1. Turn(o, e, s)
      BY <1>2, <2>0 DEF Turn
    <3>. QED  BY <1>3, <2>0, <2>1, <3>1
  <2>2. CASE op' = [op EXCEPT ![o] = DisableCancellationForRemoteCommit(@)]
    <3>2. /\ op'[o].phase = op[o].phase /\ op'[o].stop = op[o].stop /\ op'[o].ctx = op[o].ctx
          /\ op'[o].cancelable = FALSE /\ op'[o].abandonable = op[o].abandonable
          /\ op'[o].metaSearch = op[o].metaSearch /\ op'[o].metaSeen = op[o].metaSeen
          /\ op'[o].metaCompletes = op[o].metaCompletes
      BY <1>0, <2>0, <2>2 DEF DisableCancellationForRemoteCommit, TrackedOperations
    <3>3. Shape(o)'
      BY <1>1, <3>2 DEF Shape, Kept
    <3>4. Boundary(o, e)'
      BY <1>k, <2>0, <3>2 DEF Boundary, ContextInv, Over
    <3>5. Effects(o, e)'
      BY <1>k, <2>0 DEF Effects, Effective, Early
    <3>6. Responses(o, e)'
      BY <1>1, <1>k, <2>0, <3>2 DEF Responses, Early, Over, Kept, PastFinal
    <3>7. "saslbind" \notin Kinds => SoundAt(o, e)'
      <4>1. sent[o] = <<>> /\ sent'[o] = <<>> /\ acked'[o] = acked[o] /\ at'[e] \notin Over
        BY <1>k, <2>0 DEF Responses, Early, Over
      <4>. QED  BY <1>k, <4>1, SilenceIsSound
    <3>. QED  BY <3>3, <3>4, <3>5, <3>6, <3>7 DEF Executed
  <2>. QED  BY <1>23, <2>1, <2>2 DEF SendRemote
<1>24. CASE Finish(e)
  <2>0. at[e] = "finish" /\ at'[e] = "complete" /\ UNCHANGED wireVars /\ op[o] \in TrackedOperations
        /\ op'[o] = FinishOperation(op[o])
    BY <1>0, <1>24 DEF Finish, FinishAll, S, Goto
  <2>1. /\ op'[o].phase = "complete" /\ op'[o].stop = op[o].stop
        /\ op'[o].cancelable = op[o].cancelable /\ op'[o].abandonable = op[o].abandonable
        /\ op'[o].metaSearch = op[o].metaSearch /\ op'[o].metaSeen = op[o].metaSeen
        /\ op'[o].metaCompletes = op[o].metaCompletes
    BY <2>0 DEF FinishOperation, TrackedOperations
  <2>2. Shape(o)'
    BY <1>1, <2>1 DEF Shape, Kept
  <2>3. Boundary(o, e)'
    BY <2>0, <2>1 DEF Boundary, ContextInv, Over
  <2>4. Effects(o, e)'
    BY <1>1, <1>k, <2>0, <2>1 DEF Effects, Effective, Early, Over, wireVars, Kept, PastFinal
  <2>5. Responses(o, e)'
    <3>1. Promised(o)' => Promised(o)
      BY <1>1, <2>0, <2>1 DEF Promised, Kept, wireVars
    <3>. QED  BY <1>1, <1>k, <2>0, <2>1, <3>1 DEF Responses, Early, Over, Kept, wireVars, PastFinal
  <2>6. "saslbind" \notin Kinds => SoundAt(o, e)'
    BY <1>1, <1>k, <2>0, <2>1 DEF SoundAt, Sound, Over, Kept, wireVars, PastFinal, Cut
  <2>. QED  BY <2>2, <2>3, <2>4, <2>5, <2>6 DEF Executed
<1>25. CASE CommitWrite(e)
  <2>0. /\ at[e] = "commit" /\ at'[e] = "respond"
        /\ UNCHANGED <<sent, op>> /\ op[o] \in TrackedOperations
    BY <1>0, <1>25 DEF CommitWrite, S, Goto, lifeVars
  <2>1. CASE UNCHANGED committed
    <3>1. Turn(o, e, s)
      BY <1>2, <2>0 DEF Turn
    <3>. QED  BY <1>3, <2>0, <2>1, <3>1
  <2>2. CASE committed' = committed \cup {o}
    <3>1. Shape(o)'
      BY <1>1, <2>0 DEF Shape, Kept
    <3>2. Boundary(o, e)'
      BY <1>k, <2>0 DEF Boundary, ContextInv, Over
    <3>3. Effects(o, e)'
      BY <1>1, <1>k, <2>0 DEF Effects, Effective, Early, Boundary, Kept
    <3>4. Responses(o, e)'
      BY <1>1, <1>k, <2>0 DEF Responses, Early, Over, Kept
    <3>5. "saslbind" \notin Kinds => SoundAt(o, e)'
      <4>1. sent[o] = <<>> /\ sent'[o] = <<>> /\ acked'[o] = acked[o] /\ at'[e] \notin Over
        BY <1>1, <1>k, <2>0 DEF Responses, Early, Over, Kept
      <4>. QED  BY <1>k, <4>1, SilenceIsSound
    <3>. QED  BY <3>1, <3>2, <3>3, <3>4, <3>5 DEF Executed
  <2>. QED  BY <1>25, <2>1, <2>2 DEF CommitWrite
<1>26. CASE WriteFinal(e)
  <2>0. /\ at[e] \in {"write", "direct", "limited"} /\ UNCHANGED <<committed, op>>
        /\ op[o] \in TrackedOperations /\ sent[o] = <<>>
    BY <1>0, <1>26, <1>k DEF WriteFinal, S, lifeVars, Responses, Early
  <2>1. CASE UNCHANGED sent
    <3>1. Turn(o, e, s)
      <4>1. CASE connClosed \/ op[o].stop # "running"
        BY <1>0, <1>2, <1>26, <4>1 DEF WriteFinal, S, Returns, Turn, ResponseAllowed
      <4>2. CASE ~connClosed /\ op[o].stop = "running"
        <5>1. sent'[o] = Append(sent[o], "result")
          BY <1>0, <1>26, <4>2 DEF WriteFinal, ResponseAllowed
        <5>. QED  BY <2>0, <2>1, <5>1, SMTT(30)
      <4>. QED  BY <4>1, <4>2
    <3>. QED  BY <1>3, <2>0, <2>1, <3>1
  <2>2. CASE ~UNCHANGED sent
    <3>1. /\ sent'[o] = Append(sent[o], "result") /\ ~connClosed
          /\ at'[e] = "post" \/ (at'[e] = "handshake" /\ at[e] = "write" /\ kind[o] = "starttls")
          /\ op[o].stop = "running"
      BY <1>0, <1>26, <2>2 DEF WriteFinal, S, Goto, Returns, ResponseAllowed
    <3>2. sent'[o] = <<"result">>
      BY <2>0, <3>1
    <3>3. op[o].stop = "running" /\ (at[e] # "direct" => PastFinal(op[o]))
      BY <1>k, <2>0, <3>1 DEF Boundary
    <3>4. Shape(o)'
      BY <1>1, <2>0 DEF Shape, Kept
    <3>5. Boundary(o, e)'
      <4>1. op[o].metaSeen => at'[e] = "post"
        BY <3>1 DEF Shape
      <4>2. op[o].phase = "finalizing" => at'[e] \in {"post", "handshake"}
        BY <3>1
      <4>3. ContextInv(o)'
        BY <1>k, <2>0 DEF Boundary, ContextInv
      <4>. QED  BY <2>0, <3>1, <3>3, <4>1, <4>2, <4>3 DEF Boundary, Over
    <3>6. Effects(o, e)'
      BY <1>1, <1>k, <2>0, <3>1 DEF Effects, Effective, Early, Over, Kept
    <3>7. Responses(o, e)'
      BY <1>1, <1>k, <2>0, <3>1, <3>2 DEF Responses, Early, Over, Kept
    <3>8. ASSUME "saslbind" \notin Kinds PROVE SoundAt(o, e)'
      <4>1. at[e] = "direct" => kind[o] \in Binds
        BY <1>0, <3>8 DEF StepKind
      <4>2. "success" \notin acked[o]
        <5>1. "success" \in acked[o] => sent[o] = <<"canceled">>
          BY <1>k, <3>8 DEF Sound
        <5>. QED  BY <2>0, <5>1
      <4>3. <<"result">> # <<"canceled">> /\ <<"result">> # <<>>
        <5>1. <<"result">>[1] = "result" /\ <<"canceled">>[1] = "canceled"
          OBVIOUS
        <5>. QED  BY <5>1
      <4>4. Sound(o)'
        BY <1>1, <2>0, <3>2, <3>3, <4>1, <4>2, <4>3 DEF Sound, Kept
      <4>. QED  BY <2>0, <3>1, <3>2, <4>3, <4>4 DEF SoundAt, Over
    <3>. QED  BY <3>4, <3>5, <3>6, <3>7, <3>8 DEF Executed
  <2>. QED  BY <2>1, <2>2
<1>27. CASE WriteCanceled(e)
  <2>0. /\ at[e] = "canceled" /\ at'[e] = "finish" /\ UNCHANGED <<committed, op>>
        /\ op[o] \in TrackedOperations /\ op[o].stop = "canceled"
    BY <1>0, <1>27, <1>k DEF WriteCanceled, S, Goto, lifeVars, Boundary
  <2>1. CASE connClosed
    <3>1. Turn(o, e, s) /\ UNCHANGED sent
      BY <1>2, <1>27, <2>0, <2>1 DEF WriteCanceled, Turn
    <3>. QED  BY <1>3, <2>0, <3>1
  <2>2. CASE ~connClosed
    <3>1. sent'[o] = Append(sent[o], "canceled")
      BY <1>0, <1>27, <2>2 DEF WriteCanceled
    <3>2. Shape(o)'
      BY <1>1, <2>0 DEF Shape, Kept
    <3>3. Boundary(o, e)'
      BY <1>k, <2>0 DEF Boundary, ContextInv, Over, Shape
    <3>4. Effects(o, e)'
      BY <1>1, <1>k, <2>0 DEF Effects, Effective, Early, Over, Kept
    <3>5. Responses(o, e)'
      <4>1. ~Promised(o)
        BY <1>k, <2>0 DEF Promised, Effects, Effective, Shape, Responses
      <4>2. ~Promised(o)'
        BY <1>1, <2>0, <4>1 DEF Promised, Kept
      <4>. QED  BY <1>1, <1>k, <2>0, <4>2 DEF Responses, Early, Kept
    <3>6. ASSUME "saslbind" \notin Kinds PROVE SoundAt(o, e)'
      <4>1. sent[o] = <<>>
        BY <1>k, <2>0, <3>6 DEF SoundAt
      <4>2. sent'[o] = <<"canceled">>
        BY <3>1, <4>1
      <4>3. <<"result">> # <<"canceled">> /\ <<"canceled">> # <<>>
        <5>1. <<"result">>[1] = "result" /\ <<"canceled">>[1] = "canceled"
          OBVIOUS
        <5>. QED  BY <5>1
      <4>4. Sound(o)'
        BY <2>0, <4>2, <4>3 DEF Sound
      <4>. QED  BY <2>0, <4>2, <4>3, <4>4 DEF SoundAt, Over
    <3>. QED  BY <3>2, <3>3, <3>4, <3>5, <3>6 DEF Executed
  <2>. QED  BY <2>1, <2>2
<1>. QED
  BY <1>6, <1>7, <1>8, <1>9, <1>10, <1>11, <1>12, <1>13, <1>14, <1>15, <1>16, <1>17, <1>18, <1>19,
     <1>20, <1>21, <1>22, <1>23, <1>24, <1>25, <1>26, <1>27 DEF HandlerStep

-----------------------------------------------------------------------------
(* The invariant and what follows from it. *)

\* Every step keeps what is known of every request.
LEMMA RequestStep ==
    ASSUME SessionBase, AnswerInv, [Next]_vars, NEW o \in Ops
    PROVE  RequestInv(o)'
<1>0. /\ BaseInv /\ RegistryInv /\ KindInv /\ SessionInv /\ BindSparesBinds
      /\ RequestInv(o) /\ CancelWait /\ DownIsDone
  BY DEF SessionBase, AnswerInv
<1>1. status[o] # "new" => Shape(o)
  BY <1>0 DEF RequestInv
<1>2. CASE Bystander(o)
  BY <1>0, <1>2, BystanderKeeps
<1>3. CASE Admitted(o) \/ Popped(o) \/ Completed(o) \/ Dropped(o)
  BY <1>0, <1>3, MoveKeeps
<1>4. ASSUME NEW e \in Executors, exec[e] = o, HandlerStep(e)
      PROVE  RequestInv(o)'
  <2>1. QueueInv /\ Typed
    BY <1>0 DEF BaseInv
  <2>2. LocalTo(e)
    BY <1>4, <2>1, HandlerStepIsLocal DEF Typed
  <2>3. UNCHANGED <<status, exec>> /\ pc[e] = "run"
    BY <2>2, UnchangedQueue DEF LocalTo
  <2>4. status[o] = "running" /\ \A f \in Executors : exec[f] = o => f = e
    BY <1>4, <2>1, <2>3, NotRunningElsewhere
  <2>5. Shape(o) /\ Executed(o, e)
    BY <1>0, <1>4, <2>4 DEF RequestInv
  <2>6. Shape(o)' /\ Executed(o, e)'
    BY <1>0, <1>4, <2>5, HandlerKeeps
  <2>7. Delegated(o)'
    BY <1>0, <1>4, <2>1, <2>3, HandlerDelegates DEF RequestInv
  <2>. QED  BY <2>3, <2>4, <2>6, <2>7 DEF RequestInv
<1>. QED  BY <1>0, <1>1, <1>2, <1>3, <1>4, RequestCases

\* Every step keeps the invariant about answers.
LEMMA AnswerStep == SessionBase /\ AnswerInv /\ [Next]_vars => AnswerInv'
<1>. SUFFICES ASSUME SessionBase, AnswerInv, [Next]_vars PROVE AnswerInv'
  OBVIOUS
<1>0. BaseInv /\ RegistryInv /\ BindSparesBinds /\ DownIsDone
  BY DEF SessionBase, AnswerInv
<1>. QED  BY <1>0, RequestStep, CancelWaitStep, DownIsDoneStep DEF AnswerInv

\* It holds initially.
LEMMA InitAnswer == Init => AnswerInv
<1>. SUFFICES ASSUME Init PROVE AnswerInv
  OBVIOUS
<1>1. status = [o \in Ops |-> "new"] /\ sent = [o \in Ops |-> <<>>] /\ committed = {}
      /\ acked = [o \in Ops |-> {}] /\ rpc = "loop" /\ exec = [e \in Executors |-> NoOp]
      /\ remote = {} /\ applied = {}
  BY DEF Init, QueueInit
<1>2. ASSUME NEW o \in Ops PROVE RequestInv(o)
  BY <1>1, OpsAssumption DEF RequestInv, Untouched, Delegated
<1>. QED  BY <1>1, <1>2 DEF AnswerInv, CancelWait, DownIsDone, Down

\* The inductive invariant of the connection.
ConnectionInv == SessionBase /\ AnswerInv

\* The inductive invariant of serveConnection, runConnectionOperation, the registry
\* and the queue together holds in every reachable state.
THEOREM ConnectionInvariant == Spec => []ConnectionInv
<1>1. Init => ConnectionInv
  BY InitSession, InitAnswer DEF ConnectionInv
<1>2. ConnectionInv /\ [Next]_vars => ConnectionInv'
  BY SessionBaseStep, AnswerStep DEF ConnectionInv
<1>. QED  BY <1>1, <1>2, PTL DEF Spec

\* A request is untouched, executed or done.
LEMMA RequestStages ==
    ASSUME ConnectionInv, NEW o \in Ops
    PROVE  \/ Untouched(o) /\ status[o] \in {"new", "queued", "dropped", "refused"}
           \/ status[o] = "running" /\ \E e \in Executors : exec[e] = o /\ Executed(o, e)
           \/ status[o] = "done" /\ Finished(o)
<1>0. RequestInv(o) /\ QueueInv /\ RunningExecuted
  BY DEF ConnectionInv, SessionBase, AnswerInv, BaseInv
<1>1. status[o] \in {"new", "queued", "dropped", "refused", "running", "done"}
  BY <1>0 DEF QueueInv, QueueTypeOK, Statuses
<1>. QED  BY <1>0, <1>1 DEF RequestInv, RunningExecuted

\* Without SASL Binds, the responses of every request are sound.
LEMMA SoundResponses ==
    ASSUME ConnectionInv, "saslbind" \notin Kinds, NEW o \in Ops
    PROVE  Sound(o) /\ Effective(o) /\ Delegated(o)
<1>1. CASE Untouched(o)
  BY <1>1 DEF Untouched, Sound, Effective, Delegated
<1>2. Delegated(o)
  BY DEF ConnectionInv, AnswerInv, RequestInv
<1>. QED  BY <1>1, <1>2, RequestStages DEF Executed, SoundAt, Effects, Finished

\* CommittedIsReported: once a local write has passed its commit point and committed,
\* no Abandon, Cancel or Bind keeps runConnectionOperation from writing its result,
\* unless the connection is closed.
THEOREM CommittedWritesAreReported == Spec => []CommittedIsReported
<1>1. ConnectionInv => CommittedIsReported
  <2>. SUFFICES ASSUME ConnectionInv, NEW o \in committed, kind[o] = "write", status[o] = "done",
                       ~connClosed
                PROVE  sent[o] = <<"result">>
    BY DEF CommittedIsReported
  <2>1. o \in Ops
    BY DEF ConnectionInv, SessionBase, BaseInv, Typed, WireTypes
  <2>. QED  BY <2>1, RequestStages DEF Finished
<1>. QED  BY <1>1, ConnectionInvariant, PTL

\* TooLateIsAnswered: a request for which requestCancel answered tooLate gets its
\* ordinary result unless it is abandoned or the connection ends, a meta search whose
\* context that Cancel canceled included.
THEOREM LateCancelsAreAnswered == Spec => []TooLateIsAnswered
<1>1. ConnectionInv => TooLateIsAnswered
  BY RequestStages DEF TooLateIsAnswered, Finished
<1>. QED  BY <1>1, ConnectionInvariant, PTL

\* CancelMeansNoEffect: a Cancel is granted only for a request that was answered
\* "canceled", has not taken effect and never will, here or at a server it was sent to,
\* for any number of requests and workers and whatever else happens.  rejectOperationDuringSASLBind answers without
\* raising the boundary (run conn_sasl_cancel), hence the hypothesis.
THEOREM GrantedCancelsHadNoEffect ==
    "saslbind" \notin Kinds => (Spec => []CancelMeansNoEffect)
<1>. SUFFICES ASSUME "saslbind" \notin Kinds PROVE Spec => []CancelMeansNoEffect
  OBVIOUS
<1>1. ConnectionInv => CancelMeansNoEffect
  <2>. SUFFICES ASSUME ConnectionInv, NEW o \in Ops, "success" \in acked[o]
                PROVE  o \notin committed \cup remote \cup applied /\ sent[o] = <<"canceled">>
    BY DEF CancelMeansNoEffect
  <2>. QED  BY SoundResponses DEF Sound, Effective, Delegated
<1>. QED  BY <1>1, ConnectionInvariant, PTL

\* AtMostOneFinalResponse: the final-response boundary of trackedOperation admits
\* one writer, on a connection without SASL Binds.
THEOREM OneFinalResponse ==
    "saslbind" \notin Kinds => (Spec => []AtMostOneFinalResponse)
<1>. SUFFICES ASSUME "saslbind" \notin Kinds PROVE Spec => []AtMostOneFinalResponse
  OBVIOUS
<1>1. ConnectionInv => AtMostOneFinalResponse
  <2>. SUFFICES ASSUME ConnectionInv, NEW o \in Ops PROVE Len(sent[o]) <= 1
    BY DEF AtMostOneFinalResponse
  <2>1. sent[o] \in {<<>>, <<"result">>, <<"canceled">>}
    BY SoundResponses DEF Sound
  <2>2. Len(<<>>) <= 1 /\ Len(<<"result">>) <= 1 /\ Len(<<"canceled">>) <= 1
    OBVIOUS
  <2>3. PICK s : s = sent[o]
    OBVIOUS
  <2>4. Len(s) <= 1
    BY <2>1, <2>2, <2>3
  <2>. QED  BY <2>3, <2>4
<1>. QED  BY <1>1, ConnectionInvariant, PTL

\* AbandonedLeavesNoTrace: a request whose stop mode became abandoned has written
\* nothing and, if it is a local write, has not committed, on a connection without
\* SASL Binds.
THEOREM AbandonedRequestsLeaveNoTrace ==
    "saslbind" \notin Kinds => (Spec => []AbandonedLeavesNoTrace)
<1>. SUFFICES ASSUME "saslbind" \notin Kinds PROVE Spec => []AbandonedLeavesNoTrace
  OBVIOUS
<1>1. ConnectionInv => AbandonedLeavesNoTrace
  <2>. SUFFICES ASSUME ConnectionInv, NEW o \in Ops, op[o].stop = "abandoned"
                PROVE  sent[o] = <<>> /\ (kind[o] = "write" => o \notin committed)
    BY DEF AbandonedLeavesNoTrace
  <2>. QED  BY SoundResponses DEF Sound, Effective
<1>. QED  BY <1>1, ConnectionInvariant, PTL

-----------------------------------------------------------------------------
(* The contract with the client.                                           *)
(*                                                                         *)
(* The final write of a handler is Answer, or AnswerCanceled for a canceled *)
(* request; a local commit is TakeEffect; a write to another server is     *)
(* Delegate and what that server does with it Decide, whenever that is; the *)
(* reader's acknowledgement of a Cancel is GrantCancel; admission is Read or *)
(* Refuse; completing, abandoning, discarding and closing are Retire; and  *)
(* everything else is invisible.  That each comes when the contract allows *)
(* it is what ConnectionInv says.                                          *)

\* The variables of OperationContract under the refinement mapping.
Life == [o \in Ops |-> LifeOf(o)]
Answers == [o \in Ops |-> AnswerOf(o)]
Effect == committed \cup applied
Granted == {o \in Ops : "success" \in acked[o]}

\* What is not touched maps to what does not change.
LEMMA WireFrame ==
    /\ UNCHANGED sent => UNCHANGED Answers
    /\ UNCHANGED acked => UNCHANGED Granted
    /\ UNCHANGED status => UNCHANGED Life
    /\ UNCHANGED wireVars => UNCHANGED <<Answers, Effect, remote, Granted>>
BY DEF Answers, AnswerOf, Effect, Granted, Life, LifeOf, wireVars, remoteVars

\* A step that changes none of them is a stuttering step of the contract.
LEMMA ContractStutters ==
    ASSUME UNCHANGED <<Life, Answers, Effect, remote, Granted>>
    PROVE  UNCHANGED Contract!contractVars
BY DEF Contract!contractVars, Life, Answers, Effect, Granted

\* A step that changes the status of one request changes one life.
LEMMA LifeOfOne ==
    ASSUME NEW o \in Ops, NEW l, LifeOf(o)' = l, \A p \in Ops : p # o => status'[p] = status[p]
    PROVE  Life' = [Life EXCEPT ![o] = l]
<1>1. \A p \in Ops : p # o => LifeOf(p)' = LifeOf(p)
  BY DEF LifeOf
<1>. QED  BY <1>1 DEF Life

\* A step that writes for one request changes one answer.
LEMMA AnswerOfOne ==
    ASSUME NEW o \in Ops, NEW a, AnswerOf(o)' = a, \A p \in Ops : p # o => sent'[p] = sent[p]
    PROVE  Answers' = [Answers EXCEPT ![o] = a]
<1>1. \A p \in Ops : p # o => AnswerOf(p)' = AnswerOf(p)
  BY DEF AnswerOf
<1>. QED  BY <1>1 DEF Answers

\* The first thing that is written for a request is its answer.
LEMMA FirstAnswer ==
    ASSUME NEW o \in Ops, NEW a, sent[o] = <<>>, sent'[o] = Append(sent[o], a)
    PROVE  AnswerOf(o) = "none" /\ AnswerOf(o)' = a
<1>1. Append(<<>>, a) = <<a>> /\ <<a>> # <<>> /\ Len(<<a>>) = 1 /\ <<a>>[1] = a
  OBVIOUS
<1>2. sent'[o] = <<a>>
  BY <1>1
<1>. QED  BY <1>1, <1>2 DEF AnswerOf

\* A handler's step takes effect, delegates, answers, answers "canceled", or is invisible.
LEMMA HandlerKeepsContract ==
    ASSUME "saslbind" \notin Kinds, ConnectionInv, NEW e \in Executors, HandlerStep(e)
    PROVE  Contract!ContractNext \/ UNCHANGED Contract!contractVars
<1>0. /\ QueueInv /\ Typed /\ committed \subseteq Ops
      /\ sent \in [Ops -> Seq({"result", "canceled"})]
  BY DEF ConnectionInv, SessionBase, BaseInv, Typed, WireTypes
<1>1. PICK o \in Ops : o = exec[e] /\ pc[e] = "run"
  BY <1>0, HandlerStepIsLocal DEF LocalTo, Typed
<1>2. UNCHANGED <<status, acked>>
  BY <1>0, HandlerStepIsLocal, UnchangedQueue DEF LocalTo, Typed
<1>3. /\ UNCHANGED <<Life, Granted>> /\ (UNCHANGED sent => UNCHANGED Answers)
      /\ UNCHANGED remoteVars => UNCHANGED remote
      /\ UNCHANGED remoteVars /\ UNCHANGED committed => UNCHANGED Effect
  BY <1>2, WireFrame DEF remoteVars, Effect
<1>4. status[o] = "running" /\ Executed(o, e) /\ Delegated(o)
  BY <1>0, <1>1, NotRunningElsewhere DEF ConnectionInv, AnswerInv, RequestInv
<1>5. Effects(o, e) /\ Responses(o, e) /\ Boundary(o, e) /\ SoundAt(o, e)
  BY <1>4 DEF Executed
<1>6. Life[o] = "open"
  BY <1>4 DEF Life, LifeOf
<1>7. CASE UNCHANGED wireVars
  BY <1>3, <1>7, WireFrame, ContractStutters
<1>8. CASE /\ at[e] = "commit" /\ committed' = committed \cup {o} /\ UNCHANGED sent
           /\ UNCHANGED remoteVars
  <2>1. sent[o] = <<>> /\ o \notin committed
    BY <1>5, <1>8 DEF Effects, Responses, Early
  <2>2. Answers[o] = "none" /\ Effect' = Effect \cup {o}
    BY <1>8, <2>1 DEF Answers, AnswerOf, Effect, remoteVars
  <2>3. CASE o \in Effect
    <3>1. UNCHANGED Effect
      BY <2>2, <2>3
    <3>. QED  BY <1>3, <1>8, <3>1, ContractStutters
  <2>4. CASE o \notin Effect
    <3>1. Contract!TakeEffect(o)
      BY <1>3, <1>6, <1>8, <2>2, <2>4 DEF Contract!TakeEffect, Life, Answers, Effect, Granted
    <3>. QED  BY <3>1 DEF Contract!ContractNext
  <2>. QED  BY <2>3, <2>4
<1>9. ASSUME NEW a, UNCHANGED committed, sent' = [sent EXCEPT ![o] = Append(@, a)], sent[o] = <<>>
      PROVE  Answers[o] = "none" /\ Answers' = [Answers EXCEPT ![o] = a]
  <2>1. sent'[o] = Append(sent[o], a) /\ \A p \in Ops : p # o => sent'[p] = sent[p]
    BY <1>0, <1>9
  <2>2. AnswerOf(o) = "none" /\ AnswerOf(o)' = a
    BY <1>9, <2>1, FirstAnswer
  <2>3. Answers' = [Answers EXCEPT ![o] = a]
    BY <2>1, <2>2, AnswerOfOne
  <2>. QED  BY <2>2, <2>3 DEF Answers
<1>10. CASE /\ at[e] \in {"write", "limited", "direct"} /\ UNCHANGED <<committed, remoteVars>>
            /\ sent' = [sent EXCEPT ![o] = Append(@, "result")]
  <2>1. sent[o] = <<>>
    BY <1>5, <1>10 DEF Responses, Early
  <2>2. Answers[o] = "none" /\ Answers' = [Answers EXCEPT ![o] = "result"]
    BY <1>9, <1>10, <2>1
  <2>3. Contract!Answer(o)
    BY <1>3, <1>6, <1>10, <2>2 DEF Contract!Answer, Life, Answers, Effect, Granted
  <2>. QED  BY <2>3 DEF Contract!ContractNext
<1>11. CASE /\ at[e] = "canceled" /\ UNCHANGED <<committed, remoteVars>>
            /\ sent' = [sent EXCEPT ![o] = Append(@, "canceled")]
  <2>1. sent[o] = <<>> /\ o \notin Effect \cup remote
    BY <1>4, <1>5, <1>11 DEF SoundAt, Boundary, Effects, Effective, Delegated, Effect
  <2>2. Answers[o] = "none" /\ Answers' = [Answers EXCEPT ![o] = "canceled"]
    BY <1>9, <1>11, <2>1
  <2>3. Contract!AnswerCanceled(o)
    BY <1>3, <1>6, <1>11, <2>1, <2>2 DEF Contract!AnswerCanceled, Life, Answers, Effect, Granted
  <2>. QED  BY <2>3 DEF Contract!ContractNext
<1>12. CASE SendRemote(e)
  <2>1. /\ at[e] = "remote" /\ remote' \in {remote, remote \cup {o}}
        /\ UNCHANGED <<sent, committed, applied>>
    BY <1>1, <1>12 DEF SendRemote, S
  <2>2. Answers[o] = "none" /\ UNCHANGED <<Answers, Effect>>
    BY <1>3, <1>5, <2>1 DEF Responses, Early, Answers, AnswerOf, Effect
  <2>3. CASE UNCHANGED remote
    BY <1>3, <2>2, <2>3, ContractStutters
  <2>4. CASE remote' = remote \cup {o}
    <3>1. Contract!Delegate(o)
      BY <1>3, <1>6, <2>2, <2>4 DEF Contract!Delegate, Life, Answers, Effect, Granted
    <3>. QED  BY <3>1 DEF Contract!ContractNext
  <2>. QED  BY <2>1, <2>3, <2>4
<1>. QED  BY <1>0, <1>1, <1>7, <1>8, <1>10, <1>11, <1>12, HandlerWire

\* Without SASL Binds every response is sound, as a state predicate.
LEMMA EveryResponseIsSound ==
    "saslbind" \notin Kinds =>
        (ConnectionInv => \A o \in Ops : Sound(o) /\ Effective(o) /\ Delegated(o))
BY SoundResponses

\* A step outside the queue and the handlers grants a Cancel, decides what was delegated,
\* or is invisible.
LEMMA ElsewhereKeepsContract ==
    ASSUME "saslbind" \notin Kinds, ConnectionInv, ConnectionInv', Elsewhere
    PROVE  Contract!ContractNext \/ UNCHANGED Contract!contractVars
<1>0. QueueInv /\ Typed /\ ReaderControl /\ acked \in [Ops -> SUBSET {"success", "tooLate"}]
  BY DEF ConnectionInv, SessionBase, BaseInv, Typed, WireTypes
<1>1. UNCHANGED <<status, sent, committed>>
  BY ElsewhereFrame, UnchangedQueue
<1>2. UNCHANGED <<Life, Answers>>
  BY <1>1, WireFrame
<1>3. \/ UNCHANGED acked
      \/ \E t \in Ops : acked' = [acked EXCEPT ![t] = @ \cup ({CancelResult(op[t])} \cap {"tooLate"})]
      \/ rop \in Ops /\ acked' = [acked EXCEPT ![rop] = @ \cup {"success"}]
  <2>1. CASE ReaderMove
    BY <1>0, <2>1 DEF ReaderMove, ReadEnds, ReadNext, CancelTargetDone, WaitInterrupted, BarrierDone,
                ReadBind, wireVars, R, ReaderControl
  <2>2. CASE StopRequest
    BY <2>2 DEF StopRequest, AbandonTracked, CancelTracked, AbandonForBind, wireVars
  <2>3. CASE TakeDown \/ ServerEvent
    BY <2>3 DEF TakeDown, DrainSweep, DrainEnds, CancelConnection, ShutdownOperations, HangUp, LeaveStep,
                ServerEvent, ConnectionLost, IdleCheck, IdleClose, BeginDrain, SweepLongLived,
                ForceOperations, RemoteDecides, wireVars
  <2>4. CASE UNCHANGED vars
    BY <2>4 DEF vars, wireVars
  <2>. QED  BY <2>1, <2>2, <2>3, <2>4 DEF Elsewhere
<1>r. CASE \E o \in Ops : RemoteDecides(o)
  <2>1. PICK o \in Ops : RemoteDecides(o)
    BY <1>r
  <2>2. /\ o \in remote /\ remote' = remote \ {o} /\ Effect' \in {Effect, Effect \cup {o}}
        /\ UNCHANGED Granted
    BY <2>1 DEF RemoteDecides, Effect, Granted
  <2>3. Contract!Decide(o)
    BY <1>2, <2>2 DEF Contract!Decide, Life, Answers, Effect, Granted
  <2>. QED  BY <2>3 DEF Contract!ContractNext
<1>u. ASSUME ~\E o \in Ops : RemoteDecides(o) PROVE UNCHANGED <<Effect, remote>>
  BY <1>1, <1>u, ElsewhereRemote DEF Effect, remoteVars
<1>. SUFFICES ASSUME ~\E o \in Ops : RemoteDecides(o)
              PROVE  Contract!ContractNext \/ UNCHANGED Contract!contractVars
  BY <1>r
<1>4. CASE UNCHANGED acked
  BY <1>2, <1>u, <1>4, WireFrame, ContractStutters
<1>5. ASSUME NEW t \in Ops, acked' = [acked EXCEPT ![t] = @ \cup ({CancelResult(op[t])} \cap {"tooLate"})]
      PROVE  UNCHANGED Contract!contractVars
  <2>1. \A p \in Ops : "success" \in acked'[p] <=> "success" \in acked[p]
    BY <1>0, <1>5
  <2>2. UNCHANGED Granted
    BY <2>1 DEF Granted
  <2>. QED  BY <1>2, <1>u, <2>2, ContractStutters
<1>6. CASE rop \in Ops /\ acked' = [acked EXCEPT ![rop] = @ \cup {"success"}]
  <2>1. PICK t \in Ops : t = rop
    BY <1>6
  <2>2. "success" \in acked'[t] /\ \A p \in Ops : p # t => acked'[p] = acked[p]
    BY <1>0, <1>6, <2>1
  <2>3. Sound(t)' /\ Effective(t)' /\ Delegated(t)'
    <3>1. (\A o \in Ops : Sound(o) /\ Effective(o) /\ Delegated(o))'
      BY EveryResponseIsSound, PTL
    <3>. QED  BY <3>1
  <2>4. sent[t] = <<"canceled">> /\ t \notin Effect \cup remote
    <3>1. sent'[t] = <<"canceled">> /\ op'[t].stop = "canceled"
      BY <2>2, <2>3 DEF Sound
    <3>2. t \notin Effect' \cup remote'
      BY <2>3, <3>1 DEF Effective, Delegated, Effect
    <3>. QED  BY <1>1, <1>u, <3>1, <3>2
  <2>5. Answers[t] = "canceled"
    <3>1. <<"canceled">> # <<>> /\ Len(<<"canceled">>) = 1 /\ <<"canceled">>[1] = "canceled"
      OBVIOUS
    <3>. QED  BY <2>4, <3>1 DEF Answers, AnswerOf
  <2>6. Granted' = Granted \cup {t}
    BY <2>2 DEF Granted
  <2>7. Contract!GrantCancel(t)
    BY <1>2, <1>u, <2>4, <2>5, <2>6 DEF Contract!GrantCancel, Life, Answers, Effect, Granted
  <2>. QED  BY <2>7 DEF Contract!ContractNext
<1>. QED  BY <1>3, <1>4, <1>5, <1>6

\* The requests Q leave the queue or their executor for good.
LEMMA RetireSome ==
    ASSUME NEW Q \in SUBSET Ops, UNCHANGED <<Answers, Effect, remote, Granted>>,
           \A o \in Q : status[o] \in {"queued", "running"} /\ status'[o] \in {"done", "dropped"},
           \A o \in Ops : o \notin Q => status'[o] = status[o]
    PROVE  Contract!ContractNext
<1>1. \A o \in Q : LifeOf(o) = "open" /\ LifeOf(o)' = "retired"
  BY DEF LifeOf
<1>2. \A o \in Ops : o \notin Q => LifeOf(o)' = LifeOf(o)
  BY DEF LifeOf
<1>3. \A o \in Q : Life[o] = "open"
  BY <1>1 DEF Life
<1>4. Life' = [o \in Ops |-> IF o \in Q THEN "retired" ELSE Life[o]]
  BY <1>1, <1>2 DEF Life
<1>5. Contract!Retire(Q)
  BY <1>3, <1>4 DEF Contract!Retire, Life, Answers, Effect, Granted
<1>. QED  BY <1>5 DEF Contract!ContractNext

\* A request is admitted or turned away.
LEMMA ReadOne ==
    ASSUME NEW o \in Ops, UNCHANGED <<Answers, Effect, remote, Granted>>, status[o] = "new",
           status'[o] \in {"queued", "running", "refused"},
           \A p \in Ops : p # o => status'[p] = status[p]
    PROVE  Contract!ContractNext
<1>1. Life[o] = "unread"
  BY DEF Life, LifeOf
<1>2. CASE status'[o] = "refused"
  <2>1. LifeOf(o)' = "retired"
    BY <1>2 DEF LifeOf
  <2>2. Life' = [Life EXCEPT ![o] = "retired"]
    BY <2>1, LifeOfOne
  <2>3. Contract!Refuse(o)
    BY <1>1, <2>2 DEF Contract!Refuse, Life, Answers, Effect, Granted
  <2>. QED  BY <2>3 DEF Contract!ContractNext
<1>3. CASE status'[o] \in {"queued", "running"}
  <2>1. LifeOf(o)' = "open"
    BY <1>3 DEF LifeOf
  <2>2. Life' = [Life EXCEPT ![o] = "open"]
    BY <2>1, LifeOfOne
  <2>3. Contract!Read(o)
    BY <1>1, <2>2 DEF Contract!Read, Life, Answers, Effect, Granted
  <2>. QED  BY <2>3 DEF Contract!ContractNext
<1>. QED  BY <1>2, <1>3

\* Every step of the connection is a step of the contract or invisible in it.
LEMMA ContractStep ==
    ASSUME "saslbind" \notin Kinds, ConnectionInv, ConnectionInv', [Next]_vars
    PROVE  Contract!ContractNext \/ UNCHANGED Contract!contractVars
<1>. DEFINE Goal == Contract!ContractNext \/ UNCHANGED Contract!contractVars
<1>0. QueueInv /\ Typed /\ ReaderControl /\ status \in [Ops -> Statuses]
  BY DEF ConnectionInv, SessionBase, BaseInv, QueueInv, QueueTypeOK
<1>1. ASSUME NEW w \in Workers, PopOperation(w) PROVE Goal
  <2>1. UNCHANGED <<Answers, Effect, remote, Granted>>
    BY <1>1, WireFrame DEF PopOperation
  <2>2. PICK o \in Ops : /\ status[o] = "queued" /\ status'[o] = "running"
                         /\ \A p \in Ops : p # o => status'[p] = status[p]
    BY <1>0, <1>1, PopEffect DEF PopOperation
  <2>3. \A p \in Ops : LifeOf(p)' = LifeOf(p)
    BY <2>2 DEF LifeOf
  <2>4. UNCHANGED Life
    BY <2>3 DEF Life
  <2>. QED  BY <2>1, <2>4, ContractStutters
<1>2. ASSUME NEW w \in Workers, PopNothing(w) PROVE Goal
  <2>1. UNCHANGED status
    BY <1>0, <1>2, MoveEffect, WorkersAssumption DEF PopNothing, Executors, PopWait, PopExit
  <2>. QED  BY <1>2, <2>1, WireFrame, ContractStutters DEF PopNothing
<1>3. ASSUME NEW e \in Executors, HandlerStep(e) PROVE Goal
  BY <1>3, HandlerKeepsContract
<1>4. ASSUME NEW e \in Executors, CompleteOperation(e) PROVE Goal
  <2>1. UNCHANGED <<Answers, Effect, remote, Granted>>
    BY <1>4, WireFrame DEF CompleteOperation
  <2>2. PICK o \in Ops : /\ status[o] = "running" /\ status'[o] = "done"
                         /\ \A p \in Ops : p # o => status'[p] = status[p]
    BY <1>0, <1>4, CompleteEffect DEF CompleteOperation
  <2>3. Contract!ContractNext
    <3>1. PICK Q \in SUBSET Ops : Q = {o}
      OBVIOUS
    <3>. QED  BY <2>1, <2>2, <3>1, RetireSome
  <2>. QED  BY <2>3
<1>5. ASSUME NEW e \in Executors, ReturnTrue(e) \/ ReturnFalse(e) PROVE Goal
  <2>1. UNCHANGED status
    BY <1>0, <1>5, MoveEffect DEF ReturnTrue, ReturnFalse, Continue, GiveUp
  <2>. QED  BY <1>5, <2>1, WireFrame, ContractStutters DEF ReturnTrue, ReturnFalse
<1>6. ASSUME NEW o \in Ops, NEW k, Admit(o, k) \/ TurnAway(o, k) PROVE Goal
  <2>1. UNCHANGED <<Answers, Effect, remote, Granted>>
    BY <1>6, WireFrame DEF Admit, TurnAway
  <2>2. /\ status[o] = "new" /\ status'[o] \in {"queued", "refused"}
        /\ \A p \in Ops : p # o => status'[p] = status[p]
    <3>1. PICK c \in BOOLEAN : Push(o, c) \/ Refuse(o, c)
      BY <1>6 DEF Admit, TurnAway, CanRunConcurrent
    <3>. QED  BY <1>0, <3>1, PushEffect, RefuseEffect
  <2>. QED  BY <2>1, <2>2, ReadOne
<1>7. CASE ClaimBind /\ rop \in Ops
  <2>1. UNCHANGED <<Answers, Effect, remote, Granted>>
    BY <1>7, WireFrame DEF ClaimBind
  <2>2. PICK o \in Ops : o = rop
    BY <1>7
  <2>3. /\ status[o] = "new" /\ status'[o] = "running"
        /\ \A p \in Ops : p # o => status'[p] = status[p]
    BY <1>0, <1>7, <2>2, ClaimBindEffect
  <2>. QED  BY <2>1, <2>3, ReadOne
<1>8. ASSUME NEW t \in Ops, AbandonQueued(t) PROVE Goal
  <2>1. UNCHANGED <<Answers, Effect, remote, Granted>>
    BY <1>8, WireFrame DEF AbandonQueued
  <2>2. /\ status[t] = "queued" /\ status'[t] = "dropped"
        /\ \A p \in Ops : p # t => status'[p] = status[p]
    BY <1>0, <1>8, RemoveEffect DEF AbandonQueued
  <2>3. Contract!ContractNext
    <3>1. PICK Q \in SUBSET Ops : Q = {t}
      OBVIOUS
    <3>. QED  BY <2>1, <2>2, <3>1, RetireSome
  <2>. QED  BY <2>3
<1>9. CASE BindDiscards \/ DrainClose \/ CloseQueue
  <2>1. UNCHANGED <<Answers, Effect, remote, Granted>>
    BY <1>9, WireFrame DEF BindDiscards, DrainClose, CloseQueue, LeaveStep
  <2>2. DropsQueued \/ UNCHANGED status
    BY <1>0, <1>9, DiscardEffect, CloseEffect DEF BindDiscards, DrainClose, CloseQueue
  <2>3. CASE DropsQueued
    <3>1. PICK Q \in SUBSET Ops : Q = {o \in Ops : status[o] = "queued"}
      OBVIOUS
    <3>2. Contract!ContractNext
      BY <2>1, <2>3, <3>1, RetireSome DEF DropsQueued
    <3>. QED  BY <3>2
  <2>4. CASE UNCHANGED status
    BY <2>1, <2>4, WireFrame, ContractStutters
  <2>. QED  BY <2>2, <2>3, <2>4
<1>10. CASE Elsewhere
  BY <1>10, ElsewhereKeepsContract
<1>. QED  BY <1>0, <1>1, <1>2, <1>3, <1>4, <1>5, <1>6, <1>7, <1>8, <1>9, <1>10, StepCases

\* KeepsContract: the connection implements OperationContract, for every set of
\* requests and workers and every interleaving of the reader, the workers, the
\* server's own events and the servers that writes are chained to, which may carry
\* them out after the client was answered, if the client uses no SASL Bind (whose rejection of other
\* requests breaks the contract: run conn_sasl_cancel).
THEOREM ConnectionKeepsContract == "saslbind" \notin Kinds => (Spec => KeepsContract)
<1>. SUFFICES ASSUME "saslbind" \notin Kinds PROVE Spec => KeepsContract
  OBVIOUS
<1>1. Init => Contract!ContractInit
  <2>. SUFFICES ASSUME Init PROVE Contract!ContractInit
    OBVIOUS
  <2>1. status = [o \in Ops |-> "new"] /\ sent = [o \in Ops |-> <<>>] /\ committed = {}
        /\ acked = [o \in Ops |-> {}] /\ remote = {} /\ applied = {}
    BY DEF Init, QueueInit
  <2>2. \A o \in Ops : LifeOf(o) = "unread" /\ AnswerOf(o) = "none" /\ "success" \notin acked[o]
    BY <2>1 DEF LifeOf, AnswerOf
  <2>. QED  BY <2>1, <2>2 DEF Contract!ContractInit
<1>2. ConnectionInv /\ ConnectionInv' /\ [Next]_vars => [Contract!ContractNext]_(Contract!contractVars)
  BY ContractStep
<1>. QED  BY <1>1, <1>2, ConnectionInvariant, PTL DEF Spec, KeepsContract, Contract!ContractSpec

-----------------------------------------------------------------------------
(* A drain: the queue and its workers.  A worker leaves only because the   *)
(* queue is closed and empty or the connection is cut (ExitReason); nothing *)
(* but its own reader cuts it (Calm); and a request that is dropped before *)
(* was stopped (DroppedStopped).                                           *)

\* The queue is closed by the reader, which then leaves it alone.
ClosedReader == closed <=> pc[Reader] = "closed"

\* A worker leaves because the queue is closed and has nothing more for it, or because
\* the connection is cut.
ExitReason == \A w \in Workers : pc[w] = "exit" => Cut \/ (closed /\ (items = <<>> \/ ~drain))

\* A drain leaves the queue closed and what it holds to the workers.
DrainClosed == rpc \in {"drain", "drained"} => closed /\ drain

\* What a step does to a closed queue, and why a worker leaves: pop found the queue
\* closed with nothing more for it, or runConnectionOperation returned false.
LEMMA QueueEnds ==
    ASSUME QueueInv, ClosedReader, [QueueNext]_queueVars
    PROVE  /\ ClosedReader'
           /\ closed => closed' /\ drain' = drain /\ (items = <<>> => items' = <<>>)
           /\ \A w \in Workers : pc'[w] = "exit" =>
                 \/ pc[w] = "exit"
                 \/ closed /\ (items = <<>> \/ ~drain)
                 \/ GiveUp(w)
<1>. DEFINE Goal == /\ ClosedReader'
                    /\ closed => closed' /\ drain' = drain /\ (items = <<>> => items' = <<>>)
                    /\ \A w \in Workers : pc'[w] = "exit" =>
                          \/ pc[w] = "exit"
                          \/ closed /\ (items = <<>> \/ ~drain)
                          \/ GiveUp(w)
<1>0. pc \in [Executors -> WorkerStates \cup ReaderStates] /\ closed \in BOOLEAN
      /\ \A w \in Workers : w \in Executors /\ w # Reader
  BY NotRunningElsewhere DEF QueueInv, QueueTypeOK
<1>1. ASSUME NEW W \in SUBSET Waiters, NEW w \in Workers, WakeUp(W)[w] = "exit" PROVE pc[w] = "exit"
  BY <1>0, <1>1 DEF WakeUp
<1>2. ASSUME pc' \in Signalled \/ pc' = pc \/ pc' = Broadcast, NEW w \in Workers, pc'[w] = "exit"
      PROVE  pc[w] = "exit"
  <2>1. CASE pc' \in Signalled /\ Waiters # {}
    <3>1. PICK v \in Waiters : pc' = WakeUp({v})
      BY <2>1 DEF Signalled
    <3>. QED  BY <1>1, <1>2, <3>1
  <2>2. CASE pc' \in Signalled /\ Waiters = {}
    BY <1>2, <2>2 DEF Signalled
  <2>3. CASE pc' = Broadcast
    BY <1>1, <1>2, <2>3 DEF Broadcast
  <2>. QED  BY <1>2, <2>1, <2>2, <2>3
<1>3. CASE UNCHANGED queueVars
  BY <1>3 DEF queueVars, ClosedReader
<1>4. ASSUME NEW o \in Ops, TryClaimIdleSimpleBind(o) PROVE Goal
  BY <1>0, <1>4 DEF TryClaimIdleSimpleBind, ClosedReader
<1>5. ASSUME NEW o \in Ops, NEW c \in BOOLEAN, Push(o, c) PROVE Goal
  <2>1. pc' \in Signalled /\ pc[Reader] = "read" /\ pc'[Reader] = "read" /\ ~closed /\ closed' = closed
    BY <1>5, PushEffect DEF Push, PushWakes
  <2>. QED  BY <1>2, <2>1 DEF ClosedReader
<1>6. ASSUME NEW o \in Ops, NEW c \in BOOLEAN, Refuse(o, c) PROVE Goal
  BY <1>0, <1>6 DEF Refuse, ClosedReader
<1>7. ASSUME NEW i \in 1..Len(items), RemoveQueued(i) PROVE Goal
  <2>1. (pc' \in Signalled \/ pc' = pc) /\ pc[Reader] = "read" /\ pc'[Reader] = "read" /\ closed' = closed
    BY <1>7, RemoveEffect DEF RemoveQueued
  <2>. QED  BY <1>2, <2>1 DEF ClosedReader
<1>8. CASE DiscardPending
  <2>1. (pc' = Broadcast \/ pc' = pc) /\ pc[Reader] = "read" /\ pc'[Reader] = "read" /\ closed' = closed
    BY <1>8, DiscardEffect DEF DiscardPending
  <2>. QED  BY <1>2, <2>1 DEF ClosedReader
<1>9. CASE Close \/ CloseAndDrain
  <2>1. /\ pc' = [Broadcast EXCEPT ![Reader] = "closed"] /\ pc[Reader] \in {"read", "stop"}
        /\ closed' = TRUE /\ pc'[Reader] = "closed"
    BY <1>9, CloseEffect DEF Close, CloseAndDrain
  <2>2. \A w \in Workers : pc'[w] = "exit" => pc[w] = "exit"
    BY <1>0, <2>1 DEF Broadcast, WakeUp
  <2>. QED  BY <2>1, <2>2 DEF ClosedReader
<1>10. ASSUME NEW v \in Workers, Pop(v) PROVE Goal
  <2>1. /\ \A e \in Executors : e # v => pc'[e] = pc[e]
        /\ pc'[v] = "run" /\ v # Reader /\ items # <<>> /\ Reader \in Executors
        /\ UNCHANGED <<closed, drain>>
    BY <1>10, PopEffect, NotRunningElsewhere DEF Pop
  <2>. QED  BY <1>0, <2>1 DEF ClosedReader
<1>11. ASSUME NEW v \in Workers, PopWait(v) \/ PopExit(v) PROVE Goal
  <2>1. /\ pc' \in {[pc EXCEPT ![v] = "wait"], [pc EXCEPT ![v] = "exit"]}
        /\ UNCHANGED <<items, closed, drain>>
        /\ PopExit(v) => closed /\ (items = <<>> \/ ~drain)
        /\ PopWait(v) => pc' = [pc EXCEPT ![v] = "wait"]
    BY <1>11 DEF PopWait, PopExit
  <2>2. v # Reader /\ Reader \in Executors /\ v \in Executors
    BY NotRunningElsewhere
  <2>3. pc'[Reader] = pc[Reader]
    BY <1>0, <2>1, <2>2
  <2>4. ASSUME NEW w \in Workers, pc'[w] = "exit" PROVE pc[w] = "exit" \/ PopExit(v)
    BY <1>0, <1>11, <2>1, <2>2, <2>4
  <2>. QED  BY <2>1, <2>3, <2>4 DEF ClosedReader
<1>12. ASSUME NEW e \in Executors, Complete(e) PROVE Goal
  <2>1. PICK q \in CompleteWakes : pc' = [q EXCEPT ![e] = "return"]
    BY <1>12 DEF Complete
  <2>2. q = pc \/ q = Broadcast
    BY <2>1 DEF CompleteWakes
  <2>3. \A f \in Executors : /\ f # e => pc'[f] = IF f \in Waiters /\ q = Broadcast THEN "pop" ELSE pc[f]
                             /\ pc'[e] = "return" /\ pc[e] = "run"
    BY <1>0, <1>12, <2>1, <2>2 DEF Broadcast, WakeUp, Complete
  <2>4. UNCHANGED <<items, closed, drain>>
    BY <1>12 DEF Complete
  <2>5. Reader \in Executors /\ Reader \notin Waiters
    BY NotRunningElsewhere DEF Waiters
  <2>. QED  BY <1>0, <2>3, <2>4, <2>5 DEF ClosedReader
<1>13. ASSUME NEW e \in Executors, Continue(e) \/ GiveUp(e) PROVE Goal
  <2>1. /\ pc[e] = "return" /\ \A f \in Executors : f # e => pc'[f] = pc[f]
        /\ pc'[e] \in {"read", "pop", "stop", "exit"} /\ UNCHANGED <<items, closed, drain>>
        /\ Continue(e) => pc'[e] # "exit"
    BY <1>0, <1>13 DEF Continue, GiveUp
  <2>2. Reader \in Executors
    BY NotRunningElsewhere
  <2>. QED  BY <1>0, <1>13, <2>1, <2>2 DEF ClosedReader
<1>. QED
  BY <1>3, <1>4, <1>5, <1>6, <1>7, <1>8, <1>9, <1>10, <1>11, <1>12, <1>13
     DEF QueueNext, ReaderStep, WorkerStep, ExecutorStep

\* A worker that gives up has found the connection cut, and if it was not, it is now.
LEMMA GivingUpCuts ==
    ASSUME BaseInv, [Next]_vars, NEW w \in Workers, GiveUp(w)
    PROVE  ReturnFalse(w)
<1>0. /\ QueueInv /\ Typed /\ ReaderControl /\ w \in Executors /\ w # Reader
      /\ pc \in [Executors -> WorkerStates \cup ReaderStates]
  BY NotRunningElsewhere DEF BaseInv, QueueInv, QueueTypeOK
<1>1. pc[w] = "return" /\ pc'[w] = "exit" /\ UNCHANGED status
  BY <1>0 DEF GiveUp
<1>2. ASSUME NEW v \in Workers, PopOperation(v) \/ PopNothing(v) PROVE FALSE
  BY <1>0, <1>1, <1>2, PopEffect, MoveEffect DEF PopOperation, PopNothing, PopWait, PopExit, Executors
<1>3. ASSUME NEW e \in Executors, HandlerStep(e) PROVE FALSE
  BY <1>0, <1>1, <1>3, HandlerStepIsLocal, UnchangedQueue DEF LocalTo, Typed
<1>4. ASSUME NEW e \in Executors, CompleteOperation(e) PROVE FALSE
  BY <1>0, <1>1, <1>4, CompleteEffect DEF CompleteOperation
<1>5. ASSUME NEW e \in Executors, ReturnTrue(e) \/ ReturnFalse(e) PROVE e = w /\ ReturnFalse(e)
  <2>1. CASE e # w
    BY <1>0, <1>1, <1>5, <2>1 DEF ReturnTrue, ReturnFalse, Continue, GiveUp
  <2>2. CASE e = w /\ ReturnTrue(e)
    BY <1>0, <1>1, <2>2 DEF ReturnTrue, Continue
  <2>. QED  BY <1>5, <2>1, <2>2
<1>6. ASSUME NEW o \in Ops, NEW k, Admit(o, k) \/ TurnAway(o, k) PROVE FALSE
  <2>1. PICK c \in BOOLEAN : Push(o, c) \/ Refuse(o, c)
    BY <1>6 DEF Admit, TurnAway, CanRunConcurrent
  <2>. QED  BY <1>0, <1>1, <2>1, PushEffect, RefuseEffect
<1>7. ASSUME ClaimBind /\ rop \in Ops PROVE FALSE
  BY <1>0, <1>1, <1>7, ClaimBindEffect
<1>8. ASSUME NEW t \in Ops, AbandonQueued(t) PROVE FALSE
  BY <1>0, <1>1, <1>8, RemoveEffect DEF AbandonQueued
<1>9. CASE BindDiscards
  BY <1>0, <1>1, <1>9, WakeEffect DEF BindDiscards, DiscardPending
<1>10. CASE DrainClose \/ CloseQueue
  BY <1>0, <1>1, <1>10, CloseEffect DEF DrainClose, CloseQueue
<1>11. CASE Elsewhere
  BY <1>1, <1>11, ElsewhereFrame, UnchangedQueue
<1>. QED  BY <1>0, <1>2, <1>3, <1>4, <1>5, <1>6, <1>7, <1>8, <1>9, <1>10, <1>11, StepCases

\* Who moves the reader.
LEMMA RpcCases ==
    ASSUME BaseInv, [Next]_vars
    PROVE  \/ UNCHANGED rpc
           \/ Elsewhere \/ DrainClose \/ CloseQueue \/ BindDiscards
           \/ rpc \notin Leaving /\ rpc' \in {"barrier", "loop", "leave"}
<1>0. QueueInv /\ Typed /\ ReaderControl
  BY DEF BaseInv
<1>1. ASSUME NEW w, PopOperation(w) \/ PopNothing(w) \/ CompleteOperation(w) PROVE UNCHANGED rpc
  BY <1>1 DEF PopOperation, PopNothing, CompleteOperation, readerVars
<1>2. ASSUME NEW e \in Executors, HandlerStep(e) PROVE UNCHANGED rpc
  BY <1>0, <1>2, HandlerStepIsLocal DEF LocalTo, Typed, readerVars
<1>3. ASSUME NEW e \in Executors, ReturnTrue(e) \/ ReturnFalse(e)
      PROVE  UNCHANGED rpc \/ (rpc \notin Leaving /\ rpc' \in {"loop", "leave"})
  BY <1>0, <1>3 DEF ReturnTrue, ReturnFalse, Continue, GiveUp, ReaderControl, Leaving
<1>4. ASSUME NEW o \in Ops, NEW k, InHand(o, k), Admit(o, k) \/ TurnAway(o, k)
      PROVE  rpc \notin Leaving /\ rpc' \in {"barrier", "loop", "leave"}
  BY <1>4 DEF InHand, R, Admit, TurnAway, Leaving
<1>5. ASSUME NEW t \in Ops, AbandonQueued(t)
      PROVE  rpc \notin Leaving /\ rpc' \in {"barrier", "loop", "leave"}
  BY <1>5 DEF AbandonQueued, R, Leaving
<1>6. ClaimBind => UNCHANGED rpc
  BY DEF ClaimBind
<1>. QED  BY <1>0, <1>1, <1>2, <1>3, <1>4, <1>5, <1>6, StepCases

\* The part of the drain's invariant about the queue and its workers.
CloseInv == ClosedReader /\ ExitReason /\ DrainClosed

\* Every step keeps it.
LEMMA CloseStep ==
    ASSUME BaseInv, CloseInv, [Next]_vars
    PROVE  CloseInv'
<1>0. QueueInv /\ ReaderControl /\ ClosedReader
  BY DEF BaseInv, CloseInv
<1>1. /\ ClosedReader'
      /\ closed => closed' /\ drain' = drain /\ (items = <<>> => items' = <<>>)
      /\ \A w \in Workers : pc'[w] = "exit" =>
            \/ pc[w] = "exit"
            \/ closed /\ (items = <<>> \/ ~drain)
            \/ GiveUp(w)
  <2>1. [QueueNext]_queueVars
    BY <1>0, ConnectionStepIsQueueStep
  <2>. QED  BY <1>0, <2>1, QueueEnds
<1>2. Cut => Cut'
  BY FlagsLast DEF Cut
<1>3. ExitReason'
  <2>. SUFFICES ASSUME NEW w \in Workers, pc'[w] = "exit"
                PROVE  Cut' \/ (closed' /\ (items' = <<>> \/ ~drain'))
    BY DEF ExitReason
  <2>1. CASE GiveUp(w)
    <3>1. connClosed' = (connClosed \/ ~connDone) /\ connDone' = connDone
      BY <2>1, GivingUpCuts DEF ReturnFalse
    <3>. QED  BY <3>1, Zenon DEF Cut
  <2>2. CASE ~GiveUp(w)
    BY <1>1, <1>2, <2>2 DEF CloseInv, ExitReason
  <2>. QED  BY <2>1, <2>2
<1>4. DrainClosed'
  <2>. SUFFICES ASSUME rpc' \in {"drain", "drained"} PROVE closed' /\ drain'
    BY DEF DrainClosed
  <2>1. CASE rpc \in {"drain", "drained"}
    BY <1>1, <2>1 DEF CloseInv, DrainClosed
  <2>2. CASE DrainClose
    BY <2>2 DEF DrainClose, CloseAndDrain
  <2>3. CASE Elsewhere
    <3>1. CASE ReaderMove \/ StopRequest
      BY <2>1, <3>1 DEF ReaderMove, StopRequest, ReadEnds, ReadNext, CancelTargetDone, WaitInterrupted,
         BarrierDone, ReadBind, AbandonTracked, CancelTracked, AbandonForBind
    <3>2. CASE TakeDown
      BY <2>1, <3>2 DEF TakeDown, DrainSweep, DrainEnds, CancelConnection, ShutdownOperations, HangUp, LeaveStep
    <3>3. CASE ServerEvent \/ UNCHANGED vars
      BY <2>1, <3>3 DEF ServerEvent, ConnectionLost, IdleCheck, IdleClose, BeginDrain, SweepLongLived,
         ForceOperations, RemoteDecides, readerVars, vars
    <3>. QED  BY <2>3, <3>1, <3>2, <3>3 DEF Elsewhere
  <2>4. CASE CloseQueue \/ BindDiscards
    BY <2>4 DEF CloseQueue, BindDiscards, LeaveStep
  <2>. QED  BY <2>1, <2>2, <2>3, <2>4, RpcCases
<1>. QED  BY <1>1, <1>3, <1>4 DEF CloseInv

-----------------------------------------------------------------------------
(* A drain: requests that are dropped. *)

\* A Bind leaves no queued request running: those it has not yet asked to stop are in rset.
BindStops == rpc = "bind" => \A o \in Ops : status[o] = "queued" => o \in rset \/ op[o].stop # "running"

\* Only the end of the connection drops a request that nobody stopped.
DroppedStopped == \A o \in Ops : status[o] = "dropped" /\ op[o].stop = "running" => rpc \in Down

\* The part about requests that are dropped.
DropInv == BindStops /\ DroppedStopped

\* A request that was stopped is never running again.
LEMMA StopLasts ==
    ASSUME ConnectionInv, [Next]_vars, NEW o \in Ops, status[o] # "new", op[o].stop # "running"
    PROVE  op'[o].stop # "running"
<1>0. /\ BaseInv /\ RegistryInv /\ BindSparesBinds /\ CancelWait /\ Shape(o)
      /\ op[o] \in TrackedOperations /\ QueueInv /\ Typed
  BY DEF ConnectionInv, SessionBase, AnswerInv, RequestInv, BaseInv, Typed, LifeTypes
<1>1. ASSUME NEW e \in Executors, exec[e] = o, HandlerStep(e) PROVE op'[o].stop # "running"
  BY <1>0, <1>1, HandlerKeepsStop
<1>2. CASE Bystander(o)
  BY <1>0, <1>2, AcknowledgedFields DEF Bystander
<1>3. CASE Admitted(o) \/ Popped(o) \/ Completed(o)
  BY <1>3 DEF Admitted, Popped, Completed
<1>4. CASE Dropped(o)
  <2>1. RequestAbandon(op[o]) = op[o]
    BY DEF RequestAbandon
  <2>2. op'[o] \in {op[o], FinishOperation(op[o])}
    BY <1>4, <2>1 DEF Dropped
  <2>. QED  BY <1>0, <2>2 DEF FinishOperation, TrackedOperations
<1>. QED  BY <1>0, <1>1, <1>2, <1>3, <1>4, RequestCases

\* A queued request is dropped by an Abandon of it, by a Bind, or by the end of the
\* connection.
LEMMA DropReason ==
    ASSUME BaseInv, [Next]_vars, NEW o \in Ops, status[o] = "queued", status'[o] = "dropped"
    PROVE  AbandonQueued(o) \/ BindDiscards \/ CloseQueue
<1>0. QueueInv /\ Typed /\ ReaderControl
  BY DEF BaseInv
<1>1. ASSUME NEW w \in Workers, PopOperation(w) \/ PopNothing(w) PROVE FALSE
  BY <1>0, <1>1, PopEffect, MoveEffect DEF PopOperation, PopNothing, PopWait, PopExit
<1>2. ASSUME NEW e \in Executors, HandlerStep(e) PROVE FALSE
  BY <1>0, <1>2, HandlerStepIsLocal, UnchangedQueue DEF LocalTo, Typed
<1>3. ASSUME NEW e \in Executors, CompleteOperation(e) PROVE FALSE
  BY <1>0, <1>3, CompleteEffect DEF CompleteOperation
<1>4. ASSUME NEW e \in Executors, ReturnTrue(e) \/ ReturnFalse(e) PROVE FALSE
  BY <1>0, <1>4, MoveEffect DEF ReturnTrue, ReturnFalse
<1>5. ASSUME NEW p \in Ops, NEW k, Admit(p, k) \/ TurnAway(p, k) PROVE FALSE
  <2>1. PICK c \in BOOLEAN : Push(p, c) \/ Refuse(p, c)
    BY <1>5 DEF Admit, TurnAway, CanRunConcurrent
  <2>. QED  BY <1>0, <2>1, PushEffect, RefuseEffect
<1>6. ASSUME ClaimBind /\ rop \in Ops PROVE FALSE
  BY <1>0, <1>6, ClaimBindEffect
<1>7. ASSUME NEW t \in Ops, AbandonQueued(t) PROVE t = o
  BY <1>0, <1>7, RemoveEffect DEF AbandonQueued
<1>8. ASSUME DrainClose PROVE FALSE
  BY <1>0, <1>8, CloseEffect DEF DrainClose
<1>9. ASSUME Elsewhere PROVE FALSE
  BY <1>9, ElsewhereFrame, UnchangedQueue
<1>. QED  BY <1>0, <1>1, <1>2, <1>3, <1>4, <1>5, <1>6, <1>7, <1>8, <1>9, StepCases

\* What abandonForBind has still to stop changes only by its own steps.
LEMMA BindSetCases ==
    ASSUME BaseInv, [Next]_vars
    PROVE  \/ UNCHANGED rset
           \/ \E o \in Ops, k \in Kinds : ReadBind(o, k)
           \/ \E t \in Ops : AbandonForBind(t)
<1>0. QueueInv /\ Typed /\ ReaderControl
  BY DEF BaseInv
<1>1. ASSUME NEW w \in Workers, PopOperation(w) \/ PopNothing(w) PROVE UNCHANGED rset
  BY <1>1 DEF PopOperation, PopNothing, readerVars
<1>2. ASSUME NEW e \in Executors, HandlerStep(e) PROVE UNCHANGED rset
  BY <1>0, <1>2, HandlerStepIsLocal DEF LocalTo, Typed, readerVars
<1>3. ASSUME NEW e \in Executors, CompleteOperation(e) \/ ReturnTrue(e) \/ ReturnFalse(e)
      PROVE  UNCHANGED rset
  BY <1>3 DEF CompleteOperation, ReturnTrue, ReturnFalse
<1>4. ASSUME NEW o, NEW k, Admit(o, k) \/ TurnAway(o, k) \/ ClaimBind \/ AbandonQueued(o) \/ BindDiscards
             \/ DrainClose \/ CloseQueue
      PROVE  UNCHANGED rset
  BY <1>4 DEF Admit, TurnAway, ClaimBind, AbandonQueued, BindDiscards, DrainClose, CloseQueue, LeaveStep
<1>5. ASSUME Elsewhere, ~\E o \in Ops, k \in Kinds : ReadBind(o, k), ~\E t \in Ops : AbandonForBind(t)
      PROVE  UNCHANGED rset
  BY <1>5 DEF Elsewhere, ReaderMove, StopRequest, TakeDown, ReadEnds, ReadNext,
       CancelTargetDone, WaitInterrupted, BarrierDone, AbandonTracked, CancelTracked,
       DrainSweep, DrainEnds, CancelConnection, ShutdownOperations, HangUp, LeaveStep,
       ServerEvent, ConnectionLost, IdleCheck, IdleClose, BeginDrain, SweepLongLived,
       ForceOperations, RemoteDecides, vars, readerVars
<1>. QED  BY <1>0, <1>1, <1>2, <1>3, <1>4, <1>5, StepCases

\* A connection that is down stays down.
LEMMA DownLasts ==
    ASSUME BaseInv, [Next]_vars, rpc \in Down
    PROVE  rpc' \in Down
<1>1. rpc \in Leaving
  BY DEF Down, Leaving
<1>2. DrainClose \/ CloseQueue \/ BindDiscards => rpc \notin Down
  BY DEF DrainClose, CloseQueue, BindDiscards, LeaveStep, R, Down
<1>. QED  BY <1>1, <1>2, RpcCases, ElsewhereReader

\* What is queued has not come to its final response.
LEMMA QueuedCanStop ==
    ASSUME ConnectionInv, rpc \notin Down, NEW o \in Ops, status[o] = "queued"
    PROVE  o \in registry /\ ~PastFinal(op[o])
<1>1. o \in registry
  BY DEF ConnectionInv, SessionBase, RegistryInv, LiveAreRegistered
<1>2. op[o].phase # "complete"
  BY <1>1 DEF ConnectionInv, SessionBase, RegistryInv, RegisteredAreLive
<1>3. op[o].phase \in {"pending", "complete"}
  BY DEF ConnectionInv, AnswerInv, RequestInv, Untouched
<1>. QED  BY <1>1, <1>2, <1>3 DEF PastFinal

\* Every step keeps DropInv: Abandon and Bind stop what they drop, because a queued
\* request has not come to its final response.
LEMMA DropStep ==
    ASSUME ConnectionInv, DropInv, [Next]_vars
    PROVE  DropInv'
<1>0. BaseInv /\ QueueInv /\ Typed /\ ReaderControl /\ RegistryInv /\ BindSparesBinds /\ BarrierLive
      /\ op \in [Ops -> TrackedOperations]
  BY DEF ConnectionInv, SessionBase, BaseInv, Typed, LifeTypes
<1>s. ASSUME NEW o \in Ops PROVE status[o] # "new" => Shape(o)
  BY DEF ConnectionInv, AnswerInv, RequestInv
<1>1. ASSUME NEW o \in Ops, status'[o] = "dropped", op'[o].stop = "running" PROVE rpc' \in Down
  <2>1. CASE status[o] = "dropped"
    BY <1>0, <1>1, <2>1, StopLasts, DownLasts DEF DropInv, DroppedStopped
  <2>2. CASE status[o] = "queued"
    <3>1. CASE CloseQueue
      BY <3>1 DEF CloseQueue, LeaveStep, Down
    <3>2. CASE BindDiscards
      <4>1. op[o].stop # "running"
        BY <2>2, <3>2 DEF BindDiscards, R, DropInv, BindStops
      <4>. QED  BY <1>1, <2>2, <4>1, StopLasts
    <3>3. CASE AbandonQueued(o)
      <4>1. rpc = "reading" /\ pc[Reader] = "read" /\ op'[o] = FinishOperation(RequestAbandon(op[o]))
        BY <1>0, <3>3 DEF AbandonQueued, R
      <4>2. kind[o] \notin Binds
        BY <1>0, <2>2, <4>1, NoLiveBarrier DEF ConnectionReadBarrier, Live, Leaving
      <4>3. op[o].abandonable /\ ~PastFinal(op[o])
        BY <1>s, <2>2, <4>1, <4>2, QueuedCanStop DEF Shape, Down
      <4>4. RequestAbandon(op[o]) \in TrackedOperations /\ RequestAbandon(op[o]).stop # "running"
        BY <1>0, <4>3 DEF RequestAbandon, Stopped, TrackedOperations, StopModes
      <4>. QED  BY <1>1, <4>1, <4>4 DEF FinishOperation, TrackedOperations
    <3>. QED  BY <1>0, <1>1, <2>2, <3>1, <3>2, <3>3, DropReason
  <2>3. CASE status[o] \notin {"dropped", "queued"}
    <3>1. ASSUME NEW e \in Executors, exec[e] = o, HandlerStep(e) PROVE FALSE
      BY <1>0, <1>1, <2>3, <3>1, HandlerStepIsLocal, UnchangedQueue DEF LocalTo, Typed
    <3>2. Bystander(o) \/ Admitted(o) \/ Popped(o) \/ Completed(o) \/ Dropped(o) => FALSE
      BY <1>1, <2>3 DEF Bystander, Admitted, Popped, Completed, Dropped
    <3>. QED  BY <1>0, <1>s, <3>1, <3>2, RequestCases
  <2>. QED  BY <2>1, <2>2, <2>3
<1>2. ASSUME rpc' = "bind", NEW o \in Ops, status'[o] = "queued"
      PROVE  o \in rset' \/ op'[o].stop # "running"
  <2>1. ASSUME NEW p \in Ops, NEW k \in Kinds, ReadBind(p, k) PROVE o \in rset'
    <3>1. rset' = registry /\ rpc = "reading" /\ UNCHANGED queueVars
      BY <2>1 DEF ReadBind, R
    <3>2. status[o] = "queued"
      BY <1>2, <3>1, UnchangedQueue
    <3>. QED  BY <3>1, <3>2, QueuedCanStop DEF Down
  <2>2. CASE ~\E p \in Ops, k \in Kinds : ReadBind(p, k)
    <3>1. rpc = "bind"
      <4>1. CASE Elsewhere
        BY <1>0, <1>2, <2>2, <4>1, ElsewhereInHand DEF BarrierDone, Leaving
      <4>2. CASE DrainClose \/ CloseQueue \/ BindDiscards
        BY <1>2, <4>2 DEF DrainClose, CloseQueue, BindDiscards, LeaveStep
      <4>. QED  BY <1>0, <1>2, <4>1, <4>2, RpcCases
    <3>2. status[o] = "queued"
      <4>1. status[o] # "new"
        <5>1. \A k : ~InHand(o, k)
          BY <3>1 DEF InHand, R
        <5>2. ~ClaimBind
          BY <3>1 DEF ClaimBind, R
        <5>. QED  BY <1>0, <1>2, <5>1, <5>2, AdmittedOnce
      <4>2. ASSUME NEW e \in Executors, exec[e] = o, HandlerStep(e) PROVE UNCHANGED status
        BY <1>0, <4>2, HandlerStepIsLocal, UnchangedQueue DEF LocalTo, Typed
      <4>. QED  BY <1>0, <1>2, <1>s, <4>1, <4>2, RequestCases DEF Bystander, Admitted, Popped, Completed, Dropped
    <3>3. CASE op[o].stop # "running"
      BY <3>2, <3>3, StopLasts
    <3>4. CASE o \in rset
      <4>1. ASSUME NEW t \in Ops, AbandonForBind(t) PROVE o \in rset' \/ op'[o].stop # "running"
        <5>1. CASE t # o
          BY <3>4, <4>1, <5>1 DEF AbandonForBind
        <5>2. CASE t = o
          <6>1. op'[o] = RequestBindAbandon(op[o])
            BY <1>0, <4>1, <5>2 DEF AbandonForBind
          <6>2. ~PastFinal(op[o]) /\ op[o] \in TrackedOperations
            BY <1>0, <3>1, <3>2, QueuedCanStop DEF Down
          <6>. QED  BY <6>1, <6>2 DEF RequestBindAbandon, Stopped, TrackedOperations, StopModes
        <5>. QED  BY <5>1, <5>2
      <4>. QED  BY <1>0, <2>2, <3>4, <4>1, BindSetCases
    <3>. QED  BY <3>1, <3>2, <3>3, <3>4 DEF DropInv, BindStops
  <2>. QED  BY <2>1, <2>2
<1>. QED  BY <1>1, <1>2 DEF DropInv, BindStops, DroppedStopped

-----------------------------------------------------------------------------
(* A drain: errors, and the end of the connection. *)

\* A connection that nothing but a drain happens to.
OnlyDrained == Events \subseteq {"drain"} /\ Kinds \cap {"saslbind", "starttls"} = {}

\* It is cut by its own reader, after the queue is closed...
Calm == (Cut => rpc \in {"close"} \cup Down) /\ idle # "closing"

\* ... and until then no execution ends the connection.
ErrorExcused(e) ==
    out[e] = "err" =>
        /\ pc[e] = "return" => Cut
        /\ pc[e] = "run" /\ at[e] \notin {"post", "canceled"} => at[e] \in {"finish", "complete"} /\ Cut
        /\ pc[e] = "run" /\ at[e] = "post" => Cut \/ op[exec[e]].stop # "running"
\* An error of runConnectionOperation, and where it comes from.
ErrorsExcused == \A e \in Executors : ErrorExcused(e)

\* The part about errors and the end of the connection.
CalmInv == Calm /\ ErrorsExcused

\* An execution that returns now has just been completed.
LEMMA ReturnCases ==
    ASSUME BaseInv, [Next]_vars, NEW f \in Executors, pc'[f] = "return"
    PROVE  (pc[f] = "return" /\ out'[f] = out[f]) \/ CompleteOperation(f)
<1>0. /\ QueueInv /\ Typed /\ ReaderControl
      /\ out \in [Executors -> {"ok", "err"}] /\ pc \in [Executors -> WorkerStates \cup ReaderStates]
  BY DEF BaseInv, Typed, ExecTypes, QueueInv, QueueTypeOK
<1>1. ASSUME NEW w \in Workers, PopOperation(w)
      PROVE  pc[f] = "return" /\ out'[f] = out[f]
  <2>1. f # w /\ pc'[f] = pc[f]
    BY <1>0, <1>1, PopEffect DEF PopOperation
  <2>. QED  BY <1>0, <1>1, <2>1 DEF PopOperation
<1>2. ASSUME NEW w \in Workers, PopNothing(w)
      PROVE  pc[f] = "return" /\ out'[f] = out[f]
  <2>1. w \in Executors
    BY <1>0, NotRunningElsewhere
  <2>. QED  BY <1>0, <1>2, <2>1, MoveEffect DEF PopNothing, execVars
<1>3. ASSUME NEW e \in Executors, HandlerStep(e)
      PROVE  pc[f] = "return" /\ out'[f] = out[f]
  BY <1>0, <1>3, HandlerStepIsLocal, UnchangedQueue DEF LocalTo, Typed
<1>4. ASSUME NEW e \in Executors, CompleteOperation(e), f # e
      PROVE  pc[f] = "return" /\ out'[f] = out[f]
  <2>1. PICK q \in CompleteWakes : pc' = [q EXCEPT ![e] = "return"]
    BY <1>4 DEF CompleteOperation, Complete
  <2>2. q = pc \/ q = Broadcast
    BY <2>1 DEF CompleteWakes
  <2>3. pc'[f] = q[f]
    BY <1>0, <1>4, <2>1, <2>2 DEF Broadcast, WakeUp
  <2>4. pc[f] = "return"
    BY <1>0, <2>2, <2>3 DEF Broadcast, WakeUp
  <2>. QED  BY <1>4, <2>4 DEF CompleteOperation
<1>5. ASSUME NEW e \in Executors, ReturnTrue(e) \/ ReturnFalse(e)
      PROVE  pc[f] = "return" /\ out'[f] = out[f]
  BY <1>0, <1>5, MoveEffect DEF ReturnTrue, ReturnFalse, execVars
<1>6. ASSUME NEW o \in Ops, NEW k, Admit(o, k)
      PROVE  pc[f] = "return" /\ out'[f] = out[f]
  <2>1. pc' \in Signalled /\ UNCHANGED out
    BY <1>6 DEF Admit, Push, PushWakes, execVars
  <2>. QED  BY <1>0, <2>1, WakeEffect
<1>7. ASSUME NEW o \in Ops, NEW k, TurnAway(o, k)
      PROVE  pc[f] = "return" /\ out'[f] = out[f]
  BY <1>0, <1>7 DEF TurnAway, Refuse, execVars
<1>8. ASSUME ClaimBind, rop \in Ops
      PROVE  pc[f] = "return" /\ out'[f] = out[f]
  <2>1. f # Reader /\ pc'[f] = pc[f]
    BY <1>0, <1>8, ClaimBindEffect
  <2>. QED  BY <1>0, <1>8, <2>1 DEF ClaimBind
<1>9. ASSUME NEW t \in Ops, AbandonQueued(t)
      PROVE  pc[f] = "return" /\ out'[f] = out[f]
  <2>1. (pc' \in Signalled \/ pc' = pc) /\ UNCHANGED out
    BY <1>9 DEF AbandonQueued, RemoveQueued, execVars
  <2>. QED  BY <1>0, <2>1, WakeEffect
<1>10. ASSUME BindDiscards
      PROVE  pc[f] = "return" /\ out'[f] = out[f]
  <2>1. (pc' = Broadcast \/ pc' = pc) /\ UNCHANGED out
    BY <1>10 DEF BindDiscards, DiscardPending, execVars
  <2>. QED  BY <1>0, <2>1, WakeEffect
<1>11. ASSUME DrainClose \/ CloseQueue
      PROVE  pc[f] = "return" /\ out'[f] = out[f]
  BY <1>0, <1>11, CloseEffect DEF DrainClose, CloseQueue, LeaveStep, execVars
<1>12. ASSUME Elsewhere
      PROVE  pc[f] = "return" /\ out'[f] = out[f]
  BY <1>12, ElsewhereFrame, UnchangedQueue DEF execVars
<1>. QED  BY <1>0, <1>1, <1>2, <1>3, <1>4, <1>5, <1>6, <1>7, <1>8, <1>9, <1>10, <1>11, <1>12, StepCases

\* A handler that fails has found its request stopped or the connection cut.
LEMMA HandlerErrors ==
    ASSUME ConnectionInv, OnlyDrained, NEW e \in Executors, HandlerStep(e), ErrorExcused(e)
    PROVE  ErrorExcused(e)'
<1>0. /\ BaseInv /\ RegistryInv /\ DownIsDone /\ QueueInv /\ Typed /\ LifeTypes /\ KindInv
      /\ pc[e] = "run" /\ exec[e] \in Ops /\ UNCHANGED <<pc, exec, connDone, connClosed>>
      /\ at \in [Executors -> ExecutorSteps] /\ out \in [Executors -> {"ok", "err"}]
  BY HandlerStepIsLocal, UnchangedQueue
     DEF ConnectionInv, SessionBase, AnswerInv, BaseInv, Typed, ExecTypes, LocalTo, endVars
<1>. DEFINE o == exec[e]
<1>1. op'[o].stop = op[o].stop
  BY <1>0, HandlerKeepsStop
<1>2. Boundary(o, e) /\ StepKind(e) /\ Shape(o)
  BY <1>0, NotRunningElsewhere DEF ConnectionInv, AnswerInv, RequestInv, Executed, SessionBase, SessionInv, KindAtStep
<1>3. SUFFICES ASSUME out'[e] = "err"
               PROVE  /\ at'[e] \notin {"post", "canceled"} => at'[e] \in {"finish", "complete"} /\ Cut
                      /\ at'[e] = "post" => Cut \/ op[o].stop # "running"
  BY <1>0, <1>1 DEF ErrorExcused, Cut
<1>4. CASE out[e] = "err"
  <2>1. at[e] \in {"post", "canceled"} \/ (at[e] \in {"finish", "complete"} /\ Cut)
    BY <1>0, <1>4 DEF ErrorExcused
  <2>2. Post(e) \/ WriteCanceled(e) \/ Finish(e)
    BY <2>1 DEF HandlerStep, CloneState, Acquire, Start, DispatchReject, DispatchRead, DispatchMeta,
       MetaEntry, MetaDone, DispatchPersist, PersistStops, PersistOverflows, DispatchWrite, CommitPoint,
       CommitWrite, DispatchProxyWrite, SendRemote, AwaitRemote, DispatchFails, DispatchBind, DispatchStartTLS, Handshake,
       DispatchTransaction, Respond, WriteFinal, ResponseLimit, At, S
  <2>3. CASE Post(e)
    <3>1. at[e] = "post" => Cut \/ op[o].stop # "running"
      BY <1>0, <1>4 DEF ErrorExcused
    <3>. QED  BY <1>0, <1>3, <2>3, <3>1, PostCases DEF Goto, S
  <2>4. CASE WriteCanceled(e)
    BY <1>0, <1>3, <2>4 DEF WriteCanceled, Goto, Cut
  <2>5. CASE Finish(e)
    BY <1>0, <2>1, <2>5 DEF Finish, Goto, S
  <2>. QED  BY <2>2, <2>3, <2>4, <2>5
<1>5. CASE out[e] # "err" /\ (DispatchRead(e) \/ PersistStops(e))
  <2>1. at'[e] = "post" /\ ContextDone(o) /\ at[e] \in {"dispatch", "persist"}
    BY <1>0, <1>3, <1>5 DEF DispatchRead, PersistStops, Goto, Returns, At, S
  <2>2. CASE connDone
    BY <2>1, <2>2 DEF Cut
  <2>3. CASE op[o].phase = "complete"
    BY <1>0, <2>1, <2>3, FinishedEarly DEF Cut
  <2>4. op[o].metaCompletes => FALSE
    BY <1>2, <2>1 DEF Boundary, Shape, Over
  <2>. QED  BY <1>2, <2>1, <2>2, <2>3, <2>4 DEF ContextDone, Boundary, ContextInv
<1>6. CASE out[e] # "err" /\ (Respond(e) \/ WriteFinal(e))
  BY <1>0, <1>3, <1>6 DEF Respond, WriteFinal, Goto, Returns, ResponseAllowed, Cut
<1>7. CASE Handshake(e)
  <2>1. kind[o] = "starttls" /\ kind[o] \in Kinds
    BY <1>0, <1>2, <1>7, NotRunningElsewhere DEF Handshake, S, StepKind, KindInv
  <2>. QED  BY <2>1 DEF OnlyDrained
<1>8. CASE out[e] # "err" /\ WriteCanceled(e)
  BY <1>0, <1>3, <1>8 DEF WriteCanceled, Goto, Cut
<1>9. CASE out[e] # "err" /\ Post(e)
  BY <1>0, <1>3, <1>9, PostCases
<1>10. CASE out[e] # "err" /\ UNCHANGED out
  BY <1>3, <1>10
<1>. QED
  BY <1>4, <1>5, <1>6, <1>7, <1>8, <1>9, <1>10
     DEF HandlerStep, CloneState, Acquire, Start, DispatchReject, DispatchMeta,
       MetaEntry, MetaDone, DispatchPersist, PersistOverflows, DispatchWrite, CommitPoint,
       CommitWrite, DispatchProxyWrite, SendRemote, AwaitRemote, DispatchFails, DispatchBind, DispatchStartTLS,
       DispatchTransaction, ResponseLimit, Finish, execVars

\* Every step keeps errors excused.
LEMMA ErrorStep ==
    ASSUME ConnectionInv, OnlyDrained, ErrorsExcused, [Next]_vars
    PROVE  ErrorsExcused'
<1>0. BaseInv /\ QueueInv
  BY DEF ConnectionInv, SessionBase, BaseInv
<1>c. Cut => Cut'
  BY <1>0, FlagsLast DEF Cut
<1>. SUFFICES ASSUME NEW f \in Executors, out'[f] = "err" PROVE ErrorExcused(f)'
  BY DEF ErrorsExcused, ErrorExcused
<1>1. CASE pc'[f] = "return"
  <2>1. Cut
    BY <1>0, <1>1, ReturnCases DEF ErrorsExcused, ErrorExcused, CompleteOperation, Complete
  <2>. QED  BY <1>1, <1>c, <2>1 DEF ErrorExcused
<1>2. CASE pc'[f] = "run"
  <2>1. CASE HandlerStep(f)
    BY <2>1, HandlerErrors DEF ErrorsExcused
  <2>2. CASE ~HandlerStep(f)
    <3>1. pc[f] = "run" /\ exec'[f] = exec[f] /\ at'[f] = at[f] /\ out'[f] = out[f]
      BY <1>0, <1>2, <2>2, ExecutorCases
    <3>2. exec[f] \in Ops /\ status[exec[f]] # "new"
      BY <1>0, <3>1, NotRunningElsewhere
    <3>3. op[exec[f]].stop # "running" => op'[exec[f]].stop # "running"
      BY <3>2, StopLasts
    <3>4. ErrorExcused(f)
      BY DEF ErrorsExcused
    <3>. QED  BY <1>2, <1>c, <3>1, <3>3, <3>4 DEF ErrorExcused
  <2>. QED  BY <2>1, <2>2
<1>. QED  BY <1>1, <1>2 DEF ErrorExcused

\* Every step keeps the connection uncut until its reader has left without draining or
\* the drain has ended.
LEMMA CalmStep ==
    ASSUME ConnectionInv, OnlyDrained, CalmInv, [Next]_vars
    PROVE  Calm'
<1>0. BaseInv /\ QueueInv /\ ReaderControl /\ Typed /\ Calm /\ out \in [Executors -> {"ok", "err"}]
  BY DEF ConnectionInv, SessionBase, BaseInv, Typed, ExecTypes, CalmInv
<1>n. "lost" \notin Events /\ "idle" \notin Events /\ "force" \notin Events
  BY DEF OnlyDrained
<1>1. ASSUME Cut PROVE rpc' \in {"close"} \cup Down
  <2>1. rpc \in {"close"} \cup Down /\ rpc \in Leaving
    BY <1>0, <1>1 DEF Calm, Down, Leaving
  <2>2. CASE rpc \in Down
    BY <1>0, <2>2, DownLasts
  <2>3. CASE rpc = "close"
    <3>1. CASE Elsewhere
      BY <2>3, <3>1 DEF Elsewhere, ReaderMove, StopRequest, TakeDown, ReadEnds, ReadNext,
       CancelTargetDone, WaitInterrupted, BarrierDone, ReadBind, AbandonTracked, CancelTracked,
       AbandonForBind, DrainSweep, DrainEnds, CancelConnection, ShutdownOperations, HangUp, LeaveStep,
       ServerEvent, ConnectionLost, IdleCheck, IdleClose, BeginDrain, SweepLongLived,
       ForceOperations, RemoteDecides, vars, readerVars, R
    <3>2. CASE CloseQueue
      BY <3>2 DEF CloseQueue, LeaveStep, Down
    <3>3. ~DrainClose /\ ~BindDiscards
      BY <2>3 DEF DrainClose, LeaveStep, BindDiscards, R
    <3>. QED  BY <1>0, <2>1, <2>3, <3>1, <3>2, <3>3, RpcCases
  <2>. QED  BY <2>1, <2>2, <2>3
<1>. DEFINE Goal == idle' # "closing" /\ (Cut' => Cut \/ rpc' \in {"close"} \cup Down)
<1>f. ASSUME UNCHANGED <<connDone, connClosed, idle>> PROVE Goal
  <2>1. Cut' <=> Cut
    BY <1>f DEF Cut
  <2>2. idle' # "closing"
    BY <1>0, <1>f DEF Calm
  <2>. QED  BY <2>1, <2>2, Zenon
<1>e. UNCHANGED endVars => UNCHANGED <<connDone, connClosed, idle>>
  BY DEF endVars
<1>2. ASSUME NEW w, PopOperation(w) \/ PopNothing(w) \/ CompleteOperation(w) \/ ReturnTrue(w)
      PROVE  Goal
  BY <1>0, <1>2 DEF PopOperation, PopNothing, CompleteOperation, ReturnTrue, Calm, Cut, endVars
<1>3. ASSUME NEW e \in Executors, HandlerStep(e) PROVE Goal
  <2>1. UNCHANGED endVars
    BY <1>0, <1>3, HandlerStepIsLocal DEF LocalTo, Typed
  <2>. QED  BY <1>0, <2>1 DEF Calm, Cut, endVars
<1>4. ASSUME NEW e \in Executors, ReturnFalse(e) PROVE Goal
  <2>1. pc[e] = "return" /\ (connDone \/ out[e] # "ok") /\ UNCHANGED <<connDone, idle>>
    BY <1>4 DEF ReturnFalse, GiveUp
  <2>2. out[e] # "ok" => out[e] = "err"
    BY <1>0
  <2>3. Cut
    BY <2>1, <2>2 DEF CalmInv, ErrorsExcused, ErrorExcused, Cut
  <2>. QED  BY <1>0, <2>1, <2>3 DEF Calm
<1>5. ASSUME NEW o, NEW k, Admit(o, k) \/ TurnAway(o, k) \/ ClaimBind \/ AbandonQueued(o) \/ BindDiscards
      PROVE  Goal
  BY <1>0, <1>5 DEF Admit, TurnAway, ClaimBind, AbandonQueued, BindDiscards, Calm, Cut, endVars
<1>6. ASSUME DrainClose \/ CloseQueue PROVE Goal
  <2>1. UNCHANGED <<connDone, connClosed>> /\ (idle' = idle \/ idle' = "done")
    BY <1>6 DEF DrainClose, CloseQueue
  <2>2. Cut' <=> Cut
    BY <2>1 DEF Cut
  <2>3. idle' # "closing"
    BY <1>0, <2>1 DEF Calm
  <2>. QED  BY <2>2, <2>3, Zenon
<1>7. ASSUME Elsewhere PROVE Goal
  <2>1. CASE UNCHANGED endVars
    BY <1>e, <1>f, <2>1
  <2>2. CASE TakeDown
    <3>1. \/ UNCHANGED <<connDone, connClosed, idle>>
          \/ rpc' \in {"close", "gone"} /\ (idle' = idle \/ idle' = "done")
      BY <2>2 DEF TakeDown, DrainSweep, DrainEnds, CancelConnection, ShutdownOperations, HangUp, LeaveStep
    <3>2. CASE rpc' \in {"close", "gone"} /\ (idle' = idle \/ idle' = "done")
      <4>1. rpc' \in {"close"} \cup Down /\ idle' # "closing"
        BY <1>0, <3>2 DEF Calm, Down
      <4>. QED  BY <4>1, Zenon
    <3>. QED  BY <1>f, <3>1, <3>2
  <2>3. CASE ServerEvent
    <3>1. UNCHANGED <<connDone, connClosed, idle>>
      BY <1>0, <1>n, <2>3 DEF ServerEvent, ConnectionLost, IdleCheck, IdleClose, BeginDrain, SweepLongLived,
         ForceOperations, RemoteDecides, endVars, Calm
    <3>. QED  BY <1>f, <3>1
  <2>. QED  BY <1>7, <2>1, <2>2, <2>3 DEF Elsewhere, ReaderMove, StopRequest, ReadEnds, ReadNext,
       CancelTargetDone, WaitInterrupted, BarrierDone, ReadBind, AbandonTracked, CancelTracked,
       AbandonForBind, vars
<1>8. Goal
  BY <1>0, <1>2, <1>3, <1>4, <1>5, <1>6, <1>7, StepCases
<1>. QED  BY <1>1, <1>8 DEF Calm

\* The inductive invariant of a connection that is only drained.
DrainInv == ConnectionInv /\ CloseInv /\ DropInv /\ CalmInv

\* In it, a drain that is complete has answered everything.
LEMMA DrainInvAnswers ==
    ASSUME DrainInv, OnlyDrained
    PROVE  DrainAnswersEverything
<1>0. /\ ConnectionInv /\ ClosedReader /\ ExitReason /\ DrainClosed /\ DroppedStopped /\ Calm
      /\ QueueInv /\ RunningExecuted
  BY DEF DrainInv, CloseInv, DropInv, CalmInv, ConnectionInv, SessionBase, BaseInv
<1>. SUFFICES ASSUME rpc = "drained", WorkersGone, NEW o \in Ops,
                     status[o] \in {"queued", "running", "done", "dropped"}, op[o].stop = "running"
              PROVE  sent[o] = <<"result">>
  BY DEF DrainAnswersEverything
<1>1. ~Cut /\ rpc \notin Down
  BY <1>0 DEF Calm, Down
<1>2. closed /\ drain
  BY <1>0 DEF DrainClosed
<1>3. items = <<>>
  <2>1. PICK w \in Workers : TRUE
    BY WorkersAssumption
  <2>2. pc[w] = "exit"
    BY DEF WorkersGone
  <2>. QED  BY <1>0, <1>1, <1>2, <2>2 DEF ExitReason
<1>4. status[o] # "queued"
  <2>1. o \notin ToSet(items)
    BY <1>3 DEF ToSet
  <2>. QED  BY <1>0, <2>1, QueuedAreItems
<1>5. status[o] # "running"
  <2>1. pc[Reader] = "closed" /\ \A e \in Executors : e = Reader \/ e \in Workers
    BY <1>0, <1>2 DEF ClosedReader, Executors
  <2>2. \A e \in Executors : pc[e] # "run"
    BY <2>1 DEF WorkersGone
  <2>3. \A e \in Executors : exec[e] # o
    BY <1>0, <2>2, NotRunningElsewhere, OpsAssumption
  <2>. QED  BY <1>0, <2>3 DEF RunningExecuted
<1>6. status[o] # "dropped"
  BY <1>0, <1>1 DEF DroppedStopped
<1>7. Finished(o) /\ "saslbind" \notin Kinds
  BY <1>0, <1>4, <1>5, <1>6 DEF ConnectionInv, AnswerInv, RequestInv, OnlyDrained
<1>8. Sound(o) /\ sent[o] # <<>>
  BY <1>1, <1>7 DEF Finished
<1>. QED  BY <1>8 DEF Sound

\* DrainAnswersEverything: when serveConnection left its loop because of the drain
\* and the workers are gone, every request that nobody stopped was executed and
\* answered, for any number of requests and workers.  The hypothesis excludes what
\* ends a connection in another way: a lost peer, the idle watcher, the forced end of
\* the drain, and a handshake that fails.
THEOREM DrainedConnectionsAreAnswered ==
    OnlyDrained => (Spec => []DrainAnswersEverything)
<1>. SUFFICES ASSUME OnlyDrained PROVE Spec => []DrainAnswersEverything
  OBVIOUS
<1>1. Init => DrainInv
  <2>. SUFFICES ASSUME Init PROVE DrainInv
    OBVIOUS
  <2>1. ConnectionInv
    BY InitSession, InitAnswer DEF ConnectionInv
  <2>2. /\ rpc = "loop" /\ connDone = FALSE /\ connClosed = FALSE /\ idle = "watching"
        /\ out = [e \in Executors |-> "ok"] /\ status = [o \in Ops |-> "new"]
        /\ closed = FALSE /\ pc = [e \in Executors |-> IF e = Reader THEN "read" ELSE "pop"]
    BY DEF Init, QueueInit
  <2>3. Reader \in Executors /\ \A w \in Workers : w \in Executors /\ w # Reader
    BY WorkersAssumption DEF Executors
  <2>4. CloseInv
    BY <2>2, <2>3 DEF CloseInv, ClosedReader, ExitReason, DrainClosed
  <2>5. DropInv
    BY <2>2 DEF DropInv, BindStops, DroppedStopped
  <2>6. CalmInv
    BY <2>2 DEF CalmInv, Calm, ErrorsExcused, ErrorExcused, Cut
  <2>. QED  BY <2>1, <2>4, <2>5, <2>6 DEF DrainInv
<1>2. DrainInv /\ [Next]_vars => DrainInv'
  <2>. SUFFICES ASSUME DrainInv, [Next]_vars PROVE DrainInv'
    OBVIOUS
  <2>0. BaseInv /\ ConnectionInv /\ CloseInv /\ DropInv /\ CalmInv /\ SessionBase /\ AnswerInv /\ ErrorsExcused
    BY DEF DrainInv, ConnectionInv, SessionBase, CalmInv
  <2>1. ConnectionInv'
    BY <2>0, SessionBaseStep, AnswerStep DEF ConnectionInv
  <2>2. CloseInv'
    BY <2>0, CloseStep
  <2>3. DropInv'
    BY <2>0, DropStep
  <2>4. CalmInv'
    BY <2>0, CalmStep, ErrorStep DEF CalmInv
  <2>. QED  BY <2>1, <2>2, <2>3, <2>4 DEF DrainInv
<1>3. DrainInv => DrainAnswersEverything
  BY DrainInvAnswers
<1>. QED  BY <1>1, <1>2, <1>3, PTL DEF Spec

=============================================================================
