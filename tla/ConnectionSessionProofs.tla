---------------------- MODULE ConnectionSessionProofs -----------------------
(***************************************************************************)
(* Proofs about Connection, second part: requests keep the session they were *)
(* read in, and nothing passes a SASL Bind in progress.                    *)
(*                                                                         *)
(* The argument is that a Bind or StartTLS is alone.  The reader waits for it *)
(* (BarrierLive), so nothing is queued behind it (BarrierLast); the queue  *)
(* starts a fence only when nothing else runs (BarrierAlone); and the session *)
(* changes nowhere but in such a request (SessionChange).                  *)
(***************************************************************************)
EXTENDS ConnectionProofs

-----------------------------------------------------------------------------
(* What a request asks for. *)

\* Admission decides about a request once and for all.
LEMMA AdmittedOnce ==
    ASSUME BaseInv, [Next]_vars, NEW p \in Ops
    PROVE  \/ /\ status[p] # "new" /\ status'[p] # "new"
              /\ kind'[p] = kind[p] /\ conc'[p] = conc[p] /\ readIn'[p] = readIn[p]
           \/ status[p] = "new" /\ status'[p] = "new"
           \/ /\ status[p] = "new" /\ status'[p] # "new"
              /\ \/ \E k : InHand(p, k) /\ (Admit(p, k) \/ TurnAway(p, k))
                 \/ ClaimBind /\ p = rop
<1>0. QueueInv /\ Typed /\ ReaderControl /\ kind \in [Ops -> AllKinds \cup {"none"}]
      /\ readIn \in [Ops -> Nat]
  BY DEF BaseInv, Typed, ReaderTypes
<1>f. ASSUME UNCHANGED <<kind, conc, readIn>>,
             status'[p] = status[p] \/ (status[p] # "new" /\ status'[p] # "new")
      PROVE  \/ /\ status[p] # "new" /\ status'[p] # "new"
                /\ kind'[p] = kind[p] /\ conc'[p] = conc[p] /\ readIn'[p] = readIn[p]
             \/ status[p] = "new" /\ status'[p] = "new"
  BY <1>f
<1>1. ASSUME NEW w \in Workers, PopOperation(w)
      PROVE  UNCHANGED <<kind, conc, readIn>> /\
             (status'[p] = status[p] \/ (status[p] # "new" /\ status'[p] # "new"))
  <2>1. UNCHANGED <<kind, conc, readIn>>
    BY <1>0, <1>1, PopEffect DEF PopOperation, readerVars
  <2>2. /\ status[Head(items)] = "queued" /\ status'[Head(items)] = "running"
        /\ p # Head(items) => status'[p] = status[p]
    BY <1>0, <1>1, PopEffect DEF PopOperation
  <2>. QED  BY <2>1, <2>2
<1>2. ASSUME NEW w \in Workers, PopNothing(w)
      PROVE  UNCHANGED <<kind, conc, readIn, status>>
  BY <1>0, <1>2, MoveEffect, NotRunningElsewhere DEF PopNothing, readerVars
<1>3. ASSUME NEW e \in Executors, HandlerStep(e)
      PROVE  UNCHANGED <<kind, conc, readIn, status>>
  BY <1>0, <1>3, HandlerStepIsLocal, UnchangedQueue DEF LocalTo, Typed, readerVars
<1>4. ASSUME NEW e \in Executors, CompleteOperation(e)
      PROVE  UNCHANGED <<kind, conc, readIn>> /\
             (status'[p] = status[p] \/ (status[p] # "new" /\ status'[p] # "new"))
  <2>1. UNCHANGED <<kind, conc, readIn>>
    BY <1>0, <1>4, CompleteEffect DEF CompleteOperation
  <2>2. /\ status[exec[e]] = "running" /\ status'[exec[e]] = "done"
        /\ p # exec[e] => status'[p] = status[p]
    BY <1>0, <1>4, CompleteEffect DEF CompleteOperation
  <2>. QED  BY <2>1, <2>2
<1>5. ASSUME NEW e \in Executors, ReturnTrue(e) \/ ReturnFalse(e)
      PROVE  UNCHANGED <<kind, conc, readIn, status>>
  BY <1>0, <1>5, MoveEffect DEF ReturnTrue, ReturnFalse
<1>6. ASSUME NEW o \in Ops, NEW k, InHand(o, k), Admit(o, k) \/ TurnAway(o, k)
      PROVE  /\ p # o => status'[p] = status[p] /\ kind'[p] = kind[p] /\ conc'[p] = conc[p]
                         /\ readIn'[p] = readIn[p]
             /\ status[o] = "new" /\ status'[o] # "new"
  <2>1. CASE Admit(o, k)
    <3>1. PICK c \in BOOLEAN : Push(o, c)
      BY <2>1 DEF Admit, CanRunConcurrent
    <3>2. p # o => kind'[p] = kind[p] /\ readIn'[p] = readIn[p]
      BY <1>0, <2>1 DEF Admit
    <3>. QED  BY <1>0, <3>1, <3>2, PushEffect
  <2>2. CASE TurnAway(o, k)
    <3>1. PICK c \in BOOLEAN : Refuse(o, c)
      BY <2>2 DEF TurnAway, CanRunConcurrent
    <3>2. p # o => kind'[p] = kind[p] /\ readIn'[p] = readIn[p]
      BY <1>0, <2>2 DEF TurnAway
    <3>. QED  BY <1>0, <3>1, <3>2, RefuseEffect
  <2>. QED  BY <1>6, <2>1, <2>2
<1>7. ASSUME ClaimBind, rop \in Ops
      PROVE  /\ p # rop => status'[p] = status[p] /\ kind'[p] = kind[p] /\ conc'[p] = conc[p]
                         /\ readIn'[p] = readIn[p]
             /\ status[rop] = "new" /\ status'[rop] # "new"
  BY <1>0, <1>7, ClaimBindEffect DEF ClaimBind
<1>8. ASSUME NEW t \in Ops, AbandonQueued(t)
      PROVE  UNCHANGED <<kind, conc, readIn>> /\
             (status'[p] = status[p] \/ (status[p] # "new" /\ status'[p] # "new"))
  <2>1. UNCHANGED <<kind, conc, readIn>>
    BY <1>0, <1>8, RemoveEffect DEF AbandonQueued
  <2>2. /\ status[t] = "queued" /\ status'[t] = "dropped"
        /\ p # t => status'[p] = status[p]
    BY <1>0, <1>8, RemoveEffect DEF AbandonQueued
  <2>. QED  BY <2>1, <2>2
<1>9. ASSUME BindDiscards \/ DrainClose \/ CloseQueue
      PROVE  UNCHANGED <<kind, conc, readIn>> /\
             (status'[p] = status[p] \/ (status[p] # "new" /\ status'[p] # "new"))
  <2>1. UNCHANGED <<kind, readIn>>
    BY <1>9 DEF BindDiscards, DrainClose, CloseQueue, LeaveStep
  <2>2. DropsQueued \/ UNCHANGED <<status, items, conc>>
    BY <1>0, <1>9, DiscardEffect, CloseEffect DEF BindDiscards, DrainClose, CloseQueue
  <2>. QED  BY <2>1, <2>2 DEF DropsQueued
<1>10. CASE Elsewhere
  <2>1. UNCHANGED <<status, conc, readIn>>
    BY <1>10, ElsewhereFrame, UnchangedQueue
  <2>2. ASSUME NEW o \in Ops, NEW k \in Kinds, ReadBind(o, k)
        PROVE  status[o] = "new" /\ (p # o => kind'[p] = kind[p])
    BY <1>0, <2>2 DEF ReadBind
  <2>3. UNCHANGED kind \/ \E o \in Ops, k \in Kinds : ReadBind(o, k)
    <3>1. CASE ReaderMove
      BY <3>1 DEF ReaderMove, ReadEnds, ReadNext, CancelTargetDone, WaitInterrupted, BarrierDone
    <3>2. CASE StopRequest
      BY <3>2 DEF StopRequest, AbandonTracked, CancelTracked, AbandonForBind
    <3>3. CASE TakeDown
      BY <3>3 DEF TakeDown, DrainSweep, DrainEnds, CancelConnection, ShutdownOperations, HangUp,
              LeaveStep
    <3>4. CASE ServerEvent
      BY <3>4 DEF ServerEvent, ConnectionLost, IdleCheck, IdleClose, BeginDrain,
              SweepLongLived, ForceOperations, RemoteDecides, readerVars
    <3>5. CASE UNCHANGED vars
      BY <3>5 DEF vars, readerVars
    <3>. QED  BY <1>10, <3>1, <3>2, <3>3, <3>4, <3>5 DEF Elsewhere
  <2>. QED  BY <2>1, <2>2, <2>3
<1>11. CASE \E o \in Ops : \E k : InHand(o, k) /\ (Admit(o, k) \/ TurnAway(o, k))
  <2>1. PICK o \in Ops : \E k : InHand(o, k) /\ (Admit(o, k) \/ TurnAway(o, k))
    BY <1>11
  <2>2. PICK k : InHand(o, k) /\ (Admit(o, k) \/ TurnAway(o, k))
    BY <2>1
  <2>. QED  BY <2>2, <1>6
<1>12. CASE ClaimBind /\ rop \in Ops
  BY <1>12, <1>7
<1>. QED
  BY <1>0, <1>f, <1>1, <1>2, <1>3, <1>4, <1>5, <1>8, <1>9, <1>10, <1>11, <1>12, StepCases

\* A request has a kind once the reader has it in hand, and keeps it.
KindInv ==
    /\ \A o \in Ops : status[o] # "new" =>
          kind[o] \in Kinds /\ (conc[o] => kind[o] \in Searches \cup {"whoami"})
    /\ rpc \in {"bind", "admit"} /\ rop \in Ops => kind[rop] \in Kinds \cap Binds

\* The kind of the request that is admitted now.
LEMMA AdmittedKind ==
    ASSUME BaseInv, KindInv, NEW o \in Ops, NEW k, InHand(o, k), Admit(o, k) \/ TurnAway(o, k)
    PROVE  k \in Kinds /\ kind'[o] = k /\ (conc'[o] => k \in Searches \cup {"whoami"})
<1>1. k \in Kinds
  BY DEF InHand, KindInv, R
<1>2. kind'[o] = k
  BY DEF Admit, TurnAway, BaseInv, Typed, ReaderTypes
<1>3. conc'[o] => k \in Searches \cup {"whoami"}
  <2>1. CASE Admit(o, k)
    <3>1. PICK c \in BOOLEAN : Push(o, c) /\ (c => k \in Searches \cup {"whoami"})
      BY <2>1 DEF Admit, CanRunConcurrent
    <3>. QED  BY <3>1, PushEffect DEF BaseInv
  <2>2. CASE TurnAway(o, k)
    <3>1. PICK c \in BOOLEAN : Refuse(o, c) /\ (c => k \in Searches \cup {"whoami"})
      BY <2>2 DEF TurnAway, CanRunConcurrent
    <3>. QED  BY <3>1, RefuseEffect DEF BaseInv
  <2>. QED  BY <2>1, <2>2
<1>. QED  BY <1>1, <1>2, <1>3

-----------------------------------------------------------------------------
(* Barriers: a Bind or StartTLS is the last request the reader has read. *)

\* What the reader has in hand after a step outside the queue and the executors.
LEMMA ElsewhereInHand ==
    ASSUME BaseInv, Elsewhere
    PROVE  \/ UNCHANGED <<kind, rpc, rop, completion>> /\ rset' \subseteq rset
           \/ BarrierDone
           \/ UNCHANGED <<kind, rset>> /\ rpc' \in Leaving
           \/ /\ R("loop") \/ R("reading") \/ R("cancel")
              /\ rpc' \notin {"bind", "admit", "barrier"} /\ UNCHANGED <<kind, rset>>
           \/ \E o \in Ops, k \in Kinds : ReadBind(o, k)
<1>1. CASE ReaderMove
  BY <1>1 DEF ReaderMove, ReadEnds, ReadNext, CancelTargetDone, WaitInterrupted, Leaving
<1>2. CASE StopRequest
  BY <1>2 DEF StopRequest, AbandonTracked, CancelTracked, AbandonForBind
<1>3. CASE TakeDown
  BY <1>3 DEF TakeDown, DrainSweep, DrainEnds, CancelConnection, ShutdownOperations, HangUp,
              LeaveStep, Leaving
<1>4. CASE ServerEvent
  BY <1>4 DEF ServerEvent, ConnectionLost, IdleCheck, IdleClose, BeginDrain,
              SweepLongLived, ForceOperations, RemoteDecides, readerVars
<1>5. CASE UNCHANGED vars
  BY <1>5 DEF vars, readerVars
<1>. QED  BY <1>1, <1>2, <1>3, <1>4, <1>5 DEF Elsewhere

\* Every step keeps that.
LEMMA KindStep ==
    ASSUME BaseInv, KindInv, [Next]_vars
    PROVE  KindInv'
<1>1. ASSUME NEW p \in Ops, status'[p] # "new"
      PROVE  kind'[p] \in Kinds /\ (conc'[p] => kind'[p] \in Searches \cup {"whoami"})
  <2>1. CASE status[p] # "new" /\ kind'[p] = kind[p] /\ conc'[p] = conc[p]
    BY <2>1 DEF KindInv
  <2>2. ASSUME NEW k, InHand(p, k), Admit(p, k) \/ TurnAway(p, k)
        PROVE  kind'[p] \in Kinds /\ (conc'[p] => kind'[p] \in Searches \cup {"whoami"})
    BY <2>2, AdmittedKind
  <2>3. CASE ClaimBind /\ p = rop
    <3>1. kind[rop] \in Kinds /\ kind' = kind /\ rop \in Ops
      BY <2>3 DEF KindInv, ClaimBind, R
    <3>2. conc'[rop] = FALSE
      BY <2>3, <3>1, ClaimBindEffect DEF BaseInv
    <3>. QED  BY <2>3, <3>1, <3>2
  <2>. QED  BY <1>1, <2>1, <2>2, <2>3, AdmittedOnce
<1>2. rpc' \in {"bind", "admit"} /\ rop' \in Ops => kind'[rop'] \in Kinds \cap Binds
  <2>f. ASSUME UNCHANGED <<kind, rop>>, rpc' \in {"bind", "admit"} => rpc \in {"bind", "admit"}
        PROVE  rpc' \in {"bind", "admit"} /\ rop' \in Ops => kind'[rop'] \in Kinds \cap Binds
    BY <2>f DEF KindInv
  <2>1. ASSUME NEW w \in Workers, PopOperation(w) \/ PopNothing(w)
        PROVE  UNCHANGED <<kind, rop, rpc>>
    BY <2>1 DEF PopOperation, PopNothing, readerVars
  <2>2. ASSUME NEW e \in Executors, HandlerStep(e) PROVE UNCHANGED <<kind, rop, rpc>>
    BY <2>2, HandlerStepIsLocal DEF LocalTo, BaseInv, Typed, readerVars
  <2>3. ASSUME NEW e \in Executors, CompleteOperation(e) PROVE UNCHANGED <<kind, rop, rpc>>
    BY <2>3 DEF CompleteOperation
  <2>4. ASSUME NEW e \in Executors, ReturnTrue(e) \/ ReturnFalse(e)
        PROVE  UNCHANGED <<kind, rop>> /\ (rpc' \in {"bind", "admit"} => rpc' = rpc)
    BY <2>4 DEF ReturnTrue, ReturnFalse
  <2>5. ASSUME NEW o \in Ops, NEW k, Admit(o, k) \/ TurnAway(o, k)
        PROVE  rpc' \notin {"bind", "admit"}
    BY <2>5 DEF Admit, TurnAway
  <2>6. ASSUME ClaimBind PROVE rop' \notin Ops
    BY <2>6, OpsAssumption DEF ClaimBind
  <2>7. ASSUME NEW t \in Ops, AbandonQueued(t) PROVE rpc' \notin {"bind", "admit"}
    BY <2>7 DEF AbandonQueued
  <2>8. ASSUME BindDiscards PROVE UNCHANGED <<kind, rop>> /\ rpc \in {"bind", "admit"}
    BY <2>8 DEF BindDiscards, R
  <2>9. ASSUME DrainClose \/ CloseQueue PROVE rpc' \notin {"bind", "admit"}
    BY <2>9 DEF DrainClose, CloseQueue, LeaveStep
  <2>10. CASE Elsewhere
    <3>1. ASSUME NEW o \in Ops, NEW k \in Kinds, ReadBind(o, k)
          PROVE  kind'[rop'] \in Kinds \cap Binds
      BY <3>1 DEF ReadBind, BaseInv, Typed, ReaderTypes
    <3>2. ASSUME BarrierDone \/ rpc' \in Leaving PROVE rpc' \notin {"bind", "admit"}
      BY <3>2 DEF BarrierDone, Leaving
    <3>. QED  BY <2>10, <3>1, <3>2, <2>f, ElsewhereInHand
  <2>. QED
    BY <2>f, <2>1, <2>2, <2>3, <2>4, <2>5, <2>6, <2>7, <2>8, <2>9, <2>10, StepCases DEF BaseInv
<1>. QED  BY <1>1, <1>2 DEF KindInv

\* It holds initially.
LEMMA InitKind == Init => KindInv
BY DEF Init, QueueInit, KindInv

\* The reader waits for a live barrier, or runs it, or reads no more...
BarrierLive ==
    \A o \in Ops : ConnectionReadBarrier(kind[o]) /\ Live(o) =>
        \/ rpc = "barrier" /\ rop = o /\ completion = "none"
        \/ exec[Reader] = o
        \/ rpc \in Leaving

\* ... so that nothing is queued behind it.
BarrierLast ==
    \A o \in Ops : ConnectionReadBarrier(kind[o]) =>
        /\ status[o] = "queued" => items # <<>> /\ items[Len(items)] = o
        /\ status[o] = "running" => items = <<>>

\* When the reader looks at a message no barrier is live.
LEMMA NoLiveBarrier ==
    ASSUME BaseInv, BarrierLive, pc[Reader] \in {"read", "return"},
           rpc \notin {"barrier"} \cup Leaving \/ BarrierDone,
           NEW o \in Ops, ConnectionReadBarrier(kind[o])
    PROVE  ~Live(o)
<1>1. exec[Reader] # o
  BY NotRunningElsewhere, OpsAssumption DEF BaseInv
<1>. QED  BY <1>1 DEF BarrierLive, BarrierDone, R, Leaving

\* Every step keeps the reader behind a live Bind or StartTLS.
LEMMA BarrierLiveStep ==
    ASSUME BaseInv, KindInv, BarrierLive, [Next]_vars
    PROVE  BarrierLive'
<1>. SUFFICES ASSUME NEW p \in Ops, ConnectionReadBarrier(kind'[p]), Live(p)'
              PROVE  \/ rpc' = "barrier" /\ rop' = p /\ completion' = "none"
                     \/ exec'[Reader] = p
                     \/ rpc' \in Leaving
  BY DEF BarrierLive
<1>. DEFINE Goal == \/ rpc' = "barrier" /\ rop' = p /\ completion' = "none"
                    \/ exec'[Reader] = p
                    \/ rpc' \in Leaving
<1>0. QueueInv /\ Typed /\ ReaderControl /\ Reader \in Executors
  BY NotRunningElsewhere DEF BaseInv
<1>b. ASSUME kind'[p] = kind[p], Live(p), UNCHANGED <<rpc, rop, completion>>, exec'[Reader] = exec[Reader]
      PROVE  Goal
  BY <1>b DEF BarrierLive
<1>1. ASSUME NEW w \in Workers, PopOperation(w) PROVE Goal
  <2>1. /\ Head(items) \in Ops /\ status[Head(items)] = "queued" /\ w # Reader
        /\ \A e \in Executors : e # w => exec'[e] = exec[e]
        /\ \A o \in Ops : o # Head(items) => status'[o] = status[o]
    BY <1>0, <1>1, PopEffect DEF PopOperation
  <2>2. UNCHANGED <<kind, rpc, rop, completion>>
    BY <1>1 DEF PopOperation, readerVars
  <2>3. Live(p)
    BY <2>1 DEF Live
  <2>. QED  BY <1>0, <1>b, <2>1, <2>2, <2>3
<1>2. ASSUME NEW w \in Workers, PopNothing(w) PROVE Goal
  <2>1. SameExecutors /\ UNCHANGED <<status, kind, rpc, rop, completion>>
    BY <1>0, <1>2, MoveEffect, NotRunningElsewhere DEF PopNothing, readerVars
  <2>. QED  BY <1>0, <1>b, <2>1 DEF SameExecutors, Live
<1>3. ASSUME NEW e \in Executors, HandlerStep(e) PROVE Goal
  <2>1. UNCHANGED <<exec, status, kind, rpc, rop, completion>>
    BY <1>0, <1>3, HandlerStepIsLocal, UnchangedQueue DEF LocalTo, Typed, readerVars
  <2>. QED  BY <1>b, <2>1 DEF Live
<1>4. ASSUME NEW e \in Executors, CompleteOperation(e) PROVE Goal
  <2>1. /\ exec[e] \in Ops /\ status'[exec[e]] = "done"
        /\ \A f \in Executors : f # e => exec'[f] = exec[f]
        /\ \A o \in Ops : o # exec[e] => status'[o] = status[o]
    BY <1>0, <1>4, CompleteEffect DEF CompleteOperation
  <2>2. UNCHANGED <<kind, rpc, rop>>
        /\ completion' = IF rpc = "barrier" /\ rop = exec[e] THEN out[e] ELSE completion
    BY <1>4 DEF CompleteOperation, Completion
  <2>3. p # exec[e] /\ Live(p) /\ kind'[p] = kind[p]
    BY <2>1, <2>2 DEF Live
  <2>. QED  BY <1>0, <2>1, <2>2, <2>3 DEF BarrierLive
<1>5. ASSUME NEW e \in Executors, ReturnTrue(e) \/ ReturnFalse(e) PROVE Goal
  <2>1. SameExecutors /\ UNCHANGED <<status, kind, rop, completion>>
        /\ pc[e] = "return" /\ (rpc' = rpc \/ e = Reader)
    BY <1>0, <1>5, MoveEffect DEF ReturnTrue, ReturnFalse, Continue, GiveUp
  <2>2. Live(p)
    BY <2>1 DEF Live
  <2>3. e # Reader
    <3>1. SUFFICES ASSUME e = Reader PROVE FALSE
      OBVIOUS
    <3>2. rpc = "admit"
      BY <2>1, <3>1, <1>0 DEF ReaderControl
    <3>. QED  BY <2>1, <2>2, <3>1, <3>2, NoLiveBarrier DEF Leaving
  <2>. QED  BY <1>0, <1>b, <2>1, <2>2, <2>3 DEF SameExecutors
<1>6. ASSUME NEW o \in Ops, NEW k, InHand(o, k), Admit(o, k) PROVE Goal
  <2>1. PICK c \in BOOLEAN : Push(o, c)
    BY <1>6 DEF Admit, CanRunConcurrent
  <2>2. \A q \in Ops : q # o => status'[q] = status[q]
    BY <1>0, <2>1, PushEffect
  <2>3. /\ kind' = [kind EXCEPT ![o] = k] /\ kind \in [Ops -> AllKinds \cup {"none"}]
        /\ ConnectionReadBarrier(k) => rpc' = "barrier" /\ rop' = o /\ completion' = "none"
    BY <1>0, <1>6 DEF Admit, Typed, ReaderTypes
  <2>4. CASE p = o
    BY <2>3, <2>4
  <2>5. CASE p # o
    <3>1. pc[Reader] = "read" /\ rpc \notin {"barrier"} \cup Leaving
      BY <1>6 DEF InHand, R, Leaving
    <3>2. Live(p) /\ ConnectionReadBarrier(kind[p])
      BY <2>2, <2>3, <2>5 DEF Live
    <3>. QED  BY <3>1, <3>2, NoLiveBarrier
  <2>. QED  BY <2>4, <2>5
<1>7. ASSUME NEW o \in Ops, NEW k, TurnAway(o, k) PROVE Goal
  BY <1>7 DEF TurnAway, Leaving
<1>8. ASSUME ClaimBind, rop \in Ops PROVE Goal
  <2>1. /\ exec'[Reader] = rop
        /\ \A q \in Ops : q # rop => status'[q] = status[q]
    BY <1>0, <1>8, ClaimBindEffect
  <2>2. UNCHANGED kind /\ pc[Reader] = "read" /\ rpc \notin {"barrier"} \cup Leaving
    BY <1>8 DEF ClaimBind, R, Leaving
  <2>3. CASE p # rop
    <3>1. Live(p) /\ ConnectionReadBarrier(kind[p])
      BY <2>1, <2>2, <2>3 DEF Live
    <3>. QED  BY <2>2, <3>1, NoLiveBarrier
  <2>. QED  BY <2>1, <2>3
<1>9. ASSUME NEW t \in Ops, AbandonQueued(t) PROVE Goal
  <2>1. /\ status[t] = "queued" /\ \A q \in Ops : q # t => status'[q] = status[q]
    BY <1>0, <1>9, RemoveEffect DEF AbandonQueued
  <2>2. UNCHANGED kind /\ pc[Reader] = "read" /\ rpc \notin {"barrier"} \cup Leaving
    BY <1>9 DEF AbandonQueued, R, Leaving
  <2>3. Live(p) /\ ConnectionReadBarrier(kind[p])
    BY <2>1, <2>2 DEF Live
  <2>. QED  BY <2>2, <2>3, NoLiveBarrier
<1>10. CASE BindDiscards
  <2>1. DropsQueued
    BY <1>0, <1>10, DiscardEffect DEF BindDiscards
  <2>2. UNCHANGED kind /\ pc[Reader] = "read" /\ rpc \notin {"barrier"} \cup Leaving
    BY <1>10 DEF BindDiscards, R, Leaving
  <2>3. Live(p) /\ ConnectionReadBarrier(kind[p])
    BY <2>1, <2>2 DEF Live, DropsQueued
  <2>. QED  BY <2>2, <2>3, NoLiveBarrier
<1>11. CASE DrainClose \/ CloseQueue
  BY <1>11 DEF DrainClose, CloseQueue, LeaveStep, Leaving
<1>12. CASE Elsewhere
  <2>1. UNCHANGED <<status, exec, pc>>
    BY <1>12, ElsewhereFrame, UnchangedQueue
  <2>2. Live(p)
    BY <2>1 DEF Live
  <2>3. status[p] # "new"
    BY <2>2 DEF Live
  <2>4. kind'[p] = kind[p]
    BY <2>1, <2>3, AdmittedOnce
  <2>5. CASE UNCHANGED <<kind, rpc, rop, completion>>
    BY <2>1, <2>2, <2>4, <2>5, <1>b
  <2>6. CASE \/ R("loop") \/ R("reading") \/ R("cancel")
             \/ \E o \in Ops, k \in Kinds : ReadBind(o, k)
    <3>1. pc[Reader] = "read" /\ rpc \notin {"barrier"} \cup Leaving
      BY <2>6 DEF R, Leaving, ReadBind
    <3>. QED  BY <2>2, <2>4, <3>1, NoLiveBarrier
  <2>7. CASE BarrierDone
    <3>1. pc[Reader] = "read"
      BY <2>7 DEF BarrierDone, R
    <3>. QED  BY <2>2, <2>4, <2>7, <3>1, NoLiveBarrier
  <2>. QED  BY <1>12, <2>5, <2>6, <2>7, ElsewhereInHand
<1>. QED
  BY <1>0, <1>1, <1>2, <1>3, <1>4, <1>5, <1>6, <1>7, <1>8, <1>9, <1>10, <1>11, <1>12, StepCases

\* Every step keeps a live Bind or StartTLS the last request of the connection.
LEMMA BarrierLastStep ==
    ASSUME BaseInv, KindInv, BarrierLive, BarrierLast, [Next]_vars
    PROVE  BarrierLast'
<1>. DEFINE Goal(p) == /\ status'[p] = "queued" => items' # <<>> /\ items'[Len(items')] = p
                       /\ status'[p] = "running" => items' = <<>>
<1>. SUFFICES ASSUME NEW p \in Ops, ConnectionReadBarrier(kind'[p]) PROVE Goal(p)
  BY DEF BarrierLast
<1>0. QueueInv /\ Typed /\ ReaderControl /\ Reader \in Executors /\ items \in Seq(Ops)
  BY NotRunningElsewhere DEF BaseInv, QueueInv, QueueTypeOK
<1>f. ASSUME UNCHANGED items, kind'[p] = kind[p], status'[p] \in {status[p], "done", "dropped", "refused"}
      PROVE  Goal(p)
  BY <1>f DEF BarrierLast
<1>n. ASSUME ~Live(p), status'[p] \in {status[p], "done", "dropped", "refused"} PROVE Goal(p)
  BY <1>n DEF Live
<1>1. ASSUME NEW w \in Workers, PopOperation(w) PROVE Goal(p)
  <2>1. /\ Head(items) \in Ops /\ status[Head(items)] = "queued"
        /\ items # <<>> /\ items[1] = Head(items) /\ items' = Tail(items)
        /\ \A o \in Ops : o # Head(items) => status'[o] = status[o]
    BY <1>0, <1>1, PopEffect DEF PopOperation
  <2>2. kind'[p] = kind[p]
    BY <1>1 DEF PopOperation, readerVars
  <2>3. CASE p = Head(items)
    <3>1. items[Len(items)] = p
      BY <2>1, <2>2, <2>3 DEF BarrierLast
    <3>2. Len(items) \in 1..Len(items) /\ 1 \in 1..Len(items)
      BY <1>0, <2>1
    <3>3. Len(items) = 1
      <4>1. \A i, j \in 1..Len(items) : items[i] = items[j] => i = j
        BY <1>0 DEF QueueInv, ItemsConsistent
      <4>2. items[Len(items)] = items[1]
        BY <2>1, <2>3, <3>1
      <4>. QED  BY <3>2, <4>1, <4>2
    <3>4. items' = <<>>
      BY <1>0, <2>1, <3>3
    <3>5. status'[p] = "running"
      BY <1>0, <1>1, <2>3, PopEffect DEF PopOperation
    <3>. QED  BY <3>4, <3>5
  <2>4. CASE p # Head(items)
    <3>1. status'[p] = status[p]
      BY <2>1, <2>4
    <3>2. status[p] = "queued" => Tail(items) # <<>> /\ Tail(items)[Len(Tail(items))] = p
      <4>1. SUFFICES ASSUME status[p] = "queued"
                     PROVE  Tail(items) # <<>> /\ Tail(items)[Len(Tail(items))] = p
        OBVIOUS
      <4>2. items[Len(items)] = p
        BY <2>2, <4>1 DEF BarrierLast
      <4>3. Len(items) > 1
        BY <1>0, <2>1, <2>4, <4>2
      <4>. QED  BY <1>0, <4>2, <4>3
    <3>3. status[p] # "running"
      BY <2>1, <2>2 DEF BarrierLast
    <3>. QED  BY <2>1, <3>1, <3>2, <3>3
  <2>. QED  BY <2>3, <2>4
<1>2. ASSUME NEW w \in Workers, PopNothing(w) PROVE Goal(p)
  <2>1. UNCHANGED <<status, items, kind>>
    BY <1>0, <1>2, MoveEffect, NotRunningElsewhere DEF PopNothing, readerVars
  <2>. QED  BY <2>1, <1>f
<1>3. ASSUME NEW e \in Executors, HandlerStep(e) PROVE Goal(p)
  <2>1. UNCHANGED <<status, items, kind>>
    BY <1>0, <1>3, HandlerStepIsLocal, UnchangedQueue DEF LocalTo, Typed, readerVars
  <2>. QED  BY <2>1, <1>f
<1>4. ASSUME NEW e \in Executors, CompleteOperation(e) PROVE Goal(p)
  <2>1. UNCHANGED <<items, kind>> /\ status'[p] \in {status[p], "done"}
    BY <1>0, <1>4, CompleteEffect DEF CompleteOperation
  <2>. QED  BY <2>1, <1>f
<1>5. ASSUME NEW e \in Executors, ReturnTrue(e) \/ ReturnFalse(e) PROVE Goal(p)
  <2>1. UNCHANGED <<status, items, kind>>
    BY <1>0, <1>5, MoveEffect DEF ReturnTrue, ReturnFalse
  <2>. QED  BY <2>1, <1>f
<1>r. ASSUME pc[Reader] = "read", rpc \in {"reading", "admit", "bind"}, kind'[p] = kind[p]
      PROVE  ~Live(p)
  BY <1>r, NoLiveBarrier DEF Leaving
<1>6. ASSUME NEW o \in Ops, NEW k, InHand(o, k), Admit(o, k) PROVE Goal(p)
  <2>1. PICK c \in BOOLEAN : Push(o, c)
    BY <1>6 DEF Admit, CanRunConcurrent
  <2>2. /\ status'[o] = "queued" /\ items' = Append(items, o)
        /\ \A q \in Ops : q # o => status'[q] = status[q]
    BY <1>0, <2>1, PushEffect
  <2>3. CASE p = o
    BY <1>0, <2>2, <2>3
  <2>4. CASE p # o
    <3>1. kind'[p] = kind[p]
      BY <1>0, <1>6, <2>4 DEF Admit, Typed, ReaderTypes
    <3>. QED  BY <1>6, <1>n, <1>r, <2>2, <2>4, <3>1 DEF InHand, R
  <2>. QED  BY <2>3, <2>4
<1>7. ASSUME NEW o \in Ops, NEW k, InHand(o, k), TurnAway(o, k) PROVE Goal(p)
  <2>1. PICK c \in BOOLEAN : Refuse(o, c)
    BY <1>7 DEF TurnAway, CanRunConcurrent
  <2>2. /\ status'[o] = "refused"
        /\ \A q \in Ops : q # o => status'[q] = status[q]
    BY <1>0, <2>1, RefuseEffect
  <2>3. CASE p = o
    BY <2>2, <2>3
  <2>4. CASE p # o
    <3>1. kind'[p] = kind[p]
      BY <1>0, <1>7, <2>4 DEF TurnAway, Typed, ReaderTypes
    <3>. QED  BY <1>7, <1>n, <1>r, <2>2, <2>4, <3>1 DEF InHand, R
  <2>. QED  BY <2>3, <2>4
<1>8. ASSUME ClaimBind, rop \in Ops PROVE Goal(p)
  <2>1. /\ items' = <<>> /\ status'[rop] = "running"
        /\ \A q \in Ops : q # rop => status'[q] = status[q]
    BY <1>0, <1>8, ClaimBindEffect
  <2>2. UNCHANGED kind /\ pc[Reader] = "read" /\ rpc = "admit"
    BY <1>8 DEF ClaimBind, R
  <2>. QED  BY <2>1, <2>2, <1>r, <1>n
<1>9. ASSUME NEW t \in Ops, AbandonQueued(t) PROVE Goal(p)
  <2>1. status'[p] \in {status[p], "dropped"}
    BY <1>0, <1>9, RemoveEffect DEF AbandonQueued
  <2>2. UNCHANGED kind /\ pc[Reader] = "read" /\ rpc = "reading"
    BY <1>9 DEF AbandonQueued, R
  <2>. QED  BY <2>1, <2>2, <1>r, <1>n
<1>10. CASE BindDiscards \/ CloseQueue
  <2>1. DropsQueued
    BY <1>0, <1>10, DiscardEffect, CloseEffect DEF BindDiscards, CloseQueue
  <2>. QED  BY <2>1 DEF DropsQueued
<1>11. CASE DrainClose
  <2>1. UNCHANGED <<status, items, kind>>
    BY <1>0, <1>11, CloseEffect DEF DrainClose, LeaveStep
  <2>. QED  BY <2>1, <1>f
<1>12. CASE Elsewhere
  <2>1. UNCHANGED <<status, items>>
    BY <1>12, ElsewhereFrame, UnchangedQueue
  <2>2. status[p] = "new" \/ kind'[p] = kind[p]
    BY <2>1, AdmittedOnce
  <2>. QED  BY <2>1, <2>2, <1>f
<1>. QED
  BY <1>0, <1>1, <1>2, <1>3, <1>4, <1>5, <1>6, <1>7, <1>8, <1>9, <1>10, <1>11, <1>12, StepCases

\* abandonForBind never reaches a Bind.
BindSparesBinds == \A t \in rset : status[t] # "new" /\ kind[t] \notin Binds

\* Every step keeps Binds out of the set that abandonForBind stops.
LEMMA BindSparesBindsStep ==
    ASSUME BaseInv, RegistryInv, KindInv, BarrierLive, BindSparesBinds, [Next]_vars
    PROVE  BindSparesBinds'
<1>0. rset \subseteq Ops /\ registry \subseteq Ops
  BY DEF BaseInv, Typed, ReaderTypes, LifeTypes
<1>1. \A t \in Ops : status[t] # "new" => status'[t] # "new" /\ kind'[t] = kind[t]
  BY AdmittedOnce
<1>2. rset' \subseteq rset \/ \E o \in Ops, k \in Kinds : ReadBind(o, k)
  <2>1. ASSUME NEW w \in Workers, PopOperation(w) \/ PopNothing(w) PROVE UNCHANGED rset
    BY <2>1 DEF PopOperation, PopNothing, readerVars
  <2>2. ASSUME NEW e \in Executors, HandlerStep(e) PROVE UNCHANGED rset
    BY <2>2, HandlerStepIsLocal DEF LocalTo, BaseInv, Typed, readerVars
  <2>3. ASSUME NEW e \in Executors, CompleteOperation(e) \/ ReturnTrue(e) \/ ReturnFalse(e)
        PROVE  UNCHANGED rset
    BY <2>3 DEF CompleteOperation, ReturnTrue, ReturnFalse
  <2>4. ASSUME NEW o \in Ops, NEW k, Admit(o, k) \/ TurnAway(o, k) PROVE UNCHANGED rset
    BY <2>4 DEF Admit, TurnAway
  <2>5. ASSUME ClaimBind \/ BindDiscards \/ DrainClose \/ CloseQueue
               \/ \E t \in Ops : AbandonQueued(t)
        PROVE  UNCHANGED rset
    BY <2>5 DEF ClaimBind, BindDiscards, DrainClose, CloseQueue, AbandonQueued, LeaveStep
  <2>6. BarrierDone => UNCHANGED rset
    BY DEF BarrierDone
  <2>. QED  BY <2>1, <2>2, <2>3, <2>4, <2>5, <2>6, ElsewhereInHand, StepCases DEF BaseInv
<1>3. ASSUME NEW o \in Ops, NEW k \in Kinds, ReadBind(o, k) PROVE BindSparesBinds'
  <2>1. rset' = registry /\ pc[Reader] = "read" /\ rpc = "reading"
    BY <1>3 DEF ReadBind, R
  <2>2. ASSUME NEW t \in registry PROVE status[t] # "new" /\ kind[t] \notin Binds
    <3>1. t \in Ops /\ Live(t)
      BY <1>0, <2>1 DEF RegistryInv, RegisteredAreLive, Down
    <3>2. ~ConnectionReadBarrier(kind[t])
      BY <2>1, <3>1, NoLiveBarrier DEF Leaving
    <3>. QED  BY <3>1, <3>2 DEF Live, ConnectionReadBarrier
  <2>. QED  BY <1>0, <1>1, <2>1, <2>2 DEF BindSparesBinds
<1>4. CASE rset' \subseteq rset
  BY <1>0, <1>1, <1>4 DEF BindSparesBinds
<1>. QED  BY <1>2, <1>3, <1>4

-----------------------------------------------------------------------------
(* Sessions. *)

\* The requests that may change the identity or the transport.
ChangesSession(k) == k \in Binds \cup {"starttls"}

\* The steps of the handlers belong to the kinds they handle.
StepKind(e) ==
    LET k == kind[exec[e]] IN
    /\ at[e] \in {"commitpoint", "commit"} => k = "write"
    /\ at[e] \in {"remote", "await"} => k = "proxywrite"
    /\ at[e] = "meta" => k = "metasearch"
    /\ at[e] \in {"limit", "limited"} => k \in Searches
    /\ at[e] = "handshake" => k = "starttls"
    /\ at[e] = "direct" => k \in Binds \/ "saslbind" \in Kinds
\* Every executor is at a step of its request's handler.
KindAtStep == \A e \in Executors : pc[e] = "run" => StepKind(e)

\* A request works in the session it was read in, on a copy made in that session.
ReadInSession ==
    \A o \in Ops : Live(o) /\ ~ChangesSession(kind[o]) => readIn[o] = session
\* The copy of the connection's state is of that session too.
CopiedInSession ==
    \A e \in Executors :
        pc[e] = "run" /\ at[e] # "clone" /\ ~ChangesSession(kind[exec[e]]) => snap[e] = session

\* During a SASL Bind nothing runs on a copy, and dispatch itself answers all but Binds.
SaslInv ==
    sasl => /\ "saslbind" \in Kinds
            /\ \A o \in Ops : Live(o) => ~conc[o]
            /\ \A e \in Executors :
                  Dispatching(e) /\ at[e] # "dispatch" => at[e] = "direct" \/ kind[exec[e]] \in Binds

\* The sessions' part of the inductive invariant.
SessionInv == KindAtStep /\ ReadInSession /\ CopiedInSession /\ SaslInv

\* A barrier that executes is alone: nothing is queued and nobody else executes.
LEMMA BarrierAlone ==
    ASSUME BaseInv, KindInv, BarrierLast, NEW e \in Executors, pc[e] = "run",
           ConnectionReadBarrier(kind[exec[e]])
    PROVE  /\ \A o \in Ops : Live(o) => o = exec[e]
           /\ \A f \in Executors : pc[f] = "run" => f = e
           /\ ~conc[exec[e]]
<1>1. exec[e] \in Ops /\ status[exec[e]] = "running"
  BY NotRunningElsewhere DEF BaseInv
<1>2. ~conc[exec[e]]
  BY <1>1 DEF KindInv, ConnectionReadBarrier, Binds, Searches
<1>3. \A f \in Executors : pc[f] = "run" => f = e
  <2>1. FenceExclusive
    BY DEF BaseInv, QueueInv
  <2>. QED  BY <1>2, <2>1 DEF FenceExclusive, Running
<1>4. items = <<>>
  BY <1>1 DEF BarrierLast
<1>5. ASSUME NEW o \in Ops, Live(o) PROVE o = exec[e]
  <2>1. status[o] # "queued"
    <3>1. ToSet(items) = {}
      BY <1>4 DEF ToSet
    <3>. QED  BY <3>1, QueuedAreItems DEF BaseInv
  <2>2. PICK f \in Executors : exec[f] = o
    BY <1>5, <2>1 DEF Live, BaseInv, RunningExecuted
  <2>3. pc[f] = "run"
    BY <2>2, NotRunningElsewhere, OpsAssumption DEF BaseInv
  <2>. QED  BY <1>3, <2>2, <2>3
<1>. QED  BY <1>2, <1>3, <1>5

\* The session changes in a Bind or in StartTLS only.
LEMMA SessionChange ==
    ASSUME BaseInv, KindAtStep, NEW e \in Executors, HandlerStep(e)
    PROVE  /\ UNCHANGED <<session, sasl>> \/ ChangesSession(kind[exec[e]])
           /\ sasl' # sasl => kind[exec[e]] \in Binds
           /\ sasl' => sasl \/ kind[exec[e]] = "saslbind"
<1>1. CASE Handshake(e)
  <2>1. kind[exec[e]] = "starttls"
    BY <1>1 DEF Handshake, S, KindAtStep, StepKind
  <2>. QED  BY <1>1, <2>1 DEF Handshake, ChangesSession
<1>2. CASE DispatchBind(e)
  BY <1>2 DEF DispatchBind, ChangesSession
<1>3. CASE DispatchStartTLS(e)
  BY <1>3 DEF DispatchStartTLS, At, ChangesSession
<1>4. CASE DispatchFails(e)
  BY <1>4 DEF DispatchFails, ChangesSession, BaseInv, Typed, SessionTypes
<1>5. CASE ~(Handshake(e) \/ DispatchBind(e) \/ DispatchStartTLS(e) \/ DispatchFails(e))
  <2>1. UNCHANGED <<session, sasl>>
    BY <1>5, PostCases DEF HandlerStep, CloneState, Acquire, Start, DispatchReject, DispatchRead,
           DispatchMeta, MetaEntry, MetaDone, DispatchPersist, PersistStops, PersistOverflows,
           DispatchWrite, CommitPoint, CommitWrite, DispatchProxyWrite, SendRemote, AwaitRemote,
           DispatchTransaction, Post,
           Respond, WriteFinal, ResponseLimit, WriteCanceled, Finish, sessionVars
  <2>. QED  BY <2>1, Zenon
<1>. QED  BY <1>1, <1>2, <1>3, <1>4, <1>5

\* Where a handler step leads.
LEMMA HandlerStepKind ==
    ASSUME BaseInv, SessionInv, NEW e \in Executors, HandlerStep(e)
    PROVE  StepKind(e)'
<1>0. UNCHANGED <<kind, exec>> /\ at \in [Executors -> ExecutorSteps] /\ LifeTypes /\ QueueInv
  BY HandlerStepIsLocal, UnchangedQueue DEF LocalTo, readerVars, BaseInv, Typed, ExecTypes
<1>. DEFINE k == kind[exec[e]]
<1>1. SUFFICES /\ at'[e] \in {"commitpoint", "commit"} => k = "write"
               /\ at'[e] \in {"remote", "await"} => k = "proxywrite"
               /\ at'[e] = "meta" => k = "metasearch"
               /\ at'[e] \in {"limit", "limited"} => k \in Searches
               /\ at'[e] = "handshake" => k = "starttls"
               /\ at'[e] = "direct" => k \in Binds \/ "saslbind" \in Kinds
  BY <1>0 DEF StepKind
<1>2. pc[e] = "run" /\ StepKind(e)
  BY HandlerStepIsLocal DEF LocalTo, BaseInv, Typed, SessionInv, KindAtStep
<1>3. CASE DispatchReject(e)
  BY <1>0, <1>3 DEF DispatchReject, RejectedDuringSASL, Goto, SessionInv, SaslInv
<1>4. CASE DispatchMeta(e) \/ DispatchPersist(e) \/ DispatchWrite(e) \/ DispatchProxyWrite(e)
           \/ DispatchBind(e) \/ DispatchStartTLS(e) \/ DispatchTransaction(e)
           \/ DispatchRead(e) \/ DispatchFails(e)
  BY <1>0, <1>4 DEF DispatchFails, DispatchMeta, DispatchPersist, DispatchWrite, DispatchProxyWrite, DispatchBind,
          DispatchStartTLS, DispatchTransaction, DispatchRead, Goto, Returns, At
<1>5. CASE CommitPoint(e) \/ ResponseLimit(e) \/ WriteFinal(e) \/ MetaEntry(e) \/ Respond(e)
           \/ SendRemote(e) \/ AwaitRemote(e)
  BY <1>0, <1>2, <1>5 DEF CommitPoint, ResponseLimit, WriteFinal, MetaEntry, Respond, SendRemote, AwaitRemote,
          Goto, Returns, S, StepKind, execVars
<1>6. CASE CloneState(e) \/ Acquire(e) \/ Start(e) \/ MetaDone(e) \/ PersistStops(e)
           \/ PersistOverflows(e) \/ CommitWrite(e) \/ Handshake(e)
           \/ WriteCanceled(e) \/ Finish(e)
  BY <1>0, <1>6 DEF CloneState, Acquire, Start, MetaDone, PersistStops, PersistOverflows,
          CommitWrite, Handshake, WriteCanceled, Finish, Goto, Returns
<1>7. CASE Post(e)
  BY <1>0, <1>7, PostCases DEF Goto
<1>. QED  BY <1>3, <1>4, <1>5, <1>6, <1>7 DEF HandlerStep

\* While a SASL Bind is in progress dispatch is the end of the way for all but Binds.
LEMMA HandlerDuringSASL ==
    ASSUME BaseInv, SessionInv, NEW e \in Executors, HandlerStep(e), sasl,
           at'[e] \in SlotSteps \ {"start", "dispatch"}, kind[exec[e]] \notin Binds
    PROVE  at'[e] = "direct"
<1>0. /\ at \in [Executors -> ExecutorSteps] /\ LifeTypes /\ QueueInv
      /\ pc[e] = "run" /\ exec[e] \in Ops /\ status[exec[e]] = "running"
  BY HandlerStepIsLocal, NotRunningElsewhere DEF LocalTo, BaseInv, Typed, ExecTypes
<1>1. /\ at[e] \in SlotSteps \ {"start", "dispatch"} => at[e] = "direct"
      /\ ~conc[exec[e]]
  BY <1>0 DEF SessionInv, SaslInv, Dispatching, Live
<1>2. CASE S(e, "dispatch")
  <2>1. RejectedDuringSASL(e)
    BY <1>1 DEF RejectedDuringSASL
  <2>2. DispatchReject(e) \/ ResponseLimit(e)
    BY <1>2, <2>1, PostCases DEF HandlerStep, CloneState, Acquire, Start, DispatchRead,
           DispatchMeta, MetaEntry, MetaDone, DispatchPersist, PersistStops, PersistOverflows,
           DispatchWrite, CommitPoint, CommitWrite, DispatchProxyWrite, SendRemote, AwaitRemote, DispatchFails,
           DispatchTransaction, Post, DispatchStartTLS, DispatchBind, Handshake,
           Respond, WriteFinal, WriteCanceled, Finish, S, At
  <2>. QED  BY <1>0, <2>2 DEF DispatchReject, ResponseLimit, Goto, SlotSteps
<1>3. CASE ~S(e, "dispatch")
  <2>1. \/ CloneState(e) \/ Acquire(e) \/ Start(e) \/ ResponseLimit(e)
        \/ Respond(e) /\ at[e] = "limit"
        \/ WriteFinal(e) /\ at[e] \in {"direct", "limited"}
        \/ Post(e) \/ WriteCanceled(e) \/ Finish(e)
    BY <1>1, <1>3 DEF HandlerStep, DispatchReject, DispatchRead,
           DispatchMeta, MetaEntry, MetaDone, DispatchPersist, PersistStops, PersistOverflows,
           DispatchWrite, CommitPoint, CommitWrite, DispatchProxyWrite, SendRemote, AwaitRemote, DispatchFails,
           DispatchTransaction, DispatchStartTLS, DispatchBind, Handshake,
           Respond, WriteFinal, S, At, SlotSteps
  <2>2. CASE Post(e)
    BY <1>0, <2>2, PostCases DEF Goto, SlotSteps
  <2>3. CASE WriteFinal(e) /\ at[e] \in {"direct", "limited"}
    BY <1>0, <2>3 DEF WriteFinal, Goto, Returns, SlotSteps
  <2>4. CASE Respond(e) /\ at[e] = "limit"
    BY <1>0, <2>4 DEF Respond, Goto, Returns, SlotSteps
  <2>5. CASE \/ CloneState(e) \/ Acquire(e) \/ Start(e) \/ ResponseLimit(e)
             \/ WriteCanceled(e) \/ Finish(e)
    BY <1>0, <2>5 DEF CloneState, Acquire, Start, ResponseLimit, WriteCanceled, Finish, Goto, SlotSteps
  <2>. QED  BY <2>1, <2>2, <2>3, <2>4, <2>5
<1>. QED  BY <1>2, <1>3

\* Who executes after a step: somebody who starts now, somebody whose handler takes a step,
\* or somebody this step does not concern.
LEMMA ExecutorCases ==
    ASSUME BaseInv, [Next]_vars, NEW f \in Executors, pc'[f] = "run"
    PROVE  \/ pc[f] # "run" /\ at'[f] = "clone" /\ out'[f] = "ok"
           \/ /\ pc[f] = "run" /\ exec'[f] = exec[f]
              /\ HandlerStep(f) \/ (at'[f] = at[f] /\ snap'[f] = snap[f] /\ out'[f] = out[f])
<1>. DEFINE Goal == \/ pc[f] # "run" /\ at'[f] = "clone" /\ out'[f] = "ok"
                    \/ /\ pc[f] = "run" /\ exec'[f] = exec[f]
                       /\ HandlerStep(f) \/ (at'[f] = at[f] /\ snap'[f] = snap[f] /\ out'[f] = out[f])
<1>0. /\ QueueInv /\ Typed /\ ReaderControl /\ Reader \in Executors
      /\ at \in [Executors -> ExecutorSteps] /\ out \in [Executors -> {"ok", "err"}]
      /\ snap \in [Executors -> Nat]
  BY NotRunningElsewhere DEF BaseInv, Typed, ExecTypes
<1>f. ASSUME SameExecutors, UNCHANGED execVars PROVE Goal
  BY <1>f DEF SameExecutors, execVars
<1>1. ASSUME NEW w \in Workers, PopOperation(w) PROVE Goal
  <2>1. /\ pc[w] = "pop" /\ \A e \in Executors : e # w => pc'[e] = pc[e] /\ exec'[e] = exec[e]
    BY <1>0, <1>1, PopEffect DEF PopOperation
  <2>2. at' = [at EXCEPT ![w] = "clone"] /\ UNCHANGED snap /\ out' = [out EXCEPT ![w] = "ok"]
    BY <1>1 DEF PopOperation, Goto
  <2>. QED  BY <1>0, <2>1, <2>2
<1>2. ASSUME NEW w \in Workers, PopNothing(w) PROVE Goal
  BY <1>0, <1>2, <1>f, MoveEffect, NotRunningElsewhere DEF PopNothing
<1>3. ASSUME NEW e \in Executors, HandlerStep(e) PROVE Goal
  BY <1>0, <1>3, HandlerStepIsLocal, UnchangedQueue DEF LocalTo, Typed
<1>4. ASSUME NEW e \in Executors, CompleteOperation(e) PROVE Goal
  <2>1. /\ pc'[e] = "return"
        /\ \A g \in Executors : g # e => exec'[g] = exec[g] /\ (pc'[g] = "run" <=> pc[g] = "run")
    BY <1>0, <1>4, CompleteEffect DEF CompleteOperation
  <2>2. at' = [at EXCEPT ![e] = "none"] /\ snap' = [snap EXCEPT ![e] = 0] /\ UNCHANGED out
    BY <1>4 DEF CompleteOperation, Goto
  <2>. QED  BY <1>0, <2>1, <2>2
<1>5. ASSUME NEW e \in Executors, ReturnTrue(e) \/ ReturnFalse(e) PROVE Goal
  BY <1>0, <1>5, <1>f, MoveEffect DEF ReturnTrue, ReturnFalse
<1>6. ASSUME NEW o \in Ops, NEW k, Admit(o, k) \/ TurnAway(o, k) PROVE Goal
  BY <1>0, <1>6, <1>f, PushEffect, RefuseEffect DEF Admit, TurnAway, CanRunConcurrent
<1>7. ASSUME ClaimBind, rop \in Ops PROVE Goal
  <2>1. /\ pc[Reader] = "read"
        /\ \A e \in Executors : e # Reader => pc'[e] = pc[e] /\ exec'[e] = exec[e]
    BY <1>0, <1>7, ClaimBindEffect
  <2>2. at' = [at EXCEPT ![Reader] = "clone"] /\ UNCHANGED snap /\ out' = [out EXCEPT ![Reader] = "ok"]
    BY <1>7 DEF ClaimBind, Goto
  <2>. QED  BY <1>0, <2>1, <2>2
<1>8. ASSUME NEW t \in Ops, AbandonQueued(t) PROVE Goal
  BY <1>0, <1>8, <1>f, RemoveEffect DEF AbandonQueued
<1>9. CASE BindDiscards
  BY <1>0, <1>9, <1>f, DiscardEffect DEF BindDiscards
<1>10. CASE DrainClose \/ CloseQueue
  BY <1>0, <1>10, <1>f, CloseEffect DEF DrainClose, CloseQueue, LeaveStep
<1>11. CASE Elsewhere
  BY <1>11, ElsewhereFrame, UnchangedQueue DEF execVars
<1>. QED  BY <1>0, <1>1, <1>2, <1>3, <1>4, <1>5, <1>6, <1>7, <1>8, <1>9, <1>10, <1>11, StepCases

\* Who is live after a step: who was, or who is admitted now.
LEMMA LiveCases ==
    ASSUME BaseInv, [Next]_vars, NEW p \in Ops, Live(p)'
    PROVE  \/ /\ Live(p) /\ kind'[p] = kind[p] /\ conc'[p] = conc[p] /\ readIn'[p] = readIn[p]
           \/ \E k : InHand(p, k) /\ Admit(p, k)
           \/ ClaimBind /\ p = rop
<1>0. QueueInv /\ Typed /\ ReaderControl
  BY DEF BaseInv
<1>1. CASE status[p] = "new"
  <2>1. \A k : TurnAway(p, k) => status'[p] = "refused"
    BY <1>0, RefuseEffect DEF TurnAway, CanRunConcurrent
  <2>. QED  BY <1>1, <2>1, AdmittedOnce DEF Live
<1>2. CASE status[p] # "new"
  <2>1. kind'[p] = kind[p] /\ conc'[p] = conc[p] /\ readIn'[p] = readIn[p]
    BY <1>2, AdmittedOnce
  <2>2. Live(p)
    <3>1. ASSUME NEW w \in Workers, PopOperation(w) PROVE Live(p)
      <4>1. /\ status[Head(items)] = "queued"
            /\ p # Head(items) => status'[p] = status[p]
        BY <1>0, <3>1, PopEffect DEF PopOperation
      <4>. QED  BY <4>1 DEF Live
    <3>2. ASSUME NEW w \in Workers, PopNothing(w) PROVE Live(p)
      <4>1. UNCHANGED status
        BY <1>0, <3>2, MoveEffect, NotRunningElsewhere DEF PopNothing
      <4>. QED  BY <4>1 DEF Live
    <3>3. ASSUME NEW e \in Executors, HandlerStep(e) PROVE Live(p)
      <4>1. UNCHANGED status
        BY <1>0, <3>3, HandlerStepIsLocal, UnchangedQueue DEF LocalTo, Typed
      <4>. QED  BY <4>1 DEF Live
    <3>4. ASSUME NEW e \in Executors, CompleteOperation(e) PROVE Live(p)
      <4>1. status'[p] \in {status[p], "done"}
        BY <1>0, <3>4, CompleteEffect DEF CompleteOperation
      <4>. QED  BY <4>1 DEF Live
    <3>5. ASSUME NEW e \in Executors, ReturnTrue(e) \/ ReturnFalse(e) PROVE Live(p)
      <4>1. UNCHANGED status
        BY <1>0, <3>5, MoveEffect DEF ReturnTrue, ReturnFalse
      <4>. QED  BY <4>1 DEF Live
    <3>6. ASSUME NEW o \in Ops, NEW k, Admit(o, k) \/ TurnAway(o, k) PROVE Live(p)
      <4>1. status[o] = "new" /\ (p # o => status'[p] = status[p])
        <5>1. CASE Admit(o, k)
          BY <1>0, <5>1, PushEffect DEF Admit, CanRunConcurrent
        <5>2. CASE TurnAway(o, k)
          BY <1>0, <5>2, RefuseEffect DEF TurnAway, CanRunConcurrent
        <5>. QED  BY <3>6, <5>1, <5>2
      <4>. QED  BY <1>2, <4>1 DEF Live
    <3>7. ASSUME ClaimBind, rop \in Ops PROVE Live(p)
      <4>1. status[rop] = "new" /\ (p # rop => status'[p] = status[p])
        BY <1>0, <3>7, ClaimBindEffect
      <4>. QED  BY <1>2, <4>1 DEF Live
    <3>8. ASSUME NEW t \in Ops, AbandonQueued(t) PROVE Live(p)
      <4>1. status'[p] \in {status[p], "dropped"}
        BY <1>0, <3>8, RemoveEffect DEF AbandonQueued
      <4>. QED  BY <4>1 DEF Live
    <3>9. ASSUME BindDiscards \/ DrainClose \/ CloseQueue PROVE Live(p)
      <4>1. DropsQueued \/ UNCHANGED <<status, items, conc>>
        BY <1>0, <3>9, DiscardEffect, CloseEffect DEF BindDiscards, DrainClose, CloseQueue
      <4>. QED  BY <4>1 DEF Live, DropsQueued
    <3>10. ASSUME Elsewhere PROVE Live(p)
      <4>1. UNCHANGED status
        BY <3>10, ElsewhereFrame, UnchangedQueue
      <4>. QED  BY <4>1 DEF Live
    <3>. QED  BY <1>0, <3>1, <3>2, <3>3, <3>4, <3>5, <3>6, <3>7, <3>8, <3>9, <3>10, StepCases
  <2>. QED  BY <2>1, <2>2
<1>. QED  BY <1>1, <1>2

\* The session is the executors' business.
LEMMA SessionFrame ==
    ASSUME ReaderControl, [Next]_vars
    PROVE  UNCHANGED <<session, sasl>> \/ \E e \in Executors : HandlerStep(e)
<1>1. ASSUME NEW w \in Workers, PopOperation(w) \/ PopNothing(w) PROVE UNCHANGED <<session, sasl>>
  BY <1>1 DEF PopOperation, PopNothing, sessionVars
<1>2. ASSUME NEW e \in Executors, CompleteOperation(e) \/ ReturnTrue(e) \/ ReturnFalse(e)
      PROVE  UNCHANGED <<session, sasl>>
  BY <1>2 DEF CompleteOperation, ReturnTrue, ReturnFalse, sessionVars
<1>3. ASSUME NEW o, NEW k, Admit(o, k) \/ TurnAway(o, k) PROVE UNCHANGED <<session, sasl>>
  BY <1>3 DEF Admit, TurnAway
<1>4. CASE ClaimBind \/ BindDiscards \/ DrainClose \/ CloseQueue \/ \E t \in Ops : AbandonQueued(t)
  BY <1>4 DEF ClaimBind, BindDiscards, DrainClose, CloseQueue, AbandonQueued, LeaveStep, sessionVars
<1>5. CASE Elsewhere
  BY <1>5, ElsewhereFrame DEF sessionVars
<1>. QED  BY <1>1, <1>2, <1>3, <1>4, <1>5, StepCases

\* Every step keeps the sessions apart.
LEMMA SessionStep ==
    ASSUME BaseInv, KindInv, BarrierLast, SessionInv, [Next]_vars
    PROVE  SessionInv'
<1>0. QueueInv /\ Typed /\ ReaderControl /\ sasl \in BOOLEAN /\ session \in Nat
  BY DEF BaseInv, Typed, SessionTypes
<1>1. ASSUME NEW f \in Executors, pc[f] = "run"
      PROVE  /\ exec[f] \in Ops /\ Live(exec[f])
             /\ kind'[exec[f]] = kind[exec[f]] /\ conc'[exec[f]] = conc[exec[f]]
  <2>1. exec[f] \in Ops /\ status[exec[f]] = "running"
    BY <1>0, <1>1, NotRunningElsewhere
  <2>2. PICK o \in Ops : o = exec[f]
    BY <2>1
  <2>3. kind'[o] = kind[o] /\ conc'[o] = conc[o]
    BY <2>1, <2>2, AdmittedOnce
  <2>. QED  BY <2>1, <2>2, <2>3 DEF Live
<1>2. ASSUME NEW e \in Executors, HandlerStep(e)
      PROVE  pc[e] = "run" /\ \A f \in Executors : f # e => at'[f] = at[f] /\ snap'[f] = snap[f]
  BY <1>0, <1>2, HandlerStepIsLocal DEF LocalTo, Typed
<1>3. KindAtStep'
  <2>. SUFFICES ASSUME NEW f \in Executors, pc'[f] = "run" PROVE StepKind(f)'
    BY DEF KindAtStep
  <2>1. CASE at'[f] = "clone"
    BY <2>1 DEF StepKind
  <2>2. CASE HandlerStep(f)
    BY <2>2, HandlerStepKind
  <2>3. CASE pc[f] = "run" /\ exec'[f] = exec[f] /\ at'[f] = at[f]
    <3>1. kind'[exec'[f]] = kind[exec[f]]
      BY <1>1, <2>3
    <3>2. StepKind(f)
      BY <2>3 DEF SessionInv, KindAtStep
    <3>. QED  BY <2>3, <3>1, <3>2 DEF StepKind
  <2>. QED  BY <2>1, <2>2, <2>3, ExecutorCases
<1>4. ASSUME NEW e \in Executors, HandlerStep(e), session' # session \/ sasl' # sasl
      PROVE  /\ \A o \in Ops : Live(o) => o = exec[e]
             /\ \A f \in Executors : pc[f] = "run" => f = e
             /\ ~conc[exec[e]] /\ ChangesSession(kind[exec[e]])
  <2>1. pc[e] = "run" /\ ChangesSession(kind[exec[e]])
    BY <1>2, <1>4, SessionChange DEF SessionInv
  <2>2. ConnectionReadBarrier(kind[exec[e]])
    BY <2>1 DEF ChangesSession, ConnectionReadBarrier
  <2>. QED  BY <2>1, <2>2, BarrierAlone
<1>5. ReadInSession'
  <2>. SUFFICES ASSUME NEW p \in Ops, Live(p)', ~ChangesSession(kind'[p])
                PROVE  readIn'[p] = session'
    BY DEF ReadInSession
  <2>1. CASE Live(p) /\ kind'[p] = kind[p] /\ readIn'[p] = readIn[p]
    <3>1. readIn[p] = session
      BY <2>1 DEF SessionInv, ReadInSession
    <3>2. session' = session
      BY <1>0, <1>4, <2>1, SessionFrame
    <3>. QED  BY <2>1, <3>1, <3>2
  <2>2. ASSUME NEW k, Admit(p, k) PROVE readIn'[p] = session'
    BY <1>0, <2>2 DEF Admit, Typed, ReaderTypes
  <2>3. CASE ClaimBind /\ p = rop
    BY <1>0, <2>3 DEF ClaimBind, Typed, ReaderTypes, sessionVars
  <2>. QED  BY <2>1, <2>2, <2>3, LiveCases
<1>6. CopiedInSession'
  <2>. SUFFICES ASSUME NEW f \in Executors, pc'[f] = "run", at'[f] # "clone",
                       ~ChangesSession(kind'[exec'[f]])
                PROVE  snap'[f] = session'
    BY DEF CopiedInSession
  <2>1. pc[f] = "run" /\ exec'[f] = exec[f]
    BY ExecutorCases
  <2>2. ~ChangesSession(kind[exec[f]])
    BY <1>1, <2>1
  <2>3. session' = session
    <3>1. ASSUME NEW e \in Executors, HandlerStep(e), session' # session PROVE FALSE
      BY <1>4, <2>1, <2>2, <3>1
    <3>. QED  BY <1>0, <3>1, SessionFrame
  <2>4. CASE at'[f] = at[f] /\ snap'[f] = snap[f]
    BY <2>1, <2>2, <2>3, <2>4 DEF SessionInv, CopiedInSession
  <2>5. CASE HandlerStep(f)
    <3>1. CASE CloneState(f)
      BY <1>0, <2>3, <3>1 DEF CloneState, Typed, ExecTypes
    <3>2. CASE ~CloneState(f)
      <4>1. UNCHANGED snap /\ at[f] # "clone"
        BY <2>5, <3>2 DEF HandlerStep, Acquire, Start, DispatchReject, DispatchRead,
           DispatchMeta, MetaEntry, MetaDone, DispatchPersist, PersistStops, PersistOverflows,
           DispatchWrite, CommitPoint, CommitWrite, DispatchProxyWrite, SendRemote, AwaitRemote, DispatchFails,
           DispatchTransaction, DispatchStartTLS, DispatchBind, Handshake, Post,
           Respond, WriteFinal, ResponseLimit, WriteCanceled, Finish, S, At, execVars
      <4>. QED  BY <2>1, <2>2, <2>3, <4>1 DEF SessionInv, CopiedInSession
    <3>. QED  BY <3>1, <3>2
  <2>. QED  BY <2>1, <2>4, <2>5, ExecutorCases
<1>7. SaslInv'
  <2>. SUFFICES ASSUME sasl'
                PROVE  /\ "saslbind" \in Kinds
                       /\ \A o \in Ops : Live(o)' => ~conc'[o]
                       /\ \A f \in Executors :
                             Dispatching(f)' /\ at'[f] # "dispatch"
                                => at'[f] = "direct" \/ kind'[exec'[f]] \in Binds
    BY DEF SaslInv
  <2>1. CASE sasl
    <3>1. "saslbind" \in Kinds
      BY <2>1 DEF SessionInv, SaslInv
    <3>2. ASSUME NEW o \in Ops, Live(o)' PROVE ~conc'[o]
      <4>1. CASE Live(o) /\ conc'[o] = conc[o]
        BY <2>1, <4>1 DEF SessionInv, SaslInv
      <4>2. ASSUME NEW k, Admit(o, k) PROVE ~conc'[o]
        BY <1>0, <2>1, <4>2, PushEffect DEF Admit, CanRunConcurrent
      <4>3. CASE ClaimBind /\ o = rop
        BY <1>0, <4>3, ClaimBindEffect
      <4>. QED  BY <3>2, <4>1, <4>2, <4>3, LiveCases
    <3>3. ASSUME NEW f \in Executors, Dispatching(f)', at'[f] # "dispatch", kind'[exec'[f]] \notin Binds
          PROVE  at'[f] = "direct"
      <4>1. pc'[f] = "run" /\ at'[f] \in SlotSteps \ {"start", "dispatch"}
        BY <3>3 DEF Dispatching
      <4>2. /\ pc[f] = "run" /\ exec'[f] = exec[f]
            /\ HandlerStep(f) \/ at'[f] = at[f]
        BY <4>1, ExecutorCases DEF SlotSteps
      <4>3. kind[exec[f]] \notin Binds
        BY <1>1, <3>3, <4>2
      <4>4. CASE HandlerStep(f)
        BY <2>1, <4>1, <4>3, <4>4, HandlerDuringSASL
      <4>5. CASE at'[f] = at[f]
        BY <2>1, <4>1, <4>2, <4>3, <4>5 DEF SessionInv, SaslInv, Dispatching
      <4>. QED  BY <4>2, <4>4, <4>5
    <3>. QED  BY <3>1, <3>2, <3>3
  <2>2. CASE ~sasl
    <3>1. PICK e \in Executors : HandlerStep(e)
      BY <1>0, <2>2, SessionFrame
    <3>2. sasl' # sasl
      BY <2>2
    <3>3. kind[exec[e]] = "saslbind"
      BY <2>2, <3>1, <3>2, SessionChange DEF SessionInv
    <3>4. "saslbind" \in Kinds
      BY <1>1, <1>2, <3>1, <3>3 DEF KindInv, Live
    <3>5. UNCHANGED <<status, conc, pc>>
      BY <1>0, <3>1, HandlerStepIsLocal, UnchangedQueue DEF LocalTo, Typed
    <3>6. \A o \in Ops : Live(o)' => ~conc'[o]
      BY <1>4, <3>1, <3>2, <3>5 DEF Live
    <3>7. \A f \in Executors : Dispatching(f)' => f = e
      BY <1>4, <3>1, <3>2, <3>5 DEF Dispatching
    <3>8. kind'[exec'[e]] \in Binds
      BY <1>1, <1>2, <3>1, <3>3, HandlerStepIsLocal, UnchangedQueue DEF LocalTo, Typed, BaseInv, Binds
    <3>. QED  BY <3>4, <3>6, <3>7, <3>8
  <2>. QED  BY <2>1, <2>2
<1>. QED  BY <1>3, <1>5, <1>6, <1>7 DEF SessionInv

\* The whole inductive invariant.
SessionBase == BaseInv /\ RegistryInv /\ KindInv /\ BarrierLive /\ BarrierLast /\ BindSparesBinds /\ SessionInv

\* It holds initially.
LEMMA InitSession == Init => SessionBase
<1>. SUFFICES ASSUME Init PROVE SessionBase
  OBVIOUS
<1>1. status = [o \in Ops |-> "new"] /\ pc = [e \in Executors |-> IF e = Reader THEN "read" ELSE "pop"]
      /\ rset = {} /\ sasl = FALSE
  BY DEF Init, QueueInit
<1>2. BarrierLive /\ BarrierLast /\ BindSparesBinds
  BY <1>1 DEF BarrierLive, BarrierLast, BindSparesBinds, Live
<1>3. SessionInv
  BY <1>1 DEF SessionInv, KindAtStep, ReadInSession, CopiedInSession, SaslInv, Live
<1>. QED  BY <1>2, <1>3, InitBase, InitRegistry, InitKind DEF SessionBase

\* Every step keeps it.
LEMMA SessionBaseStep == SessionBase /\ [Next]_vars => SessionBase'
BY BaseStep, RegistryStep, KindStep, BarrierLiveStep, BarrierLastStep, BindSparesBindsStep, SessionStep
   DEF SessionBase

\* Every reachable state of the connection satisfies it.
THEOREM SessionsAreKept == Spec => []SessionBase
BY InitSession, SessionBaseStep, PTL DEF Spec

\* SameSession: nothing read before a Bind or a StartTLS runs under the identity
\* or the transport it produced, and nothing runs on a copy of the connection's
\* state taken before it.
THEOREM RequestsKeepTheirSession == Spec => []SameSession
<1>1. SessionBase => SameSession
  <2>. SUFFICES ASSUME SessionBase, NEW e \in Executors, Dispatching(e),
                       kind[exec[e]] \notin Binds \cup {"starttls"}
                PROVE  readIn[exec[e]] = session /\ snap[e] = session
    BY DEF SameSession
  <2>1. pc[e] = "run" /\ at[e] # "clone"
    BY DEF Dispatching, SlotSteps
  <2>2. exec[e] \in Ops /\ Live(exec[e])
    BY <2>1, NotRunningElsewhere DEF SessionBase, BaseInv, Live
  <2>. QED  BY <2>1, <2>2 DEF SessionBase, SessionInv, ReadInSession, CopiedInSession, ChangesSession
<1>. QED  BY <1>1, SessionsAreKept, PTL

\* NothingPassesASASLBind: while a SASL Bind is in progress nothing but Bind gets
\* past dispatch, not even a concurrent request whose cloned state has no SASL
\* session.
THEOREM SASLBindIsPassedByNothing == Spec => []NothingPassesASASLBind
<1>1. SessionBase => NothingPassesASASLBind
  <2>. SUFFICES ASSUME SessionBase, NEW e \in Executors, sasl, Dispatching(e), at[e] # "dispatch"
                PROVE  kind[exec[e]] \in Binds \/ (at[e] = "direct" /\ ~conc[exec[e]])
    BY DEF NothingPassesASASLBind
  <2>1. exec[e] \in Ops /\ Live(exec[e])
    BY NotRunningElsewhere DEF SessionBase, BaseInv, Live, Dispatching
  <2>. QED  BY <2>1 DEF SessionBase, SessionInv, SaslInv
<1>. QED  BY <1>1, SessionsAreKept, PTL

=============================================================================
