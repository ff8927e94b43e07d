------------------------ MODULE OperationQueueProofs ------------------------
(***************************************************************************)
(* Proofs about the operation queue, for any set of requests, any number   *)
(* of workers and any limits.                                              *)
(***************************************************************************)
EXTENDS OperationQueue, FiniteSetTheorems, TLAPS

(* What links the queue's counters and flags to the goroutines.            *)

\* A goroutine executes a request exactly while it is between pop (or the
\* inline claim) and complete.
ExecConsistent ==
    /\ \A e \in Executors : pc[e] = "run" <=> exec[e] # NoOp
    /\ \A e \in Executors : exec[e] # NoOp => status[exec[e]] = "running"
    /\ \A e, f \in Executors : exec[e] # NoOp /\ exec[e] = exec[f] => e = f
    /\ \A w \in Workers : pc[w] \in WorkerStates
    /\ pc[Reader] \in ReaderStates

\* items holds the queued requests, each of them once.
ItemsConsistent ==
    /\ \A i \in 1..Len(items) : status[items[i]] = "queued"
    /\ \A i, j \in 1..Len(items) : items[i] = items[j] => i = j
    /\ \A o \in Ops : status[o] = "queued" => \E i \in 1..Len(items) : items[i] = o

\* The fence flag is up exactly while a non-concurrent request executes.
FenceFlag ==
    fence <=> \E e \in Running : ~conc[exec[e]]

\* A fired sync.Once belongs to a request that has ended.
ReleasedEnded ==
    \A o \in released : status[o] \in {"done", "dropped", "refused"}

\* The inductive invariant.
QueueInv ==
    /\ QueueTypeOK
    /\ ExecConsistent
    /\ ItemsConsistent
    /\ FenceFlag
    /\ FenceExclusive
    /\ ActiveCounts
    /\ ReleasedEnded
    /\ BytesConserved


-----------------------------------------------------------------------------
(* Waking waiters up moves nobody into or out of execution.                *)

PcFrame ==
    /\ pc' \in [Executors -> WorkerStates \cup ReaderStates]
    /\ \A e \in Executors : pc'[e] = "run" <=> pc[e] = "run"
    /\ \A w \in Workers : pc'[w] \in WorkerStates
    /\ pc'[Reader] \in ReaderStates

\* Signal, Broadcast or no wakeup at all leave every executor executing what
\* it executed.
LEMMA WakeUpFrame ==
    ASSUME QueueInv, NEW S \in SUBSET Waiters, pc' = WakeUp(S)
    PROVE  PcFrame
BY WorkersAssumption
   DEF QueueInv, QueueTypeOK, ExecConsistent, PcFrame, WakeUp, Waiters,
       Executors, WorkerStates, ReaderStates

\* The same for the set of outcomes of Signal.
LEMMA SignalFrame ==
    ASSUME QueueInv, pc' \in Signalled \/ pc' = pc
    PROVE  PcFrame
<1>1. CASE pc' = pc
  BY <1>1, WorkersAssumption
     DEF QueueInv, QueueTypeOK, ExecConsistent, PcFrame, Executors
<1>2. CASE pc' \in Signalled /\ pc' # pc
  <2>1. PICK w \in Waiters : pc' = WakeUp({w})
    BY <1>2 DEF Signalled
  <2>. QED  BY <2>1, WakeUpFrame
<1>. QED  BY <1>1, <1>2

\* There are finitely many executors, so the running ones can be counted.
LEMMA RunningFinite ==
    /\ IsFiniteSet(Executors)
    /\ IsFiniteSet(Running)
    /\ maximum \in Nat
<1>1. IsFiniteSet(Executors)
  BY WorkersAssumption, FS_AddElement DEF Executors
<1>2. IsFiniteSet(Running)
  BY <1>1, FS_Subset DEF Running
<1>3. maximum \in Nat
  BY WorkersAssumption, FS_CardinalityType DEF maximum
<1>. QED  BY <1>1, <1>2, <1>3

-----------------------------------------------------------------------------
\* The queue starts empty, idle and with nothing charged.
LEMMA InitQueueInv == QueueInit => QueueInv
<1>. SUFFICES ASSUME QueueInit PROVE QueueInv
  OBVIOUS
<1>1. Running = {}
  BY WorkersAssumption DEF QueueInit, Running, Executors
<1>2. QueueTypeOK
  <2>1. conc \in [Ops -> BOOLEAN]
    BY DEF QueueInit
  <2>2. active \in 0..maximum
    BY RunningFinite DEF QueueInit
  <2>3. /\ items \in Seq(Ops)
        /\ arrival \in Seq(Ops)
    BY DEF QueueInit
  <2>4. /\ pc \in [Executors -> WorkerStates \cup ReaderStates]
        /\ exec \in [Executors -> Ops \cup {NoOp}]
        /\ status \in [Ops -> Statuses]
    BY DEF QueueInit, Statuses, WorkerStates, ReaderStates
  <2>5. /\ retained \in [Ops -> Int]
        /\ reserved \in [Ops -> Int]
    BY DEF QueueInit
  <2>. QED  BY <2>1, <2>2, <2>3, <2>4, <2>5 DEF QueueInit, QueueTypeOK
<1>3. ExecConsistent
  BY WorkersAssumption DEF QueueInit, ExecConsistent, Executors, WorkerStates, ReaderStates
<1>4. ItemsConsistent
  BY DEF QueueInit, ItemsConsistent
<1>5. FenceFlag /\ FenceExclusive
  BY <1>1 DEF QueueInit, FenceFlag, FenceExclusive
<1>6. ActiveCounts
  BY <1>1, FS_EmptySet, RunningFinite DEF QueueInit, ActiveCounts
<1>7. ReleasedEnded /\ BytesConserved
  BY DEF QueueInit, ReleasedEnded, BytesConserved
<1>. QED  BY <1>2, <1>3, <1>4, <1>5, <1>6, <1>7 DEF QueueInv

-----------------------------------------------------------------------------
(* Steps that start and end no request.                                    *)

\* pop that waits or returns, and the way back to pop.
LEMMA PcStepInv ==
    ASSUME QueueInv, PcFrame,
           UNCHANGED <<items, active, fence, retained, closed, drain, conc,
                       status, arrival, reserved, released, exec>>
    PROVE  QueueInv'
<1>1. Running' = Running
  BY DEF PcFrame, Running
<1>2. QueueTypeOK' /\ ExecConsistent'
  BY DEF QueueInv, QueueTypeOK, ExecConsistent, PcFrame
<1>3. FenceFlag' /\ FenceExclusive' /\ ActiveCounts'
  BY <1>1 DEF QueueInv, FenceFlag, FenceExclusive, ActiveCounts
<1>4. ItemsConsistent' /\ ReleasedEnded' /\ BytesConserved'
  BY DEF QueueInv, ItemsConsistent, ReleasedEnded, BytesConserved
<1>. QED  BY <1>2, <1>3, <1>4 DEF QueueInv

-----------------------------------------------------------------------------
(* Starting a request.                                                     *)

\* Whoever starts a request (a worker in pop, the reader with an idle Bind)
\* finds a free slot, and either the request is concurrent and no fence is up
\* or the connection is idle: counters, flag and exclusion stay in step.
LEMMA StartInv ==
    ASSUME QueueInv,
           NEW e \in Executors, NEW o \in Ops,
           pc[e] # "run", status[o] \in {"new", "queued"},
           active < maximum, ~fence,
           active' = active + 1,
           pc' = [pc EXCEPT ![e] = "run"],
           exec' = [exec EXCEPT ![e] = o],
           status' = [status EXCEPT ![o] = "running"],
           conc' \in [Ops -> BOOLEAN],
           \A p \in Ops : p # o => conc'[p] = conc[p],
           conc'[o] \/ active = 0,
           fence' = ~conc'[o]
    PROVE  /\ ExecConsistent' /\ FenceFlag' /\ FenceExclusive' /\ ActiveCounts'
           /\ active' \in 0..maximum /\ fence' \in BOOLEAN
           /\ pc' \in [Executors -> WorkerStates \cup ReaderStates]
           /\ exec' \in [Executors -> Ops \cup {NoOp}]
           /\ status' \in [Ops -> Statuses]
<1>. USE DEF QueueInv
<1>1. /\ pc \in [Executors -> WorkerStates \cup ReaderStates]
      /\ exec \in [Executors -> Ops \cup {NoOp}]
      /\ status \in [Ops -> Statuses]
      /\ active \in 0..maximum
  BY DEF QueueTypeOK
<1>2. Running' = Running \cup {e} /\ e \notin Running
  BY <1>1 DEF Running
<1>3. /\ pc' \in [Executors -> WorkerStates \cup ReaderStates]
      /\ exec' \in [Executors -> Ops \cup {NoOp}]
      /\ status' \in [Ops -> Statuses]
  BY <1>1 DEF WorkerStates, ReaderStates, Statuses
<1>4. active' \in 0..maximum /\ fence' \in BOOLEAN
  <2>1. active' \in 0..maximum
    BY <1>1, RunningFinite
  <2>2. fence' \in BOOLEAN
    OBVIOUS
  <2>. QED  BY <2>1, <2>2
<1>5. ActiveCounts'
  <2>1. Cardinality(Running') = Cardinality(Running) + 1
    BY <1>2, RunningFinite, FS_AddElement
  <2>. QED  BY <2>1, <1>4, RunningFinite DEF ActiveCounts
<1>6. ExecConsistent'
  BY <1>1, OpsAssumption, WorkersAssumption
     DEF ExecConsistent, Executors, WorkerStates, ReaderStates
<1>7. \A f \in Running : exec'[f] = exec[f] /\ exec[f] \in Ops /\ exec[f] # o
  BY <1>1, <1>2 DEF ExecConsistent, Running
<1>8. \A f \in Running : conc'[exec'[f]] = conc[exec[f]]
  BY <1>7
<1>9. exec'[e] = o
  BY <1>1
<1>10. FenceFlag'
  <2>1. \A f \in Running : conc[exec[f]]
    BY DEF FenceFlag
  <2>2. \A f \in Running : conc'[exec'[f]]
    BY <2>1, <1>8
  <2>3. (\E f \in Running' : ~conc'[exec'[f]]) <=> ~conc'[o]
    BY <2>2, <1>2, <1>9
  <2>. QED  BY <2>3 DEF FenceFlag
<1>11. FenceExclusive'
  <2>1. CASE active = 0
    <3>1. Running = {}
      BY <2>1, RunningFinite, FS_EmptySet DEF ActiveCounts
    <3>. QED  BY <3>1, <1>2 DEF FenceExclusive
  <2>2. CASE conc'[o]
    <3>1. \A f \in Running : conc'[exec'[f]]
      BY <1>8 DEF FenceFlag
    <3>2. \A f \in Running' : conc'[exec'[f]]
      BY <3>1, <2>2, <1>2, <1>9
    <3>. QED  BY <3>2 DEF FenceExclusive
  <2>. QED  BY <2>1, <2>2
<1>. QED  BY <1>3, <1>4, <1>5, <1>6, <1>10, <1>11

\* tryClaimIdleSimpleBind preserves the invariant.
LEMMA ClaimInv ==
    ASSUME QueueInv, NEW o \in Ops, TryClaimIdleSimpleBind(o)
    PROVE  QueueInv'
<1>. USE DEF QueueInv, TryClaimIdleSimpleBind, ChargeRetained
<1>0. /\ status \in [Ops -> Statuses] /\ conc \in [Ops -> BOOLEAN]
      /\ retained \in [Ops -> Int] /\ reserved \in [Ops -> Int]
  BY DEF QueueTypeOK
<1>1. conc' \in [Ops -> BOOLEAN] /\ conc'[o] = FALSE
      /\ \A p \in Ops : p # o => conc'[p] = conc[p]
  BY <1>0
<1>2. Reader \in Executors /\ pc[Reader] # "run"
  BY DEF Executors
<1>3. active < maximum
  <2>1. Cardinality(Workers) # 0
    BY WorkersAssumption, FS_EmptySet
  <2>. QED  BY <2>1, RunningFinite DEF maximum
<1>4. /\ ExecConsistent' /\ FenceFlag' /\ FenceExclusive' /\ ActiveCounts'
      /\ active' \in 0..maximum /\ fence' \in BOOLEAN
      /\ pc' \in [Executors -> WorkerStates \cup ReaderStates]
      /\ exec' \in [Executors -> Ops \cup {NoOp}]
      /\ status' \in [Ops -> Statuses]
  <2>1. status[o] \in {"new", "queued"} /\ ~fence /\ fence' = ~conc'[o]
        /\ active' = active + 1 /\ active = 0
    BY <1>1
  <2>. QED  BY <1>1, <1>2, <1>3, <2>1, StartInv
<1>5. retained' \in [Ops -> Int] /\ reserved' \in [Ops -> Int]
  BY <1>0
<1>6. QueueTypeOK'
  <2>1. arrival' \in Seq(Ops)
    BY DEF QueueTypeOK
  <2>. QED  BY <1>1, <1>4, <1>5, <2>1 DEF QueueTypeOK
<1>7. ItemsConsistent'
  BY <1>0 DEF ItemsConsistent, QueueTypeOK
<1>8. ReleasedEnded'
  BY <1>0 DEF ReleasedEnded, QueueTypeOK
<1>9. BytesConserved'
  BY <1>0 DEF BytesConserved
<1>. QED  BY <1>4, <1>6, <1>7, <1>8, <1>9

\* pop that takes the head preserves the invariant.
LEMMA PopInv ==
    ASSUME QueueInv, NEW w \in Workers, Pop(w)
    PROVE  QueueInv'
<1>. USE DEF QueueInv, Pop, HeadEligible
<1>. DEFINE o == Head(items)
<1>0. /\ status \in [Ops -> Statuses] /\ conc \in [Ops -> BOOLEAN]
      /\ items \in Seq(Ops) /\ items # <<>> /\ released \in SUBSET Ops
  BY DEF QueueTypeOK
<1>1. /\ o \in Ops /\ o = items[1] /\ Len(items) \in Nat /\ Len(items) > 0
      /\ items' \in Seq(Ops) /\ Len(items') = Len(items) - 1
      /\ \A i \in 1..Len(items') : items'[i] = items[i + 1]
  BY <1>0
<1>2. status[o] = "queued"
  BY <1>1 DEF ItemsConsistent
<1>3. /\ ExecConsistent' /\ FenceFlag' /\ FenceExclusive' /\ ActiveCounts'
      /\ active' \in 0..maximum /\ fence' \in BOOLEAN
      /\ pc' \in [Executors -> WorkerStates \cup ReaderStates]
      /\ exec' \in [Executors -> Ops \cup {NoOp}]
      /\ status' \in [Ops -> Statuses]
  <2>1. w \in Executors /\ pc[w] # "run"
    BY DEF Executors
  <2>2. /\ conc' \in [Ops -> BOOLEAN]
        /\ \A p \in Ops : p # o => conc'[p] = conc[p]
        /\ conc'[o] \/ active = 0
        /\ fence' = ~conc'[o]
    BY <1>0, <1>1
  <2>. QED  BY <1>1, <1>2, <2>1, <2>2, StartInv
<1>4. QueueTypeOK'
  BY <1>0, <1>1, <1>3 DEF QueueTypeOK
<1>5. ItemsConsistent'
  <2>1. \A i \in 1..Len(items') : status'[items'[i]] = "queued"
    BY <1>0, <1>1 DEF ItemsConsistent
  <2>2. \A i, j \in 1..Len(items') : items'[i] = items'[j] => i = j
    BY <1>1 DEF ItemsConsistent
  <2>3. ASSUME NEW p \in Ops, status'[p] = "queued"
        PROVE  \E i \in 1..Len(items') : items'[i] = p
    <3>1. p # o /\ status[p] = "queued"
      BY <2>3, <1>0, <1>1
    <3>2. PICK i \in 1..Len(items) : items[i] = p
      BY <3>1 DEF ItemsConsistent
    <3>3. i - 1 \in 1..Len(items') /\ items'[i - 1] = p
      BY <3>1, <3>2, <1>1
    <3>. QED  BY <3>3
  <2>. QED  BY <2>1, <2>2, <2>3 DEF ItemsConsistent
<1>6. ReleasedEnded'
  BY <1>0, <1>1, <1>2 DEF ReleasedEnded
<1>7. BytesConserved'
  BY <1>0, <1>1, <1>2 DEF BytesConserved
<1>. QED  BY <1>3, <1>4, <1>5, <1>6, <1>7

-----------------------------------------------------------------------------
(* Ending and admitting requests.                                          *)

\* Releasing the bytes of requests that are all still charged uncharges each
\* of them once and no other.
LEMMA ReleaseOnce ==
    ASSUME QueueInv, NEW S \in SUBSET Ops, ReleaseRetained(S),
           \A o \in S : status[o] \in {"queued", "running"},
           status' \in [Ops -> Statuses],
           \A o \in S : status'[o] \in {"done", "dropped"},
           \A o \in Ops : o \notin S => status'[o] = status[o]
    PROVE  /\ BytesConserved' /\ ReleasedEnded'
           /\ retained' \in [Ops -> Int] /\ reserved' \in [Ops -> Int]
           /\ released' \in SUBSET Ops
<1>. USE DEF QueueInv, ReleaseRetained
<1>1. /\ retained \in [Ops -> Int] /\ reserved \in [Ops -> Int]
      /\ released \in SUBSET Ops /\ status \in [Ops -> Statuses]
  BY DEF QueueTypeOK
<1>2. S \cap released = {}
  BY DEF ReleasedEnded
<1>3. /\ retained' = [o \in Ops |-> IF o \in S THEN retained[o] - 1 ELSE retained[o]]
      /\ reserved' = [o \in Ops |-> IF o \in S THEN reserved[o] - 1 ELSE reserved[o]]
  BY <1>2
<1>4. BytesConserved'
  BY <1>1, <1>3 DEF BytesConserved
<1>5. ReleasedEnded'
  BY <1>1 DEF ReleasedEnded
<1>. QED  BY <1>1, <1>3, <1>4, <1>5

\* complete preserves the invariant.
LEMMA CompleteInv ==
    ASSUME QueueInv, NEW e \in Executors, Complete(e)
    PROVE  QueueInv'
<1>. USE DEF QueueInv, Complete
<1>. DEFINE o == exec[e]
<1>0. /\ status \in [Ops -> Statuses] /\ conc \in [Ops -> BOOLEAN]
      /\ exec \in [Executors -> Ops \cup {NoOp}] /\ items \in Seq(Ops)
      /\ pc \in [Executors -> WorkerStates \cup ReaderStates]
      /\ active \in 0..maximum /\ Waiters \subseteq Workers
  BY DEF QueueTypeOK, Waiters
<1>1. o \in Ops /\ status[o] = "running" /\ e \in Running
  BY <1>0 DEF ExecConsistent, Running
<1>2. PICK q \in [Executors -> WorkerStates \cup ReaderStates] :
          /\ pc' = [q EXCEPT ![e] = "return"]
          /\ \A f \in Executors : q[f] = "run" <=> pc[f] = "run"
          /\ \A w \in Workers : q[w] \in WorkerStates
          /\ q[Reader] \in ReaderStates
  <2>1. /\ Broadcast \in [Executors -> WorkerStates \cup ReaderStates]
        /\ \A f \in Executors : Broadcast[f] = "run" <=> pc[f] = "run"
        /\ \A w \in Workers : Broadcast[w] \in WorkerStates
        /\ Broadcast[Reader] \in ReaderStates
    BY <1>0, WorkersAssumption
       DEF Broadcast, WakeUp, Waiters, WorkerStates, ReaderStates, ExecConsistent, Executors
  <2>2. /\ \A w \in Workers : pc[w] \in WorkerStates
        /\ pc[Reader] \in ReaderStates
    BY DEF ExecConsistent
  <2>3. CASE items # <<>> \/ closed
    BY <2>1, <2>3 DEF CompleteWakes
  <2>4. CASE ~(items # <<>> \/ closed)
    BY <2>2, <2>4, <1>0 DEF CompleteWakes
  <2>. QED  BY <2>3, <2>4
<1>3. pc' \in [Executors -> WorkerStates \cup ReaderStates]
  BY <1>2 DEF WorkerStates, ReaderStates
<1>4. Running' = Running \ {e}
  BY <1>0, <1>2 DEF Running, WorkerStates, ReaderStates
<1>5. ExecConsistent'
  <2>1. \A w \in Workers : pc'[w] \in WorkerStates
    BY <1>2, WorkersAssumption DEF WorkerStates, Executors
  <2>2. pc'[Reader] \in ReaderStates
    BY <1>2, WorkersAssumption DEF ReaderStates, Executors
  <2>3. \A f \in Executors : pc'[f] = "run" <=> exec'[f] # NoOp
    BY <1>0, <1>2, <1>4 DEF ExecConsistent, Running
  <2>4. \A f \in Executors : exec'[f] # NoOp => status'[exec'[f]] = "running"
    BY <1>0, <1>1, OpsAssumption DEF ExecConsistent
  <2>5. \A f, g \in Executors : exec'[f] # NoOp /\ exec'[f] = exec'[g] => f = g
    BY <1>0 DEF ExecConsistent
  <2>. QED  BY <2>1, <2>2, <2>3, <2>4, <2>5 DEF ExecConsistent
<1>6. \A f \in Running' : f \in Running /\ f # e /\ exec'[f] = exec[f]
  BY <1>0, <1>4 DEF Running
<1>7. FenceFlag' /\ FenceExclusive'
  <2>1. \A f \in Running' : conc[exec[f]]
    BY <1>1, <1>6 DEF FenceExclusive
  <2>2. \A f \in Running' : conc'[exec'[f]]
    BY <2>1, <1>6
  <2>. QED  BY <2>2 DEF FenceFlag, FenceExclusive
<1>8. ActiveCounts' /\ active' \in 0..maximum
  <2>1. Cardinality(Running) # 0
    BY <1>1, RunningFinite, FS_EmptySet
  <2>2. Cardinality(Running') = Cardinality(Running) - 1
    BY <1>1, <1>4, RunningFinite, FS_RemoveElement
  <2>. QED  BY <1>0, <2>1, <2>2, RunningFinite DEF ActiveCounts, ActiveAfterComplete
<1>9. status' \in [Ops -> Statuses] /\ status'[o] = "done"
      /\ \A p \in Ops : p # o => status'[p] = status[p]
  BY <1>0, <1>1 DEF Statuses
<1>10. /\ BytesConserved' /\ ReleasedEnded'
       /\ retained' \in [Ops -> Int] /\ reserved' \in [Ops -> Int]
       /\ released' \in SUBSET Ops
  BY <1>1, <1>9, ReleaseOnce
<1>11. exec' \in [Executors -> Ops \cup {NoOp}] /\ fence' \in BOOLEAN
  BY <1>0
<1>12. QueueTypeOK'
  BY <1>0, <1>3, <1>8, <1>9, <1>10, <1>11 DEF QueueTypeOK
<1>13. ItemsConsistent'
  BY <1>0, <1>1, <1>9 DEF ItemsConsistent
<1>. QED  BY <1>5, <1>7, <1>8, <1>10, <1>12, <1>13

\* A step that leaves the executors and the started requests alone keeps the
\* execution half of the invariant.
LEMMA ExecFrame ==
    ASSUME QueueInv, PcFrame, UNCHANGED <<active, fence, exec>>,
           status' \in [Ops -> Statuses], conc' \in [Ops -> BOOLEAN],
           \A o \in Ops : status[o] = "running"
                            => status'[o] = "running" /\ conc'[o] = conc[o]
    PROVE  ExecConsistent' /\ FenceFlag' /\ FenceExclusive' /\ ActiveCounts'
<1>. USE DEF QueueInv
<1>1. Running' = Running
  BY DEF PcFrame, Running
<1>2. \A e \in Executors : exec[e] # NoOp => exec[e] \in Ops /\ status[exec[e]] = "running"
  BY DEF ExecConsistent, QueueTypeOK
<1>3. ExecConsistent'
  BY <1>2 DEF ExecConsistent, PcFrame
<1>4. \A e \in Running : conc'[exec'[e]] = conc[exec[e]]
  BY <1>2 DEF Running, ExecConsistent
<1>5. FenceFlag' /\ FenceExclusive'
  BY <1>1, <1>4 DEF FenceFlag, FenceExclusive
<1>6. ActiveCounts'
  BY <1>1 DEF ActiveCounts
<1>. QED  BY <1>3, <1>5, <1>6

\* push preserves the invariant.
LEMMA PushInv ==
    ASSUME QueueInv, NEW o \in Ops, NEW c \in BOOLEAN, Push(o, c)
    PROVE  QueueInv'
<1>. USE DEF QueueInv
<1>0. /\ status \in [Ops -> Statuses] /\ items \in Seq(Ops) /\ Len(items) \in Nat
      /\ retained \in [Ops -> Int] /\ reserved \in [Ops -> Int]
      /\ released \in SUBSET Ops /\ arrival \in Seq(Ops)
  BY DEF QueueTypeOK
<1>1. PcFrame
  BY SignalFrame DEF Push, PushWakes
<1>2. /\ status' \in [Ops -> Statuses] /\ status'[o] = "queued" /\ status[o] = "new"
      /\ \A p \in Ops : p # o => status'[p] = status[p]
  BY <1>0 DEF Statuses, Push
<1>3. /\ conc' \in [Ops -> BOOLEAN]
      /\ \A p \in Ops : p # o => conc'[p] = conc[p]
  BY DEF Push, QueueTypeOK
<1>4. UNCHANGED <<active, fence, closed, drain, released, exec>>
  BY DEF Push
<1>5. ExecConsistent' /\ FenceFlag' /\ FenceExclusive' /\ ActiveCounts'
  BY <1>1, <1>2, <1>3, <1>4, ExecFrame
<1>6. /\ items' \in Seq(Ops) /\ Len(items') = Len(items) + 1
      /\ items'[Len(items) + 1] = o
      /\ \A i \in 1..Len(items) : items'[i] = items[i]
      /\ arrival' \in Seq(Ops)
  <2>1. items' = Append(items, o) /\ arrival' = Append(arrival, o)
    BY DEF Push
  <2>. QED  BY <2>1, <1>0
<1>7. ItemsConsistent'
  <2>1. \A i \in 1..Len(items) : items[i] \in Ops /\ items[i] # o
    BY <1>0, <1>2 DEF ItemsConsistent
  <2>2. \A i \in 1..Len(items') : i \in 1..Len(items) \/ i = Len(items) + 1
    BY <1>0, <1>6
  <2>3. \A i \in 1..Len(items') : status'[items'[i]] = "queued"
    BY <1>2, <1>6, <2>1, <2>2 DEF ItemsConsistent
  <2>4. \A i, j \in 1..Len(items') : items'[i] = items'[j] => i = j
    BY <1>6, <2>1, <2>2 DEF ItemsConsistent
  <2>5. ASSUME NEW p \in Ops, status'[p] = "queued"
        PROVE  \E i \in 1..Len(items') : items'[i] = p
    <3>1. CASE p = o
      <4>1. Len(items) + 1 \in 1..Len(items') /\ items'[Len(items) + 1] = p
        BY <3>1, <1>0, <1>6
      <4>. QED  BY <4>1
    <3>2. CASE p # o
      <4>0. status[p] = "queued"
        BY <3>2, <2>5, <1>2
      <4>1. PICK i \in 1..Len(items) : items[i] = p
        BY <4>0 DEF ItemsConsistent
      <4>2. items'[i] = items[i]
        BY <1>6
      <4>3. i \in 1..Len(items')
        BY <1>0, <1>6
      <4>. QED  BY <4>1, <4>2, <4>3
    <3>. QED  BY <3>1, <3>2
  <2>. QED  BY <2>3, <2>4, <2>5 DEF ItemsConsistent
<1>8. /\ retained' = [retained EXCEPT ![o] = @ + 1]
      /\ reserved' = [reserved EXCEPT ![o] = @ + 1]
  BY DEF Push, ChargeRetained
<1>9. QueueTypeOK'
  <2>1. retained' \in [Ops -> Int] /\ reserved' \in [Ops -> Int]
    BY <1>0, <1>8
  <2>2. /\ active \in 0..maximum /\ fence \in BOOLEAN /\ closed \in BOOLEAN
        /\ drain \in BOOLEAN /\ exec \in [Executors -> Ops \cup {NoOp}]
    BY DEF QueueTypeOK
  <2>3. pc' \in [Executors -> WorkerStates \cup ReaderStates]
    BY <1>1 DEF PcFrame
  <2>. HIDE DEF QueueInv
  <2>. QED  BY <1>0, <1>2, <1>3, <1>4, <1>6, <2>1, <2>2, <2>3 DEF QueueTypeOK
<1>10. ReleasedEnded'
  BY <1>0, <1>2, <1>4 DEF ReleasedEnded
<1>11. BytesConserved'
  BY <1>0, <1>2, <1>8 DEF BytesConserved
<1>. QED  BY <1>5, <1>7, <1>9, <1>10, <1>11

\* An admission failure preserves the invariant.
LEMMA RefuseInv ==
    ASSUME QueueInv, NEW o \in Ops, NEW c \in BOOLEAN, Refuse(o, c)
    PROVE  QueueInv'
<1>. USE DEF QueueInv, Refuse
<1>0. /\ status \in [Ops -> Statuses] /\ conc \in [Ops -> BOOLEAN]
      /\ items \in Seq(Ops) /\ released \in SUBSET Ops
      /\ pc \in [Executors -> WorkerStates \cup ReaderStates]
  BY DEF QueueTypeOK
<1>1. PcFrame
  BY <1>0, WorkersAssumption
     DEF PcFrame, ExecConsistent, Executors, WorkerStates, ReaderStates
<1>2. /\ status' \in [Ops -> Statuses] /\ status'[o] = "refused" /\ status[o] = "new"
      /\ \A p \in Ops : p # o => status'[p] = status[p]
  BY <1>0 DEF Statuses
<1>3. /\ conc' \in [Ops -> BOOLEAN]
      /\ \A p \in Ops : p # o => conc'[p] = conc[p]
  BY <1>0
<1>4. ExecConsistent' /\ FenceFlag' /\ FenceExclusive' /\ ActiveCounts'
  BY <1>1, <1>2, <1>3, ExecFrame
<1>5. released' \in SUBSET Ops /\ released' \subseteq released \cup {o}
  BY <1>0
<1>6. QueueTypeOK'
  BY <1>1, <1>2, <1>3, <1>5 DEF QueueTypeOK, PcFrame
<1>7. ItemsConsistent'
  BY <1>0, <1>2 DEF ItemsConsistent
<1>8. ReleasedEnded'
  BY <1>0, <1>2, <1>5 DEF ReleasedEnded
<1>9. BytesConserved'
  BY <1>2 DEF BytesConserved
<1>. QED  BY <1>4, <1>6, <1>7, <1>8, <1>9

-----------------------------------------------------------------------------
(* The reader's removals and the two ways to close.                        *)

\* remove preserves the invariant: the slice loses exactly the abandoned
\* request.
LEMMA RemoveInv ==
    ASSUME QueueInv, NEW i \in 1..Len(items), RemoveQueued(i)
    PROVE  QueueInv'
<1>. USE DEF QueueInv
<1>. DEFINE o == items[i]
<1>0. /\ status \in [Ops -> Statuses] /\ items \in Seq(Ops) /\ Len(items) \in Nat
      /\ conc \in [Ops -> BOOLEAN] /\ i \in 1..Len(items)
  BY DEF QueueTypeOK
<1>1. PcFrame
  <2>1. pc' \in Signalled \/ pc' = pc
    BY DEF RemoveQueued
  <2>. QED  BY <2>1, SignalFrame
<1>2. o \in Ops /\ status[o] = "queued"
  BY <1>0 DEF ItemsConsistent
<1>3. UNCHANGED <<active, fence, closed, drain, conc, arrival, exec>>
  BY DEF RemoveQueued
<1>4. /\ status' \in [Ops -> Statuses] /\ status'[o] = "dropped"
      /\ \A p \in Ops : p # o => status'[p] = status[p]
  BY <1>0, <1>2 DEF RemoveQueued, Statuses
<1>5. ExecConsistent' /\ FenceFlag' /\ FenceExclusive' /\ ActiveCounts'
  BY <1>0, <1>1, <1>2, <1>3, <1>4, ExecFrame
<1>6. /\ BytesConserved' /\ ReleasedEnded'
      /\ retained' \in [Ops -> Int] /\ reserved' \in [Ops -> Int]
      /\ released' \in SUBSET Ops
  <2>1. ReleaseRetained({o})
    BY DEF RemoveQueued
  <2>. QED  BY <1>2, <1>4, <2>1, ReleaseOnce
<1>7. items' = [j \in 1..(Len(items) - 1) |-> IF j < i THEN items[j] ELSE items[j + 1]]
  BY DEF RemoveQueued, WithoutIndex
<1>8. /\ items' \in Seq(Ops) /\ Len(items') = Len(items) - 1
      /\ \A j \in 1..Len(items') : items'[j] = IF j < i THEN items[j] ELSE items[j + 1]
  <2>1. \A j \in 1..(Len(items) - 1) : (IF j < i THEN items[j] ELSE items[j + 1]) \in Ops
    BY <1>0
  <2>2. Len(items) - 1 \in Nat
    BY <1>0
  <2>. QED  BY <1>0, <1>7, <2>1, <2>2
<1>9. QueueTypeOK'
  BY <1>0, <1>1, <1>3, <1>4, <1>6, <1>8 DEF QueueTypeOK, PcFrame
<1>10. ItemsConsistent'
  <2>. DEFINE from(j) == IF j < i THEN j ELSE j + 1
  <2>0. \A j \in 1..Len(items') :
            from(j) \in 1..Len(items) /\ from(j) # i /\ items'[j] = items[from(j)]
    BY <1>0, <1>8
  <2>1. \A j \in 1..Len(items') : \E k \in 1..Len(items) :
            items'[j] = items[k] /\ k # i /\ k = (IF j < i THEN j ELSE j + 1)
    BY <2>0
  <2>2. \A j \in 1..Len(items') : status'[items'[j]] = "queued"
    <3>. SUFFICES ASSUME NEW j \in 1..Len(items') PROVE status'[items'[j]] = "queued"
      OBVIOUS
    <3>1. PICK k \in 1..Len(items) : items'[j] = items[k] /\ k # i
      BY <2>1
    <3>2. items[k] # o /\ items[k] \in Ops /\ status[items[k]] = "queued"
      BY <3>1, <1>0 DEF ItemsConsistent
    <3>. QED  BY <3>1, <3>2, <1>4
  <2>3. \A j, k \in 1..Len(items') : items'[j] = items'[k] => j = k
    <3>. SUFFICES ASSUME NEW j \in 1..Len(items'), NEW k \in 1..Len(items'),
                         items'[j] = items'[k]
                  PROVE  j = k
      OBVIOUS
    <3>1. PICK a \in 1..Len(items) : items'[j] = items[a] /\ a = (IF j < i THEN j ELSE j + 1)
      BY <2>1
    <3>2. PICK b \in 1..Len(items) : items'[k] = items[b] /\ b = (IF k < i THEN k ELSE k + 1)
      BY <2>1
    <3>3. a = b
      BY <3>1, <3>2, ZenonT(30) DEF ItemsConsistent
    <3>. HIDE DEF QueueInv
    <3>4. i \in Int /\ j \in Int /\ k \in Int
      BY <1>0, SMTT(40)
    <3>. QED  BY <3>1, <3>2, <3>3, <3>4, SMTT(40)
  <2>4. ASSUME NEW p \in Ops, status'[p] = "queued"
        PROVE  \E j \in 1..Len(items') : items'[j] = p
    <3>1. p # o
      BY <2>4, <1>4
    <3>2. PICK k \in 1..Len(items) : items[k] = p
      BY <2>4, <3>1, <1>4 DEF ItemsConsistent
    <3>3. CASE k < i
      <4>1. k \in 1..Len(items') /\ items'[k] = p
        BY <3>2, <3>3, <1>0, <1>8
      <4>. QED  BY <4>1
    <3>4. CASE k > i
      <4>1. k - 1 \in 1..Len(items') /\ items'[k - 1] = p
        BY <3>2, <3>4, <1>0, <1>8
      <4>. QED  BY <4>1
    <3>5. k # i
      BY <3>1, <3>2
    <3>. QED  BY <3>3, <3>4, <3>5, <1>0
  <2>. QED  BY <2>2, <2>3, <2>4 DEF ItemsConsistent
<1>. QED  BY <1>5, <1>6, <1>9, <1>10

\* Emptying the queue (Bind discard, close) ends every queued request and
\* releases its bytes once.
LEMMA EmptyQueueInv ==
    ASSUME QueueInv, PcFrame, DropAll,
           closed' \in BOOLEAN, drain' \in BOOLEAN,
           UNCHANGED <<active, fence, conc, arrival, exec>>
    PROVE  QueueInv'
<1>. USE DEF QueueInv, DropAll
<1>0. /\ status \in [Ops -> Statuses] /\ items \in Seq(Ops)
      /\ conc \in [Ops -> BOOLEAN]
  BY DEF QueueTypeOK
<1>1. /\ ToSet(items) \in SUBSET Ops
      /\ \A o \in Ops : o \in ToSet(items) <=> status[o] = "queued"
  <2>1. \A o : o \in ToSet(items) <=> \E i \in 1..Len(items) : items[i] = o
    BY <1>0 DEF ToSet
  <2>. QED  BY <2>1, <1>0 DEF ItemsConsistent
<1>2. /\ status' \in [Ops -> Statuses]
      /\ \A o \in ToSet(items) : status'[o] = "dropped"
      /\ \A o \in Ops : o \notin ToSet(items) => status'[o] = status[o]
  BY <1>0, <1>1 DEF Statuses
<1>3. ExecConsistent' /\ FenceFlag' /\ FenceExclusive' /\ ActiveCounts'
  BY <1>0, <1>1, <1>2, ExecFrame
<1>4. /\ BytesConserved' /\ ReleasedEnded'
      /\ retained' \in [Ops -> Int] /\ reserved' \in [Ops -> Int]
      /\ released' \in SUBSET Ops
  BY <1>1, <1>2, ReleaseOnce
<1>5. QueueTypeOK'
  BY <1>0, <1>2, <1>4 DEF QueueTypeOK, PcFrame
<1>6. ItemsConsistent'
  BY <1>1, <1>2 DEF ItemsConsistent
<1>. QED  BY <1>3, <1>4, <1>5, <1>6

\* Broadcast, with the reader moved to "closed", is a frame for the executors.
LEMMA CloseFrame ==
    ASSUME QueueInv, pc[Reader] \in {"read", "stop"},
           pc' = [Broadcast EXCEPT ![Reader] = "closed"]
    PROVE  PcFrame
BY WorkersAssumption
   DEF QueueInv, QueueTypeOK, ExecConsistent, PcFrame, Broadcast, WakeUp,
       Waiters, Executors, WorkerStates, ReaderStates

-----------------------------------------------------------------------------
\* Every step of the queue preserves the invariant.
LEMMA NextQueueInv == QueueInv /\ [QueueNext]_queueVars => QueueInv'
<1>. SUFFICES ASSUME QueueInv, [QueueNext]_queueVars PROVE QueueInv'
  OBVIOUS
<1>1. CASE ReaderStep
  <2>1. ASSUME NEW o \in Ops, TryClaimIdleSimpleBind(o) PROVE QueueInv'
    BY <2>1, ClaimInv
  <2>2. ASSUME NEW o \in Ops, NEW c \in BOOLEAN, Push(o, c) PROVE QueueInv'
    BY <2>2, PushInv
  <2>3. ASSUME NEW o \in Ops, NEW c \in BOOLEAN, Refuse(o, c) PROVE QueueInv'
    BY <2>3, RefuseInv
  <2>4. ASSUME NEW i \in 1..Len(items), RemoveQueued(i) PROVE QueueInv'
    BY <2>4, RemoveInv
  <2>5. CASE DiscardPending
    <3>1. PcFrame
      <4>1. CASE items # <<>> \/ closed
        BY <2>5, <4>1, WakeUpFrame DEF DiscardPending, Broadcast
      <4>2. CASE ~(items # <<>> \/ closed)
        BY <2>5, <4>2, SignalFrame DEF DiscardPending
      <4>. QED  BY <4>1, <4>2
    <3>2. closed' \in BOOLEAN /\ drain' \in BOOLEAN
      BY <2>5 DEF DiscardPending, QueueInv, QueueTypeOK
    <3>. QED  BY <2>5, <3>1, <3>2, EmptyQueueInv DEF DiscardPending
  <2>6. CASE Close
    <3>1. PcFrame
      BY <2>6, CloseFrame DEF Close
    <3>. QED  BY <2>6, <3>1, EmptyQueueInv DEF Close
  <2>7. CASE CloseAndDrain
    <3>1. PcFrame
      BY <2>7, CloseFrame DEF CloseAndDrain
    <3>2. /\ UNCHANGED <<items, active, fence, retained, conc, status, arrival,
                         reserved, released, exec>>
          /\ closed' \in BOOLEAN /\ drain' \in BOOLEAN
      BY <2>7 DEF CloseAndDrain
    <3>3. Running' = Running
      BY <3>1 DEF PcFrame, Running
    <3>4. QueueTypeOK' /\ ExecConsistent'
      BY <3>1, <3>2 DEF QueueInv, QueueTypeOK, ExecConsistent, PcFrame
    <3>5. FenceFlag' /\ FenceExclusive' /\ ActiveCounts'
      BY <3>2, <3>3 DEF QueueInv, FenceFlag, FenceExclusive, ActiveCounts
    <3>6. ItemsConsistent' /\ ReleasedEnded' /\ BytesConserved'
      BY <3>2 DEF QueueInv, ItemsConsistent, ReleasedEnded, BytesConserved
    <3>. QED  BY <3>4, <3>5, <3>6 DEF QueueInv
  <2>. QED  BY <1>1, <2>1, <2>2, <2>3, <2>4, <2>5, <2>6, <2>7 DEF ReaderStep
<1>2. ASSUME NEW w \in Workers, WorkerStep(w) PROVE QueueInv'
  <2>1. CASE Pop(w)
    BY <2>1, PopInv
  <2>2. CASE PopWait(w)
    <3>1. PcFrame
      BY <2>2, WorkersAssumption
         DEF PopWait, PcFrame, QueueInv, QueueTypeOK, ExecConsistent, Executors,
             WorkerStates, ReaderStates
    <3>. QED  BY <2>2, <3>1, PcStepInv DEF PopWait
  <2>3. CASE PopExit(w)
    <3>1. PcFrame
      BY <2>3, WorkersAssumption
         DEF PopExit, PcFrame, QueueInv, QueueTypeOK, ExecConsistent, Executors,
             WorkerStates, ReaderStates
    <3>. QED  BY <2>3, <3>1, PcStepInv DEF PopExit
  <2>. QED  BY <1>2, <2>1, <2>2, <2>3 DEF WorkerStep
<1>3. ASSUME NEW e \in Executors, ExecutorStep(e) PROVE QueueInv'
  <2>1. CASE Complete(e)
    BY <2>1, CompleteInv
  <2>2. CASE Continue(e) \/ GiveUp(e)
    <3>1. PICK next \in {"read", "stop", "pop", "exit"} :
             /\ pc[e] = "return" /\ pc' = [pc EXCEPT ![e] = next]
             /\ e = Reader => next \in ReaderStates
             /\ e # Reader => next \in WorkerStates
      BY <2>2 DEF Continue, GiveUp, WorkerStates, ReaderStates
    <3>2. PcFrame
      BY <3>1, WorkersAssumption
         DEF PcFrame, QueueInv, QueueTypeOK, ExecConsistent,
             Executors, WorkerStates, ReaderStates
    <3>. QED  BY <2>2, <3>2, PcStepInv DEF Continue, GiveUp
  <2>. QED  BY <1>3, <2>1, <2>2 DEF ExecutorStep
<1>4. CASE UNCHANGED queueVars
  <2>1. PcFrame
    BY <1>4, SignalFrame DEF queueVars
  <2>. QED  BY <1>4, <2>1, PcStepInv DEF queueVars
<1>. QED  BY <1>1, <1>2, <1>3, <1>4 DEF QueueNext

\* The invariant holds in every reachable state of the queue.
THEOREM QueueInvariant == QueueSpec => []QueueInv
<1>. QED  BY InitQueueInv, NextQueueInv, PTL DEF QueueSpec

\* Type correctness of the queue.
THEOREM QueueTypeCorrect == QueueSpec => []QueueTypeOK
<1>1. QueueInv => QueueTypeOK
  BY DEF QueueInv
<1>. QED  BY <1>1, QueueInvariant, PTL

\* operationQueue: a fence never overlaps any other operation, for any number
\* of workers and any sequence of pushes, claims, removals and closes.
THEOREM FencesAreExclusive == QueueSpec => []FenceExclusive
<1>1. QueueInv => FenceExclusive
  BY DEF QueueInv
<1>. QED  BY <1>1, QueueInvariant, PTL

\* operationQueue.active is the number of executing goroutines and never
\* passes the configured maximum.
THEOREM ActiveIsExact == QueueSpec => []ActiveCounts
<1>1. QueueInv => ActiveCounts
  BY DEF QueueInv
<1>. QED  BY <1>1, QueueInvariant, PTL

\* Retained-byte accounting: every request is charged exactly once, in both
\* counters, from admission to its end.
THEOREM BytesAreConserved == QueueSpec => []BytesConserved
<1>1. QueueInv => BytesConserved
  BY DEF QueueInv
<1>. QED  BY <1>1, QueueInvariant, PTL

-----------------------------------------------------------------------------
(* The wakeups.                                                            *)

Poppers == {w \in Workers : pc[w] = "pop"}

NoFenceDropped == \A o \in Ops : status[o] = "dropped" => conc[o]

\* The first k requests of the queue could be started one after the other.
Startable(k) ==
    /\ ~fence
    /\ active + k <= maximum
    /\ (\A i \in 1..k : conc[items[i]]) \/ (k = 1 /\ active = 0)

\* While a worker sleeps, as many are on their way to pop as there are
\* startable requests, unless a queued fence was dropped.
HeadsServed ==
    (NoFenceDropped /\ Waiters # {})
        => \A k \in 1..Len(items) : Startable(k) => k <= Cardinality(Poppers)

\* An idle queue that holds requests and has a sleeper has a worker on its way.
IdleServed ==
    (items # <<>> /\ active = 0) => Poppers # {} \/ Waiters = {}

\* Nothing is read once the queue is closed, and only a draining queue keeps
\* its requests.
ClosedForGood ==
    /\ closed <=> pc[Reader] = "closed"
    /\ closed /\ ~drain => items = <<>>

WakeInv == ClosedForGood /\ IdleServed /\ HeadsServed

\* The poppers can be counted.
LEMMA PoppersFinite == IsFiniteSet(Poppers) /\ Cardinality(Poppers) \in Nat
<1>1. IsFiniteSet(Poppers)
  BY WorkersAssumption, FS_Subset DEF Poppers
<1>. QED  BY <1>1, FS_CardinalityType

\* A step that takes nobody out of pop leaves at least as many on their way.
LEMMA MorePoppers ==
    ASSUME QueueTypeOK, Poppers \subseteq Poppers'
    PROVE  /\ Cardinality(Poppers') \in Nat
           /\ Cardinality(Poppers) <= Cardinality(Poppers')
<1>1. IsFiniteSet(Poppers')
  BY WorkersAssumption, FS_Subset DEF Poppers
<1>. QED  BY <1>1, FS_CardinalityType, FS_Subset, PoppersFinite

\* What Signal does to the sleepers and to the workers on their way to pop.
LEMMA SignalPops ==
    ASSUME QueueInv, pc' \in Signalled
    PROVE  /\ pc'[Reader] = pc[Reader]
           /\ Waiters' \subseteq Waiters
           /\ Poppers \subseteq Poppers'
           /\ Waiters # {} => Cardinality(Poppers') = Cardinality(Poppers) + 1
<1>0. pc \in [Executors -> WorkerStates \cup ReaderStates]
  BY DEF QueueInv, QueueTypeOK
<1>1. CASE Waiters = {}
  BY <1>1 DEF Signalled, Waiters, Poppers
<1>2. CASE Waiters # {}
  <2>1. PICK w \in Waiters : pc' = WakeUp({w})
    BY <1>2 DEF Signalled
  <2>2. w \in Workers /\ pc[w] = "wait"
    BY DEF Waiters
  <2>3. \A e \in Executors : pc'[e] = IF e = w THEN "pop" ELSE pc[e]
    BY <2>1 DEF WakeUp
  <2>4. pc'[Reader] = pc[Reader]
    BY <2>2, <2>3, WorkersAssumption DEF Executors
  <2>5. Waiters' \subseteq Waiters
    BY <2>3 DEF Waiters, Executors
  <2>6. Poppers' = Poppers \cup {w} /\ w \notin Poppers
    BY <2>2, <2>3 DEF Poppers, Executors
  <2>7. Cardinality(Poppers') = Cardinality(Poppers) + 1
    BY <2>6, PoppersFinite, FS_AddElement
  <2>. QED  BY <2>4, <2>5, <2>6, <2>7
<1>. QED  BY <1>1, <1>2

\* After a Broadcast nobody sleeps.
LEMMA BroadcastPops ==
    ASSUME QueueInv
    PROVE  /\ Broadcast[Reader] = pc[Reader]
           /\ \A w \in Workers : Broadcast[w] = IF pc[w] = "wait" THEN "pop" ELSE pc[w]
BY WorkersAssumption DEF Broadcast, WakeUp, Waiters, Executors

\* Dropped requests stay dropped and keep their classification.
NoFenceDroppedFrame ==
    \A o \in Ops : status[o] = "dropped" => status'[o] = "dropped" /\ conc'[o] = conc[o]

LEMMA FenceDropsStay ==
    ASSUME NoFenceDroppedFrame, NoFenceDropped'
    PROVE  NoFenceDropped
BY DEF NoFenceDroppedFrame, NoFenceDropped

\* Steps that change neither the queue nor what executes, and take nobody out
\* of pop.
LEMMA CalmWake ==
    ASSUME QueueInv, WakeInv, NoFenceDroppedFrame,
           UNCHANGED <<items, active, fence, closed, drain>>,
           \A i \in 1..Len(items) : conc'[items[i]] = conc[items[i]],
           closed <=> pc'[Reader] = "closed",
           Waiters' \subseteq Waiters, Poppers \subseteq Poppers'
    PROVE  WakeInv'
<1>1. ClosedForGood'
  BY DEF WakeInv, ClosedForGood
<1>2. IdleServed'
  BY DEF WakeInv, IdleServed
<1>3. HeadsServed'
  <2>. SUFFICES ASSUME NoFenceDropped', Waiters' # {},
                       NEW k \in 1..Len(items), Startable(k)'
                PROVE  k <= Cardinality(Poppers')
    BY DEF HeadsServed
  <2>0. items \in Seq(Ops) /\ Len(items) \in Nat
    BY DEF QueueInv, QueueTypeOK
  <2>1. Startable(k)
    BY <2>0 DEF Startable
  <2>2. k <= Cardinality(Poppers)
    BY <2>1, FenceDropsStay DEF WakeInv, HeadsServed
  <2>3. QueueTypeOK
    BY DEF QueueInv
  <2>. QED  BY <2>0, <2>2, <2>3, MorePoppers, PoppersFinite
<1>. QED  BY <1>1, <1>2, <1>3 DEF WakeInv

\* Steps after which the queue is empty or nobody sleeps.
LEMMA QuietWake ==
    ASSUME ClosedForGood', items' = <<>> \/ Waiters' = {}
    PROVE  WakeInv'
<1>1. IdleServed'
  BY DEF IdleServed
<1>2. HeadsServed'
  <2>1. CASE Waiters' = {}
    BY <2>1 DEF HeadsServed
  <2>2. CASE items' = <<>>
    <3>1. 1..Len(items') = {}
      BY <2>2
    <3>. QED  BY <3>1 DEF HeadsServed
  <2>. QED  BY <2>1, <2>2
<1>. QED  BY <1>1, <1>2 DEF WakeInv

\* push signals one worker for the one request it adds.
LEMMA PushWake ==
    ASSUME QueueInv, WakeInv, NEW o \in Ops, NEW c \in BOOLEAN, Push(o, c)
    PROVE  WakeInv'
<1>0. /\ items \in Seq(Ops) /\ Len(items) \in Nat /\ status \in [Ops -> Statuses]
      /\ conc \in [Ops -> BOOLEAN] /\ active \in Nat
  BY RunningFinite DEF QueueInv, QueueTypeOK
<1>1. /\ pc' \in Signalled /\ status[o] = "new" /\ items' = Append(items, o)
      /\ status' = [status EXCEPT ![o] = "queued"]
      /\ conc' = [conc EXCEPT ![o] = c]
      /\ UNCHANGED <<active, fence, closed, drain>> /\ ~closed
  BY DEF Push, PushWakes
<1>2. /\ Len(items') = Len(items) + 1 /\ items'[Len(items) + 1] = o
      /\ \A i \in 1..Len(items) : items'[i] = items[i]
  BY <1>0, <1>1
<1>3. \A i \in 1..Len(items) : conc'[items'[i]] = conc[items[i]]
  <2>1. \A i \in 1..Len(items) : items[i] \in Ops /\ items[i] # o
    BY <1>0, <1>1 DEF QueueInv, ItemsConsistent
  <2>. QED  BY <2>1, <1>0, <1>1, <1>2
<1>4. NoFenceDroppedFrame
  BY <1>0, <1>1 DEF NoFenceDroppedFrame
<1>5. /\ pc'[Reader] = pc[Reader]
      /\ Waiters' \subseteq Waiters
      /\ Poppers \subseteq Poppers'
      /\ Waiters # {} => Cardinality(Poppers') = Cardinality(Poppers) + 1
  BY <1>1, SignalPops
<1>6. ClosedForGood'
  BY <1>1, <1>5 DEF WakeInv, ClosedForGood
<1>7. IdleServed'
  <2>1. CASE Waiters = {}
    BY <2>1, <1>5 DEF IdleServed
  <2>2. CASE Waiters # {}
    <3>1. Cardinality(Poppers') # 0
      BY <2>2, <1>5, PoppersFinite
    <3>2. Poppers' # {}
      BY <3>1, FS_EmptySet
    <3>. QED  BY <3>2 DEF IdleServed
  <2>. QED  BY <2>1, <2>2
<1>8. HeadsServed'
  <2>. SUFFICES ASSUME NoFenceDropped', Waiters' # {},
                       NEW k \in 1..Len(items'), Startable(k)'
                PROVE  k <= Cardinality(Poppers')
    BY DEF HeadsServed
  <2>0. k \in Nat /\ k >= 1 /\ k <= Len(items) + 1 /\ maximum \in Nat
    BY <1>0, <1>2, RunningFinite
  <2>1. /\ Waiters # {} /\ Cardinality(Poppers') = Cardinality(Poppers) + 1
        /\ Cardinality(Poppers) \in Nat
    BY <1>5, PoppersFinite
  <2>2. \A n \in 1..Len(items) : Startable(n) => n <= Cardinality(Poppers)
    BY <2>1, <1>4, FenceDropsStay DEF WakeInv, HeadsServed
  <2>3. CASE k = 1
    BY <2>1, <2>3
  <2>4. CASE k > 1
    <3>1. k - 1 \in 1..Len(items) /\ ~fence /\ active + (k - 1) <= maximum
      BY <2>0, <2>4, <1>0, <1>1 DEF Startable
    <3>2. \A i \in 1..(k - 1) : conc[items[i]]
      <4>1. \A i \in 1..k : conc'[items'[i]]
        BY <2>4 DEF Startable
      <4>2. \A i \in 1..(k - 1) : i \in 1..k /\ i \in 1..Len(items)
        BY <2>0, <3>1, <1>0
      <4>. QED  BY <4>1, <4>2, <1>3
    <3>3. Startable(k - 1)
      BY <3>1, <3>2 DEF Startable
    <3>4. k - 1 <= Cardinality(Poppers)
      BY <2>2, <3>1, <3>3
    <3>. QED  BY <3>4, <2>0, <2>1
  <2>. QED  BY <2>0, <2>3, <2>4
<1>. QED  BY <1>6, <1>7, <1>8 DEF WakeInv

\* pop uses one wakeup for one request.
LEMMA PopWake ==
    ASSUME QueueInv, WakeInv, NEW w \in Workers, Pop(w)
    PROVE  WakeInv'
<1>0. /\ items \in Seq(Ops) /\ Len(items) \in Nat /\ status \in [Ops -> Statuses]
      /\ conc \in [Ops -> BOOLEAN] /\ active \in Nat /\ maximum \in Nat
      /\ pc \in [Executors -> WorkerStates \cup ReaderStates]
  BY RunningFinite DEF QueueInv, QueueTypeOK
<1>1. /\ pc[w] = "pop" /\ items # <<>> /\ items' = Tail(items) /\ active' = active + 1
      /\ fence' = (fence \/ ~conc[Head(items)])
      /\ status' = [status EXCEPT ![Head(items)] = "running"]
      /\ pc' = [pc EXCEPT ![w] = "run"]
      /\ UNCHANGED <<closed, drain, conc>>
  BY DEF Pop, HeadEligible
<1>2. /\ Len(items) >= 1 /\ Len(items') = Len(items) - 1 /\ Head(items) = items[1]
      /\ \A i \in 1..Len(items') : items'[i] = items[i + 1]
  BY <1>0, <1>1
<1>3. w \in Executors /\ w # Reader /\ Reader \in Executors
  BY WorkersAssumption DEF Executors
<1>4. Poppers = Poppers' \cup {w} /\ w \notin Poppers' /\ Waiters' = Waiters
  BY <1>0, <1>1, <1>3 DEF Poppers, Waiters, Executors
<1>5. Cardinality(Poppers) = Cardinality(Poppers') + 1 /\ Cardinality(Poppers') \in Nat
  <2>1. IsFiniteSet(Poppers')
    BY <1>4, PoppersFinite, FS_Subset
  <2>. QED  BY <1>4, <2>1, FS_AddElement, FS_CardinalityType
<1>6. ClosedForGood'
  <2>1. pc'[Reader] = pc[Reader]
    BY <1>0, <1>1, <1>3
  <2>. QED  BY <2>1, <1>1 DEF WakeInv, ClosedForGood
<1>7. IdleServed'
  BY <1>0, <1>1 DEF IdleServed
<1>8. NoFenceDroppedFrame
  <2>1. status[Head(items)] = "queued"
    BY <1>0, <1>2 DEF QueueInv, ItemsConsistent
  <2>. QED  BY <2>1, <1>0, <1>1 DEF NoFenceDroppedFrame
<1>9. HeadsServed'
  <2>. SUFFICES ASSUME NoFenceDropped', Waiters' # {},
                       NEW k \in 1..Len(items'), Startable(k)'
                PROVE  k <= Cardinality(Poppers')
    BY DEF HeadsServed
  <2>1. k \in Nat /\ k >= 1 /\ k + 1 \in 1..Len(items)
    BY <1>0, <1>2
  <2>2. ~fence /\ conc[items[1]] /\ active + (k + 1) <= maximum
    BY <1>0, <1>1, <1>2, <2>1 DEF Startable
  <2>3. \A i \in 1..k : conc'[items'[i]]
    BY <1>0, <1>1, <2>1 DEF Startable
  <2>4. \A i \in 1..(k + 1) : conc[items[i]]
    <3>. SUFFICES ASSUME NEW i \in 1..(k + 1), i # 1 PROVE conc[items[i]]
      BY <2>2
    <3>1. i - 1 \in 1..k /\ i - 1 \in 1..Len(items') /\ (i - 1) + 1 = i
      BY <2>1, <1>2
    <3>. QED  BY <3>1, <2>3, <1>1, <1>2
  <2>5. Startable(k + 1)
    BY <2>2, <2>4 DEF Startable
  <2>6. k + 1 <= Cardinality(Poppers)
    BY <2>1, <2>5, <1>4, <1>8, FenceDropsStay DEF WakeInv, HeadsServed
  <2>. QED  BY <2>1, <2>6, <1>5
<1>. QED  BY <1>6, <1>7, <1>9 DEF WakeInv

\* A worker goes to sleep only when nothing is startable.
LEMMA PopWaitWake ==
    ASSUME QueueInv, WakeInv, NEW w \in Workers, PopWait(w)
    PROVE  WakeInv'
<1>0. /\ items \in Seq(Ops) /\ Len(items) \in Nat /\ active \in Nat /\ maximum \in Nat
      /\ pc \in [Executors -> WorkerStates \cup ReaderStates]
  BY RunningFinite DEF QueueInv, QueueTypeOK
<1>1. /\ pc' = [pc EXCEPT ![w] = "wait"]
      /\ UNCHANGED <<items, active, fence, closed, drain, conc>>
      /\ items # <<>> => ~HeadEligible
  BY DEF PopWait
<1>2. ClosedForGood'
  <2>1. pc'[Reader] = pc[Reader]
    BY <1>0, <1>1, WorkersAssumption DEF Executors
  <2>. QED  BY <2>1, <1>1 DEF WakeInv, ClosedForGood
<1>3. CASE items = <<>>
  BY <1>1, <1>2, <1>3, QuietWake
<1>4. CASE items # <<>>
  <2>1. Head(items) = items[1] /\ Len(items) >= 1
    BY <1>0, <1>4
  <2>2. \A k \in 1..Len(items) : ~Startable(k)'
    <3>. SUFFICES ASSUME NEW k \in 1..Len(items), Startable(k)' PROVE FALSE
      OBVIOUS
    <3>1. ~fence /\ active < maximum
      BY <1>0, <1>1 DEF Startable
    <3>2. conc[items[1]] \/ active = 0
      <4>1. 1 \in 1..k
        BY <1>0
      <4>. QED  BY <4>1, <1>1 DEF Startable
    <3>. QED  BY <1>1, <1>4, <2>1, <3>1, <3>2 DEF HeadEligible
  <2>3. active # 0
    <3>. SUFFICES ASSUME active = 0 PROVE FALSE
      OBVIOUS
    <3>1. Running = {}
      BY RunningFinite, FS_EmptySet DEF QueueInv, ActiveCounts
    <3>2. ~fence
      BY <3>1 DEF QueueInv, FenceFlag
    <3>3. active < maximum
      <4>1. Cardinality(Workers) # 0
        BY WorkersAssumption, FS_EmptySet
      <4>. QED  BY <4>1, <1>0 DEF maximum
    <3>. QED  BY <3>2, <3>3, <1>1, <1>4 DEF HeadEligible
  <2>4. HeadsServed' /\ IdleServed'
    BY <2>2, <2>3, <1>1 DEF HeadsServed, IdleServed
  <2>. QED  BY <1>2, <2>4 DEF WakeInv
<1>. QED  BY <1>3, <1>4

\* remove: without a fence the abandoned request made nothing startable.
LEMMA RemoveWake ==
    ASSUME QueueInv, WakeInv, NEW i \in 1..Len(items), RemoveQueued(i)
    PROVE  WakeInv'
<1>0. /\ items \in Seq(Ops) /\ Len(items) \in Nat /\ status \in [Ops -> Statuses]
      /\ conc \in [Ops -> BOOLEAN] /\ items[i] \in Ops /\ status[items[i]] = "queued"
  BY DEF QueueInv, QueueTypeOK, ItemsConsistent
<1>1. /\ pc' \in Signalled \/ pc' = pc
      /\ items' = WithoutIndex(items, i)
      /\ status' = [status EXCEPT ![items[i]] = "dropped"]
      /\ pc[Reader] = "read"
      /\ UNCHANGED <<active, fence, closed, drain, conc>>
  BY DEF RemoveQueued
<1>2. /\ Len(items') = Len(items) - 1
      /\ \A j \in 1..Len(items') : items'[j] = IF j < i THEN items[j] ELSE items[j + 1]
  <2>1. Len(items) - 1 \in Nat
    BY <1>0
  <2>. QED  BY <1>1, <2>1 DEF WithoutIndex
<1>3. /\ pc'[Reader] = pc[Reader]
      /\ Waiters' \subseteq Waiters
      /\ Poppers \subseteq Poppers'
  <2>1. CASE pc' \in Signalled
    BY <2>1, SignalPops
  <2>2. CASE pc' = pc
    BY <2>2 DEF Waiters, Poppers
  <2>. QED  BY <1>1, <2>1, <2>2
<1>4. ClosedForGood'
  BY <1>1, <1>3 DEF WakeInv, ClosedForGood
<1>5. IdleServed'
  <2>1. items # <<>>
    BY <1>0
  <2>. QED  BY <2>1, <1>1, <1>3 DEF WakeInv, IdleServed
<1>6. NoFenceDroppedFrame
  BY <1>0, <1>1 DEF NoFenceDroppedFrame
<1>7. HeadsServed'
  <2>. SUFFICES ASSUME NoFenceDropped', Waiters' # {},
                       NEW k \in 1..Len(items'), Startable(k)'
                PROVE  k <= Cardinality(Poppers')
    BY DEF HeadsServed
  <2>1. conc[items[i]]
    BY <1>0, <1>1 DEF NoFenceDropped
  <2>2. k \in 1..Len(items)
    BY <1>0, <1>2
  <2>3. ASSUME \A j \in 1..k : conc'[items'[j]]
        PROVE  \A j \in 1..k : conc[items[j]]
    <3>. SUFFICES ASSUME NEW j \in 1..k PROVE conc[items[j]]
      OBVIOUS
    <3>1. CASE j < i
      <4>1. j \in 1..Len(items')
        BY <1>0, <1>2
      <4>. QED  BY <4>1, <3>1, <2>3, <1>1, <1>2
    <3>2. CASE j = i
      BY <3>2, <2>1
    <3>3. CASE j > i
      <4>1. j - 1 \in 1..Len(items') /\ j - 1 \in 1..k /\ ~(j - 1 < i) /\ (j - 1) + 1 = j
        BY <3>3, <1>0, <1>2
      <4>2. items'[j - 1] = items[j]
        BY <4>1, <1>2
      <4>. QED  BY <4>1, <4>2, <2>3, <1>1
    <3>. QED  BY <3>1, <3>2, <3>3, <1>0
  <2>4. Startable(k)
    BY <2>3, <1>1 DEF Startable
  <2>5. k <= Cardinality(Poppers)
    BY <2>2, <2>4, <1>3, <1>6, FenceDropsStay DEF WakeInv, HeadsServed
  <2>6. QueueTypeOK
    BY DEF QueueInv
  <2>. QED  BY <2>2, <2>5, <2>6, <1>0, <1>3, MorePoppers, PoppersFinite
<1>. QED  BY <1>4, <1>5, <1>7 DEF WakeInv

\* complete wakes every sleeper when there is something to wake up for.
LEMMA CompleteWake ==
    ASSUME QueueInv, WakeInv, NEW e \in Executors, Complete(e)
    PROVE  WakeInv'
<1>0. pc \in [Executors -> WorkerStates \cup ReaderStates]
  BY DEF QueueInv, QueueTypeOK
<1>1. /\ pc[e] = "run" /\ UNCHANGED <<items, closed, drain>>
      /\ \E woken \in CompleteWakes : pc' = [woken EXCEPT ![e] = "return"]
  BY DEF Complete
<1>2. CASE items # <<>> \/ closed
  <2>1. pc' = [Broadcast EXCEPT ![e] = "return"]
    BY <1>1, <1>2 DEF CompleteWakes
  <2>2. Broadcast \in [Executors -> WorkerStates \cup ReaderStates]
    BY <1>0 DEF Broadcast, WakeUp, WorkerStates, ReaderStates
  <2>3. Waiters' = {}
    BY <2>1, <2>2, BroadcastPops DEF Waiters, Executors
  <2>4. pc'[Reader] = "closed" <=> pc[Reader] = "closed"
    BY <1>1, <2>1, <2>2, BroadcastPops DEF Executors
  <2>5. ClosedForGood'
    BY <1>1, <2>4 DEF WakeInv, ClosedForGood
  <2>. QED  BY <2>3, <2>5, QuietWake
<1>3. CASE ~(items # <<>> \/ closed)
  <2>1. pc' = [pc EXCEPT ![e] = "return"]
    BY <1>1, <1>3 DEF CompleteWakes
  <2>2. pc'[Reader] # "closed"
    BY <1>0, <1>1, <1>3, <2>1 DEF WakeInv, ClosedForGood, Executors
  <2>3. ClosedForGood'
    BY <1>1, <1>3, <2>2 DEF ClosedForGood
  <2>. QED  BY <1>1, <1>3, <2>3, QuietWake
<1>. QED  BY <1>2, <1>3

\* close and closeAndDrain wake every sleeper.
LEMMA CloseWake ==
    ASSUME QueueInv, WakeInv, closed' = TRUE,
           pc' = [Broadcast EXCEPT ![Reader] = "closed"],
           ~drain' => items' = <<>>
    PROVE  WakeInv'
<1>0. pc \in [Executors -> WorkerStates \cup ReaderStates]
  BY DEF QueueInv, QueueTypeOK
<1>1. Broadcast \in [Executors -> WorkerStates \cup ReaderStates]
  BY <1>0 DEF Broadcast, WakeUp, WorkerStates, ReaderStates
<1>2. Waiters' = {}
  BY <1>1, WorkersAssumption, BroadcastPops DEF Waiters, Executors
<1>3. pc'[Reader] = "closed"
  BY <1>1 DEF Executors
<1>4. ClosedForGood'
  BY <1>3 DEF ClosedForGood
<1>. QED  BY <1>2, <1>4, QuietWake

\* Every step of the queue keeps the wakeups in step with the requests.
LEMMA NextWakeInv == QueueInv /\ WakeInv /\ [QueueNext]_queueVars => WakeInv'
<1>. SUFFICES ASSUME QueueInv, WakeInv, [QueueNext]_queueVars PROVE WakeInv'
  OBVIOUS
<1>0. /\ pc \in [Executors -> WorkerStates \cup ReaderStates]
      /\ conc \in [Ops -> BOOLEAN] /\ status \in [Ops -> Statuses]
      /\ items \in Seq(Ops)
  BY DEF QueueInv, QueueTypeOK
<1>1. CASE ReaderStep
  <2>1. ASSUME NEW o \in Ops, TryClaimIdleSimpleBind(o) PROVE WakeInv'
    <3>1. /\ items' = <<>> /\ ~closed /\ closed' = closed
          /\ pc' = [pc EXCEPT ![Reader] = "run"]
      BY <2>1 DEF TryClaimIdleSimpleBind
    <3>2. pc'[Reader] = "run"
      BY <1>0, <3>1 DEF Executors
    <3>3. ClosedForGood'
      BY <3>1, <3>2 DEF ClosedForGood
    <3>. QED  BY <3>1, <3>3, QuietWake
  <2>2. ASSUME NEW o \in Ops, NEW c \in BOOLEAN, Push(o, c) PROVE WakeInv'
    BY <2>2, PushWake
  <2>3. ASSUME NEW o \in Ops, NEW c \in BOOLEAN, Refuse(o, c) PROVE WakeInv'
    <3>1. /\ pc[Reader] = "read" /\ pc' = [pc EXCEPT ![Reader] = "stop"]
          /\ status[o] = "new" /\ status' = [status EXCEPT ![o] = "refused"]
          /\ conc' = [conc EXCEPT ![o] = c]
          /\ UNCHANGED <<items, active, fence, closed, drain>>
      BY <2>3 DEF Refuse
    <3>2. NoFenceDroppedFrame
      BY <1>0, <3>1 DEF NoFenceDroppedFrame
    <3>3. \A i \in 1..Len(items) : conc'[items[i]] = conc[items[i]]
      <4>1. \A i \in 1..Len(items) : items[i] \in Ops /\ items[i] # o
        BY <1>0, <3>1 DEF QueueInv, ItemsConsistent
      <4>. QED  BY <4>1, <1>0, <3>1
    <3>4. Waiters' \subseteq Waiters /\ Poppers \subseteq Poppers'
      BY <1>0, <3>1, WorkersAssumption DEF Waiters, Poppers, Executors
    <3>5. closed <=> pc'[Reader] = "closed"
      BY <1>0, <3>1 DEF WakeInv, ClosedForGood, Executors
    <3>. QED  BY <3>1, <3>2, <3>3, <3>4, <3>5, CalmWake
  <2>4. ASSUME NEW i \in 1..Len(items), RemoveQueued(i) PROVE WakeInv'
    BY <2>4, RemoveWake
  <2>5. CASE DiscardPending
    <3>1. items' = <<>> /\ closed' = closed /\ pc[Reader] = "read"
      BY <2>5 DEF DiscardPending, DropAll
    <3>2. pc'[Reader] = pc[Reader]
      BY <2>5, BroadcastPops DEF DiscardPending
    <3>3. ClosedForGood'
      BY <3>1, <3>2 DEF WakeInv, ClosedForGood
    <3>. QED  BY <3>1, <3>3, QuietWake
  <2>6. CASE Close
    BY <2>6, CloseWake DEF Close, DropAll
  <2>7. CASE CloseAndDrain
    BY <2>7, CloseWake DEF CloseAndDrain
  <2>. QED  BY <1>1, <2>1, <2>2, <2>3, <2>4, <2>5, <2>6, <2>7 DEF ReaderStep
<1>2. ASSUME NEW w \in Workers, WorkerStep(w) PROVE WakeInv'
  <2>1. CASE Pop(w)
    BY <2>1, PopWake
  <2>2. CASE PopWait(w)
    BY <2>2, PopWaitWake
  <2>3. CASE PopExit(w)
    <3>1. /\ closed /\ (items = <<>> \/ ~drain) /\ pc' = [pc EXCEPT ![w] = "exit"]
          /\ UNCHANGED <<items, closed, drain>>
      BY <2>3 DEF PopExit
    <3>2. items' = <<>>
      BY <3>1 DEF WakeInv, ClosedForGood
    <3>3. pc'[Reader] = pc[Reader]
      BY <3>1, <1>0, WorkersAssumption DEF Executors
    <3>4. ClosedForGood'
      BY <3>1, <3>3 DEF WakeInv, ClosedForGood
    <3>. QED  BY <3>2, <3>4, QuietWake
  <2>. QED  BY <1>2, <2>1, <2>2, <2>3 DEF WorkerStep
<1>3. ASSUME NEW e \in Executors, ExecutorStep(e) PROVE WakeInv'
  <2>1. CASE Complete(e)
    BY <2>1, CompleteWake
  <2>2. CASE Continue(e) \/ GiveUp(e)
    <3>1. PICK next \in {"read", "stop", "pop", "exit"} :
             pc[e] = "return" /\ pc' = [pc EXCEPT ![e] = next]
      BY <2>2 DEF Continue, GiveUp
    <3>2. UNCHANGED <<items, active, fence, closed, drain, conc, status>>
      BY <2>2 DEF Continue, GiveUp
    <3>3. Waiters' \subseteq Waiters /\ Poppers \subseteq Poppers'
      BY <1>0, <3>1 DEF Waiters, Poppers, Executors
    <3>4. closed <=> pc'[Reader] = "closed"
      BY <1>0, <3>1 DEF WakeInv, ClosedForGood, Executors
    <3>5. NoFenceDroppedFrame
      BY <3>2 DEF NoFenceDroppedFrame
    <3>. QED  BY <3>2, <3>3, <3>4, <3>5, CalmWake
  <2>. QED  BY <1>3, <2>1, <2>2 DEF ExecutorStep
<1>4. CASE UNCHANGED queueVars
  <2>1. UNCHANGED <<items, active, fence, closed, drain, conc, status, pc>>
    BY <1>4 DEF queueVars
  <2>2. Waiters' \subseteq Waiters /\ Poppers \subseteq Poppers'
    BY <2>1 DEF Waiters, Poppers
  <2>3. NoFenceDroppedFrame
    BY <2>1 DEF NoFenceDroppedFrame
  <2>4. closed <=> pc'[Reader] = "closed"
    BY <2>1 DEF WakeInv, ClosedForGood
  <2>. QED  BY <2>1, <2>2, <2>3, <2>4, CalmWake
<1>. QED  BY <1>1, <1>2, <1>3, <1>4 DEF QueueNext

\* A new queue has nothing to wake up for.
LEMMA InitWakeInv == QueueInit => WakeInv
<1>. SUFFICES ASSUME QueueInit PROVE WakeInv
  OBVIOUS
<1>1. pc[Reader] = "read"
  BY DEF QueueInit, Executors
<1>2. ClosedForGood
  BY <1>1 DEF QueueInit, ClosedForGood
<1>3. IdleServed
  BY DEF QueueInit, IdleServed
<1>4. 1..Len(items) = {}
  BY DEF QueueInit
<1>5. HeadsServed
  BY <1>4 DEF HeadsServed
<1>. QED  BY <1>2, <1>3, <1>5 DEF WakeInv

\* Requests and wakeups stay in step in every reachable state.
LEMMA WakeInvariant == QueueSpec => []WakeInv
<1>. QED  BY QueueInvariant, InitWakeInv, NextWakeInv, PTL DEF QueueSpec

\* queue.ready: push's single Signal, complete's Broadcast and the waiting
\* condition of pop never leave an idle queue that holds requests without a
\* worker on its way to pop, for any number of workers and requests.
THEOREM IdleQueuesAreServed == QueueSpec => []IdleQueueHasAPopper
<1>1. QueueInv /\ WakeInv => IdleQueueHasAPopper
  <2>. SUFFICES ASSUME QueueInv, WakeInv, items # <<>>, active = 0,
                       ~\E e \in Executors : pc[e] \in {"pop", "return"}
                PROVE  \A w \in Workers : pc[w] = "exit"
    BY DEF IdleQueueHasAPopper
  <2>1. Poppers = {}
    BY DEF Poppers, Executors
  <2>2. Waiters = {}
    BY <2>1 DEF WakeInv, IdleServed
  <2>3. Running = {}
    BY RunningFinite, FS_EmptySet DEF QueueInv, ActiveCounts
  <2>. SUFFICES ASSUME NEW w \in Workers PROVE pc[w] = "exit"
    OBVIOUS
  <2>4. w \in Executors
    BY DEF Executors
  <2>5. pc[w] \notin {"pop", "return", "wait", "run"}
    BY <2>2, <2>3, <2>4 DEF Waiters, Running
  <2>. QED  BY <2>5 DEF QueueInv, ExecConsistent, WorkerStates
<1>. QED  BY <1>1, QueueInvariant, WakeInvariant, PTL

\* queue.ready, with requests executing: a startable head never waits beside a
\* sleeping worker with nobody on the way, as long as no queued fence was
\* dropped.  (When one was, remove's single Signal is not enough.)
THEOREM StartableHeadsAreServed == QueueSpec => []NoStrandedHeadUnlessFenceDropped
<1>1. QueueInv /\ WakeInv => NoStrandedHeadUnlessFenceDropped
  <2>. SUFFICES ASSUME QueueInv, WakeInv, NoFenceDropped, HeadEligible, Waiters # {}
                PROVE  \E e \in Executors : pc[e] \in {"pop", "return"}
    BY DEF NoStrandedHeadUnlessFenceDropped, NoStrandedHead, NoFenceDropped
  <2>1. /\ items \in Seq(Ops) /\ items # <<>> /\ active \in Nat /\ maximum \in Nat
        /\ ~fence /\ active < maximum /\ (conc[Head(items)] \/ active = 0)
    BY RunningFinite DEF QueueInv, QueueTypeOK, HeadEligible
  <2>2. Head(items) = items[1] /\ 1 \in 1..Len(items)
    BY <2>1
  <2>3. \A i \in 1..1 : i = 1
    OBVIOUS
  <2>4. Startable(1)
    <3>1. active + 1 <= maximum
      BY <2>1
    <3>. QED  BY <2>1, <2>2, <2>3, <3>1 DEF Startable
  <2>5. 1 <= Cardinality(Poppers)
    BY <2>2, <2>4 DEF WakeInv, HeadsServed
  <2>6. Poppers # {}
    BY <2>5, FS_EmptySet
  <2>. QED  BY <2>6 DEF Poppers, Executors
<1>. QED  BY <1>1, QueueInvariant, WakeInvariant, PTL

-----------------------------------------------------------------------------
(* The order in which requests start.                                      *)

\* A request is admitted once, and what was never admitted is not in the
\* history of arrivals.
ArrivalHistory ==
    /\ \A i, j \in 1..Len(arrival) : arrival[i] = arrival[j] => i = j
    /\ \A i \in 1..Len(arrival) : status[arrival[i]] \notin {"new", "refused"}

\* items keeps the order in which the reader admitted the requests.
ItemsInOrder ==
    \A a, b \in 1..Len(items) : \A i, j \in 1..Len(arrival) :
        (a < b /\ items[a] = arrival[i] /\ items[b] = arrival[j]) => i < j

\* Every request that is executing has a goroutine that executes it.
RunningHeld ==
    \A o \in Ops : status[o] = "running" => \E e \in Executors : exec[e] = o

OrderInv == ArrivalHistory /\ ItemsInOrder /\ RunningHeld /\ OrderedFences

\* ItemsInOrder for two given places.
LEMMA InOrderAt ==
    ASSUME ItemsInOrder, NEW a \in 1..Len(items), NEW b \in 1..Len(items),
           NEW i \in 1..Len(arrival), NEW j \in 1..Len(arrival),
           a < b, items[a] = arrival[i], items[b] = arrival[j]
    PROVE  i < j
BY Zenon DEF ItemsInOrder

\* A request that executes is counted in queue.active, and unless it is
\* concurrent the fence is up.
LEMMA ExecutingIsCounted ==
    ASSUME QueueInv, RunningHeld, NEW o \in Ops, status[o] = "running"
    PROVE  active # 0 /\ (~fence => conc[o])
<1>1. PICK e \in Executors : exec[e] = o
  BY DEF RunningHeld
<1>2. e \in Running
  BY <1>1, OpsAssumption DEF QueueInv, ExecConsistent, Running
<1>3. active # 0
  <2>1. Cardinality(Running) # 0
    BY <1>2, RunningFinite, FS_EmptySet
  <2>. QED  BY <2>1 DEF QueueInv, ActiveCounts
<1>4. ~fence => conc[o]
  BY <1>1, <1>2 DEF QueueInv, FenceFlag
<1>. QED  BY <1>3, <1>4

\* A request that starts with no fence up, alone or beside concurrent ones
\* only, and with every earlier request out of the queue, starts in order.
LEMMA StartOrder ==
    ASSUME QueueInv, RunningHeld, OrderedFences, NEW o \in Ops,
           arrival \in Seq(Ops),
           status' = [status EXCEPT ![o] = "running"],
           \A i \in 1..Len(arrival) : conc'[arrival[i]] = conc[arrival[i]],
           ~fence, conc'[o] \/ active = 0,
           arrival' \in Seq(Ops), Len(arrival') >= Len(arrival),
           \A i \in 1..Len(arrival) : arrival'[i] = arrival[i],
           \A i \in 1..Len(arrival') : i \notin 1..Len(arrival) => arrival'[i] = o,
           \A i, j \in 1..Len(arrival') : i < j /\ arrival'[j] = o
               => /\ i \in 1..Len(arrival)
                  /\ arrival[i] # o
                  /\ status[arrival[i]] # "queued",
           \A i \in 1..Len(arrival) : arrival[i] = o => status[o] = "queued"
    PROVE  OrderedFences'
<1>. SUFFICES ASSUME NEW i \in 1..Len(arrival'), NEW j \in 1..Len(arrival'), i < j,
                     status'[arrival'[j]] \in {"running", "done"}
              PROVE  /\ status'[arrival'[i]] # "queued"
                     /\ status'[arrival'[i]] = "running"
                          => conc'[arrival'[i]] /\ conc'[arrival'[j]]
  BY Zenon DEF OrderedFences
<1>0. status \in [Ops -> Statuses] /\ Len(arrival) \in Nat /\ Len(arrival') \in Nat
  BY SMTT(40) DEF QueueInv, QueueTypeOK
<1>1. CASE arrival'[j] = o
  <2>1. i \in 1..Len(arrival) /\ arrival[i] # o /\ status[arrival[i]] # "queued"
    BY <1>1
  <2>2. arrival'[i] = arrival[i] /\ arrival[i] \in Ops
    BY <2>1
  <2>3. status'[arrival'[i]] = status[arrival[i]] /\ conc'[arrival'[i]] = conc[arrival[i]]
    BY <2>1, <2>2, <1>0
  <2>4. status[arrival[i]] = "running" => active # 0 /\ conc[arrival[i]]
    BY <2>2, ExecutingIsCounted
  <2>. QED  BY <1>1, <2>1, <2>3, <2>4
<1>2. CASE arrival'[j] # o
  <2>1. j \in 1..Len(arrival)
    BY <1>2
  <2>2. i \in 1..Len(arrival)
    BY <2>1, <1>0
  <2>3. arrival'[i] = arrival[i] /\ arrival'[j] = arrival[j]
        /\ arrival[i] \in Ops /\ arrival[j] \in Ops
    BY <2>1, <2>2
  <2>4. status[arrival[j]] \in {"running", "done"}
    BY <1>0, <1>2, <2>3
  <2>5. /\ status[arrival[i]] # "queued"
        /\ status[arrival[i]] = "running" => conc[arrival[i]] /\ conc[arrival[j]]
    BY <2>1, <2>2, <2>4 DEF OrderedFences
  <2>6. arrival[i] # o
    BY <2>2, <2>5
  <2>7. status'[arrival[i]] = status[arrival[i]]
    BY <2>3, <2>6, <1>0
  <2>. QED  BY <2>1, <2>2, <2>3, <2>5, <2>7
<1>. QED  BY <1>1, <1>2

\* A queue that only loses elements keeps its order.
LEMMA SublistInOrder ==
    ASSUME ItemsInOrder, arrival' = arrival,
           \A a, b \in 1..Len(items') : a < b => \E c, d \in 1..Len(items) :
               c < d /\ items'[a] = items[c] /\ items'[b] = items[d]
    PROVE  ItemsInOrder'
<1>1. ASSUME NEW a \in 1..Len(items'), NEW b \in 1..Len(items'),
             NEW i \in 1..Len(arrival), NEW j \in 1..Len(arrival),
             a < b, items'[a] = arrival[i], items'[b] = arrival[j]
      PROVE  i < j
  <2>1. PICK c \in 1..Len(items), d \in 1..Len(items) :
            c < d /\ items'[a] = items[c] /\ items'[b] = items[d]
    BY <1>1
  <2>2. items[c] = arrival[i] /\ items[d] = arrival[j]
    BY <1>1, <2>1
  <2>. QED  BY <2>1, <2>2, InOrderAt
<1>2. \A a, b \in 1..Len(items') : \A i, j \in 1..Len(arrival) :
          (a < b /\ items'[a] = arrival[i] /\ items'[b] = arrival[j]) => i < j
  BY <1>1
<1>3. \A a, b \in 1..Len(items') : \A i, j \in 1..Len(arrival') :
          (a < b /\ items'[a] = arrival'[i] /\ items'[b] = arrival'[j]) => i < j
  BY <1>2
<1>. QED  BY <1>3, Zenon DEF ItemsInOrder

\* Steps that admit and start nothing: requests may only leave the queue or
\* end, and items loses elements without being reordered.
LEMMA EndOrder ==
    ASSUME QueueInv, OrderInv, arrival' = arrival,
           \A i \in 1..Len(arrival) : conc'[arrival[i]] = conc[arrival[i]],
           \A i \in 1..Len(arrival) :
               \/ status'[arrival[i]] = status[arrival[i]]
               \/ status'[arrival[i]] = "dropped" /\ status[arrival[i]] = "queued"
               \/ status'[arrival[i]] = "done" /\ status[arrival[i]] = "running",
           \A a, b \in 1..Len(items') : a < b => \E c, d \in 1..Len(items) :
               c < d /\ items'[a] = items[c] /\ items'[b] = items[d],
           RunningHeld'
    PROVE  OrderInv'
<1>1. ArrivalHistory'
  BY DEF OrderInv, ArrivalHistory
<1>2. ItemsInOrder'
  BY SublistInOrder DEF OrderInv
<1>3. OrderedFences'
  <2>. SUFFICES ASSUME NEW i \in 1..Len(arrival), NEW j \in 1..Len(arrival), i < j,
                       status'[arrival[j]] \in {"running", "done"}
                PROVE  /\ status'[arrival[i]] # "queued"
                       /\ status'[arrival[i]] = "running"
                            => conc'[arrival[i]] /\ conc'[arrival[j]]
    BY DEF OrderedFences
  <2>1. status[arrival[j]] \in {"running", "done"}
    OBVIOUS
  <2>2. /\ status[arrival[i]] # "queued"
        /\ status[arrival[i]] = "running" => conc[arrival[i]] /\ conc[arrival[j]]
    BY <2>1 DEF OrderInv, OrderedFences
  <2>. QED  BY <2>2
<1>. QED  BY <1>1, <1>2, <1>3 DEF OrderInv

\* pop starts the oldest queued request.
LEMMA PopOrder ==
    ASSUME QueueInv, OrderInv, NEW w \in Workers, Pop(w)
    PROVE  OrderInv'
<1>. DEFINE o == Head(items)
<1>0. /\ items \in Seq(Ops) /\ Len(items) \in Nat /\ status \in [Ops -> Statuses]
      /\ arrival \in Seq(Ops) /\ Len(arrival) \in Nat
      /\ exec \in [Executors -> Ops \cup {NoOp}]
  BY DEF QueueInv, QueueTypeOK
<1>1. /\ pc[w] = "pop" /\ items # <<>> /\ items' = Tail(items)
      /\ status' = [status EXCEPT ![o] = "running"]
      /\ exec' = [exec EXCEPT ![w] = o]
      /\ conc' = conc /\ arrival' = arrival
      /\ ~fence /\ (conc[o] \/ active = 0)
  BY DEF Pop, HeadEligible
<1>2. /\ Len(items) >= 1 /\ Len(items') = Len(items) - 1 /\ o = items[1] /\ o \in Ops
      /\ \A a \in 1..Len(items') : items'[a] = items[a + 1]
  BY <1>0, <1>1
<1>3. status[o] = "queued"
  BY <1>0, <1>2 DEF QueueInv, ItemsConsistent
<1>4. RunningHeld'
  <2>. SUFFICES ASSUME NEW p \in Ops, status'[p] = "running"
                PROVE  \E e \in Executors : exec'[e] = p
    BY DEF RunningHeld
  <2>0. w \in Executors
    BY DEF Executors
  <2>1. CASE p = o
    BY <2>0, <2>1, <1>0, <1>1
  <2>2. CASE p # o
    <3>1. status[p] = "running"
      BY <2>2, <1>0, <1>1
    <3>2. PICK e \in Executors : exec[e] = p
      BY <3>1 DEF OrderInv, RunningHeld
    <3>3. e # w
      BY <3>2, <1>1, OpsAssumption DEF QueueInv, ExecConsistent
    <3>. QED  BY <3>2, <3>3, <1>0, <1>1
  <2>. QED  BY <2>1, <2>2
<1>5. ArrivalHistory'
  <2>1. \A i \in 1..Len(arrival) : status'[arrival[i]] \notin {"new", "refused"}
    <3>. SUFFICES ASSUME NEW i \in 1..Len(arrival)
                  PROVE  status'[arrival[i]] \notin {"new", "refused"}
      OBVIOUS
    <3>1. arrival[i] \in Ops /\ status[arrival[i]] \notin {"new", "refused"}
      BY <1>0 DEF OrderInv, ArrivalHistory
    <3>. QED  BY <3>1, <1>0, <1>1
  <2>. QED  BY <2>1, <1>1 DEF OrderInv, ArrivalHistory
<1>6. ItemsInOrder'
  <2>. SUFFICES ASSUME NEW a \in 1..Len(items'), NEW b \in 1..Len(items'),
                       NEW i \in 1..Len(arrival'), NEW j \in 1..Len(arrival'),
                       a < b, items'[a] = arrival'[i], items'[b] = arrival'[j]
                PROVE  i < j
    BY Zenon DEF ItemsInOrder
  <2>0. /\ i \in 1..Len(arrival) /\ j \in 1..Len(arrival)
        /\ items'[a] = arrival[i] /\ items'[b] = arrival[j]
    BY <1>1
  <2>1. /\ a + 1 \in 1..Len(items) /\ b + 1 \in 1..Len(items) /\ a + 1 < b + 1
        /\ items[a + 1] = arrival[i] /\ items[b + 1] = arrival[j]
    BY <2>0, <1>0, <1>2
  <2>2. ItemsInOrder
    BY DEF OrderInv
  <2>. QED  BY <2>0, <2>1, <2>2, InOrderAt
<1>7. \A i, j \in 1..Len(arrival) : i < j /\ arrival[j] = o
          => arrival[i] # o /\ status[arrival[i]] # "queued"
  <2>. SUFFICES ASSUME NEW i \in 1..Len(arrival), NEW j \in 1..Len(arrival),
                       i < j, arrival[j] = o
                PROVE  arrival[i] # o /\ status[arrival[i]] # "queued"
    OBVIOUS
  <2>1. arrival[i] # o
    <3>1. i # j
      BY <1>0
    <3>. QED  BY <3>1 DEF OrderInv, ArrivalHistory
  <2>2. ASSUME status[arrival[i]] = "queued" PROVE FALSE
    <3>1. PICK a \in 1..Len(items) : items[a] = arrival[i]
      BY <2>2, <1>0 DEF QueueInv, ItemsConsistent
    <3>2. 1 \in 1..Len(items) /\ 1 < a /\ items[1] = arrival[j]
      BY <2>1, <3>1, <1>0, <1>2
    <3>3. ItemsInOrder
      BY DEF OrderInv
    <3>4. j < i
      BY <3>1, <3>2, <3>3, Zenon DEF ItemsInOrder
    <3>. QED  BY <3>4, <1>0
  <2>. QED  BY <2>1, <2>2
<1>8. OrderedFences'
  <2>1. \A i \in 1..Len(arrival) : arrival[i] = o => status[o] = "queued"
    BY <1>3
  <2>2. \A i \in 1..Len(arrival') : i \notin 1..Len(arrival) => arrival'[i] = o
    BY <1>1
  <2>3. \A i, j \in 1..Len(arrival') : i < j /\ arrival'[j] = o
               => /\ i \in 1..Len(arrival)
                  /\ arrival[i] # o
                  /\ status[arrival[i]] # "queued"
    BY <1>1, <1>7
  <2>4. Len(arrival') >= Len(arrival) /\ arrival' \in Seq(Ops)
    BY <1>0, <1>1
  <2>. QED  BY <1>0, <1>1, <1>2, <2>1, <2>2, <2>3, <2>4, StartOrder DEF OrderInv
<1>. QED  BY <1>4, <1>5, <1>6, <1>8 DEF OrderInv

\* tryClaimIdleSimpleBind starts the newest request when every other has ended.
LEMMA ClaimOrder ==
    ASSUME QueueInv, OrderInv, NEW o \in Ops, TryClaimIdleSimpleBind(o)
    PROVE  OrderInv'
<1>0. /\ status \in [Ops -> Statuses] /\ conc \in [Ops -> BOOLEAN]
      /\ arrival \in Seq(Ops) /\ Len(arrival) \in Nat
      /\ exec \in [Executors -> Ops \cup {NoOp}]
  BY DEF QueueInv, QueueTypeOK
<1>1. /\ pc[Reader] = "read" /\ status[o] = "new" /\ items = <<>> /\ items' = items
      /\ active = 0 /\ ~fence
      /\ status' = [status EXCEPT ![o] = "running"]
      /\ conc' = [conc EXCEPT ![o] = FALSE]
      /\ arrival' = Append(arrival, o)
      /\ exec' = [exec EXCEPT ![Reader] = o]
  BY DEF TryClaimIdleSimpleBind
<1>2. /\ arrival' \in Seq(Ops) /\ Len(arrival') = Len(arrival) + 1
      /\ arrival'[Len(arrival) + 1] = o
      /\ \A i \in 1..Len(arrival) : arrival'[i] = arrival[i]
      /\ \A i \in 1..Len(arrival') : i \in 1..Len(arrival) \/ i = Len(arrival) + 1
  BY <1>0, <1>1
<1>3. \A i \in 1..Len(arrival) : arrival[i] \in Ops /\ arrival[i] # o
  BY <1>0, <1>1 DEF OrderInv, ArrivalHistory
<1>4. RunningHeld'
  <2>. SUFFICES ASSUME NEW p \in Ops, status'[p] = "running"
                PROVE  \E e \in Executors : exec'[e] = p
    BY DEF RunningHeld
  <2>0. Reader \in Executors
    BY DEF Executors
  <2>1. CASE p = o
    BY <2>0, <2>1, <1>0, <1>1
  <2>2. CASE p # o
    <3>1. status[p] = "running"
      BY <2>2, <1>0, <1>1
    <3>2. PICK e \in Executors : exec[e] = p
      BY <3>1 DEF OrderInv, RunningHeld
    <3>3. e # Reader
      BY <3>2, <1>1, OpsAssumption DEF QueueInv, ExecConsistent
    <3>. QED  BY <3>2, <3>3, <1>0, <1>1
  <2>. QED  BY <2>1, <2>2
<1>5. ArrivalHistory'
  <2>1. \A i, j \in 1..Len(arrival') : arrival'[i] = arrival'[j] => i = j
    BY <1>2, <1>3 DEF OrderInv, ArrivalHistory
  <2>2. \A i \in 1..Len(arrival') : status'[arrival'[i]] \notin {"new", "refused"}
    <3>. SUFFICES ASSUME NEW i \in 1..Len(arrival')
                  PROVE  status'[arrival'[i]] \notin {"new", "refused"}
      OBVIOUS
    <3>1. CASE i \in 1..Len(arrival)
      BY <3>1, <1>0, <1>1, <1>2, <1>3 DEF OrderInv, ArrivalHistory
    <3>2. CASE i = Len(arrival) + 1
      BY <3>2, <1>0, <1>1, <1>2
    <3>. QED  BY <3>1, <3>2, <1>2
  <2>. QED  BY <2>1, <2>2 DEF ArrivalHistory
<1>6. ItemsInOrder'
  <2>1. 1..Len(items') = {}
    BY <1>1
  <2>. QED  BY <2>1 DEF ItemsInOrder
<1>7. OrderedFences'
  <2>1. \A i \in 1..Len(arrival) : conc'[arrival[i]] = conc[arrival[i]]
    BY <1>0, <1>1, <1>3
  <2>2. \A i \in 1..Len(arrival') : i \notin 1..Len(arrival) => arrival'[i] = o
    BY <1>2
  <2>3. \A i, j \in 1..Len(arrival') : i < j /\ arrival'[j] = o
               => /\ i \in 1..Len(arrival)
                  /\ arrival[i] # o
                  /\ status[arrival[i]] # "queued"
    <3>. SUFFICES ASSUME NEW i \in 1..Len(arrival'), NEW j \in 1..Len(arrival'), i < j
                  PROVE  /\ i \in 1..Len(arrival)
                         /\ arrival[i] # o
                         /\ status[arrival[i]] # "queued"
      OBVIOUS
    <3>1. i \in 1..Len(arrival)
      BY <1>0, <1>2
    <3>2. 1..Len(items) = {}
      BY <1>1
    <3>3. status[arrival[i]] # "queued"
      BY <3>1, <3>2, <1>3 DEF QueueInv, ItemsConsistent
    <3>. QED  BY <3>1, <3>3, <1>3
  <2>4. \A i \in 1..Len(arrival) : arrival[i] = o => status[o] = "queued"
    BY <1>3
  <2>5. Len(arrival') >= Len(arrival)
    BY <1>0, <1>2
  <2>6. RunningHeld /\ OrderedFences
    BY DEF OrderInv
  <2>. QED  BY <1>0, <1>1, <1>2, <2>1, <2>2, <2>3, <2>4, <2>5, <2>6, StartOrder
<1>. QED  BY <1>4, <1>5, <1>6, <1>7 DEF OrderInv

\* push appends the newest request at the end.
LEMMA PushOrder ==
    ASSUME QueueInv, OrderInv, NEW o \in Ops, NEW c \in BOOLEAN, Push(o, c)
    PROVE  OrderInv'
<1>0. /\ status \in [Ops -> Statuses] /\ conc \in [Ops -> BOOLEAN]
      /\ arrival \in Seq(Ops) /\ Len(arrival) \in Nat
      /\ items \in Seq(Ops) /\ Len(items) \in Nat
  BY DEF QueueInv, QueueTypeOK
<1>1. /\ status[o] = "new" /\ items' = Append(items, o)
      /\ status' = [status EXCEPT ![o] = "queued"]
      /\ conc' = [conc EXCEPT ![o] = c]
      /\ arrival' = Append(arrival, o)
      /\ exec' = exec
  BY DEF Push
<1>2. /\ arrival' \in Seq(Ops) /\ Len(arrival') = Len(arrival) + 1
      /\ arrival'[Len(arrival) + 1] = o
      /\ \A i \in 1..Len(arrival) : arrival'[i] = arrival[i]
      /\ \A i \in 1..Len(arrival') : i \in 1..Len(arrival) \/ i = Len(arrival) + 1
  BY <1>0, <1>1
<1>3. /\ Len(items') = Len(items) + 1
      /\ items'[Len(items) + 1] = o
      /\ \A i \in 1..Len(items) : items'[i] = items[i]
      /\ \A i \in 1..Len(items') : i \in 1..Len(items) \/ i = Len(items) + 1
  BY <1>0, <1>1
<1>4. \A i \in 1..Len(arrival) : arrival[i] \in Ops /\ arrival[i] # o
  BY <1>0, <1>1 DEF OrderInv, ArrivalHistory
<1>5. \A i \in 1..Len(items) : items[i] \in Ops /\ items[i] # o
  BY <1>0, <1>1 DEF QueueInv, ItemsConsistent
<1>6. RunningHeld'
  BY <1>0, <1>1 DEF OrderInv, RunningHeld
<1>7. ArrivalHistory'
  <2>1. \A i, j \in 1..Len(arrival') : arrival'[i] = arrival'[j] => i = j
    BY <1>2, <1>4 DEF OrderInv, ArrivalHistory
  <2>2. \A i \in 1..Len(arrival') : status'[arrival'[i]] \notin {"new", "refused"}
    <3>. SUFFICES ASSUME NEW i \in 1..Len(arrival')
                  PROVE  status'[arrival'[i]] \notin {"new", "refused"}
      OBVIOUS
    <3>1. CASE i \in 1..Len(arrival)
      BY <3>1, <1>0, <1>1, <1>2, <1>4 DEF OrderInv, ArrivalHistory
    <3>2. CASE i = Len(arrival) + 1
      BY <3>2, <1>0, <1>1, <1>2
    <3>. QED  BY <3>1, <3>2, <1>2
  <2>. QED  BY <2>1, <2>2 DEF ArrivalHistory
<1>8. ItemsInOrder'
  <2>. SUFFICES ASSUME NEW a \in 1..Len(items'), NEW b \in 1..Len(items'),
                       NEW i \in 1..Len(arrival'), NEW j \in 1..Len(arrival'),
                       a < b, items'[a] = arrival'[i], items'[b] = arrival'[j]
                PROVE  i < j
    BY Zenon DEF ItemsInOrder
  <2>1. a \in 1..Len(items)
    BY <1>0, <1>3
  <2>2. i \in 1..Len(arrival) /\ items[a] = arrival[i]
    BY <2>1, <1>2, <1>3, <1>5
  <2>3. CASE b \in 1..Len(items)
    <3>1. j \in 1..Len(arrival) /\ items[b] = arrival[j]
      BY <2>3, <1>2, <1>3, <1>5
    <3>2. ItemsInOrder
      BY DEF OrderInv
    <3>. QED  BY <2>1, <2>2, <2>3, <3>1, <3>2, Zenon DEF ItemsInOrder
  <2>4. CASE b = Len(items) + 1
    <3>1. arrival'[j] = o
      BY <2>4, <1>3
    <3>2. j = Len(arrival) + 1
      BY <3>1, <1>2, <1>4
    <3>. QED  BY <2>2, <3>2, <1>0
  <2>. QED  BY <2>3, <2>4, <1>3
<1>9. OrderedFences'
  <2>. SUFFICES ASSUME NEW i \in 1..Len(arrival'), NEW j \in 1..Len(arrival'), i < j,
                       status'[arrival'[j]] \in {"running", "done"}
                PROVE  /\ status'[arrival'[i]] # "queued"
                       /\ status'[arrival'[i]] = "running"
                            => conc'[arrival'[i]] /\ conc'[arrival'[j]]
    BY Zenon DEF OrderedFences
  <2>1. j \in 1..Len(arrival)
    BY <1>0, <1>1, <1>2
  <2>2. i \in 1..Len(arrival)
    BY <2>1, <1>0
  <2>3. \A n \in {i, j} : /\ arrival'[n] = arrival[n]
                          /\ status'[arrival[n]] = status[arrival[n]]
                          /\ conc'[arrival[n]] = conc[arrival[n]]
    BY <2>1, <2>2, <1>0, <1>1, <1>2, <1>4
  <2>. QED  BY <2>1, <2>2, <2>3 DEF OrderInv, OrderedFences
<1>. QED  BY <1>6, <1>7, <1>8, <1>9 DEF OrderInv

\* The executing requests keep their goroutines when none starts or ends.
LEMMA HeldFrame ==
    ASSUME RunningHeld, exec' = exec,
           \A o \in Ops : status'[o] = "running" => status[o] = "running"
    PROVE  RunningHeld'
BY DEF RunningHeld

\* complete ends a request wherever it stands in the order.
LEMMA CompleteOrder ==
    ASSUME QueueInv, OrderInv, NEW e \in Executors, Complete(e)
    PROVE  OrderInv'
<1>0. /\ status \in [Ops -> Statuses] /\ arrival \in Seq(Ops)
      /\ exec \in [Executors -> Ops \cup {NoOp}]
      /\ items \in Seq(Ops) /\ Len(items) \in Nat
  BY DEF QueueInv, QueueTypeOK
<1>1. /\ status' = [status EXCEPT ![exec[e]] = "done"]
      /\ exec' = [exec EXCEPT ![e] = NoOp] /\ pc[e] = "run"
      /\ UNCHANGED <<items, conc, arrival>>
  BY DEF Complete
<1>2. exec[e] \in Ops /\ status[exec[e]] = "running"
  BY <1>0, <1>1 DEF QueueInv, ExecConsistent
<1>3. RunningHeld'
  <2>. SUFFICES ASSUME NEW p \in Ops, status'[p] = "running"
                PROVE  \E f \in Executors : exec'[f] = p
    BY DEF RunningHeld
  <2>1. p # exec[e] /\ status[p] = "running"
    BY <1>0, <1>1, <1>2
  <2>2. PICK f \in Executors : exec[f] = p
    BY <2>1 DEF OrderInv, RunningHeld
  <2>. QED  BY <2>1, <2>2, <1>0, <1>1
<1>4. \A i \in 1..Len(arrival) :
          \/ status'[arrival[i]] = status[arrival[i]]
          \/ status'[arrival[i]] = "done" /\ status[arrival[i]] = "running"
  <2>1. \A i \in 1..Len(arrival) : arrival[i] \in Ops
    BY <1>0
  <2>. QED  BY <2>1, <1>0, <1>1, <1>2
<1>5. \A a, b \in 1..Len(items') : a < b => \E c, d \in 1..Len(items) :
          c < d /\ items'[a] = items[c] /\ items'[b] = items[d]
  BY <1>1
<1>. QED  BY <1>1, <1>3, <1>4, <1>5, EndOrder

\* remove keeps the order of what stays queued.
LEMMA RemoveOrder ==
    ASSUME QueueInv, OrderInv, NEW i \in 1..Len(items), RemoveQueued(i)
    PROVE  OrderInv'
<1>0. /\ status \in [Ops -> Statuses] /\ arrival \in Seq(Ops)
      /\ items \in Seq(Ops) /\ Len(items) \in Nat
      /\ items[i] \in Ops /\ status[items[i]] = "queued"
  BY DEF QueueInv, QueueTypeOK, ItemsConsistent
<1>1. /\ items' = WithoutIndex(items, i)
      /\ status' = [status EXCEPT ![items[i]] = "dropped"]
      /\ UNCHANGED <<conc, arrival, exec>>
  BY DEF RemoveQueued
<1>2. /\ Len(items') = Len(items) - 1
      /\ \A j \in 1..Len(items') : items'[j] = IF j < i THEN items[j] ELSE items[j + 1]
  <2>1. Len(items) - 1 \in Nat
    BY <1>0
  <2>. QED  BY <1>1, <2>1 DEF WithoutIndex
<1>3. RunningHeld'
  BY <1>0, <1>1, HeldFrame DEF OrderInv
<1>4. \A n \in 1..Len(arrival) :
          \/ status'[arrival[n]] = status[arrival[n]]
          \/ status'[arrival[n]] = "dropped" /\ status[arrival[n]] = "queued"
  <2>1. \A n \in 1..Len(arrival) : arrival[n] \in Ops
    BY <1>0
  <2>. QED  BY <2>1, <1>0, <1>1
<1>5. ASSUME NEW a \in 1..Len(items'), NEW b \in 1..Len(items'), a < b
      PROVE  \E c, d \in 1..Len(items) :
                 c < d /\ items'[a] = items[c] /\ items'[b] = items[d]
  <2>. DEFINE c == IF a < i THEN a ELSE a + 1
              d == IF b < i THEN b ELSE b + 1
  <2>1. c \in 1..Len(items) /\ d \in 1..Len(items) /\ c < d
    BY <1>0, <1>2, <1>5
  <2>2. items'[a] = items[c] /\ items'[b] = items[d]
    BY <1>2
  <2>. HIDE DEF c, d
  <2>. QED  BY <2>1, <2>2
<1>. QED  BY <1>1, <1>3, <1>4, <1>5, EndOrder

\* Emptying the queue drops requests in any order.
LEMMA EmptyOrder ==
    ASSUME QueueInv, OrderInv, DropAll, UNCHANGED <<conc, arrival, exec>>
    PROVE  OrderInv'
<1>0. status \in [Ops -> Statuses] /\ arrival \in Seq(Ops) /\ items \in Seq(Ops)
  BY DEF QueueInv, QueueTypeOK
<1>1. /\ items' = <<>>
      /\ status' = [o \in Ops |-> IF o \in ToSet(items) THEN "dropped" ELSE status[o]]
  BY DEF DropAll
<1>2. \A o \in ToSet(items) : status[o] = "queued"
  BY <1>0 DEF ToSet, QueueInv, ItemsConsistent
<1>3. RunningHeld'
  BY <1>1, HeldFrame DEF OrderInv
<1>4. \A n \in 1..Len(arrival) :
          \/ status'[arrival[n]] = status[arrival[n]]
          \/ status'[arrival[n]] = "dropped" /\ status[arrival[n]] = "queued"
  <2>1. \A n \in 1..Len(arrival) : arrival[n] \in Ops
    BY <1>0
  <2>. QED  BY <2>1, <1>1, <1>2
<1>5. 1..Len(items') = {}
  BY <1>1
<1>6. \A a, b \in 1..Len(items') : a < b => \E c, d \in 1..Len(items) :
          c < d /\ items'[a] = items[c] /\ items'[b] = items[d]
  BY <1>5
<1>. QED  BY <1>3, <1>4, <1>6, EndOrder

\* Steps that leave requests and queue alone keep the order.
LEMMA StutterOrder ==
    ASSUME QueueInv, OrderInv, UNCHANGED <<items, conc, status, arrival, exec>>
    PROVE  OrderInv'
<1>1. RunningHeld'
  BY HeldFrame DEF OrderInv
<1>2. \A a, b \in 1..Len(items') : a < b => \E c, d \in 1..Len(items) :
          c < d /\ items'[a] = items[c] /\ items'[b] = items[d]
  OBVIOUS
<1>. QED  BY <1>1, <1>2, EndOrder

\* An admission failure concerns a request that is not in the history.
LEMMA RefuseOrder ==
    ASSUME QueueInv, OrderInv, NEW o \in Ops, NEW c \in BOOLEAN, Refuse(o, c)
    PROVE  OrderInv'
<1>0. /\ status \in [Ops -> Statuses] /\ arrival \in Seq(Ops) /\ conc \in [Ops -> BOOLEAN]
  BY DEF QueueInv, QueueTypeOK
<1>1. /\ status[o] = "new" /\ status' = [status EXCEPT ![o] = "refused"]
      /\ conc' = [conc EXCEPT ![o] = c]
      /\ UNCHANGED <<items, arrival, exec>>
  BY DEF Refuse
<1>2. \A n \in 1..Len(arrival) : arrival[n] \in Ops /\ arrival[n] # o
  BY <1>0, <1>1 DEF OrderInv, ArrivalHistory
<1>3. \A n \in 1..Len(arrival) :
          status'[arrival[n]] = status[arrival[n]] /\ conc'[arrival[n]] = conc[arrival[n]]
  BY <1>0, <1>1, <1>2
<1>4. RunningHeld'
  BY <1>0, <1>1, HeldFrame DEF OrderInv
<1>5. \A a, b \in 1..Len(items') : a < b => \E k, d \in 1..Len(items) :
          k < d /\ items'[a] = items[k] /\ items'[b] = items[d]
  BY <1>1
<1>. QED  BY <1>1, <1>3, <1>4, <1>5, EndOrder

\* Every step of the queue keeps the order.
LEMMA NextOrderInv == QueueInv /\ OrderInv /\ [QueueNext]_queueVars => OrderInv'
<1>. SUFFICES ASSUME QueueInv, OrderInv, [QueueNext]_queueVars PROVE OrderInv'
  OBVIOUS
<1>1. CASE ReaderStep
  <2>1. ASSUME NEW o \in Ops, TryClaimIdleSimpleBind(o) PROVE OrderInv'
    BY <2>1, ClaimOrder
  <2>2. ASSUME NEW o \in Ops, NEW c \in BOOLEAN, Push(o, c) PROVE OrderInv'
    BY <2>2, PushOrder
  <2>3. ASSUME NEW o \in Ops, NEW c \in BOOLEAN, Refuse(o, c) PROVE OrderInv'
    BY <2>3, RefuseOrder
  <2>4. ASSUME NEW i \in 1..Len(items), RemoveQueued(i) PROVE OrderInv'
    BY <2>4, RemoveOrder
  <2>5. CASE DiscardPending
    BY <2>5, EmptyOrder DEF DiscardPending
  <2>6. CASE Close
    BY <2>6, EmptyOrder DEF Close
  <2>7. CASE CloseAndDrain
    BY <2>7, StutterOrder DEF CloseAndDrain
  <2>. QED  BY <1>1, <2>1, <2>2, <2>3, <2>4, <2>5, <2>6, <2>7 DEF ReaderStep
<1>2. ASSUME NEW w \in Workers, WorkerStep(w) PROVE OrderInv'
  <2>1. CASE Pop(w)
    BY <2>1, PopOrder
  <2>2. CASE PopWait(w) \/ PopExit(w)
    BY <2>2, StutterOrder DEF PopWait, PopExit
  <2>. QED  BY <1>2, <2>1, <2>2 DEF WorkerStep
<1>3. ASSUME NEW e \in Executors, ExecutorStep(e) PROVE OrderInv'
  <2>1. CASE Complete(e)
    BY <2>1, CompleteOrder
  <2>2. CASE Continue(e) \/ GiveUp(e)
    BY <2>2, StutterOrder DEF Continue, GiveUp
  <2>. QED  BY <1>3, <2>1, <2>2 DEF ExecutorStep
<1>4. CASE UNCHANGED queueVars
  BY <1>4, StutterOrder DEF queueVars
<1>. QED  BY <1>1, <1>2, <1>3, <1>4 DEF QueueNext

\* A new queue has no history.
LEMMA InitOrderInv == QueueInit => OrderInv
<1>. SUFFICES ASSUME QueueInit PROVE OrderInv
  OBVIOUS
<1>1. 1..Len(items) = {} /\ 1..Len(arrival) = {}
  BY DEF QueueInit
<1>2. RunningHeld
  BY DEF QueueInit, RunningHeld
<1>3. ArrivalHistory /\ ItemsInOrder /\ OrderedFences
  BY <1>1 DEF ArrivalHistory, ItemsInOrder, OrderedFences
<1>. QED  BY <1>2, <1>3 DEF OrderInv

\* The order holds in every reachable state of the queue.
LEMMA OrderInvariant == QueueSpec => []OrderInv
<1>. QED  BY QueueInvariant, InitOrderInv, NextOrderInv, PTL DEF QueueSpec

\* "Ordered fences": requests start in the order the reader admitted them, and
\* a fence waits for every earlier request to end and keeps every later one
\* out, for any number of workers and whatever Abandon, Bind, close and drain
\* take out of the queue in between.
THEOREM FencesAreOrdered == QueueSpec => []OrderedFences
<1>1. OrderInv => OrderedFences
  BY DEF OrderInv
<1>. QED  BY <1>1, OrderInvariant, PTL

-----------------------------------------------------------------------------
\* After an ordinary close nothing of any request stays charged: what was
\* queued was dropped, and the goroutines that executed the rest have returned.
NothingLeftCharged ==
    (Terminated /\ ~drain) => \A o \in Ops : retained[o] = 0 /\ reserved[o] = 0

\* operationQueue.close: once the reader and every worker have returned without
\* a drain, both byte counters are back to nothing, request by request, for any
\* requests and workers.
THEOREM NothingChargedAfterClose == QueueSpec => []NothingLeftCharged
<1>1. QueueInv /\ WakeInv /\ RunningHeld => NothingLeftCharged
  <2>. SUFFICES ASSUME QueueInv, WakeInv, RunningHeld, Terminated, ~drain, NEW o \in Ops
                PROVE  retained[o] = 0 /\ reserved[o] = 0
    BY DEF NothingLeftCharged
  <2>0. items = <<>>
    BY DEF WakeInv, ClosedForGood, Terminated
  <2>1. 1..Len(items) = {}
    BY <2>0
  <2>2. status[o] # "queued"
    BY <2>1 DEF QueueInv, ItemsConsistent
  <2>3. status[o] # "running"
    <3>. SUFFICES ASSUME status[o] = "running" PROVE FALSE
      OBVIOUS
    <3>1. PICK e \in Executors : exec[e] = o
      BY DEF RunningHeld
    <3>2. pc[e] = "run"
      BY <3>1, OpsAssumption DEF QueueInv, ExecConsistent
    <3>. QED  BY <3>2 DEF Terminated, Executors
  <2>. QED  BY <2>2, <2>3 DEF QueueInv, BytesConserved
<1>2. OrderInv => RunningHeld
  BY DEF OrderInv
<1>. QED  BY <1>1, <1>2, QueueInvariant, WakeInvariant, OrderInvariant, PTL

-----------------------------------------------------------------------------
(* The value of a byte counter.  CounterValue is a fold, which the provers *)
(* know nothing of: what follows derives the equation it satisfies, for a  *)
(* finite set of requests.                                                 *)

Picked(s) == CHOOSE o \in s : TRUE

Weight(counter, o) == counter[o] * Bytes[o]

\* iter[s] is the weight of the requests of s.
SumEquation(counter, iter) ==
    \A s \in SUBSET Ops :
        iter[s] = IF s = {} THEN 0
                  ELSE Weight(counter, Picked(s)) + iter[s \ {Picked(s)}]

\* A nonempty set of sizes has a smallest one.
LEMMA SmallestSize ==
    ASSUME NEW S \in SUBSET Nat, S # {}
    PROVE  \E n \in S : \A m \in S : n <= m
<1>1. PICK n \in S : \A m \in S : ~(<<m, n>> \in OpToRel(<, Nat))
  BY NatLessThanWellFounded, WFMin
<1>2. \A m \in Nat : <<m, n>> \in OpToRel(<, Nat) <=> m < n
  BY DEF OpToRel
<1>3. ASSUME NEW m \in S PROVE n <= m
  <2>1. ~(m < n)
    BY <1>1, <1>2
  <2>. QED  BY <2>1
<1>. QED  BY <1>3

\* Taking the picked request away leaves a smaller set.
LEMMA PickedSmaller ==
    ASSUME IsFiniteSet(Ops), NEW s \in SUBSET Ops
    PROVE  /\ Cardinality(s) \in Nat
           /\ s = {} <=> Cardinality(s) = 0
           /\ s # {} => /\ Picked(s) \in s
                        /\ s \ {Picked(s)} \in SUBSET Ops
                        /\ Cardinality(s \ {Picked(s)}) = Cardinality(s) - 1
<1>1. IsFiniteSet(s)
  BY FS_Subset
<1>2. s # {} => Picked(s) \in s
  BY DEF Picked
<1>3. Cardinality(s) \in Nat /\ (s = {} <=> Cardinality(s) = 0)
  BY <1>1, FS_CardinalityType, FS_EmptySet
<1>4. ASSUME s # {} PROVE Cardinality(s \ {Picked(s)}) = Cardinality(s) - 1
  BY <1>1, <1>2, <1>4, FS_RemoveElement
<1>. QED  BY <1>2, <1>3, <1>4

\* What holds of no request at all, and of a set whenever it holds without the
\* picked request, holds of all requests.
LEMMA PickInduction ==
    ASSUME IsFiniteSet(Ops), NEW Good, {} \in Good,
           \A s \in SUBSET Ops : s # {} /\ s \ {Picked(s)} \in Good => s \in Good
    PROVE  \A s \in SUBSET Ops : s \in Good
<1>. SUFFICES ASSUME NEW t \in SUBSET Ops, t \notin Good PROVE FALSE
  OBVIOUS
<1> DEFINE Bad == {s \in SUBSET Ops : s \notin Good}
           C == {Cardinality(s) : s \in Bad}
<1>1. C \in SUBSET Nat /\ C # {}
  <2>1. \A s \in SUBSET Ops : Cardinality(s) \in Nat
    BY PickedSmaller
  <2>2. t \in Bad
    OBVIOUS
  <2>3. Cardinality(t) \in C
    BY <2>2, Zenon
  <2>4. ASSUME NEW c \in C PROVE c \in Nat
    BY <2>1
  <2>. QED  BY <2>3, <2>4, Zenon
<1>2. PICK n \in C : \A m \in C : n <= m
  BY <1>1, SmallestSize
<1>3. PICK s \in Bad : n = Cardinality(s)
  BY <1>2
<1>4. s # {}
  BY <1>3
<1>5. s \ {Picked(s)} \in Bad
  BY <1>3, <1>4, PickedSmaller
<1>6. n <= Cardinality(s \ {Picked(s)})
  BY <1>2, <1>5
<1>. QED  BY <1>3, <1>4, <1>6, PickedSmaller

\* The equation has a solution.
LEMMA SumExists ==
    ASSUME IsFiniteSet(Ops), NEW counter
    PROVE  \E iter : SumEquation(counter, iter)
<1> DEFINE Next(g, s) == IF s = {} THEN 0
                         ELSE Weight(counter, Picked(s)) + g[s \ {Picked(s)}]
           Solves(g, n) == \A s \in SUBSET Ops : Cardinality(s) <= n => g[s] = Next(g, s)
           Bad == {n \in Nat : ~\E g : Solves(g, n)}
<1>1. Bad = {}
  <2>. SUFFICES ASSUME Bad # {} PROVE FALSE
    OBVIOUS
  <2>1. PICK n \in Bad : \A m \in Bad : n <= m
    BY SmallestSize
  <2>2. n # 0
    <3>1. Solves([s \in SUBSET Ops |-> 0], 0)
      <4>1. ASSUME NEW s \in SUBSET Ops, Cardinality(s) <= 0 PROVE s = {}
        <5>1. Cardinality(s) \in Nat /\ (s = {} <=> Cardinality(s) = 0)
          BY PickedSmaller
        <5>2. Cardinality(s) = 0
          BY <4>1, <5>1
        <5>. QED  BY <5>1, <5>2
      <4>2. Solves([s \in SUBSET Ops |-> 0], 0) <=>
              \A s \in SUBSET Ops : Cardinality(s) <= 0 => 0 = Next([r \in SUBSET Ops |-> 0], s)
        OBVIOUS
      <4>. QED  BY <4>1, <4>2, Zenon
    <3>2. \E g : Solves(g, 0)
      BY <3>1, Zenon
    <3>. HIDE DEF Solves
    <3>. QED  BY <2>1, <3>2
  <2>3. n - 1 \in Nat /\ n - 1 \notin Bad
    <3>1. n \in Nat /\ n - 1 \in Nat /\ ~(n <= n - 1)
      BY <2>1, <2>2
    <3>. QED  BY <2>1, <3>1, Zenon
  <2>4. PICK g : Solves(g, n - 1)
    BY <2>3
  <2> DEFINE h == [s \in SUBSET Ops |-> Next(g, s)]
  <2>5. ASSUME NEW s \in SUBSET Ops, Cardinality(s) <= n PROVE h[s] = Next(h, s)
    <3>1. CASE s = {}
      BY <3>1
    <3>2. CASE s # {}
      <4> DEFINE t == s \ {Picked(s)}
      <4>1. t \in SUBSET Ops /\ Cardinality(t) <= n - 1
        BY <2>1, <2>5, <3>2, PickedSmaller
      <4>2. g[t] = Next(g, t)
        BY <2>4, <4>1
      <4>3. h[t] = g[t]
        BY <4>1, <4>2
      <4>. QED  BY <3>2, <4>3
    <3>. QED  BY <3>1, <3>2
  <2>. QED  BY <2>1, <2>5
<1>2. Cardinality(Ops) \in Nat
  BY FS_CardinalityType
<1>3. PICK g : Solves(g, Cardinality(Ops))
  BY <1>1, <1>2
<1>4. \A s \in SUBSET Ops : Cardinality(s) <= Cardinality(Ops)
  BY FS_Subset
<1>. QED  BY <1>3, <1>4 DEF SumEquation

\* CounterValue is a solution of it.
LEMMA CounterSum ==
    ASSUME IsFiniteSet(Ops), NEW counter
    PROVE  \E iter : /\ SumEquation(counter, iter)
                     /\ CounterValue(counter) = iter[Ops]
<1> DEFINE Iter == CHOOSE iter :
                     iter = [s \in SUBSET Ops |->
                               IF s = {} THEN 0
                               ELSE counter[Picked(s)] * Bytes[Picked(s)]
                                      + iter[s \ {Picked(s)}]]
<1>1. CounterValue(counter) = Iter[Ops]
  BY DEF CounterValue, MapThenSumSet, MapThenFoldSet, Picked
<1>2. PICK g : SumEquation(counter, g)
  BY SumExists
<1> DEFINE h == [s \in SUBSET Ops |-> g[s]]
<1>3. h = [s \in SUBSET Ops |->
             IF s = {} THEN 0
             ELSE counter[Picked(s)] * Bytes[Picked(s)] + h[s \ {Picked(s)}]]
  <2>1. ASSUME NEW s \in SUBSET Ops
        PROVE  h[s] = IF s = {} THEN 0
                      ELSE counter[Picked(s)] * Bytes[Picked(s)] + h[s \ {Picked(s)}]
    <3>1. s \ {Picked(s)} \in SUBSET Ops
      OBVIOUS
    <3>. QED  BY <1>2, <3>1 DEF SumEquation, Weight
  <2>. QED  BY <2>1
<1>4. Iter = [s \in SUBSET Ops |->
                IF s = {} THEN 0
                ELSE counter[Picked(s)] * Bytes[Picked(s)] + Iter[s \ {Picked(s)}]]
  BY <1>3
<1>5. SumEquation(counter, Iter)
  BY <1>4 DEF SumEquation, Weight
<1>. QED  BY <1>1, <1>5

\* The value of a counter is a number, and zero when nothing is charged.
LEMMA CounterFacts ==
    ASSUME IsFiniteSet(Ops), NEW c \in [Ops -> Int]
    PROVE  /\ CounterValue(c) \in Int
           /\ (\A o \in Ops : c[o] = 0) => CounterValue(c) = 0
<1>1. PICK f : SumEquation(c, f) /\ CounterValue(c) = f[Ops]
  BY CounterSum
<1>2. \A o \in Ops : Weight(c, o) \in Int
  BY BytesAssumption DEF Weight
<1> DEFINE Good == {s \in SUBSET Ops : f[s] \in Int /\ ((\A o \in Ops : c[o] = 0) => f[s] = 0)}
<1>3. {} \in Good
  <2>1. f[{}] = 0
    BY <1>1, Zenon DEF SumEquation
  <2>. QED  BY <2>1
<1>4. ASSUME NEW s \in SUBSET Ops, s # {}, s \ {Picked(s)} \in Good PROVE s \in Good
  <2>1. Picked(s) \in Ops
    BY <1>4, PickedSmaller
  <2>2. f[s] = Weight(c, Picked(s)) + f[s \ {Picked(s)}]
    BY <1>1, <1>4 DEF SumEquation
  <2>3. f[s \ {Picked(s)}] \in Int /\ Weight(c, Picked(s)) \in Int
    BY <1>2, <1>4, <2>1
  <2>4. (\A o \in Ops : c[o] = 0) => Weight(c, Picked(s)) = 0
    BY <2>1, BytesAssumption DEF Weight
  <2>5. f[s] \in Int
    BY <2>2, <2>3
  <2>6. (\A o \in Ops : c[o] = 0) => f[s] = 0
    <3>1. SUFFICES ASSUME \A o \in Ops : c[o] = 0 PROVE f[s] = 0
      OBVIOUS
    <3>2. f[s \ {Picked(s)}] = 0
      BY <1>4, <3>1
    <3>. QED  BY <2>2, <2>4, <3>1, <3>2
  <2>. QED  BY <2>5, <2>6
<1>5. \A s \in SUBSET Ops : s \in Good
  <2>. HIDE DEF Good
  <2>. QED  BY <1>3, <1>4, PickInduction
<1>. QED  BY <1>1, <1>5

\* Charging one request adds its bytes.
LEMMA CounterCharged ==
    ASSUME IsFiniteSet(Ops), NEW c \in [Ops -> Int], NEW p \in Ops
    PROVE  CounterValue([c EXCEPT ![p] = @ + 1]) = CounterValue(c) + Bytes[p]
<1> DEFINE d == [c EXCEPT ![p] = @ + 1]
<1>1. PICK f : SumEquation(c, f) /\ CounterValue(c) = f[Ops]
  BY CounterSum
<1>2. PICK g : SumEquation(d, g) /\ CounterValue(d) = g[Ops]
  BY CounterSum
<1>3. \A o \in Ops : /\ Weight(c, o) \in Int
                     /\ Bytes[o] \in Int
                     /\ Weight(d, o) = IF o = p THEN Weight(c, o) + Bytes[p] ELSE Weight(c, o)
  <2>1. ASSUME NEW o \in Ops
        PROVE  /\ Weight(c, o) \in Int
               /\ Bytes[o] \in Int
               /\ Weight(d, o) = IF o = p THEN Weight(c, o) + Bytes[p] ELSE Weight(c, o)
    <3>1. c[o] \in Int /\ Bytes[o] \in Int
      BY BytesAssumption
    <3>2. d[o] = IF o = p THEN c[o] + 1 ELSE c[o]
      OBVIOUS
    <3>3. \A x, y \in Int : (x + 1) * y = x * y + y
      OBVIOUS
    <3>. QED  BY <3>1, <3>2, <3>3 DEF Weight
  <2>. QED  BY <2>1
<1> DEFINE Good == {s \in SUBSET Ops : /\ f[s] \in Int
                                       /\ g[s] = IF p \in s THEN f[s] + Bytes[p] ELSE f[s]}
<1>4. {} \in Good
  <2>1. f[{}] = 0 /\ g[{}] = 0
    BY <1>1, <1>2, Zenon DEF SumEquation
  <2>. QED  BY <2>1
<1>5. ASSUME NEW s \in SUBSET Ops, s # {}, s \ {Picked(s)} \in Good PROVE s \in Good
  <2> DEFINE x == Picked(s)
             r == s \ {x}
  <2>1. x \in Ops /\ x \in s
    BY <1>5, PickedSmaller
  <2>2. /\ f[s] = Weight(c, x) + f[r]
        /\ g[s] = Weight(d, x) + g[r]
    BY <1>1, <1>2, <1>5 DEF SumEquation
  <2>3. /\ f[r] \in Int
        /\ g[r] = IF p \in r THEN f[r] + Bytes[p] ELSE f[r]
    BY <1>5
  <2>4. p \in s <=> p = x \/ p \in r
    BY <2>1
  <2>5. p = x => p \notin r
    OBVIOUS
  <2>6. /\ Weight(c, x) \in Int /\ Bytes[p] \in Int
        /\ Weight(d, x) = IF x = p THEN Weight(c, x) + Bytes[p] ELSE Weight(c, x)
    BY <1>3, <2>1
  <2>7. f[s] \in Int /\ g[s] = IF p \in s THEN f[s] + Bytes[p] ELSE f[s]
    <3>. HIDE DEF d, x, r
    <3>. QED  BY <2>2, <2>3, <2>4, <2>5, <2>6
  <2>. QED  BY <2>7
<1>6. \A s \in SUBSET Ops : s \in Good
  <2>. HIDE DEF Good
  <2>. QED  BY <1>4, <1>5, PickInduction
<1>7. Ops \in Good
  BY <1>6
<1>. QED  BY <1>1, <1>2, <1>7

\* Giving requests up does not raise it.
LEMMA CounterLowered ==
    ASSUME IsFiniteSet(Ops), NEW c \in [Ops -> Int], NEW d \in [Ops -> Int],
           \A o \in Ops : d[o] <= c[o]
    PROVE  CounterValue(d) <= CounterValue(c)
<1>1. PICK f : SumEquation(c, f) /\ CounterValue(c) = f[Ops]
  BY CounterSum
<1>2. PICK g : SumEquation(d, g) /\ CounterValue(d) = g[Ops]
  BY CounterSum
<1>3. \A o \in Ops : /\ Weight(c, o) \in Int
                     /\ Weight(d, o) \in Int
                     /\ Weight(d, o) <= Weight(c, o)
  <2>1. \A x, y \in Int, z \in Nat : x <= y => x * z <= y * z
    OBVIOUS
  <2>. QED  BY <2>1, BytesAssumption DEF Weight
<1> DEFINE Good == {s \in SUBSET Ops : f[s] \in Int /\ g[s] \in Int /\ g[s] <= f[s]}
<1>4. {} \in Good
  <2>1. f[{}] = 0 /\ g[{}] = 0
    BY <1>1, <1>2, Zenon DEF SumEquation
  <2>. QED  BY <2>1
<1>5. ASSUME NEW s \in SUBSET Ops, s # {}, s \ {Picked(s)} \in Good PROVE s \in Good
  <2> DEFINE x == Picked(s)
             r == s \ {x}
  <2>1. x \in Ops
    BY <1>5, PickedSmaller
  <2>2. /\ f[s] = Weight(c, x) + f[r]
        /\ g[s] = Weight(d, x) + g[r]
    BY <1>1, <1>2, <1>5 DEF SumEquation
  <2>3. f[r] \in Int /\ g[r] \in Int /\ g[r] <= f[r]
    BY <1>5
  <2>4. Weight(c, x) \in Int /\ Weight(d, x) \in Int /\ Weight(d, x) <= Weight(c, x)
    BY <1>3, <2>1
  <2>5. f[s] \in Int /\ g[s] \in Int /\ g[s] <= f[s]
    <3>. HIDE DEF x, r
    <3>. QED  BY <2>2, <2>3, <2>4
  <2>. QED  BY <2>5
<1>6. \A s \in SUBSET Ops : s \in Good
  <2>. HIDE DEF Good
  <2>. QED  BY <1>4, <1>5, PickInduction
<1>. QED  BY <1>1, <1>2, <1>6

-----------------------------------------------------------------------------
(* The byte limits.                                                        *)

\* A step that charges nothing keeps the limits.
LEMMA ReleaseKeepsLimits ==
    ASSUME IsFiniteSet(Ops), QueueTypeOK, QueueTypeOK', ByteLimitsHold,
           \A o \in Ops : retained'[o] <= retained[o] /\ reserved'[o] <= reserved[o]
    PROVE  ByteLimitsHold'
<1>1. /\ retained \in [Ops -> Int] /\ retained' \in [Ops -> Int]
      /\ reserved \in [Ops -> Int] /\ reserved' \in [Ops -> Int]
  BY DEF QueueTypeOK
<1>2. /\ CounterValue(retained') <= CounterValue(retained)
      /\ CounterValue(reserved') <= CounterValue(reserved)
  BY <1>1, CounterLowered
<1>3. /\ CounterValue(retained) \in Int /\ CounterValue(retained') \in Int
      /\ CounterValue(reserved) \in Int /\ CounterValue(reserved') \in Int
  BY <1>1, CounterFacts
<1>4. /\ MaxRetainedBytes > 0 => CounterValue(retained') <= MaxRetainedBytes
      /\ CounterValue(reserved') <= MaxReservedBytes
  BY <1>2, <1>3, LimitsAssumption DEF ByteLimitsHold
<1>. QED  BY <1>4 DEF ByteLimitsHold

\* A request is charged only when both limits have room for it.
LEMMA ChargeKeepsLimits ==
    ASSUME IsFiniteSet(Ops), QueueTypeOK, ByteLimitsHold, NEW o \in Ops,
           TryAcquire(o), ~RetainedLimitExceeded(o), ChargeRetained(o)
    PROVE  ByteLimitsHold'
<1>1. retained \in [Ops -> Int] /\ reserved \in [Ops -> Int]
  BY DEF QueueTypeOK
<1>2. /\ CounterValue(retained') = CounterValue(retained) + Bytes[o]
      /\ CounterValue(reserved') = CounterValue(reserved) + Bytes[o]
  BY <1>1, CounterCharged DEF ChargeRetained
<1>3. CounterValue(retained) \in Int /\ CounterValue(reserved) \in Int /\ Bytes[o] \in Int
  BY <1>1, CounterFacts, BytesAssumption
<1>4. /\ MaxRetainedBytes > 0 => CounterValue(retained') <= MaxRetainedBytes
      /\ CounterValue(reserved') <= MaxReservedBytes
  BY <1>2, <1>3, LimitsAssumption DEF TryAcquire, RetainedLimitExceeded
<1>. QED  BY <1>4 DEF ByteLimitsHold

\* Releasing requests never raises a counter.
LEMMA ReleaseLowers ==
    ASSUME QueueTypeOK, NEW S, ReleaseRetained(S)
    PROVE  \A o \in Ops : retained'[o] <= retained[o] /\ reserved'[o] <= reserved[o]
BY DEF QueueTypeOK, ReleaseRetained

LEMMA NextByteLimits ==
    ASSUME IsFiniteSet(Ops), QueueTypeOK, QueueTypeOK', ByteLimitsHold, [QueueNext]_queueVars
    PROVE  ByteLimitsHold'
<1> DEFINE Lowered == \A o \in Ops : retained'[o] <= retained[o] /\ reserved'[o] <= reserved[o]
<1>0. Lowered => ByteLimitsHold'
  BY ReleaseKeepsLimits
<1>1. UNCHANGED <<retained, reserved>> => Lowered
  BY DEF QueueTypeOK
<1>2. ASSUME NEW S, ReleaseRetained(S) PROVE Lowered
  BY <1>2, ReleaseLowers
<1>. HIDE DEF Lowered
<1>3. ASSUME NEW o \in Ops, TryClaimIdleSimpleBind(o) PROVE ByteLimitsHold'
  BY <1>3, ChargeKeepsLimits DEF TryClaimIdleSimpleBind
<1>4. ASSUME NEW o \in Ops, NEW c \in BOOLEAN, Push(o, c) PROVE ByteLimitsHold'
  BY <1>4, ChargeKeepsLimits DEF Push
<1>5. ASSUME NEW o \in Ops, NEW c \in BOOLEAN, Refuse(o, c) PROVE ByteLimitsHold'
  BY <1>0, <1>1, <1>5 DEF Refuse
<1>6. ASSUME NEW i \in 1..Len(items), RemoveQueued(i) PROVE ByteLimitsHold'
  BY <1>0, <1>2, <1>6 DEF RemoveQueued
<1>7. ASSUME DropAll PROVE ByteLimitsHold'
  BY <1>0, <1>2, <1>7 DEF DropAll
<1>8. ASSUME CloseAndDrain PROVE ByteLimitsHold'
  BY <1>0, <1>1, <1>8 DEF CloseAndDrain
<1>9. ASSUME NEW w \in Workers, WorkerStep(w) PROVE ByteLimitsHold'
  BY <1>0, <1>1, <1>9 DEF WorkerStep, Pop, PopWait, PopExit
<1>10. ASSUME NEW e \in Executors, ExecutorStep(e) PROVE ByteLimitsHold'
  BY <1>0, <1>1, <1>2, <1>10 DEF ExecutorStep, Complete, Continue, GiveUp
<1>11. ASSUME UNCHANGED queueVars PROVE ByteLimitsHold'
  BY <1>0, <1>1, <1>11 DEF queueVars
<1>. QED
  BY <1>3, <1>4, <1>5, <1>6, <1>7, <1>8, <1>9, <1>10, <1>11
     DEF QueueNext, ReaderStep, DiscardPending, Close

\* conn_max_pending_bytes and the process-wide limiter: whatever mix of
\* requests is admitted, executed, abandoned and discarded, the bytes charged to
\* the connection never pass its limit and the ones reserved from the process
\* never pass the limiter's, for any finite number of requests of any sizes.
THEOREM ByteLimitsAreKept == IsFiniteSet(Ops) => (QueueSpec => []ByteLimitsHold)
<1>. SUFFICES ASSUME IsFiniteSet(Ops) PROVE QueueSpec => []ByteLimitsHold
  OBVIOUS
<1>1. QueueInit => ByteLimitsHold
  <2>. SUFFICES ASSUME QueueInit PROVE ByteLimitsHold
    OBVIOUS
  <2>1. /\ retained \in [Ops -> Int] /\ \A o \in Ops : retained[o] = 0
        /\ reserved \in [Ops -> Int] /\ \A o \in Ops : reserved[o] = 0
    BY DEF QueueInit
  <2>2. CounterValue(retained) = 0 /\ CounterValue(reserved) = 0
    BY <2>1, CounterFacts
  <2>. QED  BY <2>2, LimitsAssumption DEF ByteLimitsHold
<1>2. QueueTypeOK /\ QueueTypeOK' /\ ByteLimitsHold /\ [QueueNext]_queueVars => ByteLimitsHold'
  BY NextByteLimits
<1>. QED  BY <1>1, <1>2, QueueTypeCorrect, PTL DEF QueueSpec

\* operationQueue.close: once the reader and every worker have returned without
\* a drain, the connection holds no byte of the process-wide limiter.
THEOREM BytesAreReleasedAtClose == IsFiniteSet(Ops) => (QueueSpec => []BytesReleasedAtClose)
<1>. SUFFICES ASSUME IsFiniteSet(Ops) PROVE QueueSpec => []BytesReleasedAtClose
  OBVIOUS
<1>1. QueueTypeOK /\ NothingLeftCharged => BytesReleasedAtClose
  BY CounterFacts DEF QueueTypeOK, NothingLeftCharged, BytesReleasedAtClose
<1>. QED  BY <1>1, QueueTypeCorrect, NothingChargedAfterClose, PTL

-----------------------------------------------------------------------------
(* Admission.                                                              *)

\* The loop of pendingAfterPushLocked: its state before the first iteration and
\* what iteration i makes of the state b before it.
LoopStart == [pending |-> Len(items) + 1, available |-> FreeSlots, break |-> FALSE]

ConcurrentAt(c, i) == IF i <= Len(items) THEN conc[items[i]] ELSE c

LoopStep(c, i, b) ==
    IF b.break \/ b.available = 0
    THEN [b EXCEPT !.break = TRUE]
    ELSE IF ConcurrentAt(c, i)
    THEN [b EXCEPT !.pending = @ - 1, !.available = @ - 1]
    ELSE [b EXCEPT
            !.pending = IF active = 0 /\ @ = Len(items) + 1 THEN @ - 1 ELSE @,
            !.break = TRUE]

\* walk lists the loop's states up to iteration n.
LoopStates(c, walk, n) ==
    \A i \in 0..n : walk[i] = IF i = 0 THEN LoopStart ELSE LoopStep(c, i, walk[i - 1])

\* Every loop has states.
LEMMA LoopExists ==
    ASSUME NEW c, NEW n \in Nat
    PROVE  \E walk : LoopStates(c, walk, n)
<1> DEFINE Bad == {m \in Nat : ~\E walk : LoopStates(c, walk, m)}
<1>1. Bad = {}
  <2>. SUFFICES ASSUME Bad # {} PROVE FALSE
    OBVIOUS
  <2>1. PICK m \in Bad : \A k \in Bad : m <= k
    BY SmallestSize
  <2>2. m # 0
    <3>1. LoopStates(c, [i \in {0} |-> LoopStart], 0)
      BY DEF LoopStates
    <3>. QED  BY <2>1, <3>1, Zenon
  <2>3. m \in Nat /\ m - 1 \in Nat /\ ~(m <= m - 1)
    BY <2>1, <2>2
  <2>4. PICK g : LoopStates(c, g, m - 1)
    BY <2>1, <2>3, Zenon
  <2> DEFINE h == [i \in 0..m |-> IF i = 0 THEN LoopStart ELSE LoopStep(c, i, g[i - 1])]
  <2>5. ASSUME NEW i \in 0..m
        PROVE  h[i] = IF i = 0 THEN LoopStart ELSE LoopStep(c, i, h[i - 1])
    <3>1. CASE i = 0
      BY <3>1
    <3>2. CASE i # 0
      <4>1. i - 1 \in 0..m /\ i - 1 \in 0..(m - 1)
        BY <2>3, <3>2
      <4>2. h[i - 1] = g[i - 1]
        BY <2>4, <4>1 DEF LoopStates
      <4>. QED  BY <3>2, <4>2
    <3>. QED  BY <3>1, <3>2
  <2>6. LoopStates(c, h, m)
    <3>. HIDE DEF h
    <3>. QED  BY <2>5 DEF LoopStates
  <2>. QED  BY <2>1, <2>6, Zenon
<1>. QED  BY <1>1

\* pendingAfterPushLocked returns what is pending after the last iteration.
LEMMA LoopResult ==
    ASSUME NEW o, NEW c, Len(items) \in Nat
    PROVE  \E walk : /\ LoopStates(c, walk, Len(items) + 1)
                     /\ PendingAfterPush(o, c) = walk[Len(items) + 1].pending
<1> DEFINE n == Len(items) + 1
           Walk == CHOOSE walk :
                     walk = [i \in 0..n |->
                               IF i = 0 THEN LoopStart ELSE LoopStep(c, i, walk[i - 1])]
<1>1. PendingAfterPush(o, c) = Walk[n].pending
  BY DEF PendingAfterPush, LoopStart, LoopStep, ConcurrentAt
<1>2. PICK g : LoopStates(c, g, n)
  BY LoopExists
<1> DEFINE h == [i \in 0..n |-> g[i]]
<1>3. h = [i \in 0..n |-> IF i = 0 THEN LoopStart ELSE LoopStep(c, i, h[i - 1])]
  <2>1. ASSUME NEW i \in 0..n
        PROVE  h[i] = IF i = 0 THEN LoopStart ELSE LoopStep(c, i, h[i - 1])
    <3>1. i # 0 => i - 1 \in 0..n
      OBVIOUS
    <3>. QED  BY <1>2, <3>1 DEF LoopStates
  <2>. QED  BY <2>1
<1>4. Walk = [i \in 0..n |-> IF i = 0 THEN LoopStart ELSE LoopStep(c, i, Walk[i - 1])]
  BY <1>3
<1>5. LoopStates(c, Walk, n)
  BY <1>4 DEF LoopStates
<1>. QED  BY <1>1, <1>5

\* Pop could take the first k requests of a queue with the flags cc.
Taken(cc, k) == PopsInARow(items, cc, k)

\* What a loop state says after iteration i of n: pop would take exactly the
\* requests that are not pending, and as many as it has walked over while the
\* loop goes on.
LoopSound(cc, n, i, b) ==
    /\ b \in [pending : 0..n, available : Nat, break : BOOLEAN]
    /\ n - b.pending <= i
    /\ Taken(cc, n - b.pending)
    /\ IF b.break THEN \A k \in 0..n : Taken(cc, k) => k <= n - b.pending
       ELSE /\ b.pending = n - i
            /\ b.available = FreeSlots - i
            /\ \A j \in 1..i : cc[j]

\* One iteration.
LEMMA LoopStepSound ==
    ASSUME QueueInv, NEW n \in Nat, n = Len(items) + 1, NEW c \in BOOLEAN,
           NEW cc \in [1..n -> BOOLEAN], NEW i \in 1..n, NEW b,
           ConcurrentAt(c, i) = cc[i],
           LoopSound(cc, n, i - 1, b)
    PROVE  LoopSound(cc, n, i, LoopStep(c, i, b))
<1> DEFINE d == LoopStep(c, i, b)
           K == n - b.pending
<1>1. active \in Nat /\ maximum \in Nat /\ active <= maximum /\ fence \in BOOLEAN
  BY RunningFinite DEF QueueInv, QueueTypeOK
<1>2. FreeSlots = IF fence THEN 0 ELSE maximum - active
  BY <1>1 DEF FreeSlots
<1>3. /\ b \in [pending : 0..n, available : Nat, break : BOOLEAN]
      /\ K \in 0..n /\ K <= i - 1
      /\ Taken(cc, K)
      /\ b.break => \A k \in 0..n : Taken(cc, k) => k <= K
      /\ ~b.break => /\ K = i - 1 /\ b.pending = n - (i - 1)
                     /\ b.available = FreeSlots - (i - 1)
                     /\ \A j \in 1..(i - 1) : cc[j]
  BY DEF LoopSound
<1>4. CASE b.break
  <2>1. d = b
    BY <1>3, <1>4 DEF LoopStep
  <2>. QED  BY <1>3, <1>4, <2>1 DEF LoopSound
<1>5. CASE ~b.break /\ b.available = 0
  <2>1. d = [pending |-> b.pending, available |-> b.available, break |-> TRUE]
    BY <1>3, <1>5 DEF LoopStep
  <2>2. ASSUME NEW k \in 0..n, Taken(cc, k), k >= i PROVE FALSE
    <3>1. i \in 1..k
      BY <2>2
    <3>2. ~fence /\ active + (i - 1) < maximum
      BY <2>2, <3>1 DEF Taken, PopsInARow
    <3>. QED  BY <1>1, <1>2, <1>3, <1>5, <3>2
  <2>3. \A k \in 0..n : Taken(cc, k) => k <= K
    BY <1>3, <1>5, <2>2
  <2>. QED  BY <1>3, <2>1, <2>3 DEF LoopSound
<1>6. CASE ~b.break /\ b.available # 0 /\ cc[i]
  <2>1. d = [pending |-> b.pending - 1, available |-> b.available - 1, break |-> FALSE]
    BY <1>3, <1>6 DEF LoopStep
  <2>2. ~fence /\ active + (i - 1) < maximum
    BY <1>1, <1>2, <1>3, <1>6
  <2>3. Taken(cc, i)
    <3>1. ASSUME NEW j \in 1..i
          PROVE  /\ ~fence /\ \A h \in 1..(j - 1) : cc[h]
                 /\ active + (j - 1) < maximum
                 /\ cc[j] \/ active + (j - 1) = 0
      BY <1>1, <1>3, <1>6, <2>2
    <3>. QED  BY <3>1 DEF Taken, PopsInARow
  <2>4. \A j \in 1..i : cc[j]
    BY <1>3, <1>6
  <2>5. d.pending = n - i /\ n - d.pending = i /\ d.available = FreeSlots - i /\ d.pending \in 0..n
       /\ d.available \in Nat
    <3>1. /\ b.pending = n - (i - 1) /\ b.available = FreeSlots - (i - 1)
          /\ b.available \in Nat /\ b.pending \in 0..n
      BY <1>3, <1>6
    <3>2. FreeSlots \in Int
      BY <1>1, <1>2
    <3>3. d.pending = b.pending - 1 /\ d.available = b.available - 1
      BY <2>1
    <3>. HIDE DEF d
    <3>. QED  BY <1>6, <3>1, <3>2, <3>3
  <2>6. d \in [pending : 0..n, available : Nat, break : BOOLEAN] /\ ~d.break
    BY <2>1, <2>5
  <2>. HIDE DEF d
  <2>7. LoopSound(cc, n, i, d)
    BY <2>3, <2>4, <2>5, <2>6 DEF LoopSound
  <2>. QED  BY <2>7 DEF d
<1>7. CASE ~b.break /\ b.available # 0 /\ ~cc[i]
  <2>0. d = [pending |-> IF active = 0 /\ b.pending = n THEN b.pending - 1 ELSE b.pending,
             available |-> b.available, break |-> TRUE]
    BY <1>3, <1>7 DEF LoopStep
  <2>1. ~fence /\ active + (i - 1) < maximum
    BY <1>1, <1>2, <1>3, <1>7
  <2>2. CASE active = 0 /\ b.pending = n
    <3>1. i = 1 /\ d.pending = n - 1 /\ n - d.pending = 1
      BY <1>3, <1>7, <2>0, <2>2
    <3>2. Taken(cc, 1)
      BY <2>1, <2>2, <3>1 DEF Taken, PopsInARow
    <3>3. ASSUME NEW k \in 0..n, Taken(cc, k), k >= 2 PROVE FALSE
      <4>1. 2 \in 1..k /\ 1 \in 1..(2 - 1)
        BY <3>3
      <4>. QED  BY <1>7, <3>1, <3>3, <4>1 DEF Taken, PopsInARow
    <3>4. \A k \in 0..n : Taken(cc, k) => k <= 1
      BY <3>3
    <3>5. d \in [pending : 0..n, available : Nat, break : BOOLEAN] /\ d.break
      BY <1>3, <2>0, <3>1
    <3>. HIDE DEF d
    <3>6. LoopSound(cc, n, i, d)
      BY <3>1, <3>2, <3>4, <3>5 DEF LoopSound
    <3>. QED  BY <3>6 DEF d
  <2>3. CASE ~(active = 0 /\ b.pending = n)
    <3>1. d = [pending |-> b.pending, available |-> b.available, break |-> TRUE]
      BY <2>0, <2>3
    <3>2. ASSUME NEW k \in 0..n, Taken(cc, k), k >= i PROVE FALSE
      <4>1. i \in 1..k
        BY <3>2
      <4>2. active + (i - 1) = 0
        BY <1>7, <3>2, <4>1 DEF Taken, PopsInARow
      <4>. QED  BY <1>1, <1>3, <1>7, <2>3, <4>2
    <3>3. \A k \in 0..n : Taken(cc, k) => k <= K
      BY <1>3, <1>7, <3>2
    <3>. QED  BY <1>3, <3>1, <3>3 DEF LoopSound
  <2>. QED  BY <2>2, <2>3
<1>. QED  BY <1>4, <1>5, <1>6, <1>7

\* The whole loop: after the last iteration the requests that are not pending
\* are as many as pop could take.
LEMMA LoopPredicts ==
    ASSUME QueueInv, NEW n \in Nat, n = Len(items) + 1, NEW c \in BOOLEAN,
           NEW cc \in [1..n -> BOOLEAN], \A i \in 1..n : ConcurrentAt(c, i) = cc[i],
           NEW walk, LoopStates(c, walk, n)
    PROVE  LoopSound(cc, n, n, walk[n])
<1> DEFINE Bad == {i \in 0..n : ~LoopSound(cc, n, i, walk[i])}
<1>. SUFFICES ASSUME Bad # {} PROVE FALSE
  OBVIOUS
<1>0. Bad \in SUBSET Nat
  OBVIOUS
<1>1. PICK m \in Bad : \A k \in Bad : m <= k
  <2>. HIDE DEF Bad
  <2>. QED  BY <1>0, SmallestSize
<1>2. LoopSound(cc, n, 0, walk[0])
  <2>1. walk[0] = LoopStart
    BY DEF LoopStates
  <2>2. FreeSlots \in Nat
    BY RunningFinite DEF QueueInv, QueueTypeOK, FreeSlots
  <2>3. Taken(cc, 0)
    BY DEF Taken, PopsInARow
  <2>4. /\ LoopStart \in [pending : 0..n, available : Nat, break : BOOLEAN]
        /\ LoopStart.pending = n /\ LoopStart.available = FreeSlots - 0 /\ ~LoopStart.break
    BY <2>2 DEF LoopStart
  <2>5. n - LoopStart.pending = 0 /\ 1..0 = {}
    BY <2>4
  <2>. QED  BY <2>1, <2>3, <2>4, <2>5 DEF LoopSound
<1>3. m \in 1..n /\ m - 1 \in 0..n /\ ~(m <= m - 1)
  BY <1>1, <1>2
<1>4. LoopSound(cc, n, m - 1, walk[m - 1])
  BY <1>1, <1>3, Zenon
<1>5. walk[m] = LoopStep(c, m, walk[m - 1])
  BY <1>3 DEF LoopStates
<1>6. LoopSound(cc, n, m, walk[m])
  BY <1>3, <1>4, <1>5, LoopStepSound
<1>. QED  BY <1>1, <1>6

\* pendingAfterPushLocked: conn_max_pending is compared with exactly the number
\* of requests that pop could not start at once, for any queue, any mix of
\* fences and concurrent requests and any number of workers.
THEOREM AdmissionIsExact == QueueSpec => []AdmissionPredictsPop
<1>1. QueueInv => AdmissionPredictsPop
  <2>. SUFFICES ASSUME QueueInv, NEW o \in Ops, NEW c \in BOOLEAN
                PROVE  LET q == Append(items, o)
                           cc == [i \in 1..Len(q) |-> IF i <= Len(items) THEN conc[q[i]] ELSE c]
                           started == Max({k \in 0..Len(q) : PopsInARow(q, cc, k)})
                       IN  PendingAfterPush(o, c) = Len(q) - started
    BY DEF AdmissionPredictsPop
  <2> DEFINE q == Append(items, o)
             n == Len(items) + 1
             cc == [i \in 1..Len(q) |-> IF i <= Len(items) THEN conc[q[i]] ELSE c]
             S == {k \in 0..Len(q) : PopsInARow(q, cc, k)}
  <2>1. items \in Seq(Ops) /\ conc \in [Ops -> BOOLEAN]
    BY DEF QueueInv, QueueTypeOK
  <2>2. /\ Len(items) \in Nat /\ n \in Nat /\ Len(q) = n
        /\ \A i \in 1..Len(items) : items[i] \in Ops /\ q[i] = items[i]
    BY <2>1
  <2>3. \A i \in 1..n : ConcurrentAt(c, i) = cc[i]
    BY <2>2 DEF ConcurrentAt
  <2>4. cc \in [1..n -> BOOLEAN]
    BY <2>1, <2>2
  <2>5. PICK walk : /\ LoopStates(c, walk, n)
                    /\ PendingAfterPush(o, c) = walk[n].pending
    BY <2>2, LoopResult
  <2>. HIDE DEF q, cc
  <2>6. LoopSound(cc, n, n, walk[n])
    BY <2>2, <2>3, <2>4, <2>5, LoopPredicts
  <2> DEFINE K == n - walk[n].pending
  <2>7. /\ walk[n].pending \in 0..n /\ Taken(cc, K)
        /\ \A k \in 0..n : Taken(cc, k) => k <= K
    BY <2>2, <2>6 DEF LoopSound
  <2>8. \A k : Taken(cc, k) <=> PopsInARow(q, cc, k)
    BY DEF Taken, PopsInARow
  <2>9. K \in S /\ \A k \in S : K >= k
    BY <2>2, <2>7, <2>8
  <2>10. S \subseteq Nat
    BY <2>2
  <2>. HIDE DEF S
  <2>11. \A x \in S : (\A y \in S : x >= y) => x = K
    BY <2>7, <2>9, <2>10
  <2>12. Max(S) = K
    BY <2>9, <2>11 DEF Max
  <2>13. PendingAfterPush(o, c) = Len(q) - Max(S)
    BY <2>2, <2>5, <2>7, <2>12
  <2>. QED  BY <2>13 DEF S, cc, q
<1>. QED  BY <1>1, QueueInvariant, PTL

=============================================================================
