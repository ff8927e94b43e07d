---------------------------- MODULE StorageProofs ----------------------------
(***************************************************************************)
(* Where commits flush the file before and after the meta page, a power    *)
(* loss keeps every acknowledged write.  This is the store that OpenBolt   *)
(* opens, and the server's store on a platform without O_SYNC; with        *)
(* single-sync commits TLC refutes the same property.                      *)
(***************************************************************************)
EXTENDS Storage, TLAPS

File == [pages : SUBSET Nat, meta : [0..1 -> Nat]]

(* The disk lags behind the cache but never behind what was flushed: it    *)
(* has the pages of every version that a meta page names, in the cache     *)
(* even before it has that meta page.                                      *)
DurableInv ==
    /\ ~singleSync /\ cached \in File /\ durable \in File
    /\ step \in Steps /\ tx \in Nat /\ acknowledged \in Nat
    /\ \A i \in 0..1 : durable.meta[i] <= cached.meta[i]
    /\ \A t \in Nat : 1 <= t /\ t <= Opened(cached) => t \in durable.pages
    /\ durable.pages \subseteq cached.pages
    /\ acknowledged <= Opened(durable)
    /\ step \in {"pages", "pagesWritten", "meta"} => tx = Opened(cached) + 1
    /\ step = "pagesWritten" => tx \in cached.pages
    /\ step = "meta" => tx \in durable.pages
    /\ step = "metaWritten" => tx = Opened(cached)
    /\ step = "committed" => tx <= Opened(durable)

LEMMA OpenedIsNat ==
    ASSUME NEW file \in File
    PROVE  Opened(file) \in Nat
BY DEF File, Opened

LEMMA MetaPage ==
    ASSUME NEW t \in Nat
    PROVE  t % 2 \in 0..1
OBVIOUS

(* Overwriting a meta page with a newer transaction makes it the current   *)
(* one, whichever of the two it was.                                       *)
LEMMA NewerMetaIsOpened ==
    ASSUME NEW file \in File, NEW t \in Nat, t > Opened(file)
    PROVE  /\ [file EXCEPT !.meta[t % 2] = t] \in File
           /\ [file EXCEPT !.meta[t % 2] = t].pages = file.pages
           /\ Opened([file EXCEPT !.meta[t % 2] = t]) = t
<1> DEFINE new == [file EXCEPT !.meta[t % 2] = t]
<1>1. t % 2 = 0 \/ t % 2 = 1
  BY MetaPage
<1>2. /\ file.pages \in SUBSET Nat /\ file.meta \in [0..1 -> Nat]
      /\ new = [file EXCEPT !.meta = [file.meta EXCEPT ![t % 2] = t]]
  BY DEF File
<1>3. new.pages = file.pages /\ new.meta = [file.meta EXCEPT ![t % 2] = t]
  BY <1>2 DEF File
<1>4. new \in File
  BY <1>2, <1>3, MetaPage DEF File
<1>5. file.meta[0] \in Nat /\ file.meta[1] \in Nat /\ file.meta[0] < t /\ file.meta[1] < t
  BY <1>2 DEF Opened
<1>6. CASE t % 2 = 0
  <2>1. new.meta[0] = t /\ new.meta[1] = file.meta[1]
    BY <1>2, <1>3, <1>6
  <2> QED  BY <1>3, <1>4, <1>5, <2>1 DEF Opened
<1>7. CASE t % 2 = 1
  <2>1. new.meta[1] = t /\ new.meta[0] = file.meta[0]
    BY <1>2, <1>3, <1>7
  <2> QED  BY <1>3, <1>4, <1>5, <2>1 DEF Opened
<1> QED  BY <1>1, <1>6, <1>7

(* A file whose meta pages are not newer does not open on a newer version. *)
LEMMA OpenedIsMonotone ==
    ASSUME NEW older \in File, NEW newer \in File,
           \A i \in 0..1 : older.meta[i] <= newer.meta[i]
    PROVE  Opened(older) <= Opened(newer)
<1>1. /\ older.meta[0] \in Nat /\ older.meta[1] \in Nat
      /\ newer.meta[0] \in Nat /\ newer.meta[1] \in Nat
  BY DEF File
<1>2. older.meta[0] <= newer.meta[0] /\ older.meta[1] <= newer.meta[1]
  OBVIOUS
<1> QED  BY <1>1, <1>2 DEF Opened

LEMMA DurableInit ==
    ASSUME SynchronizedWrites = FALSE, Init
    PROVE  DurableInv
<1>1. /\ cached = [pages |-> {}, meta |-> [i \in 0..1 |-> 0]]
      /\ durable = [pages |-> {}, meta |-> [i \in 0..1 |-> 0]]
  BY DEF Init, NewFile
<1>2. cached \in File /\ Opened(cached) = 0 /\ durable \in File /\ Opened(durable) = 0
  BY <1>1 DEF File, Opened
<1>3. ~singleSync
  BY DEF Init
<1> QED  BY <1>1, <1>2, <1>3 DEF Init, DurableInv, Steps

LEMMA DurableStep ==
    ASSUME SynchronizedWrites = FALSE, DurableInv, [Next]_vars
    PROVE  DurableInv'
<1> USE DEF DurableInv, Steps
<1>0. Opened(cached) \in Nat /\ Opened(durable) \in Nat /\ Opened(durable) <= Opened(cached)
  BY OpenedIsNat, OpenedIsMonotone
<1>1. CASE BeginUpdate
  BY <1>0, <1>1 DEF BeginUpdate
<1>2. CASE Rollback
  BY <1>2 DEF Rollback
<1>3. CASE CommitPages
  <2>1. /\ step = "pages" /\ step' = "pagesWritten" /\ tx' = tx /\ acknowledged' = acknowledged
        /\ singleSync' = singleSync
        /\ cached' = [cached EXCEPT !.pages = @ \cup {tx}]
        /\ durable' = [durable EXCEPT !.pages = @ \ {tx}]
    BY <1>3 DEF CommitPages
  <2>2. /\ cached' \in File /\ cached'.meta = cached.meta /\ cached'.pages = cached.pages \cup {tx}
        /\ durable' \in File /\ durable'.meta = durable.meta /\ durable'.pages = durable.pages \ {tx}
    BY <2>1 DEF File
  <2>3. Opened(cached') = Opened(cached) /\ Opened(durable') = Opened(durable)
    BY <2>2 DEF Opened
  (* The pages taken away are those of the next version, not of one in use. *)
  <2>4. \A t \in Nat : 1 <= t /\ t <= Opened(cached) => t \in durable'.pages
    BY <1>0, <2>1, <2>2
  <2> QED  BY <1>0, <2>1, <2>2, <2>3, <2>4
<1>4. CASE CommitMeta
  <2>1. /\ step = "meta" /\ step' = "metaWritten" /\ tx' = tx /\ acknowledged' = acknowledged
        /\ singleSync' = singleSync /\ durable' = durable
        /\ cached' = [cached EXCEPT !.meta[tx % 2] = tx]
    BY <1>4 DEF CommitMeta
  <2>2. tx > Opened(cached)
    BY <1>0, <2>1
  <2>3. cached' \in File /\ cached'.pages = cached.pages /\ Opened(cached') = tx
    BY <2>1, <2>2, NewerMetaIsOpened
  <2>4. cached'.meta = [cached.meta EXCEPT ![tx % 2] = tx]
    BY <2>1, MetaPage DEF File
  <2>5. \A i \in 0..1 : cached.meta[i] \in Nat /\ cached.meta[i] <= Opened(cached)
    <3>1. cached.meta[0] \in Nat /\ cached.meta[1] \in Nat
      BY DEF File
    <3> QED  BY <3>1 DEF Opened
  <2>6. \A i \in 0..1 : durable.meta[i] \in Nat /\ durable.meta[i] <= cached'.meta[i]
    <3> TAKE i \in 0..1
    <3>1. durable.meta[i] \in Nat /\ durable.meta[i] <= cached.meta[i] /\ cached.meta \in [0..1 -> Nat]
      BY DEF File
    <3>2. cached'.meta[i] = IF i = tx % 2 THEN tx ELSE cached.meta[i]
      BY <2>4, <3>1
    <3> QED  BY <1>0, <2>2, <2>5, <3>1, <3>2
  <2>7. \A t \in Nat : 1 <= t /\ t <= tx => t \in durable.pages
    BY <1>0, <2>1
  <2> QED  BY <2>1, <2>3, <2>6, <2>7
<1>5. CASE Flush
  <2>1. /\ durable' = cached /\ cached' = cached /\ tx' = tx /\ acknowledged' = acknowledged
        /\ singleSync' = singleSync
        /\ \/ step = "pagesWritten" /\ step' = "meta"
           \/ step = "metaWritten" /\ step' = "committed"
    BY <1>5 DEF Flush
  <2>2. \A i \in 0..1 : cached.meta[i] \in Nat
    BY DEF File
  <2>3. step = "metaWritten" => tx <= Opened(cached)
    OBVIOUS
  <2> QED  BY <1>0, <2>1, <2>2, <2>3
<1>6. CASE CommitFails
  BY <1>6 DEF CommitFails
<1>7. CASE Return
  BY <1>0, <1>7 DEF Return
<1>8. CASE SyncCommittedMeta \/ DisableSingleSync \/ SyncFails
  BY <1>8 DEF SyncCommittedMeta, DisableSingleSync, SyncFails
<1>9. CASE Writeback
  <2>1. /\ cached' = cached /\ step' = step /\ tx' = tx /\ acknowledged' = acknowledged
        /\ singleSync' = singleSync
    BY <1>9 DEF Writeback
  <2>2. CASE \E t \in cached.pages \ durable.pages : durable' = [durable EXCEPT !.pages = @ \cup {t}]
    <3>1. PICK t \in cached.pages \ durable.pages : durable' = [durable EXCEPT !.pages = @ \cup {t}]
      BY <2>2
    <3>2. durable' \in File /\ durable'.meta = durable.meta /\ durable'.pages = durable.pages \cup {t}
      BY <3>1 DEF File
    <3>3. Opened(durable') = Opened(durable)
      BY <3>2 DEF Opened
    <3> QED  BY <1>0, <2>1, <3>2, <3>3
  <2>3. CASE \E i \in {j \in 0..1 : cached.meta[j] # durable.meta[j]} :
                durable' = [durable EXCEPT !.meta[i] = cached.meta[i]]
    <3>1. PICK i \in 0..1 : durable' = [durable EXCEPT !.meta[i] = cached.meta[i]]
      BY <2>3
    <3>2. /\ durable.meta \in [0..1 -> Nat] /\ cached.meta \in [0..1 -> Nat]
          /\ durable'.meta = [durable.meta EXCEPT ![i] = cached.meta[i]]
          /\ durable'.pages = durable.pages /\ durable' \in File
      BY <3>1 DEF File
    <3>3. \A j \in 0..1 : durable.meta[j] <= durable'.meta[j] /\ durable'.meta[j] <= cached.meta[j]
      BY <3>2
    <3>4. Opened(durable) <= Opened(durable') /\ Opened(durable') \in Nat
      BY <3>2, <3>3, OpenedIsMonotone, OpenedIsNat
    <3> QED  BY <1>0, <2>1, <3>2, <3>3, <3>4
  <2> QED  BY <1>9, <2>2, <2>3 DEF Writeback
<1>10. CASE PowerLoss
  <2>1. /\ cached' = durable /\ durable' = durable /\ step' = "idle" /\ tx' = tx
        /\ acknowledged' = acknowledged /\ singleSync' = FALSE
    BY <1>10 DEF PowerLoss
  <2>2. \A i \in 0..1 : durable.meta[i] \in Nat
    BY DEF File
  <2> QED  BY <1>0, <2>1, <2>2
<1>11. CASE UNCHANGED vars
  BY <1>11 DEF vars
<1> QED
  BY <1>1, <1>2, <1>3, <1>4, <1>5, <1>6, <1>7, <1>8, <1>9, <1>10, <1>11 DEF Next

(* Under ordinary commits a power loss at any point, a write under way     *)
(* included, leaves a store that opens on the last acknowledged version or *)
(* a newer one with all of its pages: what update promised by returning    *)
(* nil holds for every number of transactions.                             *)
THEOREM OrdinaryCommitsAreDurable ==
    ASSUME SynchronizedWrites = FALSE
    PROVE  Spec => []PowerLossKeepsAcknowledged
<1>1. DurableInv => PowerLossKeepsAcknowledged
  BY OpenedIsNat, OpenedIsMonotone DEF DurableInv, PowerLossKeepsAcknowledged
<1>2. Init => DurableInv
  BY DurableInit
<1>3. DurableInv /\ [Next]_vars => DurableInv'
  BY DurableStep
<1> QED  BY <1>1, <1>2, <1>3, PTL DEF Spec

=============================================================================
