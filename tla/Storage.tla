------------------------------- MODULE Storage -------------------------------
(***************************************************************************)
(* Commits of the bbolt store that a server opens                          *)
(* (internal/storage/bolt.go) and the power losses they must survive.      *)
(*                                                                         *)
(* The database is copy-on-write: transaction t writes pages of its own    *)
(* and shares those of earlier transactions, then overwrites the meta page *)
(* t % 2 to make itself current.  The file is seen twice: as the processes *)
(* read and write it (cached) and as the disk holds it (durable).  The     *)
(* kernel may write back any dirty page at any time.  bbolt and the kernel *)
(* are external, modelled from how the store uses them.                    *)
(***************************************************************************)
EXTENDS Integers

CONSTANTS
    SynchronizedWrites,  \* openBoltDurableMetaFile finds O_SYNC on this platform
    SyncReachesFile,     \* an O_SYNC write flushes the earlier writes to the file too
    MaxTransactions      \* bound on the transaction IDs

VARIABLES
    cached, durable,  \* the file: transactions with their pages, and two meta pages
    step,             \* where Bolt.update is
    tx,               \* its transaction
    metaRead,         \* readMetaPages worked before the transaction
    singleSync,       \* Bolt.singleSync, and bolt.DB.NoSync with it
    acknowledged      \* the last transaction that update returned nil for

vars == <<cached, durable, step, tx, metaRead, singleSync, acknowledged>>

Transactions == 1..MaxTransactions
NewFile == [pages |-> {}, meta |-> [i \in 0..1 |-> 0]]
Steps == {"idle", "pages", "pagesWritten", "meta", "metaWritten", "committed"}

(* bbolt opens the newest version that a meta page names.                  *)
Opened(file) == IF file.meta[0] > file.meta[1] THEN file.meta[0] ELSE file.meta[1]

StorageTypeOK ==
    /\ {cached, durable} \subseteq [pages : SUBSET Transactions, meta : [0..1 -> 0..MaxTransactions]]
    /\ step \in Steps /\ tx \in 0..MaxTransactions /\ acknowledged \in 0..MaxTransactions
    /\ {metaRead, singleSync} \subseteq BOOLEAN

(* openBolt, after the buckets were created under ordinary syncs.          *)
Init ==
    /\ cached = NewFile /\ durable = NewFile
    /\ step = "idle" /\ tx = 0 /\ metaRead = FALSE
    /\ singleSync = SynchronizedWrites
    /\ acknowledged = 0

-----------------------------------------------------------------------------
(* update: the lock is taken and the meta pages are read for comparison.   *)
BeginUpdate ==
    /\ step = "idle" /\ Opened(cached) < MaxTransactions
    /\ step' = "pages" /\ tx' = Opened(cached) + 1
    /\ metaRead' \in IF singleSync THEN BOOLEAN ELSE {FALSE}
    /\ UNCHANGED <<cached, durable, singleSync, acknowledged>>

(* fn or the context fails before the commit: the transaction leaves       *)
(* nothing behind.                                                         *)
Rollback ==
    /\ step = "pages" /\ step' = "idle"
    /\ UNCHANGED <<cached, durable, tx, metaRead, singleSync, acknowledged>>

(* bbolt's commit writes the pages, over whatever an attempt that failed   *)
(* left in their place, and later the meta page; both go to the cache.     *)
CommitPages ==
    /\ step = "pages" /\ step' = "pagesWritten"
    /\ cached' = [cached EXCEPT !.pages = @ \cup {tx}]
    /\ durable' = [durable EXCEPT !.pages = @ \ {tx}]
    /\ UNCHANGED <<tx, metaRead, singleSync, acknowledged>>

CommitMeta ==
    /\ step = "meta" /\ step' = "metaWritten"
    /\ cached' = [cached EXCEPT !.meta[tx % 2] = tx]
    /\ UNCHANGED <<durable, tx, metaRead, singleSync, acknowledged>>

(* It flushes the file after either, unless NoSync is set.                 *)
Flush ==
    /\ \/ step = "pagesWritten" /\ step' = "meta"
       \/ step = "metaWritten" /\ step' = "committed"
    /\ durable' = IF singleSync THEN durable ELSE cached
    /\ UNCHANGED <<cached, tx, metaRead, singleSync, acknowledged>>

(* Or it fails there, and update returns the error.                        *)
CommitFails ==
    /\ step \in {"pagesWritten", "metaWritten"} /\ step' = "idle"
    /\ UNCHANGED <<cached, durable, tx, metaRead, singleSync, acknowledged>>

(* Without single sync the commit is the end of update.                    *)
Return ==
    /\ step = "committed" /\ ~singleSync
    /\ step' = "idle" /\ acknowledged' = tx
    /\ UNCHANGED <<cached, durable, tx, metaRead, singleSync>>

(* syncCommittedMeta: the meta page that changed is written once more      *)
(* through the O_SYNC descriptor.                                          *)
SyncCommittedMeta ==
    /\ step = "committed" /\ singleSync /\ metaRead
    /\ durable' = IF SyncReachesFile THEN cached ELSE [durable EXCEPT !.meta[tx % 2] = tx]
    /\ step' = "idle" /\ acknowledged' = tx
    /\ UNCHANGED <<cached, tx, metaRead, singleSync>>

(* disableSingleSync, when a meta page could not be read or written: one   *)
(* flush of the file, then ordinary commits; or the flush fails too and    *)
(* update returns the error.                                               *)
DisableSingleSync ==
    /\ step = "committed" /\ singleSync
    /\ durable' = cached /\ singleSync' = FALSE
    /\ step' = "idle" /\ acknowledged' = tx
    /\ UNCHANGED <<cached, tx, metaRead>>

SyncFails ==
    /\ step = "committed" /\ singleSync
    /\ step' = "idle"
    /\ UNCHANGED <<cached, durable, tx, metaRead, singleSync, acknowledged>>

-----------------------------------------------------------------------------
(* The kernel writes one dirty page back.                                  *)
Writeback ==
    /\ \/ \E t \in cached.pages \ durable.pages : durable' = [durable EXCEPT !.pages = @ \cup {t}]
       \/ \E i \in {j \in 0..1 : cached.meta[j] # durable.meta[j]} :
             durable' = [durable EXCEPT !.meta[i] = cached.meta[i]]
    /\ UNCHANGED <<cached, step, tx, metaRead, singleSync, acknowledged>>

(* The machine stops, and the server opens the store again.                *)
PowerLoss ==
    /\ cached' = durable
    /\ step' = "idle" /\ metaRead' = FALSE /\ singleSync' = SynchronizedWrites
    /\ UNCHANGED <<durable, tx, acknowledged>>

Next ==
    \/ BeginUpdate \/ Rollback \/ CommitPages \/ CommitMeta \/ Flush \/ CommitFails \/ Return
    \/ SyncCommittedMeta \/ DisableSingleSync \/ SyncFails
    \/ Writeback \/ PowerLoss

Spec == Init /\ [][Next]_vars

-----------------------------------------------------------------------------
(* A power loss at this point leaves a store that opens on a version at    *)
(* least as new as the last acknowledged one, with all the pages of that   *)
(* version on the disk.  update acknowledges a write when it returns nil.  *)
PowerLossKeepsAcknowledged ==
    /\ Opened(durable) >= acknowledged
    /\ 1..Opened(durable) \subseteq durable.pages

=============================================================================
