-------------------------- MODULE MCSyncReplication -------------------------
(* Small instances of replication for TLC. *)
EXTENDS SyncReplication

CONSTANTS k1, k2

(* One provider and one consumer. *)
Pair == {<<1, 2>>}
PairServerID == [n \in Nodes |-> 0]
AtProvider == [k \in Clients |-> 1]

=============================================================================
