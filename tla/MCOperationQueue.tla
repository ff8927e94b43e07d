-------------------------- MODULE MCOperationQueue --------------------------
(* Small instances of the operation queue for TLC. *)
EXTENDS OperationQueue, TLC

CONSTANTS o1, o2, o3, o4, w1, w2, w3

MCBytes == [o \in Ops |-> IF o = o1 THEN 2 ELSE 1]

WorkerSymmetry == Permutations(Workers)

=============================================================================
