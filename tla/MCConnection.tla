---------------------------- MODULE MCConnection ----------------------------
(* Small instances of a connection for TLC. *)
EXTENDS Connection, TLC

CONSTANTS o1, o2, o3, w1, w2

MCBytes == [o \in Ops |-> 1]

MCSymmetry == Permutations(Ops) \cup Permutations(Workers)

\* o3 is larger than a connection may retain: it is always refused.
MCBytesOneTooLarge == [o \in Ops |-> IF o = o3 THEN MaxRetainedBytes + 1 ELSE 1]

MCSmallSymmetry == Permutations(Ops \ {o3})

=============================================================================
