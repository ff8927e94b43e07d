---------------------------- MODULE MCScheduler -----------------------------
(* Instances of Scheduler: three tiers, one per policy. *)
EXTENDS Scheduler, TLC

CONSTANTS b1, b2, b3, b4, r1, r2, r3, r4, x1, c1, c2

MCTierBackends == <<<<b1, b2>>, <<b3>>, <<b4>>>>
MCTierPolicy == <<"roundrobin", "weighted", "bestof">>
MCMembers == (b1 :> <<r1, x1>>) @@ (b2 :> <<r2>>) @@ (b3 :> <<r3>>) @@ (b4 :> <<r4>>)
MCOwner == (r1 :> b1) @@ (x1 :> b1) @@ (r2 :> b2) @@ (r3 :> b3) @@ (r4 :> b4)
MCPoolOf == [x \in Connections |-> IF x = x1 THEN "bind" ELSE "regular"]
MCWeight == [b \in Backends |-> IF b = b3 THEN 0 ELSE 1]
\* b1 is limited as a backend, the others per connection.
MCBackendMax == [b \in Backends |-> IF b = b1 THEN 1 ELSE 0]
MCConnectionMax == [x \in Connections |-> IF x = r1 THEN 0 ELSE 1]

Select(pool, b, x) == [kind |-> "select", pool |-> pool, backend |-> b, connection |-> x]
MCRequests ==
    {Select("regular", None, None), Select("bind", b1, None), Select("regular", b2, r1),
     Select("regular", None, r2),
     [kind |-> "owned", connection |-> x1, limit |-> 1],
     [kind |-> "signaling", connection |-> r1]}

ClientSymmetry == Permutations(Clients)

=============================================================================
