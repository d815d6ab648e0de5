---------------------------- MODULE MCReplication ----------------------------
(* Three nodes in a ring; the targets of each are its two successors.  Two *)
(* keys with different homes, so that rounds of two nodes nest.  Once      *)
(* threads have raced nothing is claimed, and nothing followed; of a       *)
(* delete and a fault one behaviour has one.                               *)
EXTENDS Replication, TLC
CONSTANTS a, b, c, k1, k2
MCHome == (k1 :> a) @@ (k2 :> b)
MCTargets == (a :> <<b, c>>) @@ (b :> <<c, a>>) @@ (c :> <<a, b>>)
Followed == deletes + faults <= 1 /\ \A n \in Nodes : ~raced[n]
=============================================================================
