---------------------------- MODULE MCChordNode ----------------------------
(* One node, 1, on a ring of eight identifiers; the peers 3 (with and      *)
(* without TCP port), 5 and 6, and a bootstrap address without identity.      *)
EXTENDS ChordNode
MCNodes == {1}
MCExtTcp == {}
P(id) == [id |-> id, tcp |-> FALSE]
MCPeers == {P(1), P(3), P(5), P(6), [id |-> 3, tcp |-> TRUE]}
MCBoots == [n \in MCNodes |-> <<P(0), P(6)>>]

\* After an overlap nothing is claimed until the restart: a node is followed to
\* the writes of a handler that found it alone, which writes every slot.
Followed ==
  \A n \in Nodes :
    raced[n] => Handling(n) /\ op[n].pc = "idle" /\ plug[n].seen = InitTable(n)
=============================================================================
