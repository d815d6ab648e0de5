---------------------------- MODULE MCRelayServer ----------------------------
(* Three connections, so that one may take the number another has given     *)
(* back while a third replaces a session; two nodes.                        *)
EXTENDS RelayServer, TLC

CONSTANTS n1, n2, c1, c2, c3

MCNodes == {n1, n2}
MCConns == {c1, c2, c3}
MCFds == 1..2

ServerSymmetry == Permutations(MCNodes) \cup Permutations(MCConns)
=============================================================================
