------------------------------ MODULE MCRelayV2 ------------------------------
(* Three connections, dispatched in turn to two workers: the first and the  *)
(* third to the worker that accepts.                                        *)
EXTENDS RelayV2

CONSTANT n1

MCConns == 1..3
MCFewConns == 1..2
MCOneNode == {n1}
MCFds == 0..3
MCFewFds == 0..2
=============================================================================
