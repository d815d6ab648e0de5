--------------------------- MODULE MCRelayAdapter ---------------------------
(* The main thread and one plugin thread.                                  *)
EXTENDS RelayAdapter
CONSTANTS m, p
MCRequesters == {m, p}
=============================================================================
