------------------------------ MODULE MCDaemon ------------------------------
(* One restart before the penalty; a penalty and a stable period that are   *)
(* longer than the delays of two restarts; and one node besides the main    *)
(* node, with an older version.                                             *)
EXTENDS Daemon

CONSTANTS m, r

MCNodes == {m, r}
MCOutdated == {r}
MCCommands == {"restart", "update_binary"}
=============================================================================
