----------------------------- MODULE MCLocateKey -----------------------------
(* Every ring of up to five members on eight identifiers.                  *)
EXTENDS LocateKey
MCExtTcp == {}
MCUniverse == {0, 1, 3, 4, 6}
MCKeys == 0 .. 7
=============================================================================
