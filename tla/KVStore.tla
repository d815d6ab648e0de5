------------------------------- MODULE KVStore -------------------------------
(***************************************************************************)
(* The metadata store of src/p2p/metadata/store.zig: a map in memory, one  *)
(* version counter for all its keys, a dirty flag, and the snapshot that   *)
(* save writes and load reads.                                             *)
(*                                                                         *)
(* A value is the number of the put that wrote it, so that properties can  *)
(* tell puts apart.  Owner, permission and timestamp travel with the value *)
(* and decide nothing here: requests come from the owner, the others are   *)
(* refused without a change of state.                                      *)
(***************************************************************************)
EXTENDS Naturals

CONSTANTS
  Keys,
  NoEntry

Entry == [val : Nat, ver : Nat]

ASSUME EntryAssumption == NoEntry \notin Entry

MaybeEntry == Entry \cup {NoEntry}
Snapshot   == [Keys -> MaybeEntry]

\* unmarked: history, the keys whose entries have changed since the flag was last
\* set: by a put that is under way, or one that has failed.
Store == [map : Snapshot, next : Nat, dirty : BOOLEAN, unmarked : SUBSET Keys]

Empty == [k \in Keys |-> NoEntry]

\* KVStore.init.
InitStore == [map |-> Empty, next |-> 1, dirty |-> FALSE, unmarked |-> {}]

(***************************************************************************)
(* put in three steps.  The version is read before the first of them.      *)
(***************************************************************************)
\* The version is counted, the old entry removed; all of a put that then fails for
\* want of memory.
remove(s, k) ==
  [s EXCEPT !.next = @ + 1, !.map[k] = NoEntry, !.unmarked = @ \cup {k}]

insert(s, k, v, version) ==
  [s EXCEPT !.map[k] = [val |-> v, ver |-> version], !.unmarked = @ \cup {k}]

mark(s) == [s EXCEPT !.dirty = TRUE, !.unmarked = {}]

\* The version comes from the store, whatever the message carries.
put(s, k, v) == mark(insert(remove(s, k), k, v, s.next))

delete(s, k) == IF s.map[k] = NoEntry THEN s ELSE mark([s EXCEPT !.map[k] = NoEntry])

\* Mutant: the counter starts anew.
CounterForgotten(map) == {1}

\* load raises the counter above the version of each entry that it reads.
NextVersions(map) ==
  LET vers == {map[k].ver : k \in {j \in Keys : map[j] # NoEntry}}
  IN  {next \in {1} \cup {v + 1 : v \in vers} : \A v \in vers : v < next}

\* The stores that load may leave: the whole snapshot, or nothing if the file
\* cannot be read (an I/O error, a file above one MiB, no valid JSON).
Loaded(map) ==
  {InitStore} \cup
  {[map |-> map, next |-> next, dirty |-> FALSE, unmarked |-> {}] : next \in NextVersions(map)}

\* No two entries share a version and the next one is new.
VersionsOf(map, next) ==
  /\ \A k \in Keys : map[k] # NoEntry => map[k].ver < next
  /\ \A j, k \in Keys :
       map[j] # NoEntry /\ map[k] # NoEntry /\ map[j].ver = map[k].ver => j = k
=============================================================================
