------------------------------- MODULE Routing -------------------------------
(***************************************************************************)
(* The routing table of src/p2p/chord/routing.zig.                         *)
(*                                                                         *)
(* A table is a record; each operator returns what the method of the same  *)
(* name makes of it.  A NodeAddr is the identifier it carries and whether  *)
(* it has a TCP port that differs from the UDP port, the only part of the  *)
(* address a decision depends on.  The identifier 0 stands for a bootstrap *)
(* address whose identity is not known.                                    *)
(***************************************************************************)
EXTENDS Ring

CONSTANTS
  NoAddr,   \* null
  M,        \* length of the finger table
  ExtTcp    \* nodes that advertise an external TCP port

ASSUME RoutingAssumption ==
  /\ M \in Nat \ {0}
  /\ NoAddr \notin [id : NodeId, tcp : BOOLEAN]

NodeAddr   == [id : NodeId, tcp : BOOLEAN]
MaybeAddr  == NodeAddr \cup {NoAddr}
FingerIdx  == 0 .. M - 1
Table      == [succ : MaybeAddr, b1 : MaybeAddr, b2 : MaybeAddr, pred : MaybeAddr,
               fingers : [FingerIdx -> MaybeAddr], next : FingerIdx]

SelfAddr(n) == [id |-> n, tcp |-> n \in ExtTcp]

\* Routing.init: a lone node is its own successor.
InitTable(n) == [succ |-> SelfAddr(n), b1 |-> NoAddr, b2 |-> NoAddr, pred |-> NoAddr,
                 fingers |-> [i \in FingerIdx |-> NoAddr], next |-> 0]

-----------------------------------------------------------------------------
(* Lookup.                                                                 *)

\* Finger i may precede target.
Precedes(n, t, target, i) ==
  /\ t.fingers[i] # NoAddr
  /\ t.fingers[i].id # n
  /\ betweenLeftInclusive(t.fingers[i].id, n, target)

LastPreceding(n, t, target, i) ==
  /\ Precedes(n, t, target, i)
  /\ \A j \in FingerIdx : Precedes(n, t, target, j) => j <= i

\* The table is scanned from its end; the successor is the fallback.
closestPrecedingNode(n, t, target) ==
  IF \E i \in FingerIdx : LastPreceding(n, t, target, i)
  THEN t.fingers[CHOOSE i \in FingerIdx : LastPreceding(n, t, target, i)]
  ELSE t.succ

findSuccessor(n, t, target) ==
  IF t.succ = NoAddr THEN SelfAddr(n)
  ELSE IF between(target, n, t.succ.id) THEN t.succ
  ELSE closestPrecedingNode(n, t, target)

-----------------------------------------------------------------------------
(* Predecessor.                                                            *)

\* Mutant: a node may become its own predecessor.
NotifySelfAccepted(n, t, c) ==
  IF t.pred = NoAddr \/ between(c.id, t.pred.id, n) THEN [t EXCEPT !.pred = c] ELSE t

\* Mutant: the ends of the interval are swapped.
NotifySwapped(n, t, c) ==
  IF c.id # n /\ (t.pred = NoAddr \/ between(c.id, n, t.pred.id)) THEN [t EXCEPT !.pred = c] ELSE t

\* A node that is closer replaces the predecessor; the same node replaces it
\* when its address is better.
notifyCandidate(n, t, c) ==
  IF /\ c.id # n
     /\ \/ t.pred = NoAddr
        \/ t.pred.id = n
        \/ between(c.id, t.pred.id, n)
        \/ c.id = t.pred.id /\ c.tcp /\ ~t.pred.tcp
  THEN [t EXCEPT !.pred = c]
  ELSE t

-----------------------------------------------------------------------------
(* Successor and backups.                                                  *)

Holds(slot, id) == slot # NoAddr /\ slot.id = id

\* The other entries move to the front.
removeFromBackups(t, dead) ==
  IF Holds(t.b1, dead) \/ t.b1 = NoAddr
  THEN [t EXCEPT !.b1 = IF Holds(t.b2, dead) THEN NoAddr ELSE t.b2, !.b2 = NoAddr]
  ELSE [t EXCEPT !.b2 = IF Holds(t.b2, dead) THEN NoAddr ELSE t.b2]

\* Full: the entry farthest from this node goes, whatever the distance of
\* the candidate.
addBackupSuccessor(n, t, c) ==
  IF c.id = n \/ Holds(t.succ, c.id) THEN t
  ELSE IF Holds(t.b1, c.id) THEN [t EXCEPT !.b1 = c]
  ELSE IF Holds(t.b2, c.id) THEN [t EXCEPT !.b2 = c]
  ELSE IF t.b1 = NoAddr THEN [t EXCEPT !.b1 = c]
  ELSE IF t.b2 = NoAddr THEN [t EXCEPT !.b2 = c]
  ELSE IF distance(n, t.b2.id) > distance(n, t.b1.id) THEN [t EXCEPT !.b2 = c]
  ELSE [t EXCEPT !.b1 = c]

\* Mutant: the new successor stays in the backup list.
SetSuccessorKeepsBackup(n, t, a) == [t EXCEPT !.succ = a]

\* Mutant: the old successor goes to the backups, as the comment has it.
SetSuccessorAsDocumented(n, t, a) ==
  IF Holds(t.succ, a.id) \/ t.succ = NoAddr THEN [t EXCEPT !.succ = a]
  ELSE addBackupSuccessor(n, [removeFromBackups(t, a.id) EXCEPT !.succ = a], t.succ)

\* The old successor is offered as a backup while it still is the successor.
setSuccessor(n, t, a) ==
  IF Holds(t.succ, a.id) THEN [t EXCEPT !.succ = a]
  ELSE LET offered == IF t.succ # NoAddr /\ t.succ.id # n
                      THEN addBackupSuccessor(n, t, t.succ) ELSE t
       IN  [removeFromBackups(offered, a.id) EXCEPT !.succ = a]

\* A dead successor is replaced by the first backup, or by nothing.
removeSuccessor(t, dead) ==
  IF Holds(t.succ, dead)
  THEN IF t.b1 # NoAddr THEN [t EXCEPT !.succ = t.b1, !.b1 = t.b2, !.b2 = NoAddr]
       ELSE [t EXCEPT !.succ = NoAddr]
  ELSE removeFromBackups(t, dead)
=============================================================================
