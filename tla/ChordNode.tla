------------------------------ MODULE ChordNode ------------------------------
(***************************************************************************)
(* The life of the routing tables of a set of Chord nodes: the main thread *)
(* of src/p2p/chord/node.zig over the tables of Routing.                   *)
(*                                                                         *)
(* A node runs one maintenance operation at a time.  Where the operation   *)
(* calls sendAndWait it waits, and while it waits the socket is polled and *)
(* every message that is not of the expected type goes to handleMessage:   *)
(* handlers run inside the operation, between the read of the table before *)
(* the call and the writes after it.                                       *)
(*                                                                         *)
(* A plugin's host call has its own sendAndWait (host_dht_get,             *)
(* host_dht_put), so that handleMessage runs on the plugin's thread too,   *)
(* and nothing locks the table.  Such a handler is two steps here, the     *)
(* read of the table and the writes.  A step of another thread between the *)
(* two is an overlap: raced records it, and from then on each slot of the  *)
(* table is what either thread leaves there.  The safety properties are    *)
(* stated until a node's first overlap.  Plugins run after the join only.  *)
(*                                                                         *)
(* This module says nothing of who answers: an answer is any address, and  *)
(* a wait may time out at any moment.                                      *)
(*                                                                         *)
(* Not modelled: answers to a call on the node's own address, which        *)
(* sendAndWait computes without waiting, are taken inline where the table  *)
(* decides them (stabilize, the search for an alternative) and are one of  *)
(* the possible answers elsewhere.                                         *)
(***************************************************************************)
EXTENDS Routing, Sequences

CONSTANTS
  Nodes,    \* the nodes; a node is its identifier
  Peers,    \* the addresses messages may carry
  Boots     \* the bootstrap list of each node

ASSUME NodesAssumption ==
  /\ Nodes \subseteq NodeId
  /\ Peers \subseteq NodeAddr
  /\ Boots \in [Nodes -> Seq(NodeAddr)]

VARIABLES
  tab,   \* routing table of each node
  op,    \* what its main thread is doing
  plug,  \* the notify a plugin's thread is handling, and the table it has read
  raced  \* history: an overlap of two threads on the table since the start

nodeVars == <<tab, op, plug, raced>>

Asking == {"bootId", "joinAsk", "selfId", "quick", "greet", "getPred", "alt", "altPred",
           "fbAsk", "fbId", "notify", "nextSucc", "revive", "checkPred"}
Pc     == Asking \cup {"off", "boot", "quickNext", "idle"}

\* ask: the address the pending call went to; base: the successor the
\* operation started from; s1, s2: its copy of the backups; idx: its loop
\* index, fin: the finger quickFillFingers is at; flag: whether joinMulti has
\* a successor, or whether a lone node entered the bootstrap fallback.
Op == [pc : Pc, ask : MaybeAddr, base : MaybeAddr, s1 : MaybeAddr, s2 : MaybeAddr,
       idx : Nat, fin : Nat, flag : BOOLEAN]

NewOp(pc) == [pc |-> pc, ask |-> NoAddr, base |-> NoAddr, s1 |-> NoAddr, s2 |-> NoAddr,
              idx |-> 0, fin |-> 0, flag |-> FALSE]
Idle == NewOp("idle")

\* cand is NoAddr while no plugin's thread is in a handler.
Plug        == [cand : MaybeAddr, seen : Table]
NoPlug(n)   == [cand |-> NoAddr, seen |-> InitTable(n)]
Handling(n) == plug[n].cand # NoAddr

TypeOK ==
  /\ tab \in [Nodes -> Table] /\ op \in [Nodes -> Op]
  /\ plug \in [Nodes -> Plug] /\ raced \in [Nodes -> BOOLEAN]

NodeInit ==
  /\ tab = [n \in Nodes |-> InitTable(n)]
  /\ op = [n \in Nodes |-> NewOp("off")]
  /\ plug = [n \in Nodes |-> NoPlug(n)]
  /\ raced = [n \in Nodes |-> FALSE]

\* The main thread of n leaves table t behind and continues with o.
Go(n, t, o) ==
  /\ tab' = [tab EXCEPT ![n] = t]
  /\ op' = [op EXCEPT ![n] = o]
  /\ raced' = [raced EXCEPT ![n] = @ \/ Handling(n)]
  /\ UNCHANGED plug

Ask(pc, a) == [NewOp(pc) EXCEPT !.ask = a]

\* handleMessage runs in tick and inside every wait.
Receptive(n) == op[n].pc = "idle" \/ op[n].pc \in Asking

\* The waits of joinMulti, which ends before the first plugin is started.
Joining == {"bootId", "joinAsk", "selfId", "quick", "greet"}

-----------------------------------------------------------------------------
(* Start and stop.  The table is not persistent.                           *)

JoinNext(n, t, i, joined) ==
  Go(n, t, [NewOp("boot") EXCEPT !.idx = i, !.flag = joined])

Start(n) == op[n].pc = "off" /\ JoinNext(n, InitTable(n), 1, FALSE)

Stop(n) ==
  /\ op[n].pc # "off"
  /\ tab' = [tab EXCEPT ![n] = InitTable(n)]
  /\ op' = [op EXCEPT ![n] = NewOp("off")]
  /\ plug' = [plug EXCEPT ![n] = NoPlug(n)]
  /\ raced' = [raced EXCEPT ![n] = FALSE]

-----------------------------------------------------------------------------
(* joinMulti.                                                              *)

JoinDone(n) ==
  /\ op[n].pc = "boot" /\ op[n].idx > Len(Boots[n])
  /\ Go(n, tab[n], Idle)

\* The next bootstrap: a public address without identity is resolved first.
JoinContact(n) ==
  LET boot == Boots[n][op[n].idx]
      ask(pc) == [op[n] EXCEPT !.pc = pc, !.ask = boot]
  IN  /\ op[n].pc = "boot" /\ op[n].idx \in 1 .. Len(Boots[n])
      /\ \/ boot.id = 0 /\ Go(n, tab[n], ask("bootId"))
         \/ Go(n, tab[n], ask("joinAsk"))

BootIdentity(n, a) ==
  /\ op[n].pc = "bootId"
  /\ Go(n, tab[n], [op[n] EXCEPT !.pc = "joinAsk", !.ask = a])

\* Three attempts of a probe are one wait.
JoinTimeout(n) ==
  /\ op[n].pc \in {"bootId", "joinAsk"}
  /\ JoinNext(n, tab[n], op[n].idx + 1, op[n].flag)

\* The first bootstrap that answers gives the successor.
Adopt(n, a) ==
  Go(n, [setSuccessor(n, tab[n], a) EXCEPT !.fingers = [@ EXCEPT ![0] = a]],
     [op[n] EXCEPT !.pc = "quickNext", !.ask = NoAddr, !.base = a, !.fin = 1])

GreetOrNext(n, t, a, i) ==
  IF a.id = n THEN JoinNext(n, t, i + 1, TRUE)
  ELSE Go(n, t, [Ask("greet", a) EXCEPT !.idx = i, !.flag = TRUE])

JoinAnswer(n, a) ==
  /\ op[n].pc = "joinAsk"
  /\ IF op[n].flag THEN GreetOrNext(n, tab[n], a, op[n].idx)
     ELSE IF a.id = n THEN Go(n, tab[n], [op[n] EXCEPT !.pc = "selfId"])
     ELSE Adopt(n, a)

\* The bootstrap still names this node as the owner of its own identifier:
\* the bootstrap itself becomes the successor.
SelfIdentity(n, a) == op[n].pc = "selfId" /\ Adopt(n, a)

SelfIdentityTimeout(n) == op[n].pc = "selfId" /\ Adopt(n, op[n].ask)

QuickFill(n, t) == Go(n, t, [op[n] EXCEPT !.pc = "quickNext", !.fin = @ + 1])

\* quickFillFingers: the first 16 fingers, locally where the successor covers
\* the start, else by asking it.
QuickLocal(n) ==
  LET start == fingerStart(n, op[n].fin)
  IN  /\ op[n].pc = "quickNext" /\ op[n].fin < 16 /\ op[n].fin < M
      /\ IF betweenLeftInclusive(start, n, op[n].base.id)
         THEN QuickFill(n, [tab[n] EXCEPT !.fingers = [@ EXCEPT ![op[n].fin] = op[n].base]])
         ELSE Go(n, tab[n], [op[n] EXCEPT !.pc = "quick", !.ask = op[n].base])

QuickAnswer(n, a) ==
  /\ op[n].pc = "quick"
  /\ QuickFill(n, [tab[n] EXCEPT !.fingers = [@ EXCEPT ![op[n].fin] = a]])

QuickTimeout(n) == op[n].pc = "quick" /\ QuickFill(n, tab[n])

QuickDone(n) ==
  /\ op[n].pc = "quickNext" /\ (op[n].fin >= 16 \/ op[n].fin >= M)
  /\ GreetOrNext(n, tab[n], op[n].base, op[n].idx)

\* greetNode: the answer and the timeout lead on to the next bootstrap.
GreetDone(n) == op[n].pc = "greet" /\ JoinNext(n, tab[n], op[n].idx + 1, TRUE)

-----------------------------------------------------------------------------
(* doStabilize.                                                            *)

\* The tail of doStabilize: notify the successor there is now, if any.
NotifyOrEnd(n, t) ==
  Go(n, t, IF t.succ = NoAddr \/ t.succ.id = n THEN Idle ELSE Ask("notify", t.succ))

\* tryBootstrapFallback.  The rounds of bootstrap.findSuccessor over the list
\* are one round.
Fallback(n, t, lone) ==
  IF Boots[n] # <<>>
  THEN Go(n, t, [Ask("fbAsk", Boots[n][1]) EXCEPT !.idx = 1, !.flag = lone])
  ELSE IF lone THEN NotifyOrEnd(n, t) ELSE Go(n, t, Idle)

\* Mutant: the predecessor of the successor is taken wherever it lies.
AdoptAnyPred(n, t, base, a) ==
  IF a # NoAddr /\ a.id # n THEN setSuccessor(n, t, [a EXCEPT !.tcp = FALSE]) ELSE t

\* The successor's predecessor becomes the successor if it lies between; its
\* TCP port is not copied.  A lone node takes any other node.
AdoptPred(n, t, base, a) ==
  IF /\ a # NoAddr /\ a.id # n
     /\ base.id = n \/ between(a.id, n, base.id)
  THEN setSuccessor(n, t, [a EXCEPT !.tcp = FALSE])
  ELSE t

AfterPred(n, base, a) ==
  LET t == AdoptPred(n, tab[n], base, a)
  IN  IF base.id = n /\ Holds(t.succ, n) THEN Fallback(n, t, TRUE) ELSE NotifyOrEnd(n, t)

\* A node that is its own successor answers itself.
Stabilize(n) ==
  LET succ == tab[n].succ
  IN  /\ op[n].pc = "idle" /\ succ # NoAddr
      /\ IF succ.id = n THEN AfterPred(n, succ, tab[n].pred)
         ELSE Go(n, tab[n], [Ask("getPred", succ) EXCEPT !.base = succ])

PredAnswer(n, a) == op[n].pc = "getPred" /\ AfterPred(n, op[n].base, a)

NotifyAnswer(n) == op[n].pc = "notify" /\ Go(n, tab[n], Ask("nextSucc", op[n].ask))

FallbackEnd(n, t, lone) == IF lone THEN NotifyOrEnd(n, t) ELSE Go(n, t, Idle)

\* The backups are dropped whatever the answer is.
FallbackAnswer(n, a) ==
  LET t == [tab[n] EXCEPT !.b1 = NoAddr, !.b2 = NoAddr]
  IN  /\ op[n].pc = "fbAsk"
      /\ IF a.id = n THEN Go(n, t, [op[n] EXCEPT !.pc = "fbId"])
         ELSE FallbackEnd(n, setSuccessor(n, t, a), op[n].flag)

FallbackTimeout(n) ==
  LET i == op[n].idx + 1
  IN  /\ op[n].pc = "fbAsk"
      /\ IF i \in 1 .. Len(Boots[n])
         THEN Go(n, tab[n], [op[n] EXCEPT !.ask = Boots[n][i], !.idx = i])
         ELSE FallbackEnd(n, tab[n], op[n].flag)

FallbackIdentity(n, a) ==
  op[n].pc = "fbId" /\ FallbackEnd(n, setSuccessor(n, tab[n], a), op[n].flag)

FallbackIdentityTimeout(n) ==
  op[n].pc = "fbId" /\ FallbackEnd(n, setSuccessor(n, tab[n], op[n].ask), op[n].flag)

-----------------------------------------------------------------------------
(* The candidates of findAlternativeSuccessor and reviveBackups: the copy  *)
(* of the two backups, then the fingers in order.                          *)

Candidate(t, o, k) == IF k = 1 THEN o.s1 ELSE IF k = 2 THEN o.s2 ELSE t.fingers[k - 3]

IsFirst(S, k) == k \in S /\ \A j \in S : k <= j

\* Candidates at i or later.  The fingers may hold this node itself.
AltCandidates(n, t, o, i) ==
  {k \in i .. M + 2 : LET c == Candidate(t, o, k) IN
     /\ c # NoAddr /\ c.id # o.base.id
     /\ k <= 2 => c.id # n}

AltFound(n, t, a) == Go(n, setSuccessor(n, t, a), Idle)

\* Ask the next candidate; then the predecessor; then a bootstrap.  A call to
\* the node's own address succeeds at once.
AltFrom(n, t, o, i) ==
  LET S == AltCandidates(n, t, o, i)
      k == CHOOSE j \in S : IsFirst(S, j)
      c == Candidate(t, o, k)
  IN  IF \E j \in S : IsFirst(S, j)
      THEN IF c.id = n THEN AltFound(n, t, c)
           ELSE Go(n, t, [o EXCEPT !.pc = "alt", !.ask = c, !.idx = k])
      ELSE IF t.pred # NoAddr /\ t.pred.id # o.base.id
      THEN Go(n, t, [o EXCEPT !.pc = "altPred", !.ask = t.pred])
      ELSE Fallback(n, t, FALSE)

\* Mutant: the dead successor is dropped before another one is found.
PredTimeoutDropsFirst(n) ==
  /\ op[n].pc = "getPred"
  /\ AltFrom(n, removeSuccessor(tab[n], op[n].base.id),
             [op[n] EXCEPT !.s1 = tab[n].b1, !.s2 = tab[n].b2], 1)

\* The successor does not answer: look for another one.
PredTimeout(n) ==
  /\ op[n].pc = "getPred"
  /\ AltFrom(n, tab[n], [op[n] EXCEPT !.s1 = tab[n].b1, !.s2 = tab[n].b2], 1)

\* A backup that answers replaces the dead successor, a finger is returned
\* as it is.
AltAnswer(n) ==
  /\ op[n].pc = "alt"
  /\ AltFound(n, IF op[n].idx <= 2 THEN removeSuccessor(tab[n], op[n].base.id) ELSE tab[n],
              op[n].ask)

AltTimeout(n) ==
  /\ op[n].pc = "alt"
  /\ AltFrom(n, IF op[n].idx <= 2 THEN removeSuccessor(tab[n], op[n].ask.id) ELSE tab[n],
             op[n], op[n].idx + 1)

AltPredAnswer(n) == op[n].pc = "altPred" /\ AltFound(n, tab[n], op[n].ask)

AltPredTimeout(n) == op[n].pc = "altPred" /\ Fallback(n, tab[n], FALSE)

-----------------------------------------------------------------------------
(* The end of doStabilize: the successor's successor, then reviveBackups.  *)

\* Each identifier is asked once; the limit of eight finger probes a round is
\* above the M of the instances.
ReviveCandidates(n, t, o, i) ==
  {k \in i .. M + 2 : LET c == Candidate(t, o, k) IN
     /\ c # NoAddr /\ c.id \notin {n, o.base.id}
     /\ \A j \in 1 .. k - 1 : ~Holds(Candidate(t, o, j), c.id)}

ReviveFrom(n, t, o, i) ==
  LET S == ReviveCandidates(n, t, o, i)
      k == CHOOSE j \in S : IsFirst(S, j)
  IN  Go(n, t, IF \E j \in S : IsFirst(S, j)
               THEN [o EXCEPT !.pc = "revive", !.ask = Candidate(t, o, k), !.idx = k]
               ELSE Idle)

Revive(n, t) ==
  IF t.succ = NoAddr \/ t.succ.id = n THEN Go(n, t, Idle)
  ELSE ReviveFrom(n, t, [NewOp("revive") EXCEPT !.base = t.succ, !.s1 = t.b1, !.s2 = t.b2], 1)

NextSuccAnswer(n, a) ==
  /\ op[n].pc = "nextSucc"
  /\ Revive(n, IF a.id \notin {n, op[n].ask.id} THEN addBackupSuccessor(n, tab[n], a) ELSE tab[n])

\* tryReviveOne: a node that is back and lies before the successor replaces it.
ReviveAnswer(n) ==
  /\ op[n].pc = "revive"
  /\ IF between(op[n].ask.id, n, op[n].base.id)
     THEN Go(n, setSuccessor(n, tab[n], op[n].ask), Idle)
     ELSE ReviveFrom(n, tab[n], op[n], op[n].idx + 1)

ReviveTimeout(n) == op[n].pc = "revive" /\ ReviveFrom(n, tab[n], op[n], op[n].idx + 1)

\* notify and the query for the successor's successor end the operation.
StabilizeAbort(n) == op[n].pc \in {"notify", "nextSucc"} /\ Go(n, tab[n], Idle)

-----------------------------------------------------------------------------
(* The other timers.                                                       *)

FixFingers(n) ==
  LET t == tab[n]
  IN  /\ op[n].pc = "idle" /\ t.succ # NoAddr
      /\ Go(n, [t EXCEPT !.fingers = [@ EXCEPT ![t.next] = findSuccessor(n, t, fingerStart(n, t.next))],
                         !.next = (t.next + 1) % M], Idle)

CheckPredecessor(n) ==
  /\ op[n].pc = "idle" /\ tab[n].succ # NoAddr /\ tab[n].pred # NoAddr
  /\ Go(n, tab[n], Ask("checkPred", tab[n].pred))

CheckPredAnswer(n) == op[n].pc = "checkPred" /\ Go(n, tab[n], Idle)

\* The predecessor of the moment is cleared.
CheckPredTimeout(n) ==
  op[n].pc = "checkPred" /\ Go(n, [tab[n] EXCEPT !.pred = NoAddr], Idle)

-----------------------------------------------------------------------------
(* handleMessage.  Only notify changes the table.                          *)

\* A lone node takes the sender as its successor at once; the sender is kept
\* as a backup.
Notified(n, t, c) ==
  LET heard == notifyCandidate(n, t, c)
      joined == IF Holds(heard.succ, n) /\ c.id # n THEN setSuccessor(n, heard, c) ELSE heard
  IN  IF c.id # n THEN addBackupSuccessor(n, joined, c) ELSE joined

\* On the main thread, or on a plugin's thread in one go.
HandleNotify(n, c) == Receptive(n) /\ Go(n, Notified(n, tab[n], c), op[n])

\* On a plugin's thread: what the handler reads ...
PluginReads(n, c) ==
  /\ Receptive(n) /\ op[n].pc \notin Joining /\ ~Handling(n)
  /\ plug' = [plug EXCEPT ![n] = [cand |-> c, seen |-> tab[n]]]
  /\ UNCHANGED <<tab, op, raced>>

\* ... and what it may leave in a slot: its value, computed from what it read
\* at first or from what is there by now, or the other thread's.
Left(n, slot) ==
  LET mine == Notified(n, plug[n].seen, plug[n].cand)[slot]
  IN  {tab[n][slot], Notified(n, tab[n], plug[n].cand)[slot]}
      \cup (IF mine = plug[n].seen[slot] THEN {} ELSE {mine})

PluginWrites(n) ==
  /\ Handling(n)
  /\ IF raced[n]
     THEN \E s \in Left(n, "succ"), x \in Left(n, "b1"), y \in Left(n, "b2"), p \in Left(n, "pred") :
            tab' = [tab EXCEPT ![n] = [@ EXCEPT !.succ = s, !.b1 = x, !.b2 = y, !.pred = p]]
     ELSE tab' = [tab EXCEPT ![n] = Notified(n, @, plug[n].cand)]
  /\ plug' = [plug EXCEPT ![n] = NoPlug(n)]
  /\ UNCHANGED <<op, raced>>

-----------------------------------------------------------------------------
AnswerWith(n, a) ==
  \/ BootIdentity(n, a) \/ JoinAnswer(n, a) \/ SelfIdentity(n, a) \/ QuickAnswer(n, a)
  \/ PredAnswer(n, a) \/ FallbackAnswer(n, a) \/ FallbackIdentity(n, a) \/ NextSuccAnswer(n, a)

\* Answers without content.
Acknowledged(n) ==
  \/ GreetDone(n) \/ NotifyAnswer(n) \/ AltAnswer(n) \/ AltPredAnswer(n)
  \/ ReviveAnswer(n) \/ CheckPredAnswer(n)

TimedOut(n) ==
  \/ JoinTimeout(n) \/ SelfIdentityTimeout(n) \/ QuickTimeout(n) \/ GreetDone(n)
  \/ PredTimeout(n) \/ AltTimeout(n) \/ AltPredTimeout(n) \/ FallbackTimeout(n)
  \/ FallbackIdentityTimeout(n) \/ StabilizeAbort(n) \/ ReviveTimeout(n) \/ CheckPredTimeout(n)

\* Steps that need no message.
Internal(n) ==
  \/ JoinDone(n) \/ JoinContact(n) \/ QuickLocal(n) \/ QuickDone(n)
  \/ Stabilize(n) \/ FixFingers(n) \/ CheckPredecessor(n)

NodeStep(n) ==
  \/ Start(n) \/ Stop(n) \/ Internal(n) \/ Acknowledged(n) \/ TimedOut(n)
  \/ PredAnswer(n, NoAddr) \/ PluginWrites(n)
  \/ \E a \in Peers : AnswerWith(n, a) \/ HandleNotify(n, a) \/ PluginReads(n, a)

NodeNext == \E n \in Nodes : NodeStep(n)

NodeSpec == NodeInit /\ [][NodeNext]_nodeVars

-----------------------------------------------------------------------------
(* Properties, until the first overlap of two threads on a node's table.   *)

\* The successor is never null: routing.zig says so of a joined node, and
\* tick runs no maintenance at all without one, so that nothing could ever
\* give the node a successor again.  removeSuccessor makes it null when there
\* is no backup.  The search for an alternative calls it for each silent
\* backup; what has to hold is that through all its waits the successor stays
\* the dead node it started from, whatever the handlers do, so that such a
\* call never takes the successor itself.
SuccessorNeverNull == \A n \in Nodes : ~raced[n] => tab[n].succ # NoAddr

Filled(slot, id) == slot # NoAddr => slot.id # id

\* The backups are two other nodes, different from each other and from the
\* successor, without a hole: promotion and replication take them in order.
\* Handlers of the main thread and of plugins' threads come in between any two
\* steps of an operation; an overlap (setSuccessor against
\* addBackupSuccessor) may leave the new successor among the backups.
BackupsClean ==
  \A n \in Nodes : ~raced[n] =>
    LET t == tab[n] IN
    /\ t.b1 = NoAddr => t.b2 = NoAddr
    /\ t.b1 # NoAddr => t.b1.id # n /\ Filled(t.succ, t.b1.id) /\ Filled(t.b2, t.b1.id)
    /\ t.b2 # NoAddr => t.b2.id # n /\ Filled(t.succ, t.b2.id)

\* No node becomes its own predecessor: the next stabilize of a lone node
\* would then lock its successor to itself (the comment of notifyCandidate).
NotOwnPredecessor == \A n \in Nodes : ~raced[n] => Filled(tab[n].pred, n)

\* While the successor answers, stabilize and revive only move the successor
\* closer to the node, although they decide on a copy of the table taken
\* before the call.
SuccessorOnlyCloser ==
  [][\A n \in Nodes :
       /\ ~raced[n] /\ ~raced'[n] /\ op[n].pc \in {"getPred", "revive"}
       /\ tab'[n].succ # NoAddr /\ tab'[n].succ.id # n
       => distance(n, tab'[n].succ.id) <= distance(n, tab[n].succ.id)]_nodeVars

\* One predecessor gives way to another only if that one is closer; a dead one
\* has to be cleared first.  Two handlers that overlap test and set it each on
\* its own, and the farther one may win.
PredecessorOnlyCloser ==
  [][\A n \in Nodes :
       ~raced[n] /\ ~raced'[n] /\ tab[n].pred # NoAddr /\ tab'[n].pred # NoAddr /\ tab'[n].pred.id # tab[n].pred.id
       => distance(tab'[n].pred.id, n) < distance(tab[n].pred.id, n)]_nodeVars

Known(t) == {a.id : a \in {t.succ, t.b1, t.b2} \ {NoAddr}}

\* When the search for an alternative replaces a dead successor, the dead node
\* is gone from the whole list.  A notify of that node that a plugin's thread
\* handles between removeSuccessor and setSuccessor, an overlap, puts it back.
DeadSuccessorDropped ==
  [][\A n \in Nodes :
       /\ ~raced[n] /\ ~raced'[n] /\ op[n].pc \in {"alt", "altPred"}
       /\ ~Holds(tab'[n].succ, tab[n].succ.id)
       => op[n].base.id \notin Known(tab'[n])]_nodeVars
=============================================================================
