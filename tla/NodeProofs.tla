----------------------------- MODULE NodeProofs -----------------------------
(***************************************************************************)
(* Proofs about the parts of a node's process, which share no variable.    *)
(* First ChordNode, for any ring, finger table, set of nodes, peers and    *)
(* bootstrap lists: whoever answers, whatever is lost and whichever        *)
(* handler runs inside whichever wait or on a plugin's thread, until two   *)
(* threads overlap on a table.  Then LocateKey, for rings of any size on   *)
(* any identifiers: an answer that locateKey believes is the owner of the  *)
(* key, whatever the fingers hold and whichever forwards fail, until an    *)
(* answer of another lookup is taken.                                      *)
(* Then PluginRuntime, for any set of handles and any choice of startup    *)
(* plugins: no worker loses its control block, its bytecode or its work    *)
(* while it uses them, a spawned plugin's memory is released at most once, *)
(* and a recorded outcome is overwritten by nothing but unload and the     *)
(* second half of pause and resume.                                        *)
(***************************************************************************)
EXTENDS ChordNode, LocateKey, PluginRuntime, TLAPS, WellFoundedInduction

\* The part of the invariant that is about a table alone.
Clean(n, t) ==
  /\ t.b1 = NoAddr => t.b2 = NoAddr
  /\ t.b1 # NoAddr => t.b1.id # n /\ Filled(t.succ, t.b1.id) /\ Filled(t.b2, t.b1.id)
  /\ t.b2 # NoAddr => t.b2.id # n /\ Filled(t.succ, t.b2.id)

Good(n, t) == t \in Table /\ t.succ # NoAddr /\ Clean(n, t) /\ Filled(t.pred, n)

\* In these waits the successor is still the one the operation started from,
\* whatever handlers do meanwhile.
Holding == {"getPred", "alt", "altPred", "revive"}

OpOK(n, t, o) ==
  /\ o \in Op
  /\ o.pc \in Asking => o.ask # NoAddr
  /\ o.pc \in {"quick", "quickNext"} => o.base # NoAddr
  /\ o.pc \in Holding => o.base # NoAddr /\ o.base.id # n /\ t.succ.id = o.base.id
  /\ o.pc \in {"alt", "altPred"} => o.ask.id # o.base.id

Inv ==
  /\ TypeOK
  /\ \A n \in Nodes : ~raced[n] => Good(n, tab[n]) /\ OpOK(n, tab[n], op[n])

\* What a step of node n may make of its table, t.
Closer(n, t) ==
  /\ op[n].pc \in {"getPred", "revive"} /\ t.succ # NoAddr /\ t.succ.id # n
  => distance(n, t.succ.id) <= distance(n, tab[n].succ.id)

PredCloser(n, t) ==
  tab[n].pred # NoAddr /\ t.pred # NoAddr /\ t.pred.id # tab[n].pred.id
  => distance(t.pred.id, n) < distance(tab[n].pred.id, n)

Forgets(n, t) ==
  op[n].pc \in {"alt", "altPred"} /\ ~Holds(t.succ, tab[n].succ.id)
  => op[n].base.id \notin Known(t)

Allowed(n, t) == Closer(n, t) /\ PredCloser(n, t) /\ Forgets(n, t)

Kept == Inv' /\ \A n \in Nodes : ~raced[n] /\ ~raced'[n] => Allowed(n, tab'[n])

-----------------------------------------------------------------------------
(* The operators of Routing.                                               *)

Same(t, u) == u.succ = t.succ /\ u.b1 = t.b1 /\ u.b2 = t.b2 /\ u.pred = t.pred

LEMMA SelfLemma ==
  ASSUME NEW n \in Nodes
  PROVE  n \in NodeId /\ SelfAddr(n) \in NodeAddr /\ SelfAddr(n).id = n
BY NodesAssumption DEF SelfAddr, NodeAddr

LEMMA InitLemma ==
  ASSUME NEW n \in Nodes
  PROVE  Good(n, InitTable(n)) /\ InitTable(n).pred = NoAddr /\ InitTable(n).succ.id = n
         /\ Known(InitTable(n)) = {n}
<1>1. InitTable(n) \in Table /\ InitTable(n).succ = SelfAddr(n) /\ InitTable(n).b1 = NoAddr
      /\ InitTable(n).b2 = NoAddr /\ InitTable(n).pred = NoAddr
  BY SelfLemma, RoutingAssumption DEF InitTable, Table, MaybeAddr, FingerIdx
<1> QED
  BY <1>1, SelfLemma, RoutingAssumption DEF Good, Clean, Filled, Known, NodeAddr

\* A finger is set.
LEMMA FingerLemma ==
  ASSUME NEW t \in Table, NEW i \in FingerIdx, NEW a \in MaybeAddr
  PROVE  LET u == [t EXCEPT !.fingers = [@ EXCEPT ![i] = a]] IN u \in Table /\ Same(t, u)
BY DEF Table, Same

LEMMA FixLemma ==
  ASSUME NEW t \in Table, NEW a \in MaybeAddr
  PROVE  LET u == [t EXCEPT !.fingers = [@ EXCEPT ![t.next] = a], !.next = (t.next + 1) % M]
         IN  u \in Table /\ Same(t, u)
<1>1. t.next \in FingerIdx
  BY DEF Table
<1>2. (t.next + 1) % M \in FingerIdx
  BY <1>1, RoutingAssumption DEF FingerIdx
<1> QED
  BY <1>1, <1>2 DEF Table, Same

\* The backup list takes a candidate and stays clean.
LEMMA AddLemma ==
  ASSUME NEW n \in NodeId, NEW t \in Table, Clean(n, t), t.succ # NoAddr, NEW c \in NodeAddr
  PROVE  LET u == addBackupSuccessor(n, t, c)
         IN  u \in Table /\ Clean(n, u) /\ u.succ = t.succ /\ u.pred = t.pred
BY RoutingAssumption DEF addBackupSuccessor, Table, MaybeAddr, NodeAddr, Clean, Filled, Holds

LEMMA RemoveLemma ==
  ASSUME NEW n \in NodeId, NEW t \in Table, Clean(n, t), NEW dead
  PROVE  LET u == removeFromBackups(t, dead)
         IN  /\ u \in Table /\ Clean(n, u) /\ u.succ = t.succ /\ u.pred = t.pred
             /\ ~Holds(u.b1, dead) /\ ~Holds(u.b2, dead)
             /\ \A id : Holds(u.b1, id) \/ Holds(u.b2, id) => Holds(t.b1, id) \/ Holds(t.b2, id)
BY RoutingAssumption DEF removeFromBackups, Table, MaybeAddr, NodeAddr, Clean, Filled, Holds

\* The new successor leaves the backup list; no node enters it.
LEMMA SetLemma ==
  ASSUME NEW n \in NodeId, NEW t \in Table, Clean(n, t), NEW a \in NodeAddr
  PROVE  LET u == setSuccessor(n, t, a)
         IN  /\ u \in Table /\ Clean(n, u) /\ u.succ = a /\ u.pred = t.pred /\ u.succ # NoAddr
             /\ \A id : Holds(u.b1, id) \/ Holds(u.b2, id) => Holds(t.b1, id) \/ Holds(t.b2, id)
<1> DEFINE offered == IF t.succ # NoAddr /\ t.succ.id # n
                      THEN addBackupSuccessor(n, t, t.succ) ELSE t
           r == removeFromBackups(t, a.id)
<1>0. a # NoAddr
  BY RoutingAssumption DEF NodeAddr
<1>1. offered = t
  BY DEF addBackupSuccessor, Holds
<1>2. CASE Holds(t.succ, a.id)
  <2>1. setSuccessor(n, t, a) = [t EXCEPT !.succ = a]
    BY <1>2 DEF setSuccessor
  <2> QED
    BY <1>0, <1>2, <2>1 DEF Table, MaybeAddr, Clean, Filled, Holds
<1>3. CASE ~Holds(t.succ, a.id)
  <2>1. setSuccessor(n, t, a) = [r EXCEPT !.succ = a]
    BY <1>1, <1>3 DEF setSuccessor
  <2>2. /\ r \in Table /\ Clean(n, r) /\ r.succ = t.succ /\ r.pred = t.pred
        /\ ~Holds(r.b1, a.id) /\ ~Holds(r.b2, a.id)
        /\ \A id : Holds(r.b1, id) \/ Holds(r.b2, id) => Holds(t.b1, id) \/ Holds(t.b2, id)
    BY RemoveLemma
  <2> HIDE DEF r
  <2> QED
    BY <1>0, <2>1, <2>2 DEF Table, MaybeAddr, Clean, Filled, Holds
<1> QED
  BY <1>2, <1>3

\* Nothing is left of a dead node.
LEMMA DropLemma ==
  ASSUME NEW n \in NodeId, NEW t \in Table, Clean(n, t), NEW dead
  PROVE  LET u == removeSuccessor(t, dead)
         IN  /\ u \in Table /\ Clean(n, u) /\ u.pred = t.pred
             /\ ~Holds(t.succ, dead) => u.succ = t.succ
             /\ ~Holds(u.succ, dead) /\ ~Holds(u.b1, dead) /\ ~Holds(u.b2, dead)
<1>1. CASE ~Holds(t.succ, dead)
  BY <1>1, RemoveLemma DEF removeSuccessor
<1>2. CASE Holds(t.succ, dead)
  BY <1>2, RoutingAssumption DEF removeSuccessor, Table, MaybeAddr, NodeAddr, Clean, Filled, Holds
<1> QED
  BY <1>1, <1>2

LEMMA FindLemma ==
  ASSUME NEW n \in Nodes, NEW t \in Table, NEW target
  PROVE  findSuccessor(n, t, target) \in MaybeAddr
<1>1. closestPrecedingNode(n, t, target) \in MaybeAddr
  BY DEF closestPrecedingNode, LastPreceding, Table
<1> QED
  BY <1>1, SelfLemma DEF findSuccessor, Table, MaybeAddr

\* A predecessor gives way to a closer one only.
LEMMA CandidateLemma ==
  ASSUME NEW n \in Nodes, NEW t \in Table, Good(n, t), NEW c \in NodeAddr
  PROVE  LET u == notifyCandidate(n, t, c)
         IN  /\ Good(n, u) /\ u.succ = t.succ
             /\ t.pred # NoAddr /\ u.pred.id # t.pred.id
                => distance(u.pred.id, n) < distance(t.pred.id, n)
<1> DEFINE u == notifyCandidate(n, t, c)
<1>1. u = t \/ (u = [t EXCEPT !.pred = c] /\ c.id # n)
  BY DEF notifyCandidate
<1>2. Good(n, u) /\ u.succ = t.succ
  BY <1>1 DEF Good, Table, MaybeAddr, Clean, Filled
<1>3. ASSUME t.pred # NoAddr, u.pred.id # t.pred.id
      PROVE  distance(u.pred.id, n) < distance(t.pred.id, n)
  <2>1. t.pred \in NodeAddr /\ t.pred.id \in NodeId /\ t.pred.id # n
    BY <1>3 DEF Table, MaybeAddr, NodeAddr, Good, Filled
  <2>2. u.pred = c /\ c.id # n /\ between(c.id, t.pred.id, n)
    BY <1>3, <2>1 DEF notifyCandidate, Table
  <2>3. c.id \in NodeId /\ n \in NodeId
    BY SelfLemma DEF NodeAddr
  <2>4. c.id # t.pred.id
    BY <1>3, <2>2
  <2> HIDE DEF u
  <2>5. distance(c.id, n) < distance(t.pred.id, n)
    BY <2>1, <2>2, <2>3, <2>4, RingAssumption DEF between, distance, NodeId
  <2> QED
    BY <2>2, <2>5
<1> QED
  BY <1>2, <1>3

-----------------------------------------------------------------------------
(* Steps.                                                                  *)

LEMMA NodeLemma ==
  ASSUME Inv, NEW n \in Nodes, ~raced[n]
  PROVE  /\ n \in NodeId /\ Good(n, tab[n]) /\ OpOK(n, tab[n], op[n])
         /\ tab[n] \in Table /\ Clean(n, tab[n]) /\ op[n] \in Op
         /\ tab[n].succ \in NodeAddr /\ tab[n].succ # NoAddr /\ tab[n].succ.id \in NodeId
BY SelfLemma DEF Inv, Good, OpOK, Table, MaybeAddr, NodeAddr

\* A step that keeps the successor, or does so where it matters, and keeps or
\* clears the predecessor.
LEMMA CalmLemma ==
  ASSUME Inv, NEW n \in Nodes, ~raced[n], NEW t,
         t.succ = tab[n].succ \/ op[n].pc \notin Holding,
         t.pred = tab[n].pred \/ t.pred = NoAddr
  PROVE  Allowed(n, t)
<1>1. distance(n, tab[n].succ.id) <= distance(n, tab[n].succ.id)
  BY NodeLemma, RingAssumption DEF distance, NodeId
<1>2. Closer(n, t)
  BY <1>1 DEF Closer, Holding
<1>3. PredCloser(n, t)
  BY DEF PredCloser
<1>4. Forgets(n, t)
  BY NodeLemma DEF Forgets, Holds, Holding
<1> QED
  BY <1>2, <1>3, <1>4 DEF Allowed

\* A step that changes the table and the operation of node n alone.
Places(n, t, o) ==
  /\ TypeOK' /\ tab'[n] = t /\ op'[n] = o
  /\ \A m \in Nodes \ {n} : tab'[m] = tab[m] /\ op'[m] = op[m] /\ raced'[m] = raced[m]

LEMMA GoTypes ==
  ASSUME TypeOK, NEW n \in Nodes, NEW t \in Table, NEW o \in Op, Go(n, t, o)
  PROVE  TypeOK' /\ (raced[n] => raced'[n])
BY DEF Go, TypeOK, Handling

LEMMA GoPlaces ==
  ASSUME TypeOK, NEW n \in Nodes, NEW t \in Table, NEW o \in Op, Go(n, t, o)
  PROVE  Places(n, t, o)
BY GoTypes DEF Go, TypeOK, Places

LEMMA PlaceLemma ==
  ASSUME Inv, NEW n \in Nodes, NEW t, NEW o, Places(n, t, o),
         ~raced'[n] => Good(n, t) /\ OpOK(n, t, o),
         ~raced[n] /\ ~raced'[n] => Allowed(n, t)
  PROVE  Kept
<1>1. \A m \in Nodes : ~raced'[m] => Good(m, tab'[m]) /\ OpOK(m, tab'[m], op'[m])
  BY DEF Inv, Places
<1>2. \A m \in Nodes : ~raced[m] /\ ~raced'[m] => Allowed(m, tab'[m])
  BY CalmLemma DEF Places
<1> QED
  BY <1>1, <1>2 DEF Inv, Kept, Places

LEMMA GoLemma ==
  ASSUME Inv, NEW n \in Nodes, ~raced[n], NEW t, NEW o, Go(n, t, o),
         Good(n, t), OpOK(n, t, o), Allowed(n, t)
  PROVE  Kept
<1>1. t \in Table /\ o \in Op /\ TypeOK
  BY DEF Good, OpOK, Inv
<1>2. Places(n, t, o)
  BY <1>1, GoPlaces
<1> QED
  BY <1>2, PlaceLemma

\* The table stays as it is.
LEMMA StayLemma ==
  ASSUME Inv, NEW n \in Nodes, ~raced[n], NEW o, Go(n, tab[n], o), OpOK(n, tab[n], o)
  PROVE  Kept
BY CalmLemma, GoLemma, NodeLemma

LEMMA OpLemma ==
  ASSUME NEW pc \in Pc
  PROVE  NewOp(pc) \in Op /\ NewOp(pc).pc = pc /\ NewOp(pc).base = NoAddr
BY DEF NewOp, Op, MaybeAddr

LEMMA AskLemma ==
  ASSUME NEW pc \in Pc, NEW a \in MaybeAddr
  PROVE  Ask(pc, a) \in Op /\ Ask(pc, a).pc = pc /\ Ask(pc, a).ask = a
BY OpLemma DEF Ask, Op

\* States of the main thread that ask for nothing.
LEMMA RestLemma ==
  ASSUME NEW n, NEW t, NEW o \in Op, o.pc \in {"off", "boot", "idle"}
  PROVE  OpOK(n, t, o)
BY DEF OpOK, Asking, Holding

\* Waits that do not hold on to a successor.
LEMMA AskingLemma ==
  ASSUME NEW n, NEW t, NEW o \in Op, o.pc \in Asking \ (Holding \cup {"quick"}), o.ask # NoAddr
  PROVE  OpOK(n, t, o)
BY DEF OpOK, Asking, Holding

LEMMA IdleLemma ==
  ASSUME NEW n, NEW t
  PROVE  OpOK(n, t, Idle)
BY OpLemma, RestLemma DEF Idle, Pc

LEMMA NotifyOrEndLemma ==
  ASSUME Inv, NEW n \in Nodes, ~raced[n], NEW t, Good(n, t), Allowed(n, t), NotifyOrEnd(n, t)
  PROVE  Kept
<1>1. t.succ \in MaybeAddr /\ t.succ # NoAddr
  BY DEF Good, Table
<1>2. OpOK(n, t, Ask("notify", t.succ))
  BY <1>1, AskLemma, AskingLemma DEF Pc, Asking, Holding
<1>3. Go(n, t, Idle) \/ Go(n, t, Ask("notify", t.succ))
  BY DEF NotifyOrEnd
<1> QED
  BY <1>2, <1>3, IdleLemma, GoLemma

LEMMA BootLemma ==
  ASSUME NEW n \in Nodes, NEW i \in 1 .. Len(Boots[n])
  PROVE  Boots[n][i] \in NodeAddr /\ Boots[n][i] # NoAddr
<1>1. Boots[n] \in Seq(NodeAddr)
  BY NodesAssumption
<1>2. Boots[n][i] \in NodeAddr
  BY <1>1
<1> QED
  BY <1>2, RoutingAssumption DEF NodeAddr

LEMMA FallbackLemma ==
  ASSUME Inv, NEW n \in Nodes, ~raced[n], NEW t, Good(n, t), Allowed(n, t), NEW lone \in BOOLEAN,
         Fallback(n, t, lone)
  PROVE  Kept
<1>1. CASE Boots[n] # <<>>
  <2> DEFINE o == [Ask("fbAsk", Boots[n][1]) EXCEPT !.idx = 1, !.flag = lone]
  <2>1. Boots[n][1] \in NodeAddr /\ Boots[n][1] # NoAddr
    BY <1>1, BootLemma, NodesAssumption
  <2>2. Ask("fbAsk", Boots[n][1]) \in Op /\ Ask("fbAsk", Boots[n][1]).pc = "fbAsk"
        /\ Ask("fbAsk", Boots[n][1]).ask = Boots[n][1]
    BY <2>1, AskLemma DEF Pc, Asking, MaybeAddr
  <2>3. o \in Op /\ o.pc = "fbAsk" /\ o.ask = Boots[n][1]
    BY <2>2 DEF Op
  <2>4. OpOK(n, t, o)
    BY <2>1, <2>3, AskingLemma DEF Asking, Holding
  <2>5. Go(n, t, o)
    BY <1>1 DEF Fallback
  <2> QED
    BY <2>4, <2>5, GoLemma
<1>2. CASE Boots[n] = <<>>
  BY <1>2, IdleLemma, GoLemma, NotifyOrEndLemma DEF Fallback
<1> QED
  BY <1>1, <1>2

LEMMA FallbackEndLemma ==
  ASSUME Inv, NEW n \in Nodes, ~raced[n], NEW t, Good(n, t), Allowed(n, t), NEW lone \in BOOLEAN,
         FallbackEnd(n, t, lone)
  PROVE  Kept
BY IdleLemma, GoLemma, NotifyOrEndLemma DEF FallbackEnd

-----------------------------------------------------------------------------
(* The search for an alternative, and reviveBackups.                       *)

LEMMA SlotLemma ==
  ASSUME NEW t \in Table, NEW o \in Op, NEW i \in Nat, i > 0, NEW k \in i .. M + 2
  PROVE  Candidate(t, o, k) \in MaybeAddr /\ k \in Nat
<1>1. k \in Nat /\ (k = 1 \/ k = 2 \/ k - 3 \in FingerIdx)
  BY RoutingAssumption DEF FingerIdx
<1> QED
  BY <1>1 DEF Candidate, Op, Table

\* The successor the search ends with.
LEMMA AltFoundLemma ==
  ASSUME Inv, NEW n \in Nodes, ~raced[n], NEW t, Good(n, t), NEW c \in NodeAddr,
         Allowed(n, setSuccessor(n, t, c)), AltFound(n, t, c)
  PROVE  Kept
<1>1. Good(n, setSuccessor(n, t, c))
  BY SetLemma, SelfLemma DEF Good
<1> QED
  BY <1>1, IdleLemma, GoLemma DEF AltFound

\* Setting a successor takes the old one out of the table.
LEMMA ForgetLemma ==
  ASSUME NEW n \in NodeId, NEW t, t \in Table, Clean(n, t), NEW a \in NodeAddr, NEW dead \in NodeId,
         Holds(t.succ, dead) \/ (~Holds(t.b1, dead) /\ ~Holds(t.b2, dead)), a.id # dead
  PROVE  dead \notin Known(setSuccessor(n, t, a))
<1> DEFINE u == setSuccessor(n, t, a)
<1>1. /\ u.succ = a
      /\ \A id : Holds(u.b1, id) \/ Holds(u.b2, id) => Holds(t.b1, id) \/ Holds(t.b2, id)
  BY SetLemma
<1>2. ~Holds(t.b1, dead) /\ ~Holds(t.b2, dead)
  BY DEF Clean, Filled, Holds
<1> HIDE DEF u
<1>3. ~Holds(u.succ, dead) /\ ~Holds(u.b1, dead) /\ ~Holds(u.b2, dead)
  BY <1>1, <1>2 DEF Holds
<1>4. dead \notin Known(u)
  BY <1>3 DEF Known, Holds
<1> QED
  BY <1>4 DEF u

LEMMA AltFromLemma ==
  ASSUME Inv, NEW n \in Nodes, ~raced[n], op[n].pc \in {"getPred", "alt"},
         NEW t, Good(n, t), t.succ = tab[n].succ, t.pred = tab[n].pred,
         NEW o \in Op, o.base = op[n].base, NEW i \in Nat, i > 0,
         AltFrom(n, t, o, i)
  PROVE  Kept
<1> DEFINE S == AltCandidates(n, t, o, i)
           k == CHOOSE j \in S : IsFirst(S, j)
           c == Candidate(t, o, k)
<1>0. Allowed(n, t) /\ t \in Table /\ Clean(n, t)
  BY CalmLemma DEF Good
<1>1. o.base # NoAddr /\ o.base.id # n /\ t.succ.id = o.base.id /\ o.base.id = op[n].base.id
      /\ t.succ # NoAddr /\ o.base.id \in NodeId
  BY NodeLemma DEF OpOK, Holding
<1>2. CASE \E j \in S : IsFirst(S, j)
  <2>1. k \in S
    BY <1>2
  <2>2. k \in i .. M + 2 /\ c # NoAddr /\ c.id # o.base.id
    BY <2>1 DEF AltCandidates
  <2>3. c \in NodeAddr /\ k \in Nat
    BY <1>0, <2>2, SlotLemma DEF MaybeAddr
  <2> HIDE DEF c, k, S
  <2>4. CASE c.id = n
    <3> DEFINE u == setSuccessor(n, t, c)
    <3>1. u.succ = c /\ u.pred = t.pred
      BY <1>0, <2>3, SetLemma, SelfLemma
    <3>2. o.base.id \notin Known(u)
      BY <1>0, <1>1, <2>2, <2>3, ForgetLemma, SelfLemma DEF Holds
    <3> HIDE DEF u
    <3>3. Allowed(n, u)
      BY <1>1, <2>4, <3>1, <3>2 DEF Allowed, Closer, PredCloser, Forgets
    <3>4. AltFound(n, t, c)
      BY <1>2, <2>4 DEF AltFrom, c, k, S
    <3> QED
      BY <2>3, <3>3, <3>4, AltFoundLemma DEF u
  <2>5. CASE c.id # n
    <3> DEFINE r == [o EXCEPT !.pc = "alt", !.ask = c, !.idx = k]
    <3>1. r \in Op /\ r.pc = "alt" /\ r.ask = c /\ r.base = o.base
      BY <2>3 DEF Op, Pc, Asking, MaybeAddr
    <3>2. Go(n, t, r)
      BY <1>2, <2>5 DEF AltFrom, c, k, S
    <3> HIDE DEF r
    <3>3. OpOK(n, t, r)
      BY <1>1, <2>2, <3>1 DEF OpOK, Holding, Asking
    <3> QED
      BY <1>0, <3>2, <3>3, GoLemma
  <2> QED
    BY <2>4, <2>5
<1>3. CASE ~(\E j \in S : IsFirst(S, j)) /\ t.pred # NoAddr /\ t.pred.id # o.base.id
  <2> DEFINE r == [o EXCEPT !.pc = "altPred", !.ask = t.pred]
  <2>1. t.pred \in MaybeAddr
    BY <1>0 DEF Table
  <2>2. r \in Op /\ r.pc = "altPred" /\ r.ask = t.pred /\ r.base = o.base
    BY <2>1 DEF Op, Pc, Asking
  <2>3. Go(n, t, r)
    BY <1>3 DEF AltFrom
  <2> HIDE DEF r
  <2>4. OpOK(n, t, r)
    BY <1>1, <1>3, <2>2 DEF OpOK, Holding, Asking
  <2> QED
    BY <1>0, <2>3, <2>4, GoLemma
<1>4. CASE ~(\E j \in S : IsFirst(S, j)) /\ ~(t.pred # NoAddr /\ t.pred.id # o.base.id)
  <2>1. Fallback(n, t, FALSE)
    BY <1>4 DEF AltFrom
  <2> QED
    BY <1>0, <2>1, FallbackLemma
<1> QED
  BY <1>2, <1>3, <1>4

LEMMA ReviveFromLemma ==
  ASSUME Inv, NEW n \in Nodes, ~raced[n], NEW t, Good(n, t), Allowed(n, t),
         NEW o \in Op, o.base # NoAddr, o.base.id # n, t.succ.id = o.base.id,
         NEW i \in Nat, i > 0, ReviveFrom(n, t, o, i)
  PROVE  Kept
<1> DEFINE S == ReviveCandidates(n, t, o, i)
           k == CHOOSE j \in S : IsFirst(S, j)
           c == Candidate(t, o, k)
           r == [o EXCEPT !.pc = "revive", !.ask = c, !.idx = k]
<1>1. CASE \E j \in S : IsFirst(S, j)
  <2>1. k \in S
    BY <1>1
  <2>2. k \in i .. M + 2 /\ c # NoAddr
    BY <2>1 DEF ReviveCandidates
  <2>3. c \in MaybeAddr /\ k \in Nat
    BY <2>2, SlotLemma DEF Good
  <2>4. Go(n, t, r)
    BY <1>1 DEF ReviveFrom
  <2> HIDE DEF c, k, S
  <2>5. r \in Op /\ r.pc = "revive" /\ r.ask = c /\ r.base = o.base
    BY <2>3 DEF Op, Pc, Asking
  <2> HIDE DEF r
  <2>6. OpOK(n, t, r)
    BY <2>2, <2>5 DEF OpOK, Holding, Asking
  <2> QED
    BY <2>4, <2>6, GoLemma
<1>2. CASE ~(\E j \in S : IsFirst(S, j))
  <2>1. Go(n, t, Idle)
    BY <1>2 DEF ReviveFrom
  <2> QED
    BY <2>1, IdleLemma, GoLemma
<1> QED
  BY <1>1, <1>2

-----------------------------------------------------------------------------
(* Join.                                                                   *)

\* Messages carry addresses.
LEMMA PeerLemma ==
  ASSUME NEW a \in Peers
  PROVE  a \in NodeAddr /\ a \in MaybeAddr /\ a # NoAddr /\ a.id \in NodeId
BY NodesAssumption, RoutingAssumption DEF NodeAddr, MaybeAddr

LEMMA JoinNextLemma ==
  ASSUME Inv, NEW n \in Nodes, ~raced[n], NEW t, Good(n, t), Allowed(n, t),
         NEW i \in Nat, NEW joined \in BOOLEAN, JoinNext(n, t, i, joined)
  PROVE  Kept
<1> DEFINE o == [NewOp("boot") EXCEPT !.idx = i, !.flag = joined]
<1>0. NewOp("boot") \in Op /\ NewOp("boot").pc = "boot"
  BY OpLemma DEF Pc
<1>1. o \in Op /\ o.pc = "boot"
  BY <1>0 DEF Op
<1>2. Go(n, t, o)
  BY DEF JoinNext
<1> HIDE DEF o
<1> QED
  BY <1>1, <1>2, RestLemma, GoLemma

LEMMA GreetOrNextLemma ==
  ASSUME Inv, NEW n \in Nodes, ~raced[n], NEW a \in NodeAddr, NEW i \in Nat,
         GreetOrNext(n, tab[n], a, i)
  PROVE  Kept
<1> DEFINE o == [Ask("greet", a) EXCEPT !.idx = i, !.flag = TRUE]
<1>1. Good(n, tab[n]) /\ Allowed(n, tab[n]) /\ a # NoAddr /\ a \in MaybeAddr
  BY NodeLemma, CalmLemma, RoutingAssumption DEF NodeAddr, MaybeAddr
<1>0. Ask("greet", a) \in Op /\ Ask("greet", a).pc = "greet" /\ Ask("greet", a).ask = a
  BY <1>1, AskLemma DEF Pc, Asking
<1>2. o \in Op /\ o.pc = "greet" /\ o.ask = a
  BY <1>0 DEF Op
<1>3. OpOK(n, tab[n], o)
  BY <1>1, <1>2, AskingLemma DEF Asking, Holding
<1>4. Go(n, tab[n], o) \/ JoinNext(n, tab[n], i + 1, TRUE)
  BY DEF GreetOrNext
<1> HIDE DEF o
<1>5. i + 1 \in Nat /\ TRUE \in BOOLEAN
  OBVIOUS
<1> QED
  BY <1>1, <1>3, <1>4, <1>5, GoLemma, JoinNextLemma

LEMMA AdoptLemma ==
  ASSUME Inv, NEW n \in Nodes, ~raced[n], NEW a \in NodeAddr, op[n].pc \in {"joinAsk", "selfId"}, Adopt(n, a)
  PROVE  Kept
<1> DEFINE u == setSuccessor(n, tab[n], a)
           t == [u EXCEPT !.fingers = [@ EXCEPT ![0] = a]]
           o == [op[n] EXCEPT !.pc = "quickNext", !.ask = NoAddr, !.base = a, !.fin = 1]
<1>1. u \in Table /\ Clean(n, u) /\ u.succ = a /\ u.pred = tab[n].pred /\ u.succ # NoAddr
  BY NodeLemma, SetLemma
<1> HIDE DEF u
<1>2. t \in Table /\ Same(u, t)
  BY <1>1, FingerLemma, RoutingAssumption DEF FingerIdx, MaybeAddr
<1>3. Go(n, t, o)
  BY DEF Adopt, u
<1>4. o \in Op /\ o.pc = "quickNext" /\ o.base = a
  BY NodeLemma DEF Op, Pc, MaybeAddr
<1> HIDE DEF t, o
<1>5. Good(n, t) /\ OpOK(n, t, o)
  BY <1>1, <1>2, <1>4, NodeLemma DEF Good, OpOK, Clean, Same, Asking, Holding
<1>6. Allowed(n, t)
  BY <1>1, <1>2, CalmLemma DEF Holding, Same
<1> QED
  BY <1>3, <1>5, <1>6, GoLemma

\* quickFillFingers leaves everything but a finger alone.
LEMMA QuickFillLemma ==
  ASSUME Inv, NEW n \in Nodes, ~raced[n], op[n].pc \in {"quick", "quickNext"},
         NEW t \in Table, Same(tab[n], t), QuickFill(n, t)
  PROVE  Kept
<1> DEFINE o == [op[n] EXCEPT !.pc = "quickNext", !.fin = @ + 1]
<1>0. op[n] \in Op /\ op[n].fin + 1 \in Nat /\ "quickNext" \in Pc
  BY NodeLemma DEF Op, Pc
<1>1. o \in Op /\ o.pc = "quickNext" /\ o.base = op[n].base
  BY <1>0 DEF Op
<1>2. Go(n, t, o)
  BY DEF QuickFill
<1> HIDE DEF o
<1>3. Good(n, t) /\ OpOK(n, t, o)
  BY <1>1, NodeLemma DEF Good, OpOK, Clean, Same, Asking, Holding
<1>4. Allowed(n, t)
  BY CalmLemma DEF Same
<1> QED
  BY <1>2, <1>3, <1>4, GoLemma

\* The end of the process: the next one starts with a new table.
LEMMA StopStep ==
  ASSUME Inv, NEW n \in Nodes, Stop(n)
  PROVE  Kept
<1>1. Good(n, InitTable(n)) /\ InitTable(n).pred = NoAddr /\ InitTable(n).succ.id = n
      /\ Known(InitTable(n)) = {n}
  BY InitLemma
<1>2. OpOK(n, InitTable(n), NewOp("off"))
  BY OpLemma, RestLemma DEF Pc
<1>3. NoPlug(n) \in Plug /\ InitTable(n) \in Table /\ NewOp("off") \in Op /\ TypeOK
  BY <1>1, <1>2 DEF NoPlug, Plug, MaybeAddr, Good, OpOK, Inv
<1>4. Places(n, InitTable(n), NewOp("off"))
  BY <1>3 DEF Stop, Places, TypeOK
<1>5. ~raced[n] => Allowed(n, InitTable(n))
  BY <1>1, NodeLemma DEF Allowed, Closer, PredCloser, Forgets, OpOK, Holding
<1> QED
  BY <1>1, <1>2, <1>4, <1>5, PlaceLemma

LEMMA JoinStep ==
  ASSUME Inv, NEW n \in Nodes, ~raced[n],
         Start(n) \/ JoinDone(n) \/ JoinContact(n) \/ JoinTimeout(n) \/ GreetDone(n)
  PROVE  Kept
<1>0. Good(n, tab[n]) /\ Allowed(n, tab[n]) /\ op[n] \in Op /\ OpOK(n, tab[n], op[n])
  BY NodeLemma, CalmLemma
<1>1. CASE Start(n)
  <2>1. Good(n, InitTable(n)) /\ Allowed(n, InitTable(n))
    BY <1>1, InitLemma, CalmLemma DEF Start, Holding
  <2> QED
    BY <1>1, <2>1, JoinNextLemma DEF Start
<1>2. CASE JoinDone(n)
  BY <1>2, IdleLemma, StayLemma DEF JoinDone
<1>3. CASE JoinContact(n)
  <2> DEFINE boot == Boots[n][op[n].idx]
             o(pc) == [op[n] EXCEPT !.pc = pc, !.ask = boot]
  <2>1. boot \in NodeAddr /\ boot # NoAddr
    BY <1>3, BootLemma DEF JoinContact
  <2>2. Go(n, tab[n], o("bootId")) \/ Go(n, tab[n], o("joinAsk"))
    BY <1>3 DEF JoinContact
  <2> HIDE DEF boot
  <2>3. \A pc \in {"bootId", "joinAsk"} : o(pc) \in Op /\ o(pc).pc = pc /\ o(pc).ask = boot
    BY <1>0, <2>1 DEF Op, Pc, Asking, MaybeAddr
  <2> HIDE DEF o
  <2>4. \A pc \in {"bootId", "joinAsk"} : OpOK(n, tab[n], o(pc))
    BY <2>1, <2>3, AskingLemma DEF Asking, Holding
  <2> QED
    BY <2>2, <2>4, StayLemma
<1>4. CASE JoinTimeout(n)
  <2>1. op[n].idx + 1 \in Nat /\ op[n].flag \in BOOLEAN
    BY <1>0 DEF Op
  <2> QED
    BY <1>0, <1>4, <2>1, JoinNextLemma DEF JoinTimeout
<1>5. CASE GreetDone(n)
  <2>1. op[n].idx + 1 \in Nat
    BY <1>0 DEF Op
  <2> QED
    BY <1>0, <1>5, <2>1, JoinNextLemma DEF GreetDone
<1> QED
  BY <1>1, <1>2, <1>3, <1>4, <1>5

LEMMA JoinAnswerStep ==
  ASSUME Inv, NEW n \in Nodes, ~raced[n], NEW a \in Peers,
         BootIdentity(n, a) \/ JoinAnswer(n, a) \/ SelfIdentity(n, a)
  PROVE  Kept
<1>0. a \in NodeAddr /\ a # NoAddr /\ a \in MaybeAddr /\ op[n] \in Op /\ OpOK(n, tab[n], op[n])
  BY PeerLemma, NodeLemma
<1>1. CASE BootIdentity(n, a)
  <2> DEFINE o == [op[n] EXCEPT !.pc = "joinAsk", !.ask = a]
  <2>1. o \in Op /\ o.pc = "joinAsk" /\ o.ask = a
    BY <1>0 DEF Op, Pc, Asking
  <2>2. Go(n, tab[n], o)
    BY <1>1 DEF BootIdentity
  <2> HIDE DEF o
  <2>3. OpOK(n, tab[n], o)
    BY <1>0, <2>1, AskingLemma DEF Asking, Holding
  <2> QED
    BY <2>2, <2>3, StayLemma
<1>2. CASE JoinAnswer(n, a)
  <2> DEFINE o == [op[n] EXCEPT !.pc = "selfId"]
  <2>1. o \in Op /\ o.pc = "selfId" /\ o.ask = op[n].ask /\ op[n].ask # NoAddr
    BY <1>0, <1>2 DEF Op, Pc, Asking, OpOK, JoinAnswer
  <2>2. op[n].idx \in Nat
    BY <1>0 DEF Op
  <2>3. GreetOrNext(n, tab[n], a, op[n].idx) \/ Go(n, tab[n], o) \/ Adopt(n, a)
    BY <1>2 DEF JoinAnswer
  <2> HIDE DEF o
  <2>4. OpOK(n, tab[n], o)
    BY <2>1, AskingLemma DEF Asking, Holding
  <2> QED
    BY <1>0, <1>2, <2>2, <2>3, <2>4, StayLemma, AdoptLemma, GreetOrNextLemma DEF JoinAnswer
<1>3. CASE SelfIdentity(n, a)
  BY <1>0, <1>3, AdoptLemma DEF SelfIdentity
<1> QED
  BY <1>1, <1>2, <1>3

LEMMA QuickStep ==
  ASSUME Inv, NEW n \in Nodes, ~raced[n],
         \/ SelfIdentityTimeout(n) \/ QuickLocal(n) \/ QuickTimeout(n) \/ QuickDone(n)
         \/ \E a \in Peers : QuickAnswer(n, a)
  PROVE  Kept
<1>0. /\ op[n] \in Op /\ OpOK(n, tab[n], op[n]) /\ tab[n] \in Table /\ Same(tab[n], tab[n])
      /\ op[n].ask \in MaybeAddr /\ op[n].base \in MaybeAddr /\ op[n].fin \in Nat /\ op[n].idx \in Nat
  BY NodeLemma DEF Op, Same
<1>1. CASE SelfIdentityTimeout(n)
  <2>1. op[n].ask \in NodeAddr
    BY <1>0, <1>1 DEF SelfIdentityTimeout, OpOK, Asking, MaybeAddr
  <2> QED
    BY <1>1, <2>1, AdoptLemma DEF SelfIdentityTimeout
<1>2. CASE QuickLocal(n)
  <2> DEFINE t == [tab[n] EXCEPT !.fingers = [@ EXCEPT ![op[n].fin] = op[n].base]]
             o == [op[n] EXCEPT !.pc = "quick", !.ask = op[n].base]
  <2>1. op[n].fin \in FingerIdx /\ op[n].base # NoAddr /\ op[n].pc = "quickNext"
    BY <1>0, <1>2, RoutingAssumption DEF QuickLocal, FingerIdx, OpOK
  <2>2. t \in Table /\ Same(tab[n], t)
    BY <1>0, <2>1, FingerLemma
  <2>3. o \in Op /\ o.pc = "quick" /\ o.ask = op[n].base /\ o.base = op[n].base
    BY <1>0 DEF Op, Pc, Asking
  <2>4. QuickFill(n, t) \/ Go(n, tab[n], o)
    BY <1>2 DEF QuickLocal
  <2> HIDE DEF t, o
  <2>5. OpOK(n, tab[n], o)
    BY <2>1, <2>3 DEF OpOK, Asking, Holding
  <2> QED
    BY <2>1, <2>2, <2>4, <2>5, QuickFillLemma, StayLemma
<1>3. CASE QuickTimeout(n)
  BY <1>0, <1>3, QuickFillLemma DEF QuickTimeout
<1>4. CASE QuickDone(n)
  <2>1. op[n].base \in NodeAddr
    BY <1>0, <1>4 DEF QuickDone, OpOK, MaybeAddr
  <2> QED
    BY <1>0, <1>4, <2>1, GreetOrNextLemma DEF QuickDone
<1>5. ASSUME NEW a \in Peers, QuickAnswer(n, a)
      PROVE  Kept
  <2> DEFINE t == [tab[n] EXCEPT !.fingers = [@ EXCEPT ![op[n].fin] = a]]
  <2>1. CASE op[n].fin \in FingerIdx
    <3>1. t \in Table /\ Same(tab[n], t)
      BY <1>0, <2>1, FingerLemma, PeerLemma
    <3>2. QuickFill(n, t) /\ op[n].pc = "quick"
      BY <1>5 DEF QuickAnswer
    <3> HIDE DEF t
    <3> QED
      BY <3>1, <3>2, QuickFillLemma
  <2>2. CASE op[n].fin \notin FingerIdx
    <3>1. tab[n].fingers \in [FingerIdx -> MaybeAddr]
      BY <1>0 DEF Table
    <3>2. [tab[n].fingers EXCEPT ![op[n].fin] = a] = tab[n].fingers
      BY <2>2, <3>1
    <3>3. t = [tab[n] EXCEPT !.fingers = tab[n].fingers]
      BY <3>2
    <3>4. t \in Table /\ Same(tab[n], t)
      BY <1>0, <3>3 DEF Table, Same
    <3>5. QuickFill(n, t) /\ op[n].pc = "quick"
      BY <1>5 DEF QuickAnswer
    <3> HIDE DEF t
    <3> QED
      BY <3>4, <3>5, QuickFillLemma
  <2> QED
    BY <2>1, <2>2
<1> QED
  BY <1>1, <1>2, <1>3, <1>4, <1>5

-----------------------------------------------------------------------------
(* Stabilize.                                                              *)

LEMMA DistanceLemma ==
  ASSUME NEW n \in NodeId, NEW x \in NodeId, NEW s \in NodeId, between(x, n, s), n # s
  PROVE  distance(n, x) <= distance(n, s)
BY RingAssumption DEF between, distance, NodeId

\* A successor that lies between the node and the one there is.
LEMMA CloserLemma ==
  ASSUME Inv, NEW n \in Nodes, ~raced[n], op[n].pc \in {"getPred", "revive"}, NEW a \in NodeAddr,
         between(a.id, n, op[n].base.id)
  PROVE  /\ Good(n, setSuccessor(n, tab[n], a)) /\ Allowed(n, setSuccessor(n, tab[n], a))
<1> DEFINE u == setSuccessor(n, tab[n], a)
<1>1. /\ u \in Table /\ Clean(n, u) /\ u.succ = a /\ u.pred = tab[n].pred /\ u.succ # NoAddr
      /\ Good(n, tab[n]) /\ n \in NodeId
  BY NodeLemma, SetLemma
<1>2. tab[n].succ.id = op[n].base.id /\ op[n].base.id # n /\ tab[n].succ.id \in NodeId
  BY NodeLemma DEF OpOK, Holding
<1>3. a.id \in NodeId
  BY DEF NodeAddr
<1> HIDE DEF u
<1>4. Good(n, u)
  BY <1>1 DEF Good
<1>5. distance(n, a.id) <= distance(n, tab[n].succ.id)
  BY <1>1, <1>2, <1>3, DistanceLemma
<1>6. Allowed(n, u)
  BY <1>1, <1>5 DEF Allowed, Closer, PredCloser, Forgets
<1> QED
  BY <1>4, <1>6 DEF u

\* A new successor, where the operation holds on to none.
LEMMA AnySuccessorLemma ==
  ASSUME Inv, NEW n \in Nodes, ~raced[n], op[n].pc \notin Holding, NEW t \in Table, Clean(n, t),
         t.pred = tab[n].pred, NEW a \in NodeAddr
  PROVE  /\ Good(n, setSuccessor(n, t, a)) /\ Allowed(n, setSuccessor(n, t, a))
<1> DEFINE u == setSuccessor(n, t, a)
<1>1. /\ u \in Table /\ Clean(n, u) /\ u.pred = tab[n].pred /\ u.succ # NoAddr
      /\ Good(n, tab[n])
  BY NodeLemma, SetLemma
<1> HIDE DEF u
<1>2. Good(n, u) /\ Allowed(n, u)
  BY <1>1, CalmLemma DEF Good
<1> QED
  BY <1>2 DEF u

LEMMA AfterPredLemma ==
  ASSUME Inv, NEW n \in Nodes, ~raced[n], NEW base, NEW a \in MaybeAddr,
         \/ op[n].pc = "idle" /\ base.id = n
         \/ op[n].pc = "getPred" /\ base = op[n].base,
         AfterPred(n, base, a)
  PROVE  Kept
<1> DEFINE c == [a EXCEPT !.tcp = FALSE]
           t == AdoptPred(n, tab[n], base, a)
<1>1. t = tab[n] \/ (/\ t = setSuccessor(n, tab[n], c) /\ a # NoAddr
                     /\ base.id = n \/ between(a.id, n, base.id))
  BY DEF AdoptPred
<1>2. a # NoAddr => c \in NodeAddr /\ c.id = a.id
  BY DEF NodeAddr, MaybeAddr
<1>3. op[n].pc = "getPred" => base.id # n
  BY NodeLemma DEF OpOK, Holding
<1>4. Fallback(n, t, TRUE) \/ NotifyOrEnd(n, t)
  BY DEF AfterPred
<1> HIDE DEF c
<1>5. Good(n, t) /\ Allowed(n, t)
  <2>1. CASE t = tab[n]
    BY <2>1, NodeLemma, CalmLemma
  <2>2. CASE t # tab[n] /\ op[n].pc = "idle"
    BY <1>1, <1>2, <2>2, NodeLemma, AnySuccessorLemma DEF Holding
  <2>3. CASE t # tab[n] /\ op[n].pc = "getPred"
    BY <1>1, <1>2, <1>3, <2>3, CloserLemma
  <2> QED
    BY <2>1, <2>2, <2>3
<1> HIDE DEF t
<1> QED
  BY <1>4, <1>5, FallbackLemma, NotifyOrEndLemma

LEMMA StabilizeStep ==
  ASSUME Inv, NEW n \in Nodes, ~raced[n],
         \/ Stabilize(n) \/ NotifyAnswer(n) \/ StabilizeAbort(n)
         \/ \E a \in Peers \cup {NoAddr} : PredAnswer(n, a)
  PROVE  Kept
<1>0. /\ op[n] \in Op /\ OpOK(n, tab[n], op[n]) /\ tab[n] \in Table /\ tab[n].pred \in MaybeAddr
      /\ tab[n].succ \in MaybeAddr /\ tab[n].succ # NoAddr /\ op[n].ask \in MaybeAddr
  BY NodeLemma DEF Op, Table
<1>1. CASE Stabilize(n)
  <2> DEFINE r == Ask("getPred", tab[n].succ)
             o == [r EXCEPT !.base = tab[n].succ]
  <2>1. r \in Op /\ r.pc = "getPred" /\ r.ask = tab[n].succ
    BY <1>0, AskLemma DEF Pc, Asking
  <2> HIDE DEF r
  <2>2. o \in Op /\ o.pc = "getPred" /\ o.ask = tab[n].succ /\ o.base = tab[n].succ
    BY <1>0, <2>1 DEF Op
  <2>3. \/ tab[n].succ.id = n /\ AfterPred(n, tab[n].succ, tab[n].pred)
        \/ tab[n].succ.id # n /\ Go(n, tab[n], o)
    BY <1>1 DEF Stabilize, r
  <2> HIDE DEF o
  <2>4. tab[n].succ.id # n => OpOK(n, tab[n], o)
    BY <1>0, <2>2 DEF OpOK, Holding
  <2> QED
    BY <1>0, <1>1, <2>3, <2>4, StayLemma, AfterPredLemma DEF Stabilize
<1>2. CASE NotifyAnswer(n)
  <2>1. op[n].ask # NoAddr /\ Go(n, tab[n], Ask("nextSucc", op[n].ask))
    BY <1>0, <1>2 DEF NotifyAnswer, OpOK, Asking
  <2>2. OpOK(n, tab[n], Ask("nextSucc", op[n].ask))
    BY <1>0, <2>1, AskLemma, AskingLemma DEF Pc, Asking, Holding
  <2> QED
    BY <2>1, <2>2, StayLemma
<1>3. CASE StabilizeAbort(n)
  BY <1>3, IdleLemma, StayLemma DEF StabilizeAbort
<1>4. ASSUME NEW a \in Peers \cup {NoAddr}, PredAnswer(n, a)
      PROVE  Kept
  <2>1. a \in MaybeAddr
    BY PeerLemma DEF MaybeAddr
  <2> QED
    BY <1>4, <2>1, AfterPredLemma DEF PredAnswer
<1> QED
  BY <1>1, <1>2, <1>3, <1>4

LEMMA FallbackStep ==
  ASSUME Inv, NEW n \in Nodes, ~raced[n],
         \/ FallbackTimeout(n) \/ FallbackIdentityTimeout(n)
         \/ \E a \in Peers : FallbackAnswer(n, a) \/ FallbackIdentity(n, a)
  PROVE  Kept
<1>0. /\ op[n] \in Op /\ OpOK(n, tab[n], op[n]) /\ tab[n] \in Table /\ op[n].flag \in BOOLEAN
      /\ Good(n, tab[n]) /\ Clean(n, tab[n]) /\ Allowed(n, tab[n]) /\ op[n].ask \in MaybeAddr
  BY NodeLemma, CalmLemma DEF Op
<1>1. CASE FallbackTimeout(n)
  <2> DEFINE i == op[n].idx + 1
             o == [op[n] EXCEPT !.ask = Boots[n][i], !.idx = i]
  <2>1. \/ i \in 1 .. Len(Boots[n]) /\ Go(n, tab[n], o)
        \/ FallbackEnd(n, tab[n], op[n].flag)
    BY <1>1 DEF FallbackTimeout
  <2>2. i \in Nat /\ op[n].pc = "fbAsk"
    BY <1>0, <1>1 DEF Op, FallbackTimeout
  <2> HIDE DEF i
  <2>3. ASSUME i \in 1 .. Len(Boots[n]) PROVE OpOK(n, tab[n], o)
    <3>1. Boots[n][i] \in NodeAddr /\ Boots[n][i] # NoAddr
      BY <2>3, BootLemma
    <3>2. o \in Op /\ o.pc = "fbAsk" /\ o.ask = Boots[n][i]
      BY <1>0, <2>2, <3>1 DEF Op, MaybeAddr
    <3> HIDE DEF o
    <3> QED
      BY <3>1, <3>2, AskingLemma DEF Asking, Holding
  <2> HIDE DEF o
  <2> QED
    BY <1>0, <2>1, <2>3, StayLemma, FallbackEndLemma
<1>2. CASE FallbackIdentityTimeout(n)
  <2>1. op[n].pc \notin Holding /\ op[n].ask \in NodeAddr
    BY <1>0, <1>2 DEF FallbackIdentityTimeout, OpOK, Holding, Asking, MaybeAddr
  <2> QED
    BY <1>0, <1>2, <2>1, AnySuccessorLemma, FallbackEndLemma DEF FallbackIdentityTimeout
<1>3. ASSUME NEW a \in Peers, FallbackIdentity(n, a)
      PROVE  Kept
  <2>1. op[n].pc \notin Holding /\ a \in NodeAddr
    BY <1>3, PeerLemma DEF FallbackIdentity, Holding
  <2> QED
    BY <1>0, <1>3, <2>1, AnySuccessorLemma, FallbackEndLemma DEF FallbackIdentity
<1>4. ASSUME NEW a \in Peers, FallbackAnswer(n, a)
      PROVE  Kept
  <2> DEFINE t == [tab[n] EXCEPT !.b1 = NoAddr, !.b2 = NoAddr]
             o == [op[n] EXCEPT !.pc = "fbId"]
  <2>1. a \in NodeAddr /\ op[n].pc = "fbAsk" /\ op[n].ask # NoAddr
    BY <1>0, <1>4, PeerLemma DEF FallbackAnswer, OpOK, Asking
  <2>2. t \in Table /\ t.succ = tab[n].succ /\ t.pred = tab[n].pred /\ t.b1 = NoAddr /\ t.b2 = NoAddr
    BY <1>0 DEF Table, MaybeAddr
  <2>3. o \in Op /\ o.pc = "fbId" /\ o.ask = op[n].ask
    BY <1>0 DEF Op, Pc, Asking
  <2>4. Go(n, t, o) \/ FallbackEnd(n, setSuccessor(n, t, a), op[n].flag)
    BY <1>4 DEF FallbackAnswer
  <2> HIDE DEF t, o
  <2>5. Good(n, t) /\ Clean(n, t) /\ Allowed(n, t)
    BY <1>0, <2>2, CalmLemma DEF Good, Clean
  <2>6. OpOK(n, t, o)
    BY <2>1, <2>3, AskingLemma DEF Asking, Holding
  <2>7. Good(n, setSuccessor(n, t, a)) /\ Allowed(n, setSuccessor(n, t, a))
    BY <2>1, <2>2, <2>5, AnySuccessorLemma DEF Holding
  <2> QED
    BY <1>0, <2>4, <2>5, <2>6, <2>7, GoLemma, FallbackEndLemma
<1> QED
  BY <1>1, <1>2, <1>3, <1>4

\* The search: the successor it replaces is the dead one.
LEMMA AltStep ==
  ASSUME Inv, NEW n \in Nodes, ~raced[n],
         PredTimeout(n) \/ AltAnswer(n) \/ AltTimeout(n) \/ AltPredAnswer(n) \/ AltPredTimeout(n)
  PROVE  Kept
<1>0. /\ op[n] \in Op /\ OpOK(n, tab[n], op[n]) /\ tab[n] \in Table /\ Good(n, tab[n])
      /\ Clean(n, tab[n]) /\ Allowed(n, tab[n]) /\ n \in NodeId
      /\ tab[n].succ # NoAddr /\ tab[n].succ.id \in NodeId
  BY NodeLemma, CalmLemma
<1> DEFINE dead == op[n].base.id
<1>1. CASE PredTimeout(n)
  <2> DEFINE o == [op[n] EXCEPT !.s1 = tab[n].b1, !.s2 = tab[n].b2]
  <2>1. o \in Op /\ o.base = op[n].base
    BY <1>0 DEF Op, Table
  <2>2. AltFrom(n, tab[n], o, 1) /\ op[n].pc = "getPred"
    BY <1>1 DEF PredTimeout
  <2> HIDE DEF o
  <2> QED
    BY <1>0, <2>1, <2>2, AltFromLemma
<1>2. CASE AltTimeout(n)
  <2> DEFINE t == IF op[n].idx <= 2 THEN removeSuccessor(tab[n], op[n].ask.id) ELSE tab[n]
  <2>1. op[n].idx + 1 \in Nat /\ op[n].idx + 1 > 0 /\ op[n].pc = "alt"
    BY <1>0, <1>2 DEF Op, AltTimeout
  <2>2. ~Holds(tab[n].succ, op[n].ask.id)
    BY <1>0, <2>1 DEF OpOK, Holding, Holds
  <2>3. t \in Table /\ Clean(n, t) /\ t.succ = tab[n].succ /\ t.pred = tab[n].pred
    BY <1>0, <2>2, DropLemma
  <2>4. AltFrom(n, t, op[n], op[n].idx + 1)
    BY <1>2 DEF AltTimeout
  <2> HIDE DEF t
  <2>5. Good(n, t)
    BY <1>0, <2>3 DEF Good
  <2> QED
    BY <1>0, <2>1, <2>3, <2>4, <2>5, AltFromLemma
<1>3. CASE AltAnswer(n) \/ AltPredAnswer(n)
  <2> DEFINE t == IF op[n].pc = "alt" /\ op[n].idx <= 2 THEN removeSuccessor(tab[n], dead) ELSE tab[n]
             u == setSuccessor(n, t, op[n].ask)
  <2>1. /\ op[n].ask \in NodeAddr /\ op[n].ask.id # dead /\ Holds(tab[n].succ, dead)
        /\ dead \in NodeId /\ op[n].pc \in {"alt", "altPred"}
    BY <1>0, <1>3 DEF AltAnswer, AltPredAnswer, OpOK, Op, Asking, Holding, Holds, MaybeAddr
  <2>2. AltFound(n, t, op[n].ask)
    BY <1>3 DEF AltAnswer, AltPredAnswer
  <2>3. /\ t \in Table /\ Clean(n, t) /\ t.pred = tab[n].pred
        /\ Holds(t.succ, dead) \/ (~Holds(t.b1, dead) /\ ~Holds(t.b2, dead))
    BY <1>0, <2>1, DropLemma
  <2> HIDE DEF t, dead
  <2>4. /\ u \in Table /\ Clean(n, u) /\ u.succ = op[n].ask /\ u.pred = tab[n].pred
        /\ u.succ # NoAddr /\ dead \notin Known(u)
    BY <1>0, <2>1, <2>3, SetLemma, ForgetLemma
  <2>5. Allowed(n, u)
    BY <2>1, <2>4 DEF Allowed, Closer, PredCloser, Forgets, dead
  <2>6. Good(n, u)
    BY <1>0, <2>4 DEF Good
  <2>7. Go(n, u, Idle)
    BY <2>2 DEF AltFound
  <2> QED
    BY <2>5, <2>6, <2>7, IdleLemma, GoLemma
<1>4. CASE AltPredTimeout(n)
  BY <1>0, <1>4, FallbackLemma DEF AltPredTimeout
<1> QED
  BY <1>1, <1>2, <1>3, <1>4

LEMMA ReviveStep ==
  ASSUME Inv, NEW n \in Nodes, ~raced[n],
         \/ ReviveAnswer(n) \/ ReviveTimeout(n)
         \/ \E a \in Peers : NextSuccAnswer(n, a)
  PROVE  Kept
<1>0. /\ op[n] \in Op /\ OpOK(n, tab[n], op[n]) /\ tab[n] \in Table /\ Good(n, tab[n])
      /\ Clean(n, tab[n]) /\ Allowed(n, tab[n]) /\ n \in NodeId /\ tab[n].succ # NoAddr
      /\ op[n].idx + 1 \in Nat /\ op[n].idx + 1 > 0
  BY NodeLemma, CalmLemma DEF Op
<1>1. CASE ReviveTimeout(n) \/ (ReviveAnswer(n) /\ ~between(op[n].ask.id, n, op[n].base.id))
  <2>1. ReviveFrom(n, tab[n], op[n], op[n].idx + 1) /\ op[n].pc = "revive"
    BY <1>1 DEF ReviveTimeout, ReviveAnswer
  <2>2. op[n].base # NoAddr /\ op[n].base.id # n /\ tab[n].succ.id = op[n].base.id
    BY <1>0, <2>1 DEF OpOK, Holding
  <2> QED
    BY <1>0, <2>1, <2>2, ReviveFromLemma
<1>2. CASE ReviveAnswer(n) /\ between(op[n].ask.id, n, op[n].base.id)
  <2>1. op[n].pc = "revive" /\ Go(n, setSuccessor(n, tab[n], op[n].ask), Idle)
    BY <1>2 DEF ReviveAnswer
  <2>2. op[n].ask \in NodeAddr
    BY <1>0, <2>1 DEF OpOK, Op, Asking, MaybeAddr
  <2> QED
    BY <1>2, <2>1, <2>2, CloserLemma, IdleLemma, GoLemma
<1>3. ASSUME NEW a \in Peers, NextSuccAnswer(n, a)
      PROVE  Kept
  <2> DEFINE t == IF a.id \notin {n, op[n].ask.id} THEN addBackupSuccessor(n, tab[n], a) ELSE tab[n]
             r == NewOp("revive")
             o == [r EXCEPT !.base = t.succ, !.s1 = t.b1, !.s2 = t.b2]
  <2>1. Revive(n, t) /\ op[n].pc = "nextSucc"
    BY <1>3 DEF NextSuccAnswer
  <2>2. t \in Table /\ Clean(n, t) /\ t.succ = tab[n].succ /\ t.pred = tab[n].pred
    BY <1>0, PeerLemma, AddLemma
  <2> HIDE DEF t
  <2>3. Good(n, t) /\ Allowed(n, t)
    BY <1>0, <2>2, CalmLemma DEF Good
  <2>4. r \in Op
    BY OpLemma DEF Pc, Asking
  <2> HIDE DEF r
  <2>5. o \in Op /\ o.base = t.succ
    BY <2>2, <2>4 DEF Op, Table
  <2>6. Go(n, t, Idle) \/ (t.succ # NoAddr /\ t.succ.id # n /\ ReviveFrom(n, t, o, 1))
    BY <2>1 DEF Revive, r
  <2> HIDE DEF o
  <2> QED
    BY <2>3, <2>5, <2>6, IdleLemma, GoLemma, ReviveFromLemma
<1> QED
  BY <1>1, <1>2, <1>3

-----------------------------------------------------------------------------
(* The other timers, and handleMessage.                                    *)

LEMMA TimerStep ==
  ASSUME Inv, NEW n \in Nodes, ~raced[n],
         FixFingers(n) \/ CheckPredecessor(n) \/ CheckPredAnswer(n) \/ CheckPredTimeout(n)
  PROVE  Kept
<1>0. Good(n, tab[n]) /\ tab[n] \in Table /\ tab[n].pred \in MaybeAddr
  BY NodeLemma DEF Table
<1>1. CASE FixFingers(n)
  <2> DEFINE found == findSuccessor(n, tab[n], fingerStart(n, tab[n].next))
             t == [tab[n] EXCEPT !.fingers = [@ EXCEPT ![tab[n].next] = found],
                                 !.next = (tab[n].next + 1) % M]
  <2>1. Go(n, t, Idle)
    BY <1>1 DEF FixFingers
  <2>2. found \in MaybeAddr
    BY <1>0, FindLemma
  <2> HIDE DEF found
  <2>3. t \in Table /\ Same(tab[n], t)
    BY <1>0, <2>2, FixLemma, Zenon
  <2> HIDE DEF t
  <2>4. Good(n, t) /\ Allowed(n, t)
    BY <1>0, <2>3, CalmLemma DEF Good, Clean, Same
  <2> QED
    BY <2>1, <2>4, IdleLemma, GoLemma
<1>2. CASE CheckPredecessor(n)
  <2>1. tab[n].pred # NoAddr /\ Go(n, tab[n], Ask("checkPred", tab[n].pred))
    BY <1>2 DEF CheckPredecessor
  <2>2. OpOK(n, tab[n], Ask("checkPred", tab[n].pred))
    BY <1>0, <2>1, AskLemma, AskingLemma DEF Pc, Asking, Holding
  <2> QED
    BY <2>1, <2>2, StayLemma
<1>3. CASE CheckPredAnswer(n)
  BY <1>3, IdleLemma, StayLemma DEF CheckPredAnswer
<1>4. CASE CheckPredTimeout(n)
  <2> DEFINE t == [tab[n] EXCEPT !.pred = NoAddr]
  <2>1. Go(n, t, Idle)
    BY <1>4 DEF CheckPredTimeout
  <2>2. t \in Table /\ t.succ = tab[n].succ /\ t.b1 = tab[n].b1 /\ t.b2 = tab[n].b2 /\ t.pred = NoAddr
    BY <1>0 DEF Table, MaybeAddr
  <2> HIDE DEF t
  <2>3. Good(n, t) /\ Allowed(n, t)
    BY <1>0, <2>2, CalmLemma DEF Good, Clean, Filled
  <2> QED
    BY <2>1, <2>3, IdleLemma, GoLemma
<1> QED
  BY <1>1, <1>2, <1>3, <1>4

\* A handler leaves the successor alone, unless the node is its own, and a
\* predecessor gives way to a closer one.
LEMMA NotifiedLemma ==
  ASSUME Inv, NEW n \in Nodes, ~raced[n], NEW c \in NodeAddr
  PROVE  LET t == Notified(n, tab[n], c)
         IN  Good(n, t) /\ OpOK(n, t, op[n]) /\ Allowed(n, t)
<1> DEFINE heard == notifyCandidate(n, tab[n], c)
           joined == IF Holds(heard.succ, n) /\ c.id # n THEN setSuccessor(n, heard, c) ELSE heard
           t == IF c.id # n THEN addBackupSuccessor(n, joined, c) ELSE joined
<1>0. Good(n, tab[n]) /\ OpOK(n, tab[n], op[n]) /\ tab[n] \in Table /\ n \in NodeId
  BY NodeLemma
<1>1. /\ Good(n, heard) /\ heard.succ = tab[n].succ
      /\ tab[n].pred # NoAddr /\ heard.pred.id # tab[n].pred.id
         => distance(heard.pred.id, n) < distance(tab[n].pred.id, n)
  BY <1>0, CandidateLemma
<1>2. Notified(n, tab[n], c) = t
  BY DEF Notified
<1> HIDE DEF heard
<1>3. /\ joined \in Table /\ Clean(n, joined) /\ joined.pred = heard.pred /\ joined.succ # NoAddr
      /\ joined.succ = tab[n].succ \/ tab[n].succ.id = n
  BY <1>0, <1>1, SetLemma DEF Good, Holds
<1> HIDE DEF joined
<1>4. /\ t \in Table /\ Clean(n, t) /\ t.pred = heard.pred /\ t.succ # NoAddr
      /\ t.succ = tab[n].succ \/ tab[n].succ.id = n
  BY <1>0, <1>3, AddLemma
<1> HIDE DEF t
<1>5. Good(n, t) /\ OpOK(n, t, op[n])
  BY <1>0, <1>1, <1>4 DEF Good, OpOK, Holding
<1>6. t.succ = tab[n].succ \/ op[n].pc \notin Holding
  BY <1>0, <1>4 DEF OpOK
<1>7. Allowed(n, [tab[n] EXCEPT !.succ = t.succ])
  BY <1>0, <1>6, CalmLemma DEF Table
<1>8. Closer(n, t)
  BY <1>0, <1>7 DEF Allowed, Closer, Table
<1>9. PredCloser(n, t)
  BY <1>1, <1>4 DEF PredCloser
<1>10. Forgets(n, t)
  BY <1>0, <1>6 DEF Forgets, Holding, Good, Holds
<1> QED
  BY <1>2, <1>5, <1>8, <1>9, <1>10 DEF Allowed

LEMMA NotifyStep ==
  ASSUME Inv, NEW n \in Nodes, ~raced[n], NEW c \in Peers, HandleNotify(n, c)
  PROVE  Kept
<1> DEFINE t == Notified(n, tab[n], c)
<1>1. Good(n, t) /\ OpOK(n, t, op[n]) /\ Allowed(n, t)
  BY PeerLemma, NotifiedLemma
<1>2. Go(n, t, op[n])
  BY DEF HandleNotify
<1> HIDE DEF t
<1> QED
  BY <1>1, <1>2, GoLemma

-----------------------------------------------------------------------------
(* The types, which an overlap leaves alone.                               *)

LEMMA RemoveTypes ==
  ASSUME NEW t \in Table, NEW dead
  PROVE  removeFromBackups(t, dead) \in Table /\ removeSuccessor(t, dead) \in Table
<1>1. removeFromBackups(t, dead) \in Table
  BY DEF removeFromBackups, Table, MaybeAddr
<1> QED
  BY <1>1 DEF removeSuccessor, Table, MaybeAddr

LEMMA TableTypes ==
  ASSUME NEW n, NEW t \in Table, NEW a \in MaybeAddr
  PROVE  /\ addBackupSuccessor(n, t, a) \in Table /\ setSuccessor(n, t, a) \in Table
         /\ notifyCandidate(n, t, a) \in Table
<1>1. \A u \in Table, c \in MaybeAddr : addBackupSuccessor(n, u, c) \in Table
  BY DEF addBackupSuccessor, Table
<1>2. notifyCandidate(n, t, a) \in Table
  BY DEF notifyCandidate, Table
<1> DEFINE offered == IF t.succ # NoAddr /\ t.succ.id # n
                      THEN addBackupSuccessor(n, t, t.succ) ELSE t
           r == removeFromBackups(offered, a.id)
<1>3. offered \in Table
  BY <1>1 DEF Table
<1>4. r \in Table
  BY <1>3, RemoveTypes
<1>5. setSuccessor(n, t, a) = [t EXCEPT !.succ = a] \/ setSuccessor(n, t, a) = [r EXCEPT !.succ = a]
  BY DEF setSuccessor
<1> HIDE DEF r
<1>6. setSuccessor(n, t, a) \in Table
  BY <1>4, <1>5 DEF Table
<1> QED
  BY <1>1, <1>2, <1>6

LEMMA NotifiedTypes ==
  ASSUME NEW n, NEW t \in Table, NEW c \in MaybeAddr
  PROVE  Notified(n, t, c) \in Table
<1> DEFINE heard == notifyCandidate(n, t, c)
           joined == IF Holds(heard.succ, n) /\ c.id # n THEN setSuccessor(n, heard, c) ELSE heard
<1>1. heard \in Table
  BY TableTypes
<1>2. joined \in Table
  BY <1>1, TableTypes
<1>3. Notified(n, t, c) = IF c.id # n THEN addBackupSuccessor(n, joined, c) ELSE joined
  BY DEF Notified
<1> HIDE DEF joined
<1> QED
  BY <1>2, <1>3, TableTypes

\* What a thread leaves in a slot is an address or nothing.
LEMMA LeftTypes ==
  ASSUME TypeOK, NEW n \in Nodes, NEW slot \in {"succ", "b1", "b2", "pred"}
  PROVE  Left(n, slot) \subseteq MaybeAddr
<1>1. tab[n] \in Table /\ plug[n].seen \in Table /\ plug[n].cand \in MaybeAddr
  BY DEF TypeOK, Plug
<1>2. \A t \in Table : t[slot] \in MaybeAddr
  BY DEF Table
<1> QED
  BY <1>1, <1>2, NotifiedTypes DEF Left

LEMMA PluginStep ==
  ASSUME Inv, NEW n \in Nodes, PluginWrites(n) \/ \E c \in Peers : PluginReads(n, c)
  PROVE  Kept
<1>0. TypeOK /\ tab[n] \in Table /\ op[n] \in Op /\ NoPlug(n) \in Plug /\ plug[n].cand \in MaybeAddr
  BY InitLemma DEF Inv, TypeOK, NoPlug, Plug, MaybeAddr, Good
<1>1. ASSUME NEW c \in Peers, PluginReads(n, c)
      PROVE  Kept
  <2>1. [cand |-> c, seen |-> tab[n]] \in Plug
    BY <1>0, PeerLemma DEF Plug
  <2>2. Places(n, tab[n], op[n]) /\ raced' = raced
    BY <1>0, <1>1, <2>1 DEF PluginReads, Places, TypeOK
  <2>3. ~raced[n] => Good(n, tab[n]) /\ OpOK(n, tab[n], op[n]) /\ Allowed(n, tab[n])
    BY NodeLemma, CalmLemma
  <2> QED
    BY <2>2, <2>3, PlaceLemma
<1>2. CASE PluginWrites(n) /\ ~raced[n]
  <2> DEFINE t == Notified(n, tab[n], plug[n].cand)
  <2>1. plug[n].cand \in NodeAddr
    BY <1>0, <1>2 DEF PluginWrites, Handling, MaybeAddr
  <2>2. Good(n, t) /\ OpOK(n, t, op[n]) /\ Allowed(n, t)
    BY <1>2, <2>1, NotifiedLemma
  <2>3. tab' = [tab EXCEPT ![n] = t] /\ plug' = [plug EXCEPT ![n] = NoPlug(n)]
        /\ op' = op /\ raced' = raced
    BY <1>0, <1>2 DEF PluginWrites, TypeOK
  <2> HIDE DEF t
  <2>4. Places(n, t, op[n])
    BY <1>0, <2>2, <2>3 DEF Places, TypeOK, Good
  <2> QED
    BY <2>2, <2>4, PlaceLemma
<1>3. CASE PluginWrites(n) /\ raced[n]
  <2>1. PICK s \in Left(n, "succ"), x \in Left(n, "b1"), y \in Left(n, "b2"), p \in Left(n, "pred") :
          tab' = [tab EXCEPT ![n] = [@ EXCEPT !.succ = s, !.b1 = x, !.b2 = y, !.pred = p]]
    BY <1>3, Zenon DEF PluginWrites
  <2> DEFINE t == [tab[n] EXCEPT !.succ = s, !.b1 = x, !.b2 = y, !.pred = p]
  <2>2. s \in MaybeAddr /\ x \in MaybeAddr /\ y \in MaybeAddr /\ p \in MaybeAddr
    BY <1>0, LeftTypes
  <2>3. t \in Table
    BY <1>0, <2>2 DEF Table
  <2>4. tab' = [tab EXCEPT ![n] = t]
    BY <1>0, <2>1 DEF TypeOK
  <2>5. plug' = [plug EXCEPT ![n] = NoPlug(n)] /\ op' = op /\ raced' = raced
    BY <1>3, Zenon DEF PluginWrites
  <2> HIDE DEF t
  <2>6. Places(n, t, op[n])
    BY <1>0, <2>3, <2>4, <2>5 DEF Places, TypeOK
  <2> QED
    BY <1>3, <2>5, <2>6, PlaceLemma
<1> QED
  BY <1>1, <1>2, <1>3

\* The main thread after an overlap.
LEMMA RacedGo ==
  ASSUME Inv, NEW n \in Nodes, raced[n], NEW t \in Table, NEW o \in Op, Go(n, t, o)
  PROVE  Kept
<1>1. Places(n, t, o) /\ raced'[n]
  BY GoPlaces, GoTypes DEF Inv
<1> QED
  BY <1>1, PlaceLemma

LEMMA RacedTails ==
  ASSUME Inv, NEW n \in Nodes, raced[n], NEW t \in Table
  PROVE  /\ NotifyOrEnd(n, t) => Kept
         /\ \A lone \in BOOLEAN : Fallback(n, t, lone) \/ FallbackEnd(n, t, lone) => Kept
         /\ \A i \in Nat, joined \in BOOLEAN : JoinNext(n, t, i, joined) => Kept
         /\ \A i \in Nat, a \in MaybeAddr : GreetOrNext(n, t, a, i) => Kept
<1>0. /\ Idle \in Op /\ t.succ \in MaybeAddr
      /\ \A pc \in Pc, a \in MaybeAddr : Ask(pc, a) \in Op
  BY AskLemma, OpLemma DEF Idle, Pc, Table
<1>1. NotifyOrEnd(n, t) => Kept
  BY <1>0, RacedGo DEF NotifyOrEnd, Pc, Asking
<1>2. ASSUME NEW lone \in BOOLEAN, Fallback(n, t, lone)
      PROVE  Kept
  <2>1. CASE Boots[n] # <<>>
    <3> DEFINE o == [Ask("fbAsk", Boots[n][1]) EXCEPT !.idx = 1, !.flag = lone]
    <3>1. Boots[n][1] \in MaybeAddr
      BY <2>1, BootLemma, NodesAssumption DEF MaybeAddr
    <3>2. Ask("fbAsk", Boots[n][1]) \in Op
      BY <1>0, <3>1 DEF Pc, Asking
    <3>3. o \in Op
      BY <3>2 DEF Op
    <3> QED
      BY <1>2, <2>1, <3>3, RacedGo DEF Fallback
  <2>2. CASE Boots[n] = <<>>
    BY <1>0, <1>1, <1>2, <2>2, RacedGo DEF Fallback
  <2> QED
    BY <2>1, <2>2
<1>3. ASSUME NEW i \in Nat, NEW joined \in BOOLEAN, JoinNext(n, t, i, joined)
      PROVE  Kept
  <2>1. NewOp("boot") \in Op
    BY OpLemma DEF Pc
  <2>2. [NewOp("boot") EXCEPT !.idx = i, !.flag = joined] \in Op
    BY <2>1 DEF Op
  <2> QED
    BY <1>3, <2>2, RacedGo DEF JoinNext
<1>4. ASSUME NEW i \in Nat, NEW a \in MaybeAddr, GreetOrNext(n, t, a, i)
      PROVE  Kept
  <2>1. Ask("greet", a) \in Op
    BY <1>0 DEF Pc, Asking
  <2>2. [Ask("greet", a) EXCEPT !.idx = i, !.flag = TRUE] \in Op
    BY <2>1 DEF Op
  <2>3. Go(n, t, [Ask("greet", a) EXCEPT !.idx = i, !.flag = TRUE]) \/ JoinNext(n, t, i + 1, TRUE)
    BY <1>4 DEF GreetOrNext
  <2>4. i + 1 \in Nat /\ TRUE \in BOOLEAN
    OBVIOUS
  <2> QED
    BY <1>3, <2>2, <2>3, <2>4, RacedGo
<1>5. ASSUME NEW lone \in BOOLEAN, FallbackEnd(n, t, lone)
      PROVE  Kept
  BY <1>0, <1>1, <1>5, RacedGo DEF FallbackEnd
<1> QED
  BY <1>1, <1>2, <1>3, <1>4, <1>5

LEMMA RacedSearches ==
  ASSUME Inv, NEW n \in Nodes, raced[n], NEW t \in Table, NEW o \in Op, NEW i \in Nat, i > 0
  PROVE  /\ AltFrom(n, t, o, i) => Kept
         /\ ReviveFrom(n, t, o, i) => Kept
         /\ \A a \in MaybeAddr : AltFound(n, t, a) => Kept
<1>0. Idle \in Op /\ t.pred \in MaybeAddr
  BY OpLemma DEF Idle, Pc, Table
<1>1. ASSUME NEW a \in MaybeAddr, AltFound(n, t, a)
      PROVE  Kept
  BY <1>0, <1>1, TableTypes, RacedGo DEF AltFound
<1>2. ASSUME AltFrom(n, t, o, i)
      PROVE  Kept
  <2> DEFINE S == AltCandidates(n, t, o, i)
             k == CHOOSE j \in S : IsFirst(S, j)
             c == Candidate(t, o, k)
  <2>1. CASE \E j \in S : IsFirst(S, j)
    <3>1. k \in i .. M + 2
      BY <2>1 DEF AltCandidates
    <3>2. c \in MaybeAddr /\ k \in Nat
      BY <3>1, SlotLemma
    <3>3. AltFound(n, t, c) \/ Go(n, t, [o EXCEPT !.pc = "alt", !.ask = c, !.idx = k])
      BY <1>2, <2>1 DEF AltFrom
    <3> HIDE DEF c, k, S
    <3>4. [o EXCEPT !.pc = "alt", !.ask = c, !.idx = k] \in Op
      BY <3>2 DEF Op, Pc, Asking
    <3> QED
      BY <1>1, <3>2, <3>3, <3>4, RacedGo
  <2>2. CASE ~(\E j \in S : IsFirst(S, j))
    <3>1. [o EXCEPT !.pc = "altPred", !.ask = t.pred] \in Op
      BY <1>0 DEF Op, Pc, Asking
    <3> QED
      BY <1>2, <2>2, <3>1, RacedGo, RacedTails DEF AltFrom
  <2> QED
    BY <2>1, <2>2
<1>3. ASSUME ReviveFrom(n, t, o, i)
      PROVE  Kept
  <2> DEFINE S == ReviveCandidates(n, t, o, i)
             k == CHOOSE j \in S : IsFirst(S, j)
             c == Candidate(t, o, k)
  <2>1. CASE \E j \in S : IsFirst(S, j)
    <3>1. k \in i .. M + 2
      BY <2>1 DEF ReviveCandidates
    <3>2. c \in MaybeAddr /\ k \in Nat
      BY <3>1, SlotLemma
    <3>3. Go(n, t, [o EXCEPT !.pc = "revive", !.ask = c, !.idx = k])
      BY <1>3, <2>1 DEF ReviveFrom
    <3> HIDE DEF c, k, S
    <3>4. [o EXCEPT !.pc = "revive", !.ask = c, !.idx = k] \in Op
      BY <3>2 DEF Op, Pc, Asking
    <3> QED
      BY <3>3, <3>4, RacedGo
  <2>2. CASE ~(\E j \in S : IsFirst(S, j))
    BY <1>0, <1>3, <2>2, RacedGo DEF ReviveFrom
  <2> QED
    BY <2>1, <2>2
<1> QED
  BY <1>1, <1>2, <1>3

LEMMA RacedJoin ==
  ASSUME Inv, NEW n \in Nodes, raced[n],
         \/ Start(n) \/ JoinDone(n) \/ JoinContact(n) \/ JoinTimeout(n) \/ GreetDone(n)
         \/ SelfIdentityTimeout(n) \/ QuickLocal(n) \/ QuickTimeout(n) \/ QuickDone(n)
         \/ \E a \in Peers : BootIdentity(n, a) \/ JoinAnswer(n, a) \/ SelfIdentity(n, a) \/ QuickAnswer(n, a)
  PROVE  Kept
<1>0. /\ tab[n] \in Table /\ op[n] \in Op /\ op[n].ask \in MaybeAddr /\ op[n].base \in MaybeAddr
      /\ op[n].idx \in Nat /\ op[n].fin \in Nat /\ op[n].flag \in BOOLEAN /\ op[n].fin + 1 \in Nat
      /\ op[n].idx + 1 \in Nat /\ InitTable(n) \in Table /\ Idle \in Op
  BY InitLemma, OpLemma DEF Inv, TypeOK, Op, Good, Idle, Pc
<1>1. CASE Start(n) \/ JoinTimeout(n) \/ GreetDone(n) \/ QuickDone(n)
  BY <1>0, <1>1, RacedTails DEF Start, JoinTimeout, GreetDone, QuickDone
<1>2. CASE JoinDone(n)
  BY <1>0, <1>2, RacedGo DEF JoinDone
<1>3. CASE JoinContact(n)
  <2> DEFINE boot == Boots[n][op[n].idx]
  <2>1. boot \in MaybeAddr
    BY <1>3, BootLemma DEF JoinContact, MaybeAddr
  <2>2. \/ Go(n, tab[n], [op[n] EXCEPT !.pc = "bootId", !.ask = boot])
        \/ Go(n, tab[n], [op[n] EXCEPT !.pc = "joinAsk", !.ask = boot])
    BY <1>3 DEF JoinContact
  <2> HIDE DEF boot
  <2>3. /\ [op[n] EXCEPT !.pc = "bootId", !.ask = boot] \in Op
        /\ [op[n] EXCEPT !.pc = "joinAsk", !.ask = boot] \in Op
    BY <1>0, <2>1 DEF Op, Pc, Asking
  <2> QED
    BY <1>0, <2>2, <2>3, RacedGo
<1>4. ASSUME NEW a \in MaybeAddr, Adopt(n, a)
      PROVE  Kept
  <2> DEFINE u == setSuccessor(n, tab[n], a)
             t == [u EXCEPT !.fingers = [@ EXCEPT ![0] = a]]
             o == [op[n] EXCEPT !.pc = "quickNext", !.ask = NoAddr, !.base = a, !.fin = 1]
  <2>1. u \in Table
    BY <1>0, TableTypes
  <2> HIDE DEF u
  <2>2. t \in Table
    BY <2>1, FingerLemma, RoutingAssumption DEF FingerIdx
  <2>3. o \in Op
    BY <1>0 DEF Op, Pc, MaybeAddr
  <2>4. Go(n, t, o)
    BY <1>4 DEF Adopt, u
  <2> QED
    BY <2>2, <2>3, <2>4, RacedGo
<1>5. ASSUME NEW t \in Table, QuickFill(n, t)
      PROVE  Kept
  <2>1. [op[n] EXCEPT !.pc = "quickNext", !.fin = @ + 1] \in Op
    BY <1>0 DEF Op, Pc
  <2> QED
    BY <1>5, <2>1, RacedGo DEF QuickFill
<1>6. \A a \in MaybeAddr : [tab[n] EXCEPT !.fingers = [@ EXCEPT ![op[n].fin] = a]] \in Table
  BY <1>0 DEF Table
<1>7. CASE QuickLocal(n) \/ QuickTimeout(n)
  <2>1. [op[n] EXCEPT !.pc = "quick", !.ask = op[n].base] \in Op
    BY <1>0 DEF Op, Pc, Asking
  <2>2. [tab[n] EXCEPT !.fingers = [@ EXCEPT ![op[n].fin] = op[n].base]] \in Table
    BY <1>0 DEF Table
  <2> QED
    <3>1. CASE QuickTimeout(n)
      BY <1>0, <1>5, <3>1 DEF QuickTimeout
    <3>2. CASE QuickLocal(n)
      <4>1. \/ QuickFill(n, [tab[n] EXCEPT !.fingers = [@ EXCEPT ![op[n].fin] = op[n].base]])
            \/ Go(n, tab[n], [op[n] EXCEPT !.pc = "quick", !.ask = op[n].base])
        BY <3>2 DEF QuickLocal
      <4> QED
        BY <1>0, <1>5, <2>1, <2>2, <4>1, RacedGo
    <3> QED
      BY <1>7, <3>1, <3>2
<1>8. CASE SelfIdentityTimeout(n)
  BY <1>0, <1>4, <1>8 DEF SelfIdentityTimeout
<1>9. ASSUME NEW a \in Peers, QuickAnswer(n, a) \/ SelfIdentity(n, a)
       PROVE  Kept
  BY <1>4, <1>5, <1>6, <1>9, PeerLemma DEF QuickAnswer, SelfIdentity
<1>10. ASSUME NEW a \in Peers, BootIdentity(n, a)
       PROVE  Kept
  <2> DEFINE o == [op[n] EXCEPT !.pc = "joinAsk", !.ask = a]
  <2>1. a \in MaybeAddr /\ op[n] \in Op
    BY <1>0, PeerLemma
  <2>2. o \in Op
    BY <2>1 DEF Op, Pc, Asking
  <2>3. Go(n, tab[n], o)
    BY <1>10 DEF BootIdentity
  <2> QED
    BY <1>0, <2>2, <2>3, RacedGo DEF BootIdentity
<1>11. ASSUME NEW a \in Peers, JoinAnswer(n, a)
       PROVE  Kept
  <2>1. [op[n] EXCEPT !.pc = "selfId"] \in Op
    BY <1>0 DEF Op, Pc, Asking
  <2> QED
    BY <1>0, <1>4, <1>11, <2>1, PeerLemma, RacedGo, RacedTails DEF JoinAnswer
<1> QED
  BY <1>1, <1>2, <1>3, <1>7, <1>8, <1>9, <1>10, <1>11

LEMMA RacedStabilize ==
  ASSUME Inv, NEW n \in Nodes, raced[n],
         \/ Stabilize(n) \/ NotifyAnswer(n) \/ StabilizeAbort(n)
         \/ \E a \in Peers \cup {NoAddr} : PredAnswer(n, a)
         \/ FallbackTimeout(n) \/ FallbackIdentityTimeout(n)
         \/ \E a \in Peers : FallbackAnswer(n, a) \/ FallbackIdentity(n, a)
  PROVE  Kept
<1>0. /\ tab[n] \in Table /\ op[n] \in Op /\ op[n].ask \in MaybeAddr /\ op[n].base \in MaybeAddr
      /\ op[n].idx + 1 \in Nat /\ op[n].flag \in BOOLEAN /\ Idle \in Op
      /\ tab[n].succ \in MaybeAddr /\ tab[n].pred \in MaybeAddr
      /\ \A pc \in Pc, a \in MaybeAddr : Ask(pc, a) \in Op
  BY OpLemma, AskLemma DEF Inv, TypeOK, Op, Idle, Pc, Table
<1>1. ASSUME NEW base, NEW a \in MaybeAddr, AfterPred(n, base, a)
      PROVE  Kept
  <2> DEFINE t == AdoptPred(n, tab[n], base, a)
  <2>1. a # NoAddr => [a EXCEPT !.tcp = FALSE] \in MaybeAddr
    BY DEF NodeAddr, MaybeAddr
  <2>2. t \in Table
    BY <1>0, <2>1, TableTypes DEF AdoptPred
  <2>3. Fallback(n, t, TRUE) \/ NotifyOrEnd(n, t)
    BY <1>1 DEF AfterPred
  <2> HIDE DEF t
  <2> QED
    BY <2>2, <2>3, RacedTails
<1>2. CASE Stabilize(n)
  <2>1. Ask("getPred", tab[n].succ) \in Op
    BY <1>0 DEF Pc, Asking
  <2>2. [Ask("getPred", tab[n].succ) EXCEPT !.base = tab[n].succ] \in Op
    BY <1>0, <2>1 DEF Op
  <2> QED
    BY <1>0, <1>1, <1>2, <2>2, RacedGo DEF Stabilize
<1>3. CASE NotifyAnswer(n) \/ StabilizeAbort(n)
  BY <1>0, <1>3, RacedGo DEF NotifyAnswer, StabilizeAbort, Pc, Asking
<1>4. ASSUME NEW a \in Peers \cup {NoAddr}, PredAnswer(n, a)
      PROVE  Kept
  BY <1>1, <1>4, PeerLemma DEF PredAnswer, MaybeAddr
<1>5. CASE FallbackTimeout(n)
  <2> DEFINE i == op[n].idx + 1
  <2>1. i \in 1 .. Len(Boots[n]) => [op[n] EXCEPT !.ask = Boots[n][i], !.idx = i] \in Op
    BY <1>0, BootLemma DEF Op, MaybeAddr
  <2> QED
    BY <1>0, <1>5, <2>1, RacedGo, RacedTails DEF FallbackTimeout
<1>6. ASSUME NEW a \in MaybeAddr, NEW t \in Table, FallbackEnd(n, setSuccessor(n, t, a), op[n].flag)
      PROVE  Kept
  BY <1>0, <1>6, TableTypes, RacedTails
<1>7. CASE FallbackIdentityTimeout(n)
  BY <1>0, <1>6, <1>7 DEF FallbackIdentityTimeout
<1>8. ASSUME NEW a \in Peers, FallbackIdentity(n, a)
      PROVE  Kept
  BY <1>0, <1>6, <1>8, PeerLemma DEF FallbackIdentity
<1>9. ASSUME NEW a \in Peers, FallbackAnswer(n, a)
      PROVE  Kept
  <2>1. [tab[n] EXCEPT !.b1 = NoAddr, !.b2 = NoAddr] \in Table
    BY <1>0 DEF Table, MaybeAddr
  <2>2. [op[n] EXCEPT !.pc = "fbId"] \in Op
    BY <1>0 DEF Op, Pc, Asking
  <2> QED
    BY <1>6, <1>9, <2>1, <2>2, PeerLemma, RacedGo DEF FallbackAnswer
<1> QED
  BY <1>2, <1>3, <1>4, <1>5, <1>7, <1>8, <1>9

LEMMA RacedRest ==
  ASSUME Inv, NEW n \in Nodes, raced[n],
         \/ PredTimeout(n) \/ AltAnswer(n) \/ AltTimeout(n) \/ AltPredAnswer(n) \/ AltPredTimeout(n)
         \/ ReviveAnswer(n) \/ ReviveTimeout(n)
         \/ FixFingers(n) \/ CheckPredecessor(n) \/ CheckPredAnswer(n) \/ CheckPredTimeout(n)
         \/ \E a \in Peers : NextSuccAnswer(n, a) \/ HandleNotify(n, a)
  PROVE  Kept
<1>0. /\ tab[n] \in Table /\ op[n] \in Op /\ op[n].ask \in MaybeAddr
      /\ op[n].idx + 1 \in Nat /\ op[n].idx + 1 > 0 /\ Idle \in Op
      /\ tab[n].succ \in MaybeAddr /\ tab[n].pred \in MaybeAddr
      /\ tab[n].b1 \in MaybeAddr /\ tab[n].b2 \in MaybeAddr
      /\ \A pc \in Pc, a \in MaybeAddr : Ask(pc, a) \in Op
  BY OpLemma, AskLemma DEF Inv, TypeOK, Op, Idle, Pc, Table
<1>1. CASE PredTimeout(n)
  <2>1. [op[n] EXCEPT !.s1 = tab[n].b1, !.s2 = tab[n].b2] \in Op
    BY <1>0 DEF Op
  <2> QED
    BY <1>0, <1>1, <2>1, RacedSearches DEF PredTimeout
<1>2. \A dead : removeSuccessor(tab[n], dead) \in Table
  BY <1>0, RemoveTypes
<1>3. CASE AltAnswer(n) \/ AltPredAnswer(n)
  <2> DEFINE t == IF op[n].pc = "alt" /\ op[n].idx <= 2 THEN removeSuccessor(tab[n], op[n].base.id) ELSE tab[n]
  <2>1. t \in Table
    BY <1>0, <1>2
  <2>2. AltFound(n, t, op[n].ask)
    BY <1>3 DEF AltAnswer, AltPredAnswer
  <2> HIDE DEF t
  <2> QED
    BY <1>0, <2>1, <2>2, TableTypes, RacedGo DEF AltFound
<1>4. CASE AltTimeout(n)
  <2> DEFINE t == IF op[n].idx <= 2 THEN removeSuccessor(tab[n], op[n].ask.id) ELSE tab[n]
  <2>1. t \in Table
    BY <1>0, <1>2
  <2>2. AltFrom(n, t, op[n], op[n].idx + 1)
    BY <1>4 DEF AltTimeout
  <2> HIDE DEF t
  <2> QED
    BY <1>0, <2>1, <2>2, RacedSearches
<1>5. CASE AltPredTimeout(n)
  BY <1>0, <1>5, RacedTails DEF AltPredTimeout
<1>6. CASE ReviveAnswer(n) \/ ReviveTimeout(n)
  <2>1. setSuccessor(n, tab[n], op[n].ask) \in Table
    BY <1>0, TableTypes
  <2> QED
    BY <1>0, <1>6, <2>1, RacedSearches, RacedGo DEF ReviveAnswer, ReviveTimeout
<1>7. CASE FixFingers(n)
  <2> DEFINE found == findSuccessor(n, tab[n], fingerStart(n, tab[n].next))
  <2>1. found \in MaybeAddr
    BY <1>0, FindLemma
  <2>2. Go(n, [tab[n] EXCEPT !.fingers = [@ EXCEPT ![tab[n].next] = found],
                             !.next = (tab[n].next + 1) % M], Idle)
    BY <1>7 DEF FixFingers
  <2> HIDE DEF found
  <2>3. [tab[n] EXCEPT !.fingers = [@ EXCEPT ![tab[n].next] = found],
                       !.next = (tab[n].next + 1) % M] \in Table
    BY <1>0, <2>1, FixLemma, Zenon
  <2> QED
    BY <1>0, <2>2, <2>3, RacedGo
<1>8. CASE CheckPredecessor(n) \/ CheckPredAnswer(n)
  BY <1>0, <1>8, RacedGo DEF CheckPredecessor, CheckPredAnswer, Pc, Asking
<1>9. CASE CheckPredTimeout(n)
  <2>1. [tab[n] EXCEPT !.pred = NoAddr] \in Table
    BY <1>0 DEF Table, MaybeAddr
  <2> QED
    BY <1>0, <1>9, <2>1, RacedGo DEF CheckPredTimeout
<1>10. ASSUME NEW a \in Peers, HandleNotify(n, a)
       PROVE  Kept
  BY <1>0, <1>10, PeerLemma, NotifiedTypes, RacedGo DEF HandleNotify
<1>11. ASSUME NEW a \in Peers, NextSuccAnswer(n, a)
       PROVE  Kept
  <2> DEFINE t == IF a.id \notin {n, op[n].ask.id} THEN addBackupSuccessor(n, tab[n], a) ELSE tab[n]
             o == [NewOp("revive") EXCEPT !.base = t.succ, !.s1 = t.b1, !.s2 = t.b2]
  <2>1. t \in Table
    BY <1>0, PeerLemma, TableTypes
  <2>2. Revive(n, t)
    BY <1>11 DEF NextSuccAnswer
  <2> HIDE DEF t
  <2>3. NewOp("revive") \in Op
    BY OpLemma DEF Pc, Asking
  <2>4. o \in Op
    BY <2>1, <2>3 DEF Op, Table
  <2>5. Go(n, t, Idle) \/ ReviveFrom(n, t, o, 1)
    BY <2>2 DEF Revive
  <2> HIDE DEF o
  <2> QED
    BY <1>0, <2>1, <2>4, <2>5, RacedSearches, RacedGo
<1> QED
  BY <1>1, <1>3, <1>4, <1>5, <1>6, <1>7, <1>8, <1>9, <1>10, <1>11

-----------------------------------------------------------------------------
(* The invariant and the theorems.                                         *)

LEMMA Initial == NodeInit => Inv
<1> SUFFICES ASSUME NodeInit PROVE Inv
  OBVIOUS
<1>1. \A n \in Nodes : Good(n, InitTable(n)) /\ OpOK(n, InitTable(n), NewOp("off"))
  BY InitLemma, OpLemma, RestLemma DEF Pc
<1>2. \A n \in Nodes : NoPlug(n) \in Plug
  BY <1>1 DEF Good, NoPlug, Plug, MaybeAddr
<1>3. TypeOK
  BY <1>1, <1>2 DEF NodeInit, TypeOK, Good, OpOK
<1> QED
  BY <1>1, <1>3 DEF NodeInit, Inv

LEMMA Step == Inv /\ [NodeNext]_nodeVars => Kept
<1> SUFFICES ASSUME Inv, [NodeNext]_nodeVars PROVE Kept
  OBVIOUS
<1>1. CASE UNCHANGED nodeVars
  <2>1. tab' = tab /\ op' = op /\ plug' = plug /\ raced' = raced
    BY <1>1 DEF nodeVars
  <2>2. Inv'
    BY <2>1 DEF Inv, TypeOK
  <2> QED
    BY <2>1, <2>2, CalmLemma DEF Kept
<1>2. ASSUME NEW n \in Nodes, NodeStep(n), ~raced[n]
      PROVE  Kept
  <2>1. CASE Internal(n)
    BY <1>2, <2>1, JoinStep, QuickStep, StabilizeStep, TimerStep DEF Internal
  <2>2. CASE Acknowledged(n)
    BY <1>2, <2>2, JoinStep, StabilizeStep, AltStep, ReviveStep, TimerStep DEF Acknowledged
  <2>3. CASE TimedOut(n)
    BY <1>2, <2>3, JoinStep, QuickStep, StabilizeStep, FallbackStep, AltStep, ReviveStep, TimerStep
    DEF TimedOut
  <2>4. CASE \E a \in Peers : AnswerWith(n, a)
    BY <1>2, <2>4, JoinAnswerStep, QuickStep, StabilizeStep, FallbackStep, ReviveStep DEF AnswerWith
  <2> QED
    BY <1>2, <2>1, <2>2, <2>3, <2>4, JoinStep, StopStep, StabilizeStep, NotifyStep, PluginStep
    DEF NodeStep
<1>3. ASSUME NEW n \in Nodes, NodeStep(n), raced[n]
      PROVE  Kept
  <2>1. CASE Internal(n)
    BY <1>3, <2>1, RacedJoin, RacedStabilize, RacedRest DEF Internal
  <2>2. CASE Acknowledged(n)
    BY <1>3, <2>2, RacedJoin, RacedStabilize, RacedRest DEF Acknowledged
  <2>3. CASE TimedOut(n)
    BY <1>3, <2>3, RacedJoin, RacedStabilize, RacedRest DEF TimedOut
  <2>4. CASE \E a \in Peers : AnswerWith(n, a)
    BY <1>3, <2>4, RacedJoin, RacedStabilize, RacedRest DEF AnswerWith
  <2> QED
    BY <1>3, <2>1, <2>2, <2>3, <2>4, RacedJoin, RacedStabilize, RacedRest, StopStep, PluginStep
    DEF NodeStep
<1> QED
  BY <1>1, <1>2, <1>3 DEF NodeNext

LEMMA Invariance == NodeSpec => []Inv
<1>1. Inv /\ [NodeNext]_nodeVars => Inv'
  BY Step DEF Kept
<1> QED
  BY Initial, <1>1, PTL DEF NodeSpec

\* The types of the tables and of the operations of the main thread.
THEOREM TypeCorrect == NodeSpec => []TypeOK
<1>1. Inv => TypeOK
  BY DEF Inv
<1> QED
  BY <1>1, Invariance, PTL

\* removeSuccessor never leaves a node without a successor, after which tick
\* would do no maintenance any more.
THEOREM NeverWithoutSuccessor == NodeSpec => []SuccessorNeverNull
<1>1. Inv => SuccessorNeverNull
  BY DEF Inv, Good, SuccessorNeverNull
<1> QED
  BY <1>1, Invariance, PTL

\* setSuccessor, removeSuccessor, removeFromBackups and addBackupSuccessor, in
\* any order and with handlers in between, keep the list free of holes, of
\* repetitions, of the node itself and of its successor, until two threads
\* overlap on the table.
THEOREM CleanBackups == NodeSpec => []BackupsClean
<1>1. Inv => BackupsClean
  BY DEF Inv, Good, Clean, BackupsClean
<1> QED
  BY <1>1, Invariance, PTL

\* notifyCandidate is the only way to a predecessor, and it is never the node.
THEOREM OtherPredecessor == NodeSpec => []NotOwnPredecessor
<1>1. Inv => NotOwnPredecessor
  BY DEF Inv, Good, NotOwnPredecessor
<1> QED
  BY <1>1, Invariance, PTL

\* stabilize and revive act on the successor they have read before the wait:
\* it is still the successor, so that they only ever move it closer.
THEOREM CloserSuccessor == NodeSpec => SuccessorOnlyCloser
<1>1. Kept => \A n \in Nodes : ~raced[n] /\ ~raced'[n] => Closer(n, tab'[n])
  BY DEF Kept, Allowed
<1>2. Inv /\ [NodeNext]_nodeVars =>
        [\A n \in Nodes :
           /\ ~raced[n] /\ ~raced'[n] /\ op[n].pc \in {"getPred", "revive"}
           /\ tab'[n].succ # NoAddr /\ tab'[n].succ.id # n
           => distance(n, tab'[n].succ.id) <= distance(n, tab[n].succ.id)]_nodeVars
  BY <1>1, Step DEF Closer
<1> QED
  BY <1>2, Invariance, PTL DEF NodeSpec, SuccessorOnlyCloser

\* A known predecessor is replaced by a closer one only, whichever thread
\* handles the notify, until two handlers overlap.
THEOREM CloserPredecessor == NodeSpec => PredecessorOnlyCloser
<1>1. Kept => \A n \in Nodes : ~raced[n] /\ ~raced'[n] => PredCloser(n, tab'[n])
  BY DEF Kept, Allowed
<1>2. Inv /\ [NodeNext]_nodeVars =>
        [\A n \in Nodes :
           ~raced[n] /\ ~raced'[n] /\ tab[n].pred # NoAddr /\ tab'[n].pred # NoAddr /\ tab'[n].pred.id # tab[n].pred.id
           => distance(tab'[n].pred.id, n) < distance(tab[n].pred.id, n)]_nodeVars
  BY <1>1, Step DEF PredCloser
<1> QED
  BY <1>2, Invariance, PTL DEF NodeSpec, PredecessorOnlyCloser

\* The search for an alternative takes the dead node out of the whole list,
\* unless a handler on a plugin's thread overlaps with it.
THEOREM DeadForgotten == NodeSpec => DeadSuccessorDropped
<1>1. Kept => \A n \in Nodes : ~raced[n] /\ ~raced'[n] => Forgets(n, tab'[n])
  BY DEF Kept, Allowed
<1>2. Inv /\ [NodeNext]_nodeVars =>
        [\A n \in Nodes :
           /\ ~raced[n] /\ ~raced'[n] /\ op[n].pc \in {"alt", "altPred"}
           /\ ~Holds(tab'[n].succ, tab[n].succ.id)
           => op[n].base.id \notin Known(tab'[n])]_nodeVars
  BY <1>1, Step DEF Forgets
<1> QED
  BY <1>2, Invariance, PTL DEF NodeSpec, DeadSuccessorDropped

-----------------------------------------------------------------------------
(* locateKey on a ring whose successors are right.                         *)

Members == members # {} /\ members \subseteq NodeId

\* How far the key is ahead of a node; for the key's own node a full circle.
Ahead(n) == IF n = key THEN RingSize ELSE distance(n, key)

\* Without an answer of another lookup the query never goes back: a handler
\* is no farther from the key than the node that was asked.
LookupInv ==
  /\ LookupTypeOK
  /\ ~foreign => Ahead(handler) <= Ahead(current.id)
  /\ FindsTheOwner

-----------------------------------------------------------------------------
(* The ring.                                                               *)

LEMMA Least ==
  ASSUME NEW T \in SUBSET Nat, T # {}
  PROVE  \E x \in T : \A y \in T : x <= y
<1>1. PICK x \in T : \A y \in T : <<y, x>> \notin OpToRel(<, Nat)
  BY NatLessThanWellFounded, WFMin
<1>2. \A y \in T : ~(y < x)
  BY <1>1 DEF OpToRel
<1>. QED  BY <1>2

LEMMA DistanceIs ==
  ASSUME NEW a \in NodeId, NEW b \in NodeId
  PROVE  /\ distance(a, b) \in 0 .. RingSize - 1
         /\ \A c \in NodeId : distance(a, b) = distance(a, c) => b = c
BY RingAssumption DEF distance, NodeId

\* Of several members, one is the first at or after an identifier.
LEMMA OwnerIs ==
  ASSUME Members, NEW id \in NodeId
  PROVE  /\ Owner(id) \in members
         /\ \A m \in members : distance(id, Owner(id)) <= distance(id, m)
         /\ \A n \in members : (\A m \in members : distance(id, n) <= distance(id, m)) => n = Owner(id)
<1>. DEFINE T == {distance(id, m) : m \in members}
<1>1. \A m \in members : distance(id, m) \in Nat
  BY DistanceIs, RingAssumption DEF Members
<1>2. PICK d \in T : \A e \in T : d <= e
  <2>1. T \in SUBSET Nat /\ T # {}
    BY <1>1 DEF Members
  <2>. QED  BY <2>1, Least
<1>3. \E n \in members : \A m \in members : distance(id, n) <= distance(id, m)
  BY <1>2
<1>4. Owner(id) \in members /\ \A m \in members : distance(id, Owner(id)) <= distance(id, m)
  BY <1>3 DEF Owner
<1>5. ASSUME NEW n \in members, \A m \in members : distance(id, n) <= distance(id, m)
      PROVE  n = Owner(id)
  <2>1. distance(id, n) <= distance(id, Owner(id)) /\ distance(id, Owner(id)) <= distance(id, n)
    BY <1>4, <1>5
  <2>2. distance(id, n) = distance(id, Owner(id))
    BY <1>1, <1>4, <2>1
  <2>. QED  BY <1>4, <2>2, DistanceIs DEF Members
<1>. QED  BY <1>4, <1>5

\* The successor of a member is the next one on the ring, or the member
\* itself if it is the only one.
LEMMA SuccessorIs ==
  ASSUME Members, NEW n \in members
  PROVE  LET s == Owner((n + 1) % RingSize)
         IN  /\ s \in members
             /\ \A m \in members : m # n => s # n /\ distance(n, s) <= distance(n, m)
<1>. DEFINE q == (n + 1) % RingSize
            s == Owner(q)
<1>1. n \in 0 .. RingSize - 1 /\ RingSize \in Nat \ {0}
  BY RingAssumption DEF Members, NodeId
<1>2. q = IF n + 1 = RingSize THEN 0 ELSE n + 1
  BY <1>1
<1>3. q \in NodeId
  BY <1>1, <1>2 DEF NodeId
<1>. HIDE DEF q
<1>4. s \in members /\ \A m \in members : distance(q, s) <= distance(q, m)
  BY <1>3, OwnerIs
<1>5. ASSUME NEW m \in members, m # n
      PROVE  s # n /\ distance(n, s) <= distance(n, m)
  <2>1. /\ m \in 0 .. RingSize - 1 /\ s \in 0 .. RingSize - 1
        /\ distance(q, s) <= distance(q, m)
    BY <1>4 DEF Members, NodeId
  <2>2. s # n
    BY <1>1, <1>2, <1>5, <2>1 DEF distance
  <2>. QED  BY <1>1, <1>2, <1>5, <2>1, <2>2 DEF distance
<1>. QED  BY <1>4, <1>5 DEF q

LEMMA AddressIs ==
  ASSUME NEW m \in NodeId
  PROVE  SelfAddr(m) \in NodeAddr /\ SelfAddr(m).id = m /\ SelfAddr(m) # NoAddr
<1>1. \A b \in BOOLEAN : [id |-> m, tcp |-> b] \in NodeAddr
  BY DEF NodeAddr
<1>2. SelfAddr(m) \in NodeAddr
  <2>1. (m \in ExtTcp) \in BOOLEAN
    OBVIOUS
  <2>. QED  BY <1>1, <2>1, Zenon DEF SelfAddr
<1>3. SelfAddr(m).id = m
  BY DEF SelfAddr
<1>. QED  BY <1>2, <1>3, RoutingAssumption DEF NodeAddr

\* The successor in a table of a member, and what its fingers hold.
LEMMA TableIs ==
  ASSUME NEW n, NEW t \in TablesOf(n)
  PROVE  /\ t.succ = Successor(n)
         /\ \A i \in FingerIdx : t.fingers[i] \in Addrs \cup {NoAddr}
BY DEF TablesOf, InitTable

LEMMA AddrsAre ==
  ASSUME NEW a \in Addrs
  PROVE  a.id \in Universe /\ a.id \in NodeId /\ a # NoAddr
BY AddressIs, UniverseAssumption DEF Addrs

-----------------------------------------------------------------------------
(* The estimate of a member.                                               *)

\* A key that lies before the successor is owned by it.
LEMMA DirectOwner ==
  ASSUME Members, key \in NodeId, NEW n \in members,
         between(key, n, Owner((n + 1) % RingSize))
  PROVE  Owner((n + 1) % RingSize) = Owner(key)
<1>. DEFINE s == Owner((n + 1) % RingSize)
<1>1. s \in members /\ \A m \in members : m # n => s # n /\ distance(n, s) <= distance(n, m)
  BY SuccessorIs
<1>2. between(key, n, s)
  OBVIOUS
<1>. HIDE DEF s
<1>3. ASSUME NEW m \in members PROVE distance(key, s) <= distance(key, m)
  <2>1. /\ n \in 0 .. RingSize - 1 /\ m \in 0 .. RingSize - 1 /\ s \in 0 .. RingSize - 1
        /\ key \in 0 .. RingSize - 1 /\ RingSize \in Nat
    BY <1>1, RingAssumption DEF Members, NodeId
  <2>2. m # n => s # n /\ distance(n, s) <= distance(n, m)
    BY <1>1
  <2>3. CASE m = n
    BY <1>2, <2>1, <2>3 DEF distance, between
  <2>4. CASE m # n
    BY <1>2, <2>1, <2>2, <2>4 DEF distance, between
  <2>. QED  BY <2>3, <2>4
<1>4. s = Owner(key)
  BY <1>1, <1>3, OwnerIs
<1>. QED  BY <1>4 DEF s

\* A node that lies between another one and the key is closer to the key.
LEMMA PrecedingIsCloser ==
  ASSUME NEW f \in NodeId, NEW n \in NodeId, key \in NodeId,
         f # n, betweenLeftInclusive(f, n, key)
  PROVE  Ahead(f) < Ahead(n)
BY RingAssumption DEF betweenLeftInclusive, Ahead, distance, NodeId

LEMMA OtherIsCloser ==
  ASSUME NEW s \in NodeId, NEW n \in NodeId, key \in NodeId,
         s # n, ~between(key, n, s)
  PROVE  Ahead(s) < Ahead(n)
BY RingAssumption DEF between, Ahead, distance, NodeId

\* An estimate is the owner of the key, or a node closer to it.
LEMMA EstimateIs ==
  ASSUME Members, members \subseteq Universe, key \in NodeId,
         NEW n \in members, NEW e \in Estimates(n)
  PROVE  /\ e \in Addrs
         /\ e.id = Owner(key) \/ Ahead(e.id) < Ahead(n)
         /\ ~CanDirect(n, key) /\ e.id # n => Ahead(e.id) < Ahead(n)
<1>. DEFINE s == Owner((n + 1) % RingSize)
<1>1. /\ s \in members /\ \A m \in members : m # n => s # n
      /\ n \in NodeId /\ s \in NodeId
  BY SuccessorIs DEF Members
<1>2. PICK t \in TablesOf(n) : e = findSuccessor(n, t, key)
  BY DEF Estimates
<1>3. /\ t.succ = SelfAddr(s) /\ t.succ.id = s /\ t.succ \in Addrs /\ t.succ # NoAddr
      /\ Successor(n).id = s
  <2>1. t.succ = SelfAddr(s) /\ Successor(n) = SelfAddr(s)
    BY TableIs DEF Successor
  <2>2. SelfAddr(s).id = s /\ SelfAddr(s) # NoAddr
    BY <1>1, AddressIs
  <2>3. SelfAddr(s) \in Addrs
    BY <1>1 DEF Addrs
  <2>. QED  BY <2>1, <2>2, <2>3
<1>4. CanDirect(n, key) <=> s # n /\ between(key, n, s)
  BY <1>3 DEF CanDirect
<1>5. between(key, n, s) => s = Owner(key)
  BY DirectOwner
<1>6. e = IF between(key, n, s) THEN t.succ ELSE closestPrecedingNode(n, t, key)
  BY <1>2, <1>3 DEF findSuccessor
<1>. HIDE DEF s
<1>7. CASE between(key, n, s)
  BY <1>1, <1>3, <1>4, <1>5, <1>6, <1>7
<1>8. CASE ~between(key, n, s)
  <2>1. CASE \E i \in FingerIdx : LastPreceding(n, t, key, i)
    <3>1. PICK i \in FingerIdx : LastPreceding(n, t, key, i) /\ closestPrecedingNode(n, t, key) = t.fingers[i]
      BY <2>1 DEF closestPrecedingNode
    <3>2. t.fingers[i] # NoAddr /\ t.fingers[i].id # n /\ betweenLeftInclusive(t.fingers[i].id, n, key)
      BY <3>1 DEF LastPreceding, Precedes
    <3>3. t.fingers[i] \in Addrs /\ t.fingers[i].id \in NodeId
      BY <3>2, TableIs, AddrsAre
    <3>4. Ahead(t.fingers[i].id) < Ahead(n)
      BY <1>1, <3>2, <3>3, PrecedingIsCloser
    <3>. QED  BY <1>6, <1>8, <3>1, <3>3, <3>4
  <2>2. CASE ~\E i \in FingerIdx : LastPreceding(n, t, key, i)
    <3>1. e = t.succ
      BY <1>6, <1>8, <2>2 DEF closestPrecedingNode
    <3>2. CASE s = n
      <4>1. \A m \in members : m = n
        BY <1>1, <3>2
      <4>2. Owner(key) = n
        BY <4>1, OwnerIs
      <4>. QED  BY <1>1, <1>3, <3>1, <3>2, <4>2
    <3>3. CASE s # n
      <4>1. Ahead(s) < Ahead(n)
        BY <1>1, <1>8, <3>3, OtherIsCloser
      <4>. QED  BY <1>1, <1>3, <3>1, <4>1
    <3>. QED  BY <3>2, <3>3
  <2>. QED  BY <2>1, <2>2
<1>. QED  BY <1>7, <1>8

\* No closer node is taken for the one at the end of the search.
LEMMA CloserIsNoAnswer ==
  ASSUME NEW a \in NodeId, NEW c \in NodeId, key \in NodeId, Ahead(a) < Ahead(c)
  PROVE  a # c /\ ~between(key, c, a)
<1>1. a # c
  BY RingAssumption DEF Ahead, distance, NodeId
<1>2. ~between(key, c, a)
  BY <1>1, RingAssumption DEF Ahead, between, distance, NodeId
<1>. QED  BY <1>1, <1>2

-----------------------------------------------------------------------------
(* The search.                                                             *)

LEMMA LookupParts ==
  ASSUME LookupTypeOK
  PROVE  /\ Members /\ members \subseteq Universe /\ handler \in NodeId
         /\ current \in Addrs /\ current.id \in NodeId
         /\ key \in NodeId /\ asker \in members /\ hops \in 0 .. MaxHops /\ MaxHops \in Nat
BY UniverseAssumption, AddrsAre DEF LookupTypeOK, Members

LEMMA AheadIsNat ==
  ASSUME NEW n \in NodeId, key \in NodeId
  PROVE  Ahead(n) \in Nat
BY RingAssumption DEF Ahead, distance, NodeId

LEMMA LookupInitial == LookupInit => LookupInv
<1>. SUFFICES ASSUME LookupInit PROVE LookupInv
  OBVIOUS
<1>1. Members /\ key \in NodeId /\ asker \in members /\ members \subseteq Universe
  BY UniverseAssumption DEF LookupInit, Members
<1>2. current \in Addrs /\ current.id \in Universe /\ current.id \in NodeId /\ handler = current.id
  BY <1>1, EstimateIs, AddrsAre DEF LookupInit
<1>3. LookupTypeOK
  <2>1. /\ hops = 0 /\ done = "no" /\ foreign = FALSE /\ answer = NoAddr
        /\ members # {} /\ handler \in Universe
    BY <1>2 DEF LookupInit
  <2>2. hops \in 0 .. MaxHops
    BY <2>1, UniverseAssumption
  <2>. QED  BY <1>1, <1>2, <2>1, <2>2 DEF LookupTypeOK
<1>4. Ahead(handler) <= Ahead(current.id)
  BY <1>1, <1>2, AheadIsNat
<1>5. FindsTheOwner
  BY DEF LookupInit, FindsTheOwner
<1>. QED  BY <1>3, <1>4, <1>5 DEF LookupInv

LEMMA ForwardStep ==
  ASSUME LookupInv, Forward
  PROVE  LookupInv'
<1>1. /\ Members /\ members \subseteq Universe /\ key \in NodeId /\ current.id \in NodeId
      /\ LookupTypeOK /\ (~foreign => Ahead(handler) <= Ahead(current.id))
  BY LookupParts DEF LookupInv
<1>2. /\ handler \in members /\ ~CanDirect(handler, key)
      /\ UNCHANGED <<members, key, asker, current, answer, hops, done, foreign>>
  BY DEF Forward
<1>3. PICK e \in Estimates(handler) : e.id # handler /\ handler' = e.id
  BY DEF Forward
<1>4. handler' \in Universe /\ handler' \in NodeId /\ Ahead(handler') < Ahead(handler)
  BY <1>1, <1>2, <1>3, EstimateIs, AddrsAre
<1>5. LookupTypeOK'
  BY <1>1, <1>2, <1>4 DEF LookupTypeOK, Addrs
<1>6. ~foreign => Ahead(handler') <= Ahead(current.id)
  <2>1. Ahead(handler') \in Nat /\ Ahead(handler) \in Nat /\ Ahead(current.id) \in Nat
    BY <1>1, <1>2, <1>4, AheadIsNat DEF Members
  <2>. QED  BY <1>1, <1>4, <2>1
<1>7. (~foreign => Ahead(handler) <= Ahead(current.id))'
  BY <1>2, <1>6 DEF Ahead
<1>8. FindsTheOwner'
  BY <1>2 DEF LookupInv, FindsTheOwner, Owner
<1>. QED  BY <1>5, <1>7, <1>8 DEF LookupInv

\* Whatever answer is taken, the lookup keeps its types, and a new node that
\* is asked is its own handler.
LEMMA TakesStep ==
  ASSUME LookupTypeOK, NEW a \in Addrs, Takes(a), foreign' \in BOOLEAN
  PROVE  /\ LookupTypeOK'
         /\ UNCHANGED <<members, key>>
         /\ answer' = a /\ done' \in {"no", "found"}
         /\ done' = "found" => Authoritative(current, a)
         /\ \/ UNCHANGED <<current, handler>>
            \/ Ahead(handler)' <= Ahead(current.id)'
<1>1. /\ key \in NodeId /\ hops \in Nat /\ MaxHops \in Nat /\ hops <= MaxHops
      /\ a.id \in Universe /\ a.id \in NodeId
  BY LookupParts, AddrsAre
<1>2. /\ done = "no" /\ hops < MaxHops /\ answer' = a
      /\ UNCHANGED <<members, key, asker>>
      /\ \/ Authoritative(current, a) /\ done' = "found" /\ UNCHANGED <<current, handler, hops>>
         \/ /\ ~Authoritative(current, a) /\ current' = a /\ handler' = a.id
            /\ hops' = hops + 1 /\ done' = done
  BY DEF Takes
<1>3. LookupTypeOK'
  BY <1>1, <1>2 DEF LookupTypeOK, Addrs
<1>4. Ahead(a.id) <= Ahead(a.id)
  BY <1>1, AheadIsNat
<1>5. \/ UNCHANGED <<current, handler>>
      \/ Ahead(handler)' <= Ahead(current.id)'
  BY <1>2, <1>4 DEF Ahead
<1>. QED  BY <1>2, <1>3, <1>5

LEMMA HopStep ==
  ASSUME LookupInv, Hop
  PROVE  LookupInv'
<1>1. /\ Members /\ members \subseteq Universe /\ key \in NodeId /\ current.id \in NodeId
      /\ LookupTypeOK /\ foreign \in BOOLEAN /\ (~foreign => Ahead(handler) <= Ahead(current.id))
  BY LookupParts DEF LookupInv, LookupTypeOK
<1>2. PICK a \in Estimates(handler) : Takes(a)
  BY DEF Hop
<1>3. handler \in members /\ foreign' = foreign
  BY DEF Hop
<1>4. a \in Addrs /\ a.id \in NodeId /\ (a.id = Owner(key) \/ Ahead(a.id) < Ahead(handler))
  BY <1>1, <1>3, EstimateIs, AddrsAre
<1>5. /\ LookupTypeOK' /\ UNCHANGED <<members, key>>
      /\ answer' = a /\ (done' = "found" => Authoritative(current, a))
      /\ UNCHANGED <<current, handler>> \/ Ahead(handler)' <= Ahead(current.id)'
  BY <1>1, <1>2, <1>3, <1>4, TakesStep
<1>6. (~foreign => Ahead(handler) <= Ahead(current.id))'
  BY <1>1, <1>3, <1>5 DEF Ahead
<1>7. ~foreign /\ Authoritative(current, a) => a.id = Owner(key)
  <2>. SUFFICES ASSUME ~foreign, Ahead(a.id) < Ahead(handler) PROVE ~Authoritative(current, a)
    BY <1>4
  <2>1. Ahead(a.id) \in Nat /\ Ahead(handler) \in Nat /\ Ahead(current.id) \in Nat
    BY <1>1, <1>3, <1>4, AheadIsNat DEF Members
  <2>2. Ahead(a.id) < Ahead(current.id)
    BY <1>1, <2>1
  <2>. QED  BY <1>1, <1>4, <2>2, CloserIsNoAnswer DEF Authoritative
<1>8. FindsTheOwner'
  BY <1>3, <1>5, <1>7 DEF FindsTheOwner, Owner
<1>. QED  BY <1>5, <1>6, <1>8 DEF LookupInv

LEMMA LookupInductive == LookupInv /\ [LookupNext]_lookupVars => LookupInv'
<1>. SUFFICES ASSUME LookupInv, [LookupNext]_lookupVars PROVE LookupInv'
  OBVIOUS
<1>1. CASE Forward
  BY <1>1, ForwardStep
<1>2. CASE Hop
  BY <1>2, HopStep
<1>3. CASE ForeignHop
  <2>1. PICK a \in Addrs : Takes(a)
    BY <1>3 DEF ForeignHop
  <2>2. foreign' = TRUE
    BY <1>3 DEF ForeignHop
  <2>3. LookupTypeOK'
    BY <2>1, <2>2, TakesStep DEF LookupInv
  <2>. QED  BY <2>2, <2>3 DEF LookupInv, FindsTheOwner
<1>4. CASE GiveUp \/ LookupTimesOut \/ UNCHANGED lookupVars
  <2>1. /\ UNCHANGED <<members, key, asker, current, handler, answer, hops, foreign>>
        /\ done' \in {done, "TooManyHops", "Timeout"}
    BY <1>4 DEF GiveUp, LookupTimesOut, lookupVars
  <2>2. LookupTypeOK' /\ FindsTheOwner'
    BY <2>1 DEF LookupInv, LookupTypeOK, FindsTheOwner, Owner, Addrs
  <2>3. (~foreign => Ahead(handler) <= Ahead(current.id))'
    BY <2>1 DEF LookupInv, Ahead
  <2>. QED  BY <2>2, <2>3 DEF LookupInv
<1>. QED  BY <1>1, <1>2, <1>3, <1>4 DEF LookupNext

LEMMA LookupInvariance == LookupSpec => []LookupInv
BY LookupInitial, LookupInductive, PTL DEF LookupSpec

\* The state of a lookup keeps its types: every node that is asked or
\* forwarded to is one that some table may name.
THEOREM LookupTypes == LookupSpec => []LookupTypeOK
<1>1. LookupInv => LookupTypeOK
  BY DEF LookupInv
<1>. QED  BY <1>1, LookupInvariance, PTL

\* On a ring of any size, whatever the fingers hold, whichever forwards fail
\* and whichever nodes have left, locateKey believes only the owner of the
\* key, until a wait takes an answer of another lookup.
THEOREM OwnerFound == LookupSpec => []FindsTheOwner
<1>1. LookupInv => FindsTheOwner
  BY DEF LookupInv
<1>. QED  BY <1>1, LookupInvariance, PTL

-----------------------------------------------------------------------------
(* The plugin runtime                                                      *)

\* The launch has not yet handed the bytecode and the work to a worker.
BeforeSpawn == {"none", "putting", "prepare", "create", "spawn"}

(* Who owns what: the launcher until the spawn, then the worker, then (at  *)
(* startup) the thread that joins it.                                      *)
Ownership ==
  \A h \in Handles :
    /\ launcher[h] \in BeforeSpawn \cup {"earlyError", "spawnFailed"} =>
         bytesFrees[h] = 0 /\ workFrees[h] = 0
    /\ launcher[h] = "catch" => bytesFrees[h] \in 0..1
    /\ launcher[h] \in {"waiting", "grace"} => h \in StartupHandles /\ workFrees[h] = 0
    /\ launcher[h] \notin {"waiting", "grace", "returned"} => worker[h] = "none"
    /\ worker[h] \in UsesControl \cup {"report", "cleanup"} =>
         bytesFrees[h] = 0 /\ workFrees[h] = 0
    /\ worker[h] # "none" => bytesFrees[h] \in 0..1 /\ workFrees[h] \in 0..1

(* What the registry says while the launch goes on: no record, then an     *)
(* active one.                                                             *)
Registration ==
  /\ \A h \in Handles :
       /\ launcher[h] \in {"none", "putting"} => rec[h] = "none"
       /\ launcher[h] \in {"prepare", "create", "spawn"} => rec[h] \notin TerminalState
       /\ worker[h] = "report" => ret[h] \in TerminalState
  /\ ctPc # "idle" => ctArg \in Handles

(* Until deinit: a record has a control block; a worker that has not yet   *)
(* reported has an active record; unload works on the record of a plugin   *)
(* that neither runs nor will.                                             *)
ControlLife ==
  /\ \A h \in Handles :
       /\ rec[h] # "none" => ctl[h] = "live"
       /\ launcher[h] = "putting" => ctl[h] = "live"
       /\ launcher[h] \in {"prepare", "create", "spawn"} => rec[h] \in ActiveState
       /\ worker[h] \in UsesControl \cup {"report"} => rec[h] \in ActiveState
  /\ ctPc = "unloadRemove" => rec[ctArg] \in TerminalState
  /\ ctPc = "unloadFree" =>
       /\ rec[ctArg] = "none"
       /\ worker[ctArg] \notin UsesControl \cup {"report"}
       /\ launcher[ctArg] \notin BeforeSpawn

IInv == PluginTypeOK /\ Ownership /\ Registration /\ (phase # "stopped" => ControlLife)

-----------------------------------------------------------------------------
LEMMA InitIInv == Init => IInv
  BY HandlesAssumption
  DEF Init, IInv, PluginTypeOK, Ownership, Registration, ControlLife, BeforeSpawn, RecState, ActiveState,
      TerminalState, Signal, LauncherPc, WorkerPc, UsesControl, InCall, CtPc

(* One step per action.                                                    *)
LEMMA NextIInv == IInv /\ [Next]_vars => IInv'
<1>. SUFFICES ASSUME IInv, [Next]_vars PROVE IInv'
  OBVIOUS
<1>. USE HandlesAssumption
     DEF IInv, PluginTypeOK, Ownership, Registration, ControlLife, BeforeSpawn, RecState, ActiveState,
         TerminalState, Signal, StopSignal, LauncherPc, WorkerPc, UsesControl, InCall, CtPc,
         IsStartup, MutexFree, regVars, memVars, ctVars, wdVars
<1>1. ASSUME NEW h \in Handles, StartupLaunch(h) PROVE IInv'
  BY <1>1 DEF StartupLaunch, RegisterBegin
<1>2. ASSUME NEW h \in Handles, RegisterOk(h) PROVE IInv'
  BY <1>2 DEF RegisterOk
<1>3. ASSUME NEW h \in Handles, RegisterFail(h) PROVE IInv'
  BY <1>3 DEF RegisterFail
<1>4. ASSUME NEW h \in Handles, PrepareOk(h) PROVE IInv'
  BY <1>4 DEF PrepareOk
<1>5. ASSUME NEW h \in Handles, PrepareFail(h) PROVE IInv'
  BY <1>5 DEF PrepareFail, SetRecord
<1>6. ASSUME NEW h \in Handles, CreateWorkOk(h) PROVE IInv'
  BY <1>6 DEF CreateWorkOk
<1>7. ASSUME NEW h \in Handles, CreateWorkFail(h) PROVE IInv'
  BY <1>7 DEF CreateWorkFail
<1>8. ASSUME NEW h \in Handles, SpawnOk(h) PROVE IInv'
  BY <1>8 DEF SpawnOk, EndLaunch
<1>9. ASSUME NEW h \in Handles, SpawnFail(h) PROVE IInv'
  BY <1>9 DEF SpawnFail, SetRecord
<1>10. ASSUME NEW h \in Handles, SpawnFailFree(h) PROVE IInv'
  BY <1>10 DEF SpawnFailFree
<1>11. ASSUME NEW h \in Handles, EarlyErrorFree(h) PROVE IInv'
  BY <1>11 DEF EarlyErrorFree
<1>12. ASSUME NEW h \in Handles, LaunchOwnedCatch(h) PROVE IInv'
  BY <1>12 DEF LaunchOwnedCatch, EndLaunch
<1>13. ASSUME NEW h \in Handles, JoinWorker(h) PROVE IInv'
  BY <1>13 DEF JoinWorker
<1>14. ASSUME NEW h \in Handles, WaitTimeout(h) PROVE IInv'
  BY <1>14 DEF WaitTimeout, StoreAndWake
<1>15. ASSUME NEW h \in Handles, DetachWorker(h) PROVE IInv'
  BY <1>15 DEF DetachWorker
<1>16. ASSUME NEW h \in Handles, ControlCheck(h) PROVE IInv'
  BY <1>16 DEF ControlCheck, At
<1>17. ASSUME NEW h \in Handles, ControlCheckLocked(h) PROVE IInv'
  BY <1>17 DEF ControlCheckLocked, At
<1>18. ASSUME NEW h \in Handles, ReadSignal(h) PROVE IInv'
  BY <1>18 DEF ReadSignal, Outcome, At
<1>19. ASSUME NEW h \in Handles, ReportResult(h) PROVE IInv'
  BY <1>19 DEF ReportResult, SetRecord, At
<1>20. ASSUME NEW h \in Handles, ReleaseAll(h) PROVE IInv'
  BY <1>20 DEF ReleaseAll, At
<1>21. ASSUME NEW h \in Handles, StoreDone(h) PROVE IInv'
  BY <1>21 DEF StoreDone, At
<1>22. ASSUME NEW h \in Handles, CallReturns(h) PROVE IInv'
  BY <1>22 DEF CallReturns, At
<1>48. ASSUME NEW h \in Handles, HostCall(h) PROVE IInv'
  BY <1>48 DEF HostCall, At
<1>49. ASSUME NEW h \in Handles, HostReturns(h) PROVE IInv'
  BY <1>49 DEF HostReturns, At
<1>23. ASSUME NEW h \in Handles, Cancel(h) PROVE IInv'
  BY <1>23 DEF Cancel, CtCheck, GoTo
<1>24. ASSUME NEW h \in Handles, Pause(h) PROVE IInv'
  BY <1>24 DEF Pause, CtCheck, GoTo
<1>25. ASSUME NEW h \in Handles, Resume(h) PROVE IInv'
  BY <1>25 DEF Resume, CtCheck, GoTo
<1>26. ASSUME NEW h \in Handles, Unload(h) PROVE IInv'
  BY <1>26 DEF Unload, CtCheck, GoTo
<1>27. ASSUME NEW h \in Handles, Update(h) PROVE IInv'
  BY <1>27 DEF Update, CtCheck, GoTo
<1>28. ASSUME NEW h \in Handles, DynamicLaunch(h) PROVE IInv'
  BY <1>28 DEF DynamicLaunch, RegisterBegin
<1>29. ASSUME NEW h \in Handles, Expire(h) PROVE IInv'
  BY <1>29 DEF Expire
<1>30. ASSUME NEW h \in Handles, WdLookup(h) PROVE IInv'
  BY <1>30 DEF WdLookup
<1>31. CASE CancelSignal
  BY <1>31 DEF CancelSignal, StoreAndWake, GoTo, Finish
<1>32. CASE UpdateWaitDone
  BY <1>32 DEF UpdateWaitDone, GoTo, Finish
<1>33. CASE UpdateAbort
  BY <1>33 DEF UpdateAbort, GoTo, Finish
<1>34. CASE PauseSignal
  BY <1>34 DEF PauseSignal, requestPause, GoTo, Finish
<1>35. CASE PauseState
  BY <1>35 DEF PauseState, SetRecord, GoTo, Finish
<1>36. CASE ResumeSignal
  BY <1>36 DEF ResumeSignal, StoreAndWake, GoTo, Finish
<1>37. CASE ResumeState
  BY <1>37 DEF ResumeState, SetRecord, GoTo, Finish
<1>38. CASE UnloadRemove
  BY <1>38 DEF UnloadRemove, GoTo, Finish
<1>39. CASE UnloadFree
  BY <1>39 DEF UnloadFree, GoTo, Finish
<1>40. CASE WdScan
  BY <1>40 DEF WdScan
<1>41. CASE WdSignal
  BY <1>41 DEF WdSignal, StoreAndWake
<1>42. CASE WdExit
  BY <1>42 DEF WdExit
<1>43. CASE StartupDone
  BY <1>43 DEF StartupDone
<1>44. CASE DeinitStop
  BY <1>44 DEF DeinitStop
<1>45. CASE DeinitFree
  BY <1>45 DEF DeinitFree
<1>46. CASE UNCHANGED vars
  BY <1>46 DEF vars
<1>47. QED
  BY <1>1, <1>2, <1>3, <1>4, <1>5, <1>6, <1>7, <1>8, <1>9, <1>10, <1>11, <1>12, <1>13, <1>14, <1>15, <1>16, <1>17, <1>18, <1>19, <1>20, <1>21, <1>22, <1>23, <1>24,
     <1>25, <1>26, <1>27, <1>28, <1>29, <1>30, <1>31, <1>32, <1>33, <1>34, <1>35, <1>36, <1>37, <1>38, <1>39, <1>40, <1>41, <1>42, <1>43, <1>44, <1>45, <1>46, <1>48, <1>49
  DEF Next, LauncherStep, WorkerStep, WorkerProgress, CtRequest, CtStep, WdStep

-----------------------------------------------------------------------------
LEMMA SpecIInv == Spec => []IInv
  BY InitIInv, NextIInv, PTL DEF Spec

(* Every variable keeps its type: the program counters of all threads, the *)
(* registry and the release counters.                                      *)
THEOREM PluginTypeCorrect == Spec => []PluginTypeOK
<1>1. IInv => PluginTypeOK
  BY DEF IInv
<1>2. QED
  BY <1>1, SpecIInv, PTL

(* unload, pause, cancel, a failing launch and the watchdog never take the *)
(* control block, the bytecode or the work from a worker that still uses   *)
(* them (main.zig PluginCallWork.run against manager.zig unload).          *)
THEOREM WorkerSafety == Spec => []WorkerHoldsResources
<1>1. IInv => WorkerHoldsResources
  <2>. SUFFICES ASSUME IInv, phase # "stopped", NEW h \in Handles
               PROVE  /\ worker[h] \in UsesControl => rec[h] \in ActiveState /\ ctl[h] = "live"
                      /\ worker[h] \in UsesControl \cup {"report", "cleanup"} =>
                           bytesFrees[h] = 0 /\ workFrees[h] = 0
    BY DEF WorkerHoldsResources
  <2>1. worker[h] \in UsesControl => rec[h] \in ActiveState /\ rec[h] # "none"
    BY DEF IInv, ControlLife, ActiveState
  <2>2. rec[h] # "none" => ctl[h] = "live"
    BY DEF IInv, ControlLife
  <2>3. QED
    BY <2>1, <2>2 DEF IInv, Ownership
<1>2. QED
  BY <1>1, SpecIInv, PTL

(* A plugin that got as far as a worker has its bytecode and its work      *)
(* released at most once (self_free and bytes_owned).                      *)
THEOREM ReleaseSafety == Spec => []ReleasedOnceAfterSpawn
<1>1. IInv => ReleasedOnceAfterSpawn
  BY DEF IInv, Ownership, ReleasedOnceAfterSpawn
<1>2. QED
  BY <1>1, SpecIInv, PTL

(* A recorded outcome is overwritten only by the second critical section   *)
(* of pause and resume, or removed by unload and deinit.                   *)
THEOREM OutcomeStability == Spec => OutcomeOverwrittenOnlyByPauseResume
<1>. DEFINE Keeps == \A h \in Handles :
                      rec[h] \in TerminalState /\ rec'[h] # rec[h] =>
                        \/ rec'[h] = "none"
                        \/ ctPc \in {"pauseState", "resumeState"} /\ ctArg = h
<1>1. IInv /\ [Next]_vars => [Keeps]_vars
  <2>. SUFFICES ASSUME IInv, Next PROVE Keeps
    OBVIOUS
  <2>. USE DEF IInv, PluginTypeOK, Registration, TerminalState
  <2>1. CASE UNCHANGED rec
    BY <2>1
  <2>2. ASSUME NEW h \in Handles, RegisterOk(h) PROVE Keeps
    BY <2>2 DEF RegisterOk
  <2>3. ASSUME NEW h \in Handles, PrepareFail(h) PROVE Keeps
    BY <2>3 DEF PrepareFail, SetRecord
  <2>4. ASSUME NEW h \in Handles, SpawnFail(h) PROVE Keeps
    BY <2>4 DEF SpawnFail, SetRecord
  <2>5. ASSUME NEW h \in Handles, ReportResult(h) PROVE Keeps
    BY <2>5 DEF ReportResult, SetRecord, At, ControlLife, ActiveState
  <2>6. CASE PauseState
    BY <2>6 DEF PauseState, SetRecord
  <2>7. CASE ResumeState
    BY <2>7 DEF ResumeState, SetRecord
  <2>8. CASE UnloadRemove
    BY <2>8 DEF UnloadRemove
  <2>9. CASE DeinitFree
    BY <2>9 DEF DeinitFree
  <2>10. QED
    BY <2>1, <2>2, <2>3, <2>4, <2>5, <2>6, <2>7, <2>8, <2>9
    DEF Next, LauncherStep, WorkerStep, WorkerProgress, CtRequest, CtStep, WdStep,
        StartupLaunch, RegisterFail, PrepareOk, CreateWorkOk, CreateWorkFail, SpawnOk,
        SpawnFailFree, EarlyErrorFree, LaunchOwnedCatch, JoinWorker, WaitTimeout, DetachWorker,
        ControlCheck, ControlCheckLocked, CallReturns, HostCall, HostReturns, ReadSignal, ReleaseAll, StoreDone,
        Cancel, Pause, Resume, Unload, Update, CtCheck, DynamicLaunch, CancelSignal,
        UpdateWaitDone, UpdateAbort, PauseSignal, ResumeSignal, UnloadFree, WdScan, WdLookup,
        WdSignal, WdExit, StartupDone, DeinitStop, Expire
<1>2. QED
  BY <1>1, SpecIInv, PTL DEF Spec, OutcomeOverwrittenOnlyByPauseResume
=============================================================================
