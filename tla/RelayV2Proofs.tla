---------------------------- MODULE RelayV2Proofs ----------------------------
(***************************************************************************)
(* Proofs about RelayV2, for any connections, nodes, descriptors, workers  *)
(* and limits: no loop sleeps over a job, the limiter counts the handlers  *)
(* there are, and until a stray close nothing that was freed is named by a *)
(* loop or a table.                                                        *)
(***************************************************************************)
EXTENDS RelayV2, FiniteSetTheorems, SequenceTheorems, WellFoundedInduction, TLAPS

-----------------------------------------------------------------------------
(* Types.                                                                  *)

MaybeConn == Conns \cup {NoCtx}

Places == {"new", "poll", "pass", "accept", "frames", "writable", "drain", "take", "jobs", "ended"}

JobType == [job : {"register", "cleanup", "write"}, fd : ClientFds, of : MaybeConn]

LoopType ==
  [at : Places, running : BOOLEAN, rebuild : BOOLEAN,
   entries : [Fds -> [ctx : MaybeConn \cup {Acceptor}, out : BOOLEAN]],
   polled : SUBSET [fd : Fds, out : BOOLEAN],
   ready : SUBSET [fd : Fds, hup : BOOLEAN, in : BOOLEAN, out : BOOLEAN],
   woken : BOOLEAN, jobs : Seq(JobType), batch : Seq(JobType), wake : BOOLEAN]

ServerType ==
  [running : BOOLEAN, begun : BOOLEAN, active : Nat, next : WorkerIds, nextReq : Nat,
   handlers : [ClientFds -> MaybeConn], routing : [Nodes -> MaybeConn],
   keys : [Nodes -> MaybeConn], pending : SUBSET [id : Nat, from : Conns, to : Conns],
   table : [ClientFds -> MaybeConn],
   undefined : BOOLEAN, crashed : BOOLEAN, stray : BOOLEAN]

ClientType ==
  [st : {"none", "waiting", "active", "refused", "freed"}, worker : WorkerIds, fd : Fds,
   node : Nodes \cup {NoCtx}, buffered : BOOLEAN]

FrameType ==
  [k : {"reg"}, node : Nodes] \cup [k : {"ping"}] \cup [k : {"req"}, to : Nodes]
    \cup [k : {"resp"}, id : Nat]

WorkType == [ctx : MaybeConn, frames : Seq(FrameType), out : BOOLEAN]

StateType ==
  [loops : [WorkerIds -> LoopType], srv : ServerType, cl : [Conns -> ClientType], hit : BOOLEAN]

PeerType ==
  [Conns -> [st : {"none", "on", "fin", "rst"}, inbox : Seq(FrameType), answered : SUBSET Nat]]

TypeOK ==
  /\ Now(TRUE) \in StateType
  /\ work \in [WorkerIds -> WorkType]
  /\ peer \in PeerType

-----------------------------------------------------------------------------
(* The invariant, of states [loops, srv, cl, hit] and the work wk.         *)

\* The jobs of a loop, those taken first.
Queue(l) == l.batch \o l.jobs

\* Jobs that wait have a byte in the pipe, but for the moment between the
\* reading of the bytes and the taking of the jobs.
LoopOK(l) ==
  /\ l.jobs # <<>> /\ l.at # "take" => l.wake
  /\ l.at = "poll" /\ ~l.running => l.wake
  /\ l.at = "jobs" <=> l.batch # <<>>

\* A worker that does not accept polls nothing but its wakeup pipe.
Deaf(l) ==
  /\ l.polled = {} /\ l.ready = {}
  /\ l.at \notin {"pass", "accept", "frames", "writable"}
  /\ l.at # "new" => ~l.rebuild
  /\ l.at = "new" => \A f \in Fds : l.entries[f] = NoEntry

Was == {"active", "freed"}

ClientsOK(s) ==
  \A c \in Conns :
    /\ s.cl[c].st \in Alive => s.cl[c].fd \in ClientFds
    /\ s.cl[c].st = "active" => s.cl[c].node \in Nodes /\ s.cl[c].worker = 0

EntryOK(s, w, f, c) ==
  c # NoCtx => /\ c \in Conns /\ s.cl[c].st \in Alive \cup {"freed"}
               /\ s.cl[c].st \in Alive => s.cl[c].worker = w /\ s.cl[c].fd = f

EntriesOK(s) ==
  \A w \in WorkerIds, f \in ClientFds : EntryOK(s, w, f, s.loops[w].entries[f].ctx)

ListenerOK(s) ==
  \A w \in WorkerIds : s.loops[w].entries[Listen].ctx \in {NoCtx, Acceptor}

HandlersOK(s) ==
  \A f \in ClientFds :
    LET c == s.srv.handlers[f] IN c # NoCtx => s.cl[c].st \in Alive /\ s.cl[c].fd = f

RoutesOK(s) ==
  /\ \A n \in Nodes :
       /\ s.srv.routing[n] # NoCtx => s.cl[s.srv.routing[n]].st \in Was /\ s.srv.keys[n] # NoCtx
       /\ s.srv.keys[n] # NoCtx => s.cl[s.srv.keys[n]].st \in Was
  /\ \A p \in s.srv.pending : s.cl[p.from].st \in Was /\ s.cl[p.to].st \in Was

\* A client whose registration with a loop waits is known to nobody else.
RegisterOK(s, wk, w, i) ==
  LET q == Queue(s.loops[w])
      c == q[i].of
  IN /\ c \in Conns /\ s.cl[c].st = "waiting" /\ s.cl[c].worker = w /\ s.cl[c].fd = q[i].fd
     /\ \A f \in ClientFds : s.srv.handlers[f] # c
     /\ \A v \in WorkerIds : wk[v].ctx # c /\ \A f \in ClientFds : s.loops[v].entries[f].ctx # c
     /\ \A k \in 1..Len(q) : q[k].job = "register" /\ q[k].of = c => k = i

JobsOK(s, wk) ==
  \A w \in WorkerIds : \A i \in 1..Len(Queue(s.loops[w])) :
    LET j == Queue(s.loops[w])[i]
    IN /\ j.job = "register" => RegisterOK(s, wk, w, i)
       /\ j.job = "cleanup" => w = 0 /\ j.of \in Conns /\ s.cl[j.of].st \in Was

WorkOK(s, wk) ==
  \A w \in WorkerIds :
    LET c == wk[w].ctx
    IN /\ c # NoCtx => /\ s.cl[c].st \in Alive \cup {"freed"}
                       /\ s.cl[c].st \in Alive => s.cl[c].worker = w
       /\ s.loops[w].at \in {"frames", "writable"} => c # NoCtx
       /\ s.loops[w].at = "frames" => wk[w].frames # <<>>

Living(s) == {c \in Conns : s.cl[c].st \in Alive}

CountOK(s) == s.srv.active = Cardinality(Living(s))

\* The number of c is still its own.
Held(s, c) == s.srv.handlers[s.cl[c].fd] = c /\ s.srv.table[s.cl[c].fd] = c

\* Until a stray close: what is in a loop, in the routing map or at work still
\* has its number, and no job will take it away.
TidyEntries(s) ==
  \A w \in WorkerIds, f \in ClientFds :
    LET c == s.loops[w].entries[f].ctx
    IN c # NoCtx => s.cl[c].st \in Alive /\ Held(s, c)

TidyRoutes(s) ==
  \A n \in Nodes :
    LET c == s.srv.routing[n]
    IN c # NoCtx => s.cl[c].st = "active" /\ s.cl[c].node = n /\ Held(s, c)

TidyKeys(s) ==
  \A n \in Nodes : s.srv.keys[n] # NoCtx => s.cl[s.srv.keys[n]].st = "active"

TidyJobs(s) ==
  \A w \in WorkerIds : \A i \in 1..Len(Queue(s.loops[w])) :
    LET j == Queue(s.loops[w])[i]
    IN /\ j.job # "write"
       /\ j.job = "register" => s.srv.table[j.fd] = j.of
       /\ j.job = "cleanup" => \A n \in Nodes : s.srv.routing[n] # j.of

TidyWork(s, wk) ==
  LET c == wk[0].ctx
  IN c # NoCtx /\ s.cl[c].st # "freed" => s.loops[0].entries[s.cl[c].fd].ctx = c

Tidy(s, wk) ==
  /\ TidyEntries(s) /\ TidyRoutes(s) /\ TidyKeys(s) /\ TidyJobs(s) /\ TidyWork(s, wk)

Sound(s, wk) ==
  /\ \A w \in WorkerIds : LoopOK(s.loops[w])
  /\ \A w \in WorkerIds \ {0} : Deaf(s.loops[w]) /\ wk[w] = Idle
  /\ ClientsOK(s) /\ EntriesOK(s) /\ ListenerOK(s) /\ HandlersOK(s) /\ RoutesOK(s)
  /\ JobsOK(s, wk) /\ WorkOK(s, wk) /\ CountOK(s)
  /\ ~s.srv.stray => Tidy(s, wk)

\* A loop works for a client only while it handles its frames.
Attends(s, wk) ==
  \A w \in WorkerIds : s.loops[w].at \notin {"frames", "writable"} => wk[w].ctx = NoCtx

IInv ==
  /\ TypeOK
  /\ IF srv.crashed THEN loops = NewLoops /\ ~srv.running /\ ~srv.begun
                    ELSE Sound(Now(TRUE), work) /\ Attends(Now(TRUE), work)

-----------------------------------------------------------------------------
(* Sequences and loops.                                                    *)

LEMMA Basics ==
  /\ 0 \in WorkerIds /\ Listen \in Fds /\ Listen \notin ClientFds /\ ClientFds \subseteq Fds
  /\ NoCtx \notin Conns /\ Acceptor \notin Conns /\ NoCtx # Acceptor
  /\ IsFiniteSet(Conns) /\ Conns \subseteq Nat
BY RelayV2Assumption DEF WorkerIds, ClientFds

LEMMA Joined ==
  ASSUME NEW S, NEW b \in Seq(S), NEW q \in Seq(S)
  PROVE  /\ b \o q \in Seq(S)
         /\ Len(b \o q) = Len(b) + Len(q)
         /\ \A i \in 1..Len(b) : (b \o q)[i] = b[i]
         /\ \A i \in Len(b) + 1 .. Len(b) + Len(q) : (b \o q)[i] = q[i - Len(b)]
OBVIOUS

LEMMA TailEmpty ==
  ASSUME NEW S, NEW q \in Seq(S), q # <<>>
  PROVE  Tail(q) \in Seq(S) /\ (Tail(q) = <<>> <=> Len(q) = 1) /\ <<>> \in Seq(S)
<1>1. Len(q) \in Nat \ {0} /\ Tail(q) \in Seq(S) /\ Len(Tail(q)) = Len(q) - 1 /\ <<>> \in Seq(S)
  BY EmptySeq, HeadTailProperties
<1>2. Tail(q) # <<>> => Len(Tail(q)) \in Nat \ {0}
  BY <1>1, EmptySeq
<1>3. Tail(q) = <<>> => Len(Tail(q)) = 0
  BY EmptySeq
<1>. QED  BY <1>1, <1>2, <1>3

\* Execute puts a job at the end.
LEMMA QueueAppended ==
  ASSUME NEW l \in LoopType, NEW j \in JobType
  PROVE  LET m == Execute(l, j)
         IN /\ m \in LoopType
            /\ m.entries = l.entries /\ m.at = l.at /\ m.running = l.running /\ m.rebuild = l.rebuild
            /\ m.polled = l.polled /\ m.ready = l.ready /\ m.batch = l.batch /\ m.wake
            /\ Len(Queue(m)) = Len(Queue(l)) + 1 /\ Len(Queue(l)) \in Nat
            /\ Queue(m)[Len(Queue(l)) + 1] = j
            /\ \A i \in 1..Len(Queue(l)) : Queue(m)[i] = Queue(l)[i]
<1>. DEFINE b == l.batch
            q == l.jobs
            p == Append(q, j)
            m == Execute(l, j)
<1>1. b \in Seq(JobType) /\ q \in Seq(JobType)
  BY DEF LoopType
<1>2. p \in Seq(JobType) /\ m = [l EXCEPT !.jobs = p, !.wake = TRUE]
  BY <1>1 DEF Execute, Wakeup, LoopType
<1>3. /\ m \in LoopType /\ m.batch = b /\ m.jobs = p
      /\ m.entries = l.entries /\ m.at = l.at /\ m.running = l.running /\ m.rebuild = l.rebuild
      /\ m.polled = l.polled /\ m.ready = l.ready /\ m.wake
  BY <1>1, <1>2 DEF LoopType
<1>4. Queue(m) = b \o p /\ Queue(l) = b \o q
  BY <1>3 DEF Queue
<1>5. p = Append(q, j)
  OBVIOUS
<1>. HIDE DEF b, q, p, m
<1>6. /\ Len(b) \in Nat /\ Len(q) \in Nat /\ Len(p) = Len(q) + 1
      /\ p[Len(q) + 1] = j
      /\ \A i \in 1..Len(q) : p[i] = q[i]
  BY <1>1, <1>5
<1>7. /\ Len(b \o q) = Len(b) + Len(q) /\ Len(b \o p) = Len(b) + Len(q) + 1
      /\ (b \o p)[Len(b) + Len(q) + 1] = j
  <2>1. Len(b) + Len(q) + 1 \in Len(b) + 1 .. Len(b) + Len(p)
    BY <1>6
  <2>2. (b \o p)[Len(b) + Len(q) + 1] = p[Len(b) + Len(q) + 1 - Len(b)]
    BY <1>1, <1>2, <2>1, Joined
  <2>3. Len(b) + Len(q) + 1 - Len(b) = Len(q) + 1
    BY <1>6
  <2>4. Len(b \o q) = Len(b) + Len(q) /\ Len(b \o p) = Len(b) + Len(p)
    BY <1>1, <1>2, Joined
  <2>. QED  BY <1>6, <2>2, <2>3, <2>4
<1>8. \A i \in 1..Len(b) + Len(q) : (b \o p)[i] = (b \o q)[i]
  <2>. SUFFICES ASSUME NEW i \in 1..Len(b) + Len(q) PROVE (b \o p)[i] = (b \o q)[i]
    OBVIOUS
  <2>1. CASE i \in 1..Len(b)
    BY <1>1, <1>2, <2>1, Joined
  <2>2. CASE i \in Len(b) + 1 .. Len(b) + Len(q)
    <3>1. i \in Len(b) + 1 .. Len(b) + Len(p) /\ i - Len(b) \in 1..Len(q)
      BY <1>6, <2>2
    <3>2. (b \o p)[i] = p[i - Len(b)] /\ (b \o q)[i] = q[i - Len(b)]
      BY <1>1, <1>2, <2>2, <3>1, Joined
    <3>. QED  BY <1>6, <3>1, <3>2
  <2>. QED  BY <1>6, <2>1, <2>2
<1>9. Len(b \o q) \in Nat
  BY <1>6, <1>7
<1>10. m = Execute(l, j) /\ b = l.batch
  BY DEF m, b
<1>11. /\ m \in LoopType
       /\ m.entries = l.entries /\ m.at = l.at /\ m.running = l.running /\ m.rebuild = l.rebuild
       /\ m.polled = l.polled /\ m.ready = l.ready /\ m.batch = l.batch /\ m.wake
  BY <1>3, <1>10
<1>12. /\ Len(Queue(m)) = Len(Queue(l)) + 1 /\ Len(Queue(l)) \in Nat
       /\ Queue(m)[Len(Queue(l)) + 1] = j
       /\ \A i \in 1..Len(Queue(l)) : Queue(m)[i] = Queue(l)[i]
  BY <1>4, <1>7, <1>8, <1>9
<1>. QED  BY <1>10, <1>11, <1>12, Zenon

\* A job that is over was the first.
LEMMA QueueTaken ==
  ASSUME NEW l \in LoopType, l.batch # <<>>
  PROVE  LET q == Queue(l) IN
         /\ Len(q) \in Nat \ {0} /\ q[1] = Head(l.batch) /\ q[1] \in JobType
         /\ LET r == Tail(l.batch) \o l.jobs
            IN Len(r) = Len(q) - 1 /\ \A i \in 1..Len(q) - 1 : r[i] = q[i + 1]
<1>. DEFINE b == l.batch
            q == l.jobs
<1>1. b \in Seq(JobType) /\ q \in Seq(JobType) /\ b # <<>>
  BY DEF LoopType
<1>. HIDE DEF b, q
<1>2. /\ Len(b) \in Nat \ {0} /\ Len(q) \in Nat /\ Tail(b) \in Seq(JobType) /\ Len(Tail(b)) = Len(b) - 1
      /\ Head(b) = b[1] /\ b[1] \in JobType
      /\ \A i \in 1..Len(b) - 1 : Tail(b)[i] = b[i + 1]
  BY <1>1
<1>3. /\ Len(b \o q) = Len(b) + Len(q) /\ (b \o q)[1] = b[1]
      /\ Len(Tail(b) \o q) = Len(b) + Len(q) - 1
  BY <1>1, <1>2, Joined
<1>4. \A i \in 1..Len(b) + Len(q) - 1 : (Tail(b) \o q)[i] = (b \o q)[i + 1]
  <2>. SUFFICES ASSUME NEW i \in 1..Len(b) + Len(q) - 1 PROVE (Tail(b) \o q)[i] = (b \o q)[i + 1]
    OBVIOUS
  <2>1. CASE i \in 1..Len(b) - 1
    <3>1. i \in 1..Len(Tail(b)) /\ i + 1 \in 1..Len(b)
      BY <1>2, <2>1
    <3>. QED  BY <1>1, <1>2, <2>1, <3>1, Joined
  <2>2. CASE i \in Len(b) .. Len(b) + Len(q) - 1
    <3>1. /\ i \in Len(Tail(b)) + 1 .. Len(Tail(b)) + Len(q) /\ i + 1 \in Len(b) + 1 .. Len(b) + Len(q)
          /\ i - Len(Tail(b)) = i + 1 - Len(b)
      BY <1>2, <2>2
    <3>2. (Tail(b) \o q)[i] = q[i - Len(Tail(b))]
      BY <1>1, <1>2, <3>1, Joined
    <3>3. (b \o q)[i + 1] = q[i + 1 - Len(b)]
      BY <1>1, <3>1, Joined
    <3>. QED  BY <3>1, <3>2, <3>3
  <2>. QED  BY <1>2, <2>1, <2>2
<1>5. PICK u : u = b \o q
  OBVIOUS
<1>6. PICK v : v = Tail(b) \o q
  OBVIOUS
<1>7. /\ Len(u) = Len(b) + Len(q) /\ u[1] = b[1] /\ Len(v) = Len(b) + Len(q) - 1
      /\ \A i \in 1..Len(b) + Len(q) - 1 : v[i] = u[i + 1]
  BY <1>3, <1>4, <1>5, <1>6
<1>8. /\ Len(u) \in Nat \ {0} /\ u[1] = Head(b) /\ u[1] \in JobType
      /\ Len(v) = Len(u) - 1 /\ \A i \in 1..Len(u) - 1 : v[i] = u[i + 1]
  BY <1>2, <1>7
<1>9. Queue(l) = u /\ v = Tail(l.batch) \o l.jobs /\ b = l.batch
  BY <1>5, <1>6 DEF Queue, b, q
<1>. QED  BY <1>8, <1>9

\* Where a loop goes on, and what stays.
Moved(l, m) ==
  /\ m \in LoopType /\ LoopOK(m)
  /\ m.entries = l.entries /\ Queue(m) = Queue(l)
  /\ Deaf(l) => Deaf(m)
  /\ m.at \notin {"frames", "writable"}

LEMMA Turned ==
  ASSUME NEW l \in LoopType, l.batch = <<>>, l.jobs # <<>> => l.wake
  PROVE  LET m == Turn(l)
         IN /\ m \in LoopType /\ LoopOK(m) /\ m.entries = l.entries
            /\ m.jobs = l.jobs /\ m.batch = l.batch
            /\ m.at \in {"poll", "ended"}
            /\ l.ready = {} /\ l.polled = {} /\ ~l.rebuild =>
                 m.ready = {} /\ m.polled = {} /\ ~m.rebuild
<1>. DEFINE r == RebuildPollFds(l)
<1>1. \A f \in Fds : [fd |-> f, out |-> l.entries[f].out] \in [fd : Fds, out : BOOLEAN]
  BY DEF LoopType
<1>2. {[fd |-> f, out |-> l.entries[f].out] : f \in Registered(l)} \in SUBSET [fd : Fds, out : BOOLEAN]
  BY <1>1 DEF Registered
<1>3. /\ r \in LoopType /\ r.entries = l.entries /\ r.jobs = l.jobs /\ r.batch = l.batch
      /\ r.wake = l.wake /\ r.running = l.running /\ r.ready = l.ready
      /\ ~l.rebuild => r.polled = l.polled /\ ~r.rebuild
  BY <1>2, Zenon DEF RebuildPollFds, LoopType
<1>. HIDE DEF r
<1>4. CASE l.running
  <2>1. Turn(l) = [r EXCEPT !.at = "poll"]
    BY <1>4 DEF Turn, r
  <2>. QED  BY <1>3, <1>4, <2>1 DEF LoopType, LoopOK, Places
<1>5. CASE ~l.running
  <2>1. Turn(l) = [l EXCEPT !.at = "ended"]
    BY <1>5 DEF Turn
  <2>. QED  BY <1>5, <2>1 DEF LoopType, LoopOK, Places
<1>. QED  BY <1>4, <1>5

LEMMA TurnMoves ==
  ASSUME NEW l \in LoopType, l.batch = <<>>, l.jobs # <<>> => l.wake, l.at # "new"
  PROVE  Moved(l, Turn(l))
BY Turned DEF Moved, Deaf, Queue

LEMMA Passed ==
  ASSUME NEW l \in LoopType, l.batch = <<>>, l.jobs # <<>> => l.wake, l.at # "new"
  PROVE  /\ Moved(l, Pass(l)) /\ Pass(l).jobs = l.jobs /\ Pass(l).batch = l.batch
<1>1. CASE l.ready # {}
  <2>1. Pass(l) = [l EXCEPT !.at = "pass"]
    BY <1>1 DEF Pass
  <2>. QED  BY <1>1, <2>1 DEF Moved, LoopType, LoopOK, Places, Queue, Deaf
<1>2. CASE l.ready = {} /\ l.woken
  <2>1. Pass(l) = [l EXCEPT !.woken = FALSE, !.at = "drain"]
    BY <1>2 DEF Pass
  <2>. QED  BY <1>2, <2>1 DEF Moved, LoopType, LoopOK, Places, Queue, Deaf
<1>3. CASE l.ready = {} /\ ~l.woken
  <2>1. Pass(l) = Turn(l)
    BY <1>3 DEF Pass, LoopType
  <2>. QED  BY <2>1, TurnMoves, Turned
<1>. QED  BY <1>1, <1>2, <1>3 DEF LoopType

LEMMA Returned ==
  ASSUME NEW l \in LoopType, LoopOK(l), l.at = "poll",
         NEW R \in SUBSET [fd : Fds, hup : BOOLEAN, in : BOOLEAN, out : BOOLEAN],
         Deaf(l) => R = {}
  PROVE  Moved(l, Return(l, R))
<1>. DEFINE m == [l EXCEPT !.ready = R, !.woken = l.wake]
<1>1. /\ m \in LoopType /\ m.batch = <<>> /\ (m.jobs # <<>> => m.wake) /\ m.at # "new"
      /\ m.entries = l.entries /\ Queue(m) = Queue(l) /\ (Deaf(l) => Deaf(m))
  BY DEF LoopType, LoopOK, Queue, Deaf
<1>2. Return(l, R) = Pass(m)
  BY DEF Return, LoopType
<1>. QED  BY <1>1, <1>2, Passed DEF Moved

LEMMA Begins ==
  ASSUME NEW l \in LoopType, LoopOK(l), l.at = "new"
  PROVE  Moved(l, Begin(l))
<1>. DEFINE m == [l EXCEPT !.running = TRUE, !.rebuild = TRUE]
<1>1. /\ m \in LoopType /\ m.batch = <<>> /\ (m.jobs # <<>> => m.wake)
      /\ m.entries = l.entries /\ Queue(m) = Queue(l) /\ m.jobs = l.jobs
      /\ m.running /\ m.rebuild /\ m.ready = l.ready
  BY DEF LoopType, LoopOK, Queue
<1>2. Begin(l) = Turn(m)
  BY DEF Begin
<1>. HIDE DEF m
<1>3. /\ Turn(m) \in LoopType /\ LoopOK(Turn(m)) /\ Turn(m).entries = l.entries
      /\ Queue(Turn(m)) = Queue(l) /\ Turn(m).at \notin {"frames", "writable"}
  BY <1>1, Turned DEF Queue
<1>4. ASSUME Deaf(l) PROVE Deaf(Turn(m))
  <2>1. Registered(m) = {}
    BY <1>1, <1>4 DEF Deaf, Registered
  <2>2. RebuildPollFds(m) = [m EXCEPT !.rebuild = FALSE, !.polled = {}]
    BY <1>1, <2>1 DEF RebuildPollFds
  <2>3. Turn(m) = [m EXCEPT !.rebuild = FALSE, !.polled = {}, !.at = "poll"]
    BY <1>1, <2>2 DEF Turn, LoopType
  <2>. QED  BY <1>1, <1>4, <2>3 DEF Deaf, LoopType
<1>. QED  BY <1>2, <1>3, <1>4 DEF Moved

LEMMA TimesOut ==
  ASSUME NEW l \in LoopType, LoopOK(l), l.at = "poll", NEW b \in BOOLEAN
  PROVE  Moved(l, TimeOut([l EXCEPT !.running = b]))
<1>. DEFINE m == [l EXCEPT !.running = b]
<1>1. /\ m \in LoopType /\ m.batch = <<>> /\ (m.jobs # <<>> => m.wake) /\ m.at # "new"
      /\ m.entries = l.entries /\ Queue(m) = Queue(l) /\ (Deaf(l) => Deaf(m)) /\ m.jobs = l.jobs
  BY DEF LoopType, LoopOK, Queue, Deaf
<1>. HIDE DEF m
<1>2. CASE m.jobs # <<>>
  <2>1. TimeOut(m) = [m EXCEPT !.at = "drain"]
    BY <1>2 DEF TimeOut
  <2>. QED  BY <1>1, <1>2, <2>1 DEF Moved, LoopType, LoopOK, Places, Queue, Deaf, m
<1>3. CASE m.jobs = <<>>
  <2>1. TimeOut(m) = Turn(m)
    BY <1>3 DEF TimeOut
  <2>. QED  BY <1>1, <2>1, TurnMoves DEF Moved, m
<1>. QED  BY <1>2, <1>3

LEMMA JobsProcessed ==
  ASSUME NEW l \in LoopType, LoopOK(l), l.at \in {"drain", "take"}
  PROVE  Moved(l, ProcessJobs(l))
<1>1. CASE l.at = "drain"
  <2>1. ProcessJobs(l) = [l EXCEPT !.wake = FALSE, !.at = "take"]
    BY <1>1 DEF ProcessJobs
  <2>. QED  BY <1>1, <2>1 DEF Moved, LoopType, LoopOK, Places, Queue, Deaf
<1>2. CASE l.at = "take" /\ l.jobs = <<>>
  <2>1. ProcessJobs(l) = Turn(l)
    BY <1>2 DEF ProcessJobs
  <2>. QED  BY <1>2, <2>1, TurnMoves DEF LoopOK
<1>3. CASE l.at = "take" /\ l.jobs # <<>>
  <2>1. ProcessJobs(l) = [l EXCEPT !.batch = l.jobs, !.jobs = <<>>, !.at = "jobs"]
    BY <1>3 DEF ProcessJobs, LoopType
  <2>2. l.batch = <<>>
    BY <1>3 DEF LoopOK
  <2>3. l.jobs \o <<>> = l.jobs /\ <<>> \o l.jobs = l.jobs
    BY DEF LoopType
  <2>. QED  BY <1>3, <2>1, <2>2, <2>3 DEF Moved, LoopType, LoopOK, Places, Queue, Deaf
<1>. QED  BY <1>1, <1>2, <1>3

\* The loop without the job that is over.
LEMMA JobIsDone ==
  ASSUME NEW l \in LoopType, LoopOK(l), l.at = "jobs"
  PROVE  LET m == JobDone(l)
         IN /\ m \in LoopType /\ LoopOK(m) /\ m.entries = l.entries
            /\ Queue(m) = Tail(l.batch) \o l.jobs
            /\ l.batch # <<>>
            /\ Deaf(l) => Deaf(m)
            /\ m.at \notin {"new", "frames", "writable"}
<1>0. l.batch # <<>> /\ l.batch \in Seq(JobType) /\ (l.jobs # <<>> => l.wake)
  BY DEF LoopOK, LoopType
<1>1. /\ l.batch # <<>> /\ (l.jobs # <<>> => l.wake)
      /\ Tail(l.batch) \in Seq(JobType) /\ <<>> \in Seq(JobType)
      /\ Tail(l.batch) = <<>> <=> Len(l.batch) = 1
  BY <1>0, TailEmpty
<1>2. CASE Len(l.batch) = 1
  <2>. DEFINE m == [l EXCEPT !.batch = <<>>]
  <2>1. /\ m \in LoopType /\ m.batch = <<>> /\ (m.jobs # <<>> => m.wake) /\ m.at # "new"
        /\ m.entries = l.entries /\ m.jobs = l.jobs /\ (Deaf(l) => Deaf(m))
    BY <1>1 DEF LoopType, Deaf
  <2>2. JobDone(l) = Turn(m)
    BY <1>2 DEF JobDone
  <2>3. Tail(l.batch) = <<>>
    BY <1>1, <1>2
  <2>. HIDE DEF m
  <2>4. Moved(m, Turn(m)) /\ Turn(m).at \in {"poll", "ended"} /\ Turn(m).jobs = m.jobs /\ Turn(m).batch = m.batch
    BY <2>1, TurnMoves, Turned
  <2>. QED  BY <1>1, <2>1, <2>2, <2>3, <2>4 DEF Moved, Queue
<1>3. CASE Len(l.batch) # 1
  <2>1. JobDone(l) = [l EXCEPT !.batch = Tail(l.batch)]
    BY <1>3 DEF JobDone
  <2>2. Tail(l.batch) # <<>>
    BY <1>1, <1>3
  <2>. QED  BY <1>1, <2>1, <2>2 DEF LoopType, LoopOK, Queue, Deaf
<1>. QED  BY <1>2, <1>3

-----------------------------------------------------------------------------
(* The invariant speaks of some parts of the state only.                   *)

\* r is s as far as the tables, the contexts of entries, the queues and what
\* the clients are go.
Alike(s, r) ==
  /\ \A w \in WorkerIds :
       /\ Queue(r.loops[w]) = Queue(s.loops[w])
       /\ \A f \in ClientFds : r.loops[w].entries[f].ctx = s.loops[w].entries[f].ctx
  /\ \A c \in Conns :
       /\ r.cl[c].st = s.cl[c].st /\ r.cl[c].fd = s.cl[c].fd
       /\ r.cl[c].worker = s.cl[c].worker /\ r.cl[c].node = s.cl[c].node
  /\ r.srv.handlers = s.srv.handlers /\ r.srv.routing = s.srv.routing
  /\ r.srv.keys = s.srv.keys /\ r.srv.table = s.srv.table
  /\ r.srv.active = s.srv.active
  /\ \A p \in r.srv.pending :
       p \in s.srv.pending \/ (s.cl[p.from].st \in Was /\ s.cl[p.to].st \in Was)
  /\ ~r.srv.stray => ~s.srv.stray

\* A loop works for whom it has worked, or for one of its entries.
Taken(s, wk, vk) ==
  \A w \in WorkerIds :
    \/ vk[w].ctx \in {NoCtx, wk[w].ctx}
    \/ \E f \in ClientFds : s.loops[w].entries[f].ctx = vk[w].ctx

Placed(r, vk) ==
  /\ \A w \in WorkerIds : LoopOK(r.loops[w])
  /\ \A w \in WorkerIds \ {0} : Deaf(r.loops[w]) /\ vk[w] = Idle
  /\ ListenerOK(r)
  /\ \A w \in WorkerIds :
       /\ r.loops[w].at \in {"frames", "writable"} => vk[w].ctx # NoCtx
       /\ r.loops[w].at = "frames" => vk[w].frames # <<>>

LEMMA FromTypes ==
  ASSUME NEW s \in StateType
  PROVE  /\ s.loops \in [WorkerIds -> LoopType] /\ s.cl \in [Conns -> ClientType] /\ s.srv \in ServerType
         /\ \A w \in WorkerIds : s.loops[w] \in LoopType
         /\ \A w \in WorkerIds, f \in Fds : s.loops[w].entries[f].ctx \in MaybeConn \cup {Acceptor}
         /\ s.srv.handlers \in [ClientFds -> MaybeConn] /\ s.srv.table \in [ClientFds -> MaybeConn]
         /\ s.srv.routing \in [Nodes -> MaybeConn] /\ s.srv.keys \in [Nodes -> MaybeConn]
         /\ s.srv.pending \in SUBSET [id : Nat, from : Conns, to : Conns]
         /\ \A c \in Conns : s.cl[c] \in ClientType
<1>1. s.loops \in [WorkerIds -> LoopType] /\ s.cl \in [Conns -> ClientType] /\ s.srv \in ServerType
  BY DEF StateType
<1>2. \A w \in WorkerIds : s.loops[w] \in LoopType
  BY <1>1
<1>3. \A w \in WorkerIds, f \in Fds : s.loops[w].entries[f].ctx \in MaybeConn \cup {Acceptor}
  BY <1>2 DEF LoopType
<1>. QED  BY <1>1, <1>2, <1>3 DEF ServerType

LEMMA Similar ==
  ASSUME NEW s \in StateType, NEW wk \in [WorkerIds -> WorkType], Sound(s, wk),
         NEW r \in StateType, NEW vk \in [WorkerIds -> WorkType],
         Alike(s, r), Taken(s, wk, vk), Placed(r, vk)
  PROVE  Sound(r, vk)
<1>0. ClientFds \subseteq Fds /\ Listen \in Fds /\ 0 \in WorkerIds
  BY Basics
<1>1. ClientsOK(r)
  BY DEF Sound, Alike, ClientsOK
<1>e. \A w \in WorkerIds, f \in ClientFds :
        r.loops[w].entries[f].ctx = s.loops[w].entries[f].ctx
  BY <1>0 DEF Alike
<1>f. ASSUME NEW w \in WorkerIds, NEW f \in ClientFds, NEW c, c = s.loops[w].entries[f].ctx, c # NoCtx
      PROVE  /\ c \in Conns /\ s.cl[c].st \in Alive \cup {"freed"}
             /\ s.cl[c].st \in Alive => s.cl[c].worker = w /\ s.cl[c].fd = f
  BY <1>f DEF Sound, EntriesOK, EntryOK
<1>c. \A c \in Conns :
        /\ r.cl[c].st = s.cl[c].st /\ r.cl[c].fd = s.cl[c].fd
        /\ r.cl[c].worker = s.cl[c].worker /\ r.cl[c].node = s.cl[c].node
  BY DEF Alike
<1>2. EntriesOK(r)
  <2>. SUFFICES ASSUME NEW w \in WorkerIds, NEW f \in ClientFds,
                       r.loops[w].entries[f].ctx # NoCtx
                PROVE  LET c == r.loops[w].entries[f].ctx
                       IN /\ c \in Conns /\ r.cl[c].st \in Alive \cup {"freed"}
                          /\ r.cl[c].st \in Alive => r.cl[c].worker = w /\ r.cl[c].fd = f
    BY Zenon DEF EntriesOK, EntryOK
  <2>1. PICK c : c = r.loops[w].entries[f].ctx
    OBVIOUS
  <2>2. c = s.loops[w].entries[f].ctx /\ c # NoCtx
    BY <1>e, <2>1
  <2>3. /\ c \in Conns /\ s.cl[c].st \in Alive \cup {"freed"}
        /\ s.cl[c].st \in Alive => s.cl[c].worker = w /\ s.cl[c].fd = f
    BY <1>f, <2>2
  <2>4. r.cl[c].st = s.cl[c].st /\ r.cl[c].fd = s.cl[c].fd /\ r.cl[c].worker = s.cl[c].worker
    BY <1>c, <2>3
  <2>. QED  BY <2>1, <2>3, <2>4
<1>3. ListenerOK(r)
  BY DEF Placed
<1>4. HandlersOK(r)
  BY FromTypes DEF Sound, Alike, HandlersOK, MaybeConn
<1>5. RoutesOK(r)
  <2>1. /\ \A n \in Nodes : s.srv.routing[n] \in MaybeConn /\ s.srv.keys[n] \in MaybeConn
        /\ \A p \in r.srv.pending : p.from \in Conns /\ p.to \in Conns
    BY FromTypes
  <2>. QED  BY <2>1 DEF Sound, Alike, RoutesOK, MaybeConn
<1>6. \A w \in WorkerIds, c \in Conns :
        (\A v \in WorkerIds : wk[v].ctx # c /\ \A f \in ClientFds : s.loops[v].entries[f].ctx # c)
          => vk[w].ctx # c
  BY Basics DEF Taken
<1>7. JobsOK(r, vk)
  <2>. SUFFICES ASSUME NEW w \in WorkerIds, NEW i \in 1..Len(Queue(r.loops[w]))
                PROVE  LET j == Queue(r.loops[w])[i]
                       IN /\ j.job = "register" => RegisterOK(r, vk, w, i)
                          /\ j.job = "cleanup" => w = 0 /\ j.of \in Conns /\ r.cl[j.of].st \in Was
    BY DEF JobsOK
  <2>1. PICK j : j = Queue(r.loops[w])[i]
    OBVIOUS
  <2>2. Queue(r.loops[w]) = Queue(s.loops[w])
    BY DEF Alike
  <2>3. /\ j.job = "register" => RegisterOK(s, wk, w, i)
        /\ j.job = "cleanup" => w = 0 /\ j.of \in Conns /\ s.cl[j.of].st \in Was
    BY <2>1, <2>2 DEF Sound, JobsOK
  <2>4. ASSUME RegisterOK(s, wk, w, i) PROVE RegisterOK(r, vk, w, i)
    <3>1. PICK q : q = Queue(s.loops[w])
      OBVIOUS
    <3>2. PICK c : c = q[i].of
      OBVIOUS
    <3>3. /\ c \in Conns /\ s.cl[c].st = "waiting" /\ s.cl[c].worker = w /\ s.cl[c].fd = q[i].fd
          /\ \A f \in ClientFds : s.srv.handlers[f] # c
          /\ \A v \in WorkerIds : wk[v].ctx # c /\ \A f \in ClientFds : s.loops[v].entries[f].ctx # c
          /\ \A k \in 1..Len(q) : q[k].job = "register" /\ q[k].of = c => k = i
      BY <2>4, <3>1, <3>2 DEF RegisterOK
    <3>4. /\ \A v \in WorkerIds : vk[v].ctx # c
          /\ \A v \in WorkerIds, f \in ClientFds : r.loops[v].entries[f].ctx # c
      BY <1>6, <1>e, <3>3
    <3>5. r.srv.handlers = s.srv.handlers
      BY DEF Alike
    <3>6. /\ r.cl[c].st = "waiting" /\ r.cl[c].worker = w /\ r.cl[c].fd = q[i].fd
          /\ \A f \in ClientFds : r.srv.handlers[f] # c
      BY <1>c, <3>3, <3>5
    <3>7. q = Queue(r.loops[w])
      BY <2>2, <3>1
    <3>. QED  BY <3>2, <3>3, <3>4, <3>6, <3>7 DEF RegisterOK
  <2>. QED  BY <2>1, <2>3, <2>4 DEF Alike
<1>8. WorkOK(r, vk)
  <2>. SUFFICES ASSUME NEW w \in WorkerIds, vk[w].ctx # NoCtx
                PROVE  LET c == vk[w].ctx
                       IN /\ r.cl[c].st \in Alive \cup {"freed"}
                          /\ r.cl[c].st \in Alive => r.cl[c].worker = w
    BY DEF WorkOK, Placed
  <2>1. PICK c : c = vk[w].ctx
    OBVIOUS
  <2>2. c \in Conns
    BY <2>1 DEF WorkType, MaybeConn
  <2>3. CASE c = wk[w].ctx
    BY <2>1, <2>2, <2>3 DEF Sound, WorkOK, Alike
  <2>4. CASE \E f \in ClientFds : s.loops[w].entries[f].ctx = c
    BY <1>c, <1>f, <2>1, <2>2, <2>4
  <2>. QED  BY <2>1, <2>3, <2>4 DEF Taken
<1>9. CountOK(r)
  BY Zenon DEF Sound, CountOK, Alike, Living
<1>10. ASSUME ~r.srv.stray PROVE Tidy(r, vk)
  <2>0. Tidy(s, wk)
    BY <1>10 DEF Alike, Sound
  <2>1. \A c \in Conns : Held(s, c) => Held(r, c)
    BY DEF Held, Alike
  <2>2. \A w \in WorkerIds, f \in ClientFds :
          LET c == r.loops[w].entries[f].ctx
          IN c # NoCtx => r.cl[c].st \in Alive /\ Held(r, c)
    BY <1>e, <1>f, <1>c, <2>0, <2>1 DEF Tidy, TidyEntries
  <2>3. \A n \in Nodes :
          LET c == r.srv.routing[n]
          IN c # NoCtx => r.cl[c].st = "active" /\ r.cl[c].node = n /\ Held(r, c)
    <3>1. r.srv.routing = s.srv.routing /\ \A n \in Nodes : s.srv.routing[n] \in Conns \cup {NoCtx}
      BY FromTypes DEF Alike, MaybeConn
    <3>. QED  BY <1>c, <2>0, <2>1, <3>1 DEF Tidy, TidyRoutes
  <2>4. \A n \in Nodes : r.srv.keys[n] # NoCtx => r.cl[r.srv.keys[n]].st = "active"
    <3>1. r.srv.keys = s.srv.keys /\ \A n \in Nodes : s.srv.keys[n] \in Conns \cup {NoCtx}
      BY FromTypes DEF Alike, MaybeConn
    <3>2. \A n \in Nodes : s.srv.keys[n] # NoCtx => s.cl[s.srv.keys[n]].st = "active"
      BY <2>0 DEF Tidy, TidyKeys
    <3>. QED  BY <1>c, <3>1, <3>2
  <2>5. \A w \in WorkerIds : \A i \in 1..Len(Queue(r.loops[w])) :
          LET j == Queue(r.loops[w])[i]
          IN /\ j.job # "write"
             /\ j.job = "register" => r.srv.table[j.fd] = j.of
             /\ j.job = "cleanup" => \A n \in Nodes : r.srv.routing[n] # j.of
    <3>1. TidyJobs(s)
      BY <2>0 DEF Tidy
    <3>2. /\ r.srv.table = s.srv.table /\ r.srv.routing = s.srv.routing
          /\ \A w \in WorkerIds : Queue(r.loops[w]) = Queue(s.loops[w])
      BY DEF Alike
    <3>. QED  BY <3>1, <3>2 DEF TidyJobs
  <2>6. LET c == vk[0].ctx
        IN c # NoCtx /\ r.cl[c].st # "freed" => r.loops[0].entries[r.cl[c].fd].ctx = c
    <3>. SUFFICES ASSUME vk[0].ctx # NoCtx, r.cl[vk[0].ctx].st # "freed"
                  PROVE  r.loops[0].entries[r.cl[vk[0].ctx].fd].ctx = vk[0].ctx
      OBVIOUS
    <3>1. PICK c : c = vk[0].ctx
      OBVIOUS
    <3>2. c \in Conns /\ s.cl[c].st # "freed"
      BY <1>0, <3>1, FromTypes DEF WorkType, MaybeConn, Alike
    <3>3. CASE c = wk[0].ctx
      <4>1. s.loops[0].entries[s.cl[c].fd].ctx = c
        <5>1. TidyWork(s, wk) /\ c # NoCtx
          BY <2>0, <3>1 DEF Tidy
        <5>. QED  BY <3>2, <3>3, <5>1 DEF TidyWork
      <4>2. s.cl[c].fd \in ClientFds
        BY <1>0, <3>1, <3>2, <3>3 DEF Sound, WorkOK, ClientsOK
      <4>3. PICK g \in ClientFds : g = s.cl[c].fd
        BY <4>2
      <4>4. r.loops[0].entries[g].ctx = s.loops[0].entries[g].ctx /\ r.cl[c].fd = g
        BY <1>0, <1>c, <1>e, <3>2, <4>3
      <4>. QED  BY <3>1, <4>1, <4>3, <4>4
    <3>4. CASE \E f \in ClientFds : s.loops[0].entries[f].ctx = c
      <4>1. PICK f \in ClientFds : s.loops[0].entries[f].ctx = c
        BY <3>4
      <4>2. s.cl[c].fd = f
        BY <1>0, <1>f, <3>1, <3>2, <4>1, Basics
      <4>. QED  BY <1>0, <1>c, <1>e, <3>1, <3>2, <4>1, <4>2
    <3>. QED  BY <1>0, <3>1, <3>2, <3>3, <3>4, Basics DEF Taken
  <2>en. TidyEntries(r)
    BY <2>2 DEF TidyEntries
  <2>ro. TidyRoutes(r)
    BY <2>3 DEF TidyRoutes
  <2>ke. TidyKeys(r)
    BY <2>4 DEF TidyKeys
  <2>jo. TidyJobs(r)
    BY <2>5 DEF TidyJobs
  <2>wo. TidyWork(r, vk)
    BY <2>6 DEF TidyWork
  <2>. QED  BY <2>en, <2>ro, <2>ke, <2>jo, <2>wo DEF Tidy
<1>. QED  BY <1>1, <1>2, <1>3, <1>4, <1>5, <1>7, <1>8, <1>9, <1>10 DEF Sound, Placed

-----------------------------------------------------------------------------
(* clientCleanup.                                                          *)

LEMMA RemoveFdIs ==
  ASSUME NEW l \in LoopType, NEW f \in Fds
  PROVE  LET m == RemoveFd(l, f)
         IN /\ m \in LoopType /\ m = [l EXCEPT !.entries = m.entries]
            /\ m.entries = [l.entries EXCEPT ![f] = NoEntry]
            /\ Queue(m) = Queue(l) /\ m.at = l.at
            /\ LoopOK(l) => LoopOK(m)
            /\ Deaf(l) => Deaf(m)
<1>1. NoEntry \in [ctx : MaybeConn \cup {Acceptor}, out : BOOLEAN]
  BY DEF NoEntry, MaybeConn
<1>2. PICK e : e = [l.entries EXCEPT ![f] = NoEntry]
  OBVIOUS
<1>3. PICK m : m = RemoveFd(l, f)
  OBVIOUS
<1>4. m = [l EXCEPT !.entries = e]
  BY <1>2, <1>3 DEF RemoveFd, LoopType
<1>5. e \in [Fds -> [ctx : MaybeConn \cup {Acceptor}, out : BOOLEAN]] /\ l.entries \in [Fds -> [ctx : MaybeConn \cup {Acceptor}, out : BOOLEAN]]
  BY <1>1, <1>2 DEF LoopType
<1>6. /\ m \in LoopType /\ m.entries = e /\ m.at = l.at /\ m.batch = l.batch /\ m.jobs = l.jobs
      /\ m.wake = l.wake /\ m.running = l.running /\ m.rebuild = l.rebuild
      /\ m.polled = l.polled /\ m.ready = l.ready
  BY <1>4, <1>5 DEF LoopType
<1>7. Deaf(l) => Deaf(m)
  BY <1>2, <1>5, <1>6 DEF Deaf
<1>8. m = [l EXCEPT !.entries = m.entries]
  BY <1>4, <1>6
<1>. QED  BY <1>2, <1>3, <1>6, <1>7, <1>8 DEF Queue, LoopOK

\* The function g but for i.
With(g, i, v) == [g EXCEPT ![i] = v]

\* What the end of the connection leaves: the number and the entry go if they
\* are still c's.
LEMMA CloseCurrentIs ==
  ASSUME NEW s \in StateType, NEW w \in WorkerIds, NEW c \in Conns, s.cl[c].fd \in ClientFds
  PROVE  LET r == CloseCurrent(s, w, c)
             f == s.cl[c].fd
         IN /\ r \in StateType /\ r.cl = s.cl /\ r.hit = s.hit
            /\ s.srv.handlers[f] # c => r = s
            /\ s.srv.handlers[f] = c =>
                 /\ r.loops = With(s.loops, w, RemoveFd(s.loops[w], f))
                 /\ r.srv.handlers = With(s.srv.handlers, f, NoCtx)
                 /\ r.srv.table = With(s.srv.table, f, NoCtx)
                 /\ r.srv.active = s.srv.active /\ r.srv.pending = s.srv.pending
                 /\ r.srv.crashed = s.srv.crashed /\ r.srv.stray = s.srv.stray
                 /\ r.srv.routing = s.srv.routing /\ r.srv.keys = s.srv.keys
<1>. DEFINE f == s.cl[c].fd
<1>1. CASE s.srv.handlers[f] # c
  BY <1>1 DEF CloseCurrent
<1>2. CASE s.srv.handlers[f] = c
  <2>1. CloseCurrent(s, w, c) =
          OnLoop(Close([s EXCEPT !.srv.handlers[f] = NoCtx], f), w, RemoveFd(s.loops[w], f))
    BY <1>2 DEF CloseCurrent
  <2>2. PICK h : h = [s.srv EXCEPT !.handlers = [s.srv.handlers EXCEPT ![f] = NoCtx]]
    OBVIOUS
  <2>3. PICK g : g = [h EXCEPT !.table = [h.table EXCEPT ![f] = NoCtx]]
    OBVIOUS
  <2>t. NoCtx \in MaybeConn /\ s.srv \in ServerType
    BY FromTypes DEF MaybeConn
  <2>h. h \in ServerType /\ h.table = s.srv.table
    BY <2>2, <2>t DEF ServerType
  <2>4. h \in ServerType /\ g \in ServerType /\ h.table = s.srv.table
    BY <2>3, <2>h, <2>t DEF ServerType
  <2>5. g = [s.srv EXCEPT !.handlers = [s.srv.handlers EXCEPT ![f] = NoCtx],
                          !.table = [s.srv.table EXCEPT ![f] = NoCtx]]
    BY <2>2, <2>3, <2>4, FromTypes DEF ServerType
  <2>6. [s EXCEPT !.srv.handlers[f] = NoCtx] = [s EXCEPT !.srv = h]
    BY <2>2, FromTypes DEF StateType, ServerType
  <2>7. Close([s EXCEPT !.srv = h], f) = [s EXCEPT !.srv = g]
    BY <2>3, <2>4 DEF Close, StateType
  <2>8. CloseCurrent(s, w, c) = [s EXCEPT !.srv = g, !.loops = [s.loops EXCEPT ![w] = RemoveFd(s.loops[w], f)]]
    BY <2>1, <2>6, <2>7 DEF OnLoop, StateType
  <2>9. RemoveFd(s.loops[w], f) \in LoopType
    BY RemoveFdIs, Basics, FromTypes
  <2>10. PICK r : r = CloseCurrent(s, w, c)
    OBVIOUS
  <2>11. /\ r \in StateType /\ r.cl = s.cl /\ r.hit = s.hit /\ r.srv = g
         /\ r.loops = [s.loops EXCEPT ![w] = RemoveFd(s.loops[w], f)]
    BY <2>4, <2>8, <2>9, <2>10, FromTypes DEF StateType
  <2>12. /\ g.handlers = [s.srv.handlers EXCEPT ![f] = NoCtx]
         /\ g.table = [s.srv.table EXCEPT ![f] = NoCtx]
         /\ g.active = s.srv.active /\ g.pending = s.srv.pending
         /\ g.crashed = s.srv.crashed /\ g.stray = s.srv.stray
         /\ g.routing = s.srv.routing /\ g.keys = s.srv.keys
    BY <2>5, FromTypes DEF ServerType
  <2>. QED  BY <1>2, <2>10, <2>11, <2>12 DEF With
<1>. QED  BY <1>1, <1>2

LEMMA UndefinedIs ==
  ASSUME NEW s \in StateType
  PROVE  /\ Undefined(s) \in StateType /\ Undefined(s) = [s EXCEPT !.srv = [s.srv EXCEPT !.undefined = TRUE]]
BY DEF Undefined, StateType, ServerType

\* What becomes of the route and of the key.
LEMMA UnregisterIs ==
  ASSUME NEW s \in StateType, NEW c \in Conns, s.cl[c].st = "active" => s.cl[c].node \in Nodes
  PROVE  LET r == Unregister(s, c)
             n == s.cl[c].node
         IN /\ r \in StateType /\ r.cl = s.cl /\ r.loops = s.loops
            /\ r.srv.handlers = s.srv.handlers /\ r.srv.table = s.srv.table
            /\ r.srv.active = s.srv.active /\ r.srv.pending = s.srv.pending
            /\ r.srv.crashed = s.srv.crashed
            /\ s.cl[c].st # "active" => r = s
            /\ s.cl[c].st = "active" =>
                 /\ Route(s, n) # c => r.srv.routing = s.srv.routing /\ r.srv.keys = s.srv.keys
                 /\ Route(s, n) = c => /\ r.srv.routing = With(s.srv.routing, n, NoCtx)
                                       /\ r.srv.keys = With(s.srv.keys, n, NoCtx)
                 /\ ~r.srv.stray => ~s.srv.stray /\ \A k \in Nodes : r.srv.keys[k] # c
<1>. DEFINE n == s.cl[c].node
<1>1. CASE s.cl[c].st # "active"
  BY <1>1 DEF Unregister
<1>2. CASE s.cl[c].st = "active"
  <2>1. PICK v : v = LeaveRoute(s, c)
    OBVIOUS
  <2>2. /\ v \in StateType /\ v.cl = s.cl /\ v.loops = s.loops /\ v.hit = s.hit
        /\ Route(s, n) # c => v = s
        /\ Route(s, n) = c => v.srv = [s.srv EXCEPT !.routing = [s.srv.routing EXCEPT ![n] = NoCtx],
                                                   !.keys = [s.srv.keys EXCEPT ![n] = NoCtx]]
    <3>1. CASE Route(s, n) # c
      BY <2>1, <3>1 DEF LeaveRoute
    <3>2. CASE Route(s, n) = c
      <4>1. v = [s EXCEPT !.srv.routing[n] = NoCtx, !.srv.keys[n] = NoCtx]
        BY <2>1, <3>2 DEF LeaveRoute
      <4>2. v = [s EXCEPT !.srv = [s.srv EXCEPT !.routing = [s.srv.routing EXCEPT ![n] = NoCtx],
                                                !.keys = [s.srv.keys EXCEPT ![n] = NoCtx]]]
        BY <4>1, FromTypes DEF StateType, ServerType
      <4>. QED  BY <1>2, <3>2, <4>2, FromTypes DEF StateType, ServerType, MaybeConn
    <3>. QED  BY <3>1, <3>2
  <2>3. Unregister(s, c) =
          [Undefined(v) EXCEPT !.srv.stray = @ \/ \E k \in Nodes : Undefined(v).srv.keys[k] = c]
    BY <1>2, <2>1 DEF Unregister
  <2>4. PICK u : u = Undefined(v)
    OBVIOUS
  <2>5. /\ u \in StateType /\ u.cl = v.cl /\ u.loops = v.loops
        /\ u.srv = [v.srv EXCEPT !.undefined = TRUE]
    <3>1. u \in StateType /\ u = [v EXCEPT !.srv = [v.srv EXCEPT !.undefined = TRUE]]
      BY <2>2, <2>4, UndefinedIs
    <3>2. v \in [loops : [WorkerIds -> LoopType], srv : ServerType, cl : [Conns -> ClientType], hit : BOOLEAN]
      BY <2>2 DEF StateType
    <3>. QED  BY <3>1, <3>2
  <2>6. PICK e \in BOOLEAN : e <=> u.srv.stray \/ \E k \in Nodes : u.srv.keys[k] = c
    OBVIOUS
  <2>7. PICK z : z = Unregister(s, c)
    OBVIOUS
  <2>8. z = [u EXCEPT !.srv = [u.srv EXCEPT !.stray = e]]
    <3>1. u.srv.stray \in BOOLEAN
      BY <2>5 DEF StateType, ServerType
    <3>2. z = [u EXCEPT !.srv.stray = u.srv.stray \/ \E k \in Nodes : u.srv.keys[k] = c]
      BY <2>3, <2>4, <2>5, <2>7 DEF StateType, ServerType
    <3>3. e = (u.srv.stray \/ \E k \in Nodes : u.srv.keys[k] = c)
      BY <2>6
    <3>4. z = [u EXCEPT !.srv.stray = e]
      BY <3>2, <3>3
    <3>. QED  BY <2>5, <3>4 DEF StateType
  <2>9. /\ z \in StateType /\ z.cl = u.cl /\ z.loops = u.loops
        /\ z.srv = [u.srv EXCEPT !.stray = e]
    BY <2>5, <2>8 DEF StateType, ServerType
  <2>10. /\ z.srv.handlers = v.srv.handlers /\ z.srv.table = v.srv.table
         /\ z.srv.active = v.srv.active /\ z.srv.pending = v.srv.pending /\ z.srv.crashed = v.srv.crashed
         /\ z.srv.routing = v.srv.routing /\ z.srv.keys = v.srv.keys
         /\ (~z.srv.stray => ~v.srv.stray /\ ~\E k \in Nodes : v.srv.keys[k] = c)
    BY <2>2, <2>5, <2>6, <2>9 DEF StateType, ServerType
  <2>11. CASE Route(s, n) # c
    BY <1>2, <2>2, <2>5, <2>7, <2>9, <2>10, <2>11
  <2>12. CASE Route(s, n) = c
    <3>1. /\ v.srv.handlers = s.srv.handlers /\ v.srv.table = s.srv.table
          /\ v.srv.active = s.srv.active /\ v.srv.pending = s.srv.pending /\ v.srv.crashed = s.srv.crashed
          /\ v.srv.stray = s.srv.stray
          /\ v.srv.routing = [s.srv.routing EXCEPT ![n] = NoCtx] /\ v.srv.keys = [s.srv.keys EXCEPT ![n] = NoCtx]
      BY <2>2, <2>12, FromTypes DEF ServerType
    <3>. QED  BY <1>2, <2>2, <2>5, <2>7, <2>9, <2>10, <2>12, <3>1 DEF With
  <2>. QED  BY <2>11, <2>12
<1>. QED  BY <1>1, <1>2

NotQueued(s, c) ==
  \A w \in WorkerIds : \A i \in 1..Len(Queue(s.loops[w])) :
    Queue(s.loops[w])[i].job = "register" => Queue(s.loops[w])[i].of # c

Gone == [NoHandler EXCEPT !.st = "freed"]

\* clientCleanup, part by part.
LEMMA CleanupIs ==
  ASSUME NEW s \in StateType, NEW w \in WorkerIds, NEW c \in Conns,
         s.cl[c].fd \in ClientFds, s.cl[c].st = "active" => s.cl[c].node \in Nodes,
         s.srv.active > 0
  PROVE  LET r == clientCleanup(s, w, c)
             f == s.cl[c].fd
             n == s.cl[c].node
         IN /\ r \in StateType /\ r.cl = With(s.cl, c, Gone)
            /\ r.srv.active = s.srv.active - 1
            /\ r.srv.pending = s.srv.pending /\ r.srv.crashed = s.srv.crashed
            /\ s.srv.handlers[f] # c => /\ r.loops = s.loops /\ r.srv.handlers = s.srv.handlers
                                        /\ r.srv.table = s.srv.table
            /\ s.srv.handlers[f] = c => /\ r.loops = With(s.loops, w, RemoveFd(s.loops[w], f))
                                        /\ r.srv.handlers = With(s.srv.handlers, f, NoCtx)
                                        /\ r.srv.table = With(s.srv.table, f, NoCtx)
            /\ s.cl[c].st = "active" /\ Route(s, n) = c =>
                 /\ r.srv.routing = With(s.srv.routing, n, NoCtx)
                 /\ r.srv.keys = With(s.srv.keys, n, NoCtx)
            /\ ~(s.cl[c].st = "active" /\ Route(s, n) = c) =>
                 r.srv.routing = s.srv.routing /\ r.srv.keys = s.srv.keys
            /\ ~r.srv.stray => ~s.srv.stray
            /\ s.cl[c].st = "active" /\ ~r.srv.stray => \A k \in Nodes : r.srv.keys[k] # c
<1>. DEFINE f == s.cl[c].fd
            n == s.cl[c].node
<1>1. PICK x : x = CloseCurrent(s, w, c)
  OBVIOUS
<1>2. /\ x \in StateType /\ x.cl = s.cl /\ x.hit = s.hit
      /\ s.srv.handlers[f] # c => x = s
      /\ s.srv.handlers[f] = c =>
           /\ x.loops = With(s.loops, w, RemoveFd(s.loops[w], f))
           /\ x.srv.handlers = With(s.srv.handlers, f, NoCtx)
           /\ x.srv.table = With(s.srv.table, f, NoCtx)
           /\ x.srv.active = s.srv.active /\ x.srv.pending = s.srv.pending
           /\ x.srv.crashed = s.srv.crashed /\ x.srv.stray = s.srv.stray
           /\ x.srv.routing = s.srv.routing /\ x.srv.keys = s.srv.keys
  BY <1>1, CloseCurrentIs
<1>3. /\ x.srv.active = s.srv.active /\ x.srv.pending = s.srv.pending /\ x.srv.crashed = s.srv.crashed
      /\ x.srv.routing = s.srv.routing /\ x.srv.keys = s.srv.keys /\ x.srv.stray = s.srv.stray
      /\ s.srv.handlers[f] # c => /\ x.loops = s.loops /\ x.srv.handlers = s.srv.handlers
                                  /\ x.srv.table = s.srv.table
  BY <1>2
<1>4. Route(x, n) = Route(s, n)
  BY <1>2, <1>3 DEF Route, Stale, Freed
<1>5. PICK y : y = Unregister(x, c)
  OBVIOUS
<1>6. /\ y \in StateType /\ y.cl = x.cl /\ y.loops = x.loops
      /\ y.srv.handlers = x.srv.handlers /\ y.srv.table = x.srv.table
      /\ y.srv.active = x.srv.active /\ y.srv.pending = x.srv.pending
      /\ y.srv.crashed = x.srv.crashed
      /\ x.cl[c].st # "active" => y = x
      /\ x.cl[c].st = "active" =>
           /\ Route(x, n) # c => y.srv.routing = x.srv.routing /\ y.srv.keys = x.srv.keys
           /\ Route(x, n) = c => /\ y.srv.routing = With(x.srv.routing, n, NoCtx)
                                 /\ y.srv.keys = With(x.srv.keys, n, NoCtx)
           /\ ~y.srv.stray => ~x.srv.stray /\ \A k \in Nodes : y.srv.keys[k] # c
  BY <1>2, <1>5, UnregisterIs
<1>7. PICK z : z = Free(y, c)
  OBVIOUS
<1>8. Gone \in ClientType /\ Gone.st = "freed"
  BY Basics DEF Gone, NoHandler, ClientType
<1>9. z \in StateType /\ z.cl = With(s.cl, c, Gone) /\ z.loops = y.loops /\ z.srv = y.srv
  <2>1. z = [y EXCEPT !.cl = [y.cl EXCEPT ![c] = Gone]]
    BY <1>6, <1>7 DEF Free, Gone, StateType
  <2>. QED  BY <1>2, <1>6, <1>8, <2>1 DEF StateType, With
<1>10. PICK r : r = Release(z)
  OBVIOUS
<1>11. z.srv.active = s.srv.active /\ s.srv.active \in Nat \ {0} /\ s.srv.active - 1 \in Nat
  BY <1>3, <1>6, <1>9, FromTypes DEF ServerType
<1>12. r = [z EXCEPT !.srv = [z.srv EXCEPT !.active = s.srv.active - 1]]
  BY <1>9, <1>10, <1>11 DEF Release, StateType
<1>13. /\ r \in StateType /\ r.cl = z.cl /\ r.loops = z.loops
       /\ r.srv = [z.srv EXCEPT !.active = s.srv.active - 1]
  BY <1>9, <1>11, <1>12 DEF StateType, ServerType
<1>14. /\ r.srv.handlers = y.srv.handlers /\ r.srv.table = y.srv.table
       /\ r.srv.pending = y.srv.pending /\ r.srv.crashed = y.srv.crashed
       /\ r.srv.routing = y.srv.routing /\ r.srv.keys = y.srv.keys /\ r.srv.stray = y.srv.stray
       /\ r.srv.active = s.srv.active - 1
  BY <1>9, <1>13, FromTypes DEF ServerType
<1>15. r = clientCleanup(s, w, c)
  BY <1>1, <1>5, <1>7, <1>10 DEF clientCleanup
<1>16. /\ r \in StateType /\ r.cl = With(s.cl, c, Gone)
       /\ r.srv.active = s.srv.active - 1
       /\ r.srv.pending = s.srv.pending /\ r.srv.crashed = s.srv.crashed
       /\ r.loops = x.loops
  BY <1>3, <1>6, <1>9, <1>13, <1>14
<1>17. /\ s.srv.handlers[f] # c => /\ r.loops = s.loops /\ r.srv.handlers = s.srv.handlers
                                   /\ r.srv.table = s.srv.table
       /\ s.srv.handlers[f] = c => /\ r.loops = With(s.loops, w, RemoveFd(s.loops[w], f))
                                   /\ r.srv.handlers = With(s.srv.handlers, f, NoCtx)
                                   /\ r.srv.table = With(s.srv.table, f, NoCtx)
  BY <1>2, <1>3, <1>6, <1>14, <1>16
<1>18. /\ s.cl[c].st = "active" /\ Route(s, n) = c =>
            /\ r.srv.routing = With(s.srv.routing, n, NoCtx)
            /\ r.srv.keys = With(s.srv.keys, n, NoCtx)
       /\ ~(s.cl[c].st = "active" /\ Route(s, n) = c) =>
            r.srv.routing = s.srv.routing /\ r.srv.keys = s.srv.keys
       /\ ~r.srv.stray => ~s.srv.stray
       /\ s.cl[c].st = "active" /\ ~r.srv.stray => \A k \in Nodes : r.srv.keys[k] # c
  BY <1>2, <1>3, <1>4, <1>6, <1>14
<1>. QED  BY <1>15, <1>16, <1>17, <1>18

\* What clientCleanup does, point by point.
LEMMA CleanupParts ==
  ASSUME NEW s \in StateType, NEW wk, Sound(s, wk),
         NEW w \in WorkerIds, NEW c \in Conns, s.cl[c].st \in Alive
  PROVE  LET r == clientCleanup(s, w, c)
             f == s.cl[c].fd
         IN /\ r \in StateType /\ f \in ClientFds
            /\ r.srv.pending = s.srv.pending /\ r.srv.crashed = s.srv.crashed
            /\ ~r.srv.stray => ~s.srv.stray
            /\ \A d \in Conns : d # c => r.cl[d] = s.cl[d]
            /\ r.cl[c].st = "freed"
            /\ \A v \in WorkerIds :
                 /\ Queue(r.loops[v]) = Queue(s.loops[v]) /\ r.loops[v].at = s.loops[v].at
                 /\ LoopOK(r.loops[v])
                 /\ Deaf(s.loops[v]) => Deaf(r.loops[v])
                 /\ \A g \in Fds :
                      r.loops[v].entries[g] = IF s.srv.handlers[f] = c /\ v = w /\ g = f THEN NoEntry
                                              ELSE s.loops[v].entries[g]
            /\ \A g \in ClientFds :
                 /\ r.srv.handlers[g] = IF s.srv.handlers[g] = c THEN NoCtx ELSE s.srv.handlers[g]
                 /\ r.srv.table[g] = IF s.srv.handlers[f] = c /\ g = f THEN NoCtx ELSE s.srv.table[g]
            /\ \A n \in Nodes :
                 \/ r.srv.routing[n] = s.srv.routing[n] /\ r.srv.keys[n] = s.srv.keys[n]
                 \/ r.srv.routing[n] = NoCtx /\ r.srv.keys[n] = NoCtx
            /\ s.cl[c].st = "active" /\ s.srv.routing[s.cl[c].node] = c /\ ~Stale(s, s.cl[c].node) =>
                 r.srv.routing[s.cl[c].node] = NoCtx
            /\ s.cl[c].st = "active" /\ ~r.srv.stray => \A k \in Nodes : r.srv.keys[k] # c
            /\ CountOK(r)
<1>. DEFINE f == s.cl[c].fd
            n == s.cl[c].node
<1>1. /\ f \in ClientFds /\ f \in Fds /\ (s.cl[c].st = "active" => n \in Nodes)
      /\ NoCtx \notin Conns
  BY Basics DEF Sound, ClientsOK
<1>2. s.srv.active > 0 /\ s.srv.active = Cardinality(Living(s)) /\ IsFiniteSet(Living(s)) /\ c \in Living(s)
  <2>1. IsFiniteSet(Living(s)) /\ c \in Living(s)
    BY Basics, FS_Subset DEF Living
  <2>2. Cardinality(Living(s)) \in Nat /\ Cardinality(Living(s)) # 0
    BY <2>1, FS_CardinalityType, FS_EmptySet
  <2>. QED  BY <2>1, <2>2 DEF Sound, CountOK
<1>3. PICK r : r = clientCleanup(s, w, c)
  OBVIOUS
<1>4. /\ r \in StateType /\ r.cl = With(s.cl, c, Gone)
      /\ r.srv.active = s.srv.active - 1
      /\ r.srv.pending = s.srv.pending /\ r.srv.crashed = s.srv.crashed
      /\ s.srv.handlers[f] # c => /\ r.loops = s.loops /\ r.srv.handlers = s.srv.handlers
                                  /\ r.srv.table = s.srv.table
      /\ s.srv.handlers[f] = c => /\ r.loops = With(s.loops, w, RemoveFd(s.loops[w], f))
                                  /\ r.srv.handlers = With(s.srv.handlers, f, NoCtx)
                                  /\ r.srv.table = With(s.srv.table, f, NoCtx)
      /\ s.cl[c].st = "active" /\ Route(s, n) = c =>
           /\ r.srv.routing = With(s.srv.routing, n, NoCtx)
           /\ r.srv.keys = With(s.srv.keys, n, NoCtx)
      /\ ~(s.cl[c].st = "active" /\ Route(s, n) = c) =>
           r.srv.routing = s.srv.routing /\ r.srv.keys = s.srv.keys
      /\ ~r.srv.stray => ~s.srv.stray
      /\ s.cl[c].st = "active" /\ ~r.srv.stray => \A k \in Nodes : r.srv.keys[k] # c
  BY <1>1, <1>2, <1>3, CleanupIs
<1>5. (\A d \in Conns : d # c => r.cl[d] = s.cl[d]) /\ r.cl[c].st = "freed"
  BY <1>4, FromTypes DEF With, Gone, NoHandler
<1>6. ASSUME NEW v \in WorkerIds
      PROVE  /\ Queue(r.loops[v]) = Queue(s.loops[v]) /\ r.loops[v].at = s.loops[v].at
             /\ LoopOK(r.loops[v])
             /\ Deaf(s.loops[v]) => Deaf(r.loops[v])
             /\ \A g \in Fds :
                  r.loops[v].entries[g] = IF s.srv.handlers[f] = c /\ v = w /\ g = f THEN NoEntry
                                          ELSE s.loops[v].entries[g]
  <2>0. LoopOK(s.loops[v]) /\ s.loops[v] \in LoopType /\ s.loops \in [WorkerIds -> LoopType]
    BY FromTypes DEF Sound
  <2>1. CASE ~(s.srv.handlers[f] = c /\ v = w)
    <3>1. r.loops[v] = s.loops[v]
      BY <1>4, <2>0, <2>1 DEF With
    <3>. QED  BY <2>0, <2>1, <3>1
  <2>2. CASE s.srv.handlers[f] = c /\ v = w
    <3>1. r.loops[v] = RemoveFd(s.loops[v], f)
      BY <1>4, <2>0, <2>2 DEF With
    <3>2. PICK m : m = RemoveFd(s.loops[v], f)
      OBVIOUS
    <3>3. /\ Queue(m) = Queue(s.loops[v]) /\ m.at = s.loops[v].at /\ LoopOK(m)
          /\ Deaf(s.loops[v]) => Deaf(m)
          /\ m.entries = [s.loops[v].entries EXCEPT ![f] = NoEntry]
      BY <1>1, <2>0, <3>2, RemoveFdIs
    <3>4. \A g \in Fds : m.entries[g] = IF g = f THEN NoEntry ELSE s.loops[v].entries[g]
      BY <2>0, <3>3 DEF LoopType
    <3>. QED  BY <2>2, <3>1, <3>2, <3>3, <3>4
  <2>. QED  BY <2>1, <2>2
<1>7. ASSUME NEW g \in ClientFds
      PROVE  /\ r.srv.handlers[g] = IF s.srv.handlers[g] = c THEN NoCtx ELSE s.srv.handlers[g]
             /\ r.srv.table[g] = IF s.srv.handlers[f] = c /\ g = f THEN NoCtx ELSE s.srv.table[g]
  <2>1. s.srv.handlers[g] = c => g = f
    BY <1>1 DEF Sound, HandlersOK
  <2>. QED  BY <1>4, <2>1, FromTypes DEF With
<1>8. ASSUME NEW k \in Nodes
      PROVE  \/ r.srv.routing[k] = s.srv.routing[k] /\ r.srv.keys[k] = s.srv.keys[k]
             \/ r.srv.routing[k] = NoCtx /\ r.srv.keys[k] = NoCtx
  BY <1>4, FromTypes DEF With
<1>9. ASSUME s.cl[c].st = "active", s.srv.routing[n] = c, ~Stale(s, n)
      PROVE  r.srv.routing[n] = NoCtx
  <2>1. Route(s, n) = c
    BY <1>9 DEF Route
  <2>. QED  BY <1>1, <1>4, <1>9, <2>1, FromTypes DEF With
<1>10. CountOK(r)
  <2>1. Living(r) = Living(s) \ {c}
    BY <1>5 DEF Living, Alive
  <2>2. Cardinality(Living(s) \ {c}) = Cardinality(Living(s)) - 1
    BY <1>2, FS_RemoveElement
  <2>. QED  BY <1>2, <1>4, <2>1, <2>2 DEF CountOK
<1>. QED  BY <1>1, <1>3, <1>4, <1>5, <1>6, <1>7, <1>8, <1>9, <1>10

\* What the invariant says of an entry, of a handler, of a route, of a job and of the
\* client at work.
EntryFacts(s, w, f, c) ==
  /\ c \in Conns /\ s.cl[c].st \in Alive \cup {"freed"}
  /\ s.cl[c].st \in Alive => s.cl[c].worker = w /\ s.cl[c].fd = f
  /\ ~s.srv.stray => s.cl[c].st \in Alive /\ Held(s, c)

LEMMA EntryIs ==
  ASSUME NEW s, NEW wk, Sound(s, wk), NEW w \in WorkerIds, NEW f \in ClientFds,
         NEW c, c = s.loops[w].entries[f].ctx, c # NoCtx
  PROVE  EntryFacts(s, w, f, c)
<1>1. EntriesOK(s) /\ (~s.srv.stray => Tidy(s, wk))
  BY DEF Sound
<1>2. /\ c \in Conns /\ s.cl[c].st \in Alive \cup {"freed"}
      /\ s.cl[c].st \in Alive => s.cl[c].worker = w /\ s.cl[c].fd = f
  BY <1>1 DEF EntriesOK, EntryOK
<1>3. ~s.srv.stray => s.cl[c].st \in Alive /\ Held(s, c)
  BY <1>1 DEF Tidy, TidyEntries
<1>. QED  BY <1>2, <1>3 DEF EntryFacts

LEMMA HandlerIs ==
  ASSUME NEW s \in StateType, NEW wk, Sound(s, wk), NEW f \in ClientFds,
         NEW c, c = s.srv.handlers[f], c # NoCtx
  PROVE  c \in Conns /\ s.cl[c].st \in Alive /\ s.cl[c].fd = f
<1>1. HandlersOK(s)
  BY DEF Sound
<1>2. s.cl[c].st \in Alive /\ s.cl[c].fd = f
  BY <1>1 DEF HandlersOK
<1>. QED  BY <1>2, FromTypes DEF MaybeConn

LEMMA RouteIs ==
  ASSUME NEW s \in StateType, NEW wk, Sound(s, wk), NEW n \in Nodes,
         NEW c, c = s.srv.routing[n], c # NoCtx
  PROVE  /\ c \in Conns /\ s.cl[c].st \in Was /\ s.srv.keys[n] # NoCtx
         /\ ~s.srv.stray => s.cl[c].st = "active" /\ s.cl[c].node = n /\ Held(s, c) /\ ~Stale(s, n)
<1>1. RoutesOK(s) /\ (~s.srv.stray => Tidy(s, wk))
  BY DEF Sound
<1>2. s.cl[c].st \in Was /\ s.srv.keys[n] # NoCtx
  BY <1>1 DEF RoutesOK
<1>3. ASSUME ~s.srv.stray
      PROVE  s.cl[c].st = "active" /\ s.cl[c].node = n /\ Held(s, c) /\ s.cl[s.srv.keys[n]].st = "active"
  <2>1. TidyRoutes(s) /\ TidyKeys(s)
    BY <1>1, <1>3 DEF Tidy
  <2>2. s.cl[c].st = "active" /\ s.cl[c].node = n /\ Held(s, c)
    BY <2>1 DEF TidyRoutes
  <2>. QED  BY <1>2, <2>1, <2>2 DEF TidyKeys
<1>4. s.cl[s.srv.keys[n]].st = "active" => ~Stale(s, n)
  BY DEF Stale, Freed
<1>. QED  BY <1>2, <1>3, <1>4, FromTypes DEF MaybeConn

QueuedFacts(s, wk, w, i, j) ==
  /\ j.job = "register" => /\ RegisterOK(s, wk, w, i) /\ j.of \in Conns /\ j.fd \in ClientFds
                           /\ s.cl[j.of].st = "waiting" /\ s.cl[j.of].worker = w
                           /\ s.cl[j.of].fd = j.fd
  /\ j.job = "cleanup" => w = 0 /\ j.of \in Conns /\ s.cl[j.of].st \in Was
  /\ ~s.srv.stray =>
       /\ j.job # "write"
       /\ j.job = "register" => s.srv.table[j.fd] = j.of
       /\ j.job = "cleanup" => \A n \in Nodes : s.srv.routing[n] # j.of

LEMMA QueuedIs ==
  ASSUME NEW s, NEW wk, Sound(s, wk), NEW w \in WorkerIds, NEW q, q = Queue(s.loops[w]),
         NEW i \in 1..Len(q), NEW j, j = q[i]
  PROVE  QueuedFacts(s, wk, w, i, j)
<1>1. JobsOK(s, wk) /\ ClientsOK(s) /\ (~s.srv.stray => Tidy(s, wk))
  BY DEF Sound
<1>2. /\ j.job = "register" => RegisterOK(s, wk, w, i)
      /\ j.job = "cleanup" => w = 0 /\ j.of \in Conns /\ s.cl[j.of].st \in Was
  BY <1>1 DEF JobsOK
<1>3. RegisterOK(s, wk, w, i) =>
        /\ j.of \in Conns /\ s.cl[j.of].st = "waiting" /\ s.cl[j.of].worker = w /\ s.cl[j.of].fd = j.fd
  BY DEF RegisterOK
<1>4. RegisterOK(s, wk, w, i) => j.fd \in ClientFds
  BY <1>1, <1>3 DEF ClientsOK, Alive
<1>5. ~s.srv.stray =>
        /\ j.job # "write"
        /\ j.job = "register" => s.srv.table[j.fd] = j.of
        /\ j.job = "cleanup" => \A n \in Nodes : s.srv.routing[n] # j.of
  BY <1>1 DEF Tidy, TidyJobs
<1>. QED  BY <1>2, <1>3, <1>4, <1>5 DEF QueuedFacts

WorkFacts(s, w, c) ==
  /\ c \in Conns /\ s.cl[c].st \in Alive \cup {"freed"} /\ w = 0
  /\ s.cl[c].st \in Alive => s.cl[c].worker = w /\ s.cl[c].fd \in ClientFds
  /\ ~s.srv.stray /\ s.cl[c].st # "freed" =>
       s.loops[0].entries[s.cl[c].fd].ctx = c /\ Held(s, c)

LEMMA WorkIs ==
  ASSUME NEW s \in StateType, NEW wk \in [WorkerIds -> WorkType], Sound(s, wk), NEW w \in WorkerIds,
         NEW c, c = wk[w].ctx, c # NoCtx
  PROVE  WorkFacts(s, w, c)
<1>1. /\ WorkOK(s, wk) /\ ClientsOK(s) /\ (~s.srv.stray => Tidy(s, wk))
      /\ w # 0 => wk[w] = Idle
  BY DEF Sound
<1>2. s.cl[c].st \in Alive \cup {"freed"} /\ (s.cl[c].st \in Alive => s.cl[c].worker = w)
  BY <1>1 DEF WorkOK
<1>3. c \in Conns /\ w = 0
  BY <1>1 DEF WorkType, MaybeConn, Idle
<1>4. s.cl[c].st \in Alive => s.cl[c].fd \in ClientFds
  BY <1>1, <1>3 DEF ClientsOK
<1>5. ~s.srv.stray /\ s.cl[c].st # "freed" => s.loops[0].entries[s.cl[c].fd].ctx = c
  BY <1>1, <1>3 DEF Tidy, TidyWork
<1>6. ~s.srv.stray /\ s.cl[c].st # "freed" => Held(s, c)
  <2>. SUFFICES ASSUME ~s.srv.stray /\ s.cl[c].st # "freed" PROVE Held(s, c)
    OBVIOUS
  <2>1. PICK g \in ClientFds : g = s.cl[c].fd
    BY <1>2, <1>4
  <2>2. EntryFacts(s, 0, g, c)
    BY <1>5, <2>1, EntryIs, Basics
  <2>. QED  BY <2>2 DEF EntryFacts
<1>. QED  BY <1>2, <1>3, <1>4, <1>5, <1>6 DEF WorkFacts

\* A handler that no loop has still to register may end at any time; until a
\* stray close worker 0 ends it, while its number is its own.
LEMMA CleanupSound ==
  ASSUME NEW s \in StateType, NEW wk \in [WorkerIds -> WorkType], Sound(s, wk),
         NEW w \in WorkerIds, NEW c \in Conns, s.cl[c].st \in Alive, NotQueued(s, c),
         ~s.srv.stray => w = 0 /\ s.cl[c].worker = 0 /\ Held(s, c)
  PROVE  LET r == clientCleanup(s, w, c)
         IN /\ r \in StateType /\ Sound(r, wk) /\ r.srv.crashed = s.srv.crashed
            /\ \A v \in WorkerIds : r.loops[v].at = s.loops[v].at
<1>. DEFINE f == s.cl[c].fd
<1>1. PICK r : r = clientCleanup(s, w, c)
  OBVIOUS
<1>2. /\ r \in StateType /\ f \in ClientFds
      /\ r.srv.pending = s.srv.pending /\ r.srv.crashed = s.srv.crashed
      /\ ~r.srv.stray => ~s.srv.stray
      /\ \A d \in Conns : d # c => r.cl[d] = s.cl[d]
      /\ r.cl[c].st = "freed"
      /\ \A v \in WorkerIds :
           /\ Queue(r.loops[v]) = Queue(s.loops[v]) /\ r.loops[v].at = s.loops[v].at
           /\ LoopOK(r.loops[v])
           /\ Deaf(s.loops[v]) => Deaf(r.loops[v])
           /\ \A g \in Fds :
                r.loops[v].entries[g] = IF s.srv.handlers[f] = c /\ v = w /\ g = f THEN NoEntry
                                        ELSE s.loops[v].entries[g]
      /\ \A g \in ClientFds :
           /\ r.srv.handlers[g] = IF s.srv.handlers[g] = c THEN NoCtx ELSE s.srv.handlers[g]
           /\ r.srv.table[g] = IF s.srv.handlers[f] = c /\ g = f THEN NoCtx ELSE s.srv.table[g]
      /\ \A n \in Nodes :
           \/ r.srv.routing[n] = s.srv.routing[n] /\ r.srv.keys[n] = s.srv.keys[n]
           \/ r.srv.routing[n] = NoCtx /\ r.srv.keys[n] = NoCtx
      /\ s.cl[c].st = "active" /\ s.srv.routing[s.cl[c].node] = c /\ ~Stale(s, s.cl[c].node) =>
           r.srv.routing[s.cl[c].node] = NoCtx
      /\ s.cl[c].st = "active" /\ ~r.srv.stray => \A k \in Nodes : r.srv.keys[k] # c
      /\ CountOK(r)
  BY <1>1, CleanupParts
<1>. HIDE DEF f
<1>3. /\ 0 \in WorkerIds /\ ClientFds \subseteq Fds /\ Listen \in Fds /\ Listen \notin ClientFds
      /\ NoCtx \notin Conns /\ Acceptor \notin Conns /\ NoCtx # Acceptor
  BY Basics
<1>4. \A v \in WorkerIds, g \in Fds :
        \/ r.loops[v].entries[g].ctx = s.loops[v].entries[g].ctx
        \/ g = f /\ v = w /\ s.srv.handlers[f] = c /\ r.loops[v].entries[g].ctx = NoCtx
  BY <1>2 DEF NoEntry
<1>5. \A d \in Conns : r.cl[d].st \in Alive => d # c /\ r.cl[d] = s.cl[d] /\ s.cl[d].st \in Alive
  BY <1>2 DEF Alive
<1>6. \A d \in Conns : s.cl[d].st \in Was => r.cl[d].st \in Was
  BY <1>2 DEF Was
<1>7. \A d \in Conns : s.cl[d].st \in Alive \cup {"freed"} => r.cl[d].st \in Alive \cup {"freed"}
  BY <1>2
<1>8. ClientsOK(r)
  BY <1>2, <1>5 DEF Sound, ClientsOK, Alive
<1>9. EntriesOK(r)
  <2>. SUFFICES ASSUME NEW v \in WorkerIds, NEW g \in ClientFds, NEW d,
                       d = r.loops[v].entries[g].ctx
                PROVE  EntryOK(r, v, g, d)
    BY DEF EntriesOK
  <2>. SUFFICES ASSUME d # NoCtx
                PROVE  /\ d \in Conns /\ r.cl[d].st \in Alive \cup {"freed"}
                       /\ r.cl[d].st \in Alive => r.cl[d].worker = v /\ r.cl[d].fd = g
    BY DEF EntryOK
  <2>1. d = s.loops[v].entries[g].ctx
    BY <1>3, <1>4
  <2>2. /\ d \in Conns /\ s.cl[d].st \in Alive \cup {"freed"}
        /\ s.cl[d].st \in Alive => s.cl[d].worker = v /\ s.cl[d].fd = g
    <3>1. EntriesOK(s)
      BY DEF Sound
    <3>2. EntryOK(s, v, g, d)
      BY <2>1, <3>1 DEF EntriesOK
    <3>. QED  BY <3>2 DEF EntryOK
  <2>. QED  BY <1>5, <1>7, <2>2
<1>10. ListenerOK(r)
  BY <1>3, <1>4 DEF Sound, ListenerOK
<1>11. HandlersOK(r)
  <2>. SUFFICES ASSUME NEW g \in ClientFds, r.srv.handlers[g] # NoCtx
                PROVE  r.cl[r.srv.handlers[g]].st \in Alive /\ r.cl[r.srv.handlers[g]].fd = g
    BY DEF HandlersOK
  <2>1. PICK d : d = s.srv.handlers[g]
    OBVIOUS
  <2>2. d # c /\ d # NoCtx /\ r.srv.handlers[g] = d
    BY <1>2, <2>1
  <2>3. d \in Conns
    BY <2>1, <2>2, FromTypes DEF MaybeConn
  <2>. QED  BY <1>2, <2>1, <2>2, <2>3 DEF Sound, HandlersOK
<1>12. RoutesOK(r)
  <2>1. ASSUME NEW n \in Nodes
        PROVE  /\ r.srv.routing[n] # NoCtx => r.cl[r.srv.routing[n]].st \in Was /\ r.srv.keys[n] # NoCtx
               /\ r.srv.keys[n] # NoCtx => r.cl[r.srv.keys[n]].st \in Was
    <3>1. /\ s.srv.routing[n] # NoCtx => s.srv.routing[n] \in Conns /\ s.cl[s.srv.routing[n]].st \in Was
                                          /\ s.srv.keys[n] # NoCtx
          /\ s.srv.keys[n] # NoCtx => s.srv.keys[n] \in Conns /\ s.cl[s.srv.keys[n]].st \in Was
      BY FromTypes DEF Sound, RoutesOK, MaybeConn
    <3>2. \/ r.srv.routing[n] = s.srv.routing[n] /\ r.srv.keys[n] = s.srv.keys[n]
          \/ r.srv.routing[n] = NoCtx /\ r.srv.keys[n] = NoCtx
      BY <1>2
    <3>. QED  BY <1>6, <3>1, <3>2
  <2>2. ASSUME NEW p \in r.srv.pending PROVE r.cl[p.from].st \in Was /\ r.cl[p.to].st \in Was
    <3>1. p \in s.srv.pending /\ p.from \in Conns /\ p.to \in Conns
      BY <1>2, FromTypes
    <3>2. s.cl[p.from].st \in Was /\ s.cl[p.to].st \in Was
      BY <3>1 DEF Sound, RoutesOK
    <3>. QED  BY <1>6, <3>1, <3>2
  <2>. QED  BY <2>1, <2>2 DEF RoutesOK
<1>13. JobsOK(r, wk)
  <2>. SUFFICES ASSUME NEW v \in WorkerIds, NEW q, q = Queue(r.loops[v]), NEW i \in 1..Len(q)
                PROVE  /\ q[i].job = "register" => RegisterOK(r, wk, v, i)
                       /\ q[i].job = "cleanup" => v = 0 /\ q[i].of \in Conns /\ r.cl[q[i].of].st \in Was
    BY DEF JobsOK
  <2>1. q = Queue(s.loops[v])
    BY <1>2
  <2>2. /\ q[i].job = "register" => RegisterOK(s, wk, v, i) /\ q[i].of # c
        /\ q[i].job = "cleanup" => v = 0 /\ q[i].of \in Conns /\ s.cl[q[i].of].st \in Was
    BY <2>1 DEF Sound, JobsOK, NotQueued
  <2>3. ASSUME q[i].job = "register" PROVE RegisterOK(r, wk, v, i)
    <3>1. PICK d : d = q[i].of
      OBVIOUS
    <3>2. /\ d \in Conns /\ d # c /\ s.cl[d].st = "waiting" /\ s.cl[d].worker = v /\ s.cl[d].fd = q[i].fd
          /\ \A g \in ClientFds : s.srv.handlers[g] # d
          /\ \A u \in WorkerIds : wk[u].ctx # d /\ \A g \in ClientFds : s.loops[u].entries[g].ctx # d
          /\ \A k \in 1..Len(q) : q[k].job = "register" /\ q[k].of = d => k = i
      BY <2>1, <2>2, <2>3, <3>1 DEF RegisterOK
    <3>3. \A g \in ClientFds : r.srv.handlers[g] # d
      BY <1>2, <1>3, <3>2
    <3>4. \A u \in WorkerIds, g \in ClientFds : r.loops[u].entries[g].ctx # d
      BY <1>3, <1>4, <3>2
    <3>5. r.cl[d] = s.cl[d]
      BY <1>2, <3>2
    <3>. QED  BY <3>1, <3>2, <3>3, <3>4, <3>5 DEF RegisterOK
  <2>. QED  BY <1>6, <2>2, <2>3
<1>14. WorkOK(r, wk)
  <2>. SUFFICES ASSUME NEW v \in WorkerIds
                PROVE  LET d == wk[v].ctx
                       IN /\ d # NoCtx => /\ r.cl[d].st \in Alive \cup {"freed"}
                                          /\ r.cl[d].st \in Alive => r.cl[d].worker = v
                          /\ r.loops[v].at \in {"frames", "writable"} => d # NoCtx
                          /\ r.loops[v].at = "frames" => wk[v].frames # <<>>
    BY DEF WorkOK
  <2>1. PICK d : d = wk[v].ctx
    OBVIOUS
  <2>2. d # NoCtx => d \in Conns
    BY <2>1 DEF WorkType, MaybeConn
  <2>3. /\ d # NoCtx => /\ s.cl[d].st \in Alive \cup {"freed"}
                        /\ s.cl[d].st \in Alive => s.cl[d].worker = v
        /\ s.loops[v].at \in {"frames", "writable"} => d # NoCtx
        /\ s.loops[v].at = "frames" => wk[v].frames # <<>>
    BY <2>1 DEF Sound, WorkOK
  <2>4. r.loops[v].at = s.loops[v].at
    BY <1>2
  <2>5. d # NoCtx => /\ r.cl[d].st \in Alive \cup {"freed"}
                     /\ r.cl[d].st \in Alive => r.cl[d].worker = v
    BY <1>5, <1>7, <2>2, <2>3
  <2>. QED  BY <2>1, <2>3, <2>4, <2>5
<1>15. ASSUME ~r.srv.stray PROVE Tidy(r, wk)
  <2>1. /\ Tidy(s, wk) /\ ~s.srv.stray /\ w = 0 /\ s.cl[c].worker = 0
        /\ s.srv.handlers[f] = c /\ s.srv.table[f] = c
    BY <1>2, <1>15 DEF Sound, Held, f
  <2>2. ASSUME NEW d \in Conns, d # c, Held(s, d), s.cl[d].fd \in ClientFds
        PROVE  Held(r, d) /\ s.cl[d].fd # f
    <3>1. s.cl[d].fd # f
      BY <2>1, <2>2 DEF Held
    <3>. QED  BY <1>2, <2>2, <3>1 DEF Held
  <2>3. ASSUME NEW v \in WorkerIds, NEW g \in ClientFds, NEW d,
               d = r.loops[v].entries[g].ctx, d # NoCtx
        PROVE  r.cl[d].st \in Alive /\ Held(r, d)
    <3>1. d = s.loops[v].entries[g].ctx
      BY <1>3, <1>4, <2>3
    <3>2. d \in Conns /\ s.cl[d].st \in Alive /\ Held(s, d)
      <4>f. EntryFacts(s, v, g, d)
        BY <2>3, <3>1, EntryIs
      <4>. QED  BY <2>1, <4>f DEF EntryFacts
    <3>3. s.cl[d].worker = v /\ s.cl[d].fd = g
      <4>f. EntryFacts(s, v, g, d)
        BY <2>3, <3>1, EntryIs
      <4>. QED  BY <3>2, <4>f DEF EntryFacts
    <3>4. d # c
      <4>1. SUFFICES ASSUME d = c PROVE FALSE
        OBVIOUS
      <4>2. v = 0 /\ g = f
        BY <2>1, <3>3, <4>1 DEF f
      <4>3. r.loops[v].entries[g] = NoEntry
        BY <1>2, <1>3, <2>1, <4>2
      <4>. QED  BY <2>3, <4>3 DEF NoEntry
    <3>. QED  BY <1>2, <2>2, <3>2, <3>3, <3>4
  <2>4. ASSUME NEW n \in Nodes, NEW d, d = r.srv.routing[n], d # NoCtx
        PROVE  r.cl[d].st = "active" /\ r.cl[d].node = n /\ Held(r, d)
    <3>1. d = s.srv.routing[n] /\ d \in Conns
      BY <1>2, <2>4, FromTypes DEF MaybeConn
    <3>2. s.cl[d].st = "active" /\ s.cl[d].node = n /\ Held(s, d)
      BY <2>1, <2>4, <3>1 DEF Tidy, TidyRoutes
    <3>3. s.cl[d].fd \in ClientFds
      BY <3>1, <3>2 DEF Sound, ClientsOK, Alive
    <3>4. ~Stale(s, n)
      <4>1. s.srv.keys[n] # NoCtx
        BY <2>4, <3>1 DEF Sound, RoutesOK
      <4>2. s.cl[s.srv.keys[n]].st = "active"
        BY <2>1, <4>1 DEF Tidy, TidyKeys
      <4>. QED  BY <4>2 DEF Stale, Freed
    <3>5. d # c
      BY <1>2, <2>4, <3>1, <3>2, <3>4
    <3>. QED  BY <1>2, <2>2, <3>1, <3>2, <3>3, <3>5
  <2>5. ASSUME NEW n \in Nodes, r.srv.keys[n] # NoCtx
        PROVE  r.cl[r.srv.keys[n]].st = "active"
    <3>1. PICK d : d = r.srv.keys[n]
      OBVIOUS
    <3>2. d = s.srv.keys[n] /\ d \in Conns
      BY <1>2, <2>5, <3>1, FromTypes DEF MaybeConn
    <3>3. s.cl[d].st = "active"
      BY <2>1, <2>5, <3>1, <3>2 DEF Tidy, TidyKeys
    <3>4. d # c
      BY <1>2, <1>15, <3>1, <3>3
    <3>. QED  BY <1>2, <3>1, <3>2, <3>3, <3>4
  <2>6. ASSUME NEW v \in WorkerIds, NEW q, q = Queue(r.loops[v]), NEW i \in 1..Len(q)
        PROVE  /\ q[i].job # "write"
               /\ q[i].job = "register" => r.srv.table[q[i].fd] = q[i].of
               /\ q[i].job = "cleanup" => \A n \in Nodes : r.srv.routing[n] # q[i].of
    <3>1. q = Queue(s.loops[v])
      BY <1>2, <2>6
    <3>2. /\ q[i].job # "write"
          /\ q[i].job = "register" => s.srv.table[q[i].fd] = q[i].of /\ q[i].of # c
          /\ q[i].job = "cleanup" => q[i].of \in Conns /\ \A n \in Nodes : s.srv.routing[n] # q[i].of
      BY <2>1, <3>1 DEF Tidy, TidyJobs, NotQueued, Sound, JobsOK
    <3>3. ASSUME q[i].job = "register" PROVE q[i].fd \in ClientFds
      <4>1. RegisterOK(s, wk, v, i)
        BY <3>1, <3>3 DEF Sound, JobsOK
      <4>2. q[i].of \in Conns /\ s.cl[q[i].of].st = "waiting" /\ s.cl[q[i].of].fd = q[i].fd
        BY <3>1, <4>1 DEF RegisterOK
      <4>. QED  BY <4>2 DEF Sound, ClientsOK, Alive
    <3>4. ASSUME q[i].job = "register" PROVE r.srv.table[q[i].fd] = q[i].of
      BY <1>2, <2>1, <3>2, <3>3, <3>4
    <3>5. ASSUME q[i].job = "cleanup", NEW n \in Nodes PROVE r.srv.routing[n] # q[i].of
      BY <1>2, <1>3, <3>2, <3>5
    <3>. QED  BY <3>2, <3>4, <3>5
  <2>7. LET d == wk[0].ctx
        IN d # NoCtx /\ r.cl[d].st # "freed" => r.loops[0].entries[r.cl[d].fd].ctx = d
    <3>1. PICK d : d = wk[0].ctx
      OBVIOUS
    <3>2. SUFFICES ASSUME d # NoCtx, r.cl[d].st # "freed"
                   PROVE  r.loops[0].entries[r.cl[d].fd].ctx = d
      BY <3>1
    <3>3. d \in Conns /\ d # c /\ r.cl[d] = s.cl[d]
      BY <1>2, <1>3, <3>1, <3>2 DEF WorkType, MaybeConn
    <3>4. /\ s.cl[d].st \in Alive /\ s.cl[d].fd \in ClientFds /\ s.loops[0].entries[s.cl[d].fd].ctx = d
          /\ Held(s, d)
      <4>1. WorkFacts(s, 0, d)
        BY <1>3, <3>1, <3>2, WorkIs
      <4>. QED  BY <2>1, <3>2, <3>3, <4>1 DEF WorkFacts
    <3>5. PICK g \in Fds : g = s.cl[d].fd
      BY <1>3, <3>4
    <3>6. g # f
      BY <2>2, <3>3, <3>4, <3>5
    <3>7. r.loops[0].entries[g].ctx = s.loops[0].entries[g].ctx
      BY <1>3, <1>4, <3>6
    <3>. QED  BY <3>3, <3>4, <3>5, <3>7
  <2>en. TidyEntries(r)
    BY <2>3 DEF TidyEntries
  <2>ro. TidyRoutes(r)
    BY <2>4 DEF TidyRoutes
  <2>ke. TidyKeys(r)
    BY <2>5 DEF TidyKeys
  <2>jo. TidyJobs(r)
    BY <2>6 DEF TidyJobs
  <2>wo. TidyWork(r, wk)
    BY <2>7 DEF TidyWork
  <2>. QED  BY <2>en, <2>ro, <2>ke, <2>jo, <2>wo DEF Tidy
<1>16. /\ \A v \in WorkerIds : LoopOK(r.loops[v])
       /\ \A v \in WorkerIds \ {0} : Deaf(r.loops[v]) /\ wk[v] = Idle
  BY <1>2 DEF Sound
<1>17. Sound(r, wk)
  BY <1>2, <1>8, <1>9, <1>10, <1>11, <1>12, <1>13, <1>14, <1>15, <1>16 DEF Sound
<1>. QED  BY <1>1, <1>2, <1>17

-----------------------------------------------------------------------------
(* A loop in place of another.                                             *)

LEMMA OnLoopIs ==
  ASSUME NEW s \in StateType, NEW w \in WorkerIds, NEW m \in LoopType
  PROVE  LET r == OnLoop(s, w, m)
         IN /\ r \in StateType /\ r.srv = s.srv /\ r.cl = s.cl /\ r.hit = s.hit
            /\ r.loops[w] = m
            /\ \A v \in WorkerIds : v # w => r.loops[v] = s.loops[v]
<1>1. PICK r : r = OnLoop(s, w, m)
  OBVIOUS
<1>2. PICK g : g = [s.loops EXCEPT ![w] = m]
  OBVIOUS
<1>3. r = [s EXCEPT !.loops = g]
  BY <1>1, <1>2 DEF OnLoop, StateType
<1>4. g \in [WorkerIds -> LoopType] /\ g[w] = m /\ \A v \in WorkerIds : v # w => g[v] = s.loops[v]
  BY <1>2, FromTypes
<1>5. /\ r \in StateType /\ r.srv = s.srv /\ r.cl = s.cl /\ r.hit = s.hit /\ r.loops = g
  BY <1>3, <1>4 DEF StateType
<1>. QED  BY <1>1, <1>4, <1>5

\* A loop may move on where its queue and its contexts stay.
LEMMA LoopSwapped ==
  ASSUME NEW s \in StateType, NEW wk \in [WorkerIds -> WorkType], Sound(s, wk), NEW w \in WorkerIds,
         NEW m \in LoopType, LoopOK(m), w # 0 /\ Deaf(s.loops[w]) => Deaf(m),
         Queue(m) = Queue(s.loops[w]),
         \A f \in ClientFds : m.entries[f].ctx = s.loops[w].entries[f].ctx,
         m.entries[Listen].ctx \in {NoCtx, Acceptor},
         NEW vk \in [WorkerIds -> WorkType], Taken(s, wk, vk),
         \A v \in WorkerIds : v # w => vk[v] = wk[v],
         w # 0 => vk[w] = wk[w],
         m.at \in {"frames", "writable"} => vk[w].ctx # NoCtx,
         m.at = "frames" => vk[w].frames # <<>>
  PROVE  /\ OnLoop(s, w, m) \in StateType /\ Sound(OnLoop(s, w, m), vk)
         /\ OnLoop(s, w, m).srv = s.srv /\ OnLoop(s, w, m).cl = s.cl
         /\ OnLoop(s, w, m).loops[w] = m
         /\ \A v \in WorkerIds : v # w => OnLoop(s, w, m).loops[v] = s.loops[v]
<1>1. PICK r : r = OnLoop(s, w, m)
  OBVIOUS
<1>2. /\ r \in StateType /\ r.srv = s.srv /\ r.cl = s.cl /\ r.loops[w] = m
      /\ \A v \in WorkerIds : v # w => r.loops[v] = s.loops[v]
  BY <1>1, OnLoopIs
<1>3. Alike(s, r)
  <2>1. \A v \in WorkerIds :
          /\ Queue(r.loops[v]) = Queue(s.loops[v])
          /\ \A f \in ClientFds : r.loops[v].entries[f].ctx = s.loops[v].entries[f].ctx
    BY <1>2
  <2>. QED  BY <1>2, <2>1 DEF Alike
<1>4. Placed(r, vk)
  <2>1. \A v \in WorkerIds : LoopOK(r.loops[v])
    BY <1>2 DEF Sound
  <2>2. \A v \in WorkerIds \ {0} : Deaf(r.loops[v]) /\ vk[v] = Idle
    BY <1>2 DEF Sound
  <2>3. ListenerOK(r)
    BY <1>2 DEF Sound, ListenerOK
  <2>4. \A v \in WorkerIds :
          /\ r.loops[v].at \in {"frames", "writable"} => vk[v].ctx # NoCtx
          /\ r.loops[v].at = "frames" => vk[v].frames # <<>>
    BY <1>2 DEF Sound, WorkOK
  <2>. QED  BY <2>1, <2>2, <2>3, <2>4 DEF Placed
<1>5. Sound(r, vk)
  BY <1>2, <1>3, <1>4, Similar
<1>. QED  BY <1>1, <1>2, <1>5

LEMMA SameWork ==
  ASSUME NEW s, NEW wk
  PROVE  Taken(s, wk, wk)
BY DEF Taken

LEMMA LoopMoved ==
  ASSUME NEW s \in StateType, NEW wk \in [WorkerIds -> WorkType], Sound(s, wk), NEW w \in WorkerIds,
         NEW m, Moved(s.loops[w], m)
  PROVE  /\ OnLoop(s, w, m) \in StateType /\ Sound(OnLoop(s, w, m), wk)
         /\ OnLoop(s, w, m).srv = s.srv /\ OnLoop(s, w, m).cl = s.cl
         /\ OnLoop(s, w, m).loops[w] = m
         /\ \A v \in WorkerIds : v # w => OnLoop(s, w, m).loops[v] = s.loops[v]
<1>1. /\ m \in LoopType /\ LoopOK(m) /\ (Deaf(s.loops[w]) => Deaf(m)) /\ Queue(m) = Queue(s.loops[w])
      /\ m.entries = s.loops[w].entries /\ m.at \notin {"frames", "writable"}
  BY DEF Moved
<1>2. m.entries[Listen].ctx \in {NoCtx, Acceptor}
  BY <1>1 DEF Sound, ListenerOK
<1>3. PICK r : r = OnLoop(s, w, m)
  OBVIOUS
<1>4. Taken(s, wk, wk) /\ \A f \in ClientFds : m.entries[f].ctx = s.loops[w].entries[f].ctx
  BY <1>1, SameWork
<1>5. /\ r \in StateType /\ Sound(r, wk) /\ r.srv = s.srv /\ r.cl = s.cl /\ r.loops[w] = m
      /\ \A v \in WorkerIds : v # w => r.loops[v] = s.loops[v]
  BY <1>1, <1>2, <1>3, <1>4, LoopSwapped
<1>. QED  BY <1>3, <1>5

\* Undefined behaviour, where the process does not die of it.
LEMMA UndefinedSound ==
  ASSUME NEW s \in StateType, NEW wk \in [WorkerIds -> WorkType], Sound(s, wk), NEW b \in BOOLEAN
  PROVE  LET r == [s EXCEPT !.srv = [s.srv EXCEPT !.undefined = b]]
         IN /\ r \in StateType /\ Sound(r, wk) /\ r.srv.crashed = s.srv.crashed
            /\ r.loops = s.loops /\ r.cl = s.cl
<1>1. PICK r : r = [s EXCEPT !.srv = [s.srv EXCEPT !.undefined = b]]
  OBVIOUS
<1>2. r \in StateType /\ r.loops = s.loops /\ r.cl = s.cl /\ r.srv = [s.srv EXCEPT !.undefined = b]
  BY <1>1 DEF StateType, ServerType
<1>3. /\ r.srv.handlers = s.srv.handlers /\ r.srv.routing = s.srv.routing
      /\ r.srv.keys = s.srv.keys /\ r.srv.table = s.srv.table
      /\ r.srv.active = s.srv.active /\ r.srv.pending = s.srv.pending
      /\ r.srv.stray = s.srv.stray /\ r.srv.crashed = s.srv.crashed
  BY <1>2 DEF StateType, ServerType
<1>4. Alike(s, r)
  BY <1>2, <1>3 DEF Alike
<1>5. Placed(r, wk)
  <2>1. WorkOK(s, wk) /\ ListenerOK(s)
    BY DEF Sound
  <2>. QED  BY <1>2, <2>1 DEF Sound, Placed, WorkOK, ListenerOK
<1>6. Sound(r, wk)
  BY <1>2, <1>4, <1>5, Similar, SameWork
<1>. QED  BY <1>1, <1>2, <1>3, <1>6

-----------------------------------------------------------------------------
(* What the functions of the server keep.                                  *)

Keeps(s, r, wk) ==
  /\ r \in StateType /\ Sound(r, wk) /\ r.srv.crashed = s.srv.crashed
  /\ \A v \in WorkerIds : r.loops[v].at = s.loops[v].at

LEMMA CleanupKeeps ==
  ASSUME NEW s \in StateType, NEW wk \in [WorkerIds -> WorkType], Sound(s, wk),
         NEW w \in WorkerIds, NEW c \in Conns, s.cl[c].st \in Alive, NotQueued(s, c),
         ~s.srv.stray => w = 0 /\ s.cl[c].worker = 0 /\ Held(s, c)
  PROVE  Keeps(s, clientCleanup(s, w, c), wk)
BY CleanupSound DEF Keeps

LEMMA UndefinedKeeps ==
  ASSUME NEW s \in StateType, NEW wk \in [WorkerIds -> WorkType], Sound(s, wk)
  PROVE  Keeps(s, Undefined(s), wk)
BY UndefinedSound, UndefinedIs DEF Keeps

\* A client that is registered, is at work, has an entry or is a handler by number
\* does not wait for its registration with a loop.
LEMMA Known ==
  ASSUME NEW s, NEW wk, Sound(s, wk), NEW c,
         \/ s.cl[c].st # "waiting"
         \/ \E w \in WorkerIds : wk[w].ctx = c
         \/ \E w \in WorkerIds, f \in ClientFds : s.loops[w].entries[f].ctx = c
         \/ \E f \in ClientFds : s.srv.handlers[f] = c
  PROVE  NotQueued(s, c)
<1>. SUFFICES ASSUME NEW w \in WorkerIds, NEW i \in 1..Len(Queue(s.loops[w])),
                     Queue(s.loops[w])[i].job = "register", Queue(s.loops[w])[i].of = c
              PROVE  FALSE
  BY DEF NotQueued
<1>1. RegisterOK(s, wk, w, i)
  BY DEF Sound, JobsOK
<1>. QED  BY <1>1 DEF RegisterOK

LEMMA ModFdIs ==
  ASSUME NEW l \in LoopType, NEW f \in Fds, NEW b \in BOOLEAN
  PROVE  LET m == ModFd(l, f, b)
         IN /\ m \in LoopType /\ Queue(m) = Queue(l) /\ m.at = l.at
            /\ LoopOK(l) => LoopOK(m)
            /\ Deaf(l) => Deaf(m)
            /\ \A g \in Fds : m.entries[g].ctx = l.entries[g].ctx
<1>1. CASE l.entries[f] = NoEntry
  BY <1>1 DEF ModFd
<1>2. CASE l.entries[f] # NoEntry
  <2>1. PICK m : m = ModFd(l, f, b)
    OBVIOUS
  <2>2. PICK e : e = [l.entries EXCEPT ![f].out = b]
    OBVIOUS
  <2>3. m = [l EXCEPT !.entries = e]
    BY <1>2, <2>1, <2>2 DEF ModFd, LoopType
  <2>4. /\ e \in [Fds -> [ctx : MaybeConn \cup {Acceptor}, out : BOOLEAN]]
        /\ \A g \in Fds : e[g].ctx = l.entries[g].ctx
        /\ \A g \in Fds : g # f => e[g] = l.entries[g]
    BY <2>2 DEF LoopType
  <2>5. /\ m \in LoopType /\ m.entries = e /\ m.at = l.at /\ m.batch = l.batch /\ m.jobs = l.jobs
        /\ m.wake = l.wake /\ m.running = l.running /\ m.rebuild = l.rebuild
        /\ m.polled = l.polled /\ m.ready = l.ready
    BY <2>3, <2>4 DEF LoopType
  <2>6. Deaf(l) => Deaf(m)
    BY <1>2, <2>4, <2>5 DEF Deaf
  <2>. QED  BY <2>1, <2>4, <2>5, <2>6 DEF Queue, LoopOK
<1>. QED  BY <1>1, <1>2

\* Bytes are kept for a client, or gone.
LEMMA Buffers ==
  ASSUME NEW s \in StateType, NEW wk \in [WorkerIds -> WorkType], Sound(s, wk),
         NEW w \in WorkerIds, NEW c \in Conns, NEW a \in BOOLEAN, NEW b \in BOOLEAN
  PROVE  Keeps(s, OnLoop([s EXCEPT !.cl[c].buffered = a], w, ModFd(s.loops[w], s.cl[c].fd, b)), wk)
<1>1. PICK u : u = [s EXCEPT !.cl[c].buffered = a]
  OBVIOUS
<1>2. PICK k : k = [s.cl EXCEPT ![c].buffered = a]
  OBVIOUS
<1>3. /\ k \in [Conns -> ClientType]
      /\ \A d \in Conns : /\ k[d].st = s.cl[d].st /\ k[d].fd = s.cl[d].fd
                          /\ k[d].worker = s.cl[d].worker /\ k[d].node = s.cl[d].node
  BY <1>2, FromTypes DEF ClientType
<1>4. u \in StateType /\ u.loops = s.loops /\ u.srv = s.srv /\ u.cl = k
  BY <1>1, <1>2, <1>3 DEF StateType
<1>5. Alike(s, u)
  BY <1>3, <1>4 DEF Alike
<1>6. Placed(u, wk)
  <2>1. WorkOK(s, wk) /\ ListenerOK(s)
    BY DEF Sound
  <2>. QED  BY <1>4, <2>1 DEF Sound, Placed, WorkOK, ListenerOK
<1>7. Sound(u, wk)
  BY <1>4, <1>5, <1>6, Similar, SameWork
<1>8. PICK m : m = ModFd(s.loops[w], s.cl[c].fd, b)
  OBVIOUS
<1>9. /\ m \in LoopType /\ Queue(m) = Queue(u.loops[w]) /\ m.at = s.loops[w].at
      /\ LoopOK(m) /\ (Deaf(u.loops[w]) => Deaf(m))
      /\ \A g \in Fds : m.entries[g].ctx = u.loops[w].entries[g].ctx
  <2>1. s.loops[w] \in LoopType /\ s.cl[c].fd \in Fds /\ LoopOK(s.loops[w])
    BY FromTypes DEF Sound, ClientType
  <2>2. PICK l : l = s.loops[w]
    OBVIOUS
  <2>3. PICK f : f = s.cl[c].fd
    OBVIOUS
  <2>4. /\ m \in LoopType /\ Queue(m) = Queue(l) /\ m.at = l.at /\ LoopOK(m) /\ (Deaf(l) => Deaf(m))
        /\ \A g \in Fds : m.entries[g].ctx = l.entries[g].ctx
    BY <1>8, <2>1, <2>2, <2>3, ModFdIs
  <2>. QED  BY <1>4, <2>2, <2>4
<1>10. /\ \A f \in ClientFds : m.entries[f].ctx = u.loops[w].entries[f].ctx
       /\ m.entries[Listen].ctx \in {NoCtx, Acceptor}
       /\ m.at \in {"frames", "writable"} => wk[w].ctx # NoCtx
       /\ m.at = "frames" => wk[w].frames # <<>>
  BY <1>4, <1>9, <1>7, Basics DEF Sound, ListenerOK, WorkOK
<1>11. PICK r : r = OnLoop(u, w, m)
  OBVIOUS
<1>12. /\ r \in StateType /\ Sound(r, wk) /\ r.srv = u.srv /\ r.loops[w] = m
       /\ \A v \in WorkerIds : v # w => r.loops[v] = u.loops[v]
  <2>1. Taken(u, wk, wk)
    BY SameWork
  <2>2. m \in LoopType /\ LoopOK(m) /\ Queue(m) = Queue(u.loops[w]) /\ (w # 0 /\ Deaf(u.loops[w]) => Deaf(m))
    BY <1>9
  <2>3. u \in StateType /\ Sound(u, wk)
    BY <1>4, <1>7
  <2>. QED  BY <1>10, <1>11, <2>1, <2>2, <2>3, LoopSwapped
<1>13. Keeps(s, r, wk)
  BY <1>4, <1>9, <1>12 DEF Keeps
<1>. QED  BY <1>1, <1>8, <1>11, <1>13

LEMMA WriteKeeps ==
  ASSUME NEW s \in StateType, NEW wk \in [WorkerIds -> WorkType], Sound(s, wk),
         NEW w \in WorkerIds, NEW c \in Conns, s.cl[c].st \in Alive, NotQueued(s, c),
         ~s.srv.stray => w = 0 /\ s.cl[c].worker = 0 /\ Held(s, c), NEW o
  PROVE  /\ Keeps(s, writeOrBuffer(s, w, c, o), wk)
         /\ Keeps(s, flushWriteBuffer(s, w, c, o), wk)
<1>1. Keeps(s, s, wk) /\ Keeps(s, clientCleanup(s, w, c), wk)
  BY CleanupKeeps DEF Keeps
<1>2. /\ Keeps(s, OnLoop([s EXCEPT !.cl[c].buffered = TRUE], w, ModFd(s.loops[w], s.cl[c].fd, TRUE)), wk)
      /\ Keeps(s, OnLoop([s EXCEPT !.cl[c].buffered = FALSE], w, ModFd(s.loops[w], s.cl[c].fd, FALSE)), wk)
  BY Buffers
<1>3. s.cl[c].buffered \in BOOLEAN
  BY FromTypes DEF ClientType
<1>4. Keeps(s, writeOrBuffer(s, w, c, o), wk)
  BY <1>1, <1>2, <1>3 DEF writeOrBuffer
<1>5. Keeps(s, flushWriteBuffer(s, w, c, o), wk)
  BY <1>1, <1>2, <1>3 DEF flushWriteBuffer
<1>. QED  BY <1>4, <1>5

-----------------------------------------------------------------------------
(* Jobs for a loop.                                                        *)

\* What a job must be for a loop to get it.
MayQueue(s, wk, v, j) ==
  /\ j \in JobType
  /\ j.job = "write" => s.srv.stray
  /\ j.job = "cleanup" => /\ v = 0 /\ j.of \in Conns /\ s.cl[j.of].st \in Was
                          /\ ~s.srv.stray => \A n \in Nodes : s.srv.routing[n] # j.of
  /\ j.job = "register" =>
       /\ j.of \in Conns /\ s.cl[j.of].st = "waiting" /\ s.cl[j.of].worker = v
       /\ s.cl[j.of].fd = j.fd /\ NotQueued(s, j.of)
       /\ \A f \in ClientFds : s.srv.handlers[f] # j.of
       /\ \A u \in WorkerIds : wk[u].ctx # j.of /\ \A f \in ClientFds : s.loops[u].entries[f].ctx # j.of
       /\ ~s.srv.stray => s.srv.table[j.fd] = j.of

\* The other jobs of the loops stay what they are, a new one is the last.
LEMMA ExecuteKeeps ==
  ASSUME NEW s \in StateType, NEW wk \in [WorkerIds -> WorkType], Sound(s, wk), NEW v \in WorkerIds,
         NEW j, MayQueue(s, wk, v, j)
  PROVE  Keeps(s, OnLoop(s, v, Execute(s.loops[v], j)), wk)
<1>1. j \in JobType /\ s.loops[v] \in LoopType /\ LoopOK(s.loops[v])
  BY FromTypes DEF MayQueue, Sound
<1>2. PICK m : m = Execute(s.loops[v], j)
  OBVIOUS
<1>3. PICK p : p = Queue(m)
  OBVIOUS
<1>4. PICK q : q = Queue(s.loops[v])
  OBVIOUS
<1>5. /\ m \in LoopType
      /\ m.entries = s.loops[v].entries /\ m.at = s.loops[v].at /\ m.running = s.loops[v].running
      /\ m.rebuild = s.loops[v].rebuild
      /\ m.polled = s.loops[v].polled /\ m.ready = s.loops[v].ready /\ m.batch = s.loops[v].batch /\ m.wake
      /\ Len(p) = Len(q) + 1 /\ Len(q) \in Nat /\ p[Len(q) + 1] = j
      /\ \A i \in 1..Len(q) : p[i] = q[i]
  BY <1>1, <1>2, <1>3, <1>4, QueueAppended
<1>6. PICK r : r = OnLoop(s, v, m)
  OBVIOUS
<1>7. /\ r \in StateType /\ r.srv = s.srv /\ r.cl = s.cl /\ r.loops[v] = m
      /\ \A u \in WorkerIds : u # v => r.loops[u] = s.loops[u]
  BY <1>5, <1>6, OnLoopIs
<1>8. LoopOK(m) /\ (Deaf(s.loops[v]) => Deaf(m))
  BY <1>1, <1>5 DEF LoopOK, Deaf
<1>9. \A u \in WorkerIds : r.loops[u].entries = s.loops[u].entries /\ r.loops[u].at = s.loops[u].at
  BY <1>5, <1>7
<1>10. /\ ClientsOK(r) /\ EntriesOK(r) /\ ListenerOK(r) /\ HandlersOK(r) /\ RoutesOK(r) /\ CountOK(r)
       /\ WorkOK(r, wk)
  <2>1. ClientsOK(r) /\ HandlersOK(r) /\ RoutesOK(r) /\ CountOK(r)
    BY <1>7 DEF Sound, ClientsOK, HandlersOK, RoutesOK, CountOK, Living
  <2>2. EntriesOK(r) /\ ListenerOK(r)
    <3>1. EntriesOK(s) /\ ListenerOK(s)
      BY DEF Sound
    <3>2. ListenerOK(r)
      BY <1>9, <3>1 DEF ListenerOK
    <3>3. ASSUME NEW u \in WorkerIds, NEW f \in ClientFds, NEW c, c = r.loops[u].entries[f].ctx, c # NoCtx
          PROVE  /\ c \in Conns /\ r.cl[c].st \in Alive \cup {"freed"}
                 /\ r.cl[c].st \in Alive => r.cl[c].worker = u /\ r.cl[c].fd = f
      <4>1. c = s.loops[u].entries[f].ctx
        BY <1>9, <3>3
      <4>f. EntryFacts(s, u, f, c)
        BY <3>3, <4>1, EntryIs
      <4>. QED  BY <1>7, <4>f DEF EntryFacts
    <3>4. EntriesOK(r)
      BY <3>3 DEF EntriesOK, EntryOK
    <3>. QED  BY <3>2, <3>4
  <2>3. WorkOK(r, wk)
    BY <1>7, <1>9 DEF Sound, WorkOK
  <2>. QED  BY <2>1, <2>2, <2>3
<1>11. /\ \A u \in WorkerIds : LoopOK(r.loops[u])
       /\ \A u \in WorkerIds \ {0} : Deaf(r.loops[u]) /\ wk[u] = Idle
  BY <1>7, <1>8 DEF Sound
<1>12. ASSUME NEW u \in WorkerIds, NEW t, t = Queue(r.loops[u]), NEW i \in 1..Len(t)
       PROVE  \/ /\ i \in 1..Len(Queue(s.loops[u])) /\ t[i] = Queue(s.loops[u])[i]
              \/ /\ u = v /\ i = Len(q) + 1 /\ t[i] = j
  <2>1. CASE u # v
    BY <1>7, <1>12, <2>1
  <2>2. CASE u = v
    <3>1. t = p /\ Queue(s.loops[u]) = q
      BY <1>3, <1>4, <1>7, <1>12, <2>2
    <3>. QED  BY <1>5, <1>12, <2>2, <3>1
  <2>. QED  BY <2>1, <2>2
<1>13. JobsOK(r, wk)
  <2>. SUFFICES ASSUME NEW u \in WorkerIds, NEW t, t = Queue(r.loops[u]), NEW i \in 1..Len(t)
                PROVE  /\ t[i].job = "register" => RegisterOK(r, wk, u, i)
                       /\ t[i].job = "cleanup" => u = 0 /\ t[i].of \in Conns /\ r.cl[t[i].of].st \in Was
    BY DEF JobsOK
  <2>1. CASE i \in 1..Len(Queue(s.loops[u])) /\ t[i] = Queue(s.loops[u])[i]
    <3>1. /\ t[i].job = "register" => RegisterOK(s, wk, u, i)
          /\ t[i].job = "cleanup" => u = 0 /\ t[i].of \in Conns /\ s.cl[t[i].of].st \in Was
      BY <2>1 DEF Sound, JobsOK
    <3>2. ASSUME t[i].job = "register" PROVE RegisterOK(r, wk, u, i)
      <4>1. PICK d : d = t[i].of
        OBVIOUS
      <4>2. /\ d \in Conns /\ s.cl[d].st = "waiting" /\ s.cl[d].worker = u /\ s.cl[d].fd = t[i].fd
            /\ \A g \in ClientFds : s.srv.handlers[g] # d
            /\ \A x \in WorkerIds : wk[x].ctx # d /\ \A g \in ClientFds : s.loops[x].entries[g].ctx # d
            /\ \A k \in 1..Len(Queue(s.loops[u])) :
                 Queue(s.loops[u])[k].job = "register" /\ Queue(s.loops[u])[k].of = d => k = i
        BY <2>1, <3>1, <3>2, <4>1 DEF RegisterOK
      <4>3. j.job = "register" => j.of # d
        BY <2>1, <3>2, <4>1 DEF MayQueue, NotQueued
      <4>4. \A k \in 1..Len(t) : t[k].job = "register" /\ t[k].of = d => k = i
        BY <1>12, <4>2, <4>3
      <4>. QED  BY <1>7, <1>9, <4>1, <4>2, <4>4 DEF RegisterOK
    <3>. QED  BY <1>7, <3>1, <3>2
  <2>2. CASE u = v /\ i = Len(q) + 1 /\ t[i] = j
    <3>1. ASSUME j.job = "register" PROVE RegisterOK(r, wk, u, i)
      <4>1. \A k \in 1..Len(t) : t[k].job = "register" /\ t[k].of = j.of => k = i
        BY <1>12, <2>2, <3>1 DEF MayQueue, NotQueued
      <4>. QED  BY <1>7, <1>9, <2>2, <3>1, <4>1 DEF RegisterOK, MayQueue
    <3>. QED  BY <1>7, <2>2, <3>1 DEF MayQueue
  <2>. QED  BY <1>12, <2>1, <2>2
<1>14. ASSUME ~r.srv.stray PROVE Tidy(r, wk)
  <2>1. Tidy(s, wk) /\ ~s.srv.stray
    BY <1>7, <1>14 DEF Sound
  <2>2. ASSUME NEW u \in WorkerIds, NEW t, t = Queue(r.loops[u]), NEW i \in 1..Len(t)
        PROVE  /\ t[i].job # "write"
               /\ t[i].job = "register" => r.srv.table[t[i].fd] = t[i].of
               /\ t[i].job = "cleanup" => \A n \in Nodes : r.srv.routing[n] # t[i].of
    <3>1. CASE i \in 1..Len(Queue(s.loops[u])) /\ t[i] = Queue(s.loops[u])[i]
      BY <1>7, <2>1, <3>1 DEF Tidy, TidyJobs
    <3>2. CASE t[i] = j
      BY <1>7, <2>1, <3>2 DEF MayQueue, JobType
    <3>. QED  BY <1>12, <2>2, <3>1, <3>2
  <2>3. \A c : Held(r, c) <=> Held(s, c)
    BY <1>7 DEF Held
  <2>4. \A u \in WorkerIds, f \in ClientFds :
          LET c == r.loops[u].entries[f].ctx
          IN c # NoCtx => r.cl[c].st \in Alive /\ Held(r, c)
    BY <1>7, <1>9, <2>1, <2>3 DEF Tidy, TidyEntries
  <2>5. TidyRoutes(r)
    BY <1>7, <2>1, <2>3 DEF Tidy, TidyRoutes
  <2>8. TidyKeys(r)
    BY <1>7, <2>1 DEF Tidy, TidyKeys
  <2>6. LET c == wk[0].ctx
        IN c # NoCtx /\ r.cl[c].st # "freed" => r.loops[0].entries[r.cl[c].fd].ctx = c
    BY <1>7, <1>9, <2>1, Basics DEF Tidy, TidyWork
  <2>7. \A u \in WorkerIds : \A i \in 1..Len(Queue(r.loops[u])) :
          LET k == Queue(r.loops[u])[i]
          IN /\ k.job # "write"
             /\ k.job = "register" => r.srv.table[k.fd] = k.of
             /\ k.job = "cleanup" => \A n \in Nodes : r.srv.routing[n] # k.of
    BY <2>2
  <2>en. TidyEntries(r)
    BY <2>4 DEF TidyEntries
  <2>jo. TidyJobs(r)
    BY <2>7 DEF TidyJobs
  <2>wo. TidyWork(r, wk)
    BY <2>6 DEF TidyWork
  <2>. QED  BY <2>5, <2>8, <2>en, <2>jo, <2>wo DEF Tidy
<1>15. Sound(r, wk)
  BY <1>10, <1>11, <1>13, <1>14 DEF Sound
<1>16. Keeps(s, r, wk)
  BY <1>7, <1>9, <1>15 DEF Keeps
<1>. QED  BY <1>2, <1>6, <1>16

\* A frame for a number, which is its handler's: until a stray close that of worker 0.
LEMMA WriteByFdKeeps ==
  ASSUME NEW s \in StateType, NEW wk \in [WorkerIds -> WorkType], Sound(s, wk), NEW w \in WorkerIds,
         NEW f \in ClientFds, NEW current, NEW o,
         ~s.srv.stray => /\ w = 0 /\ current = 0
                         /\ \E t \in Conns : s.srv.handlers[f] = t /\ s.cl[t].st = "active" /\ Held(s, t)
  PROVE  Keeps(s, writeByFd(s, w, f, current, o), wk)
<1>1. PICK h : h = s.srv.handlers[f]
  OBVIOUS
<1>2. Keeps(s, s, wk)
  BY DEF Keeps
<1>3. ASSUME h # NoCtx
      PROVE  /\ h \in Conns /\ s.cl[h].st \in Alive /\ NotQueued(s, h)
             /\ ~s.srv.stray => w = 0 /\ s.cl[h].worker = 0 /\ Held(s, h) /\ current = 0
  <2>1. h \in Conns /\ s.cl[h].st \in Alive
    BY <1>1, <1>3, HandlerIs
  <2>2. NotQueued(s, h)
    BY <1>1, Known
  <2>3. ~s.srv.stray => s.cl[h].st = "active" /\ Held(s, h)
    BY <1>1
  <2>4. s.cl[h].st = "active" => s.cl[h].worker = 0
    BY <2>1 DEF Sound, ClientsOK
  <2>. QED  BY <2>1, <2>2, <2>3, <2>4
<1>4. ASSUME h # NoCtx PROVE Keeps(s, writeOrBuffer(s, w, h, o), wk)
  BY <1>3, <1>4, WriteKeeps
<1>5. ASSUME h # NoCtx, s.cl[h].worker # current
      PROVE  Keeps(s, OnLoop(s, s.cl[h].worker,
                             Execute(s.loops[s.cl[h].worker], [job |-> "write", fd |-> f, of |-> NoCtx])), wk)
  <2>1. PICK j : j = [job |-> "write", fd |-> f, of |-> NoCtx]
    OBVIOUS
  <2>2. MayQueue(s, wk, s.cl[h].worker, j)
    BY <1>3, <1>5, <2>1 DEF MayQueue, JobType, MaybeConn
  <2>3. s.cl[h].worker \in WorkerIds
    BY <1>3, <1>5, FromTypes DEF ClientType
  <2>. QED  BY <2>1, <2>2, <2>3, ExecuteKeeps
<1>. QED  BY <1>1, <1>2, <1>4, <1>5 DEF writeByFd

-----------------------------------------------------------------------------
(* Requests and responses.                                                 *)

LEMMA KeepsAll ==
  ASSUME NEW s, NEW u, NEW r, NEW wk, Keeps(s, u, wk), Keeps(u, r, wk)
  PROVE  Keeps(s, r, wk)
BY DEF Keeps

\* Requests are remembered, and forgotten.
LEMMA PendingKeeps ==
  ASSUME NEW s \in StateType, NEW wk \in [WorkerIds -> WorkType], Sound(s, wk),
         NEW P \in SUBSET [id : Nat, from : Conns, to : Conns], NEW k \in Nat,
         \A p \in P : p \in s.srv.pending \/ (s.cl[p.from].st \in Was /\ s.cl[p.to].st \in Was)
  PROVE  LET r == [s EXCEPT !.srv = [s.srv EXCEPT !.pending = P, !.nextReq = k]]
         IN /\ Keeps(s, r, wk) /\ r.cl = s.cl /\ r.srv.stray = s.srv.stray
            /\ r.srv.handlers = s.srv.handlers /\ r.srv.table = s.srv.table
<1>1. PICK r : r = [s EXCEPT !.srv = [s.srv EXCEPT !.pending = P, !.nextReq = k]]
  OBVIOUS
<1>2. /\ r \in StateType /\ r.loops = s.loops /\ r.cl = s.cl
      /\ r.srv = [s.srv EXCEPT !.pending = P, !.nextReq = k]
  BY <1>1 DEF StateType, ServerType
<1>3. /\ r.srv.handlers = s.srv.handlers /\ r.srv.routing = s.srv.routing
      /\ r.srv.keys = s.srv.keys /\ r.srv.table = s.srv.table
      /\ r.srv.active = s.srv.active /\ r.srv.pending = P
      /\ r.srv.stray = s.srv.stray /\ r.srv.crashed = s.srv.crashed
  BY <1>2 DEF StateType, ServerType
<1>4. Alike(s, r)
  BY <1>2, <1>3 DEF Alike
<1>5. Placed(r, wk)
  <2>1. WorkOK(s, wk) /\ ListenerOK(s)
    BY DEF Sound
  <2>. QED  BY <1>2, <2>1 DEF Sound, Placed, WorkOK, ListenerOK
<1>6. Keeps(s, r, wk)
  BY <1>2, <1>3, <1>4, <1>5, Similar, SameWork DEF Keeps
<1>. QED  BY <1>1, <1>2, <1>3, <1>6

\* Whom the map has for a node, unless he was freed.
LEMMA Routed ==
  ASSUME NEW s \in StateType, NEW wk \in [WorkerIds -> WorkType], Sound(s, wk), NEW n \in Nodes,
         NEW t, t = Route(s, n), t # NoCtx
  PROVE  /\ t \in Conns /\ s.cl[t].st \in Was /\ t = s.srv.routing[n] /\ s.srv.keys[n] # NoCtx
         /\ ~Freed(s, t) => s.cl[t].st = "active" /\ s.cl[t].fd \in ClientFds /\ s.cl[t].worker = 0
         /\ ~s.srv.stray => s.cl[t].st = "active" /\ s.cl[t].node = n /\ Held(s, t)
<1>1. t = s.srv.routing[n]
  BY DEF Route
<1>2. /\ t \in Conns /\ s.cl[t].st \in Was /\ s.srv.keys[n] # NoCtx
      /\ ~s.srv.stray => s.cl[t].st = "active" /\ s.cl[t].node = n /\ Held(s, t)
  BY <1>1, RouteIs
<1>3. ~Freed(s, t) => s.cl[t].st = "active"
  BY <1>2 DEF Freed, Was
<1>4. s.cl[t].st = "active" => s.cl[t].fd \in ClientFds /\ s.cl[t].worker = 0
  BY <1>2 DEF Sound, ClientsOK, Alive
<1>. QED  BY <1>1, <1>2, <1>3, <1>4

LEMMA RequestKeeps ==
  ASSUME NEW s \in StateType, NEW wk \in [WorkerIds -> WorkType], Sound(s, wk),
         NEW c \in Conns, s.cl[c].st = "active", NEW n \in Nodes, NEW o
  PROVE  Keeps(s, routeRequest(s, 0, c, n, o), wk)
<1>1. PICK t : t = Route(s, n)
  OBVIOUS
<1>2. Keeps(s, s, wk) /\ Keeps(s, Undefined(s), wk)
  BY UndefinedKeeps DEF Keeps
<1>3. ASSUME t # NoCtx, ~Freed(s, t),
             NEW u, u = [s EXCEPT !.srv.pending = @ \cup {[id |-> s.srv.nextReq, from |-> c, to |-> t]},
                                  !.srv.nextReq = @ + 1]
      PROVE  Keeps(s, writeByFd(u, 0, s.cl[t].fd, s.cl[c].worker, o), wk)
  <2>1. /\ t \in Conns /\ s.cl[t].st = "active" /\ s.cl[t].fd \in ClientFds
        /\ ~s.srv.stray => Held(s, t)
    BY <1>1, <1>3, Routed
  <2>2. PICK P : P = s.srv.pending \cup {[id |-> s.srv.nextReq, from |-> c, to |-> t]}
    OBVIOUS
  <2>3. PICK k : k = s.srv.nextReq + 1
    OBVIOUS
  <2>4. s.srv.nextReq \in Nat /\ k \in Nat
    BY <2>3, FromTypes DEF ServerType
  <2>5. [id |-> s.srv.nextReq, from |-> c, to |-> t] \in [id : Nat, from : Conns, to : Conns]
    BY <2>1, <2>4
  <2>6. P \in SUBSET [id : Nat, from : Conns, to : Conns]
    BY <2>2, <2>5, FromTypes
  <2>7. \A p \in P : p \in s.srv.pending \/ (s.cl[p.from].st \in Was /\ s.cl[p.to].st \in Was)
    <3>1. PICK a : a = [id |-> s.srv.nextReq, from |-> c, to |-> t]
      OBVIOUS
    <3>2. \A p \in P : p \in s.srv.pending \/ p = a
      BY <2>2, <3>1
    <3>3. s.cl[a.from].st \in Was /\ s.cl[a.to].st \in Was
      BY <2>1, <3>1 DEF Was
    <3>. QED  BY <3>2, <3>3
  <2>8. u = [s EXCEPT !.srv = [s.srv EXCEPT !.pending = P, !.nextReq = k]]
    BY <1>3, <2>2, <2>3 DEF StateType, ServerType
  <2>9. /\ Keeps(s, u, wk) /\ u.cl = s.cl /\ u.srv.stray = s.srv.stray
        /\ u.srv.handlers = s.srv.handlers /\ u.srv.table = s.srv.table
    BY <2>4, <2>6, <2>7, <2>8, PendingKeeps, Zenon
  <2>10. u \in StateType /\ Sound(u, wk) /\ s.cl[c].worker = 0
    BY <2>9 DEF Keeps, Sound, ClientsOK
  <2>11. ~u.srv.stray => u.srv.handlers[s.cl[t].fd] = t /\ u.cl[t].st = "active" /\ Held(u, t)
    BY <2>1, <2>9 DEF Held
  <2>12. Keeps(u, writeByFd(u, 0, s.cl[t].fd, s.cl[c].worker, o), wk)
    BY <2>1, <2>10, <2>11, WriteByFdKeeps, Basics
  <2>. QED  BY <2>9, <2>12, KeepsAll
<1>. QED  BY <1>1, <1>2, <1>3 DEF routeRequest

LEMMA ResponseKeeps ==
  ASSUME NEW s \in StateType, NEW wk \in [WorkerIds -> WorkType], Sound(s, wk),
         NEW p \in s.srv.pending, NEW o
  PROVE  Keeps(s, routeResponse(s, 0, p, o), wk)
<1>1. PICK t : t = Route(s, s.cl[p.from].node)
  OBVIOUS
<1>2. PICK u : u = [s EXCEPT !.srv.pending = @ \ {p}]
  OBVIOUS
<1>3. /\ Keeps(s, u, wk) /\ u.cl = s.cl /\ u.srv.stray = s.srv.stray
      /\ u.srv.handlers = s.srv.handlers /\ u.srv.table = s.srv.table
  <2>1. PICK P : P = s.srv.pending \ {p}
    OBVIOUS
  <2>2. PICK k : k = s.srv.nextReq
    OBVIOUS
  <2>3. P \in SUBSET [id : Nat, from : Conns, to : Conns] /\ k \in Nat
    BY <2>1, <2>2, FromTypes DEF ServerType
  <2>4. u = [s EXCEPT !.srv = [s.srv EXCEPT !.pending = P, !.nextReq = k]]
    BY <1>2, <2>1, <2>2 DEF StateType, ServerType
  <2>5. \A q \in P : q \in s.srv.pending
    BY <2>1
  <2>. HIDE DEF Keeps
  <2>. QED  BY <2>3, <2>4, <2>5, PendingKeeps, Zenon
<1>4. u \in StateType /\ Sound(u, wk)
  BY <1>3 DEF Keeps
<1>5. Keeps(s, Undefined(u), wk)
  BY <1>3, <1>4, UndefinedKeeps, KeepsAll
<1>6. p.from \in Conns /\ (~Freed(s, p.from) => s.cl[p.from].node \in Nodes)
  <2>1. p.from \in Conns
    BY FromTypes
  <2>2. s.cl[p.from].st \in Was
    BY DEF Sound, RoutesOK
  <2>. QED  BY <2>1, <2>2 DEF Sound, ClientsOK, Was, Freed
<1>7. ASSUME ~Freed(s, p.from), t # NoCtx, ~Freed(s, t)
      PROVE  Keeps(s, writeByFd(u, 0, s.cl[t].fd, 0, o), wk)
  <2>1. /\ t \in Conns /\ s.cl[t].st = "active" /\ s.cl[t].fd \in ClientFds
        /\ ~s.srv.stray => Held(s, t)
    BY <1>1, <1>6, <1>7, Routed
  <2>2. ~u.srv.stray => u.srv.handlers[s.cl[t].fd] = t /\ u.cl[t].st = "active" /\ Held(u, t)
    BY <1>3, <2>1 DEF Held
  <2>3. Keeps(u, writeByFd(u, 0, s.cl[t].fd, 0, o), wk)
    BY <1>4, <2>1, <2>2, WriteByFdKeeps, Basics
  <2>. QED  BY <1>3, <2>3, KeepsAll
<1>. QED  BY <1>1, <1>2, <1>3, <1>5, <1>7 DEF routeResponse

-----------------------------------------------------------------------------
(* Registration, and the state machine of a client.                        *)

LEMMA SetClient ==
  ASSUME NEW s \in StateType, NEW c \in Conns, NEW k \in ClientType
  PROVE  LET g == [s.cl EXCEPT ![c] = k]
         IN g \in [Conns -> ClientType] /\ g[c] = k /\ \A d \in Conns : d # c => g[d] = s.cl[d]
BY FromTypes

\* The client c has the entry of n, whoever had it before.
Entered(s, r, c, n) ==
  /\ r \in StateType /\ r.loops = s.loops
  /\ \A d \in Conns : d # c => r.cl[d] = s.cl[d]
  /\ r.cl[c].st = "active" /\ r.cl[c].node = n /\ r.cl[c].fd = s.cl[c].fd
  /\ r.cl[c].worker = s.cl[c].worker
  /\ r.srv.routing[n] = c /\ \A k \in Nodes : k # n => r.srv.routing[k] = s.srv.routing[k]
  /\ \A k \in Nodes : r.srv.keys[k] = s.srv.keys[k] \/ (k = n /\ r.srv.keys[k] = c)
  /\ r.srv.keys[n] # NoCtx
  /\ r.srv.handlers = s.srv.handlers /\ r.srv.table = s.srv.table
  /\ r.srv.active = s.srv.active /\ r.srv.pending = s.srv.pending
  /\ r.srv.stray = s.srv.stray /\ r.srv.crashed = s.srv.crashed

LEMMA EnteredSound ==
  ASSUME NEW s \in StateType, NEW wk \in [WorkerIds -> WorkType], Sound(s, wk),
         NEW c \in Conns, c = wk[0].ctx, s.cl[c].st = "waiting", NEW n \in Nodes,
         NEW r, Entered(s, r, c, n)
  PROVE  Keeps(s, r, wk)
<1>1. /\ r \in StateType /\ r.loops = s.loops
      /\ \A d \in Conns : d # c => r.cl[d] = s.cl[d]
      /\ r.cl[c].st = "active" /\ r.cl[c].node = n /\ r.cl[c].fd = s.cl[c].fd
      /\ r.cl[c].worker = s.cl[c].worker
      /\ r.srv.routing[n] = c /\ \A k \in Nodes : k # n => r.srv.routing[k] = s.srv.routing[k]
      /\ r.srv.keys[n] # NoCtx
      /\ r.srv.handlers = s.srv.handlers /\ r.srv.table = s.srv.table
      /\ r.srv.active = s.srv.active /\ r.srv.pending = s.srv.pending
      /\ r.srv.stray = s.srv.stray /\ r.srv.crashed = s.srv.crashed
  BY DEF Entered
<1>k. \A k \in Nodes : r.srv.keys[k] = s.srv.keys[k] \/ (k = n /\ r.srv.keys[k] = c)
  BY DEF Entered
<1>2. /\ c # NoCtx /\ s.cl[c].worker = 0 /\ s.cl[c].fd \in ClientFds
      /\ ~s.srv.stray => s.loops[0].entries[s.cl[c].fd].ctx = c /\ Held(s, c)
  <2>1. c # NoCtx /\ 0 \in WorkerIds /\ s.cl[c].st \in Alive /\ s.cl[c].st # "freed"
    BY Basics DEF Alive
  <2>2. WorkFacts(s, 0, c)
    BY <2>1, WorkIs
  <2>. QED  BY <2>1, <2>2 DEF WorkFacts
<1>3. \A d \in Conns : /\ r.cl[d].st \in Alive <=> s.cl[d].st \in Alive
                       /\ s.cl[d].st = "active" => d # c /\ r.cl[d] = s.cl[d]
                       /\ s.cl[d].st \in Was => d # c /\ r.cl[d] = s.cl[d]
                       /\ r.cl[d].fd = s.cl[d].fd /\ r.cl[d].worker = s.cl[d].worker
                       /\ s.cl[d].st \in Alive \cup {"freed"} => r.cl[d].st \in Alive \cup {"freed"}
                       /\ r.cl[d].st = "waiting" => s.cl[d].st = "waiting"
                       /\ r.cl[d].st # "freed" => s.cl[d].st # "freed"
                       /\ Held(r, d) <=> Held(s, d)
  BY <1>1 DEF Alive, Was, Held
<1>4. ClientsOK(r)
  <2>1. ClientsOK(s)
    BY DEF Sound
  <2>2. \A d \in Conns : r.cl[d].st \in Alive => s.cl[d].st \in Alive /\ r.cl[d].fd = s.cl[d].fd
    BY <1>3
  <2>3. \A d \in Conns : d # c => r.cl[d] = s.cl[d]
    BY <1>1
  <2>4. r.cl[c].node \in Nodes /\ r.cl[c].worker = 0
    BY <1>1, <1>2
  <2>. QED  BY <2>1, <2>2, <2>3, <2>4 DEF ClientsOK
<1>5. EntriesOK(r)
  <2>. SUFFICES ASSUME NEW v \in WorkerIds, NEW g \in ClientFds, NEW d,
                       d = r.loops[v].entries[g].ctx
                PROVE  EntryOK(r, v, g, d)
    BY DEF EntriesOK
  <2>. SUFFICES ASSUME d # NoCtx
                PROVE  /\ d \in Conns /\ r.cl[d].st \in Alive \cup {"freed"}
                       /\ r.cl[d].st \in Alive => r.cl[d].worker = v /\ r.cl[d].fd = g
    BY DEF EntryOK
  <2>1. /\ d \in Conns /\ s.cl[d].st \in Alive \cup {"freed"}
        /\ s.cl[d].st \in Alive => s.cl[d].worker = v /\ s.cl[d].fd = g
    <3>f. EntryFacts(s, v, g, d)
      BY <1>1, EntryIs
    <3>. QED  BY <3>f DEF EntryFacts
  <2>. QED  BY <1>3, <2>1
<1>6. ListenerOK(r) /\ CountOK(r)
  <2>1. Living(r) = Living(s)
    BY <1>3 DEF Living
  <2>. QED  BY <1>1, <2>1 DEF Sound, ListenerOK, CountOK
<1>7. HandlersOK(r)
  <2>. SUFFICES ASSUME NEW g \in ClientFds, NEW d, d = r.srv.handlers[g], d # NoCtx
                PROVE  r.cl[d].st \in Alive /\ r.cl[d].fd = g
    BY DEF HandlersOK
  <2>1. d \in Conns /\ s.cl[d].st \in Alive /\ s.cl[d].fd = g
    BY <1>1, HandlerIs
  <2>. QED  BY <1>3, <2>1
<1>8. RoutesOK(r)
  <2>1. ASSUME NEW k \in Nodes, NEW d, d = r.srv.routing[k], d # NoCtx
        PROVE  r.cl[d].st \in Was /\ r.srv.keys[k] # NoCtx
    <3>1. CASE k = n
      BY <1>1, <2>1, <3>1 DEF Was
    <3>2. CASE k # n
      <4>1. d \in Conns /\ s.cl[d].st \in Was /\ s.srv.keys[k] # NoCtx
        BY <1>1, <2>1, <3>2, RouteIs
      <4>. QED  BY <1>3, <1>k, <3>2, <4>1
    <3>. QED  BY <3>1, <3>2
  <2>2. ASSUME NEW k \in Nodes, NEW d, d = r.srv.keys[k], d # NoCtx
        PROVE  r.cl[d].st \in Was
    <3>1. CASE d = c
      BY <1>1, <3>1 DEF Was
    <3>2. CASE d = s.srv.keys[k]
      <4>1. d \in Conns /\ s.cl[d].st \in Was
        BY <2>2, <3>2, FromTypes DEF Sound, RoutesOK, MaybeConn
      <4>. QED  BY <1>3, <4>1
    <3>. QED  BY <1>k, <2>2, <3>1, <3>2
  <2>3. ASSUME NEW p \in r.srv.pending PROVE r.cl[p.from].st \in Was /\ r.cl[p.to].st \in Was
    <3>1. p \in s.srv.pending /\ p.from \in Conns /\ p.to \in Conns
      BY <1>1, FromTypes
    <3>2. s.cl[p.from].st \in Was /\ s.cl[p.to].st \in Was
      BY <3>1 DEF Sound, RoutesOK
    <3>. QED  BY <1>3, <3>1, <3>2
  <2>. QED  BY <2>1, <2>2, <2>3 DEF RoutesOK
<1>9. JobsOK(r, wk)
  <2>. SUFFICES ASSUME NEW v \in WorkerIds, NEW q, q = Queue(r.loops[v]), NEW i \in 1..Len(q)
                PROVE  /\ q[i].job = "register" => RegisterOK(r, wk, v, i)
                       /\ q[i].job = "cleanup" => v = 0 /\ q[i].of \in Conns /\ r.cl[q[i].of].st \in Was
    BY DEF JobsOK
  <2>1. q = Queue(s.loops[v])
    BY <1>1
  <2>2. PICK d : d = q[i].of
    OBVIOUS
  <2>3. /\ q[i].job = "register" => RegisterOK(s, wk, v, i)
        /\ q[i].job = "cleanup" => v = 0 /\ d \in Conns /\ s.cl[d].st \in Was
    <3>f. QueuedFacts(s, wk, v, i, q[i])
      BY <2>1, QueuedIs
    <3>. QED  BY <2>2, <3>f DEF QueuedFacts
  <2>4. ASSUME q[i].job = "register" PROVE RegisterOK(r, wk, v, i)
    <3>1. /\ d \in Conns /\ s.cl[d].st = "waiting" /\ s.cl[d].worker = v /\ s.cl[d].fd = q[i].fd
          /\ \A g \in ClientFds : s.srv.handlers[g] # d
          /\ \A u \in WorkerIds : wk[u].ctx # d /\ \A g \in ClientFds : s.loops[u].entries[g].ctx # d
          /\ \A k \in 1..Len(q) : q[k].job = "register" /\ q[k].of = d => k = i
      BY <2>1, <2>2, <2>3, <2>4 DEF RegisterOK
    <3>2. d # c
      BY <3>1, Basics
    <3>3. /\ r.cl[d].st = "waiting" /\ r.cl[d].worker = v /\ r.cl[d].fd = q[i].fd
          /\ \A g \in ClientFds : r.srv.handlers[g] # d
          /\ \A u \in WorkerIds, g \in ClientFds : r.loops[u].entries[g].ctx # d
      BY <1>1, <3>1, <3>2
    <3>. QED  BY <2>2, <3>1, <3>3 DEF RegisterOK
  <2>. QED  BY <1>3, <2>2, <2>3, <2>4
<1>10. WorkOK(r, wk)
  <2>. SUFFICES ASSUME NEW v \in WorkerIds
                PROVE  LET d == wk[v].ctx
                       IN /\ d # NoCtx => /\ r.cl[d].st \in Alive \cup {"freed"}
                                          /\ r.cl[d].st \in Alive => r.cl[d].worker = v
                          /\ r.loops[v].at \in {"frames", "writable"} => d # NoCtx
                          /\ r.loops[v].at = "frames" => wk[v].frames # <<>>
    BY DEF WorkOK
  <2>1. PICK d : d = wk[v].ctx
    OBVIOUS
  <2>2. /\ r.loops[v].at \in {"frames", "writable"} => d # NoCtx
        /\ r.loops[v].at = "frames" => wk[v].frames # <<>>
    BY <1>1, <2>1 DEF Sound, WorkOK
  <2>3. d # NoCtx => /\ d \in Conns /\ s.cl[d].st \in Alive \cup {"freed"}
                     /\ s.cl[d].st \in Alive => s.cl[d].worker = v
    <3>1. d # NoCtx => WorkFacts(s, v, d)
      BY <2>1, WorkIs
    <3>. QED  BY <3>1 DEF WorkFacts
  <2>. QED  BY <1>3, <2>1, <2>2, <2>3
<1>11. ASSUME ~r.srv.stray PROVE Tidy(r, wk)
  <2>0. ~s.srv.stray /\ Tidy(s, wk)
    BY <1>1, <1>11 DEF Sound
  <2>1. ASSUME NEW u \in WorkerIds, NEW f \in ClientFds, NEW d,
               d = r.loops[u].entries[f].ctx, d # NoCtx
        PROVE  r.cl[d].st \in Alive /\ Held(r, d)
    <3>1. d \in Conns /\ s.cl[d].st \in Alive /\ Held(s, d)
      <4>f. EntryFacts(s, u, f, d)
        BY <1>1, <2>1, EntryIs
      <4>. QED  BY <2>0, <4>f DEF EntryFacts
    <3>. QED  BY <1>3, <3>1
  <2>2. ASSUME NEW k \in Nodes, NEW d, d = r.srv.routing[k], d # NoCtx
        PROVE  r.cl[d].st = "active" /\ r.cl[d].node = k /\ Held(r, d)
    <3>1. CASE k = n
      BY <1>1, <1>2, <1>3, <2>0, <2>2, <3>1
    <3>2. CASE k # n
      <4>1. d \in Conns /\ s.cl[d].st = "active" /\ s.cl[d].node = k /\ Held(s, d)
        BY <1>1, <2>0, <2>2, <3>2, RouteIs
      <4>. QED  BY <1>3, <4>1
    <3>. QED  BY <3>1, <3>2
  <2>3. ASSUME NEW k \in Nodes, NEW d, d = r.srv.keys[k], d # NoCtx
        PROVE  r.cl[d].st = "active"
    <3>1. CASE d = c
      BY <1>1, <3>1
    <3>2. CASE d = s.srv.keys[k]
      <4>1. d \in Conns /\ s.cl[d].st = "active"
        BY <2>0, <2>3, <3>2, FromTypes DEF Tidy, TidyKeys, MaybeConn
      <4>. QED  BY <1>3, <4>1
    <3>. QED  BY <1>k, <2>3, <3>1, <3>2
  <2>4. ASSUME NEW u \in WorkerIds, NEW q, q = Queue(r.loops[u]), NEW i \in 1..Len(q)
        PROVE  /\ q[i].job # "write"
               /\ q[i].job = "register" => r.srv.table[q[i].fd] = q[i].of
               /\ q[i].job = "cleanup" => \A k \in Nodes : r.srv.routing[k] # q[i].of
    <3>1. /\ q[i].job # "write"
          /\ q[i].job = "register" => s.srv.table[q[i].fd] = q[i].of
          /\ q[i].job = "cleanup" => q[i].of \in Conns /\ s.cl[q[i].of].st \in Was
                                     /\ \A k \in Nodes : s.srv.routing[k] # q[i].of
      <4>f. QueuedFacts(s, wk, u, i, q[i])
        BY <1>1, <2>4, QueuedIs
      <4>. QED  BY <2>0, <4>f DEF QueuedFacts
    <3>2. q[i].job = "cleanup" => q[i].of # c
      BY <1>3, <3>1
    <3>. QED  BY <1>1, <3>1, <3>2
  <2>5. LET d == wk[0].ctx
        IN d # NoCtx /\ r.cl[d].st # "freed" => r.loops[0].entries[r.cl[d].fd].ctx = d
    BY <1>1, <1>2, <2>0
  <2>6. \A v \in WorkerIds : \A i \in 1..Len(Queue(r.loops[v])) :
          LET j == Queue(r.loops[v])[i]
          IN /\ j.job # "write"
             /\ j.job = "register" => r.srv.table[j.fd] = j.of
             /\ j.job = "cleanup" => \A k \in Nodes : r.srv.routing[k] # j.of
    BY <2>4
  <2>en. TidyEntries(r)
    BY <2>1 DEF TidyEntries
  <2>ro. TidyRoutes(r)
    BY <2>2 DEF TidyRoutes
  <2>ke. TidyKeys(r)
    BY <2>3 DEF TidyKeys
  <2>jo. TidyJobs(r)
    BY <2>6 DEF TidyJobs
  <2>wo. TidyWork(r, wk)
    BY <2>5 DEF TidyWork
  <2>. QED  BY <2>en, <2>ro, <2>ke, <2>jo, <2>wo DEF Tidy
<1>12. /\ \A v \in WorkerIds : LoopOK(r.loops[v])
       /\ \A v \in WorkerIds \ {0} : Deaf(r.loops[v]) /\ wk[v] = Idle
  BY <1>1 DEF Sound
<1>13. Sound(r, wk)
  BY <1>4, <1>5, <1>6, <1>7, <1>8, <1>9, <1>10, <1>11, <1>12 DEF Sound
<1>. QED  BY <1>1, <1>13 DEF Keeps

LEMMA RegisterEnters ==
  ASSUME NEW s \in StateType, NEW c \in Conns, NEW n \in Nodes
  PROVE  LET s1 == [s EXCEPT !.cl[c].st = "active", !.cl[c].node = n, !.srv.routing[n] = c]
         IN /\ s.srv.keys[n] # NoCtx => Entered(s, s1, c, n)
            /\ Entered(s, [s1 EXCEPT !.srv.keys[n] = c], c, n)
<1>1. PICK u : u = [s EXCEPT !.cl[c].st = "active", !.cl[c].node = n, !.srv.routing[n] = c]
  OBVIOUS
<1>2. PICK k : k = [s.cl[c] EXCEPT !.st = "active", !.node = n]
  OBVIOUS
<1>3. k \in ClientType /\ k.st = "active" /\ k.node = n /\ k.fd = s.cl[c].fd /\ k.worker = s.cl[c].worker
  BY <1>2, FromTypes DEF ClientType
<1>4. PICK g : g = [s.cl EXCEPT ![c] = k]
  OBVIOUS
<1>5. g \in [Conns -> ClientType] /\ g[c] = k /\ \A d \in Conns : d # c => g[d] = s.cl[d]
  BY <1>3, <1>4, SetClient
<1>6. PICK h : h = [s.srv EXCEPT !.routing = [s.srv.routing EXCEPT ![n] = c]]
  OBVIOUS
<1>7. /\ h \in ServerType /\ h.routing = [s.srv.routing EXCEPT ![n] = c] /\ h.keys = s.srv.keys
      /\ h.handlers = s.srv.handlers /\ h.table = s.srv.table
      /\ h.active = s.srv.active /\ h.pending = s.srv.pending
      /\ h.stray = s.srv.stray /\ h.crashed = s.srv.crashed
  BY <1>6, FromTypes DEF ServerType, MaybeConn
<1>8. h.routing[n] = c /\ \A i \in Nodes : i # n => h.routing[i] = s.srv.routing[i]
  BY <1>7, FromTypes
<1>9. u = [s EXCEPT !.cl = g, !.srv = h]
  <2>1. [s EXCEPT !.cl[c].st = "active", !.cl[c].node = n] = [s EXCEPT !.cl = g]
    BY <1>2, <1>4, FromTypes DEF StateType, ClientType
  <2>2. u = [[s EXCEPT !.cl[c].st = "active", !.cl[c].node = n] EXCEPT !.srv.routing[n] = c]
    BY <1>1 DEF StateType
  <2>3. u = [[s EXCEPT !.cl = g] EXCEPT !.srv.routing[n] = c]
    BY <2>1, <2>2
  <2>4. [s EXCEPT !.cl = g].srv = s.srv
    BY DEF StateType
  <2>. QED  BY <1>6, <2>3, <2>4 DEF StateType, ServerType
<1>10. u \in StateType /\ u.loops = s.loops /\ u.cl = g /\ u.srv = h
  BY <1>5, <1>7, <1>9 DEF StateType
<1>11. s.srv.keys[n] # NoCtx => Entered(s, u, c, n)
  BY <1>3, <1>5, <1>7, <1>8, <1>10 DEF Entered
<1>12. PICK r : r = [u EXCEPT !.srv.keys[n] = c]
  OBVIOUS
<1>13. PICK e : e = [h EXCEPT !.keys = [h.keys EXCEPT ![n] = c]]
  OBVIOUS
<1>14. /\ e \in ServerType /\ e.routing = h.routing /\ e.keys = [s.srv.keys EXCEPT ![n] = c]
       /\ e.handlers = s.srv.handlers /\ e.table = s.srv.table
       /\ e.active = s.srv.active /\ e.pending = s.srv.pending
       /\ e.stray = s.srv.stray /\ e.crashed = s.srv.crashed
  BY <1>7, <1>13, FromTypes DEF ServerType, MaybeConn
<1>15. e.keys[n] = c /\ \A i \in Nodes : i # n => e.keys[i] = s.srv.keys[i]
  BY <1>14, FromTypes
<1>16. r = [u EXCEPT !.srv = e]
  BY <1>10, <1>12, <1>13 DEF StateType, ServerType
<1>17. r \in StateType /\ r.loops = s.loops /\ r.cl = g /\ r.srv = e
  BY <1>10, <1>14, <1>16 DEF StateType
<1>18. Entered(s, r, c, n)
  <2>1. \A i \in Nodes : e.keys[i] = s.srv.keys[i] \/ (i = n /\ e.keys[i] = c)
    BY <1>15
  <2>2. e.keys[n] # NoCtx
    BY <1>15, Basics
  <2>3. /\ r \in StateType /\ r.loops = s.loops
        /\ \A d \in Conns : d # c => r.cl[d] = s.cl[d]
        /\ r.cl[c].st = "active" /\ r.cl[c].node = n /\ r.cl[c].fd = s.cl[c].fd
        /\ r.cl[c].worker = s.cl[c].worker
    BY <1>3, <1>5, <1>17
  <2>4. r.srv.routing[n] = c /\ \A k1 \in Nodes : k1 # n => r.srv.routing[k1] = s.srv.routing[k1]
    BY <1>8, <1>14, <1>17
  <2>. QED  BY <1>14, <1>17, <2>1, <2>2, <2>3, <2>4 DEF Entered
<1>. QED  BY <1>1, <1>11, <1>12, <1>18

LEMMA RegisterKeeps ==
  ASSUME NEW s \in StateType, NEW wk \in [WorkerIds -> WorkType], Sound(s, wk),
         NEW c \in Conns, c = wk[0].ctx, s.cl[c].st = "waiting", NEW n \in Nodes
  PROVE  Keeps(s, register(s, c, n), wk)
<1>1. PICK u : u = [s EXCEPT !.cl[c].st = "active", !.cl[c].node = n, !.srv.routing[n] = c]
  OBVIOUS
<1>2. PICK old : old = Route(s, n)
  OBVIOUS
<1>3. Keeps(s, [u EXCEPT !.srv.keys[n] = c], wk)
  BY <1>1, RegisterEnters, EnteredSound, Zenon
<1>4. ASSUME old # NoCtx
      PROVE  /\ Entered(s, u, c, n) /\ Keeps(s, u, wk) /\ Keeps(s, Undefined(u), wk)
  <2>1. s.srv.keys[n] # NoCtx
    BY <1>2, <1>4, Routed
  <2>2. Entered(s, u, c, n) /\ Keeps(s, u, wk)
    BY <1>1, <2>1, RegisterEnters, EnteredSound, Zenon
  <2>3. u \in StateType /\ Sound(u, wk)
    BY <2>2 DEF Keeps
  <2>. QED  BY <2>2, <2>3, UndefinedKeeps, KeepsAll
<1>5. ASSUME old # NoCtx, ~Freed(s, old),
             NEW j, j = [job |-> "cleanup", fd |-> s.cl[old].fd, of |-> old]
      PROVE  Keeps(s, OnLoop(u, s.cl[old].worker, Execute(s.loops[s.cl[old].worker], j)), wk)
  <2>1. /\ old \in Conns /\ s.cl[old].st = "active" /\ s.cl[old].fd \in ClientFds /\ s.cl[old].worker = 0
        /\ old = s.srv.routing[n]
        /\ ~s.srv.stray => s.cl[old].node = n
    BY <1>2, <1>5, Routed
  <2>2. /\ u.loops = s.loops /\ u \in StateType /\ Sound(u, wk) /\ u.srv.stray = s.srv.stray
        /\ \A d \in Conns : d # c => u.cl[d] = s.cl[d]
        /\ u.srv.routing[n] = c /\ \A k \in Nodes : k # n => u.srv.routing[k] = s.srv.routing[k]
    BY <1>4, <1>5 DEF Entered, Keeps
  <2>3. old # c /\ u.cl[old].st \in Was
    BY <2>1, <2>2 DEF Was
  <2>4. ASSUME ~s.srv.stray, NEW k \in Nodes PROVE u.srv.routing[k] # old
    <3>1. CASE k = n
      BY <2>2, <2>3, <3>1
    <3>2. CASE k # n
      <4>1. SUFFICES ASSUME s.srv.routing[k] = old PROVE FALSE
        BY <2>2, <3>2
      <4>2. s.cl[old].node = k
        BY <2>1, <2>4, <4>1, RouteIs, Basics
      <4>. QED  BY <2>1, <2>4, <3>2, <4>2
    <3>. QED  BY <3>1, <3>2
  <2>5. j.of = old /\ j.fd = s.cl[old].fd /\ j.job = "cleanup" /\ j \in JobType
    BY <1>5, <2>1 DEF JobType, MaybeConn
  <2>6. MayQueue(u, wk, 0, j)
    BY <2>1, <2>2, <2>3, <2>4, <2>5 DEF MayQueue
  <2>7. Keeps(u, OnLoop(u, 0, Execute(u.loops[0], j)), wk)
    BY <2>2, <2>6, ExecuteKeeps, Basics
  <2>8. Keeps(s, OnLoop(u, 0, Execute(u.loops[0], j)), wk)
    BY <1>4, <1>5, <2>7, KeepsAll
  <2>. QED  BY <2>1, <2>2, <2>8
<1>. QED  BY <1>1, <1>2, <1>3, <1>4, <1>5 DEF register

LEMMA FrameIs ==
  ASSUME NEW fr \in FrameType
  PROVE  /\ fr.k \in {"reg", "ping", "req", "resp"}
         /\ fr.k = "reg" => fr.node \in Nodes
         /\ fr.k = "req" => fr.to \in Nodes
         /\ fr.k = "resp" => fr.id \in Nat
BY DEF FrameType

\* The state machine, for what the loop has at work.
LEMMA StateMachineKeeps ==
  ASSUME NEW now \in StateType, now.srv = srv, now.cl = cl,
         NEW wk \in [WorkerIds -> WorkType], Sound(now, wk),
         NEW w \in WorkerIds, NEW c, c = wk[w].ctx, c # NoCtx, NEW fr \in FrameType, NEW o
  PROVE  Keeps(now, StateMachine(now, w, c, fr, o), wk)
<1>1. /\ c \in Conns /\ cl[c].st \in Alive \cup {"freed"} /\ w = 0
      /\ cl[c].st \in Alive => cl[c].worker = w /\ cl[c].fd \in ClientFds
      /\ ~now.srv.stray /\ cl[c].st # "freed" => Held(now, c)
  <2>1. WorkFacts(now, w, c)
    BY WorkIs
  <2>. QED  BY <2>1 DEF WorkFacts
<1>2. NotQueued(now, c)
  BY Known
<1>3. ASSUME cl[c].st \in Alive
      PROVE  /\ Keeps(now, clientCleanup(now, w, c), wk)
             /\ Keeps(now, writeOrBuffer(now, w, c, o), wk)
  <2>1. now.cl[c].st \in Alive /\ (~now.srv.stray => w = 0 /\ now.cl[c].worker = 0 /\ Held(now, c))
    BY <1>1, <1>3 DEF Alive
  <2>. QED  BY <1>1, <1>2, <2>1, CleanupKeeps, WriteKeeps
<1>4. Keeps(now, Undefined(now), wk) /\ Keeps(now, now, wk)
  BY UndefinedKeeps DEF Keeps
<1>5. ASSUME cl[c].st = "active", fr.k = "req" PROVE Keeps(now, routeRequest(now, w, c, fr.to, o), wk)
  BY <1>1, <1>5, FrameIs, RequestKeeps
<1>6. ASSUME Asked(fr.id) # {}
      PROVE  Keeps(now, routeResponse(now, w, CHOOSE p \in Asked(fr.id) : TRUE, o), wk)
  <2>1. PICK p : p = CHOOSE q \in Asked(fr.id) : TRUE
    OBVIOUS
  <2>2. p \in now.srv.pending
    BY <1>6, <2>1 DEF Asked
  <2>3. Keeps(now, routeResponse(now, 0, p, o), wk)
    BY <2>2, ResponseKeeps
  <2>. QED  BY <1>1, <2>1, <2>3
<1>7. ASSUME cl[c].st = "active" PROVE Keeps(now, handleFrame(now, w, c, fr, o), wk)
  BY <1>3, <1>4, <1>5, <1>6, <1>7 DEF handleFrame, Alive
<1>8. ASSUME cl[c].st = "waiting", fr.k = "reg" PROVE Keeps(now, register(now, c, fr.node), wk)
  BY <1>1, <1>8, FrameIs, RegisterKeeps
<1>9. cl[c].st \notin {"freed", "active"} => cl[c].st \in Alive
  BY <1>1
<1>. QED  BY <1>3, <1>4, <1>7, <1>8, <1>9 DEF StateMachine

-----------------------------------------------------------------------------
(* The jobs of a loop.                                                     *)

\* The job that is first is known; without it the rest of the queue is what it was.
LEMMA JobTaken ==
  ASSUME NEW s \in StateType, NEW wk \in [WorkerIds -> WorkType], Sound(s, wk), NEW w \in WorkerIds,
         s.loops[w].at = "jobs"
  PROVE  LET r == OnLoop(s, w, JobDone(s.loops[w]))
             j == Head(s.loops[w].batch)
         IN /\ r \in StateType /\ Sound(r, wk) /\ r.srv = s.srv /\ r.cl = s.cl
            /\ r.loops[w].at \notin {"new", "frames", "writable"}
            /\ \A u \in WorkerIds : r.loops[u].entries = s.loops[u].entries
            /\ \A u \in WorkerIds : u # w => r.loops[u] = s.loops[u]
            /\ j \in JobType
            /\ 1 \in 1..Len(Queue(s.loops[w])) /\ j = Queue(s.loops[w])[1]
            /\ j.job = "register" => NotQueued(r, j.of)
<1>1. s.loops[w] \in LoopType /\ LoopOK(s.loops[w])
  BY FromTypes DEF Sound
<1>2. PICK m : m = JobDone(s.loops[w])
  OBVIOUS
<1>3. PICK j : j = Head(s.loops[w].batch)
  OBVIOUS
<1>4. PICK q : q = Queue(s.loops[w])
  OBVIOUS
<1>5. PICK p : p = Queue(m)
  OBVIOUS
<1>6. /\ m \in LoopType /\ LoopOK(m) /\ m.entries = s.loops[w].entries
      /\ Queue(m) = Tail(s.loops[w].batch) \o s.loops[w].jobs
      /\ s.loops[w].batch # <<>>
      /\ Deaf(s.loops[w]) => Deaf(m)
      /\ m.at \notin {"new", "frames", "writable"}
  BY <1>1, <1>2, JobIsDone
<1>7. /\ Len(q) \in Nat \ {0} /\ q[1] = j /\ j \in JobType
      /\ Len(p) = Len(q) - 1 /\ \A i \in 1..Len(q) - 1 : p[i] = q[i + 1]
  BY <1>1, <1>3, <1>4, <1>5, <1>6, QueueTaken
<1>8. PICK r : r = OnLoop(s, w, m)
  OBVIOUS
<1>9. /\ r \in StateType /\ r.srv = s.srv /\ r.cl = s.cl /\ r.loops[w] = m
      /\ \A u \in WorkerIds : u # w => r.loops[u] = s.loops[u]
  BY <1>6, <1>8, OnLoopIs
<1>10. \A u \in WorkerIds : r.loops[u].entries = s.loops[u].entries
  BY <1>6, <1>9
<1>11. ASSUME NEW u \in WorkerIds, NEW t, t = Queue(r.loops[u]), NEW i \in 1..Len(t)
       PROVE  \E k \in 1..Len(Queue(s.loops[u])) :
                /\ t[i] = Queue(s.loops[u])[k]
                /\ u # w => k = i
                /\ u = w => k = i + 1
  <2>1. CASE u # w
    BY <1>9, <1>11, <2>1
  <2>2. CASE u = w
    <3>1. t = p /\ Queue(s.loops[u]) = q
      BY <1>4, <1>5, <1>9, <1>11, <2>2
    <3>2. i \in 1..Len(q) - 1 /\ i + 1 \in 1..Len(q)
      BY <1>7, <1>11, <3>1
    <3>. QED  BY <1>7, <2>2, <3>1, <3>2
  <2>. QED  BY <2>1, <2>2
<1>12. ClientsOK(r) /\ HandlersOK(r) /\ RoutesOK(r) /\ CountOK(r)
  BY <1>9 DEF Sound, ClientsOK, HandlersOK, RoutesOK, CountOK, Living
<1>13. EntriesOK(r) /\ ListenerOK(r)
  <2>1. ListenerOK(r)
    BY <1>10 DEF Sound, ListenerOK
  <2>2. ASSUME NEW u \in WorkerIds, NEW f \in ClientFds, NEW c, c = r.loops[u].entries[f].ctx, c # NoCtx
        PROVE  /\ c \in Conns /\ r.cl[c].st \in Alive \cup {"freed"}
               /\ r.cl[c].st \in Alive => r.cl[c].worker = u /\ r.cl[c].fd = f
    <3>1. c = s.loops[u].entries[f].ctx
      BY <1>10, <2>2
    <3>f. EntryFacts(s, u, f, c)
      BY <2>2, <3>1, EntryIs
    <3>. QED  BY <1>9, <3>f DEF EntryFacts
  <2>3. EntriesOK(r)
    BY <2>2 DEF EntriesOK, EntryOK
  <2>. QED  BY <2>1, <2>3
<1>14. WorkOK(r, wk)
  <2>1. \A u \in WorkerIds : r.loops[u].at \in {"frames", "writable"} => r.loops[u] = s.loops[u]
    BY <1>6, <1>9
  <2>. QED  BY <1>9, <2>1 DEF Sound, WorkOK
<1>15. JobsOK(r, wk)
  <2>. SUFFICES ASSUME NEW u \in WorkerIds, NEW t, t = Queue(r.loops[u]), NEW i \in 1..Len(t)
                PROVE  /\ t[i].job = "register" => RegisterOK(r, wk, u, i)
                       /\ t[i].job = "cleanup" => u = 0 /\ t[i].of \in Conns /\ r.cl[t[i].of].st \in Was
    BY DEF JobsOK
  <2>1. PICK k \in 1..Len(Queue(s.loops[u])) :
          /\ t[i] = Queue(s.loops[u])[k]
          /\ u # w => k = i
          /\ u = w => k = i + 1
    BY <1>11
  <2>2. PICK d : d = t[i].of
    OBVIOUS
  <2>3. /\ t[i].job = "register" => RegisterOK(s, wk, u, k)
        /\ t[i].job = "cleanup" => u = 0 /\ d \in Conns /\ s.cl[d].st \in Was
    <3>1. PICK qu : qu = Queue(s.loops[u])
      OBVIOUS
    <3>2. k \in 1..Len(qu) /\ t[i] = qu[k]
      BY <2>1, <3>1
    <3>3. PICK jo : jo = qu[k]
      OBVIOUS
    <3>4. /\ jo.job = "register" => RegisterOK(s, wk, u, k)
          /\ jo.job = "cleanup" => u = 0 /\ jo.of \in Conns /\ s.cl[jo.of].st \in Was
      <4>f. QueuedFacts(s, wk, u, k, jo)
        BY <3>1, <3>2, <3>3, QueuedIs
      <4>. QED  BY <4>f DEF QueuedFacts
    <3>. QED  BY <2>2, <3>2, <3>3, <3>4
  <2>4. ASSUME t[i].job = "register" PROVE RegisterOK(r, wk, u, i)
    <3>1. /\ d \in Conns /\ s.cl[d].st = "waiting" /\ s.cl[d].worker = u /\ s.cl[d].fd = t[i].fd
          /\ \A g \in ClientFds : s.srv.handlers[g] # d
          /\ \A v \in WorkerIds : wk[v].ctx # d /\ \A g \in ClientFds : s.loops[v].entries[g].ctx # d
          /\ \A x \in 1..Len(Queue(s.loops[u])) :
               Queue(s.loops[u])[x].job = "register" /\ Queue(s.loops[u])[x].of = d => x = k
      BY <2>1, <2>2, <2>3, <2>4 DEF RegisterOK
    <3>2. ASSUME NEW x \in 1..Len(t), t[x].job = "register", t[x].of = d PROVE x = i
      <4>1. PICK y \in 1..Len(Queue(s.loops[u])) :
              /\ t[x] = Queue(s.loops[u])[y]
              /\ u # w => y = x
              /\ u = w => y = x + 1
        BY <1>11
      <4>2. y = k
        BY <3>1, <3>2, <4>1
      <4>3. PICK n : n = Len(t)
        OBVIOUS
      <4>4. n \in Nat
        <5>1. r.loops[u] \in LoopType
          BY <1>9, FromTypes
        <5>2. r.loops[u].batch \in Seq(JobType) /\ r.loops[u].jobs \in Seq(JobType)
          BY <5>1 DEF LoopType
        <5>3. Queue(r.loops[u]) \in Seq(JobType)
          BY <5>2, Joined DEF Queue
        <5>. QED  BY <4>3, <5>3
      <4>. QED  BY <2>1, <4>1, <4>2, <4>3, <4>4
    <3>. QED  BY <1>9, <1>10, <2>2, <3>1, <3>2 DEF RegisterOK
  <2>. QED  BY <1>9, <2>2, <2>3, <2>4
<1>16. ASSUME ~r.srv.stray PROVE Tidy(r, wk)
  <2>1. Tidy(s, wk) /\ ~s.srv.stray
    BY <1>9, <1>16 DEF Sound
  <2>2. ASSUME NEW u \in WorkerIds, NEW t, t = Queue(r.loops[u]), NEW i \in 1..Len(t)
        PROVE  /\ t[i].job # "write"
               /\ t[i].job = "register" => r.srv.table[t[i].fd] = t[i].of
               /\ t[i].job = "cleanup" => \A n \in Nodes : r.srv.routing[n] # t[i].of
    <3>1. PICK k \in 1..Len(Queue(s.loops[u])) : t[i] = Queue(s.loops[u])[k]
      BY <1>11, <2>2
    <3>f. QueuedFacts(s, wk, u, k, t[i])
      BY <3>1, QueuedIs
    <3>. QED  BY <1>9, <2>1, <3>f DEF QueuedFacts
  <2>3. \A c : Held(r, c) <=> Held(s, c)
    BY <1>9 DEF Held
  <2>4. \A u \in WorkerIds, f \in ClientFds :
          LET c == r.loops[u].entries[f].ctx
          IN c # NoCtx => r.cl[c].st \in Alive /\ Held(r, c)
    BY <1>9, <1>10, <2>1, <2>3 DEF Tidy, TidyEntries
  <2>5. TidyRoutes(r)
    BY <1>9, <2>1, <2>3 DEF Tidy, TidyRoutes
  <2>8. TidyKeys(r)
    BY <1>9, <2>1 DEF Tidy, TidyKeys
  <2>6. LET c == wk[0].ctx
        IN c # NoCtx /\ r.cl[c].st # "freed" => r.loops[0].entries[r.cl[c].fd].ctx = c
    BY <1>9, <1>10, <2>1, Basics DEF Tidy, TidyWork
  <2>7. \A u \in WorkerIds : \A i \in 1..Len(Queue(r.loops[u])) :
          LET k == Queue(r.loops[u])[i]
          IN /\ k.job # "write"
             /\ k.job = "register" => r.srv.table[k.fd] = k.of
             /\ k.job = "cleanup" => \A n \in Nodes : r.srv.routing[n] # k.of
    BY <2>2
  <2>en. TidyEntries(r)
    BY <2>4 DEF TidyEntries
  <2>jo. TidyJobs(r)
    BY <2>7 DEF TidyJobs
  <2>wo. TidyWork(r, wk)
    BY <2>6 DEF TidyWork
  <2>. QED  BY <2>5, <2>8, <2>en, <2>jo, <2>wo DEF Tidy
<1>17. /\ \A v \in WorkerIds : LoopOK(r.loops[v])
       /\ \A v \in WorkerIds \ {0} : Deaf(r.loops[v]) /\ wk[v] = Idle
  BY <1>6, <1>9 DEF Sound
<1>18. Sound(r, wk)
  BY <1>12, <1>13, <1>14, <1>15, <1>16, <1>17 DEF Sound
<1>19. 1 \in 1..Len(q) /\ j = q[1]
  BY <1>7
<1>20. ASSUME j.job = "register" PROVE NotQueued(r, j.of)
  <2>. SUFFICES ASSUME NEW u \in WorkerIds, NEW t, t = Queue(r.loops[u]), NEW i \in 1..Len(t),
                       t[i].job = "register", t[i].of = j.of
                PROVE  FALSE
    BY DEF NotQueued
  <2>1. PICK k \in 1..Len(Queue(s.loops[u])) :
          t[i] = Queue(s.loops[u])[k] /\ (u = w => k = i + 1)
    BY <1>11
  <2>2. s.cl[j.of].worker = u
    <3>f. QueuedFacts(s, wk, u, k, t[i])
      BY <2>1, QueuedIs
    <3>. QED  BY <3>f DEF QueuedFacts
  <2>3. RegisterOK(s, wk, w, 1) /\ s.cl[j.of].worker = w
    <3>f. QueuedFacts(s, wk, w, 1, j)
      BY <1>4, <1>19, QueuedIs
    <3>. QED  BY <1>20, <3>f DEF QueuedFacts
  <2>4. k = 1
    BY <1>4, <1>19, <2>1, <2>2, <2>3 DEF RegisterOK
  <2>5. i \in Nat \ {0}
    OBVIOUS
  <2>. QED  BY <2>1, <2>2, <2>3, <2>4, <2>5
<1>. QED  BY <1>2, <1>3, <1>4, <1>6, <1>7, <1>8, <1>9, <1>10, <1>18, <1>19, <1>20

\* A waiting client that nobody knows gets its entry and its number.
LEMMA AddedSound ==
  ASSUME NEW s \in StateType, NEW wk \in [WorkerIds -> WorkType], Sound(s, wk), NEW w \in WorkerIds,
         NEW c \in Conns, s.cl[c].st = "waiting", s.cl[c].worker = w, NotQueued(s, c),
         \A f \in ClientFds : s.srv.handlers[f] # c,
         \A u \in WorkerIds : wk[u].ctx # c /\ \A f \in ClientFds : s.loops[u].entries[f].ctx # c,
         NEW f, f = s.cl[c].fd, ~s.srv.stray => s.srv.table[f] = c,
         w # 0 => s.loops[w].at # "new"
  PROVE  Keeps(s, OnLoop([s EXCEPT !.srv.handlers[f] = c], w, AddFd(s.loops[w], f, c)), wk)
<1>1. /\ f \in ClientFds /\ f \in Fds /\ 0 \in WorkerIds /\ c # NoCtx /\ Listen \in Fds /\ Listen \notin ClientFds
      /\ ClientFds \subseteq Fds
  BY Basics DEF Sound, ClientsOK, Alive
<1>2. PICK u : u = [s EXCEPT !.srv.handlers[f] = c]
  OBVIOUS
<1>3. PICK h : h = [s.srv EXCEPT !.handlers = [s.srv.handlers EXCEPT ![f] = c]]
  OBVIOUS
<1>4. /\ h \in ServerType /\ h.handlers = [s.srv.handlers EXCEPT ![f] = c]
      /\ h.routing = s.srv.routing /\ h.keys = s.srv.keys /\ h.table = s.srv.table
      /\ h.active = s.srv.active /\ h.pending = s.srv.pending
      /\ h.stray = s.srv.stray /\ h.crashed = s.srv.crashed
  <2>1. NoCtx \in MaybeConn /\ c \in MaybeConn /\ s.srv \in ServerType
    BY FromTypes DEF MaybeConn
  <2>. QED  BY <1>1, <1>3, <2>1 DEF ServerType
<1>5. h.handlers[f] = c /\ \A g \in ClientFds : g # f => h.handlers[g] = s.srv.handlers[g]
  BY <1>1, <1>4, FromTypes
<1>6. u = [s EXCEPT !.srv = h]
  BY <1>2, <1>3 DEF StateType, ServerType
<1>7. u \in StateType /\ u.loops = s.loops /\ u.cl = s.cl /\ u.srv = h
  BY <1>4, <1>6 DEF StateType
<1>8. PICK m : m = AddFd(s.loops[w], f, c)
  OBVIOUS
<1>9. s.loops[w] \in LoopType /\ LoopOK(s.loops[w])
  BY FromTypes DEF Sound
<1>10. PICK e : e = [s.loops[w].entries EXCEPT ![f] = [ctx |-> c, out |-> FALSE]]
  OBVIOUS
<1>11. /\ e \in [Fds -> [ctx : MaybeConn \cup {Acceptor}, out : BOOLEAN]]
       /\ e[f].ctx = c /\ \A g \in Fds : g # f => e[g] = s.loops[w].entries[g]
  BY <1>1, <1>9, <1>10 DEF LoopType, MaybeConn
<1>12. m = [s.loops[w] EXCEPT !.entries = e]
  BY <1>8, <1>9, <1>10 DEF AddFd, LoopType
<1>13. /\ m \in LoopType /\ m.entries = e /\ m.at = s.loops[w].at /\ m.batch = s.loops[w].batch
       /\ m.jobs = s.loops[w].jobs /\ m.wake = s.loops[w].wake /\ m.running = s.loops[w].running
       /\ m.rebuild = s.loops[w].rebuild /\ m.polled = s.loops[w].polled /\ m.ready = s.loops[w].ready
  BY <1>9, <1>11, <1>12 DEF LoopType
<1>14. LoopOK(m) /\ Queue(m) = Queue(s.loops[w]) /\ (w # 0 => Deaf(m))
  <2>1. w # 0 => Deaf(s.loops[w])
    BY DEF Sound
  <2>. QED  BY <1>9, <1>13, <2>1 DEF LoopOK, Queue, Deaf
<1>15. PICK r : r = OnLoop(u, w, m)
  OBVIOUS
<1>16. /\ r \in StateType /\ r.srv = h /\ r.cl = s.cl /\ r.loops[w] = m
       /\ \A v \in WorkerIds : v # w => r.loops[v] = s.loops[v]
  BY <1>7, <1>13, <1>15, OnLoopIs
<1>17. \A v \in WorkerIds : /\ Queue(r.loops[v]) = Queue(s.loops[v]) /\ LoopOK(r.loops[v])
                            /\ v # 0 => Deaf(r.loops[v])
                            /\ r.loops[v].at = s.loops[v].at
  BY <1>13, <1>14, <1>16 DEF Sound
<1>18. \A v \in WorkerIds, g \in Fds :
         r.loops[v].entries[g].ctx = IF v = w /\ g = f THEN c ELSE s.loops[v].entries[g].ctx
  BY <1>11, <1>13, <1>16
<1>19. ClientsOK(r) /\ CountOK(r) /\ RoutesOK(r)
  BY <1>4, <1>16 DEF Sound, ClientsOK, CountOK, Living, RoutesOK
<1>20. ListenerOK(r)
  BY <1>1, <1>18 DEF Sound, ListenerOK
<1>21. ASSUME NEW v \in WorkerIds, NEW g \in ClientFds, NEW d, d = r.loops[v].entries[g].ctx, d # NoCtx
       PROVE  /\ d \in Conns /\ r.cl[d].st \in Alive \cup {"freed"}
              /\ r.cl[d].st \in Alive => r.cl[d].worker = v /\ r.cl[d].fd = g
              /\ ~s.srv.stray /\ d # c => s.cl[d].st \in Alive /\ Held(s, d)
  <2>1. CASE v = w /\ g = f
    <3>1. d = c
      BY <1>1, <1>18, <1>21, <2>1
    <3>. QED  BY <1>16, <2>1, <3>1 DEF Alive
  <2>2. CASE ~(v = w /\ g = f)
    <3>1. d = s.loops[v].entries[g].ctx
      BY <1>1, <1>18, <1>21, <2>2
    <3>f. EntryFacts(s, v, g, d)
      BY <1>21, <3>1, EntryIs
    <3>. QED  BY <1>16, <3>f DEF EntryFacts
  <2>. QED  BY <2>1, <2>2
<1>22. EntriesOK(r)
  <2>. SUFFICES ASSUME NEW v \in WorkerIds, NEW g \in ClientFds, NEW d,
                       d = r.loops[v].entries[g].ctx
                PROVE  EntryOK(r, v, g, d)
    BY DEF EntriesOK
  <2>. SUFFICES ASSUME d # NoCtx
                PROVE  /\ d \in Conns /\ r.cl[d].st \in Alive \cup {"freed"}
                       /\ r.cl[d].st \in Alive => r.cl[d].worker = v /\ r.cl[d].fd = g
    BY DEF EntryOK
  <2>1. d \in Conns /\ r.cl[d].st \in Alive \cup {"freed"}
    BY <1>21
  <2>2. r.cl[d].st \in Alive => r.cl[d].worker = v /\ r.cl[d].fd = g
    BY <1>21
  <2>. QED  BY <2>1, <2>2
<1>23. HandlersOK(r)
  <2>. SUFFICES ASSUME NEW g \in ClientFds, NEW d, d = r.srv.handlers[g], d # NoCtx
                PROVE  r.cl[d].st \in Alive /\ r.cl[d].fd = g
    BY DEF HandlersOK
  <2>1. CASE g = f
    BY <1>5, <1>16, <2>1 DEF Alive
  <2>2. CASE g # f
    <3>1. d = s.srv.handlers[g]
      BY <1>5, <1>16, <2>2
    <3>. QED  BY <1>16, <3>1, HandlerIs
  <2>. QED  BY <2>1, <2>2
<1>24. JobsOK(r, wk)
  <2>. SUFFICES ASSUME NEW v \in WorkerIds, NEW q, q = Queue(r.loops[v]), NEW i \in 1..Len(q)
                PROVE  /\ q[i].job = "register" => RegisterOK(r, wk, v, i)
                       /\ q[i].job = "cleanup" => v = 0 /\ q[i].of \in Conns /\ r.cl[q[i].of].st \in Was
    BY DEF JobsOK
  <2>1. q = Queue(s.loops[v])
    BY <1>17
  <2>2. PICK d : d = q[i].of
    OBVIOUS
  <2>3. /\ q[i].job = "register" => RegisterOK(s, wk, v, i)
        /\ q[i].job = "cleanup" => v = 0 /\ d \in Conns /\ s.cl[d].st \in Was
    <3>f. QueuedFacts(s, wk, v, i, q[i])
      BY <2>1, QueuedIs
    <3>. QED  BY <2>2, <3>f DEF QueuedFacts
  <2>4. ASSUME q[i].job = "register" PROVE RegisterOK(r, wk, v, i)
    <3>1. /\ d \in Conns /\ s.cl[d].st = "waiting" /\ s.cl[d].worker = v /\ s.cl[d].fd = q[i].fd
          /\ \A g \in ClientFds : s.srv.handlers[g] # d
          /\ \A x \in WorkerIds : wk[x].ctx # d /\ \A g \in ClientFds : s.loops[x].entries[g].ctx # d
          /\ \A k \in 1..Len(q) : q[k].job = "register" /\ q[k].of = d => k = i
      BY <2>1, <2>2, <2>3, <2>4 DEF RegisterOK
    <3>2. d # c
      BY <2>1, <2>2, <2>4 DEF NotQueued
    <3>3. \A g \in ClientFds : h.handlers[g] # d
      BY <1>5, <3>1, <3>2
    <3>4. \A x \in WorkerIds, g \in ClientFds : r.loops[x].entries[g].ctx # d
      BY <1>1, <1>18, <3>1, <3>2
    <3>5. /\ r.cl[d].st = "waiting" /\ r.cl[d].worker = v /\ r.cl[d].fd = q[i].fd
          /\ \A g \in ClientFds : r.srv.handlers[g] # d
      BY <1>16, <3>1, <3>3
    <3>. QED  BY <2>2, <3>1, <3>4, <3>5 DEF RegisterOK
  <2>. QED  BY <1>16, <2>2, <2>3, <2>4
<1>25. WorkOK(r, wk)
  BY <1>16, <1>17 DEF Sound, WorkOK
<1>26. ASSUME ~r.srv.stray PROVE Tidy(r, wk)
  <2>0. Tidy(s, wk) /\ ~s.srv.stray /\ s.srv.table[f] = c
    BY <1>4, <1>16, <1>26 DEF Sound
  <2>1. Held(r, c)
    BY <1>4, <1>5, <1>16, <2>0 DEF Held
  <2>2. ASSUME NEW d \in Conns, s.cl[d].fd \in ClientFds, d # c, Held(s, d) PROVE Held(r, d) /\ s.cl[d].fd # f
    BY <1>4, <1>5, <1>16, <2>0, <2>2 DEF Held
  <2>3. ASSUME NEW v \in WorkerIds, NEW g \in ClientFds, NEW d, d = r.loops[v].entries[g].ctx, d # NoCtx
        PROVE  r.cl[d].st \in Alive /\ Held(r, d)
    <3>1. d \in Conns /\ (d # c => s.cl[d].st \in Alive /\ Held(s, d))
      BY <1>21, <2>0, <2>3
    <3>2. d # c => s.cl[d].fd \in ClientFds
      BY <3>1 DEF Sound, ClientsOK
    <3>. QED  BY <1>16, <2>1, <2>2, <3>1, <3>2 DEF Alive
  <2>4. ASSUME NEW n \in Nodes, NEW d, d = r.srv.routing[n], d # NoCtx
        PROVE  r.cl[d].st = "active" /\ r.cl[d].node = n /\ Held(r, d)
    <3>1. d \in Conns /\ s.cl[d].st = "active" /\ s.cl[d].node = n /\ Held(s, d)
      BY <1>4, <1>16, <2>0, <2>4, RouteIs
    <3>2. s.cl[d].fd \in ClientFds /\ d # c
      BY <3>1 DEF Sound, ClientsOK, Alive
    <3>. QED  BY <1>16, <2>2, <3>1, <3>2
  <2>5. \A n \in Nodes : r.srv.keys[n] # NoCtx => r.cl[r.srv.keys[n]].st = "active"
    <3>1. r.srv.keys = s.srv.keys /\ r.cl = s.cl
      BY <1>4, <1>16
    <3>2. \A n \in Nodes : s.srv.keys[n] # NoCtx => s.cl[s.srv.keys[n]].st = "active"
      BY <2>0 DEF Tidy, TidyKeys
    <3>. QED  BY <3>1, <3>2
  <2>6. \A v \in WorkerIds : \A i \in 1..Len(Queue(r.loops[v])) :
          LET j == Queue(r.loops[v])[i]
          IN /\ j.job # "write"
             /\ j.job = "register" => r.srv.table[j.fd] = j.of
             /\ j.job = "cleanup" => \A n \in Nodes : r.srv.routing[n] # j.of
    <3>1. r.srv.table = s.srv.table /\ r.srv.routing = s.srv.routing
      BY <1>4, <1>16
    <3>2. ASSUME NEW v \in WorkerIds, NEW q, q = Queue(r.loops[v]), NEW i \in 1..Len(q)
          PROVE  /\ q[i].job # "write"
                 /\ q[i].job = "register" => r.srv.table[q[i].fd] = q[i].of
                 /\ q[i].job = "cleanup" => \A n \in Nodes : r.srv.routing[n] # q[i].of
      <4>1. q = Queue(s.loops[v])
        BY <1>17, <3>2
      <4>f. QueuedFacts(s, wk, v, i, q[i])
        BY <3>2, <4>1, QueuedIs
      <4>. QED  BY <2>0, <3>1, <4>f DEF QueuedFacts
    <3>. QED  BY <3>2
  <2>7. ASSUME NEW d, d = wk[0].ctx, d # NoCtx, r.cl[d].st # "freed"
        PROVE  r.loops[0].entries[r.cl[d].fd].ctx = d
    <3>1. /\ d \in Conns /\ d # c /\ s.cl[d].st \in Alive /\ s.cl[d].fd \in ClientFds
          /\ s.loops[0].entries[s.cl[d].fd].ctx = d /\ Held(s, d)
      <4>1. WorkFacts(s, 0, d) /\ d # c
        BY <1>1, <2>7, WorkIs
      <4>2. s.cl[d].st # "freed"
        BY <1>16, <2>7
      <4>. QED  BY <2>0, <4>1, <4>2 DEF WorkFacts
    <3>2. PICK g \in Fds : g = s.cl[d].fd
      BY <1>1, <3>1
    <3>3. g # f
      BY <2>2, <3>1, <3>2
    <3>4. r.loops[0].entries[g].ctx = s.loops[0].entries[g].ctx
      BY <1>1, <1>18, <3>3
    <3>. QED  BY <1>16, <3>1, <3>2, <3>4
  <2>8. LET d == wk[0].ctx
        IN d # NoCtx /\ r.cl[d].st # "freed" => r.loops[0].entries[r.cl[d].fd].ctx = d
    BY <2>7
  <2>en. TidyEntries(r)
    BY <2>3 DEF TidyEntries
  <2>ro. TidyRoutes(r)
    BY <2>4 DEF TidyRoutes
  <2>ke. TidyKeys(r)
    BY <2>5 DEF TidyKeys
  <2>jo. TidyJobs(r)
    BY <2>6 DEF TidyJobs
  <2>wo. TidyWork(r, wk)
    BY <2>8 DEF TidyWork
  <2>. QED  BY <2>en, <2>ro, <2>ke, <2>jo, <2>wo DEF Tidy
<1>27. /\ \A v \in WorkerIds : LoopOK(r.loops[v])
       /\ \A v \in WorkerIds \ {0} : Deaf(r.loops[v]) /\ wk[v] = Idle
  BY <1>17 DEF Sound
<1>28. Sound(r, wk)
  BY <1>19, <1>20, <1>22, <1>23, <1>24, <1>25, <1>26, <1>27 DEF Sound
<1>29. Keeps(s, r, wk)
  BY <1>4, <1>16, <1>17, <1>28 DEF Keeps
<1>. QED  BY <1>2, <1>8, <1>15, <1>29

\* registerClientJob, for the job that was first.
LEMMA RegisterJobKeeps ==
  ASSUME NEW s \in StateType, NEW wk \in [WorkerIds -> WorkType], Sound(s, wk), NEW w \in WorkerIds,
         s.loops[w].at = "jobs", NEW j, j = Head(s.loops[w].batch), j.job = "register",
         NEW u, u = OnLoop(s, w, JobDone(s.loops[w]))
  PROVE  Keeps(u, registerClientJob(u, w, j), wk)
<1>1. /\ u \in StateType /\ Sound(u, wk) /\ u.srv = s.srv /\ u.cl = s.cl
      /\ u.loops[w].at \notin {"new", "frames", "writable"}
      /\ \A v \in WorkerIds : u.loops[v].entries = s.loops[v].entries
      /\ 1 \in 1..Len(Queue(s.loops[w])) /\ j = Queue(s.loops[w])[1]
      /\ NotQueued(u, j.of)
  BY JobTaken
<1>2. /\ RegisterOK(s, wk, w, 1) /\ j.of \in Conns /\ j.fd \in ClientFds
      /\ s.cl[j.of].st = "waiting" /\ s.cl[j.of].worker = w /\ s.cl[j.of].fd = j.fd
      /\ ~s.srv.stray => s.srv.table[j.fd] = j.of
  <2>1. PICK q : q = Queue(s.loops[w])
    OBVIOUS
  <2>2. 1 \in 1..Len(q) /\ j = q[1]
    BY <1>1, <2>1
  <2>f. QueuedFacts(s, wk, w, 1, j)
    BY <2>1, <2>2, QueuedIs
  <2>. QED  BY <2>f DEF QueuedFacts
<1>3. PICK c : c = j.of
  OBVIOUS
<1>4. /\ \A f \in ClientFds : s.srv.handlers[f] # c
      /\ \A v \in WorkerIds : wk[v].ctx # c /\ \A f \in ClientFds : s.loops[v].entries[f].ctx # c
  <2>1. RegisterOK(s, wk, w, 1)
    BY <1>2
  <2>2. c = Queue(s.loops[w])[1].of
    BY <1>1, <1>3
  <2>. QED  BY <2>1, <2>2 DEF RegisterOK
<1>5. PICK f : f = j.fd
  OBVIOUS
<1>6. Keeps(u, OnLoop([u EXCEPT !.srv.handlers[f] = c], w, AddFd(u.loops[w], f, c)), wk)
  <2>1. /\ c \in Conns /\ u.cl[c].st = "waiting" /\ u.cl[c].worker = w /\ NotQueued(u, c)
        /\ f = u.cl[c].fd /\ (~u.srv.stray => u.srv.table[f] = c)
    BY <1>1, <1>2, <1>3, <1>5
  <2>2. /\ \A g \in ClientFds : u.srv.handlers[g] # c
        /\ \A v \in WorkerIds : wk[v].ctx # c /\ \A g \in ClientFds : u.loops[v].entries[g].ctx # c
    BY <1>1, <1>4
  <2>3. u \in StateType /\ Sound(u, wk) /\ u.loops[w].at # "new"
    BY <1>1
  <2>. QED  BY <2>1, <2>2, <2>3, AddedSound
<1>. QED  BY <1>3, <1>5, <1>6 DEF registerClientJob

\* cleanupFdJob: whoever had the number, it is closed; had it been the number of
\* another, the close is a stray one.
LEMMA CleanupFdIs ==
  ASSUME NEW s \in StateType, NEW w \in WorkerIds, NEW j \in JobType
  PROVE  LET r == cleanupFdJob(s, w, j)
         IN /\ r \in StateType /\ r.cl = s.cl
            /\ r.loops = With(s.loops, w, RemoveFd(s.loops[w], j.fd))
            /\ r.srv.table = With(s.srv.table, j.fd, NoCtx)
            /\ r.srv.handlers = s.srv.handlers /\ r.srv.routing = s.srv.routing /\ r.srv.keys = s.srv.keys
            /\ r.srv.active = s.srv.active /\ r.srv.pending = s.srv.pending
            /\ r.srv.crashed = s.srv.crashed
            /\ ~r.srv.stray => ~s.srv.stray /\ s.srv.table[j.fd] \in {j.of, NoCtx}
<1>1. PICK e \in BOOLEAN : e <=> s.srv.stray \/ s.srv.table[j.fd] \notin {j.of, NoCtx}
  OBVIOUS
<1>2. PICK h : h = [s.srv EXCEPT !.stray = e, !.table = [s.srv.table EXCEPT ![j.fd] = NoCtx]]
  OBVIOUS
<1>3. /\ h \in ServerType /\ h.table = [s.srv.table EXCEPT ![j.fd] = NoCtx] /\ h.stray = e
      /\ h.handlers = s.srv.handlers /\ h.routing = s.srv.routing /\ h.keys = s.srv.keys
      /\ h.active = s.srv.active /\ h.pending = s.srv.pending /\ h.crashed = s.srv.crashed
  BY <1>2, FromTypes DEF ServerType, MaybeConn
<1>4. PICK u : u = [s EXCEPT !.srv.stray = @ \/ s.srv.table[j.fd] \notin {j.of, NoCtx}]
  OBVIOUS
<1>5. u = [s EXCEPT !.srv = [s.srv EXCEPT !.stray = e]]
  <2>1. e = (s.srv.stray \/ s.srv.table[j.fd] \notin {j.of, NoCtx})
    BY <1>1
  <2>2. u = [s EXCEPT !.srv.stray = s.srv.stray \/ s.srv.table[j.fd] \notin {j.of, NoCtx}]
    BY <1>4 DEF StateType, ServerType
  <2>3. u = [s EXCEPT !.srv.stray = e]
    BY <2>1, <2>2
  <2>. QED  BY <2>3 DEF StateType
<1>6. PICK v : v = Close(u, j.fd)
  OBVIOUS
<1>7. v = [s EXCEPT !.srv = h]
  <2>1. j.fd \in ClientFds
    BY DEF JobType
  <2>2. v = [u EXCEPT !.srv.table[j.fd] = NoCtx]
    BY <1>6, <2>1 DEF Close
  <2>. QED  BY <1>2, <1>5, <2>2 DEF StateType, ServerType
<1>8. v \in StateType /\ v.srv = h /\ v.cl = s.cl /\ v.loops = s.loops
  BY <1>3, <1>7 DEF StateType
<1>9. RemoveFd(s.loops[w], j.fd) \in LoopType
  BY RemoveFdIs, FromTypes, Basics, Zenon DEF JobType
<1>10. PICK r : r = cleanupFdJob(s, w, j)
  OBVIOUS
<1>11. r = [v EXCEPT !.loops = [s.loops EXCEPT ![w] = RemoveFd(s.loops[w], j.fd)]]
  BY <1>4, <1>6, <1>8, <1>10 DEF cleanupFdJob, OnLoop, StateType
<1>12. /\ r \in StateType /\ r.srv = h /\ r.cl = s.cl
       /\ r.loops = [s.loops EXCEPT ![w] = RemoveFd(s.loops[w], j.fd)]
  BY <1>8, <1>9, <1>11, FromTypes DEF StateType
<1>. QED  BY <1>1, <1>3, <1>10, <1>12 DEF With

LEMMA CleanupFdSound ==
  ASSUME NEW s \in StateType, NEW wk \in [WorkerIds -> WorkType], Sound(s, wk), wk[0].ctx = NoCtx,
         NEW j \in JobType, j.of \in Conns, s.cl[j.of].st \in Was,
         ~s.srv.stray => \A n \in Nodes : s.srv.routing[n] # j.of
  PROVE  Keeps(s, cleanupFdJob(s, 0, j), wk)
<1>1. PICK r : r = cleanupFdJob(s, 0, j)
  OBVIOUS
<1>2. PICK f : f = j.fd
  OBVIOUS
<1>3. PICK c : c = j.of
  OBVIOUS
<1>4. /\ f \in ClientFds /\ f \in Fds /\ 0 \in WorkerIds /\ NoCtx \notin Conns /\ ClientFds \subseteq Fds
      /\ Listen \in Fds /\ Listen # f
  BY <1>2, Basics DEF JobType
<1>5. /\ r \in StateType /\ r.cl = s.cl
      /\ r.loops = With(s.loops, 0, RemoveFd(s.loops[0], f))
      /\ r.srv.table = With(s.srv.table, f, NoCtx)
      /\ r.srv.handlers = s.srv.handlers /\ r.srv.routing = s.srv.routing /\ r.srv.keys = s.srv.keys
      /\ r.srv.active = s.srv.active /\ r.srv.pending = s.srv.pending
      /\ r.srv.crashed = s.srv.crashed
      /\ ~r.srv.stray => ~s.srv.stray /\ s.srv.table[f] \in {c, NoCtx}
  BY <1>1, <1>2, <1>3, <1>4, CleanupFdIs
<1>6. /\ r.srv.table[f] = NoCtx /\ \A g \in ClientFds : g # f => r.srv.table[g] = s.srv.table[g]
  BY <1>4, <1>5, FromTypes DEF With
<1>7. PICK m : m = RemoveFd(s.loops[0], f)
  OBVIOUS
<1>8. /\ m \in LoopType /\ m.entries = [s.loops[0].entries EXCEPT ![f] = NoEntry]
      /\ Queue(m) = Queue(s.loops[0]) /\ m.at = s.loops[0].at /\ LoopOK(m)
  BY <1>4, <1>7, RemoveFdIs, FromTypes DEF Sound
<1>9. m.entries[f] = NoEntry /\ \A g \in Fds : g # f => m.entries[g] = s.loops[0].entries[g]
  <2>1. s.loops[0].entries \in [Fds -> [ctx : MaybeConn \cup {Acceptor}, out : BOOLEAN]]
    BY <1>4, FromTypes DEF LoopType
  <2>. QED  BY <1>4, <1>8, <2>1
<1>10. r.loops[0] = m /\ \A v \in WorkerIds : v # 0 => r.loops[v] = s.loops[v]
  BY <1>4, <1>5, <1>7, FromTypes DEF With
<1>11. \A v \in WorkerIds : /\ Queue(r.loops[v]) = Queue(s.loops[v]) /\ LoopOK(r.loops[v])
                            /\ v # 0 => Deaf(r.loops[v])
                            /\ r.loops[v].at = s.loops[v].at
  BY <1>8, <1>10 DEF Sound
<1>12. \A v \in WorkerIds, g \in Fds :
         \/ r.loops[v].entries[g] = s.loops[v].entries[g] /\ ~(v = 0 /\ g = f)
         \/ r.loops[v].entries[g].ctx = NoCtx /\ v = 0 /\ g = f
  BY <1>9, <1>10 DEF NoEntry
<1>13. ClientsOK(r) /\ CountOK(r) /\ RoutesOK(r) /\ HandlersOK(r)
  BY <1>5 DEF Sound, ClientsOK, CountOK, Living, RoutesOK, HandlersOK
<1>14. ListenerOK(r)
  BY <1>4, <1>12 DEF Sound, ListenerOK
<1>15. ASSUME NEW v \in WorkerIds, NEW g \in ClientFds, NEW d, d = r.loops[v].entries[g].ctx, d # NoCtx
       PROVE  /\ d \in Conns /\ r.cl[d].st \in Alive \cup {"freed"}
              /\ r.cl[d].st \in Alive => r.cl[d].worker = v /\ r.cl[d].fd = g
              /\ ~s.srv.stray => s.cl[d].st \in Alive /\ Held(s, d)
              /\ ~(v = 0 /\ g = f)
  <2>1. d = s.loops[v].entries[g].ctx /\ ~(v = 0 /\ g = f)
    BY <1>4, <1>12, <1>15
  <2>2. /\ d \in Conns /\ s.cl[d].st \in Alive \cup {"freed"}
        /\ s.cl[d].st \in Alive => s.cl[d].worker = v /\ s.cl[d].fd = g
        /\ ~s.srv.stray => s.cl[d].st \in Alive /\ Held(s, d)
    <3>f. EntryFacts(s, v, g, d)
      BY <1>15, <2>1, EntryIs
    <3>. QED  BY <3>f DEF EntryFacts
  <2>3. r.cl = s.cl
    BY <1>5
  <2>. QED  BY <2>1, <2>2, <2>3
<1>16. EntriesOK(r)
  BY <1>15 DEF EntriesOK, EntryOK
<1>17. ASSUME NEW v \in WorkerIds, NEW q, q = Queue(r.loops[v]), NEW i \in 1..Len(q)
       PROVE  /\ q[i].job = "register" => RegisterOK(r, wk, v, i)
              /\ q[i].job = "cleanup" => v = 0 /\ q[i].of \in Conns /\ r.cl[q[i].of].st \in Was
  <2>1. q = Queue(s.loops[v])
    BY <1>11, <1>17
  <2>2. PICK d : d = q[i].of
    OBVIOUS
  <2>3. /\ q[i].job = "register" => RegisterOK(s, wk, v, i)
        /\ q[i].job = "cleanup" => v = 0 /\ d \in Conns /\ s.cl[d].st \in Was
    <3>f. QueuedFacts(s, wk, v, i, q[i])
      BY <2>1, QueuedIs
    <3>. QED  BY <2>2, <3>f DEF QueuedFacts
  <2>4. ASSUME q[i].job = "register" PROVE RegisterOK(r, wk, v, i)
    <3>1. /\ d \in Conns /\ s.cl[d].st = "waiting" /\ s.cl[d].worker = v /\ s.cl[d].fd = q[i].fd
          /\ \A g \in ClientFds : s.srv.handlers[g] # d
          /\ \A x \in WorkerIds : wk[x].ctx # d /\ \A g \in ClientFds : s.loops[x].entries[g].ctx # d
          /\ \A k \in 1..Len(q) : q[k].job = "register" /\ q[k].of = d => k = i
      BY <2>1, <2>2, <2>3, <2>4 DEF RegisterOK
    <3>2. \A x \in WorkerIds, g \in ClientFds : r.loops[x].entries[g].ctx # d
      BY <1>4, <1>12, <3>1
    <3>. QED  BY <1>5, <1>17, <2>2, <3>1, <3>2 DEF RegisterOK
  <2>. QED  BY <1>5, <2>2, <2>3, <2>4
<1>18. JobsOK(r, wk)
  BY <1>17 DEF JobsOK
<1>19. WorkOK(r, wk)
  BY <1>5, <1>11 DEF Sound, WorkOK
<1>20. ASSUME ~r.srv.stray PROVE Tidy(r, wk)
  <2>0. Tidy(s, wk) /\ ~s.srv.stray /\ s.srv.table[f] \in {c, NoCtx}
    BY <1>5, <1>20 DEF Sound
  <2>1. ASSUME NEW d \in Conns, s.cl[d].fd \in ClientFds, Held(s, d)
        PROVE  /\ s.cl[d].fd = f => d = c
               /\ s.cl[d].fd # f => Held(r, d)
    <3>1. s.cl[d].fd = f => d = c
      BY <1>4, <2>0, <2>1 DEF Held
    <3>2. s.cl[d].fd # f => Held(r, d)
      BY <1>5, <1>6, <2>1 DEF Held
    <3>. QED  BY <3>1, <3>2
  <2>2. ASSUME NEW v \in WorkerIds, NEW g \in ClientFds, NEW d, d = r.loops[v].entries[g].ctx, d # NoCtx
        PROVE  r.cl[d].st \in Alive /\ Held(r, d)
    <3>1. /\ d \in Conns /\ s.cl[d].st \in Alive /\ Held(s, d) /\ s.cl[d].worker = v /\ s.cl[d].fd = g
          /\ ~(v = 0 /\ g = f)
      <4>1. /\ d \in Conns /\ r.cl[d].st \in Alive \cup {"freed"}
            /\ r.cl[d].st \in Alive => r.cl[d].worker = v /\ r.cl[d].fd = g
            /\ s.cl[d].st \in Alive /\ Held(s, d) /\ ~(v = 0 /\ g = f)
        <5>1. d \in Conns /\ r.cl[d].st \in Alive \cup {"freed"}
          BY <1>15, <2>2
        <5>2. r.cl[d].st \in Alive => r.cl[d].worker = v /\ r.cl[d].fd = g
          BY <1>15, <2>2
        <5>3. s.cl[d].st \in Alive /\ Held(s, d) /\ ~(v = 0 /\ g = f)
          BY <1>15, <2>0, <2>2
        <5>. QED  BY <5>1, <5>2, <5>3
      <4>2. r.cl = s.cl
        BY <1>5
      <4>. QED  BY <4>1, <4>2
    <3>2. g # f
      <4>1. SUFFICES ASSUME g = f PROVE FALSE
        OBVIOUS
      <4>2. d = c
        BY <2>1, <3>1, <4>1
      <4>3. s.cl[d].st = "active"
        BY <1>3, <3>1, <4>2 DEF Was, Alive
      <4>4. s.cl[d].worker = 0
        BY <3>1, <4>3 DEF Sound, ClientsOK
      <4>. QED  BY <3>1, <4>1, <4>4
    <3>. QED  BY <1>5, <2>1, <3>1, <3>2
  <2>3. ASSUME NEW n \in Nodes, NEW d, d = r.srv.routing[n], d # NoCtx
        PROVE  r.cl[d].st = "active" /\ r.cl[d].node = n /\ Held(r, d)
    <3>1. d \in Conns /\ s.cl[d].st = "active" /\ s.cl[d].node = n /\ Held(s, d)
      BY <1>5, <2>0, <2>3, RouteIs
    <3>2. s.cl[d].fd \in ClientFds
      BY <3>1 DEF Sound, ClientsOK, Alive
    <3>3. d # c
      BY <1>3, <1>5, <2>0, <2>3
    <3>. QED  BY <1>5, <2>1, <3>1, <3>2, <3>3
  <2>4. \A n \in Nodes : r.srv.keys[n] # NoCtx => r.cl[r.srv.keys[n]].st = "active"
    BY <1>5, <2>0 DEF Tidy, TidyKeys
  <2>5. ASSUME NEW v \in WorkerIds, NEW q, q = Queue(r.loops[v]), NEW i \in 1..Len(q)
        PROVE  /\ q[i].job # "write"
               /\ q[i].job = "register" => r.srv.table[q[i].fd] = q[i].of
               /\ q[i].job = "cleanup" => \A n \in Nodes : r.srv.routing[n] # q[i].of
    <3>1. q = Queue(s.loops[v])
      BY <1>11, <2>5
    <3>2. /\ q[i].job # "write"
          /\ q[i].job = "register" => /\ s.srv.table[q[i].fd] = q[i].of /\ q[i].of \in Conns
                                      /\ s.cl[q[i].of].st = "waiting" /\ q[i].fd \in ClientFds
          /\ q[i].job = "cleanup" => \A n \in Nodes : s.srv.routing[n] # q[i].of
      <4>f. QueuedFacts(s, wk, v, i, q[i])
        BY <3>1, QueuedIs
      <4>. QED  BY <2>0, <4>f DEF QueuedFacts
    <3>3. q[i].job = "register" => q[i].of # c
      BY <1>3, <3>2 DEF Was
    <3>4. q[i].job = "register" => q[i].fd # f
      BY <1>4, <2>0, <3>2, <3>3
    <3>. QED  BY <1>5, <1>6, <3>2, <3>4
  <2>6. \A v \in WorkerIds : \A i \in 1..Len(Queue(r.loops[v])) :
          LET k == Queue(r.loops[v])[i]
          IN /\ k.job # "write"
             /\ k.job = "register" => r.srv.table[k.fd] = k.of
             /\ k.job = "cleanup" => \A n \in Nodes : r.srv.routing[n] # k.of
    BY <2>5
  <2>7. LET d == wk[0].ctx
        IN d # NoCtx /\ r.cl[d].st # "freed" => r.loops[0].entries[r.cl[d].fd].ctx = d
    OBVIOUS
  <2>en. TidyEntries(r)
    BY <2>2 DEF TidyEntries
  <2>ro. TidyRoutes(r)
    BY <2>3 DEF TidyRoutes
  <2>ke. TidyKeys(r)
    BY <2>4 DEF TidyKeys
  <2>jo. TidyJobs(r)
    BY <2>6 DEF TidyJobs
  <2>wo. TidyWork(r, wk)
    BY <2>7 DEF TidyWork
  <2>. QED  BY <2>en, <2>ro, <2>ke, <2>jo, <2>wo DEF Tidy
<1>21. /\ \A v \in WorkerIds : LoopOK(r.loops[v])
       /\ \A v \in WorkerIds \ {0} : Deaf(r.loops[v]) /\ wk[v] = Idle
  BY <1>11 DEF Sound
<1>22. Sound(r, wk)
  BY <1>13, <1>14, <1>16, <1>18, <1>19, <1>20, <1>21 DEF Sound
<1>23. Keeps(s, r, wk)
  BY <1>5, <1>11, <1>22 DEF Keeps
<1>. QED  BY <1>1, <1>23

LEMMA OtherJobsKeep ==
  ASSUME NEW s \in StateType, NEW wk \in [WorkerIds -> WorkType], Sound(s, wk), NEW w \in WorkerIds,
         s.loops[w].at = "jobs", wk[w].ctx = NoCtx, NEW j, j = Head(s.loops[w].batch),
         NEW u, u = OnLoop(s, w, JobDone(s.loops[w]))
  PROVE  /\ j.job = "cleanup" => Keeps(u, cleanupFdJob(u, w, j), wk)
         /\ j.job = "write" => \A o : Keeps(u, crossWriteJob(u, w, j, o), wk)
<1>1. /\ u \in StateType /\ Sound(u, wk) /\ u.srv = s.srv /\ u.cl = s.cl /\ j \in JobType
      /\ 1 \in 1..Len(Queue(s.loops[w])) /\ j = Queue(s.loops[w])[1]
  BY JobTaken
<1>2. /\ j.job = "cleanup" => /\ w = 0 /\ j.of \in Conns /\ s.cl[j.of].st \in Was
                              /\ ~s.srv.stray => \A n \in Nodes : s.srv.routing[n] # j.of
      /\ j.job = "write" => s.srv.stray
  <2>f. QueuedFacts(s, wk, w, 1, j)
    BY <1>1, QueuedIs
  <2>. QED  BY <2>f DEF QueuedFacts
<1>3. ASSUME j.job = "cleanup" PROVE Keeps(u, cleanupFdJob(u, w, j), wk)
  <2>1. /\ j.of \in Conns /\ u.cl[j.of].st \in Was /\ w = 0
        /\ ~u.srv.stray => \A n \in Nodes : u.srv.routing[n] # j.of
    BY <1>1, <1>2, <1>3
  <2>. QED  BY <1>1, <2>1, CleanupFdSound
<1>4. ASSUME j.job = "write", NEW o PROVE Keeps(u, crossWriteJob(u, w, j, o), wk)
  <2>1. PICK h : h = u.srv.handlers[j.fd]
    OBVIOUS
  <2>2. j.fd \in ClientFds /\ u.srv.stray
    BY <1>1, <1>2, <1>4 DEF JobType
  <2>3. ASSUME h # NoCtx PROVE Keeps(u, writeOrBuffer(u, w, h, o), wk)
    <3>1. h \in Conns /\ u.cl[h].st \in Alive /\ NotQueued(u, h)
      <4>1. u \in StateType /\ Sound(u, wk)
        BY <1>1
      <4>2. h \in Conns /\ u.cl[h].st \in Alive
        BY <2>1, <2>2, <2>3, <4>1, HandlerIs
      <4>3. NotQueued(u, h)
        BY <2>1, <2>2, <4>1, Known
      <4>. QED  BY <4>2, <4>3
    <3>. QED  BY <1>1, <2>2, <3>1, WriteKeeps
  <2>4. Keeps(u, u, wk)
    BY <1>1 DEF Keeps
  <2>. QED  BY <2>1, <2>3, <2>4 DEF crossWriteJob
<1>. QED  BY <1>3, <1>4

-----------------------------------------------------------------------------
(* A connection is accepted.                                               *)

Made(s, r, c, k) ==
  /\ r \in StateType /\ r.loops = s.loops
  /\ \A d \in Conns : d # c => r.cl[d] = s.cl[d]
  /\ r.cl[c] = k
  /\ r.srv.handlers = s.srv.handlers /\ r.srv.routing = s.srv.routing /\ r.srv.keys = s.srv.keys
  /\ r.srv.pending = s.srv.pending /\ r.srv.stray = s.srv.stray /\ r.srv.crashed = s.srv.crashed
  /\ \A g \in ClientFds : r.srv.table[g] = s.srv.table[g] \/ s.srv.table[g] = NoCtx
  /\ k.st = "waiting" => r.srv.active = s.srv.active + 1
  /\ k.st = "refused" => r.srv.active = s.srv.active

\* Nobody knows the client yet.
Unknown(s, wk, c) ==
  /\ NotQueued(s, c)
  /\ \A f \in ClientFds : s.srv.handlers[f] # c
  /\ \A u \in WorkerIds : wk[u].ctx # c /\ \A f \in ClientFds : s.loops[u].entries[f].ctx # c

LEMMA MadeSound ==
  ASSUME NEW s \in StateType, NEW wk \in [WorkerIds -> WorkType], Sound(s, wk),
         NEW c \in Conns, s.cl[c].st = "none",
         NEW k \in ClientType, k.st \in {"waiting", "refused"}, k.fd \in ClientFds \/ k.st = "refused",
         NEW r, Made(s, r, c, k)
  PROVE  Keeps(s, r, wk) /\ Unknown(r, wk, c)
<1>1. /\ r \in StateType /\ r.loops = s.loops
      /\ \A d \in Conns : d # c => r.cl[d] = s.cl[d]
      /\ r.cl[c] = k
      /\ r.srv.handlers = s.srv.handlers /\ r.srv.routing = s.srv.routing /\ r.srv.keys = s.srv.keys
      /\ r.srv.pending = s.srv.pending /\ r.srv.stray = s.srv.stray /\ r.srv.crashed = s.srv.crashed
      /\ k.st = "waiting" => r.srv.active = s.srv.active + 1
      /\ k.st = "refused" => r.srv.active = s.srv.active
  BY DEF Made
<1>t. \A g \in ClientFds : s.srv.table[g] # NoCtx => r.srv.table[g] = s.srv.table[g]
  BY DEF Made
<1>2. \A d \in Conns : s.cl[d].st # "none" => d # c /\ r.cl[d] = s.cl[d]
  BY <1>1
<1>3. \A d \in Conns : s.cl[d].st \in Alive => s.cl[d].fd \in ClientFds
  BY DEF Sound, ClientsOK
<1>4. ASSUME NEW d \in Conns, s.cl[d].st \in Alive, Held(s, d) PROVE Held(r, d)
  <2>1. d # c /\ r.cl[d] = s.cl[d] /\ s.cl[d].fd \in ClientFds /\ s.srv.table[s.cl[d].fd] # NoCtx
    BY <1>2, <1>3, <1>4, Basics DEF Alive, Held
  <2>. QED  BY <1>1, <1>t, <1>4, <2>1 DEF Held
<1>5. ClientsOK(r)
  BY <1>1, <1>2 DEF Sound, ClientsOK, Alive
<1>6. CountOK(r)
  <2>1. IsFiniteSet(Living(s)) /\ c \notin Living(s)
    BY Basics, FS_Subset DEF Living, Alive
  <2>2. CASE k.st = "waiting"
    <3>1. Living(r) = Living(s) \cup {c}
      BY <1>1, <2>2 DEF Living, Alive
    <3>2. Cardinality(Living(s) \cup {c}) = Cardinality(Living(s)) + 1
      BY <2>1, FS_AddElement
    <3>. QED  BY <1>1, <2>2, <3>1, <3>2 DEF Sound, CountOK
  <2>3. CASE k.st = "refused"
    <3>1. Living(r) = Living(s)
      BY <1>1, <2>3 DEF Living, Alive
    <3>. QED  BY <1>1, <2>3, <3>1 DEF Sound, CountOK
  <2>. QED  BY <2>2, <2>3
<1>7. ListenerOK(r)
  BY <1>1 DEF Sound, ListenerOK
<1>8. ASSUME NEW v \in WorkerIds, NEW g \in ClientFds, NEW d, d = r.loops[v].entries[g].ctx, d # NoCtx
      PROVE  /\ d \in Conns /\ r.cl[d].st \in Alive \cup {"freed"} /\ d # c
             /\ r.cl[d].st \in Alive => r.cl[d].worker = v /\ r.cl[d].fd = g
             /\ ~s.srv.stray => r.cl[d].st \in Alive /\ Held(r, d)
  <2>1. /\ d \in Conns /\ s.cl[d].st \in Alive \cup {"freed"}
        /\ s.cl[d].st \in Alive => s.cl[d].worker = v /\ s.cl[d].fd = g
        /\ ~s.srv.stray => s.cl[d].st \in Alive /\ Held(s, d)
    <3>f. EntryFacts(s, v, g, d)
      BY <1>1, <1>8, EntryIs
    <3>. QED  BY <3>f DEF EntryFacts
  <2>2. s.cl[d].st # "none"
    BY <2>1 DEF Alive
  <2>. QED  BY <1>2, <1>4, <2>1, <2>2
<1>9. EntriesOK(r)
  BY <1>8 DEF EntriesOK, EntryOK
<1>10. ASSUME NEW g \in ClientFds, NEW d, d = r.srv.handlers[g], d # NoCtx
       PROVE  d # c /\ r.cl[d].st \in Alive /\ r.cl[d].fd = g
  <2>1. d \in Conns /\ s.cl[d].st \in Alive /\ s.cl[d].fd = g
    BY <1>1, <1>10, HandlerIs
  <2>2. s.cl[d].st # "none"
    BY <2>1 DEF Alive
  <2>. QED  BY <1>2, <2>1, <2>2
<1>11. HandlersOK(r)
  BY <1>10 DEF HandlersOK
<1>12. RoutesOK(r)
  <2>1. \A d \in Conns : s.cl[d].st \in Was => r.cl[d].st \in Was
    BY <1>2 DEF Was
  <2>2. ASSUME NEW n \in Nodes
        PROVE  /\ r.srv.routing[n] # NoCtx => r.cl[r.srv.routing[n]].st \in Was /\ r.srv.keys[n] # NoCtx
               /\ r.srv.keys[n] # NoCtx => r.cl[r.srv.keys[n]].st \in Was
    <3>1. /\ s.srv.routing[n] # NoCtx => s.srv.routing[n] \in Conns /\ s.cl[s.srv.routing[n]].st \in Was
                                          /\ s.srv.keys[n] # NoCtx
          /\ s.srv.keys[n] # NoCtx => s.srv.keys[n] \in Conns /\ s.cl[s.srv.keys[n]].st \in Was
      BY FromTypes DEF Sound, RoutesOK, MaybeConn
    <3>2. r.srv.routing = s.srv.routing /\ r.srv.keys = s.srv.keys
      BY <1>1
    <3>. QED  BY <2>1, <3>1, <3>2
  <2>3. ASSUME NEW p \in r.srv.pending PROVE r.cl[p.from].st \in Was /\ r.cl[p.to].st \in Was
    <3>1. p \in s.srv.pending /\ p.from \in Conns /\ p.to \in Conns
      BY <1>1, FromTypes
    <3>2. s.cl[p.from].st \in Was /\ s.cl[p.to].st \in Was
      BY <3>1 DEF Sound, RoutesOK
    <3>. QED  BY <2>1, <3>1, <3>2
  <2>. QED  BY <2>2, <2>3 DEF RoutesOK
<1>13. ASSUME NEW v \in WorkerIds, NEW q, q = Queue(r.loops[v]), NEW i \in 1..Len(q)
       PROVE  /\ q[i].job = "register" => RegisterOK(r, wk, v, i) /\ q[i].of # c
              /\ q[i].job = "cleanup" => v = 0 /\ q[i].of \in Conns /\ r.cl[q[i].of].st \in Was
  <2>1. q = Queue(s.loops[v])
    BY <1>1, <1>13
  <2>2. PICK d : d = q[i].of
    OBVIOUS
  <2>3. /\ q[i].job = "register" => RegisterOK(s, wk, v, i)
        /\ q[i].job = "cleanup" => v = 0 /\ d \in Conns /\ s.cl[d].st \in Was
    <3>f. QueuedFacts(s, wk, v, i, q[i])
      BY <2>1, QueuedIs
    <3>. QED  BY <2>2, <3>f DEF QueuedFacts
  <2>4. ASSUME q[i].job = "register" PROVE RegisterOK(r, wk, v, i) /\ d # c
    <3>1. /\ d \in Conns /\ s.cl[d].st = "waiting" /\ s.cl[d].worker = v /\ s.cl[d].fd = q[i].fd
          /\ \A g \in ClientFds : s.srv.handlers[g] # d
          /\ \A x \in WorkerIds : wk[x].ctx # d /\ \A g \in ClientFds : s.loops[x].entries[g].ctx # d
          /\ \A x \in 1..Len(q) : q[x].job = "register" /\ q[x].of = d => x = i
      BY <2>1, <2>2, <2>3, <2>4 DEF RegisterOK
    <3>2. d # c /\ r.cl[d] = s.cl[d]
      BY <1>2, <3>1
    <3>. QED  BY <1>1, <1>13, <2>2, <3>1, <3>2 DEF RegisterOK
  <2>. QED  BY <1>2, <2>2, <2>3, <2>4 DEF Was
<1>14. JobsOK(r, wk) /\ NotQueued(r, c)
  BY <1>13 DEF JobsOK, NotQueued
<1>15. ASSUME NEW v \in WorkerIds, NEW d, d = wk[v].ctx, d # NoCtx
       PROVE  d # c /\ d \in Conns /\ r.cl[d] = s.cl[d] /\ s.cl[d].st \in Alive \cup {"freed"}
              /\ (s.cl[d].st \in Alive => s.cl[d].worker = v)
              /\ (~s.srv.stray /\ s.cl[d].st # "freed" => s.loops[0].entries[s.cl[d].fd].ctx = d)
  <2>1. /\ d \in Conns /\ s.cl[d].st \in Alive \cup {"freed"}
        /\ s.cl[d].st \in Alive => s.cl[d].worker = v
        /\ ~s.srv.stray /\ s.cl[d].st # "freed" => s.loops[0].entries[s.cl[d].fd].ctx = d
    <3>1. WorkFacts(s, v, d)
      BY <1>15, WorkIs
    <3>. QED  BY <3>1 DEF WorkFacts
  <2>2. s.cl[d].st # "none"
    BY <2>1 DEF Alive
  <2>. QED  BY <1>2, <2>1, <2>2
<1>16. WorkOK(r, wk)
  <2>1. \A v \in WorkerIds : /\ r.loops[v].at \in {"frames", "writable"} => wk[v].ctx # NoCtx
                             /\ r.loops[v].at = "frames" => wk[v].frames # <<>>
    BY <1>1 DEF Sound, WorkOK
  <2>. QED  BY <1>15, <2>1 DEF WorkOK
<1>17. ASSUME ~r.srv.stray PROVE Tidy(r, wk)
  <2>0. Tidy(s, wk) /\ ~s.srv.stray
    BY <1>1, <1>17 DEF Sound
  <2>1. \A v \in WorkerIds, g \in ClientFds :
          LET d == r.loops[v].entries[g].ctx
          IN d # NoCtx => r.cl[d].st \in Alive /\ Held(r, d)
    BY <1>8, <2>0
  <2>2. ASSUME NEW n \in Nodes, NEW d, d = r.srv.routing[n], d # NoCtx
        PROVE  r.cl[d].st = "active" /\ r.cl[d].node = n /\ Held(r, d)
    <3>1. d \in Conns /\ s.cl[d].st = "active" /\ s.cl[d].node = n /\ Held(s, d)
      BY <1>1, <2>0, <2>2, RouteIs
    <3>. QED  BY <1>2, <1>4, <3>1 DEF Alive
  <2>3. ASSUME NEW n \in Nodes, NEW d, d = r.srv.keys[n], d # NoCtx
        PROVE  r.cl[d].st = "active"
    <3>1. d \in Conns /\ s.cl[d].st = "active"
      BY <1>1, <2>0, <2>3, FromTypes DEF Tidy, TidyKeys, MaybeConn
    <3>. QED  BY <1>2, <3>1
  <2>4. ASSUME NEW v \in WorkerIds, NEW q, q = Queue(r.loops[v]), NEW i \in 1..Len(q)
        PROVE  /\ q[i].job # "write"
               /\ q[i].job = "register" => r.srv.table[q[i].fd] = q[i].of
               /\ q[i].job = "cleanup" => \A n \in Nodes : r.srv.routing[n] # q[i].of
    <3>1. q = Queue(s.loops[v])
      BY <1>1, <2>4
    <3>2. /\ q[i].job # "write"
          /\ q[i].job = "register" => /\ s.srv.table[q[i].fd] = q[i].of /\ q[i].of \in Conns
                                      /\ q[i].fd \in ClientFds
          /\ q[i].job = "cleanup" => \A n \in Nodes : s.srv.routing[n] # q[i].of
      <4>f. QueuedFacts(s, wk, v, i, q[i])
        BY <3>1, QueuedIs
      <4>. QED  BY <2>0, <4>f DEF QueuedFacts
    <3>. QED  BY <1>1, <1>t, <3>2, Basics
  <2>5. \A v \in WorkerIds : \A i \in 1..Len(Queue(r.loops[v])) :
          LET x == Queue(r.loops[v])[i]
          IN /\ x.job # "write"
             /\ x.job = "register" => r.srv.table[x.fd] = x.of
             /\ x.job = "cleanup" => \A n \in Nodes : r.srv.routing[n] # x.of
    BY <2>4
  <2>6. LET d == wk[0].ctx
        IN d # NoCtx /\ r.cl[d].st # "freed" => r.loops[0].entries[r.cl[d].fd].ctx = d
    <3>1. PICK d : d = wk[0].ctx
      OBVIOUS
    <3>2. SUFFICES ASSUME d # NoCtx, r.cl[d].st # "freed"
                   PROVE  r.loops[0].entries[r.cl[d].fd].ctx = d
      BY <3>1
    <3>3. r.cl[d] = s.cl[d] /\ (s.cl[d].st # "freed" => s.loops[0].entries[s.cl[d].fd].ctx = d)
      BY <1>15, <2>0, <3>1, <3>2, Basics
    <3>4. r.loops = s.loops
      BY <1>1
    <3>. QED  BY <3>2, <3>3, <3>4
  <2>en. TidyEntries(r)
    BY <2>1 DEF TidyEntries
  <2>ro. TidyRoutes(r)
    BY <2>2 DEF TidyRoutes
  <2>ke. TidyKeys(r)
    BY <2>3 DEF TidyKeys
  <2>jo. TidyJobs(r)
    BY <2>5 DEF TidyJobs
  <2>wo. TidyWork(r, wk)
    BY <2>6 DEF TidyWork
  <2>. QED  BY <2>en, <2>ro, <2>ke, <2>jo, <2>wo DEF Tidy
<1>18. /\ \A v \in WorkerIds : LoopOK(r.loops[v])
       /\ \A v \in WorkerIds \ {0} : Deaf(r.loops[v]) /\ wk[v] = Idle
  BY <1>1 DEF Sound
<1>19. Sound(r, wk)
  BY <1>5, <1>6, <1>7, <1>9, <1>11, <1>12, <1>14, <1>16, <1>17, <1>18 DEF Sound
<1>20. Unknown(r, wk, c)
  BY <1>8, <1>10, <1>14, <1>15, Basics DEF Unknown
<1>. QED  BY <1>1, <1>19, <1>20 DEF Keeps

LEMMA DispatchKeeps ==
  ASSUME NEW s \in StateType, NEW wk \in [WorkerIds -> WorkType], Sound(s, wk),
         NEW c \in Conns, s.cl[c].st = "none", NEW f \in ClientFds, s.srv.table[f] = NoCtx
  PROVE  Keeps(s, dispatchClient(s, c, f), wk)
<1>1. PICK v : v = s.srv.next
  OBVIOUS
<1>2. PICK x : x = (v + 1) % Workers
  OBVIOUS
<1>3. v \in WorkerIds /\ x \in WorkerIds
  <2>1. v \in 0..(Workers - 1)
    BY <1>1, FromTypes DEF ServerType, WorkerIds
  <2>. QED  BY <1>2, <2>1, RelayV2Assumption DEF WorkerIds
<1>4. PICK s1 : s1 = [s EXCEPT !.srv.next = x]
  OBVIOUS
<1>5. PICK h : h = [s.srv EXCEPT !.next = x]
  OBVIOUS
<1>6. /\ h \in ServerType /\ h.active = s.srv.active /\ h.table = s.srv.table
      /\ h.handlers = s.srv.handlers /\ h.routing = s.srv.routing /\ h.keys = s.srv.keys
      /\ h.pending = s.srv.pending /\ h.stray = s.srv.stray /\ h.crashed = s.srv.crashed
  BY <1>3, <1>5, FromTypes DEF ServerType
<1>7. s1 \in StateType /\ s1.loops = s.loops /\ s1.cl = s.cl /\ s1.srv = h /\ s1 = [s EXCEPT !.srv = h]
  BY <1>4, <1>5, <1>6 DEF StateType
<1>8. ASSUME NEW r, r = [s1 EXCEPT !.cl[c].st = "refused"] PROVE Keeps(s, r, wk)
  <2>1. PICK k : k = [s.cl[c] EXCEPT !.st = "refused"]
    OBVIOUS
  <2>2. k \in ClientType /\ k.st = "refused"
    <3>1. PICK was \in ClientType : was = s.cl[c]
      BY FromTypes
    <3>. QED  BY <2>1, <3>1 DEF ClientType
  <2>3. PICK g : g = [s.cl EXCEPT ![c] = k]
    OBVIOUS
  <2>4. g \in [Conns -> ClientType] /\ g[c] = k /\ \A d \in Conns : d # c => g[d] = s.cl[d]
    BY <2>2, <2>3, SetClient
  <2>5. r = [s1 EXCEPT !.cl = g]
    BY <1>7, <1>8, <2>1, <2>3, FromTypes DEF StateType
  <2>6. r \in StateType /\ r.loops = s.loops /\ r.cl = g /\ r.srv = h
    BY <1>7, <2>4, <2>5 DEF StateType
  <2>7. Made(s, r, c, k)
    BY <1>6, <2>2, <2>4, <2>6 DEF Made
  <2>. QED  BY <2>2, <2>7, MadeSound
<1>9. PICK s2 : s2 = [s1 EXCEPT !.srv.active = @ + 1, !.srv.table[f] = c,
                                !.cl[c] = [@ EXCEPT !.st = "waiting", !.worker = v, !.fd = f]]
  OBVIOUS
<1>10. /\ Keeps(s, s2, wk) /\ Unknown(s2, wk, c)
       /\ s2.cl[c].st = "waiting" /\ s2.cl[c].worker = v /\ s2.cl[c].fd = f
       /\ s2.srv.table[f] = c /\ s2.loops = s.loops
  <2>1. PICK k : k = [s.cl[c] EXCEPT !.st = "waiting", !.worker = v, !.fd = f]
    OBVIOUS
  <2>2. k \in ClientType /\ k.st = "waiting" /\ k.worker = v /\ k.fd = f
    <3>1. f \in Fds /\ s.cl[c] \in ClientType
      BY FromTypes, Basics
    <3>. QED  BY <1>3, <2>1, <3>1 DEF ClientType
  <2>3. PICK g : g = [s.cl EXCEPT ![c] = k]
    OBVIOUS
  <2>4. g \in [Conns -> ClientType] /\ g[c] = k /\ \A d \in Conns : d # c => g[d] = s.cl[d]
    BY <2>2, <2>3, SetClient
  <2>5. PICK t : t = [h.table EXCEPT ![f] = c]
    OBVIOUS
  <2>6. /\ t \in [ClientFds -> MaybeConn] /\ t[f] = c
        /\ \A i \in ClientFds : t[i] = s.srv.table[i] \/ s.srv.table[i] = NoCtx
    BY <1>6, <2>5, FromTypes DEF MaybeConn
  <2>7. PICK a : a = s.srv.active + 1
    OBVIOUS
  <2>8. a \in Nat
    BY <2>7, FromTypes DEF ServerType
  <2>9. PICK e : e = [h EXCEPT !.active = a, !.table = t]
    OBVIOUS
  <2>10. /\ e \in ServerType /\ e.active = a /\ e.table = t
         /\ e.handlers = s.srv.handlers /\ e.routing = s.srv.routing /\ e.keys = s.srv.keys
         /\ e.pending = s.srv.pending /\ e.stray = s.srv.stray /\ e.crashed = s.srv.crashed
    BY <1>6, <2>6, <2>8, <2>9 DEF ServerType
  <2>11. s2 = [s1 EXCEPT !.srv = e, !.cl = g]
    <3>1. s1.srv.active = s.srv.active /\ s1.cl[c] = s.cl[c] /\ s1.srv = h /\ s1.cl = s.cl
      BY <1>6, <1>7
    <3>2. PICK y : y = [s1 EXCEPT !.srv.active = @ + 1, !.srv.table[f] = c]
      OBVIOUS
    <3>3. y = [s1 EXCEPT !.srv = e]
      BY <1>6, <1>7, <2>5, <2>7, <2>9, <3>1, <3>2 DEF StateType, ServerType
    <3>4. s2 = [y EXCEPT !.cl[c] = [@ EXCEPT !.st = "waiting", !.worker = v, !.fd = f]]
      BY <1>7, <1>9, <3>2 DEF StateType
    <3>5. y.cl = s.cl
      BY <1>7, <3>3 DEF StateType
    <3>6. s2 = [y EXCEPT !.cl = g]
      BY <2>1, <2>3, <3>3, <3>4, <3>5, <1>7, FromTypes DEF StateType
    <3>. QED  BY <1>7, <3>3, <3>6 DEF StateType
  <2>12. s2 \in StateType /\ s2.loops = s.loops /\ s2.cl = g /\ s2.srv = e
    BY <1>7, <2>4, <2>10, <2>11 DEF StateType
  <2>13. Made(s, s2, c, k)
    BY <2>2, <2>4, <2>6, <2>7, <2>10, <2>12 DEF Made
  <2>14. Keeps(s, s2, wk) /\ Unknown(s2, wk, c)
    BY <2>2, <2>13, MadeSound
  <2>. QED  BY <2>2, <2>4, <2>6, <2>10, <2>12, <2>14
<1>11. s2 \in StateType /\ Sound(s2, wk)
  BY <1>10 DEF Keeps
<1>12. ASSUME v = 0
       PROVE  Keeps(s, OnLoop([s2 EXCEPT !.srv.handlers[f] = c], 0, AddFd(s.loops[0], f, c)), wk)
  <2>1. Keeps(s2, OnLoop([s2 EXCEPT !.srv.handlers[f] = c], 0, AddFd(s2.loops[0], f, c)), wk)
    BY <1>10, <1>11, <1>12, AddedSound, Basics DEF Unknown
  <2>2. Keeps(s2, OnLoop([s2 EXCEPT !.srv.handlers[f] = c], 0, AddFd(s.loops[0], f, c)), wk)
    BY <1>10, <2>1
  <2>. QED  BY <1>10, <2>2, KeepsAll
<1>13. Keeps(s, OnLoop(s2, v, Execute(s.loops[v], [job |-> "register", fd |-> f, of |-> c])), wk)
  <2>1. PICK j : j = [job |-> "register", fd |-> f, of |-> c]
    OBVIOUS
  <2>2. j \in JobType /\ j.job = "register" /\ j.fd = f /\ j.of = c
    BY <2>1 DEF JobType, MaybeConn
  <2>3. MayQueue(s2, wk, v, j)
    BY <1>10, <2>2 DEF MayQueue, Unknown
  <2>4. Keeps(s2, OnLoop(s2, v, Execute(s2.loops[v], j)), wk)
    BY <1>3, <1>11, <2>3, ExecuteKeeps
  <2>5. Keeps(s, OnLoop(s2, v, Execute(s2.loops[v], j)), wk)
    BY <1>10, <2>4, KeepsAll
  <2>. QED  BY <1>10, <2>1, <2>5
<1>14. /\ Keeps(s, [s1 EXCEPT !.cl[c].st = "refused"], wk)
       /\ s1 = [s EXCEPT !.srv.next = (s.srv.next + 1) % Workers]
       /\ s2 = [s1 EXCEPT !.srv.active = @ + 1, !.srv.table[f] = c,
                          !.cl[c] = [@ EXCEPT !.st = "waiting", !.worker = s.srv.next, !.fd = f]]
       /\ s.srv.next = 0 => Keeps(s, OnLoop([s2 EXCEPT !.srv.handlers[f] = c], 0, AddFd(s.loops[0], f, c)), wk)
       /\ Keeps(s, OnLoop(s2, s.srv.next, Execute(s.loops[s.srv.next], [job |-> "register", fd |-> f, of |-> c])), wk)
  BY <1>1, <1>2, <1>4, <1>8, <1>9, <1>12, <1>13
<1>. QED  BY <1>14 DEF dispatchClient

-----------------------------------------------------------------------------
(* The steps.                                                              *)

LEMMA Live ==
  ASSUME IInv, ~srv.crashed
  PROVE  /\ \A b \in BOOLEAN : /\ Now(b) \in StateType /\ Sound(Now(b), work) /\ Attends(Now(b), work)
                               /\ Now(b).loops = loops /\ Now(b).srv = srv /\ Now(b).cl = cl
         /\ \A now \in Nows : \E b \in BOOLEAN : now = Now(b)
         /\ work \in [WorkerIds -> WorkType]
         /\ peer \in PeerType
<1>1. /\ Now(TRUE) \in StateType /\ work \in [WorkerIds -> WorkType]
      /\ Sound(Now(TRUE), work) /\ Attends(Now(TRUE), work)
  BY DEF IInv, TypeOK
<1>2. ASSUME NEW b \in BOOLEAN
      PROVE  /\ Now(b) \in StateType /\ Sound(Now(b), work) /\ Attends(Now(b), work)
             /\ Now(b).loops = loops /\ Now(b).srv = srv /\ Now(b).cl = cl
  <2>1. /\ Now(b) \in StateType
        /\ Now(b).loops = loops /\ Now(b).srv = srv /\ Now(b).cl = cl
        /\ Now(TRUE).loops = loops /\ Now(TRUE).srv = srv /\ Now(TRUE).cl = cl
    BY <1>1 DEF Now, StateType
  <2>2. PICK r : r = Now(b)
    OBVIOUS
  <2>3. PICK s : s = Now(TRUE)
    OBVIOUS
  <2>4. /\ r \in StateType /\ s \in StateType /\ r.loops = s.loops /\ r.srv = s.srv /\ r.cl = s.cl
        /\ Sound(s, work) /\ Attends(s, work)
    BY <1>1, <2>1, <2>2, <2>3
  <2>5. Alike(s, r)
    BY <2>4 DEF Alike
  <2>6. Placed(r, work)
    BY <2>4 DEF Placed, Sound, ListenerOK, WorkOK
  <2>7. Sound(r, work) /\ Attends(r, work)
    BY <1>1, <2>4, <2>5, <2>6, Similar, SameWork DEF Attends
  <2>. QED  BY <2>1, <2>2, <2>7
<1>3. \A now \in Nows : \E b \in BOOLEAN : now = Now(b)
  BY DEF Nows
<1>. QED  BY <1>1, <1>2, <1>3 DEF IInv, TypeOK

LEMMA NextIs ==
  ASSUME NEW r \in StateType, ~r.srv.crashed,
         loops' = r.loops, cl' = r.cl, srv' = r.srv,
         work' \in [WorkerIds -> WorkType], Sound(r, work'), Attends(r, work'), peer' \in PeerType
  PROVE  IInv'
<1>1. PICK v : v = [r EXCEPT !.hit = TRUE]
  OBVIOUS
<1>2. v \in StateType /\ v.loops = r.loops /\ v.srv = r.srv /\ v.cl = r.cl
  BY <1>1 DEF StateType
<1>3. v = Now(TRUE)'
  BY <1>1 DEF Now, StateType
<1>4. Alike(r, v)
  BY <1>2 DEF Alike
<1>5. Placed(v, work')
  BY <1>2 DEF Placed, Sound, ListenerOK, WorkOK
<1>6. Sound(v, work')
  BY <1>2, <1>4, <1>5, Similar, SameWork
<1>7. Attends(v, work')
  BY <1>2 DEF Attends
<1>. QED  BY <1>2, <1>3, <1>6, <1>7 DEF IInv, TypeOK

\* The step is taken, or the process dies of it.
LEMMA BecomeIs ==
  ASSUME NEW r \in StateType, ~r.srv.crashed, Become(r),
         work' \in [WorkerIds -> WorkType], Sound(r, work'), Attends(r, work'), peer' \in PeerType
  PROVE  IInv'
<1>1. CASE /\ loops' = r.loops /\ cl' = r.cl
           /\ srv' = [r.srv EXCEPT !.undefined = FALSE]
  <2>1. PICK u : u = [r EXCEPT !.srv = [r.srv EXCEPT !.undefined = FALSE]]
    OBVIOUS
  <2>2. u \in StateType /\ Sound(u, work') /\ u.srv.crashed = r.srv.crashed /\ u.loops = r.loops /\ u.cl = r.cl
    BY <2>1, UndefinedSound
  <2>3. u.srv = srv'
    BY <1>1, <2>1 DEF StateType
  <2>4. Attends(u, work')
    BY <2>2 DEF Attends
  <2>. QED  BY <1>1, <2>2, <2>3, <2>4, NextIs
<1>2. CASE /\ loops' = NewLoops /\ cl' = [c \in Conns |-> NoHandler]
           /\ srv' = [NewServer EXCEPT !.crashed = TRUE]
  <2>1. loops' \in [WorkerIds -> LoopType]
    BY <1>2 DEF NewLoops, NewLoop, NoEntry, LoopType, Places, MaybeConn
  <2>2. cl' \in [Conns -> ClientType]
    BY <1>2, Basics DEF NoHandler, ClientType
  <2>3. srv' \in ServerType /\ srv'.crashed /\ ~srv'.running /\ ~srv'.begun
    BY <1>2, Basics DEF NewServer, ServerType, MaybeConn
  <2>4. Now(TRUE)' \in StateType
    BY <2>1, <2>2, <2>3 DEF Now, StateType
  <2>. QED  BY <1>2, <2>3, <2>4 DEF IInv, TypeOK
<1>. QED  BY <1>1, <1>2 DEF Become

LEMMA GoingIs ==
  ASSUME NEW l \in LoopType, LoopOK(l), l.at \in {"pass", "accept", "frames", "writable"},
         NEW frames \in Seq(FrameType), NEW out \in BOOLEAN
  PROVE  LET m == Going(l, frames, out)
         IN /\ m \in LoopType /\ LoopOK(m) /\ m.entries = l.entries /\ Queue(m) = Queue(l)
            /\ m.at = "frames" => frames # <<>>
            /\ m.at \in {"frames", "writable"} <=> frames # <<>> \/ out
<1>0. l.batch = <<>> /\ (l.jobs # <<>> => l.wake) /\ l.at # "new"
  BY DEF LoopOK
<1>1. CASE frames # <<>>
  <2>1. Going(l, frames, out) = [l EXCEPT !.at = "frames"]
    BY <1>1 DEF Going
  <2>. QED  BY <1>0, <1>1, <2>1 DEF LoopType, LoopOK, Queue, Places
<1>2. CASE frames = <<>> /\ out
  <2>1. PICK m : m = [l EXCEPT !.at = "writable"]
    OBVIOUS
  <2>2. Going(l, frames, out) = m
    BY <1>2, <2>1 DEF Going
  <2>3. /\ m \in LoopType /\ m.at = "writable" /\ m.entries = l.entries /\ m.jobs = l.jobs
        /\ m.batch = l.batch /\ m.wake = l.wake
    BY <2>1 DEF LoopType, Places
  <2>4. Queue(m) = Queue(l)
    BY <2>3 DEF Queue
  <2>5. LoopOK(m)
    BY <1>0, <2>3 DEF LoopOK
  <2>. QED  BY <1>2, <2>2, <2>3, <2>4, <2>5
<1>3. CASE frames = <<>> /\ ~out
  <2>1. Going(l, frames, out) = Pass(l)
    BY <1>3 DEF Going
  <2>2. Moved(l, Pass(l))
    BY <1>0, Passed
  <2>. QED  BY <1>3, <2>1, <2>2 DEF Moved
<1>. QED  BY <1>1, <1>2, <1>3

\* Worker 0 goes on to the frames, to the writing or to the next descriptor.
LEMMA GoingSound ==
  ASSUME NEW s \in StateType, NEW wk \in [WorkerIds -> WorkType], Sound(s, wk),
         s.loops[0].at \in {"pass", "accept", "frames", "writable"},
         NEW frames \in Seq(FrameType), NEW out \in BOOLEAN, NEW c,
         NEW vk \in [WorkerIds -> WorkType], vk[0] = Serving(c, frames, out),
         \A v \in WorkerIds : v # 0 => vk[v] = wk[v],
         frames # <<>> \/ out => c # NoCtx /\ Taken(s, wk, vk),
         NEW r, r = OnLoop(s, 0, Going(s.loops[0], frames, out))
  PROVE  r \in StateType /\ Sound(r, vk) /\ Attends(r, vk) /\ r.srv = s.srv
<1>1. s.loops[0] \in LoopType /\ LoopOK(s.loops[0]) /\ 0 \in WorkerIds
  BY FromTypes, Basics DEF Sound
<1>2. PICK m : m = Going(s.loops[0], frames, out)
  OBVIOUS
<1>3. /\ m \in LoopType /\ LoopOK(m) /\ m.entries = s.loops[0].entries /\ Queue(m) = Queue(s.loops[0])
      /\ m.at = "frames" => frames # <<>>
      /\ m.at \in {"frames", "writable"} <=> frames # <<>> \/ out
  BY <1>1, <1>2, GoingIs
<1>4. /\ frames # <<>> \/ out => vk[0].ctx = c /\ vk[0].frames = frames
      /\ ~(frames # <<>> \/ out) => vk[0].ctx = NoCtx
  BY DEF Serving, Idle
<1>5. Taken(s, wk, vk)
  <2>1. CASE frames # <<>> \/ out
    BY <2>1
  <2>2. CASE ~(frames # <<>> \/ out)
    BY <1>4, <2>2 DEF Taken
  <2>. QED  BY <2>1, <2>2
<1>6. m.entries[Listen].ctx \in {NoCtx, Acceptor} /\ ~Deaf(s.loops[0])
  BY <1>1, <1>3 DEF Sound, ListenerOK, Deaf
<1>7. /\ m.at \in {"frames", "writable"} => vk[0].ctx # NoCtx
      /\ m.at = "frames" => vk[0].frames # <<>>
  BY <1>3, <1>4
<1>8. /\ r \in StateType /\ Sound(r, vk) /\ r.srv = s.srv /\ r.loops[0] = m
      /\ \A v \in WorkerIds : v # 0 => r.loops[v] = s.loops[v]
  <2>1. r = OnLoop(s, 0, m) /\ \A f \in ClientFds : m.entries[f].ctx = s.loops[0].entries[f].ctx
    BY <1>2, <1>3
  <2>2. m \in LoopType /\ LoopOK(m) /\ Queue(m) = Queue(s.loops[0]) /\ 0 \in WorkerIds
    BY <1>1, <1>3
  <2>. QED  BY <1>5, <1>6, <1>7, <2>1, <2>2, LoopSwapped
<1>9. Attends(r, vk)
  <2>1. \A v \in WorkerIds : v # 0 => vk[v].ctx = NoCtx
    BY <1>8 DEF Sound, Idle
  <2>. QED  BY <1>3, <1>4, <1>8, <2>1 DEF Attends
<1>. QED  BY <1>8, <1>9

\* A loop that serves nobody moves on by itself.
LEMMA LoopSteps ==
  ASSUME IInv, ~srv.crashed, NEW w \in WorkerIds, loops[w].at \notin {"frames", "writable"},
         NEW m, Moved(loops[w], m), loops' = [loops EXCEPT ![w] = m],
         UNCHANGED <<work, srv, cl, peer, sent>>
  PROVE  IInv'
<1>1. /\ Now(TRUE) \in StateType /\ Sound(Now(TRUE), work) /\ Attends(Now(TRUE), work)
      /\ Now(TRUE).loops = loops /\ Now(TRUE).srv = srv /\ Now(TRUE).cl = cl
      /\ work \in [WorkerIds -> WorkType] /\ peer \in PeerType
  BY Live
<1>2. PICK s : s = Now(TRUE)
  OBVIOUS
<1>3. PICK r : r = OnLoop(s, w, m)
  OBVIOUS
<1>4. /\ r \in StateType /\ Sound(r, work) /\ r.srv = srv /\ r.cl = cl /\ r.loops[w] = m
      /\ \A v \in WorkerIds : v # w => r.loops[v] = loops[v]
  <2>1. s \in StateType /\ Sound(s, work) /\ s.loops = loops /\ s.srv = srv /\ s.cl = cl
    BY <1>1, <1>2
  <2>2. Moved(s.loops[w], m)
    BY <2>1
  <2>. QED  BY <1>1, <1>3, <2>1, <2>2, LoopMoved
<1>5. loops' = r.loops
  BY <1>1, <1>2, <1>3 DEF OnLoop, StateType
<1>6. Attends(r, work)
  BY <1>1, <1>4 DEF Attends
<1>7. work' = work /\ peer' = peer /\ srv' = srv /\ cl' = cl
  OBVIOUS
<1>. QED  BY <1>1, <1>4, <1>5, <1>6, <1>7, NextIs

LEMMA LoopIs ==
  ASSUME IInv, ~srv.crashed, NEW w \in WorkerIds
  PROVE  loops[w] \in LoopType /\ LoopOK(loops[w]) /\ (w # 0 => Deaf(loops[w]))
BY Live, FromTypes DEF Sound

LEMMA ReadyIs ==
  ASSUME IInv, ~srv.crashed, NEW w \in WorkerIds
  PROVE  /\ Ready(w) \in SUBSET [fd : Fds, hup : BOOLEAN, in : BOOLEAN, out : BOOLEAN]
         /\ Deaf(loops[w]) => Ready(w) = {}
<1>1. loops[w] \in LoopType
  BY LoopIs
<1>2. ASSUME NEW p \in loops[w].polled
      PROVE  Event(p) \in [fd : Fds, hup : BOOLEAN, in : BOOLEAN, out : BOOLEAN]
  <2>1. p.fd \in Fds /\ p.out \in BOOLEAN /\ Listen \in Fds
    BY <1>1, Basics DEF LoopType
  <2>2. PICK a \in BOOLEAN : a = (srv.running /\ Backlog # {})
    OBVIOUS
  <2>3. PICK b \in BOOLEAN : b = (peer[srv.table[p.fd]].st = "rst")
    OBVIOUS
  <2>4. PICK d \in BOOLEAN :
          d = (peer[srv.table[p.fd]].st = "fin" \/ peer[srv.table[p.fd]].inbox # <<>>)
    OBVIOUS
  <2>5. Event(p) \in {[fd |-> Listen, hup |-> FALSE, in |-> a, out |-> FALSE],
                      [fd |-> p.fd, hup |-> TRUE, in |-> FALSE, out |-> FALSE],
                      [fd |-> p.fd, hup |-> b, in |-> d, out |-> p.out]}
    BY <2>2, <2>3, <2>4, Zenon DEF Event
  <2>6. /\ [fd |-> Listen, hup |-> FALSE, in |-> a, out |-> FALSE]
             \in [fd : Fds, hup : BOOLEAN, in : BOOLEAN, out : BOOLEAN]
        /\ [fd |-> p.fd, hup |-> TRUE, in |-> FALSE, out |-> FALSE]
             \in [fd : Fds, hup : BOOLEAN, in : BOOLEAN, out : BOOLEAN]
        /\ [fd |-> p.fd, hup |-> b, in |-> d, out |-> p.out]
             \in [fd : Fds, hup : BOOLEAN, in : BOOLEAN, out : BOOLEAN]
    BY <2>1
  <2>. QED  BY <2>5, <2>6
<1>. QED  BY <1>2 DEF Ready, Deaf

LEMMA Begin0Step ==
  ASSUME IInv, ~srv.crashed, NEW w \in WorkerIds, Begin0(w)
  PROVE  IInv'
<1>1. loops[w] \in LoopType /\ LoopOK(loops[w]) /\ loops[w].at = "new"
  BY LoopIs DEF Begin0
<1>2. Moved(loops[w], Begin(loops[w]))
  BY <1>1, Begins
<1>. QED  BY <1>1, <1>2, LoopSteps DEF Begin0

LEMMA PollStep ==
  ASSUME IInv, ~srv.crashed, NEW w \in WorkerIds, Poll(w)
  PROVE  IInv'
<1>1. loops[w] \in LoopType /\ LoopOK(loops[w]) /\ loops[w].at = "poll"
  BY LoopIs DEF Poll
<1>2. Moved(loops[w], Return(loops[w], Ready(w)))
  BY <1>1, ReadyIs, Returned
<1>. QED  BY <1>1, <1>2, LoopSteps DEF Poll

LEMMA PollTimesOutStep ==
  ASSUME IInv, ~srv.crashed, PollTimesOut
  PROVE  IInv'
<1>1. 0 \in WorkerIds /\ loops[0] \in LoopType /\ LoopOK(loops[0]) /\ loops[0].at = "poll"
  BY LoopIs, Basics DEF PollTimesOut
<1>2. PICK b \in BOOLEAN : b = (loops[0].running /\ srv.running)
  OBVIOUS
<1>3. Moved(loops[0], TimeOut([loops[0] EXCEPT !.running = b]))
  BY <1>1, TimesOut
<1>4. loops' = [loops EXCEPT ![0] = TimeOut([loops[0] EXCEPT !.running = b])]
  <2>1. loops' = [loops EXCEPT ![0] = TimeOut([loops[0] EXCEPT !.running = loops[0].running /\ srv.running])]
    BY Zenon DEF PollTimesOut
  <2>. QED  BY <1>2, <2>1
<1>. QED  BY <1>1, <1>3, <1>4, LoopSteps DEF PollTimesOut

\* A loop goes into accept with what it has, or on.
LEMMA AcceptingMoves ==
  ASSUME NEW l \in LoopType, LoopOK(l), l.at \in {"pass", "accept"}
  PROVE  Moved(l, Accepting(l))
<1>1. CASE srv.running
  <2>1. PICK y : y = [l EXCEPT !.at = "accept"]
    OBVIOUS
  <2>2. /\ y \in LoopType /\ y.entries = l.entries /\ y.jobs = l.jobs /\ y.batch = l.batch
        /\ y.wake = l.wake /\ y.at = "accept" /\ y.running = l.running
    BY <2>1 DEF LoopType, Places
  <2>3. LoopOK(y) /\ Queue(y) = Queue(l)
    BY <2>2 DEF LoopOK, Queue
  <2>4. ~Deaf(l) /\ ~Deaf(y)
    BY <2>2 DEF Deaf
  <2>5. Accepting(l) = y
    BY <1>1, <2>1 DEF Accepting
  <2>. QED  BY <2>2, <2>3, <2>4, <2>5 DEF Moved
<1>2. CASE ~srv.running
  <2>1. Accepting(l) = Pass(l)
    BY <1>2 DEF Accepting
  <2>2. l.batch = <<>> /\ (l.jobs # <<>> => l.wake) /\ l.at # "new"
    BY DEF LoopOK
  <2>. QED  BY <2>1, <2>2, Passed
<1>. QED  BY <1>1, <1>2

LEMMA AcceptEndsStep ==
  ASSUME IInv, ~srv.crashed, AcceptEnds
  PROVE  IInv'
<1>1. 0 \in WorkerIds /\ loops[0] \in LoopType /\ LoopOK(loops[0]) /\ loops[0].at = "accept"
  BY LoopIs, Basics DEF AcceptEnds
<1>2. Moved(loops[0], Pass(loops[0]))
  BY <1>1, Passed DEF LoopOK
<1>. QED  BY <1>1, <1>2, LoopSteps DEF AcceptEnds

LEMMA JobsStep ==
  ASSUME IInv, ~srv.crashed, NEW w \in WorkerIds, Jobs(w)
  PROVE  IInv'
<1>1. loops[w] \in LoopType /\ LoopOK(loops[w]) /\ loops[w].at \in {"drain", "take"}
  BY LoopIs DEF Jobs
<1>2. Moved(loops[w], ProcessJobs(loops[w]))
  BY <1>1, JobsProcessed
<1>. QED  BY <1>1, <1>2, LoopSteps DEF Jobs

\* The flags of the server are for the main thread to set.
LEMMA FlagsSet ==
  ASSUME NEW s \in StateType, Sound(s, work), Attends(s, work), s.srv = srv, s.cl = cl,
         ~srv.crashed, work \in [WorkerIds -> WorkType], peer \in PeerType,
         NEW a \in BOOLEAN, NEW b \in BOOLEAN,
         srv' = [srv EXCEPT !.begun = a, !.running = b], loops' = s.loops,
         UNCHANGED <<work, cl, peer, sent>>
  PROVE  IInv'
<1>1. PICK h : h = [srv EXCEPT !.begun = a, !.running = b]
  OBVIOUS
<1>2. srv \in ServerType
  BY FromTypes
<1>3. /\ h \in ServerType /\ ~h.crashed
      /\ h.handlers = srv.handlers /\ h.routing = srv.routing /\ h.keys = srv.keys
      /\ h.table = srv.table /\ h.active = srv.active /\ h.pending = srv.pending
      /\ h.stray = srv.stray
  BY <1>1, <1>2 DEF ServerType
<1>4. PICK r : r = [s EXCEPT !.srv = h]
  OBVIOUS
<1>5. r \in StateType /\ r.srv = h /\ r.loops = s.loops /\ r.cl = s.cl
  BY <1>3, <1>4 DEF StateType
<1>6. Alike(s, r)
  BY <1>3, <1>5 DEF Alike
<1>7. Placed(r, work)
  BY <1>5 DEF Placed, Sound, ListenerOK, WorkOK
<1>8. Sound(r, work)
  BY <1>5, <1>6, <1>7, Similar, SameWork
<1>9. Attends(r, work)
  BY <1>5 DEF Attends
<1>10. work' = work /\ peer' = peer /\ cl' = r.cl /\ srv' = r.srv /\ loops' = r.loops
  BY <1>1, <1>5
<1>. QED  BY <1>3, <1>5, <1>8, <1>9, <1>10, NextIs

LEMMA RunStep ==
  ASSUME IInv, Run
  PROVE  IInv'
<1>1. ~srv.crashed
  BY DEF Run
<1>2. /\ Now(TRUE) \in StateType /\ Sound(Now(TRUE), work) /\ Attends(Now(TRUE), work)
      /\ Now(TRUE).loops = loops /\ Now(TRUE).srv = srv /\ Now(TRUE).cl = cl
      /\ work \in [WorkerIds -> WorkType] /\ peer \in PeerType
  BY <1>1, Live
<1>3. PICK s : s = Now(TRUE)
  BY Zenon
<1>4. /\ s \in StateType /\ Sound(s, work) /\ Attends(s, work)
      /\ s.loops = loops /\ s.srv = srv /\ s.cl = cl
  BY <1>2, <1>3
<1>5. 0 \in WorkerIds /\ loops[0] \in LoopType /\ LoopOK(loops[0])
  BY <1>1, LoopIs, Basics
<1>6. PICK m : m = AddFd(loops[0], Listen, Acceptor)
  OBVIOUS
<1>7. /\ m \in LoopType /\ m.at = loops[0].at /\ m.jobs = loops[0].jobs /\ m.batch = loops[0].batch
      /\ m.wake = loops[0].wake /\ m.running = loops[0].running
      /\ m.entries = [loops[0].entries EXCEPT ![Listen] = [ctx |-> Acceptor, out |-> FALSE]]
  <2>1. [loops[0].entries EXCEPT ![Listen] = [ctx |-> Acceptor, out |-> FALSE]]
          \in [Fds -> [ctx : MaybeConn \cup {Acceptor}, out : BOOLEAN]]
    BY <1>5 DEF LoopType
  <2>2. m = [loops[0] EXCEPT !.entries = [loops[0].entries EXCEPT ![Listen] = [ctx |-> Acceptor, out |-> FALSE]]]
    BY <1>5, <1>6 DEF AddFd, LoopType
  <2>. QED  BY <1>5, <2>1, <2>2 DEF LoopType
<1>8. m.entries[Listen].ctx = Acceptor /\ \A f \in ClientFds : m.entries[f] = loops[0].entries[f]
  <2>1. loops[0].entries \in [Fds -> [ctx : MaybeConn \cup {Acceptor}, out : BOOLEAN]]
    BY <1>5 DEF LoopType
  <2>. QED  BY <1>7, <2>1, Basics
<1>9. LoopOK(m) /\ Queue(m) = Queue(loops[0])
  BY <1>5, <1>7 DEF LoopOK, Queue
<1>10. /\ m.at \in {"frames", "writable"} => work[0].ctx # NoCtx
       /\ m.at = "frames" => work[0].frames # <<>>
  BY <1>4, <1>5, <1>7 DEF Sound, WorkOK
<1>11. PICK r : r = OnLoop(s, 0, m)
  OBVIOUS
<1>12. /\ r \in StateType /\ Sound(r, work) /\ r.srv = srv /\ r.cl = cl /\ r.loops[0] = m
       /\ \A v \in WorkerIds : v # 0 => r.loops[v] = loops[v]
  <2>1. /\ m \in LoopType /\ LoopOK(m) /\ Queue(m) = Queue(s.loops[0])
        /\ \A f \in ClientFds : m.entries[f].ctx = s.loops[0].entries[f].ctx
        /\ m.entries[Listen].ctx \in {NoCtx, Acceptor}
    BY <1>4, <1>7, <1>8, <1>9
  <2>. QED  BY <1>2, <1>4, <1>5, <1>10, <1>11, <2>1, LoopSwapped, SameWork
<1>13. Attends(r, work)
  BY <1>4, <1>7, <1>12 DEF Attends
<1>14. loops' = r.loops
  BY <1>4, <1>6, <1>11 DEF Run, OnLoop, StateType
<1>15. srv' = [srv EXCEPT !.begun = TRUE, !.running = TRUE] /\ UNCHANGED <<work, cl, peer, sent>>
  BY DEF Run
<1>. QED  BY <1>1, <1>2, <1>12, <1>13, <1>14, <1>15, FlagsSet, Zenon

LEMMA StopStep ==
  ASSUME IInv, Stop
  PROVE  IInv'
<1>1. ~srv.crashed
  BY DEF Stop, IInv
<1>2. /\ Now(TRUE) \in StateType /\ Sound(Now(TRUE), work) /\ Attends(Now(TRUE), work)
      /\ Now(TRUE).loops = loops /\ Now(TRUE).srv = srv /\ Now(TRUE).cl = cl
      /\ work \in [WorkerIds -> WorkType] /\ peer \in PeerType
  BY <1>1, Live
<1>3. PICK s : s = Now(TRUE)
  BY Zenon
<1>4. /\ s \in StateType /\ Sound(s, work) /\ Attends(s, work)
      /\ s.loops = loops /\ s.srv = srv /\ s.cl = cl
  BY <1>2, <1>3
<1>5. PICK g : g = [w \in WorkerIds |-> StopLoop(loops[w])]
  OBVIOUS
<1>6. ASSUME NEW w \in WorkerIds
      PROVE  /\ g[w] \in LoopType /\ LoopOK(g[w]) /\ (Deaf(loops[w]) => Deaf(g[w]))
             /\ Queue(g[w]) = Queue(loops[w]) /\ g[w].entries = loops[w].entries
             /\ g[w].at = loops[w].at
  <2>1. loops[w] \in LoopType /\ LoopOK(loops[w])
    BY <1>1, LoopIs
  <2>2. g[w] = [loops[w] EXCEPT !.running = FALSE, !.wake = TRUE]
    BY <1>5, <2>1, Zenon DEF StopLoop, Wakeup, LoopType
  <2>. QED  BY <2>1, <2>2 DEF LoopType, LoopOK, Queue, Deaf
<1>7. PICK r : r = [s EXCEPT !.loops = g]
  OBVIOUS
<1>8. r \in StateType /\ r.loops = g /\ r.srv = srv /\ r.cl = cl
  BY <1>4, <1>5, <1>6, <1>7 DEF StateType
<1>9. Alike(s, r)
  BY <1>4, <1>6, <1>8 DEF Alike
<1>10. Placed(r, work)
  <2>1. \A w \in WorkerIds : LoopOK(r.loops[w])
    BY <1>6, <1>8
  <2>2. \A w \in WorkerIds \ {0} : Deaf(r.loops[w]) /\ work[w] = Idle
    BY <1>4, <1>6, <1>8 DEF Sound
  <2>3. ListenerOK(r)
    BY <1>4, <1>6, <1>8 DEF Sound, ListenerOK
  <2>4. \A w \in WorkerIds : /\ r.loops[w].at \in {"frames", "writable"} => work[w].ctx # NoCtx
                             /\ r.loops[w].at = "frames" => work[w].frames # <<>>
    BY <1>4, <1>6, <1>8 DEF Sound, WorkOK
  <2>. QED  BY <2>1, <2>2, <2>3, <2>4 DEF Placed
<1>11. Sound(r, work)
  BY <1>2, <1>4, <1>8, <1>9, <1>10, Similar, SameWork
<1>12. Attends(r, work)
  BY <1>4, <1>6, <1>8 DEF Attends
<1>13. PICK a \in BOOLEAN : a = srv.begun
  <2>1. srv \in ServerType
    BY <1>4, FromTypes
  <2>. QED  BY <2>1 DEF ServerType
<1>14. srv' = [srv EXCEPT !.begun = a, !.running = FALSE] /\ UNCHANGED <<work, cl, peer, sent>>
  <2>1. srv \in ServerType
    BY <1>4, FromTypes
  <2>. QED  BY <1>13, <2>1 DEF Stop, ServerType
<1>15. loops' = r.loops
  BY <1>5, <1>8 DEF Stop
<1>. QED  BY <1>1, <1>2, <1>8, <1>11, <1>12, <1>14, <1>15, FlagsSet, Zenon

LEMMA NowIs ==
  ASSUME IInv, ~srv.crashed, NEW now \in Nows
  PROVE  /\ now \in StateType /\ Sound(now, work) /\ Attends(now, work)
         /\ now.loops = loops /\ now.srv = srv /\ now.cl = cl
         /\ work \in [WorkerIds -> WorkType] /\ peer \in PeerType
<1>1. PICK b \in BOOLEAN : now = Now(b)
  BY Live
<1>2. /\ Now(b) \in StateType /\ Sound(Now(b), work) /\ Attends(Now(b), work)
      /\ Now(b).loops = loops /\ Now(b).srv = srv /\ Now(b).cl = cl
  BY Live
<1>. QED  BY <1>1, <1>2, Live

\* Worker 0 is done with a descriptor.
LEMMA PassSound ==
  ASSUME NEW s \in StateType, NEW wk \in [WorkerIds -> WorkType], Sound(s, wk),
         s.loops[0].at \in {"pass", "accept", "frames", "writable"},
         wk[0].ctx = NoCtx, NEW r, r = [s EXCEPT !.loops[0] = Pass(s.loops[0])]
  PROVE  r \in StateType /\ Sound(r, wk) /\ Attends(r, wk) /\ r.srv = s.srv
<1>1. 0 \in WorkerIds /\ s.loops[0] \in LoopType /\ LoopOK(s.loops[0])
  BY FromTypes, Basics DEF Sound
<1>2. Moved(s.loops[0], Pass(s.loops[0]))
  BY <1>1, Passed DEF LoopOK
<1>3. r = OnLoop(s, 0, Pass(s.loops[0]))
  BY DEF OnLoop
<1>4. r \in StateType /\ Sound(r, wk) /\ r.srv = s.srv
  BY <1>1, <1>2, <1>3, LoopMoved
<1>5. \A v \in WorkerIds : v # 0 => wk[v].ctx = NoCtx
  BY DEF Sound, Idle
<1>. QED  BY <1>4, <1>5 DEF Attends

\* Only worker 0 has descriptors to handle.
LEMMA EventIs ==
  ASSUME NEW s \in StateType, NEW wk, Sound(s, wk), NEW w \in WorkerIds,
         NEW e \in s.loops[w].ready
  PROVE  /\ w = 0 /\ e.fd \in Fds /\ e.in \in BOOLEAN /\ e.out \in BOOLEAN /\ e.hup \in BOOLEAN
         /\ LET x == s.loops[w].entries[e.fd].ctx
            IN x \notin {NoCtx, Acceptor} => x \in Conns /\ e.fd \in ClientFds
<1>1. s.loops[w] \in LoopType
  BY FromTypes
<1>2. e.fd \in Fds /\ e.in \in BOOLEAN /\ e.out \in BOOLEAN /\ e.hup \in BOOLEAN
  BY <1>1 DEF LoopType
<1>3. w = 0
  BY DEF Sound, Deaf
<1>4. s.loops[w].entries[e.fd].ctx \in MaybeConn \cup {Acceptor}
  BY <1>2, FromTypes
<1>5. e.fd = Listen \/ e.fd \in ClientFds
  BY <1>2 DEF ClientFds
<1>6. s.loops[w].entries[Listen].ctx \in {NoCtx, Acceptor}
  BY DEF Sound, ListenerOK
<1>. QED  BY <1>2, <1>3, <1>4, <1>5, <1>6 DEF MaybeConn

\* The event is taken from those to be handled.
Rest(l, e) == [l EXCEPT !.ready = l.ready \ {e}]
Rebuilt(l) == [l EXCEPT !.rebuild = TRUE]

LEMMA RestIs ==
  ASSUME NEW l \in LoopType, LoopOK(l), l.at = "pass", NEW e, NEW m,
         m = Rest(l, e), NEW k, k = Rebuilt(m)
  PROVE  /\ m \in LoopType /\ LoopOK(m) /\ m.entries = l.entries /\ Queue(m) = Queue(l)
         /\ m.at = l.at
         /\ k \in LoopType /\ LoopOK(k) /\ k.entries = l.entries /\ Queue(k) = Queue(l)
         /\ k.at = l.at
<1>1. /\ m \in LoopType /\ m.at = l.at /\ m.jobs = l.jobs /\ m.batch = l.batch /\ m.wake = l.wake
      /\ m.running = l.running /\ m.entries = l.entries /\ m.polled = l.polled
      /\ m.rebuild = l.rebuild /\ m.ready = l.ready \ {e}
  BY DEF LoopType, Rest
<1>2. /\ k \in LoopType /\ k.at = l.at /\ k.jobs = l.jobs /\ k.batch = l.batch /\ k.wake = l.wake
      /\ k.running = l.running /\ k.entries = l.entries
  BY <1>1 DEF LoopType, Rebuilt
<1>3. LoopOK(m) /\ Queue(m) = Queue(l) /\ LoopOK(k) /\ Queue(k) = Queue(l)
  BY <1>1, <1>2 DEF LoopOK, Queue
<1>. QED  BY <1>1, <1>2, <1>3

LEMMA CallbackStep ==
  ASSUME IInv, ~srv.crashed, NEW now \in Nows, NEW w \in WorkerIds, loops[w].at = "pass",
         NEW e \in loops[w].ready, NEW c, c = loops[w].entries[e.fd].ctx, c \notin {NoCtx, Acceptor},
         Callback(now, w, c, e)
  PROVE  IInv'
<1>1. /\ now \in StateType /\ Sound(now, work) /\ Attends(now, work)
      /\ now.loops = loops /\ now.srv = srv /\ now.cl = cl
      /\ work \in [WorkerIds -> WorkType] /\ peer \in PeerType
  BY NowIs
<1>2. /\ w = 0 /\ e.fd \in Fds /\ e.in \in BOOLEAN /\ e.out \in BOOLEAN /\ e.hup \in BOOLEAN
      /\ c \in Conns /\ e.fd \in ClientFds
  <2>1. e \in now.loops[w].ready
    BY <1>1
  <2>. QED  BY <1>1, <2>1, EventIs
<1>3. /\ cl[c].st \in Alive \cup {"freed"}
      /\ cl[c].st \in Alive => cl[c].worker = w /\ cl[c].fd = e.fd
      /\ ~srv.stray => cl[c].st \in Alive /\ Held(now, c)
  <2>1. c = now.loops[w].entries[e.fd].ctx
    BY <1>1
  <2>2. EntryFacts(now, w, e.fd, c)
    BY <1>1, <1>2, <2>1, EntryIs
  <2>. QED  BY <1>1, <2>2 DEF EntryFacts
<1>4. PICK m : m = [loops[w] EXCEPT !.ready = loops[w].ready \ {e}]
  OBVIOUS
<1>5. PICK k : k = [m EXCEPT !.rebuild = TRUE]
  OBVIOUS
<1>6. /\ m \in LoopType /\ LoopOK(m) /\ m.entries = loops[w].entries /\ Queue(m) = Queue(loops[w])
      /\ k \in LoopType /\ LoopOK(k) /\ k.entries = loops[w].entries /\ Queue(k) = Queue(loops[w])
      /\ m.at = "pass" /\ k.at = "pass"
  <2>1. loops[w] \in LoopType /\ LoopOK(loops[w])
    BY LoopIs
  <2>2. /\ m \in LoopType /\ LoopOK(m) /\ m.entries = loops[w].entries /\ Queue(m) = Queue(loops[w])
        /\ k \in LoopType /\ LoopOK(k) /\ k.entries = loops[w].entries /\ Queue(k) = Queue(loops[w])
        /\ m.at = loops[w].at /\ k.at = loops[w].at
    <3>1. m = Rest(loops[w], e) /\ k = Rebuilt(m)
      BY <1>4, <1>5 DEF Rest, Rebuilt
    <3>. QED  BY <2>1, <3>1, RestIs
  <2>. QED  BY <2>2
<1>7. PICK s1 : s1 = [now EXCEPT !.loops[w].ready = now.loops[w].ready \ {e}]
  OBVIOUS
<1>8. PICK s2 : s2 = [s1 EXCEPT !.loops[w].rebuild = TRUE]
  OBVIOUS
<1>9. /\ s1 = OnLoop(now, w, m) /\ s2 = OnLoop(now, w, k)
  BY <1>1, <1>4, <1>5, <1>7, <1>8, Zenon DEF OnLoop, StateType
<1>10. ASSUME NEW l \in LoopType, LoopOK(l), l.entries = loops[w].entries,
              Queue(l) = Queue(loops[w]), l.at = "pass",
              NEW vk \in [WorkerIds -> WorkType], vk[0].ctx \in {c, work[0].ctx},
              \A v \in WorkerIds : v # 0 => vk[v] = work[v],
              NEW s, s = OnLoop(now, w, l)
       PROVE  /\ s \in StateType /\ Sound(s, vk) /\ s.srv = srv /\ s.cl = cl /\ s.loops[0].at = "pass"
              /\ NotQueued(s, c)
              /\ ~s.srv.stray => s.cl[c].worker = 0 /\ Held(s, c)
  <2>1. Taken(now, work, vk)
    <3>1. loops[w].entries[e.fd].ctx = c
      OBVIOUS
    <3>. QED  BY <1>1, <1>2, <1>10, <3>1 DEF Taken
  <2>2. /\ Queue(l) = Queue(now.loops[w])
        /\ \A f \in ClientFds : l.entries[f].ctx = now.loops[w].entries[f].ctx
        /\ l.entries[Listen].ctx \in {NoCtx, Acceptor}
    BY <1>1, <1>10 DEF Sound, ListenerOK
  <2>3. s \in StateType /\ Sound(s, vk) /\ s.srv = srv /\ s.cl = cl /\ s.loops[w] = l
    <3>1. now \in StateType /\ work \in [WorkerIds -> WorkType] /\ Sound(now, work) /\ w = 0 /\ 0 \in WorkerIds
      BY <1>1, <1>2, Basics
    <3>2. s = OnLoop(now, 0, l) /\ l.at = "pass" /\ vk \in [WorkerIds -> WorkType]
      BY <1>10, <3>1
    <3>3. /\ Queue(l) = Queue(now.loops[0])
          /\ \A f \in ClientFds : l.entries[f].ctx = now.loops[0].entries[f].ctx
          /\ l.entries[Listen].ctx \in {NoCtx, Acceptor}
      BY <2>2, <3>1
    <3>4. s \in StateType /\ Sound(s, vk) /\ s.srv = now.srv /\ s.cl = now.cl /\ s.loops[0] = l
      BY <1>10, <2>1, <3>1, <3>2, <3>3, LoopSwapped
    <3>. QED  BY <1>1, <3>1, <3>4
  <2>4. s.loops[w].entries[e.fd].ctx = c
    BY <1>10, <2>3
  <2>5. NotQueued(s, c)
    BY <1>2, <2>3, <2>4, Known
  <2>6. s.loops[0].at = "pass"
    BY <1>1, <1>2, <1>10, <2>3
  <2>7. ~s.srv.stray => s.cl[c].worker = 0 /\ Held(s, c)
    <3>1. now.srv = srv /\ now.cl = cl /\ w = 0
      BY <1>1, <1>2
    <3>2. s.srv = srv /\ s.cl = cl
      BY <2>3
    <3>. QED  BY <1>3, <3>1, <3>2 DEF Held
  <2>. QED  BY <2>3, <2>5, <2>6, <2>7
<1>11. /\ s1 \in StateType /\ Sound(s1, work) /\ s1.srv = srv /\ s1.cl = cl /\ s1.loops[0].at = "pass"
       /\ NotQueued(s1, c)
       /\ ~s1.srv.stray => s1.cl[c].worker = 0 /\ Held(s1, c)
  BY <1>1, <1>6, <1>9, <1>10
<1>12. work[0].ctx = NoCtx
  BY <1>1, <1>2 DEF Attends
<1>13. ASSUME NEW u, Keeps(s1, u, work), Become([u EXCEPT !.loops[w] = Pass(u.loops[w])]),
              UNCHANGED <<work, peer, sent>>
       PROVE  IInv'
  <2>1. u \in StateType /\ Sound(u, work) /\ u.srv.crashed = srv.crashed /\ u.loops[0].at = "pass"
    BY <1>2, <1>11, <1>13, Basics DEF Keeps
  <2>2. PICK r : r = [u EXCEPT !.loops[0] = Pass(u.loops[0])]
    OBVIOUS
  <2>3. r \in StateType /\ Sound(r, work) /\ Attends(r, work) /\ r.srv = u.srv
    BY <1>1, <1>12, <2>1, <2>2, PassSound
  <2>4. Become(r) /\ work' = work /\ peer' = peer
    BY <1>2, <1>13, <2>2
  <2>. QED  BY <1>1, <2>1, <2>3, <2>4, BecomeIs
<1>14. CASE cl[c].st = "freed"
  <2>1. /\ Become([Undefined(s1) EXCEPT !.loops[w] = Pass(Undefined(s1).loops[w])])
        /\ UNCHANGED <<work, peer, sent>>
    BY <1>7, <1>14 DEF Callback
  <2>2. Keeps(s1, Undefined(s1), work)
    BY <1>1, <1>11, UndefinedKeeps
  <2>. QED  BY <1>13, <2>1, <2>2
<1>15. CASE cl[c].st # "freed" /\ e.hup
  <2>1. /\ Become([clientCleanup(s1, w, c) EXCEPT !.loops[w] = Pass(clientCleanup(s1, w, c).loops[w])])
        /\ UNCHANGED <<work, peer, sent>>
    BY <1>7, <1>15 DEF Callback
  <2>2. Keeps(s1, clientCleanup(s1, w, c), work)
    BY <1>1, <1>2, <1>3, <1>11, <1>15, CleanupKeeps
  <2>. QED  BY <1>13, <2>1, <2>2
<1>16. CASE cl[c].st # "freed" /\ ~e.hup
  <2>1. PICK ended \in BOOLEAN :
          ended <=> srv.table[e.fd] = NoCtx \/ (peer[srv.table[e.fd]].inbox = <<>> /\ peer[srv.table[e.fd]].st # "on")
    OBVIOUS
  <2>2. PICK frames : frames = IF e.in /\ ~ended THEN peer[srv.table[e.fd]].inbox ELSE <<>>
    OBVIOUS
  <2>3. PICK s : s = IF e.in /\ ended THEN clientCleanup(s2, w, c) ELSE s2
    OBVIOUS
  <2>4. /\ Become([s EXCEPT !.loops[w] = Going(s.loops[w], frames, e.out)])
        /\ work' = [work EXCEPT ![w] = Serving(c, frames, e.out)]
        /\ peer' = IF frames = <<>> THEN peer ELSE [peer EXCEPT ![srv.table[e.fd]].inbox = <<>>]
    <3>1. LET over == srv.table[e.fd] = NoCtx
                        \/ (peer[srv.table[e.fd]].inbox = <<>> /\ peer[srv.table[e.fd]].st # "on")
              read == IF e.in /\ ~over THEN peer[srv.table[e.fd]].inbox ELSE <<>>
          IN /\ e.in /\ over =>
                  Become([clientCleanup(s2, w, c) EXCEPT !.loops[w] = Going(clientCleanup(s2, w, c).loops[w], read, e.out)])
             /\ ~(e.in /\ over) => Become([s2 EXCEPT !.loops[w] = Going(s2.loops[w], read, e.out)])
             /\ work' = [work EXCEPT ![w] = Serving(c, read, e.out)]
             /\ peer' = IF read = <<>> THEN peer ELSE [peer EXCEPT ![srv.table[e.fd]].inbox = <<>>]
      BY <1>7, <1>8, <1>16 DEF Callback
    <3>2. frames = IF e.in /\ ~(srv.table[e.fd] = NoCtx
                        \/ (peer[srv.table[e.fd]].inbox = <<>> /\ peer[srv.table[e.fd]].st # "on"))
                   THEN peer[srv.table[e.fd]].inbox ELSE <<>>
      BY <2>1, <2>2
    <3>3. /\ e.in /\ ended => Become([clientCleanup(s2, w, c) EXCEPT !.loops[w] = Going(clientCleanup(s2, w, c).loops[w], frames, e.out)])
          /\ ~(e.in /\ ended) => Become([s2 EXCEPT !.loops[w] = Going(s2.loops[w], frames, e.out)])
          /\ work' = [work EXCEPT ![w] = Serving(c, frames, e.out)]
          /\ peer' = IF frames = <<>> THEN peer ELSE [peer EXCEPT ![srv.table[e.fd]].inbox = <<>>]
      BY <2>1, <3>1, <3>2
    <3>. QED  BY <2>3, <3>3
  <2>5. srv.table[e.fd] \in MaybeConn
    BY <1>1, <1>2, FromTypes
  <2>6. frames \in Seq(FrameType) /\ (frames # <<>> => srv.table[e.fd] \in Conns)
    <3>1. <<>> \in Seq(FrameType)
      BY EmptySeq
    <3>2. ~ended => srv.table[e.fd] \in Conns
      BY <2>1, <2>5 DEF MaybeConn
    <3>3. ~ended => peer[srv.table[e.fd]].inbox \in Seq(FrameType)
      BY <1>1, <3>2 DEF PeerType
    <3>. QED  BY <2>2, <3>1, <3>2, <3>3
  <2>7. peer' \in PeerType
    <3>1. CASE frames = <<>>
      BY <1>1, <2>4, <3>1
    <3>2. CASE frames # <<>>
      <4>1. srv.table[e.fd] \in Conns /\ <<>> \in Seq(FrameType)
        BY <2>6, <3>2, EmptySeq
      <4>. QED  BY <1>1, <2>4, <3>2, <4>1 DEF PeerType
    <3>. QED  BY <3>1, <3>2
  <2>8. PICK x : x = Serving(c, frames, e.out)
    OBVIOUS
  <2>9. x \in WorkType /\ x.ctx \in {c, NoCtx}
    <3>1. <<>> \in Seq(FrameType) /\ FALSE \in BOOLEAN
      BY EmptySeq
    <3>. QED  BY <1>2, <2>6, <2>8, <3>1 DEF Serving, Idle, WorkType, MaybeConn
  <2>10. PICK vk : vk = [work EXCEPT ![w] = x]
    OBVIOUS
  <2>11. /\ vk \in [WorkerIds -> WorkType] /\ vk[0] = x /\ work' = vk
         /\ \A v \in WorkerIds : v # 0 => vk[v] = work[v]
    BY <1>1, <1>2, <2>4, <2>8, <2>9, <2>10
  <2>12. /\ s2 \in StateType /\ Sound(s2, vk) /\ s2.srv = srv /\ s2.cl = cl /\ s2.loops[0].at = "pass"
         /\ NotQueued(s2, c)
         /\ ~s2.srv.stray => s2.cl[c].worker = 0 /\ Held(s2, c)
    <3>1. vk[0].ctx \in {c, work[0].ctx}
      BY <1>12, <2>9, <2>11
    <3>. QED  BY <1>6, <1>9, <1>10, <2>11, <3>1
  <2>13. Keeps(s2, s, vk)
    <3>1. CASE e.in /\ ended
      <4>1. Keeps(s2, clientCleanup(s2, w, c), vk)
        BY <1>2, <1>3, <1>16, <2>11, <2>12, CleanupKeeps
      <4>. QED  BY <2>3, <3>1, <4>1
    <3>2. CASE ~(e.in /\ ended)
      BY <2>3, <2>12, <3>2 DEF Keeps
    <3>. QED  BY <3>1, <3>2
  <2>14. s \in StateType /\ Sound(s, vk) /\ s.srv.crashed = srv.crashed /\ s.loops[0].at = "pass"
    BY <2>12, <2>13, Basics DEF Keeps
  <2>15. PICK r : r = OnLoop(s, 0, Going(s.loops[0], frames, e.out))
    OBVIOUS
  <2>16. r \in StateType /\ Sound(r, vk) /\ Attends(r, vk) /\ r.srv = s.srv
    BY <1>2, <2>6, <2>8, <2>11, <2>14, <2>15, GoingSound, SameWork
  <2>17. Become(r)
    BY <1>2, <2>4, <2>15 DEF OnLoop
  <2>. QED  BY <2>7, <2>11, <2>14, <2>16, <2>17, BecomeIs
<1>. QED  BY <1>2, <1>14, <1>15, <1>16

LEMMA HandleStep ==
  ASSUME IInv, ~srv.crashed, NEW w \in WorkerIds, Handle(w)
  PROVE  IInv'
<1>1. loops[w] \in LoopType /\ LoopOK(loops[w]) /\ loops[w].at = "pass" /\ loops[w].batch = <<>>
  BY LoopIs DEF Handle, LoopOK
<1>2. PICK e \in loops[w].ready :
        LET x == loops[w].entries[e.fd].ctx
            rest == [loops[w] EXCEPT !.ready = loops[w].ready \ {e}]
        IN /\ x = NoCtx => /\ loops' = [loops EXCEPT ![w] = Pass(rest)]
                           /\ UNCHANGED <<work, srv, cl, peer, sent>>
           /\ x = Acceptor => /\ loops' = [loops EXCEPT ![w] = Accepting([rest EXCEPT !.rebuild = TRUE])]
                              /\ UNCHANGED <<work, srv, cl, peer, sent>>
           /\ x \notin {NoCtx, Acceptor} => \E now \in Nows : Callback(now, w, x, e)
  BY Basics DEF Handle
<1>3. PICK x : x = loops[w].entries[e.fd].ctx
  OBVIOUS
<1>4. PICK m : m = [loops[w] EXCEPT !.ready = loops[w].ready \ {e}]
  OBVIOUS
<1>5. PICK k : k = [m EXCEPT !.rebuild = TRUE]
  OBVIOUS
<1>6. /\ m \in LoopType /\ LoopOK(m) /\ m.entries = loops[w].entries /\ Queue(m) = Queue(loops[w])
      /\ k \in LoopType /\ LoopOK(k) /\ k.entries = loops[w].entries /\ Queue(k) = Queue(loops[w])
      /\ m.at = "pass" /\ k.at = "pass" /\ m.batch = <<>> /\ k.batch = <<>>
  <2>1. /\ m \in LoopType /\ LoopOK(m) /\ m.entries = loops[w].entries /\ Queue(m) = Queue(loops[w])
        /\ k \in LoopType /\ LoopOK(k) /\ k.entries = loops[w].entries /\ Queue(k) = Queue(loops[w])
        /\ m.at = loops[w].at /\ k.at = loops[w].at
    <3>1. m = Rest(loops[w], e) /\ k = Rebuilt(m)
      BY <1>4, <1>5 DEF Rest, Rebuilt
    <3>. QED  BY <1>1, <3>1, RestIs
  <2>2. m.batch = <<>> /\ k.batch = <<>>
    BY <1>1, <2>1 DEF LoopOK
  <2>. QED  BY <1>1, <2>1, <2>2
<1>7. w = 0 /\ ~Deaf(loops[w])
  <2>1. ~Deaf(loops[w])
    BY <1>1 DEF Deaf
  <2>. QED  BY <2>1, LoopIs
<1>8. CASE x = NoCtx
  <2>1. Moved(m, Pass(m))
    BY <1>6, Passed DEF LoopOK
  <2>2. Moved(loops[w], Pass(m))
    BY <1>6, <1>7, <2>1 DEF Moved
  <2>. QED  BY <1>1, <1>2, <1>3, <1>4, <1>8, <2>2, LoopSteps
<1>9. CASE x = Acceptor
  <2>1. Moved(k, Accepting(k))
    BY <1>6, AcceptingMoves
  <2>2. Moved(loops[w], Accepting(k))
    BY <1>6, <1>7, <2>1 DEF Moved
  <2>. QED  BY <1>1, <1>2, <1>3, <1>4, <1>5, <1>9, <2>2, LoopSteps
<1>10. CASE x \notin {NoCtx, Acceptor}
  <2>1. PICK now \in Nows : Callback(now, w, x, e)
    BY <1>2, <1>3, <1>10
  <2>. QED  BY <1>1, <1>3, <1>10, <2>1, CallbackStep
<1>. QED  BY <1>8, <1>9, <1>10

LEMMA SeenIs ==
  ASSUME NEW frames \in Seq(FrameType), frames # <<>>
  PROVE  Seen(frames) \in FrameType /\ Tail(frames) \in Seq(FrameType)
<1>1. Len(frames) \in Nat \ {0}
  BY EmptySeq, HeadTailProperties
<1>2. CASE Len(frames) = 1
  <2>1. Seen(frames) = frames[1] /\ 1 \in 1..Len(frames)
    BY <1>2 DEF Seen
  <2>. QED  BY <2>1
<1>3. CASE Len(frames) # 1
  <2>1. 2 \in 1..Len(frames)
    <3>1. \A n \in Nat \ {0} : n # 1 => 2 \in 1..n
      OBVIOUS
    <3>. QED  BY <1>1, <1>3, <3>1
  <2>2. Seen(frames) = frames[2]
    BY <1>3 DEF Seen
  <2>. QED  BY <2>1, <2>2
<1>. QED  BY <1>2, <1>3

\* Only worker 0 works for a client.
LEMMA FrameStep ==
  ASSUME IInv, ~srv.crashed, NEW w \in WorkerIds, Frame(w)
  PROVE  IInv'
<1>1. PICK c : c = work[w].ctx
  OBVIOUS
<1>2. PICK frames : frames = work[w].frames
  OBVIOUS
<1>3. PICK now \in Nows : \E o \in Outcomes(now, Receiver(now, c, Seen(frames))) :
        LET s == StateMachine(now, w, c, Seen(frames), o)
            rest == IF Freed(s, c) THEN <<>> ELSE Tail(frames)
            s1 == [s EXCEPT !.loops[w] = Going(s.loops[w], rest, work[w].out)]
        IN /\ Become(s1) \/ Become(Undefined(s1))
           /\ work' = [work EXCEPT ![w] = Serving(c, rest, work[w].out)]
  BY <1>1, <1>2 DEF Frame
<1>4. PICK o : LET s == StateMachine(now, w, c, Seen(frames), o)
                   rest == IF Freed(s, c) THEN <<>> ELSE Tail(frames)
                   s1 == [s EXCEPT !.loops[w] = Going(s.loops[w], rest, work[w].out)]
               IN /\ Become(s1) \/ Become(Undefined(s1))
                  /\ work' = [work EXCEPT ![w] = Serving(c, rest, work[w].out)]
  BY <1>3
<1>5. /\ now \in StateType /\ Sound(now, work) /\ Attends(now, work)
      /\ now.loops = loops /\ now.srv = srv /\ now.cl = cl
      /\ work \in [WorkerIds -> WorkType] /\ peer \in PeerType
  BY NowIs
<1>6. loops[w].at = "frames" /\ peer' = peer
  BY DEF Frame
<1>7. c # NoCtx /\ frames # <<>> /\ frames \in Seq(FrameType) /\ work[w].out \in BOOLEAN
  <2>1. now.loops[w].at = "frames"
    BY <1>5, <1>6
  <2>2. work[w].ctx # NoCtx /\ work[w].frames # <<>>
    BY <1>5, <2>1 DEF Sound, WorkOK
  <2>. QED  BY <1>1, <1>2, <1>5, <2>2 DEF WorkType
<1>8. w = 0 /\ c \in Conns
  <2>1. WorkFacts(now, w, c)
    BY <1>1, <1>5, <1>7, WorkIs
  <2>. QED  BY <2>1 DEF WorkFacts
<1>9. Seen(frames) \in FrameType /\ Tail(frames) \in Seq(FrameType)
  BY <1>7, SeenIs
<1>10. PICK s : s = StateMachine(now, w, c, Seen(frames), o)
  OBVIOUS
<1>11. Keeps(now, s, work)
  BY <1>1, <1>5, <1>7, <1>9, <1>10, StateMachineKeeps
<1>12. s \in StateType /\ Sound(s, work) /\ s.srv.crashed = srv.crashed /\ s.loops[0].at = "frames"
  BY <1>5, <1>6, <1>8, <1>11, Basics DEF Keeps
<1>13. PICK rest : rest = IF Freed(s, c) THEN <<>> ELSE Tail(frames)
  OBVIOUS
<1>14. rest \in Seq(FrameType)
  <2>1. <<>> \in Seq(FrameType)
    BY EmptySeq
  <2>. QED  BY <1>9, <1>13, <2>1
<1>15. PICK r : r = OnLoop(s, 0, Going(s.loops[0], rest, work[0].out))
  OBVIOUS
<1>16. /\ Become(r) \/ Become(Undefined(r))
       /\ work' = [work EXCEPT ![0] = Serving(c, rest, work[0].out)]
  BY <1>4, <1>8, <1>10, <1>13, <1>15 DEF OnLoop
<1>17. PICK x : x = Serving(c, rest, work[0].out)
  OBVIOUS
<1>18. x \in WorkType /\ x.ctx \in {c, NoCtx}
  <2>1. <<>> \in Seq(FrameType) /\ FALSE \in BOOLEAN
    BY EmptySeq
  <2>. QED  BY <1>7, <1>8, <1>14, <1>17, <2>1 DEF Serving, Idle, WorkType, MaybeConn
<1>19. /\ work' \in [WorkerIds -> WorkType] /\ work'[0] = x
       /\ \A v \in WorkerIds : v # 0 => work'[v] = work[v]
  BY <1>5, <1>8, <1>16, <1>17, <1>18
<1>20. Taken(s, work, work')
  BY <1>1, <1>8, <1>18, <1>19 DEF Taken
<1>21. r \in StateType /\ Sound(r, work') /\ Attends(r, work') /\ r.srv = s.srv
  <2>1. PICK vk : vk = work'
    OBVIOUS
  <2>2. /\ vk \in [WorkerIds -> WorkType] /\ vk[0] = Serving(c, rest, work[0].out)
        /\ \A v \in WorkerIds : v # 0 => vk[v] = work[v]
        /\ Taken(s, work, vk)
    BY <1>17, <1>19, <1>20, <2>1
  <2>3. r \in StateType /\ Sound(r, vk) /\ Attends(r, vk) /\ r.srv = s.srv
    BY <1>5, <1>7, <1>8, <1>12, <1>14, <1>15, <2>2, GoingSound
  <2>. QED  BY <2>1, <2>3
<1>22. peer' \in PeerType
  BY <1>5, <1>6
<1>23. CASE Become(r)
  BY <1>12, <1>19, <1>21, <1>22, <1>23, BecomeIs
<1>24. CASE Become(Undefined(r))
  <2>1. Keeps(r, Undefined(r), work')
    BY <1>19, <1>21, UndefinedKeeps
  <2>2. PICK u : u = Undefined(r)
    OBVIOUS
  <2>3. u \in StateType /\ Sound(u, work') /\ ~u.srv.crashed /\ Attends(u, work')
    BY <1>12, <1>21, <2>1, <2>2 DEF Keeps, Attends
  <2>. QED  BY <1>19, <1>22, <1>24, <2>2, <2>3, BecomeIs
<1>. QED  BY <1>16, <1>23, <1>24

LEMMA WritableStep ==
  ASSUME IInv, ~srv.crashed, NEW w \in WorkerIds, Writable(w)
  PROVE  IInv'
<1>1. PICK c : c = work[w].ctx
  OBVIOUS
<1>2. PICK now \in Nows :
        \/ Freed(now, c) /\ Become([Undefined(now) EXCEPT !.loops[w] = Pass(Undefined(now).loops[w])])
        \/ /\ ~Freed(now, c)
           /\ \E o \in Outcomes(now, c) :
                Become([flushWriteBuffer(now, w, c, o) EXCEPT
                          !.loops[w] = Pass(flushWriteBuffer(now, w, c, o).loops[w])])
  BY <1>1 DEF Writable
<1>3. /\ now \in StateType /\ Sound(now, work) /\ Attends(now, work)
      /\ now.loops = loops /\ now.srv = srv /\ now.cl = cl
      /\ work \in [WorkerIds -> WorkType] /\ peer \in PeerType
  BY NowIs
<1>4. loops[w].at = "writable" /\ peer' = peer /\ work' = [work EXCEPT ![w] = Idle]
  BY DEF Writable
<1>5. c # NoCtx
  <2>1. now.loops[w].at = "writable"
    BY <1>3, <1>4
  <2>. QED  BY <1>1, <1>3, <2>1 DEF Sound, WorkOK
<1>6. /\ c \in Conns /\ now.cl[c].st \in Alive \cup {"freed"} /\ w = 0
      /\ now.cl[c].st \in Alive => now.cl[c].worker = w
      /\ ~now.srv.stray /\ now.cl[c].st # "freed" => Held(now, c)
  <2>1. WorkFacts(now, w, c)
    BY <1>1, <1>3, <1>5, WorkIs
  <2>. QED  BY <2>1 DEF WorkFacts
<1>7. ASSUME NEW u, Keeps(now, u, work), Become([u EXCEPT !.loops[w] = Pass(u.loops[w])])
      PROVE  IInv'
  <2>1. u \in StateType /\ Sound(u, work) /\ ~u.srv.crashed /\ u.loops[0].at = "writable"
    BY <1>3, <1>4, <1>6, <1>7, Basics DEF Keeps
  <2>2. PICK vk : vk = work'
    OBVIOUS
  <2>3. Idle \in WorkType /\ Idle.ctx = NoCtx
    BY EmptySeq DEF Idle, WorkType, MaybeConn
  <2>4. /\ vk \in [WorkerIds -> WorkType] /\ vk[0] = Idle
        /\ \A v \in WorkerIds : v # 0 => vk[v] = work[v]
    BY <1>3, <1>4, <1>6, <2>2, <2>3
  <2>5. PICK r : r = OnLoop(u, 0, Going(u.loops[0], <<>>, FALSE))
    OBVIOUS
  <2>6. Going(u.loops[0], <<>>, FALSE) = Pass(u.loops[0]) /\ Serving(c, <<>>, FALSE) = Idle
    BY DEF Going, Serving
  <2>7. r \in StateType /\ Sound(r, vk) /\ Attends(r, vk) /\ r.srv = u.srv
    <3>1. PICK none : none = <<>>
      OBVIOUS
    <3>2. PICK b \in BOOLEAN : b = FALSE
      OBVIOUS
    <3>3. none \in Seq(FrameType) /\ vk[0] = Serving(c, none, b) /\ ~(none # <<>> \/ b)
      BY <2>4, <2>6, <3>1, <3>2, EmptySeq
    <3>4. r = OnLoop(u, 0, Going(u.loops[0], none, b))
      BY <2>5, <3>1, <3>2
    <3>. QED  BY <1>3, <2>1, <2>4, <3>3, <3>4, GoingSound
  <2>8. Become(r)
    BY <1>6, <1>7, <2>5, <2>6 DEF OnLoop
  <2>9. peer' \in PeerType
    BY <1>3, <1>4
  <2>. QED  BY <2>1, <2>2, <2>4, <2>7, <2>8, <2>9, BecomeIs
<1>8. CASE Freed(now, c)
  <2>1. Keeps(now, Undefined(now), work)
    BY <1>3, UndefinedKeeps
  <2>. QED  BY <1>2, <1>7, <1>8, <2>1
<1>9. CASE ~Freed(now, c)
  <2>1. PICK o : Become([flushWriteBuffer(now, w, c, o) EXCEPT
                           !.loops[w] = Pass(flushWriteBuffer(now, w, c, o).loops[w])])
    BY <1>2, <1>9
  <2>2. now.cl[c].st \in Alive /\ now.cl[c].st # "freed"
    BY <1>6, <1>9 DEF Freed
  <2>3. NotQueued(now, c)
    BY <1>1, <1>3, Known
  <2>4. Keeps(now, flushWriteBuffer(now, w, c, o), work)
    BY <1>3, <1>6, <2>2, <2>3, WriteKeeps
  <2>. QED  BY <1>7, <2>1, <2>4
<1>. QED  BY <1>8, <1>9

LEMMA JobStep ==
  ASSUME IInv, ~srv.crashed, NEW w \in WorkerIds, Job(w)
  PROVE  IInv'
<1>1. PICK j : j = Head(loops[w].batch)
  OBVIOUS
<1>2. PICK now \in Nows :
        LET s == OnLoop(now, w, JobDone(loops[w]))
        IN \/ j.job = "register" /\ Become(registerClientJob(s, w, j))
           \/ j.job = "cleanup" /\ Become(cleanupFdJob(s, w, j))
           \/ j.job = "write" /\ \E o \in Outcomes(now, srv.handlers[j.fd]) : Become(crossWriteJob(s, w, j, o))
           \/ j.job \notin {"register", "cleanup", "write"}
  BY <1>1 DEF Job
<1>3. /\ now \in StateType /\ Sound(now, work) /\ Attends(now, work)
      /\ now.loops = loops /\ now.srv = srv /\ now.cl = cl
      /\ work \in [WorkerIds -> WorkType] /\ peer \in PeerType
  BY NowIs
<1>4. now.loops[w].at = "jobs" /\ work' = work /\ peer' = peer
  BY <1>3 DEF Job
<1>5. work[w].ctx = NoCtx
  BY <1>3, <1>4 DEF Attends
<1>6. PICK u : u = OnLoop(now, w, JobDone(now.loops[w]))
  OBVIOUS
<1>7. /\ u \in StateType /\ Sound(u, work) /\ u.srv = srv /\ u.cl = cl
      /\ u.loops[w].at \notin {"new", "frames", "writable"}
      /\ \A v \in WorkerIds : v # w => u.loops[v] = now.loops[v]
      /\ j \in JobType
  BY <1>1, <1>3, <1>4, <1>6, JobTaken
<1>8. Attends(u, work)
  BY <1>3, <1>5, <1>7 DEF Attends
<1>9. ASSUME NEW r, Keeps(u, r, work), Become(r)
      PROVE  IInv'
  <2>1. r \in StateType /\ Sound(r, work) /\ ~r.srv.crashed /\ Attends(r, work)
    BY <1>7, <1>8, <1>9 DEF Keeps, Attends
  <2>. QED  BY <1>3, <1>4, <1>9, <2>1, BecomeIs
<1>10. j = Head(now.loops[w].batch) /\ u = OnLoop(now, w, JobDone(loops[w]))
  BY <1>1, <1>3, <1>6
<1>11. CASE j.job = "register"
  <2>1. Become(registerClientJob(u, w, j))
    BY <1>2, <1>10, <1>11
  <2>2. Keeps(u, registerClientJob(u, w, j), work)
    BY <1>3, <1>4, <1>6, <1>10, <1>11, RegisterJobKeeps
  <2>. QED  BY <1>9, <2>1, <2>2
<1>12. CASE j.job = "cleanup"
  <2>1. Become(cleanupFdJob(u, w, j))
    BY <1>2, <1>10, <1>12
  <2>2. Keeps(u, cleanupFdJob(u, w, j), work)
    BY <1>3, <1>4, <1>5, <1>6, <1>10, <1>12, OtherJobsKeep
  <2>. QED  BY <1>9, <2>1, <2>2
<1>13. CASE j.job = "write"
  <2>1. PICK o : Become(crossWriteJob(u, w, j, o))
    BY <1>2, <1>10, <1>13
  <2>2. Keeps(u, crossWriteJob(u, w, j, o), work)
    BY <1>3, <1>4, <1>5, <1>6, <1>10, <1>13, OtherJobsKeep
  <2>. QED  BY <1>9, <2>1, <2>2
<1>14. j.job \in {"register", "cleanup", "write"}
  BY <1>7 DEF JobType
<1>. QED  BY <1>11, <1>12, <1>13, <1>14

LEMMA FirstIs ==
  ASSUME NEW S \in SUBSET Nat, S # {}
  PROVE  First(S) \in S
<1>1. PICK c \in S : \A d \in S : <<d, c>> \notin OpToRel(<, Nat)
  BY NatLessThanWellFounded, WFMin, Zenon
<1>2. \A d \in S : ~(d < c)
  BY <1>1 DEF OpToRel
<1>3. \E x \in S : \A d \in S : x <= d
  BY <1>2
<1>. QED  BY <1>3 DEF First

LEMMA AcceptOneStep ==
  ASSUME IInv, ~srv.crashed, AcceptOne
  PROVE  IInv'
<1>1. PICK s : s = Now(TRUE)
  OBVIOUS
<1>2. /\ s \in StateType /\ Sound(s, work) /\ Attends(s, work)
      /\ s.loops = loops /\ s.srv = srv /\ s.cl = cl
      /\ work \in [WorkerIds -> WorkType] /\ peer \in PeerType
  BY <1>1, Live
<1>3. PICK c : c = First(Backlog)
  OBVIOUS
<1>4. PICK f : f = First(FreeFds)
  OBVIOUS
<1>5. c \in Conns /\ s.cl[c].st = "none"
  <2>1. Backlog \in SUBSET Nat /\ Backlog # {}
    BY Basics DEF Backlog, AcceptOne
  <2>. QED  BY <1>2, <1>3, <2>1, FirstIs DEF Backlog
<1>6. f \in ClientFds /\ s.srv.table[f] = NoCtx
  <2>1. FreeFds \in SUBSET Nat /\ FreeFds # {}
    BY RelayV2Assumption DEF FreeFds, AcceptOne, ClientFds
  <2>. QED  BY <1>2, <1>4, <2>1, FirstIs DEF FreeFds
<1>7. PICK r : r = dispatchClient(s, c, f)
  OBVIOUS
<1>8. Keeps(s, r, work)
  BY <1>2, <1>5, <1>6, <1>7, DispatchKeeps
<1>9. /\ r \in StateType /\ Sound(r, work) /\ ~r.srv.crashed /\ Attends(r, work)
      /\ 0 \in WorkerIds /\ r.loops[0].at = "accept"
  BY <1>2, <1>8, Basics DEF Keeps, Attends, AcceptOne
<1>10. PICK q : q = OnLoop(r, 0, Accepting(r.loops[0]))
  OBVIOUS
<1>11. q \in StateType /\ Sound(q, work) /\ q.srv = r.srv /\ Attends(q, work)
  <2>1. r.loops[0] \in LoopType /\ LoopOK(r.loops[0])
    BY <1>9, FromTypes DEF Sound
  <2>2. Moved(r.loops[0], Accepting(r.loops[0]))
    BY <1>9, <2>1, AcceptingMoves
  <2>3. q \in StateType /\ Sound(q, work) /\ q.srv = r.srv
    BY <1>2, <1>9, <1>10, <2>2, LoopMoved
  <2>4. \A v \in WorkerIds : work[v].ctx = NoCtx
    <3>1. loops[0].at = "accept"
      BY DEF AcceptOne
    <3>. QED  BY <1>2, <1>9, <3>1 DEF Sound, Attends, Idle
  <2>. QED  BY <2>3, <2>4 DEF Attends
<1>12. Become(q) /\ work' = work /\ peer' = peer
  BY <1>1, <1>3, <1>4, <1>7, <1>10 DEF AcceptOne
<1>. QED  BY <1>2, <1>9, <1>11, <1>12, BecomeIs

\* The peers do not touch the server.
LEMMA PeersSteps ==
  ASSUME IInv, UNCHANGED server, peer' \in PeerType
  PROVE  IInv'
<1>1. loops' = loops /\ work' = work /\ srv' = srv /\ cl' = cl
  BY DEF server
<1>2. Now(TRUE)' = Now(TRUE)
  BY <1>1 DEF Now
<1>. QED  BY <1>1, <1>2 DEF IInv, TypeOK

LEMMA PeerSteps ==
  ASSUME IInv, NEW c \in Conns, PeerStep(c)
  PROVE  IInv'
<1>1. peer \in PeerType /\ srv \in ServerType /\ peer[c].inbox \in Seq(FrameType)
  <2>1. Now(TRUE) \in StateType /\ peer \in PeerType
    BY DEF IInv, TypeOK
  <2>2. Now(TRUE).srv = srv
    BY DEF Now
  <2>. QED  BY <2>1, <2>2, FromTypes DEF PeerType
<1>2. UNCHANGED server
  BY DEF PeerStep, Connect, Ping, Request, Answer, Leave, server
<1>3. ASSUME NEW fr \in FrameType, peer' = Frames(c, <<fr>>)
      PROVE  IInv'
  <2>1. PICK q : q = peer[c].inbox \o <<fr>>
    OBVIOUS
  <2>2. q \in Seq(FrameType)
    BY <1>1, <1>3, <2>1
  <2>3. peer' = [peer EXCEPT ![c].inbox = q]
    BY <1>3, <2>1 DEF Frames
  <2>4. peer' \in PeerType
    BY <1>1, <2>2, <2>3 DEF PeerType
  <2>. QED  BY <1>2, <2>4, PeersSteps
<1>4. CASE Connect(c)
  <2>1. PICK n \in Nodes : peer' = [peer EXCEPT ![c].st = "on", ![c].inbox = <<[k |-> "reg", node |-> n]>>]
    BY <1>4 DEF Connect
  <2>2. PICK q : q = <<[k |-> "reg", node |-> n]>>
    OBVIOUS
  <2>3. q \in Seq(FrameType)
    BY <2>2 DEF FrameType
  <2>4. peer' = [peer EXCEPT ![c].st = "on", ![c].inbox = q]
    BY <2>1, <2>2
  <2>5. peer' \in PeerType
    BY <1>1, <2>3, <2>4 DEF PeerType
  <2>. QED  BY <1>2, <2>5, PeersSteps
<1>5. CASE Ping(c)
  <2>1. [k |-> "ping"] \in FrameType
    BY DEF FrameType
  <2>. QED  BY <1>3, <1>5, <2>1 DEF Ping
<1>6. CASE Request(c)
  <2>1. PICK n \in Nodes : peer' = Frames(c, <<[k |-> "req", to |-> n]>>)
    BY <1>6 DEF Request
  <2>2. [k |-> "req", to |-> n] \in FrameType
    BY DEF FrameType
  <2>. QED  BY <1>3, <2>1, <2>2
<1>7. CASE Answer(c)
  <2>1. PICK p \in srv.pending :
          peer' = [Frames(c, <<[k |-> "resp", id |-> p.id]>>) EXCEPT
                     ![c].answered = Frames(c, <<[k |-> "resp", id |-> p.id]>>)[c].answered \cup {p.id}]
    BY <1>7 DEF Answer
  <2>2. p.id \in Nat
    BY <1>1 DEF ServerType
  <2>3. PICK fr : fr = [k |-> "resp", id |-> p.id]
    OBVIOUS
  <2>4. fr \in FrameType
    BY <2>2, <2>3 DEF FrameType
  <2>5. PICK q : q = peer[c].inbox \o <<fr>>
    OBVIOUS
  <2>6. q \in Seq(FrameType)
    BY <1>1, <2>4, <2>5
  <2>7. PICK g : g = [peer EXCEPT ![c].inbox = q]
    OBVIOUS
  <2>8. g \in PeerType /\ g = Frames(c, <<fr>>)
    BY <1>1, <2>5, <2>6, <2>7 DEF PeerType, Frames
  <2>9. peer' = [g EXCEPT ![c].answered = g[c].answered \cup {p.id}]
    BY <2>1, <2>3, <2>8
  <2>10. peer' \in PeerType
    <3>1. PICK a \in SUBSET Nat : a = g[c].answered \cup {p.id}
      BY <2>2, <2>8 DEF PeerType
    <3>2. PICK x : x = [g[c] EXCEPT !.answered = a]
      OBVIOUS
    <3>3. x \in [st : {"none", "on", "fin", "rst"}, inbox : Seq(FrameType), answered : SUBSET Nat]
      BY <2>8, <3>1, <3>2 DEF PeerType
    <3>4. peer' = [g EXCEPT ![c] = x]
      BY <2>8, <2>9, <3>1, <3>2 DEF PeerType
    <3>. QED  BY <2>8, <3>3, <3>4 DEF PeerType
  <2>. QED  BY <1>2, <2>10, PeersSteps
<1>8. CASE Leave(c)
  <2>1. PICK end \in {"fin", "rst"} :
          peer' = [peer EXCEPT ![c].st = end, ![c].inbox = IF end = "rst" THEN <<>> ELSE peer[c].inbox]
    BY <1>8 DEF Leave
  <2>2. PICK q : q = IF end = "rst" THEN <<>> ELSE peer[c].inbox
    OBVIOUS
  <2>3. q \in Seq(FrameType)
    BY <1>1, <2>2, EmptySeq
  <2>4. peer' = [peer EXCEPT ![c].st = end, ![c].inbox = q]
    BY <2>1, <2>2
  <2>5. peer' \in PeerType
    BY <1>1, <2>3, <2>4, Zenon DEF PeerType
  <2>. QED  BY <1>2, <2>5, PeersSteps
<1>. QED  BY <1>4, <1>5, <1>6, <1>7, <1>8 DEF PeerStep

\* Of a process that died nothing moves any more.
LEMMA NothingRuns ==
  ASSUME IInv, srv.crashed
  PROVE  ~Run /\ ~Stop /\ ~WouldBlock /\ \A w \in WorkerIds : ~WorkerStep(w)
<1>1. ~srv.running /\ ~srv.begun /\ \A w \in WorkerIds : loops[w].at = "new"
  BY DEF IInv, NewLoops, NewLoop
<1>2. ASSUME NEW w \in WorkerIds
      PROVE  /\ ~Begin0(w) /\ ~Poll(w) /\ ~Handle(w) /\ ~Frame(w)
             /\ ~Writable(w) /\ ~Jobs(w) /\ ~Job(w)
  BY <1>1 DEF Begin0, Poll, Handle, Frame, Writable, Jobs, Job
<1>3. ~AcceptOne /\ ~AcceptEnds /\ ~PollTimesOut
  BY <1>1, Basics DEF AcceptOne, AcceptEnds, PollTimesOut
<1>. QED  BY <1>1, <1>2, <1>3 DEF Run, Stop, WorkerStep, WouldBlock, AcceptFails

LEMMA Starts ==
  ASSUME Init
  PROVE  IInv
<1>1. PICK s : s = Now(TRUE)
  BY Zenon
<1>2. /\ s.loops = NewLoops /\ s.srv = NewServer /\ s.cl = [c \in Conns |-> NoHandler]
      /\ s = [loops |-> NewLoops, srv |-> NewServer, cl |-> [c \in Conns |-> NoHandler], hit |-> TRUE]
      /\ work = [w \in WorkerIds |-> Idle]
  BY <1>1 DEF Init, Now
<1>3. <<>> \in Seq(JobType) /\ <<>> \in Seq(FrameType)
  BY EmptySeq
<1>4. NewLoop \in LoopType
  BY <1>3 DEF NewLoop, NoEntry, LoopType, Places, MaybeConn
<1>5. NewServer \in ServerType /\ ~NewServer.crashed
  BY Basics DEF NewServer, ServerType, MaybeConn
<1>6. NoHandler \in ClientType
  BY Basics DEF NoHandler, ClientType
<1>7. s \in StateType
  BY <1>2, <1>4, <1>5, <1>6 DEF StateType, NewLoops
<1>8. work \in [WorkerIds -> WorkType]
  BY <1>2, <1>3 DEF Idle, WorkType, MaybeConn
<1>9. peer \in PeerType
  BY <1>3 DEF Init, PeerType
<1>10. \A w \in WorkerIds : /\ s.loops[w] = NewLoop /\ Queue(s.loops[w]) = <<>> /\ work[w] = Idle
                            /\ work[w].ctx = NoCtx
  <2>1. Queue(NewLoop) = <<>>
    BY DEF Queue, NewLoop
  <2>. QED  BY <1>2, <2>1 DEF NewLoops, Idle
<1>11. LoopOK(NewLoop) /\ Deaf(NewLoop) /\ NewLoop.at = "new"
       /\ \A f \in Fds : NewLoop.entries[f].ctx = NoCtx
  BY DEF LoopOK, Deaf, NewLoop, NoEntry
<1>12. \A c \in Conns : s.cl[c].st = "none"
  BY <1>2 DEF NoHandler
<1>13. /\ \A f \in ClientFds : s.srv.handlers[f] = NoCtx
       /\ \A n \in Nodes : s.srv.routing[n] = NoCtx /\ s.srv.keys[n] = NoCtx
       /\ s.srv.pending = {} /\ s.srv.active = 0
  BY <1>2 DEF NewServer
<1>14. Len(<<>>) = 0 /\ 1..0 = {}
  BY EmptySeq
<1>15. JobsOK(s, work)
  BY <1>10, <1>14 DEF JobsOK
<1>16. CountOK(s)
  <2>1. Living(s) = {}
    BY <1>12 DEF Living, Alive
  <2>. QED  BY <1>13, <2>1, FS_EmptySet DEF CountOK
<1>17. Tidy(s, work)
  <2>1. TidyEntries(s) /\ TidyRoutes(s) /\ TidyKeys(s)
    BY <1>10, <1>11, <1>13, Basics DEF TidyEntries, TidyRoutes, TidyKeys
  <2>2. TidyJobs(s)
    BY <1>10, <1>14 DEF TidyJobs
  <2>3. TidyWork(s, work)
    BY <1>10, Basics DEF TidyWork
  <2>. QED  BY <2>1, <2>2, <2>3 DEF Tidy
<1>18. ClientsOK(s) /\ EntriesOK(s) /\ ListenerOK(s) /\ HandlersOK(s) /\ RoutesOK(s) /\ WorkOK(s, work)
  <2>1. ClientsOK(s)
    BY <1>12 DEF ClientsOK, Alive
  <2>2. EntriesOK(s) /\ ListenerOK(s)
    BY <1>10, <1>11, Basics DEF EntriesOK, EntryOK, ListenerOK
  <2>3. HandlersOK(s) /\ RoutesOK(s)
    BY <1>13 DEF HandlersOK, RoutesOK
  <2>4. WorkOK(s, work)
    BY <1>10, <1>11 DEF WorkOK
  <2>. QED  BY <2>1, <2>2, <2>3, <2>4
<1>19. Sound(s, work)
  BY <1>10, <1>11, <1>15, <1>16, <1>17, <1>18 DEF Sound
<1>20. Attends(s, work)
  BY <1>10 DEF Attends
<1>21. ~srv.crashed
  BY <1>5 DEF Init
<1>. QED  BY <1>1, <1>7, <1>8, <1>9, <1>19, <1>20, <1>21 DEF IInv, TypeOK

\* One lemma per action; a step of a peer is one of nobody else.
LEMMA Inductive ==
  ASSUME IInv, [Next]_vars
  PROVE  IInv'
<1>1. CASE Run
  BY <1>1, RunStep
<1>2. CASE Stop
  BY <1>2, StopStep
<1>3. ASSUME NEW w \in WorkerIds, WorkerStep(w)
      PROVE  IInv'
  <2>1. ~srv.crashed
    BY <1>3, NothingRuns
  <2>. QED  BY <1>3, <2>1, Begin0Step, PollStep, HandleStep, FrameStep, WritableStep, JobsStep, JobStep,
               AcceptOneStep, AcceptEndsStep, PollTimesOutStep DEF WorkerStep, AcceptFails
<1>4. ASSUME NEW c \in Conns, PeerStep(c)
      PROVE  IInv'
  BY <1>4, PeerSteps
<1>5. CASE UNCHANGED vars
  <2>1. UNCHANGED server /\ peer' = peer
    BY <1>5 DEF vars
  <2>2. peer' \in PeerType
    BY <2>1 DEF IInv, TypeOK
  <2>. QED  BY <2>1, <2>2, PeersSteps
<1>6. CASE WouldBlock
  BY <1>6, NothingRuns, AcceptEndsStep DEF WouldBlock
<1>. QED  BY <1>1, <1>2, <1>3, <1>4, <1>5, <1>6 DEF Next

LEMMA Invariance == Spec => []IInv
<1>1. Init => IInv
  BY Starts
<1>2. IInv /\ [Next]_vars => IInv'
  BY Inductive
<1>. QED  BY <1>1, <1>2, PTL DEF Spec

-----------------------------------------------------------------------------
(* The theorems.                                                           *)

\* The loops, the tables and the handlers have their types, also once a key was
\* freed twice and the process goes on.
THEOREM TypeCorrect == Spec => []TypeOK
<1>1. IInv => TypeOK
  BY DEF IInv
<1>. QED  BY <1>1, Invariance, PTL

\* A job that another thread leaves between the two steps of processJobs, or the
\* order to stop, always finds a loop that is awake or a byte in its pipe.
THEOREM NothingSleepsOver == Spec => []NoLostWakeup
<1>1. ASSUME IInv PROVE NoLostWakeup
  <2>1. CASE srv.crashed
    BY <1>1, <2>1 DEF IInv, NoLostWakeup, Asleep, NewLoops, NewLoop
  <2>2. CASE ~srv.crashed
    <3>1. /\ \A w \in WorkerIds : LoopOK(loops[w])
          /\ \A w \in WorkerIds \ {0} : Deaf(loops[w])
      BY <1>1, <2>2, Live DEF Sound
    <3>. QED  BY <3>1 DEF NoLostWakeup, Asleep, LoopOK, Deaf
  <2>. QED  BY <2>1, <2>2
<1>. QED  BY <1>1, Invariance, PTL

\* Every permit of the limiter belongs to a handler, and every handler has one,
\* whichever of the ways it ends.
THEOREM PermitsAreCounted == Spec => []PermitsCounted
<1>1. ASSUME IInv PROVE PermitsCounted
  <2>. SUFFICES ASSUME ~srv.crashed
                PROVE  srv.active = Cardinality({c \in Conns : cl[c].st \in Alive})
    BY DEF PermitsCounted
  <2>1. PICK s : s = Now(TRUE)
    OBVIOUS
  <2>2. CountOK(s) /\ s.srv = srv /\ s.cl = cl
    BY <1>1, <2>1, Live DEF Sound
  <2>. QED  BY <2>2 DEF CountOK, Living
<1>. QED  BY <1>1, Invariance, PTL

\* Until a stray close, a handler leaves the loop, the table of handlers and the
\* routing map before it is freed.
THEOREM NothingDangles == Spec => []NoDangling
<1>1. ASSUME IInv PROVE NoDangling
  <2>. SUFFICES ASSUME ~srv.stray, ~srv.crashed
                PROVE  /\ \A w \in WorkerIds, f \in ClientFds :
                            loops[w].entries[f].ctx # NoCtx => cl[loops[w].entries[f].ctx].st \in Alive
                       /\ \A f \in ClientFds : srv.handlers[f] # NoCtx => cl[srv.handlers[f]].st \in Alive
                       /\ \A n \in Nodes : srv.routing[n] # NoCtx =>
                            cl[srv.routing[n]].st = "active" /\ cl[srv.routing[n]].node = n
    BY DEF NoDangling
  <2>1. PICK s : s = Now(TRUE)
    OBVIOUS
  <2>2. s \in StateType /\ Sound(s, work) /\ s.loops = loops /\ s.srv = srv /\ s.cl = cl
    BY <1>1, <2>1, Live
  <2>3. Tidy(s, work) /\ HandlersOK(s)
    BY <2>2 DEF Sound
  <2>. QED  BY <2>2, <2>3 DEF Tidy, TidyEntries, TidyRoutes, TidyKeys, TidyJobs, TidyWork, HandlersOK
<1>. QED  BY <1>1, Invariance, PTL
=============================================================================
