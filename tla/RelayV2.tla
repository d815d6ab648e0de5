------------------------------- MODULE RelayV2 -------------------------------
(***************************************************************************)
(* The server of src/p2p/relay_v2.zig on the event loops of EventLoop:     *)
(* worker 0 accepts, each worker serves the clients dispatched to it, and  *)
(* what has to be done for a client of another worker is a job of that     *)
(* worker.  A callback is one step, up to its frames, which are handled    *)
(* one by one.  The peers are RelayClients (same file).                    *)
(*                                                                         *)
(* A handler is named by the connection it was created for, but knows it   *)
(* by its number only: table says which connection a number means now.     *)
(* What the build makes of undefined behaviour (a key that is freed twice, *)
(* a handler used after it was freed, bytes beyond a slice) is that the    *)
(* process dies, or that the step goes on with what the memory holds:      *)
(* undefined marks it.  The map finds an entry whose key was freed, or     *)
(* does not: hit says which.  Memory does not run out, and a frame arrives *)
(* whole.  Tunnels (frames 5 to 7) are left out.                           *)
(***************************************************************************)
EXTENDS EventLoop

CONSTANTS
  Conns,           \* connections of peers, numbers in the order they are made
  Nodes,           \* keys they register
  Listen,          \* the descriptor of the listener, in Fds
  Acceptor,        \* its context
  Workers,         \* num_workers
  MaxConnections,  \* of the rate limiter, 0 for no limit
  MaxFrames,       \* bound: frames of peers after registration and answers
  MaxRequests      \* bound: requests that are forwarded

ASSUME RelayV2Assumption ==
  /\ Workers \in Nat \ {0} /\ MaxConnections \in Nat
  /\ Listen \in Fds /\ Nodes # {} /\ Fds \subseteq Nat
  /\ Conns \subseteq Nat /\ IsFiniteSet(Conns)
  /\ {NoCtx, Acceptor} \cap Conns = {} /\ NoCtx # Acceptor

VARIABLES
  loops,  \* the loops of the pool
  work,   \* the client a loop is serving, the frames read, whether POLLOUT is next
  srv,    \* the RelayServer and the descriptors of the process
  cl,     \* the handlers of clients
  peer,   \* the other ends: their state, what they have sent and is not read
  sent    \* how many frames they have sent that MaxFrames counts

server == <<loops, work, srv, cl>>
vars == <<server, peer, sent>>

WorkerIds == 0..(Workers - 1)
ClientFds == Fds \ {Listen}
Idle == [ctx |-> NoCtx, frames |-> <<>>, out |-> FALSE]
Alive == {"waiting", "active"}

NewServer ==
  [running |-> FALSE, begun |-> FALSE, active |-> 0, next |-> 0, nextReq |-> 1,
   handlers |-> [f \in ClientFds |-> NoCtx],
   routing |-> [n \in Nodes |-> NoCtx],
   keys |-> [n \in Nodes |-> NoCtx],  \* whose string is the key of the entry
   pending |-> {},
   table |-> [f \in ClientFds |-> NoCtx],
   undefined |-> FALSE, crashed |-> FALSE,
   stray |-> FALSE]   \* history: a job has closed the descriptor of another, or
                      \* the key of an entry was freed

NoHandler == [st |-> "none", worker |-> 0, fd |-> Listen, node |-> NoCtx, buffered |-> FALSE]

NewLoops == [w \in WorkerIds |-> NewLoop]

Init ==
  /\ loops = NewLoops
  /\ work = [w \in WorkerIds |-> Idle]
  /\ srv = NewServer
  /\ cl = [c \in Conns |-> NoHandler]
  /\ peer = [c \in Conns |-> [st |-> "none", inbox |-> <<>>, answered |-> {}]]
  /\ sent = 0

(***************************************************************************)
(* The functions of the server go from states to states [loops, srv, cl,   *)
(* hit].                                                                   *)
(***************************************************************************)
Freed(s, c) == s.cl[c].st = "freed"

Stale(s, n) == s.srv.routing[n] # NoCtx /\ Freed(s, s.srv.keys[n])

Now(hit) == [loops |-> loops, srv |-> srv, cl |-> cl, hit |-> hit]

\* The states to start from.
Nows == {Now(TRUE)} \cup {Now(FALSE) : n \in {k \in Nodes : Stale(Now(TRUE), k)}}

\* What the map has for n.
Route(s, n) == IF Stale(s, n) /\ ~s.hit THEN NoCtx ELSE s.srv.routing[n]

Become(s) ==
  \/ /\ loops' = s.loops /\ cl' = s.cl
     /\ srv' = [s.srv EXCEPT !.undefined = FALSE]
  \/ /\ s.srv.undefined
     /\ loops' = NewLoops /\ cl' = [c \in Conns |-> NoHandler]
     /\ srv' = [NewServer EXCEPT !.crashed = TRUE]

Undefined(s) == [s EXCEPT !.srv.undefined = TRUE]
Close(s, f)  == IF f \in ClientFds THEN [s EXCEPT !.srv.table[f] = NoCtx] ELSE s
OnLoop(s, w, l) == [s EXCEPT !.loops[w] = l]

-----------------------------------------------------------------------------
(* RateLimiter: every address has its port, so max_per_user never counts    *)
(* to two.                                                                  *)

LimitReached(s) == MaxConnections > 0 /\ s.srv.active >= MaxConnections

Release(s) == [s EXCEPT !.srv.active = IF @ > 0 THEN @ - 1 ELSE 0]

-----------------------------------------------------------------------------
(* Clients *)

\* The descriptor and the entry go only with the handler the number belongs to.
CloseCurrent(s, w, c) ==
  LET f == s.cl[c].fd
  IN IF s.srv.handlers[f] # c THEN s
     ELSE OnLoop(Close([s EXCEPT !.srv.handlers[f] = NoCtx], f), w, RemoveFd(s.loops[w], f))

\* Mutant: the route stays.
KeepRoute(s, c) == s

LeaveRoute(s, c) ==
  LET n == s.cl[c].node
  IN IF Route(s, n) = c THEN [s EXCEPT !.srv.routing[n] = NoCtx, !.srv.keys[n] = NoCtx] ELSE s

\* The key of a registered client is freed twice, by way of its connection and
\* of its handler, also where the map keeps it as the key of another's entry.
Unregister(s, c) ==
  IF s.cl[c].st # "active" THEN s
  ELSE LET s1 == Undefined(LeaveRoute(s, c))
       IN [s1 EXCEPT !.srv.stray = @ \/ \E n \in Nodes : s1.srv.keys[n] = c]

Free(s, c) == [s EXCEPT !.cl[c] = [NoHandler EXCEPT !.st = "freed"]]

\* Mutant: a client that never registered keeps its permit.
CleanupKeepsPermit(s, w, c) ==
  LET s1 == Free(Unregister(CloseCurrent(s, w, c), c), c)
  IN IF s.cl[c].st = "active" THEN Release(s1) ELSE s1

clientCleanup(s, w, c) == Release(Free(Unregister(CloseCurrent(s, w, c), c), c))

\* What a write to a client may do: all of it or a part, or fail, when the
\* other end has gone, the number is closed, or the buffer is full.
Outcomes(s, c) ==
  IF c = NoCtx THEN {"all"}
  ELSE LET k == s.srv.table[s.cl[c].fd]
       IN IF k = NoCtx THEN {"error"}
          ELSE {"all", "part"} \cup
               (IF peer[k].st # "on" \/ s.cl[c].buffered THEN {"error"} ELSE {})

writeOrBuffer(s, w, c, o) ==
  CASE o = "error" -> clientCleanup(s, w, c)
    [] o = "part" /\ ~s.cl[c].buffered ->
         OnLoop([s EXCEPT !.cl[c].buffered = TRUE], w, ModFd(s.loops[w], s.cl[c].fd, TRUE))
    [] OTHER -> s

flushWriteBuffer(s, w, c, o) ==
  CASE s.cl[c].buffered /\ o = "error" -> clientCleanup(s, w, c)
    [] s.cl[c].buffered /\ o = "part" -> s
    [] OTHER -> OnLoop([s EXCEPT !.cl[c].buffered = FALSE], w,
                       ModFd(s.loops[w], s.cl[c].fd, FALSE))

writeByFd(s, w, f, current, o) ==
  LET h == s.srv.handlers[f]
  IN CASE h = NoCtx -> s
       [] h # NoCtx /\ s.cl[h].worker = current -> writeOrBuffer(s, w, h, o)
       [] OTHER -> LET v == s.cl[h].worker
                   IN OnLoop(s, v, Execute(s.loops[v], [job |-> "write", fd |-> f, of |-> NoCtx]))

-----------------------------------------------------------------------------
(* Accepting *)

\* Connections the listener has and nobody has accepted.
Backlog == {c \in Conns : peer[c].st \in {"on", "fin"} /\ cl[c].st = "none"}

\* Numbers the kernel has to give, the lowest first.
FreeFds == {f \in ClientFds : srv.table[f] = NoCtx}

First(S) == CHOOSE c \in S : \A d \in S : c <= d

\* dispatchClient: the next worker in turn serves the client, unless the
\* limiter refuses it.
dispatchClient(s, c, f) ==
  LET v == s.srv.next
      s1 == [s EXCEPT !.srv.next = (v + 1) % Workers]
      s2 == [s1 EXCEPT !.srv.active = @ + 1, !.srv.table[f] = c,
                       !.cl[c] = [@ EXCEPT !.st = "waiting", !.worker = v, !.fd = f]]
  IN CASE LimitReached(s) -> [s1 EXCEPT !.cl[c].st = "refused"]
       [] ~LimitReached(s) /\ v = 0 ->
            OnLoop([s2 EXCEPT !.srv.handlers[f] = c], 0, AddFd(s.loops[0], f, c))
       [] OTHER -> OnLoop(s2, v, Execute(s.loops[v], [job |-> "register", fd |-> f, of |-> c]))

\* onAcceptReadable goes on, or into its first call, unless the server is being
\* stopped.
Accepting(l) == IF srv.running THEN [l EXCEPT !.at = "accept"] ELSE Pass(l)

\* accept returns a connection.  Until there is one, worker 0 stays in the call.
AcceptOne ==
  /\ loops[0].at = "accept"
  /\ Backlog # {} /\ FreeFds # {}
  /\ LET s == dispatchClient(Now(TRUE), First(Backlog), First(FreeFds))
     IN Become(OnLoop(s, 0, Accepting(s.loops[0])))
  /\ UNCHANGED <<work, peer, sent>>

AcceptEnds ==
  /\ loops[0].at = "accept"
  /\ loops' = [loops EXCEPT ![0] = Pass(@)]
  /\ UNCHANGED <<work, srv, cl, peer, sent>>

\* There is no number to give.
AcceptFails == FreeFds = {} /\ AcceptEnds

\* setNonblocking makes the listener one that returns WouldBlock, on Windows and the
\* systems of the last branch; on Linux it sets 0o2000, which is O_APPEND, and the
\* call blocks.  A listener that was closed in the meantime fails likewise.
WouldBlock == Backlog = {} /\ AcceptEnds

-----------------------------------------------------------------------------
(* One turn of the loop of a worker *)

Begin0(w) ==
  /\ loops[w].at = "new" /\ srv.begun
  /\ loops' = [loops EXCEPT ![w] = Begin(@)]
  /\ UNCHANGED <<work, srv, cl, peer, sent>>

\* What poll says of a descriptor: a number that is closed, and a connection that
\* was reset, have POLLNVAL or POLLHUP.
Event(p) ==
  LET k == srv.table[p.fd]
  IN IF p.fd = Listen
     THEN [fd |-> Listen, hup |-> FALSE, in |-> srv.running /\ Backlog # {}, out |-> FALSE]
     ELSE IF k = NoCtx THEN [fd |-> p.fd, hup |-> TRUE, in |-> FALSE, out |-> FALSE]
     ELSE [fd |-> p.fd, hup |-> peer[k].st = "rst",
           in |-> peer[k].st = "fin" \/ peer[k].inbox # <<>>, out |-> p.out]

Ready(w) == {e \in {Event(p) : p \in loops[w].polled} : e.hup \/ e.in \/ e.out}

Poll(w) ==
  /\ loops[w].at = "poll"
  /\ Ready(w) # {} \/ loops[w].wake
  /\ loops' = [loops EXCEPT ![w] = Return(@, Ready(w))]
  /\ UNCHANGED <<work, srv, cl, peer, sent>>

\* onHeartbeatTimer, every five seconds on worker 0.
PollTimesOut ==
  /\ loops[0].at = "poll"
  /\ Ready(0) = {} /\ ~loops[0].wake
  /\ loops' = [loops EXCEPT ![0] = TimeOut([loops[0] EXCEPT !.running = @ /\ srv.running])]
  /\ UNCHANGED <<work, srv, cl, peer, sent>>

\* Where a loop goes once frames are read and POLLOUT was or was not seen.
Going(l, frames, out) ==
  CASE frames # <<>> -> [l EXCEPT !.at = "frames"]
    [] frames = <<>> /\ out -> [l EXCEPT !.at = "writable"]
    [] OTHER -> Pass(l)

Serving(c, frames, out) ==
  IF frames = <<>> /\ ~out THEN Idle ELSE [ctx |-> c, frames |-> frames, out |-> out]

\* A callback for the client c, whose number is ready with the event e.
Callback(now, w, c, e) ==
  LET s1 == [now EXCEPT !.loops[w].ready = @ \ {e}]
      s2 == [s1 EXCEPT !.loops[w].rebuild = TRUE]
      PassOn(s) == [s EXCEPT !.loops[w] = Pass(@)]
      k == srv.table[e.fd]
      ended == k = NoCtx \/ (peer[k].inbox = <<>> /\ peer[k].st # "on")
      frames == IF e.in /\ ~ended THEN peer[k].inbox ELSE <<>>
  IN CASE cl[c].st = "freed" -> /\ Become(PassOn(Undefined(s1)))
                                /\ UNCHANGED <<work, peer, sent>>
       [] cl[c].st # "freed" /\ e.hup -> /\ Become(PassOn(clientCleanup(s1, w, c)))
                                          /\ UNCHANGED <<work, peer, sent>>
       [] OTHER ->
            /\ LET s == IF e.in /\ ended THEN clientCleanup(s2, w, c) ELSE s2
               IN Become([s EXCEPT !.loops[w] = Going(@, frames, e.out)])
            /\ work' = [work EXCEPT ![w] = Serving(c, frames, e.out)]
            /\ peer' = IF frames = <<>> THEN peer ELSE [peer EXCEPT ![k].inbox = <<>>]
            /\ UNCHANGED sent

Handle(w) ==
  /\ loops[w].at = "pass"
  /\ \E e \in loops[w].ready :
       LET x == loops[w].entries[e.fd].ctx
           rest == [loops[w] EXCEPT !.ready = @ \ {e}]
       IN CASE x = NoCtx ->
                 /\ loops' = [loops EXCEPT ![w] = Pass(rest)]
                 /\ UNCHANGED <<work, srv, cl, peer, sent>>
            [] x = Acceptor ->
                 /\ loops' = [loops EXCEPT ![w] = Accepting([rest EXCEPT !.rebuild = TRUE])]
                 /\ UNCHANGED <<work, srv, cl, peer, sent>>
            [] OTHER -> \E now \in Nows : Callback(now, w, x, e)

-----------------------------------------------------------------------------
(* Frames *)

\* An entry that is there keeps its key.
register(s, c, n) ==
  LET old == Route(s, n)
      v == s.cl[old].worker
      s1 == [s EXCEPT !.cl[c].st = "active", !.cl[c].node = n, !.srv.routing[n] = c]
  IN CASE old = NoCtx -> [s1 EXCEPT !.srv.keys[n] = c]
       [] old # NoCtx /\ Freed(s, old) -> Undefined(s1)
       [] OTHER ->
            OnLoop(s1, v, Execute(s.loops[v], [job |-> "cleanup", fd |-> s.cl[old].fd, of |-> old]))

routeRequest(s, w, c, n, o) ==
  LET t == Route(s, n)
      asked == [id |-> s.srv.nextReq, from |-> c, to |-> t]
      s1 == [s EXCEPT !.srv.pending = @ \cup {asked}, !.srv.nextReq = @ + 1]
  IN CASE t = NoCtx -> s
       [] t # NoCtx /\ Freed(s, t) -> Undefined(s)
       [] OTHER -> writeByFd(s1, w, s.cl[t].fd, s.cl[c].worker, o)

\* The entry points to the requester's key, which goes with its handler. The
\* reply is written as if this were worker 0.
routeResponse(s, w, p, o) ==
  LET s1 == [s EXCEPT !.srv.pending = @ \ {p}]
      t == Route(s, s.cl[p.from].node)
  IN CASE Freed(s, p.from) -> Undefined(s1)
       [] ~Freed(s, p.from) /\ t = NoCtx -> s1
       [] ~Freed(s, p.from) /\ t # NoCtx /\ Freed(s, t) -> Undefined(s1)
       [] OTHER -> writeByFd(s1, w, s.cl[t].fd, 0, o)

\* A frame is looked at after the rest of the buffer was moved over it: what is
\* seen is the next frame, if there is one, of which a shorter frame's slice has
\* only a part.
Seen(frames) == IF Len(frames) = 1 THEN frames[1] ELSE frames[2]

Length(fr) == CASE fr.k = "ping" -> 1 [] fr.k = "resp" -> 2 [] fr.k \in {"reg", "req"} -> 3

Overread(frames) == Length(Seen(frames)) > Length(frames[1])

Asked(id) == {p \in srv.pending : p.id = id}

\* What an active client has sent.
handleFrame(s, w, c, fr, o) ==
  CASE fr.k = "ping" -> writeOrBuffer(s, w, c, o)
    [] fr.k = "req"  -> routeRequest(s, w, c, fr.to, o)
    [] fr.k = "resp" -> IF Asked(fr.id) = {} THEN s
                        ELSE routeResponse(s, w, CHOOSE p \in Asked(fr.id) : TRUE, o)
    [] OTHER -> clientCleanup(s, w, c)

\* The client whose socket the frame may be written to.
Receiver(s, c, fr) ==
  LET Via(n) == LET t == Route(s, n)
                IN IF t = NoCtx \/ Freed(s, t) THEN NoCtx ELSE srv.handlers[cl[t].fd]
      from == {p.from : p \in {q \in srv.pending : fr.k = "resp" /\ q.id = fr.id}}
  IN CASE cl[c].st # "active" -> NoCtx
       [] fr.k = "ping" -> c
       [] fr.k = "req" -> Via(fr.to)
       [] \E d \in from : ~Freed(s, d) -> Via(cl[CHOOSE d \in from : TRUE].node)
       [] OTHER -> NoCtx

\* The state machine of clientOnReadable, for the frame it has seen. Another
\* worker may have freed the handler since.
StateMachine(s, w, c, fr, o) ==
  CASE cl[c].st = "freed"  -> Undefined(s)
    [] cl[c].st = "active" -> handleFrame(s, w, c, fr, o)
    [] cl[c].st = "waiting" /\ fr.k = "reg" -> register(s, c, fr.node)
    [] OTHER -> clientCleanup(s, w, c)

\* clientOnReadable takes the next frame. Where handling it has freed the handler,
\* the loop goes on in it all the same, unless it was waiting for a registration.
Frame(w) ==
  LET c == work[w].ctx
      frames == work[w].frames
  IN /\ loops[w].at = "frames"
     /\ \E now \in Nows : \E o \in Outcomes(now, Receiver(now, c, Seen(frames))) :
          LET s == StateMachine(now, w, c, Seen(frames), o)
              rest == IF Freed(s, c) THEN <<>> ELSE Tail(frames)
              s1 == [s EXCEPT !.loops[w] = Going(@, rest, work[w].out)]
          IN /\ Become(IF cl[c].st = "active" /\ (Freed(s, c) \/ Overread(frames))
                       THEN Undefined(s1) ELSE s1)
             /\ work' = [work EXCEPT ![w] = Serving(c, rest, @.out)]
     /\ UNCHANGED <<peer, sent>>

\* clientOnWritable; the entry was copied before the frames were read.
Writable(w) ==
  LET c == work[w].ctx
      PassOn(s) == [s EXCEPT !.loops[w] = Pass(@)]
  IN /\ loops[w].at = "writable"
     /\ \E now \in Nows :
          IF Freed(now, c) THEN Become(PassOn(Undefined(now)))
          ELSE \E o \in Outcomes(now, c) : Become(PassOn(flushWriteBuffer(now, w, c, o)))
     /\ work' = [work EXCEPT ![w] = Idle]
     /\ UNCHANGED <<peer, sent>>

-----------------------------------------------------------------------------
(* Jobs *)

Jobs(w) ==
  /\ loops[w].at \in {"drain", "take"}
  /\ loops' = [loops EXCEPT ![w] = ProcessJobs(@)]
  /\ UNCHANGED <<work, srv, cl, peer, sent>>

registerClientJob(s, w, j) ==
  OnLoop([s EXCEPT !.srv.handlers[j.fd] = j.of], w, AddFd(s.loops[w], j.fd, j.of))

\* Whose number it is, the job does not ask.
cleanupFdJob(s, w, j) ==
  OnLoop(Close([s EXCEPT !.srv.stray = @ \/ s.srv.table[j.fd] \notin {j.of, NoCtx}], j.fd),
         w, RemoveFd(s.loops[w], j.fd))

crossWriteJob(s, w, j, o) ==
  LET h == s.srv.handlers[j.fd]
  IN IF h = NoCtx THEN s ELSE writeOrBuffer(s, w, h, o)

Job(w) ==
  LET j == Head(loops[w].batch)
  IN /\ loops[w].at = "jobs"
     /\ \E now \in Nows :
          LET s == OnLoop(now, w, JobDone(loops[w]))
          IN CASE j.job = "register" -> Become(registerClientJob(s, w, j))
               [] j.job = "cleanup"  -> Become(cleanupFdJob(s, w, j))
               [] j.job = "write"    -> \E o \in Outcomes(now, srv.handlers[j.fd]) :
                                          Become(crossWriteJob(s, w, j, o))
     /\ UNCHANGED <<work, peer, sent>>

-----------------------------------------------------------------------------
(* The main thread *)

\* RelayServer.run: the listener is registered, the threads begin.
Run ==
  /\ ~srv.begun /\ ~srv.crashed
  /\ srv' = [srv EXCEPT !.begun = TRUE, !.running = TRUE]
  /\ loops' = [loops EXCEPT ![0] = AddFd(@, Listen, Acceptor)]
  /\ UNCHANGED <<work, cl, peer, sent>>

\* stop sets the flag of every loop and wakes it; a loop that has not begun
\* sets its flag again.
Stop ==
  /\ srv.running
  /\ srv' = [srv EXCEPT !.running = FALSE]
  /\ loops' = [w \in WorkerIds |-> StopLoop(loops[w])]
  /\ UNCHANGED <<work, cl, peer, sent>>

-----------------------------------------------------------------------------
(* The peers: RelayClients, in any order and at any speed *)

\* A listener that is closed is there until the call that is blocked in it returns.
Listening == srv.running \/ loops[0].at = "accept"

\* initWithOpts, or reconnect: the connection and its registration.
Connect(c) ==
  /\ peer[c].st = "none" /\ Listening
  /\ \A d \in Conns : d < c => peer[d].st # "none"
  /\ \E n \in Nodes :
       peer' = [peer EXCEPT ![c].st = "on", ![c].inbox = <<[k |-> "reg", node |-> n]>>]
  /\ UNCHANGED <<server, sent>>

\* Neither end has closed the connection.
Open(c) ==
  /\ peer[c].st = "on" /\ ~srv.crashed
  /\ cl[c].st = "none" \/ \E f \in ClientFds : srv.table[f] = c

Frames(c, frames) == [peer EXCEPT ![c].inbox = @ \o frames]

\* The ping after the registration, and clientOnHeartbeat.
Ping(c) ==
  /\ Open(c) /\ sent < MaxFrames
  /\ peer' = Frames(c, <<[k |-> "ping"]>>)
  /\ sent' = sent + 1
  /\ UNCHANGED server

\* sendRequest, to any node.
Request(c) ==
  /\ Open(c) /\ sent < MaxFrames /\ srv.nextReq <= MaxRequests
  /\ \E n \in Nodes : peer' = Frames(c, <<[k |-> "req", to |-> n]>>)
  /\ sent' = sent + 1
  /\ UNCHANGED server

\* handleFrame of a RelayClient answers what was forwarded to it, once.
Answer(c) ==
  /\ Open(c)
  /\ \E p \in srv.pending :
       /\ p.to = c /\ p.id \notin peer[c].answered
       /\ peer' = [Frames(c, <<[k |-> "resp", id |-> p.id]>>) EXCEPT ![c].answered = @ \cup {p.id}]
  /\ UNCHANGED <<server, sent>>

\* The peer closes its end, with or without a reset.
Leave(c) ==
  /\ Open(c)
  /\ \E end \in {"fin", "rst"} :
       peer' = [peer EXCEPT ![c].st = end, ![c].inbox = IF end = "rst" THEN <<>> ELSE @]
  /\ UNCHANGED <<server, sent>>

-----------------------------------------------------------------------------
WorkerStep(w) ==
  \/ Begin0(w) \/ Poll(w) \/ Handle(w)
  \/ Frame(w) \/ Writable(w) \/ Jobs(w) \/ Job(w)
  \/ w = 0 /\ (AcceptOne \/ AcceptFails \/ PollTimesOut)

PeerStep(c) == Connect(c) \/ Ping(c) \/ Request(c) \/ Answer(c) \/ Leave(c)

Next ==
  \/ Run \/ Stop \/ WouldBlock
  \/ \E w \in WorkerIds : WorkerStep(w)
  \/ \E c \in Conns : PeerStep(c)

Spec == Init /\ [][Next]_vars

\* The threads run; nobody has to connect, send or stop, and accept need not return
\* without a connection.
FairSpec == Spec /\ \A w \in WorkerIds : WF_vars(WorkerStep(w))

-----------------------------------------------------------------------------
(* Properties.                                                             *)

\* Until a cleanup job has closed the number of another connection (267) or the key
\* string of an entry was freed with the connection it came from (560), nothing a
\* loop may call and nothing the tables name has been freed: clientCleanup takes a
\* handler out of all three, although it looks at the first and the last by number.
NoDangling ==
  ~srv.stray /\ ~srv.crashed =>
    /\ \A w \in WorkerIds, f \in ClientFds :
         loops[w].entries[f].ctx # NoCtx => cl[loops[w].entries[f].ctx].st \in Alive
    /\ \A f \in ClientFds : srv.handlers[f] # NoCtx => cl[srv.handlers[f]].st \in Alive
    /\ \A n \in Nodes : srv.routing[n] # NoCtx =>
         cl[srv.routing[n]].st = "active" /\ cl[srv.routing[n]].node = n

\* Whatever is closed, replaced or freed in whatever order, the limiter counts the
\* handlers there are: a permit is given back once, by the end of its handler.
PermitsCounted ==
  ~srv.crashed => srv.active = Cardinality({c \in Conns : cl[c].st \in Alive})

\* Where a thread waits for what others do: in poll, which a wakeup byte ends, or in
\* accept, which only a connection ends.
Asleep(w) ==
  \/ loops[w].at = "poll" /\ ~loops[w].wake
  \/ loops[w].at = "accept" /\ Backlog = {}

\* processJobs reads the wakeup bytes and takes the jobs in two steps, while other
\* threads append jobs and write bytes: no loop sleeps in poll over a job or over the
\* order to stop. One may in accept, and it is worker 0: what it has to do for its
\* clients, and stop, wait there for the next connection (event_loop.zig:293).
NoLostWakeup ==
  \A w \in WorkerIds :
    Asleep(w) /\ (loops[w].jobs # <<>> \/ ~loops[w].running) =>
      w = 0 /\ loops[w].at = "accept"

\* event_loop.zig:4, thread_pool.zig:4: every worker serves the clients that are
\* dispatched to it. Of the workers other than 0, which accept may hold: once the
\* first frame of a client has arrived, it is registered or its handler ends.
ClientsServed ==
  \A c \in Conns :
    cl[c].st = "waiting" /\ cl[c].worker # 0 /\ peer[c].inbox # <<>>
      ~> \/ cl[c].st # "waiting" \/ peer[c].st # "on"
         \/ srv.stray \/ srv.crashed \/ ~srv.running
=============================================================================
