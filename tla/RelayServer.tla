----------------------------- MODULE RelayServer -----------------------------
(***************************************************************************)
(* The encrypted relay server (src/relay/main.zig): a thread that accepts  *)
(* connections, one thread per connection that registers and authenticates *)
(* a node and then reads until the connection ends, a thread that serves   *)
(* UDP, and a thread that reaps silent sessions.                           *)
(*                                                                         *)
(* A thread keeps the number of its descriptor and never learns that       *)
(* another thread has closed it: it reads and closes whatever connection   *)
(* the number means by then.  A read that has begun ends with the          *)
(* connection it began with.  A connection may send any message at any     *)
(* time, or end.  How data is forwarded is left out, since it changes      *)
(* nothing but the rate counters.                                          *)
(***************************************************************************)
EXTENDS Registry

VARIABLES
  pc,      \* the thread of the connection: where in handleTCPConnection it is
  fd,      \* its descriptor
  node,    \* the node it has registered
  udp      \* the UDP thread: idle, or between two calls of the registry

relayVars == <<regVars, pc, fd, node, udp>>

Pc == {"none", "first", "store", "auth", "activate", "loop",
       "fail", "leave", "close", "end"}

TypeOK ==
  /\ RegTypeOK
  /\ pc \in [Conns -> Pc]
  /\ fd \in [Conns -> Fds \cup {None}]
  /\ node \in [Conns -> Nodes \cup {None}]
  /\ udp \in [at : {"idle"}] \cup [at : {"store", "activate"}, node : Nodes]

Init ==
  /\ RegInit
  /\ pc = [c \in Conns |-> "none"]
  /\ fd = [c \in Conns |-> None]
  /\ node = [c \in Conns |-> None]
  /\ udp = [at |-> "idle"]

At(c, l)   == pc[c] = l
Goto(c, l) == pc' = [pc EXCEPT ![c] = l]

-----------------------------------------------------------------------------
(* Accepting *)

\* The number the kernel gives to the next connection.
LowestFree(f) ==
  table[f] = None /\ \A g \in Fds : table[g] = None => f <= g

Accept(c) ==
  /\ At(c, "none")
  /\ \E f \in Fds :
       /\ LowestFree(f)
       /\ table' = [table EXCEPT ![f] = c]
       /\ fd' = [fd EXCEPT ![c] = f]
  /\ Goto(c, "first")
  /\ UNCHANGED <<sess, stray, panicked, node, udp>>

\* The thread cannot be created: the connection is closed at once.
AcceptWithoutThread(c) ==
  /\ At(c, "none")
  /\ Goto(c, "end")
  /\ UNCHANGED <<regVars, fd, node, udp>>

-----------------------------------------------------------------------------
(* The thread of a connection *)

\* The connections a read of the thread of c may get data from.
Sources(c) == {c, table[fd[c]]} \ {None}

\* Mutant: the first read returns without the deferred close.
ReadRegisterFailsLeaks(c) ==
  /\ At(c, "first")
  /\ Goto(c, "end")
  /\ UNCHANGED <<regVars, fd, node, udp>>

\* A timeout, an error, a message that is not REGISTER, or no room.
ReadRegisterFails(c) ==
  /\ At(c, "first")
  /\ Goto(c, "close")
  /\ UNCHANGED <<regVars, fd, node, udp>>

ReadRegister(c) ==
  /\ At(c, "first")
  /\ \E n \in Nodes :
       /\ register(n, fd[c], c)
       /\ node' = [node EXCEPT ![c] = n]
  /\ Goto(c, "store")
  /\ UNCHANGED <<fd, udp>>

\* The challenge is stored and sent; the write fails on a closed connection.
SendChallenge(c) ==
  /\ At(c, "store")
  /\ SetChallenge(node[c], c)
  /\ \/ table[fd[c]] # None /\ Goto(c, "auth")
     \/ Goto(c, "fail")
  /\ UNCHANGED <<fd, node, udp>>

\* A timeout, an error, another message, no challenge or a wrong signature.
ReadAuthFails(c) ==
  /\ At(c, "auth")
  /\ Goto(c, "fail")
  /\ UNCHANGED <<regVars, fd, node, udp>>

\* AUTH with a signature of the challenge that the session has by now.
ReadAuth(c) ==
  /\ At(c, "auth")
  /\ node[c] \in registered
  /\ \E x \in Sources(c) :
       sess[node[c]].challenge = x /\ node[x] = node[c]
  /\ Goto(c, "activate")
  /\ UNCHANGED <<regVars, fd, node, udp>>

Activate(c) ==
  /\ At(c, "activate")
  /\ activate(node[c])
  /\ Goto(c, "loop")
  /\ UNCHANGED <<fd, node, udp>>

\* A message, or ten seconds of PINGs, refresh the session of the node.
Refresh(c) ==
  /\ At(c, "loop")
  /\ table[fd[c]] # None
  /\ heartbeat(node[c])
  /\ UNCHANGED <<pc, fd, node, udp>>

\* The end of the connection, a closed number, an error or a minute's silence.
EndLoop(c) ==
  /\ At(c, "loop")
  /\ Goto(c, "leave")
  /\ UNCHANGED <<regVars, fd, node, udp>>

\* Mutant: an authentication that fails leaves its session to the reaper.
FailKeepsSession(c) ==
  /\ At(c, "fail")
  /\ Goto(c, "close")
  /\ UNCHANGED <<regVars, fd, node, udp>>

\* The early exits unregister the node, whoever has its session.
Fail(c) ==
  /\ At(c, "fail")
  /\ unregister(node[c])
  /\ Goto(c, "close")
  /\ UNCHANGED <<fd, node, udp>>

Leave(c) ==
  /\ At(c, "leave")
  /\ unregisterIfFdMatches(node[c], fd[c])
  /\ Goto(c, "close")
  /\ UNCHANGED <<fd, node, udp>>

\* The deferred safeClose: the number may have been closed, and reused.
Close(c) ==
  /\ At(c, "close")
  /\ table' = [table EXCEPT ![fd[c]] = None]
  /\ stray' = (stray \/ table[fd[c]] \notin {None, c})
  /\ fd' = [fd EXCEPT ![c] = None]
  /\ node' = [node EXCEPT ![c] = None]
  /\ Goto(c, "end")
  /\ UNCHANGED <<sess, panicked, udp>>

Thread(c) ==
  \/ ReadRegisterFails(c) \/ ReadRegister(c) \/ SendChallenge(c)
  \/ ReadAuthFails(c) \/ ReadAuth(c) \/ Activate(c)
  \/ Refresh(c) \/ EndLoop(c) \/ Fail(c) \/ Leave(c) \/ Close(c)

-----------------------------------------------------------------------------
(* The UDP thread and the reaper *)

UdpRegister(n) ==
  /\ udp.at = "idle"
  /\ register(n, None, None)
  /\ udp' = [at |-> "store", node |-> n]
  /\ UNCHANGED <<pc, fd, node>>

UdpChallenge ==
  /\ udp.at = "store"
  /\ SetChallenge(udp.node, Udp)
  /\ udp' = [at |-> "idle"]
  /\ UNCHANGED <<pc, fd, node>>

\* A session that TCP registered is refused: nobody signs its challenge here.
UdpAuth(n) ==
  /\ udp.at = "idle"
  /\ n \in registered /\ sess[n].challenge = Udp
  /\ udp' = [at |-> "activate", node |-> n]
  /\ UNCHANGED <<regVars, pc, fd, node>>

UdpActivate ==
  /\ udp.at = "activate"
  /\ activate(udp.node)
  /\ udp' = [at |-> "idle"]
  /\ UNCHANGED <<pc, fd, node>>

UdpPing(n) ==
  /\ udp.at = "idle"
  /\ heartbeat(n)
  /\ UNCHANGED <<pc, fd, node, udp>>

UdpThread ==
  \/ UdpChallenge \/ UdpActivate
  \/ \E n \in Nodes : UdpRegister(n) \/ UdpAuth(n) \/ UdpPing(n)

Reap == reapExpired /\ UNCHANGED <<pc, fd, node, udp>>

-----------------------------------------------------------------------------
(* Time *)

Time(n) == Silence(n) /\ UNCHANGED <<pc, fd, node, udp>>

Next ==
  /\ ~panicked
  /\ \/ \E c \in Conns : Accept(c) \/ AcceptWithoutThread(c) \/ Thread(c)
     \/ UdpThread \/ Reap
     \/ \E n \in Nodes : Time(n)

Spec == Init /\ [][Next]_relayVars

-----------------------------------------------------------------------------
(* Properties *)

\* Until a close hits the connection of another, a session has the open
\* descriptor of the connection that registered it, for that node, whatever
\* replaces, reaps, unregisters and ends meanwhile; and nothing panics.
SessionsOwnTheirSockets ==
  ~stray =>
    /\ ~panicked
    /\ \A n \in registered :
         sess[n].fd # None =>
           \E c \in Conns : /\ sess[n].conn = c /\ node[c] = n
                           /\ table[sess[n].fd] = c /\ fd[c] = sess[n].fd

\* Every path of handleTCPConnection gives the descriptor back: one that is
\* open belongs to a thread that has it still to close.
DescriptorsReturn ==
  \A f \in Fds : table[f] # None => fd[table[f]] = f /\ pc[table[f]] # "end"

\* Until then, too, the session that a connection registered goes with its
\* thread, by whichever exit: no session is left to the reaper.
SessionsEndWithTheirThread ==
  ~stray => \A n \in registered :
              sess[n].conn # None => pc[sess[n].conn] \notin {"close", "end"}

=============================================================================
