-------------------------- MODULE RelayServerProofs --------------------------
(***************************************************************************)
(* Proofs about RelayServer, for any set of nodes, connections and         *)
(* descriptors.                                                            *)
(*                                                                         *)
(* The invariant says for each place of handleTCPConnection what the       *)
(* thread has: a descriptor from accept to the deferred close, a node from *)
(* its registration on.  Until a close has hit the connection of another,  *)
(* a thread that has not registered yet has its descriptor open, and a     *)
(* session has the open descriptor of a thread that has still to remove it.*)
(***************************************************************************)
EXTENDS RelayServer, FiniteSetTheorems, TLAPS

HasNode == {"store", "auth", "activate", "loop", "fail", "leave"}

\* What a thread has at each place.
Threads ==
  \A c \in Conns :
    /\ fd[c] = None <=> pc[c] \in {"none", "end"}
    /\ pc[c] \in HasNode => node[c] \in Nodes

\* A connection is in the table at most once, where its thread expects it.
Descriptors == \A f \in Fds : table[f] # None => fd[table[f]] = f

\* The thread of c has still to remove the session of n, and has it open.
Owns(c, n) ==
  /\ sess[n].conn = c /\ node[c] = n /\ pc[c] \in HasNode
  /\ fd[c] = sess[n].fd /\ table[sess[n].fd] = c

\* A session has a connection exactly if it has a descriptor.
Sessions ==
  \A n \in registered :
    IF sess[n].fd = None THEN sess[n].conn = None ELSE \E c \in Conns : Owns(c, n)

Newcomers == \A c \in Conns : pc[c] = "first" => table[fd[c]] = c

Sound == ~stray => ~panicked /\ Sessions /\ Newcomers

Struct == TypeOK /\ Threads /\ Descriptors

Inv == Struct /\ Sound

-----------------------------------------------------------------------------
(* The operations of the registry.                                         *)

\* A session is a record, so that registered tells what there is.
LEMMA SessionLemma ==
  ASSUME RegTypeOK
  PROVE  /\ \A n \in registered : n \in Nodes /\ sess[n] \in Session
         /\ \A n \in Nodes : n \notin registered => sess[n] = None
         /\ IsFiniteSet(registered) /\ Cardinality(registered) \in Nat
         /\ Cardinality(registered) <= MaxSessions
<1>1. /\ \A n \in registered : n \in Nodes /\ sess[n] \in Session
      /\ \A n \in Nodes : n \notin registered => sess[n] = None
      /\ registered \subseteq Nodes
      /\ Cardinality(registered) <= MaxSessions
  BY DEF RegTypeOK, registered
<1>2. IsFiniteSet(registered) /\ Cardinality(registered) \in Nat
  BY <1>1, RegistryAssumption, FS_Subset, FS_CardinalityType
<1> QED BY <1>1, <1>2

\* With fewer sessions than before, there are at most as many.
LEMMA FewerLemma ==
  ASSUME RegTypeOK, sess' \in [Nodes -> Session \cup {None}],
         registered' \subseteq registered
  PROVE  Cardinality({n \in Nodes : sess'[n] # None}) <= MaxSessions
<1>1. Cardinality(registered') <= Cardinality(registered)
      /\ Cardinality(registered') \in Nat
  BY SessionLemma, FS_Subset, FS_CardinalityType
<1>2. Cardinality(registered') <= MaxSessions
  BY <1>1, SessionLemma, RegistryAssumption
<1> QED BY <1>2 DEF registered

\* closeSessionFd keeps the types of what it changes and only closes.
LEMMA CloseType ==
  ASSUME RegTypeOK, NEW S \in SUBSET registered, closeSessionFd(S)
  PROVE  /\ table' \in [Fds -> Conns \cup {None}]
         /\ stray' \in BOOLEAN /\ panicked' \in BOOLEAN
         /\ stray => stray'
         /\ \A f \in Fds : table'[f] # None => table'[f] = table[f]
BY DEF RegTypeOK, closeSessionFd

\* While every session owns its socket, closing some of them neither panics
\* nor touches the sockets of other sessions or of newcomers.
LEMMA CloseLemma ==
  ASSUME RegTypeOK, Sessions, ~stray, ~panicked,
         NEW S \in SUBSET registered, closeSessionFd(S)
  PROVE  /\ ~stray' /\ ~panicked'
         /\ \A n \in registered \ S, c \in Conns :
              Owns(c, n) /\ sess[n].fd # None => table'[sess[n].fd] = c
         /\ \A c \in Conns, f \in Fds :
              table[f] = c /\ pc[c] \notin HasNode => table'[f] = c
<1> DEFINE tcp == {n \in S : sess[n].fd # None}
<1>1. \A n \in registered : sess[n].fd \in Fds \cup {None}
  BY SessionLemma DEF Session
<1>2. \A n \in tcp : \E c \in Conns : Owns(c, n)
  BY DEF Sessions
<1>3. \A n \in tcp : table[sess[n].fd] # None /\ table[sess[n].fd] = sess[n].conn
  BY <1>2, RegistryAssumption DEF Owns
<1>4. \A n \in tcp, m \in registered : sess[m].fd = sess[n].fd => m = n
  BY <1>2 DEF Owns, Sessions
<1>5. ~stray' /\ ~panicked'
  BY <1>3, <1>4 DEF closeSessionFd
<1>6. \A f \in Fds : table'[f] = IF \E n \in tcp : sess[n].fd = f THEN None ELSE table[f]
  BY DEF closeSessionFd
<1>7. ASSUME NEW n \in registered \ S, NEW c \in Conns, Owns(c, n), sess[n].fd # None
      PROVE  table'[sess[n].fd] = c
  BY <1>1, <1>4, <1>6, <1>7 DEF Owns
<1>8. ASSUME NEW c \in Conns, NEW f \in Fds, table[f] = c, pc[c] \notin HasNode
      PROVE  table'[f] = c
  BY <1>2, <1>6, <1>8 DEF Owns
<1> QED BY <1>5, <1>7, <1>8

\* Removing sessions keeps the types.
LEMMA RemoveType ==
  ASSUME RegTypeOK, NEW S \in SUBSET registered, Remove(S)
  PROVE  RegTypeOK' /\ registered' = registered \ S
<1>1. /\ sess' \in [Nodes -> Session \cup {None}]
      /\ registered' = registered \ S
  BY DEF Remove, RegTypeOK, registered
<1> QED BY <1>1, CloseType, FewerLemma DEF Remove, RegTypeOK

\* So does storing into one.
LEMMA UpdateType ==
  ASSUME RegTypeOK, NEW n \in Nodes, NEW s, Update(n, s),
         n \in registered => s \in Session
  PROVE  RegTypeOK' /\ registered' = registered
<1>1. /\ sess' \in [Nodes -> Session \cup {None}]
      /\ registered' = registered
  BY SessionAssumption DEF Update, RegTypeOK, registered
<1> QED BY <1>1, FewerLemma DEF Update, RegTypeOK

\* register keeps them because there is room for one more.
LEMMA RegisterType ==
  ASSUME RegTypeOK, NEW n \in Nodes, NEW f \in Fds \cup {None},
         NEW c \in Conns \cup {None}, register(n, f, c)
  PROVE  /\ RegTypeOK' /\ registered' = registered \cup {n}
         /\ sess'[n].fd = f /\ sess'[n].conn = c
<1> DEFINE new == [fd |-> f, conn |-> c, active |-> FALSE, challenge |-> None,
                   silent |-> FALSE]
<1>0. new \in Session
  BY DEF Session
<1>1. new \in Session /\ new # None
  BY <1>0, SessionAssumption
<1>2. /\ sess' \in [Nodes -> Session \cup {None}]
      /\ sess'[n] = new
      /\ registered' = registered \cup {n}
  BY <1>1 DEF register, RegTypeOK, registered
<1>3. Cardinality(registered) < MaxSessions
  BY SessionLemma, RegistryAssumption DEF register, SessionLimitReached
<1>4. Cardinality(registered') <= MaxSessions
  <2>1. \/ Cardinality(registered \cup {n}) = Cardinality(registered)
        \/ Cardinality(registered \cup {n}) = Cardinality(registered) + 1
    BY SessionLemma, FS_AddElement
  <2> QED BY <2>1, <1>2, <1>3, SessionLemma, RegistryAssumption
<1>5. Cardinality({m \in Nodes : sess'[m] # None}) <= MaxSessions
  BY <1>4 DEF registered
<1>6. {n} \cap registered \in SUBSET registered /\ closeSessionFd({n} \cap registered)
  BY DEF register
<1> QED BY <1>2, <1>5, <1>6, CloseType DEF RegTypeOK

-----------------------------------------------------------------------------
(* Types, and what threads have.                                           *)

LEMMA InitStruct == Init => Struct
<1> SUFFICES ASSUME Init PROVE Struct
  OBVIOUS
<1> USE DEF Init, RegInit
<1>1. {n \in Nodes : sess[n] # None} = {}
  OBVIOUS
<1>2. Cardinality({n \in Nodes : sess[n] # None}) = 0
  BY <1>1, FS_EmptySet
<1>3. TypeOK
  <2>1. RegTypeOK
    <3>1. sess \in [Nodes -> Session \cup {None}] /\ table \in [Fds -> Conns \cup {None}]
      OBVIOUS
    <3>2. Cardinality({n \in Nodes : sess[n] # None}) <= MaxSessions
      BY <1>2, RegistryAssumption
    <3>3. stray \in BOOLEAN /\ panicked \in BOOLEAN
      OBVIOUS
    <3> QED BY <3>1, <3>2, <3>3 DEF RegTypeOK
  <2>2. udp \in [at : {"idle"}]
    OBVIOUS
  <2> QED BY <2>1, <2>2 DEF TypeOK, Pc
<1>4. Threads /\ Descriptors
  BY DEF Threads, Descriptors, HasNode
<1> QED BY <1>3, <1>4 DEF Struct

\* One step per action, or per group of actions of the same shape.
LEMMA NextStruct == Struct /\ [Next]_relayVars => Struct'
<1> SUFFICES ASSUME Struct, [Next]_relayVars PROVE Struct'
  OBVIOUS
<1> USE DEF Struct
<1>n. \A c \in Conns : pc[c] \in HasNode => node[c] \in Nodes
  BY DEF Threads
<1>f. \A c \in Conns : pc[c] \notin {"none", "end"} => fd[c] \in Fds
  BY DEF TypeOK, Threads
<1>k. ASSUME UNCHANGED regVars PROVE RegTypeOK' /\ (UNCHANGED fd => Descriptors')
  BY <1>k DEF TypeOK, RegTypeOK, regVars, Descriptors
<1>t. ASSUME RegTypeOK', UNCHANGED <<fd, udp>>, NEW c \in Conns, NEW l \in Pc, Goto(c, l),
             pc[c] \notin {"none", "end"}, l \notin {"none", "end"},
             \/ UNCHANGED node /\ (l \in HasNode => pc[c] \in HasNode)
             \/ \E n \in Nodes : node' = [node EXCEPT ![c] = n]
      PROVE  TypeOK' /\ Threads'
  BY <1>t DEF TypeOK, Threads, Goto
<1>d. ASSUME RegTypeOK, UNCHANGED fd,
             \A f \in Fds : table'[f] # None => table'[f] = table[f]
      PROVE  Descriptors'
  BY <1>d DEF Descriptors
<1> USE DEF Pc, HasNode, At
<1>1. ASSUME NEW c \in Conns, Accept(c) PROVE Struct'
  <2>1. PICK f \in Fds : /\ LowestFree(f) /\ table' = [table EXCEPT ![f] = c]
                        /\ fd' = [fd EXCEPT ![c] = f]
    BY <1>1 DEF Accept
  <2>2. TypeOK' /\ Threads'
    BY <1>1, <2>1, RegistryAssumption DEF Accept, TypeOK, RegTypeOK, Threads, Goto
  <2>3. fd[c] = None
    BY <1>1 DEF Accept, Threads
  <2>4. Descriptors'
    BY <2>1, <2>3, RegistryAssumption DEF TypeOK, RegTypeOK, Descriptors
  <2> QED BY <2>2, <2>4
<1>2. ASSUME NEW c \in Conns, AcceptWithoutThread(c) PROVE Struct'
  BY <1>2, <1>k DEF AcceptWithoutThread, TypeOK, Threads, Goto
<1>3. ASSUME NEW c \in Conns,
             ReadRegisterFails(c) \/ ReadAuthFails(c) \/ ReadAuth(c) \/ EndLoop(c)
      PROVE Struct'
  BY <1>3, <1>k, <1>t DEF ReadRegisterFails, ReadAuthFails, ReadAuth, EndLoop
<1>4. ASSUME NEW c \in Conns, ReadRegister(c) PROVE Struct'
  <2>1. PICK n \in Nodes : register(n, fd[c], c) /\ node' = [node EXCEPT ![c] = n]
    BY <1>4 DEF ReadRegister
  <2>2. RegTypeOK'
    BY <1>4, <2>1, <1>f, RegisterType DEF ReadRegister, TypeOK
  <2>3. \A f \in Fds : table'[f] # None => table'[f] = table[f]
    BY <2>1, CloseType DEF register, TypeOK
  <2> QED BY <1>4, <2>1, <2>2, <2>3, <1>t, <1>d DEF ReadRegister, TypeOK
<1>u. ASSUME NEW n \in Nodes, NEW s, Update(n, s), n \in registered => s \in Session
      PROVE  RegTypeOK' /\ (UNCHANGED fd => Descriptors')
  BY <1>u, <1>d, UpdateType DEF TypeOK, Update
<1>r. ASSUME NEW S \in SUBSET registered, Remove(S)
      PROVE  RegTypeOK' /\ (UNCHANGED fd => Descriptors')
  BY <1>r, <1>d, RemoveType, CloseType DEF TypeOK, Remove
<1>s. \A n \in Nodes : n \in registered =>
        /\ \A x \in Nonce : [sess[n] EXCEPT !.challenge = x] \in Session
        /\ [sess[n] EXCEPT !.active = TRUE, !.challenge = None] \in Session
        /\ \A b \in BOOLEAN : [sess[n] EXCEPT !.silent = b] \in Session
  BY SessionLemma DEF TypeOK, Session
<1>5. ASSUME NEW c \in Conns, SendChallenge(c) PROVE Struct'
  <2>1. node[c] \in Nodes
    BY <1>5, <1>n DEF SendChallenge
  <2>2. RegTypeOK' /\ Descriptors'
    BY <1>5, <2>1, <1>s, <1>u DEF SendChallenge, SetChallenge, Nonce
  <2> QED BY <1>5, <2>2, <1>t DEF SendChallenge
<1>6. ASSUME NEW c \in Conns, Activate(c) PROVE Struct'
  <2>1. node[c] \in Nodes
    BY <1>6, <1>n DEF Activate
  <2>2. RegTypeOK' /\ Descriptors'
    BY <1>6, <2>1, <1>s, <1>u DEF Activate, activate
  <2> QED BY <1>6, <2>2, <1>t DEF Activate
<1>7. ASSUME NEW c \in Conns, Refresh(c) PROVE Struct'
  <2>1. node[c] \in Nodes
    BY <1>7, <1>n DEF Refresh
  <2>2. RegTypeOK' /\ Descriptors'
    BY <1>7, <2>1, <1>s, <1>u DEF Refresh, heartbeat
  <2> QED BY <1>7, <2>2 DEF Refresh, TypeOK, Threads
<1>8. ASSUME NEW c \in Conns, Fail(c) PROVE Struct'
  <2>1. RegTypeOK' /\ Descriptors'
    BY <1>8, <1>r DEF Fail, unregister
  <2> QED BY <1>8, <2>1, <1>t DEF Fail
<1>9. ASSUME NEW c \in Conns, Leave(c) PROVE Struct'
  <2>1. RegTypeOK' /\ Descriptors'
    BY <1>9, <1>r, <1>k DEF Leave, unregisterIfFdMatches
  <2> QED BY <1>9, <2>1, <1>t DEF Leave
<1>10. ASSUME NEW c \in Conns, Close(c) PROVE Struct'
  <2>1. fd[c] \in Fds
    BY <1>10, <1>f DEF Close
  <2>2. RegTypeOK'
    BY <1>10, <2>1 DEF Close, TypeOK, RegTypeOK
  <2>3. TypeOK' /\ Threads'
    BY <1>10, <2>2 DEF Close, Goto, TypeOK, Threads
  <2>4. Descriptors'
    BY <1>10, <2>1 DEF Close, TypeOK, RegTypeOK, Descriptors
  <2> QED BY <2>3, <2>4
<1>a. ASSUME RegTypeOK', UNCHANGED <<pc, fd, node>>,
             \/ UNCHANGED udp \/ udp' = [at |-> "idle"]
             \/ \E n \in Nodes : udp' \in {[at |-> l, node |-> n] : l \in {"store", "activate"}}
      PROVE  TypeOK' /\ Threads'
  BY <1>a DEF TypeOK, Threads
<1>b. udp.at # "idle" => udp.node \in Nodes
  BY DEF TypeOK
<1>11. ASSUME UdpThread PROVE Struct'
  <2>1. CASE UdpChallenge
    <3>1. RegTypeOK' /\ Descriptors'
      BY <2>1, <1>b, <1>s, <1>u DEF UdpChallenge, SetChallenge, Nonce
    <3> QED BY <2>1, <3>1, <1>a DEF UdpChallenge
  <2>2. CASE UdpActivate
    <3>1. RegTypeOK' /\ Descriptors'
      BY <2>2, <1>b, <1>s, <1>u DEF UdpActivate, activate
    <3> QED BY <2>2, <3>1, <1>a DEF UdpActivate
  <2>3. ASSUME NEW n \in Nodes, UdpRegister(n) PROVE Struct'
    <3>1. RegTypeOK'
      BY <2>3, RegisterType DEF UdpRegister, TypeOK
    <3>2. Descriptors'
      BY <2>3, <1>d, CloseType DEF UdpRegister, register, TypeOK
    <3> QED BY <2>3, <3>1, <3>2, <1>a DEF UdpRegister
  <2>4. ASSUME NEW n \in Nodes, UdpAuth(n) PROVE Struct'
    BY <2>4, <1>k, <1>a DEF UdpAuth
  <2>5. ASSUME NEW n \in Nodes, UdpPing(n) PROVE Struct'
    <3>1. RegTypeOK' /\ Descriptors'
      BY <2>5, <1>s, <1>u DEF UdpPing, heartbeat
    <3> QED BY <2>5, <3>1, <1>a DEF UdpPing
  <2> QED BY <1>11, <2>1, <2>2, <2>3, <2>4, <2>5 DEF UdpThread
<1>12. ASSUME Reap PROVE Struct'
  BY <1>12, <1>r, <1>a DEF Reap, reapExpired
<1>13. ASSUME NEW n \in Nodes, Time(n) PROVE Struct'
  <2>1. RegTypeOK' /\ Descriptors'
    BY <1>13, <1>s, <1>u DEF Time, Silence
  <2> QED BY <1>13, <2>1, <1>a DEF Time
<1>14. CASE UNCHANGED relayVars
  BY <1>14, <1>k, <1>a DEF relayVars
<1> QED
  BY <1>1, <1>2, <1>3, <1>4, <1>5, <1>6, <1>7, <1>8, <1>9, <1>10, <1>11, <1>12, <1>13, <1>14
  DEF Next, Thread

-----------------------------------------------------------------------------
(* Until a close hits the connection of another.                           *)

Owned == ~panicked /\ Sessions /\ Newcomers

LEMMA InitSound == Init => Sound
BY DEF Init, RegInit, Sound, Sessions, Newcomers, registered

\* A step that leaves sessions with their connections, and a thread on its
\* side of the registration, keeps what is owned.
LEMMA StayOwned ==
  ASSUME Struct, Owned, UNCHANGED <<table, panicked, fd, node>>,
         registered' = registered,
         \A n \in registered : sess'[n].fd = sess[n].fd /\ sess'[n].conn = sess[n].conn,
         \A c \in Conns : \/ pc'[c] = pc[c]
                          \/ pc[c] \in HasNode /\ pc'[c] \in HasNode
                          \/ pc[c] \notin HasNode /\ pc'[c] # "first"
  PROVE  Owned'
<1>1. \A c \in Conns, n \in registered : Owns(c, n) => Owns(c, n)'
  BY DEF Owns
<1>2. Sessions'
  BY <1>1 DEF Owned, Sessions
<1>3. Newcomers'
  BY DEF Owned, Newcomers, HasNode
<1> QED BY <1>2, <1>3 DEF Owned

\* So does the removal of sessions, with a thread that none of the others need.
LEMMA RemoveOwned ==
  ASSUME Struct, Owned, ~stray, NEW S \in SUBSET registered, Remove(S),
         UNCHANGED <<fd, node>>,
         \A c \in Conns : \/ pc'[c] = pc[c]
                          \/ /\ pc'[c] # "first"
                             /\ \A n \in registered \ S : ~Owns(c, n)
  PROVE  Owned' /\ ~stray'
<1>1. RegTypeOK /\ registered' = registered \ S
  BY RemoveType DEF Struct, TypeOK
<1>2. /\ ~stray' /\ ~panicked'
      /\ \A n \in registered \ S, c \in Conns :
           Owns(c, n) /\ sess[n].fd # None => table'[sess[n].fd] = c
      /\ \A c \in Conns, f \in Fds :
           table[f] = c /\ pc[c] \notin HasNode => table'[f] = c
  BY <1>1, CloseLemma DEF Remove, Owned
<1>3. \A n \in registered \ S : n \in Nodes /\ sess'[n] = sess[n]
  BY DEF Remove, registered
<1>4. Sessions'
  <2> SUFFICES ASSUME NEW n \in registered \ S, sess[n].fd # None
               PROVE  \E c \in Conns : Owns(c, n)'
    BY <1>1, <1>3 DEF Sessions, Owned
  <2>1. PICK c \in Conns : Owns(c, n)
    BY DEF Sessions, Owned
  <2>2. pc'[c] = pc[c] /\ table'[sess[n].fd] = c
    BY <1>2, <2>1
  <2> QED BY <1>3, <2>1, <2>2 DEF Owns
<1>5. Newcomers'
  BY <1>2 DEF Newcomers, Owned, Struct, Threads, TypeOK, HasNode
<1> QED BY <1>2, <1>4, <1>5 DEF Owned

\* And the registration of a node, by UDP or by a connection that is new.
LEMMA RegisterOwned ==
  ASSUME Struct, Owned, ~stray, NEW n \in Nodes, NEW f, NEW c, register(n, f, c),
         UNCHANGED fd,
         \/ f = None /\ c = None /\ UNCHANGED <<pc, node>>
         \/ /\ c \in Conns /\ pc[c] = "first" /\ fd[c] = f
            /\ Goto(c, "store") /\ node' = [node EXCEPT ![c] = n]
  PROVE  Owned' /\ ~stray'
<1> DEFINE S == {n} \cap registered
<1>0. f \in Fds \cup {None} /\ c \in Conns \cup {None} /\ (c = None \/ f \in Fds)
  BY DEF Struct, Threads, TypeOK
<1>1. /\ RegTypeOK /\ registered' = registered \cup {n}
      /\ sess'[n].fd = f /\ sess'[n].conn = c
  BY <1>0, RegisterType DEF Struct, TypeOK
<1>2. /\ ~stray' /\ ~panicked'
      /\ \A m \in registered \ S, d \in Conns :
           Owns(d, m) /\ sess[m].fd # None => table'[sess[m].fd] = d
      /\ \A d \in Conns, g \in Fds :
           table[g] = d /\ pc[d] \notin HasNode => table'[g] = d
  BY <1>1, CloseLemma DEF register, Owned
<1>3. \A m \in registered \ {n} : m \in Nodes /\ sess'[m] = sess[m]
  BY DEF register, registered
<1>4. \A m \in registered \ {n}, d \in Conns :
        sess[m].fd # None /\ Owns(d, m) => Owns(d, m)'
  BY <1>2, <1>3 DEF Owns, HasNode, Goto, Struct, TypeOK
<1>5. ASSUME f # None PROVE c \in Conns /\ Owns(c, n)'
  <2>1. /\ c \in Conns /\ pc[c] = "first" /\ fd[c] = f /\ fd'[c] = f
        /\ pc' = [pc EXCEPT ![c] = "store"] /\ node' = [node EXCEPT ![c] = n]
    BY <1>5 DEF Goto
  <2>2. f \in Fds /\ table[f] = c
    BY <1>0, <1>5, <2>1 DEF Owned, Newcomers
  <2>3. table'[f] = c
    BY <1>2, <2>1, <2>2 DEF HasNode
  <2>4. pc'[c] \in HasNode /\ node'[c] = n
    BY <2>1 DEF HasNode, Struct, TypeOK
  <2> QED BY <1>1, <2>1, <2>3, <2>4 DEF Owns
<1>6. Sessions'
  <2>1. f = None => c = None
    BY <1>0, RegistryAssumption DEF Struct, Threads
  <2>2. ASSUME NEW m \in registered \ {n}, sess[m].fd # None
        PROVE  \E d \in Conns : Owns(d, m)'
    BY <1>4, <2>2 DEF Sessions, Owned
  <2>3. \A m \in registered \ {n} : sess[m].fd = None => sess[m].conn = None
    BY DEF Sessions, Owned
  <2> QED BY <1>1, <1>3, <1>5, <2>1, <2>2, <2>3 DEF Sessions
<1>7. Newcomers'
  BY <1>2 DEF Newcomers, Owned, Struct, Threads, TypeOK, HasNode, Goto
<1> QED BY <1>2, <1>6, <1>7 DEF Owned

\* One step per action, or per group of actions of the same shape.
LEMMA NextSound == Struct /\ Sound /\ [Next]_relayVars => Sound'
<1> SUFFICES ASSUME Struct, Sound, [Next]_relayVars, ~stray' PROVE Owned'
  BY DEF Sound, Owned
<1>s. ASSUME ~stray PROVE Owned
  BY <1>s DEF Sound, Owned
<1>u. ASSUME ~stray, UNCHANGED regVars, UNCHANGED <<fd, node>>,
             \A c \in Conns : \/ pc'[c] = pc[c]
                              \/ pc[c] \in HasNode /\ pc'[c] \in HasNode
                              \/ pc[c] \notin HasNode /\ pc'[c] # "first"
      PROVE  Owned'
  BY <1>u, <1>s, StayOwned DEF regVars, registered
<1>v. ASSUME ~stray, NEW n \in Nodes, NEW s, Update(n, s), UNCHANGED <<fd, node>>,
             n \in registered => s \in Session /\ s.fd = sess[n].fd /\ s.conn = sess[n].conn,
             \A c \in Conns : \/ pc'[c] = pc[c]
                              \/ pc[c] \in HasNode /\ pc'[c] \in HasNode
      PROVE  Owned'
  <2>1. registered' = registered
    BY <1>v, UpdateType DEF Struct, TypeOK
  <2>2. \A m \in registered : sess'[m].fd = sess[m].fd /\ sess'[m].conn = sess[m].conn
    BY <1>v DEF Update, Struct, TypeOK, RegTypeOK, registered
  <2> QED BY <1>v, <1>s, <2>1, <2>2, StayOwned DEF Update
<1>w. \A n \in registered :
        /\ n \in Nodes
        /\ \A x \in Nonce : LET s == [sess[n] EXCEPT !.challenge = x] IN
             s \in Session /\ s.fd = sess[n].fd /\ s.conn = sess[n].conn
        /\ LET s == [sess[n] EXCEPT !.active = TRUE, !.challenge = None] IN
             s \in Session /\ s.fd = sess[n].fd /\ s.conn = sess[n].conn
        /\ \A b \in BOOLEAN : LET s == [sess[n] EXCEPT !.silent = b] IN
             s \in Session /\ s.fd = sess[n].fd /\ s.conn = sess[n].conn
  BY SessionLemma DEF Struct, TypeOK, Session
<1>p. pc \in [Conns -> Pc] /\ \A c \in Conns : pc[c] \in HasNode => node[c] \in Nodes
  BY DEF Struct, TypeOK, Threads
<1>q. ASSUME NEW c \in Conns, NEW l, Goto(c, l),
             \/ pc[c] \in HasNode /\ l \in HasNode
             \/ pc[c] \notin HasNode /\ l # "first"
      PROVE  \A d \in Conns : \/ pc'[d] = pc[d]
                              \/ pc[d] \in HasNode /\ pc'[d] \in HasNode
                              \/ pc[d] \notin HasNode /\ pc'[d] # "first"
  BY <1>p, <1>q DEF Goto
<1> USE DEF HasNode, At
<1>1. ASSUME NEW c \in Conns, Accept(c) PROVE Owned'
  <2>0. Owned
    BY <1>1, <1>s DEF Accept
  <2>1. PICK f \in Fds : /\ table[f] = None /\ table' = [table EXCEPT ![f] = c]
                        /\ fd' = [fd EXCEPT ![c] = f]
    BY <1>1 DEF Accept, LowestFree
  <2>2. \A n \in registered, d \in Conns : sess[n].fd # None /\ Owns(d, n) => Owns(d, n)'
    <3> SUFFICES ASSUME NEW n \in registered, NEW d \in Conns, sess[n].fd # None, Owns(d, n)
                 PROVE  Owns(d, n)'
      OBVIOUS
    <3>1. d # c /\ sess[n].fd # f
      BY <1>1, <2>1, RegistryAssumption DEF Accept, Owns
    <3> QED BY <1>1, <2>1, <3>1 DEF Accept, Owns, Goto, Struct, TypeOK, RegTypeOK
  <2>3. Sessions'
    BY <1>1, <2>0, <2>2 DEF Accept, Sessions, Owned, registered
  <2>4. Newcomers'
    BY <1>1, <2>0, <2>1, RegistryAssumption
    DEF Accept, Newcomers, Owned, Goto, Struct, TypeOK, RegTypeOK, Threads
  <2> QED BY <1>1, <2>0, <2>3, <2>4 DEF Accept, Owned
<1>2. ASSUME NEW c \in Conns,
             \/ AcceptWithoutThread(c) \/ ReadRegisterFails(c) \/ ReadAuthFails(c)
             \/ ReadAuth(c) \/ EndLoop(c)
      PROVE Owned'
  <2>1. UNCHANGED <<regVars, fd, node>> /\ ~stray
    BY <1>2 DEF AcceptWithoutThread, ReadRegisterFails, ReadAuthFails, ReadAuth, EndLoop, regVars
  <2>2. \A d \in Conns : \/ pc'[d] = pc[d]
                         \/ pc[d] \in HasNode /\ pc'[d] \in HasNode
                         \/ pc[d] \notin HasNode /\ pc'[d] # "first"
    BY <1>2, <1>q DEF AcceptWithoutThread, ReadRegisterFails, ReadAuthFails, ReadAuth, EndLoop
  <2> QED BY <1>u, <2>1, <2>2
<1>4. ASSUME NEW c \in Conns, ReadRegister(c) PROVE Owned'
  <2>1. PICK n \in Nodes : register(n, fd[c], c) /\ node' = [node EXCEPT ![c] = n]
    BY <1>4 DEF ReadRegister
  <2>2. ~stray
    BY <2>1 DEF register, closeSessionFd
  <2> QED BY <1>4, <1>s, <2>1, <2>2, RegisterOwned DEF ReadRegister
<1>5. ASSUME NEW c \in Conns, SendChallenge(c) PROVE Owned'
  <2>1. node[c] \in Nodes /\ ~stray
    BY <1>5, <1>p DEF SendChallenge, SetChallenge, Update
  <2>2. \A d \in Conns : pc'[d] = pc[d] \/ (pc[d] \in HasNode /\ pc'[d] \in HasNode)
    <3>1. /\ pc[c] = "store"
          /\ \E l \in {"auth", "fail"} : pc' = [pc EXCEPT ![c] = l]
      BY <1>5 DEF SendChallenge, Goto
    <3> QED BY <3>1, <1>p
  <2> QED BY <1>5, <2>1, <2>2, <1>v, <1>w DEF SendChallenge, SetChallenge, Nonce
<1>6. ASSUME NEW c \in Conns, Activate(c) PROVE Owned'
  <2>1. node[c] \in Nodes /\ ~stray
    BY <1>6, <1>p DEF Activate, activate, Update
  <2>2. \A d \in Conns : pc'[d] = pc[d] \/ (pc[d] \in HasNode /\ pc'[d] \in HasNode)
    <3>1. pc[c] = "activate" /\ pc' = [pc EXCEPT ![c] = "loop"]
      BY <1>6 DEF Activate, Goto
    <3> QED BY <3>1, <1>p
  <2> QED BY <1>6, <2>1, <2>2, <1>v, <1>w DEF Activate, activate
<1>7. ASSUME NEW c \in Conns, Refresh(c) PROVE Owned'
  <2>1. node[c] \in Nodes /\ ~stray
    BY <1>7, <1>p DEF Refresh, heartbeat, Update
  <2> QED BY <1>7, <2>1, <1>v, <1>w DEF Refresh, heartbeat
<1>8. ASSUME NEW c \in Conns, Fail(c) PROVE Owned'
  <2> DEFINE S == {node[c]} \cap registered
  <2>1. S \in SUBSET registered /\ Remove(S) /\ ~stray
    BY <1>8 DEF Fail, unregister, Remove, closeSessionFd
  <2>2. \A d \in Conns : \/ pc'[d] = pc[d]
                         \/ /\ pc'[d] # "first"
                            /\ \A n \in registered \ S : ~Owns(d, n)
    BY <1>8, <1>p DEF Fail, Goto, Owns
  <2> HIDE DEF S
  <2> QED BY <1>8, <1>s, <2>1, <2>2, RemoveOwned DEF Fail
<1>9. ASSUME NEW c \in Conns, Leave(c) PROVE Owned'
  <2>1. CASE node[c] \in registered /\ sess[node[c]].fd \in {None, fd[c]}
    <3> DEFINE S == {node[c]}
    <3>1. S \in SUBSET registered /\ Remove(S) /\ ~stray
      BY <1>9, <2>1 DEF Leave, unregisterIfFdMatches, Remove, closeSessionFd
    <3>2. \A d \in Conns : \/ pc'[d] = pc[d]
                           \/ /\ pc'[d] # "first"
                              /\ \A n \in registered \ S : ~Owns(d, n)
      BY <1>9, <1>p DEF Leave, Goto, Owns
    <3> HIDE DEF S
    <3> QED BY <1>9, <1>s, <3>1, <3>2, RemoveOwned DEF Leave
  <2>2. CASE ~(node[c] \in registered /\ sess[node[c]].fd \in {None, fd[c]})
    <3>1. UNCHANGED regVars /\ ~stray
      BY <1>9, <2>2 DEF Leave, unregisterIfFdMatches, regVars
    <3>2. \A d \in Conns : \/ pc'[d] = pc[d]
                           \/ /\ d = c /\ pc'[d] # "first"
                              /\ \A n \in registered : ~Owns(d, n)
      BY <1>9, <1>p, <2>2 DEF Leave, Goto, Owns
    <3>3. \A n \in registered, d \in Conns : Owns(d, n) => Owns(d, n)'
      BY <1>9, <3>1, <3>2 DEF Leave, Owns, regVars
    <3>4. Sessions'
      BY <1>s, <3>1, <3>3 DEF Sessions, Owned, regVars, registered
    <3>5. Newcomers'
      BY <1>9, <1>s, <3>1, <3>2 DEF Leave, Newcomers, Owned, regVars
    <3> QED BY <1>s, <3>1, <3>4, <3>5 DEF Owned, regVars
  <2> QED BY <2>1, <2>2
<1>10. ASSUME NEW c \in Conns, Close(c) PROVE Owned'
  <2>0. ~stray /\ Owned /\ table[fd[c]] \in {None, c} /\ fd[c] \in Fds
    BY <1>10, <1>s DEF Close, Struct, Threads, TypeOK
  <2>1. \A d \in Conns, f \in Fds :
          d # c /\ table[f] = d => f # fd[c] /\ table'[f] = d
    BY <1>10, <2>0, RegistryAssumption DEF Close, Struct, TypeOK, RegTypeOK
  <2>2. \A n \in registered, d \in Conns : sess[n].fd # None /\ Owns(d, n) => Owns(d, n)'
    <3> SUFFICES ASSUME NEW n \in registered, NEW d \in Conns, sess[n].fd # None, Owns(d, n)
                 PROVE  Owns(d, n)'
      OBVIOUS
    <3>1. d # c /\ sess[n].fd \in Fds
      BY <1>10, SessionLemma DEF Close, Owns, Session, Struct, TypeOK
    <3> QED BY <1>10, <2>1, <3>1 DEF Close, Owns, Goto, Struct, TypeOK
  <2>3. Sessions'
    BY <1>10, <2>0, <2>2 DEF Close, Sessions, Owned, registered
  <2>4. Newcomers'
    BY <1>10, <2>0, <2>1 DEF Close, Newcomers, Owned, Goto, Struct, TypeOK, Threads
  <2> QED BY <1>10, <2>0, <2>3, <2>4 DEF Close, Owned
<1>b. udp.at # "idle" => udp.node \in Nodes
  BY DEF Struct, TypeOK
<1>11. ASSUME UdpThread PROVE Owned'
  <2>1. CASE UdpChallenge
    <3>1. ~stray
      BY <2>1 DEF UdpChallenge, SetChallenge, Update
    <3> QED BY <2>1, <3>1, <1>b, <1>v, <1>w DEF UdpChallenge, SetChallenge, Nonce
  <2>2. CASE UdpActivate
    <3>1. ~stray
      BY <2>2 DEF UdpActivate, activate, Update
    <3> QED BY <2>2, <3>1, <1>b, <1>v, <1>w DEF UdpActivate, activate
  <2>3. ASSUME NEW n \in Nodes, UdpRegister(n) PROVE Owned'
    <3>1. ~stray
      BY <2>3 DEF UdpRegister, register, closeSessionFd
    <3> QED BY <2>3, <3>1, <1>s, RegisterOwned DEF UdpRegister
  <2>4. ASSUME NEW n \in Nodes, UdpAuth(n) PROVE Owned'
    BY <2>4, <1>u DEF UdpAuth, regVars
  <2>5. ASSUME NEW n \in Nodes, UdpPing(n) PROVE Owned'
    <3>1. ~stray
      BY <2>5 DEF UdpPing, heartbeat, Update
    <3> QED BY <2>5, <3>1, <1>v, <1>w DEF UdpPing, heartbeat
  <2> QED BY <1>11, <2>1, <2>2, <2>3, <2>4, <2>5 DEF UdpThread
<1>12. ASSUME Reap PROVE Owned'
  <2> DEFINE S == {n \in registered : sess[n].silent}
  <2>1. S \in SUBSET registered /\ Remove(S) /\ ~stray
    BY <1>12 DEF Reap, reapExpired, Remove, closeSessionFd
  <2> HIDE DEF S
  <2> QED BY <1>12, <1>s, <2>1, RemoveOwned DEF Reap
<1>13. ASSUME NEW n \in Nodes, Time(n) PROVE Owned'
  <2>1. ~stray
    BY <1>13 DEF Time, Silence, Update
  <2> QED BY <1>13, <2>1, <1>v, <1>w DEF Time, Silence
<1>14. CASE UNCHANGED relayVars
  BY <1>14, <1>u DEF relayVars, regVars
<1> QED
  BY <1>1, <1>2, <1>4, <1>5, <1>6, <1>7, <1>8, <1>9, <1>10, <1>11, <1>12, <1>13, <1>14
  DEF Next, Thread

-----------------------------------------------------------------------------
(* The theorems.                                                           *)

THEOREM Invariance == Spec => []Inv
<1>1. Init => Inv
  BY InitStruct, InitSound DEF Inv
<1>2. Inv /\ [Next]_relayVars => Inv'
  BY NextStruct, NextSound DEF Inv
<1> QED BY <1>1, <1>2, PTL DEF Spec

\* The types, among them that there are never more sessions than the limit.
THEOREM TypeCorrect == Spec => []TypeOK
<1>1. Inv => TypeOK
  BY DEF Inv, Struct
<1> QED BY <1>1, Invariance, PTL

\* Until a close hits the connection of another, each session has the open
\* descriptor of the connection that registered it, and nothing panics.
THEOREM SocketsOwned == Spec => []SessionsOwnTheirSockets
<1>1. Inv => SessionsOwnTheirSockets
  BY DEF Inv, Sound, Sessions, Owns, SessionsOwnTheirSockets
<1> QED BY <1>1, Invariance, PTL

\* Until then the session of a connection is gone when its thread closes it.
THEOREM SessionsGo == Spec => []SessionsEndWithTheirThread
<1>1. Inv => SessionsEndWithTheirThread
  BY DEF Inv, Sound, Sessions, Owns, HasNode, SessionsEndWithTheirThread
<1> QED BY <1>1, Invariance, PTL

\* Whatever is closed when, an open descriptor has a thread that will close it.
THEOREM DescriptorsGiven == Spec => []DescriptorsReturn
<1>1. Inv => DescriptorsReturn
  BY RegistryAssumption
  DEF Inv, Struct, TypeOK, RegTypeOK, Threads, Descriptors, DescriptorsReturn
<1> QED BY <1>1, Invariance, PTL
=============================================================================
