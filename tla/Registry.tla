------------------------------ MODULE Registry ------------------------------
(***************************************************************************)
(* The sessions of the relay server (src/relay/registry.zig) and the table *)
(* of open descriptors they point into.                                    *)
(*                                                                         *)
(* A descriptor is a number: once closed it is given to the next accepted  *)
(* connection, and a close hits whoever has it then.  Each operator is one *)
(* critical section of Registry.mutex.  Addresses, keys and the counters   *)
(* of the rate limit are left out.                                         *)
(***************************************************************************)
EXTENDS Naturals, FiniteSets

CONSTANTS
  Nodes,        \* the nodes that may have a session
  Conns,        \* the TCP connections made to the server, each of them once
  Fds,          \* the numbers accept may return, enough for all connections
  MaxSessions,  \* max_sessions
  Udp,          \* the UDP socket, as what a challenge was sent to
  None

ASSUME RegistryAssumption ==
  /\ IsFiniteSet(Nodes) /\ Fds \subseteq Nat /\ MaxSessions \in Nat
  /\ Udp \notin Conns /\ None \notin Conns \cup Fds \cup Nodes \cup {Udp}

Nonce   == Conns \cup {Udp}  \* a challenge, named after where it was sent
Session == [fd : Fds \cup {None}, conn : Conns \cup {None}, active : BOOLEAN,
            challenge : Nonce \cup {None}, silent : BOOLEAN]

ASSUME SessionAssumption == None \notin Session

VARIABLES
  sess,    \* sessions; conn, the connection that registered, is history
  table,   \* the connection behind each descriptor
  stray,   \* history: a close has hit the connection of another
  panicked \* posix.close has met a descriptor that is not open

regVars == <<sess, table, stray, panicked>>

RegTypeOK ==
  /\ sess \in [Nodes -> Session \cup {None}]
  /\ table \in [Fds -> Conns \cup {None}]
  /\ stray \in BOOLEAN /\ panicked \in BOOLEAN
  /\ Cardinality({n \in Nodes : sess[n] # None}) <= MaxSessions

RegInit ==
  /\ sess = [n \in Nodes |-> None]
  /\ table = [f \in Fds |-> None]
  /\ stray = FALSE /\ panicked = FALSE

registered == {n \in Nodes : sess[n] # None}

\* closeSessionFd for the sessions of S.  A number that is not open makes
\* posix.close reach its unreachable: the build panics or goes on.
closeSessionFd(S) ==
  LET tcp == {n \in S : sess[n].fd # None} IN
  /\ table' = [f \in Fds |->
                 IF \E n \in tcp : sess[n].fd = f THEN None ELSE table[f]]
  /\ stray' = (stray \/ \E n \in tcp :
                          table[sess[n].fd] \notin {None, sess[n].conn})
  /\ IF \/ \E n \in tcp : table[sess[n].fd] = None
        \/ \E n, m \in tcp : n # m /\ sess[n].fd = sess[m].fd
     THEN panicked' \in BOOLEAN
     ELSE UNCHANGED panicked

Remove(S) ==
  /\ closeSessionFd(S)
  /\ sess' = [n \in Nodes |-> IF n \in S THEN None ELSE sess[n]]

SessionLimitReached == Cardinality(registered) >= MaxSessions

\* Mutant: a replaced session keeps the descriptor it had.
registerKeepsFd(n, f, c) ==
  /\ ~SessionLimitReached
  /\ closeSessionFd({n} \cap registered)
  /\ sess' = [sess EXCEPT
       ![n] = [fd |-> IF n \in registered THEN sess[n].fd ELSE f, conn |-> c,
               active |-> FALSE, challenge |-> None, silent |-> FALSE]]

\* register, of connection c with descriptor f, or of UDP with None for both.
\* The limit is tested before the session that would be replaced is looked up.
register(n, f, c) ==
  /\ ~SessionLimitReached
  /\ closeSessionFd({n} \cap registered)
  /\ sess' = [sess EXCEPT
       ![n] = [fd |-> f, conn |-> c, active |-> FALSE, challenge |-> None,
               silent |-> FALSE]]

Update(n, s) ==
  /\ sess' = IF n \in registered THEN [sess EXCEPT ![n] = s] ELSE sess
  /\ UNCHANGED <<table, stray, panicked>>

activate(n)  == Update(n, [sess[n] EXCEPT !.active = TRUE, !.challenge = None])
heartbeat(n) == Update(n, [sess[n] EXCEPT !.silent = FALSE])

\* get, and the store through the pointer it returns.
SetChallenge(n, who) == Update(n, [sess[n] EXCEPT !.challenge = who])

unregister(n) == Remove({n} \cap registered)

\* A session without a descriptor matches every number.
unregisterIfFdMatches(n, f) ==
  IF n \in registered /\ sess[n].fd \in {None, f}
  THEN Remove({n})
  ELSE UNCHANGED regVars

reapExpired == Remove({n \in registered : sess[n].silent})

\* heartbeat_timeout_ms passes without a heartbeat of n.
Silence(n) ==
  /\ n \in registered
  /\ Update(n, [sess[n] EXCEPT !.silent = TRUE])
=============================================================================
