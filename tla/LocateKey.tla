------------------------------ MODULE LocateKey ------------------------------
(***************************************************************************)
(* ChordNode.locateKey of src/p2p/chord/node.zig and the find_successor    *)
(* handler it calls, on a ring whose successors are right.  The content    *)
(* plugin alone looks keys up in this way; a plugin's own dht_get and      *)
(* dht_put ask the node of the local estimate.                             *)
(*                                                                         *)
(* Fingers are local estimates and may be old: a finger holds any node,    *)
(* one that has left included, or none, and another one the next time it   *)
(* is read.  The asked node answers itself when the key lies before its    *)
(* successor, and otherwise forwards the query.  An answer goes back along *)
(* the chain of forwards as it is.  A forward that fails at once falls     *)
(* back to the node's own estimate; one that gets no answer outlasts the   *)
(* wait of the asker, whose lookup ends with an error.  Answers carry      *)
(* neither the key nor the query: a wait takes the next one that comes,    *)
(* which may be a late answer of another lookup.                           *)
(***************************************************************************)
EXTENDS Routing, FiniteSets

CONSTANTS
  Universe,   \* the identifiers a node may have
  Keys,       \* the keys looked up
  MaxHops     \* 8 in the program

ASSUME UniverseAssumption == Universe \subseteq NodeId /\ Keys \subseteq NodeId /\ MaxHops \in Nat

VARIABLES
  members,   \* the nodes of the ring; the rest of Universe have left it
  key,
  asker,     \* the node that runs locateKey
  current,   \* the node that is asked
  handler,   \* the last node that the query has been forwarded to
  answer,    \* the latest answer, NoAddr before the first
  hops,
  done,      \* "no", "found", "TooManyHops" or "Timeout"
  foreign    \* history: an answer of another lookup has been taken

lookupVars == <<members, key, asker, current, handler, answer, hops, done, foreign>>

Addrs == {SelfAddr(n) : n \in Universe}

\* The member that owns id: the first at or after it.
Owner(id) == CHOOSE n \in members : \A m \in members : distance(id, n) <= distance(id, m)

Successor(n) == SelfAddr(Owner((n + 1) % RingSize))

\* The tables a member may have.
TablesOf(n) ==
  {[InitTable(n) EXCEPT !.succ = Successor(n), !.fingers = f] : f \in [FingerIdx -> Addrs \cup {NoAddr}]}

\* can_direct: the key lies before the successor, which is another node.
CanDirect(n, id) == Successor(n).id # n /\ between(id, n, Successor(n).id)

\* The answers n may give without a forward.
Estimates(n) == {findSuccessor(n, t, key) : t \in TablesOf(n)}

LookupInit ==
  /\ members \in SUBSET Universe \ {{}}
  /\ key \in Keys
  /\ asker \in members
  /\ current \in Estimates(asker) /\ handler = current.id
  /\ answer = NoAddr
  /\ hops = 0
  /\ done = "no"
  /\ foreign = FALSE

\* Mutant: any answer is final.
FirstAnswerWins(asked, a) == TRUE

\* Mutant: an asked node that names itself is not believed.
AuthoritativeByInterval(asked, a) == between(key, asked.id, a.id)

\* The answer is final if the asked node names itself or its interval holds
\* the key.
Authoritative(asked, a) == a.id = asked.id \/ between(key, asked.id, a.id)

\* The handler passes the query on. A node that asks itself does not.
Forward ==
  /\ done = "no" /\ hops < MaxHops
  /\ current.id # asker /\ handler \in members
  /\ ~CanDirect(handler, key)
  /\ \E e \in Estimates(handler) : e.id # handler /\ handler' = e.id
  /\ UNCHANGED <<members, key, asker, current, answer, hops, done, foreign>>

Takes(a) ==
  /\ done = "no" /\ hops < MaxHops
  /\ answer' = a
  /\ IF Authoritative(current, a)
     THEN done' = "found" /\ UNCHANGED <<current, handler, hops>>
     ELSE current' = a /\ handler' = a.id /\ hops' = hops + 1 /\ UNCHANGED done
  /\ UNCHANGED <<members, key, asker>>

\* The handler answers, for it need not forward or its forward failed at
\* once, and the answer comes back in time.
Hop ==
  /\ handler \in members
  /\ \E a \in Estimates(handler) : Takes(a)
  /\ UNCHANGED foreign

\* The asker, or a node that waits for its forward, takes an answer of
\* another lookup.
ForeignHop ==
  /\ current.id # asker
  /\ \E a \in Addrs : Takes(a)
  /\ foreign' = TRUE

\* No answer comes within five seconds: a node asked, or one of the chain,
\* is gone, the query or an answer is lost, or a forward waits for its six
\* seconds.
LookupTimesOut ==
  /\ done = "no" /\ hops < MaxHops
  /\ current.id # asker
  /\ done' = "Timeout"
  /\ UNCHANGED <<members, key, asker, current, handler, answer, hops, foreign>>

GiveUp ==
  /\ done = "no" /\ hops = MaxHops
  /\ done' = "TooManyHops"
  /\ UNCHANGED <<members, key, asker, current, handler, answer, hops, foreign>>

LookupNext == Forward \/ Hop \/ ForeignHop \/ LookupTimesOut \/ GiveUp

LookupSpec == LookupInit /\ [][LookupNext]_lookupVars

-----------------------------------------------------------------------------
(* Properties.                                                             *)

LookupTypeOK ==
  /\ members \subseteq Universe /\ members # {}
  /\ handler \in Universe /\ key \in NodeId /\ asker \in members
  /\ current \in Addrs /\ answer \in Addrs \cup {NoAddr}
  /\ hops \in 0 .. MaxHops /\ done \in {"no", "found", "TooManyHops", "Timeout"}
  /\ foreign \in BOOLEAN

\* Whatever the fingers hold, whichever forwards fail and whichever nodes
\* have left, locateKey returns no node but the owner of the key, as long as
\* it has taken no answer of another lookup.
FindsTheOwner == done = "found" /\ ~foreign => answer.id = Owner(key)

\* The hop limit ends no lookup on a ring of at most MaxHops members,
\* whatever the fingers hold and whichever forwards fail, unless an answer of
\* another lookup led it astray.  With one member more it may.
HopsSuffice == done = "TooManyHops" /\ ~foreign => Cardinality(members) > MaxHops
=============================================================================
