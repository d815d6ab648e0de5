---------------------------- MODULE RelayAdapter ----------------------------
(***************************************************************************)
(* A node's connection to an encrypted relay server                        *)
(* (src/p2p/encrypted_relay_adapter.zig over src/relay/client.zig): the    *)
(* main thread and plugin threads send requests and wait for the answer in *)
(* one shared slot; one reader thread fills it, hands what other nodes ask *)
(* to the Chord node, and repairs the connection.                          *)
(*                                                                         *)
(* The relay server is the environment: a connection may break at any      *)
(* moment, answers come late, never, or together with other frames: a read *)
(* takes what has arrived for one frame.  A break that nobody is told of   *)
(* is one, too, since the reader gives up a connection that is silent.     *)
(* Only TCP connections are modelled.  The contents of requests, waiting   *)
(* times and the counters that only the log shows are left out.            *)
(***************************************************************************)
EXTENDS Naturals, Sequences

CONSTANTS
  Requesters,    \* the threads that call sendRequest
  Main,          \* the main thread, one of them
  Reader,
  None,
  Relays,        \* config.relays.len
  Threshold,     \* relay_switch_threshold
  MaxAsks,       \* how often approval is asked for, 3 in the program
  MaxRequests, MaxInbox  \* bounds of the instance

ASSUME AdapterAssumption ==
  /\ Main \in Requesters /\ Reader \notin Requesters
  /\ None \notin Requesters \cup {Reader}
  /\ Relays \in Nat \ {0} /\ Threshold \in Nat \ {0} /\ MaxAsks \in Nat
  /\ MaxRequests \in Nat /\ MaxInbox \in Nat

VARIABLES
  conn,         \* the connection behind client.fd
  inbox,        \* the frames that have arrived on it
  outstanding,  \* the requests that are on their way or being answered
  connected, index, attempts, exhausted,   \* the fields of these names
  connectLock, requestLock,
  pending,      \* the slot, with the number of the request it answers
  pc,
  held,         \* the answer that the reader is about to store
  stale,        \* the reader is in a read of an earlier connection, or counts its silence
  asks,         \* relay_service_req sent
  approvals,    \* relay_service_resp not yet handled
  sent,         \* the number of requests so far
  num,          \* the number of the request that a thread makes
  loaded,       \* attempts, as a request that has timed out has read it
  late          \* history: a request has ended without its answer

connVars  == <<conn, inbox, outstanding>>
relayVars == <<connected, index, attempts, exhausted>>
lockVars  == <<connectLock, requestLock>>
slotVars  == <<pending, held, sent, num, late, loaded>>
askVars   == <<asks, approvals>>
vars == <<connVars, relayVars, lockVars, slotVars, askVars, pc, stale>>

Threads == Requesters \cup {Reader}

\* open: the handshake has not ended; spoiled: a part of it has been taken by
\* a thread it was not for, or a frame of such a thread is in it.
Conn == {"none", "open", "spoiled", "registered", "broken"}

Frame == [kind : {"answer", "request", "control"}, of : 0..MaxRequests]

TypeOK ==
  /\ conn \in Conn /\ inbox \in Seq(Frame) /\ outstanding \subseteq 1..MaxRequests
  /\ connected \in BOOLEAN /\ index \in 0..Relays /\ exhausted \in BOOLEAN
  /\ attempts \in Nat
  /\ connectLock \in Threads \cup {None} /\ requestLock \in Requesters \cup {None}
  /\ pending \in [active : BOOLEAN, ready : BOOLEAN, of : 0..MaxRequests]
  /\ pc[Reader] \in {"read", "store", "inject", "fail", "lock", "connect", "register", "done"}
  /\ \A t \in Requesters :
       pc[t] \in {"idle", "mutex", "ensure", "lock", "connect", "register",
                  "arm", "send", "wait", "count"}
  /\ held \in 0..MaxRequests /\ stale \in BOOLEAN
  /\ asks \in 0..MaxAsks /\ approvals \in 0..MaxAsks
  /\ sent \in 0..MaxRequests /\ num \in [Requesters -> 0..MaxRequests] /\ late \in BOOLEAN
  /\ loaded \in Nat

\* connect, in main: it may fail at once or in the handshake.
Init ==
  /\ conn \in {"none", "open", "registered"} /\ connected = (conn = "registered")
  /\ inbox = <<>> /\ outstanding = {}
  /\ index = 0 /\ attempts = 0 /\ exhausted = FALSE
  /\ connectLock = None /\ requestLock = None
  /\ pending = [active |-> FALSE, ready |-> FALSE, of |-> 0]
  /\ pc = [t \in Threads |-> IF t = Reader THEN "read" ELSE "idle"]
  /\ held = 0 /\ stale = FALSE /\ asks = 0 /\ approvals = 0
  /\ sent = 0 /\ num = [t \in Requesters |-> 0] /\ late = FALSE /\ loaded = 0

At(t, l)   == pc[t] = l
Goto(t, l) == pc' = [pc EXCEPT ![t] = l]

-----------------------------------------------------------------------------
(* Connecting, by the reader or by a request *)

\* Where a thread goes when it holds connectLock no more.
Connected(t) == Goto(t, IF t = Reader THEN "read" ELSE "arm")
GivenUp(t) ==
  IF t = Reader THEN Goto(t, "read") /\ UNCHANGED requestLock
  ELSE Goto(t, "idle") /\ requestLock' = None

\* connectTo closes the descriptor, also under a read of it.
Replaced == stale' \in IF At(Reader, "read") THEN {stale, TRUE} ELSE {FALSE}

\* Mutant: the flag is not tested again under the lock.
LockConnectUntested(t) ==
  /\ At(t, "lock") /\ connectLock = None
  /\ IF exhausted /\ t # Reader THEN GivenUp(t) /\ UNCHANGED connectLock
     ELSE connectLock' = t /\ Goto(t, "connect") /\ UNCHANGED requestLock
  /\ UNCHANGED <<connVars, relayVars, slotVars, askVars, stale>>

\* Another thread may have connected meanwhile.
LockConnect(t) ==
  /\ At(t, "lock") /\ connectLock = None
  /\ IF connected THEN Connected(t) /\ UNCHANGED lockVars
     ELSE IF exhausted /\ t # Reader THEN GivenUp(t) /\ UNCHANGED connectLock
     ELSE connectLock' = t /\ Goto(t, "connect") /\ UNCHANGED requestLock
  /\ UNCHANGED <<connVars, relayVars, slotVars, askVars, stale>>

connectTo(t) ==
  /\ At(t, "connect") /\ index < Relays
  /\ conn' = "open" /\ inbox' = <<>> /\ Replaced
  /\ Goto(t, "register")
  /\ UNCHANGED <<outstanding, relayVars, lockVars, slotVars, askVars>>

\* Mutant: the error leaves the lock locked.
connectToFailsLocked(t) ==
  /\ At(t, "connect")
  /\ IF index < Relays THEN conn' = "none" /\ inbox' = <<>> /\ Replaced
     ELSE UNCHANGED <<conn, inbox, stale>>
  /\ GivenUp(t) /\ UNCHANGED connectLock
  /\ UNCHANGED <<outstanding, relayVars, slotVars, askVars>>

\* The reader may have used up the relays since exhausted was tested.
connectToFails(t) ==
  /\ At(t, "connect")
  /\ IF index < Relays THEN conn' = "none" /\ inbox' = <<>> /\ Replaced
     ELSE UNCHANGED <<conn, inbox, stale>>
  /\ GivenUp(t) /\ connectLock' = None
  /\ UNCHANGED <<outstanding, relayVars, slotVars, askVars>>

register(t) ==
  /\ At(t, "register") /\ conn = "open"
  /\ conn' = "registered" /\ connected' = TRUE
  /\ Connected(t) /\ connectLock' = None
  /\ UNCHANGED <<inbox, outstanding, index, attempts, exhausted, requestLock, slotVars,
                 askVars, stale>>

\* The connection stays as it is.
registerFails(t) ==
  /\ At(t, "register") /\ conn \in {"open", "broken"}
  /\ GivenUp(t) /\ connectLock' = None
  /\ UNCHANGED <<connVars, relayVars, slotVars, askVars, stale>>

\* The reader has set its timeout on the same descriptor.
registerTimesOut(t) ==
  /\ At(t, "register") /\ conn = "spoiled"
  /\ GivenUp(t) /\ connectLock' = None
  /\ UNCHANGED <<connVars, relayVars, slotVars, askVars, stale>>

Connecting(t) ==
  LockConnect(t) \/ connectTo(t) \/ connectToFails(t) \/ register(t) \/ registerFails(t)

-----------------------------------------------------------------------------
(* sendRequest *)

Start(t) ==
  /\ At(t, "idle") /\ Goto(t, "mutex")
  /\ sent < MaxRequests
  /\ sent' = sent + 1 /\ num' = [num EXCEPT ![t] = sent + 1]
  /\ UNCHANGED <<connVars, relayVars, lockVars, pending, held, late, loaded, askVars, stale>>

LockRequest(t) ==
  /\ At(t, "mutex") /\ requestLock = None
  /\ requestLock' = t /\ Goto(t, "ensure")
  /\ UNCHANGED <<connVars, relayVars, connectLock, slotVars, askVars, stale>>

ensureConnected(t) ==
  /\ At(t, "ensure")
  /\ Goto(t, IF connected THEN "arm" ELSE "lock")
  /\ UNCHANGED <<connVars, relayVars, lockVars, slotVars, askVars, stale>>

Arm(t) ==
  /\ At(t, "arm")
  /\ pending' = [pending EXCEPT !.active = TRUE, !.ready = FALSE]
  /\ Goto(t, "send")
  /\ UNCHANGED <<connVars, relayVars, lockVars, held, sent, num, late, loaded, askVars, stale>>

Return(t) ==
  /\ Goto(t, "idle") /\ requestLock' = None

\* The write goes to whatever client.fd is by now; it may get lost on a broken
\* connection, and spoils the handshake of the reader.
Send(t) ==
  /\ At(t, "send") /\ conn # "none"
  /\ outstanding' = IF conn = "registered" THEN outstanding \cup {num[t]} ELSE outstanding
  /\ conn' = IF conn = "open" THEN "spoiled" ELSE conn
  /\ Goto(t, "wait")
  /\ UNCHANGED <<inbox, relayVars, lockVars, slotVars, askVars, stale>>

SendFails(t) ==
  /\ At(t, "send") /\ conn \in {"none", "broken"}
  /\ pending' = [pending EXCEPT !.active = FALSE]
  /\ Return(t)
  /\ UNCHANGED <<connVars, relayVars, connectLock, held, sent, num, late, loaded, askVars, stale>>

Receive(t) ==
  /\ At(t, "wait") /\ pending.ready
  /\ pending' = [pending EXCEPT !.active = FALSE, !.ready = FALSE]
  /\ Return(t)
  /\ UNCHANGED <<connVars, relayVars, connectLock, held, sent, num, late, loaded, askVars, stale>>

Timeout(t) ==
  /\ At(t, "wait") /\ Goto(t, "count")
  /\ loaded' = attempts /\ late' = TRUE
  /\ UNCHANGED <<connVars, relayVars, lockVars, pending, held, sent, num, askVars, stale>>

\* The counter is not protected: a switch since it was read is undone, and the
\* reader may store a count that it began before this one.
Count(t) ==
  /\ At(t, "count")
  /\ attempts' \in {loaded + 1} \cup (IF At(Reader, "fail") THEN {attempts} ELSE {})
  /\ pending' = [pending EXCEPT !.active = FALSE]
  /\ Return(t)
  /\ UNCHANGED <<connVars, connected, index, exhausted, connectLock, held, sent, num, late,
                 loaded, askVars, stale>>

Requesting(t) ==
  \/ LockRequest(t) \/ ensureConnected(t) \/ Connecting(t) \/ Arm(t)
  \/ Send(t) \/ SendFails(t) \/ Receive(t) \/ Timeout(t) \/ Count(t)

-----------------------------------------------------------------------------
(* The reader *)

\* What has arrived by now: k frames, of which the first decides.
Take(k) ==
  /\ At(Reader, "read") /\ ~stale /\ conn \in {"registered", "broken"}
  /\ inbox' = SubSeq(inbox, k + 1, Len(inbox))
  /\ UNCHANGED <<conn, outstanding, relayVars, lockVars, pending, sent, num, late, loaded,
                 askVars, stale>>

ReadControl(k) ==
  /\ Take(k) /\ Head(inbox).kind = "control"
  /\ UNCHANGED <<held, pc>>

\* Mutant: whatever comes while a request waits is its answer.
ReadAnyAnswer(k) ==
  /\ Take(k) /\ Head(inbox).kind # "control" /\ pending.active
  /\ held' = Head(inbox).of /\ Goto(Reader, "store")

\* While a request waits, a frame of a response type is its answer.
ReadAnswer(k) ==
  /\ Take(k) /\ Head(inbox).kind = "answer" /\ pending.active
  /\ held' = Head(inbox).of /\ Goto(Reader, "store")

\* By now the request may have ended, and another one begun.
Store ==
  /\ At(Reader, "store")
  /\ pending' = [pending EXCEPT !.ready = TRUE, !.of = held]
  /\ held' = 0 /\ Goto(Reader, "read")
  /\ UNCHANGED <<connVars, relayVars, lockVars, sent, num, late, loaded, askVars, stale>>

ReadOther(k) ==
  /\ Take(k)
  /\ Head(inbox).kind = "request" \/ (Head(inbox).kind = "answer" /\ ~pending.active)
  /\ Goto(Reader, "inject") /\ UNCHANGED held

\* The Chord node has answered, or not within five seconds.
injectFromRelay ==
  /\ At(Reader, "inject") /\ Goto(Reader, "read")
  /\ UNCHANGED <<connVars, relayVars, lockVars, slotVars, askVars, stale>>

\* The read of an earlier connection ends without an error.
ReadStale ==
  /\ At(Reader, "read") /\ stale
  /\ stale' = FALSE
  /\ UNCHANGED <<connVars, relayVars, lockVars, slotVars, askVars, pc>>

\* The reader also reads a connection that another thread is registering, takes
\* the challenge or sends a PING in between.
Spoil ==
  /\ At(Reader, "read") /\ conn = "open" /\ connectLock # None
  /\ conn' = "spoiled"
  /\ UNCHANGED <<inbox, outstanding, relayVars, lockVars, slotVars, askVars, pc, stale>>

\* The end of the connection, an error, or ten seconds of silence.
ReadFails ==
  /\ At(Reader, "read") /\ (stale \/ conn # "registered")
  /\ stale' = FALSE /\ Goto(Reader, "fail")
  /\ UNCHANGED <<connVars, relayVars, lockVars, slotVars, askVars>>

\* The backoff follows. Nothing ever makes attempts smaller but a switch.
Fail ==
  /\ At(Reader, "fail")
  /\ connected' = FALSE
  /\ IF attempts + 1 < Threshold
     THEN attempts' = attempts + 1 /\ UNCHANGED <<index, exhausted>>
     ELSE attempts' = 0 /\ index' = index + 1 /\ exhausted' = (index + 1 >= Relays)
  /\ Goto(Reader, IF exhausted' THEN "done" ELSE "lock")
  /\ UNCHANGED <<connVars, lockVars, slotVars, askVars, stale>>

Reading ==
  \/ \E k \in 1..Len(inbox) : ReadControl(k) \/ ReadAnswer(k) \/ ReadOther(k)
  \/ Store \/ injectFromRelay \/ ReadStale \/ ReadFails \/ Fail
  \/ Connecting(Reader)

-----------------------------------------------------------------------------
(* The approval of the relay service, which the main thread asks for *)

Ask ==
  /\ At(Main, "idle") /\ exhausted /\ asks < MaxAsks
  /\ asks' = asks + 1 /\ approvals' = approvals + 1
  /\ UNCHANGED <<connVars, relayVars, lockVars, slotVars, pc, stale>>

resetExhausted ==
  /\ At(Main, "idle") /\ approvals > 0
  /\ approvals' = approvals - 1
  /\ exhausted' = FALSE /\ index' = 0 /\ attempts' = 0 /\ connected' = FALSE
  /\ UNCHANGED <<connVars, lockVars, slotVars, asks, pc, stale>>

-----------------------------------------------------------------------------
(* The relay server and the other nodes *)

Arrives(f) ==
  /\ conn = "registered" /\ Len(inbox) < MaxInbox
  /\ inbox' = Append(inbox, f)
  /\ UNCHANGED <<conn, relayVars, lockVars, slotVars, askVars, pc, stale>>

Answer ==
  \E r \in outstanding :
    Arrives([kind |-> "answer", of |-> r]) /\ outstanding' = outstanding \ {r}

Other ==
  \E kind \in {"request", "control"} :
    Arrives([kind |-> kind, of |-> 0]) /\ UNCHANGED outstanding

Break ==
  /\ conn \in {"open", "spoiled", "registered"}
  /\ conn' = "broken"
  /\ UNCHANGED <<inbox, outstanding, relayVars, lockVars, slotVars, askVars, pc, stale>>

Next ==
  \/ \E t \in Requesters : Start(t) \/ Requesting(t)
  \/ \E t \in Threads : registerTimesOut(t)
  \/ Reading \/ Spoil \/ Ask \/ resetExhausted
  \/ Answer \/ Other \/ Break

\* A thread reads in the handshake or writes: both wait for the relay server,
\* and neither has a timeout.
AwaitsRelay(t) == At(t, "register") \/ (At(t, "send") /\ conn # "none")

\* Threads are scheduled, and the kernel ends an attempt to connect. Nothing
\* ends a wait for the server.
Fairness ==
  /\ \A t \in Requesters : WF_vars(Requesting(t) /\ ~AwaitsRelay(t))
  /\ WF_vars(Reading /\ ~AwaitsRelay(Reader))

Spec == Init /\ [][Next]_vars /\ Fairness

-----------------------------------------------------------------------------
(* Properties *)

\* request_mutex: the slot carries no number, but as long as every request got
\* its answer in time, the answer in the slot is the one that is waited for,
\* whatever connections break and whatever other nodes ask meanwhile.
OnlyOwnAnswers ==
  ~late /\ pending.active /\ pending.ready =>
    requestLock # None /\ pending.of = num[requestLock]

\* connect_mutex: the connection that counts as connected is one that went
\* through the whole handshake, although reader, requests and resets all
\* connect and disconnect it.
ConnectedIsRegistered == connected => conn \in {"registered", "broken"}

\* A request ends, whatever becomes of relays, connections and the reader,
\* unless some thread waits for the relay server for ever: it then holds
\* connect_mutex or request_mutex, and every request may wait behind it.
RequestEnds ==
  \A t \in Requesters :
    (~At(t, "idle") ~> At(t, "idle")) \/ \E u \in Threads : <>[]AwaitsRelay(u)
=============================================================================
