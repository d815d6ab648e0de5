-------------------------- MODULE RelayAdapterProofs --------------------------
(***************************************************************************)
(* Proofs about RelayAdapter, for any requesters, relays and thresholds:   *)
(* a connection that counts as connected is registered, and as long as no  *)
(* request ended without its answer, nobody gets the answer of another.    *)
(***************************************************************************)
EXTENDS RelayAdapter, TLAPS

Labels == {"idle", "mutex", "ensure", "lock", "connect", "register", "arm", "send", "wait", "count",
           "read", "store", "inject", "fail", "done"}

Types ==
  /\ TypeOK /\ pc \in [Threads -> Labels]
  /\ At(Reader, "done") \/ index < Relays
  /\ approvals <= asks

\* Who connects holds connectLock, and nothing is connected meanwhile; who is
\* in sendRequest holds requestLock.
Locked ==
  /\ \A t \in Threads : pc[t] \in {"connect", "register"} => connectLock = t /\ ~connected
  /\ \A t \in Requesters : pc[t] \notin {"idle", "mutex"} => requestLock = t

\* The slot is in use while a request has armed it.
SlotHeld ==
  /\ \A t \in Requesters : pc[t] \in {"send", "wait"} => pending.active
  /\ \A t \in Requesters : pc[t] = "count" => late
  /\ \A t \in Requesters : pc[t] # "idle" => num[t] > 0
  /\ pending.active => requestLock \in Requesters /\ pc[requestLock] \in {"send", "wait", "count"}

\* The request with number n waits, and has no answer yet.
Waits(n) ==
  /\ requestLock \in Requesters /\ pc[requestLock] = "wait" /\ n = num[requestLock]
  /\ pending.active /\ ~pending.ready

AnswersIn(s) == {i \in 1..Len(s) : s[i].kind = "answer"}

\* There is one answer at most, on one of its way stations, and it is for the
\* request that waits.
OneAnswer ==
  /\ \A n \in outstanding : Waits(n)
  /\ \A i \in AnswersIn(inbox) : Waits(inbox[i].of) /\ \A j \in AnswersIn(inbox) : i = j
  /\ At(Reader, "store") => Waits(held)
  /\ outstanding # {} => AnswersIn(inbox) = {} /\ ~At(Reader, "store")
  /\ AnswersIn(inbox) # {} => ~At(Reader, "store")

SlotRight ==
  pending.active /\ pending.ready =>
    requestLock \in Requesters /\ pc[requestLock] = "wait" /\ pending.of = num[requestLock]

IInv ==
  /\ Types /\ Locked /\ ConnectedIsRegistered /\ SlotHeld
  /\ ~late => OneAnswer /\ SlotRight

LEMMA Distinct ==
  /\ Requesters \subseteq Threads /\ Reader \in Threads
  /\ Reader \notin Requesters /\ None \notin Requesters
  /\ None \notin Threads /\ Main \in Requesters
  /\ \A t \in Threads : t \in Requesters \/ t = Reader
BY AdapterAssumption DEF Threads

-----------------------------------------------------------------------------
(* Steps that touch neither the slot nor what is on its way to it.          *)

\* An answer that was on its way is so still, or is dropped with its connection.
LEMMA AnswerStays ==
  ASSUME IInv, Locked', UNCHANGED <<outstanding, pending, held>>, late' \/ late' = late,
         \A x \in Requesters : pc[x] = "wait" => pc'[x] = "wait" /\ num'[x] = num[x],
         NEW d \in Nat,
         \A i \in AnswersIn(inbox') : i \in Nat /\ i + d \in AnswersIn(inbox) /\ inbox'[i] = inbox[i + d],
         At(Reader, "store")' => At(Reader, "store")
  PROVE  (~late => OneAnswer /\ SlotRight)'
<1>. SUFFICES ASSUME ~late' PROVE OneAnswer' /\ SlotRight'
  OBVIOUS
<1>1. OneAnswer /\ SlotRight
  BY DEF IInv
<1>2. \A x \in Requesters : requestLock = x /\ pc[x] = "wait" => requestLock' = x
  BY DEF Locked
<1>3. \A n : Waits(n) => Waits(n)'
  BY <1>2 DEF Waits
<1>4. OneAnswer'
  <2>1. \A i \in AnswersIn(inbox)' : Waits(inbox[i].of)'
    BY <1>1, <1>3 DEF OneAnswer
  <2>2. \A i, j \in AnswersIn(inbox)' : i = j
    BY <1>1 DEF OneAnswer
  <2>3. AnswersIn(inbox)' # {} => AnswersIn(inbox) # {}
    OBVIOUS
  <2>. QED  BY <1>1, <1>3, <2>1, <2>2, <2>3 DEF OneAnswer
<1>5. SlotRight'
  BY <1>1, <1>2 DEF SlotRight
<1>. QED  BY <1>4, <1>5

LEMMA SameInbox ==
  \A s \in Seq(Frame) : \A i \in AnswersIn(s) : i \in Nat /\ i + 0 \in AnswersIn(s) /\ s[i] = s[i + 0]
BY DEF AnswersIn

LEMMA ConnectingStep ==
  ASSUME IInv, NEW t \in Threads, Connecting(t) \/ registerTimesOut(t)
  PROVE  IInv'
<1>1. pc[t] \in {"lock", "connect", "register"} /\ Types /\ Locked /\ SlotHeld /\ ConnectedIsRegistered
  BY DEF IInv, Connecting, LockConnect, connectTo, connectToFails, register, registerFails, registerTimesOut, At
<1>2. UNCHANGED <<outstanding, index, attempts, exhausted, pending, held, sent, num, late, loaded, asks, approvals>>
  BY DEF Connecting, LockConnect, connectTo, connectToFails, register, registerFails, registerTimesOut,
         connVars, relayVars, slotVars, askVars
<1>3. PICK l \in Labels : /\ pc' = [pc EXCEPT ![t] = l] /\ l \notin {"store", "send", "wait", "count", "done"}
                          /\ (t \in Requesters => l \in {"idle", "connect", "register", "arm"})
                          /\ (t = Reader => l \in {"read", "connect", "register"})
  BY Distinct DEF Connecting, LockConnect, connectTo, connectToFails, register, registerFails, registerTimesOut,
         Connected, GivenUp, Goto, Labels
<1>4. /\ conn' \in Conn /\ inbox' \in {inbox, <<>>} /\ stale' \in BOOLEAN /\ connected' \in BOOLEAN
      /\ connectLock' \in {connectLock, t, None} /\ requestLock' \in {requestLock, None}
  BY <1>1 DEF Connecting, LockConnect, connectTo, connectToFails, register, registerFails, registerTimesOut,
         Connected, GivenUp, Replaced, Types, TypeOK, Conn, lockVars, connVars, relayVars
<1>5. pc \in [Threads -> Labels]
  BY <1>1 DEF Types
<1>6. Types'
  <2>1. <<>> \in Seq(Frame)
    OBVIOUS
  <2>2. pc' \in [Threads -> Labels] /\ \A x \in Threads \ {t} : pc'[x] = pc[x] /\ pc'[t] = l
    BY <1>3, <1>5
  <2>3. TypeOK'
    BY <1>1, <1>2, <1>3, <1>4, <2>1, <2>2, Distinct DEF Types, TypeOK
  <2>4. (At(Reader, "done") \/ index < Relays)'
    BY <1>1, <1>2, <1>3, <1>5, <2>2, Distinct DEF Types, At
  <2>. QED  BY <1>1, <1>2, <2>2, <2>3, <2>4 DEF Types
<1>7. Locked' /\ ConnectedIsRegistered'
  BY <1>1, <1>5, Distinct
     DEF Locked, ConnectedIsRegistered, Connecting, LockConnect, connectTo, connectToFails, register, registerFails,
         registerTimesOut, Connected, GivenUp, Goto, At, lockVars, connVars, relayVars
<1>8. SlotHeld'
  BY <1>1, <1>2, <1>3, <1>4, <1>5, <1>7, Distinct DEF SlotHeld, Locked
<1>9. (~late => OneAnswer /\ SlotRight)'
  <2>1. \A i \in AnswersIn(inbox') : i \in Nat /\ i + 0 \in AnswersIn(inbox) /\ inbox'[i] = inbox[i + 0]
    <3>1. CASE inbox' = inbox
      BY <1>1, <3>1, SameInbox DEF Types, TypeOK
    <3>2. CASE inbox' = <<>>
      BY <3>2 DEF AnswersIn
    <3>. QED  BY <1>4, <3>1, <3>2
  <2>2. \A x \in Requesters : pc[x] = "wait" => pc'[x] = "wait" /\ num'[x] = num[x]
    BY <1>1, <1>2, <1>3, <1>5, Distinct
  <2>3. At(Reader, "store")' => At(Reader, "store")
    BY <1>1, <1>3, <1>5, Distinct DEF At
  <2>. QED  BY <1>2, <1>7, <2>1, <2>2, <2>3, AnswerStays
<1>. QED  BY <1>6, <1>7, <1>8, <1>9 DEF IInv

-----------------------------------------------------------------------------
(* The steps of a request.                                                 *)

\* While no request waits for it, no answer is on its way.
LEMMA NothingOnItsWay ==
  ASSUME IInv, ~late, \A n : ~Waits(n)
  PROVE  outstanding = {} /\ AnswersIn(inbox) = {} /\ ~At(Reader, "store")
BY DEF IInv, OneAnswer

LEMMA Parts ==
  ASSUME IInv
  PROVE  /\ Types /\ Locked /\ ConnectedIsRegistered /\ SlotHeld /\ pc \in [Threads -> Labels]
         /\ inbox \in Seq(Frame) /\ pending \in [active : BOOLEAN, ready : BOOLEAN, of : 0..MaxRequests]
         /\ num \in [Requesters -> 0..MaxRequests] /\ late \in BOOLEAN
BY DEF IInv, Types, TypeOK

\* Until the slot is armed.
LEMMA EnterStep ==
  ASSUME IInv, NEW t \in Requesters, Start(t) \/ LockRequest(t) \/ ensureConnected(t)
  PROVE  IInv'
<1>1. /\ pc[t] \in {"idle", "mutex", "ensure"}
      /\ UNCHANGED <<connVars, relayVars, connectLock, pending, held, late, loaded, askVars, stale>>
  BY DEF Start, LockRequest, ensureConnected, At, slotVars, lockVars
<1>2. PICK l \in {"mutex", "ensure", "arm", "lock"} : pc' = [pc EXCEPT ![t] = l]
  BY DEF Start, LockRequest, ensureConnected, Goto
<1>3. /\ sent' \in 0..MaxRequests /\ num' \in [Requesters -> 0..MaxRequests]
      /\ \A x \in Requesters \ {t} : num'[x] = num[x]
  BY Parts, AdapterAssumption DEF Start, LockRequest, ensureConnected, slotVars, Types, TypeOK
<1>4. requestLock' \in {requestLock, t}
  BY DEF Start, LockRequest, ensureConnected, lockVars
<1>5. Types'
  <2>1. pc' \in [Threads -> Labels]
    BY <1>2, Parts, Distinct DEF Labels
  <2>. QED  BY <1>1, <1>2, <1>3, <1>4, <2>1, Parts, Distinct DEF Types, TypeOK, connVars, relayVars, askVars, At
<1>6. Locked'
  BY <1>1, Parts, Distinct DEF Locked, Start, LockRequest, ensureConnected, At, Goto, relayVars, lockVars
<1>7. ConnectedIsRegistered'
  BY <1>1, Parts DEF ConnectedIsRegistered, connVars, relayVars
<1>8. SlotHeld'
  <2>1. pc[t] = "idle" => num'[t] > 0
    BY Parts, AdapterAssumption DEF Start, LockRequest, ensureConnected, At, Types, TypeOK
  <2>2. pc[t] # "idle" => num'[t] = num[t]
    BY DEF Start, LockRequest, ensureConnected, At, slotVars
  <2>. QED  BY <1>1, <1>2, <1>3, <1>6, <2>1, <2>2, Parts, Distinct DEF SlotHeld, Locked
<1>9. (~late => OneAnswer /\ SlotRight)'
  <2>1. \A i \in AnswersIn(inbox') : i \in Nat /\ i + 0 \in AnswersIn(inbox) /\ inbox'[i] = inbox[i + 0]
    BY <1>1, Parts, SameInbox DEF connVars
  <2>2. \A x \in Requesters : pc[x] = "wait" => pc'[x] = "wait" /\ num'[x] = num[x]
    BY <1>1, <1>2, <1>3, Parts, Distinct
  <2>3. At(Reader, "store")' => At(Reader, "store")
    BY <1>2, Parts, Distinct DEF At
  <2>. QED  BY <1>1, <1>6, <2>1, <2>2, <2>3, AnswerStays DEF connVars
<1>. QED  BY <1>5, <1>6, <1>7, <1>8, <1>9 DEF IInv

Slots == [active : BOOLEAN, ready : BOOLEAN, of : 0..MaxRequests]

LEMMA SlotForms ==
  ASSUME NEW p \in Slots
  PROVE  /\ LET q == [p EXCEPT !.active = TRUE, !.ready = FALSE] IN q \in Slots /\ q.active /\ ~q.ready
         /\ LET q == [p EXCEPT !.active = FALSE] IN q \in Slots /\ ~q.active
         /\ LET q == [p EXCEPT !.active = FALSE, !.ready = FALSE] IN q \in Slots /\ ~q.active
BY DEF Slots

\* What the steps that follow do to the slot and to the thread.
LEMMA SlotMoves ==
  ASSUME IInv, NEW t \in Requesters, Arm(t) \/ Send(t) \/ SendFails(t) \/ Receive(t) \/ Timeout(t) \/ Count(t)
  PROVE  /\ pending' \in Slots /\ pc[t] \in {"arm", "send", "wait", "count"} /\ late' \in BOOLEAN
         /\ \/ /\ pc' = [pc EXCEPT ![t] = "idle"] /\ ~pending'.active
               /\ requestLock' = None /\ late' = late
            \/ /\ pc' = [pc EXCEPT ![t] = "send"] /\ pending'.active /\ ~pending'.ready
               /\ pc[t] = "arm" /\ requestLock' = requestLock /\ late' = late
            \/ /\ pc' = [pc EXCEPT ![t] = "wait"] /\ pending' = pending
               /\ pc[t] = "send" /\ requestLock' = requestLock /\ late' = late
            \/ /\ pc' = [pc EXCEPT ![t] = "count"] /\ pending' = pending
               /\ pc[t] = "wait" /\ requestLock' = requestLock /\ late'
<1>1. pending \in Slots /\ late \in BOOLEAN
  BY Parts DEF Slots
<1>2. CASE Arm(t)
  BY <1>1, <1>2, SlotForms DEF Arm, Goto, At, lockVars
<1>3. CASE Send(t)
  BY <1>1, <1>3 DEF Send, Goto, At, lockVars, slotVars
<1>4. CASE SendFails(t)
  BY <1>1, <1>4, SlotForms DEF SendFails, Return, Goto, At
<1>5. CASE Receive(t)
  BY <1>1, <1>5, SlotForms DEF Receive, Return, Goto, At
<1>6. CASE Timeout(t)
  BY <1>1, <1>6 DEF Timeout, Goto, At, lockVars
<1>7. CASE Count(t)
  BY <1>1, <1>7, SlotForms DEF Count, Return, Goto, At
<1>. QED  BY <1>2, <1>3, <1>4, <1>5, <1>6, <1>7

LEMMA SlotSteps ==
  ASSUME IInv, NEW t \in Requesters, Arm(t) \/ Send(t) \/ SendFails(t) \/ Receive(t) \/ Timeout(t) \/ Count(t)
  PROVE  Types' /\ Locked' /\ ConnectedIsRegistered' /\ SlotHeld' /\ requestLock = t
<1>. DEFINE Moves ==
       \/ /\ pc' = [pc EXCEPT ![t] = "idle"] /\ ~pending'.active
          /\ requestLock' = None /\ late' = late
       \/ /\ pc' = [pc EXCEPT ![t] = "send"] /\ pending'.active /\ ~pending'.ready
          /\ pc[t] = "arm" /\ requestLock' = requestLock /\ late' = late
       \/ /\ pc' = [pc EXCEPT ![t] = "wait"] /\ pending' = pending
          /\ pc[t] = "send" /\ requestLock' = requestLock /\ late' = late
       \/ /\ pc' = [pc EXCEPT ![t] = "count"] /\ pending' = pending
          /\ pc[t] = "wait" /\ requestLock' = requestLock /\ late'
<1>1. Moves /\ pending' \in Slots /\ pc[t] \in {"arm", "send", "wait", "count"} /\ late' \in BOOLEAN
  BY SlotMoves
<1>2. requestLock = t /\ num[t] \in 1..MaxRequests
  BY <1>1, Parts DEF Locked, SlotHeld
<1>3. /\ UNCHANGED <<inbox, connected, index, exhausted, connectLock, held, sent, num, askVars, stale>>
      /\ attempts' \in Nat /\ loaded' \in Nat
      /\ outstanding' \subseteq outstanding \cup {num[t]}
      /\ conn' \in Conn /\ (conn' # conn => conn = "open" /\ conn' = "spoiled")
  <2>1. attempts \in Nat /\ loaded \in Nat /\ conn \in Conn
    BY Parts DEF Types, TypeOK
  <2>. QED  BY <2>1 DEF Arm, Send, SendFails, Receive, Timeout, Count, Conn, connVars, relayVars, lockVars, slotVars
<1>4. Types'
  <2>1. pc' \in [Threads -> Labels] /\ pc'[Reader] = pc[Reader]
    BY <1>1, Parts, Distinct DEF Labels
  <2>2. \A x \in Requesters : pc'[x] \in {"idle", "mutex", "ensure", "lock", "connect", "register",
                                          "arm", "send", "wait", "count"}
    BY <1>1, Parts, Distinct DEF Types, TypeOK
  <2>3. requestLock' \in Requesters \cup {None}
    BY <1>1, <1>2
  <2>. HIDE DEF Moves
  <2>4. TypeOK'
    BY <1>1, <1>2, <1>3, <2>1, <2>2, <2>3, Parts DEF Types, TypeOK, askVars, Slots
  <2>. QED  BY <1>3, <2>1, <2>4, Parts DEF Types, At, askVars
<1>5. Locked'
  BY <1>1, <1>2, <1>3, Parts, Distinct DEF Locked
<1>6. ConnectedIsRegistered'
  BY <1>3, Parts DEF ConnectedIsRegistered
<1>7. SlotHeld'
  BY <1>1, <1>2, <1>3, <1>5, Parts, Distinct DEF SlotHeld, Locked
<1>. QED  BY <1>2, <1>4, <1>5, <1>6, <1>7

\* An answer is on its way at most from when its request is sent until it is
\* in the slot.
LEMMA RequestStep ==
  ASSUME IInv, NEW t \in Requesters, Arm(t) \/ Send(t) \/ SendFails(t) \/ Receive(t) \/ Timeout(t) \/ Count(t)
  PROVE  IInv'
<1>1. Types' /\ Locked' /\ ConnectedIsRegistered' /\ SlotHeld' /\ requestLock = t
  BY SlotSteps
<1>2. ASSUME ~late' PROVE OneAnswer' /\ SlotRight'
  <2>1. ~late /\ ~Timeout(t) /\ ~Count(t)
    <3>1. ~late
      BY <1>2, SlotMoves
    <3>2. ~Timeout(t)
      BY <1>2 DEF Timeout
    <3>3. ~Count(t)
      BY <3>1, Parts DEF Count, At, SlotHeld
    <3>. QED  BY <3>1, <3>2, <3>3
  <2>2. \A n : ~Waits(n)
    BY <1>1, <2>1 DEF Arm, Send, SendFails, Receive, Timeout, Count, At, Waits
  <2>3. outstanding = {} /\ AnswersIn(inbox) = {} /\ ~At(Reader, "store")
    BY <2>1, <2>2, NothingOnItsWay
  <2>4. inbox' = inbox /\ ~At(Reader, "store")'
    <3>1. inbox' = inbox
      BY DEF Arm, Send, SendFails, Receive, Timeout, Count, connVars
    <3>2. pc'[Reader] = pc[Reader]
      BY SlotMoves, Parts, Distinct
    <3>. QED  BY <2>3, <3>1, <3>2 DEF At
  <2>5. CASE Send(t)
    <3>1. /\ outstanding' \subseteq {num[t]} /\ pending' = pending /\ pc' = [pc EXCEPT ![t] = "wait"]
          /\ num' = num /\ requestLock' = t /\ pc[t] = "send"
      BY <1>1, <2>3, <2>5 DEF Send, Goto, At, lockVars, slotVars
    <3>2. pending.active /\ ~pending.ready
      BY <1>1, <2>1, <3>1, Parts DEF SlotHeld, IInv, SlotRight
    <3>3. Waits(num[t])'
      BY <3>1, <3>2, Parts, Distinct DEF Waits
    <3>. QED  BY <2>3, <2>4, <3>1, <3>2, <3>3 DEF OneAnswer, SlotRight
  <2>6. CASE ~Send(t)
    <3>1. outstanding' = {}
      BY <2>1, <2>3, <2>6 DEF Arm, SendFails, Receive, connVars
    <3>2. ~(pending'.active /\ pending'.ready)
      BY <2>1, <2>6, SlotForms, Parts DEF Arm, SendFails, Receive, Slots
    <3>. QED  BY <2>3, <2>4, <3>1, <3>2 DEF OneAnswer, SlotRight
  <2>. QED  BY <2>5, <2>6
<1>. QED  BY <1>1, <1>2 DEF IInv

-----------------------------------------------------------------------------
(* The steps of the reader, the service and the environment.               *)

\* What a step leaves as it is that touches only the reader's place, the
\* connection and the relays.
LEMMA QuietStep ==
  ASSUME IInv, UNCHANGED <<outstanding, lockVars, slotVars, inbox>>, Types', ConnectedIsRegistered',
         \A x \in Requesters : pc'[x] = pc[x],
         pc'[Reader] \in {"connect", "register"} => pc[Reader] = pc'[Reader],
         connected' => connected,
         pc'[Reader] = "store" => pc[Reader] = "store"
  PROVE  IInv'
<1>1. Locked'
  BY Parts, Distinct DEF Locked, lockVars
<1>2. SlotHeld'
  BY Parts DEF SlotHeld, lockVars, slotVars
<1>3. (~late => OneAnswer /\ SlotRight)'
  <2>1. \A i \in AnswersIn(inbox') : i \in Nat /\ i + 0 \in AnswersIn(inbox) /\ inbox'[i] = inbox[i + 0]
    BY Parts, SameInbox
  <2>2. \A x \in Requesters : pc[x] = "wait" => pc'[x] = "wait" /\ num'[x] = num[x]
    BY DEF slotVars
  <2>. QED  BY <1>1, <2>1, <2>2, AnswerStays DEF slotVars, At
<1>. QED  BY <1>1, <1>2, <1>3 DEF IInv

LEMMA ReaderStep ==
  ASSUME IInv, injectFromRelay \/ ReadStale \/ ReadFails \/ Fail \/ Spoil
  PROVE  IInv'
<1>1. /\ UNCHANGED <<inbox, outstanding, lockVars, slotVars, askVars>> /\ stale' \in BOOLEAN
      /\ pc[Reader] \in {"inject", "read", "fail"}
  BY Parts DEF injectFromRelay, ReadStale, ReadFails, Fail, Spoil, connVars, At, Types, TypeOK
<1>2. pc' = pc \/ \E l \in {"read", "fail", "done", "lock"} : pc' = [pc EXCEPT ![Reader] = l]
  BY DEF injectFromRelay, ReadStale, ReadFails, Fail, Spoil, Goto
<1>3. /\ \A x \in Requesters : pc'[x] = pc[x]
      /\ pc' \in [Threads -> Labels]
      /\ pc'[Reader] \in {"inject", "read", "fail", "done", "lock"}
  BY <1>1, <1>2, Parts, Distinct DEF Labels
<1>4. /\ conn' \in Conn /\ connected' \in BOOLEAN /\ (connected' => connected)
      /\ attempts' \in Nat /\ exhausted' \in BOOLEAN /\ index' \in 0..Relays
      /\ At(Reader, "done")' \/ index' < Relays
  <2>1. CASE Fail
    <3>1. index < Relays /\ index \in Nat /\ Relays \in Nat /\ attempts \in Nat /\ pc[Reader] = "fail"
          /\ conn' = conn /\ conn \in Conn /\ exhausted \in BOOLEAN
      BY <2>1, Parts, AdapterAssumption DEF Types, TypeOK, Fail, At, connVars
    <3>2. \/ attempts' = attempts + 1 /\ UNCHANGED <<index, exhausted>>
          \/ attempts' = 0 /\ index' = index + 1 /\ exhausted' = (index + 1 >= Relays)
      BY <2>1 DEF Fail
    <3>3. pc'[Reader] = IF exhausted' THEN "done" ELSE "lock"
      BY <2>1, Parts, Distinct DEF Fail, Goto
    <3>4. connected' = FALSE
      BY <2>1 DEF Fail
    <3>5. attempts' \in Nat /\ index' \in 0..Relays
      BY <3>1, <3>2
    <3>6. exhausted' \in BOOLEAN
      <4>1. (index + 1 >= Relays) \in BOOLEAN
        OBVIOUS
      <4>. QED  BY <3>1, <3>2, <4>1, Zenon
    <3>61. exhausted' \/ index' < Relays
      <4>1. CASE index' = index
        BY <3>1, <4>1
      <4>2. CASE index' = index + 1 /\ exhausted' = (index + 1 >= Relays)
        <5>1. CASE index + 1 >= Relays
          BY <4>2, <5>1, Zenon
        <5>2. CASE ~(index + 1 >= Relays)
          BY <3>1, <4>2, <5>2
        <5>. QED  BY <5>1, <5>2
      <4>. QED  BY <3>2, <4>1, <4>2
    <3>7. At(Reader, "done")' \/ index' < Relays
      BY <3>3, <3>61 DEF At
    <3>. QED  BY <3>1, <3>4, <3>5, <3>6, <3>7
  <2>2. CASE ~Fail
    <3>1. UNCHANGED relayVars /\ conn' \in {conn, "spoiled"} /\ pc[Reader] # "done"
      BY <2>2, <1>1 DEF injectFromRelay, ReadStale, ReadFails, Spoil, connVars
    <3>. QED  BY <3>1, Parts DEF relayVars, Conn, Types, TypeOK, At
  <2>. QED  BY <2>1, <2>2
<1>5. Types'
  BY <1>1, <1>3, <1>4, Parts, Distinct DEF Types, TypeOK, lockVars, slotVars, askVars
<1>6. ConnectedIsRegistered'
  BY <1>4, Parts DEF ConnectedIsRegistered, injectFromRelay, ReadStale, ReadFails, Fail, Spoil, connVars, relayVars
<1>. QED  BY <1>1, <1>3, <1>4, <1>5, <1>6, QuietStep

LEMMA ServiceStep ==
  ASSUME IInv, Ask \/ resetExhausted \/ Break
  PROVE  IInv'
<1>1. UNCHANGED <<inbox, outstanding, lockVars, slotVars, pc, stale>>
  BY DEF Ask, resetExhausted, Break, connVars
<1>2. /\ conn' \in Conn /\ connected' \in BOOLEAN /\ (connected' => connected)
      /\ attempts' \in Nat /\ exhausted' \in BOOLEAN /\ index' \in 0..Relays /\ (index' = index \/ index' < Relays)
      /\ asks' \in 0..MaxAsks /\ approvals' \in 0..MaxAsks /\ approvals' <= asks'
  <2>1. /\ conn \in Conn /\ connected \in BOOLEAN /\ attempts \in Nat /\ exhausted \in BOOLEAN /\ index \in 0..Relays
        /\ asks \in 0..MaxAsks /\ approvals \in 0..MaxAsks /\ approvals <= asks
        /\ Relays \in Nat \ {0} /\ MaxAsks \in Nat
    BY Parts, AdapterAssumption DEF Types, TypeOK
  <2>2. CASE Ask
    <3>1. /\ asks < MaxAsks /\ asks' = asks + 1 /\ approvals' = approvals + 1
          /\ UNCHANGED <<conn, connected, attempts, exhausted, index>>
      BY <2>2 DEF Ask, connVars, relayVars
    <3>2. asks' \in 0..MaxAsks /\ approvals' \in 0..MaxAsks /\ approvals' <= asks'
      BY <2>1, <3>1
    <3>3. /\ conn' \in Conn /\ connected' \in BOOLEAN /\ (connected' => connected)
          /\ attempts' \in Nat /\ exhausted' \in BOOLEAN /\ index' \in 0..Relays /\ index' = index
      BY <2>1, <3>1
    <3>. QED  BY <3>2, <3>3
  <2>3. CASE resetExhausted
    <3>1. /\ approvals > 0 /\ approvals' = approvals - 1 /\ asks' = asks /\ conn' = conn
          /\ exhausted' = FALSE /\ index' = 0 /\ attempts' = 0 /\ connected' = FALSE
      BY <2>3 DEF resetExhausted, connVars
    <3>2. asks' \in 0..MaxAsks /\ approvals' \in 0..MaxAsks /\ approvals' <= asks'
      BY <2>1, <3>1
    <3>3. attempts' \in Nat /\ index' \in 0..Relays /\ index' < Relays
      BY <2>1, <3>1
    <3>4. /\ conn' \in Conn /\ connected' \in BOOLEAN /\ (connected' => connected)
          /\ exhausted' \in BOOLEAN
      BY <2>1, <3>1, Zenon
    <3>. QED  BY <3>2, <3>3, <3>4
  <2>4. CASE Break
    BY <2>1, <2>4 DEF Break, Conn, relayVars, askVars
  <2>. QED  BY <2>2, <2>3, <2>4
<1>3. Types'
  BY <1>1, <1>2, Parts DEF Types, TypeOK, lockVars, slotVars, At
<1>4. ConnectedIsRegistered'
  BY <1>2, Parts DEF ConnectedIsRegistered, Ask, resetExhausted, Break, connVars, relayVars
<1>. QED  BY <1>1, <1>2, <1>3, <1>4, QuietStep

\* Of the frames that a read takes, the first may be an answer.
LEMMA ReadStep ==
  ASSUME IInv, NEW k \in 1..Len(inbox), ReadControl(k) \/ ReadAnswer(k) \/ ReadOther(k)
  PROVE  IInv'
<1>1. /\ pc[Reader] = "read"
      /\ inbox' = SubSeq(inbox, k + 1, Len(inbox))
      /\ UNCHANGED <<conn, outstanding, relayVars, lockVars, pending, sent, num, late, loaded, askVars, stale>>
  BY DEF ReadControl, ReadAnswer, ReadOther, Take, At
<1>2. /\ inbox \in Seq(Frame) /\ inbox' \in Seq(Frame) /\ k \in Nat
      /\ \A i \in 1..Len(inbox') : i + k \in 1..Len(inbox) /\ inbox'[i] = inbox[i + k] /\ i \in Nat
      /\ Head(inbox) = inbox[1] /\ inbox[1] \in Frame /\ 1 \in 1..Len(inbox)
  BY <1>1, Parts
<1>3. pc' = pc \/ \E l \in {"store", "inject"} : pc' = [pc EXCEPT ![Reader] = l]
  BY DEF ReadControl, ReadAnswer, ReadOther, Goto
<1>4. /\ \A x \in Requesters : pc'[x] = pc[x]
      /\ pc' \in [Threads -> Labels]
      /\ pc'[Reader] \in {"read", "store", "inject"}
  BY <1>1, <1>3, Parts, Distinct DEF Labels
<1>5. held' \in 0..MaxRequests
  BY <1>2, Parts DEF ReadControl, ReadAnswer, ReadOther, Frame, Types, TypeOK
<1>6. Types'
  BY <1>1, <1>2, <1>4, <1>5, Parts, Distinct DEF Types, TypeOK, relayVars, lockVars, askVars, At
<1>7. Locked' /\ ConnectedIsRegistered' /\ SlotHeld'
  BY <1>1, <1>4, Parts, Distinct DEF Locked, ConnectedIsRegistered, SlotHeld, relayVars, lockVars
<1>8. \A i \in AnswersIn(inbox') : i \in Nat /\ i + k \in AnswersIn(inbox) /\ inbox'[i] = inbox[i + k]
  BY <1>2 DEF AnswersIn
<1>9. (~late => OneAnswer /\ SlotRight)'
  <2>1. CASE pc'[Reader] # "store"
    <3>1. held' = held
      BY <1>4, <2>1, Parts, Distinct DEF ReadControl, ReadAnswer, ReadOther, Goto
    <3>. QED  BY <1>1, <1>2, <1>4, <1>7, <1>8, <2>1, <3>1, AnswerStays DEF At
  <2>2. CASE pc'[Reader] = "store"
    <3>1. ReadAnswer(k)
      BY <1>1, <2>2, Parts, Distinct DEF ReadControl, ReadOther, Goto
    <3>2. held' = inbox[1].of /\ inbox[1].kind = "answer"
      BY <1>2, <3>1 DEF ReadAnswer
    <3>3. 1 \in AnswersIn(inbox)
      BY <1>2, <3>2 DEF AnswersIn
    <3>. SUFFICES ASSUME ~late PROVE OneAnswer' /\ SlotRight'
      BY <1>1
    <3>4. OneAnswer /\ SlotRight
      BY DEF IInv
    <3>5. outstanding = {} /\ AnswersIn(inbox) = {1} /\ Waits(held')
      BY <3>2, <3>3, <3>4 DEF OneAnswer
    <3>6. AnswersIn(inbox') = {}
      <4>1. SUFFICES ASSUME NEW i \in AnswersIn(inbox') PROVE FALSE
        OBVIOUS
      <4>2. i + k = 1
        BY <1>8, <3>5
      <4>3. i \in 1..Len(inbox') /\ k >= 1
        BY DEF AnswersIn
      <4>4. i \in Nat /\ i >= 1 /\ k \in Nat
        BY <1>2, <4>3
      <4>. QED  BY <4>2, <4>3, <4>4
    <3>7. Waits(held)'
      BY <1>1, <1>4, <3>5 DEF Waits, lockVars
    <3>8. SlotRight'
      BY <1>1, <1>4, <3>4 DEF SlotRight, lockVars
    <3>. QED  BY <1>1, <3>5, <3>6, <3>7, <3>8 DEF OneAnswer
  <2>. QED  BY <2>1, <2>2
<1>. QED  BY <1>6, <1>7, <1>9 DEF IInv

LEMMA StoreStep ==
  ASSUME IInv, Store
  PROVE  IInv'
<1>1. /\ pc[Reader] = "store" /\ pc' = [pc EXCEPT ![Reader] = "read"]
      /\ pending' = [pending EXCEPT !.ready = TRUE, !.of = held] /\ held' = 0
      /\ UNCHANGED <<connVars, relayVars, lockVars, sent, num, late, loaded, askVars, stale>>
  BY DEF Store, Goto, At
<1>2. pending' \in Slots /\ pending'.active = pending.active /\ pending'.ready /\ pending'.of = held
  BY <1>1, Parts DEF Slots, Types, TypeOK
<1>3. /\ \A x \in Requesters : pc'[x] = pc[x]
      /\ pc' \in [Threads -> Labels] /\ pc'[Reader] = "read"
  BY <1>1, Parts, Distinct DEF Labels
<1>4. Types'
  BY <1>1, <1>2, <1>3, Parts, Distinct, AdapterAssumption
     DEF Types, TypeOK, connVars, relayVars, lockVars, askVars, At, Slots
<1>5. Locked' /\ ConnectedIsRegistered' /\ SlotHeld'
  BY <1>1, <1>2, <1>3, Parts, Distinct DEF Locked, ConnectedIsRegistered, SlotHeld, connVars, relayVars, lockVars
<1>6. ASSUME ~late PROVE OneAnswer' /\ SlotRight'
  <2>1. OneAnswer /\ SlotRight
    BY <1>6 DEF IInv
  <2>2. Waits(held) /\ outstanding = {} /\ AnswersIn(inbox) = {}
    BY <1>1, <2>1 DEF OneAnswer, At
  <2>3. SlotRight'
    BY <1>1, <1>2, <1>3, <2>2 DEF SlotRight, Waits, lockVars
  <2>4. outstanding' = {} /\ AnswersIn(inbox)' = {} /\ ~At(Reader, "store")'
    <3>1. outstanding' = outstanding /\ inbox' = inbox
      BY <1>1 DEF connVars
    <3>2. AnswersIn(inbox)' = AnswersIn(inbox)
      BY <3>1, Zenon DEF AnswersIn
    <3>3. ~At(Reader, "store")'
      BY <1>3 DEF At
    <3>. QED  BY <2>2, <3>1, <3>2, <3>3
  <2>. QED  BY <2>3, <2>4 DEF OneAnswer
<1>. QED  BY <1>1, <1>4, <1>5, <1>6 DEF IInv

LEMMA ArrivesStep ==
  ASSUME IInv, Answer \/ Other
  PROVE  IInv'
<1>1. /\ UNCHANGED <<conn, relayVars, lockVars, slotVars, askVars, pc, stale>>
      /\ outstanding' \subseteq outstanding
      /\ \/ \E r \in outstanding : /\ inbox' = Append(inbox, [kind |-> "answer", of |-> r])
                                   /\ outstanding' = outstanding \ {r}
         \/ \E kind \in {"request", "control"} : /\ inbox' = Append(inbox, [kind |-> kind, of |-> 0])
                                                 /\ outstanding' = outstanding
  BY DEF Answer, Other, Arrives
<1>2. inbox \in Seq(Frame) /\ outstanding \subseteq 1..MaxRequests
  BY Parts DEF Types, TypeOK
<1>3. inbox' \in Seq(Frame)
  <2>1. \A r \in outstanding : [kind |-> "answer", of |-> r] \in Frame
    BY <1>2 DEF Frame
  <2>2. \A kind \in {"request", "control"} : [kind |-> kind, of |-> 0] \in Frame
    BY AdapterAssumption DEF Frame
  <2>3. \A f \in Frame : Append(inbox, f) \in Seq(Frame)
    BY <1>2
  <2>4. \/ \E r \in outstanding : inbox' = Append(inbox, [kind |-> "answer", of |-> r])
        \/ \E kind \in {"request", "control"} : inbox' = Append(inbox, [kind |-> kind, of |-> 0])
    BY <1>1
  <2>5. \E f \in Frame : inbox' = Append(inbox, f)
    BY <2>1, <2>2, <2>4
  <2>. QED  BY <2>3, <2>5
<1>4. Types'
  BY <1>1, <1>2, <1>3, Parts DEF Types, TypeOK, relayVars, lockVars, slotVars, askVars, At
<1>5. Locked' /\ ConnectedIsRegistered' /\ SlotHeld'
  BY <1>1, Parts DEF Locked, ConnectedIsRegistered, SlotHeld, relayVars, lockVars, slotVars
<1>6. CASE \E kind \in {"request", "control"} : /\ inbox' = Append(inbox, [kind |-> kind, of |-> 0])
                                                /\ outstanding' = outstanding
  <2>1. PICK kind \in {"request", "control"} : inbox' = Append(inbox, [kind |-> kind, of |-> 0])
    BY <1>6
  <2>2. /\ Len(inbox') = Len(inbox) + 1 /\ inbox'[Len(inbox) + 1].kind # "answer" /\ Len(inbox) \in Nat
        /\ \A i \in 1..Len(inbox) : inbox'[i] = inbox[i]
    BY <1>2, <2>1
  <2>3. \A i \in AnswersIn(inbox') : i \in Nat /\ i + 0 \in AnswersIn(inbox) /\ inbox'[i] = inbox[i + 0]
    BY <2>2 DEF AnswersIn
  <2>4. (~late => OneAnswer /\ SlotRight)'
    BY <1>1, <1>5, <1>6, <2>3, AnswerStays DEF slotVars, At
  <2>. QED  BY <1>4, <1>5, <2>4 DEF IInv
<1>7. CASE \E r \in outstanding : /\ inbox' = Append(inbox, [kind |-> "answer", of |-> r])
                                  /\ outstanding' = outstanding \ {r}
  <2>. SUFFICES ASSUME ~late PROVE OneAnswer' /\ SlotRight'
    BY <1>1, <1>4, <1>5 DEF IInv, slotVars
  <2>1. PICK r \in outstanding : /\ inbox' = Append(inbox, [kind |-> "answer", of |-> r])
                                 /\ outstanding' = outstanding \ {r}
    BY <1>7
  <2>2. OneAnswer /\ SlotRight
    BY DEF IInv
  <2>3. Waits(r) /\ outstanding' = {} /\ AnswersIn(inbox) = {} /\ ~At(Reader, "store")
    BY <2>1, <2>2 DEF OneAnswer, Waits
  <2>4. /\ Len(inbox') = Len(inbox) + 1 /\ inbox'[Len(inbox) + 1].of = r /\ Len(inbox) \in Nat
        /\ \A i \in 1..Len(inbox) : inbox'[i] = inbox[i]
    BY <1>2, <2>1
  <2>5. \A i \in AnswersIn(inbox') : i = Len(inbox) + 1
    BY <2>3, <2>4 DEF AnswersIn
  <2>6. Waits(r)' /\ SlotRight' /\ ~At(Reader, "store")'
    BY <1>1, <2>2, <2>3 DEF Waits, SlotRight, At, lockVars, slotVars
  <2>. QED  BY <2>3, <2>4, <2>5, <2>6 DEF OneAnswer
<1>. QED  BY <1>1, <1>6, <1>7

-----------------------------------------------------------------------------
(* The invariant holds.                                                    *)

LEMMA InitIInv == Init => IInv
<1>. SUFFICES ASSUME Init PROVE IInv
  OBVIOUS
<1>1. /\ connected = (conn = "registered") /\ conn \in {"none", "open", "registered"}
      /\ inbox = <<>> /\ outstanding = {} /\ index = 0 /\ attempts = 0 /\ exhausted = FALSE
      /\ connectLock = None /\ requestLock = None
      /\ pending \in Slots /\ ~pending.active /\ ~pending.ready
      /\ pc = [t \in Threads |-> IF t = Reader THEN "read" ELSE "idle"]
      /\ held = 0 /\ stale = FALSE /\ asks = 0 /\ approvals = 0
      /\ sent = 0 /\ num = [t \in Requesters |-> 0] /\ late = FALSE /\ loaded = 0
  BY AdapterAssumption DEF Init, Slots
<1>2. /\ pc \in [Threads -> Labels] /\ pc[Reader] = "read" /\ \A t \in Requesters : pc[t] = "idle"
  BY <1>1, Distinct DEF Labels
<1>3. inbox \in Seq(Frame) /\ AnswersIn(inbox) = {}
  BY <1>1 DEF AnswersIn
<1>4. Types
  <2>1. 0 \in 0..Relays /\ 0 \in 0..MaxRequests /\ 0 \in 0..MaxAsks /\ 0 \in Nat /\ 0 < Relays
    BY AdapterAssumption
  <2>2. conn \in Conn /\ connected \in BOOLEAN
    BY <1>1 DEF Conn
  <2>3. num \in [Requesters -> 0..MaxRequests] /\ outstanding \subseteq 1..MaxRequests
    BY <1>1, <2>1
  <2>4. TypeOK
    BY <1>1, <1>2, <1>3, <2>1, <2>2, <2>3 DEF TypeOK, Slots
  <2>5. index < Relays /\ approvals <= asks
    BY <1>1, <2>1
  <2>. QED  BY <1>2, <2>4, <2>5 DEF Types
<1>5. Locked /\ ConnectedIsRegistered /\ SlotHeld
  BY <1>1, <1>2, Distinct DEF Locked, ConnectedIsRegistered, SlotHeld
<1>6. OneAnswer /\ SlotRight
  BY <1>1, <1>2, <1>3 DEF OneAnswer, SlotRight, At
<1>. QED  BY <1>4, <1>5, <1>6 DEF IInv

LEMMA NextIInv == IInv /\ [Next]_vars => IInv'
<1>. SUFFICES ASSUME IInv, [Next]_vars PROVE IInv'
  OBVIOUS
<1>1. ASSUME NEW t \in Requesters, Start(t) \/ Requesting(t) PROVE IInv'
  BY <1>1, EnterStep, ConnectingStep, RequestStep, Distinct DEF Requesting
<1>2. ASSUME NEW t \in Threads, registerTimesOut(t) PROVE IInv'
  BY <1>2, ConnectingStep
<1>3. CASE Reading
  BY <1>3, ReadStep, StoreStep, ReaderStep, ConnectingStep, Distinct DEF Reading
<1>4. CASE Spoil
  BY <1>4, ReaderStep
<1>5. CASE Ask \/ resetExhausted \/ Break
  BY <1>5, ServiceStep
<1>6. CASE Answer \/ Other
  BY <1>6, ArrivesStep
<1>7. CASE UNCHANGED vars
  <2>1. UNCHANGED <<inbox, outstanding, lockVars, slotVars, relayVars, conn, askVars, pc, stale>>
    BY <1>7 DEF vars, connVars
  <2>2. Types' /\ ConnectedIsRegistered'
    BY <2>1, Parts DEF Types, TypeOK, ConnectedIsRegistered, lockVars, slotVars, relayVars, askVars, At
  <2>. QED  BY <2>1, <2>2, QuietStep DEF relayVars
<1>. QED  BY <1>1, <1>2, <1>3, <1>4, <1>5, <1>6, <1>7 DEF Next

LEMMA Invariant == Spec => []IInv
BY InitIInv, NextIInv, PTL DEF Spec

\* Every variable of the adapter keeps its type, whatever connections break and
\* whoever connects: no thread is at a place that its role does not have, and
\* no relay beyond the last is connected to.
THEOREM TypeCorrect == Spec => []TypeOK
<1>1. IInv => TypeOK
  BY DEF IInv, Types
<1>. QED  BY <1>1, Invariant, PTL

\* As long as every request got its answer in time, what is in the slot is the
\* answer of the request that holds request_mutex, for any number of threads,
\* requests and frames, and across broken connections.
THEOREM OwnAnswersOnly == Spec => []OnlyOwnAnswers
<1>1. IInv => OnlyOwnAnswers
  BY Distinct DEF IInv, SlotRight, OnlyOwnAnswers
<1>. QED  BY <1>1, Invariant, PTL

\* The connection that counts as connected went through the whole handshake.
THEOREM ConnectionsRegistered == Spec => []ConnectedIsRegistered
<1>1. IInv => ConnectedIsRegistered
  BY DEF IInv
<1>. QED  BY <1>1, Invariant, PTL
===============================================================================
