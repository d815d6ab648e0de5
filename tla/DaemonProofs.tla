---------------------------- MODULE DaemonProofs ----------------------------
(***************************************************************************)
(* Proofs about the supervisor within the main loop of the daemon, for any *)
(* limit of restarts, stable period, penalty and delay, whatever the       *)
(* controller, the reporters and the clients of the socket do.             *)
(***************************************************************************)
EXTENDS Daemon, TLAPS

\* No start is younger than the child, and when a penalty is over all of them
\* are out of the reach of StormGuard.
Aged ==
  /\ \A i \in DOMAIN starts : starts[i] >= Lesser(up, Horizon)
  /\ phase = "penalty" => \A i \in DOMAIN starts : starts[i] + left >= Horizon

\* Since a start within the horizon there was neither a stable period nor a
\* penalty: each start after it, and the one that the delay leads to, is for a
\* crash that has been counted.
Crashed(d) ==
  \A i \in DOMAIN starts :
    starts[i] < Horizon =>
      /\ (Len(starts) - i) + d <= sup.crashes
      /\ (Len(starts) - i) + d <= MaxRestarts

Guarded == Crashed(IF phase = "delay" THEN 1 ELSE 0)

Place ==
  /\ phase # "idle" => ~sup.running /\ child \notin Unreaped
  /\ sup.running => sup.pid

SupInv == SupTypeOK /\ Aged /\ Guarded /\ Place

IInv ==
  /\ SupInv
  /\ phase # "idle" => loop = "wait"
  /\ RunningIsOurs /\ NoOrphan

-----------------------------------------------------------------------------
LEMMA Bounds ==
  /\ Horizon \in Nat /\ Horizon <= StablePeriod /\ Horizon <= Penalty
  /\ MaxRestarts \in Nat /\ StablePeriod \in Nat /\ Penalty \in Nat /\ Delay \in Nat
BY SupervisorAssumption DEF Horizon, Lesser

LEMMA LesserIs ==
  \A a, b \in Int : Lesser(a, b) \in {a, b} /\ Lesser(a, b) <= a /\ Lesser(a, b) <= b
BY DEF Lesser

LEMMA ElementsOf ==
  ASSUME NEW S, NEW s \in Seq(S), NEW i \in DOMAIN s
  PROVE  s[i] \in S /\ i \in Nat
OBVIOUS

Statuses == [pid : BOOLEAN, running : BOOLEAN, crashes : 0..MaxRestarts + 1]

LEMMA SupParts ==
  ASSUME SupTypeOK
  PROVE  /\ child \in Children /\ sup \in Statuses /\ sup.crashes \in 0..MaxRestarts + 1
         /\ phase \in {"idle", "penalty", "delay"} /\ left \in Nat /\ up \in 0..StablePeriod
         /\ starts \in Seq(0..Horizon) /\ Len(starts) \in Nat /\ Len(starts) <= MaxRestarts + 2
         /\ DOMAIN starts = 1..Len(starts) /\ shouldStop \in BOOLEAN
         /\ \A i \in DOMAIN starts : starts[i] \in 0..Horizon /\ i \in Nat
<1>1. starts \in Seq(0..Horizon) /\ Len(starts) <= MaxRestarts + 2
  BY DEF SupTypeOK
<1>2. Len(starts) \in Nat /\ DOMAIN starts = 1..Len(starts)
  BY <1>1
<1>3. \A i \in DOMAIN starts : starts[i] \in 0..Horizon /\ i \in Nat
  BY <1>1, ElementsOf
<1>. QED  BY <1>1, <1>2, <1>3 DEF SupTypeOK, Statuses

\* The start that is added is the last one, and the others go on one place.
LEMMA WithStartAdds ==
  ASSUME SupTypeOK
  PROVE  /\ WithStart \in Seq(0..Horizon) /\ Len(WithStart) <= MaxRestarts + 2
         /\ \A i \in DOMAIN WithStart :
              /\ i \in 1..Len(WithStart)
              /\ \/ i = Len(WithStart) /\ WithStart[i] = 0
                 \/ \E j \in DOMAIN starts : /\ WithStart[i] = starts[j]
                                             /\ Len(WithStart) - i = (Len(starts) - j) + 1
<1>. DEFINE s == Append(starts, 0)
            n == Len(starts)
<1>1. /\ n \in Nat /\ n <= MaxRestarts + 2 /\ DOMAIN starts = 1..n /\ starts \in Seq(0..Horizon)
      /\ MaxRestarts \in Nat /\ 0 \in 0..Horizon
  BY SupParts, Bounds
<1>2. /\ s \in Seq(0..Horizon) /\ Len(s) = n + 1 /\ s[n + 1] = 0
      /\ \A i \in 1..n : s[i] = starts[i]
  BY <1>1
<1>. HIDE DEF s, n
<1>3. CASE Len(s) > MaxRestarts + 2
  <2>1. WithStart = Tail(s)
    BY <1>3 DEF WithStart, s
  <2>2. /\ Tail(s) \in Seq(0..Horizon) /\ Len(Tail(s)) = n /\ DOMAIN Tail(s) = 1..n
        /\ \A i \in 1..n : Tail(s)[i] = s[i + 1]
    BY <1>1, <1>2
  <2>3. ASSUME NEW i \in 1..n, i # n
        PROVE  \E j \in 1..n : Tail(s)[i] = starts[j] /\ n - i = (n - j) + 1
    <3>1. i + 1 \in 1..n /\ Tail(s)[i] = starts[i + 1] /\ n - i = (n - (i + 1)) + 1
      BY <1>1, <1>2, <2>2, <2>3
    <3>. QED  BY <3>1
  <2>4. n \in 1..n => Tail(s)[n] = 0
    BY <1>1, <1>2, <2>2
  <2>. QED  BY <1>1, <2>1, <2>2, <2>3, <2>4 DEF n
<1>4. CASE ~(Len(s) > MaxRestarts + 2)
  <2>1. WithStart = s /\ DOMAIN s = 1..(n + 1)
    BY <1>1, <1>2, <1>4 DEF WithStart, s
  <2>2. ASSUME NEW i \in 1..(n + 1), i # n + 1
        PROVE  \E j \in 1..n : s[i] = starts[j] /\ (n + 1) - i = (n - j) + 1
    <3>1. i \in 1..n /\ s[i] = starts[i] /\ (n + 1) - i = (n - i) + 1
      BY <1>1, <1>2, <2>2
    <3>. QED  BY <3>1
  <2>. QED  BY <1>1, <1>2, <1>4, <2>1, <2>2 DEF n
<1>. QED  BY <1>3, <1>4

-----------------------------------------------------------------------------
(* The steps of the supervisor.                                            *)

LEMMA CollectStep ==
  ASSUME SupInv, Collect
  PROVE  SupInv'
<1>. DEFINE c == CountCrash
<1>1. /\ phase = "idle" /\ child' = "none" /\ UNCHANGED <<up, starts, shouldStop>>
      /\ sup' = [sup EXCEPT !.running = FALSE, !.crashes = c]
      /\ \/ c > MaxRestarts /\ phase' = "penalty" /\ left' = Penalty
         \/ ~(c > MaxRestarts) /\ phase' = "delay" /\ left' = Delay
  BY DEF Collect
<1>2. /\ SupTypeOK /\ Aged /\ sup.crashes \in 0..MaxRestarts + 1
      /\ \A i \in DOMAIN starts : starts[i] < Horizon =>
           (Len(starts) - i) <= sup.crashes /\ (Len(starts) - i) <= MaxRestarts
  <2>1. Crashed(0) /\ SupTypeOK /\ Aged
    BY <1>1 DEF SupInv, Guarded
  <2>2. \A i \in DOMAIN starts : (Len(starts) - i) + 0 = Len(starts) - i
    BY <2>1, SupParts
  <2>. QED  BY <2>1, <2>2, SupParts DEF Crashed
<1>3. /\ c \in 0..MaxRestarts + 1
      /\ \/ c = 1 /\ up >= StablePeriod
         \/ c >= sup.crashes /\ (c <= MaxRestarts => c = sup.crashes + 1)
  BY <1>2, SupParts, Bounds DEF CountCrash, Lesser
<1>. HIDE DEF c
<1>4. /\ sup' \in Statuses /\ ~sup'.running /\ sup'.crashes = c
  BY <1>1, <1>2, <1>3, SupParts DEF Statuses
<1>5. SupTypeOK'
  <2>1. left' \in Nat
    BY <1>1, Bounds
  <2>. QED  BY <1>1, <1>2, <1>4, <2>1 DEF SupTypeOK, Statuses, Children
<1>6. Aged'
  <2>1. \A i \in DOMAIN starts : starts[i] >= Lesser(up, Horizon)
    BY <1>2 DEF Aged
  <2>2. \A i \in DOMAIN starts : starts[i] + Penalty >= Horizon
    BY <1>2, SupParts, Bounds
  <2>. QED  BY <1>1, <2>1, <2>2 DEF Aged, Horizon
<1>7. Guarded'
  <2>1. SUFFICES ASSUME NEW i \in DOMAIN starts, starts[i] < Horizon,
                        NEW d \in {0, 1}, d = IF phase' = "delay" THEN 1 ELSE 0
                 PROVE  (Len(starts) - i) + d <= c /\ (Len(starts) - i) + d <= MaxRestarts
    BY <1>1, <1>4 DEF Guarded, Crashed, Horizon
  <2>2. /\ Len(starts) - i <= sup.crashes /\ Len(starts) - i <= MaxRestarts
        /\ Len(starts) - i \in Int /\ starts[i] \in Nat
    BY <1>2, <2>1, SupParts
  <2>3. ~(up >= StablePeriod)
    BY <1>2, <2>1, <2>2, SupParts, Bounds DEF Aged, Lesser
  <2>4. c >= sup.crashes /\ (c <= MaxRestarts => c = sup.crashes + 1)
    BY <1>3, <2>3
  <2>5. CASE d = 0
    BY <1>2, <1>3, <2>2, <2>4, <2>5
  <2>6. CASE d = 1
    <3>1. c <= MaxRestarts
      BY <1>1, <1>3, <2>1, <2>6, Bounds
    <3>. QED  BY <1>2, <2>2, <2>4, <2>6, <3>1, Bounds
  <2>. QED  BY <2>1, <2>5, <2>6
<1>8. Place'
  BY <1>1, <1>4 DEF Place, Unreaped
<1>. QED  BY <1>5, <1>6, <1>7, <1>8 DEF SupInv

LEMMA PenaltyStep ==
  ASSUME SupInv, PenaltyOver
  PROVE  SupInv'
<1>1. /\ phase = "penalty" /\ left = 0 /\ phase' = "delay" /\ left' = Delay
      /\ UNCHANGED <<child, sup, up, starts, shouldStop>>
  BY DEF PenaltyOver
<1>2. \A i \in DOMAIN starts : ~(starts[i] < Horizon)
  BY <1>1, SupParts, Bounds DEF SupInv, Aged
<1>3. SupTypeOK'
  BY <1>1, Bounds DEF SupInv, SupTypeOK
<1>4. Aged' /\ Guarded' /\ Place'
  BY <1>1, <1>2 DEF SupInv, Aged, Guarded, Crashed, Place, Horizon
<1>. QED  BY <1>3, <1>4 DEF SupInv

LEMMA RestartStep ==
  ASSUME SupInv, Restart
  PROVE  SupInv'
<1>1. phase = "delay" /\ left = 0 /\ phase' = "idle" /\ UNCHANGED <<left, shouldStop>>
  BY DEF Restart
<1>2. SupTypeOK /\ Crashed(1) /\ Aged /\ ~sup.running /\ (sup.running => sup.pid)
  BY <1>1 DEF SupInv, Guarded, Place
<1>3. CASE Forked
  <2>1. /\ child' = "alive" /\ up' = 0 /\ starts' = WithStart
        /\ sup' = [sup EXCEPT !.pid = TRUE, !.running = TRUE]
    BY <1>3 DEF Forked
  <2>2. sup' \in Statuses /\ sup'.pid /\ sup'.running /\ sup'.crashes = sup.crashes
    BY <1>2, <2>1, SupParts DEF Statuses
  <2>3. SupTypeOK'
    BY <1>1, <1>2, <2>1, <2>2, WithStartAdds, SupParts, Bounds DEF SupTypeOK, Statuses, Children, Horizon
  <2>4. Aged'
    <3>1. \A i \in DOMAIN WithStart : WithStart[i] \in 0..Horizon
      BY <1>2, WithStartAdds, ElementsOf
    <3>2. Lesser(0, Horizon) = 0
      BY Bounds DEF Lesser
    <3>. QED  BY <1>1, <2>1, <3>1, <3>2, Bounds DEF Aged, Horizon
  <2>5. Guarded'
    <3>1. SUFFICES ASSUME NEW i \in DOMAIN WithStart, WithStart[i] < Horizon
                   PROVE  /\ (Len(WithStart) - i) + 0 <= sup.crashes
                          /\ (Len(WithStart) - i) + 0 <= MaxRestarts
      BY <1>1, <2>1, <2>2 DEF Guarded, Crashed, Horizon
    <3>2. i \in 1..Len(WithStart) /\ Len(WithStart) \in Nat
      BY <1>2, WithStartAdds
    <3>3. CASE i = Len(WithStart)
      BY <1>2, <3>2, <3>3, SupParts, Bounds
    <3>4. CASE \E j \in DOMAIN starts : /\ WithStart[i] = starts[j]
                                        /\ Len(WithStart) - i = (Len(starts) - j) + 1
      <4>1. PICK j \in DOMAIN starts : /\ WithStart[i] = starts[j]
                                       /\ Len(WithStart) - i = (Len(starts) - j) + 1
        BY <3>4
      <4>2. (Len(starts) - j) + 1 <= sup.crashes /\ (Len(starts) - j) + 1 <= MaxRestarts
        BY <1>2, <3>1, <4>1 DEF Crashed
      <4>. QED  BY <3>2, <4>1, <4>2
    <3>. QED  BY <1>2, <3>3, <3>4, WithStartAdds
  <2>6. Place'
    BY <1>1, <2>2 DEF Place
  <2>. QED  BY <2>3, <2>4, <2>5, <2>6 DEF SupInv
<1>4. CASE ForkFailed
  <2>1. child' = "failed" /\ UNCHANGED <<sup, up, starts>>
    BY <1>4 DEF ForkFailed
  <2>2. SupTypeOK'
    BY <1>1, <1>2, <2>1 DEF SupTypeOK, Children
  <2>3. Aged' /\ Place'
    BY <1>1, <1>2, <2>1 DEF Aged, Place, Horizon
  <2>4. Guarded'
    <3>1. SUFFICES ASSUME NEW i \in DOMAIN starts, starts[i] < Horizon
                   PROVE  (Len(starts) - i) + 0 <= sup.crashes /\ (Len(starts) - i) + 0 <= MaxRestarts
      BY <1>1, <2>1 DEF Guarded, Crashed, Horizon
    <3>. QED  BY <1>2, <3>1, SupParts, Bounds DEF Crashed
  <2>. QED  BY <2>2, <2>3, <2>4 DEF SupInv
<1>. QED  BY <1>3, <1>4 DEF Restart, startChild

\* A step that only the child takes, or somebody who signals it.
LEMMA ChildMoves ==
  ASSUME SupInv, child' \in Children, child' \in Unreaped => child \in Unreaped,
         UNCHANGED <<sup, phase, left, up, starts>>, shouldStop' \in BOOLEAN
  PROVE  SupInv'
<1>1. SupTypeOK'
  BY DEF SupInv, SupTypeOK
<1>2. Aged' /\ Guarded' /\ Place'
  BY DEF SupInv, Aged, Guarded, Crashed, Place, Horizon
<1>. QED  BY <1>1, <1>2 DEF SupInv

LEMMA SecondStep ==
  ASSUME SupInv, Second
  PROVE  SupInv'
<1>1. /\ up' = Lesser(up + 1, StablePeriod) /\ left' = IF left > 0 THEN left - 1 ELSE 0
      /\ starts' = [i \in DOMAIN starts |-> Lesser(starts[i] + 1, Horizon)]
      /\ UNCHANGED <<child, sup, phase, shouldStop>>
  BY DEF Second
<1>2. SupTypeOK /\ Aged /\ Guarded /\ Place
  BY DEF SupInv
<1>3. /\ DOMAIN starts' = DOMAIN starts /\ Len(starts') = Len(starts)
      /\ starts' \in Seq(0..Horizon)
      /\ \A i \in DOMAIN starts : starts'[i] = Lesser(starts[i] + 1, Horizon)
  <2>1. \A i \in DOMAIN starts : Lesser(starts[i] + 1, Horizon) \in 0..Horizon
    BY <1>2, SupParts, Bounds DEF Lesser
  <2>2. DOMAIN starts = 1..Len(starts) /\ Len(starts) \in Nat
    BY <1>2, SupParts
  <2>. QED  BY <1>1, <2>1, <2>2
<1>4. left' \in Nat /\ up' \in 0..StablePeriod
  BY <1>1, <1>2, SupParts, Bounds DEF Lesser
<1>5. SupTypeOK'
  BY <1>1, <1>2, <1>3, <1>4 DEF SupTypeOK, Horizon
<1>6. Aged'
  <2>1. ASSUME NEW i \in DOMAIN starts PROVE starts'[i] >= Lesser(up', Horizon)
    <3>1. starts[i] >= Lesser(up, Horizon) /\ starts[i] \in Nat /\ up \in Nat /\ starts[i] <= Horizon
      BY <1>2, SupParts, Bounds DEF Aged
    <3>. QED  BY <1>1, <1>3, <3>1, Bounds DEF Lesser
  <2>2. ASSUME NEW i \in DOMAIN starts, phase = "penalty" PROVE starts'[i] + left' >= Horizon
    <3>1. starts[i] + left >= Horizon /\ starts[i] \in Nat /\ left \in Nat
      BY <1>2, <2>2, SupParts, Bounds DEF Aged
    <3>. QED  BY <1>1, <1>3, <3>1, Bounds DEF Lesser
  <2>. QED  BY <1>1, <1>3, <2>1, <2>2 DEF Aged, Horizon
<1>7. Guarded'
  <2>1. ASSUME NEW i \in DOMAIN starts, starts'[i] < Horizon PROVE starts[i] < Horizon
    BY <1>2, <1>3, <2>1, SupParts, Bounds DEF Lesser
  <2>. QED  BY <1>1, <1>2, <1>3, <2>1 DEF Guarded, Crashed, Horizon
<1>8. Place'
  BY <1>1, <1>2 DEF Place
<1>. QED  BY <1>5, <1>6, <1>7, <1>8 DEF SupInv

-----------------------------------------------------------------------------
(* The main loop around them.                                              *)

\* A step that leaves the supervisor alone, and may go on in the loop.
LEMMA LoopStep ==
  ASSUME IInv, UNCHANGED supVars, loop' \in {"wait", "done"} \/ phase = "idle" \/ loop' = loop,
         Ended' => Ended, loop' = "done" => loop = "done", Ended => loop' = loop,
         phase # "idle" => loop' = loop
  PROVE  IInv'
<1>1. UNCHANGED <<child, sup, phase, left, up, starts, shouldStop>>
  BY DEF supVars
<1>2. SupInv'
  BY <1>1 DEF IInv, SupInv, SupTypeOK, Aged, Guarded, Crashed, Place, Horizon
<1>3. (phase # "idle" => loop = "wait")' /\ NoOrphan'
  BY <1>1 DEF IInv, NoOrphan
<1>4. RunningIsOurs'
  BY <1>1 DEF IInv, RunningIsOurs, Ended
<1>. QED  BY <1>2, <1>3, <1>4 DEF IInv

\* The command restart, the tasks restart and update_binary, the last stop.
LEMMA StopStep ==
  ASSUME IInv, stopChild, ~Ended, loop # "wait",
         loop' = "done" => ~sup.pid
  PROVE  IInv'
<1>1. /\ shouldStop' = TRUE /\ UNCHANGED <<sup, phase, left, up, starts>>
      /\ child' \in {child, "terminating"}
      /\ child' = "terminating" => child = "terminating" \/ (sup.pid /\ child = "alive")
  BY DEF stopChild, signal
<1>2. SupInv /\ phase = "idle" /\ (sup.running <=> child \in Unreaped) /\ (sup.running => sup.pid)
  BY DEF IInv, RunningIsOurs, SupInv, Place
<1>3. (child' \in Unreaped <=> child \in Unreaped) /\ child' \in Children
  BY <1>1, <1>2 DEF Unreaped, Children, SupInv, SupTypeOK
<1>4. SupInv'
  BY <1>1, <1>2, <1>3, ChildMoves
<1>5. RunningIsOurs' /\ NoOrphan'
  BY <1>1, <1>2, <1>3 DEF RunningIsOurs, NoOrphan, Ended
<1>. QED  BY <1>1, <1>2, <1>4, <1>5 DEF IInv

LEMMA SuperviseStep ==
  ASSUME IInv, Supervise
  PROVE  IInv'
<1>1. loop = "wait" /\ SupInv /\ (sup.running <=> child \in Unreaped)
  BY DEF IInv, Supervise, At, RunningIsOurs, Ended
<1>2. SupInv' /\ loop' \in {"wait", "accept"} /\ (phase' # "idle" => loop' = "wait")
  BY <1>1, CollectStep, PenaltyStep, RestartStep DEF Supervise, Goto, Restart
<1>3. sup'.running <=> child' \in Unreaped
  <2>1. CASE Collect
    BY <1>2, <2>1 DEF Collect, Unreaped, SupInv, Place
  <2>2. CASE PenaltyOver
    BY <1>1, <2>2 DEF PenaltyOver
  <2>3. CASE Restart /\ Forked
    BY <1>1, <2>3, SupParts DEF Forked, Unreaped, SupInv, Statuses
  <2>4. CASE Restart /\ ForkFailed
    BY <1>1, <2>4 DEF Restart, ForkFailed, Unreaped, SupInv, Place
  <2>. QED  BY <2>1, <2>2, <2>3, <2>4 DEF Supervise, Restart, startChild
<1>. QED  BY <1>2, <1>3 DEF IInv, RunningIsOurs, NoOrphan

LEMMA MainSteps ==
  ASSUME IInv, MainStep
  PROVE  IInv'
<1>1. CASE Supervise
  BY <1>1, SuperviseStep
<1>2. CASE \/ NothingToCollect \/ AcceptReport \/ ServeReport \/ ServeFile \/ NoOwnReport
           \/ SendOwnReport \/ AcceptClient \/ ClientGone \/ ServeWeb \/ Turn
  <2>1. /\ UNCHANGED supVars /\ loop \notin {"reap", "done", "panicked"}
        /\ loop' \notin {"reap", "done", "panicked"}
        /\ loop # "wait" \/ phase = "idle"
    BY <1>2 DEF NothingToCollect, AcceptReport, ServeReport, ServeFile, NoOwnReport, SendOwnReport,
                AcceptClient, ClientGone, ServeWeb, AfterApi, Turn, At, Goto
  <2>2. phase = "idle"
    BY <2>1 DEF IInv
  <2>. QED  BY <2>1, <2>2, LoopStep DEF Ended
<1>3. CASE OwnReportDone
  <2>1. loop = "await" /\ loop' = "api" /\ phase = "idle"
    BY <1>3 DEF OwnReportDone, ExecuteTasks, At, Goto, IInv
  <2>2. CASE UNCHANGED supVars
    BY <2>1, <2>2, LoopStep DEF Ended
  <2>3. CASE stopChild
    BY <2>1, <2>3, StopStep DEF Ended
  <2>4. UNCHANGED supVars \/ stopChild
    BY <1>3 DEF OwnReportDone, ExecuteTasks
  <2>. QED  BY <2>2, <2>3, <2>4
<1>4. CASE ServeClient
  <2>1. loop = "apiRead" /\ loop' \in {"web", "sleep"} /\ phase = "idle"
    BY <1>4 DEF ServeClient, AfterApi, At, IInv
  <2>2. CASE UNCHANGED supVars
    BY <2>1, <2>2, LoopStep DEF Ended
  <2>3. CASE stopChild
    BY <2>1, <2>3, StopStep DEF Ended
  <2>. QED  BY <1>4, <2>2, <2>3 DEF ServeClient, handleCommand
<1>5. CASE Cleanup
  <2>1. loop = "cleanup" /\ stopChild /\ loop' = IF sup.pid THEN "reap" ELSE "done"
    BY <1>5 DEF Cleanup, At, Goto
  <2>. QED  BY <2>1, StopStep DEF Ended
<1>6. CASE Reap
  <2>1. /\ loop = "reap" /\ loop' \in {"done", "panicked"} /\ child' = "none"
        /\ UNCHANGED <<sup, phase, left, up, starts, shouldStop>>
    BY <1>6 DEF Reap, At, Goto
  <2>2. SupInv'
    BY <2>1, ChildMoves, SupParts DEF IInv, SupInv, Children, Unreaped
  <2>3. RunningIsOurs' /\ NoOrphan' /\ phase = "idle"
    BY <2>1 DEF RunningIsOurs, NoOrphan, Ended, Unreaped, IInv
  <2>. QED  BY <2>1, <2>2, <2>3 DEF IInv
<1>. QED  BY <1>1, <1>2, <1>3, <1>4, <1>5, <1>6 DEF MainStep

LEMMA NextIInv == IInv /\ [Next]_daemonVars => IInv'
<1>. SUFFICES ASSUME IInv, [Next]_daemonVars PROVE IInv'
  OBVIOUS
<1>1. CASE MainStep
  BY <1>1, MainSteps
<1>2. CASE \/ \E n \in Nodes \ {Main} : OtherReport(n) \/ OtherDone(n)
           \/ ClientConnects \/ ClientActs \/ UNCHANGED daemonVars
  <2>1. UNCHANGED supVars /\ loop' = loop
    BY <1>2 DEF OtherReport, OtherDone, ClientConnects, ClientActs, daemonVars
  <2>. QED  BY <2>1, LoopStep DEF Ended
<1>3. CASE ChildStep
  <2>1. /\ child \in {"alive", "terminating"} /\ child' = "exited" /\ loop' = loop
        /\ UNCHANGED <<sup, phase, left, up, starts, shouldStop>>
    BY <1>3 DEF ChildStep, ChildExits
  <2>2. SupInv'
    BY <2>1, ChildMoves, SupParts DEF IInv, SupInv, Children, Unreaped
  <2>. QED  BY <2>1, <2>2 DEF IInv, RunningIsOurs, NoOrphan, Ended, Unreaped
<1>4. CASE Clock
  <2>1. UNCHANGED <<child, sup, phase, shouldStop, loop>> /\ SupInv'
    BY <1>4, SecondStep DEF Clock, Second, IInv
  <2>. QED  BY <2>1 DEF IInv, RunningIsOurs, NoOrphan, Ended
<1>. QED  BY <1>1, <1>2, <1>3, <1>4 DEF Next

LEMMA InitIInv == Init => IInv
<1>. SUFFICES ASSUME Init PROVE IInv
  OBVIOUS
<1>1. /\ phase = "idle" /\ left = 0 /\ up = 0 /\ shouldStop = FALSE /\ loop = "wait"
      /\ child \in {"alive", "failed"} /\ starts \in {<<>>, <<0>>}
      /\ sup \in Statuses /\ sup.crashes = 0
      /\ (sup.running <=> child = "alive") /\ (sup.pid <=> child = "alive")
  <2>1. /\ phase = "idle" /\ left = 0 /\ up = 0 /\ shouldStop = FALSE /\ loop = "wait"
        /\ \/ /\ child = "alive" /\ starts = <<0>>
              /\ sup = [pid |-> TRUE, running |-> TRUE, crashes |-> 0]
           \/ /\ child = "failed" /\ starts = <<>>
              /\ sup = [pid |-> FALSE, running |-> FALSE, crashes |-> 0]
    BY DEF Init, SupInit
  <2>2. sup \in Statuses /\ sup.crashes = 0
    <3>1. 0 \in 0..MaxRestarts + 1
      BY Bounds
    <3>2. \A b \in BOOLEAN : [pid |-> b, running |-> b, crashes |-> 0] \in Statuses
      BY <3>1 DEF Statuses
    <3>3. sup \in Statuses
      BY <2>1, <3>2, Zenon
    <3>4. sup.crashes = 0
      BY <2>1
    <3>. QED  BY <3>3, <3>4
  <2>3. (sup.running <=> child = "alive") /\ (sup.pid <=> child = "alive")
    BY <2>1
  <2>. QED  BY <2>1, <2>2, <2>3
<1>2. /\ starts \in Seq(0..Horizon) /\ Len(starts) \in {0, 1} /\ DOMAIN starts \subseteq {1}
      /\ \A i \in DOMAIN starts : starts[i] = 0 /\ Len(starts) - i = 0
  <2>1. CASE starts = <<>>
    BY <2>1
  <2>2. CASE starts = <<0>>
    BY <2>2, Bounds
  <2>. QED  BY <1>1, <2>1, <2>2
<1>3. SupTypeOK
  <2>1. 0 \in 0..StablePeriod /\ 0 \in Nat /\ Len(starts) <= MaxRestarts + 2
    BY <1>2, Bounds
  <2>. QED  BY <1>1, <1>2, <2>1 DEF SupTypeOK, Statuses, Children
<1>4. Aged /\ Guarded
  BY <1>1, <1>2, Bounds DEF Aged, Guarded, Crashed, Lesser
<1>5. Place /\ RunningIsOurs /\ NoOrphan
  BY <1>1 DEF Place, RunningIsOurs, NoOrphan, Unreaped
<1>. QED  BY <1>1, <1>3, <1>4, <1>5 DEF IInv, SupInv

-----------------------------------------------------------------------------
LEMMA Invariant == Spec => []IInv
BY InitIInv, NextIInv, PTL DEF Spec

\* What the supervisor keeps has its type, and the crashes that it counts stay
\* within the limit and one above.
THEOREM TypeCorrect == Spec => []SupTypeOK
<1>1. IInv => SupTypeOK
  BY DEF IInv, SupInv
<1>. QED  BY <1>1, Invariant, PTL

\* As long as the daemon has not begun to wait for its end, running means a
\* child that has not been collected: no signal of stopChild goes to a process
\* number that the system may have given to somebody else.
THEOREM SignalsOurChild == Spec => []RunningIsOurs
<1>1. IInv => RunningIsOurs
  BY DEF IInv
<1>. QED  BY <1>1, Invariant, PTL

\* However children crash, MaxRestarts + 2 starts in a row take a stable period
\* or a penalty.
THEOREM StormsPunished == Spec => []StormGuard
<1>1. ASSUME IInv PROVE StormGuard
  <2>. SUFFICES ASSUME Len(starts) = MaxRestarts + 2 PROVE Head(starts) = Horizon
    BY DEF StormGuard
  <2>1. SupTypeOK /\ Guarded
    BY <1>1 DEF IInv, SupInv
  <2>2. /\ 1 \in DOMAIN starts /\ Head(starts) = starts[1] /\ starts[1] \in 0..Horizon
        /\ Len(starts) - 1 = MaxRestarts + 1
    BY <2>1, SupParts, Bounds
  <2>3. ~(starts[1] < Horizon)
    BY <2>1, <2>2, Bounds DEF Guarded, Crashed
  <2>. QED  BY <2>2, <2>3, Bounds
<1>. QED  BY <1>1, Invariant, PTL

\* The daemon ends after its child, and has collected it.
THEOREM ChildFirst == Spec => []NoOrphan
<1>1. IInv => NoOrphan
  BY DEF IInv
<1>. QED  BY <1>1, Invariant, PTL
=============================================================================
