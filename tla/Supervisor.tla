----------------------------- MODULE Supervisor -----------------------------
(***************************************************************************)
(* The supervisor of the daemon (src/daemon/supervisor.zig): it forks the  *)
(* node process, collects it when it has exited, counts crashes, punishes  *)
(* a crash storm with a long wait and starts the process again.            *)
(* Time is counted in seconds and only as far as a comparison of the code  *)
(* can tell: the age of the child up to StablePeriod, the count of crashes *)
(* up to one more than MaxRestarts.                                        *)
(***************************************************************************)
EXTENDS Integers, Sequences

CONSTANTS
  MaxRestarts,    \* config.max_restarts
  StablePeriod,   \* config.stable_period_s
  Penalty,        \* config.penalty_hours in seconds
  Delay           \* config.restart_delay_ms in seconds

ASSUME SupervisorAssumption ==
  /\ MaxRestarts \in Nat /\ StablePeriod \in Nat
  /\ Penalty \in Nat \ {0} /\ Delay \in Nat

VARIABLES
  child,        \* what the system knows of the process status.pid
  sup,          \* status: pid > 0, running, crash_count
  phase,        \* where handleCrash sleeps
  left,         \* seconds of that sleep that are left
  up,           \* seconds since stable_start
  starts,       \* history: the ages of the last MaxRestarts + 2 starts
  shouldStop    \* should_stop

supVars == <<child, sup, phase, left, up, starts, shouldStop>>

Lesser(a, b) == IF a < b THEN a ELSE b

\* The shortest time in which MaxRestarts + 2 starts may happen.
Horizon == Lesser(StablePeriod, Penalty)

\* none: no process or collected; exited: a zombie; failed: fork gave an error.
Children == {"none", "alive", "terminating", "exited", "failed"}
Unreaped == {"alive", "terminating", "exited"}

SupTypeOK ==
  /\ child \in Children
  /\ sup \in [pid : BOOLEAN, running : BOOLEAN, crashes : 0..MaxRestarts + 1]
  /\ phase \in {"idle", "penalty", "delay"}
  /\ left \in Nat /\ up \in 0..StablePeriod
  /\ starts \in Seq(0..Horizon) /\ Len(starts) <= MaxRestarts + 2
  /\ shouldStop \in BOOLEAN

WithStart ==
  LET s == Append(starts, 0)
  IN  IF Len(s) > MaxRestarts + 2 THEN Tail(s) ELSE s

Forked ==
  /\ child' = "alive"
  /\ sup' = [sup EXCEPT !.pid = TRUE, !.running = TRUE]
  /\ up' = 0
  /\ starts' = WithStart

ForkFailed ==
  /\ child' = "failed"
  /\ UNCHANGED <<sup, up, starts>>

startChild == Forked \/ ForkFailed

\* Mutant: any second of life counts as a stable period.
CountCrashAnyAge ==
  IF sup.crashes > 0 /\ up > 0 THEN 1
  ELSE Lesser(sup.crashes + 1, MaxRestarts + 1)

\* A crash after a stable period counts as the first one.
CountCrash ==
  IF sup.crashes > 0 /\ up >= StablePeriod
  THEN 1
  ELSE Lesser(sup.crashes + 1, MaxRestarts + 1)

\* Mutant: running stays set while handleCrash sleeps.
CollectStillRunning ==
  /\ phase = "idle" /\ sup.running /\ child = "exited"
  /\ child' = "none"
  /\ sup' = [sup EXCEPT !.crashes = CountCrash]
  /\ IF CountCrash > MaxRestarts
     THEN phase' = "penalty" /\ left' = Penalty
     ELSE phase' = "delay" /\ left' = Delay
  /\ UNCHANGED <<up, starts, shouldStop>>

\* waitAndHandle with an exited child, and handleCrash up to its first sleep.
Collect ==
  /\ phase = "idle" /\ sup.running /\ child = "exited"
  /\ child' = "none"
  /\ sup' = [sup EXCEPT !.running = FALSE, !.crashes = CountCrash]
  /\ IF CountCrash > MaxRestarts
     THEN phase' = "penalty" /\ left' = Penalty
     ELSE phase' = "delay" /\ left' = Delay
  /\ UNCHANGED <<up, starts, shouldStop>>

\* Mutant: the penalty returns without the restart.
PenaltyOverGivesUp ==
  /\ phase = "penalty" /\ left = 0
  /\ phase' = "idle"
  /\ UNCHANGED <<child, sup, left, up, starts, shouldStop>>

\* Nothing sets should_stop while the main thread is in this loop.
PenaltyOver ==
  /\ phase = "penalty" /\ left = 0
  /\ phase' = "delay" /\ left' = Delay
  /\ UNCHANGED <<child, sup, up, starts, shouldStop>>

Restart ==
  /\ phase = "delay" /\ left = 0
  /\ phase' = "idle"
  /\ startChild
  /\ UNCHANGED <<left, shouldStop>>

\* SIGTERM goes to status.pid only while the supervisor believes it runs.
signal == child' = IF sup.pid /\ sup.running /\ child = "alive"
                   THEN "terminating" ELSE child

stopChild ==
  /\ shouldStop' = TRUE
  /\ signal
  /\ UNCHANGED <<sup, phase, left, up, starts>>

\* The environment: the child exits, by itself or on SIGTERM; time passes.
ChildExits ==
  /\ child \in {"alive", "terminating"}
  /\ child' = "exited"
  /\ UNCHANGED <<sup, phase, left, up, starts, shouldStop>>

Second ==
  /\ up' = Lesser(up + 1, StablePeriod)
  /\ left' = IF left > 0 THEN left - 1 ELSE 0
  /\ starts' = [i \in DOMAIN starts |-> Lesser(starts[i] + 1, Horizon)]
  /\ UNCHANGED <<child, sup, phase, shouldStop>>

SupInit ==
  /\ phase = "idle" /\ left = 0 /\ up = 0 /\ shouldStop = FALSE
  /\ \/ /\ child = "alive" /\ starts = <<0>>
        /\ sup = [pid |-> TRUE, running |-> TRUE, crashes |-> 0]
     \/ /\ child = "failed" /\ starts = <<>>
        /\ sup = [pid |-> FALSE, running |-> FALSE, crashes |-> 0]

=============================================================================
