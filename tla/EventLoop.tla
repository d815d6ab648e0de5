------------------------------ MODULE EventLoop ------------------------------
(***************************************************************************)
(* The event loop of src/p2p/event_loop.zig and the pool of its threads    *)
(* (thread_pool.zig).  A loop is a record, and each method an operator     *)
(* from loops to loops.  "at" is where the thread is in run and the        *)
(* functions run calls; what the callbacks do is up to the module that     *)
(* registers them.                                                         *)
(*                                                                         *)
(* The wakeup pair is one flag, whether there are bytes to read: 64 of     *)
(* them are read at a time, more than are ever under way here.  initWakeup *)
(* and the creation of threads succeed.                                    *)
(***************************************************************************)
EXTENDS Naturals, Sequences, FiniteSets

CONSTANTS
  Fds,      \* descriptor numbers
  NoCtx     \* what a descriptor that is not registered has for a context

NoEntry == [ctx |-> NoCtx, out |-> FALSE]

NewLoop ==
  [at |-> "new", running |-> FALSE, rebuild |-> FALSE,
   entries |-> [f \in Fds |-> NoEntry],  \* fd_entries, with POLLOUT or not
   polled |-> {},                        \* poll_fds
   ready |-> {}, woken |-> FALSE,        \* those of them with events to handle
   jobs |-> <<>>, batch |-> <<>>,        \* job_queue, and the jobs taken from it
   wake |-> FALSE]

AddFd(l, f, ctx)  == [l EXCEPT !.entries[f] = [ctx |-> ctx, out |-> FALSE]]
RemoveFd(l, f)    == [l EXCEPT !.entries[f] = NoEntry]
ModFd(l, f, out)  ==
  IF l.entries[f] = NoEntry THEN l ELSE [l EXCEPT !.entries[f].out = out]

Wakeup(l)     == [l EXCEPT !.wake = TRUE]

\* Mutant: only a loop that is in poll is woken.
ExecuteWakesSleeper(l, j) ==
  [l EXCEPT !.jobs = Append(@, j), !.wake = @ \/ l.at = "poll"]

Execute(l, j) == Wakeup([l EXCEPT !.jobs = Append(@, j)])

\* stop of the pool, for one of its loops.
StopLoop(l) == Wakeup([l EXCEPT !.running = FALSE])

Registered(l) == {f \in Fds : l.entries[f] # NoEntry}

RebuildPollFds(l) ==
  IF ~l.rebuild THEN l
  ELSE [l EXCEPT !.rebuild = FALSE,
                 !.polled = {[fd |-> f, out |-> l.entries[f].out] : f \in Registered(l)}]

\* The top of the loop: over, or into poll.
Turn(l) ==
  IF l.running THEN [RebuildPollFds(l) EXCEPT !.at = "poll"]
  ELSE [l EXCEPT !.at = "ended"]

\* run begins.
Begin(l) == Turn([l EXCEPT !.running = TRUE, !.rebuild = TRUE])

\* poll times out for the sake of a timer.
TimeOut(l) == IF l.jobs # <<>> THEN [l EXCEPT !.at = "drain"] ELSE Turn(l)

\* On with the pass: the next descriptor, then the wakeup descriptor, which is the
\* last of poll_fds, then dispatchTimers and the top.
Pass(l) ==
  CASE l.ready # {} -> [l EXCEPT !.at = "pass"]
    [] l.ready = {} /\ l.woken -> [l EXCEPT !.woken = FALSE, !.at = "drain"]
    [] OTHER -> Turn(l)

\* poll returns.
Return(l, ready) == Pass([l EXCEPT !.ready = ready, !.woken = l.wake])

\* processJobs in two steps: the wakeup bytes are read, then the jobs taken.
ProcessJobs(l) ==
  CASE l.at = "drain" -> [l EXCEPT !.wake = FALSE, !.at = "take"]
    [] l.at = "take" /\ l.jobs = <<>> -> Turn(l)
    [] OTHER -> [l EXCEPT !.batch = l.jobs, !.jobs = <<>>, !.at = "jobs"]

\* A job is over; after the last of them dispatchTimers and the top.
JobDone(l) ==
  IF Len(l.batch) = 1 THEN Turn([l EXCEPT !.batch = <<>>]) ELSE [l EXCEPT !.batch = Tail(@)]
=============================================================================
