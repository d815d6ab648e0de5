------------------------------- MODULE Daemon -------------------------------
(***************************************************************************)
(* The daemon wasi-hostd of the main node (src/daemon/main.zig): one       *)
(* thread that in every turn of its loop looks after the child, takes one  *)
(* connection of the controller, sends its own report, serves one client   *)
(* of the unix socket (api.zig) and one of the web server (web.zig) and    *)
(* sleeps. Every blocking call of a part stops the others. The daemons of  *)
(* the other nodes appear as reporters.                                    *)
(***************************************************************************)
EXTENDS Supervisor, Controller

VARIABLES
  loop,     \* the step of the main loop
  client    \* the client at the unix socket

daemonVars == <<loop, client, supVars, ctrlVars>>

Loop == {"wait", "accept", "request", "file", "report", "await", "api", "apiRead", "web",
         "sleep", "cleanup", "reap", "done", "panicked"}

\* Where another party decides when the loop goes on: the controller reads a
\* request, which may come byte by byte, up to a megabyte and each within ten
\* seconds; it writes the binary to a client that may not read; a request is
\* read from the unix socket without a timeout; a client of the web server may
\* not read its answer.
Outside == {"request", "file", "apiRead", "web"}

TypeOK ==
  /\ SupTypeOK /\ CtrlTypeOK
  /\ loop \in Loop
  /\ client \in {"none", "silent", "asked", "gone"}

Init ==
  /\ SupInit /\ CtrlInit
  /\ loop = "wait" /\ client = "none"

-----------------------------------------------------------------------------
(* The main loop *)

At(l) == loop = l
Goto(l) == loop' = l /\ UNCHANGED client

\* Step 1: waitpid with NOHANG; the sleeps of handleCrash are in this step.
NothingToCollect ==
  /\ At("wait") /\ phase = "idle"
  /\ ~(sup.running /\ child = "exited")
  /\ Goto("accept")
  /\ UNCHANGED <<supVars, ctrlVars>>

Supervise ==
  /\ At("wait")
  /\ \/ (Collect \/ PenaltyOver) /\ Goto("wait")
     \/ Restart /\ Goto("accept")
  /\ UNCHANGED ctrlVars

\* Step 4: at most one connection of the controller, a report or an HTTP
\* request for the binary.
AcceptReport ==
  /\ At("accept")
  /\ \/ NoReport /\ Goto("report")
     \/ backlog # <<>> /\ Goto("request") /\ UNCHANGED ctrlVars
     \/ Goto("file") /\ UNCHANGED ctrlVars
  /\ UNCHANGED supVars

ServeReport ==
  /\ At("request")
  /\ handleReport \/ IncompleteReport
  /\ Goto("report")
  /\ UNCHANGED supVars

\* handleFileRequest: the file is sent, refused, or the client is gone.
ServeFile ==
  /\ At("file")
  /\ Goto("report")
  /\ UNCHANGED <<supVars, ctrlVars>>

\* Step 5: the report is not due or cannot be sent, or the thread waits.
NoOwnReport ==
  /\ At("report")
  /\ Goto("api")
  /\ UNCHANGED <<supVars, ctrlVars>>

SendOwnReport ==
  /\ At("report")
  /\ report(Main)
  /\ Goto("await")
  /\ UNCHANGED supVars

\* executeTask: restart stops the child, and so does an update that succeeds.
\* The download of one has no timeout, but never begins: no answer of the
\* controller is understood.
ExecuteTasks(tasks) ==
  IF tasks \cap {"restart", "update_binary"} = {} THEN UNCHANGED supVars
  ELSE stopChild \/ ("restart" \notin tasks /\ UNCHANGED supVars)

OwnReportDone ==
  /\ At("await")
  /\ \/ ResponseTimeout(Main) /\ Goto("api") /\ UNCHANGED supVars
     \/ \E k \in 1..Len(inbox[Main]) :
          /\ ReadResponse(Main, k)
          /\ ExecuteTasks(Parsed(SubSeq(inbox[Main], 1, k)))
          /\ Goto("api")

\* Step 7: the unix socket; and step 7b, a client of the web server or none.
AfterApi == loop' \in {"web", "sleep"}

AcceptClient ==
  /\ At("api")
  /\ IF client = "none" THEN AfterApi ELSE loop' = "apiRead"
  /\ UNCHANGED <<client, supVars, ctrlVars>>

handleCommand ==
  \/ stopChild /\ UNCHANGED ctrlVars                        \* restart
  \/ \E n \in Nodes, c \in Commands :                       \* send-task
       addTask(n, c) /\ UNCHANGED supVars
  \/ UNCHANGED <<supVars, ctrlVars>>                        \* the others

ServeClient ==
  /\ At("apiRead") /\ client = "asked"
  /\ handleCommand
  /\ client' = "none" /\ AfterApi

ClientGone ==
  /\ At("apiRead") /\ client = "gone"
  /\ client' = "none" /\ AfterApi
  /\ UNCHANGED <<supVars, ctrlVars>>

\* The answer to a client of the web server, which may send a task.
ServeWeb ==
  /\ At("web")
  /\ \/ \E n \in Nodes, c \in Commands : addTask(n, c)
     \/ UNCHANGED ctrlVars
  /\ Goto("sleep")
  /\ UNCHANGED supVars

\* Step 8 and the condition of the loop.
Turn ==
  /\ At("sleep")
  /\ Goto(IF shouldStop THEN "cleanup" ELSE "wait")
  /\ UNCHANGED <<supVars, ctrlVars>>

\* Mutant: the child is signalled, not awaited.
CleanupNoWait ==
  /\ At("cleanup")
  /\ deinit
  /\ stopChild
  /\ Goto("done")

Cleanup ==
  /\ At("cleanup")
  /\ deinit
  /\ stopChild
  /\ Goto(IF sup.pid THEN "reap" ELSE "done")

\* waitpid blocks until the child has exited. When status.pid was collected
\* long ago its result is unreachable: the build panics or runs on.
Reap ==
  /\ At("reap")
  /\ \/ child = "exited" /\ Goto("done")
     \/ child \notin Unreaped /\ (Goto("done") \/ Goto("panicked"))
  /\ child' = "none"
  /\ UNCHANGED <<sup, phase, left, up, starts, shouldStop, ctrlVars>>

MainStep ==
  \/ NothingToCollect \/ Supervise \/ AcceptReport \/ ServeReport \/ ServeFile
  \/ NoOwnReport \/ SendOwnReport \/ OwnReportDone
  \/ AcceptClient \/ ServeClient \/ ClientGone \/ ServeWeb
  \/ Turn \/ Cleanup \/ Reap

-----------------------------------------------------------------------------
(* The other daemons, the child, the clients and the clock *)

Ended == loop \in {"reap", "done", "panicked"}

OtherReport(n) ==
  /\ ~Ended /\ report(n)
  /\ UNCHANGED <<supVars, loop, client>>

OtherDone(n) ==
  /\ \/ ResponseTimeout(n)
     \/ \E k \in 1..Len(inbox[n]) : ReadResponse(n, k)
  /\ UNCHANGED <<supVars, loop, client>>

ChildStep == ChildExits /\ UNCHANGED <<ctrlVars, loop, client>>

Clock == Second /\ UNCHANGED <<ctrlVars, loop, client>>

ClientConnects ==
  /\ ~Ended /\ client = "none" /\ client' = "silent"
  /\ UNCHANGED <<supVars, ctrlVars, loop>>

\* It sends its request, or closes the connection.
ClientActs ==
  /\ client = "silent" /\ client' \in {"asked", "gone"}
  /\ UNCHANGED <<supVars, ctrlVars, loop>>

Next ==
  \/ MainStep
  \/ \E n \in Nodes \ {Main} : OtherReport(n) \/ OtherDone(n)
  \/ ChildStep \/ Clock \/ ClientConnects \/ ClientActs

\* The thread runs, time passes and SIGTERM ends the child. Waits with a
\* timeout end, those of the kernel for an attempt to connect among them; the
\* places of Outside need not.
Fairness ==
  /\ WF_daemonVars(MainStep /\ loop \notin Outside)
  /\ WF_daemonVars(Clock)
  /\ WF_daemonVars(ChildStep /\ child = "terminating")

Spec == Init /\ [][Next]_daemonVars /\ Fairness

-----------------------------------------------------------------------------
(* Properties *)

\* status.running says that status.pid is a process that has not been
\* collected, so that signal never reaches a process of somebody else.
RunningIsOurs ==
  ~Ended => (sup.running <=> child \in Unreaped)

\* handleCrash: whatever the crashes, the stable periods and the failed forks,
\* MaxRestarts + 2 starts in a row take a stable period or a penalty.
StormGuard ==
  Len(starts) = MaxRestarts + 2 => Head(starts) = Horizon

\* The daemon does not end before its child, and collects it.
NoOrphan == loop = "done" => child \notin Unreaped

\* Another party holds the loop for ever.
HeldOutside == <>[](loop \in Outside)

\* A child that has exited is started again, unless the daemon was told to
\* stop, fork failed, or another party holds the loop for ever.
CrashRestarted ==
  (child = "exited" ~> (child = "alive" \/ child = "failed" \/ shouldStop)) \/ HeldOutside

\* The loop turns for ever or is held at a place of Outside: neither the
\* penalty, nor the restart delays, nor the report that the main node sends
\* to itself, and which the same thread would have to answer, stop it.
LoopTurns ==
  (loop # "wait" ~> (loop = "wait" \/ Ended)) \/ HeldOutside

=============================================================================
