----------------------------- MODULE Controller -----------------------------
(***************************************************************************)
(* The controller of the main node (src/daemon/controller.zig) and the     *)
(* reporters of all nodes (src/daemon/reporter.zig): a reporter connects,  *)
(* sends its report and waits at most three seconds for the answer; the    *)
(* controller takes one connection per turn of its main loop, registers    *)
(* the node and answers with the tasks that wait for it.                   *)
(* A message is a sequence of parts: the length prefix, the brackets and   *)
(* commas of its JSON text, and the commands of its tasks.                 *)
(***************************************************************************)
EXTENDS Naturals, Sequences, Functions

CONSTANTS
  Nodes,       \* the daemons that report, Main among them
  Main,        \* the daemon with the controller
  Outdated,    \* those whose wasi_host_version is not the controller's
  Commands,    \* the commands an operator sends
  MaxTasks,    \* bound on the tasks that wait for one node
  MaxBacklog   \* bound on the connections not yet accepted (listen: 10)

ASSUME ControllerAssumption ==
  /\ Main \in Nodes /\ Outdated \subseteq Nodes
  /\ MaxTasks \in Nat /\ MaxBacklog \in Nat
  /\ Commands \cap {"length", "{", ",", "}"} = {}

VARIABLES
  known,      \* the keys of Controller.nodes
  pending,    \* NodeInfo.pending_tasks
  backlog,    \* connections to the controller not yet accepted
  rep,        \* what the reporter of a node does
  inbox,      \* what its connection has received
  executed    \* the commands its executeTask was called with

ctrlVars == <<known, pending, backlog, rep, inbox, executed>>

Tasks == Commands \cup {"update_binary"}
Parts == Tasks \cup {"length", "{", ",", "}"}

CtrlTypeOK ==
  /\ known \subseteq Nodes
  /\ pending \in [Nodes -> Seq(Tasks)]
  /\ backlog \in Seq([node : Nodes, open : BOOLEAN])
  /\ rep \in [Nodes -> {"idle", "await"}]
  /\ inbox \in [Nodes -> Seq(Parts)]
  /\ executed \in [Nodes -> SUBSET Tasks]

CtrlInit ==
  /\ known = {}
  /\ pending = [n \in Nodes |-> <<>>]
  /\ backlog = <<>>
  /\ rep = [n \in Nodes |-> "idle"]
  /\ inbox = [n \in Nodes |-> <<>>]
  /\ executed = [n \in Nodes |-> {}]

-----------------------------------------------------------------------------
(* The controller *)

hasPendingUpdate(n) == "update_binary" \in Range(pending[n])

addTask(n, c) ==
  /\ n \in known /\ Len(pending[n]) < MaxTasks
  /\ pending' = [pending EXCEPT ![n] = Append(@, c)]
  /\ UNCHANGED <<known, backlog, rep, inbox, executed>>

\* The tasks of the answer to a report of n: an update is added first.
TasksFor(n) ==
  IF n \in Outdated /\ ~hasPendingUpdate(n)
  THEN Append(pending[n], "update_binary")
  ELSE pending[n]

\* The text buildResponse writes: a comma follows a list that is not empty.
Body(ts) == <<"{">> \o ts \o (IF ts = <<>> THEN <<>> ELSE <<",">>) \o <<"}">>

Response(ts) == <<"length">> \o Body(ts)

\* A connection whose report is read whole; the answer fits the buffer of the
\* socket. The tasks are forgotten whether or
\* not the answer finds its reader.
handleReport ==
  LET n == Head(backlog).node IN
  /\ backlog # <<>>
  /\ backlog' = Tail(backlog)
  /\ known' = known \cup {n}
  /\ pending' = [pending EXCEPT ![n] = <<>>]
  /\ inbox' = IF Head(backlog).open
              THEN [inbox EXCEPT ![n] = Response(TasksFor(n))]
              ELSE inbox
  /\ UNCHANGED <<rep, executed>>

\* A connection that breaks or stays silent before its report is complete.
IncompleteReport ==
  /\ backlog # <<>>
  /\ backlog' = Tail(backlog)
  /\ rep' = IF Head(backlog).open
            THEN [rep EXCEPT ![Head(backlog).node] = "idle"] ELSE rep
  /\ UNCHANGED <<known, pending, inbox, executed>>

NoReport == backlog = <<>> /\ UNCHANGED ctrlVars

\* deinit closes the listening socket, and with it what waits there.
deinit ==
  /\ backlog' = <<>>
  /\ known' = {}
  /\ pending' = [n \in Nodes |-> <<>>]
  /\ rep' = [n \in Nodes |->
               IF \E i \in DOMAIN backlog :
                    backlog[i].node = n /\ backlog[i].open
               THEN "idle" ELSE rep[n]]
  /\ UNCHANGED <<inbox, executed>>

-----------------------------------------------------------------------------
(* The reporters *)

\* report: connectAndSend succeeds, and the reporter reads.
report(n) ==
  /\ rep[n] = "idle" /\ Len(backlog) < MaxBacklog
  /\ rep' = [rep EXCEPT ![n] = "await"]
  /\ backlog' = Append(backlog, [node |-> n, open |-> TRUE])
  /\ UNCHANGED <<known, pending, inbox, executed>>

Closed(n) ==
  [i \in DOMAIN backlog |->
     IF backlog[i].node = n THEN [backlog[i] EXCEPT !.open = FALSE]
     ELSE backlog[i]]

\* Mutant: the read has no timeout and ends when the controller hangs up.
ResponseTimeoutAtHangup(n) ==
  /\ rep[n] = "await" /\ inbox[n] = <<>>
  /\ \A i \in DOMAIN backlog : ~(backlog[i].node = n /\ backlog[i].open)
  /\ rep' = [rep EXCEPT ![n] = "idle"]
  /\ UNCHANGED <<known, pending, backlog, inbox, executed>>

\* SO_RCVTIMEO: no answer within three seconds; the connection is closed.
ResponseTimeout(n) ==
  /\ rep[n] = "await" /\ inbox[n] = <<>>
  /\ rep' = [rep EXCEPT ![n] = "idle"]
  /\ backlog' = Closed(n)
  /\ UNCHANGED <<known, pending, inbox, executed>>

\* The JSON parser takes an object with no comma before its closing bracket,
\* and nothing before its opening one.
IsJson(data) ==
  /\ Len(data) >= 2
  /\ Head(data) = "{" /\ data[Len(data)] = "}"
  /\ data[Len(data) - 1] # ","

TasksIn(data) == {data[i] : i \in DOMAIN data} \cap Tasks

\* handleResponse: the tasks that are executed, none when parsing fails.
Parsed(data) == IF IsJson(data) THEN TasksIn(data) ELSE {}

\* One read returns a part of what has arrived, at least its first byte.
ReadResponse(n, k) ==
  /\ rep[n] = "await" /\ k \in 1..Len(inbox[n])
  /\ executed' = [executed EXCEPT ![n] = @ \cup Parsed(SubSeq(inbox[n], 1, k))]
  /\ rep' = [rep EXCEPT ![n] = "idle"]
  /\ inbox' = [inbox EXCEPT ![n] = <<>>]
  /\ UNCHANGED <<known, pending, backlog>>

=============================================================================
