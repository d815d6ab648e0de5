----------------------------- MODULE Replication -----------------------------
(***************************************************************************)
(* The metadata stores of several Chord nodes, the replication queue       *)
(* between them (src/p2p/metadata/replication.zig, processReplication and  *)
(* the dht_* handlers of src/p2p/chord/node.zig), and persistence: save on *)
(* a timer, crash, stop and load.                                          *)
(*                                                                         *)
(* The main thread of a node ticks.  While it waits for an answer it       *)
(* handles what else arrives, so that puts and replicas of others come in  *)
(* in the middle of a round of replication; so does a plugin thread that   *)
(* waits, at any time, also in the middle of a save.  An answer is         *)
(* accepted by its type alone, so that a late one counts for whichever     *)
(* target is being asked.  Routes are stable: Targets[n] is what           *)
(* allReachableSuccessors returns at n, at most three nodes, as many as    *)
(* REPLICA_COUNT, without n itself and empty slots.                        *)
(*                                                                         *)
(* Store and queue have no lock.  A plugin thread that puts a key of its   *)
(* own node (host_dht_put) takes one step after the other, among those of  *)
(* the other threads, whose handlers are a step each; raced says that two  *)
(* threads were at the store or at the queue of a node at once, of which   *)
(* nothing can be said.                                                    *)
(***************************************************************************)
EXTENDS KVStore, Sequences, FiniteSets

CONSTANTS
  Nodes,
  Home,          \* the node that each key's puts and deletes are sent to
  Targets,       \* for each node, a sequence of other nodes
  Persistent,    \* the nodes that have a data directory
  PluginHosts,   \* the nodes that run plugins
  ReplicaCount,  \* REPLICA_COUNT, 3 in the program
  MaxPuts, MaxDeletes, MaxFaults  \* bounds of the instance

ASSUME ReplicationAssumption ==
  /\ Home \in [Keys -> Nodes] /\ Targets \in [Nodes -> Seq(Nodes)]
  /\ \A n \in Nodes : /\ Len(Targets[n]) <= ReplicaCount
                       /\ \A i \in 1 .. Len(Targets[n]) : Targets[n][i] # n
  /\ Persistent \subseteq Nodes /\ PluginHosts \subseteq Nodes /\ ReplicaCount \in Nat \ {0}
  /\ MaxPuts \in Nat /\ MaxDeletes \in Nat /\ MaxFaults \in Nat

VARIABLES
  store,    \* each node's store
  file,     \* each node's dht_store.json; the empty map if there is none
  queue,    \* ReplicationManager.pending of each node
  job,      \* what the main thread of each node is doing
  plug,     \* the put that a plugin thread of each node is about
  raced,    \* history: two threads of a node were at its store or queue at once
  reqs,     \* dht_replicate requests under way
  resps,    \* the number of dht_replicate_resp under way to each node
  ioError,  \* a save or a load has failed since the last complete save
  puts, deletes, faults  \* counters

vars == <<store, file, queue, job, plug, raced, reqs, resps, ioError, puts, deletes, faults>>
netVars == <<reqs, resps>>
plugVars == <<plug, raced>>
counters == <<puts, deletes, faults>>

Item    == [key : Keys, val : Nat, attempted : Nat]
Request == [from : Nodes, to : Nodes, key : Keys, val : Nat]

\* left: the targets of this round from the one being asked on.
\* snap: the entries collected for the file.
Job  == [pc : {"idle", "wait", "save", "write", "down"}, left : Seq(Nodes), snap : Snapshot]
Idle == [pc |-> "idle", left |-> <<>>, snap |-> Empty]
Down == [pc |-> "down", left |-> <<>>, snap |-> Empty]
Waiting(left) == [pc |-> "wait", left |-> left, snap |-> Empty]

\* What the put has just done: read the version, removed the old entry, stored the
\* new one, read it back.
NoPut == [pc |-> "none"]
Put   == [pc : {"read", "removed", "stored", "got"}, key : Keys, val : Nat, ver : Nat]

Up(n) == job[n].pc # "down"

\* The main thread handles messages in tick and while it waits, a plugin thread while
\* it waits for a node it has asked, whatever the main thread is about.
Receptive(n) == job[n].pc \in {"idle", "wait"} \/ (Up(n) /\ n \in PluginHosts)

\* Another thread of n is at the store, or at the queue.
AtStore(n) == raced' = [raced EXCEPT ![n] = @ \/ plug[n].pc # "none"]
AtQueue(n) == raced' = [raced EXCEPT ![n] = @ \/ plug[n].pc = "got"]

Init ==
  /\ store = [n \in Nodes |-> InitStore]
  /\ file = [n \in Nodes |-> Empty]
  /\ queue = [n \in Nodes |-> <<>>]
  /\ job = [n \in Nodes |-> Idle]
  /\ plug = [n \in Nodes |-> NoPut] /\ raced = [n \in Nodes |-> FALSE]
  /\ reqs = {} /\ resps = [n \in Nodes |-> 0]
  /\ ioError = [n \in Nodes |-> FALSE]
  /\ puts = 0 /\ deletes = 0 /\ faults = 0

Fault == faults < MaxFaults /\ faults' = faults + 1

-----------------------------------------------------------------------------
(* Requests.                                                               *)

Queued(n, k, v) == [queue EXCEPT ![n] = Append(@, [key |-> k, val |-> v, attempted |-> 0])]

\* The stored entry is read back and queued. Memory may run out in the put, once the
\* old entry is gone, or in enqueue, whose error is dropped.
HandlePut(n, k) ==
  LET v == puts + 1
  IN  /\ Receptive(n) /\ Home[k] = n /\ puts < MaxPuts
      /\ puts' = v
      /\ \/ /\ store' = [store EXCEPT ![n] = put(@, k, v)]
            /\ queue' = Queued(n, k, v)
            /\ UNCHANGED faults
         \/ /\ \/ store' = [store EXCEPT ![n] = put(@, k, v)]
               \/ store' = [store EXCEPT ![n] = remove(@, k)]
            /\ Fault /\ UNCHANGED queue
      /\ AtStore(n)
      /\ UNCHANGED <<file, job, plug, netVars, ioError, deletes>>

(***************************************************************************)
(* host_dht_put of a plugin thread, for a key of its own node.             *)
(***************************************************************************)
PluginReads(n, k) ==
  /\ n \in PluginHosts /\ Up(n) /\ plug[n].pc = "none"
  /\ Home[k] = n /\ puts < MaxPuts
  /\ puts' = puts + 1
  /\ plug' = [plug EXCEPT ![n] = [pc |-> "read", key |-> k, val |-> puts + 1, ver |-> store[n].next]]
  /\ UNCHANGED <<store, file, queue, job, raced, netVars, ioError, deletes, faults>>

PluginRemoves(n) ==
  /\ plug[n].pc = "read"
  /\ store' = [store EXCEPT ![n] = remove(@, plug[n].key)]
  /\ plug' = [plug EXCEPT ![n].pc = "removed"]
  /\ UNCHANGED <<file, queue, job, raced, netVars, ioError, counters>>

PluginInserts(n) ==
  /\ plug[n].pc = "removed"
  /\ store' = [store EXCEPT ![n] = insert(@, plug[n].key, plug[n].val, plug[n].ver)]
  /\ plug' = [plug EXCEPT ![n].pc = "stored"]
  /\ UNCHANGED <<file, queue, job, raced, netVars, ioError, counters>>

\* put returns; what get returns may be another's by now, or nothing.
PluginGets(n) ==
  LET e == store[n].map[plug[n].key]
  IN /\ plug[n].pc = "stored"
     /\ store' = [store EXCEPT ![n] = mark(@)]
     /\ plug' = [plug EXCEPT ![n] = IF e = NoEntry THEN NoPut
                                    ELSE [@ EXCEPT !.pc = "got", !.val = e.val]]
     /\ UNCHANGED <<file, queue, job, raced, netVars, ioError, counters>>

PluginEnqueues(n) ==
  /\ plug[n].pc = "got"
  /\ queue' = Queued(n, plug[n].key, plug[n].val)
  /\ plug' = [plug EXCEPT ![n] = NoPut]
  /\ UNCHANGED <<store, file, job, raced, netVars, ioError, counters>>

\* Memory runs out.
PluginFails(n) ==
  /\ plug[n].pc \in {"removed", "got"} /\ Fault
  /\ plug' = [plug EXCEPT ![n] = NoPut]
  /\ UNCHANGED <<store, file, queue, job, raced, netVars, ioError, puts, deletes>>

\* A delete is not replicated.
HandleDelete(n, k) ==
  /\ Receptive(n) /\ Home[k] = n /\ deletes < MaxDeletes
  /\ store[n].map[k] # NoEntry
  /\ deletes' = deletes + 1
  /\ store' = [store EXCEPT ![n] = delete(@, k)]
  /\ AtStore(n)
  /\ UNCHANGED <<file, queue, job, plug, netVars, ioError, puts, faults>>

\* A replica is stored without a look at its version.  On the way it may have
\* been sent twice: sendAndWait falls back from TCP and relay to UDP.  If memory runs
\* out the answer says so, to a sender that counts it all the same.
HandleReplicate(m, again, fails) ==
  /\ m \in reqs /\ Receptive(m.to)
  /\ store' = [store EXCEPT ![m.to] = IF fails THEN remove(@, m.key) ELSE put(@, m.key, m.val)]
  /\ resps' = [resps EXCEPT ![m.from] = @ + 1]
  /\ reqs' = IF again THEN reqs ELSE reqs \ {m}
  /\ IF again \/ fails THEN Fault ELSE UNCHANGED faults
  /\ AtStore(m.to)
  /\ UNCHANGED <<file, queue, job, plug, ioError, puts, deletes>>

\* A request is lost, always if its target is down.
RequestLost(m) ==
  /\ m \in reqs
  /\ IF Up(m.to) THEN Fault ELSE UNCHANGED faults
  /\ reqs' = reqs \ {m}
  /\ UNCHANGED <<store, file, queue, job, plugVars, resps, ioError, puts, deletes>>

-----------------------------------------------------------------------------
(* processReplication.                                                     *)

\* markAttempted.
markAttempted(q) ==
  [q EXCEPT ![1] = [key |-> @.key, val |-> @.val, attempted |-> @.attempted + 1]]

\* Mutant: the first copy is enough.
DoneAfterOne(item) == item.attempted >= 1

\* isCurrentDone.
Done(item) == item.attempted >= ReplicaCount

\* The loop over the targets, from left on: ask the next one, or end the
\* round, and drop the item if it is done.
Continue(n, q, left) ==
  LET item == Head(q)
  IN  IF left # <<>> /\ ~Done(item)
      THEN /\ job' = [job EXCEPT ![n] = Waiting(left)]
           /\ queue' = [queue EXCEPT ![n] = q]
           /\ reqs' = reqs \cup {[from |-> n, to |-> Head(left), key |-> item.key, val |-> item.val]}
      ELSE /\ job' = [job EXCEPT ![n] = Idle]
           /\ queue' = [queue EXCEPT ![n] = IF Done(item) THEN Tail(q) ELSE q]
           /\ UNCHANGED reqs

\* Mutant: an item is tried in one round only.
StartRoundOnce(n) ==
  /\ job[n].pc = "idle" /\ queue[n] # <<>> /\ Head(queue[n]).attempted = 0
  /\ Continue(n, queue[n], Targets[n])
  /\ AtQueue(n)
  /\ UNCHANGED <<store, file, plug, resps, ioError, counters>>

StartRound(n) ==
  /\ job[n].pc = "idle" /\ queue[n] # <<>>
  /\ Continue(n, queue[n], Targets[n])
  /\ AtQueue(n)
  /\ UNCHANGED <<store, file, plug, resps, ioError, counters>>

\* Any dht_replicate_resp is the answer of the target that is being asked.
Answered(n) ==
  /\ job[n].pc = "wait" /\ resps[n] > 0
  /\ Continue(n, markAttempted(queue[n]), Tail(job[n].left))
  /\ resps' = [resps EXCEPT ![n] = @ - 1]
  /\ AtQueue(n)
  /\ UNCHANGED <<store, file, plug, ioError, counters>>

\* Three seconds pass: nothing is under way any more, or it is late.
TimedOut(n) ==
  /\ job[n].pc = "wait"
  /\ Continue(n, queue[n], Tail(job[n].left))
  /\ IF resps[n] > 0 \/ \E m \in reqs : m.from = n THEN Fault ELSE UNCHANGED faults
  /\ AtQueue(n)
  /\ UNCHANGED <<store, file, plug, resps, ioError, puts, deletes>>

\* tick and the waits for other types ignore an answer, so does a plugin thread that
\* receives what the main thread waits for; a dead node gets none.
AnswerIgnored(n) ==
  /\ resps[n] > 0
  /\ \/ job[n].pc \in {"idle", "down"} /\ UNCHANGED faults
     \/ job[n].pc = "wait" /\ n \in PluginHosts /\ Fault
  /\ resps' = [resps EXCEPT ![n] = @ - 1]
  /\ UNCHANGED <<store, file, queue, job, plugVars, reqs, ioError, puts, deletes>>

-----------------------------------------------------------------------------
(* Persistence.                                                            *)

\* KVStore.save: the flag is cleared first, then the entries are collected,
\* written to a temporary file and renamed.
SaveBegin(n) ==
  /\ job[n].pc = "idle" /\ n \in Persistent /\ store[n].dirty
  /\ store' = [store EXCEPT ![n].dirty = FALSE]
  /\ job' = [job EXCEPT ![n].pc = "save"]
  /\ UNCHANGED <<file, queue, plugVars, netVars, ioError, counters>>

SaveCollect(n) ==
  /\ job[n].pc = "save"
  /\ job' = [job EXCEPT ![n] = [pc |-> "write", left |-> <<>>, snap |-> store[n].map]]
  /\ AtStore(n)
  /\ UNCHANGED <<store, file, queue, plug, netVars, ioError, counters>>

\* Mutant: the flag is cleared when the file is complete.
SaveRenameAndClear(n) ==
  /\ job[n].pc = "write"
  /\ file' = [file EXCEPT ![n] = job[n].snap]
  /\ ioError' = [ioError EXCEPT ![n] = FALSE]
  /\ store' = [store EXCEPT ![n].dirty = FALSE]
  /\ job' = [job EXCEPT ![n] = Idle]
  /\ UNCHANGED <<queue, plugVars, netVars, counters>>

SaveRename(n) ==
  /\ job[n].pc = "write"
  /\ file' = [file EXCEPT ![n] = job[n].snap]
  /\ ioError' = [ioError EXCEPT ![n] = FALSE]
  /\ job' = [job EXCEPT ![n] = Idle]
  /\ UNCHANGED <<store, queue, plugVars, netVars, counters>>

\* Any step fails: the flag stays cleared.
SaveFails(n) ==
  /\ job[n].pc \in {"save", "write"}
  /\ ioError' = [ioError EXCEPT ![n] = TRUE]
  /\ job' = [job EXCEPT ![n] = Idle]
  /\ UNCHANGED <<store, file, queue, plugVars, netVars, counters>>

\* Memory is lost, the queue with it, the plugins too.
Leave(n) ==
  /\ store' = [store EXCEPT ![n] = InitStore]
  /\ queue' = [queue EXCEPT ![n] = <<>>]
  /\ job' = [job EXCEPT ![n] = Down]
  /\ plug' = [plug EXCEPT ![n] = NoPut]
  /\ Fault
  /\ UNCHANGED <<netVars, puts, deletes>>

Crash(n) == Up(n) /\ Leave(n) /\ UNCHANGED <<file, ioError, raced>>

\* ChordNode.deinit saves once more.
Stop(n) ==
  /\ job[n].pc = "idle"
  /\ IF n \in Persistent /\ store[n].dirty
     THEN \/ /\ file' = [file EXCEPT ![n] = store[n].map]
             /\ ioError' = [ioError EXCEPT ![n] = FALSE]
          \/ /\ ioError' = [ioError EXCEPT ![n] = TRUE]
             /\ UNCHANGED file
     ELSE UNCHANGED <<file, ioError>>
  /\ AtStore(n)
  /\ Leave(n)

Restart(n) ==
  /\ ~Up(n)
  /\ \E s \in Loaded(file[n]) :
       /\ store' = [store EXCEPT ![n] = s]
       /\ ioError' = [ioError EXCEPT ![n] = @ \/ s.map # file[n]]
  /\ job' = [job EXCEPT ![n] = Idle]
  /\ UNCHANGED <<file, queue, plugVars, netVars, counters>>

-----------------------------------------------------------------------------
ClientStep(n) == \E k \in Keys : HandlePut(n, k) \/ HandleDelete(n, k)

PluginStep(n) ==
  \/ \E k \in Keys : PluginReads(n, k)
  \/ PluginRemoves(n) \/ PluginInserts(n) \/ PluginGets(n) \/ PluginEnqueues(n)
  \/ PluginFails(n)

NetworkStep ==
  \E m \in reqs :
    \/ \E again, fails \in BOOLEAN : HandleReplicate(m, again, fails)
    \/ RequestLost(m)

RoundStep(n) == StartRound(n) \/ Answered(n) \/ TimedOut(n)

SaveStep(n) == SaveBegin(n) \/ SaveCollect(n) \/ SaveRename(n) \/ SaveFails(n)

Next ==
  \/ NetworkStep
  \/ \E n \in Nodes :
       \/ ClientStep(n) \/ PluginStep(n) \/ RoundStep(n) \/ SaveStep(n) \/ AnswerIgnored(n)
       \/ Crash(n) \/ Stop(n) \/ Restart(n)

Spec == Init /\ [][Next]_vars

\* The tick goes on, messages arrive or are lost, the supervisor starts a
\* node that is down. Plugins need not go on.
Fairness ==
  /\ WF_vars(NetworkStep)
  /\ \A n \in Nodes :
       /\ WF_vars(Answered(n) \/ TimedOut(n)) /\ WF_vars(StartRound(n))
       /\ WF_vars(SaveCollect(n) \/ SaveRename(n) \/ SaveFails(n)) /\ WF_vars(Restart(n))

FairSpec == Spec /\ Fairness

-----------------------------------------------------------------------------
(* Properties.                                                             *)

TypeOK ==
  /\ store \in [Nodes -> Store] /\ file \in [Nodes -> Snapshot]
  /\ queue \in [Nodes -> Seq(Item)] /\ job \in [Nodes -> Job]
  /\ plug \in [Nodes -> Put \cup {NoPut}] /\ raced \in [Nodes -> BOOLEAN]
  /\ reqs \subseteq Request /\ resps \in [Nodes -> Nat] /\ ioError \in [Nodes -> BOOLEAN]
  /\ puts \in Nat /\ deletes \in Nat /\ faults \in Nat
  /\ \A n \in Nodes :
       /\ job[n].pc = "wait" => queue[n] # <<>> /\ job[n].left # <<>>
       /\ \A i \in 1 .. Len(queue[n]) : queue[n][i].attempted < ReplicaCount

\* One counter serves local puts, network puts, replicas of others and the
\* entries of a loaded file: no two entries of a node ever share a version,
\* and the next put gets a new one, in memory and after a restart. Until two
\* threads are in the store at once (store.zig:116-117 has no lock).
VersionsDistinct ==
  \A n \in Nodes : ~raced[n] => VersionsOf(store[n].map, store[n].next)

\* save clears the dirty flag before it collects the entries, so that a put in
\* the middle of a save is never taken for saved: what a clean store has is in
\* the file, unless the file could not be written or read, but for a key whose
\* put is not through (store.zig:136-137) or failed once its entry was removed
\* (121-128). Until two threads are in the store at once.
CleanMeansSaved ==
  \A n \in Persistent :
    job[n].pc \in {"idle", "wait"} /\ ~store[n].dirty /\ ~ioError[n] /\ ~raced[n] =>
      \A k \in Keys \ store[n].unmarked : store[n].map[k] = file[n][k]

\* Without crashes, late answers, lost messages and want of memory the queue does
\* its work, however puts, deletes, rounds and the rounds of others interleave:
\* when it is empty and no put is on its way, every target holds the latest value
\* of each key of the node. Until two threads are at a store or a queue at once:
\* the older of two values may then be queued after the newer one.
CalmReplicasFollow ==
  faults = 0 /\ (\A n \in Nodes : ~raced[n]) =>
    \A k \in Keys : LET n == Home[k] IN
      queue[n] = <<>> /\ plug[n].pc = "none" /\ store[n].map[k] # NoEntry =>
        \A i \in 1 .. Len(Targets[n]) :
          LET copy == store[Targets[n][i]].map[k]
          IN  copy # NoEntry /\ copy.val = store[n].map[k].val

\* Every queued item leaves the queue, whatever is lost or late, as long as
\* nodes that are down come back and puts come to an end, and until two threads
\* are at the queue at once.
QueueDrains == \A n \in Nodes : queue[n] # <<>> ~> queue[n] = <<>> \/ raced[n]

=============================================================================
