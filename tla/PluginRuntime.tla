---------------------------- MODULE PluginRuntime ----------------------------
(***************************************************************************)
(* The dynamic plugin runtime: the registry and control channel of         *)
(* src/plugin/manager.zig and the launcher and workers of main.zig.        *)
(*                                                                         *)
(* Threads: one launcher thread per startup plugin, which waits for its    *)
(* worker; afterwards the main thread, which runs Chord ticks and serves   *)
(* one control request at a time (the "control thread"); one worker thread *)
(* per plugin; one watchdog.  A step is a critical section of              *)
(* Manager.mutex, an atomic access to a control signal, or a call that     *)
(* releases memory, in the order of the code.                              *)
(*                                                                         *)
(* Time is abstract: the deadline of a plugin may pass at any moment       *)
(* (Expire).  The bytecode a plugin runs is abstract: m3_Call may return   *)
(* at any moment, or never, and so may a native function of the host that  *)
(* the bytecode calls (a socket, a read, a request to another node): no    *)
(* signal reaches a worker that is in one.                                 *)
(***************************************************************************)
EXTENDS Naturals

CONSTANTS
  Handles,         \* the handles allocHandle may return; each one is used once
  StartupHandles,  \* those of the plugins the configuration starts
  NoHandle         \* "no handle"

ASSUME HandlesAssumption == StartupHandles \subseteq Handles /\ NoHandle \notin Handles

VARIABLES
  phase,      \* the main thread: startup, serving control requests, deinit
  rec,        \* the state of the record in the registry, "none" if absent
  ctl,        \* the memory of the control block
  sig,        \* the signal in the control block
  launcher,   \* program counter of the launchPlugin call of the handle
  worker,     \* program counter of PluginCallWork.run
  ret,        \* what m3_Call returned, then the outcome to be reported
  expired,    \* handles whose timeout_ms has passed
  bytesFrees, \* how often the bytecode buffer has been released
  workFrees,  \* how often the PluginCallWork has been released
  ctPc, ctArg,           \* the control thread: where it is, and its handle
  wd, wdList, wdTarget   \* the watchdog: its state, the handles it collected,
                         \* the handle whose control block it has looked up

memVars == <<bytesFrees, workFrees>>
ctVars  == <<ctPc, ctArg>>
wdVars  == <<wd, wdList, wdTarget>>
regVars == <<phase, expired>>
vars == <<regVars, rec, ctl, sig, launcher, worker, ret, memVars, ctVars, wdVars>>

ActiveState   == {"starting", "running", "paused"}
TerminalState == {"completed", "failed", "timeout", "cancelled"}
RecState      == ActiveState \cup TerminalState \cup {"none"}
Signal        == {"run", "pause", "cancel", "timeout"}
StopSignal    == {"cancel", "timeout"}
LauncherPc    == {"none", "putting", "prepare", "create", "spawn", "spawnFailed",
                  "earlyError", "catch", "waiting", "grace", "returned"}
\* A worker inside m3_Call: executing, in a native function of the host, about
\* to look at the signal under the control block's mutex, or asleep on its
\* condition.
InCall        == {"exec", "host", "check", "blocked"}
\* A worker that still uses its control block.
UsesControl   == InCall \cup {"returned"}
WorkerPc      == UsesControl \cup {"none", "report", "cleanup", "last", "done"}
CtPc          == {"idle", "launch", "cancelSignal", "pauseSignal", "pauseState",
                  "resumeSignal", "resumeState", "unloadRemove", "unloadFree",
                  "updateSignal", "updateWait", "updateLaunch"}

PluginTypeOK ==
  /\ phase \in {"startup", "serving", "stopping", "stopped"}
  /\ rec \in [Handles -> RecState]
  /\ ctl \in [Handles -> {"none", "live", "freed"}]
  /\ sig \in [Handles -> Signal]
  /\ launcher \in [Handles -> LauncherPc]
  /\ worker \in [Handles -> WorkerPc]
  /\ ret \in [Handles -> {"none", "interrupted", "ok", "trap"} \cup TerminalState]
  /\ expired \subseteq Handles
  /\ bytesFrees \in [Handles -> 0..2]
  /\ workFrees \in [Handles -> 0..2]
  /\ ctPc \in CtPc
  /\ ctArg \in Handles \cup {NoHandle}
  /\ wd \in {"off", "on", "exiting"}
  /\ wdList \subseteq Handles
  /\ wdTarget \in Handles \cup {NoHandle}

Init ==
  /\ phase = "startup"
  /\ rec = [h \in Handles |-> "none"]
  /\ ctl = [h \in Handles |-> "none"]
  /\ sig = [h \in Handles |-> "run"]
  /\ launcher = [h \in Handles |-> "none"]
  /\ worker = [h \in Handles |-> "none"]
  /\ ret = [h \in Handles |-> "none"]
  /\ expired = {}
  /\ bytesFrees = [h \in Handles |-> 0]
  /\ workFrees = [h \in Handles |-> 0]
  /\ ctPc = "idle" /\ ctArg = NoHandle
  /\ wd = "off" /\ wdList = {} /\ wdTarget = NoHandle

-----------------------------------------------------------------------------
(* Registry and control block.                                             *)

isActive(h) == rec[h] \in ActiveState

\* Manager.mutex is held across a step only while register inserts into the
\* two maps and while unload removes from them.
MutexFree ==
  /\ \A h \in Handles : launcher[h] # "putting"
  /\ ctPc # "unloadRemove"

\* setResult and setState on a record that is still in the map.
SetRecord(h, state) ==
  /\ MutexFree
  /\ rec' = IF rec[h] = "none" THEN rec ELSE [rec EXCEPT ![h] = state]

\* Mutant: the broadcast is forgotten.
StoreWithoutBroadcast(h, s) ==
  sig' = [sig EXCEPT ![h] = s] /\ UNCHANGED worker

\* cancel, timeoutCancel and resumeSignal: store and broadcast under the
\* control block's mutex.  A worker asleep on the condition goes on to
\* look at the signal again.
StoreAndWake(h, s) ==
  /\ sig' = [sig EXCEPT ![h] = s]
  /\ worker' = IF worker[h] = "blocked" THEN [worker EXCEPT ![h] = "check"] ELSE worker

\* requestPause: a bare atomic store.
requestPause(h) == sig' = [sig EXCEPT ![h] = "pause"]

-----------------------------------------------------------------------------
(* launchPlugin, by a startup thread or by the control thread.             *)

IsStartup(h) == h \in StartupHandles

\* The launch call ends; at startup only its own thread sees that.
\* A dynamic launch that ends gives the control thread back.
EndLaunch(h) ==
  IF IsStartup(h) THEN UNCHANGED ctVars
  ELSE ctPc' = "idle" /\ ctArg' = NoHandle

\* register: the control block and the record are allocated, the mutex is
\* taken and the maps are being written.
RegisterBegin(h) ==
  /\ launcher[h] = "none" /\ MutexFree
  /\ ctl' = [ctl EXCEPT ![h] = "live"]
  /\ launcher' = [launcher EXCEPT ![h] = "putting"]

StartupLaunch(h) ==
  /\ phase = "startup" /\ IsStartup(h)
  /\ RegisterBegin(h)
  /\ UNCHANGED <<regVars, rec, sig, worker, ret, memVars, ctVars, wdVars>>

\* launchOwned: ensureWatchdog starts the watchdog unless it runs already
\* (the thread may fail to start), then the launcher is called.
DynamicLaunch(h) ==
  /\ phase = "serving" /\ ctPc \in {"idle", "updateLaunch"} /\ ~IsStartup(h)
  /\ RegisterBegin(h)
  /\ ctPc' = "launch" /\ ctArg' = h
  /\ wd' \in (IF wd = "off" THEN {"on", "off"} ELSE {wd})
  /\ UNCHANGED <<regVars, rec, sig, worker, ret, memVars, wdList, wdTarget>>

RegisterOk(h) ==
  /\ launcher[h] = "putting"
  /\ rec' = [rec EXCEPT ![h] = "starting"]
  /\ launcher' = [launcher EXCEPT ![h] = "prepare"]
  /\ UNCHANGED <<regVars, ctl, sig, worker, ret, memVars, ctVars, wdVars>>

\* Out of memory: the control block is destroyed, reportPluginError finds no
\* record.
RegisterFail(h) ==
  /\ launcher[h] = "putting"
  /\ ctl' = [ctl EXCEPT ![h] = "freed"]
  /\ launcher' = [launcher EXCEPT ![h] = "earlyError"]
  /\ UNCHANGED <<regVars, rec, sig, worker, ret, memVars, ctVars, wdVars>>

\* Environment, runtime, parsing, loading, linking and finding _start.
PrepareOk(h) ==
  /\ launcher[h] = "prepare"
  /\ launcher' = [launcher EXCEPT ![h] = "create"]
  /\ UNCHANGED <<regVars, rec, ctl, sig, worker, ret, memVars, ctVars, wdVars>>

\* reportPluginError, then return error.PluginLaunchFailed.
PrepareFail(h) ==
  /\ launcher[h] = "prepare"
  /\ SetRecord(h, "failed")
  /\ launcher' = [launcher EXCEPT ![h] = "earlyError"]
  /\ UNCHANGED <<regVars, ctl, sig, worker, ret, memVars, ctVars, wdVars>>

CreateWorkOk(h) ==
  /\ launcher[h] = "create"
  /\ launcher' = [launcher EXCEPT ![h] = "spawn"]
  /\ UNCHANGED <<regVars, rec, ctl, sig, worker, ret, memVars, ctVars, wdVars>>

\* Out of memory: `try' returns without a report, so the record stays.
CreateWorkFail(h) ==
  /\ launcher[h] = "create"
  /\ launcher' = [launcher EXCEPT ![h] = "earlyError"]
  /\ UNCHANGED <<regVars, rec, ctl, sig, worker, ret, memVars, ctVars, wdVars>>

SpawnOk(h) ==
  /\ launcher[h] = "spawn"
  /\ worker' = [worker EXCEPT ![h] = "exec"]
  /\ launcher' = [launcher EXCEPT ![h] = IF IsStartup(h) THEN "waiting" ELSE "returned"]
  /\ EndLaunch(h)
  /\ UNCHANGED <<regVars, rec, ctl, sig, ret, memVars, wdVars>>

\* reportPluginError ...
SpawnFail(h) ==
  /\ launcher[h] = "spawn"
  /\ SetRecord(h, "failed")
  /\ launcher' = [launcher EXCEPT ![h] = "spawnFailed"]
  /\ UNCHANGED <<regVars, ctl, sig, worker, ret, memVars, ctVars, wdVars>>

\* ... then destroy(work), and errdefer destroy(work) as the error returns.
SpawnFailFree(h) ==
  /\ launcher[h] = "spawnFailed"
  /\ workFrees' = [workFrees EXCEPT ![h] = 2]
  /\ launcher' = [launcher EXCEPT ![h] = IF IsStartup(h) THEN "returned" ELSE "catch"]
  /\ UNCHANGED <<regVars, rec, ctl, sig, worker, ret, bytesFrees, ctVars, wdVars>>

\* The deferred `if (bytes_owned) free' of an early error.
EarlyErrorFree(h) ==
  /\ launcher[h] = "earlyError"
  /\ bytesFrees' = [bytesFrees EXCEPT ![h] = @ + 1]
  /\ launcher' = [launcher EXCEPT ![h] = IF IsStartup(h) THEN "returned" ELSE "catch"]
  /\ UNCHANGED <<regVars, rec, ctl, sig, worker, ret, workFrees, ctVars, wdVars>>

\* launchOwned's catch.
LaunchOwnedCatch(h) ==
  /\ launcher[h] = "catch"
  /\ bytesFrees' = [bytesFrees EXCEPT ![h] = @ + 1]
  /\ launcher' = [launcher EXCEPT ![h] = "returned"]
  /\ EndLaunch(h)
  /\ UNCHANGED <<regVars, rec, ctl, sig, worker, ret, workFrees, wdVars>>

\* The startup thread sees `done', joins the worker and destroys the work.
JoinWorker(h) ==
  /\ launcher[h] \in {"waiting", "grace"} /\ worker[h] = "done"
  /\ workFrees' = [workFrees EXCEPT ![h] = @ + 1]
  /\ launcher' = [launcher EXCEPT ![h] = "returned"]
  /\ UNCHANGED <<regVars, rec, ctl, sig, worker, ret, bytesFrees, ctVars, wdVars>>

\* The deadline passed before `done' was seen.
WaitTimeout(h) ==
  /\ launcher[h] = "waiting" /\ h \in expired /\ worker[h] # "done"
  /\ StoreAndWake(h, "timeout")
  /\ launcher' = [launcher EXCEPT ![h] = "grace"]
  /\ UNCHANGED <<regVars, rec, ctl, ret, memVars, ctVars, wdVars>>

\* 200 ms later the worker still runs: it is detached, its work leaks.
DetachWorker(h) ==
  /\ launcher[h] = "grace" /\ worker[h] # "done"
  /\ launcher' = [launcher EXCEPT ![h] = "returned"]
  /\ UNCHANGED <<regVars, rec, ctl, sig, worker, ret, memVars, ctVars, wdVars>>

LauncherStep(h) ==
  \/ RegisterOk(h) \/ RegisterFail(h) \/ PrepareOk(h) \/ PrepareFail(h)
  \/ CreateWorkOk(h) \/ CreateWorkFail(h) \/ SpawnOk(h) \/ SpawnFail(h)
  \/ SpawnFailFree(h) \/ EarlyErrorFree(h) \/ LaunchOwnedCatch(h)
  \/ JoinWorker(h) \/ WaitTimeout(h) \/ DetachWorker(h)

-----------------------------------------------------------------------------
(* The worker: PluginCallWork.run and the interpreter's control check.     *)

\* The model ends with deinit: the process exits right after it.
At(h, pc) == phase # "stopped" /\ worker[h] = pc

\* controlCheck at a call or a backward jump.
ControlCheck(h) ==
  /\ At(h, "exec") /\ sig[h] # "run"
  /\ IF sig[h] = "pause"
     THEN worker' = [worker EXCEPT ![h] = "check"] /\ UNCHANGED ret
     ELSE worker' = [worker EXCEPT ![h] = "returned"] /\ ret' = [ret EXCEPT ![h] = "interrupted"]
  /\ UNCHANGED <<regVars, rec, ctl, sig, launcher, memVars, ctVars, wdVars>>

\* One turn of its loop under the mutex: wait while the signal says pause.
ControlCheckLocked(h) ==
  /\ At(h, "check")
  /\ \/ sig[h] = "pause" /\ worker' = [worker EXCEPT ![h] = "blocked"] /\ UNCHANGED ret
     \/ sig[h] = "run" /\ worker' = [worker EXCEPT ![h] = "exec"] /\ UNCHANGED ret
     \/ /\ sig[h] \in StopSignal
        /\ worker' = [worker EXCEPT ![h] = "returned"]
        /\ ret' = [ret EXCEPT ![h] = "interrupted"]
  /\ UNCHANGED <<regVars, rec, ctl, sig, launcher, memVars, ctVars, wdVars>>

\* m3_Call returns by itself: normally (or through proc_exit), or trapped.
CallReturns(h) ==
  /\ At(h, "exec")
  /\ \E r \in {"ok", "trap"} : ret' = [ret EXCEPT ![h] = r]
  /\ worker' = [worker EXCEPT ![h] = "returned"]
  /\ UNCHANGED <<regVars, rec, ctl, sig, launcher, memVars, ctVars, wdVars>>

\* A native function of the host is called; it returns or traps.
HostCall(h) ==
  /\ At(h, "exec")
  /\ worker' = [worker EXCEPT ![h] = "host"]
  /\ UNCHANGED <<regVars, rec, ctl, sig, launcher, ret, memVars, ctVars, wdVars>>

HostReturns(h) ==
  /\ At(h, "host")
  /\ \/ worker' = [worker EXCEPT ![h] = "exec"] /\ UNCHANGED ret
     \/ worker' = [worker EXCEPT ![h] = "returned"] /\ ret' = [ret EXCEPT ![h] = "trap"]
  /\ UNCHANGED <<regVars, rec, ctl, sig, launcher, memVars, ctVars, wdVars>>

\* The signal decides the outcome first, the result of the call only if no
\* stop is signalled.
Outcome(s, r) ==
  IF s = "timeout" THEN "timeout"
  ELSE IF s = "cancel" THEN "cancelled"
  ELSE IF r = "ok" THEN "completed" ELSE "failed"

ReadSignal(h) ==
  /\ At(h, "returned")
  /\ ret' = [ret EXCEPT ![h] = Outcome(sig[h], @)]
  /\ worker' = [worker EXCEPT ![h] = "report"]
  /\ UNCHANGED <<regVars, rec, ctl, sig, launcher, memVars, ctVars, wdVars>>

ReportResult(h) ==
  /\ At(h, "report")
  /\ SetRecord(h, ret[h])
  /\ ret' = [ret EXCEPT ![h] = "none"]
  /\ worker' = [worker EXCEPT ![h] = "cleanup"]
  /\ UNCHANGED <<regVars, ctl, sig, launcher, memVars, ctVars, wdVars>>

\* Mutant: self_free is not looked at.
ReleaseAllAlways(h) ==
  /\ At(h, "cleanup")
  /\ bytesFrees' = [bytesFrees EXCEPT ![h] = @ + 1]
  /\ workFrees' = [workFrees EXCEPT ![h] = @ + 1]
  /\ worker' = [worker EXCEPT ![h] = "last"]
  /\ UNCHANGED <<regVars, rec, ctl, sig, launcher, ret, ctVars, wdVars>>

\* Runtime, environment, bytecode, and in dynamic mode the work itself.
ReleaseAll(h) ==
  /\ At(h, "cleanup")
  /\ bytesFrees' = [bytesFrees EXCEPT ![h] = @ + 1]
  /\ workFrees' = IF IsStartup(h) THEN workFrees ELSE [workFrees EXCEPT ![h] = @ + 1]
  /\ worker' = [worker EXCEPT ![h] = "last"]
  /\ UNCHANGED <<regVars, rec, ctl, sig, launcher, ret, ctVars, wdVars>>

\* The deferred `self.done.store(true)', after everything else.
StoreDone(h) ==
  /\ At(h, "last")
  /\ worker' = [worker EXCEPT ![h] = "done"]
  /\ UNCHANGED <<regVars, rec, ctl, sig, launcher, ret, memVars, ctVars, wdVars>>

\* What a scheduled worker does sooner or later, whatever the bytecode is.
WorkerProgress(h) ==
  \/ ControlCheck(h) \/ ControlCheckLocked(h) \/ ReadSignal(h)
  \/ ReportResult(h) \/ ReleaseAll(h) \/ StoreDone(h)

WorkerStep(h) == WorkerProgress(h) \/ CallReturns(h) \/ HostCall(h) \/ HostReturns(h)

-----------------------------------------------------------------------------
(* The control thread: one request at a time, from pluginControlHandler.   *)

GoTo(pc, h) == ctPc' = pc /\ ctArg' = h
Finish      == GoTo("idle", NoHandle)

\* A request is accepted: the first critical section of the operation, which
\* looks at the record; the refused requests change nothing.
CtCheck(h, states, next) ==
  /\ phase = "serving" /\ ctPc = "idle" /\ MutexFree
  /\ rec[h] \in states
  /\ GoTo(next, h)
  /\ UNCHANGED <<regVars, rec, ctl, sig, launcher, worker, ret, memVars, wdVars>>

Cancel(h) == CtCheck(h, ActiveState, "cancelSignal")
Pause(h)  == CtCheck(h, {"starting", "running"}, "pauseSignal")
Resume(h) == CtCheck(h, {"paused"}, "resumeSignal")
\* Mutant: a paused instance counts as inactive.
UnloadPausedToo(h) == CtCheck(h, TerminalState \cup {"paused"}, "unloadRemove")

Unload(h) == CtCheck(h, TerminalState, "unloadRemove")
\* plugin_update: snapshot, then cancel, which signals an active instance.
Update(h) == \/ CtCheck(h, ActiveState, "updateSignal")
             \/ CtCheck(h, TerminalState, "updateLaunch")

CancelSignal ==
  /\ ctPc \in {"cancelSignal", "updateSignal"}
  /\ StoreAndWake(ctArg, "cancel")
  /\ IF ctPc = "cancelSignal" THEN Finish ELSE GoTo("updateWait", ctArg)
  /\ UNCHANGED <<regVars, rec, ctl, launcher, ret, memVars, wdVars>>

\* The poll for the old instance: it ends by itself or after 3 s.
UpdateWaitDone ==
  /\ ctPc = "updateWait" /\ MutexFree
  /\ GoTo("updateLaunch", ctArg)
  /\ UNCHANGED <<regVars, rec, ctl, sig, launcher, worker, ret, memVars, wdVars>>

\* The new bytecode cannot be fetched or copied.  Otherwise DynamicLaunch.
UpdateAbort ==
  /\ ctPc = "updateLaunch"
  /\ Finish
  /\ UNCHANGED <<regVars, rec, ctl, sig, launcher, worker, ret, memVars, wdVars>>

PauseSignal ==
  /\ ctPc = "pauseSignal"
  /\ requestPause(ctArg)
  /\ GoTo("pauseState", ctArg)
  /\ UNCHANGED <<regVars, rec, ctl, launcher, worker, ret, memVars, wdVars>>

PauseState ==
  /\ ctPc = "pauseState"
  /\ SetRecord(ctArg, "paused")
  /\ Finish
  /\ UNCHANGED <<regVars, ctl, sig, launcher, worker, ret, memVars, wdVars>>

ResumeSignal ==
  /\ ctPc = "resumeSignal"
  /\ StoreAndWake(ctArg, "run")
  /\ GoTo("resumeState", ctArg)
  /\ UNCHANGED <<regVars, rec, ctl, launcher, ret, memVars, wdVars>>

ResumeState ==
  /\ ctPc = "resumeState"
  /\ SetRecord(ctArg, "running")
  /\ Finish
  /\ UNCHANGED <<regVars, ctl, sig, launcher, worker, ret, memVars, wdVars>>

\* unload: both maps, still under the mutex taken by the check ...
UnloadRemove ==
  /\ ctPc = "unloadRemove"
  /\ rec' = [rec EXCEPT ![ctArg] = "none"]
  /\ GoTo("unloadFree", ctArg)
  /\ UNCHANGED <<regVars, ctl, sig, launcher, worker, ret, memVars, wdVars>>

\* ... then the memory, without it.
UnloadFree ==
  /\ ctPc = "unloadFree"
  /\ ctl' = [ctl EXCEPT ![ctArg] = "freed"]
  /\ Finish
  /\ UNCHANGED <<regVars, rec, sig, launcher, worker, ret, memVars, wdVars>>

CtStep ==
  \/ CancelSignal \/ UpdateWaitDone \/ UpdateAbort \/ PauseSignal \/ PauseState
  \/ ResumeSignal \/ ResumeState \/ UnloadRemove \/ UnloadFree

CtRequest(h) ==
  Cancel(h) \/ Pause(h) \/ Resume(h) \/ Unload(h) \/ Update(h) \/ DynamicLaunch(h)

-----------------------------------------------------------------------------
(* The watchdog: every 20 ms it collects the overdue handles under the     *)
(* mutex and signals them without it.                                      *)

\* Mutant: `.starting' is forgotten, the state a plugin normally executes in.
WdScanRunningOnly ==
  /\ wd = "on" /\ wdList = {} /\ wdTarget = NoHandle /\ MutexFree
  /\ wdList' = {h \in expired : rec[h] = "running"}
  /\ UNCHANGED <<regVars, rec, ctl, sig, launcher, worker, ret, memVars, ctVars, wd, wdTarget>>

WdScan ==
  /\ wd = "on" /\ wdList = {} /\ wdTarget = NoHandle /\ MutexFree
  /\ wdList' = {h \in expired : rec[h] \in {"starting", "running"}}
  /\ UNCHANGED <<regVars, rec, ctl, sig, launcher, worker, ret, memVars, ctVars, wd, wdTarget>>

\* `controls.get(handle)' outside the mutex: it races with a writer of the
\* map, and may then miss an entry that is there.
WdLookup(h) ==
  /\ h \in wdList /\ wdTarget = NoHandle
  /\ wdList' = wdList \ {h}
  /\ \/ rec[h] # "none" /\ wdTarget' = h
     \/ (rec[h] = "none" \/ ~MutexFree) /\ UNCHANGED wdTarget
  /\ UNCHANGED <<regVars, rec, ctl, sig, launcher, worker, ret, memVars, ctVars, wd>>

\* Mutant: the watchdog records the timeout itself.
WdSignalAndRecord ==
  /\ wdTarget # NoHandle
  /\ StoreAndWake(wdTarget, "timeout")
  /\ SetRecord(wdTarget, "timeout")
  /\ wdTarget' = NoHandle
  /\ UNCHANGED <<regVars, ctl, launcher, ret, memVars, ctVars, wd, wdList>>

WdSignal ==
  /\ wdTarget # NoHandle
  /\ StoreAndWake(wdTarget, "timeout")
  /\ wdTarget' = NoHandle
  /\ UNCHANGED <<regVars, rec, ctl, launcher, ret, memVars, ctVars, wd, wdList>>

WdExit ==
  /\ wd = "exiting" /\ wdList = {} /\ wdTarget = NoHandle
  /\ wd' = "off"
  /\ UNCHANGED <<regVars, rec, ctl, sig, launcher, worker, ret, memVars, ctVars, wdList, wdTarget>>

WdStep == WdScan \/ (\E h \in Handles : WdLookup(h)) \/ WdSignal \/ WdExit

-----------------------------------------------------------------------------
(* The main thread's phases, and time.                                     *)

\* Every startup thread has been joined (a plugin that is not embedded, or
\* whose thread cannot be started, is skipped): the tick loop begins.
StartupDone ==
  /\ phase = "startup"
  /\ \A h \in StartupHandles : launcher[h] \in {"none", "returned"}
  /\ phase' = "serving"
  /\ UNCHANGED <<expired, rec, ctl, sig, launcher, worker, ret, memVars, ctVars, wdVars>>

\* Manager.deinit: stop and join the watchdog ...
DeinitStop ==
  /\ phase = "serving" /\ ctPc = "idle"
  /\ phase' = "stopping"
  /\ wd' = IF wd = "on" THEN "exiting" ELSE wd
  /\ UNCHANGED <<expired, rec, ctl, sig, launcher, worker, ret, memVars, ctVars, wdList, wdTarget>>

\* ... then free the control block of every record and the records.
DeinitFree ==
  /\ phase = "stopping" /\ wd = "off" /\ MutexFree
  /\ phase' = "stopped"
  /\ ctl' = [h \in Handles |-> IF rec[h] = "none" THEN ctl[h] ELSE "freed"]
  /\ rec' = [h \in Handles |-> "none"]
  /\ UNCHANGED <<expired, sig, launcher, worker, ret, memVars, ctVars, wdVars>>

\* timeout_ms has passed since the record's started_ns.
Expire(h) ==
  /\ rec[h] # "none" /\ h \notin expired
  /\ expired' = expired \cup {h}
  /\ UNCHANGED <<phase, rec, ctl, sig, launcher, worker, ret, memVars, ctVars, wdVars>>

Next ==
  \/ \E h \in Handles :
       StartupLaunch(h) \/ LauncherStep(h) \/ WorkerStep(h) \/ CtRequest(h) \/ Expire(h)
  \/ CtStep \/ WdStep \/ StartupDone \/ DeinitStop \/ DeinitFree

Spec == Init /\ [][Next]_vars

(* Threads are scheduled: a started request goes on, the watchdog wakes    *)
(* up, and a worker that executes bytecode reaches the next call or        *)
(* backward jump: strongly, since bytecode without one makes no endless    *)
(* sequence of calls into the host.  No request is ever sure to be made,   *)
(* no bytecode and no function of the host is sure to return.              *)
Fairness ==
  /\ \A h \in Handles : WF_vars(WorkerProgress(h)) /\ SF_vars(ControlCheck(h))
  /\ \A h \in Handles : WF_vars(LauncherStep(h))
  /\ WF_vars(CtStep)
  /\ WF_vars(WdStep)

FairSpec == Spec /\ Fairness

-----------------------------------------------------------------------------
(* Properties.                                                             *)

(* unload frees a record and its control block while other threads hold    *)
(* pointers to them: as long as a worker may still touch its control       *)
(* block, its bytecode (wasm3 does not copy it) or its work, none of them  *)
(* has been released and its record still counts as active.                *)
WorkerHoldsResources ==
  phase # "stopped" =>
    \A h \in Handles :
      /\ worker[h] \in UsesControl => rec[h] \in ActiveState /\ ctl[h] = "live"
      /\ worker[h] \in UsesControl \cup {"report", "cleanup"} =>
           bytesFrees[h] = 0 /\ workFrees[h] = 0

(* Once a worker has been spawned, who releases its work (the worker       *)
(* itself or the startup thread that joins it) and its bytecode is settled *)
(* (self_free, bytes_owned): nothing is released twice.                    *)
ReleasedOnceAfterSpawn ==
  \A h \in Handles : worker[h] # "none" => bytesFrees[h] <= 1 /\ workFrees[h] <= 1

(* setResult's outcome is final, up to unload and to the one hole that     *)
(* pause and resume leave open: they set the state in a second critical    *)
(* section, without looking at it again.                                   *)
OutcomeOverwrittenOnlyByPauseResume ==
  [][\A h \in Handles :
       rec[h] \in TerminalState /\ rec'[h] # rec[h] =>
         \/ rec'[h] = "none"
         \/ ctPc \in {"pauseState", "resumeState"} /\ ctArg = h]_vars

Stopped(h) == worker[h] \in {"none", "report", "cleanup", "last", "done"}

\* The worker is in a function of the host that never returns.
StuckInHost(h) == <>[](worker[h] = "host")

(* A cancel or timeout signal ends the call at the next call or backward   *)
(* jump, also when the worker sleeps in a pause, unless a later pause or   *)
(* resume takes the signal back or the worker is stuck in the host.        *)
StopSignalEndsCall ==
  \A h \in Handles :
    \/ sig[h] \in StopSignal /\ worker[h] \in InCall ~>
         Stopped(h) \/ sig[h] \notin StopSignal \/ phase = "stopped"
    \/ StuckInHost(h)

(* With the watchdog running, a plugin whose timeout_ms has passed stops,  *)
(* whatever its bytecode does, unless it is paused or stuck in the host.   *)
TimeoutEnforced ==
  \A h \in Handles :
    \/ wd = "on" /\ h \in expired /\ rec[h] \in {"starting", "running"} /\ worker[h] \in InCall ~>
         Stopped(h) \/ rec[h] = "paused" \/ phase \in {"stopping", "stopped"}
    \/ StuckInHost(h)
=============================================================================
