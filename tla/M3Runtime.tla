------------------------------- MODULE M3Runtime -------------------------------
(***************************************************************************)
(* The interpreter at work: what the host asks of wasm3 (m3_env.c,         *)
(* m3_bind.c) and the operations of m3_exec.h that call, compile on the    *)
(* way, grow the memory and go round a loop, over the pages of M3Pages.    *)
(*                                                                         *)
(* The thread's native stack is "stack".  An m3_Call runs compiled code,   *)
(* every call and every loop of which is a native frame with a pointer of  *)
(* its own to the linear memory; an import runs code of the host, which    *)
(* may use the interpreter again.  A trap unwinds to the m3_Call.          *)
(***************************************************************************)
EXTENDS M3Pages, SequencesExt

CONSTANTS
    Modules,        \* the modules parsed
    ModuleOf,       \* [Functions -> Modules]
    Imports,        \* the functions that have no body and are linked by the host
    Code,           \* what is emitted for the body of a function, and for "expression":
                    \*   a sequence of <<"op", lines>>, <<"unchecked", lines>>, <<"table", targets>>,
                    \*   <<"target">>, <<"end target">>, <<"else">>, <<"end else">>
    Calls,          \* by function, those it calls: of its module, whose imports are functions of it, too
    Table,          \* by module, the functions in its table, its own as well
    Loops,          \* the functions with loops
    Growers,        \* the functions that grow the memory
    StartOf,        \* by module, its start function or "none"
    Expressions,    \* by module, the number of its initial values and offsets
    MaxDepth,       \* bound: native frames
    MaxMoves,       \* bound: times a linear memory is resized
    MaxRepeats      \* bound: compilations given up and imports linked again

ASSUME RuntimeAssumption ==
    /\ "none" \notin Functions
    /\ ModuleOf \in [Functions -> Modules]
    /\ Imports \subseteq Functions
    /\ Calls \in [Functions -> SUBSET Functions]
    /\ \A f \in Functions : \A g \in Calls[f] : ModuleOf[g] = ModuleOf[f]
    /\ Table \in [Modules -> SUBSET Functions]
    /\ \A m \in Modules : \A g \in Table[m] : ModuleOf[g] = m
    /\ StartOf \in [Modules -> (Functions \ Imports) \cup {"none"}]
    /\ \A m \in Modules : StartOf[m] \in Functions => ModuleOf[StartOf[m]] = m
    /\ Expressions \in [Modules -> Nat]

VARIABLES
    stack,          \* the native frames, the innermost last
    at,             \* how much of the code being compiled is emitted
    mods,           \* by module, [in, state]: its runtime, and "parsed", "listed" or "freed"
    start,          \* by module, its start function: "none", "pending", "running" or "done"
    memory,         \* by runtime, where its linear memory is (the number of times it was resized)
    site,           \* by caller and callee, the operation and its operand:
                    \*   "compile" (op_Compile), "code" or "function" (op_Call of code, of the function's record)
    repeats,        \* counts for MaxRepeats
    wild            \* the code of no function was called; what happens then is not defined

vars == <<pageVars, stack, at, mods, start, memory, site, repeats, wild>>

InMod(f) == mods[ModuleOf[f]].in
CompiledFn(f) == code[f] # {}
Top == Last(stack)
Kind == IF stack = <<>> THEN "none" ELSE Top.k
Frame(k, f, mem) == [k |-> k, f |-> f, mem |-> mem]

\* The host has the floor, or the compiled code of the innermost frame.
HostTurn == ~wild /\ ~Compiling /\ Kind \in {"none", "raw"}
CodeTurn == ~wild /\ ~Compiling /\ Kind \in {"wasm", "loop"}
RoomFor(n) == Len(stack) + n <= MaxDepth

Runs == UNCHANGED pageVars

(* Modules *)

\* m3_LoadModule.  The runtime's memory is resized for every module that
\* does not import one; the module is listed only after all expressions.
LoadModule(m, r) ==
    /\ HostTurn /\ RoomFor(1) /\ runtimes[r] = "live" /\ mods[m] = [in |-> NoOwner, state |-> "parsed"]
    /\ memory[r] < MaxMoves
    /\ memory' = [memory EXCEPT ![r] = @ + 1]
    /\ mods' = [mods EXCEPT ![m].in = r]
    /\ stack' = Append(stack, [k |-> "load", m |-> m, n |-> Expressions[m]])
    /\ Runs /\ UNCHANGED <<at, start, site, repeats, wild>>

Loading == Kind = "load"
Fails(m) == mods' = [mods EXCEPT ![m].in = NoOwner] /\ stack' = Front(stack)

LoadExpression ==
    /\ ~Compiling /\ Loading /\ Top.n > 0
    /\ BeginExpression
    /\ at' = 0
    /\ IF comp'.what = "nothing" THEN Fails(Top.m) ELSE UNCHANGED <<mods, stack>>
    /\ UNCHANGED <<start, memory, site, repeats, wild>>

ExpressionDone ==
    /\ comp.what = "expression" /\ at = Len(Code["expression"])
    /\ EndExpression
    /\ stack' = [stack EXCEPT ![Len(stack)].n = @ - 1]
    /\ UNCHANGED <<at, mods, start, memory, site, repeats, wild>>

LoadDone ==
    /\ ~Compiling /\ Loading /\ Top.n = 0
    /\ mods' = [mods EXCEPT ![Top.m].state = "listed"]
    /\ stack' = Front(stack)
    /\ Runs /\ UNCHANGED <<at, start, memory, site, repeats, wild>>

\* A segment out of bounds, no memory, a table that underflows...
LoadFails ==
    /\ ~Compiling /\ Loading /\ Fails(Top.m)
    /\ Runs /\ UNCHANGED <<at, start, memory, site, repeats, wild>>

\* FindAndLinkFunction
Link(f) ==
    /\ HostTurn /\ f \in Imports
    /\ \E r \in Runtimes : r = InMod(f) /\ LinkRaw(r, f)
    /\ CompiledFn(f) => repeats < MaxRepeats
    /\ repeats' = IF CompiledFn(f) THEN repeats + 1 ELSE repeats
    /\ UNCHANGED <<stack, at, mods, start, memory, site, wild>>

Open(r) ==
    /\ HostTurn /\ stack = <<>> /\ NewRuntime(r)
    /\ UNCHANGED <<stack, at, mods, start, memory, site, repeats, wild>>

\* The modules on the runtime's list are freed; one that failed to load is not
\* on it.
Close(r) ==
    /\ HostTurn /\ stack = <<>> /\ FreeRuntime(r)
    /\ mods' = [m \in Modules |-> IF mods[m].in = r THEN [in |-> NoOwner, state |-> "freed"] ELSE mods[m]]
    /\ site' = [f \in Functions |-> IF home[f] = r THEN [g \in Functions |-> "none"] ELSE site[f]]
    /\ UNCHANGED <<stack, at, start, memory, repeats, wild>>

(* How a native frame ends *)

RunningIn == home[Top.f]
Innermost(kinds) == Max({i \in DOMAIN stack : stack[i].k \in kinds})

\* The pointer to the memory is read anew when a call, or one round of a loop, is over.
StaleFrame(frame) == frame              \* mutant: the pointer is kept
Refreshed(frame) == [frame EXCEPT !.mem = memory[home[frame.f]]]

\* A trap goes through every frame to the m3_Call or the start function it is
\* in; the start function is to be run again, and the call it was run for fails.
Unwound ==
    LET u == Innermost({"call", "start"})
        starting == stack[u].k = "start"
        called == starting /\ u > 1 /\ stack[u - 1].k = "call"
    IN  /\ stack' = SubSeq(stack, 1, IF called THEN u - 2 ELSE u - 1)
        /\ start' = IF starting THEN [start EXCEPT ![stack[u].m] = "pending"] ELSE start

\* The frames above the n-th are left, and what the n-th waited for is done.
BackTo(n) ==
    LET b == stack[n]
    IN  /\ stack' = SubSeq(stack, 1, n - 1) \o (IF b.k \in {"wasm", "loop"} THEN <<Refreshed(b)>> ELSE <<>>)
        /\ start' = IF b.k = "start" THEN [start EXCEPT ![b.m] = "done"] ELSE start

Entered(frames, g, mem) == Append(frames, Frame(IF g \in Imports THEN "raw" ELSE "wasm", g, mem))

(* Compilation *)

\* CompileFunction for what "then" says: "find", "start", "site" or "indirect".
CompileFor(frames, f, then) ==
    /\ \E r \in Runtimes : r = InMod(f) /\ BeginFunction(r, f)
    /\ at' = 0
    /\ IF comp'.what # "nothing"
       THEN stack' = Append(frames, [k |-> "compile", f |-> f, then |-> then]) /\ UNCHANGED start
       ELSE IF then = "find" THEN stack' = frames /\ UNCHANGED start
       ELSE Unwound

\* An error ends the compilation, and with it the load, search or run it was for.
CompileFailed ==
    CASE Top.k = "load" -> Fails(Top.m) /\ UNCHANGED start
      [] Top.k = "compile" /\ Top.then = "find" -> stack' = Front(stack) /\ UNCHANGED <<mods, start>>
      [] OTHER -> Unwound /\ UNCHANGED mods

GivesUp == CompileFailed /\ repeats < MaxRepeats /\ repeats' = repeats + 1

Emits(item) == Compiling /\ at < Len(Code[comp.what]) /\ Code[comp.what][at + 1] = item

EmitNext ==
    /\ \/ \E n \in OpWords : Emits(<<"op", n>>) /\ EmitOp(n)
       \/ \E n \in OpWords : Emits(<<"unchecked", n>>) /\ EmitOpUnchecked(n)
       \/ \E n \in 0..MaxTargets : Emits(<<"table", n>>) /\ BeginTable(n)
       \/ Emits(<<"target">>) /\ BeginTarget
       \/ Emits(<<"end target">>) /\ EndTarget
       \/ Emits(<<"else">>) /\ BeginElse
       \/ Emits(<<"end else">>) /\ EndElse
       \/ Throw
    /\ IF comp'.what = "nothing" THEN GivesUp ELSE UNCHANGED <<stack, mods, start, repeats>>
    /\ at' = at + 1
    /\ UNCHANGED <<memory, site, wild>>

\* A call of an import nobody has linked is not compiled.  The code of a call
\* depends on whether the callee is compiled by then (the function itself is
\* not yet).
CallOps(f) ==
    [g \in Functions |-> IF g \notin Calls[f] THEN "none" ELSE IF CompiledFn(g) THEN "code" ELSE "compile"]

Compiled ==
    LET f == Top.f
        below == Front(stack)
        caller == Last(below)
    IN  /\ comp.what \in Functions /\ at = Len(Code[f])
        /\ \A g \in Calls[f] \cap Imports : CompiledFn(g)
        /\ EndFunction
        /\ site' = [x \in Functions |->
                       IF x = f THEN CallOps(f)
                       ELSE IF Top.then = "site" /\ x = caller.f THEN [site[x] EXCEPT ![f] = "code"]
                       ELSE site[x]]
        /\ CASE Top.then = "find" -> stack' = below /\ UNCHANGED start
             [] Top.then = "start" -> /\ stack' = Entered(below, f, memory[InMod(f)])
                                      /\ start' = [start EXCEPT ![caller.m] = "running"]
             [] OTHER -> stack' = Entered(below, f, caller.mem) /\ UNCHANGED start
        /\ UNCHANGED <<at, mods, memory, repeats, wild>>

\* The constants cannot be copied: an error, although "compiled" is set.
CompiledWithoutConstants ==
    /\ comp.what \in Functions /\ at = Len(Code[Top.f])
    /\ EndFunction
    /\ site' = [site EXCEPT ![Top.f] = CallOps(Top.f)]
    /\ GivesUp
    /\ UNCHANGED <<at, memory, wild>>

(* What the host asks for *)

FindFunction(f) ==
    /\ HostTurn /\ RoomFor(1) /\ mods[ModuleOf[f]].state = "listed" /\ f \notin Imports
    /\ CompileFor(stack, f, "find")
    /\ UNCHANGED <<mods, memory, site, repeats, wild>>

\* m3_Call, and the other forms of it.
Call(f) ==
    /\ HostTurn /\ RoomFor(2) /\ mods[ModuleOf[f]].state = "listed" /\ CompiledFn(f)
    /\ stack' = Append(stack, [k |-> "call", f |-> f])
    /\ Runs /\ UNCHANGED <<at, mods, start, memory, site, repeats, wild>>

RunStart(m) ==
    /\ ~Compiling /\ start[m] = "pending" /\ mods[m].state = "listed" /\ RoomFor(2)
    /\ HostTurn \/ (Kind = "call" /\ ModuleOf[Top.f] = m)
    /\ stack' = Append(stack, [k |-> "start", m |-> m])
    /\ Runs /\ UNCHANGED <<at, mods, start, memory, site, repeats, wild>>

\* m3_RunStart goes on: the start function is forgotten before it runs.
RunStartFunction ==
    /\ ~Compiling /\ Kind = "start"
    /\ \E f \in Functions :
         /\ f = StartOf[Top.m]
         /\ IF CompiledFn(f)
            THEN /\ stack' = Entered(stack, f, memory[InMod(f)])
                 /\ start' = [start EXCEPT ![Top.m] = "running"]
                 /\ Runs /\ UNCHANGED at
            ELSE CompileFor(stack, f, "start")
    /\ UNCHANGED <<mods, memory, site, repeats, wild>>

StartUnchecked(m) == TRUE               \* mutant: m3_Call does not look for a start function
CheckStart(m) == start[m] # "pending"

RunCalled ==
    /\ ~Compiling /\ Kind = "call" /\ CheckStart(ModuleOf[Top.f])
    /\ stack' = Entered(stack, Top.f, memory[home[Top.f]])
    /\ Runs /\ UNCHANGED <<at, mods, start, memory, site, repeats, wild>>

\* The import returns, or makes its caller trap.
HostReturns ==
    /\ HostTurn /\ Kind = "raw"
    /\ BackTo(Len(stack) - 1) \/ Unwound
    /\ Runs /\ UNCHANGED <<at, mods, memory, site, repeats, wild>>

(* Operations *)

\* op_Call and op_Compile.  The latter is overwritten by the former before
\* anything else, and gets the code for its operand in the end.
OpCall(g) ==
    /\ CodeTurn /\ RoomFor(1) /\ g \in Calls[Top.f]
    /\ CASE site[Top.f][g] = "code" ->
              /\ stack' = Entered(stack, g, Top.mem)
              /\ Runs /\ UNCHANGED <<at, start, site, wild>>
         [] site[Top.f][g] = "compile" /\ CompiledFn(g) ->
              /\ site' = [site EXCEPT ![Top.f][g] = "code"]
              /\ stack' = Entered(stack, g, Top.mem)
              /\ Runs /\ UNCHANGED <<at, start, wild>>
         [] site[Top.f][g] = "compile" /\ ~CompiledFn(g) ->
              /\ site' = [site EXCEPT ![Top.f][g] = "function"]
              /\ CompileFor(stack, g, "site")
              /\ UNCHANGED wild
         [] OTHER -> wild' = TRUE /\ Runs /\ UNCHANGED <<stack, at, start, site>>
    /\ UNCHANGED <<mods, memory, repeats>>

OpCallIndirect(g) ==
    /\ CodeTurn /\ RoomFor(1) /\ g \in Table[ModuleOf[Top.f]]
    /\ IF CompiledFn(g)
       THEN stack' = Entered(stack, g, Top.mem) /\ Runs /\ UNCHANGED <<at, start>>
       ELSE g \notin Imports /\ CompileFor(stack, g, "indirect")
    /\ UNCHANGED <<mods, memory, site, repeats, wild>>

\* The memory may move; the operation takes its new place along.
OpMemGrow ==
    /\ CodeTurn /\ Top.f \in Growers /\ memory[RunningIn] < MaxMoves
    /\ memory' = [memory EXCEPT ![RunningIn] = @ + 1]
    /\ stack' = [stack EXCEPT ![Len(stack)].mem = memory'[RunningIn]]
    /\ Runs /\ UNCHANGED <<at, mods, start, site, repeats, wild>>

OpLoop ==
    /\ CodeTurn /\ RoomFor(1) /\ Top.f \in Loops
    /\ stack' = Append(stack, Frame("loop", Top.f, Top.mem))
    /\ Runs /\ UNCHANGED <<at, mods, start, memory, site, repeats, wild>>

\* The loops of the function above the one that goes on are left.
OpContinueLoop ==
    /\ CodeTurn
    /\ \E i \in (Innermost({"wasm"}) + 1)..Len(stack) :
         stack' = Append(SubSeq(stack, 1, i - 1), Refreshed(stack[i]))
    /\ Runs /\ UNCHANGED <<at, mods, start, memory, site, repeats, wild>>

OpReturn ==
    /\ CodeTurn /\ BackTo(Innermost({"wasm"}) - 1)
    /\ Runs /\ UNCHANGED <<at, mods, memory, site, repeats, wild>>

\* Out of bounds, out of stack, unreachable, a signal of the host...
Trap ==
    /\ CodeTurn /\ Unwound
    /\ Runs /\ UNCHANGED <<at, mods, memory, site, repeats, wild>>

Init ==
    /\ PagesInit
    /\ stack = <<>> /\ at = 0 /\ repeats = 0 /\ wild = FALSE
    /\ mods = [m \in Modules |-> [in |-> NoOwner, state |-> "parsed"]]
    /\ start = [m \in Modules |-> IF StartOf[m] = "none" THEN "none" ELSE "pending"]
    /\ memory = [r \in Runtimes |-> 0]
    /\ site = [f \in Functions |-> [g \in Functions |-> "none"]]

Next ==
    \/ \E r \in Runtimes : Open(r) \/ Close(r) \/ \E m \in Modules : LoadModule(m, r)
    \/ LoadExpression \/ ExpressionDone \/ LoadDone \/ LoadFails
    \/ \E f \in Functions : Link(f) \/ FindFunction(f) \/ Call(f) \/ OpCall(f) \/ OpCallIndirect(f)
    \/ EmitNext \/ Compiled \/ CompiledWithoutConstants
    \/ \E m \in Modules : RunStart(m)
    \/ RunStartFunction \/ RunCalled \/ HostReturns
    \/ OpMemGrow \/ OpLoop \/ OpContinueLoop \/ OpReturn \/ Trap

Spec == Init /\ [][Next]_vars

(* Properties *)

\* Type invariant.
TypeOK ==
    /\ PagesTypeOK
    /\ Len(stack) \in 0..MaxDepth
    /\ \A i \in DOMAIN stack : stack[i].k \in {"load", "compile", "call", "start", "wasm", "loop", "raw"}
    /\ mods \in [Modules -> [in : Runtimes \cup {NoOwner}, state : {"parsed", "listed", "freed"}]]
    /\ start \in [Modules -> {"none", "pending", "running", "done"}]
    /\ memory \in [Runtimes -> 0..MaxMoves]
    /\ site \in [Functions -> [Functions -> {"none", "compile", "code", "function"}]]

\* Code that runs has the linear memory where it is now: whatever grew it since
\* (a callee, a round of the loop, a module the host has loaded meanwhile), no
\* load or store goes to the place it was at before.
FreshMemory == CodeTurn => Top.mem = memory[RunningIn]

\* The start function of a module runs before any other call of the module gets
\* to its code, and is never begun a second time while it runs, although a trap
\* makes it run again and the functions of the host it calls may call the module.
StartsFirst ==
    /\ \A i \in DOMAIN stack : i < Len(stack) /\ stack[i].k = "call" /\ stack[i + 1].k \in {"wasm", "raw"} =>
         start[ModuleOf[stack[i].f]] # "pending"
    /\ \A i, j \in DOMAIN stack : stack[i].k = "start" /\ stack[j].k = "start" /\ stack[i].m = stack[j].m => i = j

\* op_Call has code to go to.
CallsReachCode == ~wild
=============================================================================
