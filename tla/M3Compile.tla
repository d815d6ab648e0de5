------------------------------ MODULE M3Compile ------------------------------
(***************************************************************************)
(* The wasm3 compiler at work on one function (CompileFunction and the     *)
(* handlers of m3_compile.c), instruction by instruction, next to one run  *)
(* of the code it emits: "m" is the frame and the registers of that run.   *)
(* The run takes the path the operands of br_if, br_table and if choose;   *)
(* while it is on its way to the end of a block, or to an else, the        *)
(* compiler goes on over code the run does not reach.  It stops where the  *)
(* function returns, traps, or goes back to the head of a loop.            *)
(*                                                                         *)
(* Read as a stack, the operands of the run are those of a WebAssembly     *)
(* program: WasmStack is what this module implements.                      *)
(***************************************************************************)
EXTENDS M3Stack

CONSTANTS
    Functions       \* the functions compiled, each a record of
                    \*   rets, args, locals : Seq(Types)
                    \*   reserved : the slots ReserveConstants sets aside, an even number
                    \*   uses : the instructions of its body, out of Instructions
                    \*   consts : [val : {Plain, Marked}, type : Types]
                    \*   ops : [args : Seq(Types), res : Types or "none", comm, rr, mem : BOOLEAN]:
                    \*         may operands be swapped, may both be in registers, load or store
                    \*   conversions : [arg, res : Types]
                    \*   calls : [args, rets : Seq(Types), indirect : BOOLEAN]
                    \*   blocks : [params, results : Seq(Types)]
                    \*   height, depth : bounds on its operands and on the nesting of its blocks

Instructions ==
    {"const", "get", "set", "tee", "global", "drop", "op", "convert", "select", "size", "grow", "copy", "call",
     "block", "loop", "if", "br", "br_if", "br_table", "return", "unreachable"}

VARIABLES
    fn,             \* the function
    o,              \* the compilation
    m,              \* what each slot and register of the run holds
    mode,           \* where the run is: at the compiler, on its way, or stopped
    seen,           \* what the operation just run read as its operands
    strayed         \* which of Faults the compilation has met

vars == <<fn, o, m, mode, seen, strayed>>

\* What the code gets wrong; the properties speak of compilations until they meet one.
\*   wide:   operands that share a local of two slots are counted for the first slot only
\*   params: a block with parameters counts their slots anew, and a br to a loop does not move them
\*   moved:  the code of a branch that is taken moves an operand, also for the code that goes on
Faults == {"wide", "params", "moved"}
Miscounted == "wide" \in strayed \/ "params" \in strayed

At(k, d) == [k |-> k, d |-> d]
Run == At("run", 0)

\* The code moves values and never looks into them, so two are enough to tell a
\* value from every other: at most one result at a time is marked.  A slot
\* nobody owns holds nothing one could rely on.
Nothing == 0
Plain == 1
Marked == 2
Values == {Nothing, Plain, Marked}

(* The run of emitted operations *)

Read(mm, s, t) ==
    IF IsRegister(s) \/ NumSlots(t) = 1 \/ mm[s] = mm[s + 1] THEN mm[s] ELSE Nothing
Put(mm, s, t, v) ==
    [x \in DOMAIN mm |-> IF x = s \/ (~IsRegister(s) /\ x \in Slots(s, t)) THEN v ELSE mm[x]]

\* args and rets are places, [slot, type]; the callee owns the slots from frame on.
Op(args, rets, frame) == [op |-> "op", args |-> args, rets |-> rets, frame |-> frame]

Operate(x, e) ==
    LET got == [i \in DOMAIN e.args |-> Read(x.m, e.args[i].slot, e.args[i].type)]
        m0 == [s \in Locations |-> IF s >= e.frame /\ s < MaxSlots THEN Nothing ELSE x.m[s]]
        Result(mm, i) == Put(mm, e.rets[i].slot, e.rets[i].type, IF i = x.mark THEN Marked ELSE Plain)
    IN  [x EXCEPT !.m = FoldLeft(Result, m0, [i \in DOMAIN e.rets |-> i]), !.seen = @ \o got]

RunOne(x, e) ==
    CASE e.op = "move"  -> [x EXCEPT !.m = Put(@, e.dst, e.type, Read(@, e.src, e.type))]
      [] e.op = "pres"  -> LET kept == Put(x.m, e.preserve, e.type, Read(x.m, e.dst, e.type))
                           IN  [x EXCEPT !.m = Put(kept, e.dst, e.type, Read(kept, e.src, e.type))]
      [] e.op = "const" -> [x EXCEPT !.m = Put(@, e.dst, e.type, e.val)]
      [] e.op = "op"    -> Operate(x, e)

\* mark is the result that is marked, if any.
RunCode(mm, code, mark) == FoldLeft(RunOne, [m |-> mm, seen |-> <<>>, mark |-> mark], code)
Marks(mm, code) ==
    {0} \cup UNION {DOMAIN code[i].rets : i \in {k \in DOMAIN code : /\ code[k].op = "op"
                                                                 /\ \A s \in Locations : mm[s] # Marked}}

\* The constants are in their slots since the function was entered (op_Entry).
WithConstants(p, mm) ==
    [s \in Locations |-> IF s < MaxSlots /\ IsConstantSlot(p, s) /\ p.use[s] > 0 THEN p.const[s] ELSE mm[s]]
Owned(p, mm) ==
    [s \in Locations |-> IF \/ IsRegister(s) /\ p.reg[s] = 0
                            \/ s < MaxSlots /\ s >= p.firstDynamic /\ p.use[s] = 0
                         THEN Nothing ELSE mm[s]]

(* Results of blocks and of the function *)

\* Moves the operands i..end to the slots of the entries from t on.  An
\* operand a move would overwrite goes to a temporary slot first, but only
\* the first one that is found for each move.
CopyStackSlotsR(o0, t, i, end, temp) ==
    LET CopyOne(x, k) ==
            LET p == x.o
                e == p.stack[i + k]
                target == p.stack[t + k].slot
                hit == {c \in (i + k + 1)..end :
                            LET s == p.stack[c].slot
                            IN  target \in {s, s + NumSlots(p.stack[c].type) - 1}
                                \/ target + NumSlots(e.type) - 1 = s}
                c == Min(hit)
                moved == IF hit = {} THEN p
                         ELSE TouchSlot([CopyStackIndexToSlot(p, x.temp, c) EXCEPT !.stack[c].slot = x.temp],
                                        x.temp + 1)
            IN  IF target = e.slot \/ ~Ok(p) THEN x
                ELSE IF hit # {} /\ x.temp >= MaxSlots
                THEN [x EXCEPT !.o = Throw(@, "function stack overflow")]
                ELSE [o |-> Emit(moved, Move(target, e.slot, e.type)),
                      temp |-> IF hit = {} THEN x.temp ELSE x.temp + 2]
        done == FoldLeft(CopyOne, [o |-> o0, temp |-> temp], [k \in 1..(end - i + 1) |-> k - 1])
    IN  [done.o EXCEPT !.stack = o0.stack]

\* The last result of a block is left in fp0 when it is a float; the others go
\* to the slots that were found for them when the block was entered.
ResolveBlockResults(o0, d, isBranch) ==
    LET b == o0.blocks[d]
        isLoop == b.opcode = "loop" /\ isBranch
        n == Len(IF isLoop THEN b.params ELSE b.results)
        records == b.exit + (IF isLoop THEN 0 ELSE Len(b.params))
        inFp == ~isLoop /\ IsFpType(TypeFromTop(o0, 0))
        Rest(p) == CopyStackSlotsR(p, records + 1, Len(o0.stack) - n + 1, Len(o0.stack) - (IF inFp THEN 1 ELSE 0),
                                   AlignSlotToType(p.maxStackSlots, "i64"))
    IN  IF IF isBranch THEN NumBlockValues(o0) < n ELSE NumBlockValues(o0) # n
        THEN Throw(o0, "type count mismatch")
        ELSE IF n = 0 THEN o0
        ELSE Rest(IF inFp THEN CopyStackTopToRegister(o0) ELSE o0)

\* Results of the function go to its first slots, each 64 bits wide.
ReturnValues(o0, isBranch) ==
    LET rets == o0.blocks[1].results
        n == Len(rets)
        Wrong(i) == LET t == TypeFromTop(o0, n - i)
                    IN  t # rets[i] /\ ~(IsStackPolymorphic(o0) /\ t = "none")
        Copy(p, k) == CopyStackIndexToSlot(p, IoSlots * (n - k), Len(p.stack) - k + 1)
        p == IF IsStackPolymorphic(o0) THEN o0 ELSE FoldLeft(Copy, o0, [k \in 1..n |-> k])
        height == NumBlockValues(o0)
    IN  IF ~IsStackPolymorphic(o0) /\ (IF isBranch THEN height < n ELSE height # n)
        THEN Throw(o0, "type count mismatch")
        ELSE IF \E i \in 1..n : Wrong(i) THEN Throw(o0, "type mismatch")
        ELSE IF isBranch THEN p ELSE PopN(p, n)

Returned(mm) ==
    LET rets == o.blocks[1].results
    IN  [i \in DOMAIN rets |-> Read(mm, IoSlots * (i - 1), rets[i])]

(* Blocks *)

PushBlockResults(o0) ==
    LET rets == Block(o0).results
        PushOne(p, i) == IF i = Len(rets) /\ IsFpType(rets[i])
                         THEN PushRegister(p, rets[i]) ELSE PushAllocatedSlot(p, rets[i])
    IN  FoldLeft(PushOne, o0, [i \in DOMAIN rets |-> i])

\* The first half of CompileBlock.  The parameters are popped, but stay on the
\* stack as records; under them slots are found for the results, which are
\* popped as well and stay as records; then the parameters are pushed again.
\* Bound: the slots and the stack do not overflow here (the code does not look).
EnterBlock(o0, bt, opcode) ==
    LET n == Len(bt.params)
        outer == Block(o0)
        in == [o0 EXCEPT !.blocks = Append(@, [outer EXCEPT
                   !.opcode = opcode, !.params = bt.params, !.results = bt.results, !.head = <<>>,
                   !.restart = IF opcode = "if" THEN Len(o0.stack) ELSE 0])]
        d == Len(in.blocks)
        Param(p, i) == PopType(p, bt.params[n - i + 1])
        Result(found, exit) ==
            [PopN(found, Len(bt.results)) EXCEPT !.stack = found.stack, !.blocks[d].base = Len(found.stack),
                                                 !.blocks[d].exit = exit]
        Found(popped) == Result(PushBlockResults([popped EXCEPT !.stack = o0.stack]), Len(popped.stack))
        \* The else of an if whose then-part began without its parameters.
        FoundElse == Result(PushBlockResults(in), IF outer.poly /\ outer.base + n > Len(o0.stack) THEN outer.base
                                                  ELSE Len(o0.stack) - n)
        PushParam(p, i) ==
            LET s == p.stack[p.blocks[d].exit + i].slot
                q == Push(p, bt.params[i], s)
            IN  IF s >= p.firstDynamic /\ s # Unused THEN MarkSlotsAllocated(q, s, bt.params[i]) ELSE q
        Entered(full) == IF ~Ok(full) THEN Throw(o0, full.err)
                         ELSE IF opcode = "loop" THEN [full EXCEPT !.blocks[d].head = full.stack]
                         ELSE full
        Params(p) == Entered(FoldLeft(PushParam, p, [i \in 1..n |-> i]))
    IN  Params(IF opcode = "else" THEN FoundElse ELSE Found(FoldLeft(Param, in, [i \in 1..n |-> i])))

\* The second half of CompileBlock.  The then-part of an if pushes no results:
\* Compile_If goes on with the else-part, or there are none.
LeaveBlock(o0) ==
    LET Results(u) == IF Block(u).opcode = "if" THEN u
                      ELSE PushBlockResults([u EXCEPT !.stack = SubSeq(@, 1, Block(u).exit)])
        Left(u) == [Results(u) EXCEPT !.blocks = Front(@)]
    IN  Left(UnwindBlockStack(IF IsStackPolymorphic(o0) THEN o0 ELSE ResolveBlockResults(o0, Len(o0.blocks), FALSE)))

\* After the then-part: the stack is again what it was before the block.
CompileElseBlock(o0, ifScope) ==
    EnterBlock([o0 EXCEPT !.stack = SubSeq(@, 1, ifScope.restart), !.code = <<>>],
               [params |-> ifScope.params, results |-> ifScope.results], "else")

\* A local that operands still refer to is copied, so that the block may set it.
ForgetArgsAndLocals(o0) == o0       \* mutant: operands go on sharing the slot of a local
PreserveArgsAndLocals(o0) ==
    LET Keep(p, i) ==
            LET s == p.stack[i].slot
                Kept(f) == IF f.got # s THEN Emit(f, Move(f.got, s, p.stack[i].type)) ELSE f
            IN  Then(FindReferencedLocal(p, s), Kept)
    IN  IF Len(o0.stack) > o0.numLocals THEN FoldLeft(Keep, o0, [i \in 1..o0.numLocals |-> i]) ELSE o0

\* The head of a loop is reached again with other parameters: none may be a constant.
InstantiateConstants(o0, n) ==
    LET One(p, i) ==
            IF ~IsConstantSlot(p, p.stack[i].slot) THEN p
            ELSE Then(AllocateSlots(p, p.stack[i].type),
                      LAMBDA a : [CopyStackIndexToSlot(a, a.got, i) EXCEPT !.stack[i].slot = a.got])
    IN  IF NumBlockValues(o0) < n THEN o0
        ELSE FoldLeft(One, o0, [k \in 1..n |-> Len(o0.stack) - n + k])

(* Steps: compile one instruction, and run what it emits if the run is here *)


Going == Ok(o) /\ mode.k \in {"run", "end", "else"}

\* Where a run that is at `from` goes once it has run the code.  An
\* instruction that names no way goes on with what it emits.
Way(from, code, to) == [from |-> from, code |-> code, to |-> to]
Ways(p) == IF p.ways = {} THEN {Way(Run, p.code, Run)} ELSE p.ways

Arrives(p, x, to) ==
    /\ mode' = to
    /\ m' = IF to = Run THEN Owned(p, x.m) ELSE x.m
    /\ seen' = x.seen \o (IF to = At("stop", 1) THEN Returned(x.m) ELSE <<>>)

\* The run takes a way, or waits for the compiler to come where it is.
Proceeds(p, ways) ==
    IF ways = {}
    THEN m' = WithConstants(p, m) /\ UNCHANGED <<mode, seen>>
    ELSE \E w \in ways : \E mark \in Marks(m, w.code) :
             Arrives(p, RunCode(WithConstants(p, m), w.code, mark), w.to)

\* The code writes above the frame.  The arguments of a call are left out: the
\* caller puts them there without a TouchSlot (1638), before the callee, if it is a
\* compiled one, checks for its own frame; an imported function checks nothing.
Overwrites(p, code) ==
    \E i \in DOMAIN code :
        LET e == code[i]
            places == IF e.op = "op" THEN {e.rets[k].slot : k \in DOMAIN e.rets} ELSE {e.dst}
            passed == \E k \in (i + 1)..Len(code) :
                          /\ code[k].op = "op"
                          /\ places \subseteq {s \in {code[k].args[j].slot : j \in DOMAIN code[k].args} : code[k].frame <= s}
        IN  ~passed /\ \E s \in places \ Registers : s >= p.maxStackSlots

\* p is the compilation after the instruction, which meets these faults; an error
\* ends it, and the run with it.
CompilesWith(p, faults) ==
    /\ UNCHANGED fn
    /\ strayed' = strayed \cup faults
    /\ IF Ok(p)
       THEN /\ o' = [p EXCEPT !.over = @ \/ \E w \in Ways(p) : Overwrites(p, w.code),
                              !.code = <<>>, !.ways = {}, !.got = Unused]
            /\ Proceeds(p, {w \in Ways(p) : w.from = mode})
       ELSE o' = [o EXCEPT !.err = p.err] /\ UNCHANGED <<m, mode, seen>>
Compiles(p) == CompilesWith(p, {})

Depth == Len(o.blocks)
\* The operands where the compiler is: not the records, nor the locals.
LiveEntries ==
    UNION {(o.blocks[d].base + 1)..(IF d = Depth THEN Len(o.stack) ELSE o.blocks[d + 1].exit) : d \in 1..Depth}

\* The program is valid: in code that is reached every operand is there, with
\* its type; in code that is not, the operands that are there have their type.
Takes(types) ==
    /\ Going
    /\ Cardinality(LiveEntries) - Len(types) < fn.height
    /\ \A k \in DOMAIN types :
         LET i == Len(types) - k
         IN  IF i < NumBlockValues(o) THEN FromTop(o, i).type \in {types[k], "none"}
             ELSE IsStackPolymorphic(o)

Const == \E c \in fn.consts : "const" \in fn.uses /\ Takes(<<>>) /\ Compiles(PushConst(o, c.val, c.type))

GetLocal == \E i \in 1..o.numLocals : "get" \in fn.uses /\ Takes(<<>>) /\ Compiles(Push(o, o.stack[i].type, o.stack[i].slot))

\* local.set, and local.tee which leaves the operand.
SetLocal ==
    \E i \in 1..o.numLocals, tee \in BOOLEAN :
        LET local == o.stack[i]
            Copied(f) == IF f.got = local.slot THEN CopyStackTopToSlot(f, local.slot)
                         ELSE Emit(f, [op |-> "pres", dst |-> local.slot, src |-> FromTop(f, 0).slot,
                                       preserve |-> f.got, type |-> FromTop(f, 0).type])
            Set(f) == IF tee THEN Copied(f) ELSE Pop(Copied(f))
        IN  /\ (IF tee THEN "tee" ELSE "set") \in fn.uses
            /\ Takes(<<local.type>>)
            /\ CompilesWith(Then(FindReferencedLocal(o, local.slot), Set), IF SharesWide(o, local.slot) THEN {"wide"} ELSE {})

\* Globals live outside the frame.
ResultTypes == {op.res : op \in fn.ops} \ {"none"}
GetGlobal == \E t \in ResultTypes :
    LET Got(a) == Push(Emit(a, Op(<<>>, <<[slot |-> a.got, type |-> t]>>, Unused)), t, a.got)
    IN  "global" \in fn.uses /\ Takes(<<>>) /\ Compiles(Then(AllocateSlots(o, t), Got))
SetGlobal == \E t \in ResultTypes :
    "global" \in fn.uses /\ Takes(<<t>>) /\ Compiles(Pop(Emit(o, Op(<<FromTop(o, 0)>>, <<>>, Unused))))

Drop == \E t \in Types :
    "drop" \in fn.uses /\ Takes(<<t>>) /\ Compiles(Pop(o))

\* An operator takes its operands where they are, at most one of them in the
\* register of their type, and leaves its result in a register, which a
\* fp comparison and an operator without register operands must free first.
CompileOperator(o0, w) ==
    LET unary == Len(w.args) = 1
        Top(p) == TopInRegister(p, 0)
        Under(p) == ~unary /\ TopInRegister(p, 1)
        Args(q) == IF unary THEN <<FromTop(q, 0)>>
                   ELSE IF w.comm /\ Under(q) THEN <<FromTop(q, 0), FromTop(q, 1)>>
                   ELSE <<FromTop(q, 1), FromTop(q, 0)>>
        Done(q) == PopN(Emit(q, Op(Args(q), IF w.res = "none" THEN <<>>
                                            ELSE <<[slot |-> RegisterOf(w.res), type |-> w.res]>>, Unused)),
                        Len(w.args))
        Result(q) == IF w.res = "none" THEN Done(q) ELSE PushRegister(Done(q), w.res)
        Freed(p) == IF Top(p) /\ Under(p) /\ ~w.rr THEN Throw(p, "no operation found for opcode")
                    ELSE Result(IF Top(p) \/ Under(p) THEN p ELSE PreserveRegisterOfType(p, w.res))
    IN  Freed(IF IsFpType(TypeFromTop(o0, 0)) /\ w.res \in {"i32", "i64"} THEN PreserveRegisterOfType(o0, w.res) ELSE o0)

Operator ==
    \E w \in fn.ops :
        /\ "op" \in fn.uses /\ Takes(w.args)
        /\ Compiles(CompileOperator(IF w.mem /\ IsFpType(w.res) THEN PreserveRegisterOfType(o, "f64") ELSE o, w))

\* A conversion writes to a slot when the register of its result is taken.
Convert ==
    \E w \in fn.conversions :
        LET Into(a, dst) ==
                Push(Emit(a, Op(<<FromTop(o, 0)>>, <<[slot |-> dst, type |-> w.res]>>, Unused)), w.res, dst)
        IN  /\ "convert" \in fn.uses /\ Takes(<<w.arg>>)
            /\ Compiles(IF o.reg[RegisterOf(w.res)] = 0 THEN Into(Pop(o), RegisterOf(w.res))
                        ELSE Then(AllocateSlots(Pop(o), w.res), LAMBDA a : Into(a, a.got)))

Select ==
    \E t \in ResultTypes :
        LET type == TypeFromTop(o, 1)
            busy == TopInRegister(o, 1) \/ TopInRegister(o, 2) \/ (~IsFpType(type) /\ TopInRegister(o, 0))
            Selected(p) ==
                Emit(p, Op(<<FromTop(p, 2), FromTop(p, 1), FromTop(p, 0)>>,
                           <<[slot |-> RegisterOf(type), type |-> type]>>, Unused))
        IN  /\ "select" \in fn.uses /\ Takes(<<t, t, "i32">>)
            /\ Compiles(IF type = "none" /\ ~IsStackPolymorphic(o) THEN Throw(o, "function stack underrun")
                        ELSE PushRegister(PopN(Selected(IF busy \/ type = "none" THEN o
                                                        ELSE PreserveRegisterOfType(o, type)), 3), type))

MemorySize ==
    /\ "size" \in fn.uses /\ Takes(<<>>)
    /\ Compiles(PushRegister(Emit(PreserveRegisterOfType(o, "i32"),
                               Op(<<>>, <<[slot |-> R0, type |-> "i32"]>>, Unused)), "i32"))

MemoryGrow ==
    LET r == [slot |-> R0, type |-> "i32"]
    IN  /\ "grow" \in fn.uses /\ Takes(<<"i32">>)
        /\ Compiles(PushRegister(Emit(PopType(CopyStackTopToRegister(o), "i32"), Op(<<r>>, <<r>>, Unused)), "i32"))

\* memory.copy and memory.fill take the size from the register.
MemoryCopyFill ==
    LET Copy(p) == Emit(p, Op(<<FromTop(p, 2), FromTop(p, 1), [slot |-> R0, type |-> "i32"]>>, <<>>, Unused))
    IN  /\ "copy" \in fn.uses /\ Takes(<<"i32", "i32", "i32">>)
        /\ Compiles(PopN(PopType(Copy(CopyStackTopToRegister(o)), "i32"), 2))

\* The frame of the callee begins above every slot in use: first its results,
\* then its arguments.
CallTop(p) == AlignSlotToType(Max({1, MaxUsedSlotPlusOne(p)}), "i64")

CompileCall(o0, w) ==
    LET Arg(top, i) == top + IoSlots * (Len(w.rets) + i - 1)
        Args(top) == [i \in DOMAIN w.args |-> [slot |-> Arg(top, i), type |-> w.args[i]]]
        Rets(top) == [i \in DOMAIN w.rets |-> [slot |-> top + IoSlots * (i - 1), type |-> w.rets[i]]]
        Take(x, ret) == MarkSlotsAllocated(Push(x, ret.type, ret.slot), ret.slot, ret.type)
        Pass(x, k, top) == Pop(CopyStackTopToSlot(x, Arg(top, Len(w.args) - k + 1)))
        Called(p, index, top) ==
            LET PassOne(x, k) == Pass(x, k, top)
                passed == FoldLeft(PassOne, PopN(p, Len(index)), [k \in DOMAIN w.args |-> k])
            IN  Emit(FoldLeft(Take, passed, Rets(top)), Op(Args(top) \o index, Rets(top), top))
        Calls(p) == Called(p, IF w.indirect THEN <<FromTop(p, 0)>> ELSE <<>>, CallTop(p))
    IN  Calls(IF w.indirect /\ TopInRegister(o0, 0) THEN PreserveRegisterOfType(o0, "i32") ELSE o0)

\* Bound: the slots of a call stay below MaxSlots (the code does not look).
Call ==
    \E w \in fn.calls :
        /\ "call" \in fn.uses /\ Takes(w.args \o (IF w.indirect THEN <<"i32">> ELSE <<>>))
        /\ CallTop(o) + 2 + IoSlots * (Len(w.args) + Len(w.rets)) <= MaxSlots
        /\ Compiles(CompileCall(o, w))

(* Control *)

CanNest == Len(o.blocks) < fn.depth

\* At the beginning of a block, when p has put its registers away.
Miscounts(p, bt) ==
    (IF \E i \in 1..p.numLocals : SharesWide(p, p.stack[i].slot) THEN {"wide"} ELSE {})
    \cup (IF bt.params # <<>> THEN {"params"} ELSE {})

LoopOrBlock ==
    \E bt \in fn.blocks, opcode \in {"block", "loop"} \cap fn.uses :
        LET Begun(p) == IF opcode = "loop" THEN InstantiateConstants(p, Len(bt.params)) ELSE p
            saved == PreserveRegisters(o)
            kept == PreserveArgsAndLocals(saved)
        IN  /\ Takes(bt.params) /\ CanNest
            /\ CompilesWith(Then(Begun(kept), LAMBDA p : EnterBlock(p, bt, opcode)), Miscounts(saved, bt))

\* Without an else the results of an if are its parameters.
If ==
    \E bt \in fn.blocks :
        LET Test(p) == Pop(Emit(p, Op(<<FromTop(p, 0)>>, <<>>, Unused)))
            Open(p) == EnterBlock(p, bt, "if")
            Forks(p) == [p EXCEPT !.ways = {Way(Run, p.code, to) : to \in {Run, At("else", Len(p.blocks))}}]
            saved == PreserveNonTopRegisters(o)
            kept == PreserveArgsAndLocals(saved)
        IN  /\ "if" \in fn.uses /\ Takes(bt.params \o <<"i32">>) /\ CanNest
            /\ CompilesWith(Forks(Then(Test(kept), Open)), Miscounts(saved, bt))

\* At the end of the innermost block: its operands are its results.
Ends ==
    /\ Going
    /\ IsStackPolymorphic(o) \/ (NumBlockValues(o) = Len(Block(o).results) /\ Takes(Block(o).results))

\* The then-part jumps over the else-part; a run on its way to the else is there.
Else ==
    LET Jumps(p) == [CompileElseBlock(p, Block(o)) EXCEPT
                        !.ways = {Way(Run, p.code, At("end", Depth)), Way(At("else", Depth), <<>>, Run)}]
    IN  Ends /\ Block(o).opcode = "if" /\ Compiles(Then(LeaveBlock(o), Jumps))

\* An if with results and without an else gets one that is empty.
End ==
    LET made == Block(o).opcode = "if" /\ Block(o).results # <<>>
        Meet(p, code) == [p EXCEPT !.ways = {Way(Run, code, Run), Way(At("end", Depth), <<>>, Run),
                                             Way(At("else", Depth), IF made THEN p.code ELSE <<>>, Run)}]
        Join(p) == Meet(IF made THEN LeaveBlock(CompileElseBlock(p, Block(o))) ELSE p, p.code)
    IN  /\ Ends /\ Depth > 1
        /\ Block(o).opcode = "if" => Block(o).params = Block(o).results
        /\ Compiles(Then(LeaveBlock(o), Join))

FunctionEnd ==
    LET Stops(p) == [p EXCEPT !.ways = {Way(Run, p.code, At("stop", 1))}]
    IN  Ends /\ Depth = 1 /\ Compiles(Stops(ReturnValues(o, FALSE)))

\* Where a branch to the d-th block leads.
Target(d) == IF d = 1 THEN At("stop", 1) ELSE IF o.blocks[d].opcode = "loop" THEN At("head", d) ELSE At("end", d)
Carries(d) == IF o.blocks[d].opcode = "loop" THEN o.blocks[d].params ELSE o.blocks[d].results

\* What is done when a branch of br_if or br_table is taken.
TakenCode(p, d) ==
    IF ~Ok(p) THEN p
    ELSE IF p.blocks[d].opcode = "loop" THEN ResolveBlockResults(p, d, TRUE)
    ELSE IF IsStackPolymorphic(p) THEN p
    ELSE IF d = 1 THEN ReturnValues(p, TRUE)
    ELSE ResolveBlockResults(p, d, TRUE)

\* That code goes after what is emitted already, and is the way of a run that branches.
Branching(o0, d) ==
    LET Aside(t) == [t EXCEPT !.code = o0.code, !.ways = @ \cup {Way(Run, o0.code \o t.code, Target(d))}]
    IN  Aside(TakenCode([o0 EXCEPT !.code = <<>>], d))

\* Back to a loop: the parameters are left where they are, and so is the stack.
Branch ==
    \E d \in 1..Depth :
        LET back == [o EXCEPT !.ways = {Way(Run, <<>>, Target(d))}, !.blocks[Depth].poly = TRUE]
        IN  /\ "br" \in fn.uses /\ Takes(Carries(d))
            /\ Compiles(IF o.blocks[d].opcode = "loop" THEN back ELSE SetStackPolymorphic(Branching(o, d)))

\* It is also believed of the code that follows what the branch was not taken for.
Displaces(o0, d) == IF TakenCode([o0 EXCEPT !.code = <<>>], d).stack # o0.stack THEN {"moved"} ELSE {}

BranchIf ==
    \E d \in 1..Depth :
        LET Tested(p, place) == Emit(p, Op(<<place>>, <<>>, Unused))
            toLoop == o.blocks[d].opcode = "loop" /\ o.blocks[d].params = <<>>
            test == IF toLoop THEN Tested(PopType(CopyStackTopToRegister(o), "i32"), [slot |-> R0, type |-> "i32"])
                    ELSE Tested(Pop(o), FromTop(o, 0))
            Stays(p) == [p EXCEPT !.ways = @ \cup {Way(Run, p.code, Run)}]
        IN  /\ "br_if" \in fn.uses /\ Takes(Carries(d) \o <<"i32">>)
            /\ CompilesWith(Stays(Branching(test, d)), Displaces(test, d))

\* A branch for each target, in a page of its own.
BranchTable ==
    \E d \in 1..Depth, default \in 1..Depth :
        LET Indexed(p) == Pop(Emit(p, Op(<<FromTop(p, 0)>>, <<>>, Unused)))
            table == Indexed(PreserveRegisterOfType(o, "i64"))
        IN  /\ "br_table" \in fn.uses /\ Takes(Carries(d) \o <<"i32">>) /\ Takes(Carries(default) \o <<"i32">>)
            /\ CompilesWith(SetStackPolymorphic(Branching(Branching(table, d), default)), Displaces(table, d))

\* In code that is not reached, return is not compiled at all.
Return ==
    LET Returns(p) == SetStackPolymorphic([p EXCEPT !.ways = {Way(Run, p.code, At("stop", 1))}])
    IN  /\ "return" \in fn.uses /\ Takes(Carries(1))
        /\ Compiles(IF IsStackPolymorphic(o) THEN o ELSE Returns(ReturnValues(o, TRUE)))

Unreachable ==
    /\ "unreachable" \in fn.uses /\ Takes(<<>>)
    /\ Compiles(SetStackPolymorphic([o EXCEPT !.ways = {Way(Run, <<>>, At("trap", 1))}]))

Next ==
    \/ Const \/ GetLocal \/ SetLocal \/ GetGlobal \/ SetGlobal \/ Drop
    \/ Operator \/ Convert \/ Select \/ MemorySize \/ MemoryGrow \/ MemoryCopyFill \/ Call
    \/ LoopOrBlock \/ If \/ Else \/ End \/ FunctionEnd
    \/ Branch \/ BranchIf \/ BranchTable \/ Return \/ Unreachable

(* CompileFunction up to its first instruction *)

\* Results and arguments are 64 bits apart; the locals follow, then the
\* constants, then the slots of operands.
NewCompilation(f) ==
    LET ret == IoSlots * Len(f.rets)
        scope == [base |-> 0, exit |-> 0, restart |-> 0, poly |-> FALSE, opcode |-> "function",
                  params |-> <<>>, results |-> f.rets, head |-> <<>>]
        o0 == [stack |-> <<>>, use |-> [s \in 0..(MaxSlots - 1) |-> IF s < ret THEN 1 ELSE 0],
               const |-> [s \in 0..(MaxSlots - 1) |-> Nothing], reg |-> [r \in Registers |-> 0],
               blocks |-> <<scope>>, numLocals |-> 0, firstConst |-> 0, maxConst |-> 0,
               firstDynamic |-> ret, maxStackSlots |-> ret, over |-> FALSE, code |-> <<>>, ways |-> {}, got |-> Unused, err |-> ""]
        Arg(p, t) == [PushAllocatedSlot(p, t) EXCEPT !.firstDynamic = @ + IoSlots]
        args == FoldLeft(Arg, o0, f.args)
        all == FoldLeft(PushAllocatedSlot, args, f.locals)
        first == MaxUsedSlotPlusOne(all)
        dyn == first + f.reserved
        n == Len(all.stack)
    IN  [all EXCEPT !.firstConst = first, !.maxConst = first, !.firstDynamic = dyn, !.maxStackSlots = dyn,
                    !.numLocals = n, !.got = Unused, !.blocks[1] = [@ EXCEPT !.base = n, !.exit = n, !.restart = n]]

\* The functions are those of a program this model covers: operators that take
\* one or two operands and whose result is of the class of its operands, an integer
\* from floats, or a float that is loaded; and a frame with room for operands.
ASSUME FunctionsAssumption ==
    \A f \in Functions :
        /\ f.rets \in Seq(Types) /\ f.args \in Seq(Types) /\ f.locals \in Seq(Types) /\ f.reserved \in Nat
        /\ \A c \in f.consts : c.type \in Types
        /\ \A w \in f.ops :
              /\ w.args \in Seq(Types) /\ Len(w.args) \in {1, 2} /\ w.res \in Types \cup {"none"}
              /\ \/ w.res = "none"
                 \/ IsFpType(w.res) /\ w.mem
                 \/ \A k \in DOMAIN w.args : IsFpType(w.args[k]) = IsFpType(w.res)
                 \/ ~IsFpType(w.res) /\ \A k \in DOMAIN w.args : IsFpType(w.args[k])
        /\ \A w \in f.conversions : w.arg \in Types /\ w.res \in Types
        /\ \A w \in f.calls : w.args \in Seq(Types) /\ w.rets \in Seq(Types)
        /\ \A bt \in f.blocks : bt.params \in Seq(Types) /\ bt.results \in Seq(Types)
        /\ NewCompilation(f).firstDynamic < MaxSlots

\* One of the arguments is marked, or none; the locals are zero.
Init ==
    /\ fn \in Functions
    /\ o = NewCompilation(fn)
    /\ \E mark \in 0..Len(fn.args) :
         m = LET Fill(mm, i) == Put(mm, o.stack[i].slot, o.stack[i].type, IF i = mark THEN Marked ELSE Plain)
             IN  FoldLeft(Fill, [s \in Locations |-> Nothing], [i \in 1..o.numLocals |-> i])
    /\ mode = Run
    /\ seen = <<>>
    /\ strayed = {}

Spec == Init /\ [][Next]_vars

(* The operands of the run, read as the stack of a WebAssembly program *)

\* The blocks the run is in, and the entries of its operands: a run on its way
\* has those below the block it leaves for, and what it takes there.
Visible == CASE mode.k = "run" -> Depth [] mode.k \in {"end", "else", "head"} -> mode.d [] OTHER -> 0

EntriesOf(stack) ==
    LET d == Visible
        Below(k) == SubSeq(stack, o.blocks[k].base + 1, o.blocks[k + 1].exit)
        b == o.blocks[d]
        records == b.exit + Len(b.params)
        own == CASE mode.k = "end"  -> SubSeq(stack, records + 1, b.base)
                 [] mode.k = "else" -> SubSeq(stack, b.exit + 1, records)
                 [] OTHER           -> SubSeq(stack, b.base + 1, Len(stack))
    IN  IF d = 0 THEN <<>> ELSE FoldLeft(LAMBDA es, k : es \o Below(k), <<>>, [k \in 1..(d - 1) |-> k]) \o own

ValueOf(e) ==
    IF IsRegister(e.slot) /\ mode.k = "head" THEN Nothing       \* op_Loop clears the registers
    ELSE Read(m, e.slot, e.type)

Operands ==
    LET es == EntriesOf(IF mode.k = "head" THEN o.blocks[mode.d].head ELSE o.stack)
    IN  [i \in DOMAIN es |-> ValueOf(es[i])]

Height(d) == FoldLeft(LAMBDA h, k : h + o.blocks[k + 1].exit - o.blocks[k].base, 0, [k \in 1..(d - 1) |-> k])
Labels ==
    [d \in 1..(IF mode.k = "head" THEN 0 ELSE Visible) |->
        [height |-> Height(d), params |-> Len(o.blocks[d].params),
         results |-> Len(o.blocks[d].results), kind |-> o.blocks[d].opcode]]

Wasm == INSTANCE WasmStack WITH
    Value <- Values,
    MaxArity <- 3,
    ostack <- Operands,
    locals <- [i \in 1..o.numLocals |-> Read(m, o.stack[i].slot, o.stack[i].type)],
    labels <- Labels,
    mode <- IF mode.k \in {"run", "end", "else"} THEN mode ELSE At("stop", 0),
    seen <- seen

(* Properties *)

\* Type invariant.
TypeOK ==
    /\ m \in [Locations -> Values]
    /\ mode.k \in {"run", "end", "else", "head", "stop", "trap"} /\ mode.d \in 0..fn.depth
    /\ seen \in Seq(Values)
    /\ Len(o.stack) \in 0..MaxStack /\ o.use \in [0..(MaxSlots - 1) -> 0..MaxUse]
    /\ Len(o.blocks) \in 1..fn.depth
    /\ strayed \subseteq Faults

\* Until the compilation meets one of Faults, the run of the emitted code is a run
\* of the program: at every instruction the slots and registers the compiler
\* believes in hold the operands the language says are there, and every operation
\* reads the right ones, whatever the compiler moved, preserved or shared on this
\* path and on the others.
RefinesWasm == Wasm!Init /\ [][Wasm!Next \/ strayed' # {}]_(Wasm!vars)

\* Until slots are miscounted: a slot is free exactly when no operand refers to it,
\* and the count of a shared one is the number of operands that share it, so that
\* it is neither given to two values nor lost; a register is owned by the entry
\* that names it.
SlotsCounted ==
    Ok(o) /\ ~Miscounted =>
        /\ \A s \in o.firstDynamic..(MaxSlots - 1) :
               o.use[s] = Cardinality({i \in LiveEntries : s \in Slots(o.stack[i].slot, o.stack[i].type)})
        /\ \A r \in Registers : {i \in LiveEntries : o.stack[i].slot = r} = {o.reg[r]} \ {0}

\* Until slots are miscounted, nothing is written above the frame size op_Entry checks
\* the stack for, moves through temporary slots included, except the arguments of
\* a call.  These are not covered: they are written before anything is checked.
FrameCovers == Miscounted \/ ~o.over

\* In code that is reached a valid program is rejected only for want of slots or
\* stack.  In code that is not, a valid operator may find no operation, when the
\* entry under its operand is taken for another one (against the assertion at 2132).
ValidAccepted ==
    \/ o.err \in {"", "function stack overflow", "slot usage count overflow"}
    \/ o.err = "no operation found for opcode" /\ IsStackPolymorphic(o)
=============================================================================
