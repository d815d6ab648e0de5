---------------------------- MODULE M3CompileInv ----------------------------
(***************************************************************************)
(* The inductive invariant of M3Compile; names for parts of its actions    *)
(* that proofs speak of, each the body of a fold, or a LET, of the         *)
(* operator of M3Compile or M3Stack named above it; and what such a part   *)
(* leaves of a compilation.                                                *)
(***************************************************************************)
EXTENDS M3Compile

-----------------------------------------------------------------------------
(* The invariant.  p is a compilation, at the start of an instruction or   *)
(* within one; bs are the blocks its operands are in, B the operands below *)
(* the innermost of them, T the places of the arguments of the call that   *)
(* is being compiled, which may be above the frame, E the slots that are   *)
(* allocated and not yet on the stack.                                     *)

EntryTypes == Types \cup {"none"}
Entries == [slot : Locations, type : EntryTypes]
Opcodes == {"function", "block", "loop", "if", "else"}
Scopes == [base : Nat, exit : Nat, restart : Nat, poly : BOOLEAN, opcode : Opcodes,
           params : {<<>>}, results : Seq(Types), head : Seq(Entries)]
Base(bs) == Last(bs).base
Dynamic(p) == p.firstDynamic..(MaxSlots - 1)
Fields == {"stack", "use", "const", "reg", "blocks", "numLocals", "firstConst", "maxConst", "firstDynamic",
           "maxStackSlots", "over", "code", "ways", "got", "err"}

\* The numbers of a compilation are in order and it has met no error.
Shape(p) ==
  /\ DOMAIN p = Fields
  /\ p.stack \in Seq(Entries)
  /\ p.use \in [0..(MaxSlots - 1) -> 0..MaxUse]
  /\ p.reg \in [Registers -> Nat]
  /\ p.numLocals \in Nat /\ p.firstConst \in Nat /\ p.maxConst \in Nat
  /\ p.firstDynamic \in Nat /\ p.maxStackSlots \in Nat
  /\ p.firstConst <= p.maxConst /\ p.maxConst <= p.firstDynamic /\ p.firstDynamic < MaxSlots
  /\ p.firstDynamic <= p.maxStackSlots
  /\ p.over = FALSE /\ p.err = ""

\* The blocks are on the stack, above the locals; the results come before the constants.
Framed(p, bs) ==
  /\ bs \in Seq(Scopes) /\ Len(bs) > 0 /\ bs[1].opcode = "function"
  /\ Base(bs) \in Nat /\ Base(bs) <= Len(p.stack)
  /\ \A d \in 1..Len(bs) : p.numLocals <= bs[d].base /\ bs[d].base <= Base(bs)
  /\ IoSlots * Len(bs[1].results) <= p.firstConst

\* What an entry of the stack may say of its place.
EntryFits(p, bs, i, e) ==
  /\ IsRegister(e.slot) => e.slot = RegisterOf(e.type)
  /\ e.slot < p.firstDynamic => e.slot + NumSlots(e.type) <= p.firstDynamic
  /\ e.slot < MaxSlots => e.slot < p.maxStackSlots
  /\ e.type = "none" => \E d \in 1..Len(bs) : i = bs[d].base + 1
  /\ i <= p.numLocals => e.slot < p.firstConst
Placed(p, bs) == \A i \in 1..Len(p.stack) : EntryFits(p, bs, i, p.stack[i])

\* The counts of the slots, for the operands L, and the owners of the registers.
RefersTo(e, s) == s \in Slots(e.slot, e.type)
RefsTo(p, L, s) == {i \in L : RefersTo(p.stack[i], s)}
Counts(p, L, E) ==
  \A s \in Dynamic(p) : p.use[s] = Cardinality(RefsTo(p, L, s)) + (IF s \in E THEN 1 ELSE 0)
Owners(p, L) ==
  \A r \in Registers : /\ \A i \in L : p.stack[i].slot = r => i = p.reg[r]
                       /\ p.reg[r] # 0 => p.reg[r] \in L /\ p.stack[p.reg[r]].slot = r

\* The owner of a register is in the innermost block; an entry that is neither a
\* local nor an operand is the record of a result, and has a slot of operands.
InBlock(p, bs) == \A r \in Registers : p.reg[r] = 0 \/ p.reg[r] > Base(bs)
Records(p, L) ==
  \A i \in 1..Len(p.stack) : i <= p.numLocals \/ i \in L \/ p.stack[i].slot >= p.firstDynamic
Live(p, bs, B) == B \cup (Base(bs) + 1)..Len(p.stack)

\* What an operation writes is in the frame, or is in T.
PlacesOf(e) == IF e.op = "op" THEN {e.rets[k].slot : k \in DOMAIN e.rets} ELSE {e.dst}
Fits(e, top, T) == PlacesOf(e) \subseteq Registers \cup 0..(top - 1) \/ PlacesOf(e) \subseteq T
CodeFits(code, top, T) ==
  /\ \E S : code \in Seq(S)
  /\ \A i \in 1..Len(code) : Fits(code[i], top, T)
Codes(p, T) ==
  /\ CodeFits(p.code, p.maxStackSlots, T)
  /\ \A w \in p.ways : CodeFits(w.code, p.maxStackSlots, {})

Sound(p, bs, B, T, E) ==
  /\ Shape(p) /\ Framed(p, bs) /\ Placed(p, bs) /\ B \subseteq 1..Base(bs)
  /\ Counts(p, Live(p, bs, B), E) /\ Owners(p, Live(p, bs, B)) /\ InBlock(p, bs)
  /\ Records(p, Live(p, bs, B)) /\ Codes(p, T)

\* The operands below the innermost of the blocks.
Under(bs) == UNION {(bs[d].base + 1)..bs[d + 1].exit : d \in 1..(Len(bs) - 1)}

\* The records of the results of a block are between the operands outside and its own.
Nested(outer, b) ==
  /\ outer.base <= b.exit /\ b.base = b.exit + Len(b.results)
  /\ b.opcode = "if" => b.restart = b.exit
Nest(bs) == \A d \in 2..Len(bs) : Nested(bs[d - 1], bs[d])

\* The invariant of an instruction, T as above.
Good(p, T) == Sound(p, p.blocks, Under(p.blocks), T, {}) /\ Nest(p.blocks)

\* At the start of an instruction nothing has been emitted.
Sane ==
  /\ fn \in Functions
  /\ o.over = FALSE
  /\ Ok(o) => Good(o, {})

\* The inductive invariant: until slots are miscounted.
IInv == Miscounted \/ Sane

-----------------------------------------------------------------------------
(* The bodies of folds                                                     *)

\* PreserveArgsAndLocals.
KeepLocal(p, i) ==
  LET s == p.stack[i].slot
      Kept(f) == IF f.got # s THEN Emit(f, Move(f.got, s, p.stack[i].type)) ELSE f
  IN  Then(FindReferencedLocal(p, s), Kept)
KeptLocals(p, q) == FoldLeft(LAMBDA x, i : KeepLocal(x, i), p, q)

\* CompileCall: the arguments, and the results.
PassArgument(w, top, p, k) ==
  Pop(CopyStackTopToSlot(p, top + IoSlots * (Len(w.rets) + (Len(w.args) - k + 1) - 1)))
PassedArgs(w, top, p, q) == FoldLeft(LAMBDA x, k : PassArgument(w, top, x, k), p, q)
TakeResult(p, ret) == MarkSlotsAllocated(Push(p, ret.type, ret.slot), ret.slot, ret.type)
TakenResults(p, q) == FoldLeft(LAMBDA x, ret : TakeResult(x, ret), p, q)

\* PushBlockResults.
PushResult(rets, p, i) ==
  IF i = Len(rets) /\ IsFpType(rets[i]) THEN PushRegister(p, rets[i]) ELSE PushAllocatedSlot(p, rets[i])
PushedResults(p, rets, q) == FoldLeft(LAMBDA x, i : PushResult(rets, x, i), p, q)

\* CopyStackSlotsR.
CopyResult(t, i, end, x, k) ==
  LET p == x.o
      e == p.stack[i + k]
      target == p.stack[t + k].slot
      hit == {c \in (i + k + 1)..end :
                  LET s == p.stack[c].slot
                  IN  target \in {s, s + NumSlots(p.stack[c].type) - 1}
                      \/ target + NumSlots(e.type) - 1 = s}
      c == Min(hit)
      moved == IF hit = {} THEN p
               ELSE TouchSlot([CopyStackIndexToSlot(p, x.temp, c) EXCEPT !.stack[c].slot = x.temp],
                              x.temp + 1)
  IN  IF target = e.slot \/ ~Ok(p) THEN x
      ELSE IF hit # {} /\ x.temp >= MaxSlots
      THEN [x EXCEPT !.o = Throw(@, "function stack overflow")]
      ELSE [o |-> Emit(moved, Move(target, e.slot, e.type)),
            temp |-> IF hit = {} THEN x.temp ELSE x.temp + 2]
CopiedResults(p, t, i, end, temp, q) ==
  FoldLeft(LAMBDA x, k : CopyResult(t, i, end, x, k), [o |-> p, temp |-> temp], q)

\* ReturnValues: the results, to their slots in the frame of the caller.
ReturnOne(n, p, k) == CopyStackIndexToSlot(p, IoSlots * (n - k), Len(p.stack) - k + 1)
CopiedReturns(n, p, q) == FoldLeft(LAMBDA x, k : ReturnOne(n, x, k), p, q)

\* NewCompilation.
PushArgument(p, t) == [PushAllocatedSlot(p, t) EXCEPT !.firstDynamic = @ + IoSlots]
PushedArgs(p, q) == FoldLeft(LAMBDA x, t : PushArgument(x, t), p, q)
PushedLocals(p, q) == FoldLeft(LAMBDA x, t : PushAllocatedSlot(x, t), p, q)

\* InstantiateConstants.
InstantiateOne(p, i) ==
  IF ~IsConstantSlot(p, p.stack[i].slot) THEN p
  ELSE Then(AllocateSlots(p, p.stack[i].type),
            LAMBDA a : [CopyStackIndexToSlot(a, a.got, i) EXCEPT !.stack[i].slot = a.got])
Instantiated(p, q) == FoldLeft(LAMBDA x, i : InstantiateOne(x, i), p, q)

-----------------------------------------------------------------------------
(* Parts of instructions                                                   *)

\* Select, GetGlobal, MemorySize, MemoryGrow, MemoryCopyFill.
Selects(p) ==
  LET type == TypeFromTop(p, 1)
      busy == TopInRegister(p, 1) \/ TopInRegister(p, 2) \/ (~IsFpType(type) /\ TopInRegister(p, 0))
      Selected(x) ==
         Emit(x, Op(<<FromTop(x, 2), FromTop(x, 1), FromTop(x, 0)>>,
                    <<[slot |-> RegisterOf(type), type |-> type]>>, Unused))
  IN  IF type = "none" /\ ~IsStackPolymorphic(p) THEN Throw(p, "function stack underrun")
      ELSE PushRegister(PopN(Selected(IF busy \/ type = "none" THEN p
                                      ELSE PreserveRegisterOfType(p, type)), 3), type)
GlobalGot(p, t) ==
  LET Got(a) == Push(Emit(a, Op(<<>>, <<[slot |-> a.got, type |-> t]>>, Unused)), t, a.got)
  IN  Then(AllocateSlots(p, t), Got)
Sizes(p) ==
  PushRegister(Emit(PreserveRegisterOfType(p, "i32"), Op(<<>>, <<[slot |-> R0, type |-> "i32"]>>, Unused)), "i32")
Grows(p) ==
  LET r == [slot |-> R0, type |-> "i32"]
  IN  PushRegister(Emit(PopType(CopyStackTopToRegister(p), "i32"), Op(<<r>>, <<r>>, Unused)), "i32")
Fills(p) ==
  LET Copy(x) == Emit(x, Op(<<FromTop(x, 2), FromTop(x, 1), [slot |-> R0, type |-> "i32"]>>, <<>>, Unused))
  IN  PopN(PopType(Copy(CopyStackTopToRegister(p)), "i32"), 2)

\* CompileOperator.
OperatorDone(q, w, args) ==
  PopN(Emit(q, Op(args, IF w.res = "none" THEN <<>> ELSE <<[slot |-> RegisterOf(w.res), type |-> w.res]>>, Unused)),
       Len(w.args))
OperatorResult(q, w, args) ==
  IF w.res = "none" THEN OperatorDone(q, w, args) ELSE PushRegister(OperatorDone(q, w, args), w.res)

\* FindReferencedLocal, of the operands that refer to the local.
Renamed(x, refs, g) == [x EXCEPT !.stack = [i \in DOMAIN @ |-> IF i \in refs THEN [@[i] EXCEPT !.slot = g] ELSE @[i]]]
Shared(o0, local, refs) ==
  LET More(p, i) == IncrementSlotUsage(p, p.got)
      All(a) ==
          [FoldLeft(More, a, SetToSeq(refs \ {Min(refs)})) EXCEPT
              !.stack = [i \in DOMAIN @ |-> IF i \in refs THEN [@[i] EXCEPT !.slot = a.got] ELSE @[i]]]
  IN  IF refs = {} \/ ~Ok(o0) THEN [o0 EXCEPT !.got = local]
      ELSE Then(AllocateSlots(o0, o0.stack[Min(refs)].type), All)

\* SetLocal, of the local at a slot.
Assigned(p, slot, tee) ==
  LET Copied(f) == IF f.got = slot THEN CopyStackTopToSlot(f, slot)
                   ELSE Emit(f, [op |-> "pres", dst |-> slot, src |-> FromTop(f, 0).slot,
                                 preserve |-> f.got, type |-> FromTop(f, 0).type])
      Set(f) == IF tee THEN Copied(f) ELSE Pop(Copied(f))
  IN  Then(FindReferencedLocal(p, slot), Set)

\* EnterBlock.
Within(p, scope) == [p EXCEPT !.blocks = Append(@, scope)]
InnerScope(p, bt, opcode) ==
  [Block(p) EXCEPT !.opcode = opcode, !.params = bt.params, !.results = bt.results, !.head = <<>>,
                   !.restart = IF opcode = "if" THEN Len(p.stack) ELSE 0]
PoppedParams(p, bt, q) == FoldLeft(LAMBDA x, i : PopType(x, bt.params[Len(bt.params) - i + 1]), p, q)
PushParameter(p, bt, d, i) ==
  LET s == p.stack[p.blocks[d].exit + i].slot
      q == Push(p, bt.params[i], s)
  IN  IF s >= p.firstDynamic /\ s # Unused THEN MarkSlotsAllocated(q, s, bt.params[i]) ELSE q
PushedParams(p, bt, d, q) == FoldLeft(LAMBDA x, i : PushParameter(x, bt, d, i), p, q)
Opening(found, n, d, exit) ==
  [PopN(found, n) EXCEPT !.stack = found.stack, !.blocks[d].base = Len(found.stack), !.blocks[d].exit = exit]
Opened(p, bt, opcode) ==
  LET q == [i \in 1..Len(bt.params) |-> i]
      inner == Within(p, InnerScope(p, bt, opcode))
      d == Len(inner.blocks)
      popped == PoppedParams(inner, bt, q)
      exit == IF Block(p).poly /\ Block(p).base + Len(bt.params) > Len(p.stack) THEN Block(p).base
              ELSE Len(p.stack) - Len(bt.params)
  IN  IF opcode = "else" THEN Opening(PushBlockResults(inner), Len(bt.results), d, exit)
      ELSE Opening(PushBlockResults([popped EXCEPT !.stack = p.stack]), Len(bt.results), d, Len(popped.stack))

\* LoopOrBlock, If and End; Branching: the code of t is put after that of p, as a way of its own.
Opens(p, bt, opcode) ==
  LET Started(x) == IF opcode = "loop" THEN InstantiateConstants(x, Len(bt.params)) ELSE x
      kept == PreserveArgsAndLocals(PreserveRegisters(p))
  IN  Then(Started(kept), LAMBDA x : EnterBlock(x, bt, opcode))
Tests(p, bt) ==
  LET Test(x) == Pop(Emit(x, Op(<<FromTop(x, 0)>>, <<>>, Unused)))
      Open(x) == EnterBlock(x, bt, "if")
      kept == PreserveArgsAndLocals(PreserveNonTopRegisters(p))
  IN  Then(Test(kept), Open)
Makes(b) == b.opcode = "if" /\ b.results # <<>>
Joined(v, made) ==
  LET x == IF made THEN LeaveBlock(CompileElseBlock(v, Block(o))) ELSE v
  IN  [x EXCEPT !.ways = {Way(Run, v.code, Run), Way(At("end", Depth), <<>>, Run),
                          Way(At("else", Depth), IF made THEN x.code ELSE <<>>, Run)}]
PutAside(p, t, to) == [t EXCEPT !.code = p.code, !.ways = @ \cup {Way(Run, p.code \o t.code, to)}]

\* ResolveBlockResults and ReturnValues.
MovesResults(v, p, d, n, inFp) ==
  CopyStackSlotsR(v, p.blocks[d].exit + 1, Len(p.stack) - n + 1, Len(p.stack) - (IF inFp THEN 1 ELSE 0),
                  AlignSlotToType(v.maxStackSlots, "i64"))
ReturnDone(p, isBranch) ==
  LET rets == p.blocks[1].results
      n == Len(rets)
      Wrong(i) == LET t == TypeFromTop(p, n - i)
                  IN  t # rets[i] /\ ~(IsStackPolymorphic(p) /\ t = "none")
      c == IF IsStackPolymorphic(p) THEN p ELSE CopiedReturns(n, p, [k \in 1..n |-> k])
      height == NumBlockValues(p)
  IN  IF ~IsStackPolymorphic(p) /\ (IF isBranch THEN height < n ELSE height # n)
      THEN Throw(p, "type count mismatch")
      ELSE IF \E i \in 1..n : Wrong(i) THEN Throw(p, "type mismatch")
      ELSE IF isBranch THEN c ELSE PopN(c, n)

\* CompileCall: the index of an indirect call, and where what is passed is put.
CallIndex(p, w) == IF w.indirect THEN <<FromTop(p, 0)>> ELSE <<>>
ArgPlaces(w, top) == [i \in DOMAIN w.args |-> [slot |-> top + IoSlots * (Len(w.rets) + i - 1), type |-> w.args[i]]]
RetPlaces(w, top) == [i \in DOMAIN w.rets |-> [slot |-> top + IoSlots * (i - 1), type |-> w.rets[i]]]
Calling(p, w, index, top) ==
  Emit(TakenResults(PassedArgs(w, top, PopN(p, Len(index)), [k \in DOMAIN w.args |-> k]), RetPlaces(w, top)),
       Op(ArgPlaces(w, top) \o index, RetPlaces(w, top), top))

\* NewCompilation: n entries; the slots below first are taken, and those below dyn too.
FirstScope(f) ==
  [base |-> 0, exit |-> 0, restart |-> 0, poly |-> FALSE, opcode |-> "function",
   params |-> <<>>, results |-> f.rets, head |-> <<>>]
Blank(f) ==
  LET ret == IoSlots * Len(f.rets)
  IN  [stack |-> <<>>, use |-> [s \in 0..(MaxSlots - 1) |-> IF s < ret THEN 1 ELSE 0],
       const |-> [s \in 0..(MaxSlots - 1) |-> Nothing], reg |-> [r \in Registers |-> 0],
       blocks |-> <<FirstScope(f)>>, numLocals |-> 0, firstConst |-> 0, maxConst |-> 0,
       firstDynamic |-> ret, maxStackSlots |-> ret, over |-> FALSE, code |-> <<>>, ways |-> {}, got |-> Unused, err |-> ""]
Finished(p, first, dyn, n) ==
  [p EXCEPT !.firstConst = first, !.maxConst = first, !.firstDynamic = dyn, !.maxStackSlots = dyn,
            !.numLocals = n, !.got = Unused, !.blocks[1] = [@ EXCEPT !.base = n, !.exit = n, !.restart = n]]

-----------------------------------------------------------------------------
(* How the compilation after a part of an instruction, q or a, compares    *)
(* with p, the one before it: bs and B are as in the invariant.            *)

\* What an operation within a block leaves as it is.
Frame(p, q) ==
  /\ DOMAIN q = DOMAIN p
  /\ q.blocks = p.blocks /\ q.numLocals = p.numLocals /\ q.firstConst = p.firstConst
  /\ q.firstDynamic = p.firstDynamic /\ q.over = p.over /\ q.ways = p.ways
  /\ q.maxStackSlots \in Nat /\ q.maxStackSlots >= p.maxStackSlots

\* q has the operands of p.
SameOperands(p, q) ==
  /\ Frame(p, q) /\ q.stack = p.stack /\ q.reg = p.reg /\ q.maxConst = p.maxConst /\ q.err = p.err

\* q differs from p in code it has emitted and slots it has touched.
Adds(p, q) == SameOperands(p, q) /\ q.use = p.use

\* a has slots of p for a value of type t, out of start..end - 1.
Allocated(p, t, start, end, a) ==
  /\ a.got \in Nat /\ start <= a.got /\ a.got + NumSlots(t) <= end
  /\ \A x \in Slots(a.got, t) : p.use[x] = 0
  /\ \A s \in FreeSlots(p, t, start, end) : a.got <= s
  /\ a.use = [x \in DOMAIN p.use |-> IF x \in Slots(a.got, t) THEN 1 ELSE p.use[x]]
  /\ a.code = p.code /\ SameOperands(p, a)
  /\ a.maxStackSlots \in Nat /\ a.maxStackSlots >= a.got + NumSlots(t)

\* The slots g, .., g + n - 1 are in use from now on.
Uses(p, a, g, n) ==
  a.use = [x \in DOMAIN p.use |-> IF x \in g..(g + n - 1) THEN 1 ELSE p.use[x]]

\* q has an operand more than p.
Pushed(p, q, s, t) ==
  /\ Frame(p, q) /\ q.maxConst = p.maxConst /\ q.err = p.err /\ q.code = p.code /\ q.use = p.use
  /\ q.stack = Append(p.stack, [slot |-> s, type |-> t])
  /\ q.reg = IF IsRegister(s) THEN [p.reg EXCEPT ![s] = Len(p.stack) + 1] ELSE p.reg
\* The operand is e, and it is one of the operands where the compiler is.
OneMore(p, bs, B, q, e) ==
  /\ q.stack \in Seq(Entries) /\ Len(q.stack) = Len(p.stack) + 1
  /\ \A i \in 1..Len(p.stack) : q.stack[i] = p.stack[i]
  /\ q.stack[Len(p.stack) + 1] = e
  /\ Live(q, bs, B) = Live(p, bs, B) \cup {Len(p.stack) + 1}
  /\ Live(p, bs, B) \subseteq 1..Len(p.stack)

\* q has n operands less than p, or none in its innermost block.
Dropped(p, bs, n, q) ==
  /\ Frame(p, q) /\ q.maxConst = p.maxConst /\ q.err = p.err /\ q.code = p.code /\ q.got = p.got
  /\ q.maxStackSlots = p.maxStackSlots
  /\ q.stack \in Seq(Entries)
  /\ Len(q.stack) = IF Len(p.stack) - n >= Base(bs) THEN Len(p.stack) - n ELSE Base(bs)
  /\ \A i \in 1..Len(q.stack) : q.stack[i] = p.stack[i]
  /\ \A r \in Registers : q.reg[r] = IF p.reg[r] > Len(q.stack) THEN 0 ELSE p.reg[r]
  /\ \A x \in 0..(MaxSlots - 1) : q.use[x] <= p.use[x]

\* q is p without the entry on top.
Less(p, q) ==
  /\ Frame(p, q) /\ q.maxConst = p.maxConst /\ q.err = p.err /\ q.code = p.code /\ q.got = p.got
  /\ q.maxStackSlots = p.maxStackSlots
  /\ q.stack = Front(p.stack)
  /\ q.reg = IF IsRegister(Last(p.stack).slot) THEN [p.reg EXCEPT ![Last(p.stack).slot] = 0] ELSE p.reg
  /\ q.use = IF ~IsRegister(Last(p.stack).slot) /\ Last(p.stack).slot >= p.firstDynamic
             THEN [x \in DOMAIN p.use |-> IF x \in Slots(Last(p.stack).slot, Last(p.stack).type)
                                          THEN (p.use[x] - 1) % (MaxUse + 1) ELSE p.use[x]]
             ELSE p.use

\* The entries R are now in the w slots from g on.
Moves(p, R, g, w, q) ==
  /\ Frame(p, q) /\ q.maxConst = p.maxConst /\ q.err = p.err
  /\ q.stack \in Seq(Entries) /\ Len(q.stack) = Len(p.stack)
  /\ \A i \in 1..Len(p.stack) : q.stack[i] = IF i \in R THEN [slot |-> g, type |-> p.stack[i].type] ELSE p.stack[i]
  /\ q.use \in [0..(MaxSlots - 1) -> 0..MaxUse]
  /\ \A x \in 0..(MaxSlots - 1) : q.use[x] = IF x \in g..(g + w - 1) THEN Cardinality(R) ELSE p.use[x]
  /\ q.reg \in [Registers -> Nat]
  /\ \A r \in Registers : q.reg[r] = IF \E i \in R : p.stack[i].slot = r THEN 0 ELSE p.reg[r]
  /\ g < q.maxStackSlots

\* They are operands that have no slots of their own.
Movable(p, L, R, w) ==
  /\ R \subseteq L
  /\ \A i \in R : i > p.numLocals /\ NumSlots(p.stack[i].type) = w
  /\ \A i \in R, x \in Dynamic(p) : ~RefersTo(p.stack[i], x)

\* The operands are the same ones, at the same or at other places.
Keeps(p, q) ==
  /\ Frame(p, q) /\ Len(q.stack) = Len(p.stack)
  /\ \A i \in 1..Len(p.stack) : q.stack[i].type = p.stack[i].type
  /\ \A i \in 1..Len(p.stack) : i <= p.numLocals => q.stack[i] = p.stack[i]
  /\ \A r \in Registers : q.reg[r] = 0 \/ q.reg[r] = p.reg[r]

\* q has one more operand than p, in slots that were free.
Grown(p, q, s, t) ==
  /\ Frame(p, q) /\ q.maxConst = p.maxConst /\ q.err = p.err /\ q.code = p.code /\ q.reg = p.reg
  /\ q.stack = Append(p.stack, [slot |-> s, type |-> t])
  /\ s \in Nat /\ p.firstDynamic <= s /\ s + NumSlots(t) <= MaxSlots

\* An operand that refers to the local has no slots of its own; one of two slots is the only one.
Refers(p, L, refs, local, w) ==
  /\ refs \subseteq 1..Len(p.stack) /\ \A i \in refs : i > p.numLocals /\ p.stack[i].slot = local
  /\ Movable(p, L, refs, w) /\ (w = 2 => \A i, j \in refs : i = j)

\* Nothing comes to share a local's slots that did not before.
Shares(p, q) == \A s \in Nat : s < p.firstConst /\ SharesWide(q, s) => SharesWide(p, s)

\* What FindReferencedLocal returns.
Found(p, s, q) ==
  /\ Keeps(p, q) /\ q.code = p.code /\ q.got \in Nat /\ q.got < MaxSlots /\ q.got < q.maxStackSlots
  /\ Shares(p, q)

\* q has the first k of the results on top of the operands of p.
Resulted(p, rets, k, q) ==
  /\ Frame(p, q) /\ q.maxConst = p.maxConst /\ q.err = p.err /\ q.code = p.code
  /\ Len(q.stack) = Len(p.stack) + k
  /\ \A i \in 1..Len(p.stack) : q.stack[i] = p.stack[i]
  /\ \A i \in 1..k : q.stack[Len(p.stack) + i].type = rets[i] /\ q.stack[Len(p.stack) + i].slot >= p.firstDynamic
  /\ \A r \in Registers : q.reg[r] = p.reg[r] \/ q.reg[r] > Len(p.stack)
  /\ k < Len(rets) => q.reg = p.reg

\* q differs from p in its blocks, and in what was found last.
Elsewhere(p, q) ==
  /\ DOMAIN q = DOMAIN p /\ q.stack = p.stack /\ q.use = p.use /\ q.reg = p.reg /\ q.numLocals = p.numLocals
  /\ q.firstConst = p.firstConst /\ q.maxConst = p.maxConst /\ q.firstDynamic = p.firstDynamic
  /\ q.maxStackSlots = p.maxStackSlots /\ q.over = p.over /\ q.code = p.code /\ q.ways = p.ways /\ q.err = p.err

\* q has the blocks bs and one more, above records that are in found and no operands of y.
Above(y, bs, found, bs2) ==
  /\ bs2 \in Seq(Scopes) /\ Len(bs2) = Len(bs) + 1 /\ \A d \in 1..Len(bs) : bs2[d] = bs[d]
  /\ bs2[Len(bs2)].base = Len(found.stack)
  /\ Len(y.stack) <= Len(found.stack)
  /\ \A i \in 1..Len(y.stack) : found.stack[i] = y.stack[i]
  /\ \A i \in 1..Len(found.stack) : i <= Len(y.stack) \/ found.stack[i].slot >= y.firstDynamic
  /\ \A r \in Registers : y.reg[r] = 0
  /\ y.firstDynamic = found.firstDynamic /\ y.firstConst = found.firstConst /\ y.numLocals = found.numLocals
  /\ y.maxStackSlots = found.maxStackSlots

\* q is in a block more than p.
Inside(p, results, opcode, q) ==
  /\ Len(q.blocks) = Len(p.blocks) + 1 /\ \A d \in 1..Len(p.blocks) : q.blocks[d] = p.blocks[d]
  /\ q.blocks[Len(p.blocks) + 1].exit = Len(p.stack)
  /\ q.blocks[Len(p.blocks) + 1].base = Len(p.stack) + Len(results)
  /\ q.blocks[Len(p.blocks) + 1].opcode = opcode /\ q.blocks[Len(p.blocks) + 1].results = results
  /\ opcode = "if" => q.blocks[Len(p.blocks) + 1].restart = Len(p.stack)
  /\ q.ways = p.ways /\ q.code = p.code /\ q.maxStackSlots >= p.maxStackSlots

\* q is y with the operands of found as records, and the place of its block on the stack.
OpenedAs(found, d, exit, y, q) ==
  /\ q.err = y.err
  /\ DOMAIN y = Fields =>
        /\ Elsewhere([y EXCEPT !.stack = found.stack], q) /\ q.ways = y.ways /\ q.code = y.code /\ DOMAIN q = Fields
        /\ q.blocks = [[y.blocks EXCEPT ![d].base = Len(found.stack)] EXCEPT ![d].exit = exit]

\* What is there after the end of the innermost block.  An if keeps its records
\* on the stack, for the else.
Outside(r, q) ==
  /\ q.blocks = Front(r.blocks) /\ q.ways = r.ways /\ q.code = r.code /\ DOMAIN q = Fields
  /\ q.maxStackSlots >= r.maxStackSlots

\* q differs from p in what has been emitted, and in what was found last.
Recoded(p, q) ==
  /\ DOMAIN q = DOMAIN p /\ q.stack = p.stack /\ q.use = p.use /\ q.reg = p.reg /\ q.numLocals = p.numLocals
  /\ q.firstConst = p.firstConst /\ q.maxConst = p.maxConst /\ q.firstDynamic = p.firstDynamic
  /\ q.maxStackSlots = p.maxStackSlots /\ q.over = p.over /\ q.err = p.err /\ q.blocks = p.blocks

\* A compilation, or an error met in one.
Begun(p, bs, B) ==
  DOMAIN p = Fields /\ p.numLocals \in Nat /\ (Ok(p) => Sound(p, bs, B, {}, {}))

\* No local has two slots that operands share.
Unshared(p) == \A i \in 1..p.numLocals : ~SharesWide(p, p.stack[i].slot)

\* y is what the compilation x becomes when its instruction has made p of it.
Becomes(p, x, y) ==
  IF Ok(p)
  THEN y = [p EXCEPT !.over = @ \/ \E w \in Ways(p) : Overwrites(p, w.code),
                     !.code = <<>>, !.ways = {}, !.got = Unused]
  ELSE y = [x EXCEPT !.err = p.err]
Covered(p) == \A w \in Ways(p) : ~Overwrites(p, w.code)
\* The operations of the instruction write into the frame, or for a callee.
Contained(p) == \E T : Good(p, T) /\ Covered(p)

=============================================================================
