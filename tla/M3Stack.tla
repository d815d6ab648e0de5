------------------------------- MODULE M3Stack -------------------------------
(***************************************************************************)
(* The compile-time operand stack of the wasm3 compiler that runs the      *)
(* plugins: m3_compile.c translates WebAssembly to operations that work on *)
(* the slots of a stack frame and on two registers, and keeps, for every   *)
(* operand of the program being compiled, where its value will be.         *)
(*                                                                         *)
(* A compilation is the record "o" of the code (M3Compilation), and every  *)
(* operator here is one of its functions: it takes o and returns it        *)
(* changed.  "code" collects the operations emitted for one instruction,   *)
(* "got" is the slot the last allocation returned, "err" the error thrown. *)
(***************************************************************************)
EXTENDS Integers, Sequences, FiniteSets, SequencesExt, FiniteSetsExt

CONSTANTS
    MaxStack,       \* d_m3MaxFunctionStackHeight
    MaxSlots,       \* d_m3MaxFunctionSlots
    MaxUse          \* the largest usage count of a slot (0xFF in the code)

ASSUME LimitsAssumption ==
    /\ MaxStack \in Nat \ {0}
    /\ MaxSlots \in Nat \ {0}
    /\ MaxUse \in Nat \ {0}

Types == {"i32", "i64", "f32", "f64"}
IsFpType(t) == t \in {"f32", "f64"}

\* Slots are 32 bits wide: a 64-bit value takes two, at an even index.
NumSlots(t) == IF t \in {"i64", "f64"} THEN 2 ELSE 1
AlignSlotToType(s, t) == s + (s % NumSlots(t))
\* Arguments and results of a call are 64-bit aligned (c_ioSlotCount).
IoSlots == 2

\* Registers are slot numbers past the last slot; Unused is c_slotUnused.
R0 == MaxSlots
Fp0 == MaxSlots + 1
Registers == {R0, Fp0}
Unused == MaxSlots + 2
Locations == 0..Fp0
IsRegister(s) == s \in Registers
RegisterOf(t) == IF IsFpType(t) THEN Fp0 ELSE R0

Slots(s, t) == s..(s + NumSlots(t) - 1)

(* What the compiler asks of its own state *)

Block(o) == Last(o.blocks)
IsStackPolymorphic(o) == Block(o).poly
NoOperand == [slot |-> Unused, type |-> "none"]

\* The i-th entry from the top, whatever block it belongs to.
FromTop(o, i) == IF i < Len(o.stack) THEN o.stack[Len(o.stack) - i] ELSE NoOperand
TopInRegister(o, i) == IsRegister(FromTop(o, i).slot)
\* Arguments and locals are hidden from the type of the top.
TypeFromTop(o, i) ==
    IF Len(o.stack) - i > o.numLocals THEN FromTop(o, i).type ELSE "none"
NumBlockValues(o) == Len(o.stack) - Block(o).base

IsConstantSlot(o, s) == s >= o.firstConst /\ s < o.maxConst

\* The first slot above every allocated one.
MaxUsedSlotPlusOne(o) ==
    Max({o.firstDynamic} \cup {s + 1 : s \in {x \in DOMAIN o.use : o.use[x] > 0}})

(* Errors: the first one stops every later step *)

Throw(o, e) == IF o.err = "" THEN [o EXCEPT !.err = e] ELSE o
ThrowIf(o, e, cond) == IF cond THEN Throw(o, e) ELSE o
Ok(o) == o.err = ""
\* What follows a call that may throw.
Then(p, Rest(_)) == IF Ok(p) THEN Rest(p) ELSE p

Emit(o, op) == [o EXCEPT !.code = Append(@, op)]
Move(dst, src, t) == [op |-> "move", dst |-> dst, src |-> src, type |-> t]

(* Slots *)

TouchBelow(o, s) == [o EXCEPT !.maxStackSlots = Max({@, s})]      \* mutant: off by one
TouchSlot(o, s) == [o EXCEPT !.maxStackSlots = Max({@, s + 1})]

MarkSlotsAllocated(o, s, t) ==
    TouchSlot([o EXCEPT !.use = [x \in DOMAIN @ |-> IF x \in Slots(s, t) THEN 1 ELSE @[x]]],
              s + NumSlots(t) - 1)

\* First fit, 64-bit values at even slots.
FreeSlots(o, t, start, end) ==
    LET from == AlignSlotToType(start, t)
    IN  {s \in from..(end - NumSlots(t)) : /\ (s - from) % NumSlots(t) = 0
                                           /\ \A x \in Slots(s, t) : o.use[x] = 0}

AllocateWithin(o, t, start, end) ==
    LET First(free) == IF free = {}
                       THEN Throw([o EXCEPT !.got = Unused], "function stack overflow")
                       ELSE [MarkSlotsAllocated(o, Min(free), t) EXCEPT !.got = Min(free)]
    IN  First(FreeSlots(o, t, start, end))

AllocateSlots(o, t) == AllocateWithin(o, t, o.firstDynamic, MaxSlots)

\* Counts one more reference to a slot; of a 64-bit value, only to its first slot.
ShareUncounted(o, s) == o       \* mutant: the second reference is not counted
IncrementSlotUsage(o, s) ==
    IF o.use[s] < MaxUse
    THEN [o EXCEPT !.use[s] = @ + 1]
    ELSE Throw(o, "slot usage count overflow")

\* Counts one less for every slot of the value; the count is an unsigned byte.
DeallocateSlot(o, s, t) ==
    [o EXCEPT !.use = [x \in DOMAIN @ |-> IF x \in Slots(s, t) THEN (@[x] - 1) % (MaxUse + 1) ELSE @[x]]]

(* Registers: o.reg holds the index of the entry that owns each one *)

PreserveRegister(o, r) ==
    LET i == o.reg[r]
        Moved(a) == Emit([a EXCEPT !.stack[i].slot = a.got], Move(a.got, r, a.stack[i].type))
    IN  IF i = 0 \/ ~Ok(o) THEN o
        ELSE Then(AllocateSlots([o EXCEPT !.reg[r] = 0], o.stack[i].type), Moved)

PreserveRegisterOfType(o, t) == PreserveRegister(o, RegisterOf(t))
PreserveRegisters(o) == PreserveRegister(PreserveRegister(o, Fp0), R0)

PreserveNonTopRegisters(o) ==
    LET Keep(p, r) == IF p.reg[r] = Len(p.stack) THEN p ELSE PreserveRegister(p, r)
    IN  Keep(Keep(o, R0), Fp0)

(* The operand stack *)

\* mutant: one entry too many
PushOnFull(o, t, s) ==
    LET p == [o EXCEPT !.stack = Append(@, [slot |-> s, type |-> t])]
    IN  IF ~Ok(o) THEN o ELSE IF IsRegister(s) THEN [p EXCEPT !.reg[s] = Len(p.stack)] ELSE p
Push(o, t, s) ==
    IF ~Ok(o) THEN o
    ELSE IF Len(o.stack) >= MaxStack THEN Throw(o, "function stack overflow")
    ELSE LET p == [o EXCEPT !.stack = Append(@, [slot |-> s, type |-> t])]
         IN  IF IsRegister(s) THEN [p EXCEPT !.reg[s] = Len(p.stack)] ELSE p

PushRegister(o, t) == Push(o, t, RegisterOf(t))

PushAllocatedSlot(o, t) ==
    Then(AllocateSlots(o, t), LAMBDA a : Push(a, t, a.got))

\* Only entries of the innermost block are popped; code that cannot be
\* reached pops from an empty block.
\* mutant: code that cannot be reached must have its operands
PopStrictly(o) ==
    IF ~Ok(o) THEN o
    ELSE IF Len(o.stack) > Block(o).base
    THEN LET e == Last(o.stack)
             p == [o EXCEPT !.stack = Front(@)]
         IN  IF IsRegister(e.slot) THEN [p EXCEPT !.reg[e.slot] = 0]
             ELSE IF e.slot >= o.firstDynamic THEN DeallocateSlot(p, e.slot, e.type)
             ELSE p
    ELSE Throw(o, "function stack underrun")
Pop(o) ==
    IF ~Ok(o) THEN o
    ELSE IF Len(o.stack) > Block(o).base
    THEN LET e == Last(o.stack)
             p == [o EXCEPT !.stack = Front(@)]
         IN  IF IsRegister(e.slot) THEN [p EXCEPT !.reg[e.slot] = 0]
             ELSE IF e.slot >= o.firstDynamic THEN DeallocateSlot(p, e.slot, e.type)
             ELSE p
    ELSE ThrowIf(o, "function stack underrun", ~IsStackPolymorphic(o))

PopType(o, t) ==
    IF TypeFromTop(o, 0) = t \/ IsStackPolymorphic(o) THEN Pop(o) ELSE Throw(o, "type mismatch")

PopN(o, n) == FoldLeft(LAMBDA p, i : Pop(p), o, [i \in 1..n |-> i])

UnwindBlockStack(o) == PopN(o, NumBlockValues(o))

SetStackPolymorphic(o) ==
    UnwindBlockStack([o EXCEPT !.blocks[Len(o.blocks)].poly = TRUE])

\* A constant goes to a slot of the constant table, shared with an equal one,
\* or, when the table is full, to a slot an emitted operation fills.
PushConst(o, c, t) ==
    LET n == NumSlots(t)
        first == AlignSlotToType(o.firstConst, t)
        same == {s \in first..(o.maxConst - n) : /\ (s - first) % n = 0
                                                 /\ \A x \in Slots(s, t) : o.use[x] > 0 /\ o.const[x] = c}
        InTable(a) ==
            Push([a EXCEPT !.const = [x \in DOMAIN @ |-> IF x \in Slots(a.got, t) THEN c ELSE @[x]],
                           !.maxConst = Max({@, a.got + n})], t, a.got)
        Inline(a) == Push(Emit(a, [op |-> "const", dst |-> a.got, val |-> c, type |-> t]), t, a.got)
    IN  IF same # {} THEN Push(o, t, Min(same))
        ELSE IF FreeSlots(o, t, o.firstConst, o.firstDynamic) # {}
        THEN InTable(AllocateWithin(o, t, o.firstConst, o.firstDynamic))
        ELSE Then(AllocateSlots(o, t), Inline)

(* Copies *)

CopyStackIndexToSlot(o, dst, i) == Emit(o, Move(dst, o.stack[i].slot, o.stack[i].type))

\* Only where the stack has an entry: in code that cannot be reached nothing is copied.
CopyStackTopToSlot(o, dst) == Emit(o, Move(dst, FromTop(o, 0).slot, FromTop(o, 0).type))

CopyStackTopToRegister(o) ==
    LET t == TypeFromTop(o, 0)
    IN  IF TopInRegister(o, 0) THEN o
        ELSE Then(PreserveRegisterOfType(o, t),
                  LAMBDA p : Emit(p, Move(RegisterOf(t), FromTop(p, 0).slot, t)))

\* The entries that are the local's own slot, from the innermost scope on that is
\* not a plain block, or from the function.
Innermost(o) == Max({1} \cup {i \in DOMAIN o.blocks : o.blocks[i].opcode # "block"})
Referring(o, local) == {i \in (o.blocks[Innermost(o)].base + 1)..Len(o.stack) : o.stack[i].slot = local}
\* Several of them are to share two slots: only the first will be counted for each.
SharesWide(o, local) == \E i, j \in Referring(o, local) : i # j /\ NumSlots(o.stack[i].type) = 2

\* They are moved to one new slot, which is then counted once for each of them.
\* "got" is the local's slot when it was not referenced.
FindReferencedLocal(o, local) ==
    LET refs == Referring(o, local)
        More(p, i) == IncrementSlotUsage(p, p.got)
        Shared(a) ==
            [FoldLeft(More, a, SetToSeq(refs \ {Min(refs)})) EXCEPT
                !.stack = [i \in DOMAIN @ |-> IF i \in refs THEN [@[i] EXCEPT !.slot = a.got] ELSE @[i]]]
    IN  IF refs = {} \/ ~Ok(o) THEN [o EXCEPT !.got = local]
        ELSE Then(AllocateSlots(o, o.stack[Min(refs)].type), Shared)
=============================================================================
