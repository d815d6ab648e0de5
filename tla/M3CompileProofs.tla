-------------------------- MODULE M3CompileProofs --------------------------
(***************************************************************************)
(* Proofs about M3Compile, for any functions of the shape it assumes and   *)
(* any number of slots: the counts of the slots and the owners of the      *)
(* registers are those of the operands, and no operation writes above the  *)
(* frame.  The lemmas follow the compiler: what its operations on slots,   *)
(* operands and blocks keep of the invariant, then each instruction.       *)
(***************************************************************************)
EXTENDS M3CompileInv, FiniteSetTheorems, SequenceTheorems, WellFoundedInduction, TLAPS

-----------------------------------------------------------------------------
(* Numbers, and folds one step at a time.                                  *)

LEMMA LeastNat ==
  ASSUME NEW T, T \subseteq Nat, T # {}
  PROVE  \E x \in T : \A y \in T : x <= y
<1>1. PICK x \in T : \A y \in T : <<y, x>> \notin OpToRel(<, Nat)
  BY NatLessThanWellFounded, WFMin
<1>2. \A y \in T : ~(y < x)
  BY <1>1 DEF OpToRel
<1>. QED BY <1>2

LEMMA MaxOfRange ==
  ASSUME NEW k \in Nat, NEW s \in SUBSET (1..k), k \in s
  PROVE  Max(s) = k
<1>1. \A y \in s : k >= y
  OBVIOUS
<1>2. \A x \in s : (\A y \in s : x >= y) => x = k
  OBVIOUS
<1>. QED BY <1>1, <1>2 DEF Max

Do(kind, a, p, i) ==
  CASE kind = "pop"    -> Pop(p)
    [] kind = "more"   -> IncrementSlotUsage(p, p.got)
    [] kind = "keep"   -> KeepLocal(p, i)
    [] kind = "pass"   -> PassArgument(a[1], a[2], p, i)
    [] kind = "take"   -> TakeResult(p, i)
    [] kind = "result" -> PushResult(a, p, i)
    [] kind = "copy"   -> CopyResult(a[1], a[2], a[3], p, i)
    [] kind = "return" -> ReturnOne(a, p, i)
    [] kind = "arg"    -> PushArgument(p, i)
    [] kind = "local"  -> PushAllocatedSlot(p, i)
    [] OTHER           -> p

DoBody(f, kind, a, p, q) ==
  [s \in SUBSET (DOMAIN q) |-> IF s = {} THEN p ELSE Do(kind, a, f[s \ {Max(s)}], q[Max(s)])]
DoneBy(f, kind, a, p, q) == f = DoBody(f, kind, a, p, q)

DonePart(f, kind, a, p, q, k) ==
  f = [s \in SUBSET (1..k) |-> IF s = {} THEN p ELSE Do(kind, a, f[s \ {Max(s)}], q[Max(s)])]

LEMMA FoldExists ==
  ASSUME NEW kind, NEW a, NEW p, NEW q, NEW n \in Nat, DOMAIN q = 1..n
  PROVE  \E f : DoneBy(f, kind, a, p, q)
<1>. DEFINE Part(f, k) == DonePart(f, kind, a, p, q, k)
<1>. DEFINE Missing == {k \in Nat : ~\E f : Part(f, k)}
<1>. SUFFICES ASSUME Missing # {} PROVE FALSE
  <2>1. \E f : Part(f, n)
    OBVIOUS
  <2>. QED BY <2>1 DEF DoneBy, DoBody, DonePart
<1>1. PICK k \in Missing : \A j \in Missing : k <= j
  <2>. HIDE DEF Missing
  <2>1. Missing \subseteq Nat
    BY DEF Missing
  <2>. QED BY <2>1, LeastNat
<1>2. k # 0
  <2>1. Part([s \in SUBSET (1..0) |-> p], 0)
    BY DEF DonePart
  <2>. QED BY <2>1, <1>1
<1>3. PICK f : Part(f, k-1)
  <2>1. k-1 \in Nat /\ k-1 \notin Missing
    BY <1>1, <1>2
  <2>. QED BY <2>1
<1>4. PICK g : g = [s \in SUBSET (1..k) |-> IF k \in s THEN Do(kind, a, f[s \ {k}], q[k]) ELSE f[s]]
  OBVIOUS
<1>5. \A s \in SUBSET (1..k) : k \in s => Max(s) = k
  BY MaxOfRange
<1>7. ASSUME NEW s \in SUBSET (1..k)
      PROVE  g[s] = IF s = {} THEN p ELSE Do(kind, a, g[s \ {Max(s)}], q[Max(s)])
  <2>1. CASE k \in s
    <3>1. s \ {k} \in SUBSET (1..k) /\ k \notin s \ {k}
      OBVIOUS
    <3>2. g[s \ {k}] = f[s \ {k}]
      BY <1>4, <3>1
    <3>. QED BY <1>4, <1>5, <2>1, <3>2
  <2>2. CASE k \notin s
    <3>1. s \in SUBSET (1..(k-1))
      BY <1>2, <2>2
    <3>2. k \notin s \ {Max(s)} /\ s \ {Max(s)} \in SUBSET (1..k)
      BY <2>2
    <3>3. g[s] = f[s] /\ g[s \ {Max(s)}] = f[s \ {Max(s)}]
      BY <1>4, <2>2, <3>2
    <3>4. f[s] = IF s = {} THEN p ELSE Do(kind, a, f[s \ {Max(s)}], q[Max(s)])
      BY <1>3, <3>1 DEF DonePart
    <3>. QED BY <3>3, <3>4
  <2>. QED BY <2>1, <2>2
<1>8. Part(g, k)
  <2>1. DOMAIN g = SUBSET (1..k) /\ g = [s \in SUBSET (1..k) |-> g[s]]
    BY <1>4
  <2>. QED BY <1>7, <2>1 DEF DonePart
<1>. QED BY <1>1, <1>8

\* What the first k elements have made of p.
Steps(g, kind, a, p, q, n) ==
  /\ g[0] = p
  /\ \A k \in 1..n : g[k] = Do(kind, a, g[k-1], q[k])

LEMMA FoldSteps ==
  ASSUME NEW kind, NEW a, NEW p, NEW q, NEW n \in Nat, DOMAIN q = 1..n, NEW f, DoneBy(f, kind, a, p, q)
  PROVE  \E g : Steps(g, kind, a, p, q, n) /\ g[n] = f[DOMAIN q]
<1>3. PICK g : g = [k \in 0..n |-> f[1..k]]
  OBVIOUS
<1>4. g[0] = p
  BY <1>3 DEF DoneBy, DoBody
<1>5. ASSUME NEW k \in 1..n PROVE g[k] = Do(kind, a, g[k-1], q[k])
  <2>0. Max(1..k) = k
    BY MaxOfRange
  <2>1. (1..k) \in SUBSET (1..n) /\ 1..k # {} /\ (1..k) \ {k} = 1..(k-1)
    OBVIOUS
  <2>2. f[1..k] = Do(kind, a, f[1..(k-1)], q[k])
    BY <2>0, <2>1 DEF DoneBy, DoBody
  <2>. QED BY <1>3, <2>2
<1>6. g[n] = f[DOMAIN q]
  BY <1>3
<1>. QED BY <1>4, <1>5, <1>6 DEF Steps

LEMMA PopNSteps ==
  ASSUME NEW p, NEW n \in Nat
  PROVE  \E g : Steps(g, "pop", <<>>, p, [i \in 1..n |-> i], n) /\ PopN(p, n) = g[n]
<1>0. PICK q : q = [i \in 1..n |-> i]
  OBVIOUS
<1>. DEFINE Body(h) == [s \in SUBSET (DOMAIN q) |-> IF s = {} THEN p ELSE Pop(h[s \ {Max(s)}])]
<1>1. \A x, k : Do("pop", <<>>, x, k) = Pop(x)
  BY DEF Do
<1>2. \A h : Body(h) = DoBody(h, "pop", <<>>, p, q)
  BY <1>1 DEF DoBody
<1>. HIDE DEF Body
<1>3. \E h : h = Body(h)
  BY <1>0, <1>2, FoldExists DEF DoneBy
<1>4. PICK f : f = Body(f) /\ PopN(p, n) = f[DOMAIN q]
  BY <1>0, <1>3 DEF Body, PopN, FoldLeft, MapThenFoldSet
<1>. QED BY <1>0, <1>2, <1>4, FoldSteps DEF DoneBy

-----------------------------------------------------------------------------
(* What an operation within a block leaves as it is.                       *)

LEMMA FrameTransitive ==
  ASSUME NEW p, NEW q, NEW r, p.maxStackSlots \in Nat, Frame(p, q), Frame(q, r)
  PROVE  Frame(p, r)
BY DEF Frame

LEMMA FrameReflexive ==
  ASSUME NEW p, p.maxStackSlots \in Nat
  PROVE  Frame(p, p)
BY DEF Frame

-----------------------------------------------------------------------------
(* Numbers and slots.                                                      *)

LEMMA MinOf ==
  ASSUME NEW S, S \subseteq Nat, S # {}
  PROVE  Min(S) \in S /\ \A y \in S : Min(S) <= y
<1>1. \E x \in S : \A y \in S : x <= y
  BY LeastNat
<1>. QED BY <1>1 DEF Min

LEMMA MaxOf ==
  ASSUME NEW S, S \subseteq Nat, S # {}, NEW n \in Nat, \A y \in S : y <= n
  PROVE  Max(S) \in S /\ \A y \in S : Max(S) >= y
<1>1. PICK U : U = {b \in Nat : \A y \in S : y <= b}
  OBVIOUS
<1>2. PICK b \in U : \A c \in U : b <= c
  BY <1>1, LeastNat
<1>3. b \in S
  <2>. SUFFICES ASSUME b \notin S PROVE FALSE
    OBVIOUS
  <2>1. \A y \in S : y < b
    BY <1>1, <1>2
  <2>2. b # 0 /\ b \in Nat
    <3>1. PICK y \in S : y < b
      BY <2>1
    <3>. QED BY <1>1, <1>2, <3>1
  <2>3. b - 1 \in U
    BY <1>1, <2>1, <2>2
  <2>. QED BY <1>2, <2>2, <2>3
<1>4. \A y \in S : b >= y
  BY <1>1, <1>2
<1>. QED BY <1>3, <1>4 DEF Max

LEMMA MaxOfTwo ==
  ASSUME NEW a \in Nat, NEW b \in Nat
  PROVE  Max({a, b}) \in {a, b} /\ Max({a, b}) >= a /\ Max({a, b}) >= b
<1>1. \E x \in {a, b} : \A y \in {a, b} : x >= y
  <2>1. CASE a >= b
    BY <2>1
  <2>2. CASE ~(a >= b)
    BY <2>2
  <2>. QED BY <2>1, <2>2
<1>. QED BY <1>1 DEF Max

LEMMA SlotWidth ==
  ASSUME NEW t
  PROVE  NumSlots(t) \in {1, 2}
BY DEF NumSlots

LEMMA SmallMod ==
  ASSUME NEW a \in Nat, NEW n \in Nat, a < n
  PROVE  a % n = a
OBVIOUS

LEMMA Limits ==
  /\ MaxSlots \in Nat /\ MaxSlots > 0 /\ MaxUse \in Nat /\ MaxUse > 0 /\ MaxStack \in Nat /\ MaxStack > 0
  /\ Registers = {MaxSlots, MaxSlots + 1} /\ Locations = 0..(MaxSlots + 1)
  /\ \A s : IsRegister(s) <=> s \in {MaxSlots, MaxSlots + 1}
  /\ \A t : RegisterOf(t) \in Registers
BY LimitsAssumption DEF Registers, R0, Fp0, Locations, IsRegister, RegisterOf

-----------------------------------------------------------------------------
(* What soundness says, and what it is kept by.                            *)

LEMMA SoundParts ==
  ASSUME NEW p, NEW bs, NEW B, NEW T, NEW E, Sound(p, bs, B, T, E)
  PROVE  /\ Shape(p) /\ Framed(p, bs) /\ Placed(p, bs) /\ B \subseteq 1..Base(bs)
         /\ Counts(p, Live(p, bs, B), E) /\ Owners(p, Live(p, bs, B)) /\ InBlock(p, bs)
         /\ Records(p, Live(p, bs, B)) /\ Codes(p, T)
BY DEF Sound

LEMMA SoundNumbers ==
  ASSUME NEW p, NEW bs, NEW B, NEW T, NEW E, Sound(p, bs, B, T, E)
  PROVE  /\ DOMAIN p = Fields
         /\ p.stack \in Seq(Entries) /\ Len(p.stack) \in Nat /\ Base(bs) \in Nat /\ Base(bs) <= Len(p.stack)
         /\ p.use \in [0..(MaxSlots - 1) -> 0..MaxUse] /\ DOMAIN p.use = 0..(MaxSlots - 1)
         /\ p.reg \in [Registers -> Nat]
         /\ p.numLocals \in Nat /\ p.numLocals <= Base(bs)
         /\ p.firstConst \in Nat /\ p.maxConst \in Nat /\ p.firstDynamic \in Nat /\ p.maxStackSlots \in Nat
         /\ p.firstConst <= p.maxConst /\ p.maxConst <= p.firstDynamic /\ p.firstDynamic < MaxSlots
         /\ p.firstDynamic <= p.maxStackSlots
         /\ p.over = FALSE /\ p.err = "" /\ Ok(p)
<1>0. Shape(p) /\ Framed(p, bs)
  BY DEF Sound
<1>1. p.numLocals <= Base(bs)
  <2>1. bs \in Seq(Scopes) /\ Len(bs) > 0 /\ Base(bs) = bs[Len(bs)].base /\ Len(bs) \in 1..Len(bs)
    BY <1>0 DEF Framed, Base, Last
  <2>. QED BY <1>0, <2>1 DEF Framed
<1>2. Len(p.stack) \in Nat
  <2>1. p.stack \in Seq(Entries)
    BY <1>0 DEF Shape
  <2>. QED BY <2>1
<1>3. DOMAIN p.use = 0..(MaxSlots - 1)
  BY <1>0 DEF Shape
<1>. QED BY <1>0, <1>1, <1>2, <1>3 DEF Shape, Framed, Ok

LEMMA EntryIs ==
  ASSUME NEW p, p.stack \in Seq(Entries), NEW i \in 1..Len(p.stack)
  PROVE  /\ p.stack[i] \in Entries /\ p.stack[i].slot \in Nat /\ p.stack[i].slot <= MaxSlots + 1
         /\ p.stack[i].type \in EntryTypes /\ NumSlots(p.stack[i].type) \in {1, 2}
<1>1. p.stack[i] \in Entries
  OBVIOUS
<1>2. p.stack[i].slot \in 0..(MaxSlots + 1)
  BY <1>1, Limits DEF Entries
<1>3. MaxSlots \in Nat
  BY Limits
<1>. QED BY <1>1, <1>2, <1>3, SlotWidth DEF Entries

LEMMA CodeFitsMore ==
  ASSUME NEW code, NEW top \in Nat, NEW more \in Nat, top <= more, NEW T, NEW U, T \subseteq U, CodeFits(code, top, T)
  PROVE  CodeFits(code, more, U)
<1>1. 0..(top - 1) \subseteq 0..(more - 1)
  OBVIOUS
<1>. QED BY <1>1 DEF CodeFits, Fits

LEMMA CodeFitsAppend ==
  ASSUME NEW code, NEW top, NEW T, CodeFits(code, top, T), NEW e, Fits(e, top, T)
  PROVE  CodeFits(Append(code, e), top, T)
<1>1. PICK S : code \in Seq(S)
  BY DEF CodeFits
<1>2. PICK U : U = S \cup {e}
  OBVIOUS
<1>3. code \in Seq(U) /\ Append(code, e) \in Seq(U)
  BY <1>1, <1>2
<1>4. \A i \in 1..Len(Append(code, e)) : Append(code, e)[i] = e \/ (i \in 1..Len(code) /\ Append(code, e)[i] = code[i])
  BY <1>3
<1>. QED BY <1>3, <1>4 DEF CodeFits

LEMMA CodeFitsConcat ==
  ASSUME NEW code, NEW more, NEW top, NEW T, CodeFits(code, top, T), CodeFits(more, top, T)
  PROVE  CodeFits(code \o more, top, T)
<1>1. PICK S : code \in Seq(S)
  BY DEF CodeFits
<1>2. PICK R : more \in Seq(R)
  BY DEF CodeFits
<1>3. PICK U : U = S \cup R
  OBVIOUS
<1>4. code \in Seq(U) /\ more \in Seq(U)
  BY <1>1, <1>2, <1>3
<1>5. /\ code \o more \in Seq(U) /\ Len(code \o more) = Len(code) + Len(more)
      /\ \A i \in 1..(Len(code) + Len(more)) :
             (code \o more)[i] = IF i <= Len(code) THEN code[i] ELSE more[i - Len(code)]
  BY <1>4, ConcatProperties
<1>6. ASSUME NEW i \in 1..Len(code \o more)  PROVE Fits((code \o more)[i], top, T)
  <2>0. Len(code) \in Nat /\ Len(more) \in Nat
    BY <1>4
  <2>1. CASE i <= Len(code)
    BY <1>5, <2>0, <2>1 DEF CodeFits
  <2>2. CASE ~(i <= Len(code))
    <3>1. i - Len(code) \in 1..Len(more)
      BY <1>5, <2>0, <2>2
    <3>. QED BY <1>5, <2>0, <2>2, <3>1 DEF CodeFits
  <2>. QED BY <2>1, <2>2
<1>. QED BY <1>5, <1>6 DEF CodeFits

LEMMA CodesMore ==
  ASSUME NEW p, NEW T, Codes(p, T), p.maxStackSlots \in Nat, NEW q, Frame(p, q), NEW U,
         CodeFits(q.code, q.maxStackSlots, U)
  PROVE  Codes(q, U)
<1>1. ASSUME NEW w \in q.ways  PROVE CodeFits(w.code, q.maxStackSlots, {})
  <2>1. CodeFits(w.code, p.maxStackSlots, {})
    BY <1>1 DEF Codes, Frame
  <2>2. q.maxStackSlots \in Nat /\ p.maxStackSlots <= q.maxStackSlots
    BY DEF Frame
  <2>. QED BY <2>1, <2>2, CodeFitsMore
<1>. QED BY <1>1 DEF Codes

LEMMA SameOperandsSound ==
  ASSUME NEW p, NEW bs, NEW B, NEW T, NEW E, Sound(p, bs, B, T, E), NEW q, SameOperands(p, q), NEW U, NEW G,
         CodeFits(q.code, q.maxStackSlots, U), Counts(q, Live(p, bs, B), G),
         q.use \in [0..(MaxSlots - 1) -> 0..MaxUse]
  PROVE  Sound(q, bs, B, U, G)
<1>0. /\ Shape(p) /\ Framed(p, bs) /\ Placed(p, bs) /\ B \subseteq 1..Base(bs)
      /\ Owners(p, Live(p, bs, B)) /\ InBlock(p, bs)
      /\ Records(p, Live(p, bs, B)) /\ Codes(p, T)
  BY SoundParts
<1>s. /\ q.numLocals = p.numLocals /\ q.firstConst = p.firstConst
      /\ q.firstDynamic = p.firstDynamic /\ q.over = p.over /\ q.ways = p.ways
      /\ q.stack = p.stack /\ q.reg = p.reg /\ q.maxConst = p.maxConst
      /\ q.err = p.err /\ q.maxStackSlots \in Nat /\ q.maxStackSlots >= p.maxStackSlots
      /\ DOMAIN q = DOMAIN p
  BY DEF SameOperands, Frame
<1>n. /\ p.maxStackSlots \in Nat /\ p.firstDynamic \in Nat /\ p.firstDynamic <= p.maxStackSlots
  BY <1>0 DEF Shape
<1>1. Shape(q)
  <2>1. q.firstDynamic <= q.maxStackSlots
    BY <1>s, <1>n
  <2>. QED BY <1>0, <1>s, <2>1 DEF Shape
<1>2. Framed(q, bs) /\ Live(q, bs, B) = Live(p, bs, B)
  BY <1>0, <1>s DEF Framed, Live
<1>3. Placed(q, bs)
  <2>1. ASSUME NEW i \in 1..Len(q.stack)  PROVE EntryFits(q, bs, i, q.stack[i])
    <3>1. EntryFits(p, bs, i, p.stack[i])
      BY <1>0, <1>s DEF Placed
    <3>2. p.stack[i].slot \in Nat
      <4>1. p.stack \in Seq(Entries) /\ i \in 1..Len(p.stack)
        BY <1>0, <1>s DEF Shape
      <4>. QED BY <4>1, EntryIs
    <3>3. p.stack[i].slot < MaxSlots => p.stack[i].slot < q.maxStackSlots
      BY <1>s, <1>n, <3>1, <3>2 DEF EntryFits
    <3>. QED BY <1>s, <3>1, <3>3 DEF EntryFits
  <2>. QED BY <2>1 DEF Placed
<1>4. Counts(q, Live(q, bs, B), G)
  BY <1>2
<1>5. Owners(q, Live(q, bs, B)) /\ InBlock(q, bs) /\ Records(q, Live(q, bs, B))
  BY <1>0, <1>s, <1>2 DEF Owners, InBlock, Records
<1>6. Codes(q, U)
  BY <1>0, <1>n, CodesMore DEF SameOperands
<1>. QED BY <1>0, <1>1, <1>2, <1>3, <1>4, <1>5, <1>6 DEF Sound

LEMMA AddsSound ==
  ASSUME NEW p, NEW bs, NEW B, NEW T, NEW E, Sound(p, bs, B, T, E), NEW q, Adds(p, q), NEW U,
         CodeFits(q.code, q.maxStackSlots, U)
  PROVE  Sound(q, bs, B, U, E)
<1>1. q.use = p.use /\ q.stack = p.stack /\ q.firstDynamic = p.firstDynamic /\ SameOperands(p, q)
  BY DEF Adds, SameOperands, Frame
<1>2. Counts(p, Live(p, bs, B), E) /\ p.use \in [0..(MaxSlots - 1) -> 0..MaxUse]
  BY SoundParts, SoundNumbers
<1>3. Counts(q, Live(p, bs, B), E)
  BY <1>1, <1>2 DEF Counts, RefsTo, Dynamic
<1>. QED BY <1>1, <1>2, <1>3, SameOperandsSound

LEMMA SoundCode ==
  ASSUME NEW p, NEW bs, NEW B, NEW T, NEW E, Sound(p, bs, B, T, E)
  PROVE  CodeFits(p.code, p.maxStackSlots, T) /\ p.maxStackSlots \in Nat /\ p.err = ""
BY DEF Sound, Codes, Shape

LEMMA EmitAdds ==
  ASSUME NEW p, NEW e, p.maxStackSlots \in Nat
  PROVE  Adds(p, Emit(p, e)) /\ Emit(p, e).code = Append(p.code, e) /\ Emit(p, e).maxStackSlots = p.maxStackSlots
         /\ Emit(p, e).got = p.got
BY DEF Adds, SameOperands, Emit, Frame

LEMMA EmitSound ==
  ASSUME NEW p, NEW bs, NEW B, NEW T, NEW E, Sound(p, bs, B, T, E), NEW e, Fits(e, p.maxStackSlots, T)
  PROVE  Sound(Emit(p, e), bs, B, T, E) /\ Adds(p, Emit(p, e)) /\ Emit(p, e).got = p.got
         /\ Emit(p, e).maxStackSlots = p.maxStackSlots
<1>1. CodeFits(Emit(p, e).code, Emit(p, e).maxStackSlots, T)
  <2>1. CodeFits(p.code, p.maxStackSlots, T) /\ p.maxStackSlots \in Nat
    BY SoundCode
  <2>2. CodeFits(Append(p.code, e), p.maxStackSlots, T)
    BY <2>1, CodeFitsAppend
  <2>. QED BY <2>1, <2>2, EmitAdds
<1>2. Adds(p, Emit(p, e)) /\ Emit(p, e).got = p.got /\ Emit(p, e).maxStackSlots = p.maxStackSlots
  BY SoundCode, EmitAdds
<1>. QED BY <1>1, <1>2, AddsSound

LEMMA TouchIs ==
  ASSUME NEW p, NEW s \in Nat, p.maxStackSlots \in Nat
  PROVE  /\ Adds(p, TouchSlot(p, s)) /\ TouchSlot(p, s).code = p.code /\ TouchSlot(p, s).got = p.got
         /\ TouchSlot(p, s).maxStackSlots > s
<1>1. Max({p.maxStackSlots, s + 1}) \in {p.maxStackSlots, s + 1}
      /\ Max({p.maxStackSlots, s + 1}) >= p.maxStackSlots /\ Max({p.maxStackSlots, s + 1}) >= s + 1
  BY MaxOfTwo
<1>. QED BY <1>1 DEF Adds, SameOperands, TouchSlot, Frame

LEMMA ErrIs ==
  ASSUME NEW p, DOMAIN p = Fields, NEW e
  PROVE  [p EXCEPT !.err = e].err = e
BY DEF Fields

LEMMA ThrowErrs ==
  ASSUME NEW p, DOMAIN p = Fields, NEW e, e # ""
  PROVE  ~Ok(Throw(p, e))
<1>0. [p EXCEPT !.err = e].err = e
  BY ErrIs
<1>1. CASE p.err = ""
  <2>1. Throw(p, e) = [p EXCEPT !.err = e]
    BY <1>1 DEF Throw
  <2>. QED BY <1>0, <2>1 DEF Ok
<1>2. CASE p.err # ""
  BY <1>2 DEF Throw, Ok
<1>. QED BY <1>1, <1>2

LEMMA ErrorsStay ==
  ASSUME NEW p, ~Ok(p)
  PROVE  /\ \A e : ~Ok(Emit(p, e))
         /\ \A s : ~Ok(TouchSlot(p, s))
         /\ \A e : ~Ok(Throw(p, e))
         /\ Pop(p) = p /\ \A t, s : Push(p, t, s) = p
         /\ \A r : PreserveRegister(p, r) = p
<1>1. ASSUME NEW e PROVE ~Ok(Emit(p, e))
  <2>1. Emit(p, e).err = p.err
    BY DEF Emit
  <2>. QED BY <2>1 DEF Ok
<1>2. ASSUME NEW s PROVE ~Ok(TouchSlot(p, s))
  <2>1. TouchSlot(p, s).err = p.err
    BY DEF TouchSlot
  <2>. QED BY <2>1 DEF Ok
<1>3. ASSUME NEW e PROVE ~Ok(Throw(p, e))
  BY DEF Ok, Throw
<1>4. Pop(p) = p /\ \A t, s : Push(p, t, s) = p
  BY DEF Pop, Push
<1>5. \A r : PreserveRegister(p, r) = p
  BY DEF PreserveRegister
<1>. QED BY <1>1, <1>2, <1>3, <1>4, <1>5

-----------------------------------------------------------------------------
(* Allocating.                                                             *)

LEMMA MarkIs ==
  ASSUME NEW p, p.maxStackSlots \in Nat, NEW s \in Nat, NEW t, NEW q, q = MarkSlotsAllocated(p, s, t)
  PROVE  /\ SameOperands(p, q) /\ q.code = p.code /\ q.got = p.got
         /\ q.use = [x \in DOMAIN p.use |-> IF x \in Slots(s, t) THEN 1 ELSE p.use[x]]
         /\ q.maxStackSlots >= s + NumSlots(t)
<1>. DEFINE u == [p EXCEPT !.use = [x \in DOMAIN @ |-> IF x \in Slots(s, t) THEN 1 ELSE @[x]]]
<1>1. /\ u.maxStackSlots = p.maxStackSlots
      /\ u.use = [x \in DOMAIN p.use |-> IF x \in Slots(s, t) THEN 1 ELSE p.use[x]]
      /\ u.code = p.code /\ u.got = p.got /\ SameOperands(p, u)
  BY DEF Frame, SameOperands
<1>. HIDE DEF u
<1>2. s + NumSlots(t) - 1 \in Nat /\ NumSlots(t) \in {1, 2}
  BY SlotWidth
<1>3. PICK n : n = s + NumSlots(t) - 1
  OBVIOUS
<1>4. q = TouchSlot(u, n)
  BY <1>3 DEF MarkSlotsAllocated, u
<1>5. Adds(u, q) /\ q.code = u.code /\ q.got = u.got /\ q.maxStackSlots > n
  BY <1>1, <1>2, <1>3, <1>4, TouchIs
<1>6. SameOperands(p, q)
  BY <1>1, <1>5, FrameTransitive DEF SameOperands, Adds
<1>7. q.maxStackSlots >= s + NumSlots(t)
  BY <1>2, <1>3, <1>5, <1>6 DEF SameOperands, Frame
<1>. QED BY <1>1, <1>5, <1>6, <1>7 DEF Adds

LEMMA MarkErrs ==
  ASSUME NEW p, NEW s, NEW t
  PROVE  MarkSlotsAllocated(p, s, t).err = p.err
BY DEF MarkSlotsAllocated, TouchSlot

LEMMA AllocateFacts ==
  ASSUME NEW p, DOMAIN p = Fields, p.maxStackSlots \in Nat, Ok(p), NEW t, NEW start \in Nat, NEW end \in Nat,
         NEW a, a = AllocateWithin(p, t, start, end), Ok(a)
  PROVE  Allocated(p, t, start, end, a)
<1>. DEFINE free == FreeSlots(p, t, start, end)
<1>1. free # {}
  <2>. SUFFICES ASSUME free = {} PROVE FALSE
    OBVIOUS
  <2>. DEFINE p1 == [p EXCEPT !.got = Unused]
  <2>1. a = Throw(p1, "function stack overflow")
    BY DEF AllocateWithin
  <2>2. DOMAIN p1 = Fields
    OBVIOUS
  <2>. HIDE DEF p1
  <2>3. ~Ok(a)
    BY <2>1, <2>2, ThrowErrs
  <2>. QED BY <2>3
<1>2. NumSlots(t) \in {1, 2}
  BY SlotWidth
<1>3. free \subseteq Nat /\ \A s \in free : /\ s >= start /\ s + NumSlots(t) <= end
                                            /\ \A x \in Slots(s, t) : p.use[x] = 0
  <2>1. start % NumSlots(t) \in Nat
    BY <1>2
  <2>2. AlignSlotToType(start, t) \in Nat /\ AlignSlotToType(start, t) >= start
    BY <1>2, <2>1 DEF AlignSlotToType
  <2>. QED BY <1>2, <2>2 DEF FreeSlots
<1>4. PICK g : g = Min(free)
  OBVIOUS
<1>5. g \in free /\ \A s \in free : g <= s
  BY <1>1, <1>3, <1>4, MinOf
<1>6. a = [MarkSlotsAllocated(p, g, t) EXCEPT !.got = g]
  BY <1>1, <1>4 DEF AllocateWithin
<1>7. PICK v : v = MarkSlotsAllocated(p, g, t)
  OBVIOUS
<1>8. /\ SameOperands(p, v) /\ v.code = p.code
      /\ v.use = [x \in DOMAIN p.use |-> IF x \in Slots(g, t) THEN 1 ELSE p.use[x]]
      /\ v.maxStackSlots >= g + NumSlots(t)
  BY <1>3, <1>5, <1>7, MarkIs
<1>9. v.maxStackSlots \in Nat
  BY <1>8 DEF SameOperands, Frame
<1>10. a = [v EXCEPT !.got = g]
  BY <1>6, <1>7
<1>11. /\ DOMAIN a = DOMAIN v /\ a.got = g /\ a.use = v.use /\ a.code = v.code /\ a.maxStackSlots = v.maxStackSlots
       /\ a.stack = v.stack /\ a.reg = v.reg /\ a.maxConst = v.maxConst /\ a.err = v.err
       /\ a.blocks = v.blocks /\ a.numLocals = v.numLocals /\ a.firstConst = v.firstConst
       /\ a.firstDynamic = v.firstDynamic /\ a.over = v.over /\ a.ways = v.ways
  BY <1>9, <1>10
<1>12. SameOperands(p, a)
  BY <1>8, <1>11 DEF SameOperands, Frame
<1>13. \A s \in free : a.got <= s
  BY <1>5, <1>11
<1>14. a.got \in Nat /\ start <= a.got /\ a.got + NumSlots(t) <= end /\ \A x \in Slots(a.got, t) : p.use[x] = 0
  BY <1>3, <1>5, <1>11
<1>. QED BY <1>8, <1>9, <1>11, <1>12, <1>13, <1>14 DEF Allocated

LEMMA AllocateErrs ==
  ASSUME NEW p, NEW t, NEW start, NEW end, ~Ok(p)
  PROVE  ~Ok(AllocateWithin(p, t, start, end))
<1>1. CASE FreeSlots(p, t, start, end) = {}
  <2>. DEFINE p1 == [p EXCEPT !.got = Unused]
  <2>1. AllocateWithin(p, t, start, end) = Throw(p1, "function stack overflow")
    BY <1>1 DEF AllocateWithin
  <2>2. p1.err = p.err
    OBVIOUS
  <2>. HIDE DEF p1
  <2>. QED BY <2>1, <2>2, ErrorsStay DEF Ok
<1>2. CASE FreeSlots(p, t, start, end) # {}
  <2>. DEFINE g == Min(FreeSlots(p, t, start, end))
  <2>. DEFINE v == MarkSlotsAllocated(p, g, t)
  <2>1. AllocateWithin(p, t, start, end) = [v EXCEPT !.got = g]
    BY <1>2 DEF AllocateWithin
  <2>2. v.err = p.err
    BY MarkErrs
  <2>. HIDE DEF g, v
  <2>3. [v EXCEPT !.got = g].err = v.err
    OBVIOUS
  <2>. QED BY <2>1, <2>2, <2>3 DEF Ok
<1>. QED BY <1>1, <1>2

LEMMA RefsFinite ==
  ASSUME NEW p, NEW bs, NEW B, NEW T, NEW E, Sound(p, bs, B, T, E), NEW S, S \subseteq Live(p, bs, B)
  PROVE  S \subseteq 1..Len(p.stack) /\ IsFiniteSet(S) /\ Cardinality(S) \in Nat
<1>1. Len(p.stack) \in Nat /\ Base(bs) \in Nat /\ Base(bs) <= Len(p.stack) /\ B \subseteq 1..Base(bs)
  BY SoundNumbers, SoundParts
<1>2. S \subseteq 1..Len(p.stack)
  BY <1>1 DEF Live
<1>3. IsFiniteSet(1..Len(p.stack))
  BY <1>1, FS_Interval
<1>4. IsFiniteSet(S)
  BY <1>2, <1>3, FS_Subset
<1>. QED BY <1>2, <1>4, FS_CardinalityType

LEMMA AllocatedSound ==
  ASSUME NEW p, NEW bs, NEW B, NEW T, Sound(p, bs, B, T, {}), NEW a, NEW g \in Nat, NEW n \in {1, 2},
         \A x \in g..(g + n - 1) : p.use[x] = 0, Uses(p, a, g, n), SameOperands(p, a), a.code = p.code
  PROVE  Sound(a, bs, B, T, g..(g + n - 1))
<1>n. /\ p.use \in [0..(MaxSlots - 1) -> 0..MaxUse] /\ DOMAIN p.use = 0..(MaxSlots - 1)
      /\ p.maxStackSlots \in Nat /\ p.firstDynamic \in Nat
      /\ MaxSlots \in Nat /\ MaxUse \in Nat /\ MaxUse > 0
  BY SoundNumbers, Limits
<1>s. /\ a.stack = p.stack /\ a.firstDynamic = p.firstDynamic
      /\ a.maxStackSlots \in Nat /\ a.maxStackSlots >= p.maxStackSlots
  BY DEF SameOperands, Frame
<1>1. CodeFits(a.code, a.maxStackSlots, T)
  BY <1>n, <1>s, SoundCode, CodeFitsMore
<1>2. \A s \in 0..(MaxSlots - 1) : a.use[s] = IF s \in g..(g + n - 1) THEN 1 ELSE p.use[s]
  BY <1>n DEF Uses
<1>3. a.use \in [0..(MaxSlots - 1) -> 0..MaxUse]
  <2>1. DOMAIN a.use = 0..(MaxSlots - 1) /\ a.use = [x \in 0..(MaxSlots - 1) |-> a.use[x]]
    BY <1>n DEF Uses
  <2>2. ASSUME NEW s \in 0..(MaxSlots - 1)  PROVE a.use[s] \in 0..MaxUse
    <3>1. p.use[s] \in 0..MaxUse /\ 1 \in 0..MaxUse
      BY <1>n
    <3>2. a.use[s] = IF s \in g..(g + n - 1) THEN 1 ELSE p.use[s]
      BY <1>2
    <3>. QED BY <3>1, <3>2
  <2>. QED BY <2>1, <2>2
<1>4. Counts(a, Live(p, bs, B), g..(g + n - 1))
  <2>1. ASSUME NEW s \in Dynamic(a)
        PROVE  a.use[s] = Cardinality(RefsTo(a, Live(p, bs, B), s)) + (IF s \in g..(g + n - 1) THEN 1 ELSE 0)
    <3>1. s \in Dynamic(p) /\ s \in 0..(MaxSlots - 1)
      BY <1>s, <1>n DEF Dynamic
    <3>2. p.use[s] = Cardinality(RefsTo(p, Live(p, bs, B), s)) + 0
      BY <3>1, SoundParts DEF Counts
    <3>3. RefsTo(a, Live(p, bs, B), s) = RefsTo(p, Live(p, bs, B), s)
      BY <1>s DEF RefsTo
    <3>4. Cardinality(RefsTo(p, Live(p, bs, B), s)) \in Nat
      <4>1. RefsTo(p, Live(p, bs, B), s) \subseteq Live(p, bs, B)
        BY DEF RefsTo
      <4>. QED BY <4>1, RefsFinite
    <3>5. a.use[s] = IF s \in g..(g + n - 1) THEN 1 ELSE p.use[s]
      BY <1>2, <3>1
    <3>6. CASE s \in g..(g + n - 1)
      BY <3>2, <3>3, <3>4, <3>5, <3>6
    <3>7. CASE s \notin g..(g + n - 1)
      BY <3>2, <3>3, <3>5, <3>7
    <3>. QED BY <3>6, <3>7
  <2>. QED BY <2>1 DEF Counts
<1>. QED BY <1>1, <1>3, <1>4, SameOperandsSound

LEMMA AllocateSlotsSound ==
  ASSUME NEW p, NEW bs, NEW B, NEW T, Sound(p, bs, B, T, {}), NEW t, NEW a, a = AllocateSlots(p, t), Ok(a)
  PROVE  /\ Sound(a, bs, B, T, Slots(a.got, t)) /\ Allocated(p, t, p.firstDynamic, MaxSlots, a)
         /\ SameOperands(p, a)
<1>1. DOMAIN p = Fields /\ Ok(p) /\ p.maxStackSlots \in Nat /\ p.firstDynamic \in Nat /\ MaxSlots \in Nat
  BY SoundNumbers, Limits
<1>2. a = AllocateWithin(p, t, p.firstDynamic, MaxSlots)
  BY DEF AllocateSlots
<1>3. Allocated(p, t, p.firstDynamic, MaxSlots, a)
  BY <1>1, <1>2, AllocateFacts
<1>4. NumSlots(t) \in {1, 2} /\ Slots(a.got, t) = a.got..(a.got + NumSlots(t) - 1)
  BY SlotWidth DEF Slots
<1>5. Uses(p, a, a.got, NumSlots(t)) /\ \A x \in a.got..(a.got + NumSlots(t) - 1) : p.use[x] = 0
  BY <1>3, <1>4 DEF Uses, Allocated
<1>6. a.code = p.code /\ SameOperands(p, a) /\ a.got \in Nat
  BY <1>3 DEF Allocated
<1>7. Sound(a, bs, B, T, a.got..(a.got + NumSlots(t) - 1))
  BY <1>4, <1>5, <1>6, AllocatedSound
<1>. QED BY <1>3, <1>4, <1>6, <1>7

-----------------------------------------------------------------------------
(* Pushing.                                                                *)

LEMMA LiveMore ==
  ASSUME NEW p, NEW bs, NEW B, NEW T, NEW E, Sound(p, bs, B, T, E), NEW q, NEW e \in Entries,
         q.stack = Append(p.stack, e)
  PROVE  OneMore(p, bs, B, q, e)
<1>1. /\ p.stack \in Seq(Entries) /\ Len(p.stack) \in Nat /\ Base(bs) \in Nat /\ Base(bs) <= Len(p.stack)
      /\ B \subseteq 1..Base(bs)
  BY SoundNumbers, SoundParts
<1>2. /\ q.stack \in Seq(Entries) /\ Len(q.stack) = Len(p.stack) + 1
      /\ \A i \in 1..Len(p.stack) : q.stack[i] = p.stack[i]
      /\ q.stack[Len(p.stack) + 1] = e
  BY <1>1, AppendProperties
<1>3. Live(p, bs, B) \subseteq 1..Len(p.stack)
  <2>1. 1..Base(bs) \subseteq 1..Len(p.stack) /\ (Base(bs) + 1)..Len(p.stack) \subseteq 1..Len(p.stack)
    BY <1>1
  <2>. QED BY <1>1, <2>1 DEF Live
<1>4. (Base(bs) + 1)..(Len(p.stack) + 1) = (Base(bs) + 1)..Len(p.stack) \cup {Len(p.stack) + 1}
  BY <1>1
<1>5. Live(q, bs, B) = Live(p, bs, B) \cup {Len(p.stack) + 1}
  BY <1>2, <1>4 DEF Live
<1>. QED BY <1>2, <1>3, <1>5 DEF OneMore

LEMMA PushedSound ==
  ASSUME NEW p, NEW bs, NEW B, NEW T, NEW E, Sound(p, bs, B, T, E), NEW s \in Locations, NEW t \in EntryTypes,
         EntryFits(p, bs, Len(p.stack) + 1, [slot |-> s, type |-> t]),
         \A x \in Dynamic(p) : x \in E <=> x \in Slots(s, t),
         s \in Registers => p.reg[s] = 0, NEW q, Pushed(p, q, s, t)
  PROVE  Sound(q, bs, B, T, {})
<1>0. /\ Shape(p) /\ Framed(p, bs) /\ Placed(p, bs) /\ B \subseteq 1..Base(bs)
      /\ Counts(p, Live(p, bs, B), E) /\ Owners(p, Live(p, bs, B)) /\ InBlock(p, bs)
      /\ Records(p, Live(p, bs, B)) /\ Codes(p, T)
  BY SoundParts
<1>n. /\ Len(p.stack) \in Nat /\ Base(bs) \in Nat /\ Base(bs) <= Len(p.stack) /\ p.reg \in [Registers -> Nat]
      /\ p.maxStackSlots \in Nat /\ p.firstDynamic \in Nat /\ p.firstDynamic <= p.maxStackSlots /\ MaxSlots \in Nat
      /\ p.stack \in Seq(Entries)
  BY SoundNumbers, Limits
<1>s. /\ q.numLocals = p.numLocals /\ q.firstConst = p.firstConst
      /\ q.firstDynamic = p.firstDynamic /\ q.over = p.over /\ q.ways = p.ways
      /\ q.use = p.use /\ q.maxConst = p.maxConst
      /\ q.err = p.err /\ q.maxStackSlots \in Nat /\ q.maxStackSlots >= p.maxStackSlots
      /\ DOMAIN q = DOMAIN p /\ q.code = p.code /\ Frame(p, q)
  BY DEF Pushed, Frame
<1>e. PICK e : e = [slot |-> s, type |-> t]
  OBVIOUS
<1>a. e \in Entries /\ e.slot = s /\ e.type = t
  BY <1>e DEF Entries
<1>m. PICK n \in Nat : n = Len(p.stack) + 1
  BY <1>n
<1>l. /\ q.stack \in Seq(Entries) /\ Len(q.stack) = n
      /\ \A i \in 1..Len(p.stack) : q.stack[i] = p.stack[i]
      /\ q.stack[n] = e
      /\ Live(q, bs, B) = Live(p, bs, B) \cup {n}
      /\ Live(p, bs, B) \subseteq 1..Len(p.stack)
  <2>1. q.stack = Append(p.stack, e)
    BY <1>e DEF Pushed
  <2>2. OneMore(p, bs, B, q, e)
    <3>1. e \in Entries
      BY <1>a
    <3>. QED BY <2>1, <3>1, LiveMore
  <2>. QED BY <1>m, <2>2 DEF OneMore
<1>r. /\ q.reg \in [Registers -> Nat]
      /\ \A r \in Registers : q.reg[r] = IF r = s THEN n ELSE p.reg[r]
  <2>1. CASE s \in Registers
    <3>1. q.reg = [p.reg EXCEPT ![s] = n]
      BY <1>m, <2>1 DEF Pushed, IsRegister
    <3>. QED BY <1>n, <2>1, <3>1
  <2>2. CASE s \notin Registers
    <3>1. q.reg = p.reg
      BY <2>2 DEF Pushed, IsRegister
    <3>. QED BY <1>n, <2>2, <3>1
  <2>. QED BY <2>1, <2>2
<1>1. Shape(q)
  <2>1. q.firstDynamic <= q.maxStackSlots
    BY <1>s, <1>n
  <2>. QED BY <1>0, <1>s, <1>l, <1>r, <2>1 DEF Shape
<1>2. Framed(q, bs)
  <2>1. Base(bs) <= Len(q.stack)
    BY <1>n, <1>m, <1>l
  <2>. QED BY <1>0, <1>s, <2>1 DEF Framed
<1>3. Placed(q, bs)
  <2>1. ASSUME NEW i \in 1..Len(q.stack)  PROVE EntryFits(q, bs, i, q.stack[i])
    <3>1. CASE i = n
      <4>1. EntryFits(p, bs, n, e)
        BY <1>e, <1>m
      <4>2. s \in Nat
        BY Limits
      <4>3. s < MaxSlots => s < q.maxStackSlots
        BY <1>a, <1>n, <1>s, <4>1, <4>2 DEF EntryFits
      <4>. QED BY <1>a, <1>l, <1>s, <3>1, <4>1, <4>3 DEF EntryFits
    <3>2. CASE i # n
      <4>1. i \in 1..Len(p.stack) /\ q.stack[i] = p.stack[i]
        BY <1>l, <1>m, <1>n, <3>2
      <4>2. EntryFits(p, bs, i, p.stack[i])
        BY <1>0, <4>1 DEF Placed
      <4>3. p.stack[i].slot \in Nat
        BY <1>n, <4>1, EntryIs
      <4>4. p.stack[i].slot < MaxSlots => p.stack[i].slot < q.maxStackSlots
        BY <1>s, <1>n, <4>2, <4>3 DEF EntryFits
      <4>. QED BY <1>s, <4>1, <4>2, <4>4 DEF EntryFits
    <3>. QED BY <3>1, <3>2
  <2>. QED BY <2>1 DEF Placed
<1>4. Counts(q, Live(q, bs, B), {})
  <2>1. ASSUME NEW x \in Dynamic(q)
        PROVE  q.use[x] = Cardinality(RefsTo(q, Live(q, bs, B), x)) + 0
    <3>1. x \in Dynamic(p)
      BY <1>s DEF Dynamic
    <3>2. p.use[x] = Cardinality(RefsTo(p, Live(p, bs, B), x)) + (IF x \in E THEN 1 ELSE 0)
      BY <1>0, <3>1 DEF Counts
    <3>3. PICK R : R = RefsTo(p, Live(p, bs, B), x)
      OBVIOUS
    <3>4. R \subseteq 1..Len(p.stack) /\ IsFiniteSet(R) /\ Cardinality(R) \in Nat
      <4>1. R \subseteq Live(p, bs, B)
        BY <3>3 DEF RefsTo
      <4>. QED BY <4>1, RefsFinite
    <3>5. n \notin R
      BY <1>m, <1>n, <3>4
    <3>6. CASE x \in Slots(s, t)
      <4>1. RefsTo(q, Live(q, bs, B), x) = R \cup {n}
        <5>1. RefersTo(q.stack[n], x)
          BY <1>a, <1>l, <3>6 DEF RefersTo
        <5>. QED BY <1>l, <3>3, <5>1 DEF RefsTo
      <4>2. Cardinality(R \cup {n}) = Cardinality(R) + 1
        BY <3>4, <3>5, FS_AddElement
      <4>3. x \in E
        BY <3>1, <3>6
      <4>. QED BY <1>s, <3>2, <3>3, <3>4, <4>1, <4>2, <4>3
    <3>7. CASE x \notin Slots(s, t)
      <4>1. RefsTo(q, Live(q, bs, B), x) = R
        <5>1. ~RefersTo(q.stack[n], x)
          BY <1>a, <1>l, <3>7 DEF RefersTo
        <5>. QED BY <1>l, <3>3, <5>1 DEF RefsTo
      <4>2. x \notin E
        BY <3>1, <3>7
      <4>. QED BY <1>s, <3>2, <3>3, <3>4, <4>1, <4>2
    <3>. QED BY <3>6, <3>7
  <2>. QED BY <2>1 DEF Counts
<1>5. Owners(q, Live(q, bs, B))
  <2>1. ASSUME NEW r \in Registers, NEW i \in Live(q, bs, B), q.stack[i].slot = r
        PROVE  i = q.reg[r]
    <3>1. CASE i = n
      BY <1>a, <1>l, <1>r, <2>1, <3>1
    <3>2. CASE i # n
      <4>1. i \in Live(p, bs, B) /\ i \in 1..Len(p.stack) /\ p.stack[i].slot = r
        BY <1>l, <2>1, <3>2
      <4>2. i = p.reg[r]
        BY <1>0, <4>1 DEF Owners
      <4>3. r # s
        BY <1>n, <4>1, <4>2
      <4>. QED BY <1>r, <4>2, <4>3
    <3>. QED BY <3>1, <3>2
  <2>2. ASSUME NEW r \in Registers, q.reg[r] # 0
        PROVE  q.reg[r] \in Live(q, bs, B) /\ q.stack[q.reg[r]].slot = r
    <3>1. CASE r = s
      BY <1>a, <1>l, <1>r, <3>1
    <3>2. CASE r # s
      <4>1. q.reg[r] = p.reg[r] /\ p.reg[r] # 0
        BY <1>r, <2>2, <3>2
      <4>2. p.reg[r] \in Live(p, bs, B) /\ p.stack[p.reg[r]].slot = r
        BY <1>0, <4>1 DEF Owners
      <4>. QED BY <1>l, <4>1, <4>2
    <3>. QED BY <3>1, <3>2
  <2>. QED BY <2>1, <2>2 DEF Owners
<1>6. InBlock(q, bs)
  <2>1. n > Base(bs)
    BY <1>n, <1>m
  <2>. QED BY <1>0, <1>r, <2>1 DEF InBlock
<1>7. Records(q, Live(q, bs, B))
  <2>1. ASSUME NEW i \in 1..Len(q.stack)
        PROVE  i <= q.numLocals \/ i \in Live(q, bs, B) \/ q.stack[i].slot >= q.firstDynamic
    <3>1. CASE i = n
      BY <1>l, <3>1
    <3>2. CASE i # n
      <4>1. i \in 1..Len(p.stack) /\ q.stack[i] = p.stack[i]
        BY <1>l, <1>m, <1>n, <3>2
      <4>. QED BY <1>0, <1>l, <1>s, <4>1 DEF Records
    <3>. QED BY <3>1, <3>2
  <2>. QED BY <2>1 DEF Records
<1>8. Codes(q, T)
  <2>1. CodeFits(q.code, q.maxStackSlots, T)
    BY <1>n, <1>s, SoundCode, CodeFitsMore
  <2>. QED BY <1>0, <1>n, <1>s, <2>1, CodesMore
<1>. QED BY <1>0, <1>1, <1>2, <1>3, <1>4, <1>5, <1>6, <1>7, <1>8 DEF Sound

LEMMA PushIs ==
  ASSUME NEW p, DOMAIN p = Fields, p.maxStackSlots \in Nat, p.stack \in Seq(Entries), NEW t \in EntryTypes,
         NEW s \in Locations, NEW q, q = Push(p, t, s), Ok(q)
  PROVE  Pushed(p, q, s, t) /\ q.got = p.got
<1>1. Ok(p)
  BY ErrorsStay
<1>2. CASE Len(p.stack) >= MaxStack
  <2>1. q = Throw(p, "function stack overflow")
    BY <1>1, <1>2 DEF Push
  <2>. QED BY <2>1, ThrowErrs
<1>3. CASE ~(Len(p.stack) >= MaxStack)
  <2>. DEFINE e == [slot |-> s, type |-> t]
  <2>. DEFINE v == [p EXCEPT !.stack = Append(@, e)]
  <2>2. /\ v.stack = Append(p.stack, e) /\ v.reg = p.reg /\ v.use = p.use /\ v.maxConst = p.maxConst
        /\ v.err = p.err /\ v.code = p.code /\ v.got = p.got /\ Frame(p, v) /\ DOMAIN v = Fields
        /\ v.maxStackSlots \in Nat
    BY DEF Frame, Fields
  <2>3. q = IF IsRegister(s) THEN [v EXCEPT !.reg[s] = Len(v.stack)] ELSE v
    BY <1>1, <1>3 DEF Push
  <2>4. Len(Append(p.stack, e)) = Len(p.stack) + 1
    <3>1. e \in Entries
      BY DEF Entries
    <3>. QED BY <3>1, AppendProperties
  <2>. HIDE DEF e, v
  <2>5. CASE IsRegister(s)
    <3>1. q = [v EXCEPT !.reg = [@ EXCEPT ![s] = Len(p.stack) + 1]]
      BY <2>2, <2>3, <2>4, <2>5
    <3>2. q.reg = [p.reg EXCEPT ![s] = Len(p.stack) + 1]
      BY <2>2, <3>1 DEF Fields
    <3>3. /\ q.stack = v.stack /\ q.use = v.use /\ q.maxConst = v.maxConst
          /\ q.err = v.err /\ q.code = v.code /\ q.got = v.got /\ Frame(v, q)
      BY <2>2, <3>1 DEF Frame
    <3>4. Frame(p, q)
      BY <2>2, <3>3, FrameTransitive
    <3>. QED BY <2>2, <2>5, <3>2, <3>3, <3>4 DEF Pushed, e
  <2>6. CASE ~IsRegister(s)
    BY <2>2, <2>3, <2>6 DEF Pushed, e
  <2>. QED BY <2>5, <2>6
<1>. QED BY <1>2, <1>3

LEMMA PushSound ==
  ASSUME NEW p, NEW bs, NEW B, NEW T, NEW E, Sound(p, bs, B, T, E), NEW s \in Locations, NEW t \in EntryTypes,
         EntryFits(p, bs, Len(p.stack) + 1, [slot |-> s, type |-> t]),
         \A x \in Dynamic(p) : x \in E <=> x \in Slots(s, t),
         s \in Registers => p.reg[s] = 0, NEW q, q = Push(p, t, s), Ok(q)
  PROVE  Sound(q, bs, B, T, {}) /\ Pushed(p, q, s, t)
<1>1. Pushed(p, q, s, t)
  BY PushIs, SoundNumbers
<1>. QED BY <1>1, PushedSound

-----------------------------------------------------------------------------
(* Popping.                                                                *)

LEMMA PopIs ==
  ASSUME NEW p, DOMAIN p = Fields, p.maxStackSlots \in Nat, Ok(p), NEW q, q = Pop(p), Ok(q)
  PROVE  IF Len(p.stack) > Block(p).base THEN Less(p, q) ELSE q = p
<1>1. CASE Len(p.stack) > Block(p).base
  <2>. DEFINE e == Last(p.stack)
  <2>. DEFINE v == [p EXCEPT !.stack = Front(@)]
  <2>1. /\ v.stack = Front(p.stack) /\ v.reg = p.reg /\ v.use = p.use /\ v.maxConst = p.maxConst
        /\ v.err = p.err /\ v.code = p.code /\ v.got = p.got /\ Frame(p, v) /\ DOMAIN v = Fields
        /\ v.maxStackSlots = p.maxStackSlots
    BY DEF Frame, Fields
  <2>2. q = IF IsRegister(e.slot) THEN [v EXCEPT !.reg[e.slot] = 0]
            ELSE IF e.slot >= p.firstDynamic THEN DeallocateSlot(v, e.slot, e.type)
            ELSE v
    BY <1>1 DEF Pop
  <2>3. SUFFICES Less(p, q)
    BY <1>1
  <2>. HIDE DEF e, v
  <2>4. CASE IsRegister(e.slot)
    <3>1. q = [v EXCEPT !.reg[e.slot] = 0]
      BY <2>2, <2>4
    <3>2. q.reg = [p.reg EXCEPT ![e.slot] = 0]
      BY <2>1, <3>1 DEF Fields
    <3>3. /\ q.stack = v.stack /\ q.use = v.use /\ q.maxConst = v.maxConst
          /\ q.err = v.err /\ q.code = v.code /\ q.got = v.got /\ q.maxStackSlots = v.maxStackSlots
          /\ Frame(v, q)
      BY <2>1, <3>1 DEF Frame
    <3>4. Frame(p, q)
      BY <2>1, <3>3, FrameTransitive
    <3>. QED BY <2>1, <2>4, <3>2, <3>3, <3>4 DEF Less, e
  <2>5. CASE ~IsRegister(e.slot) /\ e.slot >= p.firstDynamic
    <3>1. q = [v EXCEPT !.use = [x \in DOMAIN @ |-> IF x \in Slots(e.slot, e.type)
                                                    THEN (@[x] - 1) % (MaxUse + 1) ELSE @[x]]]
      BY <2>2, <2>5 DEF DeallocateSlot
    <3>2. q.use = [x \in DOMAIN p.use |-> IF x \in Slots(e.slot, e.type)
                                          THEN (p.use[x] - 1) % (MaxUse + 1) ELSE p.use[x]]
      BY <2>1, <3>1 DEF Fields
    <3>3. /\ q.stack = v.stack /\ q.reg = v.reg /\ q.maxConst = v.maxConst
          /\ q.err = v.err /\ q.code = v.code /\ q.got = v.got /\ q.maxStackSlots = v.maxStackSlots
          /\ Frame(v, q)
      BY <2>1, <3>1 DEF Frame
    <3>4. Frame(p, q)
      BY <2>1, <3>3, FrameTransitive
    <3>. QED BY <2>1, <2>5, <3>2, <3>3, <3>4 DEF Less, e
  <2>6. CASE ~IsRegister(e.slot) /\ ~(e.slot >= p.firstDynamic)
    <3>1. q = v
      BY <2>2, <2>6
    <3>. QED BY <2>1, <2>6, <3>1 DEF Less, e
  <2>. QED BY <2>4, <2>5, <2>6
<1>2. CASE ~(Len(p.stack) > Block(p).base)
  <2>1. q = ThrowIf(p, "function stack underrun", ~IsStackPolymorphic(p))
    BY <1>2 DEF Pop
  <2>2. CASE IsStackPolymorphic(p)
    BY <1>2, <2>1, <2>2 DEF ThrowIf
  <2>3. CASE ~IsStackPolymorphic(p)
    <3>1. q = Throw(p, "function stack underrun")
      BY <2>1, <2>3 DEF ThrowIf
    <3>. QED BY <3>1, ThrowErrs
  <2>. QED BY <2>2, <2>3
<1>. QED BY <1>1, <1>2

\* The entry on top is an operand of the innermost block.
LEMMA LessSound ==
  ASSUME NEW p, NEW bs, NEW B, NEW T, Sound(p, bs, B, T, {}), Len(p.stack) > Base(bs), NEW q, Less(p, q)
  PROVE  Sound(q, bs, B, T, {}) /\ Dropped(p, bs, 1, q)
<1>0. /\ Shape(p) /\ Framed(p, bs) /\ Placed(p, bs) /\ B \subseteq 1..Base(bs)
      /\ Counts(p, Live(p, bs, B), {}) /\ Owners(p, Live(p, bs, B)) /\ InBlock(p, bs)
      /\ Records(p, Live(p, bs, B)) /\ Codes(p, T)
  BY SoundParts
<1>n. /\ Len(p.stack) \in Nat /\ Base(bs) \in Nat /\ Base(bs) <= Len(p.stack) /\ p.reg \in [Registers -> Nat]
      /\ p.maxStackSlots \in Nat /\ p.firstDynamic \in Nat /\ p.firstDynamic <= p.maxStackSlots /\ MaxSlots \in Nat
      /\ p.stack \in Seq(Entries) /\ p.use \in [0..(MaxSlots - 1) -> 0..MaxUse] /\ DOMAIN p.use = 0..(MaxSlots - 1)
      /\ MaxUse \in Nat /\ p.numLocals \in Nat /\ p.numLocals <= Base(bs)
  BY SoundNumbers, Limits
<1>s. /\ q.numLocals = p.numLocals /\ q.firstConst = p.firstConst
      /\ q.firstDynamic = p.firstDynamic /\ q.over = p.over /\ q.ways = p.ways
      /\ q.maxConst = p.maxConst
      /\ q.err = p.err /\ q.maxStackSlots = p.maxStackSlots
      /\ DOMAIN q = DOMAIN p /\ q.code = p.code /\ Frame(p, q)
  BY DEF Less, Frame
<1>m. PICK n \in Nat : n = Len(p.stack)
  BY <1>n
<1>m1. n > 0 /\ n - 1 \in Nat /\ n \in 1..Len(p.stack) /\ n > Base(bs)
  BY <1>n, <1>m
<1>e. PICK e : e = p.stack[n]
  OBVIOUS
<1>a. /\ e \in Entries /\ e.slot \in Nat /\ e.type \in EntryTypes /\ NumSlots(e.type) \in {1, 2}
      /\ EntryFits(p, bs, n, e) /\ Last(p.stack) = e
  BY <1>0, <1>n, <1>m, <1>m1, <1>e, EntryIs DEF Placed, Last
<1>l. /\ q.stack \in Seq(Entries) /\ Len(q.stack) = n - 1
      /\ \A i \in 1..(n - 1) : q.stack[i] = p.stack[i]
  <2>1. q.stack = SubSeq(p.stack, 1, n - 1)
    BY <1>m DEF Less, Front
  <2>2. \A i \in 1..(n - 1) : p.stack[i] \in Entries
    BY <1>n, <1>m, <1>m1
  <2>. QED BY <1>n, <1>m1, <2>1, <2>2
<1>v. Live(q, bs, B) = Live(p, bs, B) \ {n} /\ n \in Live(p, bs, B) /\ Live(p, bs, B) \subseteq 1..n
  <2>1. 1..Base(bs) \subseteq 1..n /\ (Base(bs) + 1)..n \subseteq 1..n /\ n \notin 1..Base(bs)
        /\ (Base(bs) + 1)..(n - 1) = ((Base(bs) + 1)..n) \ {n} /\ n \in (Base(bs) + 1)..n
    BY <1>n, <1>m1
  <2>. QED BY <1>0, <1>m, <1>l, <2>1 DEF Live
<1>r. /\ q.reg \in [Registers -> Nat]
      /\ \A r \in Registers : q.reg[r] = IF r = e.slot THEN 0 ELSE p.reg[r]
  <2>1. CASE e.slot \in Registers
    <3>1. q.reg = [p.reg EXCEPT ![e.slot] = 0]
      BY <1>a, <2>1 DEF Less, IsRegister
    <3>. QED BY <1>n, <2>1, <3>1
  <2>2. CASE e.slot \notin Registers
    <3>1. q.reg = p.reg
      BY <1>a, <2>2 DEF Less, IsRegister
    <3>. QED BY <1>n, <2>2, <3>1
  <2>. QED BY <2>1, <2>2
<1>r1. ASSUME NEW r \in Registers  PROVE (p.reg[r] = n <=> r = e.slot) /\ p.reg[r] \in Nat /\ p.reg[r] <= n
  <2>1. r = e.slot => n = p.reg[r]
    BY <1>0, <1>v, <1>e DEF Owners
  <2>2. p.reg[r] # 0 => p.reg[r] \in 1..n /\ p.stack[p.reg[r]].slot = r
    BY <1>0, <1>v DEF Owners
  <2>. QED BY <1>n, <1>e, <1>m1, <2>1, <2>2
<1>r2. \A r \in Registers : q.reg[r] = IF p.reg[r] > n - 1 THEN 0 ELSE p.reg[r]
  <2>1. ASSUME NEW r \in Registers  PROVE q.reg[r] = IF p.reg[r] > n - 1 THEN 0 ELSE p.reg[r]
    BY <1>r, <1>r1, <1>m1
  <2>. QED BY <2>1
\* the slots the entry gives back
<1>u. PICK G : G = IF e.slot \notin Registers /\ e.slot >= p.firstDynamic THEN Slots(e.slot, e.type) ELSE {}
  OBVIOUS
<1>u1. \A x \in 0..(MaxSlots - 1) : q.use[x] = IF x \in G THEN (p.use[x] - 1) % (MaxUse + 1) ELSE p.use[x]
  <2>1. CASE e.slot \notin Registers /\ e.slot >= p.firstDynamic
    <3>1. q.use = [x \in 0..(MaxSlots - 1) |-> IF x \in G THEN (p.use[x] - 1) % (MaxUse + 1) ELSE p.use[x]]
      BY <1>a, <1>n, <1>u, <2>1 DEF Less, IsRegister
    <3>. QED BY <3>1
  <2>2. CASE ~(e.slot \notin Registers /\ e.slot >= p.firstDynamic)
    <3>1. q.use = p.use /\ G = {}
      BY <1>a, <1>u, <2>2 DEF Less, IsRegister
    <3>. QED BY <3>1
  <2>. QED BY <2>1, <2>2
<1>u2. \A x \in Dynamic(p) : x \in G <=> RefersTo(e, x)
  <2>1. ASSUME NEW x \in Dynamic(p)  PROVE x \in G <=> RefersTo(e, x)
    <3>1. x \in Nat /\ x >= p.firstDynamic /\ x < MaxSlots
      BY <1>n DEF Dynamic
    <3>2. CASE e.slot \in Registers
      <4>1. e.slot >= MaxSlots
        BY <3>2, Limits
      <4>2. ~RefersTo(e, x)
        BY <1>a, <3>1, <4>1, <1>n DEF RefersTo, Slots
      <4>. QED BY <1>u, <3>2, <4>2
    <3>3. CASE e.slot \notin Registers /\ e.slot < p.firstDynamic
      <4>1. e.slot + NumSlots(e.type) <= p.firstDynamic
        BY <1>a, <3>3 DEF EntryFits
      <4>2. ~RefersTo(e, x)
        BY <1>a, <1>n, <3>1, <4>1 DEF RefersTo, Slots
      <4>3. ~(e.slot >= p.firstDynamic)
        BY <1>a, <1>n, <3>3
      <4>. QED BY <1>u, <4>2, <4>3
    <3>4. CASE e.slot \notin Registers /\ ~(e.slot < p.firstDynamic)
      <4>1. e.slot >= p.firstDynamic
        BY <1>a, <1>n, <3>4
      <4>. QED BY <1>u, <3>4, <4>1 DEF RefersTo
    <3>. QED BY <3>2, <3>3, <3>4
  <2>. QED BY <2>1
<1>u3. \A x \in G : x >= p.firstDynamic
  BY <1>u, <1>a, <1>n DEF Slots
<1>1. ASSUME NEW x \in Dynamic(p)
      PROVE  /\ q.use[x] = Cardinality(RefsTo(q, Live(q, bs, B), x)) + 0
             /\ q.use[x] \in 0..MaxUse /\ q.use[x] <= p.use[x]
  <2>0. x \in 0..(MaxSlots - 1)
    BY <1>n DEF Dynamic
  <2>1. p.use[x] = Cardinality(RefsTo(p, Live(p, bs, B), x)) + 0
    BY <1>0 DEF Counts
  <2>2. PICK R : R = RefsTo(p, Live(p, bs, B), x)
    OBVIOUS
  <2>3. IsFiniteSet(R) /\ Cardinality(R) \in Nat
    <3>1. R \subseteq Live(p, bs, B)
      BY <2>2 DEF RefsTo
    <3>. QED BY <3>1, RefsFinite
  <2>4. RefsTo(q, Live(q, bs, B), x) = R \ {n}
    <3>1. \A i \in Live(q, bs, B) : q.stack[i] = p.stack[i]
      <4>1. \A i \in Live(q, bs, B) : i \in 1..(n - 1)
        BY <1>v, <1>m1
      <4>. QED BY <1>l, <4>1
    <3>. QED BY <1>v, <2>2, <3>1 DEF RefsTo
  <2>5. Cardinality(R \ {n}) = IF n \in R THEN Cardinality(R) - 1 ELSE Cardinality(R)
    BY <2>3, FS_RemoveElement
  <2>6. n \in R <=> x \in G
    BY <1>u2, <1>v, <1>e, <2>2 DEF RefsTo
  <2>7. p.use[x] \in 0..MaxUse
    BY <1>n, <2>0
  <2>8. CASE x \in G
    <3>1. Cardinality(R \ {n}) = Cardinality(R) - 1 /\ Cardinality(R \ {n}) \in Nat
      BY <2>3, <2>5, <2>6, <2>8, FS_RemoveElement, FS_CardinalityType
    <3>2. p.use[x] = Cardinality(R) /\ p.use[x] - 1 \in Nat /\ p.use[x] - 1 < MaxUse + 1
      BY <1>n, <2>1, <2>2, <2>3, <2>7, <3>1
    <3>3. (p.use[x] - 1) % (MaxUse + 1) = p.use[x] - 1
      BY <1>n, <3>2, SmallMod
    <3>4. q.use[x] = p.use[x] - 1
      BY <1>u1, <2>0, <2>8, <3>3
    <3>. QED BY <1>n, <2>4, <2>7, <3>1, <3>2, <3>4
  <2>9. CASE x \notin G
    <3>1. q.use[x] = p.use[x]
      BY <1>u1, <2>0, <2>9
    <3>. QED BY <1>n, <2>1, <2>2, <2>3, <2>4, <2>5, <2>6, <2>7, <2>9, <3>1
  <2>. QED BY <2>8, <2>9
<1>2. \A x \in 0..(MaxSlots - 1) : q.use[x] \in 0..MaxUse /\ q.use[x] <= p.use[x]
  <2>1. ASSUME NEW x \in 0..(MaxSlots - 1)  PROVE q.use[x] \in 0..MaxUse /\ q.use[x] <= p.use[x]
    <3>1. CASE x \in Dynamic(p)
      BY <1>1, <3>1
    <3>2. CASE x \notin Dynamic(p)
      <4>1. x \notin G
        BY <1>u3, <1>n, <3>2 DEF Dynamic
      <4>2. q.use[x] = p.use[x] /\ p.use[x] \in 0..MaxUse
        BY <1>u1, <1>n, <4>1
      <4>. QED BY <4>2, <1>n
    <3>. QED BY <3>1, <3>2
  <2>. QED BY <2>1
<1>3. q.use \in [0..(MaxSlots - 1) -> 0..MaxUse]
  <2>1. \E f : q.use = [x \in 0..(MaxSlots - 1) |-> f[x]]
    <3>1. CASE ~IsRegister(e.slot) /\ e.slot >= p.firstDynamic
      <4>1. q.use = [x \in 0..(MaxSlots - 1) |-> IF x \in Slots(e.slot, e.type) THEN (p.use[x] - 1) % (MaxUse + 1) ELSE p.use[x]]
        BY <1>a, <1>n, <3>1 DEF Less
      <4>2. q.use = [x \in 0..(MaxSlots - 1) |-> q.use[x]]
        BY <4>1
      <4>. QED BY <4>2
    <3>2. CASE ~(~IsRegister(e.slot) /\ e.slot >= p.firstDynamic)
      <4>1. q.use = p.use
        BY <1>a, <3>2 DEF Less
      <4>2. q.use = [x \in 0..(MaxSlots - 1) |-> q.use[x]]
        BY <1>n, <4>1
      <4>. QED BY <4>2
    <3>. QED BY <3>1, <3>2
  <2>2. q.use = [x \in 0..(MaxSlots - 1) |-> q.use[x]]
    BY <2>1
  <2>. QED BY <1>2, <2>2
<1>4. Shape(q)
  BY <1>0, <1>s, <1>l, <1>r, <1>3 DEF Shape
<1>5. Framed(q, bs)
  <2>1. Base(bs) <= Len(q.stack)
    BY <1>n, <1>m, <1>m1, <1>l
  <2>. QED BY <1>0, <1>s, <2>1 DEF Framed
<1>6. Placed(q, bs)
  <2>1. ASSUME NEW i \in 1..Len(q.stack)  PROVE EntryFits(q, bs, i, q.stack[i])
    <3>1. i \in 1..Len(p.stack) /\ i \in 1..(n - 1)
      BY <1>l, <1>m, <1>m1
    <3>2. EntryFits(p, bs, i, p.stack[i]) /\ q.stack[i] = p.stack[i]
      BY <1>0, <1>l, <3>1 DEF Placed
    <3>. QED BY <1>s, <3>2 DEF EntryFits
  <2>. QED BY <2>1 DEF Placed
<1>7. Counts(q, Live(q, bs, B), {})
  BY <1>1, <1>s DEF Counts, Dynamic
<1>8. Owners(q, Live(q, bs, B))
  <2>1. ASSUME NEW r \in Registers, NEW i \in Live(q, bs, B), q.stack[i].slot = r
        PROVE  i = q.reg[r]
    <3>1. i \in 1..(n - 1) /\ i \in Live(p, bs, B) /\ i # n
      BY <1>v, <1>m1
    <3>2. i = p.reg[r]
      BY <1>0, <1>l, <2>1, <3>1 DEF Owners
    <3>. QED BY <1>r, <1>r1, <3>1, <3>2
  <2>2. ASSUME NEW r \in Registers, q.reg[r] # 0
        PROVE  q.reg[r] \in Live(q, bs, B) /\ q.stack[q.reg[r]].slot = r
    <3>1. r # e.slot /\ q.reg[r] = p.reg[r] /\ p.reg[r] # n
      BY <1>r, <1>r1, <2>2
    <3>2. p.reg[r] \in Live(p, bs, B) /\ p.stack[p.reg[r]].slot = r
      BY <1>0, <2>2, <3>1 DEF Owners
    <3>3. p.reg[r] \in 1..(n - 1)
      BY <1>v, <1>m1, <3>1, <3>2
    <3>. QED BY <1>l, <1>v, <3>1, <3>2, <3>3
  <2>. QED BY <2>1, <2>2 DEF Owners
<1>9. InBlock(q, bs)
  BY <1>0, <1>r DEF InBlock
<1>10. Records(q, Live(q, bs, B))
  <2>1. ASSUME NEW i \in 1..Len(q.stack)
        PROVE  i <= q.numLocals \/ i \in Live(q, bs, B) \/ q.stack[i].slot >= q.firstDynamic
    <3>1. i \in 1..Len(p.stack) /\ i \in 1..(n - 1) /\ i # n
      BY <1>l, <1>m, <1>m1
    <3>2. i <= p.numLocals \/ i \in Live(p, bs, B) \/ p.stack[i].slot >= p.firstDynamic
      BY <1>0, <3>1 DEF Records
    <3>. QED BY <1>l, <1>s, <1>v, <3>1, <3>2
  <2>. QED BY <2>1 DEF Records
<1>11. Codes(q, T)
  BY <1>0, <1>s DEF Codes
<1>12. Sound(q, bs, B, T, {})
  BY <1>0, <1>4, <1>5, <1>6, <1>7, <1>8, <1>9, <1>10, <1>11 DEF Sound
<1>13. Dropped(p, bs, 1, q)
  <2>1. Len(q.stack) = IF Len(p.stack) - 1 >= Base(bs) THEN Len(p.stack) - 1 ELSE Base(bs)
    BY <1>l, <1>m, <1>m1, <1>n
  <2>2. q.got = p.got
    BY DEF Less
  <2>. QED BY <1>s, <1>l, <1>2, <1>r2, <2>1, <2>2 DEF Dropped
<1>. QED BY <1>12, <1>13

LEMMA DroppedNone ==
  ASSUME NEW p, NEW bs, NEW B, NEW T, NEW E, Sound(p, bs, B, T, E), NEW n \in Nat, n = 0 \/ Len(p.stack) = Base(bs)
  PROVE  Dropped(p, bs, n, p)
<1>n. /\ Len(p.stack) \in Nat /\ Base(bs) \in Nat /\ Base(bs) <= Len(p.stack) /\ p.reg \in [Registers -> Nat]
      /\ p.maxStackSlots \in Nat /\ MaxSlots \in Nat /\ MaxUse \in Nat
      /\ p.stack \in Seq(Entries) /\ p.use \in [0..(MaxSlots - 1) -> 0..MaxUse]
  BY SoundNumbers, Limits
<1>1. Len(p.stack) = IF Len(p.stack) - n >= Base(bs) THEN Len(p.stack) - n ELSE Base(bs)
  <2>1. PICK k \in Nat, b \in Nat : k = Len(p.stack) /\ b = Base(bs)
    BY <1>n
  <2>2. b <= k /\ (n = 0 \/ k = b)
    BY <1>n, <2>1
  <2>3. k = IF k - n >= b THEN k - n ELSE b
    BY <2>2
  <2>. QED BY <2>1, <2>3
<1>2. ASSUME NEW r \in Registers  PROVE p.reg[r] = IF p.reg[r] > Len(p.stack) THEN 0 ELSE p.reg[r]
  <2>1. p.reg[r] # 0 => p.reg[r] \in Live(p, bs, B)
    BY SoundParts DEF Owners
  <2>2. Live(p, bs, B) \subseteq 1..Len(p.stack)
    BY RefsFinite
  <2>. QED BY <1>n, <2>1, <2>2
<1>3. ASSUME NEW x \in 0..(MaxSlots - 1)  PROVE p.use[x] <= p.use[x]
  BY <1>n
<1>. QED BY <1>n, <1>1, <1>2, <1>3, FrameReflexive DEF Dropped

LEMMA PopSound ==
  ASSUME NEW p, NEW bs, NEW B, NEW T, Sound(p, bs, B, T, {}), Block(p).base = Base(bs), NEW q, q = Pop(p), Ok(q)
  PROVE  Sound(q, bs, B, T, {}) /\ Dropped(p, bs, 1, q)
<1>0. /\ DOMAIN p = Fields /\ p.maxStackSlots \in Nat /\ Ok(p)
      /\ Len(p.stack) \in Nat /\ Base(bs) \in Nat /\ Base(bs) <= Len(p.stack)
  BY SoundNumbers
<1>1. IF Len(p.stack) > Base(bs) THEN Less(p, q) ELSE q = p
  BY <1>0, PopIs
<1>2. CASE Len(p.stack) > Base(bs)
  BY <1>1, <1>2, LessSound
<1>3. CASE ~(Len(p.stack) > Base(bs))
  <2>1. q = p /\ Len(p.stack) = Base(bs)
    BY <1>0, <1>1, <1>3
  <2>. QED BY <2>1, DroppedNone
<1>. QED BY <1>2, <1>3

LEMMA Upwards ==
  ASSUME NEW n \in Nat, NEW S, 0 \in S, \A k \in 1..n : k - 1 \in S => k \in S
  PROVE  \A k \in 0..n : k \in S
<1>. DEFINE Missing == {k \in 0..n : k \notin S}
<1>. SUFFICES ASSUME Missing # {} PROVE FALSE
  OBVIOUS
<1>1. PICK k \in Missing : \A j \in Missing : k <= j
  <2>1. Missing \subseteq Nat
    OBVIOUS
  <2>. HIDE DEF Missing
  <2>. QED BY <2>1, LeastNat
<1>2. k \in 1..n /\ k - 1 \in 0..n /\ k - 1 \notin Missing
  BY <1>1
<1>. QED BY <1>1, <1>2

LEMMA DroppedTransitive ==
  ASSUME NEW p, NEW bs, NEW B, NEW T, Sound(p, bs, B, T, {}), NEW n \in Nat, NEW k \in Nat,
         NEW q, Sound(q, bs, B, T, {}), NEW r, Sound(r, bs, B, T, {}), Dropped(p, bs, n, q), Dropped(q, bs, k, r)
  PROVE  Dropped(p, bs, n + k, r)
<1>n. /\ Len(p.stack) \in Nat /\ Len(q.stack) \in Nat /\ Len(r.stack) \in Nat /\ Base(bs) \in Nat
      /\ p.reg \in [Registers -> Nat]
      /\ p.maxStackSlots \in Nat /\ MaxSlots \in Nat
      /\ p.use \in [0..(MaxSlots - 1) -> 0..MaxUse] /\ q.use \in [0..(MaxSlots - 1) -> 0..MaxUse]
      /\ r.use \in [0..(MaxSlots - 1) -> 0..MaxUse]
  BY SoundNumbers, Limits
<1>1. /\ Frame(p, q) /\ q.maxConst = p.maxConst /\ q.err = p.err /\ q.code = p.code /\ q.got = p.got
      /\ q.maxStackSlots = p.maxStackSlots
      /\ Len(q.stack) = IF Len(p.stack) - n >= Base(bs) THEN Len(p.stack) - n ELSE Base(bs)
      /\ \A i \in 1..Len(q.stack) : q.stack[i] = p.stack[i]
      /\ \A x \in Registers : q.reg[x] = IF p.reg[x] > Len(q.stack) THEN 0 ELSE p.reg[x]
      /\ \A x \in 0..(MaxSlots - 1) : q.use[x] <= p.use[x]
  BY DEF Dropped
<1>2. /\ Frame(q, r) /\ r.maxConst = q.maxConst /\ r.err = q.err /\ r.code = q.code /\ r.got = q.got
      /\ r.maxStackSlots = q.maxStackSlots /\ r.stack \in Seq(Entries)
      /\ Len(r.stack) = IF Len(q.stack) - k >= Base(bs) THEN Len(q.stack) - k ELSE Base(bs)
      /\ \A i \in 1..Len(r.stack) : r.stack[i] = q.stack[i]
      /\ \A x \in Registers : r.reg[x] = IF q.reg[x] > Len(r.stack) THEN 0 ELSE q.reg[x]
      /\ \A x \in 0..(MaxSlots - 1) : r.use[x] <= q.use[x]
  BY DEF Dropped
<1>3. /\ Len(r.stack) = IF Len(p.stack) - (n + k) >= Base(bs) THEN Len(p.stack) - (n + k) ELSE Base(bs)
      /\ Len(r.stack) <= Len(q.stack)
  <2>0. Base(bs) <= Len(q.stack) /\ Base(bs) <= Len(p.stack)
    BY SoundNumbers
  <2>1. PICK a \in Nat, b \in Nat, c \in Nat, d \in Nat :
            a = Len(p.stack) /\ b = Len(q.stack) /\ c = Len(r.stack) /\ d = Base(bs)
    BY <1>n
  <2>2. (b = IF a - n >= d THEN a - n ELSE d) /\ (c = IF b - k >= d THEN b - k ELSE d) /\ d <= b /\ d <= a
    BY <1>1, <1>2, <2>0, <2>1
  <2>3. (c = IF a - (n + k) >= d THEN a - (n + k) ELSE d) /\ c <= b
    BY <2>2
  <2>. QED BY <2>1, <2>3
<1>4. ASSUME NEW i \in 1..Len(r.stack)  PROVE r.stack[i] = p.stack[i]
  <2>1. i \in 1..Len(q.stack)
    BY <1>n, <1>3
  <2>. QED BY <1>1, <1>2, <2>1
<1>5. ASSUME NEW x \in Registers  PROVE r.reg[x] = IF p.reg[x] > Len(r.stack) THEN 0 ELSE p.reg[x]
  <2>1. p.reg[x] \in Nat
    BY <1>n
  <2>2. q.reg[x] = (IF p.reg[x] > Len(q.stack) THEN 0 ELSE p.reg[x])
        /\ r.reg[x] = (IF q.reg[x] > Len(r.stack) THEN 0 ELSE q.reg[x])
    BY <1>1, <1>2
  <2>. QED BY <1>n, <1>3, <2>1, <2>2
<1>6. ASSUME NEW x \in 0..(MaxSlots - 1)  PROVE r.use[x] <= p.use[x]
  <2>1. q.use[x] <= p.use[x] /\ r.use[x] <= q.use[x]
    BY <1>1, <1>2
  <2>2. p.use[x] \in 0..MaxUse /\ q.use[x] \in 0..MaxUse /\ r.use[x] \in 0..MaxUse
    BY <1>n
  <2>3. p.use[x] \in Int /\ q.use[x] \in Int /\ r.use[x] \in Int
    BY <2>2
  <2>. QED BY <2>1, <2>3
<1>7. Frame(p, r)
  BY <1>n, <1>1, <1>2, FrameTransitive
<1>. QED BY <1>1, <1>2, <1>3, <1>4, <1>5, <1>6, <1>7 DEF Dropped

LEMMA PopNSound ==
  ASSUME NEW p, NEW bs, NEW B, NEW T, Sound(p, bs, B, T, {}), Block(p).base = Base(bs), NEW n \in Nat,
         NEW q, q = PopN(p, n), Ok(q)
  PROVE  Sound(q, bs, B, T, {}) /\ Dropped(p, bs, n, q)
<1>0. PICK s : s = [i \in 1..n |-> i]
  OBVIOUS
<1>1. PICK g : Steps(g, "pop", <<>>, p, s, n) /\ q = g[n]
  BY <1>0, PopNSteps
<1>2. g[0] = p /\ \A k \in 1..n : g[k] = Pop(g[k - 1])
  BY <1>1 DEF Steps, Do
<1>. DEFINE S == {k \in 0..n : Ok(g[k]) => Sound(g[k], bs, B, T, {}) /\ Dropped(p, bs, k, g[k])}
<1>3. 0 \in S
  BY <1>2, DroppedNone
<1>4. ASSUME NEW k \in 1..n, k - 1 \in S  PROVE k \in S
  <2>. SUFFICES ASSUME Ok(g[k]) PROVE Sound(g[k], bs, B, T, {}) /\ Dropped(p, bs, k, g[k])
    OBVIOUS
  <2>1. g[k] = Pop(g[k - 1])
    BY <1>2
  <2>2. Ok(g[k - 1])
    BY <2>1, ErrorsStay
  <2>3. Sound(g[k - 1], bs, B, T, {}) /\ Dropped(p, bs, k - 1, g[k - 1])
    BY <1>4, <2>2
  <2>4. Block(g[k - 1]).base = Base(bs)
    BY <2>3 DEF Dropped, Frame, Block
  <2>5. Sound(g[k], bs, B, T, {}) /\ Dropped(g[k - 1], bs, 1, g[k])
    BY <2>1, <2>3, <2>4, PopSound
  <2>6. k - 1 \in Nat /\ (k - 1) + 1 = k
    OBVIOUS
  <2>7. Dropped(p, bs, (k - 1) + 1, g[k])
    BY <2>3, <2>5, <2>6, DroppedTransitive
  <2>. QED BY <2>5, <2>6, <2>7
<1>. HIDE DEF S
<1>5. n \in S
  BY <1>3, <1>4, Upwards
<1>. QED BY <1>1, <1>5 DEF S

LEMMA PopNErrs ==
  ASSUME NEW p, ~Ok(p), NEW n \in Nat
  PROVE  PopN(p, n) = p
<1>0. PICK s : s = [i \in 1..n |-> i]
  OBVIOUS
<1>1. PICK g : Steps(g, "pop", <<>>, p, s, n) /\ PopN(p, n) = g[n]
  BY <1>0, PopNSteps
<1>2. g[0] = p /\ \A k \in 1..n : g[k] = Pop(g[k - 1])
  BY <1>1 DEF Steps, Do
<1>. DEFINE S == {k \in 0..n : g[k] = p}
<1>3. 0 \in S
  BY <1>2
<1>4. ASSUME NEW k \in 1..n, k - 1 \in S  PROVE k \in S
  BY <1>2, <1>4, ErrorsStay
<1>. HIDE DEF S
<1>5. n \in S
  BY <1>3, <1>4, Upwards
<1>. QED BY <1>1, <1>5 DEF S

-----------------------------------------------------------------------------
(* Moving operands out of a register or away from a local.                 *)

LEMMA MovesSound ==
  ASSUME NEW p, NEW bs, NEW B, NEW T, Sound(p, bs, B, T, {}), NEW R, NEW g \in Nat, NEW w \in {1, 2},
         Movable(p, Live(p, bs, B), R, w),
         p.firstDynamic <= g, g + w <= MaxSlots, \A x \in g..(g + w - 1) : p.use[x] = 0,
         NEW q, Moves(p, R, g, w, q), CodeFits(q.code, q.maxStackSlots, T)
  PROVE  Sound(q, bs, B, T, {})
<1>0. /\ Shape(p) /\ Framed(p, bs) /\ Placed(p, bs) /\ B \subseteq 1..Base(bs)
      /\ Counts(p, Live(p, bs, B), {}) /\ Owners(p, Live(p, bs, B)) /\ InBlock(p, bs)
      /\ Records(p, Live(p, bs, B)) /\ Codes(p, T)
  BY SoundParts
<1>n. /\ Len(p.stack) \in Nat /\ Base(bs) \in Nat /\ Base(bs) <= Len(p.stack) /\ p.reg \in [Registers -> Nat]
      /\ p.maxStackSlots \in Nat /\ p.firstDynamic \in Nat /\ p.firstDynamic <= p.maxStackSlots
      /\ p.firstConst \in Nat /\ p.maxConst \in Nat /\ p.firstConst <= p.maxConst /\ p.maxConst <= p.firstDynamic
      /\ MaxSlots \in Nat
      /\ p.stack \in Seq(Entries) /\ p.numLocals \in Nat
  BY SoundNumbers, Limits
<1>n1. g < MaxSlots /\ p.firstConst <= p.firstDynamic
  BY <1>n
<1>s. /\ q.numLocals = p.numLocals /\ q.firstConst = p.firstConst
      /\ q.firstDynamic = p.firstDynamic /\ q.over = p.over /\ q.ways = p.ways
      /\ q.maxConst = p.maxConst
      /\ q.err = p.err /\ q.maxStackSlots \in Nat /\ q.maxStackSlots >= p.maxStackSlots
      /\ DOMAIN q = DOMAIN p /\ Frame(p, q)
  BY DEF Moves, Frame
<1>l. /\ q.stack \in Seq(Entries) /\ Len(q.stack) = Len(p.stack)
      /\ \A i \in 1..Len(p.stack) : /\ i \in R => q.stack[i].slot = g /\ q.stack[i].type = p.stack[i].type
                                    /\ i \notin R => q.stack[i] = p.stack[i]
  <2>1. q.stack \in Seq(Entries) /\ Len(q.stack) = Len(p.stack)
    BY DEF Moves
  <2>2. ASSUME NEW i \in 1..Len(p.stack)
        PROVE  /\ i \in R => q.stack[i].slot = g /\ q.stack[i].type = p.stack[i].type
               /\ i \notin R => q.stack[i] = p.stack[i]
    <3>1. q.stack[i] = IF i \in R THEN [slot |-> g, type |-> p.stack[i].type] ELSE p.stack[i]
      BY DEF Moves
    <3>. QED BY <3>1
  <2>. QED BY <2>1, <2>2
<1>v. Live(q, bs, B) = Live(p, bs, B) /\ Live(p, bs, B) \subseteq 1..Len(p.stack)
  <2>1. Live(q, bs, B) = Live(p, bs, B)
    BY <1>l DEF Live
  <2>. QED BY <2>1, RefsFinite
<1>m. /\ R \subseteq Live(p, bs, B)
      /\ \A i \in R : i > p.numLocals /\ NumSlots(p.stack[i].type) = w
      /\ \A i \in R, x \in Dynamic(p) : ~RefersTo(p.stack[i], x)
  BY DEF Movable
<1>g. g \notin Registers
  BY <1>n, <1>n1, Limits
<1>1. Shape(q)
  <2>1. q.firstDynamic <= q.maxStackSlots
    BY <1>s, <1>n
  <2>2. q.use \in [0..(MaxSlots - 1) -> 0..MaxUse] /\ q.reg \in [Registers -> Nat]
    BY DEF Moves
  <2>. QED BY <1>0, <1>s, <1>l, <2>1, <2>2 DEF Shape
<1>2. Framed(q, bs)
  BY <1>0, <1>s, <1>l DEF Framed
<1>3. Placed(q, bs)
  <2>1. ASSUME NEW i \in 1..Len(q.stack)  PROVE EntryFits(q, bs, i, q.stack[i])
    <3>1. i \in 1..Len(p.stack) /\ i \in Nat
      BY <1>l, <1>n
    <3>2. EntryFits(p, bs, i, p.stack[i])
      BY <1>0, <3>1 DEF Placed
    <3>3. CASE i \in R
      <4>1. q.stack[i].slot = g /\ q.stack[i].type = p.stack[i].type /\ i > p.numLocals
        BY <1>l, <1>m, <3>1, <3>3
      <4>2. ~IsRegister(g) /\ ~(g < q.firstConst) /\ ~(g < q.firstDynamic) /\ ~(i <= q.numLocals) /\ g < q.maxStackSlots
        BY <1>g, <1>n, <1>n1, <1>s, <3>1, <4>1 DEF IsRegister, Moves
      <4>3. p.stack[i].type = "none" => \E d \in 1..Len(bs) : i = bs[d].base + 1
        BY <3>2 DEF EntryFits
      <4>. QED BY <4>1, <4>2, <4>3 DEF EntryFits
    <3>4. CASE i \notin R
      <4>1. q.stack[i] = p.stack[i]
        BY <1>l, <3>1, <3>4
      <4>2. p.stack[i].slot \in Nat
        BY <1>n, <3>1, EntryIs
      <4>3. p.stack[i].slot < MaxSlots => p.stack[i].slot < q.maxStackSlots
        BY <1>s, <1>n, <3>2, <4>2 DEF EntryFits
      <4>. QED BY <1>s, <3>2, <4>1, <4>3 DEF EntryFits
    <3>. QED BY <3>3, <3>4
  <2>. QED BY <2>1 DEF Placed
<1>4. Counts(q, Live(q, bs, B), {})
  <2>1. ASSUME NEW x \in Dynamic(q)
        PROVE  q.use[x] = Cardinality(RefsTo(q, Live(q, bs, B), x)) + 0
    <3>0. x \in 0..(MaxSlots - 1) /\ x \in Dynamic(p)
      BY <1>n, <1>s DEF Dynamic
    <3>1. p.use[x] = Cardinality(RefsTo(p, Live(p, bs, B), x)) + 0
      BY <1>0, <3>0 DEF Counts
    <3>2. PICK S : S = RefsTo(p, Live(p, bs, B), x)
      OBVIOUS
    <3>3. S \subseteq Live(p, bs, B) /\ IsFiniteSet(S) /\ Cardinality(S) \in Nat
      <4>1. S \subseteq Live(p, bs, B)
        BY <3>2 DEF RefsTo
      <4>. QED BY <4>1, RefsFinite
    <3>4. \A i \in R : i \notin S
      BY <1>m, <3>0, <3>2 DEF RefsTo
    <3>5. \A i \in R : RefersTo(q.stack[i], x) <=> x \in g..(g + w - 1)
      <4>1. ASSUME NEW i \in R  PROVE RefersTo(q.stack[i], x) <=> x \in g..(g + w - 1)
        <5>1. i \in 1..Len(p.stack)
          BY <1>m, <1>v
        <5>2. q.stack[i].slot = g /\ q.stack[i].type = p.stack[i].type /\ NumSlots(p.stack[i].type) = w
          BY <1>l, <1>m, <5>1
        <5>. QED BY <5>2 DEF RefersTo, Slots
      <4>. QED BY <4>1
    <3>6. \A i \in Live(p, bs, B) : i \notin R => (RefersTo(q.stack[i], x) <=> i \in S)
      BY <1>l, <1>v, <3>2 DEF RefsTo
    <3>7. CASE x \in g..(g + w - 1)
      <4>1. p.use[x] = 0
        BY <3>7
      <4>2. S = {}
        BY <3>1, <3>2, <3>3, <4>1, FS_EmptySet
      <4>3. RefsTo(q, Live(q, bs, B), x) = R
        BY <1>v, <1>m, <3>5, <3>6, <3>7, <4>2 DEF RefsTo
      <4>4. q.use[x] = Cardinality(R)
        BY <3>0, <3>7 DEF Moves
      <4>5. Cardinality(R) \in Nat
        BY <1>m, RefsFinite
      <4>. QED BY <4>3, <4>4, <4>5
    <3>8. CASE x \notin g..(g + w - 1)
      <4>1. RefsTo(q, Live(q, bs, B), x) = S
        BY <1>v, <1>m, <3>3, <3>4, <3>5, <3>6, <3>8 DEF RefsTo
      <4>2. q.use[x] = p.use[x]
        BY <3>0, <3>8 DEF Moves
      <4>. QED BY <3>1, <3>2, <4>1, <4>2
    <3>. QED BY <3>7, <3>8
  <2>. QED BY <2>1 DEF Counts
<1>r. \A r \in Registers : q.reg[r] = IF \E i \in R : p.stack[i].slot = r THEN 0 ELSE p.reg[r]
  BY DEF Moves
<1>5. Owners(q, Live(q, bs, B))
  <2>1. ASSUME NEW r \in Registers, NEW i \in Live(q, bs, B), q.stack[i].slot = r
        PROVE  i = q.reg[r]
    <3>1. i \in Live(p, bs, B) /\ i \in 1..Len(p.stack)
      BY <1>v
    <3>2. i \notin R
      BY <1>l, <1>g, <2>1, <3>1
    <3>3. i = p.reg[r]
      BY <1>0, <1>l, <2>1, <3>1, <3>2 DEF Owners
    <3>4. ~\E j \in R : p.stack[j].slot = r
      <4>1. ASSUME NEW j \in R, p.stack[j].slot = r  PROVE FALSE
        <5>1. j = p.reg[r]
          BY <1>0, <1>m, <4>1 DEF Owners
        <5>. QED BY <3>2, <3>3, <5>1
      <4>. QED BY <4>1
    <3>. QED BY <1>r, <3>3, <3>4
  <2>2. ASSUME NEW r \in Registers, q.reg[r] # 0
        PROVE  q.reg[r] \in Live(q, bs, B) /\ q.stack[q.reg[r]].slot = r
    <3>1. (~\E j \in R : p.stack[j].slot = r) /\ q.reg[r] = p.reg[r]
      BY <1>r, <2>2
    <3>2. p.reg[r] \in Live(p, bs, B) /\ p.stack[p.reg[r]].slot = r
      BY <1>0, <2>2, <3>1 DEF Owners
    <3>3. p.reg[r] \notin R
      BY <3>1, <3>2
    <3>. QED BY <1>l, <1>v, <3>1, <3>2, <3>3
  <2>. QED BY <2>1, <2>2 DEF Owners
<1>6. InBlock(q, bs)
  BY <1>0, <1>r DEF InBlock
<1>7. Records(q, Live(q, bs, B))
  <2>1. ASSUME NEW i \in 1..Len(q.stack)
        PROVE  i <= q.numLocals \/ i \in Live(q, bs, B) \/ q.stack[i].slot >= q.firstDynamic
    <3>1. i \in 1..Len(p.stack)
      BY <1>l
    <3>2. i <= p.numLocals \/ i \in Live(p, bs, B) \/ p.stack[i].slot >= p.firstDynamic
      BY <1>0, <3>1 DEF Records
    <3>3. i \notin R => q.stack[i] = p.stack[i]
      BY <1>l, <3>1
    <3>. QED BY <1>m, <1>s, <1>v, <3>2, <3>3
  <2>. QED BY <2>1 DEF Records
<1>8. Codes(q, T)
  BY <1>0, <1>n, <1>s, CodesMore
<1>. QED BY <1>0, <1>1, <1>2, <1>3, <1>4, <1>5, <1>6, <1>7, <1>8 DEF Sound

LEMMA KeepsTransitive ==
  ASSUME NEW p, NEW q, NEW r, p.maxStackSlots \in Nat, Keeps(p, q), Keeps(q, r)
  PROVE  Keeps(p, r)
<1>1. Frame(p, r)
  BY FrameTransitive DEF Keeps
<1>2. q.numLocals = p.numLocals
  BY DEF Keeps, Frame
<1>. QED BY <1>1, <1>2 DEF Keeps

LEMMA KeepsReflexive ==
  ASSUME NEW p, p.maxStackSlots \in Nat
  PROVE  Keeps(p, p)
BY FrameReflexive DEF Keeps

LEMMA AddsKeeps ==
  ASSUME NEW p, NEW q, SameOperands(p, q)
  PROVE  Keeps(p, q)
BY DEF Keeps, SameOperands

LEMMA MovesKeeps ==
  ASSUME NEW p, NEW R, NEW g, NEW w, NEW q, Moves(p, R, g, w, q), \A i \in R : ~(i <= p.numLocals)
  PROVE  Keeps(p, q)
<1>1. ASSUME NEW i \in 1..Len(p.stack)
      PROVE  q.stack[i].type = p.stack[i].type /\ (i <= p.numLocals => q.stack[i] = p.stack[i])
  <2>1. q.stack[i] = IF i \in R THEN [slot |-> g, type |-> p.stack[i].type] ELSE p.stack[i]
    BY DEF Moves
  <2>. QED BY <2>1
<1>2. ASSUME NEW r \in Registers  PROVE q.reg[r] = 0 \/ q.reg[r] = p.reg[r]
  BY DEF Moves
<1>. QED BY <1>1, <1>2 DEF Keeps, Moves


LEMMA PreserveSound ==
  ASSUME NEW p, NEW bs, NEW B, NEW T, Sound(p, bs, B, T, {}), NEW r \in Registers,
         NEW q, q = PreserveRegister(p, r), Ok(q)
  PROVE  Sound(q, bs, B, T, {}) /\ Keeps(p, q) /\ q.reg[r] = 0
<1>n. /\ Len(p.stack) \in Nat /\ Base(bs) \in Nat /\ p.reg \in [Registers -> Nat]
      /\ p.maxStackSlots \in Nat /\ p.firstDynamic \in Nat /\ MaxSlots \in Nat
      /\ p.stack \in Seq(Entries) /\ p.numLocals \in Nat /\ p.numLocals <= Base(bs)
      /\ DOMAIN p = Fields /\ Ok(p) /\ MaxUse \in Nat /\ MaxUse > 0
      /\ p.use \in [0..(MaxSlots - 1) -> 0..MaxUse] /\ DOMAIN p.use = 0..(MaxSlots - 1)
  BY SoundNumbers, Limits
<1>1. CASE p.reg[r] = 0
  <2>1. q = p
    BY <1>1 DEF PreserveRegister
  <2>. QED BY <1>1, <1>n, <2>1, KeepsReflexive
<1>2. CASE p.reg[r] # 0
  <2>. DEFINE i == p.reg[r]
  <2>. DEFINE t == p.stack[i].type
  <2>. DEFINE v == [p EXCEPT !.reg[r] = 0]
  <2>0. /\ i \in Live(p, bs, B) /\ p.stack[i].slot = r /\ i \in 1..Len(p.stack) /\ i > Base(bs)
    <3>1. i \in Live(p, bs, B) /\ p.stack[i].slot = r
      BY <1>2, SoundParts DEF Owners
    <3>2. i \in 1..Len(p.stack)
      BY <3>1, RefsFinite
    <3>3. i > Base(bs)
      BY <1>2, SoundParts DEF InBlock
    <3>. QED BY <3>1, <3>2, <3>3
  <2>1. /\ v.stack = p.stack /\ v.use = p.use /\ v.maxConst = p.maxConst /\ v.err = p.err /\ v.code = p.code
        /\ v.firstDynamic = p.firstDynamic /\ v.maxStackSlots = p.maxStackSlots
        /\ Frame(p, v) /\ DOMAIN v = Fields
        /\ v.reg = [p.reg EXCEPT ![r] = 0]
    BY <1>n DEF Frame, Fields
  <2>2. PICK a : a = AllocateSlots(v, t)
    OBVIOUS
  <2>3. q = Then(a, LAMBDA x : Emit([x EXCEPT !.stack[i].slot = x.got], Move(x.got, r, x.stack[i].type)))
    BY <1>n, <1>2, <2>2 DEF PreserveRegister
  <2>. HIDE DEF v
  <2>4. Ok(a)
    <3>1. CASE ~Ok(a)
      BY <2>3, <3>1 DEF Then
    <3>. QED BY <3>1
  <2>5. Allocated(v, t, p.firstDynamic, MaxSlots, a)
    <3>1. a = AllocateWithin(v, t, p.firstDynamic, MaxSlots)
      BY <2>1, <2>2 DEF AllocateSlots
    <3>2. Ok(v) /\ v.maxStackSlots \in Nat
      BY <1>n, <2>1 DEF Ok
    <3>. QED BY <1>n, <2>1, <2>4, <3>1, <3>2, AllocateFacts
  <2>6. /\ a.got \in Nat /\ p.firstDynamic <= a.got /\ a.got + NumSlots(t) <= MaxSlots
        /\ \A x \in Slots(a.got, t) : p.use[x] = 0
        /\ a.use = [x \in DOMAIN p.use |-> IF x \in Slots(a.got, t) THEN 1 ELSE p.use[x]]
        /\ a.code = p.code /\ SameOperands(v, a)
        /\ a.maxStackSlots \in Nat /\ a.maxStackSlots >= a.got + NumSlots(t)
    BY <2>1, <2>5 DEF Allocated
  <2>7. /\ a.stack = p.stack /\ a.reg = [p.reg EXCEPT ![r] = 0] /\ a.maxConst = p.maxConst /\ a.err = p.err
        /\ Frame(p, a) /\ DOMAIN a = Fields
    BY <1>n, <2>1, <2>6, FrameTransitive DEF SameOperands, Frame
  <2>. DEFINE b == [a EXCEPT !.stack[i].slot = a.got]
  <2>. DEFINE e == Move(a.got, r, t)
  <2>8. q = Emit(b, e)
    BY <2>3, <2>4, <2>7 DEF Then
  <2>9. /\ b.stack = [p.stack EXCEPT ![i] = [@ EXCEPT !.slot = a.got]]
        /\ b.use = a.use /\ b.reg = a.reg /\ b.maxConst = a.maxConst /\ b.err = a.err /\ b.code = a.code
        /\ Frame(a, b) /\ b.maxStackSlots = a.maxStackSlots
    BY <2>6, <2>7 DEF Frame, Fields
  <2>. HIDE DEF b, e
  <2>10. Adds(b, q) /\ q.code = Append(p.code, e) /\ q.maxStackSlots = a.maxStackSlots
    BY <2>6, <2>8, <2>9, EmitAdds
  <2>w. PICK w \in {1, 2} : w = NumSlots(t)
    BY SlotWidth
  <2>11. Moves(p, {i}, a.got, w, q)
    <3>1. Frame(p, q)
      BY <1>n, <2>7, <2>9, <2>10, FrameTransitive DEF Adds, SameOperands
    <3>2. q.maxConst = p.maxConst /\ q.err = p.err /\ q.use = a.use /\ q.reg = a.reg /\ q.stack = b.stack
      BY <2>7, <2>9, <2>10 DEF Adds, SameOperands
    <3>3. a.got \in Locations
      BY <1>n, <2>6, <2>w, Limits
    <3>4. [p.stack[i] EXCEPT !.slot = a.got] = [slot |-> a.got, type |-> t]
          /\ [slot |-> a.got, type |-> t] \in Entries
      <4>1. p.stack[i] \in Entries
        BY <1>n, <2>0, EntryIs
      <4>. QED BY <3>3, <4>1 DEF Entries
    <3>5. q.stack = [p.stack EXCEPT ![i] = [slot |-> a.got, type |-> t]]
      BY <2>0, <2>9, <3>2, <3>4
    <3>6. /\ q.stack \in Seq(Entries) /\ Len(q.stack) = Len(p.stack)
          /\ \A j \in 1..Len(p.stack) : q.stack[j] = IF j \in {i} THEN [slot |-> a.got, type |-> p.stack[j].type] ELSE p.stack[j]
      BY <1>n, <2>0, <3>4, <3>5, ExceptSeq
    <3>7. /\ q.use \in [0..(MaxSlots - 1) -> 0..MaxUse]
          /\ \A x \in 0..(MaxSlots - 1) : q.use[x] = IF x \in a.got..(a.got + w - 1) THEN 1 ELSE p.use[x]
      <4>1. q.use = [x \in 0..(MaxSlots - 1) |-> IF x \in a.got..(a.got + w - 1) THEN 1 ELSE p.use[x]]
        BY <1>n, <2>6, <2>w, <3>2 DEF Slots
      <4>2. 1 \in 0..MaxUse /\ \A x \in 0..(MaxSlots - 1) : p.use[x] \in 0..MaxUse
        BY <1>n
      <4>. QED BY <4>1, <4>2
    <3>8. Cardinality({i}) = 1
      BY FS_Singleton
    <3>9. /\ q.reg \in [Registers -> Nat]
          /\ \A x \in Registers : q.reg[x] = IF \E j \in {i} : p.stack[j].slot = x THEN 0 ELSE p.reg[x]
      <4>1. q.reg = [p.reg EXCEPT ![r] = 0]
        BY <2>7, <3>2
      <4>. QED BY <1>n, <2>0, <4>1
    <3>10. a.got < q.maxStackSlots
      BY <2>6, <2>10, <2>w
    <3>. QED BY <3>1, <3>2, <3>6, <3>7, <3>8, <3>9, <3>10 DEF Moves
  <2>12. Movable(p, Live(p, bs, B), {i}, w)
    <3>1. i > p.numLocals
      BY <1>n, <2>0
    <3>2. ASSUME NEW x \in Dynamic(p)  PROVE ~RefersTo(p.stack[i], x)
      <4>1. p.stack[i].slot >= MaxSlots /\ p.stack[i].slot \in Nat /\ NumSlots(t) \in {1, 2}
        BY <1>n, <2>0, Limits, SlotWidth
      <4>2. x < MaxSlots /\ x \in Nat
        BY <1>n DEF Dynamic
      <4>. QED BY <1>n, <4>1, <4>2 DEF RefersTo, Slots
    <3>. QED BY <2>0, <2>w, <3>1, <3>2 DEF Movable
  <2>13. CodeFits(q.code, q.maxStackSlots, T)
    <3>1. CodeFits(p.code, a.maxStackSlots, T)
      <4>1. p.maxStackSlots <= a.maxStackSlots
        BY <2>7 DEF Frame
      <4>. QED BY <1>n, <2>6, <4>1, SoundCode, CodeFitsMore
    <3>2. Fits(e, a.maxStackSlots, T)
      <4>1. a.got \in 0..(a.maxStackSlots - 1)
        BY <2>6, <2>w
      <4>2. PlacesOf(e) = {a.got}
        BY DEF PlacesOf, e, Move
      <4>. QED BY <4>1, <4>2 DEF Fits
    <3>. QED BY <2>10, <3>1, <3>2, CodeFitsAppend
  <2>14. a.got + w <= MaxSlots /\ \A x \in a.got..(a.got + w - 1) : p.use[x] = 0
    BY <2>6, <2>w DEF Slots
  <2>15. Sound(q, bs, B, T, {})
    BY <2>6, <2>11, <2>12, <2>13, <2>14, MovesSound
  <2>16. Keeps(p, q)
    <3>1. ~(i <= p.numLocals)
      BY <1>n, <2>0
    <3>. QED BY <2>11, <3>1, MovesKeeps
  <2>17. q.reg[r] = 0
    BY <2>0, <2>11 DEF Moves
  <2>. QED BY <2>15, <2>16, <2>17
<1>. QED BY <1>1, <1>2

LEMMA PreserveRegistersSound ==
  ASSUME NEW p, NEW bs, NEW B, NEW T, Sound(p, bs, B, T, {}), NEW q, q = PreserveRegisters(p), Ok(q)
  PROVE  Sound(q, bs, B, T, {}) /\ Keeps(p, q) /\ \A r \in Registers : q.reg[r] = 0
<1>1. PICK v : v = PreserveRegister(p, Fp0)
  OBVIOUS
<1>2. q = PreserveRegister(v, R0)
  BY <1>1 DEF PreserveRegisters
<1>3. Fp0 \in Registers /\ R0 \in Registers /\ Registers = {R0, Fp0}
  BY DEF Registers
<1>4. Ok(v)
  BY <1>2, ErrorsStay
<1>5. Sound(v, bs, B, T, {}) /\ Keeps(p, v) /\ v.reg[Fp0] = 0
  BY <1>1, <1>3, <1>4, PreserveSound
<1>6. Sound(q, bs, B, T, {}) /\ Keeps(v, q) /\ q.reg[R0] = 0
  BY <1>2, <1>3, <1>5, PreserveSound
<1>7. q.reg[Fp0] = 0
  BY <1>3, <1>5, <1>6 DEF Keeps
<1>8. Keeps(p, q)
  BY <1>5, <1>6, SoundNumbers, KeepsTransitive
<1>. QED BY <1>3, <1>6, <1>7, <1>8

\* Only the entry on top may still be in a register.
LEMMA PreserveNonTopSound ==
  ASSUME NEW p, NEW bs, NEW B, NEW T, Sound(p, bs, B, T, {}), NEW q, q = PreserveNonTopRegisters(p), Ok(q)
  PROVE  /\ Sound(q, bs, B, T, {}) /\ Keeps(p, q)
         /\ \A r \in Registers : q.reg[r] = 0 \/ q.reg[r] = Len(q.stack)
<1>1. PICK v : v = IF p.reg[R0] = Len(p.stack) THEN p ELSE PreserveRegister(p, R0)
  OBVIOUS
<1>2. q = IF v.reg[Fp0] = Len(v.stack) THEN v ELSE PreserveRegister(v, Fp0)
  BY <1>1 DEF PreserveNonTopRegisters
<1>3. Fp0 \in Registers /\ R0 \in Registers /\ Registers = {R0, Fp0}
  BY DEF Registers
<1>4. Ok(v)
  BY <1>2, ErrorsStay
<1>5. p.maxStackSlots \in Nat
  BY SoundNumbers
<1>6. Sound(v, bs, B, T, {}) /\ Keeps(p, v) /\ (v.reg[R0] = 0 \/ v.reg[R0] = Len(v.stack))
  <2>1. CASE p.reg[R0] = Len(p.stack)
    BY <1>1, <1>5, <2>1, KeepsReflexive
  <2>2. CASE p.reg[R0] # Len(p.stack)
    <3>1. v = PreserveRegister(p, R0)
      BY <1>1, <2>2
    <3>. QED BY <1>3, <1>4, <3>1, PreserveSound
  <2>. QED BY <2>1, <2>2
<1>7. /\ Sound(q, bs, B, T, {}) /\ Keeps(v, q) /\ (q.reg[Fp0] = 0 \/ q.reg[Fp0] = Len(q.stack))
  <2>0. v.maxStackSlots \in Nat
    BY <1>6, SoundNumbers
  <2>1. CASE v.reg[Fp0] = Len(v.stack)
    BY <1>2, <1>6, <2>0, <2>1, KeepsReflexive
  <2>2. CASE v.reg[Fp0] # Len(v.stack)
    <3>1. q = PreserveRegister(v, Fp0)
      BY <1>2, <2>2
    <3>. QED BY <1>3, <1>6, <3>1, PreserveSound
  <2>. QED BY <2>1, <2>2
<1>8. q.reg[R0] = 0 \/ q.reg[R0] = Len(q.stack)
  BY <1>3, <1>6, <1>7 DEF Keeps
<1>9. Keeps(p, q)
  BY <1>5, <1>6, <1>7, KeepsTransitive
<1>. QED BY <1>3, <1>7, <1>8, <1>9

-----------------------------------------------------------------------------
(* What is pushed where.                                                   *)

LEMMA TypesAre ==
  ASSUME NEW t \in Types
  PROVE  t \in EntryTypes /\ t # "none"
BY DEF Types, EntryTypes

\* The slots of a value are set aside, and the value is pushed.
LEMMA PushSlotSound ==
  ASSUME NEW p, NEW bs, NEW B, NEW T, NEW s \in Nat, NEW t \in Types, Sound(p, bs, B, T, Slots(s, t)),
         p.firstDynamic <= s, s + NumSlots(t) <= MaxSlots, s < p.maxStackSlots, NEW q, q = Push(p, t, s), Ok(q)
  PROVE  Sound(q, bs, B, T, {}) /\ Pushed(p, q, s, t)
<1>n. /\ p.firstConst \in Nat /\ p.firstDynamic \in Nat /\ p.firstConst <= p.firstDynamic /\ MaxSlots \in Nat
      /\ Len(p.stack) \in Nat /\ p.numLocals \in Nat /\ p.numLocals <= Len(p.stack) /\ p.maxConst \in Nat
  <2>1. /\ p.firstConst \in Nat /\ p.firstDynamic \in Nat /\ p.firstConst <= p.maxConst /\ p.maxConst <= p.firstDynamic
        /\ p.maxConst \in Nat /\ Len(p.stack) \in Nat /\ p.numLocals \in Nat
    BY SoundNumbers
  <2>2. p.numLocals <= Base(bs) /\ Base(bs) <= Len(p.stack) /\ Base(bs) \in Nat
    BY SoundNumbers
  <2>3. p.numLocals <= Len(p.stack)
    BY <2>1, <2>2
  <2>. QED BY <2>1, <2>3, Limits
<1>w. NumSlots(t) \in {1, 2} /\ t \in EntryTypes /\ t # "none"
  BY SlotWidth, TypesAre
<1>1. s < MaxSlots /\ s \in Locations /\ s \notin Registers /\ ~IsRegister(s)
  BY <1>n, <1>w, Limits
<1>2. EntryFits(p, bs, Len(p.stack) + 1, [slot |-> s, type |-> t])
  BY <1>n, <1>w, <1>1 DEF EntryFits
<1>. QED BY <1>w, <1>1, <1>2, PushSound

LEMMA PushAllocatedSound ==
  ASSUME NEW p, NEW bs, NEW B, NEW T, Sound(p, bs, B, T, {}), NEW t \in Types,
         NEW q, q = PushAllocatedSlot(p, t), Ok(q)
  PROVE  Sound(q, bs, B, T, {}) /\ \E s : Grown(p, q, s, t)
<1>1. PICK a : a = AllocateSlots(p, t)
  OBVIOUS
<1>2. q = IF Ok(a) THEN Push(a, t, a.got) ELSE a
  BY <1>1 DEF PushAllocatedSlot, Then
<1>3. Ok(a) /\ q = Push(a, t, a.got)
  BY <1>2
<1>4. Sound(a, bs, B, T, Slots(a.got, t)) /\ Allocated(p, t, p.firstDynamic, MaxSlots, a) /\ SameOperands(p, a)
  BY <1>1, <1>3, AllocateSlotsSound
<1>n. p.maxStackSlots \in Nat /\ p.firstDynamic \in Nat /\ MaxSlots \in Nat /\ NumSlots(t) \in {1, 2}
  BY SoundNumbers, SlotWidth, Limits
<1>5. /\ a.got \in Nat /\ p.firstDynamic <= a.got /\ a.got + NumSlots(t) <= MaxSlots /\ a.code = p.code
      /\ a.got < a.maxStackSlots
  BY <1>4, <1>n DEF Allocated
<1>6. /\ a.firstDynamic = p.firstDynamic /\ a.stack = p.stack /\ a.reg = p.reg /\ a.maxConst = p.maxConst
      /\ a.err = p.err /\ Frame(p, a)
  BY <1>4 DEF SameOperands, Frame
<1>7. Sound(q, bs, B, T, {}) /\ Pushed(a, q, a.got, t)
  BY <1>3, <1>4, <1>5, <1>6, PushSlotSound
<1>8. ~IsRegister(a.got)
  BY <1>5, <1>n, Limits
<1>9. Grown(p, q, a.got, t)
  <2>1. Frame(a, q) /\ q.maxConst = a.maxConst /\ q.err = a.err /\ q.code = a.code /\ q.reg = a.reg
        /\ q.stack = Append(a.stack, [slot |-> a.got, type |-> t])
    BY <1>7, <1>8 DEF Pushed
  <2>. QED BY <1>n, <1>5, <1>6, <2>1, FrameTransitive DEF Grown
<1>. QED BY <1>7, <1>9

\* A register that is free takes the result.
LEMMA PushRegisterSound ==
  ASSUME NEW p, NEW bs, NEW B, NEW T, Sound(p, bs, B, T, {}), NEW t \in EntryTypes,
         t = "none" => \E d \in 1..Len(bs) : Len(p.stack) = bs[d].base,
         p.reg[RegisterOf(t)] = 0, NEW q, q = PushRegister(p, t), Ok(q)
  PROVE  Sound(q, bs, B, T, {}) /\ Pushed(p, q, RegisterOf(t), t)
<1>n. /\ p.firstConst \in Nat /\ p.firstDynamic \in Nat /\ p.firstConst <= p.firstDynamic /\ MaxSlots \in Nat
      /\ Len(p.stack) \in Nat /\ p.numLocals \in Nat /\ p.numLocals <= Len(p.stack) /\ p.firstDynamic < MaxSlots
  <2>1. /\ p.firstConst \in Nat /\ p.firstDynamic \in Nat /\ p.firstConst <= p.maxConst /\ p.maxConst <= p.firstDynamic
        /\ p.maxConst \in Nat /\ Len(p.stack) \in Nat /\ p.numLocals \in Nat /\ p.firstDynamic < MaxSlots
    BY SoundNumbers
  <2>2. p.numLocals <= Base(bs) /\ Base(bs) <= Len(p.stack) /\ Base(bs) \in Nat
    BY SoundNumbers
  <2>3. p.numLocals <= Len(p.stack)
    BY <2>1, <2>2
  <2>. QED BY <2>1, <2>3, Limits
<1>. DEFINE s == RegisterOf(t)
<1>1. s \in Registers /\ s \in Nat /\ s >= MaxSlots /\ s \in Locations /\ IsRegister(s)
  BY <1>n, Limits
<1>2. q = Push(p, t, s)
  BY DEF PushRegister
<1>3. \A x \in Dynamic(p) : x \in {} <=> x \in Slots(s, t)
  <2>1. NumSlots(t) \in {1, 2}
    BY SlotWidth
  <2>. QED BY <1>n, <1>1, <2>1 DEF Dynamic, Slots
<1>. HIDE DEF s
<1>4. EntryFits(p, bs, Len(p.stack) + 1, [slot |-> s, type |-> t])
  <2>1. t = "none" => \E d \in 1..Len(bs) : Len(p.stack) + 1 = bs[d].base + 1
    OBVIOUS
  <2>. QED BY <1>n, <1>1, <2>1 DEF EntryFits, s
<1>5. p.reg[s] = 0
  BY DEF s
<1>6. Sound(q, bs, B, T, {}) /\ Pushed(p, q, s, t)
  BY <1>1, <1>2, <1>3, <1>4, <1>5, PushSound
<1>. QED BY <1>6 DEF s

\* A constant, or a local: what is below the slots of operands is not counted.
LEMMA PushBelowSound ==
  ASSUME NEW p, NEW bs, NEW B, NEW T, NEW s \in Nat, NEW t \in Types, Sound(p, bs, B, T, {}),
         s + NumSlots(t) <= p.firstDynamic, NEW q, q = Push(p, t, s), Ok(q)
  PROVE  Sound(q, bs, B, T, {}) /\ Frame(p, q)
<1>n. /\ p.firstConst \in Nat /\ p.firstDynamic \in Nat /\ p.firstConst <= p.firstDynamic /\ MaxSlots \in Nat
      /\ Len(p.stack) \in Nat /\ p.numLocals \in Nat /\ p.numLocals <= Len(p.stack) /\ p.maxConst \in Nat
      /\ p.firstDynamic < MaxSlots /\ p.maxStackSlots \in Nat /\ p.firstDynamic <= p.maxStackSlots
  <2>1. /\ p.firstConst \in Nat /\ p.firstDynamic \in Nat /\ p.firstConst <= p.maxConst /\ p.maxConst <= p.firstDynamic
        /\ p.maxConst \in Nat /\ Len(p.stack) \in Nat /\ p.numLocals \in Nat
        /\ p.firstDynamic < MaxSlots /\ p.maxStackSlots \in Nat /\ p.firstDynamic <= p.maxStackSlots
    BY SoundNumbers
  <2>2. p.numLocals <= Base(bs) /\ Base(bs) <= Len(p.stack) /\ Base(bs) \in Nat
    BY SoundNumbers
  <2>3. p.numLocals <= Len(p.stack)
    BY <2>1, <2>2
  <2>. QED BY <2>1, <2>3, Limits
<1>w. NumSlots(t) \in {1, 2} /\ t \in EntryTypes /\ t # "none"
  BY SlotWidth, TypesAre
<1>1. s < MaxSlots /\ s \in Locations /\ s \notin Registers /\ ~IsRegister(s) /\ s < p.maxStackSlots
  BY <1>n, <1>w, Limits
<1>2. EntryFits(p, bs, Len(p.stack) + 1, [slot |-> s, type |-> t])
  BY <1>n, <1>w, <1>1 DEF EntryFits
<1>3. \A x \in Dynamic(p) : x \in {} <=> x \in Slots(s, t)
  BY <1>n, <1>w DEF Dynamic, Slots
<1>4. Sound(q, bs, B, T, {}) /\ Pushed(p, q, s, t)
  BY <1>w, <1>1, <1>2, <1>3, PushSound
<1>. QED BY <1>4 DEF Pushed

\* The constants have become more.
LEMMA ConstantsSound ==
  ASSUME NEW p, NEW bs, NEW B, NEW T, Sound(p, bs, B, T, {}), NEW q, Frame(p, q),
         q.stack = p.stack, q.reg = p.reg, q.err = p.err, q.code = p.code, q.use \in [0..(MaxSlots - 1) -> 0..MaxUse],
         \A x \in Dynamic(p) : q.use[x] = p.use[x],
         q.maxConst \in Nat, p.maxConst <= q.maxConst, q.maxConst <= p.firstDynamic
  PROVE  Sound(q, bs, B, T, {})
<1>0. /\ Shape(p) /\ Framed(p, bs) /\ Placed(p, bs) /\ B \subseteq 1..Base(bs)
      /\ Counts(p, Live(p, bs, B), {}) /\ Owners(p, Live(p, bs, B)) /\ InBlock(p, bs)
      /\ Records(p, Live(p, bs, B)) /\ Codes(p, T)
  BY SoundParts
<1>s. /\ q.numLocals = p.numLocals /\ q.firstConst = p.firstConst
      /\ q.firstDynamic = p.firstDynamic /\ q.over = p.over /\ q.ways = p.ways
      /\ q.maxStackSlots \in Nat /\ q.maxStackSlots >= p.maxStackSlots /\ DOMAIN q = DOMAIN p
  BY DEF Frame
<1>n. /\ p.maxStackSlots \in Nat /\ p.firstDynamic \in Nat /\ p.firstDynamic <= p.maxStackSlots
      /\ p.maxConst \in Nat /\ p.firstConst \in Nat /\ p.firstConst <= p.maxConst
  BY <1>0 DEF Shape
<1>1. Shape(q)
  <2>1. q.firstDynamic <= q.maxStackSlots /\ p.firstConst <= q.maxConst
    BY <1>s, <1>n
  <2>. QED BY <1>0, <1>s, <2>1 DEF Shape
<1>2. Framed(q, bs) /\ Live(q, bs, B) = Live(p, bs, B)
  BY <1>0, <1>s DEF Framed, Live
<1>3. Placed(q, bs)
  <2>1. ASSUME NEW i \in 1..Len(q.stack)  PROVE EntryFits(q, bs, i, q.stack[i])
    <3>1. EntryFits(p, bs, i, p.stack[i])
      BY <1>0, <1>s DEF Placed
    <3>2. p.stack[i].slot \in Nat
      <4>1. p.stack \in Seq(Entries) /\ i \in 1..Len(p.stack)
        BY <1>0, <1>s DEF Shape
      <4>. QED BY <4>1, EntryIs
    <3>3. p.stack[i].slot < MaxSlots => p.stack[i].slot < q.maxStackSlots
      BY <1>s, <1>n, <3>1, <3>2 DEF EntryFits
    <3>. QED BY <1>s, <3>1, <3>3 DEF EntryFits
  <2>. QED BY <2>1 DEF Placed
<1>4. Counts(q, Live(q, bs, B), {})
  <2>1. ASSUME NEW x \in Dynamic(q)
        PROVE  q.use[x] = Cardinality(RefsTo(q, Live(q, bs, B), x)) + (IF x \in {} THEN 1 ELSE 0)
    <3>1. x \in Dynamic(p)
      BY <1>s DEF Dynamic
    <3>2. RefsTo(q, Live(q, bs, B), x) = RefsTo(p, Live(p, bs, B), x)
      BY <1>2 DEF RefsTo
    <3>. QED BY <1>0, <3>1, <3>2 DEF Counts
  <2>. QED BY <2>1 DEF Counts
<1>5. Owners(q, Live(q, bs, B)) /\ InBlock(q, bs) /\ Records(q, Live(q, bs, B))
  BY <1>0, <1>s, <1>2 DEF Owners, InBlock, Records
<1>6. Codes(q, T)
  <2>1. CodeFits(q.code, q.maxStackSlots, T)
    BY <1>s, <1>n, SoundCode, CodeFitsMore
  <2>. QED BY <1>0, <1>n, <2>1, CodesMore
<1>. QED BY <1>0, <1>1, <1>2, <1>3, <1>4, <1>5, <1>6 DEF Sound

LEMMA PushConstSound ==
  ASSUME NEW p, NEW bs, NEW B, Sound(p, bs, B, {}, {}), NEW c, NEW t \in Types, NEW q, q = PushConst(p, c, t), Ok(q)
  PROVE  Sound(q, bs, B, {}, {}) /\ Frame(p, q)
<1>n. /\ p.firstConst \in Nat /\ p.firstDynamic \in Nat /\ p.maxConst \in Nat /\ MaxSlots \in Nat /\ DOMAIN p = Fields
      /\ p.firstConst <= p.maxConst /\ p.maxConst <= p.firstDynamic /\ p.firstDynamic < MaxSlots /\ Ok(p)
      /\ p.maxStackSlots \in Nat /\ p.firstDynamic <= p.maxStackSlots /\ p.stack \in Seq(Entries)
      /\ p.use \in [0..(MaxSlots - 1) -> 0..MaxUse] /\ DOMAIN p.use = 0..(MaxSlots - 1) /\ MaxUse \in Nat /\ MaxUse > 0
  BY SoundNumbers, Limits
<1>w. NumSlots(t) \in {1, 2}
  BY SlotWidth
<1>. DEFINE n == NumSlots(t)
            first == AlignSlotToType(p.firstConst, t)
            same == {s \in first..(p.maxConst - n) : /\ (s - first) % n = 0
                                                     /\ \A x \in Slots(s, t) : p.use[x] > 0 /\ p.const[x] = c}
            free == FreeSlots(p, t, p.firstConst, p.firstDynamic)
            InTable(a) == Push([a EXCEPT !.const = [x \in DOMAIN @ |-> IF x \in Slots(a.got, t) THEN c ELSE @[x]],
                                         !.maxConst = Max({@, a.got + n})], t, a.got)
            Inline(a) == Push(Emit(a, [op |-> "const", dst |-> a.got, val |-> c, type |-> t]), t, a.got)
<1>0. q = IF same # {} THEN Push(p, t, Min(same))
          ELSE IF free # {} THEN InTable(AllocateWithin(p, t, p.firstConst, p.firstDynamic))
          ELSE IF Ok(AllocateSlots(p, t)) THEN Inline(AllocateSlots(p, t)) ELSE AllocateSlots(p, t)
  BY DEF PushConst, Then
<1>f. first \in Nat /\ first >= p.firstConst
  <2>1. p.firstConst % NumSlots(t) \in Nat
    BY <1>n, <1>w
  <2>. QED BY <1>n, <1>w, <2>1 DEF AlignSlotToType
<1>1. CASE same # {}
  <2>1. same \subseteq Nat /\ \A s \in same : s >= p.firstConst /\ s + n <= p.firstDynamic
    <3>1. ASSUME NEW s \in same  PROVE s \in Nat /\ s >= p.firstConst /\ s + n <= p.firstDynamic
      <4>1. s \in first..(p.maxConst - n)
        OBVIOUS
      <4>. HIDE DEF same, first
      <4>. QED BY <1>n, <1>w, <1>f, <4>1, SMTT(30)
    <3>. HIDE DEF same
    <3>. QED BY <3>1
  <2>. HIDE DEF same
  <2>2. Min(same) \in same
    BY <1>1, <2>1, MinOf
  <2>3. q = Push(p, t, Min(same))
    BY <1>0, <1>1
  <2>4. Min(same) \in Nat /\ ~(Min(same) < p.firstConst) /\ Min(same) + NumSlots(t) <= p.firstDynamic
    <3>1. PICK s \in same : s = Min(same)
      BY <2>2
    <3>2. s \in Nat /\ s >= p.firstConst /\ s + n <= p.firstDynamic
      BY <2>1
    <3>. QED BY <1>n, <3>1, <3>2
  <2>. QED BY <2>3, <2>4, PushBelowSound
<1>2. CASE same = {} /\ free # {}
  <2>. HIDE DEF same, free
  <2>1. PICK a : a = AllocateWithin(p, t, p.firstConst, p.firstDynamic)
    OBVIOUS
  <2>. DEFINE v == [a EXCEPT !.const = [x \in DOMAIN @ |-> IF x \in Slots(a.got, t) THEN c ELSE @[x]],
                             !.maxConst = Max({@, a.got + n})]
  <2>2. q = Push(v, t, a.got)
    BY <1>0, <1>2, <2>1
  <2>3. v.err = a.err
    OBVIOUS
  <2>4. Ok(a)
    <3>1. CASE ~Ok(a)
      <4>1. ~Ok(v)
        BY <2>3, <3>1 DEF Ok
      <4>. HIDE DEF v
      <4>. QED BY <2>2, <4>1, ErrorsStay
    <3>. QED BY <3>1
  <2>5. Allocated(p, t, p.firstConst, p.firstDynamic, a)
    BY <1>n, <2>1, <2>4, AllocateFacts
  <2>6. /\ a.got \in Nat /\ p.firstConst <= a.got /\ a.got + n <= p.firstDynamic
        /\ a.use = [x \in DOMAIN p.use |-> IF x \in Slots(a.got, t) THEN 1 ELSE p.use[x]]
        /\ a.code = p.code /\ SameOperands(p, a)
    BY <2>5 DEF Allocated
  <2>7. /\ a.stack = p.stack /\ a.reg = p.reg /\ a.err = p.err /\ Frame(p, a) /\ DOMAIN a = Fields
        /\ a.maxConst = p.maxConst /\ a.firstDynamic = p.firstDynamic /\ a.maxStackSlots \in Nat
    BY <1>n, <2>6 DEF SameOperands, Frame
  <2>8. /\ v.stack = p.stack /\ v.reg = p.reg /\ v.use = a.use /\ v.code = p.code /\ Frame(a, v)
        /\ v.maxConst = Max({p.maxConst, a.got + n}) /\ v.firstDynamic = p.firstDynamic
    BY <2>6, <2>7 DEF Frame, Fields
  <2>. HIDE DEF v
  <2>9. v.maxConst \in Nat /\ p.maxConst <= v.maxConst /\ v.maxConst <= p.firstDynamic
    <3>1. PICK k \in Nat : k = a.got + n
      BY <1>w, <2>6
    <3>2. Max({p.maxConst, k}) \in {p.maxConst, k} /\ Max({p.maxConst, k}) >= p.maxConst
      BY <1>n, MaxOfTwo
    <3>. QED BY <1>n, <2>6, <2>8, <3>1, <3>2
  <2>10. /\ v.use \in [0..(MaxSlots - 1) -> 0..MaxUse]
         /\ \A x \in Dynamic(p) : v.use[x] = p.use[x]
    <3>1. v.use = [x \in 0..(MaxSlots - 1) |-> IF x \in Slots(a.got, t) THEN 1 ELSE p.use[x]]
      BY <1>n, <2>6, <2>8
    <3>2. 1 \in 0..MaxUse /\ \A x \in 0..(MaxSlots - 1) : p.use[x] \in 0..MaxUse
      BY <1>n
    <3>3. \A x \in Dynamic(p) : x \in 0..(MaxSlots - 1) /\ x \notin Slots(a.got, t)
      BY <1>n, <1>w, <2>6 DEF Dynamic, Slots
    <3>. QED BY <3>1, <3>2, <3>3
  <2>11. Frame(p, v)
    BY <1>n, <2>7, <2>8, FrameTransitive
  <2>12. Sound(v, bs, B, {}, {})
    BY <2>3, <2>7, <2>8, <2>9, <2>10, <2>11, ConstantsSound
  <2>13. v.firstConst = p.firstConst
    BY <2>11 DEF Frame
  <2>14. ~(a.got < v.firstConst) /\ a.got + NumSlots(t) <= v.firstDynamic
    BY <1>n, <2>6, <2>8, <2>13
  <2>15. Sound(q, bs, B, {}, {}) /\ Frame(v, q)
    <3>1. PICK s \in Nat : s = a.got
      BY <2>6
    <3>2. s + NumSlots(t) <= v.firstDynamic /\ q = Push(v, t, s)
      BY <2>2, <2>14, <3>1
    <3>. QED BY <2>12, <3>2, PushBelowSound
  <2>. QED BY <1>n, <2>11, <2>15, FrameTransitive
<1>3. CASE same = {} /\ free = {}
  <2>. HIDE DEF same, free
  <2>1. PICK a : a = AllocateSlots(p, t)
    OBVIOUS
  <2>2. Ok(a) /\ q = Push(Emit(a, [op |-> "const", dst |-> a.got, val |-> c, type |-> t]), t, a.got)
    BY <1>0, <1>3, <2>1
  <2>3. Sound(a, bs, B, {}, Slots(a.got, t)) /\ Allocated(p, t, p.firstDynamic, MaxSlots, a) /\ SameOperands(p, a)
    BY <2>1, <2>2, AllocateSlotsSound
  <2>4. a.got \in Nat /\ p.firstDynamic <= a.got /\ a.got + n <= MaxSlots /\ a.got < a.maxStackSlots
    BY <1>w, <2>3 DEF Allocated
  <2>. DEFINE e == [op |-> "const", dst |-> a.got, val |-> c, type |-> t]
  <2>5. Fits(e, a.maxStackSlots, {})
    <3>1. PlacesOf(e) = {a.got}
      BY DEF PlacesOf
    <3>2. a.maxStackSlots \in Nat /\ a.got \in 0..(a.maxStackSlots - 1)
      BY <2>3, <2>4 DEF Allocated
    <3>. QED BY <3>1, <3>2 DEF Fits
  <2>. HIDE DEF e
  <2>6. PICK v : v = Emit(a, e)
    OBVIOUS
  <2>7. Sound(v, bs, B, {}, Slots(a.got, t)) /\ Adds(a, v) /\ v.maxStackSlots = a.maxStackSlots
    BY <2>3, <2>5, <2>6, EmitSound
  <2>8. v.firstDynamic = p.firstDynamic
    BY <2>3, <2>7 DEF Adds, SameOperands, Frame
  <2>9. q = Push(v, t, a.got)
    BY <2>2, <2>6 DEF e
  <2>10. Sound(q, bs, B, {}, {}) /\ Frame(v, q)
    <3>1. Sound(q, bs, B, {}, {}) /\ Pushed(v, q, a.got, t)
      BY <2>4, <2>7, <2>8, <2>9, PushSlotSound
    <3>. QED BY <3>1 DEF Pushed
  <2>11. Frame(p, a) /\ Frame(a, v)
    BY <2>3, <2>7 DEF Adds, SameOperands
  <2>12. Frame(p, v)
    BY <1>n, <2>11, FrameTransitive
  <2>. QED BY <1>n, <2>10, <2>12, FrameTransitive
<1>. QED BY <1>1, <1>2, <1>3

-----------------------------------------------------------------------------
(* Who owns the registers.                                                 *)

LEMMA OwnerOfRegister ==
  ASSUME NEW p, NEW bs, NEW B, NEW T, NEW E, Sound(p, bs, B, T, E), NEW r \in Registers, p.reg[r] # 0
  PROVE  /\ p.reg[r] \in 1..Len(p.stack) /\ p.reg[r] > Base(bs) /\ p.stack[p.reg[r]].slot = r
         /\ r = RegisterOf(p.stack[p.reg[r]].type)
<1>1. p.reg[r] \in Live(p, bs, B) /\ p.stack[p.reg[r]].slot = r
  BY SoundParts DEF Owners
<1>2. p.reg[r] \in 1..Len(p.stack)
  BY <1>1, RefsFinite
<1>3. p.reg[r] > Base(bs)
  BY SoundParts DEF InBlock
<1>4. EntryFits(p, bs, p.reg[r], p.stack[p.reg[r]])
  BY <1>2, SoundParts DEF Placed
<1>. QED BY <1>1, <1>2, <1>3, <1>4, Limits DEF EntryFits

LEMMA RegistersAtBase ==
  ASSUME NEW p, NEW bs, NEW B, NEW T, NEW E, Sound(p, bs, B, T, E), Len(p.stack) = Base(bs)
  PROVE  \A r \in Registers : p.reg[r] = 0
<1>1. ASSUME NEW r \in Registers, p.reg[r] # 0  PROVE FALSE
  <2>1. p.reg[r] \in 1..Len(p.stack) /\ p.reg[r] > Base(bs) /\ Base(bs) \in Nat
    BY <1>1, OwnerOfRegister, SoundNumbers
  <2>. QED BY <2>1
<1>. QED BY <1>1

\* The i-th operand of the innermost block.
LEMMA OperandIs ==
  ASSUME NEW p, NEW bs, NEW B, NEW T, NEW E, Sound(p, bs, B, T, E), NEW i \in Nat, i < Len(p.stack) - Base(bs)
  PROVE  /\ FromTop(p, i) = p.stack[Len(p.stack) - i] /\ Len(p.stack) - i \in 1..Len(p.stack)
         /\ TypeFromTop(p, i) = FromTop(p, i).type
         /\ FromTop(p, i).type \in EntryTypes
         /\ FromTop(p, i).type = "none" => Len(p.stack) - i = Base(bs) + 1
         /\ TopInRegister(p, i) => /\ FromTop(p, i).slot = RegisterOf(FromTop(p, i).type)
                                   /\ p.reg[FromTop(p, i).slot] = Len(p.stack) - i
<1>n. /\ Len(p.stack) \in Nat /\ Base(bs) \in Nat /\ Base(bs) <= Len(p.stack) /\ p.stack \in Seq(Entries)
      /\ p.numLocals \in Nat /\ p.numLocals <= Base(bs)
  BY SoundNumbers
<1>1. PICK j \in Nat : j = Len(p.stack) - i
  BY <1>n
<1>2. j \in 1..Len(p.stack) /\ j > Base(bs) /\ i < Len(p.stack) /\ j > p.numLocals
  BY <1>n, <1>1
<1>3. FromTop(p, i) = p.stack[j] /\ TypeFromTop(p, i) = p.stack[j].type
  BY <1>1, <1>2 DEF FromTop, TypeFromTop
<1>4. p.stack[j].type \in EntryTypes
  BY <1>n, <1>2, EntryIs
<1>5. EntryFits(p, bs, j, p.stack[j])
  BY <1>2, SoundParts DEF Placed
<1>6. p.stack[j].type = "none" => j = Base(bs) + 1
  <2>1. ASSUME NEW d \in 1..Len(bs), j = bs[d].base + 1  PROVE j = Base(bs) + 1
    <3>1. bs[d].base <= Base(bs)
      BY SoundParts DEF Framed
    <3>2. bs[d] \in Scopes
      BY SoundParts DEF Framed
    <3>3. bs[d].base \in Nat
      BY <3>2 DEF Scopes
    <3>. QED BY <1>n, <1>2, <2>1, <3>1, <3>3
  <2>. QED BY <1>5, <2>1 DEF EntryFits
<1>7. j \in Live(p, bs, B)
  BY <1>n, <1>2 DEF Live
<1>8. ASSUME IsRegister(p.stack[j].slot)
      PROVE  p.stack[j].slot = RegisterOf(p.stack[j].type) /\ p.reg[p.stack[j].slot] = j
  <2>1. p.stack[j].slot \in Registers
    BY <1>8 DEF IsRegister
  <2>. QED BY <1>5, <1>7, <1>8, <2>1, SoundParts DEF Owners, EntryFits
<1>. QED BY <1>1, <1>2, <1>3, <1>4, <1>6, <1>8 DEF TopInRegister

\* The operands that are there have the types the instruction asks for.
Typed(p, bs, types) ==
  \A k \in 1..Len(types) :
     Len(types) - k < Len(p.stack) - Base(bs) => FromTop(p, Len(types) - k).type \in {types[k], "none"}

LEMMA KeepsTyped ==
  ASSUME NEW p, NEW bs, NEW B, NEW T, NEW E, Sound(p, bs, B, T, E), NEW q, Keeps(p, q), NEW types, Len(types) \in Nat,
         Typed(p, bs, types), NEW U, NEW G, Sound(q, bs, B, U, G)
  PROVE  Typed(q, bs, types)
<1>1. ASSUME NEW k \in 1..Len(types), Len(types) - k < Len(q.stack) - Base(bs)
      PROVE  FromTop(q, Len(types) - k).type \in {types[k], "none"}
  <2>0. PICK i \in Nat : i = Len(types) - k
    OBVIOUS
  <2>1. Len(q.stack) = Len(p.stack)
    BY DEF Keeps
  <2>2. i < Len(p.stack) - Base(bs) /\ i < Len(q.stack) - Base(bs)
    BY <1>1, <2>0, <2>1
  <2>3. FromTop(p, i) = p.stack[Len(p.stack) - i] /\ FromTop(q, i) = q.stack[Len(q.stack) - i]
        /\ Len(p.stack) - i \in 1..Len(p.stack)
    BY <2>2, OperandIs
  <2>4. FromTop(q, i).type = FromTop(p, i).type
    BY <2>1, <2>3 DEF Keeps
  <2>. QED BY <2>0, <2>2, <2>4 DEF Typed
<1>. QED BY <1>1 DEF Typed

LEMMA KeepsIsFrame ==
  ASSUME NEW p, NEW q, Keeps(p, q)
  PROVE  Frame(p, q) /\ Len(q.stack) = Len(p.stack) /\ \A r \in Registers : p.reg[r] = 0 => q.reg[r] = 0
BY DEF Keeps

LEMMA PopTypeSound ==
  ASSUME NEW p, NEW bs, NEW B, NEW T, Sound(p, bs, B, T, {}), Block(p).base = Base(bs), NEW t,
         NEW q, q = PopType(p, t), Ok(q)
  PROVE  Sound(q, bs, B, T, {}) /\ Dropped(p, bs, 1, q)
<1>1. DOMAIN p = Fields
  BY SoundNumbers
<1>2. ~Ok(Throw(p, "type mismatch"))
  BY <1>1, ThrowErrs
<1>3. q = Pop(p)
  BY <1>2 DEF PopType
<1>. QED BY <1>3, PopSound

LEMMA PopTypeErrs ==
  ASSUME NEW p, ~Ok(p), NEW t
  PROVE  ~Ok(PopType(p, t))
BY ErrorsStay DEF PopType

LEMMA RegisterFits ==
  ASSUME NEW e, PlacesOf(e) \subseteq Registers, NEW top, NEW T
  PROVE  Fits(e, top, T)
BY DEF Fits

LEMMA CopyTopSound ==
  ASSUME NEW p, NEW bs, NEW B, NEW T, Sound(p, bs, B, T, {}), NEW q, q = CopyStackTopToRegister(p), Ok(q)
  PROVE  /\ Sound(q, bs, B, T, {}) /\ Keeps(p, q)
         /\ TopInRegister(p, 0) \/ q.reg[RegisterOf(TypeFromTop(p, 0))] = 0
<1>n. p.maxStackSlots \in Nat
  BY SoundNumbers
<1>1. CASE TopInRegister(p, 0)
  <2>1. q = p
    BY <1>1 DEF CopyStackTopToRegister
  <2>. QED BY <1>n, <1>1, <2>1, KeepsReflexive
<1>2. CASE ~TopInRegister(p, 0)
  <2>. DEFINE t == TypeFromTop(p, 0)
  <2>. DEFINE r == RegisterOf(t)
  <2>1. PICK v : v = PreserveRegister(p, r)
    OBVIOUS
  <2>. DEFINE e == Move(r, FromTop(v, 0).slot, t)
  <2>2. q = IF Ok(v) THEN Emit(v, e) ELSE v
    BY <1>2, <2>1 DEF CopyStackTopToRegister, PreserveRegisterOfType, Then
  <2>3. Ok(v) /\ q = Emit(v, e)
    BY <2>2
  <2>4. r \in Registers
    BY Limits
  <2>5. Sound(v, bs, B, T, {}) /\ Keeps(p, v) /\ v.reg[r] = 0
    BY <2>1, <2>3, <2>4, PreserveSound
  <2>6. PlacesOf(e) \subseteq Registers
    <3>1. PlacesOf(e) = {r}
      BY DEF PlacesOf, Move
    <3>. QED BY <2>4, <3>1
  <2>. HIDE DEF e
  <2>7. Sound(q, bs, B, T, {}) /\ Adds(v, q)
    BY <2>3, <2>5, <2>6, EmitSound, RegisterFits
  <2>8. Keeps(v, q) /\ q.reg = v.reg
    BY <2>7, AddsKeeps DEF Adds, SameOperands
  <2>. QED BY <1>n, <2>5, <2>7, <2>8, KeepsTransitive
<1>. QED BY <1>1, <1>2

LEMMA CopyTopErrs ==
  ASSUME NEW p, ~Ok(p)
  PROVE  ~Ok(CopyStackTopToRegister(p))
<1>1. ~Ok(PreserveRegisterOfType(p, TypeFromTop(p, 0)))
  BY ErrorsStay DEF PreserveRegisterOfType
<1>. QED BY <1>1 DEF CopyStackTopToRegister, Then

\* Enough operands: those on top all have the types the instruction asks for.
There(p, types, k) ==
  /\ FromTop(p, Len(types) - k).type = types[k] /\ TypeFromTop(p, Len(types) - k) = types[k]
  /\ TopInRegister(p, Len(types) - k) => p.reg[RegisterOf(types[k])] > Len(p.stack) - Len(types)

LEMMA AllThere ==
  ASSUME NEW p, NEW bs, NEW B, NEW T, NEW E, Sound(p, bs, B, T, E), NEW types, Len(types) \in Nat,
         Typed(p, bs, types), Len(p.stack) - Len(types) > Base(bs), NEW k \in 1..Len(types)
  PROVE  There(p, types, k)
<1>n. Len(p.stack) \in Nat /\ Base(bs) \in Nat
  BY SoundNumbers
<1>1. PICK i \in Nat : i = Len(types) - k
  OBVIOUS
<1>2. i < Len(p.stack) - Base(bs) /\ Len(p.stack) - i # Base(bs) + 1 /\ Len(p.stack) - i > Len(p.stack) - Len(types)
  BY <1>n, <1>1
<1>3. FromTop(p, i).type \in {types[k], "none"}
  BY <1>1, <1>2 DEF Typed
<1>4. /\ TypeFromTop(p, i) = FromTop(p, i).type /\ FromTop(p, i).type # "none"
      /\ TopInRegister(p, i) => /\ FromTop(p, i).slot = RegisterOf(FromTop(p, i).type)
                                /\ p.reg[FromTop(p, i).slot] = Len(p.stack) - i
  BY <1>2, OperandIs
<1>. QED BY <1>1, <1>2, <1>3, <1>4 DEF There

\* An operation writes to a register at most, and takes n operands.
Operated(p, bs, n, q) ==
  /\ Frame(p, q)
  /\ Len(q.stack) = IF Len(p.stack) - n >= Base(bs) THEN Len(p.stack) - n ELSE Base(bs)
  /\ \A r \in Registers : q.reg[r] = IF p.reg[r] > Len(q.stack) THEN 0 ELSE p.reg[r]

LEMMA OperatedSound ==
  ASSUME NEW p, NEW bs, NEW B, NEW T, Sound(p, bs, B, T, {}), Block(p).base = Base(bs), NEW n \in Nat,
         NEW e, PlacesOf(e) \subseteq Registers, NEW q, q = PopN(Emit(p, e), n), Ok(q)
  PROVE  Sound(q, bs, B, T, {}) /\ Operated(p, bs, n, q)
<1>1. PICK v : v = Emit(p, e)
  OBVIOUS
<1>2. Sound(v, bs, B, T, {}) /\ Adds(p, v)
  BY <1>1, EmitSound, RegisterFits
<1>3. v.stack = p.stack /\ v.reg = p.reg /\ v.blocks = p.blocks /\ Frame(p, v)
  BY <1>2 DEF Adds, SameOperands, Frame
<1>4. Block(v).base = Base(bs)
  BY <1>3 DEF Block
<1>5. Sound(q, bs, B, T, {}) /\ Dropped(v, bs, n, q)
  BY <1>1, <1>2, <1>4, PopNSound
<1>6. Frame(v, q) /\ p.maxStackSlots \in Nat
  BY <1>5, SoundNumbers DEF Dropped
<1>7. Frame(p, q)
  BY <1>3, <1>6, FrameTransitive
<1>. QED BY <1>3, <1>5, <1>7 DEF Dropped, Operated

LEMMA PopNStays ==
  ASSUME NEW p, ~Ok(p), NEW n \in Nat
  PROVE  ~Ok(PopN(p, n))
BY PopNErrs

LEMMA PreserveTypeSound ==
  ASSUME NEW p, NEW bs, NEW B, NEW T, Sound(p, bs, B, T, {}), NEW t, NEW q, q = PreserveRegisterOfType(p, t), Ok(q)
  PROVE  Sound(q, bs, B, T, {}) /\ Keeps(p, q) /\ q.reg[RegisterOf(t)] = 0
BY PreserveSound, Limits DEF PreserveRegisterOfType

OperatorShape(w) ==
  /\ w.args \in Seq(Types) /\ Len(w.args) \in {1, 2} /\ w.res \in Types \cup {"none"}
  /\ \/ w.res = "none"
     \/ IsFpType(w.res) /\ w.mem
     \/ \A k \in DOMAIN w.args : IsFpType(w.args[k]) = IsFpType(w.res)
     \/ ~IsFpType(w.res) /\ \A k \in DOMAIN w.args : IsFpType(w.args[k])

LEMMA OperatorSound ==
  ASSUME NEW p, NEW bs, NEW B, Sound(p, bs, B, {}, {}), Block(p).base = Base(bs), NEW w, OperatorShape(w),
         Typed(p, bs, w.args), w.mem /\ IsFpType(w.res) => p.reg[Fp0] = 0,
         NEW q, q = CompileOperator(p, w), Ok(q)
  PROVE  Sound(q, bs, B, {}, {}) /\ Frame(p, q)
<1>n. /\ DOMAIN p = Fields /\ p.maxStackSlots \in Nat /\ Len(p.stack) \in Nat /\ Base(bs) \in Nat
      /\ Base(bs) <= Len(p.stack)
  BY SoundNumbers
<1>w. Len(w.args) \in {1, 2} /\ Len(w.args) \in Nat /\ w.args \in Seq(Types) /\ DOMAIN w.args = 1..Len(w.args)
  BY DEF OperatorShape
<1>. DEFINE Early == IsFpType(TypeFromTop(p, 0)) /\ w.res \in {"i32", "i64"}
<1>1. PICK u : u = IF Early THEN PreserveRegisterOfType(p, w.res) ELSE p
  OBVIOUS
<1>. DEFINE unary == Len(w.args) = 1
            Top(x) == TopInRegister(x, 0)
            Second(x) == ~unary /\ TopInRegister(x, 1)
            Args(x) == IF unary THEN <<FromTop(x, 0)>>
                       ELSE IF w.comm /\ Second(x) THEN <<FromTop(x, 0), FromTop(x, 1)>>
                       ELSE <<FromTop(x, 1), FromTop(x, 0)>>
            Code(x) == Op(Args(x), IF w.res = "none" THEN <<>>
                                   ELSE <<[slot |-> RegisterOf(w.res), type |-> w.res]>>, Unused)
            Done(x) == PopN(Emit(x, Code(x)), Len(w.args))
            Result(x) == IF w.res = "none" THEN Done(x) ELSE PushRegister(Done(x), w.res)
<1>2. PICK v : v = IF Top(u) \/ Second(u) THEN u ELSE PreserveRegisterOfType(u, w.res)
  OBVIOUS
<1>3. q = IF Top(u) /\ Second(u) /\ ~w.rr THEN Throw(u, "no operation found for opcode") ELSE Result(v)
  BY <1>1, <1>2 DEF CompileOperator
<1>4. PICK x : x = Done(v)
  OBVIOUS
<1>5. Ok(x) => Ok(v)
  BY <1>4, <1>n, ErrorsStay, PopNStays
<1>6. Ok(v) => Ok(u)
  BY <1>2, ErrorsStay DEF PreserveRegisterOfType
<1>7. Ok(u)
  <2>1. Ok(Throw(u, "no operation found for opcode")) => Ok(u)
    BY ErrorsStay
  <2>2. Ok(Result(v)) => Ok(x)
    BY <1>4, ErrorsStay DEF PushRegister
  <2>. HIDE DEF Result, Top, Second
  <2>. QED BY <1>3, <1>5, <1>6, <2>1, <2>2
<1>8. Sound(u, bs, B, {}, {}) /\ Keeps(p, u) /\ (Early => u.reg[RegisterOf(w.res)] = 0)
  <2>1. CASE Early
    <3>1. u = PreserveRegisterOfType(p, w.res)
      BY <1>1, <2>1
    <3>. QED BY <1>7, <3>1, PreserveTypeSound
  <2>2. CASE ~Early
    BY <1>1, <1>n, <2>2, KeepsReflexive
  <2>. QED BY <2>1, <2>2
<1>9. DOMAIN u = Fields /\ u.maxStackSlots \in Nat
  BY <1>8, SoundNumbers
<1>10. q = Result(v)
  <2>1. ~Ok(Throw(u, "no operation found for opcode"))
    BY <1>9, ThrowErrs
  <2>. HIDE DEF Result, Top, Second
  <2>. QED BY <1>3, <2>1
<1>11. Ok(x)
  BY <1>4, <1>10, ErrorsStay DEF PushRegister
<1>12. Sound(v, bs, B, {}, {}) /\ Keeps(u, v) /\ (Top(u) \/ Second(u) \/ v.reg[RegisterOf(w.res)] = 0)
  <2>1. CASE Top(u) \/ Second(u)
    <3>1. v = u
      BY <1>2, <2>1
    <3>. QED BY <1>8, <1>9, <2>1, <3>1, KeepsReflexive
  <2>2. CASE ~(Top(u) \/ Second(u))
    <3>1. v = PreserveRegisterOfType(u, w.res)
      BY <1>2, <2>2
    <3>2. Sound(v, bs, B, {}, {}) /\ Keeps(u, v) /\ v.reg[RegisterOf(w.res)] = 0
      BY <1>5, <1>8, <1>11, <3>1, PreserveTypeSound
    <3>. QED BY <3>2
  <2>. QED BY <2>1, <2>2
<1>13. Keeps(p, v)
  BY <1>n, <1>w, <1>8, <1>12, KeepsTransitive
<1>14. Block(v).base = Base(bs) /\ Frame(p, v)
  <2>1. Frame(p, v)
    BY <1>13 DEF Keeps
  <2>. QED BY <2>1 DEF Frame, Block
<1>15. PlacesOf(Code(v)) \subseteq Registers
  <2>1. RegisterOf(w.res) \in Registers
    BY Limits
  <2>2. PlacesOf(Code(v)) \subseteq {RegisterOf(w.res)}
    BY DEF PlacesOf, Op
  <2>. QED BY <2>1, <2>2
<1>16. /\ Sound(x, bs, B, {}, {}) /\ Frame(v, x)
       /\ Len(x.stack) \in Nat /\ Len(x.stack) = IF Len(v.stack) - Len(w.args) >= Base(bs) THEN Len(v.stack) - Len(w.args) ELSE Base(bs)
       /\ \A r \in Registers : x.reg[r] = IF v.reg[r] > Len(x.stack) THEN 0 ELSE v.reg[r]
  <2>1. PICK e : e = Code(v)
    OBVIOUS
  <2>2. x = PopN(Emit(v, e), Len(w.args)) /\ PlacesOf(e) \subseteq Registers
    BY <1>4, <1>15, <2>1
  <2>. HIDE DEF Code, Done
  <2>3. Sound(x, bs, B, {}, {}) /\ Operated(v, bs, Len(w.args), x)
    BY <1>w, <1>11, <1>12, <1>14, <2>2, OperatedSound
  <2>. QED BY <2>3, SoundNumbers DEF Operated
<1>17. Frame(p, x)
  BY <1>n, <1>w, <1>14, <1>16, FrameTransitive
<1>18. CASE w.res = "none"
  <2>1. q = x
    BY <1>4, <1>10, <1>18
  <2>. QED BY <1>16, <1>17, <2>1
<1>19. CASE w.res # "none"
  <2>1. q = PushRegister(x, w.res) /\ w.res \in Types
    BY <1>4, <1>10, <1>19 DEF OperatorShape
  <2>2. PICK r : r = RegisterOf(w.res)
    OBVIOUS
  <2>3. x.reg[r] = 0
    <3>0. r \in Registers
      BY <2>2, Limits
    <3>1. CASE Len(x.stack) = Base(bs)
      BY <1>16, <3>0, <3>1, RegistersAtBase
    <3>2. CASE Len(x.stack) # Base(bs)
      <4>0. Len(v.stack) = Len(p.stack) /\ Len(u.stack) = Len(p.stack)
        BY <1>8, <1>13 DEF Keeps
      <4>1. Len(p.stack) - Len(w.args) > Base(bs) /\ Len(x.stack) = Len(p.stack) - Len(w.args)
        <5>1. PICK a \in Nat, n \in Nat, d \in Nat, l \in Nat :
                 a = Len(p.stack) /\ n = Len(w.args) /\ d = Base(bs) /\ l = Len(x.stack)
          BY <1>n, <1>w, <1>16
        <5>2. l # d /\ l = IF a - n >= d THEN a - n ELSE d
          BY <1>16, <3>2, <4>0, <5>1
        <5>3. a - n > d /\ l = a - n
          BY <5>2
        <5>. QED BY <5>1, <5>3
      <4>2. Typed(u, bs, w.args) /\ Typed(v, bs, w.args)
        BY <1>n, <1>w, <1>8, <1>12, <1>13, KeepsTyped
      <4>3. x.reg[r] = (IF v.reg[r] > Len(x.stack) THEN 0 ELSE v.reg[r]) /\ v.reg[r] \in Nat
        BY <1>12, <1>16, <3>0, SoundNumbers
      <4>4. CASE v.reg[r] = 0
        BY <1>n, <1>w, <4>1, <4>3, <4>4
      <4>5. CASE v.reg[r] # 0
        <5>1. v = u /\ (Top(u) \/ Second(u))
          BY <1>2, <1>12, <2>2, <4>5
        <5>. HIDE DEF Early
        <5>2. PICK k \in 1..Len(w.args) : TopInRegister(u, Len(w.args) - k)
          <6>1. CASE Top(u)
            <7>1. PICK k \in 1..Len(w.args) : k = Len(w.args)
              BY <1>w
            <7>2. Len(w.args) - k = 0
              BY <1>w, <7>1
            <7>. QED BY <6>1, <7>2
          <6>2. CASE Second(u)
            <7>1. Len(w.args) = 2
              BY <1>w, <6>2
            <7>2. 1 \in 1..Len(w.args) /\ Len(w.args) - 1 = 1
              BY <7>1
            <7>. QED BY <6>2, <7>2
          <6>. QED BY <5>1, <6>1, <6>2
        <5>3. u.reg[RegisterOf(w.args[k])] > Len(u.stack) - Len(w.args)
          <6>1. Len(u.stack) - Len(w.args) > Base(bs)
            BY <4>0, <4>1
          <6>2. There(u, w.args, k)
            BY <1>w, <1>8, <4>2, <6>1, AllThere
          <6>. QED BY <5>2, <6>2 DEF There
        <5>4. ~(IsFpType(w.res) /\ w.mem)
          <6>1. CASE IsFpType(w.res) /\ w.mem
            <7>1. r = Fp0
              BY <2>2, <6>1 DEF RegisterOf
            <7>2. v.reg[r] = 0
              BY <1>13, <3>0, <6>1, <7>1 DEF Keeps
            <7>. QED BY <4>5, <7>2
          <6>. QED BY <6>1
        <5>5. IsFpType(w.args[k]) = IsFpType(w.res)
          <6>1. CASE ~IsFpType(w.res) /\ \A j \in DOMAIN w.args : IsFpType(w.args[j])
            <7>1. PICK j \in 1..Len(w.args) : j = Len(w.args)
              BY <1>w
            <7>0. Len(w.args) - j = 0
              BY <1>w, <7>1
            <7>2. TypeFromTop(p, 0) = w.args[j]
              <8>1. TypeFromTop(p, Len(w.args) - j) = w.args[j]
                <9>1. There(p, w.args, j)
                  BY <1>w, <4>1, AllThere
                <9>. QED BY <9>1 DEF There
              <8>. QED BY <7>0, <8>1
            <7>3. w.res \in {"i32", "i64"}
              BY <2>1, <6>1 DEF Types, IsFpType
            <7>4. IsFpType(TypeFromTop(p, 0))
              BY <1>w, <6>1, <7>1, <7>2
            <7>5. u.reg[r] = 0
              BY <1>8, <2>2, <7>3, <7>4 DEF Early
            <7>. QED BY <4>5, <5>1, <7>5
          <6>2. CASE \A j \in DOMAIN w.args : IsFpType(w.args[j]) = IsFpType(w.res)
            <7>1. DOMAIN w.args = 1..Len(w.args)
              BY <1>n, <1>w
            <7>. QED BY <6>2, <7>1
          <6>. QED BY <1>19, <5>4, <6>1, <6>2 DEF OperatorShape
        <5>6. RegisterOf(w.args[k]) = r
          BY <2>2, <5>5 DEF RegisterOf
        <5>7. v.reg[r] > Len(x.stack)
          BY <4>0, <4>1, <5>1, <5>3, <5>6
        <5>. QED BY <4>3, <5>7
      <4>. QED BY <4>4, <4>5
    <3>. QED BY <3>1, <3>2
  <2>4. Sound(q, bs, B, {}, {}) /\ Frame(x, q)
    <3>1. w.res \in EntryTypes /\ (w.res = "none" => \E d \in 1..Len(bs) : Len(x.stack) = bs[d].base)
      BY <1>19, <2>1, TypesAre
    <3>2. Sound(q, bs, B, {}, {}) /\ Pushed(x, q, RegisterOf(w.res), w.res)
      BY <1>16, <2>1, <2>2, <2>3, <3>1, PushRegisterSound
    <3>. QED BY <3>2 DEF Pushed
  <2>. QED BY <1>n, <1>w, <1>17, <2>4, FrameTransitive
<1>. QED BY <1>18, <1>19

Converted(p, arg, t) ==
  LET Into(a, dst) == Push(Emit(a, Op(<<arg>>, <<[slot |-> dst, type |-> t]>>, Unused)), t, dst)
  IN  IF p.reg[RegisterOf(t)] = 0 THEN Into(Pop(p), RegisterOf(t))
      ELSE Then(AllocateSlots(Pop(p), t), LAMBDA a : Into(a, a.got))

LEMMA OpPlaces ==
  ASSUME NEW args, NEW s, NEW t, NEW frame
  PROVE  PlacesOf(Op(args, <<[slot |-> s, type |-> t]>>, frame)) = {s}
BY DEF PlacesOf, Op

LEMMA ConvertSound ==
  ASSUME NEW p, NEW bs, NEW B, Sound(p, bs, B, {}, {}), Block(p).base = Base(bs), NEW t \in Types, NEW arg,
         NEW q, Ok(q), q = Converted(p, arg, t)
  PROVE  Sound(q, bs, B, {}, {}) /\ Frame(p, q)
<1>. DEFINE Code(dst) == Op(<<arg>>, <<[slot |-> dst, type |-> t]>>, Unused)
            Into(a, dst) == Push(Emit(a, Code(dst)), t, dst)
<1>0. q = IF p.reg[RegisterOf(t)] = 0 THEN Into(Pop(p), RegisterOf(t))
          ELSE IF Ok(AllocateSlots(Pop(p), t)) THEN Into(AllocateSlots(Pop(p), t), AllocateSlots(Pop(p), t).got)
               ELSE AllocateSlots(Pop(p), t)
  BY DEF Then, Converted
<1>1. PICK v : v = Pop(p)
  OBVIOUS
<1>2. PICK r : r = RegisterOf(t)
  OBVIOUS
<1>3. r \in Registers /\ t \in EntryTypes /\ t # "none"
  BY <1>2, Limits, TypesAre
<1>4. \A dst : PlacesOf(Code(dst)) = {dst}
  BY DEF PlacesOf, Op
<1>5. CASE p.reg[r] = 0
  <2>1. q = Into(v, r)
    BY <1>0, <1>1, <1>2, <1>5
  <2>2. Ok(v)
    BY <2>1, ErrorsStay
  <2>3. Sound(v, bs, B, {}, {}) /\ Dropped(p, bs, 1, v)
    BY <1>1, <2>2, PopSound
  <2>4. PICK e : e = Code(r)
    OBVIOUS
  <2>5. PlacesOf(e) \subseteq Registers
    BY <1>3, <1>4, <2>4
  <2>6. PICK x : x = Emit(v, e)
    OBVIOUS
  <2>. HIDE DEF Code
  <2>7. Sound(x, bs, B, {}, {}) /\ Adds(v, x)
    BY <2>3, <2>5, <2>6, EmitSound, RegisterFits
  <2>8. v.reg[r] = 0 /\ Frame(p, v)
    BY <1>3, <1>5, <2>3 DEF Dropped
  <2>9. x.reg[r] = 0 /\ Frame(v, x)
    BY <2>7, <2>8 DEF Adds, SameOperands
  <2>10. q = PushRegister(x, t)
    BY <1>2, <2>1, <2>4, <2>6 DEF PushRegister
  <2>11. Sound(q, bs, B, {}, {}) /\ Pushed(x, q, RegisterOf(t), t)
    BY <1>2, <1>3, <2>7, <2>9, <2>10, PushRegisterSound
  <2>12. Frame(x, q) /\ p.maxStackSlots \in Nat
    BY <2>11, SoundNumbers DEF Pushed
  <2>. QED BY <2>8, <2>9, <2>11, <2>12, FrameTransitive
<1>6. CASE p.reg[r] # 0
  <2>1. PICK a : a = AllocateSlots(v, t)
    OBVIOUS
  <2>2. Ok(a) /\ q = Into(a, a.got)
    BY <1>0, <1>1, <1>2, <1>6, <2>1
  <2>3. Ok(v)
    BY <2>1, <2>2, AllocateErrs DEF AllocateSlots
  <2>4. Sound(v, bs, B, {}, {}) /\ Dropped(p, bs, 1, v)
    BY <1>1, <2>3, PopSound
  <2>5. Sound(a, bs, B, {}, Slots(a.got, t)) /\ Allocated(v, t, v.firstDynamic, MaxSlots, a) /\ SameOperands(v, a)
    BY <2>1, <2>2, <2>4, AllocateSlotsSound
  <2>6. /\ a.got \in Nat /\ v.firstDynamic <= a.got /\ a.got + NumSlots(t) <= MaxSlots
        /\ a.maxStackSlots \in Nat /\ a.got + NumSlots(t) <= a.maxStackSlots
        /\ a.firstDynamic = v.firstDynamic /\ Frame(v, a)
    BY <2>5 DEF Allocated, SameOperands, Frame
  <2>7. PICK e : e = Code(a.got)
    OBVIOUS
  <2>8. a.got < a.maxStackSlots
    <3>1. NumSlots(t) \in {1, 2}
      BY SlotWidth
    <3>. QED BY <2>6, <3>1
  <2>9. Fits(e, a.maxStackSlots, {})
    <3>1. PlacesOf(e) = {a.got}
      BY <1>4, <2>7
    <3>2. a.got \in 0..(a.maxStackSlots - 1)
      BY <2>6, <2>8
    <3>. QED BY <3>1, <3>2 DEF Fits
  <2>10. PICK x : x = Emit(a, e)
    OBVIOUS
  <2>. HIDE DEF Code
  <2>11. Sound(x, bs, B, {}, Slots(a.got, t)) /\ Adds(a, x) /\ x.maxStackSlots = a.maxStackSlots
    BY <2>5, <2>9, <2>10, EmitSound
  <2>12. q = Push(x, t, a.got)
    BY <2>2, <2>7, <2>10
  <2>13. x.firstDynamic = a.firstDynamic /\ Frame(a, x)
    BY <2>11 DEF Adds, SameOperands, Frame
  <2>14. Sound(q, bs, B, {}, {}) /\ Pushed(x, q, a.got, t)
    BY <2>6, <2>8, <2>11, <2>12, <2>13, PushSlotSound
  <2>15. Frame(x, q) /\ p.maxStackSlots \in Nat /\ Frame(p, v)
    BY <2>4, <2>14, SoundNumbers DEF Pushed, Dropped
  <2>16. Frame(p, a)
    BY <2>6, <2>15, FrameTransitive
  <2>17. Frame(p, x)
    BY <2>13, <2>15, <2>16, FrameTransitive
  <2>. QED BY <2>14, <2>15, <2>17, FrameTransitive
<1>. QED BY <1>5, <1>6

LEMMA SelectSound ==
  ASSUME NEW p, NEW bs, NEW B, Sound(p, bs, B, {}, {}), Block(p).base = Base(bs), NEW t \in Types,
         Typed(p, bs, <<t, t, "i32">>), NEW q, Ok(q), q = Selects(p)
  PROVE  Sound(q, bs, B, {}, {}) /\ Frame(p, q)
<1>n. /\ DOMAIN p = Fields /\ p.maxStackSlots \in Nat /\ Len(p.stack) \in Nat /\ Base(bs) \in Nat
      /\ Base(bs) <= Len(p.stack) /\ p.numLocals \in Nat /\ p.numLocals <= Base(bs)
  BY SoundNumbers
<1>. DEFINE type == TypeFromTop(p, 1)
            busy == TopInRegister(p, 1) \/ TopInRegister(p, 2) \/ (~IsFpType(type) /\ TopInRegister(p, 0))
            Code(x) == Op(<<FromTop(x, 2), FromTop(x, 1), FromTop(x, 0)>>,
                           <<[slot |-> RegisterOf(type), type |-> type]>>, Unused)
            kept == IF busy \/ type = "none" THEN p ELSE PreserveRegisterOfType(p, type)
<1>1. PICK v : v = kept
  OBVIOUS
<1>2. PICK e : e = Code(v)
  OBVIOUS
<1>3. PICK x : x = PopN(Emit(v, e), 3)
  OBVIOUS
<1>4. PICK ty : ty = type
  OBVIOUS
<1>5. q = PushRegister(x, ty)
  <2>1. q = IF type = "none" /\ ~IsStackPolymorphic(p) THEN Throw(p, "function stack underrun") ELSE PushRegister(x, ty)
    BY <1>1, <1>2, <1>3, <1>4 DEF Selects
  <2>2. ~Ok(Throw(p, "function stack underrun"))
    BY <1>n, ThrowErrs
  <2>. QED BY <2>1, <2>2
<1>6. Ok(x)
  BY <1>5, ErrorsStay DEF PushRegister
<1>7. Ok(v)
  BY <1>3, <1>6, ErrorsStay, PopNStays
<1>8. Sound(v, bs, B, {}, {}) /\ Keeps(p, v) /\ ((busy /\ v = p) \/ ty = "none" \/ v.reg[RegisterOf(ty)] = 0)
  <2>1. CASE busy \/ type = "none"
    BY <1>1, <1>4, <1>n, <2>1, KeepsReflexive
  <2>2. CASE ~(busy \/ type = "none")
    <3>1. v = PreserveRegisterOfType(p, ty)
      BY <1>1, <1>4, <2>2
    <3>2. Sound(v, bs, B, {}, {}) /\ Keeps(p, v) /\ v.reg[RegisterOf(ty)] = 0
      BY <1>7, <3>1, PreserveTypeSound
    <3>. QED BY <3>2
  <2>. QED BY <2>1, <2>2
<1>9. Block(v).base = Base(bs) /\ Frame(p, v) /\ Len(v.stack) = Len(p.stack)
  <2>1. Frame(p, v) /\ Len(v.stack) = Len(p.stack)
    BY <1>8 DEF Keeps
  <2>. QED BY <2>1 DEF Frame, Block
<1>10. PlacesOf(e) \subseteq Registers
  <2>1. RegisterOf(type) \in Registers
    BY Limits
  <2>2. PlacesOf(e) = {RegisterOf(type)}
    BY <1>2, OpPlaces
  <2>. QED BY <2>1, <2>2
<1>11. Sound(x, bs, B, {}, {}) /\ Operated(v, bs, 3, x)
  <2>. HIDE DEF kept, Code
  <2>1. 3 \in Nat
    OBVIOUS
  <2>. QED BY <1>3, <1>6, <1>8, <1>9, <1>10, <2>1, OperatedSound
<1>12. /\ Frame(v, x)
       /\ Len(x.stack) \in Nat /\ Len(x.stack) = IF Len(p.stack) - 3 >= Base(bs) THEN Len(p.stack) - 3 ELSE Base(bs)
       /\ \A r \in Registers : x.reg[r] = IF v.reg[r] > Len(x.stack) THEN 0 ELSE v.reg[r]
  BY <1>9, <1>11, SoundNumbers DEF Operated
<1>13. Frame(p, x)
  BY <1>n, <1>9, <1>12, FrameTransitive
<1>14. PICK types : types = <<t, t, "i32">>
  OBVIOUS
<1>15. Len(types) = 3 /\ types[1] = t /\ types[2] = t /\ types[3] = "i32"
  BY <1>14
<1>16. CASE Len(x.stack) = Base(bs)
  <2>1. \A r \in Registers : x.reg[r] = 0
    BY <1>11, <1>16, RegistersAtBase
  <2>2. x.reg[RegisterOf(ty)] = 0
    BY <2>1, Limits
  <2>3. ty \in EntryTypes
    <3>1. CASE Len(p.stack) - 1 > p.numLocals
      <4>1. Len(p.stack) - 1 \in 1..Len(p.stack) /\ 1 < Len(p.stack)
        BY <1>n, <3>1
      <4>0. p.stack \in Seq(Entries)
        BY SoundNumbers
      <4>2. ty = p.stack[Len(p.stack) - 1].type
        BY <1>4, <3>1, <4>1 DEF TypeFromTop, FromTop
      <4>3. PICK j \in 1..Len(p.stack) : j = Len(p.stack) - 1
        BY <4>1
      <4>. QED BY <4>0, <4>2, <4>3, EntryIs
    <3>2. CASE ~(Len(p.stack) - 1 > p.numLocals)
      BY <1>4, <3>2 DEF TypeFromTop, EntryTypes
    <3>. QED BY <3>1, <3>2
  <2>4. \E d \in 1..Len(bs) : Len(x.stack) = bs[d].base
    <3>1. bs \in Seq(Scopes) /\ Len(bs) > 0
      BY SoundParts DEF Framed
    <3>2. Len(bs) \in 1..Len(bs)
      BY <3>1
    <3>3. Base(bs) = bs[Len(bs)].base
      BY DEF Base, Last
    <3>. QED BY <1>16, <3>2, <3>3
  <2>5. Sound(q, bs, B, {}, {}) /\ Pushed(x, q, RegisterOf(ty), ty)
    BY <1>5, <1>11, <2>2, <2>3, <2>4, PushRegisterSound
  <2>6. Frame(x, q)
    BY <2>5 DEF Pushed
  <2>. QED BY <1>n, <1>13, <2>5, <2>6, FrameTransitive
<1>17. CASE Len(x.stack) # Base(bs)
  <2>1. Len(p.stack) - 3 > Base(bs) /\ Len(x.stack) = Len(p.stack) - 3
    <3>1. PICK a \in Nat, d \in Nat, l \in Nat : a = Len(p.stack) /\ d = Base(bs) /\ l = Len(x.stack)
      BY <1>n, <1>12
    <3>2. l # d /\ l = IF a - 3 >= d THEN a - 3 ELSE d
      BY <1>12, <1>17, <3>1
    <3>3. a - 3 > d /\ l = a - 3
      BY <3>2
    <3>. QED BY <3>1, <3>3
  <2>2. ASSUME NEW k \in 1..3  PROVE There(p, types, k)
    <3>1. Len(types) \in Nat /\ Len(p.stack) - Len(types) > Base(bs) /\ k \in 1..Len(types) /\ Typed(p, bs, types)
      BY <1>14, <1>15, <2>1
    <3>. QED BY <3>1, AllThere
  <2>t. There(p, types, 1) /\ There(p, types, 2) /\ There(p, types, 3)
    BY <2>2
  <2>3. ty = t
    <3>1. TypeFromTop(p, Len(types) - 2) = types[2]
      BY <2>t DEF There
    <3>2. Len(types) - 2 = 1
      BY <1>15
    <3>. QED BY <1>4, <1>15, <3>1, <3>2
  <2>4. t \in EntryTypes /\ t # "none"
    BY TypesAre
  <2>5. PICK r : r = RegisterOf(t)
    OBVIOUS
  <2>6. r \in Registers /\ x.reg[r] = (IF v.reg[r] > Len(x.stack) THEN 0 ELSE v.reg[r]) /\ v.reg[r] \in Nat
    BY <1>8, <1>12, <2>5, Limits, SoundNumbers
  <2>7. v.reg[r] = 0 \/ v.reg[r] > Len(x.stack)
    <3>1. CASE busy /\ v = p
      <4>1. TopInRegister(p, 1) => p.reg[r] > Len(p.stack) - 3
        <5>1. TopInRegister(p, Len(types) - 2) => p.reg[RegisterOf(types[2])] > Len(p.stack) - Len(types)
          BY <2>t DEF There
        <5>2. Len(types) - 2 = 1
          BY <1>15
        <5>. QED BY <1>15, <2>5, <5>1, <5>2
      <4>2. TopInRegister(p, 2) => p.reg[r] > Len(p.stack) - 3
        <5>1. TopInRegister(p, Len(types) - 1) => p.reg[RegisterOf(types[1])] > Len(p.stack) - Len(types)
          BY <2>t DEF There
        <5>2. Len(types) - 1 = 2
          BY <1>15
        <5>. QED BY <1>15, <2>5, <5>1, <5>2
      <4>3. ~IsFpType(type) /\ TopInRegister(p, 0) => p.reg[r] > Len(p.stack) - 3
        <5>1. TopInRegister(p, Len(types) - 3) => p.reg[RegisterOf(types[3])] > Len(p.stack) - Len(types)
          BY <2>t DEF There
        <5>2. Len(types) - 3 = 0
          BY <1>15
        <5>3. ~IsFpType(type) => RegisterOf("i32") = r
          BY <1>4, <2>3, <2>5 DEF RegisterOf, IsFpType
        <5>. HIDE DEF type
        <5>. QED BY <1>15, <5>1, <5>2, <5>3
      <4>. QED BY <2>1, <3>1, <4>1, <4>2, <4>3
    <3>2. CASE ~(busy /\ v = p)
      BY <1>8, <2>3, <2>4, <2>5, <3>2
    <3>. QED BY <3>1, <3>2
  <2>8. x.reg[RegisterOf(t)] = 0
    BY <2>5, <2>6, <2>7
  <2>9. Sound(q, bs, B, {}, {}) /\ Pushed(x, q, RegisterOf(t), t)
    BY <1>5, <1>11, <2>3, <2>4, <2>8, PushRegisterSound
  <2>10. Frame(x, q)
    BY <2>9 DEF Pushed
  <2>. QED BY <1>n, <1>13, <2>9, <2>10, FrameTransitive
<1>. QED BY <1>16, <1>17

\* A result goes to slots that were found for it.
LEMMA StoredSound ==
  ASSUME NEW p, NEW bs, NEW B, Sound(p, bs, B, {}, {}), NEW t \in Types, NEW a, a = AllocateSlots(p, t), Ok(a),
         NEW e, PlacesOf(e) = {a.got}, NEW q, q = Push(Emit(a, e), t, a.got), Ok(q)
  PROVE  Sound(q, bs, B, {}, {}) /\ Frame(p, q)
<1>5. Sound(a, bs, B, {}, Slots(a.got, t)) /\ Allocated(p, t, p.firstDynamic, MaxSlots, a) /\ SameOperands(p, a)
  BY AllocateSlotsSound
<1>6. /\ a.got \in Nat /\ p.firstDynamic <= a.got /\ a.got + NumSlots(t) <= MaxSlots
      /\ a.maxStackSlots \in Nat /\ a.got + NumSlots(t) <= a.maxStackSlots
      /\ a.firstDynamic = p.firstDynamic /\ Frame(p, a)
  BY <1>5 DEF Allocated, SameOperands, Frame
<1>8. a.got < a.maxStackSlots
  <2>1. NumSlots(t) \in {1, 2}
    BY SlotWidth
  <2>. QED BY <1>6, <2>1
<1>9. Fits(e, a.maxStackSlots, {})
  <2>2. a.got \in 0..(a.maxStackSlots - 1)
    BY <1>6, <1>8
  <2>. QED BY <2>2 DEF Fits
<1>10. PICK x : x = Emit(a, e)
  OBVIOUS
<1>11. Sound(x, bs, B, {}, Slots(a.got, t)) /\ Adds(a, x) /\ x.maxStackSlots = a.maxStackSlots
  BY <1>5, <1>9, <1>10, EmitSound
<1>13. x.firstDynamic = a.firstDynamic /\ Frame(a, x)
  BY <1>11 DEF Adds, SameOperands, Frame
<1>14. Sound(q, bs, B, {}, {}) /\ Pushed(x, q, a.got, t)
  BY <1>6, <1>8, <1>10, <1>11, <1>13, PushSlotSound
<1>15. Frame(x, q) /\ p.maxStackSlots \in Nat
  BY <1>14, SoundNumbers DEF Pushed
<1>17. Frame(p, x)
  BY <1>6, <1>13, <1>15, FrameTransitive
<1>. QED BY <1>14, <1>15, <1>17, FrameTransitive

LEMMA GetGlobalSound ==
  ASSUME NEW p, NEW bs, NEW B, Sound(p, bs, B, {}, {}), NEW t \in Types, NEW q, q = GlobalGot(p, t), Ok(q)
  PROVE  Sound(q, bs, B, {}, {}) /\ Frame(p, q)
<1>1. PICK a : a = AllocateSlots(p, t)
  OBVIOUS
<1>2. PICK e : e = Op(<<>>, <<[slot |-> a.got, type |-> t]>>, Unused)
  OBVIOUS
<1>3. q = IF Ok(a) THEN Push(Emit(a, e), t, a.got) ELSE a
  BY <1>1, <1>2 DEF GlobalGot, Then
<1>4. Ok(a) /\ q = Push(Emit(a, e), t, a.got) /\ PlacesOf(e) = {a.got}
  BY <1>2, <1>3, OpPlaces
<1>. QED BY <1>1, <1>4, StoredSound

LEMMA OpNoPlaces ==
  ASSUME NEW args, NEW frame
  PROVE  PlacesOf(Op(args, <<>>, frame)) \subseteq Registers
BY DEF PlacesOf, Op

\* An operation that writes nothing takes the operand on top.
LEMMA TakeOneSound ==
  ASSUME NEW p, NEW bs, NEW B, Sound(p, bs, B, {}, {}), Block(p).base = Base(bs), NEW args,
         NEW q, q = Pop(Emit(p, Op(args, <<>>, Unused))), Ok(q)
  PROVE  /\ Sound(q, bs, B, {}, {}) /\ Frame(p, q)
         /\ Len(q.stack) = IF Len(p.stack) - 1 >= Base(bs) THEN Len(p.stack) - 1 ELSE Base(bs)
         /\ \A r \in Registers : q.reg[r] = IF p.reg[r] > Len(q.stack) THEN 0 ELSE p.reg[r]
<1>1. PICK e : e = Op(args, <<>>, Unused)
  OBVIOUS
<1>2. PlacesOf(e) \subseteq Registers
  BY <1>1, OpNoPlaces
<1>3. PICK v : v = Emit(p, e)
  OBVIOUS
<1>4. Sound(v, bs, B, {}, {}) /\ Adds(p, v)
  BY <1>2, <1>3, EmitSound, RegisterFits
<1>5. v.stack = p.stack /\ v.reg = p.reg /\ v.blocks = p.blocks /\ Frame(p, v)
  BY <1>4 DEF Adds, SameOperands, Frame
<1>6. Block(v).base = Base(bs)
  BY <1>5 DEF Block
<1>7. q = Pop(v)
  BY <1>1, <1>3
<1>8. Sound(q, bs, B, {}, {}) /\ Dropped(v, bs, 1, q)
  BY <1>4, <1>6, <1>7, PopSound
<1>9. Frame(v, q) /\ p.maxStackSlots \in Nat
  BY <1>8, SoundNumbers DEF Dropped
<1>10. Frame(p, q)
  BY <1>5, <1>9, FrameTransitive
<1>. QED BY <1>5, <1>8, <1>10 DEF Dropped

\* An operation leaves its result in a register that is free.
LEMMA ResultSound ==
  ASSUME NEW p, NEW bs, NEW B, Sound(p, bs, B, {}, {}), NEW t \in Types, p.reg[RegisterOf(t)] = 0, NEW args,
         NEW q, q = PushRegister(Emit(p, Op(args, <<[slot |-> RegisterOf(t), type |-> t]>>, Unused)), t), Ok(q)
  PROVE  Sound(q, bs, B, {}, {}) /\ Frame(p, q)
<1>1. PICK e : e = Op(args, <<[slot |-> RegisterOf(t), type |-> t]>>, Unused)
  OBVIOUS
<1>2. PlacesOf(e) \subseteq Registers
  <2>1. PlacesOf(e) = {RegisterOf(t)}
    BY <1>1, OpPlaces
  <2>. QED BY <2>1, Limits
<1>3. PICK v : v = Emit(p, e)
  OBVIOUS
<1>4. Sound(v, bs, B, {}, {}) /\ Adds(p, v)
  BY <1>2, <1>3, EmitSound, RegisterFits
<1>5. v.reg = p.reg /\ Frame(p, v)
  BY <1>4 DEF Adds, SameOperands
<1>6. q = PushRegister(v, t)
  BY <1>1, <1>3
<1>7. t \in EntryTypes /\ t # "none"
  BY TypesAre
<1>8. Sound(q, bs, B, {}, {}) /\ Pushed(v, q, RegisterOf(t), t)
  BY <1>4, <1>5, <1>6, <1>7, PushRegisterSound
<1>9. Frame(v, q) /\ p.maxStackSlots \in Nat
  BY <1>8, SoundNumbers DEF Pushed
<1>. QED BY <1>5, <1>8, <1>9, FrameTransitive

LEMMA IntegerRegister ==
  "i32" \in Types /\ RegisterOf("i32") = R0 /\ R0 \in Registers
BY DEF Types, RegisterOf, IsFpType, Registers

LEMMA MemorySizeSound ==
  ASSUME NEW p, NEW bs, NEW B, Sound(p, bs, B, {}, {}), NEW q, q = Sizes(p), Ok(q)
  PROVE  Sound(q, bs, B, {}, {}) /\ Frame(p, q)
<1>1. PICK v : v = PreserveRegisterOfType(p, "i32")
  OBVIOUS
<1>2. q = PushRegister(Emit(v, Op(<<>>, <<[slot |-> RegisterOf("i32"), type |-> "i32"]>>, Unused)), "i32")
  BY <1>1, IntegerRegister DEF Sizes
<1>3. Ok(v)
  BY <1>2, ErrorsStay DEF PushRegister
<1>4. Sound(v, bs, B, {}, {}) /\ Keeps(p, v) /\ v.reg[RegisterOf("i32")] = 0
  BY <1>1, <1>3, PreserveTypeSound
<1>5. Sound(q, bs, B, {}, {}) /\ Frame(v, q)
  BY <1>2, <1>4, IntegerRegister, ResultSound
<1>6. Frame(p, v) /\ p.maxStackSlots \in Nat
  BY <1>4, SoundNumbers DEF Keeps
<1>. QED BY <1>5, <1>6, FrameTransitive

LEMMA MemoryGrowSound ==
  ASSUME NEW p, NEW bs, NEW B, Sound(p, bs, B, {}, {}), Block(p).base = Base(bs), Typed(p, bs, <<"i32">>),
         NEW q, q = Grows(p), Ok(q)
  PROVE  Sound(q, bs, B, {}, {}) /\ Frame(p, q)
<1>n. /\ p.maxStackSlots \in Nat /\ Len(p.stack) \in Nat /\ Base(bs) \in Nat /\ Base(bs) <= Len(p.stack)
  BY SoundNumbers
<1>1. PICK v : v = CopyStackTopToRegister(p)
  OBVIOUS
<1>2. PICK x : x = PopType(v, "i32")
  OBVIOUS
<1>3. PICK args : args = <<[slot |-> R0, type |-> "i32"]>>
  OBVIOUS
<1>4. q = PushRegister(Emit(x, Op(args, <<[slot |-> RegisterOf("i32"), type |-> "i32"]>>, Unused)), "i32")
  BY <1>1, <1>2, <1>3, IntegerRegister DEF Grows
<1>5. Ok(x)
  BY <1>4, ErrorsStay DEF PushRegister
<1>6. Ok(v)
  BY <1>2, <1>5, PopTypeErrs
<1>7. Sound(v, bs, B, {}, {}) /\ Keeps(p, v) /\ (TopInRegister(p, 0) \/ v.reg[RegisterOf(TypeFromTop(p, 0))] = 0)
  BY <1>1, <1>6, CopyTopSound
<1>8. Frame(p, v) /\ Len(v.stack) = Len(p.stack) /\ \A r \in Registers : v.reg[r] = 0 \/ v.reg[r] = p.reg[r]
  BY <1>7 DEF Keeps
<1>9. Block(v).base = Base(bs)
  BY <1>8 DEF Frame, Block
<1>10. Sound(x, bs, B, {}, {}) /\ Dropped(v, bs, 1, x)
  BY <1>2, <1>5, <1>7, <1>9, PopTypeSound
<1>11. /\ Frame(v, x) /\ Len(x.stack) \in Nat
       /\ Len(x.stack) = IF Len(p.stack) - 1 >= Base(bs) THEN Len(p.stack) - 1 ELSE Base(bs)
       /\ x.reg[R0] = IF v.reg[R0] > Len(x.stack) THEN 0 ELSE v.reg[R0]
  BY <1>8, <1>10, IntegerRegister, SoundNumbers DEF Dropped
<1>12. x.reg[RegisterOf("i32")] = 0
  <2>1. CASE Len(x.stack) = Base(bs)
    BY <1>10, <2>1, RegistersAtBase, IntegerRegister
  <2>2. CASE Len(x.stack) # Base(bs)
    <3>1. Len(p.stack) - 1 > Base(bs) /\ Len(x.stack) = Len(p.stack) - 1
      <4>1. PICK a \in Nat, d \in Nat, l \in Nat : a = Len(p.stack) /\ d = Base(bs) /\ l = Len(x.stack)
        BY <1>n, <1>11
      <4>2. l # d /\ l = IF a - 1 >= d THEN a - 1 ELSE d
        BY <1>11, <2>2, <4>1
      <4>3. a - 1 > d /\ l = a - 1
        BY <4>2
      <4>. QED BY <4>1, <4>3
    <3>2. PICK types : types = <<"i32">>
      OBVIOUS
    <3>3. Len(types) = 1 /\ types[1] = "i32"
      BY <3>2
    <3>4. There(p, types, 1)
      <4>1. Len(types) \in Nat /\ Len(p.stack) - Len(types) > Base(bs) /\ 1 \in 1..Len(types) /\ Typed(p, bs, types)
        BY <3>1, <3>2, <3>3
      <4>. QED BY <4>1, AllThere
    <3>5. Len(types) - 1 = 0
      BY <3>3
    <3>6. TypeFromTop(p, 0) = "i32" /\ (TopInRegister(p, 0) => p.reg[R0] > Len(p.stack) - 1)
      BY <3>3, <3>4, <3>5, IntegerRegister DEF There
    <3>. QED BY <1>7, <1>8, <1>11, <3>1, <3>6, IntegerRegister
  <2>. QED BY <2>1, <2>2
<1>13. Sound(q, bs, B, {}, {}) /\ Frame(x, q)
  BY <1>4, <1>10, <1>12, IntegerRegister, ResultSound
<1>14. Frame(p, x)
  BY <1>n, <1>8, <1>11, FrameTransitive
<1>. QED BY <1>n, <1>13, <1>14, FrameTransitive

LEMMA MemoryCopyFillSound ==
  ASSUME NEW p, NEW bs, NEW B, Sound(p, bs, B, {}, {}), Block(p).base = Base(bs), NEW q, q = Fills(p), Ok(q)
  PROVE  Sound(q, bs, B, {}, {}) /\ Frame(p, q)
<1>n. p.maxStackSlots \in Nat
  BY SoundNumbers
<1>1. PICK v : v = CopyStackTopToRegister(p)
  OBVIOUS
<1>2. PICK e : e = Op(<<FromTop(v, 2), FromTop(v, 1), [slot |-> R0, type |-> "i32"]>>, <<>>, Unused)
  OBVIOUS
<1>3. PICK x : x = Emit(v, e)
  OBVIOUS
<1>4. PICK y : y = PopType(x, "i32")
  OBVIOUS
<1>5. q = PopN(y, 2) /\ 2 \in Nat
  BY <1>1, <1>2, <1>3, <1>4 DEF Fills
<1>6. Ok(y)
  BY <1>5, PopNStays
<1>7. Ok(x)
  BY <1>4, <1>6, PopTypeErrs
<1>8. Ok(v)
  BY <1>3, <1>7, ErrorsStay
<1>9. Sound(v, bs, B, {}, {}) /\ Keeps(p, v)
  BY <1>1, <1>8, CopyTopSound
<1>10. Sound(x, bs, B, {}, {}) /\ Adds(v, x)
  <2>1. PlacesOf(e) \subseteq Registers
    BY <1>2, OpNoPlaces
  <2>. QED BY <1>3, <1>9, <2>1, EmitSound, RegisterFits
<1>11. Frame(p, v) /\ Frame(v, x)
  BY <1>9, <1>10 DEF Keeps, Adds, SameOperands
<1>12. Frame(p, x)
  BY <1>n, <1>11, FrameTransitive
<1>13. Block(x).base = Base(bs)
  BY <1>12 DEF Frame, Block
<1>14. Sound(y, bs, B, {}, {}) /\ Dropped(x, bs, 1, y)
  BY <1>4, <1>6, <1>10, <1>13, PopTypeSound
<1>15. Frame(p, y)
  BY <1>n, <1>12, <1>14, FrameTransitive DEF Dropped
<1>16. Block(y).base = Base(bs)
  BY <1>15 DEF Frame, Block
<1>17. Sound(q, bs, B, {}, {}) /\ Dropped(y, bs, 2, q)
  BY <1>5, <1>14, <1>16, PopNSound
<1>. QED BY <1>n, <1>15, <1>17, FrameTransitive DEF Dropped

-----------------------------------------------------------------------------
(* Operands that share the slot of a local.                                *)

LEMMA SequenceOf ==
  ASSUME NEW S, IsFiniteSet(S), NEW q, q = SetToSeq(S)
  PROVE  Cardinality(S) \in Nat /\ DOMAIN q = 1..Cardinality(S)
<1>1. Cardinality(S) \in Nat /\ ExistsBijection(1..Cardinality(S), S)
  BY FS_CardinalityType
<1>2. \E f \in [1..Cardinality(S) -> S] : IsInjective(f)
  BY <1>1 DEF ExistsBijection, Bijection, Injection
<1>3. q \in [1..Cardinality(S) -> S]
  BY <1>2 DEF SetToSeq
<1>. QED BY <1>1, <1>3

LEMMA FindIs ==
  ASSUME NEW p, NEW local
  PROVE  FindReferencedLocal(p, local) = Shared(p, local, Referring(p, local))
BY DEF FindReferencedLocal, Shared, Referring, Innermost

LEMMA FindSteps ==
  ASSUME NEW p, Ok(p), NEW local, NEW refs, refs # {},
         NEW a, a = AllocateSlots(p, p.stack[Min(refs)].type), Ok(a),
         NEW q, q = SetToSeq(refs \ {Min(refs)}), NEW n \in Nat, DOMAIN q = 1..n
  PROVE  \E g : Steps(g, "more", <<>>, a, q, n) /\ Shared(p, local, refs) = Renamed(g[n], refs, a.got)
<1>. DEFINE Body(h) == [s \in SUBSET (DOMAIN q) |-> IF s = {} THEN a ELSE IncrementSlotUsage(h[s \ {Max(s)}], h[s \ {Max(s)}].got)]
<1>1. \A x, k : Do("more", <<>>, x, k) = IncrementSlotUsage(x, x.got)
  BY DEF Do
<1>2. \A h : Body(h) = DoBody(h, "more", <<>>, a, q)
  BY <1>1 DEF DoBody
<1>. HIDE DEF Body
<1>3. \E h : h = Body(h)
  BY <1>2, FoldExists DEF DoneBy
<1>4. PICK f : f = Body(f) /\ Shared(p, local, refs) = Renamed(f[DOMAIN q], refs, a.got)
  <2>1. Shared(p, local, refs)
        = [FoldLeft(LAMBDA x, i : IncrementSlotUsage(x, x.got), a, q)
              EXCEPT !.stack = [i \in DOMAIN @ |-> IF i \in refs THEN [@[i] EXCEPT !.slot = a.got] ELSE @[i]]]
    BY DEF Shared, Then
  <2>. QED BY <1>3, <2>1 DEF Body, FoldLeft, MapThenFoldSet, Renamed
<1>5. PICK g : Steps(g, "more", <<>>, a, q, n) /\ g[n] = f[DOMAIN q]
  <2>1. DoneBy(f, "more", <<>>, a, q)
    BY <1>2, <1>4 DEF DoneBy
  <2>. QED BY <2>1, FoldSteps
<1>. QED BY <1>4, <1>5

\* k more references to the slot found last.
Counted(a, k, x) ==
  /\ SameOperands(a, x) /\ x.code = a.code /\ x.got = a.got /\ x.maxStackSlots = a.maxStackSlots
  /\ x.use \in [0..(MaxSlots - 1) -> 0..MaxUse]
  /\ \A y \in 0..(MaxSlots - 1) : x.use[y] = IF y = a.got THEN a.use[y] + k ELSE a.use[y]

LEMMA MoreIs ==
  ASSUME NEW a, NEW k \in Nat, NEW x, Counted(a, k, x), DOMAIN a = Fields, Ok(a), a.got \in 0..(MaxSlots - 1),
         a.use \in [0..(MaxSlots - 1) -> 0..MaxUse],
         NEW y, y = IncrementSlotUsage(x, x.got), Ok(y)
  PROVE  Counted(a, k + 1, y)
<1>1. /\ SameOperands(a, x) /\ x.code = a.code /\ x.got = a.got /\ x.maxStackSlots = a.maxStackSlots
      /\ x.use \in [0..(MaxSlots - 1) -> 0..MaxUse]
      /\ \A z \in 0..(MaxSlots - 1) : x.use[z] = IF z = a.got THEN a.use[z] + k ELSE a.use[z]
  BY DEF Counted
<1>2. Frame(a, x) /\ DOMAIN x = Fields /\ Ok(x) /\ x.maxStackSlots \in Nat
  BY <1>1 DEF SameOperands, Frame, Ok
<1>3. x.use[a.got] < MaxUse
  <2>1. CASE ~(x.use[a.got] < MaxUse)
    <3>1. y = Throw(x, "slot usage count overflow")
      BY <1>1, <2>1 DEF IncrementSlotUsage
    <3>. QED BY <1>2, <3>1, ThrowErrs
  <2>. QED BY <2>1
<1>4. y = [x EXCEPT !.use[a.got] = @ + 1]
  BY <1>1, <1>3 DEF IncrementSlotUsage
<1>5. y.use = [x.use EXCEPT ![a.got] = @ + 1]
  BY <1>2, <1>4 DEF Fields
<1>6. /\ y.code = x.code /\ y.got = x.got /\ y.maxStackSlots = x.maxStackSlots /\ SameOperands(x, y)
  BY <1>2, <1>4 DEF SameOperands, Frame
<1>7. SameOperands(a, y)
  <2>1. Frame(x, y) /\ a.maxStackSlots \in Nat
    BY <1>1, <1>2, <1>6 DEF SameOperands
  <2>2. Frame(a, y)
    BY <1>2, <2>1, FrameTransitive
  <2>. QED BY <1>1, <1>6, <2>2 DEF SameOperands
<1>8. y.use \in [0..(MaxSlots - 1) -> 0..MaxUse]
  <2>1. x.use[a.got] + 1 \in 0..MaxUse
    <3>1. x.use[a.got] \in 0..MaxUse
      BY <1>1
    <3>2. MaxUse \in Nat
      BY LimitsAssumption
    <3>3. PICK u : u = x.use[a.got]
      OBVIOUS
    <3>4. u \in 0..MaxUse /\ u < MaxUse
      BY <1>3, <3>1, <3>3
    <3>5. u + 1 \in 0..MaxUse
      BY <3>2, <3>4
    <3>. QED BY <3>3, <3>5
  <2>. QED BY <1>1, <1>5, <2>1
<1>9. ASSUME NEW z \in 0..(MaxSlots - 1)  PROVE y.use[z] = IF z = a.got THEN a.use[z] + (k + 1) ELSE a.use[z]
  <2>1. a.use[z] \in 0..MaxUse
    OBVIOUS
  <2>2. CASE z = a.got
    <3>1. y.use[z] = x.use[z] + 1 /\ x.use[z] = a.use[z] + k
      BY <1>1, <1>5, <2>2
    <3>2. PICK v \in Nat : v = a.use[z]
      BY <2>1, Limits
    <3>3. (v + k) + 1 = v + (k + 1)
      OBVIOUS
    <3>. QED BY <2>2, <3>1, <3>2, <3>3
  <2>3. CASE z # a.got
    BY <1>1, <1>5, <2>3
  <2>. QED BY <2>2, <2>3
<1>. QED BY <1>1, <1>6, <1>7, <1>8, <1>9 DEF Counted

LEMMA MoreErrs ==
  ASSUME NEW x, ~Ok(x), NEW s
  PROVE  ~Ok(IncrementSlotUsage(x, s))
<1>1. [x EXCEPT !.use[s] = @ + 1].err = x.err
  OBVIOUS
<1>. QED BY <1>1, ErrorsStay DEF IncrementSlotUsage, Ok

LEMMA MoreSteps ==
  ASSUME NEW a, DOMAIN a = Fields, Ok(a), a.got \in 0..(MaxSlots - 1), a.maxStackSlots \in Nat,
         a.use \in [0..(MaxSlots - 1) -> 0..MaxUse], NEW q, NEW n \in Nat, NEW g, Steps(g, "more", <<>>, a, q, n), Ok(g[n])
  PROVE  Counted(a, n, g[n])
<1>2. g[0] = a /\ \A k \in 1..n : g[k] = IncrementSlotUsage(g[k - 1], g[k - 1].got)
  BY DEF Steps, Do
<1>. DEFINE S == {k \in 0..n : Ok(g[k]) => Counted(a, k, g[k])}
<1>3. 0 \in S
  <2>1. SameOperands(a, a)
    BY FrameReflexive DEF SameOperands
  <2>2. \A y \in 0..(MaxSlots - 1) : a.use[y] \in 0..MaxUse
    OBVIOUS
  <2>3. \A y \in 0..(MaxSlots - 1) : a.use[y] = a.use[y] + 0
    BY <2>2, Limits
  <2>. QED BY <1>2, <2>1, <2>3 DEF Counted
<1>4. ASSUME NEW k \in 1..n, k - 1 \in S  PROVE k \in S
  <2>. SUFFICES ASSUME Ok(g[k]) PROVE Counted(a, k, g[k])
    OBVIOUS
  <2>1. g[k] = IncrementSlotUsage(g[k - 1], g[k - 1].got)
    BY <1>2
  <2>2. Ok(g[k - 1])
    BY <2>1, MoreErrs
  <2>3. Counted(a, k - 1, g[k - 1])
    BY <1>4, <2>2
  <2>4. k - 1 \in Nat /\ (k - 1) + 1 = k
    OBVIOUS
  <2>5. Counted(a, (k - 1) + 1, g[k])
    BY <2>1, <2>3, <2>4, MoreIs
  <2>. QED BY <2>4, <2>5
<1>. HIDE DEF S
<1>5. \A k \in 1..n : k - 1 \in S => k \in S
  BY <1>4
<1>6. \A k \in 0..n : k \in S
  BY <1>3, <1>5, Upwards
<1>. QED BY <1>6 DEF S

\* The scope FindReferencedLocal looks in is one of the blocks.
LEMMA InnermostIs ==
  ASSUME NEW p, NEW B, NEW T, NEW E, Sound(p, p.blocks, B, T, E)
  PROVE  Innermost(p) \in 1..Len(p.blocks) /\ p.blocks[Innermost(p)].base \in Nat
         /\ p.numLocals <= p.blocks[Innermost(p)].base /\ p.blocks[Innermost(p)].base <= Base(p.blocks)
<1>1. Framed(p, p.blocks)
  BY SoundParts
<1>2. p.blocks \in Seq(Scopes) /\ Len(p.blocks) \in Nat /\ Len(p.blocks) > 0 /\ DOMAIN p.blocks = 1..Len(p.blocks)
  BY <1>1 DEF Framed
<1>3. PICK S : S = {1} \cup {i \in DOMAIN p.blocks : p.blocks[i].opcode # "block"}
  OBVIOUS
<1>4. S \subseteq 1..Len(p.blocks) /\ S # {}
  BY <1>2, <1>3
<1>5. Max(S) \in S
  <2>1. S \subseteq Nat /\ \A y \in S : y <= Len(p.blocks)
    BY <1>2, <1>4
  <2>. QED BY <1>2, <1>4, <2>1, MaxOf
<1>6. Innermost(p) = Max(S)
  BY <1>3 DEF Innermost
<1>7. Innermost(p) \in 1..Len(p.blocks)
  BY <1>4, <1>5, <1>6
<1>8. p.blocks[Innermost(p)] \in Scopes
  BY <1>2, <1>7
<1>. QED BY <1>1, <1>7, <1>8 DEF Framed, Scopes

LEMMA ReferringIs ==
  ASSUME NEW p, NEW B, NEW T, Sound(p, p.blocks, B, T, {}), NEW local \in Nat, local < p.firstConst,
         ~SharesWide(p, local), NEW refs, refs = Referring(p, local)
  PROVE  \E w \in {1, 2} : Refers(p, Live(p, p.blocks, B), refs, local, w)
<1>n. /\ Len(p.stack) \in Nat /\ p.stack \in Seq(Entries) /\ p.numLocals \in Nat
      /\ p.firstConst \in Nat /\ p.firstDynamic \in Nat /\ p.maxConst \in Nat
      /\ p.firstConst <= p.maxConst /\ p.maxConst <= p.firstDynamic /\ p.firstDynamic < MaxSlots
  BY SoundNumbers
<1>1. PICK b \in Nat : b = p.blocks[Innermost(p)].base /\ p.numLocals <= b
  BY InnermostIs
<1>2. refs = {i \in (b + 1)..Len(p.stack) : p.stack[i].slot = local}
  BY <1>1 DEF Referring
<1>3. refs \subseteq 1..Len(p.stack) /\ \A i \in refs : i > p.numLocals /\ p.stack[i].slot = local
  BY <1>n, <1>1, <1>2
<1>4. ASSUME NEW i \in refs
      PROVE  /\ i \in Live(p, p.blocks, B) /\ NumSlots(p.stack[i].type) \in {1, 2}
             /\ \A x \in Dynamic(p) : ~RefersTo(p.stack[i], x)
  <2>0. i \in 1..Len(p.stack) /\ i > p.numLocals /\ p.stack[i].slot = local
    BY <1>3
  <2>1. local < p.firstDynamic /\ ~(local >= p.firstDynamic)
    BY <1>n
  <2>2. i \in Live(p, p.blocks, B)
    <3>1. i <= p.numLocals \/ i \in Live(p, p.blocks, B) \/ p.stack[i].slot >= p.firstDynamic
      BY <2>0, SoundParts DEF Records
    <3>2. ~(i <= p.numLocals)
      BY <1>n, <2>0
    <3>. QED BY <2>0, <2>1, <3>1, <3>2
  <2>3. PICK n \in {1, 2} : n = NumSlots(p.stack[i].type) /\ local + n <= p.firstDynamic
    <3>1. EntryFits(p, p.blocks, i, p.stack[i])
      BY <2>0, SoundParts DEF Placed
    <3>. QED BY <2>0, <2>1, <3>1, SlotWidth DEF EntryFits
  <2>4. ASSUME NEW x \in Dynamic(p)  PROVE ~RefersTo(p.stack[i], x)
    <3>1. x \in Nat /\ x >= p.firstDynamic
      BY <1>n DEF Dynamic
    <3>2. Slots(p.stack[i].slot, p.stack[i].type) = local..(local + n - 1)
      BY <2>0, <2>3 DEF Slots
    <3>3. x \notin local..(local + n - 1)
      BY <1>n, <2>3, <3>1
    <3>. QED BY <3>2, <3>3 DEF RefersTo
  <2>. QED BY <2>2, <2>3, <2>4
<1>5. CASE \E i \in refs : NumSlots(p.stack[i].type) = 2
  <2>1. \A i, j \in refs : i = j
    BY <1>5 DEF SharesWide
  <2>2. Movable(p, Live(p, p.blocks, B), refs, 2)
    BY <1>3, <1>4, <1>5, <2>1 DEF Movable
  <2>. QED BY <1>3, <2>1, <2>2 DEF Refers
<1>6. CASE ~\E i \in refs : NumSlots(p.stack[i].type) = 2
  <2>1. Movable(p, Live(p, p.blocks, B), refs, 1)
    BY <1>3, <1>4, <1>6 DEF Movable
  <2>. QED BY <1>3, <2>1 DEF Refers
<1>. QED BY <1>5, <1>6

LEMMA Narrower ==
  ASSUME NEW g \in Nat, NEW w \in {1, 2}, NEW n \in Nat, g + w <= n
  PROVE  g + 1 <= n
OBVIOUS

LEMMA SharesSame ==
  ASSUME NEW p, NEW q, q.stack = p.stack, q.blocks = p.blocks, NEW s
  PROVE  SharesWide(q, s) = SharesWide(p, s)
<1>1. Innermost(q) = Innermost(p)
  BY DEF Innermost
<1>2. Referring(q, s) = Referring(p, s)
  BY <1>1 DEF Referring
<1>. QED BY <1>2 DEF SharesWide

LEMMA SharesLess ==
  ASSUME NEW p, NEW B, NEW T, Sound(p, p.blocks, B, T, {}), NEW q, q.blocks = p.blocks, Len(q.stack) = Len(p.stack),
         \A j \in 1..Len(p.stack) : /\ q.stack[j].type = p.stack[j].type
                                    /\ q.stack[j] = p.stack[j] \/ q.stack[j].slot >= p.firstDynamic
  PROVE  Shares(p, q)
<1>n. Len(p.stack) \in Nat /\ p.firstConst \in Nat /\ p.firstDynamic \in Nat /\ p.firstConst <= p.firstDynamic
  <2>1. p.firstConst <= p.maxConst /\ p.maxConst <= p.firstDynamic /\ p.maxConst \in Nat
        /\ p.firstConst \in Nat /\ p.firstDynamic \in Nat /\ Len(p.stack) \in Nat
    BY SoundNumbers
  <2>. QED BY <2>1
<1>1. PICK b \in Nat : b = p.blocks[Innermost(p)].base
  BY InnermostIs
<1>2. Innermost(q) = Innermost(p)
  BY DEF Innermost
<1>3. ASSUME NEW s \in Nat, s < p.firstConst, NEW j \in Referring(q, s)
      PROVE  j \in Referring(p, s) /\ q.stack[j].type = p.stack[j].type
  <2>1. j \in (b + 1)..Len(p.stack) /\ q.stack[j].slot = s
    BY <1>1, <1>2 DEF Referring
  <2>2. j \in 1..Len(p.stack) /\ ~(s >= p.firstDynamic)
    BY <1>n, <1>3, <2>1
  <2>. QED BY <1>1, <2>1, <2>2 DEF Referring
<1>. QED BY <1>3 DEF Shares, SharesWide

LEMMA FindSound ==
  ASSUME NEW p, NEW B, NEW T, Sound(p, p.blocks, B, T, {}), NEW local \in Nat, local < p.firstConst, ~SharesWide(p, local),
         NEW q, q = FindReferencedLocal(p, local), Ok(q)
  PROVE  Sound(q, p.blocks, B, T, {}) /\ Found(p, local, q)
<1>n. /\ Len(p.stack) \in Nat /\ p.stack \in Seq(Entries) /\ p.numLocals \in Nat /\ DOMAIN p = Fields /\ Ok(p)
      /\ p.firstConst \in Nat /\ p.firstDynamic \in Nat /\ p.maxConst \in Nat /\ p.maxStackSlots \in Nat
      /\ p.firstConst <= p.maxConst /\ p.maxConst <= p.firstDynamic /\ p.firstDynamic < MaxSlots
      /\ p.firstDynamic <= p.maxStackSlots /\ MaxSlots \in Nat
      /\ p.use \in [0..(MaxSlots - 1) -> 0..MaxUse] /\ p.reg \in [Registers -> Nat]
  BY SoundNumbers, Limits
<1>1. PICK refs : refs = Referring(p, local)
  OBVIOUS
<1>2. q = Shared(p, local, refs)
  BY <1>1, FindIs
<1>r. PICK w \in {1, 2} : Refers(p, Live(p, p.blocks, B), refs, local, w)
  BY <1>1, ReferringIs
<1>w. w = 2 => \A i, j \in refs : i = j
  BY <1>r DEF Refers
<1>3. /\ refs \subseteq 1..Len(p.stack) /\ \A i \in refs : i > p.numLocals /\ p.stack[i].slot = local
      /\ Movable(p, Live(p, p.blocks, B), refs, w)
  BY <1>r DEF Refers
<1>4. CASE refs = {}
  <2>1. q = [p EXCEPT !.got = local]
    BY <1>2, <1>4 DEF Shared
  <2>2. Adds(p, q) /\ q.code = p.code /\ q.maxStackSlots = p.maxStackSlots
    BY <1>n, <2>1 DEF Adds, SameOperands, Frame
  <2>3. q.got = local
    BY <1>n, <2>1 DEF Fields
  <2>4. Sound(q, p.blocks, B, T, {})
    BY <2>2, SoundCode, AddsSound
  <2>5. Keeps(p, q)
    BY <2>2, AddsKeeps DEF Adds
  <2>6. local < p.maxStackSlots /\ local < MaxSlots
    BY <1>n
  <2>7. Shares(p, q)
    <3>1. q.stack = p.stack /\ q.blocks = p.blocks
      BY <2>1
    <3>. QED BY <3>1, SharesSame DEF Shares
  <2>. QED BY <2>2, <2>3, <2>4, <2>5, <2>6, <2>7 DEF Found
<1>5. CASE refs # {}
  <2>1. PICK least : least = Min(refs) /\ least \in refs
    <3>1. refs \subseteq Nat
      BY <1>n, <1>3
    <3>. QED BY <1>5, <3>1, MinOf
  <2>2. PICK t : t = p.stack[least].type /\ NumSlots(t) = w
    BY <1>3, <2>1 DEF Movable
  <2>3. PICK a : a = AllocateSlots(p, t)
    OBVIOUS
  <2>4. Ok(a)
    <3>1. CASE ~Ok(a)
      <4>1. q = a
        BY <1>n, <1>2, <1>5, <2>1, <2>2, <2>3, <3>1 DEF Shared, Then
      <4>. QED BY <3>1, <4>1
    <3>. QED BY <3>1
  <2>5. Allocated(p, t, p.firstDynamic, MaxSlots, a)
    BY <2>3, <2>4, AllocateSlotsSound
  <2>6. /\ a.got \in Nat /\ p.firstDynamic <= a.got /\ a.got + w <= MaxSlots /\ a.got + 1 <= MaxSlots
        /\ \A x \in a.got..(a.got + w - 1) : p.use[x] = 0
        /\ a.use = [x \in 0..(MaxSlots - 1) |-> IF x \in a.got..(a.got + w - 1) THEN 1 ELSE p.use[x]]
        /\ a.code = p.code /\ SameOperands(p, a)
        /\ a.maxStackSlots \in Nat /\ a.maxStackSlots >= a.got + 1
    <3>1. /\ a.got \in Nat /\ p.firstDynamic <= a.got /\ a.got + w <= MaxSlots
          /\ \A x \in Slots(a.got, t) : p.use[x] = 0
          /\ a.use = [x \in DOMAIN p.use |-> IF x \in Slots(a.got, t) THEN 1 ELSE p.use[x]]
          /\ a.code = p.code /\ SameOperands(p, a)
          /\ a.maxStackSlots \in Nat /\ a.maxStackSlots >= a.got + w
      BY <2>2, <2>5 DEF Allocated
    <3>2. Slots(a.got, t) = a.got..(a.got + w - 1)
      BY <2>2 DEF Slots
    <3>3. DOMAIN p.use = 0..(MaxSlots - 1)
      BY <1>n
    <3>4. a.got + 1 <= MaxSlots /\ a.maxStackSlots >= a.got + 1
      BY <1>n, <3>1, Narrower
    <3>. QED BY <3>1, <3>2, <3>3, <3>4
  <2>7. PICK rest : rest = refs \ {least}
    OBVIOUS
  <2>8. IsFiniteSet(refs) /\ Cardinality(refs) \in Nat /\ IsFiniteSet(rest)
        /\ Cardinality(rest) = Cardinality(refs) - 1
    <3>1. IsFiniteSet(refs) /\ Cardinality(refs) \in Nat
      BY <1>3, RefsFinite DEF Movable
    <3>. QED BY <2>1, <2>7, <3>1, FS_RemoveElement
  <2>9. PICK s : s = SetToSeq(rest)
    OBVIOUS
  <2>10. PICK n \in Nat : n = Cardinality(rest) /\ DOMAIN s = 1..n
    BY <2>8, <2>9, SequenceOf
  <2>11. PICK g : Steps(g, "more", <<>>, a, s, n) /\ q = Renamed(g[n], refs, a.got)
    <3>1. a = AllocateSlots(p, p.stack[Min(refs)].type) /\ s = SetToSeq(refs \ {Min(refs)})
      BY <2>1, <2>2, <2>3, <2>7, <2>9
    <3>2. DOMAIN s = 1..n /\ Ok(a) /\ Ok(p)
      BY <1>n, <2>4, <2>10
    <3>3. \E g : Steps(g, "more", <<>>, a, s, n) /\ Shared(p, local, refs) = Renamed(g[n], refs, a.got)
      BY <1>5, <3>1, <3>2, FindSteps
    <3>. QED BY <1>2, <3>3
  <2>12. PICK x : x = g[n]
    OBVIOUS
  <2>13. q = Renamed(x, refs, a.got)
    BY <2>11, <2>12
  <2>14. Ok(x)
    <3>1. q.err = x.err
      BY <2>13 DEF Renamed
    <3>. QED BY <3>1 DEF Ok
  <2>15. /\ DOMAIN a = Fields /\ a.got \in 0..(MaxSlots - 1) /\ a.use \in [0..(MaxSlots - 1) -> 0..MaxUse]
    <3>1. DOMAIN a = Fields
      BY <1>n, <2>6 DEF SameOperands, Frame
    <3>2. 1 \in 0..MaxUse
      BY Limits
    <3>. QED BY <1>n, <2>6, <3>1, <3>2, SMTT(30)
  <2>16. Counted(a, n, x)
    BY <2>4, <2>6, <2>11, <2>12, <2>14, <2>15, MoreSteps
  <2>17. /\ SameOperands(a, x) /\ x.code = a.code /\ x.got = a.got /\ x.maxStackSlots = a.maxStackSlots
         /\ x.use \in [0..(MaxSlots - 1) -> 0..MaxUse]
         /\ \A y \in 0..(MaxSlots - 1) : x.use[y] = IF y = a.got THEN a.use[y] + n ELSE a.use[y]
    BY <2>16 DEF Counted
  <2>18. /\ Frame(p, x) /\ x.stack = p.stack /\ x.reg = p.reg /\ x.maxConst = p.maxConst /\ x.err = p.err
         /\ DOMAIN x = Fields
    <3>1. Frame(p, a) /\ Frame(a, x)
      BY <2>6, <2>17 DEF SameOperands
    <3>2. Frame(p, x)
      BY <1>n, <3>1, FrameTransitive
    <3>. QED BY <1>n, <2>6, <2>17, <3>2 DEF SameOperands, Frame
  <2>19. /\ q.stack = [i \in DOMAIN p.stack |-> IF i \in refs THEN [p.stack[i] EXCEPT !.slot = a.got] ELSE p.stack[i]]
         /\ q.use = x.use /\ q.reg = p.reg /\ q.maxConst = p.maxConst /\ q.err = p.err /\ q.code = p.code
         /\ q.got = a.got /\ q.maxStackSlots = a.maxStackSlots /\ Frame(x, q)
    <3>1. q.stack = [i \in DOMAIN x.stack |-> IF i \in refs THEN [x.stack[i] EXCEPT !.slot = a.got] ELSE x.stack[i]]
      BY <2>13, <2>18 DEF Renamed, Fields
    <3>2. /\ q.use = x.use /\ q.reg = x.reg /\ q.maxConst = x.maxConst /\ q.err = x.err /\ q.code = x.code
          /\ q.got = x.got /\ q.maxStackSlots = x.maxStackSlots
      BY <2>13 DEF Renamed
    <3>3. Frame(x, q)
      BY <2>6, <2>13, <2>17 DEF Renamed, Frame
    <3>. QED BY <2>6, <2>17, <2>18, <3>1, <3>2, <3>3
  <2>20. Moves(p, refs, a.got, w, q)
    <3>1. Frame(p, q)
      BY <1>n, <2>18, <2>19, FrameTransitive
    <3>2. a.got \in Locations
      BY <2>6, Limits
    <3>3. ASSUME NEW i \in 1..Len(p.stack)
          PROVE  [p.stack[i] EXCEPT !.slot = a.got] = [slot |-> a.got, type |-> p.stack[i].type]
                 /\ [slot |-> a.got, type |-> p.stack[i].type] \in Entries /\ p.stack[i] \in Entries
      <4>1. p.stack[i] \in Entries
        BY <1>n, EntryIs
      <4>. QED BY <3>2, <4>1 DEF Entries
    <3>4. DOMAIN p.stack = 1..Len(p.stack)
      BY <1>n
    <3>5. /\ q.stack \in Seq(Entries) /\ Len(q.stack) = Len(p.stack)
          /\ \A j \in 1..Len(p.stack) : q.stack[j] = IF j \in refs THEN [slot |-> a.got, type |-> p.stack[j].type] ELSE p.stack[j]
      <4>1. q.stack = [i \in 1..Len(p.stack) |-> IF i \in refs THEN [slot |-> a.got, type |-> p.stack[i].type] ELSE p.stack[i]]
        BY <2>19, <3>3, <3>4
      <4>2. q.stack \in [1..Len(p.stack) -> Entries]
        BY <3>3, <4>1
      <4>3. Len(p.stack) \in Nat
        BY <1>n
      <4>4. q.stack \in Seq(Entries) /\ Len(q.stack) = Len(p.stack)
        BY <4>2, <4>3, SeqDef, LenProperties
      <4>. QED BY <4>1, <4>4
    <3>6. ASSUME NEW y \in 0..(MaxSlots - 1)
          PROVE  q.use[y] = IF y \in a.got..(a.got + w - 1) THEN Cardinality(refs) ELSE p.use[y]
      <4>1. q.use[y] = IF y = a.got THEN a.use[y] + n ELSE a.use[y]
        BY <2>17, <2>19
      <4>2. a.got \in a.got..(a.got + w - 1)
        BY <2>6
      <4>3. CASE y = a.got
        <5>1. q.use[y] = 1 + n
          BY <2>6, <4>1, <4>2, <4>3
        <5>. QED BY <2>8, <2>10, <4>2, <4>3, <5>1
      <4>4. CASE y # a.got /\ y \in a.got..(a.got + w - 1)
        <5>1. w = 2
          BY <2>6, <4>4
        <5>2. refs = {least}
          BY <1>w, <2>1, <5>1
        <5>3. Cardinality(refs) = 1
          BY <5>2, FS_Singleton
        <5>. QED BY <2>6, <4>1, <4>4, <5>3
      <4>5. CASE y \notin a.got..(a.got + w - 1)
        BY <2>6, <4>1, <4>2, <4>5
      <4>. QED BY <4>3, <4>4, <4>5
    <3>7. ASSUME NEW r \in Registers  PROVE q.reg[r] = IF \E i \in refs : p.stack[i].slot = r THEN 0 ELSE p.reg[r]
      <4>1. r # local
        BY <1>n, Limits
      <4>. QED BY <1>3, <2>19, <4>1
    <3>8. a.got < q.maxStackSlots
      BY <2>6, <2>19
    <3>9. q.use \in [0..(MaxSlots - 1) -> 0..MaxUse] /\ q.reg \in [Registers -> Nat] /\ q.maxConst = p.maxConst /\ q.err = p.err
      BY <1>n, <2>17, <2>19
    <3>. QED BY <3>1, <3>5, <3>6, <3>7, <3>8, <3>9 DEF Moves
  <2>21. CodeFits(q.code, q.maxStackSlots, T)
    <3>1. p.maxStackSlots <= a.maxStackSlots
      BY <2>6 DEF SameOperands, Frame
    <3>. QED BY <1>n, <2>6, <2>19, <3>1, SoundCode, CodeFitsMore
  <2>22. Sound(q, p.blocks, B, T, {})
    <3>1. a.got \in Nat /\ p.firstDynamic <= a.got /\ a.got + w <= MaxSlots /\ \A s2 \in a.got..(a.got + w - 1) : p.use[s2] = 0
      BY <2>6
    <3>. QED BY <1>3, <2>20, <2>21, <3>1, MovesSound
  <2>23. Keeps(p, q)
    <3>1. \A i \in refs : ~(i <= p.numLocals)
      <4>1. \A i \in refs : i \in Nat /\ i > p.numLocals
        BY <1>n, <1>3
      <4>. QED BY <1>n, <4>1
    <3>. QED BY <2>20, <3>1, MovesKeeps
  <2>24. a.got < MaxSlots /\ a.got < q.maxStackSlots
    BY <1>n, <2>6, <2>19
  <2>25. Shares(p, q)
    <3>1. q.blocks = p.blocks /\ Len(q.stack) = Len(p.stack)
      BY <2>20 DEF Moves, Frame
    <3>2. ASSUME NEW j \in 1..Len(p.stack)
          PROVE  q.stack[j].type = p.stack[j].type /\ (q.stack[j] = p.stack[j] \/ q.stack[j].slot >= p.firstDynamic)
      <4>1. q.stack[j] = IF j \in refs THEN [slot |-> a.got, type |-> p.stack[j].type] ELSE p.stack[j]
        BY <2>20 DEF Moves
      <4>. QED BY <2>6, <4>1
    <3>. QED BY <3>1, <3>2, SharesLess
  <2>. QED BY <2>6, <2>19, <2>22, <2>23, <2>24, <2>25 DEF Found
<1>. QED BY <1>4, <1>5

LEMMA FindErrs ==
  ASSUME NEW p, ~Ok(p), NEW local
  PROVE  ~Ok(FindReferencedLocal(p, local))
<1>1. FindReferencedLocal(p, local) = [p EXCEPT !.got = local]
  BY FindIs DEF Shared
<1>2. [p EXCEPT !.got = local].err = p.err
  OBVIOUS
<1>. QED BY <1>1, <1>2 DEF Ok

LEMMA SetLocalSound ==
  ASSUME NEW p, NEW B, Sound(p, p.blocks, B, {}, {}), NEW slot \in Nat, slot < p.firstConst, ~SharesWide(p, slot),
         NEW tee \in BOOLEAN, NEW q, q = Assigned(p, slot, tee), Ok(q)
  PROVE  Sound(q, p.blocks, B, {}, {}) /\ Frame(p, q)
<1>n. /\ p.firstConst \in Nat /\ p.firstDynamic \in Nat /\ p.maxConst \in Nat /\ p.maxStackSlots \in Nat
      /\ p.firstConst <= p.maxConst /\ p.maxConst <= p.firstDynamic /\ p.firstDynamic <= p.maxStackSlots
  BY SoundNumbers
<1>1. PICK f : f = FindReferencedLocal(p, slot)
  OBVIOUS
<1>2. PICK e : e = IF f.got = slot THEN Move(slot, FromTop(f, 0).slot, FromTop(f, 0).type)
                   ELSE [op |-> "pres", dst |-> slot, src |-> FromTop(f, 0).slot,
                         preserve |-> f.got, type |-> FromTop(f, 0).type]
  OBVIOUS
<1>3. PICK v : v = Emit(f, e)
  OBVIOUS
<1>4. q = IF Ok(f) THEN (IF tee THEN v ELSE Pop(v)) ELSE f
  BY <1>1, <1>2, <1>3 DEF Assigned, Then, CopyStackTopToSlot
<1>5. Ok(f)
  BY <1>4
<1>6. Sound(f, p.blocks, B, {}, {}) /\ Found(p, slot, f)
  BY <1>1, <1>5, FindSound
<1>7. PlacesOf(e) = {slot}
  <2>1. CASE f.got = slot
    BY <1>2, <2>1 DEF PlacesOf, Move
  <2>2. CASE f.got # slot
    BY <1>2, <2>2 DEF PlacesOf
  <2>. QED BY <2>1, <2>2
<1>8. Frame(p, f) /\ f.maxStackSlots \in Nat /\ f.maxStackSlots >= p.maxStackSlots
  BY <1>6 DEF Found, Keeps, Frame
<1>9. Fits(e, f.maxStackSlots, {})
  <2>1. slot \in 0..(f.maxStackSlots - 1)
    BY <1>n, <1>8
  <2>. QED BY <1>7, <2>1 DEF Fits
<1>10. Sound(v, p.blocks, B, {}, {}) /\ Frame(f, v)
  BY <1>3, <1>6, <1>9, EmitSound DEF Adds, SameOperands
<1>11. Frame(p, v) /\ v.blocks = p.blocks
  BY <1>n, <1>8, <1>10, FrameTransitive DEF Frame
<1>12. CASE tee
  BY <1>4, <1>5, <1>10, <1>11, <1>12
<1>13. CASE ~tee
  <2>1. q = Pop(v)
    BY <1>4, <1>5, <1>13
  <2>2. Block(v).base = Base(p.blocks)
    BY <1>11 DEF Block, Base
  <2>3. Sound(q, p.blocks, B, {}, {}) /\ Dropped(v, p.blocks, 1, q)
    BY <1>10, <2>1, <2>2, PopSound
  <2>. QED BY <1>n, <1>11, <2>3, FrameTransitive DEF Dropped
<1>. QED BY <1>12, <1>13

\* A local is copied away from the operands that share its slot.
LEMMA KeepSound ==
  ASSUME NEW p, NEW B, NEW T, Sound(p, p.blocks, B, T, {}), NEW i \in 1..p.numLocals, ~SharesWide(p, p.stack[i].slot),
         NEW q, q = KeepLocal(p, i), Ok(q)
  PROVE  Sound(q, p.blocks, B, T, {}) /\ Keeps(p, q) /\ Shares(p, q)
<1>n. /\ p.maxStackSlots \in Nat /\ p.stack \in Seq(Entries) /\ p.numLocals \in Nat /\ Len(p.stack) \in Nat
      /\ p.numLocals <= Base(p.blocks) /\ Base(p.blocks) <= Len(p.stack) /\ Base(p.blocks) \in Nat
  BY SoundNumbers
<1>0. i \in 1..Len(p.stack)
  BY <1>n
<1>1. PICK s \in Nat : s = p.stack[i].slot /\ s < p.firstConst
  <2>1. p.stack[i].slot \in Nat
    BY <1>n, <1>0, EntryIs
  <2>2. EntryFits(p, p.blocks, i, p.stack[i])
    BY <1>0, SoundParts DEF Placed
  <2>3. i <= p.numLocals
    BY <1>n
  <2>. QED BY <2>1, <2>2, <2>3 DEF EntryFits
<1>2. PICK f : f = FindReferencedLocal(p, s)
  OBVIOUS
<1>3. PICK e : e = Move(f.got, s, p.stack[i].type)
  OBVIOUS
<1>4. q = IF Ok(f) THEN (IF f.got # s THEN Emit(f, e) ELSE f) ELSE f
  BY <1>1, <1>2, <1>3 DEF KeepLocal, Then
<1>5. Ok(f)
  BY <1>4
<1>6. Sound(f, p.blocks, B, T, {}) /\ Found(p, s, f)
  BY <1>1, <1>2, <1>5, FindSound
<1>7. Keeps(p, f) /\ f.got \in Nat /\ f.got < f.maxStackSlots /\ f.maxStackSlots \in Nat /\ Shares(p, f)
  BY <1>6, SoundNumbers DEF Found
<1>8. CASE f.got = s
  BY <1>4, <1>5, <1>6, <1>7, <1>8
<1>9. CASE f.got # s
  <2>1. q = Emit(f, e)
    BY <1>4, <1>5, <1>9
  <2>2. Fits(e, f.maxStackSlots, T)
    <3>1. PlacesOf(e) = {f.got}
      BY <1>3 DEF PlacesOf, Move
    <3>2. f.got \in 0..(f.maxStackSlots - 1)
      BY <1>7
    <3>. QED BY <3>1, <3>2 DEF Fits
  <2>3. Sound(q, p.blocks, B, T, {}) /\ Adds(f, q)
    BY <1>6, <2>1, <2>2, EmitSound
  <2>4. Keeps(f, q)
    BY <2>3, AddsKeeps DEF Adds
  <2>5. Shares(p, q)
    <3>1. q.stack = f.stack /\ q.blocks = f.blocks
      BY <2>3 DEF Adds, SameOperands, Frame
    <3>. QED BY <1>7, <3>1, SharesSame DEF Shares
  <2>. QED BY <1>n, <1>7, <2>3, <2>4, <2>5, KeepsTransitive
<1>. QED BY <1>8, <1>9

LEMMA KeepErrs ==
  ASSUME NEW p, ~Ok(p), NEW i
  PROVE  ~Ok(KeepLocal(p, i))
<1>1. PICK f : f = FindReferencedLocal(p, p.stack[i].slot)
  OBVIOUS
<1>2. ~Ok(f)
  BY <1>1, FindErrs
<1>3. KeepLocal(p, i) = f
  BY <1>1, <1>2 DEF KeepLocal, Then
<1>. QED BY <1>2, <1>3

LEMMA KeptLocalsIs ==
  ASSUME NEW p
  PROVE  PreserveArgsAndLocals(p) = IF Len(p.stack) > p.numLocals THEN KeptLocals(p, [i \in 1..p.numLocals |-> i]) ELSE p
BY DEF PreserveArgsAndLocals, KeptLocals, KeepLocal, FoldLeft, MapThenFoldSet

LEMMA KeepSteps ==
  ASSUME NEW p, NEW n \in Nat, NEW q, DOMAIN q = 1..n
  PROVE  \E g : Steps(g, "keep", <<>>, p, q, n) /\ KeptLocals(p, q) = g[n]
<1>. DEFINE Body(h) == [s \in SUBSET (DOMAIN q) |-> IF s = {} THEN p ELSE KeepLocal(h[s \ {Max(s)}], q[Max(s)])]
<1>1. \A x, k : Do("keep", <<>>, x, k) = KeepLocal(x, k)
  BY DEF Do
<1>2. \A h : Body(h) = DoBody(h, "keep", <<>>, p, q)
  BY <1>1 DEF DoBody
<1>. HIDE DEF Body
<1>3. \E h : h = Body(h)
  BY <1>2, FoldExists DEF DoneBy
<1>4. PICK f : f = Body(f) /\ KeptLocals(p, q) = f[DOMAIN q]
  BY <1>3 DEF Body, KeptLocals, FoldLeft, MapThenFoldSet
<1>. QED BY <1>2, <1>4, FoldSteps DEF DoneBy

LEMMA PreserveLocalsSound ==
  ASSUME NEW p, NEW B, NEW T, Sound(p, p.blocks, B, T, {}),
         \A i \in 1..p.numLocals : ~SharesWide(p, p.stack[i].slot), NEW q, q = PreserveArgsAndLocals(p), Ok(q)
  PROVE  Sound(q, p.blocks, B, T, {}) /\ Keeps(p, q)
<1>n. p.numLocals \in Nat /\ p.maxStackSlots \in Nat
  BY SoundNumbers
<1>0. PICK n \in Nat : n = p.numLocals
  BY <1>n
<1>l. ASSUME NEW i \in 1..n
      PROVE  i \in 1..Len(p.stack) /\ p.stack[i].slot \in Nat /\ p.stack[i].slot < p.firstConst
  <2>n. /\ p.stack \in Seq(Entries) /\ Len(p.stack) \in Nat
        /\ n <= Base(p.blocks) /\ Base(p.blocks) <= Len(p.stack) /\ Base(p.blocks) \in Nat
    BY <1>0, SoundNumbers
  <2>0. i \in 1..Len(p.stack)
    BY <2>n
  <2>1. p.stack[i].slot \in Nat
    BY <2>n, <2>0, EntryIs
  <2>2. EntryFits(p, p.blocks, i, p.stack[i])
    BY <2>0, SoundParts DEF Placed
  <2>. QED BY <1>0, <2>0, <2>1, <2>2 DEF EntryFits
<1>s. PICK s : s = [i \in 1..n |-> i]
  OBVIOUS
<1>1. CASE q = p
  BY <1>n, <1>1, KeepsReflexive
<1>2. CASE q = KeptLocals(p, s)
  <2>1. PICK g : Steps(g, "keep", <<>>, p, s, n) /\ q = g[n]
    BY <1>2, <1>s, KeepSteps
  <2>2. g[0] = p /\ \A k \in 1..n : g[k] = KeepLocal(g[k - 1], k)
    BY <1>s, <2>1 DEF Steps, Do
  <2>. DEFINE S == {k \in 0..n : Ok(g[k]) => Sound(g[k], p.blocks, B, T, {}) /\ Keeps(p, g[k]) /\ Shares(p, g[k])}
  <2>3. 0 \in S
    BY <1>n, <2>2, KeepsReflexive DEF Shares
  <2>4. ASSUME NEW k \in 1..n, k - 1 \in S  PROVE k \in S
    <3>. SUFFICES ASSUME Ok(g[k]) PROVE Sound(g[k], p.blocks, B, T, {}) /\ Keeps(p, g[k]) /\ Shares(p, g[k])
      OBVIOUS
    <3>1. g[k] = KeepLocal(g[k - 1], k)
      BY <2>2
    <3>2. Ok(g[k - 1])
      BY <3>1, KeepErrs
    <3>3. Sound(g[k - 1], p.blocks, B, T, {}) /\ Keeps(p, g[k - 1]) /\ Shares(p, g[k - 1])
      BY <2>4, <3>2
    <3>4. g[k - 1].blocks = p.blocks /\ g[k - 1].numLocals = n /\ g[k - 1].firstConst = p.firstConst
      BY <1>0, <3>3 DEF Keeps, Frame
    <3>5. Sound(g[k - 1], g[k - 1].blocks, B, T, {}) /\ k \in 1..g[k - 1].numLocals
      BY <3>3, <3>4
    <3>7. ~SharesWide(g[k - 1], g[k - 1].stack[k].slot)
      <4>1. g[k - 1].stack[k] = p.stack[k] /\ k <= n
        BY <1>0, <1>l, <3>3 DEF Keeps
      <4>. QED BY <1>0, <1>l, <3>3, <4>1 DEF Shares
    <3>6. Sound(g[k], p.blocks, B, T, {}) /\ Keeps(g[k - 1], g[k]) /\ Shares(g[k - 1], g[k])
      <4>1. Sound(g[k], g[k - 1].blocks, B, T, {}) /\ Keeps(g[k - 1], g[k]) /\ Shares(g[k - 1], g[k])
        BY <3>1, <3>5, <3>7, KeepSound
      <4>. QED BY <3>4, <4>1
    <3>8. Shares(p, g[k])
      BY <3>3, <3>4, <3>6 DEF Shares
    <3>. QED BY <1>n, <3>3, <3>6, <3>8, KeepsTransitive
  <2>. HIDE DEF S
  <2>5. \A k \in 1..n : k - 1 \in S => k \in S
    BY <2>4
  <2>6. \A k \in 0..n : k \in S
    BY <2>3, <2>5, Upwards
  <2>. QED BY <2>1, <2>6 DEF S
<1>3. q = p \/ q = KeptLocals(p, s)
  BY <1>0, <1>s, KeptLocalsIs
<1>. QED BY <1>1, <1>2, <1>3

LEMMA PreserveLocalsErrs ==
  ASSUME NEW p, ~Ok(p), p.numLocals \in Nat
  PROVE  ~Ok(PreserveArgsAndLocals(p))
<1>0. PICK n \in Nat : n = p.numLocals
  OBVIOUS
<1>s. PICK s : s = [i \in 1..n |-> i]
  OBVIOUS
<1>1. PICK q : q = KeptLocals(p, s)
  OBVIOUS
<1>2. ~Ok(q)
  <2>1. PICK g : Steps(g, "keep", <<>>, p, s, n) /\ q = g[n]
    BY <1>1, <1>s, KeepSteps
  <2>2. g[0] = p /\ \A k \in 1..n : g[k] = KeepLocal(g[k - 1], k)
    BY <1>s, <2>1 DEF Steps, Do
  <2>. DEFINE S == {k \in 0..n : ~Ok(g[k])}
  <2>3. 0 \in S
    BY <2>2
  <2>4. \A k \in 1..n : k - 1 \in S => k \in S
    BY <2>2, KeepErrs
  <2>. HIDE DEF S
  <2>5. \A k \in 0..n : k \in S
    BY <2>3, <2>4, Upwards
  <2>. QED BY <2>1, <2>5 DEF S
<1>3. PreserveArgsAndLocals(p) = p \/ PreserveArgsAndLocals(p) = q
  BY <1>0, <1>1, <1>s, KeptLocalsIs
<1>. QED BY <1>2, <1>3

-----------------------------------------------------------------------------
(* Blocks: their results.                                                  *)

LEMMA PushBlockResultsIs ==
  ASSUME NEW p
  PROVE  PushBlockResults(p) = PushedResults(p, Block(p).results, [i \in DOMAIN Block(p).results |-> i])
BY DEF PushBlockResults, PushedResults, PushResult, FoldLeft, MapThenFoldSet

LEMMA ResultSteps ==
  ASSUME NEW p, NEW n \in Nat, NEW rets, NEW q, DOMAIN q = 1..n
  PROVE  \E g : Steps(g, "result", rets, p, q, n) /\ PushedResults(p, rets, q) = g[n]
<1>. DEFINE Body(h) == [s \in SUBSET (DOMAIN q) |-> IF s = {} THEN p ELSE PushResult(rets, h[s \ {Max(s)}], q[Max(s)])]
<1>1. \A x, k : Do("result", rets, x, k) = PushResult(rets, x, k)
  BY DEF Do
<1>2. \A h : Body(h) = DoBody(h, "result", rets, p, q)
  BY <1>1 DEF DoBody
<1>. HIDE DEF Body
<1>3. \E h : h = Body(h)
  BY <1>2, FoldExists DEF DoneBy
<1>4. PICK f : f = Body(f) /\ PushedResults(p, rets, q) = f[DOMAIN q]
  BY <1>3 DEF Body, PushedResults, FoldLeft, MapThenFoldSet
<1>. QED BY <1>2, <1>4, FoldSteps DEF DoneBy

LEMMA ResultedNone ==
  ASSUME NEW p, NEW bs, NEW B, NEW T, Sound(p, bs, B, T, {}), NEW rets
  PROVE  Resulted(p, rets, 0, p)
<1>1. Len(p.stack) \in Nat /\ p.maxStackSlots \in Nat
  BY SoundNumbers
<1>2. Frame(p, p)
  BY <1>1, FrameReflexive
<1>. QED BY <1>1, <1>2 DEF Resulted

LEMMA ResultedOne ==
  ASSUME NEW p, NEW bs, NEW B, NEW T, Sound(p, bs, B, T, {}), NEW rets \in Seq(Types), NEW k \in 1..Len(rets),
         p.reg[Fp0] = 0, NEW v, Sound(v, bs, B, T, {}), Resulted(p, rets, k - 1, v),
         NEW q, q = PushResult(rets, v, k), Ok(q)
  PROVE  Sound(q, bs, B, T, {}) /\ Resulted(p, rets, k, q)
<1>n. /\ Len(p.stack) \in Nat /\ Len(v.stack) \in Nat /\ v.stack \in Seq(Entries) /\ p.maxStackSlots \in Nat
      /\ p.firstDynamic \in Nat /\ p.firstDynamic < MaxSlots /\ v.reg \in [Registers -> Nat]
      /\ k \in Nat /\ Len(rets) \in Nat /\ MaxSlots \in Nat
  <2>1. /\ Len(p.stack) \in Nat /\ p.maxStackSlots \in Nat /\ p.firstDynamic \in Nat /\ p.firstDynamic < MaxSlots
    BY SoundNumbers
  <2>2. Len(v.stack) \in Nat /\ v.stack \in Seq(Entries) /\ v.reg \in [Registers -> Nat]
    BY SoundNumbers
  <2>3. Len(rets) \in Nat /\ MaxSlots \in Nat
    BY Limits
  <2>4. k \in Nat
    BY <2>3
  <2>. QED BY <2>1, <2>2, <2>3, <2>4
<1>1. /\ Frame(p, v) /\ v.maxConst = p.maxConst /\ v.err = p.err /\ v.code = p.code
      /\ Len(v.stack) = Len(p.stack) + (k - 1)
      /\ \A i \in 1..Len(p.stack) : v.stack[i] = p.stack[i]
      /\ \A i \in 1..(k - 1) : v.stack[Len(p.stack) + i].type = rets[i] /\ v.stack[Len(p.stack) + i].slot >= p.firstDynamic
      /\ v.reg = p.reg
  BY <1>n DEF Resulted
<1>2. PICK t \in Types : t = rets[k]
  OBVIOUS
<1>3. PICK a \in Nat, b \in Nat : a = Len(p.stack) /\ b = Len(v.stack) /\ b = a + (k - 1)
  BY <1>n, <1>1
<1>4. ASSUME NEW s \in Locations, s >= p.firstDynamic, q.stack = Append(v.stack, [slot |-> s, type |-> t]),
             Frame(v, q), q.maxConst = v.maxConst, q.err = v.err, q.code = v.code,
             \A r \in Registers : q.reg[r] = v.reg[r] \/ q.reg[r] = b + 1, k < Len(rets) => q.reg = v.reg
      PROVE  Resulted(p, rets, k, q)
  <2>1. [slot |-> s, type |-> t].type = t /\ [slot |-> s, type |-> t].slot = s
    OBVIOUS
  <2>2. PICK e \in Entries : e = [slot |-> s, type |-> t]
    BY TypesAre DEF Entries
  <2>3. /\ Len(q.stack) = b + 1 /\ q.stack[b + 1] = e /\ \A i \in 1..b : q.stack[i] = v.stack[i]
    <3>1. q.stack = Append(v.stack, e) /\ v.stack \in Seq(Entries)
      BY <1>4, <1>n, <2>2
    <3>2. /\ Len(Append(v.stack, e)) = Len(v.stack) + 1 /\ Append(v.stack, e)[Len(v.stack) + 1] = e
          /\ \A i \in 1..Len(v.stack) : Append(v.stack, e)[i] = v.stack[i]
      BY <3>1, AppendProperties
    <3>. QED BY <1>3, <3>1, <3>2
  <2>4. Len(q.stack) = a + k /\ b + 1 = a + k
    BY <1>3, <1>n, <2>3
  <2>5. ASSUME NEW i \in 1..a  PROVE q.stack[i] = p.stack[i]
    <3>1. i \in 1..b
      BY <1>3, <1>n
    <3>. QED BY <1>1, <1>3, <2>3, <3>1
  <2>6. ASSUME NEW i \in 1..k  PROVE q.stack[a + i].type = rets[i] /\ q.stack[a + i].slot >= p.firstDynamic
    <3>1. CASE i = k
      BY <1>2, <1>4, <2>1, <2>2, <2>3, <2>4, <3>1
    <3>2. CASE i # k
      <4>1. i \in 1..(k - 1) /\ a + i \in 1..b
        BY <1>3, <1>n, <3>2
      <4>. QED BY <1>1, <1>3, <2>3, <4>1
    <3>. QED BY <3>1, <3>2
  <2>7. \A r \in Registers : q.reg[r] = p.reg[r] \/ q.reg[r] > a
    <3>1. b + 1 > a
      BY <1>3, <1>n
    <3>. QED BY <1>1, <1>4, <3>1
  <2>8. Frame(p, q)
    BY <1>n, <1>1, <1>4, FrameTransitive
  <2>. QED BY <1>1, <1>3, <1>4, <2>4, <2>5, <2>6, <2>7, <2>8 DEF Resulted
<1>5. CASE q = PushRegister(v, t) /\ k = Len(rets) /\ IsFpType(t)
  <2>1. RegisterOf(t) = Fp0 /\ Fp0 \in Registers /\ IsRegister(Fp0) /\ Fp0 \in Locations /\ Fp0 >= p.firstDynamic
    BY <1>n, <1>5, Limits DEF RegisterOf, Fp0
  <2>2. t \in EntryTypes /\ t # "none"
    BY TypesAre
  <2>3. Sound(q, bs, B, T, {}) /\ Pushed(v, q, Fp0, t)
    BY <1>1, <1>5, <2>1, <2>2, PushRegisterSound
  <2>4. /\ Frame(v, q) /\ q.maxConst = v.maxConst /\ q.err = v.err /\ q.code = v.code
        /\ q.stack = Append(v.stack, [slot |-> Fp0, type |-> t])
        /\ q.reg = [v.reg EXCEPT ![Fp0] = b + 1]
    BY <1>3, <2>1, <2>3 DEF Pushed
  <2>5. \A r \in Registers : q.reg[r] = v.reg[r] \/ q.reg[r] = b + 1
    BY <1>n, <2>4
  <2>6. ~(k < Len(rets))
    BY <1>n, <1>5
  <2>. QED BY <1>4, <2>1, <2>3, <2>4, <2>5, <2>6
<1>6. CASE q = PushAllocatedSlot(v, t)
  <2>1. Sound(q, bs, B, T, {}) /\ \E s : Grown(v, q, s, t)
    BY <1>6, PushAllocatedSound
  <2>2. PICK s : Grown(v, q, s, t)
    BY <2>1
  <2>3. /\ Frame(v, q) /\ q.maxConst = v.maxConst /\ q.err = v.err /\ q.code = v.code
        /\ q.stack = Append(v.stack, [slot |-> s, type |-> t]) /\ s \in Nat /\ s >= p.firstDynamic
        /\ q.reg = v.reg /\ s + NumSlots(t) <= MaxSlots
    BY <1>1, <2>2 DEF Grown, Frame
  <2>4. s \in Locations
    BY <1>n, <2>3, SlotWidth, Limits
  <2>. QED BY <1>4, <2>1, <2>3, <2>4
<1>7. \/ q = PushRegister(v, t) /\ k = Len(rets) /\ IsFpType(t)
      \/ q = PushAllocatedSlot(v, t)
  BY <1>2 DEF PushResult
<1>. QED BY <1>5, <1>6, <1>7

LEMMA PushAllocatedErrs ==
  ASSUME NEW p, ~Ok(p), NEW t
  PROVE  ~Ok(PushAllocatedSlot(p, t))
<1>1. PICK a : a = AllocateSlots(p, t)
  OBVIOUS
<1>2. ~Ok(a)
  BY <1>1, AllocateErrs DEF AllocateSlots
<1>3. PushAllocatedSlot(p, t) = a
  BY <1>1, <1>2 DEF PushAllocatedSlot, Then
<1>. QED BY <1>2, <1>3

LEMMA PushResultErrs ==
  ASSUME NEW p, ~Ok(p), NEW rets, NEW k
  PROVE  ~Ok(PushResult(rets, p, k))
BY PushAllocatedErrs, ErrorsStay DEF PushResult, PushRegister

LEMMA ResultsSound ==
  ASSUME NEW p, NEW bs, NEW B, NEW T, Sound(p, bs, B, T, {}), NEW rets \in Seq(Types), Block(p).results = rets,
         p.reg[Fp0] = 0, NEW q, q = PushBlockResults(p), Ok(q)
  PROVE  Sound(q, bs, B, T, {}) /\ Resulted(p, rets, Len(rets), q)
<1>0. PICK n \in Nat : n = Len(rets)
  OBVIOUS
<1>1. PICK s : s = [i \in 1..n |-> i]
  OBVIOUS
<1>2. DOMAIN rets = 1..n /\ DOMAIN s = 1..n
  BY <1>0, <1>1
<1>3. q = PushedResults(p, rets, s)
  BY <1>1, <1>2, PushBlockResultsIs
<1>4. PICK g : Steps(g, "result", rets, p, s, n) /\ q = g[n]
  BY <1>2, <1>3, ResultSteps
<1>5. g[0] = p /\ \A k \in 1..n : g[k] = PushResult(rets, g[k - 1], k)
  BY <1>1, <1>4 DEF Steps, Do
<1>. DEFINE S == {k \in 0..n : Ok(g[k]) => Sound(g[k], bs, B, T, {}) /\ Resulted(p, rets, k, g[k])}
<1>6. 0 \in S
  BY <1>5, ResultedNone
<1>7. ASSUME NEW k \in 1..n, k - 1 \in S  PROVE k \in S
  <2>. SUFFICES ASSUME Ok(g[k]) PROVE Sound(g[k], bs, B, T, {}) /\ Resulted(p, rets, k, g[k])
    OBVIOUS
  <2>1. g[k] = PushResult(rets, g[k - 1], k)
    BY <1>5
  <2>2. Ok(g[k - 1])
    BY <2>1, PushResultErrs
  <2>3. Sound(g[k - 1], bs, B, T, {}) /\ Resulted(p, rets, k - 1, g[k - 1])
    BY <1>7, <2>2
  <2>4. k \in 1..Len(rets)
    BY <1>0
  <2>. QED BY <2>1, <2>3, <2>4, ResultedOne
<1>. HIDE DEF S
<1>8. \A k \in 1..n : k - 1 \in S => k \in S
  BY <1>7
<1>9. \A k \in 0..n : k \in S
  BY <1>6, <1>8, Upwards
<1>. QED BY <1>0, <1>4, <1>9 DEF S

-----------------------------------------------------------------------------
(* Blocks are entered.                                                     *)

Entered(p, opcode, d, full) ==
  IF ~Ok(full) THEN Throw(p, full.err)
  ELSE IF opcode = "loop" THEN [full EXCEPT !.blocks[d].head = full.stack]
  ELSE full

LEMMA EnterIs ==
  ASSUME NEW p, NEW bt, NEW opcode
  PROVE  EnterBlock(p, bt, opcode)
         = LET d == Len(Within(p, InnerScope(p, bt, opcode)).blocks)
           IN  Entered(p, opcode, d, PushedParams(Opened(p, bt, opcode), bt, d, [i \in 1..Len(bt.params) |-> i]))
BY DEF EnterBlock, Opened, Entered, InnerScope, Within, Opening, PoppedParams, PushParameter, PushedParams, FoldLeft, MapThenFoldSet

LEMMA NoParamsPopped ==
  ASSUME NEW p, NEW bt, NEW q, DOMAIN q = {}
  PROVE  PoppedParams(p, bt, q) = p
<1>1. PICK n : n = Len(bt.params)
  OBVIOUS
<1>2. PICK f : f = [s \in SUBSET (DOMAIN q) |-> p]
  OBVIOUS
<1>3. f = [s \in SUBSET (DOMAIN q) |-> IF s = {} THEN p ELSE PopType(f[s \ {Max(s)}], bt.params[Len(bt.params) - q[Max(s)] + 1])]
  BY <1>2
<1>4. PICK h : /\ h = [s \in SUBSET (DOMAIN q) |-> IF s = {} THEN p ELSE PopType(h[s \ {Max(s)}], bt.params[Len(bt.params) - q[Max(s)] + 1])]
               /\ PoppedParams(p, bt, q) = h[DOMAIN q]
  BY <1>3 DEF PoppedParams, FoldLeft, MapThenFoldSet
<1>. QED BY <1>4

LEMMA NoParamsPushed ==
  ASSUME NEW p, NEW bt, NEW d, NEW q, DOMAIN q = {}
  PROVE  PushedParams(p, bt, d, q) = p
<1>2. PICK f : f = [s \in SUBSET (DOMAIN q) |-> p]
  OBVIOUS
<1>3. f = [s \in SUBSET (DOMAIN q) |-> IF s = {} THEN p ELSE PushParameter(f[s \ {Max(s)}], bt, d, q[Max(s)])]
  BY <1>2
<1>4. PICK h : /\ h = [s \in SUBSET (DOMAIN q) |-> IF s = {} THEN p ELSE PushParameter(h[s \ {Max(s)}], bt, d, q[Max(s)])]
               /\ PushedParams(p, bt, d, q) = h[DOMAIN q]
  BY <1>3 DEF PushedParams, FoldLeft, MapThenFoldSet
<1>. QED BY <1>4

LEMMA ElsewhereSound ==
  ASSUME NEW p, NEW bs, NEW B, NEW T, NEW E, Sound(p, bs, B, T, E), NEW q, Elsewhere(p, q)
  PROVE  Sound(q, bs, B, T, E)
<1>1. /\ Shape(p) /\ Framed(p, bs) /\ Placed(p, bs) /\ B \subseteq 1..Base(bs)
      /\ Counts(p, Live(p, bs, B), E) /\ Owners(p, Live(p, bs, B)) /\ InBlock(p, bs)
      /\ Records(p, Live(p, bs, B)) /\ Codes(p, T)
  BY SoundParts
<1>2. /\ DOMAIN q = DOMAIN p /\ q.stack = p.stack /\ q.use = p.use /\ q.reg = p.reg /\ q.numLocals = p.numLocals
      /\ q.firstConst = p.firstConst /\ q.maxConst = p.maxConst /\ q.firstDynamic = p.firstDynamic
      /\ q.maxStackSlots = p.maxStackSlots /\ q.over = p.over /\ q.code = p.code /\ q.ways = p.ways /\ q.err = p.err
  BY DEF Elsewhere
<1>3. Live(q, bs, B) = Live(p, bs, B)
  BY <1>2 DEF Live
<1>4. Shape(q) /\ Framed(q, bs)
  BY <1>1, <1>2 DEF Shape, Framed
<1>5. Placed(q, bs)
  BY <1>1, <1>2 DEF Placed, EntryFits
<1>6. Counts(q, Live(q, bs, B), E)
  BY <1>1, <1>2, <1>3 DEF Counts, RefsTo, Dynamic
<1>7. Owners(q, Live(q, bs, B)) /\ InBlock(q, bs) /\ Records(q, Live(q, bs, B))
  BY <1>1, <1>2, <1>3 DEF Owners, InBlock, Records
<1>8. Codes(q, T)
  BY <1>1, <1>2 DEF Codes
<1>. QED BY <1>1, <1>4, <1>5, <1>6, <1>7, <1>8 DEF Sound

LEMMA AboveSound ==
  ASSUME NEW y, NEW bs, NEW B, NEW T, Sound(y, bs, B, T, {}), NEW found, Sound(found, bs, B, T, {}),
         NEW bs2, Above(y, bs, found, bs2), NEW q, Elsewhere([y EXCEPT !.stack = found.stack], q)
  PROVE  Sound(q, bs2, Live(y, bs, B), T, {})
<1>n. /\ Len(y.stack) \in Nat /\ Base(bs) \in Nat /\ Base(bs) <= Len(y.stack) /\ DOMAIN y = Fields
      /\ y.stack \in Seq(Entries) /\ y.numLocals \in Nat /\ y.numLocals <= Base(bs)
      /\ found.stack \in Seq(Entries) /\ Len(found.stack) \in Nat
  <2>1. found.stack \in Seq(Entries) /\ Len(found.stack) \in Nat
    BY SoundNumbers
  <2>. QED BY <2>1, SoundNumbers
<1>a. /\ bs2 \in Seq(Scopes) /\ Len(bs2) = Len(bs) + 1 /\ \A d \in 1..Len(bs) : bs2[d] = bs[d]
      /\ bs2[Len(bs2)].base = Len(found.stack)
      /\ Len(y.stack) <= Len(found.stack)
      /\ \A i \in 1..Len(y.stack) : found.stack[i] = y.stack[i]
      /\ \A i \in 1..Len(found.stack) : i <= Len(y.stack) \/ found.stack[i].slot >= y.firstDynamic
      /\ \A r \in Registers : y.reg[r] = 0
      /\ y.firstDynamic = found.firstDynamic /\ y.firstConst = found.firstConst /\ y.numLocals = found.numLocals
      /\ y.maxStackSlots = found.maxStackSlots
  BY DEF Above
<1>s. /\ DOMAIN q = DOMAIN y /\ q.stack = found.stack /\ q.use = y.use /\ q.reg = y.reg /\ q.numLocals = y.numLocals
      /\ q.firstConst = y.firstConst /\ q.maxConst = y.maxConst /\ q.firstDynamic = y.firstDynamic
      /\ q.maxStackSlots = y.maxStackSlots /\ q.over = y.over /\ q.code = y.code /\ q.ways = y.ways /\ q.err = y.err
  BY <1>n DEF Elsewhere, Fields
<1>0. /\ Shape(y) /\ Framed(y, bs) /\ B \subseteq 1..Base(bs)
      /\ Counts(y, Live(y, bs, B), {}) /\ Owners(y, Live(y, bs, B))
      /\ Records(y, Live(y, bs, B)) /\ Codes(y, T) /\ Placed(found, bs)
  <2>1. Placed(found, bs)
    BY SoundParts
  <2>. QED BY <2>1, SoundParts
<1>b. /\ bs \in Seq(Scopes) /\ Len(bs) \in Nat /\ Len(bs) > 0 /\ bs[1].opcode = "function"
      /\ Base(bs2) = Len(found.stack)
      /\ \A d \in 1..Len(bs) : y.numLocals <= bs[d].base /\ bs[d].base <= Base(bs) /\ bs[d].base \in Nat
      /\ IoSlots * Len(bs[1].results) <= y.firstConst
  <2>1. /\ bs \in Seq(Scopes) /\ Len(bs) > 0 /\ bs[1].opcode = "function"
        /\ \A d \in 1..Len(bs) : y.numLocals <= bs[d].base /\ bs[d].base <= Base(bs)
        /\ IoSlots * Len(bs[1].results) <= y.firstConst
    BY <1>0 DEF Framed
  <2>2. Base(bs2) = Len(found.stack)
    BY <1>a DEF Base, Last
  <2>3. ASSUME NEW d \in 1..Len(bs)  PROVE bs[d].base \in Nat
    <3>1. bs[d] \in Scopes
      BY <2>1
    <3>. QED BY <3>1 DEF Scopes
  <2>. QED BY <2>1, <2>2, <2>3
<1>l. Live(q, bs2, Live(y, bs, B)) = Live(y, bs, B) /\ Live(y, bs, B) \subseteq 1..Len(y.stack)
  <2>1. Live(y, bs, B) \subseteq 1..Len(y.stack)
    BY RefsFinite
  <2>2. (Base(bs2) + 1)..Len(q.stack) = {}
    BY <1>b, <1>n, <1>s
  <2>. QED BY <2>1, <2>2 DEF Live
<1>1. Shape(q)
  BY <1>0, <1>n, <1>s DEF Shape
<1>2. Framed(q, bs2)
  <2>1. 1 \in 1..Len(bs) /\ Len(bs2) \in Nat /\ Len(bs2) > 0
    BY <1>a, <1>b
  <2>2. bs2[1] = bs[1]
    BY <1>a, <2>1
  <2>3. ASSUME NEW d \in 1..Len(bs2)  PROVE q.numLocals <= bs2[d].base /\ bs2[d].base <= Base(bs2)
    <3>1. CASE d \in 1..Len(bs)
      <4>1. bs2[d] = bs[d] /\ y.numLocals <= bs[d].base /\ bs[d].base <= Base(bs) /\ bs[d].base \in Nat
        BY <1>a, <1>b, <3>1
      <4>. QED BY <1>a, <1>b, <1>n, <1>s, <4>1
    <3>2. CASE d \notin 1..Len(bs)
      <4>1. d = Len(bs2)
        BY <1>a, <1>b, <3>2
      <4>2. y.numLocals <= Len(found.stack)
        BY <1>n, <1>a
      <4>. QED BY <1>a, <1>b, <1>n, <1>s, <4>1, <4>2
    <3>. QED BY <3>1, <3>2
  <2>4. Base(bs2) \in Nat /\ Base(bs2) <= Len(q.stack)
    BY <1>b, <1>n, <1>s
  <2>5. IoSlots * Len(bs2[1].results) <= q.firstConst /\ bs2[1].opcode = "function"
    BY <1>b, <1>s, <2>2
  <2>. QED BY <1>a, <2>1, <2>3, <2>4, <2>5 DEF Framed
<1>3. Placed(q, bs2)
  <2>1. ASSUME NEW i \in 1..Len(q.stack)  PROVE EntryFits(q, bs2, i, q.stack[i])
    <3>1. EntryFits(found, bs, i, found.stack[i])
      BY <1>0, <1>s DEF Placed
    <3>2. (\E d \in 1..Len(bs) : i = bs[d].base + 1) => \E d \in 1..Len(bs2) : i = bs2[d].base + 1
      <4>1. ASSUME NEW d \in 1..Len(bs)  PROVE d \in 1..Len(bs2) /\ bs2[d].base = bs[d].base
        BY <1>a, <1>b
      <4>. QED BY <4>1
    <3>. QED BY <1>a, <1>s, <3>1, <3>2 DEF EntryFits
  <2>. QED BY <2>1 DEF Placed
<1>4. Live(y, bs, B) \subseteq 1..Base(bs2)
  <2>1. 1..Len(y.stack) \subseteq 1..Len(found.stack)
    BY <1>a, <1>n
  <2>. QED BY <1>b, <1>l, <2>1
<1>5. Counts(q, Live(y, bs, B), {})
  <2>1. ASSUME NEW s  PROVE RefsTo(q, Live(y, bs, B), s) = RefsTo(y, Live(y, bs, B), s)
    <3>1. \A i \in Live(y, bs, B) : q.stack[i] = y.stack[i]
      BY <1>a, <1>l, <1>s
    <3>. QED BY <3>1 DEF RefsTo
  <2>. QED BY <1>0, <1>s, <2>1 DEF Counts, Dynamic
<1>6. Owners(q, Live(y, bs, B)) /\ InBlock(q, bs2)
  <2>1. \A i \in Live(y, bs, B) : q.stack[i] = y.stack[i]
    BY <1>a, <1>l, <1>s
  <2>2. \A r \in Registers : q.reg[r] = 0
    BY <1>a, <1>s
  <2>. QED BY <1>0, <1>a, <1>s, <2>1, <2>2 DEF Owners, InBlock
<1>7. Records(q, Live(y, bs, B))
  <2>1. ASSUME NEW i \in 1..Len(q.stack)
        PROVE  i <= q.numLocals \/ i \in Live(y, bs, B) \/ q.stack[i].slot >= q.firstDynamic
    <3>1. CASE i <= Len(y.stack)
      <4>1. i \in 1..Len(y.stack)
        BY <1>n, <3>1
      <4>2. i <= y.numLocals \/ i \in Live(y, bs, B) \/ y.stack[i].slot >= y.firstDynamic
        BY <1>0, <4>1 DEF Records
      <4>. QED BY <1>a, <1>s, <4>1, <4>2
    <3>2. CASE ~(i <= Len(y.stack))
      BY <1>a, <1>s, <3>2
    <3>. QED BY <3>1, <3>2
  <2>. QED BY <2>1 DEF Records
<1>8. Codes(q, T)
  BY <1>0, <1>s DEF Codes
<1>. QED BY <1>1, <1>2, <1>3, <1>4, <1>5, <1>6, <1>7, <1>8, <1>l DEF Sound

LEMMA InnermostBlock ==
  ASSUME NEW p, NEW B, NEW T, NEW E, Sound(p, p.blocks, B, T, E)
  PROVE  /\ p.blocks \in Seq(Scopes) /\ Len(p.blocks) \in Nat /\ Len(p.blocks) > 0
         /\ Block(p) \in Scopes /\ Block(p).base = Base(p.blocks)
         /\ Block(p) = p.blocks[Len(p.blocks)] /\ Len(p.blocks) \in 1..Len(p.blocks)
<1>1. p.blocks \in Seq(Scopes) /\ Len(p.blocks) > 0
  BY SoundParts DEF Framed
<1>. QED BY <1>1 DEF Block, Base, Last

LEMMA OpeningIs ==
  ASSUME NEW found, NEW n, NEW d, NEW exit
  PROVE  OpenedAs(found, d, exit, PopN(found, n), Opening(found, n, d, exit))
<1>y. PICK y : y = PopN(found, n)
  OBVIOUS
<1>q. PICK q : q = Opening(found, n, d, exit)
  OBVIOUS
<1>1. PICK v : v = [y EXCEPT !.stack = found.stack]
  OBVIOUS
<1>2. PICK w : w = [v EXCEPT !.blocks[d].base = Len(found.stack)]
  OBVIOUS
<1>3. q = [w EXCEPT !.blocks[d].exit = exit]
  BY <1>1, <1>2, <1>y, <1>q DEF Opening
<1>4. q.err = w.err /\ w.err = v.err /\ v.err = y.err
  BY <1>1, <1>2, <1>3
<1>5. ASSUME DOMAIN y = Fields
      PROVE  /\ Elsewhere(v, q) /\ q.ways = y.ways /\ q.code = y.code /\ DOMAIN q = Fields
             /\ q.blocks = [[y.blocks EXCEPT ![d].base = Len(found.stack)] EXCEPT ![d].exit = exit]
  <2>1. DOMAIN v = Fields /\ v.blocks = y.blocks /\ v.ways = y.ways /\ v.code = y.code
    BY <1>1, <1>5
  <2>2. /\ Elsewhere(v, w) /\ DOMAIN w = Fields /\ w.ways = y.ways /\ w.code = y.code
        /\ w.blocks = [y.blocks EXCEPT ![d].base = Len(found.stack)]
    BY <1>2, <2>1 DEF Elsewhere, Fields
  <2>3. /\ Elsewhere(w, q) /\ DOMAIN q = Fields /\ q.ways = y.ways /\ q.code = y.code
        /\ q.blocks = [w.blocks EXCEPT ![d].exit = exit]
    BY <1>3, <2>2 DEF Elsewhere, Fields
  <2>4. Elsewhere(v, q)
    BY <2>2, <2>3 DEF Elsewhere
  <2>. QED BY <2>2, <2>3, <2>4
<1>6. OpenedAs(found, d, exit, y, q)
  BY <1>1, <1>4, <1>5 DEF OpenedAs
<1>. QED BY <1>6, <1>y, <1>q

\* The records of the results are on the stack, and nothing is theirs.
LEMMA OpeningSound ==
  ASSUME NEW p, NEW B, NEW T, Sound(p, p.blocks, B, T, {}), \A r \in Registers : p.reg[r] = 0,
         NEW scope \in Scopes, scope.base = Base(p.blocks), NEW q, Ok(q),
         q = Opening(PushBlockResults(Within(p, scope)), Len(scope.results), Len(p.blocks) + 1, Len(p.stack))
  PROVE  /\ Sound(q, q.blocks, Live(p, p.blocks, B), T, {})
         /\ q.blocks = Append(p.blocks, [scope EXCEPT !.base = Len(p.stack) + Len(scope.results), !.exit = Len(p.stack)])
         /\ q.ways = p.ways /\ q.code = p.code /\ DOMAIN q = Fields /\ q.maxStackSlots >= p.maxStackSlots
<1>n. /\ Len(p.stack) \in Nat /\ DOMAIN p = Fields /\ p.maxStackSlots \in Nat /\ p.stack \in Seq(Entries)
      /\ Base(p.blocks) \in Nat /\ Base(p.blocks) <= Len(p.stack)
  BY SoundNumbers
<1>b. p.blocks \in Seq(Scopes) /\ Len(p.blocks) \in Nat /\ Len(p.blocks) > 0
  BY InnermostBlock
<1>0. PICK d \in Nat : d = Len(p.blocks) + 1
  BY <1>b
<1>r. PICK rets \in Seq(Types) : rets = scope.results
  BY DEF Scopes
<1>k. PICK n \in Nat : n = Len(rets)
  OBVIOUS
<1>1. PICK v : v = Within(p, scope)
  OBVIOUS
<1>2. Elsewhere(p, v) /\ v.blocks = Append(p.blocks, scope)
  BY <1>n, <1>1 DEF Within, Elsewhere, Fields
<1>3. Sound(v, p.blocks, B, T, {}) /\ v.reg = p.reg /\ v.stack = p.stack /\ v.ways = p.ways /\ v.code = p.code
  BY <1>2, ElsewhereSound DEF Elsewhere
<1>4. /\ v.blocks \in Seq(Scopes) /\ Len(v.blocks) = d /\ v.blocks[d] = scope /\ Block(v) = scope
      /\ \A i \in 1..Len(p.blocks) : v.blocks[i] = p.blocks[i]
  <2>1. /\ v.blocks \in Seq(Scopes) /\ Len(v.blocks) = d /\ v.blocks[d] = scope
        /\ \A i \in 1..Len(p.blocks) : v.blocks[i] = p.blocks[i]
    BY <1>0, <1>2, <1>b, AppendProperties
  <2>. QED BY <2>1 DEF Block, Last
<1>5. PICK found : found = PushBlockResults(v)
  OBVIOUS
<1>6. PICK y : y = PopN(found, n)
  OBVIOUS
<1>7. q = Opening(found, n, d, Len(p.stack))
  BY <1>0, <1>1, <1>5, <1>6, <1>r, <1>k
<1>o. OpenedAs(found, d, Len(p.stack), y, q)
  BY <1>6, <1>7, OpeningIs
<1>8. Ok(y)
  <2>1. q.err = y.err
    BY <1>o DEF OpenedAs
  <2>. QED BY <2>1 DEF Ok
<1>9. Ok(found)
  BY <1>6, <1>8, PopNStays
<1>10. Sound(found, p.blocks, B, T, {}) /\ Resulted(v, rets, n, found)
  <2>1. v.reg[Fp0] = 0 /\ Block(v).results = rets
    BY <1>3, <1>4, <1>r, Limits DEF Registers
  <2>. QED BY <1>3, <1>5, <1>9, <1>k, <2>1, ResultsSound
<1>11. /\ Frame(v, found) /\ found.code = v.code /\ Len(found.stack) = Len(p.stack) + n
       /\ \A i \in 1..Len(p.stack) : found.stack[i] = p.stack[i]
       /\ \A i \in 1..n : found.stack[Len(p.stack) + i].slot >= v.firstDynamic
       /\ \A r \in Registers : found.reg[r] = 0 \/ found.reg[r] > Len(p.stack)
  BY <1>3, <1>10 DEF Resulted
<1>12. Block(found).base = Base(p.blocks)
  BY <1>4, <1>11 DEF Frame, Block
<1>13. Sound(y, p.blocks, B, T, {}) /\ Dropped(found, p.blocks, n, y)
  BY <1>6, <1>8, <1>10, <1>12, PopNSound
<1>14. /\ Frame(found, y) /\ y.code = found.code /\ y.maxStackSlots = found.maxStackSlots
       /\ Len(y.stack) = Len(p.stack)
       /\ \A i \in 1..Len(p.stack) : y.stack[i] = found.stack[i]
       /\ \A r \in Registers : y.reg[r] = 0
  <2>1. /\ Frame(found, y) /\ y.code = found.code /\ y.maxStackSlots = found.maxStackSlots
        /\ Len(y.stack) = IF Len(found.stack) - n >= Base(p.blocks) THEN Len(found.stack) - n ELSE Base(p.blocks)
        /\ \A i \in 1..Len(y.stack) : y.stack[i] = found.stack[i]
        /\ \A r \in Registers : y.reg[r] = IF found.reg[r] > Len(y.stack) THEN 0 ELSE found.reg[r]
    BY <1>13 DEF Dropped
  <2>2. Len(y.stack) = Len(p.stack)
    <3>1. PICK a \in Nat, b \in Nat : a = Len(p.stack) /\ b = Base(p.blocks) /\ b <= a
      BY <1>n
    <3>2. (a + n) - n = a /\ a >= b
      BY <3>1
    <3>. QED BY <1>11, <2>1, <3>1, <3>2
  <2>. QED BY <1>11, <2>1, <2>2
<1>15. /\ y.blocks = v.blocks /\ y.ways = p.ways /\ y.code = p.code /\ DOMAIN y = Fields
       /\ y.firstDynamic = found.firstDynamic /\ y.firstConst = found.firstConst /\ y.numLocals = found.numLocals
       /\ found.firstDynamic = v.firstDynamic
  BY <1>3, <1>11, <1>13, <1>14, SoundNumbers DEF Frame
<1>16. PICK last : last = [scope EXCEPT !.base = Len(found.stack), !.exit = Len(p.stack)]
  OBVIOUS
<1>17. last \in Scopes /\ last.base = Len(found.stack)
  <2>1. Len(found.stack) \in Nat
    BY <1>k, <1>n, <1>11
  <2>. QED BY <1>16, <1>n, <2>1 DEF Scopes
<1>18. q.blocks = [v.blocks EXCEPT ![d] = last]
  <2>1. d \in DOMAIN v.blocks
    BY <1>0, <1>4
  <2>2. q.blocks = [[y.blocks EXCEPT ![d].base = Len(found.stack)] EXCEPT ![d].exit = Len(p.stack)]
    BY <1>15, <1>o DEF OpenedAs
  <2>3. PICK z : z = [y.blocks EXCEPT ![d].base = Len(found.stack)]
    OBVIOUS
  <2>4. z = [v.blocks EXCEPT ![d] = [scope EXCEPT !.base = Len(found.stack)]]
    BY <1>4, <1>15, <2>3
  <2>5. q.blocks = [z EXCEPT ![d] = [[scope EXCEPT !.base = Len(found.stack)] EXCEPT !.exit = Len(p.stack)]]
    BY <2>1, <2>2, <2>3, <2>4
  <2>6. last = [[scope EXCEPT !.base = Len(found.stack)] EXCEPT !.exit = Len(p.stack)]
    BY <1>16
  <2>. QED BY <2>4, <2>5, <2>6
<1>19. q.blocks = Append(p.blocks, last)
  <2>0. DOMAIN v.blocks = 1..d /\ d \in 1..d
    BY <1>0, <1>4
  <2>1. /\ DOMAIN q.blocks = 1..d /\ q.blocks[d] = last
        /\ \A i \in 1..Len(p.blocks) : q.blocks[i] = p.blocks[i]
    <3>1. ASSUME NEW i \in 1..Len(p.blocks)  PROVE i # d /\ i \in 1..d
      BY <1>0, <1>b
    <3>. QED BY <1>4, <1>18, <2>0, <3>1
  <2>2. q.blocks \in Seq(Scopes) /\ Len(q.blocks) = d
    <3>1. d \in 1..Len(v.blocks)
      BY <1>4, <2>0
    <3>2. [v.blocks EXCEPT ![d] = last] \in Seq(Scopes) /\ Len([v.blocks EXCEPT ![d] = last]) = Len(v.blocks)
      BY <1>4, <1>17, <3>1, ExceptSeq
    <3>. QED BY <1>4, <1>18, <3>2
  <2>3. PICK u : u = Append(p.blocks, last)
    OBVIOUS
  <2>4. u \in Seq(Scopes) /\ Len(u) = d /\ u[d] = last /\ \A i \in 1..Len(p.blocks) : u[i] = p.blocks[i]
    BY <1>0, <1>17, <1>b, <2>3, AppendProperties
  <2>5. \A i \in 1..d : q.blocks[i] = u[i]
    <3>1. ASSUME NEW i \in 1..d  PROVE i = d \/ i \in 1..Len(p.blocks)
      BY <1>0, <1>b
    <3>. QED BY <2>1, <2>4, <3>1
  <2>. QED BY <2>2, <2>3, <2>4, <2>5, SeqEqual
<1>20. Elsewhere([y EXCEPT !.stack = found.stack], q) /\ q.ways = y.ways /\ q.code = y.code /\ DOMAIN q = Fields
  BY <1>15, <1>o DEF OpenedAs
<1>21. Above(y, p.blocks, found, q.blocks)
  <2>1. /\ q.blocks \in Seq(Scopes) /\ Len(q.blocks) = Len(p.blocks) + 1 /\ q.blocks[Len(q.blocks)] = last
        /\ \A i \in 1..Len(p.blocks) : q.blocks[i] = p.blocks[i]
    <3>1. /\ Append(p.blocks, last) \in Seq(Scopes) /\ Len(Append(p.blocks, last)) = Len(p.blocks) + 1
          /\ Append(p.blocks, last)[Len(p.blocks) + 1] = last
          /\ \A i \in 1..Len(p.blocks) : Append(p.blocks, last)[i] = p.blocks[i]
      BY <1>17, <1>b, AppendProperties
    <3>. QED BY <1>19, <3>1
  <2>2. Len(y.stack) <= Len(found.stack)
    <3>1. PICK a \in Nat : a = Len(p.stack)
      BY <1>n
    <3>. QED BY <1>11, <1>14, <3>1
  <2>3. ASSUME NEW i \in 1..Len(found.stack)
        PROVE  i <= Len(y.stack) \/ found.stack[i].slot >= y.firstDynamic
    <3>1. PICK a \in Nat : a = Len(p.stack)
      BY <1>n
    <3>2. CASE ~(i <= a)
      <4>1. i - a \in 1..n /\ a + (i - a) = i
        BY <1>11, <3>1, <3>2
      <4>. QED BY <1>11, <1>15, <3>1, <4>1
    <3>3. CASE i <= a
      BY <1>14, <3>1, <3>3
    <3>. QED BY <3>2, <3>3
  <2>. QED BY <1>14, <1>15, <1>17, <2>1, <2>2, <2>3 DEF Above
<1>22. Sound(q, q.blocks, Live(y, p.blocks, B), T, {})
  BY <1>10, <1>13, <1>20, <1>21, AboveSound
<1>23. Live(y, p.blocks, B) = Live(p, p.blocks, B)
  BY <1>14 DEF Live
<1>24. q.maxStackSlots >= p.maxStackSlots
  <2>1. v.maxStackSlots = p.maxStackSlots
    BY <1>2 DEF Elsewhere
  <2>2. found.maxStackSlots >= v.maxStackSlots
    BY <1>11 DEF Frame
  <2>3. q.maxStackSlots = y.maxStackSlots
    BY <1>15, <1>20 DEF Elsewhere, Fields
  <2>. QED BY <1>14, <2>1, <2>2, <2>3
<1>. QED BY <1>11, <1>15, <1>16, <1>19, <1>20, <1>22, <1>23, <1>24, <1>k, <1>r

\* The same blocks, but for what the stack was at the head of a loop, and what is reached.
Alike(bs, bs2) ==
  /\ bs2 \in Seq(Scopes) /\ Len(bs2) = Len(bs)
  /\ \A d \in 1..Len(bs) : /\ bs2[d].base = bs[d].base /\ bs2[d].exit = bs[d].exit /\ bs2[d].restart = bs[d].restart
                           /\ bs2[d].opcode = bs[d].opcode /\ bs2[d].results = bs[d].results

LEMMA AlikeSound ==
  ASSUME NEW p, NEW bs, NEW B, NEW T, NEW E, Sound(p, bs, B, T, E), NEW bs2, Alike(bs, bs2)
  PROVE  Sound(p, bs2, B, T, E) /\ Base(bs2) = Base(bs)
<1>1. /\ Shape(p) /\ Framed(p, bs) /\ Placed(p, bs) /\ B \subseteq 1..Base(bs)
      /\ Counts(p, Live(p, bs, B), E) /\ Owners(p, Live(p, bs, B)) /\ InBlock(p, bs)
      /\ Records(p, Live(p, bs, B)) /\ Codes(p, T)
  BY SoundParts
<1>2. /\ bs2 \in Seq(Scopes) /\ Len(bs2) = Len(bs) /\ bs \in Seq(Scopes) /\ Len(bs) > 0 /\ Len(bs) \in Nat
      /\ \A d \in 1..Len(bs) : bs2[d].base = bs[d].base
      /\ bs2[1].opcode = bs[1].opcode /\ bs2[1].results = bs[1].results
  <2>1. bs \in Seq(Scopes) /\ Len(bs) > 0
    BY <1>1 DEF Framed
  <2>2. 1 \in 1..Len(bs) /\ Len(bs) \in Nat
    BY <2>1
  <2>. QED BY <2>1, <2>2 DEF Alike
<1>3. Base(bs2) = Base(bs)
  <2>1. Len(bs) \in 1..Len(bs)
    BY <1>2
  <2>2. bs2[Len(bs)].base = bs[Len(bs)].base
    BY <1>2, <2>1
  <2>. QED BY <1>2, <2>2 DEF Base, Last
<1>4. Live(p, bs2, B) = Live(p, bs, B)
  BY <1>3 DEF Live
<1>5. Framed(p, bs2)
  BY <1>1, <1>2, <1>3 DEF Framed
<1>6. Placed(p, bs2)
  BY <1>1, <1>2 DEF Placed, EntryFits
<1>7. InBlock(p, bs2)
  BY <1>1, <1>3 DEF InBlock
<1>. QED BY <1>1, <1>3, <1>4, <1>5, <1>6, <1>7 DEF Sound

LEMMA EnteredSound ==
  ASSUME NEW p, NEW B, NEW T, Sound(p, p.blocks, B, T, {}), \A r \in Registers : p.reg[r] = 0,
         NEW bt, bt.params = <<>>, bt.results \in Seq(Types), NEW opcode \in Opcodes, NEW q, Ok(q),
         q = Opening(PushBlockResults(Within(p, InnerScope(p, bt, opcode))), Len(bt.results), Len(p.blocks) + 1, Len(p.stack))
  PROVE  /\ Sound(q, q.blocks, Live(p, p.blocks, B), T, {}) /\ Inside(p, bt.results, opcode, q) /\ DOMAIN q = Fields
         /\ q.blocks \in Seq(Scopes)
<1>n. Len(p.stack) \in Nat
  BY SoundNumbers
<1>b. p.blocks \in Seq(Scopes) /\ Len(p.blocks) \in Nat /\ Len(p.blocks) > 0 /\ Block(p) \in Scopes /\ Block(p).base = Base(p.blocks)
  BY InnermostBlock
<1>1. PICK scope : scope = InnerScope(p, bt, opcode)
  OBVIOUS
<1>2. /\ scope \in Scopes /\ scope.base = Base(p.blocks) /\ scope.results = bt.results /\ scope.opcode = opcode
      /\ opcode = "if" => scope.restart = Len(p.stack)
  <2>1. <<>> \in Seq(Entries) /\ <<>> \in {<<>>}
    OBVIOUS
  <2>2. (IF opcode = "if" THEN Len(p.stack) ELSE 0) \in Nat
    BY <1>n
  <2>. QED BY <1>1, <1>b, <1>n, <2>1, <2>2 DEF InnerScope, Scopes
<1>3. q = Opening(PushBlockResults(Within(p, scope)), Len(scope.results), Len(p.blocks) + 1, Len(p.stack))
  BY <1>1, <1>2
<1>4. PICK last : last = [scope EXCEPT !.base = Len(p.stack) + Len(scope.results), !.exit = Len(p.stack)]
  OBVIOUS
<1>5. /\ Sound(q, q.blocks, Live(p, p.blocks, B), T, {})
      /\ q.blocks = Append(p.blocks, last) /\ q.ways = p.ways /\ q.code = p.code /\ DOMAIN q = Fields /\ q.maxStackSlots >= p.maxStackSlots
  <2>1. /\ Sound(q, q.blocks, Live(p, p.blocks, B), T, {})
        /\ q.blocks = Append(p.blocks, [scope EXCEPT !.base = Len(p.stack) + Len(scope.results), !.exit = Len(p.stack)])
        /\ q.ways = p.ways /\ q.code = p.code /\ DOMAIN q = Fields /\ q.maxStackSlots >= p.maxStackSlots
    BY <1>2, <1>3, OpeningSound
  <2>. QED BY <1>4, <2>1
<1>6. /\ last \in Scopes /\ last.exit = Len(p.stack) /\ last.base = Len(p.stack) + Len(bt.results)
      /\ last.results = bt.results /\ last.opcode = opcode /\ (opcode = "if" => last.restart = Len(p.stack))
  <2>1. Len(p.stack) + Len(bt.results) \in Nat
    <3>1. PICK rets \in Seq(Types) : rets = bt.results
      OBVIOUS
    <3>2. PICK k \in Nat : k = Len(rets)
      OBVIOUS
    <3>3. PICK a \in Nat : a = Len(p.stack)
      BY <1>n
    <3>4. a + k \in Nat
      OBVIOUS
    <3>. QED BY <3>1, <3>2, <3>3, <3>4
  <2>. QED BY <1>2, <1>4, <1>n, <2>1 DEF Scopes
<1>7. /\ q.blocks \in Seq(Scopes) /\ Len(q.blocks) = Len(p.blocks) + 1 /\ q.blocks[Len(p.blocks) + 1] = last
      /\ \A d \in 1..Len(p.blocks) : q.blocks[d] = p.blocks[d]
  <2>1. /\ Append(p.blocks, last) \in Seq(Scopes) /\ Len(Append(p.blocks, last)) = Len(p.blocks) + 1
        /\ Append(p.blocks, last)[Len(p.blocks) + 1] = last
        /\ \A d \in 1..Len(p.blocks) : Append(p.blocks, last)[d] = p.blocks[d]
    BY <1>6, <1>b, AppendProperties
  <2>. QED BY <1>5, <2>1
<1>8. Inside(p, bt.results, opcode, q)
  BY <1>5, <1>6, <1>7 DEF Inside
<1>. QED BY <1>5, <1>7, <1>8

\* q is p in a block without parameters, or with the error met there.
Enters(p, bt, opcode, q) ==
  \E full : /\ full = Opening(PushBlockResults(Within(p, InnerScope(p, bt, opcode))), Len(bt.results), Len(p.blocks) + 1, Len(p.stack))
            /\ q = Entered(p, opcode, Len(p.blocks) + 1, full)

LEMMA OpenedIs ==
  ASSUME NEW p, NEW B, NEW T, Sound(p, p.blocks, B, T, {}), NEW bt, bt.params = <<>>, NEW opcode,
         NEW q, q = EnterBlock(p, bt, opcode)
  PROVE  Enters(p, bt, opcode, q)
<1>n. Len(p.stack) \in Nat /\ DOMAIN p = Fields /\ Base(p.blocks) \in Nat /\ Base(p.blocks) <= Len(p.stack)
  BY SoundNumbers
<1>b. p.blocks \in Seq(Scopes) /\ Len(p.blocks) \in Nat /\ Block(p).base = Base(p.blocks)
  BY InnermostBlock
<1>1. PICK s : s = [i \in 1..Len(bt.params) |-> i]
  OBVIOUS
<1>2. DOMAIN s = {} /\ Len(bt.params) = 0
  BY <1>1
<1>3. PICK v : v = Within(p, InnerScope(p, bt, opcode))
  OBVIOUS
<1>4. Len(v.blocks) = Len(p.blocks) + 1 /\ v.stack = p.stack /\ DOMAIN v = Fields
  BY <1>3, <1>b, <1>n DEF Within, Fields
<1>5. PICK x : x = PoppedParams(v, bt, s)
  OBVIOUS
<1>6. x = v /\ [x EXCEPT !.stack = p.stack] = v
  <2>1. x = v
    BY <1>2, <1>5, NoParamsPopped
  <2>2. [v EXCEPT !.stack = v.stack] = v
    <3>1. v = [f \in DOMAIN v |-> v[f]]
      BY <1>3 DEF Within
    <3>. QED BY <1>4, <3>1 DEF Fields
  <2>. QED BY <1>4, <2>1, <2>2
<1>7. PICK full : full = Opened(p, bt, opcode)
  OBVIOUS
<1>8. full = Opening(PushBlockResults(v), Len(bt.results), Len(p.blocks) + 1, Len(p.stack))
  <2>1. CASE opcode = "else"
    <3>1. PICK exit : exit = IF Block(p).poly /\ Block(p).base + Len(bt.params) > Len(p.stack) THEN Block(p).base
                             ELSE Len(p.stack) - Len(bt.params)
      OBVIOUS
    <3>2. exit = Len(p.stack)
      BY <1>2, <1>b, <1>n, <3>1
    <3>3. full = Opening(PushBlockResults(v), Len(bt.results), Len(v.blocks), exit)
      BY <1>3, <1>7, <2>1, <3>1 DEF Opened
    <3>. QED BY <1>4, <3>2, <3>3
  <2>2. CASE opcode # "else"
    <3>1. full = Opening(PushBlockResults([x EXCEPT !.stack = p.stack]), Len(bt.results), Len(v.blocks), Len(x.stack))
      BY <1>1, <1>3, <1>5, <1>7, <2>2 DEF Opened
    <3>. QED BY <1>4, <1>6, <3>1
  <2>. QED BY <2>1, <2>2
<1>9. q = Entered(p, opcode, Len(p.blocks) + 1, full)
  <2>1. q = Entered(p, opcode, Len(v.blocks), PushedParams(full, bt, Len(v.blocks), s))
    BY <1>1, <1>3, <1>7, EnterIs
  <2>2. PushedParams(full, bt, Len(v.blocks), s) = full
    BY <1>2, NoParamsPushed
  <2>. QED BY <1>4, <2>1, <2>2
<1>. QED BY <1>3, <1>8, <1>9 DEF Enters

LEMMA EnterSound ==
  ASSUME NEW p, NEW B, NEW T, Sound(p, p.blocks, B, T, {}), \A r \in Registers : p.reg[r] = 0,
         NEW bt, bt.params = <<>>, bt.results \in Seq(Types), NEW opcode \in Opcodes,
         NEW q, q = EnterBlock(p, bt, opcode), Ok(q)
  PROVE  /\ Sound(q, q.blocks, Live(p, p.blocks, B), T, {}) /\ Inside(p, bt.results, opcode, q) /\ DOMAIN q = Fields
<1>1. PICK full : /\ full = Opening(PushBlockResults(Within(p, InnerScope(p, bt, opcode))), Len(bt.results), Len(p.blocks) + 1, Len(p.stack))
                  /\ q = Entered(p, opcode, Len(p.blocks) + 1, full)
  <2>1. Enters(p, bt, opcode, q)
    BY OpenedIs
  <2>. QED BY <2>1 DEF Enters
<1>b. p.blocks \in Seq(Scopes) /\ Len(p.blocks) \in Nat /\ DOMAIN p = Fields /\ Ok(p)
  BY InnermostBlock, SoundNumbers
<1>d. PICK d \in Nat : d = Len(p.blocks) + 1
  BY <1>b
<1>2. Ok(full)
  <2>1. CASE ~Ok(full)
    <3>1. q = [p EXCEPT !.err = full.err]
      BY <1>1, <1>b, <2>1 DEF Entered, Throw, Ok
    <3>2. q.err = full.err
      BY <1>b, <3>1, ErrIs
    <3>. QED BY <2>1, <3>2 DEF Ok
  <2>. QED BY <2>1
<1>3. /\ Sound(full, full.blocks, Live(p, p.blocks, B), T, {}) /\ Inside(p, bt.results, opcode, full)
      /\ DOMAIN full = Fields /\ full.blocks \in Seq(Scopes)
  BY <1>1, <1>2, EnteredSound, ZenonT(60)
<1>4. CASE q = full
  BY <1>3, <1>4
<1>5. CASE q = [full EXCEPT !.blocks[d].head = full.stack]
  <2>1. Elsewhere(full, q) /\ q.blocks = [full.blocks EXCEPT ![d].head = full.stack] /\ DOMAIN q = Fields
    BY <1>3, <1>5 DEF Elsewhere, Fields
  <2>2. PICK e : e = [full.blocks[d] EXCEPT !.head = full.stack]
    OBVIOUS
  <2>3. Len(full.blocks) = d /\ d \in 1..Len(full.blocks) /\ full.blocks[d] \in Scopes
    <3>1. Len(full.blocks) = d
      BY <1>3, <1>d DEF Inside
    <3>. QED BY <1>3, <1>b, <1>d, <3>1
  <2>4. /\ e \in Scopes /\ e.base = full.blocks[d].base /\ e.exit = full.blocks[d].exit /\ e.restart = full.blocks[d].restart
        /\ e.opcode = full.blocks[d].opcode /\ e.results = full.blocks[d].results
    <3>1. full.stack \in Seq(Entries)
      BY <1>3, SoundNumbers
    <3>. QED BY <2>2, <2>3, <3>1 DEF Scopes
  <2>5. q.blocks = [full.blocks EXCEPT ![d] = e]
    BY <2>1, <2>2, <2>3
  <2>6. /\ q.blocks \in Seq(Scopes) /\ Len(q.blocks) = Len(full.blocks)
        /\ \A i \in 1..Len(full.blocks) : q.blocks[i] = IF i = d THEN e ELSE full.blocks[i]
    BY <1>3, <2>3, <2>4, <2>5, ExceptSeq
  <2>7. Alike(full.blocks, q.blocks)
    BY <2>4, <2>6 DEF Alike
  <2>8. Sound(q, q.blocks, Live(p, p.blocks, B), T, {})
    BY <1>3, <2>1, <2>7, ElsewhereSound, AlikeSound
  <2>9. Inside(p, bt.results, opcode, q)
    <3>1. /\ Len(full.blocks) = Len(p.blocks) + 1 /\ \A i \in 1..Len(p.blocks) : full.blocks[i] = p.blocks[i]
          /\ full.blocks[d].exit = Len(p.stack)
          /\ full.blocks[d].base = Len(p.stack) + Len(bt.results)
          /\ full.blocks[d].opcode = opcode /\ full.blocks[d].results = bt.results
          /\ (opcode = "if" => full.blocks[d].restart = Len(p.stack))
          /\ full.ways = p.ways /\ full.code = p.code /\ full.maxStackSlots >= p.maxStackSlots
      BY <1>3, <1>d DEF Inside
    <3>2. q.blocks[d] = e
      BY <2>3, <2>6
    <3>3. \A i \in 1..Len(p.blocks) : q.blocks[i] = p.blocks[i]
      <4>1. ASSUME NEW i \in 1..Len(p.blocks)  PROVE i # d /\ i \in 1..Len(full.blocks)
        BY <1>b, <1>d, <2>3
      <4>. QED BY <2>6, <3>1, <4>1
    <3>4. q.ways = p.ways /\ q.code = p.code /\ q.maxStackSlots >= p.maxStackSlots
      BY <2>1, <3>1 DEF Elsewhere
    <3>. QED BY <1>d, <2>4, <2>6, <3>1, <3>2, <3>3, <3>4 DEF Inside
  <2>. QED BY <2>1, <2>8, <2>9
<1>6. q = full \/ q = [full EXCEPT !.blocks[d].head = full.stack]
  BY <1>1, <1>2, <1>d DEF Entered
<1>. QED BY <1>4, <1>5, <1>6

-----------------------------------------------------------------------------
(* Blocks within blocks.                                                   *)

\* bs2 are the blocks bs and one more.
Deeper(bs, bs2) ==
  /\ Len(bs) \in Nat /\ Len(bs) > 0 /\ Len(bs2) = Len(bs) + 1 /\ \A d \in 1..Len(bs) : bs2[d] = bs[d]

LEMMA UnderDeeper ==
  ASSUME NEW bs, NEW bs2, Deeper(bs, bs2)
  PROVE  Under(bs2) = Under(bs) \cup (Base(bs) + 1)..bs2[Len(bs2)].exit
<1>1. PICK n \in Nat : n = Len(bs) /\ n > 0 /\ Len(bs2) = n + 1 /\ \A d \in 1..n : bs2[d] = bs[d]
  BY DEF Deeper
<1>2. 1..(Len(bs2) - 1) = (1..(Len(bs) - 1)) \cup {n}
  BY <1>1
<1>3. \A d \in 1..(Len(bs) - 1) : bs2[d] = bs[d] /\ bs2[d + 1] = bs[d + 1]
  BY <1>1
<1>4. bs2[n] = bs[n] /\ Base(bs) = bs[n].base /\ n + 1 = Len(bs2)
  BY <1>1 DEF Base, Last
<1>5. ASSUME NEW x, x \in Under(bs2)
      PROVE  x \in Under(bs) \cup (Base(bs) + 1)..bs2[Len(bs2)].exit
  <2>1. PICK d \in 1..(Len(bs2) - 1) : x \in (bs2[d].base + 1)..bs2[d + 1].exit
    BY <1>5 DEF Under
  <2>2. CASE d = n
    BY <1>4, <2>1, <2>2
  <2>3. CASE d # n
    <3>1. d \in 1..(Len(bs) - 1)
      BY <1>2, <2>1, <2>3
    <3>2. x \in (bs[d].base + 1)..bs[d + 1].exit
      BY <1>3, <2>1, <3>1
    <3>. QED BY <3>1, <3>2 DEF Under
  <2>. QED BY <2>2, <2>3
<1>6. ASSUME NEW x, x \in Under(bs)
      PROVE  x \in Under(bs2)
  <2>1. PICK d \in 1..(Len(bs) - 1) : x \in (bs[d].base + 1)..bs[d + 1].exit
    BY <1>6 DEF Under
  <2>2. x \in (bs2[d].base + 1)..bs2[d + 1].exit /\ d \in 1..(Len(bs2) - 1)
    BY <1>2, <1>3, <2>1
  <2>. QED BY <2>2 DEF Under
<1>7. ASSUME NEW x, x \in (Base(bs) + 1)..bs2[Len(bs2)].exit
      PROVE  x \in Under(bs2)
  <2>1. x \in (bs2[n].base + 1)..bs2[n + 1].exit /\ n \in 1..(Len(bs2) - 1)
    BY <1>2, <1>4, <1>7
  <2>. QED BY <2>1 DEF Under
<1>. QED BY <1>5, <1>6, <1>7

LEMMA UnderAlike ==
  ASSUME NEW bs, NEW bs2, Alike(bs, bs2), Len(bs) \in Nat
  PROVE  Under(bs2) = Under(bs) /\ (Nest(bs) => Nest(bs2))
<1>1. /\ Len(bs2) = Len(bs)
      /\ \A d \in 1..Len(bs) : /\ bs2[d].base = bs[d].base /\ bs2[d].exit = bs[d].exit /\ bs2[d].restart = bs[d].restart
                               /\ bs2[d].opcode = bs[d].opcode /\ bs2[d].results = bs[d].results
  BY DEF Alike
<1>2. \A d \in 1..(Len(bs) - 1) : bs2[d].base = bs[d].base /\ bs2[d + 1].exit = bs[d + 1].exit
  <2>1. \A d \in 1..(Len(bs) - 1) : d \in 1..Len(bs) /\ d + 1 \in 1..Len(bs)
    OBVIOUS
  <2>. QED BY <1>1, <2>1
<1>3. Under(bs2) = Under(bs)
  BY <1>1, <1>2 DEF Under
<1>4. ASSUME Nest(bs)
      PROVE  Nest(bs2)
  <2>1. \A d \in 2..Len(bs) : d \in 1..Len(bs) /\ d - 1 \in 1..Len(bs)
    OBVIOUS
  <2>2. \A d \in 2..Len(bs) : bs2[d - 1].base = bs[d - 1].base
    BY <1>1, <2>1
  <2>. QED BY <1>1, <1>4, <2>1, <2>2 DEF Nest, Nested
<1>. QED BY <1>3, <1>4

LEMMA NestDeeper ==
  ASSUME NEW bs, NEW bs2, Deeper(bs, bs2)
  PROVE  Nest(bs2) <=> Nest(bs) /\ Nested(Last(bs), Last(bs2))
<1>1. PICK n \in Nat : n = Len(bs) /\ n > 0 /\ Len(bs2) = n + 1 /\ \A d \in 1..n : bs2[d] = bs[d]
  BY DEF Deeper
<1>2. 2..Len(bs2) = (2..Len(bs)) \cup {n + 1} /\ n + 1 - 1 = n
  BY <1>1
<1>3. \A d \in 2..Len(bs) : bs2[d] = bs[d] /\ bs2[d - 1] = bs[d - 1]
  BY <1>1
<1>4. bs2[n] = Last(bs) /\ bs2[n + 1] = Last(bs2) /\ n + 1 \in 2..Len(bs2)
  BY <1>1 DEF Last
<1>5. ASSUME Nest(bs2)
      PROVE  Nest(bs) /\ Nested(Last(bs), Last(bs2))
  <2>1. Nested(bs2[n + 1 - 1], bs2[n + 1])
    BY <1>4, <1>5 DEF Nest
  <2>2. \A d \in 2..Len(bs) : Nested(bs2[d - 1], bs2[d])
    BY <1>2, <1>5 DEF Nest
  <2>. QED BY <1>2, <1>3, <1>4, <2>1, <2>2 DEF Nest
<1>6. ASSUME Nest(bs), Nested(Last(bs), Last(bs2)), NEW d \in 2..Len(bs2)
      PROVE  Nested(bs2[d - 1], bs2[d])
  <2>1. CASE d = n + 1
    BY <1>2, <1>4, <1>6, <2>1
  <2>2. CASE d # n + 1
    BY <1>2, <1>3, <1>6, <2>2 DEF Nest
  <2>. QED BY <2>1, <2>2
<1>. QED BY <1>5, <1>6 DEF Nest

LEMMA EnterGood ==
  ASSUME NEW p, NEW T, Good(p, T), \A r \in Registers : p.reg[r] = 0,
         NEW bt, bt.params = <<>>, bt.results \in Seq(Types), NEW opcode \in Opcodes,
         NEW q, q = EnterBlock(p, bt, opcode), Ok(q)
  PROVE  Good(q, T) /\ Inside(p, bt.results, opcode, q) /\ DOMAIN q = Fields
<1>1. Sound(p, p.blocks, Under(p.blocks), T, {}) /\ Nest(p.blocks)
  BY DEF Good
<1>2. /\ Sound(q, q.blocks, Live(p, p.blocks, Under(p.blocks)), T, {}) /\ Inside(p, bt.results, opcode, q)
      /\ DOMAIN q = Fields
  BY <1>1, EnterSound
<1>3. p.blocks \in Seq(Scopes) /\ Len(p.blocks) \in Nat /\ Len(p.blocks) > 0
  BY <1>1, InnermostBlock
<1>4. Base(p.blocks) <= Len(p.stack)
  BY <1>1, SoundNumbers
<1>5. Deeper(p.blocks, q.blocks)
  BY <1>2, <1>3 DEF Inside, Deeper
<1>6. Under(q.blocks) = Live(p, p.blocks, Under(p.blocks))
  <2>1. q.blocks[Len(q.blocks)].exit = Len(p.stack)
    BY <1>2 DEF Inside
  <2>2. Under(q.blocks) = Under(p.blocks) \cup (Base(p.blocks) + 1)..q.blocks[Len(q.blocks)].exit
    BY <1>5, UnderDeeper
  <2>. QED BY <2>1, <2>2 DEF Live
<1>7. Nest(q.blocks)
  <2>1. /\ q.blocks[Len(q.blocks)].exit = Len(p.stack)
        /\ q.blocks[Len(q.blocks)].base = Len(p.stack) + Len(q.blocks[Len(q.blocks)].results)
        /\ q.blocks[Len(q.blocks)].opcode = "if" => q.blocks[Len(q.blocks)].restart = Len(p.stack)
    BY <1>2 DEF Inside
  <2>2. Last(p.blocks).base = Base(p.blocks) /\ Last(q.blocks) = q.blocks[Len(q.blocks)]
    BY DEF Base, Last
  <2>3. Nested(Last(p.blocks), Last(q.blocks))
    BY <1>4, <2>1, <2>2 DEF Nested
  <2>. QED BY <1>1, <1>5, <2>3, NestDeeper
<1>. QED BY <1>2, <1>6, <1>7 DEF Good

\* An operation within the innermost block.
LEMMA FrameGood ==
  ASSUME NEW p, Nest(p.blocks), NEW T, NEW q, Sound(q, p.blocks, Under(p.blocks), T, {}), Frame(p, q)
  PROVE  Good(q, T)
BY DEF Good, Frame

LEMMA UnwindSound ==
  ASSUME NEW p, NEW B, NEW T, Sound(p, p.blocks, B, T, {}), NEW q, q = UnwindBlockStack(p), Ok(q)
  PROVE  /\ Sound(q, p.blocks, B, T, {}) /\ Frame(p, q) /\ q.code = p.code
         /\ Len(q.stack) = Base(p.blocks) /\ \A r \in Registers : q.reg[r] = 0
<1>1. Len(p.stack) \in Nat /\ Base(p.blocks) \in Nat /\ Base(p.blocks) <= Len(p.stack) /\ DOMAIN p = Fields
  BY SoundNumbers
<1>2. Block(p).base = Base(p.blocks)
  BY InnermostBlock
<1>3. PICK n \in Nat : n = NumBlockValues(p) /\ n = Len(p.stack) - Base(p.blocks)
  BY <1>1, <1>2 DEF NumBlockValues
<1>4. q = PopN(p, n)
  BY <1>3 DEF UnwindBlockStack
<1>5. Sound(q, p.blocks, B, T, {}) /\ Dropped(p, p.blocks, n, q)
  BY <1>2, <1>4, PopNSound
<1>6. Len(q.stack) = Base(p.blocks)
  <2>1. Len(q.stack) = IF Len(p.stack) - n >= Base(p.blocks) THEN Len(p.stack) - n ELSE Base(p.blocks)
    BY <1>5 DEF Dropped
  <2>2. PICK a \in Nat : a = Len(p.stack)
    BY <1>1
  <2>3. PICK b \in Nat : b = Base(p.blocks)
    BY <1>1
  <2>. QED BY <1>3, <2>1, <2>2, <2>3
<1>7. \A r \in Registers : q.reg[r] = 0
  BY <1>5, <1>6, RegistersAtBase
<1>. QED BY <1>5, <1>6, <1>7 DEF Dropped

LEMMA UnwindErrs ==
  ASSUME NEW p, ~Ok(p), Len(p.stack) \in Nat, Block(p).base \in Nat
  PROVE  UnwindBlockStack(p) = p
<1>1. NumBlockValues(p) \in Int
  BY DEF NumBlockValues
<1>2. CASE NumBlockValues(p) \in Nat
  BY <1>2, PopNErrs DEF UnwindBlockStack
<1>3. CASE NumBlockValues(p) \notin Nat
  <2>1. 1..NumBlockValues(p) = 1..0
    BY <1>1, <1>3
  <2>2. PopN(p, NumBlockValues(p)) = PopN(p, 0)
    BY <2>1 DEF PopN
  <2>. QED BY <2>2, PopNErrs DEF UnwindBlockStack
<1>. QED BY <1>2, <1>3

LEMMA MarkedGood ==
  ASSUME NEW p, NEW T, Good(p, T), NEW v, v = [p EXCEPT !.blocks[Len(p.blocks)].poly = TRUE]
  PROVE  Good(v, T) /\ Elsewhere(p, v)
<1>1. Sound(p, p.blocks, Under(p.blocks), T, {}) /\ Nest(p.blocks)
  BY DEF Good
<1>n. DOMAIN p = Fields /\ p.maxStackSlots \in Nat
  BY <1>1, SoundNumbers
<1>b. p.blocks \in Seq(Scopes) /\ Len(p.blocks) \in Nat /\ Len(p.blocks) \in 1..Len(p.blocks)
  BY <1>1, InnermostBlock
<1>3. v.blocks = [p.blocks EXCEPT ![Len(p.blocks)].poly = TRUE] /\ Elsewhere(p, v)
  <2>1. v.blocks = [p.blocks EXCEPT ![Len(p.blocks)].poly = TRUE]
    BY <1>n DEF Fields
  <2>. QED BY <2>1 DEF Elsewhere
<1>4. Alike(p.blocks, v.blocks)
  <2>1. PICK last : last = [p.blocks[Len(p.blocks)] EXCEPT !.poly = TRUE]
    OBVIOUS
  <2>2. p.blocks[Len(p.blocks)] \in Scopes
    BY <1>b
  <2>3. /\ last \in Scopes /\ last.base = p.blocks[Len(p.blocks)].base /\ last.exit = p.blocks[Len(p.blocks)].exit
        /\ last.restart = p.blocks[Len(p.blocks)].restart /\ last.opcode = p.blocks[Len(p.blocks)].opcode
        /\ last.results = p.blocks[Len(p.blocks)].results
    BY <2>1, <2>2 DEF Scopes
  <2>4. v.blocks = [p.blocks EXCEPT ![Len(p.blocks)] = last]
    BY <1>3, <2>1
  <2>5. /\ v.blocks \in Seq(Scopes) /\ Len(v.blocks) = Len(p.blocks)
        /\ \A d \in 1..Len(p.blocks) : v.blocks[d] = IF d = Len(p.blocks) THEN last ELSE p.blocks[d]
    <3>1. [p.blocks EXCEPT ![Len(p.blocks)] = last] \in Seq(Scopes)
      BY <1>b, <2>3, ExceptSeq
    <3>2. Len([p.blocks EXCEPT ![Len(p.blocks)] = last]) = Len(p.blocks)
      BY <1>b, <2>3, ExceptSeq
    <3>3. DOMAIN p.blocks = 1..Len(p.blocks)
      BY <1>b
    <3>4. \A d \in 1..Len(p.blocks) : v.blocks[d] = IF d = Len(p.blocks) THEN last ELSE p.blocks[d]
      BY <2>4, <3>3
    <3>. QED BY <2>4, <3>1, <3>2, <3>4
  <2>. QED BY <2>3, <2>5 DEF Alike
<1>5. Sound(v, v.blocks, Under(p.blocks), T, {})
  <2>1. Sound(v, p.blocks, Under(p.blocks), T, {})
    BY <1>1, <1>3, ElsewhereSound
  <2>. QED BY <1>4, <2>1, AlikeSound
<1>6. Under(v.blocks) = Under(p.blocks) /\ Nest(v.blocks)
  BY <1>1, <1>4, <1>b, UnderAlike
<1>. QED BY <1>3, <1>5, <1>6 DEF Good

\* What comes is not reached.
LEMMA PolymorphicGood ==
  ASSUME NEW p, NEW T, Good(p, T), NEW q, q = SetStackPolymorphic(p), Ok(q)
  PROVE  Good(q, T)
<1>1. PICK v : v = [p EXCEPT !.blocks[Len(p.blocks)].poly = TRUE]
  OBVIOUS
<1>2. Sound(v, v.blocks, Under(v.blocks), T, {}) /\ Nest(v.blocks)
  BY <1>1, MarkedGood DEF Good
<1>3. q = UnwindBlockStack(v)
  BY <1>1 DEF SetStackPolymorphic
<1>4. Sound(q, v.blocks, Under(v.blocks), T, {}) /\ Frame(v, q)
  BY <1>2, <1>3, UnwindSound
<1>. QED BY <1>2, <1>4, FrameGood

-----------------------------------------------------------------------------
(* Blocks are left.                                                        *)

LEMMA BasesGrow ==
  ASSUME NEW bs \in Seq(Scopes), Len(bs) > 0, Nest(bs)
  PROVE  /\ \A d \in 1..Len(bs) : bs[d].base \in Nat /\ bs[d].exit \in Nat /\ bs[d].base <= Base(bs)
         /\ Under(bs) \subseteq 1..Base(bs)
<1>n. PICK n \in Nat : n = Len(bs) /\ n > 0
  OBVIOUS
<1>1. \A d \in 1..n : bs[d].base \in Nat /\ bs[d].exit \in Nat /\ Len(bs[d].results) \in Nat
  <2>1. ASSUME NEW d \in 1..n  PROVE bs[d].base \in Nat /\ bs[d].exit \in Nat /\ Len(bs[d].results) \in Nat
    <3>1. bs[d] \in Scopes
      BY <1>n
    <3>2. bs[d].results \in Seq(Types) /\ bs[d].base \in Nat /\ bs[d].exit \in Nat
      BY <3>1 DEF Scopes
    <3>. QED BY <3>2
  <2>. QED BY <2>1
<1>2. \A d \in 2..n : bs[d - 1].base <= bs[d].exit /\ bs[d].exit <= bs[d].base
  <2>1. ASSUME NEW d \in 2..n  PROVE bs[d - 1].base <= bs[d].exit /\ bs[d].exit <= bs[d].base
    <3>1. bs[d - 1].base <= bs[d].exit /\ bs[d].base = bs[d].exit + Len(bs[d].results) /\ d \in 1..n
      BY <1>n DEF Nest, Nested
    <3>2. PICK k \in Nat : k = Len(bs[d].results)
      BY <1>1, <3>1
    <3>3. PICK x \in Nat : x = bs[d].exit
      BY <1>1, <3>1
    <3>. QED BY <3>1, <3>2, <3>3
  <2>. QED BY <2>1
<1>3. PICK S : S = {k \in 0..n : \A d \in 1..k : bs[d].base <= bs[k].base}
  OBVIOUS
<1>4. 0 \in S
  BY <1>3
<1>5. \A k \in 1..n : k - 1 \in S => k \in S
  <2>1. ASSUME NEW k \in 1..n, k - 1 \in S, NEW d \in 1..k  PROVE bs[d].base <= bs[k].base
    <3>1. CASE d = k
      BY <1>1, <2>1, <3>1
    <3>2. CASE d # k
      <4>1. d \in 1..(k - 1) /\ k \in 2..n /\ d \in 1..n /\ k - 1 \in 1..n
        BY <2>1, <3>2
      <4>2. bs[d].base <= bs[k - 1].base
        BY <1>3, <2>1, <4>1
      <4>3. bs[k - 1].base <= bs[k].exit /\ bs[k].exit <= bs[k].base
        BY <1>2, <4>1
      <4>4. bs[d].base \in Nat /\ bs[k - 1].base \in Nat /\ bs[k].exit \in Nat /\ bs[k].base \in Nat
        BY <1>1, <4>1
      <4>. QED BY <4>2, <4>3, <4>4
    <3>. QED BY <3>1, <3>2
  <2>. QED BY <1>3, <2>1
<1>6. n \in S
  BY <1>4, <1>5, <1>n, Upwards
<1>7. \A d \in 1..n : bs[d].base <= Base(bs)
  BY <1>3, <1>6, <1>n DEF Base, Last
<1>8. ASSUME NEW x \in Under(bs)  PROVE x \in 1..Base(bs)
  <2>1. PICK d \in 1..(n - 1) : x \in (bs[d].base + 1)..bs[d + 1].exit
    BY <1>n DEF Under
  <2>2. d \in 1..n /\ d + 1 \in 1..n /\ d + 1 \in 2..n /\ n \in 1..n
    BY <1>n
  <2>3. /\ bs[d].base \in Nat /\ bs[d + 1].exit \in Nat /\ bs[d + 1].base \in Nat /\ Base(bs) \in Nat
        /\ bs[d + 1].exit <= bs[d + 1].base /\ bs[d + 1].base <= Base(bs)
    BY <1>1, <1>2, <1>7, <1>n, <2>2 DEF Base, Last
  <2>. QED BY <2>1, <2>3
<1>. QED BY <1>1, <1>7, <1>8, <1>n

\* The stack of u without the records of its innermost block.
Cut(u, c) ==
  /\ u.blocks \in Seq(Scopes) /\ Len(u.blocks) > 1 /\ Nest(u.blocks)
  /\ Len(u.stack) = Base(u.blocks)
  /\ Elsewhere([u EXCEPT !.stack = SubSeq(@, 1, Last(u.blocks).exit)], c)

LEMMA CutBlocks ==
  ASSUME NEW u, u.blocks \in Seq(Scopes), Len(u.blocks) > 1, Nest(u.blocks), NEW bs, bs = Front(u.blocks)
  PROVE  /\ bs \in Seq(Scopes) /\ Deeper(bs, u.blocks) /\ Nest(bs)
         /\ Base(bs) \in Nat /\ Last(u.blocks).exit \in Nat /\ Base(bs) <= Last(u.blocks).exit
         /\ Last(u.blocks).exit <= Base(u.blocks) /\ Base(u.blocks) \in Nat
         /\ Under(u.blocks) = Under(bs) \cup (Base(bs) + 1)..Last(u.blocks).exit
         /\ Under(bs) \subseteq 1..Base(bs)
<1>n. PICK n \in Nat : n = Len(u.blocks) - 1 /\ Len(u.blocks) = n + 1 /\ n > 0
  OBVIOUS
<1>1. bs \in Seq(Scopes) /\ Len(bs) = n /\ \A d \in 1..n : bs[d] = u.blocks[d]
  <2>1. bs = SubSeq(u.blocks, 1, n)
    BY <1>n DEF Front
  <2>2. \A d \in 1..n : u.blocks[d] \in Scopes
    BY <1>n
  <2>. QED BY <1>n, <2>1, <2>2
<1>2. Deeper(bs, u.blocks)
  BY <1>n, <1>1 DEF Deeper
<1>3. Nest(bs) /\ Nested(Last(bs), Last(u.blocks))
  BY <1>2, NestDeeper
<1>4. /\ Last(bs) \in Scopes /\ Last(u.blocks) \in Scopes
  BY <1>1, <1>n DEF Last
<1>5. Base(bs) \in Nat /\ Last(u.blocks).exit \in Nat /\ Base(u.blocks) \in Nat /\ Len(Last(u.blocks).results) \in Nat
  <2>1. Last(u.blocks).results \in Seq(Types)
    BY <1>4 DEF Scopes
  <2>2. Last(bs).base \in Nat /\ Last(u.blocks).exit \in Nat /\ Last(u.blocks).base \in Nat
    BY <1>4 DEF Scopes
  <2>3. Len(Last(u.blocks).results) \in Nat
    BY <2>1
  <2>. QED BY <2>2, <2>3 DEF Base
<1>6. Base(bs) <= Last(u.blocks).exit /\ Last(u.blocks).exit <= Base(u.blocks)
  <2>1. Base(bs) <= Last(u.blocks).exit /\ Base(u.blocks) = Last(u.blocks).exit + Len(Last(u.blocks).results)
    BY <1>3 DEF Nested, Base
  <2>2. PICK k \in Nat : k = Len(Last(u.blocks).results)
    BY <1>5
  <2>3. PICK x \in Nat : x = Last(u.blocks).exit
    BY <1>5
  <2>. QED BY <2>1, <2>2, <2>3
<1>7. Under(u.blocks) = Under(bs) \cup (Base(bs) + 1)..Last(u.blocks).exit
  BY <1>2, UnderDeeper DEF Last
<1>8. Under(bs) \subseteq 1..Base(bs)
  BY <1>1, <1>3, <1>n, BasesGrow
<1>. QED BY <1>1, <1>2, <1>3, <1>5, <1>6, <1>7, <1>8

LEMMA CutSound ==
  ASSUME NEW u, NEW T, Sound(u, u.blocks, Under(u.blocks), T, {}), NEW c, Cut(u, c), NEW bs, bs = Front(u.blocks)
  PROVE  /\ Sound(c, bs, Under(bs), T, {}) /\ Nest(bs) /\ \A r \in Registers : c.reg[r] = 0
         /\ Len(c.stack) = Last(u.blocks).exit
<1>n. /\ DOMAIN u = Fields /\ u.stack \in Seq(Entries) /\ Len(u.stack) \in Nat
      /\ u.numLocals \in Nat /\ Len(u.blocks) \in Nat
  <2>1. u.blocks \in Seq(Scopes)
    BY DEF Cut
  <2>2. Len(u.blocks) \in Nat
    BY <2>1
  <2>. QED BY <2>2, SoundNumbers
<1>c. /\ u.blocks \in Seq(Scopes) /\ Len(u.blocks) > 1 /\ Nest(u.blocks) /\ Len(u.stack) = Base(u.blocks)
      /\ Elsewhere([u EXCEPT !.stack = SubSeq(@, 1, Last(u.blocks).exit)], c)
  BY DEF Cut
<1>b. /\ bs \in Seq(Scopes) /\ Deeper(bs, u.blocks) /\ Nest(bs)
      /\ Base(bs) \in Nat /\ Last(u.blocks).exit \in Nat /\ Base(bs) <= Last(u.blocks).exit
      /\ Last(u.blocks).exit <= Base(u.blocks) /\ Base(u.blocks) \in Nat
      /\ Under(u.blocks) = Under(bs) \cup (Base(bs) + 1)..Last(u.blocks).exit
      /\ Under(bs) \subseteq 1..Base(bs)
  BY <1>c, CutBlocks
<1>e. PICK e \in Nat : e = Last(u.blocks).exit /\ e <= Len(u.stack) /\ Base(bs) <= e
  BY <1>b, <1>c
<1>s. /\ DOMAIN c = DOMAIN u /\ c.stack = SubSeq(u.stack, 1, e) /\ c.use = u.use /\ c.reg = u.reg /\ c.numLocals = u.numLocals
      /\ c.firstConst = u.firstConst /\ c.maxConst = u.maxConst /\ c.firstDynamic = u.firstDynamic
      /\ c.maxStackSlots = u.maxStackSlots /\ c.over = u.over /\ c.code = u.code /\ c.ways = u.ways /\ c.err = u.err
  BY <1>c, <1>e, <1>n DEF Elsewhere, Fields
<1>0. /\ Shape(u) /\ Framed(u, u.blocks) /\ Placed(u, u.blocks)
      /\ Counts(u, Live(u, u.blocks, Under(u.blocks)), {}) /\ Owners(u, Live(u, u.blocks, Under(u.blocks)))
      /\ Records(u, Live(u, u.blocks, Under(u.blocks))) /\ Codes(u, T)
  BY SoundParts
<1>l. c.stack \in Seq(Entries) /\ Len(c.stack) = e /\ \A i \in 1..e : c.stack[i] = u.stack[i]
  <2>1. \A i \in 1..e : u.stack[i] \in Entries
    BY <1>e, <1>n
  <2>2. /\ SubSeq(u.stack, 1, e) \in Seq(Entries)
        /\ Len(SubSeq(u.stack, 1, e)) = IF 1 <= e THEN e - 1 + 1 ELSE 0
        /\ \A i \in 1..(e - 1 + 1) : SubSeq(u.stack, 1, e)[i] = u.stack[1 + i - 1]
    BY <1>e, <2>1, SubSeqProperties
  <2>3. Len(SubSeq(u.stack, 1, e)) = e /\ \A i \in 1..e : SubSeq(u.stack, 1, e)[i] = u.stack[i]
    BY <1>e, <2>2
  <2>. QED BY <1>s, <2>2, <2>3
<1>r. \A r \in Registers : u.reg[r] = 0
  BY <1>c, RegistersAtBase
<1>v. /\ Live(c, bs, Under(bs)) = Under(u.blocks) /\ Live(u, u.blocks, Under(u.blocks)) = Under(u.blocks)
      /\ Under(u.blocks) \subseteq 1..e
  <2>1. Live(c, bs, Under(bs)) = Under(u.blocks)
    BY <1>b, <1>e, <1>l DEF Live
  <2>2. (Base(u.blocks) + 1)..Len(u.stack) = {}
    BY <1>b, <1>c
  <2>3. 1..Base(bs) \subseteq 1..e /\ (Base(bs) + 1)..e \subseteq 1..e
    BY <1>b, <1>e
  <2>. QED BY <1>b, <1>e, <2>1, <2>2, <2>3 DEF Live
<1>d. /\ Len(bs) \in Nat /\ Len(bs) > 0 /\ Len(u.blocks) = Len(bs) + 1 /\ \A d \in 1..Len(bs) : u.blocks[d] = bs[d]
  BY <1>b DEF Deeper
<1>g. \A d \in 1..Len(bs) : bs[d].base \in Nat /\ bs[d].base <= Base(bs)
  BY <1>b, <1>d, BasesGrow
<1>1. Shape(c)
  BY <1>0, <1>l, <1>n, <1>s DEF Shape
<1>2. Framed(c, bs)
  <2>1. /\ u.blocks[1].opcode = "function" /\ IoSlots * Len(u.blocks[1].results) <= u.firstConst
        /\ \A d \in 1..Len(u.blocks) : u.numLocals <= u.blocks[d].base
    BY <1>0 DEF Framed
  <2>2. 1 \in 1..Len(bs) /\ \A d \in 1..Len(bs) : d \in 1..Len(u.blocks)
    BY <1>d
  <2>3. bs[1] = u.blocks[1] /\ \A d \in 1..Len(bs) : u.numLocals <= bs[d].base
    BY <1>d, <2>1, <2>2
  <2>. QED BY <1>b, <1>d, <1>e, <1>g, <1>l, <1>s, <2>1, <2>3 DEF Framed
<1>3. Placed(c, bs)
  <2>1. ASSUME NEW i \in 1..Len(c.stack)  PROVE EntryFits(c, bs, i, c.stack[i])
    <3>1. i \in 1..Len(u.stack) /\ c.stack[i] = u.stack[i] /\ i <= e /\ i \in Nat
      BY <1>e, <1>l, <1>n
    <3>2. EntryFits(u, u.blocks, i, u.stack[i])
      BY <1>0, <3>1 DEF Placed
    <3>3. (\E d \in 1..Len(u.blocks) : i = u.blocks[d].base + 1) => \E d \in 1..Len(bs) : i = bs[d].base + 1
      <4>1. ASSUME NEW d \in 1..Len(u.blocks), i = u.blocks[d].base + 1
            PROVE  d \in 1..Len(bs) /\ i = bs[d].base + 1
        <5>1. CASE d \in 1..Len(bs)
          BY <1>d, <4>1, <5>1
        <5>2. CASE d \notin 1..Len(bs)
          <6>1. d = Len(u.blocks)
            BY <1>d, <5>2
          <6>2. i = Base(u.blocks) + 1
            BY <4>1, <6>1 DEF Base, Last
          <6>. QED BY <1>b, <1>e, <3>1, <6>2
        <5>. QED BY <5>1, <5>2
      <4>. QED BY <4>1
    <3>. QED BY <1>s, <3>1, <3>2, <3>3 DEF EntryFits
  <2>. QED BY <2>1 DEF Placed
<1>4. Counts(c, Live(c, bs, Under(bs)), {})
  <2>1. ASSUME NEW s  PROVE RefsTo(c, Under(u.blocks), s) = RefsTo(u, Under(u.blocks), s)
    <3>1. \A i \in Under(u.blocks) : c.stack[i] = u.stack[i]
      BY <1>l, <1>v
    <3>. QED BY <3>1 DEF RefsTo
  <2>. QED BY <1>0, <1>s, <1>v, <2>1 DEF Counts, Dynamic
<1>5. Owners(c, Live(c, bs, Under(bs))) /\ InBlock(c, bs)
  <2>1. \A i \in Under(u.blocks) : c.stack[i] = u.stack[i]
    BY <1>l, <1>v
  <2>. QED BY <1>0, <1>r, <1>s, <1>v, <2>1 DEF Owners, InBlock
<1>6. Records(c, Live(c, bs, Under(bs)))
  <2>1. \A i \in 1..Len(c.stack) : i \in 1..Len(u.stack) /\ c.stack[i] = u.stack[i]
    BY <1>e, <1>l, <1>n
  <2>. QED BY <1>0, <1>s, <1>v, <2>1 DEF Records
<1>7. Codes(c, T)
  BY <1>0, <1>s DEF Codes
<1>. QED BY <1>1, <1>2, <1>3, <1>4, <1>5, <1>6, <1>7, <1>b, <1>e, <1>l, <1>r, <1>s DEF Sound

LEMMA ResultsErrs ==
  ASSUME NEW p, ~Ok(p), NEW rets \in Seq(Types), Block(p).results = rets
  PROVE  ~Ok(PushBlockResults(p))
<1>0. PICK n \in Nat : n = Len(rets)
  OBVIOUS
<1>1. PICK s : s = [i \in 1..n |-> i]
  OBVIOUS
<1>2. DOMAIN rets = 1..n /\ DOMAIN s = 1..n
  BY <1>0, <1>1
<1>3. PushBlockResults(p) = PushedResults(p, rets, s)
  BY <1>1, <1>2, PushBlockResultsIs
<1>4. PICK g : Steps(g, "result", rets, p, s, n) /\ PushedResults(p, rets, s) = g[n]
  BY <1>2, ResultSteps
<1>5. g[0] = p /\ \A k \in 1..n : g[k] = PushResult(rets, g[k - 1], k)
  BY <1>1, <1>4 DEF Steps, Do
<1>6. PICK S : S = {k \in 0..n : ~Ok(g[k])}
  OBVIOUS
<1>7. 0 \in S
  BY <1>5, <1>6
<1>8. \A k \in 1..n : k - 1 \in S => k \in S
  BY <1>5, <1>6, PushResultErrs
<1>9. n \in S
  BY <1>7, <1>8, Upwards
<1>. QED BY <1>3, <1>4, <1>6, <1>9

\* The second half of LeaveBlock: r has its results where they belong.
LeftBy(r) ==
  LET u == UnwindBlockStack(r)
      x == IF Block(u).opcode = "if" THEN u
           ELSE PushBlockResults([u EXCEPT !.stack = SubSeq(@, 1, Block(u).exit)])
  IN  [x EXCEPT !.blocks = Front(@)]
Resolved(p) == IF IsStackPolymorphic(p) THEN p ELSE ResolveBlockResults(p, Len(p.blocks), FALSE)

LEMMA LeaveIs ==
  ASSUME NEW p
  PROVE  LeaveBlock(p) = LeftBy(Resolved(p))
BY DEF LeaveBlock, LeftBy, Resolved

\* The blocks of an error are those where it was met.
Placeable(p) == p.blocks \in Seq(Scopes) /\ Len(p.blocks) > 0 /\ Len(p.stack) \in Nat

LEMMA LeftErrs ==
  ASSUME NEW r, ~Ok(r), Placeable(r)
  PROVE  ~Ok(LeftBy(r))
<1>b. r.blocks \in Seq(Scopes) /\ Len(r.blocks) > 0 /\ Len(r.stack) \in Nat
  BY DEF Placeable
<1>1. Block(r) \in Scopes
  BY <1>b DEF Block, Last
<1>2. Block(r).base \in Nat /\ Block(r).results \in Seq(Types)
  BY <1>1 DEF Scopes
<1>3. UnwindBlockStack(r) = r
  BY <1>2, <1>b, UnwindErrs
<1>4. PICK v : v = [r EXCEPT !.stack = SubSeq(@, 1, Block(r).exit)]
  OBVIOUS
<1>5. ~Ok(v) /\ Block(v).results = Block(r).results
  <2>1. v.err = r.err /\ v.blocks = r.blocks
    BY <1>4
  <2>. QED BY <2>1 DEF Ok, Block
<1>6. ~Ok(PushBlockResults(v))
  BY <1>2, <1>5, ResultsErrs
<1>7. PICK x : x = IF Block(r).opcode = "if" THEN r ELSE PushBlockResults(v)
  OBVIOUS
<1>8. LeftBy(r) = [x EXCEPT !.blocks = Front(@)]
  BY <1>3, <1>4, <1>7 DEF LeftBy
<1>9. ~Ok(x)
  BY <1>6, <1>7
<1>10. LeftBy(r).err = x.err
  BY <1>8
<1>. QED BY <1>9, <1>10 DEF Ok

LEMMA PopNBlocks ==
  ASSUME NEW p, NEW n \in Nat
  PROVE  PopN(p, n).blocks = p.blocks
<1>0. PICK s : s = [i \in 1..n |-> i]
  OBVIOUS
<1>1. PICK g : Steps(g, "pop", <<>>, p, s, n) /\ PopN(p, n) = g[n]
  BY <1>0, PopNSteps
<1>2. g[0] = p /\ \A k \in 1..n : g[k] = Pop(g[k - 1])
  BY <1>1 DEF Steps, Do
<1>3. PICK S : S = {k \in 0..n : g[k].blocks = p.blocks}
  OBVIOUS
<1>4. 0 \in S
  BY <1>2, <1>3
<1>5. ASSUME NEW v  PROVE Pop(v).blocks = v.blocks
  <2>1. PICK e : e = Last(v.stack)
    OBVIOUS
  <2>2. PICK x : x = [v EXCEPT !.stack = Front(@)]
    OBVIOUS
  <2>3. x.blocks = v.blocks
    BY <2>2
  <2>4. [x EXCEPT !.reg[e.slot] = 0].blocks = x.blocks
    OBVIOUS
  <2>5. DeallocateSlot(x, e.slot, e.type).blocks = x.blocks
    BY DEF DeallocateSlot
  <2>6. \A c : ThrowIf(v, "function stack underrun", c).blocks = v.blocks
    BY DEF ThrowIf, Throw
  <2>7. Pop(v) \in {v, [x EXCEPT !.reg[e.slot] = 0], DeallocateSlot(x, e.slot, e.type), x,
                    ThrowIf(v, "function stack underrun", ~IsStackPolymorphic(v))}
    BY <2>1, <2>2 DEF Pop
  <2>. QED BY <2>3, <2>4, <2>5, <2>6, <2>7
<1>6. \A k \in 1..n : k - 1 \in S => k \in S
  BY <1>2, <1>3, <1>5
<1>7. n \in S
  BY <1>4, <1>6, Upwards
<1>. QED BY <1>1, <1>3, <1>7

LEMMA LeftSound ==
  ASSUME NEW r, NEW T, Good(r, T), Len(r.blocks) > 1, Block(r).opcode # "if", NEW q, q = LeftBy(r), Ok(q)
  PROVE  Good(q, T) /\ Outside(r, q)
<1>1. Sound(r, r.blocks, Under(r.blocks), T, {}) /\ Nest(r.blocks)
  BY DEF Good
<1>b. r.blocks \in Seq(Scopes) /\ Len(r.blocks) \in Nat /\ Block(r) \in Scopes /\ Block(r) = Last(r.blocks)
  BY <1>1, InnermostBlock DEF Block
<1>n. DOMAIN r = Fields /\ Len(r.stack) \in Nat
  BY <1>1, SoundNumbers
<1>2. Ok(r)
  BY <1>b, <1>n, LeftErrs DEF Placeable
<1>3. PICK u : u = UnwindBlockStack(r)
  OBVIOUS
<1>4. PICK v : v = [u EXCEPT !.stack = SubSeq(@, 1, Block(u).exit)]
  OBVIOUS
<1>5. PICK x : x = PushBlockResults(v)
  OBVIOUS
<1>6. u.blocks = r.blocks
  <2>1. NumBlockValues(r) \in Nat
    <3>1. Block(r).base = Base(r.blocks) /\ Base(r.blocks) \in Nat /\ Base(r.blocks) <= Len(r.stack)
      BY <1>1, SoundNumbers, InnermostBlock
    <3>. QED BY <1>n, <3>1 DEF NumBlockValues
  <2>. QED BY <1>3, <2>1, PopNBlocks DEF UnwindBlockStack
<1>7. Block(u) = Block(r) /\ Block(v) = Block(r) /\ v.blocks = r.blocks
  BY <1>4, <1>6 DEF Block
<1>8. q = [x EXCEPT !.blocks = Front(@)] /\ q.err = x.err
  BY <1>3, <1>4, <1>5, <1>7 DEF LeftBy
<1>9. Block(r).results \in Seq(Types)
  BY <1>b DEF Scopes
<1>10. Ok(x) /\ Ok(v) /\ Ok(u)
  <2>1. Ok(x)
    BY <1>8 DEF Ok
  <2>2. Ok(v)
    BY <1>5, <1>7, <1>9, <2>1, ResultsErrs
  <2>3. v.err = u.err
    BY <1>4
  <2>. QED BY <2>1, <2>2, <2>3 DEF Ok
<1>11. /\ Sound(u, u.blocks, Under(u.blocks), T, {}) /\ Frame(r, u) /\ u.code = r.code
       /\ Len(u.stack) = Base(u.blocks)
  BY <1>1, <1>3, <1>6, <1>10, UnwindSound
<1>12. DOMAIN u = Fields /\ DOMAIN v = Fields /\ v.code = r.code /\ v.ways = r.ways /\ v.reg = u.reg
  BY <1>4, <1>11, <1>n DEF Frame, Fields
<1>13. Cut(u, v)
  <2>1. Elsewhere([u EXCEPT !.stack = SubSeq(@, 1, Last(u.blocks).exit)], v)
    <3>1. v = [u EXCEPT !.stack = SubSeq(@, 1, Last(u.blocks).exit)]
      BY <1>4 DEF Block
    <3>. QED BY <3>1 DEF Elsewhere
  <2>. QED BY <1>1, <1>6, <1>11, <1>b, <2>1 DEF Cut
<1>14. PICK bs : bs = Front(r.blocks)
  OBVIOUS
<1>15. Sound(v, bs, Under(bs), T, {}) /\ Nest(bs) /\ \A k \in Registers : v.reg[k] = 0
  BY <1>6, <1>11, <1>13, <1>14, CutSound
<1>16. Sound(x, bs, Under(bs), T, {}) /\ Frame(v, x) /\ x.code = v.code
  <2>1. v.reg[Fp0] = 0
    BY <1>15 DEF Registers
  <2>2. Sound(x, bs, Under(bs), T, {}) /\ Resulted(v, Block(r).results, Len(Block(r).results), x)
    BY <1>5, <1>7, <1>9, <1>10, <1>15, <2>1, ResultsSound
  <2>. QED BY <2>2 DEF Resulted
<1>17. x.blocks = r.blocks /\ DOMAIN x = Fields /\ x.ways = r.ways
  BY <1>7, <1>12, <1>16 DEF Frame
<1>18. q.blocks = bs /\ Elsewhere(x, q) /\ q.ways = r.ways /\ q.code = r.code /\ DOMAIN q = Fields
  <2>1. q.blocks = bs
    BY <1>8, <1>14, <1>17 DEF Fields
  <2>. QED BY <1>8, <1>12, <1>16, <1>17, <2>1 DEF Elsewhere
<1>19. Sound(q, bs, Under(bs), T, {})
  BY <1>16, <1>18, ElsewhereSound
<1>20. q.maxStackSlots >= r.maxStackSlots
  <2>1. u.maxStackSlots >= r.maxStackSlots /\ x.maxStackSlots >= v.maxStackSlots /\ v.maxStackSlots = u.maxStackSlots
        /\ x.maxStackSlots \in Nat /\ u.maxStackSlots \in Nat /\ r.maxStackSlots \in Nat
    <3>1. r.maxStackSlots \in Nat
      BY <1>1, SoundNumbers
    <3>2. u.maxStackSlots \in Nat
      BY <1>11, SoundNumbers
    <3>3. x.maxStackSlots \in Nat
      BY <1>16, SoundNumbers
    <3>4. v.maxStackSlots = u.maxStackSlots
      BY <1>4
    <3>. QED BY <1>11, <1>16, <3>1, <3>2, <3>3, <3>4 DEF Frame
  <2>2. q.maxStackSlots = x.maxStackSlots
    BY <1>8
  <2>. QED BY <2>1, <2>2
<1>. QED BY <1>14, <1>15, <1>18, <1>19, <1>20 DEF Good, Outside

CutTo(q, n) == [q EXCEPT !.stack = SubSeq(@, 1, n)]

\* The then-part of an if: without its records it is as good as any.
LEMMA LeftIfSound ==
  ASSUME NEW r, NEW T, Good(r, T), Len(r.blocks) > 1, Block(r).opcode = "if", NEW q, q = LeftBy(r), Ok(q),
         NEW c, c = CutTo(q, Block(r).restart)
  PROVE  /\ Good(c, T) /\ Outside(r, c) /\ (\A k \in Registers : c.reg[k] = 0)
         /\ Outside(r, q) /\ (Block(r).results = <<>> => c = q)
<1>1. Sound(r, r.blocks, Under(r.blocks), T, {}) /\ Nest(r.blocks)
  BY DEF Good
<1>b. r.blocks \in Seq(Scopes) /\ Len(r.blocks) \in Nat /\ Block(r) \in Scopes /\ Block(r) = Last(r.blocks)
  BY <1>1, InnermostBlock DEF Block
<1>n. DOMAIN r = Fields /\ Len(r.stack) \in Nat
  BY <1>1, SoundNumbers
<1>2. PICK u : u = UnwindBlockStack(r)
  OBVIOUS
<1>3. u.blocks = r.blocks
  <2>1. NumBlockValues(r) \in Nat
    <3>1. Block(r).base = Base(r.blocks) /\ Base(r.blocks) \in Nat /\ Base(r.blocks) <= Len(r.stack)
      BY <1>1, SoundNumbers, InnermostBlock
    <3>. QED BY <1>n, <3>1 DEF NumBlockValues
  <2>. QED BY <1>2, <2>1, PopNBlocks DEF UnwindBlockStack
<1>4. q = [u EXCEPT !.blocks = Front(@)] /\ q.err = u.err
  <2>1. Block(u).opcode = "if"
    BY <1>3 DEF Block
  <2>. QED BY <1>2, <2>1 DEF LeftBy
<1>5. Ok(u)
  BY <1>4 DEF Ok
<1>6. /\ Sound(u, u.blocks, Under(u.blocks), T, {}) /\ Frame(r, u) /\ u.code = r.code
      /\ Len(u.stack) = Base(u.blocks)
  BY <1>1, <1>2, <1>3, <1>5, UnwindSound
<1>7. /\ DOMAIN u = Fields /\ u.ways = r.ways /\ u.stack \in Seq(Entries)
  <2>1. u.stack \in Seq(Entries)
    BY <1>6, SoundNumbers
  <2>. QED BY <1>6, <1>n, <2>1 DEF Frame
<1>8. Block(r).restart = Block(r).exit
  <2>1. PICK bs : bs = Front(r.blocks)
    OBVIOUS
  <2>2. Deeper(bs, r.blocks)
    BY <1>1, <1>b, <2>1, CutBlocks
  <2>3. Nested(Last(bs), Last(r.blocks))
    BY <1>1, <2>2, NestDeeper
  <2>. QED BY <1>b, <2>3 DEF Nested
<1>9. /\ DOMAIN q = Fields /\ q.blocks = Front(r.blocks) /\ q.ways = r.ways /\ q.code = r.code /\ q.stack = u.stack
  <2>1. q.blocks = Front(r.blocks)
    BY <1>3, <1>4, <1>7 DEF Fields
  <2>. QED BY <1>4, <1>6, <1>7, <2>1
<1>10. /\ DOMAIN c = Fields /\ c.blocks = Front(r.blocks) /\ c.ways = r.ways /\ c.code = r.code
       /\ c.stack = SubSeq(u.stack, 1, Block(r).exit)
  BY <1>8, <1>9 DEF Fields, CutTo
<1>11. Cut(u, c)
  <2>1. PICK v : v = [u EXCEPT !.stack = SubSeq(@, 1, Last(u.blocks).exit)]
    OBVIOUS
  <2>2. v.stack = c.stack
    BY <1>3, <1>7, <1>10, <1>b, <2>1 DEF Fields
  <2>4. \A f \in Fields \ {"stack", "blocks"} : c[f] = u[f] /\ v[f] = u[f]
    <3>1. \A f \in Fields \ {"stack", "blocks"} : q[f] = u[f]
      BY <1>4, <1>7
    <3>2. \A f \in Fields \ {"stack", "blocks"} : c[f] = q[f]
      BY <1>9 DEF CutTo
    <3>3. \A f \in Fields \ {"stack", "blocks"} : v[f] = u[f]
      BY <1>7, <2>1
    <3>. QED BY <3>1, <3>2, <3>3
  <2>5. DOMAIN v = Fields
    BY <1>7, <2>1
  <2>3. Elsewhere(v, c)
    BY <1>10, <2>2, <2>4, <2>5 DEF Elsewhere, Fields
  <2>. QED BY <1>1, <1>3, <1>6, <1>b, <2>1, <2>3 DEF Cut
<1>12. Good(c, T) /\ \A k \in Registers : c.reg[k] = 0
  <2>1. PICK bs : bs = Front(u.blocks)
    OBVIOUS
  <2>2. Sound(c, bs, Under(bs), T, {}) /\ Nest(bs) /\ \A k \in Registers : c.reg[k] = 0
    BY <1>6, <1>11, <2>1, CutSound
  <2>3. c.blocks = bs
    BY <1>3, <1>10, <2>1
  <2>. QED BY <2>2, <2>3 DEF Good
<1>13. ASSUME Block(r).results = <<>>  PROVE c = q
  <2>1. Len(u.stack) = Block(r).exit
    <3>1. PICK bs : bs = Front(r.blocks)
      OBVIOUS
    <3>2. Deeper(bs, r.blocks)
      BY <1>1, <1>b, <3>1, CutBlocks
    <3>3. Nested(Last(bs), Last(r.blocks))
      BY <1>1, <3>2, NestDeeper
    <3>4. Block(r).base = Block(r).exit + Len(Block(r).results) /\ Len(<<>>) = 0
      BY <1>b, <3>3 DEF Nested
    <3>5. Block(r).base \in Nat /\ Block(r).exit \in Nat
      BY <1>b DEF Scopes
    <3>. QED BY <1>3, <1>6, <1>13, <1>b, <3>4, <3>5 DEF Base
  <2>2. SubSeq(q.stack, 1, Block(r).restart) = q.stack
    BY <1>7, <1>8, <1>9, <2>1, SubSeqFull
  <2>3. q = [f \in DOMAIN q |-> q[f]]
    BY <1>4
  <2>. QED BY <1>9, <2>2, <2>3 DEF Fields, CutTo
<1>14. q.maxStackSlots >= r.maxStackSlots /\ c.maxStackSlots >= r.maxStackSlots
  <2>1. u.maxStackSlots >= r.maxStackSlots
    BY <1>6 DEF Frame
  <2>2. q.maxStackSlots = u.maxStackSlots /\ c.maxStackSlots = q.maxStackSlots
    BY <1>4 DEF CutTo
  <2>. QED BY <2>1, <2>2
<1>. QED BY <1>9, <1>10, <1>12, <1>13, <1>14 DEF Outside

LEMMA NoCodeGood ==
  ASSUME NEW p, NEW T, Good(p, T), NEW q, q = [p EXCEPT !.code = <<>>]
  PROVE  Good(q, {}) /\ q.code = <<>> /\ DOMAIN q = Fields /\ q.blocks = p.blocks /\ q.ways = p.ways /\ q.reg = p.reg
         /\ q.maxStackSlots = p.maxStackSlots
<1>1. Sound(p, p.blocks, Under(p.blocks), T, {}) /\ Nest(p.blocks)
  BY DEF Good
<1>2. DOMAIN p = Fields /\ p.maxStackSlots \in Nat
  BY <1>1, SoundNumbers
<1>3. q.code = <<>> /\ DOMAIN q = Fields /\ q.blocks = p.blocks /\ q.ways = p.ways /\ q.reg = p.reg
  BY <1>2 DEF Fields
<1>4. Adds(p, q)
  BY <1>2, <1>3 DEF Adds, SameOperands, Frame
<1>5. CodeFits(q.code, q.maxStackSlots, {})
  BY <1>3 DEF CodeFits
<1>6. Sound(q, p.blocks, Under(p.blocks), {}, {})
  BY <1>1, <1>4, <1>5, AddsSound
<1>7. q.maxStackSlots = p.maxStackSlots
  OBVIOUS
<1>. QED BY <1>1, <1>3, <1>6, <1>7 DEF Good

LEMMA ElseSound ==
  ASSUME NEW r, NEW T, Good(r, T), Len(r.blocks) > 1, Block(r).opcode = "if", NEW q, q = LeftBy(r), Ok(q),
         NEW scope, scope.params = <<>>, scope.results \in Seq(Types), scope.restart = Block(r).restart,
         NEW e, e = CompileElseBlock(q, scope), Ok(e)
  PROVE  /\ Good(e, {}) /\ e.code = <<>> /\ e.ways = r.ways /\ DOMAIN e = Fields
         /\ e.maxStackSlots \in Nat /\ e.maxStackSlots >= r.maxStackSlots
<1>1. PICK c : c = CutTo(q, Block(r).restart)
  OBVIOUS
<1>2. Good(c, T) /\ Outside(r, c) /\ \A k \in Registers : c.reg[k] = 0
  BY <1>1, LeftIfSound
<1>3. PICK v : v = [c EXCEPT !.code = <<>>]
  OBVIOUS
<1>4. /\ Good(v, {}) /\ v.code = <<>> /\ v.ways = r.ways /\ \A k \in Registers : v.reg[k] = 0
  BY <1>2, <1>3, NoCodeGood DEF Outside
<1>5. PICK bt : bt = [params |-> scope.params, results |-> scope.results]
  OBVIOUS
<1>6. bt.params = <<>> /\ bt.results \in Seq(Types)
  BY <1>5
<1>7. e = EnterBlock(v, bt, "else")
  BY <1>1, <1>3, <1>5 DEF CompileElseBlock, CutTo
<1>8. "else" \in Opcodes
  BY DEF Opcodes
<1>9. Good(e, {}) /\ Inside(v, bt.results, "else", e) /\ DOMAIN e = Fields
  BY <1>4, <1>6, <1>7, <1>8, EnterGood
<1>10. e.maxStackSlots \in Nat /\ e.maxStackSlots >= r.maxStackSlots
  <2>1. /\ r.maxStackSlots \in Nat /\ c.maxStackSlots \in Nat /\ e.maxStackSlots \in Nat
    <3>1. /\ Sound(r, r.blocks, Under(r.blocks), T, {}) /\ Sound(c, c.blocks, Under(c.blocks), T, {})
          /\ Sound(e, e.blocks, Under(e.blocks), {}, {})
      BY <1>2, <1>9 DEF Good
    <3>2. r.maxStackSlots \in Nat
      BY <3>1, SoundNumbers
    <3>3. c.maxStackSlots \in Nat
      BY <3>1, SoundNumbers
    <3>4. e.maxStackSlots \in Nat
      BY <3>1, SoundNumbers
    <3>. QED BY <3>2, <3>3, <3>4
  <2>2. e.maxStackSlots >= v.maxStackSlots /\ v.maxStackSlots = c.maxStackSlots /\ c.maxStackSlots >= r.maxStackSlots
    BY <1>2, <1>3, <1>9 DEF Inside, Outside
  <2>. QED BY <2>1, <2>2
<1>. QED BY <1>4, <1>9, <1>10 DEF Inside

-----------------------------------------------------------------------------
(* Results are copied where they belong.                                   *)

LEMMA CopiedResultsIs ==
  ASSUME NEW p, NEW t, NEW i, NEW end, NEW temp
  PROVE  CopyStackSlotsR(p, t, i, end, temp)
         = [CopiedResults(p, t, i, end, temp, [k \in 1..(end - i + 1) |-> k - 1]).o EXCEPT !.stack = p.stack]
BY DEF CopyStackSlotsR, CopiedResults, CopyResult, FoldLeft, MapThenFoldSet

LEMMA CopySteps ==
  ASSUME NEW p, NEW n \in Nat, NEW t, NEW i, NEW end, NEW temp, NEW q, DOMAIN q = 1..n
  PROVE  \E g : Steps(g, "copy", <<t, i, end>>, [o |-> p, temp |-> temp], q, n) /\ CopiedResults(p, t, i, end, temp, q) = g[n]
<1>. DEFINE Body(h) == [s \in SUBSET (DOMAIN q) |-> IF s = {} THEN [o |-> p, temp |-> temp] ELSE CopyResult(t, i, end, h[s \ {Max(s)}], q[Max(s)])]
<1>1. \A x, k : Do("copy", <<t, i, end>>, x, k) = CopyResult(t, i, end, x, k)
  <2>1. PICK a : a = <<t, i, end>>
    OBVIOUS
  <2>2. a[1] = t /\ a[2] = i /\ a[3] = end
    BY <2>1
  <2>. QED BY <2>1, <2>2 DEF Do
<1>2. \A h : Body(h) = DoBody(h, "copy", <<t, i, end>>, [o |-> p, temp |-> temp], q)
  BY <1>1 DEF DoBody
<1>. HIDE DEF Body
<1>3. \E h : h = Body(h)
  BY <1>2, FoldExists DEF DoneBy
<1>4. PICK f : f = Body(f) /\ CopiedResults(p, t, i, end, temp, q) = f[DOMAIN q]
  BY <1>3 DEF Body, CopiedResults, FoldLeft, MapThenFoldSet
<1>. QED BY <1>2, <1>4, FoldSteps DEF DoneBy

\* The copies so far: x.o differs from p in code, in slots touched and in entries that are
\* at temporary slots.
Located(e, top) == e.slot \in Registers \cup 0..(top - 1) /\ e.slot \in Nat /\ e.type \in EntryTypes
                   /\ DOMAIN e = {"slot", "type"}
Copying(p, T, x) ==
  /\ Frame(p, x.o) /\ x.o.use = p.use /\ x.o.reg = p.reg /\ x.o.maxConst = p.maxConst /\ x.o.err = p.err
  /\ DOMAIN x.o.stack = DOMAIN p.stack
  /\ \A j \in DOMAIN p.stack : Located(x.o.stack[j], x.o.maxStackSlots)
  /\ CodeFits(x.o.code, x.o.maxStackSlots, T)
  /\ x.temp \in Nat
CopyPlace(p, x) ==
  /\ DOMAIN x = {"o", "temp"} /\ DOMAIN x.o = Fields /\ x.o.blocks = p.blocks

\* The entry found in the way, and what becomes of it.
Hit(t, i, end, x, k) ==
  {c \in (i + k + 1)..end :
      LET s == x.o.stack[c].slot
      IN  x.o.stack[t + k].slot \in {s, s + NumSlots(x.o.stack[c].type) - 1}
          \/ x.o.stack[t + k].slot + NumSlots(x.o.stack[i + k].type) - 1 = s}
MovedAway(x, c) ==
  TouchSlot([CopyStackIndexToSlot(x.o, x.temp, c) EXCEPT !.stack[c].slot = x.temp], x.temp + 1)

CopyCases(x, hit, e, y) ==
  \/ y = x
  \/ Ok(x.o) /\ hit # {} /\ x.temp >= MaxSlots /\ y = [x EXCEPT !.o = Throw(@, "function stack overflow")]
  \/ Ok(x.o) /\ hit = {} /\ y = [o |-> Emit(x.o, e), temp |-> x.temp]
  \/ Ok(x.o) /\ hit # {} /\ ~(x.temp >= MaxSlots) /\ y = [o |-> Emit(MovedAway(x, Min(hit)), e), temp |-> x.temp + 2]

LEMMA CopyResultIs ==
  ASSUME NEW t, NEW i, NEW end, NEW x, NEW k, NEW hit, hit = Hit(t, i, end, x, k),
         NEW e, e = Move(x.o.stack[t + k].slot, x.o.stack[i + k].slot, x.o.stack[i + k].type),
         NEW y, y = CopyResult(t, i, end, x, k)
  PROVE  CopyCases(x, hit, e, y)
BY DEF CopyResult, Hit, MovedAway, CopyCases

LEMMA CopyErrs ==
  ASSUME NEW t, NEW i, NEW end, NEW x, NEW k, ~Ok(x.o)
  PROVE  CopyResult(t, i, end, x, k) = x
BY DEF CopyResult

LEMMA CopyPlaces ==
  ASSUME NEW p, NEW t, NEW i, NEW end, NEW x, NEW k, CopyPlace(p, x)
  PROVE  CopyPlace(p, CopyResult(t, i, end, x, k))
<1>1. PICK hit : hit = Hit(t, i, end, x, k)
  OBVIOUS
<1>2. PICK e : e = Move(x.o.stack[t + k].slot, x.o.stack[i + k].slot, x.o.stack[i + k].type)
  OBVIOUS
<1>3. PICK y : y = CopyResult(t, i, end, x, k)
  OBVIOUS
<1>d. DOMAIN x = {"o", "temp"} /\ DOMAIN x.o = Fields /\ x.o.blocks = p.blocks
  BY DEF CopyPlace
<1>e. \A v, w : DOMAIN Emit(v, w) = DOMAIN v /\ Emit(v, w).blocks = v.blocks
  BY DEF Emit
<1>t. \A v, s : DOMAIN TouchSlot(v, s) = DOMAIN v /\ TouchSlot(v, s).blocks = v.blocks
  BY DEF TouchSlot
<1>4. CASE y = x
  BY <1>3, <1>4
<1>5. CASE y = [x EXCEPT !.o = Throw(@, "function stack overflow")]
  <2>1. DOMAIN y = {"o", "temp"} /\ y.o = Throw(x.o, "function stack overflow")
    BY <1>5, <1>d
  <2>2. DOMAIN Throw(x.o, "function stack overflow") = Fields /\ Throw(x.o, "function stack overflow").blocks = p.blocks
    BY <1>d DEF Throw
  <2>. QED BY <1>3, <2>1, <2>2 DEF CopyPlace
<1>6. CASE y = [o |-> Emit(x.o, e), temp |-> x.temp]
  BY <1>3, <1>6, <1>d, <1>e DEF CopyPlace
<1>7. CASE y = [o |-> Emit(MovedAway(x, Min(hit)), e), temp |-> x.temp + 2]
  <2>1. PICK w : w = [CopyStackIndexToSlot(x.o, x.temp, Min(hit)) EXCEPT !.stack[Min(hit)].slot = x.temp]
    OBVIOUS
  <2>2. DOMAIN w = Fields /\ w.blocks = p.blocks
    <3>1. PICK v : v = CopyStackIndexToSlot(x.o, x.temp, Min(hit))
      OBVIOUS
    <3>2. DOMAIN v = Fields /\ v.blocks = p.blocks
      BY <1>d, <1>e, <3>1 DEF CopyStackIndexToSlot
    <3>. QED BY <2>1, <3>1, <3>2
  <2>3. MovedAway(x, Min(hit)) = TouchSlot(w, x.temp + 1)
    BY <2>1 DEF MovedAway
  <2>4. DOMAIN MovedAway(x, Min(hit)) = Fields /\ MovedAway(x, Min(hit)).blocks = p.blocks
    BY <1>t, <2>2, <2>3
  <2>5. DOMAIN y = {"o", "temp"} /\ y.o = Emit(MovedAway(x, Min(hit)), e)
    BY <1>7
  <2>. QED BY <1>3, <1>e, <2>4, <2>5 DEF CopyPlace
<1>8. \/ y = x
      \/ y = [x EXCEPT !.o = Throw(@, "function stack overflow")]
      \/ y = [o |-> Emit(x.o, e), temp |-> x.temp]
      \/ y = [o |-> Emit(MovedAway(x, Min(hit)), e), temp |-> x.temp + 2]
  <2>1. CopyCases(x, hit, e, y)
    BY <1>1, <1>2, <1>3, CopyResultIs
  <2>. QED BY <2>1 DEF CopyCases
<1>. QED BY <1>3, <1>4, <1>5, <1>6, <1>7, <1>8

LEMMA CopyingOne ==
  ASSUME NEW p, DOMAIN p = Fields, p.maxStackSlots \in Nat, p.stack \in Seq(Entries), NEW T,
         NEW x, Copying(p, T, x), CopyPlace(p, x), Ok(p), NEW t, NEW i \in Nat, NEW end, NEW k \in Nat,
         t + k \in 1..Len(p.stack), i + k + 1 \in Nat, end \in Nat, end <= Len(p.stack),
         NEW y, y = CopyResult(t, i, end, x, k), Ok(y.o)
  PROVE  Copying(p, T, y)
<1>1. PICK hit : hit = Hit(t, i, end, x, k)
  OBVIOUS
<1>2. PICK e : e = Move(x.o.stack[t + k].slot, x.o.stack[i + k].slot, x.o.stack[i + k].type)
  OBVIOUS
<1>x. /\ Frame(p, x.o) /\ x.o.use = p.use /\ x.o.reg = p.reg /\ x.o.maxConst = p.maxConst /\ x.o.err = p.err
      /\ DOMAIN x.o.stack = DOMAIN p.stack
      /\ \A j \in DOMAIN p.stack : Located(x.o.stack[j], x.o.maxStackSlots)
      /\ CodeFits(x.o.code, x.o.maxStackSlots, T)
      /\ x.temp \in Nat
  BY DEF Copying
<1>d. DOMAIN x = {"o", "temp"} /\ DOMAIN x.o = Fields /\ x.o.maxStackSlots \in Nat /\ x.o.maxStackSlots >= p.maxStackSlots
  BY <1>x DEF CopyPlace, Frame
<1>s. DOMAIN p.stack = 1..Len(p.stack) /\ Len(p.stack) \in Nat
  OBVIOUS
<1>e. PlacesOf(e) = {x.o.stack[t + k].slot}
  BY <1>2 DEF PlacesOf, Move
<1>l. Located(x.o.stack[t + k], x.o.maxStackSlots)
  BY <1>s, <1>x
<1>f. \A top \in Nat : top >= x.o.maxStackSlots => Fits(e, top, T)
  <2>1. ASSUME NEW top \in Nat, top >= x.o.maxStackSlots
        PROVE  Fits(e, top, T)
    <3>1. PICK s \in Nat : s = x.o.stack[t + k].slot /\ s \in Registers \cup 0..(x.o.maxStackSlots - 1)
      BY <1>l DEF Located
    <3>2. s \in Registers \cup 0..(top - 1)
      BY <1>d, <2>1, <3>1
    <3>. QED BY <1>e, <3>1, <3>2 DEF Fits
  <2>. QED BY <2>1
<1>c. CopyCases(x, hit, e, y)
  BY <1>1, <1>2, CopyResultIs
<1>3. CASE y = x
  BY <1>3
<1>4. ASSUME y = [x EXCEPT !.o = Throw(@, "function stack overflow")]  PROVE FALSE
  <2>1. y.o = Throw(x.o, "function stack overflow")
    BY <1>4, <1>d
  <2>2. ~Ok(Throw(x.o, "function stack overflow"))
    BY <1>d, ThrowErrs
  <2>. QED BY <2>1, <2>2
<1>5. CASE y = [o |-> Emit(x.o, e), temp |-> x.temp]
  <2>1. y.o = Emit(x.o, e) /\ y.temp = x.temp
    BY <1>5
  <2>2. /\ Adds(x.o, y.o) /\ y.o.code = Append(x.o.code, e) /\ y.o.maxStackSlots = x.o.maxStackSlots
    BY <1>d, <2>1, EmitAdds
  <2>3. CodeFits(y.o.code, y.o.maxStackSlots, T)
    BY <1>d, <1>f, <1>x, <2>2, CodeFitsAppend
  <2>4. Frame(p, y.o)
    BY <1>x, <2>2, FrameTransitive DEF Adds, SameOperands
  <2>. QED BY <1>x, <2>1, <2>2, <2>3, <2>4 DEF Copying, Adds, SameOperands
<1>6. CASE hit # {} /\ y = [o |-> Emit(MovedAway(x, Min(hit)), e), temp |-> x.temp + 2]
  <2>1. PICK c : c = Min(hit)
    OBVIOUS
  <2>2. c \in 1..Len(p.stack)
    <3>1. hit \subseteq Nat /\ \A z \in hit : z <= end /\ z >= i + k + 1
      BY <1>1 DEF Hit
    <3>2. c \in hit
      BY <1>6, <2>1, <3>1, MinOf
    <3>3. c \in Nat /\ c <= end /\ c >= i + k + 1
      BY <3>1, <3>2
    <3>. QED BY <1>s, <3>3
  <2>3. PICK f : f = Move(x.temp, x.o.stack[c].slot, x.o.stack[c].type)
    OBVIOUS
  <2>4. PICK v : v = Emit(x.o, f)
    OBVIOUS
  <2>5. PICK w : w = [v EXCEPT !.stack[c].slot = x.temp]
    OBVIOUS
  <2>6. PICK z : z = TouchSlot(w, x.temp + 1)
    OBVIOUS
  <2>7. y.o = Emit(z, e) /\ y.temp = x.temp + 2 /\ y.temp \in Nat
    <3>1. y = [o |-> Emit(MovedAway(x, c), e), temp |-> x.temp + 2]
      BY <1>6, <2>1
    <3>2. y.o = Emit(MovedAway(x, c), e) /\ y.temp = x.temp + 2
      BY <3>1
    <3>3. MovedAway(x, c) = z
      BY <2>3, <2>4, <2>5, <2>6 DEF MovedAway, CopyStackIndexToSlot
    <3>. QED BY <1>x, <3>2, <3>3
  <2>8. Adds(x.o, v) /\ v.code = Append(x.o.code, f) /\ v.maxStackSlots = x.o.maxStackSlots
    BY <1>d, <2>4, EmitAdds
  <2>9. /\ v.stack = x.o.stack /\ v.use = p.use /\ v.reg = p.reg /\ v.maxConst = p.maxConst /\ v.err = p.err
        /\ DOMAIN v = Fields /\ Frame(p, v)
    <3>1. Frame(p, v)
      BY <1>x, <2>8, FrameTransitive DEF Adds, SameOperands
    <3>2. DOMAIN v = Fields
      BY <3>1 DEF Frame
    <3>. QED BY <1>x, <2>8, <3>1, <3>2 DEF Adds, SameOperands
  <2>10. /\ DOMAIN w = Fields /\ w.use = p.use /\ w.reg = p.reg /\ w.maxConst = p.maxConst /\ w.err = p.err
         /\ w.code = v.code /\ w.maxStackSlots = v.maxStackSlots /\ Frame(p, w)
         /\ w.stack = [x.o.stack EXCEPT ![c].slot = x.temp]
    <3>1. w.stack = [v.stack EXCEPT ![c].slot = x.temp]
      BY <2>5, <2>9 DEF Fields
    <3>2. /\ DOMAIN w = Fields /\ w.use = v.use /\ w.reg = v.reg /\ w.maxConst = v.maxConst /\ w.err = v.err
          /\ w.code = v.code /\ w.maxStackSlots = v.maxStackSlots /\ w.blocks = v.blocks /\ w.numLocals = v.numLocals
          /\ w.firstConst = v.firstConst /\ w.firstDynamic = v.firstDynamic /\ w.over = v.over /\ w.ways = v.ways
      BY <2>5, <2>9
    <3>3. Frame(p, w)
      BY <2>9, <3>2 DEF Frame
    <3>. QED BY <2>9, <3>1, <3>2, <3>3
  <2>11. Adds(w, z) /\ z.code = w.code /\ z.maxStackSlots > x.temp + 1
    <3>1. x.temp + 1 \in Nat /\ w.maxStackSlots \in Nat
      BY <1>d, <1>x, <2>8, <2>10
    <3>. QED BY <2>6, <3>1, TouchIs
  <2>12. /\ Frame(p, z) /\ z.stack = w.stack /\ z.use = p.use /\ z.reg = p.reg /\ z.maxConst = p.maxConst /\ z.err = p.err
         /\ z.maxStackSlots \in Nat /\ z.maxStackSlots >= x.o.maxStackSlots
    <3>1. Frame(p, z)
      BY <2>10, <2>11, FrameTransitive DEF Adds, SameOperands
    <3>. QED BY <2>8, <2>10, <2>11, <3>1 DEF Adds, SameOperands, Frame
  <2>13. /\ Adds(z, y.o) /\ y.o.code = Append(z.code, e) /\ y.o.maxStackSlots = z.maxStackSlots
    BY <2>7, <2>12, EmitAdds
  <2>14. CodeFits(y.o.code, y.o.maxStackSlots, T)
    <3>1. CodeFits(x.o.code, z.maxStackSlots, T)
      BY <1>d, <1>x, <2>12, CodeFitsMore
    <3>2. Fits(f, z.maxStackSlots, T)
      <4>1. PlacesOf(f) = {x.temp}
        BY <2>3 DEF PlacesOf, Move
      <4>2. x.temp \in 0..(z.maxStackSlots - 1)
        BY <1>x, <2>11, <2>12
      <4>. QED BY <4>1, <4>2 DEF Fits
    <3>3. CodeFits(z.code, z.maxStackSlots, T)
      BY <2>8, <2>10, <2>11, <3>1, <3>2, CodeFitsAppend
    <3>4. Fits(e, z.maxStackSlots, T)
      BY <1>f, <2>12
    <3>. QED BY <2>13, <3>3, <3>4, CodeFitsAppend
  <2>15. y.o.stack = [x.o.stack EXCEPT ![c].slot = x.temp]
    BY <2>10, <2>12, <2>13 DEF Adds, SameOperands
  <2>16. ASSUME NEW j \in DOMAIN p.stack  PROVE Located(y.o.stack[j], y.o.maxStackSlots)
    <3>1. Located(x.o.stack[j], x.o.maxStackSlots)
      BY <1>x
    <3>2. CASE j = c
      <4>1. PICK a : a = x.o.stack[c]
        OBVIOUS
      <4>2. y.o.stack[j] = [a EXCEPT !.slot = x.temp]
        BY <1>x, <2>15, <3>2, <4>1
      <4>3. DOMAIN a = {"slot", "type"} /\ a.type \in EntryTypes
        BY <3>1, <3>2, <4>1 DEF Located
      <4>4. x.temp \in 0..(y.o.maxStackSlots - 1)
        BY <1>x, <2>11, <2>12, <2>13
      <4>. QED BY <1>x, <4>2, <4>3, <4>4 DEF Located
    <3>3. CASE j # c
      <4>1. y.o.stack[j] = x.o.stack[j]
        BY <1>x, <2>15, <3>3
      <4>2. y.o.maxStackSlots \in Nat /\ y.o.maxStackSlots >= x.o.maxStackSlots
        BY <2>12, <2>13
      <4>3. PICK a, top, more : a = x.o.stack[j] /\ top = x.o.maxStackSlots /\ more = y.o.maxStackSlots
        OBVIOUS
      <4>4. Located(a, top) /\ top \in Nat /\ more \in Nat /\ more >= top
        BY <1>d, <3>1, <4>2, <4>3
      <4>5. Located(a, more)
        BY <4>4 DEF Located
      <4>. QED BY <4>1, <4>3, <4>5
    <3>. QED BY <3>2, <3>3
  <2>17. DOMAIN y.o.stack = DOMAIN p.stack
    BY <1>x, <2>15
  <2>18. Frame(p, y.o)
    BY <2>12, <2>13, FrameTransitive DEF Adds, SameOperands
  <2>. QED BY <2>7, <2>12, <2>13, <2>14, <2>16, <2>17, <2>18 DEF Copying, Adds, SameOperands
<1>. QED BY <1>3, <1>4, <1>5, <1>6, <1>c DEF CopyCases

LEMMA CopiesSound ==
  ASSUME NEW p, NEW bs, NEW B, NEW T, Sound(p, bs, B, T, {}), NEW t \in Nat, NEW i \in Nat, NEW end \in Nat,
         end <= Len(p.stack), \A k \in 0..(end - i) : t + k \in 1..Len(p.stack), NEW temp \in Nat,
         NEW q, q = CopyStackSlotsR(p, t, i, end, temp), Ok(q)
  PROVE  Sound(q, bs, B, T, {}) /\ Adds(p, q)
<1>n. DOMAIN p = Fields /\ p.maxStackSlots \in Nat /\ p.stack \in Seq(Entries) /\ Ok(p) /\ Len(p.stack) \in Nat
  BY SoundNumbers
<1>0. PICK s : s = [k \in 1..(end - i + 1) |-> k - 1]
  OBVIOUS
<1>1. PICK n \in Nat : DOMAIN s = 1..n /\ (n = 0 \/ n = end - i + 1)
  <2>1. CASE end - i + 1 >= 0
    <3>1. end - i + 1 \in Nat /\ DOMAIN s = 1..(end - i + 1)
      BY <1>0, <2>1
    <3>. QED BY <3>1
  <2>2. CASE ~(end - i + 1 >= 0)
    <3>1. DOMAIN s = 1..0
      BY <1>0, <2>2
    <3>. QED BY <3>1
  <2>. QED BY <2>1, <2>2
<1>2. PICK x0 : x0 = [o |-> p, temp |-> temp]
  OBVIOUS
<1>3. PICK g : Steps(g, "copy", <<t, i, end>>, x0, s, n) /\ CopiedResults(p, t, i, end, temp, s) = g[n]
  BY <1>1, <1>2, CopySteps
<1>4. g[0] = x0 /\ \A k \in 1..n : g[k] = CopyResult(t, i, end, g[k - 1], k - 1)
  <2>0. PICK a : a = <<t, i, end>>
    OBVIOUS
  <2>1. a = <<t, i, end>> /\ a[1] = t /\ a[2] = i /\ a[3] = end
    BY <2>0
  <2>2. g[0] = x0 /\ \A k \in 1..n : g[k] = CopyResult(a[1], a[2], a[3], g[k - 1], s[k])
    BY <1>3, <2>1 DEF Steps, Do
  <2>3. \A k \in 1..n : s[k] = k - 1
    BY <1>0, <1>1
  <2>. QED BY <2>1, <2>2, <2>3
<1>5. q = [g[n].o EXCEPT !.stack = p.stack]
  BY <1>0, <1>3, CopiedResultsIs
<1>6. PICK S : S = {k \in 0..n : CopyPlace(p, g[k]) /\ (Ok(g[k].o) => Copying(p, T, g[k]))}
  OBVIOUS
<1>7. 0 \in S
  <2>1. g[0].o = p /\ g[0].temp = temp /\ DOMAIN g[0] = {"o", "temp"}
    BY <1>2, <1>4
  <2>2. CodeFits(p.code, p.maxStackSlots, T)
    BY SoundCode
  <2>3. ASSUME NEW j \in DOMAIN p.stack  PROVE Located(p.stack[j], p.maxStackSlots)
    <3>1. j \in 1..Len(p.stack)
      BY <1>n, <2>3
    <3>2. /\ p.stack[j] \in Entries /\ p.stack[j].slot \in Nat /\ p.stack[j].slot <= MaxSlots + 1
          /\ p.stack[j].type \in EntryTypes
      BY <1>n, <3>1, EntryIs
    <3>3. p.stack[j].slot < MaxSlots => p.stack[j].slot < p.maxStackSlots
      <4>1. Placed(p, bs)
        BY SoundParts
      <4>. QED BY <3>1, <4>1 DEF Placed, EntryFits
    <3>4. DOMAIN p.stack[j] = {"slot", "type"}
      BY <3>2 DEF Entries
    <3>5. MaxSlots \in Nat /\ Registers = {MaxSlots, MaxSlots + 1}
      BY Limits
    <3>. QED BY <1>n, <3>2, <3>3, <3>4, <3>5 DEF Located
  <2>4. Copying(p, T, g[0])
    BY <1>n, <2>1, <2>2, <2>3, FrameReflexive DEF Copying
  <2>. QED BY <1>6, <1>n, <2>1, <2>4 DEF CopyPlace
<1>8. ASSUME NEW k \in 1..n, k - 1 \in S  PROVE k \in S
  <2>1. g[k] = CopyResult(t, i, end, g[k - 1], k - 1)
    BY <1>4
  <2>2. CopyPlace(p, g[k - 1]) /\ (Ok(g[k - 1].o) => Copying(p, T, g[k - 1]))
    BY <1>6, <1>8
  <2>3. CopyPlace(p, g[k])
    BY <2>1, <2>2, CopyPlaces
  <2>4. ASSUME Ok(g[k].o)  PROVE Copying(p, T, g[k])
    <3>1. Ok(g[k - 1].o)
      BY <2>1, <2>4, CopyErrs
    <3>2. /\ k - 1 \in Nat /\ t + (k - 1) \in 1..Len(p.stack) /\ i + (k - 1) + 1 \in Nat
      <4>1. k - 1 \in 0..(end - i)
        BY <1>1, <1>8
      <4>2. PICK j \in Nat : j = k - 1 /\ j \in 0..(end - i)
        BY <4>1
      <4>3. t + j \in 1..Len(p.stack)
        BY <4>2
      <4>5. i + j + 1 \in Nat
        BY <4>2
      <4>. QED BY <4>2, <4>3, <4>5
    <3>. QED BY <1>n, <2>1, <2>2, <2>4, <3>1, <3>2, CopyingOne
  <2>. QED BY <1>6, <2>3, <2>4
<1>9. n \in S
  <2>1. \A k \in 1..n : k - 1 \in S => k \in S
    BY <1>8
  <2>2. \A k \in 0..n : k \in S
    BY <1>7, <2>1, Upwards
  <2>. QED BY <2>2
<1>10. PICK x : x = g[n].o
  OBVIOUS
<1>11. DOMAIN x = Fields /\ q = [x EXCEPT !.stack = p.stack] /\ q.err = x.err
  BY <1>5, <1>6, <1>9, <1>10 DEF CopyPlace
<1>12. Copying(p, T, g[n])
  BY <1>6, <1>9, <1>10, <1>11 DEF Ok
<1>13. /\ Frame(p, x) /\ x.use = p.use /\ x.reg = p.reg /\ x.maxConst = p.maxConst /\ x.err = p.err
       /\ CodeFits(x.code, x.maxStackSlots, T)
  BY <1>10, <1>12 DEF Copying
<1>14. /\ DOMAIN q = DOMAIN x /\ q.stack = p.stack /\ q.use = x.use /\ q.reg = x.reg /\ q.maxConst = x.maxConst
       /\ q.code = x.code /\ q.maxStackSlots = x.maxStackSlots /\ q.blocks = x.blocks /\ q.numLocals = x.numLocals
       /\ q.firstConst = x.firstConst /\ q.firstDynamic = x.firstDynamic /\ q.over = x.over /\ q.ways = x.ways
  BY <1>11 DEF Fields
<1>15. Adds(p, q)
  BY <1>11, <1>13, <1>14 DEF Adds, SameOperands, Frame
<1>. QED BY <1>13, <1>14, <1>15, AddsSound

\* An error in it leaves blocks and stack where they are.
LEMMA CopiesPlace ==
  ASSUME NEW p, DOMAIN p = Fields, NEW t, NEW i \in Int, NEW end \in Int, NEW temp,
         NEW q, q = CopyStackSlotsR(p, t, i, end, temp)
  PROVE  q.blocks = p.blocks /\ q.stack = p.stack /\ DOMAIN q = Fields /\ (~Ok(p) => ~Ok(q))
<1>0. PICK s : s = [k \in 1..(end - i + 1) |-> k - 1]
  OBVIOUS
<1>1. PICK n \in Nat : DOMAIN s = 1..n
  <2>1. CASE end - i + 1 >= 0
    <3>1. end - i + 1 \in Nat /\ DOMAIN s = 1..(end - i + 1)
      BY <1>0, <2>1
    <3>. QED BY <3>1
  <2>2. CASE ~(end - i + 1 >= 0)
    <3>1. DOMAIN s = 1..0
      BY <1>0, <2>2
    <3>. QED BY <3>1
  <2>. QED BY <2>1, <2>2
<1>2. PICK x0 : x0 = [o |-> p, temp |-> temp]
  OBVIOUS
<1>3. PICK g : Steps(g, "copy", <<t, i, end>>, x0, s, n) /\ CopiedResults(p, t, i, end, temp, s) = g[n]
  BY <1>1, <1>2, CopySteps
<1>4. g[0] = x0 /\ \A k \in 1..n : g[k] = CopyResult(t, i, end, g[k - 1], s[k])
  <2>0. PICK a : a = <<t, i, end>>
    OBVIOUS
  <2>1. a = <<t, i, end>> /\ a[1] = t /\ a[2] = i /\ a[3] = end
    BY <2>0
  <2>2. g[0] = x0 /\ \A k \in 1..n : g[k] = CopyResult(a[1], a[2], a[3], g[k - 1], s[k])
    BY <1>3, <2>1 DEF Steps, Do
  <2>. QED BY <2>1, <2>2
<1>5. q = [g[n].o EXCEPT !.stack = p.stack]
  BY <1>0, <1>3, CopiedResultsIs
<1>6. PICK S : S = {k \in 0..n : CopyPlace(p, g[k]) /\ (~Ok(p) => ~Ok(g[k].o))}
  OBVIOUS
<1>7. 0 \in S
  <2>1. g[0].o = p /\ DOMAIN g[0] = {"o", "temp"}
    BY <1>2, <1>4
  <2>. QED BY <1>6, <2>1 DEF CopyPlace
<1>8. ASSUME NEW k \in 1..n, k - 1 \in S  PROVE k \in S
  <2>1. g[k] = CopyResult(t, i, end, g[k - 1], s[k])
    BY <1>4
  <2>2. CopyPlace(p, g[k - 1]) /\ (~Ok(p) => ~Ok(g[k - 1].o))
    BY <1>6, <1>8
  <2>3. CopyPlace(p, g[k])
    BY <2>1, <2>2, CopyPlaces
  <2>4. ~Ok(p) => ~Ok(g[k].o)
    BY <2>1, <2>2, CopyErrs
  <2>. QED BY <1>6, <2>3, <2>4
<1>9. n \in S
  <2>1. \A k \in 1..n : k - 1 \in S => k \in S
    BY <1>8
  <2>. QED BY <1>7, <2>1, Upwards
<1>10. CopyPlace(p, g[n]) /\ (~Ok(p) => ~Ok(g[n].o))
  BY <1>6, <1>9
<1>11. DOMAIN g[n].o = Fields /\ g[n].o.blocks = p.blocks
  BY <1>10 DEF CopyPlace
<1>12. q.err = g[n].o.err /\ DOMAIN q = Fields /\ q.stack = p.stack /\ q.blocks = p.blocks
  BY <1>5, <1>11 DEF Fields
<1>. QED BY <1>10, <1>12 DEF Ok

LEMMA AllocatePlace ==
  ASSUME NEW p, DOMAIN p = Fields, NEW t, NEW start, NEW end
  PROVE  LET q == AllocateWithin(p, t, start, end)
         IN  DOMAIN q = Fields /\ q.blocks = p.blocks /\ q.stack = p.stack /\ q.numLocals = p.numLocals
<1>1. PICK q : q = AllocateWithin(p, t, start, end)
  OBVIOUS
<1>2. CASE FreeSlots(p, t, start, end) = {}
  <2>1. PICK v : v = [p EXCEPT !.got = Unused]
    OBVIOUS
  <2>2. q = Throw(v, "function stack overflow")
    BY <1>1, <1>2, <2>1 DEF AllocateWithin
  <2>3. DOMAIN v = Fields /\ v.blocks = p.blocks /\ v.stack = p.stack /\ v.numLocals = p.numLocals
    BY <2>1
  <2>4. q = v \/ q = [v EXCEPT !.err = "function stack overflow"]
    BY <2>2 DEF Throw
  <2>5. DOMAIN q = Fields /\ q.blocks = v.blocks /\ q.stack = v.stack /\ q.numLocals = v.numLocals
    <3>1. CASE q = v
      BY <2>3, <3>1
    <3>2. CASE q = [v EXCEPT !.err = "function stack overflow"]
      BY <2>3, <3>2 DEF Fields
    <3>. QED BY <2>4, <3>1, <3>2
  <2>. QED BY <1>1, <2>3, <2>5
<1>3. CASE FreeSlots(p, t, start, end) # {}
  <2>1. PICK g : g = Min(FreeSlots(p, t, start, end))
    OBVIOUS
  <2>2. PICK v : v = MarkSlotsAllocated(p, g, t)
    OBVIOUS
  <2>3. DOMAIN v = Fields /\ v.blocks = p.blocks /\ v.stack = p.stack /\ v.numLocals = p.numLocals
    BY <2>2 DEF MarkSlotsAllocated, TouchSlot
  <2>4. q = [v EXCEPT !.got = g]
    BY <1>1, <1>3, <2>1, <2>2 DEF AllocateWithin
  <2>. QED BY <1>1, <2>3, <2>4
<1>. QED BY <1>2, <1>3

\* An error leaves the blocks and the stack where they are.
ErrsAt(p, q) == ~Ok(q) => DOMAIN q = Fields /\ q.blocks = p.blocks /\ q.stack = p.stack /\ q.numLocals = p.numLocals

LEMMA PreservePlace ==
  ASSUME NEW p, DOMAIN p = Fields, NEW r, NEW q, q = PreserveRegister(p, r)
  PROVE  ErrsAt(p, q)
<1>1. CASE q = p
  BY <1>1 DEF ErrsAt
<1>2. CASE q # p
  <2>1. PICK v : v = [p EXCEPT !.reg[r] = 0]
    OBVIOUS
  <2>2. DOMAIN v = Fields /\ v.blocks = p.blocks /\ v.stack = p.stack /\ v.numLocals = p.numLocals
    BY <2>1
  <2>3. PICK i : i = p.reg[r]
    OBVIOUS
  <2>4. PICK a : a = AllocateSlots(v, p.stack[i].type)
    OBVIOUS
  <2>5. DOMAIN a = Fields /\ a.blocks = p.blocks /\ a.stack = p.stack /\ a.numLocals = p.numLocals
    BY <2>2, <2>4, AllocatePlace DEF AllocateSlots
  <2>6. CASE ~Ok(a)
    <3>1. q = a
      BY <1>2, <2>1, <2>3, <2>4, <2>6 DEF PreserveRegister, Then
    <3>. QED BY <2>5, <3>1 DEF ErrsAt
  <2>7. CASE Ok(a)
    <3>1. PICK w : w = [a EXCEPT !.stack[i].slot = a.got]
      OBVIOUS
    <3>2. q = Emit(w, Move(a.got, r, a.stack[i].type))
      BY <1>2, <2>1, <2>3, <2>4, <2>7, <3>1 DEF PreserveRegister, Then
    <3>3. w.err = a.err /\ Emit(w, Move(a.got, r, a.stack[i].type)).err = w.err
      BY <3>1 DEF Emit
    <3>. QED BY <2>7, <3>2, <3>3 DEF ErrsAt, Ok
  <2>. QED BY <2>6, <2>7
<1>. QED BY <1>1, <1>2

LEMMA CopyTopPlace ==
  ASSUME NEW p, DOMAIN p = Fields, NEW q, q = CopyStackTopToRegister(p)
  PROVE  ErrsAt(p, q)
<1>1. PICK t : t = TypeFromTop(p, 0)
  OBVIOUS
<1>2. PICK v : v = PreserveRegister(p, RegisterOf(t))
  OBVIOUS
<1>3. PICK e : e = Move(RegisterOf(t), FromTop(v, 0).slot, t)
  OBVIOUS
<1>4. q = p \/ q = IF Ok(v) THEN Emit(v, e) ELSE v
  BY <1>1, <1>2, <1>3 DEF CopyStackTopToRegister, PreserveRegisterOfType, Then
<1>5. ErrsAt(p, v)
  BY <1>2, PreservePlace
<1>6. Emit(v, e).err = v.err
  BY DEF Emit
<1>. QED BY <1>4, <1>5, <1>6 DEF ErrsAt, Ok

\* How many values a branch to the block, or its end, leaves there.
Carried(b, isBranch) == IF b.opcode = "loop" /\ isBranch THEN b.params ELSE b.results
ResolveCases(p, d, isBranch, n, q) ==
  \/ q = Throw(p, "type count mismatch")
  \/ q = p
  \/ /\ n # 0
     /\ IF isBranch THEN ~(NumBlockValues(p) < n) ELSE NumBlockValues(p) = n
     /\ ~(p.blocks[d].opcode = "loop" /\ isBranch)
     /\ \E inFp \in BOOLEAN : q = MovesResults(IF inFp THEN CopyStackTopToRegister(p) ELSE p, p, d, n, inFp)

LEMMA ResolveIs ==
  ASSUME NEW p, NEW d, p.blocks[d] \in Scopes, NEW isBranch \in BOOLEAN,
         NEW n, n = Len(Carried(p.blocks[d], isBranch)), NEW q, q = ResolveBlockResults(p, d, isBranch)
  PROVE  ResolveCases(p, d, isBranch, n, q)
<1>1. PICK b : b = p.blocks[d] /\ b \in Scopes
  OBVIOUS
<1>2. b.params = <<>> /\ Len(b.params) = 0 /\ b.exit \in Nat
  <2>1. b.params = <<>> /\ b.exit \in Nat
    BY <1>1 DEF Scopes
  <2>. QED BY <2>1
<1>3. PICK isLoop : isLoop = (b.opcode = "loop" /\ isBranch) /\ isLoop \in BOOLEAN
  OBVIOUS
<1>4. PICK inFp : inFp = (~isLoop /\ IsFpType(TypeFromTop(p, 0))) /\ inFp \in BOOLEAN
  OBVIOUS
<1>5. n = Len(IF isLoop THEN b.params ELSE b.results)
  BY <1>1, <1>3 DEF Carried
<1>6. b.exit + (IF isLoop THEN 0 ELSE Len(b.params)) = b.exit
  BY <1>2
<1>7. q = IF IF isBranch THEN NumBlockValues(p) < n ELSE NumBlockValues(p) # n
          THEN Throw(p, "type count mismatch")
          ELSE IF n = 0 THEN p
          ELSE MovesResults(IF inFp THEN CopyStackTopToRegister(p) ELSE p, p, d, n, inFp)
  BY <1>1, <1>3, <1>4, <1>5, <1>6 DEF ResolveBlockResults, MovesResults
<1>8. isLoop => n = 0
  BY <1>2, <1>5
<1>. QED BY <1>1, <1>3, <1>4, <1>7, <1>8 DEF ResolveCases

LEMMA ResolveSound ==
  ASSUME NEW p, NEW T, Good(p, T), NEW d \in 1..Len(p.blocks), NEW isBranch \in BOOLEAN,
         d > 1 \/ (p.blocks[d].opcode = "loop" /\ isBranch),
         NEW q, q = ResolveBlockResults(p, d, isBranch), Ok(q)
  PROVE  Good(q, T) /\ Keeps(p, q)
<1>1. Sound(p, p.blocks, Under(p.blocks), T, {}) /\ Nest(p.blocks)
  BY DEF Good
<1>n. /\ DOMAIN p = Fields /\ p.maxStackSlots \in Nat /\ Len(p.stack) \in Nat
      /\ Base(p.blocks) \in Nat /\ Base(p.blocks) <= Len(p.stack)
  BY <1>1, SoundNumbers
<1>b. /\ p.blocks \in Seq(Scopes) /\ Len(p.blocks) \in Nat /\ Len(p.blocks) > 0 /\ Block(p).base = Base(p.blocks)
  BY <1>1, InnermostBlock
<1>2. p.blocks[d] \in Scopes
  BY <1>b
<1>3. PICK n : n = Len(Carried(p.blocks[d], isBranch))
  OBVIOUS
<1>4. ResolveCases(p, d, isBranch, n, q)
  BY <1>2, <1>3, ResolveIs
<1>5. ASSUME q = Throw(p, "type count mismatch")  PROVE FALSE
  BY <1>5, <1>n, ThrowErrs
<1>6. CASE q = p
  BY <1>6, <1>n, KeepsReflexive
<1>7. ASSUME n # 0, IF isBranch THEN ~(NumBlockValues(p) < n) ELSE NumBlockValues(p) = n,
             ~(p.blocks[d].opcode = "loop" /\ isBranch),
             NEW inFp \in BOOLEAN, q = MovesResults(IF inFp THEN CopyStackTopToRegister(p) ELSE p, p, d, n, inFp)
      PROVE  Good(q, T) /\ Keeps(p, q)
  <2>1. PICK v : v = IF inFp THEN CopyStackTopToRegister(p) ELSE p
    OBVIOUS
  <2>2. PICK end : end = Len(p.stack) - (IF inFp THEN 1 ELSE 0)
    OBVIOUS
  <2>3. PICK exit \in Nat : exit = p.blocks[d].exit
    BY <1>2 DEF Scopes
  <2>4. n \in Nat /\ n = Len(p.blocks[d].results) /\ p.blocks[d].base = exit + n /\ p.blocks[d].base <= Base(p.blocks)
    <3>1. d \in 2..Len(p.blocks)
      BY <1>7, <1>b
    <3>2. Nested(p.blocks[d - 1], p.blocks[d])
      BY <1>1, <3>1 DEF Nest
    <3>3. n = Len(p.blocks[d].results)
      BY <1>3, <1>7 DEF Carried
    <3>4. p.blocks[d].results \in Seq(Types)
      BY <1>2 DEF Scopes
    <3>5. n \in Nat
      BY <3>3, <3>4
    <3>6. p.blocks[d].base <= Base(p.blocks)
      BY <1>1, <1>b, BasesGrow
    <3>. QED BY <2>3, <3>2, <3>3, <3>5, <3>6 DEF Nested
  <2>5. PICK len \in Nat : len = Len(p.stack)
    BY <1>n
  <2>6. exit + n + n <= len
    <3>1. NumBlockValues(p) = len - Base(p.blocks)
      BY <1>b, <2>5 DEF NumBlockValues
    <3>2. len - Base(p.blocks) >= n
      BY <1>7, <1>n, <2>4, <2>5, <3>1
    <3>3. exit + n <= Base(p.blocks)
      BY <2>4
    <3>. QED BY <1>n, <2>4, <3>2, <3>3
  <2>m. PICK h \in Nat : h = n /\ h > 0
    BY <1>7, <2>4
  <2>l. len >= h
    BY <2>3, <2>6, <2>m
  <2>7. PICK i \in Nat : i = len - n + 1
    <3>1. len - h + 1 \in Nat
      BY <2>l
    <3>. QED BY <2>m, <3>1
  <2>8. end \in Nat /\ end <= len
    <3>1. len - 1 \in Nat
      BY <2>l, <2>m
    <3>2. end = len - 1 \/ end = len
      <4>1. CASE inFp
        BY <2>2, <2>5, <4>1
      <4>2. CASE ~inFp
        BY <2>2, <2>5, <4>2
      <4>. QED BY <4>1, <4>2
    <3>. QED BY <3>1, <3>2
  <2>9. q = CopyStackSlotsR(v, exit + 1, i, end, AlignSlotToType(v.maxStackSlots, "i64"))
    BY <1>7, <2>1, <2>2, <2>3, <2>5, <2>7 DEF MovesResults
  <2>10. DOMAIN v = Fields
    <3>1. CASE inFp
      <4>1. ErrsAt(p, v)
        BY <1>n, <2>1, <3>1, CopyTopPlace
      <4>2. CASE Ok(v)
        <5>1. Sound(v, p.blocks, Under(p.blocks), T, {})
          BY <1>1, <2>1, <3>1, <4>2, CopyTopSound
        <5>. QED BY <5>1, SoundNumbers
      <4>. QED BY <4>1, <4>2 DEF ErrsAt
    <3>. QED BY <1>n, <2>1, <3>1
  <2>11. Ok(v)
    BY <2>7, <2>8, <2>9, <2>10, CopiesPlace
  <2>12. Sound(v, p.blocks, Under(p.blocks), T, {}) /\ Keeps(p, v)
    <3>1. CASE inFp
      BY <1>1, <2>1, <2>11, <3>1, CopyTopSound
    <3>. QED BY <1>1, <1>n, <2>1, <3>1, KeepsReflexive
  <2>13. Len(v.stack) = len /\ v.blocks = p.blocks
    BY <2>5, <2>12 DEF Keeps, Frame
  <2>14. \A k \in 0..(end - i) : exit + 1 + k \in 1..Len(v.stack)
    <3>1. ASSUME NEW k \in 0..(end - i)  PROVE exit + 1 + k \in 1..len
      <4>1. end - i <= n - 1
        BY <2>4, <2>7, <2>8
      <4>2. k \in Nat /\ k <= n - 1
        BY <2>4, <2>7, <2>8, <4>1
      <4>. QED BY <2>4, <2>6, <4>2
    <3>. QED BY <2>13, <3>1
  <2>15. AlignSlotToType(v.maxStackSlots, "i64") \in Nat /\ exit + 1 \in Nat
    <3>1. v.maxStackSlots \in Nat
      BY <2>12, SoundNumbers
    <3>2. NumSlots("i64") = 2
      BY DEF NumSlots
    <3>. QED BY <3>1, <3>2 DEF AlignSlotToType
  <2>16. Sound(q, p.blocks, Under(p.blocks), T, {}) /\ Adds(v, q)
    BY <2>8, <2>9, <2>12, <2>13, <2>14, <2>15, CopiesSound
  <2>17. Keeps(p, q)
    <3>1. Keeps(v, q)
      BY <2>16, AddsKeeps DEF Adds
    <3>. QED BY <1>n, <2>12, <3>1, KeepsTransitive
  <2>18. q.blocks = p.blocks
    BY <2>17 DEF Keeps, Frame
  <2>. QED BY <1>1, <2>16, <2>17, <2>18 DEF Good
<1>. QED BY <1>4, <1>5, <1>6, <1>7 DEF ResolveCases

LEMMA ResolvePlace ==
  ASSUME NEW p, Placeable(p), DOMAIN p = Fields, NEW T, Ok(p) => Good(p, T), NEW d \in 1..Len(p.blocks), NEW isBranch \in BOOLEAN,
         NEW q, q = ResolveBlockResults(p, d, isBranch)
  PROVE  (~Ok(q) => Placeable(q) /\ q.blocks = p.blocks /\ DOMAIN q = Fields) /\ (~Ok(p) => ~Ok(q))
<1>b. p.blocks \in Seq(Scopes) /\ Len(p.blocks) > 0 /\ Len(p.stack) \in Nat
  BY DEF Placeable
<1>2. p.blocks[d] \in Scopes
  BY <1>b
<1>3. PICK n : n = Len(Carried(p.blocks[d], isBranch))
  OBVIOUS
<1>4. ResolveCases(p, d, isBranch, n, q)
  BY <1>2, <1>3, ResolveIs
<1>5. n \in Nat
  <2>1. Carried(p.blocks[d], isBranch) = <<>> \/ Carried(p.blocks[d], isBranch) \in Seq(Types)
    BY <1>2 DEF Carried, Scopes
  <2>. QED BY <1>3, <2>1
<1>6. CASE q = Throw(p, "type count mismatch")
  <2>1. q = p \/ q = [p EXCEPT !.err = "type count mismatch"]
    BY <1>6 DEF Throw
  <2>2. DOMAIN q = Fields /\ q.blocks = p.blocks /\ q.stack = p.stack
    <3>1. CASE q = p
      BY <3>1
    <3>2. CASE q = [p EXCEPT !.err = "type count mismatch"]
      BY <3>2 DEF Fields
    <3>. QED BY <2>1, <3>1, <3>2
  <2>3. ~Ok(q)
    BY <1>6, ThrowErrs
  <2>. QED BY <1>b, <2>2, <2>3 DEF Placeable
<1>7. CASE q = p
  BY <1>7
<1>8. ASSUME NEW inFp \in BOOLEAN, q = MovesResults(IF inFp THEN CopyStackTopToRegister(p) ELSE p, p, d, n, inFp)
      PROVE  (~Ok(q) => Placeable(q) /\ q.blocks = p.blocks /\ DOMAIN q = Fields) /\ (~Ok(p) => ~Ok(q))
  <2>1. PICK v : v = IF inFp THEN CopyStackTopToRegister(p) ELSE p
    OBVIOUS
  <2>2. PICK len \in Nat : len = Len(p.stack)
    BY <1>b
  <2>3. DOMAIN v = Fields /\ v.blocks = p.blocks /\ Len(v.stack) = len /\ (~Ok(p) => ~Ok(v))
    <3>1. CASE ~inFp
      BY <2>1, <2>2, <3>1
    <3>2. CASE inFp
      <4>1. ErrsAt(p, v) /\ (~Ok(p) => ~Ok(v))
        BY <2>1, <3>2, CopyTopPlace, CopyTopErrs
      <4>2. CASE Ok(v)
        <5>1. Sound(p, p.blocks, Under(p.blocks), T, {})
          BY <4>1, <4>2 DEF Good
        <5>2. Sound(v, p.blocks, Under(p.blocks), T, {}) /\ Keeps(p, v)
          BY <2>1, <3>2, <4>2, <5>1, CopyTopSound
        <5>3. DOMAIN v = Fields
          BY <5>2, SoundNumbers
        <5>. QED BY <2>2, <4>1, <5>2, <5>3 DEF Keeps, Frame
      <4>. QED BY <2>2, <4>1, <4>2 DEF ErrsAt
    <3>. QED BY <3>1, <3>2
  <2>4. PICK i \in Int : i = len - n + 1
    BY <1>5
  <2>5. PICK end \in Int : end = len - (IF inFp THEN 1 ELSE 0)
    OBVIOUS
  <2>6. q = CopyStackSlotsR(v, p.blocks[d].exit + 1, i, end, AlignSlotToType(v.maxStackSlots, "i64"))
    BY <1>8, <2>1, <2>2, <2>4, <2>5 DEF MovesResults
  <2>7. q.blocks = v.blocks /\ q.stack = v.stack /\ DOMAIN q = Fields /\ (~Ok(v) => ~Ok(q))
    BY <2>3, <2>6, CopiesPlace
  <2>. QED BY <1>b, <2>2, <2>3, <2>7 DEF Placeable
<1>. QED BY <1>4, <1>6, <1>7, <1>8 DEF ResolveCases

LEMMA LeaveSound ==
  ASSUME NEW p, NEW T, Good(p, T), Len(p.blocks) > 1, NEW q, q = LeaveBlock(p), Ok(q)
  PROVE  \E r : Good(r, T) /\ Keeps(p, r) /\ q = LeftBy(r)
<1>1. Sound(p, p.blocks, Under(p.blocks), T, {})
  BY DEF Good
<1>n. DOMAIN p = Fields /\ p.maxStackSlots \in Nat /\ Len(p.stack) \in Nat
  BY <1>1, SoundNumbers
<1>b. p.blocks \in Seq(Scopes) /\ Len(p.blocks) \in Nat /\ Len(p.blocks) \in 1..Len(p.blocks)
  BY <1>1, InnermostBlock
<1>2. PICK r : r = Resolved(p)
  OBVIOUS
<1>3. q = LeftBy(r)
  BY <1>2, LeaveIs
<1>4. CASE IsStackPolymorphic(p)
  <2>1. r = p
    BY <1>2, <1>4 DEF Resolved
  <2>. QED BY <1>3, <1>n, <2>1, KeepsReflexive
<1>5. CASE ~IsStackPolymorphic(p)
  <2>1. r = ResolveBlockResults(p, Len(p.blocks), FALSE)
    BY <1>2, <1>5 DEF Resolved
  <2>2. CASE Ok(r)
    <3>1. Good(r, T) /\ Keeps(p, r)
      BY <1>b, <2>1, <2>2, ResolveSound
    <3>. QED BY <1>3, <3>1
  <2>3. CASE ~Ok(r)
    <3>1. Placeable(p)
      BY <1>n, <1>b DEF Placeable
    <3>2. Placeable(r)
      BY <1>n, <1>b, <2>1, <2>3, <3>1, ResolvePlace, ZenonT(60)
    <3>3. ~Ok(q)
      BY <1>3, <2>3, <3>2, LeftErrs
    <3>. QED BY <3>3
  <2>. QED BY <2>2, <2>3
<1>. QED BY <1>4, <1>5

\* The end of a block, and of an if without results and without an else.
LEMMA LeaveGood ==
  ASSUME NEW p, NEW T, Good(p, T), Len(p.blocks) > 1, Block(p).opcode = "if" => Block(p).results = <<>>,
         NEW q, q = LeaveBlock(p), Ok(q)
  PROVE  Good(q, T) /\ q.ways = p.ways /\ DOMAIN q = Fields
<1>1. PICK r : Good(r, T) /\ Keeps(p, r) /\ q = LeftBy(r)
  BY LeaveSound
<1>2. r.blocks = p.blocks /\ r.ways = p.ways
  BY <1>1 DEF Keeps, Frame
<1>3. Block(r) = Block(p)
  BY <1>2 DEF Block
<1>4. CASE Block(p).opcode = "if"
  <2>1. PICK c : c = CutTo(q, Block(r).restart)
    OBVIOUS
  <2>2. Good(c, T) /\ Outside(r, c) /\ c = q
    BY <1>1, <1>2, <1>3, <1>4, <2>1, LeftIfSound
  <2>. QED BY <1>2, <2>2 DEF Outside
<1>5. CASE Block(p).opcode # "if"
  <2>1. Good(q, T) /\ Outside(r, q)
    BY <1>1, <1>2, <1>3, <1>5, LeftSound
  <2>. QED BY <1>2, <2>1 DEF Outside
<1>. QED BY <1>4, <1>5

\* The else of an if.
LEMMA ElseGood ==
  ASSUME NEW p, NEW T, Good(p, T), Len(p.blocks) > 1, Block(p).opcode = "if",
         NEW q, q = LeaveBlock(p), Ok(q), NEW e, e = CompileElseBlock(q, Block(p)), Ok(e)
  PROVE  /\ Good(e, {}) /\ DOMAIN e = Fields /\ e.ways = p.ways
         /\ CodeFits(q.code, e.maxStackSlots, T) /\ e.code = <<>>
<1>1. PICK r : Good(r, T) /\ Keeps(p, r) /\ q = LeftBy(r)
  BY LeaveSound
<1>2. r.blocks = p.blocks /\ r.ways = p.ways
  BY <1>1 DEF Keeps, Frame
<1>3. Block(r) = Block(p)
  BY <1>2 DEF Block
<1>4. Block(p).params = <<>> /\ Block(p).results \in Seq(Types)
  <2>1. Sound(p, p.blocks, Under(p.blocks), T, {})
    BY DEF Good
  <2>2. Block(p) \in Scopes
    BY <2>1, InnermostBlock
  <2>. QED BY <2>2 DEF Scopes
<1>5. /\ Good(e, {}) /\ e.code = <<>> /\ e.ways = r.ways /\ DOMAIN e = Fields
      /\ e.maxStackSlots \in Nat /\ e.maxStackSlots >= r.maxStackSlots
  BY <1>1, <1>2, <1>3, <1>4, ElseSound
<1>6. PICK c : c = CutTo(q, Block(r).restart)
  OBVIOUS
<1>7. Outside(r, q)
  BY <1>1, <1>2, <1>3, <1>6, LeftIfSound
<1>8. q.code = r.code
  BY <1>7 DEF Outside
<1>9. CodeFits(r.code, r.maxStackSlots, T) /\ r.maxStackSlots \in Nat
  <2>1. Sound(r, r.blocks, Under(r.blocks), T, {})
    BY <1>1 DEF Good
  <2>. QED BY <2>1, SoundCode
<1>10. CodeFits(q.code, e.maxStackSlots, T)
  BY <1>5, <1>8, <1>9, CodeFitsMore
<1>. QED BY <1>2, <1>5, <1>10

-----------------------------------------------------------------------------
(* Results of the function.                                                *)

ReturnCases(p, n, c, isBranch, q) ==
  \/ q = Throw(p, "type count mismatch") \/ q = Throw(p, "type mismatch")
  \/ q = IF isBranch THEN c ELSE PopN(c, n)

LEMMA ReturnIs ==
  ASSUME NEW p, NEW isBranch \in BOOLEAN, NEW n, n = Len(p.blocks[1].results),
         NEW c, c = IF IsStackPolymorphic(p) THEN p ELSE CopiedReturns(n, p, [k \in 1..n |-> k]),
         NEW q, q = ReturnValues(p, isBranch)
  PROVE  ReturnCases(p, n, c, isBranch, q)
<1>1. ReturnValues(p, isBranch) = ReturnDone(p, isBranch)
  BY DEF ReturnValues, ReturnDone, CopiedReturns, ReturnOne, FoldLeft, MapThenFoldSet
<1>. QED BY <1>1 DEF ReturnDone, ReturnCases

LEMMA ReturnSteps ==
  ASSUME NEW p, NEW n \in Nat, NEW m1, NEW q, DOMAIN q = 1..n
  PROVE  \E g : Steps(g, "return", m1, p, q, n) /\ CopiedReturns(m1, p, q) = g[n]
<1>. DEFINE Body(h) == [s \in SUBSET (DOMAIN q) |-> IF s = {} THEN p ELSE ReturnOne(m1, h[s \ {Max(s)}], q[Max(s)])]
<1>1. \A x, k : Do("return", m1, x, k) = ReturnOne(m1, x, k)
  BY DEF Do
<1>2. \A h : Body(h) = DoBody(h, "return", m1, p, q)
  BY <1>1 DEF DoBody
<1>. HIDE DEF Body
<1>3. \E h : h = Body(h)
  BY <1>2, FoldExists DEF DoneBy
<1>4. PICK f : f = Body(f) /\ CopiedReturns(m1, p, q) = f[DOMAIN q]
  BY <1>3 DEF Body, CopiedReturns, FoldLeft, MapThenFoldSet
<1>. QED BY <1>2, <1>4, FoldSteps DEF DoneBy

LEMMA ReturnsPlace ==
  ASSUME NEW p, DOMAIN p = Fields, NEW n \in Nat, NEW c, c = CopiedReturns(n, p, [k \in 1..n |-> k])
  PROVE  DOMAIN c = Fields /\ c.blocks = p.blocks /\ c.stack = p.stack /\ c.err = p.err
<1>0. PICK s : s = [k \in 1..n |-> k]
  OBVIOUS
<1>1. PICK g : Steps(g, "return", n, p, s, n) /\ c = g[n]
  BY <1>0, ReturnSteps
<1>2. g[0] = p /\ \A k \in 1..n : g[k] = ReturnOne(n, g[k - 1], s[k])
  BY <1>1 DEF Steps, Do
<1>. DEFINE S == {k \in 0..n : DOMAIN g[k] = Fields /\ g[k].blocks = p.blocks /\ g[k].stack = p.stack /\ g[k].err = p.err}
<1>3. 0 \in S
  BY <1>2
<1>4. ASSUME NEW k \in 1..n, k - 1 \in S  PROVE k \in S
  <2>1. PICK e : g[k] = Emit(g[k - 1], e)
    BY <1>2 DEF ReturnOne, CopyStackIndexToSlot
  <2>2. PICK x : x = g[k - 1]
    OBVIOUS
  <2>3. DOMAIN x = Fields /\ x.blocks = p.blocks /\ x.stack = p.stack /\ x.err = p.err
    BY <1>4, <2>2
  <2>4. DOMAIN Emit(x, e) = Fields /\ Emit(x, e).blocks = p.blocks /\ Emit(x, e).stack = p.stack /\ Emit(x, e).err = p.err
    BY <2>3 DEF Emit, Fields
  <2>. QED BY <2>1, <2>2, <2>4
<1>. HIDE DEF S
<1>5. \A k \in 1..n : k - 1 \in S => k \in S
  BY <1>4
<1>6. n \in S
  BY <1>3, <1>5, Upwards
<1>. QED BY <1>1, <1>6 DEF S

LEMMA ReturnsSound ==
  ASSUME NEW p, NEW bs, NEW B, NEW T, Sound(p, bs, B, T, {}), NEW n \in Nat, IoSlots * n <= p.firstConst,
         NEW c, c = CopiedReturns(n, p, [k \in 1..n |-> k])
  PROVE  Sound(c, bs, B, T, {}) /\ Frame(p, c)
<1>n. p.maxStackSlots \in Nat
  BY SoundNumbers
<1>p. PICK top \in Nat : top = p.maxStackSlots /\ 2 * n <= top
  <2>2. 2 * n <= p.firstConst
    BY DEF IoSlots
  <2>3. /\ p.firstConst \in Nat /\ p.maxConst \in Nat /\ p.firstDynamic \in Nat
        /\ p.firstConst <= p.maxConst /\ p.maxConst <= p.firstDynamic /\ p.firstDynamic <= p.maxStackSlots
    BY SoundNumbers
  <2>. QED BY <1>n, <2>2, <2>3
<1>0. PICK s : s = [k \in 1..n |-> k]
  OBVIOUS
<1>1. PICK g : Steps(g, "return", n, p, s, n) /\ c = g[n]
  BY <1>0, ReturnSteps
<1>2. g[0] = p /\ \A k \in 1..n : g[k] = ReturnOne(n, g[k - 1], k)
  BY <1>0, <1>1 DEF Steps, Do
<1>. DEFINE S == {k \in 0..n : Sound(g[k], bs, B, T, {}) /\ Frame(p, g[k])}
<1>3. 0 \in S
  BY <1>2, <1>n, FrameReflexive
<1>4. ASSUME NEW k \in 1..n, k - 1 \in S  PROVE k \in S
  <2>1. PICK x : x = g[k - 1] /\ Sound(x, bs, B, T, {}) /\ Frame(p, x)
    BY <1>4
  <2>2. PICK dst : dst = IoSlots * (n - k)
    OBVIOUS
  <2>3. PICK e : g[k] = Emit(x, e) /\ e.op = "move" /\ e.dst = dst
    <3>1. PICK e : e = Move(dst, x.stack[Len(x.stack) - k + 1].slot, x.stack[Len(x.stack) - k + 1].type)
      OBVIOUS
    <3>2. g[k] = Emit(x, e)
      BY <1>2, <2>1, <2>2, <3>1 DEF ReturnOne, CopyStackIndexToSlot
    <3>3. e.op = "move" /\ e.dst = dst
      BY <3>1 DEF Move
    <3>. QED BY <3>2, <3>3
  <2>4. dst \in 0..(top - 1)
    BY <1>p, <2>2 DEF IoSlots
  <2>5. x.maxStackSlots \in Nat /\ x.maxStackSlots >= top
    BY <1>p, <2>1 DEF Frame
  <2>6. Fits(e, x.maxStackSlots, T)
    <3>1. PlacesOf(e) = {dst}
      BY <2>3 DEF PlacesOf
    <3>2. dst \in 0..(x.maxStackSlots - 1)
      BY <2>4, <2>5
    <3>. QED BY <3>1, <3>2 DEF Fits
  <2>7. Sound(g[k], bs, B, T, {}) /\ Adds(x, g[k])
    BY <2>1, <2>3, <2>6, EmitSound
  <2>8. Frame(p, g[k])
    BY <1>n, <2>1, <2>7, FrameTransitive DEF Adds, SameOperands
  <2>. QED BY <2>7, <2>8
<1>. HIDE DEF S
<1>5. \A k \in 1..n : k - 1 \in S => k \in S
  BY <1>4
<1>6. n \in S
  BY <1>3, <1>5, Upwards
<1>. QED BY <1>1, <1>6 DEF S

LEMMA ReturnSound ==
  ASSUME NEW p, NEW T, Good(p, T), NEW isBranch \in BOOLEAN, NEW q, q = ReturnValues(p, isBranch), Ok(q)
  PROVE  Good(q, T) /\ Frame(p, q)
<1>1. Sound(p, p.blocks, Under(p.blocks), T, {}) /\ Nest(p.blocks)
  BY DEF Good
<1>n. DOMAIN p = Fields /\ p.maxStackSlots \in Nat
  BY <1>1, SoundNumbers
<1>b. p.blocks \in Seq(Scopes) /\ Len(p.blocks) \in Nat /\ Len(p.blocks) > 0 /\ Block(p).base = Base(p.blocks)
  BY <1>1, InnermostBlock
<1>2. PICK n \in Nat : n = Len(p.blocks[1].results)
  <2>1. p.blocks[1] \in Scopes
    BY <1>b
  <2>2. p.blocks[1].results \in Seq(Types)
    BY <2>1 DEF Scopes
  <2>. QED BY <2>2
<1>3. PICK c : c = IF IsStackPolymorphic(p) THEN p ELSE CopiedReturns(n, p, [k \in 1..n |-> k])
  OBVIOUS
<1>4. ReturnCases(p, n, c, isBranch, q)
  BY <1>2, <1>3, ReturnIs
<1>5. q = IF isBranch THEN c ELSE PopN(c, n)
  <2>1. ~Ok(Throw(p, "type count mismatch")) /\ ~Ok(Throw(p, "type mismatch"))
    BY <1>n, ThrowErrs
  <2>. QED BY <1>4, <2>1 DEF ReturnCases
<1>6. Sound(c, p.blocks, Under(p.blocks), T, {}) /\ Frame(p, c)
  <2>1. CASE IsStackPolymorphic(p)
    BY <1>1, <1>3, <1>n, <2>1, FrameReflexive
  <2>2. CASE ~IsStackPolymorphic(p)
    <3>1. Framed(p, p.blocks)
      BY <1>1, SoundParts
    <3>2. IoSlots * n <= p.firstConst
      BY <1>2, <3>1 DEF Framed
    <3>. QED BY <1>1, <1>3, <2>2, <3>2, ReturnsSound
  <2>. QED BY <2>1, <2>2
<1>7. CASE isBranch
  <2>1. q = c
    BY <1>5, <1>7
  <2>. QED BY <1>1, <1>6, <2>1, FrameGood
<1>8. CASE ~isBranch
  <2>1. q = PopN(c, n)
    BY <1>5, <1>8
  <2>2. Block(c).base = Base(p.blocks)
    BY <1>6, <1>b DEF Frame, Block
  <2>3. Sound(q, p.blocks, Under(p.blocks), T, {}) /\ Dropped(c, p.blocks, n, q)
    BY <1>6, <2>1, <2>2, PopNSound
  <2>4. Frame(p, q)
    BY <1>n, <1>6, <2>3, FrameTransitive DEF Dropped
  <2>. QED BY <1>1, <2>3, <2>4, FrameGood
<1>. QED BY <1>7, <1>8

LEMMA ReturnPlace ==
  ASSUME NEW p, Placeable(p), DOMAIN p = Fields, NEW q, q = ReturnValues(p, TRUE)
  PROVE  Placeable(q) /\ q.blocks = p.blocks /\ DOMAIN q = Fields /\ (~Ok(p) => ~Ok(q))
<1>b. p.blocks \in Seq(Scopes) /\ Len(p.blocks) > 0 /\ Len(p.stack) \in Nat
  BY DEF Placeable
<1>2. PICK n \in Nat : n = Len(p.blocks[1].results)
  <2>1. p.blocks[1] \in Scopes
    BY <1>b
  <2>2. p.blocks[1].results \in Seq(Types)
    BY <2>1 DEF Scopes
  <2>. QED BY <2>2
<1>3. PICK c : c = IF IsStackPolymorphic(p) THEN p ELSE CopiedReturns(n, p, [k \in 1..n |-> k])
  OBVIOUS
<1>4. ReturnCases(p, n, c, TRUE, q)
  BY <1>2, <1>3, ReturnIs
<1>5. ASSUME NEW e, q = Throw(p, e), e # ""
      PROVE  Placeable(q) /\ q.blocks = p.blocks /\ DOMAIN q = Fields /\ (~Ok(p) => ~Ok(q))
  <2>1. q = p \/ q = [p EXCEPT !.err = e]
    BY <1>5 DEF Throw
  <2>2. DOMAIN q = Fields /\ q.blocks = p.blocks /\ q.stack = p.stack
    <3>1. CASE q = p
      BY <3>1
    <3>2. CASE q = [p EXCEPT !.err = e]
      BY <3>2 DEF Fields
    <3>. QED BY <2>1, <3>1, <3>2
  <2>3. ~Ok(q)
    BY <1>5, ThrowErrs
  <2>. QED BY <1>b, <2>2, <2>3 DEF Placeable
<1>6. CASE q = c
  <2>1. CASE IsStackPolymorphic(p)
    BY <1>3, <1>6, <2>1
  <2>2. CASE ~IsStackPolymorphic(p)
    <3>1. DOMAIN c = Fields /\ c.blocks = p.blocks /\ c.stack = p.stack /\ c.err = p.err
      BY <1>2, <1>3, <2>2, ReturnsPlace
    <3>. QED BY <1>b, <1>6, <3>1 DEF Placeable, Ok
  <2>. QED BY <2>1, <2>2
<1>7. CASE q = Throw(p, "type count mismatch")
  BY <1>5, <1>7
<1>8. CASE q = Throw(p, "type mismatch")
  BY <1>5, <1>8
<1>. QED BY <1>4, <1>6, <1>7, <1>8 DEF ReturnCases

-----------------------------------------------------------------------------
(* Branches.                                                               *)

LEMMA RecodedSound ==
  ASSUME NEW p, NEW bs, NEW B, NEW T, NEW E, Sound(p, bs, B, T, E), NEW q, Recoded(p, q), NEW U, Codes(q, U)
  PROVE  Sound(q, bs, B, U, E)
<1>1. /\ Shape(p) /\ Framed(p, bs) /\ Placed(p, bs) /\ B \subseteq 1..Base(bs)
      /\ Counts(p, Live(p, bs, B), E) /\ Owners(p, Live(p, bs, B)) /\ InBlock(p, bs)
      /\ Records(p, Live(p, bs, B))
  BY SoundParts
<1>2. /\ DOMAIN q = DOMAIN p /\ q.stack = p.stack /\ q.use = p.use /\ q.reg = p.reg /\ q.numLocals = p.numLocals
      /\ q.firstConst = p.firstConst /\ q.maxConst = p.maxConst /\ q.firstDynamic = p.firstDynamic
      /\ q.maxStackSlots = p.maxStackSlots /\ q.over = p.over /\ q.err = p.err
  BY DEF Recoded
<1>3. Live(q, bs, B) = Live(p, bs, B)
  BY <1>2 DEF Live
<1>4. Shape(q) /\ Framed(q, bs)
  BY <1>1, <1>2 DEF Shape, Framed
<1>5. Placed(q, bs)
  BY <1>1, <1>2 DEF Placed, EntryFits
<1>6. Counts(q, Live(q, bs, B), E)
  BY <1>1, <1>2, <1>3 DEF Counts, RefsTo, Dynamic
<1>7. Owners(q, Live(q, bs, B)) /\ InBlock(q, bs) /\ Records(q, Live(q, bs, B))
  BY <1>1, <1>2, <1>3 DEF Owners, InBlock, Records
<1>. QED BY <1>1, <1>4, <1>5, <1>6, <1>7 DEF Sound

LEMMA RecodedGood ==
  ASSUME NEW p, NEW T, Good(p, T), NEW q, Recoded(p, q), NEW U, Codes(q, U)
  PROVE  Good(q, U)
<1>1. Sound(p, p.blocks, Under(p.blocks), T, {}) /\ Nest(p.blocks)
  BY DEF Good
<1>2. Sound(q, p.blocks, Under(p.blocks), U, {})
  BY <1>1, RecodedSound
<1>3. q.blocks = p.blocks
  BY DEF Recoded
<1>. QED BY <1>1, <1>2, <1>3 DEF Good

LEMMA GoodFacts ==
  ASSUME NEW p, NEW T, Good(p, T)
  PROVE  /\ DOMAIN p = Fields /\ p.maxStackSlots \in Nat /\ Len(p.stack) \in Nat
         /\ p.blocks \in Seq(Scopes) /\ Len(p.blocks) \in Nat /\ Len(p.blocks) > 0
         /\ Placeable(p) /\ Ok(p) /\ Codes(p, T) /\ Block(p).base = Base(p.blocks)
         /\ Sound(p, p.blocks, Under(p.blocks), T, {}) /\ Nest(p.blocks)
<1>1. Sound(p, p.blocks, Under(p.blocks), T, {}) /\ Nest(p.blocks)
  BY DEF Good
<1>2. DOMAIN p = Fields /\ p.maxStackSlots \in Nat /\ Len(p.stack) \in Nat /\ Ok(p)
  BY <1>1, SoundNumbers
<1>3. p.blocks \in Seq(Scopes) /\ Len(p.blocks) \in Nat /\ Len(p.blocks) > 0 /\ Block(p).base = Base(p.blocks)
  BY <1>1, InnermostBlock
<1>4. Codes(p, T)
  BY <1>1, SoundParts
<1>. QED BY <1>1, <1>2, <1>3, <1>4 DEF Placeable

\* Errors that the operations after them do not hide.
Fails(p, q) == ~Ok(q) => Placeable(q) /\ q.blocks = p.blocks /\ DOMAIN q = Fields

LEMMA TakenSound ==
  ASSUME NEW p, NEW T, Good(p, T), NEW d \in 1..Len(p.blocks), NEW q, q = TakenCode(p, d), Ok(q)
  PROVE  Good(q, T) /\ Frame(p, q)
<1>1. Ok(p) /\ p.maxStackSlots \in Nat
  BY GoodFacts
<1>2. CASE p.blocks[d].opcode = "loop"
  <2>1. q = ResolveBlockResults(p, d, TRUE)
    BY <1>1, <1>2 DEF TakenCode
  <2>. QED BY <1>2, <2>1, ResolveSound DEF Keeps
<1>3. CASE p.blocks[d].opcode # "loop" /\ IsStackPolymorphic(p)
  <2>1. q = p
    BY <1>1, <1>3 DEF TakenCode
  <2>. QED BY <1>1, <2>1, FrameReflexive
<1>4. CASE p.blocks[d].opcode # "loop" /\ ~IsStackPolymorphic(p) /\ d = 1
  <2>1. q = ReturnValues(p, TRUE)
    BY <1>1, <1>4 DEF TakenCode
  <2>. QED BY <2>1, ReturnSound
<1>5. CASE p.blocks[d].opcode # "loop" /\ ~IsStackPolymorphic(p) /\ d # 1
  <2>1. q = ResolveBlockResults(p, d, TRUE)
    BY <1>1, <1>5 DEF TakenCode
  <2>2. d > 1
    BY <1>5, GoodFacts
  <2>. QED BY <2>1, <2>2, ResolveSound DEF Keeps
<1>. QED BY <1>2, <1>3, <1>4, <1>5

LEMMA TakenPlace ==
  ASSUME NEW p, Placeable(p), DOMAIN p = Fields, NEW T, Ok(p) => Good(p, T), NEW d \in 1..Len(p.blocks),
         NEW q, q = TakenCode(p, d)
  PROVE  Fails(p, q) /\ (~Ok(p) => ~Ok(q))
<1>1. q \in {p, ResolveBlockResults(p, d, TRUE), ReturnValues(p, TRUE)}
  BY DEF TakenCode
<1>2. CASE q = p
  BY <1>2 DEF Fails
<1>3. CASE q = ResolveBlockResults(p, d, TRUE)
  BY <1>3, ResolvePlace DEF Fails
<1>4. CASE q = ReturnValues(p, TRUE)
  BY <1>4, ReturnPlace DEF Fails
<1>. QED BY <1>1, <1>2, <1>3, <1>4

LEMMA BranchingIs ==
  ASSUME NEW p, NEW d
  PROVE  Branching(p, d) = PutAside(p, TakenCode([p EXCEPT !.code = <<>>], d), Target(d))
BY DEF Branching, PutAside

LEMMA AsideSound ==
  ASSUME NEW p, NEW t, Good(p, {}), Good(t, {}), p.maxStackSlots <= t.maxStackSlots, NEW to,
         NEW q, q = PutAside(p, t, to)
  PROVE  Good(q, {})
<1>1. /\ DOMAIN p = Fields /\ p.maxStackSlots \in Nat /\ Codes(p, {})
      /\ DOMAIN t = Fields /\ t.maxStackSlots \in Nat /\ Codes(t, {})
  BY GoodFacts
<1>2. PICK w : w = Way(Run, p.code \o t.code, to)
  OBVIOUS
<1>3. q = [t EXCEPT !.code = p.code, !.ways = @ \cup {w}]
  BY <1>2 DEF PutAside
<1>4. Recoded(t, q) /\ q.code = p.code /\ q.ways = t.ways \cup {w}
  BY <1>1, <1>3 DEF Recoded, Fields
<1>5. w.code = p.code \o t.code
  BY <1>2 DEF Way
<1>6. CodeFits(p.code, p.maxStackSlots, {}) /\ CodeFits(t.code, t.maxStackSlots, {})
      /\ \A x \in t.ways : CodeFits(x.code, t.maxStackSlots, {})
  BY <1>1 DEF Codes
<1>7. CodeFits(p.code, t.maxStackSlots, {})
  BY <1>1, <1>6, CodeFitsMore
<1>8. CodeFits(w.code, t.maxStackSlots, {})
  BY <1>5, <1>6, <1>7, CodeFitsConcat
<1>9. Codes(q, {})
  BY <1>4, <1>6, <1>7, <1>8 DEF Codes, Recoded
<1>. QED BY <1>4, <1>9, RecodedGood

LEMMA BranchingSound ==
  ASSUME NEW p, Good(p, {}), NEW d \in 1..Len(p.blocks), NEW q, q = Branching(p, d), Ok(q)
  PROVE  Good(q, {}) /\ q.blocks = p.blocks
<1>1. PICK v : v = [p EXCEPT !.code = <<>>]
  OBVIOUS
<1>2. PICK t : t = TakenCode(v, d)
  OBVIOUS
<1>3. q = PutAside(p, t, Target(d))
  BY <1>1, <1>2, BranchingIs
<1>4. Good(v, {}) /\ v.blocks = p.blocks /\ v.maxStackSlots = p.maxStackSlots
  BY <1>1, NoCodeGood
<1>5. Ok(t)
  <2>1. q.err = t.err
    BY <1>3 DEF PutAside
  <2>. QED BY <2>1 DEF Ok
<1>6. Good(t, {}) /\ Frame(v, t)
  BY <1>2, <1>4, <1>5, TakenSound
<1>7. p.maxStackSlots <= t.maxStackSlots /\ t.blocks = p.blocks
  <2>1. t.maxStackSlots \in Nat /\ t.maxStackSlots >= v.maxStackSlots /\ t.blocks = v.blocks
    BY <1>6 DEF Frame
  <2>2. p.maxStackSlots \in Nat
    BY GoodFacts
  <2>. QED BY <1>4, <2>1, <2>2
<1>8. Good(q, {})
  BY <1>3, <1>6, <1>7, AsideSound
<1>9. q.blocks = t.blocks
  BY <1>3 DEF PutAside
<1>. QED BY <1>7, <1>8, <1>9

LEMMA BranchingPlace ==
  ASSUME NEW p, Placeable(p), DOMAIN p = Fields, Ok(p) => Good(p, {}), NEW d \in 1..Len(p.blocks),
         NEW q, q = Branching(p, d)
  PROVE  Fails(p, q) /\ (~Ok(p) => ~Ok(q))
<1>1. PICK v : v = [p EXCEPT !.code = <<>>]
  OBVIOUS
<1>2. PICK t : t = TakenCode(v, d)
  OBVIOUS
<1>3. q = PutAside(p, t, Target(d))
  BY <1>1, <1>2, BranchingIs
<1>4. DOMAIN v = Fields /\ v.blocks = p.blocks /\ v.stack = p.stack /\ v.err = p.err
  BY <1>1 DEF Fields
<1>5. Placeable(v)
  BY <1>4 DEF Placeable
<1>6. Ok(v) => Good(v, {})
  <2>. SUFFICES ASSUME Ok(v) PROVE Good(v, {})
    OBVIOUS
  <2>1. Good(p, {})
    BY <1>4 DEF Ok
  <2>. QED BY <1>1, <2>1, NoCodeGood
<1>7. Fails(v, t) /\ (~Ok(v) => ~Ok(t))
  BY <1>2, <1>4, <1>5, <1>6, TakenPlace
<1>8. DOMAIN q = DOMAIN t /\ q.blocks = t.blocks /\ q.stack = t.stack /\ q.err = t.err
  BY <1>3 DEF PutAside
<1>. QED BY <1>4, <1>7, <1>8 DEF Fails, Ok, Placeable

LEMMA PolymorphicErrs ==
  ASSUME NEW p, ~Ok(p), Placeable(p), DOMAIN p = Fields
  PROVE  ~Ok(SetStackPolymorphic(p))
<1>1. PICK v : v = [p EXCEPT !.blocks[Len(p.blocks)].poly = TRUE]
  OBVIOUS
<1>2. SetStackPolymorphic(p) = UnwindBlockStack(v)
  BY <1>1 DEF SetStackPolymorphic
<1>3. p.blocks \in Seq(Scopes) /\ Len(p.blocks) > 0 /\ Len(p.stack) \in Nat
  BY DEF Placeable
<1>4. PICK n \in Nat : n = Len(p.blocks) /\ n > 0
  BY <1>3
<1>5. p.blocks[n] \in Scopes /\ DOMAIN p.blocks = 1..n /\ n \in 1..n
  BY <1>3, <1>4
<1>6. PICK bs : bs = [p.blocks EXCEPT ![n].poly = TRUE]
  OBVIOUS
<1>7. v.blocks = bs /\ v.stack = p.stack /\ v.err = p.err
  BY <1>1, <1>4, <1>6 DEF Fields
<1>8. Len(bs) = n /\ bs[n] = [p.blocks[n] EXCEPT !.poly = TRUE]
  <2>1. bs[n] = [p.blocks[n] EXCEPT !.poly = TRUE]
    BY <1>5, <1>6
  <2>2. DOMAIN bs = 1..n
    BY <1>5, <1>6
  <2>3. Len(bs) = n
    BY <1>3, <1>4, <1>6, ExceptSeq
  <2>. QED BY <2>1, <2>3
<1>9. Block(v).base \in Nat
  <2>1. Block(v) = [p.blocks[n] EXCEPT !.poly = TRUE]
    BY <1>7, <1>8 DEF Block, Last
  <2>2. [p.blocks[n] EXCEPT !.poly = TRUE].base = p.blocks[n].base
    BY <1>5 DEF Scopes
  <2>. QED BY <1>5, <2>1, <2>2 DEF Scopes
<1>10. UnwindBlockStack(v) = v
  BY <1>3, <1>7, <1>9, UnwindErrs DEF Ok
<1>. QED BY <1>2, <1>7, <1>10 DEF Ok

-----------------------------------------------------------------------------
(* Instructions that open and close blocks.                                *)

LEMMA PreserveBegun ==
  ASSUME NEW p, NEW bs, NEW B, Begun(p, bs, B), NEW r \in Registers, NEW q, q = PreserveRegister(p, r)
  PROVE  Begun(q, bs, B) /\ (~Ok(p) => ~Ok(q))
<1>1. CASE ~Ok(p)
  <2>1. q = p
    BY <1>1, ErrorsStay
  <2>. QED BY <1>1, <2>1
<1>2. CASE Ok(p) /\ ~Ok(q)
  <2>1. ErrsAt(p, q)
    BY PreservePlace DEF Begun
  <2>. QED BY <1>2, <2>1 DEF ErrsAt, Begun
<1>3. CASE Ok(p) /\ Ok(q)
  <2>1. Sound(q, bs, B, {}, {})
    BY <1>3, PreserveSound DEF Begun
  <2>2. DOMAIN q = Fields /\ q.numLocals \in Nat
    BY <2>1, SoundNumbers
  <2>. QED BY <1>3, <2>1, <2>2 DEF Begun
<1>. QED BY <1>1, <1>2, <1>3

LEMMA GoodBegun ==
  ASSUME NEW p, Good(p, {})
  PROVE  Begun(p, p.blocks, Under(p.blocks))
<1>1. Sound(p, p.blocks, Under(p.blocks), {}, {})
  BY DEF Good
<1>2. DOMAIN p = Fields /\ p.numLocals \in Nat
  BY <1>1, SoundNumbers
<1>. QED BY <1>1, <1>2 DEF Begun

LEMMA KeptSound ==
  ASSUME NEW p, NEW bs, NEW B, Sound(p, bs, B, {}, {}), p.blocks = bs, NEW v, Begun(v, bs, B), Unshared(v),
         Ok(v) => Keeps(p, v), NEW q, q = PreserveArgsAndLocals(v), Ok(q)
  PROVE  Ok(v) /\ Sound(q, bs, B, {}, {}) /\ Keeps(p, q) /\ Keeps(v, q)
<1>1. Ok(v)
  BY PreserveLocalsErrs DEF Begun
<1>2. Sound(v, bs, B, {}, {}) /\ Keeps(p, v)
  BY <1>1 DEF Begun
<1>3. v.blocks = bs
  BY <1>2 DEF Keeps, Frame
<1>4. Sound(q, bs, B, {}, {}) /\ Keeps(v, q)
  BY <1>2, <1>3, PreserveLocalsSound DEF Unshared
<1>5. p.maxStackSlots \in Nat
  BY SoundNumbers
<1>6. Keeps(p, q)
  BY <1>2, <1>4, <1>5, KeepsTransitive
<1>. QED BY <1>1, <1>4, <1>6

LEMMA KeptAllSound ==
  ASSUME NEW p, Good(p, {}), Unshared(PreserveRegisters(p)), NEW q, q = PreserveArgsAndLocals(PreserveRegisters(p)), Ok(q)
  PROVE  Good(q, {}) /\ Frame(p, q) /\ \A r \in Registers : q.reg[r] = 0
<1>1. Sound(p, p.blocks, Under(p.blocks), {}, {}) /\ Nest(p.blocks)
  BY DEF Good
<1>2. PICK u : u = PreserveRegister(p, Fp0)
  OBVIOUS
<1>3. PICK v : v = PreserveRegister(u, R0)
  OBVIOUS
<1>4. R0 \in Registers /\ Fp0 \in Registers /\ PreserveRegisters(p) = v
  BY <1>2, <1>3 DEF Registers, PreserveRegisters
<1>5. Begun(v, p.blocks, Under(p.blocks))
  BY <1>2, <1>3, <1>4, GoodBegun, PreserveBegun
<1>6. Ok(v) => Keeps(p, v) /\ \A r \in Registers : v.reg[r] = 0
  BY <1>1, <1>4, PreserveRegistersSound
<1>7. q = PreserveArgsAndLocals(v)
  BY <1>4
<1>u. Unshared(v)
  BY <1>4
<1>8. Ok(v) /\ Sound(q, p.blocks, Under(p.blocks), {}, {}) /\ Keeps(p, q) /\ Keeps(v, q)
  BY <1>1, <1>5, <1>6, <1>7, <1>u, KeptSound
<1>9. \A r \in Registers : q.reg[r] = 0
  BY <1>6, <1>8, KeepsIsFrame
<1>10. Frame(p, q)
  BY <1>8, KeepsIsFrame
<1>. QED BY <1>1, <1>8, <1>9, <1>10, FrameGood

LEMMA KeptNonTopSound ==
  ASSUME NEW p, Good(p, {}), Unshared(PreserveNonTopRegisters(p)), NEW q, q = PreserveArgsAndLocals(PreserveNonTopRegisters(p)), Ok(q)
  PROVE  Good(q, {}) /\ Frame(p, q) /\ \A r \in Registers : q.reg[r] = 0 \/ q.reg[r] = Len(q.stack)
<1>1. Sound(p, p.blocks, Under(p.blocks), {}, {}) /\ Nest(p.blocks)
  BY DEF Good
<1>2. PICK u : u = IF p.reg[R0] = Len(p.stack) THEN p ELSE PreserveRegister(p, R0)
  OBVIOUS
<1>3. PICK v : v = IF u.reg[Fp0] = Len(u.stack) THEN u ELSE PreserveRegister(u, Fp0)
  OBVIOUS
<1>4. R0 \in Registers /\ Fp0 \in Registers /\ PreserveNonTopRegisters(p) = v
  BY <1>2, <1>3 DEF Registers, PreserveNonTopRegisters
<1>5. Begun(v, p.blocks, Under(p.blocks))
  BY <1>2, <1>3, <1>4, GoodBegun, PreserveBegun
<1>6. Ok(v) => Keeps(p, v) /\ \A r \in Registers : v.reg[r] = 0 \/ v.reg[r] = Len(v.stack)
  BY <1>1, <1>4, PreserveNonTopSound
<1>7. q = PreserveArgsAndLocals(v)
  BY <1>4
<1>u. Unshared(v)
  BY <1>4
<1>8. Ok(v) /\ Sound(q, p.blocks, Under(p.blocks), {}, {}) /\ Keeps(p, q) /\ Keeps(v, q)
  BY <1>1, <1>5, <1>6, <1>7, <1>u, KeptSound
<1>9. \A r \in Registers : q.reg[r] = 0 \/ q.reg[r] = Len(q.stack)
  BY <1>6, <1>8 DEF Keeps
<1>10. Frame(p, q)
  BY <1>8, KeepsIsFrame
<1>. QED BY <1>1, <1>8, <1>9, <1>10, FrameGood

\* Blocks have no parameters: no constant is in their way.
LEMMA InstantiateNone ==
  ASSUME NEW p, NEW n, n = 0
  PROVE  InstantiateConstants(p, n) = p
<1>1. PICK q : q = [k \in 1..n |-> Len(p.stack) - n + k]
  OBVIOUS
<1>2. DOMAIN q = {}
  BY <1>1
<1>3. PICK f : f = [s \in SUBSET (DOMAIN q) |-> p]
  OBVIOUS
<1>4. InstantiateConstants(p, n) \in {p, Instantiated(p, q)}
  BY <1>1 DEF InstantiateConstants, Instantiated, InstantiateOne, FoldLeft, MapThenFoldSet
<1>5. f = [s \in SUBSET (DOMAIN q) |-> IF s = {} THEN p ELSE InstantiateOne(f[s \ {Max(s)}], q[Max(s)])]
  BY <1>2, <1>3
<1>6. PICK h : /\ h = [s \in SUBSET (DOMAIN q) |-> IF s = {} THEN p ELSE InstantiateOne(h[s \ {Max(s)}], q[Max(s)])]
               /\ Instantiated(p, q) = h[DOMAIN q]
  BY <1>5 DEF Instantiated, FoldLeft, MapThenFoldSet
<1>. QED BY <1>2, <1>4, <1>6

LEMMA LoopOrBlockSound ==
  ASSUME NEW p, Good(p, {}), NEW bt, bt.params = <<>>, bt.results \in Seq(Types), NEW opcode \in {"block", "loop"},
         Unshared(PreserveRegisters(p)), NEW q, q = Opens(p, bt, opcode), Ok(q)
  PROVE  Good(q, {})
<1>1. PICK kept : kept = PreserveArgsAndLocals(PreserveRegisters(p))
  OBVIOUS
<1>2. Len(bt.params) = 0
  OBVIOUS
<1>3. InstantiateConstants(kept, Len(bt.params)) = kept
  BY <1>2, InstantiateNone
<1>4. q = IF Ok(kept) THEN EnterBlock(kept, bt, opcode) ELSE kept
  BY <1>1, <1>3 DEF Opens, Then
<1>5. Ok(kept) /\ q = EnterBlock(kept, bt, opcode)
  BY <1>4
<1>6. Good(kept, {}) /\ \A r \in Registers : kept.reg[r] = 0
  BY <1>1, <1>5, KeptAllSound
<1>7. opcode \in Opcodes
  BY DEF Opcodes
<1>. QED BY <1>5, <1>6, <1>7, EnterGood

LEMMA PopStays ==
  ASSUME NEW p, ~Ok(p), NEW e
  PROVE  ~Ok(Pop(Emit(p, e)))
<1>1. PICK v : v = Emit(p, e) /\ ~Ok(v)
  BY ErrorsStay
<1>. QED BY <1>1, ErrorsStay

LEMMA IfSound ==
  ASSUME NEW p, Good(p, {}), NEW bt, bt.params = <<>>, bt.results \in Seq(Types),
         Unshared(PreserveNonTopRegisters(p)), NEW q, q = Tests(p, bt), Ok(q)
  PROVE  Good(q, {})
<1>1. PICK kept : kept = PreserveArgsAndLocals(PreserveNonTopRegisters(p))
  OBVIOUS
<1>2. PICK args : args = <<FromTop(kept, 0)>>
  OBVIOUS
<1>3. PICK v : v = Pop(Emit(kept, Op(args, <<>>, Unused)))
  OBVIOUS
<1>4. q = IF Ok(v) THEN EnterBlock(v, bt, "if") ELSE v
  BY <1>1, <1>2, <1>3 DEF Tests, Then
<1>5. Ok(v) /\ q = EnterBlock(v, bt, "if")
  BY <1>4
<1>6. Ok(kept)
  BY <1>3, <1>5, PopStays
<1>7. Good(kept, {}) /\ Frame(p, kept) /\ \A r \in Registers : kept.reg[r] = 0 \/ kept.reg[r] = Len(kept.stack)
  BY <1>1, <1>6, KeptNonTopSound
<1>8. /\ Sound(kept, kept.blocks, Under(kept.blocks), {}, {}) /\ Nest(kept.blocks)
      /\ Block(kept).base = Base(kept.blocks) /\ Len(kept.stack) \in Nat
  BY <1>7, GoodFacts
<1>9. /\ Sound(v, kept.blocks, Under(kept.blocks), {}, {}) /\ Frame(kept, v)
      /\ Len(v.stack) = IF Len(kept.stack) - 1 >= Base(kept.blocks) THEN Len(kept.stack) - 1 ELSE Base(kept.blocks)
      /\ \A r \in Registers : v.reg[r] = IF kept.reg[r] > Len(v.stack) THEN 0 ELSE kept.reg[r]
  BY <1>3, <1>5, <1>8, TakeOneSound
<1>10. Good(v, {})
  BY <1>8, <1>9, FrameGood
<1>11. \A r \in Registers : v.reg[r] = 0
  <2>1. Base(kept.blocks) \in Nat /\ Base(kept.blocks) <= Len(kept.stack)
    BY <1>8, SoundNumbers
  <2>2. PICK len \in Nat, base \in Nat : len = Len(kept.stack) /\ base = Base(kept.blocks) /\ base <= len
    BY <1>8, <2>1
  <2>3. CASE base = len
    <3>1. \A r \in Registers : kept.reg[r] = 0
      BY <1>8, <2>2, <2>3, RegistersAtBase
    <3>. QED BY <1>9, <3>1
  <2>4. CASE base # len
    <3>1. Len(v.stack) = len - 1
      BY <1>9, <2>2, <2>4
    <3>2. \A r \in Registers : kept.reg[r] = 0 \/ kept.reg[r] = len
      BY <1>7, <2>2
    <3>. QED BY <1>9, <2>2, <3>1, <3>2
  <2>. QED BY <2>3, <2>4
<1>12. "if" \in Opcodes
  BY DEF Opcodes
<1>. QED BY <1>5, <1>10, <1>11, <1>12, EnterGood

\* What is emitted is the way of runs.
LEMMA WaysGood ==
  ASSUME NEW p, Good(p, {}), NEW W, \A w \in W : CodeFits(w.code, p.maxStackSlots, {}),
         NEW q, q = [p EXCEPT !.ways = W]
  PROVE  Good(q, {}) /\ q.ways = W /\ q.blocks = p.blocks
<1>1. DOMAIN p = Fields /\ Codes(p, {})
  BY GoodFacts
<1>2. Recoded(p, q) /\ q.code = p.code /\ q.ways = W /\ q.blocks = p.blocks
  BY <1>1 DEF Recoded, Fields
<1>3. Codes(q, {})
  BY <1>1, <1>2 DEF Codes, Recoded
<1>. QED BY <1>2, <1>3, RecodedGood

LEMMA NoCodeFits ==
  ASSUME NEW top, NEW T
  PROVE  CodeFits(<<>>, top, T)
BY DEF CodeFits

-----------------------------------------------------------------------------
(* From one instruction to the next.                                       *)

LEMMA FitsCovered ==
  ASSUME NEW p, p.maxStackSlots \in Nat, NEW code, CodeFits(code, p.maxStackSlots, {})
  PROVE  ~Overwrites(p, code)
<1>. SUFFICES ASSUME NEW i \in DOMAIN code, NEW s \in PlacesOf(code[i]) \ Registers, s >= p.maxStackSlots
              PROVE  FALSE
  BY DEF Overwrites, PlacesOf
<1>1. PICK S : code \in Seq(S)
  BY DEF CodeFits
<1>2. i \in 1..Len(code)
  BY <1>1
<1>3. Fits(code[i], p.maxStackSlots, {})
  BY <1>2 DEF CodeFits
<1>4. s \in 0..(p.maxStackSlots - 1)
  BY <1>3 DEF Fits
<1>. QED BY <1>4

LEMMA GoodCovered ==
  ASSUME NEW p, Good(p, {})
  PROVE  Covered(p)
<1>1. Codes(p, {}) /\ p.maxStackSlots \in Nat
  BY GoodFacts
<1>. SUFFICES ASSUME NEW w \in Ways(p)  PROVE ~Overwrites(p, w.code)
  BY DEF Covered
<1>2. CodeFits(w.code, p.maxStackSlots, {})
  <2>1. CASE p.ways = {}
    <3>1. w = Way(Run, p.code, Run)
      BY <2>1 DEF Ways
    <3>. QED BY <1>1, <3>1 DEF Codes, Way
  <2>2. CASE p.ways # {}
    BY <1>1, <2>2 DEF Codes, Ways
  <2>. QED BY <2>1, <2>2
<1>. QED BY <1>1, <1>2, FitsCovered

LEMMA BecomesGood ==
  ASSUME NEW x, Good(x, {}), NEW p, Ok(p) => Contained(p), NEW y, Becomes(p, x, y)
  PROVE  y.over = FALSE /\ (Ok(y) => Good(y, {}))
<1>1. CASE Ok(p)
  <2>1. PICK T : Good(p, T) /\ Covered(p)
    BY <1>1 DEF Contained
  <2>2. DOMAIN p = Fields /\ p.over = FALSE /\ p.maxStackSlots \in Nat
    <3>1. Sound(p, p.blocks, Under(p.blocks), T, {})
      BY <2>1, GoodFacts
    <3>. QED BY <3>1, SoundNumbers
  <2>3. PICK wide : wide = (p.over \/ \E w \in Ways(p) : Overwrites(p, w.code)) /\ wide = FALSE
    BY <2>1, <2>2 DEF Covered
  <2>4. y = [p EXCEPT !.over = wide, !.code = <<>>, !.ways = {}, !.got = Unused]
    BY <1>1, <2>3 DEF Becomes
  <2>5. Recoded(p, y) /\ y.code = <<>> /\ y.ways = {} /\ y.over = FALSE
    BY <2>2, <2>3, <2>4 DEF Recoded, Fields
  <2>6. Codes(y, {})
    BY <2>5 DEF Codes, CodeFits
  <2>. QED BY <2>1, <2>5, <2>6, RecodedGood
<1>2. CASE ~Ok(p)
  <2>1. DOMAIN x = Fields /\ x.over = FALSE
    <3>1. Sound(x, x.blocks, Under(x.blocks), {}, {})
      BY GoodFacts
    <3>. QED BY <3>1, SoundNumbers
  <2>2. y = [x EXCEPT !.err = p.err]
    BY <1>2 DEF Becomes
  <2>3. y.err = p.err /\ y.over = FALSE
    BY <2>1, <2>2 DEF Fields
  <2>. QED BY <1>2, <2>3 DEF Ok
<1>. QED BY <1>1, <1>2

LEMMA BecomesKept ==
  ASSUME NEW x, Good(x, {}), NEW p, Ok(p) => Good(p, {}), NEW y, Becomes(p, x, y)
  PROVE  y.over = FALSE /\ (Ok(y) => Good(y, {}))
<1>1. Ok(p) => Contained(p)
  BY GoodCovered DEF Contained
<1>. QED BY <1>1, BecomesGood

-----------------------------------------------------------------------------
(* The inductive invariant.                                                *)

LEMMA TakesGood ==
  ASSUME Sane, NEW types, Takes(types)
  PROVE  Good(o, {}) /\ Typed(o, o.blocks, types) /\ Sound(o, o.blocks, Under(o.blocks), {}, {})
         /\ Block(o).base = Base(o.blocks) /\ Nest(o.blocks)
<1>1. Good(o, {})
  BY DEF Sane, Takes, Going
<1>2. Block(o).base = Base(o.blocks) /\ Len(o.stack) \in Nat /\ Sound(o, o.blocks, Under(o.blocks), {}, {}) /\ Nest(o.blocks)
  BY <1>1, GoodFacts
<1>3. \A k \in DOMAIN types : LET i == Len(types) - k
                              IN  i < NumBlockValues(o) => FromTop(o, i).type \in {types[k], "none"}
  BY DEF Takes
<1>4. \A k \in 1..Len(types) : k \in DOMAIN types
  OBVIOUS
<1>5. Typed(o, o.blocks, types)
  BY <1>2, <1>3, <1>4 DEF Typed, NumBlockValues
<1>. QED BY <1>1, <1>2, <1>5

LEMMA StepInv ==
  ASSUME Sane, Good(o, {}), NEW p, fn' = fn, Becomes(p, o, o'), Ok(p) => Good(p, {})
  PROVE  Sane'
<1>1. o'.over = FALSE /\ (Ok(o') => Good(o', {}))
  BY BecomesKept
<1>. QED BY <1>1 DEF Sane

LEMMA FunctionIs ==
  ASSUME NEW f \in Functions
  PROVE  /\ f.rets \in Seq(Types) /\ f.args \in Seq(Types) /\ f.locals \in Seq(Types) /\ f.reserved \in Nat
         /\ (\A c \in f.consts : c.type \in Types)
         /\ (\A w \in f.ops : OperatorShape(w))
         /\ (\A w \in f.conversions : w.arg \in Types /\ w.res \in Types)
         /\ (\A w \in f.calls : w.args \in Seq(Types) /\ w.rets \in Seq(Types))
         /\ (\A bt \in f.blocks : bt.params \in Seq(Types) /\ bt.results \in Seq(Types))
         /\ NewCompilation(f).firstDynamic < MaxSlots
BY FunctionsAssumption DEF OperatorShape

LEMMA ConstStep ==
  ASSUME Sane, Const
  PROVE  Sane'
<1>1. PICK c \in fn.consts : Takes(<<>>) /\ Compiles(PushConst(o, c.val, c.type))
  BY DEF Const
<1>2. PICK p : p = PushConst(o, c.val, c.type)
  OBVIOUS
<1>3. fn' = fn /\ Becomes(p, o, o')
  BY <1>1, <1>2 DEF Compiles, CompilesWith, Becomes
<1>4. c.type \in Types
  BY FunctionIs DEF Sane
<1>5. Good(o, {}) /\ Sound(o, o.blocks, Under(o.blocks), {}, {}) /\ Nest(o.blocks)
  BY <1>1, TakesGood
<1>6. ASSUME Ok(p)  PROVE Good(p, {})
  <2>1. Sound(p, o.blocks, Under(o.blocks), {}, {}) /\ Frame(o, p)
    BY <1>2, <1>4, <1>5, <1>6, PushConstSound
  <2>. QED BY <1>5, <2>1, FrameGood
<1>. QED BY <1>3, <1>5, <1>6, StepInv

\* The place and the type of a local.
LEMMA LocalIs ==
  ASSUME NEW p, NEW bs, NEW B, NEW T, NEW E, Sound(p, bs, B, T, E), NEW i \in 1..p.numLocals
  PROVE  /\ p.stack[i].slot \in Nat /\ p.stack[i].slot < p.firstConst /\ p.stack[i].type \in Types
         /\ p.stack[i].slot + NumSlots(p.stack[i].type) <= p.firstDynamic
<1>1. /\ p.stack \in Seq(Entries) /\ Len(p.stack) \in Nat /\ Base(bs) \in Nat /\ Base(bs) <= Len(p.stack)
      /\ p.numLocals \in Nat /\ p.numLocals <= Base(bs)
      /\ p.firstConst \in Nat /\ p.maxConst \in Nat /\ p.firstDynamic \in Nat
      /\ p.firstConst <= p.maxConst /\ p.maxConst <= p.firstDynamic
  BY SoundNumbers
<1>2. i \in 1..Len(p.stack)
  BY <1>1
<1>3. p.stack[i].slot \in Nat /\ p.stack[i].type \in EntryTypes
  BY <1>1, <1>2, EntryIs
<1>4. Placed(p, bs) /\ Framed(p, bs)
  BY SoundParts
<1>5. EntryFits(p, bs, i, p.stack[i])
  BY <1>2, <1>4 DEF Placed
<1>6. p.stack[i].slot < p.firstConst
  BY <1>5 DEF EntryFits
<1>8. p.stack[i].slot + NumSlots(p.stack[i].type) <= p.firstDynamic
  <2>1. p.stack[i].slot < p.firstDynamic
    BY <1>1, <1>3, <1>6
  <2>. QED BY <1>5, <2>1 DEF EntryFits
<1>9. p.stack[i].type # "none"
  <2>. SUFFICES ASSUME p.stack[i].type = "none" PROVE FALSE
    OBVIOUS
  <2>1. PICK d \in 1..Len(bs) : i = bs[d].base + 1
    BY <1>5 DEF EntryFits
  <2>2. p.numLocals <= bs[d].base
    BY <1>4 DEF Framed
  <2>3. bs[d].base \in Nat
    <3>1. bs[d] \in Scopes
      BY <1>4 DEF Framed
    <3>. QED BY <3>1 DEF Scopes
  <2>. QED BY <1>1, <2>1, <2>2, <2>3
<1>. QED BY <1>3, <1>6, <1>8, <1>9 DEF EntryTypes

LEMMA GetLocalStep ==
  ASSUME Sane, GetLocal
  PROVE  Sane'
<1>1. PICK i \in 1..o.numLocals : Takes(<<>>) /\ Compiles(Push(o, o.stack[i].type, o.stack[i].slot))
  BY DEF GetLocal
<1>2. PICK p : p = Push(o, o.stack[i].type, o.stack[i].slot)
  OBVIOUS
<1>3. fn' = fn /\ Becomes(p, o, o')
  BY <1>1, <1>2 DEF Compiles, CompilesWith, Becomes
<1>4. Good(o, {}) /\ Sound(o, o.blocks, Under(o.blocks), {}, {}) /\ Nest(o.blocks)
  BY <1>1, TakesGood
<1>5. ASSUME Ok(p)  PROVE Good(p, {})
  <2>1. /\ o.stack[i].slot \in Nat /\ o.stack[i].type \in Types
        /\ o.stack[i].slot + NumSlots(o.stack[i].type) <= o.firstDynamic
    BY <1>4, LocalIs
  <2>2. Sound(p, o.blocks, Under(o.blocks), {}, {}) /\ Frame(o, p)
    BY <1>2, <1>4, <1>5, <2>1, PushBelowSound
  <2>. QED BY <1>4, <2>2, FrameGood
<1>. QED BY <1>3, <1>4, <1>5, StepInv

LEMMA SetLocalStep ==
  ASSUME Sane, SetLocal, ~Miscounted'
  PROVE  Sane'
<1>1. PICK i \in 1..o.numLocals, tee \in BOOLEAN :
         /\ Takes(<<o.stack[i].type>>)
         /\ CompilesWith(Assigned(o, o.stack[i].slot, tee), IF SharesWide(o, o.stack[i].slot) THEN {"wide"} ELSE {})
  BY DEF SetLocal, Assigned
<1>2. PICK p : p = Assigned(o, o.stack[i].slot, tee)
  OBVIOUS
<1>3. fn' = fn /\ Becomes(p, o, o')
  BY <1>1, <1>2 DEF Compiles, CompilesWith, Becomes
<1>4. Good(o, {}) /\ Sound(o, o.blocks, Under(o.blocks), {}, {}) /\ Nest(o.blocks)
  BY <1>1, TakesGood
<1>5. ASSUME Ok(p)  PROVE Good(p, {})
  <2>1. /\ o.stack[i].slot \in Nat /\ o.stack[i].slot < o.firstConst
        /\ ~SharesWide(o, o.stack[i].slot)
    BY <1>1, <1>4, LocalIs DEF CompilesWith, Miscounted
  <2>2. Sound(p, o.blocks, Under(o.blocks), {}, {}) /\ Frame(o, p)
    BY <1>2, <1>4, <1>5, <2>1, SetLocalSound
  <2>. QED BY <1>4, <2>2, FrameGood
<1>. QED BY <1>3, <1>4, <1>5, StepInv

LEMMA ResultTypesAre ==
  ASSUME Sane, NEW t \in ResultTypes
  PROVE  t \in Types
<1>1. PICK w \in fn.ops : t = w.res /\ t # "none"
  BY DEF ResultTypes
<1>2. OperatorShape(w)
  BY FunctionIs DEF Sane
<1>. QED BY <1>1, <1>2 DEF OperatorShape

LEMMA GetGlobalStep ==
  ASSUME Sane, GetGlobal
  PROVE  Sane'
<1>1. PICK t \in ResultTypes : Takes(<<>>) /\ Compiles(GlobalGot(o, t))
  BY DEF GetGlobal, GlobalGot
<1>2. PICK p : p = GlobalGot(o, t)
  OBVIOUS
<1>3. fn' = fn /\ Becomes(p, o, o')
  BY <1>1, <1>2 DEF Compiles, CompilesWith, Becomes
<1>4. Good(o, {}) /\ Sound(o, o.blocks, Under(o.blocks), {}, {}) /\ Nest(o.blocks)
  BY <1>1, TakesGood
<1>5. ASSUME Ok(p)  PROVE Good(p, {})
  <2>1. t \in Types
    BY ResultTypesAre
  <2>2. Sound(p, o.blocks, Under(o.blocks), {}, {}) /\ Frame(o, p)
    BY <1>2, <1>4, <1>5, <2>1, GetGlobalSound
  <2>. QED BY <1>4, <2>2, FrameGood
<1>. QED BY <1>3, <1>4, <1>5, StepInv

LEMMA SetGlobalStep ==
  ASSUME Sane, SetGlobal
  PROVE  Sane'
<1>1. PICK t \in ResultTypes : Takes(<<t>>) /\ Compiles(Pop(Emit(o, Op(<<FromTop(o, 0)>>, <<>>, Unused))))
  BY DEF SetGlobal
<1>2. PICK args : args = <<FromTop(o, 0)>>
  OBVIOUS
<1>3. PICK p : p = Pop(Emit(o, Op(args, <<>>, Unused)))
  OBVIOUS
<1>4. fn' = fn /\ Becomes(p, o, o')
  BY <1>1, <1>2, <1>3 DEF Compiles, CompilesWith, Becomes
<1>5. /\ Good(o, {}) /\ Sound(o, o.blocks, Under(o.blocks), {}, {}) /\ Nest(o.blocks)
      /\ Block(o).base = Base(o.blocks)
  BY <1>1, TakesGood
<1>6. ASSUME Ok(p)  PROVE Good(p, {})
  <2>1. Sound(p, o.blocks, Under(o.blocks), {}, {}) /\ Frame(o, p)
    BY <1>3, <1>5, <1>6, TakeOneSound
  <2>. QED BY <1>5, <2>1, FrameGood
<1>. QED BY <1>4, <1>5, <1>6, StepInv

LEMMA DropStep ==
  ASSUME Sane, Drop
  PROVE  Sane'
<1>1. PICK t \in Types : Takes(<<t>>) /\ Compiles(Pop(o))
  BY DEF Drop
<1>2. PICK p : p = Pop(o)
  OBVIOUS
<1>3. fn' = fn /\ Becomes(p, o, o')
  BY <1>1, <1>2 DEF Compiles, CompilesWith, Becomes
<1>4. /\ Good(o, {}) /\ Sound(o, o.blocks, Under(o.blocks), {}, {}) /\ Nest(o.blocks)
      /\ Block(o).base = Base(o.blocks)
  BY <1>1, TakesGood
<1>5. ASSUME Ok(p)  PROVE Good(p, {})
  <2>1. Sound(p, o.blocks, Under(o.blocks), {}, {}) /\ Dropped(o, o.blocks, 1, p)
    BY <1>2, <1>4, <1>5, PopSound
  <2>2. Frame(o, p)
    BY <2>1 DEF Dropped
  <2>. QED BY <1>4, <2>1, <2>2, FrameGood
<1>. QED BY <1>3, <1>4, <1>5, StepInv

-----------------------------------------------------------------------------
(* Operators, and what works on the memory.                                *)

LEMMA PreserveTypeErrs ==
  ASSUME NEW p, ~Ok(p), NEW t
  PROVE  ~Ok(PreserveRegisterOfType(p, t))
BY ErrorsStay DEF PreserveRegisterOfType

LEMMA OperatorResultErrs ==
  ASSUME NEW q, ~Ok(q), NEW w, Len(w.args) \in Nat, NEW args
  PROVE  ~Ok(OperatorResult(q, w, args))
<1>1. PICK e : OperatorDone(q, w, args) = PopN(Emit(q, e), Len(w.args))
  BY DEF OperatorDone
<1>2. PICK v : v = Emit(q, e) /\ ~Ok(v)
  BY ErrorsStay
<1>3. PICK d : d = OperatorDone(q, w, args) /\ ~Ok(d)
  BY <1>1, <1>2, PopNStays
<1>4. PushRegister(d, w.res) = d
  BY <1>3, ErrorsStay DEF PushRegister
<1>. QED BY <1>3, <1>4 DEF OperatorResult

LEMMA OperatorErrs ==
  ASSUME NEW p, ~Ok(p), NEW w, Len(w.args) \in Nat
  PROVE  ~Ok(CompileOperator(p, w))
<1>1. PICK v : v = (IF IsFpType(TypeFromTop(p, 0)) /\ w.res \in {"i32", "i64"} THEN PreserveRegisterOfType(p, w.res) ELSE p)
  OBVIOUS
<1>2. ~Ok(v)
  BY <1>1, PreserveTypeErrs
<1>3. PICK x : x = PreserveRegisterOfType(v, w.res)
  OBVIOUS
<1>4. ~Ok(x)
  BY <1>2, <1>3, PreserveTypeErrs
<1>5. \/ CompileOperator(p, w) = Throw(v, "no operation found for opcode")
      \/ \E args : CompileOperator(p, w) = OperatorResult(v, w, args)
      \/ \E args : CompileOperator(p, w) = OperatorResult(x, w, args)
  BY <1>1, <1>3 DEF CompileOperator, OperatorResult, OperatorDone
<1>. QED BY <1>2, <1>4, <1>5, OperatorResultErrs, ErrorsStay

LEMMA OperatorStep ==
  ASSUME Sane, Operator
  PROVE  Sane'
<1>1. PICK w \in fn.ops :
         Takes(w.args)
         /\ Compiles(CompileOperator(IF w.mem /\ IsFpType(w.res) THEN PreserveRegisterOfType(o, "f64") ELSE o, w))
  BY DEF Operator
<1>2. PICK v : v = IF w.mem /\ IsFpType(w.res) THEN PreserveRegisterOfType(o, "f64") ELSE o
  OBVIOUS
<1>3. PICK p : p = CompileOperator(v, w)
  OBVIOUS
<1>4. fn' = fn /\ Becomes(p, o, o')
  BY <1>1, <1>2, <1>3 DEF Compiles, CompilesWith, Becomes
<1>5. /\ Good(o, {}) /\ Sound(o, o.blocks, Under(o.blocks), {}, {}) /\ Nest(o.blocks)
      /\ Block(o).base = Base(o.blocks) /\ Typed(o, o.blocks, w.args)
  BY <1>1, TakesGood
<1>6. OperatorShape(w)
  BY FunctionIs DEF Sane
<1>7. ASSUME Ok(p)  PROVE Good(p, {})
  <2>1. Len(w.args) \in Nat
    BY <1>6 DEF OperatorShape
  <2>2. Ok(v)
    BY <1>3, <1>7, <2>1, OperatorErrs
  <2>3. o.maxStackSlots \in Nat
    BY <1>5, SoundNumbers
  <2>4. /\ Sound(v, o.blocks, Under(o.blocks), {}, {}) /\ Keeps(o, v)
        /\ (w.mem /\ IsFpType(w.res) => v.reg[Fp0] = 0)
    <3>1. CASE w.mem /\ IsFpType(w.res)
      <4>1. v = PreserveRegisterOfType(o, "f64") /\ RegisterOf("f64") = Fp0
        BY <1>2, <3>1 DEF RegisterOf, IsFpType
      <4>. QED BY <1>5, <2>2, <4>1, PreserveTypeSound
    <3>2. CASE ~(w.mem /\ IsFpType(w.res))
      <4>1. v = o
        BY <1>2, <3>2
      <4>. QED BY <1>5, <2>3, <3>2, <4>1, KeepsReflexive
    <3>. QED BY <3>1, <3>2
  <2>5. Frame(o, v)
    BY <2>4, KeepsIsFrame
  <2>6. Block(v).base = Base(o.blocks)
    BY <1>5, <2>5 DEF Frame, Block
  <2>7. Typed(v, o.blocks, w.args)
    BY <1>5, <2>1, <2>4, KeepsTyped
  <2>8. Sound(p, o.blocks, Under(o.blocks), {}, {}) /\ Frame(v, p)
    BY <1>3, <1>6, <1>7, <2>4, <2>6, <2>7, OperatorSound
  <2>9. Frame(o, p)
    BY <2>3, <2>5, <2>8, FrameTransitive
  <2>. QED BY <1>5, <2>8, <2>9, FrameGood
<1>. QED BY <1>4, <1>5, <1>7, StepInv

LEMMA ConvertStep ==
  ASSUME Sane, Convert
  PROVE  Sane'
<1>1. PICK w \in fn.conversions : Takes(<<w.arg>>) /\ Compiles(Converted(o, FromTop(o, 0), w.res))
  BY DEF Convert, Converted
<1>2. PICK p : p = Converted(o, FromTop(o, 0), w.res)
  OBVIOUS
<1>3. fn' = fn /\ Becomes(p, o, o')
  BY <1>1, <1>2 DEF Compiles, CompilesWith, Becomes
<1>4. /\ Good(o, {}) /\ Sound(o, o.blocks, Under(o.blocks), {}, {}) /\ Nest(o.blocks)
      /\ Block(o).base = Base(o.blocks)
  BY <1>1, TakesGood
<1>5. ASSUME Ok(p)  PROVE Good(p, {})
  <2>1. w.res \in Types
    BY FunctionIs DEF Sane
  <2>2. Sound(p, o.blocks, Under(o.blocks), {}, {}) /\ Frame(o, p)
    BY <1>2, <1>4, <1>5, <2>1, ConvertSound
  <2>. QED BY <1>4, <2>2, FrameGood
<1>. QED BY <1>3, <1>4, <1>5, StepInv

LEMMA SelectStep ==
  ASSUME Sane, Select
  PROVE  Sane'
<1>1. PICK t \in ResultTypes : Takes(<<t, t, "i32">>) /\ Compiles(Selects(o))
  BY DEF Select, Selects
<1>2. PICK p : p = Selects(o)
  OBVIOUS
<1>3. fn' = fn /\ Becomes(p, o, o')
  BY <1>1, <1>2 DEF Compiles, CompilesWith, Becomes
<1>4. /\ Good(o, {}) /\ Sound(o, o.blocks, Under(o.blocks), {}, {}) /\ Nest(o.blocks)
      /\ Block(o).base = Base(o.blocks) /\ Typed(o, o.blocks, <<t, t, "i32">>)
  BY <1>1, TakesGood
<1>5. ASSUME Ok(p)  PROVE Good(p, {})
  <2>1. t \in Types
    BY ResultTypesAre
  <2>2. Sound(p, o.blocks, Under(o.blocks), {}, {}) /\ Frame(o, p)
    BY <1>2, <1>4, <1>5, <2>1, SelectSound
  <2>. QED BY <1>4, <2>2, FrameGood
<1>. QED BY <1>3, <1>4, <1>5, StepInv

LEMMA MemorySizeStep ==
  ASSUME Sane, MemorySize
  PROVE  Sane'
<1>1. Takes(<<>>) /\ Compiles(Sizes(o))
  BY DEF MemorySize, Sizes
<1>2. PICK p : p = Sizes(o)
  OBVIOUS
<1>3. fn' = fn /\ Becomes(p, o, o')
  BY <1>1, <1>2 DEF Compiles, CompilesWith, Becomes
<1>4. Good(o, {}) /\ Sound(o, o.blocks, Under(o.blocks), {}, {}) /\ Nest(o.blocks)
  BY <1>1, TakesGood
<1>5. ASSUME Ok(p)  PROVE Good(p, {})
  BY <1>2, <1>4, <1>5, MemorySizeSound, FrameGood
<1>. QED BY <1>3, <1>4, <1>5, StepInv

LEMMA MemoryGrowStep ==
  ASSUME Sane, MemoryGrow
  PROVE  Sane'
<1>1. Takes(<<"i32">>) /\ Compiles(Grows(o))
  BY DEF MemoryGrow, Grows
<1>2. PICK p : p = Grows(o)
  OBVIOUS
<1>3. fn' = fn /\ Becomes(p, o, o')
  BY <1>1, <1>2 DEF Compiles, CompilesWith, Becomes
<1>4. /\ Good(o, {}) /\ Sound(o, o.blocks, Under(o.blocks), {}, {}) /\ Nest(o.blocks)
      /\ Block(o).base = Base(o.blocks) /\ Typed(o, o.blocks, <<"i32">>)
  BY <1>1, TakesGood
<1>5. ASSUME Ok(p)  PROVE Good(p, {})
  BY <1>2, <1>4, <1>5, MemoryGrowSound, FrameGood
<1>. QED BY <1>3, <1>4, <1>5, StepInv

LEMMA MemoryCopyFillStep ==
  ASSUME Sane, MemoryCopyFill
  PROVE  Sane'
<1>1. Takes(<<"i32", "i32", "i32">>) /\ Compiles(Fills(o))
  BY DEF MemoryCopyFill, Fills
<1>2. PICK p : p = Fills(o)
  OBVIOUS
<1>3. fn' = fn /\ Becomes(p, o, o')
  BY <1>1, <1>2 DEF Compiles, CompilesWith, Becomes
<1>4. /\ Good(o, {}) /\ Sound(o, o.blocks, Under(o.blocks), {}, {}) /\ Nest(o.blocks)
      /\ Block(o).base = Base(o.blocks)
  BY <1>1, TakesGood
<1>5. ASSUME Ok(p)  PROVE Good(p, {})
  BY <1>2, <1>4, <1>5, MemoryCopyFillSound, FrameGood
<1>. QED BY <1>3, <1>4, <1>5, StepInv

-----------------------------------------------------------------------------
(* Blocks, branches and returns.                                           *)

LEMMA NotMiscounted ==
  ASSUME ~Miscounted', NEW p, NEW x, NEW bt, CompilesWith(p, Miscounts(x, bt))
  PROVE  bt.params = <<>> /\ Unshared(x)
<1>1. "wide" \notin Miscounts(x, bt) /\ "params" \notin Miscounts(x, bt)
  BY DEF CompilesWith, Miscounted
<1>. QED BY <1>1 DEF Miscounts, Unshared

LEMMA LoopOrBlockStep ==
  ASSUME Sane, LoopOrBlock, ~Miscounted'
  PROVE  Sane'
<1>1. PICK bt \in fn.blocks, opcode \in {"block", "loop"} :
         Takes(bt.params) /\ CompilesWith(Opens(o, bt, opcode), Miscounts(PreserveRegisters(o), bt))
  BY DEF LoopOrBlock, Opens
<1>2. PICK p : p = Opens(o, bt, opcode)
  OBVIOUS
<1>3. fn' = fn /\ Becomes(p, o, o')
  BY <1>1, <1>2 DEF Compiles, CompilesWith, Becomes
<1>4. Good(o, {})
  BY <1>1, TakesGood
<1>5. bt.params = <<>> /\ bt.results \in Seq(Types) /\ Unshared(PreserveRegisters(o))
  BY <1>1, NotMiscounted, FunctionIs DEF Sane
<1>6. ASSUME Ok(p)  PROVE Good(p, {})
  BY <1>2, <1>4, <1>5, <1>6, LoopOrBlockSound
<1>. QED BY <1>3, <1>4, <1>6, StepInv

LEMMA WaysErr ==
  ASSUME NEW p, NEW W, Ok([p EXCEPT !.ways = W])
  PROVE  Ok(p)
<1>1. [p EXCEPT !.ways = W].err = p.err
  OBVIOUS
<1>. QED BY <1>1 DEF Ok

LEMMA IfStep ==
  ASSUME Sane, If, ~Miscounted'
  PROVE  Sane'
<1>1. PICK bt \in fn.blocks :
         /\ Takes(bt.params \o <<"i32">>)
         /\ CompilesWith([Tests(o, bt) EXCEPT !.ways = {Way(Run, Tests(o, bt).code, to) :
                                                           to \in {Run, At("else", Len(Tests(o, bt).blocks))}}],
                         Miscounts(PreserveNonTopRegisters(o), bt))
  BY DEF If, Tests
<1>2. PICK v : v = Tests(o, bt)
  OBVIOUS
<1>3. PICK W : W = {Way(Run, v.code, to) : to \in {Run, At("else", Len(v.blocks))}}
  OBVIOUS
<1>4. PICK p : p = [v EXCEPT !.ways = W]
  OBVIOUS
<1>5. fn' = fn /\ Becomes(p, o, o')
  BY <1>1, <1>2, <1>3, <1>4 DEF Compiles, CompilesWith, Becomes
<1>6. Good(o, {})
  BY <1>1, TakesGood
<1>7. bt.params = <<>> /\ bt.results \in Seq(Types) /\ Unshared(PreserveNonTopRegisters(o))
  BY <1>1, NotMiscounted, FunctionIs DEF Sane
<1>8. ASSUME Ok(p)  PROVE Good(p, {})
  <2>1. Ok(v)
    BY <1>4, <1>8, WaysErr
  <2>2. Good(v, {})
    BY <1>2, <1>6, <1>7, <2>1, IfSound
  <2>3. \A w \in W : w.code = v.code
    BY <1>3 DEF Way
  <2>4. CodeFits(v.code, v.maxStackSlots, {})
    BY <2>2, GoodFacts DEF Codes
  <2>5. \A w \in W : CodeFits(w.code, v.maxStackSlots, {})
    BY <2>3, <2>4
  <2>. QED BY <1>4, <2>2, <2>5, WaysGood
<1>. QED BY <1>5, <1>6, <1>8, StepInv

LEMMA EndsGood ==
  ASSUME Sane, Ends
  PROVE  Good(o, {})
BY DEF Sane, Ends, Going

LEMMA ElseStep ==
  ASSUME Sane, Else
  PROVE  Sane'
<1>1. PICK v : v = LeaveBlock(o)
  OBVIOUS
<1>2. PICK e : e = CompileElseBlock(v, Block(o))
  OBVIOUS
<1>3. PICK W : W = {Way(Run, v.code, At("end", Depth)), Way(At("else", Depth), <<>>, Run)}
  OBVIOUS
<1>4. PICK p : p = IF Ok(v) THEN [e EXCEPT !.ways = W] ELSE v
  OBVIOUS
<1>5. Ends /\ Block(o).opcode = "if" /\ Compiles(p)
  BY <1>1, <1>2, <1>3, <1>4 DEF Else, Then
<1>6. fn' = fn /\ Becomes(p, o, o')
  BY <1>5 DEF Compiles, CompilesWith, Becomes
<1>7. Good(o, {})
  BY <1>5, EndsGood
<1>8. Len(o.blocks) > 1
  <2>1. /\ o.blocks \in Seq(Scopes) /\ Len(o.blocks) \in Nat /\ Len(o.blocks) > 0
        /\ Sound(o, o.blocks, Under(o.blocks), {}, {})
    BY <1>7, GoodFacts
  <2>2. o.blocks[1].opcode = "function"
    BY <2>1, SoundParts DEF Framed
  <2>3. Len(o.blocks) # 1
    <3>1. Len(o.blocks) = 1 => Block(o) = o.blocks[1]
      BY DEF Block, Last
    <3>. QED BY <1>5, <2>2, <3>1
  <2>4. PICK n \in Nat : n = Len(o.blocks) /\ n > 0
    BY <2>1
  <2>5. n # 1
    BY <2>3, <2>4
  <2>6. \A k \in Nat : k > 0 /\ k # 1 => k > 1
    OBVIOUS
  <2>7. n > 1
    BY <2>4, <2>5, <2>6
  <2>. QED BY <2>4, <2>7
<1>9. ASSUME Ok(p)  PROVE Good(p, {})
  <2>1. Ok(v) /\ p = [e EXCEPT !.ways = W]
    BY <1>4, <1>9
  <2>2. Ok(e)
    BY <1>9, <2>1, WaysErr
  <2>3. Good(e, {}) /\ CodeFits(v.code, e.maxStackSlots, {})
    BY <1>1, <1>2, <1>5, <1>7, <1>8, <2>1, <2>2, ElseGood
  <2>4. \A w \in W : w.code \in {v.code, <<>>}
    BY <1>3 DEF Way
  <2>5. \A w \in W : CodeFits(w.code, e.maxStackSlots, {})
    BY <2>3, <2>4, NoCodeFits
  <2>. QED BY <2>1, <2>3, <2>5, WaysGood
<1>. QED BY <1>6, <1>7, <1>9, StepInv

LEMMA EndStep ==
  ASSUME Sane, End
  PROVE  Sane'
<1>1. PICK v : v = LeaveBlock(o)
  OBVIOUS
<1>2. Ends /\ Depth > 1 /\ (Block(o).opcode = "if" => Block(o).params = Block(o).results)
  BY DEF End
<1>3. Good(o, {})
  BY <1>2, EndsGood
<1>4. Block(o).opcode = "if" => Block(o).results = <<>>
  <2>1. Sound(o, o.blocks, Under(o.blocks), {}, {})
    BY <1>3, GoodFacts
  <2>2. Block(o) \in Scopes
    BY <2>1, InnermostBlock
  <2>3. Block(o).params = <<>>
    BY <2>2 DEF Scopes
  <2>. QED BY <1>2, <2>3
<1>5. PICK W : W = {Way(Run, v.code, Run), Way(At("end", Depth), <<>>, Run), Way(At("else", Depth), <<>>, Run)}
  OBVIOUS
<1>6. PICK p : p = IF Ok(v) THEN [v EXCEPT !.ways = W] ELSE v
  OBVIOUS
<1>7. Compiles(p)
  <2>1. Compiles(IF Ok(LeaveBlock(o)) THEN Joined(LeaveBlock(o), Makes(Block(o))) ELSE LeaveBlock(o))
    BY DEF End, Then, Joined, Makes
  <2>2. Compiles(IF Ok(v) THEN Joined(v, Makes(Block(o))) ELSE v)
    BY <1>1, <2>1
  <2>3. ~Makes(Block(o))
    BY <1>4 DEF Makes
  <2>4. Joined(v, Makes(Block(o))) = [v EXCEPT !.ways = W]
    BY <1>5, <2>3 DEF Joined
  <2>. QED BY <1>6, <2>2, <2>4
<1>8. fn' = fn /\ Becomes(p, o, o')
  BY <1>7 DEF Compiles, CompilesWith, Becomes
<1>9. ASSUME Ok(p)  PROVE Good(p, {})
  <2>1. Ok(v) /\ p = [v EXCEPT !.ways = W]
    BY <1>6, <1>9
  <2>2. Good(v, {})
    BY <1>1, <1>2, <1>3, <1>4, <2>1, LeaveGood DEF Depth
  <2>3. \A w \in W : w.code \in {v.code, <<>>}
    BY <1>5 DEF Way
  <2>4. CodeFits(v.code, v.maxStackSlots, {})
    BY <2>2, GoodFacts DEF Codes
  <2>5. \A w \in W : CodeFits(w.code, v.maxStackSlots, {})
    BY <2>3, <2>4, NoCodeFits
  <2>. QED BY <2>1, <2>2, <2>5, WaysGood
<1>. QED BY <1>3, <1>8, <1>9, StepInv

LEMMA FunctionEndStep ==
  ASSUME Sane, FunctionEnd
  PROVE  Sane'
<1>1. PICK v : v = ReturnValues(o, FALSE)
  OBVIOUS
<1>2. PICK W : W = {Way(Run, v.code, At("stop", 1))}
  OBVIOUS
<1>3. PICK p : p = [v EXCEPT !.ways = W]
  OBVIOUS
<1>4. Ends /\ Compiles(p)
  BY <1>1, <1>2, <1>3 DEF FunctionEnd
<1>5. fn' = fn /\ Becomes(p, o, o')
  BY <1>4 DEF Compiles, CompilesWith, Becomes
<1>6. Good(o, {})
  BY <1>4, EndsGood
<1>7. ASSUME Ok(p)  PROVE Good(p, {})
  <2>1. Ok(v)
    BY <1>3, <1>7, WaysErr
  <2>2. Good(v, {})
    BY <1>1, <1>6, <2>1, ReturnSound
  <2>3. \A w \in W : w.code = v.code
    BY <1>2 DEF Way
  <2>4. CodeFits(v.code, v.maxStackSlots, {})
    BY <2>2, GoodFacts DEF Codes
  <2>5. \A w \in W : CodeFits(w.code, v.maxStackSlots, {})
    BY <2>3, <2>4
  <2>. QED BY <1>3, <2>2, <2>5, WaysGood
<1>. QED BY <1>5, <1>6, <1>7, StepInv

LEMMA BranchingStays ==
  ASSUME NEW p, ~Ok(p), NEW d
  PROVE  ~Ok(Branching(p, d))
<1>1. PICK v : v = [p EXCEPT !.code = <<>>]
  OBVIOUS
<1>2. v.err = p.err
  BY <1>1
<1>3. TakenCode(v, d) = v
  BY <1>2 DEF TakenCode, Ok
<1>4. Branching(p, d) = PutAside(p, v, Target(d))
  BY <1>1, <1>3, BranchingIs
<1>5. PutAside(p, v, Target(d)).err = v.err
  BY DEF PutAside
<1>. QED BY <1>2, <1>4, <1>5 DEF Ok

\* What comes is not reached, and the run takes the ways W from here.
LEMMA LeavesGood ==
  ASSUME NEW p, Ok(p) => Good(p, {}), Placeable(p), DOMAIN p = Fields, NEW W,
         Ok(p) => \A w \in W : CodeFits(w.code, p.maxStackSlots, {}),
         NEW q, q = SetStackPolymorphic([p EXCEPT !.ways = W]), Ok(q)
  PROVE  Good(q, {})
<1>1. PICK v : v = [p EXCEPT !.ways = W]
  OBVIOUS
<1>2. DOMAIN v = Fields /\ v.blocks = p.blocks /\ v.stack = p.stack /\ v.err = p.err
  BY <1>1 DEF Fields
<1>3. Placeable(v)
  BY <1>2 DEF Placeable
<1>4. Ok(v)
  BY <1>1, <1>2, <1>3, PolymorphicErrs
<1>5. Ok(p)
  BY <1>2, <1>4 DEF Ok
<1>6. Good(v, {})
  BY <1>1, <1>5, WaysGood
<1>. QED BY <1>1, <1>6, PolymorphicGood

LEMMA UnreachableStep ==
  ASSUME Sane, Unreachable
  PROVE  Sane'
<1>1. PICK W : W = {Way(Run, <<>>, At("trap", 1))}
  OBVIOUS
<1>2. PICK p : p = SetStackPolymorphic([o EXCEPT !.ways = W])
  OBVIOUS
<1>3. Takes(<<>>) /\ Compiles(p)
  BY <1>1, <1>2 DEF Unreachable
<1>4. fn' = fn /\ Becomes(p, o, o')
  BY <1>3 DEF Compiles, CompilesWith, Becomes
<1>5. Good(o, {})
  BY <1>3, TakesGood
<1>6. Placeable(o) /\ DOMAIN o = Fields
  BY <1>5, GoodFacts
<1>7. \A w \in W : CodeFits(w.code, o.maxStackSlots, {})
  <2>1. \A w \in W : w.code = <<>>
    BY <1>1 DEF Way
  <2>. QED BY <2>1, NoCodeFits
<1>8. Ok(p) => Good(p, {})
  BY <1>2, <1>5, <1>6, <1>7, LeavesGood
<1>. QED BY <1>4, <1>5, <1>8, StepInv

LEMMA ReturnStep ==
  ASSUME Sane, Return
  PROVE  Sane'
<1>1. PICK v : v = ReturnValues(o, TRUE)
  OBVIOUS
<1>2. PICK W : W = {Way(Run, v.code, At("stop", 1))}
  OBVIOUS
<1>3. PICK p : p = IF IsStackPolymorphic(o) THEN o ELSE SetStackPolymorphic([v EXCEPT !.ways = W])
  OBVIOUS
<1>4. Takes(Carries(1)) /\ Compiles(p)
  BY <1>1, <1>2, <1>3 DEF Return
<1>5. fn' = fn /\ Becomes(p, o, o')
  BY <1>4 DEF Compiles, CompilesWith, Becomes
<1>6. Good(o, {})
  BY <1>4, TakesGood
<1>7. Placeable(o) /\ DOMAIN o = Fields
  BY <1>6, GoodFacts
<1>8. ASSUME Ok(p)  PROVE Good(p, {})
  <2>1. CASE IsStackPolymorphic(o)
    BY <1>3, <1>6, <2>1
  <2>2. CASE ~IsStackPolymorphic(o)
    <3>1. p = SetStackPolymorphic([v EXCEPT !.ways = W])
      BY <1>3, <2>2
    <3>2. Placeable(v) /\ DOMAIN v = Fields
      BY <1>1, <1>7, ReturnPlace
    <3>3. Ok(v) => Good(v, {})
      BY <1>1, <1>6, ReturnSound
    <3>4. Ok(v) => CodeFits(v.code, v.maxStackSlots, {})
      BY <3>3, GoodFacts DEF Codes
    <3>5. \A w \in W : w.code = v.code
      BY <1>2 DEF Way
    <3>6. Ok(v) => \A w \in W : CodeFits(w.code, v.maxStackSlots, {})
      BY <3>4, <3>5
    <3>. QED BY <1>8, <3>1, <3>2, <3>3, <3>6, LeavesGood
  <2>. QED BY <2>1, <2>2
<1>. QED BY <1>5, <1>6, <1>8, StepInv

LEMMA BranchStep ==
  ASSUME Sane, Branch
  PROVE  Sane'
<1>1. PICK d \in 1..Depth :
        /\ Takes(Carries(d))
        /\ Compiles(IF o.blocks[d].opcode = "loop"
                    THEN [o EXCEPT !.ways = {Way(Run, <<>>, Target(d))}, !.blocks[Depth].poly = TRUE]
                    ELSE SetStackPolymorphic(Branching(o, d)))
  BY DEF Branch
<1>2. PICK W : W = {Way(Run, <<>>, Target(d))}
  OBVIOUS
<1>3. PICK b : b = Branching(o, d)
  OBVIOUS
<1>4. PICK p : p = IF o.blocks[d].opcode = "loop" THEN [o EXCEPT !.ways = W, !.blocks[Depth].poly = TRUE]
                   ELSE SetStackPolymorphic(b)
  OBVIOUS
<1>5. Compiles(p)
  BY <1>1, <1>2, <1>3, <1>4
<1>6. fn' = fn /\ Becomes(p, o, o')
  BY <1>5 DEF Compiles, CompilesWith, Becomes
<1>7. Good(o, {})
  BY <1>1, TakesGood
<1>8. Placeable(o) /\ DOMAIN o = Fields /\ d \in 1..Len(o.blocks)
  BY <1>1, <1>7, GoodFacts DEF Depth
<1>9. ASSUME Ok(p)  PROVE Good(p, {})
  <2>1. CASE o.blocks[d].opcode = "loop"
    <3>1. PICK v : v = [o EXCEPT !.ways = W]
      OBVIOUS
    <3>2. \A w \in W : w.code = <<>>
      BY <1>2 DEF Way
    <3>3. \A w \in W : CodeFits(w.code, o.maxStackSlots, {})
      BY <3>2, NoCodeFits
    <3>5. Good(v, {})
      BY <1>7, <3>1, <3>3, WaysGood
    <3>4. p = [v EXCEPT !.blocks[Len(v.blocks)].poly = TRUE]
      <4>1. v.blocks = o.blocks
        BY <3>1
      <4>2. p = [v EXCEPT !.blocks[Depth].poly = TRUE]
        BY <1>4, <2>1, <3>1
      <4>. QED BY <4>1, <4>2 DEF Depth
    <3>. QED BY <3>4, <3>5, MarkedGood
  <2>2. CASE o.blocks[d].opcode # "loop"
    <3>1. p = SetStackPolymorphic(b)
      BY <1>4, <2>2
    <3>2. Fails(o, b)
      BY <1>3, <1>7, <1>8, BranchingPlace
    <3>3. Ok(b)
      BY <1>9, <3>1, <3>2, PolymorphicErrs DEF Fails
    <3>4. Good(b, {})
      BY <1>3, <1>7, <1>8, <3>3, BranchingSound
    <3>. QED BY <1>9, <3>1, <3>4, PolymorphicGood
  <2>. QED BY <2>1, <2>2
<1>. QED BY <1>6, <1>7, <1>9, StepInv

LEMMA BranchIfStep ==
  ASSUME Sane, BranchIf
  PROVE  Sane'
<1>. DEFINE first == PopType(CopyStackTopToRegister(o), "i32")
            place == [slot |-> R0, type |-> "i32"]
<1>0. PICK d \in 1..Depth, toLoop \in BOOLEAN : \E t, p :
        /\ Takes(Carries(d) \o <<"i32">>)
        /\ t = IF toLoop THEN Emit(first, Op(<<place>>, <<>>, Unused))
               ELSE Emit(Pop(o), Op(<<FromTop(o, 0)>>, <<>>, Unused))
        /\ p = [Branching(t, d) EXCEPT !.ways = @ \cup {Way(Run, Branching(t, d).code, Run)}]
        /\ CompilesWith(p, Displaces(t, d))
  BY DEF BranchIf
<1>1. PICK t, p :
        /\ Takes(Carries(d) \o <<"i32">>)
        /\ t = IF toLoop THEN Emit(first, Op(<<place>>, <<>>, Unused))
               ELSE Emit(Pop(o), Op(<<FromTop(o, 0)>>, <<>>, Unused))
        /\ p = [Branching(t, d) EXCEPT !.ways = @ \cup {Way(Run, Branching(t, d).code, Run)}]
        /\ CompilesWith(p, Displaces(t, d))
  BY <1>0
<1>6. fn' = fn /\ Becomes(p, o, o')
  BY <1>1 DEF CompilesWith, Becomes
<1>7. Good(o, {})
  BY <1>1, TakesGood
<1>8. /\ Sound(o, o.blocks, Under(o.blocks), {}, {}) /\ Nest(o.blocks) /\ Block(o).base = Base(o.blocks)
      /\ o.maxStackSlots \in Nat
  BY <1>7, GoodFacts
<1>9. ASSUME Ok(p)  PROVE Good(p, {})
  <2>1. PICK b : b = Branching(t, d)
    OBVIOUS
  <2>2. p = [b EXCEPT !.ways = b.ways \cup {Way(Run, b.code, Run)}]
    BY <1>1, <2>1
  <2>3. Ok(b)
    BY <1>9, <2>2, WaysErr
  <2>4. Ok(t)
    BY <2>1, <2>3, BranchingStays
  <2>5. Good(t, {}) /\ t.blocks = o.blocks
    <3>1. PICK x : x = IF toLoop THEN first ELSE Pop(o)
      OBVIOUS
    <3>2. PICK args : t = Emit(x, Op(args, <<>>, Unused))
      <4>1. CASE toLoop
        BY <1>1, <3>1, <4>1
      <4>2. CASE ~toLoop
        BY <1>1, <3>1, <4>2
      <4>. QED BY <4>1, <4>2
    <3>3. Ok(x)
      BY <2>4, <3>2, ErrorsStay
    <3>4. Sound(x, o.blocks, Under(o.blocks), {}, {}) /\ Frame(o, x)
      <4>1. CASE toLoop
        <5>1. PICK c : c = CopyStackTopToRegister(o) /\ x = PopType(c, "i32")
          BY <3>1, <4>1
        <5>2. Ok(c)
          BY <3>3, <5>1, PopTypeErrs
        <5>3. Sound(c, o.blocks, Under(o.blocks), {}, {}) /\ Frame(o, c)
          BY <1>8, <5>1, <5>2, CopyTopSound, KeepsIsFrame
        <5>4. Block(c).base = Base(o.blocks)
          BY <1>8, <5>3 DEF Frame, Block
        <5>5. Sound(x, o.blocks, Under(o.blocks), {}, {}) /\ Frame(c, x)
          BY <3>3, <5>1, <5>3, <5>4, PopTypeSound DEF Dropped
        <5>. QED BY <1>8, <5>3, <5>5, FrameTransitive
      <4>2. CASE ~toLoop
        <5>1. x = Pop(o)
          BY <3>1, <4>2
        <5>. QED BY <1>8, <3>3, <5>1, PopSound DEF Dropped
      <4>. QED BY <4>1, <4>2
    <3>5. Sound(t, o.blocks, Under(o.blocks), {}, {}) /\ Frame(x, t)
      <4>1. Fits(Op(args, <<>>, Unused), x.maxStackSlots, {})
        BY OpNoPlaces, RegisterFits
      <4>. QED BY <3>2, <3>4, <4>1, EmitSound DEF Adds, SameOperands
    <3>6. Frame(o, t)
      BY <1>8, <3>4, <3>5, FrameTransitive
    <3>. QED BY <1>8, <3>5, <3>6, FrameGood DEF Frame
  <2>6. Good(b, {})
    BY <1>1, <2>1, <2>3, <2>5, BranchingSound DEF Depth
  <2>7. CodeFits(b.code, b.maxStackSlots, {}) /\ \A w \in b.ways : CodeFits(w.code, b.maxStackSlots, {})
    BY <2>6, GoodFacts DEF Codes
  <2>8. PICK W : W = b.ways \cup {Way(Run, b.code, Run)}
    OBVIOUS
  <2>9. \A w \in W : w \in b.ways \/ w.code = b.code
    BY <2>8 DEF Way
  <2>10. \A w \in W : CodeFits(w.code, b.maxStackSlots, {})
    BY <2>7, <2>9
  <2>. QED BY <2>2, <2>6, <2>8, <2>10, WaysGood
<1>. QED BY <1>6, <1>7, <1>9, StepInv

\* The index of a table of branches.
LEMMA IndexedPlace ==
  ASSUME NEW p, Placeable(p), DOMAIN p = Fields, NEW e, NEW q, q = Pop(Emit(p, e)), ~Ok(q)
  PROVE  Placeable(q) /\ q.blocks = p.blocks /\ DOMAIN q = Fields
<1>1. PICK x : x = Emit(p, e)
  OBVIOUS
<1>2. DOMAIN x = Fields /\ x.stack = p.stack /\ x.blocks = p.blocks
  BY <1>1 DEF Emit, Fields
<1>3. q = Pop(x)
  BY <1>1
<1>4. q = x \/ q = [x EXCEPT !.err = "function stack underrun"]
  <2>1. CASE Ok(x) /\ Len(x.stack) > Block(x).base
    <3>1. PICK v : v = [x EXCEPT !.stack = Front(x.stack)]
      OBVIOUS
    <3>2. v.err = x.err
      BY <3>1
    <3>3. PICK k : k = Last(x.stack)
      OBVIOUS
    <3>4. q = IF IsRegister(k.slot) THEN [v EXCEPT !.reg[k.slot] = 0]
              ELSE IF k.slot >= x.firstDynamic THEN DeallocateSlot(v, k.slot, k.type) ELSE v
      BY <1>3, <2>1, <3>1, <3>3 DEF Pop
    <3>5. DeallocateSlot(v, k.slot, k.type).err = v.err /\ [v EXCEPT !.reg[k.slot] = 0].err = v.err
      BY DEF DeallocateSlot
    <3>6. q.err = x.err
      BY <3>2, <3>4, <3>5
    <3>. QED BY <2>1, <3>6 DEF Ok
  <2>2. CASE ~(Ok(x) /\ Len(x.stack) > Block(x).base)
    BY <1>3, <2>2 DEF Pop, ThrowIf, Throw
  <2>. QED BY <2>1, <2>2
<1>5. DOMAIN q = Fields /\ q.stack = p.stack /\ q.blocks = p.blocks
  <2>1. CASE q = x
    BY <1>2, <2>1
  <2>2. CASE q = [x EXCEPT !.err = "function stack underrun"]
    BY <1>2, <2>2 DEF Fields
  <2>. QED BY <1>4, <2>1, <2>2
<1>. QED BY <1>5 DEF Placeable

LEMMA BranchTableStep ==
  ASSUME Sane, BranchTable
  PROVE  Sane'
<1>0. PICK d \in 1..Depth, default \in 1..Depth : \E x, t, b, c, p :
        /\ Takes(Carries(d) \o <<"i32">>)
        /\ x = PreserveRegisterOfType(o, "i64")
        /\ t = Pop(Emit(x, Op(<<FromTop(x, 0)>>, <<>>, Unused)))
        /\ b = Branching(t, d) /\ c = Branching(b, default) /\ p = SetStackPolymorphic(c)
        /\ CompilesWith(p, Displaces(t, d))
  BY DEF BranchTable
<1>1. PICK x, t, b, c, p :
        /\ Takes(Carries(d) \o <<"i32">>)
        /\ x = PreserveRegisterOfType(o, "i64")
        /\ t = Pop(Emit(x, Op(<<FromTop(x, 0)>>, <<>>, Unused)))
        /\ b = Branching(t, d) /\ c = Branching(b, default) /\ p = SetStackPolymorphic(c)
        /\ CompilesWith(p, Displaces(t, d))
  BY <1>0
<1>2. fn' = fn /\ Becomes(p, o, o')
  BY <1>1 DEF CompilesWith, Becomes
<1>3. Good(o, {})
  BY <1>1, TakesGood
<1>4. /\ Sound(o, o.blocks, Under(o.blocks), {}, {}) /\ Nest(o.blocks) /\ Block(o).base = Base(o.blocks)
      /\ o.maxStackSlots \in Nat /\ DOMAIN o = Fields /\ Placeable(o)
      /\ d \in 1..Len(o.blocks) /\ default \in 1..Len(o.blocks)
  BY <1>1, <1>3, GoodFacts DEF Depth
<1>5. Ok(x) => Sound(x, o.blocks, Under(o.blocks), {}, {}) /\ Frame(o, x)
  BY <1>1, <1>4, PreserveTypeSound, KeepsIsFrame
<1>6. Placeable(x) /\ x.blocks = o.blocks /\ DOMAIN x = Fields
  <2>1. CASE Ok(x)
    <3>1. Good(x, {}) /\ x.blocks = o.blocks
      BY <1>4, <1>5, <2>1, FrameGood DEF Frame
    <3>. QED BY <3>1, GoodFacts
  <2>2. CASE ~Ok(x)
    <3>1. ErrsAt(o, x)
      BY <1>1, <1>4, PreservePlace DEF PreserveRegisterOfType
    <3>. QED BY <1>4, <2>2, <3>1 DEF ErrsAt, Placeable
  <2>. QED BY <2>1, <2>2
<1>7. Ok(t) => Good(t, {}) /\ t.blocks = o.blocks
  <2>. SUFFICES ASSUME Ok(t)  PROVE Good(t, {}) /\ t.blocks = o.blocks
    OBVIOUS
  <2>1. Ok(x)
    BY <1>1, PopStays
  <2>2. Block(x).base = Base(o.blocks)
    BY <1>4, <1>6 DEF Block
  <2>3. Sound(t, o.blocks, Under(o.blocks), {}, {}) /\ Frame(x, t)
    BY <1>1, <1>5, <2>1, <2>2, TakeOneSound
  <2>4. Frame(o, t)
    BY <1>4, <1>5, <2>1, <2>3, FrameTransitive
  <2>. QED BY <1>4, <2>3, <2>4, FrameGood DEF Frame
<1>8. Placeable(t) /\ t.blocks = o.blocks /\ DOMAIN t = Fields
  BY <1>1, <1>6, <1>7, IndexedPlace, GoodFacts
<1>9. Ok(b) => Good(b, {}) /\ b.blocks = o.blocks
  BY <1>1, <1>4, <1>7, BranchingStays, BranchingSound
<1>10. Placeable(b) /\ b.blocks = o.blocks /\ DOMAIN b = Fields
  <2>1. CASE Ok(b)
    BY <1>9, <2>1, GoodFacts
  <2>2. CASE ~Ok(b)
    <3>1. d \in 1..Len(t.blocks)
      BY <1>4, <1>8
    <3>2. Fails(t, b)
      BY <1>1, <1>7, <1>8, <3>1, BranchingPlace
    <3>. QED BY <1>8, <2>2, <3>2 DEF Fails
  <2>. QED BY <2>1, <2>2
<1>11. ASSUME Ok(p)  PROVE Good(p, {})
  <2>1. default \in 1..Len(b.blocks)
    BY <1>4, <1>10
  <2>2. Fails(b, c)
    BY <1>1, <1>9, <1>10, <2>1, BranchingPlace
  <2>3. Ok(c)
    BY <1>1, <1>11, <2>2, PolymorphicErrs DEF Fails
  <2>4. Ok(b)
    BY <1>1, <2>3, BranchingStays
  <2>5. Good(c, {})
    BY <1>1, <1>9, <2>1, <2>3, <2>4, BranchingSound
  <2>. QED BY <1>1, <1>11, <2>5, PolymorphicGood
<1>. QED BY <1>2, <1>3, <1>11, StepInv

-----------------------------------------------------------------------------
(* Calls.                                                                  *)

LEMMA CallIs ==
  ASSUME NEW p, NEW w, NEW x, x = IF w.indirect /\ TopInRegister(p, 0) THEN PreserveRegisterOfType(p, "i32") ELSE p
  PROVE  CompileCall(p, w) = Calling(x, w, CallIndex(x, w), CallTop(x))
BY DEF CompileCall, Calling, CallIndex, ArgPlaces, RetPlaces, PassedArgs, TakenResults, PassArgument, TakeResult,
       FoldLeft, MapThenFoldSet

LEMMA PassSteps ==
  ASSUME NEW p, NEW n \in Nat, NEW w, NEW top, NEW q, DOMAIN q = 1..n
  PROVE  \E g : Steps(g, "pass", <<w, top>>, p, q, n) /\ PassedArgs(w, top, p, q) = g[n]
<1>. DEFINE Body(h) == [s \in SUBSET (DOMAIN q) |-> IF s = {} THEN p ELSE PassArgument(w, top, h[s \ {Max(s)}], q[Max(s)])]
<1>1. \A x, k : Do("pass", <<w, top>>, x, k) = PassArgument(w, top, x, k)
  BY DEF Do
<1>2. \A h : Body(h) = DoBody(h, "pass", <<w, top>>, p, q)
  BY <1>1 DEF DoBody
<1>. HIDE DEF Body
<1>3. \E h : h = Body(h)
  BY <1>2, FoldExists DEF DoneBy
<1>4. PICK f : f = Body(f) /\ PassedArgs(w, top, p, q) = f[DOMAIN q]
  BY <1>3 DEF Body, PassedArgs, FoldLeft, MapThenFoldSet
<1>. QED BY <1>2, <1>4, FoldSteps DEF DoneBy

LEMMA TakeSteps ==
  ASSUME NEW p, NEW n \in Nat, NEW q, DOMAIN q = 1..n
  PROVE  \E g : Steps(g, "take", <<>>, p, q, n) /\ TakenResults(p, q) = g[n]
<1>. DEFINE Body(h) == [s \in SUBSET (DOMAIN q) |-> IF s = {} THEN p ELSE TakeResult(h[s \ {Max(s)}], q[Max(s)])]
<1>1. \A x, k : Do("take", <<>>, x, k) = TakeResult(x, k)
  BY DEF Do
<1>2. \A h : Body(h) = DoBody(h, "take", <<>>, p, q)
  BY <1>1 DEF DoBody
<1>. HIDE DEF Body
<1>3. \E h : h = Body(h)
  BY <1>2, FoldExists DEF DoneBy
<1>4. PICK f : f = Body(f) /\ TakenResults(p, q) = f[DOMAIN q]
  BY <1>3 DEF Body, TakenResults, FoldLeft, MapThenFoldSet
<1>. QED BY <1>2, <1>4, FoldSteps DEF DoneBy

\* Errors on the way are there in the end.
LEMMA PassErrs ==
  ASSUME NEW p, NEW n \in Nat, NEW w, NEW top, NEW g, Steps(g, "pass", <<w, top>>, p, [k \in 1..n |-> k], n),
         NEW j \in 0..n, ~Ok(g[j])
  PROVE  ~Ok(g[n])
<1>1. \A k \in 1..n : g[k] = PassArgument(w, top, g[k - 1], k)
  BY DEF Steps, Do
<1>l. PICK l \in Nat : j + l = n
  OBVIOUS
<1>. DEFINE S == {k \in 0..l : ~Ok(g[j + k])}
<1>2. 0 \in S
  OBVIOUS
<1>3. ASSUME NEW k \in 1..l, k - 1 \in S  PROVE k \in S
  <2>1. PICK i \in 1..n : i = j + k /\ i - 1 = j + (k - 1)
    BY <1>l
  <2>2. ~Ok(g[i - 1])
    BY <1>3, <2>1
  <2>3. PICK e : g[i] = Pop(Emit(g[i - 1], e))
    BY <1>1 DEF PassArgument, CopyStackTopToSlot
  <2>4. ~Ok(g[i])
    BY <2>2, <2>3, PopStays
  <2>. QED BY <2>1, <2>4
<1>. HIDE DEF S
<1>4. \A k \in 1..l : k - 1 \in S => k \in S
  BY <1>3
<1>5. \A k \in 0..l : k \in S
  BY <1>2, <1>4, Upwards
<1>. QED BY <1>l, <1>5 DEF S

LEMMA TakeErrs ==
  ASSUME NEW p, NEW n \in Nat, NEW q, NEW g, Steps(g, "take", <<>>, p, q, n), NEW j \in 0..n, ~Ok(g[j])
  PROVE  ~Ok(g[n])
<1>1. \A k \in 1..n : g[k] = TakeResult(g[k - 1], q[k])
  BY DEF Steps, Do
<1>l. PICK l \in Nat : j + l = n
  OBVIOUS
<1>. DEFINE S == {k \in 0..l : ~Ok(g[j + k])}
<1>2. 0 \in S
  OBVIOUS
<1>3. ASSUME NEW k \in 1..l, k - 1 \in S  PROVE k \in S
  <2>1. PICK i \in 1..n : i = j + k /\ i - 1 = j + (k - 1)
    BY <1>l
  <2>2. ~Ok(g[i - 1])
    BY <1>3, <2>1
  <2>3. g[i] = MarkSlotsAllocated(Push(g[i - 1], q[i].type, q[i].slot), q[i].slot, q[i].type)
    BY <1>1 DEF TakeResult
  <2>4. Push(g[i - 1], q[i].type, q[i].slot) = g[i - 1]
    BY <2>2, ErrorsStay
  <2>5. g[i].err = g[i - 1].err
    BY <2>3, <2>4, MarkErrs
  <2>6. ~Ok(g[i])
    BY <2>2, <2>5 DEF Ok
  <2>. QED BY <2>1, <2>6
<1>. HIDE DEF S
<1>4. \A k \in 1..l : k - 1 \in S => k \in S
  BY <1>3
<1>5. \A k \in 0..l : k \in S
  BY <1>2, <1>4, Upwards
<1>. QED BY <1>l, <1>5 DEF S

\* Nothing is in the slots from top on.
FreeFrom(p, top) == \A s \in 0..(MaxSlots - 1) : s >= top => p.use[s] = 0
\* Where a call takes its arguments.
ArgSlots(w, top) == {top + IoSlots * (Len(w.rets) + i - 1) : i \in DOMAIN w.args}

LEMMA PassSound ==
  ASSUME NEW p, NEW bs, NEW B, NEW top \in Nat, NEW w, Sound(p, bs, B, ArgSlots(w, top), {}),
         Block(p).base = Base(bs), FreeFrom(p, top), NEW n \in Nat, w.rets \in Seq(Types), w.args \in Seq(Types), n <= Len(w.args),
         NEW q, q = PassedArgs(w, top, p, [k \in 1..n |-> k]), Ok(q)
  PROVE  Sound(q, bs, B, ArgSlots(w, top), {}) /\ Frame(p, q) /\ FreeFrom(q, top)
<1>n. p.maxStackSlots \in Nat
  BY SoundNumbers
<1>0. PICK s : s = [k \in 1..n |-> k]
  OBVIOUS
<1>1. PICK g : Steps(g, "pass", <<w, top>>, p, s, n) /\ q = g[n]
  BY <1>0, PassSteps
<1>2. g[0] = p /\ \A k \in 1..n : g[k] = PassArgument(w, top, g[k - 1], k)
  BY <1>0, <1>1 DEF Steps, Do
<1>3. \A k \in 0..n : Ok(g[k])
  BY <1>0, <1>1, PassErrs
<1>. DEFINE S == {k \in 0..n : Sound(g[k], bs, B, ArgSlots(w, top), {}) /\ Frame(p, g[k]) /\ FreeFrom(g[k], top)}
<1>4. 0 \in S
  BY <1>2, <1>n, FrameReflexive
<1>5. ASSUME NEW k \in 1..n, k - 1 \in S  PROVE k \in S
  <2>1. PICK x : x = g[k - 1] /\ Sound(x, bs, B, ArgSlots(w, top), {}) /\ Frame(p, x) /\ FreeFrom(x, top)
    BY <1>5
  <2>2. PICK r \in Nat : r = Len(w.rets)
    OBVIOUS
  <2>3. PICK dst : dst = top + IoSlots * (Len(w.rets) + (Len(w.args) - k + 1) - 1)
    OBVIOUS
  <2>4. dst \in ArgSlots(w, top)
    <3>1. PICK a \in Nat : a = Len(w.args) /\ n <= a /\ DOMAIN w.args = 1..a
      OBVIOUS
    <3>2. a - k + 1 \in DOMAIN w.args
      BY <3>1
    <3>. QED BY <2>3, <3>1, <3>2 DEF ArgSlots
  <2>5. PICK e : e = Move(dst, FromTop(x, 0).slot, FromTop(x, 0).type)
    OBVIOUS
  <2>6. PICK v : v = Emit(x, e)
    OBVIOUS
  <2>7. g[k] = Pop(v)
    BY <1>2, <2>1, <2>3, <2>5, <2>6 DEF PassArgument, CopyStackTopToSlot
  <2>8. Fits(e, x.maxStackSlots, ArgSlots(w, top))
    <3>1. e.op = "move" /\ e.dst = dst
      BY <2>5 DEF Move
    <3>. QED BY <2>4, <3>1 DEF Fits, PlacesOf
  <2>9. Sound(v, bs, B, ArgSlots(w, top), {}) /\ Adds(x, v)
    BY <2>1, <2>6, <2>8, EmitSound
  <2>10. Frame(x, v) /\ v.use = x.use
    BY <2>9 DEF Adds, SameOperands
  <2>11. Frame(p, v)
    BY <1>n, <2>1, <2>10, FrameTransitive
  <2>12. Block(v).base = Base(bs)
    BY <2>11 DEF Frame, Block
  <2>13. Ok(g[k])
    BY <1>3
  <2>14. Sound(g[k], bs, B, ArgSlots(w, top), {}) /\ Dropped(v, bs, 1, g[k])
    BY <2>7, <2>9, <2>12, <2>13, PopSound
  <2>15. Frame(p, g[k])
    BY <1>n, <2>11, <2>14, FrameTransitive DEF Dropped
  <2>16. FreeFrom(g[k], top)
    <3>1. g[k].use \in [0..(MaxSlots - 1) -> 0..MaxUse]
      BY <2>14, SoundNumbers
    <3>2. \A y \in 0..(MaxSlots - 1) : g[k].use[y] \in Nat /\ g[k].use[y] <= x.use[y]
      BY <2>10, <2>14, <3>1, Limits DEF Dropped
    <3>. QED BY <2>1, <3>2 DEF FreeFrom
  <2>. QED BY <2>14, <2>15, <2>16
<1>. HIDE DEF S
<1>6. \A k \in 1..n : k - 1 \in S => k \in S
  BY <1>5
<1>7. \A k \in 0..n : k \in S
  BY <1>4, <1>6, Upwards
<1>. QED BY <1>1, <1>7 DEF S

\* A result of a call is where the callee leaves it.
LEMMA TakeResultSound ==
  ASSUME NEW p, NEW bs, NEW B, NEW T, Sound(p, bs, B, T, {}), NEW s \in Nat, NEW t \in Types,
         p.firstDynamic <= s, s + NumSlots(t) <= MaxSlots, FreeFrom(p, s),
         NEW ret, ret.slot = s, ret.type = t, NEW q, q = TakeResult(p, ret), Ok(q)
  PROVE  Sound(q, bs, B, T, {}) /\ Frame(p, q) /\ FreeFrom(q, s + NumSlots(t)) /\ s < q.maxStackSlots
<1>n. /\ DOMAIN p = Fields /\ p.maxStackSlots \in Nat /\ p.stack \in Seq(Entries) /\ Len(p.stack) \in Nat
      /\ p.firstConst \in Nat /\ p.firstDynamic \in Nat /\ p.firstConst <= p.firstDynamic /\ MaxSlots \in Nat
      /\ p.use \in [0..(MaxSlots - 1) -> 0..MaxUse] /\ DOMAIN p.use = 0..(MaxSlots - 1)
      /\ p.numLocals \in Nat /\ Base(bs) \in Nat /\ p.numLocals <= Base(bs) /\ Base(bs) <= Len(p.stack)
  <2>1. p.firstConst \in Nat /\ p.maxConst \in Nat /\ p.firstDynamic \in Nat
        /\ p.firstConst <= p.maxConst /\ p.maxConst <= p.firstDynamic
    BY SoundNumbers
  <2>2. p.firstConst <= p.firstDynamic
    BY <2>1
  <2>. QED BY <2>1, <2>2, SoundNumbers, Limits
<1>w. PICK n \in {1, 2} : n = NumSlots(t)
  BY SlotWidth
<1>s. s \in 0..(MaxSlots - 1) /\ s \in Locations /\ ~IsRegister(s) /\ t \in EntryTypes /\ s \notin Registers
  BY <1>n, <1>w, Limits DEF EntryTypes
<1>0. PICK e : e = [slot |-> s, type |-> t]
  OBVIOUS
<1>1. PICK v : v = Push(p, t, s)
  OBVIOUS
<1>2. q = MarkSlotsAllocated(v, s, t)
  BY <1>1 DEF TakeResult
<1>3. Ok(v)
  <2>1. q.err = v.err
    BY <1>2, MarkErrs
  <2>. QED BY <2>1 DEF Ok
<1>4. Pushed(p, v, s, t)
  BY <1>1, <1>3, <1>n, <1>s, PushIs
<1>5. v.maxStackSlots = p.maxStackSlots
  <2>1. PICK x : x = [p EXCEPT !.stack = Append(@, [slot |-> s, type |-> t])]
    OBVIOUS
  <2>2. v = p \/ v = Throw(p, "function stack overflow") \/ v = x
    BY <1>1, <1>s, <2>1 DEF Push
  <2>3. x.maxStackSlots = p.maxStackSlots
    BY <2>1
  <2>4. Throw(p, "function stack overflow").maxStackSlots = p.maxStackSlots
    BY DEF Throw
  <2>. QED BY <2>2, <2>3, <2>4
<1>6. /\ Frame(p, v) /\ v.maxConst = p.maxConst /\ v.err = p.err /\ v.code = p.code /\ v.use = p.use
      /\ v.stack = Append(p.stack, [slot |-> s, type |-> t]) /\ v.reg = p.reg /\ DOMAIN v = Fields
  BY <1>4, <1>n, <1>s DEF Pushed, Frame
<1>7. PICK a : a = MarkSlotsAllocated(p, s, t)
  OBVIOUS
<1>8. /\ SameOperands(p, a) /\ a.code = p.code /\ a.maxStackSlots >= s + n
      /\ a.use = [x \in DOMAIN p.use |-> IF x \in Slots(s, t) THEN 1 ELSE p.use[x]]
  <2>1. /\ SameOperands(p, a) /\ a.code = p.code /\ a.maxStackSlots >= s + NumSlots(t)
        /\ a.use = [x \in DOMAIN p.use |-> IF x \in Slots(s, t) THEN 1 ELSE p.use[x]]
    <3>1. p.maxStackSlots \in Nat
      BY <1>n
    <3>. QED BY <1>7, <3>1, MarkIs
  <2>. QED BY <1>w, <2>1
<1>9. /\ SameOperands(v, q) /\ q.code = v.code /\ q.maxStackSlots >= s + n
      /\ q.use = [x \in DOMAIN p.use |-> IF x \in Slots(s, t) THEN 1 ELSE p.use[x]]
  <2>1. v.maxStackSlots \in Nat
    BY <1>5, <1>n
  <2>2. /\ SameOperands(v, q) /\ q.code = v.code /\ q.maxStackSlots >= s + NumSlots(t)
        /\ q.use = [x \in DOMAIN v.use |-> IF x \in Slots(s, t) THEN 1 ELSE v.use[x]]
    BY <1>2, <2>1, MarkIs
  <2>. QED BY <1>w, <1>6, <2>2
<1>10. Slots(s, t) = s..(s + n - 1)
  BY <1>w DEF Slots
<1>11. Sound(a, bs, B, T, s..(s + n - 1))
  <2>1. \A x \in s..(s + n - 1) : p.use[x] = 0
    BY <1>n, <1>w DEF FreeFrom
  <2>2. Uses(p, a, s, n)
    BY <1>8, <1>10 DEF Uses
  <2>. QED BY <1>8, <2>1, <2>2, AllocatedSound
<1>12. q.maxStackSlots = a.maxStackSlots
  <2>1. q.maxStackSlots = Max({v.maxStackSlots, s + NumSlots(t) - 1 + 1})
    BY <1>2, <1>6 DEF MarkSlotsAllocated, TouchSlot, Fields
  <2>2. a.maxStackSlots = Max({p.maxStackSlots, s + NumSlots(t) - 1 + 1})
    BY <1>7, <1>n DEF MarkSlotsAllocated, TouchSlot, Fields
  <2>. QED BY <1>5, <2>1, <2>2
<1>13. Pushed(a, q, s, t)
  <2>1. /\ Frame(p, a) /\ a.stack = p.stack /\ a.reg = p.reg /\ a.maxConst = p.maxConst /\ a.err = p.err
    BY <1>8 DEF SameOperands
  <2>2. /\ Frame(v, q) /\ q.stack = v.stack /\ q.reg = v.reg /\ q.maxConst = v.maxConst /\ q.err = v.err
    BY <1>9 DEF SameOperands
  <2>3. Frame(a, q)
    <3>1. PICK z \in Nat : z = a.maxStackSlots /\ z >= z
      BY <2>1 DEF Frame
    <3>2. q.maxStackSlots \in Nat /\ q.maxStackSlots >= a.maxStackSlots
      BY <1>12, <3>1
    <3>3. /\ DOMAIN q = DOMAIN a /\ q.blocks = a.blocks /\ q.numLocals = a.numLocals /\ q.firstConst = a.firstConst
          /\ q.firstDynamic = a.firstDynamic /\ q.over = a.over /\ q.ways = a.ways
      BY <1>6, <2>1, <2>2 DEF Frame
    <3>. QED BY <3>2, <3>3 DEF Frame
  <2>. QED BY <1>6, <1>8, <1>9, <1>s, <2>1, <2>2, <2>3 DEF Pushed
<1>14. EntryFits(a, bs, Len(a.stack) + 1, e)
  <2>1. /\ a.firstConst = p.firstConst /\ a.firstDynamic = p.firstDynamic /\ a.numLocals = p.numLocals
        /\ a.stack = p.stack /\ a.maxStackSlots \in Nat
    BY <1>8 DEF SameOperands, Frame
  <2>2. ~(s < a.firstConst) /\ ~(s < a.firstDynamic) /\ s < a.maxStackSlots
    BY <1>8, <1>n, <1>w, <2>1, SMTT(30)
  <2>3. ~(Len(a.stack) + 1 <= a.numLocals)
    BY <1>n, <2>1
  <2>4. e.slot = s /\ e.type = t /\ t # "none"
    BY <1>0 DEF Types
  <2>. QED BY <1>s, <2>2, <2>3, <2>4 DEF EntryFits
<1>15. Sound(q, bs, B, T, {})
  <2>1. EntryFits(a, bs, Len(a.stack) + 1, [slot |-> s, type |-> t])
    BY <1>0, <1>14
  <2>2. \A x \in Dynamic(a) : x \in s..(s + n - 1) <=> x \in Slots(s, t)
    BY <1>10
  <2>. QED BY <1>11, <1>13, <1>s, <2>1, <2>2, PushedSound
<1>16. Frame(p, q)
  <2>1. Frame(v, q)
    BY <1>9 DEF SameOperands
  <2>. QED BY <1>6, <1>n, <2>1, FrameTransitive
<1>17. FreeFrom(q, s + NumSlots(t))
  <2>1. ASSUME NEW x \in 0..(MaxSlots - 1), x >= s + n  PROVE q.use[x] = 0
    <3>1. x \notin s..(s + n - 1) /\ x >= s
      BY <1>w, <2>1
    <3>2. p.use[x] = 0
      BY <3>1 DEF FreeFrom
    <3>. QED BY <1>9, <1>10, <1>n, <3>1, <3>2
  <2>. QED BY <1>w, <2>1 DEF FreeFrom
<1>18. s < q.maxStackSlots
  <2>1. q.maxStackSlots \in Nat
    BY <1>16 DEF Frame
  <2>. QED BY <1>9, <1>w, <2>1
<1>. QED BY <1>15, <1>16, <1>17, <1>18

LEMMA ResultsTaken ==
  ASSUME NEW p, NEW bs, NEW B, NEW T, NEW top \in Nat, Sound(p, bs, B, T, {}), p.firstDynamic <= top, FreeFrom(p, top),
         NEW w, NEW n \in Nat, DOMAIN w.rets = 1..n, \A i \in 1..n : w.rets[i] \in Types, top + 2 * n <= MaxSlots,
         NEW q, q = TakenResults(p, RetPlaces(w, top)), Ok(q)
  PROVE  Sound(q, bs, B, T, {}) /\ Frame(p, q) /\ \A i \in 1..n : top + 2 * (i - 1) < q.maxStackSlots
<1>n. p.maxStackSlots \in Nat /\ p.firstDynamic \in Nat /\ MaxSlots \in Nat
  BY SoundNumbers, Limits
<1>0. PICK r : r = RetPlaces(w, top)
  OBVIOUS
<1>r. DOMAIN r = 1..n /\ \A i \in 1..n : r[i].slot = top + 2 * (i - 1) /\ r[i].type = w.rets[i]
  BY <1>0 DEF RetPlaces, IoSlots
<1>1. PICK g : Steps(g, "take", <<>>, p, r, n) /\ q = g[n]
  BY <1>0, <1>r, TakeSteps
<1>2. g[0] = p /\ \A k \in 1..n : g[k] = TakeResult(g[k - 1], r[k])
  BY <1>1 DEF Steps, Do
<1>3. \A k \in 0..n : Ok(g[k])
  BY <1>1, TakeErrs
<1>. DEFINE S == {k \in 0..n : /\ Sound(g[k], bs, B, T, {}) /\ Frame(p, g[k]) /\ FreeFrom(g[k], top + 2 * k)
                               /\ k > 0 => top + 2 * (k - 1) < g[k].maxStackSlots}
<1>4. 0 \in S
  BY <1>2, <1>n, FrameReflexive
<1>5. ASSUME NEW k \in 1..n, k - 1 \in S  PROVE k \in S
  <2>1. PICK x : x = g[k - 1] /\ Sound(x, bs, B, T, {}) /\ Frame(p, x) /\ FreeFrom(x, top + 2 * (k - 1))
    BY <1>5
  <2>2. PICK s \in Nat : s = top + 2 * (k - 1)
    OBVIOUS
  <2>3. PICK t \in Types : t = w.rets[k]
    OBVIOUS
  <2>4. PICK z \in {1, 2} : z = NumSlots(t)
    BY SlotWidth
  <2>5. p.firstDynamic <= s /\ s + z <= MaxSlots
    BY <1>n, <2>2
  <2>6. x.firstDynamic = p.firstDynamic
    BY <2>1 DEF Frame
  <2>7. g[k] = TakeResult(x, r[k]) /\ r[k].slot = s /\ r[k].type = t
    BY <1>2, <1>r, <2>1, <2>2, <2>3
  <2>8. FreeFrom(x, s)
    BY <2>1, <2>2
  <2>9. Ok(g[k])
    BY <1>3
  <2>10. Sound(g[k], bs, B, T, {}) /\ Frame(x, g[k]) /\ FreeFrom(g[k], s + z) /\ s < g[k].maxStackSlots
    BY <2>1, <2>4, <2>5, <2>6, <2>7, <2>8, <2>9, TakeResultSound
  <2>11. Frame(p, g[k])
    BY <1>n, <2>1, <2>10, FrameTransitive
  <2>12. FreeFrom(g[k], top + 2 * k)
    <3>1. \A y \in 0..(MaxSlots - 1) : y >= top + 2 * k => y >= s + z
      BY <2>2
    <3>. QED BY <2>10, <3>1 DEF FreeFrom
  <2>. QED BY <2>2, <2>10, <2>11, <2>12
<1>. HIDE DEF S
<1>6. \A k \in 1..n : k - 1 \in S => k \in S
  BY <1>5
<1>7. \A k \in 0..n : k \in S
  BY <1>4, <1>6, Upwards
<1>8. /\ Sound(q, bs, B, T, {}) /\ Frame(p, q)
      /\ n > 0 => top + 2 * (n - 1) < q.maxStackSlots
  BY <1>1, <1>7 DEF S
<1>9. ASSUME NEW i \in 1..n  PROVE top + 2 * (i - 1) < q.maxStackSlots
  <2>1. PICK z \in Nat : z = q.maxStackSlots
    BY <1>8 DEF Frame
  <2>2. top + 2 * (n - 1) < z
    BY <1>8, <2>1
  <2>. QED BY <2>1, <2>2
<1>. QED BY <1>8, <1>9

\* The frame of a callee begins above what is in use.
LastUsed(p, n, u) == u = p.firstDynamic \/ \E s \in 0..(n - 1) : p.use[s] > 0 /\ u = s + 1

LEMMA UsedBelow ==
  ASSUME NEW p, NEW n \in Nat, p.use \in [0..(n - 1) -> 0..MaxUse], p.firstDynamic \in Nat,
         NEW top, top = MaxUsedSlotPlusOne(p)
  PROVE  /\ top \in Nat /\ p.firstDynamic <= top
         /\ \A s \in 0..(n - 1) : s >= top => p.use[s] = 0
         /\ LastUsed(p, n, top)
<1>1. PICK U : U = {x \in DOMAIN p.use : p.use[x] > 0}
  OBVIOUS
<1>2. PICK S : S = {p.firstDynamic} \cup {s + 1 : s \in U}
  OBVIOUS
<1>3. DOMAIN p.use = 0..(n - 1)
  OBVIOUS
<1>4. U \subseteq 0..(n - 1)
  BY <1>1, <1>3
<1>5. S \subseteq Nat /\ S # {} /\ n + p.firstDynamic \in Nat /\ \A y \in S : y <= n + p.firstDynamic
  BY <1>2, <1>4
<1>6. top = Max(S)
  BY <1>1, <1>2 DEF MaxUsedSlotPlusOne
<1>7. top \in S /\ \A y \in S : top >= y
  BY <1>5, <1>6, MaxOf
<1>8. \A s \in 0..(n - 1) : s >= top => p.use[s] = 0
  <2>. SUFFICES ASSUME NEW s \in 0..(n - 1), s >= top, p.use[s] # 0  PROVE FALSE
    OBVIOUS
  <2>1. p.use[s] \in 0..MaxUse
    OBVIOUS
  <2>2. MaxUse \in Nat
    BY Limits
  <2>3. p.use[s] > 0
    BY <2>1, <2>2
  <2>4. s + 1 \in S
    BY <1>1, <1>2, <1>3, <2>3
  <2>5. top \in Nat /\ top >= s + 1
    BY <1>5, <1>7, <2>4
  <2>. QED BY <2>5
<1>9. LastUsed(p, n, top)
  BY <1>1, <1>2, <1>4, <1>7 DEF LastUsed
<1>10. p.firstDynamic <= top /\ top \in Nat
  BY <1>2, <1>5, <1>7
<1>. QED BY <1>8, <1>9, <1>10

LEMMA UsedTop ==
  ASSUME NEW p, NEW bs, NEW B, NEW T, NEW E, Sound(p, bs, B, T, E), NEW u, u = MaxUsedSlotPlusOne(p)
  PROVE  /\ u \in Nat /\ p.firstDynamic <= u /\ \A s \in 0..(MaxSlots - 1) : s >= u => p.use[s] = 0
         /\ LastUsed(p, MaxSlots, u)
<1>1. PICK n \in Nat : n = MaxSlots
  BY Limits
<1>2. p.use \in [0..(MaxSlots - 1) -> 0..MaxUse] /\ p.firstDynamic \in Nat
  BY SoundNumbers
<1>3. p.use \in [0..(n - 1) -> 0..MaxUse]
  BY <1>1, <1>2
<1>4. /\ u \in Nat /\ p.firstDynamic <= u /\ \A s \in 0..(n - 1) : s >= u => p.use[s] = 0
      /\ LastUsed(p, n, u)
  <2>1. p.firstDynamic \in Nat /\ p.use \in [0..(n - 1) -> 0..MaxUse]
    BY <1>2, <1>3
  <2>2. PICK x : x = MaxUsedSlotPlusOne(p)
    OBVIOUS
  <2>3. x \in Nat /\ p.firstDynamic <= x /\ \A s \in 0..(n - 1) : s >= x => p.use[s] = 0
    BY <2>1, <2>2, UsedBelow
  <2>4. LastUsed(p, n, x)
    BY <2>1, <2>2, UsedBelow
  <2>. QED BY <2>2, <2>3, <2>4
<1>. QED BY <1>1, <1>4

LEMMA CallTopIs ==
  ASSUME NEW p, NEW bs, NEW B, NEW T, NEW E, Sound(p, bs, B, T, E), NEW top, top = CallTop(p)
  PROVE  /\ top \in Nat /\ p.firstDynamic <= top /\ FreeFrom(p, top)
         /\ \A k \in Nat : MaxUsedSlotPlusOne(p) <= k /\ k > 0 => top <= k + 1
<1>n. MaxSlots \in Nat /\ p.firstDynamic \in Nat
  BY SoundNumbers, Limits
<1>1. PICK u : u = MaxUsedSlotPlusOne(p)
  OBVIOUS
<1>2. u \in Nat /\ p.firstDynamic <= u /\ \A s \in 0..(MaxSlots - 1) : s >= u => p.use[s] = 0
  BY <1>1, UsedTop
<1>3. PICK z : z = Max({1, u})
  OBVIOUS
<1>4. z \in {1, u} /\ z >= 1 /\ z >= u
  BY <1>2, <1>3, MaxOfTwo
<1>5. z \in Nat
  BY <1>2, <1>4
<1>6. top = z + (z % 2)
  BY <1>1, <1>3 DEF CallTop, AlignSlotToType, NumSlots
<1>7. z % 2 \in {0, 1}
  BY <1>5
<1>8. top \in Nat /\ z <= top /\ top <= z + 1
  BY <1>5, <1>6, <1>7
<1>9. FreeFrom(p, top)
  BY <1>2, <1>4, <1>5, <1>8, <1>n DEF FreeFrom
<1>10. p.firstDynamic <= top
  BY <1>2, <1>4, <1>5, <1>8, <1>n
<1>11. ASSUME NEW k \in Nat, u <= k, k > 0  PROVE top <= k + 1
  BY <1>2, <1>4, <1>8, <1>11
<1>. QED BY <1>1, <1>8, <1>9, <1>10, <1>11

\* An operand of 32 bits that is moved out of its register goes to the first free slot.
LEMMA PreserveTop ==
  ASSUME NEW p, NEW bs, NEW B, NEW T, Sound(p, bs, B, T, {}), NEW r \in Registers,
         p.reg[r] # 0 => NumSlots(p.stack[p.reg[r]].type) = 1,
         NEW top \in Nat, top = CallTop(p), top < MaxSlots,
         NEW q, q = PreserveRegister(p, r), Ok(q)
  PROVE  CallTop(q) <= top + 2
<1>n. /\ DOMAIN p = Fields /\ Ok(p) /\ p.maxStackSlots \in Nat /\ p.firstDynamic \in Nat /\ MaxSlots \in Nat
      /\ p.use \in [0..(MaxSlots - 1) -> 0..MaxUse] /\ DOMAIN p.use = 0..(MaxSlots - 1)
  BY SoundNumbers, Limits
<1>t. p.firstDynamic <= top /\ FreeFrom(p, top)
  BY CallTopIs
<1>1. CASE p.reg[r] = 0
  <2>1. q = p
    BY <1>1 DEF PreserveRegister
  <2>. QED BY <2>1
<1>2. CASE p.reg[r] # 0
  <2>. DEFINE i == p.reg[r]
  <2>. DEFINE t == p.stack[i].type
  <2>1. PICK v : v = [p EXCEPT !.reg[r] = 0]
    OBVIOUS
  <2>2. /\ v.use = p.use /\ v.err = p.err /\ v.firstDynamic = p.firstDynamic /\ v.maxStackSlots = p.maxStackSlots
        /\ DOMAIN v = Fields
    BY <1>n, <2>1 DEF Fields
  <2>3. PICK a : a = AllocateSlots(v, t)
    OBVIOUS
  <2>4. q = Then(a, LAMBDA x : Emit([x EXCEPT !.stack[i].slot = x.got], Move(x.got, r, x.stack[i].type)))
    BY <1>n, <1>2, <2>1, <2>3 DEF PreserveRegister
  <2>5. Ok(a)
    <3>1. CASE ~Ok(a)
      BY <2>4, <3>1 DEF Then
    <3>. QED BY <3>1
  <2>6. Allocated(v, t, p.firstDynamic, MaxSlots, a)
    <3>1. a = AllocateWithin(v, t, p.firstDynamic, MaxSlots)
      BY <2>2, <2>3 DEF AllocateSlots
    <3>2. Ok(v) /\ v.maxStackSlots \in Nat
      BY <1>n, <2>2 DEF Ok
    <3>. QED BY <1>n, <2>2, <2>5, <3>1, <3>2, AllocateFacts
  <2>7. NumSlots(t) = 1
    BY <1>2
  <2>8. /\ a.got \in Nat /\ p.firstDynamic <= a.got
        /\ \A s \in FreeSlots(v, t, p.firstDynamic, MaxSlots) : a.got <= s
        /\ a.use = [x \in DOMAIN p.use |-> IF x \in Slots(a.got, t) THEN 1 ELSE p.use[x]]
        /\ a.firstDynamic = p.firstDynamic
    BY <2>2, <2>6 DEF Allocated, SameOperands, Frame
  <2>9. top \in FreeSlots(v, t, p.firstDynamic, MaxSlots)
    <3>1. PICK from : from = AlignSlotToType(p.firstDynamic, t)
      OBVIOUS
    <3>2. from = p.firstDynamic
      BY <1>n, <2>7, <3>1 DEF AlignSlotToType
    <3>3. Slots(top, t) = {top}
      BY <2>7 DEF Slots
    <3>4. p.use[top] = 0
      BY <1>n, <1>t DEF FreeFrom
    <3>5. \A x \in Slots(top, t) : v.use[x] = 0
      BY <2>2, <3>3, <3>4
    <3>6. top \in from..(MaxSlots - NumSlots(t)) /\ (top - from) % NumSlots(t) = 0
      BY <1>n, <1>t, <2>7, <3>2
    <3>. QED BY <3>1, <3>5, <3>6 DEF FreeSlots
  <2>10. a.got <= top
    BY <2>8, <2>9
  <2>11. q.use = a.use /\ q.firstDynamic = p.firstDynamic
    <3>1. PICK b : b = [a EXCEPT !.stack[i].slot = a.got]
      OBVIOUS
    <3>2. PICK e : q = Emit(b, e)
      BY <2>4, <2>5, <3>1 DEF Then
    <3>3. b.use = a.use /\ b.firstDynamic = a.firstDynamic
      BY <3>1
    <3>. QED BY <2>8, <3>2, <3>3 DEF Emit
  <2>12. Sound(q, bs, B, T, {})
    BY PreserveSound
  <2>13. PICK u : u = MaxUsedSlotPlusOne(q)
    OBVIOUS
  <2>14. u <= top + 1
    <3>2. LastUsed(q, MaxSlots, u)
      BY <2>12, <2>13, UsedTop
    <3>3. u = q.firstDynamic \/ \E s \in 0..(MaxSlots - 1) : q.use[s] > 0 /\ u = s + 1
      BY <3>2 DEF LastUsed
    <3>4. CASE u = q.firstDynamic
      BY <1>n, <1>t, <2>11, <3>4
    <3>5. CASE \E s \in 0..(MaxSlots - 1) : q.use[s] > 0 /\ u = s + 1
      <4>1. PICK s \in 0..(MaxSlots - 1) : q.use[s] > 0 /\ u = s + 1
        BY <3>5
      <4>2. s <= top
        <5>1. CASE s = a.got
          BY <2>10, <5>1
        <5>2. CASE s # a.got
          <6>1. s \notin Slots(a.got, t)
            BY <2>7, <2>8, <5>2 DEF Slots
          <6>2. q.use[s] = p.use[s]
            BY <1>n, <2>8, <2>11, <6>1
          <6>3. p.use[s] > 0
            BY <4>1, <6>2
          <6>. QED BY <1>n, <1>t, <6>3 DEF FreeFrom
        <5>. QED BY <5>1, <5>2
      <4>. QED BY <1>n, <4>1, <4>2
    <3>. QED BY <3>3, <3>4, <3>5
  <2>15. PICK c : c = CallTop(q)
    OBVIOUS
  <2>16. \A k \in Nat : u <= k /\ k > 0 => c <= k + 1
    BY <2>12, <2>13, <2>15, CallTopIs
  <2>17. top + 1 \in Nat /\ top + 1 > 0
    OBVIOUS
  <2>18. c <= (top + 1) + 1
    BY <2>14, <2>16, <2>17
  <2>19. c \in Nat
    BY <2>12, <2>15, CallTopIs
  <2>20. c <= top + 2
    BY <2>18, <2>19
  <2>. QED BY <2>15, <2>20
<1>. QED BY <1>1, <1>2

\* The last operation is the call: what it writes is in the frame, and what is
\* passed to it is above.
CalleeLast(q, w, top) ==
  \E c, e : /\ q.code = Append(c, e) /\ CodeFits(c, q.maxStackSlots, ArgSlots(w, top))
            /\ e.op = "op" /\ e.frame = top /\ PlacesOf(e) \subseteq 0..(q.maxStackSlots - 1)
            /\ ArgSlots(w, top) \subseteq {s \in {e.args[j].slot : j \in DOMAIN e.args} : top <= s}

LEMMA CallingErrs ==
  ASSUME NEW x, NEW w, w.args \in Seq(Types), w.rets \in Seq(Types), NEW top, NEW index, ~Ok(PopN(x, Len(index)))
  PROVE  ~Ok(Calling(x, w, index, top))
<1>1. PICK v : v = PopN(x, Len(index))
  OBVIOUS
<1>2. PICK k \in Nat : k = Len(w.args) /\ DOMAIN w.args = 1..k
  OBVIOUS
<1>3. PICK n \in Nat : n = Len(w.rets) /\ DOMAIN w.rets = 1..n
  OBVIOUS
<1>4. PICK s : s = [i \in 1..k |-> i]
  OBVIOUS
<1>5. PICK y : y = PassedArgs(w, top, v, s)
  OBVIOUS
<1>6. PICK r : r = RetPlaces(w, top)
  OBVIOUS
<1>7. PICK z : z = TakenResults(y, r)
  OBVIOUS
<1>8. PICK e : Calling(x, w, index, top) = Emit(z, e)
  BY <1>1, <1>2, <1>4, <1>5, <1>6, <1>7 DEF Calling
<1>9. ~Ok(y)
  <2>1. DOMAIN s = 1..k
    BY <1>4
  <2>2. PICK g : Steps(g, "pass", <<w, top>>, v, s, k) /\ y = g[k]
    BY <1>5, <2>1, PassSteps
  <2>3. Steps(g, "pass", <<w, top>>, v, [i \in 1..k |-> i], k)
    BY <1>4, <2>2
  <2>4. g[0] = v /\ 0 \in 0..k
    BY <2>2 DEF Steps
  <2>. QED BY <1>1, <2>2, <2>3, <2>4, PassErrs
<1>10. ~Ok(z)
  <2>1. DOMAIN r = 1..n
    BY <1>3, <1>6 DEF RetPlaces
  <2>2. PICK g : Steps(g, "take", <<>>, y, r, n) /\ z = g[n]
    BY <1>7, <2>1, TakeSteps
  <2>3. g[0] = y /\ 0 \in 0..n
    BY <2>2 DEF Steps
  <2>. QED BY <1>9, <2>2, <2>3, TakeErrs
<1>. QED BY <1>8, <1>10, ErrorsStay

LEMMA CallingSound ==
  ASSUME NEW x, NEW bs, NEW B, Sound(x, bs, B, {}, {}), Block(x).base = Base(bs),
         NEW w, w.args \in Seq(Types), w.rets \in Seq(Types), NEW top \in Nat, x.firstDynamic <= top, FreeFrom(x, top),
         top + 2 * Len(w.rets) <= MaxSlots, NEW index, Len(index) \in Nat, (\E S : index \in Seq(S)),
         NEW q, q = Calling(x, w, index, top), Ok(q)
  PROVE  Sound(q, bs, B, ArgSlots(w, top), {}) /\ Frame(x, q) /\ CalleeLast(q, w, top)
<1>n. x.maxStackSlots \in Nat
  BY SoundNumbers
<1>1. PICK v : v = PopN(x, Len(index))
  OBVIOUS
<1>2. PICK k \in Nat : k = Len(w.args) /\ DOMAIN w.args = 1..k /\ k <= k
  OBVIOUS
<1>3. PICK n \in Nat : n = Len(w.rets) /\ DOMAIN w.rets = 1..n /\ top + 2 * n <= MaxSlots
  OBVIOUS
<1>4. PICK s : s = [i \in 1..k |-> i]
  OBVIOUS
<1>5. PICK y : y = PassedArgs(w, top, v, s)
  OBVIOUS
<1>6. PICK z : z = TakenResults(y, RetPlaces(w, top))
  OBVIOUS
<1>7. PICK e : e = Op(ArgPlaces(w, top) \o index, RetPlaces(w, top), top)
  OBVIOUS
<1>8. q = Emit(z, e)
  BY <1>1, <1>2, <1>4, <1>5, <1>6, <1>7 DEF Calling
<1>9. Ok(z)
  BY <1>8, ErrorsStay
<1>10. Ok(y)
  <2>1. PICK r : r = RetPlaces(w, top)
    OBVIOUS
  <2>2. DOMAIN r = 1..n
    BY <1>3, <2>1 DEF RetPlaces
  <2>3. PICK g : Steps(g, "take", <<>>, y, r, n) /\ z = g[n]
    BY <1>6, <2>1, <2>2, TakeSteps
  <2>4. g[0] = y /\ 0 \in 0..n
    BY <2>3 DEF Steps
  <2>. QED BY <1>9, <2>3, <2>4, TakeErrs
<1>11. Ok(v)
  <2>1. DOMAIN s = 1..k
    BY <1>4
  <2>2. PICK g : Steps(g, "pass", <<w, top>>, v, s, k) /\ y = g[k]
    BY <1>5, <2>1, PassSteps
  <2>3. Steps(g, "pass", <<w, top>>, v, [i \in 1..k |-> i], k)
    BY <1>4, <2>2
  <2>4. g[0] = v /\ 0 \in 0..k
    BY <2>2 DEF Steps
  <2>. QED BY <1>10, <2>2, <2>3, <2>4, PassErrs
<1>12. Sound(v, bs, B, {}, {}) /\ Dropped(x, bs, Len(index), v)
  BY <1>1, <1>11, PopNSound
<1>13. Frame(x, v) /\ v.maxStackSlots \in Nat /\ v.firstDynamic = x.firstDynamic /\ Block(v).base = Base(bs)
  BY <1>12 DEF Dropped, Frame, Block
<1>14. Sound(v, bs, B, ArgSlots(w, top), {})
  <2>1. CodeFits(v.code, v.maxStackSlots, {})
    BY <1>12, SoundCode
  <2>2. CodeFits(v.code, v.maxStackSlots, ArgSlots(w, top))
    <3>1. v.maxStackSlots <= v.maxStackSlots /\ {} \subseteq ArgSlots(w, top)
      BY <1>13
    <3>. QED BY <1>13, <2>1, <3>1, CodeFitsMore
  <2>3. Adds(v, v)
    BY <1>13, FrameReflexive DEF Adds, SameOperands
  <2>. QED BY <1>12, <2>2, <2>3, AddsSound
<1>15. FreeFrom(v, top)
  <2>1. v.use \in [0..(MaxSlots - 1) -> 0..MaxUse]
    BY <1>12, SoundNumbers
  <2>2. \A i \in 0..(MaxSlots - 1) : v.use[i] \in Nat /\ v.use[i] <= x.use[i]
    BY <1>12, <2>1, Limits DEF Dropped
  <2>. QED BY <2>2 DEF FreeFrom
<1>16. Sound(y, bs, B, ArgSlots(w, top), {}) /\ Frame(v, y) /\ FreeFrom(y, top)
  <2>1. y = PassedArgs(w, top, v, [i \in 1..k |-> i])
    BY <1>4, <1>5
  <2>2. k <= Len(w.args)
    BY <1>2
  <2>. QED BY <1>10, <1>13, <1>14, <1>15, <2>1, <2>2, PassSound
<1>17. /\ Sound(z, bs, B, ArgSlots(w, top), {}) /\ Frame(y, z)
       /\ (\A i \in 1..n : top + 2 * (i - 1) < z.maxStackSlots)
  <2>1. \A i \in 1..n : w.rets[i] \in Types
    BY <1>3
  <2>2. y.firstDynamic <= top
    BY <1>13, <1>16 DEF Frame
  <2>. QED BY <1>3, <1>6, <1>9, <1>16, <2>1, <2>2, ResultsTaken
<1>18. z.maxStackSlots \in Nat
  BY <1>17 DEF Frame
<1>19. e.op = "op" /\ e.frame = top /\ e.rets = RetPlaces(w, top) /\ e.args = ArgPlaces(w, top) \o index
  BY <1>7 DEF Op
<1>a. ArgSlots(w, top) \subseteq {i \in {e.args[j].slot : j \in DOMAIN e.args} : top <= i}
  <2>1. PICK r : r = ArgPlaces(w, top)
    OBVIOUS
  <2>2. /\ DOMAIN r = 1..k
        /\ \A i \in 1..k : r[i].slot = top + IoSlots * (n + i - 1) /\ top <= top + IoSlots * (n + i - 1)
    BY <1>2, <1>3, <2>1 DEF ArgPlaces, IoSlots
  <2>3. PICK S : index \in Seq(S)
    OBVIOUS
  <2>4. PICK U : r \in Seq(U) /\ index \in Seq(U) /\ Len(r) = k
    <3>1. PICK U : U = S \cup {r[i] : i \in 1..k}
      OBVIOUS
    <3>2. r = [i \in 1..k |-> r[i]]
      BY <1>2, <2>1 DEF ArgPlaces
    <3>3. r \in [1..k -> U]
      BY <3>1, <3>2
    <3>4. r \in Seq(U) /\ Len(r) = k
      BY <3>3, SeqDef, LenProperties
    <3>5. index \in Seq(U)
      BY <2>3, <3>1
    <3>. QED BY <3>4, <3>5
  <2>5. \A i \in 1..k : i \in DOMAIN e.args /\ e.args[i] = r[i]
    BY <1>19, <2>1, <2>4, ConcatProperties
  <2>6. ArgSlots(w, top) = {top + IoSlots * (n + i - 1) : i \in 1..k}
    BY <1>2, <1>3 DEF ArgSlots
  <2>. QED BY <2>2, <2>5, <2>6
<1>20. PlacesOf(e) \subseteq 0..(z.maxStackSlots - 1)
  <2>1. PICK r : r = RetPlaces(w, top)
    OBVIOUS
  <2>2. DOMAIN r = 1..n /\ \A i \in 1..n : r[i].slot = top + 2 * (i - 1)
    BY <1>3, <2>1 DEF RetPlaces, IoSlots
  <2>3. PlacesOf(e) = {r[i].slot : i \in DOMAIN r}
    BY <1>19, <2>1 DEF PlacesOf
  <2>4. \A i \in 1..n : top + 2 * (i - 1) \in 0..(z.maxStackSlots - 1)
    BY <1>17, <1>18
  <2>. QED BY <2>2, <2>3, <2>4
<1>21. Sound(q, bs, B, ArgSlots(w, top), {}) /\ Adds(z, q) /\ q.maxStackSlots = z.maxStackSlots
  <2>1. Fits(e, z.maxStackSlots, ArgSlots(w, top))
    BY <1>20 DEF Fits
  <2>. QED BY <1>8, <1>17, <2>1, EmitSound
<1>22. q.code = Append(z.code, e)
  BY <1>8, <1>18, EmitAdds
<1>23. CodeFits(z.code, z.maxStackSlots, ArgSlots(w, top))
  BY <1>17, SoundCode
<1>24. CalleeLast(q, w, top)
  <2>1. CodeFits(z.code, q.maxStackSlots, ArgSlots(w, top)) /\ PlacesOf(e) \subseteq 0..(q.maxStackSlots - 1)
    BY <1>20, <1>21, <1>23
  <2>2. e.op = "op" /\ e.frame = top
    BY <1>19
  <2>. QED BY <1>22, <1>a, <2>1, <2>2 DEF CalleeLast
<1>25. Frame(x, q)
  <2>1. Frame(x, y)
    BY <1>n, <1>13, <1>16, FrameTransitive
  <2>2. Frame(x, z)
    BY <1>n, <1>17, <2>1, FrameTransitive
  <2>3. Frame(z, q)
    BY <1>21 DEF Adds, SameOperands
  <2>. QED BY <1>n, <2>2, <2>3, FrameTransitive
<1>. QED BY <1>21, <1>24, <1>25

Passed(code, i, places) ==
  \E k \in (i + 1)..Len(code) :
    /\ code[k].op = "op"
    /\ places \subseteq {s \in {code[k].args[j].slot : j \in DOMAIN code[k].args} : code[k].frame <= s}

LEMMA OverwritesIs ==
  ASSUME NEW p, NEW code
  PROVE  Overwrites(p, code)
         = (\E i \in DOMAIN code : /\ ~Passed(code, i, PlacesOf(code[i]))
                                  /\ \E s \in PlacesOf(code[i]) \ Registers : s >= p.maxStackSlots)
BY DEF Overwrites, PlacesOf, Passed

LEMMA CalleeCovered ==
  ASSUME NEW q, NEW w, NEW top \in Nat, q.maxStackSlots \in Nat, CalleeLast(q, w, top)
  PROVE  ~Overwrites(q, q.code)
<1>1. PICK c, e : /\ q.code = Append(c, e) /\ CodeFits(c, q.maxStackSlots, ArgSlots(w, top))
                  /\ e.op = "op" /\ e.frame = top /\ PlacesOf(e) \subseteq 0..(q.maxStackSlots - 1)
                  /\ ArgSlots(w, top) \subseteq {s \in {e.args[j].slot : j \in DOMAIN e.args} : top <= s}
  BY DEF CalleeLast
<1>2. PICK S : c \in Seq(S)
  BY <1>1 DEF CodeFits
<1>3. PICK n \in Nat : n = Len(c)
  BY <1>2
<1>4. PICK code : code = q.code
  OBVIOUS
<1>5. DOMAIN code = 1..(n + 1) /\ Len(code) = n + 1 /\ code[n + 1] = e /\ \A i \in 1..n : code[i] = c[i]
  <2>1. c \in Seq(S \cup {e})
    BY <1>2
  <2>2. /\ Append(c, e) \in Seq(S \cup {e}) /\ Len(Append(c, e)) = Len(c) + 1
        /\ (\A i \in 1..Len(c) : Append(c, e)[i] = c[i]) /\ Append(c, e)[Len(c) + 1] = e
    BY <2>1, AppendProperties
  <2>. QED BY <1>1, <1>3, <1>4, <2>2
<1>. SUFFICES ASSUME NEW i \in DOMAIN code, NEW s \in PlacesOf(code[i]) \ Registers, s >= q.maxStackSlots,
                     ~Passed(code, i, PlacesOf(code[i]))
              PROVE  FALSE
  BY <1>4, OverwritesIs
<1>6. CASE i = n + 1
  <2>1. s \in 0..(q.maxStackSlots - 1)
    BY <1>1, <1>5, <1>6
  <2>. QED BY <2>1
<1>7. CASE i \in 1..n
  <2>1. Fits(code[i], q.maxStackSlots, ArgSlots(w, top))
    BY <1>1, <1>3, <1>5, <1>7 DEF CodeFits
  <2>2. CASE PlacesOf(code[i]) \subseteq Registers \cup 0..(q.maxStackSlots - 1)
    <3>1. s \in 0..(q.maxStackSlots - 1)
      BY <2>2
    <3>. QED BY <3>1
  <2>3. CASE PlacesOf(code[i]) \subseteq ArgSlots(w, top)
    <3>2. n + 1 \in (i + 1)..Len(code)
      BY <1>5, <1>7
    <3>3. /\ code[n + 1].op = "op"
          /\ PlacesOf(code[i])
             \subseteq {t \in {code[n + 1].args[j].slot : j \in DOMAIN code[n + 1].args} : code[n + 1].frame <= t}
      BY <1>1, <1>5, <2>3
    <3>. QED BY <3>2, <3>3 DEF Passed
  <2>. QED BY <2>1, <2>2, <2>3 DEF Fits
<1>. QED BY <1>5, <1>6, <1>7

\* The operand on top, if it is in a register, is 32 bits wide: it is an index.
LEMMA IndexIs ==
  ASSUME NEW p, NEW bs, NEW B, NEW T, NEW E, Sound(p, bs, B, T, E), TopInRegister(p, 0),
         Len(p.stack) > Base(bs) => FromTop(p, 0).type \in {"i32", "none"}
  PROVE  p.reg[R0] # 0 => NumSlots(p.stack[p.reg[R0]].type) = 1
<1>n. Len(p.stack) \in Nat /\ Base(bs) \in Nat /\ Base(bs) <= Len(p.stack)
  BY SoundNumbers
<1>1. CASE Len(p.stack) = Base(bs)
  BY <1>1, RegistersAtBase DEF Registers
<1>2. CASE Len(p.stack) > Base(bs)
  <2>1. 0 \in Nat /\ 0 < Len(p.stack) - Base(bs)
    BY <1>n, <1>2
  <2>2. /\ FromTop(p, 0) = p.stack[Len(p.stack)]
        /\ FromTop(p, 0).slot = RegisterOf(FromTop(p, 0).type) /\ p.reg[FromTop(p, 0).slot] = Len(p.stack)
    <3>1. /\ FromTop(p, 0) = p.stack[Len(p.stack) - 0]
          /\ FromTop(p, 0).slot = RegisterOf(FromTop(p, 0).type) /\ p.reg[FromTop(p, 0).slot] = Len(p.stack) - 0
      BY <2>1, OperandIs
    <3>2. Len(p.stack) - 0 = Len(p.stack)
      BY <1>n
    <3>. QED BY <3>1, <3>2
  <2>3. RegisterOf(FromTop(p, 0).type) = R0 /\ NumSlots(FromTop(p, 0).type) = 1
    BY <1>2 DEF RegisterOf, IsFpType, NumSlots
  <2>. QED BY <2>2, <2>3
<1>. QED BY <1>n, <1>1, <1>2

LEMMA CallSound ==
  ASSUME NEW p, Good(p, {}), NEW w, w.args \in Seq(Types), w.rets \in Seq(Types),
         w.indirect /\ Len(p.stack) > Base(p.blocks) => FromTop(p, 0).type \in {"i32", "none"},
         CallTop(p) + 2 + 2 * (Len(w.args) + Len(w.rets)) <= MaxSlots,
         NEW q, q = CompileCall(p, w), Ok(q)
  PROVE  Contained(q)
<1>1. /\ Sound(p, p.blocks, Under(p.blocks), {}, {}) /\ Nest(p.blocks) /\ Block(p).base = Base(p.blocks)
      /\ p.maxStackSlots \in Nat
  BY GoodFacts
<1>2. PICK r \in Nat : r = Len(w.rets) /\ r <= r
  OBVIOUS
<1>3. PICK low \in Nat : low = CallTop(p)
  BY <1>1, CallTopIs
<1>4. low + 2 + 2 * r <= MaxSlots /\ low < MaxSlots /\ MaxSlots \in Nat
  <2>1. PICK a \in Nat : a = Len(w.args)
    OBVIOUS
  <2>2. low + 2 + 2 * (a + r) <= MaxSlots /\ MaxSlots \in Nat
    BY <1>2, <1>3, <2>1, Limits
  <2>. QED BY <2>2
<1>5. PICK x : x = IF w.indirect /\ TopInRegister(p, 0) THEN PreserveRegisterOfType(p, "i32") ELSE p
  OBVIOUS
<1>6. PICK index : index = CallIndex(x, w)
  OBVIOUS
<1>7. q = Calling(x, w, index, CallTop(x))
  BY <1>5, <1>6, CallIs
<1>8. Len(index) \in Nat /\ \E S : index \in Seq(S)
  <2>1. index = <<>> \/ index = <<FromTop(x, 0)>>
    BY <1>6 DEF CallIndex
  <2>2. PICK e : e = FromTop(x, 0)
    OBVIOUS
  <2>3. <<>> \in Seq({e}) /\ <<e>> \in Seq({e})
    OBVIOUS
  <2>4. index \in Seq({e}) /\ (Len(<<>>) \in Nat) /\ (Len(<<e>>) \in Nat)
    BY <2>1, <2>2, <2>3
  <2>. QED BY <2>4
<1>9. Ok(x)
  <2>. SUFFICES ASSUME ~Ok(x)  PROVE FALSE
    OBVIOUS
  <2>1. ~Ok(PopN(x, Len(index)))
    BY <1>8, PopNStays
  <2>. QED BY <1>7, <2>1, CallingErrs
<1>10. Sound(x, p.blocks, Under(p.blocks), {}, {}) /\ Frame(p, x) /\ CallTop(x) <= low + 2
  <2>1. CASE w.indirect /\ TopInRegister(p, 0)
    <3>1. x = PreserveRegisterOfType(p, "i32")
      BY <1>5, <2>1
    <3>2. x = PreserveRegister(p, R0) /\ R0 \in Registers
      BY <3>1, IntegerRegister DEF PreserveRegisterOfType
    <3>3. p.reg[R0] # 0 => NumSlots(p.stack[p.reg[R0]].type) = 1
      BY <1>1, <2>1, IndexIs
    <3>4. CallTop(x) <= low + 2
      BY <1>1, <1>3, <1>4, <1>9, <3>2, <3>3, PreserveTop
    <3>. QED BY <1>1, <1>9, <3>2, <3>4, PreserveSound, KeepsIsFrame
  <2>2. CASE ~(w.indirect /\ TopInRegister(p, 0))
    <3>1. x = p
      BY <1>5, <2>2
    <3>. QED BY <1>1, <1>3, <3>1, FrameReflexive
  <2>. QED BY <2>1, <2>2
<1>11. PICK top \in Nat : top = CallTop(x) /\ x.firstDynamic <= top /\ FreeFrom(x, top)
  BY <1>10, CallTopIs
<1>12. top + 2 * Len(w.rets) <= MaxSlots
  <2>1. top <= low + 2
    BY <1>10, <1>11
  <2>2. top + 2 * r <= MaxSlots
    BY <1>4, <2>1
  <2>. QED BY <1>2, <2>2
<1>13. Block(x).base = Base(p.blocks) /\ q = Calling(x, w, index, top)
  BY <1>1, <1>7, <1>10, <1>11 DEF Block, Frame
<1>14. Sound(q, p.blocks, Under(p.blocks), ArgSlots(w, top), {}) /\ Frame(x, q) /\ CalleeLast(q, w, top)
  BY <1>8, <1>10, <1>11, <1>12, <1>13, CallingSound
<1>15. Good(q, ArgSlots(w, top))
  <2>1. Frame(p, q)
    BY <1>1, <1>10, <1>14, FrameTransitive
  <2>. QED BY <1>1, <1>14, <2>1, FrameGood
<1>16. q.maxStackSlots \in Nat /\ Codes(q, ArgSlots(w, top))
  BY <1>15, GoodFacts
<1>17. Covered(q)
  <2>. SUFFICES ASSUME NEW y \in Ways(q)  PROVE ~Overwrites(q, y.code)
    BY DEF Covered
  <2>1. CASE q.ways = {}
    <3>1. y.code = q.code
      BY <2>1 DEF Ways, Way
    <3>. QED BY <1>14, <1>16, <3>1, CalleeCovered
  <2>2. CASE q.ways # {}
    <3>1. CodeFits(y.code, q.maxStackSlots, {})
      BY <1>16, <2>2 DEF Ways, Codes
    <3>. QED BY <1>16, <3>1, FitsCovered
  <2>. QED BY <2>1, <2>2
<1>. QED BY <1>15, <1>17 DEF Contained

LEMMA CallStep ==
  ASSUME Sane, Call
  PROVE  Sane'
<1>1. PICK w \in fn.calls :
         /\ Takes(w.args \o (IF w.indirect THEN <<"i32">> ELSE <<>>))
         /\ CallTop(o) + 2 + IoSlots * (Len(w.args) + Len(w.rets)) <= MaxSlots
         /\ Compiles(CompileCall(o, w))
  BY DEF Call
<1>2. PICK p : p = CompileCall(o, w)
  OBVIOUS
<1>3. fn' = fn /\ Becomes(p, o, o')
  BY <1>1, <1>2 DEF Compiles, CompilesWith, Becomes
<1>4. PICK types : types = w.args \o (IF w.indirect THEN <<"i32">> ELSE <<>>)
  OBVIOUS
<1>5. Good(o, {}) /\ Typed(o, o.blocks, types)
  BY <1>1, <1>4, TakesGood
<1>6. w.args \in Seq(Types) /\ w.rets \in Seq(Types)
  BY FunctionIs DEF Sane
<1>7. w.indirect /\ Len(o.stack) > Base(o.blocks) => FromTop(o, 0).type \in {"i32", "none"}
  <2>. SUFFICES ASSUME w.indirect, Len(o.stack) > Base(o.blocks)  PROVE FromTop(o, 0).type \in {"i32", "none"}
    OBVIOUS
  <2>1. types = Append(w.args, "i32")
    BY <1>4, <1>6
  <2>2. PICK k \in Nat : k = Len(w.args)
    BY <1>6
  <2>3. Len(types) = k + 1 /\ types[k + 1] = "i32"
    <3>1. w.args \in Seq(Types) /\ "i32" \in Types
      BY <1>6 DEF Types
    <3>. QED BY <2>1, <2>2, <3>1, AppendProperties
  <2>4. k + 1 \in 1..Len(types) /\ Len(types) - (k + 1) = 0
    BY <2>2, <2>3
  <2>5. 0 < Len(o.stack) - Base(o.blocks)
    <3>1. Len(o.stack) \in Nat /\ Base(o.blocks) \in Nat
      BY <1>5, GoodFacts, SoundNumbers
    <3>. QED BY <3>1
  <2>. QED BY <1>5, <2>3, <2>4, <2>5 DEF Typed
<1>8. Ok(p) => Contained(p)
  <2>1. CallTop(o) + 2 + 2 * (Len(w.args) + Len(w.rets)) <= MaxSlots
    BY <1>1 DEF IoSlots
  <2>. QED BY <1>2, <1>5, <1>6, <1>7, <2>1, CallSound
<1>9. o'.over = FALSE /\ (Ok(o') => Good(o', {}))
  BY <1>3, <1>5, <1>8, BecomesGood
<1>. QED BY <1>3, <1>9 DEF Sane

-----------------------------------------------------------------------------
(* Before the first instruction.                                           *)

LEMMA NewIs ==
  ASSUME NEW f, NEW p, p = PushedLocals(PushedArgs(Blank(f), f.args), f.locals)
  PROVE  NewCompilation(f) = Finished(p, MaxUsedSlotPlusOne(p), MaxUsedSlotPlusOne(p) + f.reserved, Len(p.stack))
BY DEF NewCompilation, Finished, PushedLocals, PushedArgs, PushArgument, Blank, FirstScope, FoldLeft, MapThenFoldSet

LEMMA ArgumentSteps ==
  ASSUME NEW p, NEW n \in Nat, NEW q, DOMAIN q = 1..n
  PROVE  \E g : Steps(g, "arg", <<>>, p, q, n) /\ PushedArgs(p, q) = g[n]
<1>. DEFINE Body(h) == [s \in SUBSET (DOMAIN q) |-> IF s = {} THEN p ELSE PushArgument(h[s \ {Max(s)}], q[Max(s)])]
<1>1. \A x, k : Do("arg", <<>>, x, k) = PushArgument(x, k)
  BY DEF Do
<1>2. \A h : Body(h) = DoBody(h, "arg", <<>>, p, q)
  BY <1>1 DEF DoBody
<1>. HIDE DEF Body
<1>3. \E h : h = Body(h)
  BY <1>2, FoldExists DEF DoneBy
<1>4. PICK f : f = Body(f) /\ PushedArgs(p, q) = f[DOMAIN q]
  BY <1>3 DEF Body, PushedArgs, FoldLeft, MapThenFoldSet
<1>. QED BY <1>2, <1>4, FoldSteps DEF DoneBy

LEMMA LocalSteps ==
  ASSUME NEW p, NEW n \in Nat, NEW q, DOMAIN q = 1..n
  PROVE  \E g : Steps(g, "local", <<>>, p, q, n) /\ PushedLocals(p, q) = g[n]
<1>. DEFINE Body(h) == [s \in SUBSET (DOMAIN q) |-> IF s = {} THEN p ELSE PushAllocatedSlot(h[s \ {Max(s)}], q[Max(s)])]
<1>1. \A x, k : Do("local", <<>>, x, k) = PushAllocatedSlot(x, k)
  BY DEF Do
<1>2. \A h : Body(h) = DoBody(h, "local", <<>>, p, q)
  BY <1>1 DEF DoBody
<1>. HIDE DEF Body
<1>3. \E h : h = Body(h)
  BY <1>2, FoldExists DEF DoneBy
<1>4. PICK f : f = Body(f) /\ PushedLocals(p, q) = f[DOMAIN q]
  BY <1>3 DEF Body, PushedLocals, FoldLeft, MapThenFoldSet
<1>. QED BY <1>2, <1>4, FoldSteps DEF DoneBy

\* The arguments and locals so far.
Taken(p, i) ==
  /\ p.stack[i].slot \in Nat /\ p.stack[i].type \in Types
  /\ p.stack[i].slot + NumSlots(p.stack[i].type) <= MaxSlots
  /\ \A x \in Slots(p.stack[i].slot, p.stack[i].type) : p.use[x] > 0
Arguments(f, p) ==
  /\ p.reg = [r \in Registers |-> 0] /\ p.code = <<>> /\ p.ways = {}
  /\ p.maxStackSlots \in Nat /\ p.firstDynamic \in Nat /\ IoSlots * Len(f.rets) <= p.firstDynamic
  /\ p.use \in [0..(MaxSlots - 1) -> 0..MaxUse] /\ p.stack \in Seq(Entries)
  /\ \A i \in 1..Len(p.stack) : Taken(p, i)
Starts(f, p) ==
  /\ DOMAIN p = Fields /\ p.blocks = <<FirstScope(f)>> /\ p.over = FALSE
  /\ Ok(p) => Arguments(f, p)

LEMMA StartsBlank ==
  ASSUME NEW f, f.rets \in Seq(Types)
  PROVE  Starts(f, Blank(f))
<1>1. PICK n \in Nat : n = Len(f.rets)
  OBVIOUS
<1>2. PICK p : p = Blank(f)
  OBVIOUS
<1>3. /\ DOMAIN p = Fields /\ p.blocks = <<FirstScope(f)>> /\ p.over = FALSE
      /\ p.reg = [r \in Registers |-> 0] /\ p.code = <<>> /\ p.ways = {} /\ p.stack = <<>>
      /\ p.firstDynamic = IoSlots * Len(f.rets) /\ p.maxStackSlots = IoSlots * Len(f.rets)
      /\ p.use = [s \in 0..(MaxSlots - 1) |-> IF s < IoSlots * Len(f.rets) THEN 1 ELSE 0]
  BY <1>2 DEF Blank, Fields
<1>4. p.firstDynamic = 2 * n /\ p.maxStackSlots = 2 * n
  BY <1>1, <1>3 DEF IoSlots
<1>5. p.use \in [0..(MaxSlots - 1) -> 0..MaxUse]
  <2>1. 0 \in 0..MaxUse /\ 1 \in 0..MaxUse
    BY Limits
  <2>. QED BY <1>3, <2>1
<1>6. p.stack \in Seq(Entries) /\ Len(p.stack) = 0
  BY <1>3
<1>7. Arguments(f, p)
  <2>1. IoSlots * Len(f.rets) <= p.firstDynamic
    BY <1>3, <1>4
  <2>2. p.maxStackSlots \in Nat /\ p.firstDynamic \in Nat
    BY <1>4
  <2>3. \A i \in 1..Len(p.stack) : Taken(p, i)
    BY <1>6
  <2>. QED BY <1>3, <1>5, <1>6, <2>1, <2>2, <2>3 DEF Arguments
<1>. QED BY <1>2, <1>3, <1>7 DEF Starts

LEMMA StartsPush ==
  ASSUME NEW f, NEW p, Starts(f, p), NEW t \in Types, NEW q, q = PushAllocatedSlot(p, t)
  PROVE  Starts(f, q)
<1>0. DOMAIN p = Fields /\ p.blocks = <<FirstScope(f)>> /\ p.over = FALSE
  BY DEF Starts
<1>1. PICK a : a = AllocateSlots(p, t)
  OBVIOUS
<1>2. q = IF Ok(a) THEN Push(a, t, a.got) ELSE a
  BY <1>1 DEF PushAllocatedSlot, Then
<1>3. DOMAIN a = Fields /\ a.blocks = p.blocks /\ a.over = p.over
  <2>1. PICK free : free = FreeSlots(p, t, p.firstDynamic, MaxSlots)
    OBVIOUS
  <2>2. a = IF free = {} THEN Throw([p EXCEPT !.got = Unused], "function stack overflow")
            ELSE [MarkSlotsAllocated(p, Min(free), t) EXCEPT !.got = Min(free)]
    BY <1>1, <2>1 DEF AllocateSlots, AllocateWithin
  <2>3. PICK x : x = [p EXCEPT !.got = Unused]
    OBVIOUS
  <2>4. DOMAIN x = Fields /\ x.blocks = p.blocks /\ x.over = p.over
    BY <1>0, <2>3 DEF Fields
  <2>5. /\ DOMAIN Throw(x, "function stack overflow") = Fields
        /\ Throw(x, "function stack overflow").blocks = p.blocks /\ Throw(x, "function stack overflow").over = p.over
    BY <2>4 DEF Throw, Fields
  <2>6. PICK y : y = MarkSlotsAllocated(p, Min(free), t)
    OBVIOUS
  <2>7. DOMAIN y = Fields /\ y.blocks = p.blocks /\ y.over = p.over
    BY <1>0, <2>6 DEF MarkSlotsAllocated, TouchSlot, Fields
  <2>8. CASE free = {}
    BY <2>2, <2>3, <2>5, <2>8
  <2>9. CASE free # {}
    <3>1. a = [y EXCEPT !.got = Min(free)]
      BY <2>2, <2>6, <2>9
    <3>. QED BY <2>7, <3>1 DEF Fields
  <2>. QED BY <2>8, <2>9
<1>4. DOMAIN q = Fields /\ q.blocks = p.blocks /\ q.over = p.over
  <2>1. PICK x : x = Push(a, t, a.got)
    OBVIOUS
  <2>2. PICK y : y = [a EXCEPT !.stack = Append(@, [slot |-> a.got, type |-> t])]
    OBVIOUS
  <2>3. DOMAIN y = Fields /\ y.blocks = a.blocks /\ y.over = a.over
    BY <1>3, <2>2 DEF Fields
  <2>4. x = a \/ x = [a EXCEPT !.err = "function stack overflow"] \/ x = [y EXCEPT !.reg[a.got] = Len(y.stack)] \/ x = y
    BY <2>1, <2>2 DEF Push, Throw
  <2>5. CASE x = a
    BY <1>2, <1>3, <2>1, <2>5
  <2>6. CASE x = [a EXCEPT !.err = "function stack overflow"]
    <3>1. DOMAIN x = Fields /\ x.blocks = a.blocks /\ x.over = a.over
      BY <1>3, <2>6 DEF Fields
    <3>. QED BY <1>2, <1>3, <2>1, <3>1
  <2>7. CASE x = [y EXCEPT !.reg[a.got] = Len(y.stack)]
    <3>1. DOMAIN x = Fields /\ x.blocks = y.blocks /\ x.over = y.over
      BY <2>3, <2>7 DEF Fields
    <3>. QED BY <1>2, <1>3, <2>1, <2>3, <3>1
  <2>8. CASE x = y
    BY <1>2, <1>3, <2>1, <2>3, <2>8
  <2>. QED BY <2>4, <2>5, <2>6, <2>7, <2>8
<1>5. ASSUME Ok(q)  PROVE Arguments(f, q)
  <2>1. Ok(a) /\ q = Push(a, t, a.got)
    BY <1>2, <1>5
  <2>2. Ok(p)
    BY <1>1, <2>1, AllocateErrs DEF AllocateSlots
  <2>3. /\ p.reg = [r \in Registers |-> 0] /\ p.code = <<>> /\ p.ways = {}
        /\ p.maxStackSlots \in Nat /\ p.firstDynamic \in Nat /\ IoSlots * Len(f.rets) <= p.firstDynamic
        /\ p.use \in [0..(MaxSlots - 1) -> 0..MaxUse] /\ p.stack \in Seq(Entries)
        /\ \A i \in 1..Len(p.stack) : Taken(p, i)
    BY <2>2 DEF Starts, Arguments
  <2>4. Allocated(p, t, p.firstDynamic, MaxSlots, a)
    <3>1. a = AllocateWithin(p, t, p.firstDynamic, MaxSlots)
      BY <1>1 DEF AllocateSlots
    <3>2. MaxSlots \in Nat
      BY Limits
    <3>. QED BY <1>0, <2>1, <2>2, <2>3, <3>1, <3>2, AllocateFacts
  <2>5. /\ a.got \in Nat /\ a.got + NumSlots(t) <= MaxSlots
        /\ a.use = [x \in DOMAIN p.use |-> IF x \in Slots(a.got, t) THEN 1 ELSE p.use[x]]
        /\ a.code = p.code /\ a.stack = p.stack /\ a.reg = p.reg /\ Frame(p, a) /\ a.maxStackSlots \in Nat
    BY <2>4 DEF Allocated, SameOperands
  <2>n. NumSlots(t) \in {1, 2}
    BY DEF NumSlots
  <2>6. PICK g \in 0..(MaxSlots - 1) : g = a.got /\ g \in Locations /\ ~IsRegister(g) /\ g + NumSlots(t) <= MaxSlots
    BY <2>5, <2>n, Limits
  <2>7. Pushed(a, q, g, t)
    <3>1. t \in EntryTypes
      BY DEF EntryTypes
    <3>. QED BY <1>3, <1>5, <2>1, <2>3, <2>5, <2>6, <3>1, PushIs
  <2>8. /\ Frame(a, q) /\ q.code = a.code /\ q.use = a.use /\ q.reg = a.reg
        /\ q.stack = Append(p.stack, [slot |-> g, type |-> t])
    BY <2>5, <2>6, <2>7 DEF Pushed
  <2>9. q.maxStackSlots \in Nat /\ q.firstDynamic = p.firstDynamic /\ q.ways = p.ways
    BY <2>5, <2>8 DEF Frame
  <2>10. Slots(g, t) \subseteq 0..(MaxSlots - 1)
    BY <2>6, <2>n, Limits DEF Slots
  <2>11. q.use = [x \in 0..(MaxSlots - 1) |-> IF x \in Slots(g, t) THEN 1 ELSE p.use[x]]
    BY <2>3, <2>5, <2>6, <2>8
  <2>12. q.use \in [0..(MaxSlots - 1) -> 0..MaxUse]
    <3>1. 1 \in 0..MaxUse
      BY Limits
    <3>. QED BY <2>3, <2>11, <3>1
  <2>13. PICK n \in Nat : n = Len(p.stack)
    BY <2>3
  <2>14. PICK e \in Entries : e = [slot |-> g, type |-> t] /\ e.slot = g /\ e.type = t
    <3>1. t \in EntryTypes
      BY DEF EntryTypes
    <3>2. [slot |-> g, type |-> t] \in Entries
      BY <2>6, <3>1 DEF Entries
    <3>. QED BY <3>2
  <2>15. /\ q.stack \in Seq(Entries) /\ Len(q.stack) = n + 1 /\ q.stack[n + 1] = e
         /\ \A i \in 1..n : q.stack[i] = p.stack[i]
    <3>1. q.stack = Append(p.stack, e)
      BY <2>8, <2>14
    <3>. QED BY <2>3, <2>13, <3>1, AppendProperties
  <2>16. ASSUME NEW i \in 1..(n + 1)  PROVE Taken(q, i)
    <3>1. CASE i = n + 1
      <4>1. \A x \in Slots(g, t) : q.use[x] > 0
        BY <2>10, <2>11
      <4>. QED BY <2>6, <2>14, <2>15, <3>1, <4>1 DEF Taken
    <3>2. CASE i \in 1..n
      <4>1. Taken(p, i) /\ q.stack[i] = p.stack[i]
        BY <2>3, <2>13, <2>15, <3>2
      <4>2. /\ \A x \in Slots(p.stack[i].slot, p.stack[i].type) : p.use[x] > 0
            /\ Slots(p.stack[i].slot, p.stack[i].type) \subseteq 0..(MaxSlots - 1)
        BY <4>1, Limits DEF Taken, Slots, NumSlots
      <4>3. \A x \in Slots(p.stack[i].slot, p.stack[i].type) : q.use[x] > 0
        BY <2>11, <4>2
      <4>. QED BY <4>1, <4>3 DEF Taken
    <3>. QED BY <2>13, <3>1, <3>2
  <2>. QED BY <2>3, <2>5, <2>8, <2>9, <2>12, <2>15, <2>16 DEF Arguments
<1>. QED BY <1>0, <1>4, <1>5 DEF Starts

LEMMA StartsArgument ==
  ASSUME NEW f, NEW p, Starts(f, p), NEW t \in Types, f.rets \in Seq(Types), NEW q, q = PushArgument(p, t)
  PROVE  Starts(f, q)
<1>1. PICK x : x = PushAllocatedSlot(p, t)
  OBVIOUS
<1>2. Starts(f, x)
  BY <1>1, StartsPush
<1>3. q = [x EXCEPT !.firstDynamic = x.firstDynamic + IoSlots]
  BY <1>1 DEF PushArgument
<1>4. DOMAIN x = Fields
  BY <1>2 DEF Starts
<1>5. /\ DOMAIN q = Fields /\ q.blocks = x.blocks /\ q.over = x.over /\ q.err = x.err /\ q.reg = x.reg
      /\ q.code = x.code /\ q.ways = x.ways /\ q.maxStackSlots = x.maxStackSlots /\ q.use = x.use /\ q.stack = x.stack
      /\ q.firstDynamic = x.firstDynamic + IoSlots
  BY <1>3, <1>4 DEF Fields
<1>6. ASSUME Ok(q)  PROVE Arguments(f, q)
  <2>1. Ok(x)
    BY <1>5, <1>6 DEF Ok
  <2>2. Arguments(f, x)
    BY <1>2, <2>1 DEF Starts
  <2>3. PICK n \in Nat : n = Len(f.rets)
    OBVIOUS
  <2>4. PICK k \in Nat : k = x.firstDynamic /\ 2 * n <= k
    BY <2>2, <2>3 DEF Arguments, IoSlots
  <2>5. q.firstDynamic \in Nat /\ 2 * n <= q.firstDynamic
    BY <1>5, <2>4 DEF IoSlots
  <2>6. IoSlots * Len(f.rets) <= q.firstDynamic
    BY <2>3, <2>5 DEF IoSlots
  <2>. QED BY <1>5, <2>2, <2>5, <2>6 DEF Arguments, Taken
<1>. QED BY <1>2, <1>5, <1>6 DEF Starts

LEMMA StartsArguments ==
  ASSUME NEW f \in Functions, NEW p, Starts(f, p)
  PROVE  Starts(f, PushedArgs(p, f.args))
<1>1. PICK n \in Nat : DOMAIN f.args = 1..n
  BY FunctionIs
<1>2. PICK g : Steps(g, "arg", <<>>, p, f.args, n) /\ PushedArgs(p, f.args) = g[n]
  BY <1>1, ArgumentSteps
<1>. DEFINE S == {k \in 0..n : Starts(f, g[k])}
<1>3. 0 \in S
  BY <1>2 DEF Steps
<1>4. ASSUME NEW k \in 1..n, k - 1 \in S  PROVE k \in S
  <2>1. g[k] = PushArgument(g[k - 1], f.args[k])
    BY <1>2 DEF Steps, Do
  <2>2. f.args[k] \in Types /\ f.rets \in Seq(Types)
    <3>1. f.args \in Seq(Types) /\ k \in DOMAIN f.args
      BY <1>1, FunctionIs
    <3>. QED BY <3>1, FunctionIs
  <2>3. Starts(f, g[k - 1])
    BY <1>4
  <2>. QED BY <2>1, <2>2, <2>3, StartsArgument
<1>. HIDE DEF S
<1>5. \A k \in 0..n : k \in S
  BY <1>3, <1>4, Upwards
<1>. QED BY <1>2, <1>5 DEF S

LEMMA StartsLocals ==
  ASSUME NEW f \in Functions, NEW p, Starts(f, p)
  PROVE  Starts(f, PushedLocals(p, f.locals))
<1>1. PICK n \in Nat : DOMAIN f.locals = 1..n
  BY FunctionIs
<1>2. PICK g : Steps(g, "local", <<>>, p, f.locals, n) /\ PushedLocals(p, f.locals) = g[n]
  BY <1>1, LocalSteps
<1>. DEFINE S == {k \in 0..n : Starts(f, g[k])}
<1>3. 0 \in S
  BY <1>2 DEF Steps
<1>4. ASSUME NEW k \in 1..n, k - 1 \in S  PROVE k \in S
  <2>1. g[k] = PushAllocatedSlot(g[k - 1], f.locals[k])
    BY <1>2 DEF Steps, Do
  <2>2. f.locals[k] \in Types
    <3>1. f.locals \in Seq(Types) /\ k \in DOMAIN f.locals
      BY <1>1, FunctionIs
    <3>. QED BY <3>1, FunctionIs
  <2>3. Starts(f, g[k - 1])
    BY <1>4
  <2>. QED BY <2>1, <2>2, <2>3, StartsPush
<1>. HIDE DEF S
<1>5. \A k \in 0..n : k \in S
  BY <1>3, <1>4, Upwards
<1>. QED BY <1>2, <1>5 DEF S

\* The compilation before its first instruction, above its arguments and locals.
LEMMA FinishedGood ==
  ASSUME NEW f \in Functions, NEW p, Arguments(f, p), DOMAIN p = Fields, p.blocks = <<FirstScope(f)>>,
         p.over = FALSE, Ok(p), NEW first, first = MaxUsedSlotPlusOne(p),
         NEW q, q = Finished(p, first, first + f.reserved, Len(p.stack)), q.firstDynamic < MaxSlots
  PROVE  Good(q, {})
<1>1. /\ p.reg = [r \in Registers |-> 0] /\ p.code = <<>> /\ p.ways = {}
      /\ p.firstDynamic \in Nat /\ IoSlots * Len(f.rets) <= p.firstDynamic
      /\ p.use \in [0..(MaxSlots - 1) -> 0..MaxUse] /\ p.stack \in Seq(Entries)
      /\ \A i \in 1..Len(p.stack) : Taken(p, i)
  BY DEF Arguments
<1>2. /\ first \in Nat /\ p.firstDynamic <= first
      /\ \A s \in 0..(MaxSlots - 1) : s >= first => p.use[s] = 0
  <2>1. PICK n \in Nat : n = MaxSlots
    BY Limits
  <2>2. p.firstDynamic \in Nat /\ p.use \in [0..(n - 1) -> 0..MaxUse]
    BY <1>1, <2>1
  <2>3. PICK x : x = MaxUsedSlotPlusOne(p)
    OBVIOUS
  <2>4. x \in Nat /\ p.firstDynamic <= x /\ \A s \in 0..(n - 1) : s >= x => p.use[s] = 0
    BY <2>2, <2>3, UsedBelow
  <2>. QED BY <2>1, <2>3, <2>4
<1>3. PICK n \in Nat : n = Len(p.stack)
  BY <1>1
<1>4. PICK dyn \in Nat : dyn = first + f.reserved /\ first <= dyn
  BY <1>2, FunctionIs
<1>5. PICK b : b = [FirstScope(f) EXCEPT !.base = n, !.exit = n, !.restart = n]
  OBVIOUS
<1>6. b = [base |-> n, exit |-> n, restart |-> n, poly |-> FALSE, opcode |-> "function",
           params |-> <<>>, results |-> f.rets, head |-> <<>>]
  BY <1>5 DEF FirstScope
<1>7. b \in Scopes /\ b.base = n /\ b.opcode = "function" /\ b.results = f.rets
  <2>1. f.rets \in Seq(Types)
    BY FunctionIs
  <2>2. <<>> \in Seq(Entries) /\ "function" \in Opcodes /\ <<>> \in {<<>>}
    BY DEF Opcodes
  <2>. QED BY <1>6, <2>1, <2>2 DEF Scopes
<1>8. q = [p EXCEPT !.firstConst = first, !.maxConst = first, !.firstDynamic = dyn, !.maxStackSlots = dyn,
                    !.numLocals = n, !.got = Unused, !.blocks = [@ EXCEPT ![1] = b]]
  <2>1. q = [p EXCEPT !.firstConst = first, !.maxConst = first, !.firstDynamic = dyn, !.maxStackSlots = dyn,
                    !.numLocals = n, !.got = Unused, !.blocks[1] = [@ EXCEPT !.base = n, !.exit = n, !.restart = n]]
    BY <1>3, <1>4 DEF Finished
  <2>2. p.blocks[1] = FirstScope(f)
    OBVIOUS
  <2>. QED BY <1>5, <2>1, <2>2
<1>9. /\ DOMAIN q = Fields /\ q.firstConst = first /\ q.maxConst = first /\ q.firstDynamic = dyn /\ q.maxStackSlots = dyn
      /\ q.numLocals = n /\ q.stack = p.stack /\ q.use = p.use /\ q.reg = p.reg /\ q.over = FALSE
      /\ q.err = p.err /\ q.code = <<>> /\ q.ways = {} /\ q.blocks = [p.blocks EXCEPT ![1] = b]
  BY <1>1, <1>8 DEF Fields
<1>10. PICK bs : bs = q.blocks /\ bs = <<b>>
  BY <1>9
<1>11. Len(bs) = 1 /\ bs[1] = b /\ bs \in Seq(Scopes) /\ Base(bs) = n
  <2>1. Len(bs) = 1 /\ bs[1] = b
    BY <1>10
  <2>2. bs \in Seq(Scopes)
    <3>1. bs = [i \in 1..1 |-> b]
      BY <1>10
    <3>. QED BY <1>7, <3>1
  <2>3. Base(bs) = bs[1].base
    BY <2>1 DEF Base, Last
  <2>. QED BY <1>7, <2>1, <2>2, <2>3
<1>12. Under(bs) = {} /\ Nest(bs)
  BY <1>11 DEF Under, Nest
<1>13. Live(q, bs, {}) = {}
  BY <1>3, <1>9, <1>11 DEF Live
<1>14. Shape(q)
  <2>1. q.err = ""
    BY <1>9 DEF Ok
  <2>2. q.reg \in [Registers -> Nat]
    BY <1>1, <1>9
  <2>3. /\ q.numLocals \in Nat /\ q.firstConst \in Nat /\ q.maxConst \in Nat
        /\ q.firstDynamic \in Nat /\ q.maxStackSlots \in Nat
        /\ q.firstConst <= q.maxConst /\ q.maxConst <= q.firstDynamic /\ q.firstDynamic <= q.maxStackSlots
    BY <1>2, <1>4, <1>9
  <2>. QED BY <1>1, <1>9, <2>1, <2>2, <2>3 DEF Shape
<1>15. Framed(q, bs)
  <2>1. IoSlots * Len(f.rets) <= first
    <3>1. PICK k \in Nat : k = Len(f.rets)
      BY FunctionIs
    <3>2. 2 * k <= p.firstDynamic
      BY <1>1, <3>1 DEF IoSlots
    <3>3. 2 * k <= first
      BY <1>1, <1>2, <3>2
    <3>. QED BY <3>1, <3>3 DEF IoSlots
  <2>2. \A d \in 1..Len(bs) : q.numLocals <= bs[d].base /\ bs[d].base <= Base(bs)
    BY <1>7, <1>9, <1>11
  <2>3. Base(bs) \in Nat /\ Base(bs) <= Len(q.stack)
    BY <1>3, <1>9, <1>11
  <2>. QED BY <1>7, <1>9, <1>11, <2>1, <2>2, <2>3 DEF Framed
<1>16. ASSUME NEW i \in 1..Len(q.stack)  PROVE EntryFits(q, bs, i, q.stack[i])
  <2>1. Taken(p, i) /\ q.stack[i] = p.stack[i]
    BY <1>1, <1>9
  <2>2. PICK e : e = p.stack[i]
    OBVIOUS
  <2>3. /\ e.slot \in Nat /\ e.type \in Types /\ e.slot + NumSlots(e.type) <= MaxSlots
        /\ \A x \in Slots(e.slot, e.type) : p.use[x] > 0
    BY <2>1, <2>2 DEF Taken
  <2>4. e.slot + NumSlots(e.type) <= first /\ e.slot < first
    <3>1. PICK n2 \in {1, 2} : n2 = NumSlots(e.type)
      BY DEF NumSlots
    <3>2. e.slot + n2 - 1 \in Slots(e.slot, e.type) /\ e.slot + n2 - 1 \in 0..(MaxSlots - 1)
      BY <2>3, <3>1, Limits DEF Slots
    <3>3. e.slot + n2 - 1 < first
      BY <1>1, <1>2, <2>3, <3>2
    <3>. QED BY <1>2, <2>3, <3>1, <3>3
  <2>5. ~IsRegister(e.slot) /\ e.type # "none"
    BY <1>2, <2>3, <2>4, Limits DEF IsRegister, Types, NumSlots
  <2>6. PICK size \in {1, 2} : size = NumSlots(e.type)
    BY DEF NumSlots
  <2>7. q.firstConst = first /\ q.firstDynamic = dyn /\ q.maxStackSlots = dyn /\ q.stack[i] = e
    BY <1>9, <2>1, <2>2
  <2>8. e.slot + size <= dyn /\ e.slot < dyn /\ e.slot < first
    BY <1>2, <1>4, <2>3, <2>4, <2>6
  <2>. QED BY <2>5, <2>6, <2>7, <2>8 DEF EntryFits
<1>17. Counts(q, {}, {})
  <2>1. ASSUME NEW s \in Dynamic(q)  PROVE q.use[s] = 0 /\ RefsTo(q, {}, s) = {}
    <3>1. s \in 0..(MaxSlots - 1) /\ s >= first
      BY <1>2, <1>4, <1>9 DEF Dynamic
    <3>. QED BY <1>2, <1>9, <3>1 DEF RefsTo
  <2>2. Cardinality({}) = 0
    BY FS_EmptySet
  <2>3. ASSUME NEW s \in Dynamic(q)
        PROVE  q.use[s] = Cardinality(RefsTo(q, {}, s)) + (IF s \in {} THEN 1 ELSE 0)
    <3>1. q.use[s] = 0 /\ Cardinality(RefsTo(q, {}, s)) = 0
      BY <2>1, <2>2
    <3>. QED BY <3>1
  <2>. QED BY <2>3 DEF Counts
<1>18. Owners(q, {}) /\ InBlock(q, bs)
  BY <1>1, <1>9 DEF Owners, InBlock
<1>19. Records(q, {})
  BY <1>3, <1>9 DEF Records
<1>20. Codes(q, {})
  BY <1>9, NoCodeFits DEF Codes
<1>21. Sound(q, bs, {}, {}, {})
  BY <1>13, <1>14, <1>15, <1>16, <1>17, <1>18, <1>19, <1>20 DEF Sound, Placed
<1>. QED BY <1>10, <1>12, <1>21 DEF Good

LEMMA InitInv ==
  ASSUME Init
  PROVE  IInv
<1>1. fn \in Functions /\ o = NewCompilation(fn)
  BY DEF Init
<1>2. PICK p : p = PushedLocals(PushedArgs(Blank(fn), fn.args), fn.locals)
  OBVIOUS
<1>3. PICK first : first = MaxUsedSlotPlusOne(p)
  OBVIOUS
<1>4. o = Finished(p, first, first + fn.reserved, Len(p.stack))
  BY <1>1, <1>2, <1>3, NewIs
<1>5. Starts(fn, p)
  <2>1. Starts(fn, Blank(fn))
    BY <1>1, FunctionIs, StartsBlank
  <2>2. Starts(fn, PushedArgs(Blank(fn), fn.args))
    BY <1>1, <2>1, StartsArguments
  <2>. QED BY <1>1, <1>2, <2>2, StartsLocals
<1>6. DOMAIN p = Fields /\ p.blocks = <<FirstScope(fn)>> /\ p.over = FALSE /\ (Ok(p) => Arguments(fn, p))
  BY <1>5 DEF Starts
<1>7. o.over = FALSE /\ o.err = p.err
  BY <1>4, <1>6 DEF Finished, Fields
<1>8. ASSUME Ok(o)  PROVE Good(o, {})
  <2>1. Ok(p)
    BY <1>7, <1>8 DEF Ok
  <2>2. o.firstDynamic < MaxSlots
    BY <1>1, FunctionIs
  <2>. QED BY <1>1, <1>3, <1>4, <1>6, <2>1, <2>2, FinishedGood
<1>. QED BY <1>1, <1>7, <1>8 DEF IInv, Sane

LEMMA Strays ==
  ASSUME NEW p, NEW faults, CompilesWith(p, faults)
  PROVE  strayed \subseteq strayed'
BY DEF CompilesWith

\* No instruction takes a fault back.
LEMMA Strayed ==
  ASSUME Next
  PROVE  strayed \subseteq strayed'
<1>1. CASE Const
  BY <1>1, Strays DEF Const, Compiles
<1>2. CASE GetLocal
  BY <1>2, Strays DEF GetLocal, Compiles
<1>3. CASE SetLocal
  BY <1>3, Strays DEF SetLocal, Compiles
<1>4. CASE GetGlobal
  BY <1>4, Strays DEF GetGlobal, Compiles
<1>5. CASE SetGlobal
  BY <1>5, Strays DEF SetGlobal, Compiles
<1>6. CASE Drop
  BY <1>6, Strays DEF Drop, Compiles
<1>7. CASE Operator
  BY <1>7, Strays DEF Operator, Compiles
<1>8. CASE Convert
  BY <1>8, Strays DEF Convert, Compiles
<1>9. CASE Select
  BY <1>9, Strays DEF Select, Compiles
<1>10. CASE MemorySize
  BY <1>10, Strays DEF MemorySize, Compiles
<1>11. CASE MemoryGrow
  BY <1>11, Strays DEF MemoryGrow, Compiles
<1>12. CASE MemoryCopyFill
  BY <1>12, Strays DEF MemoryCopyFill, Compiles
<1>13. CASE Call
  BY <1>13, Strays DEF Call, Compiles
<1>14. CASE LoopOrBlock
  BY <1>14, Strays DEF LoopOrBlock, Compiles
<1>15. CASE If
  BY <1>15, Strays DEF If, Compiles
<1>16. CASE Else
  BY <1>16, Strays DEF Else, Compiles
<1>17. CASE End
  BY <1>17, Strays DEF End, Compiles
<1>18. CASE FunctionEnd
  BY <1>18, Strays DEF FunctionEnd, Compiles
<1>19. CASE Branch
  BY <1>19, Strays DEF Branch, Compiles
<1>20. CASE BranchIf
  BY <1>20, Strays DEF BranchIf, Compiles
<1>21. CASE BranchTable
  BY <1>21, Strays DEF BranchTable, Compiles
<1>22. CASE Return
  BY <1>22, Strays DEF Return, Compiles
<1>23. CASE Unreachable
  BY <1>23, Strays DEF Unreachable, Compiles
<1>. QED BY <1>1, <1>2, <1>3, <1>4, <1>5, <1>6, <1>7, <1>8, <1>9, <1>10, <1>11, <1>12, <1>13, <1>14, <1>15, <1>16, <1>17, <1>18, <1>19, <1>20, <1>21, <1>22, <1>23 DEF Next

LEMMA NextInv ==
  ASSUME IInv, [Next]_vars
  PROVE  IInv'
<1>1. CASE UNCHANGED vars
  BY <1>1 DEF IInv, Sane, Miscounted, vars
<1>2. CASE Next /\ Miscounted'
  BY <1>2 DEF IInv
<1>3. CASE Next /\ ~Miscounted'
  <2>1. ~Miscounted
    BY <1>3, Strayed DEF Miscounted
  <2>2. Sane
    BY <2>1 DEF IInv
  <2>3. Sane'
    BY <1>3, <2>2, ConstStep, GetLocalStep, SetLocalStep, GetGlobalStep, SetGlobalStep, DropStep,
       OperatorStep, ConvertStep, SelectStep, MemorySizeStep, MemoryGrowStep, MemoryCopyFillStep, CallStep,
       LoopOrBlockStep, IfStep, ElseStep, EndStep, FunctionEndStep,
       BranchStep, BranchIfStep, BranchTableStep, ReturnStep, UnreachableStep DEF Next
  <2>. QED BY <2>3 DEF IInv
<1>. QED BY <1>1, <1>2, <1>3

\* The operands that live are those of the innermost block and those under it.
LEMMA LiveEntriesAre ==
  ASSUME Good(o, {})
  PROVE  LiveEntries = Live(o, o.blocks, Under(o.blocks))
<1>1. PICK n \in Nat : n = Len(o.blocks) /\ n > 0
  BY GoodFacts DEF Sound, Framed
<1>2. Base(o.blocks) = o.blocks[n].base
  BY <1>1 DEF Base, Last
<1>3. PICK h : h = [d \in 1..n |-> (o.blocks[d].base + 1)..(IF d = n THEN Len(o.stack) ELSE o.blocks[d + 1].exit)]
  OBVIOUS
<1>4. LiveEntries = UNION {h[d] : d \in 1..n}
  BY <1>1, <1>3 DEF LiveEntries, Depth
<1>5. h[n] = (Base(o.blocks) + 1)..Len(o.stack)
  BY <1>1, <1>2, <1>3
<1>6. \A d \in 1..(n - 1) : h[d] = (o.blocks[d].base + 1)..o.blocks[d + 1].exit
  BY <1>3
<1>7. Under(o.blocks) = UNION {h[d] : d \in 1..(n - 1)}
  BY <1>1, <1>6 DEF Under
<1>8. 1..n = 1..(n - 1) \cup {n}
  BY <1>1
<1>. QED BY <1>4, <1>5, <1>7, <1>8 DEF Live

\* The counts of the slots are those of the operands, and a register is that of the operand it is recorded for.
LEMMA CountedSlots ==
  ASSUME Sane
  PROVE  SlotsCounted
<1>. SUFFICES ASSUME Ok(o)  PROVE SlotsCounted
  BY DEF SlotsCounted
<1>1. PICK L : L = Live(o, o.blocks, Under(o.blocks)) /\ L = LiveEntries
  BY LiveEntriesAre DEF Sane
<1>0. Sound(o, o.blocks, Under(o.blocks), {}, {})
  BY GoodFacts DEF Sane
<1>2. Counts(o, L, {}) /\ Owners(o, L)
  BY <1>0, <1>1 DEF Sound
<1>3. ASSUME NEW s \in o.firstDynamic..(MaxSlots - 1)
      PROVE  o.use[s] = Cardinality({i \in LiveEntries : s \in Slots(o.stack[i].slot, o.stack[i].type)})
  <2>1. PICK c : c = Cardinality(RefsTo(o, L, s))
    OBVIOUS
  <2>2. o.use[s] = c + 0
    BY <1>2, <2>1 DEF Counts, Dynamic
  <2>3. o.use[s] = c
    <3>1. c \in Nat
      <4>1. RefsTo(o, L, s) \subseteq Live(o, o.blocks, Under(o.blocks))
        BY <1>1 DEF RefsTo
      <4>. QED BY <1>0, <2>1, <4>1, RefsFinite
    <3>. QED BY <2>2, <3>1
  <2>. QED BY <1>1, <2>1, <2>3 DEF RefsTo, RefersTo
<1>4. ASSUME NEW r \in Registers
      PROVE  {i \in LiveEntries : o.stack[i].slot = r} = {o.reg[r]} \ {0}
  <2>1. /\ \A i \in L : o.stack[i].slot = r => i = o.reg[r]
        /\ o.reg[r] # 0 => o.reg[r] \in L /\ o.stack[o.reg[r]].slot = r
    BY <1>2 DEF Owners
  <2>2. 0 \notin L
    <3>1. L \subseteq 1..Len(o.stack)
      BY <1>0, <1>1, RefsFinite
    <3>. QED BY <3>1
  <2>. QED BY <1>1, <2>1, <2>2
<1>. QED BY <1>3, <1>4 DEF SlotsCounted

\* Until slots are miscounted, every slot of an operand is counted once for each
\* operand that lives in it, and a register is that of the one operand it is
\* recorded for: no slot is given out twice or lost, in any function of the shape
\* FunctionsAssumption states, 64-bit locals and block parameters included.
THEOREM SlotsAreCounted == Spec => []SlotsCounted
<1>1. Init => IInv
  BY InitInv
<1>2. IInv /\ [Next]_vars => IInv'
  BY NextInv
<1>3. IInv => SlotsCounted
  BY CountedSlots DEF IInv, SlotsCounted
<1>. QED BY <1>1, <1>2, <1>3, PTL DEF Spec

\* Until slots are miscounted, no operation the compiler emits writes above the
\* frame that the entry of the function checks the stack for, whatever it moves or
\* preserves; the arguments of a call, which nothing has checked, are excepted.
THEOREM FrameIsCovered == Spec => []FrameCovers
<1>1. Init => IInv
  BY InitInv
<1>2. IInv /\ [Next]_vars => IInv'
  BY NextInv
<1>3. IInv => FrameCovers
  BY DEF IInv, Sane, FrameCovers
<1>. QED BY <1>1, <1>2, <1>3, PTL DEF Spec

=============================================================================
