------------------------------ MODULE WasmStack ------------------------------
(***************************************************************************)
(* What a WebAssembly program does with its operands, as the specification *)
(* of the language has it: a stack of values, the locals, and labels that  *)
(* remember how high the stack was.  This is what the compiled code of     *)
(* M3Compile must look like once its slots and registers are read as a     *)
(* stack.                                                                  *)
(***************************************************************************)
EXTENDS Integers, Sequences

CONSTANTS
    Value,          \* the values of constants
    MaxArity        \* bound: the most operands one instruction takes or leaves

VARIABLES
    ostack,         \* the operands, the top last
    locals,         \* the locals
    labels,         \* the open blocks, the innermost last
    mode,           \* running, leaving for a label, or stopped
    seen            \* the operands the last instruction worked on

vars == <<ostack, locals, labels, mode, seen>>

Run == [k |-> "run", d |-> 0]
Stop == [k |-> "stop", d |-> 0]
\* Leaving for the end of the d-th open block, or for its else.
ToEnd(d) == [k |-> "end", d |-> d]
ToElse(d) == [k |-> "else", d |-> d]

Label == [height : Nat, params : Nat, results : Nat, kind : {"function", "block", "loop", "if", "else"}]

Bottom(s, n) == SubSeq(s, 1, n)
Top(s, n) == SubSeq(s, Len(s) - n + 1, Len(s))
Under(n) == Bottom(ostack, Len(ostack) - n)
Reversed(s) == [i \in DOMAIN s |-> s[Len(s) - i + 1]]

\* n operands stand above the innermost label.
Has(n) == mode = Run /\ Len(ostack) - labels[Len(labels)].height >= n

Init ==
    /\ ostack = <<>>
    /\ labels \in {<<[height |-> 0, params |-> 0, results |-> n, kind |-> "function"]>> : n \in 0..MaxArity}
    /\ mode = Run
    /\ seen = <<>>

\* An operator: it sees the operands on the top and leaves r results, whatever
\* their values.  Both operands of a commutative operator may be seen in either order.
Operate(n, r) ==
    /\ Has(n)
    /\ seen' \in {Top(ostack, n), Reversed(Top(ostack, n))}
    /\ n # 2 => seen' = Top(ostack, n)
    /\ Len(ostack') = Len(ostack) - n + r
    /\ ostack' = Under(n) \o Top(ostack', r)
    /\ UNCHANGED <<locals, labels, mode>>

Constant(v) ==
    /\ Has(0)
    /\ ostack' = Append(ostack, v)
    /\ seen' = <<>>
    /\ UNCHANGED <<locals, labels, mode>>

LocalGet(i) ==
    /\ Has(0)
    /\ ostack' = Append(ostack, locals[i])
    /\ seen' = <<>>
    /\ UNCHANGED <<locals, labels, mode>>

LocalSet(i, keep) ==
    /\ Has(1)
    /\ locals' = [locals EXCEPT ![i] = ostack[Len(ostack)]]
    /\ ostack' = IF keep THEN ostack ELSE Under(1)
    /\ seen' = <<>>
    /\ UNCHANGED <<labels, mode>>

Drop ==
    /\ Has(1)
    /\ ostack' = Under(1)
    /\ seen' = <<>>
    /\ UNCHANGED <<locals, labels, mode>>

\* A block takes its parameters from the stack and keeps them on it.
Open(p, r, kind) ==
    /\ Has(p)
    /\ labels' = Append(labels, [height |-> Len(ostack) - p, params |-> p, results |-> r, kind |-> kind])
    /\ seen' = <<>>
    /\ UNCHANGED <<ostack, locals, mode>>

\* The condition is taken first; a false one leaves for the else.
OpenIf(p, r) ==
    /\ Has(p + 1)
    /\ ostack' = Under(1)
    /\ labels' = Append(labels, [height |-> Len(ostack) - 1 - p, params |-> p, results |-> r, kind |-> "if"])
    /\ seen' = Top(ostack, 1)
    /\ mode' \in {Run, ToElse(Len(labels) + 1)}
    /\ UNCHANGED locals

\* A branch carries the parameters of a loop, the results of anything else,
\* to the stack as it was under the label.
Arity(l) == IF l.kind = "loop" THEN l.params ELSE l.results
Carried(l, s) == Bottom(s, l.height) \o Top(s, Arity(l))

\* Where s is the stack under the operands the branch itself takes.
Leave(d, s) ==
    IF d = 1 \/ labels[d].kind = "loop"
    THEN /\ mode' = Stop            \* the caller, or the head of a loop, where all begins again
         /\ labels' = <<>>
         /\ ostack' = IF d = 1 THEN <<>> ELSE Carried(labels[d], s)
    ELSE /\ mode' = ToEnd(d)
         /\ labels' = Bottom(labels, d)
         /\ ostack' = Carried(labels[d], s)

\* The caller sees the results of the function.
Returned(d, s) == IF d = 1 THEN Top(s, labels[1].results) ELSE <<>>

Branch(d) ==
    /\ Has(Arity(labels[d]))
    /\ Leave(d, ostack)
    /\ seen' = Returned(d, ostack)
    /\ UNCHANGED locals

\* br_if and br_table take one operand before they leave, or go on.
BranchOn(d) ==
    /\ Has(1 + Arity(labels[d]))
    /\ \/ /\ ostack' = Under(1)
          /\ seen' = Top(ostack, 1)
          /\ UNCHANGED <<labels, mode>>
       \/ /\ Leave(d, Under(1))
          /\ seen' = Top(ostack, 1) \o Returned(d, Under(1))
    /\ UNCHANGED locals

Trap ==
    /\ Has(0)
    /\ mode' = Stop
    /\ ostack' = <<>> /\ labels' = <<>> /\ seen' = <<>>
    /\ UNCHANGED locals

\* The then-part is over: the else-part is left out.
SkipElse ==
    /\ Has(0)
    /\ labels[Len(labels)].kind = "if"
    /\ mode' = ToEnd(Len(labels))
    /\ labels' = [labels EXCEPT ![Len(labels)].kind = "else"]
    /\ seen' = <<>>
    /\ UNCHANGED <<ostack, locals>>

\* The else-part begins, for the run that left for it or for nobody.
ReachElse ==
    /\ mode.k \in {"end", "else"} /\ labels[Len(labels)].kind = "if" /\ mode.d = Len(labels)
    /\ IF mode.k = "else" THEN mode' = Run /\ seen' = <<>> ELSE UNCHANGED <<mode, seen>>
    /\ labels' = [labels EXCEPT ![Len(labels)].kind = "else"]
    /\ UNCHANGED <<ostack, locals>>

\* The innermost block ends, for a run that comes through or to its end.
Close ==
    /\ Len(labels) > 1
    /\ \/ Has(0)
       \/ mode.d = Len(labels)
    /\ Bottom(labels, Len(labels) - 1) = labels'
    /\ mode' = Run
    /\ seen' = <<>>
    /\ UNCHANGED <<ostack, locals>>

Next ==
    \/ \E n, r \in 0..MaxArity : Operate(n, r)
    \/ \E v \in Value : Constant(v)
    \/ \E i \in DOMAIN locals, keep \in BOOLEAN : LocalGet(i) \/ LocalSet(i, keep)
    \/ Drop \/ Trap \/ SkipElse \/ ReachElse \/ Close
    \/ \E p, r \in 0..MaxArity, kind \in {"block", "loop"} : Open(p, r, kind)
    \/ \E p, r \in 0..MaxArity : OpenIf(p, r)
    \/ \E d \in DOMAIN labels : Branch(d) \/ BranchOn(d)

Spec == Init /\ [][Next]_vars
=============================================================================
