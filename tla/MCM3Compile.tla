---------------------------- MODULE MCM3Compile ----------------------------
EXTENDS M3Compile

Binary(t, res) == [args |-> <<t, t>>, res |-> res, comm |-> FALSE, rr |-> FALSE, mem |-> FALSE]
Sub == Binary("i32", "i32")
Compare == [Binary("f32", "i32") EXCEPT !.comm = TRUE]
Extend == [Sub EXCEPT !.args = <<"i32">>, !.res = "i64"]
Load == [Sub EXCEPT !.args = <<"i32">>, !.res = "f32", !.mem = TRUE]
Store == [Sub EXCEPT !.args = <<"i32", "f32">>, !.res = "none", !.rr = TRUE, !.mem = TRUE]

One(t) == [val |-> Plain, type |-> t]
Block0 == [params |-> <<>>, results |-> <<>>]
Block1(t) == [params |-> <<>>, results |-> <<t>>]

NoFunction == [rets |-> <<>>, args |-> <<"i32">>, locals |-> <<>>, reserved |-> 2, uses |-> {},
               consts |-> {One("i32")}, ops |-> {}, conversions |-> {}, calls |-> {}, blocks |-> {},
               height |-> 2, depth |-> 1]

\* Every operation on operands, with integers and with floats, and calls.
Straightline == [NoFunction EXCEPT
    !.rets = <<"i32">>, !.height = 3,
    !.uses = {"const", "get", "set", "tee", "global", "drop", "op", "convert", "select", "size", "grow", "copy", "call", "return"},
    !.ops = {Sub, Compare, Load, Store},
    !.conversions = {[arg |-> "f32", res |-> "i32"]},
    !.calls = {[args |-> <<"i32">>, rets |-> <<"i32">>, indirect |-> i] : i \in BOOLEAN}]
\* Blocks in blocks, locals that change under operands that still refer to them.
Nested == [NoFunction EXCEPT
    !.uses = {"get", "set", "size", "block", "loop", "if", "br_if"},
    !.blocks = {Block0, Block1("i32")}, !.height = 2, !.depth = 3]
\* Code that is not reached, and the ways out of blocks.
Unreached == [NoFunction EXCEPT
    !.rets = <<"i32">>, !.locals = <<"i32", "f32">>,
    !.uses = {"const", "get", "size", "drop", "loop", "block", "br", "br_if", "br_table", "return", "unreachable", "op"},
    !.ops = {Sub}, !.blocks = {Block0, Block1("i32")}, !.depth = 2, !.reserved = 0]
\* Float operators in code that is not reached, where valid ones are rejected.
UnreachedFloats == [NoFunction EXCEPT
    !.uses = {"get", "drop", "br", "op", "select", "block"},
    !.ops = {Load, Binary("f32", "f32"), Compare, Store}, !.blocks = {Block0}, !.depth = 2]
\* Floats and 64-bit integers as results of blocks.
Floats == [NoFunction EXCEPT
    !.uses = {"const", "set", "get", "op", "if", "block", "loop", "drop"},
    !.ops = {Extend, Load, Compare}, !.consts = {One("i32"), One("f32")},
    !.blocks = {Block1("f32"), Block1("i64")}, !.depth = 2]
\* Blocks with two results, which get in each other's way, and branches out of them.
Several == [NoFunction EXCEPT
    !.uses = {"const", "size", "drop", "op", "block", "br"},
    !.args = <<>>, !.ops = {Extend}, !.height = 3, !.depth = 2,
    !.blocks = {[params |-> <<>>, results |-> rs] : rs \in {<<"i32", "i32">>, <<"i64", "i32">>}}]
\* A branch that moves an operand out of the float register.
BranchingFloats == [NoFunction EXCEPT
    !.uses = {"get", "op", "const", "block", "br_if", "drop"}, !.height = 3, !.depth = 2,
    !.ops = {Load}, !.consts = {One("i32"), One("f32")}, !.blocks = {Block1("f32")}]
\* A local of 64 bits, and blocks with parameters.
Wide == [NoFunction EXCEPT
    !.locals = <<"i64">>, !.uses = {"get", "set", "tee", "drop", "block", "loop", "if"},
    !.blocks = {Block0, [params |-> <<"i32">>, results |-> <<"i32">>]}, !.height = 3, !.depth = 2]
\* Once the slots are miscounted no property says anything: such compilations are not followed.
Followed == ~Miscounted

MCFunctions == {Straightline, Nested, Unreached, UnreachedFloats, Floats, Several, BranchingFloats, Wide}
=============================================================================
