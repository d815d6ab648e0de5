-------------------------------- MODULE M3Pages --------------------------------
(***************************************************************************)
(* The pages wasm3 compiles into.  A compilation takes a page, fills it    *)
(* line by line, goes on in another one when it runs out of room, and      *)
(* gives every page back to its runtime, where a later function continues  *)
(* it; a runtime that ends gives its pages to the environment, which       *)
(* empties them for the next one.                                          *)
(*                                                                         *)
(* One thread works with an environment, and compiles one thing at a time. *)
(* An expression (the initial value of a global, an offset) is compiled    *)
(* and run in a runtime of its own, Temp, that exists only for that.       *)
(* A list of pages is a set: the code takes the first page that is large   *)
(* enough, the model any.                                                  *)
(***************************************************************************)
EXTENDS Integers, Sequences, FiniteSets

CONSTANTS
    Runtimes,       \* the runtimes of the environment
    Temp,           \* the runtime of an expression
    Functions,      \* the functions of the modules loaded
    MaxPages,       \* bound: pages malloc ever gives
    PageSizes,      \* numbers of lines a page may have (whole allocation units)
    OpWords,        \* lines an operation takes with its operands
    MaxTargets,     \* bound: targets of a br_table besides the default
    MaxNesting      \* bound: else blocks within each other

\* d_m3CodePageFreeLinesThreshold, and the lines of an operation that leads
\* from a full page to the next (op_Branch and an address).
Threshold == 6
Bridge == 2

Pages == 1..MaxPages
Owners == Runtimes \cup {Temp}
NoPage == 0
NoOwner == "none"

ASSUME PagesAssumption ==
    /\ Temp \notin Runtimes /\ NoOwner \notin Owners
    /\ Functions \cap {"nothing", "expression"} = {}
    /\ MaxPages \in Nat /\ MaxTargets \in Nat /\ MaxNesting \in Nat
    /\ PageSizes \subseteq Nat
    /\ OpWords \subseteq 1..Threshold

VARIABLES
    pool,       \* released: the list of the environment; open, full: those of each runtime;
                \* numCode, numActive: its counters; line, size: the next free line and the lines of a page
    comp,       \* the compilation under way
    lost,       \* by runtime, active pages nothing refers to any more
    torn,       \* an operation could not be emitted, and its operands were
    code,       \* by function, the pages its code is in
    home,       \* by function, the runtime it was compiled in
    runtimes    \* by runtime, "new", "live" or "freed"

pageVars == <<pool, comp, lost, torn, code, home, runtimes>>

(* Lists of pages *)

Free(s, p) == s.size[p] - s.line[p]
EmitWords(s, p, n) == [s EXCEPT !.line[p] = @ + n]

Failed == NoPage

Taken(s, r, p) == [pool |-> [s EXCEPT !.numActive[r] = @ + 1], page |-> p]

ReusedStillListed(s, r, p) == [s EXCEPT !.numCode[r] = @ + 1]      \* mutant: it stays on the list
Reused(s, r, p) == [s EXCEPT !.released = @ \ {p}, !.numCode[r] = @ + 1]

Made(s, r, p, z) == [s EXCEPT !.size[p] = z, !.line[p] = 0, !.numCode[r] = @ + 1]

\* What AcquireCodePageWithCapacity may do: a page of the runtime, else one of
\* the environment, else a new one; "page" is NoPage when there is no memory.
AcquireWithCapacity(s, r, n) ==
    LET open == {p \in s.open[r] : Free(s, p) >= n}
        released == {p \in s.released : Free(s, p) >= n}
        unmade == {p \in Pages : s.size[p] = 0 /\ \A q \in 1..(p - 1) : s.size[q] > 0}
        fits == {z \in PageSizes : z >= n /\ z > 0 /\ \A y \in PageSizes : y >= n => y >= z}
    IN  IF open # {} THEN {Taken([s EXCEPT !.open[r] = @ \ {p}], r, p) : p \in open}
        ELSE IF released # {} THEN {Taken(Reused(s, r, p), r, p) : p \in released}
        ELSE {[pool |-> s, page |-> Failed]} \cup {Taken(Made(s, r, p, z), r, p) : p \in unmade, z \in fits}

Acquire(s, r) == AcquireWithCapacity(s, r, Threshold)

\* A page with too little room is not offered to the next function.
Release(s, r, ps) ==
    LET isFull == {p \in ps : Free(s, p) < Threshold}
    IN  [s EXCEPT !.full[r] = @ \cup isFull,
                  !.open[r] = @ \cup (ps \ isFull),
                  !.numActive[r] = @ - Cardinality(ps)]

\* Runtime_Release: the environment takes the pages and empties them.
RuntimeRelease(s, r) ==
    LET ps == s.open[r] \cup s.full[r]
    IN  [s EXCEPT !.released = @ \cup ps,
                  !.line = [p \in Pages |-> IF p \in ps THEN 0 ELSE @[p]],
                  !.open[r] = {}, !.full[r] = {}, !.numCode[r] = 0, !.numActive[r] = 0]

(* Compilations *)

\* what: the function compiled, or "expression"; page: where the next line goes;
\* outer: the pages the enclosing if-blocks go on in; back, left: the page with
\* the table a target of br_table belongs to, and the targets it has no address
\* of yet; used: the pages with code of it.
Idle == [what |-> "nothing", in |-> NoOwner, page |-> NoPage, outer |-> <<>>,
         back |-> NoPage, left |-> 0, used |-> {}]
Outer(c) == {c.outer[i] : i \in DOMAIN c.outer}
Held(c) == ({c.page, c.back} \cup Outer(c)) \ {NoPage}

Compiling == comp.what # "nothing"
r0 == comp.in

Start(r, what) ==
    \E a \in Acquire(pool, r) :
        /\ pool' = a.pool
        /\ comp' = IF a.page = Failed THEN Idle
                   ELSE [Idle EXCEPT !.what = what, !.in = r, !.page = a.page, !.used = {a.page}]
        /\ UNCHANGED <<lost, torn, code, home, runtimes>>

\* Where n lines can be written: the page, or, when it has not that many left
\* besides those for a bridge, a new one that a bridge leads to.
EnsureNumLines(s, c, n) ==
    IF Free(s, c.page) >= n + Bridge
    THEN {[pool |-> s, page |-> c.page]}
    ELSE {[pool |-> IF a.page = Failed THEN a.pool
                    ELSE Release(EmitWords(a.pool, c.page, Bridge), c.in, {c.page}),
           page |-> a.page] : a \in AcquireWithCapacity(s, c.in, n + Bridge)}

\* All that is thrown out of a compilation goes through the handlers of the
\* else blocks, which return their pages; that of a table is forgotten.  The
\* runtime of an expression ends with it.
AbandonToEnvironment(s) ==      \* mutant: the pages go where those of an expression go
    LET t == Release(s, comp.in, {comp.page} \cup Outer(comp))
    IN  /\ pool' = RuntimeRelease(t, comp.in)
        /\ lost' = [lost EXCEPT ![comp.in] = @ \cup ({comp.back} \ {NoPage})]
        /\ comp' = Idle
Abandon(s) ==
    LET t == Release(s, comp.in, {comp.page} \cup Outer(comp))
    IN  /\ pool' = IF comp.in = Temp THEN RuntimeRelease(t, Temp) ELSE t
        /\ lost' = [lost EXCEPT ![comp.in] = @ \cup ({comp.back} \ {NoPage})]
        /\ comp' = Idle

At(c, p) == [c EXCEPT !.page = p, !.used = @ \cup {p}]

(* Steps of a compilation *)

EnsureBridgeOnly(s, c) == EnsureNumLines(s, c, 0)      \* mutant: room for a bridge alone
EnsureOp(s, c) == EnsureNumLines(s, c, Threshold)

InFunction == Compiling /\ comp.what \in Functions
Within == UNCHANGED <<torn, code, home, runtimes>>

\* An operation and its operands, n lines in all.
EmitOp(n) ==
    /\ Compiling /\ (comp.left > 0 => comp.back # NoPage)
    /\ \E a \in EnsureOp(pool, comp) :
         IF a.page = Failed
         THEN Abandon(pool)
         ELSE /\ pool' = EmitWords(a.pool, a.page, n)
              /\ comp' = At(comp, a.page)
              /\ UNCHANGED lost
    /\ Within

\* Where the result of EmitOp is not looked at (select, and the moves of
\* PreserveArgsAndLocals), the operands follow even if the operation does not.
\* Bound: that happens once.
EmitOpUnchecked(n) ==
    /\ InFunction /\ comp.left = 0
    /\ \E a \in EnsureOp(pool, comp) :
         LET page == IF a.page = Failed THEN comp.page ELSE a.page
             words == IF a.page = Failed THEN n - 1 ELSE n
         IN  /\ torn => a.page # Failed
             /\ pool' = EmitWords(a.pool, page, words)
             /\ comp' = At(comp, page)
             /\ torn' = (torn \/ a.page = Failed)
    /\ UNCHANGED <<lost, code, home, runtimes>>

\* op_BranchTable with its operands, before the addresses of n targets and of
\* the default.  Room is made for all of it first, and for the operation alone
\* after that.
BeginTable(n) ==
    /\ InFunction /\ comp.left = 0
    /\ \E a \in EnsureNumLines(pool, comp, n + 4) :
         IF a.page = Failed
         THEN Abandon(pool)
         ELSE \E b \in EnsureOp(a.pool, At(comp, a.page)) :
                IF b.page = Failed
                THEN /\ pool' = Release(a.pool, comp.in, {a.page} \cup Outer(comp))
                     /\ comp' = Idle /\ UNCHANGED lost
                ELSE /\ pool' = EmitWords(b.pool, b.page, 3)
                     /\ comp' = [At(At(comp, a.page), b.page) EXCEPT !.left = n + 1]
                     /\ UNCHANGED lost
    /\ Within

\* The code a target leads to is in a page of its own.
BeginTarget ==
    /\ InFunction /\ comp.left > 0 /\ comp.back = NoPage
    /\ \E a \in Acquire(pool, comp.in) :
         IF a.page = Failed
         THEN Abandon(pool)
         ELSE /\ pool' = a.pool
              /\ comp' = [At(comp, a.page) EXCEPT !.back = comp.page]
              /\ UNCHANGED lost
    /\ Within

EndTarget ==
    /\ InFunction /\ comp.back # NoPage
    /\ pool' = EmitWords(Release(pool, comp.in, {comp.page}), comp.back, 1)
    /\ comp' = [comp EXCEPT !.page = comp.back, !.back = NoPage, !.left = @ - 1]
    /\ UNCHANGED lost /\ Within

\* The else part of an if is in a page of its own, too, and leads back.
BeginElse ==
    /\ InFunction /\ comp.left = 0 /\ Len(comp.outer) < MaxNesting
    /\ \E a \in Acquire(pool, comp.in) :
         IF a.page = Failed
         THEN Abandon(pool)
         ELSE /\ pool' = a.pool
              /\ comp' = [At(comp, a.page) EXCEPT !.outer = Append(@, comp.page)]
              /\ UNCHANGED lost
    /\ Within

LastOuter(c) == c.outer[Len(c.outer)]
EndElse ==
    /\ InFunction /\ comp.left = 0 /\ comp.outer # <<>>
    /\ \E a \in EnsureOp(pool, comp) :
         IF a.page = Failed
         THEN Abandon(pool)
         ELSE /\ pool' = Release(EmitWords(a.pool, a.page, 2), comp.in, {a.page})
              /\ comp' = [At(comp, a.page) EXCEPT !.page = LastOuter(comp),
                                                  !.outer = SubSeq(@, 1, Len(@) - 1)]
              /\ UNCHANGED lost
    /\ Within

\* Malformed code, an operation without an implementation, too many slots...
Throw == Compiling /\ Abandon(pool) /\ Within

(* What is compiled *)

\* CompileFunction; the runtime is that of the function's module.
BeginFunction(r, f) == runtimes[r] = "live" /\ ~Compiling /\ code[f] = {} /\ Start(r, f)

EndFunction ==
    /\ InFunction /\ comp.left = 0 /\ comp.outer = <<>>
    /\ pool' = Release(pool, comp.in, {comp.page})
    /\ code' = [code EXCEPT ![comp.what] = comp.used]
    /\ home' = [home EXCEPT ![comp.what] = comp.in]
    /\ comp' = Idle
    /\ UNCHANGED <<lost, torn, runtimes>>

\* CompileRawFunction: four lines that call the host; linking again makes them anew.
LinkRaw(r, f) ==
    /\ runtimes[r] = "live" /\ home[f] \in {r, NoOwner} /\ ~Compiling
    /\ \E a \in AcquireWithCapacity(pool, r, 4) :
         IF a.page = Failed
         THEN UNCHANGED <<pool, code, home>>
         ELSE /\ pool' = Release(EmitWords(a.pool, a.page, 4), r, {a.page})
              /\ code' = [code EXCEPT ![f] = {a.page}]
              /\ home' = [home EXCEPT ![f] = r]
    /\ UNCHANGED <<comp, lost, torn, runtimes>>

\* EvaluateExpression: compiled, run, and its pages are the environment's.
BeginExpression == ~Compiling /\ Start(Temp, "expression")

EndExpression ==
    /\ Compiling /\ comp.what = "expression"
    /\ pool' = RuntimeRelease(Release(pool, Temp, {comp.page}), Temp)
    /\ comp' = Idle
    /\ UNCHANGED lost /\ Within

NewRuntime(r) ==
    /\ runtimes[r] = "new" /\ ~Compiling
    /\ runtimes' = [runtimes EXCEPT ![r] = "live"]
    /\ UNCHANGED <<pool, comp, lost, torn, code, home>>

\* The modules go with the runtime, and with them their functions.
FreeRuntime(r) ==
    /\ runtimes[r] = "live" /\ ~Compiling
    /\ runtimes' = [runtimes EXCEPT ![r] = "freed"]
    /\ pool' = RuntimeRelease(pool, r)
    /\ code' = [f \in Functions |-> IF home[f] = r THEN {} ELSE code[f]]
    /\ home' = [f \in Functions |-> IF home[f] = r THEN NoOwner ELSE home[f]]
    /\ UNCHANGED <<comp, lost, torn>>

PagesInit ==
    /\ pool = [released |-> {}, open |-> [r \in Owners |-> {}], full |-> [r \in Owners |-> {}],
               numCode |-> [r \in Owners |-> 0], numActive |-> [r \in Owners |-> 0],
               line |-> [p \in Pages |-> 0], size |-> [p \in Pages |-> 0]]
    /\ comp = Idle
    /\ lost = [r \in Owners |-> {}]
    /\ torn = FALSE
    /\ code = [f \in Functions |-> {}]
    /\ home = [f \in Functions |-> NoOwner]
    /\ runtimes = [r \in Runtimes |-> "new"]

PagesNext ==
    \/ \E n \in OpWords : EmitOp(n) \/ EmitOpUnchecked(n)
    \/ \E n \in 0..MaxTargets : BeginTable(n)
    \/ BeginTarget \/ EndTarget \/ BeginElse \/ EndElse \/ Throw \/ EndFunction
    \/ \E r \in Runtimes, f \in Functions : BeginFunction(r, f) \/ LinkRaw(r, f)
    \/ BeginExpression \/ EndExpression
    \/ \E r \in Runtimes : NewRuntime(r) \/ FreeRuntime(r)

PagesSpec == PagesInit /\ [][PagesNext]_pageVars

(* Properties *)

\* The pages a runtime has given out and not got back.
Active(r) == lost[r] \cup (IF comp.in = r THEN Held(comp) ELSE {})
PagesOf(r) == pool.open[r] \cup pool.full[r] \cup Active(r)

\* Type invariant.
PagesTypeOK ==
    /\ pool \in [released : SUBSET Pages, open : [Owners -> SUBSET Pages], full : [Owners -> SUBSET Pages],
                 numCode : [Owners -> Nat], numActive : [Owners -> Nat],
                 line : [Pages -> Nat], size : [Pages -> Nat]]
    /\ comp \in [what : Functions \cup {"nothing", "expression"}, in : Owners \cup {NoOwner},
                 page : Pages \cup {NoPage}, outer : Seq(Pages), back : Pages \cup {NoPage},
                 left : Nat, used : SUBSET Pages]
    /\ lost \in [Owners -> SUBSET Pages] /\ torn \in BOOLEAN
    /\ code \in [Functions -> SUBSET Pages]
    /\ home \in [Functions -> Runtimes \cup {NoOwner}]
    /\ runtimes \in [Runtimes -> {"new", "live", "freed"}]

\* A page is in one list, or in the hands of the one compilation that fills it,
\* or lost: no two compilations, and no two places of one, write to the same page.
PagesOwnedOnce ==
    /\ \A r \in Owners :
         /\ pool.open[r] \cap pool.full[r] = {}
         /\ (pool.open[r] \cup pool.full[r]) \cap Active(r) = {}
         /\ PagesOf(r) \cap pool.released = {}
         /\ \A q \in Owners \ {r} : PagesOf(r) \cap PagesOf(q) = {}
    /\ Compiling =>
         /\ lost[comp.in] \cap Held(comp) = {}
         /\ comp.page \notin Outer(comp) \cup {comp.back} /\ comp.back \notin Outer(comp)
         /\ \A i, j \in DOMAIN comp.outer : comp.outer[i] = comp.outer[j] => i = j

\* The counters agree with the lists (the assertion of ReleaseCodePage).
CountsAddUp ==
    \A r \in Owners :
        r = Temp \/ runtimes[r] # "freed" =>
            /\ pool.numActive[r] = Cardinality(Active(r))
            /\ pool.numCode[r] = Cardinality(pool.open[r]) + Cardinality(pool.full[r]) + pool.numActive[r]

\* Code never runs past the end of its page: there is room for the operation
\* that leads on, and for the addresses a table still waits for, unless an
\* operation went missing for want of memory.
RoomForBridge ==
    Compiling /\ ~torn =>
        /\ \A p \in Held(comp) : Free(pool, p) >= Bridge
        /\ Free(pool, IF comp.back = NoPage THEN comp.page ELSE comp.back) >= Bridge + comp.left

\* The code of a function stays where it is as long as its runtime lives: its
\* pages are never given to the environment, which would let another function
\* or runtime write over them.
CodeKept ==
    /\ \A f \in Functions : code[f] # {} =>
         /\ home[f] \in Runtimes /\ runtimes[home[f]] = "live"
         /\ code[f] \subseteq PagesOf(home[f])
    /\ Compiling => comp.used \subseteq PagesOf(comp.in)
=============================================================================
