---------------------------- MODULE M3RuntimeProofs ----------------------------
(***************************************************************************)
(* Proofs about M3Pages and M3Runtime, for any modules, functions,         *)
(* runtimes, page sizes and bounds.                                        *)
(*                                                                         *)
(* The first part is about the pages alone (PagesSpec): the types, that a  *)
(* page has one owner, that the counters agree with the lists, that code   *)
(* never runs past the end of its page, and that the pages of compiled     *)
(* code are never given away.  The operators on lists of pages are         *)
(* described by what they do to the lists and to "act", the pages each     *)
(* runtime has given out.                                                  *)
(*                                                                         *)
(* The second part is about the interpreter at work (Spec): its pages only *)
(* take steps of M3Pages, so all of that holds of it; code that runs has   *)
(* the linear memory where it is now; and a start function runs first, and *)
(* not inside itself.  The invariant says which frame may lie on which.    *)
(***************************************************************************)
EXTENDS M3Runtime, TLAPS, FiniteSetTheorems

Pool == [released : SUBSET Pages, open : [Owners -> SUBSET Pages], full : [Owners -> SUBSET Pages],
         numCode : [Owners -> Nat], numActive : [Owners -> Nat],
         line : [Pages -> Nat], size : [Pages -> Nat]]
Acts == [Owners -> SUBSET Pages]

Listed(s, act, r) == s.open[r] \cup s.full[r] \cup act[r]

\* A page that was made is in one place at most.
Sound(s, act) ==
  \A p \in Pages :
    /\ p \in s.released => s.size[p] > 0
    /\ \A r \in Owners :
         /\ p \in s.open[r] => p \notin s.full[r] /\ p \notin act[r]
         /\ p \in s.full[r] => p \notin act[r]
         /\ p \in Listed(s, act, r) =>
              /\ p \notin s.released /\ s.size[p] > 0
              /\ \A q \in Owners : p \in Listed(s, act, q) => q = r

Counted(s, act, r) ==
  /\ s.numActive[r] = Cardinality(act[r])
  /\ s.numCode[r] = Cardinality(s.open[r]) + Cardinality(s.full[r]) + s.numActive[r]

\* From the lists s to the lists t nothing goes wrong, and the runtimes in rs
\* lose no page.
Goes(s, act, t, new, rs) ==
  /\ t \in Pool /\ new \in Acts
  /\ Sound(t, new)
  /\ \A r \in Owners : Counted(s, act, r) => Counted(t, new, r)
  /\ \A r \in rs : Listed(s, act, r) \subseteq Listed(t, new, r)

-----------------------------------------------------------------------------
LEMMA PagesFinite ==
  /\ IsFiniteSet(Pages)
  /\ \A S \in SUBSET Pages : IsFiniteSet(S) /\ Cardinality(S) \in Nat
  /\ \A S \in SUBSET Pages, p \in Pages : p \notin S => Cardinality(S \cup {p}) = Cardinality(S) + 1
  /\ \A S \in SUBSET Pages, p \in Pages : p \in S => Cardinality(S \ {p}) = Cardinality(S) - 1
<1>1. IsFiniteSet(Pages)
  BY PagesAssumption, FS_Interval DEF Pages
<1>2. \A S \in SUBSET Pages : IsFiniteSet(S) /\ Cardinality(S) \in Nat
  BY <1>1, FS_Subset, FS_CardinalityType
<1>3. ASSUME NEW S \in SUBSET Pages, NEW p \in Pages, p \notin S
      PROVE  Cardinality(S \cup {p}) = Cardinality(S) + 1
  BY <1>2, <1>3, FS_AddElement
<1>4. ASSUME NEW S \in SUBSET Pages, NEW p \in Pages, p \in S
      PROVE  Cardinality(S \ {p}) = Cardinality(S) - 1
  BY <1>2, <1>4, FS_RemoveElement
<1>. QED  BY <1>1, <1>2, <1>3, <1>4

\* Two disjoint sets of pages.
LEMMA DisjointUnion ==
  ASSUME NEW S \in SUBSET Pages, NEW T \in SUBSET Pages, S \cap T = {}
  PROVE  Cardinality(S \cup T) = Cardinality(S) + Cardinality(T)
<1>1. IsFiniteSet(S) /\ IsFiniteSet(T)
  BY PagesFinite
<1>2. Cardinality(S \cup T) = Cardinality(S) + Cardinality(T) - Cardinality(S \cap T)
  BY <1>1, FS_Union
<1>3. Cardinality(S \cap T) = 0
  BY FS_EmptySet
<1>. QED  BY <1>1, <1>2, <1>3, PagesFinite

LEMMA GoesOn ==
  ASSUME NEW s, NEW a, NEW t, NEW b, NEW u, NEW c, NEW rs,
         Goes(s, a, t, b, rs), Goes(t, b, u, c, rs)
  PROVE  Goes(s, a, u, c, rs)
BY DEF Goes

-----------------------------------------------------------------------------
(* The lists.                                                              *)

\* What is written moves the line of one page.
LEMMA Emitting ==
  ASSUME NEW s \in Pool, NEW act \in Acts, Sound(s, act), NEW p \in Pages, NEW n \in Nat
  PROVE  /\ Goes(s, act, EmitWords(s, p, n), act, Owners)
         /\ EmitWords(s, p, n).size = s.size
         /\ EmitWords(s, p, n).line = [s.line EXCEPT ![p] = @ + n]
<1>. DEFINE t == EmitWords(s, p, n)
<1>1. /\ t \in Pool /\ t.size = s.size /\ t.line = [s.line EXCEPT ![p] = @ + n]
      /\ t.open = s.open /\ t.full = s.full /\ t.released = s.released
      /\ t.numCode = s.numCode /\ t.numActive = s.numActive
  BY DEF EmitWords, Pool
<1>2. Sound(t, act)
  BY <1>1 DEF Sound, Listed
<1>. QED  BY <1>1, <1>2 DEF Goes, Counted, Listed

LEMMA Counting ==
  ASSUME NEW w \in Pool, NEW r \in Owners
  PROVE  LET t == [w EXCEPT !.numCode[r] = @ + 1]
         IN  /\ t \in Pool
             /\ t.open = w.open /\ t.full = w.full /\ t.released = w.released
             /\ t.numActive = w.numActive /\ t.numCode = [w.numCode EXCEPT ![r] = @ + 1]
             /\ t.line = w.line /\ t.size = w.size
BY DEF Pool

LEMMA Taking ==
  ASSUME NEW u \in Pool, NEW r \in Owners, NEW p \in Pages
  PROVE  LET t == Taken(u, r, p).pool
         IN  /\ Taken(u, r, p).page = p /\ t \in Pool
             /\ t.open = u.open /\ t.full = u.full /\ t.released = u.released
             /\ t.numActive = [u.numActive EXCEPT ![r] = @ + 1] /\ t.numCode = u.numCode
             /\ t.line = u.line /\ t.size = u.size
BY DEF Taken, Pool

\* A page that is taken was in nobody's hands, and is large enough.
LEMMA Acquiring ==
  ASSUME NEW s \in Pool, NEW act \in Acts, Sound(s, act), NEW r \in Owners, NEW n \in Nat,
         NEW a \in AcquireWithCapacity(s, r, n)
  PROVE  /\ a.page \in Pages \cup {NoPage}
         /\ a.page = NoPage => a.pool = s
         /\ a.page # NoPage =>
              /\ \A q \in Owners : a.page \notin act[q]
              /\ Goes(s, act, a.pool, [act EXCEPT ![r] = @ \cup {a.page}], Owners)
              /\ Free(a.pool, a.page) >= n
              /\ \A p \in Pages \ {a.page} : a.pool.line[p] = s.line[p] /\ a.pool.size[p] = s.size[p]
<1>. DEFINE open == {p \in s.open[r] : Free(s, p) >= n}
            released == {p \in s.released : Free(s, p) >= n}
            unmade == {p \in Pages : s.size[p] = 0 /\ \A q \in 1..(p - 1) : s.size[q] > 0}
            fits == {z \in PageSizes : z >= n /\ z > 0 /\ \A y \in PageSizes : y >= n => y >= z}
            With(p) == [act EXCEPT ![r] = @ \cup {p}]
<1>0. NoPage \notin Pages
  BY DEF NoPage, Pages
<1>1. ASSUME NEW p \in open, a = Taken([s EXCEPT !.open[r] = @ \ {p}], r, p)
      PROVE  /\ a.page = p /\ \A q \in Owners : p \notin act[q]
             /\ Goes(s, act, a.pool, With(p), Owners)
             /\ Free(a.pool, p) >= n
             /\ a.pool.line = s.line /\ a.pool.size = s.size
  <2>. DEFINE t == a.pool
  <2>1. /\ a.page = p /\ p \in Pages /\ p \in s.open[r]
        /\ t \in Pool
        /\ t.open = [s.open EXCEPT ![r] = @ \ {p}] /\ t.full = s.full /\ t.released = s.released
        /\ t.numActive = [s.numActive EXCEPT ![r] = @ + 1] /\ t.numCode = s.numCode
        /\ t.line = s.line /\ t.size = s.size
    <3>. DEFINE u == [s EXCEPT !.open[r] = @ \ {p}]
    <3>1. /\ p \in Pages /\ p \in s.open[r]
          /\ u \in Pool
          /\ u.open = [s.open EXCEPT ![r] = @ \ {p}] /\ u.full = s.full /\ u.released = s.released
          /\ u.numActive = s.numActive /\ u.numCode = s.numCode /\ u.line = s.line /\ u.size = s.size
      BY DEF Pool
    <3>2. a = Taken(u, r, p)
      BY <1>1
    <3>. HIDE DEF u, open, released, unmade, fits
    <3>. QED  BY <3>1, <3>2, Taking
  <2>2. With(p) \in Acts /\ \A q \in Owners : p \notin act[q]
    BY <2>1 DEF Acts, Sound, Listed
  <2>3. Sound(t, With(p))
    BY <2>1, <2>2 DEF Sound, Listed, Acts, Pool
  <2>4. \A q \in Owners : Counted(s, act, q) => Counted(t, With(p), q)
    <3>1. Cardinality(t.open[r]) = Cardinality(s.open[r]) - 1
      BY <2>1, PagesFinite DEF Pool
    <3>2. Cardinality(With(p)[r]) = Cardinality(act[r]) + 1
      BY <2>1, <2>2, PagesFinite DEF Acts
    <3>3. Counted(s, act, r) => Counted(t, With(p), r)
      <4>1. /\ t.numActive[r] = s.numActive[r] + 1 /\ t.numCode[r] = s.numCode[r] /\ t.full[r] = s.full[r]
            /\ s.open[r] \in SUBSET Pages /\ s.full[r] \in SUBSET Pages
        BY <2>1 DEF Pool
      <4>2. /\ Cardinality(s.open[r]) \in Nat /\ Cardinality(s.full[r]) \in Nat /\ Cardinality(act[r]) \in Nat
        BY <4>1, PagesFinite DEF Acts
      <4>. HIDE DEF t, With
      <4>. QED  BY <3>1, <3>2, <4>1, <4>2 DEF Counted
    <3>4. \A q \in Owners \ {r} : Counted(s, act, q) => Counted(t, With(p), q)
      BY <2>1 DEF Counted, Pool, Acts
    <3>. QED  BY <3>3, <3>4
  <2>5. \A q \in Owners : Listed(s, act, q) \subseteq Listed(t, With(p), q)
    BY <2>1 DEF Listed, Pool, Acts
  <2>6. Free(a.pool, p) >= n
    BY <2>1 DEF Free
  <2>. QED  BY <2>1, <2>2, <2>3, <2>4, <2>5, <2>6 DEF Goes
<1>2. ASSUME NEW p \in released, a = Taken(Reused(s, r, p), r, p)
      PROVE  /\ a.page = p /\ \A q \in Owners : p \notin act[q]
             /\ Goes(s, act, a.pool, With(p), Owners)
             /\ Free(a.pool, p) >= n
             /\ a.pool.line = s.line /\ a.pool.size = s.size
  <2>. DEFINE t == a.pool
  <2>1. /\ a.page = p /\ p \in Pages /\ p \in s.released
        /\ t \in Pool
        /\ t.open = s.open /\ t.full = s.full /\ t.released = s.released \ {p}
        /\ t.numActive = [s.numActive EXCEPT ![r] = @ + 1] /\ t.numCode = [s.numCode EXCEPT ![r] = @ + 1]
        /\ t.line = s.line /\ t.size = s.size
    <3>. DEFINE u == Reused(s, r, p)
    <3>1. /\ p \in Pages /\ p \in s.released
          /\ u \in Pool
          /\ u.open = s.open /\ u.full = s.full /\ u.released = s.released \ {p}
          /\ u.numActive = s.numActive /\ u.numCode = [s.numCode EXCEPT ![r] = @ + 1]
          /\ u.line = s.line /\ u.size = s.size
      <4>. DEFINE v == [s EXCEPT !.released = @ \ {p}]
      <4>1. /\ p \in Pages /\ p \in s.released
            /\ v \in Pool
            /\ v.open = s.open /\ v.full = s.full /\ v.released = s.released \ {p}
            /\ v.numActive = s.numActive /\ v.numCode = s.numCode /\ v.line = s.line /\ v.size = s.size
        BY DEF Pool
      <4>2. u = [v EXCEPT !.numCode[r] = @ + 1]
        BY DEF Reused
      <4>. HIDE DEF u, v, open, released, unmade, fits
      <4>. QED  BY <4>1, <4>2 DEF Pool
    <3>2. a = Taken(u, r, p)
      BY <1>2
    <3>. HIDE DEF u, open, released, unmade, fits
    <3>. QED  BY <3>1, <3>2, Taking
  <2>2. With(p) \in Acts /\ \A q \in Owners : p \notin act[q]
    BY <2>1 DEF Acts, Sound, Listed
  <2>3. Sound(t, With(p))
    BY <2>1, <2>2 DEF Sound, Listed, Acts, Pool
  <2>4. \A q \in Owners : Counted(s, act, q) => Counted(t, With(p), q)
    <3>2. Cardinality(With(p)[r]) = Cardinality(act[r]) + 1
      BY <2>1, <2>2, PagesFinite DEF Acts
    <3>3. Counted(s, act, r) => Counted(t, With(p), r)
      BY <2>1, <3>2, PagesFinite DEF Counted, Pool, Acts
    <3>4. \A q \in Owners \ {r} : Counted(s, act, q) => Counted(t, With(p), q)
      BY <2>1 DEF Counted, Pool, Acts
    <3>. QED  BY <3>3, <3>4
  <2>5. \A q \in Owners : Listed(s, act, q) \subseteq Listed(t, With(p), q)
    BY <2>1 DEF Listed, Pool, Acts
  <2>6. Free(a.pool, p) >= n
    BY <2>1 DEF Free
  <2>. QED  BY <2>1, <2>2, <2>3, <2>4, <2>5, <2>6 DEF Goes
<1>3. ASSUME NEW p \in unmade, NEW z \in fits, a = Taken(Made(s, r, p, z), r, p)
      PROVE  /\ a.page = p /\ \A q \in Owners : p \notin act[q]
             /\ Goes(s, act, a.pool, With(p), Owners)
             /\ Free(a.pool, p) >= n
             /\ \A x \in Pages \ {p} : a.pool.line[x] = s.line[x] /\ a.pool.size[x] = s.size[x]
  <2>. DEFINE t == a.pool
  <2>0. z \in Nat /\ z > 0 /\ z >= n
    BY PagesAssumption
  <2>1. /\ a.page = p /\ p \in Pages /\ s.size[p] = 0
        /\ t \in Pool
        /\ t.open = s.open /\ t.full = s.full /\ t.released = s.released
        /\ t.numActive = [s.numActive EXCEPT ![r] = @ + 1] /\ t.numCode = [s.numCode EXCEPT ![r] = @ + 1]
        /\ t.line = [s.line EXCEPT ![p] = 0] /\ t.size = [s.size EXCEPT ![p] = z]
    <3>. DEFINE u == Made(s, r, p, z)
    <3>1. /\ p \in Pages /\ s.size[p] = 0
          /\ u \in Pool
          /\ u.open = s.open /\ u.full = s.full /\ u.released = s.released
          /\ u.numActive = s.numActive /\ u.numCode = [s.numCode EXCEPT ![r] = @ + 1]
          /\ u.line = [s.line EXCEPT ![p] = 0] /\ u.size = [s.size EXCEPT ![p] = z]
      <4>. DEFINE v == [s EXCEPT !.size[p] = z]
                  w == [v EXCEPT !.line[p] = 0]
      <4>1. /\ p \in Pages /\ s.size[p] = 0
            /\ v \in Pool
            /\ v.open = s.open /\ v.full = s.full /\ v.released = s.released
            /\ v.numActive = s.numActive /\ v.numCode = s.numCode
            /\ v.line = s.line /\ v.size = [s.size EXCEPT ![p] = z]
        BY <2>0 DEF Pool
      <4>2. u = [w EXCEPT !.numCode[r] = @ + 1]
        BY DEF Made
      <4>. HIDE DEF u, v, open, released, unmade, fits
      <4>3. /\ w \in Pool
            /\ w.open = v.open /\ w.full = v.full /\ w.released = v.released
            /\ w.numActive = v.numActive /\ w.numCode = v.numCode
            /\ w.line = [v.line EXCEPT ![p] = 0] /\ w.size = v.size
        BY <4>1 DEF Pool
      <4>. HIDE DEF w
      <4>4. /\ u \in Pool
            /\ u.open = w.open /\ u.full = w.full /\ u.released = w.released
            /\ u.numActive = w.numActive /\ u.numCode = [w.numCode EXCEPT ![r] = @ + 1]
            /\ u.line = w.line /\ u.size = w.size
        BY <4>2, <4>3, Counting
      <4>. QED  BY <4>1, <4>3, <4>4
    <3>2. a = Taken(u, r, p)
      BY <1>3
    <3>. HIDE DEF u, open, released, unmade, fits
    <3>. QED  BY <3>1, <3>2, Taking
  <2>2. /\ With(p) \in Acts
        /\ p \notin s.released /\ \A q \in Owners : p \notin Listed(s, act, q)
    BY <2>1 DEF Acts, Sound
  <2>3. Sound(t, With(p))
    BY <2>0, <2>1, <2>2 DEF Sound, Listed, Acts, Pool
  <2>4. \A q \in Owners : Counted(s, act, q) => Counted(t, With(p), q)
    <3>2. Cardinality(With(p)[r]) = Cardinality(act[r]) + 1
      BY <2>1, <2>2, PagesFinite DEF Acts, Listed
    <3>3. Counted(s, act, r) => Counted(t, With(p), r)
      BY <2>1, <3>2, PagesFinite DEF Counted, Pool, Acts
    <3>4. \A q \in Owners \ {r} : Counted(s, act, q) => Counted(t, With(p), q)
      BY <2>1 DEF Counted, Pool, Acts
    <3>. QED  BY <3>3, <3>4
  <2>5. \A q \in Owners : Listed(s, act, q) \subseteq Listed(t, With(p), q)
    BY <2>1 DEF Listed, Pool, Acts
  <2>6. Free(a.pool, p) >= n
    BY <2>0, <2>1 DEF Free, Pool
  <2>7. \A x \in Pages \ {p} : t.line[x] = s.line[x] /\ t.size[x] = s.size[x]
    BY <2>1 DEF Pool
  <2>. QED  BY <2>1, <2>2, <2>3, <2>4, <2>5, <2>6, <2>7 DEF Goes, Listed
<1>4. \/ \E p \in open : a = Taken([s EXCEPT !.open[r] = @ \ {p}], r, p)
      \/ \E p \in released : a = Taken(Reused(s, r, p), r, p)
      \/ a.pool = s /\ a.page = NoPage
      \/ \E p \in unmade, z \in fits : a = Taken(Made(s, r, p, z), r, p)
  <2>1. a \in IF open # {} THEN {Taken([s EXCEPT !.open[r] = @ \ {p}], r, p) : p \in open}
              ELSE IF released # {} THEN {Taken(Reused(s, r, p), r, p) : p \in released}
              ELSE {[pool |-> s, page |-> Failed]} \cup {Taken(Made(s, r, p, z), r, p) : p \in unmade, z \in fits}
    BY DEF AcquireWithCapacity
  <2>. HIDE DEF open, released, unmade, fits
  <2>2. CASE open # {}
    BY <2>1, <2>2
  <2>3. CASE open = {} /\ released # {}
    BY <2>1, <2>3
  <2>4. CASE open = {} /\ released = {}
    BY <2>1, <2>4 DEF Failed
  <2>. QED  BY <2>2, <2>3, <2>4
<1>5. open \subseteq Pages /\ released \subseteq Pages /\ unmade \subseteq Pages
  BY DEF Pool
<1>. HIDE DEF open, released, unmade, fits
<1>. QED  BY <1>0, <1>1, <1>2, <1>3, <1>4, <1>5

\* Nothing has changed when there was no page.
LEMMA AcquiringFails ==
  ASSUME NEW s \in Pool, NEW r \in Owners, NEW n \in Nat,
         NEW a \in AcquireWithCapacity(s, r, n), a.page = NoPage
  PROVE  a.pool = s
<1>. DEFINE open == {p \in s.open[r] : Free(s, p) >= n}
            released == {p \in s.released : Free(s, p) >= n}
            unmade == {p \in Pages : s.size[p] = 0 /\ \A q \in 1..(p - 1) : s.size[q] > 0}
            fits == {z \in PageSizes : z >= n /\ z > 0 /\ \A y \in PageSizes : y >= n => y >= z}
<1>1. open \subseteq Pages /\ released \subseteq Pages /\ unmade \subseteq Pages /\ NoPage \notin Pages
  BY DEF Pool, NoPage, Pages
<1>2. a \in IF open # {} THEN {Taken([s EXCEPT !.open[r] = @ \ {p}], r, p) : p \in open}
            ELSE IF released # {} THEN {Taken(Reused(s, r, p), r, p) : p \in released}
            ELSE {[pool |-> s, page |-> Failed]} \cup {Taken(Made(s, r, p, z), r, p) : p \in unmade, z \in fits}
  BY DEF AcquireWithCapacity
<1>. HIDE DEF open, released, unmade, fits
<1>3. \A u, p : Taken(u, r, p).page = p
  BY DEF Taken
<1>4. CASE open # {}
  <2>1. PICK p \in open : a = Taken([s EXCEPT !.open[r] = @ \ {p}], r, p)
    BY <1>2, <1>4
  <2>2. a.page = p
    BY <1>3, <2>1
  <2>. QED  BY <1>1, <2>2
<1>5. CASE open = {} /\ released # {}
  <2>1. PICK p \in released : a = Taken(Reused(s, r, p), r, p)
    BY <1>2, <1>5
  <2>. QED  BY <1>1, <1>3, <2>1
<1>6. CASE open = {} /\ released = {}
  <2>1. a = [pool |-> s, page |-> Failed] \/ \E p \in unmade, z \in fits : a = Taken(Made(s, r, p, z), r, p)
    BY <1>2, <1>6
  <2>. QED  BY <1>1, <1>3, <2>1
<1>. QED  BY <1>4, <1>5, <1>6

\* Pages that are given back go to one of the two lists.
LEMMA Releasing ==
  ASSUME NEW s \in Pool, NEW act \in Acts, Sound(s, act), NEW r \in Owners, Counted(s, act, r),
         NEW ps \in SUBSET act[r]
  PROVE  /\ Goes(s, act, Release(s, r, ps), [act EXCEPT ![r] = @ \ ps], Owners)
         /\ Release(s, r, ps).line = s.line /\ Release(s, r, ps).size = s.size
<1>. DEFINE isFull == {p \in ps : Free(s, p) < Threshold}
            isOpen == ps \ isFull
            t == Release(s, r, ps)
            less == [act EXCEPT ![r] = @ \ ps]
<1>0. /\ act[r] \in SUBSET Pages /\ ps \in SUBSET Pages /\ isFull \in SUBSET Pages /\ isOpen \in SUBSET Pages
      /\ s.open[r] \in SUBSET Pages /\ s.full[r] \in SUBSET Pages
  BY DEF Acts, Pool
<1>1. Cardinality(act[r]) = Cardinality(act[r] \ ps) + Cardinality(ps)
  <2>1. act[r] = (act[r] \ ps) \cup ps /\ (act[r] \ ps) \cap ps = {}
    OBVIOUS
  <2>2. Cardinality((act[r] \ ps) \cup ps) = Cardinality(act[r] \ ps) + Cardinality(ps)
    BY <1>0, <2>1, DisjointUnion
  <2>. QED  BY <2>1, <2>2
<1>2. Cardinality(ps) = Cardinality(isFull) + Cardinality(isOpen)
  <2>1. ps = isFull \cup isOpen /\ isFull \cap isOpen = {}
    OBVIOUS
  <2>. QED  BY <1>0, <2>1, DisjointUnion
<1>3. /\ Cardinality(s.full[r] \cup isFull) = Cardinality(s.full[r]) + Cardinality(isFull)
      /\ Cardinality(s.open[r] \cup isOpen) = Cardinality(s.open[r]) + Cardinality(isOpen)
  <2>1. s.full[r] \cap isFull = {} /\ s.open[r] \cap isOpen = {}
    BY <1>0 DEF Sound
  <2>. QED  BY <1>0, <2>1, DisjointUnion
<1>4. s.numActive[r] - Cardinality(ps) = Cardinality(act[r] \ ps)
  BY <1>0, <1>1, PagesFinite DEF Counted
<1>5. Cardinality(act[r] \ ps) \in Nat
  BY <1>0, PagesFinite
<1>6. /\ t \in Pool
      /\ t.open = [s.open EXCEPT ![r] = @ \cup isOpen] /\ t.full = [s.full EXCEPT ![r] = @ \cup isFull]
      /\ t.released = s.released /\ t.line = s.line /\ t.size = s.size
      /\ t.numActive = [s.numActive EXCEPT ![r] = @ - Cardinality(ps)] /\ t.numCode = s.numCode
  <2>. HIDE DEF isFull
  <2>1. t = [s EXCEPT !.full[r] = @ \cup isFull, !.open[r] = @ \cup isOpen, !.numActive[r] = @ - Cardinality(ps)]
    BY DEF Release, isFull
  <2>. DEFINE a == Cardinality(ps)
              u == [s EXCEPT !.full[r] = @ \cup isFull]
              v == [u EXCEPT !.open[r] = @ \cup isOpen]
  <2>2. /\ u \in Pool /\ u.full = [s.full EXCEPT ![r] = @ \cup isFull] /\ u.open = s.open
        /\ u.released = s.released /\ u.line = s.line /\ u.size = s.size
        /\ u.numActive = s.numActive /\ u.numCode = s.numCode
    BY <1>0 DEF Pool
  <2>3. /\ v \in Pool /\ v.full = u.full /\ v.open = [u.open EXCEPT ![r] = @ \cup isOpen]
        /\ v.released = u.released /\ v.line = u.line /\ v.size = u.size
        /\ v.numActive = u.numActive /\ v.numCode = u.numCode
    <3>. HIDE DEF u
    <3>. QED  BY <1>0, <2>2 DEF Pool
  <2>4. t = [v EXCEPT !.numActive[r] = @ - a]
    BY <2>1
  <2>5. v.numActive[r] - a \in Nat
    BY <1>4, <1>5, <2>2, <2>3
  <2>6. /\ t \in Pool /\ t.full = v.full /\ t.open = v.open
        /\ t.released = v.released /\ t.line = v.line /\ t.size = v.size
        /\ t.numActive = [v.numActive EXCEPT ![r] = @ - a] /\ t.numCode = v.numCode
    <3>. HIDE DEF v, t, a
    <3>. QED  BY <2>3, <2>4, <2>5 DEF Pool
  <2>. QED
    <3>. HIDE DEF u, v, t
    <3>. QED  BY <2>2, <2>3, <2>6
<1>7. less \in Acts
  BY <1>0 DEF Acts
<1>8. Sound(t, less)
  BY <1>0, <1>6, <1>7 DEF Sound, Listed, Acts, Pool
<1>9. Counted(t, less, r)
  <2>1. /\ t.numActive[r] = s.numActive[r] - Cardinality(ps) /\ t.numCode[r] = s.numCode[r]
        /\ t.open[r] = s.open[r] \cup isOpen /\ t.full[r] = s.full[r] \cup isFull
        /\ less[r] = act[r] \ ps
    BY <1>6 DEF Pool, Acts
  <2>2. /\ Cardinality(s.open[r]) \in Nat /\ Cardinality(s.full[r]) \in Nat /\ Cardinality(isOpen) \in Nat
        /\ Cardinality(isFull) \in Nat /\ Cardinality(ps) \in Nat /\ Cardinality(act[r]) \in Nat
    BY <1>0, PagesFinite
  <2>. HIDE DEF isFull, t, less
  <2>. QED  BY <1>1, <1>2, <1>3, <1>4, <2>1, <2>2 DEF Counted
<1>10. \A q \in Owners \ {r} : Counted(s, act, q) => Counted(t, less, q)
  BY <1>6 DEF Counted, Pool, Acts
<1>11. \A q \in Owners : Listed(s, act, q) \subseteq Listed(t, less, q)
  BY <1>6 DEF Listed, Pool, Acts
<1>. QED  BY <1>6, <1>7, <1>8, <1>9, <1>10, <1>11 DEF Goes

\* A runtime with no page in use ends: its pages are the environment's.
LEMMA Recycling ==
  ASSUME NEW s \in Pool, NEW act \in Acts, Sound(s, act), NEW r \in Owners
  PROVE  /\ RuntimeRelease(s, r) \in Pool
         /\ Sound(RuntimeRelease(s, r), act)
         /\ \A q \in Owners \ {r} :
              /\ Counted(s, act, q) => Counted(RuntimeRelease(s, r), act, q)
              /\ Listed(RuntimeRelease(s, r), act, q) = Listed(s, act, q)
         /\ act[r] = {} => Counted(RuntimeRelease(s, r), act, r)
<1>. DEFINE t == RuntimeRelease(s, r)
            ps == s.open[r] \cup s.full[r]
<1>1. /\ t \in Pool
      /\ t.open = [s.open EXCEPT ![r] = {}] /\ t.full = [s.full EXCEPT ![r] = {}]
      /\ t.released = s.released \cup ps /\ t.size = s.size
      /\ t.numActive = [s.numActive EXCEPT ![r] = 0] /\ t.numCode = [s.numCode EXCEPT ![r] = 0]
  BY DEF RuntimeRelease, Pool
<1>2. Sound(t, act)
  BY <1>1 DEF Sound, Listed, Acts, Pool
<1>3. Cardinality({}) = 0
  BY FS_EmptySet
<1>4. ASSUME NEW q \in Owners \ {r}
      PROVE  /\ Counted(s, act, q) => Counted(t, act, q)
             /\ Listed(t, act, q) = Listed(s, act, q)
  BY <1>1 DEF Counted, Listed, Pool
<1>5. ASSUME act[r] = {} PROVE Counted(t, act, r)
  <2>1. t.numActive[r] = 0 /\ t.numCode[r] = 0 /\ t.open[r] = {} /\ t.full[r] = {}
    BY <1>1 DEF Pool
  <2>. HIDE DEF t
  <2>. QED  BY <1>3, <1>5, <2>1 DEF Counted
<1>. HIDE DEF t
<1>6. t \in Pool /\ Sound(t, act)
  BY <1>1, <1>2
<1>. QED  BY <1>4, <1>5, <1>6 DEF t

\* Room for n lines and a bridge: on the page, or on another it is left for.
LEMMA Ensuring ==
  ASSUME NEW s \in Pool, NEW act \in Acts, Sound(s, act),
         NEW c, c.in \in Owners, Counted(s, act, c.in), c.page \in act[c.in],
         NEW n \in Nat, NEW a \in EnsureNumLines(s, c, n)
  PROVE  /\ a.page \in Pages \cup {NoPage}
         /\ a.page # NoPage =>
              /\ a.page = c.page \/ \A q \in Owners : a.page \notin act[q]
              /\ Goes(s, act, a.pool, [act EXCEPT ![c.in] = (@ \ {c.page}) \cup {a.page}], Owners)
              /\ Free(a.pool, a.page) >= n + Bridge
              /\ \A p \in Pages \ {c.page, a.page} : a.pool.line[p] = s.line[p] /\ a.pool.size[p] = s.size[p]
<1>. DEFINE r == c.in
            room == AcquireWithCapacity(s, r, n + Bridge)
            Left(b) == [pool |-> IF b.page = Failed THEN b.pool
                                 ELSE Release(EmitWords(b.pool, c.page, Bridge), r, {c.page}),
                        page |-> b.page]
            moved == [act EXCEPT ![r] = (@ \ {c.page}) \cup {a.page}]
<1>0. NoPage \notin Pages /\ c.page \in Pages /\ n + Bridge \in Nat /\ Bridge \in Nat
  BY DEF NoPage, Pages, Acts, Bridge
<1>1. CASE a = [pool |-> s, page |-> c.page] /\ Free(s, c.page) >= n + Bridge
  <2>1. a.pool = s /\ a.page = c.page
    BY <1>1
  <2>2. moved = act
    BY <2>1 DEF Acts
  <2>3. Goes(s, act, a.pool, moved, Owners)
    BY <2>1, <2>2 DEF Goes
  <2>. QED  BY <1>0, <1>1, <2>1, <2>3
<1>2. ASSUME NEW b \in room, a = Left(b) PROVE a.page = b.page /\ (b.page # NoPage => a.pool = Release(EmitWords(b.pool, c.page, Bridge), r, {c.page}))
  BY <1>2 DEF Failed
<1>3. ASSUME NEW b \in room, a = Left(b), b.page = NoPage PROVE a.page = NoPage
  BY <1>2, <1>3
<1>4. ASSUME NEW b \in room, a = Left(b), b.page # NoPage
      PROVE  /\ a.page \in Pages /\ \A q \in Owners : a.page \notin act[q]
             /\ Goes(s, act, a.pool, moved, Owners)
             /\ Free(a.pool, a.page) >= n + Bridge
             /\ \A p \in Pages \ {c.page, a.page} : a.pool.line[p] = s.line[p] /\ a.pool.size[p] = s.size[p]
  <2>. DEFINE more == [act EXCEPT ![r] = @ \cup {b.page}]
              t == EmitWords(b.pool, c.page, Bridge)
              u == Release(t, r, {c.page})
  <2>1. /\ b.page \in Pages /\ \A q \in Owners : b.page \notin act[q]
        /\ Goes(s, act, b.pool, more, Owners)
        /\ Free(b.pool, b.page) >= n + Bridge
        /\ \A p \in Pages \ {b.page} : b.pool.line[p] = s.line[p] /\ b.pool.size[p] = s.size[p]
    BY <1>0, <1>4, Acquiring
  <2>2. a.page = b.page /\ a.pool = u
    BY <1>2, <1>4
  <2>3. /\ Goes(b.pool, more, t, more, Owners)
        /\ t.size = b.pool.size /\ t.line = [b.pool.line EXCEPT ![c.page] = @ + Bridge]
    <3>1. b.pool \in Pool /\ more \in Acts /\ Sound(b.pool, more)
      BY <2>1 DEF Goes
    <3>. HIDE DEF more
    <3>. QED  BY <1>0, <3>1, Emitting
  <2>4. Counted(t, more, r)
    BY <2>1, <2>3 DEF Goes
  <2>5. {c.page} \in SUBSET more[r]
    BY DEF Acts
  <2>6. /\ Goes(t, more, u, [more EXCEPT ![r] = @ \ {c.page}], Owners)
        /\ u.line = t.line /\ u.size = t.size
    <3>1. t \in Pool /\ more \in Acts /\ Sound(t, more)
      BY <2>3 DEF Goes
    <3>. HIDE DEF more, t
    <3>. QED  BY <2>4, <2>5, <3>1, Releasing
  <2>7. b.page # c.page
    BY <2>1
  <2>8. [more EXCEPT ![r] = @ \ {c.page}] = moved
    BY <2>2, <2>7 DEF Acts
  <2>9. Goes(s, act, u, moved, Owners)
    <3>. HIDE DEF more, t, u, moved
    <3>1. Goes(s, act, t, more, Owners)
      BY <2>1, <2>3, GoesOn
    <3>2. Goes(t, more, u, moved, Owners)
      BY <2>6, <2>8
    <3>. QED  BY <3>1, <3>2, GoesOn
  <2>10. u.size = b.pool.size /\ \A p \in Pages \ {c.page} : u.line[p] = b.pool.line[p]
    <3>1. b.pool.line \in [Pages -> Nat]
      BY <2>1 DEF Goes, Pool
    <3>. HIDE DEF t, u
    <3>. QED  BY <2>3, <2>6, <3>1
  <2>11. Free(u, b.page) >= n + Bridge
    BY <2>1, <2>7, <2>10 DEF Free
  <2>12. \A p \in Pages \ {c.page, a.page} : u.line[p] = s.line[p] /\ u.size[p] = s.size[p]
    BY <2>1, <2>2, <2>10
  <2>. HIDE DEF u, moved
  <2>. QED  BY <2>1, <2>2, <2>9, <2>11, <2>12
<1>5. \/ a = [pool |-> s, page |-> c.page] /\ Free(s, c.page) >= n + Bridge
      \/ \E b \in room : a = Left(b)
  BY DEF EnsureNumLines
<1>. HIDE DEF room, Left, moved
<1>6. ASSUME NEW b \in room, a = Left(b)
      PROVE  /\ a.page \in Pages \cup {NoPage}
             /\ a.page # NoPage =>
                  /\ a.page = c.page \/ \A q \in Owners : a.page \notin act[q]
                  /\ Goes(s, act, a.pool, moved, Owners)
                  /\ Free(a.pool, a.page) >= n + Bridge
                  /\ \A p \in Pages \ {c.page, a.page} : a.pool.line[p] = s.line[p] /\ a.pool.size[p] = s.size[p]
  BY <1>3, <1>4, <1>6
<1>. QED  BY <1>0, <1>1, <1>5, <1>6 DEF moved

LEMMA EnsuringFails ==
  ASSUME NEW s \in Pool, NEW act \in Acts, Sound(s, act),
         NEW c, c.in \in Owners, c.page \in Pages,
         NEW n \in Nat, NEW a \in EnsureNumLines(s, c, n), a.page = NoPage
  PROVE  a.pool = s
<1>. DEFINE room == AcquireWithCapacity(s, c.in, n + Bridge)
            Left(b) == [pool |-> IF b.page = Failed THEN b.pool
                                 ELSE Release(EmitWords(b.pool, c.page, Bridge), c.in, {c.page}),
                        page |-> b.page]
<1>1. n + Bridge \in Nat /\ NoPage \notin Pages
  BY DEF Bridge, NoPage, Pages
<1>2. a = [pool |-> s, page |-> c.page] \/ \E b \in room : a = Left(b)
  BY DEF EnsureNumLines
<1>3. ASSUME NEW b \in room, a = Left(b) PROVE a.pool = s
  <2>1. b.page = NoPage
    BY <1>3
  <2>2. a.pool = b.pool
    BY <1>3, <2>1 DEF Failed
  <2>. HIDE DEF Left
  <2>3. b.pool = s
    BY <1>1, <2>1, AcquiringFails
  <2>. QED  BY <2>2, <2>3
<1>. HIDE DEF room, Left
<1>. QED  BY <1>1, <1>2, <1>3

-----------------------------------------------------------------------------
(* The invariant.                                                          *)

ActiveMap == [r \in Owners |-> Active(r)]

\* The pages a compilation holds are distinct, and none is lost; an expression
\* holds just one, and loses none.
Shape ==
  /\ lost[Temp] = {}
  /\ ~Compiling => comp = Idle
  /\ Compiling =>
       /\ comp.in \in Owners /\ comp.page \in Pages
       /\ comp.in # Temp => comp.what \in Functions /\ runtimes[comp.in] = "live"
       /\ comp.in = Temp => comp.what = "expression" /\ comp.back = NoPage /\ comp.outer = <<>> /\ comp.left = 0
       /\ comp.back # NoPage => comp.left > 0
       /\ lost[comp.in] \cap Held(comp) = {}
       /\ comp.page \notin Outer(comp) /\ comp.page # comp.back /\ comp.back \notin Outer(comp)
       /\ \A i, j \in DOMAIN comp.outer : comp.outer[i] = comp.outer[j] => i = j

\* The first part of CodeKept.
FunctionsKept ==
  \A f \in Functions : code[f] # {} =>
    /\ home[f] \in Runtimes /\ runtimes[home[f]] = "live"
    /\ code[f] \subseteq PagesOf(home[f])

IInv == PagesTypeOK /\ Shape /\ Sound(pool, ActiveMap) /\ CountsAddUp /\ RoomForBridge /\ CodeKept

LEMMA Facts ==
  ASSUME IInv
  PROVE  /\ pool \in Pool /\ ActiveMap \in Acts /\ Sound(pool, ActiveMap)
         /\ Temp \in Owners /\ Runtimes \subseteq Owners /\ NoOwner \notin Owners /\ Temp \notin Runtimes
         /\ NoPage \notin Pages
         /\ \A r \in Owners : ActiveMap[r] = Active(r)
         /\ \A r \in Owners : r = Temp \/ runtimes[r] # "freed" => Counted(pool, ActiveMap, r)
<1>1. pool \in Pool
  BY DEF IInv, PagesTypeOK, Pool
<1>2. Temp \in Owners /\ Runtimes \subseteq Owners /\ NoOwner \notin Owners /\ Temp \notin Runtimes /\ NoPage \notin Pages
  BY PagesAssumption DEF Owners, NoPage, Pages
<1>3. ASSUME NEW r \in Owners PROVE Active(r) \in SUBSET Pages
  <2>1. lost[r] \in SUBSET Pages
    BY DEF IInv, PagesTypeOK
  <2>2. Outer(comp) \subseteq Pages
    <3>1. comp.outer \in Seq(Pages)
      BY DEF IInv, PagesTypeOK
    <3>. QED  BY <3>1 DEF Outer
  <2>3. Held(comp) \subseteq Pages
    BY <2>2 DEF Held, IInv, PagesTypeOK
  <2>. QED  BY <2>1, <2>3 DEF Active
<1>4. ActiveMap \in Acts /\ \A r \in Owners : ActiveMap[r] = Active(r)
  BY <1>3 DEF ActiveMap, Acts
<1>5. \A r \in Owners : r = Temp \/ runtimes[r] # "freed" => Counted(pool, ActiveMap, r)
  BY <1>4 DEF IInv, CountsAddUp, Counted
<1>. QED  BY <1>1, <1>2, <1>4, <1>5 DEF IInv

\* While something is compiled.
LEMMA CompilingFacts ==
  ASSUME IInv, Compiling
  PROVE  /\ comp.in \in Owners /\ comp.page \in Pages /\ comp.page \in ActiveMap[comp.in]
         /\ Counted(pool, ActiveMap, comp.in)
         /\ Held(comp) \subseteq ActiveMap[comp.in] /\ Outer(comp) \subseteq Held(comp)
         /\ comp.page \in Held(comp) /\ comp.back \in Held(comp) \cup {NoPage}
         /\ comp.outer \in Seq(Pages) /\ comp.left \in Nat /\ Outer(comp) \subseteq Pages
<1>1. /\ comp.in \in Owners /\ comp.page \in Pages /\ comp.outer \in Seq(Pages) /\ comp.left \in Nat
      /\ comp.in = Temp \/ runtimes[comp.in] # "freed"
  BY Facts DEF IInv, Shape, PagesTypeOK
<1>2. Outer(comp) \subseteq Pages
  BY <1>1 DEF Outer
<1>3. /\ comp.page \in Held(comp) /\ Outer(comp) \subseteq Held(comp) /\ comp.back \in Held(comp) \cup {NoPage}
  BY <1>1, <1>2, Facts DEF Held
<1>4. Held(comp) \subseteq ActiveMap[comp.in]
  BY <1>1, Facts DEF Active
<1>. QED  BY <1>1, <1>2, <1>3, <1>4, Facts

\* What is left to show of a step that goes on with the lists.
LEMMA ListsGoOn ==
  ASSUME IInv, Goes(pool, ActiveMap, pool', ActiveMap', Runtimes), UNCHANGED <<code, home, runtimes>>
  PROVE  pool' \in Pool /\ Sound(pool', ActiveMap') /\ CountsAddUp' /\ FunctionsKept'
<1>1. \A r \in Owners : ActiveMap'[r] = Active(r)'
  BY DEF ActiveMap
<1>2. CountsAddUp'
  BY <1>1, Facts DEF Goes, Counted, CountsAddUp
<1>3. ASSUME NEW f \in Functions, code[f] # {}
      PROVE  /\ home[f] \in Runtimes /\ runtimes[home[f]] = "live"
             /\ code[f] \subseteq PagesOf(home[f])'
  <2>1. /\ home[f] \in Runtimes /\ runtimes[home[f]] = "live" /\ code[f] \subseteq PagesOf(home[f])
    BY <1>3 DEF IInv, CodeKept
  <2>2. PagesOf(home[f]) \subseteq PagesOf(home[f])'
    BY <1>1, <2>1, Facts DEF Goes, Listed, PagesOf
  <2>. QED  BY <2>1, <2>2
<1>4. FunctionsKept'
  BY <1>3 DEF FunctionsKept
<1>. QED  BY <1>2, <1>4 DEF Goes

Compilations ==
  [what : Functions \cup {"nothing", "expression"}, in : Owners \cup {NoOwner},
   page : Pages \cup {NoPage}, outer : Seq(Pages), back : Pages \cup {NoPage},
   left : Nat, used : SUBSET Pages]

\* The second part of CodeKept.
UsedKept == Compiling => comp.used \subseteq PagesOf(comp.in)

\* The parts of the invariant that a step must establish, and those that follow.
LEMMA Assembled ==
  ASSUME pool' \in Pool, comp' \in Compilations, lost' \in Acts, torn' \in BOOLEAN,
         code' \in [Functions -> SUBSET Pages], home' \in [Functions -> Runtimes \cup {NoOwner}],
         runtimes' \in [Runtimes -> {"new", "live", "freed"}],
         Shape', Sound(pool', ActiveMap'), CountsAddUp', RoomForBridge', FunctionsKept', UsedKept'
  PROVE  IInv'
BY DEF IInv, PagesTypeOK, Pool, Compilations, Acts, CodeKept, FunctionsKept, UsedKept

LEMMA AssembledStill ==
  ASSUME IInv, Goes(pool, ActiveMap, pool', ActiveMap', Runtimes), UNCHANGED <<code, home, runtimes>>,
         comp' \in Compilations, lost' \in Acts, torn' \in BOOLEAN, Shape', RoomForBridge', UsedKept'
  PROVE  IInv'
<1>1. pool' \in Pool /\ Sound(pool', ActiveMap') /\ CountsAddUp' /\ FunctionsKept'
  BY ListsGoOn
<1>2. /\ code' \in [Functions -> SUBSET Pages] /\ home' \in [Functions -> Runtimes \cup {NoOwner}]
      /\ runtimes' \in [Runtimes -> {"new", "live", "freed"}]
  BY DEF IInv, PagesTypeOK
<1>. QED  BY <1>1, <1>2, Assembled

\* When nothing is compiled any more, only the lost pages are out.
LEMMA NowIdle ==
  ASSUME comp' = Idle, lost' \in Acts, lost'[Temp] = {}
  PROVE  comp' \in Compilations /\ Shape' /\ ActiveMap' = lost' /\ RoomForBridge' /\ UsedKept'
<1>1. ~Compiling'
  BY DEF Compiling, Idle
<1>2. comp' \in Compilations
  BY DEF Idle, Compilations
<1>3. NoOwner \notin Owners
  BY PagesAssumption
<1>4. ActiveMap' = lost'
  BY <1>3 DEF ActiveMap, Active, Idle, Acts
<1>. QED  BY <1>1, <1>2, <1>4 DEF Shape, RoomForBridge, UsedKept

\* When the page changes and nothing else that is held.
LEMMA PageMoves ==
  ASSUME IInv, Compiling, NEW q \in Pages, q = comp.page \/ \A r \in Owners : q \notin ActiveMap[r],
         comp'.what = comp.what, comp'.in = comp.in, comp'.page = q, comp'.outer = comp.outer,
         comp'.back = comp.back, comp.back # NoPage => comp'.left > 0, comp.in = Temp => comp'.left = 0,
         lost' = lost, runtimes' = runtimes
  PROVE  /\ ActiveMap' = [ActiveMap EXCEPT ![comp.in] = (@ \ {comp.page}) \cup {q}]
         /\ Shape'
         /\ Held(comp') = (Held(comp) \ {comp.page}) \cup {q}
<1>1. Outer(comp') = Outer(comp)
  BY DEF Outer
<1>2. /\ comp.page \notin Outer(comp) /\ comp.page # comp.back /\ comp.back \notin Outer(comp)
      /\ lost[comp.in] \cap Held(comp) = {}
  BY DEF IInv, Shape
<1>3. Held(comp') = (Held(comp) \ {comp.page}) \cup {q}
  BY <1>1, <1>2, Facts, CompilingFacts DEF Held
<1>4. \A r \in Owners : ActiveMap[r] = Active(r) /\ ActiveMap'[r] = Active(r)'
  BY Facts DEF ActiveMap
<1>5. ActiveMap'[comp.in] = (ActiveMap[comp.in] \ {comp.page}) \cup {q}
  BY <1>2, <1>3, <1>4, CompilingFacts DEF Active
<1>6. \A r \in Owners \ {comp.in} : ActiveMap'[r] = ActiveMap[r]
  BY <1>4, CompilingFacts DEF Active
<1>7. ActiveMap' = [ActiveMap EXCEPT ![comp.in] = (@ \ {comp.page}) \cup {q}]
  <2>1. \A r \in Owners : ActiveMap'[r] = [ActiveMap EXCEPT ![comp.in] = (@ \ {comp.page}) \cup {q}][r]
    BY <1>5, <1>6, CompilingFacts, Facts DEF Acts
  <2>2. ActiveMap = [r \in Owners |-> ActiveMap[r]] /\ ActiveMap' = [r \in Owners |-> ActiveMap'[r]]
    BY DEF ActiveMap
  <2>. QED  BY <2>1, <2>2
<1>8. q = comp.page \/ q \notin Held(comp) \cup lost[comp.in]
  BY <1>4, CompilingFacts DEF Active
<1>9. Shape'
  <2>1. Compiling'
    BY DEF Compiling
  <2>2. comp'.page \notin Outer(comp') /\ comp'.page # comp'.back
    BY <1>1, <1>2, <1>8, CompilingFacts, Facts DEF Held
  <2>3. lost'[comp'.in] \cap Held(comp') = {}
    BY <1>2, <1>3, <1>8, CompilingFacts
  <2>. QED  BY <1>1, <1>2, <2>1, <2>2, <2>3 DEF IInv, Shape
<1>. QED  BY <1>3, <1>7, <1>9

\* The pages with its code are still the runtime's.
LEMMA UsedGoOn ==
  ASSUME IInv, Compiling, Goes(pool, ActiveMap, pool', ActiveMap', Owners), comp'.in = comp.in,
         comp'.used \subseteq comp.used \cup Listed(pool', ActiveMap', comp.in)
  PROVE  UsedKept'
<1>1. \A r \in Owners : ActiveMap[r] = Active(r) /\ ActiveMap'[r] = Active(r)'
  BY Facts DEF ActiveMap
<1>2. comp.used \subseteq Listed(pool, ActiveMap, comp.in)
  BY <1>1, CompilingFacts DEF IInv, CodeKept, PagesOf, Listed
<1>3. Listed(pool, ActiveMap, comp.in) \subseteq Listed(pool', ActiveMap', comp.in)
  BY CompilingFacts DEF Goes
<1>4. Listed(pool', ActiveMap', comp.in) = PagesOf(comp.in)'
  BY <1>1, CompilingFacts DEF PagesOf, Listed
<1>. QED  BY <1>2, <1>3, <1>4 DEF UsedKept

-----------------------------------------------------------------------------
(* One lemma per action that works with pages.                             *)

LEMMA AbandonStep ==
  ASSUME IInv, Compiling, Abandon(pool), UNCHANGED <<torn, code, home, runtimes>>
  PROVE  IInv'
<1>. DEFINE ps == {comp.page} \cup Outer(comp)
            less == [ActiveMap EXCEPT ![comp.in] = @ \ ps]
            t == Release(pool, comp.in, ps)
            gone == {comp.back} \ {NoPage}
<1>1. Goes(pool, ActiveMap, t, less, Owners)
  <2>1. ps \in SUBSET ActiveMap[comp.in]
    BY CompilingFacts
  <2>. HIDE DEF ps
  <2>. QED  BY <2>1, CompilingFacts, Facts, Releasing
<1>2. lost \in Acts /\ gone \in SUBSET Pages /\ comp.back \in Pages \cup {NoPage}
  BY DEF IInv, PagesTypeOK, Acts
<1>3. lost' = [lost EXCEPT ![comp.in] = @ \cup gone] /\ comp' = Idle
  BY DEF Abandon
<1>4. lost' \in Acts
  <2>. HIDE DEF gone
  <2>. QED  BY <1>2, <1>3 DEF Acts
<1>5. lost'[Temp] = {}
  BY <1>2, <1>3, Facts, CompilingFacts DEF IInv, Shape, Acts
<1>6. less = lost'
  <2>1. /\ lost[comp.in] \cap Held(comp) = {} /\ comp.page # comp.back /\ comp.back \notin Outer(comp)
    BY DEF IInv, Shape
  <2>2. ActiveMap[comp.in] = lost[comp.in] \cup Held(comp)
    BY Facts, CompilingFacts DEF Active
  <2>3. Held(comp) \ ps = gone
    BY <2>1, CompilingFacts, Facts DEF Held
  <2>4. ActiveMap[comp.in] \ ps = lost[comp.in] \cup gone
    BY <2>1, <2>2, <2>3, CompilingFacts
  <2>5. \A r \in Owners \ {comp.in} : ActiveMap[r] = lost[r]
    BY Facts DEF Active
  <2>. HIDE DEF ps, gone
  <2>6. less \in Acts /\ \A r \in Owners : less[r] = lost'[r]
    BY <1>2, <1>3, <2>4, <2>5, Facts DEF Acts
  <2>. HIDE DEF less
  <2>. QED  BY <1>4, <2>6 DEF Acts
<1>7. comp' \in Compilations /\ Shape' /\ ActiveMap' = lost' /\ RoomForBridge' /\ UsedKept'
  BY <1>3, <1>4, <1>5, NowIdle
<1>8. Goes(pool, ActiveMap, pool', ActiveMap', Runtimes)
  <2>1. CASE comp.in # Temp
    <3>1. pool' = t
      BY <2>1 DEF Abandon
    <3>. HIDE DEF t, less
    <3>. QED  BY <1>1, <1>6, <1>7, <3>1, Facts DEF Goes
  <2>2. CASE comp.in = Temp
    <3>1. pool' = RuntimeRelease(t, Temp)
      BY <2>2 DEF Abandon
    <3>2. t \in Pool /\ less \in Acts /\ Sound(t, less)
      BY <1>1 DEF Goes
    <3>3. less[Temp] = {}
      BY <1>5, <1>6
    <3>. HIDE DEF t, less
    <3>4. /\ pool' \in Pool /\ Sound(pool', less) /\ Counted(pool', less, Temp)
          /\ \A q \in Owners \ {Temp} : /\ Counted(t, less, q) => Counted(pool', less, q)
                                       /\ Listed(pool', less, q) = Listed(t, less, q)
      BY <3>1, <3>2, <3>3, Facts, Recycling
    <3>5. \A q \in Runtimes : Listed(pool, ActiveMap, q) \subseteq Listed(pool', less, q)
      BY <1>1, <3>4, Facts DEF Goes
    <3>6. \A q \in Owners : Counted(pool, ActiveMap, q) => Counted(pool', less, q)
      BY <1>1, <3>4 DEF Goes
    <3>. QED  BY <1>6, <1>7, <3>2, <3>4, <3>5, <3>6 DEF Goes
  <2>. QED  BY <2>1, <2>2
<1>9. torn' \in BOOLEAN
  BY DEF IInv, PagesTypeOK
<1>. QED  BY <1>4, <1>7, <1>8, <1>9, AssembledStill

\* Room is made for k lines, and m of them are written.
LEMMA EnsureAndEmit ==
  ASSUME IInv, Compiling, NEW k \in Nat, NEW m \in Nat, NEW a \in EnsureNumLines(pool, comp, k), a.page # NoPage
  PROVE  LET t == EmitWords(a.pool, a.page, m)
             moved == [ActiveMap EXCEPT ![comp.in] = (@ \ {comp.page}) \cup {a.page}]
         IN  /\ a.page \in Pages /\ (a.page = comp.page \/ \A r \in Owners : a.page \notin ActiveMap[r])
             /\ Goes(pool, ActiveMap, t, moved, Owners)
             /\ Free(t, a.page) >= k + Bridge - m
             /\ \A p \in Pages \ {comp.page, a.page} : Free(t, p) = Free(pool, p)
<1>. DEFINE t == EmitWords(a.pool, a.page, m)
            moved == [ActiveMap EXCEPT ![comp.in] = (@ \ {comp.page}) \cup {a.page}]
<1>1. /\ a.page \in Pages /\ (a.page = comp.page \/ \A r \in Owners : a.page \notin ActiveMap[r])
      /\ Goes(pool, ActiveMap, a.pool, moved, Owners)
      /\ Free(a.pool, a.page) >= k + Bridge
      /\ \A p \in Pages \ {comp.page, a.page} : a.pool.line[p] = pool.line[p] /\ a.pool.size[p] = pool.size[p]
  BY CompilingFacts, Facts, Ensuring
<1>2. a.pool \in Pool /\ moved \in Acts /\ Sound(a.pool, moved)
  BY <1>1 DEF Goes
<1>. HIDE DEF moved
<1>3. /\ Goes(a.pool, moved, t, moved, Owners)
      /\ t.size = a.pool.size /\ t.line = [a.pool.line EXCEPT ![a.page] = @ + m]
  BY <1>1, <1>2, Emitting
<1>. HIDE DEF t
<1>4. Goes(pool, ActiveMap, t, moved, Owners)
  BY <1>1, <1>3, GoesOn
<1>5. Free(t, a.page) >= k + Bridge - m
  BY <1>1, <1>2, <1>3 DEF Free, Pool, Bridge
<1>6. \A p \in Pages \ {comp.page, a.page} : Free(t, p) = Free(pool, p)
  BY <1>1, <1>2, <1>3 DEF Free, Pool
<1>. QED  BY <1>1, <1>4, <1>5, <1>6 DEF t, moved

LEMMA AtFields ==
  ASSUME NEW c \in Compilations, NEW q \in Pages
  PROVE  /\ At(c, q) \in Compilations
         /\ At(c, q).page = q /\ At(c, q).used = c.used \cup {q}
         /\ At(c, q).what = c.what /\ At(c, q).in = c.in /\ At(c, q).outer = c.outer
         /\ At(c, q).back = c.back /\ At(c, q).left = c.left
<1>. DEFINE d == [c EXCEPT !.page = q]
<1>1. /\ d \in Compilations /\ d.page = q /\ d.used = c.used /\ d.what = c.what /\ d.in = c.in
      /\ d.outer = c.outer /\ d.back = c.back /\ d.left = c.left
  BY DEF Compilations
<1>2. At(c, q) = [d EXCEPT !.used = @ \cup {q}]
  BY DEF At
<1>. HIDE DEF d
<1>. QED  BY <1>1, <1>2 DEF Compilations

\* The compilation goes on where the lines are written.
LEMMA EmitStep ==
  ASSUME IInv, Compiling, comp.left > 0 => comp.back # NoPage, UNCHANGED <<lost, code, home, runtimes>>,
         NEW k \in Nat, NEW m \in Nat, k >= m, NEW a \in EnsureNumLines(pool, comp, k), a.page # NoPage,
         pool' = EmitWords(a.pool, a.page, m), comp' = At(comp, a.page), torn' = torn
  PROVE  IInv'
<1>. DEFINE q == a.page
<1>1. comp \in Compilations
  BY DEF IInv, PagesTypeOK, Compilations
<1>2. /\ q \in Pages /\ (q = comp.page \/ \A r \in Owners : q \notin ActiveMap[r])
      /\ Goes(pool, ActiveMap, pool', [ActiveMap EXCEPT ![comp.in] = (@ \ {comp.page}) \cup {q}], Owners)
      /\ Free(pool', q) >= k + Bridge - m
      /\ \A p \in Pages \ {comp.page, q} : Free(pool', p) = Free(pool, p)
  BY EnsureAndEmit
<1>. HIDE DEF q
<1>3. /\ comp' \in Compilations /\ comp'.page = q /\ comp'.used = comp.used \cup {q}
      /\ comp'.what = comp.what /\ comp'.in = comp.in /\ comp'.outer = comp.outer
      /\ comp'.back = comp.back /\ comp'.left = comp.left
  BY <1>1, <1>2, AtFields DEF q
<1>4. /\ comp.back # NoPage => comp'.left > 0
      /\ comp.in = Temp => comp'.left = 0
  BY <1>3 DEF IInv, Shape
<1>5. /\ ActiveMap' = [ActiveMap EXCEPT ![comp.in] = (@ \ {comp.page}) \cup {q}]
      /\ Shape' /\ Held(comp') = (Held(comp) \ {comp.page}) \cup {q}
  BY <1>2, <1>3, <1>4, PageMoves
<1>6. Goes(pool, ActiveMap, pool', ActiveMap', Owners)
  BY <1>2, <1>5
<1>7. UsedKept'
  <2>1. q \in Listed(pool', ActiveMap', comp.in)
    BY <1>2, <1>5, CompilingFacts, Facts DEF Listed, Acts
  <2>. QED  BY <1>3, <1>6, <2>1, UsedGoOn
<1>8. RoomForBridge'
  <2>. SUFFICES ASSUME ~torn
                PROVE  /\ \A p \in Held(comp') : Free(pool', p) >= Bridge
                       /\ Free(pool', IF comp'.back = NoPage THEN comp'.page ELSE comp'.back) >= Bridge + comp'.left
    BY DEF RoomForBridge
  <2>1. /\ \A p \in Held(comp) : Free(pool, p) >= Bridge
        /\ comp.back # NoPage => Free(pool, comp.back) >= Bridge + comp.left
    BY DEF IInv, RoomForBridge
  <2>2. Free(pool', q) \in Int /\ Free(pool', q) >= Bridge
    <3>1. pool' \in Pool
      BY <1>6 DEF Goes
    <3>2. Free(pool', q) \in Int
      BY <1>2, <3>1 DEF Free, Pool
    <3>. QED  BY <1>2, <3>2 DEF Bridge
  <2>3. \A p \in Held(comp') : p = q \/ (p \in Held(comp) /\ p \in Pages \ {comp.page, q})
    BY <1>5, CompilingFacts DEF IInv, PagesTypeOK, Held
  <2>4. comp.back # NoPage => comp.back \in Pages \ {comp.page, q}
    BY <1>2, CompilingFacts, Facts DEF IInv, PagesTypeOK, Shape
  <2>5. comp.back = NoPage => comp.left = 0
    BY CompilingFacts
  <2>6. \A p \in Held(comp') : Free(pool', p) >= Bridge
    BY <1>2, <2>1, <2>2, <2>3
  <2>7. Free(pool', IF comp'.back = NoPage THEN comp'.page ELSE comp'.back) >= Bridge + comp'.left
    BY <1>2, <1>3, <2>1, <2>2, <2>4, <2>5 DEF Bridge
  <2>. QED  BY <2>6, <2>7
<1>9. Goes(pool, ActiveMap, pool', ActiveMap', Runtimes)
  BY <1>6, Facts DEF Goes
<1>10. lost' \in Acts /\ torn' \in BOOLEAN
  BY DEF IInv, PagesTypeOK, Acts
<1>. QED  BY <1>3, <1>5, <1>7, <1>8, <1>9, <1>10, AssembledStill

\* What the compilation of a function is, between the blocks.
LEMMA FunctionFacts ==
  ASSUME IInv, InFunction
  PROVE  /\ Compiling /\ comp.in \in Runtimes /\ comp.in # Temp /\ runtimes[comp.in] = "live"
         /\ comp.left = 0 => comp.back = NoPage
         /\ comp \in Compilations /\ lost \in Acts /\ torn \in BOOLEAN
<1>1. Compiling /\ comp.what \in Functions /\ "expression" \notin Functions
  BY PagesAssumption DEF InFunction
<1>2. comp.in # Temp /\ runtimes[comp.in] = "live" /\ (comp.left = 0 => comp.back = NoPage)
  BY <1>1, CompilingFacts DEF IInv, Shape
<1>3. comp.in \in Runtimes
  BY <1>1, <1>2, CompilingFacts DEF Owners
<1>. QED  BY <1>1, <1>2, <1>3 DEF IInv, PagesTypeOK, Compilations, Acts

LEMMA EmitOpStep ==
  ASSUME IInv, NEW n \in OpWords, EmitOp(n)
  PROVE  IInv'
<1>1. n \in Nat /\ n <= Threshold /\ Threshold \in Nat
  BY PagesAssumption DEF Threshold
<1>2. Compiling /\ (comp.left > 0 => comp.back # NoPage) /\ UNCHANGED <<torn, code, home, runtimes>>
  BY DEF EmitOp, Within
<1>3. PICK a \in EnsureNumLines(pool, comp, Threshold) :
        IF a.page = Failed
        THEN Abandon(pool)
        ELSE /\ pool' = EmitWords(a.pool, a.page, n)
             /\ comp' = At(comp, a.page)
             /\ UNCHANGED lost
  BY DEF EmitOp, EnsureOp
<1>4. CASE a.page = Failed
  BY <1>2, <1>3, <1>4, AbandonStep
<1>5. CASE a.page # Failed
  BY <1>1, <1>2, <1>3, <1>5, EmitStep DEF Failed
<1>. QED  BY <1>4, <1>5

\* When it fails, the operands are written on the page that is full.
LEMMA EmitOpUncheckedStep ==
  ASSUME IInv, NEW n \in OpWords, EmitOpUnchecked(n)
  PROVE  IInv'
<1>1. n \in Nat /\ n <= Threshold /\ Threshold \in Nat /\ n - 1 \in Nat
  BY PagesAssumption DEF Threshold
<1>2. InFunction /\ comp.left = 0 /\ UNCHANGED <<lost, code, home, runtimes>>
  BY DEF EmitOpUnchecked
<1>3. PICK a \in EnsureNumLines(pool, comp, Threshold) :
        /\ pool' = EmitWords(a.pool, IF a.page = Failed THEN comp.page ELSE a.page,
                             IF a.page = Failed THEN n - 1 ELSE n)
        /\ comp' = At(comp, IF a.page = Failed THEN comp.page ELSE a.page)
        /\ torn' = (torn \/ a.page = Failed)
  BY DEF EmitOpUnchecked, EnsureOp
<1>4. CASE a.page # Failed
  <2>1. torn' = torn
    BY <1>2, <1>3, <1>4, FunctionFacts
  <2>. QED  BY <1>1, <1>2, <1>3, <1>4, <2>1, FunctionFacts, EmitStep DEF Failed
<1>5. CASE a.page = Failed
  <2>1. pool' = EmitWords(pool, comp.page, n - 1) /\ comp' = At(comp, comp.page) /\ torn'
    <3>1. a.pool = pool
      BY <1>1, <1>2, <1>5, FunctionFacts, CompilingFacts, Facts, EnsuringFails DEF Failed
    <3>. QED  BY <1>3, <1>5, <3>1
  <2>2. /\ comp' \in Compilations /\ comp'.page = comp.page /\ comp'.used = comp.used \cup {comp.page}
        /\ comp'.what = comp.what /\ comp'.in = comp.in /\ comp'.outer = comp.outer
        /\ comp'.back = comp.back /\ comp'.left = comp.left
    BY <1>2, <2>1, FunctionFacts, CompilingFacts, AtFields
  <2>3. Goes(pool, ActiveMap, pool', ActiveMap, Owners)
    BY <1>1, <1>2, <2>1, FunctionFacts, CompilingFacts, Facts, Emitting
  <2>4. /\ ActiveMap' = [ActiveMap EXCEPT ![comp.in] = (@ \ {comp.page}) \cup {comp.page}]
        /\ Shape'
    BY <1>2, <2>2, FunctionFacts, CompilingFacts, PageMoves
  <2>5. ActiveMap' = ActiveMap
    BY <1>2, <2>4, FunctionFacts, CompilingFacts, Facts DEF Acts
  <2>6. UsedKept'
    <3>1. comp.page \in Listed(pool', ActiveMap', comp.in)
      BY <1>2, <2>5, FunctionFacts, CompilingFacts DEF Listed
    <3>. QED  BY <1>2, <2>2, <2>3, <2>5, <3>1, FunctionFacts, UsedGoOn
  <2>7. RoomForBridge'
    BY <2>1 DEF RoomForBridge
  <2>8. Goes(pool, ActiveMap, pool', ActiveMap', Runtimes)
    BY <2>3, <2>5, Facts DEF Goes
  <2>9. lost' \in Acts /\ torn' \in BOOLEAN
    BY <1>2, <1>3, FunctionFacts
  <2>. QED  BY <1>2, <2>2, <2>4, <2>6, <2>7, <2>8, <2>9, AssembledStill
<1>. QED  BY <1>4, <1>5

\* The pages out of a runtime are the lost ones and those that are held.
LEMMA HeldMoves ==
  ASSUME IInv, Compiling, comp'.in = comp.in, UNCHANGED lost
  PROVE  /\ ActiveMap' = [ActiveMap EXCEPT ![comp.in] = lost[comp.in] \cup Held(comp')]
         /\ ActiveMap[comp.in] = lost[comp.in] \cup Held(comp)
<1>1. \A r \in Owners : ActiveMap[r] = Active(r) /\ ActiveMap'[r] = Active(r)'
  BY Facts DEF ActiveMap
<1>2. /\ ActiveMap'[comp.in] = lost[comp.in] \cup Held(comp')
      /\ ActiveMap[comp.in] = lost[comp.in] \cup Held(comp)
      /\ \A r \in Owners \ {comp.in} : ActiveMap'[r] = ActiveMap[r]
  BY <1>1, CompilingFacts DEF Active
<1>3. ActiveMap = [r \in Owners |-> ActiveMap[r]] /\ ActiveMap' = [r \in Owners |-> ActiveMap'[r]]
  BY DEF ActiveMap
<1>4. \A r \in Owners : ActiveMap'[r] = [ActiveMap EXCEPT ![comp.in] = lost[comp.in] \cup Held(comp')][r]
  BY <1>2, CompilingFacts, Facts DEF Acts
<1>. QED  BY <1>2, <1>3, <1>4

\* The page of a target is held beside the page of its table.
LEMMA BeginTargetStep ==
  ASSUME IInv, BeginTarget
  PROVE  IInv'
<1>1. /\ InFunction /\ comp.left > 0 /\ comp.back = NoPage /\ Compiling
      /\ UNCHANGED <<torn, code, home, runtimes>>
  BY FunctionFacts DEF BeginTarget, Within
<1>2. PICK a \in AcquireWithCapacity(pool, comp.in, Threshold) :
        IF a.page = Failed
        THEN Abandon(pool)
        ELSE /\ pool' = a.pool
             /\ comp' = [At(comp, a.page) EXCEPT !.back = comp.page]
             /\ UNCHANGED lost
  BY DEF BeginTarget, Acquire
<1>3. CASE a.page = Failed
  BY <1>1, <1>2, <1>3, AbandonStep
<1>4. CASE a.page # Failed
  <2>. DEFINE q == a.page
              more == [ActiveMap EXCEPT ![comp.in] = @ \cup {q}]
  <2>1. /\ q \in Pages /\ \A r \in Owners : q \notin ActiveMap[r]
        /\ Goes(pool, ActiveMap, pool', more, Owners)
        /\ Free(pool', q) >= Threshold
        /\ \A p \in Pages \ {q} : pool'.line[p] = pool.line[p] /\ pool'.size[p] = pool.size[p]
    <3>1. Threshold \in Nat /\ q # NoPage /\ comp.in \in Owners /\ pool' = a.pool
      BY <1>1, <1>2, <1>4, CompilingFacts DEF Threshold, Failed
    <3>2. a.page \in Pages \cup {NoPage}
      BY <3>1, Facts, Acquiring
    <3>. QED  BY <3>1, <3>2, Facts, Acquiring
  <2>. DEFINE c == At(comp, q)
  <2>2. /\ c \in Compilations /\ c.page = q /\ c.used = comp.used \cup {q} /\ c.what = comp.what
        /\ c.in = comp.in /\ c.outer = comp.outer /\ c.left = comp.left
    BY <1>1, <2>1, FunctionFacts, AtFields
  <2>3. /\ comp' \in Compilations /\ comp'.page = q /\ comp'.used = comp.used \cup {q} /\ comp'.what = comp.what
        /\ comp'.in = comp.in /\ comp'.outer = comp.outer /\ comp'.left = comp.left /\ comp'.back = comp.page
    <3>1. comp' = [c EXCEPT !.back = comp.page]
      BY <1>2, <1>4
    <3>. HIDE DEF c, q
    <3>. QED  BY <1>1, <2>2, <3>1, CompilingFacts DEF Compilations
  <2>. HIDE DEF c, q
  <2>4. /\ lost' = lost
        /\ Outer(comp') = Outer(comp) /\ Held(comp) = {comp.page} \cup Outer(comp)
        /\ Held(comp') = {q} \cup Held(comp)
    BY <1>1, <1>2, <1>4, <2>1, <2>3, CompilingFacts, Facts DEF Held, Outer
  <2>5. ActiveMap' = more
    <3>1. /\ ActiveMap' = [ActiveMap EXCEPT ![comp.in] = lost[comp.in] \cup Held(comp')]
          /\ ActiveMap[comp.in] = lost[comp.in] \cup Held(comp)
      BY <1>1, <2>3, <2>4, HeldMoves
    <3>2. lost[comp.in] \cup Held(comp') = ActiveMap[comp.in] \cup {q}
      BY <2>4, <3>1
    <3>. QED  BY <3>1, <3>2
  <2>6. q \notin Held(comp) /\ q \notin lost[comp.in]
    BY <1>1, <2>1, CompilingFacts, Facts DEF Active
  <2>7. Shape'
    BY <1>1, <2>1, <2>3, <2>4, <2>6, FunctionFacts, CompilingFacts, Facts DEF IInv, Shape, Compiling
  <2>8. Goes(pool, ActiveMap, pool', ActiveMap', Owners)
    BY <2>1, <2>5
  <2>9. UsedKept'
    <3>1. q \in Listed(pool', ActiveMap', comp.in)
      BY <1>1, <2>5, CompilingFacts, Facts DEF Listed, Acts
    <3>. QED  BY <1>1, <2>3, <2>8, <3>1, UsedGoOn
  <2>10. RoomForBridge'
    <3>. SUFFICES ASSUME ~torn
                  PROVE  /\ \A p \in Held(comp') : Free(pool', p) >= Bridge
                         /\ Free(pool', IF comp'.back = NoPage THEN comp'.page ELSE comp'.back) >= Bridge + comp'.left
      BY <1>1 DEF RoomForBridge
    <3>1. /\ \A p \in Held(comp) : Free(pool, p) >= Bridge
          /\ Free(pool, comp.page) >= Bridge + comp.left
      BY <1>1 DEF IInv, RoomForBridge
    <3>2. \A p \in Held(comp) : Free(pool', p) = Free(pool, p)
      BY <1>1, <2>1, <2>4, <2>6, CompilingFacts DEF Free
    <3>3. Free(pool', q) >= Bridge
      <4>1. pool' \in Pool
        BY <2>8 DEF Goes
      <4>2. Free(pool', q) \in Int
        BY <2>1, <4>1 DEF Free, Pool
      <4>. QED  BY <2>1, <4>2 DEF Threshold, Bridge
    <3>. QED  BY <1>1, <2>3, <2>4, <3>1, <3>2, <3>3, CompilingFacts, Facts
  <2>11. Goes(pool, ActiveMap, pool', ActiveMap', Runtimes)
    BY <2>8, Facts DEF Goes
  <2>12. lost' \in Acts /\ torn' \in BOOLEAN
    BY <1>1, <2>4, FunctionFacts
  <2>. QED  BY <1>1, <2>3, <2>7, <2>9, <2>10, <2>11, <2>12, AssembledStill
<1>. QED  BY <1>3, <1>4

\* The page of the target is given back, and its address added to the table.
LEMMA EndTargetStep ==
  ASSUME IInv, EndTarget
  PROVE  IInv'
<1>. DEFINE q == comp.back
            less == [ActiveMap EXCEPT ![comp.in] = @ \ {comp.page}]
            t == Release(pool, comp.in, {comp.page})
<1>1. /\ InFunction /\ q # NoPage /\ Compiling /\ UNCHANGED <<lost, torn, code, home, runtimes>>
      /\ pool' = EmitWords(t, q, 1)
      /\ comp' = [comp EXCEPT !.page = q, !.back = NoPage, !.left = @ - 1]
  BY FunctionFacts DEF EndTarget, Within
<1>2. /\ comp \in Compilations /\ q \in Pages /\ comp.left \in Nat /\ comp.left > 0
      /\ comp.page \notin Outer(comp) /\ comp.page # q /\ q \notin Outer(comp)
      /\ lost[comp.in] \cap Held(comp) = {}
  BY <1>1, CompilingFacts, FunctionFacts DEF IInv, Shape, Compilations
<1>3. /\ comp' \in Compilations /\ comp'.page = q /\ comp'.back = NoPage /\ comp'.left = comp.left - 1
      /\ comp'.what = comp.what /\ comp'.in = comp.in /\ comp'.outer = comp.outer /\ comp'.used = comp.used
  <2>. DEFINE c == [comp EXCEPT !.page = q]
              d == [c EXCEPT !.back = NoPage]
  <2>1. /\ c \in Compilations /\ c.page = q /\ c.back = comp.back /\ c.left = comp.left
        /\ c.what = comp.what /\ c.in = comp.in /\ c.outer = comp.outer /\ c.used = comp.used
    BY <1>2 DEF Compilations
  <2>. HIDE DEF c, q
  <2>2. /\ d \in Compilations /\ d.page = q /\ d.back = NoPage /\ d.left = comp.left
        /\ d.what = comp.what /\ d.in = comp.in /\ d.outer = comp.outer /\ d.used = comp.used
    BY <2>1 DEF Compilations
  <2>3. comp' = [d EXCEPT !.left = @ - 1]
    BY <1>1 DEF c
  <2>. HIDE DEF d
  <2>. QED  BY <1>2, <2>2, <2>3 DEF Compilations
<1>4. /\ Goes(pool, ActiveMap, t, less, Owners)
      /\ t.line = pool.line /\ t.size = pool.size
  <2>1. {comp.page} \in SUBSET ActiveMap[comp.in]
    BY <1>1, CompilingFacts
  <2>. QED  BY <1>1, <2>1, CompilingFacts, Facts, Releasing
<1>5. t \in Pool /\ less \in Acts /\ Sound(t, less)
  BY <1>4 DEF Goes
<1>. HIDE DEF t, less, q
<1>6. /\ Goes(t, less, pool', less, Owners)
      /\ pool'.size = t.size /\ pool'.line = [t.line EXCEPT ![q] = @ + 1]
  BY <1>1, <1>2, <1>5, Emitting
<1>7. /\ Outer(comp') = Outer(comp) /\ Held(comp) = {comp.page, q} \cup Outer(comp)
      /\ Held(comp') = {q} \cup Outer(comp)
  BY <1>1, <1>2, <1>3, CompilingFacts, Facts DEF Held, Outer, q
<1>8. ActiveMap' = less
  <2>1. /\ ActiveMap' = [ActiveMap EXCEPT ![comp.in] = lost[comp.in] \cup Held(comp')]
        /\ ActiveMap[comp.in] = lost[comp.in] \cup Held(comp)
    BY <1>1, <1>3, HeldMoves
  <2>2. lost[comp.in] \cup Held(comp') = ActiveMap[comp.in] \ {comp.page}
    BY <1>2, <1>7, <2>1
  <2>. QED  BY <2>1, <2>2 DEF less
<1>9. Goes(pool, ActiveMap, pool', ActiveMap', Owners)
  BY <1>4, <1>6, <1>8, GoesOn
<1>10. Shape'
  <2>1. Compiling' /\ comp'.in # Temp /\ comp'.what \in Functions /\ runtimes'[comp'.in] = "live"
    BY <1>1, <1>3, FunctionFacts DEF Compiling, InFunction
  <2>2. lost'[comp'.in] \cap Held(comp') = {}
    BY <1>1, <1>2, <1>3, <1>7
  <2>3. comp'.page \notin Outer(comp') /\ comp'.page # comp'.back /\ comp'.back \notin Outer(comp')
    BY <1>1, <1>2, <1>3, <1>7, CompilingFacts, Facts
  <2>. QED  BY <1>1, <1>2, <1>3, <2>1, <2>2, <2>3, CompilingFacts DEF IInv, Shape
<1>11. UsedKept'
  BY <1>1, <1>3, <1>9, UsedGoOn
<1>12. RoomForBridge'
  <2>. SUFFICES ASSUME ~torn
                PROVE  /\ \A p \in Held(comp') : Free(pool', p) >= Bridge
                       /\ Free(pool', q) >= Bridge + comp.left - 1
    BY <1>1, <1>2, <1>3 DEF RoomForBridge
  <2>1. /\ \A p \in Held(comp) : Free(pool, p) >= Bridge
        /\ Free(pool, q) >= Bridge + comp.left
    BY <1>1 DEF IInv, RoomForBridge, q
  <2>2. \A p \in Pages \ {q} : Free(pool', p) = Free(pool, p)
    BY <1>2, <1>4, <1>5, <1>6 DEF Free, Pool
  <2>3. Free(pool', q) = Free(pool, q) - 1
    BY <1>2, <1>4, <1>5, <1>6 DEF Free, Pool
  <2>4. Free(pool, q) \in Int
    BY <1>2, Facts DEF Free, Pool
  <2>5. Free(pool', q) >= Bridge + comp.left - 1 /\ Free(pool', q) >= Bridge
    BY <1>2, <2>1, <2>3, <2>4 DEF Bridge
  <2>. QED  BY <1>1, <1>2, <1>7, <2>1, <2>2, <2>5, CompilingFacts
<1>13. Goes(pool, ActiveMap, pool', ActiveMap', Runtimes)
  BY <1>9, Facts DEF Goes
<1>14. lost' \in Acts /\ torn' \in BOOLEAN
  BY <1>1, FunctionFacts
<1>. QED  BY <1>1, <1>3, <1>10, <1>11, <1>12, <1>13, <1>14, AssembledStill

\* A page more, and the last page less, in a sequence of distinct pages.
LEMMA OneMorePage ==
  ASSUME NEW o \in Seq(Pages), NEW p \in Pages, \A i \in DOMAIN o : o[i] # p,
         \A i, j \in DOMAIN o : o[i] = o[j] => i = j
  PROVE  LET t == Append(o, p)
         IN  /\ t \in Seq(Pages) /\ {t[i] : i \in DOMAIN t} = {o[i] : i \in DOMAIN o} \cup {p}
             /\ \A i, j \in DOMAIN t : t[i] = t[j] => i = j
<1>. DEFINE t == Append(o, p)
<1>1. /\ t \in Seq(Pages) /\ Len(t) = Len(o) + 1 /\ t[Len(o) + 1] = p
      /\ \A i \in 1..Len(o) : t[i] = o[i]
      /\ DOMAIN o = 1..Len(o) /\ DOMAIN t = 1..Len(t) /\ Len(o) \in Nat
  OBVIOUS
<1>. HIDE DEF t
<1>2. DOMAIN t = DOMAIN o \cup {Len(o) + 1}
  BY <1>1
<1>. QED  BY <1>1, <1>2 DEF t

LEMMA OnePageLess ==
  ASSUME NEW o \in Seq(Pages), o # <<>>, \A i, j \in DOMAIN o : o[i] = o[j] => i = j
  PROVE  LET t == SubSeq(o, 1, Len(o) - 1)
             p == o[Len(o)]
         IN  /\ t \in Seq(Pages) /\ p \in Pages /\ p \notin {t[i] : i \in DOMAIN t}
             /\ {o[i] : i \in DOMAIN o} = {t[i] : i \in DOMAIN t} \cup {p}
             /\ \A i, j \in DOMAIN t : t[i] = t[j] => i = j
<1>. DEFINE t == SubSeq(o, 1, Len(o) - 1)
            p == o[Len(o)]
            n == Len(o)
<1>1. n \in Nat /\ n > 0 /\ DOMAIN o = 1..n
  OBVIOUS
<1>2. /\ t \in Seq(Pages) /\ Len(t) = n - 1 /\ DOMAIN t = 1..(n - 1)
      /\ \A i \in 1..(n - 1) : t[i] = o[i]
  BY <1>1
<1>. HIDE DEF t
<1>3. DOMAIN o = DOMAIN t \cup {n} /\ n \notin DOMAIN t /\ p \in Pages
  BY <1>1, <1>2
<1>4. \A i \in DOMAIN t : t[i] = o[i] /\ t[i] # p
  BY <1>1, <1>2, <1>3
<1>5. o[n] = p
  OBVIOUS
<1>. HIDE DEF n, p
<1>6. {o[i] : i \in DOMAIN o} = {t[i] : i \in DOMAIN t} \cup {p}
  BY <1>3, <1>4, <1>5
<1>7. p \notin {t[i] : i \in DOMAIN t} /\ \A i, j \in DOMAIN t : t[i] = t[j] => i = j
  BY <1>3, <1>4
<1>. QED  BY <1>2, <1>3, <1>6, <1>7 DEF t, p

\* The if-block goes on, later, in the page that is left.
LEMMA BeginElseStep ==
  ASSUME IInv, BeginElse
  PROVE  IInv'
<1>1. /\ InFunction /\ comp.left = 0 /\ comp.back = NoPage /\ Compiling
      /\ UNCHANGED <<torn, code, home, runtimes>>
  BY FunctionFacts DEF BeginElse, Within
<1>2. PICK a \in AcquireWithCapacity(pool, comp.in, Threshold) :
        IF a.page = Failed
        THEN Abandon(pool)
        ELSE /\ pool' = a.pool
             /\ comp' = [At(comp, a.page) EXCEPT !.outer = Append(@, comp.page)]
             /\ UNCHANGED lost
  BY DEF BeginElse, Acquire
<1>3. CASE a.page = Failed
  BY <1>1, <1>2, <1>3, AbandonStep
<1>4. CASE a.page # Failed
  <2>. DEFINE q == a.page
              more == [ActiveMap EXCEPT ![comp.in] = @ \cup {q}]
  <2>1. /\ q \in Pages /\ \A r \in Owners : q \notin ActiveMap[r]
        /\ Goes(pool, ActiveMap, pool', more, Owners)
        /\ Free(pool', q) >= Threshold
        /\ \A p \in Pages \ {q} : pool'.line[p] = pool.line[p] /\ pool'.size[p] = pool.size[p]
    <3>1. Threshold \in Nat /\ q # NoPage /\ comp.in \in Owners /\ pool' = a.pool
      BY <1>1, <1>2, <1>4, CompilingFacts DEF Threshold, Failed
    <3>2. a.page \in Pages \cup {NoPage}
      BY <3>1, Facts, Acquiring
    <3>. QED  BY <3>1, <3>2, Facts, Acquiring
  <2>. DEFINE c == At(comp, q)
              o == Append(comp.outer, comp.page)
  <2>2. /\ c \in Compilations /\ c.page = q /\ c.used = comp.used \cup {q} /\ c.what = comp.what
        /\ c.in = comp.in /\ c.outer = comp.outer /\ c.left = comp.left /\ c.back = comp.back
    BY <1>1, <2>1, FunctionFacts, AtFields
  <2>3. /\ comp.page \notin Outer(comp)
        /\ \A i, j \in DOMAIN comp.outer : comp.outer[i] = comp.outer[j] => i = j
        /\ lost[comp.in] \cap Held(comp) = {}
    BY <1>1 DEF IInv, Shape
  <2>4. /\ o \in Seq(Pages) /\ {o[i] : i \in DOMAIN o} = Outer(comp) \cup {comp.page}
        /\ \A i, j \in DOMAIN o : o[i] = o[j] => i = j
    BY <1>1, <2>3, CompilingFacts, OneMorePage DEF Outer
  <2>5. /\ comp' \in Compilations /\ comp'.page = q /\ comp'.used = comp.used \cup {q} /\ comp'.what = comp.what
        /\ comp'.in = comp.in /\ comp'.outer = o /\ comp'.left = comp.left /\ comp'.back = NoPage
    <3>1. comp' = [c EXCEPT !.outer = Append(@, comp.page)]
      BY <1>2, <1>4
    <3>2. comp' = [c EXCEPT !.outer = o]
      <4>. HIDE DEF c
      <4>. QED  BY <2>2, <3>1
    <3>. HIDE DEF c, q, o
    <3>. QED  BY <1>1, <2>2, <2>4, <3>2, CompilingFacts DEF Compilations
  <2>6. lost' = lost
    BY <1>2, <1>4
  <2>. HIDE DEF c, q, o
  <2>7. /\ Outer(comp') = Outer(comp) \cup {comp.page} /\ Held(comp) = {comp.page} \cup Outer(comp)
        /\ Held(comp') = {q} \cup Held(comp)
    <3>1. Outer(comp') = Outer(comp) \cup {comp.page}
      BY <2>4, <2>5 DEF Outer
    <3>. QED  BY <1>1, <2>1, <2>5, <3>1, CompilingFacts, Facts DEF Held
  <2>8. ActiveMap' = more
    <3>1. /\ ActiveMap' = [ActiveMap EXCEPT ![comp.in] = lost[comp.in] \cup Held(comp')]
          /\ ActiveMap[comp.in] = lost[comp.in] \cup Held(comp)
      BY <1>1, <2>5, <2>6, HeldMoves
    <3>2. lost[comp.in] \cup Held(comp') = ActiveMap[comp.in] \cup {q}
      BY <2>7, <3>1
    <3>. QED  BY <3>1, <3>2
  <2>9. q \notin Held(comp) /\ q \notin lost[comp.in]
    BY <1>1, <2>1, CompilingFacts, Facts DEF Active
  <2>10. Shape'
    <3>1. Compiling' /\ comp'.in # Temp /\ comp'.what \in Functions /\ runtimes'[comp'.in] = "live"
      BY <1>1, <2>5, FunctionFacts DEF Compiling, InFunction
    <3>2. lost'[comp'.in] \cap Held(comp') = {}
      BY <2>3, <2>5, <2>6, <2>7, <2>9
    <3>3. comp'.page \notin Outer(comp') /\ comp'.page # comp'.back /\ comp'.back \notin Outer(comp')
      BY <1>1, <2>1, <2>5, <2>7, <2>9, CompilingFacts, Facts
    <3>4. \A i, j \in DOMAIN comp'.outer : comp'.outer[i] = comp'.outer[j] => i = j
      BY <2>4, <2>5
    <3>5. lost'[Temp] = {} /\ comp'.in \in Owners /\ comp'.page \in Pages
      BY <1>1, <2>1, <2>5, <2>6, CompilingFacts DEF IInv, Shape
    <3>. QED  BY <2>5, <3>1, <3>2, <3>3, <3>4, <3>5 DEF Shape
  <2>11. Goes(pool, ActiveMap, pool', ActiveMap', Owners)
    BY <2>1, <2>8
  <2>12. UsedKept'
    <3>1. q \in Listed(pool', ActiveMap', comp.in)
      BY <1>1, <2>8, CompilingFacts, Facts DEF Listed, Acts
    <3>. QED  BY <1>1, <2>5, <2>11, <3>1, UsedGoOn
  <2>13. RoomForBridge'
    <3>. SUFFICES ASSUME ~torn
                  PROVE  /\ \A p \in Held(comp') : Free(pool', p) >= Bridge
                         /\ Free(pool', IF comp'.back = NoPage THEN comp'.page ELSE comp'.back) >= Bridge + comp'.left
      BY <1>1 DEF RoomForBridge
    <3>1. \A p \in Held(comp) : Free(pool, p) >= Bridge
      BY <1>1 DEF IInv, RoomForBridge
    <3>2. \A p \in Held(comp) : Free(pool', p) = Free(pool, p)
      BY <1>1, <2>1, <2>7, <2>9, CompilingFacts DEF Free
    <3>3. Free(pool', q) >= Bridge /\ Free(pool', q) >= Bridge + 0
      <4>1. pool' \in Pool
        BY <2>11 DEF Goes
      <4>2. Free(pool', q) \in Int
        BY <2>1, <4>1 DEF Free, Pool
      <4>. QED  BY <2>1, <4>2 DEF Threshold, Bridge
    <3>. QED  BY <1>1, <2>5, <2>7, <3>1, <3>2, <3>3
  <2>14. Goes(pool, ActiveMap, pool', ActiveMap', Runtimes)
    BY <2>11, Facts DEF Goes
  <2>15. lost' \in Acts /\ torn' \in BOOLEAN
    BY <1>1, <2>6, FunctionFacts
  <2>. QED  BY <1>1, <2>5, <2>10, <2>12, <2>13, <2>14, <2>15, AssembledStill
<1>. QED  BY <1>3, <1>4

\* The page of the else part leads back, and is given back.
LEMMA EndElseStep ==
  ASSUME IInv, EndElse
  PROVE  IInv'
<1>1. /\ InFunction /\ comp.left = 0 /\ comp.back = NoPage /\ Compiling /\ comp.outer # <<>>
      /\ UNCHANGED <<torn, code, home, runtimes>>
  BY FunctionFacts DEF EndElse, Within
<1>2. PICK a \in EnsureNumLines(pool, comp, Threshold) :
        IF a.page = Failed
        THEN Abandon(pool)
        ELSE /\ pool' = Release(EmitWords(a.pool, a.page, 2), comp.in, {a.page})
             /\ comp' = [At(comp, a.page) EXCEPT !.page = LastOuter(comp),
                                                 !.outer = SubSeq(@, 1, Len(@) - 1)]
             /\ UNCHANGED lost
  BY DEF EndElse, EnsureOp
<1>3. CASE a.page = Failed
  BY <1>1, <1>2, <1>3, AbandonStep
<1>4. CASE a.page # Failed
  <2>. DEFINE q == a.page
              t == EmitWords(a.pool, q, 2)
              moved == [ActiveMap EXCEPT ![comp.in] = (@ \ {comp.page}) \cup {q}]
              less == [ActiveMap EXCEPT ![comp.in] = @ \ {comp.page}]
  <2>1. /\ q \in Pages /\ (q = comp.page \/ \A r \in Owners : q \notin ActiveMap[r])
        /\ Goes(pool, ActiveMap, t, moved, Owners)
        /\ \A p \in Pages \ {comp.page, q} : Free(t, p) = Free(pool, p)
    <3>1. Threshold \in Nat /\ 2 \in Nat /\ a.page # NoPage
      BY <1>4 DEF Threshold, Failed
    <3>. QED  BY <1>1, <3>1, EnsureAndEmit
  <2>2. t \in Pool /\ moved \in Acts /\ Sound(t, moved)
    BY <2>1 DEF Goes
  <2>3. Counted(t, moved, comp.in)
    BY <1>1, <2>1, CompilingFacts DEF Goes
  <2>4. {q} \in SUBSET moved[comp.in]
    BY <1>1, CompilingFacts, Facts DEF Acts
  <2>5. [moved EXCEPT ![comp.in] = @ \ {q}] = less
    BY <1>1, <2>1, CompilingFacts, Facts DEF Acts
  <2>6. pool' = Release(t, comp.in, {q}) /\ lost' = lost
    BY <1>2, <1>4
  <2>7. /\ Goes(t, moved, pool', less, Owners)
        /\ pool'.line = t.line /\ pool'.size = t.size
    <3>. HIDE DEF t, moved, less, q
    <3>. QED  BY <1>1, <2>2, <2>3, <2>4, <2>5, <2>6, CompilingFacts, Releasing
  <2>. DEFINE c == At(comp, q)
              o == SubSeq(comp.outer, 1, Len(comp.outer) - 1)
              l == LastOuter(comp)
  <2>8. /\ c \in Compilations /\ c.page = q /\ c.used = comp.used \cup {q} /\ c.what = comp.what
        /\ c.in = comp.in /\ c.outer = comp.outer /\ c.left = comp.left /\ c.back = comp.back
    BY <1>1, <2>1, FunctionFacts, AtFields
  <2>9. /\ comp.page \notin Outer(comp)
        /\ \A i, j \in DOMAIN comp.outer : comp.outer[i] = comp.outer[j] => i = j
        /\ lost[comp.in] \cap Held(comp) = {}
    BY <1>1 DEF IInv, Shape
  <2>10. /\ o \in Seq(Pages) /\ l \in Pages /\ l \notin {o[i] : i \in DOMAIN o}
         /\ Outer(comp) = {o[i] : i \in DOMAIN o} \cup {l}
         /\ \A i, j \in DOMAIN o : o[i] = o[j] => i = j
    BY <1>1, <2>9, CompilingFacts, OnePageLess DEF Outer, LastOuter
  <2>11. /\ comp' \in Compilations /\ comp'.page = l /\ comp'.used = comp.used \cup {q} /\ comp'.what = comp.what
         /\ comp'.in = comp.in /\ comp'.outer = o /\ comp'.left = comp.left /\ comp'.back = NoPage
    <3>. DEFINE d == [c EXCEPT !.page = l]
    <3>1. comp' = [d EXCEPT !.outer = SubSeq(@, 1, Len(@) - 1)]
      BY <1>2, <1>4
    <3>. HIDE DEF c, q, o, l
    <3>2. /\ d \in Compilations /\ d.page = l /\ d.used = c.used /\ d.what = c.what
          /\ d.in = c.in /\ d.outer = c.outer /\ d.left = c.left /\ d.back = c.back
      BY <2>8, <2>10 DEF Compilations
    <3>. HIDE DEF d
    <3>3. comp' = [d EXCEPT !.outer = o]
      BY <2>8, <3>1, <3>2 DEF o
    <3>. QED  BY <1>1, <2>8, <2>10, <3>2, <3>3 DEF Compilations
  <2>. HIDE DEF c, q, o, l, t, moved, less
  <2>12. /\ Outer(comp) = Outer(comp') \cup {l} /\ l \notin Outer(comp') /\ Held(comp) = {comp.page} \cup Outer(comp)
         /\ Held(comp') = Outer(comp)
    <3>1. Outer(comp') = {o[i] : i \in DOMAIN o}
      BY <2>11 DEF Outer
    <3>2. Outer(comp) \subseteq Pages
      BY <1>1, CompilingFacts
    <3>. QED  BY <1>1, <2>10, <2>11, <3>1, <3>2, CompilingFacts, Facts DEF Held
  <2>13. ActiveMap' = less
    <3>1. /\ ActiveMap' = [ActiveMap EXCEPT ![comp.in] = lost[comp.in] \cup Held(comp')]
          /\ ActiveMap[comp.in] = lost[comp.in] \cup Held(comp)
      BY <1>1, <2>6, <2>11, HeldMoves
    <3>2. lost[comp.in] \cup Held(comp') = ActiveMap[comp.in] \ {comp.page}
      BY <2>9, <2>12, <3>1
    <3>. QED  BY <3>1, <3>2 DEF less
  <2>14. Shape'
    <3>1. Compiling' /\ comp'.in # Temp /\ comp'.what \in Functions /\ runtimes'[comp'.in] = "live"
      BY <1>1, <2>11, FunctionFacts DEF Compiling, InFunction
    <3>2. lost'[comp'.in] \cap Held(comp') = {}
      BY <2>6, <2>9, <2>11, <2>12
    <3>3. comp'.page \notin Outer(comp') /\ comp'.page # comp'.back /\ comp'.back \notin Outer(comp')
      BY <1>1, <2>10, <2>11, <2>12, CompilingFacts, Facts
    <3>4. \A i, j \in DOMAIN comp'.outer : comp'.outer[i] = comp'.outer[j] => i = j
      BY <2>10, <2>11
    <3>5. lost'[Temp] = {} /\ comp'.in \in Owners /\ comp'.page \in Pages
      BY <1>1, <2>6, <2>10, <2>11, CompilingFacts DEF IInv, Shape
    <3>. QED  BY <2>11, <3>1, <3>2, <3>3, <3>4, <3>5 DEF Shape
  <2>15. Goes(pool, ActiveMap, pool', ActiveMap', Owners)
    BY <2>1, <2>7, <2>13, GoesOn
  <2>16. UsedKept'
    <3>1. q \in Listed(t, moved, comp.in)
      BY <2>4 DEF Listed
    <3>2. q \in Listed(pool', ActiveMap', comp.in)
      BY <1>1, <2>7, <2>13, <3>1, CompilingFacts DEF Goes
    <3>. QED  BY <1>1, <2>11, <2>15, <3>2, UsedGoOn
  <2>17. RoomForBridge'
    <3>. SUFFICES ASSUME ~torn
                  PROVE  /\ \A p \in Held(comp') : Free(pool', p) >= Bridge
                         /\ Free(pool', comp'.page) >= Bridge + 0
      BY <1>1, <2>11 DEF RoomForBridge
    <3>1. \A p \in Held(comp) : Free(pool, p) >= Bridge
      BY <1>1 DEF IInv, RoomForBridge
    <3>2. \A p \in Outer(comp) : p \in Pages \ {comp.page, q}
      BY <1>1, <2>1, <2>9, CompilingFacts
    <3>3. \A p \in Pages : Free(pool', p) = Free(t, p)
      BY <2>7 DEF Free
    <3>4. \A p \in Held(comp') : Free(pool', p) >= Bridge
      BY <2>1, <2>12, <3>1, <3>2, <3>3
    <3>. QED  BY <2>11, <2>12, <3>4 DEF Bridge
  <2>18. Goes(pool, ActiveMap, pool', ActiveMap', Runtimes)
    BY <2>15, Facts DEF Goes
  <2>19. lost' \in Acts /\ torn' \in BOOLEAN
    BY <1>1, <2>6, FunctionFacts
  <2>. QED  BY <1>1, <2>11, <2>14, <2>16, <2>17, <2>18, <2>19, AssembledStill
<1>. QED  BY <1>3, <1>4

\* Room for the whole table is made first, and for its operation then: either
\* it is the same, or the table is so short that a new page has room for it.
LEMMA BeginTableStep ==
  ASSUME IInv, NEW n \in 0..MaxTargets, BeginTable(n)
  PROVE  IInv'
<1>1. /\ InFunction /\ comp.left = 0 /\ comp.back = NoPage /\ Compiling
      /\ UNCHANGED <<torn, code, home, runtimes>>
      /\ n \in Nat /\ n + 4 \in Nat /\ Threshold \in Nat /\ 3 \in Nat
  BY PagesAssumption, FunctionFacts DEF BeginTable, Within, Threshold
<1>2. PICK a \in EnsureNumLines(pool, comp, n + 4) :
        IF a.page = Failed
        THEN Abandon(pool)
        ELSE \E b \in EnsureNumLines(a.pool, At(comp, a.page), Threshold) :
               IF b.page = Failed
               THEN /\ pool' = Release(a.pool, comp.in, {a.page} \cup Outer(comp))
                    /\ comp' = Idle /\ UNCHANGED lost
               ELSE /\ pool' = EmitWords(b.pool, b.page, 3)
                    /\ comp' = [At(At(comp, a.page), b.page) EXCEPT !.left = n + 1]
                    /\ UNCHANGED lost
  BY DEF BeginTable, EnsureOp
<1>3. CASE a.page = Failed
  BY <1>1, <1>2, <1>3, AbandonStep
<1>4. CASE a.page # Failed
  <2>. DEFINE c == At(comp, a.page)
              in == comp.in
              moved == [ActiveMap EXCEPT ![in] = (@ \ {comp.page}) \cup {a.page}]
  <2>1. PICK b \in EnsureNumLines(a.pool, c, Threshold) :
          IF b.page = Failed
          THEN /\ pool' = Release(a.pool, in, {a.page} \cup Outer(comp))
               /\ comp' = Idle /\ UNCHANGED lost
          ELSE /\ pool' = EmitWords(b.pool, b.page, 3)
               /\ comp' = [At(c, b.page) EXCEPT !.left = n + 1]
               /\ UNCHANGED lost
    BY <1>2, <1>4
  <2>2. /\ a.page \in Pages /\ (a.page = comp.page \/ \A r \in Owners : a.page \notin ActiveMap[r])
        /\ Goes(pool, ActiveMap, a.pool, moved, Owners)
        /\ Free(a.pool, a.page) >= n + 4 + Bridge
        /\ \A p \in Pages \ {comp.page, a.page} : a.pool.line[p] = pool.line[p] /\ a.pool.size[p] = pool.size[p]
    BY <1>1, <1>4, CompilingFacts, Facts, Ensuring DEF Failed
  <2>3. a.pool \in Pool /\ moved \in Acts /\ Sound(a.pool, moved) /\ Counted(a.pool, moved, in)
    BY <1>1, <2>2, CompilingFacts DEF Goes
  <2>4. /\ c \in Compilations /\ c.page = a.page /\ c.used = comp.used \cup {a.page} /\ c.what = comp.what
        /\ c.in = in /\ c.outer = comp.outer /\ c.left = comp.left /\ c.back = comp.back
    BY <1>1, <2>2, FunctionFacts, AtFields
  <2>5. /\ comp.page \notin Outer(comp)
        /\ lost[in] \cap Held(comp) = {}
        /\ Held(comp) = {comp.page} \cup Outer(comp)
        /\ ActiveMap[in] = lost[in] \cup Held(comp)
        /\ in \in Owners /\ a.page \in moved[in] /\ lost' = lost
    <3>1. ActiveMap[in] = lost[in] \cup Held(comp) /\ in \in Owners
      BY <1>1, CompilingFacts, Facts DEF Active
    <3>2. a.page \in moved[in]
      BY <3>1, Facts DEF Acts
    <3>3. lost' = lost
      BY <2>1
    <3>. QED  BY <1>1, <3>1, <3>2, <3>3, CompilingFacts, Facts DEF Held, IInv, Shape
  <2>6. CASE b.page = Failed
    <3>. DEFINE ps == {a.page} \cup Outer(comp)
                less == [moved EXCEPT ![in] = @ \ ps]
    <3>1. ps \in SUBSET moved[in] /\ moved[in] = (ActiveMap[in] \ {comp.page}) \cup {a.page}
      BY <2>5, Facts DEF Acts
    <3>2. Goes(a.pool, moved, pool', less, Owners)
      <4>1. pool' = Release(a.pool, in, ps)
        BY <2>1, <2>6
      <4>. HIDE DEF ps, moved, in
      <4>. QED  BY <2>3, <2>5, <3>1, <4>1, Releasing
    <3>3. moved[in] \ ps = lost[in]
      BY <2>2, <2>5, <3>1
    <3>4. less = lost
      <4>1. \A r \in Owners \ {in} : ActiveMap[r] = lost[r]
        BY Facts DEF Active
      <4>2. less \in Acts /\ lost \in Acts
        BY <1>1, <3>2, FunctionFacts DEF Goes
      <4>3. \A r \in Owners : less[r] = lost[r]
        BY <2>3, <2>5, <3>3, <4>1, Facts DEF Acts
      <4>. HIDE DEF less
      <4>. QED  BY <4>2, <4>3 DEF Acts
    <3>5. comp' = Idle /\ lost' \in Acts /\ lost'[Temp] = {}
      BY <1>1, <2>1, <2>5, <2>6, FunctionFacts DEF IInv, Shape
    <3>6. comp' \in Compilations /\ Shape' /\ ActiveMap' = lost' /\ RoomForBridge' /\ UsedKept'
      BY <3>5, NowIdle
    <3>. HIDE DEF less, moved
    <3>7. Goes(pool, ActiveMap, pool', ActiveMap', Runtimes)
      <4>1. Goes(pool, ActiveMap, pool', less, Owners)
        BY <2>2, <3>2, GoesOn
      <4>. QED  BY <2>5, <3>4, <3>6, <4>1, Facts DEF Goes
    <3>8. torn' \in BOOLEAN
      BY <1>1, FunctionFacts
    <3>. QED  BY <1>1, <3>5, <3>6, <3>7, <3>8, AssembledStill
  <2>7. CASE b.page # Failed
    <3>. DEFINE q == b.page
                t == EmitWords(b.pool, q, 3)
                again == [moved EXCEPT ![in] = (@ \ {a.page}) \cup {q}]
                after == [ActiveMap EXCEPT ![in] = (@ \ {comp.page}) \cup {q}]
    <3>1. /\ q \in Pages /\ (q = a.page \/ \A r \in Owners : q \notin moved[r])
          /\ Goes(a.pool, moved, b.pool, again, Owners)
          /\ Free(b.pool, q) >= Threshold + Bridge
          /\ \A p \in Pages \ {a.page, q} : b.pool.line[p] = a.pool.line[p] /\ b.pool.size[p] = a.pool.size[p]
      <4>. HIDE DEF moved, c, in
      <4>. QED  BY <1>1, <2>3, <2>4, <2>5, <2>7, Ensuring DEF Failed
    <3>2. again = after
      <4>1. /\ moved[in] = (ActiveMap[in] \ {comp.page}) \cup {a.page}
            /\ DOMAIN moved = Owners /\ DOMAIN ActiveMap = Owners
            /\ \A r \in Owners \ {in} : moved[r] = ActiveMap[r]
        BY <2>5, Facts DEF Acts
      <4>2. (moved[in] \ {a.page}) \cup {q} = (ActiveMap[in] \ {comp.page}) \cup {q}
        BY <2>2, <2>5, <4>1
      <4>. HIDE DEF moved, in, q
      <4>3. DOMAIN again = Owners /\ DOMAIN after = Owners /\ \A r \in Owners : again[r] = after[r]
        BY <2>5, <4>1, <4>2
      <4>. QED  BY <4>3
    <3>3. b.pool \in Pool /\ again \in Acts /\ Sound(b.pool, again)
      BY <3>1 DEF Goes
    <3>4. /\ Goes(b.pool, again, t, again, Owners)
          /\ t.size = b.pool.size /\ t.line = [b.pool.line EXCEPT ![q] = @ + 3]
      <4>1. q \in Pages /\ 3 \in Nat
        BY <3>1
      <4>. HIDE DEF again, q, after, moved, c, in
      <4>. QED  BY <3>3, <4>1, Emitting
    <3>5. q = comp.page \/ \A r \in Owners : q \notin ActiveMap[r]
      BY <2>2, <2>3, <2>5, <3>1, Facts DEF Acts
    <3>6. pool' = t /\ comp' = [At(c, q) EXCEPT !.left = n + 1]
      BY <2>1, <2>7
    <3>7. /\ comp' \in Compilations /\ comp'.page = q /\ comp'.used = comp.used \cup {a.page, q}
          /\ comp'.what = comp.what /\ comp'.in = in /\ comp'.outer = comp.outer /\ comp'.back = comp.back
          /\ comp'.left = n + 1
      <4>. DEFINE d == At(c, q)
      <4>. HIDE DEF c, q
      <4>1. /\ d \in Compilations /\ d.page = q /\ d.used = c.used \cup {q} /\ d.what = c.what
            /\ d.in = c.in /\ d.outer = c.outer /\ d.left = c.left /\ d.back = c.back
        BY <2>4, <3>1, AtFields
      <4>2. comp' = [d EXCEPT !.left = n + 1]
        BY <3>6
      <4>. HIDE DEF d
      <4>. QED  BY <1>1, <2>4, <4>1, <4>2 DEF Compilations
    <3>8. /\ ActiveMap' = after /\ Shape' /\ Held(comp') = (Held(comp) \ {comp.page}) \cup {q}
      <4>. HIDE DEF q
      <4>. QED  BY <1>1, <2>5, <3>1, <3>5, <3>7, FunctionFacts, PageMoves
    <3>. HIDE DEF again, after, moved, t, q
    <3>9. Goes(a.pool, moved, pool', ActiveMap', Owners)
      BY <3>1, <3>2, <3>4, <3>6, <3>8, GoesOn
    <3>10. Goes(pool, ActiveMap, pool', ActiveMap', Owners)
      BY <2>2, <3>9, GoesOn
    <3>11. UsedKept'
      <4>1. a.page \in Listed(pool', ActiveMap', in)
        BY <2>5, <3>9 DEF Goes, Listed
      <4>2. q \in Listed(pool', ActiveMap', in)
        BY <2>5, <3>8, Facts DEF Listed, Acts, after
      <4>. QED  BY <1>1, <3>7, <3>10, <4>1, <4>2, UsedGoOn
    <3>12. Free(pool', q) >= Bridge + n + 1
      <4>1. Free(b.pool, q) >= n + 6
        <5>1. CASE Free(a.pool, a.page) >= Threshold + Bridge
          <6>1. b = [pool |-> a.pool, page |-> a.page]
            BY <2>1, <2>4, <5>1 DEF EnsureNumLines
          <6>. QED  BY <1>1, <2>2, <2>3, <6>1 DEF Free, Pool, Bridge, q
        <5>2. CASE ~(Free(a.pool, a.page) >= Threshold + Bridge)
          <6>1. Free(a.pool, a.page) \in Int
            BY <2>2, <2>3 DEF Free, Pool
          <6>2. n <= 1
            BY <1>1, <2>2, <5>2, <6>1 DEF Threshold, Bridge
          <6>3. Free(b.pool, q) \in Int
            BY <3>1, <3>3 DEF Free, Pool
          <6>. QED  BY <1>1, <3>1, <6>2, <6>3 DEF Threshold, Bridge
        <5>. QED  BY <5>1, <5>2
      <4>2. Free(b.pool, q) \in Int /\ Free(pool', q) = Free(b.pool, q) - 3
        BY <3>1, <3>3, <3>4, <3>6 DEF Free, Pool
      <4>. QED  BY <1>1, <4>1, <4>2 DEF Bridge
    <3>13. RoomForBridge'
      <4>. SUFFICES ASSUME ~torn
                    PROVE  /\ \A p \in Held(comp') : Free(pool', p) >= Bridge
                           /\ Free(pool', q) >= Bridge + (n + 1)
        BY <1>1, <3>7 DEF RoomForBridge
      <4>1. \A p \in Held(comp) : Free(pool, p) >= Bridge
        BY <1>1 DEF IInv, RoomForBridge
      <4>2. Free(pool', q) \in Int
        <5>1. pool' \in Pool
          BY <3>10 DEF Goes
        <5>. QED  BY <3>1, <5>1 DEF Free, Pool
      <4>3. Free(pool', q) >= Bridge /\ Free(pool', q) >= Bridge + (n + 1)
        BY <1>1, <3>12, <4>2 DEF Bridge
      <4>4. ASSUME NEW p \in Held(comp'), p # q PROVE Free(pool', p) >= Bridge
        <5>1. p \in Held(comp) /\ p # comp.page /\ p \in Outer(comp) /\ p \in Pages
          BY <1>1, <2>5, <3>8, <4>4, CompilingFacts
        <5>2. p # a.page
          BY <1>1, <2>2, <5>1, CompilingFacts
        <5>3. Free(pool', p) = Free(pool, p)
          BY <2>2, <3>1, <3>3, <3>4, <3>6, <4>4, <5>1, <5>2 DEF Free, Pool
        <5>. QED  BY <4>1, <5>1, <5>3
      <4>. QED  BY <4>3, <4>4
    <3>14. Goes(pool, ActiveMap, pool', ActiveMap', Runtimes)
      BY <3>10, Facts DEF Goes
    <3>15. lost' \in Acts /\ torn' \in BOOLEAN
      BY <1>1, <2>5, FunctionFacts
    <3>. QED  BY <1>1, <3>7, <3>8, <3>11, <3>13, <3>14, <3>15, AssembledStill
  <2>. QED  BY <2>6, <2>7
<1>. QED  BY <1>3, <1>4

LEMMA IdleFacts ==
  ASSUME IInv, ~Compiling
  PROVE  /\ comp = Idle /\ ActiveMap = lost /\ lost \in Acts /\ lost[Temp] = {} /\ torn \in BOOLEAN
         /\ code \in [Functions -> SUBSET Pages] /\ home \in [Functions -> Runtimes \cup {NoOwner}]
         /\ runtimes \in [Runtimes -> {"new", "live", "freed"}]
<1>1. comp = Idle /\ lost[Temp] = {}
  BY DEF IInv, Shape
<1>2. /\ lost \in Acts /\ torn \in BOOLEAN
      /\ code \in [Functions -> SUBSET Pages] /\ home \in [Functions -> Runtimes \cup {NoOwner}]
      /\ runtimes \in [Runtimes -> {"new", "live", "freed"}]
  BY DEF IInv, PagesTypeOK, Acts
<1>3. ActiveMap = lost
  BY <1>1, <1>2, Facts DEF ActiveMap, Active, Idle, Acts
<1>. QED  BY <1>1, <1>2, <1>3

\* What goes on for the counters and the pages of a runtime.
LEMMA KeptGoOn ==
  ASSUME IInv, Goes(pool, ActiveMap, pool', ActiveMap', Runtimes), UNCHANGED runtimes
  PROVE  /\ CountsAddUp' /\ pool' \in Pool /\ Sound(pool', ActiveMap')
         /\ \A r \in Runtimes : PagesOf(r) \subseteq PagesOf(r)' /\ PagesOf(r)' = Listed(pool', ActiveMap', r)
<1>1. \A r \in Owners : ActiveMap'[r] = Active(r)'
  BY DEF ActiveMap
<1>2. CountsAddUp'
  BY <1>1, Facts DEF Goes, Counted, CountsAddUp
<1>3. \A r \in Runtimes : PagesOf(r) \subseteq PagesOf(r)' /\ PagesOf(r)' = Listed(pool', ActiveMap', r)
  BY <1>1, Facts DEF Goes, Listed, PagesOf
<1>. QED  BY <1>2, <1>3 DEF Goes

LEMMA FunctionsAreKept ==
  ASSUME \A f \in Functions : code'[f] # {} =>
           /\ home'[f] \in Runtimes /\ runtimes'[home'[f]] = "live"
           /\ code'[f] \subseteq Listed(pool', ActiveMap', home'[f])
  PROVE  FunctionsKept'
<1>1. ASSUME NEW f \in Functions, home'[f] \in Runtimes
      PROVE  PagesOf(home[f])' = Listed(pool', ActiveMap', home'[f])
  <2>1. home'[f] \in Owners
    BY <1>1 DEF Owners
  <2>2. ActiveMap'[home'[f]] = Active(home[f])'
    BY <2>1 DEF ActiveMap, Active
  <2>. QED  BY <2>2 DEF PagesOf, Listed
<1>. QED  BY <1>1 DEF FunctionsKept

\* A compilation begins with one page, or not at all.
LEMMA StartStep ==
  ASSUME IInv, ~Compiling, NEW r \in Owners, NEW what, Start(r, what),
         r # Temp => what \in Functions /\ runtimes[r] = "live",
         r = Temp => what = "expression"
  PROVE  IInv'
<1>1. UNCHANGED <<lost, torn, code, home, runtimes>>
  BY DEF Start
<1>2. PICK a \in AcquireWithCapacity(pool, r, Threshold) :
        /\ pool' = a.pool
        /\ comp' = IF a.page = Failed THEN Idle
                   ELSE [Idle EXCEPT !.what = what, !.in = r, !.page = a.page, !.used = {a.page}]
  BY DEF Start, Acquire
<1>3. Threshold \in Nat /\ Failed = NoPage
  BY DEF Threshold, Failed
<1>4. CASE a.page = Failed
  <2>1. pool' = pool /\ comp' = Idle
    BY <1>2, <1>3, <1>4, Facts, AcquiringFails
  <2>2. comp' \in Compilations /\ Shape' /\ ActiveMap' = lost' /\ RoomForBridge' /\ UsedKept'
    BY <1>1, <2>1, IdleFacts, NowIdle
  <2>3. Goes(pool, ActiveMap, pool', ActiveMap', Runtimes)
    BY <1>1, <2>1, <2>2, IdleFacts, Facts DEF Goes
  <2>. QED  BY <1>1, <2>2, <2>3, IdleFacts, AssembledStill
<1>5. CASE a.page # Failed
  <2>. DEFINE q == a.page
              more == [ActiveMap EXCEPT ![r] = @ \cup {q}]
  <2>1. /\ q \in Pages /\ \A x \in Owners : q \notin ActiveMap[x]
        /\ Goes(pool, ActiveMap, pool', more, Owners)
        /\ Free(pool', q) >= Threshold
    <3>1. a.page \in Pages \cup {NoPage}
      BY <1>3, Facts, Acquiring
    <3>. QED  BY <1>2, <1>3, <1>5, <3>1, Facts, Acquiring
  <2>2. comp' = [what |-> what, in |-> r, page |-> q, outer |-> <<>>, back |-> NoPage, left |-> 0, used |-> {q}]
    BY <1>2, <1>5 DEF Idle
  <2>. HIDE DEF q
  <2>3. /\ comp'.what = what /\ comp'.in = r /\ comp'.page = q /\ comp'.outer = <<>>
        /\ comp'.back = NoPage /\ comp'.left = 0 /\ comp'.used = {q}
    BY <2>2
  <2>4. what \in Functions \cup {"expression"} /\ what # "nothing"
    BY PagesAssumption
  <2>5. comp' \in Compilations
    BY <2>1, <2>2, <2>4 DEF Compilations
  <2>6. Outer(comp') = {} /\ Held(comp') = {q}
    BY <2>1, <2>3, Facts DEF Outer, Held
  <2>7. ActiveMap' = more
    <3>1. \A x \in Owners : ActiveMap'[x] = Active(x)'
      BY DEF ActiveMap
    <3>2. \A x \in Owners : ActiveMap'[x] = more[x]
      <4>1. ActiveMap'[r] = lost[r] \cup {q}
        BY <1>1, <2>3, <2>6, <3>1 DEF Active
      <4>2. ASSUME NEW x \in Owners \ {r} PROVE ActiveMap'[x] = lost[x]
        <5>1. x # r /\ lost'[x] = lost[x] /\ ActiveMap'[x] = Active(x)'
          BY <1>1, <3>1
        <5>2. Active(x)' = lost'[x]
          BY <2>3, <5>1 DEF Active
        <5>. QED  BY <5>1, <5>2
      <4>3. more = [lost EXCEPT ![r] = @ \cup {q}] /\ lost \in Acts
        BY IdleFacts
      <4>. HIDE DEF more
      <4>. QED  BY <4>1, <4>2, <4>3 DEF Acts
    <3>3. ActiveMap' = [x \in Owners |-> ActiveMap'[x]] /\ more = [x \in Owners |-> more[x]]
      BY IdleFacts DEF ActiveMap, Acts
    <3>. QED  BY <3>2, <3>3
  <2>8. Compiling' /\ lost'[r] \cap {q} = {}
    BY <1>1, <2>1, <2>3, <2>4, IdleFacts DEF Compiling
  <2>9. Shape'
    BY <1>1, <2>1, <2>3, <2>6, <2>8, Facts, IdleFacts DEF Shape
  <2>10. Free(pool', q) >= Bridge /\ Free(pool', q) >= Bridge + 0
    <3>1. pool' \in Pool
      BY <2>1 DEF Goes
    <3>2. Free(pool', q) \in Int
      BY <2>1, <3>1 DEF Free, Pool
    <3>. QED  BY <2>1, <3>2 DEF Threshold, Bridge
  <2>11. RoomForBridge'
    BY <2>3, <2>6, <2>10 DEF RoomForBridge
  <2>12. Goes(pool, ActiveMap, pool', ActiveMap', Owners)
    BY <2>1, <2>7
  <2>13. UsedKept'
    <3>1. q \in ActiveMap'[r]
      BY <2>7, IdleFacts DEF Acts
    <3>2. ActiveMap'[r] = Active(r)'
      BY DEF ActiveMap
    <3>. QED  BY <2>3, <3>1, <3>2 DEF UsedKept, PagesOf
  <2>14. Goes(pool, ActiveMap, pool', ActiveMap', Runtimes)
    BY <2>12, Facts DEF Goes
  <2>. QED  BY <1>1, <2>5, <2>9, <2>11, <2>13, <2>14, IdleFacts, AssembledStill
<1>. QED  BY <1>4, <1>5

LEMMA BeginFunctionStep ==
  ASSUME IInv, NEW r \in Runtimes, NEW f \in Functions, BeginFunction(r, f)
  PROVE  IInv'
<1>1. ~Compiling /\ runtimes[r] = "live" /\ Start(r, f) /\ r \in Owners /\ r # Temp
  BY Facts DEF BeginFunction
<1>. QED  BY <1>1, StartStep

LEMMA BeginExpressionStep ==
  ASSUME IInv, BeginExpression
  PROVE  IInv'
<1>1. ~Compiling /\ Start(Temp, "expression") /\ Temp \in Owners
  BY Facts DEF BeginExpression
<1>. QED  BY <1>1, StartStep

\* The expression's one page goes where it would go if the compilation failed.
LEMMA EndExpressionStep ==
  ASSUME IInv, EndExpression
  PROVE  IInv'
<1>1. /\ Compiling /\ comp.what = "expression" /\ comp' = Idle
      /\ pool' = RuntimeRelease(Release(pool, Temp, {comp.page}), Temp)
      /\ lost' = lost /\ UNCHANGED <<torn, code, home, runtimes>>
  BY DEF EndExpression, Within
<1>2. comp.in = Temp /\ comp.back = NoPage /\ comp.outer = <<>>
  <2>1. "expression" \notin Functions
    BY PagesAssumption
  <2>. QED  BY <1>1, <2>1 DEF IInv, Shape
<1>3. {comp.page} \cup Outer(comp) = {comp.page} /\ {comp.back} \ {NoPage} = {}
  BY <1>2 DEF Outer
<1>4. lost' = [lost EXCEPT ![comp.in] = @ \cup ({comp.back} \ {NoPage})]
  <2>1. lost \in Acts
    BY DEF IInv, PagesTypeOK, Acts
  <2>. QED  BY <1>1, <1>3, <2>1, CompilingFacts DEF Acts
<1>5. Abandon(pool)
  BY <1>1, <1>2, <1>3, <1>4 DEF Abandon
<1>. QED  BY <1>1, <1>5, AbandonStep

\* The pages with its code are the function's.
LEMMA EndFunctionStep ==
  ASSUME IInv, EndFunction
  PROVE  IInv'
<1>. DEFINE r == comp.in
            less == [ActiveMap EXCEPT ![r] = @ \ {comp.page}]
<1>1. /\ InFunction /\ Compiling /\ comp.back = NoPage /\ comp.outer = <<>> /\ comp.what \in Functions
      /\ pool' = Release(pool, r, {comp.page})
      /\ code' = [code EXCEPT ![comp.what] = comp.used]
      /\ home' = [home EXCEPT ![comp.what] = r]
      /\ comp' = Idle /\ UNCHANGED <<lost, torn, runtimes>>
  BY FunctionFacts DEF EndFunction, InFunction
<1>2. Goes(pool, ActiveMap, pool', less, Owners)
  <2>1. {comp.page} \in SUBSET ActiveMap[r]
    BY <1>1, CompilingFacts
  <2>. QED  BY <1>1, <2>1, CompilingFacts, Facts, Releasing
<1>3. less = lost
  <2>1. Held(comp) = {comp.page} /\ lost[r] \cap Held(comp) = {}
    BY <1>1, CompilingFacts, Facts DEF Held, Outer, IInv, Shape
  <2>2. ActiveMap[r] \ {comp.page} = lost[r]
    BY <1>1, <2>1, CompilingFacts, Facts DEF Active
  <2>3. \A x \in Owners \ {r} : ActiveMap[x] = lost[x]
    BY Facts DEF Active
  <2>4. less \in Acts /\ lost \in Acts
    BY <1>1, <1>2, FunctionFacts DEF Goes
  <2>5. \A x \in Owners : less[x] = lost[x]
    BY <2>2, <2>3, Facts DEF Acts
  <2>. HIDE DEF less
  <2>. QED  BY <2>4, <2>5 DEF Acts
<1>4. lost' \in Acts /\ lost'[Temp] = {} /\ torn' \in BOOLEAN
  BY <1>1, FunctionFacts DEF IInv, Shape
<1>5. comp' \in Compilations /\ Shape' /\ ActiveMap' = lost' /\ RoomForBridge' /\ UsedKept'
  BY <1>1, <1>4, NowIdle
<1>6. Goes(pool, ActiveMap, pool', ActiveMap', Runtimes)
  <2>. HIDE DEF less
  <2>. QED  BY <1>1, <1>2, <1>3, <1>5, Facts DEF Goes
<1>7. /\ CountsAddUp' /\ pool' \in Pool /\ Sound(pool', ActiveMap')
      /\ \A x \in Runtimes : PagesOf(x) \subseteq Listed(pool', ActiveMap', x)
  BY <1>1, <1>6, KeptGoOn
<1>8. /\ code \in [Functions -> SUBSET Pages] /\ home \in [Functions -> Runtimes \cup {NoOwner}]
      /\ runtimes \in [Runtimes -> {"new", "live", "freed"}] /\ comp.used \in SUBSET Pages
  BY DEF IInv, PagesTypeOK
<1>9. r \in Runtimes /\ runtimes[r] = "live" /\ comp.used \subseteq PagesOf(r)
  BY <1>1, FunctionFacts DEF IInv, CodeKept
<1>. HIDE DEF r, less
<1>10. FunctionsKept'
  <2>. SUFFICES ASSUME NEW f \in Functions, code'[f] # {}
                PROVE  /\ home'[f] \in Runtimes /\ runtimes'[home'[f]] = "live"
                       /\ code'[f] \subseteq Listed(pool', ActiveMap', home'[f])
    BY FunctionsAreKept
  <2>1. CASE f = comp.what
    <3>1. code'[f] = comp.used /\ home'[f] = r
      BY <1>1, <1>8, <2>1
    <3>. QED  BY <1>1, <1>7, <1>9, <3>1
  <2>2. CASE f # comp.what
    <3>1. code'[f] = code[f] /\ home'[f] = home[f]
      BY <1>1, <1>8, <2>2
    <3>. QED  BY <1>1, <1>7, <3>1 DEF IInv, CodeKept
  <2>. QED  BY <2>1, <2>2
<1>11. code' \in [Functions -> SUBSET Pages] /\ home' \in [Functions -> Runtimes \cup {NoOwner}]
  BY <1>1, <1>8, <1>9
<1>. QED  BY <1>1, <1>4, <1>5, <1>7, <1>8, <1>10, <1>11, Assembled

\* The four lines are written on a page that is given back at once.
LEMMA LinkRawStep ==
  ASSUME IInv, NEW r \in Runtimes, NEW f \in Functions, LinkRaw(r, f)
  PROVE  IInv'
<1>1. /\ runtimes[r] = "live" /\ home[f] \in {r, NoOwner} /\ ~Compiling
      /\ UNCHANGED <<comp, lost, torn, runtimes>>
      /\ r \in Owners /\ 4 \in Nat
  BY Facts DEF LinkRaw
<1>2. PICK a \in AcquireWithCapacity(pool, r, 4) :
        IF a.page = Failed
        THEN UNCHANGED <<pool, code, home>>
        ELSE /\ pool' = Release(EmitWords(a.pool, a.page, 4), r, {a.page})
             /\ code' = [code EXCEPT ![f] = {a.page}]
             /\ home' = [home EXCEPT ![f] = r]
  BY DEF LinkRaw
<1>3. comp' = Idle /\ lost' \in Acts /\ lost'[Temp] = {} /\ torn' \in BOOLEAN
  BY <1>1, IdleFacts
<1>4. comp' \in Compilations /\ Shape' /\ ActiveMap' = lost' /\ RoomForBridge' /\ UsedKept'
  BY <1>3, NowIdle
<1>5. ActiveMap' = ActiveMap
  BY <1>1, <1>4, IdleFacts
<1>6. CASE a.page = Failed
  <2>1. pool' = pool /\ UNCHANGED <<code, home, runtimes>>
    BY <1>1, <1>2, <1>6
  <2>2. Goes(pool, ActiveMap, pool', ActiveMap', Runtimes)
    BY <1>5, <2>1, Facts DEF Goes
  <2>. QED  BY <1>3, <1>4, <2>1, <2>2, AssembledStill
<1>7. CASE a.page # Failed
  <2>. DEFINE p == a.page
              more == [ActiveMap EXCEPT ![r] = @ \cup {p}]
              t == EmitWords(a.pool, p, 4)
  <2>1. /\ p \in Pages /\ \A q \in Owners : p \notin ActiveMap[q]
        /\ Goes(pool, ActiveMap, a.pool, more, Owners)
    <3>1. a.page \in Pages \cup {NoPage} /\ a.page # NoPage
      BY <1>1, <1>7, Facts, Acquiring DEF Failed
    <3>. QED  BY <1>1, <3>1, Facts, Acquiring
  <2>2. a.pool \in Pool /\ more \in Acts /\ Sound(a.pool, more)
    BY <2>1 DEF Goes
  <2>3. {p} \in SUBSET more[r]
    BY <1>1, Facts DEF Acts
  <2>4. [more EXCEPT ![r] = @ \ {p}] = ActiveMap
    <3>1. \A q \in Owners : [more EXCEPT ![r] = @ \ {p}][q] = ActiveMap[q]
      BY <1>1, <2>1, Facts DEF Acts
    <3>. QED  BY <3>1, Facts DEF Acts
  <2>5. pool' = Release(t, r, {p}) /\ code' = [code EXCEPT ![f] = {p}] /\ home' = [home EXCEPT ![f] = r]
    BY <1>2, <1>7
  <2>. HIDE DEF p, more
  <2>6. Goes(a.pool, more, t, more, Owners)
    BY <1>1, <2>1, <2>2, Emitting
  <2>. HIDE DEF t
  <2>7. Goes(pool, ActiveMap, t, more, Owners)
    BY <2>1, <2>6, GoesOn
  <2>8. t \in Pool /\ Sound(t, more) /\ Counted(t, more, r)
    BY <1>1, <2>7, Facts DEF Goes
  <2>9. Goes(t, more, pool', ActiveMap, Owners)
    BY <1>1, <2>2, <2>3, <2>4, <2>5, <2>8, Releasing
  <2>10. Goes(pool, ActiveMap, pool', ActiveMap', Owners)
    BY <1>5, <2>7, <2>9, GoesOn
  <2>11. Goes(pool, ActiveMap, pool', ActiveMap', Runtimes)
    BY <2>10, Facts DEF Goes
  <2>12. p \in Listed(pool', ActiveMap', r)
    BY <1>1, <1>5, <2>3, <2>9 DEF Goes, Listed
  <2>13. /\ CountsAddUp' /\ pool' \in Pool /\ Sound(pool', ActiveMap')
         /\ \A x \in Runtimes : PagesOf(x) \subseteq Listed(pool', ActiveMap', x)
    BY <1>1, <2>11, KeptGoOn
  <2>14. FunctionsKept'
    <3>. SUFFICES ASSUME NEW g \in Functions, code'[g] # {}
                  PROVE  /\ home'[g] \in Runtimes /\ runtimes'[home'[g]] = "live"
                         /\ code'[g] \subseteq Listed(pool', ActiveMap', home'[g])
      BY FunctionsAreKept
    <3>1. CASE g = f
      <4>1. code'[g] = {p} /\ home'[g] = r
        BY <1>1, <2>5, <3>1, IdleFacts
      <4>. QED  BY <1>1, <2>12, <4>1
    <3>2. CASE g # f
      <4>1. code'[g] = code[g] /\ home'[g] = home[g]
        BY <1>1, <2>5, <3>2, IdleFacts
      <4>. QED  BY <1>1, <2>13, <4>1 DEF IInv, CodeKept
    <3>. QED  BY <3>1, <3>2
  <2>15. code' \in [Functions -> SUBSET Pages] /\ home' \in [Functions -> Runtimes \cup {NoOwner}]
         /\ runtimes' \in [Runtimes -> {"new", "live", "freed"}]
    BY <1>1, <2>1, <2>5, IdleFacts
  <2>. QED  BY <1>3, <1>4, <2>13, <2>14, <2>15, Assembled
<1>. QED  BY <1>6, <1>7

LEMMA NewRuntimeStep ==
  ASSUME IInv, NEW r \in Runtimes, NewRuntime(r)
  PROVE  IInv'
<1>1. /\ runtimes[r] = "new" /\ ~Compiling /\ runtimes' = [runtimes EXCEPT ![r] = "live"]
      /\ UNCHANGED <<pool, comp, lost, torn, code, home>>
  BY DEF NewRuntime
<1>2. comp' = Idle /\ lost' \in Acts /\ lost'[Temp] = {} /\ torn' \in BOOLEAN
  BY <1>1, IdleFacts
<1>3. comp' \in Compilations /\ Shape' /\ ActiveMap' = lost' /\ RoomForBridge' /\ UsedKept'
  BY <1>2, NowIdle
<1>4. ActiveMap' = ActiveMap
  BY <1>1, <1>3, IdleFacts
<1>5. \A x \in Owners : ActiveMap'[x] = Active(x)'
  BY DEF ActiveMap
<1>6. CountsAddUp'
  <2>. SUFFICES ASSUME NEW x \in Owners, x = Temp \/ runtimes'[x] # "freed"
                PROVE  Counted(pool, ActiveMap, x)
    BY <1>1, <1>4, <1>5 DEF CountsAddUp, Counted
  <2>1. x = Temp \/ runtimes[x] # "freed"
    BY <1>1, IdleFacts DEF Owners
  <2>. QED  BY <2>1, Facts
<1>7. FunctionsKept'
  <2>. SUFFICES ASSUME NEW f \in Functions, code[f] # {}
                PROVE  /\ home[f] \in Runtimes /\ runtimes'[home[f]] = "live"
                       /\ code[f] \subseteq Listed(pool, ActiveMap, home[f])
    BY <1>1, <1>4, FunctionsAreKept
  <2>1. /\ home[f] \in Runtimes /\ runtimes[home[f]] = "live" /\ code[f] \subseteq PagesOf(home[f])
    BY DEF IInv, CodeKept
  <2>2. PagesOf(home[f]) = Listed(pool, ActiveMap, home[f])
    BY <2>1, Facts DEF PagesOf, Listed
  <2>3. runtimes'[home[f]] = "live"
    BY <1>1, <2>1, IdleFacts
  <2>. QED  BY <2>1, <2>2, <2>3
<1>8. /\ code' \in [Functions -> SUBSET Pages] /\ home' \in [Functions -> Runtimes \cup {NoOwner}]
      /\ runtimes' \in [Runtimes -> {"new", "live", "freed"}]
      /\ pool' \in Pool /\ Sound(pool', ActiveMap')
  BY <1>1, <1>4, IdleFacts, Facts
<1>. QED  BY <1>2, <1>3, <1>6, <1>7, <1>8, Assembled

\* The functions of the runtime are gone, and its pages the environment's.
LEMMA FreeRuntimeStep ==
  ASSUME IInv, NEW r \in Runtimes, FreeRuntime(r)
  PROVE  IInv'
<1>1. /\ runtimes[r] = "live" /\ ~Compiling /\ runtimes' = [runtimes EXCEPT ![r] = "freed"]
      /\ pool' = RuntimeRelease(pool, r)
      /\ code' = [f \in Functions |-> IF home[f] = r THEN {} ELSE code[f]]
      /\ home' = [f \in Functions |-> IF home[f] = r THEN NoOwner ELSE home[f]]
      /\ UNCHANGED <<comp, lost, torn>> /\ r \in Owners /\ r # Temp
  BY Facts DEF FreeRuntime
<1>2. comp' = Idle /\ lost' \in Acts /\ lost'[Temp] = {} /\ torn' \in BOOLEAN
  BY <1>1, IdleFacts
<1>3. comp' \in Compilations /\ Shape' /\ ActiveMap' = lost' /\ RoomForBridge' /\ UsedKept'
  BY <1>2, NowIdle
<1>4. ActiveMap' = ActiveMap
  BY <1>1, <1>3, IdleFacts
<1>5. \A x \in Owners : ActiveMap'[x] = Active(x)'
  BY DEF ActiveMap
<1>6. /\ pool' \in Pool /\ Sound(pool', ActiveMap)
      /\ \A q \in Owners \ {r} : /\ Counted(pool, ActiveMap, q) => Counted(pool', ActiveMap, q)
                                 /\ Listed(pool', ActiveMap, q) = Listed(pool, ActiveMap, q)
  BY <1>1, Facts, Recycling
<1>7. CountsAddUp'
  <2>. SUFFICES ASSUME NEW x \in Owners, x = Temp \/ runtimes'[x] # "freed"
                PROVE  Counted(pool', ActiveMap, x)
    BY <1>4, <1>5 DEF CountsAddUp, Counted
  <2>1. x # r /\ (x = Temp \/ runtimes[x] # "freed")
    BY <1>1, IdleFacts DEF Owners
  <2>. QED  BY <1>6, <2>1, Facts
<1>8. FunctionsKept'
  <2>. SUFFICES ASSUME NEW f \in Functions, code'[f] # {}
                PROVE  /\ home'[f] \in Runtimes /\ runtimes'[home'[f]] = "live"
                       /\ code'[f] \subseteq Listed(pool', ActiveMap', home'[f])
    BY FunctionsAreKept
  <2>1. home[f] # r /\ code'[f] = code[f] /\ home'[f] = home[f]
    BY <1>1
  <2>2. /\ home[f] \in Runtimes /\ runtimes[home[f]] = "live" /\ code[f] \subseteq PagesOf(home[f])
    BY <2>1 DEF IInv, CodeKept
  <2>3. PagesOf(home[f]) = Listed(pool, ActiveMap, home[f]) /\ home[f] \in Owners
    BY <2>2, Facts DEF PagesOf, Listed
  <2>4. Listed(pool', ActiveMap', home[f]) = Listed(pool, ActiveMap, home[f])
    BY <1>4, <1>6, <2>1, <2>3
  <2>5. runtimes'[home[f]] = "live"
    BY <1>1, <2>1, <2>2, IdleFacts
  <2>. QED  BY <2>1, <2>2, <2>3, <2>4, <2>5
<1>9. code' \in [Functions -> SUBSET Pages] /\ home' \in [Functions -> Runtimes \cup {NoOwner}]
  <2>1. code \in [Functions -> SUBSET Pages] /\ home \in [Functions -> Runtimes \cup {NoOwner}]
    BY <1>1, IdleFacts
  <2>. QED  BY <1>1, <2>1
<1>10. runtimes' \in [Runtimes -> {"new", "live", "freed"}] /\ Sound(pool', ActiveMap')
  BY <1>1, <1>4, <1>6, IdleFacts
<1>. QED  BY <1>2, <1>3, <1>6, <1>7, <1>8, <1>9, <1>10, Assembled

-----------------------------------------------------------------------------
(* The invariant holds.                                                    *)

LEMMA InitIInv == PagesInit => IInv
<1>. SUFFICES ASSUME PagesInit PROVE IInv
  OBVIOUS
<1>1. /\ pool.released = {} /\ pool.open = [r \in Owners |-> {}] /\ pool.full = [r \in Owners |-> {}]
      /\ pool.numCode = [r \in Owners |-> 0] /\ pool.numActive = [r \in Owners |-> 0]
      /\ pool.line = [p \in Pages |-> 0] /\ pool.size = [p \in Pages |-> 0] /\ pool \in Pool
  BY DEF PagesInit, Pool
<1>2. /\ comp = Idle /\ lost = [r \in Owners |-> {}] /\ torn = FALSE /\ code = [f \in Functions |-> {}]
      /\ home = [f \in Functions |-> NoOwner] /\ runtimes = [r \in Runtimes |-> "new"]
  BY DEF PagesInit
<1>3. ~Compiling /\ comp \in Compilations /\ Temp \in Owners /\ NoOwner \notin Owners
  BY <1>2, PagesAssumption DEF Compiling, Idle, Compilations, Owners
<1>4. PagesTypeOK
  BY <1>1, <1>2, <1>3 DEF PagesTypeOK, Pool, Compilations
<1>5. \A r \in Owners : Active(r) = {}
  BY <1>2, <1>3 DEF Active, Idle
<1>6. ActiveMap = [r \in Owners |-> {}]
  BY <1>5 DEF ActiveMap
<1>7. Sound(pool, ActiveMap)
  BY <1>1, <1>6 DEF Sound, Listed
<1>8. CountsAddUp
  <2>1. Cardinality({}) = 0
    BY FS_EmptySet
  <2>. QED  BY <1>1, <1>5, <2>1 DEF CountsAddUp
<1>9. Shape /\ RoomForBridge /\ CodeKept
  BY <1>2, <1>3 DEF Shape, RoomForBridge, CodeKept
<1>. QED  BY <1>4, <1>7, <1>8, <1>9 DEF IInv

LEMMA NextIInv == IInv /\ [PagesNext]_pageVars => IInv'
<1>. SUFFICES ASSUME IInv, [PagesNext]_pageVars PROVE IInv'
  OBVIOUS
<1>1. ASSUME NEW n \in OpWords, EmitOp(n) PROVE IInv'
  BY <1>1, EmitOpStep
<1>2. ASSUME NEW n \in OpWords, EmitOpUnchecked(n) PROVE IInv'
  BY <1>2, EmitOpUncheckedStep
<1>3. ASSUME NEW n \in 0..MaxTargets, BeginTable(n) PROVE IInv'
  BY <1>3, BeginTableStep
<1>4. CASE BeginTarget
  BY <1>4, BeginTargetStep
<1>5. CASE EndTarget
  BY <1>5, EndTargetStep
<1>6. CASE BeginElse
  BY <1>6, BeginElseStep
<1>7. CASE EndElse
  BY <1>7, EndElseStep
<1>8. CASE Throw
  BY <1>8, AbandonStep DEF Throw, Within
<1>9. CASE EndFunction
  BY <1>9, EndFunctionStep
<1>10. ASSUME NEW r \in Runtimes, NEW f \in Functions, BeginFunction(r, f) PROVE IInv'
  BY <1>10, BeginFunctionStep
<1>11. ASSUME NEW r \in Runtimes, NEW f \in Functions, LinkRaw(r, f) PROVE IInv'
  BY <1>11, LinkRawStep
<1>12. CASE BeginExpression
  BY <1>12, BeginExpressionStep
<1>13. CASE EndExpression
  BY <1>13, EndExpressionStep
<1>14. ASSUME NEW r \in Runtimes, NewRuntime(r) PROVE IInv'
  BY <1>14, NewRuntimeStep
<1>15. ASSUME NEW r \in Runtimes, FreeRuntime(r) PROVE IInv'
  BY <1>15, FreeRuntimeStep
<1>16. CASE UNCHANGED pageVars
  <2>1. UNCHANGED <<pool, comp, lost, torn, code, home, runtimes>>
    BY <1>16 DEF pageVars
  <2>2. \A r \in Owners : Active(r)' = Active(r)
    BY <2>1 DEF Active, Held, Outer
  <2>3. ActiveMap' = ActiveMap
    BY <2>2 DEF ActiveMap
  <2>4. PagesTypeOK'
    BY <2>1 DEF IInv, PagesTypeOK
  <2>5. Shape'
    BY <2>1 DEF IInv, Shape, Compiling, Held, Outer
  <2>6. Sound(pool', ActiveMap')
    BY <2>1, <2>3, Facts
  <2>7. CountsAddUp'
    BY <2>1, <2>2 DEF IInv, CountsAddUp
  <2>8. RoomForBridge'
    BY <2>1 DEF IInv, RoomForBridge, Compiling, Held, Outer, Free
  <2>9. CodeKept'
    <3>1. IInv => CodeKept
      BY DEF IInv
    <3>. QED  BY <2>1, <3>1 DEF CodeKept, PagesOf, Compiling, Active, Held, Outer
  <2>. QED  BY <2>4, <2>5, <2>6, <2>7, <2>8, <2>9 DEF IInv
<1>. QED
  BY <1>1, <1>2, <1>3, <1>4, <1>5, <1>6, <1>7, <1>8, <1>9, <1>10, <1>11, <1>12, <1>13, <1>14, <1>15, <1>16
     DEF PagesNext

\* The invariant, in every state the pages are ever in.
THEOREM Invariant == PagesSpec => []IInv
BY InitIInv, NextIInv, PTL DEF PagesSpec

\* The lists, the counters and the compilation always have their types.
THEOREM TypesHold == PagesSpec => []PagesTypeOK
<1>1. IInv => PagesTypeOK
  BY DEF IInv
<1>. QED  BY <1>1, Invariant, PTL

\* A page is in one list or in the hands of one compilation, whatever is
\* compiled, abandoned and freed in whatever order.
THEOREM OwnedOnce == PagesSpec => []PagesOwnedOnce
<1>1. ASSUME IInv PROVE PagesOwnedOnce
  <2>1. \A r \in Owners : PagesOf(r) = Listed(pool, ActiveMap, r) /\ Active(r) = ActiveMap[r]
    BY <1>1, Facts DEF PagesOf, Listed
  <2>2. \A r \in Owners : PagesOf(r) \subseteq Pages
    BY <1>1, <2>1, Facts DEF Listed, Pool, Acts
  <2>3. ASSUME NEW r \in Owners
        PROVE  /\ pool.open[r] \cap pool.full[r] = {}
               /\ (pool.open[r] \cup pool.full[r]) \cap Active(r) = {}
               /\ PagesOf(r) \cap pool.released = {}
               /\ \A q \in Owners \ {r} : PagesOf(r) \cap PagesOf(q) = {}
    BY <1>1, <2>1, <2>2, Facts DEF Sound, Listed
  <2>4. Compiling =>
          /\ lost[comp.in] \cap Held(comp) = {}
          /\ comp.page \notin Outer(comp) \cup {comp.back} /\ comp.back \notin Outer(comp)
          /\ \A i, j \in DOMAIN comp.outer : comp.outer[i] = comp.outer[j] => i = j
    BY <1>1 DEF IInv, Shape
  <2>. QED  BY <2>3, <2>4 DEF PagesOwnedOnce
<1>. QED  BY <1>1, Invariant, PTL

\* The counters of a runtime agree with its lists, also after a compilation
\* that ran out of memory in the middle of a table.
THEOREM CountsHold == PagesSpec => []CountsAddUp
<1>1. IInv => CountsAddUp
  BY DEF IInv
<1>. QED  BY <1>1, Invariant, PTL

\* As long as no operation is left out for want of memory, there is room for
\* the operation that leads on from each page a compilation holds.
THEOREM RoomHolds == PagesSpec => []RoomForBridge
<1>1. IInv => RoomForBridge
  BY DEF IInv
<1>. QED  BY <1>1, Invariant, PTL

\* The pages with the code of a function stay its runtime's until the runtime
\* is freed.
THEOREM CodeStays == PagesSpec => []CodeKept
<1>1. IInv => CodeKept
  BY DEF IInv
<1>. QED  BY <1>1, Invariant, PTL

-------------------------------------------------------------------------------
(* The frames of the interpreter.                                          *)

Searches == [k : {"load"}, m : Modules, n : Int] \cup [k : {"compile"}, f : Functions, then : {"find"}]
Compiles == [k : {"compile"}, f : Functions, then : {"find", "start", "site", "indirect"}]
Entries == [k : {"call"}, f : Functions] \cup [k : {"start"}, m : Modules]
Codes == [k : {"wasm", "loop", "raw"}, f : Functions, mem : Nat]
Frames == Searches \cup Compiles \cup Entries \cup Codes

Under(s, i, kinds) == i > 1 /\ s[i - 1].k \in kinds
ByHost(s, i) == i = 1 \/ Under(s, i, {"raw"})
Entry(s, i) == \E j \in 1..(i - 1) : s[j].k \in {"call", "start"}
InLoop(s, i) == \E j \in 1..(i - 1) : s[j].k = "wasm" /\ \A l \in (j + 1)..(i - 1) : s[l].k = "loop"

\* What the i-th frame of s may be, from those below it.
Fits(s, i, frame) ==
  /\ frame.k \in {"load", "call"} => ByHost(s, i)
  /\ frame.k = "start" => ByHost(s, i) \/ Under(s, i, {"call"})
  /\ frame.k = "wasm" => Under(s, i, {"call", "start", "wasm", "loop"}) /\ Entry(s, i)
  /\ frame.k = "raw" => Under(s, i, {"call", "wasm", "loop"}) /\ Entry(s, i)
  /\ frame.k = "loop" => Under(s, i, {"wasm", "loop"}) /\ Entry(s, i) /\ InLoop(s, i)
  /\ frame.k = "compile" =>
       \/ frame.then = "find" /\ ByHost(s, i)
       \/ frame.then = "start" /\ Under(s, i, {"start"}) /\ frame.f = StartOf[s[i - 1].m]
       \/ /\ frame.then \in {"site", "indirect"} /\ Under(s, i, {"wasm", "loop"}) /\ Entry(s, i)
          /\ ModuleOf[frame.f] = ModuleOf[s[i - 1].f]

Ordered(s) == s \in Seq(Frames) /\ \A i \in 1..Len(s) : Fits(s, i, s[i])

\* Frames of code are of functions that have code, start frames of modules
\* that are loaded.
Backed(frame) ==
  /\ frame.k \in {"call", "wasm", "loop", "raw"} => CompiledFn(frame.f)
  /\ frame.k = "start" => mods[frame.m].state = "listed"

\* Frames under which code runs.
Running(s, i) == i < Len(s) /\ s[i + 1].k \in {"wasm", "raw"}
StartsKept(s, st) ==
  /\ \A i \in 1..Len(s) : s[i].k = "call" /\ Running(s, i) => st[ModuleOf[s[i].f]] # "pending"
  /\ \A i, j \in 1..Len(s) : s[i].k = "start" /\ s[j].k = "start" /\ s[i].m = s[j].m => i = j
  /\ \A i, j \in 1..Len(s) :
       i < j /\ s[i].k = "call" /\ Running(s, i) /\ s[j].k = "start" => ModuleOf[s[i].f] # s[j].m
  /\ \A i \in 1..Len(s) : s[i].k = "start" /\ Running(s, i) => st[s[i].m] = "running"

ModsKept ==
  /\ \A m \in Modules :
       /\ mods[m].state = "listed" => mods[m].in \in Runtimes
       /\ mods[m].state = "parsed" /\ mods[m].in # NoOwner => Kind = "load" /\ Top.m = m
       /\ mods[m].state = "freed" => mods[m].in = NoOwner
  /\ \A f \in Functions : CompiledFn(f) => home[f] = InMod(f) /\ mods[ModuleOf[f]].state = "listed"
  /\ Kind = "load" => mods[Top.m].state = "parsed" /\ mods[Top.m].in \in Runtimes

CompilesTop ==
  /\ Compiling => comp.used # {} /\ Kind = (IF comp.what = "expression" THEN "load" ELSE "compile")
  /\ Kind = "compile" =>
       comp.what = Top.f /\ comp.in = InMod(Top.f) /\ mods[ModuleOf[Top.f]].state = "listed"

IsFresh(frame) == frame.mem = memory[home[frame.f]]
FreshTop ==
  /\ Kind \in {"wasm", "loop"} => IsFresh(Top)
  /\ Kind = "compile" /\ Top.then \in {"site", "indirect"} => IsFresh(stack[Len(stack) - 1])

RunTypes ==
  /\ mods \in [Modules -> [in : Runtimes \cup {NoOwner}, state : {"parsed", "listed", "freed"}]]
  /\ start \in [Modules -> {"none", "pending", "running", "done"}]
  /\ memory \in [Runtimes -> Nat]

\* The operations op_Call that have code to go to.
SitesKept ==
  /\ site \in [Functions -> [Functions -> {"none", "compile", "code", "function"}]]
  /\ \A f, g \in Functions :
       site[f][g] = "code" => CompiledFn(f) /\ CompiledFn(g) /\ ModuleOf[f] = ModuleOf[g]

RunInv ==
  /\ RunTypes /\ Ordered(stack) /\ \A i \in 1..Len(stack) : Backed(stack[i])
  /\ StartsKept(stack, start) /\ ModsKept /\ CompilesTop /\ FreshTop

-----------------------------------------------------------------------------
(* Stacks.                                                                 *)

LEMMA FrameIs ==
  ASSUME NEW x \in Frames
  PROVE  /\ x.k \in {"load", "compile", "call", "start", "wasm", "loop", "raw"}
         /\ x.k = "load" => x.m \in Modules /\ x.n \in Int /\ x = [k |-> "load", m |-> x.m, n |-> x.n]
         /\ x.k = "compile" => x.f \in Functions /\ x.then \in {"find", "start", "site", "indirect"}
         /\ x.k = "call" => x.f \in Functions
         /\ x.k = "start" => x.m \in Modules
         /\ x.k \in {"wasm", "loop", "raw"} => x.f \in Functions /\ x.mem \in Nat
         /\ x.k \in {"wasm", "loop", "raw"} => x = [k |-> x.k, f |-> x.f, mem |-> x.mem]
BY DEF Frames, Searches, Compiles, Entries, Codes

LEMMA IsFrame ==
  /\ \A m \in Modules, n \in Int : [k |-> "load", m |-> m, n |-> n] \in Frames
  /\ \A f \in Functions, then \in {"find", "start", "site", "indirect"} :
       [k |-> "compile", f |-> f, then |-> then] \in Frames
  /\ \A f \in Functions : [k |-> "call", f |-> f] \in Frames
  /\ \A m \in Modules : [k |-> "start", m |-> m] \in Frames
  /\ \A kind \in {"wasm", "loop", "raw"}, f \in Functions, mem \in Nat : Frame(kind, f, mem) \in Frames
BY DEF Frames, Searches, Compiles, Entries, Codes, Frame

LEMMA Prefix ==
  ASSUME NEW S, NEW s \in Seq(S), NEW n \in 0..Len(s)
  PROVE  /\ SubSeq(s, 1, n) \in Seq(S) /\ Len(SubSeq(s, 1, n)) = n
         /\ \A i \in 1..n : SubSeq(s, 1, n)[i] = s[i]
OBVIOUS

LEMMA Pushed ==
  ASSUME NEW S, NEW s \in Seq(S), NEW x \in S
  PROVE  /\ Append(s, x) \in Seq(S) /\ Len(Append(s, x)) = Len(s) + 1
         /\ \A i \in 1..Len(s) : Append(s, x)[i] = s[i]
         /\ Append(s, x)[Len(s) + 1] = x
OBVIOUS

\* Only the frames below matter.
LEMMA FitsAgain ==
  ASSUME NEW s, NEW t, NEW i \in Nat \ {0}, \A j \in 1..(i - 1) : t[j] = s[j], NEW x, Fits(s, i, x)
  PROVE  Fits(t, i, x)
<1>1. \A kinds : Under(s, i, kinds) => i > 1 /\ i - 1 \in 1..(i - 1) /\ t[i - 1] = s[i - 1] /\ Under(t, i, kinds)
  BY DEF Under
<1>2. ByHost(s, i) => ByHost(t, i)
  BY <1>1 DEF ByHost
<1>3. Entry(s, i) => Entry(t, i)
  BY DEF Entry
<1>4. InLoop(s, i) => InLoop(t, i)
  <2>. SUFFICES ASSUME InLoop(s, i) PROVE InLoop(t, i)
    OBVIOUS
  <2>1. PICK j \in 1..(i - 1) : s[j].k = "wasm" /\ \A l \in (j + 1)..(i - 1) : s[l].k = "loop"
    BY DEF InLoop
  <2>2. \A l \in (j + 1)..(i - 1) : l \in 1..(i - 1) /\ t[l] = s[l]
    OBVIOUS
  <2>3. t[j].k = "wasm" /\ \A l \in (j + 1)..(i - 1) : t[l].k = "loop"
    BY <2>1, <2>2
  <2>. QED  BY <2>3 DEF InLoop
<1>. QED  BY <1>1, <1>2, <1>3, <1>4 DEF Fits

LEMMA OrderedPrefix ==
  ASSUME NEW s, Ordered(s), NEW n \in 0..Len(s)
  PROVE  Ordered(SubSeq(s, 1, n))
<1>. DEFINE t == SubSeq(s, 1, n)
<1>1. t \in Seq(Frames) /\ Len(t) = n /\ \A i \in 1..n : t[i] = s[i]
  BY Prefix DEF Ordered
<1>2. ASSUME NEW i \in 1..n PROVE Fits(t, i, t[i])
  <2>1. i \in 1..Len(s) /\ i \in Nat \ {0} /\ Fits(s, i, t[i])
    BY <1>1 DEF Ordered
  <2>2. \A j \in 1..(i - 1) : t[j] = s[j]
    BY <1>1
  <2>. QED  BY <2>1, <2>2, FitsAgain
<1>. QED  BY <1>1, <1>2 DEF Ordered

LEMMA OrderedPush ==
  ASSUME NEW s, Ordered(s), NEW x \in Frames, Fits(s, Len(s) + 1, x)
  PROVE  Ordered(Append(s, x))
<1>. DEFINE t == Append(s, x)
<1>1. /\ t \in Seq(Frames) /\ Len(t) = Len(s) + 1 /\ Len(s) \in Nat
      /\ \A i \in 1..Len(s) : t[i] = s[i]
      /\ t[Len(s) + 1] = x
  BY Pushed DEF Ordered
<1>2. ASSUME NEW i \in 1..Len(t) PROVE Fits(t, i, t[i])
  <2>1. \A j \in 1..(i - 1) : t[j] = s[j]
    BY <1>1
  <2>2. i \in Nat \ {0} /\ Fits(s, i, t[i])
    BY <1>1 DEF Ordered
  <2>. QED  BY <2>1, <2>2, FitsAgain
<1>. QED  BY <1>1, <1>2 DEF Ordered

LEMMA KeptPrefix ==
  ASSUME NEW s, NEW st, Ordered(s), StartsKept(s, st), NEW n \in 0..Len(s)
  PROVE  StartsKept(SubSeq(s, 1, n), st)
<1>. DEFINE t == SubSeq(s, 1, n)
<1>1. Len(s) \in Nat /\ Len(t) = n /\ \A i \in 1..n : t[i] = s[i] /\ i \in 1..Len(s)
  BY Prefix DEF Ordered
<1>2. \A i \in 1..n : Running(t, i) => Running(s, i)
  BY <1>1 DEF Running
<1>. HIDE DEF t
<1>3. StartsKept(t, st)
  BY <1>1, <1>2 DEF StartsKept
<1>. QED  BY <1>3 DEF t

\* A frame may come on top that begins nothing; a start function that nothing
\* else has begun; or code for which the start function need not run first.
LEMMA KeptPush ==
  ASSUME NEW s, NEW st, Ordered(s), StartsKept(s, st), NEW x \in Frames,
         x.k = "start" => \A i \in 1..Len(s) :
           /\ s[i].k = "start" => s[i].m # x.m
           /\ s[i].k = "call" /\ Running(s, i) => ModuleOf[s[i].f] # x.m,
         x.k \in {"wasm", "raw"} /\ s # <<>> =>
           /\ s[Len(s)].k = "call" => st[ModuleOf[s[Len(s)].f]] # "pending"
           /\ s[Len(s)].k = "start" => st[s[Len(s)].m] = "running"
  PROVE  StartsKept(Append(s, x), st)
<1>. DEFINE t == Append(s, x)
            n == Len(s)
<1>1. /\ n \in Nat /\ Len(t) = n + 1 /\ \A i \in 1..n : t[i] = s[i]
      /\ t[n + 1] = x /\ (n > 0 => s # <<>>)
  BY Pushed DEF Ordered
<1>2. ASSUME NEW i \in 1..(n + 1), Running(t, i)
      PROVE  i \in 1..n /\ (Running(s, i) \/ (i = n /\ x.k \in {"wasm", "raw"}))
  <2>1. i \in 1..n /\ t[i + 1].k \in {"wasm", "raw"} /\ (i < n => i + 1 \in 1..n)
    BY <1>1, <1>2 DEF Running
  <2>. QED  BY <1>1, <2>1 DEF Running
<1>. HIDE DEF t
<1>3. ASSUME NEW i \in 1..Len(t), t[i].k = "call", Running(t, i) PROVE st[ModuleOf[t[i].f]] # "pending"
  BY <1>1, <1>2, <1>3 DEF StartsKept
<1>4. ASSUME NEW i \in 1..Len(t), NEW j \in 1..Len(t), t[i].k = "start", t[j].k = "start", t[i].m = t[j].m
      PROVE  i = j
  BY <1>1, <1>4 DEF StartsKept
<1>5. ASSUME NEW i \in 1..Len(t), NEW j \in 1..Len(t), i < j, t[i].k = "call", Running(t, i), t[j].k = "start"
      PROVE  ModuleOf[t[i].f] # t[j].m
  BY <1>1, <1>2, <1>5 DEF StartsKept
<1>6. ASSUME NEW i \in 1..Len(t), t[i].k = "start", Running(t, i) PROVE st[t[i].m] = "running"
  BY <1>1, <1>2, <1>6 DEF StartsKept
<1>7. StartsKept(t, st)
  BY <1>3, <1>4, <1>5, <1>6 DEF StartsKept
<1>. QED  BY <1>7 DEF t

\* Frames of another kind do not matter.
LEMMA KeptSame ==
  ASSUME NEW s, NEW t, NEW st, StartsKept(s, st), Len(t) = Len(s), Len(s) \in Nat,
         \A i \in 1..Len(s) :
           /\ t[i].k = s[i].k
           /\ t[i].k \in {"call", "start"} => t[i] = s[i]
  PROVE  StartsKept(t, st)
<1>1. ASSUME NEW i \in 1..Len(s), Running(t, i) PROVE Running(s, i)
  <2>1. i + 1 \in 1..Len(s) /\ i < Len(s) /\ t[i + 1].k \in {"wasm", "raw"}
    BY <1>1 DEF Running
  <2>. QED  BY <2>1 DEF Running
<1>2. ASSUME NEW i \in 1..Len(t), t[i].k \in {"call", "start"}
      PROVE  i \in 1..Len(s) /\ t[i] = s[i]
  BY <1>2
<1>3. \A i \in 1..Len(t) : t[i].k = "call" /\ Running(t, i) => st[ModuleOf[t[i].f]] # "pending"
  BY <1>1, <1>2 DEF StartsKept
<1>4. \A i, j \in 1..Len(t) : t[i].k = "start" /\ t[j].k = "start" /\ t[i].m = t[j].m => i = j
  BY <1>2 DEF StartsKept
<1>5. \A i, j \in 1..Len(t) :
        i < j /\ t[i].k = "call" /\ Running(t, i) /\ t[j].k = "start" => ModuleOf[t[i].f] # t[j].m
  BY <1>1, <1>2 DEF StartsKept
<1>6. \A i \in 1..Len(t) : t[i].k = "start" /\ Running(t, i) => st[t[i].m] = "running"
  BY <1>1, <1>2 DEF StartsKept
<1>. QED  BY <1>3, <1>4, <1>5, <1>6 DEF StartsKept

LEMMA HasMax ==
  ASSUME NEW n \in Nat, NEW T \in SUBSET (1..n), T # {}
  PROVE  Max(T) \in T /\ \A j \in T : j <= Max(T)
<1>. DEFINE D == {n - j : j \in T}
<1>1. D \subseteq Nat /\ D # {}
  <2>1. \A j \in T : j \in Nat /\ n - j \in Nat /\ n - j \in D
    OBVIOUS
  <2>2. \A d \in D : \E j \in T : d = n - j
    OBVIOUS
  <2>. QED  BY <2>1, <2>2
<1>2. IsWellFoundedOn(OpToRel(<, Nat), Nat)
  BY NatLessThanWellFounded
<1>3. PICK d \in D : \A e \in D : <<e, d>> \notin OpToRel(<, Nat)
  BY <1>1, <1>2, WFMin
<1>4. \A e \in D : ~(e < d)
  BY <1>1, <1>3 DEF OpToRel
<1>5. PICK x \in T : d = n - x
  OBVIOUS
<1>6. \A y \in T : x >= y
  <2>1. ASSUME NEW y \in T PROVE x >= y
    <3>1. n - y \in D /\ x \in Nat /\ y \in Nat
      OBVIOUS
    <3>2. ~(n - y < n - x)
      BY <1>4, <1>5, <3>1
    <3>. QED  BY <3>1, <3>2
  <2>. QED  BY <2>1
<1>7. Max(T) \in T /\ \A y \in T : Max(T) >= y
  BY <1>6 DEF Max
<1>. QED  BY <1>7

-----------------------------------------------------------------------------
(* What a step of M3Runtime does with the pages is a step of M3Pages.      *)

LEMMA CompileForIsPages ==
  ASSUME NEW frames, NEW f \in Functions, NEW then, CompileFor(frames, f, then)
  PROVE  PagesNext
<1>1. PICK r \in Runtimes : BeginFunction(r, f)
  BY DEF CompileFor
<1>. QED  BY <1>1 DEF PagesNext

LEMMA StepIsPages == [Next]_vars => [PagesNext]_pageVars
<1>. SUFFICES ASSUME [Next]_vars PROVE PagesNext \/ UNCHANGED pageVars
  OBVIOUS
<1>1. ASSUME NEW r \in Runtimes, Open(r) \/ Close(r) \/ \E m \in Modules : LoadModule(m, r)
      PROVE  PagesNext \/ UNCHANGED pageVars
  BY <1>1 DEF Open, Close, LoadModule, Runs, PagesNext
<1>2. CASE LoadExpression
  BY <1>2 DEF LoadExpression, PagesNext
<1>3. CASE ExpressionDone
  BY <1>3 DEF ExpressionDone, PagesNext
<1>4. CASE LoadDone \/ LoadFails
  BY <1>4 DEF LoadDone, LoadFails, Runs
<1>5. ASSUME NEW f \in Functions, Link(f) PROVE PagesNext \/ UNCHANGED pageVars
  BY <1>5 DEF Link, PagesNext
<1>6. ASSUME NEW f \in Functions, FindFunction(f) PROVE PagesNext \/ UNCHANGED pageVars
  BY <1>6, CompileForIsPages DEF FindFunction
<1>7. ASSUME NEW f \in Functions, Call(f) PROVE PagesNext \/ UNCHANGED pageVars
  BY <1>7 DEF Call, Runs
<1>8. ASSUME NEW f \in Functions, OpCall(f) PROVE PagesNext \/ UNCHANGED pageVars
  <2>1. Runs \/ CompileFor(stack, f, "site")
    BY <1>8, Zenon DEF OpCall
  <2>. QED  BY <2>1, CompileForIsPages DEF Runs
<1>9. ASSUME NEW f \in Functions, OpCallIndirect(f) PROVE PagesNext \/ UNCHANGED pageVars
  <2>1. Runs \/ CompileFor(stack, f, "indirect")
    BY <1>9 DEF OpCallIndirect
  <2>. QED  BY <2>1, CompileForIsPages DEF Runs
<1>10. CASE EmitNext
  BY <1>10 DEF EmitNext, PagesNext
<1>11. CASE Compiled \/ CompiledWithoutConstants
  BY <1>11 DEF Compiled, CompiledWithoutConstants, PagesNext
<1>12. ASSUME NEW m \in Modules, RunStart(m) PROVE PagesNext \/ UNCHANGED pageVars
  BY <1>12 DEF RunStart, Runs
<1>13. CASE RunStartFunction
  <2>1. PICK f \in Functions : Runs \/ CompileFor(stack, f, "start")
    BY <1>13 DEF RunStartFunction
  <2>. QED  BY <2>1, CompileForIsPages DEF Runs
<1>14. CASE RunCalled \/ HostReturns \/ OpMemGrow \/ OpLoop \/ OpContinueLoop \/ OpReturn \/ Trap
  BY <1>14 DEF RunCalled, HostReturns, OpMemGrow, OpLoop, OpContinueLoop, OpReturn, Trap, Runs
<1>15. CASE UNCHANGED vars
  BY <1>15 DEF vars
<1>. QED
  BY <1>1, <1>2, <1>3, <1>4, <1>5, <1>6, <1>7, <1>8, <1>9, <1>10, <1>11, <1>12, <1>13, <1>14, <1>15 DEF Next

\* Whatever the host, the code that runs and its traps do, the pages only ever
\* take steps of M3Pages.
THEOREM PagesRefined == Spec => PagesSpec
<1>1. Init => PagesInit
  BY DEF Init
<1>. QED  BY <1>1, StepIsPages, PTL DEF Spec, PagesSpec

LEMMA PagesInvariant == Spec => []IInv
BY PagesRefined, Invariant, PTL

-----------------------------------------------------------------------------
(* How steps change the stack.                                             *)

LEMMA Apart ==
  /\ NoOwner \notin Runtimes /\ "nothing" \notin Functions /\ "expression" \notin Functions
  /\ ModuleOf \in [Functions -> Modules] /\ Imports \subseteq Functions
  /\ \A f \in Functions : \A g \in Calls[f] : ModuleOf[g] = ModuleOf[f]
  /\ \A m \in Modules : \A g \in Table[m] : ModuleOf[g] = m
  /\ \A m \in Modules : StartOf[m] \in Functions => StartOf[m] \notin Imports /\ ModuleOf[StartOf[m]] = m
BY PagesAssumption, RuntimeAssumption DEF Owners

LEMMA StackIs ==
  ASSUME RunInv
  PROVE  /\ stack \in Seq(Frames) /\ Len(stack) \in Nat /\ (stack # <<>> <=> Len(stack) > 0)
         /\ DOMAIN stack = 1..Len(stack)
         /\ Kind = IF stack = <<>> THEN "none" ELSE stack[Len(stack)].k
         /\ Top = stack[Len(stack)]
         /\ \A i \in 1..Len(stack) : stack[i] \in Frames /\ Fits(stack, i, stack[i]) /\ Backed(stack[i])
         /\ SubSeq(stack, 1, Len(stack)) = stack
         /\ Front(stack) = SubSeq(stack, 1, Len(stack) - 1)
BY DEF RunInv, Ordered, Kind, Top, Last, Front

\* The functions with code are in a module that is loaded, in its runtime.
LEMMA CodeIsLoaded ==
  ASSUME RunInv, NEW f \in Functions, CompiledFn(f)
  PROVE  /\ home[f] = InMod(f) /\ InMod(f) \in Runtimes /\ mods[ModuleOf[f]].state = "listed"
         /\ memory[home[f]] \in Nat
BY Apart DEF RunInv, ModsKept, InMod, RunTypes

\* A module that is not being loaded is loaded, or in no runtime.
Settled ==
  /\ UNCHANGED mods /\ RunTypes'
  /\ \A f \in Functions : CompiledFn(f) => CompiledFn(f)'
  /\ \A f \in Functions : CompiledFn(f)' => home'[f] = InMod(f) /\ mods[ModuleOf[f]].state = "listed"

LEMMA SettledIs ==
  ASSUME RunInv, Kind # "load", Settled, ~Compiling', Kind' \notin {"load", "compile"},
         Ordered(stack'), \A i \in 1..Len(stack') : Backed(stack[i])', StartsKept(stack', start'), FreshTop'
  PROVE  RunInv'
<1>1. ModsKept'
  BY DEF RunInv, ModsKept, Settled, InMod
<1>2. CompilesTop'
  BY DEF CompilesTop
<1>. QED  BY <1>1, <1>2 DEF RunInv, Settled

LEMMA BackedStill ==
  ASSUME Settled, NEW x \in Frames, Backed(x)
  PROVE  Backed(x)'
BY FrameIs DEF Settled, Backed

LEMMA PrefixBacked ==
  ASSUME RunInv, Settled, NEW n \in 0..Len(stack), NEW s, s = SubSeq(stack, 1, n)
  PROVE  \A i \in 1..n : s[i] \in Frames /\ Backed(s[i])'
<1>. SUFFICES ASSUME NEW i \in 1..n PROVE s[i] \in Frames /\ Backed(s[i])'
  OBVIOUS
<1>1. i \in 1..Len(stack) /\ s[i] = stack[i]
  BY StackIs, Prefix
<1>. QED  BY <1>1, StackIs, BackedStill

\* The frames above the n-th are left, and it is not code of ours.
LEMMA Left ==
  ASSUME RunInv, Kind # "load", Settled, ~Compiling',
         NEW n \in 0..Len(stack), stack' = SubSeq(stack, 1, n),
         n > 0 => stack[n].k \in {"raw", "call"},
         StartsKept(stack', start')
  PROVE  RunInv'
<1>1. /\ Len(stack') = n /\ Ordered(stack')
      /\ \A i \in 1..n : stack'[i] = stack[i]
  BY StackIs, Prefix, OrderedPrefix DEF RunInv
<1>2. \A i \in 1..Len(stack') : Backed(stack[i])'
  <2>1. \A s : s = stack' => \A i \in 1..n : Backed(s[i])'
    BY PrefixBacked
  <2>. QED  BY <1>1, <2>1 DEF Backed, CompiledFn
<1>3. Kind' \in {"none", "raw", "call"}
  BY <1>1 DEF Kind, Top, Last
<1>4. FreshTop'
  BY <1>3 DEF FreshTop
<1>. QED  BY <1>1, <1>2, <1>3, <1>4, SettledIs

LEMMA UnwoundIs ==
  ASSUME RunInv, Entry(stack, Len(stack) + 1), Unwound
  PROVE  /\ \E n \in 0..Len(stack) : stack' = SubSeq(stack, 1, n) /\ (n > 0 => stack[n].k = "raw")
         /\ StartsKept(stack', start')
         /\ start' \in [Modules -> {"none", "pending", "running", "done"}]
<1>. DEFINE T == {i \in DOMAIN stack : stack[i].k \in {"call", "start"}}
            u == Max(T)
<1>1. T \in SUBSET (1..Len(stack)) /\ T # {}
  BY StackIs DEF Entry
<1>2. u \in T
  BY <1>1, StackIs, HasMax
<1>. HIDE DEF T
<1>3. u \in 1..Len(stack) /\ stack[u].k \in {"call", "start"} /\ u = Innermost({"call", "start"})
  BY <1>2, StackIs DEF T, Innermost
<1>. HIDE DEF u
<1>4. ByHost(stack, u) \/ (stack[u].k = "start" /\ u > 1 /\ stack[u - 1].k = "call" /\ u - 1 \in 1..Len(stack))
  BY <1>3, StackIs DEF Fits, Under
<1>5. ASSUME ByHost(stack, u)
      PROVE  u - 1 \in 0..Len(stack) /\ (u - 1 > 0 => stack[u - 1].k = "raw")
  BY <1>3, <1>5, StackIs DEF ByHost, Under
<1>6. ASSUME u > 1, stack[u - 1].k = "call"
      PROVE  u - 2 \in 0..Len(stack) /\ (u - 2 > 0 => stack[u - 2].k = "raw")
  <2>1. u - 1 \in 1..Len(stack) /\ Fits(stack, u - 1, stack[u - 1])
    BY <1>3, <1>6, StackIs
  <2>2. ByHost(stack, u - 1)
    BY <1>6, <2>1 DEF Fits
  <2>3. (u - 1) - 1 = u - 2 /\ u - 2 \in 0..Len(stack)
    BY <1>3, <1>6, StackIs
  <2>4. u - 1 = 1 \/ (u - 1 > 1 /\ stack[(u - 1) - 1].k \in {"raw"})
    BY <2>2 DEF ByHost, Under
  <2>5. u - 2 > 0 => stack[u - 2].k = "raw"
    BY <2>3, <2>4, <1>3
  <2>. QED  BY <2>3, <2>5
<1>7. PICK n \in 0..Len(stack) : n < u /\ stack' = SubSeq(stack, 1, n) /\ (n > 0 => stack[n].k = "raw")
  <2>1. CASE stack[u].k = "start" /\ u > 1 /\ stack[u - 1].k = "call"
    <3>1. stack' = SubSeq(stack, 1, u - 2)
      BY <1>3, <2>1 DEF Unwound
    <3>2. u - 2 < u /\ u - 2 \in 0..Len(stack) /\ (u - 2 > 0 => stack[u - 2].k = "raw")
      BY <1>3, <1>6, <2>1, StackIs
    <3>. QED  BY <3>1, <3>2
  <2>2. CASE ~(stack[u].k = "start" /\ u > 1 /\ stack[u - 1].k = "call")
    <3>1. stack' = SubSeq(stack, 1, u - 1)
      BY <1>3, <2>2 DEF Unwound
    <3>. QED  BY <1>3, <1>4, <1>5, <2>2, <3>1, StackIs
  <2>. QED  BY <2>1, <2>2
<1>8. StartsKept(stack', start)
  BY <1>7, KeptPrefix DEF RunInv
<1>9. CASE stack[u].k = "call"
  <2>1. start' = start
    BY <1>3, <1>9 DEF Unwound
  <2>. QED  BY <1>7, <1>8, <2>1 DEF RunInv, RunTypes
<1>10. CASE stack[u].k = "start"
  <2>1. start' = [start EXCEPT ![stack[u].m] = "pending"]
    BY <1>3, <1>10 DEF Unwound
  <2>2. start' \in [Modules -> {"none", "pending", "running", "done"}]
    BY <2>1 DEF RunInv, RunTypes
  <2>3. /\ Len(stack') = n /\ n \in Nat /\ u \in Nat
        /\ \A i \in 1..n : stack'[i] = stack[i] /\ stack[i] \in Frames /\ i \in 1..Len(stack) /\ i < u
    BY <1>3, <1>7, StackIs, Prefix
  <2>4. \A i \in 1..n : Running(stack', i) => Running(stack, i)
    BY <2>3, StackIs DEF Running
  <2>5. \A i \in 1..n : stack'[i].k = "start" => stack'[i].m # stack[u].m
    BY <1>3, <1>10, <2>3 DEF RunInv, StartsKept
  <2>6. \A i \in 1..n : stack'[i].k = "call" /\ Running(stack', i) => ModuleOf[stack'[i].f] # stack[u].m
    BY <1>3, <1>10, <2>3, <2>4 DEF RunInv, StartsKept
  <2>7. \A i \in 1..n : /\ stack'[i].k = "call" => ModuleOf[stack'[i].f] \in Modules
                        /\ stack'[i].k = "start" => stack'[i].m \in Modules
    BY <2>3, FrameIs, Apart
  <2>8. \A m \in Modules : m # stack[u].m => start'[m] = start[m]
    BY <2>1 DEF RunInv, RunTypes
  <2>9. StartsKept(stack', start')
    BY <1>8, <2>3, <2>5, <2>6, <2>7, <2>8 DEF StartsKept
  <2>. QED  BY <1>7, <2>2, <2>9
<1>. QED  BY <1>3, <1>9, <1>10

\* A trap or an error leaves the frames down to the host.
LEMMA UnwindStep ==
  ASSUME RunInv, Kind # "load", Entry(stack, Len(stack) + 1), Unwound,
         UNCHANGED <<mods, memory, code, home>>, ~Compiling'
  PROVE  RunInv'
<1>1. Settled
  BY UnwoundIs DEF Settled, RunInv, RunTypes, ModsKept, InMod, CompiledFn
<1>. QED  BY <1>1, UnwoundIs, Left

LEMMA StillSettled ==
  ASSUME RunInv, UNCHANGED <<mods, memory, code, home>>,
         start' \in [Modules -> {"none", "pending", "running", "done"}]
  PROVE  Settled
BY DEF Settled, RunInv, RunTypes, ModsKept, InMod, CompiledFn

\* A frame goes on top that runs no code yet, or a round of a loop.
LEMMA PushStep ==
  ASSUME RunInv, Kind # "load", ~Compiling, UNCHANGED <<mods, memory, code, home, comp, start>>,
         NEW x \in Frames, stack' = Append(stack, x), x.k \in {"call", "start", "loop"},
         Fits(stack, Len(stack) + 1, x), Backed(x),
         x.k = "loop" => IsFresh(x),
         x.k = "start" => \A i \in 1..Len(stack) :
           /\ stack[i].k = "start" => stack[i].m # x.m
           /\ stack[i].k = "call" /\ Running(stack, i) => ModuleOf[stack[i].f] # x.m
  PROVE  RunInv'
<1>1. Settled /\ ~Compiling'
  BY StillSettled DEF Compiling, RunInv, RunTypes
<1>2. Ordered(stack) /\ Ordered(stack')
  BY OrderedPush DEF RunInv
<1>3. StartsKept(stack', start')
  BY <1>2, KeptPush DEF RunInv
<1>4. /\ Len(stack') = Len(stack) + 1 /\ stack'[Len(stack) + 1] = x
      /\ \A i \in 1..Len(stack) : stack'[i] = stack[i]
  BY StackIs, Pushed
<1>5. \A i \in 1..Len(stack') : Backed(stack[i])'
  <2>1. ASSUME NEW i \in 1..Len(stack') PROVE Backed(stack'[i])
    BY <1>4, StackIs
  <2>. QED  BY <2>1 DEF Backed, CompiledFn
<1>6. Kind' = x.k /\ Top' = x
  BY <1>4, StackIs DEF Kind, Top, Last
<1>7. FreshTop'
  BY <1>6 DEF FreshTop, IsFresh
<1>. QED  BY <1>1, <1>2, <1>3, <1>5, <1>6, <1>7, SettledIs

\* Code of g is entered from the n-th frame.
LEMMA EnterStep ==
  ASSUME RunInv, Kind # "load", Settled, ~Compiling',
         NEW n \in 1..Len(stack), NEW base, base = SubSeq(stack, 1, n),
         NEW g \in Functions, NEW mem \in Nat, stack' = Entered(base, g, mem),
         CompiledFn(g)', mem = memory'[home'[g]],
         stack[n].k \in {"call", "start", "wasm", "loop"},
         stack[n].k = "start" => g \notin Imports,
         StartsKept(base, start'),
         stack[n].k = "call" => start'[ModuleOf[stack[n].f]] # "pending",
         stack[n].k = "start" => start'[stack[n].m] = "running"
  PROVE  RunInv'
<1>1. PICK x \in Frames :
        /\ stack' = Append(base, x)
        /\ x.k = (IF g \in Imports THEN "raw" ELSE "wasm") /\ x.f = g /\ x.mem = mem
  BY IsFrame DEF Entered, Frame
<1>2. /\ Len(base) = n /\ Ordered(base) /\ n \in Nat /\ base \in Seq(Frames)
      /\ \A i \in 1..n : base[i] = stack[i]
  BY StackIs, Prefix, OrderedPrefix DEF RunInv
<1>3. base # <<>> /\ base[n] = stack[n] /\ (n + 1) - 1 = n /\ n + 1 > 1
  BY <1>2
<1>4. Entry(base, n + 1)
  <2>1. CASE stack[n].k \in {"call", "start"}
    BY <1>2, <1>3, <2>1 DEF Entry
  <2>2. CASE stack[n].k \in {"wasm", "loop"}
    <3>1. Entry(stack, n)
      BY <2>2, StackIs DEF Fits
    <3>2. PICK j \in 1..(n - 1) : stack[j].k \in {"call", "start"}
      BY <3>1 DEF Entry
    <3>3. j \in 1..((n + 1) - 1) /\ base[j] = stack[j]
      BY <1>2
    <3>. QED  BY <3>2, <3>3 DEF Entry
  <2>. QED  BY <2>1, <2>2
<1>5. Fits(base, Len(base) + 1, x)
  BY <1>1, <1>2, <1>3, <1>4 DEF Fits, Under
<1>6. Ordered(stack') /\ StartsKept(stack', start')
  <2>1. Ordered(Append(base, x))
    BY <1>2, <1>5, OrderedPush
  <2>2. /\ base[Len(base)].k = "call" => start'[ModuleOf[base[Len(base)].f]] # "pending"
        /\ base[Len(base)].k = "start" => start'[base[Len(base)].m] = "running"
    BY <1>2, <1>3
  <2>3. ASSUME NEW st, st = start' PROVE StartsKept(Append(base, x), st)
    <3>1. x.k # "start" /\ StartsKept(base, st)
      BY <1>1, <2>3
    <3>2. /\ base[Len(base)].k = "call" => st[ModuleOf[base[Len(base)].f]] # "pending"
          /\ base[Len(base)].k = "start" => st[base[Len(base)].m] = "running"
      BY <2>2, <2>3
    <3>3. Ordered(base)
      BY <1>2
    <3>4. x \in Frames
      OBVIOUS
    <3>. QED  BY ONLY <3>1, <3>2, <3>3, <3>4, KeptPush
  <2>. QED  BY <1>1, <2>1, <2>3
<1>7. /\ Len(stack') = n + 1 /\ stack'[n + 1] = x
      /\ \A i \in 1..n : stack'[i] = base[i]
  <2>1. /\ Len(Append(base, x)) = Len(base) + 1
        /\ \A i \in 1..Len(base) : Append(base, x)[i] = base[i]
        /\ Append(base, x)[Len(base) + 1] = x
    BY <1>2, Pushed
  <2>. QED  BY <1>1, <1>2, <2>1
<1>8. \A i \in 1..Len(stack') : Backed(stack[i])'
  <2>1. \A i \in 1..n : Backed(base[i])'
    BY PrefixBacked
  <2>2. Backed(x)'
    BY <1>1 DEF Backed, CompiledFn
  <2>3. ASSUME NEW i \in 1..Len(stack') PROVE Backed(stack[i])'
    BY <1>7, <2>1, <2>2 DEF Backed, CompiledFn
  <2>. QED  BY <2>3
<1>9. Kind' = x.k /\ Top' = x
  BY <1>2, <1>7 DEF Kind, Top, Last
<1>10. FreshTop'
  BY <1>1, <1>9 DEF FreshTop, IsFresh
<1>. QED  BY <1>1, <1>6, <1>8, <1>9, <1>10, SettledIs

\* Code goes on in the n-th frame, with the memory where it is now.
LEMMA RefreshStep ==
  ASSUME RunInv, Kind # "load", ~Compiling, UNCHANGED <<mods, memory, code, home, comp, start>>,
         NEW n \in 1..Len(stack), stack[n].k \in {"wasm", "loop"},
         stack' = Append(SubSeq(stack, 1, n - 1), Refreshed(stack[n]))
  PROVE  RunInv'
<1>a. PICK b : b = stack[n]
  OBVIOUS
<1>b. PICK s : s = SubSeq(stack, 1, n - 1)
  OBVIOUS
<1>1. /\ b \in Frames /\ Fits(stack, n, b) /\ Backed(b) /\ b.k \in {"wasm", "loop"}
      /\ n - 1 \in 0..Len(stack) /\ n \in Nat /\ n - 1 < n
  BY <1>a, StackIs
<1>3. s \in Seq(Frames) /\ Len(s) = n - 1 /\ \A i \in 1..(n - 1) : s[i] = stack[i]
  BY <1>1, <1>b, StackIs, Prefix
<1>4. Ordered(s) /\ StartsKept(s, start) /\ ~Compiling'
  BY <1>1, <1>b, OrderedPrefix, KeptPrefix DEF RunInv, Compiling
<1>5. PICK x : x = Refreshed(b)
  OBVIOUS
<1>6. start' = start /\ stack' = Append(s, x) /\ Settled
  BY <1>a, <1>b, <1>5, StillSettled DEF RunInv, RunTypes
<1>7. b.f \in Functions /\ CompiledFn(b.f) /\ memory[home[b.f]] \in Nat
  BY <1>1, FrameIs, CodeIsLoaded DEF Backed
<1>8. x = Frame(b.k, b.f, memory[home[b.f]]) /\ x \in Frames
  <2>1. b = [k |-> b.k, f |-> b.f, mem |-> b.mem]
    BY <1>1, FrameIs
  <2>2. x = Frame(b.k, b.f, memory[home[b.f]])
    BY <1>5, <2>1 DEF Refreshed, Frame
  <2>. QED  BY <1>1, <1>7, <2>2, IsFrame
<1>9. x.k = b.k /\ x.f = b.f /\ x.mem = memory[home[b.f]]
  BY <1>8 DEF Frame
<1>10. Fits(stack, n, x)
  BY <1>1, <1>9 DEF Fits
<1>11. Fits(s, Len(s) + 1, x)
  <2>1. Len(s) + 1 = n /\ n \in Nat \ {0} /\ \A j \in 1..(n - 1) : s[j] = stack[j]
    BY <1>1, <1>3
  <2>. QED  BY <1>10, <2>1, FitsAgain
<1>12. n - 1 > 0 => Running(stack, n - 1) \/ b.k = "loop"
  BY <1>1, <1>a, StackIs DEF Running
<1>13. s # <<>> =>
        /\ n - 1 \in 1..Len(stack) /\ s[Len(s)] = stack[n - 1]
        /\ x.k = "wasm" => Running(stack, n - 1)
  BY <1>1, <1>3, <1>9, <1>12
<1>14. Ordered(stack') /\ StartsKept(stack', start')
  <2>1. Ordered(stack')
    BY <1>4, <1>6, <1>8, <1>11, OrderedPush
  <2>2. StartsKept(stack, start)
    BY DEF RunInv
  <2>3. x.k \in {"wasm", "raw"} /\ s # <<>> =>
          /\ s[Len(s)].k = "call" => start[ModuleOf[s[Len(s)].f]] # "pending"
          /\ s[Len(s)].k = "start" => start[s[Len(s)].m] = "running"
    BY <1>1, <1>9, <1>13, <2>2 DEF StartsKept
  <2>4. x.k # "start"
    BY <1>1, <1>9
  <2>5. StartsKept(Append(s, x), start)
    BY <1>4, <1>8, <2>3, <2>4, KeptPush
  <2>. QED  BY <1>6, <2>1, <2>5
<1>15. /\ Len(stack') = n /\ stack'[n] = x
       /\ \A i \in 1..(n - 1) : stack'[i] = s[i]
  BY <1>1, <1>3, <1>6, <1>8, Pushed
<1>16. \A i \in 1..Len(stack') : Backed(stack[i])'
  <2>1. \A i \in 1..(n - 1) : Backed(s[i])'
    BY <1>1, <1>b, <1>6, PrefixBacked
  <2>2. Backed(x)'
    BY <1>1, <1>7, <1>9 DEF Backed, CompiledFn
  <2>3. ASSUME NEW i \in 1..Len(stack') PROVE Backed(stack[i])'
    BY <1>1, <1>15, <2>1, <2>2 DEF Backed, CompiledFn
  <2>. QED  BY <2>3
<1>17. Kind' = x.k /\ Top' = x
  BY <1>1, <1>15 DEF Kind, Top, Last
<1>18. FreshTop'
  BY <1>1, <1>9, <1>17 DEF FreshTop, IsFresh
<1>. QED  BY <1>1, <1>4, <1>6, <1>9, <1>14, <1>16, <1>17, <1>18, SettledIs

\* Code above the n-th frame has returned.
LEMMA BackStep ==
  ASSUME RunInv, Kind # "load", ~Compiling, UNCHANGED <<mods, memory, code, home, comp>>,
         NEW n \in 1..Len(stack), n < Len(stack), stack[n + 1].k \in {"wasm", "raw"}, BackTo(n)
  PROVE  RunInv'
<1>a. PICK b : b = stack[n]
  OBVIOUS
<1>b. PICK s : s = SubSeq(stack, 1, n - 1)
  OBVIOUS
<1>1. /\ n + 1 \in 1..Len(stack) /\ (n + 1) - 1 = n /\ b \in Frames /\ Fits(stack, n, b) /\ Backed(b)
      /\ Fits(stack, n + 1, stack[n + 1]) /\ n - 1 \in 0..Len(stack) /\ n \in Nat /\ n - 1 < n
  BY <1>a, StackIs
<1>2. b.k \in {"call", "start", "wasm", "loop"} /\ Running(stack, n)
  BY <1>1, <1>a DEF Fits, Under, Running
<1>3. s \in Seq(Frames) /\ Len(s) = n - 1 /\ \A i \in 1..(n - 1) : s[i] = stack[i]
  BY <1>1, <1>b, StackIs, Prefix
<1>4. Ordered(s) /\ StartsKept(s, start) /\ ~Compiling'
  BY <1>1, <1>b, OrderedPrefix, KeptPrefix DEF RunInv, Compiling
<1>5. CASE b.k = "call"
  <2>1. stack' = s /\ start' = start
    <3>1. stack' = s \o <<>> /\ start' = start
      BY <1>5, <1>a, <1>b DEF BackTo
    <3>. QED  BY <1>3, <3>1
  <2>2. n - 1 > 0 => stack[n - 1].k \in {"raw", "call"}
    BY <1>1, <1>5 DEF Fits, ByHost, Under
  <2>3. Settled
    BY <2>1, StillSettled DEF RunInv, RunTypes
  <2>. QED  BY <1>1, <1>4, <2>1, <2>2, <2>3, <1>b, Left
<1>6. CASE b.k = "start"
  <2>1. stack' = s /\ start' = [start EXCEPT ![b.m] = "done"]
    BY <1>3, <1>6, <1>a, <1>b DEF BackTo
  <2>2. n - 1 > 0 => stack[n - 1].k \in {"raw", "call"}
    BY <1>1, <1>6 DEF Fits, ByHost, Under
  <2>3. start' \in [Modules -> {"none", "pending", "running", "done"}]
    BY <2>1 DEF RunInv, RunTypes
  <2>4. Settled
    BY <2>3, StillSettled
  <2>5. \A i \in 1..(n - 1) : s[i].k = "start" => s[i].m # b.m
    <3>1. ASSUME NEW i \in 1..(n - 1), s[i].k = "start" PROVE s[i].m # b.m
      <4>1. i \in 1..Len(stack) /\ i # n /\ stack[i] = s[i]
        BY <1>1, <1>3
      <4>. QED  BY <1>6, <1>a, <3>1, <4>1 DEF RunInv, StartsKept
    <3>. QED  BY <3>1
  <2>6. \A i \in 1..(n - 1) : /\ s[i].k = "call" => ModuleOf[s[i].f] \in Modules
                              /\ s[i].k = "start" => s[i].m \in Modules
    <3>1. ASSUME NEW i \in 1..(n - 1)
          PROVE  /\ s[i].k = "call" => ModuleOf[s[i].f] \in Modules
                 /\ s[i].k = "start" => s[i].m \in Modules
      <4>1. s[i] \in Frames
        BY <1>3
      <4>. QED  BY <4>1, FrameIs, Apart
    <3>. QED  BY <3>1
  <2>7. \A m \in Modules : start'[m] = "done" \/ start'[m] = start[m]
    BY <2>1 DEF RunInv, RunTypes
  <2>8. \A m \in Modules : m # b.m => start'[m] = start[m]
    BY <2>1 DEF RunInv, RunTypes
  <2>9. StartsKept(s, start')
    BY <1>3, <1>4, <2>5, <2>6, <2>7, <2>8 DEF StartsKept
  <2>. QED  BY <1>1, <1>4, <2>1, <2>2, <2>4, <2>9, <1>b, Left
<1>7. CASE b.k \in {"wasm", "loop"}
  <2>1. start' = start /\ stack' = s \o <<Refreshed(b)>>
    BY <1>7, <1>a, <1>b DEF BackTo
  <2>2. stack' = Append(s, Refreshed(b))
    BY <1>3, <2>1
  <2>. QED  BY <1>7, <1>a, <1>b, <2>1, <2>2, RefreshStep
<1>. QED  BY <1>2, <1>5, <1>6, <1>7

-----------------------------------------------------------------------------
(* Compilations and loads.                                                 *)

CodeGoesOn ==
  /\ \A f \in Functions : CompiledFn(f) => CompiledFn(f)'
  /\ \A f \in Functions : CompiledFn(f)' => home'[f] = InMod(f) /\ mods[ModuleOf[f]].state = "listed"

LEMMA CodeStill ==
  ASSUME RunInv, UNCHANGED <<code, home>>
  PROVE  CodeGoesOn
BY DEF CodeGoesOn, RunInv, ModsKept, CompiledFn, InMod

\* The compilation goes on with what it is for, or has been given up.
LEMMA BeginIs ==
  ASSUME NEW r \in Runtimes, NEW f \in Functions, BeginFunction(r, f)
  PROVE  /\ ~Compiling /\ UNCHANGED <<code, home>>
         /\ comp'.what = "nothing" \/ (comp'.what = f /\ comp'.in = r /\ comp'.used # {})
BY DEF BeginFunction, Start, Idle

\* What a compilation is for does not change when its pages do.
Same(c, d) ==
  /\ c.what = d.what /\ c.in = d.in /\ c.used # {}
  /\ {"what", "in", "used"} \subseteq DOMAIN c

LEMMA OtherFields ==
  ASSUME NEW c, NEW d, NEW v, Same(c, d)
  PROVE  /\ Same([c EXCEPT !.page = v], d) /\ Same([c EXCEPT !.outer = v], d)
         /\ Same([c EXCEPT !.back = v], d) /\ Same([c EXCEPT !.left = v], d)
BY DEF Same

LEMMA AtIsSame ==
  ASSUME NEW c, NEW d, NEW p, Same(c, d)
  PROVE  Same(At(c, p), d)
<1>1. PICK e : e = [c EXCEPT !.page = p]
  OBVIOUS
<1>2. Same(e, d)
  BY <1>1, OtherFields
<1>3. At(c, p) = [e EXCEPT !.used = @ \cup {p}]
  BY <1>1 DEF At
<1>. QED  BY <1>2, <1>3 DEF Same

LEMMA EmitIs ==
  ASSUME RunInv, IInv, EmitNext
  PROVE  /\ Compiling /\ UNCHANGED <<code, home>>
         /\ comp'.what = "nothing" \/ (comp'.what = comp.what /\ comp'.in = comp.in /\ comp'.used # {})
<1>1. Compiling /\ Same(comp, comp)
  BY DEF EmitNext, EmitOp, EmitOpUnchecked, BeginTable, BeginTarget, EndTarget, BeginElse, EndElse, Throw,
         InFunction, IInv, PagesTypeOK, Same, RunInv, CompilesTop
<1>2. \A p : Same(At(comp, p), comp)
  BY <1>1, AtIsSame
<1>3. \A s : Abandon(s) => comp'.what = "nothing"
  BY DEF Abandon, Idle
<1>4. ASSUME NEW n \in OpWords, EmitOp(n) \/ EmitOpUnchecked(n)
      PROVE  comp'.what = "nothing" \/ Same(comp', comp)
  BY <1>2, <1>3, <1>4 DEF EmitOp, EmitOpUnchecked
<1>5. ASSUME NEW n \in 0..MaxTargets, BeginTable(n)
      PROVE  comp'.what = "nothing" \/ Same(comp', comp)
  <2>1. \A p, q : Same(At(At(comp, p), q), comp)
    BY <1>2, AtIsSame
  <2>2. \A p, q : Same([At(At(comp, p), q) EXCEPT !.left = n + 1], comp)
    BY <2>1, OtherFields
  <2>. QED  BY <1>3, <1>5, <2>2 DEF BeginTable, Idle
<1>6. BeginTarget \/ BeginElse => comp'.what = "nothing" \/ Same(comp', comp)
  <2>1. ASSUME NEW p, comp' = [At(comp, p) EXCEPT !.back = comp.page] PROVE Same(comp', comp)
    BY <1>2, <2>1, OtherFields
  <2>2. ASSUME NEW p, comp' = [At(comp, p) EXCEPT !.outer = Append(@, comp.page)] PROVE Same(comp', comp)
    BY <1>2, <2>2, OtherFields
  <2>. QED  BY <1>3, <2>1, <2>2 DEF BeginTarget, BeginElse
<1>7. EndTarget \/ EndElse => comp'.what = "nothing" \/ Same(comp', comp)
  <2>1. EndTarget => Same(comp', comp)
    <3>. SUFFICES ASSUME EndTarget PROVE Same(comp', comp)
      OBVIOUS
    <3>1. PICK e : e = [comp EXCEPT !.page = comp.back]
      OBVIOUS
    <3>2. PICK f : f = [e EXCEPT !.back = NoPage]
      OBVIOUS
    <3>3. Same(f, comp)
      BY <1>1, <3>1, <3>2, OtherFields
    <3>4. comp' = [f EXCEPT !.left = @ - 1]
      BY <3>1, <3>2 DEF EndTarget
    <3>. QED  BY <3>3, <3>4, OtherFields
  <2>2. ASSUME NEW p, NEW q, NEW c, c = [At(comp, p) EXCEPT !.page = q, !.outer = SubSeq(@, 1, Len(@) - 1)]
        PROVE  Same(c, comp)
    <3>1. PICK e : e = [At(comp, p) EXCEPT !.page = q]
      OBVIOUS
    <3>2. c = [e EXCEPT !.outer = SubSeq(@, 1, Len(@) - 1)]
      BY <2>2, <3>1
    <3>3. Same(e, comp)
      BY <1>2, <3>1, OtherFields
    <3>. QED  BY <3>2, <3>3, OtherFields
  <2>. QED  BY <1>3, <2>1, <2>2 DEF EndElse
<1>8. Throw => comp'.what = "nothing"
  BY <1>3 DEF Throw
<1>9. \/ \E n \in OpWords : EmitOp(n) \/ EmitOpUnchecked(n)
      \/ \E n \in 0..MaxTargets : BeginTable(n)
      \/ BeginTarget \/ EndTarget \/ BeginElse \/ EndElse \/ Throw
  BY DEF EmitNext
<1>10. Compiling /\ UNCHANGED <<code, home>>
  BY <1>9 DEF EmitOp, EmitOpUnchecked, BeginTable, BeginTarget, EndTarget, BeginElse, EndElse, Throw, Within, InFunction
<1>. QED  BY <1>4, <1>5, <1>6, <1>7, <1>8, <1>9, <1>10 DEF Same

\* A module is loaded, or could not be: the last frame goes.
LEMMA LoadEnds ==
  ASSUME RunInv, Kind = "load", stack' = Front(stack), ~Compiling', UNCHANGED <<memory, start, code, home>>,
         \/ mods' = [mods EXCEPT ![Top.m].in = NoOwner]
         \/ mods' = [mods EXCEPT ![Top.m].state = "listed"]
  PROVE  RunInv'
<1>1. PICK m \in Modules : m = Top.m
  BY StackIs, FrameIs
<1>2. mods[m].state = "parsed" /\ mods[m].in \in Runtimes
  BY <1>1 DEF RunInv, ModsKept
<1>3. /\ Len(stack) - 1 \in 0..Len(stack) /\ stack' = SubSeq(stack, 1, Len(stack) - 1)
      /\ Len(stack) > 0 /\ Len(stack) \in Nat
  BY StackIs
<1>4. ByHost(stack, Len(stack))
  BY <1>3, StackIs DEF Fits
<1>5. /\ Len(stack') = Len(stack) - 1
      /\ \A i \in 1..(Len(stack) - 1) : stack'[i] = stack[i] /\ i \in 1..Len(stack)
  BY <1>3, StackIs, Prefix
<1>6. Kind' \in {"none", "raw"}
  BY <1>3, <1>4, <1>5 DEF ByHost, Under, Kind, Top, Last
<1>7. Ordered(stack') /\ StartsKept(stack', start')
  BY <1>3, OrderedPrefix, KeptPrefix DEF RunInv
<1>8. RunTypes'
  <2>1. mods' \in [Modules -> [in : Runtimes \cup {NoOwner}, state : {"parsed", "listed", "freed"}]]
    BY <1>1 DEF RunInv, RunTypes
  <2>. QED  BY <2>1 DEF RunInv, RunTypes
<1>9. \A n \in Modules : n # m => mods'[n] = mods[n]
  BY <1>1 DEF RunInv, RunTypes
<1>10. \/ mods'[m].state = "listed" /\ mods'[m].in = mods[m].in
       \/ mods'[m].state = "parsed" /\ mods'[m].in = NoOwner
  <2>1. PICK x \in [in : Runtimes \cup {NoOwner}, state : {"parsed", "listed", "freed"}] : x = mods[m]
    BY <1>1 DEF RunInv, RunTypes
  <2>2. mods'[m] = [x EXCEPT !.in = NoOwner] \/ mods'[m] = [x EXCEPT !.state = "listed"]
    BY <1>1, <2>1 DEF RunInv, RunTypes
  <2>. QED  BY <1>2, <2>1, <2>2
<1>11. \A f \in Functions : CompiledFn(f) => ModuleOf[f] # m /\ ModuleOf[f] \in Modules
  BY <1>2, Apart DEF RunInv, ModsKept
<1>12. \A i \in 1..Len(stack') : Backed(stack[i])'
  <2>1. ASSUME NEW i \in 1..Len(stack') PROVE Backed(stack[i])'
    <3>1. stack'[i] = stack[i] /\ stack[i] \in Frames /\ Backed(stack[i])
      BY <1>5, StackIs
    <3>2. stack[i].k = "start" => stack[i].m \in Modules /\ stack[i].m # m
      BY <1>2, <3>1, FrameIs DEF Backed
    <3>. QED  BY <1>9, <3>1, <3>2 DEF Backed, CompiledFn
  <2>. QED  BY <2>1
<1>13. ModsKept'
  <2>1. ASSUME NEW n \in Modules
        PROVE  /\ mods'[n].state = "listed" => mods'[n].in \in Runtimes
               /\ ~(mods'[n].state = "parsed" /\ mods'[n].in # NoOwner)
               /\ mods'[n].state = "freed" => mods'[n].in = NoOwner
    BY <1>1, <1>2, <1>9, <1>10 DEF RunInv, ModsKept
  <2>2. \A f \in Functions : CompiledFn(f)' => home'[f] = InMod(f)' /\ mods'[ModuleOf[f]].state = "listed"
    BY <1>9, <1>11 DEF RunInv, ModsKept, CompiledFn, InMod
  <2>. QED  BY <1>6, <2>1, <2>2 DEF ModsKept
<1>14. CompilesTop' /\ FreshTop'
  BY <1>6 DEF CompilesTop, FreshTop
<1>. QED  BY <1>7, <1>8, <1>12, <1>13, <1>14 DEF RunInv

\* A compilation ends with an error.
LEMMA FailedStep ==
  ASSUME RunInv, Compiling, ~Compiling', CompileFailed, UNCHANGED memory, CodeGoesOn,
         Kind = "load" => UNCHANGED <<code, home>>
  PROVE  RunInv'
<1>1. Kind \in {"load", "compile"} /\ Kind = Top.k /\ Len(stack) \in 1..Len(stack) /\ Len(stack) \in Nat
  BY StackIs DEF RunInv, CompilesTop
<1>2. CASE Kind = "load"
  <2>1. Fails(Top.m) /\ UNCHANGED start
    BY <1>1, <1>2 DEF CompileFailed
  <2>. QED  BY <1>2, <2>1, LoadEnds DEF Fails
<1>3. CASE Kind = "compile" /\ Top.then = "find"
  <2>1. stack' = Front(stack) /\ UNCHANGED <<mods, start>>
    BY <1>1, <1>3 DEF CompileFailed
  <2>2. ByHost(stack, Len(stack))
    <3>1. Fits(stack, Len(stack), Top)
      BY <1>1, StackIs
    <3>. QED  BY <1>1, <1>3, <3>1 DEF Fits
  <2>3. /\ Len(stack) - 1 \in 0..Len(stack) /\ stack' = SubSeq(stack, 1, Len(stack) - 1)
        /\ Len(stack) - 1 > 0 => stack[Len(stack) - 1].k = "raw"
    BY <1>1, <2>1, <2>2, StackIs DEF ByHost, Under
  <2>4. Settled
    BY <2>1 DEF Settled, CodeGoesOn, RunInv, RunTypes
  <2>5. StartsKept(stack', start')
    BY <2>1, <2>3, KeptPrefix DEF RunInv
  <2>. QED  BY <1>3, <2>3, <2>4, <2>5, Left
<1>4. CASE Kind = "compile" /\ Top.then # "find"
  <2>1. Unwound /\ UNCHANGED mods
    BY <1>1, <1>4 DEF CompileFailed
  <2>2. Fits(stack, Len(stack), Top)
    BY <1>1, StackIs
  <2>3. Entry(stack, Len(stack))
    BY <1>1, <1>4, <2>2 DEF Fits, Under, Entry
  <2>4. Entry(stack, Len(stack) + 1)
    BY <1>1, <2>3 DEF Entry
  <2>5. Settled
    BY <2>1, <2>4, UnwoundIs DEF Settled, CodeGoesOn, RunInv, RunTypes
  <2>. QED  BY <1>4, <2>1, <2>4, <2>5, UnwoundIs, Left
<1>. QED  BY <1>1, <1>2, <1>3, <1>4

\* A compilation begins, or there is no memory for it.
LEMMA CompileForStep ==
  ASSUME RunInv, Kind \notin {"load", "compile"}, UNCHANGED <<mods, memory>>,
         NEW f \in Functions, NEW then \in {"find", "start", "site", "indirect"},
         CompileFor(stack, f, then), mods[ModuleOf[f]].state = "listed",
         Fits(stack, Len(stack) + 1, [k |-> "compile", f |-> f, then |-> then]),
         then \in {"site", "indirect"} => IsFresh(Top)
  PROVE  RunInv'
<1>1. PICK x \in Frames : x = [k |-> "compile", f |-> f, then |-> then]
  BY IsFrame
<1>2. x.k = "compile" /\ x.f = f /\ x.then = then /\ Fits(stack, Len(stack) + 1, x)
  BY <1>1
<1>3. PICK r \in Runtimes : r = InMod(f) /\ BeginFunction(r, f)
  BY DEF CompileFor
<1>4. /\ ~Compiling /\ UNCHANGED <<code, home>>
      /\ comp'.what = "nothing" \/ (comp'.what = f /\ comp'.in = r /\ comp'.used # {})
  BY <1>3, BeginIs
<1>5. CASE comp'.what # "nothing"
  <2>1. stack' = Append(stack, x) /\ UNCHANGED start
    BY <1>1, <1>5 DEF CompileFor
  <2>2. Ordered(stack) /\ Ordered(stack')
    BY <1>2, <2>1, OrderedPush DEF RunInv
  <2>3. StartsKept(stack', start')
    BY <1>2, <2>1, <2>2, KeptPush DEF RunInv
  <2>4. /\ Len(stack') = Len(stack) + 1 /\ stack'[Len(stack) + 1] = x
        /\ \A i \in 1..Len(stack) : stack'[i] = stack[i]
    BY <2>1, StackIs, Pushed
  <2>5. \A i \in 1..Len(stack') : Backed(stack[i])'
    <3>1. Backed(x)
      BY <1>2 DEF Backed
    <3>2. ASSUME NEW i \in 1..Len(stack') PROVE Backed(stack'[i])
      BY <2>4, <3>1, StackIs
    <3>. QED  BY <1>4, <3>2 DEF Backed, CompiledFn
  <2>6. Kind' = "compile" /\ Top' = x
    BY <1>2, <2>4, StackIs DEF Kind, Top, Last
  <2>7. CompilesTop'
    BY <1>2, <1>3, <1>4, <1>5, <2>6, Apart DEF CompilesTop, InMod
  <2>8. ModsKept'
    BY <1>4, <2>6 DEF RunInv, ModsKept, CompiledFn, InMod
  <2>9. FreshTop'
    <3>1. ASSUME then \in {"site", "indirect"}
          PROVE  IsFresh(stack[Len(stack) - 1])'
      <4>1. Under(stack, Len(stack) + 1, {"wasm", "loop"})
        BY <1>2, <3>1 DEF Fits
      <4>2. Len(stack) \in 1..Len(stack) /\ Len(stack') - 1 = Len(stack)
        BY <2>4, <4>1, StackIs DEF Under
      <4>3. stack'[Len(stack') - 1] = Top
        BY <2>4, <4>2, StackIs
      <4>. QED  BY <1>4, <3>1, <4>3 DEF IsFresh
    <3>. QED  BY <1>2, <2>6, <3>1 DEF FreshTop
  <2>. QED  BY <2>1, <2>2, <2>3, <2>5, <2>7, <2>8, <2>9 DEF RunInv, RunTypes
<1>6. CASE comp'.what = "nothing" /\ then = "find"
  <2>1. UNCHANGED <<stack, start>> /\ ~Compiling'
    BY <1>6 DEF CompileFor, Compiling
  <2>2. Settled /\ StartsKept(stack', start')
    BY <1>4, <2>1, StillSettled DEF RunInv, RunTypes
  <2>3. Len(stack) > 0 => stack[Len(stack)].k = "raw"
    <3>1. ByHost(stack, Len(stack) + 1)
      BY <1>2, <1>6 DEF Fits
    <3>. QED  BY <3>1, StackIs DEF ByHost, Under
  <2>4. stack' = SubSeq(stack, 1, Len(stack)) /\ Len(stack) \in 0..Len(stack)
    BY <2>1, StackIs
  <2>. QED  BY <2>1, <2>2, <2>3, <2>4, Left
<1>7. CASE comp'.what = "nothing" /\ then # "find"
  <2>1. Unwound /\ ~Compiling'
    BY <1>7 DEF CompileFor, Compiling
  <2>2. Entry(stack, Len(stack) + 1)
    BY <1>2, <1>7, StackIs DEF Fits, Under, Entry
  <2>. QED  BY <1>4, <2>1, <2>2, UnwindStep
<1>. QED  BY <1>5, <1>6, <1>7

-----------------------------------------------------------------------------
(* The steps.                                                              *)

LEMMA HostIs ==
  ASSUME RunInv, HostTurn
  PROVE  /\ ~Compiling /\ Kind \in {"none", "raw"} /\ ByHost(stack, Len(stack) + 1)
         /\ \A m \in Modules : mods[m].state = "parsed" => mods[m].in = NoOwner
<1>1. ~Compiling /\ Kind \in {"none", "raw"}
  BY DEF HostTurn
<1>2. ByHost(stack, Len(stack) + 1)
  <2>1. stack # <<>> => Len(stack) \in 1..Len(stack) /\ stack[Len(stack)].k = "raw"
    BY <1>1, StackIs, FrameIs
  <2>. QED  BY <2>1, StackIs DEF ByHost, Under
<1>3. \A m \in Modules : mods[m].state = "parsed" => mods[m].in = NoOwner
  BY <1>1 DEF RunInv, ModsKept
<1>. QED  BY <1>1, <1>2, <1>3

LEMMA CodeTurnIs ==
  ASSUME RunInv, CodeTurn
  PROVE  /\ ~Compiling /\ Kind \in {"wasm", "loop"} /\ Kind = Top.k
         /\ Len(stack) \in 1..Len(stack) /\ stack[Len(stack)] = Top
         /\ Top.f \in Functions /\ CompiledFn(Top.f) /\ Top.mem = memory[home[Top.f]]
         /\ Under(stack, Len(stack) + 1, {"wasm", "loop"}) /\ Entry(stack, Len(stack) + 1)
<1>1. ~Compiling /\ Kind \in {"wasm", "loop"} /\ Kind = Top.k
  BY StackIs DEF CodeTurn
<1>2. Len(stack) \in 1..Len(stack) /\ stack[Len(stack)] = Top /\ Len(stack) \in Nat
  BY <1>1, StackIs
<1>3. Top \in Frames /\ Backed(Top) /\ Fits(stack, Len(stack), Top)
  BY <1>2, StackIs
<1>4. Top.f \in Functions /\ CompiledFn(Top.f)
  BY <1>1, <1>3, FrameIs DEF Backed
<1>5. Top.mem = memory[home[Top.f]]
  BY <1>1 DEF RunInv, FreshTop, IsFresh
<1>6. Entry(stack, Len(stack))
  BY <1>1, <1>3 DEF Fits
<1>7. Entry(stack, Len(stack) + 1)
  BY <1>2, <1>6 DEF Entry
<1>8. Under(stack, Len(stack) + 1, {"wasm", "loop"})
  BY <1>1, <1>2 DEF Under
<1>. QED  BY <1>1, <1>2, <1>4, <1>5, <1>7, <1>8

LEMMA LoadModuleStep ==
  ASSUME RunInv, NEW m \in Modules, NEW r \in Runtimes, LoadModule(m, r)
  PROVE  RunInv'
<1>1. /\ HostTurn /\ mods[m] = [in |-> NoOwner, state |-> "parsed"]
      /\ memory' = [memory EXCEPT ![r] = @ + 1] /\ mods' = [mods EXCEPT ![m].in = r]
      /\ stack' = Append(stack, [k |-> "load", m |-> m, n |-> Expressions[m]])
      /\ UNCHANGED <<pool, comp, lost, torn, code, home, runtimes, start>>
  BY DEF LoadModule, Runs, pageVars
<1>2. Expressions[m] \in Int
  BY RuntimeAssumption
<1>3. PICK x \in Frames : x = [k |-> "load", m |-> m, n |-> Expressions[m]]
  BY <1>2, IsFrame
<1>4. x.k = "load" /\ x.m = m
  BY <1>3
<1>5. Fits(stack, Len(stack) + 1, x) /\ Ordered(stack) /\ StartsKept(stack, start)
  BY <1>1, <1>4, HostIs DEF Fits, RunInv
<1>6. Ordered(stack') /\ StartsKept(stack', start')
  BY <1>1, <1>3, <1>4, <1>5, OrderedPush, KeptPush
<1>7. /\ Len(stack') = Len(stack) + 1 /\ stack'[Len(stack) + 1] = x
      /\ \A i \in 1..Len(stack) : stack'[i] = stack[i]
  BY <1>1, <1>3, StackIs, Pushed
<1>8. Kind' = "load" /\ Top' = x
  BY <1>4, <1>7, StackIs DEF Kind, Top, Last
<1>9. mods' = [mods EXCEPT ![m] = [in |-> r, state |-> "parsed"]]
  <2>1. [mods[m] EXCEPT !.in = r] = [in |-> r, state |-> "parsed"]
    BY <1>1
  <2>2. mods' = [mods EXCEPT ![m] = [mods[m] EXCEPT !.in = r]]
    BY <1>1
  <2>. QED  BY <2>1, <2>2
<1>10. RunTypes'
  BY <1>1, <1>9 DEF RunInv, RunTypes
<1>11. mods'[m] = [in |-> r, state |-> "parsed"] /\ \A n \in Modules : n # m => mods'[n] = mods[n]
  BY <1>9 DEF RunInv, RunTypes
<1>12. \A f \in Functions : CompiledFn(f) => ModuleOf[f] # m /\ ModuleOf[f] \in Modules
  BY <1>1, Apart DEF RunInv, ModsKept
<1>13. ModsKept'
  <2>1. \A f \in Functions : CompiledFn(f)' => home'[f] = InMod(f)' /\ mods'[ModuleOf[f]].state = "listed"
    BY <1>1, <1>11, <1>12 DEF RunInv, ModsKept, CompiledFn, InMod
  <2>2. \A n \in Modules :
          /\ mods'[n].state = "listed" => mods'[n].in \in Runtimes
          /\ mods'[n].state = "parsed" /\ mods'[n].in # NoOwner => n = m
          /\ mods'[n].state = "freed" => mods'[n].in = NoOwner
    BY <1>1, <1>11, HostIs DEF RunInv, ModsKept
  <2>. QED  BY <1>4, <1>8, <1>11, <2>1, <2>2 DEF ModsKept
<1>14. \A i \in 1..Len(stack') : Backed(stack[i])'
  <2>1. ASSUME NEW i \in 1..Len(stack') PROVE Backed(stack[i])'
    <3>1. i = Len(stack) + 1 \/ (i \in 1..Len(stack) /\ stack'[i] = stack[i] /\ stack[i] \in Frames /\ Backed(stack[i]))
      BY <1>7, StackIs
    <3>2. i = Len(stack) + 1 => stack'[i].k = "load"
      BY <1>4, <1>7
    <3>3. stack[i] \in Frames /\ Backed(stack[i]) /\ stack[i].k = "start" => stack[i].m \in Modules /\ stack[i].m # m
      BY <1>1, FrameIs DEF Backed
    <3>. QED  BY <1>1, <1>11, <3>1, <3>2, <3>3 DEF Backed, CompiledFn
  <2>. QED  BY <2>1
<1>15. CompilesTop' /\ FreshTop'
  <2>1. ~Compiling'
    BY <1>1, HostIs DEF Compiling
  <2>. QED  BY <1>8, <2>1 DEF CompilesTop, FreshTop
<1>. QED  BY <1>6, <1>10, <1>13, <1>14, <1>15 DEF RunInv

LEMMA LoadExpressionStep ==
  ASSUME RunInv, LoadExpression
  PROVE  RunInv'
<1>1. /\ ~Compiling /\ Kind = "load" /\ BeginExpression /\ UNCHANGED <<start, memory>>
      /\ IF comp'.what = "nothing" THEN Fails(Top.m) ELSE UNCHANGED <<mods, stack>>
  BY DEF LoadExpression, Loading
<1>2. /\ UNCHANGED <<code, home>>
      /\ comp'.what = "nothing" \/ (comp'.what = "expression" /\ comp'.used # {})
  BY <1>1 DEF BeginExpression, Start, Idle
<1>3. CASE comp'.what = "nothing"
  BY <1>1, <1>2, <1>3, LoadEnds DEF Fails, Compiling
<1>4. CASE comp'.what # "nothing"
  <2>1. UNCHANGED <<stack, mods, start, memory, code, home>>
    BY <1>1, <1>2, <1>4
  <2>2. Kind' = "load" /\ Top' = Top
    BY <1>1, <2>1 DEF Kind, Top
  <2>3. CompilesTop' /\ FreshTop'
    BY <1>2, <1>4, <2>2 DEF CompilesTop, FreshTop
  <2>4. \A i \in 1..Len(stack') : Backed(stack[i])'
    BY <2>1 DEF RunInv, Backed, CompiledFn
  <2>5. ModsKept'
    BY <1>1, <2>1, <2>2 DEF RunInv, ModsKept, CompiledFn, InMod
  <2>. QED  BY <2>1, <2>3, <2>4, <2>5 DEF RunInv, RunTypes
<1>. QED  BY <1>3, <1>4

LEMMA ExpressionDoneStep ==
  ASSUME RunInv, ExpressionDone
  PROVE  RunInv'
<1>1. /\ comp.what = "expression" /\ Compiling /\ ~Compiling'
      /\ UNCHANGED <<mods, start, memory, code, home>>
      /\ stack' = [stack EXCEPT ![Len(stack)].n = @ - 1]
  BY DEF ExpressionDone, EndExpression, Within, Compiling, Idle
<1>2. /\ Kind = "load" /\ Len(stack) \in 1..Len(stack) /\ Len(stack) \in Nat
      /\ Top = stack[Len(stack)] /\ Top \in Frames /\ Top.k = "load"
  BY <1>1, StackIs DEF RunInv, CompilesTop
<1>3. Top = [k |-> "load", m |-> Top.m, n |-> Top.n] /\ Top.m \in Modules /\ Top.n \in Int
  BY <1>2, FrameIs
<1>4. PICK x \in Frames : x = [k |-> "load", m |-> Top.m, n |-> Top.n - 1]
  <2>1. Top.n - 1 \in Int
    BY <1>3
  <2>. QED  BY <1>3, <2>1, IsFrame
<1>5. /\ stack' \in Seq(Frames) /\ Len(stack') = Len(stack)
      /\ stack'[Len(stack)] = x /\ \A i \in 1..Len(stack) : i # Len(stack) => stack'[i] = stack[i]
  <2>1. [Top EXCEPT !.n = @ - 1] = x
    BY <1>3, <1>4
  <2>2. stack' = [stack EXCEPT ![Len(stack)] = x]
    BY <1>1, <1>2, <2>1
  <2>. QED  BY <1>2, <2>2, StackIs
<1>6. \A i \in 1..Len(stack) :
        /\ stack'[i].k = stack[i].k
        /\ stack'[i].k # "load" => stack'[i] = stack[i]
  BY <1>2, <1>4, <1>5
<1>7. Ordered(stack')
  <2>1. ASSUME NEW i \in 1..Len(stack') PROVE Fits(stack', i, stack'[i])
    <3>1. i \in Nat \ {0} /\ \A j \in 1..(i - 1) : stack'[j] = stack[j]
      BY <1>2, <1>5
    <3>2. Fits(stack, i, stack[i])
      BY <1>5, StackIs
    <3>3. Fits(stack, i, stack'[i])
      BY <1>2, <1>4, <1>5, <3>2 DEF Fits
    <3>. QED  BY <3>1, <3>3, FitsAgain
  <2>. QED  BY <1>5, <2>1 DEF Ordered
<1>8. StartsKept(stack', start')
  <2>1. StartsKept(stack, start') /\ Len(stack) \in Nat
    BY <1>1, <1>2 DEF RunInv
  <2>2. \A i \in 1..Len(stack) :
          /\ stack'[i].k = stack[i].k
          /\ stack'[i].k \in {"call", "start"} => stack'[i] = stack[i]
    BY <1>6
  <2>. QED  BY ONLY <1>5, <2>1, <2>2, KeptSame
<1>9. Kind' = "load" /\ Top' = x /\ x.k = "load" /\ x.m = Top.m
  BY <1>2, <1>4, <1>5 DEF Kind, Top, Last
<1>10. \A i \in 1..Len(stack') : Backed(stack[i])'
  <2>1. ASSUME NEW i \in 1..Len(stack') PROVE Backed(stack'[i])
    <3>1. stack'[i].k = "load" \/ stack'[i] = stack[i]
      BY <1>5, <1>6
    <3>2. Backed(stack[i])
      BY <1>5, StackIs
    <3>. QED  BY <3>1, <3>2 DEF Backed
  <2>. QED  BY <1>1, <2>1 DEF Backed, CompiledFn
<1>11. ModsKept'
  BY <1>1, <1>2, <1>9 DEF RunInv, ModsKept, CompiledFn, InMod
<1>12. CompilesTop' /\ FreshTop'
  BY <1>1, <1>9 DEF CompilesTop, FreshTop
<1>. QED  BY <1>1, <1>7, <1>8, <1>10, <1>11, <1>12 DEF RunInv, RunTypes

LEMMA LoadDoneStep ==
  ASSUME RunInv, LoadDone \/ LoadFails
  PROVE  RunInv'
<1>1. /\ ~Compiling /\ Kind = "load" /\ stack' = Front(stack)
      /\ UNCHANGED <<pool, comp, lost, torn, code, home, runtimes, start, memory>>
      /\ \/ mods' = [mods EXCEPT ![Top.m].in = NoOwner]
         \/ mods' = [mods EXCEPT ![Top.m].state = "listed"]
  BY DEF LoadDone, LoadFails, Loading, Fails, Runs, pageVars
<1>2. ~Compiling'
  BY <1>1 DEF Compiling
<1>. QED  BY <1>1, <1>2, LoadEnds

\* The stack is as it was, and the host goes on.
LEMMA HostGoesOn ==
  ASSUME RunInv, HostTurn, Settled, ~Compiling', UNCHANGED <<stack, start>>
  PROVE  RunInv'
<1>1. stack' = SubSeq(stack, 1, Len(stack)) /\ Len(stack) \in 0..Len(stack)
  BY StackIs
<1>2. Kind # "load" /\ (Len(stack) > 0 => stack[Len(stack)].k = "raw")
  BY HostIs, StackIs, FrameIs
<1>3. StartsKept(stack', start')
  BY DEF RunInv
<1>. QED  BY <1>1, <1>2, <1>3, Left

LEMMA LinkStep ==
  ASSUME RunInv, IInv, NEW f \in Functions, Link(f)
  PROVE  RunInv'
<1>1. /\ HostTurn /\ UNCHANGED <<stack, mods, start, memory>>
      /\ \E r \in Runtimes : r = InMod(f) /\ LinkRaw(r, f)
  BY DEF Link
<1>2. PICK r \in Runtimes : r = InMod(f) /\ LinkRaw(r, f)
  BY <1>1
<1>3. code \in [Functions -> SUBSET Pages] /\ home \in [Functions -> Runtimes \cup {NoOwner}]
  BY DEF IInv, PagesTypeOK
<1>4. /\ comp' = comp
      /\ \/ UNCHANGED <<code, home>>
         \/ \E p : code' = [code EXCEPT ![f] = {p}] /\ home' = [home EXCEPT ![f] = r]
  BY <1>2 DEF LinkRaw
<1>5. mods[ModuleOf[f]].state = "listed"
  <2>1. ModuleOf[f] \in Modules /\ mods[ModuleOf[f]].in # NoOwner
    BY <1>2, Apart DEF InMod
  <2>2. mods[ModuleOf[f]].state \in {"parsed", "listed", "freed"}
    BY <2>1 DEF RunInv, RunTypes
  <2>. QED  BY <1>1, <2>1, <2>2, HostIs DEF RunInv, ModsKept
<1>6. CodeGoesOn
  <2>1. CASE UNCHANGED <<code, home>>
    BY <2>1, CodeStill
  <2>2. CASE \E p : code' = [code EXCEPT ![f] = {p}] /\ home' = [home EXCEPT ![f] = r]
    <3>1. PICK p : code' = [code EXCEPT ![f] = {p}] /\ home' = [home EXCEPT ![f] = r]
      BY <2>2
    <3>2. code'[f] = {p} /\ home'[f] = r /\ \A g \in Functions : g # f => code'[g] = code[g] /\ home'[g] = home[g]
      BY <1>3, <3>1
    <3>. QED  BY <1>2, <1>5, <3>2 DEF CodeGoesOn, CompiledFn, RunInv, ModsKept
  <2>. QED  BY <1>4, <2>1, <2>2
<1>7. Settled /\ ~Compiling'
  BY <1>1, <1>4, <1>6, HostIs DEF Settled, CodeGoesOn, RunInv, RunTypes, Compiling
<1>. QED  BY <1>1, <1>7, HostGoesOn

LEMMA OpenStep ==
  ASSUME RunInv, NEW r \in Runtimes, Open(r)
  PROVE  RunInv'
<1>1. HostTurn /\ ~Compiling /\ UNCHANGED <<stack, mods, start, memory, comp, code, home>>
  BY HostIs DEF Open, NewRuntime
<1>2. Settled /\ ~Compiling'
  BY <1>1, StillSettled DEF RunInv, RunTypes, Compiling
<1>. QED  BY <1>1, <1>2, HostGoesOn

LEMMA CloseStep ==
  ASSUME RunInv, IInv, NEW r \in Runtimes, Close(r)
  PROVE  RunInv'
<1>1. /\ HostTurn /\ stack = <<>> /\ ~Compiling /\ UNCHANGED <<stack, start, memory, comp>>
      /\ mods' = [m \in Modules |-> IF mods[m].in = r THEN [in |-> NoOwner, state |-> "freed"] ELSE mods[m]]
      /\ code' = [f \in Functions |-> IF home[f] = r THEN {} ELSE code[f]]
      /\ home' = [f \in Functions |-> IF home[f] = r THEN NoOwner ELSE home[f]]
  BY DEF Close, FreeRuntime
<1>2. stack' = <<>> /\ Len(stack') = 0 /\ ~Compiling' /\ Kind' = "none"
  BY <1>1 DEF Compiling, Kind
<1>3. RunTypes'
  BY <1>1 DEF RunInv, RunTypes
<1>4. Ordered(stack') /\ StartsKept(stack', start')
  BY <1>1 DEF RunInv
<1>5. ModsKept'
  <2>1. \A m \in Modules :
          /\ mods'[m].state = "listed" => mods'[m].in \in Runtimes
          /\ mods'[m].state = "parsed" => mods'[m].in = NoOwner
          /\ mods'[m].state = "freed" => mods'[m].in = NoOwner
    BY <1>1, HostIs DEF RunInv, ModsKept
  <2>2. ASSUME NEW f \in Functions, CompiledFn(f)'
        PROVE  home'[f] = InMod(f)' /\ mods'[ModuleOf[f]].state = "listed"
    <3>1. home[f] # r /\ CompiledFn(f) /\ home'[f] = home[f]
      BY <1>1, <2>2 DEF CompiledFn
    <3>2. home[f] = InMod(f) /\ mods[ModuleOf[f]].state = "listed" /\ ModuleOf[f] \in Modules
      BY <3>1, Apart DEF RunInv, ModsKept
    <3>3. mods'[ModuleOf[f]] = mods[ModuleOf[f]]
      BY <1>1, <3>1, <3>2 DEF InMod
    <3>. QED  BY <3>1, <3>2, <3>3 DEF InMod
  <2>. QED  BY <1>2, <2>1, <2>2 DEF ModsKept
<1>6. CompilesTop' /\ FreshTop' /\ \A i \in 1..Len(stack') : Backed(stack[i])'
  BY <1>2 DEF CompilesTop, FreshTop
<1>. QED  BY <1>2, <1>3, <1>4, <1>5, <1>6 DEF RunInv

LEMMA FindFunctionStep ==
  ASSUME RunInv, NEW f \in Functions, FindFunction(f)
  PROVE  RunInv'
<1>1. /\ HostTurn /\ mods[ModuleOf[f]].state = "listed" /\ CompileFor(stack, f, "find")
      /\ UNCHANGED <<mods, memory>>
  BY DEF FindFunction
<1>2. Kind \notin {"load", "compile"} /\ Fits(stack, Len(stack) + 1, [k |-> "compile", f |-> f, then |-> "find"])
  BY <1>1, HostIs DEF Fits
<1>. QED  BY <1>1, <1>2, CompileForStep

LEMMA CallStep ==
  ASSUME RunInv, NEW f \in Functions, Call(f)
  PROVE  RunInv'
<1>1. PICK x \in Frames : x = [k |-> "call", f |-> f]
  BY IsFrame
<1>2. x.k = "call" /\ x.f = f
  BY <1>1
<1>3. /\ HostTurn /\ CompiledFn(f) /\ stack' = Append(stack, x)
      /\ UNCHANGED <<mods, memory, code, home, comp, start>>
  BY <1>1 DEF Call, Runs, pageVars
<1>4. Fits(stack, Len(stack) + 1, x) /\ Backed(x)
  BY <1>2, <1>3, HostIs DEF Fits, Backed
<1>5. Kind # "load" /\ ~Compiling
  BY <1>3, HostIs
<1>. QED  BY <1>2, <1>3, <1>4, <1>5, PushStep

LEMMA RunStartStep ==
  ASSUME RunInv, NEW m \in Modules, RunStart(m)
  PROVE  RunInv'
<1>1. PICK x \in Frames : x = [k |-> "start", m |-> m]
  BY IsFrame
<1>2. x.k = "start" /\ x.m = m
  BY <1>1
<1>3. /\ ~Compiling /\ start[m] = "pending" /\ mods[m].state = "listed" /\ stack' = Append(stack, x)
      /\ HostTurn \/ Kind = "call"
      /\ UNCHANGED <<mods, memory, code, home, comp, start>>
  BY <1>1 DEF RunStart, Runs, pageVars
<1>4. Kind \in {"none", "raw", "call"}
  BY <1>3, HostIs
<1>5. Fits(stack, Len(stack) + 1, x) /\ Backed(x)
  <2>1. CASE HostTurn
    BY <1>2, <1>3, <2>1, HostIs DEF Fits, Backed
  <2>2. CASE Kind = "call"
    <3>1. Under(stack, Len(stack) + 1, {"call"})
      BY <2>2, StackIs DEF Under
    <3>. QED  BY <1>2, <1>3, <3>1 DEF Fits, Backed
  <2>. QED  BY <1>3, <2>1, <2>2
<1>6. ASSUME NEW i \in 1..Len(stack), stack[i].k = "start", stack[i].m = m
      PROVE  FALSE
  <2>1. i < Len(stack) /\ i + 1 \in 1..Len(stack) /\ (i + 1) - 1 = i
    BY <1>4, <1>6, StackIs
  <2>2. stack[i + 1] \in Frames /\ Fits(stack, i + 1, stack[i + 1])
    BY <2>1, StackIs
  <2>3. stack[i + 1].k \in {"wasm", "compile"}
    BY <1>6, <2>1, <2>2, FrameIs DEF Fits, ByHost, Under
  <2>4. CASE stack[i + 1].k = "wasm"
    <3>1. Running(stack, i)
      BY <2>1, <2>4 DEF Running
    <3>. QED  BY <1>3, <1>6, <3>1 DEF RunInv, StartsKept
  <2>5. CASE stack[i + 1].k = "compile"
    <3>1. i + 1 < Len(stack) /\ i + 2 \in 1..Len(stack) /\ (i + 2) - 1 = i + 1
      BY <1>4, <2>1, <2>5, StackIs
    <3>2. stack[i + 2] \in Frames /\ Fits(stack, i + 2, stack[i + 2])
      BY <3>1, StackIs
    <3>. QED  BY <2>1, <2>5, <3>1, <3>2, FrameIs DEF Fits, ByHost, Under
  <2>. QED  BY <2>3, <2>4, <2>5
<1>7. \A i \in 1..Len(stack) : stack[i].k = "call" /\ Running(stack, i) => ModuleOf[stack[i].f] # m
  BY <1>3 DEF RunInv, StartsKept
<1>8. \A i \in 1..Len(stack) : stack[i].k = "start" => stack[i].m # x.m
  BY <1>2, <1>6
<1>9. \A i \in 1..Len(stack) : stack[i].k = "call" /\ Running(stack, i) => ModuleOf[stack[i].f] # x.m
  BY <1>2, <1>7
<1>10. Kind # "load"
  BY <1>4
<1>. QED  BY <1>2, <1>3, <1>5, <1>8, <1>9, <1>10, PushStep

LEMMA OpLoopStep ==
  ASSUME RunInv, OpLoop
  PROVE  RunInv'
<1>1. /\ CodeTurn /\ stack' = Append(stack, Frame("loop", Top.f, Top.mem))
      /\ UNCHANGED <<mods, memory, code, home, comp, start>>
  BY DEF OpLoop, Runs, pageVars
<1>2. Top.mem \in Nat
  BY <1>1, CodeTurnIs, CodeIsLoaded
<1>3. PICK x \in Frames : x = Frame("loop", Top.f, Top.mem)
  BY <1>1, <1>2, CodeTurnIs, IsFrame
<1>4. x.k = "loop" /\ x.f = Top.f /\ x.mem = Top.mem
  BY <1>3 DEF Frame
<1>5. InLoop(stack, Len(stack) + 1)
  <2>1. CASE Kind = "wasm"
    <3>1. /\ Len(stack) \in 1..((Len(stack) + 1) - 1) /\ stack[Len(stack)].k = "wasm"
          /\ \A l \in (Len(stack) + 1)..((Len(stack) + 1) - 1) : FALSE
      BY <1>1, <2>1, CodeTurnIs, StackIs
    <3>. QED  BY <3>1 DEF InLoop
  <2>2. CASE Kind = "loop"
    <3>1. Len(stack) \in 1..Len(stack) /\ Len(stack) \in Nat /\ stack[Len(stack)].k = "loop"
      BY <1>1, <2>2, CodeTurnIs, StackIs
    <3>2. InLoop(stack, Len(stack))
      BY <3>1, StackIs DEF Fits
    <3>3. PICK j \in 1..(Len(stack) - 1) : stack[j].k = "wasm" /\ \A l \in (j + 1)..(Len(stack) - 1) : stack[l].k = "loop"
      BY <3>2 DEF InLoop
    <3>4. \A l \in (j + 1)..Len(stack) : stack[l].k = "loop"
      BY <3>1, <3>3
    <3>5. j \in 1..((Len(stack) + 1) - 1) /\ (Len(stack) + 1) - 1 = Len(stack)
      BY <3>1
    <3>. QED  BY <3>3, <3>4, <3>5 DEF InLoop
  <2>. QED  BY <1>1, <2>1, <2>2, CodeTurnIs
<1>6. Fits(stack, Len(stack) + 1, x)
  BY <1>1, <1>4, <1>5, CodeTurnIs DEF Fits
<1>7. Backed(x) /\ IsFresh(x) /\ ~Compiling /\ Kind # "load" /\ stack' = Append(stack, x)
  BY <1>1, <1>3, <1>4, CodeTurnIs DEF Backed, IsFresh
<1>. QED  BY <1>1, <1>4, <1>6, <1>7, PushStep

LEMMA OpContinueLoopStep ==
  ASSUME RunInv, OpContinueLoop
  PROVE  RunInv'
<1>. DEFINE T == {i \in DOMAIN stack : stack[i].k \in {"wasm"}}
            w == Max(T)
<1>1. /\ CodeTurn /\ UNCHANGED <<mods, memory, code, home, comp, start>>
      /\ \E i \in (Innermost({"wasm"}) + 1)..Len(stack) :
           stack' = Append(SubSeq(stack, 1, i - 1), Refreshed(stack[i]))
  BY DEF OpContinueLoop, Runs, pageVars
<1>2. Innermost({"wasm"}) = w
  BY DEF Innermost
<1>3. /\ Len(stack) \in 1..Len(stack) /\ Len(stack) \in Nat /\ stack[Len(stack)].k \in {"wasm", "loop"}
      /\ Fits(stack, Len(stack), stack[Len(stack)])
  BY <1>1, CodeTurnIs, StackIs
<1>4. PICK j \in 1..Len(stack) : stack[j].k = "wasm" /\ \A l \in (j + 1)..Len(stack) : stack[l].k = "loop"
  <2>1. CASE stack[Len(stack)].k = "wasm"
    <3>1. \A l \in (Len(stack) + 1)..Len(stack) : FALSE
      BY <1>3
    <3>. QED  BY <1>3, <2>1, <3>1
  <2>2. CASE stack[Len(stack)].k = "loop"
    <3>1. PICK j \in 1..(Len(stack) - 1) : stack[j].k = "wasm" /\ \A l \in (j + 1)..(Len(stack) - 1) : stack[l].k = "loop"
      BY <1>3, <2>2 DEF Fits, InLoop
    <3>2. j \in 1..Len(stack) /\ \A l \in (j + 1)..Len(stack) : stack[l].k = "loop"
      BY <1>3, <2>2, <3>1
    <3>. QED  BY <3>1, <3>2
  <2>. QED  BY <1>3, <2>1, <2>2
<1>5. T \in SUBSET (1..Len(stack)) /\ j \in T
  BY <1>4, StackIs
<1>6. w \in T /\ j <= w
  <2>. HIDE DEF T
  <2>. QED  BY <1>3, <1>5, HasMax
<1>. HIDE DEF w
<1>7. w \in 1..Len(stack)
  BY <1>5, <1>6
<1>8. PICK i \in (w + 1)..Len(stack) : stack' = Append(SubSeq(stack, 1, i - 1), Refreshed(stack[i]))
  BY <1>1, <1>2
<1>9. i \in 1..Len(stack) /\ i \in (j + 1)..Len(stack)
  BY <1>3, <1>6, <1>7, <1>8
<1>10. stack[i].k \in {"wasm", "loop"} /\ ~Compiling /\ Kind # "load"
  BY <1>1, <1>4, <1>9, CodeTurnIs
<1>. QED  BY <1>1, <1>8, <1>9, <1>10, RefreshStep

LEMMA OpReturnStep ==
  ASSUME RunInv, OpReturn
  PROVE  RunInv'
<1>. DEFINE T == {i \in DOMAIN stack : stack[i].k \in {"wasm"}}
            w == Max(T)
<1>1. CodeTurn /\ UNCHANGED <<mods, memory, code, home, comp>> /\ BackTo(w - 1)
  BY DEF OpReturn, Runs, pageVars, Innermost
<1>2. /\ Len(stack) \in 1..Len(stack) /\ Len(stack) \in Nat /\ stack[Len(stack)].k \in {"wasm", "loop"}
      /\ Fits(stack, Len(stack), stack[Len(stack)])
  BY <1>1, CodeTurnIs, StackIs
<1>3. PICK j \in 1..Len(stack) : stack[j].k = "wasm"
  BY <1>2 DEF Fits, InLoop
<1>4. T \in SUBSET (1..Len(stack)) /\ j \in T
  BY <1>3, StackIs
<1>5. w \in T
  <2>. HIDE DEF T
  <2>. QED  BY <1>2, <1>4, HasMax
<1>6. w \in 1..Len(stack) /\ stack[w].k = "wasm"
  BY <1>4, <1>5
<1>. HIDE DEF w
<1>7. Under(stack, w, {"call", "start", "wasm", "loop"})
  BY <1>6, StackIs DEF Fits
<1>8. w - 1 \in 1..Len(stack) /\ w - 1 < Len(stack) /\ (w - 1) + 1 = w
  BY <1>2, <1>6, <1>7 DEF Under
<1>9. ~Compiling /\ Kind # "load"
  BY <1>1, CodeTurnIs
<1>. QED  BY <1>1, <1>6, <1>8, <1>9, BackStep

LEMMA HostReturnsStep ==
  ASSUME RunInv, HostReturns
  PROVE  RunInv'
<1>1. /\ Kind = "raw" /\ ~Compiling /\ UNCHANGED <<mods, memory, code, home, comp>>
      /\ BackTo(Len(stack) - 1) \/ Unwound
  BY DEF HostReturns, HostTurn, Runs, pageVars
<1>2. /\ Len(stack) \in 1..Len(stack) /\ Len(stack) \in Nat /\ stack[Len(stack)].k = "raw"
      /\ Fits(stack, Len(stack), stack[Len(stack)])
  BY <1>1, StackIs
<1>3. Under(stack, Len(stack), {"call", "wasm", "loop"}) /\ Entry(stack, Len(stack))
  BY <1>2 DEF Fits
<1>4. Len(stack) - 1 \in 1..Len(stack) /\ Len(stack) - 1 < Len(stack) /\ (Len(stack) - 1) + 1 = Len(stack)
  BY <1>2, <1>3 DEF Under
<1>5. Entry(stack, Len(stack) + 1)
  BY <1>2, <1>3 DEF Entry
<1>6. CASE BackTo(Len(stack) - 1)
  BY <1>1, <1>2, <1>4, <1>6, BackStep
<1>7. CASE Unwound
  <2>1. ~Compiling'
    BY <1>1 DEF Compiling
  <2>. QED  BY <1>1, <1>5, <1>7, <2>1, UnwindStep
<1>. QED  BY <1>1, <1>6, <1>7

LEMMA TrapStep ==
  ASSUME RunInv, Trap
  PROVE  RunInv'
<1>1. CodeTurn /\ Unwound /\ UNCHANGED <<mods, memory, code, home, comp>>
  BY DEF Trap, Runs, pageVars
<1>2. Kind # "load" /\ Entry(stack, Len(stack) + 1) /\ ~Compiling'
  BY <1>1, CodeTurnIs DEF Compiling
<1>. QED  BY <1>1, <1>2, UnwindStep

\* Code is entered from the innermost frame.
LEMMA EnterTop ==
  ASSUME RunInv, ~Compiling, Kind \in {"call", "wasm", "loop"}, UNCHANGED <<mods, memory, code, home, comp, start>>,
         NEW g \in Functions, CompiledFn(g), stack' = Entered(stack, g, memory[home[g]]),
         Kind = "call" => start[ModuleOf[Top.f]] # "pending"
  PROVE  RunInv'
<1>1. /\ Len(stack) \in 1..Len(stack) /\ stack = SubSeq(stack, 1, Len(stack)) /\ Top = stack[Len(stack)]
      /\ stack[Len(stack)].k = Kind
  BY StackIs
<1>2. memory[home[g]] \in Nat /\ CompiledFn(g)' /\ memory[home[g]] = memory'[home'[g]]
  BY CodeIsLoaded DEF CompiledFn
<1>3. Settled /\ ~Compiling'
  BY StillSettled DEF RunInv, RunTypes, Compiling
<1>4. StartsKept(stack, start')
  BY DEF RunInv
<1>5. /\ stack[Len(stack)].k = "call" => start'[ModuleOf[stack[Len(stack)].f]] # "pending"
      /\ stack[Len(stack)].k = "start" => g \notin Imports /\ start'[stack[Len(stack)].m] = "running"
      /\ stack[Len(stack)].k \in {"call", "start", "wasm", "loop"} /\ Kind # "load"
  BY <1>1
<1>. QED  BY <1>1, <1>2, <1>3, <1>4, <1>5, EnterStep

LEMMA RunCalledStep ==
  ASSUME RunInv, RunCalled
  PROVE  RunInv'
<1>1. /\ ~Compiling /\ Kind = "call" /\ start[ModuleOf[Top.f]] # "pending"
      /\ stack' = Entered(stack, Top.f, memory[home[Top.f]])
      /\ UNCHANGED <<mods, memory, code, home, comp, start>>
  BY DEF RunCalled, CheckStart, Runs, pageVars
<1>2. Top.k = "call" /\ Top \in Frames /\ Backed(Top)
  BY <1>1, StackIs
<1>3. Top.f \in Functions /\ CompiledFn(Top.f)
  BY <1>2, FrameIs DEF Backed
<1>. QED  BY <1>1, <1>3, EnterTop

\* A function of the module of the one that runs is compiled for it.
LEMMA CompileInPlace ==
  ASSUME RunInv, CodeTurn, UNCHANGED <<mods, memory>>, NEW g \in Functions, ModuleOf[g] = ModuleOf[Top.f],
         NEW then \in {"site", "indirect"}, CompileFor(stack, g, then)
  PROVE  RunInv'
<1>1. /\ Kind \notin {"load", "compile"} /\ Top.f \in Functions /\ CompiledFn(Top.f)
      /\ mods[ModuleOf[g]].state = "listed" /\ IsFresh(Top)
  BY CodeTurnIs, CodeIsLoaded DEF IsFresh
<1>2. Fits(stack, Len(stack) + 1, [k |-> "compile", f |-> g, then |-> then])
  <2>1. (Len(stack) + 1) - 1 = Len(stack)
    BY CodeTurnIs, StackIs
  <2>. QED  BY <2>1, CodeTurnIs DEF Fits
<1>. QED  BY <1>1, <1>2, CompileForStep

LEMMA Unmoved ==
  ASSUME RunInv, UNCHANGED <<stack, mods, memory, code, home, comp, start>>
  PROVE  RunInv'
<1>1. \A i \in 1..Len(stack') : Backed(stack[i])'
  BY DEF RunInv, Backed, CompiledFn
<1>2. ModsKept' /\ CompilesTop' /\ FreshTop'
  BY DEF RunInv, ModsKept, CompilesTop, FreshTop, IsFresh, CompiledFn, InMod, Kind, Top, Compiling
<1>. QED  BY <1>1, <1>2 DEF RunInv, RunTypes

LEMMA OpCallStep ==
  ASSUME RunInv, SitesKept, NEW g \in Functions, OpCall(g)
  PROVE  RunInv'
<1>1. /\ CodeTurn /\ g \in Calls[Top.f] /\ UNCHANGED <<mods, memory>>
      /\ \/ /\ site[Top.f][g] = "code" \/ CompiledFn(g)
            /\ stack' = Entered(stack, g, Top.mem) /\ Runs /\ UNCHANGED start
         \/ CompileFor(stack, g, "site")
         \/ Runs /\ UNCHANGED <<stack, start>>
  BY Zenon DEF OpCall
<1>2. /\ Top.f \in Functions /\ CompiledFn(Top.f) /\ ~Compiling /\ Kind \in {"wasm", "loop"}
      /\ Top.mem = memory[home[Top.f]] /\ ModuleOf[g] = ModuleOf[Top.f]
  BY <1>1, CodeTurnIs, Apart
<1>3. CASE /\ site[Top.f][g] = "code" \/ CompiledFn(g)
           /\ stack' = Entered(stack, g, Top.mem) /\ Runs /\ UNCHANGED start
  <2>1. CompiledFn(g)
    BY <1>2, <1>3 DEF SitesKept
  <2>2. home[g] = home[Top.f]
    BY <1>2, <2>1, CodeIsLoaded DEF InMod
  <2>3. stack' = Entered(stack, g, memory[home[g]]) /\ UNCHANGED <<mods, memory, code, home, comp, start>>
    BY <1>1, <1>2, <1>3, <2>2 DEF Runs, pageVars
  <2>. QED  BY <1>2, <2>1, <2>3, EnterTop
<1>4. CASE CompileFor(stack, g, "site")
  BY <1>1, <1>2, <1>4, CompileInPlace
<1>5. CASE Runs /\ UNCHANGED <<stack, start>>
  <2>1. UNCHANGED <<stack, mods, memory, code, home, comp, start>>
    BY <1>1, <1>5 DEF Runs, pageVars
  <2>. QED  BY <2>1, Unmoved
<1>. QED  BY <1>1, <1>3, <1>4, <1>5

LEMMA OpCallIndirectStep ==
  ASSUME RunInv, NEW g \in Functions, OpCallIndirect(g)
  PROVE  RunInv'
<1>1. /\ CodeTurn /\ g \in Table[ModuleOf[Top.f]] /\ UNCHANGED <<mods, memory>>
      /\ \/ CompiledFn(g) /\ stack' = Entered(stack, g, Top.mem) /\ Runs /\ UNCHANGED start
         \/ CompileFor(stack, g, "indirect")
  BY DEF OpCallIndirect
<1>2. /\ Top.f \in Functions /\ CompiledFn(Top.f) /\ ~Compiling /\ Kind \in {"wasm", "loop"}
      /\ Top.mem = memory[home[Top.f]] /\ ModuleOf[g] = ModuleOf[Top.f]
  BY <1>1, CodeTurnIs, Apart
<1>3. CASE CompiledFn(g) /\ stack' = Entered(stack, g, Top.mem) /\ Runs /\ UNCHANGED start
  <2>1. home[g] = home[Top.f]
    BY <1>2, <1>3, CodeIsLoaded DEF InMod
  <2>2. stack' = Entered(stack, g, memory[home[g]]) /\ UNCHANGED <<mods, memory, code, home, comp, start>>
    BY <1>1, <1>2, <1>3, <2>1 DEF Runs, pageVars
  <2>. QED  BY <1>2, <1>3, <2>2, EnterTop
<1>4. CASE CompileFor(stack, g, "indirect")
  BY <1>1, <1>2, <1>4, CompileInPlace
<1>. QED  BY <1>1, <1>3, <1>4

LEMMA OpMemGrowStep ==
  ASSUME RunInv, OpMemGrow
  PROVE  RunInv'
<1>1. /\ CodeTurn /\ memory' = [memory EXCEPT ![home[Top.f]] = @ + 1]
      /\ stack' = [stack EXCEPT ![Len(stack)].mem = memory'[home[Top.f]]]
      /\ UNCHANGED <<mods, start, code, home, comp>>
  BY DEF OpMemGrow, RunningIn, Runs, pageVars
<1>2. /\ Len(stack) \in 1..Len(stack) /\ Len(stack) \in Nat /\ Top = stack[Len(stack)]
      /\ Top \in Frames /\ Top.k \in {"wasm", "loop"} /\ Kind = Top.k /\ ~Compiling
      /\ Top.f \in Functions /\ CompiledFn(Top.f)
  BY <1>1, CodeTurnIs, StackIs
<1>3. Top = [k |-> Top.k, f |-> Top.f, mem |-> Top.mem]
  BY <1>2, FrameIs
<1>4. home[Top.f] \in Runtimes /\ memory \in [Runtimes -> Nat] /\ memory[home[Top.f]] \in Nat
  BY <1>2, CodeIsLoaded DEF RunInv, RunTypes
<1>5. memory' \in [Runtimes -> Nat] /\ memory'[home[Top.f]] \in Nat
  BY <1>1, <1>4
<1>6. PICK x \in Frames : x = Frame(Top.k, Top.f, memory'[home[Top.f]])
  BY <1>2, <1>5, IsFrame
<1>7. x.k = Top.k /\ x.f = Top.f /\ x.mem = memory'[home[Top.f]]
  BY <1>6 DEF Frame
<1>8. /\ stack' \in Seq(Frames) /\ Len(stack') = Len(stack)
      /\ stack'[Len(stack)] = x /\ \A i \in 1..Len(stack) : i # Len(stack) => stack'[i] = stack[i]
  <2>1. [Top EXCEPT !.mem = memory'[home[Top.f]]] = x
    <3>1. PICK y : y = Top
      OBVIOUS
    <3>2. y = [k |-> Top.k, f |-> Top.f, mem |-> Top.mem]
      BY <1>3, <3>1
    <3>3. [y EXCEPT !.mem = memory'[home[Top.f]]] = [k |-> Top.k, f |-> Top.f, mem |-> memory'[home[Top.f]]]
      BY <3>2
    <3>. QED  BY <1>6, <3>1, <3>3 DEF Frame
  <2>2. stack' = [stack EXCEPT ![Len(stack)] = x]
    BY <1>1, <1>2, <2>1
  <2>. QED  BY <1>2, <2>2, StackIs
<1>9. \A i \in 1..Len(stack) :
        /\ stack'[i].k = stack[i].k
        /\ stack'[i].k \notin {"wasm", "loop"} => stack'[i] = stack[i]
  BY <1>2, <1>7, <1>8
<1>10. Ordered(stack')
  <2>1. ASSUME NEW i \in 1..Len(stack') PROVE Fits(stack', i, stack'[i])
    <3>1. PICK y : y = stack'[i]
      OBVIOUS
    <3>2. i \in Nat \ {0} /\ i \in 1..Len(stack) /\ \A j \in 1..(i - 1) : stack'[j] = stack[j]
      BY <1>2, <1>8
    <3>3. Fits(stack, i, stack[i])
      BY <3>2, StackIs
    <3>4. y = stack[i] \/ (i = Len(stack) /\ y = x)
      BY <1>8, <3>1, <3>2
    <3>5. Fits(stack, i, y)
      BY <1>2, <1>7, <3>3, <3>4 DEF Fits
    <3>. QED  BY <3>1, <3>2, <3>5, FitsAgain
  <2>. QED  BY <1>8, <2>1 DEF Ordered
<1>11. StartsKept(stack', start')
  <2>1. StartsKept(stack, start') /\ Len(stack) \in Nat
    BY <1>1, <1>2 DEF RunInv
  <2>2. \A i \in 1..Len(stack) :
          /\ stack'[i].k = stack[i].k
          /\ stack'[i].k \in {"call", "start"} => stack'[i] = stack[i]
    BY <1>9
  <2>. QED  BY ONLY <1>8, <2>1, <2>2, KeptSame
<1>12. Kind' = x.k /\ Top' = x
  BY <1>2, <1>8 DEF Kind, Top, Last
<1>13. \A i \in 1..Len(stack') : Backed(stack[i])'
  <2>1. ASSUME NEW i \in 1..Len(stack') PROVE Backed(stack'[i])
    <3>1. i \in 1..Len(stack) /\ (stack'[i] = stack[i] \/ stack'[i] = x)
      BY <1>8
    <3>2. Backed(stack[i]) /\ Backed(x)
      BY <1>2, <1>7, <3>1, StackIs DEF Backed
    <3>. QED  BY <3>1, <3>2
  <2>. QED  BY <1>1, <2>1 DEF Backed, CompiledFn
<1>14. Settled /\ ~Compiling' /\ FreshTop' /\ Kind # "load"
  <2>1. Settled
    BY <1>1, <1>5 DEF Settled, RunInv, RunTypes, ModsKept, InMod, CompiledFn
  <2>2. ~Compiling' /\ Kind # "load" /\ Kind' \in {"wasm", "loop"}
    BY <1>1, <1>2, <1>7, <1>12 DEF Compiling
  <2>3. FreshTop'
    BY <1>1, <1>7, <1>12, <2>2 DEF FreshTop, IsFresh
  <2>. QED  BY <2>1, <2>2, <2>3
<1>15. Kind' \notin {"load", "compile"}
  BY <1>2, <1>7, <1>12
<1>. QED  BY <1>10, <1>11, <1>13, <1>14, <1>15, SettledIs

LEMMA EmitNextStep ==
  ASSUME RunInv, IInv, EmitNext
  PROVE  RunInv'
<1>1. /\ Compiling /\ UNCHANGED <<memory, code, home>>
      /\ comp'.what = "nothing" \/ (comp'.what = comp.what /\ comp'.in = comp.in /\ comp'.used # {})
      /\ IF comp'.what = "nothing" THEN CompileFailed ELSE UNCHANGED <<stack, mods, start>>
  BY EmitIs DEF EmitNext, GivesUp
<1>2. CASE comp'.what = "nothing"
  <2>1. ~Compiling' /\ CompileFailed /\ CodeGoesOn
    BY <1>1, <1>2, CodeStill DEF Compiling
  <2>. QED  BY <1>1, <2>1, FailedStep
<1>3. CASE comp'.what # "nothing"
  <2>1. /\ UNCHANGED <<stack, mods, start, memory, code, home>>
        /\ comp'.what = comp.what /\ comp'.in = comp.in /\ comp'.used # {}
    BY <1>1, <1>3
  <2>2. \A i \in 1..Len(stack') : Backed(stack[i])'
    BY <2>1 DEF RunInv, Backed, CompiledFn
  <2>3. ModsKept' /\ CompilesTop' /\ FreshTop'
    BY <1>1, <2>1 DEF RunInv, ModsKept, CompilesTop, FreshTop, IsFresh, CompiledFn, InMod, Kind, Top, Compiling
  <2>. QED  BY <2>1, <2>2, <2>3 DEF RunInv, RunTypes
<1>. QED  BY <1>2, <1>3

\* The function compiled gets its code, in the runtime of its module.
LEMMA EndIs ==
  ASSUME RunInv, IInv, EndFunction
  PROVE  /\ Compiling /\ ~Compiling' /\ Kind = "compile" /\ Top.k = "compile" /\ Top.f \in Functions
         /\ comp.what = Top.f /\ CodeGoesOn /\ code'[Top.f] # {} /\ home'[Top.f] = InMod(Top.f)
         /\ \A f \in Functions : f # Top.f => code'[f] = code[f] /\ home'[f] = home[f]
<1>1. /\ comp.what \in Functions /\ ~Compiling' /\ Compiling
      /\ code' = [code EXCEPT ![comp.what] = comp.used] /\ home' = [home EXCEPT ![comp.what] = comp.in]
  BY DEF EndFunction, InFunction, Compiling, Idle
<1>2. code \in [Functions -> SUBSET Pages] /\ home \in [Functions -> Runtimes \cup {NoOwner}]
  BY DEF IInv, PagesTypeOK
<1>3. comp.used # {} /\ Kind = "compile"
  BY <1>1, Apart DEF RunInv, CompilesTop
<1>4. comp.what = Top.f /\ comp.in = InMod(Top.f) /\ mods[ModuleOf[Top.f]].state = "listed" /\ Top.k = "compile"
  BY <1>3, StackIs DEF RunInv, CompilesTop
<1>5. /\ code'[Top.f] = comp.used /\ home'[Top.f] = InMod(Top.f)
      /\ \A f \in Functions : f # Top.f => code'[f] = code[f] /\ home'[f] = home[f]
  BY <1>1, <1>2, <1>4
<1>6. CodeGoesOn
  BY <1>1, <1>3, <1>4, <1>5 DEF CodeGoesOn, CompiledFn, RunInv, ModsKept
<1>7. code'[Top.f] # {} /\ Top.f \in Functions
  BY <1>1, <1>3, <1>4, <1>5 
<1>. QED  BY <1>1, <1>3, <1>4, <1>5, <1>6, <1>7

LEMMA CompiledWithoutConstantsStep ==
  ASSUME RunInv, IInv, CompiledWithoutConstants
  PROVE  RunInv'
<1>1. EndFunction /\ CompileFailed /\ UNCHANGED memory
  BY DEF CompiledWithoutConstants, GivesUp
<1>2. Compiling /\ ~Compiling' /\ CodeGoesOn /\ Kind # "load"
  BY <1>1, EndIs
<1>. QED  BY <1>1, <1>2, FailedStep

\* The start function of a module begins: that is all right for those that run.
LEMMA StartRuns ==
  ASSUME NEW s, Ordered(s), NEW st \in [Modules -> {"none", "pending", "running", "done"}], StartsKept(s, st),
         NEW m \in Modules
  PROVE  /\ [st EXCEPT ![m] = "running"] \in [Modules -> {"none", "pending", "running", "done"}]
         /\ StartsKept(s, [st EXCEPT ![m] = "running"])
<1>1. PICK t : t = [st EXCEPT ![m] = "running"]
  OBVIOUS
<1>2. /\ t \in [Modules -> {"none", "pending", "running", "done"}]
      /\ t[m] = "running" /\ \A n \in Modules : n # m => t[n] = st[n]
  BY <1>1
<1>3. \A i \in 1..Len(s) : /\ s[i].k = "call" => ModuleOf[s[i].f] \in Modules
                           /\ s[i].k = "start" => s[i].m \in Modules
  <2>1. ASSUME NEW i \in 1..Len(s)
        PROVE  /\ s[i].k = "call" => ModuleOf[s[i].f] \in Modules
               /\ s[i].k = "start" => s[i].m \in Modules
    <3>1. s[i] \in Frames
      BY DEF Ordered
    <3>. QED  BY <3>1, FrameIs, Apart
  <2>. QED  BY <2>1
<1>4. StartsKept(s, t)
  BY <1>2, <1>3 DEF StartsKept
<1>. QED  BY <1>1, <1>2, <1>4

LEMMA RunStartFunctionStep ==
  ASSUME RunInv, RunStartFunction
  PROVE  RunInv'
<1>1. PICK f \in Functions :
        /\ f = StartOf[Top.m]
        /\ IF CompiledFn(f)
           THEN /\ stack' = Entered(stack, f, memory[InMod(f)])
                /\ start' = [start EXCEPT ![Top.m] = "running"]
                /\ Runs
           ELSE CompileFor(stack, f, "start")
  BY DEF RunStartFunction
<1>2. ~Compiling /\ Kind = "start" /\ UNCHANGED <<mods, memory>>
  BY DEF RunStartFunction
<1>3. /\ Len(stack) \in 1..Len(stack) /\ stack = SubSeq(stack, 1, Len(stack)) /\ Top = stack[Len(stack)]
      /\ Top.k = "start" /\ Top \in Frames /\ Backed(Top) /\ Len(stack) \in Nat
  BY <1>2, StackIs
<1>4. PICK m \in Modules : m = Top.m
  BY <1>3, FrameIs
<1>5. ModuleOf[f] = m /\ f \notin Imports /\ mods[m].state = "listed"
  BY <1>1, <1>3, <1>4, Apart DEF Backed
<1>6. CASE CompiledFn(f)
  <2>1. /\ stack' = Entered(stack, f, memory[InMod(f)]) /\ start' = [start EXCEPT ![m] = "running"]
        /\ UNCHANGED <<mods, memory, code, home, comp>>
    BY <1>1, <1>2, <1>4, <1>6 DEF Runs, pageVars
  <2>2. memory[InMod(f)] \in Nat /\ CompiledFn(f)' /\ memory[InMod(f)] = memory'[home'[f]]
    BY <1>6, <2>1, CodeIsLoaded DEF CompiledFn
  <2>3. start' \in [Modules -> {"none", "pending", "running", "done"}] /\ StartsKept(stack, start')
    <3>1. Ordered(stack) /\ start \in [Modules -> {"none", "pending", "running", "done"}] /\ StartsKept(stack, start)
      BY DEF RunInv, RunTypes
    <3>. QED  BY <2>1, <3>1, StartRuns
  <2>4. Settled /\ ~Compiling'
    BY <1>2, <2>1, <2>3, StillSettled DEF Compiling
  <2>5. start'[m] = "running"
    BY <2>1 DEF RunInv, RunTypes
  <2>6. /\ stack[Len(stack)].k = "start" /\ Kind # "load"
        /\ start'[stack[Len(stack)].m] = "running"
    BY <1>2, <1>3, <1>4, <2>5
  <2>. QED  BY <1>3, <1>5, <2>1, <2>2, <2>3, <2>4, <2>6, EnterStep
<1>7. CASE ~CompiledFn(f)
  <2>1. CompileFor(stack, f, "start")
    BY <1>1, <1>7
  <2>2. Fits(stack, Len(stack) + 1, [k |-> "compile", f |-> f, then |-> "start"])
    <3>1. (Len(stack) + 1) - 1 = Len(stack) /\ Under(stack, Len(stack) + 1, {"start"})
      BY <1>3 DEF Under
    <3>. QED  BY <1>1, <1>3, <3>1 DEF Fits
  <2>. QED  BY <1>2, <1>5, <2>1, <2>2, CompileForStep
<1>. QED  BY <1>6, <1>7

LEMMA CompiledStep ==
  ASSUME RunInv, IInv, Compiled
  PROVE  RunInv'
<1>. DEFINE n == Len(stack) - 1
<1>1. /\ EndFunction /\ UNCHANGED <<mods, memory>>
      /\ CASE Top.then = "find" -> stack' = Front(stack) /\ UNCHANGED start
           [] Top.then = "start" -> /\ stack' = Entered(Front(stack), Top.f, memory[InMod(Top.f)])
                                    /\ start' = [start EXCEPT ![Last(Front(stack)).m] = "running"]
           [] OTHER -> stack' = Entered(Front(stack), Top.f, Last(Front(stack)).mem) /\ UNCHANGED start
  BY Zenon DEF Compiled
<1>2. PICK f \in Functions : f = Top.f
  BY <1>1, EndIs
<1>3. /\ Compiling /\ ~Compiling' /\ Kind = "compile" /\ Top.k = "compile" /\ Kind # "load"
      /\ CodeGoesOn /\ CompiledFn(f)' /\ home'[f] = InMod(f)
      /\ comp.what = f
      /\ \A g \in Functions : g # f => code'[g] = code[g] /\ home'[g] = home[g]
  BY <1>1, <1>2, EndIs DEF CompiledFn
<1>4. /\ Len(stack) \in 1..Len(stack) /\ n \in 0..Len(stack) /\ Front(stack) = SubSeq(stack, 1, n)
      /\ Top = stack[Len(stack)] /\ Top \in Frames /\ Fits(stack, Len(stack), Top) /\ Len(stack) \in Nat
  BY <1>3, StackIs
<1>5. ASSUME start' \in [Modules -> {"none", "pending", "running", "done"}]
      PROVE  Settled
  BY <1>1, <1>3, <1>5 DEF Settled, CodeGoesOn, RunInv, RunTypes
<1>6. memory[InMod(f)] \in Nat /\ memory[InMod(f)] = memory'[home'[f]]
  <2>1. ModuleOf[f] \in Modules /\ mods[ModuleOf[f]].state = "listed"
    BY <1>2, <1>3, Apart DEF RunInv, CompilesTop
  <2>2. InMod(f) \in Runtimes
    BY <2>1 DEF RunInv, ModsKept, InMod
  <2>. QED  BY <1>1, <1>3, <2>2 DEF RunInv, RunTypes
<1>7. /\ Len(Front(stack)) = n /\ StartsKept(Front(stack), start) /\ Ordered(Front(stack))
      /\ n > 0 => n \in 1..Len(stack) /\ Last(Front(stack)) = stack[n]
  <2>1. StartsKept(Front(stack), start) /\ Ordered(Front(stack))
    BY <1>4, KeptPrefix, OrderedPrefix DEF RunInv
  <2>2. Len(Front(stack)) = n /\ \A i \in 1..n : Front(stack)[i] = stack[i]
    BY <1>4, StackIs, Prefix
  <2>. QED  BY <1>4, <2>1, <2>2 DEF Last
<1>8. CASE Top.then = "find"
  <2>1. stack' = SubSeq(stack, 1, n) /\ UNCHANGED start
    BY <1>1, <1>4, <1>8
  <2>2. n > 0 => stack[n].k \in {"raw", "call"}
    BY <1>3, <1>4, <1>8 DEF Fits, ByHost, Under
  <2>3. Settled /\ StartsKept(stack', start')
    BY <1>4, <1>5, <1>7, <2>1 DEF RunInv, RunTypes
  <2>. QED  BY <1>3, <1>4, <2>1, <2>2, <2>3, Left
<1>9. CASE Top.then = "start"
  <2>1. Under(stack, Len(stack), {"start"}) /\ f = StartOf[stack[n].m]
    BY <1>2, <1>3, <1>4, <1>9 DEF Fits
  <2>2. n > 0 /\ n \in 1..Len(stack) /\ stack[n].k = "start" /\ stack[n] \in Frames
    BY <1>4, <2>1, StackIs DEF Under
  <2>3. PICK m \in Modules : m = stack[n].m
    BY <2>2, FrameIs
  <2>4. f \notin Imports
    BY <2>1, <2>3, Apart
  <2>5. stack' = Entered(Front(stack), f, memory[InMod(f)]) /\ start' = [start EXCEPT ![m] = "running"]
    BY <1>1, <1>2, <1>7, <1>9, <2>2, <2>3
  <2>6. start' \in [Modules -> {"none", "pending", "running", "done"}] /\ StartsKept(Front(stack), start')
    <3>1. start \in [Modules -> {"none", "pending", "running", "done"}]
      BY DEF RunInv, RunTypes
    <3>. QED  BY <1>7, <2>5, <3>1, StartRuns
  <2>7. Settled /\ start'[m] = "running"
    BY <1>5, <2>5, <2>6 DEF RunInv, RunTypes
  <2>8. /\ stack[n].k = "call" => start'[ModuleOf[stack[n].f]] # "pending"
        /\ stack[n].k = "start" => f \notin Imports /\ start'[stack[n].m] = "running"
        /\ stack[n].k \in {"call", "start", "wasm", "loop"}
    BY <2>2, <2>3, <2>4, <2>7
  <2>. QED  BY <1>3, <1>4, <1>6, <2>2, <2>5, <2>6, <2>7, <2>8, EnterStep
<1>10. CASE Top.then \notin {"find", "start"}
  <2>1. Under(stack, Len(stack), {"wasm", "loop"}) /\ ModuleOf[f] = ModuleOf[stack[n].f]
    BY <1>2, <1>3, <1>4, <1>10 DEF Fits
  <2>2. n > 0 /\ n \in 1..Len(stack) /\ stack[n].k \in {"wasm", "loop"} /\ stack[n] \in Frames /\ Backed(stack[n])
    BY <1>4, <2>1, StackIs DEF Under
  <2>3. stack[n].f \in Functions /\ CompiledFn(stack[n].f)
    BY <2>2, FrameIs DEF Backed
  <2>4. Top.then \in {"site", "indirect"}
    BY <1>3, <1>4, <1>10, FrameIs
  <2>5. stack[n].mem = memory[home[stack[n].f]]
    BY <1>3, <2>4 DEF RunInv, FreshTop, IsFresh
  <2>6. home[stack[n].f] = InMod(f)
    BY <2>1, <2>3, CodeIsLoaded DEF InMod
  <2>7. stack' = Entered(Front(stack), f, memory[InMod(f)]) /\ UNCHANGED start
    <3>1. stack' = Entered(Front(stack), Top.f, Last(Front(stack)).mem) /\ UNCHANGED start
      BY <1>1, <1>10
    <3>. QED  BY <1>2, <1>7, <2>2, <2>5, <2>6, <3>1
  <2>8. Settled /\ StartsKept(Front(stack), start')
    BY <1>5, <1>7, <2>7 DEF RunInv, RunTypes
  <2>9. /\ stack[n].k = "call" => start'[ModuleOf[stack[n].f]] # "pending"
        /\ stack[n].k = "start" => f \notin Imports /\ start'[stack[n].m] = "running"
        /\ stack[n].k \in {"call", "start", "wasm", "loop"}
    BY <2>2
  <2>. QED  BY <1>3, <1>4, <1>6, <2>2, <2>7, <2>8, <2>9, EnterStep
<1>. QED  BY <1>8, <1>9, <1>10

-----------------------------------------------------------------------------
(* The operations that call.                                               *)

LEMMA SitesStill ==
  ASSUME SitesKept, UNCHANGED site, \A f \in Functions : CompiledFn(f) => CompiledFn(f)'
  PROVE  SitesKept'
BY DEF SitesKept

LEMMA CallOpsAre ==
  ASSUME NEW f \in Functions
  PROVE  /\ CallOps(f) \in [Functions -> {"none", "compile", "code", "function"}]
         /\ \A g \in Functions : CallOps(f)[g] = "code" => CompiledFn(g) /\ ModuleOf[f] = ModuleOf[g]
BY Apart DEF CallOps

LEMMA OpCallSites ==
  ASSUME RunInv, SitesKept, NEW g \in Functions, OpCall(g)
  PROVE  SitesKept'
<1>1. /\ CodeTurn /\ g \in Calls[Top.f]
      /\ Runs \/ CompileFor(stack, g, "site")
      /\ \/ UNCHANGED site
         \/ CompiledFn(g) /\ site' = [site EXCEPT ![Top.f][g] = "code"]
         \/ site' = [site EXCEPT ![Top.f][g] = "function"]
  BY Zenon DEF OpCall
<1>2. UNCHANGED code
  BY <1>1, BeginIs DEF Runs, pageVars, CompileFor
<1>3. PICK f \in Functions : f = Top.f /\ CompiledFn(f) /\ ModuleOf[f] = ModuleOf[g]
  BY <1>1, CodeTurnIs, Apart
<1>4. CASE UNCHANGED site
  BY <1>2, <1>4, SitesStill DEF CompiledFn
<1>5. ASSUME NEW v \in {"code", "function"}, v = "code" => CompiledFn(g), site' = [site EXCEPT ![f][g] = v]
      PROVE  SitesKept'
  <2>1. site' \in [Functions -> [Functions -> {"none", "compile", "code", "function"}]]
    BY <1>5 DEF SitesKept
  <2>2. \A x, y \in Functions : site'[x][y] = IF x = f /\ y = g THEN v ELSE site[x][y]
    BY <1>5 DEF SitesKept
  <2>. QED  BY <1>2, <1>3, <1>5, <2>1, <2>2 DEF SitesKept, CompiledFn
<1>. QED  BY <1>1, <1>3, <1>4, <1>5

LEMMA CompiledSites ==
  ASSUME RunInv, IInv, SitesKept, Compiled \/ CompiledWithoutConstants
  PROVE  SitesKept'
<1>1. /\ EndFunction
      /\ \/ site' = [site EXCEPT ![Top.f] = CallOps(Top.f)]
         \/ site' = [x \in Functions |->
                       IF x = Top.f THEN CallOps(Top.f)
                       ELSE IF Top.then = "site" /\ x = Last(Front(stack)).f THEN [site[x] EXCEPT ![Top.f] = "code"]
                       ELSE site[x]]
  BY Zenon DEF Compiled, CompiledWithoutConstants
<1>2. PICK f \in Functions : f = Top.f
  BY <1>1, EndIs
<1>3. /\ Kind = "compile" /\ Top.k = "compile" /\ CompiledFn(f)'
      /\ \A g \in Functions : CompiledFn(g) => CompiledFn(g)'
  BY <1>1, <1>2, EndIs DEF CompiledFn, CodeGoesOn
<1>4. PICK c : c = Last(Front(stack)).f
  OBVIOUS
<1>5. ASSUME Top.then = "site"
      PROVE  c \in Functions /\ CompiledFn(c) /\ ModuleOf[c] = ModuleOf[f]
  <2>1. /\ Len(stack) \in 1..Len(stack) /\ Fits(stack, Len(stack), Top) /\ Len(stack) \in Nat
        /\ Front(stack) = SubSeq(stack, 1, Len(stack) - 1)
    BY <1>3, StackIs
  <2>2. Under(stack, Len(stack), {"wasm", "loop"}) /\ ModuleOf[f] = ModuleOf[stack[Len(stack) - 1].f]
    BY <1>2, <1>3, <1>5, <2>1 DEF Fits
  <2>3. /\ Len(stack) - 1 \in 1..Len(stack) /\ stack[Len(stack) - 1].k \in {"wasm", "loop"}
        /\ stack[Len(stack) - 1] \in Frames /\ Backed(stack[Len(stack) - 1])
    BY <2>1, <2>2, StackIs DEF Under
  <2>4. Last(Front(stack)) = stack[Len(stack) - 1]
    BY <2>1, <2>3, StackIs, Prefix DEF Last
  <2>5. c = stack[Len(stack) - 1].f
    BY <1>4, <2>4
  <2>6. c \in Functions /\ CompiledFn(c)
    BY <2>3, <2>5, FrameIs DEF Backed
  <2>. QED  BY <2>2, <2>5, <2>6
<1>6. /\ site' \in [Functions -> [Functions -> {"none", "compile", "code", "function"}]]
      /\ site'[f] = CallOps(f)
      /\ \A x \in Functions : x # f =>
           \/ site'[x] = site[x]
           \/ Top.then = "site" /\ x = c /\ site'[x] = [site[x] EXCEPT ![f] = "code"]
  <2>1. PICK ops \in [Functions -> {"none", "compile", "code", "function"}] : ops = CallOps(f)
    BY CallOpsAre
  <2>2. site \in [Functions -> [Functions -> {"none", "compile", "code", "function"}]]
    BY DEF SitesKept
  <2>3. CASE site' = [site EXCEPT ![Top.f] = CallOps(Top.f)]
    <3>1. site' = [site EXCEPT ![f] = ops]
      BY <1>2, <2>1, <2>3
    <3>. QED  BY <2>1, <2>2, <3>1
  <2>4. CASE site' = [x \in Functions |->
                       IF x = Top.f THEN CallOps(Top.f)
                       ELSE IF Top.then = "site" /\ x = Last(Front(stack)).f THEN [site[x] EXCEPT ![Top.f] = "code"]
                       ELSE site[x]]
    <3>1. site' = [x \in Functions |->
                    IF x = f THEN ops
                    ELSE IF Top.then = "site" /\ x = c THEN [site[x] EXCEPT ![f] = "code"]
                    ELSE site[x]]
      BY <1>2, <1>4, <2>1, <2>4
    <3>2. \A x \in Functions : [site[x] EXCEPT ![f] = "code"] \in [Functions -> {"none", "compile", "code", "function"}]
      BY <2>2
    <3>. QED  BY <2>1, <2>2, <3>1, <3>2
  <2>. QED  BY <1>1, <2>3, <2>4
<1>7. ASSUME NEW x \in Functions, NEW y \in Functions, site'[x][y] = "code"
      PROVE  CompiledFn(x)' /\ CompiledFn(y)' /\ ModuleOf[x] = ModuleOf[y]
  <2>1. CASE x = f
    BY <1>3, <1>6, <1>7, <2>1, CallOpsAre
  <2>2. CASE x # f /\ site'[x] = site[x]
    BY <1>3, <1>7, <2>2 DEF SitesKept
  <2>3. CASE x # f /\ Top.then = "site" /\ x = c /\ site'[x] = [site[x] EXCEPT ![f] = "code"]
    <3>1. y = f \/ site[x][y] = "code"
      BY <1>7, <2>3 DEF SitesKept
    <3>. QED  BY <1>3, <1>5, <2>3, <3>1 DEF SitesKept
  <2>. QED  BY <1>6, <2>1, <2>2, <2>3
<1>. QED  BY <1>6, <1>7 DEF SitesKept

LEMMA CloseSites ==
  ASSUME RunInv, IInv, SitesKept, NEW r \in Runtimes, Close(r)
  PROVE  SitesKept'
<1>1. /\ site' = [f \in Functions |-> IF home[f] = r THEN [g \in Functions |-> "none"] ELSE site[f]]
      /\ code' = [f \in Functions |-> IF home[f] = r THEN {} ELSE code[f]]
  BY DEF Close, FreeRuntime
<1>2. ASSUME NEW f \in Functions, NEW g \in Functions, site'[f][g] = "code"
      PROVE  CompiledFn(f)' /\ CompiledFn(g)' /\ ModuleOf[f] = ModuleOf[g]
  <2>1. home[f] # r /\ site[f][g] = "code"
    BY <1>1, <1>2
  <2>2. CompiledFn(f) /\ CompiledFn(g) /\ ModuleOf[f] = ModuleOf[g]
    BY <2>1 DEF SitesKept
  <2>3. home[g] = home[f]
    BY <2>2, CodeIsLoaded DEF InMod
  <2>. QED  BY <1>1, <2>1, <2>2, <2>3 DEF CompiledFn
<1>3. site' \in [Functions -> [Functions -> {"none", "compile", "code", "function"}]]
  BY <1>1 DEF SitesKept
<1>. QED  BY <1>2, <1>3 DEF SitesKept

LEMMA LinkSites ==
  ASSUME IInv, SitesKept, NEW f \in Functions, Link(f)
  PROVE  SitesKept'
<1>1. UNCHANGED site /\ \E r : LinkRaw(r, f)
  BY DEF Link
<1>2. code' = code \/ \E p : code' = [code EXCEPT ![f] = {p}]
  BY <1>1 DEF LinkRaw
<1>3. \A g \in Functions : CompiledFn(g) => CompiledFn(g)'
  <2>1. code \in [Functions -> SUBSET Pages]
    BY DEF IInv, PagesTypeOK
  <2>2. ASSUME NEW p, code' = [code EXCEPT ![f] = {p}] PROVE \A g \in Functions : CompiledFn(g) => CompiledFn(g)'
    BY <2>1, <2>2 DEF CompiledFn
  <2>. QED  BY <1>2, <2>2 DEF CompiledFn
<1>. QED  BY <1>1, <1>3, SitesStill

LEMMA SitesStep ==
  ASSUME RunInv, IInv, SitesKept, [Next]_vars
  PROVE  SitesKept'
<1>. USE DEF CompiledFn
<1>1. ASSUME NEW r \in Runtimes, Open(r) \/ \E m \in Modules : LoadModule(m, r) PROVE SitesKept'
  BY <1>1, SitesStill DEF Open, NewRuntime, LoadModule, Runs, pageVars
<1>2. ASSUME NEW r \in Runtimes, Close(r) PROVE SitesKept'
  BY <1>2, CloseSites
<1>3. CASE LoadExpression \/ ExpressionDone \/ LoadDone \/ LoadFails
  BY <1>3, SitesStill
     DEF LoadExpression, BeginExpression, Start, ExpressionDone, EndExpression, Within, LoadDone, LoadFails, Runs, pageVars
<1>4. ASSUME NEW f \in Functions, Link(f) PROVE SitesKept'
  BY <1>4, LinkSites
<1>5. ASSUME NEW f \in Functions, FindFunction(f) \/ Call(f) PROVE SitesKept'
  BY <1>5, BeginIs, SitesStill DEF FindFunction, CompileFor, Call, Runs, pageVars
<1>6. ASSUME NEW f \in Functions, OpCall(f) PROVE SitesKept'
  BY <1>6, OpCallSites
<1>7. ASSUME NEW f \in Functions, OpCallIndirect(f) PROVE SitesKept'
  BY <1>7, BeginIs, SitesStill DEF OpCallIndirect, CompileFor, Runs, pageVars
<1>8. CASE EmitNext
  BY <1>8, EmitIs, SitesStill DEF EmitNext
<1>9. CASE Compiled \/ CompiledWithoutConstants
  BY <1>9, CompiledSites
<1>10. CASE RunStartFunction
  BY <1>10, BeginIs, SitesStill DEF RunStartFunction, CompileFor, Runs, pageVars
<1>11. CASE (\E m \in Modules : RunStart(m)) \/ RunCalled \/ HostReturns
  BY <1>11, SitesStill DEF RunStart, RunCalled, HostReturns, Runs, pageVars
<1>12. CASE OpMemGrow \/ OpLoop \/ OpContinueLoop \/ OpReturn \/ Trap \/ UNCHANGED vars
  BY <1>12, SitesStill DEF OpMemGrow, OpLoop, OpContinueLoop, OpReturn, Trap, Runs, vars, pageVars
<1>. QED
  BY <1>1, <1>2, <1>3, <1>4, <1>5, <1>6, <1>7, <1>8, <1>9, <1>10, <1>11, <1>12 DEF Next

-----------------------------------------------------------------------------
(* The theorems.                                                           *)

LEMMA RunInit == Init => RunInv /\ SitesKept
<1>. SUFFICES ASSUME Init PROVE RunInv /\ SitesKept
  OBVIOUS
<1>1. /\ stack = <<>> /\ Len(stack) = 0 /\ Kind = "none" /\ ~Compiling /\ \A f \in Functions : ~CompiledFn(f)
      /\ mods = [m \in Modules |-> [in |-> NoOwner, state |-> "parsed"]]
      /\ start = [m \in Modules |-> IF StartOf[m] = "none" THEN "none" ELSE "pending"]
      /\ memory = [r \in Runtimes |-> 0]
      /\ site = [f \in Functions |-> [g \in Functions |-> "none"]]
  BY DEF Init, PagesInit, Kind, Compiling, CompiledFn, Idle
<1>2. RunTypes
  BY <1>1 DEF RunTypes
<1>3. Ordered(stack) /\ StartsKept(stack, start)
  BY <1>1 DEF Ordered, StartsKept
<1>4. ModsKept /\ CompilesTop /\ FreshTop
  BY <1>1 DEF ModsKept, CompilesTop, FreshTop
<1>. QED  BY <1>1, <1>2, <1>3, <1>4 DEF RunInv, SitesKept

LEMMA RunStep ==
  ASSUME RunInv, IInv, SitesKept, [Next]_vars
  PROVE  RunInv'
<1>1. ASSUME NEW r \in Runtimes, Open(r) \/ Close(r) \/ \E m \in Modules : LoadModule(m, r) PROVE RunInv'
  BY <1>1, OpenStep, CloseStep, LoadModuleStep
<1>2. CASE LoadExpression \/ ExpressionDone \/ LoadDone \/ LoadFails
  BY <1>2, LoadExpressionStep, ExpressionDoneStep, LoadDoneStep
<1>3. ASSUME NEW f \in Functions, Link(f) \/ FindFunction(f) \/ Call(f) \/ OpCall(f) \/ OpCallIndirect(f)
      PROVE  RunInv'
  BY <1>3, LinkStep, FindFunctionStep, CallStep, OpCallStep, OpCallIndirectStep
<1>4. CASE EmitNext \/ Compiled \/ CompiledWithoutConstants
  BY <1>4, EmitNextStep, CompiledStep, CompiledWithoutConstantsStep
<1>5. ASSUME NEW m \in Modules, RunStart(m) PROVE RunInv'
  BY <1>5, RunStartStep
<1>6. CASE RunStartFunction \/ RunCalled \/ HostReturns
  BY <1>6, RunStartFunctionStep, RunCalledStep, HostReturnsStep
<1>7. CASE OpMemGrow \/ OpLoop \/ OpContinueLoop \/ OpReturn \/ Trap
  BY <1>7, OpMemGrowStep, OpLoopStep, OpContinueLoopStep, OpReturnStep, TrapStep
<1>8. CASE UNCHANGED vars
  BY <1>8, Unmoved DEF vars, pageVars
<1>. QED  BY <1>1, <1>2, <1>3, <1>4, <1>5, <1>6, <1>7, <1>8 DEF Next

LEMMA RunInvariant == Spec => [](RunInv /\ SitesKept)
<1>1. RunInv /\ SitesKept /\ IInv /\ [Next]_vars => (RunInv /\ SitesKept)'
  BY RunStep, SitesStep
<1>. QED  BY <1>1, RunInit, PagesInvariant, PTL DEF Spec

\* The pages of the interpreter at work: one owner each, counted, with room to
\* lead on, and kept while they have code in them.
THEOREM PagesSound == Spec => [](PagesTypeOK /\ PagesOwnedOnce /\ CountsAddUp /\ RoomForBridge /\ CodeKept)
BY PagesRefined, TypesHold, OwnedOnce, CountsHold, RoomHolds, CodeStays, PTL

\* Code that runs has the linear memory where it is now, however deep in calls,
\* loops, callbacks of the host and compilations it was moved.
THEOREM MemoryIsFresh == Spec => []FreshMemory
<1>1. RunInv => FreshMemory
  BY DEF RunInv, FreshTop, IsFresh, FreshMemory, CodeTurn, RunningIn
<1>. QED  BY <1>1, RunInvariant, PTL

\* No call of a module gets to code while its start function is still to run,
\* and no start function is begun while it runs.
THEOREM StartsAreFirst == Spec => []StartsFirst
<1>1. RunInv => StartsFirst
  BY StackIs DEF RunInv, StartsKept, Running, StartsFirst
<1>. QED  BY <1>1, RunInvariant, PTL
===============================================================================
