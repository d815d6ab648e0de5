-------------------------- MODULE ReplicationProofs --------------------------
(***************************************************************************)
(* Proofs about Replication, for any nodes, keys, targets and bounds: the  *)
(* type invariant, that versions are distinct, that a clean store is in    *)
(* its file, and that the targets of a node follow it while nothing is     *)
(* lost and nobody stops.  All but the first until two threads are at a    *)
(* store or a queue at once.                                               *)
(***************************************************************************)
EXTENDS Replication, TLAPS

Distinct(map) ==
  \A j, k \in Keys :
    map[j] # NoEntry /\ map[k] # NoEntry /\ map[j].ver = map[k].ver => j = k

\* The version that a plugin's put has read is still the next one until it is
\* counted, and free until its entry is stored.
PutVersions(p, s) ==
  /\ p.pc = "read" => p.ver = s.next
  /\ p.pc = "removed" => VersionsOf(s.map, p.ver) /\ s.next = p.ver + 1

\* What a restart reads, and what the file is about to hold, has distinct
\* versions too.
VersionsInv ==
  \A n \in Nodes :
    /\ ~raced[n] => /\ VersionsOf(store[n].map, store[n].next)
                    /\ Distinct(file[n]) /\ Distinct(job[n].snap)
                    /\ PutVersions(plug[n], store[n])
    /\ job[n].pc = "down" => plug[n].pc = "none"

\* While the collected entries are written, a store that is still clean is
\* what was collected.
CleanInv ==
  \A n \in Persistent :
    \A k \in Keys \ store[n].unmarked :
      /\ job[n].pc \in {"idle", "wait"} /\ ~store[n].dirty /\ ~ioError[n]
           => store[n].map[k] = file[n][k]
      /\ job[n].pc = "write" /\ ~store[n].dirty => store[n].map[k] = job[n].snap[k]

IInv == TypeOK /\ VersionsInv /\ CleanInv

\* The i-th target of n has the value v of k.
Copied(st, n, i, k, v) ==
  LET copy == st[Targets[n][i]].map[k] IN copy # NoEntry /\ copy.val = v

\* What is queued was put here, in this order, and nothing later is stored
\* under its key than the last of it; only the head has been tried.
QueueCalm(n, q) ==
  \A i \in 1 .. Len(q) :
    /\ Home[q[i].key] = n /\ q[i].val <= puts
    /\ store[n].map[q[i].key] # NoEntry => q[i].val <= store[n].map[q[i].key].val
    /\ i > 1 => q[i].attempted = 0
    /\ \A j \in 1 .. Len(q) : i < j => q[i].val < q[j].val

\* A stored value is still queued, or about to be, or nothing of its key is and all
\* targets have it.
StoreCalm(n, q) ==
  \A k \in Keys :
    Home[k] = n /\ store[n].map[k] # NoEntry =>
      \/ \E i \in 1 .. Len(q) : q[i].key = k /\ q[i].val = store[n].map[k].val
      \/ /\ \A i \in 1 .. Len(q) : q[i].key # k
         /\ \A i \in 1 .. Len(Targets[n]) : Copied(store, n, i, k, store[n].map[k].val)
      \/ plug[n].pc \in {"stored", "got"} /\ plug[n].key = k

\* What a plugin of n puts belongs here and is later than all that is queued; once
\* it is stored nothing else is under its key.
PlugCalm(n, q) ==
  plug[n].pc # "none" =>
    /\ Home[plug[n].key] = n /\ plug[n].val <= puts
    /\ \A i \in 1 .. Len(q) : q[i].val < plug[n].val
    /\ plug[n].pc \in {"stored", "got"} =>
         store[n].map[plug[n].key] # NoEntry /\ store[n].map[plug[n].key].val = plug[n].val

\* As many targets have the head, from the first on, as it counts.
HeadCalm(n, q) ==
  q # <<>> =>
    \A i \in 1 .. Len(Targets[n]) : i <= q[1].attempted => Copied(store, n, i, q[1].key, q[1].val)

\* The round is at the target that comes after those counted, or all have
\* been counted in an earlier round.
RoundCalm(n, q, left) ==
  /\ Len(left) <= Len(Targets[n])
  /\ \A i \in 1 .. Len(left) : left[i] = Targets[n][Len(Targets[n]) - Len(left) + i]
  /\ q # <<>> => \/ q[1].attempted = Len(Targets[n]) - Len(left)
                 \/ q[1].attempted >= Len(Targets[n])

\* A node is up; it waits for one answer at most, with the request or the
\* answer under way, and nothing is under way otherwise.
JobCalm(n) ==
  /\ Up(n)
  /\ IF job[n].pc = "wait"
     THEN /\ RoundCalm(n, queue[n], job[n].left)
          /\ \/ resps[n] = 0 /\ \E m \in reqs : m.from = n
             \/ /\ resps[n] = 1
                /\ Copied(store, n, Len(Targets[n]) - Len(job[n].left) + 1,
                          queue[n][1].key, queue[n][1].val)
     ELSE resps[n] = 0 /\ RoundCalm(n, queue[n], Targets[n])

\* A request carries the head of its sender's queue to the target it asks.
RequestCalm(m) ==
  /\ job[m.from].pc = "wait" /\ resps[m.from] = 0
  /\ m.to = job[m.from].left[1]
  /\ m.key = queue[m.from][1].key /\ m.val = queue[m.from][1].val

NodeCalm(n) ==
  /\ QueueCalm(n, queue[n]) /\ StoreCalm(n, queue[n]) /\ HeadCalm(n, queue[n])
  /\ PlugCalm(n, queue[n]) /\ JobCalm(n)

Untroubled == faults = 0 /\ \A n \in Nodes : ~raced[n]

\* Without faults and races.
CalmInv ==
  Untroubled => (\A n \in Nodes : NodeCalm(n)) /\ (\A m \in reqs : RequestCalm(m))

USE DEF Entry, MaybeEntry, Snapshot

-----------------------------------------------------------------------------
(* The store.                                                              *)

LEMMA RemoveLemma ==
  ASSUME NEW s \in Store, NEW k \in Keys
  PROVE  /\ remove(s, k) \in Store
         /\ remove(s, k).map = [s.map EXCEPT ![k] = NoEntry] /\ remove(s, k).next = s.next + 1
         /\ remove(s, k).dirty = s.dirty /\ remove(s, k).unmarked = s.unmarked \cup {k}
         /\ VersionsOf(s.map, s.next) =>
              VersionsOf(remove(s, k).map, s.next) /\ VersionsOf(remove(s, k).map, s.next + 1)
<1>1. /\ remove(s, k) \in Store
      /\ remove(s, k).map = [s.map EXCEPT ![k] = NoEntry] /\ remove(s, k).next = s.next + 1
      /\ remove(s, k).dirty = s.dirty /\ remove(s, k).unmarked = s.unmarked \cup {k}
  <2>1. /\ s.map \in Snapshot /\ s.next \in Nat /\ s.dirty \in BOOLEAN
        /\ s.unmarked \in SUBSET Keys
    BY DEF Store
  <2>4. PICK a : a = [s EXCEPT !.next = s.next + 1]
    OBVIOUS
  <2>5. a = [map |-> s.map, next |-> s.next + 1, dirty |-> s.dirty, unmarked |-> s.unmarked]
    BY <2>4 DEF Store
  <2>6. PICK b : b = [a EXCEPT !.map = [a.map EXCEPT ![k] = NoEntry]]
    OBVIOUS
  <2>7. b = [map |-> [s.map EXCEPT ![k] = NoEntry], next |-> s.next + 1,
             dirty |-> s.dirty, unmarked |-> s.unmarked]
    BY <2>5, <2>6
  <2>8. remove(s, k) = [b EXCEPT !.unmarked = s.unmarked \cup {k}]
    BY <2>4, <2>6 DEF remove
  <2>2. remove(s, k) = [map |-> [s.map EXCEPT ![k] = NoEntry], next |-> s.next + 1,
                        dirty |-> s.dirty, unmarked |-> s.unmarked \cup {k}]
    BY <2>7, <2>8
  <2>3. [s.map EXCEPT ![k] = NoEntry] \in Snapshot /\ s.next + 1 \in Nat
        /\ s.unmarked \cup {k} \in SUBSET Keys
    BY <2>1
  <2> QED
    BY <2>1, <2>2, <2>3 DEF Store
<1>2. s.map \in Snapshot /\ s.next \in Nat
  BY DEF Store
<1>3. VersionsOf(s.map, s.next) => VersionsOf([s.map EXCEPT ![k] = NoEntry], s.next)
  BY <1>2, EntryAssumption DEF VersionsOf
<1>4. VersionsOf(s.map, s.next) => VersionsOf([s.map EXCEPT ![k] = NoEntry], s.next + 1)
  BY <1>2, EntryAssumption DEF VersionsOf
<1> QED
  BY <1>1, <1>3, <1>4

\* Storing an entry under a version that is above all others.
LEMMA InsertLemma ==
  ASSUME NEW s \in Store, NEW k \in Keys, NEW v \in Nat, NEW version \in Nat
  PROVE  /\ insert(s, k, v, version) \in Store
         /\ insert(s, k, v, version).map = [s.map EXCEPT ![k] = [val |-> v, ver |-> version]]
         /\ insert(s, k, v, version).next = s.next /\ insert(s, k, v, version).dirty = s.dirty
         /\ insert(s, k, v, version).unmarked = s.unmarked \cup {k}
         /\ VersionsOf(s.map, version) => VersionsOf(insert(s, k, v, version).map, version + 1)
<1>1. /\ insert(s, k, v, version) \in Store
      /\ insert(s, k, v, version).map = [s.map EXCEPT ![k] = [val |-> v, ver |-> version]]
      /\ insert(s, k, v, version).next = s.next /\ insert(s, k, v, version).dirty = s.dirty
      /\ insert(s, k, v, version).unmarked = s.unmarked \cup {k}
  BY DEF insert, Store
<1>2. s.map \in Snapshot
  BY DEF Store
<1>3. VersionsOf(s.map, version) =>
        VersionsOf([s.map EXCEPT ![k] = [val |-> v, ver |-> version]], version + 1)
  BY <1>2, EntryAssumption DEF VersionsOf
<1> QED
  BY <1>1, <1>3

LEMMA MarkLemma ==
  ASSUME NEW s \in Store
  PROVE  /\ mark(s) \in Store /\ mark(s).map = s.map /\ mark(s).next = s.next
         /\ mark(s).dirty /\ mark(s).unmarked = {}
BY DEF mark, Store

\* put keeps the type and the versions of a store and makes it dirty.
LEMMA PutLemma ==
  ASSUME NEW s \in Store, NEW k \in Keys, NEW v \in Nat
  PROVE  /\ put(s, k, v) \in Store
         /\ put(s, k, v).map = [s.map EXCEPT ![k] = [val |-> v, ver |-> s.next]]
         /\ VersionsOf(s.map, s.next) => VersionsOf(put(s, k, v).map, put(s, k, v).next)
         /\ put(s, k, v).dirty
<1>1. PICK r : r = remove(s, k)
  OBVIOUS
<1>2. PICK t : t = insert(r, k, v, s.next)
  OBVIOUS
<1>3. s.next \in Nat /\ s.map \in Snapshot
  BY DEF Store
<1>4. /\ r \in Store /\ r.map = [s.map EXCEPT ![k] = NoEntry] /\ r.next = s.next + 1
      /\ VersionsOf(s.map, s.next) => VersionsOf(r.map, s.next)
  BY <1>1, RemoveLemma
<1>5. /\ t \in Store /\ t.map = [r.map EXCEPT ![k] = [val |-> v, ver |-> s.next]]
      /\ t.next = r.next
      /\ VersionsOf(r.map, s.next) => VersionsOf(t.map, s.next + 1)
  BY <1>2, <1>3, <1>4, InsertLemma
<1>6. put(s, k, v) = mark(t)
  BY <1>1, <1>2 DEF put
<1>7. t.map = [s.map EXCEPT ![k] = [val |-> v, ver |-> s.next]]
  BY <1>3, <1>4, <1>5
<1> QED
  BY <1>4, <1>5, <1>6, <1>7, MarkLemma

\* delete does so too; it makes the store dirty if it changes it.
LEMMA DeleteLemma ==
  ASSUME NEW s \in Store, NEW k \in Keys, s.map[k] # NoEntry
  PROVE  /\ delete(s, k) \in Store
         /\ delete(s, k).map = [s.map EXCEPT ![k] = NoEntry]
         /\ VersionsOf(s.map, s.next) => VersionsOf(delete(s, k).map, delete(s, k).next)
         /\ delete(s, k).dirty
<1>1. PICK r : r = [s EXCEPT !.map[k] = NoEntry]
  OBVIOUS
<1>2. r \in Store /\ r.map = [s.map EXCEPT ![k] = NoEntry] /\ r.next = s.next
  BY <1>1 DEF Store
<1>3. VersionsOf(s.map, s.next) => VersionsOf(r.map, r.next)
  <2>1. s.map \in Snapshot
    BY DEF Store
  <2> QED
    BY <1>2, <2>1, EntryAssumption DEF VersionsOf
<1>4. delete(s, k) = mark(r)
  BY <1>1 DEF delete
<1> QED
  BY <1>2, <1>3, <1>4, MarkLemma

\* A fresh store has no entries at all.
LEMMA InitStoreLemma ==
  /\ InitStore \in Store /\ VersionsOf(InitStore.map, InitStore.next)
  /\ Empty \in Snapshot /\ Distinct(Empty) /\ InitStore.map = Empty /\ ~InitStore.dirty
BY DEF InitStore, Empty, Store, VersionsOf, Distinct

\* load makes a store, with distinct versions if the snapshot has such.
LEMMA LoadLemma ==
  ASSUME NEW map \in Snapshot, NEW s \in Loaded(map)
  PROVE  /\ s \in Store
         /\ Distinct(map) => VersionsOf(s.map, s.next)
<1>1. CASE s = InitStore
  BY <1>1, InitStoreLemma
<1>2. ASSUME NEW nx \in NextVersions(map),
             s = [map |-> map, next |-> nx, dirty |-> FALSE, unmarked |-> {}]
      PROVE  s \in Store /\ (Distinct(map) => VersionsOf(s.map, s.next))
  <2>1. nx \in Nat
    BY <1>2, EntryAssumption DEF NextVersions
  <2>2. \A k \in Keys : map[k] # NoEntry => map[k].ver < nx
    BY <1>2 DEF NextVersions
  <2>3. s \in Store /\ s.map = map /\ s.next = nx
    BY <1>2, <2>1 DEF Store
  <2> QED
    BY <2>2, <2>3 DEF VersionsOf, Distinct
<1> QED
  BY <1>1, <1>2 DEF Loaded

-----------------------------------------------------------------------------
(* The queue and the rounds.                                               *)

Bounded(q) == q \in Seq(Item) /\ \A i \in 1 .. Len(q) : q[i].attempted < ReplicaCount

\* The queue inside the loop: its head may just have got its last success.
InLoop(q) ==
  /\ q \in Seq(Item) /\ q # <<>>
  /\ \A i \in 2 .. Len(q) : q[i].attempted < ReplicaCount

\* Appending a new item keeps a queue well formed.
LEMMA AppendLemma ==
  ASSUME NEW q, Bounded(q), NEW item \in Item, item.attempted = 0
  PROVE  Bounded(Append(q, item)) /\ Append(q, item) # <<>>
<1> DEFINE new == Append(q, item)
<1>1. new \in Seq(Item) /\ Len(new) = Len(q) + 1 /\ new[Len(q) + 1] = item /\ Len(q) \in Nat
  BY DEF Bounded
<1>2. \A i \in 1 .. Len(q) : new[i] = q[i]
  BY DEF Bounded
<1>3. \A i \in 1 .. Len(new) : new[i].attempted < ReplicaCount
  BY <1>1, <1>2, ReplicationAssumption DEF Bounded
<1>4. new # <<>>
  BY <1>1
<1> QED
  BY <1>1, <1>3, <1>4 DEF Bounded

\* The loop drops an item that is done, and keeps one that is not.
LEMMA LoopLemma ==
  ASSUME NEW q, InLoop(q)
  PROVE  /\ Head(q) \in Item /\ Bounded(Tail(q))
         /\ ~Done(Head(q)) => Bounded(q)
<1>1. q[1] = Head(q) /\ Len(q) \in Nat /\ \A i \in 1 .. Len(q) : q[i] \in Item
  BY DEF InLoop
<1>2. Head(q) \in Item
  BY DEF InLoop
<1>3. Tail(q) \in Seq(Item) /\ Len(Tail(q)) = Len(q) - 1
  BY DEF InLoop
<1>4. \A i \in 1 .. Len(Tail(q)) : Tail(q)[i] = q[i + 1]
  BY DEF InLoop
<1>5. Bounded(Tail(q))
  BY <1>1, <1>3, <1>4 DEF InLoop, Bounded
<1>6. ASSUME ~Done(Head(q)) PROVE Bounded(q)
  BY <1>1, <1>2, <1>6, ReplicationAssumption DEF InLoop, Bounded, Done, Item
<1> QED
  BY <1>2, <1>5, <1>6

\* markAttempted touches the head only.
LEMMA CountLemma ==
  ASSUME NEW q, Bounded(q), q # <<>>
  PROVE  InLoop(markAttempted(q))
<1> DEFINE item == [key |-> q[1].key, val |-> q[1].val, attempted |-> q[1].attempted + 1]
           r    == markAttempted(q)
<1>1. q \in [1 .. Len(q) -> Item] /\ Len(q) \in Nat /\ 1 \in 1 .. Len(q)
  BY DEF Bounded
<1>2. item \in Item
  BY <1>1 DEF Item
<1>3. r = [q EXCEPT ![1] = item]
  BY DEF markAttempted
<1>4. r \in [1 .. Len(q) -> Item]
  BY <1>1, <1>2, <1>3
<1>5. r \in Seq(Item) /\ Len(r) = Len(q)
  BY <1>1, <1>4
<1>6. \A i \in 2 .. Len(r) : r[i] = q[i]
  BY <1>1, <1>3, <1>5
<1> QED
  BY <1>1, <1>5, <1>6 DEF Bounded, InLoop

\* The loop leaves a well-formed queue, and waits only for a target that is
\* left.
LEMMA ContinueLemma ==
  ASSUME TypeOK, NEW n \in Nodes, NEW q, InLoop(q), NEW left \in Seq(Nodes),
         Continue(n, q, left)
  PROVE  /\ queue' \in [Nodes -> Seq(Item)] /\ job' \in [Nodes -> Job] /\ reqs' \subseteq Request
         /\ \A m \in Nodes :
              /\ Bounded(queue'[m])
              /\ job'[m].pc = "wait" => queue'[m] # <<>> /\ job'[m].left # <<>>
         /\ \A m \in Nodes \ {n} : job'[m] = job[m]
         /\ job'[n].pc \in {"idle", "wait"} /\ job'[n].snap = Empty
<1> USE DEF TypeOK
<1>1. Head(q) \in Item /\ Bounded(Tail(q)) /\ (~Done(Head(q)) => Bounded(q))
  BY LoopLemma
<1>2. Idle \in Job /\ Idle.snap = Empty /\ Idle.pc = "idle"
  BY InitStoreLemma DEF Idle, Job
<1>3. CASE left # <<>> /\ ~Done(Head(q))
  <2>1. Waiting(left) \in Job /\ Waiting(left).left = left /\ Waiting(left).snap = Empty
        /\ Waiting(left).pc = "wait"
    BY InitStoreLemma DEF Job, Waiting
  <2>2. [from |-> n, to |-> Head(left), key |-> Head(q).key, val |-> Head(q).val] \in Request
    BY <1>1, <1>3 DEF Item, Request
  <2>3. /\ job' = [job EXCEPT ![n] = Waiting(left)]
        /\ queue' = [queue EXCEPT ![n] = q]
        /\ reqs' = reqs \cup {[from |-> n, to |-> Head(left), key |-> Head(q).key, val |-> Head(q).val]}
    BY <1>3 DEF Continue
  <2>4. q \in Seq(Item) /\ q # <<>>
    BY DEF InLoop
  <2> QED
    BY <2>1, <2>2, <2>3, <2>4, <1>1, <1>3 DEF Bounded
<1>4. CASE ~(left # <<>> /\ ~Done(Head(q)))
  <2>1. /\ job' = [job EXCEPT ![n] = Idle]
        /\ queue' = [queue EXCEPT ![n] = IF Done(Head(q)) THEN Tail(q) ELSE q]
        /\ reqs' = reqs
    BY <1>4 DEF Continue
  <2> QED
    BY <2>1, <1>1, <1>2 DEF Bounded
<1> QED
  BY <1>3, <1>4

LEMMA QueueLemma ==
  ASSUME TypeOK, NEW n \in Nodes, queue[n] # <<>>
  PROVE  InLoop(queue[n])
<1>1. queue[n] \in Seq(Item) /\ \A i \in 1 .. Len(queue[n]) : queue[n][i].attempted < ReplicaCount
  BY DEF TypeOK
<1>2. Len(queue[n]) \in Nat
  BY <1>1
<1>3. \A i \in 1 .. Len(queue[n]) : queue[n][i] \in Item
  BY <1>1
<1>4. ReplicaCount \in Nat \ {0}
  BY ReplicationAssumption
<1> QED
  BY <1>1, <1>2, <1>3, <1>4 DEF InLoop, Item

-----------------------------------------------------------------------------
(* The invariant.                                                          *)

LEMMA Initial == Init => IInv
<1> SUFFICES ASSUME Init PROVE IInv
  OBVIOUS
<1> USE InitStoreLemma DEF Init
<1>1. TypeOK
  BY DEF TypeOK, Idle, Job
<1>2. \A n \in Nodes : PutVersions(plug[n], store[n])
  BY DEF PutVersions, NoPut
<1>3. VersionsInv /\ CleanInv
  BY <1>2, ReplicationAssumption DEF VersionsInv, CleanInv, Idle
<1> QED
  BY <1>1, <1>3 DEF IInv

\* A step at the store, or the queue, of a node that no other thread is at.
LEMMA AtStoreLemma ==
  ASSUME TypeOK, NEW n \in Nodes, AtStore(n) \/ AtQueue(n)
  PROVE  /\ raced' \in [Nodes -> BOOLEAN]
         /\ \A m \in Nodes : raced[m] => raced'[m]
         /\ \A m \in Nodes \ {n} : raced'[m] = raced[m]
         /\ AtStore(n) /\ ~raced'[n] => plug[n].pc = "none"
         /\ AtQueue(n) /\ ~raced'[n] => plug[n].pc # "got"
BY DEF AtStore, AtQueue, TypeOK

LEMMA NoPutLemma ==
  /\ NoPut.pc = "none" /\ NoPut \in Put \cup {NoPut}
  /\ \A s : PutVersions(NoPut, s)
BY DEF NoPut, PutVersions

\* What a plugin is about, if it is about something.
LEMMA PlugLemma ==
  ASSUME TypeOK, NEW n \in Nodes, plug[n].pc # "none"
  PROVE  /\ plug[n] \in Put /\ plug[n].key \in Keys /\ plug[n].val \in Nat /\ plug[n].ver \in Nat
         /\ plug[n].pc \in {"read", "removed", "stored", "got"}
<1>1. plug[n] \in Put
  BY DEF TypeOK, NoPut
<1> QED
  BY <1>1 DEF Put

\* A step that changes the store of one node, and at most its plugin's place.
LEMMA StoreStep ==
  ASSUME IInv, NEW n \in Nodes, NEW s \in Store, store' = [store EXCEPT ![n] = s],
         UNCHANGED <<file, job, ioError>>,
         plug' \in [Nodes -> Put \cup {NoPut}], \A m \in Nodes \ {n} : plug'[m] = plug[m],
         \A m \in Nodes : raced[m] => raced'[m],
         Up(n) \/ plug'[n].pc = "none",
         ~raced'[n] => VersionsOf(s.map, s.next) /\ PutVersions(plug'[n], s),
         \/ s.dirty
         \/ /\ s.dirty = store[n].dirty /\ store[n].unmarked \subseteq s.unmarked
            /\ \A k \in Keys \ s.unmarked : s.map[k] = store[n].map[k]
  PROVE  VersionsInv' /\ CleanInv'
<1> USE DEF IInv
<1>1. store'[n] = s /\ \A m \in Nodes \ {n} : store'[m] = store[m]
  BY DEF TypeOK
<1>2. VersionsInv'
  <2> SUFFICES ASSUME NEW m \in Nodes
               PROVE  /\ ~raced'[m] => /\ VersionsOf(store'[m].map, store'[m].next)
                                       /\ Distinct(file[m]) /\ Distinct(job[m].snap)
                                       /\ PutVersions(plug'[m], store'[m])
                      /\ job[m].pc = "down" => plug'[m].pc = "none"
    BY DEF VersionsInv
  <2>1. CASE m = n
    BY <1>1, <2>1 DEF VersionsInv, Up
  <2>2. CASE m # n
    BY <1>1, <2>2 DEF VersionsInv
  <2> QED
    BY <2>1, <2>2
<1>3. CleanInv'
  <2> SUFFICES ASSUME NEW m \in Persistent, NEW k \in Keys \ store'[m].unmarked
               PROVE  /\ job[m].pc \in {"idle", "wait"} /\ ~store'[m].dirty /\ ~ioError[m]
                           => store'[m].map[k] = file[m][k]
                      /\ job[m].pc = "write" /\ ~store'[m].dirty
                           => store'[m].map[k] = job[m].snap[k]
    BY DEF CleanInv
  <2>1. CASE m = n
    BY <1>1, <2>1 DEF CleanInv
  <2>2. CASE m # n
    BY <1>1, <2>2, ReplicationAssumption DEF CleanInv
  <2> QED
    BY <2>1, <2>2
<1> QED
  BY <1>2, <1>3

\* A put, or what memory lets it do, at a store that no other thread is at.
LEMMA HandlerStore ==
  ASSUME IInv, NEW n \in Nodes, NEW k \in Keys, NEW v \in Nat, Up(n), AtStore(n),
         \/ store' = [store EXCEPT ![n] = put(@, k, v)]
         \/ store' = [store EXCEPT ![n] = remove(@, k)],
         UNCHANGED <<file, job, plug, ioError>>
  PROVE  store' \in [Nodes -> Store] /\ VersionsInv' /\ CleanInv'
<1> USE DEF IInv
<1>1. /\ \A m \in Nodes : raced[m] => raced'[m]
      /\ ~raced'[n] => plug[n].pc = "none" /\ ~raced[n]
  BY AtStoreLemma
<1>2. \A s : ~raced'[n] => PutVersions(plug[n], s)
  BY <1>1 DEF PutVersions
<1>3. store[n] \in Store /\ plug \in [Nodes -> Put \cup {NoPut}]
      /\ (~raced'[n] => VersionsOf(store[n].map, store[n].next))
  BY <1>1 DEF TypeOK, VersionsInv
<1>4. CASE store' = [store EXCEPT ![n] = put(@, k, v)]
  <2>1. PICK s : s = put(store[n], k, v)
    OBVIOUS
  <2>2. s \in Store /\ s.dirty /\ (~raced'[n] => VersionsOf(s.map, s.next))
    BY <1>3, <2>1, PutLemma
  <2>3. store' = [store EXCEPT ![n] = s]
    BY <1>4, <2>1
  <2>4. VersionsInv' /\ CleanInv'
    BY <1>1, <1>2, <1>3, <2>2, <2>3, StoreStep
  <2> QED
    BY <2>2, <2>3, <2>4 DEF TypeOK
<1>5. CASE store' = [store EXCEPT ![n] = remove(@, k)]
  <2>1. PICK s : s = remove(store[n], k)
    OBVIOUS
  <2>2. /\ s \in Store /\ s.map = [store[n].map EXCEPT ![k] = NoEntry] /\ s.next = store[n].next + 1
        /\ s.dirty = store[n].dirty /\ s.unmarked = store[n].unmarked \cup {k}
        /\ VersionsOf(store[n].map, store[n].next) => VersionsOf(s.map, store[n].next + 1)
    BY <1>3, <2>1, RemoveLemma
  <2>3. store' = [store EXCEPT ![n] = s]
    BY <1>5, <2>1
  <2>4. \A j \in Keys \ s.unmarked : s.map[j] = store[n].map[j]
    BY <1>3, <2>2 DEF Store
  <2>5. VersionsInv' /\ CleanInv'
    BY <1>1, <1>2, <1>3, <2>2, <2>3, <2>4, StoreStep
  <2> QED
    BY <2>2, <2>3, <2>5 DEF TypeOK
<1> QED
  BY <1>4, <1>5

\* What is appended leaves the queues well formed.
LEMMA QueuedLemma ==
  ASSUME TypeOK, NEW n \in Nodes, NEW k \in Keys, NEW v \in Nat, queue' = Queued(n, k, v)
  PROVE  /\ queue' \in [Nodes -> Seq(Item)]
         /\ queue'[n] # <<>> /\ \A m \in Nodes \ {n} : queue'[m] = queue[m]
         /\ \A m \in Nodes : Bounded(queue'[m])
<1>1. PICK item : item = [key |-> k, val |-> v, attempted |-> 0]
  OBVIOUS
<1>2. item \in Item /\ item.attempted = 0
  BY <1>1 DEF Item
<1>3. \A m \in Nodes : Bounded(queue[m])
  BY DEF TypeOK, Bounded
<1>4. PICK q : q = Append(queue[n], item)
  OBVIOUS
<1>5. Bounded(q) /\ q # <<>>
  BY <1>2, <1>3, <1>4, AppendLemma
<1>6. queue' = [queue EXCEPT ![n] = q]
  BY <1>1, <1>4 DEF Queued
<1> QED
  BY <1>3, <1>5, <1>6 DEF TypeOK, Bounded

\* A put at a node that is up.
LEMMA PutStep ==
  ASSUME IInv, NEW n \in Nodes, NEW k \in Keys, HandlePut(n, k)
  PROVE  IInv'
<1> USE DEF IInv
<1>1. puts + 1 \in Nat /\ faults + 1 \in Nat
  BY DEF TypeOK
<1>2. /\ AtStore(n) /\ Up(n) /\ puts' = puts + 1
      /\ \/ store' = [store EXCEPT ![n] = put(@, k, puts + 1)]
         \/ store' = [store EXCEPT ![n] = remove(@, k)]
      /\ queue' = Queued(n, k, puts + 1) \/ queue' = queue
      /\ faults' = faults \/ faults' = faults + 1
      /\ UNCHANGED <<file, job, plug, reqs, resps, ioError, deletes>>
  BY DEF HandlePut, Receptive, Up, netVars, Fault
<1>3. store' \in [Nodes -> Store] /\ VersionsInv' /\ CleanInv'
  BY <1>1, <1>2, HandlerStore
<1>4. /\ queue' \in [Nodes -> Seq(Item)] /\ \A m \in Nodes : Bounded(queue'[m])
      /\ \A m \in Nodes : queue[m] # <<>> => queue'[m] # <<>>
  <2>1. CASE queue' = queue
    BY <2>1 DEF TypeOK, Bounded
  <2>2. CASE queue' = Queued(n, k, puts + 1)
    BY <1>1, <2>2, QueuedLemma
  <2> QED
    BY <1>2, <2>1, <2>2
<1>5. raced' \in [Nodes -> BOOLEAN]
  BY <1>2, AtStoreLemma
<1>6. TypeOK'
  BY <1>1, <1>2, <1>3, <1>4, <1>5 DEF TypeOK, Bounded
<1> QED
  BY <1>3, <1>6

\* The steps of a plugin's put.
LEMMA PluginStepInv ==
  ASSUME IInv, NEW n \in Nodes, PluginStep(n)
  PROVE  IInv'
<1> USE DEF IInv
<1>u. plug[n].pc # "none" => Up(n)
  BY DEF VersionsInv, Up
<1>t. store[n] \in Store /\ plug \in [Nodes -> Put \cup {NoPut}] /\ puts \in Nat
  BY DEF TypeOK
<1>v. ~raced[n] => VersionsOf(store[n].map, store[n].next) /\ PutVersions(plug[n], store[n])
  BY DEF VersionsInv
<1>1. ASSUME NEW k \in Keys, PluginReads(n, k) PROVE IInv'
  <2>1. PICK p : p = [pc |-> "read", key |-> k, val |-> puts + 1, ver |-> store[n].next]
    OBVIOUS
  <2>2. /\ plug' = [plug EXCEPT ![n] = p] /\ puts' = puts + 1 /\ Up(n)
        /\ UNCHANGED <<store, file, queue, job, raced, reqs, resps, ioError, deletes, faults>>
    BY <1>1, <2>1 DEF PluginReads, netVars
  <2>3. p \in Put /\ p.pc = "read" /\ p.ver = store[n].next
    BY <1>t, <2>1 DEF Put, Store
  <2>4. store' = [store EXCEPT ![n] = store[n]]
    BY <2>2 DEF TypeOK
  <2>5. plug' \in [Nodes -> Put \cup {NoPut}] /\ plug'[n] = p /\ \A m \in Nodes \ {n} : plug'[m] = plug[m]
    BY <1>t, <2>2, <2>3
  <2>6. TypeOK'
    BY <1>t, <2>2, <2>5 DEF TypeOK
  <2>7. PutVersions(p, store[n])
    BY <2>3 DEF PutVersions
  <2>8. VersionsInv' /\ CleanInv'
    BY <1>t, <1>v, <2>2, <2>4, <2>5, <2>7, StoreStep
  <2> QED
    BY <2>6, <2>8
<1>2. CASE PluginRemoves(n)
  <2>1. PICK p : p = [plug[n] EXCEPT !.pc = "removed"]
    OBVIOUS
  <2>2. PICK s : s = remove(store[n], plug[n].key)
    OBVIOUS
  <2>3. /\ plug[n].pc = "read" /\ plug' = [plug EXCEPT ![n] = p] /\ store' = [store EXCEPT ![n] = s]
        /\ UNCHANGED <<file, queue, job, raced, reqs, resps, ioError, puts, deletes, faults>>
    BY <1>2, <2>1, <2>2 DEF PluginRemoves, netVars, counters
  <2>4. plug[n] \in Put /\ plug[n].key \in Keys /\ Up(n)
    BY <1>u, <2>3, PlugLemma
  <2>5. p \in Put /\ p.pc = "removed" /\ p.ver = plug[n].ver
    BY <2>1, <2>4 DEF Put
  <2>6. /\ s \in Store /\ s.map = [store[n].map EXCEPT ![plug[n].key] = NoEntry]
        /\ s.next = store[n].next + 1
        /\ s.dirty = store[n].dirty /\ s.unmarked = store[n].unmarked \cup {plug[n].key}
        /\ VersionsOf(store[n].map, store[n].next)
             => VersionsOf(s.map, store[n].next) /\ VersionsOf(s.map, s.next)
    BY <1>t, <2>2, <2>4, RemoveLemma
  <2>7. \A j \in Keys \ s.unmarked : s.map[j] = store[n].map[j]
    BY <1>t, <2>6 DEF Store
  <2>8. plug' \in [Nodes -> Put \cup {NoPut}] /\ plug'[n] = p /\ \A m \in Nodes \ {n} : plug'[m] = plug[m]
    BY <1>t, <2>3, <2>5
  <2>9. ~raced[n] => VersionsOf(s.map, s.next) /\ PutVersions(p, s)
    BY <1>v, <2>3, <2>5, <2>6 DEF PutVersions
  <2>10. VersionsInv' /\ CleanInv'
    BY <1>t, <2>3, <2>4, <2>6, <2>7, <2>8, <2>9, StoreStep
  <2>11. TypeOK'
    BY <1>t, <2>3, <2>6, <2>8 DEF TypeOK
  <2> QED
    BY <2>10, <2>11
<1>3. CASE PluginInserts(n)
  <2>1. PICK p : p = [plug[n] EXCEPT !.pc = "stored"]
    OBVIOUS
  <2>2. PICK s : s = insert(store[n], plug[n].key, plug[n].val, plug[n].ver)
    OBVIOUS
  <2>3. /\ plug[n].pc = "removed" /\ plug' = [plug EXCEPT ![n] = p] /\ store' = [store EXCEPT ![n] = s]
        /\ UNCHANGED <<file, queue, job, raced, reqs, resps, ioError, puts, deletes, faults>>
    BY <1>3, <2>1, <2>2 DEF PluginInserts, netVars, counters
  <2>4. plug[n] \in Put /\ plug[n].key \in Keys /\ plug[n].val \in Nat /\ plug[n].ver \in Nat /\ Up(n)
    BY <1>u, <2>3, PlugLemma
  <2>5. p \in Put /\ p.pc = "stored"
    BY <2>1, <2>4 DEF Put
  <2>6. /\ s \in Store
        /\ s.map = [store[n].map EXCEPT ![plug[n].key] = [val |-> plug[n].val, ver |-> plug[n].ver]]
        /\ s.next = store[n].next
        /\ s.dirty = store[n].dirty /\ s.unmarked = store[n].unmarked \cup {plug[n].key}
        /\ VersionsOf(store[n].map, plug[n].ver) => VersionsOf(s.map, plug[n].ver + 1)
    BY <1>t, <2>2, <2>4, InsertLemma
  <2>7. \A j \in Keys \ s.unmarked : s.map[j] = store[n].map[j]
    BY <1>t, <2>6 DEF Store
  <2>8. plug' \in [Nodes -> Put \cup {NoPut}] /\ plug'[n] = p /\ \A m \in Nodes \ {n} : plug'[m] = plug[m]
    BY <1>t, <2>3, <2>5
  <2>9. ~raced[n] => VersionsOf(s.map, s.next) /\ PutVersions(p, s)
    BY <1>v, <2>3, <2>5, <2>6 DEF PutVersions
  <2>10. VersionsInv' /\ CleanInv'
    BY <1>t, <2>3, <2>4, <2>6, <2>7, <2>8, <2>9, StoreStep
  <2>11. TypeOK'
    BY <1>t, <2>3, <2>6, <2>8 DEF TypeOK
  <2> QED
    BY <2>10, <2>11
<1>4. CASE PluginGets(n)
  <2>1. PICK e : e = store[n].map[plug[n].key]
    OBVIOUS
  <2>2. PICK p : p = IF e = NoEntry THEN NoPut ELSE [plug[n] EXCEPT !.pc = "got", !.val = e.val]
    OBVIOUS
  <2>3. PICK s : s = mark(store[n])
    OBVIOUS
  <2>4. /\ plug[n].pc = "stored" /\ plug' = [plug EXCEPT ![n] = p] /\ store' = [store EXCEPT ![n] = s]
        /\ UNCHANGED <<file, queue, job, raced, reqs, resps, ioError, puts, deletes, faults>>
    BY <1>4, <2>1, <2>2, <2>3 DEF PluginGets, netVars, counters
  <2>5. plug[n] \in Put /\ plug[n].key \in Keys /\ Up(n)
    BY <1>u, <2>4, PlugLemma
  <2>6. e # NoEntry => e.val \in Nat
    BY <1>t, <2>1, <2>5 DEF Store
  <2>7. p \in Put \cup {NoPut} /\ p.pc \in {"none", "got"}
    BY <2>2, <2>5, <2>6 DEF Put, NoPut
  <2>8. s \in Store /\ s.map = store[n].map /\ s.next = store[n].next /\ s.dirty
    BY <1>t, <2>3, MarkLemma
  <2>9. plug' \in [Nodes -> Put \cup {NoPut}] /\ plug'[n] = p /\ \A m \in Nodes \ {n} : plug'[m] = plug[m]
    BY <1>t, <2>4, <2>7
  <2>10. ~raced[n] => VersionsOf(s.map, s.next) /\ PutVersions(p, s)
    BY <1>v, <2>7, <2>8 DEF PutVersions
  <2>11. VersionsInv' /\ CleanInv'
    BY <1>t, <2>4, <2>5, <2>8, <2>9, <2>10, StoreStep
  <2>12. TypeOK'
    BY <1>t, <2>4, <2>8, <2>9 DEF TypeOK
  <2> QED
    BY <2>11, <2>12
<1>5. CASE PluginEnqueues(n) \/ PluginFails(n)
  <2>1. /\ plug[n].pc \in {"removed", "got"} /\ plug' = [plug EXCEPT ![n] = NoPut]
        /\ UNCHANGED <<store, file, job, raced, reqs, resps, ioError, puts, deletes>>
        /\ faults' = faults \/ faults' = faults + 1
        /\ queue' = queue \/ queue' = Queued(n, plug[n].key, plug[n].val)
    BY <1>5 DEF PluginEnqueues, PluginFails, netVars, counters, Fault
  <2>2. plug[n].key \in Keys /\ plug[n].val \in Nat /\ Up(n)
    BY <1>u, <2>1, PlugLemma
  <2>3. /\ queue' \in [Nodes -> Seq(Item)] /\ \A m \in Nodes : Bounded(queue'[m])
        /\ \A m \in Nodes : queue[m] # <<>> => queue'[m] # <<>>
    <3>1. CASE queue' = queue
      BY <3>1 DEF TypeOK, Bounded
    <3>2. CASE queue' = Queued(n, plug[n].key, plug[n].val)
      BY <2>2, <3>2, QueuedLemma
    <3> QED
      BY <2>1, <3>1, <3>2
  <2>4. store' = [store EXCEPT ![n] = store[n]]
    BY <2>1 DEF TypeOK
  <2>5. plug' \in [Nodes -> Put \cup {NoPut}] /\ plug'[n] = NoPut /\ \A m \in Nodes \ {n} : plug'[m] = plug[m]
    BY <1>t, <2>1
  <2>6. VersionsInv' /\ CleanInv'
    BY <1>t, <1>v, <2>1, <2>2, <2>4, <2>5, NoPutLemma, StoreStep
  <2>7. faults' \in Nat
    BY <2>1 DEF TypeOK
  <2>8. TypeOK'
    BY <2>1, <2>3, <2>5, <2>7 DEF TypeOK, Bounded
  <2> QED
    BY <2>6, <2>8
<1> QED
  BY <1>1, <1>2, <1>3, <1>4, <1>5 DEF PluginStep

\* A step that changes one node's job and queue through the loop, and nothing
\* that is stored.
LEMMA RoundStepInv ==
  ASSUME IInv, NEW n \in Nodes, NEW q, InLoop(q), NEW left \in Seq(Nodes),
         job[n].pc \in {"idle", "wait"}, Continue(n, q, left),
         UNCHANGED <<store, file, plug, ioError, puts, deletes>>, AtQueue(n),
         resps' \in [Nodes -> Nat], faults' \in Nat
  PROVE  IInv'
<1> USE DEF IInv
<1>1. /\ queue' \in [Nodes -> Seq(Item)] /\ job' \in [Nodes -> Job] /\ reqs' \subseteq Request
      /\ \A m \in Nodes :
           /\ Bounded(queue'[m])
           /\ job'[m].pc = "wait" => queue'[m] # <<>> /\ job'[m].left # <<>>
      /\ \A m \in Nodes \ {n} : job'[m] = job[m]
      /\ job'[n].pc \in {"idle", "wait"} /\ job'[n].snap = Empty
  BY ContinueLemma
<1>2. raced' \in [Nodes -> BOOLEAN] /\ \A m \in Nodes : raced[m] => raced'[m]
  BY AtStoreLemma
<1>3. TypeOK'
  BY <1>1, <1>2 DEF TypeOK, Bounded
<1>4. VersionsInv'
  BY <1>1, <1>2, InitStoreLemma DEF VersionsInv
<1>5. CleanInv'
  <2> SUFFICES ASSUME NEW m \in Persistent, NEW k \in Keys \ store[m].unmarked
               PROVE  /\ job'[m].pc \in {"idle", "wait"} /\ ~store[m].dirty /\ ~ioError[m]
                           => store[m].map[k] = file[m][k]
                      /\ job'[m].pc = "write" /\ ~store[m].dirty
                           => store[m].map[k] = job'[m].snap[k]
    BY DEF CleanInv
  <2>1. m \in Nodes
    BY ReplicationAssumption
  <2>2. CASE m = n
    BY <1>1, <2>2 DEF CleanInv
  <2>3. CASE m # n
    BY <1>1, <2>1, <2>3 DEF CleanInv
  <2> QED
    BY <2>2, <2>3
<1> QED
  BY <1>3, <1>4, <1>5

\* A node that leaves keeps only its file.
LEMMA LeaveStep ==
  ASSUME IInv, NEW n \in Nodes, Leave(n),
         file' \in [Nodes -> Snapshot], ioError' \in [Nodes -> BOOLEAN],
         raced' \in [Nodes -> BOOLEAN], \A m \in Nodes : raced[m] => raced'[m],
         ~raced'[n] => Distinct(file'[n]),
         \A m \in Nodes \ {n} : file'[m] = file[m] /\ ioError'[m] = ioError[m]
  PROVE  IInv'
<1> USE InitStoreLemma, NoPutLemma DEF IInv, Leave, netVars, Fault
<1>1. Down \in Job /\ Down.pc = "down" /\ Down.snap = Empty
  BY DEF Down, Job
<1>2. TypeOK'
  <2>1. store' \in [Nodes -> Store] /\ job' \in [Nodes -> Job] /\ faults' \in Nat
        /\ plug' \in [Nodes -> Put \cup {NoPut}]
    BY <1>1 DEF TypeOK
  <2>2. queue' = [queue EXCEPT ![n] = <<>>] /\ Bounded(<<>>)
    BY DEF Bounded
  <2>3. queue' \in [Nodes -> Seq(Item)]
    BY <2>2 DEF TypeOK
  <2>4. \A m \in Nodes : /\ job'[m].pc = "wait" => queue'[m] # <<>> /\ job'[m].left # <<>>
                         /\ \A i \in 1 .. Len(queue'[m]) : queue'[m][i].attempted < ReplicaCount
    BY <1>1, <2>2 DEF TypeOK
  <2> QED
    BY <2>1, <2>3, <2>4 DEF TypeOK
<1>3. VersionsInv'
  BY <1>1 DEF VersionsInv, TypeOK
<1>4. CleanInv'
  BY <1>1, ReplicationAssumption DEF CleanInv, TypeOK
<1> QED
  BY <1>2, <1>3, <1>4

LEMMA Inductive == IInv /\ [Next]_vars => IInv'
<1> SUFFICES ASSUME IInv, [Next]_vars PROVE IInv'
  OBVIOUS
<1> USE DEF IInv
<1>1. CASE UNCHANGED vars
  BY <1>1 DEF vars, plugVars, counters, netVars, TypeOK, VersionsInv, CleanInv
<1>2. ASSUME NEW n \in Nodes, NEW k \in Keys, HandlePut(n, k)
      PROVE  IInv'
  BY <1>2, PutStep
<1>3. ASSUME NEW n \in Nodes, NEW k \in Keys, HandleDelete(n, k)
      PROVE  IInv'
  <2>1. PICK s : s = delete(store[n], k)
    OBVIOUS
  <2>2. /\ store' = [store EXCEPT ![n] = s] /\ AtStore(n) /\ store[n].map[k] # NoEntry /\ Up(n)
        /\ UNCHANGED <<file, queue, job, plug, reqs, resps, ioError, puts, faults>>
        /\ deletes' = deletes + 1
    BY <1>3, <2>1 DEF HandleDelete, netVars, Receptive, Up
  <2>3. /\ s \in Store /\ s.dirty
        /\ VersionsOf(store[n].map, store[n].next) => VersionsOf(s.map, s.next)
    BY <2>1, <2>2, DeleteLemma DEF TypeOK
  <2>4. /\ raced' \in [Nodes -> BOOLEAN] /\ \A m \in Nodes : raced[m] => raced'[m]
        /\ ~raced'[n] => plug[n].pc = "none" /\ ~raced[n]
    BY <2>2, AtStoreLemma
  <2>5. ~raced'[n] => VersionsOf(s.map, s.next) /\ PutVersions(plug[n], s)
    BY <2>3, <2>4 DEF VersionsInv, PutVersions
  <2>6. VersionsInv' /\ CleanInv'
    BY <2>2, <2>3, <2>4, <2>5, StoreStep DEF TypeOK
  <2>7. store' \in [Nodes -> Store] /\ deletes' \in Nat
    BY <2>2, <2>3 DEF TypeOK
  <2>8. TypeOK'
    BY <2>2, <2>4, <2>7 DEF TypeOK
  <2> QED
    BY <2>6, <2>8
<1>4. ASSUME NEW m \in reqs, NEW again \in BOOLEAN, NEW fails \in BOOLEAN,
             HandleReplicate(m, again, fails)
      PROVE  IInv'
  <2>1. m \in Request /\ m.to \in Nodes /\ m.from \in Nodes /\ m.key \in Keys /\ m.val \in Nat
    BY DEF TypeOK, Request
  <2>2. /\ \/ store' = [store EXCEPT ![m.to] = put(@, m.key, m.val)]
           \/ store' = [store EXCEPT ![m.to] = remove(@, m.key)]
        /\ resps' = [resps EXCEPT ![m.from] = @ + 1]
        /\ UNCHANGED <<file, queue, job, plug, ioError, puts, deletes>>
        /\ reqs' \subseteq reqs /\ AtStore(m.to)
    BY <1>4 DEF HandleReplicate
  <2>6. Up(m.to)
    BY <1>4 DEF HandleReplicate, Receptive, Up
  <2>7. faults' \in Nat
    BY <1>4 DEF HandleReplicate, Fault, TypeOK
  <2>3. store' \in [Nodes -> Store] /\ VersionsInv' /\ CleanInv'
    BY <2>1, <2>2, <2>6, HandlerStore
  <2>4. raced' \in [Nodes -> BOOLEAN] /\ resps' \in [Nodes -> Nat]
    BY <2>1, <2>2, AtStoreLemma DEF TypeOK
  <2>5. TypeOK'
    BY <2>2, <2>3, <2>4, <2>7 DEF TypeOK
  <2> QED
    BY <2>3, <2>5
<1>5. ASSUME NEW m \in reqs, RequestLost(m)
      PROVE  IInv'
  BY <1>5 DEF RequestLost, Fault, plugVars, TypeOK, VersionsInv, CleanInv
<1>6. ASSUME NEW n \in Nodes, StartRound(n)
      PROVE  IInv'
  <2>1. InLoop(queue[n]) /\ Targets[n] \in Seq(Nodes)
    BY <1>6, QueueLemma, ReplicationAssumption DEF StartRound
  <2> QED
    BY <1>6, <2>1, RoundStepInv DEF StartRound, TypeOK, counters
<1>7. ASSUME NEW n \in Nodes, Answered(n)
      PROVE  IInv'
  <2>1. Bounded(queue[n]) /\ queue[n] # <<>>
    BY <1>7 DEF Answered, TypeOK, Bounded
  <2>2. InLoop(markAttempted(queue[n]))
    BY <2>1, CountLemma
  <2>3. Tail(job[n].left) \in Seq(Nodes)
    BY <1>7 DEF Answered, TypeOK, Job
  <2>4. resps' \in [Nodes -> Nat]
    BY <1>7 DEF Answered, TypeOK
  <2> QED
    BY <1>7, <2>2, <2>3, <2>4, RoundStepInv DEF Answered, TypeOK, counters
<1>8. ASSUME NEW n \in Nodes, TimedOut(n)
      PROVE  IInv'
  <2>1. InLoop(queue[n])
    BY <1>8, QueueLemma DEF TimedOut, TypeOK
  <2>2. Tail(job[n].left) \in Seq(Nodes)
    BY <1>8 DEF TimedOut, TypeOK, Job
  <2>3. faults' \in Nat /\ resps' \in [Nodes -> Nat]
    BY <1>8 DEF TimedOut, TypeOK, Fault
  <2>4. /\ Continue(n, queue[n], Tail(job[n].left)) /\ job[n].pc \in {"idle", "wait"}
        /\ UNCHANGED <<store, file, plug, ioError, puts, deletes>> /\ AtQueue(n)
    BY <1>8 DEF TimedOut
  <2> QED
    BY <2>1, <2>2, <2>3, <2>4, RoundStepInv
<1>9. ASSUME NEW n \in Nodes, AnswerIgnored(n)
      PROVE  IInv'
  <2>1. /\ resps' = [resps EXCEPT ![n] = @ - 1] /\ resps[n] > 0
        /\ UNCHANGED <<store, file, queue, job, plug, raced, reqs, ioError, puts, deletes>>
        /\ faults' = faults \/ faults' = faults + 1
    BY <1>9 DEF AnswerIgnored, Fault, plugVars
  <2>2. resps' \in [Nodes -> Nat] /\ faults' \in Nat
    BY <2>1 DEF TypeOK
  <2>3. TypeOK'
    BY <2>1, <2>2 DEF TypeOK
  <2> QED
    BY <2>1, <2>3 DEF VersionsInv, CleanInv
<1>10. ASSUME NEW n \in Nodes, SaveBegin(n)
       PROVE  IInv'
  <2>1. PICK s : s = [store[n] EXCEPT !.dirty = FALSE]
    OBVIOUS
  <2>2. PICK j : j = [job[n] EXCEPT !.pc = "save"]
    OBVIOUS
  <2>3. /\ store' = [store EXCEPT ![n] = s] /\ job' = [job EXCEPT ![n] = j] /\ job[n].pc = "idle"
        /\ UNCHANGED <<file, queue, plug, raced, reqs, resps, ioError, puts, deletes, faults>>
    BY <1>10, <2>1, <2>2 DEF SaveBegin, plugVars, netVars, counters
  <2>4. s \in Store /\ s.map = store[n].map /\ s.next = store[n].next
    BY <2>1 DEF TypeOK, Store
  <2>5. j \in Job /\ j.pc = "save" /\ j.snap = job[n].snap
    BY <2>2 DEF TypeOK, Job
  <2>6. TypeOK'
    BY <2>3, <2>4, <2>5 DEF TypeOK
  <2>7. VersionsInv'
    BY <2>3, <2>4, <2>5 DEF TypeOK, VersionsInv, PutVersions
  <2>8. CleanInv'
    <3> SUFFICES ASSUME NEW m \in Persistent, NEW k \in Keys \ store'[m].unmarked
                 PROVE  /\ job'[m].pc \in {"idle", "wait"} /\ ~store'[m].dirty /\ ~ioError[m]
                             => store'[m].map[k] = file[m][k]
                        /\ job'[m].pc = "write" /\ ~store'[m].dirty
                             => store'[m].map[k] = job'[m].snap[k]
      BY <2>3 DEF CleanInv
    <3>1. m \in Nodes
      BY ReplicationAssumption
    <3>2. CASE m = n
      BY <2>3, <2>5, <3>1, <3>2 DEF TypeOK
    <3>3. CASE m # n
      BY <2>3, <3>1, <3>3 DEF TypeOK, CleanInv
    <3> QED
      BY <3>2, <3>3
  <2> QED
    BY <2>6, <2>7, <2>8
<1>11. ASSUME NEW n \in Nodes, SaveCollect(n)
       PROVE  IInv'
  <2>1. PICK j : j = [pc |-> "write", left |-> <<>>, snap |-> store[n].map]
    OBVIOUS
  <2>2. j \in Job /\ j.pc = "write" /\ j.snap = store[n].map
    BY <2>1 DEF TypeOK, Job, Store
  <2>3. /\ job' = [job EXCEPT ![n] = j] /\ AtStore(n) /\ job[n].pc = "save"
        /\ UNCHANGED <<store, file, queue, plug, reqs, resps, ioError, puts, deletes, faults>>
    BY <1>11, <2>1 DEF SaveCollect, netVars, counters
  <2>4. raced' \in [Nodes -> BOOLEAN] /\ \A m \in Nodes : raced[m] => raced'[m]
    BY <2>3, AtStoreLemma
  <2>5. ~raced[n] => Distinct(store[n].map)
    BY DEF VersionsInv, VersionsOf, Distinct
  <2>6. TypeOK'
    BY <2>2, <2>3, <2>4 DEF TypeOK
  <2>7. VersionsInv'
    BY <2>2, <2>3, <2>4, <2>5 DEF TypeOK, VersionsInv
  <2>8. CleanInv'
    BY <2>2, <2>3, ReplicationAssumption DEF CleanInv, TypeOK
  <2> QED
    BY <2>6, <2>7, <2>8
<1>12. ASSUME NEW n \in Nodes, SaveRename(n) \/ SaveFails(n)
       PROVE  IInv'
  <2>1. Idle \in Job /\ Idle.pc = "idle" /\ Distinct(Idle.snap)
    BY InitStoreLemma DEF Idle, Job
  <2>2. job' = [job EXCEPT ![n] = Idle] /\ job[n].pc \in {"save", "write"}
        /\ UNCHANGED <<store, queue, plug, raced, reqs, resps, puts, deletes, faults>>
    BY <1>12 DEF SaveRename, SaveFails, plugVars, netVars, counters
  <2>3. \/ /\ file' = [file EXCEPT ![n] = job[n].snap] /\ job[n].pc = "write"
           /\ ioError' = [ioError EXCEPT ![n] = FALSE]
        \/ file' = file /\ ioError' = [ioError EXCEPT ![n] = TRUE]
    BY <1>12 DEF SaveRename, SaveFails
  <2>4. file' \in [Nodes -> Snapshot] /\ \A m \in Nodes : ~raced[m] => Distinct(file'[m])
    BY <2>3 DEF TypeOK, Job, VersionsInv
  <2>5. TypeOK' /\ VersionsInv'
    BY <2>1, <2>2, <2>3, <2>4 DEF TypeOK, VersionsInv
  <2>6. CleanInv'
    <3> SUFFICES ASSUME NEW m \in Persistent, NEW k \in Keys \ store[m].unmarked
                 PROVE  /\ job'[m].pc \in {"idle", "wait"} /\ ~store[m].dirty /\ ~ioError'[m]
                             => store[m].map[k] = file'[m][k]
                        /\ job'[m].pc = "write" /\ ~store[m].dirty
                             => store[m].map[k] = job'[m].snap[k]
      BY <2>2 DEF CleanInv
    <3>1. m \in Nodes
      BY ReplicationAssumption
    <3>2. CASE m = n
      <4>1. job'[m].pc = "idle"
        BY <2>1, <2>2, <3>1, <3>2 DEF TypeOK
      <4>2. CASE job[n].pc = "write" /\ file' = [file EXCEPT ![n] = job[n].snap]
        <5>1. file'[m] = job[n].snap
          BY <3>1, <3>2, <4>2 DEF TypeOK
        <5> QED
          BY <3>2, <4>1, <4>2, <5>1 DEF CleanInv
      <4>3. CASE ioError' = [ioError EXCEPT ![n] = TRUE]
        BY <3>1, <3>2, <4>1, <4>3 DEF TypeOK
      <4> QED
        BY <2>3, <4>2, <4>3
    <3>3. CASE m # n
      BY <2>2, <2>3, <3>1, <3>3 DEF TypeOK, CleanInv
    <3> QED
      BY <3>2, <3>3
  <2> QED
    BY <2>5, <2>6
<1>13. ASSUME NEW n \in Nodes, Crash(n)
       PROVE  IInv'
  BY <1>13, LeaveStep DEF Crash, TypeOK, VersionsInv
<1>14. ASSUME NEW n \in Nodes, Stop(n)
       PROVE  IInv'
  <2>1. /\ raced' \in [Nodes -> BOOLEAN] /\ \A m \in Nodes : raced[m] => raced'[m]
    BY <1>14, AtStoreLemma DEF Stop
  <2>2. /\ store[n].map \in Snapshot
        /\ ~raced'[n] => Distinct(store[n].map) /\ Distinct(file[n])
    BY <2>1 DEF TypeOK, Store, VersionsInv, VersionsOf, Distinct
  <2>3. /\ file' \in [Nodes -> Snapshot] /\ ioError' \in [Nodes -> BOOLEAN]
        /\ ~raced'[n] => Distinct(file'[n])
        /\ \A m \in Nodes \ {n} : file'[m] = file[m] /\ ioError'[m] = ioError[m]
    BY <1>14, <2>2 DEF Stop, TypeOK
  <2> QED
    BY <1>14, <2>1, <2>3, LeaveStep DEF Stop
<1>15. ASSUME NEW n \in Nodes, Restart(n)
       PROVE  IInv'
  <2>1. PICK s \in Loaded(file[n]) :
          /\ store' = [store EXCEPT ![n] = s]
          /\ ioError' = [ioError EXCEPT ![n] = @ \/ s.map # file[n]]
    BY <1>15 DEF Restart
  <2>2. s \in Store /\ (~raced[n] => VersionsOf(s.map, s.next))
    BY LoadLemma DEF TypeOK, VersionsInv
  <2>3. Idle \in Job /\ Idle.pc = "idle" /\ Distinct(Idle.snap)
    BY InitStoreLemma DEF Idle, Job
  <2>4. /\ job' = [job EXCEPT ![n] = Idle]
        /\ UNCHANGED <<file, queue, plug, raced, reqs, resps, puts, deletes, faults>>
    BY <1>15 DEF Restart, plugVars, netVars, counters
  <2>5. ioError' \in [Nodes -> BOOLEAN]
    BY <2>1 DEF TypeOK
  <2>6. plug[n].pc = "none"
    BY <1>15 DEF Restart, Up, VersionsInv
  <2>7. TypeOK'
    BY <2>1, <2>2, <2>3, <2>4, <2>5 DEF TypeOK
  <2>8. VersionsInv'
    BY <2>1, <2>2, <2>3, <2>4, <2>6 DEF TypeOK, VersionsInv, PutVersions
  <2>9. \A k \in Keys : ~ioError'[n] => s.map[k] = file[n][k]
    BY <2>1 DEF TypeOK
  <2>10. CleanInv'
    BY <2>1, <2>2, <2>3, <2>4, <2>9, ReplicationAssumption DEF CleanInv, TypeOK
  <2> QED
    BY <2>7, <2>8, <2>10
<1>16. ASSUME NEW n \in Nodes, PluginStep(n)
       PROVE  IInv'
  BY <1>16, PluginStepInv
<1> QED
  BY <1>1, <1>2, <1>3, <1>4, <1>5, <1>6, <1>7, <1>8, <1>9, <1>10, <1>11, <1>12, <1>13, <1>14, <1>15, <1>16
  DEF Next, ClientStep, NetworkStep, RoundStep, SaveStep

-----------------------------------------------------------------------------
(* Without faults.                                                         *)

\* What NodeCalm(n) rests on: the step leaves the values of n's own keys here
\* and at its targets, its queue, job and answers alone.
Undisturbed(n) ==
  /\ \A k \in Keys : Home[k] = n =>
       /\ store'[n].map[k] = store[n].map[k]
       /\ \A i \in 1 .. Len(Targets[n]) :
            store'[Targets[n][i]].map[k] = store[Targets[n][i]].map[k]
  /\ queue'[n] = queue[n] /\ job'[n] = job[n] /\ resps'[n] = resps[n] /\ plug'[n] = plug[n]
  /\ (\E m \in reqs : m.from = n) => \E m \in reqs' : m.from = n
  /\ puts <= puts'

\* The length and the members of a sequence.
LEMMA SeqLemma ==
  ASSUME NEW S, NEW s \in Seq(S)
  PROVE  /\ Len(s) \in Nat /\ \A i \in 1 .. Len(s) : s[i] \in S
         /\ s # <<>> => 1 \in 1 .. Len(s) /\ Len(s) >= 1
         /\ s = <<>> => Len(s) = 0
OBVIOUS

LEMMA IndexLemma ==
  ASSUME NEW x \in Nat, NEW y \in Nat, y >= 1, y <= x
  PROVE  x - y + 1 \in 1 .. x
OBVIOUS

\* The sequences of a node.
LEMMA SequencesLemma ==
  ASSUME TypeOK, NEW n \in Nodes
  PROVE  /\ Len(Targets[n]) \in Nat /\ Len(queue[n]) \in Nat /\ Len(job[n].left) \in Nat
         /\ \A i \in 1 .. Len(Targets[n]) : Targets[n][i] \in Nodes /\ Targets[n][i] # n
         /\ \A i \in 1 .. Len(queue[n]) : queue[n][i] \in Item
         /\ \A i \in 1 .. Len(job[n].left) : job[n].left[i] \in Nodes
         /\ queue[n] # <<>> => 1 \in 1 .. Len(queue[n])
         /\ job[n].left # <<>> => 1 \in 1 .. Len(job[n].left) /\ Len(job[n].left) >= 1
<1>1. Targets[n] \in Seq(Nodes) /\ queue[n] \in Seq(Item) /\ job[n].left \in Seq(Nodes)
  BY ReplicationAssumption DEF TypeOK, Job
<1>2. \A i \in 1 .. Len(Targets[n]) : Targets[n][i] # n
  BY ReplicationAssumption
<1>3. Len(Targets[n]) \in Nat /\ \A i \in 1 .. Len(Targets[n]) : Targets[n][i] \in Nodes
  BY <1>1, SeqLemma
<1>4. /\ Len(queue[n]) \in Nat /\ \A i \in 1 .. Len(queue[n]) : queue[n][i] \in Item
      /\ queue[n] # <<>> => 1 \in 1 .. Len(queue[n])
  BY <1>1, SeqLemma
<1>5. /\ Len(job[n].left) \in Nat /\ \A i \in 1 .. Len(job[n].left) : job[n].left[i] \in Nodes
      /\ job[n].left # <<>> => 1 \in 1 .. Len(job[n].left) /\ Len(job[n].left) >= 1
  BY <1>1, SeqLemma
<1> QED
  BY <1>2, <1>3, <1>4, <1>5

\* A node that a step does not disturb stays calm.
LEMMA UndisturbedLemma ==
  ASSUME TypeOK, TypeOK', NEW n \in Nodes, NodeCalm(n), Undisturbed(n)
  PROVE  NodeCalm(n)'
<1>a. /\ QueueCalm(n, queue[n]) /\ StoreCalm(n, queue[n]) /\ HeadCalm(n, queue[n])
      /\ PlugCalm(n, queue[n]) /\ JobCalm(n)
  BY DEF NodeCalm
<1>b. /\ queue'[n] = queue[n] /\ job'[n] = job[n] /\ resps'[n] = resps[n] /\ puts <= puts'
      /\ plug'[n] = plug[n]
      /\ (\E m \in reqs : m.from = n) => \E m \in reqs' : m.from = n
  BY DEF Undisturbed
<1>c. \A k \in Keys : Home[k] = n => store'[n].map[k] = store[n].map[k]
  BY DEF Undisturbed
<1>1. /\ Len(Targets[n]) \in Nat /\ Len(queue[n]) \in Nat /\ Len(job[n].left) \in Nat
      /\ \A i \in 1 .. Len(queue[n]) : queue[n][i].key \in Keys /\ queue[n][i].val \in Nat
      /\ queue[n] # <<>> => 1 \in 1 .. Len(queue[n])
      /\ job[n].left # <<>> => Len(job[n].left) >= 1
      /\ puts \in Nat /\ puts' \in Nat
  BY SequencesLemma DEF Item, TypeOK
<1>2. ASSUME NEW k \in Keys, Home[k] = n, NEW i \in 1 .. Len(Targets[n]), NEW v, Copied(store, n, i, k, v)
      PROVE  Copied(store', n, i, k, v)
  BY <1>2 DEF Copied, Undisturbed
<1>3. QueueCalm(n, queue[n])'
  <2> SUFFICES ASSUME NEW i \in 1 .. Len(queue[n])
               PROVE  /\ Home[queue[n][i].key] = n /\ queue[n][i].val <= puts'
                      /\ store'[n].map[queue[n][i].key] # NoEntry
                           => queue[n][i].val <= store'[n].map[queue[n][i].key].val
                      /\ i > 1 => queue[n][i].attempted = 0
                      /\ \A j \in 1 .. Len(queue[n]) : i < j => queue[n][i].val < queue[n][j].val
    BY <1>b DEF QueueCalm
  <2> QED
    BY <1>1, <1>a, <1>b, <1>c DEF QueueCalm
<1>4. StoreCalm(n, queue[n])'
  BY <1>1, <1>2, <1>a, <1>b, <1>c DEF StoreCalm
<1>5. queue[n] # <<>> => Home[queue[n][1].key] = n /\ queue[n][1].key \in Keys
  BY <1>1, <1>a DEF QueueCalm
<1>6. HeadCalm(n, queue[n])'
  BY <1>1, <1>2, <1>5, <1>a, <1>b DEF HeadCalm
<1>7. JobCalm(n)'
  <2>1. Up(n)' /\ (RoundCalm(n, queue[n], job[n].left) => RoundCalm(n, queue[n], job[n].left)')
        /\ (RoundCalm(n, queue[n], Targets[n]) => RoundCalm(n, queue[n], Targets[n])')
    BY <1>a, <1>b DEF RoundCalm, JobCalm, Up
  <2>2. CASE job[n].pc = "wait"
    <3> DEFINE i == Len(Targets[n]) - Len(job[n].left) + 1
    <3>1. queue[n] # <<>> /\ job[n].left # <<>>
      BY <2>2 DEF TypeOK
    <3>2. i \in 1 .. Len(Targets[n])
      <4>1. RoundCalm(n, queue[n], job[n].left)
        BY <1>a, <2>2 DEF JobCalm
      <4>2. Len(job[n].left) <= Len(Targets[n])
        BY <4>1 DEF RoundCalm
      <4> QED
        BY <1>1, <3>1, <4>2, IndexLemma
    <3>3. Copied(store, n, i, queue[n][1].key, queue[n][1].val)
          => Copied(store', n, i, queue[n][1].key, queue[n][1].val)
      BY <1>2, <1>5, <3>1, <3>2
    <3> QED
      BY <1>a, <1>b, <2>1, <2>2, <3>3 DEF JobCalm
  <2>3. CASE job[n].pc # "wait"
    BY <1>a, <1>b, <2>1, <2>3 DEF JobCalm
  <2> QED
    BY <2>2, <2>3
<1>8. PlugCalm(n, queue[n])'
  <2>1. CASE plug[n].pc = "none"
    BY <1>b, <2>1 DEF PlugCalm
  <2>2. CASE plug[n].pc # "none"
    <3>1. plug[n].key \in Keys /\ plug[n].val \in Nat
      BY <2>2, PlugLemma
    <3> QED
      BY <1>1, <1>a, <1>b, <1>c, <2>2, <3>1 DEF PlugCalm
  <2> QED
    BY <2>1, <2>2
<1> QED
  BY <1>3, <1>4, <1>6, <1>7, <1>8 DEF NodeCalm

Calm == (\A n \in Nodes : NodeCalm(n)) /\ (\A m \in reqs : RequestCalm(m))

\* The latest value of a key, stored, comes to the end of the queue.
LEMMA AppendCalm ==
  ASSUME TypeOK, TypeOK', Calm, NEW n \in Nodes, NEW k \in Keys, NEW v \in Nat,
         Home[k] = n, queue' = Queued(n, k, v), UNCHANGED <<job, reqs, resps>>,
         puts <= puts', v <= puts', \A i \in 1 .. Len(queue[n]) : queue[n][i].val < v,
         store'[n].map[k] # NoEntry, store'[n].map[k].val = v,
         \A j \in Keys \ {k} : store'[n].map[j] = store[n].map[j],
         \A m \in Nodes \ {n} : store'[m] = store[m] /\ plug'[m] = plug[m],
         plug[n].pc # "none" => plug[n].key = k, plug'[n].pc = "none"
  PROVE  Calm'
<1>a. PICK item : item = [key |-> k, val |-> v, attempted |-> 0]
  OBVIOUS
<1>b. PICK q : q = queue[n]
  OBVIOUS
<1>c. PICK r : r = Append(q, item)
  OBVIOUS
<1> USE <1>b
<1>1. queue' = [queue EXCEPT ![n] = r]
  BY <1>a, <1>c DEF Queued
<1>2. q \in Seq(Item) /\ Len(q) \in Nat /\ puts \in Nat /\ puts' \in Nat /\ store[n].map \in Snapshot
  BY DEF TypeOK, Store
<1>3. /\ store'[n].map[k].val = v /\ store'[n].map[k] # NoEntry
      /\ \A j \in Keys \ {k} : store'[n].map[j] = store[n].map[j]
      /\ \A m \in Nodes \ {n} : store'[m] = store[m]
  OBVIOUS
<1>4. /\ queue'[n] = r /\ Len(r) = Len(q) + 1 /\ r[Len(q) + 1] = item
      /\ \A i \in 1 .. Len(q) : r[i] = q[i]
      /\ \A i \in 1 .. Len(r) : i \in 1 .. Len(q) \/ i = Len(q) + 1
      /\ \A m \in Nodes \ {n} : queue'[m] = queue[m]
  BY <1>c, <1>1, <1>2 DEF TypeOK
<1>5. item.key = k /\ item.val = v /\ item.attempted = 0
  BY <1>a
<1>6. /\ \A i \in 1 .. Len(q) : q[i].key \in Keys /\ q[i].val \in Nat
      /\ Len(Targets[n]) \in Nat /\ Len(job[n].left) \in Nat
      /\ \A i \in 1 .. Len(Targets[n]) : Targets[n][i] \in Nodes /\ Targets[n][i] # n
      /\ q # <<>> => 1 \in 1 .. Len(q)
      /\ job[n].left # <<>> => Len(job[n].left) >= 1
  BY SequencesLemma DEF Item
<1>7. q = <<>> => Len(q) = 0
  BY <1>2
<1>8. NodeCalm(n)
  BY DEF Calm
<1>9. \A i \in 1 .. Len(Targets[n]), j \in Keys : \A w : Copied(store, n, i, j, w) => Copied(store', n, i, j, w)
  BY <1>3, <1>6 DEF Copied
<1>10. QueueCalm(n, r)'
  <2>1. QueueCalm(n, q)
    BY <1>8 DEF NodeCalm
  <2> SUFFICES ASSUME NEW i \in 1 .. Len(r)
               PROVE  /\ Home[r[i].key] = n /\ r[i].val <= puts'
                      /\ store'[n].map[r[i].key] # NoEntry
                           => r[i].val <= store'[n].map[r[i].key].val
                      /\ i > 1 => r[i].attempted = 0
                      /\ \A j \in 1 .. Len(r) : i < j => r[i].val < r[j].val
    BY DEF QueueCalm
  <2>2. CASE i = Len(q) + 1
    BY <1>1, <1>2, <1>3, <1>4, <1>5, <2>2
  <2>3. CASE i \in 1 .. Len(q)
    <3>1. r[i] = q[i] /\ q[i].val <= puts /\ q[i].val < v /\ q[i].val \in Nat /\ q[i].key \in Keys
      BY <1>4, <1>6, <2>1, <2>3 DEF QueueCalm
    <3>2. store'[n].map[q[i].key] # NoEntry => q[i].val <= store'[n].map[q[i].key].val
      <4>1. CASE q[i].key = k
        BY <1>2, <1>3, <3>1, <4>1
      <4>2. CASE q[i].key # k
        BY <1>3, <2>1, <2>3, <3>1, <4>2 DEF QueueCalm
      <4> QED
        BY <4>1, <4>2
    <3>3. \A j \in 1 .. Len(r) : i < j => q[i].val < r[j].val
      <4> SUFFICES ASSUME NEW j \in 1 .. Len(r), i < j PROVE q[i].val < r[j].val
        OBVIOUS
      <4>1. CASE j = Len(q) + 1
        BY <1>2, <1>4, <1>5, <3>1, <4>1
      <4>2. CASE j \in 1 .. Len(q)
        BY <1>4, <2>1, <2>3, <4>2 DEF QueueCalm
      <4> QED
        BY <1>4, <4>1, <4>2
    <3> QED
      BY <1>1, <1>2, <2>1, <2>3, <3>1, <3>2, <3>3 DEF QueueCalm
  <2> QED
    BY <1>4, <2>2, <2>3
<1>11. StoreCalm(n, r)'
  <2>1. StoreCalm(n, q)
    BY <1>8 DEF NodeCalm
  <2> SUFFICES ASSUME NEW j \in Keys, Home[j] = n, store'[n].map[j] # NoEntry
               PROVE  \/ \E i \in 1 .. Len(r) : r[i].key = j /\ r[i].val = store'[n].map[j].val
                      \/ /\ \A i \in 1 .. Len(r) : r[i].key # j
                         /\ \A i \in 1 .. Len(Targets[n]) :
                              Copied(store', n, i, j, store'[n].map[j].val)
                      \/ plug'[n].pc \in {"stored", "got"} /\ plug'[n].key = j
    BY <1>4 DEF StoreCalm
  <2>2. CASE j = k
    <3>1. Len(q) + 1 \in 1 .. Len(r)
      BY <1>2, <1>4
    <3> QED
      BY <1>3, <1>4, <1>5, <2>2, <3>1
  <2>3. CASE j # k
    <3>1. store'[n].map[j] = store[n].map[j]
      BY <1>3, <2>3
    <3>2. ASSUME NEW i \in 1 .. Len(q), q[i].key = j, q[i].val = store[n].map[j].val
          PROVE  \E x \in 1 .. Len(r) : r[x].key = j /\ r[x].val = store'[n].map[j].val
      BY <1>2, <1>4, <3>1, <3>2
    <3>3. ASSUME \A i \in 1 .. Len(q) : q[i].key # j
          PROVE  \A i \in 1 .. Len(r) : r[i].key # j
      BY <1>4, <1>5, <2>3, <3>3
    <3> QED
      <4>1. CASE \E i \in 1 .. Len(q) : q[i].key = j /\ q[i].val = store[n].map[j].val
        BY <3>2, <4>1
      <4>2. CASE /\ \A i \in 1 .. Len(q) : q[i].key # j
                 /\ \A i \in 1 .. Len(Targets[n]) : Copied(store, n, i, j, store[n].map[j].val)
        BY <1>9, <3>1, <3>3, <4>2
      <4>3. ~(plug[n].pc \in {"stored", "got"} /\ plug[n].key = j)
        BY <2>3
      <4> QED
        BY <2>1, <3>1, <4>1, <4>2, <4>3 DEF StoreCalm
  <2> QED
    BY <2>2, <2>3
<1>12. r # <<>> /\ (q # <<>> => r[1] = q[1]) /\ (q = <<>> => r[1] = item)
  BY <1>2, <1>4, <1>6, <1>7
<1>13. HeadCalm(n, r)'
  <2>1. CASE q # <<>>
    <3>1. HeadCalm(n, q) /\ r[1] = q[1] /\ q[1].key \in Keys
      BY <1>6, <1>8, <1>12, <2>1 DEF NodeCalm
    <3> QED
      BY <1>9, <2>1, <3>1 DEF HeadCalm
  <2>2. CASE q = <<>>
    BY <1>5, <1>6, <1>12, <2>2 DEF HeadCalm
  <2> QED
    BY <2>1, <2>2
<1>14. ASSUME NEW left, Len(left) \in Nat, RoundCalm(n, q, left), q = <<>> => left = Targets[n]
       PROVE  RoundCalm(n, r, left)'
  <2>1. CASE q # <<>>
    BY <1>12, <1>14, <2>1 DEF RoundCalm
  <2>2. CASE q = <<>>
    <3>1. r[1].attempted = Len(Targets[n]) - Len(left)
      BY <1>5, <1>6, <1>12, <1>14, <2>2
    <3> QED
      BY <1>14, <3>1 DEF RoundCalm
  <2> QED
    BY <2>1, <2>2
<1>15. JobCalm(n)'
  <2>1. JobCalm(n) /\ Up(n)' /\ job'[n] = job[n]
    BY <1>1, <1>8 DEF NodeCalm, JobCalm, Up
  <2>2. CASE job[n].pc = "wait"
    <3>1. q # <<>> /\ job[n].left # <<>>
      BY <2>2 DEF TypeOK
    <3>2. RoundCalm(n, r, job[n].left)' /\ RoundCalm(n, q, job[n].left)
      BY <1>6, <1>14, <2>1, <2>2, <3>1 DEF JobCalm
    <3>3. Len(Targets[n]) - Len(job[n].left) + 1 \in 1 .. Len(Targets[n])
      <4>1. Len(job[n].left) <= Len(Targets[n])
        BY <3>2 DEF RoundCalm
      <4> QED
        BY <1>6, <3>1, <4>1, IndexLemma
    <3>4. q[1].key \in Keys /\ r[1] = q[1]
      BY <1>6, <1>12, <3>1
    <3> QED
      <4> DEFINE i == Len(Targets[n]) - Len(job[n].left) + 1
      <4>1. Copied(store, n, i, q[1].key, q[1].val) => Copied(store', n, i, r[1].key, r[1].val)
        BY <1>9, <3>3, <3>4
      <4>2. \/ resps[n] = 0 /\ \E m \in reqs : m.from = n
            \/ resps[n] = 1 /\ Copied(store, n, i, q[1].key, q[1].val)
        BY <2>1, <2>2 DEF JobCalm
      <4> HIDE DEF i
      <4>3. \/ resps'[n] = 0 /\ \E m \in reqs' : m.from = n
            \/ resps'[n] = 1 /\ Copied(store', n, i, r[1].key, r[1].val)
        BY <1>1, <4>1, <4>2
      <4> QED
        BY <1>1, <1>4, <2>1, <2>2, <3>2, <4>3 DEF JobCalm, i
  <2>3. CASE job[n].pc # "wait"
    <3>1. RoundCalm(n, r, Targets[n])'
      BY <1>6, <1>14, <2>1, <2>3 DEF JobCalm
    <3> QED
      BY <1>1, <1>4, <2>1, <2>3, <3>1 DEF JobCalm
  <2> QED
    BY <2>2, <2>3
<1>16. NodeCalm(n)'
  <2>1. PlugCalm(n, queue[n])'
    BY DEF PlugCalm
  <2> QED
    BY <1>4, <1>10, <1>11, <1>13, <1>15, <2>1 DEF NodeCalm
<1>17. ASSUME NEW m \in Nodes \ {n} PROVE NodeCalm(m)'
  <2>1. \A i \in 1 .. Len(Targets[m]) : Targets[m][i] \in Nodes
    BY SequencesLemma
  <2>2. \A j \in Keys : Home[j] = m => j # k
    BY <1>1
  <2>3. \A j \in Keys, x \in Nodes : j # k => store'[x].map[j] = store[x].map[j]
    BY <1>3
  <2>4. Undisturbed(m)
    BY <1>1, <1>2, <1>4, <2>1, <2>2, <2>3 DEF Undisturbed
  <2> QED
    BY <2>4, UndisturbedLemma DEF Calm
<1>18. ASSUME NEW m \in reqs PROVE RequestCalm(m)'
  <2>1. RequestCalm(m) /\ m.from \in Nodes
    BY DEF Calm, TypeOK, Request
  <2>2. m.from = n => q # <<>> /\ r[1] = q[1]
    BY <1>12, <2>1 DEF RequestCalm, TypeOK
  <2> QED
    BY <1>1, <1>4, <2>1, <2>2 DEF RequestCalm
<1> QED
  BY <1>1, <1>16, <1>17, <1>18 DEF Calm

\* Values that stay here, or go, and copies of what is no longer queued stay.
LEMMA StoreCalmLemma ==
  ASSUME NEW n \in Nodes, NEW q, q = queue[n], queue'[n] = q, StoreCalm(n, q), plug'[n] = plug[n],
         \A k \in Keys : Home[k] = n /\ store'[n].map[k] # NoEntry =>
           store'[n].map[k] = store[n].map[k],
         \A k \in Keys, i \in 1 .. Len(Targets[n]) : \A v :
           (\A x \in 1 .. Len(q) : q[x].key # k) /\ Copied(store, n, i, k, v)
             => Copied(store', n, i, k, v)
  PROVE  StoreCalm(n, queue[n])'
<1> SUFFICES ASSUME NEW k \in Keys, Home[k] = n, store'[n].map[k] # NoEntry
             PROVE  \/ \E i \in 1 .. Len(q) : q[i].key = k /\ q[i].val = store'[n].map[k].val
                    \/ /\ \A i \in 1 .. Len(q) : q[i].key # k
                       /\ \A i \in 1 .. Len(Targets[n]) :
                            Copied(store', n, i, k, store'[n].map[k].val)
                    \/ plug'[n].pc \in {"stored", "got"} /\ plug'[n].key = k
  BY DEF StoreCalm
<1>1. store'[n].map[k] = store[n].map[k]
  OBVIOUS
<1>2. \/ \E i \in 1 .. Len(q) : q[i].key = k /\ q[i].val = store[n].map[k].val
      \/ /\ \A i \in 1 .. Len(q) : q[i].key # k
         /\ \A i \in 1 .. Len(Targets[n]) : Copied(store, n, i, k, store[n].map[k].val)
      \/ plug[n].pc \in {"stored", "got"} /\ plug[n].key = k
  BY <1>1 DEF StoreCalm
<1> QED
  BY <1>1, <1>2

\* A step that stores nothing, sends nothing and takes a node from one step of
\* a save to the next leaves all nodes calm.
LEMMA SaveCalm ==
  ASSUME TypeOK, TypeOK', Calm, NEW n \in Nodes,
         \A m \in Nodes : store'[m].map = store[m].map,
         UNCHANGED <<queue, plug, reqs, resps, puts>>,
         \A m \in Nodes \ {n} : job'[m] = job[m],
         job[n].pc # "wait", job'[n].pc \notin {"wait", "down"}
  PROVE  Calm'
<1>1. ASSUME NEW m \in Nodes \ {n} PROVE NodeCalm(m)'
  <2>1. \A i \in 1 .. Len(Targets[m]) : Targets[m][i] \in Nodes
    BY SequencesLemma
  <2>2. puts \in Nat
    BY DEF TypeOK
  <2>3. Undisturbed(m)
    BY <2>1, <2>2 DEF Undisturbed
  <2> QED
    BY <2>3, UndisturbedLemma DEF Calm
<1>2. NodeCalm(n)'
  <2>1. NodeCalm(n)
    BY DEF Calm
  <2>2. \A i \in 1 .. Len(Targets[n]) : Targets[n][i] \in Nodes
    BY SequencesLemma
  <2>3. \A i \in 1 .. Len(Targets[n]) : \A k, v : Copied(store', n, i, k, v) <=> Copied(store, n, i, k, v)
    BY <2>2 DEF Copied
  <2>4. QueueCalm(n, queue[n])'
    BY <2>1 DEF NodeCalm, QueueCalm
  <2>5. StoreCalm(n, queue[n])'
    BY <2>1, <2>3 DEF NodeCalm, StoreCalm
  <2>6. HeadCalm(n, queue[n])'
    BY <2>1, <2>3 DEF NodeCalm, HeadCalm
  <2>7. JobCalm(n)'
    BY <2>1 DEF NodeCalm, JobCalm, RoundCalm, Up
  <2>8. PlugCalm(n, queue[n])'
    BY <2>1 DEF NodeCalm, PlugCalm
  <2> QED
    BY <2>4, <2>5, <2>6, <2>7, <2>8 DEF NodeCalm
<1>3. ASSUME NEW m \in reqs PROVE RequestCalm(m)'
  <2>1. RequestCalm(m) /\ m.from \in Nodes
    BY DEF Calm, TypeOK, Request
  <2> QED
    BY <2>1 DEF RequestCalm
<1> QED
  BY <1>1, <1>2, <1>3 DEF Calm

\* A step that changes one key of a node, in its own store, and its plugin's place.
LEMMA OwnKeyCalm ==
  ASSUME TypeOK, TypeOK', Calm, NEW n \in Nodes, NEW k \in Keys, Home[k] = n,
         UNCHANGED <<queue, job, reqs, resps>>, puts <= puts',
         \A j \in Keys \ {k} : store'[n].map[j] = store[n].map[j],
         \A m \in Nodes \ {n} : store'[m].map = store[m].map /\ plug'[m] = plug[m],
         QueueCalm(n, queue[n])', StoreCalm(n, queue[n])', PlugCalm(n, queue[n])'
  PROVE  Calm'
<1>1. Home[k] = n /\ UNCHANGED <<queue, job, reqs, resps>>
  OBVIOUS
<1>2. /\ \A j \in Keys \ {k} : store'[n].map[j] = store[n].map[j]
      /\ \A m \in Nodes \ {n} : store'[m].map = store[m].map
  OBVIOUS
<1>3. NodeCalm(n)'
  <2>1. NodeCalm(n)
    BY DEF Calm
  <2>2. \A i \in 1 .. Len(Targets[n]) : Targets[n][i] \in Nodes /\ Targets[n][i] # n
    BY SequencesLemma
  <2>3. \A i \in 1 .. Len(Targets[n]) : \A j, v : Copied(store', n, i, j, v) <=> Copied(store, n, i, j, v)
    BY <1>2, <2>2 DEF Copied
  <2>7. HeadCalm(n, queue[n])'
    BY <1>1, <2>1, <2>3 DEF NodeCalm, HeadCalm
  <2>8. JobCalm(n)'
    <3>1. JobCalm(n)
      BY <2>1 DEF NodeCalm
    <3>2. CASE job[n].pc # "wait"
      BY <1>1, <3>1, <3>2 DEF JobCalm, RoundCalm, Up
    <3>3. CASE job[n].pc = "wait"
      <4>1. RoundCalm(n, queue[n], job[n].left)
        BY <3>1, <3>3 DEF JobCalm
      <4>2. Len(job[n].left) <= Len(Targets[n]) /\ job[n].left # <<>>
        BY <3>3, <4>1 DEF RoundCalm, TypeOK
      <4>3. Len(Targets[n]) - Len(job[n].left) + 1 \in 1 .. Len(Targets[n])
        BY <4>2, IndexLemma, SequencesLemma
      <4>4. RoundCalm(n, queue[n], job[n].left)'
        BY <1>1, <4>1 DEF RoundCalm
      <4> QED
        BY <1>1, <2>3, <3>1, <3>3, <4>3, <4>4 DEF JobCalm, Up
    <3> QED
      BY <3>2, <3>3
  <2> QED
    BY <2>7, <2>8 DEF NodeCalm
<1>4. ASSUME NEW m \in Nodes \ {n} PROVE NodeCalm(m)'
  <2>1. \A i \in 1 .. Len(Targets[m]) : Targets[m][i] \in Nodes
    BY SequencesLemma
  <2>2. \A j \in Keys : Home[j] = m => j # k
    BY <1>1
  <2>3. \A j \in Keys, x \in Nodes : j # k => store'[x].map[j] = store[x].map[j]
    BY <1>2
  <2>4. puts \in Nat
    BY DEF TypeOK
  <2>5. Undisturbed(m)
    BY <1>1, <2>1, <2>2, <2>3, <2>4 DEF Undisturbed
  <2> QED
    BY <2>5, UndisturbedLemma DEF Calm
<1>5. ASSUME NEW m \in reqs PROVE RequestCalm(m)'
  BY <1>1 DEF Calm, RequestCalm
<1> QED
  BY <1>1, <1>3, <1>4, <1>5 DEF Calm

\* A delete removes what had to be copied.
LEMMA DeleteCalm ==
  ASSUME TypeOK, TypeOK', Calm, NEW n \in Nodes, ~raced'[n], NEW k \in Keys, HandleDelete(n, k)
  PROVE  Calm'
<1>1. /\ Home[k] = n /\ store[n].map[k] # NoEntry /\ AtStore(n)
      /\ store' = [store EXCEPT ![n] = delete(store[n], k)]
      /\ UNCHANGED <<queue, job, plug, reqs, resps, puts>>
  BY DEF HandleDelete, netVars
<1>2. /\ store'[n].map[k] = NoEntry
      /\ \A j \in Keys \ {k} : store'[n].map[j] = store[n].map[j]
      /\ \A m \in Nodes \ {n} : store'[m] = store[m]
  <2>1. store'[n].map = [store[n].map EXCEPT ![k] = NoEntry]
    BY <1>1, DeleteLemma DEF TypeOK
  <2>2. \A m \in Nodes \ {n} : store'[m] = store[m]
    BY <1>1 DEF TypeOK
  <2>3. store[n].map \in Snapshot
    BY DEF TypeOK, Store
  <2> QED
    BY <2>1, <2>2, <2>3
<1>3. plug[n].pc = "none" /\ puts \in Nat
  BY <1>1, AtStoreLemma DEF TypeOK
<1>4. NodeCalm(n) /\ \A i \in 1 .. Len(queue[n]) : queue[n][i].key \in Keys
  BY SequencesLemma DEF Calm, Item
<1>5. QueueCalm(n, queue[n])'
  BY <1>1, <1>2, <1>4 DEF NodeCalm, QueueCalm
<1>6. StoreCalm(n, queue[n])'
  <2>1. StoreCalm(n, queue[n])
    BY <1>4 DEF NodeCalm
  <2>2. \A i \in 1 .. Len(Targets[n]) : Targets[n][i] \in Nodes /\ Targets[n][i] # n
    BY SequencesLemma
  <2>3. \A i \in 1 .. Len(Targets[n]) : \A j, v : Copied(store', n, i, j, v) <=> Copied(store, n, i, j, v)
    BY <1>2, <2>2 DEF Copied
  <2>4. \A j \in Keys : store'[n].map[j] # NoEntry => store'[n].map[j] = store[n].map[j]
    BY <1>2
  <2> QED
    BY <1>1, <2>1, <2>3, <2>4, StoreCalmLemma
<1>7. PlugCalm(n, queue[n])'
  BY <1>1, <1>3 DEF PlugCalm
<1> QED
  BY <1>1, <1>2, <1>3, <1>5, <1>6, <1>7, OwnKeyCalm

\* A replica that is stored is the head of its sender's queue.
LEMMA ReplicateCalm ==
  ASSUME TypeOK, TypeOK', Calm, NEW m \in reqs, HandleReplicate(m, FALSE, FALSE)
  PROVE  Calm'
<1>a. PICK n : n = m.from
  OBVIOUS
<1>b. PICK t : t = m.to
  OBVIOUS
<1>1. m \in Request /\ n \in Nodes /\ t \in Nodes /\ m.key \in Keys /\ m.val \in Nat
  BY <1>a, <1>b DEF TypeOK, Request
<1>2. /\ store' = [store EXCEPT ![t] = put(store[t], m.key, m.val)]
      /\ resps' = [resps EXCEPT ![n] = resps[n] + 1]
      /\ reqs' = reqs \ {m}
      /\ UNCHANGED <<queue, job, plug, puts>>
  BY <1>a, <1>b DEF HandleReplicate
<1>3. /\ job[n].pc = "wait" /\ resps[n] = 0 /\ t = job[n].left[1]
      /\ m.key = queue[n][1].key /\ m.val = queue[n][1].val
  BY <1>a, <1>b DEF Calm, RequestCalm
<1>4. /\ Len(Targets[n]) \in Nat /\ Len(queue[n]) \in Nat /\ Len(job[n].left) \in Nat
      /\ \A i \in 1 .. Len(Targets[n]) : Targets[n][i] \in Nodes /\ Targets[n][i] # n
      /\ \A i \in 1 .. Len(queue[n]) : queue[n][i].key \in Keys /\ queue[n][i].val \in Nat
      /\ queue[n] # <<>> /\ 1 \in 1 .. Len(queue[n])
      /\ 1 \in 1 .. Len(job[n].left) /\ Len(job[n].left) >= 1
  BY <1>1, <1>3, SequencesLemma DEF TypeOK, Item
<1>5. NodeCalm(n)
  BY <1>1 DEF Calm
<1>6. PICK x \in 1 .. Len(Targets[n]) :
         x = Len(Targets[n]) - Len(job[n].left) + 1 /\ t = Targets[n][x]
  <2>1. RoundCalm(n, queue[n], job[n].left)
    BY <1>3, <1>5 DEF NodeCalm, JobCalm
  <2>2. Len(job[n].left) <= Len(Targets[n])
    BY <2>1 DEF RoundCalm
  <2>3. job[n].left[1] = Targets[n][Len(Targets[n]) - Len(job[n].left) + 1]
    BY <1>4, <2>1 DEF RoundCalm
  <2> QED
    BY <1>3, <1>4, <2>2, <2>3, IndexLemma
<1>7. Home[m.key] = n /\ t # n
  BY <1>3, <1>4, <1>5, <1>6 DEF NodeCalm, QueueCalm
<1>8. /\ store'[t].map[m.key] # NoEntry /\ store'[t].map[m.key].val = m.val
      /\ \A k \in Keys, y \in Nodes : k # m.key \/ y # t => store'[y].map[k] = store[y].map[k]
  <2>1. store'[t].map = [store[t].map EXCEPT ![m.key] = [val |-> m.val, ver |-> store[t].next]]
    BY <1>1, <1>2, PutLemma DEF TypeOK
  <2>2. [val |-> m.val, ver |-> store[t].next] # NoEntry
    BY <1>1, EntryAssumption DEF TypeOK, Store
  <2>3. \A y \in Nodes \ {t} : store'[y] = store[y]
    BY <1>1, <1>2 DEF TypeOK
  <2>4. store[t].map \in Snapshot
    BY <1>1 DEF TypeOK, Store
  <2> QED
    BY <1>1, <2>1, <2>2, <2>3, <2>4
<1>9. /\ \A i \in 1 .. Len(Targets[n]), k \in Keys : \A v :
           k # m.key /\ Copied(store, n, i, k, v) => Copied(store', n, i, k, v)
      /\ \A i \in 1 .. Len(Targets[n]) :
           Copied(store, n, i, m.key, m.val) => Copied(store', n, i, m.key, m.val)
      /\ Copied(store', n, x, m.key, m.val)
  <2>1. Copied(store', n, x, m.key, m.val)
    BY <1>6, <1>8 DEF Copied
  <2>2. ASSUME NEW i \in 1 .. Len(Targets[n]), Copied(store, n, i, m.key, m.val)
        PROVE  Copied(store', n, i, m.key, m.val)
    <3>1. CASE Targets[n][i] = t
      BY <1>8, <3>1 DEF Copied
    <3>2. CASE Targets[n][i] # t
      BY <1>1, <1>4, <1>8, <2>2, <3>2 DEF Copied
    <3> QED
      BY <3>1, <3>2
  <2>3. ASSUME NEW i \in 1 .. Len(Targets[n]), NEW k \in Keys, k # m.key, NEW v,
               Copied(store, n, i, k, v)
        PROVE  Copied(store', n, i, k, v)
    BY <1>4, <1>8, <2>3 DEF Copied
  <2> QED
    BY <2>1, <2>2, <2>3
<1>10. NodeCalm(n)'
  <2>1. \A k \in Keys : store'[n].map[k] = store[n].map[k]
    BY <1>1, <1>7, <1>8
  <2>2. QueueCalm(n, queue[n])'
    BY <1>2, <1>4, <1>5, <2>1 DEF NodeCalm, QueueCalm
  <2>3. StoreCalm(n, queue[n])'
    <3>1. StoreCalm(n, queue[n])
      BY <1>5 DEF NodeCalm
    <3> QED
      <4>1. \A k \in Keys : (\A i \in 1 .. Len(queue[n]) : queue[n][i].key # k) => k # m.key
        BY <1>3, <1>4
      <4>2. queue'[n] = queue[n]
        BY <1>2
      <4> QED
        <5>1. \A k \in Keys, i \in 1 .. Len(Targets[n]) : \A v :
                (\A y \in 1 .. Len(queue[n]) : queue[n][y].key # k) /\ Copied(store, n, i, k, v)
                  => Copied(store', n, i, k, v)
          BY <1>9, <4>1
        <5> QED
          BY <1>1, <2>1, <3>1, <1>2, <4>2, <5>1, StoreCalmLemma
  <2>4. HeadCalm(n, queue[n])'
    BY <1>2, <1>3, <1>5, <1>9 DEF NodeCalm, HeadCalm
  <2>5. JobCalm(n)'
    <3>1. Up(n)' /\ RoundCalm(n, queue[n], job[n].left)'
      BY <1>2, <1>3, <1>5 DEF NodeCalm, JobCalm, RoundCalm, Up
    <3>2. resps'[n] = 1
      BY <1>1, <1>2, <1>3 DEF TypeOK
    <3>3. Copied(store', n, Len(Targets[n]) - Len(job'[n].left) + 1, queue'[n][1].key, queue'[n][1].val)
      BY <1>2, <1>3, <1>6, <1>9
    <3> QED
      BY <1>2, <1>3, <3>1, <3>2, <3>3 DEF JobCalm
  <2>6. PlugCalm(n, queue[n])'
    <3>1. plug[n].pc # "none" => plug[n].key \in Keys
      BY <1>1, PlugLemma
    <3> QED
      BY <1>2, <1>5, <2>1, <3>1 DEF NodeCalm, PlugCalm
  <2> QED
    BY <2>2, <2>3, <2>4, <2>5, <2>6 DEF NodeCalm
<1>11. ASSUME NEW y \in Nodes \ {n} PROVE NodeCalm(y)'
  <2>1. \A i \in 1 .. Len(Targets[y]) : Targets[y][i] \in Nodes
    BY SequencesLemma
  <2>2. \A j \in Keys : Home[j] = y => j # m.key
    BY <1>7
  <2>3. puts \in Nat /\ resps'[y] = resps[y]
    BY <1>1, <1>2 DEF TypeOK
  <2>4. (\E r \in reqs : r.from = y) => \E r \in reqs' : r.from = y
    BY <1>a, <1>2
  <2>5. Undisturbed(y)
    BY <1>2, <1>8, <2>1, <2>2, <2>3, <2>4 DEF Undisturbed
  <2> QED
    BY <2>5, UndisturbedLemma DEF Calm
<1>12. ASSUME NEW r \in reqs' PROVE RequestCalm(r)'
  <2>1. r \in reqs /\ r # m /\ RequestCalm(r) /\ r \in Request
    BY <1>2 DEF Calm, TypeOK
  <2>2. r.from # n
    <3> SUFFICES ASSUME r.from = n PROVE FALSE
      OBVIOUS
    <3>1. r.from = m.from /\ r.to = m.to /\ r.key = m.key /\ r.val = m.val
      BY <1>a, <1>b, <1>3, <2>1 DEF RequestCalm
    <3> QED
      BY <1>1, <2>1, <3>1 DEF Request
  <2> QED
    BY <1>1, <1>2, <2>1, <2>2 DEF RequestCalm, Request, TypeOK
<1> QED
  BY <1>10, <1>11, <1>12 DEF Calm

\* The loop asks the next target or drops an item that all targets have.
LEMMA ContinueCalm ==
  ASSUME TypeOK, TypeOK', Calm, NEW n \in Nodes, NEW q, InLoop(q), NEW left \in Seq(Nodes),
         QueueCalm(n, q), StoreCalm(n, q), HeadCalm(n, q), PlugCalm(n, q),
         RoundCalm(n, q, left),
         \A m \in reqs : m.from # n,
         Continue(n, q, left), UNCHANGED <<store, plug, puts>>,
         resps'[n] = 0, \A m \in Nodes \ {n} : resps'[m] = resps[m]
  PROVE  Calm'
<1> DEFINE L == Len(Targets[n])
           item == q[1]
<1>1. /\ q # <<>> /\ Len(q) \in Nat /\ Len(q) >= 1 /\ 1 \in 1 .. Len(q) /\ Head(q) = q[1]
      /\ \A i \in 1 .. Len(q) : q[i].key \in Keys /\ q[i].val \in Nat /\ q[i].attempted \in Nat
  <2>1. q \in Seq(Item) /\ q # <<>>
    BY DEF InLoop
  <2>2. Len(q) \in Nat /\ Len(q) >= 1 /\ 1 \in 1 .. Len(q) /\ \A i \in 1 .. Len(q) : q[i] \in Item
    BY <2>1, SeqLemma
  <2>3. Head(q) = q[1]
    BY <2>1
  <2> QED
    BY <2>1, <2>2, <2>3 DEF Item
<1>2. Len(left) \in Nat /\ (left # <<>> => 1 \in 1 .. Len(left) /\ Head(left) = left[1])
      /\ (left = <<>> => Len(left) = 0)
  BY SeqLemma
<1>3. L \in Nat /\ L <= ReplicaCount /\ ReplicaCount \in Nat
  BY SequencesLemma, ReplicationAssumption
<1>4. Done(Head(q)) <=> q[1].attempted >= ReplicaCount
  BY <1>1 DEF Done
<1>5. \A m \in Nodes \ {n} : job'[m] = job[m] /\ queue'[m] = queue[m]
  BY DEF Continue, TypeOK
<1>6. reqs \subseteq reqs'
  BY DEF Continue
<1>7. ASSUME NEW m \in Nodes \ {n} PROVE NodeCalm(m)'
  <2>1. puts \in Nat
    BY DEF TypeOK
  <2>2. Undisturbed(m)
    BY <1>5, <1>6, <2>1 DEF Undisturbed
  <2> QED
    BY <2>2, UndisturbedLemma DEF Calm
<1>8. ASSUME NEW m \in reqs PROVE RequestCalm(m)'
  <2>1. RequestCalm(m) /\ m.from \in Nodes \ {n}
    BY DEF Calm, TypeOK, Request
  <2> QED
    BY <1>5, <2>1 DEF RequestCalm
<1>9. CASE left # <<>> /\ ~Done(Head(q))
  <2> DEFINE r == [from |-> n, to |-> Head(left), key |-> Head(q).key, val |-> Head(q).val]
  <2>1. /\ job'[n] = Waiting(left) /\ queue'[n] = q /\ reqs' = reqs \cup {r}
    BY <1>9 DEF Continue, TypeOK
  <2>2. job'[n].pc = "wait" /\ job'[n].left = left
    BY <2>1 DEF Waiting
  <2>3. r \in reqs' /\ r.from = n /\ r.to = left[1] /\ r.key = q[1].key /\ r.val = q[1].val
    BY <1>1, <1>2, <1>9, <2>1
  <2> HIDE DEF r
  <2>4. QueueCalm(n, queue[n])' /\ StoreCalm(n, queue[n])' /\ HeadCalm(n, queue[n])'
        /\ PlugCalm(n, queue[n])'
    BY <2>1 DEF QueueCalm, StoreCalm, HeadCalm, PlugCalm
  <2>5. JobCalm(n)'
    <3>1. RoundCalm(n, queue[n], job[n].left)'
      BY <2>1, <2>2 DEF RoundCalm
    <3> QED
      BY <2>2, <2>3, <3>1 DEF JobCalm, Up
  <2>6. RequestCalm(r)'
    BY <2>1, <2>2, <2>3 DEF RequestCalm
  <2> QED
    BY <1>7, <1>8, <2>1, <2>4, <2>5, <2>6 DEF Calm, NodeCalm
<1>10. CASE Done(Head(q))
  <2>1. /\ job'[n] = Idle /\ queue'[n] = Tail(q) /\ reqs' = reqs
    BY <1>10 DEF Continue, TypeOK
  <2>2. PICK t : t = Tail(q)
    OBVIOUS
  <2>3. /\ t \in Seq(Item) /\ Len(t) = Len(q) - 1
        /\ \A i \in 1 .. Len(t) : t[i] = q[i + 1] /\ i + 1 \in 1 .. Len(q) /\ i + 1 > 1
        /\ t # <<>> => 1 \in 1 .. Len(t)
    <3>1. t \in Seq(Item) /\ Len(t) = Len(q) - 1 /\ \A i \in 1 .. Len(t) : t[i] = q[i + 1]
      BY <1>1, <2>2 DEF InLoop
    <3> QED
      BY <1>1, <3>1, SeqLemma
  <2>4. QueueCalm(n, t)'
    <3> SUFFICES ASSUME NEW i \in 1 .. Len(t)
                 PROVE  /\ Home[t[i].key] = n /\ t[i].val <= puts
                        /\ store[n].map[t[i].key] # NoEntry => t[i].val <= store[n].map[t[i].key].val
                        /\ i > 1 => t[i].attempted = 0
                        /\ \A j \in 1 .. Len(t) : i < j => t[i].val < t[j].val
      BY DEF QueueCalm
    <3>1. t[i] = q[i + 1] /\ i + 1 \in 1 .. Len(q) /\ i + 1 > 1
      BY <2>3
    <3>2. \A j \in 1 .. Len(t) : i < j => t[i].val < t[j].val
      <4> SUFFICES ASSUME NEW j \in 1 .. Len(t), i < j PROVE t[i].val < t[j].val
        OBVIOUS
      <4>1. t[j] = q[j + 1] /\ j + 1 \in 1 .. Len(q) /\ i + 1 < j + 1
        BY <2>3
      <4> QED
        BY <3>1, <4>1 DEF QueueCalm
    <3> QED
      BY <3>1, <3>2 DEF QueueCalm
  <2>5. \A i \in 1 .. L : Copied(store, n, i, item.key, item.val)
    BY <1>1, <1>3, <1>4, <1>10 DEF HeadCalm
  <2>6. StoreCalm(n, t)'
    <3> SUFFICES ASSUME NEW k \in Keys, Home[k] = n, store[n].map[k] # NoEntry
                 PROVE  \/ \E i \in 1 .. Len(t) : t[i].key = k /\ t[i].val = store[n].map[k].val
                        \/ /\ \A i \in 1 .. Len(t) : t[i].key # k
                           /\ \A i \in 1 .. L : Copied(store, n, i, k, store[n].map[k].val)
                        \/ plug[n].pc \in {"stored", "got"} /\ plug[n].key = k
      BY DEF StoreCalm
    <3>1. CASE k = item.key /\ item.val = store[n].map[k].val
      <4>1. ASSUME NEW i \in 1 .. Len(t) PROVE t[i].key # k
        <5>1. t[i] = q[i + 1] /\ i + 1 \in 1 .. Len(q) /\ 1 < i + 1
          BY <2>3
        <5>2. item.val < t[i].val
          BY <1>1, <5>1 DEF QueueCalm
        <5>3. t[i].key = k => t[i].val <= store[n].map[k].val
          BY <5>1 DEF QueueCalm
        <5>4. item.val \in Nat /\ t[i].val \in Nat
          BY <1>1, <5>1
        <5> QED
          BY <3>1, <5>2, <5>3, <5>4
      <4> QED
        BY <2>5, <3>1, <4>1
    <3>2. CASE ~(k = item.key /\ item.val = store[n].map[k].val)
      <4>1. ASSUME NEW i \in 1 .. Len(q), q[i].key = k, q[i].val = store[n].map[k].val
            PROVE  \E j \in 1 .. Len(t) : t[j].key = k /\ t[j].val = store[n].map[k].val
        <5>1. i - 1 \in 1 .. Len(t) /\ (i - 1) + 1 = i
          BY <1>1, <2>3, <3>2, <4>1
        <5> QED
          <6>1. PICK j \in 1 .. Len(t) : j + 1 = i
            BY <5>1
          <6>2. t[j] = q[i]
            BY <2>3, <6>1
          <6> QED
            BY <4>1, <6>2
      <4>2. (\A i \in 1 .. Len(q) : q[i].key # k) => \A i \in 1 .. Len(t) : t[i].key # k
        BY <2>3
      <4> QED
        BY <4>1, <4>2 DEF StoreCalm
    <3> QED
      BY <3>1, <3>2
  <2>7. t # <<>> => t[1].attempted = 0
    BY <2>3 DEF QueueCalm
  <2>8. HeadCalm(n, t)'
    BY <1>3, <2>7 DEF HeadCalm
  <2>9. RoundCalm(n, t, Targets[n])'
    BY <1>3, <2>7 DEF RoundCalm
  <2>10. JobCalm(n)'
    BY <2>1, <2>2, <2>9 DEF JobCalm, Up, Idle
  <2>12. PlugCalm(n, t)'
    BY <2>3 DEF PlugCalm
  <2>11. QueueCalm(n, queue[n])' /\ StoreCalm(n, queue[n])' /\ HeadCalm(n, queue[n])'
         /\ PlugCalm(n, queue[n])'
    BY <2>1, <2>2, <2>4, <2>6, <2>8, <2>12 DEF QueueCalm, StoreCalm, HeadCalm, PlugCalm
  <2> QED
    BY <1>7, <1>8, <2>1, <2>10, <2>11 DEF Calm, NodeCalm
<1>11. CASE left = <<>> /\ ~Done(Head(q))
  <2>1. /\ job'[n] = Idle /\ queue'[n] = q /\ reqs' = reqs
    BY <1>11 DEF Continue, TypeOK
  <2>2. q[1].attempted >= L
    BY <1>1, <1>2, <1>3, <1>11 DEF RoundCalm
  <2>3. QueueCalm(n, queue[n])' /\ StoreCalm(n, queue[n])' /\ HeadCalm(n, queue[n])'
        /\ PlugCalm(n, queue[n])'
    BY <2>1 DEF QueueCalm, StoreCalm, HeadCalm, PlugCalm
  <2>4. RoundCalm(n, queue[n], Targets[n])'
    BY <1>3, <2>1, <2>2 DEF RoundCalm
  <2>5. JobCalm(n)'
    BY <2>1, <2>4 DEF JobCalm, Up, Idle
  <2> QED
    BY <1>7, <1>8, <2>1, <2>3, <2>5 DEF Calm, NodeCalm
<1> QED
  BY <1>9, <1>10, <1>11

\* A put of another node, or a client, at a node no plugin is putting at.
LEMMA PutCalm ==
  ASSUME TypeOK, TypeOK', Calm, NEW n \in Nodes, ~raced'[n], NEW k \in Keys,
         HandlePut(n, k), ~Fault
  PROVE  Calm'
<1>1. /\ Home[k] = n /\ puts' = puts + 1 /\ AtStore(n)
      /\ store' = [store EXCEPT ![n] = put(@, k, puts + 1)]
      /\ queue' = Queued(n, k, puts + 1)
      /\ UNCHANGED <<job, plug, reqs, resps>>
  BY DEF HandlePut, netVars
<1>2. puts \in Nat /\ store[n] \in Store /\ store[n].map \in Snapshot /\ store[n].next \in Nat
  BY DEF TypeOK, Store
<1>3. plug[n].pc = "none"
  BY <1>1, AtStoreLemma
<1>4. store'[n].map = [store[n].map EXCEPT ![k] = [val |-> puts + 1, ver |-> store[n].next]]
  <2>1. puts + 1 \in Nat
    BY <1>2
  <2>2. store'[n] = put(store[n], k, puts + 1)
    BY <1>1 DEF TypeOK
  <2>3. put(store[n], k, puts + 1).map =
          [store[n].map EXCEPT ![k] = [val |-> puts + 1, ver |-> store[n].next]]
    BY <1>2, <2>1, PutLemma
  <2> QED
    BY <2>2, <2>3
<1>5. [val |-> puts + 1, ver |-> store[n].next] # NoEntry
  BY <1>2, EntryAssumption
<1>6. \A m \in Nodes \ {n} : store'[m] = store[m]
  BY <1>1 DEF TypeOK
<1>7. \A i \in 1 .. Len(queue[n]) : queue[n][i].val < puts + 1
  <2>1. \A i \in 1 .. Len(queue[n]) : queue[n][i].val \in Nat
    BY SequencesLemma DEF Item
  <2>2. QueueCalm(n, queue[n])
    BY DEF Calm, NodeCalm
  <2> QED
    BY <1>2, <2>1, <2>2 DEF QueueCalm
<1>8. /\ store'[n].map[k] # NoEntry /\ store'[n].map[k].val = puts + 1
      /\ \A j \in Keys \ {k} : store'[n].map[j] = store[n].map[j]
  BY <1>2, <1>4, <1>5
<1>9. puts <= puts' /\ puts + 1 <= puts' /\ puts + 1 \in Nat
  BY <1>1, <1>2
<1> QED
  BY <1>1, <1>3, <1>6, <1>7, <1>8, <1>9, AppendCalm

\* A plugin's put at a node where no other thread is at the store or the queue.
LEMMA PluginCalm ==
  ASSUME TypeOK, TypeOK', Calm, NEW n \in Nodes, PluginStep(n), ~Fault
  PROVE  Calm'
<1>a. NodeCalm(n) /\ puts \in Nat /\ store[n] \in Store /\ store[n].map \in Snapshot
  BY DEF Calm, TypeOK, Store
<1>b. \A i \in 1 .. Len(queue[n]) : queue[n][i].key \in Keys /\ queue[n][i].val \in Nat
  BY SequencesLemma DEF Item
<1>c. QueueCalm(n, queue[n]) /\ StoreCalm(n, queue[n]) /\ PlugCalm(n, queue[n])
  BY <1>a DEF NodeCalm
<1>d. plug[n].pc # "none" =>
        /\ plug[n] \in Put /\ plug[n].key \in Keys /\ plug[n].val \in Nat
        /\ plug[n].pc \in {"read", "removed", "stored", "got"}
        /\ Home[plug[n].key] = n /\ plug[n].val <= puts
  BY <1>c, PlugLemma DEF PlugCalm
<1>e. \A i \in 1 .. Len(Targets[n]) : Targets[n][i] \in Nodes /\ Targets[n][i] # n
  BY SequencesLemma
<1>1. ASSUME NEW k \in Keys, PluginReads(n, k) PROVE Calm'
  <2>1. PICK p : p = [pc |-> "read", key |-> k, val |-> puts + 1, ver |-> store[n].next]
    OBVIOUS
  <2>2. /\ plug' = [plug EXCEPT ![n] = p] /\ puts' = puts + 1 /\ Home[k] = n /\ plug[n].pc = "none"
        /\ UNCHANGED <<store, queue, job, reqs, resps>>
    BY <1>1, <2>1 DEF PluginReads, netVars
  <2>3. plug'[n] = p /\ \A m \in Nodes \ {n} : plug'[m] = plug[m]
    BY <2>2 DEF TypeOK
  <2>4. p.pc = "read" /\ p.key = k /\ p.val = puts + 1
    BY <2>1
  <2>5. QueueCalm(n, queue[n])'
    BY <1>a, <1>b, <1>c, <2>2 DEF QueueCalm
  <2>6. StoreCalm(n, queue[n])'
    BY <1>c, <2>2 DEF StoreCalm, Copied
  <2>7. PlugCalm(n, queue[n])'
    BY <1>a, <1>b, <1>c, <2>2, <2>3, <2>4 DEF PlugCalm, QueueCalm
  <2>8. puts <= puts'
    BY <1>a, <2>2
  <2> QED
    BY <2>2, <2>3, <2>5, <2>6, <2>7, <2>8, OwnKeyCalm
<1>2. CASE PluginRemoves(n)
  <2>1. PICK p : p = [plug[n] EXCEPT !.pc = "removed"]
    OBVIOUS
  <2>2. PICK k \in Keys : k = plug[n].key
    BY <1>2, <1>d DEF PluginRemoves
  <2>3. /\ plug[n].pc = "read" /\ plug' = [plug EXCEPT ![n] = p]
        /\ store' = [store EXCEPT ![n] = remove(store[n], k)]
        /\ UNCHANGED <<queue, job, puts, reqs, resps>>
    BY <1>2, <2>1, <2>2 DEF PluginRemoves, netVars, counters
  <2>4. plug'[n] = p /\ \A m \in Nodes \ {n} : plug'[m] = plug[m] /\ store'[m] = store[m]
    BY <2>3 DEF TypeOK
  <2>5. p.pc = "removed" /\ p.key = k /\ p.val = plug[n].val
    BY <1>d, <2>1, <2>2, <2>3 DEF Put
  <2>6. store'[n].map = [store[n].map EXCEPT ![k] = NoEntry]
    BY <1>a, <2>3, RemoveLemma DEF TypeOK
  <2>7. store'[n].map[k] = NoEntry /\ \A j \in Keys \ {k} : store'[n].map[j] = store[n].map[j]
    BY <1>a, <2>6
  <2>8. QueueCalm(n, queue[n])'
    BY <1>b, <1>c, <2>3, <2>7 DEF QueueCalm
  <2>9. StoreCalm(n, queue[n])'
    <3> SUFFICES ASSUME NEW j \in Keys, Home[j] = n, store'[n].map[j] # NoEntry
                 PROVE  \/ \E i \in 1 .. Len(queue[n]) :
                             queue[n][i].key = j /\ queue[n][i].val = store'[n].map[j].val
                        \/ /\ \A i \in 1 .. Len(queue[n]) : queue[n][i].key # j
                           /\ \A i \in 1 .. Len(Targets[n]) :
                                Copied(store', n, i, j, store'[n].map[j].val)
      BY <2>3 DEF StoreCalm
    <3>1. store'[n].map[j] = store[n].map[j] /\ j # k
      BY <2>7
    <3>2. \A i \in 1 .. Len(Targets[n]) : \A v : Copied(store, n, i, j, v) => Copied(store', n, i, j, v)
      BY <1>e, <2>4 DEF Copied
    <3>3. ~(plug[n].pc \in {"stored", "got"} /\ plug[n].key = j)
      BY <2>3
    <3> QED
      BY <1>c, <3>1, <3>2, <3>3 DEF StoreCalm
  <2>10. PlugCalm(n, queue[n])'
    BY <1>c, <1>d, <2>2, <2>3, <2>4, <2>5 DEF PlugCalm
  <2> QED
    BY <1>a, <1>d, <2>2, <2>3, <2>4, <2>7, <2>8, <2>9, <2>10, OwnKeyCalm
<1>3. CASE PluginInserts(n)
  <2>1. PICK p : p = [plug[n] EXCEPT !.pc = "stored"]
    OBVIOUS
  <2>2. PICK k \in Keys : k = plug[n].key
    BY <1>3, <1>d DEF PluginInserts
  <2>3. /\ plug[n].pc = "removed" /\ plug' = [plug EXCEPT ![n] = p]
        /\ store' = [store EXCEPT ![n] = insert(store[n], k, plug[n].val, plug[n].ver)]
        /\ UNCHANGED <<queue, job, puts, reqs, resps>>
    BY <1>3, <2>1, <2>2 DEF PluginInserts, netVars, counters
  <2>4. plug'[n] = p /\ \A m \in Nodes \ {n} : plug'[m] = plug[m] /\ store'[m] = store[m]
    BY <2>3 DEF TypeOK
  <2>5. p.pc = "stored" /\ p.key = k /\ p.val = plug[n].val
    BY <1>d, <2>1, <2>2, <2>3 DEF Put
  <2>6. plug[n].val \in Nat /\ plug[n].ver \in Nat
    BY <1>d, <2>3 DEF Put
  <2>7. store'[n].map = [store[n].map EXCEPT ![k] = [val |-> plug[n].val, ver |-> plug[n].ver]]
    BY <1>a, <2>3, <2>6, InsertLemma DEF TypeOK
  <2>8. [val |-> plug[n].val, ver |-> plug[n].ver] # NoEntry
    BY <2>6, EntryAssumption
  <2>9. /\ store'[n].map[k] # NoEntry /\ store'[n].map[k].val = plug[n].val
        /\ \A j \in Keys \ {k} : store'[n].map[j] = store[n].map[j]
    BY <1>a, <2>7, <2>8
  <2>10. QueueCalm(n, queue[n])'
    <3> SUFFICES ASSUME NEW i \in 1 .. Len(queue[n])
                 PROVE  store'[n].map[queue[n][i].key] # NoEntry
                          => queue[n][i].val <= store'[n].map[queue[n][i].key].val
      BY <1>c, <2>3 DEF QueueCalm
    <3>1. CASE queue[n][i].key = k
      <4>1. queue[n][i].val < plug[n].val
        BY <1>c, <2>3 DEF PlugCalm
      <4> QED
        BY <1>b, <2>6, <2>9, <3>1, <4>1
    <3>2. CASE queue[n][i].key # k
      BY <1>b, <1>c, <2>9, <3>2 DEF QueueCalm
    <3> QED
      BY <3>1, <3>2
  <2>11. StoreCalm(n, queue[n])'
    <3> SUFFICES ASSUME NEW j \in Keys, Home[j] = n, store'[n].map[j] # NoEntry
                 PROVE  \/ \E i \in 1 .. Len(queue[n]) :
                             queue[n][i].key = j /\ queue[n][i].val = store'[n].map[j].val
                        \/ /\ \A i \in 1 .. Len(queue[n]) : queue[n][i].key # j
                           /\ \A i \in 1 .. Len(Targets[n]) :
                                Copied(store', n, i, j, store'[n].map[j].val)
                        \/ plug'[n].pc \in {"stored", "got"} /\ plug'[n].key = j
      BY <2>3 DEF StoreCalm
    <3>1. CASE j = k
      BY <2>4, <2>5, <3>1
    <3>2. CASE j # k
      <4>1. store'[n].map[j] = store[n].map[j]
        BY <2>9, <3>2
      <4>2. \A i \in 1 .. Len(Targets[n]) : \A v : Copied(store, n, i, j, v) => Copied(store', n, i, j, v)
        BY <1>e, <2>4 DEF Copied
      <4>3. ~(plug[n].pc \in {"stored", "got"} /\ plug[n].key = j)
        BY <2>3
      <4> QED
        BY <1>c, <4>1, <4>2, <4>3 DEF StoreCalm
    <3> QED
      BY <3>1, <3>2
  <2>12. PlugCalm(n, queue[n])'
    BY <1>c, <1>d, <2>2, <2>3, <2>4, <2>5, <2>9 DEF PlugCalm
  <2> QED
    BY <1>a, <1>d, <2>2, <2>3, <2>4, <2>9, <2>10, <2>11, <2>12, OwnKeyCalm
<1>4. CASE PluginGets(n)
  <2>1. PICK k \in Keys : k = plug[n].key
    BY <1>4, <1>d DEF PluginGets
  <2>2. /\ plug[n].pc = "stored" /\ store[n].map[k] # NoEntry /\ store[n].map[k].val = plug[n].val
    BY <1>4, <1>c, <2>1 DEF PluginGets, PlugCalm
  <2>3. PICK p : p = [plug[n] EXCEPT !.pc = "got", !.val = store[n].map[k].val]
    OBVIOUS
  <2>4. /\ plug' = [plug EXCEPT ![n] = p] /\ store' = [store EXCEPT ![n] = mark(store[n])]
        /\ UNCHANGED <<queue, job, puts, reqs, resps>>
    BY <1>4, <2>1, <2>2, <2>3 DEF PluginGets, netVars, counters
  <2>5. plug'[n] = p /\ \A m \in Nodes \ {n} : plug'[m] = plug[m] /\ store'[m] = store[m]
    BY <2>4 DEF TypeOK
  <2>6. p.pc = "got" /\ p.key = k /\ p.val = plug[n].val
    BY <1>d, <2>1, <2>2, <2>3 DEF Put
  <2>7. store'[n].map = store[n].map
    BY <1>a, <2>4, MarkLemma DEF TypeOK
  <2>8. QueueCalm(n, queue[n])'
    BY <1>c, <2>4, <2>7 DEF QueueCalm
  <2>9. StoreCalm(n, queue[n])'
    <3>1. \A i \in 1 .. Len(Targets[n]), j \in Keys : \A v : Copied(store, n, i, j, v) => Copied(store', n, i, j, v)
      BY <1>e, <2>5 DEF Copied
    <3> SUFFICES ASSUME NEW j \in Keys, Home[j] = n, store'[n].map[j] # NoEntry
                 PROVE  \/ \E i \in 1 .. Len(queue[n]) :
                             queue[n][i].key = j /\ queue[n][i].val = store'[n].map[j].val
                        \/ /\ \A i \in 1 .. Len(queue[n]) : queue[n][i].key # j
                           /\ \A i \in 1 .. Len(Targets[n]) :
                                Copied(store', n, i, j, store'[n].map[j].val)
                        \/ plug'[n].pc \in {"stored", "got"} /\ plug'[n].key = j
      BY <2>4 DEF StoreCalm
    <3>2. CASE j = k
      BY <2>5, <2>6, <3>2
    <3>3. CASE j # k
      BY <1>c, <2>1, <2>7, <3>1, <3>3 DEF StoreCalm
    <3> QED
      BY <3>2, <3>3
  <2>10. PlugCalm(n, queue[n])'
    BY <1>c, <1>d, <2>1, <2>2, <2>4, <2>5, <2>6, <2>7 DEF PlugCalm
  <2> QED
    BY <1>a, <1>d, <2>1, <2>2, <2>4, <2>5, <2>7, <2>8, <2>9, <2>10, OwnKeyCalm
<1>5. CASE PluginEnqueues(n)
  <2>1. PICK k \in Keys : k = plug[n].key
    BY <1>5, <1>d DEF PluginEnqueues
  <2>2. /\ plug[n].pc = "got" /\ queue' = Queued(n, k, plug[n].val)
        /\ plug' = [plug EXCEPT ![n] = NoPut]
        /\ UNCHANGED <<store, job, puts, reqs, resps>>
    BY <1>5, <2>1 DEF PluginEnqueues, netVars, counters
  <2>3. plug'[n].pc = "none" /\ \A m \in Nodes \ {n} : plug'[m] = plug[m]
    BY <2>2 DEF TypeOK, NoPut
  <2>4. /\ \A i \in 1 .. Len(queue[n]) : queue[n][i].val < plug[n].val
        /\ store[n].map[k] # NoEntry /\ store[n].map[k].val = plug[n].val
    BY <1>c, <2>1, <2>2 DEF PlugCalm
  <2>5. Home[k] = n /\ plug[n].val \in Nat /\ plug[n].val <= puts' /\ puts <= puts'
    BY <1>a, <1>d, <2>1, <2>2
  <2> QED
    BY <2>1, <2>2, <2>3, <2>4, <2>5, AppendCalm
<1>6. ~PluginFails(n)
  BY DEF PluginFails
<1> QED
  BY <1>1, <1>2, <1>3, <1>4, <1>5, <1>6 DEF PluginStep

\* What has gone wrong stays so.
LEMMA UntroubledBefore ==
  ASSUME TypeOK, [Next]_vars, Untroubled'
  PROVE  Untroubled
<1>1. faults' = faults \/ faults' = faults + 1
  BY DEF vars, counters, netVars, plugVars, Fault, Next, NetworkStep, ClientStep, PluginStep, RoundStep,
     SaveStep, HandlePut, HandleDelete, HandleReplicate, RequestLost, PluginReads, PluginRemoves,
     PluginInserts, PluginGets, PluginEnqueues, PluginFails, StartRound, Answered, TimedOut,
     AnswerIgnored, SaveBegin, SaveCollect, SaveRename, SaveFails, Crash, Stop, Leave, Restart
<1>2. raced' = raced \/ \E n \in Nodes : AtStore(n) \/ AtQueue(n)
  <2>1. \A m \in reqs : m.to \in Nodes
    BY DEF TypeOK, Request
  <2> QED
    BY <2>1 DEF vars, counters, netVars, plugVars, Next, NetworkStep, ClientStep, PluginStep, RoundStep,
     SaveStep, HandlePut, HandleDelete, HandleReplicate, RequestLost, PluginReads, PluginRemoves,
     PluginInserts, PluginGets, PluginEnqueues, PluginFails, StartRound, Answered, TimedOut,
     AnswerIgnored, SaveBegin, SaveCollect, SaveRename, SaveFails, Crash, Stop, Leave, Restart
<1>3. faults = 0
  BY <1>1 DEF Untroubled, TypeOK
<1>4. \A n \in Nodes : raced[n] => raced'[n]
  BY <1>2, AtStoreLemma
<1> QED
  BY <1>3, <1>4 DEF Untroubled

LEMMA CalmInductive == IInv /\ IInv' /\ CalmInv /\ [Next]_vars => CalmInv'
<1> SUFFICES ASSUME IInv, IInv', CalmInv, [Next]_vars, Untroubled' PROVE Calm'
  BY DEF CalmInv, Calm
<1>a. TypeOK /\ TypeOK' /\ faults \in Nat
  BY DEF IInv, TypeOK
<1>b. ~Fault
  BY <1>a DEF Fault, Untroubled
<1>c. Calm
  BY <1>a, UntroubledBefore DEF CalmInv, Calm
<1>d. \A n \in Nodes : ~raced'[n]
  BY DEF Untroubled
<1>1. CASE UNCHANGED vars
  <2>1. Calm /\ UNCHANGED <<store, queue, job, plug, reqs, resps, puts>>
    BY <1>1, <1>c DEF vars
  <2>2. ASSUME NEW n \in Nodes PROVE NodeCalm(n)'
    <3>1. Undisturbed(n)
      BY <1>a, <2>1 DEF Undisturbed, TypeOK
    <3> QED
      BY <1>a, <2>1, <3>1, UndisturbedLemma DEF Calm
  <2>3. ASSUME NEW m \in reqs PROVE RequestCalm(m)'
    BY <2>1 DEF Calm, RequestCalm
  <2> QED
    BY <2>1, <2>2, <2>3 DEF Calm
<1>2. ASSUME NEW n \in Nodes, NEW k \in Keys, HandlePut(n, k)
      PROVE  Calm'
  BY <1>2, <1>a, <1>b, <1>c, <1>d, PutCalm
<1>3. ASSUME NEW n \in Nodes, NEW k \in Keys, HandleDelete(n, k)
      PROVE  Calm'
  BY <1>3, <1>a, <1>c, <1>d, DeleteCalm
<1>4. ASSUME NEW m \in reqs, NEW again \in BOOLEAN, NEW fails \in BOOLEAN,
             HandleReplicate(m, again, fails)
      PROVE  Calm'
  <2>1. again = FALSE /\ fails = FALSE
    BY <1>4, <1>b DEF HandleReplicate
  <2> QED
    BY <1>4, <1>a, <1>c, <2>1, ReplicateCalm
<1>5. ASSUME NEW m \in reqs, RequestLost(m)
      PROVE  Calm'
  <2>1. ~Up(m.to) /\ m.to \in Nodes
    BY <1>5, <1>a, <1>b DEF RequestLost, TypeOK, Request
  <2> QED
    BY <1>c, <2>1 DEF Calm, NodeCalm, JobCalm
<1>6. ASSUME NEW n \in Nodes, StartRound(n)
      PROVE  Calm'
  <2>1. /\ job[n].pc = "idle" /\ queue[n] # <<>> /\ Continue(n, queue[n], Targets[n])
        /\ UNCHANGED <<store, plug, puts, resps, faults>>
    BY <1>6 DEF StartRound, counters
  <2>2. InLoop(queue[n]) /\ Targets[n] \in Seq(Nodes)
    BY <1>a, <2>1, QueueLemma, ReplicationAssumption
  <2>3. Calm /\ NodeCalm(n)
    BY <1>c, <2>1 DEF Calm
  <2>4. resps[n] = 0 /\ RoundCalm(n, queue[n], Targets[n])
    BY <2>1, <2>3 DEF NodeCalm, JobCalm
  <2>5. \A m \in reqs : m.from # n
    BY <2>1, <2>3 DEF Calm, RequestCalm
  <2> QED
    BY <1>a, <2>1, <2>2, <2>3, <2>4, <2>5, ContinueCalm DEF NodeCalm
<1>7. ASSUME NEW n \in Nodes, Answered(n)
      PROVE  Calm'
  <2>1. PICK left : left = Tail(job[n].left)
    OBVIOUS
  <2>2. PICK q : q = markAttempted(queue[n])
    OBVIOUS
  <2>3. /\ job[n].pc = "wait" /\ resps[n] > 0 /\ Continue(n, q, left)
        /\ resps' = [resps EXCEPT ![n] = resps[n] - 1]
        /\ UNCHANGED <<store, plug, puts, faults>>
    BY <1>7, <2>1, <2>2 DEF Answered, counters
  <2>4. Calm /\ NodeCalm(n) /\ resps[n] \in Nat
    BY <1>a, <1>c, <2>3 DEF Calm, TypeOK
  <2>5. /\ resps[n] = 1 /\ RoundCalm(n, queue[n], job[n].left)
        /\ Copied(store, n, Len(Targets[n]) - Len(job[n].left) + 1, queue[n][1].key, queue[n][1].val)
    <3>1. JobCalm(n)
      BY <2>4 DEF NodeCalm
    <3> QED
      <4>1. resps[n] # 0
        BY <2>3, <2>4
      <4> QED
        BY <2>3, <3>1, <4>1, Zenon DEF JobCalm
  <2>6. \A m \in reqs : m.from # n
    BY <2>4, <2>5 DEF Calm, RequestCalm
  <2>7. /\ Bounded(queue[n]) /\ queue[n] # <<>> /\ job[n].left # <<>> /\ job[n].left \in Seq(Nodes)
    BY <1>a, <2>3 DEF TypeOK, Bounded, Job
  <2>8. InLoop(q)
    BY <2>2, <2>7, CountLemma
  <2>9. /\ left \in Seq(Nodes) /\ Len(left) = Len(job[n].left) - 1
        /\ \A i \in 1 .. Len(left) : left[i] = job[n].left[i + 1]
    BY <2>1, <2>7
  <2>10. /\ Len(queue[n]) \in Nat /\ Len(Targets[n]) \in Nat /\ Len(job[n].left) \in Nat
         /\ Len(job[n].left) >= 1 /\ 1 \in 1 .. Len(queue[n])
         /\ \A i \in 1 .. Len(queue[n]) : queue[n][i] \in Item
    BY <1>a, <2>7, SequencesLemma
  <2>11. /\ Len(q) = Len(queue[n]) /\ q # <<>>
         /\ \A i \in 1 .. Len(q) : q[i].key = queue[n][i].key /\ q[i].val = queue[n][i].val
         /\ q[1].attempted = queue[n][1].attempted + 1 /\ queue[n][1].attempted \in Nat
         /\ \A i \in 2 .. Len(q) : q[i] = queue[n][i]
    <3>1. queue[n] \in Seq(Item)
      BY <2>7 DEF Bounded
    <3> DEFINE item == [key |-> queue[n][1].key, val |-> queue[n][1].val,
                        attempted |-> queue[n][1].attempted + 1]
    <3>2. q = [queue[n] EXCEPT ![1] = item]
      BY <2>2 DEF markAttempted
    <3>3. queue[n] \in [1 .. Len(queue[n]) -> Item] /\ item \in Item
      BY <2>10, <3>1 DEF Item
    <3>4. item.key = queue[n][1].key /\ item.val = queue[n][1].val
          /\ item.attempted = queue[n][1].attempted + 1 /\ queue[n][1].attempted \in Nat
      BY <2>10 DEF Item
    <3> HIDE DEF item
    <3>5. q \in [1 .. Len(queue[n]) -> Item] /\ q[1] = item
          /\ \A i \in 2 .. Len(queue[n]) : q[i] = queue[n][i]
      BY <2>10, <3>2, <3>3
    <3>6. Len(q) = Len(queue[n])
      BY <2>10, <3>5
    <3>7. \A i \in 1 .. Len(q) : i = 1 \/ i \in 2 .. Len(q)
      BY <2>10, <3>6
    <3> QED
      BY <2>8, <3>4, <3>5, <3>6, <3>7 DEF InLoop
  <2>12. QueueCalm(n, q)
    <3>1. QueueCalm(n, queue[n]) /\ \A i \in 1 .. Len(q) : i > 1 => i \in 2 .. Len(q)
      BY <2>4, <2>10, <2>11 DEF NodeCalm
    <3> QED
      BY <2>11, <3>1 DEF QueueCalm
  <2>17. PlugCalm(n, q)
    BY <2>4, <2>11 DEF NodeCalm, PlugCalm
  <2>13. StoreCalm(n, q)
    BY <2>4, <2>11 DEF NodeCalm, StoreCalm
  <2>14. RoundCalm(n, q, left)
    <3>1. /\ Len(job[n].left) <= Len(Targets[n])
          /\ \A i \in 1 .. Len(job[n].left) :
               job[n].left[i] = Targets[n][Len(Targets[n]) - Len(job[n].left) + i]
          /\ \/ queue[n][1].attempted = Len(Targets[n]) - Len(job[n].left)
             \/ queue[n][1].attempted >= Len(Targets[n])
      BY <2>5, <2>7 DEF RoundCalm
    <3>2. ASSUME NEW i \in 1 .. Len(left)
          PROVE  left[i] = Targets[n][Len(Targets[n]) - Len(left) + i]
      <4>1. i + 1 \in 1 .. Len(job[n].left)
        BY <2>9, <2>10
      <4>2. Len(Targets[n]) - Len(left) + i = Len(Targets[n]) - Len(job[n].left) + (i + 1)
        <5> DEFINE x == Len(Targets[n])
                   y == Len(job[n].left)
                   z == Len(left)
        <5>1. x \in Nat /\ y \in Nat /\ z = y - 1 /\ i \in Nat
          BY <2>9, <2>10
        <5> HIDE DEF x, y, z
        <5>2. x - z + i = x - y + (i + 1)
          BY <5>1
        <5> QED
          BY <5>2 DEF x, y, z
      <4> QED
        BY <2>9, <3>1, <4>1, <4>2
    <3>3. /\ Len(left) <= Len(Targets[n])
          /\ queue[n][1].attempted = Len(Targets[n]) - Len(job[n].left)
               => q[1].attempted = Len(Targets[n]) - Len(left)
      <4> DEFINE x == Len(Targets[n])
                 y == Len(job[n].left)
                 z == Len(left)
                 a == queue[n][1].attempted
                 b == q[1].attempted
      <4>1. x \in Nat /\ y \in Nat /\ y <= x /\ z = y - 1 /\ a \in Nat /\ b = a + 1
        BY <2>9, <2>10, <2>11, <3>1
      <4> HIDE DEF x, y, z, a, b
      <4>2. z <= x /\ (a = x - y => b = x - z)
        BY <4>1
      <4> QED
        BY <4>2 DEF x, y, z, a, b
    <3>4. queue[n][1].attempted >= Len(Targets[n]) => q[1].attempted >= Len(Targets[n])
      BY <2>10, <2>11
    <3> QED
      BY <3>1, <3>2, <3>3, <3>4 DEF RoundCalm
  <2>15. HeadCalm(n, q)
    <3> SUFFICES ASSUME NEW i \in 1 .. Len(Targets[n]), i <= queue[n][1].attempted + 1
                 PROVE  Copied(store, n, i, queue[n][1].key, queue[n][1].val)
      BY <2>10, <2>11 DEF HeadCalm
    <3>1. CASE i <= queue[n][1].attempted
      BY <2>4, <2>7, <3>1 DEF NodeCalm, HeadCalm
    <3>2. CASE i = queue[n][1].attempted + 1
      <4>1. queue[n][1].attempted = Len(Targets[n]) - Len(job[n].left)
        <5>1. \/ queue[n][1].attempted = Len(Targets[n]) - Len(job[n].left)
              \/ queue[n][1].attempted >= Len(Targets[n])
          BY <2>5, <2>7 DEF RoundCalm
        <5>2. ~(queue[n][1].attempted >= Len(Targets[n]))
          BY <2>10, <2>11, <3>2
        <5> QED
          BY <5>1, <5>2
      <4> QED
        BY <2>5, <3>2, <4>1
    <3> QED
      BY <2>10, <2>11, <3>1, <3>2
  <2>16. resps'[n] = 0 /\ \A m \in Nodes \ {n} : resps'[m] = resps[m]
    BY <1>a, <2>3, <2>5 DEF TypeOK
  <2> QED
    BY <1>a, <2>3, <2>4, <2>6, <2>8, <2>9, <2>12, <2>13, <2>14, <2>15, <2>16, <2>17, ContinueCalm
<1>8. ASSUME NEW n \in Nodes, TimedOut(n)
      PROVE  Calm'
  <2>1. /\ job[n].pc = "wait"
        /\ ~(resps[n] > 0) /\ ~\E m \in reqs : m.from = n
    BY <1>8, <1>b DEF TimedOut
  <2>2. JobCalm(n)
    BY <1>c, <2>1 DEF Calm, NodeCalm
  <2>3. resps[n] = 1
    BY <2>1, <2>2 DEF JobCalm
  <2> QED
    BY <2>1, <2>3
<1>9. ASSUME NEW n \in Nodes, AnswerIgnored(n)
      PROVE  Calm'
  <2>1. job[n].pc # "wait" /\ resps[n] > 0
    BY <1>9, <1>b DEF AnswerIgnored
  <2>2. JobCalm(n)
    BY <1>c, <2>1 DEF Calm, NodeCalm
  <2>3. resps[n] = 0
    BY <2>1, <2>2 DEF JobCalm
  <2> QED
    BY <2>1, <2>3
<1>10. ASSUME NEW n \in Nodes, SaveStep(n)
       PROVE  Calm'
  <2>1. /\ UNCHANGED <<queue, plug, reqs, resps, puts, faults>>
        /\ \A m \in Nodes : store'[m].map = store[m].map
        /\ \A m \in Nodes \ {n} : job'[m] = job[m]
        /\ job[n].pc \in {"idle", "save", "write"}
        /\ job'[n].pc \in {"idle", "save", "write"}
    <3>1. CASE SaveBegin(n)
      BY <1>a, <3>1 DEF SaveBegin, plugVars, netVars, counters, TypeOK, Store, Job
    <3>2. CASE SaveCollect(n) \/ SaveRename(n) \/ SaveFails(n)
      BY <1>a, <3>2 DEF SaveCollect, SaveRename, SaveFails, plugVars, netVars, counters, TypeOK, Idle
    <3> QED
      BY <1>10, <3>1, <3>2 DEF SaveStep
  <2>2. job[n].pc # "wait" /\ job'[n].pc \notin {"wait", "down"}
    BY <2>1
  <2> QED
    BY <1>a, <1>c, <2>1, <2>2, SaveCalm
<1>11. ASSUME NEW n \in Nodes, Crash(n) \/ Stop(n)
       PROVE  Calm'
  BY <1>11, <1>b DEF Crash, Stop, Leave
<1>12. ASSUME NEW n \in Nodes, Restart(n)
       PROVE  Calm'
  <2>1. ~Up(n)
    BY <1>12 DEF Restart
  <2> QED
    BY <1>c, <2>1 DEF Calm, NodeCalm, JobCalm
<1>13. ASSUME NEW n \in Nodes, PluginStep(n)
       PROVE  Calm'
  BY <1>13, <1>a, <1>b, <1>c, PluginCalm
<1> QED
  <2>1. CASE NetworkStep
    BY <1>4, <1>5, <2>1 DEF NetworkStep
  <2>2. ASSUME NEW n \in Nodes, ClientStep(n) PROVE Calm'
    BY <1>2, <1>3, <2>2 DEF ClientStep
  <2>3. ASSUME NEW n \in Nodes, RoundStep(n) PROVE Calm'
    BY <1>6, <1>7, <1>8, <2>3 DEF RoundStep
  <2> QED
    BY <1>1, <1>9, <1>10, <1>11, <1>12, <1>13, <2>1, <2>2, <2>3 DEF Next

LEMMA CalmInitial == Init => CalmInv
<1> SUFFICES ASSUME Init PROVE Calm
  BY DEF CalmInv, Calm
<1>1. ASSUME NEW n \in Nodes PROVE NodeCalm(n)
  <2>1. queue[n] = <<>> /\ store[n].map = Empty /\ resps[n] = 0 /\ job[n].pc = "idle"
    BY <1>1, InitStoreLemma DEF Init, Idle
  <2>2. Len(Targets[n]) \in Nat /\ Len(queue[n]) = 0
    BY <2>1, ReplicationAssumption
  <2>3. QueueCalm(n, queue[n])
    BY <2>2 DEF QueueCalm
  <2>4. StoreCalm(n, queue[n])
    BY <2>1 DEF StoreCalm, Empty
  <2>5. HeadCalm(n, queue[n]) /\ RoundCalm(n, queue[n], Targets[n])
    BY <2>1, <2>2 DEF HeadCalm, RoundCalm
  <2>6. PlugCalm(n, queue[n])
    BY <1>1 DEF PlugCalm, Init, NoPut
  <2> QED
    BY <2>1, <2>3, <2>4, <2>5, <2>6 DEF NodeCalm, JobCalm, Up
<1> QED
  BY <1>1 DEF Init, Calm

-----------------------------------------------------------------------------

LEMMA Invariance == Spec => []IInv
BY Initial, Inductive, PTL DEF Spec

\* The type invariant: among others, no item is ever counted beyond
\* REPLICA_COUNT, and a node that waits has an item and a target.
THEOREM TypeCorrect == Spec => []TypeOK
<1>1. IInv => TypeOK
  BY DEF IInv
<1> QED
  BY <1>1, Invariance, PTL

\* put, in one go or step by step on a plugin's thread, replicas, load and restarts
\* never give two entries of a node the same version, nor hand out a version that an
\* entry has, until two threads are at the store at once.
THEOREM DistinctVersions == Spec => []VersionsDistinct
<1>1. IInv => VersionsDistinct
  BY DEF IInv, VersionsInv, VersionsDistinct
<1> QED
  BY <1>1, Invariance, PTL

\* save: puts of plugin threads in the middle of a save are not forgotten, once they
\* have set the flag.
THEOREM CleanStoreSaved == Spec => []CleanMeansSaved
<1>1. IInv => CleanMeansSaved
  BY DEF IInv, CleanInv, CleanMeansSaved
<1> QED
  BY <1>1, Invariance, PTL

LEMMA CalmInvariance == Spec => []CalmInv
BY Invariance, CalmInitial, CalmInductive, PTL DEF Spec

\* processReplication: without crashes, late answers, lost messages and want of
\* memory, and until two threads are at a store or a queue at once, as many as
\* REPLICA_COUNT targets all get the latest value of each key of the node before its
\* last item leaves the queue.
THEOREM ReplicasFollow == Spec => []CalmReplicasFollow
<1>1. TypeOK /\ CalmInv => CalmReplicasFollow
  <2> SUFFICES ASSUME CalmInv, TypeOK, Untroubled, NEW k \in Keys, plug[Home[k]].pc = "none",
                      queue[Home[k]] = <<>>, store[Home[k]].map[k] # NoEntry,
                      NEW i \in 1 .. Len(Targets[Home[k]])
               PROVE  /\ store[Targets[Home[k]][i]].map[k] # NoEntry
                      /\ store[Targets[Home[k]][i]].map[k].val = store[Home[k]].map[k].val
    BY DEF CalmReplicasFollow, Untroubled
  <2>1. Home[k] \in Nodes
    BY ReplicationAssumption
  <2>2. StoreCalm(Home[k], queue[Home[k]]) /\ Len(queue[Home[k]]) = 0
    BY <2>1 DEF CalmInv, NodeCalm
  <2>3. Copied(store, Home[k], i, k, store[Home[k]].map[k].val)
    BY <2>2 DEF StoreCalm
  <2> QED
    BY <2>3 DEF Copied
<1> QED
  BY <1>1, TypeCorrect, CalmInvariance, PTL
=============================================================================
