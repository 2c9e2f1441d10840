-------------------------- MODULE CocotbStepProofs --------------------------
(***************************************************************************)
(* Proofs about CocotbStep for every design and block language, every      *)
(* testbench (what its callbacks deposit and register) and every bound.    *)
(***************************************************************************)
EXTENDS CocotbStep, LoopProofs

-----------------------------------------------------------------------------
\* The head of the queue.

\* Entries have times and phases, and no two the same callback.
QueueOK(Q) ==
  /\ Q \subseteq [time : Nat, phase : {Normal, ReadWrite, ReadOnly}, id : Nat]
  /\ \A e, f \in Q : e.id = f.id => e = f

\* The heap's order is total on such entries, so a queue that is not empty has
\* a head, and the head precedes the rest.
LEMMA HeadOfQueue ==
  ASSUME QueueOK(queue), queue # {}
  PROVE  Earliest \in queue /\ \A f \in queue \ {Earliest} : Precedes(Earliest, f)
<1> DEFINE T == { e.time : e \in queue }
<1>1. PICK t \in T : \A u \in T : t <= u
  <2>1. T \in SUBSET Nat /\ T # {}
    BY DEF QueueOK
  <2> QED
    BY <2>1, LeastNatural
<1> DEFINE Q1 == { e \in queue : e.time = t }
           P == { e.phase : e \in Q1 }
<1>2. PICK p \in P : \A q \in P : p <= q
  <2>1. P \in SUBSET Nat /\ P # {}
    BY <1>1 DEF QueueOK, Normal, ReadWrite, ReadOnly
  <2> QED
    BY <2>1, LeastNatural
<1> DEFINE Q2 == { e \in Q1 : e.phase = p }
           I == { e.id : e \in Q2 }
<1>3. PICK n \in I : \A m \in I : n <= m
  <2>1. I \in SUBSET Nat /\ I # {}
    BY <1>2 DEF QueueOK
  <2> QED
    BY <2>1, LeastNatural
<1>4. PICK e \in Q2 : e.id = n
  OBVIOUS
<1>5. ASSUME NEW f \in queue, f # e
      PROVE  Precedes(e, f)
  <2>1. e.time \in Nat /\ f.time \in Nat /\ e.id \in Nat /\ f.id \in Nat /\ e.id # f.id
    BY <1>5 DEF QueueOK
  <2>2. e.phase \in 0 .. 2 /\ f.phase \in 0 .. 2
    BY <1>5 DEF QueueOK, Normal, ReadWrite, ReadOnly
  <2>3. e.time = t /\ e.phase = p /\ e.id = n /\ t <= f.time
    BY <1>1, <1>4
  <2>4. f.time = t => p <= f.phase
    BY <1>2
  <2>5. f.time = t /\ f.phase = p => n <= f.id
    BY <1>3
  <2> QED
    BY <2>1, <2>2, <2>3, <2>4, <2>5 DEF Precedes
<1>6. \E x \in queue : \A f \in queue \ {x} : Precedes(x, f)
  BY <1>5
<1> QED
  BY <1>6 DEF Earliest

\* The watchers to be called have an order too.
LEMMA FirstToFire ==
  ASSUME toFire \subseteq [rank : Nat, id : Nat], \A f, g \in toFire : f.id = g.id => f = g,
         toFire # {}
  PROVE  Foremost \in toFire
<1> DEFINE R == { f.rank : f \in toFire }
<1>1. PICK r \in R : \A u \in R : r <= u
  <2>1. R \in SUBSET Nat /\ R # {}
    OBVIOUS
  <2> QED
    BY <2>1, LeastNatural
<1> DEFINE F1 == { f \in toFire : f.rank = r }
           I == { f.id : f \in F1 }
<1>2. PICK n \in I : \A m \in I : n <= m
  <2>1. I \in SUBSET Nat /\ I # {}
    BY <1>1
  <2> QED
    BY <2>1, LeastNatural
<1>3. PICK f \in F1 : f.id = n
  OBVIOUS
<1>4. ASSUME NEW g \in toFire, g # f
      PROVE  f.rank < g.rank \/ (f.rank = g.rank /\ f.id < g.id)
  <2>1. f.rank \in Nat /\ g.rank \in Nat /\ f.id \in Nat /\ g.id \in Nat /\ f.id # g.id
    BY <1>4
  <2>2. f.rank <= g.rank /\ (f.rank = g.rank => f.id <= g.id)
    BY <1>1, <1>2, <1>3
  <2> QED
    BY <2>1, <2>2
<1>5. \E x \in toFire : \A g \in toFire \ {x} : x.rank < g.rank \/ (x.rank = g.rank /\ x.id < g.id)
  BY <1>4
<1> QED
  BY <1>5 DEF Foremost

-----------------------------------------------------------------------------
\* Where a callback is.

QueueEntry(n) == [time : Nat, phase : {Normal, ReadWrite, ReadOnly}, id : 1 .. n - 1]
WatchEntry(n) == [sig : Signal, edge : {"any", "rising", "falling"}, id : 1 .. n - 1]
FireEntry(n) == [rank : 1 .. n - 1, id : 1 .. n - 1]

\* The heap Q, the watchers W with the order K of their signals, the active
\* callbacks A, the collected F, the called C and the deregistered G, when n is
\* the next id: every id is an old one, none is in two places, a watcher is
\* active, a callback that is called or collected is not.
Apart(Q, W, K, A, F, C, G, n) ==
  /\ n \in Nat \ {0}
  /\ Q \subseteq QueueEntry(n) /\ W \subseteq WatchEntry(n) /\ F \subseteq FireEntry(n)
  /\ K \in [SignalsOf(W) -> 1 .. n - 1]
  /\ A \subseteq 1 .. n - 1 /\ C \subseteq 1 .. n - 1 /\ G \subseteq 1 .. n - 1
  /\ \A e, f \in Q : e.id = f.id => e = f
  /\ \A w, x \in W : w.id = x.id => w = x
  /\ \A f, g \in F : f.id = g.id => f = g
  /\ \A e \in Q : e.id \notin C /\ \A w \in W : e.id # w.id
  /\ \A w \in W : w.id \in A
  /\ \A f \in F : f.id \notin A \cup C \cup G /\ \A e \in Q : f.id # e.id
  /\ A \cap C = {} /\ G \cap (C \cup A) = {}

Bookkeeping == Apart(queue, vch, keys, active, toFire, called, gone, nextId)

\* What a callback registers is nothing or one of the registrations.
Registered(reg) == reg = Nothing \/ reg \in Registrations

\* What registering a callback puts into the queue: at most one entry, not of the past.
LEMMA EntryFacts ==
  ASSUME NEW reg, Registered(reg), NEW n \in Nat \ {0}, time \in Nat
  PROVE  /\ Entry(reg, n) \subseteq QueueEntry(n + 1)
         /\ Watcher(reg, n) \subseteq WatchEntry(n + 1)
         /\ \A e \in Entry(reg, n) : e.id = n /\ e.time >= time
         /\ \A e \in Entry(reg, n) : e.time = time =>
              (e.phase = ReadWrite /\ reg.kind = "rw") \/ (e.phase = ReadOnly /\ reg.kind = "ro")
         /\ \A e, f \in Entry(reg, n) : e = f
         /\ \A w \in Watcher(reg, n) : w.id = n
         /\ \A w, x \in Watcher(reg, n) : w = x
         /\ Entry(reg, n) = {} \/ Watcher(reg, n) = {}
         /\ reg = Nothing => Entry(reg, n) = {} /\ Watcher(reg, n) = {}
<1> USE TestbenchAssumption DEF Entry, Watcher, QueueEntry, WatchEntry, Normal, ReadWrite, ReadOnly
<1>1. CASE reg = Nothing
  BY <1>1 DEF Nothing
<1>2. CASE reg \in Registrations
  <2>1. /\ reg.kind \in {"timed", "next", "rw", "ro", "watch"}
        /\ reg.delay \in Nat \ {0} /\ reg.sig \in Signal /\ reg.edge \in {"any", "rising", "falling"}
        /\ reg # Nothing
    BY <1>2 DEF Nothing
  <2>2. CASE reg.kind = "timed"
    BY <2>1, <2>2
  <2>3. CASE reg.kind = "next"
    BY <2>1, <2>3
  <2>4. CASE reg.kind = "rw"
    BY <2>1, <2>4
  <2>5. CASE reg.kind = "ro"
    BY <2>1, <2>5
  <2>6. CASE reg.kind = "watch"
    BY <2>1, <2>6
  <2> QED
    BY <2>1, <2>2, <2>3, <2>4, <2>5, <2>6
<1> QED
  BY <1>1, <1>2 DEF Registered

\* Old entries are entries under a later id.
LEMMA LaterId ==
  ASSUME NEW n \in Nat \ {0}, NEW m \in Nat \ {0}, n <= m
  PROVE  /\ QueueEntry(n) \subseteq QueueEntry(m)
         /\ WatchEntry(n) \subseteq WatchEntry(m)
         /\ FireEntry(n) \subseteq FireEntry(m)
         /\ 1 .. n - 1 \subseteq 1 .. m - 1
<1>1. 1 .. n - 1 \subseteq 1 .. m - 1
  OBVIOUS
<1> QED
  BY <1>1 DEF QueueEntry, WatchEntry, FireEntry

\* A callback that is called deregisters and registers: the heap and the
\* active callbacks its call begins with are heap and ids.
LEMMA ActKeeps ==
  ASSUME NEW dep, NEW reg, NEW victims, NEW heap, NEW ids,
         Registered(reg), time \in Nat,
         Apart(heap, vch, keys, ids, toFire', called', gone, nextId),
         Act(dep, reg, victims, heap, ids), victims \subseteq ids \cup Collected'
  PROVE  Bookkeeping'
<1> DEFINE n    == nextId
           m    == nextId'
           new  == IF reg = Nothing THEN {} ELSE {n}
           left == { w \in vch : w.id \notin victims }
<1>1. /\ queue' = heap \cup Entry(reg, n)
      /\ vch' = left \cup Watcher(reg, n)
      /\ keys' = NewKeys(WithKeys(keys, left), Watcher(reg, n), n)
      /\ active' = (ids \ victims) \cup new
      /\ m = IF reg = Nothing THEN n ELSE n + 1
      /\ gone' = gone \cup (victims \ Collected')
  BY DEF Act
<1>2. n \in Nat \ {0} /\ m \in Nat \ {0} /\ n <= m
  BY <1>1 DEF Apart
<1>3. /\ heap \subseteq QueueEntry(m) /\ left \subseteq WatchEntry(m) /\ toFire' \subseteq FireEntry(m)
      /\ 1 .. n - 1 \subseteq 1 .. m - 1
  BY <1>2, LaterId DEF Apart
<1>4. /\ Entry(reg, n) \subseteq QueueEntry(m)
      /\ Watcher(reg, n) \subseteq WatchEntry(m)
      /\ new \subseteq 1 .. m - 1
  BY <1>1, <1>2, EntryFacts
<1>5. /\ \A e \in Entry(reg, n) : e.id = n
      /\ \A e, f \in Entry(reg, n) : e = f
      /\ \A w \in Watcher(reg, n) : w.id = n
      /\ \A w, x \in Watcher(reg, n) : w = x
      /\ Entry(reg, n) = {} \/ Watcher(reg, n) = {}
      /\ reg = Nothing => Watcher(reg, n) = {}
  BY <1>2, EntryFacts
<1>6. /\ \A e \in heap : e.id \in 1 .. n - 1
      /\ \A w \in vch : w.id \in 1 .. n - 1
      /\ \A f \in toFire' : f.id \in 1 .. n - 1
      /\ n \notin 1 .. n - 1
  BY <1>2 DEF Apart, QueueEntry, WatchEntry, FireEntry
<1>7. keys' \in [SignalsOf(vch') -> 1 .. m - 1]
  <2>1. keys \in [SignalsOf(vch) -> 1 .. n - 1]
    BY DEF Apart
  <2>2. SignalsOf(left) \subseteq SignalsOf(vch)
    BY DEF SignalsOf
  <2>3. WithKeys(keys, left) \in [SignalsOf(left) -> 1 .. n - 1]
    BY <2>1, <2>2 DEF WithKeys
  <2>4. SignalsOf(vch') = SignalsOf(left) \cup SignalsOf(Watcher(reg, n))
    BY <1>1 DEF SignalsOf
  <2>5. SignalsOf(Watcher(reg, n)) # {} => n \in 1 .. m - 1
    BY <1>1, <1>2, <1>5 DEF SignalsOf
  <2> QED
    BY <1>1, <1>3, <2>3, <2>4, <2>5 DEF NewKeys
<1>8. \A v \in victims : v \in ids \/ v \in Collected'
  OBVIOUS
<1>9. \A f \in toFire' : f.id \in Collected'
  BY DEF Collected
<1>10. \A v \in Collected' : \E f \in toFire' : v = f.id
  BY DEF Collected
<1>11. gone' \subseteq gone \cup ids /\ gone' \subseteq 1 .. n - 1
  BY <1>1, <1>8 DEF Apart
<1>12. /\ queue' \subseteq QueueEntry(m) /\ vch' \subseteq WatchEntry(m) /\ toFire' \subseteq FireEntry(m)
       /\ active' \subseteq 1 .. m - 1 /\ called' \subseteq 1 .. m - 1 /\ gone' \subseteq 1 .. m - 1
  BY <1>1, <1>3, <1>4, <1>11 DEF Apart
<1>13. /\ \A e, f \in queue' : e.id = f.id => e = f
       /\ \A w, x \in vch' : w.id = x.id => w = x
       /\ \A f, g \in toFire' : f.id = g.id => f = g
  BY <1>1, <1>5, <1>6 DEF Apart
<1>14. \A e \in queue' : e.id \notin called' /\ \A w \in vch' : e.id # w.id
  BY <1>1, <1>5, <1>6 DEF Apart
<1>15. \A w \in vch' : w.id \in active'
  BY <1>1, <1>5 DEF Apart
<1>16. \A f \in toFire' : f.id \notin active' \cup called' \cup gone' /\ \A e \in queue' : f.id # e.id
  BY <1>1, <1>5, <1>6, <1>9 DEF Apart
<1>17. active' \cap called' = {} /\ gone' \cap (called' \cup active') = {}
  <2>1. active' \cap called' = {}
    BY <1>1, <1>6 DEF Apart
  <2>2. gone' \cap called' = {}
    BY <1>11 DEF Apart
  <2>3. gone' \cap active' = {}
    BY <1>1, <1>6, <1>11, <1>8, <1>10 DEF Apart
  <2> QED
    BY <2>1, <2>2, <2>3
<1> QED
  BY <1>2, <1>7, <1>12, <1>13, <1>14, <1>15, <1>16, <1>17 DEF Bookkeeping, Apart

\* The watchers that fire leave the dictionary and the active callbacks.
LEMMA CollectKeeps ==
  ASSUME NEW old, NEW new, Bookkeeping, Collect(old, new)
  PROVE  Bookkeeping'
<1> DEFINE firing == Firing(old, new)
           n == nextId
<1> USE DEF Bookkeeping
<1>1. /\ toFire' = { [rank |-> keys[w.sig], id |-> w.id] : w \in firing }
      /\ vch' = vch \ firing
      /\ keys' = WithKeys(keys, vch')
      /\ active' = active \ { w.id : w \in firing }
      /\ UNCHANGED <<queue, nextId, called, gone>>
  BY DEF Collect, Unfired
<1>2. firing \subseteq vch
  BY DEF Firing
<1>3. /\ vch \subseteq WatchEntry(n) /\ keys \in [SignalsOf(vch) -> 1 .. n - 1]
      /\ \A w \in vch : w.id \in active /\ w.id \in 1 .. n - 1 /\ keys[w.sig] \in 1 .. n - 1
  BY DEF Apart, WatchEntry, SignalsOf
<1>4. toFire' \subseteq FireEntry(n)
  BY <1>1, <1>2, <1>3 DEF FireEntry
<1>5. \A f \in toFire' : \E w \in firing : f.id = w.id /\ f.rank = keys[w.sig]
  BY <1>1
<1>6. keys' \in [SignalsOf(vch') -> 1 .. n - 1]
  BY <1>1, <1>3 DEF WithKeys, SignalsOf
<1>7. \A f, g \in toFire' : f.id = g.id => f = g
  <2> SUFFICES ASSUME NEW f \in toFire', NEW g \in toFire', f.id = g.id PROVE f = g
    OBVIOUS
  <2>1. PICK w \in firing : f = [rank |-> keys[w.sig], id |-> w.id]
    BY <1>1
  <2>2. PICK x \in firing : g = [rank |-> keys[x.sig], id |-> x.id]
    BY <1>1
  <2>3. w = x
    BY <1>2, <2>1, <2>2 DEF Apart
  <2> QED
    BY <2>1, <2>2, <2>3
<1>8. \A w \in vch' : w.id \in active'
  BY <1>1, <1>2, <1>3 DEF Apart
<1>9. \A f \in toFire' : f.id \notin active' \cup called' \cup gone' /\ \A e \in queue' : f.id # e.id
  <2> SUFFICES ASSUME NEW f \in toFire'
               PROVE  f.id \notin active' \cup called' \cup gone' /\ \A e \in queue' : f.id # e.id
    OBVIOUS
  <2>1. PICK w \in firing : f.id = w.id
    BY <1>5
  <2>2. w \in vch /\ w.id \in active
    BY <1>2, <1>3
  <2> QED
    BY <1>1, <2>1, <2>2 DEF Apart
<1> HIDE DEF firing
<1> QED
  BY <1>1, <1>3, <1>4, <1>6, <1>7, <1>8, <1>9 DEF Apart

-----------------------------------------------------------------------------
\* One callback in one place, through every step.

\* No callback is registered when the engine is made.
LEMMA BookkeepingInit == Init => Bookkeeping
BY DEF Init, Bookkeeping, Apart, SignalsOf, NoUpdate

\* A callback of the testbench acts, or the entry at the head is stale.
LEMMA FireQueuedKeeps == Bookkeeping /\ time \in Nat /\ FireQueued => Bookkeeping'
<1> SUFFICES ASSUME Bookkeeping, time \in Nat, FireQueued PROVE Bookkeeping'
  OBVIOUS
<1>1. Earliest \in queue
  BY HeadOfQueue DEF FireQueued, HasPhase, Bookkeeping, Apart, QueueEntry, QueueOK
<1> DEFINE heap == queue \ {Earliest}
           ids  == active \ {Earliest.id}
<1>2. toFire' = toFire
  BY DEF FireQueued
<1>3. CASE IsActive(Earliest.id)
  <2>1. called' = called \cup {Earliest.id} /\ React(heap, ids)
    BY <1>3 DEF FireQueued
  <2>2. Apart(heap, vch, keys, ids, toFire, called \cup {Earliest.id}, gone, nextId)
    <3> DEFINE i == Earliest.id
    <3>1. i \in 1 .. nextId - 1 /\ i \in active
      BY <1>1, <1>3 DEF IsActive, Bookkeeping, Apart
    <3>2. /\ \A e \in heap : e.id # i /\ e \in queue
          /\ \A w \in vch : w.id # i
          /\ \A f \in toFire : f.id # i
          /\ i \notin gone
      BY <1>1, <3>1 DEF Bookkeeping, Apart
    <3>3. heap \subseteq queue
      OBVIOUS
    <3> HIDE DEF i, heap
    <3>4. Apart(heap, vch, keys, active \ {i}, toFire, called \cup {i}, gone, nextId)
      BY <3>1, <3>2, <3>3 DEF Bookkeeping, Apart
    <3> QED
      BY <3>4 DEF i, heap
  <2>3. Apart(heap, vch, keys, ids, toFire', called', gone, nextId)
    BY <1>2, <2>1, <2>2
  <2>4. PICK dep, reg, victims :
          Registered(reg) /\ victims \subseteq ids \cup Collected' /\ Act(dep, reg, victims, heap, ids)
    BY <2>1 DEF React, Registered
  <2> QED
    BY <2>3, <2>4, ActKeeps
<1>4. CASE ~IsActive(Earliest.id)
  <2>1. queue' = heap /\ UNCHANGED <<vch, keys, active, nextId, called, gone>>
    BY <1>4 DEF FireQueued
  <2> QED
    BY <1>2, <2>1 DEF Bookkeeping, Apart
<1> QED
  BY <1>3, <1>4

\* The call of a collected watcher keeps every callback in one place.
LEMMA FireWatcherKeeps == Bookkeeping /\ time \in Nat /\ FireWatcher => Bookkeeping'
<1> SUFFICES ASSUME Bookkeeping, time \in Nat, FireWatcher PROVE Bookkeeping'
  OBVIOUS
<1>1. Foremost \in toFire
  BY FirstToFire DEF FireWatcher, Bookkeeping, Apart, FireEntry
<1>2. toFire' = toFire \ {Foremost} /\ called' = called \cup {Foremost.id} /\ React(queue, active)
  BY DEF FireWatcher
<1>3. Foremost.id \in 1 .. nextId - 1
  BY <1>1 DEF Bookkeeping, Apart, FireEntry
<1>4. Apart(queue, vch, keys, active, toFire \ {Foremost}, called \cup {Foremost.id}, gone, nextId)
  <2> DEFINE i == Foremost.id
             F == toFire \ {Foremost}
  <2>1. /\ \A f \in F : f.id # i /\ f \in toFire
        /\ \A w \in vch : w.id # i
        /\ \A e \in queue : e.id # i
        /\ i \notin gone /\ i \notin active
    BY <1>1 DEF Bookkeeping, Apart
  <2>2. i \in 1 .. nextId - 1
    BY <1>3
  <2> HIDE DEF i, F
  <2>3. Apart(queue, vch, keys, active, F, called \cup {i}, gone, nextId)
    BY <2>1, <2>2 DEF Bookkeeping, Apart
  <2> QED
    BY <2>3 DEF i, F
<1>5. PICK dep, reg, victims :
        Registered(reg) /\ victims \subseteq active \cup Collected' /\ Act(dep, reg, victims, queue, active)
  BY <1>2 DEF React, Registered
<1> QED
  BY <1>2, <1>4, <1>5, ActKeeps

\* So does what the first test registers before the run.
LEMMA TestStartsKeeps == Bookkeeping /\ time \in Nat /\ TestStarts => Bookkeeping'
<1> SUFFICES ASSUME Bookkeeping, time \in Nat, TestStarts PROVE Bookkeeping'
  OBVIOUS
<1>1. toFire' = {} /\ called' = called
  BY DEF TestStarts, callbacks
<1>2. PICK dep, reg : Registered(reg) /\ Act(dep, reg, {}, queue, active)
  BY DEF TestStarts, Registered
<1>3. Apart(queue, vch, keys, active, toFire', called', gone, nextId)
  BY <1>1 DEF Bookkeeping, Apart
<1> QED
  BY <1>2, <1>3, ActKeeps

\* So does the settle that collects the watchers.
LEMMA SettleKeeps ==
  ASSUME NEW r, Bookkeeping, SettledTo(r)
  PROVE  Bookkeeping'
<1>1. CASE r.exit = "ok"
  BY <1>1, CollectKeeps DEF SettledTo
<1>2. CASE r.exit # "ok"
  BY <1>2 DEF SettledTo, callbacks, Bookkeeping
<1> QED
  BY <1>1, <1>2

\* So do the later ones, after updates and in delta cycles.
LEMMA ResettleKeeps ==
  ASSUME NEW old, NEW r, Bookkeeping, Resettled(old, r)
  PROVE  Bookkeeping'
<1>1. CASE r.exit = "ok"
  BY <1>1, CollectKeeps DEF Resettled
<1>2. CASE r.exit # "ok"
  BY <1>2 DEF Resettled, callbacks, Bookkeeping
<1> QED
  BY <1>1, <1>2

\* The steps that leave the callbacks alone.
LEMMA QuietKeeps ==
  ASSUME Bookkeeping, UNCHANGED <<callbacks, toFire>>
  PROVE  Bookkeeping'
BY DEF callbacks, Bookkeeping

-----------------------------------------------------------------------------
\* What waits in the queue, part by part of the step.

\* Nothing waits for a time gone by; once a phase of a time is over nothing
\* waits for it, unless the delta limit was reached.
Timely ==
  /\ time \in Nat
  /\ pc = "start" => steps = 0
  /\ \A e \in queue : e.time >= time
  /\ pc \in {"rw", "watch", "delta", "readonly"} =>
       \A e \in queue : e.time = time => e.phase # Normal
  /\ pc = "readonly" /\ deltas < DeltaLimit =>
       \A e \in queue : e.time = time => e.phase # ReadWrite
  /\ NothingLeftBehind

\* If no entry of an earlier phase waits and none of this one is at the head,
\* none of this one waits.
LEMMA PhaseOver ==
  ASSUME Bookkeeping, Timely, NEW phase \in {Normal, ReadWrite, ReadOnly}, ~HasPhase(phase),
         \A e \in queue : e.time = time => e.phase >= phase
  PROVE  \A e \in queue : e.time = time => e.phase > phase
<1> SUFFICES ASSUME NEW e \in queue, e.time = time, e.phase = phase PROVE FALSE
  BY DEF Bookkeeping, Apart, QueueEntry, Normal, ReadWrite, ReadOnly
<1>1. Earliest \in queue /\ \A f \in queue \ {Earliest} : Precedes(Earliest, f)
  BY HeadOfQueue DEF Bookkeeping, Apart, QueueEntry, QueueOK
<1>2. Earliest.time \in Nat /\ Earliest.phase \in 0 .. 2 /\ time \in Nat /\ phase \in 0 .. 2
  BY <1>1 DEF Bookkeeping, Apart, QueueEntry, Timely, Normal, ReadWrite, ReadOnly
<1>3. Earliest.time >= time
  BY <1>1 DEF Timely
<1>4. Earliest = e \/ Precedes(Earliest, e)
  BY <1>1
<1>5. Earliest.time = time /\ Earliest.phase <= phase
  BY <1>2, <1>3, <1>4 DEF Precedes
<1> QED
  BY <1>1, <1>2, <1>5 DEF HasPhase

\* Callbacks wait for their own phase of this time or for a later time.
LEMMA ActTimely ==
  ASSUME Bookkeeping, Timely, NEW dep, NEW reg, NEW victims, NEW heap, NEW ids,
         Registered(reg), pc = "readonly" => reg.kind \notin {"rw", "ro"},
         Act(dep, reg, victims, heap, ids), heap \subseteq queue,
         pc # "idle", UNCHANGED <<pc, time, steps, deltas>>
  PROVE  Timely'
<1> DEFINE new == Entry(reg, nextId)
<1>1. queue' = heap \cup new
  BY DEF Act
<1>2. /\ \A e \in new : e.time >= time
      /\ \A e \in new : e.time = time =>
           (e.phase = ReadWrite /\ reg.kind = "rw") \/ (e.phase = ReadOnly /\ reg.kind = "ro")
  BY EntryFacts DEF Bookkeeping, Apart, Timely
<1> HIDE DEF new
<1>3. \A e \in queue' : e.time >= time
  BY <1>1, <1>2 DEF Timely
<1>4. pc \in {"rw", "watch", "delta", "readonly"} =>
        \A e \in queue' : e.time = time => e.phase # Normal
  BY <1>1, <1>2 DEF Timely, Normal, ReadWrite, ReadOnly
<1>5. pc = "readonly" /\ deltas < DeltaLimit =>
        \A e \in queue' : e.time = time => e.phase # ReadWrite
  BY <1>1, <1>2 DEF Timely, ReadWrite, ReadOnly
<1> QED
  BY <1>3, <1>4, <1>5 DEF Timely, NothingLeftBehind

\* The parts of the step that do not touch the queue.
LEMMA SameQueueTimely ==
  ASSUME Timely, UNCHANGED <<queue, time, steps>>,
         pc' # "idle", pc' = "start" => pc = "start",
         pc' \in {"rw", "watch", "delta", "readonly"} =>
           \A e \in queue : e.time = time => e.phase # Normal,
         pc' = "readonly" /\ deltas' < DeltaLimit =>
           \A e \in queue : e.time = time => e.phase # ReadWrite
  PROVE  Timely'
BY DEF Timely, NothingLeftBehind

\* The queue is empty when the engine is made.
LEMMA TimelyInit == Init => Timely
BY DEF Init, Timely, NothingLeftBehind

\* A callback registers nothing for a phase that is over.
LEMMA TimelyCallbacks ==
  ASSUME Bookkeeping, Timely, TestStarts \/ FireQueued \/ FireWatcher
  PROVE  Timely'
<1>1. UNCHANGED <<pc, time, steps, deltas>>
  BY DEF TestStarts, FireQueued, FireWatcher, clockwork
<1>2. CASE TestStarts
  <2>1. PICK dep, reg : Registered(reg) /\ Act(dep, reg, {}, queue, active)
    BY <1>2 DEF TestStarts, Registered
  <2>2. pc = "start"
    BY <1>2 DEF TestStarts
  <2> QED
    BY <1>1, <2>1, <2>2, ActTimely
<1>3. CASE FireQueued /\ IsActive(Earliest.id)
  <2>1. PICK dep, reg, victims :
          /\ Registered(reg) /\ (pc = "readonly" => reg.kind \notin {"rw", "ro"})
          /\ Act(dep, reg, victims, queue \ {Earliest}, active \ {Earliest.id})
    BY <1>3 DEF FireQueued, React, Registered, MayRegister, Nothing
  <2>2. pc # "idle"
    BY <1>3 DEF FireQueued, InPhase
  <2> QED
    BY <1>1, <2>1, <2>2, ActTimely
<1>4. CASE FireQueued /\ ~IsActive(Earliest.id)
  <2>1. queue' = queue \ {Earliest} /\ pc # "idle"
    BY <1>4 DEF FireQueued, InPhase
  <2> QED
    BY <1>1, <2>1 DEF Timely, NothingLeftBehind
<1>5. CASE FireWatcher
  <2>1. PICK dep, reg, victims : Registered(reg) /\ Act(dep, reg, victims, queue, active)
    BY <1>5 DEF FireWatcher, React, Registered
  <2>2. pc = "watch"
    BY <1>5 DEF FireWatcher
  <2> QED
    BY <1>1, <2>1, <2>2, ActTimely
<1> QED
  BY <1>2, <1>3, <1>4, <1>5

\* A step begins at the time of the head, so nothing is earlier.
LEMMA TimelyBegin ==
  ASSUME Bookkeeping, Timely, BeginStep
  PROVE  Timely'
<1>1. queue' = queue /\ pc' = "normal"
  BY DEF BeginStep, callbacks
<1>2. CASE queue = {}
  BY <1>1, <1>2 DEF BeginStep, Timely, NothingLeftBehind
<1>3. CASE queue # {}
  <2>1. Earliest \in queue /\ \A f \in queue \ {Earliest} : Precedes(Earliest, f)
    BY <1>3, HeadOfQueue DEF Bookkeeping, Apart, QueueEntry, QueueOK
  <2>2. time' = Earliest.time
    BY <1>3 DEF BeginStep
  <2>3. \A f \in queue : f.time \in Nat
    BY DEF Bookkeeping, Apart, QueueEntry
  <2>4. \A f \in queue : f.time >= Earliest.time
    BY <2>1, <2>3 DEF Precedes
  <2> QED
    BY <1>1, <2>1, <2>2, <2>3, <2>4 DEF Timely, NothingLeftBehind
<1> QED
  BY <1>2, <1>3

\* A phase ends when the queue has nothing left for it.
LEMMA TimelyParts ==
  ASSUME Bookkeeping, Timely,
         RunStarts \/ RunEnds \/ ReadWriteNext \/ SettleStep \/ ApplyUpdates
           \/ WatchersDone \/ SettleDelta \/ EndStep
  PROVE  Timely'
<1>1. UNCHANGED <<queue, time>>
  BY DEF RunStarts, RunEnds, ReadWriteNext, SettleStep, SettledTo, ApplyUpdates, Resettled,
         WatchersDone, SettleDelta, EndStep, Collect, callbacks, clockwork
<1>2. \A e \in queue : e.phase \in 0 .. 2
  BY DEF Bookkeeping, Apart, QueueEntry, Normal, ReadWrite, ReadOnly
<1>3. CASE RunStarts \/ RunEnds
  BY <1>1, <1>3 DEF RunStarts, RunEnds, clockwork, Timely, NothingLeftBehind
<1>4. CASE ReadWriteNext
  <2>1. \A e \in queue : e.time = time => e.phase > Normal
    BY <1>2, <1>4, PhaseOver DEF ReadWriteNext, Normal
  <2> QED
    BY <1>1, <1>4, <2>1, SameQueueTimely DEF ReadWriteNext, clockwork, Normal
<1>5. CASE SettleStep \/ ApplyUpdates \/ SettleDelta
  <2>1. pc \in {"rw", "watch", "delta"} /\ pc' \in {"watch", "raised"} /\ steps' = steps
    BY <1>5 DEF SettleStep, SettledTo, ApplyUpdates, Resettled, SettleDelta, clockwork
  <2>2. \A e \in queue : e.time = time => e.phase # Normal
    BY <2>1 DEF Timely
  <2> QED
    BY <1>1, <2>1, <2>2, SameQueueTimely
<1>6. CASE WatchersDone
  <2>1. \A e \in queue : e.time = time => e.phase # Normal
    BY <1>6 DEF WatchersDone, Timely
  <2>2. ASSUME pc' = "readonly", deltas' < DeltaLimit
        PROVE  \A e \in queue : e.time = time => e.phase # ReadWrite
    <3>1. ~HasPhase(ReadWrite)
      BY <1>6, <2>2 DEF WatchersDone, MayRepeat
    <3>2. \A e \in queue : e.time = time => e.phase >= ReadWrite
      BY <1>2, <2>1 DEF Normal, ReadWrite
    <3> QED
      BY <1>2, <3>1, <3>2, PhaseOver DEF ReadWrite
  <2>3. steps' = steps /\ pc' \in {"delta", "readonly"}
    BY <1>6 DEF WatchersDone
  <2> QED
    BY <1>1, <2>1, <2>2, <2>3, SameQueueTimely
<1>7. CASE EndStep
  <2>1. ASSUME deltas < DeltaLimit
        PROVE  \A e \in queue : e.time > time
    <3>1. \A e \in queue : e.time = time => e.phase # Normal /\ e.phase # ReadWrite
      BY <1>7, <2>1 DEF EndStep, Timely
    <3>2. \A e \in queue : e.time = time => e.phase >= ReadOnly
      BY <1>2, <3>1 DEF Normal, ReadWrite, ReadOnly
    <3>3. \A e \in queue : e.time = time => e.phase > ReadOnly
      BY <1>7, <3>2, PhaseOver DEF EndStep
    <3>4. \A e \in queue : e.time # time
      BY <1>2, <3>3 DEF ReadOnly
    <3>5. \A e \in queue : e.time \in Nat
      BY DEF Bookkeeping, Apart, QueueEntry
    <3> QED
      BY <3>4, <3>5 DEF Timely
  <2>2. pc' = "idle" /\ UNCHANGED <<steps, deltas>>
    BY <1>7 DEF EndStep, clockwork
  <2> QED
    BY <1>1, <2>1, <2>2 DEF Timely, NothingLeftBehind
<1> QED
  BY <1>3, <1>4, <1>5, <1>6, <1>7

-----------------------------------------------------------------------------
\* The theorems about the callbacks.

Scheduling == Bookkeeping /\ Timely

\* Every step keeps the invariant of the scheduler.
LEMMA SchedulingStep == Scheduling /\ [Next]_vars => Scheduling'
<1> SUFFICES ASSUME Scheduling, [Next]_vars PROVE Scheduling'
  OBVIOUS
<1>1. Bookkeeping /\ Timely /\ time \in Nat
  BY DEF Scheduling, Timely
<1>2. CASE TestStarts
  BY <1>1, <1>2, TestStartsKeeps, TimelyCallbacks DEF Scheduling
<1>3. CASE FireQueued
  BY <1>1, <1>3, FireQueuedKeeps, TimelyCallbacks DEF Scheduling
<1>4. CASE FireWatcher
  BY <1>1, <1>4, FireWatcherKeeps, TimelyCallbacks DEF Scheduling
<1>5. CASE BeginStep
  <2>1. UNCHANGED <<callbacks, toFire>>
    BY <1>5 DEF BeginStep
  <2> QED
    BY <1>1, <1>5, <2>1, QuietKeeps, TimelyBegin DEF Scheduling
<1>6. CASE RunStarts \/ RunEnds \/ ReadWriteNext \/ WatchersDone \/ EndStep
  <2>1. UNCHANGED <<callbacks, toFire>>
    BY <1>6 DEF RunStarts, RunEnds, ReadWriteNext, WatchersDone, EndStep
  <2>2. Timely'
    BY <1>1, <1>6, TimelyParts
  <2> QED
    BY <1>1, <2>1, <2>2, QuietKeeps DEF Scheduling
<1>7. CASE SettleStep
  BY <1>1, <1>7, SettleKeeps, TimelyParts DEF SettleStep, Scheduling
<1>8. CASE ApplyUpdates
  BY <1>1, <1>8, ResettleKeeps, TimelyParts DEF ApplyUpdates, Scheduling
<1>9. CASE SettleDelta
  BY <1>1, <1>9, ResettleKeeps, TimelyParts DEF SettleDelta, Scheduling
<1>10. CASE Ended \/ UNCHANGED vars
  BY <1>1, <1>10 DEF Ended, vars, callbacks, clockwork, Scheduling, Bookkeeping, Timely, NothingLeftBehind
<1> QED
  BY <1>2, <1>3, <1>4, <1>5, <1>6, <1>7, <1>8, <1>9, <1>10 DEF Next

\* Callbacks are in one place and wait for times to come, in every state.
THEOREM SchedulingCorrect == Spec => []Scheduling
<1>1. Init => Scheduling
  BY BookkeepingInit, TimelyInit DEF Scheduling
<1> QED
  BY <1>1, SchedulingStep, PTL DEF Spec

\* Whatever callbacks register and deregister in between, a callback is called
\* at most once.
THEOREM CalledOnce == Spec => []OneShot
<1>1. Scheduling => OneShot
  <2> SUFFICES ASSUME Bookkeeping PROVE OneShot
    BY DEF Scheduling
  <2>1. Queued \cap Watching = {} /\ Collected \cap (Queued \cup Watching) = {}
    BY DEF Bookkeeping, Apart, Queued, Watching, Collected
  <2>2. called \cap (Queued \cup Watching \cup Collected) = {}
    <3>1. \A e \in queue : e.id \notin called
      BY DEF Bookkeeping, Apart
    <3>2. \A w \in vch : w.id \notin called
      BY DEF Bookkeeping, Apart
    <3>3. \A f \in toFire : f.id \notin called
      BY DEF Bookkeeping, Apart
    <3> QED
      BY <3>1, <3>2, <3>3 DEF Queued, Watching, Collected
  <2>3. SignalsOf(vch) = DOMAIN keys
    BY DEF Bookkeeping, Apart
  <2> QED
    BY <2>1, <2>2, <2>3 DEF Bookkeeping, Apart, OneShot
<1> QED
  BY <1>1, SchedulingCorrect, PTL

\* A callback deregistered before it was due is never called.
THEOREM DeregisteredNeverCalled == Spec => []DeregisteredSilent
<1>1. Scheduling => DeregisteredSilent
  <2> SUFFICES ASSUME Bookkeeping PROVE DeregisteredSilent
    BY DEF Scheduling
  <2>1. \A f \in toFire : f.id \notin gone
    BY DEF Bookkeeping, Apart
  <2>2. gone \cap (called \cup active) = {}
    BY DEF Bookkeeping, Apart
  <2> QED
    BY <2>1, <2>2 DEF DeregisteredSilent, Collected
<1> QED
  BY <1>1, SchedulingCorrect, PTL

\* When a step ends inside the delta limit, every callback of its time has been
\* called or deregistered.
THEOREM TimesAreFinished == Spec => []NothingLeftBehind
<1>1. Scheduling => NothingLeftBehind
  BY DEF Scheduling, Timely
<1> QED
  BY <1>1, SchedulingCorrect, PTL

-----------------------------------------------------------------------------
(***************************************************************************)
(* What an evaluation of the design leaves, and what the step makes of it: *)
(* the types, the watchers, the edges and the settled components, for      *)
(* every design whose blocks keep their order.                             *)
(***************************************************************************)

-----------------------------------------------------------------------------
\* The components.

Agreeing(S) == \A k \in 1 .. Len(design.order) : Agrees(design.order[k], S)

Blocks == [k \in 1 .. Len(design.order) |-> Then(design.order[k])]

\* What an outcome is made of.
LEMMA OutcomeParts ==
  ASSUME NEW r
  PROVE  /\ r \in Outcome => r.sig \in Valuation /\ r.exit \in {"ok", "finish", "error"}
         /\ r \in Outcome /\ r.exit = "ok" => r = Ok(r.sig)
         /\ \A S \in Valuation : Ok(S) \in Outcome /\ Ok(S).sig = S /\ Ok(S).exit = "ok"
BY DEF Outcome, Ok

\* The list of blocks, as functions on outcomes.
LEMMA BlocksFacts ==
  ASSUME design \in Designs
  PROVE  /\ Len(design.order) \in Nat /\ Len(Blocks) = Len(design.order)
         /\ \A k \in 1 .. Len(design.order) : Blocks[k] \in [Outcome -> Outcome]
         /\ \A k \in 1 .. Len(design.order), r \in Outcome :
              Blocks[k][r] = IF r.exit = "ok" THEN Exec(design.order[k], r.sig) ELSE r
<1>1. Len(design.order) \in Nat /\ \A k \in 1 .. Len(design.order) : BlockTotal(design.order[k])
  BY OrderAssumption DEF OrderOK
<1>2. \A k \in 1 .. Len(design.order) : Then(design.order[k]) \in [Outcome -> Outcome]
  <2> SUFFICES ASSUME NEW k \in 1 .. Len(design.order), NEW r \in Outcome, r.exit = "ok"
               PROVE  Exec(design.order[k], r.sig) \in Outcome
    BY DEF Then
  <2> QED
    BY <1>1, OutcomeParts DEF BlockTotal
<1>3. Blocks \in [1 .. Len(design.order) -> [Outcome -> Outcome]]
  BY <1>2 DEF Blocks
<1> QED
  BY <1>1, <1>3, LengthOf DEF Blocks, Then

\* Components write what they are said to write.
LEMMA SettleCombWrites ==
  ASSUME design \in Designs, NEW S \in Valuation
  PROVE  /\ SettleComb(S) \in Outcome
         /\ \A s \in Signal \ CompWritten(design) : SettleComb(S).sig[s] = S[s]
<1> DEFINE B == { r \in Outcome : \A s \in Signal \ CompWritten(design) : r.sig[s] = S[s] }
<1>1. Ok(S) \in B
  BY OutcomeParts
<1>2. ASSUME NEW k \in 1 .. Len(design.order), NEW b \in B PROVE Blocks[k][b] \in B
  <2>1. CASE b.exit # "ok"
    BY <2>1, BlocksFacts
  <2>2. CASE b.exit = "ok"
    <3>1. Blocks[k][b] = Exec(design.order[k], b.sig) /\ Blocks[k][b] \in Outcome
      BY <2>2, BlocksFacts
    <3>2. \A s \in Signal \ CompWritten(design) : Exec(design.order[k], b.sig).sig[s] = b.sig[s]
      <4>1. WritesOnly(design.order[k], CompWritten(design)) /\ b.sig \in Valuation
        BY OrderAssumption, OutcomeParts DEF OrderOK
      <4> QED
        BY <4>1 DEF WritesOnly
    <3> QED
      BY <3>1, <3>2
  <2> QED
    BY <2>1, <2>2
<1> HIDE DEF B
<1>3. Through(Blocks, Ok(S)) \in B
  <2>1. B \in SUBSET Outcome
    BY DEF B
  <2> QED
    BY <1>1, <1>2, <2>1, BlocksFacts, ThroughKeeps
<1>4. SettleComb(S) \in B
  BY <1>3 DEF SettleComb, Blocks
<1> QED
  BY <1>4 DEF B

\* One pass over blocks in dependency order settles them all.
LEMMA OnePassSettles ==
  ASSUME design \in Designs, NEW S \in Valuation, SettleComb(S).exit = "ok"
  PROVE  Agreeing(SettleComb(S).sig)
<1> DEFINE n == Len(design.order)
<1>1. PICK f : Course(Blocks, Ok(S), Outcome, n, f) /\ Through(Blocks, Ok(S)) = f[n]
  <2>1. /\ Ok(S) \in Outcome /\ n \in Nat /\ Len(Blocks) = n
        /\ \A k \in 1 .. n : Blocks[k] \in [Outcome -> Outcome]
    BY OutcomeParts, BlocksFacts
  <2> HIDE DEF n
  <2> QED
    BY <2>1, ThroughCourse
<1>2. n \in Nat /\ SettleComb(S) = f[n]
  BY <1>1, BlocksFacts DEF SettleComb, Blocks
<1> DEFINE Good(k) == f[k].exit = "ok" => \A i \in 1 .. k : Agrees(design.order[i], f[k].sig)
           Bad == { k \in 0 .. n : ~Good(k) }
<1>3. ASSUME Bad # {} PROVE FALSE
  <2>1. PICK m \in Bad : \A l \in Bad : m <= l
    <3>1. Bad \in SUBSET Nat
      OBVIOUS
    <3> HIDE DEF Bad
    <3> QED
      BY <1>3, <3>1, LeastNatural
  <2>2. m # 0 /\ m \in 1 .. n /\ m - 1 \in 0 .. n
    BY <1>2, <2>1
  <2>3. Good(m - 1)
    BY <2>1, <2>2
  <2>4. f[m - 1] \in Outcome /\ f[m] = Blocks[m][f[m - 1]] /\ f[m].exit = "ok"
    BY <1>1, <2>1, <2>2 DEF Course
  <2>5. f[m - 1].exit = "ok" /\ f[m] = Exec(design.order[m], f[m - 1].sig)
    BY <2>2, <2>4, BlocksFacts
  <2>6. /\ Agrees(design.order[m], f[m].sig)
        /\ \A i \in 1 .. m - 1 : Agrees(design.order[i], f[m - 1].sig) => Agrees(design.order[i], f[m].sig)
    BY <2>2, <2>4, <2>5, OrderAssumption, OutcomeParts DEF OrderOK, InDependencyOrder
  <2>7. \A i \in 1 .. m - 1 : Agrees(design.order[i], f[m].sig)
    BY <2>3, <2>5, <2>6
  <2>8. \A i \in 1 .. m : i = m \/ i \in 1 .. m - 1
    BY <2>2
  <2> QED
    BY <2>1, <2>6, <2>7, <2>8
<1>4. Good(n)
  BY <1>2, <1>3
<1> QED
  BY <1>2, <1>4 DEF Agreeing

\* Components that agree stay as they are.
LEMMA SettledStays ==
  ASSUME design \in Designs, NEW S \in Valuation, Agreeing(S)
  PROVE  SettleComb(S) = Ok(S)
<1>1. Ok(S) \in Outcome /\ Ok(S).sig = S /\ Ok(S).exit = "ok"
  BY OutcomeParts
<1>2. \A k \in 1 .. Len(design.order) : Blocks[k][Ok(S)] = Ok(S)
  BY <1>1, BlocksFacts DEF Agreeing, Agrees
<1> DEFINE B == {Ok(S)}
<1>3. B \in SUBSET Outcome /\ Ok(S) \in B /\ \A k \in 1 .. Len(design.order), b \in B : Blocks[k][b] \in B
  BY <1>1, <1>2
<1> HIDE DEF B
<1>4. Through(Blocks, Ok(S)) \in B
  BY <1>3, BlocksFacts, ThroughKeeps
<1> QED
  BY <1>4 DEF B, SettleComb, Blocks

-----------------------------------------------------------------------------
\* The domains.

Registers == UNION { D(i).written : i \in Dom }

\* The parts of a design of the constant set, as the steps below use them.
LEMMA DesignFacts ==
  ASSUME design \in Designs
  PROVE  /\ Len(design.domains) \in Nat
         /\ \A i \in Dom : DomainOK(D(i)) /\ D(i).written \subseteq Registers
         /\ Registers \subseteq Signal
         /\ design.init \in Valuation
<1>1. /\ Len(design.domains) \in Nat /\ design.init \in Valuation
      /\ \A i \in Dom : DomainOK(D(i))
  BY DesignAssumption DEF DesignOK, Dom, D
<1> QED
  BY <1>1 DEF Registers, DomainOK

\* A reset sets registers of its domain, to values of their kind.
LEMMA ResetFacts ==
  ASSUME design \in Designs, NEW S \in Valuation, NEW i \in Dom
  PROVE  /\ ApplyReset(D(i), design.init, S) \in Valuation
         /\ \A s \in Signal \ Registers : ApplyReset(D(i), design.init, S)[s] = S[s]
BY DesignFacts DEF ApplyReset, Valuation

Holds(i) ==
  [r \in [sig : Valuation, held : SUBSET Dom] |->
     IF HoldsReset(i, r.sig)
     THEN [sig |-> ApplyReset(D(i), design.init, r.sig), held |-> r.held \cup {i}]
     ELSE r]

\* Asynchronous resets write registers, and hold a domain only if its reset is
\* active, or is itself a register.
LEMMA AsyncResetsFacts ==
  ASSUME design \in Designs, NEW S \in Valuation
  PROVE  /\ AsyncResets(S).sig \in Valuation /\ AsyncResets(S).held \subseteq Dom
         /\ \A s \in Signal \ Registers : AsyncResets(S).sig[s] = S[s]
         /\ \A i \in AsyncResets(S).held :
              D(i).style = "async" /\ (ResetActive(D(i), S) \/ D(i).rst \in Registers)
<1> DEFINE A == [sig : Valuation, held : SUBSET Dom]
           B == { r \in A :
                    /\ \A s \in Signal \ Registers : r.sig[s] = S[s]
                    /\ \A i \in r.held :
                         D(i).style = "async" /\ (ResetActive(D(i), S) \/ D(i).rst \in Registers) }
           list == [i \in Dom |-> Holds(i)]
           n == Len(design.domains)
<1>1. n \in Nat /\ Dom = 1 .. n
  BY DesignFacts DEF Dom
<1>2. [sig |-> S, held |-> {}] \in B
  OBVIOUS
<1>3. ASSUME NEW i \in Dom, NEW r \in A
      PROVE  /\ Holds(i)[r] \in A
             /\ r \in B => Holds(i)[r] \in B
  <2>1. CASE ~HoldsReset(i, r.sig)
    BY <2>1 DEF Holds
  <2>2. CASE HoldsReset(i, r.sig)
    <3> DEFINE T == ApplyReset(D(i), design.init, r.sig)
    <3>1. T \in Valuation /\ \A s \in Signal \ Registers : T[s] = r.sig[s]
      BY ResetFacts
    <3>2. Holds(i)[r] = [sig |-> T, held |-> r.held \cup {i}]
      BY <2>2 DEF Holds
    <3> HIDE DEF T
    <3>3. Holds(i)[r] \in A /\ Holds(i)[r].sig = T /\ Holds(i)[r].held = r.held \cup {i}
      BY <3>1, <3>2
    <3>4. ASSUME r \in B PROVE Holds(i)[r] \in B
      <4>1. D(i).style = "async" /\ ResetActive(D(i), r.sig) /\ D(i).rst \in Signal
        BY <2>2, DesignFacts DEF HoldsReset, DomainOK
      <4>2. D(i).rst \in Registers \/ ResetActive(D(i), S)
        BY <3>4, <4>1 DEF ResetActive
      <4> QED
        BY <3>1, <3>3, <3>4, <4>1, <4>2
    <3> QED
      BY <3>3, <3>4
  <2> QED
    BY <2>1, <2>2
<1>4. list \in [1 .. n -> [A -> A]] /\ Len(list) = n
  <2>1. \A i \in Dom : Holds(i) \in [A -> A]
    BY <1>3 DEF Holds
  <2>2. list \in [1 .. n -> [A -> A]]
    BY <1>1, <2>1
  <2> HIDE DEF list, A, n
  <2> QED
    BY <1>1, <2>2, LengthOf
<1>5. \A k \in 1 .. n : list[k] \in [A -> A] /\ \A b \in B : list[k][b] \in B
  BY <1>1, <1>3, <1>4
<1>6. AsyncResets(S) = Through(list, [sig |-> S, held |-> {}])
  BY DEF AsyncResets, Holds
<1>7. B \in SUBSET A
  OBVIOUS
<1> HIDE DEF B, A, list, n
<1>8. AsyncResets(S) \in B
  BY <1>1, <1>2, <1>4, <1>5, <1>6, <1>7, ThroughKeeps
<1> QED
  BY <1>8 DEF B, A

RunsIn(set, i) ==
  [r \in Outcome |->
     IF i \notin set \/ r.exit # "ok" THEN r
     ELSE IF D(i).style = "sync" /\ ResetActive(D(i), r.sig)
          THEN Ok(ApplyReset(D(i), design.init, r.sig))
          ELSE Exec(D(i).block, r.sig)]

\* Sequential blocks write registers.
LEMMA RunDomainsWrites ==
  ASSUME design \in Designs, NEW S \in Valuation, NEW set
  PROVE  /\ RunDomains(S, set) \in Outcome
         /\ \A s \in Signal \ Registers : RunDomains(S, set).sig[s] = S[s]
<1> DEFINE B == { r \in Outcome : \A s \in Signal \ Registers : r.sig[s] = S[s] }
           list == [i \in Dom |-> RunsIn(set, i)]
           n == Len(design.domains)
<1>1. n \in Nat /\ Dom = 1 .. n
  BY DesignFacts DEF Dom
<1>2. Ok(S) \in B
  BY OutcomeParts
<1>3. ASSUME NEW i \in Dom, NEW r \in Outcome
      PROVE  /\ RunsIn(set, i)[r] \in Outcome
             /\ \A s \in Signal \ Registers : RunsIn(set, i)[r].sig[s] = r.sig[s]
  <2>1. r.sig \in Valuation
    BY OutcomeParts
  <2>2. CASE i \notin set \/ r.exit # "ok"
    BY <2>2 DEF RunsIn
  <2>3. CASE /\ i \in set /\ r.exit = "ok"
             /\ D(i).style = "sync" /\ ResetActive(D(i), r.sig)
    <3>1. RunsIn(set, i)[r] = Ok(ApplyReset(D(i), design.init, r.sig))
      BY <2>3 DEF RunsIn
    <3> QED
      BY <2>1, <3>1, ResetFacts, OutcomeParts
  <2>4. CASE /\ i \in set /\ r.exit = "ok"
             /\ ~(D(i).style = "sync" /\ ResetActive(D(i), r.sig))
    <3>1. RunsIn(set, i)[r] = Exec(D(i).block, r.sig)
      BY <2>4 DEF RunsIn
    <3>2. BlockTotal(D(i).block) /\ WritesOnly(D(i).block, D(i).written)
      BY DesignFacts DEF DomainOK
    <3>3. Exec(D(i).block, r.sig) \in Outcome
      BY <2>1, <3>2 DEF BlockTotal
    <3>4. \A s \in Signal \ D(i).written : Exec(D(i).block, r.sig).sig[s] = r.sig[s]
      BY <2>1, <3>2 DEF WritesOnly
    <3> QED
      BY <3>1, <3>3, <3>4, DesignFacts
  <2> QED
    BY <2>2, <2>3, <2>4
<1>4. list \in [1 .. n -> [Outcome -> Outcome]] /\ Len(list) = n
  <2>1. \A i \in Dom : RunsIn(set, i) \in [Outcome -> Outcome]
    BY <1>3 DEF RunsIn
  <2>2. list \in [1 .. n -> [Outcome -> Outcome]]
    BY <1>1, <2>1
  <2> HIDE DEF list, n
  <2> QED
    BY <1>1, <2>2, LengthOf
<1>5. \A k \in 1 .. n : list[k] \in [Outcome -> Outcome] /\ \A b \in B : list[k][b] \in B
  BY <1>1, <1>3, <1>4
<1>6. RunDomains(S, set) = Through(list, Ok(S))
  BY DEF RunDomains, RunsIn
<1>7. B \in SUBSET Outcome
  OBVIOUS
<1> HIDE DEF B, list, n
<1>8. Through(list, Ok(S)) \in B
  BY <1>1, <1>2, <1>4, <1>5, <1>7, ThroughKeeps
<1>9. RunDomains(S, set) \in B
  BY <1>6, <1>8
<1> QED
  BY <1>9 DEF B

-----------------------------------------------------------------------------
\* An evaluation of the design.

WordsTyped == WordsOK(design.mems, words)

\* What sequential blocks, components and read ports drive is computed.
LEMMA ComputedFacts ==
  ASSUME design \in Designs
  PROVE  /\ SeqWritten \subseteq Registers /\ (HasSeq(design) => SeqWritten = Registers)
         /\ MemoriesOK(design.mems)
BY MemoryAssumption DEF SeqWritten, Registers, MemoriesOK

\* The domains whose edge was seen ran, except those their asynchronous reset
\* held; signals that are not computed stay as they are; and unless a block
\* raised the components agree.
LEMMA SettleFacts ==
  ASSUME design \in Designs, WordsTyped, NEW S \in Valuation
  PROVE  /\ Settle(S).sig \in Valuation
         /\ WordsOK(design.mems, Settle(S).words)
         /\ Settle(S).ran \subseteq Dom
         /\ \A s \in Signal \ Computed : Settle(S).sig[s] = S[s]
         /\ Settle(S).exit = "ok" => Agreeing(Settle(S).sig)
         /\ HasSeq(design) =>
              \A i \in Dom : EdgeSeen(prev, S, i) =>
                 \/ i \in Settle(S).ran
                 \/ /\ D(i).style = "async"
                    /\ ResetActive(D(i), Settle(S).sig) \/ D(i).rst \in Computed
<1>1. CASE ~HasSeq(design)
  <2>1. Settle(S) = SettledAs(SettleComb(S), words, {})
    BY <1>1 DEF Settle
  <2>2. /\ Settle(S).sig = SettleComb(S).sig /\ Settle(S).exit = SettleComb(S).exit
        /\ Settle(S).words = words /\ Settle(S).ran = {}
    BY <2>1 DEF SettledAs
  <2>3. SettleComb(S) \in Outcome /\ \A s \in Signal \ Computed : SettleComb(S).sig[s] = S[s]
    BY SettleCombWrites DEF Computed
  <2>4. SettleComb(S).sig \in Valuation
    BY <2>3, OutcomeParts
  <2> QED
    BY <1>1, <2>2, <2>3, <2>4, OnePassSettles DEF WordsTyped
<1>2. CASE HasSeq(design)
  <2> DEFINE resets == AsyncResets(S)
             firing == { i \in Dom : EdgeSeen(prev, S, i) } \ resets.held
             run    == RunDomains(resets.sig, firing)
             names  == { D(i).name : i \in firing }
             stored == MemWrites(design.mems, words, run.sig, names)
             T      == MemReads(design.mems, stored, run.sig, names)
  <2>1. Settle(S) = IF run.exit # "ok" THEN SettledAs(run, words, firing)
                    ELSE SettledAs(SettleComb(T), stored, firing)
    BY <1>2 DEF Settle, AfterResets, AfterRun
  <2>2. /\ resets.sig \in Valuation /\ resets.held \subseteq Dom
        /\ \A s \in Signal \ Registers : resets.sig[s] = S[s]
        /\ \A i \in resets.held :
             D(i).style = "async" /\ (ResetActive(D(i), S) \/ D(i).rst \in Registers)
    BY AsyncResetsFacts
  <2>3. firing \subseteq Dom /\ \A i \in Dom : EdgeSeen(prev, S, i) => i \in firing \/ i \in resets.held
    OBVIOUS
  <2> HIDE DEF resets, firing
  <2>4. run \in Outcome /\ \A s \in Signal \ Registers : run.sig[s] = resets.sig[s]
    BY <2>2, RunDomainsWrites
  <2> HIDE DEF run
  <2>5. run.sig \in Valuation /\ WordsOK(design.mems, stored)
    <3>1. run.sig \in Valuation
      BY <2>4, OutcomeParts
    <3>2. MemoriesOK(design.mems) /\ WordsOK(design.mems, words)
      BY ComputedFacts DEF WordsTyped
    <3> QED
      BY <3>1, <3>2, MemWritesFacts
  <2> HIDE DEF stored, names
  <2>6. T \in Valuation /\ \A s \in Signal \ ReadData(design.mems) : T[s] = run.sig[s]
    BY <2>5, ComputedFacts, MemReadsFacts
  <2> HIDE DEF T
  <2>7. /\ SettleComb(T) \in Outcome /\ SettleComb(T).sig \in Valuation
        /\ \A s \in Signal \ CompWritten(design) : SettleComb(T).sig[s] = T[s]
        /\ SettleComb(T).exit = "ok" => Agreeing(SettleComb(T).sig)
    <3>1. SettleComb(T) \in Outcome /\ \A s \in Signal \ CompWritten(design) : SettleComb(T).sig[s] = T[s]
      BY <2>6, SettleCombWrites
    <3> QED
      BY <2>6, <3>1, OutcomeParts, OnePassSettles
  <2>8. Registers \subseteq Computed /\ CompWritten(design) \subseteq Computed
          /\ ReadData(design.mems) \subseteq Computed
    BY <1>2, ComputedFacts DEF Computed
  <2>9. /\ Settle(S).sig \in Valuation
        /\ WordsOK(design.mems, Settle(S).words)
        /\ Settle(S).ran = firing
        /\ \A s \in Signal \ Computed : Settle(S).sig[s] = S[s]
        /\ Settle(S).exit = "ok" => Agreeing(Settle(S).sig)
    <3>1. CASE run.exit # "ok"
      <4>1. /\ Settle(S).sig = run.sig /\ Settle(S).exit = run.exit
            /\ Settle(S).words = words /\ Settle(S).ran = firing
        BY <2>1, <3>1 DEF SettledAs
      <4> QED
        BY <2>2, <2>4, <2>5, <2>8, <3>1, <4>1 DEF WordsTyped
    <3>2. CASE run.exit = "ok"
      <4>1. /\ Settle(S).sig = SettleComb(T).sig /\ Settle(S).exit = SettleComb(T).exit
            /\ Settle(S).words = stored /\ Settle(S).ran = firing
        BY <2>1, <3>2 DEF SettledAs
      <4> QED
        BY <2>2, <2>4, <2>5, <2>6, <2>7, <2>8, <4>1
    <3> QED
      BY <3>1, <3>2
  <2>10. ASSUME NEW i \in Dom, EdgeSeen(prev, S, i)
         PROVE  \/ i \in Settle(S).ran
                \/ /\ D(i).style = "async"
                   /\ ResetActive(D(i), Settle(S).sig) \/ D(i).rst \in Computed
    <3>1. CASE i \in firing
      BY <2>9, <3>1
    <3>2. CASE i \in resets.held
      <4>1. D(i).style = "async" /\ (ResetActive(D(i), S) \/ D(i).rst \in Computed)
        BY <2>2, <2>8, <3>2
      <4>2. D(i).rst \in Signal
        BY DesignFacts DEF DomainOK
      <4> QED
        BY <2>9, <4>1, <4>2 DEF ResetActive
    <3> QED
      BY <2>3, <2>10, <3>1, <3>2
  <2> QED
    BY <2>3, <2>9, <2>10
<1> QED
  BY <1>1, <1>2

-----------------------------------------------------------------------------
\* What the state says of the values.

PastType ==
  [origin : Valuation, mark : Nat, ran : SUBSET Dom, plan : Valuation,
   late : SUBSET Signal, wet : SUBSET Signal, damp : BOOLEAN]

Typed ==
  /\ design \in Designs /\ WordsTyped
  /\ pc \in {"start", "idle", "normal", "rw", "watch", "delta", "readonly", "stopped", "raised"}
  /\ steps \in 0 .. MaxSteps /\ deltas \in 0 .. DeltaLimit /\ (pc = "delta" => deltas > 0)
  /\ sig \in Valuation /\ prev \in Valuation /\ running \in BOOLEAN
  /\ nextId <= MaxCallbacks + 1
  /\ nba \in [DOMAIN nba -> Value] /\ DOMAIN nba \subseteq SeqWritten
  /\ past \in PastType

\* No old watcher has been passed over by the time the signals are S.
Unmissed(S) ==
  \A w \in vch : w.id < past.mark /\ w.sig \notin past.wet
                   => ~Triggers(w.edge, past.origin[w.sig], S[w.sig])

Watched ==
  /\ past.mark <= nextId
  /\ pc \in {"normal", "rw"} => prev = past.origin
  /\ pc \in {"watch", "readonly"} => Unmissed(sig)
  /\ pc = "delta" => Unmissed(prev)

\* Domain i ran in this step, or its asynchronous reset held it.
Accounted(i) ==
  \/ i \in past.ran
  \/ D(i).style = "async" /\ (ResetActive(D(i), past.plan) \/ D(i).rst \in Computed)

Edges ==
  pc \in {"watch", "delta", "readonly"} /\ HasSeq(design) =>
    \A i \in Dom : EdgeSeen(past.origin, sig, i) /\ D(i).clk \notin past.late \cup Computed
                     => Accounted(i)

\* The signals once the staged updates are in effect.
Merged == [s \in Signal |-> IF s \in DOMAIN nba THEN nba[s] ELSE sig[s]]

Planned ==
  /\ pc = "readonly" \/ (pc = "watch" /\ nba = NoUpdate) => past.damp \/ Agreeing(sig)
  /\ pc = "delta" => nba = NoUpdate
  /\ pc \in {"watch", "delta"} => Agreeing(past.plan)
  /\ pc = "watch" /\ past.late = {} /\ deltas = 0 => Merged = past.plan
  /\ pc = "readonly" /\ past.late = {} /\ deltas = 0 => sig = past.plan

Values == Typed /\ Watched /\ Edges /\ Planned

-----------------------------------------------------------------------------
\* A callback acts.

\* What the call of a callback does to the values: a deposit is noted in the
\* parts of the step that need to know of it, and a new watcher has a new id.
LEMMA ActValues ==
  ASSUME Typed, Scheduling, NEW dep, NEW reg, NEW victims, NEW heap, NEW ids,
         dep = Nothing \/ (dep \in Deposits /\ pc # "readonly"),
         reg = Nothing \/ (reg \in Registrations /\ nextId <= MaxCallbacks),
         Act(dep, reg, victims, heap, ids)
  PROVE  /\ sig' \in Valuation /\ past' \in PastType
         /\ past' = [past EXCEPT !.late = past'.late, !.wet = past'.wet, !.damp = past'.damp]
         /\ past.late \subseteq past'.late /\ past.wet \subseteq past'.wet
         /\ past.damp => past'.damp
         /\ pc = "readonly" => sig' = sig /\ past' = past
         /\ \A s \in Signal : sig'[s] = sig[s] \/ (pc \in {"watch", "delta"} => s \in past'.late)
         /\ \A s \in Signal : sig'[s] = sig[s] \/ (pc = "watch" => s \in past'.wet)
         /\ pc = "watch" => sig' = sig \/ past'.damp
         /\ \A w \in vch' : w \in vch \/ w.id = nextId
         /\ nextId \in Nat /\ nextId' \in Nat /\ nextId <= nextId' /\ nextId' <= MaxCallbacks + 1
<1>1. /\ nextId \in Nat /\ nextId' \in Nat /\ nextId <= nextId' /\ nextId' <= MaxCallbacks + 1
  BY TestbenchAssumption DEF Act, Scheduling, Bookkeeping, Apart, Typed
<1>2. \A w \in vch' : w \in vch \/ w.id = nextId
  BY DEF Act, Watcher
<1>3. CASE dep = Nothing
  <2>1. sig' = sig /\ past' = past
    BY <1>3 DEF Act
  <2>2. past = [past EXCEPT !.late = past.late, !.wet = past.wet, !.damp = past.damp]
    BY DEF Typed, PastType
  <2> QED
    BY <1>1, <1>2, <2>1, <2>2 DEF Typed
<1>4. CASE dep # Nothing
  <2>1. dep.sig \in Signal /\ dep.value \in Value /\ pc # "readonly"
    BY <1>4, TestbenchAssumption
  <2>2. sig' = [sig EXCEPT ![dep.sig] = dep.value]
    BY <1>4 DEF Act
  <2>3. sig' \in Valuation /\ \A s \in Signal : s # dep.sig => sig'[s] = sig[s]
    BY <2>1, <2>2 DEF Typed, Valuation
  <2> DEFINE late == past.late \cup IF pc \in {"watch", "delta"} THEN {dep.sig} ELSE {}
             wet  == past.wet \cup IF pc = "watch" THEN {dep.sig} ELSE {}
             damp == past.damp \/ pc = "watch"
  <2>4. past' = [past EXCEPT !.late = late, !.wet = wet, !.damp = damp]
    BY <1>4 DEF Act
  <2>5. late \subseteq Signal /\ wet \subseteq Signal /\ damp \in BOOLEAN
    BY <2>1 DEF Typed, PastType
  <2>6. /\ pc \in {"watch", "delta"} => dep.sig \in late
        /\ pc = "watch" => dep.sig \in wet /\ damp
        /\ past.late \subseteq late /\ past.wet \subseteq wet
        /\ past.damp => damp
    OBVIOUS
  <2> HIDE DEF late, wet, damp
  <2>7. past' \in PastType /\ past'.late = late /\ past'.wet = wet /\ past'.damp = damp
    BY <2>4, <2>5 DEF Typed, PastType
  <2>8. past' = [past EXCEPT !.late = past'.late, !.wet = past'.wet, !.damp = past'.damp]
    BY <2>4, <2>7
  <2>9. ASSUME NEW s \in Signal
        PROVE  /\ sig'[s] = sig[s] \/ (pc \in {"watch", "delta"} => s \in past'.late)
               /\ sig'[s] = sig[s] \/ (pc = "watch" => s \in past'.wet)
    BY <2>3, <2>6, <2>7
  <2>10. past.late \subseteq past'.late /\ past.wet \subseteq past'.wet
    BY <2>6, <2>7
  <2>11. (past.damp => past'.damp) /\ (pc = "watch" => past'.damp)
    BY <2>6, <2>7
  <2> QED
    BY <1>1, <1>2, <2>1, <2>3, <2>7, <2>8, <2>9, <2>10, <2>11
<1> QED
  BY <1>3, <1>4

\* Calls keep what the state says of the values.
LEMMA ActKeepsValues ==
  ASSUME Values, Scheduling, NEW dep, NEW reg, NEW victims, NEW heap, NEW ids,
         dep = Nothing \/ (dep \in Deposits /\ pc # "readonly"),
         reg = Nothing \/ (reg \in Registrations /\ nextId <= MaxCallbacks),
         Act(dep, reg, victims, heap, ids),
         UNCHANGED <<design, words, pc, clockwork, prev, nba>>, running' \in BOOLEAN
  PROVE  Values'
<1>1. Typed /\ Watched /\ Edges /\ Planned
  BY DEF Values
<1>2. /\ sig' \in Valuation /\ past' \in PastType
      /\ past.late \subseteq past'.late /\ past.wet \subseteq past'.wet
      /\ past.damp => past'.damp
      /\ pc = "readonly" => sig' = sig /\ past' = past
      /\ \A s \in Signal : sig'[s] = sig[s] \/ (pc \in {"watch", "delta"} => s \in past'.late)
      /\ \A s \in Signal : sig'[s] = sig[s] \/ (pc = "watch" => s \in past'.wet)
      /\ pc = "watch" => sig' = sig \/ past'.damp
      /\ \A w \in vch' : w \in vch \/ w.id = nextId
      /\ nextId \in Nat /\ nextId' \in Nat /\ nextId <= nextId' /\ nextId' <= MaxCallbacks + 1
  BY <1>1, ActValues
<1>3. /\ past'.origin = past.origin /\ past'.mark = past.mark
      /\ past'.ran = past.ran /\ past'.plan = past.plan
  <2>1. past' = [past EXCEPT !.late = past'.late, !.wet = past'.wet, !.damp = past'.damp]
    BY <1>1, ActValues
  <2>2. past \in PastType
    BY <1>1 DEF Typed
  <2> QED
    BY <2>1, <2>2 DEF PastType
<1>4. UNCHANGED <<design, words, pc, steps, deltas, prev, nba>>
  BY DEF clockwork
<1>5. SeqWritten' = SeqWritten /\ Dom' = Dom /\ Computed' = Computed /\ \A i \in Dom : D(i)' = D(i)
  BY <1>4 DEF SeqWritten, Dom, Computed, D
<1>6. Typed'
  BY <1>1, <1>2, <1>4, <1>5 DEF Typed, WordsTyped, PastType
<1>7. ASSUME NEW S, Unmissed(S), NEW T, NEW w \in vch', w.id < past'.mark, w.sig \notin past'.wet,
             past.mark <= nextId, w \in vch => T[w.sig] = S[w.sig]
      PROVE  ~Triggers(w.edge, past'.origin[w.sig], T[w.sig])
  <2>1. past.mark \in Nat
    BY <1>1 DEF Typed, PastType
  <2>2. w \in vch
    BY <1>2, <1>3, <1>7, <2>1
  <2> QED
    BY <1>2, <1>3, <1>7, <2>2 DEF Unmissed
<1>8. \A w \in vch : w.sig \in Signal
  BY DEF Scheduling, Bookkeeping, Apart, WatchEntry
<1>9. Watched'
  <2>1. past.mark \in Nat
    BY <1>1 DEF Typed, PastType
  <2>2. past'.mark <= nextId'
    BY <1>1, <1>2, <1>3, <2>1 DEF Watched
  <2>3. pc \in {"normal", "rw"} => prev' = past'.origin
    BY <1>1, <1>3, <1>4 DEF Watched
  <2>4. ASSUME pc \in {"watch", "readonly"}, NEW w \in vch', w.id < past'.mark, w.sig \notin past'.wet
        PROVE  ~Triggers(w.edge, past'.origin[w.sig], sig'[w.sig])
    <3>1. Unmissed(sig) /\ past.mark <= nextId
      BY <1>1, <2>4 DEF Watched
    <3>2. w \in vch => sig'[w.sig] = sig[w.sig]
      BY <1>2, <1>8, <2>4
    <3> QED
      BY <1>7, <2>4, <3>1, <3>2
  <2>5. ASSUME pc = "delta", NEW w \in vch', w.id < past'.mark, w.sig \notin past'.wet
        PROVE  ~Triggers(w.edge, past'.origin[w.sig], prev'[w.sig])
    <3>1. Unmissed(prev) /\ past.mark <= nextId
      BY <1>1, <2>5 DEF Watched
    <3> QED
      BY <1>4, <1>7, <2>5, <3>1
  <2> QED
    BY <1>4, <2>2, <2>3, <2>4, <2>5 DEF Watched, Unmissed
<1>10. Edges'
  <2> SUFFICES ASSUME pc \in {"watch", "delta", "readonly"}, HasSeq(design), NEW i \in Dom,
                      EdgeSeen(past.origin, sig', i), D(i).clk \notin past'.late \cup Computed
               PROVE  Accounted(i)'
    BY <1>3, <1>4, <1>5 DEF Edges, EdgeSeen
  <2>1. D(i).clk \in Signal
    BY <1>1, DesignFacts DEF Typed, DomainOK
  <2>2. sig'[D(i).clk] = sig[D(i).clk]
    BY <1>2, <2>1
  <2>3. EdgeSeen(past.origin, sig, i) /\ D(i).clk \notin past.late \cup Computed
    BY <1>2, <2>2 DEF EdgeSeen
  <2>4. Accounted(i)
    BY <1>1, <2>3 DEF Edges
  <2> QED
    BY <1>3, <1>4, <1>5, <2>4 DEF Accounted
<1>11. Planned'
  <2>1. pc' = "readonly" => past' = past /\ sig' = sig
    BY <1>2, <1>4
  <2>2. CASE pc = "readonly"
    <3>1. past' = past /\ sig' = sig /\ UNCHANGED <<pc, nba, deltas, design>>
      BY <1>2, <1>4, <2>2
    <3> QED
      BY <1>1, <3>1 DEF Planned, Merged, Agreeing
  <2>3. CASE pc = "watch"
    <3>1. nba = NoUpdate => past'.damp \/ Agreeing(sig')
      BY <1>1, <1>2, <2>3 DEF Planned
    <3>2. past'.late = {} => sig' = sig /\ past.late = {}
      <4>1. ASSUME past'.late = {} PROVE \A s \in Signal : sig'[s] = sig[s]
        BY <1>2, <2>3, <4>1
      <4> QED
        BY <1>1, <1>2, <4>1 DEF Typed, Valuation
    <3>3. past'.late = {} /\ deltas = 0 => Merged' = past'.plan
      BY <1>1, <1>3, <1>4, <2>3, <3>2 DEF Planned, Merged
    <3> QED
      BY <1>1, <1>3, <1>4, <2>3, <3>1, <3>3 DEF Planned, Agreeing
  <2>4. CASE pc \notin {"watch", "readonly"}
    BY <1>1, <1>3, <1>4, <2>4 DEF Planned, Agreeing
  <2> QED
    BY <2>2, <2>3, <2>4
<1> QED
  BY <1>6, <1>9, <1>10, <1>11 DEF Values

\* A callback is called, or the entry at the head is stale.
LEMMA CallbacksKeepValues ==
  ASSUME Values, Scheduling, TestStarts \/ FireQueued \/ FireWatcher
  PROVE  Values'
<1>1. UNCHANGED <<design, words, pc, clockwork, prev, nba>>
  BY DEF TestStarts, FireQueued, FireWatcher
<1>2. running' \in BOOLEAN
  BY DEF TestStarts, FireQueued, FireWatcher, MayStop, Values, Typed
<1>3. CASE TestStarts
  <2>1. pc = "start"
    BY <1>3 DEF TestStarts
  <2>2. PICK dep \in Deposits \cup {Nothing}, reg \in Registrations :
          MayRegister(reg) /\ Act(dep, reg, {}, queue, active)
    BY <1>3 DEF TestStarts
  <2> QED
    BY <1>1, <1>2, <2>1, <2>2, ActKeepsValues DEF MayRegister
<1>4. ASSUME NEW heap, NEW ids, React(heap, ids)
      PROVE  Values'
  <2>1. PICK dep, reg, victims :
          /\ dep = Nothing \/ (dep \in Deposits /\ pc # "readonly")
          /\ reg = Nothing \/ (reg \in Registrations /\ nextId <= MaxCallbacks)
          /\ Act(dep, reg, victims, heap, ids)
    BY <1>4 DEF React, MayDeposit, MayRegister
  <2> QED
    BY <1>1, <1>2, <2>1, ActKeepsValues
<1>5. CASE FireWatcher
  BY <1>4, <1>5 DEF FireWatcher
<1>6. CASE FireQueued /\ IsActive(Earliest.id)
  BY <1>4, <1>6 DEF FireQueued
<1>7. CASE FireQueued /\ ~IsActive(Earliest.id)
  <2>1. UNCHANGED <<design, words, pc, steps, deltas, running, sig, prev, vch, nextId, nba, past>>
    BY <1>1, <1>7 DEF FireQueued, clockwork
  <2> QED
    BY <2>1 DEF Values, Typed, WordsTyped, PastType, Watched, Unmissed, Edges, Accounted, EdgeSeen,
                Computed, SeqWritten, Planned, Merged, Agreeing, Dom, D
<1> QED
  BY <1>3, <1>5, <1>6, <1>7

-----------------------------------------------------------------------------
\* The parts of the step.

\* Watchers that are left behind were not triggered.
LEMMA CollectLeaves ==
  ASSUME Scheduling, NEW old, NEW new, Collect(old, new)
  PROVE  /\ \A w \in vch' : w \in vch /\ ~Triggers(w.edge, old[w.sig], new[w.sig])
         /\ nextId' = nextId
BY DEF Collect, Unfired, Firing, Scheduling, Bookkeeping, Apart

\* No edge in two changes, no edge in both together.
LEMMA TriggersCompose ==
  ASSUME NEW edge, NEW a, NEW b, NEW c, ~Triggers(edge, a, b), ~Triggers(edge, b, c)
  PROVE  ~Triggers(edge, a, c)
BY DEF Triggers

\* The steps that leave the signals and the callbacks alone.
LEMMA QuietKeepsValues ==
  ASSUME Values, Scheduling,
         RunStarts \/ BeginStep \/ RunEnds \/ ReadWriteNext \/ WatchersDone \/ EndStep \/ Ended
           \/ UNCHANGED vars
  PROVE  Values'
<1>1. UNCHANGED <<design, words, sig, vch, nextId, nba>>
  BY DEF RunStarts, BeginStep, RunEnds, ReadWriteNext, WatchersDone, EndStep, Ended, vars, callbacks
<1>2. SeqWritten' = SeqWritten /\ Dom' = Dom /\ Computed' = Computed /\ \A i \in Dom : D(i)' = D(i)
  BY <1>1 DEF SeqWritten, Dom, Computed, D
<1>3. nextId \in Nat
  BY DEF Scheduling, Bookkeeping, Apart
<1>4. CASE BeginStep
  <2>1. /\ pc' = "normal" /\ steps' = steps + 1 /\ steps < MaxSteps /\ deltas' = 0
        /\ prev' = prev /\ running' = running
        /\ past' = [past EXCEPT !.origin = prev, !.mark = nextId, !.late = {}, !.wet = {}, !.damp = FALSE]
    BY <1>4 DEF BeginStep
  <2>2. past' \in PastType /\ past'.origin = prev /\ past'.mark = nextId
    BY <1>3, <2>1 DEF Values, Typed, PastType
  <2>3. Typed'
    BY <1>1, <1>2, <2>1, <2>2, TestbenchAssumption DEF Values, Typed, WordsTyped, PastType
  <2>4. Watched'
    BY <1>1, <1>3, <2>1, <2>2 DEF Watched
  <2> QED
    BY <2>1, <2>3, <2>4 DEF Values, Edges, Planned
<1>5. CASE RunStarts \/ RunEnds \/ ReadWriteNext
  <2>1. /\ pc' \in {"idle", "stopped", "rw"} /\ (pc' = "rw" => pc = "normal")
        /\ UNCHANGED <<steps, deltas, prev, past>> /\ running' \in {running, FALSE}
    BY <1>5 DEF RunStarts, RunEnds, ReadWriteNext, clockwork
  <2>2. Typed'
    BY <1>1, <1>2, <2>1 DEF Values, Typed, WordsTyped, PastType
  <2>3. Watched'
    BY <1>1, <2>1 DEF Values, Watched
  <2> QED
    BY <2>1, <2>2, <2>3 DEF Values, Edges, Planned
<1>6. CASE WatchersDone
  <2>1. /\ pc = "watch" /\ nba = NoUpdate /\ prev' = sig
        /\ UNCHANGED <<steps, running, past>>
        /\ \/ pc' = "delta" /\ deltas' = deltas + 1 /\ deltas < DeltaLimit
           \/ pc' = "readonly" /\ deltas' = deltas
    BY <1>6 DEF WatchersDone, MayRepeat
  <2>2. Typed'
    BY <1>1, <1>2, <2>1, TestbenchAssumption DEF Values, Typed, WordsTyped, PastType
  <2>3. Watched'
    BY <1>1, <2>1 DEF Values, Watched, Unmissed
  <2>4. Edges'
    BY <1>1, <1>2, <2>1 DEF Values, Edges, EdgeSeen, Accounted
  <2>5. Merged = sig
    BY <2>1 DEF Merged, NoUpdate, Values, Typed, Valuation
  <2>6. Planned'
    BY <1>1, <2>1, <2>5 DEF Values, Planned, Agreeing
  <2> QED
    BY <2>2, <2>3, <2>4, <2>6 DEF Values
<1>7. CASE EndStep
  <2>1. pc' = "idle" /\ prev' = sig /\ UNCHANGED <<steps, deltas, running, past>>
    BY <1>7 DEF EndStep, clockwork
  <2>2. Typed'
    BY <1>1, <1>2, <2>1 DEF Values, Typed, WordsTyped, PastType
  <2> QED
    BY <1>1, <2>1, <2>2 DEF Values, Watched, Edges, Planned
<1>8. CASE Ended \/ UNCHANGED vars
  <2>1. UNCHANGED <<pc, steps, deltas, running, prev, past>>
    BY <1>8 DEF Ended, vars, clockwork
  <2> QED
    BY <1>1, <2>1 DEF Values, Typed, WordsTyped, PastType, Watched, Unmissed, Edges, Accounted, EdgeSeen,
                Computed, SeqWritten, Planned, Merged, Agreeing, Dom, D
<1> QED
  BY <1>4, <1>5, <1>6, <1>7, <1>8

\* The first evaluation of a step: watchers are compared with the signals the
\* step began with, and every edge since then is accounted for.
LEMMA SettleStepKeepsValues ==
  ASSUME Values, Scheduling, SettleStep
  PROVE  Values'
<1> DEFINE r == Settle(sig)
<1>1. /\ pc = "rw" /\ words' = r.words
      /\ UNCHANGED <<design, steps, deltas, running, prev>>
      /\ design \in Designs /\ WordsTyped /\ sig \in Valuation
  BY DEF SettleStep, SettledTo, clockwork, Values, Typed
<1>2. /\ r.sig \in Valuation /\ WordsOK(design.mems, r.words) /\ r.ran \subseteq Dom
      /\ \A s \in Signal \ Computed : r.sig[s] = sig[s]
      /\ r.exit = "ok" => Agreeing(r.sig)
      /\ HasSeq(design) =>
           \A i \in Dom : EdgeSeen(prev, sig, i) =>
              i \in r.ran \/ (D(i).style = "async" /\ (ResetActive(D(i), r.sig) \/ D(i).rst \in Computed))
  BY <1>1, SettleFacts
<1>3. SeqWritten' = SeqWritten /\ Dom' = Dom /\ Computed' = Computed /\ \A i \in Dom : D(i)' = D(i)
  BY <1>1 DEF SeqWritten, Dom, Computed, D
<1>4. CASE r.exit # "ok"
  <2>1. pc' = "raised" /\ sig' = r.sig /\ UNCHANGED <<nextId, nba, past>>
    BY <1>4 DEF SettleStep, SettledTo, callbacks
  <2>2. Typed'
    BY <1>1, <1>2, <1>3, <2>1 DEF Values, Typed, WordsTyped, PastType
  <2> QED
    BY <2>1, <2>2 DEF Values, Watched, Edges, Planned
<1>5. CASE r.exit = "ok"
  <2> DEFINE kept == [s \in Signal |-> IF s \in DOMAIN nba' THEN sig[s] ELSE r.sig[s]]
  <2>1. /\ pc' = "watch" /\ nba' = Staged(r) /\ sig' = kept /\ Collect(prev, sig')
        /\ past' = [past EXCEPT !.ran = r.ran, !.plan = r.sig]
    BY <1>5 DEF SettleStep, SettledTo
  <2>2. /\ past' \in PastType /\ past'.origin = past.origin /\ past'.mark = past.mark
        /\ past'.ran = r.ran /\ past'.plan = r.sig /\ past'.wet = past.wet
    BY <1>2, <2>1 DEF Values, Typed, PastType
  <2>3. /\ DOMAIN nba' \subseteq SeqWritten /\ nba' \in [DOMAIN nba' -> Value]
        /\ \A s \in DOMAIN nba' : nba'[s] = r.sig[s]
    <3>1. SeqWritten \subseteq Signal
      BY <1>1, ComputedFacts, DesignFacts
    <3>2. nba' = [s \in { x \in SeqWritten : r.sig[x] # sig[x] } |-> r.sig[s]]
      BY <2>1 DEF Staged
    <3> HIDE DEF r
    <3> QED
      BY <1>2, <3>1, <3>2 DEF Valuation
  <2>4. sig' \in Valuation
    BY <1>1, <1>2, <2>1 DEF Valuation
  <2>5. /\ \A w \in vch' : w \in vch /\ ~Triggers(w.edge, prev[w.sig], sig'[w.sig])
        /\ nextId' = nextId
    BY <2>1, CollectLeaves
  <2>6. prev = past.origin
    BY <1>1 DEF Values, Watched
  <2> HIDE DEF r
  <2>7. Typed'
    BY <1>1, <1>2, <1>3, <2>1, <2>2, <2>3, <2>4, <2>5 DEF Values, Typed, WordsTyped, PastType
  <2>8. Watched'
    BY <2>1, <2>2, <2>5, <2>6 DEF Values, Watched, Unmissed
  <2>9. Edges'
    <3> SUFFICES ASSUME HasSeq(design), NEW i \in Dom, EdgeSeen(past'.origin, sig', i),
                        D(i).clk \notin past'.late \cup Computed
                 PROVE  Accounted(i)'
      BY <1>1, <1>3 DEF Edges, EdgeSeen
    <3>1. D(i).clk \in Signal
      BY <1>1, DesignFacts DEF DomainOK
    <3>2. sig'[D(i).clk] = sig[D(i).clk]
      BY <1>2, <2>1, <3>1
    <3>3. EdgeSeen(prev, sig, i)
      BY <2>2, <2>6, <3>2 DEF EdgeSeen
    <3> QED
      BY <1>2, <1>3, <2>2, <3>3 DEF Accounted
  <2>10. Merged' = r.sig
    <3>1. \A s \in Signal : (IF s \in DOMAIN nba' THEN nba'[s] ELSE sig'[s]) = r.sig[s]
      BY <2>1, <2>3
    <3>2. Merged' = [s \in Signal |-> r.sig[s]]
      BY <3>1 DEF Merged
    <3> QED
      BY <1>2, <3>2 DEF Valuation
  <2>11. ASSUME nba' = NoUpdate PROVE sig' = r.sig
    <3>1. DOMAIN nba' = {}
      BY <2>11 DEF NoUpdate
    <3> QED
      BY <1>2, <2>1, <3>1 DEF Valuation
  <2>12. Planned'
    BY <1>1, <1>2, <1>5, <2>1, <2>2, <2>10, <2>11 DEF Planned, Agreeing
  <2> QED
    BY <2>7, <2>8, <2>9, <2>12 DEF Values
<1> QED
  BY <1>4, <1>5

\* Settling the components again, after the updates or in a delta cycle, with
\* the watchers compared with old: S is what the components are settled from.
LEMMA ResettledKeepsValues ==
  ASSUME Values, Scheduling, NEW old \in Valuation, NEW S \in Valuation,
         Resettled(old, Resettle(S)), pc \in {"watch", "delta"},
         prev' \in Valuation, nba' = NoUpdate, Unmissed(old),
         \A s \in Signal \ Computed : S[s] = sig[s],
         past.late = {} /\ deltas = 0 => S = past.plan
  PROVE  Values'
<1> DEFINE r == SettleComb(S)
<1>1. /\ UNCHANGED <<design, words, steps, deltas, running>> /\ sig' = r.sig
      /\ design \in Designs /\ WordsTyped
  BY DEF Resettled, Resettle, clockwork, Values, Typed
<1>2. /\ r \in Outcome /\ r.sig \in Valuation
      /\ \A s \in Signal \ Computed : r.sig[s] = S[s]
      /\ r.exit = "ok" => Agreeing(r.sig)
  <2>1. r \in Outcome /\ \A s \in Signal \ CompWritten(design) : r.sig[s] = S[s]
    BY <1>1, SettleCombWrites
  <2> QED
    BY <1>1, <2>1, OutcomeParts, OnePassSettles DEF Computed
<1>3. SeqWritten' = SeqWritten /\ Dom' = Dom /\ Computed' = Computed /\ \A i \in Dom : D(i)' = D(i)
  BY <1>1 DEF SeqWritten, Dom, Computed, D
<1>4. nba' \in [DOMAIN nba' -> Value] /\ DOMAIN nba' = {}
  BY DEF NoUpdate
<1>5. past.late = {} /\ deltas = 0 => r.sig = past.plan
  <2>1. ASSUME past.late = {}, deltas = 0 PROVE Agreeing(S) /\ S = past.plan
    BY <2>1 DEF Values, Planned
  <2> QED
    BY <1>1, <2>1, SettledStays, OutcomeParts
<1> HIDE DEF r
<1>6. CASE r.exit # "ok"
  <2>1. pc' = "raised" /\ UNCHANGED <<nextId, past>>
    BY <1>6 DEF Resettled, Resettle, callbacks, r
  <2>2. Typed'
    BY <1>1, <1>2, <1>3, <1>4, <2>1 DEF Values, Typed, WordsTyped, PastType
  <2> QED
    BY <2>1, <2>2 DEF Values, Watched, Edges, Planned
<1>7. CASE r.exit = "ok"
  <2>1. pc' = "watch" /\ Collect(old, sig') /\ past' = [past EXCEPT !.damp = FALSE]
    BY <1>7 DEF Resettled, Resettle, r
  <2>2. /\ past' \in PastType /\ past'.origin = past.origin /\ past'.mark = past.mark
        /\ past'.ran = past.ran /\ past'.plan = past.plan /\ past'.late = past.late
        /\ past'.wet = past.wet
    BY <2>1 DEF Values, Typed, PastType
  <2>3. /\ \A w \in vch' : w \in vch /\ ~Triggers(w.edge, old[w.sig], sig'[w.sig])
        /\ nextId' = nextId
    BY <2>1, CollectLeaves
  <2>4. Typed'
    BY <1>1, <1>2, <1>3, <1>4, <2>1, <2>2, <2>3 DEF Values, Typed, WordsTyped, PastType
  <2>5. ASSUME NEW w \in vch', w.id < past.mark, w.sig \notin past.wet
        PROVE  ~Triggers(w.edge, past.origin[w.sig], sig'[w.sig])
    <3>1. ~Triggers(w.edge, past.origin[w.sig], old[w.sig])
      BY <2>3, <2>5 DEF Unmissed
    <3> QED
      BY <2>3, <3>1, TriggersCompose
  <2>6. Watched'
    BY <2>1, <2>2, <2>3, <2>5 DEF Values, Watched, Unmissed
  <2>7. Edges'
    <3> SUFFICES ASSUME HasSeq(design), NEW i \in Dom, EdgeSeen(past.origin, sig', i),
                        D(i).clk \notin past.late \cup Computed
                 PROVE  Accounted(i)'
      BY <1>1, <1>3, <2>2 DEF Edges, EdgeSeen
    <3>1. D(i).clk \in Signal
      BY <1>1, DesignFacts DEF DomainOK
    <3>2. sig'[D(i).clk] = sig[D(i).clk]
      BY <1>1, <1>2, <3>1
    <3>3. EdgeSeen(past.origin, sig, i)
      BY <3>2 DEF EdgeSeen
    <3>4. Accounted(i)
      BY <3>3 DEF Values, Edges
    <3> QED
      BY <1>3, <2>2, <3>4 DEF Accounted
  <2>8. Merged' = sig'
    BY <1>1, <1>2, <1>4 DEF Merged, Valuation
  <2>9. Agreeing(past.plan) /\ Agreeing(sig')
    BY <1>1, <1>2, <1>7 DEF Values, Planned
  <2>10. Planned'
    BY <1>1, <1>5, <2>1, <2>2, <2>8, <2>9 DEF Planned, Agreeing
  <2> QED
    BY <2>4, <2>6, <2>7, <2>10 DEF Values
<1> QED
  BY <1>6, <1>7

\* Applying the staged updates keeps the invariant of the values.
LEMMA ApplyUpdatesKeepsValues ==
  ASSUME Values, Scheduling, ApplyUpdates
  PROVE  Values'
<1>1. /\ pc = "watch" /\ nba' = NoUpdate /\ prev' = sig /\ Resettled(sig, Resettle(Merged))
      /\ design \in Designs /\ sig \in Valuation
      /\ nba \in [DOMAIN nba -> Value] /\ DOMAIN nba \subseteq SeqWritten
  BY DEF ApplyUpdates, Merged, Values, Typed
<1>2. Merged \in Valuation
  BY <1>1 DEF Merged, Valuation
<1>3. \A s \in Signal \ Computed : Merged[s] = sig[s]
  BY <1>1 DEF Merged, Computed
<1>4. Unmissed(sig) /\ (past.late = {} /\ deltas = 0 => Merged = past.plan)
  BY <1>1 DEF Values, Watched, Planned
<1> QED
  BY <1>1, <1>2, <1>3, <1>4, ResettledKeepsValues

\* So does a delta cycle.
LEMMA SettleDeltaKeepsValues ==
  ASSUME Values, Scheduling, SettleDelta
  PROVE  Values'
<1>1. /\ pc = "delta" /\ UNCHANGED <<prev, nba>> /\ Resettled(prev, Resettle(sig))
      /\ sig \in Valuation /\ prev \in Valuation /\ deltas > 0
  BY DEF SettleDelta, Values, Typed
<1>2. nba = NoUpdate
  BY <1>1 DEF Values, Planned
<1>3. Unmissed(prev) /\ deltas \in Nat
  BY <1>1 DEF Values, Watched, Typed
<1> QED
  BY <1>1, <1>2, <1>3, ResettledKeepsValues

-----------------------------------------------------------------------------
\* The theorems about the values.

\* The invariant holds when the engine is made.
LEMMA ValuesInit == Init => Values
<1> SUFFICES ASSUME Init PROVE Values
  OBVIOUS
<1>1. design \in Designs /\ words = InitWords(design.mems) /\ sig \in design.starts /\ prev = sig
  BY DEF Init
<1>2. sig \in Valuation
  BY <1>1, DesignAssumption DEF DesignOK
<1>3. WordsTyped
  BY <1>1, MemoryAssumption DEF InitWords, WordsTyped, WordsOK, MemoriesOK, MemoryOK
<1>4. /\ pc = "start" /\ steps = 0 /\ deltas = 0 /\ running = TRUE /\ nextId = 1 /\ nba = NoUpdate
      /\ past = [origin |-> sig, mark |-> 1, ran |-> {}, plan |-> sig,
                 late |-> {}, wet |-> {}, damp |-> FALSE]
  BY DEF Init
<1>5. past \in PastType /\ past.mark = 1
  BY <1>2, <1>4 DEF PastType
<1>6. nba \in [DOMAIN nba -> Value] /\ DOMAIN nba \subseteq SeqWritten
  BY <1>4 DEF NoUpdate
<1>7. Typed
  BY <1>1, <1>2, <1>3, <1>4, <1>5, <1>6, TestbenchAssumption DEF Typed
<1> QED
  BY <1>4, <1>5, <1>7 DEF Values, Watched, Edges, Planned

\* Every step keeps the invariant of the values, given that of the scheduler.
LEMMA ValuesStep == Values /\ Scheduling /\ [Next]_vars => Values'
<1> SUFFICES ASSUME Values, Scheduling, [Next]_vars PROVE Values'
  OBVIOUS
<1>1. CASE TestStarts \/ FireQueued \/ FireWatcher
  BY <1>1, CallbacksKeepValues
<1>2. CASE RunStarts \/ BeginStep \/ RunEnds \/ ReadWriteNext \/ WatchersDone \/ EndStep
             \/ Ended \/ UNCHANGED vars
  BY <1>2, QuietKeepsValues
<1>3. CASE SettleStep
  BY <1>3, SettleStepKeepsValues
<1>4. CASE ApplyUpdates
  BY <1>4, ApplyUpdatesKeepsValues
<1>5. CASE SettleDelta
  BY <1>5, SettleDeltaKeepsValues
<1> QED
  BY <1>1, <1>2, <1>3, <1>4, <1>5 DEF Next

\* Signals, words and staged updates keep their types, and the histories say
\* what they are meant to say, in every state.
THEOREM ValuesCorrect == Spec => []Values
<1> QED
  BY ValuesInit, ValuesStep, SchedulingCorrect, PTL DEF Spec

\* The variables of the scheduler have their types.
THEOREM CocotbTypeCorrect == Spec => []TypeOK
<1>1. Values /\ Scheduling => TypeOK
  <2> SUFFICES ASSUME Values, Scheduling PROVE TypeOK
    OBVIOUS
  <2>1. nextId \in Nat \ {0} /\ nextId <= MaxCallbacks + 1 /\ MaxCallbacks \in Nat
    BY TestbenchAssumption DEF Values, Typed, Scheduling, Bookkeeping, Apart
  <2>2. 1 .. nextId - 1 \subseteq Ids /\ nextId \in 1 .. MaxCallbacks + 1
    BY <2>1 DEF Ids
  <2>3. queue \subseteq [time : Nat, phase : {Normal, ReadWrite, ReadOnly}, id : Ids]
    BY <2>2 DEF Scheduling, Bookkeeping, Apart, QueueEntry
  <2>4. vch \subseteq [sig : Signal, edge : {"any", "rising", "falling"}, id : Ids]
    BY <2>2 DEF Scheduling, Bookkeeping, Apart, WatchEntry
  <2>5. toFire \subseteq [rank : Ids, id : Ids] /\ active \subseteq Ids
    BY <2>2 DEF Scheduling, Bookkeeping, Apart, FireEntry
  <2>6. \A s \in DOMAIN nba : s \in Signal /\ nba[s] \in Value
    BY ComputedFacts, DesignFacts DEF Values, Typed
  <2> QED
    BY <2>2, <2>3, <2>4, <2>5, <2>6 DEF Values, Typed, Scheduling, Timely, TypeOK
<1> QED
  BY <1>1, ValuesCorrect, SchedulingCorrect, PTL

\* A watcher that was there when the step began and is there when its ReadOnly
\* phase comes has missed nothing.
THEOREM NothingIsMissed == Spec => []NoChangeMissed
<1>1. Values => NoChangeMissed
  BY DEF Values, Watched, Unmissed, NoChangeMissed
<1> QED
  BY <1>1, ValuesCorrect, PTL

\* Every edge that callbacks make on a clock of their own runs its domain, or
\* finds it held by its asynchronous reset.
THEOREM EdgesAreSeen == Spec => []DrivenEdgeRuns
<1>1. Values => DrivenEdgeRuns
  BY DEF Values, Edges, Accounted, DrivenEdgeRuns
<1> QED
  BY <1>1, ValuesCorrect, PTL

\* ReadOnly callbacks see components that agree with what they read.
THEOREM ReadOnlySeesSettled == Spec => []ReadOnlySettled
<1>1. Values => ReadOnlySettled
  <2> SUFFICES ASSUME Values, pc = "readonly", ~past.damp PROVE sig = SettleComb(sig).sig
    BY DEF ReadOnlySettled
  <2>1. Agreeing(sig) /\ design \in Designs /\ sig \in Valuation
    BY DEF Values, Planned, Typed
  <2> QED
    BY <2>1, SettledStays, OutcomeParts
<1> QED
  BY <1>1, ValuesCorrect, PTL

\* Staging the sequential results, calling the watchers and applying the results
\* ends where the evaluation did, unless somebody has deposited.
THEOREM StagingIsInvisible == Spec => []StagingInvisible
<1>1. Values => StagingInvisible
  BY DEF Values, Planned, Typed, StagingInvisible
<1> QED
  BY <1>1, ValuesCorrect, PTL
=============================================================================
