----------------------------- MODULE CocotbStep -----------------------------
(***************************************************************************)
(* The scheduler of the cocotb backend, class SimulationEngine of          *)
(* backends/cocotb_backend.py: a queue of callbacks ordered by time, phase *)
(* and age, watchers of value changes, and a step that fires them around   *)
(* one evaluation of the design.                                           *)
(*                                                                         *)
(* A callback is a piece of a cocotb testbench.  When called it deposits   *)
(* one value or deregisters one callback, or neither; then it registers at *)
(* most one; and it may stop the simulator.  cocotb lets a callback of the *)
(* ReadOnly phase neither deposit nor wait for ReadWrite or ReadOnly, and  *)
(* its delays are at least one time step.                                  *)
(*                                                                         *)
(* A design is one of Netlist with a field "order", its combinational      *)
(* blocks in dependency order; its "mems" are those of Memory.             *)
(***************************************************************************)
EXTENDS Memory, Components

CONSTANTS
  DeltaLimit,     \* the delta cycles of one step, 100 in the code
  MaxSteps,       \* max_steps of run()
  MaxAtStart,     \* bound on the callbacks registered before the run begins
  MaxCallbacks,   \* bound on the callbacks registered in all
  Deposits,       \* the deposits it makes, a set of [sig, value]
  Registrations   \* what it registers, a set of [kind, delay, sig, edge]

ASSUME TestbenchAssumption ==
  /\ Deposits \subseteq [sig : Signal, value : Value]
  /\ Registrations \subseteq [kind : {"timed", "next", "rw", "ro", "watch"}, delay : Nat \ {0},
                              sig : Signal, edge : {"any", "rising", "falling"}]
  /\ DeltaLimit \in Nat /\ MaxSteps \in Nat /\ MaxCallbacks \in Nat

VARIABLES
  design, words,
  pc,        \* where the step is
  time,      \* _sim_time
  steps,     \* the steps run() has made
  running,   \* _running
  sig,       \* _signals
  prev,      \* _prev_signals
  queue,     \* _callback_queue: entries [time, phase, id]
  vch,       \* _vch_callbacks: watchers [sig, edge, id]
  keys,      \* the dictionary's order: the callback that brought each signal in
  active,    \* _active_callbacks
  nextId,    \* _next_cb_id, which also orders the entries of the heap
  toFire,    \* callbacks_to_fire: the watchers still to be called, [rank, id]
  nba,       \* the staged updates, a function on a set of signals
  deltas,    \* the delta cycles of this step
  called,    \* history: the callbacks called so far
  gone,      \* history: those deregistered before they were to fire
  past       \* history of the step, for the properties

clockwork == <<time, steps, deltas>>
callbacks == <<queue, vch, keys, active, nextId, called, gone>>
vars == <<design, words, pc, clockwork, running, sig, prev, callbacks, toFire, nba, past>>

Normal == 0
ReadWrite == 1
ReadOnly == 2

Nothing == [kind |-> "none"]
NoUpdate == [s \in {} |-> 0]

Dom == 1 .. Len(design.domains)
D(i) == design.domains[i]

-----------------------------------------------------------------------------
\* The evaluation of the design.

ASSUME OrderAssumption == \A d \in Designs : OrderOK(d)

ASSUME MemoryAssumption == \A d \in Designs : MemoriesOK(d.mems)

\* The combinational blocks, in order, until one raises.
SettleComb(S) ==
  Through([k \in 1 .. Len(design.order) |-> Then(design.order[k])], Ok(S))

\* Mutant: the components are not settled again.
NotResettled(S) == Ok(S)

\* The components alone, after the updates and in delta cycles.
Resettle(S) == SettleComb(S)

\* A domain whose clock moved since the snapshot, the way its edge asks.
EdgeSeen(old, new, i) ==
  /\ old[D(i).clk] # new[D(i).clk]
  /\ EdgeFires(D(i).edge, new[D(i).clk])

\* Mutant: a synchronous reset holds its domain too.
AnyReset(i, S) == D(i).style # "none" /\ ResetActive(D(i), S)

HoldsReset(i, S) == D(i).style = "async" /\ ResetActive(D(i), S)

\* Asynchronous resets, in the order of the domains: the signals they leave
\* and the domains they hold.
AsyncResets(S) ==
  LET Hold(i) ==
        [r \in [sig : Valuation, held : SUBSET Dom] |->
           IF HoldsReset(i, r.sig)
           THEN [sig |-> ApplyReset(D(i), design.init, r.sig), held |-> r.held \cup {i}]
           ELSE r]
  IN  Through([i \in Dom |-> Hold(i)], [sig |-> S, held |-> {}])

\* The sequential blocks of the domains of a set, in place.
RunDomains(S, set) ==
  LET Run(i) ==
        [r \in Outcome |->
           IF i \notin set \/ r.exit # "ok" THEN r
           ELSE IF D(i).style = "sync" /\ ResetActive(D(i), r.sig)
                THEN Ok(ApplyReset(D(i), design.init, r.sig))
                ELSE Exec(D(i).block, r.sig)]
  IN  Through([i \in Dom |-> Run(i)], Ok(S))

\* Without sequential logic no edge is looked for and no memory is read.
SeqWritten == IF HasSeq(design) THEN UNION { D(i).written : i \in Dom } ELSE {}

\* What a run of the design leaves: its outcome, the words, the domains that ran.
SettledAs(r, w, ran) == [sig |-> r.sig, exit |-> r.exit, words |-> w, ran |-> ran]

\* The memory ports and the components, after the domains of firing ran.
AfterRun(run, firing) ==
  LET names  == { D(i).name : i \in firing }
      stored == MemWrites(design.mems, words, run.sig, names)
  IN  IF run.exit # "ok" THEN SettledAs(run, words, firing)
      ELSE SettledAs(SettleComb(MemReads(design.mems, stored, run.sig, names)), stored, firing)

AfterResets(S, reset) ==
  LET firing == { i \in Dom : EdgeSeen(prev, S, i) } \ reset.held
  IN  AfterRun(RunDomains(reset.sig, firing), firing)

\* _settle: the signals and words it leaves and the domains that ran.
Settle(S) ==
  IF HasSeq(design) THEN AfterResets(S, AsyncResets(S))
  ELSE SettledAs(SettleComb(S), words, {})

-----------------------------------------------------------------------------
\* The queue and the watchers.

\* Mutant: entries of one time are ordered by age alone.
PrecedesByAge(e, f) == e.time < f.time \/ (e.time = f.time /\ e.id < f.id)

Precedes(e, f) ==
  \/ e.time < f.time
  \/ e.time = f.time /\ e.phase < f.phase
  \/ e.time = f.time /\ e.phase = f.phase /\ e.id < f.id

\* The head of the heap.
Earliest == CHOOSE e \in queue : \A f \in queue \ {e} : Precedes(e, f)

\* _has_phase_at_current_time: only the head of the heap is looked at.
HasPhase(phase) == queue # {} /\ Earliest.time = time /\ Earliest.phase = phase

Entry(reg, id) ==
  LET At(t, phase) == {[time |-> t, phase |-> phase, id |-> id]}
  IN  CASE reg.kind = "timed" -> At(time + reg.delay, Normal)
        [] reg.kind = "next"  -> At(time + 1, Normal)
        [] reg.kind = "rw"    -> At(time, ReadWrite)
        [] reg.kind = "ro"    -> At(time, ReadOnly)
        [] OTHER              -> {}

Watcher(reg, id) ==
  IF reg.kind = "watch" THEN {[sig |-> reg.sig, edge |-> reg.edge, id |-> id]} ELSE {}

\* A dictionary keeps the order its keys came in.
SignalsOf(watchers) == { w.sig : w \in watchers }

WithKeys(order, watchers) ==
  [s \in DOMAIN order \cap SignalsOf(watchers) |-> order[s]]

NewKeys(order, watchers, id) ==
  [s \in DOMAIN order \cup SignalsOf(watchers) |-> IF s \in DOMAIN order THEN order[s] ELSE id]

\* A change of this kind fires a watcher of this edge.
Triggers(edge, old, new) ==
  \/ edge = "any" /\ old # new
  \/ edge = "rising" /\ old = 0 /\ new # 0
  \/ edge = "falling" /\ old # 0 /\ new = 0

\* Mutant: only the first watcher of a signal that moves fires.
FiringFirst(old, new) ==
  { w \in vch : /\ w.id \in active /\ Triggers(w.edge, old[w.sig], new[w.sig])
                /\ \A x \in vch : x.sig = w.sig => w.id <= x.id }

Firing(old, new) ==
  { w \in vch : w.id \in active /\ Triggers(w.edge, old[w.sig], new[w.sig]) }

\* Mutant: a watcher that fires goes on watching.
KeepsWatching(firing) == vch

Unfired(firing) == vch \ firing

\* _check_value_changes up to its first call: the watchers that fire leave
\* the dictionary and the active callbacks, all at once.  They will be called
\* signal by signal, in the order of the dictionary, and by age.
Collect(old, new) ==
  LET firing == Firing(old, new)
  IN  /\ toFire' = { [rank |-> keys[w.sig], id |-> w.id] : w \in firing }
      /\ vch' = Unfired(firing)
      /\ keys' = WithKeys(keys, vch')
      /\ active' = active \ { w.id : w \in firing }
      /\ UNCHANGED <<queue, nextId, called, gone>>

Collected == { f.id : f \in toFire }

Foremost ==
  CHOOSE f \in toFire : \A g \in toFire \ {f} :
    f.rank < g.rank \/ (f.rank = g.rank /\ f.id < g.id)

-----------------------------------------------------------------------------
\* What the testbench does when one of its callbacks is called.

MayDeposit == pc # "readonly"
MayRegister(reg) ==
  /\ nextId <= MaxCallbacks
  /\ pc = "readonly" => reg.kind \notin {"rw", "ro"}

\* heap and ids: what the call of the callback itself leaves of the queue and
\* of the active callbacks.
Act(dep, reg, victims, heap, ids) ==
  LET left == { w \in vch : w.id \notin victims }
  IN  /\ sig' = IF dep = Nothing THEN sig ELSE [sig EXCEPT ![dep.sig] = dep.value]
      /\ queue' = heap \cup Entry(reg, nextId)
      /\ vch' = left \cup Watcher(reg, nextId)
      /\ keys' = NewKeys(WithKeys(keys, left), Watcher(reg, nextId), nextId)
      /\ active' = (ids \ victims) \cup (IF reg = Nothing THEN {} ELSE {nextId})
      /\ nextId' = IF reg = Nothing THEN nextId ELSE nextId + 1
      /\ gone' = gone \cup (victims \ Collected')
      /\ past' = IF dep = Nothing THEN past
                 ELSE [past EXCEPT !.late = @ \cup IF pc \in {"watch", "delta"} THEN {dep.sig} ELSE {},
                                   !.wet  = @ \cup IF pc = "watch" THEN {dep.sig} ELSE {},
                                   !.damp = @ \/ pc = "watch"]

React(heap, ids) ==
  \E dep \in {Nothing} \cup (IF MayDeposit THEN Deposits ELSE {}) :
  \E reg \in {Nothing} \cup { r \in Registrations : MayRegister(r) } :
  \E victims \in {{}} \cup { {v} : v \in ids \cup Collected' } :
     (dep = Nothing \/ victims = {}) /\ Act(dep, reg, victims, heap, ids)

\* stop_simulator, called or not.
MayStop == running' \in {running, FALSE}

-----------------------------------------------------------------------------
\* The step.

Init ==
  /\ design \in Designs
  /\ words = InitWords(design.mems)
  /\ sig \in design.starts /\ prev = sig
  /\ pc = "start" /\ time = 0 /\ steps = 0 /\ deltas = 0 /\ running = TRUE
  /\ queue = {} /\ vch = {} /\ keys = NoUpdate /\ active = {} /\ nextId = 1
  /\ toFire = {} /\ nba = NoUpdate
  /\ called = {} /\ gone = {}
  /\ past = [origin |-> sig, mark |-> 1, ran |-> {}, plan |-> sig,
             late |-> {}, wet |-> {}, damp |-> FALSE]

\* start_regression runs the first test until it waits; then run() begins.
TestStarts ==
  /\ pc = "start" /\ nextId <= MaxAtStart
  /\ toFire' = {}
  /\ \E dep \in Deposits \cup {Nothing}, reg \in Registrations :
       MayRegister(reg) /\ Act(dep, reg, {}, queue, active)
  /\ UNCHANGED <<design, words, pc, clockwork, running, prev, nba, called>>

RunStarts ==
  /\ pc = "start" /\ pc' = "idle"
  /\ UNCHANGED <<design, words, clockwork, running, sig, prev, callbacks, toFire, nba, past>>

\* With watchers alone time moves by one.
BeginStep ==
  /\ pc = "idle" /\ running /\ steps < MaxSteps
  /\ queue # {} \/ vch # {}
  /\ pc' = "normal"
  /\ time' = IF queue # {} THEN Earliest.time ELSE time + 1
  /\ steps' = steps + 1 /\ deltas' = 0
  /\ past' = [past EXCEPT !.origin = prev, !.mark = nextId, !.late = {}, !.wet = {},
                          !.damp = FALSE]
  /\ UNCHANGED <<design, words, running, sig, prev, callbacks, toFire, nba>>

RunEnds ==
  /\ pc = "idle"
  /\ ~running \/ steps = MaxSteps \/ (queue = {} /\ vch = {})
  /\ pc' = "stopped" /\ running' = FALSE
  /\ UNCHANGED <<design, words, clockwork, sig, prev, callbacks, toFire, nba, past>>

Phase == CASE pc = "normal"   -> Normal
           [] pc = "rw"       -> ReadWrite
           [] pc = "delta"    -> ReadWrite
           [] pc = "readonly" -> ReadOnly

InPhase == pc \in {"normal", "rw", "delta", "readonly"}

\* Mutant: a callback is called although it has been deregistered.
CalledAnyway(id) == TRUE

IsActive(id) == id \in active

\* _fire_phase: one turn of its loop.
FireQueued ==
  /\ InPhase /\ HasPhase(Phase)
  /\ toFire' = toFire
  /\ IF IsActive(Earliest.id)
     THEN /\ called' = called \cup {Earliest.id}
          /\ React(queue \ {Earliest}, active \ {Earliest.id}) /\ MayStop
     ELSE /\ queue' = queue \ {Earliest}
          /\ UNCHANGED <<running, sig, vch, keys, active, nextId, called, gone, past>>
  /\ UNCHANGED <<design, words, pc, clockwork, prev, nba>>

ReadWriteNext ==
  /\ pc = "normal" /\ ~HasPhase(Normal)
  /\ pc' = "rw"
  /\ UNCHANGED <<design, words, clockwork, running, sig, prev, callbacks, toFire, nba, past>>

\* Mutant: the values are staged after they have been taken back.
StagedLate(r) == [s \in { x \in SeqWritten : r.sig[x] # sig[x] } |-> sig[s]]

\* What the sequential blocks changed is taken back and staged; everything
\* else, the components included, stays as _settle left it.
Staged(r) == [s \in { x \in SeqWritten : r.sig[x] # sig[x] } |-> r.sig[s]]

\* The design settled to r: with the updates staged, the watchers are collected,
\* unless a block raised.
SettledTo(r) ==
  /\ words' = r.words
  /\ IF r.exit = "ok"
     THEN /\ pc' = "watch"
          /\ nba' = Staged(r)
          /\ sig' = [s \in Signal |-> IF s \in DOMAIN nba' THEN sig[s] ELSE r.sig[s]]
          /\ past' = [past EXCEPT !.ran = r.ran, !.plan = r.sig]
          /\ Collect(prev, sig')
     ELSE /\ pc' = "raised" /\ sig' = r.sig
          /\ UNCHANGED <<callbacks, toFire, nba, past>>
  /\ UNCHANGED <<design, clockwork, running, prev>>

SettleStep == pc = "rw" /\ ~HasPhase(ReadWrite) /\ SettledTo(Settle(sig))

\* The collected watchers are called without a look at the active callbacks.
FireWatcher ==
  /\ pc = "watch" /\ toFire # {}
  /\ toFire' = toFire \ {Foremost}
  /\ called' = called \cup {Foremost.id}
  /\ React(queue, active) /\ MayStop
  /\ UNCHANGED <<design, words, pc, clockwork, prev, nba>>

\* The components settled to r: the watchers of what changed since old are
\* collected, unless a block raised.
Resettled(old, r) ==
  /\ sig' = r.sig
  /\ IF r.exit = "ok"
     THEN /\ pc' = "watch" /\ Collect(old, sig')
          /\ past' = [past EXCEPT !.damp = FALSE]
     ELSE pc' = "raised" /\ UNCHANGED <<callbacks, toFire, past>>
  /\ UNCHANGED <<design, words, clockwork, running>>

\* The staged updates take effect, on top of what the watchers deposited.
ApplyUpdates ==
  /\ pc = "watch" /\ toFire = {} /\ nba # NoUpdate
  /\ nba' = NoUpdate /\ prev' = sig
  /\ Resettled(sig, Resettle([s \in Signal |-> IF s \in DOMAIN nba THEN nba[s] ELSE sig[s]]))

\* Mutant: one delta cycle too many.
PastLimit == HasPhase(ReadWrite) /\ deltas <= DeltaLimit

MayRepeat == HasPhase(ReadWrite) /\ deltas < DeltaLimit

\* A delta cycle begins if ReadWrite callbacks wait and the limit allows.
WatchersDone ==
  /\ pc = "watch" /\ toFire = {} /\ nba = NoUpdate
  /\ prev' = sig
  /\ IF MayRepeat
     THEN pc' = "delta" /\ deltas' = deltas + 1
     ELSE pc' = "readonly" /\ UNCHANGED deltas
  /\ UNCHANGED <<design, words, time, steps, running, sig, callbacks, toFire, nba, past>>

\* A delta cycle settles the components alone.
SettleDelta ==
  /\ pc = "delta" /\ ~HasPhase(ReadWrite)
  /\ Resettled(prev, Resettle(sig))
  /\ UNCHANGED <<prev, nba>>

EndStep ==
  /\ pc = "readonly" /\ ~HasPhase(ReadOnly)
  /\ pc' = "idle" /\ prev' = sig
  /\ UNCHANGED <<design, words, clockwork, running, sig, callbacks, toFire, nba, past>>

Ended == pc \in {"stopped", "raised"} /\ UNCHANGED vars

Next ==
  \/ TestStarts \/ RunStarts \/ BeginStep \/ RunEnds
  \/ FireQueued \/ ReadWriteNext \/ SettleStep \/ FireWatcher \/ ApplyUpdates
  \/ WatchersDone \/ SettleDelta \/ EndStep \/ Ended

Spec == Init /\ [][Next]_vars

-----------------------------------------------------------------------------
\* Properties.

Ids == 1 .. MaxCallbacks
Queued == { e.id : e \in queue }
Watching == { w.id : w \in vch }

TypeOK ==
  /\ pc \in {"start", "idle", "normal", "rw", "watch", "delta", "readonly", "stopped", "raised"}
  /\ time \in Nat /\ steps \in 0 .. MaxSteps /\ deltas \in 0 .. DeltaLimit
  /\ sig \in Valuation /\ prev \in Valuation /\ running \in BOOLEAN
  /\ queue \subseteq [time : Nat, phase : {Normal, ReadWrite, ReadOnly}, id : Ids]
  /\ vch \subseteq [sig : Signal, edge : {"any", "rising", "falling"}, id : Ids]
  /\ nextId \in 1 .. MaxCallbacks + 1
  /\ toFire \subseteq [rank : Ids, id : Ids] /\ active \subseteq Ids
  /\ \A s \in DOMAIN nba : s \in Signal /\ nba[s] \in Value

\* A callback is in one place: the heap, a watcher list, or collected; once it
\* has been called it is nowhere.  So it is called at most once ("VCH callbacks
\* are one-shot", _check_value_changes), whatever callbacks register and
\* deregister in between.
OneShot ==
  /\ Queued \cap Watching = {}
  /\ Collected \cap (Queued \cup Watching) = {}
  /\ called \cap (Queued \cup Watching \cup Collected) = {}
  /\ \A e, f \in queue : e.id = f.id => e = f
  /\ \A w, x \in vch : w.id = x.id => w = x
  /\ \A f, g \in toFire : f.id = g.id => f = g
  /\ SignalsOf(vch) = DOMAIN keys

\* A deregistered callback is never called, unless it was a watcher already
\* collected for the change under way (DauSimCallback.deregister).
DeregisteredSilent == gone \cap (called \cup active \cup Collected) = {}

\* When a step ends no callback of its time is left, except those beyond the
\* delta limit: no trigger of this time is heard at a later time.
NothingLeftBehind ==
  pc = "idle" /\ steps > 0 /\ deltas < DeltaLimit => \A e \in queue : e.time > time

\* ReadOnly callbacks see components that agree with the signals they read,
\* unless a watcher has deposited a value that nothing settled since.
ReadOnlySettled ==
  pc = "readonly" /\ ~past.damp => sig = SettleComb(sig).sig

\* Taking sequential results back and reapplying them leaves what _settle
\* computed, unless a watcher has deposited in between.
StagingInvisible ==
  pc \in {"delta", "readonly"} /\ nba = NoUpdate /\ past.late = {} /\ deltas = 0
    => sig = past.plan

\* A watcher registered before the step and still there at its end has not been
\* passed over: its signal ends the step as it began it, or without the edge
\* asked for, or a watcher deposited it.
NoChangeMissed ==
  pc = "readonly" =>
    \A w \in vch : w.id < past.mark /\ w.sig \notin past.wet
                     => ~Triggers(w.edge, past.origin[w.sig], sig[w.sig])

\* What the design computes: registers, components and words read.
Computed == SeqWritten \cup CompWritten(design) \cup ReadData(design.mems)

\* A clock that ends the step on the other level, driven by callbacks alone and
\* not later than the ReadWrite phase, has run its domain ("the engine
\* reactively detects clock edges from signal value changes"), unless its
\* asynchronous reset holds it, or held it before the design took it back.  The
\* edges of a clock the design drives, and those made by watchers and in delta
\* cycles, are lost.
DrivenEdgeRuns ==
  pc = "readonly" =>
    \A i \in Dom :
      /\ HasSeq(design) /\ EdgeSeen(past.origin, sig, i)
      /\ D(i).clk \notin past.late \cup Computed
      => \/ i \in past.ran
         \/ D(i).style = "async" /\ (ResetActive(D(i), past.plan) \/ D(i).rst \in Computed)

\* "Value-change callbacks observe pre-NBA values; sequential updates are
\* staged, then applied" (docs/src/cocotb.md): while updates are staged, what
\* the watchers see is a settled design, with components computed from the
\* registers they see.
WatchersSeePreNBA ==
  pc = "watch" /\ nba # NoUpdate /\ ~past.damp => sig = SettleComb(sig).sig
=============================================================================
