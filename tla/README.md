# A TLA+ verification project for dau-sim

dau-sim simulates digital hardware designs: frontends lower Amaranth or
SystemVerilog to an intermediate representation (IR), the compiler turns an IR
module into functions, an engine runs it tick by tick, and testbenches, a cocotb
backend and waveform writers use the result.  This directory holds the models of
its core, the TLC configurations that check them, and theorems about them that
TLAPS checks.  Paths below are relative to `src/`; `compile.py`, `codegen.py`,
`eval.py`, `depanalysis.py` are in `dau_sim/compiler/`.

- `PROJECT.json` lists components, runs, the source lines behind every
  definition, hazards, findings and theorems.
- `X.tla` with `X.cfg`, `X` beginning with `MC`, are the model-checking modules:
  `tlc -config MCRunLoop.cfg MCRunLoop`.  `MCMaskedException.cfg` runs
  `MCParallelTestbench` too, and `MCPreNBA.cfg` runs `MCCocotbStep`.
- `XProofs.tla` holds the theorems about `X`: `tlapm XProofs.tla`.

## 1. Inventory

| component | source | state | operations | status |
|---|---|---|---|---|
| generated run loop | `codegen.py` `build_run_loop`, `compile.py` `run`, `_run_generated_loop` | signals, clock levels, snapshot and moved flags, due domains, traces | initial blocks, seed, toggle, async reset, block or sync reset, settle, trace, `$finish` | modelled, proved about |
| CSP tick engine (two-state) | `compile.py` `_sim_engine_compiled` | the same, a changed set, memories | the same, memory ports | modelled, proved about |
| memory ports | `compile.py` `_exec_mem_writes`, `_exec_mem_reads` | words of each memory | write and read ports | partly, proved about: no granular enables |
| dependency analysis | `depanalysis.py` | none | reads/writes, topological order, partition | partly: used by every design, not checked on its own |
| evaluation, statements | `eval.py`, `compile.py` `_exec_stmt` | none | `eval_expr`, `_exec_stmts` | partly: no display, files, `$random` |
| design compilation | `compile.py` `compile_module`, `_build_domain_info`, half periods | none | compile | partly |
| code generation | `codegen.py` `compile_expr_block` and the emitters it uses | none | text of expressions and blocks | partly |
| parallel testbenches | `testbench.py` `_ParallelView`, `run_parallel_testbenches` | threads, barrier, lock, collected exceptions | accessors, tick, abort, join | modelled, proved about |
| testbench context | `testbench.py` `TestbenchContext` | values, forced values, history, cycle | set, force, release, tick | modelled, proved about |
| cocotb scheduler | `backends/cocotb_backend.py` `SimulationEngine` | callback queue, watchers, current and previous signals, simulation time | register, deregister, deposit, `step`, `run`, `stop` | modelled, proved about |
| cocotb handles | `backends/cocotb_backend.py` `DauSimHandle`, patched `cocotb.simulator` | none of their own | delegate to the scheduler | not modelled: glue |
| protocol checkers | `integrations/protocol.py` | held payload, counts, the first violation | observe, reset, finish, leave | modelled, proved about |
| four-state engine | `eval4.py`, `compile.py` `_sim_engine_seq_4`, `_sim_tick_4` | as the tick engine, X and Z | as the tick engine | partly: no unknown branches |
| dictionary engine | `compile.py` `_sim_engine_seq` | as the tick engine | as the tick engine | modelled, proved about |
| combinational run | `compile.py` `_run_combinational`, `_sim_tick` | signals | one pass per tick | modelled, proved about |
| hierarchy flattening | `flatten.py`, `rewrite.py` | none | flatten, prefix names | modelled |
| driver resolution | `resolve.py` | none | a pure function no engine calls | not modelled |
| frontends | `dau_sim/frontends/` | external objects | lowering | not modelled: external input, IR out |
| IR, validation, printing | `dau_sim/ir/` | immutable | constructors | the models' input format |
| VCD writer, selectors | `dau_sim/adapters/` | none | formatting | later, if at all |
| integration, CLI, API, config, perf, benchmarks | rest | none | start programs, parse arguments | not modelled |

**Interactions.**  `compile_module` partitions the combinational blocks into
components and keeps them with the IR module; `run` builds the domain table and
picks an engine: the generated loop for two-state designs without memories, a CSP
graph otherwise.  Inside a tick the domains and components communicate only
through the shared signals.  `TestbenchContext.tick` calls `run` with the current
values as inputs.  `_ParallelView` puts several threads on one context, with a
lock for accessors and a barrier, used twice, around `tick`.  The cocotb backend
has its own engine and runs user callbacks in the middle of a step; the protocol
monitors are tasks that wait for its clock edges.

**What is hard here.**  Selective settling (a stale component shows only if the
right signal moves in the right tick); several domains with different rates, edges
and resets in one tick; `$finish` and exceptions half-way through a tick; two
engines that must agree, of which one executes generated text; a tick that restarts
the design; watchers called between two settles; a barrier used twice per cycle, whose waits time out
while other threads fail, return early or tick.  `PROJECT.json` lists each at its
line under "hazards", with the properties that cover it or why none does.

## 2. The modules

```
 Eval -> Statements -> DepAnalysis -> Compile -> MCDesigns      (designs for TLC)
            |   \                        Flatten --/  (INSTANCE)
            |    FourState      GeneratedCode (text of Eval's expressions)
            |
 Netlist ---+-> RunLoop -----> RunLoopRTL (+ Components) ---> MCRunLoop
    |  \            |  \            \ INSTANCE ClockedDesign (abstract)
    |   \           |   RunLoopProofs ---> RunLoopRTLProofs
    |    \          +--> MCStaleComponent, MCUncheckedAssertion
    |     \         +--> EnginePair (INSTANCE SimEngine) ---> EngineEquivalence
    |      \                  \-- EnginePairProofs (+ RunLoopProofs)
    |       SimEngine (+ Memory) ---> MCOpaqueRead
    +--- Components (what dependency analysis arranges)
    +--- TickEngine (+ Memory)
    |        |-- EngineEquivalence (+ FourState; INSTANCE TickEngine twice)
    |        |       ---> MCEngineEquivalence, MCSignedArithmetic
    |        \-- TestbenchContext (+ Components) ---> MCTestbenchContext
    |                \-- TestbenchContextProofs (+ LoopProofs)
    +--- CocotbStep (+ Memory, Components) ---> MCCocotbStep
             \-- CocotbStepProofs (+ LoopProofs, on Memory)

 Protocol ---> MCProtocol
    \-- ProtocolProofs
 ParallelTestbench (INSTANCE LockStep, abstract) ---> MCParallelTestbench
    \-- ParallelTestbenchProofs
```

**Netlist** is a compiled design (`_domain_info`, the components, init values) and
what both engines do with it.  The meaning of a block is the CONSTANT operator
`Exec(block, S)`, which yields the signals and how the block ended.  The engines,
and the theorems, hold for every language of blocks; `DesignAssumption` demands
that a block writes only the signals `collect_stmt_writes` attributes to it and
ends in one of three ways (to its end, `$finish`, another exception).  For TLC
`Exec` is `ExecBlock` of **Statements**, the in-place interpreter of
`compile.py`, over **Eval**, the two-state evaluator; `engine_equivalence` puts
`CompiledBlock` of **GeneratedCode** in its place.  `Through(steps, a)` is a `for` loop over a list:
functions applied in turn, defined by a recursive function.

**Compile** and **DepAnalysis** turn IR modules into compiled designs, as
`compile_module` does: Kahn's algorithm, disconnected components, written signals
per domain, half periods as multiples of their greatest common divisor.  **Flatten** is
`flatten_module` with the renaming of `rewrite.py`; the operator that joins two names is a
constant, because TLC's designs share eight signals and the dotted names are mapped to
them (`Wire` in `MCDesigns`).  These modules use recursive operators and are reached only from TLC's modules.

**RunLoop** is the generated function.  `pc` names the part of the tick, `k` the
domain or component next in it:

| action | code |
|---|---|
| `RunInitial` | init blocks, `compile.py:1357` |
| `Seed` | every component once before tick 1, `codegen.py:776` |
| `StartTick` | snapshot, clear flags, `codegen.py:787` |
| `ToggleClock` | `codegen.py:794` |
| `AsyncReset` | `codegen.py:815` |
| `RunDomain`, `SkipDomain` | block or synchronous reset of a due domain, `codegen.py:821` |
| `SettleComponent` | components with a moved signal, if a domain fired, `codegen.py:834` |
| `Record` | trace entry, leave after `$finish`, `codegen.py:840` |
| `NextPart`, `EndRun` | the generated code's sequence |

The variables are the function's locals: `clock` is `_c`, `snap` `_p`, `moved`
`_x`, `due` `_d`, `fired` `_f`, `finished` `_fin`.  Of the traces only the last entry
and their number are kept; every entry is the last one at some point.  The snapshot
and flags cover every signal instead of the watched ones; only watched ones are
looked at.

**SimEngine** is the CSP node.  It differs from the loop in three ways that its
header states: a changed set filled block by block, compiled blocks that store
nothing when they raise, and memories (**Memory**).

**GeneratedCode** is what `CodeGen` emits for an expression.  A piece of text is modelled
by its value and by the two things that decide what a neighbour in the text makes of it:
whether it is closed by parentheses, and if not, the operands of the difference that it
is.  So `a * b` with an open signed `b` is `a * b' - sign`, as Python reads it.

**FourState** has the values of `ir/types.py` as pairs of bitmaps, `eval_expr_4`
operator by operator and `_exec_stmts_4`.

**TickEngine** is `_sim_engine_seq`, `_sim_engine_seq_4`, the combinational nodes and
`CompiledModule.run`, as operators on one record of state: the engines differ in the
constants `Track` (how a block runs and what it notes), `LevelValue` and `Active`.  `SeededTick` composes
`Toggle`, `AsyncResets`, `RunDomains`, `MemoryPorts`, `Settle` and `Emit` in the order of the
code.  Each loop of a tick is `Through` a list of steps, one per domain or component (`Toggles`, `Holds`,
`RunsDomain`, `Settles`), on the part of the state that it changes; `Run` is a recursive function
of the number of ticks.

**EnginePair** is the run loop and the CSP engine on one design from one start.  Their walks have the
same steps and take them together; a design with memories runs on the engine alone, as in the code.
`MemoriesAssumption` says of the designs what `Memory` is given: ports name signals, words fit.
**EngineEquivalence** adds the dictionary engine and, where it can run, the four-state one: they make a
whole tick when the CSP engine begins one, and are compared at its end.

**TestbenchContext** has one action per method that changes something; `Tick` is one
`TickEngine` run from the values at hand.  `base`, `mark` and `since` remember where the
test last touched a signal, so that several calls can be compared with one.  `TestAssumption`
says of `mask_value` that it yields values that fit and leaves those alone; `EngineAssumption` is what
`compile_module` and `_exec_stmts` give the engine: ports that name signals, components in
dependency order, and blocks that note every signal they leave otherwise than they found it.  TLC evaluates
both on the designs of the run.

**CocotbStep** is `SimulationEngine`: `pc` names the place in `step`, each call of a user
callback is an action, in which it deposits one value or deregisters one callback or
neither, registers at most one, and may stop the simulator.  `FireQueued` pops the queue for its phase,
`SettleStep`, `ApplyUpdates` and `SettleDelta` settle, `FireWatcher` calls the next watcher
collected by `Collect`.  What cocotb lets a callback do in a phase is external.  The dictionary of
watchers is `vch` with `keys`, which gives each signal in it the number of the callback that
brought it in: Python dictionaries keep that order.  The loops of `_settle` (resets, blocks, memory
ports, components) are `Through`.  Three assumptions describe what the code is given: deposits fit
their signals (`TestbenchAssumption`), ports name signals and initial words fit (`MemoryAssumption`),
and the component blocks are in an order in which each agrees with what it reads once it has run, and
disturbs none before it (`OrderAssumption`).  The last is what `topological_sort` arranges for
designs in which no signal has two combinational drivers.  TLC evaluates all three on the designs of the run.

**Protocol** is a checker with its monitor.  `seen` is the history of samples since the
last reset; the contract is written over it, and the properties compare the verdicts of
the checker, which remembers one payload and two numbers, with it.

**ClockedDesign** is the abstract specification of a run: one step per tick, clock
levels from the tick count, every component settled in every tick.  **RunLoopRTL**
gives the refinement mapping: between ticks the loop's signals stand for what they
would be with everything settled; in mid-tick, for those the tick began with.

**Components** holds what the proofs need of designs, as predicates.  `ComponentsOK(D)`, which
`ComponentsAssumption` of `RunLoopRTL` demands of every design, is what
`collect_stmt_reads`, `topological_sort` and `partition_assignments` arrange for
components whose blocks assign, when no block reads what it writes and no signal has two
combinational drivers: a component depends only on signals it touches, agrees with what
it reads once it has run, and writes nothing that another touches.  `OrderOK(D)` says the same of
the list of all blocks in dependency order, which the cocotb backend and the combinational node walk.
`Quiet(D)` says that no component touches a register with an asynchronous reset, nor a clock that toggles
without firing its domain; it is the condition of several theorems.

**ParallelTestbench** has one `pc` per thread; `body` stands for anything a test
function does between calls.  `threading.Barrier` is modelled from its documented
states (filling, draining, broken) and is marked external in the map.  Every
operation on it holds its condition's lock and is one step, and so is a wake-up.
`GiveUp` is a wait that times out, possible whenever the waiter has not been
released.  A function ends by returning (`Return`), by an `Exception` (`Raise`, or `Release` when an
accessor raises it) that the worker collects before it aborts the barrier, or by something
else (`Escape`: `SystemExit`, the outcomes of `pytest.fail` and `pytest.skip`), which ends the thread
and does neither, because `_worker` catches `Exception` only (`testbench.py:321`).  Accessors and `ctx.tick` are taken to raise
`Exception`s only.  **LockStep** is the abstract promise: the simulation advances only while
every thread stands at its tick.

## 3. The runs

| run | expects | states | shows |
|---|---|---|---|
| `run_loop` | pass | 3148 | `TypeOK`, `ClockWaveform`, `DueAtEdge`, `AsyncResetHolds`, `CombFresh`, `OneEntryPerEdge`, `FinishIsLast`, `Terminates`, `ImplementsClockedDesign` |
| `engine_equivalence` | pass | 7415 | `SameWalk`, `SameSchedule`, `SameTrace`, `SameDictionary`, `FourStateSound`, `PortsFollowBindings`, `CombReadFresh`, `WritesOnEdge` |
| `testbench_context` | pass | 33695 | `TypeOK`, `TicksCompose`, `HistoryPerCycle`, `SettledAfterTick` |
| `cocotb_step` | pass | 321684 | `TypeOK`, `OneShot`, `DeregisteredSilent`, `NothingLeftBehind`, `ReadOnlySettled`, `StagingInvisible`, `NoChangeMissed`, `DrivenEdgeRuns` |
| `protocol` | pass | 4765908 | `TypeOK`, `AccusesTheGuilty`, `CountsTransfers`, `CleanExit`, `NoFalseAlarm` |
| `parallel_testbench` | pass | 44607 | `TypeOK`, `TickExclusive`, `InStep`, `PassedTogether`, `Concludes`, `ImplementsLockStep` |
| `stale_component` | violation | | `CombFresh` on a reset synchroniser |
| `unchecked_assertion` | violation | | `AssertionsChecked` on a block that is only an assertion |
| `opaque_read` | violation | | `OpaqueReads` on a port that is not transparent |
| `signed_arithmetic` | violation | | `TruncatesTowardZero` on a quotient of signed values |
| `pre_nba` | violation | | `WatchersSeePreNBA` with one watcher of a clock edge |
| `masked_exception` | violation | | `RaisesOriginal` with three threads |

Each property is commented where it is defined and has a mutant in
`PROJECT.json`: a definition of the model changed the way a plausible bug would
(a dropped guard, a forgotten clock, a wrong modulus), under which TLC finds the
property violated.

**Bounds.**  The designs of `MCDesigns` have eight one-bit signals, one or two domains,
up to two components and run two to four cycles from every value of the signals they
list as inputs.  They were chosen one per situation: synchronous and asynchronous
reset, active high and low; both edges of one clock and of two clocks; half periods
of 2 and 3 ticks, so that toggles coincide in one tick of the run and differ in the others;
components in an order the analysis must change; `$finish` and assertions in initial,
sequential and combinational blocks.  The `Unsettling` ones add a component that reads
both clocks, a register used as reset line, as clock, or written by two domains, and
a component that accumulates.  One bit is enough because the engines never look into
a value except for zero or equality.  A loop run is deterministic from its start, so
the number of states says little; the number of (design, start) pairs is what counts.
`OperatorsIR` and `UnknownIR` make two-bit values of registers: every operator, on signed and
on unsigned operands, with every value, and divisions by zero.  `StagesTop` is a
register in a parent with a clock of its own and an instance inside the instance;
`StoreTop` instantiates a memory with an initial block and a synchronous reset.

`testbench_context` lets a test set two signals, force one, with values of which one does
not fit the signal, and tick one or two cycles at a time up to three: enough for two
calls to differ from one, and for the time limit.  `protocol` feeds any four samples
between two resets, with levels that are not binary and two payloads (symmetric): a stall,
a change, a transfer and what follows.  `cocotb_step` has up to four callbacks, two of
them registered before the run, and two steps of `run()`; a `DeltaLimit` of 1 stands for the 100
delta cycles of the code, so that the limit is reached.  `NothingLeftBehind` exempts steps that
reach the limit, so TLC checks it on steps without delta cycles; its theorem is for every limit.
`EdgeFires` looks at the new level of a clock only, while the code compares it with the old one: for one-bit
clocks, which all clocks here are, that is the same once the signal has changed.

`parallel_testbench` has three threads and two cycles: three threads give the barrier
a first, a middle and a last party, and a fast one that comes back while a slow one has
not left; two cycles give a second use of the barrier and the limit of `max_cycles`.

**Two limits of agreement stated as properties.**  `CombFresh` and the refinement are
checked on the `Synchronous` designs, and proved where ticks in which nothing fires move
nothing that components touch (section 5); `stale_component` shows that they fail beyond.
Of the nine designs seven are `Quiet`; in the other two a component reads a register with
an asynchronous reset, and TLC shows that what a silent tick leaves stale is never traced.  `SameSchedule` excludes
states in which a clock signal differs from its domain's level (`ClocksShown`), because there the
engine skips a toggle that the loop notes.  The loop then settles more components, which must agree with
what they read for the walks to stay together: that is `SurplusAgrees`.  It holds in all runs of the designs; all
synchronous ones but `CounterIR`, which may start with its clock high, have `OwnClocks`, so that the two choose
the same components throughout.  `SameTrace` allows the difference in what
the block that raised `$finish` wrote, which the loop keeps and the engine drops.
`SameDictionary` holds although the dictionary engine may settle more components, because those
of the designs then write what they hold.  `FourStateSound` is soundness, not
precision: the four-state `&` of two known ones is unknown beside an unknown bit.
`TicksCompose` excludes clocks of several rates, initial blocks, memories and `$finish`, which
start again with every call of `tick`; `HistoryPerCycle` excludes designs in which a cycle
has no edge or two.  `PortsFollowBindings` is about instances none of whose inputs is bound to
what a later binding of the same instance drives (section 4).  `DeregisteredSilent` leaves out watchers that were
already collected when another one deregistered them: the engine calls them (`cocotb_backend.py:583`).
`DrivenEdgeRuns` is about edges that callbacks drive up to ReadWrite; an edge that a staged update, a component, a
watcher or a delta cycle makes is in the next snapshot before it is compared, and runs no domain (`cocotb_backend.py:653`).

**Fairness.**  `RunLoop`'s `WF_vars(Next)` says that the Python function, once called,
keeps executing; nothing in a tick waits.  In `ParallelTestbench` each thread's runtime
steps (`Carry`) are weakly fair: the interpreter schedules every thread, locks are held
for one accessor call, waits time out.  That a test function eventually ticks, returns
or raises (an `Exception` or not) is strong fairness of those together, because it may pass through `body` any
number of times; a function that loops over accessors for ever does hang the call, and
the code has no defence against it.  `MaxCycles` bounds the ticks, as `max_cycles`
does.

## 4. Findings

Each has a run that TLC finds violated.

1. `stale_component`: a tick that fires nothing never settles components, though a
   reset may act in it (`codegen.py:836`, against "whenever any referenced input signal
   changes", `dau_sim/ir/module.py:53`).
2. `unchecked_assertion`: `collect_stmt_reads` skips `Assert`, and a component without
   signals is never run (`depanalysis.py:41`, against `dau_sim/ir/stmt.py:48`).
3. `opaque_read`: all writes precede all reads of a tick, so a port that is not
   transparent forwards too (`compile.py:1021`, against `compile.py:358`).
4. `masked_exception`: exceptions are sorted by thread index, so a consequence can
   displace the cause (`testbench.py:335`, against `testbench.py:305`).
5. `pre_nba`: only the registers are taken back before the watchers are called, not what
   components computed from them (`backends/cocotb_backend.py:647`, against
   `docs/src/cocotb.md:63`).
6. `signed_arithmetic`: the sign extension that `_emit_mask` writes is not closed by
   parentheses, so products, quotients, negations and right operands of `-` that are signed are
   computed from a part of it (`codegen.py:445`, against `dau_sim/ir/expr.py:28`).

Four more that no run is given to:

- All bindings of an instance make one combinational block (`flatten.py:187`).  An instance with a
  combinational path from a bound input to a bound output therefore depends on itself,
  and `compile_module` raises `CombLoopError` for a design that has no loop (the
  module of `test_flatten_port_bindings_create_assignments` is one).
- In that block the bindings run in their order, once.  If an input is bound to an
  expression of the signal to which a later binding brings the register's output, the
  input lags by one settle: `u.d = ~w; w = u.q` makes a toggle flip-flop of
  twice the period.  `PortsFollowBindings` fails on such a design.
- `TestbenchContext.tick` under an asynchronous reset that is held: nothing fires, the run
  brings no trace, and the context keeps the values from before the reset
  (`testbench.py:127`).
- A parallel test function that leaves through `SystemExit` or through the outcome of `pytest.fail`
  or `pytest.skip` is neither collected nor followed by `abort` (`testbench.py:321`): the call returns with
  `passed` set, unless another function calls a further tick and times out.  The docstring has it raise
  "the first exception from any thread if a testbench fails" (`testbench.py:305`).  `PassedTogether` is
  stated with this case: in terms of the exceptions that are caught.

## 5. What is proved

**RunLoopProofs**, from `ValueAssumption` and `DesignAssumption` of `Netlist` alone, for
every design, number of domains, half period, length of run and block language:

- `TypeCorrect` (`TypeOK`).  `TypeOK` is inductive: it bounds `k` by the part of the walk.
- `TimingCorrect`, then `ClocksFollowTime` (`ClockWaveform`) and `BlocksRunAtEdges`
  (`DueAtEdge`).  `ClockWaveform` is not enough by itself for `DueAtEdge`; `Timing` adds
  which domains are due while the toggling is half-way and that only resets remove
  them.  The arithmetic is in three lemmas on quotients: a level `(t \div h) % 2` flips
  exactly when `h` divides `t`.
- `ResetHolds` (`AsyncResetHolds`).  `ResetHeld` follows a domain whose reset was active
  when the tick began through the walk: still active until its turn, then cancelled and
  at its init values.
- `FinishEndsTheRun` (`FinishIsLast`), from an invariant saying that `finished` is
  set only on the way from the tick to the end.
- `TracesFollowEdges` (`OneEntryPerEdge`): `count` against the cardinality of the set of
  ticks with an edge, with the tick under way counted according to `fired`.

From `ComponentsAssumption` too:

- `SettlingIsSelective`, in every run: until components settle, every signal that is not as it
  was when the tick began is noted (`NotedBefore`), and nothing unmovable has moved.  Hence a
  component that is passed cannot tell the valuation from the one the tick began with, and agrees
  with what it reads if it did so then.
- `FreshBetweenTicks` and `TracesAreSettled` (`CombFresh`) in runs with `[]QuietTicks`: a tick in
  which nothing fires has moved nothing that a component touches.  `Selective` alone does not give
  `CombFresh`: freshness is handed from tick to tick (`AllFresh`), and a silent tick never restores it.
- `QuietDesignsRunQuietly`: the runs of `Quiet` designs are such runs.  `Silent` says what can move
  a signal before something fires (a clock, an asynchronous reset) and that a domain with an edge and
  no asynchronous reset has fired by the time components settle.  `QuietDesignsTraceSettled` follows.

**RunLoopRTLProofs**: `RunLoopImplements` and `QuietDesignsImplement`, that the run loop implements
`ClockedDesign`, under the same conditions.  The abstract tick is one step made of loops over the same lists
as the walk.  The inductive invariant `Walk` says for each position of the walk which prefix of the
abstract tick has been computed: the clocks toggled so far, the resets held, the blocks run, the
components settled.  A passed component is a step of the abstract settling because it agrees with what it
reads; a block that raises ends the abstract loop with it (`ThroughStops`).  A walk's last step is then the
abstract tick (`RecordTicks`), as is the step that raises (`RaiseTicks`); every other step is a stutter.

**EnginePairProofs**, from `MemoriesAssumption` and those of `Netlist`, for every design and block language:

- `EngineTypeCorrect`: the types of the engine, its words included, through memory ports and blocks that raise.
- `AgreementCorrect`: the inductive invariant `Agreement` of runs with `[]SurplusAgrees`.  `Abreast`: same place, clocks,
  domains.  `SameSignals`: same signals until a block has raised.  `Noted`: before components settle, what the engine
  collected block by block is what the loop finds in its snapshot and flags, but for clocks that were toggled to the
  level their signal already had.  `Chosen`: what is left of the engine's choice is left of the
  loop's, and a component that only the loop settles writes what is there.  `SameWalk` alone is not inductive: nothing in
  it makes the two settle the same.
- `WalksAgree` (`SameWalk`), `SchedulesAgree` (`SameSchedule`), `TracesAgree` (`SameTrace`) follow from it.
- `InputClocksAgree` and `QuietDesignsAgree` show that the hypothesis is met: by designs with `OwnClocks`, in which no component is
  surplus, and by `Quiet` designs that meet `ComponentsAssumption`, in which a surplus component agrees already.
- `WordsFollowPorts` (`WritesOnEdge`): of the write ports that act on a word, the last wins (`LastWins`), by the course of
  the loop over the ports.
- `CombReadsShowTheirWords` (`CombReadFresh`): a port that drives its data alone shows its word once it has had its turn
  (`PortShown`), no later port or component disturbs it (`ReadsAlone`), and no component is an exception; so from the
  end of the memory part to the end of the tick (`PortsFresh`).

**ParallelTestbenchProofs**, from `ThreadAssumption` and `CyclesAssumption`, for any finite,
non-empty set of threads:

- `TypeCorrect`: the barrier's count is the cardinality of the set of waiters.
- `RoundsCorrect`: the inductive invariant `IInv`.  None of the three safety properties
  is inductive: what keeps a thread out of a tick is that the barrier cannot be
  released while it is absent, which depends on how the threads are distributed over the
  two waits.  `Rounds` states it: every thread is level with the cycle or one behind,
  nobody is past the first wait of a round before all have arrived, the one with
  index 0 is alone in the tick, and nobody leaves the second wait before the tick is
  done, unless the barrier is broken.
- `TickIsExclusive`, `ThreadsInStep`, `PassMeansTogether` follow from it.  For the last, `Failures` says
  that the threads collected are, once all have ended, exactly those an `Exception` ended, and `Levels`
  that a thread which left its function in any other way was level with the context.
- `BarrierImplementsLockStep`: initial states map to initial states, every step to a step
  of `LockStep` or a stutter.  It needs one more invariant, `AllLevel`: before
  a tick every thread, those that dropped out included, has come back from as many ticks
  as the context has made.

**ProtocolProofs**, for every kind of checker, any payloads and histories of every length:

- `MonitorCorrect`: the inductive invariant `IInv`.  The contract is written over the whole history,
  the checker keeps one payload and two numbers.  `Remembers` ties them together: while there is no
  violation, `held` is the payload of the last sample exactly if that sample stalled, and the counts are
  the cardinalities of the sets of transfers and of batch ends.  `AccusesTheGuilty` is in the
  invariant: the accused sample is the first that breaks the contract, which needs that a sample's
  guilt depends only on the samples before it (`PrefixKept`, `GrownContract`).
- `TypeCorrect`, `VerdictsAreRight` (`AccusesTheGuilty`), `CountsAreRight` (`CountsTransfers`),
  `QuietExitsAreRight` (`CleanExit`), `NobodyIsFramed` (`NoFalseAlarm`) follow from it.

**LoopProofs** has the lemmas on loops and memory ports.  `ThroughKeeps` is the rule for a loop: a set that
every step maps into itself holds the result.  `ThroughCourse` gives the values between the steps,
`ThroughUpto` and `ThroughStops` those of a prefix.  All need
induction on the length of the list, which the provers cannot instantiate from the library; they rest on
`LeastNatural` instead, that a set of naturals with a member has a least one (from `WellFoundedInduction`'s
fact about the order of the naturals): the first step at which a claim fails is contradicted.
`ThroughLeads` follows a loop from set to set, `ThroughPairs` two loops side by side.
`MemWritesFacts`, `PortReadFacts` and `MemReadsFacts`: words stay words, and reads change only the signals that ports drive.

**CocotbStepProofs**, from `TestbenchAssumption`, for any number of callbacks, any testbench, every design:

- `SchedulingCorrect`: the inductive invariant `Scheduling`.  `Bookkeeping` says where a callback can be: `OneShot`,
  `DeregisteredSilent`, every id in use below `nextId`, the collected watchers no longer active.  `Timely` says which
  entries the queue may hold in each part of a step: nothing of the past ever, nothing of this time's normal phase
  once that is over, and ReadWrite entries of this time left over only at the delta limit.
- `CalledOnce`, `DeregisteredNeverCalled`, `TimesAreFinished` (`NothingLeftBehind`) follow from it.

From `DesignAssumption`, `ValueAssumption` and the other two assumptions of `CocotbStep` too:

- `OnePassSettles`: the blocks, run once in an order as `OrderAssumption` has it, all agree with what they read, unless one
  raises; so a second pass changes nothing (`SettledStays`).
- `SettleFacts`: what `_settle` can change, and which domains ran, through resets, blocks and memory ports.
- `ValuesCorrect`: the inductive invariant `Values`, four parts that the properties need between the places they speak
  of: `Typed`; `Watched` (a watcher of before the step has been compared with the values up to the
  last snapshot, and what it waits for lies neither before it nor, collected as it would be, after); `Edges` (a clock
  that moved since the step began was seen by `_settle`, if it moved by then); `Planned` (signals, staged updates and
  the plan of the step agree until a watcher deposits).
- `CocotbTypeCorrect`, `NothingIsMissed` (`NoChangeMissed`), `EdgesAreSeen` (`DrivenEdgeRuns`),
  `ReadOnlySeesSettled` (`ReadOnlySettled`), `StagingIsInvisible` (`StagingInvisible`) follow from it.
  `DrivenEdgeRuns` has become sharper on the way: it is about the clocks that the design does not compute, and names the one
  case beside a reset that holds the domain, a reset line that the design itself takes back in the same settle.

**TestbenchContextProofs**, from `TestAssumption`, `EngineAssumption` and those of `Netlist`, for every test, every
design and block language, every way to run a block with its notes, and any number of cycles, domains and memories:

- `TestTypeCorrect` (`TypeOK`).  The engine's states are typed by `State(D)`; every part of a tick keeps it, and a run
  is a loop of ticks (`RunIsLoop`), so that the rules of `LoopProofs` hold for it.
- `NothingLeftOver` (`SettledAfterTick`), for `Quiet` designs.  In the first tick `Seed` settles every component whatever the test
  left (`SeedFresh`); a tick that fires re-settles what moved (`TickFresh`), and one that does not moves
  nothing a component touches (`SilentTick`); the combinational node passes over all blocks in dependency
  order (`CombTickIsPass`).  `FreshRun` is what a run hands from tick to tick: from the first
  tick on components agree with the signals, and with what was traced last.
- `OneEntryPerCycle`, the part of `HistoryPerCycle` on the length of the history, for designs with memories and initial blocks
  too.  Clocks of one rate are at one level (`InStep`), a function of the number of ticks; an edge fires all
  domains or none, and no asynchronous reset takes one back; so the trace of a run has one entry for every second tick
  (`Counted`), and a call of n cycles adds n.
- `CallsOfTickCompose` (`TicksCompose`) for `Quiet` designs without asynchronous resets, and `HistoryOfOneRun`
  (`HistoryPerCycle`) for `Quiet` ones.  `Composed` is the inductive invariant: exit, values and the history since the mark are those
  of one run of `since` cycles from `base`.  That a call continues the run before it is `RunsCompose`: a run stopped
  after whole cycles and one begun at its last trace, clocks low again and every component settled once more, are
  then `Twin`s: alike in exit and in every signal but clocks, and the traces of one are those of the other after a common prefix.
  For that the signals when the first run stops must be those it traced last but for clocks, and settling
  them again must change nothing: this is `Continuable`, and where `Quiet` is needed.  An asynchronous reset could move registers
  after the last trace, and the next call would not know.  `TicksCompose` of such designs stays with TLC.

Eight of the ten designs of `testbench_context` meet the conditions of `CallsOfTickCompose` on clocks, resets and
components, and five those on memories, initial blocks and rates as well.

Only model-checked: `Terminates`, `Concludes` (liveness under fairness is out of the
prover's reach), `CombFresh`, `ImplementsClockedDesign`, `SettledAfterTick` and `TicksCompose` of designs that are not
quiet in runs that happen to keep components fresh, and what compares a run with the
recursive evaluators: `SameDictionary`, `FourStateSound`, `PortsFollowBindings`.  What the
recursive operators of `Eval`, `Statements`, `FourState`,
`GeneratedCode`, `DepAnalysis`, `Flatten` and `Compile` compute is a matter for TLC: the
induction over expressions and statements that it would take is out of reach.

## 6. What is left out

Within the modelled parts: time stamps and numpy output, `return_traces=False`,
`trace_signals`, `$random`, display statements, the file contents of `$readmem`, granular
write enables, user code in CSP graphs, the cocotb callbacks that raise, the wording of
errors.  `GeneratedCode` is the path through `compile_expr_block`; the older emitters
without local names are not modelled.  Four-state runs have neither memories nor
initial blocks (the code computes those with Python integers and fails on `FourState` values)
and no unknown conditions; in generated code a division by zero is the guarded one of the
emitter.  The cocotb scheduler is given values, not handles.

Not modelled at all, because their state or their correctness is outside this code: the
frontends walk the objects of external packages; the IR classes, the validator and the
printer are immutable data and text; the VCD writer and the selectors format what a run has
returned; the Verilator and cocotb integration starts other programs; the API, the CLI,
configuration, timing and benchmarks parse arguments and call the rest; `resolve.py` is
called by its tests only.

## 7. Plan

1. Topological order, partition, masking and the four-state operators against reference
   definitions over all small inputs.
2. Unknown conditions in four-state blocks, once it is decided what they should mean.
3. A proof that the dictionary engine and the CSP engine agree, with the interpreter of blocks as a constant.
