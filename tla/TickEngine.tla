----------------------------- MODULE TickEngine -----------------------------
(***************************************************************************)
(* The tick engines that walk the IR itself (compiler/compile.py): the     *)
(* clocked engine on a dictionary of signals, _sim_engine_seq, and its     *)
(* four-state twin _sim_engine_seq_4; the combinational nodes _sim_tick    *)
(* and _sim_tick_4; and CompiledModule.run around them.  Here a tick is    *)
(* one operator on the engine's state, a record                            *)
(*   sig, words, clock, tc   s_signals, s_mem_state, s_clock_states,       *)
(*                           s_tick_count;                                 *)
(*   moved, due              changed_signals and fired_domains;            *)
(*   exit                    "ok", "finish" ($finish stopped it) or        *)
(*                           "error" (an exception left the run);          *)
(*   traces                  the valuations emitted so far.                *)
(* Two-state and four-state engines differ in the constants below.         *)
(***************************************************************************)
EXTENDS Netlist, Memory

CONSTANTS
  Track(_, _),     \* runs a block in place: [sig, moved, exit]
  LevelValue(_),   \* the value of a clock signal at a level
  Active(_, _)     \* the reset of a domain is active in a valuation

Doms(D) == 1 .. Len(D.domains)  \* in the order of the dictionary

Start(D, S) ==
  [sig |-> S, words |-> InitWords(D.mems), clock |-> [i \in Doms(D) |-> 0],
   tc |-> 0, moved |-> {}, due |-> {}, exit |-> "ok", traces |-> << >>]

\* What the loops below work on: parts of the state.
Clocking(D)  == [sig : [Signal -> Value], clock : [Doms(D) -> {0, 1}], moved : SUBSET Signal,
                 due : SUBSET Doms(D)]
Resetting(D) == [sig : [Signal -> Value], moved : SUBSET Signal, due : SUBSET Doms(D)]
Tracked      == [sig : [Signal -> Value], moved : SUBSET Signal, exit : {"ok", "finish", "error"}]

Toggles(D, tc, i) ==
  [u \in Clocking(D) |->
     LET d == D.domains[i]
         level == 1 - u.clock[i]
     IN  IF tc % d.hpt # 0 THEN u
         ELSE [sig   |-> [u.sig EXCEPT ![d.clk] = LevelValue(level)],
               clock |-> [u.clock EXCEPT ![i] = level],
               moved |-> u.moved \cup (IF u.sig[d.clk] = LevelValue(level) THEN {} ELSE {d.clk}),
               due   |-> u.due \cup (IF EdgeFires(d.edge, level) THEN {i} ELSE {})]]

Toggle(D, t) ==
  LET u == Through([i \in Doms(D) |-> Toggles(D, t.tc, i)],
                   [sig |-> t.sig, clock |-> t.clock, moved |-> t.moved, due |-> t.due])
  IN  [t EXCEPT !.sig = u.sig, !.clock = u.clock, !.moved = u.moved, !.due = u.due]

ResetDomain(D, i, u) ==
  LET S == ApplyReset(D.domains[i], D.init, u.sig)
  IN  [u EXCEPT !.sig = S, !.moved = @ \cup Differing(S, u.sig)]

Holds(D, i) ==
  [u \in Resetting(D) |->
     IF D.domains[i].style = "async" /\ Active(D.domains[i], u.sig)
     THEN [ResetDomain(D, i, u) EXCEPT !.due = @ \ {i}] ELSE u]

AsyncResets(D, t) ==
  LET u == Through([i \in Doms(D) |-> Holds(D, i)],
                   [sig |-> t.sig, moved |-> t.moved, due |-> t.due])
  IN  [t EXCEPT !.sig = u.sig, !.moved = u.moved, !.due = u.due]

\* A block, unless an earlier one raised.  The writes made before an exception stay.
Runs(block) ==
  [u \in Tracked |->
     LET r == Track(block, u.sig)
     IN  IF u.exit # "ok" THEN u ELSE [r EXCEPT !.moved = @ \cup u.moved]]

\* A loop over blocks, on the signals of the engine.
After(steps, t) ==
  LET u == Through(steps, [sig |-> t.sig, moved |-> t.moved, exit |-> t.exit])
  IN  [t EXCEPT !.sig = u.sig, !.moved = u.moved, !.exit = u.exit]

RunsDomain(D, due, i) ==
  [u \in Tracked |->
     IF i \notin due \/ u.exit # "ok" THEN u
     ELSE IF D.domains[i].style = "sync" /\ Active(D.domains[i], u.sig) THEN ResetDomain(D, i, u)
     ELSE Runs(D.domains[i].block)[u]]

RunDomains(D, t) == After([i \in Doms(D) |-> RunsDomain(D, t.due, i)], t)

\* Memory writes need a domain that fired, reads do not.
MemoryPorts(D, t) ==
  LET names == { D.domains[i].name : i \in t.due }
      words == MemWrites(D.mems, t.words, t.sig, names)
      S     == MemReads(D.mems, words, t.sig, names)
  IN  IF t.exit # "ok" THEN t
      ELSE [t EXCEPT !.words = words, !.sig = S, !.moved = @ \cup Differing(S, t.sig)]

\* _exec_comb_components: the components touching a signal of a set, which what
\* they write does not widen.
Settles(D, set, c) ==
  [u \in Tracked |-> IF D.comps[c].signals \cap set = {} THEN u ELSE Runs(D.comps[c].block)[u]]

SettleFrom(D, t, set) == After([c \in 1 .. Len(D.comps) |-> Settles(D, set, c)], t)

\* Mutant: only the memory ports are seeded.
SeedPorts(D, t) == [t EXCEPT !.sig = MemReads(D.mems, t.words, t.sig, {})]

\* Before the first tick; the engine catches no exception here.
Seed(D, t) ==
  LET u == SettleFrom(D, t, Signal)
  IN  IF u.exit # "ok" THEN [u EXCEPT !.exit = "error"]
      ELSE [u EXCEPT !.sig = MemReads(D.mems, t.words, u.sig, {})]

\* Components settle in a tick that fired a domain.
Settle(D, t) == IF t.due = {} THEN t ELSE SettleFrom(D, t, t.moved)

\* What a tick that fired a domain leaves is emitted.
Emit(t) ==
  IF t.due = {} \/ t.exit = "error" THEN t ELSE [t EXCEPT !.traces = Append(@, t.sig)]

\* A tick of an engine that has been seeded, unless an exception left it then.
SeededTick(D, s) ==
  LET u == [s EXCEPT !.tc = @ + 1, !.moved = {}, !.due = {}]
  IN  IF s.exit # "ok" THEN s
      ELSE Emit(Settle(D, MemoryPorts(D, RunDomains(D, AsyncResets(D, Toggle(D, u))))))

SeqTick(D, t) == SeededTick(D, IF t.tc = 0 THEN Seed(D, t) ELSE t)

\* The node of a design without sequential logic: combinational reads, then
\* every block in dependency order; it emits in every tick.
CombTick(D, t) ==
  LET read == [t EXCEPT !.sig = MemReads(D.mems, t.words, t.sig, {})]
      u    == After([k \in 1 .. Len(D.order) |-> Runs(D.order[k])], read)
  IN  IF u.exit = "error" THEN u ELSE [u EXCEPT !.traces = Append(@, u.sig)]

\* A design without sequential logic is run by the combinational node.
Advance(D, t) ==
  IF t.exit # "ok" THEN t ELSE IF HasSeq(D) THEN SeqTick(D, t) ELSE CombTick(D, t)

\* CompiledModule.run from a valuation, given what its initial blocks made of
\* it: their $finish leaves a trace of one point.
Run(D, initial, ticks) ==
  LET t == Start(D, initial.sig)
      after[n \in 0 .. ticks] == IF n = 0 THEN t ELSE Advance(D, after[n - 1])
  IN  IF initial.exit = "finish" THEN [t EXCEPT !.exit = "finish", !.traces = <<initial.sig>>]
      ELSE IF initial.exit = "error" THEN [t EXCEPT !.exit = "error"]
      ELSE after[ticks]
=============================================================================
