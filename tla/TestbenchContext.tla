-------------------------- MODULE TestbenchContext --------------------------
(***************************************************************************)
(* TestbenchContext (testbench.py): a test sets, forces and releases       *)
(* signals and ticks the design, in any order.  A tick of n cycles is a    *)
(* run of CompiledModule.run from the values at hand: the clocks start low *)
(* again, initial blocks run again, memories have their initial words, and *)
(* only the traced valuations come back.                                   *)
(*                                                                         *)
(* All signals are traced together, so the per-signal lists of the code    *)
(* are one sequence of valuations here.  The accessors and the assertions  *)
(* on values and histories change nothing and are left out.                *)
(***************************************************************************)
EXTENDS TickEngine, Components, FiniteSets, Functions

CONSTANTS
  Settable,   \* the signals a test sets,
  Forceable,  \* those it forces,
  Input,      \* and the values it gives them, of any width
  Fit(_),     \* mask_value at the shape of a signal
  MaxForced,  \* the most signals a test forces at once
  MaxTicks,   \* the most cycles a test asks for at once
  MaxCycles   \* max_cycles

\* A test names signals of the design; what mask_value makes of a value fits, and
\* is the value itself if that fits already.
ASSUME TestAssumption ==
  /\ Settable \cup Forceable \subseteq Signal
  /\ MaxTicks \in Nat /\ MaxCycles \in Nat
  /\ \A v \in Input \cup Value : Fit(v) \in Value
  /\ \A v \in Value : Fit(v) = v

\* _exec_stmts with and without changed_signals: a block leaves the same, and
\* everything it leaves otherwise than it found is noted.
Tracks(block) ==
  \A S \in Valuation :
    LET r == Track(block, S)
    IN  r \in Tracked /\ [sig |-> r.sig, exit |-> r.exit] = Exec(block, S)
        /\ Differing(r.sig, S) \subseteq r.moved

\* What compile_module gives the engine: ports that name signals, words that fit,
\* components in dependency order, whose blocks are those of the order.  An
\* empty initial block does nothing.
EngineOK(D) ==
  /\ MemoriesOK(D.mems) /\ ComponentsOK(D) /\ OrderOK(D)
  /\ \A i \in 1 .. Len(D.domains) : Tracks(D.domains[i].block)
  /\ \A c \in 1 .. Len(D.comps) : Tracks(D.comps[c].block)
  /\ \A k \in 1 .. Len(D.order) : Tracks(D.order[k])
  /\ \A S \in Valuation :
       /\ (\A k \in 1 .. Len(D.order) : Agrees(D.order[k], S))
            => \A c \in 1 .. Len(D.comps) : Agrees(D.comps[c].block, S)
       /\ D.initial = << >> => Exec(D.initial, S) = Ok(S)

ASSUME EngineAssumption ==
  {LevelValue(0), LevelValue(1)} \subseteq Value /\ \A D \in Designs : EngineOK(D)

VARIABLES
  design,
  sig,      \* _signals
  forced,   \* _forced, a function on the forced signals
  history,  \* _history: the valuations recorded
  cycle,    \* _cycle
  \* Where the test stands, for the properties:
  base,     \* the values when it last touched a signal, or ticked with one forced,
  mark,     \* and how many entries the history had then;
  since,    \* the cycles ticked from there
  whole,    \* no run was ended by $finish
  traced    \* the last call was a tick and brought a trace

touched == <<base, mark, since>>
vars == <<design, sig, forced, history, cycle, touched, whole, traced>>

Fitted(S) == [s \in Signal |-> Fit(S[s])]

\* The ticks of n cycles: of the first clock, or of the timer.
TicksOf(n) == IF HasSeq(design) THEN 2 * n * design.domains[1].hpt ELSE n

Simulate(S, n) == Run(design, Exec(design.initial, Fitted(S)), TicksOf(n))

\* Mutant: the limit is tested before the cycles are added.
InTimeYet(n) == cycle < MaxCycles

InTime(n) == cycle + n <= MaxCycles

\* Mutant: the first entry of a trace is taken for its last.
FirstTraced(S, t) == IF t.traces = << >> THEN S ELSE Head(t.traces)

\* A run that traces nothing leaves the values as they were.
LastTraced(S, t) == IF t.traces = << >> THEN S ELSE Last(t.traces)

\* Mutant: a call records its last valuation only.
RecordedOnce(S, n, t) == <<LastTraced(S, t)>>

Recorded(S, n, t) == IF t.traces = << >> THEN [i \in 1 .. n |-> S] ELSE t.traces

Touch(S) == base' = S /\ mark' = Len(history') /\ since' = 0

Init ==
  /\ design \in Designs
  /\ sig = design.init /\ history = <<sig>> /\ cycle = 0
  /\ forced = << >>
  /\ base = sig /\ mark = 1 /\ since = 0
  /\ whole = TRUE /\ traced = FALSE

SetSignal(s, v) ==
  /\ sig' = [sig EXCEPT ![s] = v]
  /\ traced' = FALSE
  /\ UNCHANGED <<design, forced, history, cycle, whole>>
  /\ Touch(sig')

ForceSignal(s, v) ==
  /\ Cardinality(DOMAIN forced \cup {s}) <= MaxForced
  /\ forced' = [x \in DOMAIN forced \cup {s} |-> IF x = s THEN v ELSE forced[x]]
  /\ sig' = [sig EXCEPT ![s] = v]
  /\ traced' = FALSE
  /\ UNCHANGED <<design, history, cycle, whole>>
  /\ Touch(sig')

\* The signal keeps the forced value until a tick computes another.
ReleaseSignal(s) ==
  /\ s \in DOMAIN forced
  /\ forced' = Restrict(forced, DOMAIN forced \ {s})
  /\ traced' = FALSE
  /\ UNCHANGED <<design, sig, history, cycle, whole>>
  /\ Touch(sig)

\* What a call does with its run.  Forced values replace what the run left; the
\* history keeps that.
Takes(n, t) ==
  LET S == LastTraced(sig, t)
  IN  /\ t.exit # "error"
      /\ sig' = [s \in Signal |-> IF s \in DOMAIN forced THEN forced[s] ELSE S[s]]
      /\ history' = history \o Recorded(sig, n, t)
      /\ cycle' = cycle + n
      /\ whole' = (whole /\ t.exit = "ok")
      /\ traced' = (t.traces # << >>)
      /\ IF forced = << >> THEN since' = since + n /\ UNCHANGED <<base, mark>> ELSE Touch(sig')
      /\ UNCHANGED <<design, forced>>

Tick(n) == InTime(n) /\ Takes(n, Simulate(sig, n))

\* TestbenchTimeout, or what the run raised: nothing has changed.
TickRaises(n) ==
  /\ ~InTime(n) \/ Simulate(sig, n).exit = "error"
  /\ UNCHANGED vars

Next ==
  \/ \E s \in Settable : \E v \in Input : SetSignal(s, v)
  \/ \E s \in Forceable : \E v \in Input : ForceSignal(s, v)
  \/ \E s \in Forceable : ReleaseSignal(s)
  \/ \E n \in 1 .. MaxTicks : Tick(n) \/ TickRaises(n)

Spec == Init /\ [][Next]_vars

-----------------------------------------------------------------------------
\* Properties.

TypeOK ==
  /\ sig \in [Signal -> Input \cup Value]
  /\ DOMAIN forced \subseteq Forceable /\ \A s \in DOMAIN forced : forced[s] \in Input
  /\ history \in Seq([Signal -> Input \cup Value])
  /\ cycle \in 0 .. MaxCycles /\ since \in 0 .. cycle
  /\ traced => \A s \in Signal \ DOMAIN forced : sig[s] \in Value

\* Every domain toggles in every tick: a run ends with its clocks low again.
SingleRate == \A i \in 1 .. Len(design.domains) : design.domains[i].hpt = 1

Stateless == design.mems = << >> /\ design.initial = << >>

\* Calls of tick compose ("Batch tick(10) should give same result as 10 x
\* tick(1)", tests/test_testbench.py): since the test last touched a signal, the
\* values are those one run of all the cycles leaves.  Clocks of several rates,
\* initial blocks and memories start again at every call, and so does a design
\* that $finish had stopped.
TicksCompose ==
  since > 0 /\ SingleRate /\ Stateless /\ whole => sig = LastTraced(base, Simulate(base, since))

\* One entry of the history per cycle, those of one run, when one edge of one
\* rate fires all the domains and no asynchronous reset holds one back.
HistoryPerCycle ==
  LET D == design.domains
      uniform == /\ SingleRate /\ whole
                 /\ \A i, j \in 1 .. Len(D) : D[i].edge = D[j].edge /\ D[i].edge # "both"
                 /\ \A i \in 1 .. Len(D) : D[i].style # "async"
  IN  uniform =>
        /\ Len(history) = cycle + 1
        /\ since > 0 /\ Stateless =>
             SubSeq(history, mark + 1, Len(history)) = Simulate(base, since).traces

\* After a tick that brought a trace, with nothing forced any more, no
\* combinational value is left over from what a test set or forced before.  (With
\* memories one may: what the ports read before the first edge is not settled.)
SettledAfterTick ==
  traced /\ forced = << >> /\ whole /\ design.mems = << >> =>
    \A c \in 1 .. Len(design.comps) : Exec(design.comps[c].block, sig).sig = sig
=============================================================================
