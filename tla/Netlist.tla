------------------------------ MODULE Netlist ------------------------------
(***************************************************************************)
(* A compiled design as the tick engines see it (CompiledModule and its    *)
(* _domain_info, compiler/compile.py), and what both engines do with one:  *)
(* which clock edges fire a domain, when a reset is active and what it     *)
(* writes.                                                                 *)
(*                                                                         *)
(* What a block of statements computes is left to the constant operator    *)
(* Exec, so that the engines can be reasoned about for every expression    *)
(* language; the model-checking modules supply ExecBlock of Statements.    *)
(***************************************************************************)
EXTENDS Integers, Sequences

CONSTANTS
  Signal,      \* names of signals
  Value,       \* what a signal may hold; 0 and 1 are the levels of a clock
  Exec(_, _),  \* Exec(block, S): the outcome of running a block on S
  Designs      \* the compiled designs under consideration

Valuation == [Signal -> Value]

\* A block runs to its end, raises SimulationFinish ($finish), or raises
\* another exception (a failed assertion, a misplaced $readmem).
Outcome == [sig : Valuation, exit : {"ok", "finish", "error"}]

\* Running b on S changes no signal but those of a set.
WritesOnly(b, set) ==
  \A S \in Valuation : \A s \in Signal \ set : Exec(b, S).sig[s] = S[s]

BlockTotal(b) == \A S \in Valuation : Exec(b, S) \in Outcome

\* One entry of _domain_info; style "none" stands for rst None.
DomainOK(d) ==
  /\ d.clk \in Signal /\ d.rst \in Signal
  /\ d.edge \in {"pos", "neg", "both"}
  /\ d.style \in {"none", "sync", "async"}
  /\ d.activeHigh \in BOOLEAN
  /\ d.hpt \in Nat \ {0}
  /\ d.written \subseteq Signal
  /\ BlockTotal(d.block)
  /\ WritesOnly(d.block, d.written)

\* An AssignmentComponent: the signals it touches, those it writes, and its
\* statements as one block.
ComponentOK(c) ==
  /\ c.signals \subseteq Signal
  /\ c.writes \subseteq c.signals
  /\ BlockTotal(c.block)
  /\ WritesOnly(c.block, c.writes)

DesignOK(D) ==
  /\ Len(D.domains) \in Nat \ {0}
  /\ \A i \in 1 .. Len(D.domains) : DomainOK(D.domains[i])
  /\ Len(D.comps) \in Nat
  /\ \A i \in 1 .. Len(D.comps) : ComponentOK(D.comps[i])
  /\ BlockTotal(D.initial)
  /\ D.init \in Valuation
  /\ D.starts \subseteq Valuation
  /\ D.ticks \in Nat

ASSUME ValueAssumption == {0, 1} \subseteq Value /\ Value \subseteq Int

ASSUME DesignAssumption == \A D \in Designs : DesignOK(D)

-----------------------------------------------------------------------------

\* Mutant: falling edges are taken for rising ones.
EdgeFiresRisingOnly(edge, level) == edge = "both" \/ level = 1

\* A clock that has just reached this level made an edge of this polarity.
EdgeFires(edge, level) ==
  \/ edge = "both"
  \/ edge = "pos" /\ level = 1
  \/ edge = "neg" /\ level = 0

ResetActive(d, S) == (S[d.rst] # 0) = d.activeHigh

\* Every signal the domain writes goes to its init value.
ApplyReset(d, init, S) ==
  [s \in Signal |-> IF s \in d.written THEN init[s] ELSE S[s]]

Ok(S) == [sig |-> S, exit |-> "ok"]

\* Running the block on S changes nothing: what it computes agrees with what it
\* reads.
Agrees(block, S) == Exec(block, S) = Ok(S)

\* A block of a sequence, unless an earlier one raised.
Then(block) == [r \in Outcome |-> IF r.exit = "ok" THEN Exec(block, r.sig) ELSE r]

Differing(S, T) == { s \in Signal : S[s] # T[s] }

\* A sequence of functions applied in turn, beginning with a: a loop over a list
\* in a form that proofs can take apart (the folds take an operator).
Through(steps, a) ==
  LET after[k \in 0 .. Len(steps)] == IF k = 0 THEN a ELSE steps[k][after[k - 1]]
  IN  after[Len(steps)]
=============================================================================
