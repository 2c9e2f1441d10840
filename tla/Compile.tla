------------------------------ MODULE Compile ------------------------------
(***************************************************************************)
(* From an IR module to the compiled design the tick engines run:          *)
(* compile_module, _build_domain_info and _compute_half_period_ticks of    *)
(* compiler/compile.py.                                                    *)
(*                                                                         *)
(* An IR module is a record with the fields                                *)
(*   domains  its clock domains, a sequence (the order of the dictionary)  *)
(*            of [name, clk, edge, rst, style, activeHigh, period]; style  *)
(*            is "none" for a domain without a reset, period is in ns;     *)
(*   seqs     its sequential blocks, a sequence of [domain, block];        *)
(*   combs    its combinational blocks;                                    *)
(*   initial  the statements of its initial blocks;                        *)
(*   init     the declared init value of every signal;                     *)
(*   starts   the valuations a run may start from: init overridden by the  *)
(*            inputs given to run(), which may name any signal;            *)
(*   mems     its memories (see Memory.tla);                               *)
(*   cycles   the number of cycles the run is asked for.                   *)
(***************************************************************************)
EXTENDS DepAnalysis

RECURSIVE Gcd(_, _)
Gcd(a, b) == IF b = 0 THEN a ELSE Gcd(b, a % b)

\* Half a period in ns, at least 1.
HalfPeriod(period) == IF period \div 2 < 1 THEN 1 ELSE period \div 2

\* The simulation tick in ns: the largest that divides every half period.
TickLength(ir) ==
  FoldLeft(LAMBDA g, d : Gcd(HalfPeriod(d.period), g), 0, ir.domains)

\* The statements of a domain: its sequential blocks in source order.
SeqBody(ir, domain) ==
  FlattenSeq([i \in 1 .. Len(ir.seqs) |->
                IF ir.seqs[i].domain = domain THEN ir.seqs[i].block ELSE << >>])

DomainInfo(ir, d) ==
  [clk        |-> d.clk,
   edge       |-> d.edge,
   rst        |-> d.rst,
   style      |-> d.style,
   activeHigh |-> d.activeHigh,
   written    |-> BlockWrites(SeqBody(ir, d.name)),
   block      |-> SeqBody(ir, d.name),
   name       |-> d.name,
   hpt        |-> HalfPeriod(d.period) \div TickLength(ir)]

\* compile_module: the combinational blocks in dependency order.
CombOrder(ir) == TopologicalSort(BuildAssignments(ir.combs))

\* The compiled design: its combinational blocks in that order, and as
\* components.  The run lasts the given number of cycles of the first domain,
\* whatever the other domains' periods; without a domain a cycle is a tick.
Assembled(ir, domains, sorted) ==
  [domains |-> domains,
   order   |-> [n \in DOMAIN sorted |-> sorted[n].block],
   comps   |-> PartitionAssignments(sorted),
   initial |-> ir.initial,
   init    |-> ir.init,
   starts  |-> ir.starts,
   mems    |-> ir.mems,
   ticks   |-> IF domains = << >> THEN ir.cycles ELSE 2 * ir.cycles * domains[1].hpt]

CompileModule(ir) ==
  Assembled(ir, [i \in 1 .. Len(ir.domains) |-> DomainInfo(ir, ir.domains[i])], CombOrder(ir))
=============================================================================
