---------------------------- MODULE MCCocotbStep ----------------------------
(* The cocotb scheduler under every testbench of a few callbacks. *)
EXTENDS CocotbStep, MCDesigns

\* A register and a chain of components after it.
RegisterIR ==
  IR(<<NoReset("sync", "clk", "pos", 4)>>,
     <<Sequential("sync", <<Set("q", Flip(Ref("q")))>>)>>,
     <<<<Set("z", Bin("AND", Ref("y"), Ref("d")))>>, <<Set("y", Flip(Ref("q")))>>>>,
     {})

\* A register that is the clock of a second domain, and a clock gated by a
\* component.
DerivedIR ==
  IR(<<NoReset("a", "clk", "pos", 4), NoReset("b", "q", "both", 4), NoReset("c", "z", "pos", 4)>>,
     <<Sequential("a", <<Set("q", Ref("d"))>>), Sequential("b", <<Set("r", Flip(Ref("r")))>>)>>,
     <<<<Set("z", Bin("AND", Ref("clk"), Ref("q")))>>, <<Set("y", Ref("r"))>>>>,
     {})

\* Both edges, an asynchronous reset that the testbench pulls, and $finish.
ResetIR ==
  IR(<<WithReset(OnLine(NoReset("up", "clk", "pos", 4), "d"), "async", TRUE),
       WithReset(OnLine(NoReset("down", "clk", "neg", 4), "d"), "sync", TRUE)>>,
     <<Sequential("up", <<Set("q", Lit(1))>>),
       Sequential("down", <<When(Ref("q"), <<Set("r", Lit(1))>>, <<Stop>>)>>)>>,
     <<<<Set("z", Bin("XOR", Ref("q"), Ref("r")))>>>>,
     {"d"})

\* A memory of one word written and read on the clock.
StoreIR ==
  [IR(<<NoReset("sync", "clk", "pos", 4)>>, << >>,
      <<<<Set("z", Ref("y"))>>>>, {})
   EXCEPT !.mems = <<[depth |-> 2, init |-> Words(2), mask |-> WordMask,
                      writes |-> <<Write("sync", "d", "rst", "d")>>,
                      reads |-> <<SyncRead("sync", "rst", "y", << >>), CombRead("d", "q")>>]>>]

TheDesigns ==
  { CompileModule(ir) : ir \in {RegisterIR, DerivedIR, ResetIR, StoreIR} }

Put(s, v) == [sig |-> s, value |-> v]
TheDeposits == {Put("clk", 1), Put("clk", 0), Put("d", 1)}

Reg(kind) == [kind |-> kind, delay |-> 1, sig |-> "clk", edge |-> "any"]
OnEdge(s, edge) == [kind |-> "watch", delay |-> 1, sig |-> s, edge |-> edge]
TheRegistrations == {Reg("timed"), Reg("rw"), Reg("ro"), OnEdge("clk", "rising"), OnEdge("z", "any")}
=============================================================================
