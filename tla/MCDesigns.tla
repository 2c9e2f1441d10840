----------------------------- MODULE MCDesigns -----------------------------
(***************************************************************************)
(* Small designs to run the tick engines on, as IR modules, compiled by    *)
(* CompileModule.  All share one set of one-bit signals; a design leaves   *)
(* the ones it does not name at 0.                                         *)
(***************************************************************************)
EXTENDS Compile

MCSignal == {"clk", "clk2", "rst", "d", "q", "r", "y", "z"}
MCValue  == {0, 1}
MCExec(block, S) == ExecBlock(block, S)

-----------------------------------------------------------------------------
\* The IR's constructors, for one-bit unsigned signals.

Bit == [width |-> 1, signed |-> FALSE]

Lit(v)        == [k |-> "const", value |-> v, shape |-> Bit]
Ref(s)        == [k |-> "ref", name |-> s, shape |-> Bit]
Flip(e)        == [k |-> "unary", op |-> "NOT", operand |-> e, shape |-> Bit]
Bin(op, a, b) == [k |-> "binary", op |-> op, left |-> a, right |-> b, shape |-> Bit]

Set(s, e)      == [k |-> "assign", target |-> s, value |-> e, shape |-> Bit]
When(c, t, e)  == [k |-> "if", cond |-> c, then |-> t, else |-> e]
Case(e, cases) == [k |-> "switch", test |-> e, cases |-> cases]
On(v, body)    == [isDefault |-> FALSE, pattern |-> v, body |-> body]
Else(body)     == [isDefault |-> TRUE, pattern |-> 0, body |-> body]
Check(c)      == [k |-> "assert", cond |-> c]
Stop           == [k |-> "finish"]

NoReset(name, clk, edge, period) ==
  [name |-> name, clk |-> clk, edge |-> edge, rst |-> "rst", style |-> "none",
   activeHigh |-> TRUE, period |-> period]
WithReset(d, style, high) == [d EXCEPT !.style = style, !.activeHigh = high]
OnLine(d, line) == [d EXCEPT !.rst = line]

Sequential(name, block) == [domain |-> name, block |-> block]

AllZero == [s \in MCSignal |-> 0]

\* The valuations that give the named signals any value and the rest init's.
Loads(init, names) ==
  { [s \in MCSignal |-> IF s \in names THEN f[s] ELSE init[s]] : f \in [names -> MCValue] }

IR(domains, seqs, combs, loads) ==
  [domains |-> domains, seqs |-> seqs, combs |-> combs, initial |-> << >>,
   init |-> AllZero, starts |-> Loads(AllZero, loads), mems |-> << >>, cycles |-> 2]

-----------------------------------------------------------------------------
\* Designs in which only ticks that fire move what components read.

\* A two-bit counter with a synchronous reset to 2, and two components.
CounterIR ==
  LET init == [AllZero EXCEPT !["r"] = 1]
  IN  [IR(<<WithReset(NoReset("sync", "clk", "pos", 4), "sync", TRUE)>>,
          <<Sequential("sync", <<When(Ref("q"), <<Set("r", Flip(Ref("r")))>>, << >>),
                                Set("q", Flip(Ref("q")))>>)>>,
          <<<<Set("y", Bin("AND", Ref("q"), Ref("r")))>>, <<Set("z", Ref("d"))>>>>,
          {}) EXCEPT !.init = init,
                     !.starts = Loads(init, {"clk", "rst", "d", "q", "r"}),
                     !.cycles = 3]

\* Components in an order that only the dependency analysis puts right, and a
\* register fed from the end of the chain.
ChainIR ==
  IR(<<NoReset("sync", "clk", "pos", 4)>>,
     <<Sequential("sync", <<Set("q", Bin("XOR", Ref("z"), Ref("d")))>>)>>,
     <<<<Set("z", Flip(Ref("y")))>>,
       <<Case(Ref("q"), <<Else(<<Set("y", Lit(0))>>), On(1, <<Set("y", Ref("d"))>>)>>)>>>>,
     {"d", "q"})

\* Both edges of one clock: every tick fires, and a component reads the clock.
BothEdgesIR ==
  IR(<<NoReset("up", "clk", "pos", 4), WithReset(NoReset("down", "clk", "neg", 4), "async", FALSE)>>,
     <<Sequential("down", <<Set("r", Ref("q"))>>), Sequential("up", <<Set("q", Flip(Ref("q")))>>)>>,
     <<<<Set("y", Bin("AND", Ref("clk"), Ref("q")))>>, <<Set("z", Bin("OR", Ref("r"), Ref("d")))>>>>,
     {"rst", "r"})

\* Two clocks of one period; the second domain reads what the first has just
\* written, and one domain has blocks on both edges.
TwoClocksIR ==
  IR(<<NoReset("a", "clk", "pos", 4), NoReset("b", "clk2", "both", 4)>>,
     <<Sequential("b", <<Set("r", Ref("q"))>>), Sequential("a", <<Set("q", Flip(Ref("q")))>>)>>,
     <<<<Set("y", Bin("XOR", Ref("q"), Ref("r")))>>>>,
     {"q", "r"})

\* Half periods of two and three ticks; registers cross between the domains.
GearsIR ==
  IR(<<NoReset("a", "clk", "pos", 4), NoReset("b", "clk2", "neg", 6)>>,
     <<Sequential("a", <<Set("q", Bin("XOR", Ref("r"), Ref("d")))>>),
       Sequential("b", <<Set("r", Flip(Ref("q")))>>)>>,
     <<<<Set("y", Bin("XOR", Ref("q"), Ref("r")))>>, <<Set("z", Ref("q"))>>>>,
     {"d", "q", "r"})

\* One domain with an asynchronous reset.
AsyncIR ==
  LET init == [AllZero EXCEPT !["q"] = 1]
  IN  [IR(<<WithReset(NoReset("sync", "clk", "pos", 4), "async", TRUE)>>,
          <<Sequential("sync", <<Set("r", Ref("q")), Set("q", Ref("d"))>>)>>,
          <<<<Set("y", Bin("OR", Ref("q"), Ref("r")))>>>>,
          {}) EXCEPT !.init = init, !.starts = Loads(init, {"rst", "d", "q", "r"})]

\* $finish in a sequential block after a write, and an assertion.
FinishSeqIR ==
  IR(<<NoReset("sync", "clk", "pos", 4)>>,
     <<Sequential("sync", <<Set("q", Flip(Ref("q"))),
                            When(Bin("AND", Ref("q"), Ref("d")), <<Set("r", Lit(1)), Stop>>, << >>),
                            Check(Flip(Ref("rst")))>>)>>,
     <<<<Set("y", Ref("q"))>>>>,
     {"rst", "d", "q"})

\* $finish and an assertion in components: reached by the seed or by a tick.
FinishCombIR ==
  IR(<<NoReset("sync", "clk", "pos", 4)>>,
     <<Sequential("sync", <<Set("r", Ref("q")), Set("q", Lit(1))>>)>>,
     <<<<Set("y", Ref("q")), Check(Flip(Bin("AND", Ref("rst"), Ref("q"))))>>,
       <<When(Bin("AND", Ref("r"), Ref("d")), <<Stop>>, << >>), Set("z", Ref("r"))>>>>,
     {"rst", "d", "q"})

\* Initial blocks that load a register, finish or fail.
InitialIR ==
  [IR(<<NoReset("sync", "clk", "neg", 4)>>,
      <<Sequential("sync", <<Set("q", Flip(Ref("q")))>>)>>,
      <<<<Set("y", Ref("q"))>>>>,
      {"d", "rst", "q"})
   EXCEPT !.initial = <<Set("q", Lit(1)), When(Ref("d"), <<Stop>>, << >>), Check(Flip(Ref("rst")))>>]

Synchronous ==
  { CounterIR, ChainIR, BothEdgesIR, TwoClocksIR, GearsIR, AsyncIR, FinishSeqIR, FinishCombIR,
    InitialIR }

-----------------------------------------------------------------------------
\* Designs in which a tick that fires nothing, or another domain, moves what
\* components read.

\* Half periods of two and three ticks; a component reads both clocks.
MultiRateIR ==
  IR(<<NoReset("a", "clk", "pos", 4), NoReset("b", "clk2", "neg", 6)>>,
     <<Sequential("a", <<Set("q", Flip(Ref("q")))>>), Sequential("b", <<Set("r", Ref("q"))>>)>>,
     <<<<Set("y", Bin("AND", Ref("clk"), Ref("clk2")))>>, <<Set("z", Bin("XOR", Ref("q"), Ref("r")))>>>>,
     {"q", "r"})

\* A reset synchroniser: one domain registers the reset line of another.
ResetSynchroniserIR ==
  [IR(<<NoReset("a", "clk", "pos", 4), WithReset(NoReset("b", "clk2", "pos", 4), "async", TRUE)>>,
      <<Sequential("a", <<Set("rst", Ref("r")), Set("r", Ref("d"))>>),
        Sequential("b", <<Set("q", Lit(1))>>)>>,
      <<<<Set("y", Ref("q"))>>>>,
      {"d", "r"}) EXCEPT !.cycles = 4]

\* A component that accumulates into a signal the domain also writes.
SharedIR ==
  IR(<<NoReset("sync", "clk", "both", 4)>>,
     <<Sequential("sync", <<Set("q", Ref("r")), Set("r", Flip(Ref("r")))>>)>>,
     <<<<Set("q", Bin("XOR", Ref("q"), Ref("d")))>>, <<Set("z", Ref("clk"))>>>>,
     {"d", "q", "r"})

\* Two domains that set and clear one register within a tick.
RevertIR ==
  IR(<<NoReset("a", "clk", "pos", 4), WithReset(OnLine(NoReset("b", "clk2", "pos", 4), "d"), "sync", FALSE)>>,
     <<Sequential("a", <<Set("q", Lit(1))>>),
       Sequential("b", <<Set("q", Lit(0)), Set("r", Flip(Ref("r"))), Set("r", Flip(Ref("r")))>>)>>,
     <<<<Set("z", Bin("XOR", Ref("z"), Lit(1))), Set("y", Ref("q"))>>, <<Set("rst", Ref("r"))>>>>,
     {"d", "q", "z"})

\* A register that is also the clock of a second domain.
DividerIR ==
  IR(<<NoReset("a", "clk", "pos", 4), NoReset("b", "clk2", "pos", 4)>>,
     <<Sequential("a", <<Set("clk2", Flip(Ref("clk2")))>>),
       Sequential("b", <<Set("q", Flip(Ref("q")))>>)>>,
     <<<<Set("y", Bin("AND", Ref("clk2"), Ref("q")))>>>>,
     {"clk", "clk2"})

\* A memory written and read by one domain, with a transparent, a plain and a
\* combinational read port.
Write(domain, en, addr, data) == [domain |-> domain, en |-> en, addr |-> addr, data |-> data]
SyncRead(domain, addr, data, transparent) ==
  [sync |-> TRUE, domain |-> domain, gated |-> FALSE, en |-> addr, addr |-> addr,
   data |-> data, transparent |-> transparent]
CombRead(addr, data) ==
  [sync |-> FALSE, domain |-> "comb", gated |-> FALSE, en |-> addr, addr |-> addr,
   data |-> data, transparent |-> << >>]
Gated(port, en) == [port EXCEPT !.gated = TRUE, !.en = en]
Words(depth) == [a \in 0 .. depth - 1 |-> a]
WordMask == [v \in MCValue |-> MaskValue(v, Bit)]

MemoryIR ==
  [IR(<<NoReset("sync", "clk", "pos", 4)>>,
      <<Sequential("sync", <<Set("q", Bin("XOR", Ref("q"), Ref("r"))), Set("r", Flip(Ref("r")))>>)>>,
      <<<<Set("rst", Bin("AND", Ref("y"), Ref("z")))>>>>,
      {"d", "q", "r"})
   EXCEPT !.mems = <<[depth |-> 2, init |-> Words(2), mask |-> WordMask,
                      writes |-> <<Write("sync", "d", "q", "r")>>,
                      reads |-> <<SyncRead("sync", "q", "y", << >>), CombRead("q", "z"),
                                  Gated(SyncRead("sync", "r", "clk2", <<1>>), "d")>>]>>]

\* A memory written in one domain, under an asynchronous reset, and read in a
\* slower one, which also changes the data to write between the writer's edges
\* and finishes; the memory has one word, and addresses reach beyond it.
TwoPortIR ==
  [IR(<<WithReset(NoReset("w", "clk", "pos", 4), "async", TRUE), NoReset("rd", "clk2", "both", 8)>>,
      <<Sequential("w", <<Set("r", Flip(Ref("r"))), Set("q", Bin("AND", Ref("q"), Ref("r")))>>),
        Sequential("rd", <<When(Ref("z"), <<Stop>>, << >>), Set("z", Ref("d"))>>)>>,
      << >>,
      {"d", "q", "rst", "r"})
   EXCEPT !.mems = <<[depth |-> 1, init |-> Words(1), mask |-> WordMask,
                      writes |-> <<Write("w", "d", "q", "z")>>,
                      reads |-> <<SyncRead("rd", "q", "y", <<1>>)>>]>>]

\* An assertion in a combinational block of its own, on a toggling register.
AssertionIR ==
  IR(<<NoReset("sync", "clk", "pos", 4)>>,
     <<Sequential("sync", <<Set("q", Flip(Ref("q")))>>)>>,
     <<<<Check(Flip(Ref("q")))>>, <<Set("y", Ref("q"))>>>>,
     {})

\* Arithmetic over values of two bits made of registers.
Wide(signed) == [width |-> 2, signed |-> signed]
Pair(a, b)   == [k |-> "concat", parts |-> <<a, b>>, shape |-> Wide(FALSE)]
Signed(e)    == [k |-> "slice", value |-> e, low |-> 0, high |-> 2, shape |-> Wide(TRUE)]
LowBit(e)    == [k |-> "slice", value |-> e, low |-> 0, high |-> 1, shape |-> Bit]
HighBit(e)   == [k |-> "slice", value |-> e, low |-> 1, high |-> 2, shape |-> Bit]
Select(c, t, f) == [k |-> "mux", sel |-> c, ifTrue |-> t, ifFalse |-> f, shape |-> t.shape]
Calc(op, a, b) == [Bin(op, a, b) EXCEPT !.shape = a.shape]
Negate(op, a)  == [Flip(a) EXCEPT !.op = op, !.shape = a.shape]
Reduce(op, a)  == [Flip(a) EXCEPT !.op = op]
Mix(bits) == FoldLeft(LAMBDA e, b : Bin("XOR", e, b), Head(bits), Tail(bits))

\* Every operator, on unsigned and on signed operands, but the products and
\* quotients of signed ones.
OperatorsIR ==
  LET u == Pair(Ref("q"), Ref("r"))
      v == Pair(Ref("d"), Ref("q"))
      w == Ref("rst")
  IN  IR(<<NoReset("sync", "clk", "pos", 4)>>,
         <<Sequential("sync", <<Set("q", LowBit(Calc("ADD", u, v))), Set("r", HighBit(Calc("SUB", u, v)))>>)>>,
         <<<<Set("y", Mix(<<HighBit(Calc("MUL", u, v)), Bin("LE", Calc("OR", u, v), v), LowBit(Calc("SHL", u, w)),
                            LowBit(Calc("SHR", v, w)), Reduce("RED_AND", u), Reduce("RED_XOR", v),
                            Bin("LOGIC_AND", u, v), HighBit(Negate("NEG", u))>>)),
             Set("z", Mix(<<HighBit(Calc("ADD", Signed(u), Signed(v))), HighBit(Calc("SUB", Signed(u), Signed(v))),
                            Bin("LT", Signed(u), Signed(v)), HighBit(Calc("SHR", Signed(u), w)),
                            LowBit(Negate("NEG", Signed(v))), HighBit(Negate("NOT", Signed(u))),
                            LowBit(Calc("AND", Signed(u), Signed(v))),
                            Bin("GE", Select(w, Signed(u), Signed(v)), Signed(u)), Reduce("RED_OR", Signed(v)),
                            Reduce("BOOL", u), Bin("NE", Signed(u), Signed(v)), Bin("LOGIC_OR", Signed(u), v)>>))>>>>,
         {"d", "q", "r", "rst"})

\* Divisions by registers that are at times 0, and what becomes of the results.
UnknownIR ==
  LET u == Pair(Ref("q"), Ref("d"))
      v == Pair(Ref("y"), Ref("r"))
  IN  IR(<<NoReset("sync", "clk", "pos", 4)>>,
         <<Sequential("sync", <<Set("r", Bin("OR", Ref("y"), Ref("d"))), Set("q", Flip(Ref("q")))>>)>>,
         <<<<Set("y", LowBit(Calc("DIV", u, Pair(Lit(0), Ref("q"))))),
             Set("z", Mix(<<HighBit(Calc("AND", v, u)), LowBit(Calc("OR", v, u))>>)),
             Set("clk2", Select(Ref("y"), LowBit(Calc("XOR", u, v)), Bin("LOGIC_OR", v, Ref("d")))),
             Set("rst", Bin("AND", HighBit(Calc("MOD", u, Pair(Lit(0), Ref("r")))),
                                   Bin("LOGIC_AND", Reduce("RED_OR", v), HighBit(Negate("NOT", v)))))>>>>,
         {"d", "q", "r"})

\* A quotient of signed values.
SignedIR ==
  IR(<<NoReset("sync", "clk", "pos", 4)>>,
     <<Sequential("sync", <<Set("d", LowBit(Calc("DIV", Signed(Pair(Ref("q"), Ref("r"))),
                                                       Signed(Pair(Ref("y"), Lit(1))))))>>)>>,
     << >>,
     {"q", "r", "y"})

\* No sequential logic: blocks in an order the analysis puts right.
CombIR ==
  IR(<<NoReset("sync", "clk", "pos", 4)>>, << >>,
     <<<<Set("z", Flip(Ref("y")))>>, <<Set("y", Bin("AND", Ref("d"), Ref("q")))>>>>,
     {"d", "q"})

-----------------------------------------------------------------------------
\* Hierarchical designs.  The names in an instance are spelt with its own; the
\* eight signals stand for them as Wire says.

Wire == [n \in {"u.clk", "u.a", "u.q", "u.v.a", "u.v.y"} |->
           CASE n = "u.clk" -> "clk2" [] n = "u.a" -> "rst" [] n = "u.q" -> "q"
             [] n = "u.v.a" -> "y" [] n = "u.v.y" -> "r"]
MCDotted(prefix, name) ==
  LET dotted == prefix \o "." \o name
  IN  IF dotted \in DOMAIN Wire THEN Wire[dotted] ELSE dotted

Hierarchy == INSTANCE Flatten WITH Dotted <- MCDotted

Module(name, direction, internals, domains, seqs, combs) ==
  [name |-> name, direction |-> direction, init |-> [s \in DOMAIN direction \cup internals |-> 0],
   domains |-> domains, seqs |-> seqs, combs |-> combs, initial |-> << >>, mems |-> << >>,
   instances |-> << >>, submodules |-> {}]
Instantiate(m, name, child, bindings) ==
  [m EXCEPT !.instances = Append(@, [name |-> name, of |-> child.name, bindings |-> bindings]),
            !.submodules = @ \cup {child}]
To(port, e) == [port |-> port, expr |-> e]

\* The flat module, with the valuations to start from.
Started(m, init, loads) ==
  [m EXCEPT !.init = init] @@ [starts |-> Loads(init, loads), cycles |-> 2]
Extended(m, loads) == Started(m, m.init @@ AllZero, loads)
Flat(m, loads) == Extended(Hierarchy!FlattenModule(m), loads)

Inverter ==
  Module("inverter", [a |-> "input", y |-> "output"], {}, << >>, << >>, <<<<Set("y", Flip(Ref("a")))>>>>)

\* A register, with an inverter on its output.
Stage ==
  Instantiate(
    Module("stage", [clk |-> "input", a |-> "input", q |-> "output"], {},
           <<NoReset("sync", "clk", "pos", 4)>>,
           <<Sequential("sync", <<Case(Ref("a"), <<On(1, <<Set("q", Flip(Ref("q")))>>), Else(<<Set("q", Lit(0))>>)>>)>>)>>,
           << >>),
    "v", Inverter, <<To("a", Ref("q"))>>)

\* The stage in a parent that has a clock domain of its own.
StagesTop ==
  Instantiate(
    Module("top", [clk |-> "input", d |-> "input", z |-> "output"], {},
           <<NoReset("sync", "clk", "pos", 4)>>,
           <<Sequential("sync", <<Set("d", Flip(Ref("z")))>>)>>, << >>),
    "u", Stage, <<To("clk", Ref("clk")), To("a", Flip(Ref("d"))), To("q", Ref("z"))>>)

\* A memory behind ports: its enable, its address and its data are one input.
Store ==
  [Module("store", [clk |-> "input", a |-> "input", q |-> "output"], {},
          <<WithReset(OnLine(NoReset("sync", "clk", "pos", 4), "a"), "sync", FALSE)>>, << >>, << >>)
   EXCEPT !.initial = <<When(Ref("q"), <<Set("q", Lit(0))>>, <<Check(Lit(1))>>)>>,
          !.mems = <<[depth |-> 2, init |-> Words(2), mask |-> WordMask,
                      writes |-> <<Write("sync", "a", "a", "q")>>,
                      reads |-> <<SyncRead("sync", "a", "q", << >>)>>]>>]

StoreTop ==
  Instantiate(
    Module("top", [clk |-> "input", d |-> "input", z |-> "output"], {},
           <<NoReset("sync", "clk", "pos", 4)>>,
           <<Sequential("sync", <<Set("d", Bin("AND", Ref("d"), Ref("z")))>>)>>, << >>),
    "u", Store, <<To("q", Ref("z")), To("a", Ref("d")), To("clk", Ref("clk"))>>)

Hierarchies == {StagesTop, StoreTop}
FlatDesign == [m \in Hierarchies |-> CompileModule(Flat(m, {"d", "q"}))]

-----------------------------------------------------------------------------

Unsettling ==
  { MultiRateIR, ResetSynchroniserIR, SharedIR, RevertIR, DividerIR }

WithMemories ==
  { MemoryIR, TwoPortIR }
=============================================================================
