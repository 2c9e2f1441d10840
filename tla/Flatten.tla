------------------------------ MODULE Flatten ------------------------------
(***************************************************************************)
(* The hierarchy flattener (compiler/flatten.py) and the rewriting of      *)
(* names it uses (compiler/rewrite.py).                                    *)
(*                                                                         *)
(* A hierarchical module is an IR module (see Compile.tla; its init gives  *)
(* the names of its ports and signals) with the further fields             *)
(*   name        its name;                                                 *)
(*   direction   [its ports -> {"input", "output", "inout"}];              *)
(*   instances   a sequence of [name, of, bindings], the bindings a        *)
(*               sequence of [port, expr];                                 *)
(*   submodules  the definitions its instances are of, a set.              *)
(* An instance without a definition, and a statement that reads a file in  *)
(* an instantiated module, make the code raise; they are left out.         *)
(***************************************************************************)
EXTENDS Integers, Sequences, SequencesExt

CONSTANT Dotted(_, _)  \* Dotted(prefix, name) is the name prefix.name

\* prefix_expr
PrefixExpr(e, p) ==
  LET RECURSIVE Prefix(_)
      Prefix(x) ==
        CASE x.k = "const"  -> x
          [] x.k = "ref"    -> [x EXCEPT !.name = Dotted(p, @)]
          [] x.k = "unary"  -> [x EXCEPT !.operand = Prefix(@)]
          [] x.k = "binary" -> [x EXCEPT !.left = Prefix(@), !.right = Prefix(@)]
          [] x.k = "mux"    -> [x EXCEPT !.sel = Prefix(@), !.ifTrue = Prefix(@), !.ifFalse = Prefix(@)]
          [] x.k = "concat" -> [x EXCEPT !.parts = [n \in DOMAIN @ |-> Prefix(@[n])]]
          [] x.k = "slice"  -> [x EXCEPT !.value = Prefix(@)]
  IN  Prefix(e)

\* prefix_stmts
RECURSIVE PrefixStmts(_, _)
PrefixStmts(block, p) ==
  LET Prefix(s) ==
        CASE s.k = "assign" -> [s EXCEPT !.target = Dotted(p, @), !.value = PrefixExpr(@, p)]
          [] s.k = "if"     -> [s EXCEPT !.cond = PrefixExpr(@, p), !.then = PrefixStmts(@, p),
                                         !.else = PrefixStmts(@, p)]
          [] s.k = "switch" -> [s EXCEPT !.test = PrefixExpr(@, p),
                                         !.cases = [n \in DOMAIN @ |->
                                                      [@[n] EXCEPT !.body = PrefixStmts(@, p)]]]
          [] s.k = "assert" -> [s EXCEPT !.cond = PrefixExpr(@, p)]
          [] s.k \in {"finish", "delay"} -> s
  IN  [n \in DOMAIN block |-> Prefix(block[n])]

\* A clock domain of an instance; style "none" stands for rst None.
PrefixDomain(d, p) ==
  [d EXCEPT !.name = Dotted(p, @), !.clk = Dotted(p, @),
            !.rst = IF d.style = "none" THEN @ ELSE Dotted(p, @)]

\* transparent lists write ports by number, and stays.
PrefixMemory(mem, p) ==
  LET Write(w) == [w EXCEPT !.addr = Dotted(p, @), !.data = Dotted(p, @), !.en = Dotted(p, @),
                            !.domain = Dotted(p, @)]
      Read(r)  == [r EXCEPT !.addr = Dotted(p, @), !.data = Dotted(p, @),
                            !.en = IF r.gated THEN Dotted(p, @) ELSE @,
                            !.domain = IF r.sync THEN Dotted(p, @) ELSE @]
  IN  [mem EXCEPT !.writes = [n \in DOMAIN @ |-> Write(@[n])],
                  !.reads  = [n \in DOMAIN @ |-> Read(@[n])]]

PrefixInit(init, p) ==
  [n \in { Dotted(p, x) : x \in DOMAIN init } |->
     init[CHOOSE x \in DOMAIN init : Dotted(p, x) = n]]

\* The assignments of one binding: an input takes the parent's expression, an
\* output goes to the parent's signal, if the expression is one; a port that
\* the child does not declare counts as an input.
Bind(b, child, p) ==
  LET port == Dotted(p, b.port)
      dir  == IF b.port \in DOMAIN child.direction THEN child.direction[b.port] ELSE "input"
      In   == <<[k |-> "assign", target |-> port, value |-> b.expr, shape |-> b.expr.shape]>>
      Out  == IF b.expr.k = "ref"
              THEN <<[k |-> "assign", target |-> b.expr.name,
                      value |-> [b.expr EXCEPT !.name = port], shape |-> b.expr.shape]>>
              ELSE << >>
  IN  (IF dir = "output" THEN << >> ELSE In) \o (IF dir = "input" THEN << >> ELSE Out)

RECURSIVE FlattenModule(_)

\* Mutant: the instances of an instance are forgotten.
ChildAsDeclared(m) == m

ChildFlat(m) == FlattenModule(m)

\* What an instance adds to its parent, after what is there; all its bindings
\* make one combinational block.
Inline(acc, inst, child) ==
  LET p     == inst.name
      wires == FlattenSeq([n \in DOMAIN inst.bindings |-> Bind(inst.bindings[n], child, p)])
      Block == IF wires = << >> THEN << >> ELSE <<wires>>
      Each(seq, Op(_, _)) == [n \in DOMAIN seq |-> Op(seq[n], p)]
      PrefixSeq(s, q) == [domain |-> Dotted(q, s.domain), block |-> PrefixStmts(s.block, q)]
  IN  [acc EXCEPT
         !.init    = PrefixInit(child.init, p) @@ @,
         !.domains = @ \o Each(child.domains, PrefixDomain),
         !.combs   = @ \o Each(child.combs, PrefixStmts) \o Block,
         !.seqs    = @ \o Each(child.seqs, PrefixSeq),
         !.initial = @ \o PrefixStmts(child.initial, p),
         !.mems    = @ \o Each(child.mems, PrefixMemory)]

\* flatten_module
FlattenModule(m) ==
  LET Step(acc, inst) ==
        Inline(acc, inst, ChildFlat(CHOOSE d \in m.submodules : d.name = inst.of))
  IN  [FoldLeft(Step, m, m.instances) EXCEPT !.instances = << >>, !.submodules = {}]
=============================================================================
