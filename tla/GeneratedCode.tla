--------------------------- MODULE GeneratedCode ---------------------------
(***************************************************************************)
(* What the Python text computes that CodeGen (compiler/codegen.py) emits  *)
(* for the expressions and statements of the IR: _emit_expr_local and      *)
(* _compile_stmt_local, of which build_run_loop and compile_expr_block     *)
(* make their functions.                                                   *)
(*                                                                         *)
(* The text of a subexpression is pasted into that of the expression       *)
(* around it.  Almost every text is parenthesised or an atom; but for a    *)
(* signed shape _emit_mask gives ((v & mask) ^ sign) - sign, and what      *)
(* Python makes of the operator pasted beside it depends on precedence.    *)
(* So a text is modelled as a record [head, sub]: it reads "head - sub",   *)
(* or just "head", which binds like an atom, when sub is 0.                *)
(***************************************************************************)
EXTENDS Statements

Atom(v) == [head |-> v, sub |-> 0]

\* The value of a text on its own, and beside an operator that binds weaker
\* than "-": +, <<, >>, &, ^, | and the comparisons.
Whole(c) == c.head - c.sub

\* Mutant: no sign extension.
EmitUnsigned(v, shape) == Atom(Bits(v, shape.width))

EmitMask(v, shape) ==
  IF shape.width = 0 THEN Atom(0)
  ELSE IF shape.signed
       THEN LET sign == 2^(shape.width - 1)
            IN  [head |-> Bits(v, shape.width) ^^ sign, sub |-> sign]
       ELSE Atom(Bits(v, shape.width))

\* "~c" and "-c" take the head alone.
EmitUnary(op, c, aShape, out) ==
  CASE op = "NOT" -> EmitMask((-c.head - 1) - c.sub, out)
    [] op = "NEG" -> EmitMask(-c.head - c.sub, out)
    [] OTHER      -> Atom(EvalUnary(op, Whole(c), aShape, out))

\* "l * r", "l / r" and "l % r" take what stands next to the operator: the last
\* term of l and the head of r.  A division by the head of a right operand that
\* is not zero as a whole, but whose head is, would fail: the designs avoid it.
\* int() truncates the whole of "l / r".
Product(l, r) == IF l.sub = 0 THEN l.head * r.head - r.sub ELSE l.head - l.sub * r.head - r.sub
Quotient(l, r) ==
  IF l.sub = 0 THEN TruncDiv(l.head - r.sub * r.head, r.head)
  ELSE TruncDiv((l.head - r.sub) * r.head - l.sub, r.head)
Remainder(l, r) ==
  IF l.sub = 0 THEN PyMod(l.head, r.head) - r.sub ELSE l.head - PyMod(l.sub, r.head) - r.sub

\* "l - r" takes the head of r alone.
EmitArithmetic(op, l, r, lShape, rShape, out) ==
  CASE op = "SUB" -> Whole(l) - r.head - r.sub
    [] op = "MUL" -> Product(l, r)
    [] op = "DIV" -> IF Whole(r) = 0 THEN 0 ELSE Quotient(l, r)
    [] op = "MOD" -> IF Whole(r) = 0 THEN 0 ELSE Remainder(l, r)
    [] OTHER      -> Arithmetic(op, Whole(l), Whole(r), lShape, rShape, out)

EmitBinary(op, l, r, lShape, rShape, out) ==
  IF op \in Comparisons
  THEN Atom(Truth(Compare(op, Whole(l), Whole(r))))
  ELSE EmitMask(EmitArithmetic(op, l, r, lShape, rShape, out), out)

\* _emit_expr_local.
RECURSIVE EmitExpr(_, _)
EmitExpr(e, S) ==
  CASE e.k = "const"  -> Atom(MaskValue(e.value, e.shape))
    [] e.k = "ref"    -> EmitMask(S[e.name], e.shape)
    [] e.k = "unary"  -> EmitUnary(e.op, EmitExpr(e.operand, S), e.operand.shape, e.shape)
    [] e.k = "binary" ->
         EmitBinary(e.op, EmitExpr(e.left, S), EmitExpr(e.right, S),
                    e.left.shape, e.right.shape, e.shape)
    [] e.k = "mux"    ->
         LET arm == IF Whole(EmitExpr(e.sel, S)) # 0 THEN e.ifTrue ELSE e.ifFalse
         IN  EmitMask(Whole(EmitExpr(arm, S)), e.shape)
    [] e.k = "concat" ->
         LET Join(acc, p) == acc * 2^p.shape.width + Bits(Whole(EmitExpr(p, S)), p.shape.width)
         IN  EmitMask(FoldLeft(Join, 0, e.parts), e.shape)
    [] e.k = "slice"  ->
         EmitMask(Bits(Whole(EmitExpr(e.value, S)) \div 2^e.low, e.high - e.low), e.shape)

\* The value an assignment, a condition or a switch computes.
Compiled(e, S) == Whole(EmitExpr(e, S))

\* _compile_stmts_local: $readmem compiles to nothing.
RECURSIVE RunFrom(_, _)
RunFrom(block, start) ==
  LET Step(acc, s) ==
        CASE s.k = "assign" ->
               [acc EXCEPT !.sig[s.target] = Whole(EmitMask(Compiled(s.value, acc.sig), s.shape))]
          [] s.k = "if" -> RunFrom(IF Compiled(s.cond, acc.sig) # 0 THEN s.then ELSE s.else, acc)
          [] s.k = "switch" -> RunFrom(SwitchBody(s.cases, Compiled(s.test, acc.sig)), acc)
          [] s.k = "assert" ->
               IF Compiled(s.cond, acc.sig) # 0 THEN acc ELSE [acc EXCEPT !.exit = "error"]
          [] s.k = "finish" -> [acc EXCEPT !.exit = "finish"]
          [] s.k \in {"delay", "readmem"} -> acc
  IN  FoldLeft(LAMBDA acc, s : IF acc.exit = "ok" THEN Step(acc, s) ELSE acc, start, block)

CompiledBlock(block, S) == RunFrom(block, [sig |-> S, exit |-> "ok"])
=============================================================================
