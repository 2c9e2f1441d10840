-------------------------------- MODULE Eval --------------------------------
(***************************************************************************)
(* The two-state expression evaluator, dau_sim/compiler/eval.py.           *)
(*                                                                         *)
(* An expression of the IR (ir/expr.py) is a record whose field "k" names  *)
(* its class and whose field "shape" is its Shape [width, signed].  Values *)
(* are Python integers: intermediate results are unbounded here too, and   *)
(* only MaskValue brings them back to a width.  $random is left out: the   *)
(* modules that use this one give the program designs without it.          *)
(*                                                                         *)
(* The operators recurse over expression trees: this module is for TLC's   *)
(* runs and is never reached from a module that holds a theorem.           *)
(***************************************************************************)
EXTENDS Integers, Sequences, SequencesExt, FiniteSets, Bitwise

\* The two's complement pattern of v in w bits, v & _width_mask(w).
Bits(v, w) == v % 2^w

\* Truncate to the shape, sign-extend when it is signed.
MaskValue(v, shape) ==
  LET raw == Bits(v, shape.width)
  IN  IF shape.signed /\ shape.width > 0 /\ raw >= 2^(shape.width - 1)
      THEN raw - 2^shape.width
      ELSE raw

Truth(b) == IF b THEN 1 ELSE 0

EvalUnary(op, a, aShape, out) ==
  LET raw == Bits(a, aShape.width)
  IN  CASE op = "NOT"     -> MaskValue(-a - 1, out)
        [] op = "NEG"     -> MaskValue(-a, out)
        [] op = "BOOL"    -> Truth(a # 0)
        [] op = "RED_AND" -> Truth(raw = 2^aShape.width - 1)
        [] op = "RED_OR"  -> Truth(a # 0)
        [] op = "RED_XOR" ->
             Cardinality({ i \in 0 .. aShape.width - 1 : (raw \div 2^i) % 2 = 1 }) % 2

\* Python's int(left / right): the quotient truncated toward zero.  (The
\* double the code divides in is exact up to 2^53, far above TLC's integers.)
TruncDiv(l, r) ==
  LET q == (IF l < 0 THEN -l ELSE l) \div (IF r < 0 THEN -r ELSE r)
  IN  IF (l < 0) = (r < 0) THEN q ELSE -q

\* Python's left % right, which takes the sign of right.
PyMod(l, r) == IF r > 0 THEN l % r ELSE -((-l) % (-r))

Comparisons == {"EQ", "CASE_EQ", "NE", "CASE_NE", "LT", "LE", "GT", "GE", "LOGIC_AND", "LOGIC_OR"}

Compare(op, l, r) ==
  CASE op \in {"EQ", "CASE_EQ"} -> l = r
    [] op \in {"NE", "CASE_NE"} -> l # r
    [] op = "LT" -> l < r
    [] op = "LE" -> l <= r
    [] op = "GT" -> l > r
    [] op = "GE" -> l >= r
    [] op = "LOGIC_AND" -> l # 0 /\ r # 0
    [] op = "LOGIC_OR"  -> l # 0 \/ r # 0

\* The result before it is fitted to the shape out.  A shift amount is never
\* negative here: Python raises on one, and the IR's frontends give shifts an
\* unsigned right operand.
Arithmetic(op, l, r, lShape, rShape, out) ==
  CASE op = "ADD" -> l + r
    [] op = "SUB" -> l - r
    [] op = "MUL" -> l * r
    [] op = "DIV" -> IF r = 0 THEN 0
                     ELSE IF lShape.signed \/ rShape.signed THEN TruncDiv(l, r)
                     ELSE l \div r
    [] op = "MOD" -> IF r = 0 THEN 0 ELSE PyMod(l, r)
    [] op = "AND" -> Bits(l, out.width) & Bits(r, out.width)
    [] op = "OR"  -> Bits(l, out.width) | Bits(r, out.width)
    [] op = "XOR" -> Bits(l, out.width) ^^ Bits(r, out.width)
    [] op = "SHL" -> l * 2^r
    [] op = "SHR" -> (IF lShape.signed THEN l ELSE Bits(l, lShape.width)) \div 2^r

EvalBinary(op, l, r, lShape, rShape, out) ==
  IF op \in Comparisons
  THEN Truth(Compare(op, l, r))
  ELSE MaskValue(Arithmetic(op, l, r, lShape, rShape, out), out)

\* eval_expr: the value of an expression in the signal valuation S.
RECURSIVE EvalExpr(_, _)
EvalExpr(e, S) ==
  CASE e.k = "const" -> MaskValue(e.value, e.shape)
    [] e.k = "ref"   -> MaskValue(S[e.name], e.shape)
    [] e.k = "unary" ->
         EvalUnary(e.op, EvalExpr(e.operand, S), e.operand.shape, e.shape)
    [] e.k = "binary" ->
         EvalBinary(e.op, EvalExpr(e.left, S), EvalExpr(e.right, S),
                    e.left.shape, e.right.shape, e.shape)
    [] e.k = "mux" ->
         MaskValue(EvalExpr(IF EvalExpr(e.sel, S) # 0 THEN e.ifTrue ELSE e.ifFalse, S),
                   e.shape)
    [] e.k = "concat" ->
         MaskValue(FoldLeft(LAMBDA acc, p : acc * 2^p.shape.width
                                            + Bits(EvalExpr(p, S), p.shape.width),
                            0, e.parts),
                   e.shape)
    [] e.k = "slice" ->
         MaskValue(Bits(EvalExpr(e.value, S) \div 2^e.low, e.high - e.low), e.shape)

\* collect_reads: the signals an expression reads.
RECURSIVE Reads(_)
Reads(e) ==
  CASE e.k = "const"  -> {}
    [] e.k = "ref"    -> {e.name}
    [] e.k = "unary"  -> Reads(e.operand)
    [] e.k = "binary" -> Reads(e.left) \cup Reads(e.right)
    [] e.k = "mux"    -> Reads(e.sel) \cup Reads(e.ifTrue) \cup Reads(e.ifFalse)
    [] e.k = "concat" -> UNION { Reads(p) : p \in ToSet(e.parts) }
    [] e.k = "slice"  -> Reads(e.value)
=============================================================================
