----------------------------- MODULE FourState -----------------------------
(***************************************************************************)
(* Four-state values (FourState, ir/types.py), the four-state expression   *)
(* evaluator (compiler/eval4.py) and the execution of statements on four-  *)
(* state valuations (_exec_stmt_4, compiler/compile.py).                   *)
(*                                                                         *)
(* A value is a record [shape, aval, bval]: two bitmaps.  A bit is 0 or 1  *)
(* when its bval is 0, else Z (aval 0) or X (aval 1).  Where the evaluator *)
(* does integer arithmetic on defined operands it does what the two-state  *)
(* one does, but for division by zero and sign extension, so Eval's        *)
(* operators are used for it.                                              *)
(***************************************************************************)
EXTENDS Statements

FS(shape, a, b) == [shape |-> shape, aval |-> Bits(a, shape.width), bval |-> Bits(b, shape.width)]

FromInt(v, shape) == FS(shape, v, 0)
AllX(shape) == FS(shape, -1, -1)

Defined(v) == v.bval = 0

\* to_int of a defined value.
ToInt(v) == MaskValue(v.aval, v.shape)

\* ~v & mask, and the bits of v known to be 1 or 0.
Inv(v, w) == Bits(-v - 1, w)
KnownOnes(v, w) == v.aval & Inv(v.bval, w)
KnownZeros(v, w) == Inv(v.aval, w) & Inv(v.bval, w)

Refit(v, shape) == FS(shape, v.aval, v.bval)

\* An unknown selector keeps the bits in which both arms agree.
MuxX(t, f, shape) ==
  LET agree == Inv((t.aval ^^ f.aval) | (t.bval | f.bval), shape.width)
  IN  FS(shape, t.aval & agree, Inv(agree, shape.width))

\* NOT flips the bits as they are, without extending a sign.
UnaryDefined(op, a, out) ==
  FromInt(EvalUnary(op, IF op = "NOT" THEN a.aval ELSE ToInt(a), a.shape, out), out)

UnaryWithX(op, a, out) ==
  CASE op = "NOT" -> FS(out, Inv(a.aval, out.width) & Inv(a.bval, out.width), a.bval)
    [] op \in {"NEG", "RED_AND", "RED_XOR"} -> AllX(out)
    [] op \in {"BOOL", "RED_OR"} ->
         IF KnownOnes(a, a.shape.width) # 0 THEN FromInt(1, out) ELSE AllX(out)

Unary4(op, a, out) == IF Defined(a) THEN UnaryDefined(op, a, out) ELSE UnaryWithX(op, a, out)

\* The bitwise operators and the left shift take the bits as they are.
BinaryDefined(op, l, r, out) ==
  LET Operand(v) == IF op \in {"AND", "OR", "XOR", "SHL"} THEN v.aval ELSE ToInt(v)
  IN  IF op \in {"DIV", "MOD"} /\ r.aval = 0 THEN AllX(out)
      ELSE FromInt(EvalBinary(op, Operand(l), Operand(r), l.shape, r.shape, out), out)

\* A bit is known only if it is 0 on one side: even where both are 1.
AndWithX(l, r, out) ==
  LET w == out.width
      zeros == KnownZeros(l, w) | KnownZeros(r, w)
  IN  FS(out, (l.aval & r.aval) & zeros, Inv(zeros, w))

\* Mutant: unknown bits count as they are stored.
OrAsStored(l, r, out) == FromInt(l.aval | r.aval, out)

\* A bit is known if it is 1 on one side, or 0 on both; ones and unknown are the
\* bits known to be 1 and the bits that are not known.
OrGiven(ones, unknown, l, r, out) ==
  FS(out, ones | ((l.aval & r.aval) & Inv(unknown, out.width)), unknown)

OrWithOnes(ones, l, r, out) == OrGiven(ones, Inv(ones, out.width) & (l.bval | r.bval), l, r, out)

OrWithX(l, r, out) == OrWithOnes(KnownOnes(l, out.width) | KnownOnes(r, out.width), l, r, out)

XorWithX(l, r, out) ==
  LET unknown == l.bval | r.bval
  IN  FS(out, (l.aval ^^ r.aval) & Inv(unknown, out.width), unknown)

\* The logical operators look at whole operands: a known 1 bit does not make an
\* operand with unknown bits true.
LogicWithX(op, l, r, out) ==
  LET decided == IF op = "LOGIC_AND" THEN 0 ELSE 1
      Decides(v) == Defined(v) /\ Truth(v.aval # 0) = decided
  IN  IF Decides(l) \/ Decides(r) THEN FromInt(decided, out) ELSE AllX(out)

BinaryWithX(op, l, r, out) ==
  CASE op = "AND" -> AndWithX(l, r, out)
    [] op = "OR"  -> OrWithX(l, r, out)
    [] op = "XOR" -> XorWithX(l, r, out)
    [] op \in {"LOGIC_AND", "LOGIC_OR"} -> LogicWithX(op, l, r, out)
    [] op \in {"CASE_EQ", "CASE_NE"} ->
         FromInt(Truth((l.aval = r.aval /\ l.bval = r.bval) = (op = "CASE_EQ")), out)
    [] OTHER -> AllX(out)

Binary4(op, l, r, out) ==
  IF Defined(l) /\ Defined(r) THEN BinaryDefined(op, l, r, out) ELSE BinaryWithX(op, l, r, out)

\* eval_expr_4.
RECURSIVE EvalExpr4(_, _)
EvalExpr4(e, S) ==
  CASE e.k = "const"  -> FromInt(e.value, e.shape)
    [] e.k = "ref"    -> S[e.name]
    [] e.k = "unary"  -> Unary4(e.op, EvalExpr4(e.operand, S), e.shape)
    [] e.k = "binary" -> Binary4(e.op, EvalExpr4(e.left, S), EvalExpr4(e.right, S), e.shape)
    [] e.k = "mux" ->
         LET sel == EvalExpr4(e.sel, S)
         IN  IF ~Defined(sel)
             THEN MuxX(EvalExpr4(e.ifTrue, S), EvalExpr4(e.ifFalse, S), e.shape)
             ELSE Refit(EvalExpr4(IF sel.aval # 0 THEN e.ifTrue ELSE e.ifFalse, S), e.shape)
    [] e.k = "concat" ->
         LET Shift(acc, p) ==
               LET v == EvalExpr4(p, S) w == p.shape.width
               IN  <<acc[1] * 2^w + Bits(v.aval, w), acc[2] * 2^w + Bits(v.bval, w)>>
             all == FoldLeft(Shift, <<0, 0>>, e.parts)
         IN  FS(e.shape, all[1], all[2])
    [] e.k = "slice" ->
         LET v == EvalExpr4(e.value, S) w == e.high - e.low
         IN  FS(e.shape, Bits(v.aval \div 2^e.low, w), Bits(v.bval \div 2^e.low, w))

\* _exec_stmts_4: under an unknown condition every branch runs, one after the
\* other and in place; only a condition known to be 0 fails an assertion.
RECURSIVE ExecFrom4(_, _)
ExecFrom4(block, start) ==
  LET Put(acc, s, v) ==
        [acc EXCEPT !.sig[s] = v, !.moved = IF acc.sig[s] = v THEN @ ELSE @ \cup {s}]
      IsZero(c) == Defined(c) /\ c.aval = 0
      Branch(s, c) ==
        IF ~Defined(c) THEN s.then \o s.else ELSE IF c.aval # 0 THEN s.then ELSE s.else
      Bodies(s, c) ==
        IF ~Defined(c) THEN FlattenSeq([n \in 1 .. Len(s.cases) |-> s.cases[n].body])
        ELSE SwitchBody(s.cases, c.aval)
      Step(acc, s) ==
        CASE s.k = "assign" -> Put(acc, s.target, Refit(EvalExpr4(s.value, acc.sig), s.shape))
          [] s.k = "if"     -> ExecFrom4(Branch(s, EvalExpr4(s.cond, acc.sig)), acc)
          [] s.k = "switch" -> ExecFrom4(Bodies(s, EvalExpr4(s.test, acc.sig)), acc)
          [] s.k = "assert" ->
               IF IsZero(EvalExpr4(s.cond, acc.sig)) THEN [acc EXCEPT !.exit = "error"] ELSE acc
          [] s.k = "finish" -> [acc EXCEPT !.exit = "finish"]
          [] s.k \in {"delay", "readmem"} -> acc
  IN  FoldLeft(LAMBDA acc, s : IF acc.exit = "ok" THEN Step(acc, s) ELSE acc, start, block)

Track4(block, S) == ExecFrom4(block, [sig |-> S, moved |-> {}, exit |-> "ok"])

\* A reset line that is not defined is not active.
ResetActive4(d, S) == Defined(S[d.rst]) /\ (S[d.rst].aval # 0) = d.activeHigh
=============================================================================
