----------------------------- MODULE Statements -----------------------------
(***************************************************************************)
(* Execution of IR statements (ir/stmt.py) on a two-state valuation, the   *)
(* _exec_stmt family of dau_sim/compiler/compile.py.  Statements run in    *)
(* order and in place: an assignment is visible to the next statement of   *)
(* the same block.  Running a block yields the valuation it leaves and how *)
(* it left:                                                                *)
(*    "ok"      it ran to its end;                                         *)
(*    "finish"  $finish raised SimulationFinish: the rest is skipped;      *)
(*    "error"   an assertion failed, or $readmem ran outside an initial    *)
(*              block: another exception, which no engine catches.         *)
(* A display statement writes no signal and is left out of the model.      *)
(***************************************************************************)
EXTENDS Eval

\* The body a Switch runs: the first case whose pattern equals the test, else
\* the last default (a case without a pattern), wherever it stands.
SwitchBody(cases, test) ==
  LET Matches(c)  == ~c.isDefault /\ c.pattern = test
      IsDefault(c) == c.isDefault
      hits     == SelectSeq(cases, Matches)
      defaults == SelectSeq(cases, IsDefault)
  IN  CASE hits # << >>                        -> Head(hits).body
        [] hits = << >> /\ defaults # << >>    -> Last(defaults).body
        [] OTHER                               -> << >>

\* _exec_stmts and _exec_stmt: a block is a sequence of statements.  moved is
\* changed_signals: what some assignment changed, restored later or not.
RECURSIVE ExecFrom(_, _)
ExecFrom(block, start) ==
  LET Put(acc, s, v) ==
        [acc EXCEPT !.sig[s] = v, !.moved = IF acc.sig[s] = v THEN @ ELSE @ \cup {s}]
      Step(acc, s) ==
        CASE s.k = "assign" ->
               Put(acc, s.target, MaskValue(EvalExpr(s.value, acc.sig), s.shape))
          [] s.k = "if" ->
               ExecFrom(IF EvalExpr(s.cond, acc.sig) # 0 THEN s.then ELSE s.else, acc)
          [] s.k = "switch" ->
               ExecFrom(SwitchBody(s.cases, EvalExpr(s.test, acc.sig)), acc)
          [] s.k = "assert" ->
               IF EvalExpr(s.cond, acc.sig) # 0 THEN acc ELSE [acc EXCEPT !.exit = "error"]
          [] s.k = "finish"  -> [acc EXCEPT !.exit = "finish"]
          [] s.k = "delay"   -> acc
          [] s.k = "readmem" -> [acc EXCEPT !.exit = "error"]
  IN  FoldLeft(LAMBDA acc, s : IF acc.exit = "ok" THEN Step(acc, s) ELSE acc, start, block)

TrackBlock(block, S) == ExecFrom(block, [sig |-> S, moved |-> {}, exit |-> "ok"])

\* What a run of a block leaves.
Left(r) == [sig |-> r.sig, exit |-> r.exit]

ExecBlock(block, S) == Left(TrackBlock(block, S))

\* collect_stmt_reads and collect_stmt_writes, over a whole block.
RECURSIVE BlockReads(_)
BlockReads(block) ==
  UNION { CASE s.k = "assign" -> Reads(s.value)
            [] s.k = "if"     -> Reads(s.cond) \cup BlockReads(s.then) \cup BlockReads(s.else)
            [] s.k = "switch" -> Reads(s.test)
                                 \cup UNION { BlockReads(c.body) : c \in ToSet(s.cases) }
            [] OTHER          -> {} : s \in ToSet(block) }

RECURSIVE BlockWrites(_)
BlockWrites(block) ==
  UNION { CASE s.k = "assign" -> {s.target}
            [] s.k = "if"     -> BlockWrites(s.then) \cup BlockWrites(s.else)
            [] s.k = "switch" -> UNION { BlockWrites(c.body) : c \in ToSet(s.cases) }
            [] OTHER          -> {} : s \in ToSet(block) }
=============================================================================
