------------------------ MODULE MCEngineEquivalence ------------------------
(***************************************************************************)
(* The engines on the designs of MCDesigns with sequential logic, but for  *)
(* SignedIR and AssertionIR, which have runs of their own.  The run loop   *)
(* and the CSP engine execute what CodeGen emits for a block, the engines  *)
(* that walk the IR evaluate it.  (The initial blocks are evaluated by all *)
(* of them; those here compute the same either way.)                       *)
(***************************************************************************)
EXTENDS EngineEquivalence, MCDesigns, GeneratedCode

Generated(block, S) == CompiledBlock(block, S)

Unknowns == CompileModule(UnknownIR)

TheDesigns ==
  { CompileModule(ir) :
    ir \in Synchronous \cup Unsettling \cup WithMemories \cup {OperatorsIR, UnknownIR} }
  \cup { FlatDesign[m] : m \in Hierarchies }

\* CounterIR may start with its clock high.
ASSUME ClocksAreInputs == \A ir \in Synchronous \ {CounterIR} : OwnClocks(CompileModule(ir))

\* Where the four-state engine knows the value of a signal, it is that of the
\* two-state engine (which takes 0 for an undefined quotient); it traces the
\* same ticks and ends as that one does; and unless the design divides by zero,
\* it knows them all.  The designs branch on no unknown value.
FourStateSound ==
  ePc = "record" /\ RunsFourState =>
    /\ \A s \in Signal : Defined(four.sig[s]) => four.sig[s] = Lift(dict.sig[s])
    /\ design # Unknowns => \A s \in Signal : Defined(four.sig[s])
    /\ <<four.exit, four.clock, four.due>> = <<dict.exit, dict.clock, dict.due>>
    /\ Len(four.traces) = Len(dict.traces)

\* The name at the top of a name of the instance at a path.
Under(path, name) == FoldRight(LAMBDA p, n : MCDotted(p, n), path, name)

\* Every binding in the hierarchy, with the instance it is of and the one it is
\* made in.
RECURSIVE Bindings(_, _)
Bindings(m, path) ==
  LET Of(i) == CHOOSE c \in m.submodules : c.name = i.of
      In(i) == Append(path, i.name)
  IN  UNION { Bindings(Of(i), In(i))
              \cup { [scope |-> path, inst |-> In(i), expr |-> b.expr, port |-> b.port] :
                     b \in ToSet(i.bindings) } : i \in ToSet(m.instances) }

\* In every traced tick each port of each instance, at any depth, has the value
\* of what the parent binds to it, whether the instance drives it or the parent.
\* (In the designs at hand no instance has an input bound to what a later
\* binding of its own drives: all of them are one block, which runs once.)
PortsFollowBindings ==
  ePc = "record" /\ ~eFinished =>
    \A m \in { top \in Hierarchies : design = FlatDesign[top] } :
      \A b \in Bindings(m, << >>) :
        eSig[Under(b.inst, b.port)] =
          EvalExpr(b.expr, [s \in Reads(b.expr) |-> eSig[Under(b.scope, s)]])
=============================================================================
