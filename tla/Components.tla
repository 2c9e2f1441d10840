----------------------------- MODULE Components -----------------------------
(***************************************************************************)
(* What dependency analysis (compiler/depanalysis.py) makes of the         *)
(* combinational blocks of a design: what the engines may rely on, as      *)
(* predicates on compiled designs.  The modules on the engines assume of   *)
(* their designs what their properties need.                               *)
(***************************************************************************)
EXTENDS Netlist

\* What a run can move.
Movable(D) ==
  { D.domains[i].clk : i \in 1 .. Len(D.domains) }
    \cup (UNION { D.domains[i].written : i \in 1 .. Len(D.domains) })
    \cup (UNION { D.comps[c].writes : c \in 1 .. Len(D.comps) })

\* Whether the block of a component agrees with what it reads depends on the
\* signals the component touches, and on those nothing moves.
ReadsOnlyItsOwn(D, C) ==
  \A S \in Valuation :
    Agrees(C.block, S) <=>
      Agrees(C.block, [s \in Signal |-> IF s \in Movable(D) \ C.signals THEN D.init[s] ELSE S[s]])

\* A component that ran to its end agrees with what it reads.
OnePass(C) ==
  \A S \in Valuation :
    Exec(C.block, S).exit = "ok" => Agrees(C.block, Exec(C.block, S).sig)

\* What collect_stmt_reads, topological_sort and partition_assignments arrange
\* for components whose blocks assign, in which no block reads what it writes and
\* no two drive the same signal: such a component touches every signal it
\* depends on, settles in one pass, and touches none that another drives.
ComponentsOK(D) ==
  \A c \in 1 .. Len(D.comps) :
    /\ ReadsOnlyItsOwn(D, D.comps[c]) /\ OnePass(D.comps[c])
    /\ D.comps[c].signals = {} => \A S \in Valuation : Agrees(D.comps[c].block, S)
    /\ \A b \in 1 .. Len(D.comps) \ {c} : D.comps[b].writes \cap D.comps[c].signals = {}

\* No component touches a register that an asynchronous reset can change between
\* edges, nor a clock that makes an edge at which its domain does not run.
Quiet(D) ==
  \A c \in 1 .. Len(D.comps), i \in 1 .. Len(D.domains) :
    /\ D.domains[i].clk \in D.comps[c].signals =>
         D.domains[i].edge = "both" /\ D.domains[i].style # "async"
    /\ D.domains[i].style = "async" => D.domains[i].written \cap D.comps[c].signals = {}

\* A block that ran agrees with what it reads, and no block disturbs one before
\* it: what topological_sort arranges for blocks of which no two drive the same
\* signal and none reads what it writes; those of a cycle it refuses.
InDependencyOrder(order) ==
  \A j \in 1 .. Len(order), S \in Valuation :
    LET r == Exec(order[j], S)
    IN  r.exit = "ok" =>
          /\ Agrees(order[j], r.sig)
          /\ \A i \in 1 .. j - 1 : Agrees(order[i], S) => Agrees(order[i], r.sig)

CompWritten(D) == UNION { D.comps[c].writes : c \in 1 .. Len(D.comps) }

\* The combinational blocks of a design, in dependency order.
OrderOK(D) ==
  /\ Len(D.order) \in Nat /\ InDependencyOrder(D.order)
  /\ \A k \in 1 .. Len(D.order) :
       BlockTotal(D.order[k]) /\ WritesOnly(D.order[k], CompWritten(D))
=============================================================================
