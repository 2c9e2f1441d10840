---------------------------- MODULE DepAnalysis ----------------------------
(***************************************************************************)
(* Dependency analysis of combinational blocks, compiler/depanalysis.py.   *)
(*                                                                         *)
(* An assignment is a record [reads, writes, block]: one combinational     *)
(* block with the signals it reads and writes.  A list of assignments is a *)
(* sequence; its order is the order of the source until TopologicalSort    *)
(* changes it.                                                             *)
(***************************************************************************)
EXTENDS Statements

Assignment(block) ==
  [reads |-> BlockReads(block), writes |-> BlockWrites(block), block |-> block]

\* build_assignments
BuildAssignments(blocks) == [i \in 1 .. Len(blocks) |-> Assignment(blocks[i])]

\* The other assignments that must run before the i-th: those writing a signal
\* it reads.  An assignment never depends on itself.
DependsOn(as, i) ==
  { p \in 1 .. Len(as) : p # i /\ as[p].writes \cap as[i].reads # {} }

\* Kahn's algorithm with a FIFO queue: an index is queued when the last of the
\* indices it depends on has been taken.
RECURSIVE Kahn(_, _, _)
Kahn(as, queue, order) ==
  IF queue = << >> THEN order
  ELSE LET taken == Append(order, Head(queue))
           freed == { i \in 1 .. Len(as) : /\ Head(queue) \in DependsOn(as, i)
                                           /\ DependsOn(as, i) \subseteq ToSet(taken) }
       IN  Kahn(as, Tail(queue) \o SetToSortSeq(freed, <), taken)

SortedIndices(as) ==
  Kahn(as, SetToSortSeq({ i \in 1 .. Len(as) : DependsOn(as, i) = {} }, <), << >>)

\* topological_sort raises CombLoopError when some index is never freed.
HasCombLoop(as) == Len(SortedIndices(as)) # Len(as)

TopologicalSort(as) ==
  [n \in 1 .. Len(as) |-> as[SortedIndices(as)[n]]]

\* Two assignments belong together when one reads what the other writes, or
\* both write the same signal.
Linked(as, i, j) ==
  \/ as[i].writes \cap as[j].reads # {}
  \/ as[j].writes \cap as[i].reads # {}
  \/ as[i].writes \cap as[j].writes # {}

RECURSIVE Connected(_, _)
Connected(as, group) ==
  LET wider == { j \in 1 .. Len(as) : \E i \in group : i = j \/ Linked(as, i, j) }
  IN  IF wider = group THEN group ELSE Connected(as, wider)

\* partition_assignments: the disconnected components in the order of their
\* first assignment, each keeping the order of the list.
PartitionAssignments(as) ==
  LET groups == { Connected(as, {i}) : i \in 1 .. Len(as) }
      First(g) == CHOOSE i \in g : \A j \in g : i <= j
      ordered == SetToSortSeq(groups, LAMBDA g, h : First(g) < First(h))
      Component(g) ==
        [signals |-> UNION { as[i].reads \cup as[i].writes : i \in g },
         writes  |-> UNION { as[i].writes : i \in g },
         block   |-> FlattenSeq([n \in 1 .. Cardinality(g) |->
                                   as[SetToSortSeq(g, <)[n]].block])]
  IN  [n \in 1 .. Len(ordered) |-> Component(ordered[n])]
=============================================================================
