--------------------------- MODULE TrustedExecutors ---------------------------
(***************************************************************************)
(* What every executor of a partitioned graph checks first                 *)
(* (runtime/executor.py), and what its caller is promised.                 *)
(*                                                                         *)
(* A kernel computes the right value of its result, which is the tensor    *)
(* itself, only from right operands that are where it is to read them;     *)
(* otherwise it computes Garbage.  The caller's inputs are taken to be the *)
(* external tensors of the graph, of the right shape and finite.           *)
(***************************************************************************)
EXTENDS Partitioning

CONSTANTS
    Garbage,
    MaxElements,   \* MAX_RUNTIME_TRANSFER_EXECUTOR_ELEMENTS
    MaxPhysical    \* MAX_RUNTIME_LAYOUT_CONVERTER_PHYSICAL_ELEMENTS, and the storage plan's

ASSUME ExecutorAssumption ==
    Garbage \notin Tensors /\ MaxElements \in Nat /\ MaxPhysical \in Nat

\* trusted_runtime_executor_registry
Trusted == [n \in {"linear-sim", "systolic-sim", "vector-sim", ReferenceCpu} |->
    CASE n = "linear-sim"   -> {"matmul", "reduction"}
      [] n = "systolic-sim" -> {"matmul"}
      [] n = "vector-sim"   -> {"elementwise", "reduction", "softmax"}
      [] n = ReferenceCpu   -> Kinds]

Arity(kind) == CASE kind = "matmul" -> {2} [] kind = "elementwise" -> {1, 2} [] OTHER -> {1}

\* runtime_execution_readiness_report
Ready ==
    \A i \in DOMAIN graph :
        /\ Len(graph[i].inputs) \in Arity(graph[i].kind) /\ Len(graph[i].outputs) = 1
        /\ plan.assignments[i].backend \in DOMAIN Trusted
        /\ graph[i].kind \in Trusted[plan.assignments[i].backend]

\* Consumers of the plan that know a movement by its operation and its tensor take only one.
OnePerOperand(edges) == \A e, f \in edges : e.target = f.target /\ e.tensor = f.tensor => e = f

\* assert_materializable_layout_conversion and assert_materializable_runtime_transfer
Convertible(c) ==
    /\ c.source # None /\ c.sourceLayout = "blocked" /\ c.targetLayout = "row_major"
    /\ Len(Shape[c.tensor]) = 2
Transferable(e) == e.from = "sram" /\ e.to = "host" /\ Elements(e.tensor) <= MaxElements

\* A movement begins where its tensor was left; a transfer goes from domain to domain as the
\* operations were assigned, and changes the layout together with a conversion or not at all.
LeavesSource(e) ==
    e.source = Producer(e.tensor) /\ plan.assignments[e.source].layout = e.sourceLayout
BetweenDomains(e) ==
    /\ plan.assignments[e.source].domain = e.from
    /\ plan.assignments[e.target].domain = e.to
ConvertedAlong(e) ==
    LET mine == {c \in plan.conversions : c.target = e.target /\ c.tensor = e.tensor}
    IN  IF e.sourceLayout = e.targetLayout THEN mine = {}
        ELSE mine # {} /\ \A c \in mine : /\ c.source = e.source
                                          /\ c.sourceLayout = e.sourceLayout
                                          /\ c.targetLayout = e.targetLayout

\* The 2 x 2 tiles that hold a matrix, padded with zeros.
Tiles(t)  == <<(Shape[t][1] + 1) \div 2, (Shape[t][2] + 1) \div 2, 2, 2>>
Padded(t) == 4 * Tiles(t)[1] * Tiles(t)[2]

Lengths      == [g \in Graphs |-> Len(g)]
AllTerminals == [g \in Graphs |-> Terminals(g)]

=============================================================================
