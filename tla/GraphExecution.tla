---------------------------- MODULE GraphExecution ----------------------------
(***************************************************************************)
(* What a caller of any of the graph executors is promised, whatever they  *)
(* convert, copy, place and reuse on the way: a graph is refused before    *)
(* anything is computed, or its operations are computed once each, in      *)
(* order, until one fails or all are done; and then the caller gets the    *)
(* value of every terminal tensor, computed from right operands.           *)
(*                                                                         *)
(* The right value of a tensor is the tensor itself.                       *)
(***************************************************************************)
EXTENDS Integers

CONSTANTS
    Length,     \* the number of operations of a graph
    Terminal    \* the terminal tensors of a graph

VARIABLES
    graph,
    status,     \* "pending"; "refused", "running"; "failed", "done"
    computed,   \* how many operations have been computed
    outputs     \* what the caller gets

vars == <<graph, status, computed, outputs>>

Init ==
    /\ graph \in DOMAIN Length
    /\ status = "pending" /\ computed = 0 /\ outputs = <<>>

Refuse ==
    /\ status = "pending" /\ status' = "refused"
    /\ UNCHANGED <<graph, computed, outputs>>

Start ==
    /\ status = "pending" /\ status' = "running"
    /\ UNCHANGED <<graph, computed, outputs>>

Compute ==
    /\ status = "running" /\ computed < Length[graph]
    /\ computed' = computed + 1
    /\ UNCHANGED <<graph, status, outputs>>

Fail ==
    /\ status = "running" /\ status' = "failed"
    /\ UNCHANGED <<graph, computed, outputs>>

Finish ==
    /\ status = "running" /\ computed = Length[graph]
    /\ status' = "done" /\ outputs' = [t \in Terminal[graph] |-> t]
    /\ UNCHANGED <<graph, computed>>

Next == Refuse \/ Start \/ Compute \/ Fail \/ Finish

Spec == Init /\ [][Next]_vars

=============================================================================
