----------------------------- MODULE DataMovement -----------------------------
(***************************************************************************)
(* _execute_graph (runtime/executor.py): a graph is executed along the     *)
(* plan partition_graph made for it, with its movements ignored, with its  *)
(* layout conversions made, or with conversions and transfers made.        *)
(*                                                                         *)
(* Every value is kept with the domain and the layout it is in: a kernel   *)
(* is to read its operands where the caller asked the executor to bring    *)
(* them.                                                                   *)
(***************************************************************************)
EXTENDS TrustedExecutors

CONSTANT MaxValues     \* MAX_RUNTIME_EXECUTION_VALUES

ASSUME DataMovementAssumption == MaxValues \in Nat

VARIABLES
    mode,       \* "none", "layouts", "all": which movements the caller wants made
    status,     \* "waiting"; "refused", "running"; "failed", "done"
    reason,     \* why it failed
    at,         \* the operation at work
    convert,    \* its conversions still to make
    transfer,   \* its transfers still to make
    staged,     \* converted_values: what it reads instead of the stored values
    store,      \* RuntimeTensorStore
    made        \* how many conversions and transfers have been made

execution == <<mode, status, reason, at, convert, transfer, staged, store, made>>

vars == <<partitioning, execution>>

Init ==
    /\ PartitioningInit
    /\ mode \in {"none", "layouts", "all"}
    /\ status = "waiting" /\ reason = "none" /\ at = 1
    /\ convert = {} /\ transfer = {} /\ staged = <<>> /\ store = <<>>
    /\ made = [conversions |-> 0, transfers |-> 0]

-----------------------------------------------------------------------------
(* The checks before anything runs *)

\* Mutant: of two requirements for one operand the second is not noticed.
ConversionsFitOnce == \A c \in plan.conversions : Convertible(c) /\ LeavesSource(c)

\* _materialized_conversions_by_target
ConversionsFit ==
    /\ \A c \in plan.conversions : Convertible(c) /\ LeavesSource(c)
    /\ OnePerOperand(plan.conversions)

\* _materialized_transfers_by_target
TransfersFit ==
    /\ \A e \in plan.transfers :
          /\ Transferable(e) /\ LeavesSource(e) /\ BetweenDomains(e) /\ ConvertedAlong(e)
          /\ graph[e.target].layout = e.targetLayout
    /\ OnePerOperand(plan.transfers)

Acceptable ==
    /\ Ordered /\ Ready
    /\ mode # "none" => ConversionsFit
    /\ mode = "all" => TransfersFit
    /\ Cardinality(External) <= MaxValues

\* The operation i is next, with its movements ahead of it.
Turn(i) ==
    /\ at' = i
    /\ convert'  = {c \in plan.conversions : mode # "none" /\ c.target = i}
    /\ transfer' = {e \in plan.transfers : mode = "all" /\ e.target = i}
    /\ staged' = <<>>

Refuse ==
    /\ stage = "planned" /\ status = "waiting" /\ ~Acceptable
    /\ status' = "refused"
    /\ UNCHANGED <<partitioning, mode, reason, at, convert, transfer, staged, store, made>>

\* _normalize_inputs stores the external inputs: on the host, in row-major layout.
Accept ==
    /\ stage = "planned" /\ status = "waiting" /\ Acceptable
    /\ status' = "running"
    /\ store' = [t \in External |-> [value |-> t, producer |-> None,
                                     domain |-> "host", layout |-> "row_major"]]
    /\ Turn(1)
    /\ UNCHANGED <<partitioning, mode, reason, made>>

-----------------------------------------------------------------------------
(* One operation: its conversions, its transfers, its kernel *)

Fail(why) ==
    /\ status' = "failed" /\ reason' = why
    /\ UNCHANGED <<partitioning, mode, at, convert, transfer, staged, store, made>>

First(edges) == CHOOSE e \in edges : \A f \in edges : e.position <= f.position

Operand(t) == IF t \in DOMAIN staged THEN staged[t] ELSE store[t]
Stage(t, cell) ==
    staged' = [u \in DOMAIN staged \union {t} |-> IF u = t THEN cell ELSE staged[u]]

\* What the loop checks once more against the stored record before a movement.
RecordFits(e) ==
    /\ e.tensor \in DOMAIN store
    /\ store[e.tensor].producer = e.source /\ store[e.tensor].layout = e.sourceLayout

\* Mutant: the converted value goes astray.
MakeConversionUnstaged(c) == staged' = staged

MakeConversion(c) ==
    Stage(c.tensor, [store[c.tensor] EXCEPT !.layout = c.targetLayout])

\* materialize_layout_conversion of the stored value
Convert ==
    /\ status = "running" /\ convert # {}
    /\ LET c == First(convert) IN
           IF ~RecordFits(c) THEN Fail("record mismatch")
           ELSE IF Padded(c.tensor) > MaxPhysical THEN Fail("physical elements")
           ELSE /\ MakeConversion(c) /\ convert' = convert \ {c}
                /\ made' = [made EXCEPT !.conversions = @ + 1]
                /\ UNCHANGED <<partitioning, mode, status, reason, at, transfer, store>>

\* materialize_runtime_transfer of the value as converted: it has to be in the reader's layout.
MakeTransfer ==
    /\ status = "running" /\ convert = {} /\ transfer # {}
    /\ LET e == First(transfer) IN
           IF ~( /\ RecordFits(e) /\ store[e.tensor].domain = e.from
                 /\ Operand(e.tensor).layout = e.targetLayout )
           THEN Fail("record mismatch")
           ELSE /\ Stage(e.tensor, [Operand(e.tensor) EXCEPT !.domain = e.to])
                /\ transfer' = transfer \ {e}
                /\ made' = [made EXCEPT !.transfers = @ + 1]
                /\ UNCHANGED <<partitioning, mode, status, reason, at, convert, store>>

\* Whether t is where the mode promises it to the operation; an external input is in every domain.
InPlace(t) ==
    /\ mode # "none" => Operand(t).layout = graph[at].layout
    /\ mode = "all" /\ t \notin External => Operand(t).domain = plan.assignments[at].domain

Kernel(op) ==
    IF \A t \in Reads(op) : Operand(t).value = t /\ InPlace(t) THEN op.outputs[1] ELSE Garbage

Computing == status = "running" /\ convert = {} /\ transfer = {} /\ at <= Len(graph)

KernelFails == Computing /\ Fail("not finite")

Compute ==
    /\ Computing
    /\ IF graph[at].outputs[1] \in DOMAIN store THEN Fail("duplicate value")
       ELSE IF Cardinality(DOMAIN store) >= MaxValues THEN Fail("too many values")
       ELSE /\ store' = [t \in DOMAIN store \union {graph[at].outputs[1]} |->
                   IF t \in DOMAIN store THEN store[t]
                   ELSE [value |-> Kernel(graph[at]), producer |-> at,
                         domain |-> plan.assignments[at].domain,
                         layout |-> plan.assignments[at].layout]]
            /\ Turn(at + 1)
            /\ UNCHANGED <<partitioning, mode, status, reason, made>>

EveryMovementMade ==
    /\ mode # "none" => made.conversions = Cardinality(plan.conversions)
    /\ mode = "all" => made.transfers = Cardinality(plan.transfers)

Finish ==
    /\ status = "running" /\ at > Len(graph)
    /\ IF ~EveryMovementMade THEN Fail("movement missing")
       ELSE /\ status' = "done"
            /\ UNCHANGED <<partitioning, mode, reason, at, convert, transfer, staged, store, made>>

Next ==
    \/ PartitioningNext /\ UNCHANGED execution
    \/ Refuse \/ Accept \/ Convert \/ MakeTransfer \/ KernelFails \/ Compute \/ Finish

Spec == Init /\ [][Next]_vars

-----------------------------------------------------------------------------
(* Properties *)

\* An operand that is not moved in one of two positions alone; and which conversions and
\* transfers the executor does not make, told from where the operand is left and is wanted.
ReadTwice(p) ==
    \E k \in DOMAIN graph[p[1]].inputs \ {p[2]} : graph[p[1]].inputs[k] = graph[p[1]].inputs[p[2]]

CannotConvert(p) ==
    LET t == graph[p[1]].inputs[p[2]]
    IN  /\ LeftBy(t).layout # graph[p[1]].layout
        /\ \/ t \in External \/ LeftBy(t).layout # "blocked"
           \/ Len(Shape[t]) # 2 \/ ReadTwice(p)

CannotTransfer(p) ==
    LET t  == graph[p[1]].inputs[p[2]]
        to == plan.assignments[p[1]].domain
    IN  /\ t \notin External /\ LeftBy(t).domain # to
        /\ \/ LeftBy(t).domain # "sram" \/ to # "host"
           \/ ~(Elements(t) <= MaxElements) \/ ReadTwice(p)

\* Which plans of the partitioner the executor takes, told from the graph and the
\* assignments alone: it makes conversions only out of blocked matrices and transfers only
\* from SRAM to the host, and an operation that reads an operand twice is refused as soon as
\* that operand has to be moved, whatever the partitioner planned for it.
Refusable ==
    \/ ~Ordered \/ ~Ready \/ ~(Cardinality(External) <= MaxValues)
    \/ mode # "none" /\ \E p \in Operands : CannotConvert(p)
    \/ mode = "all" /\ \E p \in Operands : CannotTransfer(p)

RefusalsExact ==
    /\ status = "refused" => Refusable
    /\ status \in {"running", "failed", "done"} => ~Refusable

\* What was checked before the first kernel stays true: no stored record contradicts the
\* plan when its turn comes, no value is stored twice, and no planned movement is left out at
\* the end.
NoLateMismatch == reason \notin {"record mismatch", "duplicate value", "movement missing"}

\* docs/RUNTIME_MATERIALIZED_LAYOUT_CONVERSION.md and the docstring of
\* _materialized_conversions_by_target: the complete conversion plan is checked before input
\* normalization or kernel execution.
ConversionsCheckedUpFront == reason = "physical elements" => at = 1

\* Whatever is moved, the caller is promised the same: a refused graph computes nothing, and
\* a finished one returns the right value of every terminal tensor.
Promised == INSTANCE GraphExecution WITH
    Length   <- Lengths,
    Terminal <- AllTerminals,
    status   <- IF status = "waiting" THEN "pending" ELSE status,
    computed <- at - 1,
    outputs  <- IF status = "done" THEN [t \in Terminals(graph) |-> store[t].value] ELSE <<>>

KeepsPromise == Promised!Spec

=============================================================================
