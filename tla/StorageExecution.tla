--------------------------- MODULE StorageExecution ---------------------------
(***************************************************************************)
(* Executing a partitioned graph through planned storage, by one of two    *)
(* schemes.  "heterogeneous" (heterogeneous_storage_plan.py and            *)
(* heterogeneous_storage_executor.py) gives slots to the produced values   *)
(* and to the staging of layout conversions and transfers.  "allocation"   *)
(* (buffer_lifetime.py and allocation_executor.py) gives slots to the      *)
(* produced values of graphs in which nothing moves.                       *)
(*                                                                         *)
(* The plan is made (SlotReuse), checked, and executed in an arena that    *)
(* refuses to break it.  Byte limits, budgets, admissions, receipts and    *)
(* the digests that tie the reports together are left out.                 *)
(***************************************************************************)
EXTENDS TrustedExecutors, SlotReuse

\* A result is never mistaken for none.
ASSUME StorageAssumption == None \notin Tensors \union {Garbage}

VARIABLES
    scheme,
    status,     \* "waiting", "placing"; "refused", "running"; "failed", "done"
    reason,     \* why it failed
    event,      \* the moment at work
    todo,       \* what has to be written at this moment
    result,     \* kernel_result: None until the operation has been computed
    computed,   \* how many operations have been computed
    arena,      \* for each slot: {} or {the draft it holds}, its value, and the tensors whose
                \* elements are in its cells
    outputs

execution == <<scheme, status, reason, event, todo, result, computed, arena, outputs>>

vars == <<partitioning, placement, execution>>

Init ==
    /\ PartitioningInit
    /\ waiting = {} /\ slots = <<>>
    /\ scheme \in {"heterogeneous", "allocation"}
    /\ status = "waiting" /\ reason = "none"
    /\ event = 0 /\ todo = {} /\ result = None /\ computed = 0
    /\ arena = <<>> /\ outputs = <<>>

-----------------------------------------------------------------------------
(* Moments *)

Phases == {"layout_conversion", "transfer", "consumer_execution", "output_produced"}

\* _event_index; in the other scheme an operation is a single moment.
EventIndex(i, phase) ==
    IF scheme = "allocation" THEN i - 1
    ELSE 4 * (i - 1) + CASE phase = "layout_conversion" -> 0 [] phase = "transfer" -> 1
                         [] phase = "consumer_execution" -> 2 [] OTHER -> 3

\* After the last operation, when the terminal values are read.
GraphEnd == EventIndex(Len(graph) + 1, "layout_conversion")

-----------------------------------------------------------------------------
(* Drafts *)

Moving(edges, t, i) == \E e \in edges : e.tensor = t /\ e.target = i

\* The first of its movements, or else the operation itself, frees i from t.
UseEvent(t, i) ==
    EventIndex(i, IF Moving(plan.conversions, t, i) THEN "layout_conversion"
                  ELSE IF Moving(plan.transfers, t, i) THEN "transfer" ELSE "consumer_execution")

LastUse(t) ==
    LET uses == {UseEvent(t, i) : i \in {j \in DOMAIN graph : t \in Reads(graph[j])}}
    IN  IF uses = {} THEN GraphEnd ELSE Max(uses)

Tiled(layout) == layout = "blocked" /\ scheme = "heterogeneous"

PhysicalShape(t, layout) == IF Tiled(layout) THEN Tiles(t) ELSE Shape[t]

\* _storage_draft and LifetimeDraft; target is the operation a staging is for.
Draft(role, t, target, first, last, domain, layout) ==
    [role |-> role, tensor |-> t, target |-> target, first |-> first, last |-> last,
     domain |-> domain, layout |-> layout,
     key |-> <<role, domain, layout, PhysicalShape(t, layout)>>]

ValueDraft(t) ==
    LET i == Producer(t)
    IN  Draft("produced_value", t, None, EventIndex(i, "output_produced"), LastUse(t),
              plan.assignments[i].domain, plan.assignments[i].layout)

ConversionDraft(c) ==
    Draft("layout_staging", c.tensor, c.target, EventIndex(c.target, "layout_conversion"),
          EventIndex(c.target, IF Moving(plan.transfers, c.tensor, c.target) THEN "transfer"
                               ELSE "consumer_execution"),
          plan.assignments[c.source].domain, c.targetLayout)

\* Mutant: the staging of a transfer is placed where the transfer starts.
TransferDraftAtSource(e) ==
    Draft("transfer_target_staging", e.tensor, e.target, EventIndex(e.target, "transfer"),
          EventIndex(e.target, "consumer_execution"), e.from, e.targetLayout)

TransferDraft(e) ==
    Draft("transfer_target_staging", e.tensor, e.target, EventIndex(e.target, "transfer"),
          EventIndex(e.target, "consumer_execution"), e.to, e.targetLayout)

Drafts == {ValueDraft(t) : t \in Produced(graph)} \union
          {ConversionDraft(c) : c \in plan.conversions} \union
          {TransferDraft(e) : e \in plan.transfers}

PhysicalElements(d) == IF Tiled(d.layout) THEN Padded(d.tensor) ELSE Elements(d.tensor)

-----------------------------------------------------------------------------
(* Making and checking the plan *)

\* build_runtime_heterogeneous_storage_plan_report up to its drafts.
Staged ==
    /\ OnePerOperand(plan.conversions) /\ OnePerOperand(plan.transfers)
    /\ \A c \in plan.conversions : c.source # None /\ LeavesSource(c)
    /\ \A e \in plan.transfers : LeavesSource(e) /\ BetweenDomains(e) /\ ConvertedAlong(e)
    /\ \A i \in DOMAIN graph : plan.assignments[i].layout = "blocked" =>
           \A t \in Writes(graph[i]) : Len(Shape[t]) = 2

Plannable ==
    /\ Ordered /\ Ready
    /\ IF scheme = "allocation" THEN plan.transfers = {} /\ plan.conversions = {}
       ELSE Staged /\ \A c \in plan.conversions : c.targetLayout = "blocked" =>
                          Len(Shape[c.tensor]) = 2

PlanStorage ==
    /\ stage = "planned" /\ status = "waiting"
    /\ IF Plannable /\ \A d \in Drafts : PhysicalElements(d) <= MaxPhysical
       THEN status' = "placing" /\ waiting' = Drafts
       ELSE status' = "refused" /\ waiting' = waiting
    /\ UNCHANGED <<partitioning, slots, scheme, reason, event, todo, result, computed,
                   arena, outputs>>

PlaceDraft ==
    /\ status = "placing" /\ PlaceNext
    /\ UNCHANGED <<partitioning, execution>>

Placed == UNION {slots[i].drafts : i \in DOMAIN slots}

\* The draft in which i finds its operand t.
OperandDraft(t, i) ==
    LET role == IF Moving(plan.transfers, t, i) THEN "transfer_target_staging"
                ELSE IF Moving(plan.conversions, t, i) THEN "layout_staging" ELSE "produced_value"
    IN  CHOOSE d \in Placed : /\ d.role = role /\ d.tensor = t
                              /\ d.target = IF role = "produced_value" THEN None ELSE i
ValueOf(t) == CHOOSE d \in Placed : d.role = "produced_value" /\ d.tensor = t

InnerReads(i) == Reads(graph[i]) \intersect Produced(graph)

\* _validate_consumer_storage
ConsumersRowMajor ==
    /\ \A i \in DOMAIN graph : \A t \in InnerReads(i) : OperandDraft(t, i).layout = "row_major"
    /\ \A t \in Terminals(graph) : ValueOf(t).layout = "row_major"

\* assert_materializable_heterogeneous_storage_execution, and
\* assert_materializable_runtime_allocation
Admissible ==
    LET domains == {d.domain : d \in Placed}
        layouts == {d.layout : d \in Placed}
    IN  /\ \E i \in DOMAIN slots : Cardinality(slots[i].drafts) > 1
        /\ IF scheme = "allocation" THEN domains = {"host"} /\ layouts = {"row_major"}
           ELSE /\ plan.conversions # {} /\ plan.transfers # {}
                /\ domains = {"sram", "host"} /\ layouts = Layouts
                /\ \A c \in plan.conversions : Convertible(c)
                /\ \A e \in plan.transfers : Transferable(e)
                /\ ConsumersRowMajor

Begin(e) == event' = e /\ todo' = {d \in Placed : d.first = e}

\* The slots are np.empty arrays.
Admit ==
    /\ status = "placing" /\ waiting = {}
    /\ IF Admissible
       THEN /\ status' = "running"
            /\ arena' = [i \in DOMAIN slots |-> [holds |-> {}, value |-> Garbage,
                                                 imprint |-> {Garbage}]]
            /\ Begin(0)
       ELSE status' = "refused" /\ UNCHANGED <<arena, event, todo>>
    /\ UNCHANGED <<partitioning, placement, scheme, reason, result, computed, outputs>>

-----------------------------------------------------------------------------
(* Execution *)

Fail(why) ==
    /\ status' = "failed" /\ reason' = why
    /\ UNCHANGED <<partitioning, placement, scheme, event, todo, result, computed, arena, outputs>>

SlotOf(d) == CHOOSE i \in DOMAIN slots : d \in slots[i].drafts
Active(d) == arena[SlotOf(d)].holds = {d}
Content(d) == arena[SlotOf(d)].value

\* Whether the kernel of the next operation is due.
KernelDue ==
    /\ status = "running" /\ computed < Len(graph) /\ result = None
    /\ event = EventIndex(computed + 1, "consumer_execution")

\* An operand has to be in the domain its reader was assigned to.
Kernel(i) ==
    IF \A t \in InnerReads(i) : /\ Content(OperandDraft(t, i)) = t
                                /\ OperandDraft(t, i).domain = plan.assignments[i].domain
    THEN graph[i].outputs[1] ELSE Garbage

KernelFails == KernelDue /\ Fail("not finite")

ComputeKernel ==
    /\ KernelDue
    /\ IF \E t \in InnerReads(computed + 1) : ~Active(OperandDraft(t, computed + 1))
       THEN Fail("not active")
       ELSE /\ result' = Kernel(computed + 1) /\ computed' = computed + 1
            /\ UNCHANGED <<partitioning, placement, scheme, status, reason, event, todo,
                           arena, outputs>>

\* What a staging is copied from.
SourceDraft(d) ==
    IF d.role = "transfer_target_staging" /\ Moving(plan.conversions, d.tensor, d.target)
    THEN CHOOSE c \in Placed : c.role = "layout_staging" /\ c.tensor = d.tensor /\ c.target = d.target
    ELSE ValueOf(d.tensor)

\* Mutant: the slots are np.zeros arrays, and the tiles are not filled with zeros again.
ImprintUponLast(d) == {d.tensor} \union (arena[SlotOf(d)].imprint \ {Garbage})

\* Whose elements are in the slot of d once d has been written: _write_blocked_2x2 fills the
\* tiles with zeros first, np.copyto leaves nothing as it was.
Imprint(d) == {d.tensor}

\* _assert_blocked_2x2_equals: the cells around the matrix t are zero, so that any other
\* matrix in the tiles has to lie within it.
PaddingZero(t, imprint) ==
    \A u \in imprint \ {t} :
        u # Garbage /\ Shape[u][1] <= Shape[t][1] /\ Shape[u][2] <= Shape[t][2]

\* materialize_layout_conversion and materialize_transfer: the copy is row-major, and a
\* conversion is made from tiles.
CopyFits(d) ==
    LET from == SourceDraft(d)
    IN  /\ Active(from) /\ SlotOf(from) # SlotOf(d) /\ d.layout = "row_major"
        /\ from.layout = IF d.role = "layout_staging" THEN "blocked" ELSE "row_major"

\* materialize_produced, materialize_layout_conversion, materialize_transfer
Write ==
    /\ status = "running" /\ ~KernelDue
    /\ \E d \in todo :
           IF arena[SlotOf(d)].holds # {} THEN Fail("reuse before release")
           ELSE IF d.role # "produced_value" /\ ~CopyFits(d) THEN Fail("source mismatch")
           ELSE IF Tiled(d.layout) /\ ~PaddingZero(d.tensor, Imprint(d))
                THEN Fail("padding is not zero")
           ELSE /\ arena' = [arena EXCEPT ![SlotOf(d)] =
                       [holds |-> {d}, imprint |-> Imprint(d),
                        value |-> IF d.role = "produced_value" THEN result
                                  ELSE Content(SourceDraft(d))]]
                /\ todo' = todo \ {d}
                /\ result' = IF d.role = "produced_value" THEN None ELSE result
                /\ UNCHANGED <<partitioning, placement, scheme, status, reason, event, computed,
                               outputs>>

Expiring == {d \in Placed : d.last = event}
Released == [i \in DOMAIN arena |->
                IF slots[i].drafts \intersect Expiring # {} THEN [arena[i] EXCEPT !.holds = {}]
                ELSE arena[i]]

\* release_due, once everything has been written
Release ==
    /\ status = "running" /\ ~KernelDue /\ todo = {} /\ event < GraphEnd
    /\ IF \E d \in Expiring : ~Active(d) THEN Fail("not active")
       ELSE /\ arena' = Released /\ Begin(event + 1)
            /\ UNCHANGED <<partitioning, placement, scheme, status, reason, result, computed, outputs>>

\* The terminal values are read, the rest is released, and the arena has to be empty.
Finish ==
    /\ status = "running" /\ event = GraphEnd
    /\ IF \E d \in Expiring \union {ValueOf(t) : t \in Terminals(graph)} : ~Active(d)
       THEN Fail("not active")
       ELSE IF \E i \in DOMAIN slots : Released[i].holds # {} THEN Fail("retained live storage")
       ELSE /\ outputs' = [t \in Terminals(graph) |-> Content(ValueOf(t))]
            /\ arena' = Released /\ status' = "done"
            /\ UNCHANGED <<partitioning, placement, scheme, reason, event, todo, result, computed>>

Next ==
    \/ PartitioningNext /\ UNCHANGED <<placement, execution>>
    \/ PlanStorage \/ PlaceDraft \/ Admit
    \/ KernelFails \/ ComputeKernel \/ Write \/ Release \/ Finish

Spec == Init /\ [][Next]_vars

-----------------------------------------------------------------------------
(* Properties *)

\* A plan that was admitted is never broken: nothing is read from a slot that does not hold
\* it, no slot is written while it is in use, padding is zero, and nothing is left in the end.
ArenaNeverRefuses == reason \in {"none", "not finite"}

\* Through reused storage the caller gets what any executor promises.
Promised == INSTANCE GraphExecution WITH
    Length   <- Lengths,
    Terminal <- AllTerminals,
    status   <- IF status \in {"waiting", "placing"} THEN "pending" ELSE status

KeepsPromise == Promised!Spec

=============================================================================
