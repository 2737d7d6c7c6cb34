----------------------------- MODULE Partitioning -----------------------------
(***************************************************************************)
(* partition_graph (runtime/partitioning.py): every operation of a graph   *)
(* is given to a backend, in order, and the domain transfers and layout    *)
(* conversions its operands need there are recorded.                       *)
(*                                                                         *)
(* Operations are known by their place in the graph.  A movement (an edge) *)
(* is known by the operation and the position of the operand it is for: an *)
(* operation that reads one tensor twice has two.  All tensors are float32 *)
(* of rank 1 or 2; error budgets and energy are left out.                  *)
(***************************************************************************)
EXTENDS Integers, Sequences, FiniteSets, FiniteSetsExt

CONSTANTS
    Tensors, Names,
    Shape,      \* the logical shape of a tensor
    Rank,       \* the place of a backend's name in the alphabet
    Graphs,     \* graphs to partition
    Machines,   \* sets of backend capabilities to partition them for
    Rules,      \* the overrides an operation may have
    Profiles,   \* transfer cost profiles; no profile is one that charges a unit for a byte
    None        \* no backend, no domain, no producer

Kinds   == {"matmul", "elementwise", "reduction", "softmax"}
Domains == {"host", "sram", "analog"}
Layouts == {"row_major", "blocked"}

ReferenceCpu == "reference-cpu"

Operations   == [kind : Kinds, inputs : Seq(Tensors), outputs : Seq(Tensors),
                 layout : Layouts, wants : Domains \union {None}]
Capabilities == [name : Names, kinds : SUBSET Kinds, prefers : SUBSET Kinds, domain : Domains,
                 layouts : SUBSET Layouts, produces : SUBSET Layouts]
\* force is the backend an operation requires or prefers: either is obeyed or refused.
Effects      == [force : Names \union {None}, deny : SUBSET Names]
Costs        == [Domains \X Domains -> [base : Nat, unit : Nat]]

ASSUME PartitioningAssumption ==
    /\ ReferenceCpu \in Names /\ None \notin Names \union Domains \union Nat
    /\ Rank \in [Names -> Nat] /\ \A m, n \in Names : Rank[m] = Rank[n] => m = n
    /\ Shape \in [Tensors -> Seq(Nat \ {0})]
    /\ \A t \in Tensors : Len(Shape[t]) \in {1, 2}
    /\ \A g \in Graphs : g # <<>> /\ g \in Seq(Operations)
    /\ \A m \in Machines : /\ m \subseteq Capabilities
                           /\ \A b \in m : b.produces # {}
                           /\ \A b, c \in m : b.name = c.name => b = c
    /\ Rules \subseteq Effects /\ \A r \in Rules : r.force \notin r.deny
    /\ Profiles \subseteq Costs

VARIABLES
    graph, backends, profile,
    overrides,   \* one effect for each operation; [force |-> None, deny |-> {}] is none
    stage,       \* "overrides", "assign"; "planned", "rejected"
    current,     \* the operation to assign
    plan,        \* PartitionPlan: assignments, transfers, conversions
    locations    \* tensor_locations

partitioning == <<graph, backends, profile, overrides, stage, current, plan, locations>>

PartitioningInit ==
    /\ graph \in Graphs /\ backends \in Machines /\ profile \in Profiles
    /\ overrides \in [DOMAIN graph -> Rules]
    /\ stage = "overrides" /\ current = 1
    /\ plan = [assignments |-> <<>>, transfers |-> {}, conversions |-> {}]
    /\ locations = <<>>

-----------------------------------------------------------------------------
(* The graph *)

Elements(t) == IF Len(Shape[t]) = 2 THEN Shape[t][1] * Shape[t][2] ELSE Shape[t][1]
Bytes(t)    == 4 * Elements(t)

Reads(op)  == {op.inputs[k] : k \in DOMAIN op.inputs}
Writes(op) == {op.outputs[k] : k \in DOMAIN op.outputs}
Produced(g)  == UNION {Writes(g[i]) : i \in DOMAIN g}
Consumed(g)  == UNION {Reads(g[i]) : i \in DOMAIN g}
Terminals(g) == Produced(g) \ Consumed(g)
External     == Consumed(graph) \ Produced(graph)

\* _validate_runtime_graph_topology: a tensor has one producer, which comes before its readers.
Ordered ==
    \A i, j \in DOMAIN graph :
        /\ \A k \in DOMAIN graph[i].outputs, l \in DOMAIN graph[j].outputs :
               graph[i].outputs[k] = graph[j].outputs[l] => i = j /\ k = l
        /\ Reads(graph[i]) \intersect Writes(graph[j]) # {} => j < i

\* In an ordered graph: the operation that produces t.
Producer(t) == CHOOSE i \in DOMAIN graph : t \in Writes(graph[i])

-----------------------------------------------------------------------------
(* Overrides *)

Supports(b, op) == op.kind \in b.kinds /\ op.layout \in b.layouts

\* apply_to_candidates
Candidates(i) ==
    LET accepted == {b \in backends : Supports(b, graph[i])}
    IN  IF overrides[i].force # None THEN {b \in accepted : b.name = overrides[i].force}
        ELSE {b \in accepted : b.name \notin overrides[i].deny}

\* validate_for_graph: every rule is about an accepted backend, and leaves one.
OverridesValid ==
    \A i \in DOMAIN graph :
        LET accepted == {b.name : b \in {c \in backends : Supports(c, graph[i])}}
        IN  /\ overrides[i].deny \subseteq accepted
            /\ overrides[i].force \in accepted \union {None}
            /\ overrides[i].deny # {} => accepted \ overrides[i].deny # {}

-----------------------------------------------------------------------------
(* The choice of a backend for the operation op *)

\* preferred_for counts only without a forced backend, and only if somebody prefers the kind.
Pool(i) ==
    LET preferred == {b \in Candidates(i) : graph[i].kind \in b.prefers}
    IN  IF overrides[i].force = None /\ preferred # {} THEN preferred ELSE Candidates(i)

\* The positions of the operands that were produced in another domain.
MovedTo(op, domain) ==
    {k \in DOMAIN op.inputs : /\ op.inputs[k] \in DOMAIN locations
                              /\ locations[op.inputs[k]].domain # domain}

TransferBytes(op, domain) == MapThenSumSet(LAMBDA k : Bytes(op.inputs[k]), MovedTo(op, domain))

TransferScore(op, domain) ==
    MapThenSumSet(LAMBDA k : LET cost == profile[<<locations[op.inputs[k]].domain, domain>>]
                             IN  cost.base + cost.unit * Bytes(op.inputs[k]),
                  MovedTo(op, domain))

\* _candidate_sort_key; the conversion bytes in it are the same for every candidate.
SortKey(op, b) == <<TransferScore(op, b.domain), TransferBytes(op, b.domain),
                    IF op.wants = b.domain THEN 0 ELSE 1, Rank[b.name]>>

Before(s, t) == \E k \in DOMAIN s : s[k] < t[k] /\ \A j \in 1 .. k - 1 : s[j] = t[j]

Best(op, pool) == CHOOSE b \in pool : \A c \in pool \ {b} : Before(SortKey(op, b), SortKey(op, c))

\* "blocked" sorts before "row_major".
ProducedLayout(b, op) ==
    IF op.layout \in b.produces THEN op.layout
    ELSE IF "blocked" \in b.produces THEN "blocked" ELSE "row_major"

Assignment(i) ==
    LET best == Best(graph[i], Pool(i))
    IN  IF Pool(i) = {}
        THEN [backend |-> ReferenceCpu, domain |-> "host", layout |-> graph[i].layout]
        ELSE [backend |-> best.name, domain |-> best.domain,
              layout |-> ProducedLayout(best, graph[i])]

-----------------------------------------------------------------------------
(* The movements its operands need *)

\* An external input is in row-major layout, and in no domain in particular.
SourceLayout(t) == IF t \in DOMAIN locations THEN locations[t].layout ELSE "row_major"
SourceOf(t)     == IF t \in DOMAIN locations THEN locations[t].producer ELSE None

Transfer(i, k, domain) ==
    LET t == graph[i].inputs[k]
    IN  [tensor |-> t, source |-> SourceOf(t), target |-> i, position |-> k,
         from |-> locations[t].domain, to |-> domain,
         sourceLayout |-> SourceLayout(t), targetLayout |-> graph[i].layout]

Conversion(i, k) ==
    LET t == graph[i].inputs[k]
    IN  [tensor |-> t, source |-> SourceOf(t), target |-> i, position |-> k,
         sourceLayout |-> SourceLayout(t), targetLayout |-> graph[i].layout]

\* Mutants: transfers only where the layout fits; conversions only together with a transfer.
TransfersConverted(i, a) ==
    {Transfer(i, k, a.domain) : k \in {j \in MovedTo(graph[i], a.domain) :
                                          SourceLayout(graph[i].inputs[j]) = graph[i].layout}}

ConversionsMoved(i) ==
    {Conversion(i, k) : k \in {j \in DOMAIN graph[i].inputs :
                                  /\ SourceLayout(graph[i].inputs[j]) # graph[i].layout
                                  /\ graph[i].inputs[j] \in DOMAIN locations
                                  /\ locations[graph[i].inputs[j]].domain # Assignment(i).domain}}

Transfers(i, a) == {Transfer(i, k, a.domain) : k \in MovedTo(graph[i], a.domain)}

Conversions(i) ==
    {Conversion(i, k) : k \in {j \in DOMAIN graph[i].inputs :
                                  SourceLayout(graph[i].inputs[j]) # graph[i].layout}}

-----------------------------------------------------------------------------
(* partition_graph *)

CheckOverrides ==
    /\ stage = "overrides"
    /\ stage' = IF OverridesValid THEN "assign" ELSE "rejected"
    /\ UNCHANGED <<graph, backends, profile, overrides, current, plan, locations>>

\* One round of the loop over the operations.
AssignNext ==
    /\ stage = "assign" /\ current \in DOMAIN graph
    /\ LET a == Assignment(current) IN
           /\ plan' = [assignments |-> Append(plan.assignments, a),
                       transfers   |-> plan.transfers \union Transfers(current, a),
                       conversions |-> plan.conversions \union Conversions(current)]
           /\ locations' = [t \in Writes(graph[current]) \union DOMAIN locations |->
                 IF t \in Writes(graph[current])
                 THEN [producer |-> current, domain |-> a.domain, layout |-> a.layout]
                 ELSE locations[t]]
    /\ current' = current + 1
    /\ UNCHANGED <<graph, backends, profile, overrides, stage>>

PlanDone ==
    /\ stage = "assign" /\ current \notin DOMAIN graph
    /\ stage' = "planned"
    /\ UNCHANGED <<graph, backends, profile, overrides, current, plan, locations>>

PartitioningNext == CheckOverrides \/ AssignNext \/ PlanDone

-----------------------------------------------------------------------------
(* Properties *)

\* Where t is left in the end, told from the assignments as a whole.
LeftBy(t) ==
    LET i == Producer(t)
    IN  IF t \notin Produced(graph) THEN [producer |-> None, domain |-> None, layout |-> "row_major"]
        ELSE [producer |-> i, domain |-> plan.assignments[i].domain,
              layout |-> plan.assignments[i].layout]

\* Every operand of every operation, and what a movement for it has to say.
Operands == UNION {{i} \X DOMAIN graph[i].inputs : i \in DOMAIN graph}

Relayout(p) ==
    LET t == graph[p[1]].inputs[p[2]]
    IN  [tensor |-> t, source |-> LeftBy(t).producer, target |-> p[1], position |-> p[2],
         sourceLayout |-> LeftBy(t).layout, targetLayout |-> graph[p[1]].layout]

Move(p) ==
    LET t == graph[p[1]].inputs[p[2]]
    IN  [tensor |-> t, source |-> LeftBy(t).producer, target |-> p[1], position |-> p[2],
         from |-> LeftBy(t).domain, to |-> plan.assignments[p[1]].domain,
         sourceLayout |-> LeftBy(t).layout, targetLayout |-> graph[p[1]].layout]

\* The edges plan_residency (runtime/residency.py) derives once more from the assignments and
\* compares with the ones of the plan; it takes only plans without conversions, whose layouts
\* are all row-major.
ExpectedEdges ==
    {Move(p) : p \in {q \in Operands : /\ graph[q[1]].inputs[q[2]] \in Produced(graph)
                                       /\ Move(q).from # Move(q).to}}

\* The movements of a finished plan are the ones its assignments call for, taken as a whole:
\* an operand that its producer leaves in another domain, or in another layout, than its
\* reader wants is moved once for that operand, from there, and nothing else is.
\* partition_graph keeps the latest location of every tensor while it decides.
MovementsFitAssignments ==
    stage = "planned" /\ Ordered =>
        /\ plan.transfers = ExpectedEdges
        /\ plan.conversions =
               {Relayout(p) : p \in {q \in Operands : Relayout(q).sourceLayout # Relayout(q).targetLayout}}

=============================================================================
