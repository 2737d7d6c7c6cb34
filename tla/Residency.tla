------------------------------ MODULE Residency ------------------------------
(***************************************************************************)
(* plan_residency (runtime/residency.py): from a partitioned graph to the  *)
(* ordered events bind_input, copy, execute and publish_output over        *)
(* numbered buffer slots.  The bounded code generators emit these events   *)
(* as the static schedule of the generated program.                        *)
(*                                                                         *)
(* The planner works through the operations in order, one input at a time; *)
(* each action below is one round of its loops.  Beside the plan runs what *)
(* it is for: an executor that performs each event as it is planned, whose *)
(* `memory` says which tensor's value every slot holds.                    *)
(***************************************************************************)
EXTENDS Integers, SequencesExt, FiniteSetsExt

CONSTANTS
    Tensors, Spaces,
    Host,         \* host_space
    Garbage,      \* the value of an operation that read a wrong value
    Graphs,       \* partitioned graphs to plan: sequences of operations
    Bytes,        \* bytes of a tensor
    MaxBuffers,   \* MAX_RESIDENCY_BUFFERS
    MaxBytes      \* MAX_RESIDENCY_BYTES

\* An operation with the space of the backend it is assigned to.
Operations == [inputs : Seq(Tensors), outputs : Seq(Tensors), space : Spaces]

ASSUME ResidencyAssumption ==
    /\ Host \in Spaces /\ Garbage \notin Tensors
    /\ Bytes \in [Tensors -> Nat \ {0}]
    /\ MaxBuffers \in Nat /\ MaxBytes \in Nat
    /\ \A g \in Graphs : /\ g \in Seq(Operations) /\ g # <<>>
                         /\ \A i \in DOMAIN g : g[i].outputs # <<>> /\ g[i].inputs # <<>>

VARIABLES
    graph,
    phase,     \* "check", "operations", "publish"; "rejected", "over budget", "planned"
    current,   \* index of the operation at work, or whose outputs are published
    inputs,    \* slots of its inputs so far
    outputs,   \* slots of its outputs so far
    item,      \* index of the output to publish next
    plan,      \* the local state of plan_residency: buffers, steps, resident, origins, reserved
    memory     \* history: what an executor of the steps so far has in each slot

vars == <<graph, phase, current, inputs, outputs, item, plan, memory>>

Slots == DOMAIN plan.buffers

TypeOK ==
    /\ \A i \in DOMAIN graph : graph[i] \in Operations
    /\ phase \in {"check", "operations", "publish", "rejected", "over budget", "planned"}
    /\ current \in 1 .. Len(graph) + 1
    /\ ToSet(inputs) \subseteq Slots /\ ToSet(outputs) \subseteq Slots
    /\ item \in Nat
    /\ \A s \in Slots : plan.buffers[s] \in Tensors \X Spaces
    /\ \A t \in DOMAIN plan.origins : plan.origins[t] \in Slots
    /\ \A b \in DOMAIN plan.resident : plan.resident[b] \in Slots
    /\ Len(memory) = Len(plan.buffers)

EmptyPlan == [buffers |-> <<>>, steps |-> <<>>, resident |-> <<>>, origins |-> <<>>, reserved |-> 0]

Init ==
    /\ graph \in Graphs
    /\ phase = "check" /\ current = 1 /\ inputs = <<>> /\ outputs = <<>>
    /\ item = 1 /\ plan = EmptyPlan /\ memory = <<>>

-----------------------------------------------------------------------------
(* What the planner looks at in the graph. *)

Op       == graph[current]
Consumed == UNION {ToSet(graph[i].inputs) : i \in DOMAIN graph}

\* Mutant: only what the last operation produces is terminal.
TerminalIfLast(t) == Contains(graph[Len(graph)].outputs, t)

\* Nobody consumes t.
Terminal(t) == t \notin Consumed

SingleProducers ==
    \A i, j \in DOMAIN graph :
        \A k \in DOMAIN graph[i].outputs, l \in DOMAIN graph[j].outputs :
            graph[i].outputs[k] = graph[j].outputs[l] => i = j /\ k = l

\* No operation reads what it or a later one produces.
BackwardUses ==
    \A i, j \in DOMAIN graph : ToSet(graph[i].inputs) \intersect ToSet(graph[j].outputs) # {} => j < i

-----------------------------------------------------------------------------
(* The local functions of plan_residency on the plan p, a record [plan, memory, slot]. *)

\* The dictionary f with v at x.
With(f, x, v) == [y \in DOMAIN f \union {x} |-> IF y = x THEN v ELSE f[y]]

\* allocate: a new slot; value is what the event it is allocated for writes to it.
Allocate(p, t, space, value) ==
    LET slot == Len(p.plan.buffers) + 1
    IN  [plan |-> [p.plan EXCEPT !.buffers = Append(@, <<t, space>>),
                                 !.resident = With(@, <<t, space>>, slot),
                                 !.reserved = @ + Bytes[t]],
         memory |-> Append(p.memory, value),
         slot |-> slot]

\* Mutant: the last slot is never given away.
OverBudgetAtLimit(p) == Len(p.plan.buffers) >= MaxBuffers \/ p.plan.reserved > MaxBytes

\* allocate raises as soon as a slot or its bytes are too many; both only grow.
OverBudget(p) == Len(p.plan.buffers) > MaxBuffers \/ p.plan.reserved > MaxBytes

Originate(p, t)         == [p EXCEPT !.plan.origins = With(@, t, p.slot)]
Emit(p, kind, ins, outs) ==
    [p EXCEPT !.plan.steps = Append(@, [kind |-> kind, inputs |-> ins, outputs |-> outs])]

\* Mutants: every use gets a copy; the first place of a tensor is good enough.
EnsureCopies(p, t, space) ==
    LET source == p.plan.origins[t]
        new == Allocate(p, t, space, p.memory[source])
    IN  IF p.plan.buffers[source][2] = space THEN [p EXCEPT !.slot = source]
        ELSE Emit(new, "copy", <<source>>, <<new.slot>>)

EnsureAnywhere(p, t, space) == [p EXCEPT !.slot = p.plan.origins[t]]

\* ensure: where t already is in that space, or a copy made from its origin.
Ensure(p, t, space) ==
    IF <<t, space>> \in DOMAIN p.plan.resident
    THEN [p EXCEPT !.slot = p.plan.resident[<<t, space>>]]
    ELSE LET source == p.plan.origins[t]
             new    == Allocate(p, t, space, p.memory[source])
         IN  Emit(new, "copy", <<source>>, <<new.slot>>)

\* The first use of an external input binds it to a host slot.
Bind(p, t) ==
    LET new == Originate(Allocate(p, t, Host, t), t)
    IN  IF t \in DOMAIN p.plan.origins THEN p ELSE Emit(new, "bind_input", <<>>, <<new.slot>>)

Now == [plan |-> plan, memory |-> memory, slot |-> 0]

\* The plan becomes p; if an allocation in it raised, that is the end, and the locals are lost.
Becomes(p, next) ==
    /\ plan' = p.plan /\ memory' = p.memory
    /\ phase' = IF OverBudget(p) THEN "over budget" ELSE next

-----------------------------------------------------------------------------
(* plan_residency *)

Reject ==
    /\ phase = "check" /\ ~(SingleProducers /\ BackwardUses)
    /\ phase' = "rejected"
    /\ UNCHANGED <<graph, current, inputs, outputs, item, plan, memory>>

Accept ==
    /\ phase = "check" /\ SingleProducers /\ BackwardUses
    /\ phase' = "operations"
    /\ UNCHANGED <<graph, current, inputs, outputs, item, plan, memory>>

\* The next input is bound if it is new, and brought to the space of the operation.
NextInput ==
    /\ phase = "operations" /\ current <= Len(graph) /\ Len(inputs) < Len(Op.inputs)
    /\ LET t == Op.inputs[Len(inputs) + 1]
           p == Ensure(Bind(Now, t), t, Op.space)
       IN  Becomes(p, "operations") /\ inputs' = Append(inputs, p.slot)
    /\ UNCHANGED <<graph, current, outputs, item>>

\* What an executor computes: garbage, unless it reads the operands in its own space.
Computed(t) ==
    IF \A k \in DOMAIN inputs : /\ memory[inputs[k]] = Op.inputs[k]
                                /\ plan.buffers[inputs[k]][2] = Op.space
    THEN t ELSE Garbage

InputsReady == current <= Len(graph) /\ Len(inputs) = Len(Op.inputs)

NextOutput ==
    /\ phase = "operations" /\ InputsReady /\ Len(outputs) < Len(Op.outputs)
    /\ LET t == Op.outputs[Len(outputs) + 1]
           p == Originate(Allocate(Now, t, Op.space, Computed(t)), t)
       IN  Becomes(p, "operations") /\ outputs' = Append(outputs, p.slot)
    /\ UNCHANGED <<graph, current, inputs, item>>

Execute ==
    /\ phase = "operations" /\ InputsReady /\ Len(outputs) = Len(Op.outputs)
    /\ plan' = Emit(Now, "execute", inputs, outputs).plan
    /\ current' = current + 1 /\ inputs' = <<>> /\ outputs' = <<>>
    /\ UNCHANGED <<graph, phase, item, memory>>

AllExecuted ==
    /\ phase = "operations" /\ current > Len(graph)
    /\ phase' = "publish" /\ current' = 1 /\ item' = 1
    /\ UNCHANGED <<graph, inputs, outputs, plan, memory>>

\* A terminal tensor is brought to the host and published from there.
Publish ==
    /\ phase = "publish" /\ current <= Len(graph) /\ item <= Len(Op.outputs)
    /\ IF Terminal(Op.outputs[item])
       THEN LET p == Ensure(Now, Op.outputs[item], Host)
            IN  Becomes(Emit(p, "publish_output", <<p.slot>>, <<>>), "publish")
       ELSE UNCHANGED <<phase, plan, memory>>
    /\ item' = item + 1
    /\ UNCHANGED <<graph, current, inputs, outputs>>

NextProducer ==
    /\ phase = "publish" /\ current <= Len(graph) /\ item > Len(Op.outputs)
    /\ current' = current + 1 /\ item' = 1
    /\ UNCHANGED <<graph, phase, inputs, outputs, plan, memory>>

Finish ==
    /\ phase = "publish" /\ current > Len(graph)
    /\ phase' = "planned"
    /\ UNCHANGED <<graph, current, inputs, outputs, item, plan, memory>>

Next == Reject \/ Accept \/ NextInput \/ NextOutput \/ Execute \/ AllExecuted
        \/ Publish \/ NextProducer \/ Finish

Spec == Init /\ [][Next]_vars

-----------------------------------------------------------------------------
(* Properties *)

Produced == UNION {ToSet(graph[i].outputs) : i \in DOMAIN graph}
External == Consumed \ Produced

\* The slots of p are for these tensors in this space.
Holds(p, slots, tensors, space) ==
    /\ Len(slots) = Len(tensors)
    /\ \A k \in DOMAIN slots : p.buffers[slots[k]] = <<tensors[k], space>>

\* Event e of p executes operation i on its operands, where it runs.
Performs(p, e, i) ==
    /\ p.steps[e].kind = "execute"
    /\ Holds(p, p.steps[e].inputs, graph[i].inputs, graph[i].space)
    /\ Holds(p, p.steps[e].outputs, graph[i].outputs, graph[i].space)

\* Event e of p brings an external input to the host, a value to another space, the results
\* of an operation about, or a terminal out of the host.
Meaningful(p, e) ==
    LET ev == p.steps[e] IN
    \/ ev.kind = "bind_input" /\ ev.inputs = <<>>
       /\ \E t \in External : Holds(p, ev.outputs, <<t>>, Host)
    \/ ev.kind = "copy" /\ \E t \in Tensors : \E from, to \in Spaces :
           from # to /\ Holds(p, ev.inputs, <<t>>, from) /\ Holds(p, ev.outputs, <<t>>, to)
    \/ \E i \in DOMAIN graph : Performs(p, e, i)
    \/ ev.kind = "publish_output" /\ ev.outputs = <<>>
       /\ \E t \in Produced \ Consumed : Holds(p, ev.inputs, <<t>>, Host)

\* Event e of p reads what earlier events wrote, and writes what none of them did.
WellTimed(p, e) ==
    LET Written == UNION {ToSet(p.steps[d].outputs) : d \in 1 .. e - 1}
    IN  /\ ToSet(p.steps[e].inputs) \subseteq Written
        /\ ToSet(p.steps[e].outputs) \intersect Written = {}

\* The schedule computes the graph: every value in a slot is the one of the slot's tensor,
\* every event does something the graph asks for, no event reads a slot before it is written
\* or writes one twice, and a finished schedule executes every operation.
DataflowRespected ==
    /\ \A s \in Slots : memory[s] = plan.buffers[s][1]
    /\ \A e \in DOMAIN plan.steps : Meaningful(plan, e) /\ WellTimed(plan, e)
    /\ phase = "planned" => \A i \in DOMAIN graph : \E e \in DOMAIN plan.steps : Performs(plan, e, i)

\* The residencies any schedule of the graph needs: external inputs on the host, operands
\* and results where the operation runs, terminals on the host.
Required ==
    {b \in Tensors \X Spaces :
        \/ \E i \in DOMAIN graph : /\ b[1] \in ToSet(graph[i].inputs) \union ToSet(graph[i].outputs)
                                   /\ b[2] = graph[i].space
        \/ b[1] \in External \union (Produced \ Consumed) /\ b[2] = Host}

\* A finished plan has one slot for each of them and no other: no value is copied twice to
\* one space, whatever the fan-out, and none goes where nobody needs it.
ExactResidency ==
    phase = "planned" => IsInjective(plan.buffers) /\ ToSet(plan.buffers) = Required

\* A graph is refused for its budget exactly when the residencies it needs exceed it, at
\* the boundary as well.
BudgetExact ==
    LET tooMuch == \/ Cardinality(Required) > MaxBuffers
                   \/ MapThenSumSet(LAMBDA b : Bytes[b[1]], Required) > MaxBytes
    IN  (phase = "over budget" => tooMuch) /\ (phase = "planned" => ~tooMuch)

\* The graph produces t before u: in an earlier operation, or as an earlier result.
ProducedBefore(t, u) ==
    \E i, j \in DOMAIN graph : \E k \in DOMAIN graph[i].outputs, l \in DOMAIN graph[j].outputs :
        /\ t = graph[i].outputs[k] /\ u = graph[j].outputs[l]
        /\ i < j \/ (i = j /\ k < l)

\* A finished plan publishes every terminal tensor once, from the host, in the order the
\* graph produces them, and nothing else.
OutputsPublished ==
    LET Published    == {e \in DOMAIN plan.steps : plan.steps[e].kind = "publish_output"}
        published(e) == memory[plan.steps[e].inputs[1]]
    IN  phase = "planned" =>
            /\ {published(e) : e \in Published} = Produced \ Consumed
            /\ \A d, e \in Published : d < e => ProducedBefore(published(d), published(e))
            /\ \A e \in Published : plan.buffers[plan.steps[e].inputs[1]][2] = Host

=============================================================================
