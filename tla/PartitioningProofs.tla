--------------------------- MODULE PartitioningProofs ---------------------------
(***************************************************************************)
(* The movements partition_graph plans while it goes along the operations  *)
(* are the ones its finished assignments call for, for any graphs,         *)
(* backends, overrides and costs.                                          *)
(***************************************************************************)
EXTENDS Partitioning, FiniteSetTheorems, TLAPS

\* What tensor_locations says of a tensor that was produced so far.
Located(t, i) ==
    /\ t \in Writes(graph[i])
    /\ locations[t] = [producer |-> i, domain |-> plan.assignments[i].domain,
                       layout |-> plan.assignments[i].layout]

\* The movements planned so far.
MovesSoFar ==
    {Move(p) : p \in {q \in Operands : /\ q[1] < current
                                       /\ graph[q[1]].inputs[q[2]] \in Produced(graph)
                                       /\ Move(q).from # Move(q).to}}
RelayoutsSoFar ==
    {Relayout(p) : p \in {q \in Operands : /\ q[1] < current
                                           /\ Relayout(q).sourceLayout # Relayout(q).targetLayout}}

\* Which operations are assigned, where their results are, and what is planned for them.
Planning ==
    /\ graph \in Graphs
    /\ current \in 1 .. Len(graph) + 1
    /\ stage = "planned" => current = Len(graph) + 1
    /\ \E S : plan.assignments \in Seq(S)
    /\ Len(plan.assignments) = current - 1
    /\ DOMAIN locations = UNION {Writes(graph[i]) : i \in 1 .. current - 1}
    /\ \A t \in DOMAIN locations : \E i \in 1 .. current - 1 : Located(t, i)
    /\ plan = [assignments |-> plan.assignments, transfers |-> plan.transfers,
               conversions |-> plan.conversions]
    /\ IsFiniteSet(plan.transfers) /\ IsFiniteSet(plan.conversions)
    /\ Ordered => plan.transfers = MovesSoFar /\ plan.conversions = RelayoutsSoFar

-----------------------------------------------------------------------------
(* Graphs *)

\* A graph is a sequence of operations, and an operation has sequences of operands and results.
LEMMA GraphShape ==
    ASSUME graph \in Graphs
    PROVE  /\ graph \in Seq(Operations) /\ Len(graph) \in Nat \ {0}
           /\ DOMAIN graph = 1 .. Len(graph)
           /\ \A i \in DOMAIN graph : /\ graph[i] \in Operations
                                      /\ graph[i].inputs \in Seq(Tensors)
                                      /\ graph[i].outputs \in Seq(Tensors)
                                      /\ DOMAIN graph[i].inputs = 1 .. Len(graph[i].inputs)
                                      /\ DOMAIN graph[i].outputs = 1 .. Len(graph[i].outputs)
<1>1. graph \in Seq(Operations) /\ graph # <<>>
    BY PartitioningAssumption
<1>2. \A i \in DOMAIN graph : graph[i] \in Operations
    BY <1>1
<1>3. \A op \in Operations : op.inputs \in Seq(Tensors) /\ op.outputs \in Seq(Tensors)
    BY DEF Operations
<1>4. QED
    BY <1>1, <1>2, <1>3

\* In an ordered graph a tensor has one producer.
LEMMA OneProducer ==
    ASSUME Ordered, NEW i \in DOMAIN graph, NEW t \in Writes(graph[i])
    PROVE  Producer(t) = i /\ t \in Produced(graph)
<1>1. \A j \in DOMAIN graph : t \in Writes(graph[j]) => i = j
    BY DEF Ordered, Writes
<1>2. QED
    BY <1>1 DEF Producer, Produced

\* In an ordered graph a tensor is produced before it is read.
LEMMA ProducedBefore ==
    ASSUME Ordered, NEW i \in DOMAIN graph, NEW t \in Reads(graph[i]), t \in Produced(graph)
    PROVE  Producer(t) \in DOMAIN graph /\ t \in Writes(graph[Producer(t)]) /\ Producer(t) < i
<1>1. PICK j \in DOMAIN graph : t \in Writes(graph[j])
    BY DEF Produced
<1>2. Producer(t) = j
    BY <1>1, OneProducer
<1>3. Reads(graph[i]) \intersect Writes(graph[j]) # {}
    BY <1>1
<1>4. QED
    BY <1>1, <1>2, <1>3 DEF Ordered

-----------------------------------------------------------------------------
(* The planning invariant *)

\* Nothing is planned before the first operation.
LEMMA InitPlanning == PartitioningInit => Planning
<1> SUFFICES ASSUME PartitioningInit PROVE Planning
    OBVIOUS
<1>1. graph \in Graphs /\ Len(graph) \in Nat \ {0} /\ DOMAIN graph = 1 .. Len(graph)
    BY GraphShape DEF PartitioningInit
<1>2. plan.assignments \in Seq({}) /\ Len(plan.assignments) = 0
    BY DEF PartitioningInit
<1>3. \A q \in Operands : ~(q[1] < 1)
    <2>1. \A q \in Operands : q[1] \in 1 .. Len(graph)
        BY <1>1 DEF Operands
    <2>2. QED
        BY <2>1, <1>1
<1>4. MovesSoFar = {} /\ RelayoutsSoFar = {}
    BY <1>3 DEF MovesSoFar, RelayoutsSoFar, PartitioningInit
<1>5. DOMAIN locations = {} /\ UNION {Writes(graph[i]) : i \in 1 .. 0} = {}
    BY DEF PartitioningInit
<1>6. IsFiniteSet({})
    BY FS_EmptySet
<1>7. QED
    BY <1>1, <1>2, <1>4, <1>5, <1>6 DEF PartitioningInit, Planning

\* What the next assignment adds to the plan leaves the earlier assignments as they are.
LEMMA AssignmentsGrow ==
    ASSUME Planning, AssignNext
    PROVE  /\ plan'.assignments[current] = Assignment(current)
           /\ \A i \in 1 .. current - 1 : plan'.assignments[i] = plan.assignments[i]
           /\ Len(plan'.assignments) = current
           /\ \E S : plan'.assignments \in Seq(S)
<1>1. PICK a : a = Assignment(current)
    OBVIOUS
<1>2. PICK S : plan.assignments \in Seq(S)
    BY DEF Planning
<1>3. plan'.assignments = Append(plan.assignments, a)
    BY <1>1 DEF AssignNext
<1>4. plan.assignments \in Seq(S \union {a}) /\ Len(plan.assignments) = current - 1
    BY <1>2 DEF Planning
<1>5. current \in Nat \ {0}
    BY GraphShape DEF Planning
<1>6. Append(plan.assignments, a) \in Seq(S \union {a})
    BY <1>4
<1>7. QED
    BY <1>1, <1>3, <1>4, <1>5, <1>6

\* The locations stay right, and so does the rest of what does not need the graph's order.
LEMMA AssignNextLocates ==
    ASSUME Planning, AssignNext
    PROVE  /\ DOMAIN locations' = UNION {Writes(graph[i]) : i \in 1 .. current}
           /\ \A t \in DOMAIN locations' : \E i \in 1 .. current : Located(t, i)'
<1> DEFINE new == Writes(graph[current])
<1>1. PICK a : a = Assignment(current)
    OBVIOUS
<1>2. locations' = [t \in new \union DOMAIN locations |->
                       IF t \in new THEN [producer |-> current, domain |-> a.domain, layout |-> a.layout]
                       ELSE locations[t]]
    BY <1>1 DEF AssignNext
<1>3. current \in Nat \ {0} /\ current \in DOMAIN graph
    BY GraphShape DEF Planning, AssignNext
<1>4. DOMAIN locations = UNION {Writes(graph[i]) : i \in 1 .. current - 1}
    BY DEF Planning
<1>5. DOMAIN locations' = UNION {Writes(graph[i]) : i \in 1 .. current}
    <2>1. 1 .. current = (1 .. current - 1) \union {current}
        BY <1>3
    <2>2. DOMAIN locations' = new \union DOMAIN locations
        BY <1>2
    <2>3. QED
        BY <2>1, <2>2, <1>4
<1>6. ASSUME NEW t \in DOMAIN locations'
      PROVE  \E i \in 1 .. current : Located(t, i)'
    <2>1. CASE t \in new
        <3>1. locations'[t] = [producer |-> current, domain |-> a.domain, layout |-> a.layout]
            BY <1>2, <2>1
        <3>2. plan'.assignments[current] = a
            BY <1>1, AssignmentsGrow
        <3>3. graph' = graph
            BY DEF AssignNext
        <3>4. t \in Writes(graph'[current])
            BY <2>1, <3>3
        <3>5. \A i : i = current => Located(t, i)'
            BY <3>1, <3>2, <3>4 DEF Located
        <3>6. QED
            BY <3>5, <1>3
    <2>2. CASE t \notin new
        <3>1. t \in DOMAIN locations /\ locations'[t] = locations[t]
            BY <1>2, <2>2
        <3>2. PICK i \in 1 .. current - 1 : Located(t, i)
            BY <3>1 DEF Planning
        <3>3. plan'.assignments[i] = plan.assignments[i]
            BY AssignmentsGrow
        <3>4. Located(t, i)'
            BY <3>1, <3>2, <3>3 DEF Located, AssignNext
        <3>5. QED
            BY <3>4, <1>3
    <2>3. QED
        BY <2>1, <2>2
<1>7. QED
    BY <1>5, <1>6

\* In an ordered graph the recorded location of an operand is the one it has in the end.
LEMMA OperandsLocated ==
    ASSUME Planning, Ordered, current \in DOMAIN graph, NEW t \in Reads(graph[current])
    PROVE  /\ t \in Produced(graph) <=> t \in DOMAIN locations
           /\ SourceLayout(t) = LeftBy(t).layout /\ SourceOf(t) = LeftBy(t).producer
           /\ t \in Produced(graph) => locations[t].domain = LeftBy(t).domain
<1>1. graph \in Graphs /\ DOMAIN graph = 1 .. Len(graph) /\ Len(graph) \in Nat /\ current \in Nat \ {0}
    BY GraphShape DEF Planning
<1>2. CASE t \in DOMAIN locations
    <2>1. PICK i \in 1 .. current - 1 : Located(t, i)
        BY <1>2 DEF Planning
    <2>2. i \in DOMAIN graph /\ t \in Writes(graph[i])
        BY <1>1, <2>1 DEF Located
    <2>3. Producer(t) = i /\ t \in Produced(graph)
        BY <2>2, OneProducer
    <2>4. QED
        BY <2>1, <2>3, <1>2 DEF Located, LeftBy, SourceLayout, SourceOf
<1>3. CASE t \notin DOMAIN locations
    <2>1. t \notin Produced(graph)
        <3>1. ASSUME t \in Produced(graph) PROVE FALSE
            <4>1. Producer(t) \in 1 .. current - 1 /\ t \in Writes(graph[Producer(t)])
                BY <3>1, <1>1, ProducedBefore
            <4>2. QED
                BY <4>1, <1>3 DEF Planning
        <3>2. QED
            BY <3>1
    <2>2. QED
        BY <2>1, <1>3 DEF LeftBy, SourceLayout, SourceOf
<1>4. QED
    BY <1>2, <1>3

\* Nothing that is assigned later changes where the operands so far are left.
LEMMA LeftByKept ==
    ASSUME Planning, Ordered, AssignNext, NEW i \in 1 .. current, NEW t \in Reads(graph[i])
    PROVE  LeftBy(t)' = LeftBy(t)
<1>1. DOMAIN graph = 1 .. Len(graph) /\ Len(graph) \in Nat /\ current \in Nat \ {0} /\ current \in DOMAIN graph
    BY GraphShape DEF Planning, AssignNext
<1>2. graph' = graph
    BY DEF AssignNext
<1>3. Producer(t)' = Producer(t)
    BY <1>2 DEF Producer
<1>4. Produced(graph)' = Produced(graph)
    BY <1>2
<1>5. CASE t \notin Produced(graph)
    BY <1>4, <1>5 DEF LeftBy
<1>6. CASE t \in Produced(graph)
    <2>1. i \in DOMAIN graph
        BY <1>1
    <2>2. Producer(t) \in 1 .. current - 1
        BY <2>1, <1>1, <1>6, ProducedBefore
    <2>3. plan'.assignments[Producer(t)] = plan.assignments[Producer(t)]
        BY <2>2, AssignmentsGrow
    <2>4. QED
        BY <2>3, <1>3, <1>4, <1>6 DEF LeftBy
<1>7. QED
    BY <1>5, <1>6

\* What the movements so far say does not change, and what is expected of the next operation
\* is what _movement_requirements plans for it.
LEMMA MovementsOfNext ==
    ASSUME Planning, Ordered, AssignNext, NEW i \in 1 .. current, NEW k \in DOMAIN graph[i].inputs
    PROVE  LET t == graph[i].inputs[k]
               a == Assignment(current)
           IN  /\ i < current => Move(<<i, k>>)' = Move(<<i, k>>) /\ Relayout(<<i, k>>)' = Relayout(<<i, k>>)
               /\ i = current => /\ Relayout(<<i, k>>)' = Conversion(i, k)
                                 /\ t \in Produced(graph) <=> t \in DOMAIN locations
                                 /\ t \in Produced(graph) =>
                                        /\ Move(<<i, k>>)' = Transfer(i, k, a.domain)
                                        /\ Move(<<i, k>>)'.from = locations[t].domain
                                        /\ Move(<<i, k>>)'.to = a.domain
<1> DEFINE t == graph[i].inputs[k]
<1>1. graph' = graph /\ t \in Reads(graph[i]) /\ current \in DOMAIN graph
    BY DEF AssignNext, Reads
<1>2. LeftBy(t)' = LeftBy(t)
    BY <1>1, LeftByKept
<1>3. /\ i < current => plan'.assignments[i] = plan.assignments[i]
      /\ i = current => plan'.assignments[i] = Assignment(current)
    <2>1. current \in Nat
        BY GraphShape DEF Planning
    <2>2. i < current => i \in 1 .. current - 1
        BY <2>1
    <2>3. QED
        BY <2>2, AssignmentsGrow
<1>4. Move(<<i, k>>)' =
          [tensor |-> t, source |-> LeftBy(t).producer, target |-> i, position |-> k,
           from |-> LeftBy(t).domain, to |-> plan'.assignments[i].domain,
           sourceLayout |-> LeftBy(t).layout, targetLayout |-> graph[i].layout]
    BY <1>1, <1>2 DEF Move
<1>5. Relayout(<<i, k>>)' =
          [tensor |-> t, source |-> LeftBy(t).producer, target |-> i, position |-> k,
           sourceLayout |-> LeftBy(t).layout, targetLayout |-> graph[i].layout]
    BY <1>1, <1>2 DEF Relayout
<1>6. ASSUME i < current
      PROVE  Move(<<i, k>>)' = Move(<<i, k>>) /\ Relayout(<<i, k>>)' = Relayout(<<i, k>>)
    BY <1>3, <1>4, <1>5, <1>6 DEF Move, Relayout
<1>7. ASSUME i = current
      PROVE  /\ Relayout(<<i, k>>)' = Conversion(i, k)
             /\ t \in Produced(graph) <=> t \in DOMAIN locations
             /\ t \in Produced(graph) =>
                    /\ Move(<<i, k>>)' = Transfer(i, k, Assignment(current).domain)
                    /\ Move(<<i, k>>)'.from = locations[t].domain
                    /\ Move(<<i, k>>)'.to = Assignment(current).domain
    <2>1. /\ t \in Produced(graph) <=> t \in DOMAIN locations
          /\ SourceLayout(t) = LeftBy(t).layout /\ SourceOf(t) = LeftBy(t).producer
          /\ t \in Produced(graph) => locations[t].domain = LeftBy(t).domain
        BY <1>1, <1>7, OperandsLocated
    <2>2. Relayout(<<i, k>>)' = Conversion(i, k)
        BY <1>5, <2>1 DEF Conversion
    <2>3. plan'.assignments[i].domain = Assignment(current).domain
        BY <1>3, <1>7
    <2>4. t \in Produced(graph) => Move(<<i, k>>)' = Transfer(i, k, Assignment(current).domain)
        BY <1>4, <2>1, <2>3 DEF Transfer
    <2>5. t \in Produced(graph) => /\ Move(<<i, k>>)'.from = locations[t].domain
                                   /\ Move(<<i, k>>)'.to = Assignment(current).domain
        BY <1>4, <2>1, <2>3
    <2>6. QED
        BY <2>1, <2>2, <2>4, <2>5
<1>8. QED
    BY <1>6, <1>7

\* The movements so far, those of the next operation included.
LEMMA MovementsGrow ==
    ASSUME Planning, Ordered, AssignNext
    PROVE  plan'.transfers = MovesSoFar' /\ plan'.conversions = RelayoutsSoFar'
<1>1. PICK a : a = Assignment(current)
    OBVIOUS
<1>2. graph' = graph /\ current' = current + 1 /\ current \in Nat \ {0} /\ current \in DOMAIN graph
      /\ DOMAIN graph = 1 .. Len(graph) /\ Len(graph) \in Nat
    BY GraphShape DEF AssignNext, Planning
<1>3. \A q : q \in Operands <=> /\ q = <<q[1], q[2]>> /\ q[1] \in DOMAIN graph
                                /\ q[2] \in DOMAIN graph[q[1]].inputs
    BY DEF Operands
<1>4. Operands' = Operands
    BY <1>2 DEF Operands
<1>5. /\ plan'.transfers = plan.transfers \union Transfers(current, a)
      /\ plan'.conversions = plan.conversions \union Conversions(current)
    BY <1>1 DEF AssignNext
<1>6. plan.transfers = MovesSoFar /\ plan.conversions = RelayoutsSoFar
    BY DEF Planning
<1>7. \A q \in Operands : q[1] < current + 1 <=> q[1] < current \/ q[1] = current
    BY <1>2, <1>3
<1>8. ASSUME NEW q \in Operands, q[1] < current
      PROVE  Move(q)' = Move(q) /\ Relayout(q)' = Relayout(q)
    <2>1. q = <<q[1], q[2]>> /\ q[1] \in 1 .. current /\ q[2] \in DOMAIN graph[q[1]].inputs
        BY <1>2, <1>3, <1>8
    <2>2. QED
        BY <2>1, <1>8, MovementsOfNext
<1>9. ASSUME NEW q \in Operands, q[1] = current
      PROVE  LET t == graph[q[1]].inputs[q[2]]
             IN  /\ Relayout(q)' = Conversion(current, q[2])
                 /\ t \in Produced(graph) <=> t \in DOMAIN locations
                 /\ t \in Produced(graph) => /\ Move(q)' = Transfer(current, q[2], a.domain)
                                             /\ Move(q)'.from = locations[t].domain
                                             /\ Move(q)'.to = a.domain
    <2>1. q = <<q[1], q[2]>> /\ q[1] \in 1 .. current /\ q[2] \in DOMAIN graph[q[1]].inputs
        BY <1>2, <1>3, <1>9
    <2>2. QED
        BY <2>1, <1>1, <1>9, MovementsOfNext
<1>10. plan'.conversions = RelayoutsSoFar'
    <2>1. ASSUME NEW c \in RelayoutsSoFar' PROVE c \in plan'.conversions
        <3>1. PICK q \in Operands : /\ q[1] < current + 1 /\ c = Relayout(q)'
                                    /\ c.sourceLayout # c.targetLayout
            BY <1>2, <1>4 DEF RelayoutsSoFar
        <3>2. CASE q[1] < current
            BY <3>1, <3>2, <1>8, <1>5, <1>6 DEF RelayoutsSoFar
        <3>3. CASE q[1] = current
            <4>1. c = Conversion(current, q[2]) /\ q[2] \in DOMAIN graph[current].inputs
                BY <3>1, <3>3, <1>9, <1>3
            <4>2. SourceLayout(graph[current].inputs[q[2]]) # graph[current].layout
                BY <4>1, <3>1 DEF Conversion
            <4>3. c \in Conversions(current)
                BY <4>1, <4>2 DEF Conversions
            <4>4. QED
                BY <4>3, <1>5
        <3>4. QED
            BY <3>1, <3>2, <3>3, <1>7
    <2>2. ASSUME NEW c \in plan'.conversions PROVE c \in RelayoutsSoFar'
        <3>1. CASE c \in RelayoutsSoFar
            <4>1. PICK q \in Operands : /\ q[1] < current /\ c = Relayout(q)
                                        /\ c.sourceLayout # c.targetLayout
                BY <3>1 DEF RelayoutsSoFar
            <4>2. c = Relayout(q)' /\ q[1] < current'
                BY <4>1, <1>8, <1>2, <1>7
            <4>3. QED
                BY <4>1, <4>2, <1>4 DEF RelayoutsSoFar
        <3>2. CASE c \in Conversions(current)
            <4>1. PICK k \in DOMAIN graph[current].inputs :
                      /\ SourceLayout(graph[current].inputs[k]) # graph[current].layout
                      /\ c = Conversion(current, k)
                BY <3>2 DEF Conversions
            <4>2. PICK q : q = <<current, k>>
                OBVIOUS
            <4>3. q \in Operands /\ q[1] = current /\ q[2] = k
                BY <4>2, <1>2 DEF Operands
            <4>4. c = Relayout(q)' /\ q[1] < current' /\ c.sourceLayout # c.targetLayout
                BY <4>1, <4>3, <1>9, <1>2 DEF Conversion
            <4>5. QED
                BY <4>3, <4>4, <1>4 DEF RelayoutsSoFar
        <3>3. QED
            BY <3>1, <3>2, <1>5, <1>6
    <2>3. QED
        BY <2>1, <2>2
<1>11. plan'.transfers = MovesSoFar'
    <2>1. ASSUME NEW e \in MovesSoFar' PROVE e \in plan'.transfers
        <3>1. PICK q \in Operands : /\ q[1] < current + 1 /\ e = Move(q)' /\ e.from # e.to
                                    /\ graph[q[1]].inputs[q[2]] \in Produced(graph)
            BY <1>2, <1>4 DEF MovesSoFar
        <3>2. CASE q[1] < current
            BY <3>1, <3>2, <1>8, <1>5, <1>6 DEF MovesSoFar
        <3>3. CASE q[1] = current
            <4>1. /\ e = Transfer(current, q[2], a.domain) /\ q[2] \in DOMAIN graph[current].inputs
                  /\ graph[current].inputs[q[2]] \in DOMAIN locations
                  /\ locations[graph[current].inputs[q[2]]].domain # a.domain
                BY <3>1, <3>3, <1>9, <1>3
            <4>2. e \in Transfers(current, a)
                BY <4>1 DEF Transfers, MovedTo
            <4>3. QED
                BY <4>2, <1>5
        <3>4. QED
            BY <3>1, <3>2, <3>3, <1>7
    <2>2. ASSUME NEW e \in plan'.transfers PROVE e \in MovesSoFar'
        <3>1. CASE e \in MovesSoFar
            <4>1. PICK q \in Operands : /\ q[1] < current /\ e = Move(q) /\ e.from # e.to
                                        /\ graph[q[1]].inputs[q[2]] \in Produced(graph)
                BY <3>1 DEF MovesSoFar
            <4>2. e = Move(q)' /\ q[1] < current'
                BY <4>1, <1>8, <1>2, <1>7
            <4>3. QED
                BY <4>1, <4>2, <1>2, <1>4 DEF MovesSoFar
        <3>2. CASE e \in Transfers(current, a)
            <4>1. PICK k \in DOMAIN graph[current].inputs :
                      /\ graph[current].inputs[k] \in DOMAIN locations
                      /\ locations[graph[current].inputs[k]].domain # a.domain
                      /\ e = Transfer(current, k, a.domain)
                BY <3>2 DEF Transfers, MovedTo
            <4>2. PICK q : q = <<current, k>>
                OBVIOUS
            <4>3. q \in Operands /\ q[1] = current /\ q[2] = k
                BY <4>2, <1>2 DEF Operands
            <4>4. e = Move(q)' /\ q[1] < current' /\ e.from # e.to
                  /\ graph[q[1]].inputs[q[2]] \in Produced(graph)
                BY <4>1, <4>3, <1>9, <1>2
            <4>5. QED
                BY <4>3, <4>4, <1>2, <1>4 DEF MovesSoFar
        <3>3. QED
            BY <3>1, <3>2, <1>5, <1>6
    <2>3. QED
        BY <2>1, <2>2
<1>12. QED
    BY <1>10, <1>11

\* There are finitely many images of finitely many things.
LEMMA FiniteImage ==
    ASSUME NEW f, IsFiniteSet(DOMAIN f), f = [x \in DOMAIN f |-> f[x]]
    PROVE  IsFiniteSet({f[x] : x \in DOMAIN f})
<1> DEFINE S == DOMAIN f
           T == {f[x] : x \in S}
<1>1. f \in [S -> T]
    <2>1. \A x \in S : f[x] \in T
        OBVIOUS
    <2> HIDE DEF T
    <2>2. QED
        BY <2>1
<1>2. f \in Surjection(S, T)
    BY <1>1 DEF Surjection
<1>3. QED
    BY <1>2, FS_Surjection

\* An operation has finitely many operands, so finitely many movements are planned for it.
LEMMA FinitelyMany ==
    ASSUME graph \in Graphs, NEW i \in DOMAIN graph, NEW a
    PROVE  IsFiniteSet(Transfers(i, a)) /\ IsFiniteSet(Conversions(i))
<1> DEFINE D == DOMAIN graph[i].inputs
           moves     == [k \in D |-> Transfer(i, k, a.domain)]
           relayouts == [k \in D |-> Conversion(i, k)]
<1>1. IsFiniteSet(D)
    <2>1. graph[i].inputs \in Seq(Tensors) /\ D = 1 .. Len(graph[i].inputs)
        BY GraphShape
    <2>2. 1 \in Int /\ Len(graph[i].inputs) \in Int
        BY <2>1
    <2>3. QED
        BY <2>1, <2>2, FS_Interval
<1>2. IsFiniteSet({moves[k] : k \in D})
    <2>1. DOMAIN moves = D /\ moves = [k \in DOMAIN moves |-> moves[k]]
        OBVIOUS
    <2> HIDE DEF moves
    <2>2. QED
        BY <1>1, <2>1, FiniteImage
<1>3. IsFiniteSet({relayouts[k] : k \in D})
    <2>1. DOMAIN relayouts = D /\ relayouts = [k \in DOMAIN relayouts |-> relayouts[k]]
        OBVIOUS
    <2> HIDE DEF relayouts
    <2>2. QED
        BY <1>1, <2>1, FiniteImage
<1>4. Transfers(i, a) \subseteq {moves[k] : k \in D}
    BY DEF Transfers, MovedTo
<1>5. Conversions(i) \subseteq {relayouts[k] : k \in D}
    BY DEF Conversions
<1>6. QED
    BY <1>2, <1>3, <1>4, <1>5, FS_Subset

\* Every step of the partitioner keeps the invariant.
LEMMA NextPlanning ==
    ASSUME Planning, [PartitioningNext]_partitioning
    PROVE  Planning'
<1>1. graph \in Graphs /\ Len(graph) \in Nat \ {0} /\ DOMAIN graph = 1 .. Len(graph)
    BY GraphShape DEF Planning
<1>2. CASE /\ UNCHANGED <<graph, backends, profile, overrides, current, plan, locations>>
           /\ stage' = "planned" => current = Len(graph) + 1
    <2>1. Ordered' = Ordered
        BY <1>2 DEF Ordered
    <2>2. MovesSoFar' = MovesSoFar
        BY <1>2 DEF MovesSoFar, Move, LeftBy, Producer, Operands
    <2>3. RelayoutsSoFar' = RelayoutsSoFar
        BY <1>2 DEF RelayoutsSoFar, Relayout, LeftBy, Producer, Operands
    <2>4. \A t, i : Located(t, i)' = Located(t, i)
        BY <1>2 DEF Located
    <2>5. /\ graph' \in Graphs /\ current' \in 1 .. Len(graph') + 1
          /\ stage' = "planned" => current' = Len(graph') + 1
          /\ plan' = plan /\ locations' = locations /\ current' = current /\ graph' = graph
        BY <1>2 DEF Planning
    <2>6. \E S : plan'.assignments \in Seq(S)
        BY <2>5 DEF Planning
    <2>7. /\ DOMAIN locations' = UNION {Writes(graph'[i]) : i \in 1 .. current' - 1}
          /\ \A t \in DOMAIN locations' : \E i \in 1 .. current' - 1 : Located(t, i)'
        BY <2>4, <2>5 DEF Planning
    <2>8. QED
        BY <2>1, <2>2, <2>3, <2>5, <2>6, <2>7 DEF Planning
<1>3. CASE AssignNext
    <2>1. /\ graph' = graph /\ current' = current + 1 /\ stage' = stage /\ stage = "assign"
          /\ current \in 1 .. Len(graph) /\ current' - 1 = current
        BY <1>1, <1>3 DEF AssignNext
    <2>2. /\ \E S : plan'.assignments \in Seq(S)
          /\ Len(plan'.assignments) = current' - 1
        BY <1>3, <2>1, AssignmentsGrow
    <2>3. /\ DOMAIN locations' = UNION {Writes(graph'[i]) : i \in 1 .. current' - 1}
          /\ \A t \in DOMAIN locations' : \E i \in 1 .. current' - 1 : Located(t, i)'
        BY <1>3, <2>1, AssignNextLocates
    <2>4. PICK a : a = Assignment(current)
        OBVIOUS
    <2>5. plan' = [assignments |-> Append(plan.assignments, a),
                   transfers   |-> plan.transfers \union Transfers(current, a),
                   conversions |-> plan.conversions \union Conversions(current)]
        BY <1>3, <2>4 DEF AssignNext
    <2>6. plan' = [assignments |-> plan'.assignments, transfers |-> plan'.transfers,
                   conversions |-> plan'.conversions]
        BY <2>5
    <2>7. IsFiniteSet(Transfers(current, a)) /\ IsFiniteSet(Conversions(current))
        BY <1>1, <2>1, FinitelyMany
    <2>8. IsFiniteSet(plan'.transfers) /\ IsFiniteSet(plan'.conversions)
        <3>1. /\ plan'.transfers = plan.transfers \union Transfers(current, a)
              /\ plan'.conversions = plan.conversions \union Conversions(current)
            BY <2>5
        <3>2. IsFiniteSet(plan.transfers) /\ IsFiniteSet(plan.conversions)
            BY DEF Planning
        <3>3. QED
            BY <2>7, <3>1, <3>2, FS_Union
    <2>9. Ordered' = Ordered
        BY <2>1 DEF Ordered
    <2>10. Ordered => plan'.transfers = MovesSoFar' /\ plan'.conversions = RelayoutsSoFar'
        BY <1>3, MovementsGrow
    <2>11. /\ graph' \in Graphs /\ current' \in 1 .. Len(graph') + 1
           /\ stage' = "planned" => current' = Len(graph') + 1
        BY <1>1, <2>1
    <2>12. QED
        BY <2>2, <2>3, <2>6, <2>8, <2>9, <2>10, <2>11 DEF Planning
<1>4. CASE CheckOverrides
    BY <1>2, <1>4 DEF CheckOverrides
<1>5. CASE PlanDone
    <2>1. current = Len(graph) + 1
        BY <1>1, <1>5 DEF PlanDone, Planning
    <2>2. QED
        BY <1>2, <1>5, <2>1 DEF PlanDone
<1>6. CASE UNCHANGED partitioning
    BY <1>2, <1>6 DEF partitioning, Planning
<1>7. QED
    BY <1>3, <1>4, <1>5, <1>6 DEF PartitioningNext

\* When all operations are assigned, the movements so far are all there are.
LEMMA PlanningFits == Planning => MovementsFitAssignments
<1> SUFFICES ASSUME Planning, stage = "planned", Ordered
             PROVE  /\ plan.transfers = ExpectedEdges
                    /\ plan.conversions =
                           {Relayout(p) : p \in {q \in Operands :
                               Relayout(q).sourceLayout # Relayout(q).targetLayout}}
    BY DEF MovementsFitAssignments
<1>1. graph \in Graphs /\ Len(graph) \in Nat /\ DOMAIN graph = 1 .. Len(graph)
      /\ current = Len(graph) + 1
    BY GraphShape DEF Planning
<1>2. \A q \in Operands : q[1] < current
    <2>1. \A q \in Operands : q[1] \in DOMAIN graph
        BY DEF Operands
    <2>2. QED
        BY <1>1, <2>1
<1>3. MovesSoFar = ExpectedEdges
    BY <1>2 DEF MovesSoFar, ExpectedEdges
<1>4. RelayoutsSoFar = {Relayout(p) : p \in {q \in Operands :
                            Relayout(q).sourceLayout # Relayout(q).targetLayout}}
    BY <1>2 DEF RelayoutsSoFar
<1>5. QED
    BY <1>3, <1>4 DEF Planning

=============================================================================
