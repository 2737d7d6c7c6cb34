--------------------------- MODULE DataMovementProofs ---------------------------
(***************************************************************************)
(* The executor of partitioned graphs keeps its promise for any graphs,    *)
(* backends, overrides, costs and limits.                                  *)
(***************************************************************************)
EXTENDS DataMovement, PartitioningProofs, WellFoundedInduction

\* What the store holds for a tensor, and the tensors it holds when the operation i is next.
Kept(t) == [value |-> t, producer |-> LeftBy(t).producer,
            domain |-> IF t \in External THEN "host" ELSE LeftBy(t).domain,
            layout |-> LeftBy(t).layout]
StoredBefore(i) == External \union UNION {Writes(graph[j]) : j \in 1 .. i - 1}

ConversionsOf(i) == {c \in plan.conversions : mode # "none" /\ c.target = i}
TransfersOf(i)   == {e \in plan.transfers : mode = "all" /\ e.target = i}

\* The movements made so far.
ConversionsMade ==
    {c \in plan.conversions : c.target < at \/ (c.target = at /\ c \notin convert)}
TransfersMade ==
    {e \in plan.transfers : e.target < at \/ (e.target = at /\ e \notin transfer)}

\* The operands of the operation at work that were converted, and those that were transferred.
Relaid(t)  == \E c \in ConversionsOf(at) \ convert : c.tensor = t
Carried(t) == \E e \in TransfersOf(at) \ transfer : e.tensor = t

\* What it has instead of a stored value, as far as that was moved.
Moved(t) ==
    [value |-> t, producer |-> Kept(t).producer,
     domain |-> IF Carried(t) THEN plan.assignments[at].domain ELSE Kept(t).domain,
     layout |-> IF Relaid(t) THEN graph[at].layout ELSE Kept(t).layout]

\* The state of a running execution.
Running ==
    /\ Acceptable /\ at \in 1 .. Len(graph) + 1
    /\ store = [t \in StoredBefore(at) |-> Kept(t)]
    /\ convert \subseteq ConversionsOf(at) /\ transfer \subseteq TransfersOf(at)
    /\ convert # {} => transfer = TransfersOf(at)
    /\ \A t \in StoredBefore(at) : Operand(t) = Moved(t)
    /\ made = [conversions |-> made.conversions, transfers |-> made.transfers]
    /\ mode # "none" => made.conversions = Cardinality(ConversionsMade)
    /\ mode = "all" => made.transfers = Cardinality(TransfersMade)

Executing ==
    /\ Planning
    /\ mode \in {"none", "layouts", "all"}
    /\ status \in {"waiting", "refused", "running", "failed", "done"}
    /\ status # "waiting" => stage = "planned"
    /\ status = "waiting" => at = 1 /\ made = [conversions |-> 0, transfers |-> 0]
    /\ status = "refused" => ~Acceptable
    /\ status \in {"failed", "done"} => Acceptable
    /\ status = "running" => Running
    /\ reason \in {"none", "physical elements", "not finite", "too many values"}

-----------------------------------------------------------------------------
(* The movements of a finished plan *)

\* A planned conversion is for an operand, and says where that operand is left.
LEMMA PlannedConversion ==
    ASSUME Planning, stage = "planned", Ordered, NEW c \in plan.conversions
    PROVE  /\ c.target \in DOMAIN graph /\ c.position \in DOMAIN graph[c.target].inputs
           /\ c.tensor = graph[c.target].inputs[c.position] /\ c.tensor \in Reads(graph[c.target])
           /\ c.source = LeftBy(c.tensor).producer /\ c.sourceLayout = LeftBy(c.tensor).layout
           /\ c.targetLayout = graph[c.target].layout /\ c.sourceLayout # c.targetLayout
           /\ c = Relayout(<<c.target, c.position>>)
<1>1. PICK p \in Operands : c = Relayout(p) /\ c.sourceLayout # c.targetLayout
    BY PlanningFits DEF MovementsFitAssignments
<1>2. p = <<p[1], p[2]>> /\ p[1] \in DOMAIN graph /\ p[2] \in DOMAIN graph[p[1]].inputs
    BY DEF Operands
<1>3. QED
    BY <1>1, <1>2 DEF Relayout, Reads

\* A planned transfer is for a produced operand, and says which domains it is between.
LEMMA PlannedTransfer ==
    ASSUME Planning, stage = "planned", Ordered, NEW e \in plan.transfers
    PROVE  /\ e.target \in DOMAIN graph /\ e.position \in DOMAIN graph[e.target].inputs
           /\ e.tensor = graph[e.target].inputs[e.position] /\ e.tensor \in Reads(graph[e.target])
           /\ e.tensor \in Produced(graph)
           /\ e.source = LeftBy(e.tensor).producer /\ e.sourceLayout = LeftBy(e.tensor).layout
           /\ e.targetLayout = graph[e.target].layout
           /\ e.from = LeftBy(e.tensor).domain /\ e.to = plan.assignments[e.target].domain
           /\ e.from # e.to
           /\ e = Move(<<e.target, e.position>>)
<1>1. PICK p \in Operands : /\ e = Move(p) /\ e.from # e.to
                            /\ graph[p[1]].inputs[p[2]] \in Produced(graph)
    BY PlanningFits DEF MovementsFitAssignments, ExpectedEdges
<1>2. p = <<p[1], p[2]>> /\ p[1] \in DOMAIN graph /\ p[2] \in DOMAIN graph[p[1]].inputs
    BY DEF Operands
<1>3. QED
    BY <1>1, <1>2 DEF Move, Reads

\* Every movement is for an operation of the graph.
LEMMA TargetsInGraph ==
    ASSUME Planning, stage = "planned", Ordered
    PROVE  /\ Len(graph) \in Nat /\ DOMAIN graph = 1 .. Len(graph)
           /\ \A c \in plan.conversions \union plan.transfers : c.target \in 1 .. Len(graph)
<1>1. Len(graph) \in Nat /\ DOMAIN graph = 1 .. Len(graph)
    BY GraphShape DEF Planning
<1>2. ASSUME NEW c \in plan.conversions PROVE c.target \in 1 .. Len(graph)
    BY <1>1, PlannedConversion
<1>3. ASSUME NEW e \in plan.transfers PROVE e.target \in 1 .. Len(graph)
    BY <1>1, PlannedTransfer
<1>4. QED
    BY <1>1, <1>2, <1>3

\* An operand that is left in another layout, or in another domain, than its reader wants has
\* a movement of its own.
LEMMA MovementPlanned ==
    ASSUME Planning, stage = "planned", Ordered,
           NEW i \in DOMAIN graph, NEW k \in DOMAIN graph[i].inputs, NEW t, t = graph[i].inputs[k]
    PROVE  /\ LeftBy(t).layout # graph[i].layout =>
                  \E c \in plan.conversions : c.target = i /\ c.position = k /\ c.tensor = t
           /\ t \in Produced(graph) /\ LeftBy(t).domain # plan.assignments[i].domain =>
                  \E e \in plan.transfers : e.target = i /\ e.position = k /\ e.tensor = t
<1>1. PICK p : p = <<i, k>>
    OBVIOUS
<1>2. p \in Operands /\ p[1] = i /\ p[2] = k
    BY <1>1 DEF Operands
<1>3. /\ Relayout(p).target = i /\ Relayout(p).position = k /\ Relayout(p).tensor = t
      /\ Relayout(p).sourceLayout = LeftBy(t).layout /\ Relayout(p).targetLayout = graph[i].layout
    BY <1>2 DEF Relayout
<1>4. /\ Move(p).target = i /\ Move(p).position = k /\ Move(p).tensor = t
      /\ Move(p).from = LeftBy(t).domain /\ Move(p).to = plan.assignments[i].domain
    BY <1>2 DEF Move
<1>5. LeftBy(t).layout # graph[i].layout => Relayout(p) \in plan.conversions
    BY <1>2, <1>3, PlanningFits DEF MovementsFitAssignments
<1>6. t \in Produced(graph) /\ LeftBy(t).domain # plan.assignments[i].domain =>
          Move(p) \in plan.transfers
    BY <1>2, <1>4, PlanningFits DEF MovementsFitAssignments, ExpectedEdges
<1>7. QED
    BY <1>3, <1>4, <1>5, <1>6

\* _movement_requirements walks the operands in order: some movement is the first.
LEMMA FirstIsOne ==
    ASSUME NEW edges, edges # {}, \A e \in edges : e.position \in Nat
    PROVE  First(edges) \in edges
<1> DEFINE T == {e.position : e \in edges}
<1>1. T \subseteq Nat /\ T # {}
    OBVIOUS
<1>2. PICK x \in T : \A y \in T : <<y, x>> \notin OpToRel(<, Nat)
    BY <1>1, NatLessThanWellFounded, WFMin
<1>3. \A y \in T : ~(y < x)
    <2> SUFFICES ASSUME NEW y \in T, y < x PROVE <<y, x>> \in OpToRel(<, Nat)
        BY <1>2
    <2>1. x \in Nat /\ y \in Nat
        BY <1>1
    <2>2. QED
        BY <2>1 DEF OpToRel
<1>4. PICK e \in edges : x = e.position
    OBVIOUS
<1>5. \A f \in edges : e.position <= f.position
    BY <1>1, <1>3, <1>4
<1>6. QED
    BY <1>5 DEF First

-----------------------------------------------------------------------------
(* What a step of the executor leaves alone *)

\* While the plan stays as it is, so does everything that is told from it.
LEMMA PlanKept ==
    ASSUME UNCHANGED <<partitioning, mode>>
    PROVE  /\ Acceptable' = Acceptable /\ Ordered' = Ordered
           /\ graph' = graph /\ plan' = plan /\ mode' = mode /\ stage' = stage
           /\ \A t : Kept(t)' = Kept(t)
           /\ \A i : /\ StoredBefore(i)' = StoredBefore(i)
                     /\ ConversionsOf(i)' = ConversionsOf(i) /\ TransfersOf(i)' = TransfersOf(i)
<1>1. graph' = graph /\ plan' = plan /\ mode' = mode /\ stage' = stage
    BY DEF partitioning
<1>2. Ordered' = Ordered
    BY <1>1 DEF Ordered
<1>3. External' = External /\ \A t : LeftBy(t)' = LeftBy(t) /\ Producer(t)' = Producer(t)
    BY <1>1 DEF External, LeftBy, Producer
<1>4. Ready' = Ready
    BY <1>1 DEF Ready
<1>5. \A c : LeavesSource(c)' = LeavesSource(c) /\ BetweenDomains(c)' = BetweenDomains(c)
             /\ ConvertedAlong(c)' = ConvertedAlong(c)
    BY <1>1, <1>3 DEF LeavesSource, BetweenDomains, ConvertedAlong
<1>6. OnePerOperand(plan.conversions)' = OnePerOperand(plan.conversions)
      /\ OnePerOperand(plan.transfers)' = OnePerOperand(plan.transfers)
    BY <1>1 DEF OnePerOperand
<1>7. ConversionsFit' = ConversionsFit
    BY <1>1, <1>5, <1>6 DEF ConversionsFit
<1>8. TransfersFit' = TransfersFit
    BY <1>1, <1>5, <1>6 DEF TransfersFit
<1>9. Acceptable' = Acceptable
    BY <1>1, <1>2, <1>3, <1>4, <1>7, <1>8 DEF Acceptable
<1>10. \A t : Kept(t)' = Kept(t)
    BY <1>3 DEF Kept
<1>11. \A i : StoredBefore(i)' = StoredBefore(i)
    BY <1>1, <1>3 DEF StoredBefore
<1>12. \A i : ConversionsOf(i)' = ConversionsOf(i) /\ TransfersOf(i)' = TransfersOf(i)
    BY <1>1 DEF ConversionsOf, TransfersOf
<1>13. QED
    BY <1>1, <1>2, <1>9, <1>10, <1>11, <1>12

\* An accepted operation has one result.
LEMMA OneResult ==
    ASSUME graph \in Graphs, Ready, NEW i \in DOMAIN graph
    PROVE  Writes(graph[i]) = {graph[i].outputs[1]}
<1>1. DOMAIN graph[i].outputs = 1 .. 1
    BY GraphShape DEF Ready
<1>2. QED
    BY <1>1 DEF Writes

\* An operation finds all its operands in the store.
LEMMA OperandsStored ==
    ASSUME graph \in Graphs, Ordered, NEW i \in DOMAIN graph, NEW t \in Reads(graph[i])
    PROVE  t \in StoredBefore(i)
<1>1. DOMAIN graph = 1 .. Len(graph) /\ Len(graph) \in Nat
    BY GraphShape
<1>2. CASE t \in Produced(graph)
    <2>1. Producer(t) \in 1 .. i - 1 /\ t \in Writes(graph[Producer(t)])
        BY <1>1, <1>2, ProducedBefore
    <2>2. QED
        BY <2>1 DEF StoredBefore
<1>3. CASE t \notin Produced(graph)
    BY <1>3 DEF StoredBefore, External, Consumed
<1>4. QED
    BY <1>2, <1>3

\* A stored record is what the plan says of its tensor when a movement of it is due.
LEMMA RecordsFit ==
    ASSUME Planning, stage = "planned", Running, NEW e \in ConversionsOf(at) \union TransfersOf(at)
    PROVE  /\ at \in DOMAIN graph /\ RecordFits(e) /\ e.position \in Nat
           /\ e.tensor \in StoredBefore(at) /\ store[e.tensor] = Kept(e.tensor)
           /\ e.targetLayout = graph[at].layout
           /\ e \in TransfersOf(at) => /\ store[e.tensor].domain = e.from
                                       /\ e.to = plan.assignments[at].domain
<1>1. graph \in Graphs /\ Ordered
    BY DEF Running, Acceptable, Planning
<1>2. e.target = at
    BY DEF ConversionsOf, TransfersOf
<1>3. e \in plan.conversions \/ e \in plan.transfers
    BY DEF ConversionsOf, TransfersOf
<1>4. /\ e.target \in DOMAIN graph /\ e.position \in DOMAIN graph[e.target].inputs
      /\ e.tensor \in Reads(graph[e.target]) /\ e.targetLayout = graph[e.target].layout
      /\ e.source = LeftBy(e.tensor).producer /\ e.sourceLayout = LeftBy(e.tensor).layout
    BY <1>1, <1>3, PlannedConversion, PlannedTransfer
<1>5. e.tensor \in StoredBefore(at)
    BY <1>1, <1>2, <1>4, OperandsStored
<1>6. store[e.tensor] = Kept(e.tensor) /\ DOMAIN store = StoredBefore(at)
    BY <1>5 DEF Running
<1>7. RecordFits(e)
    BY <1>4, <1>5, <1>6 DEF RecordFits, Kept
<1>8. e.position \in Nat
    BY <1>1, <1>4, GraphShape
<1>9. ASSUME e \in TransfersOf(at)
      PROVE  store[e.tensor].domain = e.from /\ e.to = plan.assignments[at].domain
    <2>1. /\ e.from = LeftBy(e.tensor).domain /\ e.to = plan.assignments[e.target].domain
          /\ e.tensor \in Produced(graph)
        BY <1>1, <1>9, PlannedTransfer DEF TransfersOf
    <2>2. e.tensor \notin External
        BY <2>1 DEF External
    <2>3. QED
        BY <2>1, <2>2, <1>2, <1>6 DEF Kept
<1>10. QED
    BY <1>2, <1>4, <1>5, <1>6, <1>7, <1>8, <1>9

-----------------------------------------------------------------------------
(* The steps of a running execution *)

\* A conversion is made as planned, or its tiles are too large.
LEMMA ConvertRuns ==
    ASSUME Planning, stage = "planned", Running, Convert
    PROVE  /\ UNCHANGED <<partitioning, mode, at, store>>
           /\ \/ status' = "failed" /\ reason' = "physical elements"
              \/ status' = "running" /\ reason' = reason /\ Running'
<1>1. PICK c : c = First(convert)
    OBVIOUS
<1>2. convert # {} /\ convert \subseteq ConversionsOf(at) /\ status = "running"
    BY DEF Convert, Running
<1>3. \A d \in convert : d.position \in Nat
    BY <1>2, RecordsFit
<1>4. c \in convert /\ c \in ConversionsOf(at) /\ c \in plan.conversions /\ c.target = at
    BY <1>1, <1>2, <1>3, FirstIsOne DEF ConversionsOf
<1>5. /\ RecordFits(c) /\ c.tensor \in StoredBefore(at) /\ store[c.tensor] = Kept(c.tensor)
      /\ c.targetLayout = graph[at].layout
    BY <1>4, RecordsFit
<1>6. CASE Padded(c.tensor) > MaxPhysical
    BY <1>1, <1>5, <1>6 DEF Convert, Fail
<1>7. CASE ~(Padded(c.tensor) > MaxPhysical)
    <2>1. /\ MakeConversion(c) /\ convert' = convert \ {c}
          /\ made' = [made EXCEPT !.conversions = @ + 1]
          /\ UNCHANGED <<partitioning, mode, status, reason, at, transfer, store>>
        BY <1>1, <1>5, <1>7 DEF Convert
    <2>2. staged' = [u \in DOMAIN staged \union {c.tensor} |->
                         IF u = c.tensor THEN [Kept(c.tensor) EXCEPT !.layout = graph[at].layout]
                         ELSE staged[u]]
        BY <2>1, <1>5 DEF MakeConversion, Stage
    <2>3. transfer = TransfersOf(at)
        BY <1>2 DEF Running
    <2>4. \A t : Kept(t)' = Kept(t) /\ ConversionsOf(t)' = ConversionsOf(t) /\ TransfersOf(t)' = TransfersOf(t)
        BY <2>1, PlanKept
    <2>5. at' = at /\ plan' = plan /\ graph' = graph /\ mode' = mode /\ store' = store /\ transfer' = transfer
        BY <2>1 DEF partitioning
    <2>6. /\ ConversionsOf(at)' = ConversionsOf(at) /\ TransfersOf(at)' = TransfersOf(at)
          /\ StoredBefore(at)' = StoredBefore(at) /\ Acceptable' = Acceptable
        BY <2>1, <2>5, PlanKept DEF ConversionsOf, TransfersOf, StoredBefore, External
    <2>7. ASSUME NEW t \in StoredBefore(at) PROVE Operand(t)' = Moved(t)'
        <3>1. Relaid(t)' <=> Relaid(t) \/ t = c.tensor
            BY <1>4, <2>1, <2>6 DEF Relaid
        <3>2. ~Carried(t) /\ ~Carried(t)'
            BY <2>3, <2>5, <2>6 DEF Carried
        <3>3. Moved(t)' = [value |-> t, producer |-> Kept(t).producer, domain |-> Kept(t).domain,
                           layout |-> IF Relaid(t)' THEN graph[at].layout ELSE Kept(t).layout]
            BY <2>4, <2>5, <3>2 DEF Moved
        <3>4. CASE t = c.tensor
            <4>1. Operand(t)' = [Kept(t) EXCEPT !.layout = graph[at].layout]
                BY <2>2, <3>4 DEF Operand
            <4>2. QED
                BY <3>1, <3>3, <3>4, <4>1 DEF Kept
        <3>5. CASE t # c.tensor
            <4>1. Operand(t)' = Operand(t)
                BY <2>2, <2>5, <3>5 DEF Operand
            <4>2. Operand(t) = Moved(t)
                BY DEF Running
            <4>3. Moved(t)' = Moved(t)
                BY <3>1, <3>2, <3>3, <3>5 DEF Moved
            <4>4. QED
                BY <4>1, <4>2, <4>3
        <3>6. QED
            BY <3>4, <3>5
    <2>8. mode # "none" => made'.conversions = Cardinality(ConversionsMade')
        <3>1. ConversionsMade' = ConversionsMade \union {c}
            BY <1>4, <2>1, <2>5 DEF ConversionsMade
        <3>2. at \in Nat
            <4>1. Len(graph) \in Nat
                BY GraphShape DEF Planning
            <4>2. QED
                BY <4>1 DEF Running
        <3>3. c \notin ConversionsMade
            BY <1>4, <3>2 DEF ConversionsMade
        <3>4. IsFiniteSet(plan.conversions)
            BY DEF Planning
        <3>5. IsFiniteSet(ConversionsMade)
            BY <3>4, FS_Subset DEF ConversionsMade
        <3>6. Cardinality(ConversionsMade') = Cardinality(ConversionsMade) + 1
            BY <3>1, <3>3, <3>5, FS_AddElement
        <3>7. made'.conversions = made.conversions + 1
            BY <2>1 DEF Running
        <3>8. QED
            BY <3>6, <3>7, <2>5 DEF Running
    <2>9. mode = "all" => made'.transfers = Cardinality(TransfersMade')
        <3>1. TransfersMade' = TransfersMade
            BY <2>5 DEF TransfersMade
        <3>2. made'.transfers = made.transfers
            BY <2>1 DEF Running
        <3>3. QED
            BY <3>1, <3>2 DEF Running
    <2>10. made' = [conversions |-> made'.conversions, transfers |-> made'.transfers]
        BY <2>1 DEF Running
    <2>11. Running'
        <3>1. Acceptable' /\ at' \in 1 .. Len(graph') + 1
            BY <2>5, <2>6 DEF Running
        <3>2. store' = [t \in StoredBefore(at)' |-> Kept(t)']
            BY <2>4, <2>5, <2>6 DEF Running
        <3>3. /\ convert' \subseteq ConversionsOf(at)' /\ transfer' \subseteq TransfersOf(at)'
              /\ transfer' = TransfersOf(at)'
            BY <1>2, <2>1, <2>3, <2>5, <2>6
        <3>4. mode' # "none" => made'.conversions = Cardinality(ConversionsMade')
            BY <2>5, <2>8
        <3>5. mode' = "all" => made'.transfers = Cardinality(TransfersMade')
            BY <2>5, <2>9
        <3>6. \A t \in StoredBefore(at)' : Operand(t)' = Moved(t)'
            BY <2>6, <2>7
        <3>7. QED
            BY <3>1, <3>2, <3>3, <3>4, <3>5, <3>6, <2>10 DEF Running
    <2>12. QED
        BY <1>2, <2>1, <2>11
<1>8. QED
    BY <1>6, <1>7

\* A transfer finds its operand where the plan says, in the layout its reader wants: the
\* conversions of the operation are all made before.
LEMMA TransferRuns ==
    ASSUME Planning, stage = "planned", Running, MakeTransfer
    PROVE  /\ UNCHANGED <<partitioning, mode, at, store>>
           /\ status' = "running" /\ reason' = reason /\ Running'
<1>1. PICK e : e = First(transfer)
    OBVIOUS
<1>2. convert = {} /\ transfer # {} /\ transfer \subseteq TransfersOf(at) /\ status = "running"
    BY DEF MakeTransfer, Running
<1>3. \A d \in transfer : d.position \in Nat
    BY <1>2, RecordsFit
<1>4. /\ e \in transfer /\ e \in TransfersOf(at) /\ e \in plan.transfers
      /\ e.target = at /\ mode = "all"
    BY <1>1, <1>2, <1>3, FirstIsOne DEF TransfersOf
<1>5. /\ RecordFits(e) /\ e.tensor \in StoredBefore(at) /\ store[e.tensor] = Kept(e.tensor)
      /\ e.targetLayout = graph[at].layout /\ store[e.tensor].domain = e.from
      /\ e.to = plan.assignments[at].domain
    BY <1>4, RecordsFit
<1>6. Operand(e.tensor) = Moved(e.tensor)
    BY <1>5 DEF Running
<1>7. Operand(e.tensor).layout = e.targetLayout
    <2>1. ConvertedAlong(e)
        BY <1>4 DEF Running, Acceptable, TransfersFit
    <2>2. e.sourceLayout = Kept(e.tensor).layout
        BY <1>5 DEF RecordFits
    <2>3. CASE e.sourceLayout = e.targetLayout
        BY <1>5, <1>6, <2>2, <2>3 DEF Moved
    <2>4. CASE e.sourceLayout # e.targetLayout
        <3>1. PICK c \in plan.conversions : c.target = e.target /\ c.tensor = e.tensor
            BY <2>1, <2>4 DEF ConvertedAlong
        <3>2. Relaid(e.tensor)
            BY <1>2, <1>4, <3>1 DEF Relaid, ConversionsOf
        <3>3. QED
            BY <1>5, <1>6, <3>2 DEF Moved
    <2>5. QED
        BY <2>3, <2>4
<1>8. /\ Stage(e.tensor, [Operand(e.tensor) EXCEPT !.domain = e.to])
      /\ transfer' = transfer \ {e}
      /\ made' = [made EXCEPT !.transfers = @ + 1]
      /\ UNCHANGED <<partitioning, mode, status, reason, at, convert, store>>
    BY <1>1, <1>5, <1>7 DEF MakeTransfer
<1>9. staged' = [u \in DOMAIN staged \union {e.tensor} |->
                     IF u = e.tensor THEN [Moved(e.tensor) EXCEPT !.domain = plan.assignments[at].domain]
                     ELSE staged[u]]
    BY <1>5, <1>6, <1>8 DEF Stage
<1>10. at' = at /\ plan' = plan /\ graph' = graph /\ mode' = mode /\ store' = store /\ convert' = convert
    BY <1>8 DEF partitioning
<1>11. \A t : Kept(t)' = Kept(t)
    BY <1>8, PlanKept
<1>12. /\ ConversionsOf(at)' = ConversionsOf(at) /\ TransfersOf(at)' = TransfersOf(at)
       /\ StoredBefore(at)' = StoredBefore(at) /\ Acceptable' = Acceptable
    BY <1>8, <1>10, PlanKept DEF ConversionsOf, TransfersOf, StoredBefore, External
<1>13. ASSUME NEW t \in StoredBefore(at) PROVE Operand(t)' = Moved(t)'
    <2>1. Carried(t)' <=> Carried(t) \/ t = e.tensor
        BY <1>4, <1>8, <1>12 DEF Carried
    <2>2. Relaid(t)' <=> Relaid(t)
        BY <1>10, <1>12 DEF Relaid
    <2>3. Moved(t)' = [value |-> t, producer |-> Kept(t).producer,
                       domain |-> IF Carried(t)' THEN plan.assignments[at].domain ELSE Kept(t).domain,
                       layout |-> IF Relaid(t)' THEN graph[at].layout ELSE Kept(t).layout]
        BY <1>10, <1>11 DEF Moved
    <2>4. CASE t = e.tensor
        <3>1. Operand(t)' = [Moved(t) EXCEPT !.domain = plan.assignments[at].domain]
            BY <1>9, <2>4 DEF Operand
        <3>2. QED
            BY <2>1, <2>2, <2>3, <2>4, <3>1 DEF Moved
    <2>5. CASE t # e.tensor
        <3>1. Operand(t)' = Operand(t)
            BY <1>9, <1>10, <2>5 DEF Operand
        <3>2. Operand(t) = Moved(t)
            BY DEF Running
        <3>3. Moved(t)' = Moved(t)
            BY <2>1, <2>2, <2>3, <2>5 DEF Moved
        <3>4. QED
            BY <3>1, <3>2, <3>3
    <2>6. QED
        BY <2>4, <2>5
<1>14. made'.transfers = Cardinality(TransfersMade')
    <2>1. TransfersMade' = TransfersMade \union {e}
        BY <1>4, <1>8, <1>10 DEF TransfersMade
    <2>2. at \in Nat
        <3>1. Len(graph) \in Nat
            BY GraphShape DEF Planning
        <3>2. QED
            BY <3>1 DEF Running
    <2>3. e \notin TransfersMade
        BY <1>4, <2>2 DEF TransfersMade
    <2>4. IsFiniteSet(plan.transfers)
        BY DEF Planning
    <2>5. IsFiniteSet(TransfersMade)
        BY <2>4, FS_Subset DEF TransfersMade
    <2>6. Cardinality(TransfersMade') = Cardinality(TransfersMade) + 1
        BY <2>1, <2>3, <2>5, FS_AddElement
    <2>7. made'.transfers = made.transfers + 1
        BY <1>8 DEF Running
    <2>8. QED
        BY <2>6, <2>7, <1>4 DEF Running
<1>15. mode = "all" /\ made'.conversions = Cardinality(ConversionsMade')
    <2>1. ConversionsMade' = ConversionsMade
        BY <1>10 DEF ConversionsMade
    <2>2. made'.conversions = made.conversions
        BY <1>8 DEF Running
    <2>3. made.conversions = Cardinality(ConversionsMade)
        BY <1>4 DEF Running
    <2>4. QED
        BY <2>1, <2>2, <2>3, <1>4
<1>16. made' = [conversions |-> made'.conversions, transfers |-> made'.transfers]
    BY <1>8 DEF Running
<1>17. Running'
    <2>1. Acceptable' /\ at' \in 1 .. Len(graph') + 1
        BY <1>10, <1>12 DEF Running
    <2>2. store' = [t \in StoredBefore(at)' |-> Kept(t)']
        BY <1>10, <1>11, <1>12 DEF Running
    <2>3. convert' = {} /\ transfer' \subseteq TransfersOf(at)'
        BY <1>2, <1>8, <1>10, <1>12
    <2>4. \A t \in StoredBefore(at)' : Operand(t)' = Moved(t)'
        BY <1>12, <1>13
    <2>5. QED
        BY <1>14, <1>15, <1>16, <2>1, <2>2, <2>3, <2>4 DEF Running
<1>18. QED
    BY <1>2, <1>8, <1>17

\* When its movements are made, an operation computes the right value.
LEMMA KernelIsRight ==
    ASSUME Planning, stage = "planned", Running, convert = {}, transfer = {}, at \in DOMAIN graph
    PROVE  Kernel(graph[at]) = graph[at].outputs[1]
<1>1. graph \in Graphs /\ Ordered
    BY DEF Planning, Running, Acceptable
<1> SUFFICES ASSUME NEW t \in Reads(graph[at]) PROVE Operand(t).value = t /\ InPlace(t)
    BY DEF Kernel
<1>2. Operand(t) = Moved(t)
    BY <1>1, OperandsStored DEF Running
<1>3. PICK k \in DOMAIN graph[at].inputs : t = graph[at].inputs[k]
    BY DEF Reads
<1>4. ASSUME mode # "none" PROVE Operand(t).layout = graph[at].layout
    <2>1. CASE LeftBy(t).layout = graph[at].layout
        BY <1>2, <2>1 DEF Moved, Kept
    <2>2. CASE LeftBy(t).layout # graph[at].layout
        <3>1. Relaid(t)
            BY <1>1, <1>3, <1>4, <2>2, MovementPlanned DEF Relaid, ConversionsOf
        <3>2. QED
            BY <1>2, <3>1 DEF Moved
    <2>3. QED
        BY <2>1, <2>2
<1>5. ASSUME mode = "all", t \notin External PROVE Operand(t).domain = plan.assignments[at].domain
    <2>1. t \in Produced(graph)
        BY <1>5 DEF External, Consumed
    <2>2. CASE LeftBy(t).domain = plan.assignments[at].domain
        BY <1>2, <1>5, <2>2 DEF Moved, Kept
    <2>3. CASE LeftBy(t).domain # plan.assignments[at].domain
        <3>1. Carried(t)
            BY <1>1, <1>3, <1>5, <2>1, <2>3, MovementPlanned DEF Carried, TransfersOf
        <3>2. QED
            BY <1>2, <3>1 DEF Moved
    <2>4. QED
        BY <2>2, <2>3
<1>6. Operand(t).value = t
    BY <1>2 DEF Moved
<1>7. QED
    BY <1>4, <1>5, <1>6 DEF InPlace

\* The next operation begins with what was stored, and with all its movements ahead of it.
LEMMA TurnComes ==
    ASSUME Planning, stage = "planned", Acceptable, UNCHANGED <<partitioning, mode>>,
           NEW i \in 1 .. Len(graph) + 1, Turn(i), store' = [t \in StoredBefore(i) |-> Kept(t)],
           made' = [conversions |-> made'.conversions, transfers |-> made'.transfers],
           mode # "none" => made'.conversions = Cardinality({c \in plan.conversions : c.target < i}),
           mode = "all" => made'.transfers = Cardinality({e \in plan.transfers : e.target < i})
    PROVE  Running'
<1>1. at' = i /\ graph' = graph /\ plan' = plan /\ mode' = mode /\ Acceptable'
    BY PlanKept DEF Turn
<1>2. /\ \A t : Kept(t)' = Kept(t)
      /\ StoredBefore(at)' = StoredBefore(i)
      /\ ConversionsOf(at)' = ConversionsOf(i) /\ TransfersOf(at)' = TransfersOf(i)
    BY <1>1, PlanKept DEF StoredBefore, External, ConversionsOf, TransfersOf
<1>3. convert' = ConversionsOf(i) /\ transfer' = TransfersOf(i) /\ staged' = <<>>
    BY DEF Turn, ConversionsOf, TransfersOf
<1>4. \A t \in StoredBefore(i) : Operand(t)' = Moved(t)'
    <2> SUFFICES ASSUME NEW t \in StoredBefore(i) PROVE Operand(t)' = Moved(t)'
        OBVIOUS
    <2>1. ~Relaid(t)' /\ ~Carried(t)'
        BY <1>2, <1>3 DEF Relaid, Carried
    <2>2. Moved(t)' = [value |-> t, producer |-> Kept(t).producer,
                       domain |-> Kept(t).domain, layout |-> Kept(t).layout]
        BY <1>2, <2>1 DEF Moved
    <2>3. Operand(t)' = Kept(t)
        BY <1>3 DEF Operand
    <2>4. QED
        BY <2>2, <2>3 DEF Kept
<1>5. i \in Nat /\ \A c \in plan.conversions \union plan.transfers : c.target \in Nat
    BY TargetsInGraph DEF Acceptable
<1>6. mode # "none" => ConversionsMade' = {c \in plan.conversions : c.target < i}
    BY <1>1, <1>3, <1>5 DEF ConversionsMade, ConversionsOf
<1>7. mode = "all" => TransfersMade' = {e \in plan.transfers : e.target < i}
    BY <1>1, <1>3, <1>5 DEF TransfersMade, TransfersOf
<1>8. store' = [t \in StoredBefore(at)' |-> Kept(t)']
    BY <1>2
<1>9. convert' \subseteq ConversionsOf(at)' /\ transfer' \subseteq TransfersOf(at)'
      /\ transfer' = TransfersOf(at)'
    BY <1>2, <1>3
<1>10. \A t \in StoredBefore(at)' : Operand(t)' = Moved(t)'
    BY <1>2, <1>4
<1>11. at' \in 1 .. Len(graph') + 1
    BY <1>1
<1>12. /\ mode' # "none" => made'.conversions = Cardinality(ConversionsMade')
       /\ mode' = "all" => made'.transfers = Cardinality(TransfersMade')
    BY <1>1, <1>6, <1>7
<1>13. QED
    BY <1>1, <1>8, <1>9, <1>10, <1>11, <1>12 DEF Running

\* A graph that is accepted starts with its external inputs.
LEMMA AcceptRuns ==
    ASSUME Planning, Accept, made = [conversions |-> 0, transfers |-> 0]
    PROVE  UNCHANGED <<partitioning, mode, reason>> /\ status' = "running" /\ Running'
<1>1. /\ stage = "planned" /\ Acceptable /\ Turn(1)
      /\ UNCHANGED <<partitioning, mode, reason, made>> /\ status' = "running"
    BY DEF Accept
<1>2. StoredBefore(1) = External
    BY DEF StoredBefore
<1>3. \A t \in External : Kept(t) = [value |-> t, producer |-> None, domain |-> "host", layout |-> "row_major"]
    BY DEF Kept, LeftBy, External
<1>4. store' = [t \in StoredBefore(1) |-> Kept(t)]
    BY <1>2, <1>3 DEF Accept
<1>5. Ordered /\ Len(graph) \in Nat /\ DOMAIN graph = 1 .. Len(graph)
    BY <1>1, GraphShape DEF Planning, Acceptable
<1>6. \A c \in plan.conversions \union plan.transfers : ~(c.target < 1)
    <2>1. \A c \in plan.conversions \union plan.transfers : c.target \in 1 .. Len(graph)
        BY <1>1, <1>5, TargetsInGraph
    <2>2. QED
        BY <1>5, <2>1
<1>7. {c \in plan.conversions : c.target < 1} = {} /\ {e \in plan.transfers : e.target < 1} = {}
    BY <1>6
<1>8. /\ made' = [conversions |-> made'.conversions, transfers |-> made'.transfers]
      /\ made'.conversions = Cardinality({c \in plan.conversions : c.target < 1})
      /\ made'.transfers = Cardinality({e \in plan.transfers : e.target < 1})
    BY <1>1, <1>7, FS_EmptySet
<1>9. QED
    BY <1>1, <1>4, <1>5, <1>8, TurnComes

\* A kernel is the last that happens of its operation.
LEMMA ComputeRuns ==
    ASSUME Planning, stage = "planned", Running, Compute
    PROVE  /\ UNCHANGED <<partitioning, mode>>
           /\ \/ status' = "failed" /\ reason' = "too many values" /\ UNCHANGED at
              \/ status' = "running" /\ reason' = reason /\ at' = at + 1 /\ Running'
<1> DEFINE out == graph[at].outputs[1]
<1>1. graph \in Graphs /\ Ordered /\ Ready /\ Acceptable /\ Len(graph) \in Nat /\ DOMAIN graph = 1 .. Len(graph)
    BY GraphShape DEF Planning, Running, Acceptable
<1>2. status = "running" /\ convert = {} /\ transfer = {} /\ at \in DOMAIN graph /\ at \in Nat
    <2>1. Computing /\ at \in 1 .. Len(graph) + 1
        BY DEF Compute, Running
    <2>2. QED
        BY <1>1, <2>1 DEF Computing
<1>3. Writes(graph[at]) = {out} /\ out \in Produced(graph) /\ Producer(out) = at
    BY <1>1, <1>2, OneResult, OneProducer
<1>4. DOMAIN store = StoredBefore(at) /\ \A t \in StoredBefore(at) : store[t] = Kept(t)
    BY DEF Running
<1>5. out \notin StoredBefore(at)
    <2>1. out \notin External
        BY <1>3 DEF External
    <2>2. ASSUME NEW j \in 1 .. at - 1, out \in Writes(graph[j]) PROVE FALSE
        <3>1. j \in DOMAIN graph /\ j # at
            BY <1>1, <1>2
        <3>2. QED
            BY <1>1, <1>3, <2>2, <3>1, OneProducer
    <2>3. QED
        BY <2>1, <2>2 DEF StoredBefore
<1>6. CASE Cardinality(DOMAIN store) >= MaxValues
    BY <1>4, <1>5, <1>6 DEF Compute, Fail
<1>7. CASE ~(Cardinality(DOMAIN store) >= MaxValues)
    <2>1. /\ store' = [t \in DOMAIN store \union {out} |->
                 IF t \in DOMAIN store THEN store[t]
                 ELSE [value |-> Kernel(graph[at]), producer |-> at,
                       domain |-> plan.assignments[at].domain,
                       layout |-> plan.assignments[at].layout]]
          /\ Turn(at + 1)
          /\ UNCHANGED <<partitioning, mode, status, reason, made>>
        BY <1>4, <1>5, <1>7 DEF Compute
    <2>2. StoredBefore(at + 1) = StoredBefore(at) \union {out}
        <3>1. 1 .. (at + 1) - 1 = (1 .. at - 1) \union {at}
            BY <1>1, <1>2
        <3>2. QED
            BY <1>3, <3>1 DEF StoredBefore
    <2>3. Kept(out) = [value |-> Kernel(graph[at]), producer |-> at,
                       domain |-> plan.assignments[at].domain,
                       layout |-> plan.assignments[at].layout]
        <3>1. Kernel(graph[at]) = out
            BY <1>2, KernelIsRight
        <3>2. out \notin External
            BY <1>3 DEF External
        <3>3. QED
            BY <1>3, <3>1, <3>2 DEF Kept, LeftBy
    <2>4. store' = [t \in StoredBefore(at + 1) |-> Kept(t)]
        BY <1>4, <1>5, <2>1, <2>2, <2>3
    <2>5. at + 1 \in 1 .. Len(graph) + 1
        BY <1>1, <1>2
    <2>6. /\ mode # "none" => {c \in plan.conversions : c.target < at + 1} = ConversionsMade
          /\ mode = "all" => {e \in plan.transfers : e.target < at + 1} = TransfersMade
        <3>1. \A c \in plan.conversions \union plan.transfers : c.target \in Nat
            BY <1>1, TargetsInGraph
        <3>2. QED
            BY <1>2, <3>1 DEF ConversionsMade, TransfersMade
    <2>7. /\ made' = [conversions |-> made'.conversions, transfers |-> made'.transfers]
          /\ mode # "none" =>
                 made'.conversions = Cardinality({c \in plan.conversions : c.target < at + 1})
          /\ mode = "all" =>
                 made'.transfers = Cardinality({e \in plan.transfers : e.target < at + 1})
        BY <2>1, <2>6 DEF Running
    <2>8. Running'
        BY <1>1, <2>1, <2>4, <2>5, <2>7, TurnComes
    <2>9. QED
        BY <1>2, <2>1, <2>8 DEF Turn
<1>8. QED
    BY <1>6, <1>7

\* At the end nothing is missing, and every terminal tensor has its value.
LEMMA FinishEnds ==
    ASSUME Planning, stage = "planned", Running, Finish
    PROVE  /\ UNCHANGED <<partitioning, mode, reason, at, store>> /\ status' = "done"
           /\ at = Len(graph) + 1
           /\ \A t \in Terminals(graph) : t \in DOMAIN store /\ store[t].value = t
<1>1. /\ Ordered /\ Len(graph) \in Nat /\ DOMAIN graph = 1 .. Len(graph)
      /\ at = Len(graph) + 1 /\ status = "running"
    <2>1. Ordered /\ Len(graph) \in Nat /\ DOMAIN graph = 1 .. Len(graph)
        BY GraphShape DEF Planning, Running, Acceptable
    <2>2. at \in 1 .. Len(graph) + 1
        BY DEF Running
    <2>3. at > Len(graph) /\ status = "running"
        BY DEF Finish
    <2>4. QED
        BY <2>1, <2>2, <2>3
<1>2. \A c \in plan.conversions \union plan.transfers : c.target \in 1 .. Len(graph)
    BY <1>1, TargetsInGraph
<1>3. \A c \in plan.conversions \union plan.transfers : c.target < at
    BY <1>1, <1>2
<1>4. ConversionsMade = plan.conversions /\ TransfersMade = plan.transfers
    BY <1>3 DEF ConversionsMade, TransfersMade
<1>5. EveryMovementMade
    BY <1>4 DEF EveryMovementMade, Running
<1>6. \A t \in Terminals(graph) : t \in DOMAIN store /\ store[t].value = t
    <2> SUFFICES ASSUME NEW t \in Terminals(graph) PROVE t \in DOMAIN store /\ store[t].value = t
        OBVIOUS
    <2>1. PICK j \in DOMAIN graph : t \in Writes(graph[j])
        BY DEF Terminals, Produced
    <2>2. j \in 1 .. at - 1
        BY <1>1
    <2>3. t \in StoredBefore(at)
        BY <2>1, <2>2 DEF StoredBefore
    <2>4. QED
        BY <2>3 DEF Running, Kept
<1>7. QED
    BY <1>1, <1>5, <1>6 DEF Finish

-----------------------------------------------------------------------------
(* The invariant *)

\* A step that leaves the plan alone keeps the partitioner's invariant.
LEMMA PlanningKept ==
    ASSUME Planning, UNCHANGED partitioning
    PROVE  Planning' /\ stage' = stage
<1>1. [PartitioningNext]_partitioning
    OBVIOUS
<1>2. QED
    BY <1>1, NextPlanning DEF partitioning

\* Nothing is executed at first.
LEMMA InitExecuting == Init => Executing
    BY InitPlanning DEF Init, Executing

\* Every step keeps the invariant.
LEMMA NextExecuting ==
    ASSUME Executing, [Next]_vars
    PROVE  Executing'
<1>1. Planning
    BY DEF Executing
<1>2. CASE PartitioningNext /\ UNCHANGED execution
    <2>1. Planning'
        BY <1>1, <1>2, NextPlanning
    <2>2. stage # "planned"
        BY <1>2 DEF PartitioningNext, CheckOverrides, AssignNext, PlanDone
    <2>3. status = "waiting"
        BY <2>2 DEF Executing
    <2>4. UNCHANGED <<mode, status, reason, at, made>>
        BY <1>2 DEF execution
    <2>5. QED
        BY <2>1, <2>3, <2>4 DEF Executing
<1>3. ASSUME UNCHANGED <<partitioning, mode>>, stage = "planned",
             reason' \in {"none", "physical elements", "not finite", "too many values"},
             \/ status' = "refused" /\ ~Acceptable
             \/ status' \in {"failed", "done"} /\ Acceptable
             \/ status' = "running" /\ Running'
      PROVE  Executing'
    <2>1. Planning' /\ stage' = "planned"
        BY <1>1, <1>3, PlanningKept
    <2>2. Acceptable' = Acceptable /\ mode' = mode
        BY <1>3, PlanKept
    <2>3. mode' \in {"none", "layouts", "all"}
        BY <2>2 DEF Executing
    <2>4. CASE status' = "refused" /\ ~Acceptable
        BY <1>3, <2>1, <2>2, <2>3, <2>4 DEF Executing
    <2>5. CASE status' \in {"failed", "done"} /\ Acceptable
        BY <1>3, <2>1, <2>2, <2>3, <2>5 DEF Executing
    <2>6. CASE status' = "running" /\ Running'
        BY <1>3, <2>1, <2>3, <2>6 DEF Executing
    <2>7. QED
        BY <1>3, <2>4, <2>5, <2>6
<1>4. reason \in {"none", "physical elements", "not finite", "too many values"}
    BY DEF Executing
<1>5. status = "running" => Running /\ Acceptable /\ stage = "planned"
    BY DEF Executing, Running
<1>6. CASE Refuse
    BY <1>3, <1>4, <1>6 DEF Refuse
<1>7. CASE Accept
    <2>1. stage = "planned" /\ status = "waiting" /\ made = [conversions |-> 0, transfers |-> 0]
        BY <1>7 DEF Accept, Executing
    <2>2. UNCHANGED <<partitioning, mode, reason>> /\ status' = "running" /\ Running'
        BY <1>1, <1>7, <2>1, AcceptRuns
    <2>3. QED
        BY <1>3, <1>4, <2>1, <2>2
<1>8. CASE Convert
    <2>1. status = "running"
        BY <1>8 DEF Convert
    <2>2. QED
        BY <1>1, <1>3, <1>4, <1>5, <1>8, <2>1, ConvertRuns
<1>9. CASE MakeTransfer
    <2>1. status = "running"
        BY <1>9 DEF MakeTransfer
    <2>2. QED
        BY <1>1, <1>3, <1>4, <1>5, <1>9, <2>1, TransferRuns
<1>10. CASE KernelFails
    <2>1. status = "running"
        BY <1>10 DEF KernelFails, Computing
    <2>2. UNCHANGED <<partitioning, mode>> /\ status' = "failed" /\ reason' = "not finite"
        BY <1>10 DEF KernelFails, Fail
    <2>3. QED
        BY <1>3, <1>5, <2>1, <2>2
<1>11. CASE Compute
    <2>1. status = "running"
        BY <1>11 DEF Compute, Computing
    <2>2. QED
        BY <1>1, <1>3, <1>4, <1>5, <1>11, <2>1, ComputeRuns
<1>12. CASE Finish
    <2>1. status = "running"
        BY <1>12 DEF Finish
    <2>2. QED
        BY <1>1, <1>3, <1>4, <1>5, <1>12, <2>1, FinishEnds
<1>13. CASE UNCHANGED vars
    <2>1. UNCHANGED <<partitioning, mode, status, reason, at, convert, transfer, staged, store, made>>
        BY <1>13 DEF vars, execution
    <2>2. Planning' /\ stage' = stage
        BY <1>1, <2>1, PlanningKept
    <2>3. Acceptable' = Acceptable
        BY <2>1, PlanKept
    <2>4. Running' = Running
        <3>1. \A t : Kept(t)' = Kept(t)
            BY <2>1, PlanKept
        <3>2. graph' = graph /\ plan' = plan
            BY <2>1, PlanKept
        <3>3. /\ ConversionsOf(at)' = ConversionsOf(at) /\ TransfersOf(at)' = TransfersOf(at)
              /\ StoredBefore(at)' = StoredBefore(at)
            BY <2>1, <3>2 DEF ConversionsOf, TransfersOf, StoredBefore, External
        <3>4. ConversionsMade' = ConversionsMade /\ TransfersMade' = TransfersMade
            BY <2>1, <3>2 DEF ConversionsMade, TransfersMade
        <3>5. \A t : Relaid(t)' = Relaid(t) /\ Carried(t)' = Carried(t)
            BY <2>1, <3>3 DEF Relaid, Carried
        <3>6. \A t : Moved(t)' = Moved(t)
            BY <2>1, <3>1, <3>2, <3>5 DEF Moved
        <3>7. \A t : Operand(t)' = Operand(t)
            BY <2>1 DEF Operand
        <3>8. QED
            BY <2>1, <2>3, <3>1, <3>2, <3>3, <3>4, <3>6, <3>7 DEF Running
    <2>5. QED
        BY <2>1, <2>2, <2>3, <2>4 DEF Executing
<1>14. QED
    BY <1>2, <1>6, <1>7, <1>8, <1>9, <1>10, <1>11, <1>12, <1>13 DEF Next

\* The invariant holds throughout.
LEMMA AlwaysExecuting == Spec => []Executing
<1>1. Init => Executing
    BY InitExecuting
<1>2. Executing /\ [Next]_vars => Executing'
    BY NextExecuting
<1>3. QED
    BY <1>1, <1>2, PTL DEF Spec

-----------------------------------------------------------------------------
(* Theorems *)

\* The movements of every plan are the ones its assignments call for.
THEOREM MovementsFit == Spec => []MovementsFitAssignments
<1>1. Executing => MovementsFitAssignments
    BY PlanningFits DEF Executing
<1>2. QED
    BY <1>1, AlwaysExecuting, PTL

\* No check fails late that was made before the first kernel.
THEOREM NothingMismatchesLate == Spec => []NoLateMismatch
<1>1. Executing => NoLateMismatch
    BY DEF Executing, NoLateMismatch
<1>2. QED
    BY <1>1, AlwaysExecuting, PTL

\* A plan is refused for its conversions if and only if some operand needs one that the
\* executor does not make.
LEMMA ConversionsFitExactly ==
    ASSUME Planning, stage = "planned", Ordered
    PROVE  ConversionsFit <=> \A p \in Operands : ~CannotConvert(p)
<1>1. graph \in Graphs /\ DOMAIN graph = 1 .. Len(graph) /\ Len(graph) \in Nat
    BY GraphShape DEF Planning
<1>2. ASSUME ConversionsFit, NEW p \in Operands, CannotConvert(p) PROVE FALSE
    <2>1. PICK i, k : i \in DOMAIN graph /\ k \in DOMAIN graph[i].inputs /\ p = <<i, k>>
        BY DEF Operands
    <2>2. PICK t : t = graph[i].inputs[k]
        OBVIOUS
    <2>3. PICK c \in plan.conversions : c.target = i /\ c.position = k /\ c.tensor = t
        BY <1>2, <2>1, <2>2, MovementPlanned DEF CannotConvert
    <2>4. /\ c.source = LeftBy(t).producer /\ c.sourceLayout = LeftBy(t).layout
          /\ Convertible(c)
        BY <1>2, <2>3, PlannedConversion DEF ConversionsFit
    <2>5. t \notin External
        BY <2>4 DEF Convertible, LeftBy, External
    <2>6. ReadTwice(p)
        BY <1>2, <2>1, <2>2, <2>3, <2>4, <2>5 DEF CannotConvert, Convertible
    <2>7. PICK l \in DOMAIN graph[i].inputs : l # k /\ graph[i].inputs[l] = t
        BY <2>1, <2>2, <2>6 DEF ReadTwice
    <2>8. PICK d \in plan.conversions : d.target = i /\ d.position = l /\ d.tensor = t
        BY <1>2, <2>1, <2>2, <2>7, MovementPlanned DEF CannotConvert
    <2>9. QED
        BY <1>2, <2>3, <2>7, <2>8 DEF ConversionsFit, OnePerOperand
<1>3. ASSUME \A p \in Operands : ~CannotConvert(p) PROVE ConversionsFit
    <2>1. ASSUME NEW c \in plan.conversions
          PROVE  /\ Convertible(c) /\ LeavesSource(c)
                 /\ ~ReadTwice(<<c.target, c.position>>)
        <3>1. PICK p : p = <<c.target, c.position>>
            OBVIOUS
        <3>2. p \in Operands /\ p[1] = c.target /\ p[2] = c.position
            BY <3>1, PlannedConversion DEF Operands
        <3>3. /\ LeftBy(c.tensor).layout # graph[p[1]].layout /\ c.tensor = graph[p[1]].inputs[p[2]]
              /\ c.tensor \in Reads(graph[p[1]]) /\ p[1] \in DOMAIN graph
            BY <3>2, PlannedConversion
        <3>4. /\ c.tensor \notin External /\ LeftBy(c.tensor).layout = "blocked"
              /\ Len(Shape[c.tensor]) = 2 /\ ~ReadTwice(p)
            BY <1>3, <3>2, <3>3 DEF CannotConvert
        <3>5. c.tensor \in Produced(graph)
            BY <3>3, <3>4 DEF External, Consumed
        <3>6. /\ LeftBy(c.tensor).producer = Producer(c.tensor)
              /\ LeftBy(c.tensor).layout = plan.assignments[Producer(c.tensor)].layout
            BY <3>5 DEF LeftBy
        <3>7. Producer(c.tensor) \in Nat
            BY <1>1, <3>3, <3>5, ProducedBefore
        <3>8. c.source # None
            BY <3>6, <3>7, PlannedConversion, PartitioningAssumption
        <3>9. c.targetLayout = "row_major"
            <4>1. graph[p[1]].layout \in Layouts
                BY <1>1, <3>3, GraphShape DEF Operations
            <4>2. QED
                BY <3>2, <3>3, <3>4, <4>1, PlannedConversion DEF Layouts
        <3>10. c.sourceLayout = "blocked"
            BY <3>4, PlannedConversion
        <3>11. Convertible(c)
            BY <3>4, <3>8, <3>9, <3>10 DEF Convertible
        <3>12. LeavesSource(c)
            BY <3>6, PlannedConversion DEF LeavesSource
        <3>13. QED
            BY <3>1, <3>4, <3>11, <3>12
    <2>2. ASSUME NEW c \in plan.conversions, NEW d \in plan.conversions,
                 c.target = d.target, c.tensor = d.tensor
          PROVE  c = d
        <3>1. c.position = d.position
            <4>1. ~ReadTwice(<<c.target, c.position>>)
                BY <2>1
            <4>2. \A k \in DOMAIN graph[c.target].inputs \ {c.position} :
                      graph[c.target].inputs[k] # graph[c.target].inputs[c.position]
                BY <4>1 DEF ReadTwice
            <4>3. /\ d.position \in DOMAIN graph[c.target].inputs
                  /\ graph[c.target].inputs[d.position] = graph[c.target].inputs[c.position]
                BY <2>2, PlannedConversion
            <4>4. QED
                BY <4>2, <4>3
        <3>2. QED
            BY <2>2, <3>1, PlannedConversion
    <2>3. QED
        BY <2>1, <2>2 DEF ConversionsFit, OnePerOperand
<1>4. QED
    BY <1>2, <1>3

\* What the executor checks of a transfer against the rest of the plan, every plan of the
\* partitioner satisfies.
LEMMA TransfersAgree ==
    ASSUME Planning, stage = "planned", Ordered, NEW e \in plan.transfers
    PROVE  LeavesSource(e) /\ BetweenDomains(e) /\ ConvertedAlong(e)
<1>1. /\ e.target \in DOMAIN graph /\ e.position \in DOMAIN graph[e.target].inputs
      /\ e.tensor = graph[e.target].inputs[e.position] /\ e.tensor \in Produced(graph)
      /\ e.source = LeftBy(e.tensor).producer /\ e.sourceLayout = LeftBy(e.tensor).layout
      /\ e.targetLayout = graph[e.target].layout
      /\ e.from = LeftBy(e.tensor).domain /\ e.to = plan.assignments[e.target].domain
    BY PlannedTransfer
<1>2. LeftBy(e.tensor) = [producer |-> Producer(e.tensor),
                          domain |-> plan.assignments[Producer(e.tensor)].domain,
                          layout |-> plan.assignments[Producer(e.tensor)].layout]
    BY <1>1 DEF LeftBy
<1>3. LeavesSource(e) /\ BetweenDomains(e)
    BY <1>1, <1>2 DEF LeavesSource, BetweenDomains
<1>4. \A c \in plan.conversions : c.target = e.target /\ c.tensor = e.tensor =>
          /\ c.source = e.source /\ c.sourceLayout = e.sourceLayout
          /\ c.targetLayout = e.targetLayout /\ e.sourceLayout # e.targetLayout
    BY <1>1, PlannedConversion
<1>5. e.sourceLayout # e.targetLayout =>
          \E c \in plan.conversions : c.target = e.target /\ c.tensor = e.tensor
    BY <1>1, MovementPlanned
<1>6. ConvertedAlong(e)
    BY <1>4, <1>5 DEF ConvertedAlong
<1>7. QED
    BY <1>3, <1>6

\* A plan is refused for its transfers if and only if some operand needs one that the
\* executor does not make.
LEMMA TransfersFitExactly ==
    ASSUME Planning, stage = "planned", Ordered
    PROVE  TransfersFit <=> \A p \in Operands : ~CannotTransfer(p)
<1>1. ASSUME TransfersFit, NEW p \in Operands, CannotTransfer(p) PROVE FALSE
    <2>1. PICK i, k : i \in DOMAIN graph /\ k \in DOMAIN graph[i].inputs /\ p = <<i, k>>
        BY DEF Operands
    <2>2. PICK t : t = graph[i].inputs[k]
        OBVIOUS
    <2>3. /\ t \notin External /\ LeftBy(t).domain # plan.assignments[i].domain
          /\ \/ LeftBy(t).domain # "sram" \/ plan.assignments[i].domain # "host"
             \/ ~(Elements(t) <= MaxElements) \/ ReadTwice(p)
        BY <1>1, <2>1, <2>2 DEF CannotTransfer
    <2>4. t \in Produced(graph)
        BY <2>1, <2>2, <2>3 DEF External, Consumed, Reads
    <2>5. PICK e \in plan.transfers : e.target = i /\ e.position = k /\ e.tensor = t
        BY <2>1, <2>2, <2>3, <2>4, MovementPlanned
    <2>6. e.from = LeftBy(t).domain /\ e.to = plan.assignments[i].domain /\ Transferable(e)
        BY <1>1, <2>5, PlannedTransfer DEF TransfersFit
    <2>7. ReadTwice(p)
        BY <2>3, <2>5, <2>6 DEF Transferable
    <2>8. PICK l \in DOMAIN graph[i].inputs : l # k /\ graph[i].inputs[l] = t
        BY <2>1, <2>2, <2>7 DEF ReadTwice
    <2>9. PICK f \in plan.transfers : f.target = i /\ f.position = l /\ f.tensor = t
        BY <2>1, <2>3, <2>4, <2>8, MovementPlanned
    <2>10. QED
        BY <1>1, <2>5, <2>8, <2>9 DEF TransfersFit, OnePerOperand
<1>2. ASSUME \A p \in Operands : ~CannotTransfer(p) PROVE TransfersFit
    <2>1. ASSUME NEW e \in plan.transfers
          PROVE  Transferable(e) /\ ~ReadTwice(<<e.target, e.position>>)
        <3>1. PICK p : p = <<e.target, e.position>>
            OBVIOUS
        <3>2. p \in Operands /\ p[1] = e.target /\ p[2] = e.position
            BY <3>1, PlannedTransfer DEF Operands
        <3>3. /\ e.tensor = graph[p[1]].inputs[p[2]] /\ e.tensor \notin External
              /\ e.from = LeftBy(e.tensor).domain /\ e.to = plan.assignments[p[1]].domain
              /\ e.from # e.to
            BY <3>2, PlannedTransfer DEF External
        <3>4. /\ e.from = "sram" /\ e.to = "host" /\ Elements(e.tensor) <= MaxElements
              /\ ~ReadTwice(p)
            BY <1>2, <3>2, <3>3 DEF CannotTransfer
        <3>5. QED
            BY <3>1, <3>4 DEF Transferable
    <2>2. ASSUME NEW e \in plan.transfers, NEW f \in plan.transfers,
                 e.target = f.target, e.tensor = f.tensor
          PROVE  e = f
        <3>1. e.position = f.position
            <4>1. ~ReadTwice(<<e.target, e.position>>)
                BY <2>1
            <4>2. \A k \in DOMAIN graph[e.target].inputs \ {e.position} :
                      graph[e.target].inputs[k] # graph[e.target].inputs[e.position]
                BY <4>1 DEF ReadTwice
            <4>3. /\ f.position \in DOMAIN graph[e.target].inputs
                  /\ graph[e.target].inputs[f.position] = graph[e.target].inputs[e.position]
                BY <2>2, PlannedTransfer
            <4>4. QED
                BY <4>2, <4>3
        <3>2. QED
            BY <2>2, <3>1, PlannedTransfer
    <2>3. \A e \in plan.transfers : graph[e.target].layout = e.targetLayout
        BY PlannedTransfer
    <2>4. QED
        BY <2>1, <2>2, <2>3, TransfersAgree DEF TransfersFit, OnePerOperand
<1>3. QED
    BY <1>1, <1>2

\* The executor refuses exactly the plans it cannot carry out, told from the graph and the
\* assignments alone.
THEOREM RefusesExactly == Spec => []RefusalsExact
<1>1. ASSUME Planning, stage = "planned" PROVE Acceptable <=> ~Refusable
    BY <1>1, ConversionsFitExactly, TransfersFitExactly DEF Acceptable, Refusable
<1>2. Executing => RefusalsExact
    BY <1>1 DEF Executing, RefusalsExact, Running
<1>3. QED
    BY <1>2, AlwaysExecuting, PTL

\* The executor implements GraphExecution, in each of its modes.
THEOREM MovementKeepsPromise == Spec => KeepsPromise
<1>1. Init => Promised!Init
    <2> SUFFICES ASSUME Init PROVE Promised!Init
        OBVIOUS
    <2>1. graph \in Graphs /\ status = "waiting" /\ at = 1
        BY DEF Init, PartitioningInit
    <2>2. QED
        BY <2>1 DEF Promised!Init, Lengths
<1>2. Executing /\ [Next]_vars => [Promised!Next]_(Promised!vars)
    <2> SUFFICES ASSUME Executing, [Next]_vars PROVE [Promised!Next]_(Promised!vars)
        OBVIOUS
    <2>1. Planning /\ graph \in Graphs
        BY DEF Executing, Planning
    <2>2. Lengths[graph] = Len(graph) /\ AllTerminals[graph] = Terminals(graph)
        BY <2>1 DEF Lengths, AllTerminals
    <2>3. status = "running" => Running /\ stage = "planned" /\ at \in 1 .. Len(graph) + 1
        BY DEF Executing, Running
    <2>4. Len(graph) \in Nat
        BY <2>1, GraphShape
    <2>5. CASE PartitioningNext /\ UNCHANGED execution
        <3>1. graph' = graph
            BY <2>5 DEF PartitioningNext, CheckOverrides, AssignNext, PlanDone
        <3>2. UNCHANGED <<status, at, store>>
            BY <2>5 DEF execution
        <3>3. QED
            BY <3>1, <3>2 DEF Promised!vars
    <2>6. CASE Refuse
        BY <2>6 DEF Refuse, partitioning, Promised!Next, Promised!Refuse
    <2>7. CASE Accept
        <3>1. at = 1 /\ at' = 1 /\ status = "waiting" /\ status' = "running" /\ graph' = graph
            BY <2>7 DEF Accept, Turn, partitioning, Executing
        <3>2. QED
            BY <3>1 DEF Promised!Next, Promised!Start
    <2>8. CASE Convert
        <3>1. status = "running"
            BY <2>8 DEF Convert
        <3>2. UNCHANGED <<graph, at, store>> /\ status' \in {"failed", "running"}
            BY <2>1, <2>3, <2>8, <3>1, ConvertRuns DEF partitioning
        <3>3. QED
            BY <3>1, <3>2 DEF Promised!Next, Promised!Fail, Promised!vars
    <2>9. CASE MakeTransfer
        <3>1. status = "running"
            BY <2>9 DEF MakeTransfer
        <3>2. UNCHANGED <<graph, at, store>> /\ status' = "running"
            BY <2>1, <2>3, <2>9, <3>1, TransferRuns DEF partitioning
        <3>3. QED
            BY <3>1, <3>2 DEF Promised!vars
    <2>10. CASE KernelFails
        <3>1. status = "running" /\ status' = "failed" /\ UNCHANGED <<graph, at, store>>
            BY <2>10 DEF KernelFails, Computing, Fail, partitioning
        <3>2. QED
            BY <3>1 DEF Promised!Next, Promised!Fail
    <2>11. CASE Compute
        <3>1. status = "running" /\ at <= Len(graph)
            BY <2>11 DEF Compute, Computing
        <3>2. /\ graph' = graph
              /\ \/ status' = "failed" /\ UNCHANGED at
                 \/ status' = "running" /\ at' = at + 1
            BY <2>1, <2>3, <2>11, <3>1, ComputeRuns DEF partitioning
        <3>3. at - 1 < Len(graph) /\ (at + 1) - 1 = (at - 1) + 1
            BY <2>3, <2>4, <3>1
        <3>4. QED
            BY <2>2, <3>1, <3>2, <3>3 DEF Promised!Next, Promised!Fail, Promised!Compute
    <2>12. CASE Finish
        <3>1. status = "running"
            BY <2>12 DEF Finish
        <3>2. /\ UNCHANGED <<graph, at, store>> /\ status' = "done" /\ at = Len(graph) + 1
              /\ \A t \in Terminals(graph) : store[t].value = t
            BY <2>1, <2>3, <2>12, <3>1, FinishEnds DEF partitioning
        <3>3. at - 1 = Len(graph)
            BY <2>4, <3>2
        <3>4. [t \in Terminals(graph) |-> store[t].value] = [t \in Terminals(graph) |-> t]
            BY <3>2
        <3>5. QED
            BY <2>2, <3>1, <3>2, <3>3, <3>4 DEF Promised!Next, Promised!Finish
    <2>13. CASE UNCHANGED vars
        <3>1. UNCHANGED <<graph, status, at, store>>
            BY <2>13 DEF vars, partitioning, execution
        <3>2. QED
            BY <3>1 DEF Promised!vars
    <2>14. QED
        BY <2>5, <2>6, <2>7, <2>8, <2>9, <2>10, <2>11, <2>12, <2>13 DEF Next
<1>3. QED
    BY <1>1, <1>2, AlwaysExecuting, PTL DEF Spec, KeepsPromise, Promised!Spec

=============================================================================
