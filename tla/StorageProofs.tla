----------------------------- MODULE StorageProofs ----------------------------
(***************************************************************************)
(* The storage plans of any graph, machine and overrides: slots are shared *)
(* safely, and a plan that was admitted is carried out in them to the end. *)
(***************************************************************************)
EXTENDS StorageExecution, PartitioningProofs, WellFoundedInduction

-----------------------------------------------------------------------------
(* Placing drafts into slots, whatever they are for *)

\* Drafts D that end no earlier than they begin.
Proper(D) == \A d \in D : d.first \in Nat /\ d.last \in Nat /\ d.first <= d.last

\* The slots that can be made of the drafts D.
SlotsOf(D) == [key : {d.key : d \in D}, last : Nat, drafts : SUBSET D]

\* A slot becomes free with the last of its drafts, and no draft was placed out of turn.
UpToDate ==
    \A i \in DOMAIN slots :
        /\ \A d \in slots[i].drafts : d.key = slots[i].key /\ d.last <= slots[i].last
        /\ \E d \in slots[i].drafts : d.last = slots[i].last
InTurn == \A i \in DOMAIN slots : \A d \in slots[i].drafts : \A e \in waiting : d.first <= e.first

\* The state of the slots while drafts D are placed.
Grouped(D) ==
    /\ waiting \subseteq D /\ slots \in Seq(SlotsOf(D))
    /\ UpToDate /\ InTurn /\ SharersDisjoint /\ ReuseIsTight

\* A draft keeps the slots in order when it is put into the first free one, or a new one.
LEMMA PlacingKeepsGrouped ==
    ASSUME NEW D, Proper(D), Grouped(D), PlaceNext
    PROVE  Grouped(D)'
<1> USE DEF Proper
<1>1. PICK d \in waiting : /\ \A e \in waiting : ~Precedes(e, d)
                           /\ Place(d) /\ waiting' = waiting \ {d}
    BY DEF PlaceNext
<1> DEFINE free == {i \in DOMAIN slots : Free(slots[i], d)}
<1>2. /\ d \in D /\ d.first \in Nat /\ d.last \in Nat /\ d.first <= d.last
      /\ \A e \in waiting : e \in D /\ e.first \in Nat /\ e.last \in Nat /\ d.first <= e.first
    BY <1>1 DEF Grouped, Precedes
<1>3. /\ \A i \in DOMAIN slots : slots[i] \in SlotsOf(D)
      /\ DOMAIN slots = 1 .. Len(slots) /\ Len(slots) \in Nat
    BY DEF Grouped
<1>4. \A i \in DOMAIN slots : slots[i].last \in Nat /\ slots[i].drafts \subseteq D
    BY <1>3 DEF SlotsOf
<1>5. CASE /\ free = {}
           /\ slots' = Append(slots, [key |-> d.key, last |-> d.last, drafts |-> {d}])
    <2> DEFINE new == [key |-> d.key, last |-> d.last, drafts |-> {d}]
    <2>1. new \in SlotsOf(D)
        BY <1>2 DEF SlotsOf
    <2>2. /\ slots' \in Seq(SlotsOf(D)) /\ DOMAIN slots' = DOMAIN slots \union {Len(slots) + 1}
          /\ \A i \in DOMAIN slots : slots'[i] = slots[i] /\ i # Len(slots) + 1
          /\ slots'[Len(slots) + 1] = new
        BY <1>3, <1>5, <2>1 DEF Grouped
    <2>3. UpToDate' /\ InTurn' /\ SharersDisjoint'
        BY <1>1, <1>2, <1>3, <2>2 DEF Grouped, UpToDate, InTurn, SharersDisjoint
    <2>4. ASSUME NEW j \in DOMAIN slots, slots[j].key = d.key
          PROVE  \E e \in slots[j].drafts : e.first <= d.first /\ d.first <= e.last
        <3>1. d.first <= slots[j].last
            BY <1>2, <1>4, <1>5, <2>4 DEF Free
        <3>2. PICK e \in slots[j].drafts : e.last = slots[j].last
            BY DEF Grouped, UpToDate
        <3>3. QED
            BY <1>1, <3>1, <3>2 DEF Grouped, InTurn
    <2>5. ReuseIsTight'
        <3>1. ASSUME NEW i \in DOMAIN slots
              PROVE  \E e \in slots'[i].drafts :
                         \A j \in 1 .. i - 1 : slots'[j].key = slots'[i].key =>
                             \E f \in slots'[j].drafts : f.first <= e.first /\ e.first <= f.last
            <4>1. slots'[i] = slots[i] /\ \A j \in 1 .. i - 1 : slots'[j] = slots[j]
                BY <1>3, <2>2
            <4>2. PICK e \in slots[i].drafts :
                      \A j \in 1 .. i - 1 : slots[j].key = slots[i].key =>
                          \E f \in slots[j].drafts : f.first <= e.first /\ e.first <= f.last
                BY DEF Grouped, ReuseIsTight
            <4>3. QED
                BY <4>1, <4>2
        <3>2. ASSUME NEW i \in DOMAIN slots', i = Len(slots) + 1
              PROVE  \E e \in slots'[i].drafts :
                         \A j \in 1 .. i - 1 : slots'[j].key = slots'[i].key =>
                             \E f \in slots'[j].drafts : f.first <= e.first /\ e.first <= f.last
            <4>1. \A j \in 1 .. i - 1 : j \in DOMAIN slots /\ slots'[j] = slots[j]
                BY <1>3, <2>2, <3>2
            <4>2. slots'[i].key = d.key /\ d \in slots'[i].drafts
                BY <2>2, <3>2
            <4>3. QED
                BY <2>4, <4>1, <4>2
        <3>3. QED
            BY <2>2, <3>1, <3>2 DEF ReuseIsTight
    <2>6. QED
        BY <1>1, <2>2, <2>3, <2>5 DEF Grouped
<1>6. CASE \E i \in free :
              slots' = [slots EXCEPT ![i] = [key |-> d.key, last |-> d.last,
                                              drafts |-> slots[i].drafts \union {d}]]
    <2>1. PICK k \in free :
              slots' = [slots EXCEPT ![k] = [key |-> d.key, last |-> d.last,
                                              drafts |-> slots[k].drafts \union {d}]]
        BY <1>6
    <2>2. /\ k \in DOMAIN slots /\ slots[k].key = d.key /\ slots[k].last < d.first
          /\ slots[k].last \in Nat
        BY <1>4 DEF Free
    <2> DEFINE more == [key |-> d.key, last |-> d.last, drafts |-> slots[k].drafts \union {d}]
    <2>4. /\ more \in SlotsOf(D) /\ DOMAIN slots' = DOMAIN slots /\ slots'[k] = more
          /\ \A i \in DOMAIN slots : i # k => slots'[i] = slots[i]
        <3>1. more \in SlotsOf(D)
            BY <1>2, <1>3, <2>2 DEF SlotsOf
        <3>2. QED
            BY <1>3, <2>1, <2>2, <3>1
    <2>5. slots' \in Seq(SlotsOf(D))
        BY <1>3, <2>1, <2>2, <2>4 DEF Grouped
    <2>6. \A e \in slots[k].drafts : e \in D /\ e.last \in Nat /\ e.last < d.first
        BY <1>2, <1>4, <2>2 DEF Grouped, UpToDate
    <2>7. UpToDate' /\ InTurn'
        <3>1. UpToDate'
            BY <1>2, <1>3, <2>2, <2>4, <2>6 DEF Grouped, UpToDate
        <3>2. InTurn'
            BY <1>1, <1>2, <1>3, <2>4 DEF Grouped, InTurn
        <3>3. QED
            BY <3>1, <3>2
    <2>8. SharersDisjoint'
        BY <2>2, <2>4, <2>6 DEF Grouped, SharersDisjoint
    <2>9. ReuseIsTight'
        <3> SUFFICES ASSUME NEW i \in DOMAIN slots'
                     PROVE  \E e \in slots'[i].drafts :
                                \A j \in 1 .. i - 1 : slots'[j].key = slots'[i].key =>
                                    \E f \in slots'[j].drafts :
                                        f.first <= e.first /\ e.first <= f.last
            BY DEF ReuseIsTight
        <3>0. i \in DOMAIN slots
            BY <2>4
        <3>1. \A j \in 1 .. i : j \in DOMAIN slots /\ slots'[j].key = slots[j].key
                                /\ slots[j].drafts \subseteq slots'[j].drafts
            BY <1>3, <2>2, <2>4, <3>0
        <3>2. PICK e \in slots[i].drafts :
                  \A j \in 1 .. i - 1 : slots[j].key = slots[i].key =>
                      \E f \in slots[j].drafts : f.first <= e.first /\ e.first <= f.last
            BY <3>0 DEF Grouped, ReuseIsTight
        <3>3. e \in slots'[i].drafts
            BY <1>3, <2>4, <3>0, <3>2
        <3>4. ASSUME NEW j \in 1 .. i - 1, slots'[j].key = slots'[i].key
              PROVE  \E f \in slots'[j].drafts : f.first <= e.first /\ e.first <= f.last
            <4>1. i \in 1 .. i /\ j \in 1 .. i
                BY <1>3, <3>0
            <4>2. slots[j].key = slots[i].key /\ slots[j].drafts \subseteq slots'[j].drafts
                BY <3>1, <3>4, <4>1
            <4>3. QED
                BY <3>2, <4>2
        <3>5. QED
            BY <3>3, <3>4
    <2>10. QED
        BY <1>1, <2>5, <2>7, <2>8, <2>9 DEF Grouped
<1>7. QED
    BY <1>1, <1>5, <1>6 DEF Place

-----------------------------------------------------------------------------
(* The drafts of a plan *)

\* The latest of some moments is one of them, and none of them is later.
LEMMA MaxOfMoments ==
    ASSUME NEW n \in Nat, NEW S \in SUBSET (0 .. n), S # {}
    PROVE  Max(S) \in S /\ \A k \in S : k <= Max(S)
<1> DEFINE T == {n - k : k \in S}
<1>1. T \subseteq Nat /\ T # {}
    <2>1. \A k \in S : k \in Nat /\ k <= n /\ n - k \in Nat
        OBVIOUS
    <2>2. QED
        BY <2>1
<1>2. PICK x \in T : \A y \in T : <<y, x>> \notin OpToRel(<, Nat)
    BY <1>1, NatLessThanWellFounded, WFMin
<1>3. \A y \in T : ~(y < x)
    <2> SUFFICES ASSUME NEW y \in T, y < x PROVE <<y, x>> \in OpToRel(<, Nat)
        BY <1>2
    <2>1. x \in Nat /\ y \in Nat
        BY <1>1
    <2>2. QED
        BY <2>1 DEF OpToRel
<1>4. PICK m \in S : x = n - m
    BY <1>2
<1>5. ASSUME NEW k \in S PROVE m >= k
    <2>1. n - k \in T
        OBVIOUS
    <2>2. ~(n - k < n - m)
        BY <1>3, <1>4, <2>1
    <2>3. k \in Nat /\ m \in Nat
        OBVIOUS
    <2>4. QED
        BY <2>2, <2>3
<1>6. Max(S) \in S /\ \A k \in S : Max(S) >= k
    BY <1>4, <1>5 DEF Max
<1>7. QED
    BY <1>6

\* Whatever an earlier operation does comes before whatever a later one does.
LEMMA EventIndexOrder ==
    ASSUME scheme \in {"heterogeneous", "allocation"},
           NEW i \in Nat \ {0}, NEW j \in Nat \ {0}, i < j, NEW p \in Phases, NEW q \in Phases
    PROVE  /\ EventIndex(i, p) \in Nat /\ EventIndex(j, q) \in Nat
           /\ EventIndex(i, p) < EventIndex(j, q)
BY DEF EventIndex, Phases

\* An operation converts before it transfers, transfers before it computes, and so on.
LEMMA PhaseOrder ==
    ASSUME scheme \in {"heterogeneous", "allocation"}, NEW i \in Nat \ {0}
    PROVE  /\ EventIndex(i, "layout_conversion") \in Nat
           /\ EventIndex(i, "layout_conversion") <= EventIndex(i, "transfer")
           /\ EventIndex(i, "transfer") \in Nat
           /\ EventIndex(i, "transfer") <= EventIndex(i, "consumer_execution")
           /\ EventIndex(i, "consumer_execution") \in Nat
BY DEF EventIndex

\* What a movement is for.
Targets == \A e \in plan.transfers \union plan.conversions : e.target \in Nat \ {0}

\* A value is kept until every one of its readers, or the end of the graph, has used it.
LEMMA KeptForReaders ==
    ASSUME graph \in Graphs, scheme \in {"heterogeneous", "allocation"}, NEW t
    PROVE  /\ LastUse(t) \in 0 .. GraphEnd /\ GraphEnd \in Nat
           /\ \A i \in DOMAIN graph : t \in Reads(graph[i]) => UseEvent(t, i) <= LastUse(t)
           /\ t \notin Consumed(graph) => LastUse(t) = GraphEnd
<1> DEFINE readers == {j \in DOMAIN graph : t \in Reads(graph[j])}
           uses    == {UseEvent(t, i) : i \in readers}
<1>1. DOMAIN graph = 1 .. Len(graph) /\ Len(graph) \in Nat
    BY GraphShape
<1>2. GraphEnd \in Nat
    BY <1>1, PhaseOrder DEF GraphEnd
<1>3. ASSUME NEW i \in readers PROVE UseEvent(t, i) \in 0 .. GraphEnd
    <2>1. PICK p \in Phases : UseEvent(t, i) = EventIndex(i, p)
        BY DEF UseEvent, Phases
    <2>2. i \in Nat \ {0} /\ Len(graph) + 1 \in Nat \ {0} /\ i < Len(graph) + 1
        BY <1>1
    <2>3. EventIndex(i, p) \in Nat /\ EventIndex(i, p) < GraphEnd
        BY <2>2, EventIndexOrder DEF GraphEnd, Phases
    <2>4. QED
        BY <1>2, <2>1, <2>3
<1>4. CASE uses = {}
    <2>1. LastUse(t) = GraphEnd /\ readers = {}
        BY <1>4 DEF LastUse
    <2>2. QED
        BY <1>2, <2>1
<1>5. CASE uses # {}
    <2>1. uses \in SUBSET (0 .. GraphEnd)
        BY <1>3
    <2>2. LastUse(t) = Max(uses)
        BY <1>5 DEF LastUse
    <2>3. LastUse(t) \in uses /\ \A k \in uses : k <= LastUse(t)
        BY <1>2, <1>5, <2>1, <2>2, MaxOfMoments
    <2>4. t \in Consumed(graph)
        BY <1>5 DEF Consumed
    <2>5. QED
        BY <1>2, <2>1, <2>3, <2>4
<1>6. QED
    BY <1>4, <1>5

\* A value is produced before it is used for the last time: its readers come after its producer.
LEMMA ValueDraftProper ==
    ASSUME graph \in Graphs, scheme \in {"heterogeneous", "allocation"}, Ordered,
           NEW t \in Produced(graph)
    PROVE  /\ EventIndex(Producer(t), "output_produced") \in Nat /\ LastUse(t) \in Nat
           /\ EventIndex(Producer(t), "output_produced") <= LastUse(t)
<1> DEFINE made == EventIndex(Producer(t), "output_produced")
<1>1. DOMAIN graph = 1 .. Len(graph) /\ Len(graph) \in Nat /\ "output_produced" \in Phases
    BY GraphShape DEF Phases
<1>2. Producer(t) \in DOMAIN graph
    BY DEF Producer, Produced
<1>3. LastUse(t) \in Nat /\ GraphEnd \in Nat
    BY KeptForReaders
<1>4. CASE t \in Consumed(graph)
    <2>1. PICK i \in DOMAIN graph : t \in Reads(graph[i])
        BY <1>4 DEF Consumed
    <2>2. Producer(t) < i /\ i \in Nat \ {0} /\ Producer(t) \in Nat \ {0}
        BY <1>1, <1>2, <2>1, ProducedBefore
    <2>3. PICK p \in Phases : UseEvent(t, i) = EventIndex(i, p)
        BY DEF UseEvent, Phases
    <2>4. made \in Nat /\ EventIndex(i, p) \in Nat /\ made < EventIndex(i, p)
        BY <1>1, <2>2, EventIndexOrder
    <2>5. EventIndex(i, p) <= LastUse(t)
        BY <2>1, <2>3, KeptForReaders
    <2>6. QED
        BY <1>3, <2>4, <2>5
<1>5. CASE t \notin Consumed(graph)
    <2>1. /\ Producer(t) \in Nat \ {0} /\ Len(graph) + 1 \in Nat \ {0}
          /\ Producer(t) < Len(graph) + 1
        BY <1>1, <1>2
    <2>2. made \in Nat /\ made < GraphEnd
        BY <1>1, <2>1, EventIndexOrder DEF GraphEnd, Phases
    <2>3. LastUse(t) = GraphEnd
        BY <1>5, KeptForReaders
    <2>4. QED
        BY <1>3, <2>2, <2>3
<1>6. QED
    BY <1>4, <1>5

\* No draft ends before it begins.
LEMMA DraftsProper ==
    ASSUME graph \in Graphs, scheme \in {"heterogeneous", "allocation"}, Ordered, Targets
    PROVE  Proper(Drafts)
<1>1. ASSUME NEW t \in Produced(graph)
      PROVE  Proper({ValueDraft(t)})
    BY ValueDraftProper DEF Proper, ValueDraft, Draft
<1>2. ASSUME NEW c \in plan.conversions
      PROVE  Proper({ConversionDraft(c)})
    BY PhaseOrder DEF Proper, ConversionDraft, Draft, Targets
<1>3. ASSUME NEW e \in plan.transfers
      PROVE  Proper({TransferDraft(e)})
    BY PhaseOrder DEF Proper, TransferDraft, Draft, Targets
<1>4. QED
    BY <1>1, <1>2, <1>3 DEF Proper, Drafts

-----------------------------------------------------------------------------
(* The slots in every state *)

\* Nothing is placed before the plan is made, and then the drafts of a plan are placed.
Placing ==
    /\ status = "waiting" => waiting = {} /\ slots = <<>>
    /\ \E D : Proper(D) /\ Grouped(D)

\* The invariant of the slots.
IInv ==
    /\ graph \in Graphs /\ scheme \in {"heterogeneous", "allocation"}
    /\ current \in Nat \ {0} /\ Targets
    /\ Placing

\* Without slots there is nothing to be wrong with.
LEMMA NothingGrouped ==
    ASSUME NEW D, slots = <<>>, waiting \subseteq D
    PROVE  Grouped(D)
<1>1. slots \in Seq(SlotsOf(D)) /\ DOMAIN slots = {}
    OBVIOUS
<1>2. QED
    BY <1>1 DEF Grouped, UpToDate, InTurn, SharersDisjoint, ReuseIsTight

\* The slots are in order when nothing has been planned.
LEMMA InitIInv == Init => IInv
<1> SUFFICES ASSUME Init PROVE IInv
    OBVIOUS
<1>1. Placing
    <2>1. Proper({})
        BY DEF Proper
    <2>2. Grouped({})
        BY NothingGrouped DEF Init
    <2>3. QED
        BY <2>1, <2>2 DEF Init, Placing
<1>2. current \in Nat \ {0} /\ Targets
    BY DEF Init, PartitioningInit, Targets
<1>3. QED
    BY <1>1, <1>2 DEF Init, PartitioningInit, IInv

\* What leaves the slots alone leaves them in order.
LEMMA SamePlacing ==
    ASSUME Placing, UNCHANGED placement, status' # "waiting" \/ status' = status
    PROVE  Placing'
<1>1. PICK D : Proper(D) /\ Grouped(D)
    BY DEF Placing
<1>2. Grouped(D)'
    BY <1>1 DEF Grouped, UpToDate, InTurn, SharersDisjoint, ReuseIsTight, placement
<1>3. QED
    BY <1>1, <1>2 DEF Placing, placement

\* Every step leaves the slots in order.
LEMMA NextIInv == IInv /\ [Next]_vars => IInv'
<1> SUFFICES ASSUME IInv, [Next]_vars PROVE IInv'
    OBVIOUS
<1>1. ASSUME PartitioningNext, UNCHANGED <<placement, execution>>
      PROVE  IInv'
    <2>1. current' \in Nat \ {0} /\ Targets'
        <3>1. CASE AssignNext
            <4>1. \A e \in Transfers(current, Assignment(current)) \union Conversions(current) :
                      e.target = current
                BY DEF Transfers, Conversions, Transfer, Conversion
            <4>2. plan'.transfers = plan.transfers \union Transfers(current, Assignment(current))
                  /\ plan'.conversions = plan.conversions \union Conversions(current)
                BY <3>1 DEF AssignNext
            <4>3. QED
                BY <3>1, <4>1, <4>2 DEF AssignNext, IInv, Targets
        <3>2. CASE CheckOverrides \/ PlanDone
            BY <3>2 DEF CheckOverrides, PlanDone, IInv, Targets
        <3>3. QED
            BY <1>1, <3>1, <3>2 DEF PartitioningNext
    <2>2. Placing'
        BY <1>1, SamePlacing DEF IInv, execution
    <2>3. QED
        BY <1>1, <2>1, <2>2 DEF PartitioningNext, CheckOverrides, AssignNext, PlanDone,
            IInv, execution
<1>2. CASE PlanStorage
    <2>1. Placing'
        <3>1. CASE status' = "placing" /\ waiting' = Drafts /\ Plannable
            <4>1. PICK D : D = Drafts
                OBVIOUS
            <4>2. Proper(D)
                BY <3>1, <4>1, DraftsProper DEF IInv, Plannable
            <4>3. slots' = <<>> /\ waiting' \subseteq D
                BY <1>2, <3>1, <4>1 DEF PlanStorage, IInv, Placing
            <4>4. Grouped(D)'
                <5>1. slots' \in Seq(SlotsOf(D)) /\ DOMAIN slots' = {}
                    BY <4>3
                <5>2. QED
                    BY <4>3, <5>1 DEF Grouped, UpToDate, InTurn, SharersDisjoint, ReuseIsTight
            <4>5. QED
                BY <3>1, <4>2, <4>4 DEF Placing
        <3>2. CASE status' = "refused" /\ waiting' = waiting
            BY <1>2, <3>2, SamePlacing DEF PlanStorage, IInv, placement
        <3>3. QED
            BY <1>2, <3>1, <3>2 DEF PlanStorage
    <2>2. QED
        BY <1>2, <2>1 DEF PlanStorage, partitioning, IInv, Targets
<1>3. CASE PlaceDraft
    <2>1. PICK D : Proper(D) /\ Grouped(D)
        BY DEF IInv, Placing
    <2>2. Grouped(D)'
        BY <1>3, <2>1, PlacingKeepsGrouped DEF PlaceDraft
    <2>3. Placing'
        BY <1>3, <2>1, <2>2 DEF Placing, PlaceDraft, execution
    <2>4. QED
        BY <1>3, <2>3 DEF PlaceDraft, partitioning, execution, IInv, Targets
<1>4. CASE Admit \/ KernelFails \/ ComputeKernel \/ Write \/ Release \/ Finish \/ UNCHANGED vars
    <2>1. UNCHANGED <<partitioning, placement, scheme>> /\ (status' = status \/ status' # "waiting")
        BY <1>4 DEF Admit, KernelFails, ComputeKernel, Write, Release, Finish, Fail, vars,
                    partitioning, placement, execution
    <2>2. Placing'
        BY <2>1, SamePlacing DEF IInv
    <2>3. QED
        BY <2>1, <2>2 DEF partitioning, IInv, Targets
<1>5. QED
    BY <1>1, <1>2, <1>3, <1>4 DEF Next

\* The slots are in order in every state.
THEOREM Invariance == Spec => []IInv
BY InitIInv, NextIInv, PTL DEF Spec

\* Drafts in one slot are never live at the same moment, for any graph, any backends, any
\* overrides and either scheme (_assign_slots, _assign_reuse_groups).
THEOREM SharingIsSafe == Spec => []SharersDisjoint
<1>1. IInv => SharersDisjoint
    BY DEF IInv, Placing, Grouped
<1>2. QED
    BY <1>1, Invariance, PTL

\* The first-fit choice of slots never takes more of a kind than are live at one moment.
THEOREM SharingIsTight == Spec => []ReuseIsTight
<1>1. IInv => ReuseIsTight
    BY DEF IInv, Placing, Grouped
<1>2. QED
    BY <1>1, Invariance, PTL

-----------------------------------------------------------------------------
(* What an execution goes by stays as it is *)

\* What the operation i produces: Ready leaves it one result.
Out(i)   == graph[i].outputs[1]
Value(i) == ValueDraft(Out(i))

\* What has been written so far, and what of it is still needed.
Written(d) == d.first < event \/ (d.first = event /\ d \notin todo)
Live(d)    == Written(d) /\ event <= d.last

\* A plan, its slots and the scheme do not change once the plan has been admitted.
Frozen == UNCHANGED <<partitioning, placement, scheme>>

\* The moments of an execution follow from the graph and the scheme.
LEMMA FrozenEvents ==
    ASSUME UNCHANGED <<partitioning, scheme>>
    PROVE  /\ \A i, p : EventIndex(i, p)' = EventIndex(i, p)
           /\ GraphEnd' = GraphEnd
<1>1. graph' = graph /\ scheme' = scheme
    BY DEF partitioning
<1>2. \A i, p : EventIndex(i, p)' = EventIndex(i, p)
    BY <1>1 DEF EventIndex
<1>3. GraphEnd' = GraphEnd
    BY <1>1 DEF GraphEnd, EventIndex
<1>4. QED
    BY <1>2, <1>3

\* The drafts follow from what has been planned, and so does whether there can be a storage plan.
LEMMA FrozenDrafts ==
    ASSUME UNCHANGED <<partitioning, scheme>>
    PROVE  /\ \A t : ValueDraft(t)' = ValueDraft(t)
           /\ Drafts' = Drafts /\ Plannable' = Plannable
<1>1. graph' = graph /\ scheme' = scheme /\ plan' = plan
    BY DEF partitioning
<1>2. \A t : LastUse(t)' = LastUse(t)
    BY <1>1 DEF LastUse, UseEvent, Moving, EventIndex, GraphEnd
<1>3. \A t : ValueDraft(t)' = ValueDraft(t)
    BY <1>1, <1>2 DEF ValueDraft, Producer, Draft, EventIndex, PhysicalShape, Tiled
<1>4. \A c : ConversionDraft(c)' = ConversionDraft(c)
    BY <1>1 DEF ConversionDraft, Draft, EventIndex, PhysicalShape, Tiled, Moving
<1>5. \A e : TransferDraft(e)' = TransferDraft(e)
    BY <1>1 DEF TransferDraft, Draft, EventIndex, PhysicalShape, Tiled
<1>6. Drafts' = Drafts
    BY <1>1, <1>3, <1>4, <1>5 DEF Drafts
<1>7. Plannable' = Plannable
    <2>1. Ordered' = Ordered /\ Ready' = Ready
        BY <1>1 DEF Ordered, Ready
    <2>2. \A e : /\ LeavesSource(e)' = LeavesSource(e) /\ BetweenDomains(e)' = BetweenDomains(e)
                 /\ ConvertedAlong(e)' = ConvertedAlong(e)
        BY <1>1 DEF LeavesSource, BetweenDomains, ConvertedAlong, Producer
    <2>3. Staged' = Staged
        BY <1>1, <2>2 DEF Staged
    <2>4. QED
        BY <1>1, <2>1, <2>3 DEF Plannable
<1>8. QED
    BY <1>3, <1>6, <1>7

\* Where things are stored follows from the plan and the slots.
LEMMA FrozenPlaces ==
    ASSUME Frozen
    PROVE  /\ Placed' = Placed
           /\ \A d : SlotOf(d)' = SlotOf(d)
           /\ \A i : InnerReads(i)' = InnerReads(i)
           /\ \A t, i : OperandDraft(t, i)' = OperandDraft(t, i)
           /\ \A t : ValueOf(t)' = ValueOf(t)
           /\ \A d : SourceDraft(d)' = SourceDraft(d)
           /\ \A i : Value(i)' = Value(i)
<1>1. graph' = graph /\ scheme' = scheme /\ plan' = plan /\ slots' = slots /\ waiting' = waiting
    BY DEF Frozen, partitioning, placement
<1>2. Placed' = Placed
    BY <1>1 DEF Placed
<1>3. \A d : SlotOf(d)' = SlotOf(d)
    BY <1>1 DEF SlotOf
<1>4. \A i : InnerReads(i)' = InnerReads(i)
    BY <1>1 DEF InnerReads
<1>5. \A t, i : OperandDraft(t, i)' = OperandDraft(t, i)
    BY <1>1, <1>2 DEF OperandDraft
<1>6. \A t : ValueOf(t)' = ValueOf(t)
    BY <1>1, <1>2 DEF ValueOf
<1>7. \A d : SourceDraft(d)' = SourceDraft(d)
    BY <1>1, <1>2, <1>6 DEF SourceDraft
<1>8. \A i : Value(i)' = Value(i)
    <2>1. \A t : ValueDraft(t)' = ValueDraft(t)
        BY FrozenDrafts DEF Frozen
    <2>2. \A i : Out(i)' = Out(i)
        BY <1>1 DEF Out
    <2>3. QED
        BY <1>1, <2>1, <2>2 DEF Value, Out
<1>9. QED
    BY <1>2, <1>3, <1>4, <1>5, <1>6, <1>7, <1>8

-----------------------------------------------------------------------------
(* What an execution needs of its plan *)

\* Every draft begins before the end of the graph, and ends with it at the latest.
Timely ==
    \A d \in Placed : /\ d.first \in Nat /\ d.last \in Nat /\ d.first <= d.last
                      /\ d.first < GraphEnd /\ d.last <= GraphEnd

\* A draft is in one slot only.
InOneSlot == \A i \in DOMAIN slots : \A d \in slots[i].drafts : SlotOf(d) = i

\* An operation has one value draft, and every value draft is that of an operation.
Produces ==
    /\ \A i \in DOMAIN graph : /\ Value(i) \in Placed /\ Value(i).tensor = Out(i)
                               /\ Value(i).first = EventIndex(i, "output_produced")
                               /\ Out(i) \in Tensors
    /\ \A d \in Placed : d.role = "produced_value" => \E i \in DOMAIN graph : d = Value(i)

\* A staging is copied from another slot, of the other kind of layout if it converts, which
\* is written before the staging and needed at least as long as until then.
CopyFor(d, from) ==
    /\ from \in Placed /\ from.tensor = d.tensor
    /\ from.first < d.first /\ d.first <= from.last
    /\ SlotOf(from) # SlotOf(d) /\ d.layout = "row_major"
    /\ from.layout = IF d.role = "layout_staging" THEN "blocked" ELSE "row_major"
Copies == \A d \in Placed : d.role # "produced_value" => CopyFor(d, SourceDraft(d))

\* An operand is stored in the domain of its reader from before the kernel to after it.
OperandFor(i, t, d) ==
    /\ d \in Placed /\ d.tensor = t /\ d.domain = plan.assignments[i].domain
    /\ d.first < EventIndex(i, "consumer_execution")
    /\ EventIndex(i, "consumer_execution") <= d.last
Feeds == \A i \in DOMAIN graph : \A t \in InnerReads(i) : OperandFor(i, t, OperandDraft(t, i))

\* A terminal value is kept to the end.
Collects ==
    \A t \in Terminals(graph) :
        ValueOf(t) \in Placed /\ ValueOf(t).tensor = t /\ ValueOf(t).last = GraphEnd

\* All that an execution needs of its plan.
Usable ==
    /\ graph \in Graphs /\ scheme \in {"heterogeneous", "allocation"}
    /\ Timely /\ SharersDisjoint /\ InOneSlot /\ Produces /\ Copies /\ Feeds /\ Collects

\* A usable plan stays usable.
LEMMA FrozenUsable == ASSUME Frozen, Usable PROVE Usable'
<1>1. graph' = graph /\ scheme' = scheme /\ plan' = plan /\ slots' = slots /\ waiting' = waiting
    BY DEF Frozen, partitioning, placement
<1>2. Timely' /\ SharersDisjoint' /\ InOneSlot'
    BY <1>1, FrozenEvents, FrozenPlaces DEF Frozen, Usable, Timely, SharersDisjoint, InOneSlot
<1>3. Produces'
    BY <1>1, FrozenEvents, FrozenPlaces DEF Frozen, Usable, Produces, Out
<1>4. Copies'
    BY <1>1, FrozenEvents, FrozenPlaces DEF Frozen, Usable, Copies, CopyFor
<1>5. Feeds'
    BY <1>1, FrozenEvents, FrozenPlaces DEF Frozen, Usable, Feeds, OperandFor
<1>6. Collects'
    BY <1>1, FrozenEvents, FrozenPlaces DEF Frozen, Usable, Collects
<1>7. QED
    BY <1>1, <1>2, <1>3, <1>4, <1>5, <1>6 DEF Usable

-----------------------------------------------------------------------------
(* A running execution *)

\* What can be in a slot.
Contents == [holds : SUBSET Placed, value : Tensors \union {Garbage}, 
             imprint : SUBSET (Tensors \union {Garbage})]

\* A slot holds exactly the one of its drafts that is live, with the right value.
Holding ==
    /\ arena \in [DOMAIN slots -> Contents]
    /\ \A i \in DOMAIN slots : arena[i].holds = {d \in slots[i].drafts : Live(d)}
    /\ \A d \in Placed : Live(d) => Content(d) = d.tensor

\* What is left to write belongs to the moment at work.
Clock ==
    /\ event \in 0 .. GraphEnd /\ todo \subseteq {d \in Placed : d.first = event}

\* Operations are computed up to the moment at work, and their values have been written, but
\* for the latest one while its result is at hand.
Computing ==
    /\ computed \in 0 .. Len(graph)
    /\ \A i \in DOMAIN graph : EventIndex(i, "consumer_execution") < event => i <= computed
    /\ \A i \in DOMAIN graph :
           Written(Value(i)) <=> i < computed \/ (i = computed /\ result = None)
    /\ result # None => computed # 0 /\ result = Out(computed)

\* Every state of a running execution.
InStep == Holding /\ Clock /\ Computing

\* At most one draft of a slot is live.
LEMMA LiveAlone ==
    ASSUME Usable, Clock, NEW i \in DOMAIN slots, NEW d \in slots[i].drafts, Live(d)
    PROVE  {e \in slots[i].drafts : Live(e)} = {d}
<1>1. event \in Nat
    BY DEF Clock
<1>2. \A e \in slots[i].drafts : e \in Placed
    BY DEF Placed
<1>3. \A e \in slots[i].drafts : Live(e) => e.first <= event /\ event <= e.last
    BY <1>1, <1>2 DEF Live, Written, Usable, Timely
<1>4. ASSUME NEW e \in slots[i].drafts, Live(e), e # d PROVE FALSE
    <2>1. d.last < e.first \/ e.last < d.first
        BY <1>4 DEF Usable, SharersDisjoint
    <2>2. QED
        BY <1>1, <1>2, <1>3, <1>4, <2>1 DEF Usable, Timely
<1>5. QED
    BY <1>4

\* A draft that was placed is in its slot.
LEMMA SlotFound ==
    ASSUME Usable, NEW d \in Placed
    PROVE  SlotOf(d) \in DOMAIN slots /\ d \in slots[SlotOf(d)].drafts
BY DEF Placed, Usable, InOneSlot

\* A live draft is in its slot, with the right value.
LEMMA LiveActive ==
    ASSUME Usable, InStep, NEW d \in Placed, Live(d)
    PROVE  Active(d) /\ Content(d) = d.tensor
<1>1. SlotOf(d) \in DOMAIN slots /\ d \in slots[SlotOf(d)].drafts
    BY SlotFound
<1>2. arena[SlotOf(d)].holds = {e \in slots[SlotOf(d)].drafts : Live(e)}
    BY <1>1 DEF InStep, Holding
<1>3. QED
    BY <1>1, <1>2, LiveAlone DEF InStep, Holding, Active

\* The operations that were due have been computed, unless one is due now.
LEMMA CaughtUp ==
    ASSUME Usable, InStep, status = "running", ~KernelDue,
           NEW i \in DOMAIN graph, EventIndex(i, "consumer_execution") <= event
    PROVE  i <= computed
<1>1. DOMAIN graph = 1 .. Len(graph) /\ Len(graph) \in Nat /\ computed \in 0 .. Len(graph)
    BY GraphShape DEF Usable, InStep, Computing
<1>2. SUFFICES ASSUME computed < i PROVE FALSE
    BY <1>1
<1>3. i \in Nat \ {0} /\ event \in Nat /\ EventIndex(i, "consumer_execution") \in Nat
    BY <1>1, PhaseOrder DEF Usable, InStep, Clock
<1>4. EventIndex(i, "consumer_execution") = event
    BY <1>2, <1>1, <1>3 DEF InStep, Computing
<1>5. \A j \in DOMAIN graph : j < i => /\ EventIndex(j, "consumer_execution") < event
                                       /\ EventIndex(j, "output_produced") < event
    BY <1>1, <1>3, <1>4, EventIndexOrder DEF Usable, Phases
<1>6. i = computed + 1
    <2>1. ASSUME computed + 1 < i PROVE FALSE
        <3>1. computed + 1 \in DOMAIN graph
            BY <1>1, <2>1
        <3>2. computed + 1 <= computed
            BY <1>5, <2>1, <3>1 DEF InStep, Computing
        <3>3. QED
            BY <1>1, <3>2
    <2>2. QED
        BY <1>1, <1>2, <2>1
<1>7. ASSUME result # None PROVE FALSE
    <2>1. computed \in DOMAIN graph /\ computed < i
        BY <1>1, <1>7, <1>6 DEF InStep, Computing
    <2>2. Written(Value(computed))
        BY <1>5, <2>1 DEF Written, Usable, Produces
    <2>3. QED
        BY <1>7, <1>1, <2>1, <2>2 DEF InStep, Computing
<1>8. KernelDue
    BY <1>1, <1>4, <1>6, <1>7 DEF KernelDue
<1>9. QED
    BY <1>8

-----------------------------------------------------------------------------
(* Its steps *)

\* Every operand of a kernel that is due is in its slot.
LEMMA OperandsActive ==
    ASSUME Usable, InStep, KernelDue, NEW t \in InnerReads(computed + 1)
    PROVE  LET d == OperandDraft(t, computed + 1)
           IN  /\ Active(d) /\ Content(d) = t /\ d.domain = plan.assignments[computed + 1].domain
<1> DEFINE i == computed + 1
           d == OperandDraft(t, i)
<1>1. i \in DOMAIN graph /\ event = EventIndex(i, "consumer_execution")
    BY GraphShape DEF Usable, InStep, Computing, KernelDue
<1>2. OperandFor(i, t, d)
    BY <1>1 DEF Usable, Feeds
<1>3. d \in Placed /\ Live(d)
    BY <1>1, <1>2 DEF OperandFor, Live, Written
<1>4. QED
    BY <1>2, <1>3, LiveActive DEF OperandFor

\* A kernel that is due finds its operands and computes the right result.
LEMMA ComputeKernelRuns ==
    ASSUME Usable, InStep, ComputeKernel
    PROVE  /\ InStep' /\ computed' = computed + 1 /\ computed < Len(graph)
           /\ UNCHANGED <<partitioning, placement, scheme, status, reason, outputs>>
<1>1. \A t \in InnerReads(computed + 1) : Active(OperandDraft(t, computed + 1))
    BY OperandsActive DEF ComputeKernel
<1>2. /\ result' = Kernel(computed + 1) /\ computed' = computed + 1
      /\ UNCHANGED <<partitioning, placement, scheme, status, reason, event, todo, arena, outputs>>
      /\ KernelDue
    BY <1>1 DEF ComputeKernel
<1>3. result' = Out(computed + 1)
    BY <1>2, OperandsActive DEF Kernel, Out
<1>4. /\ DOMAIN graph = 1 .. Len(graph) /\ Len(graph) \in Nat /\ computed \in 0 .. Len(graph)
      /\ computed < Len(graph) /\ result = None
      /\ event = EventIndex(computed + 1, "consumer_execution")
    BY <1>2, GraphShape DEF Usable, InStep, Computing, KernelDue
<1>5. Out(computed + 1) # None
    BY <1>4, StorageAssumption DEF Usable, Produces
<1>6. /\ \A d : Written(d)' = Written(d) /\ Live(d)' = Live(d) /\ Content(d)' = Content(d)
      /\ \A i : Value(i)' = Value(i) /\ Out(i)' = Out(i)
      /\ Placed' = Placed /\ GraphEnd' = GraphEnd
      /\ \A i, p : EventIndex(i, p)' = EventIndex(i, p)
      /\ slots' = slots /\ graph' = graph
    BY <1>2, FrozenPlaces, FrozenEvents
       DEF Frozen, Written, Live, Content, Out, partitioning, placement
<1>7. Holding' /\ Clock'
    BY <1>2, <1>6 DEF InStep, Holding, Clock, Contents
<1>8. Computing'
    <2>1. computed' \in 0 .. Len(graph')
        BY <1>2, <1>4, <1>6
    <2>2. \A i \in DOMAIN graph' : EventIndex(i, "consumer_execution")' < event' => i <= computed'
        BY <1>2, <1>4, <1>6 DEF InStep, Computing
    <2>3. \A i \in DOMAIN graph : Written(Value(i)) <=> i < computed + 1
        BY <1>4 DEF InStep, Computing
    <2>4. \A i \in DOMAIN graph' :
              Written(Value(i))' <=> i < computed' \/ (i = computed' /\ result' = None)
        BY <1>2, <1>3, <1>5, <1>6, <2>3
    <2>5. QED
        BY <1>2, <1>3, <1>4, <1>6, <2>1, <2>2, <2>4 DEF Computing
<1>9. QED
    BY <1>2, <1>4, <1>7, <1>8 DEF InStep

\* Release lets go of what expires, and nothing else.
LEMMA ExpiringActive ==
    ASSUME Usable, InStep, NEW d \in Placed, d.last = event, todo = {} \/ event = GraphEnd
    PROVE  Live(d)
<1>1. d.first \in Nat /\ event \in Nat /\ d.first <= event /\ d.first < GraphEnd
    BY DEF Usable, Timely, InStep, Clock
<1>2. QED
    BY <1>1 DEF Live, Written

\* What is left in a slot after a moment is what is live and does not expire at it.
LEMMA ReleasedHolds ==
    ASSUME Usable, InStep, NEW i \in DOMAIN slots
    PROVE  /\ Released[i] \in Contents /\ Released[i].value = arena[i].value
           /\ Released[i].holds = {d \in slots[i].drafts : Live(d) /\ d.last # event}
<1>1. arena[i] \in Contents /\ i \in DOMAIN arena
    BY DEF InStep, Holding
<1>2. arena[i].holds = {d \in slots[i].drafts : Live(d)}
    BY DEF InStep, Holding
<1>3. \A d \in slots[i].drafts : d \in Placed
    BY DEF Placed
<1>4. CASE slots[i].drafts \intersect Expiring # {}
    <2>1. Released[i] = [arena[i] EXCEPT !.holds = {}]
        BY <1>1, <1>4 DEF Released
    <2>2. PICK x \in slots[i].drafts : x.last = event
        BY <1>4 DEF Expiring
    <2>3. Released[i] \in Contents /\ Released[i].value = arena[i].value /\ Released[i].holds = {}
        BY <1>1, <2>1 DEF Contents
    <2>4. ASSUME NEW d \in slots[i].drafts, Live(d), d.last # event PROVE FALSE
        <3>1. /\ event \in Nat /\ d.first \in Nat /\ d.last \in Nat /\ x.first \in Nat
              /\ x.first <= event /\ d.first <= event /\ event <= d.last
            BY <1>3, <2>2, <2>4 DEF InStep, Clock, Usable, Timely, Live, Written
        <3>2. d.last < x.first \/ x.last < d.first
            BY <2>2, <2>4 DEF Usable, SharersDisjoint
        <3>3. QED
            BY <2>2, <3>1, <3>2
    <2>5. QED
        BY <2>3, <2>4
<1>5. CASE slots[i].drafts \intersect Expiring = {}
    <2>1. Released[i] = arena[i]
        BY <1>1, <1>5 DEF Released
    <2>2. \A d \in slots[i].drafts : d.last # event
        BY <1>3, <1>5 DEF Expiring
    <2>3. QED
        BY <1>1, <1>2, <2>1, <2>2
<1>6. QED
    BY <1>4, <1>5

\* Everything that is released is active, and the next moment finds what it needs.
LEMMA ReleaseRuns ==
    ASSUME Usable, InStep, Release
    PROVE  /\ InStep'
           /\ UNCHANGED <<partitioning, placement, scheme, status, reason, computed, outputs>>
<1>1. \A d \in Expiring : Active(d)
    BY ExpiringActive, LiveActive DEF Release, Expiring
<1>2. /\ arena' = Released /\ event' = event + 1
      /\ todo' = {d \in Placed : d.first = event + 1}
      /\ UNCHANGED <<partitioning, placement, scheme, status, reason, result, computed, outputs>>
    BY <1>1 DEF Release, Begin
<1>3. /\ \A i : Value(i)' = Value(i) /\ Out(i)' = Out(i)
      /\ Placed' = Placed /\ GraphEnd' = GraphEnd
      /\ \A i, p : EventIndex(i, p)' = EventIndex(i, p)
      /\ \A d : SlotOf(d)' = SlotOf(d)
      /\ slots' = slots /\ graph' = graph
    BY <1>2, FrozenPlaces, FrozenEvents DEF Frozen, Out, partitioning, placement
<1>4. event \in Nat /\ event < GraphEnd /\ todo = {} /\ status = "running" /\ ~KernelDue
    <2>1. event < GraphEnd /\ todo = {} /\ status = "running" /\ ~KernelDue
        BY DEF Release
    <2>2. event \in Nat
        BY DEF InStep, Clock
    <2>3. QED
        BY <2>1, <2>2
<1>5. GraphEnd \in Nat /\ \A d \in Placed : d.first \in Nat /\ d.last \in Nat
    <2>1. Len(graph) + 1 \in Nat \ {0}
        BY GraphShape DEF Usable
    <2>2. QED
        BY <2>1, PhaseOrder DEF Usable, Timely, GraphEnd
<1>6. \A d \in Placed : Written(d)' <=> Written(d)
    BY <1>2, <1>4, <1>5 DEF Written
<1>7. \A d \in Placed : Live(d)' <=> Live(d) /\ d.last # event
    BY <1>2, <1>4, <1>5, <1>6 DEF Live
<1>8. Clock'
    BY <1>2, <1>3, <1>4, <1>5 DEF Clock
<1>9. Holding'
    <2>1. arena' \in [DOMAIN slots' -> Contents']
        <3>1. DOMAIN arena' = DOMAIN slots
            BY <1>2 DEF Released, InStep, Holding
        <3>2. arena' = [i \in DOMAIN slots |-> arena'[i]]
            BY <1>2, <3>1 DEF Released
        <3>3. \A i \in DOMAIN slots : arena'[i] \in Contents
            BY <1>2, ReleasedHolds
        <3>4. Contents' = Contents
            BY <1>3 DEF Contents
        <3>5. QED
            BY <1>3, <3>2, <3>3, <3>4
    <2>2. \A i \in DOMAIN slots : \A d \in slots[i].drafts : d \in Placed
        BY DEF Placed
    <2>3. \A i \in DOMAIN slots : arena'[i].holds = {d \in slots[i].drafts : Live(d)'}
        BY <1>2, <1>7, <2>2, ReleasedHolds
    <2>4. \A i \in DOMAIN slots' : arena'[i].holds = {d \in slots'[i].drafts : Live(d)'}
        BY <1>3, <2>3
    <2>5. ASSUME NEW d \in Placed, Live(d)' PROVE Content(d)' = d.tensor
        <3>1. Live(d) /\ SlotOf(d) \in DOMAIN slots
            BY <1>7, <2>5, SlotFound
        <3>2. arena'[SlotOf(d)].value = arena[SlotOf(d)].value
            BY <1>2, <3>1, ReleasedHolds
        <3>3. Content(d)' = Content(d)
            BY <1>3, <3>2 DEF Content
        <3>4. QED
            BY <3>1, <3>3 DEF InStep, Holding
    <2>6. QED
        BY <1>3, <2>1, <2>4, <2>5 DEF Holding
<1>10. Computing'
    <2>1. \A i \in DOMAIN graph : EventIndex(i, "consumer_execution") < event + 1 => i <= computed
        <3>1. \A i \in DOMAIN graph : EventIndex(i, "consumer_execution") \in Nat
            <4>1. \A i \in DOMAIN graph : i \in Nat \ {0}
                BY GraphShape DEF Usable
            <4>2. QED
                BY <4>1, PhaseOrder DEF Usable
        <3>2. QED
            BY <1>4, <3>1, CaughtUp
    <2>2. \A i \in DOMAIN graph : Written(Value(i))' <=> Written(Value(i))
        BY <1>3, <1>6 DEF Usable, Produces, Written
    <2>3. QED
        BY <1>2, <1>3, <2>1, <2>2 DEF Computing, InStep
<1>11. QED
    BY <1>2, <1>8, <1>9, <1>10 DEF InStep

\* A value that has to be written has been computed, by the kernel of the latest operation.
LEMMA ResultAtHand ==
    ASSUME Usable, InStep, status = "running", ~KernelDue,
           NEW d \in todo, d.role = "produced_value"
    PROVE  result = d.tensor /\ result # None /\ computed \in DOMAIN graph /\ d = Value(computed)
<1>1. d \in Placed /\ d.first = event /\ ~Written(d)
    <2>1. event \in Nat /\ d \in Placed /\ d.first = event
        BY DEF InStep, Clock
    <2>2. QED
        BY <2>1 DEF Written
<1>2. PICK i \in DOMAIN graph : d = Value(i)
    BY <1>1 DEF Usable, Produces
<1>3. i \in Nat \ {0} /\ computed \in 0 .. Len(graph) /\ DOMAIN graph = 1 .. Len(graph)
      /\ Len(graph) \in Nat
    BY GraphShape DEF Usable, InStep, Computing
<1>4. EventIndex(i, "output_produced") = event /\ d.tensor = Out(i)
    BY <1>1, <1>2 DEF Usable, Produces
<1>5. EventIndex(i, "consumer_execution") <= event
    <2>1. EventIndex(i, "consumer_execution") <= EventIndex(i, "output_produced")
        BY <1>3 DEF EventIndex, Usable
    <2>2. QED
        BY <1>4, <2>1
<1>6. i <= computed
    BY <1>5, CaughtUp
<1>7. ~(i < computed \/ (i = computed /\ result = None))
    BY <1>1, <1>2 DEF InStep, Computing
<1>8. i = computed
    BY <1>3, <1>6, <1>7
<1>9. QED
    BY <1>2, <1>4, <1>7, <1>8 DEF InStep, Computing

\* The slot of a draft that has to be written is empty.
LEMMA SlotEmpty ==
    ASSUME Usable, InStep, NEW d \in todo
    PROVE  arena[SlotOf(d)].holds = {}
<1>1. d \in Placed /\ d.first = event /\ event \in Nat /\ ~Live(d)
    <2>1. d \in Placed /\ d.first = event /\ event \in Nat
        BY DEF InStep, Clock
    <2>2. QED
        BY <2>1 DEF Live, Written
<1>2. SlotOf(d) \in DOMAIN slots /\ d \in slots[SlotOf(d)].drafts
    BY <1>1, SlotFound
<1>3. ASSUME NEW e \in slots[SlotOf(d)].drafts, Live(e) PROVE FALSE
    <2>1. e \in Placed /\ e # d
        BY <1>1, <1>2, <1>3 DEF Placed
    <2>2. d.last < e.first \/ e.last < d.first
        BY <1>2, <1>3, <2>1 DEF Usable, SharersDisjoint
    <2>3. /\ e.first \in Nat /\ e.last \in Nat /\ d.first \in Nat /\ d.last \in Nat
          /\ d.first <= d.last /\ e.first <= event /\ event <= e.last
        BY <1>1, <1>3, <2>1 DEF Usable, Timely, Live, Written
    <2>4. QED
        BY <1>1, <2>2, <2>3
<1>4. QED
    BY <1>2, <1>3 DEF InStep, Holding

\* What a staging is copied from is in another slot.
LEMMA SourceAtHand ==
    ASSUME Usable, InStep, NEW d \in todo, d.role # "produced_value"
    PROVE  CopyFits(d) /\ Content(SourceDraft(d)) = d.tensor
<1>1. d \in Placed /\ d.first = event /\ event \in Nat
    BY DEF InStep, Clock
<1>2. CopyFor(d, SourceDraft(d))
    BY <1>1 DEF Usable, Copies
<1>3. Live(SourceDraft(d)) /\ SourceDraft(d) \in Placed
    BY <1>1, <1>2 DEF CopyFor, Live, Written
<1>4. Active(SourceDraft(d)) /\ Content(SourceDraft(d)) = SourceDraft(d).tensor
    BY <1>3, LiveActive
<1>5. QED
    BY <1>2, <1>4 DEF CopyFor, CopyFits

\* A write finds its slot empty and its source in place, and writes the right value.
LEMMA WriteRuns ==
    ASSUME Usable, InStep, Write
    PROVE  /\ InStep'
           /\ UNCHANGED <<partitioning, placement, scheme, status, reason, computed, outputs>>
<1>1. PICK d \in todo :
          /\ arena' = [arena EXCEPT ![SlotOf(d)] =
                 [holds |-> {d}, imprint |-> Imprint(d),
                  value |-> IF d.role = "produced_value" THEN result ELSE Content(SourceDraft(d))]]
          /\ todo' = todo \ {d}
          /\ result' = IF d.role = "produced_value" THEN None ELSE result
          /\ UNCHANGED <<partitioning, placement, scheme, status, reason, event, computed, outputs>>
    BY SlotEmpty, SourceAtHand DEF Write, Imprint, PaddingZero
<1>2. status = "running" /\ ~KernelDue
    BY DEF Write
<1> DEFINE v == IF d.role = "produced_value" THEN result ELSE Content(SourceDraft(d))
<1>3. v = d.tensor
    BY <1>2, ResultAtHand, SourceAtHand
<1>4. d \in Placed /\ d.first = event /\ event \in Nat /\ event <= d.last
    <2>1. d \in Placed /\ d.first = event /\ event \in Nat
        BY DEF InStep, Clock
    <2>2. QED
        BY <2>1 DEF Usable, Timely
<1>5. d.tensor \in Tensors \union {Garbage}
    <2>1. CASE d.role = "produced_value"
        <3>1. PICK i \in DOMAIN graph : d = Value(i)
            BY <1>4, <2>1 DEF Usable, Produces
        <3>2. QED
            BY <3>1 DEF Usable, Produces
    <2>2. CASE d.role # "produced_value"
        <3>1. SourceDraft(d) \in Placed /\ Content(SourceDraft(d)) = d.tensor
            BY <1>4, <2>2, SourceAtHand DEF Usable, Copies, CopyFor
        <3>2. SlotOf(SourceDraft(d)) \in DOMAIN slots
            BY <3>1, SlotFound
        <3>3. QED
            BY <3>1, <3>2 DEF InStep, Holding, Contents, Content
    <2>3. QED
        BY <2>1, <2>2
<1>6. /\ \A i : Value(i)' = Value(i) /\ Out(i)' = Out(i)
      /\ Placed' = Placed /\ GraphEnd' = GraphEnd
      /\ \A i, p : EventIndex(i, p)' = EventIndex(i, p)
      /\ \A e : SlotOf(e)' = SlotOf(e)
      /\ slots' = slots /\ graph' = graph
    BY <1>1, FrozenPlaces, FrozenEvents DEF Frozen, Out, partitioning, placement
<1>7. \A e \in Placed : Written(e)' <=> Written(e) \/ e = d
    BY <1>1, <1>4 DEF Written
<1>8. \A e \in Placed : Live(e)' <=> Live(e) \/ e = d
    BY <1>1, <1>4, <1>7 DEF Live
<1>9. Clock'
    BY <1>1, <1>6 DEF InStep, Clock
<1>10. SlotOf(d) \in DOMAIN slots /\ d \in slots[SlotOf(d)].drafts
    BY <1>4, SlotFound
<1>11. /\ DOMAIN arena = DOMAIN slots /\ DOMAIN arena' = DOMAIN slots
       /\ arena'[SlotOf(d)] = [holds |-> {d}, imprint |-> Imprint(d), value |-> v]
       /\ \A i \in DOMAIN slots : i # SlotOf(d) => arena'[i] = arena[i]
    BY <1>1, <1>10 DEF InStep, Holding
<1>12. Holding'
    <2>1. arena' \in [DOMAIN slots' -> Contents']
        <3>1. Contents' = Contents
            BY <1>6 DEF Contents
        <3>2. arena'[SlotOf(d)] \in Contents
            BY <1>3, <1>4, <1>5, <1>11 DEF Contents, Imprint
        <3>3. arena \in [DOMAIN slots -> Contents]
            BY DEF InStep, Holding
        <3>4. arena' \in [DOMAIN slots -> Contents]
            BY <1>1, <1>11, <3>2, <3>3
        <3>5. QED
            BY <1>6, <3>1, <3>4
    <2>2. \A i \in DOMAIN slots : \A e \in slots[i].drafts : e \in Placed /\ SlotOf(e) = i
        BY DEF Placed, Usable, InOneSlot
    <2>3. ASSUME NEW i \in DOMAIN slots
          PROVE  arena'[i].holds = {e \in slots[i].drafts : Live(e)'}
        <3>1. arena[i].holds = {e \in slots[i].drafts : Live(e)}
            BY DEF InStep, Holding
        <3>2. CASE i = SlotOf(d)
            <4>1. arena'[i].holds = {d} /\ arena[i].holds = {}
                BY <1>11, <3>2, SlotEmpty
            <4>2. QED
                BY <1>8, <1>10, <2>2, <3>1, <3>2, <4>1
        <3>3. CASE i # SlotOf(d)
            BY <1>8, <1>11, <2>2, <3>1, <3>3
        <3>4. QED
            BY <3>2, <3>3
    <2>4. \A i \in DOMAIN slots' : arena'[i].holds = {e \in slots'[i].drafts : Live(e)'}
        BY <1>6, <2>3
    <2>5. ASSUME NEW e \in Placed, Live(e)' PROVE Content(e)' = e.tensor
        <3>1. Content(e)' = arena'[SlotOf(e)].value
            BY <1>6 DEF Content
        <3>2. CASE e = d
            BY <1>3, <1>11, <3>1, <3>2
        <3>3. CASE e # d
            <4>1. Live(e) /\ SlotOf(e) \in DOMAIN slots /\ e \in slots[SlotOf(e)].drafts
                BY <1>8, <2>5, <3>3, SlotFound
            <4>2. SlotOf(e) # SlotOf(d)
                <5>1. SlotOf(e) = SlotOf(d) => e \in arena[SlotOf(d)].holds
                    BY <1>10, <4>1 DEF InStep, Holding
                <5>2. QED
                    BY <5>1, SlotEmpty
            <4>3. arena'[SlotOf(e)].value = Content(e)
                BY <1>11, <4>1, <4>2 DEF Content
            <4>4. QED
                BY <3>1, <4>1, <4>3 DEF InStep, Holding
        <3>4. QED
            BY <3>2, <3>3
    <2>6. QED
        BY <1>6, <2>1, <2>4, <2>5 DEF Holding
<1>13. Computing'
    <2>1. /\ computed' \in 0 .. Len(graph')
          /\ \A i \in DOMAIN graph' :
                 EventIndex(i, "consumer_execution")' < event' => i <= computed'
        BY <1>1, <1>6 DEF InStep, Computing
    <2>2. ASSUME NEW i \in DOMAIN graph
          PROVE  Written(Value(i))' <=> i < computed \/ (i = computed /\ result' = None)
        <3>1. Value(i) \in Placed
            BY DEF Usable, Produces
        <3>2. Written(Value(i))' <=> Written(Value(i)) \/ Value(i) = d
            BY <1>6, <1>7, <3>1 DEF Written
        <3>3. Written(Value(i)) <=> i < computed \/ (i = computed /\ result = None)
            BY DEF InStep, Computing
        <3>4. CASE d.role = "produced_value"
            <4>1. result' = None /\ result # None /\ d = Value(computed)
                BY <1>1, <1>2, <3>4, ResultAtHand
            <4>2. Value(i) = d => i = computed
                <5>1. Value(i) = d => ~Written(Value(i))
                    BY <1>4 DEF Written
                <5>2. Value(i) = d => ~(i < computed)
                    BY <3>3, <5>1
                <5>3. Value(i) = d => i = computed
                    <6>1. ASSUME Value(i) = d PROVE i = computed
                        <7>1. i \in DOMAIN graph /\ computed \in DOMAIN graph
                            BY <1>2, <3>4, ResultAtHand
                        <7>2. EventIndex(i, "output_produced") =
                                  EventIndex(computed, "output_produced")
                            BY <4>1, <6>1, <7>1 DEF Usable, Produces
                        <7>3. i \in Nat /\ computed \in Nat
                            BY <7>1, GraphShape DEF Usable
                        <7>4. QED
                            BY <7>2, <7>3 DEF EventIndex, Usable
                    <6>2. QED
                        BY <6>1
                <5>4. QED
                    BY <5>3
            <4>3. QED
                BY <3>2, <3>3, <4>1, <4>2
        <3>5. CASE d.role # "produced_value"
            <4>1. result' = result /\ Value(i) # d
                BY <1>1, <3>5 DEF Value, ValueDraft, Draft
            <4>2. QED
                BY <3>2, <3>3, <4>1
        <3>6. QED
            BY <3>4, <3>5
    <2>3. result' # None => computed # 0 /\ result' = Out(computed)
        BY <1>1 DEF InStep, Computing
    <2>4. QED
        BY <1>1, <1>6, <2>1, <2>2, <2>3 DEF Computing, Out
<1>14. QED
    BY <1>1, <1>9, <1>12, <1>13 DEF InStep

\* An execution ends with every operation computed and every terminal value in place.
LEMMA FinishRuns ==
    ASSUME Usable, InStep, Finish
    PROVE  /\ UNCHANGED <<partitioning, placement, scheme, reason, computed>>
           /\ status' = "done" /\ computed = Len(graph)
           /\ outputs' = [t \in Terminals(graph) |-> t]
<1>1. event = GraphEnd /\ \A d \in Placed : d.last \in Nat /\ d.last <= GraphEnd
    BY DEF Finish, Usable, Timely
<1>2. \A d \in Expiring : Active(d)
    BY <1>1, ExpiringActive, LiveActive DEF Expiring
<1>3. \A t \in Terminals(graph) : Active(ValueOf(t)) /\ Content(ValueOf(t)) = t
    BY <1>1, ExpiringActive, LiveActive DEF Usable, Collects
<1>4. \A i \in DOMAIN slots : Released[i].holds = {}
    <2>1. \A i \in DOMAIN slots : \A d \in slots[i].drafts : d \in Placed
        BY DEF Placed
    <2>2. \A i \in DOMAIN slots : \A d \in slots[i].drafts : ~(Live(d) /\ d.last # event)
        BY <1>1, <2>1 DEF Live, InStep, Clock
    <2>3. QED
        BY <2>2, ReleasedHolds
<1>5. /\ outputs' = [t \in Terminals(graph) |-> Content(ValueOf(t))] /\ status' = "done"
      /\ UNCHANGED <<partitioning, placement, scheme, reason, computed>>
    BY <1>2, <1>3, <1>4 DEF Finish
<1>6. computed = Len(graph)
    <2>1. Len(graph) \in Nat \ {0} /\ DOMAIN graph = 1 .. Len(graph) /\ computed \in 0 .. Len(graph)
        BY GraphShape DEF Usable, InStep, Computing
    <2>2. Len(graph) \in Nat \ {0} /\ Len(graph) + 1 \in Nat \ {0} /\ Len(graph) < Len(graph) + 1
        BY <2>1
    <2>3. EventIndex(Len(graph), "consumer_execution") < GraphEnd
        BY <2>2, EventIndexOrder DEF GraphEnd, Usable, Phases
    <2>4. Len(graph) <= computed
        <3>1. Len(graph) \in DOMAIN graph
            BY <2>1
        <3>2. QED
            BY <1>1, <2>3, <3>1 DEF InStep, Computing
    <2>5. Len(graph) \in Nat /\ computed \in Nat /\ computed <= Len(graph)
        BY <2>1
    <2>6. QED
        BY <2>4, <2>5
<1>7. [t \in Terminals(graph) |-> Content(ValueOf(t))] = [t \in Terminals(graph) |-> t]
    BY <1>3
<1>8. QED
    BY <1>5, <1>6, <1>7

-----------------------------------------------------------------------------
(* Admitted plans *)

\* A draft waits or is in one slot.
Apart ==
    \A i \in DOMAIN slots :
        /\ slots[i].drafts \intersect waiting = {}
        /\ \A j \in DOMAIN slots : i # j => slots[i].drafts \intersect slots[j].drafts = {}

\* What is kept of a plan while its drafts are placed.
Laid == stage = "planned" /\ Plannable /\ Placed \union waiting = Drafts /\ Apart

\* A plan that is about to be executed.
Admitted == IInv /\ Planning /\ Laid /\ waiting = {} /\ Admissible

-----------------------------------------------------------------------------
(* The graph and the movements of a plan *)

\* The graph of a plan that can be executed.
LEMMA OneResult ==
    ASSUME graph \in Graphs, Ordered, Ready, NEW i \in DOMAIN graph
    PROVE  /\ Writes(graph[i]) = {Out(i)} /\ Out(i) \in Tensors /\ Out(i) \in Produced(graph)
           /\ Producer(Out(i)) = i
<1>1. graph[i].outputs \in Seq(Tensors) /\ Len(graph[i].outputs) = 1
      /\ DOMAIN graph[i].outputs = {1}
    BY GraphShape DEF Ready
<1>2. Writes(graph[i]) = {Out(i)} /\ Out(i) \in Tensors
    BY <1>1 DEF Writes, Out
<1>3. QED
    BY <1>2, OneProducer

\* A movement of a finished plan is for an operand that its producer comes before.
LEMMA TransferPlanned ==
    ASSUME Planning, stage = "planned", Ordered, NEW e \in plan.transfers
    PROVE  /\ e.target \in DOMAIN graph /\ e.tensor \in InnerReads(e.target)
           /\ e.to = plan.assignments[e.target].domain
<1>1. e \in ExpectedEdges
    BY PlanningFits DEF MovementsFitAssignments
<1>2. PICK p \in Operands : e = Move(p) /\ graph[p[1]].inputs[p[2]] \in Produced(graph)
    BY <1>1 DEF ExpectedEdges
<1>3. p[1] \in DOMAIN graph /\ p[2] \in DOMAIN graph[p[1]].inputs
    BY DEF Operands
<1>4. QED
    BY <1>2, <1>3 DEF Move, InnerReads, Reads

\* So is a conversion of what was produced.
LEMMA ConversionPlanned ==
    ASSUME Planning, stage = "planned", Ordered, NEW c \in plan.conversions, c.source # None
    PROVE  /\ c.target \in DOMAIN graph /\ c.tensor \in InnerReads(c.target)
<1>1. c \in {Relayout(p) : p \in Operands}
    BY PlanningFits DEF MovementsFitAssignments
<1>2. PICK p \in Operands : c = Relayout(p)
    BY <1>1
<1>3. p[1] \in DOMAIN graph /\ p[2] \in DOMAIN graph[p[1]].inputs
    BY DEF Operands
<1>4. LeftBy(c.tensor).producer = c.source
    BY <1>2 DEF Relayout
<1>5. c.tensor \in Produced(graph)
    BY <1>4 DEF LeftBy
<1>6. QED
    BY <1>2, <1>3, <1>5 DEF Relayout, InnerReads, Reads

\* An operand that is not transferred was produced in the domain of its reader.
LEMMA StaysInDomain ==
    ASSUME Planning, stage = "planned", Ordered, NEW i \in DOMAIN graph, NEW t \in InnerReads(i),
           ~Moving(plan.transfers, t, i)
    PROVE  plan.assignments[Producer(t)].domain = plan.assignments[i].domain
<1>1. PICK k \in DOMAIN graph[i].inputs : graph[i].inputs[k] = t
    BY DEF InnerReads, Reads
<1>2. PICK p : p = <<i, k>>
    OBVIOUS
<1>3. p \in Operands /\ p[1] = i /\ p[2] = k
    BY <1>2 DEF Operands
<1>4. t \in Produced(graph) /\ Move(p).tensor = t /\ Move(p).target = i
    BY <1>1, <1>3 DEF InnerReads, Move
<1>5. Move(p) \notin plan.transfers
    BY <1>4 DEF Moving
<1>6. Move(p).from = Move(p).to
    BY <1>1, <1>3, <1>4, <1>5, PlanningFits DEF MovementsFitAssignments, ExpectedEdges
<1>7. QED
    BY <1>1, <1>3, <1>4, <1>6 DEF Move, LeftBy

-----------------------------------------------------------------------------
(* Finding drafts again *)

\* All drafts of an admitted plan are placed, each in one slot.
LEMMA PlacedDrafts ==
    ASSUME Admitted
    PROVE  /\ Placed = Drafts /\ InOneSlot /\ Ordered /\ Ready /\ graph \in Graphs
           /\ scheme \in {"heterogeneous", "allocation"} /\ stage = "planned" /\ Planning
           /\ DOMAIN graph = 1 .. Len(graph) /\ Len(graph) \in Nat
<1>1. Placed = Drafts
    <2>1. Placed \union {} = Drafts
        BY DEF Admitted, Laid
    <2>2. Placed \union {} = Placed
        OBVIOUS
    <2>3. QED
        BY <2>1, <2>2
<1>2. InOneSlot
    <2>1. ASSUME NEW i \in DOMAIN slots, NEW d \in slots[i].drafts PROVE SlotOf(d) = i
        <3>1. \A j \in DOMAIN slots : d \in slots[j].drafts => j = i
            <4>1. \A j \in DOMAIN slots : i # j => slots[i].drafts \intersect slots[j].drafts = {}
                BY DEF Admitted, Laid, Apart
            <4>2. QED
                BY <4>1
        <3>2. QED
            BY <3>1 DEF SlotOf
    <2>2. QED
        BY <2>1 DEF InOneSlot
<1>3. QED
    BY <1>1, <1>2, GraphShape DEF Admitted, Laid, Plannable, IInv

\* A draft is found again by its role, its tensor and the operation it is for.
LEMMA DraftKinds ==
    ASSUME NEW d \in Drafts
    PROVE  /\ d.role = "produced_value" => d.tensor \in Produced(graph) /\ d = ValueDraft(d.tensor)
           /\ d.role = "layout_staging" =>
                  \E c \in plan.conversions : /\ d = ConversionDraft(c)
                                              /\ c.tensor = d.tensor /\ c.target = d.target
           /\ d.role = "transfer_target_staging" =>
                  \E e \in plan.transfers : /\ d = TransferDraft(e)
                                            /\ e.tensor = d.tensor /\ e.target = d.target
           /\ d.role \in {"produced_value", "layout_staging", "transfer_target_staging"}
           /\ d.key[1] = d.role
<1>1. CASE \E t \in Produced(graph) : d = ValueDraft(t)
    <2>1. PICK t \in Produced(graph) : d = ValueDraft(t)
        BY <1>1
    <2>2. d.role = "produced_value" /\ d.tensor = t /\ d.key[1] = d.role
        BY <2>1 DEF ValueDraft, Draft
    <2>3. QED
        BY <2>1, <2>2
<1>2. CASE \E c \in plan.conversions : d = ConversionDraft(c)
    <2>1. PICK c \in plan.conversions : d = ConversionDraft(c)
        BY <1>2
    <2>2. /\ d.role = "layout_staging" /\ d.tensor = c.tensor /\ d.target = c.target
          /\ d.key[1] = d.role
        BY <2>1 DEF ConversionDraft, Draft
    <2>3. QED
        BY <2>1, <2>2
<1>3. CASE \E e \in plan.transfers : d = TransferDraft(e)
    <2>1. PICK e \in plan.transfers : d = TransferDraft(e)
        BY <1>3
    <2>2. /\ d.role = "transfer_target_staging" /\ d.tensor = e.tensor /\ d.target = e.target
          /\ d.key[1] = d.role
        BY <2>1 DEF TransferDraft, Draft
    <2>3. QED
        BY <2>1, <2>2
<1>4. QED
    BY <1>1, <1>2, <1>3 DEF Drafts

\* A value is found by its tensor.
LEMMA ValueFound ==
    ASSUME Placed = Drafts, NEW t \in Produced(graph)
    PROVE  ValueOf(t) = ValueDraft(t) /\ ValueDraft(t) \in Placed /\ ValueDraft(t).tensor = t
<1>1. ValueDraft(t) \in Placed /\ ValueDraft(t).role = "produced_value" /\ ValueDraft(t).tensor = t
    BY DEF Drafts, ValueDraft, Draft
<1>2. \A d \in Placed : d.role = "produced_value" /\ d.tensor = t => d = ValueDraft(t)
    BY DraftKinds
<1>3. QED
    BY <1>1, <1>2 DEF ValueOf

\* Drafts of different roles are in different slots.
LEMMA RolesApart ==
    ASSUME Admitted, NEW d \in Placed, NEW e \in Placed, d.role # e.role
    PROVE  SlotOf(d) # SlotOf(e)
<1>1. /\ SlotOf(d) \in DOMAIN slots /\ d \in slots[SlotOf(d)].drafts
      /\ SlotOf(e) \in DOMAIN slots /\ e \in slots[SlotOf(e)].drafts
    BY PlacedDrafts DEF Placed, InOneSlot
<1>2. SharersDisjoint
    BY DEF Admitted, IInv, Placing, Grouped
<1>3. d.key = slots[SlotOf(d)].key /\ e.key = slots[SlotOf(e)].key
    BY <1>1, <1>2 DEF SharersDisjoint
<1>4. d.key[1] # e.key[1]
    BY DraftKinds, PlacedDrafts
<1>5. QED
    BY <1>3, <1>4

-----------------------------------------------------------------------------
(* Operands and movements of an admitted plan *)

\* Where the operand t of i is found: what is moved is found where it was moved to.
LEMMA OperandFound ==
    ASSUME Placed = Drafts, NEW i \in DOMAIN graph, NEW t \in InnerReads(i)
    PROVE  /\ Moving(plan.transfers, t, i) =>
                  \E e \in plan.transfers : /\ e.tensor = t /\ e.target = i
                                            /\ OperandDraft(t, i) = TransferDraft(e)
           /\ ~Moving(plan.transfers, t, i) /\ Moving(plan.conversions, t, i) =>
                  \E c \in plan.conversions : /\ c.tensor = t /\ c.target = i
                                              /\ OperandDraft(t, i) = ConversionDraft(c)
           /\ ~Moving(plan.transfers, t, i) /\ ~Moving(plan.conversions, t, i) =>
                  OperandDraft(t, i) = ValueDraft(t)
           /\ OperandDraft(t, i) \in Placed
<1>1. CASE Moving(plan.transfers, t, i)
    <2>1. PICK e \in plan.transfers : e.tensor = t /\ e.target = i
        BY <1>1 DEF Moving
    <2>2. /\ TransferDraft(e) \in Placed /\ TransferDraft(e).role = "transfer_target_staging"
          /\ TransferDraft(e).tensor = t /\ TransferDraft(e).target = i
        BY <2>1 DEF Drafts, TransferDraft, Draft
    <2>3. OperandDraft(t, i) = CHOOSE d \in Placed :
              d.role = "transfer_target_staging" /\ d.tensor = t /\ d.target = i
        BY <1>1 DEF OperandDraft
    <2>4. /\ OperandDraft(t, i) \in Placed /\ OperandDraft(t, i).role = "transfer_target_staging"
          /\ OperandDraft(t, i).tensor = t /\ OperandDraft(t, i).target = i
        BY <2>2, <2>3
    <2>5. QED
        BY <1>1, <2>4, DraftKinds
<1>2. CASE ~Moving(plan.transfers, t, i) /\ Moving(plan.conversions, t, i)
    <2>1. PICK c \in plan.conversions : c.tensor = t /\ c.target = i
        BY <1>2 DEF Moving
    <2>2. /\ ConversionDraft(c) \in Placed /\ ConversionDraft(c).role = "layout_staging"
          /\ ConversionDraft(c).tensor = t /\ ConversionDraft(c).target = i
        BY <2>1 DEF Drafts, ConversionDraft, Draft
    <2>3. OperandDraft(t, i) = CHOOSE d \in Placed :
              d.role = "layout_staging" /\ d.tensor = t /\ d.target = i
        BY <1>2 DEF OperandDraft
    <2>4. /\ OperandDraft(t, i) \in Placed /\ OperandDraft(t, i).role = "layout_staging"
          /\ OperandDraft(t, i).tensor = t /\ OperandDraft(t, i).target = i
        BY <2>2, <2>3
    <2>5. QED
        BY <1>2, <2>4, DraftKinds
<1>3. CASE ~Moving(plan.transfers, t, i) /\ ~Moving(plan.conversions, t, i)
    <2>1. t \in Produced(graph)
        BY DEF InnerReads
    <2>2. ValueDraft(t) \in Placed /\ ValueDraft(t).role = "produced_value"
          /\ ValueDraft(t).tensor = t /\ ValueDraft(t).target = None
        BY <2>1 DEF Drafts, ValueDraft, Draft
    <2>3. OperandDraft(t, i) = CHOOSE d \in Placed :
              d.role = "produced_value" /\ d.tensor = t /\ d.target = None
        BY <1>3 DEF OperandDraft
    <2>4. /\ OperandDraft(t, i) \in Placed /\ OperandDraft(t, i).role = "produced_value"
          /\ OperandDraft(t, i).tensor = t
        BY <2>2, <2>3
    <2>5. QED
        BY <1>3, <2>4, DraftKinds
<1>4. QED
    BY <1>1, <1>2, <1>3

\* What is left of the checks: a conversion is from tiles to rows, before a transfer of rows.
LEMMA ConversionAdmitted ==
    ASSUME Admitted, NEW c \in plan.conversions
    PROVE  /\ scheme = "heterogeneous"
           /\ c.target \in DOMAIN graph /\ c.tensor \in InnerReads(c.target)
           /\ plan.assignments[c.source] = plan.assignments[Producer(c.tensor)]
           /\ plan.assignments[c.source].layout = "blocked" /\ c.targetLayout = "row_major"
<1>1. scheme = "heterogeneous" /\ Staged
    BY PlacedDrafts DEF Admitted, Laid, Plannable
<1>2. Convertible(c)
    BY <1>1 DEF Admitted, Admissible
<1>3. c.source # None /\ LeavesSource(c)
    BY <1>1 DEF Staged
<1>4. c.target \in DOMAIN graph /\ c.tensor \in InnerReads(c.target)
    BY <1>3, PlacedDrafts, ConversionPlanned
<1>5. QED
    BY <1>1, <1>2, <1>3, <1>4 DEF Convertible, LeavesSource

\* A transfer is of rows, from the producer or from a conversion.
LEMMA TransferAdmitted ==
    ASSUME Admitted, NEW e \in plan.transfers
    PROVE  /\ scheme = "heterogeneous"
           /\ e.target \in DOMAIN graph /\ e.tensor \in InnerReads(e.target)
           /\ e.to = plan.assignments[e.target].domain /\ e.targetLayout = "row_major"
           /\ ~Moving(plan.conversions, e.tensor, e.target) =>
                  plan.assignments[Producer(e.tensor)].layout = "row_major"
<1>1. scheme = "heterogeneous" /\ Staged
    BY PlacedDrafts DEF Admitted, Laid, Plannable
<1>2. /\ e.target \in DOMAIN graph /\ e.tensor \in InnerReads(e.target)
      /\ e.to = plan.assignments[e.target].domain
    BY PlacedDrafts, TransferPlanned
<1>3. Moving(plan.transfers, e.tensor, e.target)
    BY DEF Moving
<1>4. PICK f \in plan.transfers : /\ f.tensor = e.tensor /\ f.target = e.target
                                  /\ OperandDraft(e.tensor, e.target) = TransferDraft(f)
    BY <1>2, <1>3, PlacedDrafts, OperandFound
<1>5. f = e
    BY <1>1, <1>4 DEF Staged, OnePerOperand
<1>6. e.targetLayout = "row_major"
    <2>1. ConsumersRowMajor
        BY <1>1 DEF Admitted, Admissible
    <2>2. OperandDraft(e.tensor, e.target).layout = "row_major"
        BY <1>2, <2>1 DEF ConsumersRowMajor
    <2>3. QED
        BY <1>4, <1>5, <2>2 DEF TransferDraft, Draft
<1>7. ASSUME ~Moving(plan.conversions, e.tensor, e.target)
      PROVE  plan.assignments[Producer(e.tensor)].layout = "row_major"
    <2>1. {c \in plan.conversions : c.target = e.target /\ c.tensor = e.tensor} = {}
        BY <1>7 DEF Moving
    <2>2. LeavesSource(e) /\ ConvertedAlong(e)
        BY <1>1 DEF Staged
    <2>3. e.sourceLayout = e.targetLayout
        BY <2>1, <2>2 DEF ConvertedAlong
    <2>4. QED
        BY <1>6, <2>2, <2>3 DEF LeavesSource
<1>8. QED
    BY <1>1, <1>2, <1>6, <1>7

-----------------------------------------------------------------------------
(* An admitted plan is usable *)

\* The parts of Usable, one by one: values,
LEMMA AdmittedProduces == ASSUME Admitted PROVE Produces
<1>1. ASSUME NEW i \in DOMAIN graph
      PROVE  /\ Value(i) \in Placed /\ Value(i).tensor = Out(i)
             /\ Value(i).first = EventIndex(i, "output_produced") /\ Out(i) \in Tensors
    <2>1. Out(i) \in Tensors /\ Out(i) \in Produced(graph) /\ Producer(Out(i)) = i
        BY PlacedDrafts, OneResult
    <2>2. ValueDraft(Out(i)).first = EventIndex(Producer(Out(i)), "output_produced")
        BY DEF ValueDraft, Draft
    <2>3. QED
        BY <2>1, <2>2, PlacedDrafts, ValueFound DEF Value
<1>2. ASSUME NEW d \in Placed, d.role = "produced_value" PROVE \E i \in DOMAIN graph : d = Value(i)
    <2>1. d.tensor \in Produced(graph) /\ d = ValueDraft(d.tensor)
        BY <1>2, PlacedDrafts, DraftKinds
    <2>2. PICK i \in DOMAIN graph : d.tensor \in Writes(graph[i])
        BY <2>1 DEF Produced
    <2>3. d.tensor = Out(i)
        BY <2>2, PlacedDrafts, OneResult
    <2>4. QED
        BY <2>1, <2>3 DEF Value
<1>3. QED
    BY <1>1, <1>2 DEF Produces

\* moments,
LEMMA AdmittedTimely == ASSUME Admitted PROVE Timely
<1>1. Proper(Placed)
    BY PlacedDrafts, DraftsProper DEF Admitted, IInv
<1>2. /\ Len(graph) + 1 \in Nat \ {0} /\ GraphEnd \in Nat
      /\ \A i \in DOMAIN graph : i \in Nat \ {0} /\ i < Len(graph) + 1
    <2>1. /\ Len(graph) + 1 \in Nat \ {0}
          /\ \A i \in DOMAIN graph : i \in Nat \ {0} /\ i < Len(graph) + 1
        BY PlacedDrafts
    <2>2. QED
        BY <2>1, PlacedDrafts, PhaseOrder DEF GraphEnd
<1>3. \A i \in DOMAIN graph, p \in Phases : EventIndex(i, p) \in Nat /\ EventIndex(i, p) < GraphEnd
    <2>1. "layout_conversion" \in Phases
        BY DEF Phases
    <2>2. QED
        BY <1>2, <2>1, PlacedDrafts, EventIndexOrder DEF GraphEnd
<1>4. ASSUME NEW d \in Placed PROVE d.first < GraphEnd /\ d.last <= GraphEnd
    <2>1. CASE d.role = "produced_value"
        <3>1. d.tensor \in Produced(graph) /\ d = ValueDraft(d.tensor)
            BY <2>1, PlacedDrafts, DraftKinds
        <3>2. PICK i \in DOMAIN graph : d = Value(i)
            BY <2>1, AdmittedProduces DEF Produces
        <3>3. d.first = EventIndex(i, "output_produced")
            BY <3>2, AdmittedProduces DEF Produces
        <3>4. d.last = LastUse(d.tensor)
            BY <3>1 DEF ValueDraft, Draft
        <3>5. LastUse(d.tensor) <= GraphEnd
            BY <3>1, PlacedDrafts, KeptForReaders
        <3>6. QED
            BY <1>3, <3>3, <3>4, <3>5 DEF Phases
    <2>2. CASE d.role = "layout_staging"
        <3>1. PICK c \in plan.conversions : d = ConversionDraft(c)
            BY <2>2, PlacedDrafts, DraftKinds
        <3>2. c.target \in DOMAIN graph
            BY ConversionAdmitted
        <3>3. PICK p \in Phases : d.last = EventIndex(c.target, p)
            BY <3>1 DEF ConversionDraft, Draft, Phases
        <3>4. d.first = EventIndex(c.target, "layout_conversion")
            BY <3>1 DEF ConversionDraft, Draft
        <3>5. d.first < GraphEnd /\ d.last < GraphEnd /\ d.last \in Nat
            BY <1>3, <3>2, <3>3, <3>4 DEF Phases
        <3>6. QED
            BY <1>2, <3>5
    <2>3. CASE d.role = "transfer_target_staging"
        <3>1. PICK e \in plan.transfers : d = TransferDraft(e)
            BY <2>3, PlacedDrafts, DraftKinds
        <3>2. e.target \in DOMAIN graph
            BY TransferAdmitted
        <3>3. /\ d.first = EventIndex(e.target, "transfer")
              /\ d.last = EventIndex(e.target, "consumer_execution")
            BY <3>1 DEF TransferDraft, Draft
        <3>4. d.first < GraphEnd /\ d.last < GraphEnd /\ d.last \in Nat
            BY <1>3, <3>2, <3>3 DEF Phases
        <3>5. QED
            BY <1>2, <3>4
    <2>4. QED
        BY <2>1, <2>2, <2>3, PlacedDrafts, DraftKinds
<1>5. QED
    BY <1>1, <1>4 DEF Proper, Timely

\* A value is produced before, and kept until, the first movement or the operation that reads it.
LEMMA ValueKept ==
    ASSUME Admitted, NEW i \in DOMAIN graph, NEW t \in InnerReads(i)
    PROVE  /\ ValueDraft(t) \in Placed /\ ValueDraft(t).tensor = t /\ ValueOf(t) = ValueDraft(t)
           /\ ValueDraft(t).role = "produced_value"
           /\ ValueDraft(t).domain = plan.assignments[Producer(t)].domain
           /\ ValueDraft(t).layout = plan.assignments[Producer(t)].layout
           /\ \A p \in Phases : ValueDraft(t).first < EventIndex(i, p)
           /\ UseEvent(t, i) <= ValueDraft(t).last
<1>1. t \in Produced(graph) /\ t \in Reads(graph[i])
    BY DEF InnerReads
<1>2. Producer(t) \in DOMAIN graph /\ Producer(t) < i
    BY <1>1, PlacedDrafts, ProducedBefore
<1>3. Producer(t) \in Nat \ {0} /\ i \in Nat \ {0}
    BY <1>2, PlacedDrafts
<1>4. /\ ValueDraft(t).first = EventIndex(Producer(t), "output_produced")
      /\ ValueDraft(t).last = LastUse(t) /\ ValueDraft(t).role = "produced_value"
      /\ ValueDraft(t).domain = plan.assignments[Producer(t)].domain
      /\ ValueDraft(t).layout = plan.assignments[Producer(t)].layout
    BY DEF ValueDraft, Draft
<1>5. \A p \in Phases : ValueDraft(t).first < EventIndex(i, p)
    <2>1. "output_produced" \in Phases
        BY DEF Phases
    <2>2. QED
        BY <1>2, <1>3, <1>4, <2>1, PlacedDrafts, EventIndexOrder
<1>6. UseEvent(t, i) <= ValueDraft(t).last
    BY <1>1, <1>4, PlacedDrafts, KeptForReaders
<1>7. QED
    BY <1>1, <1>4, <1>5, <1>6, PlacedDrafts, ValueFound

\* The moments of one operation, in the scheme that has more than one.
LEMMA PhasesApart ==
    ASSUME scheme = "heterogeneous", NEW i \in Nat \ {0}
    PROVE  /\ EventIndex(i, "layout_conversion") < EventIndex(i, "transfer")
           /\ EventIndex(i, "layout_conversion") < EventIndex(i, "consumer_execution")
           /\ EventIndex(i, "transfer") < EventIndex(i, "consumer_execution")
BY DEF EventIndex

\* copies,
LEMMA AdmittedCopies == ASSUME Admitted PROVE Copies
<1> SUFFICES ASSUME NEW d \in Placed, d.role # "produced_value"
             PROVE  CopyFor(d, SourceDraft(d))
    BY DEF Copies
<1>1. \A x \in Placed : x.role # d.role => SlotOf(x) # SlotOf(d)
    BY RolesApart
<1>2. CASE d.role = "layout_staging"
    <2>1. PICK c \in plan.conversions : /\ d = ConversionDraft(c)
                                        /\ c.tensor = d.tensor /\ c.target = d.target
        BY <1>2, PlacedDrafts, DraftKinds
    <2>2. SourceDraft(d) = ValueOf(d.tensor)
        BY <1>2 DEF SourceDraft
    <2>3. c.target \in DOMAIN graph /\ c.tensor \in InnerReads(c.target)
        BY ConversionAdmitted
    <2>4. UseEvent(c.tensor, c.target) = EventIndex(c.target, "layout_conversion")
        BY DEF UseEvent, Moving
    <2>5. d.first = EventIndex(c.target, "layout_conversion") /\ d.layout = c.targetLayout
        BY <2>1 DEF ConversionDraft, Draft
    <2>6. "layout_conversion" \in Phases
        BY DEF Phases
    <2>7. /\ ValueDraft(c.tensor) \in Placed /\ ValueDraft(c.tensor).tensor = c.tensor
          /\ ValueOf(c.tensor) = ValueDraft(c.tensor)
          /\ ValueDraft(c.tensor).role = "produced_value"
          /\ ValueDraft(c.tensor).layout = plan.assignments[Producer(c.tensor)].layout
          /\ ValueDraft(c.tensor).first < d.first /\ d.first <= ValueDraft(c.tensor).last
        BY <2>3, <2>4, <2>5, <2>6, ValueKept
    <2>8. d.layout = "row_major" /\ ValueDraft(c.tensor).layout = "blocked"
        BY <2>5, <2>7, ConversionAdmitted
    <2>9. SlotOf(ValueDraft(c.tensor)) # SlotOf(d)
        BY <1>1, <1>2, <2>7
    <2>10. QED
        BY <1>2, <2>1, <2>2, <2>7, <2>8, <2>9 DEF CopyFor
<1>3. CASE d.role = "transfer_target_staging"
    <2>1. PICK e \in plan.transfers : /\ d = TransferDraft(e)
                                      /\ e.tensor = d.tensor /\ e.target = d.target
        BY <1>3, PlacedDrafts, DraftKinds
    <2>2. e.target \in DOMAIN graph /\ e.tensor \in InnerReads(e.target) /\ scheme = "heterogeneous"
        BY TransferAdmitted
    <2>3. d.first = EventIndex(e.target, "transfer") /\ d.layout = "row_major"
        <3>1. d.first = EventIndex(e.target, "transfer") /\ d.layout = e.targetLayout
            BY <2>1 DEF TransferDraft, Draft
        <3>2. QED
            BY <3>1, TransferAdmitted
    <2>4. e.target \in Nat \ {0}
        BY <2>2, PlacedDrafts
    <2>5. CASE Moving(plan.conversions, e.tensor, e.target)
        <3>1. PICK b \in plan.conversions : b.tensor = e.tensor /\ b.target = e.target
            BY <2>5 DEF Moving
        <3>2. /\ ConversionDraft(b) \in Placed /\ ConversionDraft(b).role = "layout_staging"
              /\ ConversionDraft(b).tensor = d.tensor /\ ConversionDraft(b).target = d.target
            BY <2>1, <3>1, PlacedDrafts DEF Drafts, ConversionDraft, Draft
        <3>3. SourceDraft(d) = CHOOSE x \in Placed :
                  x.role = "layout_staging" /\ x.tensor = d.tensor /\ x.target = d.target
            BY <1>3, <2>1, <2>5 DEF SourceDraft
        <3>4. /\ SourceDraft(d) \in Placed /\ SourceDraft(d).role = "layout_staging"
              /\ SourceDraft(d).tensor = d.tensor /\ SourceDraft(d).target = d.target
            BY <3>2, <3>3
        <3>5. PICK c \in plan.conversions : /\ SourceDraft(d) = ConversionDraft(c)
                                            /\ c.tensor = d.tensor /\ c.target = d.target
            BY <3>4, PlacedDrafts, DraftKinds
        <3>6. Moving(plan.transfers, c.tensor, c.target) /\ c.target = e.target
            BY <2>1, <3>5 DEF Moving
        <3>7. /\ ConversionDraft(c).first = EventIndex(c.target, "layout_conversion")
              /\ ConversionDraft(c).last = EventIndex(c.target, "transfer")
              /\ ConversionDraft(c).layout = c.targetLayout
            BY <3>6 DEF ConversionDraft, Draft
        <3>8. SourceDraft(d).first < d.first /\ d.first <= SourceDraft(d).last
            <4>1. SourceDraft(d).last = d.first
                BY <2>3, <3>5, <3>6, <3>7
            <4>2. EventIndex(e.target, "layout_conversion") < EventIndex(e.target, "transfer")
                BY <2>2, <2>4, PhasesApart
            <4>3. d.first \in Nat
                BY AdmittedTimely DEF Timely
            <4>4. d.first <= d.first
                BY <4>3
            <4>5. QED
                BY <2>3, <3>5, <3>6, <3>7, <4>1, <4>2, <4>4
        <3>9. SourceDraft(d).layout = "row_major"
            BY <3>5, <3>7, ConversionAdmitted
        <3>10. SlotOf(SourceDraft(d)) # SlotOf(d)
            BY <1>1, <1>3, <3>4
        <3>11. QED
            BY <1>3, <2>3, <3>4, <3>8, <3>9, <3>10 DEF CopyFor
    <2>6. CASE ~Moving(plan.conversions, e.tensor, e.target)
        <3>1. SourceDraft(d) = ValueOf(d.tensor)
            BY <2>1, <2>6 DEF SourceDraft
        <3>2. UseEvent(e.tensor, e.target) = EventIndex(e.target, "transfer")
            BY <2>6 DEF UseEvent, Moving
        <3>3. "transfer" \in Phases
            BY DEF Phases
        <3>4. /\ ValueDraft(e.tensor) \in Placed /\ ValueDraft(e.tensor).tensor = e.tensor
              /\ ValueOf(e.tensor) = ValueDraft(e.tensor)
              /\ ValueDraft(e.tensor).role = "produced_value"
              /\ ValueDraft(e.tensor).layout = plan.assignments[Producer(e.tensor)].layout
              /\ ValueDraft(e.tensor).first < d.first /\ d.first <= ValueDraft(e.tensor).last
            BY <2>2, <2>3, <3>2, <3>3, ValueKept
        <3>5. ValueDraft(e.tensor).layout = "row_major"
            BY <2>6, <3>4, TransferAdmitted
        <3>6. SlotOf(ValueDraft(e.tensor)) # SlotOf(d)
            BY <1>1, <1>3, <3>4
        <3>7. QED
            BY <1>3, <2>1, <2>3, <3>1, <3>4, <3>5, <3>6 DEF CopyFor
    <2>7. QED
        BY <2>5, <2>6
<1>4. QED
    BY <1>2, <1>3, PlacedDrafts, DraftKinds

\* operands,
LEMMA AdmittedFeeds == ASSUME Admitted PROVE Feeds
<1> SUFFICES ASSUME NEW i \in DOMAIN graph, NEW t \in InnerReads(i)
             PROVE  OperandFor(i, t, OperandDraft(t, i))
    BY DEF Feeds
<1> DEFINE o == OperandDraft(t, i)
           now == EventIndex(i, "consumer_execution")
<1>1. o \in Placed /\ now \in Nat /\ i \in Nat \ {0}
    <2>1. i \in Nat \ {0}
        BY PlacedDrafts
    <2>2. QED
        BY <2>1, PlacedDrafts, OperandFound, PhaseOrder
<1>2. now <= now
    BY <1>1
<1>3. CASE Moving(plan.transfers, t, i)
    <2>1. PICK e \in plan.transfers : e.tensor = t /\ e.target = i /\ o = TransferDraft(e)
        BY <1>3, PlacedDrafts, OperandFound
    <2>2. /\ o.tensor = t /\ o.domain = e.to /\ o.last = now
          /\ o.first = EventIndex(i, "transfer")
        BY <2>1 DEF TransferDraft, Draft
    <2>3. o.domain = plan.assignments[i].domain /\ o.first < now
        BY <1>1, <2>1, <2>2, TransferAdmitted, PhasesApart
    <2>4. QED
        BY <1>1, <1>2, <2>2, <2>3 DEF OperandFor
<1>4. CASE ~Moving(plan.transfers, t, i) /\ Moving(plan.conversions, t, i)
    <2>1. PICK c \in plan.conversions : c.tensor = t /\ c.target = i /\ o = ConversionDraft(c)
        BY <1>4, PlacedDrafts, OperandFound
    <2>2. /\ o.tensor = t /\ o.domain = plan.assignments[c.source].domain /\ o.last = now
          /\ o.first = EventIndex(i, "layout_conversion")
        BY <1>4, <2>1 DEF ConversionDraft, Draft
    <2>3. o.first < now /\ plan.assignments[c.source] = plan.assignments[Producer(t)]
        BY <1>1, <2>1, <2>2, ConversionAdmitted, PhasesApart
    <2>4. o.domain = plan.assignments[i].domain
        BY <1>4, <2>2, <2>3, PlacedDrafts, StaysInDomain
    <2>5. QED
        BY <1>1, <1>2, <2>2, <2>3, <2>4 DEF OperandFor
<1>5. CASE ~Moving(plan.transfers, t, i) /\ ~Moving(plan.conversions, t, i)
    <2>1. o = ValueDraft(t)
        BY <1>5, PlacedDrafts, OperandFound
    <2>2. UseEvent(t, i) = now
        BY <1>5 DEF UseEvent
    <2>3. "consumer_execution" \in Phases
        BY DEF Phases
    <2>4. o.tensor = t /\ o.first < now /\ now <= o.last
        BY <2>1, <2>2, <2>3, ValueKept
    <2>5. o.domain = plan.assignments[i].domain
        BY <1>5, <2>1, PlacedDrafts, StaysInDomain, ValueKept
    <2>6. QED
        BY <1>1, <2>4, <2>5 DEF OperandFor
<1>6. QED
    BY <1>3, <1>4, <1>5

\* and terminal values.
LEMMA AdmittedCollects == ASSUME Admitted PROVE Collects
<1> SUFFICES ASSUME NEW t \in Terminals(graph)
             PROVE  ValueOf(t) \in Placed /\ ValueOf(t).tensor = t /\ ValueOf(t).last = GraphEnd
    BY DEF Collects
<1>1. t \in Produced(graph) /\ t \notin Consumed(graph)
    BY DEF Terminals
<1>2. ValueOf(t) = ValueDraft(t) /\ ValueDraft(t) \in Placed /\ ValueDraft(t).tensor = t
    BY <1>1, PlacedDrafts, ValueFound
<1>3. LastUse(t) = GraphEnd
    BY <1>1, PlacedDrafts, KeptForReaders
<1>4. QED
    BY <1>2, <1>3 DEF ValueDraft, Draft

\* An admitted plan can be executed to its end.
LEMMA AdmittedUsable == ASSUME Admitted PROVE Usable
<1>1. SharersDisjoint
    BY DEF Admitted, IInv, Placing, Grouped
<1>2. QED
    BY <1>1, PlacedDrafts, AdmittedTimely, AdmittedProduces, AdmittedCopies, AdmittedFeeds,
       AdmittedCollects DEF Usable

-----------------------------------------------------------------------------
(* Every state of an execution *)

\* Before a plan is admitted nothing runs; what is admitted stays fit to run.
Executing ==
    /\ IInv /\ Planning
    /\ status # "waiting" => stage = "planned"
    /\ status \in {"waiting", "placing"} => computed = 0 /\ result = None
    /\ status = "placing" => Laid
    /\ status = "running" => Usable /\ InStep
    /\ reason \in {"none", "not finite"}

\* Nothing runs before a plan is made.
LEMMA InitExecuting == Init => Executing
<1> SUFFICES ASSUME Init PROVE Executing
    OBVIOUS
<1>1. status = "waiting" /\ computed = 0 /\ result = None /\ reason = "none" /\ PartitioningInit
    BY DEF Init
<1>2. QED
    BY <1>1, InitIInv, InitPlanning DEF Executing

\* Placing a draft moves it into one slot, which no other draft leaves.
LEMMA PlacingLays ==
    ASSUME NEW D, slots \in Seq(SlotsOf(D)), PlaceNext, Apart
    PROVE  Placed' \union waiting' = Placed \union waiting /\ Apart'
<1>1. PICK d \in waiting : Place(d) /\ waiting' = waiting \ {d}
    BY DEF PlaceNext
<1>2. DOMAIN slots = 1 .. Len(slots) /\ Len(slots) \in Nat
    OBVIOUS
<1>3. \A i \in DOMAIN slots : d \notin slots[i].drafts
    BY DEF Apart
<1>4. PICK k : /\ DOMAIN slots' = DOMAIN slots \union {k}
               /\ \A i \in DOMAIN slots : i # k => slots'[i] = slots[i]
               /\ k \in DOMAIN slots => slots'[k].drafts = slots[k].drafts \union {d}
               /\ k \notin DOMAIN slots => slots'[k].drafts = {d}
    <2>1. CASE slots' = Append(slots, [key |-> d.key, last |-> d.last, drafts |-> {d}])
        <3>1. /\ DOMAIN slots' = DOMAIN slots \union {Len(slots) + 1}
              /\ \A i \in DOMAIN slots : slots'[i] = slots[i] /\ i # Len(slots) + 1
              /\ slots'[Len(slots) + 1].drafts = {d}
            BY <1>2, <2>1
        <3>2. QED
            BY <3>1
    <2>2. CASE \E i \in DOMAIN slots :
                   slots' = [slots EXCEPT ![i] = [key |-> d.key, last |-> d.last,
                                                  drafts |-> slots[i].drafts \union {d}]]
        <3>1. PICK k \in DOMAIN slots :
                   slots' = [slots EXCEPT ![k] = [key |-> d.key, last |-> d.last,
                                                  drafts |-> slots[k].drafts \union {d}]]
            BY <2>2
        <3>2. /\ DOMAIN slots' = DOMAIN slots \union {k}
              /\ \A i \in DOMAIN slots : i # k => slots'[i] = slots[i]
              /\ slots'[k].drafts = slots[k].drafts \union {d}
            BY <3>1
        <3>3. QED
            BY <3>2
    <2>3. QED
        BY <1>1, <2>1, <2>2 DEF Place
<1>5. Placed' = Placed \union {d}
    <2>1. \A x : x \in Placed' <=> \E i \in DOMAIN slots' : x \in slots'[i].drafts
        BY DEF Placed
    <2>2. \A x : x \in Placed <=> \E i \in DOMAIN slots : x \in slots[i].drafts
        BY DEF Placed
    <2>3. \A x : x \in Placed' <=> x \in Placed \/ x = d
        BY <1>4, <2>1, <2>2
    <2>4. QED
        BY <2>3
<1>6. Apart'
    <2>1. ASSUME NEW i \in DOMAIN slots' PROVE slots'[i].drafts \intersect waiting' = {}
        BY <1>1, <1>4 DEF Apart
    <2>2. ASSUME NEW i \in DOMAIN slots', NEW j \in DOMAIN slots', i # j
          PROVE  slots'[i].drafts \intersect slots'[j].drafts = {}
        BY <1>3, <1>4, <2>2 DEF Apart
    <2>3. QED
        BY <2>1, <2>2 DEF Apart
<1>7. QED
    BY <1>1, <1>5, <1>6

\* Into empty slots the first moment can be begun.
LEMMA AdmitRuns ==
    ASSUME Executing, Admit, Admissible
    PROVE  Usable' /\ InStep' /\ status' = "running"
<1>1. /\ status' = "running" /\ event' = 0 /\ todo' = {d \in Placed : d.first = 0}
      /\ arena' = [i \in DOMAIN slots |->
                      [holds |-> {}, value |-> Garbage, imprint |-> {Garbage}]]
      /\ UNCHANGED <<partitioning, placement, scheme, reason, result, computed, outputs>>
    BY DEF Admit, Begin
<1>2. Usable /\ computed = 0 /\ result = None
    BY AdmittedUsable DEF Admit, Executing, Admitted
<1>3. /\ \A i : Value(i)' = Value(i)
      /\ Placed' = Placed /\ GraphEnd' = GraphEnd
      /\ \A i, p : EventIndex(i, p)' = EventIndex(i, p)
      /\ slots' = slots /\ graph' = graph
    BY <1>1, FrozenPlaces, FrozenEvents DEF Frozen, partitioning, placement
<1>4. Usable'
    BY <1>1, <1>2, FrozenUsable DEF Frozen
<1>5. \A d \in Placed : ~Written(d)'
    <2>1. \A d \in Placed : d.first \in Nat
        BY <1>2 DEF Usable, Timely
    <2>2. QED
        BY <1>1, <2>1 DEF Written
<1>6. GraphEnd \in Nat /\ DOMAIN graph = 1 .. Len(graph) /\ Len(graph) \in Nat
    <2>1. DOMAIN graph = 1 .. Len(graph) /\ Len(graph) \in Nat /\ Len(graph) + 1 \in Nat \ {0}
        BY <1>2, GraphShape DEF Usable
    <2>2. QED
        BY <1>2, <2>1, PhaseOrder DEF GraphEnd, Usable
<1>7. Clock'
    BY <1>1, <1>3, <1>6 DEF Clock
<1>8. Holding'
    <2>1. \A i \in DOMAIN slots : \A d \in slots[i].drafts : d \in Placed
        BY DEF Placed
    <2>2. Contents' = Contents
        BY <1>3 DEF Contents
    <2>3. [holds |-> {}, value |-> Garbage, imprint |-> {Garbage}] \in Contents
        BY DEF Contents
    <2>4. arena' \in [DOMAIN slots' -> Contents']
        BY <1>1, <1>3, <2>2, <2>3
    <2>5. \A i \in DOMAIN slots' : arena'[i].holds = {d \in slots'[i].drafts : Live(d)'}
        BY <1>1, <1>3, <1>5, <2>1 DEF Live
    <2>6. \A d \in Placed : ~Live(d)'
        BY <1>5 DEF Live
    <2>7. QED
        BY <1>3, <2>4, <2>5, <2>6 DEF Holding
<1>9. Computing'
    <2>1. \A i \in DOMAIN graph : i \in Nat \ {0} /\ EventIndex(i, "consumer_execution") \in Nat
        <3>1. \A i \in DOMAIN graph : i \in Nat \ {0}
            BY <1>6
        <3>2. QED
            BY <1>2, <3>1, PhaseOrder DEF Usable
    <2>2. \A i \in DOMAIN graph : ~Written(Value(i))'
        BY <1>2, <1>3, <1>5 DEF Usable, Produces, Written
    <2>3. \A i \in DOMAIN graph : ~(EventIndex(i, "consumer_execution") < 0) /\ ~(i < 0) /\ i # 0
        BY <2>1
    <2>4. computed' = 0 /\ result' = None /\ event' = 0 /\ 0 \in 0 .. Len(graph)
        BY <1>1, <1>2, <1>6
    <2>5. QED
        BY <1>3, <2>2, <2>3, <2>4 DEF Computing
<1>10. QED
    BY <1>1, <1>4, <1>7, <1>8, <1>9 DEF InStep

\* Every step keeps what an execution relies on.
LEMMA NextExecuting == Executing /\ [Next]_vars => Executing'
<1> SUFFICES ASSUME Executing, [Next]_vars PROVE Executing'
    OBVIOUS
<1>1. IInv'
    BY NextIInv DEF Executing
<1>2. Planning'
    <2>1. [PartitioningNext]_partitioning
        BY DEF Next, PlanStorage, PlaceDraft, Admit, KernelFails, ComputeKernel, Write, Release,
               Finish, Fail, vars
    <2>2. QED
        BY <2>1, NextPlanning DEF Executing
<1>3. ASSUME PartitioningNext, UNCHANGED <<placement, execution>>
      PROVE  Executing'
    <2>1. stage # "planned"
        BY <1>3 DEF PartitioningNext, CheckOverrides, AssignNext, PlanDone
    <2>2. status = "waiting" /\ UNCHANGED <<status, reason, computed, result>>
        BY <1>3, <2>1 DEF Executing, execution
    <2>3. QED
        BY <1>1, <1>2, <2>2 DEF Executing
<1>4. CASE PlanStorage
    <2>1. /\ stage = "planned" /\ status = "waiting"
          /\ UNCHANGED <<partitioning, slots, scheme, reason, result, computed>>
          /\ \/ status' = "placing" /\ waiting' = Drafts /\ Plannable
             \/ status' = "refused"
        BY <1>4 DEF PlanStorage
    <2>2. stage' = "planned" /\ slots' = <<>>
        BY <2>1 DEF partitioning, Executing, IInv, Placing
    <2>3. ASSUME status' = "placing" PROVE Laid'
        <3>1. Plannable' /\ waiting' = Drafts'
            BY <2>1, <2>3, FrozenDrafts
        <3>2. DOMAIN slots' = {}
            BY <2>2
        <3>3. Apart'
            BY <3>2 DEF Apart
        <3>4. Placed' = {}
            BY <3>2 DEF Placed
        <3>5. Placed' \union waiting' = Drafts'
            BY <3>1, <3>4
        <3>6. QED
            BY <2>2, <3>1, <3>3, <3>5 DEF Laid
    <2>4. /\ status' \in {"placing", "refused"} /\ reason' = reason /\ result' = result
          /\ computed' = computed
        BY <2>1
    <2>5. QED
        BY <1>1, <1>2, <2>1, <2>2, <2>3, <2>4 DEF Executing
<1>5. CASE PlaceDraft
    <2>1. status = "placing" /\ PlaceNext /\ UNCHANGED <<partitioning, execution>> /\ Laid
        BY <1>5 DEF PlaceDraft, Executing
    <2>2. /\ stage' = stage /\ UNCHANGED <<status, reason, result, computed, scheme>>
        BY <2>1 DEF partitioning, execution
    <2>3. Drafts' = Drafts /\ Plannable' = Plannable
        BY <2>1, <2>2, FrozenDrafts
    <2>4. PICK D : Grouped(D)
        BY DEF Executing, IInv, Placing
    <2>5. Placed' \union waiting' = Placed \union waiting /\ Apart'
        BY <2>1, <2>4, PlacingLays DEF Grouped, Laid
    <2>6. Laid'
        BY <2>1, <2>2, <2>3, <2>5 DEF Laid
    <2>7. QED
        BY <1>1, <1>2, <2>1, <2>2, <2>6 DEF Executing
<1>6. CASE Admit
    <2>1. /\ status = "placing" /\ reason' = reason /\ stage' = stage
          /\ Admissible \/ status' = "refused"
        BY <1>6 DEF Admit, partitioning
    <2>2. CASE Admissible
        BY <1>1, <1>2, <1>6, <2>1, <2>2, AdmitRuns DEF Executing
    <2>3. CASE status' = "refused"
        BY <1>1, <1>2, <2>1, <2>3 DEF Executing
    <2>4. QED
        BY <2>1, <2>2, <2>3
<1>7. CASE KernelFails
    <2>1. status = "running" /\ status' = "failed" /\ reason' = "not finite" /\ stage' = stage
        BY <1>7 DEF KernelFails, KernelDue, Fail, partitioning
    <2>2. QED
        BY <1>1, <1>2, <2>1 DEF Executing
<1>8. CASE ComputeKernel \/ Write \/ Release
    <2>1. status = "running" /\ Usable /\ InStep
        BY <1>8 DEF ComputeKernel, KernelDue, Write, Release, Executing
    <2>2. InStep' /\ UNCHANGED <<partitioning, placement, scheme, status, reason>>
        BY <1>8, <2>1, ComputeKernelRuns, WriteRuns, ReleaseRuns
    <2>3. Usable' /\ stage' = stage /\ status' = status /\ reason' = reason
        BY <2>1, <2>2, FrozenUsable DEF Frozen, partitioning
    <2>4. QED
        BY <1>1, <1>2, <2>1, <2>2, <2>3 DEF Executing
<1>9. CASE Finish
    <2>1. status = "running" /\ Usable /\ InStep
        BY <1>9 DEF Finish, Executing
    <2>2. status' = "done" /\ UNCHANGED <<partitioning, reason>>
        BY <1>9, <2>1, FinishRuns
    <2>3. stage' = stage /\ reason' = reason
        BY <2>2 DEF partitioning
    <2>4. QED
        BY <1>1, <1>2, <2>1, <2>2, <2>3 DEF Executing
<1>10. CASE UNCHANGED vars
    <2>1. /\ UNCHANGED <<partitioning, placement, scheme>>
          /\ UNCHANGED <<status, reason, event, todo, result, computed, arena, outputs>>
        BY <1>10 DEF vars, execution
    <2>2. stage' = stage
        BY <2>1 DEF partitioning
    <2>3. ASSUME status = "placing" PROVE Laid'
        <3>1. Laid
            BY <2>3 DEF Executing
        <3>2. Drafts' = Drafts /\ Plannable' = Plannable
            BY <2>1, FrozenDrafts
        <3>3. Placed' = Placed /\ Apart' = Apart /\ waiting' = waiting
            BY <2>1 DEF placement, Placed, Apart
        <3>4. QED
            BY <2>2, <3>1, <3>2, <3>3 DEF Laid
    <2>4. ASSUME status = "running" PROVE Usable' /\ InStep'
        <3>1. Usable /\ InStep
            BY <2>4 DEF Executing
        <3>2. Usable'
            BY <2>1, <3>1, FrozenUsable DEF Frozen
        <3>3. /\ \A d : Written(d)' = Written(d) /\ Live(d)' = Live(d) /\ Content(d)' = Content(d)
              /\ \A i : Value(i)' = Value(i) /\ Out(i)' = Out(i)
              /\ Placed' = Placed /\ GraphEnd' = GraphEnd
              /\ \A i, p : EventIndex(i, p)' = EventIndex(i, p)
              /\ slots' = slots /\ graph' = graph
            BY <2>1, FrozenPlaces, FrozenEvents
               DEF Frozen, Written, Live, Content, Out, partitioning, placement
        <3>4. Holding' /\ Clock'
            BY <2>1, <3>1, <3>3 DEF InStep, Holding, Clock, Contents
        <3>5. Computing'
            BY <2>1, <3>1, <3>3 DEF InStep, Computing, Written
        <3>6. QED
            BY <3>2, <3>4, <3>5 DEF InStep
    <2>5. QED
        BY <1>1, <1>2, <2>1, <2>2, <2>3, <2>4 DEF Executing
<1>11. QED
    BY <1>3, <1>4, <1>5, <1>6, <1>7, <1>8, <1>9, <1>10 DEF Next

\* An execution finds in every state what it relies on.
THEOREM AlwaysExecuting == Spec => []Executing
BY InitExecuting, NextExecuting, PTL DEF Spec

\* An admitted storage plan is never broken while it is executed, for any graph, backends,
\* overrides and either scheme: neither arena (heterogeneous_storage_executor.py,
\* allocation_executor.py) refuses a read, a write or a release, and each is empty in the end.
THEOREM AdmittedPlansRun == Spec => []ArenaNeverRefuses
<1>1. Executing => ArenaNeverRefuses
    BY DEF Executing, ArenaNeverRefuses
<1>2. QED
    BY <1>1, AlwaysExecuting, PTL

\* Both executors through storage implement GraphExecution: what is computed through slots
\* that are reused is what any executor promises.
THEOREM StorageKeepsPromise == Spec => KeepsPromise
<1>1. Init => Promised!Init
    <2> SUFFICES ASSUME Init PROVE Promised!Init
        OBVIOUS
    <2>1. /\ graph \in Graphs /\ status = "waiting" /\ computed = 0 /\ outputs = <<>>
        BY DEF Init, PartitioningInit
    <2>2. QED
        BY <2>1 DEF Promised!Init, Lengths
<1>2. Executing /\ [Next]_vars => [Promised!Next]_(Promised!vars)
    <2> SUFFICES ASSUME Executing, [Next]_vars PROVE [Promised!Next]_(Promised!vars)
        OBVIOUS
    <2>1. graph \in Graphs
        BY DEF Executing, Planning
    <2>2. Lengths[graph] = Len(graph) /\ AllTerminals[graph] = Terminals(graph)
        BY <2>1 DEF Lengths, AllTerminals
    <2>3. CASE PartitioningNext /\ UNCHANGED <<placement, execution>>
        <3>1. graph' = graph /\ UNCHANGED <<status, computed, outputs>>
            BY <2>3 DEF PartitioningNext, CheckOverrides, AssignNext, PlanDone, execution
        <3>2. QED
            BY <3>1 DEF Promised!vars
    <2>4. CASE PlanStorage
        <3>1. /\ status = "waiting" /\ status' \in {"placing", "refused"}
              /\ UNCHANGED <<graph, computed, outputs>>
            BY <2>4 DEF PlanStorage, partitioning
        <3>2. QED
            BY <3>1 DEF Promised!Next, Promised!Refuse, Promised!vars
    <2>5. CASE PlaceDraft
        <3>1. UNCHANGED <<graph, status, computed, outputs>>
            BY <2>5 DEF PlaceDraft, partitioning, execution
        <3>2. QED
            BY <3>1 DEF Promised!vars
    <2>6. CASE Admit
        <3>1. /\ status = "placing" /\ status' \in {"running", "refused"}
              /\ UNCHANGED <<graph, computed, outputs>>
            BY <2>6 DEF Admit, partitioning
        <3>2. QED
            BY <3>1 DEF Promised!Next, Promised!Refuse, Promised!Start
    <2>7. CASE KernelFails
        <3>1. /\ status = "running" /\ status' = "failed" /\ UNCHANGED <<graph, computed, outputs>>
            BY <2>7 DEF KernelFails, KernelDue, Fail, partitioning
        <3>2. QED
            BY <3>1 DEF Promised!Next, Promised!Fail
    <2>8. CASE ComputeKernel
        <3>1. status = "running" /\ Usable /\ InStep
            BY <2>8 DEF ComputeKernel, KernelDue, Executing
        <3>2. /\ computed' = computed + 1 /\ computed < Len(graph)
              /\ UNCHANGED <<partitioning, status, outputs>>
            BY <2>8, <3>1, ComputeKernelRuns
        <3>3. graph' = graph /\ status' = status /\ outputs' = outputs
            BY <3>2 DEF partitioning
        <3>4. QED
            BY <2>2, <3>1, <3>2, <3>3 DEF Promised!Next, Promised!Compute
    <2>9. CASE Write \/ Release
        <3>1. status = "running" /\ Usable /\ InStep
            BY <2>9 DEF Write, Release, Executing
        <3>2. UNCHANGED <<partitioning, status, computed, outputs>>
            BY <2>9, <3>1, WriteRuns, ReleaseRuns
        <3>3. UNCHANGED <<graph, status, computed, outputs>>
            BY <3>2 DEF partitioning
        <3>4. QED
            BY <3>3 DEF Promised!vars
    <2>10. CASE Finish
        <3>1. status = "running" /\ Usable /\ InStep
            BY <2>10 DEF Finish, Executing
        <3>2. /\ UNCHANGED <<partitioning, computed>> /\ status' = "done"
              /\ computed = Len(graph) /\ outputs' = [t \in Terminals(graph) |-> t]
            BY <2>10, <3>1, FinishRuns
        <3>3. graph' = graph /\ computed' = computed
            BY <3>2 DEF partitioning
        <3>4. QED
            BY <2>2, <3>1, <3>2, <3>3 DEF Promised!Next, Promised!Finish
    <2>11. CASE UNCHANGED vars
        <3>1. UNCHANGED <<graph, status, computed, outputs>>
            BY <2>11 DEF vars, partitioning, execution
        <3>2. QED
            BY <3>1 DEF Promised!vars
    <2>12. QED
        BY <2>3, <2>4, <2>5, <2>6, <2>7, <2>8, <2>9, <2>10, <2>11 DEF Next
<1>3. QED
    BY <1>1, <1>2, AlwaysExecuting, PTL DEF Spec, KeepsPromise, Promised!Spec

=============================================================================
