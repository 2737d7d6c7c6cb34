--------------------------- MODULE ResidencyProofs ---------------------------
(***************************************************************************)
(* Residency plans are right for any graphs, spaces and budgets: every     *)
(* slot holds its tensor's value, and a finished plan has exactly the      *)
(* residencies the graph needs, each of them once.                         *)
(***************************************************************************)
EXTENDS Residency, FiniteSetTheorems, WellFoundedInduction, TLAPS

-----------------------------------------------------------------------------
(* Sums of bytes *)

\* A set of numbers that has 0 and the successor of each of its elements has all of them.
LEMMA AllNumbers ==
    ASSUME NEW G \in SUBSET Nat, 0 \in G, \A n \in G : n + 1 \in G
    PROVE  \A n \in Nat : n \in G
<1>1. SUFFICES ASSUME NEW m \in Nat, m \notin G PROVE FALSE
    OBVIOUS
<1> DEFINE T == Nat \ G
<1>2. PICK x \in T : \A y \in T : <<y, x>> \notin OpToRel(<, Nat)
    BY <1>1, NatLessThanWellFounded, WFMin
<1>3. x \in Nat /\ x # 0 /\ x - 1 \in Nat /\ (x - 1) + 1 = x
    OBVIOUS
<1>4. x - 1 \in T
    BY <1>3
<1>5. <<x - 1, x>> \in OpToRel(<, Nat)
    BY <1>3 DEF OpToRel
<1>6. QED
    BY <1>2, <1>4, <1>5

\* The bytes of the tensors of all residencies in R, as BudgetExact counts them.
BytesOf(R) == MapThenSumSet(LAMBDA b : Bytes[b[1]], R)

\* The recursion behind it: one element after the other is taken away.
Chosen(s) == CHOOSE x \in s : TRUE
SumStep(sum, s) == IF s = {} THEN 0 ELSE Bytes[Chosen(s)[1]] + sum[s \ {Chosen(s)}]
Sums(sum, R) == sum = [s \in SUBSET R |-> SumStep(sum, s)]

\* A function that adds up every subset of a finite set exists.
LEMMA SumExists ==
    ASSUME NEW R, IsFiniteSet(R)
    PROVE  \E sum : Sums(sum, R)
<1> DEFINE Upto(n) == {s \in SUBSET R : Cardinality(s) <= n}
           Summed(n) == \E sum : sum = [s \in Upto(n) |-> SumStep(sum, s)]
           G == {n \in Nat : Summed(n)}
<1>1. \A s \in SUBSET R : IsFiniteSet(s) /\ Cardinality(s) \in Nat /\ (Cardinality(s) = 0 <=> s = {})
    BY FS_Subset, FS_CardinalityType, FS_EmptySet
<1>2. 0 \in G
    <2> DEFINE zero == [s \in Upto(0) |-> 0]
    <2>1. \A s \in Upto(0) : s = {}
        BY <1>1
    <2>2. \A s \in Upto(0) : SumStep(zero, s) = 0
        BY <2>1 DEF SumStep
    <2>3. zero = [s \in Upto(0) |-> SumStep(zero, s)]
        BY <2>2
    <2>4. QED
        BY <2>3
<1>3. ASSUME NEW n \in G PROVE n + 1 \in G
    <2>1. PICK sum : sum = [s \in Upto(n) |-> SumStep(sum, s)]
        OBVIOUS
    <2> DEFINE more == [s \in Upto(n + 1) |-> SumStep(sum, s)]
    <2>2. ASSUME NEW s \in Upto(n + 1) PROVE SumStep(more, s) = SumStep(sum, s)
        <3>1. CASE s = {}
            BY <3>1 DEF SumStep
        <3>2. CASE s # {}
            <4> DEFINE r == s \ {Chosen(s)}
            <4>1. Chosen(s) \in s
                BY <3>2 DEF Chosen
            <4>2. Cardinality(r) = Cardinality(s) - 1
                BY <1>1, <4>1, FS_RemoveElement
            <4>3. r \in Upto(n) /\ r \in Upto(n + 1)
                BY <1>1, <4>2
            <4>4. sum[r] = SumStep(sum, r) /\ more[r] = SumStep(sum, r)
                BY <2>1, <4>3
            <4>5. QED
                BY <3>2, <4>4 DEF SumStep
        <3>3. QED
            BY <3>1, <3>2
    <2>3. more = [s \in Upto(n + 1) |-> SumStep(more, s)]
        BY <2>2
    <2> HIDE DEF more
    <2>4. Summed(n + 1)
        BY <2>3
    <2> HIDE DEF Summed
    <2>5. QED
        BY <2>4
<1>4. Cardinality(R) \in G
    BY <1>1, <1>2, <1>3, AllNumbers
<1>5. Upto(Cardinality(R)) = SUBSET R
    BY FS_Subset
<1>6. QED
    BY <1>4, <1>5 DEF Sums

\* What such a function says of a subset.
LEMMA SumOf ==
    ASSUME NEW R, NEW sum, Sums(sum, R), NEW s \in SUBSET R
    PROVE  /\ s = {} => sum[s] = 0
           /\ s # {} => /\ Chosen(s) \in s
                        /\ sum[s] = Bytes[Chosen(s)[1]] + sum[s \ {Chosen(s)}]
<1>1. sum[s] = SumStep(sum, s)
    BY DEF Sums
<1>2. s # {} => Chosen(s) \in s
    BY DEF Chosen
<1>3. QED
    BY <1>1, <1>2 DEF SumStep

\* BytesOf is such a sum.
LEMMA BytesOfIsSum ==
    ASSUME NEW R, IsFiniteSet(R)
    PROVE  \E sum : Sums(sum, R) /\ BytesOf(R) = sum[R]
<1> DEFINE sum == CHOOSE f : f = [s \in SUBSET R |->
                      IF s = {} THEN 0
                      ELSE LET x == CHOOSE x \in s : TRUE IN Bytes[x[1]] + f[s \ {x}]]
<1>1. BytesOf(R) = sum[R]
    BY DEF BytesOf, MapThenSumSet, MapThenFoldSet
<1>2. \E f : f = [s \in SUBSET R |->
                      IF s = {} THEN 0
                      ELSE LET x == CHOOSE x \in s : TRUE IN Bytes[x[1]] + f[s \ {x}]]
    BY SumExists DEF Sums, SumStep, Chosen
<1>3. sum = [s \in SUBSET R |->
                      IF s = {} THEN 0
                      ELSE LET x == CHOOSE x \in s : TRUE IN Bytes[x[1]] + sum[s \ {x}]]
    BY <1>2
<1> HIDE DEF sum
<1>4. Sums(sum, R)
    BY <1>3 DEF Sums, SumStep, Chosen
<1>5. QED
    BY <1>1, <1>4

\* Two such functions agree wherever both say something.
LEMMA SumsAgree ==
    ASSUME NEW R, IsFiniteSet(R), NEW Q, NEW f, NEW g, Sums(f, R), Sums(g, Q),
           NEW t \in SUBSET R, t \in SUBSET Q
    PROVE  f[t] = g[t]
<1> DEFINE G == {n \in Nat : \A s \in SUBSET R : s \in SUBSET Q /\ Cardinality(s) = n => f[s] = g[s]}
<1>1. \A s \in SUBSET R : IsFiniteSet(s) /\ Cardinality(s) \in Nat /\ (Cardinality(s) = 0 <=> s = {})
    BY FS_Subset, FS_CardinalityType, FS_EmptySet
<1>2. 0 \in G
    BY <1>1, SumOf
<1>3. ASSUME NEW n \in G PROVE n + 1 \in G
    <2>1. SUFFICES ASSUME NEW s \in SUBSET R, s \in SUBSET Q, Cardinality(s) = n + 1
                   PROVE  f[s] = g[s]
        OBVIOUS
    <2> DEFINE r == s \ {Chosen(s)}
    <2>2. s # {}
        BY <1>1, <2>1
    <2>3. /\ Chosen(s) \in s /\ f[s] = Bytes[Chosen(s)[1]] + f[r]
          /\ g[s] = Bytes[Chosen(s)[1]] + g[r]
        BY <2>1, <2>2, SumOf
    <2>4. Cardinality(r) = n /\ r \in SUBSET R /\ r \in SUBSET Q
        BY <1>1, <2>1, <2>3, FS_RemoveElement
    <2>5. f[r] = g[r]
        BY <2>4
    <2>6. QED
        BY <2>3, <2>5
<1> HIDE DEF G
<1>4. Cardinality(t) \in G
    BY <1>1, <1>2, <1>3, AllNumbers DEF G
<1>5. QED
    BY <1>4 DEF G

\* A sum of bytes is a number.
LEMMA SumIsNumber ==
    ASSUME NEW R \in SUBSET (Tensors \X Spaces), IsFiniteSet(R), NEW sum, Sums(sum, R)
    PROVE  \A s \in SUBSET R : sum[s] \in Nat
<1> DEFINE G == {n \in Nat : \A s \in SUBSET R : Cardinality(s) = n => sum[s] \in Nat}
<1>1. \A s \in SUBSET R : IsFiniteSet(s) /\ Cardinality(s) \in Nat /\ (Cardinality(s) = 0 <=> s = {})
    BY FS_Subset, FS_CardinalityType, FS_EmptySet
<1>2. \A b \in R : Bytes[b[1]] \in Nat
    BY ResidencyAssumption
<1>3. 0 \in G
    BY <1>1, SumOf
<1>4. ASSUME NEW n \in G PROVE n + 1 \in G
    <2>1. SUFFICES ASSUME NEW s \in SUBSET R, Cardinality(s) = n + 1 PROVE sum[s] \in Nat
        OBVIOUS
    <2>2. s # {}
        BY <1>1, <2>1
    <2>3. Chosen(s) \in s /\ sum[s] = Bytes[Chosen(s)[1]] + sum[s \ {Chosen(s)}]
        BY <2>2, SumOf
    <2>4. Cardinality(s \ {Chosen(s)}) = n /\ s \ {Chosen(s)} \in SUBSET R
        <3>1. Cardinality(s \ {Chosen(s)}) = Cardinality(s) - 1
            BY <1>1, <2>3, FS_RemoveElement
        <3>2. n \in Nat
            OBVIOUS
        <3>3. QED
            BY <2>1, <3>1, <3>2
    <2>5. sum[s \ {Chosen(s)}] \in Nat
        BY <2>4
    <2>6. QED
        BY <1>2, <2>3, <2>5
<1> HIDE DEF G
<1>5. \A s \in SUBSET R : Cardinality(s) \in G
    BY <1>1, <1>3, <1>4, AllNumbers DEF G
<1>6. QED
    BY <1>5 DEF G

\* It does not matter which element is taken away first.
LEMMA SumTakesAny ==
    ASSUME NEW R \in SUBSET (Tensors \X Spaces), IsFiniteSet(R), NEW sum, Sums(sum, R),
           NEW t \in SUBSET R, NEW e \in t
    PROVE  sum[t] = Bytes[e[1]] + sum[t \ {e}]
<1> DEFINE Out(s) == \A x \in s : sum[s] = Bytes[x[1]] + sum[s \ {x}]
           G == {n \in Nat : \A s \in SUBSET R : Cardinality(s) = n => Out(s)}
<1>1. \A s \in SUBSET R : IsFiniteSet(s) /\ Cardinality(s) \in Nat /\ (Cardinality(s) = 0 <=> s = {})
    BY FS_Subset, FS_CardinalityType, FS_EmptySet
<1>2. /\ \A b \in R : Bytes[b[1]] \in Nat
      /\ \A s \in SUBSET R : sum[s] \in Nat
    BY SumIsNumber, ResidencyAssumption
<1>3. 0 \in G
    BY <1>1
<1>4. ASSUME NEW n \in G PROVE n + 1 \in G
    <2>1. SUFFICES ASSUME NEW s \in SUBSET R, Cardinality(s) = n + 1, NEW x \in s
                   PROVE  sum[s] = Bytes[x[1]] + sum[s \ {x}]
        OBVIOUS
    <2>2. PICK c \in s : sum[s] = Bytes[c[1]] + sum[s \ {c}]
        <3>1. s # {} /\ s \in SUBSET R
            BY <2>1
        <3>2. Chosen(s) \in s /\ sum[s] = Bytes[Chosen(s)[1]] + sum[s \ {Chosen(s)}]
            BY <3>1, SumOf
        <3>3. QED
            BY <3>2
    <2>3. CASE x = c
        BY <2>2, <2>3
    <2>4. CASE x # c
        <3>1. /\ s \ {c} \in SUBSET R /\ Cardinality(s \ {c}) = n
              /\ s \ {x} \in SUBSET R /\ Cardinality(s \ {x}) = n
            <4>1. \A y \in s : Cardinality(s \ {y}) = Cardinality(s) - 1
                BY <1>1, <2>1, FS_RemoveElement
            <4>2. n \in Nat
                OBVIOUS
            <4>3. QED
                BY <2>1, <4>1, <4>2
        <3> DEFINE rest == (s \ {c}) \ {x}
        <3>2. rest = (s \ {x}) \ {c} /\ rest \in SUBSET R
            OBVIOUS
        <3>3. x \in s \ {c} /\ c \in s \ {x}
            BY <2>4
        <3>4. sum[s \ {c}] = Bytes[x[1]] + sum[rest]
            BY <3>1, <3>3
        <3>5. Out(s \ {x})
            BY <3>1
        <3>6. sum[s \ {x}] = Bytes[c[1]] + sum[rest]
            BY <3>2, <3>3, <3>5
        <3>7. Bytes[x[1]] \in Nat /\ Bytes[c[1]] \in Nat /\ sum[rest] \in Nat
            BY <1>2, <3>2
        <3> HIDE DEF rest
        <3>8. QED
            BY <2>2, <3>4, <3>6, <3>7
    <2>5. QED
        BY <2>3, <2>4
<1> HIDE DEF G
<1>5. Cardinality(t) \in G
    BY <1>1, <1>3, <1>4, AllNumbers DEF G
<1>6. QED
    BY <1>5 DEF G

\* The bytes of one residency more.
LEMMA BytesAdded ==
    ASSUME NEW R \in SUBSET (Tensors \X Spaces), IsFiniteSet(R),
           NEW x \in Tensors \X Spaces, x \notin R
    PROVE  BytesOf(R \union {x}) = Bytes[x[1]] + BytesOf(R) /\ BytesOf(R) \in Nat
<1> DEFINE Q == R \union {x}
<1>1. IsFiniteSet(Q) /\ Q \in SUBSET (Tensors \X Spaces)
    BY FS_AddElement
<1>2. Q \ {x} = R /\ x \in Q /\ R \in SUBSET Q
    OBVIOUS
<1> HIDE DEF Q
<1>3. PICK f : Sums(f, R) /\ BytesOf(R) = f[R]
    BY BytesOfIsSum
<1>4. PICK g : Sums(g, Q) /\ BytesOf(Q) = g[Q]
    BY <1>1, BytesOfIsSum
<1>5. f[R] = g[R]
    BY <1>2, <1>3, <1>4, SumsAgree
<1>6. g[Q] = Bytes[x[1]] + g[Q \ {x}]
    BY <1>1, <1>2, <1>4, SumTakesAny
<1>7. g[Q] = Bytes[x[1]] + g[R]
    BY <1>2, <1>6
<1>8. f[R] \in Nat
    BY <1>3, SumIsNumber
<1>9. QED
    BY <1>3, <1>4, <1>5, <1>7, <1>8 DEF Q

\* The bytes of no residency.
LEMMA NoBytes == BytesOf({}) = 0
<1>1. PICK f : Sums(f, {}) /\ BytesOf({}) = f[{}]
    BY BytesOfIsSum, FS_EmptySet
<1>2. QED
    BY <1>1, SumOf

\* More residencies take at least as many bytes.
LEMMA BytesGrow ==
    ASSUME NEW R \in SUBSET (Tensors \X Spaces), IsFiniteSet(R), NEW Q \in SUBSET R
    PROVE  BytesOf(Q) <= BytesOf(R) /\ BytesOf(Q) \in Nat /\ BytesOf(R) \in Nat
<1> DEFINE Least(s) == BytesOf(Q) <= BytesOf(s)
           G == {n \in Nat : \A s \in SUBSET R : Q \subseteq s /\ Cardinality(s) = n => Least(s)}
<1>1. \A s \in SUBSET R : /\ IsFiniteSet(s) /\ Cardinality(s) \in Nat
                          /\ Cardinality(s) = 0 <=> s = {}
                          /\ s \in SUBSET (Tensors \X Spaces)
    BY FS_Subset, FS_CardinalityType, FS_EmptySet
<1>2. \A s \in SUBSET R : BytesOf(s) \in Nat
    <2> SUFFICES ASSUME NEW s \in SUBSET R PROVE BytesOf(s) \in Nat
        OBVIOUS
    <2>1. PICK f : Sums(f, s) /\ BytesOf(s) = f[s]
        BY <1>1, BytesOfIsSum
    <2>2. QED
        BY <1>1, <2>1, SumIsNumber
<1>3. 0 \in G
    <2> SUFFICES ASSUME NEW s \in SUBSET R, Q \subseteq s, Cardinality(s) = 0 PROVE Least(s)
        OBVIOUS
    <2>1. Q = s
        BY <1>1
    <2>2. QED
        BY <1>2, <2>1
<1>4. ASSUME NEW n \in G PROVE n + 1 \in G
    <2>1. SUFFICES ASSUME NEW s \in SUBSET R, Q \subseteq s, Cardinality(s) = n + 1 PROVE Least(s)
        OBVIOUS
    <2>2. CASE Q = s
        BY <1>2, <2>2
    <2>3. CASE Q # s
        <3>1. PICK x \in s : x \notin Q
            BY <2>1, <2>3
        <3> DEFINE r == s \ {x}
        <3>2. Cardinality(r) = n /\ r \in SUBSET R /\ Q \subseteq r
            <4>1. Cardinality(r) = Cardinality(s) - 1
                BY <1>1, <2>1, <3>1, FS_RemoveElement
            <4>2. n \in Nat
                OBVIOUS
            <4>3. QED
                BY <2>1, <3>1, <4>1, <4>2
        <3>3. Least(r)
            BY <3>2
        <3>4. r \union {x} = s /\ x \notin r /\ x \in Tensors \X Spaces
            OBVIOUS
        <3> HIDE DEF r
        <3>5. BytesOf(s) = Bytes[x[1]] + BytesOf(r)
            BY <1>1, <3>2, <3>4, BytesAdded
        <3>6. Bytes[x[1]] \in Nat /\ BytesOf(r) \in Nat /\ BytesOf(Q) \in Nat
            BY <1>2, <3>2, <3>4, ResidencyAssumption
        <3>7. QED
            BY <3>3, <3>5, <3>6
    <2>4. QED
        BY <2>2, <2>3
<1> HIDE DEF G
<1>5. Cardinality(R) \in G
    BY <1>1, <1>3, <1>4, AllNumbers DEF G
<1>6. QED
    BY <1>2, <1>5 DEF G

-----------------------------------------------------------------------------
(* The invariant *)

\* A plan under way: slots and residencies are two views of the same thing, every slot
\* holds the value of its tensor, and every tensor that is anywhere has an origin.
Coherent(p) ==
    /\ p = [plan |-> p.plan, memory |-> p.memory, slot |-> p.slot]
    /\ p.plan = [buffers |-> p.plan.buffers, steps |-> p.plan.steps,
                 resident |-> p.plan.resident, origins |-> p.plan.origins,
                 reserved |-> p.plan.reserved]
    /\ p.plan.buffers \in Seq(Tensors \X Spaces)
    /\ p.memory \in Seq(Tensors) /\ Len(p.memory) = Len(p.plan.buffers)
    /\ \A s \in DOMAIN p.plan.buffers : /\ p.memory[s] = p.plan.buffers[s][1]
                                        /\ p.plan.buffers[s] \in DOMAIN p.plan.resident
                                        /\ p.plan.resident[p.plan.buffers[s]] = s
    /\ \A b \in DOMAIN p.plan.resident : /\ p.plan.resident[b] \in DOMAIN p.plan.buffers
                                         /\ p.plan.buffers[p.plan.resident[b]] = b
    /\ \A t \in DOMAIN p.plan.origins : /\ p.plan.origins[t] \in DOMAIN p.plan.buffers
                                        /\ p.plan.buffers[p.plan.origins[t]][1] = t
    /\ \A b \in DOMAIN p.plan.resident : b[1] \in DOMAIN p.plan.origins
    /\ p.plan.reserved = BytesOf(ToSet(p.plan.buffers))

\* How far the planner is with the k-th operand or result of operation i.
Done(i)       == phase \in {"publish", "planned"} \/ i < current
Reached(i, k) == Done(i) \/ (i = current /\ k <= Len(inputs))
Written(i, k) == Done(i) \/ (i = current /\ k <= Len(outputs))
Shown(i, k)   == \/ phase = "planned"
                 \/ phase = "publish" /\ (i < current \/ (i = current /\ k < item))

\* The residency b is one the planner has met so far.
Met(b) ==
    \/ \E i \in DOMAIN graph : \E k \in DOMAIN graph[i].inputs :
           /\ Reached(i, k) /\ b[1] = graph[i].inputs[k]
           /\ b[2] = graph[i].space \/ (b[1] \notin Produced /\ b[2] = Host)
    \/ \E i \in DOMAIN graph : \E k \in DOMAIN graph[i].outputs :
           /\ Written(i, k) /\ b[1] = graph[i].outputs[k] /\ b[2] = graph[i].space
    \/ \E i \in DOMAIN graph : \E k \in DOMAIN graph[i].outputs :
           /\ Shown(i, k) /\ b[1] = graph[i].outputs[k] /\ Terminal(b[1]) /\ b[2] = Host

\* The operands the operation at work has so far are its own, in its space.
OperandsInPlace ==
    /\ current \in DOMAIN graph => Len(inputs) <= Len(Op.inputs) /\ Len(outputs) <= Len(Op.outputs)
    /\ current \notin DOMAIN graph => inputs = <<>> /\ outputs = <<>>
    /\ \A k \in DOMAIN inputs : plan.buffers[inputs[k]] = <<Op.inputs[k], Op.space>>

Planning ==
    /\ graph \in Graphs
    /\ phase \in {"check", "operations", "publish", "rejected", "over budget", "planned"}
    /\ current \in 1 .. Len(graph) + 1 /\ item \in Nat \ {0}
    /\ inputs \in Seq(Nat) /\ outputs \in Seq(Nat)
    /\ (\A k \in DOMAIN inputs : inputs[k] \in Slots) /\ (\A k \in DOMAIN outputs : outputs[k] \in Slots)
    /\ Coherent(Now)
    /\ phase \in {"operations", "publish", "planned"} => SingleProducers /\ BackwardUses
    /\ phase \in {"check", "operations"} => OperandsInPlace
    /\ phase = "check" => current = 1 /\ inputs = <<>> /\ outputs = <<>>
    /\ phase # "over budget" => \A b \in Tensors \X Spaces : b \in DOMAIN plan.resident <=> Met(b)
    /\ \A b \in DOMAIN plan.resident : b \in Required

-----------------------------------------------------------------------------
(* The local functions of plan_residency *)

\* One element more at the end of a sequence.
LEMMA Appended ==
    ASSUME NEW S, NEW s \in Seq(S), NEW e \in S
    PROVE  /\ Append(s, e) \in Seq(S) /\ Len(Append(s, e)) = Len(s) + 1
           /\ DOMAIN Append(s, e) = DOMAIN s \union {Len(s) + 1} /\ Len(s) + 1 \notin DOMAIN s
           /\ Append(s, e)[Len(s) + 1] = e
           /\ \A i \in DOMAIN s : Append(s, e)[i] = s[i]
OBVIOUS

\* What allocate does to a plan under way.
LEMMA Allocation ==
    ASSUME NEW p, Coherent(p), NEW t \in Tensors, NEW space \in Spaces,
           <<t, space>> \notin DOMAIN p.plan.resident
    PROVE  LET q == Allocate(p, t, space, t) IN
           /\ q = [plan |-> q.plan, memory |-> q.memory, slot |-> q.slot]
           /\ q.plan = [buffers |-> q.plan.buffers, steps |-> q.plan.steps,
                        resident |-> q.plan.resident, origins |-> q.plan.origins,
                        reserved |-> q.plan.reserved]
           /\ q.plan.buffers = Append(p.plan.buffers, <<t, space>>)
           /\ q.memory = Append(p.memory, t)
           /\ q.slot = Len(p.plan.buffers) + 1
           /\ q.plan.origins = p.plan.origins
           /\ q.plan.steps = p.plan.steps /\ q.plan.reserved = p.plan.reserved + Bytes[t]
           /\ DOMAIN q.plan.resident = DOMAIN p.plan.resident \union {<<t, space>>}
           /\ q.plan.resident[<<t, space>>] = q.slot
           /\ \A b \in DOMAIN p.plan.resident : q.plan.resident[b] = p.plan.resident[b]
<1> DEFINE q == Allocate(p, t, space, t)
<1>1. /\ q = [plan |-> q.plan, memory |-> q.memory, slot |-> q.slot]
      /\ q.memory = Append(p.memory, t)
      /\ q.slot = Len(p.plan.buffers) + 1
      /\ q.plan = [p.plan EXCEPT !.buffers = Append(@, <<t, space>>),
                                 !.resident = With(@, <<t, space>>, q.slot),
                                 !.reserved = @ + Bytes[t]]
    BY DEF Allocate
<1>2. p.plan = [buffers |-> p.plan.buffers, steps |-> p.plan.steps,
                resident |-> p.plan.resident, origins |-> p.plan.origins,
                reserved |-> p.plan.reserved]
    BY DEF Coherent
<1> HIDE DEF q
<1>3. /\ q.plan = [buffers |-> q.plan.buffers, steps |-> q.plan.steps,
                   resident |-> q.plan.resident, origins |-> q.plan.origins,
                   reserved |-> q.plan.reserved]
      /\ q.plan.buffers = Append(p.plan.buffers, <<t, space>>)
      /\ q.plan.origins = p.plan.origins
      /\ q.plan.resident = With(p.plan.resident, <<t, space>>, q.slot)
      /\ q.plan.steps = p.plan.steps /\ q.plan.reserved = p.plan.reserved + Bytes[t]
    BY <1>1, <1>2
<1>4. /\ DOMAIN q.plan.resident = DOMAIN p.plan.resident \union {<<t, space>>}
      /\ q.plan.resident[<<t, space>>] = q.slot
      /\ \A b \in DOMAIN p.plan.resident : q.plan.resident[b] = p.plan.resident[b]
    BY <1>3 DEF With
<1>5. QED
    BY <1>1, <1>3, <1>4 DEF q

\* A sequence has finitely many elements.
LEMMA FiniteRange ==
    ASSUME NEW S, NEW s \in Seq(S)
    PROVE  IsFiniteSet(ToSet(s))
<1> DEFINE n == Len(s)
<1>1. n \in Nat
    OBVIOUS
<1>2. DOMAIN s = 1 .. n /\ s = [k \in 1 .. n |-> s[k]]
    OBVIOUS
<1> HIDE DEF n
<1>3. s \in Surjection(1 .. n, ToSet(s))
    BY <1>2 DEF Surjection, ToSet
<1>4. IsFiniteSet(1 .. n)
    BY <1>1, FS_Interval
<1>5. QED
    BY <1>3, <1>4, FS_Surjection

\* A slot more for a residency that had none.
LEMMA SlotAdded ==
    ASSUME NEW s \in Seq(Tensors \X Spaces), NEW b \in Tensors \X Spaces, b \notin ToSet(s)
    PROVE  BytesOf(ToSet(Append(s, b))) = BytesOf(ToSet(s)) + Bytes[b[1]]
<1>1. ToSet(s) \in SUBSET (Tensors \X Spaces)
    BY DEF ToSet
<1>2. IsFiniteSet(ToSet(s))
    BY FiniteRange
<1>3. ToSet(Append(s, b)) = ToSet(s) \union {b}
    <2> DEFINE a == Append(s, b)
    <2>1. /\ DOMAIN a = DOMAIN s \union {Len(s) + 1} /\ a[Len(s) + 1] = b
          /\ \A k \in DOMAIN s : a[k] = s[k]
        BY Appended
    <2> HIDE DEF a
    <2>2. ToSet(a) = ToSet(s) \union {b}
        BY <2>1 DEF ToSet
    <2>3. QED
        BY <2>2 DEF a
<1>4. BytesOf(ToSet(s) \union {b}) = Bytes[b[1]] + BytesOf(ToSet(s)) /\ BytesOf(ToSet(s)) \in Nat
    BY <1>1, <1>2, BytesAdded
<1>5. Bytes[b[1]] \in Nat
    BY ResidencyAssumption
<1>6. QED
    BY <1>3, <1>4, <1>5

\* What the plan q has beyond the plan p: the residencies in new, and nothing is moved.
Extends(q, p, new) ==
    /\ DOMAIN q.plan.resident = DOMAIN p.plan.resident \union new
    /\ DOMAIN p.plan.buffers \subseteq DOMAIN q.plan.buffers
    /\ \A s \in DOMAIN p.plan.buffers : q.plan.buffers[s] = p.plan.buffers[s]

\* A new slot for a tensor that has an origin by then keeps the plan coherent.
LEMMA AllocationCoherent ==
    ASSUME NEW p, Coherent(p), NEW t \in Tensors, NEW space \in Spaces,
           <<t, space>> \notin DOMAIN p.plan.resident, t \in DOMAIN p.plan.origins
    PROVE  LET q == Allocate(p, t, space, t) IN
           /\ Coherent(q) /\ Extends(q, p, {<<t, space>>})
           /\ q.plan.origins = p.plan.origins
           /\ q.slot \in DOMAIN q.plan.buffers /\ q.plan.buffers[q.slot] = <<t, space>>
<1> DEFINE q == Allocate(p, t, space, t)
           new == <<t, space>>
<1>1. /\ q = [plan |-> q.plan, memory |-> q.memory, slot |-> q.slot]
      /\ q.plan = [buffers |-> q.plan.buffers, steps |-> q.plan.steps,
                   resident |-> q.plan.resident, origins |-> q.plan.origins,
                   reserved |-> q.plan.reserved]
      /\ q.plan.buffers = Append(p.plan.buffers, new)
      /\ q.memory = Append(p.memory, t)
      /\ q.slot = Len(p.plan.buffers) + 1
      /\ q.plan.origins = p.plan.origins
      /\ q.plan.reserved = p.plan.reserved + Bytes[t]
      /\ DOMAIN q.plan.resident = DOMAIN p.plan.resident \union {new}
      /\ q.plan.resident[new] = q.slot
      /\ \A b \in DOMAIN p.plan.resident : q.plan.resident[b] = p.plan.resident[b]
    BY Allocation
<1>2. new \in Tensors \X Spaces /\ new[1] = t
    OBVIOUS
<1> HIDE DEF q, new
<1>3. /\ p.plan.buffers \in Seq(Tensors \X Spaces) /\ p.memory \in Seq(Tensors)
      /\ Len(p.memory) = Len(p.plan.buffers)
    BY DEF Coherent
<1>4. /\ q.plan.buffers \in Seq(Tensors \X Spaces) /\ q.memory \in Seq(Tensors)
      /\ Len(q.memory) = Len(q.plan.buffers)
      /\ DOMAIN q.plan.buffers = DOMAIN p.plan.buffers \union {q.slot}
      /\ q.slot \notin DOMAIN p.plan.buffers
      /\ q.plan.buffers[q.slot] = new /\ q.memory[q.slot] = t
      /\ \A s \in DOMAIN p.plan.buffers : /\ q.plan.buffers[s] = p.plan.buffers[s]
                                          /\ q.memory[s] = p.memory[s]
    BY <1>1, <1>2, <1>3, Appended
<1>5. \A s \in DOMAIN q.plan.buffers : /\ q.memory[s] = q.plan.buffers[s][1]
                                       /\ q.plan.buffers[s] \in DOMAIN q.plan.resident
                                       /\ q.plan.resident[q.plan.buffers[s]] = s
    BY <1>1, <1>2, <1>4 DEF Coherent
<1>6. \A b \in DOMAIN q.plan.resident : /\ q.plan.resident[b] \in DOMAIN q.plan.buffers
                                        /\ q.plan.buffers[q.plan.resident[b]] = b
                                        /\ b[1] \in DOMAIN q.plan.origins
    BY <1>1, <1>2, <1>4 DEF Coherent
<1>7. \A u \in DOMAIN q.plan.origins : /\ q.plan.origins[u] \in DOMAIN q.plan.buffers
                                       /\ q.plan.buffers[q.plan.origins[u]][1] = u
    BY <1>1, <1>4 DEF Coherent
<1>8. q.plan.reserved = BytesOf(ToSet(q.plan.buffers))
    <2>1. new \notin ToSet(p.plan.buffers)
        <3>1. \A s \in DOMAIN p.plan.buffers : p.plan.buffers[s] \in DOMAIN p.plan.resident
            BY DEF Coherent
        <3>2. new \notin DOMAIN p.plan.resident
            BY DEF new
        <3>3. QED
            BY <3>1, <3>2 DEF ToSet
    <2>2. p.plan.reserved = BytesOf(ToSet(p.plan.buffers))
        BY DEF Coherent
    <2>3. QED
        BY <1>1, <1>2, <1>3, <2>1, <2>2, SlotAdded
<1>9. Coherent(q)
    BY <1>1, <1>4, <1>5, <1>6, <1>7, <1>8 DEF Coherent
<1>10. QED
    BY <1>1, <1>4, <1>9 DEF Extends, q, new

\* An event in the plan changes none of it.
LEMMA Emission ==
    ASSUME NEW p, Coherent(p), NEW kind, NEW ins, NEW outs
    PROVE  LET q == Emit(p, kind, ins, outs) IN
           /\ Coherent(q) /\ q.slot = p.slot /\ q.memory = p.memory
           /\ q.plan.buffers = p.plan.buffers /\ q.plan.resident = p.plan.resident
           /\ q.plan.origins = p.plan.origins
<1> DEFINE q == Emit(p, kind, ins, outs)
<1>1. /\ p = [plan |-> p.plan, memory |-> p.memory, slot |-> p.slot]
      /\ p.plan = [buffers |-> p.plan.buffers, steps |-> p.plan.steps,
                   resident |-> p.plan.resident, origins |-> p.plan.origins,
                   reserved |-> p.plan.reserved]
    BY DEF Coherent
<1>2. q = [p EXCEPT !.plan.steps =
               Append(@, [kind |-> kind, inputs |-> ins, outputs |-> outs])]
    BY DEF Emit
<1> HIDE DEF q
<1>3. /\ q = [plan |-> q.plan, memory |-> q.memory, slot |-> q.slot]
      /\ q.slot = p.slot /\ q.memory = p.memory
      /\ q.plan = [p.plan EXCEPT !.steps =
               Append(@, [kind |-> kind, inputs |-> ins, outputs |-> outs])]
    BY <1>1, <1>2
<1>4. /\ q.plan = [buffers |-> q.plan.buffers, steps |-> q.plan.steps,
                   resident |-> q.plan.resident, origins |-> q.plan.origins,
                   reserved |-> q.plan.reserved]
      /\ q.plan.buffers = p.plan.buffers /\ q.plan.resident = p.plan.resident
      /\ q.plan.origins = p.plan.origins /\ q.plan.reserved = p.plan.reserved
    BY <1>1, <1>3
<1>5. Coherent(q)
    BY <1>3, <1>4 DEF Coherent
<1>6. QED
    BY <1>3, <1>4, <1>5 DEF q

\* A slot for a tensor that is nowhere yet becomes its origin.
LEMMA Origination ==
    ASSUME NEW p, Coherent(p), NEW t \in Tensors, NEW space \in Spaces,
           t \notin DOMAIN p.plan.origins
    PROVE  LET q == Originate(Allocate(p, t, space, t), t) IN
           /\ Coherent(q) /\ Extends(q, p, {<<t, space>>})
           /\ DOMAIN q.plan.origins = DOMAIN p.plan.origins \union {t}
           /\ q.slot \in DOMAIN q.plan.buffers /\ q.plan.buffers[q.slot] = <<t, space>>
<1> DEFINE a == Allocate(p, t, space, t)
           q == Originate(a, t)
           new == <<t, space>>
<1>1. new \in Tensors \X Spaces /\ new[1] = t /\ new \notin DOMAIN p.plan.resident
    BY DEF Coherent
<1>2. /\ a = [plan |-> a.plan, memory |-> a.memory, slot |-> a.slot]
      /\ a.plan = [buffers |-> a.plan.buffers, steps |-> a.plan.steps,
                   resident |-> a.plan.resident, origins |-> a.plan.origins,
                   reserved |-> a.plan.reserved]
      /\ a.plan.buffers = Append(p.plan.buffers, new)
      /\ a.memory = Append(p.memory, t)
      /\ a.slot = Len(p.plan.buffers) + 1
      /\ a.plan.origins = p.plan.origins
      /\ a.plan.reserved = p.plan.reserved + Bytes[t]
      /\ DOMAIN a.plan.resident = DOMAIN p.plan.resident \union {new}
      /\ a.plan.resident[new] = a.slot
      /\ \A b \in DOMAIN p.plan.resident : a.plan.resident[b] = p.plan.resident[b]
    BY <1>1, Allocation
<1>3. q = [a EXCEPT !.plan.origins = With(@, t, a.slot)]
    BY DEF Originate
<1> HIDE DEF a, q, new
<1>4. /\ q = [plan |-> q.plan, memory |-> q.memory, slot |-> q.slot]
      /\ q.memory = a.memory /\ q.slot = a.slot
      /\ q.plan = [a.plan EXCEPT !.origins = With(@, t, a.slot)]
    BY <1>2, <1>3
<1>5. /\ q.plan = [buffers |-> q.plan.buffers, steps |-> q.plan.steps,
                   resident |-> q.plan.resident, origins |-> q.plan.origins,
                   reserved |-> q.plan.reserved]
      /\ q.plan.buffers = a.plan.buffers /\ q.plan.resident = a.plan.resident
      /\ q.plan.origins = With(p.plan.origins, t, a.slot) /\ q.plan.reserved = a.plan.reserved
    BY <1>2, <1>4
<1>6. /\ DOMAIN q.plan.origins = DOMAIN p.plan.origins \union {t}
      /\ q.plan.origins[t] = q.slot
      /\ \A u \in DOMAIN p.plan.origins : q.plan.origins[u] = p.plan.origins[u]
    BY <1>4, <1>5 DEF With
<1>7. /\ p.plan.buffers \in Seq(Tensors \X Spaces) /\ p.memory \in Seq(Tensors)
      /\ Len(p.memory) = Len(p.plan.buffers)
      /\ q.plan.buffers = Append(p.plan.buffers, new) /\ q.memory = Append(p.memory, t)
      /\ q.slot = Len(p.plan.buffers) + 1
    BY <1>2, <1>4, <1>5 DEF Coherent
<1>8. /\ q.plan.buffers \in Seq(Tensors \X Spaces) /\ q.memory \in Seq(Tensors)
      /\ Len(q.memory) = Len(q.plan.buffers)
      /\ DOMAIN q.plan.buffers = DOMAIN p.plan.buffers \union {q.slot}
      /\ q.slot \notin DOMAIN p.plan.buffers
      /\ q.plan.buffers[q.slot] = new /\ q.memory[q.slot] = t
      /\ \A s \in DOMAIN p.plan.buffers : /\ q.plan.buffers[s] = p.plan.buffers[s]
                                          /\ q.memory[s] = p.memory[s]
    <2>1. /\ q.plan.buffers \in Seq(Tensors \X Spaces)
          /\ DOMAIN q.plan.buffers = DOMAIN p.plan.buffers \union {q.slot}
          /\ q.slot \notin DOMAIN p.plan.buffers
          /\ q.plan.buffers[q.slot] = new /\ Len(q.plan.buffers) = Len(p.plan.buffers) + 1
          /\ \A s \in DOMAIN p.plan.buffers : q.plan.buffers[s] = p.plan.buffers[s]
        BY <1>1, <1>7, Appended
    <2>2. /\ q.memory \in Seq(Tensors) /\ Len(q.memory) = Len(p.memory) + 1
          /\ q.memory[q.slot] = t
          /\ \A s \in DOMAIN p.memory : q.memory[s] = p.memory[s]
        BY <1>7, Appended
    <2>3. DOMAIN p.memory = DOMAIN p.plan.buffers
        BY <1>7
    <2>4. QED
        BY <1>7, <2>1, <2>2, <2>3
<1>9. \A s \in DOMAIN q.plan.buffers : /\ q.memory[s] = q.plan.buffers[s][1]
                                       /\ q.plan.buffers[s] \in DOMAIN q.plan.resident
                                       /\ q.plan.resident[q.plan.buffers[s]] = s
    BY <1>1, <1>2, <1>4, <1>5, <1>8 DEF Coherent
<1>10. \A b \in DOMAIN q.plan.resident : /\ q.plan.resident[b] \in DOMAIN q.plan.buffers
                                         /\ q.plan.buffers[q.plan.resident[b]] = b
                                         /\ b[1] \in DOMAIN q.plan.origins
    BY <1>1, <1>2, <1>4, <1>5, <1>6, <1>8 DEF Coherent
<1>11. \A u \in DOMAIN q.plan.origins : /\ q.plan.origins[u] \in DOMAIN q.plan.buffers
                                        /\ q.plan.buffers[q.plan.origins[u]][1] = u
    BY <1>1, <1>6, <1>8 DEF Coherent
<1>12. q.plan.reserved = BytesOf(ToSet(q.plan.buffers))
    <2>1. new \notin ToSet(p.plan.buffers)
        BY <1>1 DEF Coherent, ToSet
    <2>2. p.plan.reserved = BytesOf(ToSet(p.plan.buffers))
        BY DEF Coherent
    <2>3. QED
        BY <1>1, <1>2, <1>5, <1>7, <2>1, <2>2, SlotAdded
<1>13. Coherent(q)
    BY <1>4, <1>5, <1>8, <1>9, <1>10, <1>11, <1>12 DEF Coherent
<1>14. QED
    BY <1>2, <1>5, <1>6, <1>8, <1>13 DEF Extends, q, a, new

\* ensure returns a slot of that tensor in that space, and adds at most that one.
LEMMA Ensured ==
    ASSUME NEW p, Coherent(p), NEW t \in Tensors, NEW space \in Spaces,
           t \in DOMAIN p.plan.origins
    PROVE  LET q == Ensure(p, t, space) IN
           /\ Coherent(q) /\ Extends(q, p, {<<t, space>>})
           /\ q.plan.origins = p.plan.origins
           /\ q.slot \in DOMAIN q.plan.buffers /\ q.plan.buffers[q.slot] = <<t, space>>
<1> DEFINE q == Ensure(p, t, space)
           a == Allocate(p, t, space, t)
           source == p.plan.origins[t]
<1>1. CASE <<t, space>> \in DOMAIN p.plan.resident
    <2>1. q = [p EXCEPT !.slot = p.plan.resident[<<t, space>>]]
        BY <1>1 DEF Ensure
    <2>2. p = [plan |-> p.plan, memory |-> p.memory, slot |-> p.slot]
        BY DEF Coherent
    <2> HIDE DEF q
    <2>3. /\ q = [plan |-> q.plan, memory |-> q.memory, slot |-> q.slot]
          /\ q.plan = p.plan /\ q.memory = p.memory
          /\ q.slot = p.plan.resident[<<t, space>>]
        BY <2>1, <2>2
    <2>4. Coherent(q) /\ q.slot \in DOMAIN q.plan.buffers /\ q.plan.buffers[q.slot] = <<t, space>>
        BY <1>1, <2>3 DEF Coherent
    <2>5. QED
        BY <1>1, <2>3, <2>4 DEF Extends, q
<1>2. CASE <<t, space>> \notin DOMAIN p.plan.resident
    <2>1. p.memory[source] = t
        BY DEF Coherent
    <2>2. q = Emit(a, "copy", <<source>>, <<a.slot>>)
        BY <1>2, <2>1 DEF Ensure
    <2>3. /\ Coherent(a) /\ Extends(a, p, {<<t, space>>})
          /\ a.plan.origins = p.plan.origins
          /\ a.slot \in DOMAIN a.plan.buffers /\ a.plan.buffers[a.slot] = <<t, space>>
        BY <1>2, AllocationCoherent
    <2> HIDE DEF a, q, source
    <2>4. /\ Coherent(q) /\ q.slot = a.slot
          /\ q.plan.buffers = a.plan.buffers /\ q.plan.resident = a.plan.resident
          /\ q.plan.origins = a.plan.origins
        BY <2>2, <2>3, Emission
    <2>5. QED
        BY <2>3, <2>4 DEF Extends, q
<1>3. QED
    BY <1>1, <1>2

\* An input that is nowhere yet is bound to the host.
LEMMA Bound ==
    ASSUME NEW p, Coherent(p), NEW t \in Tensors
    PROVE  LET q == Bind(p, t) IN
           /\ Coherent(q) /\ t \in DOMAIN q.plan.origins
           /\ Extends(q, p, IF t \in DOMAIN p.plan.origins THEN {} ELSE {<<t, Host>>})
<1> DEFINE q == Bind(p, t)
           a == Originate(Allocate(p, t, Host, t), t)
<1>1. CASE t \in DOMAIN p.plan.origins
    BY <1>1 DEF Bind, Extends
<1>2. CASE t \notin DOMAIN p.plan.origins
    <2>1. q = Emit(a, "bind_input", <<>>, <<a.slot>>)
        BY <1>2 DEF Bind
    <2>2. /\ Coherent(a) /\ Extends(a, p, {<<t, Host>>})
          /\ DOMAIN a.plan.origins = DOMAIN p.plan.origins \union {t}
        BY <1>2, Origination, ResidencyAssumption
    <2> HIDE DEF a, q
    <2>3. /\ Coherent(q)
          /\ q.plan.buffers = a.plan.buffers /\ q.plan.resident = a.plan.resident
          /\ q.plan.origins = a.plan.origins
        BY <2>1, <2>2, Emission
    <2>4. QED
        BY <1>2, <2>2, <2>3 DEF Extends, q
<1>3. QED
    BY <1>1, <1>2

-----------------------------------------------------------------------------
(* Graphs and what they require *)

\* A graph is a sequence of operations, and an operation has sequences of operands and results.
LEMMA GraphShape ==
    ASSUME graph \in Graphs
    PROVE  /\ Len(graph) \in Nat \ {0} /\ DOMAIN graph = 1 .. Len(graph)
           /\ \A i \in DOMAIN graph : /\ graph[i] \in Operations /\ graph[i].space \in Spaces
                                      /\ graph[i].inputs \in Seq(Tensors)
                                      /\ graph[i].outputs \in Seq(Tensors)
                                      /\ DOMAIN graph[i].inputs = 1 .. Len(graph[i].inputs)
                                      /\ DOMAIN graph[i].outputs = 1 .. Len(graph[i].outputs)
<1>1. graph \in Seq(Operations) /\ graph # <<>>
    BY ResidencyAssumption
<1>2. \A i \in DOMAIN graph : graph[i] \in Operations
    BY <1>1
<1>3. \A op \in Operations : /\ op.inputs \in Seq(Tensors) /\ op.outputs \in Seq(Tensors)
                             /\ op.space \in Spaces
    BY DEF Operations
<1>4. QED
    BY <1>1, <1>2, <1>3

\* What is produced, and what is consumed.
LEMMA Producing ==
    ASSUME graph \in Graphs
    PROVE  /\ \A t : t \in Produced <=> \E i \in DOMAIN graph :
                         \E k \in DOMAIN graph[i].outputs : t = graph[i].outputs[k]
           /\ \A t : t \in Consumed <=> \E i \in DOMAIN graph :
                         \E k \in DOMAIN graph[i].inputs : t = graph[i].inputs[k]
BY DEF Produced, Consumed, ToSet

\* In an accepted graph a tensor is read behind its producer only.
LEMMA ReadBehind ==
    ASSUME graph \in Graphs, BackwardUses,
           NEW i \in DOMAIN graph, NEW k \in DOMAIN graph[i].inputs,
           NEW j \in DOMAIN graph, NEW l \in DOMAIN graph[j].outputs,
           graph[i].inputs[k] = graph[j].outputs[l]
    PROVE  j < i
<1>1. graph[i].inputs[k] \in ToSet(graph[i].inputs) \intersect ToSet(graph[j].outputs)
    BY DEF ToSet
<1>2. QED
    BY <1>1 DEF BackwardUses

\* A residency is required for an operand, a result, an external input or a terminal.
LEMMA Requiring ==
    ASSUME graph \in Graphs, NEW b \in Tensors \X Spaces
    PROVE  b \in Required <=>
               \/ \E i \in DOMAIN graph : \E k \in DOMAIN graph[i].inputs :
                      /\ b[1] = graph[i].inputs[k]
                      /\ b[2] = graph[i].space \/ (b[1] \notin Produced /\ b[2] = Host)
               \/ \E i \in DOMAIN graph : \E k \in DOMAIN graph[i].outputs :
                      b[1] = graph[i].outputs[k] /\ b[2] = graph[i].space
               \/ \E i \in DOMAIN graph : \E k \in DOMAIN graph[i].outputs :
                      b[1] = graph[i].outputs[k] /\ Terminal(b[1]) /\ b[2] = Host
<1>1. b \in Required <=>
          \/ \E i \in DOMAIN graph : /\ b[1] \in ToSet(graph[i].inputs) \union ToSet(graph[i].outputs)
                                     /\ b[2] = graph[i].space
          \/ b[1] \in Consumed /\ b[1] \notin Produced /\ b[2] = Host
          \/ b[1] \in Produced /\ b[1] \notin Consumed /\ b[2] = Host
    BY DEF Required, External
<1>2. \A i \in DOMAIN graph :
          /\ b[1] \in ToSet(graph[i].inputs) <=> \E k \in DOMAIN graph[i].inputs : b[1] = graph[i].inputs[k]
          /\ b[1] \in ToSet(graph[i].outputs) <=> \E k \in DOMAIN graph[i].outputs : b[1] = graph[i].outputs[k]
    BY DEF ToSet
<1>3. QED
    <2>1. b[1] \in Produced <=> \E i \in DOMAIN graph : b[1] \in ToSet(graph[i].outputs)
        BY DEF Produced
    <2>2. b[1] \in Consumed <=> \E i \in DOMAIN graph : b[1] \in ToSet(graph[i].inputs)
        BY DEF Consumed
    <2>3. ASSUME b \in Required
          PROVE  \/ \E i \in DOMAIN graph : \E k \in DOMAIN graph[i].inputs :
                        /\ b[1] = graph[i].inputs[k]
                        /\ b[2] = graph[i].space \/ (b[1] \notin Produced /\ b[2] = Host)
                 \/ \E i \in DOMAIN graph : \E k \in DOMAIN graph[i].outputs :
                        b[1] = graph[i].outputs[k] /\ b[2] = graph[i].space
                 \/ \E i \in DOMAIN graph : \E k \in DOMAIN graph[i].outputs :
                        b[1] = graph[i].outputs[k] /\ Terminal(b[1]) /\ b[2] = Host
        <3>1. CASE \E i \in DOMAIN graph :
                       /\ b[1] \in ToSet(graph[i].inputs) \union ToSet(graph[i].outputs)
                       /\ b[2] = graph[i].space
            BY <3>1, <1>2
        <3>2. CASE b[1] \in Consumed /\ b[1] \notin Produced /\ b[2] = Host
            BY <3>2, <2>2, <1>2
        <3>3. CASE b[1] \in Produced /\ b[1] \notin Consumed /\ b[2] = Host
            BY <3>3, <2>1, <1>2 DEF Terminal
        <3>4. QED
            BY <2>3, <1>1, <3>1, <3>2, <3>3
    <2>4. ASSUME NEW i \in DOMAIN graph, NEW k \in DOMAIN graph[i].inputs, b[1] = graph[i].inputs[k],
                 b[2] = graph[i].space \/ (b[1] \notin Produced /\ b[2] = Host)
          PROVE  b \in Required
        BY <2>4, <1>1, <1>2, <2>2
    <2>5. ASSUME NEW i \in DOMAIN graph, NEW k \in DOMAIN graph[i].outputs, b[1] = graph[i].outputs[k],
                 b[2] = graph[i].space \/ (Terminal(b[1]) /\ b[2] = Host)
          PROVE  b \in Required
        BY <2>5, <1>1, <1>2, <2>1 DEF Terminal
    <2>6. QED
        BY <2>3, <2>4, <2>5

\* What the planner has met is required.
LEMMA MetRequired ==
    ASSUME graph \in Graphs, NEW b \in Tensors \X Spaces, Met(b)
    PROVE  b \in Required
BY Requiring DEF Met

\* A coherent plan has residencies of tensors in spaces, and a tensor with an origin is somewhere.
LEMMA CoherentResident ==
    ASSUME NEW p, Coherent(p)
    PROVE  /\ DOMAIN p.plan.resident \subseteq Tensors \X Spaces
           /\ \A t \in DOMAIN p.plan.origins : \E b \in DOMAIN p.plan.resident : b[1] = t
<1>1. \A s \in DOMAIN p.plan.buffers : p.plan.buffers[s] \in Tensors \X Spaces
    BY DEF Coherent
<1>2. QED
    BY <1>1 DEF Coherent


-----------------------------------------------------------------------------
(* Steps *)

\* The graph decides what is produced, consumed, accepted and required.
LEMMA SameGraph ==
    ASSUME graph' = graph
    PROVE  /\ Required' = Required /\ Produced' = Produced /\ Consumed' = Consumed
           /\ SingleProducers' <=> SingleProducers
           /\ BackwardUses' <=> BackwardUses
           /\ \A t : Terminal(t)' <=> Terminal(t)
<1>1. Produced' = Produced /\ Consumed' = Consumed
    BY DEF Produced, Consumed
<1>2. External' = External
    BY <1>1 DEF External
<1>3. Required' = Required
    BY <1>1, <1>2 DEF Required
<1>4. SingleProducers' <=> SingleProducers
    BY DEF SingleProducers
<1>5. BackwardUses' <=> BackwardUses
    BY DEF BackwardUses
<1>6. QED
    BY <1>1, <1>3, <1>4, <1>5 DEF Terminal

\* A step to the plan q, which has the residencies in new more.
LEMMA PlanStep ==
    ASSUME Planning, NEW q, NEW new \in SUBSET Required,
           Coherent(q), Extends(q, Now, new),
           plan' = q.plan, memory' = q.memory, graph' = graph
    PROVE  /\ Coherent(Now)'
           /\ Slots \subseteq Slots' /\ \A s \in Slots : plan'.buffers[s] = plan.buffers[s]
           /\ DOMAIN plan'.resident = DOMAIN plan.resident \union new
           /\ \A b \in DOMAIN plan'.resident : b \in Required'
<1>1. Now.plan = plan
    BY DEF Now
<1>2. Coherent(Now)'
    BY DEF Coherent, Now
<1>3. /\ DOMAIN plan'.resident = DOMAIN plan.resident \union new
      /\ Slots \subseteq Slots' /\ \A s \in Slots : plan'.buffers[s] = plan.buffers[s]
    BY <1>1 DEF Extends, Slots
<1>4. \A b \in DOMAIN plan'.resident : b \in Required'
    BY <1>3, SameGraph DEF Planning
<1>5. QED
    BY <1>2, <1>3, <1>4

\* A tensor that has an origin was met, and a tensor that was met has an origin.
LEMMA MetTensors ==
    ASSUME Planning, phase # "over budget"
    PROVE  /\ \A t \in DOMAIN plan.origins : \E b \in Tensors \X Spaces : b[1] = t /\ Met(b)
           /\ \A b \in Tensors \X Spaces : Met(b) => b[1] \in DOMAIN plan.origins
<1>1. Coherent(Now) /\ Now.plan = plan
    BY DEF Planning, Now
<1>2. \A b \in Tensors \X Spaces : b \in DOMAIN plan.resident <=> Met(b)
    BY DEF Planning
<1>3. DOMAIN plan.resident \subseteq Tensors \X Spaces
    BY <1>1, CoherentResident
<1>4. \A t \in DOMAIN plan.origins : \E b \in DOMAIN plan.resident : b[1] = t
    BY <1>1, CoherentResident
<1>5. \A b \in DOMAIN plan.resident : b[1] \in DOMAIN plan.origins
    BY <1>1 DEF Coherent
<1>6. QED
    BY <1>2, <1>3, <1>4, <1>5

\* A result of an operation done has its residency there.
LEMMA ResultMet ==
    ASSUME Planning, NEW i \in DOMAIN graph, NEW k \in DOMAIN graph[i].outputs, Written(i, k)
    PROVE  /\ <<graph[i].outputs[k], graph[i].space>> \in Tensors \X Spaces
           /\ Met(<<graph[i].outputs[k], graph[i].space>>)
<1>1. graph[i].outputs \in Seq(Tensors) /\ graph[i].space \in Spaces
    BY GraphShape DEF Planning
<1>2. graph[i].outputs[k] \in Tensors
    BY <1>1
<1>3. QED
    BY <1>1, <1>2 DEF Met

\* An external tensor that has an origin is on the host.
LEMMA ExternalAtHost ==
    ASSUME Planning, phase # "over budget", NEW t \in Tensors, t \notin Produced,
           t \in DOMAIN plan.origins
    PROVE  Met(<<t, Host>>)
<1>1. PICK b \in Tensors \X Spaces : b[1] = t /\ Met(b)
    BY MetTensors
<1>2. ~\E i \in DOMAIN graph : \E k \in DOMAIN graph[i].outputs : t = graph[i].outputs[k]
    BY Producing DEF Planning
<1>3. PICK i \in DOMAIN graph : \E k \in DOMAIN graph[i].inputs :
          Reached(i, k) /\ b[1] = graph[i].inputs[k]
    BY <1>1, <1>2 DEF Met
<1>4. PICK k \in DOMAIN graph[i].inputs : Reached(i, k) /\ t = graph[i].inputs[k]
    BY <1>1, <1>3
<1>5. QED
    BY <1>4 DEF Met

\* An operand of the operation at work that some operation produces has an origin.
LEMMA OperandProduced ==
    ASSUME Planning, phase = "operations", current \in DOMAIN graph,
           NEW k \in DOMAIN Op.inputs, Op.inputs[k] \in Produced
    PROVE  Op.inputs[k] \in DOMAIN plan.origins
<1>1. PICK i \in DOMAIN graph : \E l \in DOMAIN graph[i].outputs : Op.inputs[k] = graph[i].outputs[l]
    BY Producing DEF Planning
<1>2. PICK l \in DOMAIN graph[i].outputs : Op.inputs[k] = graph[i].outputs[l]
    BY <1>1
<1>3. i < current
    BY <1>2, ReadBehind DEF Planning, Op
<1>4. Written(i, l)
    BY <1>3 DEF Written, Done
<1> DEFINE b == <<graph[i].outputs[l], graph[i].space>>
<1>5. b \in Tensors \X Spaces /\ Met(b) /\ b[1] = graph[i].outputs[l]
    BY <1>4, ResultMet
<1> HIDE DEF b
<1>6. b[1] \in DOMAIN plan.origins
    BY <1>5, MetTensors
<1>7. QED
    BY <1>2, <1>5, <1>6

\* A result of the operation at work is nowhere before it is written.
LEMMA ResultNew ==
    ASSUME Planning, phase = "operations", current \in DOMAIN graph,
           NEW k \in DOMAIN Op.outputs, k = Len(outputs) + 1
    PROVE  Op.outputs[k] \notin DOMAIN plan.origins
<1> DEFINE t == Op.outputs[k]
<1>1. SUFFICES ASSUME t \in DOMAIN plan.origins PROVE FALSE
    OBVIOUS
<1>2. PICK b \in Tensors \X Spaces : b[1] = t /\ Met(b)
    BY <1>1, MetTensors
<1>3. graph \in Graphs /\ SingleProducers /\ BackwardUses /\ current \in Nat
    BY GraphShape DEF Planning
<1>4. ASSUME NEW i \in DOMAIN graph, NEW l \in DOMAIN graph[i].inputs, Reached(i, l),
             t = graph[i].inputs[l]
      PROVE  FALSE
    <2>1. current < i
        BY <1>3, <1>4, ReadBehind DEF Op
    <2>2. i \in Nat /\ i <= current
        BY <1>3, <1>4, GraphShape DEF Reached, Done
    <2>3. QED
        BY <1>3, <2>1, <2>2
<1>5. ASSUME NEW i \in DOMAIN graph, NEW l \in DOMAIN graph[i].outputs, Written(i, l),
             t = graph[i].outputs[l]
      PROVE  FALSE
    <2>1. i = current /\ l = k
        BY <1>3, <1>5 DEF Op, SingleProducers
    <2>2. Len(outputs) \in Nat
        BY DEF Planning
    <2>3. QED
        BY <1>3, <1>5, <2>1, <2>2 DEF Written, Done
<1>6. QED
    BY <1>2, <1>4, <1>5 DEF Met, Shown

\* An operand in its place: what the operation at work meets with its next input.
LEMMA NextInputPlanning ==
    ASSUME Planning, NextInput
    PROVE  Planning'
<1> DEFINE k     == Len(inputs) + 1
           t     == Op.inputs[k]
           bound == Bind(Now, t)
           q     == Ensure(bound, t, Op.space)
           atOp  == <<t, Op.space>>
           host  == <<t, Host>>
           new   == {atOp} \union (IF t \in DOMAIN plan.origins THEN {} ELSE {host})
<1>1. /\ phase = "operations" /\ current \in DOMAIN graph /\ k \in DOMAIN Op.inputs
      /\ t \in Tensors /\ Op.space \in Spaces /\ Host \in Spaces
      /\ k <= Len(Op.inputs) /\ Len(inputs) \in Nat
    <2>1. phase = "operations" /\ current \in DOMAIN graph /\ Len(inputs) < Len(Op.inputs)
        BY GraphShape DEF NextInput, Planning
    <2>2. /\ Op.inputs \in Seq(Tensors) /\ Op.space \in Spaces
          /\ DOMAIN Op.inputs = 1 .. Len(Op.inputs)
        BY <2>1, GraphShape DEF Op, Planning
    <2>3. inputs \in Seq(Nat)
        BY DEF Planning
    <2>4. QED
        BY <2>1, <2>2, <2>3, ResidencyAssumption
<1>2. Coherent(Now) /\ Now.plan = plan /\ graph \in Graphs
    BY DEF Planning, Now
<1>3. /\ Coherent(bound) /\ t \in DOMAIN bound.plan.origins
      /\ Extends(bound, Now, IF t \in DOMAIN plan.origins THEN {} ELSE {host})
    BY <1>1, <1>2, Bound
<1>4. /\ Coherent(q) /\ Extends(q, bound, {atOp})
      /\ q.slot \in DOMAIN q.plan.buffers /\ q.plan.buffers[q.slot] = atOp
    BY <1>1, <1>3, Ensured
<1>5. Extends(q, Now, new)
    BY <1>3, <1>4 DEF Extends
<1>6. /\ plan' = q.plan /\ memory' = q.memory /\ graph' = graph
      /\ phase' \in {"operations", "over budget"}
      /\ inputs' = Append(inputs, q.slot)
      /\ current' = current /\ outputs' = outputs /\ item' = item
    BY DEF NextInput, Becomes
<1>7. /\ t \in Produced => t \in DOMAIN plan.origins
      /\ t \in DOMAIN plan.origins /\ t \notin Produced => Met(host)
    BY <1>1, OperandProduced, ExternalAtHost
<1>8. atOp \in Required /\ (t \notin Produced => host \in Required)
    BY <1>1, <1>2, Requiring DEF Op
<1>9. new \subseteq Required
    BY <1>7, <1>8
<1> HIDE DEF q, bound
<1>10. /\ Coherent(Now)'
       /\ Slots \subseteq Slots' /\ \A s \in Slots : plan'.buffers[s] = plan.buffers[s]
       /\ DOMAIN plan'.resident = DOMAIN plan.resident \union new
       /\ \A b \in DOMAIN plan'.resident : b \in Required'
    BY <1>4, <1>5, <1>6, <1>9, PlanStep
<1>11. /\ inputs' \in Seq(Nat) /\ Len(inputs') = k /\ DOMAIN inputs' = DOMAIN inputs \union {k}
       /\ inputs'[k] = q.slot /\ \A l \in DOMAIN inputs : inputs'[l] = inputs[l]
       /\ \A l \in DOMAIN inputs' : inputs'[l] \in Slots'
       /\ \A l \in DOMAIN outputs' : outputs'[l] \in Slots'
    <2>1. inputs \in Seq(Nat) /\ q.slot \in Slots' /\ Slots' \subseteq Nat
        <3>1. q.plan.buffers \in Seq(Tensors \X Spaces)
            BY <1>4 DEF Coherent
        <3>2. DOMAIN q.plan.buffers \subseteq Nat
            BY <3>1
        <3>3. QED
            BY <1>4, <1>6, <3>2 DEF Planning, Slots
    <2>2. q.slot \in Nat
        BY <2>1
    <2>3. /\ inputs' \in Seq(Nat) /\ Len(inputs') = k /\ DOMAIN inputs' = DOMAIN inputs \union {k}
          /\ inputs'[k] = q.slot /\ \A l \in DOMAIN inputs : inputs'[l] = inputs[l]
        <3>1. inputs' = Append(inputs, q.slot)
            BY <1>6
        <3>2. QED
            BY <2>1, <2>2, <3>1, Appended
    <2>4. /\ \A l \in DOMAIN inputs : inputs[l] \in Slots
          /\ \A l \in DOMAIN outputs : outputs[l] \in Slots
        BY DEF Planning
    <2>5. QED
        BY <1>6, <1>10, <2>1, <2>3, <2>4
<1>12. OperandsInPlace'
    <2>1. \A l \in DOMAIN inputs : plan.buffers[inputs[l]] = <<Op.inputs[l], Op.space>> /\ inputs[l] \in Slots
        BY <1>1 DEF Planning, OperandsInPlace
    <2>2. plan'.buffers[inputs'[k]] = <<Op.inputs[k], Op.space>>
        BY <1>4, <1>6, <1>11
    <2>3. \A l \in DOMAIN inputs' : plan'.buffers[inputs'[l]] = <<Op.inputs[l], Op.space>>
        BY <1>10, <1>11, <2>1, <2>2
    <2>4. Len(outputs) <= Len(Op.outputs)
        BY <1>1 DEF Planning, OperandsInPlace
    <2>5. QED
        BY <1>1, <1>6, <1>11, <2>3, <2>4 DEF OperandsInPlace, Op
<1>13. ASSUME phase' # "over budget", NEW b \in Tensors \X Spaces
       PROVE  b \in DOMAIN plan'.resident <=> Met(b)'
    <2>1. \A i \in DOMAIN graph : \A l \in DOMAIN graph[i].inputs :
              Reached(i, l)' <=> Reached(i, l) \/ (i = current /\ l = k)
        <3>1. \A i \in DOMAIN graph : DOMAIN graph[i].inputs \subseteq Nat
            BY <1>2, GraphShape
        <3>2. ASSUME NEW i \in DOMAIN graph, NEW l \in DOMAIN graph[i].inputs
              PROVE  Reached(i, l)' <=> Reached(i, l) \/ (i = current /\ l = k)
            <4>1. l \in Nat /\ phase = "operations" /\ phase' = "operations" /\ current' = current
                BY <1>1, <1>6, <1>13, <3>1
            <4>2. Len(inputs') = Len(inputs) + 1 /\ Len(inputs) \in Nat
                BY <1>1, <1>11
            <4>3. QED
                BY <4>1, <4>2 DEF Reached, Done
        <3>3. QED
            BY <3>2
    <2>2. \A i, l : (Written(i, l)' <=> Written(i, l)) /\ (Shown(i, l)' <=> Shown(i, l))
        BY <1>1, <1>6, <1>13 DEF Written, Shown, Done
    <2>3. Met(b)' <=> \/ Met(b)
                      \/ b[1] = t /\ (b[2] = Op.space \/ (b[1] \notin Produced /\ b[2] = Host))
        BY <1>1, <1>6, <2>1, <2>2, SameGraph DEF Met, Op
    <2>4. b = <<b[1], b[2]>>
        OBVIOUS
    <2>5. b \in DOMAIN plan.resident <=> Met(b)
        BY <1>1 DEF Planning
    <2>6. QED
        BY <1>7, <1>10, <2>3, <2>4, <2>5
<1>14. QED
    BY <1>1, <1>6, <1>10, <1>11, <1>12, <1>13, SameGraph DEF Planning

\* A result in its place: it holds what the operation computes, and it is nowhere else.
LEMMA NextOutputPlanning ==
    ASSUME Planning, NextOutput
    PROVE  Planning'
<1> DEFINE k    == Len(outputs) + 1
           t    == Op.outputs[k]
           atOp == <<t, Op.space>>
           q    == Originate(Allocate(Now, t, Op.space, t), t)
<1>1. /\ phase = "operations" /\ current \in DOMAIN graph /\ k \in DOMAIN Op.outputs
      /\ Len(inputs) = Len(Op.inputs)
      /\ t \in Tensors /\ Op.space \in Spaces
      /\ k <= Len(Op.outputs) /\ Len(outputs) \in Nat /\ Len(inputs) \in Nat
    <2>1. /\ phase = "operations" /\ current \in DOMAIN graph /\ Len(outputs) < Len(Op.outputs)
          /\ Len(inputs) = Len(Op.inputs)
        BY GraphShape DEF NextOutput, InputsReady, Planning
    <2>2. /\ Op.outputs \in Seq(Tensors) /\ Op.space \in Spaces
          /\ DOMAIN Op.outputs = 1 .. Len(Op.outputs)
        BY <2>1, GraphShape DEF Op, Planning
    <2>3. outputs \in Seq(Nat) /\ inputs \in Seq(Nat)
        BY DEF Planning
    <2>4. QED
        BY <2>1, <2>2, <2>3
<1>2. Coherent(Now) /\ Now.plan = plan /\ Now.memory = memory /\ graph \in Graphs
    BY DEF Planning, Now
<1>3. Computed(t) = t
    <2>1. \A l \in DOMAIN inputs : /\ inputs[l] \in Slots
                                   /\ plan.buffers[inputs[l]] = <<Op.inputs[l], Op.space>>
        BY <1>1 DEF Planning, OperandsInPlace
    <2>2. \A s \in Slots : memory[s] = plan.buffers[s][1]
        BY <1>2 DEF Coherent, Slots
    <2>3. QED
        BY <2>1, <2>2 DEF Computed
<1>4. t \notin DOMAIN plan.origins
    BY <1>1, ResultNew
<1>5. /\ Coherent(q) /\ Extends(q, Now, {atOp})
      /\ q.slot \in DOMAIN q.plan.buffers /\ q.plan.buffers[q.slot] = atOp
    <2>1. t \notin DOMAIN Now.plan.origins
        BY <1>2, <1>4
    <2> HIDE DEF t, k
    <2>2. QED
        BY <1>1, <1>2, <2>1, Origination
<1>6. /\ plan' = q.plan /\ memory' = q.memory /\ graph' = graph
      /\ phase' \in {"operations", "over budget"}
      /\ outputs' = Append(outputs, q.slot)
      /\ current' = current /\ inputs' = inputs /\ item' = item
    BY <1>3 DEF NextOutput, Becomes
<1>7. {atOp} \subseteq Required
    BY <1>1, <1>2, Requiring DEF Op
<1> HIDE DEF q
<1>8. /\ Coherent(Now)'
      /\ Slots \subseteq Slots' /\ \A s \in Slots : plan'.buffers[s] = plan.buffers[s]
      /\ DOMAIN plan'.resident = DOMAIN plan.resident \union {atOp}
      /\ \A b \in DOMAIN plan'.resident : b \in Required'
    BY <1>5, <1>6, <1>7, PlanStep
<1>9. /\ outputs' \in Seq(Nat) /\ Len(outputs') = k
      /\ \A l \in DOMAIN inputs' : inputs'[l] \in Slots'
      /\ \A l \in DOMAIN outputs' : outputs'[l] \in Slots'
    <2>1. outputs \in Seq(Nat) /\ q.slot \in Slots' /\ q.slot \in Nat
        <3>1. q.plan.buffers \in Seq(Tensors \X Spaces)
            BY <1>5 DEF Coherent
        <3>2. DOMAIN q.plan.buffers \subseteq Nat
            BY <3>1
        <3>3. QED
            BY <1>5, <1>6, <3>2 DEF Planning, Slots
    <2>2. outputs' = Append(outputs, q.slot)
        BY <1>6
    <2>3. /\ outputs' \in Seq(Nat) /\ Len(outputs') = k /\ DOMAIN outputs' = DOMAIN outputs \union {k}
          /\ outputs'[k] = q.slot /\ \A l \in DOMAIN outputs : outputs'[l] = outputs[l]
        BY <2>1, <2>2, Appended
    <2>4. /\ \A l \in DOMAIN inputs : inputs[l] \in Slots
          /\ \A l \in DOMAIN outputs : outputs[l] \in Slots
        BY DEF Planning
    <2>5. QED
        BY <1>6, <1>8, <2>1, <2>3, <2>4
<1>10. OperandsInPlace'
    <2>1. \A l \in DOMAIN inputs : plan.buffers[inputs[l]] = <<Op.inputs[l], Op.space>> /\ inputs[l] \in Slots
        BY <1>1 DEF Planning, OperandsInPlace
    <2>2. \A l \in DOMAIN inputs : plan'.buffers[inputs[l]] = <<Op.inputs[l], Op.space>>
        BY <1>8, <2>1
    <2>3. Op' = Op /\ graph' = graph /\ current' = current /\ inputs' = inputs
        BY <1>6 DEF Op
    <2>4. Len(inputs) <= Len(Op.inputs)
        BY <1>1
    <2>5. QED
        BY <1>1, <1>9, <2>2, <2>3, <2>4 DEF OperandsInPlace
<1>11. ASSUME phase' # "over budget", NEW b \in Tensors \X Spaces
       PROVE  b \in DOMAIN plan'.resident <=> Met(b)'
    <2>1. \A i \in DOMAIN graph : \A l \in DOMAIN graph[i].outputs :
              Written(i, l)' <=> Written(i, l) \/ (i = current /\ l = k)
        <3>1. \A i \in DOMAIN graph : DOMAIN graph[i].outputs \subseteq Nat
            BY <1>2, GraphShape
        <3>2. ASSUME NEW i \in DOMAIN graph, NEW l \in DOMAIN graph[i].outputs
              PROVE  Written(i, l)' <=> Written(i, l) \/ (i = current /\ l = k)
            <4>1. l \in Nat /\ phase = "operations" /\ phase' = "operations" /\ current' = current
                BY <1>1, <1>6, <1>11, <3>1
            <4>2. Len(outputs') = Len(outputs) + 1 /\ Len(outputs) \in Nat
                BY <1>1, <1>9
            <4>3. QED
                BY <4>1, <4>2 DEF Written, Done
        <3>3. QED
            BY <3>2
    <2>2. \A i, l : (Reached(i, l)' <=> Reached(i, l)) /\ (Shown(i, l)' <=> Shown(i, l))
        BY <1>1, <1>6, <1>11 DEF Reached, Shown, Done
    <2>3. Met(b)' <=> Met(b) \/ (b[1] = t /\ b[2] = Op.space)
        BY <1>1, <1>6, <2>1, <2>2, SameGraph DEF Met, Op
    <2>4. b = <<b[1], b[2]>>
        OBVIOUS
    <2>5. b \in DOMAIN plan.resident <=> Met(b)
        BY <1>1 DEF Planning
    <2>6. QED
        BY <1>8, <2>3, <2>4, <2>5
<1>12. QED
    BY <1>1, <1>6, <1>8, <1>9, <1>10, <1>11, SameGraph DEF Planning

\* A terminal tensor comes to the host, and others need not.
LEMMA PublishPlanning ==
    ASSUME Planning, Publish
    PROVE  Planning'
<1> DEFINE t      == Op.outputs[item]
           atHost == <<t, Host>>
           a      == Ensure(Now, t, Host)
           q      == Emit(a, "publish_output", <<a.slot>>, <<>>)
<1>1. /\ phase = "publish" /\ current \in DOMAIN graph /\ item \in DOMAIN Op.outputs
      /\ t \in Tensors /\ Host \in Spaces /\ item \in Nat /\ current \in Nat
      /\ graph' = graph /\ current' = current /\ item' = item + 1
      /\ inputs' = inputs /\ outputs' = outputs
    <2>1. /\ phase = "publish" /\ current \in DOMAIN graph /\ item <= Len(Op.outputs)
          /\ item \in Nat \ {0} /\ current \in Nat
          /\ graph' = graph /\ current' = current /\ item' = item + 1
          /\ inputs' = inputs /\ outputs' = outputs
        BY GraphShape DEF Publish, Planning
    <2>2. Op.outputs \in Seq(Tensors) /\ DOMAIN Op.outputs = 1 .. Len(Op.outputs)
        BY <2>1, GraphShape DEF Op, Planning
    <2>3. QED
        BY <2>1, <2>2, ResidencyAssumption
<1>2. Coherent(Now) /\ Now.plan = plan /\ graph \in Graphs
    BY DEF Planning, Now
<1>3. \A i \in DOMAIN graph : \A l \in DOMAIN graph[i].outputs : l \in Nat /\ i \in Nat
    BY <1>2, GraphShape
<1>4. ASSUME phase' = "publish", NEW b \in Tensors \X Spaces
      PROVE  Met(b)' <=> Met(b) \/ (b = atHost /\ Terminal(t))
    <2>1. \A i \in DOMAIN graph : \A l \in DOMAIN graph[i].outputs :
              Shown(i, l)' <=> Shown(i, l) \/ (i = current /\ l = item)
        BY <1>1, <1>3, <1>4 DEF Shown
    <2>2. \A i, l : (Reached(i, l)' <=> Reached(i, l)) /\ (Written(i, l)' <=> Written(i, l))
        BY <1>1, <1>4 DEF Reached, Written, Done
    <2>3. Met(b)' <=> Met(b) \/ (b[1] = t /\ b[2] = Host /\ Terminal(t))
        BY <1>1, <2>1, <2>2, SameGraph DEF Met, Op
    <2>4. QED
        BY <2>3
<1>5. \A l \in DOMAIN inputs : inputs[l] \in Slots
    BY DEF Planning
<1>6. \A l \in DOMAIN outputs : outputs[l] \in Slots
    BY DEF Planning
<1>7. CASE Terminal(t)
    <2>1. t \in DOMAIN plan.origins
        <3> DEFINE b == <<graph[current].outputs[item], graph[current].space>>
        <3>1. Written(current, item)
            BY <1>1 DEF Written, Done
        <3>2. b \in Tensors \X Spaces /\ Met(b) /\ b[1] = t
            BY <1>1, <3>1, ResultMet DEF Op
        <3> HIDE DEF b
        <3>3. QED
            BY <1>1, <3>2, MetTensors
    <2>2. Coherent(a) /\ Extends(a, Now, {atHost})
        BY <1>1, <1>2, <2>1, Ensured
    <2>3. /\ plan' = q.plan /\ memory' = q.memory /\ phase' \in {"publish", "over budget"}
        BY <1>1, <1>7 DEF Publish, Becomes
    <2> HIDE DEF a
    <2>4. Coherent(q) /\ Extends(q, Now, {atHost})
        BY <2>2, Emission DEF Extends
    <2>5. {atHost} \subseteq Required
        BY <1>1, <1>2, <1>7, Requiring DEF Op
    <2> HIDE DEF q
    <2>6. /\ Coherent(Now)'
          /\ Slots \subseteq Slots' /\ \A s \in Slots : plan'.buffers[s] = plan.buffers[s]
          /\ DOMAIN plan'.resident = DOMAIN plan.resident \union {atHost}
          /\ \A b \in DOMAIN plan'.resident : b \in Required'
        BY <1>1, <2>3, <2>4, <2>5, PlanStep
    <2>7. phase' # "over budget" =>
              \A b \in Tensors \X Spaces : b \in DOMAIN plan'.resident <=> Met(b)'
        BY <1>1, <1>4, <1>7, <2>3, <2>6 DEF Planning
    <2>8. /\ \A l \in DOMAIN inputs' : inputs'[l] \in Slots'
          /\ \A l \in DOMAIN outputs' : outputs'[l] \in Slots'
        BY <1>1, <1>5, <1>6, <2>6
    <2>9. item' \in Nat \ {0} /\ current' \in 1 .. Len(graph') + 1
        BY <1>1 DEF Planning
    <2>10. QED
        BY <1>1, <2>3, <2>6, <2>7, <2>8, <2>9, SameGraph DEF Planning
<1>8. CASE ~Terminal(t)
    <2>1. phase' = phase /\ plan' = plan /\ memory' = memory
        BY <1>1, <1>8 DEF Publish
    <2>2. Coherent(Now)' /\ Slots' = Slots
        BY <1>2, <2>1 DEF Coherent, Now, Slots
    <2>3. \A b \in Tensors \X Spaces : b \in DOMAIN plan'.resident <=> Met(b)'
        BY <1>1, <1>4, <1>8, <2>1 DEF Planning
    <2>4. QED
        BY <1>1, <1>5, <1>6, <2>1, <2>2, <2>3, SameGraph DEF Planning
<1>9. QED
    BY <1>7, <1>8

\* A step that leaves graph, plan and memory alone keeps what they are.
LEMMA SamePlan ==
    ASSUME Planning, UNCHANGED <<graph, plan, memory>>
    PROVE  /\ graph' \in Graphs /\ Coherent(Now)' /\ Slots' = Slots
           /\ \A b \in DOMAIN plan'.resident : b \in Required'
BY SameGraph DEF Planning, Coherent, Now, Slots

\* The steps between operations and between phases meet nothing new.
LEMMA ControlPlanning ==
    ASSUME Planning, Reject \/ Accept \/ Execute \/ AllExecuted \/ NextProducer \/ Finish
    PROVE  Planning'
<1>1. CASE Reject
    <2>1. /\ UNCHANGED <<graph, current, inputs, outputs, item, plan, memory>>
          /\ phase = "check" /\ phase' = "rejected"
        BY <1>1 DEF Reject
    <2>2. \A b : Met(b)' <=> Met(b)
        BY <2>1, SameGraph DEF Met, Reached, Written, Shown, Done
    <2>3. QED
        BY <2>1, <2>2, SamePlan, SameGraph DEF Planning
<1>2. CASE Accept
    <2>1. /\ UNCHANGED <<graph, current, inputs, outputs, item, plan, memory>>
          /\ phase = "check" /\ phase' = "operations" /\ SingleProducers /\ BackwardUses
        BY <1>2 DEF Accept
    <2>2. \A b : Met(b)' <=> Met(b)
        BY <2>1, SameGraph DEF Met, Reached, Written, Shown, Done
    <2>3. OperandsInPlace'
        BY <2>1 DEF Planning, OperandsInPlace, Op
    <2>4. QED
        BY <2>1, <2>2, <2>3, SamePlan, SameGraph DEF Planning
<1>3. CASE Execute
    <2>1. /\ UNCHANGED <<graph, phase, item, memory>> /\ phase = "operations"
          /\ current \in DOMAIN graph /\ current' = current + 1 /\ current \in Nat
          /\ inputs' = <<>> /\ outputs' = <<>>
          /\ Len(inputs) = Len(Op.inputs) /\ Len(outputs) = Len(Op.outputs)
          /\ plan' = Emit(Now, "execute", inputs, outputs).plan
        BY <1>3, GraphShape DEF Execute, InputsReady, Planning
    <2> DEFINE q == Emit(Now, "execute", inputs, outputs)
    <2>2. Coherent(Now) /\ Now.memory = memory /\ Now.plan = plan
        BY DEF Planning, Now
    <2>3. Coherent(q) /\ Extends(q, Now, {}) /\ q.memory = memory
        BY <2>2, Emission DEF Extends
    <2>4. plan' = q.plan /\ memory' = q.memory /\ graph' = graph /\ {} \in SUBSET Required
        BY <2>1, <2>3
    <2> HIDE DEF q
    <2>5. /\ Coherent(Now)' /\ DOMAIN plan'.resident = DOMAIN plan.resident \union {}
          /\ \A b \in DOMAIN plan'.resident : b \in Required'
        BY <2>3, <2>4, PlanStep
    <2>6. \A i \in DOMAIN graph : /\ i \in Nat
                                  /\ \A l \in DOMAIN graph[i].inputs : l \in 1 .. Len(graph[i].inputs)
                                  /\ \A l \in DOMAIN graph[i].outputs : l \in 1 .. Len(graph[i].outputs)
        <3>1. graph \in Graphs
            BY DEF Planning
        <3>2. QED
            BY <3>1, GraphShape
    <2>7. \A i \in DOMAIN graph : /\ \A l \in DOMAIN graph[i].inputs : Reached(i, l)' <=> Reached(i, l)
                                  /\ \A l \in DOMAIN graph[i].outputs : Written(i, l)' <=> Written(i, l)
        BY <2>1, <2>6 DEF Reached, Written, Done, Op
    <2>8. \A i, l : Shown(i, l)' <=> Shown(i, l)
        BY <2>1 DEF Shown
    <2>9. \A b : Met(b)' <=> Met(b)
        BY <2>1, <2>7, <2>8, SameGraph DEF Met
    <2>10. OperandsInPlace'
        <3>1. current' \in DOMAIN graph => /\ graph[current'].inputs \in Seq(Tensors)
                                           /\ graph[current'].outputs \in Seq(Tensors)
            BY GraphShape DEF Planning
        <3>2. QED
            BY <2>1, <3>1 DEF OperandsInPlace, Op
    <2>11. current' \in 1 .. Len(graph) + 1
        BY <2>1, GraphShape DEF Planning
    <2>12. QED
        BY <2>1, <2>5, <2>9, <2>10, <2>11, SameGraph DEF Planning
<1>4. CASE AllExecuted
    <2>1. /\ UNCHANGED <<graph, inputs, outputs, plan, memory>> /\ phase = "operations"
          /\ phase' = "publish" /\ current' = 1 /\ item' = 1 /\ current > Len(graph)
        BY <1>4 DEF AllExecuted
    <2>2. \A i \in DOMAIN graph : /\ i \in Nat /\ i >= 1 /\ i < current
                                  /\ \A l \in DOMAIN graph[i].outputs : l \in Nat /\ l >= 1
        BY <2>1, GraphShape DEF Planning
    <2>3. \A i \in DOMAIN graph : \A l : /\ Reached(i, l)' <=> Reached(i, l)
                                         /\ Written(i, l)' <=> Written(i, l)
        BY <2>1, <2>2 DEF Reached, Written, Done
    <2>4. \A i \in DOMAIN graph : \A l \in DOMAIN graph[i].outputs : ~Shown(i, l)' /\ ~Shown(i, l)
        BY <2>1, <2>2 DEF Shown
    <2>5. \A b : Met(b)' <=> Met(b)
        BY <2>1, <2>3, <2>4, SameGraph DEF Met
    <2>6. current' \in 1 .. Len(graph) + 1
        BY <2>1, GraphShape DEF Planning
    <2>7. QED
        BY <2>1, <2>5, <2>6, SamePlan, SameGraph DEF Planning
<1>5. CASE NextProducer
    <2>1. /\ UNCHANGED <<graph, phase, inputs, outputs, plan, memory>> /\ phase = "publish"
          /\ current \in DOMAIN graph /\ current \in Nat /\ current' = current + 1 /\ item' = 1
          /\ item > Len(graph[current].outputs) /\ item \in Nat
        BY <1>5, GraphShape DEF NextProducer, Planning, Op
    <2>2. \A i \in DOMAIN graph : /\ i \in Nat
                                  /\ \A l \in DOMAIN graph[i].outputs : l \in 1 .. Len(graph[i].outputs)
                                  /\ Len(graph[i].outputs) \in Nat
        <3>1. graph \in Graphs
            BY DEF Planning
        <3>2. QED
            BY <3>1, GraphShape
    <2>3. \A i \in DOMAIN graph : \A l \in DOMAIN graph[i].outputs : Shown(i, l)' <=> Shown(i, l)
        BY <2>1, <2>2 DEF Shown
    <2>4. \A i, l : (Reached(i, l)' <=> Reached(i, l)) /\ (Written(i, l)' <=> Written(i, l))
        BY <2>1 DEF Reached, Written, Done
    <2>5. \A b : Met(b)' <=> Met(b)
        BY <2>1, <2>3, <2>4, SameGraph DEF Met
    <2>6. current' \in 1 .. Len(graph) + 1
        BY <2>1, GraphShape DEF Planning
    <2>7. QED
        BY <2>1, <2>5, <2>6, SamePlan, SameGraph DEF Planning
<1>6. CASE Finish
    <2>1. /\ UNCHANGED <<graph, current, inputs, outputs, item, plan, memory>>
          /\ phase = "publish" /\ phase' = "planned" /\ current > Len(graph)
        BY <1>6 DEF Finish
    <2>2. \A i \in DOMAIN graph : i < current
        BY <2>1, GraphShape DEF Planning
    <2>3. \A i \in DOMAIN graph : \A l : Shown(i, l)' <=> Shown(i, l)
        BY <2>1, <2>2 DEF Shown
    <2>4. \A i, l : (Reached(i, l)' <=> Reached(i, l)) /\ (Written(i, l)' <=> Written(i, l))
        BY <2>1 DEF Reached, Written, Done
    <2>5. \A b : Met(b)' <=> Met(b)
        BY <2>1, <2>3, <2>4, SameGraph DEF Met
    <2>6. QED
        BY <2>1, <2>5, SamePlan, SameGraph DEF Planning
<1>7. QED
    BY <1>1, <1>2, <1>3, <1>4, <1>5, <1>6

LEMMA InitPlanning == Init => Planning
<1> SUFFICES ASSUME Init PROVE Planning
    OBVIOUS
<1>1. /\ graph \in Graphs /\ phase = "check" /\ current = 1 /\ item = 1
      /\ inputs = <<>> /\ outputs = <<>> /\ plan = EmptyPlan /\ memory = <<>>
    BY DEF Init
<1>2. plan = [buffers |-> <<>>, steps |-> <<>>, resident |-> <<>>, origins |-> <<>>, reserved |-> 0]
    BY <1>1 DEF EmptyPlan
<1>3. Coherent(Now)
    <2>1. Now = [plan |-> plan, memory |-> <<>>, slot |-> 0]
        BY <1>1 DEF Now
    <2>2. plan.buffers = <<>> /\ plan.resident = <<>> /\ plan.origins = <<>>
        BY <1>2
    <2>3. Now.plan = plan /\ Now.memory = <<>> /\ Now.slot = 0
        BY <2>1
    <2>4. plan = [buffers |-> plan.buffers, steps |-> plan.steps, resident |-> plan.resident,
                  origins |-> plan.origins, reserved |-> plan.reserved]
        BY <1>2
    <2>5. \A S : <<>> \in Seq(S)
        OBVIOUS
    <2> HIDE DEF Now
    <2>6. /\ Now.plan.buffers = <<>> /\ DOMAIN Now.plan.buffers = {}
          /\ DOMAIN Now.plan.resident = {} /\ DOMAIN Now.plan.origins = {}
          /\ Len(Now.memory) = Len(Now.plan.buffers)
        BY <2>2, <2>3
    <2>7. Now = [plan |-> Now.plan, memory |-> Now.memory, slot |-> Now.slot]
        BY <2>1, <2>3
    <2>8. Now.plan = [buffers |-> Now.plan.buffers, steps |-> Now.plan.steps,
                      resident |-> Now.plan.resident, origins |-> Now.plan.origins,
                      reserved |-> Now.plan.reserved]
        BY <2>3, <2>4
    <2>9. Now.plan.buffers \in Seq(Tensors \X Spaces) /\ Now.memory \in Seq(Tensors)
        BY <2>3, <2>5, <2>6
    <2>10. Now.plan.reserved = BytesOf(ToSet(Now.plan.buffers))
        <3>1. Now.plan.reserved = 0 /\ ToSet(Now.plan.buffers) = {}
            BY <1>2, <2>3, <2>6 DEF ToSet
        <3>2. QED
            BY <3>1, NoBytes
    <2>11. QED
        BY <2>6, <2>7, <2>8, <2>9, <2>10 DEF Coherent
<1>4. /\ Len(graph) \in Nat \ {0}
      /\ \A i \in DOMAIN graph : /\ i \in Nat /\ i >= 1
                                 /\ \A k \in DOMAIN graph[i].inputs : k \in Nat /\ k >= 1
                                 /\ \A k \in DOMAIN graph[i].outputs : k \in Nat /\ k >= 1
    BY <1>1, GraphShape
<1>5. \A b : ~Met(b)
    BY <1>1, <1>4 DEF Met, Reached, Written, Shown, Done
<1>6. OperandsInPlace
    <2>1. \A i \in DOMAIN graph : graph[i].inputs \in Seq(Tensors) /\ graph[i].outputs \in Seq(Tensors)
        BY <1>1, GraphShape
    <2>2. QED
        BY <1>1, <2>1 DEF OperandsInPlace, Op
<1>7. DOMAIN plan.resident = {}
    BY <1>2
<1>8. QED
    BY <1>1, <1>3, <1>4, <1>5, <1>6, <1>7 DEF Planning

LEMMA NextPlanning == Planning /\ [Next]_vars => Planning'
<1> SUFFICES ASSUME Planning, [Next]_vars PROVE Planning'
    OBVIOUS
<1>1. CASE UNCHANGED vars
    <2>1. UNCHANGED <<graph, phase, current, inputs, outputs, item, plan, memory>>
        BY <1>1 DEF vars
    <2>2. \A b : Met(b)' <=> Met(b)
        BY <2>1, SameGraph DEF Met, Reached, Written, Shown, Done
    <2>3. OperandsInPlace' <=> OperandsInPlace
        BY <2>1 DEF OperandsInPlace, Op
    <2>4. QED
        BY <2>1, <2>2, <2>3, SamePlan, SameGraph DEF Planning
<1>2. CASE NextInput
    BY <1>2, NextInputPlanning
<1>3. CASE NextOutput
    BY <1>3, NextOutputPlanning
<1>4. CASE Publish
    BY <1>4, PublishPlanning
<1>5. CASE Reject \/ Accept \/ Execute \/ AllExecuted \/ NextProducer \/ Finish
    BY <1>5, ControlPlanning
<1>6. QED
    BY <1>1, <1>2, <1>3, <1>4, <1>5 DEF Next

\* The invariant of the planner: slots, residencies, origins and memory agree, and the
\* residencies are the ones met so far.
THEOREM AlwaysPlanning == Spec => []Planning
BY InitPlanning, NextPlanning, PTL DEF Spec

-----------------------------------------------------------------------------
(* The schedule *)

Kinds  == {"bind_input", "copy", "execute", "publish_output"}
Events == [kind : Kinds, inputs : Seq(Nat), outputs : Seq(Nat)]

\* The slots some event of the schedule writes.
WrittenSlots(p) == UNION {ToSet(p.steps[e].outputs) : e \in DOMAIN p.steps}

\* Every event so far is in order, and every slot but the pending ones is written.
Scheduled(p, pending) ==
    /\ p.steps \in Seq(Events)
    /\ \A e \in DOMAIN p.steps : Meaningful(p, e) /\ WellTimed(p, e)
    /\ pending \subseteq DOMAIN p.buffers
    /\ WrittenSlots(p) = DOMAIN p.buffers \ pending

\* Results are written at the end of an operation, behind all its operands.
ResultsPending ==
    /\ phase = "operations" /\ current \in DOMAIN graph =>
           /\ Len(inputs) < Len(Op.inputs) => outputs = <<>>
           /\ \A k \in DOMAIN outputs : plan.buffers[outputs[k]] = <<Op.outputs[k], Op.space>>
    /\ phase = "publish" => outputs = <<>>

Executed ==
    phase \in {"operations", "publish", "planned"} =>
        \A i \in DOMAIN graph : Done(i) => \E e \in DOMAIN plan.steps : Performs(plan, e, i)

\* The events that publish, and the tensor each of them publishes.
Publications(p) == {e \in DOMAIN p.steps : p.steps[e].kind = "publish_output"}
PublishedBy(p, e)  == p.buffers[p.steps[e].inputs[1]][1]

\* The terminals of the operations shown so far are published, in order.
InOrder ==
    /\ phase \in {"check", "operations"} => Publications(plan) = {}
    /\ phase \in {"publish", "planned"} =>
           /\ \A e \in Publications(plan) :
                 \E i \in DOMAIN graph : \E k \in DOMAIN graph[i].outputs :
                     Shown(i, k) /\ PublishedBy(plan, e) = graph[i].outputs[k]
           /\ \A i \in DOMAIN graph : \A k \in DOMAIN graph[i].outputs :
                 Shown(i, k) /\ Terminal(graph[i].outputs[k]) =>
                     \E e \in Publications(plan) : PublishedBy(plan, e) = graph[i].outputs[k]
           /\ \A d, e \in Publications(plan) :
                 d < e => ProducedBefore(PublishedBy(plan, d), PublishedBy(plan, e))

Scheduling == Scheduled(plan, ToSet(outputs)) /\ ResultsPending /\ Executed /\ InOrder

\* The plan Q is P with more slots and more events, the new ones of these kinds.
Grown(Q, P, kinds) ==
    /\ DOMAIN P.buffers \subseteq DOMAIN Q.buffers
    /\ \A s \in DOMAIN P.buffers : Q.buffers[s] = P.buffers[s]
    /\ DOMAIN P.steps \subseteq DOMAIN Q.steps
    /\ \A e \in DOMAIN P.steps : Q.steps[e] = P.steps[e]
    /\ \A e \in DOMAIN Q.steps : e \in DOMAIN P.steps \/ Q.steps[e].kind \in kinds

\* An event of a schedule has slots that exist, and they are written by then.
LEMMA EventSlots ==
    ASSUME NEW P, NEW pending, Scheduled(P, pending), NEW e \in DOMAIN P.steps
    PROVE  /\ P.steps[e].inputs \in Seq(Nat) /\ P.steps[e].outputs \in Seq(Nat)
           /\ \A k \in DOMAIN P.steps[e].inputs : P.steps[e].inputs[k] \in DOMAIN P.buffers
           /\ \A k \in DOMAIN P.steps[e].outputs : P.steps[e].outputs[k] \in DOMAIN P.buffers
<1>1. P.steps[e] \in Events /\ 1 .. e - 1 \subseteq DOMAIN P.steps
    BY DEF Scheduled
<1>2. P.steps[e].inputs \in Seq(Nat) /\ P.steps[e].outputs \in Seq(Nat)
    BY <1>1 DEF Events
<1>3. /\ ToSet(P.steps[e].inputs) \subseteq UNION {ToSet(P.steps[d].outputs) : d \in 1 .. e - 1}
      /\ WrittenSlots(P) \subseteq DOMAIN P.buffers
    BY DEF Scheduled, WellTimed
<1>4. \A d \in DOMAIN P.steps : ToSet(P.steps[d].outputs) \subseteq DOMAIN P.buffers
    BY <1>3 DEF WrittenSlots
<1>5. ToSet(P.steps[e].inputs) \subseteq DOMAIN P.buffers
    BY <1>1, <1>3, <1>4
<1>6. QED
    BY <1>2, <1>4, <1>5 DEF ToSet

\* What slots hold stays as the plan grows.
LEMMA HoldsGrown ==
    ASSUME NEW P, NEW Q, NEW kinds, Grown(Q, P, kinds), NEW slots, NEW tensors, NEW space,
           \A k \in DOMAIN slots : slots[k] \in DOMAIN P.buffers,
           Holds(P, slots, tensors, space)
    PROVE  Holds(Q, slots, tensors, space)
BY DEF Holds, Grown

\* So does what events do.
LEMMA EventsGrown ==
    ASSUME NEW P, NEW Q, NEW kinds, NEW pending, Scheduled(P, pending), Grown(Q, P, kinds),
           NEW e \in DOMAIN P.steps
    PROVE  /\ \A i \in DOMAIN graph : Performs(P, e, i) => Performs(Q, e, i)
           /\ Meaningful(Q, e) /\ WellTimed(Q, e)
<1>1. /\ \A k \in DOMAIN P.steps[e].inputs : P.steps[e].inputs[k] \in DOMAIN P.buffers
      /\ \A k \in DOMAIN P.steps[e].outputs : P.steps[e].outputs[k] \in DOMAIN P.buffers
    BY EventSlots
<1>2. Q.steps[e] = P.steps[e] /\ e \in DOMAIN Q.steps
    BY DEF Grown
<1>3. \A ts, sp : /\ Holds(P, P.steps[e].inputs, ts, sp) => Holds(Q, Q.steps[e].inputs, ts, sp)
                  /\ Holds(P, P.steps[e].outputs, ts, sp) => Holds(Q, Q.steps[e].outputs, ts, sp)
    BY <1>1, <1>2, HoldsGrown
<1>4. \A i \in DOMAIN graph : Performs(P, e, i) => Performs(Q, e, i)
    BY <1>2, <1>3 DEF Performs
<1>5. Meaningful(P, e)
    BY DEF Scheduled
<1>6. Meaningful(Q, e)
    <2>1. CASE \E i \in DOMAIN graph : Performs(P, e, i)
        BY <1>4, <2>1 DEF Meaningful
    <2>2. CASE ~\E i \in DOMAIN graph : Performs(P, e, i)
        <3>1. \/ P.steps[e].kind = "bind_input" /\ P.steps[e].inputs = <<>>
                 /\ \E t \in External : Holds(P, P.steps[e].outputs, <<t>>, Host)
              \/ P.steps[e].kind = "copy" /\ \E t \in Tensors : \E from, to \in Spaces :
                     /\ from # to /\ Holds(P, P.steps[e].inputs, <<t>>, from)
                     /\ Holds(P, P.steps[e].outputs, <<t>>, to)
              \/ P.steps[e].kind = "publish_output" /\ P.steps[e].outputs = <<>>
                 /\ \E t \in Produced \ Consumed : Holds(P, P.steps[e].inputs, <<t>>, Host)
            BY <1>5, <2>2 DEF Meaningful
        <3>2. \/ Q.steps[e].kind = "bind_input" /\ Q.steps[e].inputs = <<>>
                 /\ \E t \in External : Holds(Q, Q.steps[e].outputs, <<t>>, Host)
              \/ Q.steps[e].kind = "copy" /\ \E t \in Tensors : \E from, to \in Spaces :
                     /\ from # to /\ Holds(Q, Q.steps[e].inputs, <<t>>, from)
                     /\ Holds(Q, Q.steps[e].outputs, <<t>>, to)
              \/ Q.steps[e].kind = "publish_output" /\ Q.steps[e].outputs = <<>>
                 /\ \E t \in Produced \ Consumed : Holds(Q, Q.steps[e].inputs, <<t>>, Host)
            BY <1>2, <1>3, <3>1
        <3>3. QED
            BY <3>2 DEF Meaningful
    <2>3. QED
        BY <2>1, <2>2
<1>7. WellTimed(Q, e)
    <2>1. \A d \in 1 .. e - 1 : Q.steps[d] = P.steps[d]
        BY DEF Scheduled, Grown
    <2>2. UNION {ToSet(Q.steps[d].outputs) : d \in 1 .. e - 1}
              = UNION {ToSet(P.steps[d].outputs) : d \in 1 .. e - 1}
        BY <2>1
    <2>3. WellTimed(P, e)
        BY DEF Scheduled
    <2>4. QED
        BY <1>2, <2>2, <2>3 DEF WellTimed
<1>8. QED
    BY <1>4, <1>6, <1>7

\* A new slot waits to be written.
LEMMA ScheduleAllocated ==
    ASSUME NEW P, NEW Q, NEW pending, Scheduled(P, pending),
           P.buffers \in Seq(Tensors \X Spaces), NEW b \in Tensors \X Spaces,
           Q.buffers = Append(P.buffers, b), Q.steps = P.steps
    PROVE  /\ Scheduled(Q, pending \union {Len(P.buffers) + 1})
           /\ Grown(Q, P, {})
<1>1. /\ DOMAIN Q.buffers = DOMAIN P.buffers \union {Len(P.buffers) + 1}
      /\ Len(P.buffers) + 1 \notin DOMAIN P.buffers
      /\ \A s \in DOMAIN P.buffers : Q.buffers[s] = P.buffers[s]
    BY Appended
<1>2. Grown(Q, P, {})
    BY <1>1 DEF Grown
<1>3. \A e \in DOMAIN Q.steps : Meaningful(Q, e) /\ WellTimed(Q, e)
    BY <1>2, EventsGrown
<1>4. WrittenSlots(Q) = WrittenSlots(P)
    BY DEF WrittenSlots
<1>5. Scheduled(Q, pending \union {Len(P.buffers) + 1})
    BY <1>1, <1>3, <1>4 DEF Scheduled
<1>6. QED
    BY <1>2, <1>5

\* An event reads slots that are written and writes pending ones.
LEMMA ScheduleEmitted ==
    ASSUME NEW P, NEW Q, NEW pending, Scheduled(P, pending), NEW ev \in Events,
           Q.buffers = P.buffers, Q.steps = Append(P.steps, ev),
           ToSet(ev.inputs) \subseteq DOMAIN P.buffers \ pending,
           ToSet(ev.outputs) \subseteq pending,
           Meaningful(Q, Len(P.steps) + 1)
    PROVE  /\ Scheduled(Q, pending \ ToSet(ev.outputs))
           /\ Grown(Q, P, {ev.kind})
           /\ Len(P.steps) + 1 \in DOMAIN Q.steps /\ Q.steps[Len(P.steps) + 1] = ev
<1> DEFINE n == Len(P.steps) + 1
<1>1. P.steps \in Seq(Events)
    BY DEF Scheduled
<1>2. /\ Q.steps \in Seq(Events) /\ DOMAIN Q.steps = DOMAIN P.steps \union {n} /\ n \notin DOMAIN P.steps
      /\ Q.steps[n] = ev /\ \A e \in DOMAIN P.steps : Q.steps[e] = P.steps[e]
    BY <1>1, Appended
<1>3. DOMAIN P.steps = 1 .. n - 1
    BY <1>1
<1> HIDE DEF n
<1>4. Grown(Q, P, {ev.kind})
    BY <1>2 DEF Grown
<1>5. \A e \in DOMAIN P.steps : Meaningful(Q, e) /\ WellTimed(Q, e)
    BY <1>4, EventsGrown
<1>6. WrittenSlots(P) = UNION {ToSet(Q.steps[d].outputs) : d \in 1 .. n - 1}
    BY <1>2, <1>3 DEF WrittenSlots
<1>7. WrittenSlots(P) = DOMAIN P.buffers \ pending /\ pending \subseteq DOMAIN P.buffers
    BY DEF Scheduled
<1>8. WellTimed(Q, n)
    BY <1>2, <1>6, <1>7 DEF WellTimed
<1>9. WrittenSlots(Q) = WrittenSlots(P) \union ToSet(ev.outputs)
    BY <1>2 DEF WrittenSlots
<1>10. WrittenSlots(Q) = DOMAIN Q.buffers \ (pending \ ToSet(ev.outputs))
    BY <1>7, <1>9
<1>11. Meaningful(Q, n)
    BY DEF n
<1>12. Scheduled(Q, pending \ ToSet(ev.outputs))
    BY <1>2, <1>5, <1>7, <1>8, <1>10, <1>11 DEF Scheduled
<1>13. QED
    BY <1>2, <1>4, <1>12 DEF n

\* Two plans that grow one after the other.
LEMMA GrownTwice ==
    ASSUME NEW P, NEW Q, NEW R, NEW kinds, NEW more, Grown(Q, P, kinds), Grown(R, Q, more)
    PROVE  Grown(R, P, kinds \union more)
BY DEF Grown

\* The one slot of a tensor in a space.
LEMMA HoldsOne ==
    ASSUME NEW p, NEW s, NEW t, NEW space, p.buffers[s] = <<t, space>>
    PROVE  Holds(p, <<s>>, <<t>>, space)
BY DEF Holds

\* A sequence of one slot.
LEMMA OneSlot ==
    ASSUME NEW s \in Nat
    PROVE  <<s>> \in Seq(Nat) /\ ToSet(<<s>>) = {s}
BY DEF ToSet

\* And none.
LEMMA NoSlot == <<>> \in Seq(Nat) /\ ToSet(<<>>) = {} /\ DOMAIN <<>> = {}
BY DEF ToSet

\* The last event of a plan with one event more.
LEMMA EmittedStep ==
    ASSUME NEW p, Coherent(p), NEW kind, NEW ins, NEW outs
    PROVE  Emit(p, kind, ins, outs).plan.steps
               = Append(p.plan.steps, [kind |-> kind, inputs |-> ins, outputs |-> outs])
<1> DEFINE ev == [kind |-> kind, inputs |-> ins, outputs |-> outs]
           q  == Emit(p, kind, ins, outs)
<1>1. /\ p = [plan |-> p.plan, memory |-> p.memory, slot |-> p.slot]
      /\ p.plan = [buffers |-> p.plan.buffers, steps |-> p.plan.steps,
                   resident |-> p.plan.resident, origins |-> p.plan.origins,
                   reserved |-> p.plan.reserved]
    BY DEF Coherent
<1>2. q = [p EXCEPT !.plan.steps = Append(@, ev)]
    BY DEF Emit
<1> HIDE DEF ev, q
<1>3. q.plan = [p.plan EXCEPT !.steps = Append(@, ev)]
    BY <1>1, <1>2
<1>4. q.plan.steps = Append(p.plan.steps, ev)
    BY <1>1, <1>3
<1>5. QED
    BY <1>4 DEF ev, q

\* allocate adds a slot, and no event yet.
LEMMA AllocatedStep ==
    ASSUME NEW p, Coherent(p), NEW t \in Tensors, NEW space \in Spaces,
           <<t, space>> \notin DOMAIN p.plan.resident
    PROVE  LET a == Allocate(p, t, space, t) IN
           /\ a.plan.buffers = Append(p.plan.buffers, <<t, space>>)
           /\ a.plan.steps = p.plan.steps /\ a.slot = Len(p.plan.buffers) + 1
<1> DEFINE a == Allocate(p, t, space, t)
<1>1. /\ a.slot = Len(p.plan.buffers) + 1
      /\ a.plan = [p.plan EXCEPT !.buffers = Append(@, <<t, space>>),
                                 !.resident = With(@, <<t, space>>, a.slot),
                                 !.reserved = @ + Bytes[t]]
    BY DEF Allocate
<1>2. p.plan = [buffers |-> p.plan.buffers, steps |-> p.plan.steps,
                resident |-> p.plan.resident, origins |-> p.plan.origins,
                reserved |-> p.plan.reserved]
    BY DEF Coherent
<1> HIDE DEF a
<1>3. a.plan.buffers = Append(p.plan.buffers, <<t, space>>) /\ a.plan.steps = p.plan.steps
    BY <1>1, <1>2
<1>4. QED
    BY <1>1, <1>3 DEF a

\* A tensor's first slot, and no event yet.
LEMMA OriginatedStep ==
    ASSUME NEW p, Coherent(p), NEW t \in Tensors, NEW space \in Spaces,
           t \notin DOMAIN p.plan.origins
    PROVE  LET q == Originate(Allocate(p, t, space, t), t) IN
           /\ q.plan.buffers = Append(p.plan.buffers, <<t, space>>)
           /\ q.plan.steps = p.plan.steps /\ q.slot = Len(p.plan.buffers) + 1
<1> DEFINE a == Allocate(p, t, space, t)
           q == Originate(a, t)
<1>1. <<t, space>> \notin DOMAIN p.plan.resident
    BY DEF Coherent
<1>2. /\ a = [plan |-> a.plan, memory |-> a.memory, slot |-> a.slot]
      /\ a.plan = [buffers |-> a.plan.buffers, steps |-> a.plan.steps,
                   resident |-> a.plan.resident, origins |-> a.plan.origins,
                   reserved |-> a.plan.reserved]
      /\ a.plan.buffers = Append(p.plan.buffers, <<t, space>>)
      /\ a.slot = Len(p.plan.buffers) + 1 /\ a.plan.steps = p.plan.steps
    BY <1>1, Allocation
<1>3. q = [a EXCEPT !.plan.origins = With(@, t, a.slot)]
    BY DEF Originate
<1> HIDE DEF a, q
<1>4. q.slot = a.slot /\ q.plan = [a.plan EXCEPT !.origins = With(@, t, a.slot)]
    BY <1>2, <1>3
<1>5. q.plan.buffers = a.plan.buffers /\ q.plan.steps = a.plan.steps
    BY <1>2, <1>4
<1>6. QED
    BY <1>2, <1>4, <1>5 DEF q, a

\* ensure copies from a slot in another space, that is written, to a new one.
LEMMA ScheduleEnsured ==
    ASSUME NEW p, Coherent(p), NEW t \in Tensors, NEW space \in Spaces,
           t \in DOMAIN p.plan.origins, Scheduled(p.plan, {})
    PROVE  LET q == Ensure(p, t, space) IN
           Scheduled(q.plan, {}) /\ Grown(q.plan, p.plan, {"copy"})
<1> DEFINE q      == Ensure(p, t, space)
           source == p.plan.origins[t]
           a      == Allocate(p, t, space, t)
           from   == p.plan.buffers[source][2]
           ev     == [kind |-> "copy", inputs |-> <<source>>, outputs |-> <<a.slot>>]
<1>1. CASE <<t, space>> \in DOMAIN p.plan.resident
    <2>1. q = [p EXCEPT !.slot = p.plan.resident[<<t, space>>]]
        BY <1>1 DEF Ensure
    <2>2. p = [plan |-> p.plan, memory |-> p.memory, slot |-> p.slot]
        BY DEF Coherent
    <2>3. q.plan = p.plan
        BY <2>1, <2>2
    <2> HIDE DEF q
    <2>4. QED
        BY <2>3 DEF Grown, q
<1>2. CASE <<t, space>> \notin DOMAIN p.plan.resident
    <2>1. /\ p.plan.buffers \in Seq(Tensors \X Spaces)
          /\ source \in DOMAIN p.plan.buffers /\ p.plan.buffers[source][1] = t
          /\ p.plan.buffers[source] \in DOMAIN p.plan.resident
          /\ p.memory[source] = t
        BY DEF Coherent
    <2>2. /\ from \in Spaces /\ p.plan.buffers[source] = <<t, from>> /\ from # space
          /\ source \in Nat
        <3>1. p.plan.buffers[source] \in Tensors \X Spaces /\ source \in Nat
            BY <2>1
        <3>2. from \in Spaces /\ p.plan.buffers[source] = <<t, from>>
            BY <2>1, <3>1
        <3>3. QED
            BY <1>2, <2>1, <3>1, <3>2
    <2>3. q = Emit(a, "copy", <<source>>, <<a.slot>>)
        BY <1>2, <2>1 DEF Ensure
    <2>4. Coherent(a)
        BY <1>2, AllocationCoherent
    <2>5. /\ a.plan.buffers = Append(p.plan.buffers, <<t, space>>)
          /\ a.plan.steps = p.plan.steps /\ a.slot = Len(p.plan.buffers) + 1
        BY <1>2, AllocatedStep
    <2>6. q.plan.buffers = a.plan.buffers
        BY <2>3, <2>4, Emission
    <2>7. q.plan.steps = Append(a.plan.steps, ev)
        BY <2>3, <2>4, EmittedStep
    <2> HIDE DEF q, a, source, from
    <2>8. /\ ev.kind = "copy" /\ ev.inputs = <<source>> /\ ev.outputs = <<a.slot>>
          /\ ev \in Events /\ a.slot \in Nat
        <3>1. a.slot \in Nat
            BY <2>1, <2>5
        <3>2. <<source>> \in Seq(Nat) /\ <<a.slot>> \in Seq(Nat) /\ "copy" \in Kinds
            BY <2>2, <3>1, OneSlot DEF Kinds
        <3>3. QED
            BY <3>1, <3>2 DEF Events
    <2> HIDE DEF ev
    <2>9. Scheduled(a.plan, {a.slot}) /\ Grown(a.plan, p.plan, {})
        <3> DEFINE b == <<t, space>>
        <3>1. b \in Tensors \X Spaces /\ a.plan.buffers = Append(p.plan.buffers, b)
            BY <2>1, <2>5
        <3> HIDE DEF b
        <3>2. Scheduled(a.plan, {} \union {Len(p.plan.buffers) + 1}) /\ Grown(a.plan, p.plan, {})
            BY <2>1, <2>5, <3>1, ScheduleAllocated
        <3>3. {} \union {Len(p.plan.buffers) + 1} = {a.slot}
            BY <2>1, <2>5
        <3>4. QED
            BY <3>2, <3>3
    <2> DEFINE n == Len(a.plan.steps) + 1
    <2>10. q.plan.steps[n] = ev
        BY <2>7, <2>8, <2>9, Appended DEF Scheduled
    <2>11. /\ q.plan.buffers[source] = <<t, from>> /\ q.plan.buffers[a.slot] = <<t, space>>
           /\ source # a.slot /\ source \in DOMAIN a.plan.buffers
        BY <2>1, <2>2, <2>5, <2>6
    <2>12. Meaningful(q.plan, n)
        <3>1. Holds(q.plan, <<source>>, <<t>>, from) /\ Holds(q.plan, <<a.slot>>, <<t>>, space)
            BY <2>11, HoldsOne
        <3>2. QED
            BY <2>2, <2>8, <2>10, <3>1 DEF Meaningful
    <2>13. /\ Scheduled(q.plan, {a.slot} \ ToSet(ev.outputs))
           /\ Grown(q.plan, a.plan, {"copy"})
        <3>1. ToSet(ev.inputs) = {source} /\ ToSet(ev.outputs) = {a.slot}
            BY <2>2, <2>8, OneSlot
        <3>2. /\ ToSet(ev.inputs) \subseteq DOMAIN a.plan.buffers \ {a.slot}
              /\ ToSet(ev.outputs) \subseteq {a.slot}
            BY <2>11, <3>1
        <3>3. Meaningful(q.plan, Len(a.plan.steps) + 1)
            BY <2>12
        <3>4. /\ Scheduled(q.plan, {a.slot} \ ToSet(ev.outputs))
              /\ Grown(q.plan, a.plan, {ev.kind})
            BY <2>6, <2>7, <2>8, <2>9, <3>2, <3>3, ScheduleEmitted
        <3>5. QED
            BY <2>8, <3>4
    <2>14. {a.slot} \ ToSet(ev.outputs) = {}
        BY <2>8, OneSlot
    <2>15. Grown(q.plan, p.plan, {} \union {"copy"}) /\ {} \union {"copy"} = {"copy"}
        BY <2>9, <2>13, GrownTwice
    <2>16. QED
        BY <2>13, <2>14, <2>15 DEF q
<1>3. QED
    BY <1>1, <1>2

\* An external input is bound to a new host slot.
LEMMA ScheduleBound ==
    ASSUME NEW p, Coherent(p), NEW t \in Tensors, Scheduled(p.plan, {}),
           t \in DOMAIN p.plan.origins \/ t \in External
    PROVE  LET q == Bind(p, t) IN
           Scheduled(q.plan, {}) /\ Grown(q.plan, p.plan, {"bind_input"})
<1> DEFINE q  == Bind(p, t)
           a  == Originate(Allocate(p, t, Host, t), t)
           ev == [kind |-> "bind_input", inputs |-> <<>>, outputs |-> <<a.slot>>]
<1>1. CASE t \in DOMAIN p.plan.origins
    BY <1>1 DEF Bind, Grown
<1>2. CASE t \notin DOMAIN p.plan.origins
    <2>1. t \in External /\ Host \in Spaces
        BY <1>2, ResidencyAssumption
    <2>2. q = Emit(a, "bind_input", <<>>, <<a.slot>>)
        BY <1>2 DEF Bind
    <2>3. Coherent(a)
        BY <1>2, <2>1, Origination
    <2>4. /\ a.plan.buffers = Append(p.plan.buffers, <<t, Host>>)
          /\ a.plan.steps = p.plan.steps /\ a.slot = Len(p.plan.buffers) + 1
        BY <1>2, <2>1, OriginatedStep
    <2>5. q.plan.buffers = a.plan.buffers
        BY <2>2, <2>3, Emission
    <2>6. q.plan.steps = Append(a.plan.steps, ev)
        BY <2>2, <2>3, EmittedStep
    <2> HIDE DEF q, a
    <2>7. p.plan.buffers \in Seq(Tensors \X Spaces)
        BY DEF Coherent
    <2>8. /\ ev.kind = "bind_input" /\ ev.inputs = <<>> /\ ev.outputs = <<a.slot>>
          /\ ev \in Events /\ a.slot \in Nat
        <3>1. a.slot \in Nat
            BY <2>4, <2>7
        <3>2. <<>> \in Seq(Nat) /\ <<a.slot>> \in Seq(Nat) /\ "bind_input" \in Kinds
            BY <3>1, OneSlot, NoSlot DEF Kinds
        <3>3. QED
            BY <3>1, <3>2 DEF Events
    <2> HIDE DEF ev
    <2>9. Scheduled(a.plan, {a.slot}) /\ Grown(a.plan, p.plan, {})
        <3> DEFINE b == <<t, Host>>
        <3>1. b \in Tensors \X Spaces /\ a.plan.buffers = Append(p.plan.buffers, b)
            BY <2>1, <2>4, <2>7
        <3> HIDE DEF b
        <3>2. Scheduled(a.plan, {} \union {Len(p.plan.buffers) + 1}) /\ Grown(a.plan, p.plan, {})
            BY <2>1, <2>4, <2>7, <3>1, ScheduleAllocated
        <3>3. {} \union {Len(p.plan.buffers) + 1} = {a.slot}
            BY <2>1, <2>4, <2>7
        <3>4. QED
            BY <3>2, <3>3
    <2> DEFINE n == Len(a.plan.steps) + 1
    <2>10. q.plan.steps[n] = ev
        BY <2>6, <2>8, <2>9, Appended DEF Scheduled
    <2>11. q.plan.buffers[a.slot] = <<t, Host>>
        BY <2>4, <2>5, <2>7
    <2>12. Meaningful(q.plan, n)
        <3>1. Holds(q.plan, <<a.slot>>, <<t>>, Host)
            BY <2>11, HoldsOne
        <3>2. QED
            BY <2>1, <2>8, <2>10, <3>1 DEF Meaningful
    <2>13. /\ Scheduled(q.plan, {a.slot} \ ToSet(ev.outputs))
           /\ Grown(q.plan, a.plan, {"bind_input"})
        <3>1. ToSet(ev.inputs) = {} /\ ToSet(ev.outputs) = {a.slot}
            BY <2>8, OneSlot, NoSlot
        <3>2. /\ ToSet(ev.inputs) \subseteq DOMAIN a.plan.buffers \ {a.slot}
              /\ ToSet(ev.outputs) \subseteq {a.slot}
            BY <3>1
        <3>3. Meaningful(q.plan, Len(a.plan.steps) + 1)
            BY <2>12
        <3>4. /\ Scheduled(q.plan, {a.slot} \ ToSet(ev.outputs))
              /\ Grown(q.plan, a.plan, {ev.kind})
            BY <2>5, <2>6, <2>8, <2>9, <3>2, <3>3, ScheduleEmitted
        <3>5. QED
            BY <2>8, <3>4
    <2>14. {a.slot} \ ToSet(ev.outputs) = {}
        BY <2>8, OneSlot
    <2>15. /\ Grown(q.plan, p.plan, {} \union {"bind_input"})
           /\ {} \union {"bind_input"} = {"bind_input"}
        BY <2>9, <2>13, GrownTwice
    <2>16. QED
        BY <2>13, <2>14, <2>15 DEF q
<1>3. QED
    BY <1>1, <1>2

\* An event that publishes reads the one slot of a terminal on the host.
LEMMA PublicationShape ==
    ASSUME NEW P, NEW pending, Scheduled(P, pending), NEW e \in Publications(P)
    PROVE  /\ e \in DOMAIN P.steps /\ P.steps[e].inputs[1] \in DOMAIN P.buffers
           /\ \E t \in Produced \ Consumed : P.buffers[P.steps[e].inputs[1]] = <<t, Host>>
<1>1. e \in DOMAIN P.steps /\ P.steps[e].kind = "publish_output"
    BY DEF Publications
<1>2. /\ P.steps[e].inputs \in Seq(Nat)
      /\ \A k \in DOMAIN P.steps[e].inputs : P.steps[e].inputs[k] \in DOMAIN P.buffers
    BY <1>1, EventSlots
<1>3. Meaningful(P, e)
    BY <1>1 DEF Scheduled
<1>4. PICK t \in Produced \ Consumed : Holds(P, P.steps[e].inputs, <<t>>, Host)
    BY <1>1, <1>3 DEF Meaningful, Performs
<1>5. Len(P.steps[e].inputs) = 1
    BY <1>4 DEF Holds
<1>6. 1 \in DOMAIN P.steps[e].inputs
    BY <1>2, <1>5
<1>7. P.buffers[P.steps[e].inputs[1]] = <<t, Host>>
    BY <1>4, <1>6 DEF Holds
<1>8. QED
    BY <1>1, <1>2, <1>6, <1>7

\* A plan that grows by other events publishes what it did.
LEMMA PublicationsGrown ==
    ASSUME NEW P, NEW Q, NEW pending, NEW kinds, Scheduled(P, pending), Grown(Q, P, kinds),
           "publish_output" \notin kinds
    PROVE  /\ Publications(Q) = Publications(P)
           /\ \A e \in Publications(P) : PublishedBy(Q, e) = PublishedBy(P, e)
<1>1. Publications(Q) = Publications(P)
    BY DEF Publications, Grown
<1>2. ASSUME NEW e \in Publications(P)
      PROVE  PublishedBy(Q, e) = PublishedBy(P, e)
    BY PublicationShape DEF PublishedBy, Grown
<1>3. QED
    BY <1>1, <1>2

-----------------------------------------------------------------------------
(* The schedule from step to step *)

\* What the events of a plan do in the next state is what they do now: the graph is the same.
LEMMA SameEvents ==
    ASSUME NEW P, graph' = graph, plan' = P
    PROVE  /\ \A e, i : Performs(plan, e, i)' <=> Performs(P, e, i)
           /\ \A S : Scheduled(P, S) => Scheduled(plan, S)'
           /\ Publications(plan)' = Publications(P)
           /\ \A e : PublishedBy(plan, e)' = PublishedBy(P, e)
           /\ \A t, u : ProducedBefore(t, u)' <=> ProducedBefore(t, u)
<1>1. \A e, i : Performs(plan, e, i)' <=> Performs(P, e, i)
    BY DEF Performs, Holds
<1>2. Produced' = Produced /\ Consumed' = Consumed /\ External' = External
    BY SameGraph DEF External
<1>3. ASSUME NEW e
      PROVE  Meaningful(plan, e)' <=> Meaningful(P, e)
    <2>1. \A slots, ts, sp : Holds(plan, slots, ts, sp)' <=> Holds(P, slots, ts, sp)
        BY DEF Holds
    <2>2. (\E i \in DOMAIN graph : Performs(plan, e, i))' <=> \E i \in DOMAIN graph : Performs(P, e, i)
        BY <1>1
    <2>3. QED
        BY <1>2, <2>1, <2>2 DEF Meaningful
<1>4. \A e : WellTimed(plan, e)' <=> WellTimed(P, e)
    BY DEF WellTimed
<1>5. WrittenSlots(plan)' = WrittenSlots(P)
    BY DEF WrittenSlots
<1>6. \A S : Scheduled(P, S) => Scheduled(plan, S)'
    BY <1>3, <1>4, <1>5 DEF Scheduled
<1>7. Publications(plan)' = Publications(P)
    BY DEF Publications
<1>8. \A e : PublishedBy(plan, e)' = PublishedBy(P, e)
    BY DEF PublishedBy
<1>9. \A t, u : ProducedBefore(t, u)' <=> ProducedBefore(t, u)
    BY DEF ProducedBefore
<1>10. QED
    BY <1>1, <1>6, <1>7, <1>8, <1>9

\* What was executed stays executed as the plan grows.
LEMMA StillExecuted ==
    ASSUME Scheduling, NEW Q, NEW kinds, Grown(Q, plan, kinds), plan' = Q, graph' = graph,
           NEW i \in DOMAIN graph, \E e \in DOMAIN plan.steps : Performs(plan, e, i)
    PROVE  (\E e \in DOMAIN plan.steps : Performs(plan, e, i))'
<1>1. PICK e \in DOMAIN plan.steps : Performs(plan, e, i)
    OBVIOUS
<1>2. Performs(Q, e, i) /\ e \in DOMAIN Q.steps
    BY <1>1, EventsGrown DEF Scheduling, Grown
<1>3. Performs(plan, e, i)' /\ e \in DOMAIN plan'.steps
    BY <1>2, SameEvents
<1>4. QED
    BY <1>3

\* An operand is bound or copied, when nothing is pending.
LEMMA NextInputScheduling ==
    ASSUME Planning, Scheduling, NextInput
    PROVE  Scheduling'
<1> DEFINE k     == Len(inputs) + 1
           t     == Op.inputs[k]
           bound == Bind(Now, t)
           q     == Ensure(bound, t, Op.space)
<1>1. /\ phase = "operations" /\ current \in DOMAIN graph /\ k \in DOMAIN Op.inputs
      /\ t \in Tensors /\ Op.space \in Spaces /\ Len(inputs) < Len(Op.inputs)
    <2>1. phase = "operations" /\ current \in DOMAIN graph /\ Len(inputs) < Len(Op.inputs)
        BY GraphShape DEF NextInput, Planning
    <2>2. /\ Op.inputs \in Seq(Tensors) /\ Op.space \in Spaces
          /\ DOMAIN Op.inputs = 1 .. Len(Op.inputs)
        BY <2>1, GraphShape DEF Op, Planning
    <2>3. inputs \in Seq(Nat)
        BY DEF Planning
    <2>4. QED
        BY <2>1, <2>2, <2>3
<1>2. outputs = <<>> /\ Scheduled(plan, {})
    <2>1. outputs = <<>>
        BY <1>1 DEF Scheduling, ResultsPending
    <2>2. ToSet(outputs) = {}
        BY <2>1, NoSlot
    <2>3. QED
        BY <2>1, <2>2 DEF Scheduling
<1>3. Coherent(Now) /\ Now.plan = plan /\ graph \in Graphs
    BY DEF Planning, Now
<1>4. t \in DOMAIN plan.origins \/ t \in External
    <2>1. t \in Produced => t \in DOMAIN plan.origins
        BY <1>1, OperandProduced
    <2>2. t \in Consumed
        BY <1>1, <1>3, Producing DEF Op
    <2>3. QED
        BY <2>1, <2>2 DEF External
<1>5. /\ Coherent(bound) /\ t \in DOMAIN bound.plan.origins
      /\ Scheduled(bound.plan, {}) /\ Grown(bound.plan, plan, {"bind_input"})
    BY <1>1, <1>2, <1>3, <1>4, Bound, ScheduleBound
<1> HIDE DEF bound
<1>6. Scheduled(q.plan, {}) /\ Grown(q.plan, bound.plan, {"copy"})
    BY <1>1, <1>5, ScheduleEnsured
<1>7. /\ plan' = q.plan /\ graph' = graph /\ phase' \in {"operations", "over budget"}
      /\ current' = current /\ outputs' = outputs
    BY DEF NextInput, Becomes, bound
<1> HIDE DEF q, t
<1> DEFINE kinds == {"bind_input"} \union {"copy"}
<1>8. Grown(q.plan, plan, kinds) /\ "publish_output" \notin kinds
    BY <1>5, <1>6, GrownTwice
<1> HIDE DEF kinds
<1>9. Scheduled(plan, ToSet(outputs))'
    <2>1. Scheduled(plan, {})'
        BY <1>6, <1>7, SameEvents
    <2>2. ToSet(outputs)' = {}
        <3>1. outputs' = <<>>
            BY <1>2, <1>7
        <3>2. ToSet(outputs') = {}
            BY <3>1, NoSlot
        <3>3. QED
            BY <3>2
    <2>3. QED
        BY <2>1, <2>2
<1>10. ResultsPending'
    <2>1. outputs' = <<>> /\ DOMAIN outputs' = {}
        BY <1>2, <1>7, NoSlot
    <2>2. QED
        BY <1>7, <2>1 DEF ResultsPending
<1>11. Executed'
    <2>1. ASSUME phase' = "operations", NEW i \in DOMAIN graph, Done(i)'
          PROVE  (\E e \in DOMAIN plan.steps : Performs(plan, e, i))'
        <3>1. Done(i)
            BY <1>1, <1>7, <2>1 DEF Done
        <3>2. \E e \in DOMAIN plan.steps : Performs(plan, e, i)
            BY <1>1, <3>1 DEF Scheduling, Executed
        <3>3. QED
            BY <1>7, <1>8, <3>2, StillExecuted
    <2>2. QED
        BY <1>7, <2>1 DEF Executed
<1>12. InOrder'
    <2>1. Publications(q.plan) = Publications(plan)
        BY <1>2, <1>8, PublicationsGrown
    <2>2. Publications(plan)' = {}
        BY <1>1, <1>7, <2>1, SameEvents DEF Scheduling, InOrder
    <2>3. QED
        BY <1>7, <2>2 DEF InOrder
<1>13. QED
    BY <1>9, <1>10, <1>11, <1>12 DEF Scheduling

\* A result gets a slot, which waits to be written with the others of its operation.
LEMMA NextOutputScheduling ==
    ASSUME Planning, Scheduling, NextOutput
    PROVE  Scheduling'
<1> DEFINE k == Len(outputs) + 1
           t == Op.outputs[k]
           b == <<t, Op.space>>
           s == Len(plan.buffers) + 1
           c == Computed(t)
           q == Originate(Allocate(Now, t, Op.space, c), t)
           r == Originate(Allocate(Now, t, Op.space, t), t)
<1>1. /\ phase = "operations" /\ current \in DOMAIN graph /\ k \in DOMAIN Op.outputs
      /\ t \in Tensors /\ Op.space \in Spaces /\ Len(inputs) = Len(Op.inputs)
      /\ outputs \in Seq(Nat) /\ Len(inputs) \in Nat
    <2>1. /\ phase = "operations" /\ current \in DOMAIN graph /\ Len(outputs) < Len(Op.outputs)
          /\ Len(inputs) = Len(Op.inputs)
        BY GraphShape DEF NextOutput, InputsReady, Planning
    <2>2. /\ Op.outputs \in Seq(Tensors) /\ Op.space \in Spaces
          /\ DOMAIN Op.outputs = 1 .. Len(Op.outputs)
        BY <2>1, GraphShape DEF Op, Planning
    <2>3. outputs \in Seq(Nat) /\ inputs \in Seq(Nat)
        BY DEF Planning
    <2>4. QED
        BY <2>1, <2>2, <2>3
<1>2. Coherent(Now) /\ Now.plan = plan /\ Now.memory = memory /\ graph \in Graphs
    BY DEF Planning, Now
<1>3. c = t
    <2>1. \A l \in DOMAIN inputs : /\ inputs[l] \in Slots
                                   /\ plan.buffers[inputs[l]] = <<Op.inputs[l], Op.space>>
        BY <1>1 DEF Planning, OperandsInPlace
    <2>2. \A d \in Slots : memory[d] = plan.buffers[d][1]
        BY <1>2 DEF Coherent, Slots
    <2>3. QED
        BY <2>1, <2>2 DEF Computed
<1>4. t \notin DOMAIN Now.plan.origins
    BY <1>1, <1>2, ResultNew
<1>5. /\ plan' = r.plan /\ graph' = graph /\ phase' \in {"operations", "over budget"}
      /\ current' = current /\ inputs' = inputs /\ outputs' = Append(outputs, r.slot)
    BY <1>3 DEF NextOutput, Becomes
<1> HIDE DEF t, c
<1>6. r.plan.buffers = Append(plan.buffers, b) /\ r.plan.steps = plan.steps /\ r.slot = s
    BY <1>1, <1>2, <1>4, OriginatedStep
<1>7. b \in Tensors \X Spaces /\ plan.buffers \in Seq(Tensors \X Spaces)
    BY <1>1, <1>2 DEF Coherent
<1> HIDE DEF r, b
<1>8. Scheduled(r.plan, ToSet(outputs) \union {s}) /\ Grown(r.plan, plan, {})
    BY <1>6, <1>7, ScheduleAllocated DEF Scheduling
<1>9. /\ s \in Nat /\ r.plan.buffers[s] = b
      /\ \A d \in DOMAIN plan.buffers : r.plan.buffers[d] = plan.buffers[d]
    BY <1>6, <1>7
<1> HIDE DEF s
<1>10. /\ outputs' \in Seq(Nat) /\ DOMAIN outputs' = DOMAIN outputs \union {k}
       /\ outputs'[k] = s /\ \A l \in DOMAIN outputs : outputs'[l] = outputs[l]
    <2>1. outputs' = Append(outputs, s)
        BY <1>5, <1>6
    <2>2. QED
        BY <1>1, <1>9, <2>1, Appended
<1>11. Scheduled(plan, ToSet(outputs))'
    <2>1. ToSet(outputs') = ToSet(outputs) \union {s}
        BY <1>10 DEF ToSet
    <2>2. \A S : Scheduled(r.plan, S) => Scheduled(plan, S)'
        BY <1>5, SameEvents
    <2>3. QED
        BY <1>8, <2>1, <2>2
<1>12. ResultsPending'
    <2>1. \A l \in DOMAIN outputs : /\ plan.buffers[outputs[l]] = <<Op.outputs[l], Op.space>>
                                    /\ outputs[l] \in DOMAIN plan.buffers
        BY <1>1 DEF Scheduling, ResultsPending, Planning, Slots
    <2>2. \A l \in DOMAIN outputs' : r.plan.buffers[outputs'[l]] = <<Op.outputs[l], Op.space>>
        BY <1>9, <1>10, <2>1 DEF b, t
    <2>3. Op' = Op
        BY <1>5 DEF Op
    <2>4. ~(Len(inputs') < Len(Op'.inputs)) /\ phase' # "publish"
        <3>1. inputs' = inputs /\ Op'.inputs = Op.inputs /\ Len(Op.inputs) = Len(inputs)
            BY <1>1, <1>5, <2>3
        <3>2. Len(inputs') = Len(Op'.inputs) /\ Len(inputs') \in Nat
            BY <1>1, <3>1
        <3>3. ~(Len(inputs') < Len(Op'.inputs))
            BY <3>2
        <3>4. phase' # "publish"
            BY <1>5
        <3>5. QED
            BY <3>3, <3>4
    <2>5. \A l \in DOMAIN outputs' : plan'.buffers[outputs'[l]] = <<Op'.outputs[l], Op'.space>>
        BY <1>5, <2>2, <2>3
    <2>6. QED
        BY <2>4, <2>5 DEF ResultsPending
<1>13. Executed'
    <2>1. ASSUME phase' = "operations", NEW i \in DOMAIN graph, Done(i)'
          PROVE  (\E e \in DOMAIN plan.steps : Performs(plan, e, i))'
        <3>1. Done(i)
            BY <1>1, <1>5, <2>1 DEF Done
        <3>2. \E e \in DOMAIN plan.steps : Performs(plan, e, i)
            BY <1>1, <3>1 DEF Scheduling, Executed
        <3>3. QED
            BY <1>5, <1>8, <3>2, StillExecuted
    <2>2. QED
        BY <1>5, <2>1 DEF Executed
<1>14. InOrder'
    <2>1. Publications(plan)' = Publications(plan)
        BY <1>5, <1>6, SameEvents DEF Publications
    <2>2. QED
        BY <1>1, <1>5, <2>1 DEF InOrder, Scheduling
<1>15. QED
    BY <1>11, <1>12, <1>13, <1>14 DEF Scheduling

\* An operation runs: it reads operands that are written, and writes the pending results.
LEMMA ExecuteScheduling ==
    ASSUME Planning, Scheduling, Execute
    PROVE  Scheduling'
<1> DEFINE ev == [kind |-> "execute", inputs |-> inputs, outputs |-> outputs]
           q  == Emit(Now, "execute", inputs, outputs)
           Q  == q.plan
           n  == Len(plan.steps) + 1
<1>1. /\ phase = "operations" /\ current \in DOMAIN graph /\ current \in Nat
      /\ Len(inputs) = Len(Op.inputs) /\ Len(outputs) = Len(Op.outputs)
      /\ graph' = graph /\ phase' = phase /\ current' = current + 1
      /\ inputs' = <<>> /\ outputs' = <<>> /\ plan' = Q
    BY GraphShape DEF Execute, InputsReady, Planning
<1>2. Coherent(Now) /\ Now.plan = plan /\ graph \in Graphs
    BY DEF Planning, Now
<1>3. Q.buffers = plan.buffers
    BY <1>2, Emission
<1>4. Q.steps = Append(plan.steps, ev)
    BY <1>2, EmittedStep
<1> HIDE DEF q, Q
<1>5. /\ ev.kind = "execute" /\ ev.inputs = inputs /\ ev.outputs = outputs /\ ev \in Events
    BY DEF Events, Kinds, Planning
<1> HIDE DEF ev
<1>6. /\ \A k \in DOMAIN inputs : /\ inputs[k] \in DOMAIN plan.buffers
                                   /\ plan.buffers[inputs[k]] = <<Op.inputs[k], Op.space>>
      /\ \A k \in DOMAIN outputs : /\ outputs[k] \in DOMAIN plan.buffers
                                    /\ plan.buffers[outputs[k]] = <<Op.outputs[k], Op.space>>
    BY <1>1 DEF Planning, OperandsInPlace, Scheduling, ResultsPending, Slots
<1>7. ToSet(inputs) \subseteq DOMAIN plan.buffers \ ToSet(outputs)
    <2>1. ASSUME NEW k \in DOMAIN inputs, NEW l \in DOMAIN outputs, inputs[k] = outputs[l]
          PROVE  FALSE
        <3>1. Op.inputs[k] = Op.outputs[l]
            BY <1>6, <2>1
        <3>2. k \in DOMAIN Op.inputs /\ l \in DOMAIN Op.outputs
            <4>1. /\ DOMAIN Op.inputs = 1 .. Len(Op.inputs)
                  /\ DOMAIN Op.outputs = 1 .. Len(Op.outputs)
                BY <1>1, <1>2, GraphShape DEF Op
            <4>2. inputs \in Seq(Nat) /\ outputs \in Seq(Nat)
                BY DEF Planning
            <4>3. DOMAIN inputs = 1 .. Len(inputs) /\ DOMAIN outputs = 1 .. Len(outputs)
                BY <4>2
            <4>4. QED
                BY <1>1, <4>1, <4>3
        <3>3. BackwardUses
            BY <1>1 DEF Planning
        <3>4. current < current
            BY <1>1, <1>2, <3>1, <3>2, <3>3, ReadBehind DEF Op
        <3>5. QED
            BY <1>1, <3>4
    <2>2. QED
        BY <1>6, <2>1 DEF ToSet
<1>8. plan.steps \in Seq(Events) /\ Scheduled(plan, ToSet(outputs))
    BY DEF Scheduling, Scheduled
<1>9. Q.steps[n] = ev
    BY <1>4, <1>5, <1>8, Appended
<1>10. Performs(Q, n, current)
    <2>1. Holds(Q, inputs, Op.inputs, Op.space) /\ Holds(Q, outputs, Op.outputs, Op.space)
        BY <1>1, <1>3, <1>6 DEF Holds
    <2>2. QED
        BY <1>5, <1>9, <2>1 DEF Performs, Op
<1>11. Meaningful(Q, n)
    BY <1>1, <1>10 DEF Meaningful
<1>12. /\ Scheduled(Q, ToSet(outputs) \ ToSet(outputs)) /\ Grown(Q, plan, {"execute"})
       /\ n \in DOMAIN Q.steps
    <2>1. /\ ToSet(ev.inputs) \subseteq DOMAIN plan.buffers \ ToSet(outputs)
          /\ ToSet(ev.outputs) \subseteq ToSet(outputs)
        BY <1>5, <1>7
    <2>2. Meaningful(Q, Len(plan.steps) + 1)
        BY <1>11
    <2>3. /\ Scheduled(Q, ToSet(outputs) \ ToSet(ev.outputs)) /\ Grown(Q, plan, {ev.kind})
          /\ Len(plan.steps) + 1 \in DOMAIN Q.steps
        BY <1>3, <1>4, <1>5, <1>8, <2>1, <2>2, ScheduleEmitted
    <2>4. QED
        BY <1>5, <2>3
<1> HIDE DEF n
<1>13. Scheduled(plan, ToSet(outputs))'
    <2>1. ToSet(outputs') = {} /\ ToSet(outputs) \ ToSet(outputs) = {}
        BY <1>1, NoSlot
    <2>2. \A S : Scheduled(Q, S) => Scheduled(plan, S)'
        BY <1>1, SameEvents
    <2>3. QED
        BY <1>12, <2>1, <2>2
<1>14. ResultsPending'
    <2>1. outputs' = <<>> /\ DOMAIN outputs' = {}
        BY <1>1, NoSlot
    <2>2. QED
        BY <2>1 DEF ResultsPending
<1>15. Executed'
    <2>1. ASSUME NEW i \in DOMAIN graph, Done(i)'
          PROVE  (\E e \in DOMAIN plan.steps : Performs(plan, e, i))'
        <3>1. CASE i = current
            <4>1. PICK e \in DOMAIN Q.steps : Performs(Q, e, i)
                BY <1>10, <1>12, <3>1
            <4>2. Performs(plan, e, i)' /\ e \in DOMAIN plan'.steps
                BY <1>1, <4>1, SameEvents
            <4>3. QED
                BY <4>2
        <3>2. CASE i # current
            <4>1. i \in Nat
                BY <1>2, GraphShape
            <4>2. Done(i)
                BY <1>1, <2>1, <3>2, <4>1 DEF Done
            <4>3. \E e \in DOMAIN plan.steps : Performs(plan, e, i)
                BY <1>1, <4>2 DEF Scheduling, Executed
            <4>4. QED
                BY <1>1, <1>12, <4>3, StillExecuted
        <3>3. QED
            BY <3>1, <3>2
    <2>2. QED
        BY <1>1, <2>1 DEF Executed
<1>16. InOrder'
    <2>1. "publish_output" \notin {"execute"}
        OBVIOUS
    <2>2. Publications(Q) = Publications(plan)
        BY <1>8, <1>12, <2>1, PublicationsGrown
    <2>3. Publications(plan)' = {}
        BY <1>1, <2>2, SameEvents DEF Scheduling, InOrder
    <2>4. QED
        BY <1>1, <2>3 DEF InOrder
<1>17. QED
    BY <1>13, <1>14, <1>15, <1>16 DEF Scheduling

\* A terminal comes to the host and out of it, behind those shown before.
LEMMA PublishScheduling ==
    ASSUME Planning, Scheduling, Publish
    PROVE  Scheduling'
<1> DEFINE t  == Op.outputs[item]
           a  == Ensure(Now, t, Host)
           A  == a.plan
           s  == a.slot
           q  == Emit(a, "publish_output", <<s>>, <<>>)
           Q  == q.plan
           ev == [kind |-> "publish_output", inputs |-> <<s>>, outputs |-> <<>>]
           n  == Len(A.steps) + 1
<1>1. /\ phase = "publish" /\ current \in DOMAIN graph /\ item \in DOMAIN Op.outputs
      /\ t \in Tensors /\ Host \in Spaces /\ item \in Nat /\ current \in Nat
      /\ graph' = graph /\ current' = current /\ item' = item + 1 /\ outputs' = outputs
    <2>1. /\ phase = "publish" /\ current \in DOMAIN graph /\ item <= Len(Op.outputs)
          /\ item \in Nat \ {0} /\ current \in Nat
          /\ graph' = graph /\ current' = current /\ item' = item + 1 /\ outputs' = outputs
        BY GraphShape DEF Publish, Planning
    <2>2. Op.outputs \in Seq(Tensors) /\ DOMAIN Op.outputs = 1 .. Len(Op.outputs)
        BY <2>1, GraphShape DEF Op, Planning
    <2>3. QED
        BY <2>1, <2>2, ResidencyAssumption
<1>2. Coherent(Now) /\ Now.plan = plan /\ graph \in Graphs
    BY DEF Planning, Now
<1>3. outputs = <<>> /\ Scheduled(plan, {})
    <2>1. outputs = <<>>
        BY <1>1 DEF Scheduling, ResultsPending
    <2>2. ToSet(outputs) = {}
        BY <2>1, NoSlot
    <2>3. QED
        BY <2>1, <2>2 DEF Scheduling
<1>4. \A i \in DOMAIN graph : \A k \in DOMAIN graph[i].outputs : i \in Nat /\ k \in Nat
    BY <1>2, GraphShape
<1>5. phase' = "publish" =>
          \A i \in DOMAIN graph : \A k \in DOMAIN graph[i].outputs :
              Shown(i, k)' <=> Shown(i, k) \/ (i = current /\ k = item)
    BY <1>1, <1>4 DEF Shown
<1>6. phase' \in {"publish", "over budget"}
    BY <1>1 DEF Publish, Becomes
<1>7. ResultsPending'
    <2>1. outputs' = <<>> /\ DOMAIN outputs' = {}
        BY <1>1, <1>3, NoSlot
    <2>2. QED
        BY <2>1 DEF ResultsPending
<1>8. ASSUME NEW P, NEW kinds, Grown(P, plan, kinds), plan' = P, Scheduled(P, {})
      PROVE  Scheduled(plan, ToSet(outputs))' /\ Executed'
    <2>1. Scheduled(plan, ToSet(outputs))'
        <3>1. ToSet(outputs') = {}
            BY <1>1, <1>3, NoSlot
        <3>2. \A S : Scheduled(P, S) => Scheduled(plan, S)'
            BY <1>1, <1>8, SameEvents
        <3>3. QED
            BY <1>8, <3>1, <3>2
    <2>2. ASSUME NEW i \in DOMAIN graph
          PROVE  (\E e \in DOMAIN plan.steps : Performs(plan, e, i))'
        <3>1. \E e \in DOMAIN plan.steps : Performs(plan, e, i)
            BY <1>1 DEF Scheduling, Executed, Done
        <3>2. QED
            BY <1>1, <1>8, <3>1, StillExecuted
    <2>3. Executed'
        BY <1>1, <2>2 DEF Executed
    <2>4. QED
        BY <2>1, <2>3
<1>9. CASE ~Terminal(t)
    <2>1. plan' = plan /\ phase' = "publish"
        BY <1>1, <1>9 DEF Publish
    <2>2. Grown(plan, plan, {})
        BY DEF Grown
    <2>3. /\ Publications(plan)' = Publications(plan)
          /\ \A e : PublishedBy(plan, e)' = PublishedBy(plan, e)
          /\ \A u, v : ProducedBefore(u, v)' <=> ProducedBefore(u, v)
        BY <1>1, <2>1 DEF Publications, PublishedBy, ProducedBefore
    <2>4. InOrder'
        <3>1. \A e \in Publications(plan) :
                  \E i \in DOMAIN graph : \E k \in DOMAIN graph[i].outputs :
                      Shown(i, k)' /\ PublishedBy(plan, e) = graph[i].outputs[k]
            BY <1>1, <1>5, <2>1 DEF Scheduling, InOrder
        <3>2. \A i \in DOMAIN graph : \A k \in DOMAIN graph[i].outputs :
                  Shown(i, k)' /\ Terminal(graph[i].outputs[k]) =>
                      \E e \in Publications(plan) : PublishedBy(plan, e) = graph[i].outputs[k]
            BY <1>1, <1>5, <1>9, <2>1 DEF Scheduling, InOrder, Op
        <3>3. \A d, e \in Publications(plan) :
                  d < e => ProducedBefore(PublishedBy(plan, d), PublishedBy(plan, e))
            BY <1>1 DEF Scheduling, InOrder
        <3>4. QED
            BY <1>1, <2>1, <2>3, <3>1, <3>2, <3>3, SameGraph DEF InOrder
    <2>5. Scheduled(plan, ToSet(outputs))' /\ Executed'
        BY <1>3, <1>8, <2>1, <2>2
    <2>6. QED
        BY <1>7, <2>4, <2>5 DEF Scheduling
<1>10. CASE Terminal(t)
    <2>1. t \in DOMAIN Now.plan.origins /\ t \in Produced \ Consumed
        <3> DEFINE b == <<graph[current].outputs[item], graph[current].space>>
        <3>1. Written(current, item)
            BY <1>1 DEF Written, Done
        <3>2. b \in Tensors \X Spaces /\ Met(b) /\ b[1] = t
            BY <1>1, <3>1, ResultMet DEF Op
        <3> HIDE DEF b
        <3>3. t \in DOMAIN Now.plan.origins
            BY <1>1, <1>2, <3>2, MetTensors
        <3>4. t \in Produced \ Consumed
            BY <1>1, <1>2, <1>10, Producing DEF Op, Terminal
        <3>5. QED
            BY <3>3, <3>4
    <2>2. plan' = Q
        BY <1>1, <1>10 DEF Publish, Becomes
    <2> HIDE DEF t
    <2>3. /\ Coherent(a) /\ s \in DOMAIN A.buffers /\ A.buffers[s] = <<t, Host>>
        BY <1>1, <1>2, <2>1, Ensured
    <2>4. Scheduled(A, {}) /\ Grown(A, plan, {"copy"})
        BY <1>1, <1>2, <1>3, <2>1, ScheduleEnsured
    <2>5. A.buffers \in Seq(Tensors \X Spaces) /\ s \in Nat
        <3>1. A.buffers \in Seq(Tensors \X Spaces)
            BY <2>3 DEF Coherent
        <3>2. DOMAIN A.buffers \subseteq Nat
            BY <3>1
        <3>3. QED
            BY <2>3, <3>1, <3>2
    <2>6. Q.buffers = A.buffers
        BY <2>3, Emission
    <2>7. Q.steps = Append(A.steps, ev)
        BY <2>3, EmittedStep
    <2> HIDE DEF a, s, A, q, Q
    <2>8. /\ ev.kind = "publish_output" /\ ev.inputs = <<s>> /\ ev.outputs = <<>> /\ ev \in Events
        <3>1. <<s>> \in Seq(Nat) /\ <<>> \in Seq(Nat) /\ "publish_output" \in Kinds
            BY <2>5, OneSlot, NoSlot DEF Kinds
        <3>2. QED
            BY <3>1 DEF Events
    <2> HIDE DEF ev
    <2>9. /\ Q.steps[n] = ev /\ n \notin DOMAIN A.steps /\ DOMAIN Q.steps = DOMAIN A.steps \union {n}
          /\ \A e \in DOMAIN A.steps : Q.steps[e] = A.steps[e]
          /\ n \in Nat /\ \A e \in DOMAIN A.steps : e \in Nat /\ e < n
        <3>1. A.steps \in Seq(Events)
            BY <2>4 DEF Scheduled
        <3>2. n \in Nat /\ \A e \in DOMAIN A.steps : e \in Nat /\ e < n
            BY <3>1
        <3>3. QED
            BY <2>7, <2>8, <3>1, <3>2, Appended
    <2>10. Meaningful(Q, n)
        <3>1. Holds(Q, <<s>>, <<t>>, Host)
            BY <2>3, <2>6, HoldsOne
        <3>2. QED
            BY <2>1, <2>8, <2>9, <3>1 DEF Meaningful
    <2>11. Scheduled(Q, {}) /\ Grown(Q, A, {"publish_output"})
        <3>1. ToSet(ev.inputs) \subseteq DOMAIN A.buffers \ {} /\ ToSet(ev.outputs) \subseteq {}
            BY <2>3, <2>5, <2>8, OneSlot, NoSlot
        <3>2. Meaningful(Q, Len(A.steps) + 1)
            BY <2>10
        <3>3. Scheduled(Q, {} \ ToSet(ev.outputs)) /\ Grown(Q, A, {ev.kind})
            BY <2>4, <2>6, <2>7, <2>8, <3>1, <3>2, ScheduleEmitted
        <3>4. {} \ ToSet(ev.outputs) = {}
            OBVIOUS
        <3>5. QED
            BY <2>8, <3>3, <3>4
    <2> HIDE DEF n
    <2>12. Grown(Q, plan, {"copy"} \union {"publish_output"})
        BY <2>4, <2>11, GrownTwice
    <2>13. Scheduled(plan, ToSet(outputs))' /\ Executed'
        BY <1>8, <2>2, <2>11, <2>12
    <2>14. /\ Publications(A) = Publications(plan)
           /\ \A e \in Publications(plan) : PublishedBy(A, e) = PublishedBy(plan, e)
        <3>1. "publish_output" \notin {"copy"}
            OBVIOUS
        <3>2. QED
            BY <1>3, <2>4, <3>1, PublicationsGrown
    <2>15. /\ Publications(Q) = Publications(A) \union {n}
           /\ PublishedBy(Q, n) = t
           /\ \A e \in Publications(A) : PublishedBy(Q, e) = PublishedBy(A, e)
        <3>1. Publications(Q) = Publications(A) \union {n}
            BY <2>8, <2>9 DEF Publications
        <3>2. PublishedBy(Q, n) = t
            BY <2>3, <2>6, <2>8, <2>9 DEF PublishedBy
        <3>3. \A e \in Publications(A) : PublishedBy(Q, e) = PublishedBy(A, e)
            BY <2>6, <2>9 DEF PublishedBy, Publications
        <3>4. QED
            BY <3>1, <3>2, <3>3
    <2>16. /\ Publications(Q) = Publications(plan) \union {n} /\ PublishedBy(Q, n) = t
           /\ \A e \in Publications(plan) : /\ PublishedBy(Q, e) = PublishedBy(plan, e)
                                            /\ e \in Nat /\ e < n
           /\ n \in Nat
        BY <2>9, <2>14, <2>15 DEF Publications
    <2>17. InOrder'
        <3> SUFFICES ASSUME phase' = "publish" PROVE InOrder'
            BY <1>6 DEF InOrder
        <3>1. \A e \in Publications(plan) :
                  \E i \in DOMAIN graph : \E k \in DOMAIN graph[i].outputs :
                      Shown(i, k) /\ PublishedBy(plan, e) = graph[i].outputs[k]
            BY <1>1 DEF Scheduling, InOrder
        <3>2. \A e \in Publications(Q) :
                  \E i \in DOMAIN graph : \E k \in DOMAIN graph[i].outputs :
                      Shown(i, k)' /\ PublishedBy(Q, e) = graph[i].outputs[k]
            <4>1. ASSUME NEW e \in Publications(plan)
                  PROVE  \E i \in DOMAIN graph : \E k \in DOMAIN graph[i].outputs :
                             Shown(i, k)' /\ PublishedBy(Q, e) = graph[i].outputs[k]
                BY <1>5, <2>16, <3>1
            <4>2. \E i \in DOMAIN graph : \E k \in DOMAIN graph[i].outputs :
                      Shown(i, k)' /\ PublishedBy(Q, n) = graph[i].outputs[k]
                <5>1. PICK i \in DOMAIN graph : i = current
                    BY <1>1
                <5>2. PICK k \in DOMAIN graph[i].outputs : k = item
                    BY <1>1, <5>1 DEF Op
                <5>3. Shown(i, k)'
                    BY <1>5, <5>1, <5>2
                <5>4. t = graph[i].outputs[k]
                    BY <5>1, <5>2 DEF t, Op
                <5>5. QED
                    BY <2>16, <5>3, <5>4
            <4>3. QED
                BY <2>16, <4>1, <4>2
        <3>3. ASSUME NEW i \in DOMAIN graph, NEW k \in DOMAIN graph[i].outputs,
                     Shown(i, k)', Terminal(graph[i].outputs[k])
              PROVE  \E e \in Publications(Q) : PublishedBy(Q, e) = graph[i].outputs[k]
            <4>1. CASE Shown(i, k)
                <5>1. \E e \in Publications(plan) : PublishedBy(plan, e) = graph[i].outputs[k]
                    BY <1>1, <3>3, <4>1 DEF Scheduling, InOrder
                <5>2. QED
                    BY <2>16, <5>1
            <4>2. CASE i = current /\ k = item
                BY <2>16, <4>2 DEF t, Op
            <4>3. QED
                BY <1>5, <3>3, <4>1, <4>2
        <3>4. ASSUME NEW d \in Publications(Q), NEW e \in Publications(Q), d < e
              PROVE  ProducedBefore(PublishedBy(Q, d), PublishedBy(Q, e))
            <4>1. d \in Publications(plan)
                BY <2>16, <3>4
            <4>2. CASE e \in Publications(plan)
                BY <1>1, <2>16, <3>4, <4>1, <4>2 DEF Scheduling, InOrder
            <4>3. CASE e = n
                <5>1. PICK i \in DOMAIN graph : \E k \in DOMAIN graph[i].outputs :
                          Shown(i, k) /\ PublishedBy(plan, d) = graph[i].outputs[k]
                    BY <3>1, <4>1
                <5>2. PICK k \in DOMAIN graph[i].outputs :
                          Shown(i, k) /\ PublishedBy(plan, d) = graph[i].outputs[k]
                    BY <5>1
                <5>3. i < current \/ (i = current /\ k < item)
                    BY <1>1, <5>2 DEF Shown
                <5>4. ProducedBefore(graph[i].outputs[k], graph[current].outputs[item])
                    BY <1>1, <5>3 DEF ProducedBefore, Op
                <5>5. PublishedBy(Q, e) = graph[current].outputs[item]
                    BY <2>16, <4>3 DEF t, Op
                <5>6. QED
                    BY <2>16, <4>1, <5>2, <5>4, <5>5
            <4>4. QED
                BY <2>16, <4>2, <4>3
        <3>5. /\ Publications(plan)' = Publications(Q)
              /\ \A e : PublishedBy(plan, e)' = PublishedBy(Q, e)
              /\ \A u, v : ProducedBefore(u, v)' <=> ProducedBefore(u, v)
            BY <1>1, <2>2, SameEvents
        <3>6. QED
            BY <1>1, <3>2, <3>3, <3>4, <3>5, SameGraph DEF InOrder
    <2>18. QED
        BY <1>7, <2>13, <2>17 DEF Scheduling
<1>11. QED
    BY <1>9, <1>10

\* The steps between operations and between phases plan nothing.
LEMMA ControlScheduling ==
    ASSUME Planning, Scheduling, UNCHANGED vars \/ Reject \/ Accept \/ AllExecuted \/ NextProducer \/ Finish
    PROVE  Scheduling'
<1>1. graph' = graph /\ plan' = plan /\ outputs' = outputs /\ inputs' = inputs
    BY DEF vars, Reject, Accept, AllExecuted, NextProducer, Finish
<1>2. graph \in Graphs
    BY DEF Planning
<1>3. Scheduled(plan, ToSet(outputs))'
    <2>1. \A S : Scheduled(plan, S) => Scheduled(plan, S)'
        BY <1>1, SameEvents
    <2>2. ToSet(outputs') = ToSet(outputs)
        BY <1>1
    <2>3. QED
        BY <2>1, <2>2 DEF Scheduling
<1>4. /\ \A e, i : Performs(plan, e, i)' <=> Performs(plan, e, i)
      /\ Publications(plan)' = Publications(plan)
      /\ \A e : PublishedBy(plan, e)' = PublishedBy(plan, e)
      /\ \A t, u : ProducedBefore(t, u)' <=> ProducedBefore(t, u)
    BY <1>1, SameEvents
<1>5. CASE UNCHANGED vars
    <2>1. phase' = phase /\ current' = current /\ item' = item
        BY <1>5 DEF vars
    <2>2. \A i, k : (Done(i)' <=> Done(i)) /\ (Shown(i, k)' <=> Shown(i, k))
        BY <2>1 DEF Done, Shown
    <2>3. ResultsPending'
        BY <1>1, <2>1 DEF Scheduling, ResultsPending, Op
    <2>4. Executed'
        BY <1>1, <1>4, <2>1, <2>2 DEF Scheduling, Executed
    <2>5. InOrder'
        BY <1>1, <1>4, <2>1, <2>2, SameGraph DEF Scheduling, InOrder
    <2>6. QED
        BY <1>3, <2>3, <2>4, <2>5 DEF Scheduling
<1>6. CASE Reject
    <2>1. phase' = "rejected"
        BY <1>6 DEF Reject
    <2>2. ResultsPending' /\ Executed' /\ InOrder'
        BY <2>1 DEF ResultsPending, Executed, InOrder
    <2>3. QED
        BY <1>3, <2>2 DEF Scheduling
<1>7. CASE Accept
    <2>1. phase = "check" /\ phase' = "operations" /\ current' = current
        BY <1>7 DEF Accept
    <2>2. outputs' = <<>> /\ DOMAIN outputs' = {} /\ current' = 1
        BY <1>1, <2>1, NoSlot DEF Planning
    <2>3. ResultsPending'
        BY <2>1, <2>2 DEF ResultsPending
    <2>4. \A i \in DOMAIN graph : ~Done(i)'
        BY <1>2, <2>1, <2>2, GraphShape DEF Done
    <2>5. Executed'
        BY <1>1, <2>4 DEF Executed
    <2>6. InOrder'
        BY <1>4, <2>1 DEF InOrder, Scheduling
    <2>7. QED
        BY <1>3, <2>3, <2>5, <2>6 DEF Scheduling
<1>8. CASE AllExecuted
    <2>1. /\ phase = "operations" /\ phase' = "publish" /\ current' = 1 /\ item' = 1
          /\ current > Len(graph)
        BY <1>8 DEF AllExecuted
    <2>2. \A i \in DOMAIN graph : /\ i \in Nat /\ i >= 1 /\ i < current
                                  /\ \A l \in DOMAIN graph[i].outputs : l \in Nat /\ l >= 1
        BY <1>2, <2>1, GraphShape DEF Planning
    <2>3. outputs' = <<>> /\ DOMAIN outputs' = {}
        <3>1. current \notin DOMAIN graph
            BY <1>2, <2>1, GraphShape DEF Planning
        <3>2. outputs' = <<>>
            BY <1>1, <2>1, <3>1 DEF Planning, OperandsInPlace
        <3>3. QED
            BY <3>2, NoSlot
    <2>4. ResultsPending'
        BY <2>1, <2>3 DEF ResultsPending
    <2>5. \A i \in DOMAIN graph : Done(i)
        BY <2>2 DEF Done
    <2>6. Executed'
        BY <1>1, <1>4, <2>1, <2>5 DEF Scheduling, Executed
    <2>7. \A i \in DOMAIN graph : \A l \in DOMAIN graph[i].outputs : ~Shown(i, l)'
        BY <2>1, <2>2 DEF Shown
    <2>8. Publications(plan)' = {}
        BY <1>4, <2>1 DEF InOrder, Scheduling
    <2>9. InOrder'
        BY <1>1, <2>1, <2>7, <2>8 DEF InOrder
    <2>10. QED
        BY <1>3, <2>4, <2>6, <2>9 DEF Scheduling
<1>9. CASE NextProducer \/ Finish
    <2>1. /\ phase = "publish" /\ phase' \in {"publish", "planned"}
          /\ \A i \in DOMAIN graph : \A l \in DOMAIN graph[i].outputs : Shown(i, l)' <=> Shown(i, l)
        <3>1. CASE NextProducer
            <4>1. /\ phase = "publish" /\ phase' = phase /\ current' = current + 1 /\ item' = 1
                  /\ current \in DOMAIN graph /\ current \in Nat /\ item \in Nat
                  /\ item > Len(graph[current].outputs)
                BY <1>2, <3>1, GraphShape DEF NextProducer, Op, Planning
            <4>2. \A i \in DOMAIN graph : /\ i \in Nat
                                          /\ \A l \in DOMAIN graph[i].outputs : l \in 1 .. Len(graph[i].outputs)
                                          /\ Len(graph[i].outputs) \in Nat
                BY <1>2, GraphShape
            <4>3. \A i \in DOMAIN graph : \A l \in DOMAIN graph[i].outputs : Shown(i, l)' <=> Shown(i, l)
                BY <4>1, <4>2 DEF Shown
            <4>4. QED
                BY <4>1, <4>3
        <3>2. CASE Finish
            <4>1. phase = "publish" /\ phase' = "planned" /\ current > Len(graph)
                BY <3>2 DEF Finish
            <4>2. \A i \in DOMAIN graph : i < current
                BY <1>2, <4>1, GraphShape DEF Planning
            <4>3. \A i \in DOMAIN graph : \A l : Shown(i, l)' <=> Shown(i, l)
                BY <4>1, <4>2 DEF Shown
            <4>4. QED
                BY <4>1, <4>3
        <3>3. QED
            BY <1>9, <3>1, <3>2
    <2>2. outputs' = <<>> /\ DOMAIN outputs' = {}
        <3>1. outputs' = <<>>
            BY <1>1, <2>1 DEF Scheduling, ResultsPending
        <3>2. QED
            BY <3>1, NoSlot
    <2>3. ResultsPending'
        BY <2>1, <2>2 DEF ResultsPending
    <2>4. \A i \in DOMAIN graph : Done(i)
        BY <2>1 DEF Done
    <2>5. Executed'
        BY <1>1, <1>4, <2>1, <2>4 DEF Scheduling, Executed
    <2>6. InOrder'
        <3>1. \A e \in Publications(plan) :
                  \E i \in DOMAIN graph : \E k \in DOMAIN graph[i].outputs :
                      Shown(i, k)' /\ PublishedBy(plan, e) = graph[i].outputs[k]
            BY <2>1 DEF Scheduling, InOrder
        <3>2. \A i \in DOMAIN graph : \A k \in DOMAIN graph[i].outputs :
                  Shown(i, k)' /\ Terminal(graph[i].outputs[k]) =>
                      \E e \in Publications(plan) : PublishedBy(plan, e) = graph[i].outputs[k]
            BY <2>1 DEF Scheduling, InOrder
        <3>3. \A d, e \in Publications(plan) :
                  d < e => ProducedBefore(PublishedBy(plan, d), PublishedBy(plan, e))
            BY <2>1 DEF Scheduling, InOrder
        <3>4. phase' \notin {"check", "operations"}
            BY <2>1
        <3>5. QED
            BY <1>1, <1>4, <3>1, <3>2, <3>3, <3>4, SameGraph DEF InOrder
    <2>7. QED
        BY <1>3, <2>3, <2>5, <2>6 DEF Scheduling
<1>10. QED
    BY <1>5, <1>6, <1>7, <1>8, <1>9

LEMMA InitScheduling == Init => Scheduling
<1> SUFFICES ASSUME Init PROVE Scheduling
    OBVIOUS
<1>1. /\ phase = "check" /\ outputs = <<>> /\ plan.steps = <<>> /\ plan.buffers = <<>>
    BY DEF Init, EmptyPlan
<1>2. /\ ToSet(outputs) = {} /\ DOMAIN plan.steps = {} /\ DOMAIN plan.buffers = {}
    BY <1>1, NoSlot
<1>3. <<>> \in Seq(Events)
    OBVIOUS
<1>4. Scheduled(plan, ToSet(outputs))
    BY <1>1, <1>2, <1>3 DEF Scheduled, WrittenSlots
<1>5. ResultsPending /\ Executed
    BY <1>1 DEF ResultsPending, Executed
<1>6. InOrder
    BY <1>1, <1>2 DEF InOrder, Publications
<1>7. QED
    BY <1>4, <1>5, <1>6 DEF Scheduling

\* The invariant of the schedule: it is in order, every slot that is not a result of the
\* operation at work is written, and it does what the planner has been through.
THEOREM AlwaysScheduling == Spec => []Scheduling
<1>1. Planning /\ Scheduling /\ [Next]_vars => Scheduling'
    BY NextInputScheduling, NextOutputScheduling, ExecuteScheduling, PublishScheduling,
       ControlScheduling DEF Next
<1>2. QED
    BY <1>1, InitScheduling, AlwaysPlanning, PTL DEF Spec

-----------------------------------------------------------------------------
(* What follows *)

\* The variables of the planner have their types.
THEOREM TypeCorrect == Spec => []TypeOK
<1>1. Planning => TypeOK
    <2> SUFFICES ASSUME Planning PROVE TypeOK
        OBVIOUS
    <2>1. \A i \in DOMAIN graph : graph[i] \in Operations
        BY GraphShape DEF Planning
    <2>2. Coherent(Now) /\ Now.plan = plan /\ Now.memory = memory
        BY DEF Planning, Now
    <2>3. /\ \A s \in Slots : plan.buffers[s] \in Tensors \X Spaces
          /\ \A t \in DOMAIN plan.origins : plan.origins[t] \in Slots
          /\ \A b \in DOMAIN plan.resident : plan.resident[b] \in Slots
          /\ Len(memory) = Len(plan.buffers)
        BY <2>2 DEF Coherent, Slots
    <2>4. ToSet(inputs) \subseteq Slots /\ ToSet(outputs) \subseteq Slots
        BY DEF Planning, ToSet
    <2>5. QED
        BY <2>1, <2>3, <2>4 DEF Planning, TypeOK
<1>2. QED
    BY <1>1, AlwaysPlanning, PTL

\* The schedule that is planned computes the graph: memory is right at every step, no event
\* reads what is not written yet or writes twice, every event does something the graph asks
\* for, and a finished schedule executes every operation (ensure, allocate and the loops).
THEOREM DataflowIsRespected == Spec => []DataflowRespected
<1>1. Planning /\ Scheduling => DataflowRespected
    <2> SUFFICES ASSUME Planning, Scheduling PROVE DataflowRespected
        OBVIOUS
    <2>1. \A s \in Slots : memory[s] = plan.buffers[s][1]
        BY DEF Planning, Coherent, Now, Slots
    <2>2. \A e \in DOMAIN plan.steps : Meaningful(plan, e) /\ WellTimed(plan, e)
        BY DEF Scheduling, Scheduled
    <2>3. phase = "planned" => \A i \in DOMAIN graph : \E e \in DOMAIN plan.steps : Performs(plan, e, i)
        BY DEF Scheduling, Executed, Done
    <2>4. QED
        BY <2>1, <2>2, <2>3 DEF DataflowRespected
<1>2. QED
    BY <1>1, AlwaysPlanning, AlwaysScheduling, PTL

\* A finished plan publishes every terminal tensor from the host, each before those the
\* graph produces later, and nothing else (the last loops).
THEOREM TerminalsArePublished == Spec => []OutputsPublished
<1>1. Planning /\ Scheduling => OutputsPublished
    <2> DEFINE Published    == {e \in DOMAIN plan.steps : plan.steps[e].kind = "publish_output"}
               published(e) == memory[plan.steps[e].inputs[1]]
    <2> SUFFICES ASSUME Planning, Scheduling, phase = "planned"
                 PROVE  /\ {published(e) : e \in Published} = Produced \ Consumed
                        /\ \A d, e \in Published : d < e => ProducedBefore(published(d), published(e))
                        /\ \A e \in Published : plan.buffers[plan.steps[e].inputs[1]][2] = Host
        BY DEF OutputsPublished
    <2>1. Published = Publications(plan) /\ graph \in Graphs
        BY DEF Publications, Planning
    <2>2. \A s \in DOMAIN plan.buffers : memory[s] = plan.buffers[s][1]
        BY DEF Planning, Coherent, Now
    <2>3. ASSUME NEW e \in Published
          PROVE  /\ published(e) = PublishedBy(plan, e) /\ published(e) \in Produced \ Consumed
                 /\ plan.buffers[plan.steps[e].inputs[1]][2] = Host
        <3>1. /\ plan.steps[e].inputs[1] \in DOMAIN plan.buffers
              /\ \E t \in Produced \ Consumed : plan.buffers[plan.steps[e].inputs[1]] = <<t, Host>>
            BY <2>1, <2>3, PublicationShape DEF Scheduling
        <3>2. QED
            BY <2>2, <3>1 DEF PublishedBy
    <2> HIDE DEF Published, published
    <2>4. ASSUME NEW t \in Produced \ Consumed
          PROVE  \E e \in Published : published(e) = t
        <3>1. PICK i \in DOMAIN graph : \E k \in DOMAIN graph[i].outputs : t = graph[i].outputs[k]
            BY <2>1, Producing
        <3>2. PICK k \in DOMAIN graph[i].outputs : t = graph[i].outputs[k]
            BY <3>1
        <3>3. Shown(i, k) /\ Terminal(graph[i].outputs[k])
            BY <3>2 DEF Shown, Terminal
        <3>4. \E e \in Publications(plan) : PublishedBy(plan, e) = t
            BY <3>2, <3>3 DEF Scheduling, InOrder
        <3>5. QED
            BY <2>1, <2>3, <3>4
    <2>5. \A d, e \in Published : d < e => ProducedBefore(published(d), published(e))
        BY <2>1, <2>3 DEF Scheduling, InOrder
    <2>6. QED
        BY <2>3, <2>4, <2>5
<1>2. QED
    BY <1>1, AlwaysPlanning, AlwaysScheduling, PTL

\* In a finished plan the residencies met are the required ones.
LEMMA AllMet ==
    ASSUME Planning, phase = "planned", NEW b \in Required
    PROVE  b \in DOMAIN plan.resident
<1>1. b \in Tensors \X Spaces /\ graph \in Graphs
    BY DEF Planning, Required
<1>2. Met(b)
    BY <1>1, Requiring DEF Met, Reached, Written, Shown, Done
<1>3. QED
    BY <1>1, <1>2 DEF Planning

\* A finished plan has every residency its graph needs, no other, and none twice.
THEOREM ResidencyIsExact == Spec => []ExactResidency
<1>1. Planning => ExactResidency
    <2> SUFFICES ASSUME Planning, phase = "planned"
                 PROVE  IsInjective(plan.buffers) /\ ToSet(plan.buffers) = Required
        BY DEF ExactResidency
    <2>1. Coherent(Now) /\ Now.plan = plan
        BY DEF Planning, Now
    <2>2. /\ \A s \in DOMAIN plan.buffers : /\ plan.buffers[s] \in DOMAIN plan.resident
                                            /\ plan.resident[plan.buffers[s]] = s
          /\ \A b \in DOMAIN plan.resident : /\ plan.resident[b] \in DOMAIN plan.buffers
                                             /\ plan.buffers[plan.resident[b]] = b
        BY <2>1 DEF Coherent
    <2>3. IsInjective(plan.buffers)
        BY <2>2 DEF IsInjective
    <2>4. ToSet(plan.buffers) = DOMAIN plan.resident
        BY <2>2 DEF ToSet
    <2>5. DOMAIN plan.resident = Required
        BY AllMet DEF Planning
    <2>6. QED
        BY <2>3, <2>4, <2>5
<1>2. QED
    BY <1>1, AlwaysPlanning, PTL

-----------------------------------------------------------------------------
(* Slots and bytes *)

\* What allocate raises for, after the fact.
Budgeted == phase = "over budget" <=> OverBudget(Now)

LEMMA AlwaysBudgeted == Spec => []Budgeted
<1>1. Init => Budgeted
    BY ResidencyAssumption DEF Init, Budgeted, OverBudget, Now, EmptyPlan
<1>2. ASSUME Planning, Budgeted, [Next]_vars PROVE Budgeted'
    <2>1. ASSUME NEW p, NEW next \in {"operations", "publish"}, Becomes(p, next) PROVE Budgeted'
        BY <2>1 DEF Becomes, Budgeted, OverBudget, Now
    <2>2. CASE UNCHANGED vars
        BY <1>2, <2>2 DEF vars, Budgeted, OverBudget, Now
    <2>3. CASE NextInput
        BY <2>1, <2>3 DEF NextInput
    <2>4. CASE NextOutput
        BY <2>1, <2>4 DEF NextOutput
    <2>5. CASE Publish
        <3>1. CASE Terminal(Op.outputs[item])
            BY <2>1, <2>5, <3>1 DEF Publish
        <3>2. CASE ~Terminal(Op.outputs[item])
            BY <1>2, <2>5, <3>2 DEF Publish, Budgeted, OverBudget, Now
        <3>3. QED
            BY <3>1, <3>2
    <2>6. CASE Execute
        <3> DEFINE q == Emit(Now, "execute", inputs, outputs)
        <3>1. Coherent(Now) /\ Now.plan = plan
            BY <1>2 DEF Planning, Now
        <3>2. q.plan.buffers = plan.buffers /\ q.plan.reserved = plan.reserved
            BY <3>1 DEF Emit, Coherent
        <3>3. plan' = q.plan /\ phase' = phase
            BY <2>6 DEF Execute
        <3> HIDE DEF q
        <3>4. QED
            BY <1>2, <3>2, <3>3 DEF Budgeted, OverBudget, Now
    <2>7. CASE Reject \/ Accept \/ AllExecuted \/ NextProducer \/ Finish
        BY <1>2, <2>7
           DEF Reject, Accept, AllExecuted, NextProducer, Finish, Budgeted, OverBudget, Now
    <2>8. QED
        BY <1>2, <2>2, <2>3, <2>4, <2>5, <2>6, <2>7 DEF Next
<1>3. QED
    BY <1>1, <1>2, AlwaysPlanning, PTL DEF Spec

\* As many residencies as there are slots.
LEMMA SlotsCounted ==
    ASSUME Planning
    PROVE  /\ ToSet(plan.buffers) \subseteq Required
           /\ Cardinality(ToSet(plan.buffers)) = Len(plan.buffers)
           /\ Len(plan.buffers) \in Nat
<1> DEFINE n == Len(plan.buffers)
           R == ToSet(plan.buffers)
<1>1. Coherent(Now) /\ Now.plan = plan
    BY DEF Planning, Now
<1>2. plan.buffers \in Seq(Tensors \X Spaces)
    BY <1>1 DEF Coherent
<1>3. n \in Nat /\ DOMAIN plan.buffers = 1 .. n /\ plan.buffers = [s \in 1 .. n |-> plan.buffers[s]]
    BY <1>2
<1>4. \A s \in DOMAIN plan.buffers : /\ plan.buffers[s] \in DOMAIN plan.resident
                                     /\ plan.resident[plan.buffers[s]] = s
    BY <1>1 DEF Coherent
<1>5. R \subseteq Required
    BY <1>4 DEF ToSet, Planning
<1>6. plan.buffers \in Surjection(1 .. n, R)
    BY <1>3 DEF Surjection, ToSet
<1>7. plan.buffers \in Injection(1 .. n, R)
    BY <1>3, <1>4, <1>6 DEF Injection, Surjection, IsInjective
<1>8. IsFiniteSet(1 .. n) /\ Cardinality(1 .. n) = n
    BY <1>3, FS_Interval
<1>9. Cardinality(R) = n
    BY <1>6, <1>7, <1>8, FS_Surjection
<1>10. QED
    BY <1>3, <1>5, <1>9

\* A graph requires finitely many residencies.
LEMMA RequiredFinite ==
    ASSUME graph \in Graphs
    PROVE  IsFiniteSet(Required) /\ Required \in SUBSET (Tensors \X Spaces)
<1> DEFINE n == Len(graph)
           used(i) == ToSet(graph[i].inputs) \union ToSet(graph[i].outputs)
           ports == [i \in 1 .. n |-> used(i)]
           sites == [i \in 1 .. n |-> graph[i].space]
<1>1. n \in Nat /\ DOMAIN graph = 1 .. n
    BY GraphShape
<1>2. \A i \in 1 .. n : IsFiniteSet(used(i))
    BY <1>1, GraphShape, FiniteRange, FS_Union
<1> HIDE DEF n, used
<1>3. IsFiniteSet(ToSet(ports)) /\ IsFiniteSet(ToSet(sites))
    <2>1. ports \in Seq({used(i) : i \in 1 .. n})
        BY <1>1
    <2>2. sites \in Seq({graph[i].space : i \in 1 .. n})
        BY <1>1
    <2>3. QED
        BY <2>1, <2>2, FiniteRange
<1>4. /\ ToSet(ports) = {used(i) : i \in 1 .. n}
      /\ ToSet(sites) = {graph[i].space : i \in 1 .. n}
    BY DEF ToSet
<1> HIDE DEF ports, sites
<1>5. IsFiniteSet(UNION ToSet(ports)) /\ IsFiniteSet(ToSet(sites) \union {Host})
    <2>1. \A T \in ToSet(ports) : IsFiniteSet(T)
        BY <1>2, <1>4
    <2>2. QED
        BY <1>3, <2>1, FS_UNION, FS_AddElement
<1>6. IsFiniteSet((UNION ToSet(ports)) \X (ToSet(sites) \union {Host}))
    BY <1>5, FS_Product
<1>7. ASSUME NEW b \in Required
      PROVE  b \in (UNION ToSet(ports)) \X (ToSet(sites) \union {Host})
    <2>1. b \in Tensors \X Spaces
        BY DEF Required
    <2>2. PICK i \in 1 .. n : b[1] \in used(i)
        <3>1. \A i \in 1 .. n : \A k \in DOMAIN graph[i].inputs : graph[i].inputs[k] \in used(i)
            BY DEF used, ToSet
        <3>2. \A i \in 1 .. n : \A k \in DOMAIN graph[i].outputs : graph[i].outputs[k] \in used(i)
            BY DEF used, ToSet
        <3>3. QED
            BY <1>1, <2>1, <3>1, <3>2, Requiring
    <2>3. b[2] \in ToSet(sites) \union {Host}
        BY <1>1, <1>4, <2>1, Requiring
    <2>4. QED
        BY <1>4, <2>1, <2>2, <2>3
<1>8. QED
    BY <1>6, <1>7, FS_Subset DEF Required

\* A graph is refused for its budget exactly when the slots or the bytes it needs exceed it
\* (allocate).
THEOREM BudgetIsExact == Spec => []BudgetExact
<1>1. Planning /\ ExactResidency /\ Budgeted => BudgetExact
    <2> SUFFICES ASSUME Planning, ExactResidency, Budgeted PROVE BudgetExact
        OBVIOUS
    <2> DEFINE R == ToSet(plan.buffers)
    <2>1. R \subseteq Required /\ Cardinality(R) = Len(plan.buffers) /\ Len(plan.buffers) \in Nat
        BY SlotsCounted
    <2>2. plan.reserved = BytesOf(R)
        BY DEF Planning, Coherent, Now
    <2>3. phase = "over budget" <=> Len(plan.buffers) > MaxBuffers \/ plan.reserved > MaxBytes
        BY DEF Budgeted, OverBudget, Now
    <2>4. phase = "planned" => R = Required
        BY DEF ExactResidency
    <2>5. MaxBuffers \in Nat /\ MaxBytes \in Nat
        BY ResidencyAssumption
    <2>6. IsFiniteSet(Required) /\ Required \in SUBSET (Tensors \X Spaces)
        BY RequiredFinite DEF Planning
    <2> HIDE DEF R
    <2>7. Cardinality(R) <= Cardinality(Required) /\ Cardinality(Required) \in Nat
        BY <2>1, <2>6, FS_Subset, FS_CardinalityType
    <2>8. BytesOf(R) <= BytesOf(Required) /\ BytesOf(R) \in Nat /\ BytesOf(Required) \in Nat
        BY <2>1, <2>6, BytesGrow
    <2>9. ASSUME phase = "over budget"
          PROVE  Cardinality(Required) > MaxBuffers \/ BytesOf(Required) > MaxBytes
        <3>1. CASE Len(plan.buffers) > MaxBuffers
            BY <2>1, <2>5, <2>7, <3>1
        <3>2. CASE plan.reserved > MaxBytes
            BY <2>2, <2>5, <2>8, <3>2
        <3>3. QED
            BY <2>3, <2>9, <3>1, <3>2
    <2>10. ASSUME phase = "planned"
           PROVE  ~(Cardinality(Required) > MaxBuffers \/ BytesOf(Required) > MaxBytes)
        BY <2>1, <2>2, <2>3, <2>4, <2>10
    <2>11. QED
        BY <2>9, <2>10 DEF BudgetExact, BytesOf
<1>2. QED
    BY <1>1, AlwaysPlanning, AlwaysBudgeted, ResidencyIsExact, PTL
=============================================================================
