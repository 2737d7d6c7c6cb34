------------------------------ MODULE SlotReuse -------------------------------
(***************************************************************************)
(* The slots that storage is reused in: _assign_slots                      *)
(* (runtime/heterogeneous_storage_plan.py) and _assign_reuse_groups        *)
(* (runtime/buffer_lifetime.py).                                           *)
(*                                                                         *)
(* A draft asks for storage of a kind, its key, from the moment first to   *)
(* the moment last.  Drafts are taken in the order of these moments, and   *)
(* each goes into the first slot of its key that has become free, or into  *)
(* a new one.  Among drafts of the same moments the sources go by name;    *)
(* here they come in any order.                                            *)
(***************************************************************************)
EXTENDS Integers, Sequences

VARIABLES
    waiting,    \* the drafts without a slot
    slots       \* the slots made so far: a key, when it becomes free, and its drafts

placement == <<waiting, slots>>

Precedes(d, e) == d.first < e.first \/ (d.first = e.first /\ d.last < e.last)

\* Mutants: a slot is free at its last moment already; or only after a pause.
FreeEarly(slot, d) == slot.key = d.key /\ slot.last <= d.first
FreeLate(slot, d)  == slot.key = d.key /\ slot.last + 1 < d.first

Free(slot, d) == slot.key = d.key /\ slot.last < d.first

Place(d) ==
    LET free == {i \in DOMAIN slots : Free(slots[i], d)}
    IN  \/ /\ free = {}
           /\ slots' = Append(slots, [key |-> d.key, last |-> d.last, drafts |-> {d}])
        \/ \E i \in free :
              /\ \A j \in free : i <= j
              /\ slots' = [slots EXCEPT ![i] = [key |-> d.key, last |-> d.last,
                                                drafts |-> slots[i].drafts \union {d}]]

PlaceNext ==
    \E d \in waiting :
        /\ \A e \in waiting : ~Precedes(e, d)
        /\ Place(d)
        /\ waiting' = waiting \ {d}

-----------------------------------------------------------------------------
(* Properties *)

\* Two drafts that share a slot ask for the same kind of storage and are never live at the
\* same moment, the last use of the one and the first of the other included.
SharersDisjoint ==
    \A i \in DOMAIN slots : \A d, e \in slots[i].drafts :
        /\ d.key = slots[i].key
        /\ d # e => d.last < e.first \/ e.last < d.first

\* No slot too many: each one has a draft at whose first moment all the earlier slots of the
\* same key were in use, so that any plan without overlaps needs as many.
ReuseIsTight ==
    \A i \in DOMAIN slots : \E d \in slots[i].drafts :
        \A j \in 1 .. i - 1 : slots[j].key = slots[i].key =>
            \E e \in slots[j].drafts : e.first <= d.first /\ d.first <= e.last

=============================================================================
