--------------------------- MODULE AbstractSession ---------------------------
(***************************************************************************)
(* What a CPU model session promises its callers (docs/                    *)
(* BOUNDED_CPU_MODEL_SESSION.md, the docstrings of                         *)
(* bounded_cpu_model_session.py): a bounded number of results, numbered    *)
(* one after the other, none once the session has been closed by anybody   *)
(* or by a failure, and a closed state that only a finished cleanup leaves.*)
(***************************************************************************)
EXTENDS Integers

CONSTANTS Threads, MaxRequests

VARIABLES
    phase,     \* "open"; "closed", owning native resources; "released"
    served,    \* results published
    outcome    \* what each thread's last call returned or raised

absVars == <<phase, served, outcome>>

Answer(t, o) == outcome' = [outcome EXCEPT ![t] = o]

Init ==
    /\ phase = "open" /\ served = 0
    /\ outcome = [t \in Threads |-> "none"]

Publish(t) ==
    /\ phase = "open" /\ served < MaxRequests
    /\ served' = served + 1
    /\ Answer(t, "result")
    /\ UNCHANGED phase

\* Nothing happened to the session; "closed" is an answer only of a closed session, and an
\* open session always says why it refuses.
Refuse(t) ==
    /\ \/ Answer(t, "session_busy")
       \/ phase = "open" /\ (Answer(t, "rejected") \/ Answer(t, "session_limit"))
       \/ phase # "open" /\ Answer(t, "closed")
    /\ UNCHANGED <<phase, served>>

\* The first close, or a failure of native work; the session may have nothing to release.
Shut == phase = "open" /\ phase' \in {"closed", "released"} /\ UNCHANGED served

Release == phase = "closed" /\ phase' = "released" /\ UNCHANGED served

\* "failed" and "released" are the last word on the native resources; "cleanup_failed"
\* keeps the session in the state from which close can be retried.
Report(t) ==
    \/ /\ Shut \/ Release \/ (phase = "released" /\ UNCHANGED <<phase, served>>)
       /\ phase' = "released"
       /\ Answer(t, "failed") \/ Answer(t, "released")
    \/ /\ phase = "closed" /\ UNCHANGED <<phase, served>>
       /\ Answer(t, "cleanup_failed")

Next ==
    \/ \E t \in Threads : Publish(t) \/ Refuse(t) \/ Report(t)
    \/ Shut /\ UNCHANGED outcome

Spec == Init /\ [][Next]_absVars

=============================================================================
