---------------------------- MODULE ModelSession ----------------------------
(***************************************************************************)
(* CPUModelSession (bounded_cpu_model_session.py) over the application it  *)
(* builds and owns: run validates, builds on the first valid request, runs *)
(* and checks the outputs; any failure after native work began closes the  *)
(* session; close releases the application and can be retried.  A per-     *)
(* session lock is only ever tried, so a concurrent call is refused with   *)
(* session_busy.                                                           *)
(*                                                                         *)
(* The application is the module ContainerApplication: a session call that *)
(* builds, runs or closes it hands its thread over to that module's steps  *)
(* and goes on when they are back at "idle".                               *)
(***************************************************************************)
EXTENDS Integers, Sequences, FiniteSets

CONSTANTS
    Threads, NoThread, MaxRuns, DirectoryMayVanish,   \* of the application
    MaxRequests,    \* MAX_SESSION_REQUESTS
    MaxElements,    \* MAX_SESSION_ELEMENTS
    RequestSizes    \* the models to try: elements of one expanded request, fixed by
                    \* the model, paired with the elements of one result

ASSUME SessionAssumption ==
    /\ NoThread \notin Threads /\ DirectoryMayVanish \in BOOLEAN /\ MaxRuns \in Nat
    /\ MaxRequests \in Nat \ {0} /\ MaxElements \in Nat
    /\ RequestSizes \subseteq Nat \X Nat
    /\ MaxRuns > MaxRequests       \* the application's bound is never in the way

VARIABLES
    size,          \* what record.module and record.output_sizes say, once and for all
    at,            \* where each thread is in a session call
    outcome,       \* what its last session call returned or raised
    session,       \* _Session.lock
    shut,          \* _Session.closed
    built,         \* _Session.built is not None
    requests, inputsUsed, outputsUsed,
    published,     \* history: the sequence numbers of all results, in order
    \* the application
    appPc, appResult, handle, appLock, appClosed, imageRemoved, filesRemoved, started,
    tag, containers, directory, residue

App == INSTANCE ContainerApplication
           WITH pc <- appPc, result <- appResult, lock <- appLock, closed <- appClosed

counters    == <<size, requests, inputsUsed, outputsUsed, published>>
sessionVars == <<at, outcome, session, shut, built, counters>>
appVars     == <<appPc, appResult, handle, appLock, appClosed, imageRemoved, filesRemoved,
                 started, tag, containers, directory, residue>>
vars        == <<sessionVars, appVars>>

Places == {"outside", "admit", "building", "running", "failing", "closing"}

TypeOK ==
    /\ App!TypeOK
    /\ size \in RequestSizes
    /\ at \in [Threads -> Places]
    /\ outcome \in [Threads -> {"none", "session_busy", "closed", "session_limit", "rejected",
                                "result", "failed", "cleanup_failed", "released"}]
    /\ session \in Threads \union {NoThread}
    /\ shut \in BOOLEAN /\ built \in BOOLEAN
    /\ requests \in Nat /\ inputsUsed \in Nat /\ outputsUsed \in Nat
    /\ published \in Seq(Nat)

Init ==
    /\ App!Init
    /\ size \in RequestSizes
    /\ at = [t \in Threads |-> "outside"] /\ outcome = [t \in Threads |-> "none"]
    /\ session = NoThread /\ shut = FALSE /\ built = FALSE
    /\ requests = 0 /\ inputsUsed = 0 /\ outputsUsed = 0 /\ published = <<>>

Go(t, from, to) == at[t] = from /\ at' = [at EXCEPT ![t] = to]

\* The call ends and, unless it never got it, the session lock is released.
Return(t, from, o) ==
    /\ Go(t, from, "outside")
    /\ outcome' = [outcome EXCEPT ![t] = o]

Leave(t, from, o) == Return(t, from, o) /\ session' = NoThread

\* The application call of t is over.
Back(t) == appPc[t] = "idle"

-----------------------------------------------------------------------------
(* run *)

CallRun(t) ==
    /\ session = NoThread
    /\ Go(t, "outside", "admit")
    /\ session' = t
    /\ UNCHANGED <<outcome, shut, built, counters, appVars>>

\* acquire(blocking=False) fails, in run and in close alike.
Busy(t) ==
    /\ session # NoThread
    /\ Return(t, "outside", "session_busy")
    /\ UNCHANGED <<session, shut, built, counters, appVars>>

\* Mutant: what this request adds is not counted.
OverBudgetLate == inputsUsed > MaxElements \/ outputsUsed > MaxElements

OverBudget ==
    \/ inputsUsed + size[1] > MaxElements
    \/ outputsUsed + size[2] > MaxElements

\* Refusals before any native work: the session stays as it is.
RefuseClosed(t) ==
    /\ shut /\ Leave(t, "admit", "closed")
    /\ UNCHANGED <<shut, built, counters, appVars>>

RefuseLimit(t) ==
    /\ ~shut /\ (requests >= MaxRequests \/ OverBudget)
    /\ Leave(t, "admit", "session_limit")
    /\ UNCHANGED <<shut, built, counters, appVars>>

RefuseInput(t) ==
    /\ ~shut /\ requests < MaxRequests
    /\ Leave(t, "admit", "rejected")
    /\ UNCHANGED <<shut, built, counters, appVars>>

\* Mutant: only the budgets limit a session.
AdmissibleUncounted == ~shut /\ ~OverBudget

Admissible == ~shut /\ requests < MaxRequests /\ ~OverBudget

\* The first valid request builds.
StartBuild(t) ==
    /\ Admissible /\ ~built
    /\ Go(t, "admit", "building")
    /\ App!CallBuild(t)
    /\ UNCHANGED <<outcome, session, shut, built, counters>>

StartRun(t) ==
    /\ Admissible /\ built
    /\ Go(t, "admit", "running")
    /\ App!CallRun(t)
    /\ UNCHANGED <<outcome, session, shut, built, counters>>

\* The build is back with the program the session prepared: run on it at once.
BuildDone(t) ==
    /\ Back(t) /\ appResult[t] = "built"
    /\ Go(t, "building", "running")
    /\ built' = TRUE
    /\ App!CallRun(t)
    /\ UNCHANGED <<outcome, session, shut, counters>>

\* It is back with another program digest: graph_drift, and the new handle is closed.
BuildDrifts(t) ==
    /\ Back(t) /\ appResult[t] = "built"
    /\ Go(t, "building", "failing")
    /\ built' = TRUE /\ shut' = TRUE
    /\ App!CallClose(t)
    /\ UNCHANGED <<outcome, session, counters>>

\* Mutant: a failed build leaves the session open.
BuildFailsOpen(t) ==
    /\ Back(t) /\ appResult[t] = "build failed"
    /\ Leave(t, "building", "failed")
    /\ UNCHANGED <<shut, built, counters, appVars>>

\* It raised: _close finds no handle to close.
BuildFails(t) ==
    /\ Back(t) /\ appResult[t] = "build failed"
    /\ Leave(t, "building", "failed")
    /\ shut' = TRUE
    /\ UNCHANGED <<built, counters, appVars>>

\* The outputs pass _checked_outputs: count them and return the result.
Publish(t) ==
    /\ Back(t) /\ appResult[t] = "outputs"
    /\ Leave(t, "running", "result")
    /\ requests' = requests + 1
    /\ inputsUsed' = inputsUsed + size[1]
    /\ outputsUsed' = outputsUsed + size[2]
    /\ published' = Append(published, requests + 1)
    /\ UNCHANGED <<size, shut, built, appVars>>

\* The run raised, or its outputs are rejected: close before reporting.
RunFails(t) ==
    /\ Back(t)
    /\ Go(t, "running", "failing")
    /\ shut' = TRUE
    /\ App!CallClose(t)
    /\ UNCHANGED <<outcome, session, built, counters>>

-----------------------------------------------------------------------------
(* close, and _close behind a failure *)

\* Mutant: close does not try the session lock.
CallCloseUnlocked(t) ==
    /\ built /\ shut' = TRUE
    /\ Go(t, "outside", "closing")
    /\ App!CallClose(t)
    /\ UNCHANGED <<outcome, session, built, counters>>

CallClose(t) ==
    /\ session = NoThread
    /\ shut' = TRUE
    /\ \/ /\ built
          /\ Go(t, "outside", "closing") /\ session' = t
          /\ App!CallClose(t)
          /\ UNCHANGED outcome
       \/ /\ ~built
          /\ Return(t, "outside", "released")
          /\ UNCHANGED <<session, appVars>>
    /\ UNCHANGED <<built, counters>>

\* The application is released; run now raises the error that closed the session.
CloseDone(t) ==
    /\ Back(t) /\ appResult[t] = "released"
    /\ Leave(t, "closing", "released") \/ Leave(t, "failing", "failed")
    /\ built' = FALSE
    /\ UNCHANGED <<shut, counters, appVars>>

\* Mutants: the handle is dropped whatever became of the cleanup; close tries again
\* until it succeeds.
CloseFailsDropped(t) ==
    /\ Back(t) /\ appResult[t] = "cleanup_failed"
    /\ Leave(t, "closing", "cleanup_failed") \/ Leave(t, "failing", "cleanup_failed")
    /\ built' = FALSE
    /\ UNCHANGED <<shut, counters, appVars>>

CloseFailsRetried(t) ==
    /\ Back(t) /\ appResult[t] = "cleanup_failed"
    /\ at[t] \in {"closing", "failing"}
    /\ App!CallClose(t)
    /\ UNCHANGED sessionVars

\* cleanup_failed hides that error and the handle is kept for a retry.
CloseFails(t) ==
    /\ Back(t) /\ appResult[t] = "cleanup_failed"
    /\ Leave(t, "closing", "cleanup_failed") \/ Leave(t, "failing", "cleanup_failed")
    /\ UNCHANGED <<shut, built, counters, appVars>>

Steps(t) ==
    \/ RefuseClosed(t) \/ RefuseLimit(t) \/ RefuseInput(t)
    \/ StartBuild(t) \/ StartRun(t) \/ BuildDone(t) \/ BuildDrifts(t) \/ BuildFails(t)
    \/ Publish(t) \/ RunFails(t) \/ CloseDone(t) \/ CloseFails(t)
    \/ App!Steps(t) /\ UNCHANGED sessionVars

Call(t) == CallRun(t) \/ Busy(t) \/ CallClose(t)

Next ==
    \/ \E t \in Threads : Call(t) \/ Steps(t)
    \/ App!World /\ UNCHANGED sessionVars

\* The threads that are inside a call run.
Spec == Init /\ [][Next]_vars /\ \A t \in Threads : WF_vars(Steps(t))

-----------------------------------------------------------------------------
(* Properties *)

\* Failed executions count too: one session never starts more containers than its limit.
NativeWorkBounded == started <= MaxRequests

\* The limits hold over the whole session, whatever was refused or failed in between: results
\* are numbered 1, 2, 3, ... in the order they are returned, and the element budgets count
\* what was published and nothing else.
BudgetKept ==
    /\ Len(published) <= MaxRequests /\ \A i \in DOMAIN published : published[i] = i
    /\ inputsUsed <= MaxElements /\ inputsUsed = Len(published) * size[1]
    /\ outputsUsed <= MaxElements /\ outputsUsed = Len(published) * size[2]

\* A closed session whose build succeeded keeps the handle until everything is released.
KeepsCleanupAuthority ==
    shut /\ session = NoThread => built \/ handle = "failed" \/ (~tag /\ ~directory)

\* "Concurrent operations reject instead of overlapping": a session call never waits for
\* the application's own lock.
NeverBlocks ==
    \A t \in Threads : appPc[t] \in App!Waiting => appLock = NoThread

\* Every call returns: run through build, run and cleanup, and close.
CallReturns == \A t \in Threads : at[t] # "outside" ~> at[t] = "outside"

\* The session keeps the promises of AbstractSession.
Abstract ==
    INSTANCE AbstractSession
        WITH phase <- IF ~shut THEN "open" ELSE IF built THEN "closed" ELSE "released",
             served <- requests

KeepsPromises == Abstract!Spec

\* rfcs/0334-bounded-cpu-model-session.md: "Cleanup failure reports cleanup_failed; the
\* closed handle retains cleanup authority so close() can retry", after a build failure as
\* after any other.
CleanupCanBeRetried == shut /\ session = NoThread => built \/ (~tag /\ ~directory)

=============================================================================
