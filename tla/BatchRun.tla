------------------------------ MODULE BatchRun ------------------------------
(***************************************************************************)
(* The run commands of tuc-cpu-app (_execute of                            *)
(* bounded_cpu_application_cli.py) and run_bounded_model_application: one  *)
(* process builds an application in a `with` statement, runs its validated *)
(* requests in order, leaves the block through close and prints all the    *)
(* results at once or none.                                                *)
(*                                                                         *)
(* The application is the module ContainerApplication, with one thread.    *)
(***************************************************************************)
EXTENDS Integers, Sequences, FiniteSets

CONSTANTS
    Main, NoThread,      \* the only thread
    DirectoryMayVanish,
    MaxRequests          \* MAX_BATCH_REQUESTS

ASSUME BatchAssumption ==
    /\ Main # NoThread /\ DirectoryMayVanish \in BOOLEAN
    /\ MaxRequests \in Nat \ {0}

Threads == {Main}
MaxRuns == MaxRequests

VARIABLES
    command,     \* "run-batch", or a command with one request whose outputs are checked
                 \* "inside" the block (run_bounded_model_application) or "after" it (run)
    requests,    \* number of requests of the command, all of them valid
    at,          \* where the command is
    results,     \* which container each result so far came from
    \* the application
    pc, result, handle, lock, closed, imageRemoved, filesRemoved, started,
    tag, containers, directory, residue

App == INSTANCE ContainerApplication

appVars == <<pc, result, handle, lock, closed, imageRemoved, filesRemoved, started,
             tag, containers, directory, residue>>
vars    == <<command, requests, at, results, appVars>>

TypeOK ==
    /\ App!TypeOK
    /\ command \in {"run-batch", "inside", "after"} /\ requests \in 1 .. MaxRequests
    /\ at \in {"start", "building", "running", "leaving", "failing", "printed", "rejected",
               "build failed", "runtime failed", "cleanup_failed"}
    /\ results \in Seq(Nat) /\ Len(results) <= requests

Init ==
    /\ App!Init
    /\ command \in {"run-batch", "inside", "after"}
    /\ requests \in IF command = "run-batch" THEN 1 .. MaxRequests ELSE {1}
    /\ at = "start" /\ results = <<>>

Go(from, to) == at = from /\ at' = to

\* The application call the command waits for is over, with this outcome.
Back(r) == pc[Main] = "idle" /\ result[Main] = r

StartBuild ==
    /\ Go("start", "building") /\ App!CallBuild(Main)
    /\ UNCHANGED <<command, requests, results>>

BuildFails ==
    /\ Back("build failed") /\ Go("building", "build failed")
    /\ UNCHANGED <<command, requests, results, appVars>>

StartRun ==
    /\ Back("built") /\ Go("building", "running") /\ App!CallRun(Main)
    /\ UNCHANGED <<command, requests, results>>

\* run_bounded_model_application finds another program than it prepared: graph_drift.
BuildDrifts ==
    /\ command = "inside" /\ Back("built")
    /\ Go("building", "failing") /\ App!CallClose(Main)
    /\ UNCHANGED <<command, requests, results>>

Keep == results' = Append(results, started)

\* Outputs that pass _checked_outputs, with requests left to run.
NextRequest ==
    /\ at = "running" /\ Back("outputs") /\ Len(results) + 1 < requests
    /\ Keep /\ App!CallRun(Main)
    /\ UNCHANGED <<command, requests, at>>

\* The outputs of the last request: the block is left.
LastRequest ==
    /\ Back("outputs") /\ Len(results) + 1 = requests
    /\ Go("running", "leaving") /\ Keep /\ App!CallClose(Main)
    /\ UNCHANGED <<command, requests>>

\* Mutant: a run that failed is tried again.
AbortRetries ==
    /\ at = "running" /\ Back("failed") /\ App!CallRun(Main)
    /\ UNCHANGED <<command, requests, at, results>>

\* Outputs rejected inside the block, or a run that raises: the exception leaves the block.
Abort ==
    /\ pc[Main] = "idle" /\ (command = "after" => result[Main] # "outputs")
    /\ Go("running", "failing") /\ App!CallClose(Main)
    /\ UNCHANGED <<command, requests, results>>

\* Mutant: what was computed is printed even if the block raised.
CloseDonePrints ==
    /\ Back("released")
    /\ Go("leaving", "printed") \/ Go("failing", "printed")
    /\ UNCHANGED <<command, requests, results, appVars>>

\* close succeeded: print everything, unless an exception is on its way or the command
\* rejects the outputs only now.
CloseDone ==
    /\ Back("released")
    /\ \/ Go("leaving", "printed")
       \/ command = "after" /\ Go("leaving", "rejected")
       \/ Go("failing", "runtime failed")
    /\ UNCHANGED <<command, requests, results, appVars>>

\* Mutant: a failing close is not told.
CloseFailsSilently ==
    /\ Back("cleanup_failed")
    /\ Go("leaving", "printed") \/ Go("failing", "runtime failed")
    /\ UNCHANGED <<command, requests, results, appVars>>

\* close raised: its error replaces the one on its way, and the handle is out of reach.
CloseFails ==
    /\ Back("cleanup_failed")
    /\ Go("leaving", "cleanup_failed") \/ Go("failing", "cleanup_failed")
    /\ UNCHANGED <<command, requests, results, appVars>>

Command ==
    \/ StartBuild \/ BuildFails \/ StartRun \/ BuildDrifts \/ NextRequest \/ LastRequest
    \/ Abort \/ CloseDone \/ CloseFails

Application == App!Steps(Main) /\ UNCHANGED <<command, requests, at, results>>

Next ==
    \/ Command \/ Application
    \/ App!World /\ UNCHANGED <<command, requests, at, results>>

\* The process runs.
Spec == Init /\ [][Next]_vars /\ WF_vars(Command \/ Application)

-----------------------------------------------------------------------------
(* Properties *)

\* "Successful results appear only after every call and cleanup have completed"
\* (docs/BOUNDED_CPU_BATCH.md): what is printed has one result for every request, each from
\* a container of its own, in order, and nothing of the run is left.
AllOrNothing ==
    at = "printed" =>
        /\ results = [i \in 1 .. requests |-> i] /\ started = requests
        /\ containers = {} /\ ~tag /\ ~directory

\* A command that fails for any reason but cleanup_failed, after the build, has removed its
\* tag and its directory: only cleanup_failed asks for a manual cleanup.
FailureIsClean == at \in {"runtime failed", "rejected"} => ~tag /\ ~directory

\* A container that outlives its run is never followed by another: one batch has at most
\* one container running.
OneContainer == Cardinality(containers) <= 1

\* The command ends, printing or with an error.  The close at the end of the block takes the
\* lock that the run before it held, in the same thread: a run that kept it, on whatever path
\* it failed, would leave the command waiting for itself.
CommandEnds == <>(at \in {"printed", "rejected", "build failed", "runtime failed", "cleanup_failed"})

=============================================================================
