---------------------------- MODULE SourceConsumer ----------------------------
(***************************************************************************)
(* The client of both consoles (run of                                     *)
(* integration/bounded_cpu_linear/consumer.py, and of its siblings for     *)
(* other families): every program is converted by tuc-source-to-json and   *)
(* run by tuc-cpu-app on all of its cases; then come sources the converter *)
(* has to reject and inputs the CPU has to reject.  The calls share one    *)
(* workspace and one daemon, and come one after the other.                 *)
(*                                                                         *)
(* A call of the converter is the module SourceConversion, one of the CPU  *)
(* the module BatchRun with one request.  What an earlier call left behind *)
(* stays where it is when the next one begins.                             *)
(***************************************************************************)
EXTENDS BatchRun

CONSTANTS
    Programs, Cases,      \* programs, and inputs of each of them
    Negatives, Numerics   \* negative_cases, numeric_cases

ASSUME ConsumerAssumption ==
    Programs \in Nat /\ Cases \in Nat /\ Negatives \in Nat /\ Numerics \in Nat

VARIABLES
    phase,       \* "next" call, at work on "convert" or "run", "check"; "recorded", "raised"
    call,        \* calls begun so far
    declined,    \* the running command failed with numeric_rejection
    litter,      \* history: a call left something when the next one of its kind began
    \* the conversion
    convPc, convError, convStarted, convContainerClean, convOutcome, convMade,
    convTag, convContainer, convDirectory

Conversion == INSTANCE SourceConversion WITH
    pc <- convPc, error <- convError, started <- convStarted,
    containerClean <- convContainerClean, outcome <- convOutcome, made <- convMade,
    tag <- convTag, container <- convContainer, directory <- convDirectory

consumerVars == <<phase, call, declined, litter>>
convVars     == <<convPc, convError, convStarted, convContainerClean, convOutcome, convMade,
                  convTag, convContainer, convDirectory>>
allVars      == <<consumerVars, convVars, vars>>

\* The calls in their order, and what each is for.
Calls == Programs * (Cases + 1) + Negatives + Numerics

Kind(i) ==
    IF i <= Programs * (Cases + 1)
    THEN IF (i - 1) % (Cases + 1) = 0 THEN "convert" ELSE "run"
    ELSE IF i <= Programs * (Cases + 1) + Negatives THEN "reject" ELSE "numeric"

ConsumerInit ==
    /\ Init /\ command = "after" /\ requests = 1
    /\ Conversion!Init
    /\ phase = "next" /\ call = 0 /\ declined = FALSE /\ litter = FALSE

\* What the last conversion and the last command have left in the daemon and the workspace.
ConversionClean == ~convTag /\ ~convContainer /\ ~convDirectory
CommandClean    == ~tag /\ containers = {} /\ ~directory

-----------------------------------------------------------------------------
(* One call: a fresh process, its steps, its end *)

Begin(kinds, at_work) ==
    /\ phase = "next" /\ call < Calls /\ Kind(call + 1) \in kinds
    /\ phase' = at_work /\ call' = call + 1

BeginConversion ==
    /\ Begin({"convert", "reject"}, "convert")
    /\ litter' = (litter \/ ~ConversionClean)
    /\ convPc' = "start" /\ convError' = "none" /\ convStarted' = FALSE
    /\ convContainerClean' = FALSE /\ convOutcome' = "none" /\ convMade' = FALSE
    /\ convTag' = FALSE /\ convContainer' = FALSE /\ convDirectory' = FALSE
    /\ UNCHANGED <<declined, vars>>

BeginRun ==
    /\ Begin({"run", "numeric"}, "run")
    /\ litter' = (litter \/ ~CommandClean)
    /\ at' = "start" /\ results' = <<>> /\ declined' = FALSE
    /\ pc' = [t \in Threads |-> "idle"] /\ result' = [t \in Threads |-> "none"]
    /\ handle' = "none" /\ lock' = NoThread
    /\ closed' = FALSE /\ imageRemoved' = FALSE /\ filesRemoved' = FALSE
    /\ started' = 0 /\ tag' = FALSE /\ containers' = {} /\ directory' = FALSE /\ residue' = FALSE
    /\ UNCHANGED <<command, requests, convVars>>

Convert ==
    /\ phase = "convert" /\ Conversion!Call
    /\ UNCHANGED <<consumerVars, vars>>

\* Only a response that was decoded, behind a docker command that completed, can be a
\* numeric_rejection.
Run ==
    /\ phase = "run" /\ (Command \/ Application)
    /\ declined' = IF pc[Main] = "await" /\ pc'[Main] = "kill"
                   THEN directory /\ started \notin containers ELSE declined
    /\ UNCHANGED <<phase, call, litter, convVars>>

\* The exit status and the output the consumer wants of a call (_graph_result, _success,
\* _negative_controls, _numeric_controls).
Answered ==
    CASE Kind(call) = "convert" -> convOutcome = "graph"
      [] Kind(call) = "reject"  -> convOutcome = "rejected"
      [] Kind(call) = "run"     -> at = "printed"
      [] Kind(call) = "numeric" -> at = "runtime failed" /\ declined

Accept ==
    /\ phase \in {"convert", "run"} /\ Answered
    /\ phase' = "check"
    /\ UNCHANGED <<call, declined, litter, convVars, vars>>

\* _unchanged looks into the workspace, where the private directories are made.  One of an
\* earlier call would have been found behind that call.
Unchanged ==
    /\ phase = "check" /\ ~convDirectory /\ ~directory
    /\ phase' = "next"
    /\ UNCHANGED <<call, declined, litter, convVars, vars>>

Record ==
    /\ phase = "next" /\ call = Calls
    /\ phase' = "recorded"
    /\ UNCHANGED <<call, declined, litter, convVars, vars>>

\* Anything unexpected ends everything: another answer, a value that differs, a deadline,
\* behind which _invoke kills the command wherever it is, an interrupt.
Raise ==
    /\ phase \in {"next", "convert", "run", "check"}
    /\ phase' = "raised"
    /\ UNCHANGED <<call, declined, litter, convVars, vars>>

\* The `docker` command that a killed call was waiting for has a session of its own
\* (start_new_session in _bounded_process), and goes on.
Orphan ==
    /\ phase = "raised"
    /\ \/ /\ App!ImageBuilt(Main) \/ App!StartContainer(Main) \/ App!RemoveContainer(Main)
             \/ App!RemoveImage(Main)
          /\ UNCHANGED <<command, requests, at, results, convVars>>
       \/ /\ Conversion!ImageBuilt \/ Conversion!WorkerStarts \/ Conversion!Remove
             \/ Conversion!ImageRemoved
          /\ UNCHANGED vars
    /\ UNCHANGED consumerVars

\* TemporaryDirectory removes the workspace with what is in it, as well as it can.
RemoveWorkspace ==
    /\ phase = "raised" /\ (directory \/ convDirectory)
    /\ directory' = FALSE /\ convDirectory' = FALSE
    /\ UNCHANGED <<consumerVars, command, requests, at, results, pc, result, handle, lock, closed,
                   imageRemoved, filesRemoved, started, tag, containers, residue, convPc,
                   convError, convStarted, convContainerClean, convOutcome, convMade, convTag,
                   convContainer>>

Consumer ==
    \/ BeginConversion \/ BeginRun \/ Convert \/ Run \/ Accept \/ Unchanged \/ Record \/ Raise

ConsumerNext ==
    \/ Consumer \/ Orphan \/ RemoveWorkspace
    \/ App!World /\ UNCHANGED <<consumerVars, convVars, command, requests, at, results>>
    \/ Conversion!World /\ UNCHANGED <<consumerVars, vars>>

ConsumerSpec == ConsumerInit /\ [][ConsumerNext]_allVars

-----------------------------------------------------------------------------
(* Properties *)

\* The record says workspaces_clean, which _unchanged asserts of the directory all calls
\* share.  More is true whenever a call was accepted, rejections among them: no image and no
\* container of any call is left either, where nobody looks.
AcceptedCallsLeaveNothing ==
    phase \in {"check", "next", "recorded"} => ConversionClean /\ CommandClean /\ ~litter

\* However converter and CPU fail, and wherever a call is killed with its `docker` command
\* going on, there is at most one container of all the calls at any time; litter would be an
\* earlier one.
OneContainerOfAll ==
    /\ convContainer => containers = {}
    /\ \A c, d \in containers : c = d
    /\ ~litter

\* Of every conversion: its reason is one the exception accepts, a graph means that the worker,
\* the tag and the directory are gone, and once there was a context cleanup_failed is the only
\* reason that leaves anything.
ConversionsReportTruly ==
    /\ Conversion!TypeOK
    /\ Conversion!GraphAfterCleanup
    /\ Conversion!OnlyCleanupFailedLeavesAnything

=============================================================================
