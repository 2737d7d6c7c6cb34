--------------------------- MODULE SourceConversion ---------------------------
(***************************************************************************)
(* convert_bounded_cpu_source (runtime/bounded_cpu_source.py): one source  *)
(* buffer is parsed by a fixed worker in a container of its own.  The call *)
(* builds the worker's image in a private directory, runs it once, and     *)
(* answers only when the container, the image tag and the directory are    *)
(* known to be gone.                                                       *)
(*                                                                         *)
(* A `docker` invocation (_command of runtime/bounded_c11_application.py)  *)
(* completes or raises; one that raises may have had its effect.           *)
(***************************************************************************)
VARIABLES
    pc,              \* the command the call waits for
    error,           \* the exception on its way, "none" if there is none
    started,         \* the worker may have been started
    containerClean,  \* the local of that name
    outcome,         \* what the call returns or raises, "none" while it works
    made,            \* history: _make_context has returned
    tag, container, directory    \* what the daemon and the file system have

callVars  == <<pc, error, started, containerClean, outcome, made>>
worldVars == <<tag, container, directory>>
vars      == <<callVars, worldVars>>

\* The reasons BoundedCPUSourceRuntimeError accepts; it refuses any other with a ValueError
\* of its own.
Reasons == {"unsupported_platform", "bundle_rejected", "workspace_rejected", "build_failed",
            "image_rejected", "context_drift", "process_error", "timeout", "output_limit", "protocol_rejected", "cleanup_failed"}

\* What _bounded_process may give as the reason of a _ProcessFailure.
ProcessReasons == {"input_rejection", "process_error", "timeout", "output_limit"}

TypeOK ==
    /\ pc \in {"start", "write", "build", "inspect", "run", "await", "check", "remove", "recheck",
               "image", "list", "files", "done"}
    /\ error \in Reasons \union {"none", "rejected", "interrupted"}
    /\ outcome \in Reasons \union {"none", "graph", "rejected", "interrupted"}
    /\ started \in BOOLEAN /\ containerClean \in BOOLEAN /\ made \in BOOLEAN
    /\ tag \in BOOLEAN /\ container \in BOOLEAN /\ directory \in BOOLEAN

Init ==
    /\ pc = "start" /\ error = "none" /\ started = FALSE /\ containerClean = FALSE
    /\ outcome = "none" /\ made = FALSE
    /\ tag = FALSE /\ container = FALSE /\ directory = FALSE

Go(from, to) == pc = from /\ pc' = to

\* A process failure is reported by its own reason, if that is one of Reasons.
\* Mutant: it is not asked whether it is.
ReportedAsIs(reason) == reason

Reported(reason) == IF reason \in Reasons THEN reason ELSE "process_error"

CommandReasons == {Reported(r) : r \in ProcessReasons}

\* An exception inside the try statement, for one of these reasons or an interrupt.  The
\* except clause cleans up before it reports.
Fail(from, reasons) ==
    /\ Go(from, IF started' THEN "remove" ELSE "image")
    /\ error' \in reasons \union {"interrupted"}
    /\ containerClean' = ~started'
    /\ UNCHANGED <<outcome, made>>

-----------------------------------------------------------------------------
(* The try statement *)

\* Too long a request, or a source or signature that is refused before anything is touched.
RejectRequest ==
    /\ Go("start", "done") /\ outcome' \in {"rejected", "protocol_rejected"}
    /\ UNCHANGED <<error, started, containerClean, made, worldVars>>

\* There is no context to clean up; _make_context removes what it made, as well as it can.
NoContext ==
    /\ Go("start", "done") /\ directory' \in BOOLEAN
    /\ outcome' \in {"unsupported_platform", "bundle_rejected", "workspace_rejected", "interrupted"}
    /\ UNCHANGED <<error, started, containerClean, made, tag, container>>

ContextMade ==
    /\ Go("start", "write") /\ directory' = TRUE /\ made' = TRUE
    /\ UNCHANGED <<error, started, containerClean, outcome, tag, container>>

ContextWritten ==
    /\ Go("write", "build") /\ directory
    /\ UNCHANGED <<error, started, containerClean, outcome, made, worldVars>>

ContextFails ==
    /\ UNCHANGED <<started, worldVars>> /\ Fail("write", {"workspace_rejected"})

ImageBuilt ==
    /\ Go("build", "inspect") /\ directory /\ tag' = TRUE
    /\ UNCHANGED <<error, started, containerClean, outcome, made, container, directory>>

ImageBuildFails ==
    /\ UNCHANGED <<started, container, directory>> /\ Fail("build", CommandReasons \union {"build_failed"})
    /\ tag' \in (IF directory THEN BOOLEAN ELSE {FALSE})

\* The image is identified and the private directory is as it was written.
ImageInspected ==
    /\ Go("inspect", "run") /\ directory
    /\ UNCHANGED <<error, started, containerClean, outcome, made, worldVars>>

InspectFails ==
    /\ UNCHANGED <<started, worldVars>>
    /\ Fail("inspect", CommandReasons \union {"image_rejected", "context_drift"})

WorkerStarts ==
    /\ Go("run", "await") /\ directory
    /\ started' = TRUE /\ container' = TRUE
    /\ UNCHANGED <<error, containerClean, outcome, made, tag, directory>>

WorkerDoesNotStart ==
    /\ started' = TRUE /\ UNCHANGED worldVars /\ Fail("run", CommandReasons)

\* The response is a graph: the call leaves the try statement.
Answer ==
    /\ Go("await", "check") /\ directory
    /\ UNCHANGED <<error, started, containerClean, outcome, made, worldVars>>

\* The worker's own rejection, after it was checked, is an exception like any other.
WorkerRejects ==
    /\ Go("await", "remove") /\ directory
    /\ error' = "rejected" /\ containerClean' = FALSE
    /\ UNCHANGED <<started, outcome, made, worldVars>>

WorkerFails ==
    /\ UNCHANGED <<started, worldVars>>
    /\ Fail("await", CommandReasons \union {"protocol_rejected"})

-----------------------------------------------------------------------------
(* _cleanup_container *)

\* Mutant: a client that ended is taken to have removed its container (--rm).
CheckTrusted ==
    /\ Go("check", "image") /\ containerClean' = TRUE
    /\ UNCHANGED <<error, started, outcome, made, worldVars>>

\* A successful lookup of the exact name that shows nothing is the only proof of absence.
Check ==
    /\ \/ Go("check", "image") /\ directory /\ ~container /\ containerClean' = TRUE
       \/ Go("check", "remove") /\ UNCHANGED containerClean
    /\ UNCHANGED <<error, started, outcome, made, worldVars>>

\* `docker rm --force`: nobody looks at how it went.
Remove ==
    /\ Go("remove", "recheck")
    /\ container' \in (IF directory THEN {container, FALSE} ELSE {container})
    /\ UNCHANGED <<error, started, containerClean, outcome, made, tag, directory>>

\* Mutant: `docker rm --force` is taken to have worked.
RecheckTrusted ==
    /\ Go("recheck", "image") /\ containerClean' = TRUE
    /\ UNCHANGED <<error, started, outcome, made, worldVars>>

Recheck ==
    /\ Go("recheck", "image")
    /\ \/ directory /\ ~container /\ containerClean' = TRUE
       \/ containerClean' = FALSE
    /\ UNCHANGED <<error, started, outcome, made, worldVars>>

-----------------------------------------------------------------------------
(* _cleanup of the context, whatever became of the container, and the end of the call *)

Finish(from, contextClean) ==
    /\ Go(from, "done")
    /\ outcome' = IF ~containerClean \/ ~contextClean THEN "cleanup_failed"
                  ELSE IF error = "none" THEN "graph" ELSE error
    /\ UNCHANGED <<error, started, containerClean, made>>

\* The daemon may give up the tag of an image that a container uses: that the tag is gone
\* says nothing of the container.
ImageRemoved ==
    /\ Go("image", "files") /\ directory /\ tag /\ tag' = FALSE
    /\ UNCHANGED <<error, started, containerClean, outcome, made, container, directory>>

\* `docker image rm` exits with a failure.
ImageRefused ==
    /\ Go("image", "list") /\ directory
    /\ UNCHANGED <<error, started, containerClean, outcome, made, worldVars>>

ImageNotListed ==
    /\ Go("list", "files") /\ directory /\ ~tag
    /\ UNCHANGED <<error, started, containerClean, outcome, made, worldVars>>

\* `docker image rm` raises, perhaps with its effect; the lookup raises or shows something.
ImageCleanupFails ==
    /\ \/ /\ Finish("image", FALSE)
          /\ tag' \in (IF directory THEN {tag, FALSE} ELSE {tag})
       \/ Finish("list", FALSE) /\ UNCHANGED tag
    /\ UNCHANGED <<container, directory>>

DirectoryRemoved ==
    /\ Finish("files", TRUE) /\ directory' = FALSE
    /\ UNCHANGED <<tag, container>>

DirectoryKept ==
    /\ Finish("files", FALSE)
    /\ UNCHANGED worldVars

\* KeyboardInterrupt during the cleanup: nothing catches it.
Interrupted ==
    /\ pc \in {"check", "remove", "recheck", "image", "list", "files"}
    /\ pc' = "done" /\ outcome' = "interrupted"
    /\ UNCHANGED <<error, started, containerClean, made, worldVars>>

-----------------------------------------------------------------------------
(* The world (external) *)

WorkerExits ==
    /\ container /\ container' = FALSE
    /\ UNCHANGED <<callVars, tag, directory>>

DirectoryVanishes ==
    /\ directory /\ directory' = FALSE
    /\ UNCHANGED <<callVars, tag, container>>

World == WorkerExits \/ DirectoryVanishes

-----------------------------------------------------------------------------
(* The call *)

Call ==
    \/ RejectRequest \/ NoContext \/ ContextMade \/ ContextWritten \/ ContextFails
    \/ ImageBuilt \/ ImageBuildFails \/ ImageInspected \/ InspectFails
    \/ WorkerStarts \/ WorkerDoesNotStart \/ Answer \/ WorkerRejects \/ WorkerFails
    \/ Check \/ Remove \/ Recheck
    \/ ImageRemoved \/ ImageRefused \/ ImageNotListed \/ ImageCleanupFails
    \/ DirectoryRemoved \/ DirectoryKept \/ Interrupted

Next == Call \/ World

Spec == Init /\ [][Next]_vars

-----------------------------------------------------------------------------
(* Properties *)

Clean == ~tag /\ ~container /\ ~directory

\* "The graph is emitted only after parser cleanup succeeds" (docs/BOUNDED_CPU_SOURCE.md):
\* a returned graph means that the worker, the image tag and the directory are gone, also
\* when `docker run` answered and its container outlived it.
GraphAfterCleanup == outcome = "graph" => Clean

\* Once there is a context, an error other than cleanup_failed says that nothing is left:
\* the worker's rejection and every runtime failure wait for the same proof.
OnlyCleanupFailedLeavesAnything ==
    made /\ outcome \in (Reasons \ {"cleanup_failed"}) \union {"rejected"} => Clean

=============================================================================
