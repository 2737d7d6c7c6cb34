------------------------ MODULE ContainerApplication ------------------------
(***************************************************************************)
(* The life of one built CPU application (runtime/                         *)
(* bounded_c11_application.py): build_bounded_c11_application creates a    *)
(* private directory and an image tag, BuiltBoundedC11Application.run      *)
(* starts one container per call, close removes what the handle owns and   *)
(* can be retried.  Threads share the handle; one blocking lock per handle *)
(* serialises run and close.                                               *)
(*                                                                         *)
(* Every `docker` invocation (_command) may succeed, exit with a failure,  *)
(* or raise: a timeout, an output limit, an OSError, or the removal of its *)
(* per-invocation configuration directory failing after the command ran.   *)
(* A raising command may or may not have had its effect, and may leave its *)
(* invocation directory behind (residue).                                  *)
(***************************************************************************)
EXTENDS Integers, FiniteSets

CONSTANTS
    Threads,            \* callers that share the handle
    NoThread,           \* the lock is free
    MaxRuns,            \* model bound: containers started in one behaviour
    DirectoryMayVanish  \* something other than the runtime may remove the directory

ASSUME ApplicationAssumption ==
    /\ NoThread \notin Threads
    /\ MaxRuns \in Nat
    /\ DirectoryMayVanish \in BOOLEAN

VARIABLES
    pc,            \* where each thread is in build, run or close
    result,        \* what its last call returned or raised
    handle,        \* "none", "built", or "failed" when the build raised
    lock,          \* _Lifecycle.lock
    closed,        \* _Lifecycle.closed
    imageRemoved,  \* _Lifecycle.image_removed
    filesRemoved,  \* _Lifecycle.files_removed
    started,       \* containers started so far; the last one is the current one
    tag,           \* the daemon has the owned image tag
    containers,    \* containers the daemon has
    directory,     \* the private directory exists
    residue        \* an invocation directory was left in the docker-config directory

callVars  == <<pc, result>>
stateVars == <<handle, lock, closed, imageRemoved, filesRemoved>>
worldVars == <<tag, containers, directory, residue>>
vars      == <<callVars, stateVars, started, worldVars>>

BuildSteps   == {"context", "build", "inspect"}
RunSteps     == {"verify", "exec", "await", "kill"}
CleanupSteps == {"image", "list", "files"}
Waiting      == {"lock to run", "lock to close"}

TypeOK ==
    /\ pc \in [Threads -> {"idle"} \union BuildSteps \union Waiting \union RunSteps
                             \union CleanupSteps]
    /\ result \in [Threads -> {"none", "built", "build failed", "outputs", "closed",
                               "rejected", "failed", "released", "cleanup_failed"}]
    /\ handle \in {"none", "built", "failed"}
    /\ lock \in Threads \union {NoThread}
    /\ closed \in BOOLEAN /\ imageRemoved \in BOOLEAN /\ filesRemoved \in BOOLEAN
    /\ started \in Nat
    /\ tag \in BOOLEAN /\ directory \in BOOLEAN /\ residue \in BOOLEAN
    /\ containers \subseteq 1 .. started

Init ==
    /\ pc = [t \in Threads |-> "idle"] /\ result = [t \in Threads |-> "none"]
    /\ handle = "none" /\ lock = NoThread
    /\ closed = FALSE /\ imageRemoved = FALSE /\ filesRemoved = FALSE
    /\ started = 0
    /\ tag = FALSE /\ containers = {} /\ directory = FALSE /\ residue = FALSE

Go(t, from, to) == pc[t] = from /\ pc' = [pc EXCEPT ![t] = to]

\* The call of t ends; r is what its caller sees.
Return(t, from, r) == Go(t, from, "idle") /\ result' = [result EXCEPT ![t] = r]

\* _command ended without raising: its invocation directory is gone again.  It needs the
\* private directory, as working directory and as parent of the invocation directory.
Completes == directory /\ UNCHANGED residue

\* _command raised: the cleanup of the invocation directory is best effort.
Raises == residue' \in (IF directory THEN {residue, TRUE} ELSE {residue})

-----------------------------------------------------------------------------
(* build_bounded_c11_application *)

CallBuild(t) ==
    /\ handle = "none" /\ \A u \in Threads : pc[u] = "idle"
    /\ Go(t, "idle", "context")
    /\ UNCHANGED <<result, stateVars, started, worldVars>>

\* _make_context undoes a half-made directory as well as it can: what _remove_files raises is
\* suppressed, so the directory may stay, and nobody has a handle to it.
ContextFails(t) ==
    /\ Return(t, "context", "build failed")
    /\ handle' = "failed"
    /\ directory' \in BOOLEAN
    /\ UNCHANGED <<lock, closed, imageRemoved, filesRemoved, started, tag, containers, residue>>

\* _make_context succeeds; _write_context may still fail, which leads to _cleanup.
ContextMade(t) ==
    /\ \/ Go(t, "context", "build") \/ Go(t, "context", "image")
    /\ directory' = TRUE
    /\ UNCHANGED <<result, stateVars, started, tag, containers, residue>>

ImageBuilt(t) ==
    /\ Go(t, "build", "inspect")
    /\ Completes
    /\ tag' = TRUE
    /\ UNCHANGED <<result, stateVars, started, containers, directory>>

\* A build that exits with a failure leaves no tag; one that raises may leave it.
ImageBuildFails(t) ==
    /\ Go(t, "build", "image")
    /\ \/ Completes /\ UNCHANGED tag
       \/ Raises /\ tag' \in (IF directory THEN BOOLEAN ELSE {FALSE})
    /\ UNCHANGED <<result, stateVars, started, containers, directory>>

\* The identity, the context and the response budget are right: the handle exists.
Register(t) ==
    /\ Return(t, "inspect", "built")
    /\ Completes /\ ~residue
    /\ handle' = "built"
    /\ UNCHANGED <<lock, closed, imageRemoved, filesRemoved, started, tag, containers, directory>>

InspectFails(t) ==
    /\ Go(t, "inspect", "image")
    /\ Completes \/ Raises
    /\ UNCHANGED <<result, stateVars, started, tag, containers, directory>>

Build(t) == ContextFails(t) \/ ContextMade(t) \/ ImageBuilt(t) \/ ImageBuildFails(t)
              \/ Register(t) \/ InspectFails(t)

-----------------------------------------------------------------------------
(* BuiltBoundedC11Application._execute *)

CallRun(t) ==
    /\ handle = "built"
    /\ started + Cardinality({u \in Threads : pc[u] \in RunSteps \union {"lock to run"}})
         < MaxRuns
    /\ Go(t, "idle", "lock to run")
    /\ UNCHANGED <<result, stateVars, started, worldVars>>

\* `closed` is read under the lock.
RejectClosed(t) ==
    /\ lock = NoThread /\ closed
    /\ Return(t, "lock to run", "closed")
    /\ UNCHANGED <<stateVars, started, worldVars>>

\* Mutants: `closed` is not looked at; the lock is not waited for.
EnterRunClosed(t) ==
    /\ lock = NoThread
    /\ Go(t, "lock to run", "verify")
    /\ lock' = t
    /\ UNCHANGED <<result, handle, closed, imageRemoved, filesRemoved, started, worldVars>>

EnterRunUnlocked(t) ==
    /\ ~closed
    /\ Go(t, "lock to run", "verify")
    /\ lock' = t
    /\ UNCHANGED <<result, handle, closed, imageRemoved, filesRemoved, started, worldVars>>

EnterRun(t) ==
    /\ lock = NoThread /\ ~closed
    /\ Go(t, "lock to run", "verify")
    /\ lock' = t
    /\ UNCHANGED <<result, handle, closed, imageRemoved, filesRemoved, started, worldVars>>

\* Mutant: a failing run keeps the lock.
LeaveRunLocked(t, from, r) ==
    /\ Return(t, from, r)
    /\ lock' = (IF r = "outputs" THEN NoThread ELSE lock)
    /\ UNCHANGED <<handle, closed, imageRemoved, filesRemoved>>

LeaveRun(t, from, r) ==
    /\ Return(t, from, r)
    /\ lock' = NoThread
    /\ UNCHANGED <<handle, closed, imageRemoved, filesRemoved>>

\* context_drift, graph_drift or input_rejection: no container was asked for.
RejectRun(t) ==
    /\ LeaveRun(t, "verify", "rejected")
    /\ UNCHANGED <<started, worldVars>>

\* _verify_context insists on the directory and on an empty docker-config directory.
Verified(t) ==
    /\ Go(t, "verify", "exec")
    /\ directory /\ ~residue
    /\ UNCHANGED <<result, stateVars, started, worldVars>>

\* Mutant: the container is given the name of the next one.
StartContainerNextName(t) ==
    /\ Go(t, "exec", "await")
    /\ directory
    /\ started' = started + 1
    /\ containers' = containers \union {started + 2}
    /\ UNCHANGED <<result, stateVars, tag, directory, residue>>

\* `docker run` reaches the daemon.
StartContainer(t) ==
    /\ Go(t, "exec", "await")
    /\ directory
    /\ started' = started + 1
    /\ containers' = containers \union {started + 1}
    /\ UNCHANGED <<result, stateVars, tag, directory, residue>>

\* `docker run` raises before a container exists.
StartFails(t) ==
    /\ Go(t, "exec", "kill")
    /\ started' = started + 1
    /\ Raises
    /\ UNCHANGED <<result, stateVars, tag, containers, directory>>

\* The container ended and its response decodes.
Outputs(t) ==
    /\ LeaveRun(t, "await", "outputs")
    /\ started \notin containers
    /\ Completes
    /\ UNCHANGED <<started, tag, containers, directory>>

\* The response is not accepted, or `docker run` raised, perhaps with the container alive.
RunFails(t) ==
    /\ Go(t, "await", "kill")
    /\ \/ Completes /\ started \notin containers
       \/ Raises
    /\ UNCHANGED <<result, stateVars, started, tag, containers, directory>>

\* _remove_container: `docker rm --force`, every failure suppressed.
RemoveContainer(t) ==
    /\ LeaveRun(t, "kill", "failed")
    /\ \/ Completes /\ containers' \in {containers, containers \ {started}}
       \/ Raises /\ containers' \in {containers} \union
                       (IF directory THEN {containers \ {started}} ELSE {})
    /\ UNCHANGED <<started, tag, directory>>

Run(t) == RejectClosed(t) \/ EnterRun(t) \/ RejectRun(t) \/ Verified(t) \/ StartContainer(t)
            \/ StartFails(t) \/ Outputs(t) \/ RunFails(t) \/ RemoveContainer(t)

-----------------------------------------------------------------------------
(* BuiltBoundedC11Application.close, and _cleanup, which a failing build shares *)

CallClose(t) ==
    /\ handle = "built"
    /\ Go(t, "idle", "lock to close")
    /\ UNCHANGED <<result, stateVars, started, worldVars>>

AlreadyClosed(t) ==
    /\ lock = NoThread /\ imageRemoved /\ filesRemoved
    /\ Return(t, "lock to close", "released")
    /\ UNCHANGED <<stateVars, started, worldVars>>

\* Mutant: a retry takes the image to be gone.
EnterCloseRetriesFiles(t) ==
    /\ lock = NoThread /\ ~(imageRemoved /\ filesRemoved)
    /\ Go(t, "lock to close", IF closed THEN "files" ELSE "image")
    /\ lock' = t
    /\ closed' = TRUE
    /\ UNCHANGED <<result, handle, imageRemoved, filesRemoved, started, worldVars>>

EnterClose(t) ==
    /\ lock = NoThread /\ ~(imageRemoved /\ filesRemoved)
    /\ Go(t, "lock to close", IF imageRemoved THEN "files" ELSE "image")
    /\ lock' = t
    /\ closed' = TRUE
    /\ UNCHANGED <<result, handle, imageRemoved, filesRemoved, started, worldVars>>

\* Mutant: a failing close keeps the lock.
LeaveCleanupLocked(t, from, clean) ==
    IF handle = "none"
    THEN Return(t, from, "build failed") /\ handle' = "failed" /\ UNCHANGED lock
    ELSE /\ Return(t, from, IF clean THEN "released" ELSE "cleanup_failed")
         /\ lock' = (IF clean THEN NoThread ELSE lock) /\ UNCHANGED handle

\* _cleanup returned: close releases the lock and reports it, a failing build raises its
\* own error whatever the cleanup came to.
LeaveCleanup(t, from, clean) ==
    IF handle = "none"
    THEN Return(t, from, "build failed") /\ handle' = "failed" /\ UNCHANGED lock
    ELSE /\ Return(t, from, IF clean THEN "released" ELSE "cleanup_failed")
         /\ lock' = NoThread /\ UNCHANGED handle

\* `docker image rm` succeeds.
RemoveImage(t) ==
    /\ Go(t, "image", "files")
    /\ Completes /\ tag
    /\ tag' = FALSE /\ imageRemoved' = TRUE
    /\ UNCHANGED <<result, handle, lock, closed, filesRemoved, started, containers, directory>>

\* Mutants: the failure is taken to say that the tag is gone; it is final, because nobody
\* looks whether the tag is gone.
RemoveImageAssumedGone(t) ==
    /\ Go(t, "image", "files")
    /\ Completes
    /\ imageRemoved' = TRUE
    /\ UNCHANGED <<result, handle, lock, closed, filesRemoved, started, tag, containers, directory>>

RemoveImageGivesUp(t) ==
    /\ LeaveCleanup(t, "image", FALSE)
    /\ Completes
    /\ UNCHANGED <<closed, imageRemoved, filesRemoved, started, tag, containers, directory>>

\* It exits with a failure: the tag is already gone, or the daemon refuses.
RemoveImageRefused(t) ==
    /\ Go(t, "image", "list")
    /\ Completes
    /\ UNCHANGED <<result, stateVars, started, tag, containers, directory>>

RemoveImageRaises(t) ==
    /\ LeaveCleanup(t, "image", FALSE)
    /\ Raises
    /\ tag' \in (IF directory THEN {tag, FALSE} ELSE {tag})
    /\ UNCHANGED <<closed, imageRemoved, filesRemoved, started, containers, directory>>

\* `docker image ls` shows no such reference.
ImageNotListed(t) ==
    /\ Go(t, "list", "files")
    /\ Completes /\ ~tag
    /\ imageRemoved' = TRUE
    /\ UNCHANGED <<result, handle, lock, closed, filesRemoved, started, tag, containers, directory>>

\* It shows the image, exits with a failure, prints to stderr, or raises.
ImageListFails(t) ==
    /\ LeaveCleanup(t, "list", FALSE)
    /\ Completes \/ Raises
    /\ UNCHANGED <<closed, imageRemoved, filesRemoved, started, tag, containers, directory>>

\* The private directory goes last, if it is still there.
RemoveDirectory(t) ==
    /\ LeaveCleanup(t, "files", TRUE)
    /\ directory' = FALSE /\ residue' = FALSE
    /\ filesRemoved' = TRUE
    /\ UNCHANGED <<closed, imageRemoved, started, tag, containers>>

RemoveDirectoryFails(t) ==
    /\ LeaveCleanup(t, "files", FALSE)
    /\ UNCHANGED <<closed, imageRemoved, filesRemoved, started, worldVars>>

Close(t) == AlreadyClosed(t) \/ EnterClose(t) \/ RemoveImage(t) \/ RemoveImageRefused(t)
              \/ RemoveImageRaises(t) \/ ImageNotListed(t) \/ ImageListFails(t)
              \/ RemoveDirectory(t) \/ RemoveDirectoryFails(t)

-----------------------------------------------------------------------------
(* The world (external) *)

\* --rm: a container that exits is removed.
ContainerExits ==
    /\ \E c \in containers : containers' = containers \ {c}
    /\ UNCHANGED <<callVars, stateVars, started, tag, directory, residue>>

DirectoryVanishes ==
    /\ DirectoryMayVanish /\ directory
    /\ directory' = FALSE
    /\ UNCHANGED <<callVars, stateVars, started, tag, containers, residue>>

Call(t)  == CallBuild(t) \/ CallRun(t) \/ CallClose(t)
Steps(t) == Build(t) \/ Run(t) \/ Close(t)
World    == ContainerExits \/ DirectoryVanishes

Next == (\E t \in Threads : Call(t) \/ Steps(t)) \/ World

Spec == Init /\ [][Next]_vars /\ \A t \in Threads : WF_vars(Steps(t))

-----------------------------------------------------------------------------
(* Properties *)

Inside(t) == pc[t] \in BuildSteps \union RunSteps \union CleanupSteps

\* Two threads are never both between taking and releasing the handle: no container is
\* awaited while another thread removes the image it runs on, and cleanups do not overlap.
OneAtATime == \A t, u \in Threads : Inside(t) /\ Inside(u) => t = u

\* Once a close has begun, even one that fails and will be retried, no container is ever
\* started again ("a closed handle rejects execution").
NoStartAfterClose == [][closed => started' = started /\ containers' \subseteq containers]_vars

\* A close that returned left neither the owned tag nor the private directory, whichever
\* earlier cleanup was interrupted, by whom and where.
CloseIsClean == \A t \in Threads : result[t] = "released" => ~tag /\ ~directory

\* The private directory, which every docker command needs, is given up only after the
\* tag is gone: otherwise the tag could never be removed through the handle.
DirectoryOutlivesTag == [][~filesRemoved /\ filesRemoved' => ~tag]_vars

\* The lock is released on every path out of run and close.
LockReleased == \A t \in Threads : (lock = t) ~> (lock # t)

\* Somebody keeps retrying close, gets the lock now and then, and a command that is tried
\* again and again succeeds in the end.
RetrySpec ==
    /\ Spec
    /\ SF_vars(\E t \in Threads : CallClose(t))
    /\ SF_vars(\E t \in Threads : EnterClose(t) \/ AlreadyClosed(t))
    /\ SF_vars(\E t \in Threads : RemoveImage(t))
    /\ SF_vars(\E t \in Threads : RemoveImageRefused(t))
    /\ SF_vars(\E t \in Threads : ImageNotListed(t))
    /\ SF_vars(\E t \in Threads : RemoveDirectory(t))

\* Retried cleanups converge: no sequence of partial failures leaves a state from which
\* close cannot finish, such as a tag removed by a command that then raised.
CleanupConverges == closed ~> (imageRemoved /\ filesRemoved)

=============================================================================
