--------------------- MODULE ContainerApplicationProofs ---------------------
(***************************************************************************)
(* Safety of a built application for any number of threads and runs.       *)
(***************************************************************************)
EXTENDS ContainerApplication, TLAPS

\* The handle's lock is held exactly while a thread runs or closes; before there is a
\* handle one thread at most is at work, and after a failed build none.
Locking ==
    /\ handle = "built" =>
          /\ \A t \in Threads : lock = t <=> pc[t] \in RunSteps \union CleanupSteps
          /\ \A t \in Threads : pc[t] \notin BuildSteps
    /\ handle = "none" =>
          /\ \A t, u \in Threads : pc[t] # "idle" /\ pc[u] # "idle" => t = u
          /\ \A t \in Threads : pc[t] \notin RunSteps \union Waiting
    /\ handle # "built" => lock = NoThread
    /\ handle = "failed" => \A t \in Threads : pc[t] = "idle"

\* What _Lifecycle says of the world is true, and it says so in the order of _cleanup.
Truthful ==
    /\ imageRemoved => ~tag
    /\ filesRemoved => imageRemoved /\ ~directory
    /\ \A t \in Threads :
          /\ pc[t] = "files" => imageRemoved
          /\ pc[t] \in BuildSteps \union {"image", "list"} => ~imageRemoved
          /\ result[t] = "released" => imageRemoved /\ filesRemoved

\* Before the build nothing was removed, and closing needs a handle and the lock.
Phases ==
    /\ closed => handle = "built" /\ \A t \in Threads : pc[t] \notin RunSteps
    /\ handle = "none" /\ (\A t \in Threads : pc[t] = "idle") => ~imageRemoved
    /\ handle = "none" => ~filesRemoved

IInv == TypeOK /\ Locking /\ Truthful /\ Phases

-----------------------------------------------------------------------------
LEMMA InitIInv == Init => IInv
<1> SUFFICES ASSUME Init PROVE IInv
    OBVIOUS
<1>1. TypeOK
    <2>1. started \in Nat /\ containers \subseteq 1 .. started
        BY ApplicationAssumption DEF Init
    <2>2. /\ pc \in [Threads -> {"idle"} \union BuildSteps \union Waiting \union RunSteps
                                   \union CleanupSteps]
          /\ result \in [Threads -> {"none", "built", "build failed", "outputs", "closed",
                                     "rejected", "failed", "released", "cleanup_failed"}]
        BY DEF Init
    <2>3. QED
        BY <2>1, <2>2 DEF Init, TypeOK
<1>2. Locking /\ Truthful /\ Phases
    BY DEF Init, Locking, Truthful, Phases, BuildSteps, RunSteps, CleanupSteps, Waiting
<1>3. QED
    BY <1>1, <1>2 DEF IInv

\* A thread that goes from one step of _cleanup to another leaves the lock as it is.
LEMMA CleanupMoves ==
    ASSUME TypeOK, Locking, NEW t \in Threads, pc[t] \in CleanupSteps, UNCHANGED <<handle, lock>>,
           NEW to \in CleanupSteps, pc' = [pc EXCEPT ![t] = to]
    PROVE  Locking'
<1>1. \A u \in Threads : pc'[u] = IF u = t THEN to ELSE pc[u]
    BY DEF TypeOK
<1>2. \A u \in Threads :
          /\ pc'[u] \in RunSteps \union CleanupSteps <=> pc[u] \in RunSteps \union CleanupSteps
          /\ pc'[u] \in BuildSteps <=> pc[u] \in BuildSteps
          /\ pc'[u] \in RunSteps \union Waiting <=> pc[u] \in RunSteps \union Waiting
          /\ pc'[u] = "idle" <=> pc[u] = "idle"
    BY <1>1 DEF BuildSteps, RunSteps, CleanupSteps, Waiting
<1>3. QED
    BY <1>2 DEF Locking

\* A thread that cleans up is alone, and what it has to do to the lock is done on the way out.
LEMMA CleanupLeaves ==
    ASSUME IInv, NEW t \in Threads, NEW from \in CleanupSteps, NEW clean \in BOOLEAN,
           LeaveCleanup(t, from, clean), UNCHANGED <<closed, imageRemoved>>,
           imageRemoved => ~tag', filesRemoved' => imageRemoved /\ ~directory',
           filesRemoved => filesRemoved', clean => filesRemoved'
    PROVE  /\ pc' \in [Threads -> {"idle"} \union BuildSteps \union Waiting \union RunSteps
                                     \union CleanupSteps]
           /\ result' \in [Threads -> {"none", "built", "build failed", "outputs", "closed",
                                       "rejected", "failed", "released", "cleanup_failed"}]
           /\ handle' \in {"none", "built", "failed"} /\ lock' \in Threads \union {NoThread}
           /\ Locking' /\ Truthful' /\ Phases'
<1> USE ApplicationAssumption DEF IInv, Return, Go
<1>1. pc[t] = from /\ pc' = [pc EXCEPT ![t] = "idle"] /\ handle \in {"none", "built"}
    BY DEF LeaveCleanup, TypeOK, Locking, CleanupSteps
<1>2. \A u \in Threads : pc'[u] = IF u = t THEN "idle" ELSE pc[u]
    BY <1>1 DEF TypeOK
<1>3. \A u \in Threads \ {t} : pc'[u] \notin BuildSteps \union RunSteps \union CleanupSteps
    BY <1>1, <1>2 DEF Locking, BuildSteps, CleanupSteps, RunSteps
<1>4. CASE handle = "none"
    <2>1. /\ handle' = "failed" /\ lock' = lock
          /\ result' = [result EXCEPT ![t] = "build failed"]
        BY <1>4 DEF LeaveCleanup
    <2>2. \A u \in Threads : pc'[u] = "idle"
        BY <1>1, <1>2, <1>4 DEF Locking, CleanupSteps
    <2>3. \A u \in Threads : result'[u] = "released" => imageRemoved /\ filesRemoved
        BY <2>1 DEF Truthful, TypeOK
    <2>4. Locking' /\ Phases'
        BY <1>4, <2>1, <2>2 DEF Locking, Phases
    <2>5. Truthful'
        BY <2>2, <2>3 DEF Truthful, BuildSteps
    <2>6. QED
        BY <1>1, <2>1, <2>4, <2>5 DEF TypeOK
<1>5. CASE handle = "built"
    <2>1. /\ handle' = "built" /\ lock' = NoThread
          /\ result' = [result EXCEPT ![t] = IF clean THEN "released" ELSE "cleanup_failed"]
        BY <1>5 DEF LeaveCleanup
    <2>2. \A u \in Threads : pc'[u] \notin BuildSteps \union RunSteps \union CleanupSteps
        BY <1>2, <1>3 DEF BuildSteps, RunSteps, CleanupSteps
    <2>3. \A u \in Threads : result'[u] = "released" => imageRemoved /\ filesRemoved'
        BY <2>1 DEF Truthful, TypeOK
    <2>4. Locking' /\ Phases'
        BY <1>5, <2>1, <2>2 DEF Locking, Phases
    <2>5. Truthful'
        BY <2>2, <2>3 DEF Truthful, BuildSteps, CleanupSteps
    <2>6. QED
        BY <1>1, <2>1, <2>4, <2>5 DEF TypeOK
<1>6. QED
    BY <1>1, <1>4, <1>5

LEMMA NextContainer ==
    ASSUME NEW n \in Nat, NEW C \in SUBSET (1 .. n)
    PROVE  n + 1 \in Nat /\ C \subseteq 1 .. n + 1 /\ C \union {n + 1} \subseteq 1 .. n + 1
OBVIOUS

LEMMA NextIInv == IInv /\ [Next]_vars => IInv'
<1> SUFFICES ASSUME IInv, [Next]_vars PROVE IInv'
    OBVIOUS
<1> USE ApplicationAssumption
<1> USE DEF IInv, TypeOK, Locking, Truthful, Phases, BuildSteps, RunSteps, CleanupSteps, Waiting,
            Go, Return, Completes, Raises, callVars, stateVars, worldVars
<1>1. ASSUME NEW t \in Threads, CallBuild(t) PROVE IInv'
    <2>1. TypeOK'
        BY <1>1 DEF CallBuild
    <2>2. Locking'
        BY <1>1 DEF CallBuild
    <2>3. Truthful'
        <3>1. /\ \A u \in Threads : pc[u] = "idle"
              /\ UNCHANGED <<result, imageRemoved, filesRemoved, tag, directory>>
            BY <1>1 DEF CallBuild
        <3>2. ~imageRemoved
            BY <1>1, <3>1 DEF CallBuild
        <3>3. \A u \in Threads : pc'[u] # "files"
            BY <1>1, <3>1 DEF CallBuild
        <3>4. QED
            BY <3>1, <3>2, <3>3
    <2>4. Phases'
        BY <1>1 DEF CallBuild
    <2>5. QED
        BY <2>1, <2>2, <2>3, <2>4
<1>2. ASSUME NEW t \in Threads, CallRun(t) PROVE IInv'
    BY <1>2 DEF CallRun
<1>3. ASSUME NEW t \in Threads, CallClose(t) PROVE IInv'
    BY <1>3 DEF CallClose
<1>4. ASSUME NEW t \in Threads, ContextFails(t) PROVE IInv'
    BY <1>4 DEF ContextFails
<1>5. ASSUME NEW t \in Threads, ContextMade(t) PROVE IInv'
    BY <1>5 DEF ContextMade
<1>6. ASSUME NEW t \in Threads, ImageBuilt(t) PROVE IInv'
    BY <1>6 DEF ImageBuilt
<1>7. ASSUME NEW t \in Threads, ImageBuildFails(t) PROVE IInv'
    BY <1>7 DEF ImageBuildFails
<1>8. ASSUME NEW t \in Threads, Register(t) PROVE IInv'
    <2>1. TypeOK'
        BY <1>8 DEF Register
    <2>2. Locking'
        <3>1. handle = "none" /\ handle' = "built" /\ lock' = NoThread
            BY <1>8 DEF Register
        <3>2. \A u \in Threads : pc'[u] = "idle"
            BY <1>8, <3>1 DEF Register
        <3>3. QED
            BY <3>1, <3>2
    <2>3. Truthful'
        BY <1>8 DEF Register
    <2>4. Phases'
        BY <1>8 DEF Register
    <2>5. QED
        BY <2>1, <2>2, <2>3, <2>4
<1>9. ASSUME NEW t \in Threads, InspectFails(t) PROVE IInv'
    BY <1>9 DEF InspectFails
<1>10. ASSUME NEW t \in Threads, RejectClosed(t) PROVE IInv'
    BY <1>10 DEF RejectClosed
<1>11. ASSUME NEW t \in Threads, EnterRun(t) PROVE IInv'
    BY <1>11 DEF EnterRun
<1>12. ASSUME NEW t \in Threads, RejectRun(t) PROVE IInv'
    BY <1>12 DEF RejectRun, LeaveRun
<1>13. ASSUME NEW t \in Threads, Verified(t) PROVE IInv'
    BY <1>13 DEF Verified
<1>14. ASSUME NEW t \in Threads, StartContainer(t) PROVE IInv'
    <2>1. TypeOK'
        <3>1. started' \in Nat /\ containers' \subseteq 1 .. started'
            BY <1>14, NextContainer DEF StartContainer
        <3>2. QED
            BY <1>14, <3>1 DEF StartContainer
    <2>2. Locking'
        BY <1>14 DEF StartContainer
    <2>3. Truthful'
        BY <1>14 DEF StartContainer
    <2>4. Phases'
        BY <1>14 DEF StartContainer
    <2>5. QED
        BY <2>1, <2>2, <2>3, <2>4
<1>15. ASSUME NEW t \in Threads, StartFails(t) PROVE IInv'
    <2>1. TypeOK'
        <3>1. started' \in Nat /\ containers' \subseteq 1 .. started'
            BY <1>15, NextContainer DEF StartFails
        <3>2. QED
            BY <1>15, <3>1 DEF StartFails
    <2>2. Locking'
        BY <1>15 DEF StartFails
    <2>3. Truthful'
        BY <1>15 DEF StartFails
    <2>4. Phases'
        BY <1>15 DEF StartFails
    <2>5. QED
        BY <2>1, <2>2, <2>3, <2>4
<1>16. ASSUME NEW t \in Threads, Outputs(t) PROVE IInv'
    BY <1>16 DEF Outputs, LeaveRun
<1>17. ASSUME NEW t \in Threads, RunFails(t) PROVE IInv'
    BY <1>17 DEF RunFails
<1>18. ASSUME NEW t \in Threads, RemoveContainer(t) PROVE IInv'
    BY <1>18 DEF RemoveContainer, LeaveRun
<1>19. ASSUME NEW t \in Threads, AlreadyClosed(t) PROVE IInv'
    BY <1>19 DEF AlreadyClosed
<1>20. ASSUME NEW t \in Threads, EnterClose(t) PROVE IInv'
    BY <1>20 DEF EnterClose
<1>21. ASSUME NEW t \in Threads, RemoveImage(t) PROVE IInv'
    <2>1. TypeOK'
        BY <1>21 DEF RemoveImage
    <2>2. Locking'
        <3>1. pc[t] \in CleanupSteps /\ pc' = [pc EXCEPT ![t] = "files"] /\ UNCHANGED <<handle, lock>>
            BY <1>21 DEF RemoveImage
        <3>2. QED
            BY <3>1, CleanupMoves
    <2>3. Truthful'
        BY <1>21 DEF RemoveImage
    <2>4. Phases'
        BY <1>21 DEF RemoveImage
    <2>5. QED
        BY <2>1, <2>2, <2>3, <2>4
<1>22. ASSUME NEW t \in Threads, RemoveImageRefused(t) PROVE IInv'
    <2>1. TypeOK'
        BY <1>22 DEF RemoveImageRefused
    <2>2. Locking'
        <3>1. pc[t] \in CleanupSteps /\ pc' = [pc EXCEPT ![t] = "list"] /\ UNCHANGED <<handle, lock>>
            BY <1>22 DEF RemoveImageRefused
        <3>2. QED
            BY <3>1, CleanupMoves
    <2>3. Truthful'
        BY <1>22 DEF RemoveImageRefused
    <2>4. Phases'
        BY <1>22 DEF RemoveImageRefused
    <2>5. QED
        BY <2>1, <2>2, <2>3, <2>4
<1>23. ASSUME NEW t \in Threads, RemoveImageRaises(t) PROVE IInv'
    <2>1. LeaveCleanup(t, "image", FALSE) /\ pc[t] = "image"
        BY <1>23 DEF RemoveImageRaises, LeaveCleanup
    <2>2. /\ UNCHANGED <<closed, imageRemoved>> /\ (imageRemoved => ~tag')
          /\ filesRemoved' => imageRemoved /\ ~directory'
          /\ filesRemoved => filesRemoved'
          /\ FALSE => filesRemoved'
        BY <1>23, <2>1 DEF RemoveImageRaises
    <2>3. /\ filesRemoved' \in BOOLEAN /\ started' = started /\ containers' = containers
          /\ tag' \in BOOLEAN /\ directory' \in BOOLEAN /\ residue' \in BOOLEAN
        BY <1>23 DEF RemoveImageRaises
    <2>4. QED
        BY <2>1, <2>2, <2>3, CleanupLeaves
<1>24. ASSUME NEW t \in Threads, ImageNotListed(t) PROVE IInv'
    <2>1. TypeOK'
        BY <1>24 DEF ImageNotListed
    <2>2. Locking'
        <3>1. pc[t] \in CleanupSteps /\ pc' = [pc EXCEPT ![t] = "files"] /\ UNCHANGED <<handle, lock>>
            BY <1>24 DEF ImageNotListed
        <3>2. QED
            BY <3>1, CleanupMoves
    <2>3. Truthful'
        BY <1>24 DEF ImageNotListed
    <2>4. Phases'
        BY <1>24 DEF ImageNotListed
    <2>5. QED
        BY <2>1, <2>2, <2>3, <2>4
<1>25. ASSUME NEW t \in Threads, ImageListFails(t) PROVE IInv'
    <2>1. LeaveCleanup(t, "list", FALSE) /\ pc[t] = "list"
        BY <1>25 DEF ImageListFails, LeaveCleanup
    <2>2. /\ UNCHANGED <<closed, imageRemoved>> /\ (imageRemoved => ~tag')
          /\ filesRemoved' => imageRemoved /\ ~directory'
          /\ filesRemoved => filesRemoved'
          /\ FALSE => filesRemoved'
        BY <1>25, <2>1 DEF ImageListFails
    <2>3. /\ filesRemoved' \in BOOLEAN /\ started' = started /\ containers' = containers
          /\ tag' \in BOOLEAN /\ directory' \in BOOLEAN /\ residue' \in BOOLEAN
        BY <1>25 DEF ImageListFails
    <2>4. QED
        BY <2>1, <2>2, <2>3, CleanupLeaves
<1>26. ASSUME NEW t \in Threads, RemoveDirectory(t) PROVE IInv'
    <2>1. LeaveCleanup(t, "files", TRUE) /\ pc[t] = "files"
        BY <1>26 DEF RemoveDirectory, LeaveCleanup
    <2>2. /\ UNCHANGED <<closed, imageRemoved>> /\ (imageRemoved => ~tag')
          /\ filesRemoved' => imageRemoved /\ ~directory'
          /\ filesRemoved => filesRemoved'
          /\ TRUE => filesRemoved'
        BY <1>26, <2>1 DEF RemoveDirectory
    <2>3. /\ filesRemoved' \in BOOLEAN /\ started' = started /\ containers' = containers
          /\ tag' \in BOOLEAN /\ directory' \in BOOLEAN /\ residue' \in BOOLEAN
        BY <1>26 DEF RemoveDirectory
    <2>4. QED
        BY <2>1, <2>2, <2>3, CleanupLeaves
<1>27. ASSUME NEW t \in Threads, RemoveDirectoryFails(t) PROVE IInv'
    <2>1. LeaveCleanup(t, "files", FALSE) /\ pc[t] = "files"
        BY <1>27 DEF RemoveDirectoryFails, LeaveCleanup
    <2>2. /\ UNCHANGED <<closed, imageRemoved>> /\ (imageRemoved => ~tag')
          /\ filesRemoved' => imageRemoved /\ ~directory'
          /\ filesRemoved => filesRemoved'
          /\ FALSE => filesRemoved'
        BY <1>27, <2>1 DEF RemoveDirectoryFails
    <2>3. /\ filesRemoved' \in BOOLEAN /\ started' = started /\ containers' = containers
          /\ tag' \in BOOLEAN /\ directory' \in BOOLEAN /\ residue' \in BOOLEAN
        BY <1>27 DEF RemoveDirectoryFails
    <2>4. QED
        BY <2>1, <2>2, <2>3, CleanupLeaves
<1>28. CASE ContainerExits
    BY <1>28 DEF ContainerExits
<1>29. CASE DirectoryVanishes
    BY <1>29 DEF DirectoryVanishes
<1>30. CASE UNCHANGED vars
    BY <1>30 DEF vars
<1>31. QED
    BY <1>1, <1>2, <1>3, <1>4, <1>5, <1>6, <1>7, <1>8, <1>9, <1>10, <1>11, <1>12, <1>13, <1>14, <1>15, <1>16, <1>17, <1>18, <1>19, <1>20, <1>21, <1>22, <1>23, <1>24, <1>25, <1>26, <1>27, <1>28, <1>29, <1>30
       DEF Next, World, Call, Steps, Build, Run, Close

-----------------------------------------------------------------------------
\* Type correctness; every container the daemon has was asked for.
THEOREM TypeCorrect == Spec => []TypeOK
<1>1. IInv => TypeOK
    BY DEF IInv
<1>2. QED
    BY InitIInv, NextIInv, <1>1, PTL DEF Spec

\* However many threads share the handle, one at a time builds, runs or cleans up.
THEOREM MutualExclusion == Spec => []OneAtATime
<1>1. IInv => OneAtATime
    <2> SUFFICES ASSUME IInv, NEW t \in Threads, NEW u \in Threads, Inside(t), Inside(u)
                 PROVE  t = u
        BY DEF OneAtATime
    <2>1. CASE handle = "built"
        BY <2>1 DEF IInv, Locking, Inside
    <2>2. CASE handle = "none"
        BY <2>2 DEF IInv, Locking, Inside, BuildSteps, RunSteps, CleanupSteps
    <2>3. CASE handle = "failed"
        BY <2>3 DEF IInv, Locking, Inside, BuildSteps, RunSteps, CleanupSteps
    <2>4. QED
        BY <2>1, <2>2, <2>3 DEF IInv, TypeOK
<1>2. QED
    BY InitIInv, NextIInv, <1>1, PTL DEF Spec

\* A close that succeeded left neither tag nor directory, after any number of failed ones.
THEOREM ClosedIsClean == Spec => []CloseIsClean
<1>1. IInv => CloseIsClean
    BY DEF IInv, Truthful, CloseIsClean
<1>2. QED
    BY InitIInv, NextIInv, <1>1, PTL DEF Spec

\* The directory is given up only after the tag: the flags are set in the order of _cleanup.
THEOREM DirectoryGoesLast == Spec => DirectoryOutlivesTag
<1>1. IInv /\ [Next]_vars => [~filesRemoved /\ filesRemoved' => ~tag]_vars
    <2> SUFFICES ASSUME IInv, Next, ~filesRemoved, filesRemoved' PROVE ~tag
        OBVIOUS
    <2>1. PICK t \in Threads : RemoveDirectory(t)
        BY DEF Next, World, Call, Steps, Build, Run, Close, CallBuild, CallRun, CallClose,
               ContextFails, ContextMade, ImageBuilt, ImageBuildFails, Register, InspectFails,
               RejectClosed, EnterRun, RejectRun, Verified, StartContainer, StartFails, Outputs,
               RunFails, RemoveContainer, LeaveRun, AlreadyClosed, EnterClose, RemoveImage,
               RemoveImageRefused, RemoveImageRaises, ImageNotListed, ImageListFails,
               RemoveDirectoryFails, ContainerExits, DirectoryVanishes, stateVars
    <2>2. pc[t] = "files"
        BY <2>1 DEF RemoveDirectory, LeaveCleanup, Return, Go
    <2>3. QED
        BY <2>2 DEF IInv, Truthful
<1>2. QED
    BY InitIInv, NextIInv, <1>1, PTL DEF Spec, DirectoryOutlivesTag

\* After a close has begun no container is started, by any thread.
THEOREM NoRunAfterClose == Spec => NoStartAfterClose
<1>1. IInv /\ [Next]_vars => [closed => started' = started /\ containers' \subseteq containers]_vars
    <2> SUFFICES ASSUME IInv, Next, closed
                 PROVE  started' = started /\ containers' \subseteq containers
        OBVIOUS
    <2>1. \A t \in Threads : pc[t] \notin RunSteps
        BY DEF IInv, Phases
    <2>2. CASE World
        BY <2>2 DEF World, ContainerExits, DirectoryVanishes
    <2>3. CASE \E t \in Threads : Call(t) \/ Build(t) \/ Close(t)
        BY <2>3 DEF Call, Build, Close, CallBuild, CallRun, CallClose, ContextFails, ContextMade,
                    ImageBuilt, ImageBuildFails, Register, InspectFails, AlreadyClosed, EnterClose,
                    RemoveImage, RemoveImageRefused, RemoveImageRaises, ImageNotListed,
                    ImageListFails, RemoveDirectory, RemoveDirectoryFails, worldVars
    <2>4. CASE \E t \in Threads : Run(t)
        BY <2>1, <2>4 DEF Run, RunSteps, Go, Return, LeaveRun, RejectClosed, EnterRun, RejectRun,
                          Verified, StartContainer, StartFails, Outputs, RunFails,
                          RemoveContainer, worldVars
    <2>5. QED
        BY <2>2, <2>3, <2>4 DEF Next, Steps
<1>2. QED
    BY InitIInv, NextIInv, <1>1, PTL DEF Spec, NoStartAfterClose

-----------------------------------------------------------------------------
(* Bounded work.  That a call returns also needs fairness, which TLC looks at; what can be *)
(* proved is that no failure and no retry makes a call go round in a loop.                *)

\* No more steps than these are left of a call that is at p.
StepsFrom(p) ==
    CASE p = "context" -> 6
      [] p \in {"build", "lock to run"} -> 5
      [] p \in {"inspect", "verify", "lock to close"} -> 4
      [] p \in {"image", "exec"} -> 3
      [] p \in {"list", "await"} -> 2
      [] p \in {"files", "kill"} -> 1
      [] OTHER -> 0

StepsLeft(t) == StepsFrom(pc[t])

LEMMA StepsFromValues ==
    /\ StepsFrom("context") = 6
    /\ StepsFrom("build") = 5 /\ StepsFrom("lock to run") = 5
    /\ StepsFrom("inspect") = 4 /\ StepsFrom("verify") = 4 /\ StepsFrom("lock to close") = 4
    /\ StepsFrom("image") = 3 /\ StepsFrom("exec") = 3
    /\ StepsFrom("list") = 2 /\ StepsFrom("await") = 2
    /\ StepsFrom("files") = 1 /\ StepsFrom("kill") = 1
    /\ StepsFrom("idle") = 0
BY DEF StepsFrom

LEMMA StepLowers ==
    ASSUME TypeOK, NEW t \in Threads, Steps(t)
    PROVE  StepsFrom(pc'[t]) < StepsFrom(pc[t])
<1>1. DOMAIN pc = Threads
    BY DEF TypeOK
<1>2. \/ pc[t] = "context" /\ pc'[t] \in {"build", "image", "idle"}
      \/ pc[t] = "build" /\ pc'[t] \in {"inspect", "image"}
      \/ pc[t] = "inspect" /\ pc'[t] \in {"image", "idle"}
      \/ pc[t] = "lock to run" /\ pc'[t] \in {"verify", "idle"}
      \/ pc[t] = "verify" /\ pc'[t] \in {"exec", "idle"}
      \/ pc[t] = "exec" /\ pc'[t] \in {"await", "kill"}
      \/ pc[t] = "await" /\ pc'[t] \in {"kill", "idle"}
      \/ pc[t] = "kill" /\ pc'[t] = "idle"
      \/ pc[t] = "lock to close" /\ pc'[t] \in {"image", "files", "idle"}
      \/ pc[t] = "image" /\ pc'[t] \in {"list", "files", "idle"}
      \/ pc[t] = "list" /\ pc'[t] \in {"files", "idle"}
      \/ pc[t] = "files" /\ pc'[t] = "idle"
    <2>1. CASE Build(t)
        BY <1>1, <2>1 DEF Build, ContextFails, ContextMade, ImageBuilt, ImageBuildFails, Register,
                          InspectFails, Go, Return
    <2>2. CASE Run(t)
        BY <1>1, <2>2 DEF Run, RejectClosed, EnterRun, RejectRun, Verified, StartContainer,
                          StartFails, Outputs, RunFails, RemoveContainer, LeaveRun, Go, Return
    <2>3. CASE Close(t)
        BY <1>1, <2>3 DEF Close, AlreadyClosed, EnterClose, RemoveImage, RemoveImageRefused,
                          RemoveImageRaises, ImageNotListed, ImageListFails, RemoveDirectory,
                          RemoveDirectoryFails, LeaveCleanup, Go, Return
    <2>4. QED
        BY <2>1, <2>2, <2>3 DEF Steps
<1>3. \/ StepsFrom(pc[t]) = 6 /\ StepsFrom(pc'[t]) \in {5, 3, 0}
      \/ StepsFrom(pc[t]) = 5 /\ StepsFrom(pc'[t]) \in {4, 3, 0}
      \/ StepsFrom(pc[t]) = 4 /\ StepsFrom(pc'[t]) \in {3, 1, 0}
      \/ StepsFrom(pc[t]) = 3 /\ StepsFrom(pc'[t]) \in {2, 1, 0}
      \/ StepsFrom(pc[t]) = 2 /\ StepsFrom(pc'[t]) \in {1, 0}
      \/ StepsFrom(pc[t]) = 1 /\ StepsFrom(pc'[t]) = 0
    BY <1>2, StepsFromValues, Zenon
<1>4. QED
    BY <1>3

\* What a thread does leaves the place of every other thread alone.
LEMMA OthersStay ==
    ASSUME TypeOK, NEW t \in Threads, Call(t) \/ Steps(t), NEW u \in Threads \ {t}
    PROVE  pc'[u] = pc[u]
<1>1. \E from, to : pc' = [pc EXCEPT ![t] = to]
    BY DEF Call, Steps, CallBuild, CallRun, CallClose, Build, ContextFails, ContextMade, ImageBuilt,
           ImageBuildFails, Register, InspectFails, Run, RejectClosed, EnterRun, RejectRun, Verified,
           StartContainer, StartFails, Outputs, RunFails, RemoveContainer, LeaveRun, Close,
           AlreadyClosed, EnterClose, RemoveImage, RemoveImageRefused, RemoveImageRaises,
           ImageNotListed, ImageListFails, RemoveDirectory, RemoveDirectoryFails, LeaveCleanup, Go,
           Return
<1>2. QED
    BY <1>1 DEF TypeOK

\* The provable part of LockReleased: a call of build, run or close takes at most six steps
\* of its own, whatever fails in it; nothing that another thread or the world does adds to
\* them; and whoever holds the lock has one to four of them left.
THEOREM CallsAreBounded ==
    Spec => /\ []\A t \in Threads :
                    /\ StepsLeft(t) \in 0 .. 6
                    /\ lock = t => StepsLeft(t) \in 1 .. 4
            /\ [][\A t \in Threads :
                    /\ Steps(t) => StepsLeft(t)' < StepsLeft(t)
                    /\ StepsLeft(t)' > StepsLeft(t) => Call(t)]_vars
<1> DEFINE Bounded == \A t \in Threads :
               /\ StepsLeft(t) \in 0 .. 6
               /\ lock = t => StepsLeft(t) \in 1 .. 4
           Lowered == \A t \in Threads :
               /\ Steps(t) => StepsLeft(t)' < StepsLeft(t)
               /\ StepsLeft(t)' > StepsLeft(t) => Call(t)
<1>1. IInv => Bounded
    <2> SUFFICES ASSUME IInv, NEW t \in Threads
                 PROVE  /\ StepsLeft(t) \in 0 .. 6
                        /\ lock = t => StepsLeft(t) \in 1 .. 4
        OBVIOUS
    <2>1. pc[t] \in {"idle"} \union BuildSteps \union Waiting \union RunSteps \union CleanupSteps
        BY DEF IInv, TypeOK
    <2>2. lock = t => pc[t] \in RunSteps \union CleanupSteps
        BY ApplicationAssumption DEF IInv, TypeOK, Locking
    <2>3. /\ StepsLeft(t) \in {0, 1, 2, 3, 4, 5, 6}
          /\ lock = t => StepsLeft(t) \in {1, 2, 3, 4}
        BY <2>1, <2>2, StepsFromValues, Zenon
           DEF StepsLeft, BuildSteps, Waiting, RunSteps, CleanupSteps
    <2>4. QED
        BY <2>3
<1>2. IInv /\ [Next]_vars => [Lowered]_vars
    <2> SUFFICES ASSUME IInv, Next, NEW t \in Threads
                 PROVE  /\ Steps(t) => StepsLeft(t)' < StepsLeft(t)
                        /\ StepsLeft(t)' > StepsLeft(t) => Call(t)
        OBVIOUS
    <2>1. Steps(t) => StepsLeft(t)' < StepsLeft(t)
        BY StepLowers DEF IInv, StepsLeft
    <2>2. StepsLeft(t) \in Int
        BY <1>1
    <2>3. CASE pc'[t] = pc[t]
        <3>1. StepsLeft(t)' = StepsLeft(t)
            BY <2>3 DEF StepsLeft
        <3>2. QED
            BY <2>1, <2>2, <3>1
    <2>4. CASE Call(t) \/ Steps(t)
        <3>1. IInv'
            BY NextIInv
        <3>2. Bounded'
            BY <1>1, <3>1, PTL
        <3>3. Steps(t) => ~(StepsLeft(t)' > StepsLeft(t))
            BY <2>1, <2>2, <3>2
        <3>4. QED
            BY <2>1, <2>4, <3>3, Zenon
    <2>5. CASE World
        BY <2>3, <2>5 DEF World, ContainerExits, DirectoryVanishes, callVars
    <2>6. QED
        BY <2>3, <2>4, <2>5, OthersStay DEF Next, IInv
<1>3. QED
    BY InitIInv, NextIInv, <1>1, <1>2, PTL DEF Spec

\* The provable part of CleanupConverges: cleanups gain ground and never lose it.  Once a
\* close has begun the handle stays closed, and what one cleanup has removed no later step of
\* any thread brings back, so that a retry has only the rest to do.
THEOREM CleanupKeepsGround ==
    Spec => /\ [][closed => closed']_vars
            /\ [][imageRemoved => imageRemoved' /\ ~tag']_vars
            /\ [][filesRemoved => filesRemoved' /\ ~directory' /\ ~residue']_vars
<1> DEFINE Gone == filesRemoved => ~residue
           Kept == /\ closed => closed'
                   /\ imageRemoved => imageRemoved' /\ ~tag'
                   /\ filesRemoved => filesRemoved' /\ ~directory'
<1>1. IInv /\ [Next]_vars => [Kept]_vars
    <2> SUFFICES ASSUME IInv, Next PROVE Kept
        OBVIOUS
    <2>1. /\ closed => closed'
          /\ imageRemoved => imageRemoved'
          /\ filesRemoved => filesRemoved'
        <3>1. CASE World
            BY <3>1 DEF World, ContainerExits, DirectoryVanishes, stateVars
        <3>2. ASSUME NEW t \in Threads, Call(t) \/ Build(t)
              PROVE  UNCHANGED <<closed, imageRemoved, filesRemoved>>
            BY <3>2 DEF Call, CallBuild, CallRun, CallClose, Build, ContextFails, ContextMade,
                        ImageBuilt, ImageBuildFails, Register, InspectFails, stateVars
        <3>3. ASSUME NEW t \in Threads, Run(t)
              PROVE  UNCHANGED <<closed, imageRemoved, filesRemoved>>
            BY <3>3 DEF Run, RejectClosed, EnterRun, RejectRun, Verified, StartContainer, StartFails,
                        Outputs, RunFails, RemoveContainer, LeaveRun, stateVars
        <3>4. ASSUME NEW t \in Threads, Close(t)
              PROVE  /\ closed' = closed \/ closed' = TRUE
                     /\ imageRemoved' = imageRemoved \/ imageRemoved' = TRUE
                     /\ filesRemoved' = filesRemoved \/ filesRemoved' = TRUE
            BY <3>4 DEF Close, AlreadyClosed, EnterClose, RemoveImage, RemoveImageRefused,
                        RemoveImageRaises, ImageNotListed, ImageListFails, RemoveDirectory,
                        RemoveDirectoryFails, stateVars
        <3>5. QED
            BY <3>1, <3>2, <3>3, <3>4 DEF Next, Steps
    <2>2. IInv'
        BY NextIInv
    <2>3. QED
        BY <2>1, <2>2 DEF IInv, Truthful
<1>2. Init => Gone
    BY DEF Init
<1>3. IInv /\ Gone /\ [Next]_vars => Gone'
    <2> SUFFICES ASSUME IInv, Gone, [Next]_vars PROVE Gone'
        OBVIOUS
    <2>1. CASE residue' = residue /\ filesRemoved' = filesRemoved
        BY <2>1
    <2>2. CASE Raises /\ filesRemoved' = filesRemoved
        BY <2>2 DEF Raises, IInv, Truthful
    <2>3. CASE ~residue'
        BY <2>3
    <2>4. CASE World \/ UNCHANGED vars
        BY <2>1, <2>4 DEF World, ContainerExits, DirectoryVanishes, vars, stateVars, worldVars
    <2>5. CASE \E t \in Threads : Call(t) \/ Build(t)
        BY <2>1, <2>2, <2>5
           DEF Call, CallBuild, CallRun, CallClose, Build, ContextFails, ContextMade, ImageBuilt,
               ImageBuildFails, Register, InspectFails, Completes, stateVars, worldVars
    <2>6. CASE \E t \in Threads : Run(t)
        BY <2>1, <2>2, <2>6
           DEF Run, RejectClosed, EnterRun, RejectRun, Verified, StartContainer, StartFails, Outputs,
               RunFails, RemoveContainer, LeaveRun, Completes, stateVars, worldVars
    <2>7. CASE \E t \in Threads : Close(t)
        BY <2>1, <2>2, <2>3, <2>7
           DEF Close, AlreadyClosed, EnterClose, RemoveImage, RemoveImageRefused,
               RemoveImageRaises, ImageNotListed, ImageListFails, RemoveDirectory,
               RemoveDirectoryFails, Completes, stateVars, worldVars
    <2>8. QED
        BY <2>4, <2>5, <2>6, <2>7 DEF Next, Steps
<1>4. QED
    BY <1>1, <1>2, <1>3, InitIInv, NextIInv, PTL DEF Spec

=============================================================================
