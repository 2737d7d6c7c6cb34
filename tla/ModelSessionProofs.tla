-------------------------- MODULE ModelSessionProofs --------------------------
(***************************************************************************)
(* A session keeps its limits, its hold on what it has to clean up and the *)
(* promises of AbstractSession, for any threads, limits and models.  What  *)
(* its application guarantees is taken from ContainerApplicationProofs.    *)
(***************************************************************************)
EXTENDS ModelSession, SequenceTheorems, TLAPS

Safe == INSTANCE ContainerApplicationProofs
            WITH pc <- appPc, result <- appResult, lock <- appLock, closed <- appClosed

SessionTypes ==
    /\ size \in Nat \X Nat
    /\ at \in [Threads -> Places]
    /\ outcome \in [Threads -> {"none", "session_busy", "closed", "session_limit", "rejected",
                                "result", "failed", "cleanup_failed", "released"}]
    /\ session \in Threads \union {NoThread}
    /\ shut \in BOOLEAN /\ built \in BOOLEAN
    /\ requests \in Nat /\ inputsUsed \in Nat /\ outputsUsed \in Nat
    /\ published \in Seq(Nat)

\* Only the thread that holds the session lock is in a session call, and only it can be in
\* a call of the application.
Exclusive ==
    \A t \in Threads : /\ at[t] # "outside" <=> session = t
                       /\ at[t] \in {"outside", "admit"} => appPc[t] = "idle"

\* Where a thread can be in the application, and what that says of session and handle.
BuildPlace(t) ==
    /\ ~shut /\ ~built
    /\ \/ handle = "none" /\ appPc[t] \in {"context", "build", "inspect", "image", "list", "files"}
       \/ handle = "built" /\ appPc[t] = "idle" /\ appResult[t] = "built"
       \/ handle = "failed" /\ appPc[t] = "idle" /\ appResult[t] = "build failed"

RunPlace(t) ==
    /\ ~shut /\ built
    /\ appPc[t] \in {"idle", "lock to run", "verify", "exec", "await", "kill"}

ClosePlace(t) ==
    /\ shut /\ built
    /\ appPc[t] \in {"idle", "lock to close", "image", "list", "files"}

InPlace ==
    /\ \A t \in Threads : /\ at[t] = "building" => BuildPlace(t)
                          /\ at[t] = "running" => RunPlace(t)
                          /\ at[t] \in {"failing", "closing"} => ClosePlace(t)
    /\ built => handle = "built"

\* While no thread is in a call of the application, a session without a handle owns nothing,
\* unless its build failed.
NothingOwned ==
    ~built /\ (\A t \in Threads : at[t] # "building") =>
        IF shut THEN handle = "failed" \/ (~tag /\ ~directory)
                ELSE handle = "none" /\ ~tag /\ ~directory

\* A request is within its limits from its admission to its publication, and starts one
\* container at most.
Counted ==
    /\ requests <= MaxRequests /\ started <= MaxRequests
    /\ (~shut /\ \A t \in Threads : at[t] # "running") => started <= requests
    /\ \A t \in Threads :
          /\ at[t] \in {"building", "running"} => requests < MaxRequests /\ ~OverBudget
          /\ at[t] = "running" =>
                 IF appPc[t] \in {"lock to run", "verify", "exec"} THEN started <= requests
                                                                    ELSE started <= requests + 1
    /\ Len(published) = requests /\ \A i \in DOMAIN published : published[i] = i
    /\ inputsUsed <= MaxElements /\ inputsUsed = requests * size[1]
    /\ outputsUsed <= MaxElements /\ outputsUsed = requests * size[2]

SessionInv == SessionTypes /\ Exclusive /\ InPlace /\ NothingOwned /\ Counted

-----------------------------------------------------------------------------
(* The application of a session *)

\* The session's application is the one ContainerApplicationProofs is about.
LEMMA SameApplication ==
    /\ App!Init <=> Safe!Init
    /\ \A t : App!Steps(t) <=> Safe!Steps(t)
    /\ [App!Next]_appVars => [Safe!Next]_(Safe!vars)
<1>1. App!Init <=> Safe!Init
    BY DEF App!Init, Safe!Init
<1>2. ASSUME NEW t PROVE App!CallBuild(t) <=> Safe!CallBuild(t)
    BY DEF App!CallBuild, Safe!CallBuild, App!Go, Safe!Go, App!Return, Safe!Return, App!Completes,
           Safe!Completes, App!Raises, Safe!Raises, App!callVars, Safe!callVars, App!stateVars,
           Safe!stateVars, App!worldVars, Safe!worldVars, App!BuildSteps, Safe!BuildSteps,
           App!RunSteps, Safe!RunSteps
<1>3. ASSUME NEW t PROVE App!CallRun(t) <=> Safe!CallRun(t)
    BY DEF App!CallRun, Safe!CallRun, App!Cardinality, Safe!Cardinality, App!Go, Safe!Go, App!Return,
           Safe!Return, App!Completes, Safe!Completes, App!Raises, Safe!Raises, App!callVars,
           Safe!callVars, App!stateVars, Safe!stateVars, App!worldVars, Safe!worldVars,
           App!BuildSteps, Safe!BuildSteps, App!RunSteps, Safe!RunSteps
<1>4. ASSUME NEW t PROVE App!CallClose(t) <=> Safe!CallClose(t)
    BY DEF App!CallClose, Safe!CallClose, App!Go, Safe!Go, App!Return, Safe!Return, App!Completes,
           Safe!Completes, App!Raises, Safe!Raises, App!callVars, Safe!callVars, App!stateVars,
           Safe!stateVars, App!worldVars, Safe!worldVars, App!BuildSteps, Safe!BuildSteps,
           App!RunSteps, Safe!RunSteps
<1>5. ASSUME NEW t PROVE App!Build(t) <=> Safe!Build(t)
    BY DEF App!Build, Safe!Build, App!ContextFails, Safe!ContextFails, App!ContextMade,
           Safe!ContextMade, App!ImageBuilt, Safe!ImageBuilt, App!ImageBuildFails,
           Safe!ImageBuildFails, App!Register, Safe!Register, App!InspectFails, Safe!InspectFails,
           App!Go, Safe!Go, App!Return, Safe!Return, App!Completes, Safe!Completes, App!Raises,
           Safe!Raises, App!callVars, Safe!callVars, App!stateVars, Safe!stateVars, App!worldVars,
           Safe!worldVars, App!BuildSteps, Safe!BuildSteps, App!RunSteps, Safe!RunSteps
<1>6. ASSUME NEW t PROVE App!Run(t) <=> Safe!Run(t)
    BY DEF App!Run, Safe!Run, App!RejectClosed, Safe!RejectClosed, App!EnterRun, Safe!EnterRun,
           App!RejectRun, Safe!RejectRun, App!Verified, Safe!Verified, App!StartContainer,
           Safe!StartContainer, App!StartFails, Safe!StartFails, App!Outputs, Safe!Outputs,
           App!RunFails, Safe!RunFails, App!RemoveContainer, Safe!RemoveContainer, App!LeaveRun,
           Safe!LeaveRun, App!Go, Safe!Go, App!Return, Safe!Return, App!Completes, Safe!Completes,
           App!Raises, Safe!Raises, App!callVars, Safe!callVars, App!stateVars, Safe!stateVars,
           App!worldVars, Safe!worldVars, App!BuildSteps, Safe!BuildSteps, App!RunSteps, Safe!RunSteps
<1>7. ASSUME NEW t PROVE App!Close(t) <=> Safe!Close(t)
    BY DEF App!Close, Safe!Close, App!AlreadyClosed, Safe!AlreadyClosed, App!EnterClose,
           Safe!EnterClose, App!RemoveImage, Safe!RemoveImage, App!RemoveImageRefused,
           Safe!RemoveImageRefused, App!RemoveImageRaises, Safe!RemoveImageRaises,
           App!ImageNotListed, Safe!ImageNotListed, App!ImageListFails, Safe!ImageListFails,
           App!RemoveDirectory, Safe!RemoveDirectory, App!RemoveDirectoryFails,
           Safe!RemoveDirectoryFails, App!LeaveCleanup, Safe!LeaveCleanup, App!Go, Safe!Go,
           App!Return, Safe!Return, App!Completes, Safe!Completes, App!Raises, Safe!Raises,
           App!callVars, Safe!callVars, App!stateVars, Safe!stateVars, App!worldVars, Safe!worldVars,
           App!BuildSteps, Safe!BuildSteps, App!RunSteps, Safe!RunSteps
<1>8. App!World <=> Safe!World
    BY DEF App!World, Safe!World, App!ContainerExits, Safe!ContainerExits, App!DirectoryVanishes,
           Safe!DirectoryVanishes, App!Go, Safe!Go, App!Return, Safe!Return, App!Completes,
           Safe!Completes, App!Raises, Safe!Raises, App!callVars, Safe!callVars, App!stateVars,
           Safe!stateVars, App!worldVars, Safe!worldVars, App!BuildSteps, Safe!BuildSteps,
           App!RunSteps, Safe!RunSteps
<1>9. UNCHANGED appVars => UNCHANGED Safe!vars
    BY DEF appVars, Safe!vars, Safe!callVars, Safe!stateVars, Safe!worldVars
<1>10. QED
    BY <1>1, <1>2, <1>3, <1>4, <1>5, <1>6, <1>7, <1>8, <1>9
       DEF App!Next, Safe!Next, App!Call, Safe!Call, App!Steps, Safe!Steps

\* So it keeps the invariant of the application.
LEMMA ApplicationSafe ==
    /\ App!Init => Safe!IInv
    /\ Safe!IInv /\ [App!Next]_appVars => Safe!IInv'
<1>1. Safe!ApplicationAssumption
    BY SessionAssumption DEF Safe!ApplicationAssumption
<1>2. Safe!Init => Safe!IInv
    BY <1>1, Safe!InitIInv DEF Safe!InitIInv
<1>3. Safe!IInv /\ [Safe!Next]_(Safe!vars) => Safe!IInv'
    BY <1>1, Safe!NextIInv DEF Safe!NextIInv
<1>4. QED
    BY <1>2, <1>3, SameApplication

\* A thread inside a call of the application is the only one to move.
LEMMA OneMoves ==
    ASSUME Safe!IInv, NEW t \in Threads, App!Steps(t)
    PROVE  /\ appPc[t] # "idle"
           /\ \A u \in Threads \ {t} : appPc'[u] = appPc[u] /\ appResult'[u] = appResult[u]
<1>1. /\ DOMAIN appPc = Threads /\ DOMAIN appResult = Threads
    BY DEF Safe!IInv, Safe!TypeOK
<1>2. QED
    BY <1>1
       DEF App!Steps, App!Build, App!Run, App!Close, App!ContextFails, App!ContextMade,
           App!ImageBuilt, App!ImageBuildFails, App!Register, App!InspectFails, App!RejectClosed,
           App!EnterRun, App!RejectRun, App!Verified, App!StartContainer, App!StartFails,
           App!Outputs, App!RunFails, App!RemoveContainer, App!LeaveRun, App!AlreadyClosed,
           App!EnterClose, App!RemoveImage, App!RemoveImageRefused, App!RemoveImageRaises,
           App!ImageNotListed, App!ImageListFails, App!RemoveDirectory, App!RemoveDirectoryFails,
           App!LeaveCleanup, App!Go, App!Return, App!stateVars

\* A build, with its cleanup if it fails, ends with a handle or as a failure.
LEMMA BuildStep ==
    ASSUME Safe!IInv, NEW t \in Threads, App!Steps(t), handle = "none",
           appPc[t] \in {"context", "build", "inspect", "image", "list", "files"}
    PROVE  /\ \/ handle' = "none" /\ appPc'[t] \in {"context", "build", "inspect", "image", "list", "files"}
              \/ handle' = "built" /\ appPc'[t] = "idle" /\ appResult'[t] = "built"
              \/ handle' = "failed" /\ appPc'[t] = "idle" /\ appResult'[t] = "build failed"
           /\ started' = started
<1>1. /\ DOMAIN appPc = Threads /\ DOMAIN appResult = Threads
    BY DEF Safe!IInv, Safe!TypeOK
<1>2. QED
    BY <1>1
       DEF App!Steps, App!Build, App!Run, App!Close, App!ContextFails, App!ContextMade,
           App!ImageBuilt, App!ImageBuildFails, App!Register, App!InspectFails, App!RejectClosed,
           App!EnterRun, App!RejectRun, App!Verified, App!StartContainer, App!StartFails,
           App!Outputs, App!RunFails, App!RemoveContainer, App!LeaveRun, App!AlreadyClosed,
           App!EnterClose, App!RemoveImage, App!RemoveImageRefused, App!RemoveImageRaises,
           App!ImageNotListed, App!ImageListFails, App!RemoveDirectory, App!RemoveDirectoryFails,
           App!LeaveCleanup, App!Go, App!Return, App!stateVars

\* A run starts one container at most, in the step behind its verification.
LEMMA RunStep ==
    ASSUME Safe!IInv, NEW t \in Threads, App!Steps(t), handle = "built",
           appPc[t] \in {"lock to run", "verify", "exec", "await", "kill"}
    PROVE  /\ handle' = "built" /\ appPc'[t] \in {"idle", "verify", "exec", "await", "kill"}
           /\ \/ started' = started /\ (appPc'[t] = "exec" => appPc[t] = "verify")
                                     /\ (appPc'[t] = "verify" => appPc[t] = "lock to run")
              \/ started' = started + 1 /\ appPc[t] = "exec" /\ appPc'[t] \in {"await", "kill"}
<1>1. /\ DOMAIN appPc = Threads /\ DOMAIN appResult = Threads
    BY DEF Safe!IInv, Safe!TypeOK
<1>2. QED
    BY <1>1
       DEF App!Steps, App!Build, App!Run, App!Close, App!ContextFails, App!ContextMade,
           App!ImageBuilt, App!ImageBuildFails, App!Register, App!InspectFails, App!RejectClosed,
           App!EnterRun, App!RejectRun, App!Verified, App!StartContainer, App!StartFails,
           App!Outputs, App!RunFails, App!RemoveContainer, App!LeaveRun, App!AlreadyClosed,
           App!EnterClose, App!RemoveImage, App!RemoveImageRefused, App!RemoveImageRaises,
           App!ImageNotListed, App!ImageListFails, App!RemoveDirectory, App!RemoveDirectoryFails,
           App!LeaveCleanup, App!Go, App!Return, App!stateVars

\* A close starts no container and keeps the handle.
LEMMA CloseStep ==
    ASSUME Safe!IInv, NEW t \in Threads, App!Steps(t), handle = "built",
           appPc[t] \in {"lock to close", "image", "list", "files"}
    PROVE  /\ handle' = "built" /\ appPc'[t] \in {"idle", "image", "list", "files"}
           /\ started' = started
<1>1. /\ DOMAIN appPc = Threads /\ DOMAIN appResult = Threads
    BY DEF Safe!IInv, Safe!TypeOK
<1>2. QED
    BY <1>1
       DEF App!Steps, App!Build, App!Run, App!Close, App!ContextFails, App!ContextMade,
           App!ImageBuilt, App!ImageBuildFails, App!Register, App!InspectFails, App!RejectClosed,
           App!EnterRun, App!RejectRun, App!Verified, App!StartContainer, App!StartFails,
           App!Outputs, App!RunFails, App!RemoveContainer, App!LeaveRun, App!AlreadyClosed,
           App!EnterClose, App!RemoveImage, App!RemoveImageRefused, App!RemoveImageRaises,
           App!ImageNotListed, App!ImageListFails, App!RemoveDirectory, App!RemoveDirectoryFails,
           App!LeaveCleanup, App!Go, App!Return, App!stateVars

\* What a session call changes of the application when it hands its thread over.
LEMMA HandsOver ==
    ASSUME Safe!IInv, NEW t \in Threads
    PROVE  /\ App!CallBuild(t) => /\ handle = "none" /\ appPc[t] = "idle"
                                  /\ \A u \in Threads : appPc'[u] = IF u = t THEN "context" ELSE appPc[u]
                                  /\ UNCHANGED <<appResult, handle, appLock, started, tag, directory>>
           /\ App!CallRun(t) => /\ handle = "built" /\ appPc[t] = "idle"
                                /\ \A u \in Threads : appPc'[u] = IF u = t THEN "lock to run" ELSE appPc[u]
                                /\ UNCHANGED <<appResult, handle, appLock, started, tag, directory>>
           /\ App!CallClose(t) => /\ handle = "built" /\ appPc[t] = "idle"
                                  /\ \A u \in Threads : appPc'[u] = IF u = t THEN "lock to close" ELSE appPc[u]
                                  /\ UNCHANGED <<appResult, handle, appLock, started, tag, directory>>
<1>1. DOMAIN appPc = Threads
    BY DEF Safe!IInv, Safe!TypeOK
<1>2. QED
    BY <1>1 DEF App!CallBuild, App!CallRun, App!CallClose, App!Go, App!stateVars, App!worldVars

-----------------------------------------------------------------------------
(* The invariant of the session *)

LEMMA InitSession == Init => SessionInv
<1> SUFFICES ASSUME Init PROVE SessionInv
    OBVIOUS
<1> USE SessionAssumption DEF Init, App!Init
<1>1. size \in Nat \X Nat /\ size[1] \in Nat /\ size[2] \in Nat
    OBVIOUS
<1>2. SessionTypes
    <2>1. <<>> \in Seq(Nat)
        OBVIOUS
    <2>2. at \in [Threads -> Places]
        BY DEF Places
    <2>3. QED
        BY <1>1, <2>1, <2>2 DEF SessionTypes
<1>3. Exclusive /\ InPlace /\ NothingOwned
    BY DEF Exclusive, InPlace, NothingOwned
<1>4. 0 * size[1] = 0 /\ 0 * size[2] = 0
    BY <1>1
<1>5. Counted
    BY <1>1, <1>4 DEF Counted, OverBudget
<1>6. QED
    BY <1>2, <1>3, <1>5 DEF SessionInv

\* Steps of the application belong to the thread that holds the session.
LEMMA ApplicationStep ==
    ASSUME SessionInv, Safe!IInv, Safe!IInv', NEW t \in Threads, App!Steps(t), UNCHANGED sessionVars
    PROVE  SessionInv'
<1> USE SessionAssumption DEF SessionInv, sessionVars, counters
<1>1. /\ appPc[t] # "idle"
      /\ \A u \in Threads \ {t} : appPc'[u] = appPc[u] /\ appResult'[u] = appResult[u]
    BY OneMoves
<1>2. at[t] \in {"building", "running", "failing", "closing"}
    BY <1>1 DEF Exclusive, SessionTypes, Places
<1>3. session = t /\ \A u \in Threads \ {t} : at[u] = "outside"
    BY <1>2 DEF Exclusive
<1>4. SessionTypes' /\ Exclusive'
    BY <1>1, <1>2 DEF SessionTypes, Exclusive
<1>5. started \in Nat /\ requests \in Nat /\ MaxRequests \in Nat
    BY DEF Safe!IInv, Safe!TypeOK, SessionTypes
<1>6. CASE at[t] = "building"
    <2>1. BuildPlace(t) /\ ~built /\ ~shut
        BY <1>6 DEF InPlace, BuildPlace
    <2>2. handle = "none" /\ appPc[t] \in {"context", "build", "inspect", "image", "list", "files"}
        BY <1>1, <2>1 DEF BuildPlace
    <2>3. BuildPlace(t)' /\ started' = started
        BY <2>1, <2>2, BuildStep DEF BuildPlace
    <2>4. InPlace' /\ NothingOwned'
        BY <1>3, <1>6, <2>1, <2>3 DEF InPlace, NothingOwned
    <2>5. Counted'
        BY <1>3, <1>6, <2>3 DEF Counted, OverBudget
    <2>6. QED
        BY <1>4, <2>4, <2>5
<1>7. CASE at[t] = "running"
    <2>1. RunPlace(t) /\ built /\ ~shut /\ handle = "built"
        BY <1>7 DEF InPlace, RunPlace
    <2>2. appPc[t] \in {"lock to run", "verify", "exec", "await", "kill"}
        BY <1>1, <2>1 DEF RunPlace
    <2>3. /\ handle' = "built" /\ appPc'[t] \in {"idle", "verify", "exec", "await", "kill"}
          /\ \/ started' = started /\ (appPc'[t] = "exec" => appPc[t] = "verify")
                                   /\ (appPc'[t] = "verify" => appPc[t] = "lock to run")
             \/ started' = started + 1 /\ appPc[t] = "exec" /\ appPc'[t] \in {"await", "kill"}
        BY <2>1, <2>2, RunStep
    <2>4. InPlace' /\ NothingOwned'
        BY <1>3, <1>7, <2>1, <2>3 DEF InPlace, NothingOwned, RunPlace
    <2>5. requests < MaxRequests /\ ~OverBudget
        BY <1>7 DEF Counted
    <2>6. /\ started <= requests + 1
          /\ appPc[t] \in {"lock to run", "verify", "exec"} => started <= requests
        <3>1. IF appPc[t] \in {"lock to run", "verify", "exec"} THEN started <= requests
                                                               ELSE started <= requests + 1
            BY <1>7 DEF Counted
        <3>2. started <= requests => started <= requests + 1
            BY <1>5
        <3>3. QED
            BY <3>1, <3>2
    <2>7. /\ IF appPc'[t] \in {"lock to run", "verify", "exec"} THEN started' <= requests
                                                               ELSE started' <= requests + 1
          /\ started' <= MaxRequests
        <3>1. CASE started' = started + 1 /\ appPc[t] = "exec" /\ appPc'[t] \in {"await", "kill"}
            <4>1. started <= requests
                BY <2>6, <3>1
            <4>2. started + 1 <= requests + 1 /\ started + 1 <= MaxRequests
                BY <1>5, <2>5, <4>1
            <4>3. QED
                BY <3>1, <4>2
        <3>2. CASE started' = started /\ appPc'[t] \in {"idle", "await", "kill"}
            <4>1. started <= requests + 1
                BY <2>6
            <4>2. started <= MaxRequests
                BY DEF Counted
            <4>3. QED
                BY <3>2, <4>1, <4>2
        <3>3. CASE started' = started /\ appPc'[t] \in {"verify", "exec"}
            <4>1. appPc[t] \in {"lock to run", "verify"}
                BY <2>3, <3>3
            <4>2. started <= requests /\ started <= MaxRequests
                BY <2>6, <4>1 DEF Counted
            <4>3. QED
                BY <3>3, <4>2
        <3>4. QED
            BY <2>3, <3>1, <3>2, <3>3
    <2>8. Counted'
        BY <1>3, <1>7, <2>1, <2>5, <2>7 DEF Counted, OverBudget
    <2>9. QED
        BY <1>4, <2>4, <2>8
<1>8. CASE at[t] \in {"failing", "closing"}
    <2>1. ClosePlace(t) /\ built /\ shut /\ handle = "built"
        BY <1>8 DEF InPlace, ClosePlace
    <2>2. appPc[t] \in {"lock to close", "image", "list", "files"}
        BY <1>1, <2>1 DEF ClosePlace
    <2>3. /\ handle' = "built" /\ appPc'[t] \in {"idle", "image", "list", "files"}
          /\ started' = started
        BY <2>1, <2>2, CloseStep
    <2>4. InPlace' /\ NothingOwned'
        BY <1>3, <1>8, <2>1, <2>3 DEF InPlace, NothingOwned, ClosePlace
    <2>5. Counted'
        BY <1>3, <1>8, <2>1, <2>3 DEF Counted, OverBudget
    <2>6. QED
        BY <1>4, <2>4, <2>5
<1>9. QED
    BY <1>2, <1>6, <1>7, <1>8

LEMMA WorldStep ==
    ASSUME SessionInv, Safe!IInv, App!World, UNCHANGED sessionVars
    PROVE  SessionInv'
<1>1. /\ UNCHANGED <<appPc, appResult, handle, started, tag>>
      /\ directory' => directory
    BY DEF App!World, App!ContainerExits, App!DirectoryVanishes, App!callVars, App!stateVars
<1>2. SessionTypes' /\ Exclusive' /\ Counted'
    BY <1>1 DEF SessionInv, SessionTypes, Exclusive, Counted, OverBudget, sessionVars, counters
<1>3. InPlace'
    BY <1>1 DEF SessionInv, InPlace, BuildPlace, RunPlace, ClosePlace, sessionVars, counters
<1>4. NothingOwned'
    BY <1>1 DEF SessionInv, NothingOwned, sessionVars, counters
<1>5. QED
    BY <1>2, <1>3, <1>4 DEF SessionInv

\* A session call that leaves the application alone, or only hands the thread over.
LEMMA SessionStep ==
    ASSUME SessionInv, Safe!IInv, NEW t \in Threads,
           \/ CallRun(t) \/ Busy(t) \/ CallClose(t)
           \/ RefuseClosed(t) \/ RefuseLimit(t) \/ RefuseInput(t)
           \/ StartBuild(t) \/ StartRun(t) \/ BuildDone(t) \/ BuildDrifts(t) \/ BuildFails(t)
           \/ Publish(t) \/ RunFails(t) \/ CloseDone(t) \/ CloseFails(t)
    PROVE  SessionInv'
<1> USE SessionAssumption DEF SessionInv, Go, Return, Leave, Back, Admissible
<1>1. /\ started \in Nat /\ requests \in Nat /\ inputsUsed \in Nat /\ outputsUsed \in Nat
      /\ size[1] \in Nat /\ size[2] \in Nat /\ MaxRequests \in Nat /\ MaxElements \in Nat
    BY DEF Safe!IInv, Safe!TypeOK, SessionTypes
<1>2. /\ DOMAIN at = Threads /\ DOMAIN outcome = Threads
      /\ \A u \in Threads : at[u] \in Places
    BY DEF SessionTypes
<1>3. ASSUME session = t
      PROVE  \A u \in Threads \ {t} : at[u] = "outside" /\ appPc[u] = "idle"
    BY <1>3 DEF Exclusive
<1>4. ASSUME session = NoThread PROVE \A u \in Threads : at[u] = "outside" /\ appPc[u] = "idle"
    BY <1>4 DEF Exclusive
<1>5. CASE CallRun(t)
    <2>1. SessionTypes' /\ Exclusive'
        BY <1>2, <1>4, <1>5 DEF CallRun, SessionTypes, Exclusive, Places, counters, appVars
    <2>2. InPlace' /\ NothingOwned'
        BY <1>2, <1>4, <1>5 DEF CallRun, InPlace, NothingOwned, counters, appVars
    <2>3. Counted'
        BY <1>2, <1>4, <1>5 DEF CallRun, Counted, OverBudget, counters, appVars
    <2>4. QED
        BY <2>1, <2>2, <2>3
<1>6. CASE Busy(t)
    <2>1. at' = at
        BY <1>2, <1>6 DEF Busy, SessionTypes
    <2>2. SessionTypes' /\ Exclusive'
        BY <1>2, <1>6, <2>1 DEF Busy, SessionTypes, Exclusive, counters, appVars
    <2>3. InPlace' /\ NothingOwned' /\ Counted'
        BY <1>6, <2>1 DEF Busy, InPlace, BuildPlace, RunPlace, ClosePlace, NothingOwned, Counted,
                          OverBudget, counters, appVars
    <2>4. QED
        BY <2>2, <2>3
<1>7. CASE RefuseClosed(t) \/ RefuseLimit(t) \/ RefuseInput(t)
    <2>1. session = t /\ at[t] = "admit" /\ appPc[t] = "idle"
        BY <1>2, <1>7 DEF RefuseClosed, RefuseLimit, RefuseInput, Exclusive
    <2>2. /\ \A u \in Threads : at'[u] = "outside" /\ appPc[u] = "idle"
          /\ session' = NoThread /\ UNCHANGED <<shut, built, counters, appVars>>
        BY <1>2, <1>3, <1>7, <2>1 DEF RefuseClosed, RefuseLimit, RefuseInput
    <2>3. SessionTypes' /\ Exclusive'
        BY <1>2, <1>7, <2>2 DEF RefuseClosed, RefuseLimit, RefuseInput, SessionTypes, Exclusive, Places,
                                counters, appVars
    <2>4. \A u \in Threads : at[u] \notin {"building", "running"}
        BY <1>3, <2>1
    <2>5. InPlace' /\ NothingOwned' /\ Counted'
        BY <2>2, <2>4 DEF InPlace, NothingOwned, Counted, OverBudget, counters, appVars
    <2>6. QED
        BY <2>3, <2>5
<1>8. CASE StartBuild(t)
    <2>1. /\ session = t /\ at[t] = "admit" /\ ~built /\ ~shut
          /\ requests < MaxRequests /\ ~OverBudget
        BY <1>8 DEF StartBuild, Exclusive
    <2>2. /\ handle = "none"
          /\ \A u \in Threads : appPc'[u] = IF u = t THEN "context" ELSE appPc[u]
          /\ UNCHANGED <<appResult, handle, started>>
        BY <1>8, HandsOver DEF StartBuild
    <2>3. \A u \in Threads : at'[u] = IF u = t THEN "building" ELSE "outside"
        BY <1>2, <1>3, <1>8, <2>1 DEF StartBuild
    <2>4. SessionTypes' /\ Exclusive'
        BY <1>2, <1>3, <1>8, <2>1, <2>2, <2>3 DEF StartBuild, SessionTypes, Exclusive, Places, counters
    <2>5. UNCHANGED <<shut, built, counters>>
        BY <1>8 DEF StartBuild
    <2>6. InPlace' /\ NothingOwned'
        BY <2>1, <2>2, <2>3, <2>5 DEF InPlace, BuildPlace, NothingOwned
    <2>7. started <= requests
        BY <1>2, <1>3, <2>1 DEF Counted
    <2>8. Counted'
        BY <2>1, <2>2, <2>3, <2>5, <2>7 DEF Counted, OverBudget, counters
    <2>9. QED
        BY <2>4, <2>6, <2>8
<1>9. CASE StartRun(t)
    <2>1. /\ session = t /\ at[t] = "admit" /\ built /\ ~shut
          /\ requests < MaxRequests /\ ~OverBudget
        BY <1>9 DEF StartRun, Exclusive
    <2>2. /\ handle = "built"
          /\ \A u \in Threads : appPc'[u] = IF u = t THEN "lock to run" ELSE appPc[u]
          /\ UNCHANGED <<appResult, handle, started>>
        BY <1>9, HandsOver DEF StartRun
    <2>3. \A u \in Threads : at'[u] = IF u = t THEN "running" ELSE "outside"
        BY <1>2, <1>3, <1>9, <2>1 DEF StartRun
    <2>4. SessionTypes' /\ Exclusive'
        BY <1>2, <1>3, <1>9, <2>1, <2>2, <2>3 DEF StartRun, SessionTypes, Exclusive, Places, counters
    <2>5. UNCHANGED <<shut, built, counters>>
        BY <1>9 DEF StartRun
    <2>6. InPlace' /\ NothingOwned'
        BY <2>1, <2>2, <2>3, <2>5 DEF InPlace, RunPlace, NothingOwned
    <2>7. started <= requests
        BY <1>2, <1>3, <2>1 DEF Counted
    <2>8. Counted'
        BY <2>1, <2>2, <2>3, <2>5, <2>7 DEF Counted, OverBudget, counters
    <2>9. QED
        BY <2>4, <2>6, <2>8
<1>10. CASE BuildDone(t)
    <2>1. /\ session = t /\ at[t] = "building" /\ ~shut /\ ~built
          /\ requests < MaxRequests /\ ~OverBudget
        BY <1>10 DEF BuildDone, Exclusive, InPlace, BuildPlace, Counted
    <2>2. /\ handle = "built"
          /\ \A u \in Threads : appPc'[u] = IF u = t THEN "lock to run" ELSE appPc[u]
          /\ UNCHANGED <<appResult, handle, started>>
        BY <1>10, HandsOver DEF BuildDone
    <2>3. \A u \in Threads : at'[u] = IF u = t THEN "running" ELSE "outside"
        BY <1>2, <1>3, <1>10, <2>1 DEF BuildDone
    <2>4. SessionTypes' /\ Exclusive'
        BY <1>2, <1>3, <1>10, <2>1, <2>2, <2>3 DEF BuildDone, SessionTypes, Exclusive, Places, counters
    <2>5. UNCHANGED <<shut, counters>> /\ built'
        BY <1>10 DEF BuildDone
    <2>6. InPlace' /\ NothingOwned'
        BY <2>1, <2>2, <2>3, <2>5 DEF InPlace, RunPlace, NothingOwned
    <2>7. started <= requests
        BY <1>2, <1>3, <2>1 DEF Counted
    <2>8. Counted'
        BY <2>1, <2>2, <2>3, <2>5, <2>7 DEF Counted, OverBudget, counters
    <2>9. QED
        BY <2>4, <2>6, <2>8
<1>11. CASE BuildDrifts(t) \/ RunFails(t)
    <2>1. session = t /\ at[t] \in {"building", "running"}
        BY <1>11 DEF BuildDrifts, RunFails, Exclusive
    <2>2. /\ handle = "built" /\ shut' /\ built'
          /\ \A u \in Threads : appPc'[u] = IF u = t THEN "lock to close" ELSE appPc[u]
          /\ UNCHANGED <<appResult, handle, started, session, outcome, counters>>
        <3>1. App!CallClose(t) /\ shut' /\ UNCHANGED <<session, outcome, counters>>
            BY <1>11 DEF BuildDrifts, RunFails
        <3>2. built'
            <4>1. CASE BuildDrifts(t)
                BY <4>1 DEF BuildDrifts
            <4>2. CASE RunFails(t)
                BY <4>2 DEF RunFails, InPlace, RunPlace
            <4>3. QED
                BY <1>11, <4>1, <4>2
        <3>3. QED
            BY <3>1, <3>2, HandsOver
    <2>3. \A u \in Threads : at'[u] = IF u = t THEN "failing" ELSE "outside"
        BY <1>2, <1>3, <1>11, <2>1 DEF BuildDrifts, RunFails
    <2>4. SessionTypes' /\ Exclusive'
        <3>1. shut' \in BOOLEAN /\ built' \in BOOLEAN
            BY <1>11 DEF BuildDrifts, RunFails, SessionTypes
        <3>2. at' \in [Threads -> Places]
            BY <1>11 DEF BuildDrifts, RunFails, SessionTypes, Places
        <3>3. QED
            BY <1>2, <1>3, <2>1, <2>2, <2>3, <3>1, <3>2 DEF SessionTypes, Exclusive, counters
    <2>5. InPlace' /\ NothingOwned'
        BY <2>1, <2>2, <2>3 DEF InPlace, ClosePlace, NothingOwned
    <2>6. Counted'
        BY <2>1, <2>2, <2>3 DEF Counted, OverBudget, counters
    <2>7. QED
        BY <2>4, <2>5, <2>6
<1>12. CASE BuildFails(t)
    <2>1. /\ session = t /\ at[t] = "building" /\ ~built /\ handle = "failed"
          /\ appPc[t] = "idle" /\ appResult[t] = "build failed"
        BY <1>12 DEF BuildFails, Exclusive, InPlace, BuildPlace
    <2>2. /\ \A u \in Threads : at'[u] = "outside" /\ appPc[u] = "idle"
          /\ session' = NoThread /\ shut' = TRUE /\ UNCHANGED <<built, counters, appVars>>
        BY <1>2, <1>3, <1>12, <2>1 DEF BuildFails
    <2>3. SessionTypes' /\ Exclusive'
        <3>1. at' \in [Threads -> Places] /\ outcome' \in [Threads ->
                {"none", "session_busy", "closed", "session_limit", "rejected", "result", "failed",
                 "cleanup_failed", "released"}]
            BY <1>12 DEF BuildFails, SessionTypes, Places
        <3>2. QED
            BY <2>2, <3>1 DEF SessionTypes, Exclusive, counters, appVars
    <2>4. InPlace' /\ NothingOwned' /\ Counted'
        BY <2>1, <2>2 DEF InPlace, NothingOwned, Counted, OverBudget, counters, appVars
    <2>5. QED
        BY <2>3, <2>4
<1>13. CASE Publish(t)
    <2>1. /\ session = t /\ at[t] = "running" /\ ~shut /\ built /\ handle = "built"
          /\ requests < MaxRequests /\ ~OverBudget /\ appPc[t] = "idle"
        BY <1>13 DEF Publish, Exclusive, InPlace, RunPlace, Counted
    <2>2. /\ \A u \in Threads : at'[u] = "outside" /\ appPc[u] = "idle"
          /\ session' = NoThread /\ UNCHANGED <<size, shut, built, appVars>>
        BY <1>2, <1>3, <1>13, <2>1 DEF Publish
    <2>3. /\ requests' = requests + 1 /\ inputsUsed' = inputsUsed + size[1]
          /\ outputsUsed' = outputsUsed + size[2] /\ published' = Append(published, requests + 1)
        BY <1>13 DEF Publish
    <2>4. SessionTypes' /\ Exclusive'
        <3>1. requests' \in Nat /\ inputsUsed' \in Nat /\ outputsUsed' \in Nat
            BY <1>1, <2>3
        <3>2. published' \in Seq(Nat)
            BY <1>1, <2>3, AppendProperties DEF SessionTypes
        <3>3. at' \in [Threads -> Places] /\ outcome' \in [Threads ->
                {"none", "session_busy", "closed", "session_limit", "rejected", "result", "failed",
                 "cleanup_failed", "released"}]
            BY <1>13 DEF Publish, SessionTypes, Places
        <3>4. QED
            BY <2>2, <3>1, <3>2, <3>3 DEF SessionTypes, Exclusive, appVars
    <2>5. InPlace' /\ NothingOwned'
        BY <2>1, <2>2 DEF InPlace, NothingOwned, appVars
    <2>6. started <= requests + 1
        <3>1. appPc[t] \notin {"lock to run", "verify", "exec"}
            BY <2>1
        <3>2. QED
            BY <2>1, <3>1 DEF Counted
    <2>7. /\ Len(published') = requests'
          /\ \A i \in DOMAIN published' : published'[i] = i
        <3>1. published \in Seq(Nat) /\ Len(published) = requests
              /\ \A i \in DOMAIN published : published[i] = i
            BY DEF SessionTypes, Counted
        <3>2. QED
            BY <1>1, <2>3, <3>1, AppendProperties
    <2>8. /\ inputsUsed' <= MaxElements /\ outputsUsed' <= MaxElements
          /\ requests' <= MaxRequests
        BY <1>1, <2>1, <2>3 DEF OverBudget
    <2>9. inputsUsed' = requests' * size[1] /\ outputsUsed' = requests' * size[2]
        <3>1. \A n, s \in Nat : (n + 1) * s = n * s + s
            OBVIOUS
        <3>2. inputsUsed = requests * size[1] /\ outputsUsed = requests * size[2]
            BY DEF Counted
        <3>3. QED
            BY <1>1, <2>3, <3>1, <3>2
    <2>10. Counted'
        BY <2>2, <2>3, <2>6, <2>7, <2>8, <2>9 DEF Counted, appVars
    <2>11. QED
        BY <2>4, <2>5, <2>10
<1>14. CASE CallClose(t)
    <2>1. session = NoThread /\ shut' = TRUE /\ UNCHANGED <<built, counters>>
        BY <1>14 DEF CallClose
    <2>2. \A u \in Threads : at[u] = "outside" /\ appPc[u] = "idle"
        BY <1>4, <2>1
    <2>3. CASE built
        <3>1. /\ \A u \in Threads : at'[u] = IF u = t THEN "closing" ELSE "outside"
              /\ session' = t /\ outcome' = outcome /\ at' \in [Threads -> Places]
            BY <1>2, <1>14, <2>2, <2>3 DEF CallClose, SessionTypes, Places
        <3>2. /\ handle = "built"
              /\ \A u \in Threads : appPc'[u] = IF u = t THEN "lock to close" ELSE appPc[u]
              /\ UNCHANGED <<appResult, handle, started>>
            BY <1>14, <2>3, HandsOver DEF CallClose
        <3>3. SessionTypes' /\ Exclusive'
            BY <2>1, <2>2, <3>1, <3>2 DEF SessionTypes, Exclusive, counters
        <3>4. InPlace' /\ NothingOwned' /\ Counted'
            BY <2>1, <2>2, <2>3, <3>1, <3>2
               DEF InPlace, ClosePlace, NothingOwned, Counted, OverBudget, counters
        <3>5. QED
            BY <3>3, <3>4
    <2>4. CASE ~built
        <3>1. /\ at' = at /\ session' = session /\ UNCHANGED appVars
              /\ outcome' = [outcome EXCEPT ![t] = "released"]
            BY <1>2, <1>14, <2>2, <2>4 DEF CallClose, SessionTypes
        <3>2. SessionTypes' /\ Exclusive'
            BY <2>1, <3>1 DEF SessionTypes, Exclusive, counters, appVars
        <3>3. InPlace' /\ NothingOwned' /\ Counted'
            BY <2>1, <2>2, <2>4, <3>1 DEF InPlace, NothingOwned, Counted, OverBudget, counters, appVars
        <3>4. QED
            BY <3>2, <3>3
    <2>5. QED
        BY <2>3, <2>4
<1>15. CASE CloseDone(t) \/ CloseFails(t)
    <2>1. /\ session = t /\ at[t] \in {"closing", "failing"} /\ shut /\ built
          /\ handle = "built" /\ appPc[t] = "idle"
        BY <1>15 DEF CloseDone, CloseFails, Exclusive, InPlace, ClosePlace
    <2>2. /\ \A u \in Threads : at'[u] = "outside" /\ appPc[u] = "idle"
          /\ session' = NoThread /\ UNCHANGED <<shut, counters, appVars>>
        BY <1>2, <1>3, <1>15, <2>1 DEF CloseDone, CloseFails
    <2>3. built' \in BOOLEAN /\ (~built' => ~tag /\ ~directory)
        BY <1>15, <2>1 DEF CloseDone, CloseFails, Safe!IInv, Safe!Truthful, SessionTypes
    <2>4. SessionTypes' /\ Exclusive'
        <3>1. at' \in [Threads -> Places] /\ outcome' \in [Threads ->
                {"none", "session_busy", "closed", "session_limit", "rejected", "result", "failed",
                 "cleanup_failed", "released"}]
            BY <1>15 DEF CloseDone, CloseFails, SessionTypes, Places
        <3>2. QED
            BY <2>2, <2>3, <3>1 DEF SessionTypes, Exclusive, counters, appVars
    <2>5. InPlace' /\ NothingOwned' /\ Counted'
        BY <2>1, <2>2, <2>3 DEF InPlace, NothingOwned, Counted, OverBudget, counters, appVars
    <2>6. QED
        BY <2>4, <2>5
<1>16. QED
    BY <1>5, <1>6, <1>7, <1>8, <1>9, <1>10, <1>11, <1>12, <1>13, <1>14, <1>15

\* Every step, of a session call, of the application or of the world, keeps both invariants.
LEMMA NextSession ==
    Safe!IInv /\ SessionInv /\ [Next]_vars => Safe!IInv' /\ SessionInv'
<1> SUFFICES ASSUME Safe!IInv, SessionInv, [Next]_vars PROVE Safe!IInv' /\ SessionInv'
    OBVIOUS
<1>1. [App!Next]_appVars
    BY DEF Next, vars, Call, Steps, CallRun, Busy, CallClose, RefuseClosed, RefuseLimit, RefuseInput,
           StartBuild, StartRun, BuildDone, BuildDrifts, BuildFails, Publish, RunFails, CloseDone,
           CloseFails, App!Next, App!Call
<1>2. Safe!IInv'
    BY <1>1, ApplicationSafe
<1>3. ASSUME NEW t \in Threads, Call(t) \/ Steps(t), ~(App!Steps(t) /\ UNCHANGED sessionVars)
      PROVE  SessionInv'
    BY <1>3, SessionStep DEF Call, Steps
<1>4. ASSUME NEW t \in Threads, App!Steps(t) /\ UNCHANGED sessionVars PROVE SessionInv'
    BY <1>2, <1>4, ApplicationStep
<1>5. CASE App!World /\ UNCHANGED sessionVars
    BY <1>2, <1>5, WorldStep
<1>6. CASE UNCHANGED vars
    BY <1>2, <1>6 DEF vars, sessionVars, counters, appVars, SessionInv, SessionTypes, Exclusive, InPlace,
                BuildPlace, RunPlace, ClosePlace, NothingOwned, Counted, OverBudget
<1>7. QED
    BY <1>2, <1>3, <1>4, <1>5, <1>6 DEF Next

LEMMA Keeps == Spec => [](Safe!IInv /\ SessionInv)
<1>1. Init => Safe!IInv /\ SessionInv
    BY ApplicationSafe, InitSession DEF Init
<1>2. QED
    BY <1>1, NextSession, PTL DEF Spec

-----------------------------------------------------------------------------
\* However many threads call, fail and retry, a session starts no more containers than its
\* request limit.
THEOREM BoundedNativeWork == Spec => []NativeWorkBounded
<1>1. SessionInv => NativeWorkBounded
    BY DEF SessionInv, Counted, NativeWorkBounded
<1>2. QED
    BY Keeps, <1>1, PTL

\* The results are numbered in order and the budgets count exactly what was published.
THEOREM SessionBudget == Spec => []BudgetKept
<1>1. SessionInv => BudgetKept
    BY DEF SessionInv, Counted, BudgetKept
<1>2. QED
    BY Keeps, <1>1, PTL

\* A closed session keeps the handle until tag and directory are gone.
THEOREM CleanupAuthority == Spec => []KeepsCleanupAuthority
<1>1. SessionInv => KeepsCleanupAuthority
    <2> SUFFICES ASSUME SessionInv, shut, session = NoThread, ~built
                 PROVE  handle = "failed" \/ (~tag /\ ~directory)
        BY DEF KeepsCleanupAuthority
    <2>1. \A t \in Threads : at[t] # "building"
        BY SessionAssumption DEF SessionInv, Exclusive
    <2>2. QED
        BY <2>1 DEF SessionInv, NothingOwned
<1>2. QED
    BY Keeps, <1>1, PTL

\* The application's own lock is free whenever a session call is about to take it.
THEOREM NeverWaits == Spec => []NeverBlocks
<1>1. Safe!IInv /\ SessionInv => NeverBlocks
    <2> SUFFICES ASSUME Safe!IInv, SessionInv, NEW t \in Threads, appPc[t] \in App!Waiting
                 PROVE  appLock = NoThread
        BY DEF NeverBlocks
    <2>1. appPc[t] \in {"lock to run", "lock to close"}
        BY DEF App!Waiting
    <2>2. session = t
        BY <2>1 DEF SessionInv, SessionTypes, Exclusive, Places
    <2>3. \A u \in Threads \ {t} : appPc[u] = "idle"
        BY <2>2 DEF SessionInv, Exclusive
    <2>4. \A u \in Threads : appPc[u] \notin Safe!RunSteps \union Safe!CleanupSteps
        BY <2>1, <2>3 DEF Safe!RunSteps, Safe!CleanupSteps
    <2>5. appLock \in Threads \union {NoThread}
        BY DEF Safe!IInv, Safe!TypeOK
    <2>6. QED
        BY <2>4, <2>5 DEF Safe!IInv, Safe!Locking
<1>2. QED
    BY Keeps, <1>1, PTL

-----------------------------------------------------------------------------
(* The promises of AbstractSession *)

\* Nobody answers, and the phase stays: a step the caller does not see.
LEMMA Unseen ==
    ASSUME UNCHANGED <<outcome, shut, built, requests>>
    PROVE  UNCHANGED Abstract!absVars
BY DEF Abstract!absVars

\* Results come from an open session below its limit, refusals change nothing, and a closed
\* session is released by a finished cleanup only.
LEMMA PromisedStep ==
    ASSUME SessionInv, Safe!IInv, [Next]_vars
    PROVE  [Abstract!Next]_(Abstract!absVars)
<1> USE DEF Return, Leave, counters
<1>1. ASSUME NEW t \in Threads, CallRun(t) \/ StartBuild(t) \/ StartRun(t) \/ BuildDone(t)
      PROVE  UNCHANGED Abstract!absVars
    <2>1. CASE CallRun(t) \/ StartBuild(t) \/ StartRun(t)
        BY <2>1, Unseen DEF CallRun, StartBuild, StartRun
    <2>2. CASE BuildDone(t)
        <3>1. ~shut /\ UNCHANGED <<outcome, shut, requests>>
            BY <2>2 DEF BuildDone, Go, SessionInv, InPlace, BuildPlace
        <3>2. QED
            BY <3>1 DEF Abstract!absVars
    <2>3. QED
        BY <1>1, <2>1, <2>2
<1>2. ASSUME NEW t \in Threads, Busy(t) PROVE Abstract!Refuse(t)
    BY <1>2 DEF Busy, Abstract!Refuse, Abstract!Answer
<1>3. ASSUME NEW t \in Threads, RefuseClosed(t) \/ RefuseLimit(t) \/ RefuseInput(t)
      PROVE  Abstract!Refuse(t)
    <2>1. CASE RefuseClosed(t)
        BY <2>1 DEF RefuseClosed, Abstract!Refuse, Abstract!Answer
    <2>2. CASE RefuseLimit(t)
        BY <2>2 DEF RefuseLimit, Abstract!Refuse, Abstract!Answer
    <2>3. CASE RefuseInput(t)
        BY <2>3 DEF RefuseInput, Abstract!Refuse, Abstract!Answer
    <2>4. QED
        BY <1>3, <2>1, <2>2, <2>3
<1>4. ASSUME NEW t \in Threads, BuildDrifts(t) \/ RunFails(t)
      PROVE  Abstract!Shut /\ UNCHANGED outcome
    <2>1. ~shut
        BY <1>4 DEF BuildDrifts, RunFails, Go, SessionInv, InPlace, BuildPlace, RunPlace
    <2>2. shut' = TRUE /\ UNCHANGED <<outcome, requests>>
        BY <1>4 DEF BuildDrifts, RunFails
    <2>3. QED
        BY <2>1, <2>2 DEF Abstract!Shut
<1>5. ASSUME NEW t \in Threads, BuildFails(t) PROVE Abstract!Report(t)
    <2>1. ~shut /\ ~built
        BY <1>5 DEF BuildFails, Go, SessionInv, InPlace, BuildPlace
    <2>2. /\ shut' = TRUE /\ UNCHANGED <<built, requests>>
          /\ outcome' = [outcome EXCEPT ![t] = "failed"]
        BY <1>5 DEF BuildFails
    <2>3. QED
        BY <2>1, <2>2 DEF Abstract!Report, Abstract!Shut, Abstract!Answer
<1>6. ASSUME NEW t \in Threads, Publish(t) PROVE Abstract!Publish(t)
    <2>1. ~shut /\ requests < MaxRequests
        BY <1>6 DEF Publish, Go, SessionInv, InPlace, RunPlace, Counted
    <2>2. /\ requests' = requests + 1 /\ UNCHANGED <<shut, built>>
          /\ outcome' = [outcome EXCEPT ![t] = "result"]
        BY <1>6 DEF Publish
    <2>3. QED
        BY <2>1, <2>2 DEF Abstract!Publish, Abstract!Answer
<1>7. ASSUME NEW t \in Threads, CallClose(t)
      PROVE  \/ UNCHANGED Abstract!absVars
             \/ Abstract!Shut /\ UNCHANGED outcome
             \/ Abstract!Report(t)
    <2>1. shut' = TRUE /\ UNCHANGED <<built, requests>>
        BY <1>7 DEF CallClose
    <2>2. CASE built
        <3>1. UNCHANGED outcome
            BY <1>7, <2>2 DEF CallClose
        <3>2. QED
            BY <2>1, <2>2, <3>1 DEF Abstract!absVars, Abstract!Shut
    <2>3. CASE ~built
        <3>1. outcome' = [outcome EXCEPT ![t] = "released"]
            BY <1>7, <2>3 DEF CallClose
        <3>2. QED
            BY <2>1, <2>3, <3>1 DEF Abstract!Report, Abstract!Shut, Abstract!Answer
    <2>4. QED
        BY <2>2, <2>3
<1>8. ASSUME NEW t \in Threads, CloseDone(t) \/ CloseFails(t) PROVE Abstract!Report(t)
    <2>1. shut /\ built
        BY <1>8 DEF CloseDone, CloseFails, Go, SessionInv, InPlace, ClosePlace
    <2>2. CASE CloseDone(t)
        <3>1. /\ built' = FALSE /\ UNCHANGED <<shut, requests>>
              /\ \/ outcome' = [outcome EXCEPT ![t] = "failed"]
                 \/ outcome' = [outcome EXCEPT ![t] = "released"]
            BY <2>2 DEF CloseDone
        <3>2. QED
            BY <2>1, <3>1 DEF Abstract!Report, Abstract!Release, Abstract!Answer
    <2>3. CASE CloseFails(t)
        <3>1. /\ UNCHANGED <<built, shut, requests>>
              /\ outcome' = [outcome EXCEPT ![t] = "cleanup_failed"]
            BY <2>3 DEF CloseFails
        <3>2. QED
            BY <2>1, <3>1 DEF Abstract!Report, Abstract!Answer
    <2>4. QED
        BY <1>8, <2>2, <2>3
<1>9. CASE UNCHANGED sessionVars
    BY <1>9, Unseen DEF sessionVars
<1>10. QED
    BY <1>1, <1>2, <1>3, <1>4, <1>5, <1>6, <1>7, <1>8, <1>9
       DEF Next, Call, Steps, vars, Abstract!Next

\* A session of any number of threads keeps the promises made to its callers.
THEOREM SessionKeepsPromises == Spec => KeepsPromises
<1>1. Init => Abstract!Init
    BY DEF Init, Abstract!Init
<1>2. QED
    BY Keeps, <1>1, PromisedStep, PTL DEF Spec, KeepsPromises, Abstract!Spec

-----------------------------------------------------------------------------
(* Bounded work.  That a call returns needs fairness, which TLC looks at (CallReturns); *)
(* what can be proved is that no call has a way to go on for ever.                     *)

AppLeft(t) == Safe!StepsLeft(t)

\* No more steps than these are left of the session call of t.
SessionLeft(t) ==
    CASE at[t] = "admit"                   -> 19
      [] at[t] = "building"                -> 12 + AppLeft(t)
      [] at[t] = "running"                 -> 6 + AppLeft(t)
      [] at[t] \in {"failing", "closing"} -> 1 + AppLeft(t)
      [] OTHER                             -> 0

\* What the application has left when it is handed the thread and when it gives it back.
AppLeftRight ==
    \A t \in Threads : /\ AppLeft(t) \in 0 .. 6
                       /\ appPc[t] = "idle" => AppLeft(t) = 0
                       /\ appPc[t] = "context" => AppLeft(t) = 6
                       /\ appPc[t] = "lock to run" => AppLeft(t) = 5
                       /\ appPc[t] = "lock to close" => AppLeft(t) = 4

LEMMA AppLeftValues == Safe!IInv => AppLeftRight
<1> SUFFICES ASSUME Safe!IInv, NEW t \in Threads
             PROVE  /\ AppLeft(t) \in 0 .. 6
                    /\ appPc[t] = "idle" => AppLeft(t) = 0
                    /\ appPc[t] = "context" => AppLeft(t) = 6
                    /\ appPc[t] = "lock to run" => AppLeft(t) = 5
                    /\ appPc[t] = "lock to close" => AppLeft(t) = 4
    BY DEF AppLeftRight
<1>1. /\ Safe!StepsFrom("context") = 6
      /\ Safe!StepsFrom("build") = 5 /\ Safe!StepsFrom("lock to run") = 5
      /\ Safe!StepsFrom("inspect") = 4 /\ Safe!StepsFrom("verify") = 4
      /\ Safe!StepsFrom("lock to close") = 4
      /\ Safe!StepsFrom("image") = 3 /\ Safe!StepsFrom("exec") = 3
      /\ Safe!StepsFrom("list") = 2 /\ Safe!StepsFrom("await") = 2
      /\ Safe!StepsFrom("files") = 1 /\ Safe!StepsFrom("kill") = 1
      /\ Safe!StepsFrom("idle") = 0
    BY DEF Safe!StepsFrom
<1>2. AppLeft(t) = Safe!StepsFrom(appPc[t])
    BY DEF AppLeft, Safe!StepsLeft
<1>3. appPc[t] \in {"idle", "context", "build", "inspect", "lock to run", "lock to close", "verify",
                    "exec", "await", "kill", "image", "list", "files"}
    BY DEF Safe!IInv, Safe!TypeOK, Safe!BuildSteps, Safe!Waiting, Safe!RunSteps, Safe!CleanupSteps
<1>4. /\ AppLeft(t) \in {0, 1, 2, 3, 4, 5, 6}
      /\ appPc[t] = "idle" => AppLeft(t) = 0
      /\ appPc[t] = "context" => AppLeft(t) = 6
      /\ appPc[t] = "lock to run" => AppLeft(t) = 5
      /\ appPc[t] = "lock to close" => AppLeft(t) = 4
    BY <1>1, <1>2, <1>3, Zenon
<1>5. \A n \in {0, 1, 2, 3, 4, 5, 6} : n \in 0 .. 6
    OBVIOUS
<1>6. QED
    BY <1>4, <1>5, Zenon

LEMMA SessionLeftType ==
    Safe!IInv /\ SessionInv =>
        \A t \in Threads : /\ SessionLeft(t) \in 0 .. 19
                           /\ SessionLeft(t) = 0 <=> at[t] = "outside"
<1> SUFFICES ASSUME Safe!IInv, SessionInv, NEW t \in Threads
             PROVE  /\ SessionLeft(t) \in 0 .. 19
                    /\ SessionLeft(t) = 0 <=> at[t] = "outside"
    OBVIOUS
<1>1. AppLeft(t) \in 0 .. 6
    BY AppLeftValues DEF AppLeftRight
<1>2. at[t] \in {"outside", "admit", "building", "running", "failing", "closing"}
    BY DEF SessionInv, SessionTypes, Places
<1>3. QED
    BY <1>1, <1>2 DEF SessionLeft

\* A step of t inside its session call is one step less of that call.
LEMMA SessionLowers ==
    ASSUME Safe!IInv, SessionInv, Safe!IInv', NEW t \in Threads, Steps(t)
    PROVE  SessionLeft(t)' < SessionLeft(t)
<1>1. at \in [Threads -> Places]
    BY DEF SessionInv, SessionTypes
<1>2. \A u \in Threads : /\ AppLeft(u) \in 0 .. 6
                         /\ appPc[u] = "idle" => AppLeft(u) = 0
    BY AppLeftValues, Zenon DEF AppLeftRight
<1>3. AppLeftRight'
    BY AppLeftValues, PTL
<1>4. CASE RefuseClosed(t) \/ RefuseLimit(t) \/ RefuseInput(t)
    <2>1. at[t] = "admit" /\ at'[t] = "outside"
        BY <1>1, <1>4 DEF RefuseClosed, RefuseLimit, RefuseInput, Leave, Return, Go
    <2>2. QED
        BY <2>1 DEF SessionLeft
<1>5. CASE StartBuild(t)
    <2>1. at[t] = "admit" /\ at'[t] = "building"
        BY <1>1, <1>5 DEF StartBuild, Go
    <2>2. AppLeft(t)' = 6
        <3>1. appPc'[t] = "context"
            BY <1>5, HandsOver DEF StartBuild
        <3>2. QED
            BY <1>3, <3>1, Zenon DEF AppLeftRight
    <2>3. QED
        BY <2>1, <2>2 DEF SessionLeft
<1>6. CASE StartRun(t) \/ BuildDone(t)
    <2>1. at[t] \in {"admit", "building"} /\ at'[t] = "running"
        BY <1>1, <1>6 DEF StartRun, BuildDone, Go
    <2>2. AppLeft(t)' = 5
        <3>1. appPc'[t] = "lock to run"
            BY <1>6, HandsOver DEF StartRun, BuildDone
        <3>2. QED
            BY <1>3, <3>1, Zenon DEF AppLeftRight
    <2>3. QED
        BY <1>2, <2>1, <2>2 DEF SessionLeft
<1>7. CASE BuildDrifts(t) \/ RunFails(t)
    <2>1. at[t] \in {"building", "running"} /\ at'[t] = "failing"
        BY <1>1, <1>7 DEF BuildDrifts, RunFails, Go
    <2>2. AppLeft(t)' = 4
        <3>1. appPc'[t] = "lock to close"
            BY <1>7, HandsOver DEF BuildDrifts, RunFails
        <3>2. QED
            BY <1>3, <3>1, Zenon DEF AppLeftRight
    <2>3. QED
        BY <1>2, <2>1, <2>2 DEF SessionLeft
<1>8. CASE BuildFails(t) \/ Publish(t) \/ CloseDone(t) \/ CloseFails(t)
    <2>1. at[t] \in {"building", "running", "failing", "closing"} /\ at'[t] = "outside"
        BY <1>1, <1>8 DEF BuildFails, Publish, CloseDone, CloseFails, Leave, Return, Go
    <2>2. QED
        BY <1>2, <2>1 DEF SessionLeft
<1>9. CASE App!Steps(t) /\ UNCHANGED sessionVars
    <2>1. AppLeft(t)' < AppLeft(t)
        <3>1. Safe!ApplicationAssumption
            BY SessionAssumption DEF Safe!ApplicationAssumption
        <3>2. Safe!Steps(t) /\ Safe!TypeOK
            BY <1>9, SameApplication DEF Safe!IInv
        <3>3. Safe!StepsFrom(appPc'[t]) < Safe!StepsFrom(appPc[t])
            BY <3>1, <3>2, Safe!StepLowers
        <3>4. QED
            BY <3>3 DEF AppLeft, Safe!StepsLeft
    <2>2. at[t] \in {"building", "running", "failing", "closing"} /\ at'[t] = at[t]
        <3>1. appPc[t] # "idle"
            BY <1>9, OneMoves
        <3>2. QED
            BY <1>9, <3>1 DEF SessionInv, SessionTypes, Exclusive, Places, sessionVars
    <2>3. AppLeft(t) \in 0 .. 6 /\ AppLeft(t)' \in 0 .. 6
        BY <1>2, <1>3, Zenon DEF AppLeftRight
    <2>4. QED
        BY <2>1, <2>2, <2>3 DEF SessionLeft
<1>10. QED
    BY <1>4, <1>5, <1>6, <1>7, <1>8, <1>9 DEF Steps

\* Nothing another thread does in its call changes where t is in its own.
LEMMA OthersStay ==
    ASSUME Safe!IInv, SessionInv, NEW u \in Threads, Call(u) \/ Steps(u), NEW t \in Threads \ {u}
    PROVE  at'[t] = at[t] /\ appPc'[t] = appPc[t]
<1>1. DOMAIN at = Threads
    BY DEF SessionInv, SessionTypes
<1>2. CASE App!Steps(u) /\ UNCHANGED sessionVars
    BY <1>2, OneMoves DEF sessionVars
<1>3. CASE \/ Call(u) \/ RefuseClosed(u) \/ RefuseLimit(u) \/ RefuseInput(u)
           \/ BuildFails(u) \/ Publish(u) \/ CloseDone(u) \/ CloseFails(u)
    BY <1>1, <1>3, HandsOver
       DEF Call, CallRun, Busy, CallClose, RefuseClosed, RefuseLimit, RefuseInput, BuildFails,
           Publish, CloseDone, CloseFails, Leave, Return, Go, appVars
<1>4. CASE StartBuild(u) \/ StartRun(u) \/ BuildDone(u) \/ BuildDrifts(u) \/ RunFails(u)
    BY <1>1, <1>4, HandsOver DEF StartBuild, StartRun, BuildDone, BuildDrifts, RunFails, Go
<1>5. QED
    BY <1>2, <1>3, <1>4 DEF Steps

\* The provable part of CallReturns: a session call, and with it the session lock, is over
\* after at most 19 steps of its thread, through build, run and the cleanup behind a failure;
\* nothing that other threads or the world do adds to them, and nothing but a new call does.
THEOREM SessionCallsAreBounded ==
    Spec => /\ []\A t \in Threads :
                    /\ SessionLeft(t) \in 0 .. 19
                    /\ SessionLeft(t) = 0 <=> at[t] = "outside"
                    /\ session = t => SessionLeft(t) # 0
            /\ [][\A t \in Threads : Steps(t) => SessionLeft(t)' < SessionLeft(t)]_vars
            /\ [][\A t \in Threads : SessionLeft(t)' > SessionLeft(t) => Call(t)]_vars
<1> DEFINE Bounded == \A t \in Threads :
               /\ SessionLeft(t) \in 0 .. 19
               /\ SessionLeft(t) = 0 <=> at[t] = "outside"
               /\ session = t => SessionLeft(t) # 0
           Lowered == \A t \in Threads : Steps(t) => SessionLeft(t)' < SessionLeft(t)
           Raised  == \A t \in Threads : SessionLeft(t)' > SessionLeft(t) => Call(t)
<1>1. Safe!IInv /\ SessionInv => Bounded
    BY SessionLeftType DEF SessionInv, Exclusive
<1>2. Safe!IInv /\ SessionInv /\ [Next]_vars => [Lowered]_vars
    BY NextSession, SessionLowers
<1>3. Safe!IInv /\ SessionInv /\ [Next]_vars => [Raised]_vars
    <2> SUFFICES ASSUME Safe!IInv, SessionInv, Next, NEW t \in Threads, ~Call(t)
                 PROVE  ~(SessionLeft(t)' > SessionLeft(t))
        OBVIOUS
    <2>1. Bounded /\ Bounded'
        <3>1. Safe!IInv' /\ SessionInv'
            BY NextSession
        <3>2. QED
            BY <1>1, <3>1, PTL
    <2>2. SessionLeft(t) \in Int /\ SessionLeft(t)' \in Int
        BY <2>1
    <2>3. CASE at'[t] = at[t] /\ appPc'[t] = appPc[t]
        <3>1. SessionLeft(t)' = SessionLeft(t)
            BY <2>3 DEF SessionLeft, AppLeft, Safe!StepsLeft
        <3>2. QED
            BY <2>2, <3>1
    <2>4. CASE Steps(t)
        <3>1. SessionLeft(t)' < SessionLeft(t)
            BY <2>4, NextSession, SessionLowers
        <3>2. QED
            BY <2>2, <3>1
    <2>5. CASE App!World /\ UNCHANGED sessionVars
        BY <2>3, <2>5 DEF App!World, App!ContainerExits, App!DirectoryVanishes, App!callVars, sessionVars
    <2>6. CASE \E u \in Threads \ {t} : Call(u) \/ Steps(u)
        BY <2>3, <2>6, OthersStay
    <2>7. QED
        BY <2>4, <2>5, <2>6 DEF Next
<1>4. QED
    BY <1>1, <1>2, <1>3, Keeps, NextSession, PTL DEF Spec

==============================
