--------------------------- MODULE ConsoleProofs ----------------------------
(***************************************************************************)
(* Safety of the two consoles and of their client.  A run command prints   *)
(* everything or nothing, for any number of requests; a conversion gives a *)
(* graph only when nothing of it is left; and both together, called by the *)
(* consumer any number of times, leave nothing behind a call that was      *)
(* accepted and never have two containers.                                 *)
(*                                                                         *)
(* What the application of a command guarantees is taken from              *)
(* ContainerApplicationProofs.                                             *)
(***************************************************************************)
EXTENDS SourceConsumer, SequenceTheorems, FiniteSetTheorems, TLAPS

Safe == INSTANCE ContainerApplicationProofs

CommandTypes ==
    /\ at \in {"start", "building", "running", "leaving", "failing", "printed", "rejected",
               "build failed", "runtime failed", "cleanup_failed"}
    /\ requests \in Nat \ {0} /\ results \in Seq(Nat)

\* Result i came from container i.
Numbered == \A i \in DOMAIN results : results[i] = i

Building ==
    /\ results = <<>> /\ started = 0 /\ containers = {}
    /\ \/ handle = "none" /\ pc[Main] \in {"context", "build", "inspect", "image", "list", "files"}
       \/ handle = "built" /\ pc[Main] = "idle" /\ result[Main] = "built"
       \/ handle = "failed" /\ pc[Main] = "idle" /\ result[Main] = "build failed"

\* One container per request so far, and none of them is left when another is asked for.
Running ==
    /\ handle = "built" /\ Numbered /\ Len(results) < requests
    /\ \/ /\ pc[Main] \in {"lock to run", "verify", "exec"}
          /\ started = Len(results) /\ containers = {}
       \/ /\ pc[Main] \in {"await", "kill"}
          /\ started = Len(results) + 1 /\ containers \subseteq {started}
       \/ /\ pc[Main] = "idle"
          /\ containers \subseteq {started}
          /\ result[Main] = "outputs" => started = Len(results) + 1 /\ containers = {}

Closing == handle = "built" /\ pc[Main] \in {"idle", "lock to close", "image", "list", "files"}

Complete == Numbered /\ Len(results) = requests /\ started = requests /\ containers = {}

Ended ==
    /\ pc[Main] = "idle"
    /\ at = "printed" => Complete
    /\ at \in {"printed", "runtime failed", "rejected"} => ~tag /\ ~directory

CommandInv ==
    /\ CommandTypes
    /\ started \in Nat /\ containers \subseteq {started}
    /\ at = "start" => /\ pc[Main] = "idle" /\ handle = "none"
                       /\ results = <<>> /\ started = 0 /\ containers = {}
    /\ at = "building" => Building
    /\ at = "running" => Running
    /\ at \in {"leaving", "failing"} => Closing
    /\ at = "leaving" => Complete
    /\ at \in {"printed", "rejected", "build failed", "runtime failed", "cleanup_failed"} => Ended

-----------------------------------------------------------------------------
(* The application of a command *)

\* The command's application is the one ContainerApplicationProofs is about.
LEMMA SameApplication ==
    /\ App!Init <=> Safe!Init
    /\ \A t : App!Steps(t) <=> Safe!Steps(t)
    /\ [App!Next]_appVars => [Safe!Next]_(Safe!vars)
<1>1. App!Init <=> Safe!Init
    BY DEF App!Init, Safe!Init
<1>2. ASSUME NEW t PROVE App!CallBuild(t) <=> Safe!CallBuild(t)
    BY DEF App!CallBuild, Safe!CallBuild, App!Go, Safe!Go, App!Return, Safe!Return, App!Completes,
           Safe!Completes, App!Raises, Safe!Raises, App!callVars, Safe!callVars, App!stateVars,
           Safe!stateVars, App!worldVars, Safe!worldVars, App!BuildSteps, Safe!BuildSteps,
           App!RunSteps, Safe!RunSteps
<1>3. ASSUME NEW t PROVE App!CallRun(t) <=> Safe!CallRun(t)
    BY DEF App!CallRun, Safe!CallRun, App!Cardinality, Safe!Cardinality, App!Go, Safe!Go, App!Return,
           Safe!Return, App!Completes, Safe!Completes, App!Raises, Safe!Raises, App!callVars,
           Safe!callVars, App!stateVars, Safe!stateVars, App!worldVars, Safe!worldVars,
           App!BuildSteps, Safe!BuildSteps, App!RunSteps, Safe!RunSteps
<1>4. ASSUME NEW t PROVE App!CallClose(t) <=> Safe!CallClose(t)
    BY DEF App!CallClose, Safe!CallClose, App!Go, Safe!Go, App!Return, Safe!Return, App!Completes,
           Safe!Completes, App!Raises, Safe!Raises, App!callVars, Safe!callVars, App!stateVars,
           Safe!stateVars, App!worldVars, Safe!worldVars, App!BuildSteps, Safe!BuildSteps,
           App!RunSteps, Safe!RunSteps
<1>5. ASSUME NEW t PROVE App!Build(t) <=> Safe!Build(t)
    BY DEF App!Build, Safe!Build, App!ContextFails, Safe!ContextFails, App!ContextMade,
           Safe!ContextMade, App!ImageBuilt, Safe!ImageBuilt, App!ImageBuildFails,
           Safe!ImageBuildFails, App!Register, Safe!Register, App!InspectFails, Safe!InspectFails,
           App!Go, Safe!Go, App!Return, Safe!Return, App!Completes, Safe!Completes, App!Raises,
           Safe!Raises, App!callVars, Safe!callVars, App!stateVars, Safe!stateVars, App!worldVars,
           Safe!worldVars, App!BuildSteps, Safe!BuildSteps, App!RunSteps, Safe!RunSteps
<1>6. ASSUME NEW t PROVE App!Run(t) <=> Safe!Run(t)
    BY DEF App!Run, Safe!Run, App!RejectClosed, Safe!RejectClosed, App!EnterRun, Safe!EnterRun,
           App!RejectRun, Safe!RejectRun, App!Verified, Safe!Verified, App!StartContainer,
           Safe!StartContainer, App!StartFails, Safe!StartFails, App!Outputs, Safe!Outputs,
           App!RunFails, Safe!RunFails, App!RemoveContainer, Safe!RemoveContainer, App!LeaveRun,
           Safe!LeaveRun, App!Go, Safe!Go, App!Return, Safe!Return, App!Completes, Safe!Completes,
           App!Raises, Safe!Raises, App!callVars, Safe!callVars, App!stateVars, Safe!stateVars,
           App!worldVars, Safe!worldVars, App!BuildSteps, Safe!BuildSteps, App!RunSteps, Safe!RunSteps
<1>7. ASSUME NEW t PROVE App!Close(t) <=> Safe!Close(t)
    BY DEF App!Close, Safe!Close, App!AlreadyClosed, Safe!AlreadyClosed, App!EnterClose,
           Safe!EnterClose, App!RemoveImage, Safe!RemoveImage, App!RemoveImageRefused,
           Safe!RemoveImageRefused, App!RemoveImageRaises, Safe!RemoveImageRaises,
           App!ImageNotListed, Safe!ImageNotListed, App!ImageListFails, Safe!ImageListFails,
           App!RemoveDirectory, Safe!RemoveDirectory, App!RemoveDirectoryFails,
           Safe!RemoveDirectoryFails, App!LeaveCleanup, Safe!LeaveCleanup, App!Go, Safe!Go,
           App!Return, Safe!Return, App!Completes, Safe!Completes, App!Raises, Safe!Raises,
           App!callVars, Safe!callVars, App!stateVars, Safe!stateVars, App!worldVars, Safe!worldVars,
           App!BuildSteps, Safe!BuildSteps, App!RunSteps, Safe!RunSteps
<1>8. App!World <=> Safe!World
    BY DEF App!World, Safe!World, App!ContainerExits, Safe!ContainerExits, App!DirectoryVanishes,
           Safe!DirectoryVanishes, App!Go, Safe!Go, App!Return, Safe!Return, App!Completes,
           Safe!Completes, App!Raises, Safe!Raises, App!callVars, Safe!callVars, App!stateVars,
           Safe!stateVars, App!worldVars, Safe!worldVars, App!BuildSteps, Safe!BuildSteps,
           App!RunSteps, Safe!RunSteps
<1>9. UNCHANGED appVars => UNCHANGED Safe!vars
    BY DEF appVars, Safe!vars, Safe!callVars, Safe!stateVars, Safe!worldVars
<1>10. QED
    BY <1>1, <1>2, <1>3, <1>4, <1>5, <1>6, <1>7, <1>8, <1>9
       DEF App!Next, Safe!Next, App!Call, Safe!Call, App!Steps, Safe!Steps

\* So it keeps the invariant of the application.
LEMMA ApplicationSafe ==
    /\ App!Init => Safe!IInv
    /\ Safe!IInv /\ [App!Next]_appVars => Safe!IInv'
<1>1. Safe!ApplicationAssumption
    BY BatchAssumption DEF Threads, MaxRuns, Safe!ApplicationAssumption
<1>2. Safe!Init => Safe!IInv
    BY <1>1, Safe!InitIInv DEF Safe!InitIInv
<1>3. Safe!IInv /\ [Safe!Next]_(Safe!vars) => Safe!IInv'
    BY <1>1, Safe!NextIInv DEF Safe!NextIInv
<1>4. QED
    BY <1>2, <1>3, SameApplication

\* A build, with its cleanup if it fails, ends with a handle or as a failure.
LEMMA BuildStep ==
    ASSUME Safe!IInv, App!Steps(Main), handle = "none",
           pc[Main] \in {"context", "build", "inspect", "image", "list", "files"}
    PROVE  /\ \/ handle' = "none" /\ pc'[Main] \in {"context", "build", "inspect", "image", "list", "files"}
              \/ handle' = "built" /\ pc'[Main] = "idle" /\ result'[Main] = "built"
              \/ handle' = "failed" /\ pc'[Main] = "idle" /\ result'[Main] = "build failed"
           /\ started' = started /\ containers' = containers
<1>1. /\ DOMAIN pc = {Main} /\ DOMAIN result = {Main}
    BY DEF Safe!IInv, Safe!TypeOK, Threads
<1>2. QED
    BY <1>1
       DEF App!Steps, App!Build, App!Run, App!Close, App!ContextFails, App!ContextMade,
           App!ImageBuilt, App!ImageBuildFails, App!Register, App!InspectFails, App!RejectClosed,
           App!EnterRun, App!RejectRun, App!Verified, App!StartContainer, App!StartFails,
           App!Outputs, App!RunFails, App!RemoveContainer, App!LeaveRun, App!AlreadyClosed,
           App!EnterClose, App!RemoveImage, App!RemoveImageRefused, App!RemoveImageRaises,
           App!ImageNotListed, App!ImageListFails, App!RemoveDirectory, App!RemoveDirectoryFails,
           App!LeaveCleanup, App!Go, App!Return, App!stateVars, App!worldVars, App!Completes

\* A run starts one container, and returns outputs only when that container is gone.
LEMMA RunStep ==
    ASSUME Safe!IInv, App!Steps(Main), handle = "built",
           pc[Main] \in {"lock to run", "verify", "exec", "await", "kill"}
    PROVE  /\ handle' = "built"
           /\ \/ /\ pc[Main] \in {"lock to run", "verify", "exec"}
                 /\ pc'[Main] \in {"verify", "exec"}
                 /\ started' = started /\ containers' = containers
              \/ /\ pc[Main] = "exec" /\ pc'[Main] \in {"await", "kill"}
                 /\ started' = started + 1
                 /\ containers' \subseteq containers \union {started + 1}
              \/ /\ pc[Main] = "await" /\ pc'[Main] = "kill"
                 /\ started' = started /\ containers' = containers
              \/ /\ pc'[Main] = "idle"
                 /\ started' = started /\ containers' \subseteq containers
                 /\ result'[Main] = "outputs" => pc[Main] = "await" /\ started \notin containers
<1>1. /\ DOMAIN pc = {Main} /\ DOMAIN result = {Main}
    BY DEF Safe!IInv, Safe!TypeOK, Threads
<1>2. QED
    BY <1>1
       DEF App!Steps, App!Build, App!Run, App!Close, App!ContextFails, App!ContextMade,
           App!ImageBuilt, App!ImageBuildFails, App!Register, App!InspectFails, App!RejectClosed,
           App!EnterRun, App!RejectRun, App!Verified, App!StartContainer, App!StartFails,
           App!Outputs, App!RunFails, App!RemoveContainer, App!LeaveRun, App!AlreadyClosed,
           App!EnterClose, App!RemoveImage, App!RemoveImageRefused, App!RemoveImageRaises,
           App!ImageNotListed, App!ImageListFails, App!RemoveDirectory, App!RemoveDirectoryFails,
           App!LeaveCleanup, App!Go, App!Return, App!stateVars, App!worldVars, App!Completes

\* A close starts no container and keeps the handle.
LEMMA CloseStep ==
    ASSUME Safe!IInv, App!Steps(Main), handle = "built",
           pc[Main] \in {"lock to close", "image", "list", "files"}
    PROVE  /\ handle' = "built" /\ pc'[Main] \in {"idle", "image", "list", "files"}
           /\ started' = started /\ containers' = containers
<1>1. /\ DOMAIN pc = {Main} /\ DOMAIN result = {Main}
    BY DEF Safe!IInv, Safe!TypeOK, Threads
<1>2. QED
    BY <1>1
       DEF App!Steps, App!Build, App!Run, App!Close, App!ContextFails, App!ContextMade,
           App!ImageBuilt, App!ImageBuildFails, App!Register, App!InspectFails, App!RejectClosed,
           App!EnterRun, App!RejectRun, App!Verified, App!StartContainer, App!StartFails,
           App!Outputs, App!RunFails, App!RemoveContainer, App!LeaveRun, App!AlreadyClosed,
           App!EnterClose, App!RemoveImage, App!RemoveImageRefused, App!RemoveImageRaises,
           App!ImageNotListed, App!ImageListFails, App!RemoveDirectory, App!RemoveDirectoryFails,
           App!LeaveCleanup, App!Go, App!Return, App!stateVars, App!worldVars, App!Completes

\* What the command changes of the application when it waits for a call.
LEMMA HandsOver ==
    ASSUME Safe!IInv
    PROVE  /\ App!CallBuild(Main) => /\ handle = "none" /\ pc'[Main] = "context"
           /\ App!CallRun(Main) => handle = "built" /\ pc'[Main] = "lock to run"
           /\ App!CallClose(Main) => handle = "built" /\ pc'[Main] = "lock to close"
           /\ App!CallBuild(Main) \/ App!CallRun(Main) \/ App!CallClose(Main) =>
                  pc[Main] = "idle" /\ UNCHANGED <<result, handle, started, containers>>
<1>1. DOMAIN pc = {Main}
    BY DEF Safe!IInv, Safe!TypeOK, Threads
<1>2. QED
    BY <1>1 DEF App!CallBuild, App!CallRun, App!CallClose, App!Go, App!stateVars, App!worldVars

-----------------------------------------------------------------------------
(* The invariant of the command *)

LEMMA InitCommand == Init => CommandInv
<1> SUFFICES ASSUME Init PROVE CommandInv
    OBVIOUS
<1>1. requests \in Nat \ {0} /\ pc[Main] = "idle"
    BY BatchAssumption DEF Init, App!Init, Threads
<1>2. CommandTypes
    BY <1>1 DEF Init, CommandTypes
<1>3. QED
    BY <1>1, <1>2 DEF Init, App!Init, CommandInv

\* The application only moves while the command waits for it.
LEMMA ApplicationStep ==
    ASSUME CommandInv, Safe!IInv, App!Steps(Main), UNCHANGED <<command, requests, at, results>>
    PROVE  CommandInv'
<1>1. pc[Main] # "idle"
    BY DEF App!Steps, App!Build, App!Run, App!Close, App!ContextFails, App!ContextMade,
           App!ImageBuilt, App!ImageBuildFails, App!Register, App!InspectFails, App!RejectClosed,
           App!EnterRun, App!RejectRun, App!Verified, App!StartContainer, App!StartFails,
           App!Outputs, App!RunFails, App!RemoveContainer, App!LeaveRun, App!AlreadyClosed,
           App!EnterClose, App!RemoveImage, App!RemoveImageRefused, App!RemoveImageRaises,
           App!ImageNotListed, App!ImageListFails, App!RemoveDirectory, App!RemoveDirectoryFails,
           App!LeaveCleanup, App!Go, App!Return
<1>2. CommandTypes' /\ at \in {"building", "running", "leaving", "failing"}
    BY <1>1 DEF CommandInv, CommandTypes, Ended
<1>3. CASE at = "building"
    <2>1. handle = "none" /\ pc[Main] \in {"context", "build", "inspect", "image", "list", "files"}
        BY <1>1, <1>3 DEF CommandInv, Building
    <2>2. Building'
        BY <1>3, <2>1, BuildStep DEF CommandInv, Building
    <2>3. started' \in Nat /\ containers' \subseteq {started'}
        BY <2>1, BuildStep DEF CommandInv
    <2>4. QED
        BY <1>2, <1>3, <2>2, <2>3 DEF CommandInv
<1>4. CASE at = "running"
    <2>1. /\ handle = "built" /\ Numbered /\ Len(results) < requests
          /\ pc[Main] \in {"lock to run", "verify", "exec", "await", "kill"}
        BY <1>1, <1>4 DEF CommandInv, Running
    <2>2. /\ pc[Main] \in {"lock to run", "verify", "exec"} =>
                 started = Len(results) /\ containers = {}
          /\ pc[Main] \in {"await", "kill"} =>
                 started = Len(results) + 1 /\ containers \subseteq {started}
        BY <1>4 DEF CommandInv, Running
    <2>3. handle' = "built" /\ Numbered' /\ Len(results') < requests'
        BY <2>1, RunStep DEF Numbered
    <2>4. started \in Nat /\ containers \subseteq {started}
        BY DEF CommandInv
    <2>5. CASE /\ pc[Main] \in {"lock to run", "verify", "exec"}
               /\ pc'[Main] \in {"verify", "exec"}
               /\ started' = started /\ containers' = containers
        <3>1. Running'
            BY <2>2, <2>3, <2>5 DEF Running
        <3>2. QED
            BY <1>2, <1>4, <2>4, <2>5, <3>1 DEF CommandInv
    <2>6. CASE /\ pc[Main] = "exec" /\ pc'[Main] \in {"await", "kill"}
               /\ started' = started + 1
               /\ containers' \subseteq containers \union {started + 1}
        <3>1. started' = Len(results) + 1 /\ containers' \subseteq {started'} /\ started' \in Nat
            BY <2>2, <2>4, <2>6
        <3>2. Running'
            BY <2>3, <2>6, <3>1 DEF Running
        <3>3. QED
            BY <1>2, <1>4, <3>1, <3>2 DEF CommandInv
    <2>7. CASE /\ pc[Main] = "await" /\ pc'[Main] = "kill"
               /\ started' = started /\ containers' = containers
        <3>1. Running'
            BY <2>2, <2>3, <2>7 DEF Running
        <3>2. QED
            BY <1>2, <1>4, <2>4, <2>7, <3>1 DEF CommandInv
    <2>8. CASE /\ pc'[Main] = "idle"
               /\ started' = started /\ containers' \subseteq containers
               /\ result'[Main] = "outputs" => pc[Main] = "await" /\ started \notin containers
        <3>1. containers' \subseteq {started'}
            BY <2>4, <2>8
        <3>2. ASSUME result'[Main] = "outputs"
              PROVE  started' = Len(results) + 1 /\ containers' = {}
            BY <2>2, <2>8, <3>2
        <3>3. Running'
            BY <2>3, <2>8, <3>1, <3>2 DEF Running
        <3>4. QED
            BY <1>2, <1>4, <2>4, <2>8, <3>1, <3>3 DEF CommandInv
    <2>9. QED
        BY <2>1, <2>5, <2>6, <2>7, <2>8, RunStep
<1>5. CASE at \in {"leaving", "failing"}
    <2>1. handle = "built" /\ pc[Main] \in {"lock to close", "image", "list", "files"}
        BY <1>1, <1>5 DEF CommandInv, Closing
    <2>2. Closing' /\ started' = started /\ containers' = containers
        BY <2>1, CloseStep DEF Closing
    <2>3. at = "leaving" => Complete'
        BY <2>2 DEF CommandInv, Complete, Numbered
    <2>4. QED
        BY <1>2, <1>5, <2>2, <2>3 DEF CommandInv
<1>6. QED
    BY <1>2, <1>3, <1>4, <1>5

LEMMA WorldStep ==
    ASSUME CommandInv, App!World, UNCHANGED <<command, requests, at, results>>
    PROVE  CommandInv'
<1>1. /\ UNCHANGED <<pc, result, handle, started, tag>>
      /\ containers' \subseteq containers /\ (directory' => directory)
    BY DEF App!World, App!ContainerExits, App!DirectoryVanishes, App!callVars, App!stateVars
<1>2. QED
    BY <1>1 DEF CommandInv, CommandTypes, Building, Running, Closing, Complete, Numbered, Ended

\* A step of the command itself.
LEMMA CommandStep ==
    ASSUME CommandInv, Safe!IInv, Command
    PROVE  CommandInv'
<1> USE DEF Go, Back
<1>1. CommandTypes /\ started \in Nat /\ containers \subseteq {started} /\ requests' = requests
    BY DEF CommandInv, Command, StartBuild, BuildFails, StartRun, BuildDrifts, NextRequest,
           LastRequest, Abort, CloseDone, CloseFails
<1>2. CASE StartBuild
    <2>1. /\ at' = "building" /\ results' = results /\ results = <<>> /\ handle' = "none"
          /\ pc'[Main] = "context" /\ started' = 0 /\ containers' = {}
        BY <1>2, HandsOver DEF StartBuild, CommandInv
    <2>2. CommandTypes' /\ Building'
        BY <1>1, <2>1 DEF CommandTypes, Building
    <2>3. QED
        BY <2>1, <2>2 DEF CommandInv
<1>3. CASE StartRun
    <2>1. /\ at' = "running" /\ results' = results /\ handle' = "built"
          /\ pc'[Main] = "lock to run" /\ started' = 0 /\ containers' = {}
        BY <1>3, HandsOver DEF StartRun, CommandInv, Building
    <2>2. Len(results) = 0 /\ DOMAIN results = {}
        <3>1. Len(<<>>) = 0 /\ DOMAIN <<>> = {}
            OBVIOUS
        <3>2. results = <<>>
            BY <1>3 DEF StartRun, CommandInv, Building
        <3>3. QED
            BY <3>1, <3>2, Zenon
    <2>3. CommandTypes' /\ Running'
        <3>1. requests' \in Nat \ {0} /\ CommandTypes'
            BY <1>1, <2>1 DEF CommandTypes
        <3>2. 0 < requests'
            BY <3>1
        <3>3. Len(results') = 0 /\ DOMAIN results' = {}
            BY <2>1, <2>2, Zenon
        <3>4. Numbered' /\ started' = Len(results') /\ Len(results') < requests'
            BY <2>1, <3>2, <3>3 DEF Numbered
        <3>5. QED
            BY <2>1, <3>1, <3>4 DEF Running
    <2>4. QED
        BY <2>1, <2>3 DEF CommandInv
<1>4. CASE BuildFails
    <2>1. at' = "build failed" /\ UNCHANGED <<results, appVars>> /\ pc[Main] = "idle"
        BY <1>4 DEF BuildFails
    <2>2. CommandTypes' /\ Ended'
        BY <1>1, <2>1 DEF CommandTypes, Ended, appVars
    <2>3. QED
        BY <1>1, <2>1, <2>2 DEF CommandInv, appVars
<1>5. CASE BuildDrifts \/ Abort
    <2>1. /\ at' = "failing" /\ results' = results /\ handle' = "built"
          /\ pc'[Main] = "lock to close" /\ UNCHANGED <<started, containers>>
        BY <1>5, HandsOver DEF BuildDrifts, Abort
    <2>2. CommandTypes' /\ Closing'
        BY <1>1, <2>1 DEF CommandTypes, Closing
    <2>3. QED
        BY <1>1, <2>1, <2>2 DEF CommandInv
<1>6. CASE NextRequest \/ LastRequest
    <2>1. /\ at = "running" /\ pc[Main] = "idle" /\ result[Main] = "outputs"
          /\ results' = Append(results, started)
        BY <1>6 DEF NextRequest, LastRequest, Keep
    <2>2. Numbered /\ Len(results) < requests /\ started = Len(results) + 1 /\ containers = {}
        BY <2>1 DEF CommandInv, Running
    <2>3. /\ results' \in Seq(Nat) /\ Len(results') = started /\ Numbered'
          /\ Len(results') = Len(results) + 1
        BY <1>1, <2>1, <2>2, AppendProperties DEF CommandTypes, Numbered
    <2>4. CASE NextRequest
        <3>1. /\ at' = "running" /\ handle' = "built" /\ pc'[Main] = "lock to run"
              /\ started' = started /\ containers' = {} /\ Len(results) + 1 < requests
            BY <2>2, <2>4, HandsOver DEF NextRequest
        <3>2. CommandTypes' /\ Running'
            BY <1>1, <2>3, <3>1 DEF CommandTypes, Running
        <3>3. QED
            BY <1>1, <3>1, <3>2 DEF CommandInv
    <2>5. CASE LastRequest
        <3>1. /\ at' = "leaving" /\ handle' = "built" /\ pc'[Main] = "lock to close"
              /\ started' = started /\ containers' = {} /\ Len(results) + 1 = requests
            BY <2>2, <2>5, HandsOver DEF LastRequest
        <3>2. CommandTypes' /\ Closing' /\ Complete'
            BY <1>1, <2>3, <3>1 DEF CommandTypes, Closing, Complete
        <3>3. QED
            BY <1>1, <3>1, <3>2 DEF CommandInv
    <2>6. QED
        BY <1>6, <2>4, <2>5
<1>7. CASE CloseDone
    <2>1. /\ at \in {"leaving", "failing"} /\ at' \in {"printed", "rejected", "runtime failed"}
          /\ at' = "printed" => at = "leaving"
          /\ pc[Main] = "idle" /\ result[Main] = "released" /\ UNCHANGED <<results, appVars>>
        BY <1>7 DEF CloseDone
    <2>2. ~tag /\ ~directory
        BY <2>1 DEF Safe!IInv, Safe!Truthful, Threads
    <2>3. CommandTypes' /\ Ended'
        BY <1>1, <2>1, <2>2 DEF CommandInv, CommandTypes, Ended, Complete, Numbered, appVars
    <2>4. QED
        BY <1>1, <2>1, <2>3 DEF CommandInv, appVars
<1>8. CASE CloseFails
    <2>1. at' = "cleanup_failed" /\ pc[Main] = "idle" /\ UNCHANGED <<results, appVars>>
        BY <1>8 DEF CloseFails
    <2>2. CommandTypes' /\ Ended'
        BY <1>1, <2>1 DEF CommandTypes, Ended, appVars
    <2>3. QED
        BY <1>1, <2>1, <2>2 DEF CommandInv, appVars
<1>9. QED
    BY <1>2, <1>3, <1>4, <1>5, <1>6, <1>7, <1>8 DEF Command

LEMMA NextCommand == Safe!IInv /\ CommandInv /\ [Next]_vars => Safe!IInv' /\ CommandInv'
<1> SUFFICES ASSUME Safe!IInv, CommandInv, [Next]_vars PROVE Safe!IInv' /\ CommandInv'
    OBVIOUS
<1>1. [App!Next]_appVars
    BY DEF Next, vars, Command, Application, StartBuild, BuildFails, StartRun, BuildDrifts,
           NextRequest, LastRequest, Abort, CloseDone, CloseFails, App!Next, App!Call, Threads
<1>2. Safe!IInv'
    BY <1>1, ApplicationSafe
<1>3. CASE Command
    BY <1>2, <1>3, CommandStep
<1>4. CASE Application
    BY <1>2, <1>4, ApplicationStep DEF Application
<1>5. CASE App!World /\ UNCHANGED <<command, requests, at, results>>
    BY <1>2, <1>5, WorldStep
<1>6. CASE UNCHANGED vars
    BY <1>2, <1>6 DEF vars, appVars, CommandInv, CommandTypes, Building, Running, Closing, Complete,
                      Numbered, Ended
<1>7. QED
    BY <1>3, <1>4, <1>5, <1>6 DEF Next

LEMMA Keeps == Spec => [](Safe!IInv /\ CommandInv)
<1>1. Init => Safe!IInv /\ CommandInv
    BY ApplicationSafe, InitCommand DEF Init
<1>2. QED
    BY <1>1, NextCommand, PTL DEF Spec

-----------------------------------------------------------------------------
\* Whatever the number of requests, what is printed has a result for each, from a container
\* of its own and in order, and nothing of the run is left.
THEOREM PrintsAllOrNothing == Spec => []AllOrNothing
<1>1. CommandInv => AllOrNothing
    <2> SUFFICES ASSUME CommandInv, at = "printed"
                 PROVE  /\ results = [i \in 1 .. requests |-> i] /\ started = requests
                        /\ containers = {} /\ ~tag /\ ~directory
        BY DEF AllOrNothing
    <2>1. Complete /\ results \in Seq(Nat) /\ ~tag /\ ~directory
        BY DEF CommandInv, CommandTypes, Ended
    <2>2. DOMAIN results = 1 .. requests /\ \A i \in 1 .. requests : results[i] = i
        BY <2>1 DEF Complete, Numbered
    <2>3. results = [i \in DOMAIN results |-> results[i]]
        BY <2>1
    <2>4. QED
        BY <2>1, <2>2, <2>3 DEF Complete
<1>2. QED
    BY Keeps, <1>1, PTL

\* A command that failed without cleanup_failed left neither tag nor directory.
THEOREM FailsClean == Spec => []FailureIsClean
<1>1. CommandInv => FailureIsClean
    BY DEF CommandInv, Ended, FailureIsClean
<1>2. QED
    BY Keeps, <1>1, PTL

\* A command never has two containers, however many requests and however its runs fail.
THEOREM OneContainerAtMost == Spec => []OneContainer
<1>1. CommandInv => OneContainer
    <2> SUFFICES ASSUME CommandInv PROVE Cardinality(containers) <= 1
        BY DEF OneContainer
    <2>1. IsFiniteSet({started}) /\ Cardinality({started}) = 1
        BY FS_Singleton
    <2>2. containers \subseteq {started}
        BY DEF CommandInv
    <2>3. QED
        BY <2>1, <2>2, FS_Subset, FS_CardinalityType
<1>2. QED
    BY Keeps, <1>1, PTL

-----------------------------------------------------------------------------
(* Bounded work.  That a command ends needs fairness, which TLC looks at (CommandEnds); *)
(* what can be proved is that it has no way to go on for ever.                         *)

CallLeft == Safe!StepsLeft(Main)

\* No more steps than these are left of the command.
CommandLeft ==
    CASE at = "start"                   -> 6 * requests + 13
      [] at = "building"                -> 6 * requests + 6 + CallLeft
      [] at = "running"                 -> 6 * (requests - Len(results)) + CallLeft
      [] at \in {"leaving", "failing"} -> 1 + CallLeft
      [] OTHER                          -> 0

\* The steps the application has left when the command waits for it, and when it does not.
LEMMA CallLeftType ==
    ASSUME Safe!IInv
    PROVE  /\ CallLeft \in 0 .. 6
           /\ pc[Main] = "idle" <=> CallLeft = 0
           /\ pc[Main] = "context" => CallLeft = 6
           /\ pc[Main] \in {"idle", "lock to run", "verify", "exec", "await", "kill"} =>
                  CallLeft \in 0 .. 5
           /\ pc[Main] = "lock to run" => CallLeft = 5
           /\ pc[Main] \in {"idle", "lock to close", "image", "list", "files"} =>
                  CallLeft \in 0 .. 4
           /\ pc[Main] = "lock to close" => CallLeft = 4
<1>1. /\ Safe!StepsFrom("context") = 6
      /\ Safe!StepsFrom("build") = 5 /\ Safe!StepsFrom("lock to run") = 5
      /\ Safe!StepsFrom("inspect") = 4 /\ Safe!StepsFrom("verify") = 4
      /\ Safe!StepsFrom("lock to close") = 4
      /\ Safe!StepsFrom("image") = 3 /\ Safe!StepsFrom("exec") = 3
      /\ Safe!StepsFrom("list") = 2 /\ Safe!StepsFrom("await") = 2
      /\ Safe!StepsFrom("files") = 1 /\ Safe!StepsFrom("kill") = 1
      /\ Safe!StepsFrom("idle") = 0
    BY DEF Safe!StepsFrom
<1>2. CallLeft = Safe!StepsFrom(pc[Main])
    BY DEF CallLeft, Safe!StepsLeft
<1>3. pc[Main] \in {"idle", "context", "build", "inspect", "lock to run", "lock to close", "verify",
                    "exec", "await", "kill", "image", "list", "files"}
    BY DEF Safe!IInv, Safe!TypeOK, Safe!BuildSteps, Safe!Waiting, Safe!RunSteps,
           Safe!CleanupSteps, Threads
<1>4. /\ CallLeft \in {0, 1, 2, 3, 4, 5, 6}
      /\ pc[Main] = "idle" => CallLeft = 0
      /\ pc[Main] # "idle" => CallLeft \in {1, 2, 3, 4, 5, 6}
      /\ pc[Main] = "context" => CallLeft = 6
      /\ pc[Main] \in {"idle", "lock to run", "verify", "exec", "await", "kill"} =>
             CallLeft \in {0, 1, 2, 3, 4, 5}
      /\ pc[Main] = "lock to run" => CallLeft = 5
      /\ pc[Main] \in {"idle", "lock to close", "image", "list", "files"} =>
             CallLeft \in {0, 1, 2, 3, 4}
      /\ pc[Main] = "lock to close" => CallLeft = 4
    BY <1>1, <1>2, <1>3, Zenon
<1>5. \A n : /\ n \in {1, 2, 3, 4, 5, 6} => n # 0
             /\ n \in {0, 1, 2, 3, 4} => n \in 0 .. 4
             /\ n \in {0, 1, 2, 3, 4, 5} => n \in 0 .. 5
             /\ n \in {0, 1, 2, 3, 4, 5, 6} => n \in 0 .. 6
    OBVIOUS
<1>6. QED
    BY <1>4, <1>5, Zenon

LEMMA CallLeftRange == Safe!IInv => CallLeft \in 0 .. 6
BY CallLeftType

LEMMA CallLeftOnEntry ==
    Safe!IInv => /\ pc[Main] = "context" => CallLeft = 6
                 /\ pc[Main] = "lock to run" => CallLeft = 5
                 /\ pc[Main] = "lock to close" => CallLeft = 4
BY CallLeftType, Zenon

Ends == {"printed", "rejected", "build failed", "runtime failed", "cleanup_failed"}

LEMMA CommandLeftCases ==
    /\ at = "start" => CommandLeft = 6 * requests + 13
    /\ at = "building" => CommandLeft = 6 * requests + 6 + CallLeft
    /\ at = "running" => CommandLeft = 6 * (requests - Len(results)) + CallLeft
    /\ at \in {"leaving", "failing"} => CommandLeft = 1 + CallLeft
    /\ at \in Ends => CommandLeft = 0
<1>1. at \in Ends => at \notin {"start", "building", "running", "leaving", "failing"}
    BY Zenon DEF Ends
<1>2. QED
    BY <1>1 DEF CommandLeft

LEMMA CommandLeftType ==
    ASSUME CommandInv, Safe!IInv
    PROVE  CommandLeft \in 0 .. 6 * requests + 13 /\ (CommandLeft = 0 <=> at \in Ends)
<1>1. requests \in Nat \ {0} /\ Len(results) \in Nat
    BY LenProperties DEF CommandInv, CommandTypes
<1>2. CallLeft \in 0 .. 6
    BY CallLeftType
<1>3. at = "running" => Len(results) < requests
    BY DEF CommandInv, Running
<1>4. at \in {"start", "building", "running", "leaving", "failing"} => at \notin Ends
    BY Zenon DEF Ends
<1>5. at \in {"start", "building", "running", "leaving", "failing"} \/ at \in Ends
    BY Zenon DEF CommandInv, CommandTypes, Ends
<1>6. at = "leaving" \/ at = "failing" <=> at \in {"leaving", "failing"}
    OBVIOUS
<1>7. CASE at \in {"start", "building", "running", "leaving", "failing"}
    BY <1>1, <1>2, <1>3, <1>4, <1>6, <1>7, CommandLeftCases
<1>8. CASE at \in Ends
    BY <1>1, <1>8, CommandLeftCases
<1>9. QED
    BY <1>5, <1>7, <1>8

LEMMA CommandLeftInt ==
    ASSUME CommandInv, Safe!IInv
    PROVE  CommandLeft \in Int
<1>1. requests \in Nat
    BY DEF CommandInv, CommandTypes
<1>2. QED
    BY <1>1, CommandLeftType

\* A step of the application is one step less.
LEMMA ApplicationLowers ==
    ASSUME CommandInv, Safe!IInv, Application
    PROVE  CommandLeft' < CommandLeft
<1>1. CallLeft' < CallLeft
    <2>1. Safe!ApplicationAssumption
        BY BatchAssumption DEF Threads, MaxRuns, Safe!ApplicationAssumption
    <2>2. Safe!Steps(Main) /\ Safe!TypeOK /\ Main \in Threads
        BY SameApplication DEF Application, Safe!IInv, Threads
    <2>3. Safe!StepsFrom(pc'[Main]) < Safe!StepsFrom(pc[Main])
        BY <2>1, <2>2, Safe!StepLowers
    <2>4. QED
        BY <2>3 DEF CallLeft, Safe!StepsLeft
<1>2. CallLeft \in 0 .. 6 /\ CallLeft' \in 0 .. 6
    <2>1. [App!Next]_appVars
        BY DEF Application, App!Next, Threads
    <2>2. (Safe!IInv)'
        BY <2>1, ApplicationSafe
    <2>3. (CallLeft \in 0 .. 6)'
        BY <2>2, CallLeftRange, PTL
    <2>4. QED
        BY <2>3, CallLeftRange
<1>3. UNCHANGED <<requests, results, at>>
    BY DEF Application
<1>4. requests \in Nat /\ Len(results) \in Nat
    BY LenProperties DEF CommandInv, CommandTypes
<1>5. at \in {"building", "running", "leaving", "failing"}
    <2>1. CallLeft # 0
        BY <1>1, <1>2
    <2>2. pc[Main] # "idle"
        BY <2>1, CallLeftType
    <2>3. QED
        BY <2>2, Zenon DEF CommandInv, CommandTypes, Ended
<1>6. CommandLeft' = CommandLeft + (CallLeft' - CallLeft)
    <2>1. CASE at = "building"
        BY <1>2, <1>3, <1>4, <2>1 DEF CommandLeft
    <2>2. CASE at = "running"
        BY <1>2, <1>3, <1>4, <2>2 DEF CommandLeft
    <2>3. CASE at \in {"leaving", "failing"}
        BY <1>2, <1>3, <2>3 DEF CommandLeft
    <2>4. QED
        BY <1>5, <2>1, <2>2, <2>3
<1>7. CommandLeft \in Int
    BY CommandLeftInt
<1>8. \A k, n \in 0 .. 6, m \in Int : k < n => m + (k - n) < m
    OBVIOUS
<1>9. QED
    BY <1>1, <1>2, <1>6, <1>7, <1>8, Zenon

\* So is a step of the command, also the one that asks for another run: that run's steps
\* are set aside from the start.
LEMMA CommandLowers ==
    ASSUME CommandInv, Safe!IInv, Command
    PROVE  CommandLeft' < CommandLeft
<1> USE DEF Go, Back
<1>1. requests \in Nat \ {0} /\ results \in Seq(Nat) /\ Len(results) \in Nat /\ requests' = requests
    BY LenProperties
       DEF CommandInv, CommandTypes, Command, StartBuild, BuildFails, StartRun, BuildDrifts,
           NextRequest, LastRequest, Abort, CloseDone, CloseFails
<1>2. [App!Next]_appVars
    BY DEF Command, StartBuild, BuildFails, StartRun, BuildDrifts, NextRequest, LastRequest, Abort,
           CloseDone, CloseFails, App!Next, App!Call, Threads
<1>3. (Safe!IInv)'
    BY <1>2, ApplicationSafe
<1>4. (/\ pc[Main] = "context" => CallLeft = 6
       /\ pc[Main] = "lock to run" => CallLeft = 5
       /\ pc[Main] = "lock to close" => CallLeft = 4)'
    BY <1>3, CallLeftOnEntry, PTL
<1>5. CASE StartBuild
    <2>1. at = "start" /\ at' = "building" /\ pc'[Main] = "context"
        BY <1>5, HandsOver DEF StartBuild
    <2>2. CallLeft' = 6
        BY <1>4, <2>1, Zenon
    <2>3. QED
        BY <1>1, <2>1, <2>2 DEF CommandLeft
<1>6. CASE StartRun
    <2>1. at = "building" /\ at' = "running" /\ results' = results
        BY <1>6 DEF StartRun
    <2>2. results = <<>> /\ CallLeft = 0 /\ CallLeft' = 5
        <3>1. results = <<>>
            BY <2>1 DEF CommandInv, Building
        <3>2. pc[Main] = "idle" /\ pc'[Main] = "lock to run"
            BY <1>6, HandsOver DEF StartRun
        <3>3. QED
            BY <1>4, <3>1, <3>2, CallLeftType, Zenon
    <2>3. Len(results') = 0
        BY <2>1, <2>2
    <2>4. CommandLeft = 6 * requests + 6 /\ CommandLeft' = 6 * requests + 5
        BY <1>1, <2>1, <2>2, <2>3 DEF CommandLeft
    <2>5. QED
        BY <1>1, <2>4
<1>7. CASE NextRequest
    <2>1. at = "running" /\ at' = "running" /\ Len(results') = Len(results) + 1
        <3>1. started \in Nat
            BY DEF CommandInv
        <3>2. QED
            BY <1>1, <1>7, <3>1, AppendProperties DEF NextRequest, Keep
    <2>2. CallLeft = 0 /\ CallLeft' = 5
        <3>1. pc[Main] = "idle" /\ pc'[Main] = "lock to run"
            BY <1>7, HandsOver DEF NextRequest
        <3>2. QED
            BY <1>4, <3>1, CallLeftType, Zenon
    <2>3. QED
        BY <1>1, <2>1, <2>2 DEF CommandLeft
<1>8. CASE LastRequest \/ Abort \/ BuildDrifts
    <2>1. at \in {"building", "running"} /\ at' \in {"leaving", "failing"}
        BY <1>8 DEF LastRequest, Abort, BuildDrifts
    <2>2. CallLeft = 0 /\ CallLeft' = 4
        <3>1. pc[Main] = "idle" /\ pc'[Main] = "lock to close"
            BY <1>8, HandsOver DEF LastRequest, Abort, BuildDrifts
        <3>2. QED
            BY <1>4, <3>1, CallLeftType, Zenon
    <2>3. at = "running" => Len(results) < requests
        BY DEF CommandInv, Running
    <2>4. CommandLeft' = 5
        BY <2>1, <2>2 DEF CommandLeft
    <2>5. CommandLeft >= 6
        BY <1>1, <2>1, <2>2, <2>3 DEF CommandLeft
    <2>6. CommandLeft \in Int
        BY CommandLeftInt
    <2>7. QED
        BY <2>4, <2>5, <2>6
<1>9. CASE BuildFails \/ CloseDone \/ CloseFails
    <2>1. at \in {"building", "leaving", "failing"} /\ at' \in Ends
        BY <1>9 DEF BuildFails, CloseDone, CloseFails, Ends
    <2>2. at \notin Ends
        BY <2>1, Zenon DEF Ends
    <2>3. CommandLeft # 0 /\ CommandLeft \in 0 .. 6 * requests + 13
        BY <2>2, CommandLeftType
    <2>4. (at \in Ends => CommandLeft = 0)'
        BY CommandLeftCases, PTL
    <2>5. QED
        BY <1>1, <2>1, <2>3, <2>4
<1>10. QED
    BY <1>5, <1>6, <1>7, <1>8, <1>9 DEF Command

\* The provable part of CommandEnds: a command with n requests takes at most 6n + 13 steps
\* of its own and of its application, whatever fails and however many runs come after one
\* another; nothing the world does adds to them; and none is left only when it has ended.
THEOREM CommandIsBounded ==
    Spec => /\ [](CommandLeft \in 0 .. 6 * requests + 13)
            /\ [](CommandLeft = 0 <=> at \in Ends)
            /\ [][CommandLeft' <= CommandLeft]_vars
            /\ [][Command \/ Application => CommandLeft' < CommandLeft]_vars
<1> DEFINE Bounded == /\ CommandLeft \in 0 .. 6 * requests + 13
                      /\ CommandLeft = 0 <=> at \in Ends
           Lowered == /\ CommandLeft' <= CommandLeft
                      /\ Command \/ Application => CommandLeft' < CommandLeft
<1>1. Safe!IInv /\ CommandInv => Bounded
    BY CommandLeftType
<1>2. Safe!IInv /\ CommandInv /\ [Next]_vars => [Lowered]_vars
    <2> SUFFICES ASSUME Safe!IInv, CommandInv, Next PROVE Lowered
        OBVIOUS
    <2>1. CommandLeft \in Int
        BY CommandLeftInt
    <2>2. CommandInv' /\ (Safe!IInv)'
        BY NextCommand
    <2>3. (CommandLeft \in Int)'
        <3>1. Bounded'
            BY <1>1, <2>2, PTL
        <3>2. (requests \in Nat)'
            BY <2>2 DEF CommandInv, CommandTypes
        <3>3. QED
            BY <3>1, <3>2
    <2>4. CASE Command \/ Application
        <3>1. CommandLeft' < CommandLeft
            BY <2>4, CommandLowers, ApplicationLowers
        <3>2. QED
            BY <2>1, <2>3, <3>1
    <2>5. CASE App!World /\ UNCHANGED <<command, requests, at, results>>
        <3>1. UNCHANGED <<pc, at, requests, results>>
            BY <2>5 DEF App!World, App!ContainerExits, App!DirectoryVanishes, App!callVars
        <3>2. CommandLeft' = CommandLeft
            BY <3>1 DEF CommandLeft, CallLeft, Safe!StepsLeft
        <3>3. Command \/ Application => CommandLeft' < CommandLeft
            BY CommandLowers, ApplicationLowers
        <3>4. QED
            BY <2>1, <3>2, <3>3
    <2>6. QED
        BY <2>4, <2>5 DEF Next
<1>3. QED
    BY <1>1, <1>2, Keeps, NextCommand, PTL DEF Spec

-----------------------------------------------------------------------------
(* The conversion *)

\* Where the call is tells what it has done and what of it can be left.
ConversionInv ==
    /\ Conversion!TypeOK
    /\ convPc = "start" => ConversionClean /\ ~convMade
    /\ convPc \notin {"start", "done"} => convMade
    /\ convPc # "done" => convOutcome = "none"
    /\ convPc \in {"start", "write", "build", "inspect", "run"} => ~convStarted /\ ~convContainer
    /\ convPc \in {"await", "check", "remove", "recheck"} => convStarted
    /\ convPc \in {"start", "write", "build", "inspect", "run", "await", "check"} =>
          convError = "none" /\ ~convContainerClean
    /\ convContainerClean => ~convContainer
    /\ convPc = "files" => ~convTag
    /\ convPc = "done" /\ ~convMade => ~convTag /\ ~convContainer
    /\ convOutcome = "rejected" => ConversionClean
    /\ Conversion!GraphAfterCleanup
    /\ Conversion!OnlyCleanupFailedLeavesAnything

\* Its reasons are those the exception accepts, once a process failure was reported.
LEMMA ConversionReasons == Conversion!CommandReasons \subseteq Conversion!Reasons
BY DEF Conversion!CommandReasons, Conversion!Reported, Conversion!Reasons, Conversion!ProcessReasons

LEMMA InitConversion == Conversion!Init => ConversionInv
BY DEF Conversion!Init, ConversionInv, Conversion!TypeOK, ConversionClean,
       Conversion!GraphAfterCleanup, Conversion!OnlyCleanupFailedLeavesAnything,
       Conversion!Reasons

\* The try statement: a container exists only once the worker may have been started, and an
\* exception sets aside the cleanup that fits.
LEMMA ConversionTries ==
    ASSUME ConversionInv,
           \/ Conversion!RejectRequest \/ Conversion!NoContext \/ Conversion!ContextMade
           \/ Conversion!ContextWritten \/ Conversion!ContextFails \/ Conversion!ImageBuilt
           \/ Conversion!ImageBuildFails \/ Conversion!ImageInspected \/ Conversion!InspectFails
           \/ Conversion!WorkerStarts \/ Conversion!WorkerDoesNotStart \/ Conversion!Answer
           \/ Conversion!WorkerRejects \/ Conversion!WorkerFails
    PROVE  ConversionInv'
<1> USE ConversionReasons
<1> USE DEF ConversionInv, ConversionClean, Conversion!TypeOK, Conversion!GraphAfterCleanup,
            Conversion!OnlyCleanupFailedLeavesAnything, Conversion!Clean, Conversion!Go,
            Conversion!Fail, Conversion!worldVars
<1>1. CASE Conversion!RejectRequest
    BY <1>1 DEF Conversion!RejectRequest, Conversion!Reasons
<1>2. CASE Conversion!NoContext
    BY <1>2 DEF Conversion!NoContext, Conversion!Reasons
<1>3. CASE Conversion!ContextMade
    BY <1>3 DEF Conversion!ContextMade, Conversion!Reasons
<1>4. CASE Conversion!ContextWritten
    BY <1>4 DEF Conversion!ContextWritten, Conversion!Reasons
<1>5. CASE Conversion!ContextFails
    BY <1>5 DEF Conversion!ContextFails, Conversion!Reasons
<1>6. CASE Conversion!ImageBuilt
    BY <1>6 DEF Conversion!ImageBuilt, Conversion!Reasons
<1>7. CASE Conversion!ImageBuildFails
    BY <1>7 DEF Conversion!ImageBuildFails, Conversion!Reasons
<1>8. CASE Conversion!ImageInspected
    BY <1>8 DEF Conversion!ImageInspected, Conversion!Reasons
<1>9. CASE Conversion!InspectFails
    BY <1>9 DEF Conversion!InspectFails, Conversion!Reasons
<1>10. CASE Conversion!WorkerStarts
    BY <1>10 DEF Conversion!WorkerStarts, Conversion!Reasons
<1>11. CASE Conversion!WorkerDoesNotStart
    BY <1>11 DEF Conversion!WorkerDoesNotStart, Conversion!Reasons
<1>12. CASE Conversion!Answer
    BY <1>12 DEF Conversion!Answer, Conversion!Reasons
<1>13. CASE Conversion!WorkerRejects
    BY <1>13 DEF Conversion!WorkerRejects, Conversion!Reasons
<1>14. CASE Conversion!WorkerFails
    BY <1>14 DEF Conversion!WorkerFails, Conversion!Reasons
<1>15. QED
    BY <1>1, <1>2, <1>3, <1>4, <1>5, <1>6, <1>7, <1>8, <1>9, <1>10, <1>11, <1>12, <1>13, <1>14

\* The cleanup: containerClean is set only when a lookup showed nothing, and the directory
\* goes only after the tag.
LEMMA ConversionCleansUp ==
    ASSUME ConversionInv,
           \/ Conversion!Check \/ Conversion!Remove \/ Conversion!Recheck
           \/ Conversion!ImageRemoved \/ Conversion!ImageRefused \/ Conversion!ImageNotListed
           \/ Conversion!ImageCleanupFails \/ Conversion!DirectoryRemoved
           \/ Conversion!DirectoryKept \/ Conversion!Interrupted
    PROVE  ConversionInv'
<1> USE DEF ConversionInv, ConversionClean, Conversion!TypeOK, Conversion!GraphAfterCleanup,
            Conversion!OnlyCleanupFailedLeavesAnything, Conversion!Clean, Conversion!Go,
            Conversion!Finish, Conversion!worldVars
<1>1. CASE Conversion!Check
    <2>1. CASE /\ Conversion!Go("check", "image") /\ convDirectory /\ ~convContainer
               /\ convContainerClean' = TRUE
        BY <1>1, <2>1 DEF Conversion!Check, Conversion!Reasons
    <2>2. CASE Conversion!Go("check", "remove") /\ UNCHANGED convContainerClean
        BY <1>1, <2>2 DEF Conversion!Check, Conversion!Reasons
    <2>3. QED
        BY <1>1, <2>1, <2>2 DEF Conversion!Check
<1>2. CASE Conversion!Remove
    BY <1>2 DEF Conversion!Remove, Conversion!Reasons
<1>3. CASE Conversion!Recheck
    BY <1>3 DEF Conversion!Recheck, Conversion!Reasons
<1>4. CASE Conversion!ImageRemoved
    BY <1>4 DEF Conversion!ImageRemoved, Conversion!Reasons
<1>5. CASE Conversion!ImageRefused
    BY <1>5 DEF Conversion!ImageRefused, Conversion!Reasons
<1>6. CASE Conversion!ImageNotListed
    BY <1>6 DEF Conversion!ImageNotListed, Conversion!Reasons
<1>7. CASE Conversion!ImageCleanupFails
    <2>1. convPc \in {"image", "list"} /\ convPc' = "done" /\ convOutcome' = "cleanup_failed"
        BY <1>7 DEF Conversion!ImageCleanupFails
    <2>2. /\ UNCHANGED <<convError, convStarted, convContainerClean, convMade, convContainer,
                         convDirectory>>
          /\ convTag' \in {convTag, FALSE}
        BY <1>7 DEF Conversion!ImageCleanupFails
    <2>3. QED
        BY <2>1, <2>2 DEF Conversion!Reasons
<1>8. CASE Conversion!DirectoryRemoved
    BY <1>8 DEF Conversion!DirectoryRemoved, Conversion!Reasons
<1>9. CASE Conversion!DirectoryKept
    BY <1>9 DEF Conversion!DirectoryKept, Conversion!Reasons
<1>10. CASE Conversion!Interrupted
    BY <1>10 DEF Conversion!Interrupted, Conversion!Reasons
<1>11. QED
    BY <1>1, <1>2, <1>3, <1>4, <1>5, <1>6, <1>7, <1>8, <1>9, <1>10

\* The world only takes away.
LEMMA ConversionWorld ==
    ASSUME ConversionInv, Conversion!World
    PROVE  ConversionInv'
<1>1. UNCHANGED <<convPc, convError, convStarted, convContainerClean, convOutcome, convMade>>
    BY DEF Conversion!World, Conversion!WorkerExits, Conversion!DirectoryVanishes,
           Conversion!callVars
<1>2. (convTag' => convTag) /\ (convContainer' => convContainer) /\ (convDirectory' => convDirectory)
    BY DEF Conversion!World, Conversion!WorkerExits, Conversion!DirectoryVanishes
<1>3. Conversion!TypeOK'
    BY <1>1
       DEF ConversionInv, Conversion!TypeOK, Conversion!World, Conversion!WorkerExits,
           Conversion!DirectoryVanishes
<1>4. QED
    BY <1>1, <1>2, <1>3
       DEF ConversionInv, ConversionClean, Conversion!GraphAfterCleanup,
           Conversion!OnlyCleanupFailedLeavesAnything, Conversion!Clean

LEMMA ConversionCalls == ConversionInv /\ Conversion!Call => ConversionInv'
BY ConversionTries, ConversionCleansUp DEF Conversion!Call

LEMMA SameConversion == ConversionInv /\ UNCHANGED convVars => ConversionInv'
BY DEF convVars, ConversionInv, ConversionClean, Conversion!TypeOK, Conversion!GraphAfterCleanup,
       Conversion!OnlyCleanupFailedLeavesAnything, Conversion!Clean

LEMMA KeepsConversion == Conversion!Spec => []ConversionInv
<1>1. ConversionInv /\ [Conversion!Next]_(Conversion!vars) => ConversionInv'
    <2>1. UNCHANGED Conversion!vars => UNCHANGED convVars
        BY DEF Conversion!vars, Conversion!callVars, Conversion!worldVars, convVars
    <2>2. QED
        BY <2>1, ConversionCalls, ConversionWorld, SameConversion DEF Conversion!Next
<1>2. QED
    BY <1>1, InitConversion, PTL DEF Conversion!Spec

\* A conversion reports only reasons its exception accepts, also when a process ended with one
\* that is none of them (input_rejection); it gives a graph only when the worker, the tag and
\* the directory are gone; and once it has a context, only cleanup_failed leaves anything.
THEOREM ConversionReportsTruly == Conversion!Spec => []ConversionsReportTruly
<1>1. ConversionInv => ConversionsReportTruly
    BY DEF ConversionInv, ConversionsReportTruly
<1>2. QED
    BY <1>1, KeepsConversion, PTL

-----------------------------------------------------------------------------
(* Bounded work of a conversion *)

\* No more steps than these are left of a conversion.
ConversionLeft ==
    CASE convPc = "start"   -> 12
      [] convPc = "write"   -> 11
      [] convPc = "build"   -> 10
      [] convPc = "inspect" -> 9
      [] convPc = "run"     -> 8
      [] convPc = "await"   -> 7
      [] convPc = "check"   -> 6
      [] convPc = "remove"  -> 5
      [] convPc = "recheck" -> 4
      [] convPc = "image"   -> 3
      [] convPc = "list"    -> 2
      [] convPc = "files"   -> 1
      [] convPc = "done"    -> 0

LEMMA ConversionLeftType ==
    Conversion!TypeOK => /\ ConversionLeft \in 0 .. 12
                         /\ ConversionLeft = 0 <=> convPc = "done"
<1> SUFFICES ASSUME Conversion!TypeOK
             PROVE  ConversionLeft \in 0 .. 12 /\ (ConversionLeft = 0 <=> convPc = "done")
    OBVIOUS
<1>1. /\ convPc = "start" => ConversionLeft = 12
      /\ convPc = "write" => ConversionLeft = 11
      /\ convPc = "build" => ConversionLeft = 10
      /\ convPc = "inspect" => ConversionLeft = 9
      /\ convPc = "run" => ConversionLeft = 8
      /\ convPc = "await" => ConversionLeft = 7
      /\ convPc = "check" => ConversionLeft = 6
      /\ convPc = "remove" => ConversionLeft = 5
      /\ convPc = "recheck" => ConversionLeft = 4
      /\ convPc = "image" => ConversionLeft = 3
      /\ convPc = "list" => ConversionLeft = 2
      /\ convPc = "files" => ConversionLeft = 1
      /\ convPc = "done" => ConversionLeft = 0
    BY DEF ConversionLeft
<1>2. QED
    BY <1>1 DEF Conversion!TypeOK

\* Where a step of a conversion can lead.
LEMMA ConversionMoves ==
    ASSUME ConversionInv, Conversion!Call
    PROVE  \/ convPc = "start" /\ convPc' \in {"done", "write"}
           \/ convPc = "write" /\ convPc' \in {"build", "image"}
           \/ convPc = "build" /\ convPc' \in {"inspect", "image"}
           \/ convPc = "inspect" /\ convPc' \in {"run", "image"}
           \/ convPc = "run" /\ convPc' \in {"await", "remove"}
           \/ convPc = "await" /\ convPc' \in {"check", "remove"}
           \/ convPc = "check" /\ convPc' \in {"image", "remove", "done"}
           \/ convPc = "remove" /\ convPc' \in {"recheck", "done"}
           \/ convPc = "recheck" /\ convPc' \in {"image", "done"}
           \/ convPc = "image" /\ convPc' \in {"files", "list", "done"}
           \/ convPc = "list" /\ convPc' \in {"files", "done"}
           \/ convPc = "files" /\ convPc' = "done"
<1> USE DEF Conversion!Go
<1>1. CASE \/ Conversion!RejectRequest \/ Conversion!NoContext \/ Conversion!ContextMade
           \/ Conversion!ContextWritten \/ Conversion!ImageBuilt \/ Conversion!ImageInspected
           \/ Conversion!WorkerStarts \/ Conversion!Answer \/ Conversion!WorkerRejects
    BY <1>1 DEF Conversion!RejectRequest, Conversion!NoContext, Conversion!ContextMade,
                Conversion!ContextWritten, Conversion!ImageBuilt, Conversion!ImageInspected,
                Conversion!WorkerStarts, Conversion!Answer, Conversion!WorkerRejects
<1>2. CASE Conversion!ContextFails \/ Conversion!ImageBuildFails \/ Conversion!InspectFails
    <2>1. convPc \in {"write", "build", "inspect"} /\ convStarted' = convStarted
        BY <1>2 DEF Conversion!ContextFails, Conversion!ImageBuildFails, Conversion!InspectFails,
                    Conversion!Fail
    <2>2. ~convStarted'
        BY <2>1 DEF ConversionInv
    <2>3. convPc' = "image"
        BY <1>2, <2>2 DEF Conversion!ContextFails, Conversion!ImageBuildFails,
                          Conversion!InspectFails, Conversion!Fail
    <2>4. QED
        BY <2>1, <2>3
<1>3. CASE Conversion!WorkerDoesNotStart \/ Conversion!WorkerFails
    BY <1>3 DEF Conversion!WorkerDoesNotStart, Conversion!WorkerFails, Conversion!Fail,
                ConversionInv
<1>4. CASE \/ Conversion!Check \/ Conversion!Remove \/ Conversion!Recheck
           \/ Conversion!ImageRemoved \/ Conversion!ImageRefused \/ Conversion!ImageNotListed
           \/ Conversion!ImageCleanupFails \/ Conversion!DirectoryRemoved
           \/ Conversion!DirectoryKept \/ Conversion!Interrupted
    BY <1>4 DEF Conversion!Check, Conversion!Remove, Conversion!Recheck, Conversion!ImageRemoved,
                Conversion!ImageRefused, Conversion!ImageNotListed, Conversion!ImageCleanupFails,
                Conversion!DirectoryRemoved, Conversion!DirectoryKept, Conversion!Interrupted,
                Conversion!Finish
<1>5. QED
    BY <1>1, <1>2, <1>3, <1>4 DEF Conversion!Call

LEMMA ConversionLowers ==
    ASSUME ConversionInv, Conversion!Call
    PROVE  ConversionLeft' < ConversionLeft
BY ConversionMoves DEF ConversionLeft

\* A conversion takes at most twelve steps, whatever fails in it; the world adds none.
THEOREM ConversionIsBounded ==
    Conversion!Spec => /\ [](ConversionLeft \in 0 .. 12 /\ (ConversionLeft = 0 <=> convPc = "done"))
                       /\ [][/\ Conversion!Call => ConversionLeft' < ConversionLeft
                            /\ Conversion!World => ConversionLeft' = ConversionLeft]_(Conversion!vars)
<1> DEFINE Bounded == ConversionLeft \in 0 .. 12 /\ (ConversionLeft = 0 <=> convPc = "done")
           Lowered == /\ Conversion!Call => ConversionLeft' < ConversionLeft
                      /\ Conversion!World => ConversionLeft' = ConversionLeft
<1>1. ConversionInv => Bounded
    BY ConversionLeftType DEF ConversionInv
<1>2. ConversionInv /\ [Conversion!Next]_(Conversion!vars) => [Lowered]_(Conversion!vars)
    <2>1. Conversion!World => ConversionLeft' = ConversionLeft
        BY DEF Conversion!World, Conversion!WorkerExits, Conversion!DirectoryVanishes,
               Conversion!callVars, ConversionLeft
    <2>2. QED
        BY <2>1, ConversionLowers
<1>3. QED
    BY <1>1, <1>2, KeepsConversion, PTL DEF Conversion!Spec

-----------------------------------------------------------------------------
(* The consumer *)

CommandDone    == pc[Main] = "idle" /\ CommandClean
ConversionDone == convPc \in {"start", "done"} /\ ConversionClean

\* After a numeric_rejection nothing is started any more, and its container is gone.
DeclinedInv ==
    declined => /\ containers = {} /\ at \notin {"start", "building"}
                /\ pc[Main] \notin {"lock to run", "verify", "exec", "await"}

\* Only one of the two is at work, behind an accepted call neither; and while one is at work
\* nothing of the other is left.
ConsumerPhases ==
    /\ phase \in {"next", "convert", "run", "check", "recorded", "raised"}
    /\ call \in 0 .. Calls /\ declined \in BOOLEAN
    /\ phase \in {"next", "check", "recorded"} => CommandDone /\ ConversionDone
    /\ phase = "convert" => CommandDone /\ Kind(call) \in {"convert", "reject"}
    /\ phase = "run" => ConversionDone /\ DeclinedInv /\ Kind(call) \in {"run", "numeric"}
    /\ phase = "raised" => CommandDone \/ ConversionDone
    /\ ~litter

ConsumerCommand == Safe!IInv /\ CommandInv /\ command = "after" /\ requests = 1

ConsumerInv == ConsumerCommand /\ ConversionInv /\ ConsumerPhases

LEMMA CallsType == Calls \in Nat
<1>1. \A m, n \in Nat : m * (n + 1) \in Nat
    OBVIOUS
<1>2. Programs * (Cases + 1) \in Nat
    BY <1>1, ConsumerAssumption
<1>3. QED
    BY <1>2, ConsumerAssumption DEF Calls

LEMMA ApplicationBusy == App!Steps(Main) => pc[Main] # "idle"
BY DEF App!Steps, App!Build, App!Run, App!Close, App!ContextFails, App!ContextMade,
       App!ImageBuilt, App!ImageBuildFails, App!Register, App!InspectFails, App!RejectClosed,
       App!EnterRun, App!RejectRun, App!Verified, App!StartContainer, App!StartFails,
       App!Outputs, App!RunFails, App!RemoveContainer, App!LeaveRun, App!AlreadyClosed,
       App!EnterClose, App!RemoveImage, App!RemoveImageRefused, App!RemoveImageRaises,
       App!ImageNotListed, App!ImageListFails, App!RemoveDirectory, App!RemoveDirectoryFails,
       App!LeaveCleanup, App!Go, App!Return

LEMMA InitApplication == App!Init => Safe!IInv
BY ApplicationSafe

LEMMA SameCommand == ConsumerCommand /\ UNCHANGED vars => ConsumerCommand'
<1>1. UNCHANGED vars => [Next]_vars /\ UNCHANGED <<command, requests>>
    BY DEF vars
<1>2. QED
    BY <1>1, NextCommand DEF ConsumerCommand

\* What the daemon and the file system do without being asked.
LEMMA WorldKeeps ==
    /\ App!World => /\ UNCHANGED <<pc, result, handle, started, tag>>
                    /\ containers' \subseteq containers /\ (directory' => directory)
    /\ Conversion!World => /\ UNCHANGED convPc
                           /\ (convTag' => convTag) /\ (convContainer' => convContainer)
                           /\ (convDirectory' => convDirectory)
BY DEF App!World, App!ContainerExits, App!DirectoryVanishes, App!callVars, App!stateVars,
       Conversion!World, Conversion!WorkerExits, Conversion!DirectoryVanishes,
       Conversion!callVars

LEMMA InitConsumer == ConsumerInit => ConsumerInv
<1> SUFFICES ASSUME ConsumerInit PROVE ConsumerInv
    OBVIOUS
<1>1. ConsumerCommand
    BY InitApplication, InitCommand DEF ConsumerInit, ConsumerCommand, Init
<1>2. ConversionInv
    BY InitConversion DEF ConsumerInit
<1>3. CommandDone /\ ConversionDone
    BY DEF ConsumerInit, Init, App!Init, Conversion!Init, CommandDone, ConversionDone,
           CommandClean, ConversionClean, Threads
<1>4. call \in 0 .. Calls
    BY CallsType DEF ConsumerInit
<1>5. ConsumerPhases
    BY <1>3, <1>4 DEF ConsumerInit, ConsumerPhases
<1>6. QED
    BY <1>1, <1>2, <1>5 DEF ConsumerInv

\* A fresh command.
LEMMA FreshCommand == ConsumerCommand /\ BeginRun => ConsumerCommand' /\ CommandDone' /\ ~declined'
<1> SUFFICES ASSUME ConsumerCommand, BeginRun PROVE ConsumerCommand' /\ CommandDone' /\ ~declined'
    OBVIOUS
<1>1. (App!Init)'
    BY DEF BeginRun, App!Init
<1>2. (Init)'
    <2>1. command' = "after" /\ requests' = 1 /\ at' = "start" /\ results' = <<>>
        BY DEF BeginRun, ConsumerCommand
    <2>2. QED
        BY <1>1, <2>1 DEF Init
<1>3. (Safe!IInv)' /\ CommandInv'
    BY <1>1, <1>2, InitApplication, InitCommand, PTL
<1>4. CommandDone'
    BY <1>1 DEF CommandDone, CommandClean, App!Init, Threads
<1>5. command' = "after" /\ requests' = 1 /\ ~declined'
    BY DEF BeginRun, ConsumerCommand
<1>6. QED
    BY <1>3, <1>4, <1>5 DEF ConsumerCommand

\* A fresh conversion.
LEMMA FreshConversion == BeginConversion => ConversionInv' /\ ConversionDone'
<1> SUFFICES ASSUME BeginConversion PROVE ConversionInv' /\ ConversionDone'
    OBVIOUS
<1>1. (Conversion!Init)'
    BY DEF BeginConversion, Conversion!Init
<1>2. ConversionInv'
    BY <1>1, InitConversion, PTL
<1>3. QED
    BY <1>2 DEF BeginConversion, ConversionDone, ConversionClean

\* A step of the application that nobody of the command waits for is one all the same.
LEMMA OrphanCommand ==
    ASSUME ConsumerCommand, App!Steps(Main), UNCHANGED <<command, requests, at, results>>
    PROVE  ConsumerCommand'
<1>1. [Next]_vars
    BY DEF Next, Application
<1>2. QED
    BY <1>1, NextCommand DEF ConsumerCommand

\* The workspace is removed with the directory in it; the handle says nothing else by that.
LEMMA WorkspaceCommand == ConsumerCommand /\ RemoveWorkspace => ConsumerCommand'
<1> SUFFICES ASSUME ConsumerCommand, RemoveWorkspace PROVE ConsumerCommand'
    OBVIOUS
<1>1. /\ UNCHANGED <<command, requests, at, results, pc, result, handle, lock, closed, imageRemoved,
                     filesRemoved, started, tag, containers, residue>>
      /\ directory' = FALSE
    BY DEF RemoveWorkspace
<1>2. (Safe!IInv)'
    BY <1>1 DEF ConsumerCommand, Safe!IInv, Safe!TypeOK, Safe!Locking, Safe!Truthful, Safe!Phases
<1>3. CommandInv'
    BY <1>1 DEF ConsumerCommand, CommandInv, CommandTypes, Building, Running, Closing, Complete,
                Numbered, Ended
<1>4. QED
    BY <1>1, <1>2, <1>3 DEF ConsumerCommand

LEMMA WorkspaceConversion == ConversionInv /\ RemoveWorkspace => ConversionInv'
<1> SUFFICES ASSUME ConversionInv, RemoveWorkspace PROVE ConversionInv'
    OBVIOUS
<1>1. /\ UNCHANGED <<convPc, convError, convStarted, convContainerClean, convOutcome, convMade,
                     convTag, convContainer>>
      /\ convDirectory' = FALSE
    BY DEF RemoveWorkspace
<1>2. Conversion!TypeOK'
    BY <1>1 DEF ConversionInv, Conversion!TypeOK
<1>3. QED
    BY <1>1, <1>2
       DEF ConversionInv, ConversionClean, Conversion!GraphAfterCleanup,
           Conversion!OnlyCleanupFailedLeavesAnything, Conversion!Clean

\* Whatever the consumer, a killed call's `docker` command or the world does, each of the two
\* stays as its own proof has it.
LEMMA CommandKept == ConsumerCommand /\ [ConsumerNext]_allVars => ConsumerCommand'
<1> SUFFICES ASSUME ConsumerCommand, [ConsumerNext]_allVars PROVE ConsumerCommand'
    OBVIOUS
<1>1. CASE \/ BeginConversion \/ Convert \/ Accept \/ Unchanged \/ Record \/ Raise
           \/ UNCHANGED allVars
    BY <1>1, SameCommand
       DEF BeginConversion, Convert, Accept, Unchanged, Record, Raise, allVars
<1>2. CASE BeginRun
    BY <1>2, FreshCommand
<1>3. CASE Run
    <2>1. Command \/ Application
        BY <1>3 DEF Run
    <2>2. UNCHANGED <<command, requests>>
        BY <2>1 DEF Command, Application, StartBuild, BuildFails, StartRun, BuildDrifts,
                    NextRequest, LastRequest, Abort, CloseDone, CloseFails
    <2>3. QED
        BY <2>1, <2>2, NextCommand DEF ConsumerCommand, Next
<1>4. CASE Orphan
    <2>1. CASE App!Steps(Main) /\ UNCHANGED <<command, requests, at, results>>
        BY <2>1, OrphanCommand
    <2>2. CASE UNCHANGED vars
        BY <2>2, SameCommand
    <2>3. QED
        BY <1>4, <2>1, <2>2 DEF Orphan, App!Steps, App!Build, App!Run, App!Close
<1>5. CASE RemoveWorkspace
    BY <1>5, WorkspaceCommand
<1>6. CASE App!World /\ UNCHANGED <<consumerVars, convVars, command, requests, at, results>>
    <2>1. [Next]_vars /\ UNCHANGED <<command, requests>>
        BY <1>6 DEF Next
    <2>2. QED
        BY <2>1, NextCommand DEF ConsumerCommand
<1>7. CASE Conversion!World /\ UNCHANGED <<consumerVars, vars>>
    BY <1>7, SameCommand
<1>8. QED
    BY <1>1, <1>2, <1>3, <1>4, <1>5, <1>6, <1>7 DEF ConsumerNext, Consumer

LEMMA ConversionKept == ConversionInv /\ [ConsumerNext]_allVars => ConversionInv'
<1> SUFFICES ASSUME ConversionInv, [ConsumerNext]_allVars PROVE ConversionInv'
    OBVIOUS
<1>1. CASE \/ BeginRun \/ Run \/ Accept \/ Unchanged \/ Record \/ Raise \/ UNCHANGED allVars
           \/ App!World /\ UNCHANGED <<consumerVars, convVars, command, requests, at, results>>
    BY <1>1, SameConversion DEF BeginRun, Run, Accept, Unchanged, Record, Raise, allVars
<1>2. CASE BeginConversion
    BY <1>2, FreshConversion
<1>3. CASE Convert
    BY <1>3, ConversionCalls DEF Convert
<1>4. CASE Orphan
    BY <1>4, SameConversion, ConversionCalls DEF Orphan, Conversion!Call
<1>5. CASE RemoveWorkspace
    BY <1>5, WorkspaceConversion
<1>6. CASE Conversion!World /\ UNCHANGED <<consumerVars, vars>>
    BY <1>6, ConversionWorld
<1>7. QED
    BY <1>1, <1>2, <1>3, <1>4, <1>5, <1>6 DEF ConsumerNext, Consumer

\* A command of one request asks for one container: a response that is a numeric_rejection
\* came from it, and no other follows.
LEMMA DeclinedKept ==
    ASSUME ConsumerCommand, DeclinedInv, declined \in BOOLEAN, Run
    PROVE  DeclinedInv' /\ declined' \in BOOLEAN
<1>1. CASE Command
    <2>1. pc[Main] = "idle" /\ UNCHANGED containers
        BY <1>1, HandsOver
           DEF ConsumerCommand, Command, StartBuild, BuildFails, StartRun, BuildDrifts, NextRequest,
               LastRequest, Abort, CloseDone, CloseFails, Back, CommandInv, appVars
    <2>2. declined' = declined
        BY <2>1 DEF Run
    <2>3. ~NextRequest
        <3>1. Len(results) \in Nat
            BY LenProperties DEF ConsumerCommand, CommandInv, CommandTypes
        <3>2. QED
            BY <3>1 DEF NextRequest, ConsumerCommand
    <2>4. SUFFICES ASSUME declined PROVE DeclinedInv' /\ declined' \in BOOLEAN
        BY <2>2 DEF DeclinedInv
    <2>5. at \notin {"start", "building"}
        BY <2>4 DEF DeclinedInv
    <2>6. LastRequest \/ Abort \/ CloseDone \/ CloseFails
        BY <1>1, <2>3, <2>5, Zenon DEF Command, StartBuild, BuildFails, StartRun, BuildDrifts, Go
    <2>7. at' \notin {"start", "building"} /\ pc'[Main] \in {"idle", "lock to close"}
        BY <2>1, <2>6, HandsOver
           DEF ConsumerCommand, LastRequest, Abort, CloseDone, CloseFails, Go, appVars
    <2>8. containers' = {}
        BY <2>1, <2>4 DEF DeclinedInv
    <2>9. QED
        BY <2>2, <2>7, <2>8 DEF DeclinedInv
<1>2. CASE Application
    <2>1. pc[Main] # "idle" /\ at' = at /\ App!Steps(Main)
        BY <1>2, ApplicationBusy DEF Application
    <2>2. CASE at = "building"
        <3>1. pc[Main] \in {"context", "build", "inspect", "image", "list", "files"}
            BY <2>1, <2>2 DEF ConsumerCommand, CommandInv, Building
        <3>2. ~declined /\ declined' = declined
            BY <2>2, <3>1 DEF DeclinedInv, Run
        <3>3. QED
            BY <3>2 DEF DeclinedInv
    <2>3. CASE at = "running"
        <3>1. /\ handle = "built"
              /\ pc[Main] \in {"lock to run", "verify", "exec", "await", "kill"}
              /\ pc[Main] = "await" => containers \subseteq {started}
            BY <2>1, <2>3 DEF ConsumerCommand, CommandInv, Running
        <3>2. CASE pc[Main] = "await" /\ pc'[Main] = "kill"
            <4>1. containers' = containers
                BY <2>1, <3>1, <3>2, RunStep DEF ConsumerCommand
            <4>2. declined' = (directory /\ started \notin containers)
                BY <3>2 DEF Run
            <4>3. declined' => containers' = {}
                BY <3>1, <3>2, <4>1, <4>2
            <4>4. directory \in BOOLEAN
                BY DEF ConsumerCommand, Safe!IInv, Safe!TypeOK
            <4>5. QED
                BY <2>1, <2>3, <3>2, <4>2, <4>3, <4>4 DEF DeclinedInv
        <3>3. CASE ~(pc[Main] = "await" /\ pc'[Main] = "kill")
            <4>1. declined' = declined
                BY <3>3 DEF Run
            <4>2. SUFFICES ASSUME declined PROVE DeclinedInv' /\ declined' \in BOOLEAN
                BY <4>1 DEF DeclinedInv
            <4>3. pc[Main] = "kill" /\ containers = {}
                BY <3>1, <4>2, Zenon DEF DeclinedInv
            <4>4. pc'[Main] = "idle" /\ containers' = {}
                BY <2>1, <3>1, <4>3, RunStep DEF ConsumerCommand
            <4>5. QED
                BY <2>1, <2>3, <4>1, <4>4 DEF DeclinedInv
        <3>4. QED
            BY <3>2, <3>3
    <2>4. CASE at \in {"leaving", "failing"}
        <3>1. handle = "built" /\ pc[Main] \in {"lock to close", "image", "list", "files"}
            BY <2>1, <2>4 DEF ConsumerCommand, CommandInv, Closing
        <3>2. containers' = containers /\ pc'[Main] \in {"idle", "image", "list", "files"}
            BY <2>1, <3>1, CloseStep DEF ConsumerCommand
        <3>3. declined' = declined
            BY <3>1 DEF Run
        <3>4. QED
            BY <2>1, <2>4, <3>2, <3>3 DEF DeclinedInv
    <2>5. at \in {"building", "running", "leaving", "failing"}
        BY <2>1, Zenon DEF ConsumerCommand, CommandInv, CommandTypes, Ended
    <2>6. QED
        BY <2>2, <2>3, <2>4, <2>5
<1>3. QED
    BY <1>1, <1>2 DEF Run

\* The answer the consumer wants says that nothing of the call is left.
LEMMA AnsweredClean ==
    ASSUME ConsumerInv, phase \in {"convert", "run"}, Answered
    PROVE  CommandDone /\ ConversionDone
<1>1. CASE phase = "convert"
    <2>1. Kind(call) \in {"convert", "reject"} /\ CommandDone
        BY <1>1 DEF ConsumerInv, ConsumerPhases
    <2>2. convOutcome \in {"graph", "rejected"}
        BY <2>1 DEF Answered
    <2>3. convPc = "done"
        BY <2>2 DEF ConsumerInv, ConversionInv
    <2>4. ConversionClean
        <3>1. CASE convOutcome = "graph"
            BY <3>1 DEF ConsumerInv, ConversionInv, Conversion!GraphAfterCleanup,
                        Conversion!Clean, ConversionClean
        <3>2. CASE convOutcome = "rejected"
            BY <3>2 DEF ConsumerInv, ConversionInv
        <3>3. QED
            BY <2>2, <3>1, <3>2
    <2>5. QED
        BY <2>1, <2>3, <2>4 DEF ConversionDone
<1>2. CASE phase = "run"
    <2>1. Kind(call) \in {"run", "numeric"} /\ ConversionDone /\ DeclinedInv
        BY <1>2 DEF ConsumerInv, ConsumerPhases
    <2>2. at = "printed" \/ (at = "runtime failed" /\ declined)
        BY <2>1, Zenon DEF Answered
    <2>3. pc[Main] = "idle" /\ ~tag /\ ~directory
        BY <2>2, Zenon DEF ConsumerInv, ConsumerCommand, CommandInv, Ended
    <2>4. containers = {}
        BY <2>1, <2>2, Zenon
           DEF ConsumerInv, ConsumerCommand, CommandInv, Ended, Complete, DeclinedInv
    <2>5. QED
        BY <2>1, <2>3, <2>4 DEF CommandDone, CommandClean
<1>3. QED
    BY <1>1, <1>2

\* A call begins where nothing of another is left.
LEMMA BeginPhases ==
    ASSUME ConsumerInv, BeginConversion \/ BeginRun
    PROVE  ConsumerPhases'
<1>1. /\ phase = "next" /\ call < Calls /\ call \in 0 .. Calls /\ call' = call + 1
      /\ CommandDone /\ ConversionDone /\ ~litter /\ declined \in BOOLEAN
    BY DEF BeginConversion, BeginRun, Begin, ConsumerInv, ConsumerPhases
<1>2. call' \in 0 .. Calls
    BY <1>1, CallsType
<1>3. ~litter'
    BY <1>1 DEF BeginConversion, BeginRun, CommandDone, ConversionDone
<1>4. CASE BeginConversion
    <2>1. phase' = "convert" /\ Kind(call') \in {"convert", "reject"} /\ declined' = declined
        BY <1>1, <1>4 DEF BeginConversion, Begin
    <2>2. CommandDone'
        BY <1>1, <1>4 DEF BeginConversion, CommandDone, CommandClean, vars, appVars
    <2>3. QED
        BY <1>1, <1>2, <1>3, <2>1, <2>2 DEF ConsumerPhases
<1>5. CASE BeginRun
    <2>1. phase' = "run" /\ Kind(call') \in {"run", "numeric"}
        BY <1>1, <1>5 DEF BeginRun, Begin
    <2>2. ~declined' /\ declined' \in BOOLEAN
        BY <1>5 DEF BeginRun
    <2>3. ConversionDone'
        BY <1>1, <1>5 DEF BeginRun, ConversionDone, ConversionClean, convVars
    <2>4. QED
        BY <1>2, <1>3, <2>1, <2>2, <2>3 DEF ConsumerPhases, DeclinedInv
<1>6. QED
    BY <1>4, <1>5

\* While one of the two moves the other stays as it is.
LEMMA WorkPhases ==
    ASSUME ConsumerInv, Convert \/ Run
    PROVE  ConsumerPhases'
<1>1. CASE Convert
    <2>1. phase = "convert" /\ UNCHANGED <<phase, call, declined, litter>> /\ UNCHANGED vars
        BY <1>1 DEF Convert, consumerVars
    <2>2. CommandDone'
        BY <2>1 DEF ConsumerInv, ConsumerPhases, CommandDone, CommandClean, vars, appVars
    <2>3. QED
        BY <2>1, <2>2 DEF ConsumerInv, ConsumerPhases
<1>2. CASE Run
    <2>1. phase = "run" /\ UNCHANGED <<phase, call, litter>> /\ UNCHANGED convVars
        BY <1>2 DEF Run
    <2>2. ConversionDone'
        BY <2>1 DEF ConsumerInv, ConsumerPhases, ConversionDone, ConversionClean, convVars
    <2>3. DeclinedInv' /\ declined' \in BOOLEAN
        BY <1>2, <2>1, DeclinedKept DEF ConsumerInv, ConsumerPhases
    <2>4. QED
        BY <2>1, <2>2, <2>3 DEF ConsumerInv, ConsumerPhases
<1>3. QED
    BY <1>1, <1>2

LEMMA SamePhases ==
    ASSUME ConsumerInv, UNCHANGED <<consumerVars, convVars, vars>>
    PROVE  ConsumerPhases'
<1>1. /\ UNCHANGED <<phase, call, declined, litter, at, pc, containers, tag, directory>>
      /\ UNCHANGED <<convPc, convTag, convContainer, convDirectory>>
    BY DEF consumerVars, convVars, vars, appVars
<1>2. QED
    BY <1>1 DEF ConsumerInv, ConsumerPhases, CommandDone, CommandClean, ConversionDone,
                ConversionClean, DeclinedInv

\* The consumer goes on only behind an answer it wanted.
LEMMA AnswerPhases ==
    ASSUME ConsumerInv, Accept \/ Unchanged \/ Record \/ Raise
    PROVE  ConsumerPhases'
<1>1. /\ UNCHANGED <<call, declined, litter>> /\ UNCHANGED convVars /\ UNCHANGED vars
      /\ call \in 0 .. Calls /\ declined \in BOOLEAN /\ ~litter
    BY DEF Accept, Unchanged, Record, Raise, ConsumerInv, ConsumerPhases
<1>2. (CommandDone' <=> CommandDone) /\ (ConversionDone' <=> ConversionDone)
    BY <1>1 DEF CommandDone, CommandClean, ConversionDone, ConversionClean, convVars, vars, appVars
<1>3. CASE Accept
    <2>1. phase' = "check" /\ CommandDone /\ ConversionDone
        BY <1>3, AnsweredClean DEF Accept
    <2>2. QED
        BY <1>1, <1>2, <2>1 DEF ConsumerPhases
<1>4. CASE Unchanged \/ Record
    <2>1. phase' \in {"next", "recorded"} /\ CommandDone /\ ConversionDone
        BY <1>4 DEF Unchanged, Record, ConsumerInv, ConsumerPhases
    <2>2. QED
        BY <1>1, <1>2, <2>1 DEF ConsumerPhases
<1>5. CASE Raise
    <2>1. phase' = "raised" /\ (CommandDone \/ ConversionDone)
        BY <1>5 DEF Raise, ConsumerInv, ConsumerPhases
    <2>2. QED
        BY <1>1, <1>2, <2>1 DEF ConsumerPhases
<1>6. QED
    BY <1>3, <1>4, <1>5

\* What goes on without the consumer never makes both busy: the `docker` command of a killed
\* call belongs to the one that was at work, and the world only takes away.
LEMMA OtherPhases ==
    ASSUME ConsumerInv,
           \/ Orphan \/ RemoveWorkspace
           \/ App!World /\ UNCHANGED <<consumerVars, convVars, command, requests, at, results>>
           \/ Conversion!World /\ UNCHANGED <<consumerVars, vars>>
    PROVE  ConsumerPhases'
<1>1. /\ UNCHANGED <<phase, call, declined, litter>>
      /\ call \in 0 .. Calls /\ declined \in BOOLEAN /\ ~litter
    BY DEF Orphan, RemoveWorkspace, consumerVars, ConsumerInv, ConsumerPhases
<1>2. CASE Orphan
    <2>1. phase = "raised" /\ (CommandDone \/ ConversionDone)
        BY <1>2 DEF Orphan, ConsumerInv, ConsumerPhases
    <2>2. CASE App!Steps(Main) /\ UNCHANGED convVars
        <3>1. ConversionDone
            BY <2>1, <2>2, ApplicationBusy DEF CommandDone
        <3>2. ConversionDone'
            BY <2>2, <3>1 DEF ConversionDone, ConversionClean, convVars
        <3>3. QED
            BY <1>1, <2>1, <3>2 DEF ConsumerPhases
    <2>3. CASE /\ \/ Conversion!ImageBuilt \/ Conversion!WorkerStarts \/ Conversion!Remove
                  \/ Conversion!ImageRemoved
               /\ UNCHANGED vars
        <3>1. ~ConversionDone
            BY <2>3 DEF Conversion!ImageBuilt, Conversion!WorkerStarts, Conversion!Remove,
                        Conversion!ImageRemoved, Conversion!Go, ConversionDone
        <3>2. CommandDone'
            BY <2>1, <2>3, <3>1 DEF CommandDone, CommandClean, vars, appVars
        <3>3. QED
            BY <1>1, <2>1, <3>2 DEF ConsumerPhases
    <2>4. QED
        BY <1>2, <2>2, <2>3 DEF Orphan, App!Steps, App!Build, App!Run, App!Close
<1>3. CASE RemoveWorkspace
    <2>1. phase = "raised" /\ (CommandDone \/ ConversionDone)
        BY <1>3 DEF RemoveWorkspace, ConsumerInv, ConsumerPhases
    <2>2. CommandDone' \/ ConversionDone'
        BY <1>3, <2>1 DEF RemoveWorkspace, CommandDone, CommandClean, ConversionDone,
                          ConversionClean
    <2>3. QED
        BY <1>1, <2>1, <2>2 DEF ConsumerPhases
<1>4. CASE \/ App!World /\ UNCHANGED <<consumerVars, convVars, command, requests, at, results>>
           \/ Conversion!World /\ UNCHANGED <<consumerVars, vars>>
    <2>1. UNCHANGED <<pc, at, convPc>>
        BY <1>4, WorldKeeps DEF convVars, vars, appVars
    <2>2. /\ (tag' => tag) /\ containers' \subseteq containers /\ (directory' => directory)
          /\ (convTag' => convTag) /\ (convContainer' => convContainer)
          /\ (convDirectory' => convDirectory)
        BY <1>4, WorldKeeps DEF convVars, vars, appVars
    <2>3. (CommandDone => CommandDone') /\ (ConversionDone => ConversionDone')
        BY <2>1, <2>2 DEF CommandDone, CommandClean, ConversionDone, ConversionClean
    <2>4. DeclinedInv => DeclinedInv'
        BY <1>1, <2>1, <2>2 DEF DeclinedInv
    <2>5. QED
        BY <1>1, <2>3, <2>4 DEF ConsumerInv, ConsumerPhases
<1>5. QED
    BY <1>2, <1>3, <1>4

LEMMA NextConsumer == ConsumerInv /\ [ConsumerNext]_allVars => ConsumerInv'
<1> SUFFICES ASSUME ConsumerInv, [ConsumerNext]_allVars PROVE ConsumerInv'
    OBVIOUS
<1>1. ConsumerCommand' /\ ConversionInv'
    BY CommandKept, ConversionKept DEF ConsumerInv
<1>2. ConsumerPhases'
    BY BeginPhases, WorkPhases, SamePhases, AnswerPhases, OtherPhases
       DEF ConsumerNext, Consumer, allVars
<1>3. QED
    BY <1>1, <1>2 DEF ConsumerInv

LEMMA KeepsConsumer == ConsumerSpec => []ConsumerInv
BY InitConsumer, NextConsumer, PTL DEF ConsumerSpec

-----------------------------------------------------------------------------
\* For any number of programs, cases and controls: behind every call the consumer accepted,
\* rejections among them, there is no image, no container and no directory of any call.
THEOREM AcceptedLeavesNothing == ConsumerSpec => []AcceptedCallsLeaveNothing
<1>1. ConsumerInv => AcceptedCallsLeaveNothing
    BY DEF ConsumerInv, ConsumerPhases, CommandDone, ConversionDone, AcceptedCallsLeaveNothing
<1>2. QED
    BY <1>1, KeepsConsumer, PTL

\* The same of every conversion the consumer calls, although it may be killed anywhere and the
\* workspace be removed behind it.
THEOREM AllReportTruly == ConsumerSpec => []ConversionsReportTruly
<1>1. ConsumerInv => ConversionsReportTruly
    BY DEF ConsumerInv, ConversionInv, ConversionsReportTruly
<1>2. QED
    BY <1>1, KeepsConsumer, PTL

\* There are never two containers, of the converter and of the CPU together, although a call
\* may be killed anywhere and its `docker` command may go on.
THEOREM OneContainerOfBoth == ConsumerSpec => []OneContainerOfAll
<1>1. ConsumerInv => OneContainerOfAll
    <2> SUFFICES ASSUME ConsumerInv PROVE OneContainerOfAll
        OBVIOUS
    <2>1. \A c, d \in containers : c = d
        BY DEF ConsumerInv, ConsumerCommand, CommandInv
    <2>2. CommandDone \/ ConversionDone
        BY DEF ConsumerInv, ConsumerPhases
    <2>3. QED
        BY <2>1, <2>2
           DEF ConsumerInv, ConsumerPhases, CommandDone, CommandClean, ConversionDone,
               ConversionClean, OneContainerOfAll
<1>2. QED
    BY <1>1, KeepsConsumer, PTL

-----------------------------------------------------------------------------
(* Bounded work of the consumer *)

\* What the call at work has left, with what the consumer then does about it.
CallWork ==
    CASE phase = "next"    -> 1
      [] phase = "convert" -> 3 + ConversionLeft
      [] phase = "run"     -> 3 + CommandLeft
      [] phase = "check"   -> 2
      [] OTHER             -> 0

\* No more steps than these are left of the consumer.
ConsumerLeft == IF phase \in {"recorded", "raised"} THEN 0 ELSE 22 * (Calls - call) + CallWork

LEMMA CallWorkType ==
    ASSUME ConsumerInv
    PROVE  /\ ConversionLeft \in 0 .. 12 /\ CommandLeft \in 0 .. 19
           /\ CallWork \in 0 .. 22
           /\ phase = "next" => CallWork = 1
           /\ phase = "check" => CallWork = 2
           /\ phase = "convert" => CallWork = 3 + ConversionLeft
           /\ phase = "run" => CallWork = 3 + CommandLeft
           /\ phase \in {"convert", "run"} => CallWork >= 3
           /\ phase \in {"recorded", "raised"} <=> CallWork = 0
<1>1. ConversionLeft \in 0 .. 12
    BY ConversionLeftType DEF ConsumerInv, ConversionInv
<1>2. CommandLeft \in 0 .. 19
    <2>1. CommandLeft \in 0 .. 6 * requests + 13 /\ requests = 1
        BY CommandLeftType DEF ConsumerInv, ConsumerCommand
    <2>2. QED
        BY <2>1
<1>3. phase \in {"next", "convert", "run", "check", "recorded", "raised"}
    BY DEF ConsumerInv, ConsumerPhases
<1>4. QED
    BY <1>1, <1>2, <1>3 DEF CallWork

LEMMA ConsumerLeftType ==
    ASSUME ConsumerInv
    PROVE  /\ ConsumerLeft \in 0 .. 22 * Calls + 22
           /\ ConsumerLeft = 0 <=> phase \in {"recorded", "raised"}
<1>1. Calls \in Nat /\ call \in 0 .. Calls /\ CallWork \in 0 .. 22
    BY CallsType, CallWorkType DEF ConsumerInv, ConsumerPhases
<1>2. phase \in {"recorded", "raised"} <=> CallWork = 0
    BY CallWorkType
<1>3. QED
    BY <1>1, <1>2 DEF ConsumerLeft

LEMMA WorkLowers ==
    ASSUME ConsumerInv, Convert \/ Run, CallWork' \in Int, ConsumerInv'
    PROVE  ConsumerLeft' < ConsumerLeft
<1>1. Calls \in Nat /\ call \in 0 .. Calls /\ call' = call /\ phase' = phase
    BY CallsType DEF ConsumerInv, ConsumerPhases, Convert, Run, consumerVars
<1>2. /\ ConversionLeft \in Int /\ ConversionLeft' \in Int
      /\ CommandLeft \in Int /\ CommandLeft' \in Int
    <2>1. (ConversionLeft \in 0 .. 12 /\ CommandLeft \in 0 .. 19)'
        BY CallWorkType, PTL
    <2>2. QED
        BY <2>1, CallWorkType
<1>3. CASE Convert
    <2>1. phase = "convert" /\ ConversionLeft' < ConversionLeft
        BY <1>3, ConversionLowers DEF Convert, ConsumerInv
    <2>2. QED
        BY <1>1, <1>2, <2>1 DEF ConsumerLeft, CallWork
<1>4. CASE Run
    <2>1. phase = "run" /\ CommandLeft' < CommandLeft
        BY <1>4, CommandLowers, ApplicationLowers DEF Run, ConsumerInv, ConsumerCommand
    <2>2. QED
        BY <1>1, <1>2, <2>1 DEF ConsumerLeft, CallWork
<1>5. QED
    BY <1>3, <1>4

LEMMA ConsumerLowers ==
    ASSUME ConsumerInv, ConsumerInv', Consumer
    PROVE  ConsumerLeft' < ConsumerLeft
<1>1. Calls \in Nat /\ call \in 0 .. Calls /\ CallWork \in 0 .. 22
    BY CallsType, CallWorkType DEF ConsumerInv, ConsumerPhases
<1>2. (/\ CallWork \in 0 .. 22
       /\ phase = "next" => CallWork = 1
       /\ phase = "check" => CallWork = 2)'
    BY CallWorkType, PTL
<1>3. CASE BeginConversion \/ BeginRun
    <2>1. /\ phase = "next" /\ call' = call + 1 /\ phase' \in {"convert", "run"}
        BY <1>3 DEF BeginConversion, BeginRun, Begin
    <2>2. CallWork = 1
        BY <2>1, CallWorkType
    <2>3. ConsumerLeft = 22 * (Calls - call) + 1
        BY <2>1, <2>2 DEF ConsumerLeft
    <2>4. ConsumerLeft' = 22 * (Calls - (call + 1)) + CallWork'
        BY <2>1 DEF ConsumerLeft, Calls
    <2>5. CallWork' \in 0 .. 22
        BY <1>2
    <2>6. 22 * (Calls - (call + 1)) + CallWork' < 22 * (Calls - call) + 1
        <3>1. Calls - (call + 1) = (Calls - call) - 1 /\ Calls - call \in Int
            BY <1>1
        <3>2. \A d \in Int : \A w \in 0 .. 22 : 22 * (d - 1) + w < 22 * d + 1
            OBVIOUS
        <3>3. QED
            BY <2>5, <3>1, <3>2, Zenon
    <2>7. QED
        BY <2>3, <2>4, <2>6
<1>4. CASE Convert \/ Run
    BY <1>2, <1>4, WorkLowers
<1>5. CASE Accept
    <2>1. phase \in {"convert", "run"} /\ phase' = "check" /\ call' = call
        BY <1>5 DEF Accept
    <2>2. CallWork >= 3 /\ CallWork' = 2
        BY <1>2, <2>1, CallWorkType
    <2>3. QED
        BY <1>1, <2>1, <2>2 DEF ConsumerLeft
<1>6. CASE Unchanged
    <2>1. phase = "check" /\ phase' = "next" /\ call' = call
        BY <1>6 DEF Unchanged
    <2>2. CallWork = 2 /\ CallWork' = 1
        BY <1>2, <2>1, CallWorkType
    <2>3. QED
        BY <1>1, <2>1, <2>2 DEF ConsumerLeft
<1>7. CASE Record \/ Raise
    <2>1. phase \notin {"recorded", "raised"} /\ phase' \in {"recorded", "raised"}
        BY <1>7 DEF Record, Raise
    <2>2. ConsumerLeft # 0 /\ ConsumerLeft \in 0 .. 22 * Calls + 22
        BY <2>1, ConsumerLeftType
    <2>3. ConsumerLeft' = 0
        BY <2>1 DEF ConsumerLeft
    <2>4. QED
        BY <1>1, <2>2, <2>3
<1>8. QED
    BY <1>3, <1>4, <1>5, <1>6, <1>7 DEF Consumer

\* A consumer of n calls takes at most 22n + 1 steps of its
\* own and of its calls, from beginning to record or exception.  Nothing is retried, nothing
\* that goes on without it adds to them, and none is left only when it has ended.
THEOREM ConsumerIsBounded ==
    ConsumerSpec => /\ ConsumerLeft = 22 * Calls + 1
                    /\ [](ConsumerLeft = 0 <=> phase \in {"recorded", "raised"})
                    /\ [](ConsumerLeft \in Nat)
                    /\ [][ConsumerLeft' <= ConsumerLeft]_allVars
                    /\ [][Consumer => ConsumerLeft' < ConsumerLeft]_allVars
<1> DEFINE Bounded == /\ ConsumerLeft = 0 <=> phase \in {"recorded", "raised"}
                      /\ ConsumerLeft \in Nat
           Lowered == /\ ConsumerLeft' <= ConsumerLeft
                      /\ Consumer => ConsumerLeft' < ConsumerLeft
<1>1. ConsumerInit => ConsumerLeft = 22 * Calls + 1
    BY CallsType DEF ConsumerInit, ConsumerLeft, CallWork
<1>2. ConsumerInv => Bounded
    BY CallsType, ConsumerLeftType
<1>3. ConsumerInv /\ [ConsumerNext]_allVars => [Lowered]_allVars
    <2> SUFFICES ASSUME ConsumerInv, ConsumerNext PROVE [Lowered]_allVars
        OBVIOUS
    <2>1. ConsumerInv'
        BY NextConsumer
    <2>2. ConsumerLeft \in Nat /\ (ConsumerLeft \in Nat)'
        <3>1. Bounded'
            BY <1>2, <2>1, PTL
        <3>2. QED
            BY <1>2, <3>1
    <2>3. Consumer => ConsumerLeft' < ConsumerLeft
        BY <2>1, ConsumerLowers
    <2>4. CASE Consumer
        BY <2>2, <2>3, <2>4
    <2>5. CASE Orphan \/ RemoveWorkspace
        <3>1. phase' = phase /\ phase = "raised"
            BY <2>5 DEF Orphan, RemoveWorkspace, consumerVars
        <3>2. ConsumerLeft' = 0 /\ ConsumerLeft = 0
            BY <3>1 DEF ConsumerLeft
        <3>3. QED
            BY <2>3, <3>2
    <2>6. CASE \/ App!World /\ UNCHANGED <<consumerVars, convVars, command, requests, at, results>>
               \/ Conversion!World /\ UNCHANGED <<consumerVars, vars>>
        <3>1. UNCHANGED <<phase, call, pc, convPc, at, requests, results>>
            BY <2>6, WorldKeeps DEF consumerVars, convVars, vars, appVars
        <3>2. ConsumerLeft' = ConsumerLeft
            BY <3>1 DEF ConsumerLeft, Calls, CallWork, ConversionLeft, CommandLeft, CallLeft,
                        Safe!StepsLeft
        <3>3. QED
            BY <2>2, <2>3, <3>2
    <2>7. QED
        BY <2>4, <2>5, <2>6 DEF ConsumerNext
<1>4. QED
    BY <1>1, <1>2, <1>3, KeepsConsumer, PTL DEF ConsumerSpec

=============================================================================
