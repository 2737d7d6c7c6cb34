--------------------------- MODULE BoundedProcess ---------------------------
(***************************************************************************)
(* One call of _bounded_process (runtime/bounded_c11_application.py): the  *)
(* parent starts a command in a session of its own, feeds it stdin and     *)
(* drains stdout and stderr through one selector, under one deadline and   *)
(* one byte limit per output, and never leaves the loop with the command   *)
(* still running.                                                          *)
(*                                                                         *)
(* A byte stream is the number of bytes that went through it: pipes are    *)
(* FIFO, so equal counts are equal contents.  The command is any process   *)
(* that reads, writes, closes its ends, forks one helper into its process  *)
(* group and exits, in any order.                                          *)
(***************************************************************************)
EXTENDS Integers, FiniteSets

CONSTANTS
    InputLens,    \* the lengths of input_bytes to try; 0 stands for b"" and for None (both
                  \* give the command an immediate end of file)
    InputBudget,  \* longest input that is accepted (1048576 in the code)
    Limit,        \* stdout_limit and stderr_limit
    PipeSize,     \* capacity of a kernel pipe
    Chunk,        \* largest single read or write (65536 in the code)
    MaxOutput     \* model bound: no process writes more than this to one stream

Outputs == {"stdout", "stderr"}
Streams == Outputs \union {"stdin"}
Group   == {"leader", "helper"}    \* start_new_session: the leader and a descendant

ASSUME ProcessAssumption ==
    /\ InputLens \subseteq Nat
    /\ InputBudget \in Nat
    /\ Limit \in [Outputs -> Nat]
    /\ PipeSize \in Nat \ {0}
    /\ Chunk \in Nat \ {0}
    /\ MaxOutput \in Nat

VARIABLES
    pc,          \* where the parent is
    inputLen,    \* len(input_bytes)
    offset,      \* bytes of input the pipe has accepted
    buffers,     \* bytes captured per output
    registered,  \* selector.get_map()
    ready,       \* events of the current selector.select() not yet handled
    parentOpen,  \* pipe ends the parent has not closed
    result,      \* what the call returns or raises
    expired,     \* time.monotonic() has passed the deadline
    inPipe,      \* bytes waiting in the stdin pipe
    outPipe,     \* bytes waiting in the output pipes
    written,     \* bytes the group wrote, per output
    proc,        \* state of each process of the group
    holds        \* pipe ends each process of the group holds

parentVars == <<pc, inputLen, offset, buffers, registered, ready, parentOpen, result>>
groupVars  == <<written, proc, holds>>
pipeVars   == <<inPipe, outPipe>>
vars       == <<parentVars, expired, pipeVars, groupVars>>

Results == {"none", "ok", "input_rejection", "output_limit", "timeout", "interrupted"}

TypeOK ==
    /\ pc \in {"idle", "setup", "loop", "handle", "wait", "terminate", "finally", "done"}
    /\ inputLen \in Nat /\ offset \in 0 .. inputLen
    /\ buffers \in [Outputs -> Nat]
    /\ registered \subseteq Streams /\ ready \subseteq Streams /\ parentOpen \subseteq Streams
    /\ result \in Results
    /\ expired \in BOOLEAN
    /\ inPipe \in 0 .. PipeSize
    /\ outPipe \in [Outputs -> 0 .. PipeSize]
    /\ written \in [Outputs -> Nat]
    /\ proc \in [Group -> {"unborn", "alive", "dead"}]
    /\ holds \in [Group -> SUBSET Streams]

Alive     == {p \in Group : proc[p] = "alive"}
Held(s)   == \E p \in Group : s \in holds[p]
AtMost(m, n) == IF m <= n THEN m ELSE n

Init ==
    /\ pc = "idle" /\ inputLen = 0 /\ offset = 0 /\ buffers = [s \in Outputs |-> 0]
    /\ registered = {} /\ ready = {} /\ parentOpen = {} /\ result = "none"
    /\ expired = FALSE /\ inPipe = 0 /\ outPipe = [s \in Outputs |-> 0]
    /\ written = [s \in Outputs |-> 0]
    /\ proc = [p \in Group |-> "unborn"] /\ holds = [p \in Group |-> {}]

-----------------------------------------------------------------------------
(* The parent. *)

\* Too long an input is refused before a process exists.
RejectInput ==
    /\ pc = "idle"
    /\ \E n \in InputLens : n > InputBudget /\ inputLen' = n
    /\ pc' = "done" /\ result' = "input_rejection"
    /\ UNCHANGED <<offset, buffers, registered, ready, parentOpen, expired, pipeVars, groupVars>>

\* Popen: the leader runs and both sides hold their ends of three pipes.
Start ==
    /\ pc = "idle"
    /\ \E n \in InputLens : n <= InputBudget /\ inputLen' = n
    /\ pc' = "setup" /\ parentOpen' = Streams
    /\ proc' = [proc EXCEPT !["leader"] = "alive"]
    /\ holds' = [holds EXCEPT !["leader"] = Streams]
    /\ UNCHANGED <<offset, buffers, registered, ready, result, expired, pipeVars, written>>

\* Both outputs are registered; stdin only if there is something to send.
Register ==
    /\ pc = "setup" /\ pc' = "loop"
    /\ registered' = IF inputLen = 0 THEN Outputs ELSE Streams
    /\ parentOpen' = IF inputLen = 0 THEN Outputs ELSE Streams
    /\ UNCHANGED <<inputLen, offset, buffers, ready, result, expired, pipeVars, groupVars>>

Raise(reason) == pc' = "terminate" /\ result' = reason

\* remaining <= 0 at the top of the loop, or after it.
LoopTimeout ==
    /\ pc = "loop" /\ expired
    /\ Raise("timeout")
    /\ UNCHANGED <<inputLen, offset, buffers, registered, ready, parentOpen, expired,
                   pipeVars, groupVars>>

Readable(s) == outPipe[s] > 0 \/ ~Held(s)
Writable    == inPipe < PipeSize \/ ~Held("stdin")
IsReady(s)  == IF s = "stdin" THEN Writable ELSE Readable(s)

\* Mutant: the outputs are looked at only when the whole input has been sent.
SelectInputFirst ==
    /\ pc = "loop" /\ ~expired /\ registered # {}
    /\ ready' = {s \in IF "stdin" \in registered THEN {"stdin"} ELSE registered : IsReady(s)}
    /\ pc' = "handle"
    /\ UNCHANGED <<inputLen, offset, buffers, registered, parentOpen, result, expired,
                   pipeVars, groupVars>>

\* select() reports every ready stream and may report one that would block after all.
Select ==
    /\ pc = "loop" /\ ~expired /\ registered # {}
    /\ \E r \in SUBSET registered :
          /\ {s \in registered : IsReady(s)} \subseteq r
          /\ ready' = r
    /\ pc' = "handle"
    /\ UNCHANGED <<inputLen, offset, buffers, registered, parentOpen, result, expired,
                   pipeVars, groupVars>>

Unregister(s) ==
    /\ registered' = registered \ {s}
    /\ parentOpen' = parentOpen \ {s}

\* Mutant: a read that would block counts as the end of the file.
WouldBlockCloses(s) ==
    /\ pc = "handle" /\ s \in ready /\ ~IsReady(s)
    /\ ready' = ready \ {s}
    /\ IF s \in Outputs THEN Unregister(s) ELSE UNCHANGED <<registered, parentOpen>>
    /\ UNCHANGED <<pc, inputLen, offset, buffers, result, expired, pipeVars, groupVars>>

\* BlockingIOError: the stream is left for the next round.
WouldBlock(s) ==
    /\ pc = "handle" /\ s \in ready /\ ~IsReady(s)
    /\ ready' = ready \ {s}
    /\ UNCHANGED <<pc, inputLen, offset, buffers, registered, parentOpen, result, expired,
                   pipeVars, groupVars>>

\* Mutant: one os.write is taken to have sent everything.
WriteInputOnce ==
    /\ pc = "handle" /\ "stdin" \in ready /\ Held("stdin")
    /\ \E k \in 1 .. AtMost(Chunk, AtMost(inputLen - offset, PipeSize - inPipe)) :
          offset' = offset + k /\ inPipe' = inPipe + k
    /\ Unregister("stdin")
    /\ ready' = ready \ {"stdin"}
    /\ UNCHANGED <<pc, inputLen, buffers, result, expired, outPipe, groupVars>>

\* os.write accepts some of the next chunk; the stream is closed once all is sent.
WriteInput ==
    /\ pc = "handle" /\ "stdin" \in ready /\ Held("stdin")
    /\ \E k \in 1 .. AtMost(Chunk, AtMost(inputLen - offset, PipeSize - inPipe)) :
          /\ offset' = offset + k
          /\ inPipe' = inPipe + k
          /\ IF offset + k = inputLen THEN Unregister("stdin")
                                      ELSE UNCHANGED <<registered, parentOpen>>
    /\ ready' = ready \ {"stdin"}
    /\ UNCHANGED <<pc, inputLen, buffers, result, expired, outPipe, groupVars>>

\* BrokenPipeError: nobody reads stdin any more; the rest of the input is dropped.
BrokenPipe ==
    /\ pc = "handle" /\ "stdin" \in ready /\ ~Held("stdin")
    /\ Unregister("stdin")
    /\ ready' = ready \ {"stdin"}
    /\ UNCHANGED <<pc, inputLen, offset, buffers, result, expired, pipeVars, groupVars>>

\* Mutants: no byte beyond the limit is asked for; every read asks for a full chunk.
ReadSizeWithoutProbe(s) == AtMost(Chunk, Limit[s] - buffers[s])
ReadSizeOfChunk(s) == Chunk

ReadSize(s) == AtMost(Chunk, Limit[s] - buffers[s] + 1)

\* What os.read(fd, size) may return: a read of no bytes, and a read of an empty pipe
\* that nobody holds, return b"".
ReadResults(s, size) ==
    IF size = 0 \/ (outPipe[s] = 0 /\ ~Held(s)) THEN {0} ELSE 1 .. AtMost(size, outPipe[s])

\* Mutant: an output of exactly the limit is too long.
ReadOutputBelowLimit(s) ==
    /\ pc = "handle" /\ s \in ready \intersect Outputs /\ IsReady(s)
    /\ ready' = ready \ {s}
    /\ \E k \in ReadResults(s, ReadSize(s)) :
          /\ outPipe' = [outPipe EXCEPT ![s] = @ - k]
          /\ \/ k = 0 /\ Unregister(s) /\ UNCHANGED <<pc, result, buffers>>
             \/ /\ k > 0 /\ buffers[s] + k >= Limit[s]
                /\ Raise("output_limit")
                /\ UNCHANGED <<registered, parentOpen, buffers>>
             \/ /\ k > 0 /\ buffers[s] + k < Limit[s]
                /\ buffers' = [buffers EXCEPT ![s] = @ + k]
                /\ UNCHANGED <<pc, result, registered, parentOpen>>
    /\ UNCHANGED <<inputLen, offset, expired, inPipe, groupVars>>

\* os.read of an output: b"" closes the stream, a chunk that passes the limit aborts the
\* call, any other chunk is kept.
ReadOutput(s) ==
    /\ pc = "handle" /\ s \in ready \intersect Outputs /\ IsReady(s)
    /\ ready' = ready \ {s}
    /\ \E k \in ReadResults(s, ReadSize(s)) :
          /\ outPipe' = [outPipe EXCEPT ![s] = @ - k]
          /\ \/ /\ k = 0
                /\ Unregister(s)
                /\ UNCHANGED <<pc, result, buffers>>
             \/ /\ k > 0 /\ buffers[s] + k > Limit[s]
                /\ Raise("output_limit")
                /\ UNCHANGED <<registered, parentOpen, buffers>>
             \/ /\ k > 0 /\ buffers[s] + k <= Limit[s]
                /\ buffers' = [buffers EXCEPT ![s] = @ + k]
                /\ UNCHANGED <<pc, result, registered, parentOpen>>
    /\ UNCHANGED <<inputLen, offset, expired, inPipe, groupVars>>

NextRound ==
    /\ pc = "handle" /\ ready = {} /\ pc' = "loop"
    /\ UNCHANGED <<inputLen, offset, buffers, registered, ready, parentOpen, result, expired,
                   pipeVars, groupVars>>

\* Mutant: the loop runs while process.poll() is None.
DrainedOnExit ==
    /\ pc = "loop" /\ ~expired /\ (registered = {} \/ proc["leader"] = "dead") /\ pc' = "wait"
    /\ UNCHANGED <<inputLen, offset, buffers, registered, ready, parentOpen, result, expired,
                   pipeVars, groupVars>>

Drained ==
    /\ pc = "loop" /\ ~expired /\ registered = {} /\ pc' = "wait"
    /\ UNCHANGED <<inputLen, offset, buffers, registered, ready, parentOpen, result, expired,
                   pipeVars, groupVars>>

\* process.wait(timeout=remaining): the leader's exit, or TimeoutExpired.
Reap ==
    /\ pc = "wait" /\ proc["leader"] = "dead"
    /\ pc' = "finally" /\ result' = "ok"
    /\ UNCHANGED <<inputLen, offset, buffers, registered, ready, parentOpen, expired,
                   pipeVars, groupVars>>

\* Mutant: process.wait() without a timeout.
WaitForever == FALSE

WaitTimeout ==
    /\ pc = "wait" /\ proc["leader"] # "dead" /\ expired
    /\ Raise("timeout")
    /\ UNCHANGED <<inputLen, offset, buffers, registered, ready, parentOpen, expired,
                   pipeVars, groupVars>>

\* Any other exception inside the try: a failing selector, an OSError, KeyboardInterrupt.
Interrupt ==
    /\ pc \in {"setup", "loop", "handle", "wait"}
    /\ Raise("interrupted")
    /\ UNCHANGED <<inputLen, offset, buffers, registered, ready, parentOpen, expired,
                   pipeVars, groupVars>>

\* Mutant: process.kill(), which reaches the leader alone.
TerminateLeader ==
    /\ pc = "terminate" /\ pc' = "finally"
    /\ proc' = [proc EXCEPT !["leader"] = "dead"]
    /\ holds' = [holds EXCEPT !["leader"] = {}]
    /\ UNCHANGED <<inputLen, offset, buffers, registered, ready, parentOpen, result, expired,
                   pipeVars, written>>

\* _terminate: SIGKILL to the whole process group.
Terminate ==
    /\ pc = "terminate" /\ pc' = "finally"
    /\ proc' = [p \in Group |-> IF proc[p] = "alive" THEN "dead" ELSE proc[p]]
    /\ holds' = [p \in Group |-> {}]
    /\ UNCHANGED <<inputLen, offset, buffers, registered, ready, parentOpen, result, expired,
                   pipeVars, written>>

\* The finally clause closes the selector and every stream.
Finally ==
    /\ pc = "finally" /\ pc' = "done"
    /\ registered' = {} /\ ready' = {} /\ parentOpen' = {}
    /\ UNCHANGED <<inputLen, offset, buffers, result, expired, pipeVars, groupVars>>

Parent ==
    \/ RejectInput \/ Start \/ Register \/ LoopTimeout \/ Select \/ NextRound \/ Drained
    \/ WriteInput \/ BrokenPipe \/ Reap \/ WaitTimeout \/ Terminate \/ Finally
    \/ \E s \in Streams : WouldBlock(s)
    \/ \E s \in Outputs : ReadOutput(s)

-----------------------------------------------------------------------------
(* The command (external): whatever a program with these pipes can do. *)

Fork ==
    /\ proc["leader"] = "alive" /\ proc["helper"] = "unborn"
    /\ proc' = [proc EXCEPT !["helper"] = "alive"]
    /\ holds' = [holds EXCEPT !["helper"] = holds["leader"]]
    /\ UNCHANGED <<parentVars, expired, pipeVars, written>>

GroupWrite(p, s) ==
    /\ p \in Alive /\ s \in holds[p] \intersect parentOpen
    /\ \E k \in 1 .. AtMost(PipeSize - outPipe[s], MaxOutput - written[s]) :
          /\ outPipe' = [outPipe EXCEPT ![s] = @ + k]
          /\ written' = [written EXCEPT ![s] = @ + k]
    /\ UNCHANGED <<parentVars, expired, inPipe, proc, holds>>

GroupRead(p) ==
    /\ p \in Alive /\ "stdin" \in holds[p]
    /\ \E k \in 1 .. inPipe : inPipe' = inPipe - k
    /\ UNCHANGED <<parentVars, expired, outPipe, groupVars>>

CloseEnd(p, s) ==
    /\ p \in Alive /\ s \in holds[p]
    /\ holds' = [holds EXCEPT ![p] = @ \ {s}]
    /\ UNCHANGED <<parentVars, expired, pipeVars, written, proc>>

Exit(p) ==
    /\ p \in Alive
    /\ proc' = [proc EXCEPT ![p] = "dead"]
    /\ holds' = [holds EXCEPT ![p] = {}]
    /\ UNCHANGED <<parentVars, expired, pipeVars, written>>

Command ==
    \/ Fork
    \/ \E p \in Group : GroupRead(p) \/ Exit(p)
    \/ \E p \in Group, s \in Outputs : GroupWrite(p, s)
    \/ \E p \in Group, s \in Streams : CloseEnd(p, s)

\* time.monotonic() passes the deadline.
DeadlinePasses ==
    /\ pc \notin {"idle", "done"} /\ ~expired
    /\ expired' = TRUE
    /\ UNCHANGED <<parentVars, pipeVars, groupVars>>

Next == Parent \/ Interrupt \/ Command \/ DeadlinePasses

\* The calling thread runs and time passes.  Nothing is assumed of the command.
Spec == Init /\ [][Next]_vars /\ WF_vars(Parent) /\ WF_vars(DeadlinePasses)

-----------------------------------------------------------------------------
(* Properties. *)

\* A call that returns has captured every byte the command wrote, within the limits, and
\* nobody can write any more: the read of limit - len + 1 bytes in _bounded_process never
\* becomes a read of 0 bytes that would pass for the end of the stream.
CompleteCapture ==
    result = "ok" =>
        /\ proc["leader"] = "dead"
        /\ \A s \in Outputs : /\ buffers[s] = written[s] /\ buffers[s] <= Limit[s]
                             /\ ~Held(s)

\* Whatever the command writes, at most one byte beyond the limit leaves the pipe
\* (test_pipe_overflow_reads_only_one_extra_byte_then_kills_group).
BoundedOverread == \A s \in Outputs : written[s] - outPipe[s] <= Limit[s] + 1

\* output_limit is raised only for a command that really wrote more than its limit.
OutputLimitJustified ==
    result = "output_limit" => \E s \in Outputs : written[s] > Limit[s]

\* A call that raised after the process was started leaves nothing of the process group
\* alive, not even a descendant that outlived the leader, and no pipe open.
NothingLeftRunning ==
    pc = "done" /\ result # "ok" => Alive = {} /\ parentOpen = {}

\* While somebody may still read it, the loop closes stdin only after the last byte of
\* the input: the command never mistakes a prefix of the request for the request.
NoTruncatedInput ==
    [][pc = "handle" /\ Held("stdin") /\ "stdin" \in parentOpen \ parentOpen'
          => offset' = inputLen]_vars

\* Unless the call fails, no output is closed while a process of the group, the leader or a
\* descendant that outlived it, could still write to it or bytes wait in its pipe: a command
\* within its limits and its time is never cut off by a broken pipe.
NoOutputCutOff ==
    [][\A s \in parentOpen \ parentOpen' :
          result \in {"none", "ok"} /\ s \in Outputs => ~Held(s) /\ outPipe[s] = 0]_vars

\* The call returns or raises, whatever the command does: it may hold its pipes, loop or
\* leave a descendant holding them (BUILD_TIMEOUT, RUN_TIMEOUT, CONTROL_TIMEOUT).
CallEnds == <>(pc = "done")

-----------------------------------------------------------------------------
(* A well-behaved command: a filter that blocks on its own output, before the deadline.  *)
(* The application container is one: it reads the whole request, then answers.           *)

Consumed == offset - inPipe

Filter ==
    \/ written["stdout"] = Consumed /\ GroupRead("leader")
    \/ GroupWrite("leader", "stdout") /\ (written["stdout"])' <= Consumed
    \/ /\ "stdin" \notin parentOpen /\ inPipe = 0 /\ written["stdout"] = Consumed
       /\ Exit("leader")

FilterSpec == Init /\ [][Parent \/ Filter]_vars /\ WF_vars(Parent) /\ WF_vars(Filter)

\* Parent and filter never wait for each other: however small the pipes, an input that
\* fits the response limit comes back whole, without the deadline's help.
FilterAnswers ==
    <>/\ pc = "done"
      /\ \/ result = "ok" /\ buffers["stdout"] = inputLen
         \/ result = "output_limit" /\ inputLen > Limit["stdout"]
         \/ result = "input_rejection"

=============================================================================
