------------------------ MODULE BoundedProcessProofs ------------------------
(***************************************************************************)
(* Safety of _bounded_process for every pipe size, limit, chunk and input. *)
(***************************************************************************)
EXTENDS BoundedProcess, FiniteSetTheorems, TLAPS

Try == {"setup", "loop", "handle", "wait"}

\* Every byte of an output is captured, in the pipe, or was read in the one chunk that
\* broke the limit.
Accounting ==
    \A s \in Outputs :
        /\ buffers[s] <= Limit[s]
        /\ buffers[s] + outPipe[s] <= written[s]
        /\ written[s] - outPipe[s] <= Limit[s] + 1
        /\ result # "output_limit" => buffers[s] + outPipe[s] = written[s]

\* Where the parent is decides what it has to say.
Control ==
    /\ pc \in {"idle"} \union Try <=> result = "none"
    /\ pc = "terminate" => result \in {"timeout", "output_limit", "interrupted"}
    /\ pc = "idle" => offset = 0 /\ parentOpen = {} /\ \A p \in Group : proc[p] = "unborn"
    /\ pc \in {"finally", "done"} =>
          result \in {"ok", "timeout", "output_limit", "interrupted", "input_rejection"}
    /\ result = "input_rejection" => pc = "done" /\ \A p \in Group : proc[p] = "unborn"

\* The selector watches exactly the outputs that are open.
Watching ==
    /\ pc \in {"loop", "handle", "wait"} =>
          registered \intersect Outputs = parentOpen \intersect Outputs
    /\ pc = "handle" => ready \subseteq registered
    /\ pc = "setup" => parentOpen = Streams
    /\ pc = "wait" => registered = {}

\* An output is closed in the loop only when nobody holds it and nothing is left in it.
EndOfStream ==
    /\ pc \in {"loop", "handle", "wait"} =>
          \A s \in Outputs \ parentOpen : ~Held(s) /\ outPipe[s] = 0
    /\ result = "ok" => /\ proc["leader"] = "dead"
                        /\ \A s \in Outputs : ~Held(s) /\ outPipe[s] = 0

\* Only a living process holds pipe ends, and one is born only while the leader lives.
Lifetimes ==
    /\ \A p \in Group : holds[p] # {} => proc[p] = "alive"
    /\ pc \in {"finally", "done"} /\ result # "ok" => Alive = {}
    /\ pc = "done" => parentOpen = {}

LimitBroken ==
    result = "output_limit" => \E s \in Outputs : written[s] > Limit[s]

IInv == TypeOK /\ Accounting /\ Control /\ Watching /\ EndOfStream /\ Lifetimes /\ LimitBroken

-----------------------------------------------------------------------------
LEMMA InitIInv == Init => IInv
<1> SUFFICES ASSUME Init PROVE IInv
    OBVIOUS
<1>1. TypeOK
    <2>1. /\ outPipe \in [Outputs -> 0 .. PipeSize] /\ buffers \in [Outputs -> Nat]
          /\ written \in [Outputs -> Nat]
        BY ProcessAssumption DEF Init
    <2>2. proc \in [Group -> {"unborn", "alive", "dead"}] /\ holds \in [Group -> SUBSET Streams]
        BY DEF Init
    <2>3. inputLen \in Nat /\ offset \in 0 .. inputLen /\ inPipe \in 0 .. PipeSize
        BY ProcessAssumption DEF Init
    <2>4. /\ registered \subseteq Streams /\ ready \subseteq Streams /\ parentOpen \subseteq Streams
          /\ result \in Results /\ expired \in BOOLEAN
          /\ pc \in {"idle", "setup", "loop", "handle", "wait", "terminate", "finally", "done"}
        BY DEF Init, Results
    <2>5. QED
        BY <2>1, <2>2, <2>3, <2>4 DEF TypeOK
<1> USE ProcessAssumption DEF Init, Outputs, Group, Streams
<1>2. Accounting
    BY DEF Accounting
<1>3. Control /\ Watching /\ LimitBroken
    BY DEF Control, Try, Watching, LimitBroken
<1>4. EndOfStream /\ Lifetimes
    BY DEF EndOfStream, Lifetimes, Held, Alive
<1>5. QED
    BY <1>1, <1>2, <1>3, <1>4 DEF IInv

LEMMA NextIInv == IInv /\ [Next]_vars => IInv'
<1> SUFFICES ASSUME IInv, [Next]_vars PROVE IInv'
    OBVIOUS
<1> USE ProcessAssumption
<1> USE DEF IInv, TypeOK, Results, Accounting, Control, Try, Watching, EndOfStream, Lifetimes,
            LimitBroken, Outputs, Streams, Group, Held, Alive, Raise, Unregister,
            parentVars, groupVars, pipeVars
<1>1. CASE RejectInput
    <2>1. PICK n \in InputLens : n > InputBudget /\ inputLen' = n
        BY <1>1 DEF RejectInput
    <2>2. inputLen' \in Nat /\ offset' = 0
        BY <1>1, <2>1 DEF RejectInput
    <2>3. TypeOK'
        BY <1>1, <2>2 DEF RejectInput
    <2>4. QED
        BY <1>1, <2>3 DEF RejectInput
<1>2. CASE Start
    <2>1. PICK n \in InputLens : n <= InputBudget /\ inputLen' = n
        BY <1>2 DEF Start
    <2>2. inputLen' \in Nat /\ offset' = 0
        BY <1>2, <2>1 DEF Start
    <2>3. TypeOK'
        BY <1>2, <2>2 DEF Start
    <2>4. QED
        BY <1>2, <2>3 DEF Start
<1>3. CASE Register
    BY <1>3 DEF Register
<1>4. CASE LoopTimeout
    BY <1>4 DEF LoopTimeout
<1>5. CASE Select
    BY <1>5 DEF Select
<1>6. CASE NextRound
    BY <1>6 DEF NextRound
<1>7. CASE Drained
    BY <1>7 DEF Drained
<1>8. CASE WriteInput
    <2>1. PICK k \in 1 .. AtMost(Chunk, AtMost(inputLen - offset, PipeSize - inPipe)) :
              offset' = offset + k /\ inPipe' = inPipe + k
        BY <1>8 DEF WriteInput
    <2>2. Chunk \in Int /\ inputLen - offset \in Int /\ PipeSize - inPipe \in Int
        OBVIOUS
    <2>3. k \in Nat /\ k <= inputLen - offset /\ k <= PipeSize - inPipe
        BY <2>1, <2>2 DEF AtMost
    <2>4. offset' \in 0 .. inputLen /\ inPipe' \in 0 .. PipeSize
        BY <2>1, <2>3
    <2>5. TypeOK'
        BY <1>8, <2>4 DEF WriteInput
    <2>6. QED
        BY <1>8, <2>5 DEF WriteInput
<1>9. CASE BrokenPipe
    BY <1>9 DEF BrokenPipe
<1>10. CASE Reap
    BY <1>10 DEF Reap
<1>11. CASE WaitTimeout
    BY <1>11 DEF WaitTimeout
<1>12. CASE Terminate
    BY <1>12 DEF Terminate
<1>13. CASE Finally
    BY <1>13 DEF Finally
<1>14. CASE Interrupt
    BY <1>14 DEF Interrupt
<1>15. CASE Fork
    BY <1>15 DEF Fork
<1>16. CASE DeadlinePasses
    BY <1>16 DEF DeadlinePasses
<1>17. ASSUME NEW s \in Streams, WouldBlock(s) PROVE IInv'
    BY <1>17 DEF WouldBlock
<1>18. ASSUME NEW s \in Outputs, ReadOutput(s) PROVE IInv'
    <2>1. PICK k \in ReadResults(s, ReadSize(s)) :
              /\ outPipe' = [outPipe EXCEPT ![s] = @ - k]
              /\ \/ k = 0 /\ Unregister(s) /\ UNCHANGED <<pc, result, buffers>>
                 \/ /\ k > 0 /\ buffers[s] + k > Limit[s] /\ Raise("output_limit")
                    /\ UNCHANGED <<registered, parentOpen, buffers>>
                 \/ /\ k > 0 /\ buffers[s] + k <= Limit[s]
                    /\ buffers' = [buffers EXCEPT ![s] = @ + k]
                    /\ UNCHANGED <<pc, result, registered, parentOpen>>
        BY <1>18 DEF ReadOutput
    <2>2. ReadSize(s) \in 1 .. Limit[s] - buffers[s] + 1
        BY DEF ReadSize, AtMost
    <2>3. k = 0 => outPipe[s] = 0 /\ ~Held(s)
        BY <2>1, <2>2 DEF ReadResults
    <2>4. k \in 0 .. outPipe[s] /\ k <= Limit[s] - buffers[s] + 1
        <3>1. outPipe[s] \in Nat /\ ReadSize(s) \in Int
            BY <2>2
        <3>2. CASE k \in 1 .. AtMost(ReadSize(s), outPipe[s])
            BY <2>2, <3>1, <3>2 DEF AtMost
        <3>3. CASE k = 0
            BY <2>2, <3>1, <3>3
        <3>4. QED
            BY <2>1, <3>2, <3>3 DEF ReadResults
    <2>5. TypeOK'
        <3>1. outPipe' \in [Outputs -> 0 .. PipeSize] /\ buffers' \in [Outputs -> Nat]
            BY <2>1, <2>4
        <3>2. QED
            BY <1>18, <2>1, <3>1 DEF ReadOutput
    <2>6. Accounting'
        BY <1>18, <2>1, <2>4 DEF ReadOutput
    <2>7. LimitBroken'
        BY <1>18, <2>1, <2>4 DEF ReadOutput
    <2>8. (Control /\ Watching /\ Lifetimes)'
        BY <1>18, <2>1 DEF ReadOutput
    <2>9. EndOfStream'
        BY <1>18, <2>1, <2>3 DEF ReadOutput
    <2>10. QED
        BY <2>5, <2>6, <2>7, <2>8, <2>9
<1>19. ASSUME NEW p \in Group, GroupRead(p) PROVE IInv'
    BY <1>19 DEF GroupRead
<1>20. ASSUME NEW p \in Group, Exit(p) PROVE IInv'
    BY <1>20 DEF Exit
<1>21. ASSUME NEW p \in Group, NEW s \in Outputs, GroupWrite(p, s) PROVE IInv'
    <2>1. PICK k \in 1 .. AtMost(PipeSize - outPipe[s], MaxOutput - written[s]) :
              /\ outPipe' = [outPipe EXCEPT ![s] = @ + k]
              /\ written' = [written EXCEPT ![s] = @ + k]
        BY <1>21 DEF GroupWrite
    <2>2. k \in Nat /\ k <= PipeSize - outPipe[s]
        <3>1. PipeSize - outPipe[s] \in Int /\ MaxOutput - written[s] \in Int
            OBVIOUS
        <3>2. QED
            BY <2>1, <3>1 DEF AtMost
    <2>3. TypeOK'
        <3>1. outPipe' \in [Outputs -> 0 .. PipeSize] /\ written' \in [Outputs -> Nat]
            BY <2>1, <2>2
        <3>2. QED
            BY <1>21, <3>1 DEF GroupWrite
    <2>4. Accounting' /\ LimitBroken'
        BY <1>21, <2>1, <2>2 DEF GroupWrite
    <2>5. (Control /\ Watching /\ Lifetimes)'
        BY <1>21 DEF GroupWrite
    <2>6. EndOfStream'
        BY <1>21, <2>1 DEF GroupWrite
    <2>7. QED
        BY <2>3, <2>4, <2>5, <2>6
<1>22. ASSUME NEW p \in Group, NEW s \in Streams, CloseEnd(p, s) PROVE IInv'
    BY <1>22 DEF CloseEnd
<1>23. CASE UNCHANGED vars
    BY <1>23 DEF vars
<1>24. QED
    BY <1>1, <1>2, <1>3, <1>4, <1>5, <1>6, <1>7, <1>8, <1>9, <1>10, <1>11, <1>12, <1>13, <1>14, <1>15, <1>16, <1>17, <1>18, <1>19, <1>20, <1>21, <1>22, <1>23 DEF Next, Parent, Command

\* Type correctness: the offset never passes the input, a pipe is never over full.
THEOREM TypeCorrect == Spec => []TypeOK
<1>1. IInv => TypeOK
    BY DEF IInv
<1>2. QED
    BY InitIInv, NextIInv, <1>1, PTL DEF Spec

\* A call that returns captured the whole output, whatever the sizes of pipes, reads and
\* limits: no read of the loop can ask for 0 bytes and take b"" for the end of the stream.
THEOREM CaptureIsComplete == Spec => []CompleteCapture
<1>1. IInv => CompleteCapture
    <2> SUFFICES ASSUME IInv, result = "ok" PROVE CompleteCapture
        BY DEF CompleteCapture
    <2>1. proc["leader"] = "dead" /\ \A s \in Outputs : ~Held(s) /\ outPipe[s] = 0
        BY DEF IInv, EndOfStream
    <2>2. \A s \in Outputs : buffers[s] <= Limit[s] /\ buffers[s] + outPipe[s] = written[s]
        BY DEF IInv, Accounting
    <2>3. \A s \in Outputs : buffers[s] = written[s]
        BY <2>1, <2>2 DEF IInv, TypeOK
    <2>4. QED
        BY <2>1, <2>2, <2>3 DEF CompleteCapture
<1>2. QED
    BY InitIInv, NextIInv, <1>1, PTL DEF Spec

\* The parent takes at most one byte more than a limit out of a pipe.
THEOREM OverreadIsBounded == Spec => []BoundedOverread
<1>1. IInv => BoundedOverread
    BY DEF IInv, Accounting, BoundedOverread
<1>2. QED
    BY InitIInv, NextIInv, <1>1, PTL DEF Spec

\* output_limit is never raised for a command within its limits.
THEOREM LimitIsJustified == Spec => []OutputLimitJustified
<1>1. IInv => OutputLimitJustified
    BY DEF IInv, LimitBroken, OutputLimitJustified
<1>2. QED
    BY InitIInv, NextIInv, <1>1, PTL DEF Spec

\* However the call fails, no process of the group and no pipe is left.
THEOREM NothingLeft == Spec => []NothingLeftRunning
<1>1. IInv => NothingLeftRunning
    BY DEF IInv, Lifetimes, NothingLeftRunning
<1>2. QED
    BY InitIInv, NextIInv, <1>1, PTL DEF Spec

\* No step of the loop closes stdin on a command that may still read it before the whole
\* input went into the pipe.
THEOREM InputIsWhole == Spec => NoTruncatedInput
<1> DEFINE Step == pc = "handle" /\ Held("stdin") /\ "stdin" \in parentOpen \ parentOpen'
                       => offset' = inputLen
<1>1. IInv /\ [Next]_vars => [Step]_vars
    <2> SUFFICES ASSUME IInv, Next, pc = "handle", Held("stdin"),
                        "stdin" \in parentOpen, "stdin" \notin parentOpen'
                 PROVE  offset' = inputLen
        BY DEF vars
    <2>1. CASE WriteInput
        <3>1. PICK k \in 1 .. AtMost(Chunk, AtMost(inputLen - offset, PipeSize - inPipe)) :
                  /\ offset' = offset + k
                  /\ IF offset + k = inputLen THEN Unregister("stdin")
                                              ELSE UNCHANGED <<registered, parentOpen>>
            BY <2>1 DEF WriteInput
        <3>2. QED
            BY <3>1
    <2>2. ASSUME NEW s \in Outputs, ReadOutput(s) PROVE FALSE
        BY <2>2 DEF ReadOutput, Unregister, Raise, Outputs
    <2>3. ~BrokenPipe
        BY DEF BrokenPipe
    <2>4. CASE Interrupt \/ DeadlinePasses
        BY <2>4 DEF Interrupt, DeadlinePasses, parentVars
    <2>5. CASE Command
        BY <2>5 DEF Command, Fork, GroupRead, Exit, GroupWrite, CloseEnd, parentVars
    <2>6. CASE NextRound \/ \E s \in Streams : WouldBlock(s)
        BY <2>6 DEF NextRound, WouldBlock
    <2>7. CASE \/ RejectInput \/ Start \/ Register \/ LoopTimeout \/ Select \/ Drained
               \/ Reap \/ WaitTimeout \/ Terminate \/ Finally
        BY <2>7 DEF RejectInput, Start, Register, LoopTimeout, Select, Drained, Reap,
                    WaitTimeout, Terminate, Finally
    <2>8. QED
        BY <2>1, <2>2, <2>3, <2>4, <2>5, <2>6, <2>7 DEF Next, Parent
<1>2. QED
    BY InitIInv, NextIInv, <1>1, PTL DEF Spec, NoTruncatedInput

\* No step of a call that has not failed closes an output that can still bring something.
THEOREM OutputsAreNotCut == Spec => NoOutputCutOff
<1> DEFINE Step == \A s \in parentOpen \ parentOpen' :
                       result \in {"none", "ok"} /\ s \in Outputs => ~Held(s) /\ outPipe[s] = 0
<1>1. IInv /\ [Next]_vars => [Step]_vars
    <2> SUFFICES ASSUME IInv, Next, NEW s \in Outputs, result \in {"none", "ok"},
                        s \in parentOpen, s \notin parentOpen'
                 PROVE  ~Held(s) /\ outPipe[s] = 0
        BY DEF vars
    <2>1. ASSUME NEW r \in Outputs, ReadOutput(r) PROVE ~Held(s) /\ outPipe[s] = 0
        <3>1. PICK k \in ReadResults(r, ReadSize(r)) :
                  \/ k = 0 /\ Unregister(r)
                  \/ UNCHANGED parentOpen
            BY <2>1 DEF ReadOutput
        <3>2. k = 0 /\ r = s
            BY <3>1 DEF Unregister
        <3>3. ReadSize(s) # 0
            BY ProcessAssumption DEF IInv, TypeOK, Accounting, ReadSize, AtMost
        <3>4. outPipe[s] \in Nat
            BY ProcessAssumption DEF IInv, TypeOK
        <3>5. QED
            BY <3>1, <3>2, <3>3, <3>4 DEF ReadResults
    <2>2. CASE Finally
        <3>1. result = "ok"
            BY <2>2 DEF Finally, IInv, Control, Try
        <3>2. QED
            BY <3>1 DEF IInv, EndOfStream
    <2>3. CASE WriteInput \/ BrokenPipe
        BY <2>3 DEF WriteInput, BrokenPipe, Unregister, Outputs
    <2>4. CASE Register
        BY <2>4 DEF Register, Streams
    <2>5. CASE Start
        BY <2>5 DEF Start, Streams
    <2>6. CASE Interrupt \/ DeadlinePasses
        BY <2>6 DEF Interrupt, DeadlinePasses, parentVars
    <2>7. CASE Command
        BY <2>7 DEF Command, Fork, GroupRead, Exit, GroupWrite, CloseEnd, parentVars
    <2>8. CASE NextRound \/ \E r \in Streams : WouldBlock(r)
        BY <2>8 DEF NextRound, WouldBlock
    <2>9. CASE RejectInput \/ LoopTimeout \/ Select \/ Drained \/ Reap \/ WaitTimeout \/ Terminate
        BY <2>9 DEF RejectInput, LoopTimeout, Select, Drained, Reap, WaitTimeout, Terminate
    <2>10. QED
        BY <2>1, <2>2, <2>3, <2>4, <2>5, <2>6, <2>7, <2>8, <2>9 DEF Next, Parent
<1>2. QED
    BY InitIInv, NextIInv, <1>1, PTL DEF Spec, NoOutputCutOff

-----------------------------------------------------------------------------
(* Bounded work.  That the call ends needs fairness, which TLC looks at (CallEnds); what can *)
(* be proved is that nothing keeps it in its loop once the deadline has passed.             *)

\* Once the deadline has passed the parent takes no more steps than these.
StepsToEnd ==
    CASE pc = "idle"               -> 5
      [] pc = "setup"              -> 4
      [] pc = "handle"             -> 4 + Cardinality(ready)
      [] pc \in {"loop", "wait"}   -> 3
      [] pc = "terminate"          -> 2
      [] pc = "finally"            -> 1
      [] pc = "done"               -> 0

LEMMA ReadyIsFinite ==
    ASSUME TypeOK
    PROVE  IsFiniteSet(ready) /\ Cardinality(ready) \in 0 .. 3
<1>1. IsFiniteSet({"stdout"}) /\ Cardinality({"stdout"}) = 1
    BY FS_Singleton
<1>2. IsFiniteSet({"stdout"} \union {"stderr"}) /\ Cardinality({"stdout"} \union {"stderr"}) = 2
    BY <1>1, FS_AddElement
<1>3. /\ IsFiniteSet(({"stdout"} \union {"stderr"}) \union {"stdin"})
      /\ Cardinality(({"stdout"} \union {"stderr"}) \union {"stdin"}) = 3
    BY <1>2, FS_AddElement
<1>4. Streams = ({"stdout"} \union {"stderr"}) \union {"stdin"}
    BY DEF Streams, Outputs
<1>5. ready \in SUBSET Streams
    BY DEF TypeOK
<1>6. IsFiniteSet(Streams) /\ Cardinality(Streams) = 3
    BY <1>3, <1>4, Zenon
<1>7. IsFiniteSet(ready) /\ Cardinality(ready) <= 3
    BY <1>5, <1>6, FS_Subset
<1>8. QED
    BY <1>7, FS_CardinalityType

LEMMA StepsToEndType == IInv => StepsToEnd \in 0 .. 7 /\ (StepsToEnd = 0 <=> pc = "done")
BY ReadyIsFinite DEF StepsToEnd, IInv, TypeOK

\* Handling an event takes it out of `ready`.
LEMMA EventHandled ==
    ASSUME TypeOK, pc = "handle", pc' = "handle", NEW s \in ready, ready' = ready \ {s}
    PROVE  StepsToEnd' < StepsToEnd
<1>1. IsFiniteSet(ready) /\ Cardinality(ready) \in 0 .. 3
    BY ReadyIsFinite
<1>2. Cardinality(ready \ {s}) = Cardinality(ready) - 1
    BY <1>1, FS_RemoveElement
<1>3. QED
    BY <1>1, <1>2 DEF StepsToEnd

LEMMA ParentLowers ==
    ASSUME IInv, expired, Parent
    PROVE  StepsToEnd' < StepsToEnd
<1>1. TypeOK /\ Cardinality(ready) \in 0 .. 3
    BY ReadyIsFinite DEF IInv
<1>2. CASE RejectInput \/ Start \/ Register \/ LoopTimeout \/ NextRound \/ Reap
           \/ WaitTimeout \/ Terminate \/ Finally
    <2>1. \/ pc = "idle" /\ pc' \in {"setup", "done"}
          \/ pc = "setup" /\ pc' = "loop"
          \/ pc = "handle" /\ pc' = "loop"
          \/ pc = "loop" /\ pc' = "terminate"
          \/ pc = "wait" /\ pc' \in {"terminate", "finally"}
          \/ pc = "terminate" /\ pc' = "finally"
          \/ pc = "finally" /\ pc' = "done"
        BY <1>2 DEF RejectInput, Start, Register, LoopTimeout, NextRound, Reap, WaitTimeout,
                    Terminate, Finally, Raise
    <2>2. QED
        BY <1>1, <2>1 DEF StepsToEnd
<1>3. ~Select /\ ~Drained
    BY DEF Select, Drained
<1>4. ASSUME NEW s \in ready, pc = "handle", ready' = ready \ {s}, pc' \in {"handle", "terminate"}
      PROVE  StepsToEnd' < StepsToEnd
    <2>1. CASE pc' = "handle"
        BY <1>1, <1>4, <2>1, EventHandled
    <2>2. CASE pc' = "terminate"
        BY <1>1, <1>4, <2>2 DEF StepsToEnd
    <2>3. QED
        BY <1>4, <2>1, <2>2
<1>5. CASE WriteInput \/ BrokenPipe
    <2>1. "stdin" \in ready /\ pc = "handle" /\ ready' = ready \ {"stdin"} /\ pc' = "handle"
        BY <1>5 DEF WriteInput, BrokenPipe
    <2>2. QED
        BY <1>4, <2>1
<1>6. ASSUME NEW s \in Streams, WouldBlock(s) PROVE StepsToEnd' < StepsToEnd
    <2>1. s \in ready /\ pc = "handle" /\ ready' = ready \ {s} /\ pc' = "handle"
        BY <1>6 DEF WouldBlock
    <2>2. QED
        BY <1>4, <2>1
<1>7. ASSUME NEW s \in Outputs, ReadOutput(s) PROVE StepsToEnd' < StepsToEnd
    <2>1. /\ s \in ready /\ pc = "handle" /\ ready' = ready \ {s}
          /\ pc' \in {"handle", "terminate"}
        BY <1>7 DEF ReadOutput, Raise
    <2>2. QED
        BY <1>4, <2>1
<1>8. QED
    BY <1>2, <1>3, <1>5, <1>6, <1>7 DEF Parent

\* The provable part of CallEnds: once the deadline has passed the parent takes at most seven
\* more steps, whatever the command, the pipes and the other events of the round do: no
\* stream that keeps being ready and no wait for an exit holds it back, and an interrupt
\* does not add to them.
THEOREM DeadlineIsFinal ==
    Spec => /\ [](StepsToEnd \in 0 .. 7 /\ (StepsToEnd = 0 <=> pc = "done"))
            /\ [][expired => expired' /\ StepsToEnd' <= StepsToEnd]_vars
            /\ [][expired /\ Parent => StepsToEnd' < StepsToEnd]_vars
<1> DEFINE Bounded == StepsToEnd \in 0 .. 7 /\ (StepsToEnd = 0 <=> pc = "done")
           Kept    == expired => expired' /\ StepsToEnd' <= StepsToEnd
           Lowered == expired /\ Parent => StepsToEnd' < StepsToEnd
<1>1. IInv => Bounded
    BY StepsToEndType
<1>2. IInv /\ [Next]_vars => [Lowered]_vars
    BY ParentLowers
<1>3. IInv /\ [Next]_vars => [Kept]_vars
    <2> SUFFICES ASSUME IInv, Next, expired PROVE expired' /\ StepsToEnd' <= StepsToEnd
        OBVIOUS
    <2>1. Bounded /\ Bounded'
        BY <1>1, NextIInv, PTL
    <2>2. StepsToEnd \in Int /\ StepsToEnd' \in Int
        BY <2>1
    <2>3. CASE Parent
        <3>1. expired'
            BY <2>3 DEF Parent, RejectInput, Start, Register, LoopTimeout, Select, NextRound, Drained,
                        WriteInput, BrokenPipe, Reap, WaitTimeout, Terminate, Finally, WouldBlock,
                        ReadOutput
        <3>2. StepsToEnd' < StepsToEnd
            BY <2>3, ParentLowers
        <3>3. QED
            BY <2>2, <3>1, <3>2
    <2>4. CASE Interrupt
        <3>1. Cardinality(ready) \in 0 .. 3
            BY ReadyIsFinite DEF IInv
        <3>2. QED
            BY <2>4, <3>1 DEF Interrupt, Raise, StepsToEnd
    <2>5. CASE Command
        <3>1. UNCHANGED <<pc, ready, expired>>
            BY <2>5 DEF Command, Fork, GroupRead, Exit, GroupWrite, CloseEnd, parentVars
        <3>2. StepsToEnd' = StepsToEnd
            BY <3>1 DEF StepsToEnd
        <3>3. QED
            BY <2>2, <3>1, <3>2
    <2>6. ~DeadlinePasses
        BY DEF DeadlinePasses
    <2>7. QED
        BY <2>3, <2>4, <2>5, <2>6 DEF Next
<1>4. QED
    BY <1>1, <1>2, <1>3, InitIInv, NextIInv, PTL DEF Spec

-----------------------------------------------------------------------------
(* And there is a step to take for every event. *)

\* stdin is watched only while a part of the input is not sent.
Sending ==
    /\ pc \in {"idle", "setup"} => offset = 0 /\ registered = {}
    /\ "stdin" \in registered => offset < inputLen

\* What the handler of a ready stream needs to go on: a write has at least a byte to send, a
\* read asks for at least one, and never gets none from a stream that somebody holds.
CanHandle ==
    pc = "handle" => \A s \in ready : IsReady(s) =>
        \/ s = "stdin" /\ ~Held(s)
        \/ s = "stdin" /\ AtMost(Chunk, AtMost(inputLen - offset, PipeSize - inPipe)) >= 1
        \/ /\ s \in Outputs /\ ReadResults(s, ReadSize(s)) # {}
           /\ Held(s) => 0 \notin ReadResults(s, ReadSize(s))

LEMMA NextSending == IInv /\ Sending /\ [Next]_vars => Sending'
<1> SUFFICES ASSUME IInv, Sending, [Next]_vars PROVE Sending'
    OBVIOUS
<1>1. inputLen \in Nat /\ offset \in 0 .. inputLen
    BY DEF IInv, TypeOK
<1>2. CASE RejectInput \/ Start
    BY <1>2 DEF Sending, RejectInput, Start
<1>3. CASE Register
    BY <1>1, <1>3 DEF Sending, Register, Outputs, Streams
<1>4. CASE WriteInput
    <2>1. PICK k \in 1 .. AtMost(Chunk, AtMost(inputLen - offset, PipeSize - inPipe)) :
              /\ offset' = offset + k
              /\ IF offset + k = inputLen THEN Unregister("stdin")
                                          ELSE UNCHANGED <<registered, parentOpen>>
        BY <1>4 DEF WriteInput
    <2>2. k \in Nat /\ k <= inputLen - offset
        BY <1>1, <2>1, ProcessAssumption DEF AtMost, IInv, TypeOK
    <2>3. pc' = "handle" /\ inputLen' = inputLen
        BY <1>4 DEF WriteInput
    <2>4. CASE offset + k = inputLen
        BY <2>1, <2>3, <2>4 DEF Sending, Unregister
    <2>5. CASE offset + k # inputLen
        BY <1>1, <2>1, <2>2, <2>3, <2>5 DEF Sending
    <2>6. QED
        BY <2>4, <2>5
<1>5. CASE BrokenPipe
    BY <1>5 DEF Sending, BrokenPipe, Unregister
<1>6. ASSUME NEW s \in Outputs, ReadOutput(s) PROVE Sending'
    <2>1. /\ pc' \in {"handle", "terminate"} /\ registered' \subseteq registered
          /\ UNCHANGED <<offset, inputLen>>
        BY <1>6 DEF ReadOutput, Raise, Unregister
    <2>2. QED
        BY <2>1 DEF Sending
<1>7. ASSUME NEW s \in Streams, WouldBlock(s) PROVE Sending'
    BY <1>7 DEF Sending, WouldBlock
<1>8. CASE \/ LoopTimeout \/ Select \/ NextRound \/ Drained \/ Reap \/ WaitTimeout \/ Terminate
           \/ Finally \/ Interrupt
    BY <1>8 DEF Sending, LoopTimeout, Select, NextRound, Drained, Reap, WaitTimeout, Terminate,
                Finally, Interrupt, Raise
<1>9. CASE Command \/ DeadlinePasses
    BY <1>9 DEF Sending, Command, Fork, GroupRead, Exit, GroupWrite, CloseEnd, DeadlinePasses,
                parentVars
<1>10. CASE UNCHANGED vars
    BY <1>10 DEF Sending, vars, parentVars
<1>11. QED
    BY <1>2, <1>3, <1>4, <1>5, <1>6, <1>7, <1>8, <1>9, <1>10 DEF Next, Parent

\* Whatever the sizes of limits, chunks and pipes, the loop never meets an event it cannot
\* handle, which would be a write of no bytes, and never asks for no bytes, which would close
\* an output that is still written to.
THEOREM EventsAreHandled == Spec => []CanHandle
<1>1. Init => Sending
    BY DEF Init, Sending
<1>2. IInv /\ Sending => CanHandle
    <2> SUFFICES ASSUME IInv, Sending, pc = "handle", NEW s \in ready, IsReady(s)
                 PROVE  \/ s = "stdin" /\ ~Held(s)
                        \/ /\ s = "stdin"
                           /\ AtMost(Chunk, AtMost(inputLen - offset, PipeSize - inPipe)) >= 1
                        \/ /\ s \in Outputs /\ ReadResults(s, ReadSize(s)) # {}
                           /\ Held(s) => 0 \notin ReadResults(s, ReadSize(s))
        BY DEF CanHandle
    <2>1. s \in Outputs \/ s = "stdin"
        BY DEF IInv, TypeOK, Streams
    <2>2. CASE s = "stdin" /\ Held(s)
        <3>1. offset < inputLen /\ inPipe < PipeSize
            BY <2>2 DEF IInv, Watching, Sending, IsReady, Writable
        <3>2. QED
            BY <2>2, <3>1, ProcessAssumption DEF IInv, TypeOK, AtMost
    <2>3. CASE s \in Outputs
        <3>1. s # "stdin"
            BY <2>3 DEF Outputs
        <3>2. outPipe[s] > 0 \/ ~Held(s)
            BY <3>1 DEF IsReady, Readable
        <3>3. outPipe[s] \in Nat /\ buffers[s] \in Nat /\ Limit[s] \in Nat /\ buffers[s] <= Limit[s]
            BY <2>3, ProcessAssumption DEF IInv, TypeOK, Accounting
        <3>4. ReadSize(s) \in Nat \ {0}
            BY <3>3, ProcessAssumption DEF ReadSize, AtMost
        <3>5. CASE outPipe[s] = 0
            BY <2>3, <3>2, <3>5 DEF ReadResults
        <3>6. CASE outPipe[s] > 0
            <4>1. ReadResults(s, ReadSize(s)) = 1 .. AtMost(ReadSize(s), outPipe[s])
                BY <3>3, <3>4, <3>6 DEF ReadResults
            <4>2. AtMost(ReadSize(s), outPipe[s]) \in Nat \ {0}
                BY <3>3, <3>4, <3>6 DEF AtMost
            <4>3. 1 \in ReadResults(s, ReadSize(s)) /\ 0 \notin ReadResults(s, ReadSize(s))
                BY <4>1, <4>2
            <4>4. QED
                BY <2>3, <4>3
        <3>7. QED
            BY <3>3, <3>5, <3>6
    <2>4. QED
        BY <2>1, <2>2, <2>3
<1>3. QED
    BY <1>1, <1>2, InitIInv, NextIInv, NextSending, PTL DEF Spec

-----------------------------------------------------------------------------
(* A filter that is answered is answered rightly. *)

\* What FilterAnswers promises of a call that has ended.
Answered ==
    \/ result = "ok" /\ buffers["stdout"] = inputLen
    \/ result = "output_limit" /\ inputLen > Limit["stdout"]
    \/ result = "input_rejection"

\* The filter has written no more than it has read, it lives until it has written everything,
\* and it is told that its input ended only when that is so.
Filtering ==
    /\ ~expired /\ result \notin {"timeout", "interrupted"}
    /\ proc["helper"] = "unborn" /\ holds["helper"] = {}
    /\ proc["leader"] = "alive" =>
           /\ holds["leader"] = Streams
           /\ "stdin" \notin parentOpen => offset = inputLen
    /\ proc["leader"] = "dead" => result = "output_limit" \/ written["stdout"] = inputLen
    /\ written["stdout"] <= Consumed /\ written["stderr"] = 0

LEMMA FilterIsCommand == [Parent \/ Filter]_vars => [Next]_vars
<1>1. "leader" \in Group /\ "stdout" \in Outputs
    BY DEF Group, Outputs
<1>2. QED
    BY <1>1 DEF Filter, Command, Next

LEMMA InitFiltering == Init => Filtering
BY DEF Init, Filtering, Consumed, Outputs, Group

LEMMA NextFiltering == IInv /\ Sending /\ Filtering /\ [Parent \/ Filter]_vars => Filtering'
<1> SUFFICES ASSUME IInv, Sending, Filtering, [Parent \/ Filter]_vars PROVE Filtering'
    OBVIOUS
<1>1. /\ inputLen \in Nat /\ offset \in 0 .. inputLen /\ inPipe \in Nat
      /\ written["stdout"] \in Nat /\ proc["leader"] \in {"unborn", "alive", "dead"}
      /\ DOMAIN proc = Group /\ DOMAIN holds = Group /\ DOMAIN written = Outputs
      /\ "leader" \in Group /\ "helper" \in Group /\ "stdout" \in Outputs /\ "stderr" \in Outputs
    BY ProcessAssumption DEF IInv, TypeOK, Group, Outputs
<1>2. CASE RejectInput
    BY <1>1, <1>2 DEF RejectInput, Filtering, Consumed, IInv, Control, pipeVars, groupVars
<1>3. CASE Start
    <2>1. offset = 0 /\ proc'["leader"] = "alive" /\ holds'["leader"] = Streams /\ parentOpen' = Streams
        BY <1>1, <1>3 DEF Start, IInv, Control
    <2>2. proc'["helper"] = proc["helper"] /\ holds'["helper"] = holds["helper"]
        BY <1>1, <1>3 DEF Start
    <2>3. QED
        BY <1>1, <1>3, <2>1, <2>2 DEF Start, Filtering, Consumed, Streams, pipeVars
<1>4. CASE Register
    BY <1>1, <1>4 DEF Register, Filtering, Sending, Consumed, Streams, Outputs, pipeVars, groupVars
<1>5. CASE WriteInput
    <2>1. PICK k \in 1 .. AtMost(Chunk, AtMost(inputLen - offset, PipeSize - inPipe)) :
              /\ offset' = offset + k /\ inPipe' = inPipe + k
              /\ IF offset + k = inputLen THEN Unregister("stdin")
                                          ELSE UNCHANGED <<registered, parentOpen>>
        BY <1>5 DEF WriteInput
    <2>2. UNCHANGED <<inputLen, result, expired, written, proc, holds>>
        BY <1>5 DEF WriteInput, groupVars
    <2>3. "stdin" \in parentOpen \/ proc["leader"] # "alive"
        <3>1. "stdin" \in registered /\ offset < inputLen
            BY <1>5 DEF WriteInput, IInv, Watching, Sending
        <3>2. QED
            BY <1>1, <3>1 DEF Filtering
    <2>4. Consumed' = Consumed
        BY <1>1, <2>1 DEF Consumed
    <2>5. proc["leader"] = "alive" /\ "stdin" \notin parentOpen' => offset' = inputLen'
        BY <2>1, <2>2, <2>3
    <2>6. QED
        BY <2>2, <2>4, <2>5 DEF Filtering
<1>6. CASE BrokenPipe
    <2>1. proc["leader"] # "alive"
        BY <1>1, <1>6 DEF BrokenPipe, Held, Filtering, Streams
    <2>2. QED
        BY <1>6, <2>1 DEF BrokenPipe, Filtering, Consumed, pipeVars, groupVars
<1>7. ASSUME NEW s \in Outputs, ReadOutput(s) PROVE Filtering'
    <2>1. /\ "stdin" \in parentOpen' <=> "stdin" \in parentOpen
          /\ result' \in {result, "output_limit"}
          /\ UNCHANGED <<inputLen, offset, expired, inPipe, written, proc, holds>>
        BY <1>7 DEF ReadOutput, Raise, Unregister, Outputs, groupVars
    <2>2. QED
        BY <2>1 DEF Filtering, Consumed
<1>8. ASSUME NEW s \in Streams, WouldBlock(s) PROVE Filtering'
    BY <1>8 DEF WouldBlock, Filtering, Consumed, pipeVars, groupVars
<1>9. CASE Select \/ NextRound \/ Drained
    BY <1>9 DEF Select, NextRound, Drained, Filtering, Consumed, pipeVars, groupVars
<1>10. ~LoopTimeout /\ ~WaitTimeout
    BY DEF LoopTimeout, WaitTimeout, Filtering
<1>11. CASE Reap
    <2>1. result = "none"
        BY <1>11 DEF Reap, IInv, Control, Try
    <2>2. QED
        BY <1>11, <2>1 DEF Reap, Filtering, Consumed, pipeVars, groupVars
<1>12. CASE Terminate
    <2>1. result = "output_limit"
        BY <1>12 DEF Terminate, IInv, Control, Filtering
    <2>2. /\ proc'["leader"] # "alive" /\ proc'["helper"] = "unborn" /\ holds'["helper"] = {}
          /\ UNCHANGED <<inputLen, offset, inPipe, written, expired, result>>
        BY <1>1, <1>12 DEF Terminate, Filtering, pipeVars
    <2>3. QED
        BY <2>1, <2>2 DEF Filtering, Consumed
<1>13. CASE Finally
    <2>1. proc["leader"] # "alive"
        BY <1>1, <1>13 DEF Finally, IInv, Control, EndOfStream, Lifetimes, Alive
    <2>2. QED
        BY <1>13, <2>1 DEF Finally, Filtering, Consumed, pipeVars, groupVars
<1>14. CASE written["stdout"] = Consumed /\ GroupRead("leader")
    <2>1. PICK k \in 1 .. inPipe : inPipe' = inPipe - k
        BY <1>14 DEF GroupRead
    <2>2. Consumed <= Consumed'
        BY <1>1, <1>14, <2>1 DEF Consumed, GroupRead, parentVars
    <2>3. QED
        BY <1>1, <1>14, <2>1, <2>2 DEF GroupRead, Filtering, Consumed, parentVars, groupVars
<1>15. CASE GroupWrite("leader", "stdout") /\ (written["stdout"])' <= Consumed
    <2>1. written'["stderr"] = 0 /\ UNCHANGED <<parentVars, expired, inPipe, proc, holds>>
        BY <1>1, <1>15 DEF GroupWrite, Filtering
    <2>2. proc["leader"] = "alive"
        BY <1>15 DEF GroupWrite, Alive
    <2>3. QED
        BY <1>15, <2>1, <2>2 DEF Filtering, Consumed, parentVars
<1>16. CASE /\ "stdin" \notin parentOpen /\ inPipe = 0 /\ written["stdout"] = Consumed
            /\ Exit("leader")
    <2>1. proc["leader"] = "alive" /\ offset = inputLen
        BY <1>16 DEF Exit, Alive, Filtering
    <2>2. written["stdout"] = inputLen
        BY <1>1, <1>16, <2>1 DEF Consumed
    <2>3. /\ proc'["leader"] = "dead" /\ proc'["helper"] = "unborn" /\ holds'["helper"] = {}
          /\ UNCHANGED <<parentVars, expired, pipeVars, written>>
        BY <1>1, <1>16 DEF Exit, Filtering
    <2>4. QED
        BY <2>2, <2>3 DEF Filtering, Consumed, parentVars, pipeVars
<1>17. CASE UNCHANGED vars
    BY <1>17 DEF vars, parentVars, groupVars, pipeVars, Filtering, Consumed
<1>18. QED
    BY <1>2, <1>3, <1>4, <1>5, <1>6, <1>7, <1>8, <1>9, <1>10, <1>11, <1>12, <1>13, <1>14, <1>15,
       <1>16, <1>17
       DEF Parent, Filter

\* The part of FilterAnswers that needs no fairness: for every size of pipes, reads, limits
\* and inputs, a call of a filter that ends has the whole answer, or has one byte too many
\* for its limit, or was refused; a prefix of the answer is never taken for the answer.
THEOREM AnswersAreWhole == FilterSpec => [](pc = "done" => Answered)
<1>1. Init => Sending
    BY DEF Init, Sending
<1>2. IInv /\ Filtering => (pc = "done" => Answered)
    <2> SUFFICES ASSUME IInv, Filtering, pc = "done" PROVE Answered
        OBVIOUS
    <2>1. result \in {"ok", "output_limit", "input_rejection"}
        BY DEF IInv, Control, Filtering
    <2>2. /\ inputLen \in Nat /\ offset \in 0 .. inputLen /\ inPipe \in Nat
          /\ "stdout" \in Outputs /\ "stderr" \in Outputs
          /\ Limit["stdout"] \in Nat /\ Limit["stderr"] \in Nat
          /\ written["stdout"] \in Nat
        BY ProcessAssumption DEF IInv, TypeOK, Outputs
    <2>3. CASE result = "ok"
        <3>1. proc["leader"] = "dead" /\ outPipe["stdout"] = 0
            BY <2>2, <2>3 DEF IInv, EndOfStream
        <3>2. buffers["stdout"] + outPipe["stdout"] = written["stdout"] /\ buffers["stdout"] \in Nat
            BY <2>2, <2>3 DEF IInv, Accounting, TypeOK
        <3>3. written["stdout"] = inputLen
            BY <2>3, <3>1 DEF Filtering
        <3>4. QED
            BY <2>3, <3>1, <3>2, <3>3 DEF Answered
    <2>4. CASE result = "output_limit"
        <3>1. PICK s \in Outputs : written[s] > Limit[s]
            BY <2>4 DEF IInv, LimitBroken
        <3>2. written["stderr"] = 0 /\ written["stdout"] <= offset - inPipe
            BY DEF Filtering, Consumed
        <3>3. s = "stdout"
            BY <2>2, <3>1, <3>2 DEF Outputs
        <3>4. inputLen > Limit["stdout"]
            BY <2>2, <3>1, <3>2, <3>3
        <3>5. QED
            BY <2>4, <3>4 DEF Answered
    <2>5. QED
        BY <2>1, <2>3, <2>4 DEF Answered
<1>3. QED
    BY <1>1, <1>2, InitIInv, NextIInv, NextSending, InitFiltering, NextFiltering, FilterIsCommand, PTL
       DEF FilterSpec

=============================================================================
