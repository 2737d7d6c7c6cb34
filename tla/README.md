# TUC in TLA+

TUC (The Universal Compute) plans small dataflow graphs over declared backends and, for
graphs a CPU can run, generates a C11 program, builds it into a container image with the
local Docker daemon and runs it on validated inputs.  Most of the repository is stateless
planning, validation and reporting.  The parts in which several things happen at once, or
fail half way, are few and shared by everything that really executes; they are where this
project starts.  Behind them come the planners whose decisions an executor trusts: where an
operation runs, what is moved for it, where its values are kept.

Paths below are relative to `src/tuc/` in the repository unless they say otherwise.

## 1. Inventory

| Component | State | Operations | Talks to |
|---|---|---|---|
| **Bounded process runner** (`_bounded_process`, `_terminate` in `runtime/bounded_c11_application.py`) | captured bytes per output, offset into the input, selector map, deadline | one call: start, multiplex, wait, kill, close | a child process group through three pipes; the clock |
| **Container application** (`build_bounded_c11_application`, `BuiltBoundedC11Application`, `_command`, `_cleanup`, same file) | per handle: lock, `closed`, `image_removed`, `files_removed`; outside: image tag, containers, private directory | build, run / run_frame, close | the Docker daemon through the process runner; the file system; threads that share the handle |
| **CPU model session** (`bounded_cpu_model_session.py`) | lock, `closed`, `built`, three counters | run, close | owns one container application; threads that share the session |
| **Run commands** (`bounded_cpu_application_cli.py`, `runtime/bounded_model_application.py`, `compiler/bounded_cpu_batch.py`) | results so far | run, run-model, run-batch, run-model-batch, run_bounded_model_application | one container application in a `with` block; stdout |
| **Residency planner** (`runtime/residency.py`) | buffers, events, resident and origin maps, reserved bytes | plan_residency | a partition plan in, a static schedule out (bounded code generators) |
| **OCI source conversion** (`runtime/bounded_cpu_source.py`) | one context, one container, the exception on its way | convert_bounded_cpu_source | `_command` and `_cleanup` of the container application |
| **Source-to-result consumer** (`integration/bounded_cpu_linear/consumer.py` and its siblings `add_bias`, `gating`, `scaling`, `softmax`, `source`, at the root of the repository) | the calls made so far, one workspace, the record | run | the two installed consoles as processes: `tuc-source-to-json` (conversion) and `tuc-cpu-app` (run commands); a deadline for each |
| **Partitioner** (`runtime/partitioning.py`, `runtime/overrides.py`) | assignments, movement requirements, the latest location of every tensor | partition_graph | capabilities and overrides in; residency, executors and storage plans out |
| **Reference executors** (`runtime/executor.py`, `layout_conversion_executor.py`, `transfer_executor.py`) | tensor store, converted and transferred operands, counters | execute_graph, with conversions, with conversions and transfers | partition plans in, terminal values out |
| **Buffer lifetime, storage plans** (`runtime/buffer_lifetime.py`, `heterogeneous_storage_plan.py`, `heterogeneous_storage_executor.py`, `allocation_executor.py`) | lifetimes, reuse groups or slots; the arena | lifetime report, storage plan, storage execution | partition plans in, terminal values out |
| Isolated source ingestion (`frontend/isolated_source_ingestion.py` and its worker) | one request, one worker process | ingest | a worker interpreter |
| Everything else: IR, lowering, code generation, frontends, registries, gates, evidence and replay verifiers, reports, proof drivers | none that changes | pure functions | |

**Where they meet.**  A session calls into one application handle; the application starts
every `docker` command through the process runner; commands and batches do the same from a
`with` statement, and the consumer calls conversions and commands one after the other over
one workspace.  Threads meet at two locks: the session's, which is only tried, and the
handle's, which is waited for.  The daemon and the file system are shared with whatever
else runs on the machine.

**What is hard.**  Two full pipes at once, ends of file that look like reads of nothing,
descendants that keep pipes open, one deadline for everything; `docker` commands that have
their effect and then fail to say so; cleanups that stop half way and are tried again;
threads that close what others use; counters that must count only what succeeded; in the planners,
values that exist in several places at once, decisions that rest on earlier ones and on
where those left things, operands read twice; storage that is used again at the very moment
it becomes free.  `PROJECT.json` lists each hazard
at its line with the properties that cover it, or why none does.

**What makes each part correct.**
A process call captures everything or raises, leaves nothing running when it raises, and
always ends.  A closed application never starts a container, and a close that returned left
nothing behind; one that failed can be retried until it succeeds.  A session numbers its
results consecutively, keeps its budgets, refuses instead of blocking and keeps hold of what
it still has to release.  A command prints everything or nothing.  A residency plan reads
only values that are where it reads them, copies nothing twice, and is refused exactly when
it has to be.  A conversion that answers has left no container, tag or directory.
A consumer goes on only where nothing of its earlier calls is left, and ends.
A partition plan moves exactly the operands that are elsewhere, or in another layout, than
their reader wants.  An executor refuses a plan before it computes anything or computes right
values from operands that are in place; what it checked first stays true.  Storage is shared
only by what is never live together, and an admitted plan is never stopped by its arena.

## 2. Modules

| Module | Models | Remarks |
|---|---|---|
| `BoundedProcess` | `_bounded_process` | parent loop, an arbitrary child group, and (`FilterSpec`) a well-behaved child |
| `BoundedProcessProofs` | | safety, and how long a call can go on |
| `ContainerApplication` | build, run, close, `_cleanup`, `_command` | any number of threads |
| `ContainerApplicationProofs` | | safety, and how long a call can go on |
| `AbstractSession` | what the documentation promises of a session | three variables |
| `ModelSession` | `CPUModelSession` over an instance of `ContainerApplication` | refines `AbstractSession` |
| `ModelSessionProofs` | | safety, the refinement and the length of a call; uses the invariant of `ContainerApplicationProofs` |
| `BatchRun` | the run commands over an instance of `ContainerApplication` | one thread |
| `SourceConversion` | `convert_bounded_cpu_source`, with its container and context cleanup | one call |
| `SourceConsumer` | `run` of the consumers, calling `SourceConversion` and `BatchRun` one after the other | any number of programs, cases and controls |
| `ConsoleProofs` | | safety and length of commands, conversions and consumers; uses the invariant of `ContainerApplicationProofs` |
| `Residency` | `plan_residency` with an executor of its events beside it | |
| `ResidencyProofs` | | the plan is right and minimal |
| `Partitioning` | `partition_graph` with overrides, scores and movements | extended by the executors |
| `PartitioningProofs` | | lemmas about its plans |
| `GraphExecution` | what a caller of any executor is promised | four variables |
| `TrustedExecutors` | the checks and the abstract kernels all executors share | extends `Partitioning` |
| `DataMovement` | `_execute_graph` in its three modes | refines `GraphExecution` |
| `DataMovementProofs` | | safety, the exact refusals and the refinement |
| `SlotReuse` | `_assign_slots` and `_assign_reuse_groups` | two variables |
| `StorageExecution` | both storage schemes, planned and executed | extends `TrustedExecutors`, `SlotReuse`; refines `GraphExecution` |
| `StorageProofs` | | what may share a slot; execution from shared slots is right |
| `MC...` | constants for TLC | |

Definitions whose comment begins with "Mutant" are no part of a specification: each is a
plausible wrong version of the definition that follows it, and `PROJECT.json` says which
property notices.

### BoundedProcess

`pc` follows the function: `setup` (lines 121-135), `loop` (the `while` test, the deadline
test and `select`), `handle` (the `for` over the events of one round, in any order), `wait`
(169-173), `terminate` (the `except` clause) and `finally`.  The contents of a pipe are the
number of bytes in it: pipes are FIFO, so nothing else is needed to tell whether everything
arrived.  `buffers`, `offset` and `registered` are the locals of that name (`registered` is
`selector.get_map()`).  A read or a write moves any number of bytes from one to what was
asked for, or would block; `Select` reports every ready stream and possibly one that is not.
`Interrupt` stands for every exception not raised by the function itself.  The child group
is a leader and one descendant that may write, read, close its ends, fork and exit in any
order (`Command`).  `None` and `b""` as input are the same here: the child sees end of file
at once.  Which of the two reasons a slow call gives depends on `expired` alone, which the
clock sets at any moment.

### ContainerApplication

`pc[t]` is where thread `t` is in a call; the values between taking and releasing the lock
are the commands the thread may be waiting for: `context`, `build`, `inspect`, then `verify`,
`exec`, `await`, `kill`, then `image`, `list`, `files`.  `closed`, `imageRemoved` and
`filesRemoved` are the fields of `_Lifecycle`.  The variables `tag`, `containers`,
`directory` and `residue` are the world: what the daemon and the file system have.  Two
operators say what `_command` does.  `Completes`: the command ran and its invocation
directory is gone; `Raises`: it did not start, was killed, printed too much, or ran and the
removal of its invocation directory then failed, in which case `residue` may stay.  So every
command has three outcomes, and a raising one may have had its effect.  Validation of the
graph, the input frame and the response is a choice between accepted and rejected.
`_cleanup` runs for a closing handle and, with a fresh `_Lifecycle`, for a failing build;
`LeaveCleanup` is where the two differ.  The directory may vanish if `DirectoryMayVanish`.

### ModelSession and AbstractSession

`at[t]` is where a thread is in a session call; a thread in `building`, `running`, `failing`
or `closing` takes steps of the application until it is back at its `idle`.  `shut` is
`_Session.closed`, `built` says that `_Session.built` is not `None`; the counters have their
names.  Everything pure in `run` (expansion, decoding, encoding) happens under the session
lock before native work and is `RefuseInput` or nothing.  The size of a request and of a
result is a constant of the session because the model fixes the shapes; `Init` picks it.
`Abstract` maps `shut` and `built` to the phases `open`, `closed` (still owning something)
and `released`, and `requests` to `served`.

### BatchRun

One thread, one handle, a `with` block.  `command` tells the three shapes apart: the batch
commands, the single commands (which check the outputs after the block), and
`run_bounded_model_application` (which checks identity and response inside it).  `results`
remembers which container each result came from.

### Residency

One action per round of the planner's loops.  `plan` holds its locals: `buffers` (tensor and
space of each slot; slots count from 1), `steps`, `resident`, `origins`, `reserved`.  Beside
it, `memory` holds what an executor that performs each event as it is emitted would have in
each slot; an operation computes its tensors if its operands are there and in its own space,
`Garbage` otherwise.  `DataflowRespected` is about that executor and about the events
themselves: what each of them moves or runs (`Meaningful`), that it reads only what earlier
ones wrote and writes a fresh slot (`WellTimed`), and that every operation is executed in the
end.  An allocation that raises discards the locals, so the model may check
the budgets after the step that allocates.  Left out: the type checks of the arguments and
the comparison with the partition's own transfer edges (both reject before anything is
planned), and the shapes behind `Bytes`.  The edges the comparison expects are stated where
the partition plan is: `ExpectedEdges` of `Partitioning`, which every plan of the partitioner
meets.  `item` is the index in the two nested loops that publish terminal results.

### SourceConversion

One call in a process of its own.  `pc` is the command it waits for; `error` the exception on
its way to the caller, by its reason; `containerClean` the local of that name.  `check` and
`recheck` are the two lookups of `_cleanup_container`, `image`, `list` and `files` are
`_cleanup` with a fresh `_Lifecycle`.  Nothing is assumed of the order in which the daemon
forgets a container and the tag of its image, because the code does not rely on one either.
An interrupt inside the try statement is an error like others; one during the cleanup leaves
what it leaves (`Interrupted`).

### SourceConsumer

Extends `BatchRun` and instantiates `SourceConversion` with variables of its own, so that the
daemon and the workspace keep what an earlier call of either kind left.  `call` counts the
calls; `Kind` says what each is for, in the order of `run`: for every program a conversion
and its cases, then `_negative_controls`, then `_numeric_controls`.  `phase` is `next` between
calls, `convert` or `run` while one is under way, `check` before `_unchanged`, `recorded` when
record.json is written and `raised` behind an exception.  `Answered` is the answer the consumer
wants: a graph, the rejection it provoked, outputs, or `numeric_rejection` (`declined`: the
response was decoded, so the container had ended and its `docker` command had not raised).
Comparing values and digests is accepted or rejected (`Raise`).  The check behind a call looks
at the files of the workspace and nothing else, so `Unchanged` reads the directories and
neither tags nor containers.  `inspect` has no effect and its call is left out.

A call that takes too long is killed with its process group (`_invoke`).  It stays where it
is; but `_bounded_process` gave the `docker` client it waits for a session of its own, which
goes on: `Orphan` is that client reaching the daemon.  Meanwhile `TemporaryDirectory` removes
the workspace (`RemoveWorkspace`).  `litter` remembers whether a call of one kind began while
something of the last call of that kind was left; `BeginConversion` and `BeginRun` give the
new call a fresh part of the world, and `litter` is there so that nothing old disappears
with that.

### Partitioning

One round of the loop of `partition_graph` is one action, `AssignNext`; overrides are checked
first (`CheckOverrides`).  `locations` is `tensor_locations`, `plan` the `PartitionPlan` so
far.  An operation is known by its place in the graph and an edge by operation and operand
position, because one tensor may be two operands of one operation.  `Assignment` follows the
code: the candidates an override leaves, the preferred ones among them unless a backend is
forced, the smallest sort key, and the reference CPU on the host when nobody is left.
The score of a candidate is the sum of transfer costs of its operands (`TransferScore`), then
their bytes, then the wanted domain, then the name; the conversion bytes in the key are equal
for all candidates and left out.  Overrides are their effects: a backend that is required
or preferred is `force`, because a preference that cannot be met is refused as well.

### TrustedExecutors, GraphExecution and DataMovement

`TrustedExecutors` holds what both executors check of a plan: the trusted registry and the
arities (`Ready`), and what a conversion or a transfer has to be (`Convertible`,
`Transferable`, `LeavesSource`, `BetweenDomains`, `ConvertedAlong`).  The right value of a
tensor is the tensor itself; a kernel whose operands are not right, or not where its mode
promises them, computes `Garbage`.

`DataMovement` is `_execute_graph`: `mode` says which of the three public functions was
called.  `at`, `convert` and `transfer` are the operation at work with the movements it still
waits for; `staged` is `converted_values` with what the transfers then put into it, `store` the
`RuntimeTensorStore`.  Each movement repeats its checks against the stored record when its
turn comes (`RecordFits`), as the code does; `KernelFails` is a result that is not finite.
`GraphExecution` maps `status` to pending, refused, running, failed and done, and `computed`
to the operations before `at`.

### SlotReuse and StorageExecution

A *draft* is a request for storage from one moment to another: `_StorageDraft` and
`LifetimeDraft`.  `SlotReuse` takes drafts in the order of their moments and gives each the
first slot of its key that is free.  `buffer_lifetime.py` sorts by key first; slots of
different keys never meet, so per key the result is the same.  Drafts with the same moments
are ordered by name in the code and in any order here.

`StorageExecution` runs either scheme (`scheme`): a moment is an operation, or one of four
phases of an operation (`EventIndex`).  `Drafts` are the lifetimes computed from the plan;
`Plannable` and `Admissible` are the refusals; `arena` says for each slot which draft it
holds, which value is in it and whose elements are in its cells (`imprint`); that is enough
to tell whether the padding of its tiles is zero (`PaddingZero`).  Since every write of tiles
begins with zeros (`Imprint`), the check of the padding cannot fail in the code as it is; it
does if the zeros come only with a fresh slot and a smaller matrix follows a larger one.  A moment is
`ComputeKernel` if one is due, `Write` for everything whose storage begins (produced value
or staging), then `Release` of what ends.  Everything the arena may refuse is a `Fail`.

## 3. Runs

| Run | Question | Instance |
|---|---|---|
| `BoundedProcess` | Does a call end, complete or clean, against any child, and cut nobody off who keeps to his limits? | input 2 (a pipe full) or 3 (one over the budget), pipes and chunks of 2, limits 2 and 0, each stream at most 3 bytes, two processes |
| `BoundedProcessFilter` | Does parent or child ever wait for the other? | inputs of 0 to 8, pipes of 2, chunks of 3, limit 4, budget 6 |
| `ContainerApplication` | Is the handle safe among threads and failures? | three threads (symmetric), three containers, directory may vanish |
| `ContainerApplicationRetry` | Do locks come back and retried closes converge? | two threads, one container |
| `ModelSession` | Does a session keep its promises over the real application? | two threads, two requests, three elements, request sizes that exhaust either budget first, every failure |
| `ModelSessionBuildFailure` | Can cleanup be retried after a failed build, as the RFC says? | the same |
| `BatchRun` | All or nothing? | up to three requests, every failure |
| `SourceConsumer` | Is anything left behind an accepted call, or two containers at once, across calls of both kinds?  Does a conversion tell what it left? | one program with two cases, one negative and one numeric control; every failure, every call may be killed |
| `Residency` | Is every schedule right, complete and minimal, and refused only with reason? | all 4860 graphs of `MCGraphs`: two or three operations, three spaces, four tensors |
| `DataMovement` | Are exactly the needed movements planned, are plans refused for the documented reasons only, and do executions return right values? | 66 graphs, nine sets of backends, three override rules per operation, two cost profiles, three modes; four values, 9 and 16 elements |
| `DataMovementConverterLimit` | Are all conversions checked before the first kernel, as documented? | the same |
| `StorageExecution` | Is storage shared only by what is never live together, and does an admitted plan run through? | 166 graphs of four (or fewer) operations, four sets of backends, both schemes, 16 elements |

**Why the bounds are enough.**  *BoundedProcess*: the limit on stdout equals one full pipe
and the child may write one byte more, so a buffer that is exactly full, the probing read
behind it and the byte too many all occur; the limit 0 on stderr makes the probing read the
first one.  A pipe of two bytes and a chunk of two give partial and whole transfers and full
pipes.  One descendant is enough to outlive the leader with the pipes open.
`MaxOutput` bounds the child, `InputBudget` stands for 1048576.  *ContainerApplication*: two
threads make every conflict, the third makes one that waits while two interact; `MaxRuns`
bounds containers, and containers of different runs differ only in name.  *ModelSession*:
`MaxRuns` is above `MaxRequests` so that only the session limits native work; two requests
show a first, a following and a refused one.  *SourceConsumer*: each of the four kinds of
call occurs, a run follows a conversion and a run, and a conversion a run.  A conversion has
no bounds of its own: its run inside the consumer's is exhaustive.  *Residency*: repeated
operands, fan-out, two results, results nobody reads, external inputs and both refused orders all occur, and six
slots and nine bytes are too few for some of the graphs and exactly enough for others.
*DataMovement*: three operations give a producer, a reader and a reader of both; the
backends of `backends/simulator.py`, the fallback and an untrusted one, in one to three
domains, make every kind of movement, also two for one operand.  Matrices of odd sides make
tiles larger than the matrix, and `MaxPhysical` lies between the two for one tensor;
`MaxValues` and `MaxElements` bind for some graphs and not for others.
*StorageExecution*: four operations are the fewest with which a slot of tiles is used again
by a later matrix, of the same size and of a smaller one; graphs in which nothing moves reach
the other scheme; the refused ones are there as well.
The theorems hold without any of these bounds.

Deadlock checking is off in every run for the same reason: a finished call, a released
handle, a failed build and a complete plan have nothing left to do, which the liveness
properties tell apart from being stuck.

**Fairness.**  `BoundedProcess`: the parent's own steps and the passing of the deadline are
weakly fair, because the calling thread is scheduled and time passes; nothing is assumed of
the child.  `FilterSpec` makes the child fair too and leaves the deadline out, so that
nothing but the loop itself can help.  `ContainerApplication`, `ModelSession`, `BatchRun`:
each thread that is inside a call goes on; every command ends because `_bounded_process`
does (`CallEnds`).  Nobody is obliged to call.  `RetrySpec` adds what the convergence of
cleanup needs: somebody calls close again and again, gets the lock (Python's lock is not
fair, hence strong fairness), and a command that is tried again and again succeeds in the
end.  With `DirectoryMayVanish` that last assumption is false, for every command needs the
directory; the retry run therefore sets it to `FALSE`.

## 4. Findings

`ModelSessionBuildFailure`: RFC 0334 (`rfcs/0334-bounded-cpu-model-session.md:28-32`) and
`docs/BOUNDED_CPU_MODEL_SESSION.md:34-35` say that a build failure attempts cleanup, that a
failing cleanup reports `cleanup_failed` and that `close()` can retry it.  A failing build
removes what it made in two places and keeps to itself whether that worked: `_make_context`
suppresses what `_remove_files` raises (`runtime/bounded_c11_application.py:329-332`, the
shortest trace), and the build ignores what its own `_cleanup` came to (657-658).  The
session has no handle, reports the error of the build, and its `close()` succeeds without
doing anything while the tag or the directory is still there.  `KeepsCleanupAuthority` is
the same statement with failed builds excepted, and holds.

`DataMovementConverterLimit`: the docstring of `_materialized_conversions_by_target`
(`runtime/executor.py:1158`) and `docs/RUNTIME_MATERIALIZED_LAYOUT_CONVERSION.md:60-61` say
that the complete conversion plan is checked before any kernel runs.  The limit on the
elements of the padded tiles is not among those checks; it is first compared in
`materialize_layout_conversion` (`runtime/layout_conversion_executor.py:256`), when the turn
of the reading operation comes.  In the shortest trace one kernel has run and the first
conversion raises.  Everything else that was
checked up front holds when its turn comes (`NoLateMismatch`).

## 5. Proofs

Every theorem is for all values of the constants that satisfy the named assumptions of the
modules; no theorem assumes a bound.

* **`BoundedProcessProofs`**, from `ProcessAssumption`.  The inductive invariant says, beside
  the types, where every byte is: what an output was given is what the parent kept plus what
  is in the pipe, plus, behind `output_limit`, what the aborting read dropped, which is
  where `BoundedOverread` comes from.  It also says that the parent unregisters an output
  only when it is empty and nobody holds it, that nobody can start to hold an end that
  nobody holds, and that a process that is not alive holds nothing.  Without these
  `CompleteCapture` is not inductive: it speaks of the end of the call, and the writes
  happened long before.  `TypeCorrect`, `CaptureIsComplete`, `OverreadIsBounded`,
  `LimitIsJustified`, `NothingLeft` and the action properties `InputIsWhole` and
  `OutputsAreNotCut` follow from it.
  `DeadlineIsFinal` counts what the parent still has to do: the events of the round, the
  round itself and the steps behind the loop.  Once the deadline has passed no new round
  begins, so the count is at most seven and every step of the parent lowers it; before it, no
  such count exists, for a command may be slow without end.  `EventsAreHandled` needs
  `Sending`: standard input is registered only while bytes are left to send, so a ready
  event always moves at least one.  `AnswersAreWhole` is about `FilterSpec`; its invariant
  `Filtering` relates what the filter has read, written and still owes to its place, and
  rules out that it ends before its answer is written.
* **`ContainerApplicationProofs`**, from `ApplicationAssumption`.  The invariant has four
  parts: the types; *Locking* (a thread in a critical step holds the lock, or is the one
  that builds while there is no handle and nobody else is in a call); *Truthful* (a flag or
  a result that says something is gone is right); and *Phases* (what the place of a thread
  implies of flags and world).  Each theorem needs more than its own property: that a close
  that returned was clean depends on every earlier, interrupted cleanup having set its
  flags truthfully.  `MutualExclusion`, `ClosedIsClean`, `TypeCorrect` and the action
  properties `DirectoryGoesLast` and `NoRunAfterClose` follow.
  `StepsLeft` ranks the places of a call by the longest way out of it, a number up to six.
  `CallsAreBounded`: every step of a thread lowers its own rank, nobody else's step raises
  it, and the holder of the lock has one to four steps left.  `CleanupKeepsGround`: `closed`,
  `imageRemoved` and `filesRemoved` are never undone, and what they speak of never returns,
  because only a build or a run could make it again, and neither goes on behind a removal.

* **`ModelSessionProofs`**, from `SessionAssumption`.  The application inside a session is an
  instance of the module `ContainerApplicationProofs` is about, so its invariant is available
  for every session (`ApplicationSafe`).  On top of it, `SessionInv` says where the one
  thread that holds the session can be in the application (`InPlace`), that a session
  without a handle owns nothing unless its build failed (`NothingOwned`), and how many
  containers may have been started at each of these places (`Counted`).  The count needs the
  place: a session counts results, and only because a failing run closes it is there at most
  one container more.  `BoundedNativeWork`, `SessionBudget`, `CleanupAuthority`,
  `NeverWaits` and the step simulation `SessionKeepsPromises` follow.  `SessionCallsAreBounded`
  adds the rank of the session's own places to that of the application, which a call enters
  at most three times: to build, to run, and to close behind a failure.
* **`ConsoleProofs`**, from `BatchAssumption` and `ConsumerAssumption`, in three parts.

  *Commands*, with the invariant of the application.  While the command runs, result `i` came
  from container `i` and no container is left when the next one is asked for.
  `PrintsAllOrNothing`, `FailsClean` and `OneContainerAtMost` follow for any number of
  requests.  `CommandIsBounded` counts the requests not yet asked for, six steps each, with the
  rest of the call that is under way and the close at the end.

  *Conversions*.  `ConversionInv` says what the place of a call implies: before the worker may
  have been started there is no container; `containerClean` holds only when there is none
  (and not before the lookup, or a container started behind it would refute it); the
  files go only when the tag is gone.  `ConversionReportsTruly` follows, and
  `ConversionIsBounded` ranks the places.  A conversion alone has no parameter, so these say no
  more than an exhaustive run would; they are there for the third part.

  *Consumers*, for any number of programs, cases and controls.  `ConsumerInv` takes both
  invariants, of a command with one request and of a conversion, and adds which of the two is
  at rest in every phase: idle, with no tag, container or directory (`CommandDone`,
  `ConversionDone`).  Between calls both are; while one works the other is; and behind an
  exception still one of them, because a killed call's `docker` client belongs to the one that
  was at work.  That an answer means rest (`AnsweredClean`) is the place where the three
  parts meet: a graph and a rejection by `ConversionInv`, outputs by `CommandInv`, and a
  `numeric_rejection` by `DeclinedInv`: the container had ended when the response was decoded,
  and a command of one request starts no other.  This last one is needed because a command
  that fails for other reasons may well leave its container.  `AcceptedLeavesNothing`,
  `OneContainerOfBoth` and `AllReportTruly` follow.  `ConsumerIsBounded` gives every call 22
  steps.  That the consumer ends is not a run's question: it may raise at any moment, so that
  only the number of its steps tells anything.
* **`ResidencyProofs`**, from `ResidencyAssumption`.  The invariant `Planning` says that the
  plan agrees with itself and with the executor beside it (slot, resident map, origins,
  memory, reserved bytes), and that the residencies so far are exactly the ones the loops have
  met and among those the graph requires.  `ResidencyIsExact` and type correctness, which no
  run repeats, follow from it, and with the remark that a slot has a residency of its own also
  `BudgetIsExact`.  Bytes are a sum over a set, recursive in its definition: the section on
  sums proves that the recursion has a solution on the subsets of any finite set and which
  equations it meets, by induction stated as a property of a set of numbers (`AllNumbers`),
  so that no operator has to be instantiated; `reserved` is then the sum over the slots
  so far, and sums grow with their sets.  `Scheduling` is about the events.  A schedule in the
  making has written every slot except the results of the operation at work, which exist
  before the event that writes them; this exception is what makes `WellTimed` inductive, for
  `execute` must find its operands written and its results not.  Its other parts say which
  operations have been executed and which terminals published, by the place in the loops.
  Plans only grow (`Grown`), so what an event does stays.  `DataflowIsRespected` and
  `TerminalsArePublished` follow for all graphs, spaces and budgets.
* **`PartitioningProofs`**, from `PartitioningAssumption`: while `partition_graph` works,
  every tensor produced so far is located where its producer was assigned to leave it, and
  the movements so far are those the finished assignments of the operations so far call for
  (`Planning`).  It needs `Ordered`: with two producers, or a reader before its producer, a
  location is overwritten or missing when it is looked up.
* **`DataMovementProofs`**, from that and the assumptions of the executors.  Its invariant
  `Executing` describes a running execution by `at` alone: the store holds the right value
  of exactly the tensors known before `at`, with the record its producer was assigned;
  staged operands are the movements already made for this operation; the counters count
  them; and the plan passed its checks.  `MovementsFit`, `NothingMismatchesLate`,
  `RefusesExactly` and the simulation `MovementKeepsPromise` follow, for all graphs,
  backends, overrides, cost profiles and limits, in all three modes.
* **`StorageProofs`**, from the same assumptions.  Placing drafts one after the other keeps
  the slots grouped: a slot becomes free with the last of its drafts (`UpToDate`) and no draft
  was placed before an earlier one (`InTurn`), which is what makes a first-fit slot safe and
  necessary.  Every draft begins before it ends, in both schemes.  `SharingIsSafe` and
  `SharingIsTight` follow.  With `StorageAssumption` (the empty value is neither a tensor nor
  garbage) the proof goes on to the execution.  `Usable` says what an admitted plan gives it:
  movements fit the assignments (from `PartitioningProofs`), a value is kept until its
  readers' first use, a staged copy is made from a slot other than its own because roles are
  part of what a slot is shared by, and an operand ends up in its reader's domain.  `InStep`
  is the invariant while it runs: a slot holds exactly the draft of it that is live at this
  moment, with the right value.  `AdmittedPlansRun` and the simulation
  `StorageKeepsPromise` follow, for all graphs, backends, overrides and both schemes.

**Only model-checked:** every liveness property (`CallEnds`, `FilterAnswers`, `LockReleased`,
`CleanupConverges`, `CallReturns`, `CommandEnds`): that somebody goes on is fairness, which
the proof system cannot reach.  What these properties owe to the code and not to the
scheduler is proved: the number of steps that are left never exceeds a bound, every step of
the call lowers it, and nothing else raises it (`DeadlineIsFinal`, `CallsAreBounded`,
`SessionCallsAreBounded`, `CommandIsBounded`, `ConversionIsBounded`, `ConsumerIsBounded`); no
attempt at cleanup loses what an earlier one gained (`CleanupKeepsGround`); and an answer that arrives is whole (`AnswersAreWhole`).
That a step is possible whenever one is left is `ENABLED` and stays with TLC, except where
`EventsAreHandled` states it for the loop in terms of the streams.
Every other property of a passing run is stated by a theorem.

## 6. What is not modelled

*Within the modelled parts.*  The contents of files, frames and images, digests, names and
diagnostics: they are accepted or rejected.  The platform and ownership checks on the
workspace.  Process ids and their reuse.  An exception between the start of a
command and the `try` behind it (lines 110-121 of the process runner).  Effects the daemon has after the client that asked
for them is dead.  Exceptions between two bytecodes (`KeyboardInterrupt` between the return of
a build and the assignment of its handle).  `__exit__` of a session, whose close is refused
with `session_busy` while another thread runs, is a `CallClose` or a `Busy` like others.
Argument and JSON parsing of the commands.  The fixtures, the reference arithmetic and the
record of the consumers.  Error budgets, energy and the candidate report of
the partitioner.  What kernels compute, dtypes, supplied inputs that do not fit, and the
traces of executions.  The byte limits, budgets, admissions and receipts of the storage plans,
and the verification of their finished traces; the order by name of drafts with equal
moments.

*Components.*  Most of the repository checks, digests, compares or prints finished records:
evidence bundles, trace and replay verifiers, gates, registries, proof and reproduction
drivers, reports, frontends for text and JSON, code generators.  They are functions of their
arguments with no state that changes, and what they are about is formatting, wording and
digests; a model of them would be their transliteration.  They make up nearly all of the
lines of the repository, which is why the map covers a small share of them: the parts with
state and ordering are listed in the inventory.  Of those, isolated source ingestion has no
module: it sends one request to a one-shot worker and reads one bounded answer, with a
`communicate` under a timeout and a kill; nothing survives the call or is shared with another
one, and what remains is the validation of a text and a JSON object, done on both sides.

## 7. Plan

Done: process runner, container application, session and abstract session, commands, source
conversion, the consumer of both consoles, residency, partitioner, executors, storage plans
and their execution; theorems for all of them.

Left: the byte budgets, admissions and receipts of the storage plans, as limits that
`StorageExecution` may refuse by.
