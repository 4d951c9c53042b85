# teleworker in TLA+

A verification project for teleworker, a job worker written in Go: a library
that runs operating system processes and keeps their output (`src/worker`), a
gRPC service on top of it (`src/workergrpc`), and the commands that run either
(`src/cmd`). The modules are translated from that code; `PROJECT.json` maps each
definition to the lines it stands for.

## The system

| Part | Source | State | Operations |
| --- | --- | --- | --- |
| Job | `worker/job.go` | stdout, stderr, exit code, update listeners, three contexts (done, stop, force stop) | `ReadStdout`, `ReadStderr`, `ExitCode`, `AddUpdateListener`, `RemoveUpdateListener`, `Stop`; internal `updateOutput`, `markDone` |
| Runner | `worker/runner.go` | four goroutines per job | `start`, `startCmd`, `startPipe` |
| Worker | `worker/worker.go` | map of jobs per namespace, shutdown flag, two read-write locks | `SubmitJob`, `GetJob`, `Shutdown` |
| Limited runner, child-exec | `worker/runner_linux.go`, `cmd/root.go` | cgroup directories, mount namespace of the child, `.pivot_old` in the root directory | `start`, `ExecLimitedChild` |
| gRPC service | `workergrpc/service.go` | none between calls; goroutines and channels in a streaming call | `GetJob`, `SubmitJob`, `StopJob`, `StreamJobOutput` |
| serve | `cmd/server.go` | worker and server of the process | serve, graceful and forced shutdown |
| direct-exec | `cmd/exec.go` | one job, offsets in its output | run, copy output, stop on a signal |
| Client commands | `cmd/client.go` | none | get, submit, stop, tail |
| Certificates | `workergrpc/certificate.go`, `cmd/cert.go` | none | `GenerateCertificate`, credentials |
| Diagnostics | `cmd/diag.go` | none | load the machine |

How they interact. `Worker.SubmitJob` makes a Job and hands it to a runner,
which starts the process and then four goroutines: a reader per pipe calls
`updateOutput`, one waits for the readers and the process and calls `markDone`,
one turns the job's stop contexts into signals. Everybody else holds a pointer to
the Job: the service's RPC handlers, the goroutines `Shutdown` starts, and
direct-exec read its output, register update channels, which are notified by
non-blocking sends, and call `Stop`, which closes a context and waits for
another. The service reaches jobs through the worker, by the namespace of the
client's certificate and the ID.

What is hard here is concurrency. Within a job: draining pipes before waiting for the
process, three pieces of state (output, exit code, done context) that readers see
in some order, updates that are dropped when a buffer is full. Around it: a map
that holds a nil placeholder while a submission runs, a shutdown that races
submissions and its own context, goroutines that must not outlive an RPC,
timeouts that race completion, connections that break between two messages. No
state is persisted, so there is no crash recovery; what a child that is killed
leaves behind, cgroup directories and a half-made pivot, is met by later jobs.

What makes each part correct:

* Job and Runner: output is an append-only log, complete when the exit code
  appears; the code is set once, after the process was waited for; `Stop` returns
  that code; a forced `Stop` gets through; whoever has a channel hears of changes.
* Worker: an ID names one job, and one that was submitted stays reachable; a
  failed submission leaves nothing behind; `Shutdown` misses no job and comes back.
* Streaming: the client gets a gapless range of bytes, correctly marked as past or
  live, then the exit code; no goroutine or listener is left over.
* direct-exec: all output is copied before exiting; a signal ends it, unless the job
  writes without end and as fast as its output is copied.
* tail: it prints what the server read, in order, ends when the job does, and fails
  only when the connection does or the service refuses the call.
* serve: the process ends in time after a signal; every job was taken by then, and was
  asked to stop unless a `Shutdown` gave up at its deadline; before that deadline a nil of
  `Shutdown` means that no job runs.
* Limited runner: a command runs inside all its limits or not at all; jobs that share
  a root directory do not keep each other, or later ones, from starting.

## The modules

| Module | Models | Uses |
| --- | --- | --- |
| `JobContract` | what a Job promises its holders; every method of `job.go` one step | |
| `Runner` | one job in detail: process, pipes, goroutines, `markDone` and `Stop` step by step | `JobContract` (extended, and refined) |
| `RunnerProofs` | its theorems | `Runner` |
| `Registry` | what the worker promises: IDs that are free, held or a job's, every call one step | |
| `Worker` | `SubmitJob`, `GetJob`, `Shutdown` called concurrently | `Registry` (refined) |
| `WorkerProofs` | its theorems | `Worker` |
| `Stream` | one `StreamJobOutput` call on a job | `JobContract` |
| `StreamProofs` | its theorems | `Stream` |
| `Service` | `GetJob`, `SubmitJob` and `StopJob` about one ID, by concurrent clients | `JobContract`, `Registry` (refined) |
| `ServiceProofs` | its theorems | `Service` |
| `DirectExec` | `runDirectExec` on a job | `JobContract` |
| `DirectExecProofs` | its theorems | `DirectExec` |
| `Serve` | the serve command: main, its three shutdowns, the RPC handlers | `Worker` (extended) |
| `ServeProofs` | its theorems | `Serve`, `WorkerProofs` |
| `ClientTail` | the tail command and the connection to its server | `Stream` (extended) |
| `ClientTailProofs` | its theorems | `ClientTail`, `StreamProofs` |
| `ChildExec` | the children of limited jobs: cgroups, pivot root, the command | |
| `ChildExecProofs` | its theorems | `ChildExec` |
| `MCRunner`, `MCWorker`, `MCStream`, `MCService`, `MCDirectExec`, `MCServe`, `MCClientTail`, `MCChildExec` | instances for TLC; `MCService` and `MCDirectExec` add jobs that write for ever (see Bounds) | |

`JobContract` and `Registry` are the seams. `Runner` shows that the goroutines of a job implement it;
`Stream`, `Service` and `DirectExec` are built on its actions, so what they need of a job is
what `Runner` provides. In the same way `Worker` implements `Registry`, and what the RPCs
of `Service` see of the worker implements it too.

### JobContract and Runner

`out[s]` is the length of `Job.stdout` or `Job.stderr`: the i-th byte written is
the i-th byte of the log, so the length says it all. `NoCode` is the nil exit code.
`chan[l]` is what a registered Go channel buffers; `Notified` is the `select` with a
`default` case. Methods that run wholly under `updateLock` are one action.

`Runner` splits what the code splits. A byte goes from the process (`ProcWrite`)
into `pipe`, by `PipeRead` into a reader's buffer and by `PipeAppend` into the job.
`markDone` holds the lock over three actions (`MarkDoneSet`, `MarkDoneCancel`,
`MarkDoneNotify`), since the done context it cancels halfway can be seen without the
lock; `Locked` keeps all other users of the lock out meanwhile. `Stop` is `StopCall`
(closing a context), `StopDone` or `StopCtx` (its select), and `StopRead` (the
dereference). Descendants of the process are modelled by `open`: the write end
of a pipe may stay open, and be written to, after the process has ended. A failed
`cmd.Start` never gets here; it is the failing branch of `SubmitStart` in `Worker`.
The limited runner starts another command through the same `startCmd`.

The refinement to `JobContract` hides the exit code while `markDone` holds the
lock (`VisibleCode`). `MarkDoneNotify`, the last step under the lock, is then the
contract's `MarkDone`.

### Worker

Each element of `Calls` is a goroutine making one call and doubles as the name of the
job it submits. `shutdownLock` is Go's `RWMutex` with its queueing of writers:
`ShutAnnounce` keeps new readers out, `ShutMark` has the lock. It keeps a count of
read locks per call, because a call may leave with locks not given back.
`jobsLock` sections contain no blocking operation and are one step each:
`SubmitReserve`, `SubmitPublish`, `SubmitDiscard`, `GetRead`, `ShutTake`. `panicked`
records a nil dereference or a write into the nil map that `Shutdown` leaves.
Reading a nil map is allowed in Go and in the model.
`GetUnlock` takes a read lock, as `worker.go:79` does.

`Registry` is the worker without its locks and its map. A submission holds a free ID
(`Hold`), then its job is listed (`Keep`) or the ID is free again (`Drop`); a lookup (`Look`), a
submission whose ID is taken (`Exists`) and a call after the shutdown (`Refuse`) are one
step each; `Close` happens when no ID is held, takes all jobs and leaves none. The mapping,
at the end of `Worker`, says where each call takes effect: a submission holds its ID from
`SubmitReserve` to `SubmitPublish` or `SubmitDiscard`, a lookup takes effect at `GetRead`, and
`Shutdown` at `ShutMark`, though it takes the map later.

### Stream

The handler, a goroutine per requested stream, and the client. A message is the
range of bytes it carries. Sending on the unbuffered `responseCh` is a rendezvous:
`TakeMsg` moves both sides; sending to the client (`SendMsg`) is a step of the
handler of its own. `ReadTotal`, `ReadPast`, `Listen`, `ReadLive` and `Wait` follow
`streamOutput`; a read returns output and exit code in one critical section, which is
one action. `Leave` is the context case in every select. The namespace lookup and
`getJob` come before `Init`, so the RPC starts on any job in any state; a call that they
refuse is part of `ClientTail`.

### Service

Each element of `Calls` is one RPC about the same ID; a client with another
namespace, or another ID, cannot touch it. `entry` is the ID in the worker's map, as
`Worker` shows it: free, held by a submission under way, or a job's. `shutdown` and
`looked` stand for the lock that `Shutdown` waits for and that lookups never give
back. `Lookup` is `getJob`, `ReadCode` and `ReadOutput` are `toProtoJob` and
`allOutput`, one read at a time with the job running in between; `CheckStopped`,
`StopDone` and `StopFails` are `StopJob`. Requests that are refused before they reach
the worker (no ID, fields that must not be set, no client certificate) are
`Refuse`. The code answers `FailedPrecondition` to a call on a worker that was shut down
and to stopping a job that has stopped; `status` tells these apart as the messages do. The mapping to
`Registry`, at the end of the module, has one ID, whose job is that of the submission that kept it
or of an earlier one (`Earlier`). What a signal does to the job is the business of `Runner`: here the job
ends when it likes.

### DirectExec

`runDirectExec` on one job: exit code first, then both drains, one read at a
time, then the select. `Source` has the stream each console really gets. `timer`
has the timeouts that passed; the second context is a child of the first. `Listen` registers
the channel for updates and then the one for signals: a signal that comes before it finds the
default action and kills the command (`Signalled`), its job running on.

`SignalEnds` names the one case in which a signal that was caught does not end the command: a drain
that never finds the end of what there is to copy. The run shows that nothing else does.
`ExitsAfterDrain` adds up what both consoles have of a stream; that each has the other's is
listed under the disagreements below.

### Serve

`main` is the program counter of `serveCmd`'s `RunE`: its select, the graceful
`Shutdown`, the forced one, and what the deferred calls do in the order Go runs
them (contexts cancelled, server stopped, worker shut down by force). The three calls of
`Shutdown` and the RPCs are elements of `Calls`, so what each does step by step is
`Worker`'s. Only the call that finds the worker up looks at its context: `ctxDone`
is that call's, closed by its deadline (`Deadline`) or by the command's return
(`CancelContexts`). `Rpc` starts a call while the server accepts; `srv.Stop` stops
new ones, and handlers go on. `forced` has the jobs whose stop carries the force
flag. When main is over the process is, and nothing takes a step any more.

### ClientTail

The other end of `Stream`. `StartStream` is the call, which returns before the service has seen
the request. There `getJob` finds the job (`Accept`), and `Stream`'s handler runs from then on
(`Called`), or it refuses (`RefuseCall`: no such job, no certificate, a worker that is shut down),
or it waits for the worker's lock for ever, so that neither is fair. A refusal comes out of `Recv`, as a
lost connection does, on a connection that is there. `NoCall` is what fails before there is a call.

`wire` holds what was sent and not received, up to
`WireCap` messages, as flow control does: `SendMsgOver` and `SendCodeOver` are
`Stream`'s sends when there is room. `RecvMsg` and `RecvErr` are the goroutine that
receives and prints, `TakeErr` and `TakeSignal` the select of the command. `Break`
loses the connection and what is on it, at any time. gRPC closes the
handler's context when its call is over at either end (`CtxCloses`). `shown` has the
last message printed of each stream, which is enough to see a gap.

### ChildExec

One child per limited job, all in one place of `pc` each: `groups` and `write` for
`writeCGroupSettings` (directory, then settings and membership), `old`, `pivot`,
`unmount`, `remove` for `pivotRoot`, then the command, and the deferred removals
(`Leave`). Every step may fail (`Return`), and a signal may end the child anywhere (`Kill`).
`hasOld`, the root directories with a `.pivot_old`, is what children of the same root
share; mounts are each child's own. Of the kernel it assumes: a cgroup with a
member cannot be removed; removing a directory also removes what other namespaces have mounted
on it; a PID namespace dies with its first process. `met` is a history variable: whose pivots overlapped.

## The checks

`expect: pass` unless noted. Deadlock checking is off where everybody may be done (a
finished job, a returned call) and on in `runner_safety`, where the job's holders
can always register or remove a channel.

| Run | Question |
| --- | --- |
| `runner_safety` | Is the output complete, and the process waited for, when the exit code is out? Does `Stop` return the final code? Do the goroutines implement `JobContract`? |
| `runner_live` | Does a forced `Stop` return, after any number of graceful ones? Does a job whose process ended and whose pipes closed get done, also after a read error? |
| `worker_safety` | Do submissions, lookups and shutdowns keep the map, the placeholders and each other's results consistent? Does every call take effect in one step on a registry of jobs? |
| `serve` | Does the command end after a signal or a server error, though jobs ignore it, contexts close at any time and handlers go on? Was every job taken, even one that was being submitted, and asked to stop when it exits without a deadline having passed? Is a nil from `Shutdown` before its deadline true? Do RPCs return? |
| `worker_get_leak` (violation) | Does `Shutdown` return when its context closes, after a `GetJob`? |
| `serve_force` (violation) | Are jobs that ignored the graceful shutdown stopped by force? |
| `stream_safety` | Does the client get a gapless, correctly marked range? Is a wake-up ever lost? Is the exit code there when it is dereferenced? |
| `tail` | Is what is printed gapless and in order? Does `Job complete` mean that all the server read was printed? Does the command end when its job does, the call is refused or the connection breaks, and fail for no other reason? Is nothing of the call left on the server, however it ends? |
| `stream_tail` (violation) | Has all output been sent before the exit code? |
| `service` | Does a response with an exit code have all output? Do later responses know at least what earlier ones knew? Does a successful `StopJob` have an exit code? Does every RPC return that no lookup and no endless output keeps? |
| `exec` | Is all output copied before exiting? Does the command end when its job does, and after a signal, unless a drain never ends? |
| `child` | Can a command run outside its limits, whatever failed before? Do jobs that share a root directory disturb each other? Does one that was cut short keep later ones from starting? Is the child's status 0 only after a command that ended with 0? |

### Bounds

* Two streams, as in the code. `MaxOut` is 1 to 3 bytes a stream: enough for an
  empty log, one piece and several; in `stream_safety` stdout has up to three bytes in
  chunks of two, so that a chunk is full, short, or cut at the past total, while stderr
  has at most one (`ShortStderr`). Nothing in the code compares bytes.
* `ReadBuf` 2 lets one read take one or both bytes in the pipe.
* `ChanCap` is 2 in the service. direct-exec makes a channel of 5; 2 is checked,
  which fills up sooner. In `runner_safety` it is 1.
* `MaxSignals` 2 tells once from more than once.
* Three calls of the worker: two submissions that collide and one shutdown, a
  submission, a lookup and a shutdown, or two shutdowns and a submission. No
  operation compares more than two other calls. Calls are symmetric in
  `worker_safety`; liveness is checked without symmetry.
* Two RPCs in `serve` besides the three shutdowns of main: two submissions, each able to
  have an ID of its own or to collide, or one and a lookup. One that is half done while
  main returns, next to one that is done, is the case that matters.
* In `exec` and `service` a job may write for ever. `MCDirectExec` and `MCService` add an action
  `Forget` to the model: once a stream has reached `MaxOut` and some of it was read, its first byte leaves
  the log and every count of what was read of it, so that `MaxOut` bounds how far a reader is behind.
  The code only ever looks at the difference. Without this no drain could go on for ever,
  and `SignalEnds` and `EveryRpcReturns` would hold without their exceptions.
* In `tail` chunks have one byte, a channel one update and the wire two messages. A stream
  requested alone has up to three bytes, so three messages, of which two are on the wire at once;
  two that are requested together have one each, of which that of stderr is there from the start or
  never (`Room`, `ShortSpec`; the code treats the streams alike). Every queue can be full at once,
  which is when they wait for each other. Chunks of several bytes are the question of `stream_safety`.
* In `child` three jobs and one root directory: two whose pivots overlap and one
  before, after or between them. Two roots would be two independent systems.
* Two RPCs in `service`, on an ID that is free or has a job in any state: a lookup, stop or
  submission against another one, and against what was submitted before.
* Two exit statuses: 0 and the -1 of an unknown or signalled end. Nothing branches on
  the value.

### Fairness

Weak fairness on each goroutine: the Go scheduler runs whatever can run. A case of a
`select` that stays ready is taken in the end, since Go chooses among the ready
cases at random: the stop goroutine has one weak fairness condition per case for
that reason, and direct-exec strong fairness on receiving a signal, because the
case is not ready while it copies output. A process that got SIGKILL ends. Contexts
given to `Shutdown` have deadlines (`cmd/server.go`), so they close. In `serve` all
of this ends with the process, and only jobs that were sent SIGKILL end. The context
gRPC hands to a streaming call closes once the call is over at either end: when the
handler has returned, the client has gone or the connection is known to be lost. Nothing is assumed of
processes, their descendants or clients: they may write, end, cancel or call, or
never do; nor, in `tail`, of the lookup of the job, which the worker's lock may keep for ever. Read errors (`PipeFail`) and failing sends may happen at any time and need not.

## The proofs

Each holds for every value of the constants that meets the module's
assumptions, so for any number of callers, listeners, namespaces and IDs, any
buffer size and any amount of output. All are checked by TLAPS.

`RunnerProofs`. The properties are not inductive. `IInv` adds to the types:

* `FlowInv`: stored, buffered and piped bytes add up to what was written; a
  reader has something in its buffer exactly between reading and storing; a reader
  that closed on EOF left nothing. This is what "drain, then wait" rests on, and also
  what bounds the stored output in the type invariant.
* `WaiterInv`: the waiting goroutine passes `cmd.Wait` only after both readers and
  the end of the process.
* `DoneInv`: the exit code, the done context and the answers of `Stop` follow the
  steps of `markDone`.

`Invariant` has one lemma per part (`StepType`, `StepFlow`, `StepWaiter`,
`StepDone`), each with a step per action. From it follow `TypeCorrect`,
`OutputIsComplete`, `DoneIsReaped` and `StopIsFinal`. `Implementation` shows that
`Spec` implements `JobContract!JobSpec` under the refinement mapping: every
action is a step of the contract or leaves its variables alone.
They assume `JobAssumption` and `RunnerAssumption`: buffers and chunks hold at
least one element, the bound on output is a natural number, nil is not an exit code.

`WorkerProofs`. `IInv` adds the lock discipline: who holds a read lock, that the
writer is the only one between announcing itself and marking, that after the
marking no submission is under way; and what it implies for the map: which call
each entry belongs to, that a placeholder has a submission, that the map is taken
only when there are none. `NeverPanics`, `ShutdownSeesAllJobs`, `SubmittedIsListed`,
`GetFinds` and `PlaceholdersGo` follow. That `GetJob` leaks read locks does not hurt
them: it blocks the writer for ever, and they are safety properties.

`Linearizable` shows that the worker implements `Registry`: every step is one of the registry or
leaves it alone (`RegStep`, action by action). It needs the invariant at each of them: that an entry
that is taken has a holder or a job (`Exists`), that the one holder of an ID is the
submission that decides about it (`Keep`, `Drop`), that a reader that is past the shutdown check
runs on a worker that is up (`Hold`, `Look`), and that no ID is held when the
worker is marked (`Close`).

`ServeProofs`. Every step of the command is a step of `Worker` or a stutter
(`WorkerStep`), so `ImplementsWorker`, and all the theorems of `WorkerProofs` hold of
the command. `ServeInv` adds to the worker's `IInv`:

* `StopInv`: every job that was taken has its goroutine, and before the context closes
  that goroutine, and the group, end only with the jobs.
* `CallersInv`: which of its calls of `Shutdown` main has made and finished, for each
  point of main.
* `TakenInv`: a worker that is marked has had its map taken or is about to; at an
  orderly end it has.
* `TakerInv`: the call of main that took the map waits for the goroutines that stop the jobs, or
  has returned nil, when they had ended, or the error of its context.

From them `NoJobIsLeft`, `NilIsTrue` and `AskedAtExit`, for any number of RPCs. It assumes
`WorkerAssumption` and `ServeAssumption` (main's calls of `Shutdown` are distinct, and
are not RPCs).

`ChildExecProofs`. A limit applied early must still hold when the command starts, and
what a child finds at its pivot depends on the other children, so `IInv` has
`GroupInv` (each limit is to be applied or has been), `PivotInv` (the steps of the pivot
are taken in order), `MeetInv` (children of one root that are at their pivots know of
each other) and `EndInv` (a command that is over has an exit code) beside the properties
themselves. `CommandIsLimited`, `AlonePivots` and `ZeroIsSuccess` hold for any number
of jobs and roots, given `ChildAssumption`.

`StreamProofs`. For any chunk size, channel capacity and amount of output. `IInv` adds
to the types:

* `ReadInv`: no goroutine has read more than there is, and the past is read first.
* `OfferInv`: what a goroutine offers begins where the handler has got to with its stream, and
  one that offers nothing has had all it read taken. It ends when the handler gives up
  (`GaveUp`): a goroutine may then be left with a message nobody takes.
* `HandInv`: the handler has a message only between taking and sending it.
* `WakeInv`: a goroutine that waits on an empty channel has read everything. A send that
  finds the channel full leaves an update in it, so a dropped update never is the last.
* `EndInv`: only the end of the job ends a goroutine without an error, and only the
  end of all goroutines brings the handler to the exit code.

`CodeIsThere`, `NothingIsMissed` and the action property `SentInOrder` follow, given
`JobAssumption` and `StreamAssumption` (the streams' channels are the only ones, chunks are not
empty, and `NoMsg` is neither a message nor one in the hand).

`ClientTailProofs`. `ImplementsStream`: every step of the command, its connection and the handler
is a step of `Stream` or leaves it alone, so the theorems of `StreamProofs` hold of the command.
What it prints needs more, which `TailInv` adds to the `IInv` of `Stream`:

* `WireInv`, while both ends are there: the messages of a stream on the wire lead one after the
  other from the last one printed to the last one sent (`Chain`), and the exit code is behind them
  all (`CodeLast`).
* `CallInv`: nothing is sent before the job was found; from then on, as long as both ends are there,
  only the exit code ends the call.

`CompletePrinted`, `ErrorIsCaused` and the action property `PrintedInOrder` follow, for
any capacity of the connection.

`ServiceProofs`. For any number of RPCs and any buffer size. `PathInv` (each RPC takes the path of its
method), `EntryInv` (one submission at most holds the ID, and an ID with a job keeps it),
`ResponseInv` (an exit code in a response freezes the job, so that what is read after it is
everything), `StopInv` (`StopJob` goes on only when the job is done) and `OrderInv` (an RPC
is not behind those that had succeeded when it was called) make up `IInv`.
`CodeHasAllOutput`, `StopAnswersCode` and `ForwardsOnly` follow. `UsesRegistry` shows, with `RegInv`
(one submission's job is listed, a held ID has its submission, and the shutdown waited for it), that
what the RPCs see of the worker is a registry of one ID. It assumes `JobAssumption` and
`ServiceAssumption` (the job of an earlier submission is none of those of the calls).

`DirectExecProofs`. `CopyInv` (a console has what was read for it) and `SeenInv` (an exit code
that was seen before the drains is the job's, and what was drained after it is all there will
be) give `ExitIsDrained`, for any buffer size and amount of output.

Each inductive invariant was checked by TLC as an invariant of its module's small instance before it was
proved.

Only model-checked: all liveness (`runner_live`, the temporal properties of `serve`,
`tail`, `service` and `exec`), which TLAPS does not handle with fairness. Every safety
property and both refinements the passing runs check are theorems. `UsesRegistry` is proved and in no run:
TLC finds it true of the instance of `service` in a few seconds. The
three runs that expect a violation show the code at odds with its documentation and have nothing to prove.

## Disagreements between the code and its documentation

Shown by a run:

* `worker.go:79`: `GetJob` defers `RLock` instead of `RUnlock`. After one lookup
  `Shutdown` never gets its lock, nor looks at its context (`worker_get_leak`).
* `server.go:96-99`: the forced shutdown is a second `Shutdown` of the same worker, which
  answers `ErrShutdown` at once and stops nothing (`serve_force`).
* `service.go:338`: a read that returns the exit code ends the stream, though it
  returns one chunk at most: the tail of a fast job's output is never sent (`stream_tail`).

Seen while modelling, without a run:

* `runner.go:108`: the forced case receives from the context and not from the
  variable it sets to nil: after a forced stop without a graceful one the goroutine
  spins, sending SIGKILL (action `StopperKill`).
* `exec.go:134`: stdout is copied to stderr and stderr to stdout (operator `Source`).
* `runner.go:81`: the exit of a process is reported only after its descendants
  have closed the pipes; until then its job reads as running (`job.go:159-160`).
  `ForcedStopReturns` and `ClosedPipesComplete` say exactly when this matters.
* `initial_design.md:192-195` has the gRPC server stopped before the jobs; the code
  stops the jobs first, and the server in a deferred call.
* `worker.go:187`: the goroutines that stop jobs ignore why `Stop` returned, so
  `Shutdown` may return nil, "all jobs have completed", when its context closed
  with jobs running. `NilIsEarned` is about a nil before that; after it no property holds.
* `exec.go:112`: the forced stop's context is a child of the expired one, so it has no time
  at all (action `ForceTimesOut`).
* `exec.go:75`: a signal between the start of the job and `signal.Notify` kills the command and
  leaves the job running (action `Signalled`).
* `exec.go:133` and `service.go:112`: `drainOutput` and `allOutput` read until there is nothing left, and
  look at neither signal nor context meanwhile. A job that writes as fast keeps direct-exec from
  its signals and a `GetJob` from returning (`SignalEnds`, `EveryRpcReturns`).
* `server.go:83`: a signal before `signal.Notify` ends the process without a
  shutdown, though the server has been accepting RPCs since line 79 (action `Signal`).
* `runner_linux.go:94`: the child's deferred removal of its cgroup directories runs
  while it is still a member of them, and after a pivot where they cannot be seen: only
  a directory the child failed to join is ever removed (action `Leave`).
* `runner_linux.go:52`: signals of `Stop` reach child-exec and not the command. They end the
  child at once; the command goes with it when `Isolation.PID` is set, without being
  asked, and is left running when it is not (action `Kill`).
* `root.go:18`: a command that a signal ended makes `os.Exit(-1)`, so the job's
  exit code is 255 (action `RunDone`).

## What is not modelled

* Names, arguments, times, PIDs, log lines and the wording of errors: no
  control depends on them.
* Generated protocol code (`worker.pb.go`, `worker_grpc.pb.go`) and gRPC itself; the
  promises in `worker.proto` about streaming are properties of `Stream`.
* `get`, `stop` and `submit` of `client.go`: one call each, whose other end is
  `Service`. What they print is a matter of format.
* `certificate.go`, `cert.go`: sequential, without state; each decision is one branch
  that sets a field, and what the field means is up to the TLS library.
* `diag.go` (loads the machine on purpose), `main.go`, and
  `runner_nonlinux.go` (a stub that fails).
* Running out of memory: a job's output grows without limit in the code.

## Plan

Done: all the components that keep state or coordinate, each with its proofs: `JobContract`,
`Runner`, `Worker` and `Registry`, `Serve`, `ChildExec`, `Stream`, `ClientTail`, `Service`,
`DirectExec`.

Next, in this order:

1. What follows from a refinement: a job seen through `JobContract` (its log only grows, its exit code
   is final) stated once and cited where `Stream`, `Service` and `DirectExec` prove it again
   (their lemmas `JobGrows`).
2. `Service` on `Registry` itself, with several IDs, in place of its one `entry`.
