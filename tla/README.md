# MothX: session ownership, execution and submission, in TLA+

MothX is a coding agent in one Go binary: a terminal UI, an HTTP and ACP server, chat
channels and a cron scheduler, all of which run agent loops over *sessions* kept in one
SQLite database.  Several processes may open the same database.  What makes the program
correct, and is hard to test, is who may write to a session, how a run of it ends, and what
is left of it in files and tables when a process dies half-way.  This directory specifies
seven parts of that core, model-checks them with TLC and proves their safety with TLAPS.

Paths below are relative to `src/`.

## 1. Inventory

### 1.1 Components of the core

| component | state it keeps | operations |
|---|---|---|
| **session lease** `internal/session/runtime_lock.go`, `lock_registry.go`, `internal/dao/runtime_lease.go` | row of `session_runtime_leases` (owner, epoch, token, purpose, run, expiry); per process: a mutex per session, a registry of its leases, a reference count per lease, one heartbeat scheduler per directory | `AcquireExecutionAdmission`, `AcquireMutation(s)`, `AcquireFork`, `AcquireRecovery`, `AcquireContentWriteReservation`, `RetainRuntimeLease`, `BindRuntimeLeaseToExistingRun`, `RuntimeLeaseGuard.Release`, heartbeat renewal, loss; fences `validateRuntimeLeaseTx` and `validateRuntimeLeaseBindingTx` inside every write |
| **execution runtime** `internal/agentruntime/execution*.go` | the active run of one session in one process: state, selected terminal outcome, durable metadata, lease binding, `done` channel; the map of local executions | `Begin`, `BeginDurable`, `SetAgent`, `Cancel`, `WaitForApproval`/`Resume`, `FinishDurable(WithRetry)`, `Shutdown`, `Reattach`, `watchLeaseLost`, background terminal retry |
| **run store** `internal/session/run_store.go`, `run_recovery.go` | row of `session_runs` (at most one non-terminal per session, by a unique index), events, error info | create with event, status update with allowed predecessors, finish with conversation turn |
| **submission coordinator** `internal/agentruntime/submission_coordinator.go` | FIFO queue, active submission, reference count, a handle per submission | `Submit`, `Acquire`, `AcquireExecutionSubmission`, `Cancel`, `Wait`, `Release`, `Wake`, `Close` |
| **run recovery** `internal/agentruntime/run_recovery.go`, `recovery_coordinator.go` | recovery attempts with back-off, a scan loop per database | attempt under a recovery lease, reconcile, converge; startup, periodic and wake-driven scans |
| **ownership cache and lease bus** `internal/session/runtime_ownership_cache.go`, `runtime_lease_bus.go` | per process, a projection of who holds which lease; sequence number per origin | UDP announcements (acquired, released, lost, snapshots), gap detection, look-up, priming from SQLite |
| **event store and intents** `internal/session/event_store*.go`, `event_intents.go` | an append-only file per session, intents and projections in SQLite | prepare, append, commit, inspect, reconcile, adopt, migrate |
| **delivery outbox** `internal/session/delivery_store.go`, `internal/agentruntime/delivery_coordinator.go` | intents and operations with lease, epoch, attempts, dependency | create plan, claim, progress, complete, retry, reopen, aggregate |
| **decision service** `internal/agentruntime/decision.go` | pending, resolving and resolved approvals and questions | register, bind, resolve, clear a run, rehydrate |
| **cron** `internal/cron`, `internal/dao/cron.go` | jobs with a claim (`last_status`, `last_run`) | claim due, execute, complete, run now, edit, start and stop |
| **agent loop** `internal/agent` | message history, iteration budget; of a team lead a mailbox, and a manager with a status per member | model turns, tool calls, would-stop hook; spawn, send, answer, wait, destroy; abort |

The other components (adapters, tools, sandbox, providers, session tree, workflows, state
machine supervisor, configuration, database layer, clients) are listed with their status in
`PROJECT.json`.

### 1.2 How they interact

1. An adapter (TUI, ACP, channel, cron, knowledge, ESM) submits to the session's
   *coordinator*.  When its turn comes the coordinator acquires the *lease* for admission:
   a transaction that compares owner, epoch, expiry and the session's active runs.
2. The adapter begins its *execution*: `BeginDurable` creates the run's row and binds the
   lease to it in one transaction, then retains the lease, so that the coordinator may
   release its guard before the run is over.
3. Each write of the run is *fenced*: its transaction checks that the lease the process has
   registered for the session is the one in the row.
4. The heartbeat renews all leases of the process.  A lease found displaced closes its
   `lost` channel; the execution's watcher then cancels and retires the run.
5. The run ends by a terminal transition under `transitionMu`: select the outcome, mark the
   row terminalizing, commit outcome, turn and event, unregister, release the lease, close
   `done`.  If the store fails a retry goes on in the background.
6. If the process dies, its row expires; another process takes the lease in recovery mode,
   settles what the run left between the event file and SQLite, and writes the terminal
   status.
7. Transcript events of the run go through the *event store*: intent, append, mark, commit.
   The SQLite half is fenced by the lease, the file is not.
8. A reply to a chat channel is committed with the end of its run as a plan of *deliveries*;
   the channel that sends it at once and the recovery workers of all serve processes claim
   its operations one by one.
9. *Cron* schedulers of several processes claim due jobs in one table; a job bound to a
   session then submits like any adapter.
10. Inside a run the *agent loop* of a team lead spawns members, whose runs go on beside it
    and speak to it through its mailbox.

### 1.3 What is hard, and what must hold

* *Two-step operations.* Commit and registration, in-memory release and the row's release,
  binding and its mark: everyone else runs in between.  The registry, the mutex, the
  references and the row must stay in step.
* *Stalls longer than the time to live.* A process may be displaced without knowing.  Its
  late renewals, releases and writes must not disturb the successor.
* *Competing finishers.* Adapter, retry, shutdown, watcher, recovery of another process:
  one outcome, durable once, and the run always leaves memory.
* *Cancellation at every moment*, before the agent is bound, in the queue, just when
  admitted.
* *Order of release and completion.* A successor that was told of completion must find the
  lease free.
* *Two storages.* A file that nobody fences and a database that everybody does, with a crash
  or a hand-over at each step between them.
* *Claims that outlive their worker.* Deliveries and jobs are claimed for a time; the worker
  that comes back late must not overwrite its successor.
* *Waiting in a ring.* A lead waits for members that wait for its answer.
* *Failures* of any store operation, dropped errors, crashes.

`PROJECT.json` lists the hazards one by one, at their lines, with the properties that catch
them or the reason why none does yet.

## 2. Modules

| module | models | proofs |
|---|---|---|
| `FencedGrant` | abstract specification: numbered grants that fence out their predecessors | (refined by `SessionLease`) |
| `SessionLease` | the lease protocol, one session, several processes | `SessionLeaseProofs` |
| `RunRecord` | abstract specification: the records of a session's runs | (refined by `ExecutionRuntime`) |
| `ExecutionRuntime` | one `ExecutionRuntime` and the durable rows of the runs it owns in turn | `ExecutionRuntimeProofs` |
| `Turnstile` | abstract specification: a line that lets in one at a time | (refined by `Submission`) |
| `Submission` | one `SubmissionCoordinator`, its submissions and their owners | `SubmissionProofs` |
| `Transcript` | abstract specification: what readers of a session's transcript are promised | (refined by `EventStore`) |
| `EventStore` | the event file of a session, its intents in SQLite, the runs that append and their recovery | `EventStoreProofs`, `EventStoreOrderProofs` |
| `ReplyPlan` | abstract specification: what becomes of the parts of one reply | (refined by `DeliveryOutbox`) |
| `DeliveryOutbox` | one reply: its operations and intent, the channel and the recovery workers | `DeliveryOutboxProofs` |
| `Cron` | one job, the schedulers of several processes, executions, management calls | `CronProofs` |
| `MemberTeam` | a team lead, its members, mailbox and manager | `MemberTeamProofs` |
| `MC...` | what a run defines for TLC: plans and symmetry sets | |

The modules meet at the lease.  `SessionLease` says how it is granted; `ExecutionRuntime`,
`Submission` and `EventStore` reduce it to what their code can tell of it (who holds it, in
time or not, and whether the holder has been told).  They are not composed in one
specification: their product is far beyond TLC, and each uses of the others only what the
fences, or the completion of a run, give.

### 2.1 SessionLease

State: `row` is the lease row with its expiry as ticks left; `handle[e]` the `*runtimeLease`
made by acquisition number `e`; `registry` and `mutex` are `activeRuntimeLeases` and
`runtimeLocks`; `snapshot` is what a heartbeat pass is about to renew; `retained` are the
leases an execution holds a second reference to; `runStatus` is what acquisition and binding
read of `session_runs`.

A lease is named by its epoch, since `Acquire` is the only statement that makes an identity
and always increments it; owner, epoch and token are compared together everywhere.  A
restarted process draws a new owner id, so it is another element of `Process` and `Crash` is
final.  A transaction is one action; what the code does after the commit is another
(`Acquire`/`Remember`, `CreateRun`/`MarkBound`, `ReleaseGuard`/`ReleaseRow`,
`HeartbeatSnapshot`/`HeartbeatRenew`).  Failures are actions: `HeartbeatFail`, the
`UNCHANGED row` branch of `ReleaseRow` (the code drops that error), `Crash`.

Left out: the start and retirement of heartbeat schedulers (the heartbeat just runs), groups
of leases (`AcquireMutations` takes them in order of name), the notifications (advisory), a
second retention of one lease (`Retain` is taken once per lease, though the code does not
look: a Runtime registers a run once), and, in the run, fork as the purpose of an
acquisition (it is granted like a mutation; the proofs hold for every set of purposes).

### 2.2 FencedGrant

Five variables: the last token, its owner, whether it is valid and fresh, and which grants
are still counted on by those they were made to.  It promises that a valid grant passes to
another process only when it lapsed, to its own process only when that one gave it up, and
that it is withdrawn only when given up.  `SessionLease` implements it under
`token <- row.epoch`, `claims <-` the handles acquired or held (`ImplementsFencedGrant`).

### 2.3 ExecutionRuntime

State: `rt` are the fields of the struct; `lock` is `transitionMu` together with the program
counter of the transition that holds it; `adapter`, `watcher`, `retrying` are the goroutines
of each run; `lease[r]` is what the runtime can tell of the lease run `r` was admitted under
(held, displaced but not told, lost, released), an abstraction of `SessionLease`; `status` is
the run's row; `other` and `recovered` stand for another process that takes the session over
and terminalizes the run.

A section under `r.mu` is one action.  `finishDurableLocked` is the chain
`Select` (inside `FinishDurable` or `RetryTurn`), `MarkOk`, `CommitOk`, `Retire`, `Unregister`,
`CloseDone`, which `AttemptFails` may leave at each store call and `Adopt` leaves when the row
turns out to be terminal already.  `ShutdownLoopless`, `ShutdownLoop`, `Cancel`,
`CancelDurable`, `WatcherCancels` and `WatcherRetires` compete with it.  `waitFor` and `Resume`
are `WaitFor` and `Resume`, which change memory and take `transitionMu`, and then `TransitionOk`
or `TransitionFails`, which end `persistNonTerminalTransition`: between the two a `Cancel`,
which takes only `r.mu`, may come.  Approval and question are one state; the decisions that end
them are not modelled, so an answer may come at any time.  The `Cancel` of `shutdownLoopOwned`
and the update of the row that follows are one step, or the update does not happen.

`RunRecord` is what is left of this in `session_runs`: one run is open at a time, its record
goes from running and waiting to cancelling, terminalizing and an outcome, never back, and is
ended once, with the outcome that was chosen for it first, or by a recovery
(`ImplementsRecord`).  The Runtime's `run` and `selected` are what it knows of that.  Runs that
another process creates are not in the module; each admission looks for open rows of any.

`PreparedRunSettles` says that a run whose outcome is chosen leaves memory, by success, by
retry or because its lease is lost and the watcher is told.  It excepts a run that was
displaced and whose lease another acquisition of the process has replaced in the registry
(`Forgotten`): nobody tells the watcher any more (section 4, *lost signal*).

Left out: `Reattach`, `UpdateDurable` and error-info writes, the registry of local
executions, stores without an atomic finish, recovery by the own process, and the
registration that goes on without a retention where the store keeps no lease rows
(`agentruntime/run_store.go:151`).

### 2.4 Submission

State: `active`, `queue`, `closed`, `refs` of the coordinator; `thread[s]` is where the
goroutine `execute(s)` is; `owner[s]` is how far the adapter has come between `Wait` and
`Release`; `guard`, `retained`, `external` reduce the lease to who keeps it: the admission's
guard, the execution of one of the submissions, another process.

`Submit`, `CancelQueued`, `Close` and `CompleteAndNext` are the sections under `c.mu`.
`AdmitOk/AdmitBusy/AdmitFails/BackoffEnds/BackoffOver` are `admit`, `RunnerReturns` the
runner, which ends when its owner is done *or* its context is cancelled.  The owner's steps
are those of an `ExecutionRuntime`, reduced to begin, select, finish.  The policies are the
ones the adapters pass: the TUI does not wait for an external owner, ACP does not queue,
channels do both, the shared ones (`AcquireExecutionSubmission`: cron, ESM, knowledge) are
taken as waiting.

The `SessionRuntime` holds one reference to the coordinator and gives it up in two ways.
`RuntimeCloses` is `Close`, which takes the field and clears it under its lock.
`ShutdownReleases` is `Shutdown`, which reads the field, waits for the active execution and
then drops what it *read*, whether or not the field still says so: when a `Close` or another
`Shutdown` came in between it drops a reference that belongs to somebody else.  `overdrafts`
counts those, up to `MaxOverdrafts`.  `OpenUnlessOverdrawn` says that the count is right but
for them, `OpenWhileShared` that it is right, which the code does not keep (section 4,
*submission_overdrawn*).

`Turnstile` is what of this concerns whoever submits: who was let in, in order, and where each
is, outside, waiting, inside or out again (`Place`: out once the completion is published,
inside while active).  Whoever leaves lets in the first that waits, closing sends the waiting
away, nobody comes in twice or is left waiting behind nobody (`ImplementsTurnstile`).

Left out: the wake channel (advisory, the timer makes up for it), admissions outside the
coordinator (they count as `external`), the coordinator that replaces a closed one in the
registry (whose entry a second drop at zero would remove as well), and a `SessionRuntime`
that asks for a coordinator again after its `Shutdown` has failed.

### 2.5 EventStore

State: `log` is the file, one item per write: a whole batch, whole lines without the footer
(`part`), a line without its end (`torn`), or the rest of a batch whose beginning a repair
has cut away (`debris`); `intent` is `session_event_intents`; `run` and `recovery` the
session's last run and its recovery row; `lease` who holds the lease and whether it is in
time; `proc` the actors, `cache` their append caches; `late` remembers that somebody changed
the file who had lost the lease.

`appendEventBatch` is `Gate`, `Reserve` (only for a writer without a run), `NextSequence`,
`Prepare`, `Position`, `Write` or `WritePart`/`WriteRest`, `Mark`, `CommitEventIntent`; every
one of them may be the last a process does (`Crash`), and the SQLite ones are fenced.  The
scan that repairs (`Scan`) and the one that inspects (`Verdict`) differ as in the code.
`recoverOrphanedRun` is `AcquireRecovery`, `BeginRecovery`, `Reconcile`, `Settle` (one
transaction per intent), `Converge` or `FailRecovery`, with `RetryDue` as its back-off.

`Transcript` is what of this concerns a reader: entries that are announced, and committed or
aborted; the places they have, the entries whose bytes are stored there, the run that is
open, and whether somebody has written who was not allowed to.  Intents that are prepared or
appended are pending (`Told`), stored is what the file holds whole and where the intent says
(`Stored`), damage is `late` (`ImplementsTranscript`).  An entry is committed with its bytes,
at a place nobody else has and, if it is a run's, beyond all of the runs before; aborted
without its bytes; and a run is closed when nothing of it is pending.  The order leaves out
writers without a run: their gate comes before their reservation.

Left out: segments and their manifest, migration and export of older transcripts, intents
that are kept for a remote or detached run, rebuilding of projections, an append that is
retried under the same identifier, recovery's deferral to a fresh owner of the ownership
cache and the state `recovery_required`.  Once somebody without the lease has changed the
file (`late`), two steps are simpler than the code: `Settle` aborts an appended intent whose
bytes are gone, where `event_intents.go:404` marks it for a manual recovery and fails, and
`Verdict` ranks the causes, where the loop at `event_intents.go:502` takes that of the first
intent.

### 2.6 DeliveryOutbox

State: `row` and `intent` are the two tables; `worker[w]` is a goroutine that goes through a
batch of operations (the channel's controller right after the run, or a pass of a recovery
worker); `reopened` is the process's memory of what it reopened; `accepted` counts how often
the recipient's platform took an operation, which the program cannot see.

An operation is its sequence number.  A claim is named by its worker: epochs are compared
with their owner only.  Time is what the code compares: `leased`, `due`, `windowOver`, and
`aged` for a worker whose clock is that of its scan.  `Propagated` gives the closed form of
the loop `PropagateDependencyFailures`, in which the nearest operation that does not wait
decides; every statement that changes a status is followed by it and by the aggregate, as in
the code.

`ReplyPlan` is what of this can be seen from outside: the outcome of each part, what the reply
says, and what reached the recipient.  A part succeeds or is lost in its turn, a loss takes
along what depends on the lost part, a transient failure may be tried again with exactly what
it took along, and parts arrive in order (`ImplementsPlan`).  A row's code tells a loss of its
own from one that came from elsewhere (`Fate`).

Left out: how a reply is planned, the calls of the platforms beyond what they answer, and the
second report of a delivered operation after the first could not be recorded
(`messaging/feishu/feishu.go:405`).  Workers of another platform (`Foreign`) are in the
proofs and not in the runs.

### 2.7 Cron

State: `row` is the job; `loop` and `tick` the scheduler of each process; `manual`, `exec`
and `user` hold the copy of the row that `RunNow`, a completion or a management call has read
and will write back whole; `standing` and `lost` are history: which execution the row's
"running" stands for, and which ones' claim lapsed or was written over.  Days are two values
of `last_run`; a day does not pass between a scheduler's look at the clock and its claim.

Left out: the store in memory, the grammar of schedules, the maintenance jobs, observers.

### 2.8 MemberTeam

State: the lead's place in its loop (`pc`) with its turn and outcome; the mailbox as the
sequence of all `items` with two pointers (`taken`: drained, `heard`: a request that held
them was answered) and the hint `activity`, a channel of one; the manager's `status` and
`managed`; per member's run its `loop`, `question`, context (`live`) and the goroutine that
monitors it.

Queueing and hinting are two steps, and so are draining and clearing the hint, as in
`mailbox.go`.  The hook is `WouldStop` and `HookWakes`: it drains the queue, and if it was
empty asks for running children, waits for the hint or two seconds (`wait`), and looks again
(`look`, `lookEmpty`).  Only such a second look that found nothing may end at the deadline of
thirty-five minutes, which is when no member's run has any of its thirty minutes left.
`subagent_spawn`, `_send`, `_answer`, `_wait` and `_destroy` are actions; any other tool is
`OtherTool`.

A request to the provider ends: `Respond` and `Fail` are fair.  In the code a stream that times
out is retried until the run is cancelled (`agent/agent.go:1416`), so `RunEnds` speaks of
providers that answer or fail.

Left out: batches of tools, approvals, claims on files, repair of the transcript, recovery of
a stream, delegation, compaction, the adapter's own steering.

## 3. Runs

| run | module, cfg | bounds | what it shows |
|---|---|---|---|
| `lease` | `MCSessionLease` | 2 processes, 2 acquisitions, 2 runs, TTL 1, the purposes admission, recovery, mutation and legacy | `HolderRegistered`, `RefsCountHolders`, `ReservationExcludesRun`, `BoundToActiveRun`, `LiveLeaseNotDisplaced`, refinement of `FencedGrant`, `AbandonedLeaseLapses` |
| `execution` | `MCExecutionRuntime` | 1 run, 2 takeovers | `SelectedOutcomeStands`, refinement of `RunRecord` (`ImplementsRecord`), `RegisteredKeepsLease`, `HeldLeaseHasHolder`, `CancelReachesAgent`, `CompletionAfterRelease`, `PreparedRunSettles` |
| `watcher` | `ExecutionRuntimeWatcher` | 2 runs, 1 takeover | finding: a late watcher retires the successor |
| `submission` | `MCSubmission` | 2 submissions, 2 policies (TUI and shared), 1 cancelled context, 1 reference dropped twice | `OneAtATime`, `CompletionIsLast`, `OpenUnlessOverdrawn`, refinement of `Turnstile` (`ImplementsTurnstile`), `StoppedSubmissionSettles`, `NoAdmissionLeftBehind` |
| `submission_overdrawn` | `SubmissionOverdrawn` | 1 shared submission, 1 reference dropped twice | finding: a `Shutdown` overtaken by a `Close` closes a coordinator that is still shared |
| `event_store` | `MCEventStore` | 2 processes (one also writes without a run), 3 batches, 2 runs, 2 faults, both kinds of cut writes | `CommittedHasBytes`, `CommittedApart`, `SettledWithRun`, `UnreadableOnlyByDamage`, refinement of `Transcript` (`ImplementsTranscript`), `OrphanSettles` |
| `event_torn` | `EventStoreTorn` | 2 processes, 2 batches, 2 runs, 1 fault | finding: a torn tail is never repaired |
| `delivery` | `MCDeliveryOutbox` | caption, upload and send; channel and 1 worker; 1 disruption | `PrerequisiteFirst`, `NobodyWaitsForLost`, `IntentAgrees`, refinement of `ReplyPlan` (`ImplementsPlan`) |
| `delivery_settles` | `DeliverySettles` | upload and send, 1 worker, 1 disruption | `ReplySettles` |
| `delivery_resent` | `DeliveryResent` | upload and send, no disruption, prompt calls | finding: a confirmed message is sent again |
| `cron` | `MCCron` | 2 processes, 2 executions at once, 1 call | `OneLiveClaim`, `AbandonedReclaimed` |
| `team` | `MCMemberTeam` | 1 member with its task and one later message, 1 run of 3 turns, 1 question | `SuccessHasHeard`, `StaysForMembers`, `AnswerReported`, `CompletionMatchesStatus`, `HookHears`, `MembersEnd`, `RunEnds` |

**Why the bounds are enough.**  *MaxEpoch* 2: a holder and the one that displaces it, which
is as far as the conditions of the code look back (row, registered lease, own lease); a third
acquisition takes the run past its time, and the safety properties are proved for every
number.  *TTL* 1 is the shortest that separates a fresh row from an expired one; nothing
counts ticks.  Two processes are an owner and a competitor.  One *run*
of an `ExecutionRuntime` with all its finishers, and twice another process, is what its
safety and its liveness are checked on; a second run of the same runtime, the successor that
a late goroutine may confuse the first with, is in the run `watcher`, and the theorems hold
for every set of runs.  *MaxTakeovers* bounds how
often another process has the session.  Two *submissions* are one active and one behind it,
of different adapters; order among several that wait is proved, and so is the safety of
ACP, which refuses instead of queueing, and of channels, which are like the shared ones but
for their reference.  *MaxCancels* bounds contexts
cancelled from outside, *MaxOverdrafts* the references dropped twice: one is enough to close
under one who shares.  *MaxBatches* 3: one committed, one left over, one of the successor;
*MaxFaults* 2: the fault that orphans a run and one that hits its recovery, or the successor.
A plan of three operations is the longest chain `PlanDelivery` makes for one artifact;
*MaxDisruptions* is a crash in the middle of it or an operator's retry.  Two *executions* of
a job are one that stands and one that was displaced.  One member with two runs, its task and
a later message, is two runs that speak to the lead in any order.

**Why one question has a run of its own.**  `ReplySettles` needs fairness for every step of
the delivery, which a chain of three makes too large for the time a run is given;
`NobodyWaitsForLost` needs the chain.

**Deadlock** is not checked (`CHECK_DEADLOCK FALSE`): with bounded epochs, runs, batches,
calls and turns every behaviour stops once they are used up, and the program may be idle.
That nobody waits for ever is stated by the liveness properties.

### 3.1 Fairness

* `SessionLease`: the clock ticks; the heartbeat's ticker fires (`WF`) and a renewal that is
  tried again and again gets through (`SF`: SQLite busy errors are transient); a goroutine
  between two statements goes on.  Nobody has to acquire or release.
* `ExecutionRuntime`: a transition or a wait that holds `transitionMu` goes on; the store answers in the
  end (`SF` on the two store calls, which the code repeats with back-off); started goroutines
  run; `transitionMu` is a Go mutex, which does not starve a waiter (`SF` on those who lock).
  No agent loop has to end, nobody has to cancel.
* `Submission`: goroutines go on; a `select` with an end ready does not pass it over for ever
  (`SF` on `BackoffEnds`, and on the refusal of a cancelled admission while the predecessor's
  lease drains, which is such a `select` too).  No owner has to finish, no other process to let go: that is the
  point of `StoppedSubmissionSettles`.
* `EventStore`: who is alive goes on with what it has begun; a dead holder's lease runs out;
  the recovery coordinator scans for ever and its back-off ends.  No run has to begin, append
  or finish, and a holder that is alive need not expire.
* `DeliveryOutbox`: a worker goes on, a store that fails does not fail for ever (`SF` on
  `Record`); leases, back-offs and windows pass.  Platforms may fail every call.
* `Cron`: days pass; a tick claims what it listed; the two steps of `RunNow` follow each
  other.  No execution has to end and nobody has to call: where every goroutine of the bound
  is in use the property lets go (`\A e \in Exec : Live(e)`).
* `MemberTeam`: the lead's loop, members that have something to do and monitors go on.  No
  member has to end of itself and no time has to run out by fairness: `MembersEnd` and
  `RunEnds` say what follows *if* the thirty minutes of a run do pass (`TimeRunsOut`).
  `HookHears` needs neither: the poll of two seconds is a step of the lead's own.

## 4. Findings

Four are shown by a run that expects the violation:

* **watcher** (`agentruntime/execution.go:223`): the watcher of a released lease, woken late,
  cancels and deregisters whatever run is active by then.
* **delivery_resent** (`serve/channels/dispatcher.go:1534`): the claim of an operation that
  recovery has delivered meanwhile returns without an error, and the channel sends it again.
* **event_torn** (`session/event_store_append.go:956`): a torn tail is refused by the gate
  before the scan that would repair it, and by recovery; run and store stay stuck.
* **submission_overdrawn** (`agentruntime/session_runtime.go:234`): `Shutdown` drops the
  reference it read before its wait, also when a `Close` or a second `Shutdown` has dropped it
  meanwhile; the coordinator closes, and cancels, under an owner that shares it.  The way there
  is narrow: of the adapters ACP is the one that can close a Runtime (on a change of the work
  directory, `acp/acp.go`) while a closing parent session shuts the same one down, because it
  forgets the Runtime only afterwards; channels close theirs under one lock, and those of the
  OpenAI API never take a coordinator.

The following were met while modelling.  They are possible in the models, or are why a
property is stated with an exception; no run is spent on them.

* *Stale write* (`session/runtime_lock.go:759`): the fence accepts every writer of the process
  while the row is the tombstone of its mutation; an execution that mutation displaced may
  write once more.
* *Lost signal* (`session/runtime_lock.go:124`): a new lease of the process replaces the
  displaced one that an execution still retains; no heartbeat examines that one any more, so
  its loss is never reported.  A run that was displaced after it chose its outcome then stays
  in memory for ever: another process takes over and releases, the run's terminal write fails
  on the lost lease, and the process admits the next submission before its heartbeat looks.
  This is the exception `Forgotten` of `PreparedRunSettles`, which two runs violate without it.
* *Dropped submission* (`agentruntime/submission_coordinator.go:482`): a cancelled context
  frees the queue while the execution keeps the lease; the next submission of the TUI is
  refused as owned elsewhere.
* *Foreign platform* (`dao/delivery.go:294`): the scan for due operations looks at no
  platform; a worker of another one claims them and records its failure, which is why
  `Foreign` workers are empty in the runs.  The proofs hold with them.
* *Cron*: `RunNow` resets a claim taken since it looked (`cron/scheduler.go:556`); a completion
  or an edit writes back a whole row and loses what came between (`:512`); a refused admission
  leaves the row running for a day (`:363`); the run command of the TUI clears `last_run` of a
  running job (`tui/commands.go:466`), after which no claim is ever stale, hence the exception
  in `Abandoned`; the tool refuses a stale running job (`cron/tool.go:255`).
* *Event store*: a crash that leaves whole lines without a footer makes the next append a
  nested batch, and the store unreadable (`session/event_store.go:687`); a scan that repairs is
  not fenced and may cut the half batch of the writer that holds the lease (`:651`); the intent
  of a writer without a run that died is adopted by no recovery (`event_intents.go:393`).  They
  are the exceptions `late` and `Cut`.
* *Team*: a member may be marked done after the hook looked at the queue and before its
  completion is queued, so a lead can end without it, though `agent/agent.go:1914` and
  `follow_up_test.go:69` speak of delivery.  A message to a finished member begins a run
  (`subagent.go:833`) and does not make it running again, because a terminal status stands
  (`manager.go:591`), nor does the second of two overlapping runs count once the first has
  ended; so the hook does not stay for such a run, and the lead's end cancels it, though
  `manager.go:171` speaks of any child that runs.  `StaysForMembers` therefore speaks of
  members without a later message.  When a lead fails while a member ends, `Finish` may give
  the member the status error and its completion still says canceled;
  `CompletionMatchesStatus` speaks of members that are still managed.  A stale hint ends
  `subagent_wait` with nothing to report (`subagent_wait.go:78`).
* *Execution*: a transition to waiting that cannot be recorded is rolled back over a
  cancellation that came meanwhile (`agentruntime/execution.go:342`): the runtime then says that
  a cancelled run is running.  Its agent is aborted all the same (`CancelReachesAgent`), because
  only an agent that is bound waits.  The comment on `Completion` (`:877`) has it closed after
  the lease is released, without an exception; where the row turns out to be terminal already
  and its outcome is adopted, it is closed before.  `CompletionAfterRelease` excepts those.
* *Outside the models*: a clearing of a run's decisions overtakes one that is being resolved
  (`agentruntime/decision.go:242`).

## 5. Proofs

Every theorem holds for all values of the constants under the one assumption of its module,
which TLC evaluates in every run of that module.  Each proof module has an inductive
invariant `IInv` (`Inv` in `EventStoreOrderProofs`, which builds on the one of
`EventStoreProofs`), one lemma per action (or per group of actions that touch the same
variables) and one short theorem per property.  Type invariants are proved, so no run checks
them.

| module | proves (property) |
|---|---|
| `SessionLeaseProofs` | `HolderStaysRegistered` (`HolderRegistered`), `ReferencesCounted` (`RefsCountHolders`), `BindingsStand` (`BoundToActiveRun`), `RunsExcluded` (`ReservationExcludesRun`), `LiveLeaseKept` (`LiveLeaseNotDisplaced`), `Refinement` (`ImplementsFencedGrant`), `LostOnlyWhenDisplaced`, `TombstoneOnlyWhenGivenUp`, `TypeCorrect` |
| `ExecutionRuntimeProofs` | `OneOutcome` (`SelectedOutcomeStands`), `LeaseKeptWhileRegistered` (`RegisteredKeepsLease`), `NoLeaseLeaks` (`HeldLeaseHasHolder`), `CancellationArrives` (`CancelReachesAgent`), `BarrierAfterRelease` (`CompletionAfterRelease`), `Refinement` (`ImplementsRecord`), `TerminalStays`, `TypeCorrect` |
| `SubmissionProofs` | `Exclusive` (`OneAtATime`), `ReleasedBeforeCompletion` (`CompletionIsLast`), `NotClosedWhileShared` (`OpenUnlessOverdrawn`), `Refinement` (`ImplementsTurnstile`), `InOrder`, `TypeCorrect` |
| `EventStoreProofs` | `NothingLeftBetween` (`SettledWithRun`), `TypeCorrect` |
| `EventStoreOrderProofs` | `BytesAreThere` (`CommittedHasBytes`), `PlacesApart` (`CommittedApart`), `DamageOnly` (`UnreadableOnlyByDamage`), `Refinement` (`ImplementsTranscript`), `CommitsInOrder`, `LogInvariance` |
| `DeliveryOutboxProofs` | `AfterItsPrerequisite` (`PrerequisiteFirst`), `LossPropagates` (`NobodyWaitsForLost`), `AggregateIsCurrent` (`IntentAgrees`), `Refinement` (`ImplementsPlan`), `RecordedStands`, `TypeCorrect` |
| `CronProofs` | `OneClaim` (`OneLiveClaim`), `TypeCorrect` |
| `MemberTeamProofs` | `HeardOut` (`SuccessHasHeard`), `WaitsForMembers` (`StaysForMembers`), `AnswersReported` (`AnswerReported`), `CompletionsMatch` (`CompletionMatchesStatus`), `TypeCorrect` |

**SessionLease.**  That a late release leaves the successor alone needs that only held leases
of one's own are registered (`RegisteredIsHeld`), that the mutex belongs to the guard of the
process's latest acquisition (`MutexIsLatest`) and keeps other acquirers out between commit
and registration (`AcquiredIsGuarded`), that references exist exactly while a lease is counted
on (`RefsWhileClaimed`), and that epochs above the row's are unused (`EpochsUsed`,
`RowNamesHandle`).  The refinement maps each step to a step of `FencedGrant` or a stutter
(`StepIsFenced`): acquisition is `Grant`, whose guard follows from `RowFree` and
`HolderRegistered`; steps that leave the row alone only abandon claims (`QuietAbandons`).

**ExecutionRuntime.**  `SelectedOutcomeStands` says nothing of who is about to commit what; the
invariant adds that a transition beyond its selection carries the selected outcome and the
registered run, in each step of the chain (`LockInv`), how far an adapter is whose run is
known to the runtime or to the database (`RunInv`), what a registered lease can be
(`LeaseInv`), and that a row which ended here ended with the selection (`OutcomeInv`).
`CancelReachesAgent` is not inductive since a failed wait puts the state back over a
cancellation: it needs that a run that waits has its agent bound (`BoundInv`), so that by then
the abort, and no longer the state, tells of the cancellation (`OutcomeInv`).

The refinement takes from this that every write of the Runtime is one to the row of `rt.run`
and, at the end, of `rt.selected` (`StepKinds`).  That a run is created only when no other is
open is not looked at by the transaction that creates it: it was by the admission, and nobody
else is admitted until the adapter that was gives its guard back (`AloneInv`); nothing but a
creation opens a row (`MovesOpenNone`).

**Submission.**  Every step either leaves the queue alone (`Quiet`) or is one of six things
that happen to it (`QueueSteps`).  `FirstComeFirstServed` needs `QueueInOrder`, which needs
that nothing is queued or accepted twice (`QueueDistinct`, `AcceptedDistinct`), that what is
queued was accepted and not started (`WaitingIsUntouched`) and that nothing is known of a
submission before it is submitted (`NewIsUntouched`).  `CompletionIsLast` needs that the guard
belongs to a runner that has not released it (`GuardIsRunners`), `OpenUnlessOverdrawn` what the
count is worth: as many references as there are sharers, less those dropped twice
(`RefsCountSharers`).  The refinement maps those six things to steps of
`Turnstile`; that the head of the queue is the first that waits is `QueueInOrder` again
(`HeadIsFirst`), and that nobody enters past one who waits is `OneAtATime`.

**EventStore.**  `SettledWithRun` holds although the closing entries of a run are appended
after its store was found healthy: whoever the fence lets write for a run writes for the one
that is open (`FenceInv`), an append carries the intent it has prepared, under its own run
(`AppendInv`), and one that closes its run and still has the lease has left no intent but the
one it carries (`ClosingInv`).

What the file holds is the longest proof.  `Kinds` reduces the 24 actions to nine kinds of
steps, by what they leave of the file, the intents and the actors; each part of the invariant
has one lemma over the kinds.  *Bytes*: what was appended is in the file, or the file has
debris, which no repair removes and which takes a cut write and one without the lease
(`EvidenceInv`); what a recovery has read stays, for only a torn tail is ever dropped
(`FileInv`).  *Places*: the next place comes from an append cache, and a cache is not always
right.  One who writes takes the size that the file has then, so its cache may pass for
current over a file that another has damaged or extended.  `CacheInv` says what a cache still
knows: a beginning of the file.  If what it knows can be read, it counts right; if not, then
either nothing that is or may become committed (`Sure`) lies beyond it, or a batch is stuck
between the two storages and keeps its holder out of the gate (`OrderInv`, `Stuck`).  So
whoever has the lease appends beyond everything that is sure (`AheadInv`), and no two sure
batches share a place (`ApartInv`).  *Order*: of the batches of runs one at most is between
the storages, and it is the last (`NewestInv`).  *Damage*: while only holders of the lease
have written, the first piece that is not whole is where it should be, and the holder of the
lease knows the file (`TidyInv`).

The refinement follows: a change of the run is `Begin` or `Close` (`RunMoves`, and
`SettledWithRun` in the new state), a preparation is `Announce` (`PreparesAnnounces`), a
transaction that moves an intent on is `Commit`, `Abort` or nothing (`MovesResolves`), and
every other step is one of the file (`StepStores`).

**DeliveryOutbox.**  The links of the plan are not enough: the invariant speaks of everything
an operation depends on.  What was started has all of it met (`StartedIsMet`), nothing is lost
before what it depends on is resolved (`LostIsLast`), a loss is shared by all that depends on
it and says so (`LossIsShared`), what is resolved is nobody's (`ResolvedIsFree`).  That one
closed form of the propagation keeps these is a lemma, used by each statement that refreshes.

The refinement asks more: that a reopening gives back the loss to what depends on another lost
part.  The code reopens every dependent failure of the reply, whatever it depends on
(`ReopenDependentFailures`), and leaves it to the propagation to fail those again that still
have a reason.  They do: a loss that came from elsewhere has a cause that is lost itself
(`LossHasCause`), and no reopening but its own touches that cause (`ReopenPlans`).  A report
changes one row and what is lost with it (`ReportLeaves`), and a call reaches the recipient only
for what is met (`CallPlans`).

**Cron.**  A claim that is neither old nor written over is the one the row stands for
(`ClaimStands`), and a row that is not running stands for none (`NoneStands`): so the
condition of `ClaimDue` is what keeps a second claim out.

**MemberTeam.**  What a turn owes its end (`LeadInv`: once the provider answered without a tool
call, nothing is taken that is not answered for), how far a member's run and its monitor may
be apart (`JobInv`), and how the manager's status follows the monitor (`StatusFollows` in
`MemberInv`).  `StaysForMembers` is about the run of a member and the hook asks for its status:
when the hook has decided to let the lead end, no child is running by its status or none has
time left (`HookDecided`), and a child without a later message that is at work is running by
its status.

**Only model-checked.**  Liveness (`AbandonedLeaseLapses`, `PreparedRunSettles`,
`StoppedSubmissionSettles`, `NoAdmissionLeftBehind`, `OrphanSettles`, `ReplySettles`,
`AbandonedReclaimed`, `HookHears`, `MembersEnd`, `RunEnds`), which is out of the prover's reach,
and the four violated properties.  Every other property of the runs is a theorem.

## 6. Plan and what is not modelled

Next, in this order:

1. `OwnershipCache`: a lossy, reordering bus into a projection per process; what a release
   deletes is the epoch that a delayed announcement would be compared with
   (`runtime_ownership_cache.go:145`).
2. `Decisions`: register, bind, resolve outside the lock, clear, rehydrate.
3. The registry of local executions, the heartbeat scheduler's retirement in `SessionLease`.
4. The order in which a batch of tools is launched and joined in the agent loop.

**Not modelled**, and why:

* *Ownership cache, decision service*: independent of the properties here (nothing that is
  fenced reads the cache; an approval is time that passes).
* *Session tree, compaction, migration of transcripts*: sequential under the lease.
* *Adapters, channels, clients, providers, tools, sandbox, terminal*: input and output; what
  they share with others they share through the modules above.
* *State machine supervisor and workflows*: supervised reports and scripts over the same runs;
  a candidate for a module after the ones above.
* *Configuration, skills, experts, statistics, database layer, installers, web interface*:
  sequential, pure or generated.

The greater part of the repository's lines belongs to the last three groups, so the share of
all lines that the modules cover is small.
