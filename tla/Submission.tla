----------------------------- MODULE Submission -----------------------------
(***************************************************************************)
(* agentruntime.SubmissionCoordinator: the FIFO of one session's submissions *)
(* in one process, shared by reference count.  It admits one submission at a *)
(* time and owns the admission's lease guard; the submission's execution     *)
(* belongs to its owner (a TUI run, a cron job, an ACP prompt, a channel     *)
(* message), which works between Wait and Release and whose ExecutionRuntime *)
(* retains the lease a second time while its run is registered.              *)
(*                                                                           *)
(* A section under c.mu is one action.  The session's lease is reduced to    *)
(* who keeps it: the guard, the retaining execution, another process.        *)
(***************************************************************************)
EXTENDS Integers, Sequences, SequencesExt, FiniteSets

CONSTANTS Sub, NoSub,
          Adapter,      \* the adapters that submit
          MaxCancels,   \* bound on the contexts that are cancelled from outside
          MaxOverdrafts \* bound on the references dropped twice

\* "shared" is AcquireExecutionSubmission (cron, ESM, knowledge), the others submit to
\* the coordinator of their SessionRuntime.
ASSUME SubmissionAssumption ==
    /\ IsFiniteSet(Sub) /\ NoSub \notin Sub
    /\ Adapter \subseteq {"tui", "acp", "channel", "shared"}
    /\ MaxCancels \in Nat /\ MaxOverdrafts \in Nat

VARIABLES
    closing,    \* the last reference is gone and Close is on its way, or ran
    closed, active, queue,
    refs,       \* references: the SessionRuntime's and one per shared submission
    runtimeRef, \* the SessionRuntime still has its own
    overdrafts, \* how often a Shutdown released it when it was the SessionRuntime's no more
    accepted,   \* the submissions accepted so far, in order
    policy,     \* per submission, the adapter it came from, which fixes its policy
    thread,     \* per submission, where execute(s) is
    ctx,        \* per submission, its context: live, or cancelled on its own, or
                \* through the caller's context, which Wait watches too
    cancelling, \* handles whose Cancel has not reached the queue yet
    err,        \* per submission, the error execute is about to end with
    published,  \* submissions whose completion was delivered
    admission,  \* per submission, its handle's Ready and admissionDone channels
    owner,      \* per submission, how far the owner of its execution has come; one
                \* that left has called Release
    guard,      \* the submission whose admission guard is held
    retained,   \* the submission whose execution retains the session's lease
    external    \* another process holds the session's lease

runtime_vars == <<runtimeRef, overdrafts>>
queue_vars == <<closing, closed, active, queue, refs, runtime_vars, accepted, policy>>
lease_vars == <<guard, retained, external>>
handle_vars == <<ctx, cancelling, err, published, admission>>
vars == <<queue_vars, thread, handle_vars, owner, lease_vars>>

Init ==
    /\ closing = FALSE /\ closed = FALSE /\ active = NoSub /\ queue = <<>>
    /\ refs = 1 /\ runtimeRef = TRUE /\ accepted = <<>>
    /\ overdrafts = 0
    /\ policy = [s \in Sub |-> "none"]
    /\ thread = [s \in Sub |-> "none"]
    /\ ctx = [s \in Sub |-> "live"] /\ cancelling = {}
    /\ err = [s \in Sub |-> "nil"] /\ published = {}
    /\ admission = [s \in Sub |-> "open"]
    /\ owner = [s \in Sub |-> "new"]
    /\ guard = NoSub /\ retained = NoSub /\ external = FALSE

-----------------------------------------------------------------------------
(* Shared predicates. *)

Waiting(s) == \E i \in DOMAIN queue : queue[i] = s
Accepted(s) == \E i \in DOMAIN accepted : accepted[i] = s
Running(s) == thread[s] \in {"admitting", "backoff", "running", "completing", "released"}

\* SubmitPolicy: only a prompt of ACP does not queue behind a local execution, only
\* the TUI does not wait for an external owner.
MayQueue(a) == a # "acp"
MayWait(s) == policy[s] # "tui"

\* The lease is held by this process for an execution that selected its terminal
\* state: admission waits for its release (localExecutionDraining).
Draining == retained # NoSub /\ owner[retained] = "terminal"
LeaseBusy == external \/ guard # NoSub \/ retained # NoSub

\* completeLocked: Completed is delivered and the channels are closed; a waiter whose
\* submission was never admitted learns of it.
Complete(S) ==
    /\ published' = published \cup S
    /\ admission' = [s \in Sub |-> IF s \in S /\ admission[s] = "open" THEN "failed"
                                   ELSE admission[s]]

\* The bound: a context that was cancelled may still be cancelled again.
MayCancel(s) == ctx[s] # "live" \/ Cardinality({t \in Sub : ctx[t] # "live"}) < MaxCancels

-----------------------------------------------------------------------------
(* Submit, cancel, close. *)

\* Mutant of Start: what is asked is whether one waits, not whether one is active.
StartUnlessQueued(s) ==
    IF queue # <<>>
    THEN queue' = Append(queue, s) /\ UNCHANGED <<active, thread>>
    ELSE active' = s /\ thread' = [thread EXCEPT ![s] = "admitting"] /\ UNCHANGED queue

\* Mutant of Start: a submission also queues behind a lease that is not the queue's.
StartUnlessBusy(s) ==
    IF active # NoSub \/ LeaseBusy
    THEN queue' = Append(queue, s) /\ UNCHANGED <<active, thread>>
    ELSE active' = s /\ thread' = [thread EXCEPT ![s] = "admitting"] /\ UNCHANGED queue

\* An accepted submission is executed now or queued.
Start(s) ==
    IF active # NoSub
    THEN queue' = Append(queue, s) /\ UNCHANGED <<active, thread>>
    ELSE active' = s /\ thread' = [thread EXCEPT ![s] = "admitting"] /\ UNCHANGED queue

\* submit: refused by a closed coordinator, and behind an active submission unless it
\* may queue.  AcquireExecutionSubmission takes a reference first, which a
\* coordinator about to close does not give any more.
Submit(s) ==
    \E a \in Adapter :
        /\ owner[s] = "new" /\ (a = "shared" => ~closing)
        /\ policy' = [policy EXCEPT ![s] = a]
        /\ IF closed \/ (active # NoSub /\ ~MayQueue(a))
           THEN /\ owner' = [owner EXCEPT ![s] = "left"]
                /\ UNCHANGED <<accepted, refs, active, queue, thread>>
           ELSE /\ accepted' = Append(accepted, s)
                /\ refs' = IF a = "shared" THEN refs + 1 ELSE refs
                /\ owner' = [owner EXCEPT ![s] = "waiting"]
                /\ Start(s)
        /\ UNCHANGED <<closing, closed, runtime_vars, handle_vars, lease_vars>>

\* The context the caller submitted with is cancelled; the queue does not notice.
CallerCancels(s) ==
    /\ Accepted(s) /\ ctx[s] # "caller" /\ owner[s] # "left" /\ MayCancel(s)
    /\ ctx' = [ctx EXCEPT ![s] = "caller"]
    /\ UNCHANGED <<queue_vars, thread, cancelling, err, published, admission, owner, lease_vars>>

\* ExecutionHandle.Cancel: the submission's context first, then the queue.
Cancel(s) ==
    /\ Accepted(s) /\ s \notin published /\ ctx[s] = "live" /\ MayCancel(s)
    /\ ctx' = [ctx EXCEPT ![s] = "own"]
    /\ cancelling' = cancelling \cup {s}
    /\ UNCHANGED <<queue_vars, thread, err, published, admission, owner, lease_vars>>

\* cancelQueued: one that is active by now is left to its runner.
CancelQueued(s) ==
    /\ s \in cancelling
    /\ cancelling' = cancelling \ {s}
    /\ IF Waiting(s) THEN \E i \in DOMAIN queue : queue[i] = s /\ queue' = RemoveAt(queue, i)
                     ELSE UNCHANGED queue
    /\ Complete({t \in {s} : Waiting(t)})
    /\ UNCHANGED <<closing, closed, active, refs, runtime_vars, accepted, policy, thread, ctx,
                   err, owner, lease_vars>>

\* releaseSubmissionCoordinator: the count stops at zero, where the caller closes.
DropReference ==
    /\ refs' = IF refs > 0 THEN refs - 1 ELSE refs
    /\ closing' = (closing \/ refs' = 0)

\* SessionRuntime.Shutdown drops the reference it read before it waited for the active
\* execution, whatever became of it meanwhile.  It may have read it as long as the
\* SessionRuntime had it, so another Shutdown or Close may have dropped it already.
ShutdownReleases ==
    /\ runtimeRef \/ overdrafts < MaxOverdrafts
    /\ runtimeRef' = FALSE
    /\ overdrafts' = IF runtimeRef THEN overdrafts ELSE overdrafts + 1
    /\ DropReference
    /\ UNCHANGED <<closed, active, queue, accepted, policy, thread, handle_vars, owner, lease_vars>>

\* SessionRuntime.Close, on its own or after a Shutdown, drops one that is still there.
RuntimeCloses ==
    /\ runtimeRef /\ runtimeRef' = FALSE
    /\ DropReference
    /\ UNCHANGED <<closed, active, queue, overdrafts, accepted, policy, thread, handle_vars,
                   owner, lease_vars>>

\* Mutant of Close: the queue is dropped without a word to its submissions.
CloseSilently ==
    /\ closing /\ ~closed
    /\ closed' = TRUE /\ queue' = <<>>
    /\ ctx' = [s \in Sub |-> IF s = active /\ ctx[s] = "live" THEN "own" ELSE ctx[s]]
    /\ UNCHANGED <<closing, active, refs, runtime_vars, accepted, policy, thread, cancelling, err,
                   published, admission, owner, lease_vars>>

\* close: everything queued is cancelled and completed, the active one is cancelled.
Close ==
    /\ closing /\ ~closed
    /\ closed' = TRUE /\ queue' = <<>>
    /\ ctx' = [s \in Sub |-> IF (Waiting(s) \/ s = active) /\ ctx[s] = "live" THEN "own"
                             ELSE ctx[s]]
    /\ Complete({s \in Sub : Waiting(s)})
    /\ UNCHANGED <<closing, active, refs, runtime_vars, accepted, policy, thread, cancelling, err,
                   owner, lease_vars>>

-----------------------------------------------------------------------------
(* execute(s): admission, the runner, release, completion. *)

\* The runner starts as soon as the guard is there, whatever became of the context
\* meanwhile: session.AcquireExecutionAdmission does not look at it.
AdmitOk(s) ==
    /\ thread[s] = "admitting" /\ ~LeaseBusy
    /\ guard' = s
    /\ thread' = [thread EXCEPT ![s] = "running"]
    /\ admission' = [admission EXCEPT ![s] = "ready"]
    /\ UNCHANGED <<queue_vars, ctx, cancelling, err, published, owner, retained, external>>

Goes(s, to, e) ==
    /\ thread' = [thread EXCEPT ![s] = to]
    /\ err' = [err EXCEPT ![s] = e]
    /\ UNCHANGED <<queue_vars, ctx, cancelling, published, admission, owner, lease_vars>>

\* ErrRuntimeLeaseBusy, whoever it is that holds the lease.
AdmitBusy(s) ==
    /\ thread[s] = "admitting" /\ LeaseBusy /\ ~Draining
    /\ IF MayWait(s) THEN Goes(s, "backoff", "nil") ELSE Goes(s, "completing", "external")

\* Any other error: of the database, an orphaned run could not be recovered, a detached
\* remote execution, a cancelled context while the predecessor's lease drains.
AdmitFails(s) ==
    /\ thread[s] = "admitting"
    /\ \/ Goes(s, "completing", "failed")
       \/ Draining /\ ctx[s] # "live" /\ Goes(s, "completing", "cancelled")

\* The select of admit between two attempts: the context or the coordinator ended.
BackoffEnds(s) ==
    /\ thread[s] = "backoff"
    /\ \/ ctx[s] # "live" /\ Goes(s, "completing", "cancelled")
       \/ closed /\ Goes(s, "completing", "failed")

\* Its timer, or an advisory wake, which the timer makes up for when it is lost.
BackoffOver(s) == thread[s] = "backoff" /\ Goes(s, "admitting", "nil")

\* The runner returns when its owner is done, or when the context is cancelled.
RunnerReturns(s) ==
    /\ thread[s] = "running"
    /\ \/ owner[s] = "left" /\ Goes(s, "completing", "nil")
       \/ ctx[s] # "live" /\ Goes(s, "completing", "cancelled")

\* Mutant of ReleaseGuard: only a runner that ended well has its lease released.
ReleaseOnSuccess(s) ==
    /\ thread[s] = "completing"
    /\ guard' = IF guard = s /\ err[s] = "nil" THEN NoSub ELSE guard
    /\ thread' = [thread EXCEPT ![s] = "released"]
    /\ UNCHANGED <<queue_vars, handle_vars, owner, retained, external>>

ReleaseGuard(s) ==
    /\ thread[s] = "completing"
    /\ guard' = IF guard = s THEN NoSub ELSE guard
    /\ thread' = [thread EXCEPT ![s] = "released"]
    /\ UNCHANGED <<queue_vars, handle_vars, owner, retained, external>>

\* The completion is published and the oldest queued submission becomes active.
CompleteAndNext(s) ==
    /\ thread[s] = "released"
    /\ Complete({s}) /\ err' = [err EXCEPT ![s] = "nil"]
    /\ IF queue = <<>>
       THEN active' = NoSub /\ UNCHANGED queue /\ thread' = [thread EXCEPT ![s] = "over"]
       ELSE /\ active' = Head(queue) /\ queue' = Tail(queue)
            /\ thread' = [thread EXCEPT ![s] = "over", ![Head(queue)] = "admitting"]
    /\ UNCHANGED <<closing, closed, refs, runtime_vars, accepted, policy, ctx, cancelling, owner,
                   lease_vars>>

-----------------------------------------------------------------------------
(* The owner of the execution. *)

OwnerStep(s, from, to) ==
    /\ owner[s] = from /\ owner' = [owner EXCEPT ![s] = to]
    /\ UNCHANGED <<closed, active, queue, runtime_vars, accepted, policy, thread, handle_vars,
                   guard, external>>

\* Wait: admitted, refused, or given up with the caller's context; select may take any
\* that is ready.  Whoever gives up calls Release too.
WaitReturns(s) ==
    /\ \/ admission[s] = "ready" /\ OwnerStep(s, "waiting", "working")
       \/ admission[s] = "failed" /\ OwnerStep(s, "waiting", "ended")
       \/ ctx[s] = "caller" /\ OwnerStep(s, "waiting", "ended")
    /\ UNCHANGED <<closing, refs, retained>>

\* BeginDurable: the lease the process has registered is bound and retained.
OwnerBegins(s) ==
    /\ guard # NoSub /\ retained = NoSub
    /\ OwnerStep(s, "working", "begun") /\ retained' = s
    /\ UNCHANGED <<closing, refs>>

\* It failed: there is no such lease, another execution has bound it, or any error.
OwnerFails(s) == OwnerStep(s, "working", "ended") /\ UNCHANGED <<closing, refs, retained>>

OwnerSelects(s) == OwnerStep(s, "begun", "terminal") /\ UNCHANGED <<closing, refs, retained>>

\* FinishDurable: the terminal state is persisted and the registration dropped.
OwnerFinishes(s) ==
    /\ OwnerStep(s, "terminal", "ended")
    /\ retained' = IF retained = s THEN NoSub ELSE retained
    /\ UNCHANGED <<closing, refs>>

\* Mutant of OwnerReleases: whoever shares the coordinator closes it.
OwnerCloses(s) ==
    /\ OwnerStep(s, "ended", "left")
    /\ refs' = IF policy[s] = "shared" THEN refs - 1 ELSE refs
    /\ closing' = (closing \/ policy[s] = "shared")
    /\ UNCHANGED retained

\* Release, and the reference of AcquireExecutionSubmission.
OwnerReleases(s) ==
    /\ OwnerStep(s, "ended", "left")
    /\ IF policy[s] = "shared" THEN DropReference ELSE UNCHANGED <<refs, closing>>
    /\ UNCHANGED retained

-----------------------------------------------------------------------------
\* Another process acquires the free lease, or lets it go.
External ==
    /\ guard = NoSub /\ retained = NoSub
    /\ external' = ~external
    /\ UNCHANGED <<queue_vars, thread, handle_vars, owner, guard, retained>>

Execute(s) == \/ AdmitOk(s) \/ AdmitBusy(s) \/ AdmitFails(s) \/ BackoffEnds(s) \/ BackoffOver(s)
              \/ RunnerReturns(s) \/ ReleaseGuard(s) \/ CompleteAndNext(s)

Own(s) == \/ WaitReturns(s) \/ OwnerBegins(s) \/ OwnerFails(s) \/ OwnerSelects(s)
          \/ OwnerFinishes(s) \/ OwnerReleases(s)

Next ==
    \/ \E s \in Sub : Submit(s) \/ CallerCancels(s) \/ Cancel(s) \/ CancelQueued(s)
    \/ \E s \in Sub : Execute(s) \/ Own(s)
    \/ ShutdownReleases \/ RuntimeCloses \/ Close \/ External

Spec == Init /\ [][Next]_vars

\* Goroutines go on, and the random choice of a select does not pass an end over for
\* ever.  No agent loop has to end, no execution to finish, no other process to yield.
Fairness ==
    /\ WF_vars(Close)
    /\ \A s \in Sub :
          /\ WF_vars(CancelQueued(s)) /\ WF_vars(Execute(s)) /\ SF_vars(BackoffEnds(s))
          /\ SF_vars(Draining /\ ctx[s] # "live" /\ AdmitFails(s))

FairSpec == Spec /\ Fairness

-----------------------------------------------------------------------------
(* Properties. *)

TypeOK ==
    /\ closing \in BOOLEAN /\ closed \in BOOLEAN /\ runtimeRef \in BOOLEAN
    /\ overdrafts \in Nat
    /\ active \in Sub \cup {NoSub} /\ queue \in Seq(Sub) /\ accepted \in Seq(Sub)
    /\ refs \in Nat /\ policy \in [Sub -> Adapter \cup {"none"}]
    /\ thread \in [Sub -> {"none", "admitting", "backoff", "running", "completing", "released",
                           "over"}]
    /\ ctx \in [Sub -> {"live", "own", "caller"}] /\ cancelling \subseteq Sub
    /\ err \in [Sub -> {"nil", "external", "failed", "cancelled"}]
    /\ published \subseteq Sub /\ admission \in [Sub -> {"open", "ready", "failed"}]
    /\ owner \in [Sub -> {"new", "waiting", "working", "begun", "terminal", "ended", "left"}]
    /\ guard \in Sub \cup {NoSub} /\ retained \in Sub \cup {NoSub} /\ external \in BOOLEAN

\* Submissions are executed one at a time, by the goroutine of the active one, and
\* none waits in a queue that nobody serves or that was closed (execute, close).
OneAtATime ==
    /\ \A s \in Sub : Running(s) <=> s = active
    /\ queue # <<>> => active # NoSub /\ ~closed

\* Completion is published when the goroutine is through and the guard is released.
\* Before, it would send on closed channels, and a successor would meet the lease.
CompletionIsLast == \A s \in published : ~Running(s) /\ guard # s

\* What whoever submits can tell of a submission: it is out once its completion is
\* published, inside while it is the active one.
Place == [s \in Sub |-> IF s \in published THEN "out"
                        ELSE IF s = active THEN "inside"
                        ELSE IF Waiting(s) THEN "waiting" ELSE "outside"]
Served == INSTANCE Turnstile WITH line <- accepted, place <- Place

\* Whatever is cancelled, fails or waits for the lease, and whenever the coordinator
\* closes: everybody accepted is completed once, whoever completes is followed by the
\* oldest that waits, and nobody is left waiting behind nobody.
ImplementsTurnstile == Served!Spec

\* The owners that share the coordinator and are still at work.
Sharing == {s \in Sub : policy[s] = "shared" /\ owner[s] # "left"}

\* A coordinator is closed, which cancels what is active, under as many of them at most
\* as Shutdowns have dropped a reference that was no more their SessionRuntime's: owners
\* that are refused, fail, give up or leave take none from each other, nor does a
\* Shutdown followed by its Close (acquireSubmissionCoordinator's reference count).
OpenUnlessOverdrawn == closing => Cardinality(Sharing) <= overdrafts

\* It is closed under none: the count is there to keep a coordinator open for the others
\* that share it, and a SessionRuntime to release what it owns (SessionRuntime.Close).
OpenWhileShared == closing => Sharing = {}

\* A submission whose handle is cancelled or whose coordinator closes is settled, no
\* matter how long another process keeps the lease: Close "deterministically completes
\* all queued submissions", and the active one returns with its context.
StoppedSubmissionSettles ==
    \A s \in Sub : s \in cancelling \/ (closing /\ Accepted(s)) ~> s \in published

\* An owner that left, because it was done or because it gave up waiting just when it
\* was admitted, leaves no admission lease behind (AcquireExecutionSubmission).
NoAdmissionLeftBehind == \A s \in Sub : owner[s] = "left" ~> [](guard # s)
=============================================================================
