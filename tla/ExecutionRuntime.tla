-------------------------- MODULE ExecutionRuntime --------------------------
(***************************************************************************)
(* agentruntime.ExecutionRuntime: the in-memory owner of a session's active *)
(* run in one process, and its durable terminal transition.                 *)
(*                                                                          *)
(* Actors: one adapter per run (admission, BeginDurable, the agent loop and *)
(* its waits for an approval or an answer, FinishDurableWithRetry, guard    *)
(* release), whoever answers such a wait, the watcher of each run's lease,  *)
(* the background terminal retry, cancellers, Shutdown, the lease heartbeat,*)
(* and another process that takes the session over once the lease expired.  *)
(* A section under r.mu is one action; transitionMu is the variable lock,   *)
(* held across the steps of a terminal transition and of a wait.            *)
(*                                                                          *)
(* Each run is admitted under a lease of its own (module SessionLease); here*)
(* a lease is what the Runtime can tell about it.                           *)
(***************************************************************************)
EXTENDS Integers, FiniteSets

CONSTANTS Run, NoRun,
          MaxTakeovers    \* bound on the times another process takes the session

ASSUME RuntimeAssumption == NoRun \notin Run /\ MaxTakeovers \in Nat

Outcome == {"completed", "failed", "cancelled"}
NoOutcome == "none"

VARIABLES
    rt,        \* the fields of ExecutionRuntime
    lock,      \* transitionMu: the transition that holds it, or Free
    done,      \* per run, whether its done channel is closed
    adapter,   \* per run, how far its adapter has come
    want,      \* per run, the outcome its adapter finishes it with
    watcher,   \* per run, its watchLeaseLost goroutine
    retrying,  \* runs with a background terminal retry goroutine
    lease,     \* per run, the lease it was admitted under
    guard,     \* runs whose adapter still holds the lease guard
    reg,       \* the run whose lease the process has registered for the session
    other,     \* another process holds the session's lease row
    takeovers, \* how often it took it
    status,    \* session_runs: per run, its status
    recovered  \* runs another process terminalized

lock_vars == <<rt, lock, done>>
lease_vars == <<lease, guard, reg>>
durable_vars == <<other, takeovers, status, recovered>>
vars == <<rt, lock, done, adapter, want, watcher, retrying, lease, guard, reg,
          other, takeovers, status, recovered>>

Free == [run |-> NoRun, step |-> "free", by |-> "nobody", outcome |-> NoOutcome]
Locked == [run : Run, step : {"mark", "commit", "retire", "adopt", "release", "close"},
           by : {"adapter", "retry", "shutdown", "watcher"}, outcome : Outcome]
          \cup [run : Run, step : {"wait", "resume"}, by : {"agent"}, outcome : {NoOutcome}]

Runtime == [run : Run \cup {NoRun}, active : BOOLEAN, durable : BOOLEAN,
            state : {"idle", "running", "waiting", "cancelling", "terminalizing"} \cup Outcome,
            bound : BOOLEAN, cancelled : BOOLEAN, aborted : BOOLEAN,
            selected : Outcome \cup {NoOutcome}, prepared : BOOLEAN,
            terminalizing : BOOLEAN, retry : BOOLEAN, retained : BOOLEAN]

\* The fields Begin resets for a new run.
Fresh(r) == [run |-> r, active |-> TRUE, durable |-> FALSE, state |-> "running",
             bound |-> FALSE, cancelled |-> FALSE, aborted |-> FALSE,
             selected |-> NoOutcome, prepared |-> FALSE, terminalizing |-> FALSE,
             retry |-> FALSE, retained |-> FALSE]

Init ==
    /\ rt = [Fresh(NoRun) EXCEPT !.active = FALSE, !.state = "idle"]
    /\ lock = Free
    /\ done = [r \in Run |-> FALSE]
    /\ adapter = [r \in Run |-> "idle"]
    /\ want = [r \in Run |-> NoOutcome]
    /\ watcher = [r \in Run |-> "none"]
    /\ retrying = {}
    /\ lease = [r \in Run |-> "none"]
    /\ guard = {} /\ reg = NoRun
    /\ other = FALSE /\ takeovers = 0
    /\ status = [r \in Run |-> "absent"]
    /\ recovered = {}

-----------------------------------------------------------------------------
(* Shared predicates. *)

Active(r) == rt.active /\ rt.run = r
Terminal(r) == status[r] \in Outcome
NonTerminal(r) == status[r] \in {"running", "waiting", "cancelling", "terminalizing"}

\* allowedRunPredecessors of running, the waits and cancelling, as far as they are met.
Underway(r) == status[r] \in {"running", "waiting"}
MayCancel(r) == Underway(r) \/ status[r] = "cancelling"

\* validateRuntimeLeaseTx: the registered lease is the one the row names.
Fenced == reg # NoRun /\ lease[reg] = "held"

\* The lost channel of r's lease is closed: found displaced, or released.
LostClosed(r) == lease[r] \in {"lost", "released"}

\* allowedRunPredecessors: a terminal row only takes its own status again.
MayBecome(r, s) == NonTerminal(r) \/ status[r] = s

\* One of r's two references, the guard's and the Runtime's, is dropped; the last
\* one releases the lease and closes its lost channel (runtimeLease.release).
Drop(r, last) ==
    IF last /\ lease[r] \in {"held", "displaced"}
    THEN /\ lease' = [lease EXCEPT ![r] = "released"]
         /\ reg' = IF reg = r THEN NoRun ELSE reg
    ELSE UNCHANGED <<lease, reg>>

Retained(r) == rt.retained /\ rt.run = r

\* What Cancel does to the run that is active now, whichever it is.
Cancelled == IF rt.active THEN [rt EXCEPT !.state = "cancelling", !.cancelled = TRUE,
                                          !.aborted = @ \/ rt.bound]
             ELSE rt

-----------------------------------------------------------------------------
(* An adapter admits, begins and registers a run. *)

\* AcquireExecutionAdmission: the guard also holds the session's process mutex.
Admit(r) ==
    /\ adapter[r] = "idle" /\ guard = {} /\ ~other
    /\ \A s \in Run : lease[s] # "held" /\ ~NonTerminal(s)
    /\ lease' = [lease EXCEPT ![r] = "held"] /\ guard' = {r} /\ reg' = r
    /\ adapter' = [adapter EXCEPT ![r] = "admitted"]
    /\ UNCHANGED <<lock_vars, want, watcher, retrying, durable_vars>>

\* Begin: refused while a run is active.
Begin(r) ==
    /\ adapter[r] = "admitted" /\ lock = Free
    /\ IF rt.active
       THEN adapter' = [adapter EXCEPT ![r] = "ended"] /\ UNCHANGED rt
       ELSE adapter' = [adapter EXCEPT ![r] = "begun"] /\ rt' = Fresh(r)
    /\ UNCHANGED <<lock, done, want, watcher, retrying, lease_vars, durable_vars>>

\* beginDurableWithStart up to the store call: the watcher of the registered lease
\* starts, if there is one, and the durable metadata is set.
Watch(r) ==
    /\ adapter[r] = "begun"
    /\ watcher' = IF reg = NoRun THEN watcher ELSE [watcher EXCEPT ![r] = "waiting"]
    /\ rt' = [rt EXCEPT !.durable = TRUE]
    /\ adapter' = [adapter EXCEPT ![r] = "creating"]
    /\ UNCHANGED <<lock, done, want, retrying, lease_vars, durable_vars>>

\* CreateRunWithEvent, fenced and bound to the lease.
Create(r) ==
    /\ adapter[r] = "creating"
    /\ Fenced /\ reg = r
    /\ status' = [status EXCEPT ![r] = "running"]
    /\ adapter' = [adapter EXCEPT ![r] = "created"]
    /\ UNCHANGED <<lock_vars, want, watcher, retrying, lease_vars, other, takeovers, recovered>>

\* It failed: FinishWithState of a run that is not persisted ends it in memory.
\* Its done channel is closed under the same r.mu section, nothing is retained.
CreateFails(r) ==
    /\ adapter[r] = "creating" /\ lock = Free
    /\ rt' = IF Active(r) THEN [rt EXCEPT !.active = FALSE, !.state = "failed", !.bound = FALSE]
             ELSE rt
    /\ done' = IF Active(r) THEN [done EXCEPT ![r] = TRUE] ELSE done
    /\ adapter' = [adapter EXCEPT ![r] = "ended"]
    /\ UNCHANGED <<lock, want, watcher, retrying, lease_vars, durable_vars>>

\* registerLocalExecution: the Runtime retains the run's lease, if it is still
\* registered and the run active; otherwise failDurableRegistration.
Register(r) ==
    /\ adapter[r] = "created"
    /\ IF reg = r /\ Active(r)
       THEN /\ rt' = [rt EXCEPT !.retained = TRUE]
            /\ adapter' = [adapter EXCEPT ![r] = "registered"]
            /\ UNCHANGED want
       ELSE /\ adapter' = [adapter EXCEPT ![r] = "failing"]
            /\ want' = [want EXCEPT ![r] = "failed"]
            /\ UNCHANGED rt
    /\ UNCHANGED <<lock, done, watcher, retrying, lease_vars, durable_vars>>

\* Mutant of SetAgent: the agent is bound whatever was requested before.
SetAgentOnly(r) ==
    /\ adapter[r] = "registered"
    /\ rt' = IF rt.active THEN [rt EXCEPT !.bound = TRUE] ELSE rt
    /\ adapter' = [adapter EXCEPT ![r] = "running"]
    /\ UNCHANGED <<lock, done, want, watcher, retrying, lease_vars, durable_vars>>

\* SetAgent: a cancellation that came first aborts the agent now.
SetAgent(r) ==
    /\ adapter[r] = "registered"
    /\ rt' = IF rt.active THEN [rt EXCEPT !.bound = TRUE,
                                          !.aborted = @ \/ rt.state = "cancelling"]
             ELSE rt
    /\ adapter' = [adapter EXCEPT ![r] = "running"]
    /\ UNCHANGED <<lock, done, want, watcher, retrying, lease_vars, durable_vars>>

\* The agent loop ends, or the agent could not be built.
AgentEnds(r) ==
    /\ adapter[r] \in {"registered", "running"}
    /\ \E o \in Outcome : want' = [want EXCEPT ![r] = o]
    /\ adapter' = [adapter EXCEPT ![r] = "finishing"]
    /\ UNCHANGED <<lock_vars, watcher, retrying, lease_vars, durable_vars>>

\* Mutant of ReleaseGuard: the guard's release gives the lease up for everybody.
ReleaseGuardAlone(r) ==
    /\ adapter[r] = "ended" /\ r \in guard
    /\ guard' = guard \ {r}
    /\ Drop(r, TRUE)
    /\ adapter' = [adapter EXCEPT ![r] = "gone"]
    /\ UNCHANGED <<lock_vars, want, watcher, retrying, durable_vars>>

\* RuntimeLeaseGuard.Release by the adapter.
ReleaseGuard(r) ==
    /\ adapter[r] = "ended" /\ r \in guard
    /\ guard' = guard \ {r}
    /\ Drop(r, ~Retained(r))
    /\ adapter' = [adapter EXCEPT ![r] = "gone"]
    /\ UNCHANGED <<lock_vars, want, watcher, retrying, durable_vars>>

-----------------------------------------------------------------------------
(* A run waits for an approval or an answer, and goes on.                     *)

\* waitFor, WaitForApproval and WaitForQuestion: only a running run waits.
WaitFor(r) ==
    /\ adapter[r] = "running" /\ lock = Free
    /\ Active(r) /\ rt.state = "running"
    /\ rt' = [rt EXCEPT !.state = "waiting"]
    /\ lock' = [run |-> r, step |-> "wait", by |-> "agent", outcome |-> NoOutcome]
    /\ UNCHANGED <<done, adapter, want, watcher, retrying, lease_vars, durable_vars>>

\* Resume, by the agent loop or by whoever resolves the decision.
Resume(r) ==
    /\ Active(r) /\ rt.state = "waiting" /\ lock = Free
    /\ rt' = [rt EXCEPT !.state = "running"]
    /\ lock' = [run |-> r, step |-> "resume", by |-> "agent", outcome |-> NoOutcome]
    /\ UNCHANGED <<done, adapter, want, watcher, retrying, lease_vars, durable_vars>>

\* The states a wait or a resumption goes from and to.
Before == IF lock.step = "wait" THEN "running" ELSE "waiting"
After == IF lock.step = "wait" THEN "waiting" ELSE "running"

\* persistNonTerminalTransition: the row and the event are written.
TransitionOk ==
    LET r == lock.run IN
    /\ lock.step \in {"wait", "resume"} /\ Fenced /\ Underway(r)
    /\ status' = [status EXCEPT ![r] = After]
    /\ lock' = Free
    /\ UNCHANGED <<rt, done, adapter, want, watcher, retrying, lease_vars,
                   other, takeovers, recovered>>

\* One of them is not: memory goes back to what it read before it wrote, whatever a
\* Cancel put there since; the row goes back too, or its rollback fails as well.
TransitionFails ==
    LET r == lock.run IN
    /\ lock.step \in {"wait", "resume"}
    /\ rt' = IF Active(r) THEN [rt EXCEPT !.state = Before] ELSE rt
    /\ \/ UNCHANGED status
       \/ /\ Fenced /\ Underway(r)
          /\ \E s \in {Before, After} : status' = [status EXCEPT ![r] = s]
    /\ lock' = Free
    /\ UNCHANGED <<done, adapter, want, watcher, retrying, lease_vars,
                   other, takeovers, recovered>>

-----------------------------------------------------------------------------
(* The durable terminal transition, under transitionMu. *)

\* What the caller of an attempt makes of its end.  FinishDurableWithRetry and the
\* background retry go on after an error other than a lost lease.
Report(by, r, retriable) ==
    /\ adapter' = IF by = "adapter" /\ ~(retriable /\ adapter[r] = "finishing")
                  THEN [adapter EXCEPT ![r] = "ended"] ELSE adapter
    /\ retrying' = IF by = "retry" /\ ~retriable THEN retrying \ {r} ELSE retrying

\* The first outcome selected for a run is the only one.
Selectable(r, o) == Active(r) /\ rt.selected \in {NoOutcome, o}

\* finishDurableLocked selects the outcome, or skips to the commit of a prepared one.
Select(by, r, o) ==
    /\ lock = Free
    /\ Selectable(r, o)
    /\ rt' = [rt EXCEPT !.selected = o, !.terminalizing = TRUE]
    /\ lock' = [run |-> r, by |-> by, outcome |-> o,
                step |-> IF rt.prepared THEN "commit" ELSE "mark"]
    /\ UNCHANGED <<done, adapter, want, watcher, retrying, lease_vars, durable_vars>>

\* An attempt of the adapter; it ends when the run is not active any more or another
\* outcome was selected, which makes failDurableRegistration cancel.
FinishDurable(r) ==
    /\ adapter[r] \in {"finishing", "failing"} /\ lock = Free
    /\ \/ Select("adapter", r, want[r])
       \/ /\ ~Selectable(r, want[r])
          /\ rt' = IF adapter[r] = "failing" THEN Cancelled ELSE rt
          /\ adapter' = [adapter EXCEPT ![r] = "ended"]
          /\ UNCHANGED <<lock, done, want, watcher, retrying, lease_vars, durable_vars>>

\* A turn of the background retry loop.
RetryTurn(r) == r \in retrying /\ Active(r) /\ Select("retry", r, rt.selected)

\* MarkTerminalizing.
MarkOk ==
    LET r == lock.run IN
    /\ lock.step = "mark" /\ Fenced /\ NonTerminal(r)
    /\ status' = [status EXCEPT ![r] = "terminalizing"]
    /\ rt' = [rt EXCEPT !.prepared = TRUE,
                        !.state = IF rt.active THEN "terminalizing" ELSE @]
    /\ lock' = [lock EXCEPT !.step = "commit"]
    /\ UNCHANGED <<done, adapter, want, watcher, retrying, lease_vars,
                   other, takeovers, recovered>>

\* It failed and the row is terminal: adoptCanonicalTerminalRun takes its outcome.
Adopt ==
    LET r == lock.run IN
    /\ lock.step = "mark" /\ Terminal(r)
    /\ lock' = [lock EXCEPT !.step = "adopt", !.outcome = status[r]]
    /\ UNCHANGED <<rt, done, adapter, want, watcher, retrying, lease_vars, durable_vars>>

\* Mutant of MayCommit: the transaction that ends a run does not check the row.
MayCommitAny(r, o) == Fenced

\* FinishSessionRunAndConversationTurn goes through.
MayCommit(r, o) == Fenced /\ MayBecome(r, o)

\* The row, its turn and its event in one transaction.
CommitOk ==
    LET r == lock.run IN
    /\ lock.step = "commit" /\ MayCommit(r, lock.outcome)
    /\ status' = [status EXCEPT ![r] = lock.outcome]
    /\ rt' = [rt EXCEPT !.terminalizing = (lock.by # "shutdown")]
    /\ lock' = [lock EXCEPT !.step = "retire"]
    /\ UNCHANGED <<done, adapter, want, watcher, retrying, lease_vars,
                   other, takeovers, recovered>>

\* finishTerminalAttempt: a step failed, of a lost lease, a row that moved on or an
\* unavailable database.  The run stays active, and retriable but for a lost lease.
AttemptFails ==
    LET r == lock.run
        unregistered == lock.by = "adapter" /\ adapter[r] = "failing" IN
    /\ lock.step \in {"mark", "commit"}
    /\ rt' = [rt EXCEPT !.terminalizing = FALSE,
                        !.retry = @ /\ (lock.by = "retry" => Fenced),
                        !.state = IF unregistered THEN "cancelling" ELSE @,
                        !.cancelled = @ \/ unregistered]
    /\ Report(lock.by, r, Fenced)
    /\ lock' = Free
    /\ UNCHANGED <<done, want, watcher, lease_vars, durable_vars>>

\* Mutant of Retire: the done channel is closed at once.
RetireEarly ==
    /\ lock.step \in {"retire", "adopt"}
    /\ rt' = [rt EXCEPT !.active = FALSE, !.state = lock.outcome, !.bound = FALSE,
                        !.cancelled = TRUE]
    /\ done' = [done EXCEPT ![lock.run] = TRUE]
    /\ lock' = [lock EXCEPT !.step = "release"]
    /\ UNCHANGED <<adapter, want, watcher, retrying, lease_vars, durable_vars>>

\* finishInMemory: adopting closes the done channel at once.
Retire ==
    /\ lock.step \in {"retire", "adopt"}
    /\ rt' = [rt EXCEPT !.active = FALSE, !.state = lock.outcome, !.bound = FALSE,
                        !.cancelled = TRUE]
    /\ done' = IF lock.step = "adopt" THEN [done EXCEPT ![lock.run] = TRUE] ELSE done
    /\ lock' = [lock EXCEPT !.step = "release"]
    /\ UNCHANGED <<adapter, want, watcher, retrying, lease_vars, durable_vars>>

\* Mutant of Unregister: the registration is dropped and the reference forgotten.
UnregisterOnly ==
    /\ lock.step = "release"
    /\ rt' = [rt EXCEPT !.retained = FALSE]
    /\ lock' = [lock EXCEPT !.step = "close"]
    /\ UNCHANGED <<done, adapter, want, watcher, retrying, lease_vars, durable_vars>>

\* unregisterLocalExecution: the Runtime's reference goes.
Unregister ==
    LET r == lock.run IN
    /\ lock.step = "release"
    /\ rt' = [rt EXCEPT !.retained = FALSE]
    /\ IF Retained(r) THEN Drop(r, r \notin guard) ELSE UNCHANGED <<lease, reg>>
    /\ lock' = [lock EXCEPT !.step = "close"]
    /\ UNCHANGED <<done, adapter, want, watcher, retrying, guard, durable_vars>>

\* closeDone, and transitionMu is free again.
CloseDone ==
    LET r == lock.run IN
    /\ lock.step = "close"
    /\ done' = [done EXCEPT ![r] = TRUE]
    /\ rt' = [rt EXCEPT !.terminalizing = IF lock.by = "watcher" THEN @ ELSE FALSE,
                        !.retry = @ /\ lock.by # "retry"]
    /\ Report(lock.by, r, FALSE)
    /\ lock' = Free
    /\ UNCHANGED <<want, watcher, lease_vars, durable_vars>>

\* startTerminalPersistenceRetry: at most one loop, of the outcome selected.
StartRetry(r) ==
    IF rt.retry \/ ~Active(r) \/ rt.selected = NoOutcome THEN UNCHANGED <<rt, retrying>>
    ELSE rt' = [rt EXCEPT !.retry = TRUE] /\ retrying' = retrying \cup {r}

\* Mutant of Deadline: nobody goes on with the terminal write.
DeadlineAbandons(r) ==
    /\ adapter[r] = "finishing" /\ ~(lock.by = "adapter" /\ lock.run = r)
    /\ Active(r) /\ rt.selected = want[r]
    /\ adapter' = [adapter EXCEPT ![r] = "ended"]
    /\ UNCHANGED <<lock_vars, want, watcher, retrying, lease_vars, durable_vars>>

\* FinishDurableWithRetry gives up at its deadline and leaves the run to the loop.
Deadline(r) ==
    /\ adapter[r] = "finishing" /\ ~(lock.by = "adapter" /\ lock.run = r)
    /\ Active(r) /\ rt.selected = want[r]
    /\ StartRetry(r)
    /\ adapter' = [adapter EXCEPT ![r] = "ended"]
    /\ UNCHANGED <<lock, done, want, watcher, lease_vars, durable_vars>>

\* FinishDurableWithRetry and the retry loop stop when the lease is lost, the loop
\* also when the run is over.
RetryStops(r) ==
    /\ ~(lock.by \in {"retry", "adapter"} /\ lock.run = r)
    /\ \/ /\ r \in retrying /\ (LostClosed(r) \/ done[r] \/ ~Active(r))
          /\ retrying' = retrying \ {r}
          /\ rt' = [rt EXCEPT !.retry = FALSE]
          /\ UNCHANGED adapter
       \/ /\ adapter[r] = "finishing" /\ rt.selected = want[r] /\ LostClosed(r)
          /\ adapter' = [adapter EXCEPT ![r] = "ended"]
          /\ UNCHANGED <<rt, retrying>>
    /\ UNCHANGED <<lock, done, want, watcher, lease_vars, durable_vars>>

-----------------------------------------------------------------------------
(* Cancellation, shutdown and the loss of the lease. *)

\* Cancel, from an adapter's stop; it does not take transitionMu.
Cancel ==
    /\ rt.active
    /\ rt' = Cancelled
    /\ UNCHANGED <<lock, done, adapter, want, watcher, retrying, lease_vars, durable_vars>>

\* CancelDurable: the row turns cancelling unless its terminal write is under way,
\* whose retry is restarted if it stopped.  Nothing is cancelled if the update fails.
CancelDurable ==
    LET r == rt.run
        stalled == rt.terminalizing \/ rt.prepared IN
    /\ rt.active /\ lock = Free
    /\ \/ /\ ~stalled /\ Fenced /\ MayCancel(r)
          /\ status' = [status EXCEPT ![r] = "cancelling"]
          /\ rt' = Cancelled /\ UNCHANGED retrying
       \/ /\ stalled /\ UNCHANGED status
          /\ rt' = [Cancelled EXCEPT !.retry = @ \/ rt.selected # NoOutcome]
          /\ retrying' = IF rt.retry \/ rt.selected = NoOutcome THEN retrying
                         ELSE retrying \cup {r}
    /\ UNCHANGED <<lock, done, adapter, want, watcher, lease_vars, other, takeovers, recovered>>

\* Mutant of ShutdownMaySelect: shutdown does not look for a selected outcome.
ShutdownSelectsAny == TRUE

\* persistShutdownTerminalLocked refuses a run that already selected another outcome.
ShutdownMaySelect == rt.durable => rt.selected \in {NoOutcome, "cancelled"}

\* Shutdown of a run without an agent: cancelled is persisted, then memory follows.
ShutdownLoopless ==
    /\ rt.active /\ ~rt.bound /\ lock = Free
    /\ ShutdownMaySelect
    /\ rt' = IF rt.durable
             THEN [rt EXCEPT !.selected = IF @ = NoOutcome THEN "cancelled" ELSE @,
                             !.terminalizing = TRUE]
             ELSE rt
    /\ lock' = [run |-> rt.run, by |-> "shutdown", outcome |-> "cancelled",
                step |-> IF rt.durable THEN "commit" ELSE "retire"]
    /\ UNCHANGED <<done, adapter, want, watcher, retrying, lease_vars, durable_vars>>

\* Shutdown of a run with an agent: cancel, and leave the end to the loop's owner.
ShutdownLoop ==
    LET r == rt.run
        stalled == rt.terminalizing \/ rt.prepared IN
    /\ rt.active /\ rt.bound
    /\ \/ /\ ~stalled /\ lock = Free /\ Fenced /\ MayCancel(r)
          /\ status' = [status EXCEPT ![r] = "cancelling"]
          /\ rt' = Cancelled /\ UNCHANGED retrying
       \/ /\ UNCHANGED status
          /\ LET restart == stalled /\ rt.selected # NoOutcome IN
             /\ rt' = [Cancelled EXCEPT !.retry = @ \/ restart]
             /\ retrying' = IF restart /\ ~rt.retry THEN retrying \cup {r} ELSE retrying
    /\ UNCHANGED <<lock, done, adapter, want, watcher, lease_vars, other, takeovers, recovered>>

\* watchLeaseLost wakes: the lost channel is closed, or the done channel is.  A
\* goroutine that reaches its select late may take either.
WatcherWakes(r) ==
    /\ watcher[r] = "waiting"
    /\ \/ LostClosed(r) /\ watcher' = [watcher EXCEPT ![r] = "woken"]
       \/ done[r] /\ watcher' = [watcher EXCEPT ![r] = "over"]
    /\ UNCHANGED <<lock_vars, adapter, want, retrying, lease_vars, durable_vars>>

\* Its first act is Cancel.
WatcherCancels(r) ==
    /\ watcher[r] = "woken"
    /\ watcher' = [watcher EXCEPT ![r] = "cancelled"]
    /\ rt' = Cancelled
    /\ UNCHANGED <<lock, done, adapter, want, retrying, lease_vars, durable_vars>>

\* Then it takes transitionMu and retires the run that is active by now, or drops
\* what registration is left.
WatcherRetires(r) ==
    /\ watcher[r] = "cancelled" /\ lock = Free
    /\ watcher' = [watcher EXCEPT ![r] = "over"]
    /\ \/ /\ rt.active
          /\ lock' = [run |-> rt.run, step |-> "retire", by |-> "watcher", outcome |-> "failed"]
          /\ UNCHANGED <<rt, lease_vars>>
       \/ /\ ~rt.active
          /\ rt' = [rt EXCEPT !.retained = FALSE]
          /\ IF rt.retained THEN Drop(rt.run, rt.run \notin guard) ELSE UNCHANGED <<lease, reg>>
          /\ UNCHANGED <<lock, guard>>
    /\ UNCHANGED <<done, adapter, want, retrying, durable_vars>>

-----------------------------------------------------------------------------
(* The lease and the other process. *)

\* The heartbeat renews the registered lease only, and finds it displaced.
HeartbeatLost(r) ==
    /\ reg = r /\ lease[r] = "displaced"
    /\ lease' = [lease EXCEPT ![r] = "lost"] /\ reg' = NoRun
    /\ UNCHANGED <<lock_vars, adapter, want, watcher, retrying, guard, durable_vars>>

\* Another process acquires the session: from nobody, or from a lease that expired
\* because its heartbeat stalled.
TakeOver ==
    /\ ~other /\ takeovers < MaxTakeovers
    /\ other' = TRUE /\ takeovers' = takeovers + 1
    /\ lease' = [r \in Run |-> IF lease[r] = "held" THEN "displaced" ELSE lease[r]]
    /\ UNCHANGED <<lock_vars, adapter, want, watcher, retrying, guard, reg, status, recovered>>

\* Under its recovery lease it converges the run it found orphaned.
Recover(r) ==
    /\ other /\ NonTerminal(r)
    /\ status' = [status EXCEPT ![r] = "failed"]
    /\ recovered' = recovered \cup {r}
    /\ UNCHANGED <<lock_vars, adapter, want, watcher, retrying, lease_vars, other, takeovers>>

OtherReleases ==
    /\ other /\ other' = FALSE
    /\ UNCHANGED <<lock_vars, adapter, want, watcher, retrying, lease_vars, takeovers,
                   status, recovered>>

-----------------------------------------------------------------------------
Next ==
    \/ \E r \in Run :
          \/ Admit(r) \/ Begin(r) \/ Watch(r) \/ Create(r) \/ CreateFails(r)
          \/ Register(r) \/ SetAgent(r) \/ AgentEnds(r) \/ ReleaseGuard(r)
          \/ WaitFor(r) \/ Resume(r)
          \/ FinishDurable(r) \/ RetryTurn(r) \/ Deadline(r) \/ RetryStops(r)
          \/ WatcherWakes(r) \/ WatcherCancels(r) \/ WatcherRetires(r)
          \/ HeartbeatLost(r) \/ Recover(r)
    \/ TransitionOk \/ TransitionFails
    \/ MarkOk \/ Adopt \/ CommitOk \/ AttemptFails \/ Retire \/ Unregister \/ CloseDone
    \/ Cancel \/ CancelDurable \/ ShutdownLoopless \/ ShutdownLoop
    \/ TakeOver \/ OtherReleases

Spec == Init /\ [][Next]_vars

\* A transition that holds transitionMu goes on, and the database answers in the end;
\* goroutines that were started run, the heartbeat ticks, and an adapter whose run
\* ended returns.  Nobody has to cancel, and no agent loop has to end.
Fairness ==
    /\ WF_vars(TransitionOk \/ TransitionFails)
    /\ WF_vars(MarkOk \/ Adopt \/ CommitOk \/ AttemptFails)
    /\ SF_vars(MarkOk) /\ SF_vars(CommitOk)
    /\ WF_vars(Retire) /\ WF_vars(Unregister) /\ WF_vars(CloseDone)
    /\ \A r \in Run :
          /\ SF_vars(FinishDurable(r)) /\ SF_vars(RetryTurn(r)) /\ WF_vars(RetryStops(r))
          /\ WF_vars(ReleaseGuard(r)) /\ WF_vars(HeartbeatLost(r))
          /\ WF_vars(WatcherWakes(r)) /\ WF_vars(WatcherCancels(r))
          /\ SF_vars(WatcherRetires(r))

FairSpec == Spec /\ Fairness

-----------------------------------------------------------------------------
(* Properties. *)

TypeOK ==
    /\ rt \in Runtime
    /\ lock \in Locked \cup {Free}
    /\ done \in [Run -> BOOLEAN]
    /\ adapter \in [Run -> {"idle", "admitted", "begun", "creating", "created", "registered",
                            "running", "finishing", "failing", "ended", "gone"}]
    /\ want \in [Run -> Outcome \cup {NoOutcome}]
    /\ watcher \in [Run -> {"none", "waiting", "woken", "cancelled", "over"}]
    /\ retrying \subseteq Run
    /\ lease \in [Run -> {"none", "held", "displaced", "lost", "released"}]
    /\ guard \subseteq Run /\ reg \in Run \cup {NoRun}
    /\ other \in BOOLEAN /\ takeovers \in 0 .. MaxTakeovers
    /\ status \in [Run -> {"absent", "running", "waiting", "cancelling", "terminalizing"} \cup Outcome]
    /\ recovered \subseteq Run

\* RunRecord is implemented: whatever finishers, cancellers, failed waits, shutdown and
\* the recovery of another process do to each other, one run is open at a time, its row
\* never goes back to what a cancellation or a terminal write has left, and it is ended
\* once, with the outcome selected first (allowedRunPredecessors, finishDurableLocked).
Record == INSTANCE RunRecord WITH owned <- rt.run, choice <- rt.selected
ImplementsRecord == Record!Spec

\* Competing finishers select one outcome, and unless another process recovered the
\* run first, that one is what its row ends with (finishDurableLocked).
SelectedOutcomeStands ==
    rt.selected # NoOutcome /\ Terminal(rt.run) /\ rt.run \notin recovered
        => status[rt.run] = rt.selected

\* "It keeps the lease alive across an adapter guard release while terminal
\* persistence is being retried": a registered execution's lease is not released.
RegisteredKeepsLease == rt.retained => lease[rt.run] # "released"

\* A held lease has someone who will still release it.  One nobody holds would be
\* renewed for ever and keep the session busy (Begin resets leaseRelease).
HeldLeaseHasHolder == \A r \in Run : lease[r] = "held" => r \in guard \/ Retained(r)

\* A cancellation that came before the agent was bound still aborts it: "the request
\* would otherwise be silently lost and the Run would keep executing" (SetAgent); a wait
\* whose write fails puts the state back over a cancellation, but not the abort.
CancelReachesAgent ==
    rt.active /\ rt.bound /\ rt.cancelled /\ rt.selected = NoOutcome => rt.aborted

\* The completion barrier opens after the Runtime let go of run and lease.  An adopted
\* outcome is the exception: finishInMemory closes the channel first (Completion).
CompletionAfterRelease ==
    \A r \in Run : done[r] /\ r \notin recovered => ~Active(r) /\ ~Retained(r)

\* A lease that was displaced unnoticed and whose registration the next admission of this
\* process replaced: no heartbeat renews it, nobody closes its lost channel.
Forgotten(r) == lease[r] = "displaced" /\ reg # r

\* A run whose terminal write began leaves memory, by the write, by its retry, or by
\* the watcher of its lost lease: the session does not stay busy for ever.  The
\* exception is a run whose lease is forgotten (rememberRuntimeLease).
PreparedRunSettles ==
    \A r \in Run : Active(r) /\ rt.prepared ~> ~Active(r) \/ Forgotten(r)

\* Deregistration happens "only after the durable terminal state succeeded or the
\* lease was confirmed lost": a watcher of a lost lease, which does not look at the
\* row, deregisters no run whose own lease is held (watchLeaseLost).
WatcherSparesHeldLease == lock.by = "watcher" => lease[lock.run] # "held"
=============================================================================
