------------------------ MODULE ExecutionRuntimeProofs ------------------------
(***************************************************************************)
(* For any number of runs and takeovers: the type of the execution runtime  *)
(* and the safety properties of ExecutionRuntime, from one inductive         *)
(* invariant.  It adds to them how far a run's adapter is when the run is    *)
(* known to the Runtime or to the database (RunInv), what a holder of        *)
(* transitionMu finds (LockInv), what the registered lease is (LeaseInv),    *)
(* that whoever waits has an agent (BoundInv), and what has become of a      *)
(* cancellation and of an outcome (OutcomeInv); the refinement of RunRecord, *)
(* at the end, also who is admitted (AloneInv).                              *)
(***************************************************************************)
EXTENDS ExecutionRuntime, TLAPS

RunInv ==
    /\ rt.run = NoRun => ~rt.active /\ ~rt.retained /\ rt.selected = NoOutcome
    /\ \A r \in Run :
          /\ rt.run = r => adapter[r] \notin {"idle", "admitted"}
          /\ adapter[r] \in {"idle", "admitted"} => ~done[r] /\ r \notin retrying
          /\ adapter[r] \in {"idle", "admitted", "begun", "creating"} => status[r] = "absent"
          /\ adapter[r] \in {"finishing", "failing"} => want[r] \in Outcome
          /\ r \in retrying /\ Active(r) => rt.selected # NoOutcome
          /\ Retained(r) => adapter[r] \notin {"begun", "creating", "created"}

LockInv ==
    /\ lock.step # "free" => lock.run = rt.run
    /\ lock.step \in {"mark", "commit", "retire", "adopt", "wait", "resume"} => rt.active
    /\ lock.step \in {"release", "close"} => ~rt.active
    /\ lock.step = "close" => ~rt.retained
    /\ lock.step \in {"mark", "commit"} => rt.selected = lock.outcome
    /\ lock.step = "adopt" => lock.run \in recovered
    /\ ~rt.active /\ rt.retained => lock.step = "release"

LeaseInv == reg # NoRun => lease[reg] \in {"held", "displaced"}

\* The wait of a run is the agent's, and only its loop or an answer to it ends it.
BoundInv ==
    rt.active /\ (\/ adapter[rt.run] = "running" \/ rt.state = "waiting"
                  \/ lock.step \in {"wait", "resume"}) => rt.bound

\* A failed wait puts the state back: then it is the abort that tells of a cancellation.
OutcomeInv ==
    /\ rt.active /\ rt.cancelled /\ rt.selected = NoOutcome
          => rt.state = "cancelling" \/ (rt.bound /\ rt.aborted)
    /\ rt.run # NoRun /\ Terminal(rt.run) /\ rt.run \notin recovered =>
          /\ status[rt.run] = rt.selected
          /\ rt.active => lock.step = "retire"

Safe == /\ SelectedOutcomeStands /\ RegisteredKeepsLease /\ HeldLeaseHasHolder
        /\ CancelReachesAgent /\ CompletionAfterRelease

Rests == RunInv /\ LockInv /\ LeaseInv /\ BoundInv /\ OutcomeInv /\ Safe

IInv == TypeOK /\ Rests

-----------------------------------------------------------------------------
(* The record of the Runtime and the lock. *)

LEMMA LockFree == TypeOK => (lock = Free <=> lock.step = "free")
    BY DEF TypeOK, Locked, Free

LEMMA NoOutcomeIsNone == NoOutcome \notin Outcome
    BY DEF NoOutcome, Outcome

LEMMA FreshType == ASSUME NEW r \in Run \cup {NoRun} PROVE Fresh(r) \in Runtime
    BY DEF Fresh, Runtime, NoOutcome

\* A run that is over: its record but for the outcome.
LEMMA OverType ==
    ASSUME rt \in Runtime, NEW o \in Outcome
    PROVE  [rt EXCEPT !.active = FALSE, !.state = o, !.bound = FALSE, !.cancelled = TRUE] \in Runtime
<1> DEFINE a == [rt EXCEPT !.active = FALSE, !.state = o]
           b == [a EXCEPT !.bound = FALSE, !.cancelled = TRUE]
<1>1. a \in Runtime
    BY DEF Runtime
<1>2. b = [rt EXCEPT !.active = FALSE, !.state = o, !.bound = FALSE, !.cancelled = TRUE]
    OBVIOUS
<1> HIDE DEF a
<1>3. b \in Runtime
    BY <1>1 DEF Runtime
<1> HIDE DEF b
<1> QED
    BY <1>2, <1>3

LEMMA UncreatedType ==
    ASSUME rt \in Runtime
    PROVE  [rt EXCEPT !.active = FALSE, !.state = "failed", !.bound = FALSE] \in Runtime
<1> DEFINE a == [rt EXCEPT !.active = FALSE, !.state = "failed"]
           b == [a EXCEPT !.bound = FALSE]
<1>1. a \in Runtime
    BY DEF Runtime, Outcome
<1>2. b = [rt EXCEPT !.active = FALSE, !.state = "failed", !.bound = FALSE]
    OBVIOUS
<1> HIDE DEF a
<1>3. b \in Runtime
    BY <1>1 DEF Runtime
<1> HIDE DEF b
<1> QED
    BY <1>2, <1>3

LEMMA CancelledType == ASSUME rt \in Runtime PROVE Cancelled \in Runtime
<1> DEFINE a == [rt EXCEPT !.state = "cancelling", !.cancelled = TRUE]
           b == [a EXCEPT !.aborted = rt.aborted \/ rt.bound]
<1>1. a \in Runtime
    BY DEF Runtime
<1>2. b = [rt EXCEPT !.state = "cancelling", !.cancelled = TRUE, !.aborted = @ \/ rt.bound]
    OBVIOUS
<1>0. (rt.aborted \/ rt.bound) \in BOOLEAN
    OBVIOUS
<1> HIDE DEF a
<1>3. b \in Runtime
    BY <1>0, <1>1 DEF Runtime
<1> HIDE DEF b
<1> QED
    BY <1>2, <1>3 DEF Cancelled

\* What a cancellation changes of a run, and what it leaves.
LEMMA CancelledEffect ==
    ASSUME rt \in Runtime
    PROVE  /\ Cancelled.run = rt.run /\ Cancelled.active = rt.active /\ Cancelled.bound = rt.bound
           /\ Cancelled.selected = rt.selected /\ Cancelled.retained = rt.retained
           /\ rt.active => Cancelled.state = "cancelling" /\ (rt.bound => Cancelled.aborted)
           /\ ~rt.active => Cancelled = rt
    BY DEF Cancelled, Runtime

LEMMA RetriedEffect ==
    ASSUME rt \in Runtime, NEW v, NEW c, c = [Cancelled EXCEPT !.retry = v]
    PROVE  /\ c.run = Cancelled.run /\ c.active = Cancelled.active /\ c.bound = Cancelled.bound
           /\ c.selected = Cancelled.selected /\ c.retained = Cancelled.retained
           /\ c.state = Cancelled.state /\ c.aborted = Cancelled.aborted
<1>1. Cancelled \in Runtime
    BY CancelledType
<1> QED
    BY <1>1 DEF Runtime

\* An attempt at the terminal write that failed.
FailedAttempt(terminal, unregistered) ==
    [rt EXCEPT !.terminalizing = FALSE,
               !.retry = @ /\ terminal,
               !.state = IF unregistered THEN "cancelling" ELSE @,
               !.cancelled = @ \/ unregistered]

LEMMA FailedAttemptType ==
    ASSUME rt \in Runtime, NEW t \in BOOLEAN, NEW u \in BOOLEAN
    PROVE  /\ FailedAttempt(t, u) \in Runtime
           /\ FailedAttempt(t, u).run = rt.run /\ FailedAttempt(t, u).active = rt.active
           /\ FailedAttempt(t, u).bound = rt.bound /\ FailedAttempt(t, u).aborted = rt.aborted
           /\ FailedAttempt(t, u).selected = rt.selected /\ FailedAttempt(t, u).retained = rt.retained
<1>1. PICK v \in BOOLEAN : v = (rt.retry /\ t)
    OBVIOUS
<1>2. PICK w \in BOOLEAN : w = (rt.cancelled \/ u)
    OBVIOUS
<1> DEFINE a == [rt EXCEPT !.terminalizing = FALSE, !.retry = v]
           b == [a EXCEPT !.state = IF u THEN "cancelling" ELSE @, !.cancelled = w]
<1>3. a \in Runtime
    BY DEF Runtime
<1>4. b = FailedAttempt(t, u)
    BY <1>1, <1>2 DEF FailedAttempt
<1>5. /\ b.run = rt.run /\ b.active = rt.active /\ b.bound = rt.bound /\ b.aborted = rt.aborted
      /\ b.selected = rt.selected /\ b.retained = rt.retained
    BY DEF Runtime
<1> HIDE DEF a
<1>6. b \in Runtime
    BY <1>3 DEF Runtime
<1> HIDE DEF b
<1> QED
    BY <1>4, <1>5, <1>6

-----------------------------------------------------------------------------
LEMMA InitInv == Init => IInv
<1> SUFFICES ASSUME Init PROVE IInv
    OBVIOUS
<1> USE RuntimeAssumption, NoOutcomeIsNone DEF Init
<1>1. TypeOK
  <2>1. rt \in Runtime
    <3>1. Fresh(NoRun) \in Runtime
        BY FreshType
    <3>2. [Fresh(NoRun) EXCEPT !.active = FALSE, !.state = "idle"] \in Runtime
        BY <3>1 DEF Runtime
    <3> QED
        BY <3>2
  <2>2. /\ done \in [Run -> BOOLEAN] /\ retrying \subseteq Run /\ guard \subseteq Run
        /\ recovered \subseteq Run /\ reg \in Run \cup {NoRun} /\ takeovers \in 0 .. MaxTakeovers
      OBVIOUS
  <2>3. other \in BOOLEAN /\ lock \in Locked \cup {Free}
      OBVIOUS
  <2>4. /\ want \in [Run -> Outcome \cup {NoOutcome}]
        /\ watcher \in [Run -> {"none", "waiting", "woken", "cancelled", "over"}]
      OBVIOUS
  <2>5. /\ lease \in [Run -> {"none", "held", "displaced", "lost", "released"}]
        /\ status \in [Run -> {"absent", "running", "waiting", "cancelling", "terminalizing"} \cup Outcome]
      OBVIOUS
  <2>6. adapter \in [Run -> {"idle", "admitted", "begun", "creating", "created", "registered",
                            "running", "finishing", "failing", "ended", "gone"}]
      OBVIOUS
  <2> QED
      BY <2>1, <2>2, <2>3, <2>4, <2>5, <2>6 DEF TypeOK
<1>2. /\ rt.run = NoRun /\ ~rt.active /\ ~rt.retained /\ rt.selected = NoOutcome
      /\ lock.step = "free" /\ lock.run = NoRun
    BY DEF Fresh, Free
<1>3. RunInv /\ LockInv /\ LeaseInv /\ BoundInv /\ OutcomeInv
    BY <1>2 DEF RunInv, LockInv, LeaseInv, BoundInv, OutcomeInv, Retained
<1>4. Safe
    BY <1>2 DEF Safe, SelectedOutcomeStands, RegisteredKeepsLease, HeldLeaseHasHolder,
                CancelReachesAgent, CompletionAfterRelease
<1> QED
    BY <1>1, <1>3, <1>4 DEF IInv, Rests

LEMMA DropType ==
    ASSUME TypeOK, NEW r \in Run, NEW last \in BOOLEAN, Drop(r, last) \/ UNCHANGED <<lease, reg>>
    PROVE  /\ lease' \in [Run -> {"none", "held", "displaced", "lost", "released"}]
           /\ reg' \in Run \cup {NoRun}
    BY DEF TypeOK, Drop

LEMMA TypeStep == IInv /\ [Next]_vars => TypeOK'
<1> SUFFICES ASSUME IInv, [Next]_vars PROVE TypeOK'
    OBVIOUS
<1>0. TypeOK /\ RunInv
    BY DEF IInv, Rests
<1>00. rt \in Runtime
    BY <1>0 DEF TypeOK
<1> USE <1>0, RuntimeAssumption DEF TypeOK, lock_vars, lease_vars, durable_vars
<1>1. CASE UNCHANGED vars
    BY <1>1 DEF vars
<1>2. ASSUME NEW r \in Run, Admit(r) PROVE TypeOK'
    BY <1>2 DEF Admit
<1>3. ASSUME NEW r \in Run, Begin(r) PROVE TypeOK'
    BY <1>3, FreshType DEF Begin
<1>4. ASSUME NEW r \in Run, Watch(r) PROVE TypeOK'
  <2>1. rt' \in Runtime
      BY <1>4 DEF Watch, Runtime
  <2> QED
      BY <1>4, <2>1 DEF Watch
<1>5. ASSUME NEW r \in Run, Create(r) PROVE TypeOK'
    BY <1>5 DEF Create
<1>6. ASSUME NEW r \in Run, CreateFails(r) PROVE TypeOK'
  <2>1. rt' \in Runtime
      BY <1>6, UncreatedType DEF CreateFails
  <2> QED
      BY <1>6, <2>1 DEF CreateFails
<1>7. ASSUME NEW r \in Run, Register(r) PROVE TypeOK'
  <2>0. [rt EXCEPT !.retained = TRUE] \in Runtime
      BY <1>00 DEF Runtime
  <2>1. rt' \in Runtime
      BY <1>7, <2>0 DEF Register
  <2> QED
      BY <1>7, <2>1 DEF Register, Outcome
<1>8. ASSUME NEW r \in Run, SetAgent(r) PROVE TypeOK'
  <2>1. PICK v \in BOOLEAN : v = (rt.aborted \/ rt.state = "cancelling")
      OBVIOUS
  <2>2. [rt EXCEPT !.bound = TRUE, !.aborted = v] \in Runtime
      BY <1>00 DEF Runtime
  <2>3. rt' \in Runtime
      BY <1>8, <2>1, <2>2 DEF SetAgent
  <2> QED
      BY <1>8, <2>3 DEF SetAgent
<1>9. ASSUME NEW r \in Run, AgentEnds(r) PROVE TypeOK'
    BY <1>9 DEF AgentEnds
<1>10. ASSUME NEW r \in Run, ReleaseGuard(r) PROVE TypeOK'
    BY <1>10, DropType DEF ReleaseGuard
<1>11. ASSUME NEW by \in {"adapter", "retry"}, NEW r \in Run, NEW o \in Outcome, Select(by, r, o)
       PROVE TypeOK'
  <2>1. rt' \in Runtime
      BY <1>11 DEF Select, Runtime
  <2>2. lock' \in Locked
      BY <1>11 DEF Select, Locked
  <2> QED
      BY <1>11, <2>1, <2>2 DEF Select
<1>12. ASSUME NEW r \in Run, FinishDurable(r) PROVE TypeOK'
  <2>1. CASE Select("adapter", r, want[r])
      BY <1>11, <1>12, <2>1 DEF FinishDurable, RunInv
  <2>2. CASE ~Select("adapter", r, want[r])
      BY <1>00, <1>12, <2>2, CancelledType DEF FinishDurable
  <2> QED
      BY <2>1, <2>2
<1>13. ASSUME NEW r \in Run, RetryTurn(r) PROVE TypeOK'
  <2>1. rt.selected \in Outcome
      BY <1>13 DEF RetryTurn, RunInv, Runtime
  <2> QED
      BY <1>11, <1>13, <2>1 DEF RetryTurn
<1>14. CASE MarkOk
  <2>1. rt' \in Runtime
      BY <1>00, <1>14 DEF MarkOk, Runtime
  <2>2. lock' \in Locked
      BY <1>14 DEF MarkOk, Locked, Free
  <2> QED
      BY <1>14, <2>1, <2>2 DEF MarkOk
<1>15. CASE Adopt
  <2>0. lock \in Locked
      BY <1>15 DEF Adopt, Free
  <2>1. [lock EXCEPT !.step = "adopt", !.outcome = status[lock.run]] \in Locked
      BY <1>15, <2>0 DEF Adopt, Locked, Terminal
  <2> QED
      BY <1>15, <2>1 DEF Adopt
<1>16. CASE CommitOk
  <2>1. rt' \in Runtime
      BY <1>00, <1>16 DEF CommitOk, Runtime
  <2>2. lock' \in Locked /\ lock.outcome \in Outcome
      BY <1>16 DEF CommitOk, Locked, Free
  <2> QED
      BY <1>16, <2>1, <2>2 DEF CommitOk
<1>17. ASSUME NEW by, NEW r, NEW b, Report(by, r, b)
       PROVE  /\ retrying' \subseteq Run
              /\ adapter' \in [Run -> {"idle", "admitted", "begun", "creating", "created", "registered",
                                       "running", "finishing", "failing", "ended", "gone"}]
    BY <1>17 DEF Report
<1>18. CASE AttemptFails
  <2>1. rt' \in Runtime
    <3>1. PICK t \in BOOLEAN : t = (lock.by = "retry" => Fenced)
        OBVIOUS
    <3>2. PICK u \in BOOLEAN : u = (lock.by = "adapter" /\ adapter[lock.run] = "failing")
        OBVIOUS
    <3>3. rt' = FailedAttempt(t, u)
        BY <1>18, <3>1, <3>2 DEF AttemptFails, FailedAttempt
    <3> QED
        BY <1>00, <3>3, FailedAttemptType
  <2>2. /\ retrying' \subseteq Run
        /\ adapter' \in [Run -> {"idle", "admitted", "begun", "creating", "created", "registered",
                                 "running", "finishing", "failing", "ended", "gone"}]
      BY <1>17, <1>18 DEF AttemptFails
  <2> QED
      BY <1>18, <2>1, <2>2 DEF AttemptFails
<1>19. CASE Retire
  <2>1. lock.outcome \in Outcome /\ lock' \in Locked
      BY <1>19 DEF Retire, Locked, Free
  <2>2. rt' \in Runtime
      BY <1>00, <1>19, <2>1, OverType DEF Retire
  <2>3. done' \in [Run -> BOOLEAN]
      BY <1>19 DEF Retire
  <2> QED
      BY <1>19, <2>1, <2>2, <2>3 DEF Retire
<1>20. CASE Unregister
  <2>0. rt' \in Runtime
      BY <1>00, <1>20 DEF Unregister, Runtime
  <2>1. lock' \in Locked /\ lock.run \in Run
      BY <1>20 DEF Unregister, Locked, Free
  <2>2. /\ lease' \in [Run -> {"none", "held", "displaced", "lost", "released"}]
        /\ reg' \in Run \cup {NoRun}
      BY <1>20, <2>1, DropType DEF Unregister
  <2> QED
      BY <1>20, <2>0, <2>1, <2>2 DEF Unregister
<1>21. CASE CloseDone
  <2>1. rt' \in Runtime
    <3>1. PICK v \in BOOLEAN : v = (rt.retry /\ lock.by # "retry")
        OBVIOUS
    <3>2. PICK w \in BOOLEAN : w = (IF lock.by = "watcher" THEN rt.terminalizing ELSE FALSE)
        BY <1>00 DEF Runtime
    <3>3. [rt EXCEPT !.terminalizing = w, !.retry = v] \in Runtime
        BY <1>00 DEF Runtime
    <3> QED
        BY <1>21, <3>1, <3>2, <3>3 DEF CloseDone
  <2>2. done' \in [Run -> BOOLEAN]
      BY <1>21 DEF CloseDone
  <2> QED
      BY <1>17, <1>21, <2>1, <2>2 DEF CloseDone
<1>22. ASSUME NEW r \in Run, Deadline(r) PROVE TypeOK'
  <2>1. rt' \in Runtime
      BY <1>00, <1>22 DEF Deadline, StartRetry, Runtime
  <2> QED
      BY <1>22, <2>1 DEF Deadline, StartRetry
<1>23. ASSUME NEW r \in Run, RetryStops(r) PROVE TypeOK'
  <2>1. rt' \in Runtime
      BY <1>00, <1>23 DEF RetryStops, Runtime
  <2> QED
      BY <1>23, <2>1 DEF RetryStops
<1>24. CASE Cancel
    BY <1>00, <1>24, CancelledType DEF Cancel
<1>25. ASSUME NEW v PROVE [Cancelled EXCEPT !.retry = @ \/ v] \in Runtime
  <2>1. PICK w \in BOOLEAN : w = (Cancelled.retry \/ v)
      OBVIOUS
  <2>2. [Cancelled EXCEPT !.retry = w] \in Runtime
      BY <1>00, CancelledType DEF Runtime
  <2> QED
      BY <2>1, <2>2
<1>26. rt.active => rt.run \in Run
    BY <1>00 DEF Runtime, RunInv
<1>27. CASE CancelDurable
  <2>1. rt' \in Runtime
      BY <1>00, <1>25, <1>27, CancelledType DEF CancelDurable
  <2> QED
      BY <1>26, <1>27, <2>1 DEF CancelDurable
<1>28. CASE ShutdownLoopless
  <2>1. rt' \in Runtime
      BY <1>00, <1>28 DEF ShutdownLoopless, Runtime, Outcome
  <2>2. lock' \in Locked
      BY <1>26, <1>28 DEF ShutdownLoopless, Locked, Outcome
  <2> QED
      BY <1>28, <2>1, <2>2 DEF ShutdownLoopless
<1>29. CASE ShutdownLoop
  <2>1. rt' \in Runtime
      BY <1>00, <1>25, <1>29, CancelledType DEF ShutdownLoop
  <2> QED
      BY <1>26, <1>29, <2>1 DEF ShutdownLoop
<1>30. ASSUME NEW r \in Run, WatcherWakes(r) PROVE TypeOK'
    BY <1>30 DEF WatcherWakes
<1>35. ASSUME NEW r \in Run, WaitFor(r) \/ Resume(r) PROVE TypeOK'
  <2>1. rt' \in Runtime
      BY <1>00, <1>35 DEF WaitFor, Resume, Runtime
  <2>2. lock' \in Locked
      BY <1>35 DEF WaitFor, Resume, Locked
  <2> QED
      BY <1>35, <2>1, <2>2 DEF WaitFor, Resume
<1>36. CASE TransitionOk \/ TransitionFails
  <2>1. rt' \in Runtime
      BY <1>00, <1>36 DEF TransitionOk, TransitionFails, Before, Runtime
  <2>2. status' \in [Run -> {"absent", "running", "waiting", "cancelling", "terminalizing"} \cup Outcome]
      BY <1>36 DEF TransitionOk, TransitionFails, Before, After
  <2> QED
      BY <1>36, <2>1, <2>2 DEF TransitionOk, TransitionFails
<1>31. ASSUME NEW r \in Run, WatcherCancels(r) PROVE TypeOK'
    BY <1>00, <1>31, CancelledType DEF WatcherCancels
<1>32. ASSUME NEW r \in Run, WatcherRetires(r) PROVE TypeOK'
  <2>1. CASE rt.active
    <3>1. [run |-> rt.run, step |-> "retire", by |-> "watcher", outcome |-> "failed"] \in Locked
        BY <1>26, <2>1 DEF Locked, Outcome
    <3> QED
        BY <1>32, <2>1, <3>1 DEF WatcherRetires
  <2>2. CASE ~rt.active
    <3>1. rt' \in Runtime
        BY <1>00, <1>32, <2>2 DEF WatcherRetires, Runtime
    <3>2. rt.retained => rt.run \in Run
        BY <1>00 DEF Runtime, RunInv
    <3>3. /\ lease' \in [Run -> {"none", "held", "displaced", "lost", "released"}]
          /\ reg' \in Run \cup {NoRun}
        BY <1>32, <2>2, <3>2, DropType DEF WatcherRetires
    <3> QED
        BY <1>32, <2>2, <3>1, <3>3 DEF WatcherRetires
  <2> QED
      BY <2>1, <2>2
<1>33. ASSUME NEW r \in Run, HeartbeatLost(r) \/ Recover(r) PROVE TypeOK'
    BY <1>33 DEF HeartbeatLost, Recover, Outcome
<1>34. CASE TakeOver \/ OtherReleases
  <2>1. CASE TakeOver
    <3>1. /\ lease' \in [Run -> {"none", "held", "displaced", "lost", "released"}]
          /\ takeovers' \in 0 .. MaxTakeovers
        BY <2>1 DEF TakeOver
    <3> QED
        BY <2>1, <3>1 DEF TakeOver
  <2>2. CASE OtherReleases
      BY <2>2 DEF OtherReleases
  <2> QED
      BY <1>34, <2>1, <2>2
<1> QED
    BY <1>1, <1>2, <1>3, <1>4, <1>5, <1>6, <1>7, <1>8, <1>9, <1>10, <1>12, <1>13, <1>14,
       <1>15, <1>16, <1>18, <1>19, <1>20, <1>21, <1>22, <1>23, <1>24, <1>27, <1>28, <1>29,
       <1>30, <1>31, <1>32, <1>33, <1>34, <1>35, <1>36 DEF Next

-----------------------------------------------------------------------------
\* The rest of the invariant, one action after the other.
LEMMA RestsStep == IInv /\ [Next]_vars => Rests'
<1> SUFFICES ASSUME IInv, [Next]_vars PROVE Rests'
    OBVIOUS
<1>0. TypeOK /\ Rests /\ rt \in Runtime /\ (rt.run # NoRun => rt.run \in Run)
    BY DEF IInv, TypeOK, Runtime
<1> USE <1>0, RuntimeAssumption, NoOutcomeIsNone, LockFree
    DEF TypeOK, Rests, RunInv, LockInv, LeaseInv, BoundInv, OutcomeInv, Safe, SelectedOutcomeStands,
        RegisteredKeepsLease, HeldLeaseHasHolder, CancelReachesAgent, CompletionAfterRelease,
        lock_vars, lease_vars, durable_vars, Active, Retained, Terminal, NonTerminal,
        Underway, MayCancel
<1>1. CASE UNCHANGED vars
    BY <1>1 DEF vars
<1>2. ASSUME NEW r \in Run, Admit(r) PROVE Rests'
    BY <1>2 DEF Admit
<1>3. ASSUME NEW r \in Run, Begin(r) PROVE Rests'
    BY <1>3 DEF Begin, Fresh, Outcome
<1>4. ASSUME NEW r \in Run, Watch(r) PROVE Rests'
    BY <1>4 DEF Watch, Runtime
<1>5. ASSUME NEW r \in Run, Create(r) PROVE Rests'
    BY <1>5 DEF Create, Outcome
<1>6. ASSUME NEW r \in Run, CreateFails(r) PROVE Rests'
    BY <1>6 DEF CreateFails, Runtime
<1>7. ASSUME NEW r \in Run, Register(r) PROVE Rests'
    BY <1>7 DEF Register, Runtime, Outcome
<1>8. ASSUME NEW r \in Run, SetAgent(r) PROVE Rests'
    BY <1>8 DEF SetAgent, Runtime
<1>9. ASSUME NEW r \in Run, AgentEnds(r) PROVE Rests'
    BY <1>9 DEF AgentEnds
<1>10. ASSUME NEW r \in Run, ReleaseGuard(r) PROVE Rests'
  <2>1. RunInv'
      BY <1>10 DEF ReleaseGuard, Drop
  <2>2. LockInv'
      BY <1>10 DEF ReleaseGuard, Drop
  <2>3. LeaseInv'
      BY <1>10 DEF ReleaseGuard, Drop
  <2>4. OutcomeInv'
      BY <1>10 DEF ReleaseGuard, Drop
  <2>5. Safe'
      BY <1>10 DEF ReleaseGuard, Drop
  <2>6. BoundInv'
      BY <1>10 DEF ReleaseGuard, Drop
  <2> QED
      BY <2>1, <2>2, <2>3, <2>4, <2>5, <2>6
<1>11. ASSUME NEW by \in {"adapter", "retry"}, NEW r \in Run, NEW o \in Outcome, Select(by, r, o)
      PROVE Rests'
    BY <1>11 DEF Select, Selectable, Runtime
<1>12. ASSUME NEW r \in Run, FinishDurable(r) PROVE Rests'
  <2>1. CASE Select("adapter", r, want[r])
      BY <1>11, <1>12, <2>1 DEF FinishDurable
  <2>2. CASE ~Select("adapter", r, want[r])
    <3>1. rt' = Cancelled \/ rt' = rt
        BY <1>12, <2>2 DEF FinishDurable
    <3>2. /\ adapter' = [adapter EXCEPT ![r] = "ended"]
          /\ UNCHANGED <<lock, done, want, watcher, retrying, lease_vars, durable_vars>>
        BY <1>12, <2>2 DEF FinishDurable
    <3> QED
        BY <3>1, <3>2, CancelledEffect
  <2> QED
      BY <2>1, <2>2
<1>13. ASSUME NEW r \in Run, RetryTurn(r) PROVE Rests'
  <2>1. rt.selected \in Outcome
      BY <1>13 DEF RetryTurn, Runtime
  <2> QED
      BY <1>11, <1>13, <2>1 DEF RetryTurn
<1>14. ASSUME NEW r \in Run, Deadline(r) PROVE Rests'
    BY <1>14 DEF Deadline, StartRetry, Runtime
<1>15. ASSUME NEW r \in Run, RetryStops(r) PROVE Rests'
    BY <1>15 DEF RetryStops, Runtime
<1>16. ASSUME NEW r \in Run, WatcherWakes(r) PROVE Rests'
    BY <1>16 DEF WatcherWakes
<1>17. ASSUME rt'.run = rt.run, rt'.active = rt.active, rt'.bound = rt.bound,
              rt'.selected = rt.selected, rt'.retained = rt.retained,
              rt.active => rt'.state = "cancelling" /\ (rt.bound => rt'.aborted),
              ~rt.active => rt' = rt,
              retrying' \ retrying \subseteq {rt.run}, rt.run \in retrying' \ retrying => rt.active /\ rt.selected # NoOutcome,
              \A r \in Run : status'[r] = status[r] \/ {status[r], status'[r]} \subseteq {"running", "waiting", "cancelling"},
              UNCHANGED <<lock, done, adapter, want, lease, guard, reg, recovered>>
      PROVE  Rests'
  <2>1. RunInv'
      BY <1>17 DEF Outcome
  <2>2. LockInv'
      BY <1>17 DEF Outcome
  <2>3. LeaseInv'
      BY <1>17 DEF Outcome
  <2>4. OutcomeInv'
      BY <1>17 DEF Outcome
  <2>5. Safe'
      BY <1>17 DEF Outcome
  <2>6. BoundInv'
      BY <1>17 DEF Outcome
  <2> QED
      BY <2>1, <2>2, <2>3, <2>4, <2>5, <2>6
<1>18. ASSUME NEW r \in Run, WatcherCancels(r) PROVE Rests'
    BY <1>17, <1>18, CancelledEffect DEF WatcherCancels
<1>19. ASSUME NEW r \in Run, WatcherRetires(r) PROVE Rests'
    BY <1>19 DEF WatcherRetires, Drop, Runtime, Free
<1>20. ASSUME NEW r \in Run, HeartbeatLost(r) PROVE Rests'
    BY <1>20 DEF HeartbeatLost
<1>21. ASSUME NEW r \in Run, Recover(r) PROVE Rests'
    BY <1>21 DEF Recover, Outcome
<1>22. CASE MarkOk
    BY <1>22 DEF MarkOk, Runtime, Locked, Free, Outcome
<1>23. CASE Adopt
    BY <1>23 DEF Adopt, Locked, Free
<1>24. CASE CommitOk
    BY <1>24 DEF CommitOk, MayCommit, MayBecome, Runtime, Locked, Free
<1>25. CASE AttemptFails
  <2>1. /\ rt'.run = rt.run /\ rt'.active = rt.active /\ rt'.bound = rt.bound
        /\ rt'.selected = rt.selected /\ rt'.retained = rt.retained
      BY <1>25 DEF AttemptFails, Runtime
  <2>2. rt.selected # NoOutcome /\ lock.run = rt.run /\ lock'.step = "free"
        /\ lock.step \in {"mark", "commit"} /\ rt.active
      BY <1>25 DEF AttemptFails, Locked, Free
  <2> QED
      BY <1>25, <2>1, <2>2 DEF AttemptFails, Report
<1>26. CASE Retire
    BY <1>26 DEF Retire, Runtime, Locked, Free
<1>27. CASE Unregister
    BY <1>27 DEF Unregister, Drop, Runtime, Locked, Free
<1>28. CASE CloseDone
    BY <1>28 DEF CloseDone, Report, Runtime, Locked, Free
<1>29. CASE Cancel
    BY <1>17, <1>29, CancelledEffect DEF Cancel
<1>30. CASE CancelDurable
  <2>1. /\ rt'.run = rt.run /\ rt'.active = rt.active /\ rt'.bound = rt.bound
        /\ rt'.selected = rt.selected /\ rt'.retained = rt.retained
        /\ rt'.state = "cancelling" /\ (rt.bound => rt'.aborted)
    <3>1. CASE rt' = Cancelled
        BY <1>30, <3>1, CancelledEffect DEF CancelDurable
    <3>2. CASE rt' # Cancelled
      <4>1. PICK v : rt' = [Cancelled EXCEPT !.retry = v]
          BY <1>30, <3>2 DEF CancelDurable
      <4>2. /\ rt'.run = Cancelled.run /\ rt'.active = Cancelled.active /\ rt'.bound = Cancelled.bound
            /\ rt'.selected = Cancelled.selected /\ rt'.retained = Cancelled.retained
            /\ rt'.state = Cancelled.state /\ rt'.aborted = Cancelled.aborted
          BY <4>1, RetriedEffect
      <4>3. rt.active
          BY <1>30 DEF CancelDurable
      <4> QED
          BY <4>2, <4>3, CancelledEffect
    <3> QED
        BY <3>1, <3>2
  <2>2. /\ retrying' \ retrying \subseteq {rt.run}
        /\ rt.run \in retrying' \ retrying => rt.selected # NoOutcome
        /\ rt.active
      BY <1>30 DEF CancelDurable
  <2>3. \A r \in Run : status'[r] = status[r] \/ {status[r], status'[r]} \subseteq {"running", "waiting", "cancelling"}
      BY <1>30 DEF CancelDurable
  <2> QED
      BY <1>17, <1>30, <2>1, <2>2, <2>3 DEF CancelDurable
<1>31. CASE ShutdownLoopless
    BY <1>31 DEF ShutdownLoopless, ShutdownMaySelect, Runtime, Outcome
<1>32. CASE ShutdownLoop
  <2>1. /\ rt'.run = rt.run /\ rt'.active = rt.active /\ rt'.bound = rt.bound
        /\ rt'.selected = rt.selected /\ rt'.retained = rt.retained
        /\ rt'.state = "cancelling" /\ (rt.bound => rt'.aborted)
    <3>1. CASE rt' = Cancelled
        BY <1>32, <3>1, CancelledEffect DEF ShutdownLoop
    <3>2. CASE rt' # Cancelled
      <4>1. PICK v : rt' = [Cancelled EXCEPT !.retry = v]
          BY <1>32, <3>2 DEF ShutdownLoop
      <4>2. /\ rt'.run = Cancelled.run /\ rt'.active = Cancelled.active /\ rt'.bound = Cancelled.bound
            /\ rt'.selected = Cancelled.selected /\ rt'.retained = Cancelled.retained
            /\ rt'.state = Cancelled.state /\ rt'.aborted = Cancelled.aborted
          BY <4>1, RetriedEffect
      <4>3. rt.active
          BY <1>32 DEF ShutdownLoop
      <4> QED
          BY <4>2, <4>3, CancelledEffect
    <3> QED
        BY <3>1, <3>2
  <2>2. /\ retrying' \ retrying \subseteq {rt.run}
        /\ rt.run \in retrying' \ retrying => rt.selected # NoOutcome
        /\ rt.active
      BY <1>32 DEF ShutdownLoop
  <2>3. \A r \in Run : status'[r] = status[r] \/ {status[r], status'[r]} \subseteq {"running", "waiting", "cancelling"}
      BY <1>32 DEF ShutdownLoop
  <2> QED
      BY <1>17, <1>32, <2>1, <2>2, <2>3 DEF ShutdownLoop
<1>33. CASE TakeOver
  <2>1. RunInv'
      BY <1>33 DEF TakeOver
  <2>2. LockInv'
      BY <1>33 DEF TakeOver
  <2>3. LeaseInv'
      BY <1>33 DEF TakeOver
  <2>4. OutcomeInv'
      BY <1>33 DEF TakeOver
  <2>5. Safe'
      BY <1>33 DEF TakeOver
  <2>6. BoundInv'
      BY <1>33 DEF TakeOver
  <2> QED
      BY <2>1, <2>2, <2>3, <2>4, <2>5, <2>6
<1>34. CASE OtherReleases
    BY <1>34 DEF OtherReleases
<1>35. ASSUME NEW r \in Run, WaitFor(r) \/ Resume(r) PROVE Rests'
  <2>1. /\ rt'.run = rt.run /\ rt'.active = rt.active /\ rt'.bound = rt.bound
        /\ rt'.selected = rt.selected /\ rt'.retained = rt.retained
        /\ rt'.aborted = rt.aborted /\ rt'.cancelled = rt.cancelled
        /\ rt.active /\ rt.bound /\ rt.run = r /\ rt.state # "cancelling"
        /\ lock.step = "free" /\ lock'.run = r /\ lock'.step \in {"wait", "resume"}
      BY <1>35 DEF WaitFor, Resume, Runtime
  <2>2. UNCHANGED <<done, adapter, want, retrying, lease, guard, reg, status, recovered>>
      BY <1>35 DEF WaitFor, Resume
  <2> QED
      BY <2>1, <2>2
<1>36. CASE TransitionOk \/ TransitionFails
  <2>1. /\ rt'.run = rt.run /\ rt'.active = rt.active /\ rt'.bound = rt.bound
        /\ rt'.selected = rt.selected /\ rt'.retained = rt.retained
        /\ rt'.aborted = rt.aborted /\ rt'.cancelled = rt.cancelled
        /\ rt.active /\ rt.bound /\ lock'.step = "free" /\ lock'.run = NoRun
      BY <1>36 DEF TransitionOk, TransitionFails, Runtime, Free
  <2>2. UNCHANGED <<done, adapter, want, retrying, lease, guard, reg, recovered>>
      BY <1>36 DEF TransitionOk, TransitionFails
  <2>3. \A r \in Run : \/ status'[r] = status[r]
                       \/ {status[r], status'[r]} \subseteq {"running", "waiting", "cancelling"}
      BY <1>36 DEF TransitionOk, TransitionFails, Before, After
  <2>4. lock.step \in {"wait", "resume"} /\ lock.run = rt.run
      BY <1>36 DEF TransitionOk, TransitionFails
  <2> QED
      BY <2>1, <2>2, <2>3, <2>4 DEF Outcome
<1> QED
    BY <1>1, <1>2, <1>3, <1>4, <1>5, <1>6, <1>7, <1>8, <1>9, <1>10, <1>12, <1>13, <1>14, <1>15, <1>16, <1>18, <1>19, <1>20, <1>21, <1>22, <1>23, <1>24, <1>25, <1>26, <1>27, <1>28, <1>29, <1>30, <1>31, <1>32, <1>33, <1>34, <1>35, <1>36 DEF Next

-----------------------------------------------------------------------------
\* A run's row is terminalized once: neither a retry, a shutdown, a late adapter nor
\* the recovery of another process changes its outcome (allowedRunPredecessors).
TerminalIsFinal == [][\A r \in Run : Terminal(r) => status'[r] = status[r]]_vars

\* A row that is terminal changes no more: each write either finds it running or
\* repeats the status it has.
LEMMA FinalStep == IInv /\ [Next]_vars => \A r \in Run : Terminal(r) => status'[r] = status[r]
<1> SUFFICES ASSUME IInv, [Next]_vars, NEW s \in Run, Terminal(s) PROVE status'[s] = status[s]
    OBVIOUS
<1>0. /\ TypeOK /\ status[s] \in Outcome
      /\ \A r \in Run : adapter[r] = "creating" => status[r] = "absent"
      /\ rt.active => rt.run \in Run
    BY DEF IInv, Rests, RunInv, TypeOK, Runtime, Terminal
<1> USE <1>0, LockFree DEF TypeOK, NonTerminal, Underway, MayCancel, Outcome
<1>1. ASSUME NEW r \in Run, Create(r) \/ Recover(r) PROVE status'[s] = status[s]
    BY <1>1 DEF Create, Recover
<1>2. CASE MarkOk
    BY <1>2 DEF MarkOk, Locked, Free
<1>3. CASE CommitOk
    BY <1>3 DEF CommitOk, MayCommit, MayBecome, Locked, Free
<1>4. CASE CancelDurable \/ ShutdownLoop
    BY <1>4 DEF CancelDurable, ShutdownLoop
<1>5. CASE UNCHANGED status
    BY <1>5
<1>7. CASE TransitionOk \/ TransitionFails
    BY <1>7 DEF TransitionOk, TransitionFails
<1>6. UNCHANGED status \/ (\E r \in Run : Create(r) \/ Recover(r)) \/ MarkOk \/ CommitOk
      \/ CancelDurable \/ ShutdownLoop \/ TransitionOk \/ TransitionFails
  <2>1. \A r \in Run : Select("adapter", r, want[r]) \/ Select("retry", r, rt.selected) => UNCHANGED status
      BY DEF Select, durable_vars
  <2> HIDE <1>0
  <2> QED
      BY <2>1 DEF Next, vars, durable_vars, Admit, Begin, Watch, CreateFails, Register, SetAgent,
         WaitFor, Resume, AgentEnds, ReleaseGuard, FinishDurable, RetryTurn, Deadline, RetryStops, WatcherWakes,
         WatcherCancels, WatcherRetires, HeartbeatLost, Adopt, AttemptFails, Retire, Unregister,
         CloseDone, Cancel, ShutdownLoopless, TakeOver, OtherReleases
<1> QED
    BY <1>1, <1>2, <1>3, <1>4, <1>5, <1>6, <1>7

-----------------------------------------------------------------------------
\* The invariant holds in every reachable state, however finishers, cancellers,
\* watchers and the other process interleave.
THEOREM Invariance == Spec => []IInv
<1>1. Init => IInv
    BY InitInv
<1>2. IInv /\ [Next]_vars => IInv'
    BY TypeStep, RestsStep DEF IInv
<1> QED
    BY <1>1, <1>2, PTL DEF Spec

\* Every variable keeps its type: in particular a terminal transition is always of a
\* run, for an outcome.
THEOREM TypeCorrect == Spec => []TypeOK
<1>1. IInv => TypeOK
    BY DEF IInv
<1> QED
    BY <1>1, Invariance, PTL

\* Competing finishers, retries and shutdown end a run's row with the one outcome that
\* was selected, unless another process recovered it.
THEOREM OneOutcome == Spec => []SelectedOutcomeStands
<1>1. IInv => SelectedOutcomeStands
    BY DEF IInv, Rests, Safe
<1> QED
    BY <1>1, Invariance, PTL

\* The release of the adapter's guard does not give up the lease of a run whose
\* terminal write is still to come.
THEOREM LeaseKeptWhileRegistered == Spec => []RegisteredKeepsLease
<1>1. IInv => RegisteredKeepsLease
    BY DEF IInv, Rests, Safe
<1> QED
    BY <1>1, Invariance, PTL

\* No path leaves a held lease without a guard or a registered run that releases it.
THEOREM NoLeaseLeaks == Spec => []HeldLeaseHasHolder
<1>1. IInv => HeldLeaseHasHolder
    BY DEF IInv, Rests, Safe
<1> QED
    BY <1>1, Invariance, PTL

\* A cancellation aborts the agent, whether it was bound before or after.
THEOREM CancellationArrives == Spec => []CancelReachesAgent
<1>1. IInv => CancelReachesAgent
    BY DEF IInv, Rests, Safe
<1> QED
    BY <1>1, Invariance, PTL

\* Who waits for a run's completion finds the Runtime free of it, and its lease let go.
THEOREM BarrierAfterRelease == Spec => []CompletionAfterRelease
<1>1. IInv => CompletionAfterRelease
    BY DEF IInv, Rests, Safe
<1> QED
    BY <1>1, Invariance, PTL

\* A terminal row is final, in every step of every actor.
THEOREM TerminalStays == Spec => TerminalIsFinal
<1>1. IInv /\ [Next]_vars => [\A r \in Run : Terminal(r) => status'[r] = status[r]]_vars
    BY FinalStep
<1> QED
    BY <1>1, Invariance, PTL DEF Spec, TerminalIsFinal

-----------------------------------------------------------------------------
(* The Runtime implements the record of the runs. *)

Preparing == {"admitted", "begun", "creating"}

\* While an adapter is about to create its run's row, it alone is admitted, and no
\* row is open.
AloneInv ==
    \A r \in Run :
        /\ adapter[r] \in Preparing => guard = {r} /\ \A s \in Run : ~NonTerminal(s)
        /\ adapter[r] \in {"begun", "creating"} => rt.run = r

\* What every step leaves alone but the five of AloneStep, and what it does to the record.
Steady ==
    /\ guard' = guard /\ rt'.run = rt.run
    /\ \A r \in Run : adapter'[r] = adapter[r] \/ adapter'[r] \notin Preparing
RecordKept == status' = status /\ rt'.run = rt.run /\ rt'.selected = rt.selected
RecordMoves ==
    \/ RecordKept
    \/ \E o \in Outcome : Record!Choose(o)
    \/ Record!Proceed \/ Record!End \/ \E r \in Run : Record!Recover(r)

LEMMA RecordNames ==
    /\ Record!Outcome = Outcome
    /\ \A r \in Run : NonTerminal(r) <=> status[r] \in Record!Open
    /\ \A r \in Run : Underway(r) <=> status[r] \in Record!Underway
    /\ Record!AllClosed <=> \A r \in Run : ~NonTerminal(r)
BY DEF Record!Outcome, Outcome, NonTerminal, Record!Open, Record!Underway, Underway, Record!AllClosed

LEMMA ReportSteady ==
    ASSUME TypeOK, NEW by, NEW r, NEW b, Report(by, r, b)
    PROVE  \A q \in Run : adapter'[q] = adapter[q] \/ adapter'[q] \notin Preparing
BY DEF TypeOK, Report, Preparing

LEMMA SelectMoves ==
    ASSUME IInv, NEW by, NEW r \in Run, NEW o \in Outcome, Select(by, r, o)
    PROVE  Steady /\ RecordMoves
<1>1. rt \in Runtime /\ rt.run = r /\ rt.selected \in {NoOutcome, o}
    BY DEF IInv, TypeOK, Select, Selectable, Active
<1>2. rt' = [rt EXCEPT !.selected = o, !.terminalizing = TRUE]
    BY DEF Select
<1>3. rt'.run = rt.run /\ rt'.selected = o
    BY <1>1, <1>2 DEF Runtime
<1>4. UNCHANGED <<guard, adapter, status>>
    BY DEF Select, lease_vars, durable_vars
<1>5. CASE rt.selected = o
    BY <1>3, <1>4, <1>5 DEF Steady, RecordMoves, RecordKept
<1>6. CASE rt.selected = NoOutcome
    BY <1>1, <1>3, <1>4, <1>6 DEF Steady, RecordMoves, Record!Choose, NoOutcome
<1> QED
    BY <1>1, <1>5, <1>6

\* A write that moves the row of the run that is owned.
LEMMA Proceeds ==
    ASSUME IInv, NEW r \in Run, rt.run = r, NEW s,
           \/ Underway(r) /\ s \in {"running", "waiting", "cancelling"}
           \/ MayCancel(r) /\ s = "cancelling"
           \/ NonTerminal(r) /\ s = "terminalizing",
           status' = [status EXCEPT ![r] = s], rt'.run = rt.run, rt'.selected = rt.selected
    PROVE  RecordMoves
<1>1. status[r] \in Record!Open /\ s \in Record!Onward(status[r])
    <2>1. CASE status[r] \in Record!Underway
        BY <2>1 DEF Record!Onward, Record!Open, Record!Underway, Underway, MayCancel, NonTerminal
    <2>2. CASE status[r] = "cancelling"
        BY <2>2 DEF Record!Onward, Record!Open, Record!Underway, Underway, MayCancel, NonTerminal
    <2>3. CASE status[r] = "terminalizing"
        BY <2>3 DEF Record!Onward, Record!Open, Record!Underway, Underway, MayCancel, NonTerminal
    <2> QED
        BY <2>1, <2>2, <2>3 DEF Record!Underway, Underway, MayCancel, NonTerminal
<1> QED
    BY <1>1 DEF RecordMoves, Record!Proceed

LEMMA StepKinds ==
    ASSUME IInv, [Next]_vars
    PROVE  \/ \E r \in Run : Admit(r) \/ Begin(r) \/ Watch(r) \/ Create(r) \/ ReleaseGuard(r)
           \/ Steady /\ RecordMoves
<1>0. /\ rt \in Runtime /\ TypeOK /\ RunInv /\ LockInv
      /\ rt.active => rt.run \in Run
    BY DEF IInv, Rests, RunInv, TypeOK, Runtime
<1> USE DEF lock_vars, lease_vars, durable_vars
<1>1. CASE UNCHANGED vars
    BY <1>1 DEF vars, Steady, RecordMoves, RecordKept
<1>2. ASSUME NEW r \in Run, CreateFails(r) \/ Register(r) \/ SetAgent(r) \/ AgentEnds(r)
      PROVE  Steady /\ RecordMoves
  <2>1. rt'.run = rt.run /\ rt'.selected = rt.selected
      BY <1>0, <1>2 DEF CreateFails, Register, SetAgent, AgentEnds, Runtime
  <2>2. \E x \in {"ended", "failing", "registered", "running", "finishing"} :
            adapter' = [adapter EXCEPT ![r] = x]
      BY <1>2 DEF CreateFails, Register, SetAgent, AgentEnds
  <2>3. UNCHANGED <<guard, status>>
      BY <1>2 DEF CreateFails, Register, SetAgent, AgentEnds
  <2> QED
      BY <1>0, <2>1, <2>2, <2>3 DEF Steady, RecordMoves, RecordKept, Preparing, TypeOK
<1>3. ASSUME NEW r \in Run, WaitFor(r) \/ Resume(r) PROVE Steady /\ RecordMoves
  <2>1. rt'.run = rt.run /\ rt'.selected = rt.selected
      BY <1>0, <1>3 DEF WaitFor, Resume, Runtime
  <2> QED
      BY <1>3, <2>1 DEF WaitFor, Resume, Steady, RecordMoves, RecordKept
<1>4. ASSUME NEW r \in Run, FinishDurable(r) PROVE Steady /\ RecordMoves
  <2>1. CASE Select("adapter", r, want[r])
      BY <1>0, <1>4, <2>1, SelectMoves DEF FinishDurable, RunInv
  <2>2. CASE ~Select("adapter", r, want[r])
    <3>1. rt'.run = rt.run /\ rt'.selected = rt.selected
        BY <1>0, <1>4, <2>2, CancelledEffect DEF FinishDurable
    <3>2. adapter' = [adapter EXCEPT ![r] = "ended"] /\ UNCHANGED <<guard, status>>
        BY <1>4, <2>2 DEF FinishDurable
    <3> QED
        BY <1>0, <3>1, <3>2 DEF Steady, RecordMoves, RecordKept, Preparing, TypeOK
  <2> QED
      BY <2>1, <2>2
<1>5. ASSUME NEW r \in Run, RetryTurn(r) PROVE Steady /\ RecordMoves
  <2>1. rt.selected \in Outcome
      BY <1>0, <1>5 DEF RetryTurn, RunInv, Runtime
  <2> QED
      BY <1>5, <2>1, SelectMoves DEF RetryTurn
<1>6. ASSUME NEW r \in Run, Deadline(r) \/ RetryStops(r) PROVE Steady /\ RecordMoves
  <2>1. rt'.run = rt.run /\ rt'.selected = rt.selected
      BY <1>0, <1>6 DEF Deadline, StartRetry, RetryStops, Runtime
  <2>2. adapter' = adapter \/ adapter' = [adapter EXCEPT ![r] = "ended"]
      BY <1>6 DEF Deadline, RetryStops
  <2>3. UNCHANGED <<guard, status>>
      BY <1>6 DEF Deadline, RetryStops
  <2> QED
      BY <1>0, <2>1, <2>2, <2>3 DEF Steady, RecordMoves, RecordKept, Preparing, TypeOK
<1>7. ASSUME NEW r \in Run,
             WatcherWakes(r) \/ WatcherCancels(r) \/ WatcherRetires(r) \/ HeartbeatLost(r)
      PROVE  Steady /\ RecordMoves
  <2>1. rt'.run = rt.run /\ rt'.selected = rt.selected
      BY <1>0, <1>7, CancelledEffect DEF WatcherWakes, WatcherCancels, WatcherRetires, HeartbeatLost,
         Runtime
  <2>2. UNCHANGED <<adapter, guard, status>>
      BY <1>7 DEF WatcherWakes, WatcherCancels, WatcherRetires, HeartbeatLost
  <2> QED
      BY <2>1, <2>2 DEF Steady, RecordMoves, RecordKept
<1>8. ASSUME NEW r \in Run, Recover(r) PROVE Steady /\ RecordMoves
    BY <1>8, RecordNames DEF Recover, Steady, RecordMoves, Record!Recover
<1>9. CASE TransitionOk \/ TransitionFails
  <2>1. rt'.run = rt.run /\ rt'.selected = rt.selected
      BY <1>0, <1>9 DEF TransitionOk, TransitionFails, Runtime
  <2>2. UNCHANGED <<adapter, guard>>
      BY <1>9 DEF TransitionOk, TransitionFails
  <2>3. lock.run = rt.run /\ rt.run \in Run
      BY <1>0, <1>9 DEF TransitionOk, TransitionFails, LockInv
  <2>4. \/ status' = status
        \/ /\ Underway(lock.run)
           /\ \E s \in {"running", "waiting", "cancelling"} : status' = [status EXCEPT ![lock.run] = s]
      BY <1>9 DEF TransitionOk, TransitionFails, Before, After
  <2>5. RecordMoves
      BY <2>1, <2>3, <2>4, Proceeds DEF RecordMoves, RecordKept
  <2> QED
      BY <2>1, <2>2, <2>5 DEF Steady
<1>10. CASE MarkOk
  <2>1. rt'.run = rt.run /\ rt'.selected = rt.selected
      BY <1>0, <1>10 DEF MarkOk, Runtime
  <2>2. lock.run = rt.run /\ rt.run \in Run
      BY <1>0, <1>10 DEF MarkOk, LockInv
  <2>3. RecordMoves
      BY <1>10, <2>1, <2>2, Proceeds DEF MarkOk
  <2> QED
      BY <1>10, <2>1, <2>3 DEF MarkOk, Steady
<1>11. CASE CommitOk
  <2>1. rt'.run = rt.run /\ rt'.selected = rt.selected
      BY <1>0, <1>11 DEF CommitOk, Runtime
  <2>2. lock.run = rt.run /\ rt.run \in Run /\ lock.outcome = rt.selected
      BY <1>0, <1>11 DEF CommitOk, LockInv
  <2>3. lock.outcome \in Outcome
      BY <1>0, <1>11 DEF CommitOk, TypeOK, Locked, Free
  <2>4. status' = [status EXCEPT ![rt.run] = rt.selected]
      BY <1>11, <2>2 DEF CommitOk
  <2>5. NonTerminal(rt.run) => RecordMoves
      BY <2>1, <2>2, <2>3, <2>4, RecordNames DEF RecordMoves, Record!End
  <2>6. status[rt.run] = rt.selected => RecordMoves
      BY <1>0, <2>1, <2>2, <2>4 DEF RecordMoves, RecordKept, TypeOK
  <2>7. RecordMoves
      BY <1>11, <2>2, <2>5, <2>6 DEF CommitOk, MayCommit, MayBecome
  <2> QED
      BY <1>11, <2>1, <2>7 DEF CommitOk, Steady
<1>12. CASE AttemptFails
  <2>1. rt'.run = rt.run /\ rt'.selected = rt.selected
    <3>1. PICK t \in BOOLEAN : t = (lock.by = "retry" => Fenced)
        OBVIOUS
    <3>2. PICK u \in BOOLEAN : u = (lock.by = "adapter" /\ adapter[lock.run] = "failing")
        OBVIOUS
    <3>3. rt' = FailedAttempt(t, u)
        BY <1>12, <3>1, <3>2 DEF AttemptFails, FailedAttempt
    <3> QED
        BY <1>0, <3>3, FailedAttemptType
  <2>2. Report(lock.by, lock.run, Fenced) /\ UNCHANGED <<guard, status>>
      BY <1>12 DEF AttemptFails
  <2> QED
      BY <1>0, <2>1, <2>2, ReportSteady DEF Steady, RecordMoves, RecordKept
<1>13. CASE Adopt \/ Retire \/ Unregister
  <2>1. rt'.run = rt.run /\ rt'.selected = rt.selected
      BY <1>0, <1>13 DEF Adopt, Retire, Unregister, Runtime
  <2> QED
      BY <1>13, <2>1 DEF Adopt, Retire, Unregister, Steady, RecordMoves, RecordKept
<1>14. CASE CloseDone
  <2>1. rt'.run = rt.run /\ rt'.selected = rt.selected
      BY <1>0, <1>14 DEF CloseDone, Runtime
  <2>2. Report(lock.by, lock.run, FALSE) /\ UNCHANGED <<guard, status>>
      BY <1>14 DEF CloseDone
  <2> QED
      BY <1>0, <2>1, <2>2, ReportSteady DEF Steady, RecordMoves, RecordKept
<1>15. CASE Cancel \/ CancelDurable \/ ShutdownLoop
  <2>1. rt.active /\ rt.run \in Run /\ UNCHANGED <<adapter, guard>>
      BY <1>0, <1>15 DEF Cancel, CancelDurable, ShutdownLoop
  <2>2. rt' = Cancelled \/ \E v : rt' = [Cancelled EXCEPT !.retry = v]
      BY <1>15 DEF Cancel, CancelDurable, ShutdownLoop
  <2>3. rt'.run = rt.run /\ rt'.selected = rt.selected
      BY <1>0, <2>2, CancelledEffect, RetriedEffect
  <2>4. \/ status' = status
        \/ MayCancel(rt.run) /\ status' = [status EXCEPT ![rt.run] = "cancelling"]
      BY <1>15 DEF Cancel, CancelDurable, ShutdownLoop
  <2>5. RecordMoves
      BY <2>1, <2>3, <2>4, Proceeds DEF RecordMoves, RecordKept
  <2> QED
      BY <2>1, <2>3, <2>5 DEF Steady
<1>16. CASE ShutdownLoopless
  <2>1. rt.active /\ rt.run \in Run /\ UNCHANGED <<adapter, guard, status>>
      BY <1>0, <1>16 DEF ShutdownLoopless
  <2>2. /\ rt'.run = rt.run
        /\ \/ rt'.selected = rt.selected
           \/ rt.selected = NoOutcome /\ rt'.selected = "cancelled"
      BY <1>0, <1>16 DEF ShutdownLoopless, Runtime
  <2>3. RecordMoves
      BY <2>1, <2>2 DEF RecordMoves, RecordKept, Record!Choose, NoOutcome, Outcome
  <2> QED
      BY <2>1, <2>2, <2>3 DEF Steady
<1>17. CASE TakeOver \/ OtherReleases
    BY <1>17 DEF TakeOver, OtherReleases, Steady, RecordMoves, RecordKept
<1> QED
    BY <1>1, <1>2, <1>3, <1>4, <1>5, <1>6, <1>7, <1>8, <1>9, <1>10, <1>11, <1>12, <1>13, <1>14,
       <1>15, <1>16, <1>17 DEF Next

\* Only Create opens a row.
LEMMA MovesOpenNone ==
    ASSUME IInv, RecordMoves, NEW s \in Run, NonTerminal(s)'
    PROVE  NonTerminal(s)
<1>0. status \in [Run -> {"absent", "running", "waiting", "cancelling", "terminalizing"} \cup Outcome]
    BY DEF IInv, TypeOK
<1>1. CASE status'[s] = status[s]
    BY <1>1 DEF NonTerminal
<1>2. CASE status'[s] # status[s]
    <2>1. status[s] \in Record!Open
        BY <1>0, <1>2 DEF RecordMoves, RecordKept, Record!Choose, Record!Proceed, Record!End,
           Record!Recover
    <2> QED
        BY <2>1, RecordNames
<1> QED
    BY <1>1, <1>2

LEMMA AloneStep ==
    ASSUME IInv, AloneInv, [Next]_vars
    PROVE  AloneInv'
<1>0. TypeOK
    BY DEF IInv
<1>1. ASSUME NEW r \in Run, Admit(r) PROVE AloneInv'
    BY <1>0, <1>1 DEF Admit, AloneInv, Preparing, TypeOK, lock_vars, NonTerminal, durable_vars
<1>2. ASSUME NEW r \in Run, Begin(r) PROVE AloneInv'
    <2>1. guard = {r} /\ \A s \in Run : ~NonTerminal(s)
        BY <1>2 DEF Begin, AloneInv, Preparing
    <2>2. \A q \in Run : q # r => adapter'[q] = adapter[q] /\ adapter[q] \notin Preparing
        BY <1>0, <1>2, <2>1 DEF Begin, AloneInv, TypeOK
    <2>3. adapter'[r] = "ended" \/ rt'.run = r
        BY <1>0, <1>2 DEF Begin, TypeOK, Fresh
    <2>4. UNCHANGED <<guard, status>>
        BY <1>2 DEF Begin, lease_vars, durable_vars
    <2> QED
        BY <2>1, <2>2, <2>3, <2>4 DEF AloneInv, Preparing, NonTerminal
<1>3. ASSUME NEW r \in Run, Watch(r) PROVE AloneInv'
    <2>1. rt'.run = rt.run
        BY <1>0, <1>3 DEF Watch, TypeOK, Runtime
    <2>2. adapter[r] = "begun" /\ adapter' = [adapter EXCEPT ![r] = "creating"]
          /\ UNCHANGED <<guard, status>>
        BY <1>3 DEF Watch, lease_vars, durable_vars
    <2> QED
        BY <1>0, <2>1, <2>2 DEF AloneInv, Preparing, NonTerminal, TypeOK
<1>4. ASSUME NEW r \in Run, Create(r) PROVE AloneInv'
    <2>1. guard = {r}
        BY <1>4 DEF Create, AloneInv, Preparing
    <2>2. \A q \in Run : adapter'[q] \notin Preparing
        BY <1>0, <1>4, <2>1 DEF Create, AloneInv, TypeOK, Preparing
    <2> QED
        BY <2>2 DEF AloneInv, Preparing
<1>5. ASSUME NEW r \in Run, ReleaseGuard(r) PROVE AloneInv'
    <2>1. r \in guard /\ adapter[r] = "ended" /\ adapter' = [adapter EXCEPT ![r] = "gone"]
        BY <1>5 DEF ReleaseGuard
    <2>2. \A q \in Run : adapter'[q] \notin Preparing
        BY <1>0, <2>1 DEF AloneInv, TypeOK, Preparing
    <2> QED
        BY <2>2 DEF AloneInv, Preparing
<1>6. CASE Steady /\ RecordMoves
    <2>1. \A s \in Run : ~NonTerminal(s) => ~NonTerminal(s)'
        BY <1>6, MovesOpenNone
    <2> QED
        BY <1>6, <2>1 DEF Steady, AloneInv, Preparing
<1> QED
    BY <1>1, <1>2, <1>3, <1>4, <1>5, <1>6, StepKinds

LEMMA RecordStep ==
    ASSUME IInv, AloneInv, [Next]_vars
    PROVE  [Record!Next]_(Record!vars)
<1>0. TypeOK /\ RunInv
    BY DEF IInv, Rests
<1>1. ASSUME NEW r \in Run, Begin(r) PROVE [Record!Next]_(Record!vars)
    <2>1. status' = status
        BY <1>1 DEF Begin, durable_vars
    <2>2. CASE rt.active
        BY <1>1, <2>1, <2>2 DEF Begin, Record!vars
    <2>3. CASE ~rt.active
        <3>1. rt'.run = r /\ rt'.selected = "none"
            BY <1>1, <2>3 DEF Begin, Fresh, NoOutcome
        <3>2. status[r] = "absent" /\ \A s \in Run : ~NonTerminal(s)
            BY <1>0, <1>1 DEF Begin, RunInv, AloneInv, Preparing
        <3> QED
            BY <2>1, <3>1, <3>2, RecordNames DEF Record!Next, Record!Own
    <2> QED
        BY <2>2, <2>3
<1>2. ASSUME NEW r \in Run, Create(r) PROVE [Record!Next]_(Record!vars)
    <2>1. rt.run = r /\ status[r] = "absent" /\ \A s \in Run : ~NonTerminal(s)
        BY <1>0, <1>2 DEF Create, RunInv, AloneInv, Preparing
    <2>2. rt' = rt /\ status' = [status EXCEPT ![r] = "running"]
        BY <1>2 DEF Create, lock_vars
    <2> QED
        BY <2>1, <2>2, RecordNames DEF Record!Next, Record!Start
<1>3. ASSUME NEW r \in Run, Admit(r) \/ Watch(r) \/ ReleaseGuard(r)
      PROVE  [Record!Next]_(Record!vars)
    <2>1. rt'.run = rt.run /\ rt'.selected = rt.selected
        BY <1>0, <1>3 DEF Admit, Watch, ReleaseGuard, lock_vars, TypeOK, Runtime
    <2>2. status' = status
        BY <1>3 DEF Admit, Watch, ReleaseGuard, durable_vars
    <2> QED
        BY <2>1, <2>2 DEF Record!vars
<1>4. CASE RecordMoves
    BY <1>4, RecordNames DEF RecordMoves, RecordKept, Record!Next, Record!vars
<1> QED
    BY <1>1, <1>2, <1>3, <1>4, StepKinds

\* The Runtime implements the record of the runs: one run is open at a time, its row
\* only moves forward, and it is ended once, with the outcome that was selected first or
\* by a recovery, however the Runtime's goroutines and another process interleave.
THEOREM Refinement == Spec => ImplementsRecord
<1>1. Init => AloneInv
    BY DEF Init, AloneInv, Preparing
<1>2. IInv /\ AloneInv /\ [Next]_vars => AloneInv'
    BY AloneStep
<1>3. Init => Record!Init
    BY DEF Init, Record!Init, Fresh, NoOutcome
<1>4. IInv /\ AloneInv /\ [Next]_vars => [Record!Next]_(Record!vars)
    BY RecordStep
<1> QED
    BY Invariance, <1>1, <1>2, <1>3, <1>4, PTL DEF Spec, ImplementsRecord, Record!Spec
=============================================================================
