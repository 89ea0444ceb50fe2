-------------------------------- MODULE Cron --------------------------------
(***************************************************************************)
(* internal/cron: the schedulers of several processes over one row of the   *)
(* table cron_jobs.  A scheduler claims a due job with one conditional      *)
(* UPDATE; everything else (RunNow, the tools and commands that manage      *)
(* jobs, the completion of an execution) reads the row and later writes all *)
(* of it back.                                                              *)
(*                                                                          *)
(* Jobs do not interact, so one is enough.  Time is what the code compares: *)
(* whether the next run is due, and whether a claim is a day old            *)
(* (runningLeaseTimeout).  What an execution does is its own; a bound       *)
(* session's admission and lease are those of Submission and SessionLease.  *)
(***************************************************************************)
EXTENDS Naturals

CONSTANTS Sched,         \* the processes that run a Scheduler
          Exec, NoExec,  \* goroutines of executeJobContext: a bound on those alive at once
          MaxCalls       \* bound on the calls of RunNow and of the management surfaces

ASSUME CronAssumption == NoExec \notin Exec /\ MaxCalls \in Nat

Job == [here : BOOLEAN,       \* not deleted
        enabled : BOOLEAN,
        oneshot : BOOLEAN,    \* its own flag, or a schedule that has no next run
        status : {"none", "running", "over"},
        last : {"never", "recent", "old"},   \* last_run; old is a day ago or more
        next : {"none", "later", "due"}]     \* next_run

VARIABLES
    row,      \* the row of cron_jobs
    loop,     \* per process, its scheduler: off, on, or being stopped
    tick,     \* per process, whether its tick listed the job and is about to claim it
    manual,   \* per process, its RunNow and the row it has read
    exec,     \* per goroutine, how far it is, whose it is, the row it writes back
    user,     \* a management call and the row it writes back
    standing, \* the execution whose claim the row's "running" stands for
    lost,     \* executions whose claim lapsed or was written over
    calls     \* how often somebody called

call_vars == <<user, calls>>
claim_vars == <<standing, lost>>
vars == <<row, loop, tick, manual, exec, call_vars, claim_vars>>

Live(e) == exec[e].pc # "free"
Idle(j) == [pc |-> "idle", job |-> j]
Dead(j) == [pc |-> "free", by |-> "nobody", job |-> j]

\* The job that a buffer holds that is not in use.
Blank == [here |-> FALSE, enabled |-> FALSE, oneshot |-> FALSE,
          status |-> "none", last |-> "never", next |-> "none"]

\* A job as executeCreate and the other management calls leave it.
Created == {j \in Job : /\ j.here /\ j.status = "none" /\ j.last = "never"
                        /\ j.next = IF j.oneshot THEN "none" ELSE "later"}

Init ==
    /\ row \in Created
    /\ loop = [p \in Sched |-> "off"]
    /\ tick = [p \in Sched |-> FALSE]
    /\ manual = [p \in Sched |-> Idle(Blank)]
    /\ exec = [e \in Exec |-> Dead(Blank)]
    /\ user = Idle(Blank)
    /\ standing = NoExec /\ lost = {} /\ calls = 0

-----------------------------------------------------------------------------
(* What a job's row says, and the two ways to change it. *)

\* Mutant of Stale: the zero time is compared, not the one that is a day ago.
StaleIfNever(j) == j.status = "running" /\ j.last = "never"

\* isStaleRunning: the claim has outlived its lease.
Stale(j) == j.status = "running" /\ j.last = "old"

\* isDue: next_run decides, if there is one.
IsDue(j) == IF j.next # "none" THEN j.next = "due" ELSE j.last = "never"

\* What checkAndRun tries to claim.
Worth(j) == j.enabled /\ (j.status = "running" => Stale(j)) /\ (Stale(j) \/ IsDue(j))

\* Mutant of Claimable: the row is claimed as it was listed.
ClaimableAsListed(j) == j.here /\ j.enabled

\* The WHERE of CronDAO.ClaimDue.
Claimable(j) == /\ j.here /\ j.enabled
                /\ Stale(j) \/ (j.status # "running" /\ IsDue(j))

\* ClaimDue, and the goroutine that executes what was claimed; which one is of no
\* consequence.
Claim(p) ==
    IF Claimable(row)
    THEN LET e == CHOOSE f \in Exec : ~Live(f) IN
            /\ \E f \in Exec : ~Live(f)
            /\ row' = [row EXCEPT !.status = "running", !.last = "recent"]
            /\ exec' = [exec EXCEPT ![e] = [pc |-> "claimed", by |-> p, job |-> Blank]]
            /\ standing' = e
            /\ lost' = IF Stale(row) /\ standing # NoExec THEN lost \cup {standing} ELSE lost
    ELSE UNCHANGED <<row, exec, claim_vars>>

\* CronDAO.Update writes every column, unless the row is gone.  The claim that stood
\* there is written over with it.
Write(j, by) ==
    IF row.here
    THEN /\ row' = j
         /\ standing' = IF j.status = "running" /\ standing # by THEN standing ELSE NoExec
         /\ lost' = IF j.status = "running" \/ standing \in {NoExec, by} THEN lost \ {by}
                    ELSE (lost \cup {standing}) \ {by}
    ELSE /\ standing' = IF standing = by THEN NoExec ELSE standing
         /\ lost' = lost \ {by} /\ UNCHANGED row

-----------------------------------------------------------------------------
(* The scheduler of a process. *)

Start(p) ==
    /\ loop[p] = "off" /\ loop' = [loop EXCEPT ![p] = "on"]
    /\ UNCHANGED <<row, tick, manual, exec, call_vars, claim_vars>>

\* checkAndRun lists the jobs.  A loop that is being stopped may take one more tick.
TickLists(p) ==
    /\ loop[p] # "off" /\ ~tick[p] /\ row.here /\ Worth(row)
    /\ tick' = [tick EXCEPT ![p] = TRUE]
    /\ UNCHANGED <<row, loop, manual, exec, call_vars, claim_vars>>

\* It claims what it listed, if the row still is as the claim wants it.
TickClaims(p) ==
    /\ tick[p] /\ tick' = [tick EXCEPT ![p] = FALSE]
    /\ Claim(p)
    /\ UNCHANGED <<loop, manual, call_vars>>

\* Stop: the context of the executions is cancelled, and they are waited for.
Stop(p) ==
    /\ loop[p] = "on" /\ loop' = [loop EXCEPT ![p] = "stopping"]
    /\ UNCHANGED <<row, tick, manual, exec, call_vars, claim_vars>>

StopReturns(p) ==
    /\ loop[p] = "stopping" /\ ~tick[p]
    /\ \A e \in Exec : Live(e) => exec[e].by # p
    /\ loop' = [loop EXCEPT ![p] = "off"]
    /\ UNCHANGED <<row, tick, manual, exec, call_vars, claim_vars>>

\* The process dies with everything it was doing.
Crash(p) ==
    LET killed == {e \in Exec : Live(e) /\ exec[e].by = p} IN
    /\ loop[p] # "off" \/ manual[p].pc # "idle" \/ killed # {}
    /\ loop' = [loop EXCEPT ![p] = "off"] /\ tick' = [tick EXCEPT ![p] = FALSE]
    /\ manual' = [manual EXCEPT ![p] = Idle(Blank)]
    /\ exec' = [e \in Exec |-> IF e \in killed THEN Dead(Blank) ELSE exec[e]]
    /\ standing' = IF standing \in killed THEN NoExec ELSE standing
    /\ lost' = lost \ killed
    /\ UNCHANGED <<row, call_vars>>

-----------------------------------------------------------------------------
(* RunNow, the manual execution. *)

\* What a manual run turns the row it read into: enabled, and due at once.
Triggered(j) == [j EXCEPT !.enabled = TRUE, !.status = "none", !.last = "never",
                          !.next = "none"]

\* A job that is running is refused, unless its claim is stale.
ManualReads(p) ==
    /\ manual[p].pc = "idle"
    /\ row.here /\ (row.status = "running" => Stale(row))
    /\ manual' = [manual EXCEPT ![p] = [pc |-> "read", job |-> Triggered(row)]]
    /\ calls < MaxCalls /\ calls' = calls + 1
    /\ UNCHANGED <<row, loop, tick, exec, user, claim_vars>>

\* The row is written back, whatever it has become.
ManualWrites(p) ==
    /\ manual[p].pc = "read"
    /\ manual' = [manual EXCEPT ![p] = IF row.here THEN [pc |-> "written", job |-> Blank]
                                       ELSE Idle(Blank)]
    /\ Write(manual[p].job, NoExec)
    /\ UNCHANGED <<loop, tick, exec, call_vars>>

ManualClaims(p) ==
    /\ manual[p].pc = "written" /\ manual' = [manual EXCEPT ![p] = Idle(Blank)]
    /\ Claim(p)
    /\ UNCHANGED <<loop, tick, call_vars>>

-----------------------------------------------------------------------------
(* An execution: executeJobContext. *)

\* The goroutine returns; a claim it still holds is not given back.
Gone(e) ==
    /\ exec' = [exec EXCEPT ![e] = Dead(Blank)]
    /\ standing' = IF standing = e THEN NoExec ELSE standing
    /\ lost' = lost \ {e}

\* A job that is bound to a session waits for its admission.
Admitted(e) ==
    /\ exec[e].pc = "claimed" /\ exec' = [exec EXCEPT ![e].pc = "working"]
    /\ UNCHANGED <<row, loop, tick, manual, call_vars, claim_vars>>

\* It is refused, or the scheduler is stopped meanwhile: the row keeps its "running".
AdmissionFails(e) ==
    /\ exec[e].pc = "claimed" /\ Gone(e)
    /\ UNCHANGED <<row, loop, tick, manual, call_vars>>

\* completeJob: the row of a job that was executed, and its next run.
Completed(j) == [j EXCEPT !.status = "over",
                          !.enabled = @ /\ ~j.oneshot,
                          !.next = IF j.oneshot THEN "none" ELSE "later"]

\* The agent, the handler or the remote server is through, one way or the other, and
\* updateJob reads the row; if it is gone, or the database fails, that is all.
CompletionReads(e) ==
    /\ exec[e].pc = "working"
    /\ \/ /\ row.here
          /\ exec' = [exec EXCEPT ![e].pc = "read", ![e].job = Completed(row)]
          /\ UNCHANGED claim_vars
       \/ Gone(e)
    /\ UNCHANGED <<row, loop, tick, manual, call_vars>>

\* It writes the row back; an error is ignored.
CompletionWrites(e) ==
    /\ exec[e].pc = "read"
    /\ \/ /\ Write(exec[e].job, e)
          /\ exec' = [exec EXCEPT ![e] = Dead(Blank)]
       \/ Gone(e) /\ UNCHANGED row
    /\ UNCHANGED <<loop, tick, manual, call_vars>>

-----------------------------------------------------------------------------
(* Management calls. *)

\* executeSetEnabled and the commands enable and disable of the TUI.
SetEnabled(j) == {[j EXCEPT !.enabled = b] : b \in BOOLEAN}

\* normalizeCronJobSchedule: a periodic job's next run is computed anew.
Normalized(j, o) == [j EXCEPT !.oneshot = o, !.next = IF o THEN "none" ELSE "later"]

\* handleCronUpdate, handleManageCronUpdate: any field.
Edited(j) == {Normalized(k, o) : k \in SetEnabled(j), o \in BOOLEAN}

\* executeRun of the tool refuses a job that is running; the TUI's run clears last_run.
ToolRun(j) == IF j.status = "running" THEN {} ELSE {Triggered(j)}
TuiRun(j) == {[j EXCEPT !.last = "never"]}

UserReads ==
    /\ user.pc = "idle" /\ row.here
    /\ \E j \in SetEnabled(row) \cup Edited(row) \cup ToolRun(row) \cup TuiRun(row) :
          user' = [pc |-> "read", job |-> j]
    /\ calls < MaxCalls /\ calls' = calls + 1
    /\ UNCHANGED <<row, loop, tick, manual, exec, claim_vars>>

UserWrites ==
    /\ user.pc = "read" /\ user' = Idle(Blank)
    /\ Write(user.job, NoExec)
    /\ UNCHANGED <<loop, tick, manual, exec, calls>>

UserDeletes ==
    /\ row.here /\ row' = Blank
    /\ calls < MaxCalls /\ calls' = calls + 1
    /\ UNCHANGED <<loop, tick, manual, exec, user, claim_vars>>

-----------------------------------------------------------------------------
(* Time, which every copy of the row keeps up with. *)

Passes(aged(_)) ==
    /\ row' = aged(row) /\ user' = [user EXCEPT !.job = aged(@)]
    /\ manual' = [p \in Sched |-> [manual[p] EXCEPT !.job = aged(@)]]
    /\ exec' = [e \in Exec |-> [exec[e] EXCEPT !.job = aged(@)]]
    /\ UNCHANGED <<loop, tick, calls, claim_vars>>

FallsDue ==
    /\ row.next = "later"
    /\ LET Due(j) == IF j.next = "later" THEN [j EXCEPT !.next = "due"] ELSE j IN Passes(Due)

\* A day passes, but not between a scheduler's look at the clock and its claim.
DayPasses ==
    /\ row.last = "recent"
    /\ \A p \in Sched : ~tick[p] /\ manual[p].pc = "idle"
    /\ LET Old(j) == IF j.last = "recent" THEN [j EXCEPT !.last = "old"] ELSE j IN Passes(Old)

-----------------------------------------------------------------------------
Next ==
    \/ \E p \in Sched :
          \/ Start(p) \/ TickLists(p) \/ TickClaims(p) \/ Stop(p) \/ StopReturns(p) \/ Crash(p)
          \/ ManualReads(p) \/ ManualWrites(p) \/ ManualClaims(p)
    \/ \E e \in Exec :
          \/ Admitted(e) \/ AdmissionFails(e) \/ CompletionReads(e)
          \/ CompletionWrites(e)
    \/ UserReads \/ UserWrites \/ UserDeletes
    \/ FallsDue \/ DayPasses

Spec == Init /\ [][Next]_vars

\* The loop's ticker and the goroutines of a call go on, and so does time.  No execution
\* has to end, no process has to be started, and nobody manages the job.
Fairness ==
    /\ WF_vars(DayPasses)
    /\ \A p \in Sched : /\ WF_vars(TickLists(p)) /\ WF_vars(TickClaims(p))
                        /\ WF_vars(ManualWrites(p)) /\ WF_vars(ManualClaims(p))

FairSpec == Spec /\ Fairness

-----------------------------------------------------------------------------
(* Properties. *)

TypeOK ==
    /\ row \in Job
    /\ loop \in [Sched -> {"off", "on", "stopping"}]
    /\ tick \in [Sched -> BOOLEAN]
    /\ manual \in [Sched -> [pc : {"idle", "read", "written"}, job : Job]]
    /\ exec \in [Exec -> [pc : {"free", "claimed", "working", "read"},
                          by : Sched \cup {"nobody"}, job : Job]]
    /\ user \in [pc : {"idle", "read"}, job : Job]
    /\ standing \in Exec \cup {NoExec} /\ lost \subseteq Exec
    /\ \A e \in lost \cup {standing} : e # NoExec => Live(e)
    /\ calls \in 0 .. MaxCalls

\* "Only the caller that updates a row may execute it, preventing duplicate runs across
\* scheduler instances" (ClaimDue): of the executions of a job that are alive in any
\* process, at most one has a claim that neither is a day old nor was written over.
OneLiveClaim == \A e, f \in Exec : Live(e) /\ Live(f) /\ {e, f} \cap lost = {} => e = f

\* The row is running and no execution is left that this stands for.
Abandoned == /\ row.here /\ row.enabled /\ row.status = "running"
             /\ standing = NoExec /\ row.last # "never"

\* "... while still allowing recovery after a dead process" (runningLeaseTimeout): a claim
\* whose execution is gone, with its process or without an admission, does not stay for
\* ever where a scheduler keeps running, but for one whose last_run the TUI cleared.
AbandonedReclaimed ==
    \A p \in Sched :
        <>[](loop[p] = "on") => (Abandoned ~> ~Abandoned \/ \A e \in Exec : Live(e))
=============================================================================
