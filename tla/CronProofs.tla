----------------------------- MODULE CronProofs -----------------------------
(***************************************************************************)
(* Proofs about Cron, for any number of processes, executions and calls:    *)
(* the type invariant, and that at most one claim stands at a time.         *)
(***************************************************************************)
EXTENDS Cron, TLAPS

USE CronAssumption

Statuses == {"none", "running", "over"}
Lasts == {"never", "recent", "old"}
Nexts == {"none", "later", "due"}

Execution == [pc : {"free", "claimed", "working", "read"}, by : Sched \cup {"nobody"}, job : Job]

-----------------------------------------------------------------------------
(* What the updates of a job give: a job again. *)

LEMMA BlankIsJob == Blank \in Job
BY DEF Blank, Job

LEMMA ClaimedIsJob ==
    ASSUME NEW j \in Job, NEW s \in Statuses, NEW l \in Lasts
    PROVE  [j EXCEPT !.status = s, !.last = l] \in Job
BY DEF Job, Statuses, Lasts

LEMMA EnabledIsJob ==
    ASSUME NEW j \in Job, NEW b \in BOOLEAN
    PROVE  [j EXCEPT !.enabled = b] \in Job /\ [j EXCEPT !.enabled = b].here = j.here
BY DEF Job

LEMMA NextIsJob ==
    ASSUME NEW j \in Job, NEW n \in Nexts
    PROVE  [j EXCEPT !.next = n] \in Job
BY DEF Job, Nexts

LEMMA LastIsJob ==
    ASSUME NEW j \in Job, NEW l \in Lasts
    PROVE  [j EXCEPT !.last = l] \in Job
BY DEF Job, Lasts

LEMMA TriggeredIsJob ==
    ASSUME NEW j \in Job
    PROVE  Triggered(j) \in Job
<1> DEFINE k == [j EXCEPT !.enabled = TRUE]
           m == [k EXCEPT !.status = "none", !.last = "never"]
<1>1. k \in Job
    BY EnabledIsJob
<1> HIDE DEF k
<1>2. m \in Job
    BY <1>1, ClaimedIsJob DEF Statuses, Lasts
<1> HIDE DEF m
<1>3. [m EXCEPT !.next = "none"] \in Job
    BY <1>2, NextIsJob DEF Nexts
<1>4. Triggered(j) = [m EXCEPT !.next = "none"]
    BY DEF Triggered, m, k, Job
<1> QED BY <1>3, <1>4

LEMMA CompletedIsJob ==
    ASSUME NEW j \in Job
    PROVE  Completed(j) \in Job
<1> DEFINE b == j.enabled /\ ~j.oneshot
           n == IF j.oneshot THEN "none" ELSE "later"
           k == [j EXCEPT !.enabled = b]
           m == [k EXCEPT !.status = "over", !.last = j.last]
<1>1. b \in BOOLEAN /\ n \in Nexts /\ j.last \in Lasts
    BY DEF Job, Nexts, Lasts
<1> HIDE DEF b, n
<1>2. k \in Job
    BY <1>1, EnabledIsJob
<1> HIDE DEF k
<1>3. m \in Job
    BY <1>1, <1>2, ClaimedIsJob DEF Statuses
<1> HIDE DEF m
<1>4. [m EXCEPT !.next = n] \in Job
    BY <1>1, <1>3, NextIsJob
<1>5. Completed(j) = [m EXCEPT !.next = n]
    BY DEF Completed, m, k, b, n, Job
<1> QED BY <1>4, <1>5

LEMMA EditedIsJob ==
    ASSUME NEW j \in Job, NEW k \in SetEnabled(j) \cup Edited(j) \cup ToolRun(j) \cup TuiRun(j)
    PROVE  k \in Job
<1>1. CASE k \in SetEnabled(j)
    BY <1>1, EnabledIsJob DEF SetEnabled
<1>2. CASE k \in Edited(j)
    <2>1. PICK i \in SetEnabled(j), o \in BOOLEAN : k = Normalized(i, o)
        BY <1>2 DEF Edited
    <2> DEFINE n == IF o THEN "none" ELSE "later"
    <2>2. i \in Job
        BY <2>1, EnabledIsJob DEF SetEnabled
    <2>3. n \in Nexts
        BY DEF Nexts
    <2> HIDE DEF n
    <2> DEFINE m == [i EXCEPT !.oneshot = o]
    <2>5. m \in Job
        BY <2>2 DEF Job
    <2> HIDE DEF m
    <2>6. [m EXCEPT !.next = n] \in Job
        BY <2>3, <2>5, NextIsJob
    <2>7. k = [m EXCEPT !.next = n]
        BY <2>1, <2>2 DEF m, n, Normalized, Job
    <2> QED BY <2>6, <2>7
<1>3. CASE k \in ToolRun(j)
    BY <1>3, TriggeredIsJob DEF ToolRun
<1>4. CASE k \in TuiRun(j)
    BY <1>4, LastIsJob DEF TuiRun, Lasts
<1> QED BY <1>1, <1>2, <1>3, <1>4

-----------------------------------------------------------------------------
(* The invariant.  A claim that is neither old nor written over is the one the row  *)
(* stands for, and a row that is not running stands for none: so the condition of   *)
(* ClaimDue is what keeps the second claim out.                                     *)

ClaimStands == \A e \in Exec : Live(e) /\ e \notin lost => e = standing
NoneStands == row.here /\ row.status # "running" => standing = NoExec
IInv == TypeOK /\ ClaimStands /\ NoneStands

THEOREM InitInv == Init => IInv
<1> SUFFICES ASSUME Init PROVE IInv
    OBVIOUS
<1>1. row \in Job /\ row.status = "none"
    BY DEF Init, Created
<1>2. manual \in [Sched -> [pc : {"idle", "read", "written"}, job : Job]]
    BY BlankIsJob DEF Init, Idle
<1>3. exec \in [Exec -> [pc : {"free", "claimed", "working", "read"},
                         by : Sched \cup {"nobody"}, job : Job]]
    BY BlankIsJob DEF Init, Dead
<1>4. \A e \in Exec : ~Live(e)
    BY DEF Init, Dead, Live
<1>5. user \in [pc : {"idle", "read"}, job : Job]
    BY BlankIsJob DEF Init, Idle
<1>6. TypeOK
    BY <1>1, <1>2, <1>3, <1>4, <1>5 DEF Init, TypeOK
<1> QED BY <1>1, <1>4, <1>6 DEF Init, IInv, ClaimStands, NoneStands

\* Who is alive after one goroutine moved to pc.
LEMMA ExecMoves ==
    ASSUME exec \in [Exec -> Execution], NEW e \in Exec, NEW x \in Execution,
           exec' = [exec EXCEPT ![e] = x]
    PROVE  /\ exec' \in [Exec -> Execution]
           /\ \A f \in Exec : Live(f)' <=> IF f = e THEN x.pc # "free" ELSE Live(f)
BY DEF Live

\* The goroutine that is over takes its claim with it.
LEMMA GoneKeeps ==
    ASSUME IInv, NEW e \in Exec, Live(e), Gone(e),
           UNCHANGED <<row, loop, tick, manual, call_vars>>
    PROVE  IInv'
<1> DEFINE x == Dead(Blank)
<1>1. x \in Execution /\ x.pc = "free"
    BY BlankIsJob DEF Dead, Execution
<1>2. exec' = [exec EXCEPT ![e] = x]
    BY DEF Gone
<1> HIDE DEF x
<1>3. exec \in [Exec -> Execution]
    BY DEF IInv, TypeOK, Execution
<1>4. /\ exec' \in [Exec -> Execution]
      /\ \A f \in Exec : Live(f)' <=> f # e /\ Live(f)
    BY <1>1, <1>2, <1>3, ExecMoves
<1>5. /\ standing' = IF standing = e THEN NoExec ELSE standing
      /\ lost' = lost \ {e}
    BY DEF Gone
<1>6. \A f \in lost' \cup {standing'} : f # NoExec => Live(f)'
    BY <1>4, <1>5 DEF IInv, TypeOK
<1>7. TypeOK'
    BY <1>4, <1>5, <1>6 DEF IInv, TypeOK, Execution, call_vars
<1>8. ClaimStands'
    BY <1>4, <1>5 DEF IInv, ClaimStands
<1>9. NoneStands'
    BY <1>5 DEF IInv, NoneStands
<1> QED BY <1>7, <1>8, <1>9 DEF IInv

\* A claim: whoever had one was shut out by the row, or has outlived it.
LEMMA ClaimKeeps ==
    ASSUME IInv, NEW p \in Sched, Claim(p),
           loop' \in [Sched -> {"off", "on", "stopping"}], tick' \in [Sched -> BOOLEAN],
           manual' \in [Sched -> [pc : {"idle", "read", "written"}, job : Job]],
           UNCHANGED call_vars
    PROVE  IInv'
<1>1. CASE ~Claimable(row)
    <2>1. UNCHANGED <<row, exec, standing, lost>>
        BY <1>1 DEF Claim, claim_vars
    <2> QED BY <2>1 DEF IInv, TypeOK, ClaimStands, NoneStands, Live, call_vars
<1>2. CASE Claimable(row)
    <2> DEFINE e == CHOOSE f \in Exec : ~Live(f)
               x == [pc |-> "claimed", by |-> p, job |-> Blank]
    <2>1. /\ \E f \in Exec : ~Live(f)
          /\ row' = [row EXCEPT !.status = "running", !.last = "recent"]
          /\ exec' = [exec EXCEPT ![e] = x]
          /\ standing' = e
          /\ lost' = IF Stale(row) /\ standing # NoExec THEN lost \cup {standing} ELSE lost
        BY <1>2 DEF Claim
    <2>2. e \in Exec /\ ~Live(e)
        BY <2>1
    <2> HIDE DEF e
    <2>3. x \in Execution /\ x.pc = "claimed"
        BY BlankIsJob DEF Execution
    <2> HIDE DEF x
    <2>4. exec \in [Exec -> Execution] /\ row \in Job
        BY DEF IInv, TypeOK, Execution
    <2>5. /\ exec' \in [Exec -> Execution]
          /\ \A f \in Exec : Live(f)' <=> f = e \/ Live(f)
        BY <2>1, <2>2, <2>3, <2>4, ExecMoves
    <2>6. row' \in Job
        BY <2>1, <2>4, ClaimedIsJob DEF Statuses, Lasts
    <2>7. row'.status = "running"
        BY <2>1, <2>4 DEF Job
    <2>8. \A f \in lost' \cup {standing'} : f # NoExec => Live(f)'
        BY <2>1, <2>2, <2>5 DEF IInv, TypeOK
    <2>9. TypeOK'
        BY <2>1, <2>2, <2>5, <2>6, <2>8 DEF IInv, TypeOK, Execution, call_vars
    <2>10. ~Stale(row) => standing = NoExec
        BY <1>2 DEF IInv, NoneStands, Claimable
    <2>11. ClaimStands'
        BY <2>1, <2>2, <2>5, <2>10 DEF IInv, ClaimStands
    <2>12. NoneStands'
        BY <2>7 DEF NoneStands
    <2> QED BY <2>9, <2>11, <2>12 DEF IInv
<1> QED BY <1>1, <1>2

\* The row is written over: the claim that stood is void, but for a copy of a running row.
LEMMA WriteKeeps ==
    ASSUME IInv, NEW j \in Job, Write(j, NoExec),
           manual' \in [Sched -> [pc : {"idle", "read", "written"}, job : Job]],
           user' \in [pc : {"idle", "read"}, job : Job],
           UNCHANGED <<loop, tick, exec, calls>>
    PROVE  IInv'
<1>1. row' \in {row, j}
    BY DEF Write
<1>2. \A e \in Exec : Live(e)' <=> Live(e)
    BY DEF Live
<1>3. NoExec \notin lost
    BY DEF IInv, TypeOK
<1>4. standing' \in {standing, NoExec} /\ lost' \subseteq lost \cup {standing}
    BY <1>3 DEF Write
<1>5. NoExec \notin lost'
    BY DEF Write
<1>6. TypeOK'
    BY <1>1, <1>2, <1>4, <1>5 DEF IInv, TypeOK
<1>7. ClaimStands'
    BY <1>2, <1>3 DEF IInv, ClaimStands, Write
<1>8. NoneStands'
    BY DEF IInv, NoneStands, Write
<1> QED BY <1>6, <1>7, <1>8 DEF IInv

\* A completion writes the row and is over.
LEMMA CompletionKeeps ==
    ASSUME IInv, NEW e \in Exec, exec[e].pc = "read", Write(exec[e].job, e),
           exec' = [exec EXCEPT ![e] = Dead(Blank)],
           UNCHANGED <<loop, tick, manual, call_vars>>
    PROVE  IInv'
<1> DEFINE x == Dead(Blank)
           j == exec[e].job
<1>1. x \in Execution /\ x.pc = "free"
    BY BlankIsJob DEF Dead, Execution
<1>2. exec \in [Exec -> Execution]
    BY DEF IInv, TypeOK, Execution
<1>3. exec' = [exec EXCEPT ![e] = x] /\ Write(j, e)
    OBVIOUS
<1>4. j \in Job
    BY <1>2 DEF Execution
<1>5. e # NoExec /\ NoExec \notin lost
    BY DEF IInv, TypeOK
<1> HIDE DEF x, j
<1>6. /\ exec' \in [Exec -> Execution]
      /\ \A f \in Exec : Live(f)' <=> f # e /\ Live(f)
    BY <1>1, <1>2, <1>3, ExecMoves
<1>7. row' \in Job
    BY <1>3, <1>4 DEF Write, IInv, TypeOK
<1>8. /\ standing' \in {standing, NoExec} /\ standing' # e
      /\ lost' \subseteq (lost \cup {standing}) \ {e}
    BY <1>3, <1>5 DEF Write
<1>9. NoExec \notin lost'
    BY <1>3, <1>5 DEF Write
<1>10. \A f \in lost' \cup {standing'} : f # NoExec => Live(f)'
    BY <1>6, <1>8 DEF IInv, TypeOK
<1>11. TypeOK'
    BY <1>6, <1>7, <1>8, <1>9, <1>10 DEF IInv, TypeOK, Execution, call_vars
<1>12. ClaimStands'
    BY <1>3, <1>5, <1>6 DEF IInv, ClaimStands, Write
<1>13. NoneStands'
    BY <1>3, <1>5 DEF IInv, NoneStands, Write
<1> QED BY <1>11, <1>12, <1>13 DEF IInv

\* Time changes no status and ends no execution.
LEMMA TimeKeeps ==
    ASSUME IInv, NEW r \in Job, NEW u \in Job,
           row' = r, r.status = row.status, r.here = row.here,
           user' = [user EXCEPT !.job = u],
           manual' \in [Sched -> [pc : {"idle", "read", "written"}, job : Job]],
           exec' \in [Exec -> Execution],
           \A e \in Exec : exec'[e].pc = exec[e].pc,
           UNCHANGED <<loop, tick, calls, claim_vars>>
    PROVE  IInv'
<1>1. \A e \in Exec : Live(e)' <=> Live(e)
    BY DEF Live
<1>2. user' \in [pc : {"idle", "read"}, job : Job]
    BY DEF IInv, TypeOK
<1>3. TypeOK'
    BY <1>1, <1>2 DEF IInv, TypeOK, Execution, claim_vars
<1>4. ClaimStands' /\ NoneStands'
    BY <1>1 DEF IInv, ClaimStands, NoneStands, claim_vars
<1> QED BY <1>3, <1>4 DEF IInv

-----------------------------------------------------------------------------
(* Every step keeps the invariant. *)

THEOREM StepInv == IInv /\ [Next]_vars => IInv'
<1> SUFFICES ASSUME IInv, [Next]_vars PROVE IInv'
    OBVIOUS
<1> USE DEF Idle
<1>t. /\ row \in Job /\ Blank \in Job /\ user.job \in Job /\ user = [pc |-> user.pc, job |-> user.job]
      /\ loop \in [Sched -> {"off", "on", "stopping"}] /\ tick \in [Sched -> BOOLEAN]
      /\ manual \in [Sched -> [pc : {"idle", "read", "written"}, job : Job]]
      /\ exec \in [Exec -> Execution]
    BY BlankIsJob DEF IInv, TypeOK, Execution
<1>1. CASE UNCHANGED vars
    BY <1>1 DEF IInv, TypeOK, ClaimStands, NoneStands, Live, vars, call_vars, claim_vars
<1>2. ASSUME NEW p \in Sched, Start(p) \/ TickLists(p) \/ Stop(p) \/ StopReturns(p)
      PROVE  IInv'
    BY <1>2, <1>t DEF IInv, TypeOK, ClaimStands, NoneStands, Live, call_vars, claim_vars,
       Start, TickLists, Stop, StopReturns
<1>3. ASSUME NEW p \in Sched, TickClaims(p) PROVE IInv'
    BY <1>3, <1>t, ClaimKeeps DEF TickClaims
<1>4. ASSUME NEW p \in Sched, Crash(p) PROVE IInv'
    <2> DEFINE killed == {e \in Exec : Live(e) /\ exec[e].by = p}
    <2>1. /\ loop' \in [Sched -> {"off", "on", "stopping"}] /\ tick' \in [Sched -> BOOLEAN]
          /\ manual' \in [Sched -> [pc : {"idle", "read", "written"}, job : Job]]
          /\ UNCHANGED <<row, user, calls>>
        BY <1>4, <1>t DEF Crash, call_vars
    <2>2. /\ exec' = [e \in Exec |-> IF e \in killed THEN Dead(Blank) ELSE exec[e]]
          /\ standing' = IF standing \in killed THEN NoExec ELSE standing
          /\ lost' = lost \ killed
        BY <1>4 DEF Crash
    <2> HIDE DEF killed
    <2>3. exec' \in [Exec -> Execution]
        BY <2>2, <1>t DEF Dead, Execution
    <2>4. \A e \in Exec : Live(e)' <=> e \notin killed /\ Live(e)
        BY <2>2 DEF Live, Dead
    <2>5. \A f \in lost' \cup {standing'} : f # NoExec => Live(f)'
        BY <2>2, <2>4 DEF IInv, TypeOK
    <2>6. TypeOK'
        BY <2>1, <2>2, <2>3, <2>5 DEF IInv, TypeOK, Execution
    <2>7. ClaimStands'
        BY <2>2, <2>4 DEF IInv, ClaimStands
    <2>8. NoneStands'
        BY <2>1, <2>2 DEF IInv, NoneStands
    <2> QED BY <2>6, <2>7, <2>8 DEF IInv
<1>5. ASSUME NEW p \in Sched, ManualReads(p) PROVE IInv'
    <2>1. manual' \in [Sched -> [pc : {"idle", "read", "written"}, job : Job]]
        BY <1>5, <1>t, TriggeredIsJob DEF ManualReads
    <2>2. calls' \in 0 .. MaxCalls
        BY <1>5 DEF ManualReads, IInv, TypeOK
    <2> QED BY <1>5, <2>1, <2>2 DEF IInv, TypeOK, ClaimStands, NoneStands, Live, claim_vars,
            ManualReads
<1>6. ASSUME NEW p \in Sched, ManualWrites(p) PROVE IInv'
    <2>1. manual[p].job \in Job
        BY <1>t
    <2>2. manual' \in [Sched -> [pc : {"idle", "read", "written"}, job : Job]]
        BY <1>6, <1>t DEF ManualWrites
    <2>3. user' \in [pc : {"idle", "read"}, job : Job]
        BY <1>6 DEF ManualWrites, call_vars, IInv, TypeOK
    <2> QED BY <1>6, <2>1, <2>2, <2>3, WriteKeeps DEF ManualWrites, call_vars
<1>7. ASSUME NEW p \in Sched, ManualClaims(p) PROVE IInv'
    <2>1. manual' \in [Sched -> [pc : {"idle", "read", "written"}, job : Job]]
        BY <1>7, <1>t DEF ManualClaims
    <2> QED BY <1>7, <1>t, <2>1, ClaimKeeps DEF ManualClaims
<1>8. ASSUME NEW e \in Exec, Admitted(e) PROVE IInv'
    <2>1. /\ exec' \in [Exec -> Execution]
          /\ \A f \in Exec : Live(f)' <=> Live(f)
        BY <1>8, <1>t DEF Admitted, Execution, Live
    <2> QED BY <1>8, <2>1 DEF IInv, TypeOK, ClaimStands, NoneStands, call_vars, claim_vars,
            Admitted, Execution
<1>9. ASSUME NEW e \in Exec, AdmissionFails(e) PROVE IInv'
    <2>1. Live(e)
        BY <1>9 DEF AdmissionFails, Live
    <2> QED BY <1>9, <2>1, GoneKeeps DEF AdmissionFails
<1>10. ASSUME NEW e \in Exec, CompletionReads(e) PROVE IInv'
    <2>1. Live(e)
        BY <1>10 DEF CompletionReads, Live
    <2>2. CASE Gone(e)
        BY <1>10, <2>1, <2>2, GoneKeeps DEF CompletionReads
    <2>3. CASE exec' = [exec EXCEPT ![e].pc = "read", ![e].job = Completed(row)] /\ UNCHANGED claim_vars
        <3> DEFINE x == [exec[e] EXCEPT !.pc = "read", !.job = Completed(row)]
        <3>1. x \in Execution /\ x.pc = "read"
            BY <1>t, CompletedIsJob DEF Execution
        <3>2. exec' = [exec EXCEPT ![e] = x]
            BY <2>3, <1>t DEF Execution
        <3> HIDE DEF x
        <3>3. /\ exec' \in [Exec -> Execution]
              /\ \A f \in Exec : Live(f)' <=> Live(f)
            BY <1>t, <2>1, <3>1, <3>2, ExecMoves
        <3> QED BY <1>10, <2>3, <3>3 DEF IInv, TypeOK, ClaimStands, NoneStands, call_vars,
                claim_vars, CompletionReads, Execution
    <2> QED BY <1>10, <2>2, <2>3 DEF CompletionReads
<1>11. ASSUME NEW e \in Exec, CompletionWrites(e) PROVE IInv'
    <2>1. Live(e)
        BY <1>11 DEF CompletionWrites, Live
    <2>2. CASE Gone(e) /\ UNCHANGED row
        BY <1>11, <2>1, <2>2, GoneKeeps DEF CompletionWrites
    <2>3. CASE Write(exec[e].job, e) /\ exec' = [exec EXCEPT ![e] = Dead(Blank)]
        BY <1>11, <2>3, CompletionKeeps DEF CompletionWrites
    <2> QED BY <1>11, <2>2, <2>3 DEF CompletionWrites
<1>12. ASSUME UserReads PROVE IInv'
    <2>1. PICK j \in SetEnabled(row) \cup Edited(row) \cup ToolRun(row) \cup TuiRun(row) :
              user' = [pc |-> "read", job |-> j]
        BY <1>12 DEF UserReads
    <2>2. j \in Job
        BY <2>1, <1>t, EditedIsJob
    <2>3. calls' \in 0 .. MaxCalls
        BY <1>12 DEF UserReads, IInv, TypeOK
    <2> QED BY <1>12, <2>1, <2>2, <2>3 DEF IInv, TypeOK, ClaimStands, NoneStands, Live,
            claim_vars, UserReads
<1>13. ASSUME UserWrites PROVE IInv'
    <2>1. user' \in [pc : {"idle", "read"}, job : Job]
        BY <1>13, <1>t DEF UserWrites
    <2>2. manual' \in [Sched -> [pc : {"idle", "read", "written"}, job : Job]]
        BY <1>13, <1>t DEF UserWrites
    <2> QED BY <1>13, <1>t, <2>1, <2>2, WriteKeeps DEF UserWrites
<1>14. ASSUME UserDeletes PROVE IInv'
    <2>1. row' \in Job /\ ~row'.here /\ UNCHANGED <<loop, tick, manual, exec, user, standing, lost>>
        BY <1>14, <1>t DEF UserDeletes, claim_vars, Blank
    <2>2. calls' \in 0 .. MaxCalls
        BY <1>14 DEF UserDeletes, IInv, TypeOK
    <2> QED BY <2>1, <2>2 DEF IInv, TypeOK, ClaimStands, NoneStands, Live
<1>15. ASSUME FallsDue PROVE IInv'
    <2> DEFINE a(j) == IF j.next = "later" THEN [j EXCEPT !.next = "due"] ELSE j
    <2>1. /\ row' = a(row) /\ user' = [user EXCEPT !.job = a(@)]
          /\ manual' = [p \in Sched |-> [manual[p] EXCEPT !.job = a(@)]]
          /\ exec' = [e \in Exec |-> [exec[e] EXCEPT !.job = a(@)]]
          /\ UNCHANGED <<loop, tick, calls, claim_vars>>
        BY <1>15 DEF FallsDue, Passes
    <2>2. \A j \in Job : a(j) \in Job /\ a(j).status = j.status /\ a(j).here = j.here
        BY NextIsJob DEF Nexts, Job
    <2> HIDE DEF a
    <2>3. user' = [user EXCEPT !.job = a(user.job)] /\ a(user.job) \in Job
        BY <2>1, <2>2, <1>t
    <2>4. /\ exec' = [e \in Exec |-> [exec[e] EXCEPT !.job = a(exec[e].job)]]
          /\ manual' = [p \in Sched |-> [manual[p] EXCEPT !.job = a(manual[p].job)]]
        BY <2>1
    <2>5. exec' \in [Exec -> Execution] /\ \A e \in Exec : exec'[e].pc = exec[e].pc
        BY <2>2, <2>4, <1>t DEF Execution
    <2>6. manual' \in [Sched -> [pc : {"idle", "read", "written"}, job : Job]]
        BY <2>2, <2>4, <1>t
    <2> QED BY <2>1, <2>2, <2>3, <2>5, <2>6, <1>t, TimeKeeps
<1>16. ASSUME DayPasses PROVE IInv'
    <2> DEFINE a(j) == IF j.last = "recent" THEN [j EXCEPT !.last = "old"] ELSE j
    <2>1. /\ row' = a(row) /\ user' = [user EXCEPT !.job = a(@)]
          /\ manual' = [p \in Sched |-> [manual[p] EXCEPT !.job = a(@)]]
          /\ exec' = [e \in Exec |-> [exec[e] EXCEPT !.job = a(@)]]
          /\ UNCHANGED <<loop, tick, calls, claim_vars>>
        BY <1>16 DEF DayPasses, Passes
    <2>2. \A j \in Job : a(j) \in Job /\ a(j).status = j.status /\ a(j).here = j.here
        BY LastIsJob DEF Lasts, Job
    <2> HIDE DEF a
    <2>3. user' = [user EXCEPT !.job = a(user.job)] /\ a(user.job) \in Job
        BY <2>1, <2>2, <1>t
    <2>4. /\ exec' = [e \in Exec |-> [exec[e] EXCEPT !.job = a(exec[e].job)]]
          /\ manual' = [p \in Sched |-> [manual[p] EXCEPT !.job = a(manual[p].job)]]
        BY <2>1
    <2>5. exec' \in [Exec -> Execution] /\ \A e \in Exec : exec'[e].pc = exec[e].pc
        BY <2>2, <2>4, <1>t DEF Execution
    <2>6. manual' \in [Sched -> [pc : {"idle", "read", "written"}, job : Job]]
        BY <2>2, <2>4, <1>t
    <2> QED BY <2>1, <2>2, <2>3, <2>5, <2>6, <1>t, TimeKeeps
<1> QED
    BY <1>1, <1>2, <1>3, <1>4, <1>5, <1>6, <1>7, <1>8, <1>9, <1>10, <1>11, <1>12, <1>13,
       <1>14, <1>15, <1>16 DEF Next

THEOREM Invariance == Spec => []IInv
BY InitInv, StepInv, PTL DEF Spec

\* The row, every buffered copy of it, the executions and the ghosts of their claims keep
\* their types.
THEOREM TypeCorrect == Spec => []TypeOK
<1>1. IInv => TypeOK
    BY DEF IInv
<1> QED BY Invariance, <1>1, PTL

\* However many processes, ticks, manual runs and management calls interleave, one claim
\* stands at most, unless it outlived its lease or its row was written over.
THEOREM OneClaim == Spec => []OneLiveClaim
<1>1. IInv => OneLiveClaim
    BY DEF IInv, ClaimStands, OneLiveClaim
<1> QED BY Invariance, <1>1, PTL
=============================================================================
