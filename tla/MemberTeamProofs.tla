-------------------------- MODULE MemberTeamProofs --------------------------
(***************************************************************************)
(* What the lead of a team is told, for any number of members, runs, turns  *)
(* and questions: the safety properties of MemberTeam, from one inductive   *)
(* invariant.  It adds to them what a turn owes its end (LeadInv), how far   *)
(* the run of a member and its monitor may be apart (JobInv), and how the    *)
(* manager's status follows the monitor (MemberInv).                        *)
(***************************************************************************)
EXTENDS MemberTeam, TLAPS

Inside == {"topDrained", "request", "tool", "waiting", "tail", "tailDrained", "stop",
           "look", "stopFull", "stopEmpty", "lookEmpty", "wait", "ending"}

\* A turn that has begun is within the limit, and once the provider has answered
\* without a tool call nothing is taken that is not answered for.
LeadInv ==
    /\ pc \in Inside => turn < MaxTurns
    /\ pc \in {"stop", "look", "stopEmpty", "lookEmpty", "wait", "ending"} => heard = taken

\* A goroutine monitors a run that has begun, and has seen its end or not; a run
\* asks until its question is resolved.
JobInv ==
    \A j \in Job :
        /\ loop[j] = "none" => monitor[j] = "none"
        /\ monitor[j] \in {"marked", "queued", "notified"} => loop[j] \in Terminal
        /\ monitor[j] = "over" => loop[j] = "over"
        /\ loop[j] = "asking" => question[j] \in {"open", "answered"}

\* Until a message is sent, the status of a member is what its monitor made of it.
StatusFollows(m) ==
    LET at == monitor[<<m, "spawned">>] IN
    /\ at # "none"
    /\ at \in {"watching", "forwarding"} => status[m] = "running"
    /\ at \in {"marked", "queued"} => status[m] = loop[<<m, "spawned">>]
    /\ at \in {"notified", "over"} => status[m] \in Terminal

MemberInv ==
    /\ \A m \in Member :
          /\ managed[m] = "no" => \A k \in {"spawned", "sent"} : loop[<<m, k>>] = "none"
          /\ managed[m] = "child" /\ loop[<<m, "sent">>] = "none" => StatusFollows(m)
    /\ \A i \in 1..Len(items) : managed[Of(items[i].job)] # "no"

\* The hook has let the lead go when no child was running as the manager sees it, or
\* when no run had time left; no member is started or sent to since.
HookDecided ==
    pc = "ending" /\ ~aborted =>
        \A m \in Member : managed[m] = "child" /\ status[m] = "running"
                          => \A k \in {"spawned", "sent"} : ~live[<<m, k>>]

IInv ==
    /\ TypeOK /\ LeadInv /\ JobInv /\ MemberInv /\ HookDecided
    /\ SuccessHasHeard /\ AnswerReported /\ CompletionMatchesStatus

-----------------------------------------------------------------------------
LEMMA InitInv == Init => IInv
<1> SUFFICES ASSUME Init PROVE IInv
    OBVIOUS
<1> USE TeamAssumption DEF Init
<1>1. TypeOK
  <2>1. items \in Seq(Item) /\ Len(items) = 0 /\ told \subseteq Job
    OBVIOUS
  <2>2. runs \in 0..MaxRuns /\ turn \in 0..MaxTurns
    OBVIOUS
  <2>3. /\ status \in [Member -> Terminal \cup {"none", "running"}]
        /\ managed \in [Member -> {"no", "child", "gone"}]
        /\ loop \in [Job -> Terminal \cup {"none", "working", "asking", "over"}]
    OBVIOUS
  <2>4. posed \in [Job -> BOOLEAN] /\ live \in [Job -> BOOLEAN]
    OBVIOUS
  <2>5. question \in [Job -> {"none", "open", "answered", "got", "lost", "closed"}]
    OBVIOUS
  <2>6. monitor \in [Job -> {"none", "watching", "forwarding", "marked", "queued",
                             "notified", "over"}]
    OBVIOUS
  <2>7. heard \in Nat /\ taken \in Nat /\ heard <= taken /\ taken <= Len(items)
    BY <2>1
  <2> QED
    BY <2>1, <2>2, <2>3, <2>4, <2>5, <2>6, <2>7 DEF TypeOK, Outcome
<1>2. LeadInv /\ JobInv
    BY DEF LeadInv, JobInv, Inside
<1>3. MemberInv
    BY DEF MemberInv, Job
<1>4. SuccessHasHeard /\ HookDecided /\ AnswerReported /\ CompletionMatchesStatus
    BY DEF SuccessHasHeard, HookDecided, AnswerReported, CompletionMatchesStatus
<1> QED
    BY <1>1, <1>2, <1>3, <1>4 DEF IInv

-----------------------------------------------------------------------------
LEMMA TypeStep == TypeOK /\ LeadInv /\ JobInv /\ [Next]_vars => TypeOK'
<1> SUFFICES ASSUME TypeOK, LeadInv, JobInv, [Next]_vars PROVE TypeOK'
    OBVIOUS
<1> USE TeamAssumption DEF TypeOK, lead_vars, mail_vars, manager_vars, run_vars, Outcome
<1>1. CASE UNCHANGED vars
    BY <1>1 DEF vars
<1>2. CASE StartRun
    BY <1>2 DEF StartRun
<1>3. CASE Cancel
    BY <1>3 DEF Cancel, Done
<1>0. Len(items) \in Nat
    OBVIOUS
<1>4. ASSUME NEW o \in Outcome, End(o) PROVE TypeOK'
  <2>1. live' \in [Job -> BOOLEAN] /\ turn' \in 0..MaxTurns
    BY <1>4 DEF End, Done
  <2> QED
    BY <1>4, <2>1 DEF End
<1>5. CASE OutOfTurns \/ Aborted \/ Fail \/ Stop
    BY <1>4, <1>5 DEF OutOfTurns, Aborted, Fail, Stop
<1>6. CASE DrainSteering
  <2>1. taken' \in Nat /\ heard' <= taken' /\ taken' <= Len(items')
    BY <1>0, <1>6 DEF DrainSteering, Goto, Drain
  <2>2. activity' \in BOOLEAN
    BY <1>6 DEF DrainSteering, ClearActivity
  <2> QED
    BY <1>6, <2>1, <2>2 DEF DrainSteering, Goto
<1>7. CASE NextTurn
  <2>1. turn' \in 0..MaxTurns
    BY <1>7 DEF NextTurn, LeadInv, Inside
  <2> QED
    BY <1>7, <2>1 DEF NextTurn, ClearActivity
<1>8. CASE Respond \/ OtherTool \/ WaitTool
    BY <1>8 DEF Respond, OtherTool, WaitTool, Goto
<1>9. CASE ToolWakes
    BY <1>9 DEF ToolWakes, Goto, ClearActivity
<1>10. CASE WouldStop
  <2>1. taken' \in Nat /\ heard' <= taken' /\ taken' <= Len(items')
    BY <1>0, <1>10 DEF WouldStop, Goto, Drain
  <2>2. activity' \in BOOLEAN
    BY <1>10 DEF WouldStop, ClearActivity
  <2> QED
    BY <1>10, <2>1, <2>2 DEF WouldStop, Goto
<1>11. CASE HookWakes
    BY <1>11 DEF HookWakes, Goto, ClearActivity
<1>12. CASE Finish
    BY <1>12 DEF Finish, Updated, Terminal
<1>13. ASSUME NEW m \in Member, Spawn(m) PROVE TypeOK'
    BY <1>13 DEF Spawn, Begin, Goto, Job
<1>14. ASSUME NEW m \in Member, Send(m) PROVE TypeOK'
    BY <1>14 DEF Send, Begin, Goto, Mark, Updated, Job
<1>15. ASSUME NEW m \in Member, Destroy(m) PROVE TypeOK'
    BY <1>15 DEF Destroy, Goto, Done
<1>16. ASSUME NEW j \in Job, Answer(j) PROVE TypeOK'
    BY <1>16 DEF Answer
<1>17. ASSUME NEW j \in Job, Ask(j) PROVE TypeOK'
    BY <1>17 DEF Ask
<1>18. ASSUME NEW j \in Job, AnswerArrives(j) \/ AskAborted(j) PROVE TypeOK'
    BY <1>18 DEF AnswerArrives, AskAborted, Resolve
<1>19. ASSUME NEW j \in Job, NEW s \in Ends, MemberEnds(j, s) PROVE TypeOK'
    BY <1>19 DEF MemberEnds, Terminal
<1>20. ASSUME NEW j \in Job, Timeout(j) PROVE TypeOK'
    BY <1>20 DEF Timeout, Done
<1>21. ASSUME NEW j \in Job, Forward(j) PROVE TypeOK'
  <2>1. Question(j) \in Item
    BY DEF Question, Item
  <2>2. items' \in Seq(Item) /\ Len(items') = Len(items) + 1
    BY <1>21, <2>1 DEF Forward, Enqueue
  <2> QED
    BY <1>21, <2>2 DEF Forward, Step
<1>22. ASSUME NEW j \in Job, Hint(j) PROVE TypeOK'
    BY <1>22 DEF Hint, Step, Signal
<1>23. ASSUME NEW j \in Job, RunFinished(j) PROVE TypeOK'
    BY <1>23 DEF RunFinished, Step, Mark, Updated, Job, Of
<1>24. ASSUME NEW j \in Job, Notify(j) PROVE TypeOK'
  <2>1. Completion(j, loop[j]) \in Item
    BY <1>24 DEF Completion, Item, Notify, Step, JobInv
  <2>2. items' \in Seq(Item) /\ Len(items') = Len(items) + 1
    BY <1>24, <2>1 DEF Notify, Enqueue
  <2> QED
    BY <1>24, <2>2 DEF Notify, Step
<1>25. ASSUME NEW j \in Job, Close(j) PROVE TypeOK'
    BY <1>25 DEF Close, Step, Mark, Updated, Job, Of, Done, Terminal
<1> QED
    BY <1>1, <1>2, <1>3, <1>5, <1>6, <1>7, <1>8, <1>9, <1>10, <1>11, <1>12, <1>13, <1>14,
       <1>15, <1>16, <1>17, <1>18, <1>19, <1>20, <1>21, <1>22, <1>23, <1>24, <1>25
       DEF Next, LeadStep, MemberStep, MonitorStep

-----------------------------------------------------------------------------
\* The runs of members and their monitors leave the lead alone, but for what they
\* queue and what the end of a context lets go.
LEMMA OthersLeaveLead ==
    ASSUME NEW j \in Job, NEW s,
           Ask(j) \/ AnswerArrives(j) \/ AskAborted(j) \/ MemberEnds(j, s) \/ Timeout(j)
             \/ MonitorStep(j)
    PROVE  UNCHANGED <<lead_vars, taken, heard, managed>>
    BY DEF Ask, AnswerArrives, AskAborted, Resolve, MemberEnds, Timeout, MonitorStep, Forward,
           Hint, RunFinished, Notify, Close, lead_vars, mail_vars, manager_vars

LEMMA LeadInvStep == TypeOK /\ LeadInv /\ [Next]_vars => LeadInv' /\ (SuccessHasHeard => SuccessHasHeard')
<1> SUFFICES ASSUME TypeOK, LeadInv, [Next]_vars
             PROVE  LeadInv' /\ (SuccessHasHeard => SuccessHasHeard')
    OBVIOUS
<1> USE DEF LeadInv, SuccessHasHeard, Inside, lead_vars, mail_vars
<1>1. CASE UNCHANGED vars
    BY <1>1 DEF vars
<1>2. CASE StartRun
    BY <1>2 DEF StartRun
<1>3. CASE Cancel
    BY <1>3 DEF Cancel
<1>4. CASE OutOfTurns \/ Aborted \/ Fail \/ Stop
    BY <1>4 DEF OutOfTurns, Aborted, Fail, Stop, End
<1>5. CASE DrainSteering
    BY <1>5 DEF DrainSteering, Goto
<1>6. CASE NextTurn
    BY <1>6 DEF NextTurn
<1>7. CASE Respond \/ OtherTool \/ WaitTool \/ ToolWakes
    BY <1>7 DEF Respond, OtherTool, WaitTool, ToolWakes, Goto
<1>8. CASE WouldStop
  <2>1. CASE pc \in {"stop", "look"} /\ taken < Len(items)
      BY <1>8, <2>1 DEF WouldStop, Goto
  <2>2. CASE pc \in {"stop", "look"} /\ ~(taken < Len(items))
    <3>1. taken = Len(items)
        BY <2>2 DEF TypeOK
    <3> QED
        BY <1>8, <2>2, <3>1 DEF WouldStop, Goto, Drain
  <2>3. CASE pc \notin {"stop", "look"}
      BY <1>8, <2>3 DEF WouldStop, Goto
  <2> QED
      BY <2>1, <2>2, <2>3
<1>9. CASE HookWakes
    BY <1>9 DEF HookWakes, Goto
<1>10. CASE Finish
    BY <1>10 DEF Finish
<1>11. ASSUME NEW m \in Member, Spawn(m) \/ Send(m) \/ Destroy(m)
       PROVE  LeadInv' /\ (SuccessHasHeard => SuccessHasHeard')
    BY <1>11 DEF Spawn, Send, Destroy, Begin, Goto
<1>12. ASSUME NEW j \in Job, Answer(j)
       PROVE  LeadInv' /\ (SuccessHasHeard => SuccessHasHeard')
    BY <1>12 DEF Answer
<1>13. CASE UNCHANGED <<lead_vars, taken, heard, managed>>
    BY <1>13
<1> QED
    BY <1>1, <1>2, <1>3, <1>4, <1>5, <1>6, <1>7, <1>8, <1>9, <1>10, <1>11, <1>12, <1>13,
       OthersLeaveLead DEF Next, LeadStep, MemberStep

LEMMA JobInvStep ==
    TypeOK /\ JobInv /\ AnswerReported /\ [Next]_vars => JobInv' /\ AnswerReported'
<1> SUFFICES ASSUME TypeOK, JobInv, AnswerReported, [Next]_vars
             PROVE  JobInv' /\ AnswerReported'
    OBVIOUS
<1> USE DEF JobInv, AnswerReported, TypeOK, run_vars
<1>1. CASE UNCHANGED <<loop, monitor, question, told>>
    BY <1>1
<1>2. CASE UNCHANGED vars \/ StartRun \/ Cancel \/ OutOfTurns \/ Aborted \/ Fail \/ Stop
           \/ DrainSteering \/ NextTurn \/ Respond \/ OtherTool \/ WaitTool \/ ToolWakes
           \/ WouldStop \/ HookWakes \/ Finish
    BY <1>1, <1>2 DEF vars, lead_vars, StartRun, Cancel, OutOfTurns, Aborted, Fail, Stop, End,
       DrainSteering, NextTurn, Respond, OtherTool, WaitTool, ToolWakes, WouldStop, HookWakes,
       Finish, Goto
<1>3. ASSUME NEW m \in Member, Spawn(m) \/ Send(m) PROVE JobInv' /\ AnswerReported'
  <2>1. PICK k \in {"spawned", "sent"} : <<m, k>> \in Job /\ Begin(<<m, k>>)
      BY <1>3 DEF Spawn, Send, Job
  <2>2. JobInv'
      BY <2>1 DEF Begin, Terminal
  <2>3. UNCHANGED <<told, question>>
      BY <1>3 DEF Spawn, Send, Begin, Goto
  <2> QED
      BY <2>2, <2>3
<1>4. ASSUME NEW m \in Member, Destroy(m) PROVE JobInv' /\ AnswerReported'
    BY <1>1, <1>4 DEF Destroy, Goto
<1>5. ASSUME NEW j \in Job, Answer(j) PROVE JobInv' /\ AnswerReported'
    BY <1>5 DEF Answer
<1>6. ASSUME NEW j \in Job, Ask(j) PROVE JobInv' /\ AnswerReported'
    BY <1>6 DEF Ask, Terminal, lead_vars
<1>7. ASSUME NEW j \in Job, AnswerArrives(j) \/ AskAborted(j) PROVE JobInv' /\ AnswerReported'
  <2>1. JobInv'
      BY <1>7 DEF AnswerArrives, AskAborted, Resolve, Terminal
  <2>2. told' = told /\ question' = [question EXCEPT ![j] = question'[j]]
      BY <1>7 DEF AnswerArrives, AskAborted, Resolve, lead_vars
  <2>3. j \in told => question'[j] \in {"answered", "got", "lost"}
      BY <1>7 DEF AnswerArrives, AskAborted, Resolve
  <2> QED
      BY <2>1, <2>2, <2>3
<1>8. ASSUME NEW j \in Job, NEW s \in Ends, MemberEnds(j, s) PROVE JobInv' /\ AnswerReported'
    BY <1>8, TeamAssumption DEF MemberEnds, Terminal, lead_vars
<1>9. ASSUME NEW j \in Job, Timeout(j) PROVE JobInv' /\ AnswerReported'
    BY <1>1, <1>9 DEF Timeout, lead_vars
<1>10. ASSUME NEW j \in Job, MonitorStep(j) PROVE JobInv' /\ AnswerReported'
    BY <1>10 DEF MonitorStep, Forward, Hint, RunFinished, Notify, Close, Step, lead_vars, Terminal
<1> QED
    BY <1>1, <1>2, <1>3, <1>4, <1>5, <1>6, <1>7, <1>8, <1>9, <1>10
       DEF Next, LeadStep, MemberStep

-----------------------------------------------------------------------------
\* A status that is terminal stands, and an update makes one of the others what it says.
LEMMA UpdatedFacts ==
    ASSUME NEW old, NEW new
    PROVE  /\ old \in Terminal => Updated(old, new) = old
           /\ old \notin Terminal => Updated(old, new) = new
           /\ new \in Terminal => Updated(old, new) \in Terminal
    BY DEF Updated

\* The properties of one member's status and notifications, as one predicate.
Notified(i) ==
    LET m == Of(items[i].job) IN
    /\ managed[m] # "no"
    /\ items[i].kind = "completion" /\ managed[m] = "child" /\ loop[<<m, "sent">>] = "none"
       => status[m] = items[i].status

Managed(m) ==
    /\ managed[m] = "no" => \A k \in {"spawned", "sent"} : loop[<<m, k>>] = "none"
    /\ managed[m] = "child" /\ loop[<<m, "sent">>] = "none" => StatusFollows(m)

TeamInv == (\A m \in Member : Managed(m)) /\ (\A i \in 1..Len(items) : Notified(i))

LEMMA TeamInvIs == MemberInv /\ CompletionMatchesStatus <=> TeamInv
    BY DEF MemberInv, CompletionMatchesStatus, TeamInv, Managed, Notified

\* A step that leaves a member's part alone, or all of it but what has no bearing.
Same(m) ==
    /\ managed'[m] = managed[m] /\ status'[m] = status[m]
    /\ \A k \in {"spawned", "sent"} :
          /\ loop'[<<m, k>>] = loop[<<m, k>>] /\ monitor'[<<m, k>>] = monitor[<<m, k>>]

LEMMA SameManaged == ASSUME NEW m, Same(m), Managed(m) PROVE Managed(m)'
    BY DEF Same, Managed, StatusFollows

LEMMA ItemFacts ==
    ASSUME TypeOK, NEW i \in 1..Len(items)
    PROVE  items[i] \in Item /\ items[i].job \in Job /\ Of(items[i].job) \in Member
<1>1. items[i] \in Item
    BY DEF TypeOK
<1>2. items[i].job \in Job
    BY <1>1 DEF Item
<1> QED
    BY <1>1, <1>2 DEF Job, Of

\* When nothing is queued, it is enough to look at each member.
LEMMA NothingQueued ==
    ASSUME TypeOK, TeamInv, items' = items,
           \A m \in Member :
               /\ Managed(m)'
               /\ managed[m] # "no" => managed'[m] # "no"
               /\ managed'[m] = "child" /\ loop'[<<m, "sent">>] = "none" /\ managed[m] # "no"
                  => /\ managed[m] = "child" /\ loop[<<m, "sent">>] = "none"
                     /\ status[m] \in Terminal => status'[m] = status[m]
    PROVE  TeamInv'
<1>1. ASSUME NEW i \in 1..Len(items) PROVE Notified(i)'
  <2> DEFINE m == Of(items[i].job)
  <2>1. items[i] \in Item /\ m \in Member
      BY ItemFacts
  <2>2. Notified(i)
      BY DEF TeamInv
  <2>3. items[i].kind = "completion" => items[i].status \in Terminal
      BY <2>1 DEF Item
  <2> QED
      BY <2>1, <2>2, <2>3 DEF Notified
<1> QED
    BY <1>1 DEF TeamInv

-----------------------------------------------------------------------------
LEMMA LeadTeamStep ==
    ASSUME TypeOK, JobInv, TeamInv, LeadStep \/ StartRun \/ Cancel
    PROVE  TeamInv'
<1> USE DEF TypeOK, lead_vars, mail_vars, manager_vars, run_vars
<1>1. CASE UNCHANGED <<items, managed, status, loop, monitor>>
    BY <1>1 DEF TeamInv, Managed, Notified, StatusFollows
<1>2. CASE StartRun \/ Cancel \/ OutOfTurns \/ Aborted \/ Fail \/ Stop
           \/ DrainSteering \/ NextTurn \/ Respond \/ OtherTool \/ WaitTool \/ ToolWakes
           \/ WouldStop \/ HookWakes
    BY <1>1, <1>2 DEF StartRun, Cancel, OutOfTurns, Aborted, Fail, Stop, End,
       DrainSteering, NextTurn, Respond, OtherTool, WaitTool, ToolWakes, WouldStop, HookWakes
<1>3. ASSUME NEW j \in Job, Answer(j) PROVE TeamInv'
    BY <1>1, <1>3 DEF Answer
<1>4. CASE Finish
  <2>1. ASSUME NEW m \in Member
        PROVE  Managed(m)' /\ (managed[m] # "no" => managed'[m] # "no")
               /\ (managed'[m] = "child" => managed[m] = "child" /\ status'[m] = status[m])
    <3>1. Managed(m)
        BY DEF TeamInv
    <3> QED
        BY <1>4, <3>1 DEF Finish, Managed, StatusFollows
  <2>2. UNCHANGED <<items, loop>>
      BY <1>4 DEF Finish
  <2> QED
      BY <2>1, <2>2, NothingQueued
<1>5. ASSUME NEW n \in Member, Destroy(n) PROVE TeamInv'
  <2>1. ASSUME NEW m \in Member
        PROVE  Managed(m)' /\ (managed[m] # "no" => managed'[m] # "no")
               /\ (managed'[m] = "child" => managed[m] = "child" /\ status'[m] = status[m])
    <3>1. Managed(m)
        BY DEF TeamInv
    <3> QED
        BY <1>5, <3>1 DEF Destroy, Managed, StatusFollows
  <2>2. UNCHANGED <<items, loop>>
      BY <1>5 DEF Destroy
  <2> QED
      BY <2>1, <2>2, NothingQueued
<1>6. ASSUME NEW n \in Member, Send(n) PROVE TeamInv'
  <2>1. ASSUME NEW m \in Member, m # n PROVE Same(m)
      BY <1>6, <2>1 DEF Send, Begin, Mark, Same, Job
  <2>2. managed' = managed /\ items' = items /\ managed[n] = "child" /\ loop'[<<n, "sent">>] # "none"
      BY <1>6 DEF Send, Begin, Job
  <2>3. Managed(n)'
      BY <2>2 DEF Managed
  <2>4. ASSUME NEW m \in Member
        PROVE  Managed(m)' /\ (loop'[<<m, "sent">>] = "none" =>
                                  loop[<<m, "sent">>] = "none" /\ status'[m] = status[m])
    <3>1. CASE m = n
        BY <2>2, <2>3, <3>1
    <3>2. CASE m # n
        BY <2>1, <3>2, SameManaged DEF TeamInv, Same
    <3> QED
        BY <3>1, <3>2
  <2> QED
      BY <2>2, <2>4, NothingQueued
<1>7. ASSUME NEW n \in Member, Spawn(n) PROVE TeamInv'
  <2>1. ASSUME NEW m \in Member, m # n PROVE Same(m)
      BY <1>7, <2>1 DEF Spawn, Begin, Same, Job
  <2>2. items' = items /\ managed[n] = "no" /\ managed'[n] = "child" /\ status'[n] = "running"
        /\ monitor'[<<n, "spawned">>] = "watching"
      BY <1>7 DEF Spawn, Begin, Job
  <2>3. Managed(n)'
      BY <2>2 DEF Managed, StatusFollows, Terminal
  <2>4. ASSUME NEW m \in Member
        PROVE  /\ Managed(m)'
               /\ managed[m] # "no" => /\ managed'[m] = managed[m] /\ status'[m] = status[m]
                                       /\ loop'[<<m, "sent">>] = loop[<<m, "sent">>]
    <3>1. CASE m = n
        BY <2>2, <2>3, <3>1
    <3>2. CASE m # n
        BY <2>1, <3>2, SameManaged DEF TeamInv, Same
    <3> QED
        BY <3>1, <3>2
  <2> QED
      BY <2>2, <2>4, NothingQueued
<1> QED
    BY <1>2, <1>3, <1>4, <1>5, <1>6, <1>7 DEF LeadStep

-----------------------------------------------------------------------------
\* One notification more.
LEMMA Queued ==
    ASSUME TypeOK, TeamInv, NEW j \in Job, NEW item \in Item, items' = Append(items, item),
           item.job = j, UNCHANGED <<managed, status, loop>>,
           loop[j] # "none",
           item.kind = "completion" /\ managed[Of(j)] = "child" /\ loop[<<Of(j), "sent">>] = "none"
             => status[Of(j)] = item.status,
           \A m \in Member : Managed(m)'
    PROVE  TeamInv'
<1>1. Len(items') = Len(items) + 1 /\ Len(items) \in Nat
    BY DEF TypeOK
<1>2. ASSUME NEW i \in 1..Len(items') PROVE Notified(i)'
  <2>1. CASE i \in 1..Len(items)
    <3>1. Notified(i) /\ items'[i] = items[i]
        BY <2>1 DEF TeamInv, TypeOK
    <3> QED
        BY <3>1 DEF Notified
  <2>2. CASE i \notin 1..Len(items)
    <3>1. items'[i] = item
        BY <1>1, <2>2 DEF TypeOK
    <3>2. Of(j) \in Member /\ \E k \in {"spawned", "sent"} : j = <<Of(j), k>>
        BY DEF Job, Of
    <3>3. managed[Of(j)] # "no"
        BY <3>2 DEF TeamInv, Managed
    <3> QED
        BY <3>1, <3>3 DEF Notified
  <2> QED
      BY <2>1, <2>2
<1> QED
    BY <1>2 DEF TeamInv

LEMMA MonitorTeamStep ==
    ASSUME TypeOK, JobInv, TeamInv, NEW j \in Job, MonitorStep(j)
    PROVE  TeamInv'
<1> DEFINE n == Of(j)
<1>0. n \in Member /\ \E k \in {"spawned", "sent"} : j = <<n, k>>
    BY DEF Job, Of
<1>1. ASSUME NEW m \in Member, m # n PROVE Same(m)
  <2>1. \A k \in {"spawned", "sent"} : <<m, k>> # j /\ <<m, k>> \in Job
      BY <1>0, <1>1 DEF Job
  <2> QED
      BY <1>0, <1>1, <2>1 DEF MonitorStep, Forward, Hint, RunFinished, Notify, Close, Step, Mark,
         Same, TypeOK, manager_vars
<1>2. Managed(n) /\ monitor[j] # "none" /\ loop[j] # "none" /\ managed' = managed
    BY <1>0 DEF MonitorStep, Forward, Hint, RunFinished, Notify, Close, Step, manager_vars, TeamInv,
       JobInv
<1>3. managed[n] # "no"
    BY <1>0, <1>2 DEF Managed
<1>4. ASSUME Managed(n)', NEW m \in Member PROVE Managed(m)'
    BY <1>1, <1>4, SameManaged DEF TeamInv
<1>5. CASE Forward(j)
  <2>1. Managed(n)'
      BY <1>0, <1>2, <1>5 DEF Forward, Step, Managed, StatusFollows, TypeOK, manager_vars, Job
  <2>2. Question(j) \in Item /\ Question(j).kind = "question" /\ Question(j).job = j
      BY DEF Question, Item
  <2> QED
      BY <1>2, <1>4, <1>5, <2>1, <2>2, Queued DEF Forward, Enqueue, manager_vars
<1>6. CASE Hint(j)
  <2>1. Managed(n)'
      BY <1>0, <1>2, <1>6 DEF Hint, Step, Managed, StatusFollows, TypeOK, manager_vars, Job, JobInv
  <2> QED
      BY <1>4, <1>6, <2>1, NothingQueued DEF Hint, manager_vars
<1>7. CASE RunFinished(j)
  <2>1. Managed(n)'
    <3>1. /\ loop[j] \in Terminal /\ loop' = loop
          /\ monitor[j] = "watching" /\ monitor'[j] = (IF j[2] = "spawned" THEN "marked" ELSE "notified")
          /\ status'[n] = Updated(status[n], loop[j])
        BY <1>0, <1>7 DEF RunFinished, Step, Mark, TypeOK
    <3>2. CASE j = <<n, "sent">>
        BY <1>2, <3>1, <3>2 DEF Managed
    <3>3. CASE j = <<n, "spawned">>
      <4>1. status[n] = "running" => status'[n] = loop[j]
          BY <3>1 DEF Updated, Terminal
      <4>2. monitor'[j] = "marked"
          BY <3>1, <3>3
      <4> QED
          BY <1>2, <3>1, <3>3, <4>1, <4>2 DEF Managed, StatusFollows
    <3> QED
        BY <1>0, <3>2, <3>3
  <2>2. \A m \in Member : status[m] \in Terminal => status'[m] = status[m]
      BY <1>0, <1>7 DEF RunFinished, Mark, Updated, TypeOK
  <2> QED
      BY <1>2, <1>4, <1>7, <2>1, <2>2, NothingQueued DEF RunFinished, mail_vars
<1>8. CASE Notify(j)
  <2>1. Managed(n)'
      BY <1>0, <1>2, <1>8 DEF Notify, Step, Managed, StatusFollows, TypeOK, manager_vars, Job
  <2>2. Completion(j, loop[j]) \in Item /\ Completion(j, loop[j]).job = j
        /\ Completion(j, loop[j]).status = loop[j]
      BY <1>8 DEF Completion, Item, Notify, Step, JobInv
  <2>3. managed[n] = "child" /\ loop[<<n, "sent">>] = "none" => status[n] = loop[j]
      BY <1>0, <1>2, <1>8 DEF Notify, Step, Managed, StatusFollows
  <2> QED
      BY <1>2, <1>4, <1>8, <2>1, <2>2, <2>3, Queued DEF Notify, Enqueue, manager_vars
<1>9. CASE Close(j)
  <2>1. Managed(n)'
    <3>1. /\ monitor[j] = "notified" /\ monitor'[j] = "over" /\ loop'[j] = "over"
          /\ status[n] \in Terminal => status'[n] = status[n]
          /\ \A k \in Job \ {j} : loop'[k] = loop[k]
        BY <1>0, <1>9 DEF Close, Step, Mark, Updated, TypeOK
    <3>2. CASE j = <<n, "sent">>
        BY <1>2, <3>1, <3>2 DEF Managed
    <3>3. CASE j = <<n, "spawned">>
      <4>1. <<n, "sent">> \in Job \ {j}
          BY <1>0, <3>3 DEF Job
      <4> QED
          BY <1>2, <3>1, <3>3, <4>1 DEF Managed, StatusFollows
    <3> QED
        BY <1>0, <3>2, <3>3
  <2>2. \A m \in Member : /\ status[m] \in Terminal => status'[m] = status[m]
                          /\ loop'[<<m, "sent">>] = "none" => loop[<<m, "sent">>] = "none"
      BY <1>0, <1>9 DEF Close, Mark, Updated, TypeOK, Job
  <2> QED
      BY <1>2, <1>4, <1>9, <2>1, <2>2, NothingQueued DEF Close, mail_vars
<1> QED
    BY <1>5, <1>6, <1>7, <1>8, <1>9 DEF MonitorStep

-----------------------------------------------------------------------------
LEMMA MemberTeamStep ==
    ASSUME TypeOK, JobInv, TeamInv, NEW j \in Job,
           Ask(j) \/ Timeout(j) \/ MemberStep(j)
    PROVE  TeamInv'
<1> USE DEF TypeOK, mail_vars, manager_vars
<1>1. UNCHANGED <<items, managed, status, monitor>>
    BY DEF Ask, Timeout, MemberStep, AnswerArrives, AskAborted, Resolve, MemberEnds
<1>2. \A k \in Job : \/ loop'[k] = loop[k]
                     \/ /\ loop[k] \in {"working", "asking"}
                        /\ loop'[k] \in Ends \cup {"working", "asking"}
    BY DEF Ask, Timeout, MemberStep, AnswerArrives, AskAborted, Resolve, MemberEnds
<1>3. \A k \in Job : (loop'[k] = "none") = (loop[k] = "none")
    BY <1>2, TeamAssumption
<1>4. \A k \in Job : monitor[k] \in {"marked", "queued"} => loop'[k] = loop[k]
    BY <1>2 DEF JobInv, Terminal
<1>5. ASSUME NEW m \in Member PROVE Managed(m)'
  <2>1. \A k \in {"spawned", "sent"} : <<m, k>> \in Job
      BY DEF Job
  <2>2. Managed(m)
      BY DEF TeamInv
  <2> QED
      BY <1>1, <1>3, <1>4, <2>1, <2>2 DEF Managed, StatusFollows
<1>6. \A m \in Member : <<m, "sent">> \in Job
    BY DEF Job
<1> QED
    BY <1>1, <1>3, <1>5, <1>6, NothingQueued DEF TeamInv, Managed

LEMMA HookStep ==
    ASSUME TypeOK, JobInv, HookDecided, [Next]_vars
    PROVE  HookDecided'
<1> USE DEF HookDecided, lead_vars, manager_vars, run_vars
<1>1. CASE pc' # "ending" \/ aborted'
    BY <1>1
<1>2. CASE UNCHANGED vars
    BY <1>2 DEF vars
<1>3. CASE StartRun \/ OutOfTurns \/ Aborted \/ DrainSteering \/ NextTurn \/ Respond \/ Fail
           \/ OtherTool \/ WaitTool \/ ToolWakes \/ Stop \/ Finish \/ Cancel
    BY <1>1, <1>3 DEF StartRun, OutOfTurns, Aborted, DrainSteering, NextTurn, Respond, Fail,
       OtherTool, WaitTool, ToolWakes, Stop, Finish, Cancel, End, Goto
<1>4. ASSUME NEW m \in Member, Spawn(m) \/ Send(m) \/ Destroy(m) PROVE HookDecided'
    BY <1>1, <1>4 DEF Spawn, Send, Destroy, Goto
<1>5. ASSUME NEW j \in Job, Answer(j) PROVE HookDecided'
    BY <1>1, <1>5 DEF Answer
<1>6. CASE WouldStop
  <2>1. pc' = "ending" => /\ ~HasRunningChildren \/ \A j \in Job : ~live[j]
                          /\ UNCHANGED <<managed, status, live>>
      BY <1>6 DEF WouldStop, Goto
  <2> QED
      BY <2>1 DEF HasRunningChildren, Job
<1>7. CASE HookWakes
    BY <1>1, <1>7 DEF HookWakes, Goto
<1>8. ASSUME NEW j \in Job, NEW s, Ask(j) \/ AnswerArrives(j) \/ AskAborted(j) \/ MemberEnds(j, s)
             \/ Timeout(j) \/ MonitorStep(j)
      PROVE  HookDecided'
  <2>1. UNCHANGED <<lead_vars, managed>>
      BY <1>8, OthersLeaveLead
  <2>2. \A k \in Job : live'[k] => live[k]
      BY <1>8 DEF Ask, AnswerArrives, AskAborted, Resolve, MemberEnds, Timeout, MonitorStep,
         Forward, Hint, RunFinished, Notify, Close, Done
  <2>3. ASSUME NEW m \in Member PROVE status'[m] = "running" => status[m] = "running"
    <3>1. CASE UNCHANGED status
        BY <3>1
    <3>2. CASE \E t : t # "running" /\ Mark(Of(j), t)
        BY <3>2 DEF Mark, Updated, TypeOK
    <3> QED
        BY <1>8, <3>1, <3>2 DEF Ask, AnswerArrives, AskAborted, Resolve, MemberEnds, Timeout,
           MonitorStep, Forward, Hint, RunFinished, Notify, Close, Terminal
  <2> QED
      BY <2>1, <2>2, <2>3 DEF Job
<1> QED
    BY <1>2, <1>3, <1>4, <1>5, <1>6, <1>7, <1>8 DEF Next, LeadStep, MemberStep

LEMMA StepInv == IInv /\ [Next]_vars => IInv'
<1> SUFFICES ASSUME IInv, [Next]_vars PROVE IInv'
    OBVIOUS
<1>1. TypeOK' /\ LeadInv' /\ SuccessHasHeard'
    BY TypeStep, LeadInvStep DEF IInv
<1>2. JobInv' /\ AnswerReported' /\ HookDecided'
    BY JobInvStep, HookStep DEF IInv
<1>3. TeamInv
    BY TeamInvIs DEF IInv
<1>4. TeamInv'
  <2>1. CASE UNCHANGED vars
      BY <1>3, <2>1 DEF TeamInv, Managed, Notified, StatusFollows, vars, mail_vars, manager_vars,
         run_vars
  <2>2. CASE Next
      BY <1>3, <2>2, LeadTeamStep, MonitorTeamStep, MemberTeamStep DEF Next, IInv
  <2> QED
      BY <2>1, <2>2
<1>5. MemberInv' /\ CompletionMatchesStatus'
    BY <1>4 DEF MemberInv, CompletionMatchesStatus, TeamInv, Managed, Notified
<1> QED
    BY <1>1, <1>2, <1>5 DEF IInv

-----------------------------------------------------------------------------
\* The inductive invariant holds in every reachable state.
THEOREM Invariance == Spec => []IInv
    BY InitInv, StepInv, PTL DEF Spec

\* Every variable keeps its type: the pointers into the mailbox stay in order, and
\* no turn is begun beyond the limit.
THEOREM TypeCorrect == Spec => []TypeOK
<1>1. IInv => TypeOK
    BY DEF IInv
<1> QED
    BY <1>1, Invariance, PTL

\* A run that succeeds has answered for all it took from the mailbox.
THEOREM HeardOut == Spec => []SuccessHasHeard
<1>1. IInv => SuccessHasHeard
    BY DEF IInv
<1> QED
    BY <1>1, Invariance, PTL

\* A lead that ends of itself leaves no member at work on its task with time left: the
\* manager says of such a member that it runs, and so the hook has not let the lead go.
THEOREM WaitsForMembers == Spec => []StaysForMembers
<1>1. IInv => StaysForMembers
  <2> SUFFICES ASSUME IInv, pc = "ending", ~aborted, NEW m \in Member, managed[m] = "child",
                      loop[<<m, "sent">>] = "none", Runs(<<m, "spawned">>)
               PROVE  FALSE
      BY DEF StaysForMembers
  <2> DEFINE j == <<m, "spawned">>
  <2>1. j \in Job /\ StatusFollows(m)
      BY DEF Job, IInv, MemberInv
  <2>2. monitor[j] \in {"watching", "forwarding"}
      BY <2>1 DEF IInv, JobInv, TypeOK, StatusFollows, Runs, Terminal
  <2>3. status[m] = "running"
      BY <2>1, <2>2 DEF StatusFollows
  <2> QED
      BY <2>3 DEF IInv, HookDecided, Runs
<1> QED
    BY <1>1, Invariance, PTL

\* subagent_answer tells the lead the truth.
THEOREM AnswersReported == Spec => []AnswerReported
<1>1. IInv => AnswerReported
    BY DEF IInv
<1> QED
    BY <1>1, Invariance, PTL

\* The lead is told of completions as the manager keeps them.
THEOREM CompletionsMatch == Spec => []CompletionMatchesStatus
<1>1. IInv => CompletionMatchesStatus
    BY DEF IInv
<1> QED
    BY <1>1, Invariance, PTL
=============================================================================
