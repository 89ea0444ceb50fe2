----------------------------- MODULE MemberTeam -----------------------------
(***************************************************************************)
(* internal/agent: a team lead, the members it spawns and the mailbox of    *)
(* its session.  A member's run and the goroutine that monitors it go on    *)
(* beside the lead's loop.  What a member has to say (its completion, a     *)
(* question that blocks it) is queued in the mailbox, and the lead takes it *)
(* from there at the boundaries of its turns, or in the hook that keeps the *)
(* run of a lead open while members still run.                              *)
(*                                                                          *)
(* The queue is the part of items after taken: what the mailbox held in the *)
(* order it was queued, what the lead has drained, and what the lead has    *)
(* answered for, in a response or by losing the agent that held it.         *)
(*                                                                          *)
(* One tool call makes a turn, and of the tools only those that act on the  *)
(* team are told apart.  The adapter's own steering, the cap on children    *)
(* and the retries of a stream are left out; a wall-clock limit ends a run  *)
(* where the turn limit does.  The cancel function that SetCancel files is  *)
(* left out because each step that calls it also aborts the agent, which    *)
(* cancels its runs.                                                        *)
(***************************************************************************)
EXTENDS Naturals, Sequences, FiniteSets

CONSTANTS Member,    \* the handles the lead may spawn
          MaxRuns,   \* bound on the runs of the lead
          MaxTurns,  \* the iteration limit of a run
          MaxAsks,   \* bound on the questions members ask
          MaxSends,  \* bound on the messages sent after the task
          Ends       \* the ways a member's run may end

ASSUME TeamAssumption ==
    /\ MaxRuns \in Nat /\ MaxTurns \in Nat
    /\ MaxAsks \in Nat /\ MaxSends \in Nat
    /\ Ends \subseteq {"done", "incomplete", "error", "canceled"}

\* A run of a member: of the task it was spawned for, or of a later message.
Job == Member \X {"spawned", "sent"}
Of(j) == j[1]

Terminal == {"done", "incomplete", "error", "canceled"}
Outcome == {"none", "success", "incomplete", "failed", "canceled"}

Item == [kind : {"question"}, job : Job, status : {"question"}]
          \cup [kind : {"completion"}, job : Job, status : Terminal]
Question(j) == [kind |-> "question", job |-> j, status |-> "question"]
Completion(j, s) == [kind |-> "completion", job |-> j, status |-> s]

VARIABLES
    \* The lead.
    pc,        \* where its loop is
    runs,      \* how many runs it began
    turn,      \* the turn of this run
    aborted,   \* the run's context is done
    outcome,   \* how its run ended, until the adapter has finished it
    told,      \* the jobs whose question subagent_answer said it answered
    \* The mailbox.
    items, taken, heard,
    activity,  \* the wake-up hint, a channel of one
    \* The manager.
    status,    \* the status it keeps of a member
    managed,   \* whether it has the member
    \* The runs of members and the goroutines that monitor them.
    loop,      \* what a run is doing, or how it ended, until its stream is closed
    question,  \* its question, from asked to resolved
    posed,     \* its question is an event on the way to the monitor
    live,      \* its context is not done
    monitor    \* how far its goroutine is

lead_vars == <<pc, runs, turn, aborted, outcome, told>>
mail_vars == <<items, taken, heard, activity>>
manager_vars == <<status, managed>>
run_vars == <<loop, question, posed, live, monitor>>
vars == <<lead_vars, mail_vars, manager_vars, run_vars>>

Init ==
    /\ pc = "idle" /\ runs = 0 /\ turn = 0 /\ aborted = FALSE
    /\ outcome = "none" /\ told = {}
    /\ items = <<>> /\ taken = 0 /\ heard = 0 /\ activity = FALSE
    /\ status = [m \in Member |-> "none"]
    /\ managed = [m \in Member |-> "no"]
    /\ loop = [j \in Job |-> "none"]
    /\ question = [j \in Job |-> "none"]
    /\ posed = [j \in Job |-> FALSE]
    /\ live = [j \in Job |-> FALSE]
    /\ monitor = [j \in Job |-> "none"]

-----------------------------------------------------------------------------
(* The manager and the mailbox.                                            *)

\* Mutant of Updated: a later event overwrites the end.
Overwritten(old, new) == new

\* The status after an update: a terminal one stands.
Updated(old, new) == IF old \in Terminal THEN old ELSE new

Mark(m, s) == status' = [status EXCEPT ![m] = Updated(@, s)]

\* Mutant of HasRunningChildren: a child counts until its task is started.
HasReadyChildren == \E m \in Member : managed[m] = "child" /\ status[m] = "ready"

HasRunningChildren ==
    \E m \in Member : managed[m] = "child" /\ status[m] = "running"

Enqueue(item) == items' = Append(items, item)
Signal == activity' = TRUE
ClearActivity == activity' = FALSE
Drain == taken' = Len(items)

\* The contexts of the runs that J holds are done.
Done(J) == live' = [j \in Job |-> live[j] /\ j \notin J]

-----------------------------------------------------------------------------
(* The lead's loop.                                                        *)

Goto(p) == pc' = p /\ UNCHANGED <<runs, turn, aborted, outcome, told>>

\* The end of a run, however it comes, cancels its context and with it those
\* of the members' runs.
End(o) ==
    /\ pc' = "ended" /\ outcome' = o
    /\ turn' = 0 /\ aborted' = FALSE
    /\ Done(Job)
    /\ UNCHANGED <<runs, told, mail_vars, manager_vars, loop, question, posed, monitor>>

\* The agent is kept between runs, or built again without its messages.
StartRun ==
    /\ pc = "idle" /\ runs < MaxRuns
    /\ pc' = "top" /\ runs' = runs + 1
    /\ heard' \in {heard, taken}
    /\ UNCHANGED <<turn, aborted, outcome, told, items, taken, activity,
                   manager_vars, run_vars>>

\* The checks at the top of a turn.
OutOfTurns == pc = "top" /\ turn >= MaxTurns /\ End("incomplete")

Aborted == pc = "top" /\ turn < MaxTurns /\ aborted /\ End("canceled")

\* Steering is drained at both ends of a turn: the queue under its lock, the
\* hint after it.
DrainSteering ==
    \/ /\ pc = "top" /\ turn < MaxTurns /\ ~aborted
       /\ Goto("topDrained") /\ Drain
       /\ UNCHANGED <<items, heard, activity, manager_vars, run_vars>>
    \/ /\ pc = "topDrained"
       /\ Goto("request") /\ ClearActivity
       /\ UNCHANGED <<items, taken, heard, manager_vars, run_vars>>
    \/ /\ pc = "tail"
       /\ Goto("tailDrained") /\ Drain
       /\ UNCHANGED <<items, heard, activity, manager_vars, run_vars>>

NextTurn ==
    /\ pc \in {"tailDrained", "stopFull"}
    /\ pc' = "top" /\ turn' = turn + 1 /\ ClearActivity
    /\ UNCHANGED <<runs, aborted, outcome, told, items, taken, heard,
                   manager_vars, run_vars>>

\* The provider answers with or without a tool call, or the stream fails.
Respond ==
    /\ pc = "request"
    /\ \E p \in {"tool", "stop"} : Goto(p)
    /\ heard' = taken
    /\ UNCHANGED <<items, taken, activity, manager_vars, run_vars>>

\* A response or a batch of results that cannot be saved fails the run too; a
\* request over the limits of the context or of images is not sent.
Fail ==
    \/ pc = "request" /\ End(IF aborted THEN "canceled" ELSE "failed")
    \/ pc \in {"request", "tail"} /\ End("failed")
    \/ pc = "request" /\ End("incomplete")

\* The user interrupts the run.
Cancel ==
    /\ pc \notin {"idle", "ended"} /\ ~aborted
    /\ aborted' = TRUE /\ Done(Job)
    /\ UNCHANGED <<pc, runs, turn, outcome, told, mail_vars,
                   manager_vars, loop, question, posed, monitor>>

-----------------------------------------------------------------------------
(* The tools.                                                              *)

OtherTool ==
    /\ pc = "tool" /\ Goto("tail")
    /\ UNCHANGED <<mail_vars, manager_vars, run_vars>>

\* A run of a member begins under the context of the lead's.
Begin(j) ==
    /\ loop' = [loop EXCEPT ![j] = "working"]
    /\ live' = [live EXCEPT ![j] = ~aborted]
    /\ monitor' = [monitor EXCEPT ![j] = "watching"]
    /\ UNCHANGED <<question, posed, mail_vars>>

Spawn(m) ==
    /\ pc = "tool" /\ managed[m] = "no"
    /\ managed' = [managed EXCEPT ![m] = "child"]
    /\ status' = [status EXCEPT ![m] = "running"]
    /\ Begin(<<m, "spawned">>)
    /\ Goto("tail")

\* subagent_send begins a run whether or not one is under way.
Send(m) ==
    /\ pc = "tool" /\ managed[m] = "child" /\ loop[<<m, "sent">>] = "none"
    /\ Cardinality({n \in Member : loop[<<n, "sent">>] # "none"}) < MaxSends
    /\ Mark(m, "running")
    /\ Begin(<<m, "sent">>)
    /\ Goto("tail") /\ UNCHANGED managed

\* Mutant of Answer: the silent contract of HandleQuestionResponse.
AnswerAnyway(j) ==
    /\ pc = "tool" /\ managed[Of(j)] = "child"
    /\ \E i \in 1..Len(items) : items[i] = Question(j)
    /\ question' = [question EXCEPT ![j] = IF @ = "open" THEN "answered" ELSE @]
    /\ told' = told \cup {j}
    /\ pc' = "tail"
    /\ UNCHANGED <<runs, turn, aborted, outcome, mail_vars, manager_vars, loop, posed,
                   live, monitor>>

\* subagent_answer reports an answer only of a question that was pending.
Answer(j) ==
    /\ pc = "tool" /\ managed[Of(j)] = "child"
    /\ \E i \in 1..Len(items) : items[i] = Question(j)
    /\ IF question[j] = "open"
       THEN /\ question' = [question EXCEPT ![j] = "answered"]
            /\ told' = told \cup {j}
       ELSE UNCHANGED <<question, told>>
    /\ pc' = "tail"
    /\ UNCHANGED <<runs, turn, aborted, outcome, mail_vars,
                   manager_vars, loop, posed, live, monitor>>

Destroy(m) ==
    /\ pc = "tool" /\ managed[m] = "child"
    /\ managed' = [managed EXCEPT ![m] = "gone"]
    /\ status' = [status EXCEPT ![m] = "none"]
    /\ Done({m} \X {"spawned", "sent"})
    /\ Goto("tail")
    /\ UNCHANGED <<mail_vars, loop, question, posed, monitor>>

\* subagent_wait returns at once when something is pending.
WaitTool ==
    /\ pc = "tool"
    /\ Goto(IF taken < Len(items) THEN "tail" ELSE "waiting")
    /\ UNCHANGED <<mail_vars, manager_vars, run_vars>>

\* Mutant of ToolWakes: without a timeout.
ToolHinted ==
    /\ pc = "waiting" /\ Goto("tail")
    /\ \/ activity /\ ClearActivity
       \/ aborted /\ UNCHANGED activity
    /\ UNCHANGED <<items, taken, heard, manager_vars, run_vars>>

\* Otherwise it waits for the hint, its timeout or the end of the run.
ToolWakes ==
    /\ pc = "waiting" /\ Goto("tail")
    /\ (activity /\ ClearActivity) \/ UNCHANGED activity
    /\ UNCHANGED <<items, taken, heard, manager_vars, run_vars>>

-----------------------------------------------------------------------------
(* The hook that is called when a turn would end the run.                  *)

\* Mutant of WouldStop: what it takes does not keep the run open.
WouldStopDeaf ==
    \/ /\ pc = "stop" /\ Goto("stopEmpty") /\ Drain
       /\ UNCHANGED <<items, heard, activity, manager_vars, run_vars>>
    \/ /\ pc = "stopEmpty" /\ ClearActivity
       /\ Goto(IF HasRunningChildren THEN "wait" ELSE "ending")
       /\ UNCHANGED <<items, taken, heard, manager_vars, run_vars>>

\* What is queued keeps the run open; a lead with nothing to hear stays while a
\* child runs, until the hook's deadline.  It is thirty-five minutes and a run
\* of a member has thirty, so none that was begun has time left then.
WouldStop ==
    \/ /\ pc \in {"stop", "look"}
       /\ Goto(IF taken < Len(items) THEN "stopFull"
               ELSE IF pc = "stop" THEN "stopEmpty" ELSE "lookEmpty")
       /\ Drain
       /\ UNCHANGED <<items, heard, activity, manager_vars, run_vars>>
    \/ /\ pc \in {"stopEmpty", "lookEmpty"} /\ ClearActivity
       /\ \/ HasRunningChildren /\ Goto("wait")
          \/ ~HasRunningChildren /\ Goto("ending")
          \/ pc = "lookEmpty" /\ (\A j \in Job : ~live[j]) /\ Goto("ending")
       /\ UNCHANGED <<items, taken, heard, manager_vars, run_vars>>

\* Mutant of HookWakes: it asks for its children before it drains.
HookAsks ==
    /\ pc = "wait"
    /\ \/ activity /\ ClearActivity
       \/ UNCHANGED activity
    /\ Goto(IF HasRunningChildren THEN "look" ELSE "ending")
    /\ UNCHANGED <<items, taken, heard, manager_vars, run_vars>>

\* It waits for the hint or for two seconds and looks again; the end of the run
\* lets it go.
HookWakes ==
    /\ pc = "wait"
    /\ \/ activity /\ ClearActivity /\ Goto("look")
       \/ UNCHANGED activity /\ Goto("look")
       \/ aborted /\ UNCHANGED activity /\ Goto("ending")
    /\ UNCHANGED <<items, taken, heard, manager_vars, run_vars>>

\* An answer that the provider cut off is no success.
Stop ==
    /\ pc = "ending"
    /\ IF aborted THEN End("canceled") ELSE End("success") \/ End("incomplete")

\* The adapter finishes the lead: with a cause, its children are taken from
\* the manager and those without an end get one.
Finish ==
    /\ pc = "ended" /\ pc' = "idle" /\ outcome' = "none"
    /\ \/ UNCHANGED <<status, managed>>
       \/ /\ outcome # "success"
          /\ managed' = [m \in Member |-> IF managed[m] = "child" THEN "gone"
                                          ELSE managed[m]]
          /\ status' = [m \in Member |-> IF managed[m] = "child"
                                         THEN Updated(status[m], "error")
                                         ELSE status[m]]
    /\ UNCHANGED <<runs, turn, aborted, told, mail_vars, run_vars>>

-----------------------------------------------------------------------------
(* A run of a member.                                                      *)

\* It registers the question and then sends the event; once its context is
\* done the event may be dropped.
Ask(j) ==
    /\ loop[j] = "working" /\ question[j] = "none"
    /\ Cardinality({k \in Job : question[k] # "none"}) < MaxAsks
    /\ loop' = [loop EXCEPT ![j] = "asking"]
    /\ question' = [question EXCEPT ![j] = "open"]
    /\ \E sent \in BOOLEAN : (sent \/ ~live[j]) /\ posed' = [posed EXCEPT ![j] = sent]
    /\ UNCHANGED <<lead_vars, mail_vars, manager_vars, live, monitor>>

Resolve(j, q) ==
    /\ loop' = [loop EXCEPT ![j] = "working"]
    /\ question' = [question EXCEPT ![j] = q]
    /\ UNCHANGED <<lead_vars, mail_vars, manager_vars, posed, live, monitor>>

AnswerArrives(j) == loop[j] = "asking" /\ question[j] = "answered" /\ Resolve(j, "got")

\* Mutant of AskAborted: only an answer ends the wait.
AskPersists(j) == FALSE /\ Resolve(j, "closed")

\* A select between an answer and the end of the context may take either.
AskAborted(j) ==
    /\ loop[j] = "asking" /\ ~live[j]
    /\ Resolve(j, IF question[j] = "answered" THEN "lost" ELSE "closed")

MemberEnds(j, s) ==
    /\ loop[j] = "working" /\ (s = "canceled" => ~live[j])
    /\ loop' = [loop EXCEPT ![j] = s]
    /\ UNCHANGED <<lead_vars, mail_vars, manager_vars, question, posed, live, monitor>>

\* The time a run has is over.
Timeout(j) ==
    /\ live[j] /\ loop[j] \in {"working", "asking"}
    /\ Done({j})
    /\ UNCHANGED <<lead_vars, mail_vars, manager_vars, loop, question, posed, monitor>>

-----------------------------------------------------------------------------
(* The goroutine that monitors it and receives its events in order.        *)

Step(j, from, to) == monitor[j] = from /\ monitor' = [monitor EXCEPT ![j] = to]

Forward(j) ==
    /\ posed[j] /\ Step(j, "watching", "forwarding")
    /\ posed' = [posed EXCEPT ![j] = FALSE]
    /\ Enqueue(Question(j))
    /\ UNCHANGED <<lead_vars, taken, heard, activity, manager_vars, loop, question, live>>

Hint(j) ==
    /\ Step(j, "forwarding", "watching") \/ Step(j, "queued", "notified")
    /\ Signal
    /\ UNCHANGED <<lead_vars, items, taken, heard, manager_vars, loop, question,
                   posed, live>>

\* EventRunFinished: the status, and after it the one notification.
RunFinished(j) ==
    /\ loop[j] \in Terminal /\ ~posed[j]
    /\ Step(j, "watching", IF j[2] = "spawned" THEN "marked" ELSE "notified")
    /\ Mark(Of(j), loop[j])
    /\ UNCHANGED <<lead_vars, mail_vars, managed, loop, question, posed, live>>

Notify(j) ==
    /\ Step(j, "marked", "queued")
    /\ Enqueue(Completion(j, loop[j]))
    /\ UNCHANGED <<lead_vars, taken, heard, activity, manager_vars, loop, question,
                   posed, live>>

\* The legacy event that follows, and the end of the stream.
Close(j) ==
    /\ Step(j, "notified", "over")
    /\ \/ Mark(Of(j), IF loop[j] = "done" THEN "done" ELSE "error")
       \/ ~live[j] /\ Mark(Of(j), "error")
    /\ Done({j}) /\ loop' = [loop EXCEPT ![j] = "over"]
    /\ UNCHANGED <<lead_vars, mail_vars, managed, question, posed>>

-----------------------------------------------------------------------------
LeadStep ==
    \/ OutOfTurns \/ Aborted \/ DrainSteering \/ NextTurn \/ Respond \/ Fail
    \/ OtherTool \/ WaitTool \/ ToolWakes \/ WouldStop \/ HookWakes \/ Stop \/ Finish
    \/ \E m \in Member : Spawn(m) \/ Send(m) \/ Destroy(m)
    \/ \E j \in Job : Answer(j)

MemberStep(j) ==
    AnswerArrives(j) \/ AskAborted(j) \/ \E s \in Ends : MemberEnds(j, s)

MonitorStep(j) == Forward(j) \/ Hint(j) \/ RunFinished(j) \/ Notify(j) \/ Close(j)

Next ==
    \/ StartRun \/ Cancel \/ LeadStep
    \/ \E j \in Job : Ask(j) \/ Timeout(j) \/ MemberStep(j) \/ MonitorStep(j)

\* Goroutines are scheduled; that time runs out is left to the properties.
Fairness ==
    /\ WF_vars(LeadStep)
    /\ \A j \in Job : WF_vars(MemberStep(j)) /\ WF_vars(MonitorStep(j))

Spec == Init /\ [][Next]_vars
FairSpec == Spec /\ Fairness

-----------------------------------------------------------------------------
(* Properties.                                                             *)

TypeOK ==
    /\ pc \in {"idle", "top", "topDrained", "request", "tool", "waiting", "tail",
               "tailDrained", "stop", "look", "stopFull", "stopEmpty", "lookEmpty",
               "wait", "ending", "ended"}
    /\ runs \in 0..MaxRuns /\ turn \in 0..MaxTurns
    /\ aborted \in BOOLEAN /\ outcome \in Outcome
    /\ told \subseteq Job
    /\ items \in Seq(Item) /\ heard \in Nat /\ taken \in Nat
    /\ heard <= taken /\ taken <= Len(items)
    /\ activity \in BOOLEAN
    /\ status \in [Member -> Terminal \cup {"none", "running"}]
    /\ managed \in [Member -> {"no", "child", "gone"}]
    /\ loop \in [Job -> Terminal \cup {"none", "working", "asking", "over"}]
    /\ question \in [Job -> {"none", "open", "answered", "got", "lost", "closed"}]
    /\ posed \in [Job -> BOOLEAN]
    /\ live \in [Job -> BOOLEAN]
    /\ monitor \in [Job -> {"none", "watching", "forwarding", "marked", "queued",
                            "notified", "over"}]

\* A run that succeeds has answered for every notification it took from the
\* mailbox: what the would-stop hook takes keeps the run open for another
\* request (injectFollowUpMessages, agent.go).
SuccessHasHeard == pc = "ended" /\ outcome = "success" => heard = taken

\* A member's run is under way and has time left.
Runs(j) == loop[j] \in {"working", "asking"} /\ live[j]

\* A lead that is about to end of itself leaves no member at work on the task it
\* was spawned for, but for one whose time is over: what the manager keeps of a
\* member follows its run (ComposeFollowUps).  A later message ends that: the
\* status of a member that has finished, or of the first of two runs to finish,
\* stands while the other goes on.
StaysForMembers ==
    pc = "ending" /\ ~aborted =>
        \A m \in Member : managed[m] = "child" /\ loop[<<m, "sent">>] = "none"
                          => ~Runs(<<m, "spawned">>)

\* What subagent_answer told the lead it answered was answered while the
\* member waited.  The end of the member's context can still take its place,
\* but never has it given up on the question before (DeliverQuestionAnswer).
AnswerReported == \A j \in told : question[j] \in {"answered", "got", "lost"}

\* The lead is told of a completion as the manager keeps it: neither the
\* legacy events that follow nor the other end of the race rewrites it.  A
\* later message and the removal of the member give it another.
CompletionMatchesStatus ==
    \A i \in 1..Len(items) :
        LET m == Of(items[i].job) IN
        items[i].kind = "completion" /\ managed[m] = "child" /\ loop[<<m, "sent">>] = "none"
        => status[m] = items[i].status

\* A lead that waits in the hook hears what is queued while it waits, unless it
\* is interrupted: the hint may be lost, the poll makes up for it, and neither the
\* last child's end nor the deadline comes before the queue (ComposeFollowUps).
HookHears ==
    \A r \in 1..MaxRuns :
        runs = r /\ pc = "wait" /\ taken < Len(items)
        ~> runs = r /\ (aborted \/ (pc = "stopFull" /\ taken = Len(items)))

\* No run keeps its context for ever: thirty minutes bound it.
TimeRunsOut == \A j \in Job : []<>~live[j]

\* A run of a member comes to its end once its time is over: one that waits for
\* an answer is let go, also of a lead that has ended (RequestQuestion).
MembersEnd == TimeRunsOut => \A j \in Job : monitor[j] = "watching" ~> monitor[j] = "over"

\* A run of the lead comes to its end, whoever it waits for and whoever waits
\* for it (ComposeFollowUps, subagent_wait).
RunEnds == TimeRunsOut => (pc # "idle" ~> pc = "idle")
=============================================================================
