--------------------------- MODULE DeliveryOutbox ---------------------------
(* The durable outbox of one reply: an intent and its ordered operations       *)
(* (caption, upload, send, fallback) in SQLite, the channel that sends the      *)
(* reply right after its run has ended, and the recovery workers of the serve   *)
(* processes that poll the table.  All of them claim an operation, call the     *)
(* platform and record what it answered; nothing holds a lock meanwhile.        *)
(* internal/dao/delivery.go, internal/session/delivery_store.go,                *)
(* internal/agentruntime/delivery_coordinator.go,                               *)
(* internal/serve/delivery_recovery.go, channels/dispatcher.go.                 *)
EXTENDS Naturals, FiniteSets

CONSTANTS
    Ops,            \* number of operations of the plan; an operation is its sequence number
    Prerequisite,   \* depends_on, 0 for none
    Before,         \* all it depends on, directly or not
    Texts,          \* operations that send text
    Uploads,        \* operations that upload an artifact; the others send one
    Recovery,       \* recovery workers, one per serve process
    Foreign,        \* those of the other platform: they poll the same table
    Channel,        \* channel controllers
    NoWorker,
    MaxDisruptions, \* crashes and operator retries
    MaxAccepted,    \* how far accepted counts
    PromptCalls     \* whether each single platform call ends within its lease

Op == 1 .. Ops
Worker == Recovery \cup Channel
NoOp == 0

ASSUME OutboxAssumption ==
    /\ Ops \in Nat
    /\ Prerequisite \in [Op -> 0 .. Ops]
    /\ Before \in [Op -> SUBSET Op]
    /\ \A o \in Op : Prerequisite[o] < o
    /\ \A o \in Op : Before[o] = IF Prerequisite[o] = NoOp THEN {}
                                 ELSE {Prerequisite[o]} \cup Before[Prerequisite[o]]
    /\ \A o \in Op : \A a \in Before[o] :    \* by induction from the line above
          /\ a < o /\ Before[a] \subseteq Before[o]
          /\ \A b \in Before[o] : a = b \/ a \in Before[b] \/ b \in Before[a]
    /\ Texts \subseteq Op /\ Uploads \subseteq Op
    /\ Recovery \cap Channel = {} /\ Foreign \subseteq Recovery /\ NoWorker \notin Worker
    /\ MaxDisruptions \in Nat /\ MaxAccepted \in Nat /\ PromptCalls \in BOOLEAN

VARIABLES
    row,        \* delivery_operations
    intent,     \* delivery_intents.status
    worker,     \* the goroutines that deliver
    reopened,   \* per serve process: deliveryReopened
    accepted,   \* the calls by which the recipient's platform took an operation,
                \* counted; not known to the program
    disruptions

vars == <<row, intent, worker, reopened, accepted, disruptions>>

Good     == {"uploaded", "delivered", "unsupported"}
Lost     == {"failed", "uncertain"}
Open     == {"pending", "uploading", "retry_wait"}    \* claimable; no caller writes "sending"
Resolved == Good \cup Lost
Code     == {"none", "transient", "permanent", "dependency"}

\* The epoch of a claim is compared with its owner only, so it is represented by
\* the worker that made the newest claim: claimant.
Row == [status : Open \cup Resolved, code : Code, claimant : Worker \cup {NoWorker},
        leased : BOOLEAN, due : BOOLEAN, windowOver : BOOLEAN]
Result == [status : {"retry_wait"} \cup Resolved, code : Code \ {"dependency"}]
NoResult == [status |-> "retry_wait", code |-> "none"]
WorkerState == [pc : {"idle", "reopening", "looping", "claimed", "called", "giveup"},
                op : Op \cup {NoOp}, batch : SUBSET Op, over : SUBSET Op,
                aged : BOOLEAN, result : Result]
Idle == [pc |-> "idle", op |-> NoOp, batch |-> {}, over |-> {}, aged |-> FALSE,
         result |-> NoResult]

TypeOK ==
    /\ row \in [Op -> Row]
    /\ intent \in {"pending", "delivered", "failed", "uncertain"}
    /\ worker \in [Worker -> WorkerState]
    /\ reopened \in [Recovery -> SUBSET Op]
    /\ accepted \in [Op -> 0 .. MaxAccepted]
    /\ disruptions \in 0 .. MaxDisruptions

\* The plan has just been committed with the end of its run; the channel has it.
Init ==
    /\ row = [o \in Op |-> [status |-> "pending", code |-> "none", claimant |-> NoWorker,
                            leased |-> FALSE, due |-> TRUE, windowOver |-> FALSE]]
    /\ intent = "pending"
    /\ worker = [w \in Worker |-> IF w \in Channel THEN [Idle EXCEPT !.pc = "looping", !.batch = Op]
                                  ELSE Idle]
    /\ reopened = [w \in Recovery |-> {}]
    /\ accepted = [o \in Op |-> 0]
    /\ disruptions = 0

-----------------------------------------------------------------------------
(* The statements of the store. *)

\* PropagateDependencyFailures in closed form: an operation is doomed by the
\* nearest operation before it that does not wait, if that one failed or is uncertain.
Waits(rows, o) == rows[o].status \in {"pending", "retry_wait"}
Dooms(rows, a, o) ==
    /\ Waits(rows, o) /\ a \in Before[o] /\ rows[a].status \in Lost
    /\ \A b \in Before[o] : a \in Before[b] => Waits(rows, b)

\* Mutant of Propagated: one statement instead of the loop.
PropagatedOnce(rows) ==
    [o \in Op |-> IF \E a \in Op : Prerequisite[o] = a /\ Dooms(rows, a, o)
                  THEN [rows[o] EXCEPT !.status = rows[Prerequisite[o]].status,
                                       !.code = "dependency", !.claimant = NoWorker,
                                       !.leased = FALSE, !.due = TRUE, !.windowOver = FALSE]
                  ELSE rows[o]]

Propagated(rows) ==
    [o \in Op |-> IF \E a \in Op : Dooms(rows, a, o)
                  THEN [rows[o] EXCEPT !.status = IF \E a \in Op : Dooms(rows, a, o)
                                                      /\ rows[a].status = "uncertain"
                                                  THEN "uncertain" ELSE "failed",
                                       !.code = "dependency", !.claimant = NoWorker,
                                       !.leased = FALSE, !.due = TRUE, !.windowOver = FALSE]
                  ELSE rows[o]]

\* refreshDeliveryIntentStatusByIDTx.
Aggregate(rows) ==
    LET all(S) == \A o \in Op : rows[o].status \in S
        some(S) == \E o \in Op : rows[o].status \in S
    IN  IF all(Good) /\ Ops > 0 THEN "delivered"
        ELSE IF some({"failed"}) /\ all(Resolved) THEN "failed"
        ELSE IF some({"uncertain"}) /\ all(Resolved) THEN "uncertain"
        ELSE "pending"

Refresh(rows) == row' = Propagated(rows) /\ intent' = Aggregate(row')

\* Mutant of Due: a claim is not found again when its lease has run out.
DueUnclaimed(o) == row[o].status \in Open /\ row[o].due /\ row[o].claimant = NoWorker

\* DueIDs: what a scan finds.
Due(o) == row[o].status \in Open /\ row[o].due /\ (row[o].claimant = NoWorker \/ ~row[o].leased)

\* Mutant of Claimable: the dependency is left to the order of the scan.
ClaimableAnyOrder(o) == intent \notin {"delivered", "failed"} /\ Due(o)

\* Claim: the row is due and free, its prerequisite is met, its intent not closed.
Claimable(o) ==
    /\ intent \notin {"delivered", "failed"}
    /\ Due(o)
    /\ Prerequisite[o] # NoOp => row[Prerequisite[o]].status \in Good

\* Mutant of Fenced: without a valid lease anyone may record.
FencedByLease(w, o) == row[o].claimant = w \/ ~row[o].leased

\* UpdateResult and UpdateProgress compare owner and epoch, nothing else.
Fenced(w, o) == row[o].claimant = w

-----------------------------------------------------------------------------
(* A worker goes through a batch of operations. *)

\* In the order of the plan; the channel sends its texts first.
First(w, o) ==
    LET batch == worker[w].batch
        ahead == IF w \in Channel /\ batch \cap Texts # {} THEN batch \cap Texts ELSE batch
    IN  o \in ahead /\ \A p \in ahead : o <= p

Sends == Op \ (Texts \cup Uploads)
Attachment(o) == {o} \cup {p \in Sends : Prerequisite[p] = o}

At(w, pc) == worker[w].pc = pc
Takes(w, o) ==
    row' = [row EXCEPT ![o].claimant = w, ![o].leased = ~worker[w].aged]

\* ReconcileDue, DeliveryCoordinator.Claim; a recovery worker claims with the
\* clock of its scan, so an aged one takes a lease that has already run out.
Claim(w) ==
    /\ At(w, "looping")
    /\ \E o \in Op :
       /\ First(w, o)
       /\ Claimable(o)
       /\ Takes(w, o)
       /\ worker' = [worker EXCEPT ![w].pc = "claimed", ![w].op = o, ![w].batch = @ \ {o}]
    /\ UNCHANGED <<intent, reopened, accepted, disruptions>>

\* The channel's claim of what is delivered already returns the row without an
\* error, and the adapter sends it.
Delivered(w, o) == w \in Channel /\ row[o].status \in {"delivered", "unsupported"}
SendAnyway(w) ==
    /\ At(w, "looping")
    /\ \E o \in Op :
       /\ First(w, o)
       /\ Delivered(w, o)
       /\ worker' = [worker EXCEPT ![w].pc = "claimed", ![w].op = o, ![w].batch = @ \ {o}]
    /\ UNCHANGED <<row, intent, reopened, accepted, disruptions>>

\* ErrDeliveryOperationBusy.  Recovery goes on; the channel drops its attachments
\* after a text, and after an attachment reports that one as failed.
Busy(w) ==
    /\ At(w, "looping")
    /\ \E o \in Op :
       /\ First(w, o)
       /\ worker[w].aged \/ ~(Claimable(o) \/ Delivered(w, o))
       /\ \/ /\ w \in Recovery
             /\ worker' = [worker EXCEPT ![w].batch = @ \ {o}]
          \/ /\ w \in Channel /\ o \in Texts
             /\ worker' = [worker EXCEPT ![w].batch = (@ \cap Texts) \ {o}]
          \/ /\ w \in Channel /\ o \notin Texts
             /\ \/ worker' = [worker EXCEPT ![w].batch = @ \ Attachment(o)]
                \/ \E p \in Attachment(o) :
                       worker' = [worker EXCEPT ![w].batch = @ \ Attachment(o),
                                                ![w].pc = "giveup", ![w].op = p]
    /\ UNCHANGED <<row, intent, reopened, accepted, disruptions>>

\* The completion callback of an abandoned attachment claims once more, and if
\* that succeeds records a failure nobody will retry.
GiveUp(w) ==
    /\ At(w, "giveup")
    /\ \/ /\ Claimable(worker[w].op)
          /\ Takes(w, worker[w].op)
          /\ worker' = [worker EXCEPT ![w].pc = "called",
                            ![w].result = [status |-> "failed", code |-> "permanent"]]
       \/ /\ ~Claimable(worker[w].op)
          /\ worker' = [worker EXCEPT ![w].pc = "looping", ![w].op = NoOp]
          /\ UNCHANGED row
    /\ UNCHANGED <<intent, reopened, accepted, disruptions>>

\* UpdateDeliveryOperationProgress, of a channel that uploads.
Progress(w) ==
    LET o == worker[w].op IN
    /\ At(w, "claimed") /\ w \in Channel /\ o \in Uploads
    /\ Fenced(w, o) /\ row[o].status # "uploading"
    /\ Refresh([row EXCEPT ![o].status = "uploading", ![o].code = "none"])
    /\ UNCHANGED <<worker, reopened, accepted, disruptions>>

\* What a platform adapter may answer, and whether the message reached the recipient;
\* another platform answers as well, and reaches nobody.
Answers(w, o) ==
    LET answer(s, c) == [status |-> s, code |-> c]
        failures == {answer("failed", "permanent"), answer("failed", "transient"),
                     answer("retry_wait", "none")}
    IN  IF o \in Uploads THEN failures \cup {answer("uploaded", "none")}
        ELSE failures \cup {answer("delivered", "none"), answer("uncertain", "none")}
Reached(w, o, a) ==
    IF w \in Foreign THEN {FALSE}
    ELSE IF a.status = "delivered" THEN {TRUE}
    ELSE IF \/ a.status = "uncertain"
            \/ a.status = "retry_wait" /\ w \in Channel /\ o \notin Uploads THEN BOOLEAN
    ELSE {FALSE}

\* The platform call; its length is what ages the clock of the batch.
Call(w) ==
    LET o == worker[w].op IN
    /\ At(w, "claimed")
    /\ \E a \in Answers(w, o), late \in BOOLEAN :
          /\ late => w \in Recovery /\ worker[w].batch # {}
          /\ worker' = [worker EXCEPT ![w].pc = "called", ![w].result = a,
                                      ![w].aged = @ \/ late]
          /\ \E reached \in Reached(w, o, a) :
                accepted' = [accepted EXCEPT ![o] = IF reached /\ @ < MaxAccepted THEN @ + 1 ELSE @]
    /\ UNCHANGED <<row, intent, reopened, disruptions>>

\* retryExhausted, by the clock of the scan; only recovery looks at the window.
Exhausted(w) == /\ w \in Recovery /\ worker[w].result.status = "retry_wait"
                /\ worker[w].op \in worker[w].over
Outcome(w) == IF Exhausted(w) THEN [status |-> "failed", code |-> "transient"] ELSE worker[w].result

After(r, res) ==
    [r EXCEPT !.status = res.status, !.code = res.code, !.claimant = NoWorker,
              !.leased = FALSE, !.due = res.status # "retry_wait",
              !.windowOver = @ /\ res.status = "retry_wait"]
Recorded(o, res) == [row EXCEPT ![o] = After(@, res)]

\* Mutant of UpdateResult: the aggregate is left to the next scan.
UpdateResultOnly(w, o, res) ==
    IF Fenced(w, o) THEN row' = Propagated(Recorded(o, res)) /\ UNCHANGED intent
    ELSE UNCHANGED <<row, intent>>

\* UpdateDeliveryOperation: a worker that lost its claim changes nothing.
UpdateResult(w, o, res) ==
    IF Fenced(w, o) THEN Refresh(Recorded(o, res)) ELSE UNCHANGED <<row, intent>>

\* What a worker does after it tried to record: the channel skips the send of an
\* attachment that did not get through, or reports it as failed.
Continues(w) ==
    LET o == worker[w].op
        to(pc, op, batch) == worker' = [worker EXCEPT ![w].pc = pc, ![w].op = op,
                                            ![w].batch = batch, ![w].result = NoResult]
    IN  IF w \in Channel /\ o \notin Texts /\ worker[w].result.status \notin Good
        THEN \/ to("looping", NoOp, worker[w].batch \ Attachment(o))
             \/ /\ worker[w].result.status = "retry_wait"
                /\ \E p \in Attachment(o) \ Uploads :
                       to("giveup", p, worker[w].batch \ Attachment(o))
        ELSE to("looping", NoOp, worker[w].batch)

Record(w) ==
    /\ At(w, "called")
    /\ UpdateResult(w, worker[w].op, Outcome(w))
    /\ Continues(w)
    /\ UNCHANGED <<reopened, accepted, disruptions>>

\* The store fails: the channel logs that and goes on, recovery ends its pass.
RecordFails(w) ==
    /\ At(w, "called")
    /\ IF w \in Channel THEN Continues(w) ELSE worker' = [worker EXCEPT ![w] = Idle]
    /\ UNCHANGED <<row, intent, reopened, accepted, disruptions>>

Done(w) ==
    /\ At(w, "looping") /\ worker[w].batch = {}
    /\ worker' = [worker EXCEPT ![w] = Idle]
    /\ UNCHANGED <<row, intent, reopened, accepted, disruptions>>

-----------------------------------------------------------------------------
(* A pass of a recovery worker: reopen, scan, go through the batch. *)

Transient(o) == row[o].status = "failed" /\ row[o].code = "transient"

\* ReopenTransientFailure, ReopenDependentFailures.
Reopened(o) ==
    [p \in Op |-> IF p = o \/ (row[p].status = "failed" /\ row[p].code = "dependency")
                  THEN [row[p] EXCEPT !.status = "retry_wait", !.code = "none", !.due = TRUE,
                                      !.windowOver = FALSE]
                  ELSE row[p]]

\* ReopenFailedDeliveryOperation.
Reopen(o) == IF Transient(o) THEN Refresh(Reopened(o)) ELSE UNCHANGED <<row, intent>>

\* Reopening looks at its own platform, unlike the scan.
StartPass(w) ==
    /\ w \in Recovery /\ At(w, "idle")
    /\ worker' = [worker EXCEPT ![w].pc = "reopening",
                      ![w].batch = IF w \in Foreign THEN {} ELSE {o \in Op : Transient(o)}]
    /\ UNCHANGED <<row, intent, reopened, accepted, disruptions>>

\* Once per process and operation, marked before it is tried.
ReopenNext(w) ==
    /\ At(w, "reopening")
    /\ \E o \in Op :
       /\ First(w, o)
       /\ worker' = [worker EXCEPT ![w].batch = @ \ {o}]
       /\ reopened' = [reopened EXCEPT ![w] = @ \cup {o}]
       /\ IF o \in reopened[w] THEN UNCHANGED <<row, intent>>
          ELSE Reopen(o) \/ UNCHANGED <<row, intent>>
    /\ UNCHANGED <<accepted, disruptions>>

Scan(w) ==
    /\ At(w, "reopening") /\ worker[w].batch = {}
    /\ worker' = [worker EXCEPT ![w].pc = "looping", ![w].batch = {o \in Op : Due(o)},
                                ![w].over = {o \in Op : Due(o) /\ row[o].windowOver}]
    /\ UNCHANGED <<row, intent, reopened, accepted, disruptions>>

-----------------------------------------------------------------------------
(* Time, crashes, operators. *)

Working(w, o) == worker[w].op = o /\ worker[w].pc \in {"claimed", "called"}

Expire(o) ==
    /\ row[o].leased
    /\ PromptCalls => ~Working(row[o].claimant, o)
    /\ row' = [row EXCEPT ![o].leased = FALSE]
    /\ UNCHANGED <<intent, worker, reopened, accepted, disruptions>>

DueAgain(o) ==
    /\ ~row[o].due
    /\ row' = [row EXCEPT ![o].due = TRUE]
    /\ UNCHANGED <<intent, worker, reopened, accepted, disruptions>>

\* RetryWindow since the plan was created or the operation reopened.
WindowPasses(o) ==
    /\ row[o].status \in Open /\ ~row[o].windowOver
    /\ row' = [row EXCEPT ![o].windowOver = TRUE]
    /\ UNCHANGED <<intent, worker, reopened, accepted, disruptions>>

\* A new process takes up recovery; the reply of a dead channel is left to it.
Crash(w) ==
    /\ disruptions < MaxDisruptions
    /\ disruptions' = disruptions + 1
    /\ worker' = [worker EXCEPT ![w] = Idle]
    /\ reopened' = [v \in Recovery |-> IF v = w THEN {} ELSE reopened[v]]
    /\ UNCHANGED <<row, intent, accepted>>

OperatorRetry(o) ==
    /\ disruptions < MaxDisruptions
    /\ disruptions' = disruptions + 1
    /\ Transient(o) /\ Reopen(o)
    /\ UNCHANGED <<worker, reopened, accepted>>

Step(w) ==
    \/ Claim(w) \/ SendAnyway(w) \/ Busy(w) \/ GiveUp(w) \/ Call(w) \/ Record(w) \/ Done(w)
    \/ StartPass(w) \/ ReopenNext(w) \/ Scan(w)

Next ==
    \/ \E w \in Worker : Step(w) \/ Progress(w) \/ RecordFails(w) \/ Crash(w)
    \/ \E o \in Op : Expire(o) \/ DueAgain(o) \/ WindowPasses(o) \/ OperatorRetry(o)

Spec == Init /\ [][Next]_vars

\* The platform stays connected, so its worker polls; calls end; time passes; a
\* store that fails does not fail for ever.
Fairness ==
    /\ \A w \in Worker : WF_vars(Step(w)) /\ SF_vars(Record(w))
    /\ \A o \in Op : WF_vars(Expire(o)) /\ WF_vars(DueAgain(o)) /\ WF_vars(WindowPasses(o))

FairSpec == Spec /\ Fairness

-----------------------------------------------------------------------------
(* Properties. *)

\* An operation is claimed, reaches the recipient or is done only when the one it
\* depends on has succeeded, and that one's success stands: no attachment before
\* its caption, no send without its upload (DeliveryDAO.Claim).
PrerequisiteFirst ==
    \A o \in Op : LET p == Prerequisite[o] IN
        /\ p # NoOp
        /\ \/ row[o].claimant # NoWorker \/ accepted[o] > 0
           \/ row[o].status \in Good \cup {"uploading"}
        => row[p].status \in Good

\* Nothing waits for a prerequisite that failed or is uncertain: whoever recorded
\* that resolved all its dependents, however long the chain.
NobodyWaitsForLost ==
    \A o \in Op : LET p == Prerequisite[o] IN
        p # NoOp /\ row[p].status \in Lost => row[o].status \in Lost

\* The intent always says what its operations say, so a claimable operation is
\* never hidden under an intent that Claim takes for closed.
IntentAgrees == intent = Aggregate(row)

\* ReplyPlan is implemented: of the workers, claims and scans nobody sees more than
\* that each part gets one outcome, after its prerequisites, that a loss takes along
\* exactly what depends on the lost part, that only a transient failure is tried again,
\* with what it took along, and that the parts arrive in order.  A worker that was
\* displaced while the platform was slow changes none of this.
Fate(r) ==
    IF r.status \in Open THEN "open"
    ELSE IF r.status \in Good THEN "done"
    ELSE IF r.code = "dependency" THEN "skipped"
    ELSE IF r.status = "uncertain" THEN "uncertain"
    ELSE IF r.code = "transient" THEN "failed" ELSE "refused"
Plan == INSTANCE ReplyPlan WITH fate <- [o \in Op |-> Fate(row[o])], reply <- intent,
                                received <- {o \in Op : accepted[o] > 0}
ImplementsPlan == Plan!Spec

\* Every reply settles: delivered, failed or uncertain, and again after each reopening.
ReplySettles == intent = "pending" ~> intent # "pending"

\* A confirmed message is not sent again.  Does not hold: see the run delivery_resent.
ConfirmedNotResent ==
    [][\A o \in Op : row[o].status = "delivered" => accepted'[o] = accepted[o]]_vars
=============================================================================
