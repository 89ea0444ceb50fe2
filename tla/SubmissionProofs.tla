-------------------------- MODULE SubmissionProofs --------------------------
(***************************************************************************)
(* Machine-checked proofs about Submission, for every finite set of          *)
(* submissions and every bound on the cancelled contexts.                    *)
(***************************************************************************)
EXTENDS Submission, FiniteSetTheorems, SequenceTheorems, TLAPS

(***************************************************************************)
(* What makes the properties inductive.                                      *)
(***************************************************************************)

\* Who is queued was accepted, is queued once, and nothing has become of it yet.
QueueDistinct == \A i, j \in DOMAIN queue : queue[i] = queue[j] => i = j
WaitingIsUntouched ==
    \A s \in Sub : Waiting(s) => thread[s] = "none" /\ s \notin published /\ Accepted(s)

\* Nothing happens to a submission before it is submitted.
NewIsUntouched ==
    \A s \in Sub : owner[s] = "new" =>
        thread[s] = "none" /\ s \notin published /\ ~Accepted(s)

\* The admission guard belongs to a runner that has not got to its release.
GuardIsRunners == guard # NoSub => thread[guard] \in {"running", "completing"}

\* The queue is in the order of acceptance, which names each submission once.
AcceptedDistinct == \A i, j \in DOMAIN accepted : accepted[i] = accepted[j] => i = j
QueueInOrder ==
    \A k, m \in DOMAIN queue : \A i, j \in DOMAIN accepted :
        queue[k] = accepted[i] /\ queue[m] = accepted[j] /\ i < j => k < m

\* First come, first served: nobody is executed while an earlier one still waits.
FirstComeFirstServed ==
    \A i, j \in DOMAIN accepted :
        i < j /\ thread[accepted[j]] # "none" => ~Waiting(accepted[i])

\* The reference count counts the runtime and the owners that share the coordinator, but
\* for what was dropped twice.
RefsCountSharers ==
    (IF runtimeRef THEN 1 ELSE 0) + Cardinality(Sharing) <= refs + overdrafts
ClosingIsUnreferenced == closing => refs = 0
NewHasNoPolicy == \A s \in Sub : owner[s] = "new" => policy[s] = "none"

QueueInv == QueueDistinct /\ WaitingIsUntouched /\ NewIsUntouched
OrderInv == AcceptedDistinct /\ QueueInOrder /\ FirstComeFirstServed
GuardInv == GuardIsRunners /\ CompletionIsLast
RefsInv == RefsCountSharers /\ ClosingIsUnreferenced /\ NewHasNoPolicy

IInv == TypeOK /\ OneAtATime /\ QueueInv /\ OrderInv /\ GuardInv /\ RefsInv

-----------------------------------------------------------------------------
(* The queue without one of its entries. *)

\* r is q without its i-th entry.
Drops(q, r, i) ==
    /\ i \in 1 .. Len(q) /\ r \in Seq(Sub) /\ DOMAIN r = 1 .. Len(q) - 1
    /\ \A k \in 1 .. Len(q) - 1 : r[k] = IF k < i THEN q[k] ELSE q[k + 1]

LEMMA RemoveAtDrops ==
    ASSUME NEW q \in Seq(Sub), NEW i \in DOMAIN q
    PROVE  Drops(q, RemoveAt(q, i), i)
<1> DEFINE before == SubSeq(q, 1, i - 1)
           after == SubSeq(q, i + 1, Len(q))
<1>1. Len(q) \in Nat /\ DOMAIN q = 1 .. Len(q) /\ i \in 1 .. Len(q)
      /\ \A k \in 1 .. Len(q) : q[k] \in Sub
    BY LenProperties, ElementOfSeq
<1>2. /\ before \in Seq(Sub) /\ Len(before) = i - 1
      /\ \A k \in 1 .. i - 1 : before[k] = q[k]
    <2>1. \A k \in 1 .. i - 1 : q[k] \in Sub
        BY <1>1
    <2> QED
        BY <1>1, <2>1, SubSeqProperties
<1>3. /\ after \in Seq(Sub) /\ Len(after) = Len(q) - i
      /\ \A k \in 1 .. Len(q) - i : after[k] = q[k + i]
    <2>1. \A k \in i + 1 .. Len(q) : q[k] \in Sub
        BY <1>1
    <2> QED
        BY <1>1, <2>1, SubSeqProperties
<1> HIDE DEF before, after
<1> DEFINE r == before \o after
<1>4. /\ r \in Seq(Sub) /\ Len(r) = Len(q) - 1
      /\ \A k \in 1 .. Len(q) - 1 : r[k] = IF k < i THEN q[k] ELSE q[k + 1]
    <2>1. /\ r \in Seq(Sub) /\ Len(r) = Len(before) + Len(after)
          /\ \A k \in 1 .. Len(before) + Len(after) :
                r[k] = IF k <= Len(before) THEN before[k] ELSE after[k - Len(before)]
        BY <1>2, <1>3, ConcatProperties
    <2> HIDE DEF r
    <2>2. Len(r) = Len(q) - 1
        BY <2>1, <1>1, <1>2, <1>3
    <2>3. ASSUME NEW k \in 1 .. Len(q) - 1
          PROVE  r[k] = IF k < i THEN q[k] ELSE q[k + 1]
        <3>1. r[k] = IF k <= i - 1 THEN before[k] ELSE after[k - (i - 1)]
            BY <2>1, <1>1, <1>2, <1>3
        <3>2. CASE k < i
            BY <3>1, <3>2, <1>1, <1>2
        <3>3. CASE ~(k < i)
            <4>1. k - (i - 1) \in 1 .. Len(q) - i /\ (k - (i - 1)) + i = k + 1 /\ ~(k <= i - 1)
                BY <3>3, <1>1
            <4> QED
                BY <3>1, <3>3, <4>1, <1>3
        <3> QED
            BY <3>2, <3>3
    <2> QED
        BY <2>1, <2>2, <2>3
<1>5. DOMAIN r = 1 .. Len(r)
    BY <1>4, LenProperties
<1> QED
    BY <1>1, <1>4, <1>5 DEF Drops, RemoveAt, before, after

LEMMA TailDrops ==
    ASSUME NEW q \in Seq(Sub), q # <<>>
    PROVE  Drops(q, Tail(q), 1) /\ Head(q) = q[1] /\ Head(q) \in Sub
<1>1. Len(q) \in Nat \ {0}
    BY EmptySeq
<1>2. /\ Tail(q) \in Seq(Sub) /\ Len(Tail(q)) = Len(q) - 1 /\ Head(q) \in Sub
      /\ \A k \in 1 .. Len(q) - 1 : Tail(q)[k] = q[k + 1]
    BY HeadTailProperties
<1>3. DOMAIN Tail(q) = 1 .. Len(Tail(q))
    BY <1>2, LenProperties
<1> QED
    BY <1>1, <1>2, <1>3 DEF Drops

\* A queue that loses an entry keeps its order, and the entry is not queued any more.
LEMMA DropKeeps ==
    ASSUME NEW i, TypeOK, QueueDistinct, QueueInOrder, Drops(queue, queue', i), accepted' = accepted
    PROVE  /\ QueueDistinct' /\ QueueInOrder'
           /\ \A s : Waiting(s)' => Waiting(s) /\ s # queue[i]
<1> DEFINE old(k) == IF k < i THEN k ELSE k + 1
<1>1. Len(queue) \in Nat /\ DOMAIN queue = 1 .. Len(queue) /\ i \in 1 .. Len(queue)
    BY LenProperties DEF TypeOK, Drops
<1>2. \A k \in DOMAIN queue' : old(k) \in DOMAIN queue /\ old(k) # i /\ queue'[k] = queue[old(k)]
    BY <1>1 DEF Drops
<1>3. \A k, m \in DOMAIN queue' : /\ old(k) = old(m) => k = m
                                  /\ old(k) < old(m) => k < m
    BY <1>1 DEF Drops
<1> HIDE DEF old
<1>4. QueueDistinct'
    BY <1>2, <1>3 DEF QueueDistinct
<1>5. QueueInOrder'
    BY <1>2, <1>3 DEF QueueInOrder
<1>6. \A s : Waiting(s)' => Waiting(s) /\ s # queue[i]
    BY <1>1, <1>2 DEF QueueDistinct, Waiting
<1> QED
    BY <1>4, <1>5, <1>6

-----------------------------------------------------------------------------
(* Type correctness. *)

LEMMA InitType == Init => TypeOK
<1> SUFFICES ASSUME Init PROVE TypeOK
    OBVIOUS
<1>1. <<>> \in Seq(Sub)
    BY EmptySeq
<1> QED
    BY <1>1 DEF Init, TypeOK

LEMMA CompleteType ==
    ASSUME TypeOK, NEW S \in SUBSET Sub, Complete(S)
    PROVE  published' \subseteq Sub /\ admission' \in [Sub -> {"open", "ready", "failed"}]
BY DEF TypeOK, Complete

LEMMA StartType ==
    ASSUME TypeOK, NEW s \in Sub, Start(s)
    PROVE  /\ active' \in Sub \cup {NoSub} /\ queue' \in Seq(Sub)
           /\ thread' \in [Sub -> {"none", "admitting", "backoff", "running", "completing",
                                   "released", "over"}]
<1>1. Append(queue, s) \in Seq(Sub)
    BY AppendProperties DEF TypeOK
<1> QED
    BY <1>1 DEF TypeOK, Start

LEMMA DropReferenceType ==
    ASSUME TypeOK, DropReference
    PROVE  refs' \in Nat /\ closing' \in BOOLEAN
BY DEF TypeOK, DropReference

LEMMA StepType ==
    ASSUME TypeOK, [Next]_vars
    PROVE  TypeOK'
<1> USE DEF runtime_vars
<1>1. ASSUME NEW s \in Sub, Submit(s)
      PROVE  TypeOK'
    <2>1. PICK a \in Adapter : Submit(s)!(a)
        BY <1>1 DEF Submit
    <2>2. /\ policy' \in [Sub -> Adapter \cup {"none"}]
          /\ owner' \in [Sub -> {"new", "waiting", "working", "begun", "terminal", "ended", "left"}]
        BY <2>1 DEF TypeOK
    <2>3. refs' \in Nat /\ accepted' \in Seq(Sub)
        <3>1. Append(accepted, s) \in Seq(Sub)
            BY AppendProperties DEF TypeOK
        <3>2. CASE closed \/ (active # NoSub /\ ~MayQueue(a))
            BY <2>1, <3>2 DEF TypeOK
        <3>3. CASE ~(closed \/ (active # NoSub /\ ~MayQueue(a)))
            <4>1. accepted' = Append(accepted, s) /\ refs' = IF a = "shared" THEN refs + 1 ELSE refs
                BY <2>1, <3>3
            <4> QED
                BY <4>1, <3>1 DEF TypeOK
        <3> QED
            BY <3>2, <3>3
    <2>4. /\ active' \in Sub \cup {NoSub} /\ queue' \in Seq(Sub)
          /\ thread' \in [Sub -> {"none", "admitting", "backoff", "running", "completing",
                                  "released", "over"}]
        BY <2>1, StartType DEF TypeOK
    <2> QED
        BY <2>1, <2>2, <2>3, <2>4 DEF TypeOK, handle_vars, lease_vars
<1>2. ASSUME NEW s \in Sub, CallerCancels(s) \/ Cancel(s)
      PROVE  TypeOK'
    BY <1>2 DEF TypeOK, CallerCancels, Cancel, queue_vars, lease_vars
<1>3. ASSUME NEW s \in Sub, CancelQueued(s)
      PROVE  TypeOK'
    <2>1. queue' \in Seq(Sub)
        BY <1>3, RemoveAtDrops DEF CancelQueued, Drops, TypeOK
    <2>2. published' \subseteq Sub /\ admission' \in [Sub -> {"open", "ready", "failed"}]
        BY <1>3, CompleteType DEF CancelQueued
    <2> QED
        BY <1>3, <2>1, <2>2 DEF TypeOK, CancelQueued, lease_vars
<1>4. ASSUME NEW s \in Sub, CompleteAndNext(s)
      PROVE  TypeOK'
    <2>1. published' \subseteq Sub /\ admission' \in [Sub -> {"open", "ready", "failed"}]
        BY <1>4, CompleteType DEF CompleteAndNext
    <2>2. CASE queue = <<>>
        BY <1>4, <2>1, <2>2 DEF TypeOK, CompleteAndNext, lease_vars
    <2>3. CASE queue # <<>>
        <3>1. Head(queue) \in Sub /\ Tail(queue) \in Seq(Sub)
            BY <2>3, TailDrops DEF TypeOK, Drops
        <3> QED
            BY <1>4, <2>1, <2>3, <3>1 DEF TypeOK, CompleteAndNext, lease_vars
    <2> QED
        BY <2>2, <2>3
<1>5. ASSUME NEW s \in Sub,
             \/ AdmitOk(s) \/ AdmitBusy(s) \/ AdmitFails(s) \/ BackoffEnds(s) \/ BackoffOver(s)
             \/ RunnerReturns(s) \/ ReleaseGuard(s)
      PROVE  TypeOK'
    BY <1>5 DEF TypeOK, AdmitOk, AdmitBusy, AdmitFails, BackoffEnds, BackoffOver, RunnerReturns,
       ReleaseGuard, Goes, queue_vars, handle_vars, lease_vars
<1>6. ASSUME NEW s \in Sub, Own(s)
      PROVE  TypeOK'
    <2>1. CASE OwnerReleases(s)
        BY <1>6, <2>1, DropReferenceType DEF TypeOK, OwnerReleases, OwnerStep, handle_vars
    <2>2. CASE \/ WaitReturns(s) \/ OwnerBegins(s) \/ OwnerFails(s) \/ OwnerSelects(s)
               \/ OwnerFinishes(s)
        BY <2>2 DEF TypeOK, WaitReturns, OwnerBegins, OwnerFails, OwnerSelects, OwnerFinishes,
           OwnerStep, handle_vars
    <2> QED
        BY <1>6, <2>1, <2>2 DEF Own
<1>7. CASE ShutdownReleases \/ RuntimeCloses
    <2>1. runtimeRef' = FALSE /\ overdrafts' \in Nat
        BY <1>7 DEF TypeOK, ShutdownReleases, RuntimeCloses
    <2>2. refs' \in Nat /\ closing' \in BOOLEAN
        BY <1>7, DropReferenceType DEF ShutdownReleases, RuntimeCloses
    <2> QED
        BY <1>7, <2>1, <2>2 DEF TypeOK, ShutdownReleases, RuntimeCloses, handle_vars, lease_vars
<1>8. CASE Close
    <2>1. published' \subseteq Sub /\ admission' \in [Sub -> {"open", "ready", "failed"}]
        BY <1>8, CompleteType DEF Close
    <2>2. queue' \in Seq(Sub)
        BY <1>8, EmptySeq DEF Close
    <2> QED
        BY <1>8, <2>1, <2>2 DEF TypeOK, Close, lease_vars
<1>9. CASE External
    BY <1>9 DEF TypeOK, External, queue_vars, handle_vars
<1>10. CASE UNCHANGED vars
    BY <1>10 DEF TypeOK, vars, queue_vars, handle_vars, lease_vars
<1> QED
    BY <1>1, <1>2, <1>3, <1>4, <1>5, <1>6, <1>7, <1>8, <1>9, <1>10 DEF Next, Execute

-----------------------------------------------------------------------------
(* What the steps do to the queue. *)

\* A step that leaves the queue, the active submission and what was published alone,
\* and neither starts an execution nor ends one.
Quiet ==
    /\ UNCHANGED <<closed, active, queue, accepted, published>>
    /\ \A s \in Sub : /\ thread'[s] = "none" <=> thread[s] = "none"
                      /\ Running(s)' <=> Running(s)
                      /\ owner'[s] = "new" <=> owner[s] = "new"

\* What Submit does when it is refused, and when it is not.
Refused(s) ==
    /\ UNCHANGED <<closed, active, queue, accepted, thread, published, guard>>
    /\ owner[s] = "new" /\ owner' = [owner EXCEPT ![s] = "left"]

Joined(s) ==
    /\ UNCHANGED <<closed, published, guard>> /\ ~closed
    /\ accepted' = Append(accepted, s) /\ Start(s)
    /\ owner[s] = "new" /\ owner' = [owner EXCEPT ![s] = "waiting"]

\* What CompleteAndNext does without a successor, and with one.
Finished(s) ==
    /\ UNCHANGED <<closed, accepted, owner, guard, queue>>
    /\ thread[s] = "released" /\ thread' = [thread EXCEPT ![s] = "over"]
    /\ published' = published \cup {s} /\ queue = <<>> /\ active' = NoSub

Succeeded(s) ==
    /\ UNCHANGED <<closed, accepted, owner, guard>>
    /\ thread[s] = "released" /\ published' = published \cup {s} /\ queue # <<>>
    /\ active' = Head(queue) /\ queue' = Tail(queue)
    /\ thread' = [thread EXCEPT ![s] = "over", ![Head(queue)] = "admitting"]

\* What CancelQueued does to one that waits.
Removed(s) ==
    /\ UNCHANGED <<closed, accepted, owner, guard, active, thread>>
    /\ published' = published \cup {s}
    /\ \E i \in DOMAIN queue : queue[i] = s /\ queue' = RemoveAt(queue, i)

\* What Close does.
Cleared ==
    /\ UNCHANGED <<accepted, owner, guard, active, thread>>
    /\ closed' = TRUE /\ queue' = <<>> /\ published' = published \cup {s \in Sub : Waiting(s)}

LEMMA QuietSteps ==
    ASSUME TypeOK,
           \/ \E s \in Sub : CallerCancels(s) \/ Cancel(s) \/ Own(s)
           \/ \E s \in Sub : \/ AdmitOk(s) \/ AdmitBusy(s) \/ AdmitFails(s) \/ BackoffEnds(s)
                             \/ BackoffOver(s) \/ RunnerReturns(s) \/ ReleaseGuard(s)
           \/ ShutdownReleases \/ RuntimeCloses \/ External \/ UNCHANGED vars
    PROVE  Quiet
<1>1. ASSUME NEW s \in Sub, CallerCancels(s) \/ Cancel(s)
      PROVE  Quiet
    BY <1>1 DEF Quiet, Running, CallerCancels, Cancel, queue_vars
<1>2. ASSUME NEW s \in Sub, Own(s)
      PROVE  Quiet
    <2>1. \E from, to : OwnerStep(s, from, to) /\ from # "new" /\ to # "new"
        BY <1>2 DEF Own, WaitReturns, OwnerBegins, OwnerFails, OwnerSelects, OwnerFinishes,
           OwnerReleases
    <2> QED
        BY <2>1 DEF TypeOK, Quiet, Running, OwnerStep, handle_vars
<1>3. ASSUME NEW s \in Sub,
             \/ AdmitOk(s) \/ AdmitBusy(s) \/ AdmitFails(s) \/ BackoffEnds(s)
             \/ BackoffOver(s) \/ RunnerReturns(s) \/ ReleaseGuard(s)
      PROVE  Quiet
    <2>1. /\ UNCHANGED <<closed, active, queue, accepted, published, owner>>
          /\ \E to \in {"admitting", "backoff", "running", "completing", "released"} :
                thread' = [thread EXCEPT ![s] = to]
          /\ thread[s] \in {"admitting", "backoff", "running", "completing"}
        BY <1>3 DEF AdmitOk, AdmitBusy, AdmitFails, BackoffEnds, BackoffOver, RunnerReturns,
           ReleaseGuard, Goes, queue_vars, handle_vars
    <2> QED
        BY <2>1 DEF TypeOK, Quiet, Running
<1>4. CASE ShutdownReleases \/ RuntimeCloses \/ External \/ UNCHANGED vars
    BY <1>4 DEF Quiet, Running, ShutdownReleases, RuntimeCloses, External, vars, queue_vars, handle_vars
<1> QED
    BY <1>1, <1>2, <1>3, <1>4

LEMMA SubmitKinds ==
    ASSUME TypeOK, NEW s \in Sub, Submit(s)
    PROVE  Refused(s) \/ Joined(s)
<1>1. PICK a \in Adapter : Submit(s)!(a)
    BY DEF Submit
<1>2. CASE closed \/ (active # NoSub /\ ~MayQueue(a))
    BY <1>1, <1>2 DEF Refused, handle_vars, lease_vars
<1>3. CASE ~(closed \/ (active # NoSub /\ ~MayQueue(a)))
    BY <1>1, <1>3 DEF Joined, handle_vars, lease_vars
<1> QED
    BY <1>2, <1>3

LEMMA CompletionKinds ==
    ASSUME TypeOK, NEW s \in Sub, CompleteAndNext(s)
    PROVE  Finished(s) \/ Succeeded(s)
BY DEF CompleteAndNext, Complete, Finished, Succeeded, lease_vars

\* Every step is one of these.
LEMMA QueueSteps ==
    ASSUME TypeOK, [Next]_vars
    PROVE  \/ Quiet \/ Cleared
           \/ \E s \in Sub : Refused(s) \/ Joined(s) \/ Removed(s) \/ Finished(s) \/ Succeeded(s)
<1>1. ASSUME NEW s \in Sub, CancelQueued(s)
      PROVE  Quiet \/ Removed(s)
    <2>1. CASE Waiting(s)
        <3>1. {t \in {s} : Waiting(t)} = {s}
            BY <2>1
        <3> QED
            BY <1>1, <2>1, <3>1 DEF CancelQueued, Complete, Removed, lease_vars
    <2>2. CASE ~Waiting(s)
        <3>1. {t \in {s} : Waiting(t)} = {}
            BY <2>2
        <3> QED
            BY <1>1, <2>2, <3>1 DEF CancelQueued, Complete, Quiet, Running
    <2> QED
        BY <2>1, <2>2
<1>2. CASE Close
    BY <1>2 DEF Close, Complete, Cleared, lease_vars
<1> QED
    BY <1>1, <1>2, SubmitKinds, CompletionKinds, QuietSteps DEF Next, Execute

-----------------------------------------------------------------------------
(* One at a time. *)

LEMMA StepOneAtATime ==
    ASSUME TypeOK, OneAtATime, [Next]_vars
    PROVE  OneAtATime'
<1>1. CASE Quiet
    BY <1>1 DEF OneAtATime, Quiet
<1>2. CASE Cleared
    BY <1>2 DEF OneAtATime, Cleared, Running
<1>3. ASSUME NEW s \in Sub, Refused(s)
      PROVE  OneAtATime'
    BY <1>3 DEF OneAtATime, Refused, Running
<1>4. ASSUME NEW s \in Sub, Joined(s)
      PROVE  OneAtATime'
    <2>1. CASE active = NoSub
        BY <1>4, <2>1, SubmissionAssumption DEF TypeOK, OneAtATime, Joined, Start, Running
    <2>2. CASE active # NoSub
        BY <1>4, <2>2 DEF TypeOK, OneAtATime, Joined, Start, Running
    <2> QED
        BY <2>1, <2>2
<1>5. ASSUME NEW s \in Sub, Removed(s)
      PROVE  OneAtATime'
    <2>1. queue # <<>>
        BY <1>5, EmptySeq DEF Removed
    <2> QED
        BY <1>5, <2>1 DEF OneAtATime, Removed, Running
<1>6. ASSUME NEW s \in Sub, Finished(s)
      PROVE  OneAtATime'
    <2>1. s = active
        BY <1>6 DEF OneAtATime, Finished, Running
    <2> QED
        BY <1>6, <2>1, SubmissionAssumption DEF TypeOK, OneAtATime, Finished, Running
<1>7. ASSUME NEW s \in Sub, Succeeded(s)
      PROVE  OneAtATime'
    <2>1. s = active /\ ~closed
        BY <1>7 DEF OneAtATime, Succeeded, Running
    <2>2. Head(queue) \in Sub
        BY <1>7, TailDrops DEF TypeOK, Succeeded
    <2>3. active' \in Sub /\ \A t \in Sub : Running(t)' <=> t = active'
        BY <1>7, <2>1, <2>2 DEF TypeOK, OneAtATime, Succeeded, Running
    <2> QED
        BY <1>7, <2>1, <2>3, SubmissionAssumption DEF OneAtATime, Succeeded
<1> QED
    BY <1>1, <1>2, <1>3, <1>4, <1>5, <1>6, <1>7, QueueSteps

-----------------------------------------------------------------------------
(* The queue and the order of acceptance. *)

LEMMA WaitingIsInQueue ==
    ASSUME TypeOK
    PROVE  /\ Len(queue) \in Nat /\ DOMAIN queue = 1 .. Len(queue)
           /\ Len(accepted) \in Nat /\ DOMAIN accepted = 1 .. Len(accepted)
           /\ \A i \in DOMAIN queue : queue[i] \in Sub /\ Waiting(queue[i])
           /\ \A i \in DOMAIN accepted : accepted[i] \in Sub /\ Accepted(accepted[i])
BY LenProperties, ElementOfSeq DEF TypeOK, Waiting, Accepted

\* A step that takes no submission in, and no one out of the queue but whom it publishes
\* or starts, keeps the invariants of the queue.
LEMMA RemovalKeepsQueue ==
    ASSUME TypeOK, OneAtATime, QueueInv, AcceptedDistinct, QueueInOrder,
           NEW s \in Sub, Removed(s) \/ Succeeded(s)
    PROVE  QueueInv' /\ AcceptedDistinct' /\ QueueInOrder'
<1>1. PICK i \in DOMAIN queue :
          /\ Drops(queue, queue', i) /\ accepted' = accepted /\ owner' = owner
          /\ \A t \in Sub : t # s /\ t # queue[i] => thread'[t] = thread[t]
          /\ thread[s] = "none" => s = queue[i] /\ thread' = thread
          /\ published' = published \cup {s}
    <2>1. CASE Removed(s)
        BY <2>1, RemoveAtDrops DEF Removed, TypeOK
    <2>2. CASE Succeeded(s)
        <3>1. 1 \in DOMAIN queue /\ Drops(queue, queue', 1) /\ Head(queue) = queue[1]
            BY <2>2, TailDrops, WaitingIsInQueue DEF Succeeded, TypeOK, Drops
        <3> QED
            BY <2>2, <3>1 DEF Succeeded, TypeOK
    <2> QED
        BY <2>1, <2>2
<1>2. /\ QueueDistinct' /\ QueueInOrder'
      /\ \A t : Waiting(t)' => Waiting(t) /\ t # queue[i]
    BY <1>1, DropKeeps DEF QueueInv
<1>3. /\ queue[i] \in Sub /\ thread[queue[i]] = "none" /\ Accepted(queue[i])
    BY <1>1, WaitingIsInQueue DEF QueueInv, WaitingIsUntouched
<1>4. s # queue[i] => thread[s] # "none"
    BY <1>1
<1>5. WaitingIsUntouched'
    BY <1>1, <1>2, <1>4 DEF QueueInv, WaitingIsUntouched, Accepted
<1>6. ASSUME NEW t \in Sub, owner'[t] = "new"
      PROVE  thread'[t] = "none" /\ t \notin published' /\ ~Accepted(t)'
    BY <1>1, <1>3, <1>4, <1>6 DEF QueueInv, NewIsUntouched, Accepted
<1>7. NewIsUntouched'
    BY <1>6 DEF NewIsUntouched
<1>8. AcceptedDistinct'
    BY <1>1 DEF AcceptedDistinct
<1> QED
    BY <1>2, <1>5, <1>7, <1>8 DEF QueueInv

\* A submission that joins comes last, in the queue and in the order of acceptance.
LEMMA JoinKeepsQueue ==
    ASSUME TypeOK, OneAtATime, QueueInv, AcceptedDistinct, QueueInOrder,
           NEW s \in Sub, Joined(s)
    PROVE  QueueInv' /\ AcceptedDistinct' /\ QueueInOrder'
<1>1. /\ thread[s] = "none" /\ s \notin published /\ ~Accepted(s) /\ ~Waiting(s)
    BY DEF QueueInv, NewIsUntouched, WaitingIsUntouched, Joined
<1>2. /\ DOMAIN accepted' = 1 .. Len(accepted) + 1 /\ accepted'[Len(accepted) + 1] = s
      /\ \A i \in 1 .. Len(accepted) : accepted'[i] = accepted[i]
    BY AppendProperties, LenProperties DEF Joined, TypeOK
<1>3. \A t \in Sub : Accepted(t)' <=> Accepted(t) \/ t = s
    BY <1>2, WaitingIsInQueue DEF Accepted
<1>4. AcceptedDistinct'
    BY <1>1, <1>2, WaitingIsInQueue DEF AcceptedDistinct, Accepted
<1>5. ASSUME NEW t \in Sub, owner'[t] = "new"
      PROVE  t # s /\ owner[t] = "new"
    BY <1>5 DEF Joined, TypeOK
<1>6. CASE active = NoSub
    <2>1. queue = <<>> /\ queue' = <<>> /\ thread' = [thread EXCEPT ![s] = "admitting"]
        BY <1>6 DEF OneAtATime, Joined, Start
    <2>2. DOMAIN queue' = {}
        BY <2>1
    <2>3. QueueDistinct' /\ QueueInOrder' /\ WaitingIsUntouched'
        BY <2>2 DEF QueueDistinct, QueueInOrder, WaitingIsUntouched, Waiting
    <2>4. NewIsUntouched'
        BY <2>1, <1>3, <1>5 DEF QueueInv, NewIsUntouched, Joined, TypeOK
    <2> QED
        BY <2>3, <2>4, <1>4 DEF QueueInv
<1>7. CASE active # NoSub
    <2>1. /\ DOMAIN queue' = 1 .. Len(queue) + 1 /\ queue'[Len(queue) + 1] = s
          /\ \A i \in 1 .. Len(queue) : queue'[i] = queue[i]
        BY <1>7, AppendProperties, LenProperties DEF Joined, Start, TypeOK
    <2>2. \A t \in Sub : Waiting(t)' <=> Waiting(t) \/ t = s
        BY <2>1, WaitingIsInQueue DEF Waiting
    <2>3. QueueDistinct'
        BY <1>1, <2>1, WaitingIsInQueue DEF QueueInv, QueueDistinct, Waiting
    <2>4. thread' = thread /\ published' = published
        BY <1>7 DEF Joined, Start
    <2>5. WaitingIsUntouched' /\ NewIsUntouched'
        BY <1>1, <1>3, <1>5, <2>2, <2>4 DEF QueueInv, WaitingIsUntouched, NewIsUntouched
    <2>6. ASSUME NEW k \in DOMAIN queue', NEW m \in DOMAIN queue',
                 NEW i \in DOMAIN accepted', NEW j \in DOMAIN accepted',
                 queue'[k] = accepted'[i], queue'[m] = accepted'[j], i < j
          PROVE  k < m
        <3>1. i \in DOMAIN accepted /\ accepted'[i] = accepted[i] /\ accepted[i] # s
            BY <1>1, <1>2, <2>6, WaitingIsInQueue DEF Accepted
        <3>2. k \in DOMAIN queue /\ queue'[k] = queue[k]
            BY <2>1, <2>6, <3>1, WaitingIsInQueue
        <3>3. CASE m = Len(queue) + 1
            BY <3>2, <3>3, WaitingIsInQueue
        <3>4. CASE m \in DOMAIN queue
            <4>1. queue'[m] = queue[m] /\ queue[m] # s
                BY <1>1, <2>1, <3>4, WaitingIsInQueue
            <4>2. j \in DOMAIN accepted /\ accepted'[j] = accepted[j]
                <5>1. accepted'[j] # s /\ j \in 1 .. Len(accepted) + 1 /\ Len(accepted) \in Nat
                    BY <1>2, <2>6, <4>1, WaitingIsInQueue
                <5>2. j \in 1 .. Len(accepted)
                    BY <1>2, <5>1
                <5> QED
                    BY <1>2, <5>2, WaitingIsInQueue
            <4> QED
                BY <2>6, <3>1, <3>2, <3>4, <4>1, <4>2 DEF QueueInOrder
        <3> QED
            BY <2>1, <3>3, <3>4, WaitingIsInQueue
    <2>7. QueueInOrder'
        BY <2>6 DEF QueueInOrder
    <2> QED
        BY <1>4, <2>3, <2>5, <2>7 DEF QueueInv
<1> QED
    BY <1>6, <1>7

LEMMA StepQueue ==
    ASSUME TypeOK, OneAtATime, QueueInv, AcceptedDistinct, QueueInOrder, [Next]_vars
    PROVE  QueueInv' /\ AcceptedDistinct' /\ QueueInOrder'
<1>1. CASE Quiet
    BY <1>1 DEF Quiet, QueueInv, QueueDistinct, WaitingIsUntouched, NewIsUntouched, Waiting,
       Accepted, AcceptedDistinct, QueueInOrder
<1>2. CASE Cleared
    <2>1. DOMAIN queue' = {}
        BY <1>2 DEF Cleared
    <2>2. QueueDistinct' /\ WaitingIsUntouched' /\ QueueInOrder' /\ AcceptedDistinct'
        BY <1>2, <2>1 DEF Cleared, QueueDistinct, WaitingIsUntouched, QueueInOrder,
           AcceptedDistinct, Waiting
    <2>3. NewIsUntouched'
        BY <1>2 DEF Cleared, QueueInv, NewIsUntouched, WaitingIsUntouched, Accepted
    <2> QED
        BY <2>2, <2>3 DEF QueueInv
<1>3. ASSUME NEW s \in Sub, Refused(s)
      PROVE  QueueInv' /\ AcceptedDistinct' /\ QueueInOrder'
    BY <1>3 DEF TypeOK, Refused, QueueInv, QueueDistinct, WaitingIsUntouched, NewIsUntouched,
       Waiting, Accepted, AcceptedDistinct, QueueInOrder
<1>4. ASSUME NEW s \in Sub, Finished(s)
      PROVE  QueueInv' /\ AcceptedDistinct' /\ QueueInOrder'
    <2>1. DOMAIN queue' = {}
        BY <1>4 DEF Finished
    <2>2. QueueDistinct' /\ WaitingIsUntouched' /\ QueueInOrder' /\ AcceptedDistinct'
        BY <1>4, <2>1 DEF Finished, QueueDistinct, WaitingIsUntouched, QueueInOrder,
           AcceptedDistinct, Waiting
    <2>3. NewIsUntouched'
        BY <1>4 DEF TypeOK, Finished, QueueInv, NewIsUntouched, Accepted
    <2> QED
        BY <2>2, <2>3 DEF QueueInv
<1> QED
    BY <1>1, <1>2, <1>3, <1>4, RemovalKeepsQueue, JoinKeepsQueue, QueueSteps

LEMMA StepFirstCome ==
    ASSUME TypeOK, OneAtATime, QueueInv, AcceptedDistinct, QueueInOrder, FirstComeFirstServed,
           [Next]_vars
    PROVE  FirstComeFirstServed'
<1> SUFFICES ASSUME NEW i \in DOMAIN accepted', NEW j \in DOMAIN accepted', i < j,
                    thread'[accepted'[j]] # "none"
             PROVE  ~Waiting(accepted[i])'
    BY DEF FirstComeFirstServed
<1>1. CASE Quiet
    BY <1>1, WaitingIsInQueue DEF Quiet, FirstComeFirstServed, Waiting
<1>2. CASE Cleared
    BY <1>2 DEF Cleared, Waiting
<1>3. ASSUME NEW s \in Sub, Refused(s)
      PROVE  ~Waiting(accepted[i])'
    BY <1>3 DEF Refused, FirstComeFirstServed, Waiting
<1>4. ASSUME NEW s \in Sub, Finished(s)
      PROVE  ~Waiting(accepted[i])'
    BY <1>4 DEF Finished, Waiting
<1>5. ASSUME NEW s \in Sub, Removed(s)
      PROVE  ~Waiting(accepted[i])'
    <2>1. PICK k \in DOMAIN queue : queue' = RemoveAt(queue, k)
        BY <1>5 DEF Removed
    <2>2. \A t : Waiting(t)' => Waiting(t)
        BY <1>5, <2>1, RemoveAtDrops, DropKeeps DEF Removed, QueueInv, TypeOK
    <2> QED
        BY <1>5, <2>2 DEF Removed, FirstComeFirstServed
<1>6. ASSUME NEW s \in Sub, Succeeded(s)
      PROVE  ~Waiting(accepted[i])'
    <2>1. /\ Drops(queue, queue', 1) /\ Head(queue) = queue[1] /\ accepted' = accepted
          /\ 1 \in DOMAIN queue
        BY <1>6, TailDrops, WaitingIsInQueue DEF Succeeded, TypeOK, Drops
    <2>2. \A t : Waiting(t)' => Waiting(t) /\ t # queue[1]
        BY <2>1, DropKeeps DEF QueueInv
    <2>3. CASE accepted[j] = queue[1]
        <3>1. ASSUME NEW k \in DOMAIN queue, queue[k] = accepted[i]
              PROVE  FALSE
            <4>1. k < 1
                BY <2>1, <2>3, <3>1 DEF QueueInOrder
            <4> QED
                BY <4>1, WaitingIsInQueue
        <3> QED
            BY <2>1, <2>2, <3>1 DEF Waiting
    <2>4. CASE accepted[j] # queue[1]
        <3>1. accepted[j] \in Sub /\ thread[accepted[j]] # "none"
            BY <1>6, <2>1, <2>4, WaitingIsInQueue DEF Succeeded, TypeOK
        <3> QED
            BY <2>1, <2>2, <3>1 DEF FirstComeFirstServed
    <2> QED
        BY <2>3, <2>4
<1>7. ASSUME NEW s \in Sub, Joined(s)
      PROVE  ~Waiting(accepted[i])'
    <2>1. /\ thread[s] = "none" /\ ~Accepted(s)
        BY <1>7 DEF QueueInv, NewIsUntouched, Joined
    <2>2. /\ DOMAIN accepted' = 1 .. Len(accepted) + 1 /\ accepted'[Len(accepted) + 1] = s
          /\ \A k \in 1 .. Len(accepted) : accepted'[k] = accepted[k]
        BY <1>7, AppendProperties, LenProperties DEF Joined, TypeOK
    <2>3. CASE active = NoSub
        <3>1. queue' = <<>>
            BY <1>7, <2>3 DEF OneAtATime, Joined, Start
        <3> QED
            BY <3>1 DEF Waiting
    <2>4. CASE active # NoSub
        <3>1. queue' = Append(queue, s) /\ thread' = thread
            BY <1>7, <2>4 DEF Joined, Start
        <3>2. j \in 1 .. Len(accepted) /\ i \in 1 .. Len(accepted)
            BY <2>1, <2>2, <3>1, WaitingIsInQueue
        <3>3. ~Waiting(accepted[i]) /\ accepted[i] # s
            BY <2>1, <2>2, <3>1, <3>2, WaitingIsInQueue DEF FirstComeFirstServed, Accepted
        <3>4. \A t : Waiting(t)' => Waiting(t) \/ t = s
            <4>1. /\ DOMAIN queue' = 1 .. Len(queue) + 1 /\ queue'[Len(queue) + 1] = s
                  /\ \A k \in 1 .. Len(queue) : queue'[k] = queue[k]
                BY <3>1, AppendProperties, LenProperties DEF TypeOK
            <4> QED
                BY <4>1, WaitingIsInQueue DEF Waiting
        <3> QED
            BY <2>2, <3>2, <3>3, <3>4
    <2> QED
        BY <2>3, <2>4
<1> QED
    BY <1>1, <1>2, <1>3, <1>4, <1>5, <1>6, <1>7, QueueSteps

-----------------------------------------------------------------------------
(* The guard and the completion. *)

LEMMA StepGuard ==
    ASSUME TypeOK, OneAtATime, QueueInv, GuardInv, [Next]_vars
    PROVE  GuardInv'
<1>1. ASSUME NEW s \in Sub, AdmitOk(s)
      PROVE  GuardInv'
    BY <1>1 DEF TypeOK, GuardInv, GuardIsRunners, CompletionIsLast, Running, AdmitOk
<1>2. ASSUME NEW s \in Sub, ReleaseGuard(s)
      PROVE  GuardInv'
    BY <1>2, SubmissionAssumption DEF TypeOK, GuardInv, GuardIsRunners, CompletionIsLast, Running, ReleaseGuard,
       queue_vars, handle_vars
<1>3. ASSUME NEW s \in Sub,
             \/ AdmitBusy(s) \/ AdmitFails(s) \/ BackoffEnds(s) \/ BackoffOver(s)
             \/ RunnerReturns(s)
      PROVE  GuardInv'
    <2>1. /\ published' = published /\ guard' = guard
          /\ \/ /\ thread[s] \in {"admitting", "backoff"}
                /\ \E to \in {"admitting", "backoff", "completing"} :
                       thread' = [thread EXCEPT ![s] = to]
             \/ thread[s] = "running" /\ thread' = [thread EXCEPT ![s] = "completing"]
        BY <1>3 DEF AdmitBusy, AdmitFails, BackoffEnds, BackoffOver, RunnerReturns, Goes,
           lease_vars
    <2> QED
        BY <2>1 DEF TypeOK, GuardInv, GuardIsRunners, CompletionIsLast, Running
<1>4. ASSUME UNCHANGED <<thread, published, guard>>
      PROVE  GuardInv'
    BY <1>4 DEF GuardInv, GuardIsRunners, CompletionIsLast, Running
<1>5. ASSUME NEW s \in Sub, CallerCancels(s) \/ Cancel(s) \/ Own(s)
      PROVE  GuardInv'
    BY <1>4, <1>5 DEF CallerCancels, Cancel, Own, WaitReturns, OwnerBegins, OwnerFails,
       OwnerSelects, OwnerFinishes, OwnerReleases, OwnerStep, handle_vars, lease_vars
<1>6. CASE ShutdownReleases \/ RuntimeCloses \/ External \/ UNCHANGED vars
    BY <1>4, <1>6 DEF ShutdownReleases, RuntimeCloses, External, vars, handle_vars, lease_vars
<1>7. ASSUME NEW s \in Sub, Refused(s) \/ Joined(s)
      PROVE  GuardInv'
    <2>1. thread[s] = "none" /\ s \notin published
        BY <1>7 DEF Refused, Joined, QueueInv, NewIsUntouched
    <2> QED
        BY <1>7, <2>1, <1>4 DEF TypeOK, Refused, Joined, Start, GuardInv, GuardIsRunners,
           CompletionIsLast, Running
<1>8. ASSUME UNCHANGED <<thread, guard>>,
             \A s \in published' : s \in published \/ (s \in Sub /\ Waiting(s))
      PROVE  GuardInv'
    BY <1>8, SubmissionAssumption DEF TypeOK, GuardInv, GuardIsRunners, CompletionIsLast, Running, QueueInv,
       WaitingIsUntouched
<1>9. ASSUME NEW s \in Sub, CancelQueued(s)
      PROVE  GuardInv'
    BY <1>8, <1>9 DEF CancelQueued, Complete, lease_vars
<1>10. CASE Close
    BY <1>8, <1>10 DEF Close, Complete, lease_vars
<1>11. ASSUME NEW s \in Sub, Finished(s)
      PROVE  GuardInv'
    BY <1>11, SubmissionAssumption DEF TypeOK, Finished, GuardInv, GuardIsRunners, CompletionIsLast, Running
<1>12. ASSUME NEW s \in Sub, Succeeded(s)
      PROVE  GuardInv'
    <2>1. /\ Head(queue) \in Sub /\ thread[Head(queue)] = "none"
          /\ Head(queue) \notin published
        BY <1>12, TailDrops, WaitingIsInQueue DEF TypeOK, Succeeded, Drops, QueueInv,
           WaitingIsUntouched
    <2> QED
        BY <1>12, <2>1, SubmissionAssumption DEF TypeOK, Succeeded, GuardInv, GuardIsRunners, CompletionIsLast, Running
<1> QED
    BY <1>1, <1>2, <1>3, <1>5, <1>6, <1>7, <1>9, <1>10, <1>11, <1>12, SubmitKinds,
       CompletionKinds DEF Next, Execute

-----------------------------------------------------------------------------
(* The references. *)

LEMMA SharingIsFinite ==
    /\ IsFiniteSet(Sharing) /\ Cardinality(Sharing) \in Nat
    /\ Cardinality(Sharing) = 0 <=> Sharing = {}
<1>1. IsFiniteSet(Sharing)
    BY FS_Subset, SubmissionAssumption DEF Sharing
<1> QED
    BY <1>1, FS_CardinalityType, FS_EmptySet

\* Only Submit, OwnerReleases and the SessionRuntime's end concern the references.
SameRefs ==
    /\ UNCHANGED <<closing, refs, runtime_vars, policy>>
    /\ \A s \in Sub : /\ owner'[s] = "left" <=> owner[s] = "left"
                      /\ owner'[s] = "new" <=> owner[s] = "new"

LEMMA SameRefsSteps ==
    ASSUME TypeOK,
           \/ \E s \in Sub : \/ CallerCancels(s) \/ Cancel(s) \/ CancelQueued(s) \/ Execute(s)
                             \/ Own(s) /\ ~OwnerReleases(s)
           \/ Close \/ External \/ UNCHANGED vars
    PROVE  SameRefs
<1>1. ASSUME NEW s \in Sub,
             CallerCancels(s) \/ Cancel(s) \/ CancelQueued(s) \/ Execute(s)
      PROVE  SameRefs
    BY <1>1 DEF SameRefs, CallerCancels, Cancel, CancelQueued, Execute, AdmitOk, AdmitBusy,
       AdmitFails, BackoffEnds, BackoffOver, RunnerReturns, ReleaseGuard, CompleteAndNext, Goes,
       queue_vars, handle_vars
<1>2. ASSUME NEW s \in Sub, Own(s), ~OwnerReleases(s)
      PROVE  SameRefs
    <2>1. UNCHANGED <<closing, refs>>
        BY <1>2 DEF Own, WaitReturns, OwnerBegins, OwnerFails, OwnerSelects, OwnerFinishes
    <2>2. \E from, to : OwnerStep(s, from, to) /\ {from, to} \cap {"new", "left"} = {}
        BY <1>2 DEF Own, WaitReturns, OwnerBegins, OwnerFails, OwnerSelects, OwnerFinishes
    <2> QED
        BY <2>1, <2>2 DEF TypeOK, SameRefs, OwnerStep
<1>3. CASE Close \/ External \/ UNCHANGED vars
    BY <1>3 DEF SameRefs, Close, External, vars, queue_vars
<1> QED
    BY <1>1, <1>2, <1>3

LEMMA StepRefs ==
    ASSUME TypeOK, RefsInv, [Next]_vars
    PROVE  RefsInv'
<1> USE SharingIsFinite DEF runtime_vars
<1>1. CASE SameRefs
    <2>1. Sharing' = Sharing
        BY <1>1 DEF SameRefs, Sharing
    <2> QED
        BY <1>1, <2>1 DEF SameRefs, RefsInv, RefsCountSharers, ClosingIsUnreferenced,
           NewHasNoPolicy
<1>2. ASSUME NEW s \in Sub, Submit(s)
      PROVE  RefsInv'
    <2>1. PICK a \in Adapter : Submit(s)!(a)
        BY <1>2 DEF Submit
    <2>2. /\ owner[s] = "new" /\ policy[s] = "none" /\ closing' = closing
          /\ UNCHANGED runtime_vars /\ policy' = [policy EXCEPT ![s] = a]
          /\ a = "shared" => ~closing
        BY <2>1 DEF RefsInv, NewHasNoPolicy
    <2>3. s \notin Sharing
        BY <2>2 DEF Sharing
    <2>4. CASE closed \/ (active # NoSub /\ ~MayQueue(a))
        <3>1. owner' = [owner EXCEPT ![s] = "left"] /\ refs' = refs
            BY <2>1, <2>4
        <3>2. Sharing' = Sharing
            BY <2>2, <2>3, <3>1 DEF TypeOK, Sharing
        <3> QED
            BY <2>2, <3>1, <3>2 DEF TypeOK, RefsInv, RefsCountSharers, ClosingIsUnreferenced,
               NewHasNoPolicy
    <2>5. CASE ~(closed \/ (active # NoSub /\ ~MayQueue(a)))
        <3>1. /\ owner' = [owner EXCEPT ![s] = "waiting"]
              /\ refs' = IF a = "shared" THEN refs + 1 ELSE refs
            BY <2>1, <2>5
        <3>2. CASE a = "shared"
            <4>1. Sharing' = Sharing \cup {s}
                BY <2>2, <3>1, <3>2 DEF TypeOK, Sharing
            <4>2. Cardinality(Sharing') = Cardinality(Sharing) + 1
                BY <2>3, <4>1, FS_AddElement
            <4> QED
                BY <2>2, <3>1, <3>2, <4>2 DEF TypeOK, RefsInv, RefsCountSharers,
                   ClosingIsUnreferenced, NewHasNoPolicy
        <3>3. CASE a # "shared"
            <4>1. Sharing' = Sharing
                BY <2>2, <2>3, <3>1, <3>3 DEF TypeOK, Sharing
            <4> QED
                BY <2>2, <3>1, <3>3, <4>1 DEF TypeOK, RefsInv, RefsCountSharers,
                   ClosingIsUnreferenced, NewHasNoPolicy
        <3> QED
            BY <3>2, <3>3
    <2> QED
        BY <2>4, <2>5
<1>3. ASSUME NEW s \in Sub, OwnerReleases(s)
      PROVE  RefsInv'
    <2>1. /\ owner[s] = "ended" /\ owner' = [owner EXCEPT ![s] = "left"]
          /\ UNCHANGED <<runtime_vars, policy>>
          /\ IF policy[s] = "shared" THEN DropReference ELSE UNCHANGED <<refs, closing>>
        BY <1>3 DEF OwnerReleases, OwnerStep
    <2>2. NewHasNoPolicy'
        BY <2>1 DEF TypeOK, RefsInv, NewHasNoPolicy
    <2>3. CASE policy[s] = "shared"
        <3>1. Sharing' = Sharing \ {s} /\ s \in Sharing
            BY <2>1, <2>3 DEF TypeOK, Sharing
        <3>2. /\ Cardinality(Sharing') = Cardinality(Sharing) - 1
              /\ Cardinality(Sharing) > 0
            BY <3>1, FS_RemoveElement
        <3> QED
            BY <2>1, <2>2, <2>3, <3>2 DEF TypeOK, DropReference, RefsInv, RefsCountSharers,
               ClosingIsUnreferenced
    <2>4. CASE policy[s] # "shared"
        <3>1. Sharing' = Sharing
            BY <2>1, <2>4 DEF TypeOK, Sharing
        <3> QED
            BY <2>1, <2>2, <2>4, <3>1 DEF RefsInv, RefsCountSharers, ClosingIsUnreferenced
    <2> QED
        BY <2>3, <2>4
<1>4. CASE ShutdownReleases \/ RuntimeCloses
    <2>1. Sharing' = Sharing /\ NewHasNoPolicy' /\ DropReference
        BY <1>4 DEF ShutdownReleases, RuntimeCloses, Sharing, RefsInv, NewHasNoPolicy
    <2>2. /\ runtimeRef' = FALSE /\ overdrafts' \in Nat
          /\ IF runtimeRef THEN overdrafts' = overdrafts ELSE overdrafts' = overdrafts + 1
        BY <1>4 DEF TypeOK, ShutdownReleases, RuntimeCloses
    <2> QED
        BY <2>1, <2>2 DEF TypeOK, DropReference, RefsInv, RefsCountSharers, ClosingIsUnreferenced
<1> QED
    BY <1>1, <1>2, <1>3, <1>4, SameRefsSteps DEF Next

-----------------------------------------------------------------------------
(* The theorems. *)

LEMMA InitInv == Init => IInv
<1> SUFFICES ASSUME Init PROVE IInv
    OBVIOUS
<1>1. DOMAIN queue = {} /\ DOMAIN accepted = {}
    BY DEF Init
<1>2. OneAtATime
    BY SubmissionAssumption DEF Init, OneAtATime, Running
<1>3. QueueInv
    BY <1>1 DEF Init, QueueInv, QueueDistinct, WaitingIsUntouched, NewIsUntouched, Waiting,
       Accepted
<1>4. OrderInv
    BY <1>1 DEF OrderInv, AcceptedDistinct, QueueInOrder, FirstComeFirstServed
<1>5. GuardInv
    BY DEF Init, GuardInv, GuardIsRunners, CompletionIsLast
<1>6. RefsInv
    <2>1. Sharing = {}
        BY DEF Init, Sharing
    <2> QED
        BY <2>1, SharingIsFinite DEF Init, RefsInv, RefsCountSharers, ClosingIsUnreferenced,
           NewHasNoPolicy
<1> QED
    BY <1>2, <1>3, <1>4, <1>5, <1>6, InitType DEF IInv

LEMMA Invariance == Spec => []IInv
<1>1. IInv /\ [Next]_vars => IInv'
    BY StepType, StepOneAtATime, StepQueue, StepFirstCome, StepGuard, StepRefs DEF IInv, OrderInv
<1> QED
    BY <1>1, InitInv, PTL DEF Spec

\* The coordinator's state stays within its types.
THEOREM TypeCorrect == Spec => []TypeOK
BY Invariance, PTL DEF IInv

\* However submissions, cancellations and releases interleave, one goroutine executes,
\* that of the active submission, and whatever is queued has one to wait for.
THEOREM Exclusive == Spec => []OneAtATime
BY Invariance, PTL DEF IInv

\* Submissions are executed in the order in which they were accepted.
THEOREM InOrder == Spec => []FirstComeFirstServed
BY Invariance, PTL DEF IInv, OrderInv

\* A submission's completion is the last that is heard of it: its goroutine is through
\* and the admission guard is released.
THEOREM ReleasedBeforeCompletion == Spec => []CompletionIsLast
BY Invariance, PTL DEF IInv, GuardInv

\* No more owners lose a coordinator they share than references were dropped twice.
THEOREM NotClosedWhileShared == Spec => []OpenUnlessOverdrawn
<1>1. IInv => OpenUnlessOverdrawn
    BY SharingIsFinite DEF IInv, TypeOK, RefsInv, RefsCountSharers, ClosingIsUnreferenced,
       OpenUnlessOverdrawn
<1> QED
    BY <1>1, Invariance, PTL
-----------------------------------------------------------------------------
(* The coordinator implements the turnstile. *)

\* Where a submission is tells what the queue makes of it.
LEMMA PlaceIs ==
    ASSUME IInv
    PROVE  /\ \A s \in Sub : /\ Place[s] = "out" <=> s \in published
                             /\ Place[s] = "inside" <=> s = active
                             /\ Place[s] = "waiting" <=> Waiting(s)
           /\ active # NoSub => active \in Sub
           /\ NoSub \notin Sub
<1>1. \A s \in Sub : s = active => s \notin published
    BY DEF IInv, OneAtATime, GuardInv, CompletionIsLast
<1>2. \A s \in Sub : Waiting(s) => s \notin published /\ s # active
    BY DEF IInv, QueueInv, WaitingIsUntouched, OneAtATime, Running
<1> QED
    BY <1>1, <1>2, SubmissionAssumption DEF Place, IInv, TypeOK

\* The head of the queue is the first that waits.
LEMMA HeadIsFirst ==
    ASSUME IInv, queue # <<>>
    PROVE  Head(queue) \in Sub /\ Served!First(Head(queue))
<1>1. /\ Drops(queue, Tail(queue), 1) /\ Head(queue) = queue[1] /\ Head(queue) \in Sub
    BY TailDrops DEF IInv, TypeOK
<1>2. 1 \in DOMAIN queue /\ \A k \in DOMAIN queue : ~(k < 1)
    BY <1>1, WaitingIsInQueue DEF Drops, IInv
<1>3. Waiting(queue[1])
    BY <1>2 DEF Waiting
<1>4. ASSUME NEW t \in Sub, Waiting(t), NEW i \in DOMAIN accepted, NEW j \in DOMAIN accepted,
             i < j, accepted[i] = t, accepted[j] = queue[1]
      PROVE  FALSE
    BY <1>2, <1>4 DEF Waiting, IInv, OrderInv, QueueInOrder
<1> QED
    BY <1>1, <1>3, <1>4, PlaceIs DEF Served!First, Served!At, Served!Before

LEMMA JoinedEnters ==
    ASSUME IInv, IInv', NEW s \in Sub, Joined(s)
    PROVE  Served!Enter(s)
<1>1. thread[s] = "none" /\ s \notin published /\ ~Accepted(s) /\ ~Waiting(s) /\ s # active
    BY DEF IInv, QueueInv, NewIsUntouched, WaitingIsUntouched, OneAtATime, Running, Joined
<1>2. Place[s] = "outside"
    BY <1>1 DEF Place
<1>3. CASE active = NoSub
  <2>1. active' = s /\ queue' = queue /\ published' = published
      BY <1>3 DEF Joined, Start
  <2>2. Place' = [Place EXCEPT ![s] = "inside"]
      BY <1>1, <1>3, <2>1, SubmissionAssumption DEF Place, Waiting
  <2>3. Served!At("inside") \cup Served!At("waiting") = {}
      BY <1>3, PlaceIs DEF Served!At, Waiting, IInv, OneAtATime
  <2> QED
      BY <1>2, <2>2, <2>3 DEF Served!Enter, Joined
<1>4. CASE active # NoSub
  <2>1. active' = active /\ queue' = Append(queue, s) /\ published' = published
      BY <1>4 DEF Joined, Start
  <2>2. \A t \in Sub : Waiting(t)' <=> Waiting(t) \/ t = s
    <3>1. /\ DOMAIN queue' = 1 .. Len(queue) + 1 /\ queue'[Len(queue) + 1] = s
          /\ \A i \in 1 .. Len(queue) : queue'[i] = queue[i]
        BY <2>1, AppendProperties, LenProperties DEF IInv, TypeOK
    <3> QED
        BY <3>1, WaitingIsInQueue DEF Waiting, IInv
  <2>3. Place' = [Place EXCEPT ![s] = "waiting"]
      BY <1>1, <2>1, <2>2 DEF Place
  <2>4. Served!At("inside") # {}
      BY <1>4, PlaceIs DEF Served!At
  <2> QED
      BY <1>2, <2>3, <2>4 DEF Served!Enter, Joined
<1> QED
    BY <1>3, <1>4

\* Whoever leaves the queue by the i-th place leaves it alone.
LEMMA OthersWait ==
    ASSUME IInv, IInv', NEW i, Drops(queue, queue', i)
    PROVE  \A t \in Sub : Waiting(t)' <=> Waiting(t) /\ t # queue[i]
<1>1. Len(queue) \in Nat /\ DOMAIN queue = 1 .. Len(queue) /\ i \in 1 .. Len(queue)
    BY LenProperties DEF IInv, TypeOK, Drops
<1>2. ASSUME NEW k \in DOMAIN queue, k # i
      PROVE  \E m \in DOMAIN queue' : queue'[m] = queue[k]
  <2>1. CASE k < i
    <3>1. k \in DOMAIN queue' /\ queue'[k] = queue[k]
        BY <1>1, <2>1 DEF Drops
    <3> QED
        BY <3>1
  <2>2. CASE ~(k < i)
    <3>1. k - 1 \in DOMAIN queue' /\ queue'[k - 1] = queue[k]
        BY <1>1, <1>2, <2>2 DEF Drops
    <3> QED
        BY <3>1
  <2> QED
      BY <2>1, <2>2
<1>3. ASSUME NEW k \in DOMAIN queue'
      PROVE  \E m \in DOMAIN queue : m # i /\ queue'[k] = queue[m]
  <2>1. CASE k < i
      BY <1>1, <2>1 DEF Drops
  <2>2. CASE ~(k < i)
    <3>1. k + 1 \in DOMAIN queue /\ k + 1 # i /\ queue'[k] = queue[k + 1]
        BY <1>1, <2>2 DEF Drops
    <3> QED
        BY <3>1
  <2> QED
      BY <2>1, <2>2
<1>4. queue[i] \in Sub /\ \A m \in DOMAIN queue : m # i => queue[m] # queue[i]
    BY <1>1, WaitingIsInQueue DEF IInv, QueueInv, QueueDistinct
<1> QED
    BY <1>1, <1>2, <1>3, <1>4 DEF Waiting

LEMMA RemovedGivesUp ==
    ASSUME IInv, IInv', NEW s \in Sub, Removed(s)
    PROVE  Served!GiveUp(s)
<1>1. PICK i \in DOMAIN queue : queue[i] = s /\ Drops(queue, queue', i)
    BY RemoveAtDrops DEF Removed, IInv, TypeOK
<1>2. Waiting(s) /\ \A t \in Sub : Waiting(t)' <=> Waiting(t) /\ t # s
    BY <1>1, OthersWait DEF Waiting
<1>3. Place' = [Place EXCEPT ![s] = "out"]
    BY <1>2 DEF Place, Removed
<1> QED
    BY <1>2, <1>3, PlaceIs DEF Served!GiveUp, Removed

LEMMA CompletionLeaves ==
    ASSUME IInv, IInv', NEW s \in Sub, Finished(s) \/ Succeeded(s)
    PROVE  Served!Leave(s)
<1>1. s = active
    BY DEF IInv, OneAtATime, Running, Finished, Succeeded
<1>2. CASE Finished(s)
  <2>1. \A t \in Sub : ~Waiting(t) /\ ~Waiting(t)'
      BY <1>2 DEF Finished, Waiting
  <2>2. Place' = [Place EXCEPT ![s] = "out"]
      BY <1>1, <1>2, <2>1, SubmissionAssumption DEF Place, Finished
  <2>3. Served!At("waiting") = {}
      BY <2>1, PlaceIs DEF Served!At
  <2> QED
      BY <1>1, <1>2, <2>2, <2>3, PlaceIs DEF Served!Leave, Finished
<1>3. CASE Succeeded(s)
  <2> DEFINE t == queue[1]
  <2>1. /\ Drops(queue, queue', 1) /\ Head(queue) = t /\ t \in Sub /\ active' = t
        /\ published' = published \cup {s} /\ UNCHANGED <<accepted, closed>>
      BY <1>3, TailDrops DEF Succeeded, IInv, TypeOK
  <2>2. Served!First(t) /\ Waiting(t) /\ t # s
    <3>1. Served!First(t)
        BY <1>3, <2>1, HeadIsFirst DEF Succeeded
    <3> QED
        BY <1>1, <2>1, <3>1, PlaceIs DEF Served!First, Served!At
  <2>3. \A u \in Sub : Waiting(u)' <=> Waiting(u) /\ u # t
      BY <2>1, OthersWait
  <2>4. t \notin published
      BY <2>1, <2>2 DEF IInv, QueueInv, WaitingIsUntouched
  <2> HIDE DEF t
  <2>5. Place' = [Place EXCEPT ![s] = "out", ![t] = "inside"]
      BY <1>1, <2>1, <2>2, <2>3, <2>4 DEF Place
  <2> QED
      BY <1>1, <2>1, <2>2, <2>5, PlaceIs DEF Served!Leave
<1> QED
    BY <1>2, <1>3

LEMMA ClearedCloses ==
    ASSUME IInv, IInv', Cleared
    PROVE  Served!Close
<1>1. \A s \in Sub : ~Waiting(s)'
    BY DEF Cleared, Waiting
<1>2. \A s \in Sub : s \in published' <=> s \in published \/ Waiting(s)
    BY DEF Cleared
<1>3. ASSUME NEW s \in Sub
      PROVE  Place'[s] = IF Place[s] = "waiting" THEN "out" ELSE Place[s]
    BY <1>1, <1>2, PlaceIs DEF Place, Cleared
<1> QED
    BY <1>3 DEF Served!Close, Cleared, Place

LEMMA StepIsServed == IInv /\ IInv' /\ [Next]_vars => [Served!Next]_(Served!vars)
<1> SUFFICES ASSUME IInv, IInv', [Next]_vars PROVE Served!Next \/ UNCHANGED Served!vars
    OBVIOUS
<1>1. CASE Quiet
    BY <1>1 DEF Quiet, Place, Waiting, Served!vars
<1>2. ASSUME NEW s \in Sub, Refused(s) PROVE UNCHANGED Served!vars
    BY <1>2 DEF Refused, Place, Waiting, Served!vars
<1> QED
    BY <1>1, <1>2, QueueSteps, JoinedEnters, RemovedGivesUp, CompletionLeaves, ClearedCloses
       DEF Served!Next, IInv

\* Every behaviour of the coordinator, whatever becomes of leases, contexts and owners, is
\* one of the turnstile.
THEOREM Refinement == Spec => ImplementsTurnstile
<1>1. Init => Served!Init
    BY SubmissionAssumption DEF Init, Served!Init, Place, Waiting
<1> QED
    BY <1>1, StepIsServed, Invariance, PTL DEF Spec, ImplementsTurnstile, Served!Spec
=============================================================================
