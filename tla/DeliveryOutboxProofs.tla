------------------------ MODULE DeliveryOutboxProofs ------------------------
(***************************************************************************)
(* Machine-checked proofs about DeliveryOutbox, for every plan, every set of *)
(* workers and every bound.                                                  *)
(***************************************************************************)
EXTENDS DeliveryOutbox, TLAPS

(***************************************************************************)
(* What makes the properties inductive, as predicates on the rows.           *)
(***************************************************************************)

Met(rows, o) == \A a \in Before[o] : rows[a].status \in Good

\* PrerequisiteFirst for everything an operation depends on, not the last link only.
StartedIsMet(rows) ==
    \A o \in Op : rows[o].claimant # NoWorker \/ rows[o].status \in Good \cup {"uploading"}
        => Met(rows, o)
AcceptedIsMet == \A o \in Op : accepted[o] > 0 => Met(row, o)
CalledIsMet ==
    \A w \in Worker :
        /\ worker[w].pc \in {"claimed", "called", "giveup"} => worker[w].op \in Op
        /\ worker[w].pc \in {"claimed", "called"} => Met(row, worker[w].op)

\* What is resolved is nobody's.
ResolvedIsFree(rows) == \A o \in Op : rows[o].status \in Resolved => rows[o].claimant = NoWorker

\* A loss is shared by all that depends on it, and says where it came from.
Shares(rows, a, o) == rows[o].status = rows[a].status /\ rows[o].code = "dependency"
LossIsShared(rows) ==
    \A o \in Op : \A a \in Before[o] : rows[a].status \in Lost => Shares(rows, a, o)

\* Nothing is lost before what it depends on is resolved.
LostIsLast(rows) ==
    \A o \in Op : rows[o].status \in Lost => \A a \in Before[o] : rows[a].status \in Resolved

\* A loss that came from elsewhere came from something that is lost itself.
Causes(rows, a, o) ==
    a \in Before[o] /\ rows[a].status \in Lost /\ rows[a].code # "dependency"
LossHasCause(rows) ==
    \A o \in Op : rows[o].status \in Lost /\ rows[o].code = "dependency"
        => \E a \in Op : Causes(rows, a, o)

RowInv == /\ StartedIsMet(row) /\ ResolvedIsFree(row) /\ LossIsShared(row) /\ LostIsLast(row)
          /\ LossHasCause(row)
IInv == TypeOK /\ RowInv /\ AcceptedIsMet /\ CalledIsMet /\ IntentAgrees

-----------------------------------------------------------------------------
(* The plan. *)

LEMMA PlanFacts ==
    ASSUME NEW o \in Op
    PROVE  /\ Before[o] \subseteq Op /\ o \notin Before[o]
           /\ Prerequisite[o] \in Op \cup {NoOp} /\ NoOp \notin Op
           /\ Prerequisite[o] = NoOp => Before[o] = {}
           /\ Prerequisite[o] # NoOp =>
                Before[o] = {Prerequisite[o]} \cup Before[Prerequisite[o]]
           /\ \A a \in Before[o] : Before[a] \subseteq Before[o] /\ a \notin Before[a]
           /\ \A a, b \in Before[o] : a = b \/ a \in Before[b] \/ b \in Before[a]
<1>1. \A q \in Op : Before[q] \subseteq Op /\ \A a \in Before[q] : a < q
    BY OutboxAssumption
<1>2. \A q \in Op : q \notin Before[q]
    BY <1>1 DEF Op
<1>3. Prerequisite[o] \in 0 .. Ops /\ Ops \in Nat
    BY OutboxAssumption
<1>4. Prerequisite[o] \in Op \cup {NoOp} /\ NoOp \notin Op
    BY <1>3 DEF Op, NoOp
<1>5. Before[o] = IF Prerequisite[o] = NoOp THEN {}
                  ELSE {Prerequisite[o]} \cup Before[Prerequisite[o]]
    BY OutboxAssumption
<1>6. \A a \in Before[o] : Before[a] \subseteq Before[o]
    BY OutboxAssumption
<1>7. \A a, b \in Before[o] : a = b \/ a \in Before[b] \/ b \in Before[a]
    BY OutboxAssumption
<1> QED
    BY <1>1, <1>2, <1>4, <1>5, <1>6, <1>7

LEMMA Kinds ==
    /\ Good \cap Lost = {} /\ Good \cap Open = {} /\ Lost \cap Open = {}
    /\ Resolved = Good \cup Lost /\ {"pending", "retry_wait", "uploading"} = Open
    /\ "dependency" \in Code /\ Lost = {"failed", "uncertain"}
BY DEF Good, Lost, Open, Resolved, Code

-----------------------------------------------------------------------------
(* Propagation.  An operation has at most one that dooms it. *)

LEMMA SingleDoom ==
    ASSUME NEW rows, NEW o \in Op, NEW a, NEW b, Dooms(rows, a, o), Dooms(rows, b, o)
    PROVE  a = b
<1>1. a \in Before[o] /\ b \in Before[o] /\ rows[a].status \in Lost /\ rows[b].status \in Lost
    BY DEF Dooms
<1>2. ~Waits(rows, a) /\ ~Waits(rows, b)
    BY <1>1 DEF Waits, Lost
<1>3. a \notin Before[b] /\ b \notin Before[a]
    BY <1>1, <1>2 DEF Dooms
<1> QED
    BY <1>1, <1>3, PlanFacts

LEMMA NotDoomed ==
    ASSUME NEW rows, NEW o \in Op, \A a \in Op : ~Dooms(rows, a, o)
    PROVE  Propagated(rows)[o] = rows[o]
BY DEF Propagated

LEMMA ByDoom ==
    ASSUME NEW rows \in [Op -> Row], NEW o \in Op, NEW a \in Op, Dooms(rows, a, o)
    PROVE  /\ Propagated(rows)[o] \in Row
           /\ Propagated(rows)[o].status = rows[a].status
           /\ Propagated(rows)[o].code = "dependency"
           /\ Propagated(rows)[o].claimant = NoWorker
<1>1. rows[o] \in Row /\ rows[a].status \in {"failed", "uncertain"}
    BY DEF Dooms, Lost
<1>2. (\E b \in Op : Dooms(rows, b, o) /\ rows[b].status = "uncertain")
        <=> rows[a].status = "uncertain"
    BY SingleDoom
<1> DEFINE st == IF \E b \in Op : Dooms(rows, b, o) /\ rows[b].status = "uncertain"
                 THEN "uncertain" ELSE "failed"
<1>3. st = rows[a].status
    BY <1>1, <1>2
<1>4. Propagated(rows)[o] = [rows[o] EXCEPT !.status = st, !.code = "dependency",
                                !.claimant = NoWorker, !.leased = FALSE, !.due = TRUE,
                                !.windowOver = FALSE]
    BY DEF Propagated
<1>5. st \in Open \cup Resolved
    BY <1>1, <1>3 DEF Resolved, Lost
<1> HIDE DEF st
<1> QED
    BY <1>1, <1>3, <1>4, <1>5 DEF Row, Code

LEMMA PropagatedType ==
    ASSUME NEW rows \in [Op -> Row]
    PROVE  Propagated(rows) \in [Op -> Row]
<1>1. \A o \in Op : Propagated(rows)[o] \in Row
    <2> TAKE o \in Op
    <2>1. CASE \E a \in Op : Dooms(rows, a, o)
        BY <2>1, ByDoom
    <2>2. CASE ~ \E a \in Op : Dooms(rows, a, o)
        BY <2>2, NotDoomed
    <2> QED
        BY <2>1, <2>2
<1>2. Propagated(rows) = [o \in Op |-> Propagated(rows)[o]]
    BY DEF Propagated
<1> QED
    BY <1>1, <1>2

\* What a statement leaves behind before the propagation.
Ready(rows) ==
    /\ rows \in [Op -> Row]
    /\ StartedIsMet(rows) /\ ResolvedIsFree(rows) /\ LostIsLast(rows) /\ LossHasCause(rows)
    /\ \A o \in Op : \A a \in Before[o] :
          rows[a].status \in Lost => Shares(rows, a, o) \/ Dooms(rows, a, o)

LEMMA Changed ==
    ASSUME NEW rows \in [Op -> Row], NEW o \in Op
    PROVE  \/ Propagated(rows)[o] = rows[o]
           \/ /\ Waits(rows, o) /\ Propagated(rows)[o].code = "dependency"
              /\ Propagated(rows)[o].status \in Lost /\ Propagated(rows)[o].claimant = NoWorker
              /\ \E a \in Op : Dooms(rows, a, o) /\ Propagated(rows)[o].status = rows[a].status
<1>1. CASE \E a \in Op : Dooms(rows, a, o)
    <2>1. PICK a \in Op : Dooms(rows, a, o)
        BY <1>1
    <2> QED
        BY <2>1, ByDoom DEF Dooms
<1>2. CASE \A a \in Op : ~Dooms(rows, a, o)
    BY <1>2, NotDoomed
<1> QED
    BY <1>1, <1>2

LEMMA KeepsResolved ==
    ASSUME NEW rows \in [Op -> Row], NEW o \in Op, rows[o].status \in Resolved
    PROVE  Propagated(rows)[o] = rows[o]
BY Changed DEF Waits, Resolved, Good, Lost

LEMMA PropagationSettles ==
    ASSUME NEW rows, Ready(rows)
    PROVE  LET r == Propagated(rows) IN
           /\ StartedIsMet(r) /\ ResolvedIsFree(r) /\ LossIsShared(r) /\ LostIsLast(r)
           /\ LossHasCause(r)
<1> DEFINE r == Propagated(rows)
<1>0. rows \in [Op -> Row]
    BY DEF Ready
<1>1. \A q \in Op : Met(rows, q) => Met(r, q)
    BY <1>0, KeepsResolved, PlanFacts DEF Met, Resolved
<1>2. StartedIsMet(r)
    <2> SUFFICES ASSUME NEW o \in Op,
                        r[o].claimant # NoWorker \/ r[o].status \in Good \cup {"uploading"}
                 PROVE  Met(r, o)
        BY DEF StartedIsMet
    <2>1. r[o] = rows[o]
        BY <1>0, Changed, Kinds
    <2> QED
        BY <2>1, <1>1 DEF Ready, StartedIsMet
<1>3. ResolvedIsFree(r)
    BY <1>0, Changed DEF ResolvedIsFree, Ready
<1>4. LossIsShared(r)
    <2> SUFFICES ASSUME NEW o \in Op, NEW a \in Before[o], r[a].status \in Lost
                 PROVE  Shares(r, a, o)
        BY DEF LossIsShared
    <2>1. a \in Op /\ Before[a] \subseteq Before[o]
        BY PlanFacts
    <2>2. PICK c \in Op : c \in Before[o] /\ rows[c].status \in Lost /\ r[a].status = rows[c].status
        <3>1. CASE r[a] = rows[a]
            BY <3>1, <2>1
        <3>2. CASE r[a] # rows[a]
            BY <3>2, <2>1, <1>0, Changed DEF Dooms
        <3> QED
            BY <3>1, <3>2
    <2>3. CASE Shares(rows, c, o)
        <3>1. r[o] = rows[o]
            BY <2>2, <2>3, <1>0, KeepsResolved DEF Shares, Resolved
        <3> QED
            BY <3>1, <2>2, <2>3 DEF Shares
    <2>4. CASE Dooms(rows, c, o)
        BY <2>2, <2>4, <1>0, ByDoom DEF Shares
    <2> QED
        BY <2>2, <2>3, <2>4 DEF Ready
<1>5. LostIsLast(r)
    <2> SUFFICES ASSUME NEW o \in Op, r[o].status \in Lost, NEW a \in Before[o]
                 PROVE  r[a].status \in Resolved
        BY DEF LostIsLast
    <2>1. a \in Op
        BY PlanFacts
    <2>2. CASE r[o] = rows[o]
        BY <2>1, <2>2, <1>0, KeepsResolved DEF Ready, LostIsLast
    <2>3. CASE r[o] # rows[o]
        <3>1. PICK c \in Op : Dooms(rows, c, o)
            BY <2>3, <1>0, Changed
        <3>2. c \in Before[o] /\ rows[c].status \in Lost
            BY <3>1 DEF Dooms
        <3>3. CASE a = c
            BY <3>2, <3>3, <1>0, KeepsResolved DEF Resolved
        <3>4. CASE a \in Before[c]
            BY <3>2, <3>4, <2>1, <1>0, KeepsResolved DEF Ready, LostIsLast
        <3>5. CASE c \in Before[a]
            BY <3>2, <3>5, <2>1, <1>4, <1>0, KeepsResolved DEF LossIsShared, Shares, Resolved
        <3> QED
            BY <3>2, <3>3, <3>4, <3>5, PlanFacts
    <2> QED
        BY <2>2, <2>3
<1>6. LossHasCause(r)
    <2> SUFFICES ASSUME NEW o \in Op, r[o].status \in Lost, r[o].code = "dependency"
                 PROVE  \E a \in Op : Causes(r, a, o)
        BY DEF LossHasCause
    <2>1. \A a \in Op : Causes(rows, a, o) => Causes(r, a, o)
        BY <1>0, KeepsResolved DEF Causes, Resolved
    <2>2. CASE r[o] = rows[o]
        BY <2>1, <2>2 DEF Ready, LossHasCause
    <2>3. CASE r[o] # rows[o]
        <3>1. PICK c \in Op : Dooms(rows, c, o)
            BY <2>3, <1>0, Changed
        <3>2. c \in Before[o] /\ rows[c].status \in Lost /\ Before[c] \subseteq Before[o]
            BY <3>1, PlanFacts DEF Dooms
        <3>3. CASE rows[c].code # "dependency"
            BY <2>1, <3>2, <3>3 DEF Causes
        <3>4. CASE rows[c].code = "dependency"
            <4>1. PICK a \in Op : Causes(rows, a, c)
                BY <3>2, <3>4 DEF Ready, LossHasCause
            <4> QED
                BY <2>1, <3>2, <4>1 DEF Causes
        <3> QED
            BY <3>3, <3>4
    <2> QED
        BY <2>2, <2>3
<1> QED
    BY <1>2, <1>3, <1>4, <1>5, <1>6

-----------------------------------------------------------------------------
(* Types. *)

LEMMA SetBatch ==
    ASSUME NEW f \in [Worker -> WorkerState], NEW w \in Worker, NEW b \in SUBSET Op
    PROVE  [f EXCEPT ![w].batch = b] \in [Worker -> WorkerState]
BY DEF WorkerState

LEMMA SetPcBatch ==
    ASSUME NEW f \in [Worker -> WorkerState], NEW w \in Worker, NEW b \in SUBSET Op,
           NEW p \in {"idle", "reopening", "looping", "claimed", "called", "giveup"}
    PROVE  [f EXCEPT ![w].pc = p, ![w].batch = b] \in [Worker -> WorkerState]
BY DEF WorkerState

LEMMA SetPcOp ==
    ASSUME NEW f \in [Worker -> WorkerState], NEW w \in Worker, NEW o \in Op \cup {NoOp},
           NEW p \in {"idle", "reopening", "looping", "claimed", "called", "giveup"}
    PROVE  [f EXCEPT ![w].pc = p, ![w].op = o] \in [Worker -> WorkerState]
BY DEF WorkerState

LEMMA SetPcOpBatch ==
    ASSUME NEW f \in [Worker -> WorkerState], NEW w \in Worker, NEW b \in SUBSET Op,
           NEW o \in Op \cup {NoOp},
           NEW p \in {"idle", "reopening", "looping", "claimed", "called", "giveup"}
    PROVE  [f EXCEPT ![w].pc = p, ![w].op = o, ![w].batch = b] \in [Worker -> WorkerState]
<1> DEFINE g == [f EXCEPT ![w].pc = p, ![w].op = o]
<1>1. g \in [Worker -> WorkerState]
    BY SetPcOp
<1>2. [f EXCEPT ![w].pc = p, ![w].op = o, ![w].batch = b] = [g EXCEPT ![w].batch = b]
    OBVIOUS
<1> HIDE DEF g
<1> QED
    BY <1>1, <1>2, SetBatch

LEMMA SetResult ==
    ASSUME NEW f \in [Worker -> WorkerState], NEW w \in Worker, NEW res \in Result,
           NEW p \in {"idle", "reopening", "looping", "claimed", "called", "giveup"}
    PROVE  [f EXCEPT ![w].pc = p, ![w].result = res] \in [Worker -> WorkerState]
BY DEF WorkerState

LEMMA SetResultAged ==
    ASSUME NEW f \in [Worker -> WorkerState], NEW w \in Worker, NEW res \in Result,
           NEW p \in {"idle", "reopening", "looping", "claimed", "called", "giveup"},
           NEW aged \in BOOLEAN
    PROVE  [f EXCEPT ![w].pc = p, ![w].result = res, ![w].aged = aged] \in [Worker -> WorkerState]
<1> DEFINE g == [f EXCEPT ![w].pc = p, ![w].result = res]
<1>1. g \in [Worker -> WorkerState]
    BY SetResult
<1>2. [f EXCEPT ![w].pc = p, ![w].result = res, ![w].aged = aged] = [g EXCEPT ![w].aged = aged]
    OBVIOUS
<1> HIDE DEF g
<1> QED
    BY <1>1, <1>2 DEF WorkerState

LEMMA SetPcOpBatchResult ==
    ASSUME NEW f \in [Worker -> WorkerState], NEW w \in Worker, NEW b \in SUBSET Op,
           NEW o \in Op \cup {NoOp}, NEW res \in Result,
           NEW p \in {"idle", "reopening", "looping", "claimed", "called", "giveup"}
    PROVE  [f EXCEPT ![w].pc = p, ![w].op = o, ![w].batch = b, ![w].result = res]
                \in [Worker -> WorkerState]
<1> DEFINE g == [f EXCEPT ![w].pc = p, ![w].op = o, ![w].batch = b]
<1>1. g \in [Worker -> WorkerState]
    BY SetPcOpBatch
<1>2. [f EXCEPT ![w].pc = p, ![w].op = o, ![w].batch = b, ![w].result = res]
        = [g EXCEPT ![w].result = res]
    OBVIOUS
<1> HIDE DEF g
<1> QED
    BY <1>1, <1>2 DEF WorkerState

LEMMA IdleType == Idle \in WorkerState /\ NoResult \in Result
BY DEF Idle, WorkerState, NoResult, Result, Code

LEMMA AttachmentType == ASSUME NEW o \in Op PROVE Attachment(o) \subseteq Op
BY DEF Attachment, Sends

LEMMA AnswersType == ASSUME NEW w, NEW o PROVE Answers(w, o) \subseteq Result
BY DEF Answers, Result, Resolved, Good, Lost, Code

LEMMA ContinuesType ==
    ASSUME TypeOK, NEW w \in Worker, worker[w].op \in Op, Continues(w)
    PROVE  /\ worker' \in [Worker -> WorkerState]
           /\ worker'[w].pc \in {"looping", "giveup"}
           /\ worker'[w].pc = "giveup" => worker'[w].op \in Op
           /\ \A v \in Worker \ {w} : worker'[v] = worker[v]
<1> DEFINE to(pc, op, batch) == worker' = [worker EXCEPT ![w].pc = pc, ![w].op = op,
                                            ![w].batch = batch, ![w].result = NoResult]
<1>1. worker \in [Worker -> WorkerState] /\ worker[w] \in WorkerState
    BY DEF TypeOK
<1>2. \A b \in SUBSET Op : b \ Attachment(worker[w].op) \in SUBSET Op
    OBVIOUS
<1>3. worker[w].batch \in SUBSET Op
    BY <1>1 DEF WorkerState
<1>4. ASSUME NEW pc \in {"looping", "giveup"}, NEW op \in Op \cup {NoOp}, NEW b \in SUBSET Op,
             pc = "giveup" => op \in Op, to(pc, op, b)
      PROVE  /\ worker' \in [Worker -> WorkerState]
             /\ worker'[w].pc \in {"looping", "giveup"}
             /\ worker'[w].pc = "giveup" => worker'[w].op \in Op
             /\ \A v \in Worker \ {w} : worker'[v] = worker[v]
    <2>1. worker' \in [Worker -> WorkerState]
        <3>1. pc \in {"idle", "reopening", "looping", "claimed", "called", "giveup"}
            OBVIOUS
        <3>2. [worker EXCEPT ![w].pc = pc, ![w].op = op, ![w].batch = b, ![w].result = NoResult]
                \in [Worker -> WorkerState]
            BY <1>1, <3>1, SetPcOpBatchResult, IdleType
        <3> QED
            BY <1>4, <3>2
    <2>2. worker'[w].pc = pc /\ worker'[w].op = op
        BY <1>1, <1>4 DEF WorkerState
    <2> QED
        BY <1>1, <1>4, <2>1, <2>2
<1>5. \/ \E b \in SUBSET Op : to("looping", NoOp, b)
      \/ \E b \in SUBSET Op : \E q \in Op : to("giveup", q, b)
    BY <1>2, <1>3, AttachmentType DEF Continues
<1> HIDE DEF to
<1> QED
    BY <1>4, <1>5

LEMMA AggregateType ==
    ASSUME NEW rows PROVE Aggregate(rows) \in {"pending", "delivered", "failed", "uncertain"}
BY DEF Aggregate

-----------------------------------------------------------------------------
(* The statements. *)

LEMMA BehindOpen ==
    ASSUME TypeOK, RowInv, NEW o \in Op, NEW q \in Op, o \in Before[q],
           row[o].status \notin Resolved
    PROVE  Waits(row, q)
<1>1. row[q] \in Row
    BY DEF TypeOK
<1>2. row[q].status \notin Good \cup {"uploading"}
    BY DEF RowInv, StartedIsMet, Met, Resolved
<1>3. row[q].status \notin Lost
    BY DEF RowInv, LostIsLast
<1> QED
    BY <1>1, <1>2, <1>3 DEF Row, Waits, Open, Resolved

\* A statement on an operation that w has claimed.
LEMMA ClaimedReady ==
    ASSUME TypeOK, RowInv, NEW w \in Worker, NEW o \in Op, Fenced(w, o),
           NEW r \in [Op -> Row], \A q \in Op \ {o} : r[q] = row[q],
           r[o].status \in Resolved => r[o].claimant = NoWorker,
           r[o].code # "dependency"
    PROVE  Ready(r) /\ row[o].status \notin Resolved /\ Met(row, o)
<1>1. row[o].claimant # NoWorker
    BY OutboxAssumption DEF Fenced
<1>2. row[o].status \notin Resolved /\ Met(row, o)
    BY <1>1 DEF RowInv, ResolvedIsFree, StartedIsMet
<1>3. \A q \in Op : Before[q] \subseteq Op
    BY PlanFacts
<1>4. \A q \in Op : Met(row, q) => Met(r, q)
    BY <1>2, <1>3 DEF Met, Resolved
<1>5. StartedIsMet(r)
    BY <1>2, <1>4 DEF RowInv, StartedIsMet
<1>6. ResolvedIsFree(r)
    BY DEF RowInv, ResolvedIsFree
<1>7. LostIsLast(r)
    <2> SUFFICES ASSUME NEW q \in Op, r[q].status \in Lost, NEW a \in Before[q]
                 PROVE  r[a].status \in Resolved
        BY DEF LostIsLast
    <2>1. CASE q = o
        BY <2>1, <1>2, <1>4 DEF Met, Resolved
    <2>2. CASE q # o
        BY <2>2, <1>2, <1>3 DEF RowInv, LostIsLast
    <2> QED
        BY <2>1, <2>2
<1>8. ASSUME NEW q \in Op, NEW a \in Before[q], r[a].status \in Lost
      PROVE  Shares(r, a, q) \/ Dooms(r, a, q)
    <2>1. CASE q = o
        BY <2>1, <1>2, <1>4, <1>8, Kinds DEF Met
    <2>2. CASE q # o /\ a # o
        BY <2>2, <1>3, <1>8 DEF RowInv, LossIsShared, Shares
    <2>3. CASE q # o /\ a = o
        <3>1. \A b \in Op : o \in Before[b] => Waits(r, b)
            BY <1>2, BehindOpen, PlanFacts DEF Waits
        <3> QED
            BY <2>3, <3>1, <1>3, <1>8 DEF Dooms
    <2> QED
        BY <2>1, <2>2, <2>3
<1>9. LossHasCause(r)
    <2> SUFFICES ASSUME NEW q \in Op, r[q].status \in Lost, r[q].code = "dependency"
                 PROVE  \E a \in Op : Causes(r, a, q)
        BY DEF LossHasCause
    <2>1. r[q] = row[q]
        OBVIOUS
    <2>2. PICK a \in Op : Causes(row, a, q)
        BY <2>1 DEF RowInv, LossHasCause
    <2>3. a # o
        BY <1>2, <2>2, Kinds DEF Causes
    <2> QED
        BY <2>2, <2>3 DEF Causes
<1> QED
    BY <1>2, <1>5, <1>6, <1>7, <1>8, <1>9 DEF Ready

LEMMA RecordedRow ==
    ASSUME TypeOK, NEW o \in Op, NEW res \in Result
    PROVE  /\ Recorded(o, res) \in [Op -> Row]
           /\ \A q \in Op \ {o} : Recorded(o, res)[q] = row[q]
           /\ Recorded(o, res)[o].claimant = NoWorker
           /\ Recorded(o, res)[o].status = res.status /\ Recorded(o, res)[o].code = res.code
           /\ res.code # "dependency"
<1> DEFINE new == After(row[o], res)
<1>1. row \in [Op -> Row] /\ row[o] \in Row /\ res.status \in Open \cup Resolved
      /\ res.code \in Code \ {"dependency"}
    BY DEF TypeOK, Result, Open
<1>2. new \in Row /\ new.claimant = NoWorker /\ new.status = res.status /\ new.code = res.code
    BY <1>1 DEF Row, After
<1>3. Recorded(o, res) = [row EXCEPT ![o] = new]
    BY DEF Recorded
<1> HIDE DEF new
<1> QED
    BY <1>1, <1>2, <1>3

LEMMA ReopenedRow ==
    ASSUME TypeOK, NEW o \in Op, NEW q \in Op
    PROVE  /\ Reopened(o)[q] \in Row
           /\ IF q = o \/ (row[q].status = "failed" /\ row[q].code = "dependency")
              THEN Reopened(o)[q].status = "retry_wait" /\ Reopened(o)[q].claimant = row[q].claimant
              ELSE Reopened(o)[q] = row[q]
<1>1. row[q] \in Row
    BY DEF TypeOK
<1>2. "retry_wait" \in Open \cup Resolved /\ "none" \in Code
    BY DEF Open, Code
<1> QED
    BY <1>1, <1>2 DEF Reopened, Row

LEMMA ReopenedReady ==
    ASSUME TypeOK, RowInv, NEW o \in Op, Transient(o)
    PROVE  /\ Ready(Reopened(o))
           /\ \A q \in Op : Reopened(o)[q] = row[q] \/
                /\ row[q].status = "failed" /\ row[q].code \in {"transient", "dependency"}
                /\ Reopened(o)[q].status = "retry_wait"
<1> DEFINE r == Reopened(o)
           again(q) == row[q].status = "failed" /\ (q = o \/ row[q].code = "dependency")
<1>1. row \in [Op -> Row] /\ r \in [Op -> Row]
    BY ReopenedRow DEF TypeOK, Reopened
<1>2. \A q \in Op : IF again(q) THEN r[q].status = "retry_wait" /\ r[q].claimant = row[q].claimant
                    ELSE r[q] = row[q]
    BY ReopenedRow DEF Transient
<1>3. \A q \in Op : Before[q] \subseteq Op
    BY PlanFacts
<1>4. \A q \in Op : again(q) => row[q].status \in Lost /\ row[q].claimant = NoWorker
    BY DEF RowInv, ResolvedIsFree, Resolved, Lost
<1>5. row[o].code = "transient" /\ again(o)
    BY DEF Transient
<1>6. \A q \in Op : \A a \in Before[q] : again(a) => again(q)
    BY <1>3, <1>4 DEF RowInv, LossIsShared, Shares
<1> HIDE DEF r
<1>7. \A q \in Op : Met(row, q) => Met(r, q)
    BY <1>2, <1>3, <1>4, Kinds DEF Met
<1>8. StartedIsMet(r)
    <2>1. \A q \in Op : ~again(q) => r[q] = row[q]
        BY <1>2
    <2>2. \A q \in Op : again(q) => r[q].claimant = NoWorker /\ r[q].status = "retry_wait"
        BY <1>2, <1>4
    <2>3. "retry_wait" \notin Good \cup {"uploading"}
        BY DEF Good
    <2> HIDE DEF again
    <2> QED
        BY <1>7, <2>1, <2>2, <2>3 DEF RowInv, StartedIsMet
<1>9. ResolvedIsFree(r)
    BY <1>2, <1>4 DEF RowInv, ResolvedIsFree
<1>10. LostIsLast(r)
    <2> SUFFICES ASSUME NEW q \in Op, r[q].status \in Lost, NEW a \in Before[q]
                 PROVE  r[a].status \in Resolved
        BY DEF LostIsLast
    <2>1. ~again(q) /\ r[q] = row[q]
        BY <1>2, Kinds
    <2>2. ~again(a)
        BY <2>1, <1>6
    <2> QED
        BY <2>1, <2>2, <1>2, <1>3 DEF RowInv, LostIsLast
<1>11. ASSUME NEW q \in Op, NEW a \in Before[q], r[a].status \in Lost
       PROVE  Shares(r, a, q) \/ Dooms(r, a, q)
    <2>1. a \in Op /\ ~again(a) /\ r[a] = row[a]
        BY <1>2, <1>3, <1>11, Kinds
    <2>2. \A b \in Op : a \in Before[b] => Shares(row, a, b)
        BY <2>1, <1>11 DEF RowInv, LossIsShared
    <2>3. CASE row[a].status = "failed"
        <3>1. \A b \in Op : a \in Before[b] => Waits(r, b)
            BY <2>2, <2>3, <1>2 DEF Shares, Waits
        <3> QED
            BY <3>1, <1>3, <1>11 DEF Dooms
    <2>4. CASE row[a].status # "failed"
        BY <2>1, <2>2, <2>4, <1>2 DEF Shares
    <2> QED
        BY <2>3, <2>4
<1>12. \A q \in Op : r[q] = row[q] \/ (row[q].status = "failed"
            /\ row[q].code \in {"transient", "dependency"} /\ r[q].status = "retry_wait")
    BY <1>2, <1>5
<1>13. LossHasCause(r)
    <2> SUFFICES ASSUME NEW q \in Op, r[q].status \in Lost, r[q].code = "dependency"
                 PROVE  \E a \in Op : Causes(r, a, q)
        BY DEF LossHasCause
    <2>1. ~again(q) /\ r[q] = row[q] /\ row[q].status # "failed"
        BY <1>2, Kinds
    <2>2. PICK a \in Op : Causes(row, a, q)
        BY <2>1 DEF RowInv, LossHasCause
    <2>3. row[a].status # "failed"
        BY <2>1, <2>2 DEF RowInv, LossIsShared, Shares, Causes
    <2>4. r[a] = row[a]
        BY <2>3, <1>2
    <2> QED
        BY <2>2, <2>4 DEF Causes
<1> QED
    BY <1>1, <1>8, <1>9, <1>10, <1>11, <1>12, <1>13 DEF Ready, r

-----------------------------------------------------------------------------
(* What a step does to the rows: it leaves their outcomes alone and may claim one *)
(* that is claimable, or it is a statement followed by the propagation.            *)

Marks ==
    /\ row' \in [Op -> Row] /\ intent' = intent
    /\ \A q \in Op : /\ row'[q].status = row[q].status /\ row'[q].code = row[q].code
                     /\ row'[q].claimant = row[q].claimant \/ Claimable(q)

Allowed(rows, q) ==
    row[q].status \in Resolved =>
        \/ rows[q] = row[q]
        \/ /\ row[q].status = "failed" /\ row[q].code \in {"transient", "dependency"}
           /\ rows[q].status = "retry_wait"
\* One operation whose turn it is gets what was found out about it, or one that may
\* be tried again is reopened with all that followed from a failure.
Reports(rows, o) ==
    /\ row[o].status \notin Resolved /\ Met(row, o) /\ rows[o].code # "dependency"
    /\ \A q \in Op \ {o} : rows[q] = row[q]
Refreshes(rows) ==
    /\ Ready(rows) /\ row' = Propagated(rows) /\ intent' = Aggregate(row')
    /\ \A q \in Op : Allowed(rows, q)
    /\ \E o \in Op : Reports(rows, o) \/ (Transient(o) /\ rows = Reopened(o))

LEMMA SameRows == TypeOK /\ UNCHANGED <<row, intent>> => Marks
BY DEF TypeOK, Marks

LEMMA TakesMarks ==
    ASSUME TypeOK, NEW w \in Worker, NEW o \in Op, Claimable(o), Takes(w, o), intent' = intent
    PROVE  Marks
<1>1. row[o] \in Row /\ row \in [Op -> Row]
    BY DEF TypeOK
<1>3. (~worker[w].aged) \in BOOLEAN
    OBVIOUS
<1>2. ASSUME NEW l \in BOOLEAN, row' = [row EXCEPT ![o].claimant = w, ![o].leased = l]
      PROVE  Marks
    BY <1>1, <1>2 DEF Marks, Row
<1> QED
    BY <1>2, <1>3 DEF Takes

LEMMA UpdateKinds ==
    ASSUME TypeOK, RowInv, NEW w \in Worker, NEW o \in Op, NEW res \in Result,
           UpdateResult(w, o, res)
    PROVE  Marks \/ \E rows : Refreshes(rows)
<1>1. CASE ~Fenced(w, o)
    BY <1>1, SameRows DEF UpdateResult
<1>2. CASE Fenced(w, o)
    <2>1. row' = Propagated(Recorded(o, res)) /\ intent' = Aggregate(row')
        BY <1>2 DEF UpdateResult, Refresh
    <2>2. Ready(Recorded(o, res)) /\ row[o].status \notin Resolved /\ Met(row, o)
        BY <1>2, RecordedRow, ClaimedReady
    <2>4. Reports(Recorded(o, res), o)
        BY <2>2, RecordedRow DEF Reports
    <2>3. \A q \in Op : Allowed(Recorded(o, res), q)
        BY <2>2, RecordedRow DEF Allowed
    <2> QED
        BY <2>1, <2>2, <2>3, <2>4 DEF Refreshes
<1> QED
    BY <1>1, <1>2

LEMMA ReopenKinds ==
    ASSUME TypeOK, RowInv, NEW o \in Op, Reopen(o)
    PROVE  Marks \/ \E rows : Refreshes(rows)
<1>1. CASE ~Transient(o)
    BY <1>1, SameRows DEF Reopen
<1>2. CASE Transient(o)
    BY <1>2, ReopenedReady DEF Reopen, Refresh, Refreshes, Allowed
<1> QED
    BY <1>1, <1>2

LEMMA ProgressKinds ==
    ASSUME TypeOK, RowInv, CalledIsMet, NEW w \in Worker, Progress(w)
    PROVE  \E rows : Refreshes(rows)
<1> DEFINE o == worker[w].op
           rows == [row EXCEPT ![o].status = "uploading", ![o].code = "none"]
<1>1. o \in Op /\ Fenced(w, o) /\ row' = Propagated(rows) /\ intent' = Aggregate(row')
    BY DEF Progress, At, CalledIsMet, Refresh
<1>2. row \in [Op -> Row] /\ row[o] \in Row
    BY <1>1 DEF TypeOK
<1>3. \A st \in {"uploading"}, cd \in {"none"} :
        /\ [row EXCEPT ![o].status = st, ![o].code = cd] \in [Op -> Row]
        /\ \A q \in Op \ {o} : [row EXCEPT ![o].status = st, ![o].code = cd][q] = row[q]
        /\ [row EXCEPT ![o].status = st, ![o].code = cd][o].status = st
        /\ [row EXCEPT ![o].status = st, ![o].code = cd][o].code = cd
    BY <1>1, <1>2 DEF Row, Open, Code
<1>4. /\ rows \in [Op -> Row] /\ rows[o].status = "uploading" /\ rows[o].code = "none"
      /\ \A q \in Op \ {o} : rows[q] = row[q]
    BY <1>3
<1> HIDE DEF rows, o
<1>5. Ready(rows) /\ row[o].status \notin Resolved /\ Met(row, o)
    BY <1>1, <1>4, ClaimedReady DEF Resolved, Good, Lost
<1>6. \A q \in Op : Allowed(rows, q)
    BY <1>4, <1>5 DEF Allowed
<1> QED
    BY <1>1, <1>4, <1>5, <1>6 DEF Refreshes, Reports

LEMMA OutcomeType ==
    ASSUME TypeOK, NEW w \in Worker
    PROVE  Outcome(w) \in Result
BY DEF TypeOK, WorkerState, Outcome, Result, Code, Resolved, Lost

LEMMA StepKinds ==
    ASSUME TypeOK, RowInv, CalledIsMet, [Next]_vars
    PROVE  Marks \/ \E rows : Refreshes(rows)
<1>1. CASE UNCHANGED vars
    BY <1>1, SameRows DEF vars
<1>2. ASSUME NEW w \in Worker, Step(w) PROVE Marks \/ \E rows : Refreshes(rows)
    <2>1. CASE Claim(w)
        BY <2>1, TakesMarks DEF Claim
    <2>2. CASE GiveUp(w)
        <3>1. worker[w].op \in Op
            BY <2>2 DEF GiveUp, At, CalledIsMet
        <3> QED
            BY <2>2, <3>1, TakesMarks, SameRows DEF GiveUp
    <2>3. CASE Record(w)
        <3>1. worker[w].op \in Op /\ UpdateResult(w, worker[w].op, Outcome(w))
            BY <2>3 DEF Record, At, CalledIsMet
        <3> QED
            BY <3>1, UpdateKinds, OutcomeType
    <2>4. CASE ReopenNext(w)
        BY <2>4, ReopenKinds, SameRows DEF ReopenNext
    <2>5. CASE SendAnyway(w) \/ Busy(w) \/ Call(w) \/ Done(w) \/ StartPass(w) \/ Scan(w)
        BY <2>5, SameRows DEF SendAnyway, Busy, Call, Done, StartPass, Scan
    <2> QED
        BY <1>2, <2>1, <2>2, <2>3, <2>4, <2>5 DEF Step
<1>3. ASSUME NEW w \in Worker, Progress(w) \/ RecordFails(w) \/ Crash(w)
      PROVE  Marks \/ \E rows : Refreshes(rows)
    BY <1>3, ProgressKinds, SameRows DEF RecordFails, Crash
<1>4. ASSUME NEW o \in Op, Expire(o) \/ DueAgain(o) \/ WindowPasses(o)
      PROVE  Marks
    <2>1. row[o] \in Row /\ row \in [Op -> Row]
        BY DEF TypeOK
    <2>2. CASE Expire(o)
        BY <2>1, <2>2 DEF Expire, Marks, Row
    <2>3. CASE DueAgain(o)
        BY <2>1, <2>3 DEF DueAgain, Marks, Row
    <2>4. CASE WindowPasses(o)
        BY <2>1, <2>4 DEF WindowPasses, Marks, Row
    <2> QED
        BY <1>4, <2>2, <2>3, <2>4
<1>5. ASSUME NEW o \in Op, OperatorRetry(o) PROVE Marks \/ \E rows : Refreshes(rows)
    BY <1>5, ReopenKinds DEF OperatorRetry
<1> QED
    BY <1>1, <1>2, <1>3, <1>4, <1>5 DEF Next

-----------------------------------------------------------------------------
(* The invariants. *)

LEMMA ClaimableIsMet ==
    ASSUME TypeOK, RowInv, NEW o \in Op, Claimable(o)
    PROVE  Met(row, o) /\ row[o].status \in Open
<1>1. CASE Prerequisite[o] = NoOp
    BY <1>1, PlanFacts DEF Claimable, Due, Met
<1>2. CASE Prerequisite[o] # NoOp
    <2>1. Prerequisite[o] \in Op /\ row[Prerequisite[o]].status \in Good
        BY <1>2, PlanFacts DEF Claimable
    <2>2. Met(row, Prerequisite[o])
        BY <2>1 DEF RowInv, StartedIsMet
    <2> QED
        BY <1>2, <2>1, <2>2, PlanFacts DEF Claimable, Due, Met
<1> QED
    BY <1>1, <1>2

LEMMA StepGood ==
    ASSUME TypeOK, RowInv, CalledIsMet, [Next]_vars, NEW o \in Op, row[o].status \in Good
    PROVE  row'[o].status \in Good
<1>1. CASE Marks
    BY <1>1 DEF Marks
<1>2. ASSUME NEW rows, Refreshes(rows) PROVE row'[o].status \in Good
    <2>1. rows[o] = row[o] /\ rows \in [Op -> Row]
        BY <1>2, Kinds DEF Refreshes, Allowed, Ready
    <2> QED
        BY <1>2, <2>1, KeepsResolved DEF Refreshes, Resolved
<1> QED
    BY <1>1, <1>2, StepKinds

LEMMA StepMet ==
    ASSUME TypeOK, RowInv, CalledIsMet, [Next]_vars, NEW o \in Op, Met(row, o)
    PROVE  Met(row', o)
BY StepGood, PlanFacts DEF Met

LEMMA StepRows ==
    ASSUME TypeOK, RowInv, CalledIsMet, [Next]_vars
    PROVE  RowInv'
<1>1. CASE Marks
    <2>1. \A q \in Op : Before[q] \subseteq Op
        BY PlanFacts
    <2>2. \A q \in Op : Met(row, q) => Met(row', q)
        BY <1>1, <2>1 DEF Marks, Met
    <2>3. StartedIsMet(row')
        BY <1>1, <2>2, ClaimableIsMet DEF Marks, RowInv, StartedIsMet
    <2>4. ResolvedIsFree(row')
        BY <1>1, ClaimableIsMet, Kinds DEF Marks, RowInv, ResolvedIsFree
    <2>5. LossIsShared(row')
        BY <1>1, <2>1 DEF Marks, RowInv, LossIsShared, Shares
    <2>6. LostIsLast(row')
        BY <1>1, <2>1 DEF Marks, RowInv, LostIsLast
    <2>7. LossHasCause(row')
        BY <1>1, <2>1 DEF Marks, RowInv, LossHasCause, Causes
    <2> QED
        BY <2>3, <2>4, <2>5, <2>6, <2>7 DEF RowInv
<1>2. CASE \E rows : Refreshes(rows)
    BY <1>2, PropagationSettles DEF Refreshes, RowInv
<1> QED
    BY <1>1, <1>2, StepKinds

LEMMA StepIntent ==
    ASSUME TypeOK, RowInv, CalledIsMet, IntentAgrees, [Next]_vars
    PROVE  IntentAgrees'
<1>1. CASE Marks
    <2>1. \A q \in Op : row'[q].status = row[q].status
        BY <1>1 DEF Marks
    <2>2. Aggregate(row') = Aggregate(row)
        BY <2>1 DEF Aggregate
    <2> QED
        BY <1>1, <2>2 DEF Marks, IntentAgrees
<1>2. CASE \E rows : Refreshes(rows)
    BY <1>2 DEF Refreshes, IntentAgrees
<1> QED
    BY <1>1, <1>2, StepKinds

\* Only a call counts, of an operation whose prerequisites are met.
LEMMA StepAccepted ==
    ASSUME TypeOK, RowInv, CalledIsMet, AcceptedIsMet, [Next]_vars
    PROVE  AcceptedIsMet'
<1>1. ASSUME NEW o \in Op, accepted'[o] > 0 PROVE Met(row, o)
    <2>1. CASE accepted'[o] = accepted[o]
        BY <1>1, <2>1 DEF AcceptedIsMet
    <2>2. CASE accepted'[o] # accepted[o]
        <3>1. PICK w \in Worker : Call(w)
            BY <2>2 DEF Next, vars, Step, Claim, SendAnyway, Busy, GiveUp, Record, Done, StartPass,
               ReopenNext, Scan, Progress, RecordFails, Crash, Expire, DueAgain, WindowPasses,
               OperatorRetry
        <3>2. worker[w].pc = "claimed" /\ o = worker[w].op
            BY <2>2, <3>1 DEF Call, At, TypeOK
        <3> QED
            BY <3>2 DEF CalledIsMet
    <2> QED
        BY <2>1, <2>2
<1> QED
    BY <1>1, StepMet DEF AcceptedIsMet

\* What a step does to the program counter of one worker.
Moves(v) ==
    LET old == worker[v]
        new == worker'[v]
    IN  \/ new.pc = old.pc /\ new.op = old.op
        \/ new.pc \notin {"claimed", "called", "giveup"}
        \/ new.pc = "giveup" /\ new.op \in Op
        \/ new.pc \in {"claimed", "called"} /\ new.op \in Op /\ Met(row, new.op)

LEMMA ClaimMoves ==
    ASSUME TypeOK, RowInv, NEW w \in Worker, Claim(w) \/ SendAnyway(w)
    PROVE  worker' \in [Worker -> WorkerState] /\ \A v \in Worker : Moves(v)
<1>1. worker \in [Worker -> WorkerState] /\ worker[w] \in WorkerState
    BY DEF TypeOK
<1>2. PICK o \in Op : /\ worker' = [worker EXCEPT ![w].pc = "claimed", ![w].op = o,
                                        ![w].batch = @ \ {o}]
                      /\ Claimable(o) \/ Delivered(w, o)
    BY DEF Claim, SendAnyway
<1>3. Met(row, o)
    BY <1>2, ClaimableIsMet DEF Delivered, Good, RowInv, StartedIsMet
<1>4. worker[w].batch \ {o} \in SUBSET Op
    BY <1>1 DEF WorkerState
<1>5. worker' = [worker EXCEPT ![w].pc = "claimed", ![w].op = o, ![w].batch = worker[w].batch \ {o}]
    BY <1>2
<1>6. worker' \in [Worker -> WorkerState]
    BY <1>1, <1>4, <1>5, SetPcOpBatch
<1>7. worker'[w].pc = "claimed" /\ worker'[w].op = o /\ \A v \in Worker \ {w} : worker'[v] = worker[v]
    BY <1>1, <1>5 DEF WorkerState
<1> QED
    BY <1>3, <1>6, <1>7 DEF Moves

LEMMA BusyMoves ==
    ASSUME TypeOK, NEW w \in Worker, Busy(w)
    PROVE  worker' \in [Worker -> WorkerState] /\ \A v \in Worker : Moves(v)
<1>1. worker \in [Worker -> WorkerState] /\ worker[w] \in WorkerState /\ worker[w].batch \in SUBSET Op
    BY DEF TypeOK, WorkerState
<1>2. ASSUME NEW b \in SUBSET Op, worker' = [worker EXCEPT ![w].batch = b]
      PROVE  worker' \in [Worker -> WorkerState] /\ \A v \in Worker : Moves(v)
    <2>1. worker' \in [Worker -> WorkerState]
        BY <1>1, <1>2, SetBatch
    <2>2. worker'[w].pc = worker[w].pc /\ worker'[w].op = worker[w].op
          /\ \A v \in Worker \ {w} : worker'[v] = worker[v]
        BY <1>1, <1>2 DEF WorkerState
    <2> QED
        BY <2>1, <2>2 DEF Moves
<1>3. ASSUME NEW b \in SUBSET Op, NEW q \in Op,
             worker' = [worker EXCEPT ![w].batch = b, ![w].pc = "giveup", ![w].op = q]
      PROVE  worker' \in [Worker -> WorkerState] /\ \A v \in Worker : Moves(v)
    <2> DEFINE g == [worker EXCEPT ![w].batch = b]
    <2>1. g \in [Worker -> WorkerState]
        BY <1>1, SetBatch
    <2>2. worker' = [g EXCEPT ![w].pc = "giveup", ![w].op = q]
        BY <1>3
    <2> HIDE DEF g
    <2>3. worker' \in [Worker -> WorkerState]
        BY <2>1, <2>2, SetPcOp
    <2>4. worker'[w].pc = "giveup" /\ worker'[w].op = q /\ \A v \in Worker \ {w} : worker'[v] = worker[v]
        BY <1>1, <1>3 DEF WorkerState
    <2> QED
        BY <2>3, <2>4 DEF Moves
<1>4. \/ \E b \in SUBSET Op : worker' = [worker EXCEPT ![w].batch = b]
      \/ \E b \in SUBSET Op : \E q \in Op :
            worker' = [worker EXCEPT ![w].batch = b, ![w].pc = "giveup", ![w].op = q]
    <2>1. PICK o \in Op :
            \/ worker' = [worker EXCEPT ![w].batch = @ \ {o}]
            \/ worker' = [worker EXCEPT ![w].batch = (@ \cap Texts) \ {o}]
            \/ worker' = [worker EXCEPT ![w].batch = @ \ Attachment(o)]
            \/ \E q \in Attachment(o) :
                  worker' = [worker EXCEPT ![w].batch = @ \ Attachment(o), ![w].pc = "giveup",
                                           ![w].op = q]
        BY DEF Busy
    <2>2. CASE worker' = [worker EXCEPT ![w].batch = @ \ {o}]
        <3>1. worker' = [worker EXCEPT ![w].batch = worker[w].batch \ {o}]
            BY <2>2
        <3> QED
            BY <3>1, <1>1
    <2>3. CASE worker' = [worker EXCEPT ![w].batch = (@ \cap Texts) \ {o}]
        <3>1. worker' = [worker EXCEPT ![w].batch = (worker[w].batch \cap Texts) \ {o}]
            BY <2>3
        <3> QED
            BY <3>1, <1>1
    <2>4. CASE worker' = [worker EXCEPT ![w].batch = @ \ Attachment(o)]
        <3>1. worker' = [worker EXCEPT ![w].batch = worker[w].batch \ Attachment(o)]
            BY <2>4
        <3> QED
            BY <3>1, <1>1
    <2>5. ASSUME NEW q \in Attachment(o),
                 worker' = [worker EXCEPT ![w].batch = @ \ Attachment(o), ![w].pc = "giveup", ![w].op = q]
          PROVE  \E b \in SUBSET Op : \E p \in Op :
                    worker' = [worker EXCEPT ![w].batch = b, ![w].pc = "giveup", ![w].op = p]
        <3>1. worker' = [worker EXCEPT ![w].batch = worker[w].batch \ Attachment(o),
                                       ![w].pc = "giveup", ![w].op = q]
            BY <2>5
        <3> QED
            BY <3>1, <1>1, AttachmentType
    <2> QED
        BY <2>1, <2>2, <2>3, <2>4, <2>5
<1> QED
    BY <1>2, <1>3, <1>4

LEMMA GiveUpMoves ==
    ASSUME TypeOK, RowInv, CalledIsMet, NEW w \in Worker, GiveUp(w)
    PROVE  worker' \in [Worker -> WorkerState] /\ \A v \in Worker : Moves(v)
<1>1. worker \in [Worker -> WorkerState] /\ worker[w] \in WorkerState /\ worker[w].op \in Op
    BY DEF TypeOK, GiveUp, At, CalledIsMet
<1>2. CASE worker' = [worker EXCEPT ![w].pc = "looping", ![w].op = NoOp]
    <2>1. worker' \in [Worker -> WorkerState]
        BY <1>1, <1>2, SetPcOp
    <2>2. worker'[w].pc = "looping" /\ \A v \in Worker \ {w} : worker'[v] = worker[v]
        BY <1>1, <1>2 DEF WorkerState
    <2> QED
        BY <2>1, <2>2 DEF Moves
<1>3. ASSUME Claimable(worker[w].op), NEW res \in Result,
             worker' = [worker EXCEPT ![w].pc = "called", ![w].result = res]
      PROVE  worker' \in [Worker -> WorkerState] /\ \A v \in Worker : Moves(v)
    <2>1. worker' \in [Worker -> WorkerState]
        BY <1>1, <1>3, SetResult
    <2>2. worker'[w].pc = "called" /\ worker'[w].op = worker[w].op
          /\ \A v \in Worker \ {w} : worker'[v] = worker[v]
        BY <1>1, <1>3 DEF WorkerState
    <2> QED
        BY <1>1, <1>3, <2>1, <2>2, ClaimableIsMet DEF Moves
<1>4. [status |-> "failed", code |-> "permanent"] \in Result
    BY DEF Result, Resolved, Lost, Code
<1> QED
    BY <1>2, <1>3, <1>4 DEF GiveUp

LEMMA CallMoves ==
    ASSUME TypeOK, CalledIsMet, NEW w \in Worker, Call(w)
    PROVE  worker' \in [Worker -> WorkerState] /\ \A v \in Worker : Moves(v)
<1>1. worker \in [Worker -> WorkerState] /\ worker[w] \in WorkerState
      /\ worker[w].op \in Op /\ Met(row, worker[w].op)
    BY DEF TypeOK, Call, At, CalledIsMet
<1>2. PICK a \in Result, late \in BOOLEAN :
        worker' = [worker EXCEPT ![w].pc = "called", ![w].result = a, ![w].aged = @ \/ late]
    BY AnswersType DEF Call
<1>3. (worker[w].aged \/ late) \in BOOLEAN
    OBVIOUS
<1>4. PICK aged \in BOOLEAN :
        worker' = [worker EXCEPT ![w].pc = "called", ![w].result = a, ![w].aged = aged]
    BY <1>2, <1>3
<1>5. worker' \in [Worker -> WorkerState]
    BY <1>1, <1>4, SetResultAged
<1>6. worker'[w].pc = "called" /\ worker'[w].op = worker[w].op
      /\ \A v \in Worker \ {w} : worker'[v] = worker[v]
    BY <1>1, <1>4 DEF WorkerState
<1> QED
    BY <1>1, <1>5, <1>6 DEF Moves

\* Steps that take a worker to one of the quiet points.
LEMMA QuietMoves ==
    ASSUME TypeOK, NEW w \in Worker, NEW s \in WorkerState,
           s.pc \in {"idle", "reopening", "looping"}, worker' = [worker EXCEPT ![w] = s]
    PROVE  worker' \in [Worker -> WorkerState] /\ \A v \in Worker : Moves(v)
<1>1. worker \in [Worker -> WorkerState]
    BY DEF TypeOK
<1>2. worker' \in [Worker -> WorkerState]
    BY <1>1
<1>3. worker'[w] = s /\ \A v \in Worker \ {w} : worker'[v] = worker[v]
    BY <1>1
<1> QED
    BY <1>2, <1>3 DEF Moves

LEMMA RecordMoves ==
    ASSUME TypeOK, CalledIsMet, NEW w \in Worker, Record(w) \/ RecordFails(w)
    PROVE  worker' \in [Worker -> WorkerState] /\ \A v \in Worker : Moves(v)
<1>1. worker[w].op \in Op
    BY DEF Record, RecordFails, At, CalledIsMet
<1>2. CASE Continues(w)
    <2>1. /\ worker' \in [Worker -> WorkerState]
          /\ worker'[w].pc \in {"looping", "giveup"}
          /\ worker'[w].pc = "giveup" => worker'[w].op \in Op
          /\ \A v \in Worker \ {w} : worker'[v] = worker[v]
        BY <1>1, <1>2, ContinuesType
    <2> QED
        BY <2>1 DEF Moves
<1>3. CASE worker' = [worker EXCEPT ![w] = Idle]
    BY <1>3, IdleType, QuietMoves DEF Idle
<1> QED
    BY <1>2, <1>3 DEF Record, RecordFails

LEMMA PassMoves ==
    ASSUME TypeOK, NEW w \in Worker,
           StartPass(w) \/ ReopenNext(w) \/ Scan(w) \/ Done(w) \/ Crash(w)
    PROVE  worker' \in [Worker -> WorkerState] /\ \A v \in Worker : Moves(v)
<1>1. worker \in [Worker -> WorkerState] /\ worker[w] \in WorkerState
    BY DEF TypeOK
<1>2. ASSUME NEW p \in {"reopening", "looping"}, NEW b \in SUBSET Op, NEW c \in SUBSET Op,
             worker' = [worker EXCEPT ![w].pc = p, ![w].batch = b, ![w].over = c]
      PROVE  worker' \in [Worker -> WorkerState] /\ \A v \in Worker : Moves(v)
    <2> DEFINE s == [worker[w] EXCEPT !.pc = p, !.batch = b, !.over = c]
    <2>1. worker' = [worker EXCEPT ![w] = s]
        BY <1>1, <1>2
    <2>2. s.pc = p /\ s \in WorkerState
        BY <1>1 DEF WorkerState
    <2> HIDE DEF s
    <2> QED
        BY <2>1, <2>2, QuietMoves
<1>3. CASE StartPass(w)
    <2>1. PICK b \in SUBSET Op : worker' = [worker EXCEPT ![w].pc = "reopening", ![w].batch = b]
        BY <1>3 DEF StartPass
    <2>2. worker' = [worker EXCEPT ![w].pc = "reopening", ![w].batch = b, ![w].over = worker[w].over]
        BY <1>1, <2>1 DEF WorkerState
    <2>3. worker[w].over \in SUBSET Op
        BY <1>1 DEF WorkerState
    <2> QED
        BY <1>2, <2>2, <2>3
<1>4. CASE ReopenNext(w)
    <2>1. PICK o \in Op : worker' = [worker EXCEPT ![w].batch = @ \ {o}]
        BY <1>4 DEF ReopenNext
    <2>2. worker' = [worker EXCEPT ![w].batch = worker[w].batch \ {o}]
        BY <2>1
    <2>3. worker[w].batch \ {o} \in SUBSET Op
        BY <1>1 DEF WorkerState
    <2>4. worker' \in [Worker -> WorkerState]
        BY <1>1, <2>2, <2>3, SetBatch
    <2>5. worker'[w].pc = worker[w].pc /\ worker'[w].op = worker[w].op
          /\ \A v \in Worker \ {w} : worker'[v] = worker[v]
        BY <1>1, <2>2 DEF WorkerState
    <2> QED
        BY <2>4, <2>5 DEF Moves
<1>5. CASE Scan(w)
    <2>1. PICK b \in SUBSET Op, c \in SUBSET Op :
            worker' = [worker EXCEPT ![w].pc = "looping", ![w].batch = b, ![w].over = c]
        <3> DEFINE b == {o \in Op : Due(o)}
                   c == {o \in Op : Due(o) /\ row[o].windowOver}
        <3>1. worker' = [worker EXCEPT ![w].pc = "looping", ![w].batch = b, ![w].over = c]
            BY <1>5 DEF Scan
        <3>2. b \in SUBSET Op /\ c \in SUBSET Op
            OBVIOUS
        <3> HIDE DEF b, c
        <3> QED
            BY <3>1, <3>2
    <2> QED
        BY <1>2, <2>1
<1>6. CASE Done(w) \/ Crash(w)
    BY <1>6, IdleType, QuietMoves DEF Done, Crash, Idle
<1> QED
    BY <1>3, <1>4, <1>5, <1>6

LEMMA StepMoves ==
    ASSUME TypeOK, RowInv, CalledIsMet, [Next]_vars
    PROVE  worker' \in [Worker -> WorkerState] /\ \A v \in Worker : Moves(v)
<1>1. CASE UNCHANGED worker
    BY <1>1 DEF TypeOK, Moves
<1>2. ASSUME NEW w \in Worker, Step(w) \/ Progress(w) \/ RecordFails(w) \/ Crash(w)
      PROVE  worker' \in [Worker -> WorkerState] /\ \A v \in Worker : Moves(v)
    <2>1. CASE Progress(w)
        BY <1>1, <2>1 DEF Progress
    <2> QED
        BY <1>2, <2>1, ClaimMoves, BusyMoves, GiveUpMoves, CallMoves, RecordMoves, PassMoves DEF Step
<1>3. ASSUME NEW o \in Op, Expire(o) \/ DueAgain(o) \/ WindowPasses(o) \/ OperatorRetry(o)
      PROVE  UNCHANGED worker
    BY <1>3 DEF Expire, DueAgain, WindowPasses, OperatorRetry
<1> QED
    BY <1>1, <1>2, <1>3 DEF Next, vars

LEMMA StepCalled ==
    ASSUME TypeOK, RowInv, CalledIsMet, [Next]_vars
    PROVE  CalledIsMet'
<1>1. \A v \in Worker : Moves(v)
    BY StepMoves
<1>2. ASSUME NEW v \in Worker, worker'[v].pc \in {"claimed", "called", "giveup"}
      PROVE  worker'[v].op \in Op
    BY <1>1, <1>2 DEF Moves, CalledIsMet
<1>3. ASSUME NEW v \in Worker, worker'[v].pc \in {"claimed", "called"}
      PROVE  Met(row', worker'[v].op)
    <2>1. worker'[v].op \in Op
        BY <1>2, <1>3
    <2>2. Met(row, worker'[v].op)
        BY <1>1, <1>3 DEF Moves, CalledIsMet
    <2> QED
        BY <2>1, <2>2, StepMet
<1> QED
    BY <1>2, <1>3 DEF CalledIsMet

LEMMA StepReopened ==
    ASSUME TypeOK, [Next]_vars
    PROVE  reopened' \in [Recovery -> SUBSET Op] /\ disruptions' \in 0 .. MaxDisruptions
<1>0. reopened \in [Recovery -> SUBSET Op] /\ disruptions \in 0 .. MaxDisruptions
      /\ MaxDisruptions \in Nat
    BY OutboxAssumption DEF TypeOK
<1>1. CASE UNCHANGED <<reopened, disruptions>>
    BY <1>0, <1>1
<1>2. ASSUME NEW w \in Worker, ReopenNext(w)
      PROVE  reopened' \in [Recovery -> SUBSET Op] /\ UNCHANGED disruptions
    <2>1. PICK o \in Op : reopened' = [reopened EXCEPT ![w] = @ \cup {o}]
        BY <1>2 DEF ReopenNext
    <2>2. reopened' \in [Recovery -> SUBSET Op]
        BY <1>0, <2>1
    <2> QED
        BY <1>2, <2>2 DEF ReopenNext
<1>3. ASSUME NEW w \in Worker, Crash(w)
      PROVE  reopened' \in [Recovery -> SUBSET Op] /\ disruptions' \in 0 .. MaxDisruptions
    BY <1>0, <1>3 DEF Crash
<1>4. ASSUME NEW o \in Op, OperatorRetry(o)
      PROVE  reopened' \in [Recovery -> SUBSET Op] /\ disruptions' \in 0 .. MaxDisruptions
    BY <1>0, <1>4 DEF OperatorRetry
<1>5. \/ UNCHANGED <<reopened, disruptions>>
      \/ \E w \in Worker : ReopenNext(w) \/ Crash(w)
      \/ \E o \in Op : OperatorRetry(o)
    BY DEF Next, vars, Step, Claim, SendAnyway, Busy, GiveUp, Call, Record, Done, StartPass, Scan,
       Progress, RecordFails, Expire, DueAgain, WindowPasses
<1> QED
    BY <1>0, <1>1, <1>2, <1>3, <1>4, <1>5

LEMMA StepCounts ==
    ASSUME TypeOK, [Next]_vars
    PROVE  accepted' \in [Op -> 0 .. MaxAccepted]
<1>0. accepted \in [Op -> 0 .. MaxAccepted] /\ MaxAccepted \in Nat
    BY OutboxAssumption DEF TypeOK
<1>1. ASSUME NEW w \in Worker, Call(w) PROVE accepted' \in [Op -> 0 .. MaxAccepted]
    <2>1. PICK reached \in BOOLEAN : accepted' = [accepted EXCEPT ![worker[w].op] =
                IF reached /\ @ < MaxAccepted THEN @ + 1 ELSE @]
        BY <1>1 DEF Call, Reached
    <2>2. \A q \in Op : accepted'[q] \in 0 .. MaxAccepted
        BY <1>0, <2>1
    <2>3. accepted' = [q \in Op |-> accepted'[q]]
        BY <1>0, <2>1
    <2> QED
        BY <2>2, <2>3
<1>2. UNCHANGED accepted \/ \E w \in Worker : Call(w)
    BY DEF Next, vars, Step, Claim, SendAnyway, Busy, GiveUp, Record, Done, StartPass, ReopenNext,
       Scan, Progress, RecordFails, Crash, Expire, DueAgain, WindowPasses, OperatorRetry
<1> QED
    BY <1>0, <1>1, <1>2

LEMMA StepType ==
    ASSUME TypeOK, RowInv, CalledIsMet, [Next]_vars
    PROVE  TypeOK'
<1>1. row' \in [Op -> Row] /\ intent' \in {"pending", "delivered", "failed", "uncertain"}
    <2>1. CASE Marks
        BY <2>1 DEF Marks, TypeOK
    <2>2. CASE \E rows : Refreshes(rows)
        BY <2>2, PropagatedType, AggregateType DEF Refreshes, Ready
    <2> QED
        BY <2>1, <2>2, StepKinds
<1> QED
    BY <1>1, StepMoves, StepReopened, StepCounts DEF TypeOK

LEMMA InitInv == Init => IInv
<1> SUFFICES ASSUME Init PROVE IInv
    OBVIOUS
<1>1. \A o \in Op : row[o] = [status |-> "pending", code |-> "none", claimant |-> NoWorker,
                              leased |-> FALSE, due |-> TRUE, windowOver |-> FALSE]
    BY DEF Init
<1>2. row \in [Op -> Row]
    BY DEF Init, Row, Open, Code
<1>3. worker \in [Worker -> WorkerState]
    <2>1. [Idle EXCEPT !.pc = "looping", !.batch = Op] \in WorkerState
        BY IdleType DEF WorkerState
    <2> QED
        BY <2>1, IdleType DEF Init
<1>4. \A w \in Worker : worker[w].pc \in {"idle", "looping"}
    BY DEF Init, Idle
<1>5. TypeOK
    <2>1. accepted \in [Op -> 0 .. MaxAccepted] /\ disruptions \in 0 .. MaxDisruptions
        BY OutboxAssumption DEF Init
    <2>2. reopened \in [Recovery -> SUBSET Op] /\ intent = "pending"
        BY DEF Init
    <2> QED
        BY <1>2, <1>3, <2>1, <2>2 DEF TypeOK
<1>6. \A o \in Op : row[o].status = "pending" /\ row[o].claimant = NoWorker
    BY <1>1
<1>7. RowInv
    BY <1>6, PlanFacts, Kinds DEF RowInv, StartedIsMet, ResolvedIsFree, LossIsShared, LostIsLast,
       LossHasCause
<1>8. AcceptedIsMet /\ CalledIsMet
    BY <1>4 DEF Init, AcceptedIsMet, CalledIsMet
<1>9. IntentAgrees
    <2>1. intent = "pending"
        BY DEF Init
    <2>2. Ops > 0 => 1 \in Op
        BY OutboxAssumption DEF Op
    <2> QED
        BY <1>6, <2>1, <2>2 DEF IntentAgrees, Aggregate, Good, Lost, Resolved
<1> QED
    BY <1>5, <1>7, <1>8, <1>9 DEF IInv

LEMMA Invariance == Spec => []IInv
<1>1. IInv /\ [Next]_vars => IInv'
    BY StepType, StepRows, StepAccepted, StepCalled, StepIntent DEF IInv
<1> QED
    BY InitInv, <1>1, PTL DEF Spec

-----------------------------------------------------------------------------
(* The theorems. *)

\* The rows, the aggregate and the workers only take the values the code knows.
THEOREM TypeCorrect == Spec => []TypeOK
<1>1. IInv => TypeOK
    BY DEF IInv
<1> QED
    BY Invariance, <1>1, PTL

\* No operation is claimed, done or received before its prerequisite has succeeded:
\* the claim checks one link of the chain, and success never goes away.
THEOREM AfterItsPrerequisite == Spec => []PrerequisiteFirst
<1>1. IInv => PrerequisiteFirst
    <2> SUFFICES ASSUME IInv, NEW o \in Op, Prerequisite[o] # NoOp,
                        \/ row[o].claimant # NoWorker \/ accepted[o] > 0
                        \/ row[o].status \in Good \cup {"uploading"}
                 PROVE  row[Prerequisite[o]].status \in Good
        BY DEF PrerequisiteFirst
    <2>1. Met(row, o)
        BY DEF IInv, RowInv, StartedIsMet, AcceptedIsMet
    <2>2. Prerequisite[o] \in Before[o]
        BY PlanFacts
    <2> QED
        BY <2>1, <2>2 DEF Met
<1> QED
    BY Invariance, <1>1, PTL

\* A lost prerequisite has resolved everything behind it, at any depth of the plan.
THEOREM LossPropagates == Spec => []NobodyWaitsForLost
<1>1. IInv => NobodyWaitsForLost
    <2> SUFFICES ASSUME IInv, NEW o \in Op, Prerequisite[o] # NoOp,
                        row[Prerequisite[o]].status \in Lost
                 PROVE  row[o].status \in Lost
        BY DEF NobodyWaitsForLost
    <2>1. Prerequisite[o] \in Before[o]
        BY PlanFacts
    <2> QED
        BY <2>1 DEF IInv, RowInv, LossIsShared, Shares
<1> QED
    BY Invariance, <1>1, PTL

\* The aggregate of the reply is never older than its operations.
THEOREM AggregateIsCurrent == Spec => []IntentAgrees
<1>1. IInv => IntentAgrees
    BY DEF IInv
<1> QED
    BY Invariance, <1>1, PTL

\* A recorded outcome stands, also against a worker that was displaced while the
\* platform was slow: only a transient failure, or one that followed from it, is
\* reopened, and only for another try.
OutcomeStands ==
    [][\A o \in Op : row[o].status \in Resolved /\ row'[o].status # row[o].status
        => /\ row[o].status = "failed" /\ row[o].code \in {"transient", "dependency"}
           /\ row'[o].status = "retry_wait"]_vars

LEMMA StepOutcome ==
    ASSUME IInv, [Next]_vars, NEW o \in Op, row[o].status \in Resolved,
           row'[o].status # row[o].status
    PROVE  /\ row[o].status = "failed" /\ row[o].code \in {"transient", "dependency"}
           /\ row'[o].status = "retry_wait"
<1>0. ~Marks
    BY DEF Marks
<1>1. PICK rows : Refreshes(rows)
    BY <1>0, StepKinds DEF IInv
<1>2. rows \in [Op -> Row] /\ row'[o] = Propagated(rows)[o]
    BY <1>1 DEF Refreshes, Ready
<1>3. rows[o] # row[o]
    BY <1>2, KeepsResolved
<1>4. row[o].status = "failed" /\ row[o].code \in {"transient", "dependency"}
      /\ rows[o].status = "retry_wait"
    BY <1>1, <1>3 DEF Refreshes, Allowed
<1>5. CASE row'[o] = rows[o]
    BY <1>4, <1>5
<1>6. CASE row'[o] # rows[o]
    <2>1. PICK a \in Op : Dooms(rows, a, o) /\ row'[o].status = rows[a].status
        BY <1>2, <1>6, Changed
    <2>2. a \in Before[o] /\ rows[a].status \in Lost
        BY <2>1 DEF Dooms
    <2>3. rows[a] = row[a]
        <3>1. row[a].status \in Resolved
            BY <1>4, <2>2, Kinds DEF IInv, RowInv, LostIsLast
        <3> QED
            BY <1>1, <2>2, <3>1, Kinds DEF Refreshes, Allowed
    <2>4. row[o].status = row[a].status
        BY <2>2, <2>3 DEF IInv, RowInv, LossIsShared, Shares
    <2> QED
        BY <2>1, <2>3, <2>4
<1> QED
    BY <1>4, <1>5, <1>6

\* What has been recorded of an operation is only ever replaced by another try
\* after a transient failure: by no displaced worker, and by no propagation.
THEOREM RecordedStands == Spec => OutcomeStands
<1>1. IInv /\ [Next]_vars =>
        [\A o \in Op : row[o].status \in Resolved /\ row'[o].status # row[o].status
            => /\ row[o].status = "failed" /\ row[o].code \in {"transient", "dependency"}
               /\ row'[o].status = "retry_wait"]_vars
    BY StepOutcome
<1> QED
    BY Invariance, <1>1, PTL DEF Spec, OutcomeStands

-----------------------------------------------------------------------------
(* The outbox implements the plan of the reply. *)

LEMMA FateKinds ==
    ASSUME NEW r \in Row
    PROVE  /\ Fate(r) = "open" <=> r.status \in Open
           /\ Fate(r) = "done" <=> r.status \in Good
           /\ Fate(r) = "skipped" <=> r.status \in Lost /\ r.code = "dependency"
           /\ Fate(r) = "uncertain" <=> r.status = "uncertain" /\ r.code # "dependency"
           /\ Fate(r) = "failed" <=> r.status = "failed" /\ r.code = "transient"
           /\ Fate(r) \in {"failed", "refused"} <=> r.status = "failed" /\ r.code # "dependency"
           /\ Fate(r) \in {"open", "done", "skipped", "uncertain", "failed", "refused"}
<1> DEFINE st == r.status
           cd == r.code
<1>1. st \in {"pending", "uploading", "retry_wait", "uploaded", "delivered", "unsupported",
              "failed", "uncertain"}
    BY DEF Row, Open, Resolved, Good, Lost
<1>2. Fate(r) = IF st \in Open THEN "open" ELSE IF st \in Good THEN "done"
                ELSE IF cd = "dependency" THEN "skipped"
                ELSE IF st = "uncertain" THEN "uncertain"
                ELSE IF cd = "transient" THEN "failed" ELSE "refused"
    BY DEF Fate
<1> HIDE DEF st, cd
<1>3. st \in Open => Fate(r) = "open"
    BY <1>2
<1>4. st \in Good => Fate(r) = "done"
    BY <1>2, Kinds
<1>5. st \in Lost /\ cd = "dependency" => Fate(r) = "skipped"
    BY <1>2, Kinds
<1>6. st = "uncertain" /\ cd # "dependency" => Fate(r) = "uncertain"
    BY <1>2, Kinds
<1>7. st = "failed" /\ cd # "dependency" =>
          IF cd = "transient" THEN Fate(r) = "failed" ELSE Fate(r) = "refused"
    BY <1>2, Kinds
<1>8. st \in Open \cup Good \cup Lost
    BY <1>1 DEF Open, Good, Lost
<1>9. st \in Lost <=> st = "failed" \/ st = "uncertain"
    BY DEF Lost
<1> QED
    BY <1>3, <1>4, <1>5, <1>6, <1>7, <1>8, <1>9, Kinds DEF st, cd

\* What the statement that refreshes the intent computes is what the plan says.
LEMMA SummaryIsAggregate ==
    ASSUME NEW rows \in [Op -> Row], LossIsShared(rows), LossHasCause(rows)
    PROVE  Aggregate(rows) = Plan!Summary([o \in Op |-> Fate(rows[o])])
<1> DEFINE f == [o \in Op |-> Fate(rows[o])]
           some(S) == \E o \in Op : f[o] \in S
           is(S) == \E o \in Op : rows[o].status \in S
<1>1. \A o \in Op : rows[o] \in Row /\ f[o] = Fate(rows[o]) /\ rows[o].status \in Open \cup Resolved
    BY DEF Row
<1>2. \A o \in Op : rows[o].status \in Lost /\ rows[o].code = "dependency" =>
          \E a \in Op : rows[a].status = rows[o].status /\ rows[a].code # "dependency"
    BY DEF LossHasCause, Causes, LossIsShared, Shares
<1>3. is({"failed"}) <=> some({"failed", "refused"})
    BY <1>1, <1>2, FateKinds, Kinds
<1>4. is({"uncertain"}) <=> some({"uncertain"})
    BY <1>1, <1>2, FateKinds, Kinds
<1>5. is(Open) <=> some({"open"})
    BY <1>1, FateKinds
<1>6. (\A o \in Op : rows[o].status \in Resolved) <=> ~is(Open)
    BY <1>1, Kinds
<1>7. (\A o \in Op : rows[o].status \in Good) <=> ~is(Open) /\ ~is({"failed"}) /\ ~is({"uncertain"})
    BY <1>1, Kinds
<1>8. Ops > 0 <=> Op # {}
    BY OutboxAssumption DEF Op
<1>9. Op = {} => ~is({"failed"}) /\ ~is({"uncertain"})
    OBVIOUS
<1>10. Plan!Summary(f) = IF Op = {} \/ some({"open"}) THEN "pending"
                         ELSE IF some({"failed", "refused"}) THEN "failed"
                         ELSE IF some({"uncertain"}) THEN "uncertain" ELSE "delivered"
    BY DEF Plan!Summary
<1>11. Aggregate(rows) =
          IF (\A o \in Op : rows[o].status \in Good) /\ Ops > 0 THEN "delivered"
          ELSE IF is({"failed"}) /\ (\A o \in Op : rows[o].status \in Resolved) THEN "failed"
          ELSE IF is({"uncertain"}) /\ (\A o \in Op : rows[o].status \in Resolved) THEN "uncertain"
          ELSE "pending"
    BY DEF Aggregate
<1> HIDE DEF f, some, is
<1>12. Aggregate(rows) = Plan!Summary(f)
    <2> DEFINE x == is(Open)
               y == is({"failed"})
               z == is({"uncertain"})
    <2>1. Aggregate(rows) = IF ~x /\ ~y /\ ~z /\ Op # {} THEN "delivered"
                            ELSE IF y /\ ~x THEN "failed"
                            ELSE IF z /\ ~x THEN "uncertain" ELSE "pending"
        BY <1>6, <1>7, <1>8, <1>11
    <2>2. Plan!Summary(f) = IF Op = {} \/ x THEN "pending"
                            ELSE IF y THEN "failed" ELSE IF z THEN "uncertain" ELSE "delivered"
        BY <1>3, <1>4, <1>5, <1>10
    <2>3. Op = {} => ~y /\ ~z
        BY <1>9
    <2> HIDE DEF x, y, z
    <2>4. CASE Op = {} \/ x
        BY <2>1, <2>2, <2>3, <2>4
    <2>5. CASE Op # {} /\ ~x /\ y
        BY <2>1, <2>2, <2>5
    <2>6. CASE Op # {} /\ ~x /\ ~y
        BY <2>1, <2>2, <2>6
    <2> QED
        BY <2>4, <2>5, <2>6
<1> QED
    BY <1>12 DEF f

Fates == [o \in Op |-> Fate(row[o])]
Got == {o \in Op : accepted[o] > 0}

LEMMA MetIsReady ==
    ASSUME TypeOK, NEW o \in Op
    PROVE  Met(row, o) <=> \A a \in Before[o] : Fates[a] = "done"
BY PlanFacts, FateKinds DEF TypeOK, Met, Fates

\* What an operation gets is its own: the propagation changes no other that it
\* has not lost for.
LEMMA ReportLeaves ==
    ASSUME TypeOK, RowInv, NEW rows, NEW o \in Op, Refreshes(rows), Reports(rows, o)
    PROVE  /\ row'[o] = rows[o]
           /\ \A q \in Op \ {o} : row'[q] = row[q] \/ (o \in Before[q] /\ rows[o].status \in Lost)
<1>1. rows \in [Op -> Row] /\ row' = Propagated(rows)
    BY DEF Refreshes, Ready
<1>2. \A q \in Op : Before[q] \subseteq Op /\ q \notin Before[q]
    BY PlanFacts
<1>3. row'[o] = rows[o]
    <2>1. \A a \in Op : ~Dooms(rows, a, o)
        BY <1>2, Kinds DEF Reports, Met, Dooms
    <2> QED
        BY <1>1, <2>1, NotDoomed
<1>4. ASSUME NEW q \in Op \ {o}, row'[q] # row[q]
      PROVE  o \in Before[q] /\ rows[o].status \in Lost
    <2>1. rows[q] = row[q]
        BY DEF Reports
    <2>2. PICK a \in Op : Dooms(rows, a, q)
        BY <1>1, <1>4, <2>1, Changed
    <2>3. a \in Before[q] /\ rows[a].status \in Lost /\ row[q].status \notin Lost
        BY <2>1, <2>2 DEF Dooms, Waits, Lost
    <2>4. a = o
        BY <2>3 DEF Reports, RowInv, LossIsShared, Shares
    <2> QED
        BY <2>3, <2>4
<1> QED
    BY <1>3, <1>4

LEMMA ReportPlans ==
    ASSUME IInv, IInv', NEW rows, NEW o \in Op, Refreshes(rows), Reports(rows, o), Got' = Got
    PROVE  Plan!Succeed(o) \/ (\E loss \in Plan!Losses : Plan!Lose(o, loss)) \/ UNCHANGED Plan!vars
<1> DEFINE fs == Fates
           fsn == [q \in Op |-> Fate(row'[q])]
           new == Fate(row'[o])
<1>1. row \in [Op -> Row] /\ row' \in [Op -> Row] /\ TypeOK /\ RowInv /\ RowInv'
    BY DEF IInv, TypeOK
<1>2. \A q \in Op \ {o} : row'[q] = row[q] \/ (o \in Before[q] /\ row'[o].status \in Lost)
    BY <1>1, ReportLeaves
<1>3. fs[o] = "open" /\ \A a \in Before[o] : fs[a] = "done"
    BY <1>1, MetIsReady, FateKinds DEF Reports, Row, Resolved, Fates
<1>4. intent' = Plan!Summary(fsn) /\ intent = Plan!Summary(fs)
    <2>1. Aggregate(row) = Plan!Summary(fs) /\ Aggregate(row') = Plan!Summary(fsn)
        BY <1>1, SummaryIsAggregate DEF RowInv, Fates
    <2> QED
        BY <2>1 DEF IInv, IntentAgrees
<1>5. row'[o].code # "dependency"
    BY <1>1, ReportLeaves DEF Reports
<1>6. \A q \in Op : q # o /\ o \notin Before[q] => fsn[q] = fs[q]
    BY <1>2 DEF Fates
<1>7. CASE new = "open"
    <2>1. row'[o].status \notin Lost
        BY <1>1, <1>7, FateKinds, Kinds
    <2>2. fsn = fs
        BY <1>2, <1>3, <1>7, <2>1 DEF Fates
    <2> QED
        BY <1>4, <2>2 DEF Plan!vars, Fates, Got
<1>8. CASE new = "done"
    <2>1. row'[o].status \notin Lost
        BY <1>1, <1>8, FateKinds, Kinds
    <2>2. fsn = [fs EXCEPT ![o] = "done"]
        BY <1>2, <1>8, <2>1 DEF Fates
    <2> QED
        BY <1>3, <1>4, <2>2 DEF Plan!Succeed, Plan!Becomes, Plan!Ready, Fates, Got
<1>9. CASE new \in {"failed", "refused", "uncertain"}
    <2>1. row'[o].status \in Lost
        BY <1>1, <1>9, FateKinds, Kinds
    <2>2. \A q \in Op : o \in Before[q] => fsn[q] = "skipped"
        BY <1>1, <2>1, FateKinds DEF RowInv, LossIsShared, Shares
    <2>3. fsn = [p \in Op |-> IF p = o THEN new
                              ELSE IF p \in Plan!Behind(o) THEN "skipped" ELSE fs[p]]
        BY <1>6, <2>2, PlanFacts DEF Plan!Behind
    <2> QED
        BY <1>3, <1>4, <1>9, <2>3 DEF Plan!Lose, Plan!Losses, Plan!Becomes, Plan!Ready, Fates, Got
<1> QED
    BY <1>1, <1>5, <1>7, <1>8, <1>9, FateKinds

\* What is reopened is what failed with the one that is tried again; all else is
\* given back the loss it had.
LEMMA ReopenPlans ==
    ASSUME IInv, IInv', NEW o \in Op, Transient(o), Refreshes(Reopened(o)), Got' = Got
    PROVE  Plan!Retry(o)
<1> DEFINE fs == Fates
           fsn == [q \in Op |-> Fate(row'[q])]
           rows == Reopened(o)
           again(q) == row[q].status = "failed" /\ (q = o \/ row[q].code = "dependency")
<1>1. /\ row \in [Op -> Row] /\ row' \in [Op -> Row] /\ TypeOK /\ RowInv /\ RowInv'
      /\ rows \in [Op -> Row] /\ row' = Propagated(rows)
    BY DEF IInv, TypeOK, Refreshes, Ready
<1>2. \A q \in Op : IF again(q) THEN rows[q].status = "retry_wait" ELSE rows[q] = row[q]
    BY <1>1, ReopenedRow DEF Transient
<1>3. \A q \in Op : /\ Before[q] \subseteq Op /\ q \notin Before[q]
                    /\ \A a, b \in Before[q] : a = b \/ a \in Before[b] \/ b \in Before[a]
    BY PlanFacts
<1>4. row[o].status = "failed" /\ row[o].code = "transient" /\ again(o)
    BY DEF Transient
<1>5. \A a \in Before[o] : row[a].status \notin Lost
    BY <1>1, <1>4 DEF RowInv, LossIsShared, Shares
<1>6. \A q \in Op : o \in Before[q] => again(q)
    BY <1>1, <1>4, Kinds DEF RowInv, LossIsShared, Shares
<1> HIDE DEF rows
<1>7. \A a \in Op : rows[a].status \in Lost => rows[a] = row[a] /\ ~again(a)
    BY <1>2, Kinds
<1>8. \A q \in Op, a \in Op : Dooms(rows, a, q) =>
          a \in Before[q] /\ rows[a] = row[a] /\ row[a].status \in Lost /\ ~again(a)
    BY <1>7 DEF Dooms
<1>9. ASSUME NEW q \in Op, q = o \/ o \in Before[q]
      PROVE  fsn[q] = "open"
    <2>1. rows[q].status = "retry_wait"
        BY <1>2, <1>4, <1>6, <1>9
    <2>2. ASSUME NEW a \in Op, Dooms(rows, a, q) PROVE FALSE
        <3>1. a \in Before[q] /\ row[a].status \in Lost /\ ~again(a)
            BY <1>8, <2>2
        <3>2. a # o /\ a \notin Before[o] /\ o \notin Before[a]
            BY <1>4, <1>5, <1>6, <3>1
        <3> QED
            BY <1>3, <1>9, <3>1, <3>2
    <2>3. row'[q] = rows[q]
        BY <1>1, <2>2, NotDoomed
    <2> QED
        BY <1>1, <2>1, <2>3, FateKinds DEF Open
<1>10. ASSUME NEW q \in Op, q # o, o \notin Before[q]
       PROVE  fsn[q] = fs[q]
    <2>1. CASE again(q)
        <3>1. row[q].status = "failed" /\ row[q].code = "dependency"
            BY <1>10, <2>1
        <3>2. PICK a \in Op : Causes(row, a, q)
            BY <1>1, <3>1, Kinds DEF RowInv, LossHasCause
        <3>3. a # o /\ a \in Before[q] /\ row[a].status \in Lost /\ row[a].code # "dependency"
            BY <1>10, <3>2 DEF Causes
        <3>4. rows[a] = row[a]
            BY <1>2, <3>3
        <3>5. row'[a] = row[a]
            BY <1>1, <3>3, <3>4, KeepsResolved, Kinds
        <3>6. row'[q].status \in Lost /\ row'[q].code = "dependency"
            BY <1>1, <3>3, <3>5 DEF RowInv, LossIsShared, Shares
        <3> QED
            BY <1>1, <3>1, <3>6, FateKinds, Kinds DEF Fates
    <2>2. CASE ~again(q)
        <3>1. rows[q] = row[q]
            BY <1>2, <2>2
        <3>2. ASSUME NEW a \in Op, Dooms(rows, a, q) PROVE FALSE
            <4>1. row[q].status \in Lost
                BY <1>1, <1>8, <3>2 DEF RowInv, LossIsShared, Shares
            <4> QED
                BY <3>1, <3>2, <4>1 DEF Dooms, Waits, Lost
        <3>3. row'[q] = row[q]
            BY <1>1, <3>1, <3>2, NotDoomed
        <3> QED
            BY <3>3 DEF Fates
    <2> QED
        BY <2>1, <2>2
<1>11. fsn = [p \in Op |-> IF p \in {o} \cup Plan!Behind(o) THEN "open" ELSE fs[p]]
    BY <1>9, <1>10 DEF Plan!Behind
<1>12. intent' = Plan!Summary(fsn)
    <2>1. Aggregate(row') = Plan!Summary(fsn)
        BY <1>1, SummaryIsAggregate DEF RowInv
    <2> QED
        BY <2>1 DEF IInv, IntentAgrees
<1>13. fs[o] = "failed"
    BY <1>1, <1>4, FateKinds DEF Fates
<1> QED
    BY <1>11, <1>12, <1>13 DEF Plan!Retry, Plan!Becomes, Fates, Got

LEMMA CallPlans ==
    ASSUME IInv, NEW w \in Worker, Call(w)
    PROVE  (\E o \in Op : Plan!Receive(o)) \/ UNCHANGED Plan!vars
<1> DEFINE o == worker[w].op
<1>1. o \in Op /\ TypeOK /\ Met(row, o) /\ accepted \in [Op -> 0 .. MaxAccepted]
    BY DEF IInv, CalledIsMet, Call, At, TypeOK
<1>2. \E n : accepted' = [accepted EXCEPT ![o] = n] /\ (n = accepted[o] \/ n = accepted[o] + 1)
    BY DEF Call
<1>3. Fates' = Fates /\ intent' = intent
    BY DEF Call, Fates
<1>4. Got' = Got \/ Got' = Got \cup {o}
    <2>1. PICK n : accepted' = [accepted EXCEPT ![o] = n]
                   /\ (n = accepted[o] \/ n = accepted[o] + 1)
        BY <1>2
    <2>2. \A q \in Op : q # o => accepted'[q] = accepted[q]
        BY <1>1, <2>1
    <2>3. accepted'[o] = n /\ accepted[o] \in Nat
        BY <1>1, <2>1, OutboxAssumption
    <2>4. accepted[o] > 0 => accepted'[o] > 0
        BY <2>1, <2>3
    <2> HIDE DEF o
    <2> QED
        BY <1>1, <2>2, <2>4 DEF Got
<1>5. \A a \in Before[o] : Fates[a] = "done"
    BY <1>1, MetIsReady
<1> HIDE DEF o
<1> QED
    BY <1>1, <1>3, <1>4, <1>5 DEF Plan!Receive, Plan!Ready, Plan!vars, Fates, Got

LEMMA StepPlans ==
    ASSUME IInv, IInv', [Next]_vars
    PROVE  [Plan!Next]_(Plan!vars)
<1>1. ASSUME NEW w \in Worker, Call(w) PROVE [Plan!Next]_(Plan!vars)
    BY <1>1, CallPlans DEF Plan!Next
<1>2. CASE ~ \E w \in Worker : Call(w)
    <2>1. accepted' = accepted
        BY <1>2 DEF Next, vars, Step, Claim, SendAnyway, Busy, GiveUp, Record, Done, StartPass,
           ReopenNext, Scan, Progress, RecordFails, Crash, Expire, DueAgain, WindowPasses,
           OperatorRetry
    <2>2. Got' = Got
        BY <2>1 DEF Got
    <2>3. CASE Marks
        <3>1. \A q \in Op : Fate(row'[q]) = Fate(row[q])
            BY <2>3 DEF Marks, Fate
        <3> QED
            BY <2>2, <2>3, <3>1 DEF Marks, Plan!vars, Got
    <2>4. ASSUME NEW rows, Refreshes(rows) PROVE [Plan!Next]_(Plan!vars)
        <3>1. PICK o \in Op : Reports(rows, o) \/ (Transient(o) /\ rows = Reopened(o))
            BY <2>4 DEF Refreshes
        <3>2. CASE Reports(rows, o)
            BY <2>2, <2>4, <3>2, ReportPlans DEF Plan!Next
        <3>3. CASE Transient(o) /\ rows = Reopened(o)
            BY <2>2, <2>4, <3>3, ReopenPlans DEF Plan!Next
        <3> QED
            BY <3>1, <3>2, <3>3
    <2> QED
        BY <2>3, <2>4, StepKinds DEF IInv
<1> QED
    BY <1>1, <1>2

LEMMA InitPlans == Init => Plan!Init
<1> SUFFICES ASSUME Init PROVE Plan!Init
    OBVIOUS
<1>1. \A o \in Op : row[o].status = "pending" /\ accepted[o] = 0
    BY DEF Init
<1>2. \A o \in Op : Fate(row[o]) = "open"
    BY <1>1 DEF Fate, Open
<1>3. [o \in Op |-> Fate(row[o])] = [o \in Op |-> "open"]
    BY <1>2
<1>4. {o \in Op : accepted[o] > 0} = {}
    BY <1>1
<1> QED
    BY <1>3, <1>4 DEF Plan!Init, Init

\* The outbox implements the plan of the reply: however workers, scans, crashes,
\* displaced claims and reopenings interleave, every part gets one outcome in its
\* turn, a loss takes along exactly what depends on it, and the parts arrive in order.
THEOREM Refinement == Spec => ImplementsPlan
<1>1. IInv /\ IInv' /\ [Next]_vars => [Plan!Next]_(Plan!vars)
    BY StepPlans
<1> QED
    BY Invariance, InitPlans, <1>1, PTL DEF Spec, ImplementsPlan, Plan!Spec
=============================================================================
