--------------------------- MODULE EventStoreProofs ---------------------------
(***************************************************************************)
(* For any number of processes, batches, runs and faults: the type of the   *)
(* event store, and that a closed run leaves no intent between the two      *)
(* storages.  The invariant adds that the fence stands for the open run      *)
(* (FenceInv), what an append in progress has prepared (AppendInv), and that *)
(* one who closes its run has no other batch under way (ClosingInv).         *)
(***************************************************************************)
EXTENDS EventStore, FiniteSetTheorems, SequenceTheorems, TLAPS

Carrying == {"prepared", "placed", "writing", "written", "appended"}
Pc == {"idle", "gated", "bound", "sized", "prepared", "placed", "writing", "written",
       "appended", "taken", "begun", "settling", "failing"}
Proc == [pc : Pc, run : {NoRun} \cup Run, closing : BOOLEAN, batch : {0} \cup Batch,
         seq : Nat, at : Nat, bytes : SUBSET Batch]
Cache == [log : Seq(Item), next : Nat, count : Nat]
Lease == [holder : Process \cup {Nobody}, live : BOOLEAN]

\* Whoever the fence lets write for a run writes for the run that is open.
FenceInv ==
    \A p \in Process : Fence(p) /\ proc[p].run # NoRun => run.open /\ proc[p].run = run.id

\* An append that has prepared an intent carries it, under its own run; a
\* reservation and a recovery are what their names say, and so is an open run.
AppendInv ==
    \A p \in Process :
        /\ proc[p].pc \in Carrying => /\ proc[p].batch \in Batch
                                      /\ intent[proc[p].batch].state # "none"
                                      /\ intent[proc[p].batch].run = proc[p].run
        /\ proc[p].pc = "gated" => proc[p].run = NoRun
        /\ proc[p].pc \in {"taken", "begun", "settling", "failing"} => proc[p].run # NoRun
        /\ proc[p].closing => proc[p].run # NoRun
        /\ run.open => run.id # NoRun

\* One who closes its run, and still holds the lease, has left no intent but the
\* one it carries.
ClosingInv ==
    \A p \in Process : proc[p].closing /\ Fence(p) =>
        \A b \in Unsettled(proc[p].run) : proc[p].pc \in Carrying /\ b = proc[p].batch

IInv == TypeOK /\ FenceInv /\ AppendInv /\ ClosingInv /\ SettledWithRun

-----------------------------------------------------------------------------
(* Types of the helpers. *)

LEMMA RestType == Rest \in Proc
    BY StoreAssumption DEF Rest, Proc, Pc, Batch, Run

LEMMA GoType ==
    ASSUME NEW p \in Process, NEW pc \in Pc, proc \in [Process -> Proc], Go(p, pc)
    PROVE  proc' \in [Process -> Proc]
<1>1. [proc[p] EXCEPT !.pc = pc] \in Proc
    BY DEF Proc
<1> QED
    BY <1>1 DEF Go

LEMMA StopsType ==
    ASSUME NEW p \in Process, proc \in [Process -> Proc], Stops(p)
    PROVE  proc' \in [Process -> Proc]
    BY RestType DEF Stops

LEMMA LeaseType ==
    ASSUME NEW p \in Process, lease \in Lease, Released(p) \/ Taken(p)
    PROVE  lease' \in Lease
<1>1. [holder |-> Nobody, live |-> FALSE] \in Lease /\ [holder |-> p, live |-> TRUE] \in Lease
    BY DEF Lease
<1> QED
    BY <1>1 DEF Released, Taken

LEMMA FailsType ==
    ASSUME NEW p \in Process, proc \in [Process -> Proc], lease \in Lease, Fails(p)
    PROVE  proc' \in [Process -> Proc] /\ lease' \in Lease
<1>1. CASE proc[p].run = NoRun
    BY <1>1, StopsType, LeaseType DEF Fails
<1>2. CASE proc[p].run # NoRun
  <2>1. [Rest EXCEPT !.run = proc[p].run] \in Proc
      BY RestType DEF Proc
  <2> QED
      BY <1>2, <2>1 DEF Fails
<1> QED
    BY <1>1, <1>2

LEMMA EndsType == ASSUME NEW l \in Seq(Item) PROVE Ends(l) \in Nat
<1>1. IsFiniteSet(1 .. Len(l))
    BY FS_Interval
<1>2. IsFiniteSet({i \in 1 .. Len(l) : l[i].kind = "batch"})
    BY <1>1, FS_Subset
<1> QED
    BY <1>2, FS_CardinalityType DEF Ends

LEMMA RepairedType == ASSUME NEW l \in Seq(Item) PROVE Repaired(l) \in Seq(Item)
<1>1. CASE TornTail(l)
  <2>1. Len(l) \in Nat /\ Len(l) # 0
      BY <1>1 DEF TornTail
  <2>2. SubSeq(l, 1, Len(l) - 1) \in Seq(Item)
      BY <2>1, SubSeqProperties
  <2> QED
      BY <1>1, <2>2 DEF Repaired
<1> QED
    BY <1>1 DEF Repaired

LEMMA NextSeqType ==
    ASSUME NEW p \in Process, log \in Seq(Item), cache \in [Process -> Cache]
    PROVE  NextSeq(p) \in Nat
<1>1. Ends(Repaired(log)) \in Nat
    BY EndsType, RepairedType
<1> QED
    BY <1>1 DEF NextSeq, Cache

LEMMA ScanType ==
    ASSUME NEW p \in Process, log \in Seq(Item), cache \in [Process -> Cache],
           late \in BOOLEAN, Scan(p)
    PROVE  log' \in Seq(Item) /\ cache' \in [Process -> Cache] /\ late' \in BOOLEAN
<1>1. CASE Fresh(p)
    BY <1>1 DEF Scan
<1>2. CASE ~Fresh(p)
  <2>1. log' \in Seq(Item)
      BY <1>2, RepairedType DEF Scan
  <2>2. [log |-> log', next |-> NextSeq(p), count |-> Ends(log')] \in Cache
      BY <2>1, NextSeqType, EndsType DEF Cache
  <2> QED
      BY <1>2, <2>1, <2>2 DEF Scan
<1> QED
    BY <1>1, <1>2

LEMMA WrittenType ==
    ASSUME NEW p \in Process, log' \in Seq(Item), proc \in [Process -> Proc],
           lease \in Lease, cache \in [Process -> Cache], late \in BOOLEAN, Written(p)
    PROVE  /\ proc' \in [Process -> Proc] /\ lease' \in Lease
           /\ cache' \in [Process -> Cache] /\ late' \in BOOLEAN
<1>1. [log |-> log', next |-> proc[p].at + 1, count |-> cache[p].count + 1] \in Cache
    BY DEF Cache, Proc
<1>2. cache' \in [Process -> Cache]
    BY <1>1 DEF Written
<1>3. "written" \in Pc
    BY DEF Pc
<1> QED
    BY <1>2, <1>3, GoType, FailsType DEF Written

LEMMA PieceType ==
    ASSUME NEW p \in Process, proc[p] \in Proc, proc[p].batch \in Batch,
           NEW kind \in {"batch", "part", "torn", "debris"}
    PROVE  Piece(p, kind) \in Item
    BY DEF Piece, Item, Proc

LEMMA UnusedType == InState({"none"}) # {} => Unused \in Batch /\ intent[Unused].state = "none"
    BY DEF Unused, InState

LEMMA MovedType ==
    ASSUME NEW b \in Batch, intent \in [Batch -> Intent],
           NEW state \in {"none", "prepared", "appended", "committed", "aborted"}, Moved(b, state)
    PROVE  /\ intent' \in [Batch -> Intent]
           /\ intent'[b].state = state /\ intent'[b].run = intent[b].run
           /\ \A c \in Batch : c # b => intent'[c] = intent[c]
<1>1. [intent[b] EXCEPT !.state = state] \in Intent
    BY DEF Intent
<1> QED
    BY <1>1 DEF Moved, Intent

-----------------------------------------------------------------------------
LEMMA TypeIs ==
    TypeOK <=> /\ log \in Seq(Item) /\ intent \in [Batch -> Intent]
               /\ run \in [id : {NoRun} \cup Run, open : BOOLEAN]
               /\ recovery \in {"none", "recovering", "failed", "retry", "completed"}
               /\ lease \in Lease /\ proc \in [Process -> Proc]
               /\ cache \in [Process -> Cache] /\ late \in BOOLEAN /\ faults \in 0 .. MaxFaults
    BY DEF TypeOK, Lease, Proc, Pc, Cache

LEMMA InitInv == Init => IInv
<1> SUFFICES ASSUME Init PROVE IInv
    OBVIOUS
<1> USE StoreAssumption DEF Init
<1>1. TypeOK
  <2>1. log \in Seq(Item) /\ NoCache \in Cache
      BY DEF NoCache, Cache
  <2>2. intent \in [Batch -> Intent]
    <3>1. [state |-> "none", run |-> NoRun, seq |-> 0] \in Intent
        BY DEF Intent
    <3> QED
        BY <3>1
  <2>3. run \in [id : {NoRun} \cup Run, open : BOOLEAN] /\ lease \in Lease
      BY DEF Lease
  <2>5. faults \in 0 .. MaxFaults /\ recovery = "none"
      OBVIOUS
  <2>6. late \in BOOLEAN
      OBVIOUS
  <2>4. proc \in [Process -> Proc] /\ cache \in [Process -> Cache]
      BY <2>1, RestType
  <2> QED
      BY <2>1, <2>2, <2>3, <2>4, <2>5, <2>6, TypeIs
<1>2. FenceInv /\ AppendInv /\ ClosingInv
    BY DEF FenceInv, AppendInv, ClosingInv, Fence, Rest, Carrying
<1>3. SettledWithRun
    BY DEF SettledWithRun, InState
<1> QED
    BY <1>1, <1>2, <1>3 DEF IInv

LEMMA TypeStep == TypeOK /\ AppendInv /\ [Next]_vars => TypeOK'
<1> SUFFICES ASSUME TypeOK, AppendInv, [Next]_vars PROVE TypeOK'
    OBVIOUS
<1> DEFINE T == /\ log \in Seq(Item) /\ intent \in [Batch -> Intent]
                /\ run \in [id : {NoRun} \cup Run, open : BOOLEAN]
                /\ recovery \in {"none", "recovering", "failed", "retry", "completed"}
                /\ lease \in Lease /\ proc \in [Process -> Proc]
                /\ cache \in [Process -> Cache] /\ late \in BOOLEAN /\ faults \in 0 .. MaxFaults
<1>0. T
    BY TypeIs
<1> SUFFICES T'
    BY TypeIs, PTL
<1> USE <1>0, StoreAssumption
<1>1. CASE UNCHANGED vars
    BY <1>1 DEF vars
<1>2. ASSUME NEW p \in Process, Admit(p) PROVE T'
  <2>1. run.id + 1 \in Run
      BY <1>2 DEF Admit, Run, NoRun
  <2>2. [Rest EXCEPT !.run = run.id + 1] \in Proc
      BY <2>1, RestType DEF Proc
  <2>3. [id |-> run.id + 1, open |-> TRUE] \in [id : {NoRun} \cup Run, open : BOOLEAN]
      BY <2>1
  <2> QED
      BY <1>2, <2>2, <2>3, LeaseType DEF Admit
<1>3. ASSUME NEW p \in Process, Gate(p) PROVE T'
  <2>1. proc' \in [Process -> Proc]
      BY <1>3, GoType DEF Gate, Pc
  <2> QED
      BY <1>3, <2>1 DEF Gate
<1>4. ASSUME NEW p \in Process, Reserve(p) PROVE T'
  <2>1. proc' \in [Process -> Proc] /\ lease' \in Lease
      BY <1>4, GoType, StopsType, LeaseType DEF Reserve, Pc
  <2> QED
      BY <1>4, <2>1 DEF Reserve
<1>5. ASSUME NEW p \in Process, NextSequence(p) PROVE T'
  <2>1. [proc[p] EXCEPT !.pc = "sized", !.seq = NextSeq(p)] \in Proc
      BY NextSeqType DEF Proc, Pc
  <2>2. proc' \in [Process -> Proc] /\ lease' \in Lease
      BY <1>5, <2>1, FailsType DEF NextSequence
  <2>3. log' \in Seq(Item) /\ cache' \in [Process -> Cache] /\ late' \in BOOLEAN
      BY <1>5, ScanType DEF NextSequence
  <2> QED
      BY <1>5, <2>2, <2>3 DEF NextSequence
<1>6. ASSUME NEW p \in Process, Prepare(p) PROVE T'
  <2>1. CASE Fence(p) /\ InState({"none"}) # {}
    <3>1. Unused \in Batch
        BY <2>1, UnusedType
    <3>2. [state |-> "prepared", run |-> proc[p].run, seq |-> proc[p].seq] \in Intent
        BY DEF Intent, Proc
    <3>3. [proc[p] EXCEPT !.pc = "prepared", !.batch = Unused] \in Proc
        BY <3>1 DEF Proc, Pc
    <3> QED
        BY <1>6, <2>1, <3>2, <3>3 DEF Prepare
  <2>2. CASE ~(Fence(p) /\ InState({"none"}) # {})
      BY <1>6, <2>2, FailsType DEF Prepare
  <2> QED
      BY <2>1, <2>2
<1>7. ASSUME NEW p \in Process, Position(p) PROVE T'
  <2>1. [proc[p] EXCEPT !.pc = "placed", !.at = NextSeq(p)] \in Proc
      BY NextSeqType DEF Proc, Pc
  <2>2. proc' \in [Process -> Proc] /\ lease' \in Lease
      BY <1>7, <2>1, FailsType DEF Position
  <2>3. log' \in Seq(Item) /\ cache' \in [Process -> Cache] /\ late' \in BOOLEAN
      BY <1>7, ScanType DEF Position
  <2> QED
      BY <1>7, <2>2, <2>3 DEF Position
<1>8. ASSUME NEW p \in Process, Write(p) PROVE T'
  <2>1. Piece(p, "batch") \in Item
      BY <1>8, PieceType DEF Write, AppendInv, Carrying
  <2>2. log' \in Seq(Item)
      BY <1>8, <2>1 DEF Write
  <2>3. /\ proc' \in [Process -> Proc] /\ lease' \in Lease
        /\ cache' \in [Process -> Cache] /\ late' \in BOOLEAN
      BY <1>8, <2>2, WrittenType DEF Write
  <2> QED
      BY <1>8, <2>2, <2>3 DEF Write
<1>9. ASSUME NEW p \in Process, WritePart(p) PROVE T'
  <2>1. \A kind \in Tears : Piece(p, kind) \in Item
      BY <1>9, PieceType DEF WritePart, AppendInv, Carrying
  <2>2. log' \in Seq(Item)
      BY <1>9, <2>1 DEF WritePart
  <2>3. proc' \in [Process -> Proc]
      BY <1>9, GoType DEF WritePart, Pc
  <2> QED
      BY <1>9, <2>2, <2>3 DEF WritePart
<1>10. ASSUME NEW p \in Process, WriteRest(p) PROVE T'
  <2>1. Piece(p, "batch") \in Item /\ Piece(p, "debris") \in Item
      BY <1>10, PieceType DEF WriteRest, AppendInv, Carrying
  <2>2. CASE log # <<>> /\ \E kind \in Tears : log[Len(log)] = Piece(p, kind)
    <3>1. Len(log) \in 1 .. Len(log)
        BY <2>2
    <3>2. [log EXCEPT ![Len(log)] = Piece(p, "batch")] \in Seq(Item)
        BY <2>1, <3>1, ExceptSeq
    <3> QED
        BY <1>10, <2>2, <3>2, WrittenType DEF WriteRest
  <2>3. CASE ~(log # <<>> /\ \E kind \in Tears : log[Len(log)] = Piece(p, kind))
    <3>1. log' \in Seq(Item)
        BY <1>10, <2>1, <2>3 DEF WriteRest
    <3> QED
        BY <1>10, <3>1, WrittenType DEF WriteRest
  <2> QED
      BY <2>2, <2>3
<1>11. ASSUME NEW p \in Process, Mark(p) PROVE T'
  <2>1. proc[p].batch \in Batch
      BY <1>11 DEF Mark, AppendInv, Carrying
  <2>2. intent' \in [Batch -> Intent]
      BY <1>11, <2>1, MovedType DEF Mark
  <2>3. proc' \in [Process -> Proc] /\ lease' \in Lease
      BY <1>11, GoType, FailsType DEF Mark, Pc
  <2> QED
      BY <1>11, <2>2, <2>3 DEF Mark
<1>12. ASSUME NEW p \in Process, CommitEventIntent(p) PROVE T'
  <2>1. proc[p].batch \in Batch
      BY <1>12 DEF CommitEventIntent, AppendInv, Carrying
  <2>2. intent' \in [Batch -> Intent]
      BY <1>12, <2>1, MovedType DEF CommitEventIntent
  <2>3. [Rest EXCEPT !.run = proc[p].run, !.closing = proc[p].closing] \in Proc
      BY RestType DEF Proc
  <2>4. proc' \in [Process -> Proc] /\ lease' \in Lease
      BY <1>12, <2>3, StopsType, LeaseType, FailsType DEF CommitEventIntent
  <2> QED
      BY <1>12, <2>2, <2>4 DEF CommitEventIntent
<1>13. ASSUME NEW p \in Process, Close(p) PROVE T'
  <2>1. [proc[p] EXCEPT !.closing = TRUE] \in Proc
      BY DEF Proc
  <2> QED
      BY <1>13, <2>1 DEF Close
<1>14. ASSUME NEW p \in Process, Finish(p) PROVE T'
    BY <1>14, StopsType, LeaseType DEF Finish
<1>15. ASSUME NEW p \in Process, LoseLease(p) PROVE T'
    BY <1>15, StopsType DEF LoseLease
<1>16. ASSUME NEW p \in Process, AcquireRecovery(p) PROVE T'
  <2>1. [Rest EXCEPT !.run = run.id, !.pc = "taken"] \in Proc
      BY RestType DEF Proc, Pc
  <2> QED
      BY <1>16, <2>1, LeaseType DEF AcquireRecovery
<1>17. ASSUME NEW p \in Process, BeginRecovery(p) PROVE T'
  <2>1. proc' \in [Process -> Proc] /\ lease' \in Lease
      BY <1>17, GoType, StopsType, LeaseType DEF BeginRecovery, Pc
  <2> QED
      BY <1>17, <2>1 DEF BeginRecovery
<1>18. ASSUME NEW p \in Process, Reconcile(p) PROVE T'
  <2>0. \A i \in 1 .. Len(log) : log[i].id \in Batch
    <3>1. \A i \in 1 .. Len(log) : log[i] \in Item
        BY ElementOfSeq
    <3> QED
        BY <3>1 DEF Item
  <2>1. WholeBatches(log) \subseteq Batch
      BY <2>0 DEF WholeBatches
  <2>2. [proc[p] EXCEPT !.pc = "settling", !.bytes = WholeBatches(log)] \in Proc
      BY <2>1 DEF Proc, Pc
  <2>3. proc' \in [Process -> Proc]
      BY <1>18, <2>2, GoType DEF Reconcile, Pc
  <2> QED
      BY <1>18, <2>3 DEF Reconcile
<1>19. ASSUME NEW p \in Process, Settle(p) PROVE T'
  <2>1. PICK b \in Unsettled(proc[p].run) :
          IF ~Fence(p) THEN Go(p, "failing") /\ UNCHANGED intent
          ELSE /\ Moved(b, IF b \notin proc[p].bytes THEN "aborted"
                           ELSE IF intent[b].state = "prepared" THEN "appended" ELSE "committed")
               /\ UNCHANGED proc
      BY <1>19 DEF Settle
  <2>2. b \in Batch
      BY DEF Unsettled, InState
  <2>3. intent' \in [Batch -> Intent]
      BY <2>1, <2>2, MovedType
  <2>4. proc' \in [Process -> Proc]
      BY <2>1, GoType DEF Pc
  <2> QED
      BY <1>19, <2>3, <2>4 DEF Settle
<1>20. ASSUME NEW p \in Process, Converge(p) PROVE T'
  <2>1. proc' \in [Process -> Proc] /\ lease' \in Lease
      BY <1>20, GoType, StopsType, LeaseType DEF Converge, Pc
  <2> QED
      BY <1>20, <2>1 DEF Converge
<1>21. ASSUME NEW p \in Process, FailRecovery(p) PROVE T'
    BY <1>21, StopsType, LeaseType DEF FailRecovery
<1>22. CASE RetryDue
    BY <1>22 DEF RetryDue
<1>23. CASE Expire
  <2>1. lease' \in Lease
      BY <1>23 DEF Expire, Lease
  <2> QED
      BY <1>23, <2>1 DEF Expire, Strikes
<1>24. ASSUME NEW p \in Process, Renew(p) PROVE T'
    BY <1>24, LeaseType DEF Renew
<1>25. ASSUME NEW p \in Process, Crash(p) PROVE T'
  <2>1. lease' \in Lease
      BY <1>25 DEF Crash, Lease
  <2>2. cache' \in [Process -> Cache]
      BY <1>25 DEF Crash, NoCache, Cache
  <2> QED
      BY <1>25, <2>1, <2>2, StopsType DEF Crash, Strikes
<1>26. ASSUME NEW p \in Process, TransactionFails(p) PROVE T'
  <2>1. proc' \in [Process -> Proc] /\ lease' \in Lease
      BY <1>26, GoType, FailsType DEF TransactionFails, Pc
  <2> QED
      BY <1>26, <2>1 DEF TransactionFails, Strikes
<1> HIDE DEF T
<1> QED
    BY <1>1, <1>2, <1>3, <1>4, <1>5, <1>6, <1>7, <1>8, <1>9, <1>10, <1>11, <1>12, <1>13,
       <1>14, <1>15, <1>16, <1>17, <1>18, <1>19, <1>20, <1>21, <1>22, <1>23, <1>24, <1>25,
       <1>26 DEF Next, Appends, Recovers

-----------------------------------------------------------------------------
(* What a step of one actor does to the invariant. *)

Rests == FenceInv /\ AppendInv /\ ClosingInv /\ SettledWithRun

\* An actor that gives up, with its run or without, disturbs nothing.
LEMMA GivesUp ==
    ASSUME Rests, NEW p \in Process, UNCHANGED <<intent, run>>,
           \A q \in Process : q # p => proc'[q] = proc[q],
           proc'[p].run \in {NoRun, proc[p].run}, proc'[p].pc = "idle", proc'[p].closing = FALSE,
           \A q \in Process : lease'.holder = q => lease.holder = q
    PROVE  Rests'
<1> USE DEF Rests, Fence, Carrying
<1>1. FenceInv'
    BY DEF FenceInv
<1>2. AppendInv'
    BY DEF AppendInv
<1>3. ClosingInv'
    BY DEF ClosingInv, Unsettled, InState
<1>4. SettledWithRun'
    BY DEF SettledWithRun, InState
<1> QED
    BY <1>1, <1>2, <1>3, <1>4

\* Nor does one that goes on with what it carries.
LEMMA GoesOn ==
    ASSUME Rests, NEW p \in Process, UNCHANGED <<intent, run>>,
           \A q \in Process : q # p => proc'[q] = proc[q],
           proc'[p].run = proc[p].run, proc'[p].closing = proc[p].closing,
           proc'[p].pc \in Carrying <=> proc[p].pc \in Carrying,
           proc'[p].pc \in Carrying => proc'[p].batch = proc[p].batch,
           proc'[p].pc = "gated" => proc[p].run = NoRun,
           proc'[p].pc \in {"taken", "begun", "settling", "failing"} => proc[p].run # NoRun,
           \A q \in Process : lease'.holder = q => lease.holder = q
    PROVE  Rests'
<1> USE DEF Rests, Fence
<1>1. FenceInv'
    BY DEF FenceInv
<1>2. AppendInv'
    BY DEF AppendInv
<1>3. ClosingInv'
    BY DEF ClosingInv, Unsettled, InState
<1>4. SettledWithRun'
    BY DEF SettledWithRun, InState
<1> QED
    BY <1>1, <1>2, <1>3, <1>4

LEMMA GoEffect ==
    ASSUME NEW p \in Process, NEW pc, proc \in [Process -> Proc], Go(p, pc)
    PROVE  /\ \A q \in Process : q # p => proc'[q] = proc[q]
           /\ proc'[p].run = proc[p].run /\ proc'[p].closing = proc[p].closing
           /\ proc'[p].pc = pc /\ proc'[p].batch = proc[p].batch
    BY DEF Go, Proc

LEMMA StopsEffect ==
    ASSUME NEW p \in Process, proc \in [Process -> Proc], Stops(p)
    PROVE  /\ \A q \in Process : q # p => proc'[q] = proc[q]
           /\ proc'[p].run = NoRun /\ proc'[p].closing = FALSE /\ proc'[p].pc = "idle"
    BY DEF Stops, Rest

LEMMA ReleasedEffect ==
    ASSUME NEW p \in Process, Released(p) \/ UNCHANGED lease
    PROVE  \A q \in Process : lease'.holder = q => lease.holder = q
    BY StoreAssumption DEF Released

LEMMA FailsEffect ==
    ASSUME NEW p \in Process, proc \in [Process -> Proc], Fails(p)
    PROVE  /\ \A q \in Process : q # p => proc'[q] = proc[q]
           /\ proc'[p].run \in {NoRun, proc[p].run} /\ proc'[p].closing = FALSE
           /\ proc'[p].pc = "idle"
           /\ \A q \in Process : lease'.holder = q => lease.holder = q
<1>1. CASE proc[p].run = NoRun
    BY <1>1, StopsEffect, ReleasedEffect DEF Fails
<1>2. CASE proc[p].run # NoRun
    BY <1>2 DEF Fails, Rest
<1> QED
    BY <1>1, <1>2

\* An append that fails, wherever it stands.
LEMMA FailsKeep ==
    ASSUME Rests, NEW p \in Process, proc \in [Process -> Proc], Fails(p), UNCHANGED <<intent, run>>
    PROVE  Rests'
    BY FailsEffect, GivesUp

LEMMA StopsKeep ==
    ASSUME Rests, NEW p \in Process, proc \in [Process -> Proc], Stops(p),
           Released(p) \/ UNCHANGED lease, UNCHANGED <<intent, run>>
    PROVE  Rests'
    BY StopsEffect, ReleasedEffect, GivesUp

LEMMA WrittenKeep ==
    ASSUME Rests, NEW p \in Process, proc \in [Process -> Proc], Written(p),
           proc[p].pc \in Carrying, UNCHANGED <<intent, run>>
    PROVE  Rests'
<1>1. CASE proc[p].at = proc[p].seq
  <2>1. Go(p, "written") /\ UNCHANGED lease
      BY <1>1 DEF Written
  <2>2. "written" \in Carrying /\ "written" # "gated"
        /\ "written" \notin {"taken", "begun", "settling", "failing"}
      BY DEF Carrying
  <2> QED
      BY <2>1, <2>2, GoEffect, GoesOn
<1>2. CASE proc[p].at # proc[p].seq
    BY <1>2, FailsKeep DEF Written
<1> QED
    BY <1>1, <1>2

-----------------------------------------------------------------------------
LEMMA RestsStep == TypeOK /\ Rests /\ [Next]_vars => Rests'
<1> SUFFICES ASSUME TypeOK, Rests, [Next]_vars PROVE Rests'
    OBVIOUS
<1>0. /\ proc \in [Process -> Proc] /\ lease \in Lease /\ intent \in [Batch -> Intent]
      /\ run \in [id : {NoRun} \cup Run, open : BOOLEAN]
    BY TypeIs
<1> USE <1>0, StoreAssumption
<1>1. CASE UNCHANGED vars
    BY <1>1 DEF vars, Rests, FenceInv, AppendInv, ClosingInv, SettledWithRun, InState, Unsettled, Fence
<1>2. ASSUME NEW p \in Process, Admit(p) PROVE Rests'
  <2>1. /\ \A q \in Process : q # p => proc'[q] = proc[q]
        /\ proc'[p].run = run.id + 1 /\ proc'[p].pc = "idle" /\ proc'[p].closing = FALSE
        /\ lease'.holder = p /\ run'.id = run.id + 1 /\ run'.open /\ intent' = intent
      BY <1>2 DEF Admit, Taken, Rest
  <2>0. run.id + 1 # NoRun
      BY DEF NoRun, Run
  <2>2. \A b \in InState({"prepared", "appended"}) : intent[b].run = NoRun
      BY <1>2 DEF Admit, Rests, SettledWithRun
  <2>3. FenceInv'
      BY <2>1 DEF FenceInv, Fence
  <2>4. AppendInv'
      BY <2>0, <2>1 DEF AppendInv, Rests, Carrying
  <2>5. ClosingInv'
      BY <2>1 DEF ClosingInv, Fence
  <2>6. SettledWithRun'
      BY <2>1, <2>2 DEF SettledWithRun, InState
  <2> QED
      BY <2>3, <2>4, <2>5, <2>6 DEF Rests
<1>3. ASSUME NEW p \in Process, Gate(p) PROVE Rests'
  <2>1. PICK pc \in {"bound", "gated"} : Go(p, pc) /\ (pc = "gated" => ~Executing(p))
      BY <1>3 DEF Gate
  <2>2. proc[p].pc = "idle" /\ (pc = "gated" => proc[p].run = NoRun)
      BY <1>3, <2>1 DEF Gate, Idle, Executing
  <2>3. pc \notin Carrying /\ proc[p].pc \notin Carrying
      BY <2>2 DEF Carrying
  <2>4. UNCHANGED <<intent, run, lease>>
      BY <1>3 DEF Gate
  <2> QED
      BY <2>1, <2>2, <2>3, <2>4, GoEffect, GoesOn
<1>4. ASSUME NEW p \in Process, Reserve(p) PROVE Rests'
  <2>1. CASE lease.live
      BY <1>4, <2>1, StopsKeep DEF Reserve
  <2>2. CASE ~lease.live
    <3>1. proc[p].run = NoRun /\ proc[p].closing = FALSE
        BY <1>4 DEF Reserve, Rests, AppendInv, Proc
    <3>2. /\ \A q \in Process : q # p => proc'[q] = proc[q]
          /\ proc'[p].run = NoRun /\ proc'[p].closing = FALSE /\ proc'[p].pc = "bound"
          /\ lease'.holder = p /\ intent' = intent /\ run' = run
        BY <1>4, <2>2, <3>1, GoEffect DEF Reserve, Taken
    <3>3. FenceInv'
        BY <3>2 DEF FenceInv, Fence
    <3>4. AppendInv'
        BY <3>2 DEF AppendInv, Rests, Carrying
    <3>5. ClosingInv'
        BY <3>2 DEF ClosingInv, Fence
    <3>6. SettledWithRun'
        BY <3>2 DEF SettledWithRun, InState, Rests
    <3> QED
        BY <3>3, <3>4, <3>5, <3>6 DEF Rests
  <2> QED
      BY <2>1, <2>2
<1>5. ASSUME NEW p \in Process, NextSequence(p) PROVE Rests'
  <2>1. CASE Scannable(p)
    <3>0. PICK new : /\ new = [proc[p] EXCEPT !.pc = "sized", !.seq = NextSeq(p)]
                     /\ proc' = [proc EXCEPT ![p] = new]
        BY <1>5, <2>1 DEF NextSequence
    <3>1. /\ \A q \in Process : q # p => proc'[q] = proc[q]
          /\ proc'[p].run = proc[p].run /\ proc'[p].closing = proc[p].closing /\ proc'[p].pc = "sized"
          /\ UNCHANGED <<lease, intent, run>> /\ proc[p].pc = "bound"
        BY <1>5, <2>1, <3>0 DEF NextSequence, Proc
    <3>2. "sized" \notin Carrying /\ "bound" \notin Carrying
        BY DEF Carrying
    <3> QED
        BY <3>1, <3>2, GoesOn
  <2>2. CASE ~Scannable(p)
      BY <1>5, <2>2, FailsKeep DEF NextSequence
  <2> QED
      BY <2>1, <2>2
<1>6. ASSUME NEW p \in Process, Prepare(p) PROVE Rests'
  <2>1. CASE Fence(p) /\ InState({"none"}) # {}
    <3>1. Unused \in Batch /\ intent[Unused].state = "none"
        BY <2>1, UnusedType
    <3>0. PICK new : /\ new = [proc[p] EXCEPT !.pc = "prepared", !.batch = Unused]
                     /\ proc' = [proc EXCEPT ![p] = new]
        BY <1>6, <2>1 DEF Prepare
    <3>2. /\ \A q \in Process : q # p => proc'[q] = proc[q]
          /\ proc'[p].run = proc[p].run /\ proc'[p].closing = proc[p].closing
          /\ proc'[p].pc = "prepared" /\ proc'[p].batch = Unused
          /\ UNCHANGED <<lease, run>> /\ proc[p].pc = "sized" /\ lease.holder = p
        BY <1>6, <2>1, <3>0 DEF Prepare, Proc, Fence
    <3>3. /\ intent'[Unused].state = "prepared" /\ intent'[Unused].run = proc[p].run
          /\ \A b \in Batch : b # Unused => intent'[b] = intent[b]
        BY <1>6, <2>1, <3>1 DEF Prepare
    <3>4. FenceInv'
        BY <3>2 DEF FenceInv, Fence, Rests
    <3>5. AppendInv'
        BY <3>1, <3>2, <3>3 DEF AppendInv, Rests, Carrying
    <3>6. ClosingInv'
        BY <3>1, <3>2, <3>3 DEF ClosingInv, Fence, Rests, Unsettled, InState, Carrying
    <3>7. SettledWithRun'
        BY <3>1, <3>2, <3>3 DEF SettledWithRun, InState, Rests, FenceInv, Fence
    <3> QED
        BY <3>4, <3>5, <3>6, <3>7 DEF Rests
  <2>2. CASE ~(Fence(p) /\ InState({"none"}) # {})
      BY <1>6, <2>2, FailsKeep DEF Prepare
  <2> QED
      BY <2>1, <2>2
<1>7. ASSUME NEW p \in Process, Position(p) PROVE Rests'
  <2>1. CASE Scannable(p)
    <3>0. PICK new : /\ new = [proc[p] EXCEPT !.pc = "placed", !.at = NextSeq(p)]
                     /\ proc' = [proc EXCEPT ![p] = new]
        BY <1>7, <2>1 DEF Position
    <3>1. /\ \A q \in Process : q # p => proc'[q] = proc[q]
          /\ proc'[p].run = proc[p].run /\ proc'[p].closing = proc[p].closing /\ proc'[p].pc = "placed"
          /\ proc'[p].batch = proc[p].batch
          /\ UNCHANGED <<lease, intent, run>> /\ proc[p].pc = "prepared"
        BY <1>7, <2>1, <3>0 DEF Position, Proc
    <3>2. "placed" \in Carrying /\ "prepared" \in Carrying
        BY DEF Carrying
    <3> QED
        BY <3>1, <3>2, GoesOn
  <2>2. CASE ~Scannable(p)
      BY <1>7, <2>2, FailsKeep DEF Position
  <2> QED
      BY <2>1, <2>2
<1>8. ASSUME NEW p \in Process, Write(p) \/ WriteRest(p) PROVE Rests'
  <2>1. proc[p].pc \in Carrying /\ Written(p) /\ UNCHANGED <<intent, run>>
      BY <1>8 DEF Write, WriteRest, Carrying
  <2> QED
      BY <2>1, WrittenKeep
<1>9. ASSUME NEW p \in Process, WritePart(p) PROVE Rests'
  <2>1. /\ Go(p, "writing") /\ UNCHANGED <<intent, run, lease>>
        /\ proc[p].pc \in Carrying /\ "writing" \in Carrying
      BY <1>9 DEF WritePart, Carrying
  <2> QED
      BY <2>1, GoEffect, GoesOn
<1>10. ASSUME NEW p \in Process, Mark(p) PROVE Rests'
  <2>1. CASE Fence(p)
    <3>1. /\ \A q \in Process : q # p => proc'[q] = proc[q]
          /\ proc'[p].run = proc[p].run /\ proc'[p].closing = proc[p].closing
          /\ proc'[p].pc = "appended" /\ proc'[p].batch = proc[p].batch
          /\ UNCHANGED <<lease, run>> /\ proc[p].pc = "written" /\ lease.holder = p
        BY <1>10, <2>1, GoEffect DEF Mark, Fence
    <3>2. /\ proc[p].batch \in Batch /\ intent[proc[p].batch].run = proc[p].run
        BY <3>1 DEF Rests, AppendInv, Carrying
    <3>3. /\ intent'[proc[p].batch].state = "appended"
          /\ intent'[proc[p].batch].run = intent[proc[p].batch].run
          /\ \A b \in Batch : b # proc[p].batch => intent'[b] = intent[b]
        BY <1>10, <2>1, <3>2, MovedType DEF Mark
    <3>4. FenceInv'
        BY <3>1 DEF FenceInv, Fence, Rests
    <3>5. AppendInv'
        BY <3>1, <3>2, <3>3 DEF AppendInv, Rests, Carrying
    <3>6. ClosingInv'
        BY <3>1, <3>2, <3>3 DEF ClosingInv, Fence, Rests, Unsettled, InState, Carrying
    <3>7. SettledWithRun'
        BY <3>1, <3>2, <3>3 DEF SettledWithRun, InState, Rests, FenceInv, Fence
    <3> QED
        BY <3>4, <3>5, <3>6, <3>7 DEF Rests
  <2>2. CASE ~Fence(p)
      BY <1>10, <2>2, FailsKeep DEF Mark
  <2> QED
      BY <2>1, <2>2
<1>11. ASSUME NEW p \in Process, CommitEventIntent(p) PROVE Rests'
  <2>1. CASE Fence(p)
    <3>1. /\ \A q \in Process : q # p => proc'[q] = proc[q]
          /\ proc'[p].run = proc[p].run /\ (proc'[p].closing => proc[p].closing)
          /\ proc'[p].pc = "idle" /\ run' = run
      <4>1. CASE proc[p].run = NoRun
          BY <1>11, <2>1, <4>1, StopsEffect DEF CommitEventIntent
      <4>2. CASE proc[p].run # NoRun
        <5>1. PICK new : /\ new = [Rest EXCEPT !.run = proc[p].run, !.closing = proc[p].closing]
                         /\ proc' = [proc EXCEPT ![p] = new]
            BY <1>11, <2>1, <4>2 DEF CommitEventIntent
        <5> QED
            BY <1>11, <5>1 DEF CommitEventIntent, Rest
      <4> QED
          BY <4>1, <4>2
    <3>0. \A q \in Process : lease'.holder = q => lease.holder = q
        BY <1>11, <2>1, ReleasedEffect DEF CommitEventIntent
    <3>2. proc[p].pc = "appended" /\ lease.holder = p /\ proc[p].batch \in Batch
        BY <1>11, <2>1 DEF CommitEventIntent, Fence, Rests, AppendInv, Carrying
    <3>3. /\ intent'[proc[p].batch].state = "committed"
          /\ intent'[proc[p].batch].run = intent[proc[p].batch].run
          /\ \A b \in Batch : b # proc[p].batch => intent'[b] = intent[b]
        BY <1>11, <2>1, <3>2, MovedType DEF CommitEventIntent
    <3>4. FenceInv'
        BY <3>0, <3>1 DEF FenceInv, Fence, Rests
    <3>5. AppendInv'
        BY <3>1, <3>2, <3>3 DEF AppendInv, Rests, Carrying
    <3>6. ClosingInv'
        BY <3>0, <3>1, <3>2, <3>3 DEF ClosingInv, Fence, Rests, Unsettled, InState, Carrying
    <3>7. SettledWithRun'
        BY <3>1, <3>2, <3>3 DEF SettledWithRun, InState, Rests
    <3> QED
        BY <3>4, <3>5, <3>6, <3>7 DEF Rests
  <2>2. CASE ~Fence(p)
      BY <1>11, <2>2, FailsKeep DEF CommitEventIntent
  <2> QED
      BY <2>1, <2>2
<1>12. ASSUME NEW p \in Process, Close(p) PROVE Rests'
  <2>1. /\ \A q \in Process : q # p => proc'[q] = proc[q]
        /\ proc'[p].run = proc[p].run /\ proc'[p].pc = proc[p].pc
        /\ proc'[p].batch = proc[p].batch /\ UNCHANGED <<lease, run, intent>>
      BY <1>12 DEF Close, Proc
  <2>2. InState({"prepared", "appended"}) = {} /\ proc[p].run # NoRun
      BY <1>12 DEF Close, Verdict, Executing
  <2>3. FenceInv'
      BY <2>1 DEF FenceInv, Fence, Rests
  <2>4. AppendInv'
      BY <2>1, <2>2 DEF AppendInv, Rests, Carrying
  <2>5. ClosingInv'
      BY <2>1, <2>2 DEF ClosingInv, Unsettled, InState
  <2>6. SettledWithRun'
      BY <2>1 DEF SettledWithRun, InState, Rests
  <2> QED
      BY <2>3, <2>4, <2>5, <2>6 DEF Rests
<1>13. ASSUME NEW p \in Process, Finish(p) \/ (Converge(p) /\ Fence(p) /\ run.open) PROVE Rests'
  <2>1. /\ Stops(p) /\ Released(p) /\ Fence(p) /\ intent' = intent
        /\ run'.id = run.id /\ proc[p].run # NoRun
      BY <1>13 DEF Finish, Converge, Executing, Rests, AppendInv
  <2>2. lease'.holder = Nobody
      BY <2>1 DEF Released
  <2>3. Unsettled(proc[p].run) = {}
    <3>1. CASE Finish(p)
        BY <3>1 DEF Finish, Idle, Rests, ClosingInv, Carrying
    <3>2. CASE Converge(p)
        BY <3>2 DEF Converge
    <3> QED
        BY <1>13, <3>1, <3>2
  <2>4. \A b \in InState({"prepared", "appended"}) : intent[b].run = NoRun
      BY <2>1, <2>3 DEF Unsettled, Rests, SettledWithRun, FenceInv
  <2>5. FenceInv' /\ ClosingInv'
      BY <2>2 DEF FenceInv, ClosingInv, Fence
  <2>6. AppendInv'
    <3>1. /\ \A q \in Process : q # p => proc'[q] = proc[q]
          /\ proc'[p].run = NoRun /\ proc'[p].closing = FALSE /\ proc'[p].pc = "idle"
        BY <2>1, StopsEffect
    <3>2. ~run'.open
        BY <1>13 DEF Finish, Converge
    <3> QED
        BY <2>1, <3>1, <3>2 DEF AppendInv, Rests, Carrying
  <2>7. SettledWithRun'
      BY <2>1, <2>4 DEF SettledWithRun, InState
  <2> QED
      BY <2>5, <2>6, <2>7 DEF Rests
<1>14. ASSUME NEW p \in Process, LoseLease(p) PROVE Rests'
    BY <1>14, StopsKeep DEF LoseLease
<1>15. ASSUME NEW p \in Process, AcquireRecovery(p) PROVE Rests'
  <2>1. /\ \A q \in Process : q # p => proc'[q] = proc[q]
        /\ proc'[p].run = run.id /\ proc'[p].pc = "taken" /\ proc'[p].closing = FALSE
        /\ lease'.holder = p /\ run' = run /\ run.open /\ intent' = intent
      BY <1>15 DEF AcquireRecovery, Taken, Rest
  <2>2. FenceInv'
      BY <2>1 DEF FenceInv, Fence
  <2>3. AppendInv'
      BY <2>1 DEF AppendInv, Rests, Carrying
  <2>4. ClosingInv'
      BY <2>1 DEF ClosingInv, Fence
  <2>5. SettledWithRun'
      BY <2>1 DEF SettledWithRun, InState, Rests
  <2> QED
      BY <2>2, <2>3, <2>4, <2>5 DEF Rests
<1>16. ASSUME NEW p \in Process, BeginRecovery(p) PROVE Rests'
  <2>1. CASE Go(p, "begun") /\ UNCHANGED lease
    <3>1. /\ proc[p].run # NoRun /\ UNCHANGED <<intent, run>>
          /\ proc[p].pc \notin Carrying /\ "begun" \notin Carrying
        BY <1>16 DEF BeginRecovery, Rests, AppendInv, Carrying
    <3> QED
        BY <2>1, <3>1, GoEffect, GoesOn
  <2>2. CASE Stops(p) /\ Released(p)
      BY <1>16, <2>2, StopsKeep DEF BeginRecovery
  <2> QED
      BY <1>16, <2>1, <2>2 DEF BeginRecovery
<1>17. ASSUME NEW p \in Process, Reconcile(p) PROVE Rests'
  <2>1. /\ \A q \in Process : q # p => proc'[q] = proc[q]
        /\ proc'[p].run = proc[p].run /\ proc'[p].closing = proc[p].closing
        /\ proc'[p].pc \in {"failing", "settling"}
        /\ UNCHANGED <<lease, intent, run>> /\ proc[p].pc = "begun"
    <3>1. CASE Go(p, "failing")
        BY <1>17, <3>1, GoEffect DEF Reconcile
    <3>2. CASE ~Go(p, "failing")
      <4>1. PICK new : /\ new = [proc[p] EXCEPT !.pc = "settling", !.bytes = WholeBatches(log)]
                       /\ proc' = [proc EXCEPT ![p] = new]
          BY <1>17, <3>2 DEF Reconcile
      <4> QED
          BY <1>17, <4>1 DEF Reconcile, Proc
    <3> QED
        BY <3>1, <3>2
  <2>2. proc[p].run # NoRun /\ "begun" \notin Carrying /\ proc'[p].pc \notin Carrying
      BY <2>1 DEF Rests, AppendInv, Carrying
  <2> QED
      BY <2>1, <2>2, GoesOn
<1>18. ASSUME NEW p \in Process, proc[p].pc = "settling", Go(p, "failing"), UNCHANGED <<lease, intent, run>>
       PROVE Rests'
  <2>1. proc[p].run # NoRun /\ "failing" \notin Carrying /\ "settling" \notin Carrying
      BY <1>18 DEF Rests, AppendInv, Carrying
  <2> QED
      BY <1>18, <2>1, GoEffect, GoesOn
<1>19. ASSUME NEW p \in Process, Settle(p) PROVE Rests'
  <2>1. PICK b \in Unsettled(proc[p].run) :
          IF ~Fence(p) THEN Go(p, "failing") /\ UNCHANGED intent
          ELSE /\ Moved(b, IF b \notin proc[p].bytes THEN "aborted"
                           ELSE IF intent[b].state = "prepared" THEN "appended" ELSE "committed")
               /\ UNCHANGED proc
      BY <1>19 DEF Settle
  <2>2. /\ b \in Batch /\ intent[b].state \in {"prepared", "appended"}
        /\ UNCHANGED <<lease, run>> /\ proc[p].pc = "settling"
      BY <1>19 DEF Unsettled, InState, Settle
  <2>3. CASE ~Fence(p)
      BY <1>18, <2>1, <2>2, <2>3
  <2>4. CASE Fence(p)
    <3>1. /\ intent'[b].state \in {"aborted", "appended", "committed"}
          /\ intent'[b].run = intent[b].run
          /\ \A c \in Batch : c # b => intent'[c] = intent[c]
        BY <2>1, <2>2, <2>4, MovedType
    <3>2. proc' = proc
        BY <2>1, <2>4
    <3>3. FenceInv'
        BY <2>2, <3>2 DEF FenceInv, Fence, Rests
    <3>4. AppendInv'
        BY <2>2, <3>1, <3>2 DEF AppendInv, Rests, Carrying
    <3>5. ClosingInv'
        BY <2>2, <3>1, <3>2 DEF ClosingInv, Fence, Rests, Unsettled, InState
    <3>6. SettledWithRun'
        BY <2>2, <3>1 DEF SettledWithRun, InState, Rests
    <3> QED
        BY <3>3, <3>4, <3>5, <3>6 DEF Rests
  <2> QED
      BY <2>3, <2>4
<1>20. ASSUME NEW p \in Process, Converge(p) PROVE Rests'
    BY <1>13, <1>18, <1>20 DEF Converge
<1>21. ASSUME NEW p \in Process, FailRecovery(p) PROVE Rests'
    BY <1>21, StopsKeep DEF FailRecovery
<1>22. CASE RetryDue
    BY <1>22 DEF RetryDue, Rests, FenceInv, AppendInv, ClosingInv, SettledWithRun, InState, Unsettled, Fence
<1>23. ASSUME lease'.holder = lease.holder, UNCHANGED <<proc, intent, run>> PROVE Rests'
    BY <1>23 DEF Rests, FenceInv, AppendInv, ClosingInv, SettledWithRun, InState, Unsettled, Fence
<1>24. CASE Expire
    BY <1>23, <1>24 DEF Expire, Lease
<1>25. ASSUME NEW p \in Process, Renew(p) PROVE Rests'
    BY <1>23, <1>25 DEF Renew, Taken, Fence
<1>26. ASSUME NEW p \in Process, Crash(p) PROVE Rests'
  <2>1. \A q \in Process : lease'.holder = q => lease.holder = q
      BY <1>26 DEF Crash, Lease
  <2> QED
      BY <1>26, <2>1, StopsEffect, GivesUp DEF Crash
<1>27. ASSUME NEW p \in Process, TransactionFails(p) PROVE Rests'
    BY <1>18, <1>27, FailsKeep DEF TransactionFails
<1>28. ASSUME NEW p \in Process, Appends(p) \/ Recovers(p) PROVE Rests'
    BY <1>4, <1>5, <1>6, <1>7, <1>8, <1>10, <1>11, <1>16, <1>17, <1>19, <1>20, <1>21, <1>28
    DEF Appends, Recovers
<1> QED
    BY <1>1, <1>2, <1>3, <1>9, <1>12, <1>13, <1>14, <1>15, <1>22, <1>24, <1>25, <1>26, <1>27,
       <1>28 DEF Next

-----------------------------------------------------------------------------
\* The invariant holds in every reachable state, whatever crashes, loses its lease
\* or is recovered.
THEOREM Invariance == Spec => []IInv
<1>1. Init => IInv
    BY InitInv
<1>2. IInv /\ [Next]_vars => IInv'
  <2>1. IInv => TypeOK /\ AppendInv /\ Rests
      BY DEF IInv, Rests
  <2>2. TypeOK' /\ Rests' => IInv'
      BY DEF IInv, Rests
  <2> QED
      BY <2>1, <2>2, TypeStep, RestsStep
<1> QED
    BY <1>1, <1>2, PTL DEF Spec

\* Every variable keeps its type: the file holds whole batches and their pieces, an
\* intent names a run that exists, nobody appends an unnamed batch.
THEOREM TypeCorrect == Spec => []TypeOK
<1>1. IInv => TypeOK
    BY DEF IInv
<1> QED
    BY <1>1, Invariance, PTL

\* No batch of a run is left between the database and the file once the run is
\* closed, by its owner or by a recovery.
THEOREM NothingLeftBetween == Spec => []SettledWithRun
<1>1. IInv => SettledWithRun
    BY DEF IInv
<1> QED
    BY <1>1, Invariance, PTL
=============================================================================
