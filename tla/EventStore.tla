----------------------------- MODULE EventStore -----------------------------
(* The event store of one session.  A batch of transcript events goes through  *)
(* two storages: an intent is prepared in SQLite, the bytes are appended to a   *)
(* file and synced, the intent is marked appended and then committed.  The      *)
(* SQLite half is fenced by the session's lease, the file is not.  A run that   *)
(* lost its process is orphaned; the next holder of the lease settles what it   *)
(* left between the two storages and closes it.                                 *)
(* internal/session/event_store.go, event_intents.go, event_store_append.go,    *)
(* event_turn.go, run_recovery.go, internal/agentruntime/run_recovery.go.       *)
(* The lease itself is SessionLease; here it is who holds it, and whether it    *)
(* has run out.  Every batch holds one event, so its sequence number is its     *)
(* position in the file.                                                        *)
EXTENDS Naturals, Sequences, FiniteSets

CONSTANTS
    Process,      \* actors that write or recover: each has a binding of its own
    Direct,       \* those that also write without a run: finalizers, archiving
    MaxBatches,
    MaxRuns,
    MaxFaults,    \* crashes, leases that run out under their holder, failed transactions
    Tears,        \* how a write cut in two may look between them
    Nobody

Batch == 1 .. MaxBatches
Run == 1 .. MaxRuns
NoRun == 0

ASSUME StoreAssumption ==
    /\ MaxBatches \in Nat /\ MaxRuns \in Nat /\ MaxFaults \in Nat
    /\ Direct \subseteq Process /\ Nobody \notin Process
    /\ Tears \subseteq {"part", "torn"}

VARIABLES
    log,        \* the file: what each write left
    intent,     \* session_event_intents
    run,        \* the session's last run, and whether its status is non-terminal
    recovery,   \* session_run_recovery.state of that run
    lease,      \* the lease row: its holder, and whether it is in time
    proc,       \* the actors
    cache,      \* their append caches, by which a rescan is saved
    late,       \* whether the file was changed by one who had lost the lease
    faults

vars == <<log, intent, run, recovery, lease, proc, cache, late, faults>>

\* A write leaves a whole batch; "part" is whole lines without the footer, "torn"
\* ends within a line, "debris" is the rest of a batch whose beginning is gone.
Item == [kind : {"batch", "part", "torn", "debris"}, id : Batch, seq : Nat]
Intent == [state : {"none", "prepared", "appended", "committed", "aborted"},
           run : {NoRun} \cup Run, seq : Nat]
NoCache == [log |-> <<>>, next |-> 0, count |-> 0]
Rest == [pc |-> "idle", run |-> NoRun, closing |-> FALSE,
         batch |-> 0, seq |-> 0, at |-> 0, bytes |-> {}]

Init ==
    /\ log = <<>>
    /\ intent = [b \in Batch |-> [state |-> "none", run |-> NoRun, seq |-> 0]]
    /\ run = [id |-> NoRun, open |-> FALSE]
    /\ recovery = "none"
    /\ lease = [holder |-> Nobody, live |-> FALSE]
    /\ proc = [p \in Process |-> Rest]
    /\ cache = [p \in Process |-> NoCache]
    /\ late = FALSE
    /\ faults = 0

(***************************************************************************)
(* What a scan makes of the file and of the intents.                       *)
(***************************************************************************)
InState(states) == {b \in Batch : intent[b].state \in states}
Unsettled(r) == {b \in InState({"prepared", "appended"}) : intent[b].run = r}

\* The batches in order, nothing but a beginning of whole lines after them.
Readable(l) ==
    \A i \in 1 .. Len(l) :
        \/ l[i].kind = "batch" /\ l[i].seq = i
        \/ l[i].kind = "part" /\ i = Len(l)
WholeBatches(l) == {l[i].id : i \in {j \in 1 .. Len(l) : l[j].kind = "batch"}}
WithBytes(b, l) == \E i \in 1 .. Len(l) : l[i] = [kind |-> "batch", id |-> b, seq |-> intent[b].seq]

\* A repairing scan drops a tail that ends within a line, and only that.
TornTail(l) == l # <<>> /\ l[Len(l)].kind = "torn"
Repaired(l) == IF TornTail(l) THEN SubSeq(l, 1, Len(l) - 1) ELSE l
Ends(l) == Cardinality({i \in 1 .. Len(l) : l[i].kind = "batch"})

Verdict ==
    LET whole == WholeBatches(log) IN
    IF ~Readable(log) \/ \E b \in whole : intent[b].state # "none" /\ ~WithBytes(b, log)
    THEN "corrupt"
    ELSE IF whole \cap InState({"none", "aborted"}) # {} THEN "blocked"
    ELSE IF ~(InState({"appended", "committed"}) \subseteq whole) THEN "inconsistent"
    ELSE IF InState({"prepared", "appended"}) # {} THEN "reconciling"
    ELSE "healthy"

Fresh(p) == cache[p] # NoCache /\ cache[p].log = log

\* Mutant of Writable: a store that is being reconciled takes appends.
WritableWhileReconciling(p) == Fresh(p) \/ Verdict \in {"healthy", "reconciling"}

\* The gate before an append: the counts if the cache is fresh, or an inspection.
Writable(p) ==
    \/ /\ Fresh(p)
       /\ InState({"prepared", "appended", "aborted"}) = {}
       /\ cache[p].count = Cardinality(InState({"committed"}))
    \/ Verdict = "healthy"

\* Mutant of Fence: a lease that has run out fences nobody.
FenceUntilExpiry(p) == lease.holder = p \/ ~lease.live

\* The fence of a transaction: the row is active and still the actor's own, in time
\* or not; only a takeover or a release ends that.
Fence(p) == lease.holder = p

Idle(p) == proc[p].pc = "idle"
Executing(p) == proc[p].run # NoRun /\ proc[p].pc \notin {"taken", "begun", "settling", "failing"}

Go(p, pc) == proc' = [proc EXCEPT ![p] = [@ EXCEPT !.pc = pc]]
Stops(p) == proc' = [proc EXCEPT ![p] = Rest]
Released(p) == lease' = IF Fence(p) THEN [holder |-> Nobody, live |-> FALSE] ELSE lease
Taken(p) == lease' = [holder |-> p, live |-> TRUE]

(***************************************************************************)
(* A run, and the appends of its owner or of a writer without a run.       *)
(***************************************************************************)
Admit(p) ==
    /\ Idle(p) /\ proc[p].run = NoRun /\ ~lease.live /\ ~run.open /\ run.id < MaxRuns
    /\ run' = [id |-> run.id + 1, open |-> TRUE]
    /\ recovery' = "none"
    /\ proc' = [proc EXCEPT ![p] = [Rest EXCEPT !.run = run.id + 1]]
    /\ Taken(p)
    /\ UNCHANGED <<log, intent, cache, late, faults>>

\* The gate is passed before the binding is looked up: one who runs nothing has
\* to reserve the session afterwards, and may find it changed.
Gate(p) ==
    /\ Idle(p) /\ (Executing(p) \/ p \in Direct)
    /\ InState({"none"}) # {}
    /\ Writable(p)
    /\ Go(p, IF Executing(p) THEN "bound" ELSE "gated")
    /\ UNCHANGED <<log, intent, run, recovery, lease, cache, late, faults>>

Reserve(p) ==
    /\ proc[p].pc = "gated"
    /\ IF lease.live THEN Stops(p) /\ UNCHANGED lease
                     ELSE Go(p, "bound") /\ Taken(p)
    /\ UNCHANGED <<log, intent, run, recovery, cache, late, faults>>

\* An append that fails: the intent stays as it is, a reservation is released.
Fails(p) ==
    IF proc[p].run = NoRun
    THEN Stops(p) /\ Released(p)
    ELSE proc' = [proc EXCEPT ![p] = [Rest EXCEPT !.run = proc[p].run]] /\ UNCHANGED lease

\* eventStoreAppendState: where the next batch goes, by the cache or by a scan
\* that repairs.
NextSeq(p) == IF Fresh(p) THEN cache[p].next ELSE Ends(Repaired(log)) + 1
Scan(p) ==
    IF Fresh(p) THEN UNCHANGED <<log, cache, late>>
    ELSE /\ log' = Repaired(log)
         /\ cache' = [cache EXCEPT ![p] = [log |-> log', next |-> NextSeq(p), count |-> Ends(log')]]
         /\ late' = (late \/ (TornTail(log) /\ ~Fence(p)))
Scannable(p) == Fresh(p) \/ Readable(Repaired(log))

NextSequence(p) ==
    /\ proc[p].pc = "bound"
    /\ IF Scannable(p)
       THEN /\ Scan(p)
            /\ proc' = [proc EXCEPT ![p] = [@ EXCEPT !.pc = "sized", !.seq = NextSeq(p)]]
            /\ UNCHANGED lease
       ELSE Fails(p) /\ UNCHANGED <<log, cache, late>>
    /\ UNCHANGED <<intent, run, recovery, faults>>

\* GenerateID: an identifier nobody has used.
Unused == CHOOSE b \in Batch : intent[b].state = "none"

Prepare(p) ==
    /\ proc[p].pc = "sized"
    /\ IF Fence(p) /\ InState({"none"}) # {}
       THEN /\ intent' = [intent EXCEPT ![Unused] = [state |-> "prepared", run |-> proc[p].run, seq |-> proc[p].seq]]
            /\ proc' = [proc EXCEPT ![p] = [@ EXCEPT !.pc = "prepared", !.batch = Unused]]
            /\ UNCHANGED lease
       ELSE Fails(p) /\ UNCHANGED intent
    /\ UNCHANGED <<log, run, recovery, cache, late, faults>>

\* EventStore.Append looks for its place again, and then writes there.
Position(p) ==
    /\ proc[p].pc = "prepared"
    /\ IF Scannable(p)
       THEN /\ Scan(p)
            /\ proc' = [proc EXCEPT ![p] = [@ EXCEPT !.pc = "placed", !.at = NextSeq(p)]]
            /\ UNCHANGED lease
       ELSE Fails(p) /\ UNCHANGED <<log, cache, late>>
    /\ UNCHANGED <<intent, run, recovery, faults>>

Piece(p, kind) == [kind |-> kind, id |-> proc[p].batch, seq |-> proc[p].at]

\* The bytes are in: the cache takes them as its own, and the size the file has
\* now, whoever made it so.  A batch at another place than intended is an error.
Written(p) ==
    /\ cache' = [cache EXCEPT ![p] = [log |-> log', next |-> proc[p].at + 1, count |-> @.count + 1]]
    /\ IF proc[p].at = proc[p].seq
       THEN Go(p, "written") /\ UNCHANGED lease
       ELSE Fails(p)
    /\ late' = (late \/ ~Fence(p))

Write(p) ==
    /\ proc[p].pc = "placed"
    /\ log' = Append(log, Piece(p, "batch"))
    /\ Written(p)
    /\ UNCHANGED <<intent, run, recovery, faults>>

\* A batch larger than the buffer takes several writes.
WritePart(p) ==
    /\ proc[p].pc = "placed"
    /\ \E kind \in Tears : log' = Append(log, Piece(p, kind))
    /\ Go(p, "writing")
    /\ late' = (late \/ ~Fence(p))
    /\ UNCHANGED <<intent, run, recovery, lease, cache, faults>>

WriteRest(p) ==
    /\ proc[p].pc = "writing"
    /\ IF log # <<>> /\ \E kind \in Tears : log[Len(log)] = Piece(p, kind)
       THEN log' = [log EXCEPT ![Len(log)] = Piece(p, "batch")]
       ELSE log' = Append(log, Piece(p, "debris"))
    /\ Written(p)
    /\ UNCHANGED <<intent, run, recovery, faults>>

\* The transactions that move an intent on are fenced.
Moved(b, state) == intent' = [intent EXCEPT ![b] = [@ EXCEPT !.state = state]]

Mark(p) ==
    /\ proc[p].pc = "written"
    /\ IF Fence(p) THEN Moved(proc[p].batch, "appended") /\ Go(p, "appended") /\ UNCHANGED lease
                   ELSE Fails(p) /\ UNCHANGED intent
    /\ UNCHANGED <<log, run, recovery, cache, late, faults>>

CommitEventIntent(p) ==
    /\ proc[p].pc = "appended"
    /\ IF Fence(p)
       THEN /\ Moved(proc[p].batch, "committed")
            /\ IF proc[p].run = NoRun THEN Stops(p) /\ Released(p)
               ELSE /\ proc' = [proc EXCEPT ![p] = [Rest EXCEPT !.run = proc[p].run, !.closing = proc[p].closing]]
                    /\ UNCHANGED lease
       ELSE Fails(p) /\ UNCHANGED intent
    /\ UNCHANGED <<log, run, recovery, cache, late, faults>>

\* Mutant of Close: the run is closed whatever the state of the store.
CloseUnchecked(p) ==
    /\ Idle(p) /\ Executing(p) /\ ~proc[p].closing
    /\ proc' = [proc EXCEPT ![p] = [@ EXCEPT !.closing = TRUE]]
    /\ UNCHANGED <<log, intent, run, recovery, lease, cache, late, faults>>

\* The terminal write: the store must be healthy, the closing entries are
\* appended like any others, then the run is closed under the fence.
Close(p) ==
    /\ Idle(p) /\ Executing(p) /\ ~proc[p].closing
    /\ Verdict = "healthy"
    /\ proc' = [proc EXCEPT ![p] = [@ EXCEPT !.closing = TRUE]]
    /\ UNCHANGED <<log, intent, run, recovery, lease, cache, late, faults>>

Finish(p) ==
    /\ Idle(p) /\ Executing(p) /\ proc[p].closing /\ Fence(p)
    /\ run' = [run EXCEPT !.open = FALSE]
    /\ Stops(p) /\ Released(p)
    /\ UNCHANGED <<log, intent, recovery, cache, late, faults>>

\* The lease-lost signal, or a fenced write that fails, ends the execution.
LoseLease(p) ==
    /\ Idle(p) /\ Executing(p) /\ ~Fence(p)
    /\ Stops(p)
    /\ UNCHANGED <<log, intent, run, recovery, lease, cache, late, faults>>

\* Mutant of AcquireRecovery: an attempt on record keeps others away.
AcquireRecoveryOnce(p) ==
    /\ Idle(p) /\ proc[p].run = NoRun
    /\ run.open /\ ~lease.live /\ recovery \notin {"failed", "recovering"}
    /\ Taken(p)
    /\ proc' = [proc EXCEPT ![p] = [Rest EXCEPT !.run = run.id, !.pc = "taken"]]
    /\ UNCHANGED <<log, intent, run, recovery, cache, late, faults>>

(***************************************************************************)
(* recoverOrphanedRun.                                                     *)
(***************************************************************************)
AcquireRecovery(p) ==
    /\ Idle(p) /\ proc[p].run = NoRun
    /\ run.open /\ ~lease.live /\ recovery # "failed"
    /\ Taken(p)
    /\ proc' = [proc EXCEPT ![p] = [Rest EXCEPT !.run = run.id, !.pc = "taken"]]
    /\ UNCHANGED <<log, intent, run, recovery, cache, late, faults>>

BeginRecovery(p) ==
    /\ proc[p].pc = "taken"
    /\ IF Fence(p) /\ run.open
       THEN recovery' = "recovering" /\ Go(p, "begun") /\ UNCHANGED lease
       ELSE Stops(p) /\ Released(p) /\ UNCHANGED recovery
    /\ UNCHANGED <<log, intent, run, cache, late, faults>>

\* ReconcileEventIntents reads the store once, and settles by what it read.
Reconcile(p) ==
    /\ proc[p].pc = "begun"
    /\ IF Verdict \in {"corrupt", "blocked"} THEN Go(p, "failing")
       ELSE proc' = [proc EXCEPT ![p] = [@ EXCEPT !.pc = "settling", !.bytes = WholeBatches(log)]]
    /\ UNCHANGED <<log, intent, run, recovery, lease, cache, late, faults>>

\* Mutants of Settle: every intent is taken to have its bytes, or none is.
SettleBlindly(p) ==
    /\ proc[p].pc = "settling" /\ Fence(p)
    /\ \E b \in Unsettled(proc[p].run) :
          Moved(b, IF intent[b].state = "prepared" THEN "appended" ELSE "committed")
    /\ UNCHANGED <<log, run, recovery, lease, proc, cache, late, faults>>

SettleByAborting(p) ==
    /\ proc[p].pc = "settling" /\ Fence(p)
    /\ \E b \in Unsettled(proc[p].run) :
          Moved(b, IF intent[b].state = "prepared" THEN "aborted" ELSE "committed")
    /\ UNCHANGED <<log, run, recovery, lease, proc, cache, late, faults>>

\* An intent is adopted and then moved on, each in a transaction of its own; a
\* prepared one without bytes is aborted.
Settle(p) ==
    /\ proc[p].pc = "settling"
    /\ \E b \in Unsettled(proc[p].run) :
          IF ~Fence(p) THEN Go(p, "failing") /\ UNCHANGED intent
          ELSE /\ Moved(b, IF b \notin proc[p].bytes THEN "aborted"
                           ELSE IF intent[b].state = "prepared" THEN "appended" ELSE "committed")
               /\ UNCHANGED proc
    /\ UNCHANGED <<log, run, recovery, lease, cache, late, faults>>

Converge(p) ==
    /\ proc[p].pc = "settling" /\ Unsettled(proc[p].run) = {}
    /\ IF Fence(p) /\ run.open
       THEN run' = [run EXCEPT !.open = FALSE] /\ recovery' = "completed" /\ Stops(p) /\ Released(p)
       ELSE Go(p, "failing") /\ UNCHANGED <<run, recovery, lease>>
    /\ UNCHANGED <<log, intent, cache, late, faults>>

\* The failure is recorded with the time of the next attempt, under the fence.
FailRecovery(p) ==
    /\ proc[p].pc = "failing"
    /\ recovery' = IF Fence(p) THEN "failed" ELSE recovery
    /\ Stops(p) /\ Released(p)
    /\ UNCHANGED <<log, intent, run, cache, late, faults>>

RetryDue ==
    /\ recovery = "failed" /\ recovery' = "retry"
    /\ UNCHANGED <<log, intent, run, lease, proc, cache, late, faults>>

(***************************************************************************)
(* The lease's clock, and what may go wrong.                               *)
(***************************************************************************)
Strikes == faults < MaxFaults /\ faults' = faults + 1

Expire ==
    /\ lease.live /\ lease' = [lease EXCEPT !.live = FALSE]
    /\ IF lease.holder = Nobody THEN UNCHANGED faults ELSE Strikes
    /\ UNCHANGED <<log, intent, run, recovery, proc, cache, late>>

Renew(p) ==
    /\ Fence(p) /\ ~lease.live /\ Taken(p)
    /\ UNCHANGED <<log, intent, run, recovery, proc, cache, late, faults>>

Crash(p) ==
    /\ proc[p] # Rest /\ Strikes
    /\ Stops(p)
    /\ cache' = [cache EXCEPT ![p] = NoCache]
    /\ lease' = IF Fence(p) THEN [lease EXCEPT !.holder = Nobody] ELSE lease
    /\ UNCHANGED <<log, intent, run, recovery, late>>

TransactionFails(p) ==
    /\ Strikes
    /\ \/ proc[p].pc \in {"written", "appended"} /\ Fails(p)
       \/ proc[p].pc = "settling" /\ Go(p, "failing") /\ UNCHANGED lease
    /\ UNCHANGED <<log, intent, run, recovery, cache, late>>

Appends(p) == Reserve(p) \/ NextSequence(p) \/ Prepare(p) \/ Position(p) \/ Write(p)
              \/ WriteRest(p) \/ Mark(p) \/ CommitEventIntent(p)
Recovers(p) == BeginRecovery(p) \/ Reconcile(p) \/ Settle(p) \/ Converge(p) \/ FailRecovery(p)

Next ==
    \/ \E p \in Process :
         \/ Admit(p) \/ Gate(p) \/ Appends(p) \/ WritePart(p) \/ Close(p) \/ Finish(p) \/ LoseLease(p)
         \/ AcquireRecovery(p) \/ Recovers(p) \/ Renew(p) \/ Crash(p) \/ TransactionFails(p)
    \/ RetryDue \/ Expire

Spec == Init /\ [][Next]_vars

\* A process that is alive goes on with what it has begun; the lease of a dead
\* one runs out; the recovery coordinators scan for ever.
Fairness ==
    /\ \A p \in Process : WF_vars(Appends(p)) /\ WF_vars(Recovers(p)) /\ WF_vars(LoseLease(p))
    /\ \A p \in Process : WF_vars(AcquireRecovery(p))
    /\ WF_vars(RetryDue)
    /\ WF_vars(Expire /\ lease.holder = Nobody)
FairSpec == Spec /\ Fairness

(***************************************************************************)
(* Properties.                                                             *)
(***************************************************************************)
TypeOK ==
    /\ log \in Seq(Item)
    /\ intent \in [Batch -> Intent]
    /\ run \in [id : {NoRun} \cup Run, open : BOOLEAN]
    /\ recovery \in {"none", "recovering", "failed", "retry", "completed"}
    /\ lease \in [holder : Process \cup {Nobody}, live : BOOLEAN]
    /\ proc \in [Process -> [pc : {"idle", "gated", "bound", "sized", "prepared", "placed", "writing", "written",
                                   "appended", "taken", "begun", "settling", "failing"},
                             run : {NoRun} \cup Run, closing : BOOLEAN, batch : {0} \cup Batch,
                             seq : Nat, at : Nat, bytes : SUBSET Batch]]
    /\ cache \in [Process -> [log : Seq(Item), next : Nat, count : Nat]]
    /\ late \in BOOLEAN /\ faults \in 0 .. MaxFaults

Cut == \E i \in 1 .. Len(log) : log[i].kind # "batch"

\* What SQLite says was appended or committed is in the file, whole and where it
\* says, no matter who crashed or lost the lease when, and even if one who had
\* lost it wrote in between, unless a single batch takes several writes:
\* CommitEventIntent does not read what it commits.
CommittedHasBytes ==
    ~late \/ Tears = {} => \A b \in InState({"appended", "committed"}) : WithBytes(b, log)

\* No two committed batches claim the same place in the transcript.
CommittedApart ==
    \A b, c \in InState({"committed"}) : b # c => intent[b].seq # intent[c].seq

\* A closed run leaves nothing between the two storages: no later process may
\* adopt an intent of a run that needs no recovery.
SettledWithRun ==
    \A b \in InState({"prepared", "appended"}) :
        intent[b].run # NoRun => intent[b].run = run.id /\ run.open

\* Fencing is enough: the store is unreadable only once somebody wrote who had
\* lost the lease, or while a write is cut in two.
UnreadableOnlyByDamage == Verdict \in {"corrupt", "blocked", "inconsistent"} => late \/ Cut

\* What readers are promised: intents that are prepared or appended are pending, and
\* the bytes of an entry are those of a batch where its intent says.
Told == [b \in Batch |-> [state |-> IF intent[b].state \in {"prepared", "appended"} THEN "pending"
                                    ELSE intent[b].state,
                          run |-> intent[b].run, seq |-> intent[b].seq]]
Stored == {b \in Batch : WithBytes(b, log)}
Reader == INSTANCE Transcript WITH
    Entry <- Batch, entries <- Told, stored <- Stored, damaged <- late

\* Every step of appends, of recovery and of what goes wrong is a step of the
\* transcript or none of it: one outcome for each batch and a place of its own, no
\* run closed over what it left, and none that puts its events before those readers
\* have seen, whether its owner or a recovery commits them.  Writers without a run,
\* whose gate precedes their reservation, are exempt from the order.
ImplementsTranscript == Reader!Spec

\* An orphaned run is settled and closed, whatever it left behind.
Orphaned == run.open /\ \A p \in Process : Executing(p) => proc[p].run # run.id
OrphanSettles == Orphaned ~> (~run.open \/ late \/ Cut)

\* A tail that a crash has cut off is dropped by the next holder of the lease, and
\* the orphan settles too.  Does not hold: see the run event_torn.
TornTailRecovers == (Orphaned /\ TornTail(log)) ~> ~TornTail(log)
=============================================================================
