---------------------------- MODULE SessionLease ----------------------------
(***************************************************************************)
(* The cross-process session lease of internal/session/runtime_lock.go     *)
(* over the row of internal/dao/runtime_lease.go, for one session.  Rows   *)
(* of different sessions share no column and no CAS, so one row is enough. *)
(*                                                                         *)
(* A lease is named by its epoch: Acquire is the only statement that makes *)
(* an identity, it always increments the epoch, and owner, epoch and token *)
(* travel together ever after.  A process is one instance: a restart draws *)
(* a new owner id (runtimeOwnerID), so it is another element of Process.   *)
(*                                                                         *)
(* SQLite transactions are single actions; what the code does after commit *)
(* (rememberRuntimeLease, markRuntimeLeaseBound, the CAS that follows the  *)
(* in-memory release) is an action of its own, since other goroutines and  *)
(* processes run in between.                                               *)
(***************************************************************************)
EXTENDS Integers, FiniteSets

CONSTANTS
    Process,    \* process instances that may share the database
    Run,        \* durable run ids
    Purpose,    \* purposes callers acquire the lease for
    MaxEpoch,   \* bound on the number of acquisitions
    TTL,        \* lease time to live, in ticks
    NoProcess, NoRun

\* What the Acquire* functions pass; "execution" is only ever reached by binding.
AcquirePurpose == {"admission", "recovery", "mutation", "fork", "legacy", "run"}

ASSUME LeaseAssumption ==
    /\ MaxEpoch \in Nat /\ TTL \in Nat \ {0}
    /\ NoProcess \notin Process /\ NoRun \notin Run
    /\ Purpose \subseteq AcquirePurpose

VARIABLES
    row,         \* the session_runtime_leases row; epoch 0 stands for no row
    handle,      \* per epoch, the *runtimeLease of the process that acquired it
    registry,    \* activeRuntimeLeases: per process, the epoch it has registered
    mutex,       \* runtimeLocks: per process, the epoch whose guard holds it
    snapshot,    \* per process, the lease its heartbeat pass is about to renew
    retained,    \* epochs an ExecutionRuntime has retained and not let go
    runStatus,   \* session_runs: per run, its status
    up           \* processes that are running

vars == <<row, handle, registry, mutex, snapshot, retained, runStatus, up>>

NoLease == 0
LeaseId == 1 .. MaxEpoch

\* acquired: committed, not yet remembered; releasing: given up in memory, the
\* row not yet updated; gone: its process died.
HandleState == {"none", "acquired", "held", "releasing", "released", "lost", "gone"}
LeasePurpose == AcquirePurpose \cup {"execution", "none"}

Row == [epoch : 0 .. MaxEpoch, owner : Process \cup {NoProcess}, purpose : LeasePurpose,
        run : Run \cup {NoRun}, state : {"absent", "active", "released"}, ttl : 0 .. TTL]
Handle == [owner : Process \cup {NoProcess}, purpose : LeasePurpose, run : Run \cup {NoRun},
           bound : Run \cup {NoRun}, state : HandleState, refs : 0 .. 2]

NoRow == [epoch |-> NoLease, owner |-> NoProcess, purpose |-> "none", run |-> NoRun,
          state |-> "absent", ttl |-> 0]
NoHandle == [owner |-> NoProcess, purpose |-> "none", run |-> NoRun, bound |-> NoRun,
             state |-> "none", refs |-> 0]

Init ==
    /\ row = NoRow
    /\ handle = [e \in LeaseId |-> NoHandle]
    /\ registry = [p \in Process |-> NoLease]
    /\ mutex = [p \in Process |-> NoLease]
    /\ snapshot = [p \in Process |-> NoLease]
    /\ retained = {}
    /\ runStatus = [r \in Run |-> "absent"]
    /\ up = Process

-----------------------------------------------------------------------------
(* Predicates the operations share. *)

ActiveRuns == {r \in Run : runStatus[r] = "active"}

\* The fenced CAS: owner, epoch, token and state = 'active', never the expiry.
RowHeldBy(e) == row.state = "active" /\ row.epoch = e

\* hasLiveRuntimeLease for the current row.
LiveLocally(p) == /\ registry[p] # NoLease
                  /\ registry[p] = row.epoch
                  /\ handle[registry[p]].state = "held"

Reservation(purpose) == purpose \in {"mutation", "fork", "legacy"}
Bindable(purpose) == purpose \in {"admission", "run", "execution", "recovery"}

\* validateRuntimeLeaseTx: no row, a reservation's tombstone, or our own row.
Validated(p) ==
    \/ row.state = "absent"
    \/ row.state = "released" /\ Reservation(row.purpose)
    \/ registry[p] # NoLease /\ RowHeldBy(registry[p])

\* validateRuntimeLeaseBindingTx: the exact binding, in memory and in the row.
BindingValidated(p, r, purpose) ==
    /\ registry[p] # NoLease /\ RowHeldBy(registry[p])
    /\ row.purpose = purpose /\ handle[registry[p]].purpose = purpose
    /\ row.run = r /\ handle[registry[p]].run = r

\* Mutant of ModeAllows: admission and mutation do not look for active runs.
ModeAllowsBusy(purpose, r) ==
    IF purpose = "recovery" THEN r \in Run /\ ActiveRuns = {r} ELSE r = NoRun

\* Mutant of ModeAllows: recovery does not compare the run it names with the active one.
ModeAllowsAnyRun(purpose, r) ==
    CASE purpose \in {"legacy", "run"} -> r = NoRun
      [] purpose = "recovery" -> r \in Run /\ ActiveRuns # {}
      [] OTHER -> r = NoRun /\ ActiveRuns = {}

\* What each acquisition mode demands of the session's runs, and the run it names.
ModeAllows(purpose, r) ==
    CASE purpose \in {"legacy", "run"} -> r = NoRun
      [] purpose = "recovery" -> r \in Run /\ ActiveRuns = {r}
      [] OTHER -> r = NoRun /\ ActiveRuns = {}

\* Mutant of Forget: the registration is left to the heartbeat.
ForgetNothing(p, e) == registry

\* forgetRuntimeLease: only the registration of this very lease.
Forget(p, e) == IF registry[p] = e THEN [registry EXCEPT ![p] = NoLease] ELSE registry

-----------------------------------------------------------------------------
(* Acquisition. *)

\* Mutants of RowFree: an expired row is free even while its lease lives here; a row
\* is free as soon as its lease does not live here, expired or not.
RowFreeOnceExpired(p) ==
    row.state = "active" /\ row.ttl > 0 => row.owner = p /\ ~LiveLocally(p)
RowFreeUnlessLive(p) == row.state = "active" => ~LiveLocally(p)

\* An unexpired row is busy unless it is ours and registered nowhere here; our
\* own row is busy, expired or not, while its lease lives in this process.
RowFree(p) ==
    row.state = "active" => /\ row.ttl > 0 => row.owner = p
                            /\ row.owner = p => ~LiveLocally(p)

\* The acquire transaction, under the process-local mutex of the session.
Acquire(p, purpose, r) ==
    LET e == row.epoch + 1 IN
    /\ p \in up /\ mutex[p] = NoLease /\ e \in LeaseId
    /\ RowFree(p)
    /\ ModeAllows(purpose, r)
    /\ row' = [epoch |-> e, owner |-> p, purpose |-> purpose, run |-> r,
               state |-> "active", ttl |-> TTL]
    /\ handle' = [handle EXCEPT ![e] = [owner |-> p, purpose |-> purpose, run |-> r,
                                        bound |-> NoRun, state |-> "acquired", refs |-> 1]]
    /\ mutex' = [mutex EXCEPT ![p] = e]
    /\ UNCHANGED <<registry, snapshot, retained, runStatus, up>>

\* rememberRuntimeLease, after the commit: replaces whatever was registered.
Remember(p) ==
    LET e == mutex[p] IN
    /\ p \in up /\ e # NoLease /\ handle[e].state = "acquired"
    /\ registry' = [registry EXCEPT ![p] = e]
    /\ handle' = [handle EXCEPT ![e].state = "held"]
    /\ UNCHANGED <<row, mutex, snapshot, retained, runStatus, up>>

-----------------------------------------------------------------------------
(* Runs under the lease. *)

\* bindRuntimeLeaseToRunTx: the registered lease e becomes the execution of r.
CanBind(p, r) ==
    LET e == registry[p] IN
    /\ e # NoLease /\ RowHeldBy(e)
    /\ Bindable(handle[e].purpose) /\ handle[e].run \in {NoRun, r}
    /\ Bindable(row.purpose) /\ row.run \in {NoRun, r}

Bind(p, r) ==
    /\ row' = [row EXCEPT !.run = r, !.purpose = "execution"]
    /\ handle' = [handle EXCEPT ![registry[p]].bound = r]

\* createSessionRunAndEvent: fence, insert (one non-terminal run per session),
\* bind, commit.  Before the first lease row exists it binds nothing.
CreateRun(p, r) ==
    /\ p \in up /\ runStatus[r] = "absent" /\ ActiveRuns = {}
    /\ Validated(p)
    /\ \/ CanBind(p, r) /\ Bind(p, r)
       \/ registry[p] = NoLease /\ row.state = "absent" /\ UNCHANGED <<row, handle>>
    /\ runStatus' = [runStatus EXCEPT ![r] = "active"]
    /\ UNCHANGED <<registry, mutex, snapshot, retained, up>>

\* BindRuntimeLeaseToExistingRun, for a reattached run.
BindExisting(p, r) ==
    /\ p \in up /\ ActiveRuns = {r}
    /\ Validated(p) /\ CanBind(p, r) /\ Bind(p, r)
    /\ UNCHANGED <<registry, mutex, snapshot, retained, runStatus, up>>

\* markRuntimeLeaseBound, after the commit of either.
MarkBound(e) ==
    /\ handle[e].owner \in up /\ handle[e].bound # NoRun
    /\ handle' = [handle EXCEPT ![e].run = handle[e].bound, ![e].purpose = "execution",
                                ![e].bound = NoRun]
    /\ UNCHANGED <<row, registry, mutex, snapshot, retained, runStatus, up>>

\* RetainRuntimeLease: the ExecutionRuntime takes its own reference.
Retain(p, r) ==
    LET e == registry[p] IN
    /\ p \in up /\ e # NoLease /\ e \notin retained
    /\ handle[e].state = "held" /\ handle[e].purpose = "execution" /\ handle[e].run = r
    /\ handle' = [handle EXCEPT ![e].refs = @ + 1]
    /\ retained' = retained \cup {e}
    /\ UNCHANGED <<row, registry, mutex, snapshot, runStatus, up>>

\* A fenced write (usage, event, status) by the execution that retains e goes through
\* when validateRuntimeLeaseTx lets its process write; what it writes is left out.
AppendAccepted(e) == e \in retained /\ Validated(handle[e].owner)

\* FinishSessionRunAndConversationTurn or UpdateSessionRunStatus by that execution.
FinishRun(e) ==
    LET r == handle[e].run IN
    /\ AppendAccepted(e)
    /\ r \in ActiveRuns
    /\ runStatus' = [runStatus EXCEPT ![r] = "terminal"]
    /\ UNCHANGED <<row, handle, registry, mutex, snapshot, retained, up>>

\* ConvergeSessionRunRecovery by the holder of a recovery guard.
ConvergeRun(p, r) ==
    /\ p \in up /\ mutex[p] # NoLease /\ handle[mutex[p]].purpose = "recovery"
    /\ BindingValidated(p, r, "recovery") /\ r \in ActiveRuns
    /\ runStatus' = [runStatus EXCEPT ![r] = "terminal"]
    /\ UNCHANGED <<row, handle, registry, mutex, snapshot, retained, up>>

-----------------------------------------------------------------------------
(* Release.  runtimeLease.release drops one reference; the last one gives   *)
(* the lease up in memory, then runs the release CAS on the row.            *)

LastReference(e) == handle[e].state = "held" /\ handle[e].refs = 1

\* Mutant of DropReference: any but the last holder leaves the count as it is.
DropLastOnly(e) ==
    IF LastReference(e)
    THEN /\ handle' = [handle EXCEPT ![e].refs = 0, ![e].state = "releasing"]
         /\ registry' = Forget(handle[e].owner, e)
    ELSE UNCHANGED <<handle, registry>>

\* Mutant of DropReference: any holder that leaves takes the registration along.
DropForgets(e) ==
    IF handle[e].state # "held" THEN UNCHANGED <<handle, registry>>
    ELSE /\ handle' = IF LastReference(e)
                      THEN [handle EXCEPT ![e].refs = 0, ![e].state = "releasing"]
                      ELSE [handle EXCEPT ![e].refs = @ - 1]
         /\ registry' = Forget(handle[e].owner, e)

\* One reference less; the last one closes the handle and its registration.
DropReference(e) ==
    IF handle[e].state # "held" THEN UNCHANGED <<handle, registry>>
    ELSE IF LastReference(e)
         THEN /\ handle' = [handle EXCEPT ![e].refs = 0, ![e].state = "releasing"]
              /\ registry' = Forget(handle[e].owner, e)
         ELSE /\ handle' = [handle EXCEPT ![e].refs = @ - 1]
              /\ UNCHANGED registry

\* RuntimeLeaseGuard.Release: the mutex is freed after the release CAS, if any.
ReleaseGuard(p) ==
    LET e == mutex[p] IN
    /\ p \in up /\ e # NoLease /\ handle[e].state \in {"held", "lost"}
    /\ DropReference(e)
    /\ mutex' = IF LastReference(e) THEN mutex ELSE [mutex EXCEPT ![p] = NoLease]
    /\ UNCHANGED <<row, snapshot, retained, runStatus, up>>

\* The release function RetainRuntimeLease returned, called once.
ReleaseRetained(e) ==
    /\ e \in retained
    /\ DropReference(e)
    /\ retained' = retained \ {e}
    /\ UNCHANGED <<row, mutex, snapshot, runStatus, up>>

\* The release CAS on the row, which leaves a tombstone.
Tombstone(e) == row' = IF RowHeldBy(e) THEN [row EXCEPT !.state = "released", !.ttl = 0] ELSE row

\* Its error is dropped: a failed statement leaves the row active.
ReleaseRow(e) ==
    LET p == handle[e].owner IN
    /\ handle[e].state = "releasing"
    /\ Tombstone(e) \/ UNCHANGED row
    /\ handle' = [handle EXCEPT ![e].state = "released"]
    /\ mutex' = IF mutex[p] = e THEN [mutex EXCEPT ![p] = NoLease] ELSE mutex
    /\ UNCHANGED <<registry, snapshot, retained, runStatus, up>>

-----------------------------------------------------------------------------
(* Heartbeat, time and crashes. *)

\* snapshotRuntimeLeasesForDir at a tick.
HeartbeatSnapshot(p) ==
    /\ p \in up /\ snapshot[p] = NoLease /\ registry[p] # NoLease
    /\ snapshot' = [snapshot EXCEPT ![p] = registry[p]]
    /\ UNCHANGED <<row, handle, registry, mutex, retained, runStatus, up>>

\* Mutant of Renewed: the statement compares the expiry as well.
RenewedUnexpired(e) == RowHeldBy(e) /\ row.ttl > 0

\* renewLeaseExec matched the row: owner, epoch, token and state, not expiry.
Renewed(e) == RowHeldBy(e)

\* markRuntimeLeaseLost: nothing if the lease was released meanwhile.
MarkLost(e) ==
    \/ /\ handle[e].state = "held"
       /\ handle' = [handle EXCEPT ![e].state = "lost", ![e].refs = 0]
       /\ registry' = Forget(handle[e].owner, e)
    \/ handle[e].state # "held" /\ UNCHANGED <<handle, registry>>

\* The renewal executed: one row extends the lease, none means it is lost.
HeartbeatRenew(p) ==
    LET e == snapshot[p] IN
    /\ p \in up /\ e # NoLease
    /\ \/ /\ Renewed(e)
          /\ row' = [row EXCEPT !.ttl = TTL]
          /\ UNCHANGED <<handle, registry>>
       \/ ~Renewed(e) /\ MarkLost(e) /\ UNCHANGED row
    /\ snapshot' = [snapshot EXCEPT ![p] = NoLease]
    /\ UNCHANGED <<mutex, retained, runStatus, up>>

\* The database stayed unavailable for the retry budget: left to the next tick.
HeartbeatFail(p) ==
    /\ p \in up /\ snapshot[p] # NoLease
    /\ snapshot' = [snapshot EXCEPT ![p] = NoLease]
    /\ UNCHANGED <<row, handle, registry, mutex, retained, runStatus, up>>

Tick ==
    /\ row.ttl > 0
    /\ row' = [row EXCEPT !.ttl = @ - 1]
    /\ UNCHANGED <<handle, registry, mutex, snapshot, retained, runStatus, up>>

\* What a dead process's handle is worth.
Orphaned(h) ==
    [owner |-> h.owner, purpose |-> h.purpose, run |-> h.run, bound |-> NoRun, refs |-> 0,
     state |-> IF h.state \in {"acquired", "held", "releasing"} THEN "gone" ELSE h.state]

\* A process dies: all it kept in memory goes, the database stays.
Crash(p) ==
    /\ p \in up
    /\ up' = up \ {p}
    /\ handle' = [e \in LeaseId |->
                    IF handle[e].owner = p THEN Orphaned(handle[e]) ELSE handle[e]]
    /\ retained' = {e \in retained : handle[e].owner # p}
    /\ registry' = [registry EXCEPT ![p] = NoLease]
    /\ mutex' = [mutex EXCEPT ![p] = NoLease]
    /\ snapshot' = [snapshot EXCEPT ![p] = NoLease]
    /\ UNCHANGED <<row, runStatus>>

-----------------------------------------------------------------------------
Next ==
    \/ \E p \in Process :
          \/ \E purpose \in Purpose, r \in Run \cup {NoRun} : Acquire(p, purpose, r)
          \/ Remember(p)
          \/ \E r \in Run : \/ CreateRun(p, r) \/ BindExisting(p, r)
                            \/ Retain(p, r) \/ ConvergeRun(p, r)
          \/ ReleaseGuard(p)
          \/ HeartbeatSnapshot(p) \/ HeartbeatRenew(p) \/ HeartbeatFail(p)
          \/ Crash(p)
    \/ \E e \in LeaseId : MarkBound(e) \/ FinishRun(e) \/ ReleaseRetained(e) \/ ReleaseRow(e)
    \/ Tick

Spec == Init /\ [][Next]_vars

\* The ticker of every running process fires, the database answers in the end,
\* and a goroutine between two statements goes on to the second.
Fairness ==
    /\ WF_vars(Tick)
    /\ \A p \in Process : /\ WF_vars(HeartbeatSnapshot(p)) /\ SF_vars(HeartbeatRenew(p))
                          /\ WF_vars(Remember(p))
    /\ \A e \in LeaseId : WF_vars(MarkBound(e)) /\ WF_vars(ReleaseRow(e))

FairSpec == Spec /\ Fairness

-----------------------------------------------------------------------------
(* Properties. *)

TypeOK ==
    /\ row \in Row
    /\ handle \in [LeaseId -> Handle]
    /\ registry \in [Process -> 0 .. MaxEpoch]
    /\ mutex \in [Process -> 0 .. MaxEpoch]
    /\ snapshot \in [Process -> 0 .. MaxEpoch]
    /\ retained \subseteq LeaseId
    /\ runStatus \in [Run -> {"absent", "active", "terminal"}]
    /\ up \subseteq Process

\* The process that acquired e still counts on it.
Claimed(e) == handle[e].state \in {"acquired", "held"}

\* A lease is marked lost only when its row is no longer its own: an expired row
\* nobody took, or a stall of any length, never costs a live owner its lease
\* (leaseHeartbeatScheduler.renew, markRuntimeLeaseLost).
LostMeansDisplaced ==
    \A e \in LeaseId : handle[e].state = "lost" => ~RowHeldBy(e)

\* A row is released only by the lease it names, and only once that lease has
\* lost its last reference: neither a displaced owner's late release nor the
\* guard of an execution the Runtime retains frees it (release, Release).
TombstoneMeansGivenUp ==
    row.state = "released" => /\ handle[row.epoch].state \in {"released", "gone"}
                              /\ handle[row.epoch].refs = 0

\* The lease the row names stays registered while it is held, so the heartbeat
\* keeps renewing it: the late release of a predecessor in the same process does
\* not unregister its successor (rememberRuntimeLease, forgetRuntimeLease).
HolderRegistered ==
    \A e \in LeaseId : handle[e].state = "held" /\ RowHeldBy(e) => registry[handle[e].owner] = e

\* While a mutation, a fork or an admission has the session, no run is active
\* in it, whichever lease the runs of other processes were created under.
ReservationExcludesRun ==
    row.state = "active" /\ row.purpose \in {"admission", "mutation", "fork"} => ActiveRuns = {}

\* An active lease that names a run never stands beside another active run:
\* binding, retrying and recovering cannot leave two runs under one lease.
BoundToActiveRun ==
    row.state = "active" /\ row.run # NoRun => ActiveRuns \subseteq {row.run}

\* A held lease has one reference per holder that will still drop one: the guard
\* and the Runtime (acquire, RetainRuntimeLease, release).
RefsCountHolders ==
    \A e \in LeaseId : handle[e].state = "held" =>
        handle[e].refs = (IF mutex[handle[e].owner] = e THEN 1 ELSE 0)
                         + (IF e \in retained THEN 1 ELSE 0)

\* "Our own still-live lease ... must never be displaced by same-process recovery
\* or admission": a lease its process still counts on gives way only to another
\* process and only after it expired (acquireRuntimeLeaseWithOptionsContext).
LiveLeaseNotDisplaced ==
    [][row'.epoch # row.epoch /\ row.state = "active" /\ Claimed(row.epoch)
         => row'.owner # row.owner /\ row.ttl = 0]_vars

\* The protocol implements the abstract fenced grant: grants are the epochs, and a
\* process counts on those it acquired and has neither released nor found lost.
Fenced == INSTANCE FencedGrant WITH
    token <- row.epoch, owner <- row.owner, valid <- row.state = "active",
    fresh <- row.ttl > 0, claims <- {e \in LeaseId : Claimed(e)}, MaxToken <- MaxEpoch

\* Every step of the lease protocol is a step of the fenced grant or none of it.
ImplementsFencedGrant == Fenced!Spec

\* A lease nobody counts on any more (released without reaching the database, or
\* of a dead process) expires or is replaced, and no heartbeat revives it for ever.
AbandonedLeaseLapses ==
    \A e \in LeaseId : RowHeldBy(e) /\ ~Claimed(e) ~> [](RowHeldBy(e) => row.ttl = 0)
=============================================================================
