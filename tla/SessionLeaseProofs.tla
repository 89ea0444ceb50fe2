-------------------------- MODULE SessionLeaseProofs --------------------------
(***************************************************************************)
(* Machine-checked proofs about SessionLease, for every set of processes   *)
(* and runs, every time to live and every bound on the epochs.             *)
(***************************************************************************)
EXTENDS SessionLease, TLAPS

(***************************************************************************)
(* What makes the properties inductive.                                    *)
(***************************************************************************)

\* Epochs above the row's are unused, those up to it were acquired by a process.
EpochsUsed ==
    \A e \in LeaseId : IF e <= row.epoch
                       THEN handle[e].state # "none" /\ handle[e].owner \in Process
                       ELSE handle[e] = NoHandle /\ e \notin retained

\* The row names the acquisition it came from.
RowNamesHandle ==
    IF row.epoch = NoLease THEN row.state = "absent"
    ELSE row.state # "absent" /\ row.owner = handle[row.epoch].owner

\* Only held leases of one's own are registered.
RegisteredIsHeld ==
    \A p \in Process : registry[p] # NoLease =>
        /\ registry[p] \in LeaseId
        /\ handle[registry[p]].owner = p /\ handle[registry[p]].state = "held"

\* The mutex belongs to the guard of the process's latest acquisition.
MutexIsLatest ==
    \A p \in Process : mutex[p] # NoLease =>
        /\ mutex[p] \in LeaseId
        /\ handle[mutex[p]].owner = p
        /\ handle[mutex[p]].state \in {"acquired", "held", "releasing", "lost"}
        /\ \A e \in LeaseId : e > mutex[p] => handle[e].owner # p

\* Between commit and registration the mutex keeps other acquirers out.
AcquiredIsGuarded ==
    \A e \in LeaseId : handle[e].state = "acquired" =>
        mutex[handle[e].owner] = e /\ handle[e].refs = 1 /\ e \notin retained

\* References exist exactly while the lease is counted on.
RefsWhileClaimed ==
    \A e \in LeaseId : (handle[e].refs = 0) <=> ~Claimed(e)

\* What relates the row, the handles, the registries, the mutexes and the references.
LeaseInv ==
    /\ EpochsUsed /\ RowNamesHandle
    /\ RegisteredIsHeld /\ MutexIsLatest /\ AcquiredIsGuarded
    /\ RefsWhileClaimed /\ RefsCountHolders
    /\ LostMeansDisplaced /\ TombstoneMeansGivenUp /\ HolderRegistered

\* What relates the row to the runs.
RunInv == ReservationExcludesRun /\ BoundToActiveRun

IInv == TypeOK /\ LeaseInv /\ RunInv

-----------------------------------------------------------------------------
(* What steps of several actions have in common. *)

\* The lease invariants read nothing but these variables.
LEMMA LeaseInvUnchanged ==
    ASSUME LeaseInv, UNCHANGED <<row, handle, registry, mutex, retained>>
    PROVE  LeaseInv'
BY DEF LeaseInv, EpochsUsed, RowNamesHandle, RegisteredIsHeld, MutexIsLatest, AcquiredIsGuarded,
       RefsWhileClaimed, Claimed, RefsCountHolders, LostMeansDisplaced, RowHeldBy,
       TombstoneMeansGivenUp, HolderRegistered

\* Runs only end: the run invariants survive.
LEMMA RunInvShrinks ==
    ASSUME RunInv, UNCHANGED row, ActiveRuns' \subseteq ActiveRuns
    PROVE  RunInv'
BY DEF RunInv, ReservationExcludesRun, BoundToActiveRun

\* Writing the row's expiry disturbs nothing.
LEMMA ExpiryOnly ==
    ASSUME IInv, NEW t \in 0 .. TTL, row' = [row EXCEPT !.ttl = t],
           UNCHANGED <<handle, registry, mutex, retained, runStatus, up>>,
           snapshot' \in [Process -> 0 .. MaxEpoch]
    PROVE  IInv'
<1>1. /\ row' \in Row
      /\ row'.epoch = row.epoch /\ row'.owner = row.owner /\ row'.state = row.state
      /\ row'.purpose = row.purpose /\ row'.run = row.run
    BY LeaseAssumption DEF IInv, TypeOK, Row
<1>2. TypeOK'
    BY <1>1 DEF IInv, TypeOK
<1>3. LeaseInv'
    BY <1>1 DEF IInv, LeaseInv, EpochsUsed, RowNamesHandle, RegisteredIsHeld, MutexIsLatest,
       AcquiredIsGuarded, RefsWhileClaimed, Claimed, RefsCountHolders, LostMeansDisplaced,
       RowHeldBy, TombstoneMeansGivenUp, HolderRegistered
<1>4. RunInv'
    BY <1>1 DEF IInv, RunInv, ReservationExcludesRun, BoundToActiveRun, ActiveRuns
<1> QED
    BY <1>2, <1>3, <1>4 DEF IInv

\* A handle that changes to another of the same type leaves the handles well typed.
LEMMA HandleTyped ==
    ASSUME TypeOK, NEW e \in LeaseId, NEW h \in Handle, handle' = [handle EXCEPT ![e] = h]
    PROVE  /\ handle' \in [LeaseId -> Handle]
           /\ handle'[e] = h
           /\ \A x \in LeaseId : x # e => handle'[x] = handle[x]
BY DEF TypeOK

\* A held lease is given up, or found lost once its row is no longer its own.
LEMMA HandleDropped ==
    ASSUME IInv, NEW e \in LeaseId, NEW h \in Handle,
           handle[e].state = "held",
           h.state \in {"releasing", "lost"}, h.state # "releasing" => ~RowHeldBy(e),
           h.owner = handle[e].owner, h.refs = 0,
           handle' = [handle EXCEPT ![e] = h],
           registry' = Forget(handle[e].owner, e),
           retained \ {e} \subseteq retained', retained' \subseteq retained,
           UNCHANGED <<row, mutex, runStatus, up>>, snapshot' \in [Process -> 0 .. MaxEpoch]
    PROVE  IInv'
<1>1. /\ handle' \in [LeaseId -> Handle] /\ handle'[e] = h
      /\ \A x \in LeaseId : x # e => handle'[x] = handle[x]
    BY HandleTyped DEF IInv
<1>2. /\ handle[e].owner \in Process /\ e <= row.epoch /\ row.epoch \in 0 .. MaxEpoch
      /\ row.epoch # NoLease
    BY DEF IInv, TypeOK, Row, LeaseInv, EpochsUsed, NoHandle, LeaseId, NoLease
<1>3. /\ registry' \in [Process -> 0 .. MaxEpoch]
      /\ \A p \in Process : /\ registry'[p] \in {registry[p], NoLease}
                            /\ registry[p] # e => registry'[p] = registry[p]
                            /\ registry'[p] # e
    <2>1. \A p \in Process : registry[p] = e => p = handle[e].owner
        BY <1>2 DEF IInv, LeaseInv, RegisteredIsHeld, LeaseId, NoLease
    <2>2. CASE registry[handle[e].owner] = e
        BY <1>2, <2>1, <2>2, LeaseAssumption DEF IInv, TypeOK, Forget, LeaseId, NoLease
    <2>3. CASE registry[handle[e].owner] # e
        BY <1>2, <2>1, <2>3 DEF IInv, TypeOK, Forget
    <2> QED
        BY <2>2, <2>3
<1>4. \A x \in LeaseId : handle'[x].owner = handle[x].owner
    BY <1>1
<1>5. TypeOK'
    BY <1>1, <1>3 DEF IInv, TypeOK
<1>6. EpochsUsed'
    BY <1>1, <1>2, <1>4 DEF IInv, LeaseInv, EpochsUsed
<1>7. RowNamesHandle'
    BY <1>2, <1>4 DEF IInv, LeaseInv, RowNamesHandle, LeaseId, NoLease
<1>8. RegisteredIsHeld'
    BY <1>1, <1>3 DEF IInv, LeaseInv, RegisteredIsHeld
<1>9. MutexIsLatest' /\ AcquiredIsGuarded'
    BY <1>1, <1>4 DEF IInv, LeaseInv, MutexIsLatest, AcquiredIsGuarded
<1>10. RefsWhileClaimed' /\ RefsCountHolders'
    BY <1>1 DEF IInv, LeaseInv, RefsWhileClaimed, Claimed, RefsCountHolders
<1>11. LostMeansDisplaced'
    BY <1>1 DEF IInv, LeaseInv, LostMeansDisplaced, RowHeldBy
<1>12. TombstoneMeansGivenUp'
    <2>1. row.state = "released" => row.epoch # e
        BY DEF IInv, LeaseInv, TombstoneMeansGivenUp
    <2> QED
        BY <1>1, <1>2, <2>1 DEF IInv, LeaseInv, TombstoneMeansGivenUp, LeaseId, NoLease
<1>13. HolderRegistered'
    <2> SUFFICES ASSUME NEW x \in LeaseId, handle'[x].state = "held", RowHeldBy(x)'
                 PROVE  registry'[handle'[x].owner] = x
        BY DEF HolderRegistered
    <2>1. x # e /\ handle'[x] = handle[x] /\ handle[x].owner \in Process
        BY <1>1 DEF IInv, LeaseInv, EpochsUsed, RowHeldBy, LeaseId
    <2>2. registry[handle[x].owner] = x
        BY <2>1 DEF IInv, LeaseInv, HolderRegistered, RowHeldBy
    <2> QED
        BY <2>1, <2>2, <1>3
<1>14. RunInv'
    BY RunInvShrinks DEF IInv, ActiveRuns
<1> QED
    BY <1>5, <1>6, <1>7, <1>8, <1>9, <1>10, <1>11, <1>12, <1>13, <1>14 DEF IInv, LeaseInv

\* One of two references is dropped: the guard's, freeing the mutex, or the Runtime's.
LEMMA ReferenceDropped ==
    ASSUME IInv, NEW e \in LeaseId, NEW h \in Handle,
           handle[e].state = "held", handle[e].refs = 2,
           h.state = "held", h.owner = handle[e].owner, h.refs = 1,
           handle' = [handle EXCEPT ![e] = h],
           \/ UNCHANGED retained /\ mutex' = [mutex EXCEPT ![handle[e].owner] = NoLease]
           \/ retained' = retained \ {e} /\ UNCHANGED mutex,
           UNCHANGED <<row, registry, snapshot, runStatus, up>>
    PROVE  IInv'
<1>1. /\ handle[e].owner \in Process
      /\ mutex[handle[e].owner] = e /\ e \in retained
    BY DEF IInv, LeaseInv, EpochsUsed, NoHandle, RefsCountHolders
<1>2. /\ handle' \in [LeaseId -> Handle] /\ handle'[e] = h
      /\ \A x \in LeaseId : x # e => handle'[x] = handle[x]
    BY HandleTyped DEF IInv
<1>3. \A x \in LeaseId : handle'[x].owner = handle[x].owner /\ handle'[x].state = handle[x].state
    BY <1>2
<1>4. /\ mutex' \in [Process -> 0 .. MaxEpoch]
      /\ \A p \in Process : mutex'[p] \in {mutex[p], NoLease} /\ (mutex[p] # e => mutex'[p] = mutex[p])
    BY <1>1, LeaseAssumption DEF IInv, TypeOK, NoLease
<1>5. /\ retained' \subseteq retained
      /\ \A x \in LeaseId : x # e => (x \in retained' <=> x \in retained)
    OBVIOUS
<1>6. \/ mutex'[handle[e].owner] = e /\ e \notin retained'
      \/ mutex'[handle[e].owner] # e /\ e \in retained'
    BY <1>1 DEF IInv, TypeOK, LeaseId, NoLease
<1>7. TypeOK'
    BY <1>2, <1>4, <1>5 DEF IInv, TypeOK
<1>8. EpochsUsed'
    BY <1>2, <1>3, <1>5 DEF IInv, LeaseInv, EpochsUsed, NoHandle
<1>9. RowNamesHandle'
    BY <1>3 DEF IInv, TypeOK, Row, LeaseInv, RowNamesHandle, LeaseId, NoLease
<1>10. TombstoneMeansGivenUp'
    BY <1>2 DEF IInv, TypeOK, Row, LeaseInv, RowNamesHandle, TombstoneMeansGivenUp, LeaseId, NoLease
<1>11. RegisteredIsHeld'
    BY <1>3 DEF IInv, LeaseInv, RegisteredIsHeld
<1>12. MutexIsLatest'
    BY <1>3, <1>4 DEF IInv, LeaseInv, MutexIsLatest
<1>13. AcquiredIsGuarded'
    <2> SUFFICES ASSUME NEW x \in LeaseId, handle'[x].state = "acquired"
                 PROVE  mutex'[handle'[x].owner] = x /\ handle'[x].refs = 1 /\ x \notin retained'
        BY DEF AcquiredIsGuarded
    <2>1. x # e /\ handle'[x] = handle[x] /\ handle[x].owner \in Process
        BY <1>2 DEF IInv, LeaseInv, EpochsUsed, NoHandle
    <2> QED
        BY <2>1, <1>4, <1>5 DEF IInv, LeaseInv, AcquiredIsGuarded
<1>14. RefsWhileClaimed'
    BY <1>2 DEF IInv, LeaseInv, RefsWhileClaimed, Claimed
<1>15. RefsCountHolders'
    <2> SUFFICES ASSUME NEW x \in LeaseId, handle'[x].state = "held"
                 PROVE  handle'[x].refs = (IF mutex'[handle'[x].owner] = x THEN 1 ELSE 0)
                                          + (IF x \in retained' THEN 1 ELSE 0)
        BY DEF RefsCountHolders
    <2>1. CASE x = e
        BY <2>1, <1>2, <1>6
    <2>2. CASE x # e
        <3>1. handle'[x] = handle[x] /\ handle[x].owner \in Process
            BY <2>2, <1>2 DEF IInv, LeaseInv, EpochsUsed, NoHandle
        <3>2. mutex'[handle[x].owner] = x <=> mutex[handle[x].owner] = x
            BY <3>1, <2>2, <1>4 DEF NoLease, LeaseId
        <3> QED
            BY <3>1, <3>2, <2>2, <1>5 DEF IInv, LeaseInv, RefsCountHolders
    <2> QED
        BY <2>1, <2>2
<1>16. LostMeansDisplaced' /\ HolderRegistered'
    BY <1>3 DEF IInv, LeaseInv, LostMeansDisplaced, RowHeldBy, HolderRegistered
<1>17. RunInv'
    BY RunInvShrinks DEF IInv, ActiveRuns
<1> QED
    BY <1>7, <1>8, <1>9, <1>10, <1>11, <1>12, <1>13, <1>14, <1>15, <1>16, <1>17 DEF IInv, LeaseInv

\* A step that writes neither lease state nor runs, such as taking a snapshot.
LEMMA SnapshotOnly ==
    ASSUME IInv, UNCHANGED <<row, handle, registry, mutex, retained, runStatus, up>>,
           snapshot' \in [Process -> 0 .. MaxEpoch]
    PROVE  IInv'
<1>1. TypeOK'
    BY DEF IInv, TypeOK
<1>2. LeaseInv'
    BY LeaseInvUnchanged DEF IInv
<1>3. RunInv'
    BY RunInvShrinks DEF IInv, ActiveRuns
<1> QED
    BY <1>1, <1>2, <1>3 DEF IInv

\* A run ends: nothing else changes.
LEMMA RunEnds ==
    ASSUME IInv, NEW r \in Run, runStatus' = [runStatus EXCEPT ![r] = "terminal"],
           UNCHANGED <<row, handle, registry, mutex, snapshot, retained, up>>
    PROVE  IInv'
<1>1. TypeOK'
    BY DEF IInv, TypeOK
<1>2. LeaseInv'
    BY LeaseInvUnchanged DEF IInv
<1>3. RunInv'
    <2>1. ActiveRuns' \subseteq ActiveRuns
        BY DEF IInv, TypeOK, ActiveRuns
    <2> QED
        BY <2>1, RunInvShrinks DEF IInv
<1> QED
    BY <1>1, <1>2, <1>3 DEF IInv

-----------------------------------------------------------------------------
(* One lemma per action that needs more than the lemmas above. *)

\* A new acquisition: its epoch is fresh, so nothing names it yet, and the row it takes
\* over belongs to a lease its own process no longer counts on.
LEMMA AcquireStep ==
    ASSUME IInv, NEW p \in Process, NEW purpose \in Purpose, NEW r \in Run \cup {NoRun},
           Acquire(p, purpose, r)
    PROVE  IInv'
<1> DEFINE e == row.epoch + 1
           h == [owner |-> p, purpose |-> purpose, run |-> r, bound |-> NoRun,
                 state |-> "acquired", refs |-> 1]
<1>1. /\ e \in LeaseId /\ row.epoch \in 0 .. MaxEpoch
      /\ handle[e] = NoHandle /\ e \notin retained
      /\ mutex[p] = NoLease
      /\ row.state = "active" /\ row.owner = p => ~LiveLocally(p)
    BY DEF IInv, TypeOK, Row, LeaseInv, EpochsUsed, Acquire, RowFree, LeaseId
<1>2. /\ h \in Handle /\ h.owner = p /\ h.state = "acquired" /\ h.refs = 1
      /\ handle' = [handle EXCEPT ![e] = h]
    BY LeaseAssumption DEF Acquire, Handle, HandleState, LeasePurpose
<1> HIDE DEF h
<1>3. /\ handle' \in [LeaseId -> Handle] /\ handle'[e] = h
      /\ \A x \in LeaseId : x # e => handle'[x] = handle[x]
    BY <1>1, <1>2, HandleTyped DEF IInv
<1>4. /\ row' \in Row
      /\ row'.epoch = e /\ row'.owner = p /\ row'.state = "active"
      /\ row'.purpose = purpose /\ row'.run = r
    BY <1>1, LeaseAssumption DEF Acquire, Row, LeasePurpose, LeaseId
<1>5. /\ mutex' \in [Process -> 0 .. MaxEpoch] /\ mutex'[p] = e
      /\ \A q \in Process : q # p => mutex'[q] = mutex[q]
    BY <1>1 DEF IInv, TypeOK, Acquire, LeaseId
<1>6. UNCHANGED <<registry, snapshot, retained, runStatus, up>>
    BY DEF Acquire
<1>7. TypeOK'
    BY <1>3, <1>4, <1>5, <1>6 DEF IInv, TypeOK
<1>8. EpochsUsed' /\ RowNamesHandle'
    BY <1>1, <1>2, <1>3, <1>4, <1>6 DEF IInv, LeaseInv, EpochsUsed, RowNamesHandle, LeaseId, NoLease
<1>9. RegisteredIsHeld'
    BY <1>1, <1>3, <1>6 DEF IInv, LeaseInv, RegisteredIsHeld, NoHandle
<1>10. MutexIsLatest'
    <2> SUFFICES ASSUME NEW q \in Process, mutex'[q] # NoLease
                 PROVE  /\ mutex'[q] \in LeaseId /\ handle'[mutex'[q]].owner = q
                        /\ handle'[mutex'[q]].state \in {"acquired", "held", "releasing", "lost"}
                        /\ \A x \in LeaseId : x > mutex'[q] => handle'[x].owner # q
        BY DEF MutexIsLatest
    <2>1. CASE q = p
        <3>1. \A x \in LeaseId : x > e => handle'[x].owner = NoProcess
            BY <1>1, <1>3 DEF IInv, LeaseInv, EpochsUsed, NoHandle, LeaseId
        <3> QED
            BY <2>1, <3>1, <1>1, <1>2, <1>3, <1>5, LeaseAssumption
    <2>2. CASE q # p
        <3>1. mutex[q] # NoLease /\ mutex'[q] = mutex[q] /\ handle[mutex[q]].owner = q
            BY <2>2, <1>5 DEF IInv, LeaseInv, MutexIsLatest
        <3>2. mutex[q] # e
            BY <3>1, <1>1, LeaseAssumption DEF NoHandle
        <3> QED
            BY <2>2, <3>1, <3>2, <1>2, <1>3 DEF IInv, LeaseInv, MutexIsLatest
    <2> QED
        BY <2>1, <2>2
<1>11. AcquiredIsGuarded'
    <2> SUFFICES ASSUME NEW x \in LeaseId, handle'[x].state = "acquired"
                 PROVE  mutex'[handle'[x].owner] = x /\ handle'[x].refs = 1 /\ x \notin retained'
        BY DEF AcquiredIsGuarded
    <2>1. CASE x = e
        BY <2>1, <1>1, <1>2, <1>3, <1>5, <1>6
    <2>2. CASE x # e
        <3>1. handle'[x] = handle[x] /\ handle[x].owner \in Process
            BY <2>2, <1>3 DEF IInv, LeaseInv, EpochsUsed, NoHandle
        <3>2. mutex[handle[x].owner] = x /\ handle[x].refs = 1 /\ x \notin retained
            BY <3>1 DEF IInv, LeaseInv, AcquiredIsGuarded
        <3>3. handle[x].owner # p
            BY <3>2, <1>1 DEF LeaseId, NoLease
        <3> QED
            BY <3>1, <3>2, <3>3, <1>5, <1>6
    <2> QED
        BY <2>1, <2>2
<1>12. RefsWhileClaimed'
    BY <1>1, <1>2, <1>3 DEF IInv, LeaseInv, RefsWhileClaimed, Claimed
<1>13. RefsCountHolders'
    <2> SUFFICES ASSUME NEW x \in LeaseId, handle'[x].state = "held"
                 PROVE  handle'[x].refs = (IF mutex'[handle'[x].owner] = x THEN 1 ELSE 0)
                                          + (IF x \in retained' THEN 1 ELSE 0)
        BY DEF RefsCountHolders
    <2>1. x # e /\ handle'[x] = handle[x] /\ handle[x].owner \in Process
        BY <1>2, <1>3 DEF IInv, LeaseInv, EpochsUsed, NoHandle
    <2>2. mutex'[handle[x].owner] = x <=> mutex[handle[x].owner] = x
        BY <2>1, <1>1, <1>5 DEF NoLease, LeaseId
    <2> QED
        BY <2>1, <2>2, <1>6 DEF IInv, LeaseInv, RefsCountHolders
<1>14. LostMeansDisplaced' /\ TombstoneMeansGivenUp'
    BY <1>1, <1>2, <1>3, <1>4 DEF IInv, LeaseInv, EpochsUsed, LostMeansDisplaced,
       TombstoneMeansGivenUp, RowHeldBy, LeaseId
<1>15. HolderRegistered'
    BY <1>1, <1>2, <1>3, <1>4 DEF IInv, LeaseInv, HolderRegistered, RowHeldBy
<1>16. RunInv'
    BY <1>4 DEF Acquire, ModeAllows, IInv, RunInv, ReservationExcludesRun, BoundToActiveRun,
       ActiveRuns
<1> QED
    BY <1>7, <1>8, <1>9, <1>10, <1>11, <1>12, <1>13, <1>14, <1>15, <1>16 DEF IInv, LeaseInv

\* Registering the acquired lease: it is the one the row names, or a displaced one.
LEMMA RememberStep ==
    ASSUME IInv, NEW p \in Process, Remember(p)
    PROVE  IInv'
<1> DEFINE e == mutex[p]
           h == [handle[e] EXCEPT !.state = "held"]
<1>1. /\ e \in LeaseId /\ handle[e].owner = p /\ handle[e].state = "acquired"
      /\ \A x \in LeaseId : x > e => handle[x].owner # p
      /\ handle[e].refs = 1 /\ e \notin retained
    BY DEF Remember, IInv, LeaseInv, MutexIsLatest, AcquiredIsGuarded
<1>2. h \in Handle /\ h.owner = p /\ h.state = "held" /\ h.refs = 1
    BY <1>1 DEF IInv, TypeOK, Handle, HandleState
<1>3. handle' = [handle EXCEPT ![e] = h]
    BY DEF Remember, IInv, TypeOK
<1> HIDE DEF h
<1>4. /\ handle' \in [LeaseId -> Handle] /\ handle'[e] = h
      /\ \A x \in LeaseId : x # e => handle'[x] = handle[x]
    BY <1>1, <1>2, <1>3, HandleTyped DEF IInv
<1>5. /\ registry' \in [Process -> 0 .. MaxEpoch] /\ registry'[p] = e
      /\ \A q \in Process : q # p => registry'[q] = registry[q]
      /\ UNCHANGED <<row, mutex, snapshot, retained, runStatus, up>>
    BY <1>1 DEF IInv, TypeOK, Remember, LeaseId
<1>6. /\ row.epoch \in 0 .. MaxEpoch
      /\ \A x \in LeaseId : handle'[x].owner = handle[x].owner
    BY <1>1, <1>2, <1>4 DEF IInv, TypeOK, Row
<1>7. TypeOK'
    BY <1>4, <1>5 DEF IInv, TypeOK
<1>8. EpochsUsed' /\ RowNamesHandle'
    BY <1>1, <1>2, <1>4, <1>5, <1>6 DEF IInv, LeaseInv, EpochsUsed, RowNamesHandle, NoHandle,
       LeaseId, NoLease
<1>9. RegisteredIsHeld'
    BY <1>1, <1>2, <1>4, <1>5 DEF IInv, LeaseInv, RegisteredIsHeld
<1>10. MutexIsLatest' /\ AcquiredIsGuarded'
    BY <1>2, <1>4, <1>5, <1>6 DEF IInv, LeaseInv, MutexIsLatest, AcquiredIsGuarded
<1>11. RefsWhileClaimed'
    BY <1>2, <1>4, <1>1 DEF IInv, LeaseInv, RefsWhileClaimed, Claimed
<1>12. RefsCountHolders'
    BY <1>1, <1>2, <1>4, <1>5 DEF IInv, LeaseInv, RefsCountHolders
<1>13. LostMeansDisplaced' /\ TombstoneMeansGivenUp'
    BY <1>1, <1>2, <1>4, <1>5, <1>6 DEF IInv, LeaseInv, LostMeansDisplaced, RowNamesHandle,
       TombstoneMeansGivenUp, RowHeldBy, LeaseId, NoLease
<1>14. HolderRegistered'
    <2> SUFFICES ASSUME NEW x \in LeaseId, handle'[x].state = "held", RowHeldBy(x)'
                 PROVE  registry'[handle'[x].owner] = x
        BY DEF HolderRegistered
    <2>1. CASE x = e
        BY <2>1, <1>2, <1>4, <1>5
    <2>2. CASE x # e
        <3>1. /\ handle'[x] = handle[x] /\ row.epoch = x /\ row.state = "active"
              /\ e <= row.epoch /\ handle[x].owner \in Process
            BY <2>2, <1>1, <1>4, <1>5 DEF IInv, LeaseInv, EpochsUsed, RowHeldBy, NoHandle
        <3>2. handle[x].owner # p
            BY <3>1, <2>2, <1>1 DEF LeaseId
        <3> QED
            BY <3>1, <3>2, <1>5 DEF IInv, LeaseInv, HolderRegistered, RowHeldBy
    <2> QED
        BY <2>1, <2>2
<1>15. RunInv'
    BY <1>5, RunInvShrinks DEF IInv, ActiveRuns
<1> QED
    BY <1>7, <1>8, <1>9, <1>10, <1>11, <1>12, <1>13, <1>14, <1>15 DEF IInv, LeaseInv

\* Binding a lease to a run relabels its row and its handle, and nothing else about them.
LEMMA Relabelled ==
    ASSUME IInv, NEW e \in LeaseId, NEW h \in Handle,
           h.owner = handle[e].owner, h.state = handle[e].state, h.refs = handle[e].refs,
           handle[e].state # "none",
           handle' = [handle EXCEPT ![e] = h],
           row' \in Row, row'.epoch = row.epoch, row'.owner = row.owner, row'.state = row.state,
           UNCHANGED <<registry, mutex, retained>>
    PROVE  LeaseInv' /\ handle' \in [LeaseId -> Handle]
<1>1. /\ handle' \in [LeaseId -> Handle] /\ handle'[e] = h
      /\ \A x \in LeaseId : x # e => handle'[x] = handle[x]
    BY HandleTyped DEF IInv
<1>2. \A x \in LeaseId : /\ handle'[x].owner = handle[x].owner /\ handle'[x].state = handle[x].state
                         /\ handle'[x].refs = handle[x].refs
    BY <1>1
<1>3. EpochsUsed'
    BY <1>1, <1>2 DEF IInv, LeaseInv, EpochsUsed, NoHandle
<1>4. RowNamesHandle' /\ TombstoneMeansGivenUp'
    BY <1>2 DEF IInv, TypeOK, Row, LeaseInv, RowNamesHandle, TombstoneMeansGivenUp, LeaseId, NoLease
<1>5. RegisteredIsHeld' /\ MutexIsLatest' /\ AcquiredIsGuarded'
    BY <1>2 DEF IInv, LeaseInv, RegisteredIsHeld, MutexIsLatest, AcquiredIsGuarded
<1>6. RefsWhileClaimed' /\ RefsCountHolders'
    BY <1>2 DEF IInv, LeaseInv, RefsWhileClaimed, Claimed, RefsCountHolders
<1>7. LostMeansDisplaced' /\ HolderRegistered'
    BY <1>2 DEF IInv, LeaseInv, LostMeansDisplaced, RowHeldBy, HolderRegistered
<1> QED
    BY <1>1, <1>3, <1>4, <1>5, <1>6, <1>7 DEF LeaseInv

\* The relabelling that binding the registered lease to r performs.
LEMMA BindRelabels ==
    ASSUME IInv, NEW p \in Process, NEW r \in Run, CanBind(p, r), Bind(p, r),
           UNCHANGED <<registry, mutex, retained>>
    PROVE  /\ LeaseInv' /\ handle' \in [LeaseId -> Handle] /\ row' \in Row
           /\ row'.state = row.state /\ row'.run = r /\ row'.purpose = "execution"
<1> DEFINE e == registry[p]
           h == [handle[e] EXCEPT !.bound = r]
<1>1. e \in LeaseId /\ handle[e].state = "held"
    BY DEF CanBind, IInv, LeaseInv, RegisteredIsHeld
<1>2. /\ h \in Handle /\ h.owner = handle[e].owner /\ h.state = handle[e].state
      /\ h.refs = handle[e].refs
    BY <1>1 DEF IInv, TypeOK, Handle
<1>3. handle' = [handle EXCEPT ![e] = h]
    BY DEF Bind, IInv, TypeOK
<1>4. /\ row' \in Row /\ row'.epoch = row.epoch /\ row'.owner = row.owner /\ row'.state = row.state
      /\ row'.run = r /\ row'.purpose = "execution"
    BY DEF Bind, IInv, TypeOK, Row, LeasePurpose
<1> HIDE DEF h
<1> QED
    BY <1>1, <1>2, <1>3, <1>4, Relabelled

\* Creating a run, bound to the registered lease or before any lease row exists.
LEMMA CreateRunStep ==
    ASSUME IInv, NEW p \in Process, NEW r \in Run, CreateRun(p, r)
    PROVE  IInv'
<1>1. /\ runStatus' \in [Run -> {"absent", "active", "terminal"}]
      /\ ActiveRuns' = {r}
    BY DEF CreateRun, IInv, TypeOK, ActiveRuns
<1>2. UNCHANGED <<registry, mutex, snapshot, retained, up>>
    BY DEF CreateRun
<1>3. CASE CanBind(p, r) /\ Bind(p, r)
    <2>1. /\ LeaseInv' /\ handle' \in [LeaseId -> Handle] /\ row' \in Row
          /\ row'.run = r /\ row'.purpose = "execution"
        BY <1>2, <1>3, BindRelabels
    <2>2. TypeOK'
        BY <1>1, <1>2, <2>1 DEF IInv, TypeOK
    <2>3. RunInv'
        BY <1>1, <2>1 DEF RunInv, ReservationExcludesRun, BoundToActiveRun
    <2> QED
        BY <2>1, <2>2, <2>3 DEF IInv
<1>4. CASE row.state = "absent" /\ UNCHANGED <<row, handle>>
    <2>1. LeaseInv'
        BY <1>2, <1>4, LeaseInvUnchanged DEF IInv
    <2>2. TypeOK'
        BY <1>1, <1>2, <1>4 DEF IInv, TypeOK
    <2>3. RunInv'
        BY <1>4 DEF RunInv, ReservationExcludesRun, BoundToActiveRun
    <2> QED
        BY <2>1, <2>2, <2>3 DEF IInv
<1> QED
    BY <1>3, <1>4 DEF CreateRun

\* Rebinding a reattached run changes labels only.
LEMMA BindExistingStep ==
    ASSUME IInv, NEW p \in Process, NEW r \in Run, BindExisting(p, r)
    PROVE  IInv'
<1>1. /\ UNCHANGED <<registry, mutex, snapshot, retained, runStatus, up>>
      /\ CanBind(p, r) /\ Bind(p, r) /\ ActiveRuns = {r}
    BY DEF BindExisting
<1>2. /\ LeaseInv' /\ handle' \in [LeaseId -> Handle] /\ row' \in Row
      /\ row'.run = r /\ row'.purpose = "execution"
    BY <1>1, BindRelabels
<1>3. TypeOK'
    BY <1>1, <1>2 DEF IInv, TypeOK
<1>4. RunInv'
    BY <1>1, <1>2 DEF RunInv, ReservationExcludesRun, BoundToActiveRun, ActiveRuns
<1> QED
    BY <1>2, <1>3, <1>4 DEF IInv

\* The handle catches up with the binding that was committed to the row.
LEMMA MarkBoundStep ==
    ASSUME IInv, NEW e \in LeaseId, MarkBound(e)
    PROVE  IInv'
<1> DEFINE h == [handle[e] EXCEPT !.run = handle[e].bound, !.purpose = "execution", !.bound = NoRun]
<1>1. /\ h \in Handle /\ h.owner = handle[e].owner /\ h.state = handle[e].state
      /\ h.refs = handle[e].refs
    BY DEF IInv, TypeOK, Handle, LeasePurpose
<1>2. handle' = [handle EXCEPT ![e] = h]
    BY DEF MarkBound, IInv, TypeOK
<1>3. handle[e].state # "none"
    BY DEF MarkBound, IInv, LeaseInv, EpochsUsed, NoHandle
<1>4. UNCHANGED <<row, registry, mutex, snapshot, retained, runStatus, up>>
    BY DEF MarkBound
<1> HIDE DEF h
<1>5. LeaseInv' /\ handle' \in [LeaseId -> Handle]
    BY <1>1, <1>2, <1>3, <1>4, Relabelled DEF IInv, TypeOK
<1>6. TypeOK'
    BY <1>4, <1>5 DEF IInv, TypeOK
<1>7. RunInv'
    BY <1>4, RunInvShrinks DEF IInv, ActiveRuns
<1> QED
    BY <1>5, <1>6, <1>7 DEF IInv

\* The Runtime takes the second of the two references.
LEMMA RetainStep ==
    ASSUME IInv, NEW p \in Process, NEW r \in Run, Retain(p, r)
    PROVE  IInv'
<1> DEFINE e == registry[p]
           h == [handle[e] EXCEPT !.refs = @ + 1]
<1>1. /\ e \in LeaseId /\ e \notin retained /\ handle[e].state = "held"
      /\ handle[e].owner \in Process /\ handle[e].refs = 1
      /\ mutex[handle[e].owner] = e
    BY DEF Retain, IInv, TypeOK, Handle, LeaseInv, RegisteredIsHeld, RefsWhileClaimed, Claimed,
       RefsCountHolders
<1>2. h \in Handle /\ h.owner = handle[e].owner /\ h.state = "held" /\ h.refs = 2
    BY <1>1 DEF IInv, TypeOK, Handle
<1>3. handle' = [handle EXCEPT ![e] = h]
    BY DEF Retain, IInv, TypeOK
<1> HIDE DEF h
<1>4. /\ handle' \in [LeaseId -> Handle] /\ handle'[e] = h
      /\ \A x \in LeaseId : x # e => handle'[x] = handle[x]
    BY <1>1, <1>2, <1>3, HandleTyped DEF IInv
<1>5. retained' = retained \cup {e} /\ UNCHANGED <<row, registry, mutex, snapshot, runStatus, up>>
    BY DEF Retain
<1>6. \A x \in LeaseId : handle'[x].owner = handle[x].owner /\ handle'[x].state = handle[x].state
    BY <1>1, <1>2, <1>4
<1>7. TypeOK'
    BY <1>1, <1>4, <1>5 DEF IInv, TypeOK
<1>8. EpochsUsed'
    BY <1>1, <1>2, <1>4, <1>5, <1>6 DEF IInv, LeaseInv, EpochsUsed, NoHandle
<1>9. RowNamesHandle' /\ TombstoneMeansGivenUp'
    BY <1>1, <1>4, <1>5, <1>6 DEF IInv, TypeOK, Row, LeaseInv, RowNamesHandle,
       TombstoneMeansGivenUp, LeaseId, NoLease
<1>10. RegisteredIsHeld' /\ MutexIsLatest' /\ LostMeansDisplaced' /\ HolderRegistered'
    BY <1>5, <1>6 DEF IInv, LeaseInv, RegisteredIsHeld, MutexIsLatest, LostMeansDisplaced,
       RowHeldBy, HolderRegistered
<1>11. AcquiredIsGuarded'
    BY <1>1, <1>2, <1>4, <1>5 DEF IInv, LeaseInv, AcquiredIsGuarded
<1>12. RefsWhileClaimed'
    BY <1>2, <1>4 DEF IInv, LeaseInv, RefsWhileClaimed, Claimed
<1>13. RefsCountHolders'
    <2> SUFFICES ASSUME NEW x \in LeaseId, handle'[x].state = "held"
                 PROVE  handle'[x].refs = (IF mutex'[handle'[x].owner] = x THEN 1 ELSE 0)
                                          + (IF x \in retained' THEN 1 ELSE 0)
        BY DEF RefsCountHolders
    <2>1. CASE x = e
        BY <2>1, <1>1, <1>2, <1>4, <1>5
    <2>2. CASE x # e
        BY <2>2, <1>4, <1>5 DEF IInv, LeaseInv, RefsCountHolders
    <2> QED
        BY <2>1, <2>2
<1>14. RunInv'
    BY <1>5, RunInvShrinks DEF IInv, ActiveRuns
<1> QED
    BY <1>7, <1>8, <1>9, <1>10, <1>11, <1>12, <1>13, <1>14 DEF IInv, LeaseInv

\* A holder of a lease that is no longer counted on lets go of it.
LEMMA HolderGone ==
    ASSUME IInv, NEW e \in LeaseId, ~Claimed(e),
           retained \ {e} \subseteq retained', retained' \subseteq retained,
           \/ UNCHANGED mutex
           \/ /\ handle[e].owner \in Process /\ mutex[handle[e].owner] = e
              /\ mutex' = [mutex EXCEPT ![handle[e].owner] = NoLease],
           UNCHANGED <<row, handle, registry, snapshot, runStatus, up>>
    PROVE  IInv'
<1>1. /\ mutex' \in [Process -> 0 .. MaxEpoch]
      /\ \A p \in Process : mutex'[p] \in {mutex[p], NoLease} /\ (mutex[p] # e => mutex'[p] = mutex[p])
    BY LeaseAssumption DEF IInv, TypeOK, NoLease
<1>2. TypeOK'
    BY <1>1 DEF IInv, TypeOK
<1>3. EpochsUsed' /\ RowNamesHandle' /\ RegisteredIsHeld' /\ RefsWhileClaimed'
    BY DEF IInv, LeaseInv, EpochsUsed, RowNamesHandle, RegisteredIsHeld, RefsWhileClaimed, Claimed
<1>4. LostMeansDisplaced' /\ TombstoneMeansGivenUp' /\ HolderRegistered'
    BY DEF IInv, LeaseInv, LostMeansDisplaced, TombstoneMeansGivenUp, HolderRegistered, RowHeldBy
<1>5. MutexIsLatest'
    BY <1>1 DEF IInv, LeaseInv, MutexIsLatest
<1>6. \A x \in LeaseId : Claimed(x) =>
          /\ mutex'[handle[x].owner] = x <=> mutex[handle[x].owner] = x
          /\ x \in retained' <=> x \in retained
    BY <1>1 DEF IInv, LeaseInv, EpochsUsed, NoHandle, Claimed, LeaseId, NoLease
<1>7. AcquiredIsGuarded' /\ RefsCountHolders'
    BY <1>6 DEF IInv, LeaseInv, AcquiredIsGuarded, RefsCountHolders, Claimed
<1>8. RunInv'
    BY RunInvShrinks DEF IInv, ActiveRuns
<1> QED
    BY <1>2, <1>3, <1>4, <1>5, <1>7, <1>8 DEF IInv, LeaseInv

\* What DropReference does to a held lease, by its number of references.
LEMMA DropReferenceCases ==
    ASSUME IInv, NEW e \in LeaseId, handle[e].state = "held", DropReference(e)
    PROVE  \/ /\ LastReference(e) /\ registry' = Forget(handle[e].owner, e)
              /\ \E h \in Handle : /\ h.owner = handle[e].owner /\ h.state = "releasing" /\ h.refs = 0
                                   /\ handle' = [handle EXCEPT ![e] = h]
           \/ /\ ~LastReference(e) /\ handle[e].refs = 2 /\ UNCHANGED registry
              /\ \E h \in Handle : /\ h.owner = handle[e].owner /\ h.state = "held" /\ h.refs = 1
                                   /\ handle' = [handle EXCEPT ![e] = h]
<1>1. handle[e] \in Handle /\ handle[e].refs \in {1, 2}
    BY DEF IInv, TypeOK, Handle, LeaseInv, RefsWhileClaimed, Claimed
<1>2. CASE LastReference(e)
    <2> DEFINE h == [handle[e] EXCEPT !.refs = 0, !.state = "releasing"]
    <2>1. h \in Handle /\ h.owner = handle[e].owner /\ h.state = "releasing" /\ h.refs = 0
        <3>1. \A s \in HandleState, n \in 0 .. 2 :
                  [handle[e] EXCEPT !.refs = n, !.state = s] \in Handle
            BY <1>1 DEF Handle
        <3>2. "releasing" \in HandleState /\ 0 \in 0 .. 2
            BY DEF HandleState
        <3> QED
            BY <1>1, <3>1, <3>2 DEF Handle
    <2>2. handle' = [handle EXCEPT ![e] = h] /\ registry' = Forget(handle[e].owner, e)
        BY <1>2 DEF DropReference, IInv, TypeOK
    <2> HIDE DEF h
    <2> QED
        BY <1>2, <2>1, <2>2
<1>3. CASE ~LastReference(e)
    <2> DEFINE h == [handle[e] EXCEPT !.refs = @ - 1]
    <2>1. handle[e].refs = 2
        BY <1>1, <1>3 DEF LastReference
    <2>2. h \in Handle /\ h.owner = handle[e].owner /\ h.state = "held" /\ h.refs = 1
        BY <1>1, <2>1 DEF Handle
    <2>3. handle' = [handle EXCEPT ![e] = h] /\ UNCHANGED registry
        BY <1>3 DEF DropReference, IInv, TypeOK
    <2> HIDE DEF h
    <2> QED
        BY <1>3, <2>1, <2>2, <2>3
<1> QED
    BY <1>2, <1>3

\* The guard is released: one reference of two, the last one, or none that counts.
LEMMA ReleaseGuardStep ==
    ASSUME IInv, NEW p \in Process, ReleaseGuard(p)
    PROVE  IInv'
<1> DEFINE e == mutex[p]
<1>1. /\ e \in LeaseId /\ handle[e].owner = p
      /\ handle[e].state \in {"held", "lost"}
      /\ DropReference(e)
      /\ UNCHANGED <<row, snapshot, retained, runStatus, up>>
    BY DEF ReleaseGuard, IInv, LeaseInv, MutexIsLatest
<1>2. snapshot' \in [Process -> 0 .. MaxEpoch]
    BY <1>1 DEF IInv, TypeOK
<1>3. CASE handle[e].state = "held" /\ LastReference(e)
    <2>1. PICK h \in Handle : /\ h.owner = handle[e].owner /\ h.state = "releasing" /\ h.refs = 0
                              /\ handle' = [handle EXCEPT ![e] = h]
                              /\ registry' = Forget(handle[e].owner, e)
        BY <1>1, <1>3, DropReferenceCases
    <2>2. UNCHANGED mutex
        BY <1>3 DEF ReleaseGuard
    <2>3. retained \ {e} \subseteq retained' /\ retained' \subseteq retained
        BY <1>1
    <2> QED
        BY <1>1, <1>2, <1>3, <2>1, <2>2, <2>3, HandleDropped
<1>4. CASE handle[e].state = "held" /\ ~LastReference(e)
    <2>1. PICK h \in Handle : /\ h.owner = handle[e].owner /\ h.state = "held" /\ h.refs = 1
                              /\ handle' = [handle EXCEPT ![e] = h]
                              /\ handle[e].refs = 2 /\ UNCHANGED registry
        BY <1>1, <1>4, DropReferenceCases
    <2>2. mutex' = [mutex EXCEPT ![handle[e].owner] = NoLease]
        BY <1>1, <1>4 DEF ReleaseGuard
    <2> QED
        BY <1>1, <1>4, <2>1, <2>2, ReferenceDropped
<1>5. CASE handle[e].state = "lost"
    <2>1. UNCHANGED <<handle, registry>> /\ ~Claimed(e)
        BY <1>1, <1>5 DEF DropReference, Claimed
    <2>2. mutex' = [mutex EXCEPT ![handle[e].owner] = NoLease]
        BY <1>1, <1>5 DEF ReleaseGuard, LastReference
    <2> QED
        BY <1>1, <2>1, <2>2, HolderGone
<1> QED
    BY <1>1, <1>3, <1>4, <1>5

\* The Runtime lets go: one reference of two, the last one, or none that counts.
LEMMA ReleaseRetainedStep ==
    ASSUME IInv, NEW e \in LeaseId, ReleaseRetained(e)
    PROVE  IInv'
<1>1. /\ e \in retained /\ retained' = retained \ {e} /\ DropReference(e)
      /\ UNCHANGED <<row, mutex, snapshot, runStatus, up>>
      /\ snapshot' \in [Process -> 0 .. MaxEpoch]
    BY DEF ReleaseRetained, IInv, TypeOK
<1>2. CASE handle[e].state = "held" /\ LastReference(e)
    <2>1. PICK h \in Handle : /\ h.owner = handle[e].owner /\ h.state = "releasing" /\ h.refs = 0
                              /\ handle' = [handle EXCEPT ![e] = h]
                              /\ registry' = Forget(handle[e].owner, e)
        BY <1>1, <1>2, DropReferenceCases
    <2>2. retained \ {e} \subseteq retained' /\ retained' \subseteq retained
        BY <1>1
    <2> QED
        BY <1>1, <1>2, <2>1, <2>2, HandleDropped
<1>3. CASE handle[e].state = "held" /\ ~LastReference(e)
    <2>1. PICK h \in Handle : /\ h.owner = handle[e].owner /\ h.state = "held" /\ h.refs = 1
                              /\ handle' = [handle EXCEPT ![e] = h]
                              /\ handle[e].refs = 2 /\ UNCHANGED registry
        BY <1>1, <1>3, DropReferenceCases
    <2> QED
        BY <1>1, <1>3, <2>1, ReferenceDropped
<1>4. CASE handle[e].state # "held"
    <2>1. UNCHANGED <<handle, registry>>
        BY <1>1, <1>4 DEF DropReference
    <2>2. ~Claimed(e)
        BY <1>1, <1>4 DEF Claimed, IInv, LeaseInv, AcquiredIsGuarded
    <2> QED
        BY <1>1, <2>1, <2>2, HolderGone
<1> QED
    BY <1>2, <1>3, <1>4

\* The release statement: tombstone of the row, or nothing, then the handle is closed.
LEMMA ReleaseRowStep ==
    ASSUME IInv, NEW e \in LeaseId, ReleaseRow(e)
    PROVE  IInv'
<1> DEFINE h == [handle[e] EXCEPT !.state = "released"]
           p == handle[e].owner
<1>1. /\ handle[e].state = "releasing" /\ p \in Process /\ handle[e].refs = 0
      /\ row.epoch \in 0 .. MaxEpoch
    BY DEF ReleaseRow, IInv, TypeOK, Row, LeaseInv, EpochsUsed, NoHandle, RefsWhileClaimed, Claimed
<1>2. h \in Handle /\ h.owner = p /\ h.state = "released" /\ h.refs = 0
    BY <1>1 DEF IInv, TypeOK, Handle, HandleState
<1>3. handle' = [handle EXCEPT ![e] = h]
    BY DEF ReleaseRow, IInv, TypeOK
<1> HIDE DEF h
<1>4. /\ handle' \in [LeaseId -> Handle] /\ handle'[e] = h
      /\ \A x \in LeaseId : x # e => handle'[x] = handle[x]
    BY <1>2, <1>3, HandleTyped DEF IInv
<1>5. \A x \in LeaseId : handle'[x].owner = handle[x].owner /\ handle'[x].refs = handle[x].refs
    BY <1>1, <1>2, <1>4
<1>6. /\ mutex' \in [Process -> 0 .. MaxEpoch]
      /\ \A q \in Process : /\ mutex'[q] \in {mutex[q], NoLease} /\ mutex'[q] # e
                            /\ mutex[q] # e => mutex'[q] = mutex[q]
    <2>1. \A q \in Process : mutex[q] = e => q = p
        BY DEF IInv, LeaseInv, MutexIsLatest, LeaseId, NoLease
    <2>2. mutex' = IF mutex[p] = e THEN [mutex EXCEPT ![p] = NoLease] ELSE mutex
        BY DEF ReleaseRow
    <2> QED
        BY <2>1, <2>2, <1>1, LeaseAssumption DEF IInv, TypeOK, LeaseId, NoLease
<1>7. UNCHANGED <<registry, snapshot, retained, runStatus, up>>
    BY DEF ReleaseRow
<1>8. /\ row' \in Row /\ row'.epoch = row.epoch /\ row'.owner = row.owner
      /\ row'.purpose = row.purpose /\ row'.run = row.run
      /\ \/ row'.state = row.state
         \/ row.epoch = e /\ row.state = "active" /\ row'.state = "released"
    <2>1. CASE RowHeldBy(e) /\ row' = [row EXCEPT !.state = "released", !.ttl = 0]
        <3>1. \A s \in {"absent", "active", "released"}, t \in 0 .. TTL :
                  [row EXCEPT !.state = s, !.ttl = t] \in Row
            BY DEF IInv, TypeOK, Row
        <3>2. 0 \in 0 .. TTL
            BY LeaseAssumption
        <3>3. row' \in Row
            BY <2>1, <3>1, <3>2
        <3> QED
            BY <2>1, <3>3 DEF RowHeldBy, IInv, TypeOK, Row
    <2>2. CASE row' = row
        BY <2>2 DEF IInv, TypeOK
    <2> QED
        BY <2>1, <2>2 DEF ReleaseRow, Tombstone
<1>9. TypeOK'
    BY <1>4, <1>6, <1>7, <1>8 DEF IInv, TypeOK
<1>10. EpochsUsed'
    BY <1>1, <1>2, <1>4, <1>7, <1>8 DEF IInv, LeaseInv, EpochsUsed, NoHandle
<1>11. RowNamesHandle'
    BY <1>1, <1>5, <1>8 DEF IInv, LeaseInv, RowNamesHandle, LeaseId, NoLease
<1>12. RegisteredIsHeld'
    BY <1>1, <1>4, <1>7 DEF IInv, LeaseInv, RegisteredIsHeld
<1>13. MutexIsLatest'
    BY <1>4, <1>5, <1>6 DEF IInv, LeaseInv, MutexIsLatest
<1>14. \A x \in LeaseId : handle[x].state \in {"acquired", "held"} =>
          mutex'[handle[x].owner] = x <=> mutex[handle[x].owner] = x
    BY <1>1, <1>6 DEF IInv, LeaseInv, EpochsUsed, NoHandle, LeaseId, NoLease
<1>15. AcquiredIsGuarded' /\ RefsCountHolders'
    BY <1>2, <1>4, <1>7, <1>14 DEF IInv, LeaseInv, AcquiredIsGuarded, RefsCountHolders
<1>16. RefsWhileClaimed'
    BY <1>1, <1>2, <1>4 DEF IInv, LeaseInv, RefsWhileClaimed, Claimed
<1>17. LostMeansDisplaced'
    BY <1>2, <1>4, <1>8 DEF IInv, LeaseInv, LostMeansDisplaced, RowHeldBy
<1>18. TombstoneMeansGivenUp'
    <2>1. row.state = "released" => row.epoch # e /\ row.epoch \in LeaseId
        BY <1>1 DEF IInv, LeaseInv, TombstoneMeansGivenUp, RowNamesHandle, LeaseId, NoLease
    <2> QED
        BY <1>2, <1>4, <1>8, <2>1 DEF IInv, LeaseInv, TombstoneMeansGivenUp
<1>19. HolderRegistered'
    BY <1>2, <1>4, <1>7, <1>8 DEF IInv, LeaseInv, HolderRegistered, RowHeldBy
<1>20. RunInv'
    BY <1>7, <1>8 DEF IInv, RunInv, ReservationExcludesRun, BoundToActiveRun, ActiveRuns
<1> QED
    BY <1>9, <1>10, <1>11, <1>12, <1>13, <1>15, <1>16, <1>17, <1>18, <1>19, <1>20 DEF IInv, LeaseInv

\* A renewal extends the row or finds the lease displaced.
LEMMA HeartbeatRenewStep ==
    ASSUME IInv, NEW p \in Process, HeartbeatRenew(p)
    PROVE  IInv'
<1> DEFINE e == snapshot[p]
<1>1. /\ e \in LeaseId
      /\ snapshot' \in [Process -> 0 .. MaxEpoch]
      /\ UNCHANGED <<mutex, retained, runStatus, up>>
    BY LeaseAssumption DEF HeartbeatRenew, IInv, TypeOK, LeaseId, NoLease
<1>2. CASE row' = [row EXCEPT !.ttl = TTL] /\ UNCHANGED <<handle, registry>>
    <2>1. TTL \in 0 .. TTL
        BY LeaseAssumption
    <2> QED
        BY <1>1, <1>2, <2>1, ExpiryOnly
<1>3. CASE ~Renewed(e) /\ MarkLost(e) /\ UNCHANGED row
    <2>1. CASE handle[e].state = "held"
        <3> DEFINE h == [handle[e] EXCEPT !.state = "lost", !.refs = 0]
        <3>1. h \in Handle /\ h.owner = handle[e].owner /\ h.state = "lost" /\ h.refs = 0
            <4>1. \A s \in HandleState, n \in 0 .. 2 :
                      [handle[e] EXCEPT !.state = s, !.refs = n] \in Handle
                BY <1>1 DEF IInv, TypeOK, Handle
            <4>2. "lost" \in HandleState /\ 0 \in 0 .. 2
                BY DEF HandleState
            <4> QED
                BY <1>1, <4>1, <4>2 DEF IInv, TypeOK, Handle
        <3>2. handle' = [handle EXCEPT ![e] = h] /\ registry' = Forget(handle[e].owner, e)
            BY <1>3, <2>1 DEF MarkLost, IInv, TypeOK
        <3>3. ~RowHeldBy(e) /\ UNCHANGED row
            BY <1>3 DEF Renewed
        <3>4. retained \ {e} \subseteq retained' /\ retained' \subseteq retained
            BY <1>1
        <3> HIDE DEF h
        <3> QED
            BY <1>1, <2>1, <3>1, <3>2, <3>3, <3>4, HandleDropped
    <2>2. CASE handle[e].state # "held"
        <3>1. UNCHANGED <<row, handle, registry>>
            BY <1>3, <2>2 DEF MarkLost
        <3> QED
            BY <1>1, <3>1, SnapshotOnly
    <2> QED
        BY <2>1, <2>2
<1> QED
    BY <1>2, <1>3 DEF HeartbeatRenew

\* What a crash leaves of a handle.
LEMMA OrphanedHandle ==
    ASSUME NEW h \in Handle
    PROVE  /\ Orphaned(h) \in Handle /\ Orphaned(h).owner = h.owner
           /\ Orphaned(h).state = IF h.state \in {"acquired", "held", "releasing"} THEN "gone"
                                  ELSE h.state
           /\ Orphaned(h).refs = 0
BY DEF Orphaned, Handle, HandleState

\* A crash orphans every handle of the process and leaves the row alone.
LEMMA CrashStep ==
    ASSUME IInv, NEW p \in Process, Crash(p)
    PROVE  IInv'
<1>1. /\ handle' \in [LeaseId -> Handle]
      /\ \A x \in LeaseId :
            /\ handle[x].owner = p => handle'[x] = Orphaned(handle[x])
            /\ handle[x].owner # p => handle'[x] = handle[x]
    <2>1. \A x \in LeaseId : handle[x] \in Handle /\ Orphaned(handle[x]) \in Handle
        BY OrphanedHandle DEF IInv, TypeOK
    <2>2. handle' = [x \in LeaseId |-> IF handle[x].owner = p THEN Orphaned(handle[x]) ELSE handle[x]]
        BY DEF Crash
    <2> QED
        BY <2>1, <2>2
<1>2. \A x \in LeaseId :
         /\ handle'[x].owner = handle[x].owner
         /\ handle[x].owner = p =>
                /\ handle'[x].refs = 0
                /\ handle'[x].state = IF handle[x].state \in {"acquired", "held", "releasing"}
                                      THEN "gone" ELSE handle[x].state
    BY <1>1, OrphanedHandle DEF IInv, TypeOK
<1>3. /\ registry' \in [Process -> 0 .. MaxEpoch] /\ registry'[p] = NoLease
      /\ mutex' \in [Process -> 0 .. MaxEpoch] /\ mutex'[p] = NoLease
      /\ snapshot' \in [Process -> 0 .. MaxEpoch]
      /\ \A q \in Process : q # p => registry'[q] = registry[q] /\ mutex'[q] = mutex[q]
    BY LeaseAssumption DEF Crash, IInv, TypeOK, NoLease
<1>4. /\ retained' = {x \in retained : handle[x].owner # p}
      /\ up' = up \ {p} /\ UNCHANGED <<row, runStatus>>
    BY DEF Crash
<1>5. TypeOK'
    BY <1>1, <1>3, <1>4 DEF IInv, TypeOK
<1>6. EpochsUsed'
    BY <1>1, <1>2, <1>4, LeaseAssumption DEF IInv, LeaseInv, EpochsUsed, NoHandle
<1>7. RowNamesHandle'
    BY <1>2, <1>4 DEF IInv, TypeOK, Row, LeaseInv, RowNamesHandle, LeaseId, NoLease
<1>8. RegisteredIsHeld' /\ MutexIsLatest'
    BY <1>1, <1>2, <1>3 DEF IInv, LeaseInv, RegisteredIsHeld, MutexIsLatest
<1>9. AcquiredIsGuarded' /\ RefsCountHolders'
    <2>1. \A x \in LeaseId : handle'[x].state \in {"acquired", "held"} =>
             /\ handle[x].owner # p /\ handle'[x] = handle[x] /\ handle[x].owner \in Process
             /\ x \in retained' <=> x \in retained
        BY <1>1, <1>2, <1>4 DEF IInv, LeaseInv, EpochsUsed, NoHandle
    <2> QED
        BY <2>1, <1>3 DEF IInv, LeaseInv, AcquiredIsGuarded, RefsCountHolders
<1>10. RefsWhileClaimed'
    BY <1>1, <1>2 DEF IInv, LeaseInv, RefsWhileClaimed, Claimed
<1>11. LostMeansDisplaced'
    BY <1>1, <1>2, <1>4 DEF IInv, LeaseInv, LostMeansDisplaced, RowHeldBy
<1>12. TombstoneMeansGivenUp'
    <2>1. row.state = "released" => row.epoch \in LeaseId
        BY DEF IInv, TypeOK, Row, LeaseInv, RowNamesHandle, LeaseId, NoLease
    <2> QED
        BY <2>1, <1>1, <1>2, <1>4 DEF IInv, LeaseInv, TombstoneMeansGivenUp
<1>13. HolderRegistered'
    BY <1>1, <1>2, <1>3, <1>4 DEF IInv, LeaseInv, EpochsUsed, NoHandle, HolderRegistered, RowHeldBy
<1>14. RunInv'
    BY <1>4, RunInvShrinks DEF IInv, ActiveRuns
<1> QED
    BY <1>5, <1>6, <1>7, <1>8, <1>9, <1>10, <1>11, <1>12, <1>13, <1>14 DEF IInv, LeaseInv

-----------------------------------------------------------------------------
(* The inductive invariant, and the properties it implies. *)

\* The initial state has no lease, no run and no reference.
LEMMA InitIInv == Init => IInv
<1> SUFFICES ASSUME Init PROVE IInv
    OBVIOUS
<1>1. TypeOK
    BY LeaseAssumption DEF Init, TypeOK, Row, Handle, HandleState, LeasePurpose, NoRow, NoHandle,
       NoLease
<1>2. LeaseInv
    BY DEF Init, LeaseInv, EpochsUsed, RowNamesHandle, RegisteredIsHeld, MutexIsLatest,
       AcquiredIsGuarded, RefsWhileClaimed, Claimed, RefsCountHolders, LostMeansDisplaced,
       TombstoneMeansGivenUp, HolderRegistered, NoRow, NoHandle, NoLease, LeaseId
<1>3. RunInv
    BY DEF Init, RunInv, ReservationExcludesRun, BoundToActiveRun, NoRow
<1> QED
    BY <1>1, <1>2, <1>3 DEF IInv

\* Every step preserves the inductive invariant, one case per action.
LEMMA StepIInv == IInv /\ [Next]_vars => IInv'
<1> SUFFICES ASSUME IInv, [Next]_vars PROVE IInv'
    OBVIOUS
<1>1. ASSUME NEW p \in Process, NEW purpose \in Purpose, NEW r \in Run \cup {NoRun},
             Acquire(p, purpose, r)
      PROVE  IInv'
    BY <1>1, AcquireStep
<1>2. ASSUME NEW p \in Process, Remember(p) PROVE IInv'
    BY <1>2, RememberStep
<1>3. ASSUME NEW p \in Process, NEW r \in Run, CreateRun(p, r) PROVE IInv'
    BY <1>3, CreateRunStep
<1>4. ASSUME NEW p \in Process, NEW r \in Run, BindExisting(p, r) PROVE IInv'
    BY <1>4, BindExistingStep
<1>5. ASSUME NEW p \in Process, NEW r \in Run, Retain(p, r) PROVE IInv'
    BY <1>5, RetainStep
<1>6. ASSUME NEW p \in Process, NEW r \in Run, ConvergeRun(p, r) PROVE IInv'
    BY <1>6, RunEnds DEF ConvergeRun
<1>7. ASSUME NEW p \in Process, ReleaseGuard(p) PROVE IInv'
    BY <1>7, ReleaseGuardStep
<1>8. ASSUME NEW p \in Process, HeartbeatSnapshot(p) \/ HeartbeatFail(p) PROVE IInv'
    <2>1. /\ UNCHANGED <<row, handle, registry, mutex, retained, runStatus, up>>
          /\ snapshot' \in [Process -> 0 .. MaxEpoch]
        BY <1>8, LeaseAssumption DEF HeartbeatSnapshot, HeartbeatFail, IInv, TypeOK, NoLease
    <2> QED
        BY <2>1, SnapshotOnly
<1>9. ASSUME NEW p \in Process, HeartbeatRenew(p) PROVE IInv'
    BY <1>9, HeartbeatRenewStep
<1>10. ASSUME NEW p \in Process, Crash(p) PROVE IInv'
    BY <1>10, CrashStep
<1>11. ASSUME NEW e \in LeaseId, MarkBound(e) PROVE IInv'
    BY <1>11, MarkBoundStep
<1>12. ASSUME NEW e \in LeaseId, FinishRun(e) PROVE IInv'
    <2> DEFINE r == handle[e].run
    <2>1. /\ r \in Run /\ runStatus' = [runStatus EXCEPT ![r] = "terminal"]
          /\ UNCHANGED <<row, handle, registry, mutex, snapshot, retained, up>>
        BY <1>12 DEF FinishRun, ActiveRuns
    <2> HIDE DEF r
    <2> QED
        BY <2>1, RunEnds
<1>13. ASSUME NEW e \in LeaseId, ReleaseRetained(e) PROVE IInv'
    BY <1>13, ReleaseRetainedStep
<1>14. ASSUME NEW e \in LeaseId, ReleaseRow(e) PROVE IInv'
    BY <1>14, ReleaseRowStep
<1>15. CASE Tick
    <2> DEFINE t == row.ttl - 1
    <2>1. /\ t \in 0 .. TTL /\ row' = [row EXCEPT !.ttl = t]
          /\ UNCHANGED <<handle, registry, mutex, retained, runStatus, up>>
          /\ snapshot' \in [Process -> 0 .. MaxEpoch]
        BY <1>15, LeaseAssumption DEF Tick, IInv, TypeOK, Row
    <2> HIDE DEF t
    <2> QED
        BY <2>1, ExpiryOnly
<1>16. CASE UNCHANGED vars
    <2>1. /\ UNCHANGED <<row, handle, registry, mutex, retained, runStatus, up>>
          /\ snapshot' \in [Process -> 0 .. MaxEpoch]
        BY <1>16 DEF vars, IInv, TypeOK
    <2> QED
        BY <2>1, SnapshotOnly
<1> QED
    BY <1>1, <1>2, <1>3, <1>4, <1>5, <1>6, <1>7, <1>8, <1>9, <1>10, <1>11, <1>12, <1>13, <1>14,
       <1>15, <1>16 DEF Next

\* The inductive invariant holds in every reachable state.
THEOREM Invariance == Spec => []IInv
BY InitIInv, StepIInv, PTL DEF Spec

\* Every variable keeps its type, the reference counts stay within 0 .. 2.
THEOREM TypeCorrect == Spec => []TypeOK
<1>1. IInv => TypeOK
    BY DEF IInv
<1> QED
    BY <1>1, Invariance, PTL

\* No stall and no unclaimed expiry ever costs a live owner its lease.
THEOREM LostOnlyWhenDisplaced == Spec => []LostMeansDisplaced
<1>1. IInv => LostMeansDisplaced
    BY DEF IInv, LeaseInv
<1> QED
    BY <1>1, Invariance, PTL

\* A row is released only by the lease it names, after its last reference.
THEOREM TombstoneOnlyWhenGivenUp == Spec => []TombstoneMeansGivenUp
<1>1. IInv => TombstoneMeansGivenUp
    BY DEF IInv, LeaseInv
<1> QED
    BY <1>1, Invariance, PTL

\* The holder of the row stays registered, so the heartbeat keeps renewing it.
THEOREM HolderStaysRegistered == Spec => []HolderRegistered
<1>1. IInv => HolderRegistered
    BY DEF IInv, LeaseInv
<1> QED
    BY <1>1, Invariance, PTL

\* Mutations, forks and admissions never share the session with an active run.
THEOREM RunsExcluded == Spec => []ReservationExcludesRun
<1>1. IInv => ReservationExcludesRun
    BY DEF IInv, RunInv
<1> QED
    BY <1>1, Invariance, PTL

\* An active lease never stands beside a run other than the one it is bound to.
THEOREM BindingsStand == Spec => []BoundToActiveRun
<1>1. IInv => BoundToActiveRun
    BY DEF IInv, RunInv
<1> QED
    BY <1>1, Invariance, PTL

\* A held lease counts exactly the holders that will still let go of it.
THEOREM ReferencesCounted == Spec => []RefsCountHolders
<1>1. IInv => RefsCountHolders
    BY DEF IInv, LeaseInv
<1> QED
    BY <1>1, Invariance, PTL

-----------------------------------------------------------------------------
(* The protocol implements the fenced grant. *)

\* A step the fenced grant sees, if at all, as a process giving up claims.
Quiet ==
    /\ row'.epoch = row.epoch /\ row'.owner = row.owner /\ row'.state = row.state
    /\ row'.ttl > 0 <=> row.ttl > 0
    /\ \A x \in LeaseId : Claimed(x)' => Claimed(x)

\* A step that leaves the row alone and claims nothing new is an abandonment or a stutter.
LEMMA QuietAbandons == ASSUME Quiet PROVE Fenced!Next
<1>1. {x \in LeaseId : Claimed(x)}' \subseteq {x \in LeaseId : Claimed(x)}
    BY DEF Quiet
<1>2. /\ (row.state = "active")' = (row.state = "active")
      /\ (row.ttl > 0)' = (row.ttl > 0)
    BY DEF Quiet
<1> QED
    BY <1>1, <1>2 DEF Quiet, Fenced!Next, Fenced!Abandon

\* Acquire never supersedes a lease its own process counts on: between commit and
\* registration the mutex keeps the acquirer out, after it the registry does.
LEMMA AcquireFenced ==
    ASSUME IInv, NEW p \in Process, NEW purpose \in Purpose, NEW r \in Run \cup {NoRun},
           Acquire(p, purpose, r), row.state = "active"
    PROVE  /\ row.ttl > 0 => row.owner = p
           /\ row.owner = p => ~Claimed(row.epoch)
<1>1. /\ mutex[p] = NoLease
      /\ row.ttl > 0 => row.owner = p
      /\ row.owner = p => ~LiveLocally(p)
    BY DEF Acquire, RowFree
<1>2. row.epoch \in LeaseId /\ row.owner = handle[row.epoch].owner
    BY DEF IInv, TypeOK, Row, LeaseInv, RowNamesHandle, LeaseId, NoLease
<1>3. ASSUME row.owner = p, handle[row.epoch].state = "acquired" PROVE FALSE
    <2>1. mutex[p] = row.epoch
        BY <1>2, <1>3 DEF IInv, LeaseInv, AcquiredIsGuarded
    <2> QED
        BY <1>1, <1>2, <2>1 DEF LeaseId, NoLease
<1>4. ASSUME row.owner = p, handle[row.epoch].state = "held" PROVE FALSE
    <2>1. registry[p] = row.epoch
        BY <1>2, <1>4 DEF IInv, LeaseInv, HolderRegistered, RowHeldBy
    <2> QED
        BY <1>1, <1>2, <1>4, <2>1 DEF LiveLocally, LeaseId, NoLease
<1> QED
    BY <1>1, <1>3, <1>4 DEF Claimed

\* An acquisition is a grant of the next token of the abstract specification.
LEMMA AcquireGrants ==
    ASSUME IInv, NEW p \in Process, NEW purpose \in Purpose, NEW r \in Run \cup {NoRun},
           Acquire(p, purpose, r)
    PROVE  Fenced!Grant(p)
<1> DEFINE e == row.epoch + 1
<1>1. /\ row.epoch \in 0 .. MaxEpoch /\ e \in LeaseId
      /\ row'.epoch = e /\ row'.owner = p /\ row'.state = "active" /\ row'.ttl = TTL
      /\ handle' = [handle EXCEPT ![e] = [owner |-> p, purpose |-> purpose, run |-> r,
                                          bound |-> NoRun, state |-> "acquired", refs |-> 1]]
    BY DEF Acquire, IInv, TypeOK, Row
<1>2. row.epoch < MaxEpoch /\ TTL > 0
    BY <1>1, LeaseAssumption DEF LeaseId
<1>3. /\ row.state = "active" /\ row.ttl > 0 => p = row.owner
      /\ row.state = "active" /\ p = row.owner => ~Claimed(row.epoch)
    BY AcquireFenced
<1>4. {x \in LeaseId : Claimed(x)}' = {x \in LeaseId : Claimed(x)} \cup {e}
    BY <1>1 DEF Claimed, IInv, TypeOK
<1>5. (row.state = "active")' = TRUE /\ (row.ttl > 0)' = TRUE
    BY <1>1, <1>2
<1> QED
    BY <1>1, <1>2, <1>3, <1>4, <1>5 DEF Fenced!Grant

\* Every step from a state of the invariant is a step of the fenced grant or a stutter.
LEMMA StepIsFenced == IInv /\ [Next]_vars => [Fenced!Next]_(Fenced!vars)
<1> SUFFICES ASSUME IInv, [Next]_vars PROVE Fenced!Next
    OBVIOUS
<1>1. ASSUME NEW p \in Process, NEW purpose \in Purpose, NEW r \in Run \cup {NoRun},
             Acquire(p, purpose, r)
      PROVE  Fenced!Next
    BY <1>1, AcquireGrants DEF Fenced!Next
<1>2. ASSUME NEW p \in Process, Remember(p) PROVE Quiet
    BY <1>2 DEF Quiet, Remember, Claimed, IInv, TypeOK
<1>3. ASSUME NEW p \in Process, NEW r \in Run, CreateRun(p, r) PROVE Quiet
    <2>1. CASE Bind(p, r)
        BY <2>1 DEF Quiet, Bind, Claimed, IInv, TypeOK, Row
    <2>2. CASE UNCHANGED <<row, handle>>
        BY <2>2 DEF Quiet, Claimed
    <2> QED
        BY <1>3, <2>1, <2>2 DEF CreateRun
<1>4. ASSUME NEW p \in Process, NEW r \in Run, BindExisting(p, r) PROVE Quiet
    BY <1>4 DEF Quiet, BindExisting, Bind, Claimed, IInv, TypeOK, Row
<1>5. ASSUME NEW p \in Process, NEW r \in Run, Retain(p, r) PROVE Quiet
    BY <1>5 DEF Quiet, Retain, Claimed, IInv, TypeOK
<1>6. ASSUME NEW p \in Process, NEW r \in Run, ConvergeRun(p, r) PROVE Quiet
    BY <1>6 DEF Quiet, ConvergeRun, Claimed
<1>7. ASSUME NEW p \in Process, ReleaseGuard(p) PROVE Quiet
    BY <1>7 DEF Quiet, ReleaseGuard, DropReference, Claimed, IInv, TypeOK
<1>8. ASSUME NEW p \in Process, HeartbeatSnapshot(p) \/ HeartbeatFail(p) PROVE Quiet
    BY <1>8 DEF Quiet, HeartbeatSnapshot, HeartbeatFail, Claimed
<1>9. ASSUME NEW p \in Process, HeartbeatRenew(p) PROVE Fenced!Next
    <2> DEFINE e == snapshot[p]
    <2>1. CASE Renewed(e) /\ row' = [row EXCEPT !.ttl = TTL] /\ UNCHANGED handle
        <3>1. /\ row'.epoch = row.epoch /\ row'.owner = row.owner /\ row'.state = row.state
              /\ row'.ttl > 0 /\ row.state = "active"
            BY <2>1, LeaseAssumption DEF Renewed, RowHeldBy, IInv, TypeOK, Row
        <3>2. {x \in LeaseId : Claimed(x)}' = {x \in LeaseId : Claimed(x)}
            BY <2>1 DEF Claimed
        <3>3. /\ (row.state = "active")' = (row.state = "active")
              /\ (row.ttl > 0)' = TRUE
            BY <3>1
        <3> QED
            BY <3>1, <3>2, <3>3 DEF Fenced!Next, Fenced!Renew
    <2>2. CASE MarkLost(e) /\ UNCHANGED row
        <3>1. Quiet
            BY <2>2 DEF Quiet, MarkLost, Claimed, IInv, TypeOK
        <3> QED
            BY <3>1, QuietAbandons
    <2> QED
        BY <1>9, <2>1, <2>2 DEF HeartbeatRenew
<1>10. ASSUME NEW p \in Process, Crash(p) PROVE Quiet
    BY <1>10 DEF Quiet, Crash, Orphaned, Claimed, IInv, TypeOK
<1>11. ASSUME NEW e \in LeaseId, MarkBound(e) PROVE Quiet
    BY <1>11 DEF Quiet, MarkBound, Claimed, IInv, TypeOK
<1>12. ASSUME NEW e \in LeaseId, FinishRun(e) PROVE Quiet
    BY <1>12 DEF Quiet, FinishRun, Claimed
<1>13. ASSUME NEW e \in LeaseId, ReleaseRetained(e) PROVE Quiet
    BY <1>13 DEF Quiet, ReleaseRetained, DropReference, Claimed, IInv, TypeOK
<1>14. ASSUME NEW e \in LeaseId, ReleaseRow(e) PROVE Fenced!Next
    <2>1. /\ handle[e].state = "releasing"
          /\ \A x \in LeaseId : Claimed(x)' <=> Claimed(x)
        BY <1>14 DEF ReleaseRow, Claimed, IInv, TypeOK
    <2>2. CASE RowHeldBy(e) /\ row' = [row EXCEPT !.state = "released", !.ttl = 0]
        <3>1. /\ row'.epoch = row.epoch /\ row'.owner = row.owner /\ row'.state = "released"
              /\ row'.ttl = 0 /\ row.state = "active" /\ row.epoch = e
            BY <2>2 DEF RowHeldBy, IInv, TypeOK, Row
        <3>2. /\ {x \in LeaseId : Claimed(x)}' = {x \in LeaseId : Claimed(x)}
              /\ row.epoch \notin {x \in LeaseId : Claimed(x)}
            BY <2>1, <3>1 DEF Claimed
        <3>3. (row.state = "active")' = FALSE /\ (row.ttl > 0)' = FALSE
            BY <3>1
        <3> QED
            BY <3>1, <3>2, <3>3 DEF Fenced!Next, Fenced!Withdraw
    <2>3. CASE row' = row
        BY <2>1, <2>3, QuietAbandons DEF Quiet
    <2> QED
        BY <1>14, <2>2, <2>3 DEF ReleaseRow, Tombstone
<1>15. ASSUME Tick PROVE Fenced!Next
    <2>1. /\ row'.epoch = row.epoch /\ row'.owner = row.owner /\ row'.state = row.state
          /\ row.ttl > 0 /\ row.ttl \in 0 .. TTL /\ row'.ttl = row.ttl - 1 /\ UNCHANGED handle
        BY <1>15 DEF Tick, IInv, TypeOK, Row
    <2>2. {x \in LeaseId : Claimed(x)}' = {x \in LeaseId : Claimed(x)}
        BY <2>1 DEF Claimed
    <2>3. CASE row.ttl = 1
        <3>1. /\ (row.state = "active")' = (row.state = "active")
              /\ (row.ttl > 0)' = FALSE
            BY <2>1, <2>3
        <3> QED
            BY <2>1, <2>2, <3>1 DEF Fenced!Next, Fenced!Lapse
    <2>4. CASE row.ttl # 1
        <3>1. row'.ttl > 0
            BY <2>1, <2>4, LeaseAssumption
        <3> QED
            BY <2>1, <3>1, QuietAbandons DEF Quiet, Claimed
    <2> QED
        BY <2>3, <2>4
<1>16. ASSUME UNCHANGED vars PROVE Quiet
    BY <1>16 DEF vars, Quiet, Claimed
<1> QED
    BY <1>1, <1>2, <1>3, <1>4, <1>5, <1>6, <1>7, <1>8, <1>9, <1>10, <1>11, <1>12, <1>13, <1>14,
       <1>15, <1>16, QuietAbandons DEF Next

\* Every behaviour of the lease protocol is one of the fenced grant.
THEOREM Refinement == Spec => ImplementsFencedGrant
<1>1. Init => Fenced!Init
    <2> SUFFICES ASSUME Init PROVE Fenced!Init
        OBVIOUS
    <2>1. /\ (row.state = "active") = FALSE
          /\ (row.ttl > 0) = FALSE
          /\ {x \in LeaseId : Claimed(x)} = {}
        BY DEF Init, NoRow, NoHandle, Claimed
    <2> QED
        BY <2>1 DEF Init, NoRow, NoLease, Fenced!Init
<1> QED
    BY <1>1, StepIsFenced, Invariance, PTL DEF Spec, Fenced!Spec, ImplementsFencedGrant

\* A live lease gives way to no acquisition of its own process, and to another's
\* only once it expired: what the fenced grant demands of a new grant.
THEOREM LiveLeaseKept == Spec => LiveLeaseNotDisplaced
<1>1. IInv /\ [Next]_vars =>
          [row'.epoch # row.epoch /\ row.state = "active" /\ Claimed(row.epoch)
              => row'.owner # row.owner /\ row.ttl = 0]_vars
    <2> SUFFICES ASSUME IInv, [Next]_vars, row'.epoch # row.epoch,
                        row.state = "active", Claimed(row.epoch)
                 PROVE  row'.owner # row.owner /\ row.ttl = 0
        OBVIOUS
    <2>1. PICK p \in Process : Fenced!Grant(p)
        BY StepIsFenced DEF Fenced!Next, Fenced!vars, Fenced!Renew, Fenced!Lapse, Fenced!Abandon,
           Fenced!Withdraw
    <2>2. row.epoch \in LeaseId /\ row.ttl \in 0 .. TTL
        BY DEF IInv, TypeOK, Row, LeaseInv, RowNamesHandle, LeaseId, NoLease
    <2>3. row'.owner = p /\ p # row.owner
        BY <2>1, <2>2 DEF Fenced!Grant
    <2>4. ~(row.ttl > 0)
        BY <2>1, <2>3 DEF Fenced!Grant
    <2> QED
        BY <2>2, <2>3, <2>4, LeaseAssumption
<1> QED
    BY <1>1, Invariance, PTL DEF Spec, LiveLeaseNotDisplaced

=============================================================================
