------------------------------ MODULE Transcript ------------------------------
(***************************************************************************)
(* What the event store promises whoever reads a session's transcript,      *)
(* without intents in two storages, scans, caches, leases or recoveries:    *)
(* an entry is announced once, and either committed, at a place of its own  *)
(* and with its bytes, or aborted, without them; runs come one after the    *)
(* other, and each extends the transcript at its end.  EventStore           *)
(* implements this.                                                         *)
(***************************************************************************)
EXTENDS Naturals

CONSTANTS Entry, NoRun

VARIABLES
    run,      \* the latest run, and whether it is still open
    entries,  \* whose each entry is, where it goes, and what has become of it
    stored,   \* the entries whose bytes are in the file, at their places
    damaged   \* somebody has written who was not allowed to

vars == <<run, entries, stored, damaged>>

Of(state) == {e \in Entry : entries[e].state = state}
ByRun(e) == entries[e].run # NoRun

\* The end of the transcript, for an entry of a run at that place.
BeyondRuns(place) == \A e \in Of("committed") : ByRun(e) => entries[e].seq < place

Init ==
    /\ run = [id |-> NoRun, open |-> FALSE]
    /\ entries = [e \in Entry |-> [state |-> "none", run |-> NoRun, seq |-> 0]]
    /\ stored = {} /\ damaged = FALSE

Begin ==
    /\ ~run.open /\ run' = [id |-> run.id + 1, open |-> TRUE]
    /\ UNCHANGED <<entries, stored, damaged>>

\* A run announces for itself while it is open, one entry at a time.
Announce(e) ==
    /\ entries[e].state = "none" /\ entries'[e].state = "pending"
    /\ entries' = [entries EXCEPT ![e] = entries'[e]]
    /\ entries'[e].run # NoRun =>
          /\ run.open /\ entries'[e].run = run.id
          /\ \A o \in Of("pending") : ~ByRun(o)
          /\ BeyondRuns(entries'[e].seq)
    /\ UNCHANGED <<run, stored, damaged>>

Resolve(e, state) ==
    /\ entries[e].state = "pending"
    /\ entries' = [entries EXCEPT ![e].state = state]
    /\ UNCHANGED <<run, stored, damaged>>

Commit(e) ==
    /\ Resolve(e, "committed")
    /\ e \in stored \/ damaged
    /\ \A o \in Of("committed") : entries[o].seq # entries[e].seq
    /\ ByRun(e) => BeyondRuns(entries[e].seq)

Abort(e) == Resolve(e, "aborted") /\ (e \notin stored \/ damaged)

\* The file changes, but for what has been resolved.
Store ==
    /\ stored' \subseteq Entry
    /\ damaged => damaged'
    /\ damaged' \/ (Of("committed") \subseteq stored' /\ Of("aborted") \cap stored' = {})
    /\ UNCHANGED <<run, entries>>

\* A run is closed once everything it announced is resolved.
Close ==
    /\ run.open /\ \A e \in Of("pending") : entries[e].run # run.id
    /\ run' = [run EXCEPT !.open = FALSE]
    /\ UNCHANGED <<entries, stored, damaged>>

Next == Begin \/ (\E e \in Entry : Announce(e) \/ Commit(e) \/ Abort(e)) \/ Store \/ Close

Spec == Init /\ [][Next]_vars
=============================================================================
