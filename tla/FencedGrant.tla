----------------------------- MODULE FencedGrant -----------------------------
(***************************************************************************)
(* What a session lease promises, without registries, mutexes, reference   *)
(* counts or heartbeats: numbered grants, at most one of them valid, each  *)
(* new one fencing out those before it.  SessionLease implements this.     *)
(***************************************************************************)
EXTENDS Integers

CONSTANTS Process, NoProcess, MaxToken

VARIABLES
    token,   \* number of the latest grant, 0 before the first
    owner,   \* the process it was made to
    valid,   \* it has not been withdrawn
    fresh,   \* it was made or renewed less than a time to live ago
    claims   \* grants whose process still counts on them

vars == <<token, owner, valid, fresh, claims>>

Init == token = 0 /\ owner = NoProcess /\ valid = FALSE /\ fresh = FALSE /\ claims = {}

\* A valid grant is superseded by another process only once it lapsed, and by
\* its own process only when that process no longer counts on it.
Grant(p) ==
    /\ token < MaxToken
    /\ valid /\ fresh => p = owner
    /\ valid /\ p = owner => token \notin claims
    /\ token' = token + 1
    /\ owner' = p
    /\ valid' = TRUE /\ fresh' = TRUE
    /\ claims' = claims \cup {token'}

Renew == valid /\ fresh' = TRUE /\ UNCHANGED <<token, owner, valid, claims>>

Lapse == fresh' = FALSE /\ UNCHANGED <<token, owner, valid, claims>>

\* Grants are given up, or found lost, or their process dies.
Abandon == claims' \subseteq claims /\ UNCHANGED <<token, owner, valid, fresh>>

\* The latest grant is withdrawn, by the process that gave it up.
Withdraw ==
    /\ valid /\ token \notin claims
    /\ valid' = FALSE /\ fresh' = FALSE
    /\ UNCHANGED <<token, owner, claims>>

Next == (\E p \in Process : Grant(p)) \/ Renew \/ Lapse \/ Abandon \/ Withdraw

Spec == Init /\ [][Next]_vars
=============================================================================
