------------------------------- MODULE ReplyPlan -------------------------------
(***************************************************************************)
(* What the durable outbox promises of one reply, without workers, claims,  *)
(* leases, scans and windows: every part of the plan gets one outcome, after *)
(* all it depends on has succeeded; a loss takes with it what depends on the *)
(* lost part, and nothing else; only a failure that may pass is tried again, *)
(* with exactly what it took along; and the reply always says what became of *)
(* its parts.  DeliveryOutbox implements this.                               *)
(***************************************************************************)
CONSTANTS
    Op,
    Before    \* what each part depends on, directly or not

VARIABLES
    fate,       \* of each part: open, done, lost in one of three ways, or skipped
    reply,      \* what the reply says
    received    \* the parts that reached the recipient

vars == <<fate, reply, received>>

Losses == {"failed", "refused", "uncertain"}    \* "failed" may pass

Ready(o) == \A a \in Before[o] : fate[a] = "done"
Behind(o) == {p \in Op : o \in Before[p]}

Summary(f) ==
    LET some(S) == \E o \in Op : f[o] \in S
    IN  IF Op = {} \/ some({"open"}) THEN "pending"
        ELSE IF some({"failed", "refused"}) THEN "failed"
        ELSE IF some({"uncertain"}) THEN "uncertain" ELSE "delivered"

Init == fate = [o \in Op |-> "open"] /\ reply = "pending" /\ received = {}

Becomes(f) == fate' = f /\ reply' = Summary(f) /\ UNCHANGED received

Succeed(o) ==
    /\ fate[o] = "open" /\ Ready(o)
    /\ Becomes([fate EXCEPT ![o] = "done"])

Lose(o, loss) ==
    /\ fate[o] = "open" /\ Ready(o)
    /\ Becomes([p \in Op |-> IF p = o THEN loss ELSE IF p \in Behind(o) THEN "skipped" ELSE fate[p]])

Retry(o) ==
    /\ fate[o] = "failed"
    /\ Becomes([p \in Op |-> IF p \in {o} \cup Behind(o) THEN "open" ELSE fate[p]])

\* Also while its outcome is not known yet, and again when it is.
Receive(o) ==
    /\ Ready(o)
    /\ received' = received \cup {o}
    /\ UNCHANGED <<fate, reply>>

Next == \E o \in Op : Succeed(o) \/ (\E loss \in Losses : Lose(o, loss)) \/ Retry(o) \/ Receive(o)

Spec == Init /\ [][Next]_vars
=============================================================================
