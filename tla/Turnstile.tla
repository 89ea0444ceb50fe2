------------------------------- MODULE Turnstile -------------------------------
(***************************************************************************)
(* What the submission coordinator promises those who submit, without       *)
(* goroutines, contexts, leases and back-off: whoever is let into the line  *)
(* comes out of it once; one at a time is inside, in the order of the line; *)
(* and nobody waits while nobody is inside.  Submission implements this.    *)
(***************************************************************************)
EXTENDS Naturals, Sequences

CONSTANT Sub

VARIABLES
    line,   \* everybody let in so far, in order
    place,  \* where each is: outside, waiting, inside, or out again
    closed

vars == <<line, place, closed>>

At(where) == {s \in Sub : place[s] = where}
Before(s, t) == \E i, j \in DOMAIN line : i < j /\ line[i] = s /\ line[j] = t
First(s) == s \in At("waiting") /\ \A t \in At("waiting") : ~Before(t, s)

Init == line = <<>> /\ place = [s \in Sub |-> "outside"] /\ closed = FALSE

Enter(s) ==
    /\ ~closed /\ place[s] = "outside"
    /\ line' = Append(line, s)
    /\ \/ At("inside") \cup At("waiting") = {} /\ place' = [place EXCEPT ![s] = "inside"]
       \/ At("inside") # {} /\ place' = [place EXCEPT ![s] = "waiting"]
    /\ UNCHANGED closed

GiveUp(s) ==
    /\ place[s] = "waiting" /\ place' = [place EXCEPT ![s] = "out"]
    /\ UNCHANGED <<line, closed>>

\* Whoever leaves lets in the first that waits.
Leave(s) ==
    /\ place[s] = "inside"
    /\ \/ At("waiting") = {} /\ place' = [place EXCEPT ![s] = "out"]
       \/ \E t \in Sub : First(t) /\ place' = [place EXCEPT ![s] = "out", ![t] = "inside"]
    /\ UNCHANGED <<line, closed>>

\* Those who wait are sent away; whoever is inside leaves in his own time.
Close ==
    /\ closed' = TRUE
    /\ place' = [s \in Sub |-> IF place[s] = "waiting" THEN "out" ELSE place[s]]
    /\ UNCHANGED line

Next == (\E s \in Sub : Enter(s) \/ GiveUp(s) \/ Leave(s)) \/ Close

Spec == Init /\ [][Next]_vars
=============================================================================
