------------------------------- MODULE RunRecord -------------------------------
(***************************************************************************)
(* What the execution runtime promises of a session's run records, without  *)
(* locks, guards, leases, retries and watchers: one run is open at a time;   *)
(* its record only moves forward, and once, to the outcome that was chosen   *)
(* for it first; and only a recovery ends a run that its owner left behind.  *)
(* ExecutionRuntime implements this.                                         *)
(***************************************************************************)
CONSTANTS Run, NoRun

VARIABLES
    status,    \* of each run's record
    owned,     \* the run the process has begun last
    choice     \* the outcome chosen for it

vars == <<status, owned, choice>>

Outcome == {"completed", "failed", "cancelled"}
Underway == {"running", "waiting"}
Open == Underway \cup {"cancelling", "terminalizing"}

AllClosed == \A r \in Run : status[r] \notin Open

\* A cancellation is not taken back, and neither is the beginning of the end.
Onward(s) == CASE s \in Underway      -> Open
               [] s = "cancelling"    -> {"cancelling", "terminalizing"}
               [] s = "terminalizing" -> {"terminalizing"}

Init == status = [r \in Run |-> "absent"] /\ owned = NoRun /\ choice = "none"

Own(r) ==
    /\ AllClosed /\ status[r] = "absent"
    /\ owned' = r /\ choice' = "none"
    /\ UNCHANGED status

Start ==
    /\ owned \in Run /\ AllClosed /\ status[owned] = "absent"
    /\ status' = [status EXCEPT ![owned] = "running"]
    /\ UNCHANGED <<owned, choice>>

Proceed ==
    /\ owned \in Run /\ status[owned] \in Open
    /\ \E s \in Onward(status[owned]) : status' = [status EXCEPT ![owned] = s]
    /\ UNCHANGED <<owned, choice>>

Choose(o) ==
    /\ owned \in Run /\ choice = "none"
    /\ choice' = o
    /\ UNCHANGED <<status, owned>>

End ==
    /\ owned \in Run /\ status[owned] \in Open /\ choice \in Outcome
    /\ status' = [status EXCEPT ![owned] = choice]
    /\ UNCHANGED <<owned, choice>>

Recover(r) ==
    /\ status[r] \in Open
    /\ status' = [status EXCEPT ![r] = "failed"]
    /\ UNCHANGED <<owned, choice>>

Next == \/ \E r \in Run : Own(r) \/ Recover(r)
        \/ \E o \in Outcome : Choose(o)
        \/ Start \/ Proceed \/ End

Spec == Init /\ [][Next]_vars
=============================================================================
