-------------------------- MODULE TicketLifecycle --------------------------
(***************************************************************************)
(* What the queue promises for each submitted ticket, whatever crashes,    *)
(* restarts and races happen below: it is in one phase, it is never lost,  *)
(* a session starts only for a queued ticket, and a ticket goes back to    *)
(* the queue only after its last session was charged to a bounded retry    *)
(* budget or waived.                                                       *)
(***************************************************************************)
EXTENDS Naturals

CONSTANTS Tickets, MaxRetries

VARIABLES phase, charges, sessions, waived

lifecycleVars == <<phase, charges, sessions, waived>>

Phases == {"unsubmitted", "queued", "running", "done", "failed", "withdrawn"}

Init ==
    /\ phase = [t \in Tickets |-> "unsubmitted"]
    /\ charges = [t \in Tickets |-> 0]
    /\ sessions = [t \in Tickets |-> 0]
    /\ waived = [t \in Tickets |-> 0]

Move(t, from, to) == phase[t] = from /\ phase' = [phase EXCEPT ![t] = to]

\* All sessions of t so far are paid for.
Paid(t) == sessions[t] <= charges[t] + waived[t]

Submit(t) == Move(t, "unsubmitted", "queued") /\ UNCHANGED <<charges, sessions, waived>>

Withdraw(t) == Move(t, "queued", "withdrawn") /\ UNCHANGED <<charges, sessions, waived>>

Start(t) ==
    /\ Move(t, "queued", "running") /\ Paid(t)
    /\ sessions' = [sessions EXCEPT ![t] = @ + 1]
    /\ UNCHANGED <<charges, waived>>

Charge(t) ==
    /\ phase[t] = "running" /\ charges[t] < MaxRetries
    /\ charges' = [charges EXCEPT ![t] = @ + 1]
    /\ UNCHANGED <<phase, sessions, waived>>

Waive(t) ==
    /\ phase[t] = "running"
    /\ waived' = [waived EXCEPT ![t] = @ + 1]
    /\ UNCHANGED <<phase, charges, sessions>>

Requeue(t) ==
    /\ Move(t, "running", "queued") /\ Paid(t)
    /\ UNCHANGED <<charges, sessions, waived>>

Settle(t) ==
    /\ Move(t, "running", "done") \/ Move(t, "running", "failed")
    /\ UNCHANGED <<charges, sessions, waived>>

Next == \E t \in Tickets :
    \/ Submit(t) \/ Withdraw(t) \/ Start(t)
    \/ Charge(t) \/ Waive(t) \/ Requeue(t) \/ Settle(t)

Spec == Init /\ [][Next]_lifecycleVars
=============================================================================
