---------------------------- MODULE ProviderGate ----------------------------
(***************************************************************************)
(* The provider gate (providerGate.ts), the daily spend ledger             *)
(* (spendLedger.ts), and what calls them: the readiness check of a claim   *)
(* pass (gatedReady in daemon.ts, claimNextTask in runOnce.ts) and the     *)
(* reports at the end of each session (runOnce.ts, prFlow.ts).             *)
(*                                                                         *)
(* The event loop interleaves these: a session records its cost, and       *)
(* reports to the gate some awaits later; a claim pass checks the budget   *)
(* and the gate, and then awaits the endpoint probe before it claims.      *)
(*                                                                         *)
(* Instants are modelled as the time left until them, so that the clock    *)
(* needs no bound: a not_before, an `until` and midnight count down.       *)
(***************************************************************************)
EXTENDS Naturals, FiniteSets

CONSTANTS
    GateTickets,    \* the tickets of the queue
    ApplyTickets,   \* their patch is applied without inference, or falls back to a session
    MaxConcurrent,  \* worker.maxConcurrent
    MaxRetries,     \* worker.maxTransientRetries
    Backoff,        \* worker.retryBackoffSeconds; the schema admits 0
    MaxDelay,       \* the 900 s ceiling of a rate-limit delay
    Day,            \* length of a day
    Caps,           \* values the operator gives worker.dailyBudgetUsd; 0 disables it
    MaxSpend,       \* bound on the ledger (it saturates)
    MaxStreak,      \* bound on the streak (the delay has saturated by then)
    Restarts        \* TRUE: the daemon may be killed and restarted

ASSUME GateAssumption ==
    /\ ApplyTickets \subseteq GateTickets
    /\ MaxConcurrent \in Nat \ {0} /\ MaxRetries \in Nat
    /\ Backoff \in Nat /\ MaxDelay \in Nat \ {0} /\ Day \in Nat \ {0}
    /\ Caps \subseteq Nat /\ Caps # {}
    /\ MaxSpend \in Nat /\ MaxStreak \in Nat \ {0}
    /\ Restarts \in BOOLEAN

VARIABLES
    kind,       \* state.kind of the gate
    until,      \* time left until state.until; 0 where until is null
    streak,     \* rate-limit reports since the last success or clear
    spent,      \* today's dollars in the ledger
    midnight,   \* time left until the ledger's day ends
    cap,        \* the live dailyBudgetUsd
    poll,       \* the claim pass: none, or what its readiness check found
    pass,       \* its candidates
    phase,      \* of each ticket
    wait,       \* time left until the not_before of a queued ticket
    tries,      \* retry_count of a ticket
    garbled,    \* tickets whose frontmatter is malformed: it keeps no retry state
    result,     \* how the ticket's last session ended
    leaked,     \* history: agent tickets claimed since the gate closed
    overrun     \* history: agent tickets claimed since the budget was reached

gateVars == <<kind, until, streak, leaked>>
ledgerVars == <<spent, midnight, cap, overrun>>
taskVars == <<phase, wait, tries, result, garbled>>
allGateVars == <<gateVars, ledgerVars, taskVars, poll, pass>>

LatchOf == [auth |-> "auth_error", quota |-> "quota_exhausted",
            model_not_found |-> "misconfig"]
Latches == {"auth_error", "quota_exhausted", "misconfig"}
Timed == {"rate_limited", "outage_backoff", "budget_exhausted"}
GateClasses == {"auth", "quota", "model_not_found", "rate_limit"}

\* "soft": a timeout, a guard kill, or an error after commits: no report.
SessionResults == GateClasses \cup {"outage", "unknown", "soft", "ok"}
Phases == {"queued", "applying", "running", "ended", "done"}

Lesser(a, b) == IF a <= b THEN a ELSE b
Busy == {t \in GateTickets : phase[t] \in {"applying", "running", "ended"}}

GateInit ==
    /\ kind = "ok" /\ until = 0 /\ streak = 0
    /\ spent = 0 /\ midnight = Day /\ cap \in Caps
    /\ poll = "idle" /\ pass = {}
    /\ phase = [t \in GateTickets |-> "queued"]
    /\ wait = [t \in GateTickets |-> 0]
    /\ tries = [t \in GateTickets |-> 0]
    /\ garbled \in SUBSET (GateTickets \ ApplyTickets)
    /\ result = [t \in GateTickets |-> "none"]
    /\ leaked = 0 /\ overrun = 0

----------------------------------------------------------------------------
(* class ProviderGate                                                      *)

\* Mutant: the deadline of a backoff is never read.
CurrentNever == kind

\* currentState(): an until-based state read past its deadline is ok.
Current == IF kind \in Timed /\ until = 0 THEN "ok" ELSE kind

\* transitionTo(k, until); d is the time left until then.
Enter(k, d) ==
    /\ kind' = k /\ until' = d
    /\ leaked' = IF k = "ok" THEN 0 ELSE leaked

Read == Enter(Current, until) /\ UNCHANGED streak

\* base * 2^(n-1), capped; no delay at all when the base is 0.
RateDelay(n) ==
    LET exact == Backoff * 2 ^ (n - 1) IN
    IF Backoff = 0 THEN 0 ELSE IF exact \in 1 .. MaxDelay THEN exact ELSE MaxDelay

ReportLatch(cls) == Enter(LatchOf[cls], 0) /\ UNCHANGED streak

ReportRateLimit ==
    IF Current \in Latches THEN Read
    ELSE /\ streak' = Lesser(streak + 1, MaxStreak)
         /\ Enter("rate_limited", RateDelay(streak'))

ReportOutage ==
    IF Current \in Latches THEN Read
    ELSE Enter("outage_backoff", Backoff) /\ UNCHANGED streak

ReportFailure(cls) ==
    \/ cls \in DOMAIN LatchOf /\ ReportLatch(cls)
    \/ cls = "rate_limit" /\ ReportRateLimit
    \/ cls = "outage" /\ ReportOutage

ReportSuccess ==
    /\ streak' = 0
    /\ IF Current = "budget_exhausted" THEN Enter(kind, until) ELSE Enter("ok", 0)

\* notBeforeIso() right after a report: the deadline, or a backoff when latched.
NotBefore ==
    IF kind' \in Timed THEN until' ELSE IF kind' \in Latches THEN Backoff ELSE 0

----------------------------------------------------------------------------
(* gatedReady and the claim pass.                                          *)

Eligible == {t \in GateTickets : phase[t] = "queued" /\ wait[t] = 0}

OverBudget == cap > 0 /\ spent >= cap

\* The budget is reported first, then claimBlockReason() is asked.
PollCheck ==
    /\ poll = "idle" /\ Eligible # {}
    /\ Cardinality(Busy) < MaxConcurrent
    /\ pass' = Eligible
    /\ IF OverBudget /\ Current \notin Latches
         THEN Enter("budget_exhausted", midnight) /\ UNCHANGED streak
         ELSE Read
    /\ poll' = IF kind' = "ok" THEN "open" ELSE "blocked"
    /\ UNCHANGED <<ledgerVars, taskVars>>

\* Mutant: every ticket is claimed through a closed gate.
ClaimableAlways(ready) == pass

\* Not ready: only tickets whose patch needs no inference.
Claimable(ready) == IF ready THEN pass ELSE pass \cap ApplyTickets

\* The gate was open, and the endpoint answered the probe, or it did not.
Readiness == IF poll = "open" THEN BOOLEAN ELSE {FALSE}

GateClaim(t) ==
    /\ \E ready \in Readiness : t \in Claimable(ready)
    /\ poll \in {"open", "blocked"}
    /\ phase' = [phase EXCEPT ![t] = IF t \in ApplyTickets THEN "applying" ELSE "running"]
    /\ poll' = "idle" /\ pass' = {}
    /\ IF t \in ApplyTickets THEN UNCHANGED <<leaked, overrun>>
       ELSE /\ leaked' = IF kind = "ok" THEN leaked ELSE leaked + 1
            /\ overrun' = IF OverBudget THEN overrun + 1 ELSE overrun
    /\ UNCHANGED <<kind, until, streak, spent, midnight, cap, wait, tries, result, garbled>>

ClaimNothing ==
    /\ poll \in {"open", "blocked"}
    /\ \E ready \in Readiness : Claimable(ready) = {}
    /\ poll' = "idle" /\ pass' = {}
    /\ UNCHANGED <<gateVars, ledgerVars, taskVars>>

----------------------------------------------------------------------------
(* Sessions.                                                               *)

\* `git am` applied the series: no session ran and nothing is spent.
ApplyCleanly(t) ==
    /\ phase[t] = "applying"
    /\ phase' = [phase EXCEPT ![t] = "ended"]
    /\ result' = [result EXCEPT ![t] = "applied"]
    /\ UNCHANGED <<gateVars, ledgerVars, wait, tries, garbled, poll, pass>>

\* The series did not apply: an agent session takes over.
ApplyFallback(t) ==
    /\ phase[t] = "applying"
    /\ phase' = [phase EXCEPT ![t] = "running"]
    /\ UNCHANGED <<gateVars, ledgerVars, wait, tries, result, garbled, poll, pass>>

\* runEnveloped: the cost is recorded before anything is decided.
SessionEnds(t) ==
    /\ phase[t] = "running"
    /\ phase' = [phase EXCEPT ![t] = "ended"]
    /\ \E r \in SessionResults : result' = [result EXCEPT ![t] = r]
    /\ \E usd \in {0, 1} : spent' = Lesser(spent + usd, MaxSpend)
    /\ UNCHANGED <<gateVars, midnight, cap, overrun, wait, tries, garbled, poll, pass>>

Finish(t) ==
    /\ phase' = [phase EXCEPT ![t] = "done"]
    /\ UNCHANGED <<wait, tries>>

\* requeueTicket, or failed/ once the budget is used up or when it cannot be kept.
RequeueCharged(t) ==
    IF tries[t] = MaxRetries \/ t \in garbled THEN Finish(t)
    ELSE /\ phase' = [phase EXCEPT ![t] = "queued"]
         /\ tries' = [tries EXCEPT ![t] = @ + 1]
         /\ wait' = [wait EXCEPT ![t] = Backoff * (tries[t] + 1)]

\* Mutant: the not_before is never written.
RequeueAtOnce(t) ==
    /\ phase' = [phase EXCEPT ![t] = "queued"]
    /\ UNCHANGED <<wait, tries>>

\* requeueTicketKeepBudget goes through although the not_before did not persist.
RequeueKeepBudget(t) ==
    /\ phase' = [phase EXCEPT ![t] = "queued"]
    /\ wait' = [wait EXCEPT ![t] = IF t \in garbled THEN 0 ELSE NotBefore]
    /\ UNCHANGED tries

\* Mutant: the synthesized result of a clean apply reports success.
DisposeApplied(t) ==
    \/ result[t] \in {"ok", "applied"} /\ ReportSuccess /\ Finish(t)
    \/ result[t] = "soft" /\ UNCHANGED gateVars /\ Finish(t)
    \/ /\ result[t] \in GateClasses /\ ReportFailure(result[t])
       /\ IF t \in ApplyTickets THEN RequeueCharged(t) ELSE RequeueKeepBudget(t)
    \/ result[t] = "outage" /\ ReportFailure("outage") /\ RequeueCharged(t)
    \/ result[t] = "unknown" /\ UNCHANGED gateVars /\ RequeueCharged(t)

\* Routing of a session's result: the gate's report and what becomes of the ticket.
Dispose(t) ==
    \/ result[t] = "ok" /\ ReportSuccess /\ Finish(t)
    \/ result[t] \in {"applied", "soft"} /\ UNCHANGED gateVars /\ Finish(t)
    \/ /\ result[t] \in GateClasses /\ ReportFailure(result[t])
       /\ IF t \in ApplyTickets THEN RequeueCharged(t) ELSE RequeueKeepBudget(t)
    \/ result[t] = "outage" /\ ReportFailure("outage") /\ RequeueCharged(t)
    \/ result[t] = "unknown" /\ UNCHANGED gateVars /\ RequeueCharged(t)

Report(t) ==
    /\ phase[t] = "ended"
    /\ Dispose(t)
    /\ result' = [result EXCEPT ![t] = "none"]
    /\ UNCHANGED <<ledgerVars, garbled, poll, pass>>

----------------------------------------------------------------------------
(* The environment.                                                        *)

\* The next ticket of the same kind is submitted.
Resubmit(t) ==
    /\ phase[t] = "done"
    /\ phase' = [phase EXCEPT ![t] = "queued"]
    /\ wait' = [wait EXCEPT ![t] = 0] /\ tries' = [tries EXCEPT ![t] = 0]
    /\ garbled' \in {garbled \ {t}, garbled \cup ({t} \ ApplyTickets)}
    /\ UNCHANGED <<gateVars, ledgerVars, result, poll, pass>>

Sooner(n) == IF n = 0 THEN 0 ELSE n - 1

Tick ==
    /\ until' = Sooner(until)
    /\ wait' = [t \in GateTickets |-> Sooner(wait[t])]
    /\ IF midnight = 1 THEN midnight' = Day /\ spent' = 0 /\ overrun' = 0
       ELSE midnight' = midnight - 1 /\ UNCHANGED <<spent, overrun>>
    /\ UNCHANGED <<kind, streak, leaked, cap, phase, tries, result, garbled, poll, pass>>

\* A config hot-reload: the live cap changes and the watcher calls clearLatched().
Reload(c) ==
    /\ c \in Caps
    /\ cap' = c /\ overrun' = IF c = cap THEN overrun ELSE 0
    /\ streak' = 0 /\ Enter("ok", 0)
    /\ UNCHANGED <<spent, midnight, taskVars, poll, pass>>

\* Claimed tickets that recoverOrphans sends back: charged, and it persists.
Kept == {t \in Busy \ garbled : tries[t] < MaxRetries}

\* The gate lives in memory, the ledger on disk; recovered tickets are charged.
Restart ==
    /\ Restarts
    /\ streak' = 0 /\ Enter("ok", 0)
    /\ phase' = [t \in GateTickets |-> IF t \notin Busy THEN phase[t]
                                   ELSE IF t \in Kept THEN "queued" ELSE "done"]
    /\ tries' = [t \in GateTickets |-> IF t \in Kept THEN tries[t] + 1 ELSE tries[t]]
    /\ wait' = [t \in GateTickets |-> IF t \in Kept
                                  THEN Backoff * (tries[t] + 1) ELSE wait[t]]
    /\ result' = [t \in GateTickets |-> "none"]
    /\ poll' = "idle" /\ pass' = {}
    /\ UNCHANGED <<ledgerVars, garbled>>

----------------------------------------------------------------------------
ClaimPass == ClaimNothing \/ \E t \in GateTickets : GateClaim(t)
GateSession(t) == ApplyCleanly(t) \/ ApplyFallback(t) \/ SessionEnds(t) \/ Report(t)

GateNext ==
    \/ PollCheck \/ ClaimPass
    \/ \E t \in GateTickets : GateSession(t) \/ Resubmit(t)
    \/ Tick \/ Restart \/ \E c \in Caps : Reload(c)

GateSpec == GateInit /\ [][GateNext]_allGateVars

\* The event loop polls and runs its sessions to their end, and time passes.
FairGateSpec ==
    /\ GateSpec
    /\ WF_allGateVars(PollCheck) /\ WF_allGateVars(ClaimPass) /\ WF_allGateVars(Tick)
    /\ \A t \in GateTickets : WF_allGateVars(GateSession(t))

----------------------------------------------------------------------------
(* Types; only a backoff has a deadline, and a rate-limit delay never      *)
(* exceeds its ceiling.                                                    *)
GateTypeOK ==
    /\ kind \in Latches \cup Timed \cup {"ok"}
    /\ until \in 0 .. (MaxDelay + Backoff + Day)
    /\ kind \notin Timed => until = 0
    /\ kind = "rate_limited" => until <= MaxDelay
    /\ streak \in 0 .. MaxStreak
    /\ spent \in 0 .. MaxSpend /\ midnight \in 1 .. Day /\ cap \in Caps
    /\ poll \in {"idle", "open", "blocked"} /\ pass \subseteq GateTickets
    /\ phase \in [GateTickets -> Phases]
    /\ wait \in [GateTickets -> Nat]
    /\ tries \in [GateTickets -> 0 .. MaxRetries]
    /\ result \in [GateTickets -> SessionResults \cup {"applied", "none"}]
    /\ garbled \subseteq GateTickets \ ApplyTickets
    /\ leaked \in Nat /\ overrun \in Nat

(* A closed gate stops agent tickets: after it closes, and until it opens, *)
(* at most one is still claimed - the one whose endpoint probe was already *)
(* under way (runOnce.ts claimNextTask, daemon.ts gatedReady).             *)
ClosedGateStopsClaims == leaked <= 1

(* The daily cap is overrun by at most one claim, although sessions in     *)
(* flight overwrite budget_exhausted, latches hide it, hot-reloads clear   *)
(* it and restarts forget it (providerGate.ts header: a stray overwrite    *)
(* cannot survive past the next poll).                                     *)
BudgetOverrunBounded == overrun <= 1

(* What the gate and the ledger keep out: after a latch and after a spent   *)
(* cap at most the one ticket whose readiness was being probed.             *)
GateHolds == GateTypeOK /\ ClosedGateStopsClaims /\ BudgetOverrunBounded

\* The gate is closed, and not only by a deadline that has come.
Shut == kind \in Latches \/ (kind \in Timed /\ until > 0)

(* "The gate, not the budget, prevents a hot loop" (requeue.ts): when a    *)
(* ticket is sent back without a charge, the gate is closed, and the       *)
(* ticket waits too unless malformed frontmatter cannot keep its           *)
(* not_before. Nothing of this holds when the operator sets                *)
(* retryBackoffSeconds to 0, which the schema admits: a rate limit then    *)
(* closes the gate until now, and the ticket is claimed at once.           *)
NoHotLoop ==
    [][\A t \in GateTickets :
          Backoff > 0 /\ phase[t] = "ended" /\ phase'[t] = "queued" /\ tries'[t] = tries[t]
          => Shut' /\ (t \notin garbled => wait'[t] > 0)]_allGateVars

(* When a session's end lifts a latch, that session talked to the model: a *)
(* clean apply says nothing about the provider (prFlow.ts, runOnce.ts).    *)
FreshEvidence ==
    [][\A t \in GateTickets :
          kind \in Latches /\ kind' = "ok" /\ Report(t) => result[t] = "ok"]_allGateVars

(* What the end of a session does to its ticket and to the gate is right:   *)
(* with a backoff, who is sent back free of charge waits or finds the gate  *)
(* closed, and only an answer of the model lifts a latch.                   *)
EndsAreJudged == NoHotLoop /\ FreshEvidence

(* A backoff needs no timer and no operator: while a ticket waits, polls   *)
(* read it and it lapses, unless a latch takes its place. (Not so with an  *)
(* endless supply of apply tickets: they pass the closed gate, and each    *)
(* fallback session that fails pushes the deadline on.)                    *)
BackoffLapses ==
    kind \in Timed ~>
        kind \notin Timed \/ Eligible = {} \/ \E t \in ApplyTickets : phase[t] # "done"

(* Sessions' ends and time move the gate as they should (providerGate.ts).  *)
GateMoves == EndsAreJudged /\ BackoffLapses
=============================================================================
