----------------------------- MODULE AuditReview -----------------------------
(***************************************************************************)
(* The review queue of one audit ticket (assessReview.ts): the batch of    *)
(* findings its run parks (assessFlow.ts), the passes of people who file   *)
(* selected findings as GitHub issues (assessFiling.ts, started by         *)
(* `junco audit file` and by the dashboard), and the replay of the issues  *)
(* that had to be queued (the issue-create case of githubOutbox.ts).       *)
(*                                                                         *)
(* The batch is one JSON file, read before a pass and written back whole   *)
(* at its end. A GitHub call can fail on the network with its effect       *)
(* applied (a lost acknowledgement) or not, or be refused. Every process   *)
(* can be killed between two steps.                                        *)
(***************************************************************************)
EXTENDS Naturals

CONSTANTS
    Findings,     \* fingerprints
    Reports,      \* the sets of findings a run may come back with
    Passes,       \* processes that file: the CLI, the dashboard
    MaxAttempts,  \* MAX_OP_ATTEMPTS
    MaxAudits,    \* bound on the runs of the ticket
    MaxFilings,   \* bound on filing passes
    MaxMishaps    \* bound on network failures, kills, discards, unwatches and refused
                  \* calls of a run or pass, all together

ASSUME AuditReviewAssumption ==
    /\ Reports \subseteq (SUBSET Findings) \ {{}}
    /\ MaxAttempts \in Nat \ {0} /\ MaxAudits \in Nat /\ MaxFilings \in Nat
    /\ MaxMishaps \in Nat

VARIABLES
    batch,   \* the parked batch: its findings and what became of each
    audit,   \* the daemon's run of the ticket
    pass,    \* per process: its filing pass
    ops,     \* queued issue-create ops
    dead,    \* findings of dead-lettered ops
    flush,   \* the replay of the queue
    issues,  \* GitHub: issues that carry a finding's marker
    used,    \* how much of each bound is used
    raced,   \* history: findings two callers were about to create at once, or one
             \* that could not see GitHub's markers
    late     \* history: findings replayed or unwatched while a pass that will stamp
             \* them as queued was under way

auditVars == <<batch, audit, pass, ops, dead, flush, issues, used, raced, late>>

Stamps == {"none", "created", "queued", "deduped"}
Unstamped == [f \in Findings |-> "none"]
\* An empty set of findings is never written.
NoBatch == [findings |-> {}, filed |-> Unstamped]
Batch == [findings : SUBSET Findings, filed : [Findings -> Stamps]]
Parked == batch # NoBatch

IdleAudit == [at |-> "idle", left |-> {}]
IdlePass == [at |-> "idle", base |-> NoBatch, todo |-> {}, seen |-> {},
             filed |-> Unstamped, stamped |-> FALSE]
NoOp == [f |-> "none", attempts |-> 0, name |-> 0]
\* A flush works on `op`; the others it listed are still to come.
IdleFlush == [at |-> "idle", op |-> NoOp, todo |-> {}]

Bound == [audits |-> MaxAudits, filings |-> MaxFilings, mishaps |-> MaxMishaps]

AuditInit ==
    /\ batch = NoBatch /\ audit = IdleAudit
    /\ pass = [p \in Passes |-> IdlePass]
    /\ ops = {} /\ dead = {} /\ flush = IdleFlush
    /\ issues = [f \in Findings |-> 0]
    /\ used = [b \in DOMAIN Bound |-> 0]
    /\ raced = {} /\ late = {}

Use(b) == used[b] < Bound[b] /\ used' = [used EXCEPT ![b] = @ + 1]

Markers == {f \in Findings : issues[f] > 0}
Queued(f) == \E o \in ops : o.f = f

\* Who would create an issue for f on its next step: it looked and saw no marker.
AboutTo(f) == {p \in Passes : /\ pass[p].at = "file"
                              /\ f \in pass[p].todo \ pass[p].seen}
Replaying(f) == flush.at = "create" /\ flush.op.f = f

OpenIssue(f) == issues' = [issues EXCEPT ![f] = @ + 1]
NoteRace(f, others) == raced' = IF others THEN raced \cup {f} ELSE raced

(***************************************************************************)
(* The audit: the agent reports findings, those already filed are dropped, *)
(* the rest replaces the parked batch. A run without findings, or put back *)
(* after a transient failure, changes nothing here.                        *)
(***************************************************************************)
Audit ==
    /\ audit = IdleAudit /\ Use("audits")
    /\ \E found \in Reports : audit' = [at |-> "dedup", left |-> found]
    /\ UNCHANGED <<batch, pass, ops, dead, flush, issues, raced, late>>

\* GitHub-side dedup: unreachable drops nothing, any other error fails the run.
Dedup ==
    /\ audit.at = "dedup"
    /\ \/ audit' = [at |-> "park", left |-> audit.left \ Markers] /\ UNCHANGED used
       \/ Use("mishaps") /\ audit' = [audit EXCEPT !.at = "park"]
       \/ Use("mishaps") /\ audit' = IdleAudit
    /\ UNCHANGED <<batch, pass, ops, dead, flush, issues, raced, late>>

\* Stamps of the findings that park again survive the overwrite.
Carried(left) == [f \in Findings |-> IF f \in left THEN batch.filed[f] ELSE "none"]

Park ==
    /\ audit.at = "park"
    /\ audit' = IdleAudit
    /\ batch' = IF audit.left = {} THEN batch
                ELSE [findings |-> audit.left, filed |-> Carried(audit.left)]
    /\ UNCHANGED <<pass, ops, dead, flush, issues, used, raced, late>>

(***************************************************************************)
(* A filing pass.                                                          *)
(***************************************************************************)
Open(p) ==
    /\ pass[p] = IdlePass /\ Parked /\ Use("filings")
    /\ \E selected \in (SUBSET batch.findings) \ {{}} :
          pass' = [pass EXCEPT ![p] = [at |-> "scan", base |-> batch, todo |-> selected,
                                       seen |-> {}, filed |-> batch.filed, stamped |-> FALSE]]
    /\ UNCHANGED <<batch, audit, ops, dead, flush, issues, raced, late>>

Scan(p) ==
    /\ pass[p].at = "scan"
    /\ \/ /\ pass' = [pass EXCEPT ![p].at = "file", ![p].seen = Markers \cap pass[p].todo]
          /\ UNCHANGED <<used, raced>>
       \/ /\ Use("mishaps")
          /\ pass' = [pass EXCEPT ![p].at = "file"]
          /\ raced' = raced \cup pass[p].todo
       \/ /\ Use("mishaps")
          /\ pass' = [pass EXCEPT ![p] = IdlePass]
          /\ UNCHANGED raced
    /\ UNCHANGED <<batch, audit, ops, dead, flush, issues, late>>

Done(p, f, stamp) ==
    pass' = [pass EXCEPT ![p].todo = @ \ {f}, ![p].filed[f] = stamp,
                         ![p].stamped = @ \/ stamp # pass[p].filed[f]]

\* Mutant: a marker hit overwrites whatever stamp the finding had.
AlreadyFiledOver(p, f) ==
    /\ f \in pass[p].seen
    /\ Done(p, f, "deduped")
    /\ UNCHANGED <<issues, ops, used, raced>>
\* A marker hit never downgrades an existing stamp.
AlreadyFiled(p, f) ==
    /\ f \in pass[p].seen
    /\ Done(p, f, IF pass[p].filed[f] = "none" THEN "deduped" ELSE pass[p].filed[f])
    /\ UNCHANGED <<issues, ops, used, raced>>

Create(p, f) ==
    /\ f \notin pass[p].seen
    /\ OpenIssue(f) /\ NoteRace(f, AboutTo(f) # {p} \/ Replaying(f))
    /\ pass' = [pass EXCEPT ![p].todo = @ \ {f}, ![p].filed[f] = "created", ![p].stamped = TRUE]
    /\ UNCHANGED <<ops, used>>

\* Unreachable: the op is queued, whether or not the issue was opened.
Enqueue(p, f) ==
    /\ f \notin pass[p].seen /\ Use("mishaps")
    /\ \/ OpenIssue(f) /\ NoteRace(f, AboutTo(f) # {p} \/ Replaying(f))
       \/ UNCHANGED <<issues, raced>>
    /\ ops' = ops \cup {[f |-> f, attempts |-> 0, name |-> used.mishaps]}
    /\ pass' = [pass EXCEPT ![p].todo = @ \ {f}, ![p].filed[f] = "queued", ![p].stamped = TRUE]

Refused(p, f) ==
    /\ f \notin pass[p].seen /\ Use("mishaps")
    /\ pass' = [pass EXCEPT ![p].todo = @ \ {f}]
    /\ UNCHANGED <<issues, ops, raced>>

\* Findings are filed in the order of the batch.
InTurn(todo) == CHOOSE f \in todo : TRUE

File(p) ==
    /\ pass[p].at = "file"
    /\ pass[p].todo # {}
    /\ LET f == InTurn(pass[p].todo)
       IN  AlreadyFiled(p, f) \/ Create(p, f) \/ Enqueue(p, f) \/ Refused(p, f)
    /\ UNCHANGED <<batch, audit, dead, flush, late>>

\* The one write of the pass: the batch it read, with its stamps.
Save(p) ==
    /\ pass[p].at = "file" /\ pass[p].todo = {}
    /\ batch' = IF pass[p].stamped THEN [pass[p].base EXCEPT !.filed = pass[p].filed] ELSE batch
    /\ pass' = [pass EXCEPT ![p] = IdlePass]
    /\ UNCHANGED <<audit, ops, dead, flush, issues, used, raced, late>>

(***************************************************************************)
(* The replay. The queue is listed once, by file name; each op's turn      *)
(* scans afresh.                                                           *)
(***************************************************************************)
\* The first op of those listed has its turn.
Turn(listed) ==
    \E op \in listed :
        /\ \A o \in listed : op.name <= o.name
        /\ flush' = [at |-> "scan", op |-> op, todo |-> listed \ {op}]

\* Mutant: an op that was refused once is never tried again.
FlushFresh ==
    /\ flush = IdleFlush
    /\ Turn({o \in ops : o.attempts = 0})
    /\ UNCHANGED <<batch, audit, pass, ops, dead, issues, used, raced, late>>
Flush ==
    /\ flush = IdleFlush
    /\ Turn(ops)
    /\ UNCHANGED <<batch, audit, pass, ops, dead, issues, used, raced, late>>

Rest == Turn(flush.todo) \/ (flush.todo = {} /\ flush' = IdleFlush)

\* Only a queued stamp learns what became of its op.
Upgrade(f, stamp) ==
    batch' = IF batch.filed[f] = "queued" THEN [batch EXCEPT !.filed[f] = stamp] ELSE batch

\* The op of f is done: a pass that has yet to write its queued stamp comes late.
Sent(stamp) ==
    LET f == flush.op.f
    IN  /\ Upgrade(f, stamp)
        /\ ops' = ops \ {flush.op} /\ Rest
        /\ late' = IF \E p \in Passes : pass[p].filed[f] = "queued" THEN late \cup {f} ELSE late
        /\ UNCHANGED dead

Offline == flush' = IdleFlush /\ UNCHANGED <<batch, ops, dead, late>>

\* A refusal counts against the op. The last one moves its file to outbox/dead/,
\* unless it was deleted meanwhile; an earlier one writes the file anew, deleted
\* or not.
Attempted ==
    LET op == flush.op
        again == [op EXCEPT !.attempts = @ + 1]
    IN  /\ ops' = (ops \ {op}) \cup (IF again.attempts < MaxAttempts THEN {again} ELSE {})
        /\ dead' = IF again.attempts >= MaxAttempts /\ op \in ops THEN dead \cup {op.f} ELSE dead
        /\ Rest /\ UNCHANGED <<batch, late, used>>

\* Mutant: the replay creates without looking for the marker.
FlushScanBlind ==
    /\ flush.at = "scan"
    /\ flush' = [flush EXCEPT !.at = "create"]
    /\ UNCHANGED <<batch, ops, dead, late, used, audit, pass, issues, raced>>
FlushScan ==
    /\ flush.at = "scan"
    /\ \/ Use("mishaps") /\ Offline
       \/ Attempted
       \/ flush.op.f \in Markers /\ Sent("deduped") /\ UNCHANGED used
       \/ /\ flush.op.f \notin Markers
          /\ flush' = [flush EXCEPT !.at = "create"]
          /\ UNCHANGED <<batch, ops, dead, late, used>>
    /\ UNCHANGED <<audit, pass, issues, raced>>

FlushCreate ==
    /\ flush.at = "create"
    /\ LET f == flush.op.f
           Opened == OpenIssue(f) /\ NoteRace(f, AboutTo(f) # {})
       IN  \/ Opened /\ Sent("created") /\ UNCHANGED used
           \/ Use("mishaps") /\ Offline /\ (Opened \/ UNCHANGED <<issues, raced>>)
           \/ Attempted /\ UNCHANGED <<issues, raced>>
    /\ UNCHANGED <<audit, pass>>

(***************************************************************************)
(* People and crashes.                                                     *)
(***************************************************************************)
Discard ==
    /\ Parked /\ Use("mishaps")
    /\ batch' = NoBatch
    /\ UNCHANGED <<audit, pass, ops, dead, flush, issues, raced, late>>

\* Unwatching deletes the repository's queued ops with the batch, and a pass that
\* has yet to write its queued stamp comes late; refused while one of its tickets
\* runs.
Unwatch ==
    /\ audit = IdleAudit /\ Use("mishaps")
    /\ batch' = NoBatch /\ ops' = {}
    /\ late' = late \cup {f \in Findings : \E p \in Passes : pass[p].filed[f] = "queued"}
    /\ UNCHANGED <<audit, pass, dead, flush, issues, raced>>

KillPass(p) ==
    /\ pass[p] # IdlePass /\ Use("mishaps")
    /\ pass' = [pass EXCEPT ![p] = IdlePass]
    /\ UNCHANGED <<batch, audit, ops, dead, flush, issues, raced, late>>

KillDaemon ==
    /\ (audit # IdleAudit \/ flush # IdleFlush) /\ Use("mishaps")
    /\ audit' = IdleAudit /\ flush' = IdleFlush
    /\ UNCHANGED <<batch, pass, ops, dead, issues, raced, late>>

AuditStep == Dedup \/ Park
PassStep(p) == Scan(p) \/ File(p) \/ Save(p)
FlushStep == Flush \/ FlushScan \/ FlushCreate
AuditNext ==
    \/ Audit \/ AuditStep \/ FlushStep \/ Discard \/ Unwatch \/ KillDaemon
    \/ \E p \in Passes : Open(p) \/ PassStep(p) \/ KillPass(p)
-----------------------------------------------------------------------------
Op == [f : Findings, attempts : 0 .. MaxAttempts - 1, name : Nat]
AuditTypeOK ==
    /\ batch \in Batch /\ audit.at \in {"idle", "dedup", "park"}
    /\ \A p \in Passes : /\ pass[p].at \in {"idle", "scan", "file"}
                         /\ pass[p].base \in Batch /\ pass[p].filed \in [Findings -> Stamps]
                         /\ pass[p].todo \subseteq Findings /\ pass[p].stamped \in BOOLEAN
    /\ ops \subseteq Op /\ flush.todo \subseteq Op
    /\ flush.at \in {"idle", "scan", "create"} /\ (flush.at # "idle" => flush.op \in Op)
    /\ issues \in [Findings -> Nat]

\* A finding becomes one issue, across lost acknowledgements, kills, replays and
\* repeated passes; only two callers that both looked before either created, or
\* one that could not look, open a second (assessFiling.ts:112, githubOutbox.ts:800).
OneIssueEach == \A f \in Findings : issues[f] > 1 => f \in raced

\* A stamp is true: an issue stands behind "created" and "deduped", and an op
\* that is still to be sent, or was given up, behind "queued". The exception is
\* a pass that writes its stamp after the replay of its own op (assessFiling.ts:229).
StampsAreTrue ==
    \A f \in batch.findings :
        /\ batch.filed[f] \in {"created", "deduped"} => issues[f] > 0
        /\ batch.filed[f] = "queued" => Queued(f) \/ f \in dead \cup late

\* A pass that writes back a batch that is no longer the one it read.
StaleSave == \E p \in Passes :
    pass[p].at = "file" /\ pass'[p] = IdlePass /\ pass[p].base # batch

\* What the reader of the batch was told stays so: a "created" stamp with its URL
\* is never downgraded while its finding is parked, and a batch that was thrown
\* out comes back only from another audit. The exceptions are a pass overtaken by
\* another writer (assessFiling.ts:222 accepts it for a re-run of the audit) and
\* one that could not see the markers and so queues what was filed before.
BatchStands ==
    \/ StaleSave
    \/ /\ \A f \in batch.findings \cap batch'.findings :
             batch.filed[f] = "created" /\ f \notin raced => batch'.filed[f] = "created"
       /\ ~Parked /\ batch' # NoBatch => audit.at = "park"

\* Every queued stamp learns what became of its op: none keeps waiting.
Waiting == {f \in Findings : batch.filed[f] = "queued"} \ (dead \cup late)
StampsSettle == Waiting # {} ~> Waiting = {}
=============================================================================
