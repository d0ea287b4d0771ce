---------------------------- MODULE TicketQueue ----------------------------
(***************************************************************************)
(* The ticket queue of the worker: Markdown files that move by rename      *)
(* between inbox/, processing/, done/ and failed/, and the processes that  *)
(* move them.                                                              *)
(*                                                                         *)
(*   - the daemon: one Main coroutine (startup recovery, poll, claim) and  *)
(*     a pool of Slots that each execute one claimed ticket (daemon.ts,    *)
(*     orphans.ts, runOnce.ts);                                            *)
(*   - lock-free `junco run-once` processes, the Pokes (cli.ts);           *)
(*   - `junco submit` and `junco rm`, run by an operator at any time.      *)
(*                                                                         *)
(* A step is what runs between two awaits, cut further where a crash or    *)
(* another process can come between two renames: a requeue or a            *)
(* finalization first rewrites the claimed file in processing/ and then    *)
(* renames it away, and a claim looks whether its destination is free and  *)
(* then renames. A ticket is one submission; its file is found by NAME, so *)
(* an executor holds a path and not a file.                                *)
(***************************************************************************)
EXTENDS Naturals, FiniteSets

CONSTANTS
    Tickets,        \* submissions, each with its own content
    Names,          \* base names a submission's id maps to
    RetryNames,     \* the `<id>-r<n>.md` names a colliding requeue picks
    NameOf,         \* the inbox name of a submission
    NoRepo,         \* a Q&A ticket has no repository
    RepoOf,         \* canonical repository of a ticket, or NoRepo
    Rank,           \* PRIORITY_RANK of a ticket
    ApplyTickets,   \* PR-flow tickets whose body is a patch: no inference
    Malformed,      \* frontmatter that cannot hold the retry state
    Main,           \* the daemon's main coroutine
    Slots,          \* the daemon's in-flight slots: maxConcurrent of them
    Pokes,          \* `junco run-once` processes
    MaxRetries,     \* worker.maxTransientRetries
    Backoff,        \* worker.retryBackoffSeconds, in minutes
    MaxTime,        \* bound on the clock (minutes)
    MaxHalts,       \* bound on daemon crashes and stop signals
    MaxKept,        \* bound on budget-free requeues: none once a ticket had so many
    Removable,      \* tickets the operator may `junco rm`
    AtomicMoveBack, \* TRUE: no process runs inside requeue's exists/rename
    SerialClaims,   \* TRUE: no two processes are inside claim's exists/rename
    PokesOnlyWhenUp \* TRUE: no run-once overlaps a daemon's downtime or start

AllNames == Names \cup RetryNames

ASSUME QueueAssumption ==
    /\ MaxRetries \in Nat /\ Backoff \in Nat /\ MaxTime \in Nat
    /\ MaxHalts \in Nat /\ MaxKept \in Nat
    /\ AtomicMoveBack \in BOOLEAN /\ SerialClaims \in BOOLEAN
    /\ PokesOnlyWhenUp \in BOOLEAN
    /\ Removable \subseteq Tickets
    /\ NameOf \in [Tickets -> Names]
    /\ Rank \in [Tickets -> Nat]
    /\ ApplyTickets \subseteq Tickets /\ Malformed \subseteq Tickets
    /\ DOMAIN RepoOf = Tickets
    /\ \A t \in ApplyTickets : RepoOf[t] # NoRepo
    /\ \A t \in Malformed : RepoOf[t] = NoRepo
    /\ Main \notin Slots \cup Pokes
    /\ Slots \cap Pokes = {}
    /\ Names \cap RetryNames = {}

VARIABLES
    dir,      \* directory that holds the ticket's file
    name,     \* its base name
    stamp,    \* its claim stamp (minute) while in processing/
    retry,    \* retry_count in its frontmatter
    nb,       \* not_before in its frontmatter
    now,      \* wall clock, in minutes
    daemon,   \* where the daemon's main coroutine is
    stop,     \* StopFlag.requested
    orphans,  \* processing/ paths recoverOrphans has still to visit
    snap,     \* candidates a claim pass of the daemon or a run-once has yet to try
    job,      \* what each executor is doing
    halts,    \* crashes and stops so far (bound)
    started,  \* history: sessions started for a ticket
    kept      \* history: budget-free requeues of a ticket

fileVars == <<dir, name, stamp, retry, nb>>
vars == <<dir, name, stamp, retry, nb, now, daemon, stop, orphans, snap, job,
          halts, started, kept>>

----------------------------------------------------------------------------
Executors == Slots \cup Pokes \cup {Main}
Claimers == Pokes \cup {Main}

Dirs == {"none", "inbox", "processing", "done", "failed", "removed", "clobbered"}
Path == (0 .. MaxTime) \X AllNames
Candidate == [ticket : Tickets, name : AllNames, retry : 0 .. MaxRetries]

(* "claim": claim has found its destination free and is about to rename;   *)
(* "running": the session; "moveBack"/"rename": the requeue has rewritten  *)
(* the file and is about to pick a name / to rename to it; "toDone" and    *)
(* "toFailed": finalize has rewritten the file; "report": the last await.  *)
Working == {"running", "moveBack", "rename", "toDone", "toFailed"}
Job == [pc : Working \cup {"claim", "report"}, ticket : Tickets, path : Path,
        retry : 0 .. MaxRetries, dst : AllNames]
NoJob == [pc |-> "idle"]

Earlier(a, b) == IF a <= b THEN a ELSE b

InboxAt(n) == {t \in Tickets : dir[t] = "inbox" /\ name[t] = n}
ClaimedAt(p) == {t \in Tickets : dir[t] = "processing" /\ <<stamp[t], name[t]>> = p}
\* Mutant: recoverOrphans lists nothing.
ProcessingPathsMissed == {}
ProcessingPaths == {<<stamp[t], name[t]>> : t \in {u \in Tickets : dir[u] = "processing"}}

Idle(e) == job[e] = NoJob
\* Mutant: skipRepoKeys is never filled.
BusyReposForgotten == {}
BusyRepos == {RepoOf[job[s].ticket] : s \in {x \in Slots : ~Idle(x)}} \ {NoRepo}

Init ==
    /\ dir = [t \in Tickets |-> "none"]
    /\ name = [t \in Tickets |-> NameOf[t]]
    /\ stamp = [t \in Tickets |-> 0]
    /\ retry = [t \in Tickets |-> 0]
    /\ nb = [t \in Tickets |-> 0]
    /\ now = 0
    /\ daemon = "down" /\ stop = FALSE /\ orphans = {}
    /\ snap = [c \in Claimers |-> {}]
    /\ job = [e \in Executors |-> NoJob]
    /\ halts = 0
    /\ started = [t \in Tickets |-> 0]
    /\ kept = [t \in Tickets |-> 0]

----------------------------------------------------------------------------
(* The operator and the clock.                                             *)

\* submitTicket: link(2) into place, refused when the name is taken.
Submit(t) ==
    /\ dir[t] = "none" /\ InboxAt(NameOf[t]) = {}
    /\ dir' = [dir EXCEPT ![t] = "inbox"]
    /\ UNCHANGED <<name, stamp, retry, nb, now, daemon, stop, orphans, snap,
                   job, halts, started, kept>>

\* `junco rm`: unlink a queued file.
Remove(t) ==
    /\ t \in Removable /\ dir[t] = "inbox"
    /\ dir' = [dir EXCEPT ![t] = "removed"]
    /\ UNCHANGED <<name, stamp, retry, nb, now, daemon, stop, orphans, snap,
                   job, halts, started, kept>>

Tick ==
    /\ now < MaxTime
    /\ now' = now + 1
    /\ UNCHANGED <<fileVars, daemon, stop, orphans, snap, job, halts, started, kept>>

----------------------------------------------------------------------------
(* Claiming: discover and parse, await readiness, then for one candidate   *)
(* after the other look whether its destination is free and rename, until  *)
(* a rename succeeds.                                                      *)

Eligible == {t \in Tickets : dir[t] = "inbox" /\ nb[t] <= now}

Candidates == {[ticket |-> t, name |-> name[t], retry |-> retry[t]] : t \in Eligible}

\* Mutant: claim without the destination-exists guard.
ClaimableBlind(cands) == cands

\* The candidates of cands whose destination is free now.
Claimable(cands) == {x \in cands : ClaimedAt(<<now, x.name>>) = {}}

\* The daemon passes its busy repositories; unready, it takes apply tickets only.
DaemonClaimable(ready) ==
    {x \in Claimable(snap[Main]) : /\ ready \/ x.ticket \in ApplyTickets
                                   /\ RepoOf[x.ticket] \notin BusyRepos}

\* A slot is between look and rename: the daemon runs nothing else.
MidClaim == \E s \in Slots : job[s].pc = "claim"
Turn(e) == e \in Slots \cup {Main} => ~MidClaim

\* The pass of c, for executor e, has looked: the first candidate by rank
\* that can be claimed is at hand, and those before it are given up.
LookFirst(c, e, claimable) ==
    /\ SerialClaims => \A f \in Executors : job[f].pc # "claim"
    /\ \E x \in claimable :
          /\ \A y \in claimable : Rank[y.ticket] <= Rank[x.ticket]
          /\ job' = [job EXCEPT ![e] =
                       [pc |-> "claim", ticket |-> x.ticket, path |-> <<now, x.name>>,
                        retry |-> x.retry, dst |-> x.name]]
          /\ snap' = [snap EXCEPT ![c] =
                        {y \in @ : Rank[y.ticket] <= Rank[x.ticket]}]

\* rename(2) moves the file now found under the candidate's name, whatever
\* it contains, and replaces whatever is at the destination.
ClaimFile(e) ==
    \E u \in InboxAt(job[e].path[2]) :
        /\ dir' = [t \in Tickets |-> IF t = u THEN "processing"
                                     ELSE IF t \in ClaimedAt(job[e].path) THEN "clobbered"
                                     ELSE dir[t]]
        /\ stamp' = [stamp EXCEPT ![u] = job[e].path[1]]
        /\ job' = [job EXCEPT ![e].pc = "running"]
        /\ started' = [started EXCEPT ![job[e].ticket] = @ + 1]

PassOf(e) == IF e \in Slots THEN Main ELSE e

\* The rename, which ends the pass.
ClaimRename(e) ==
    /\ job[e].pc = "claim" /\ ClaimFile(e)
    /\ snap' = [snap EXCEPT ![PassOf(e)] = {}]
    /\ daemon' = IF e \in Slots THEN "polling" ELSE daemon
    /\ UNCHANGED <<name, retry, nb, now, stop, orphans, halts, kept>>

AtHand(e) == [ticket |-> job[e].ticket, name |-> job[e].path[2], retry |-> job[e].retry]

\* ENOENT: the source vanished since it was read; the pass goes on.
ClaimLost(e) ==
    /\ job[e].pc = "claim" /\ InboxAt(job[e].path[2]) = {}
    /\ job' = [job EXCEPT ![e] = NoJob]
    /\ snap' = [snap EXCEPT ![PassOf(e)] = @ \ {AtHand(e)}]
    /\ UNCHANGED <<fileVars, now, daemon, stop, orphans, halts, started, kept>>

ClaimEnds(e) == ClaimRename(e) \/ ClaimLost(e)

\* runScheduler's top-up: a free slot, no stop, something eligible.
PollBegin ==
    /\ daemon = "polling" /\ ~stop
    /\ \E s \in Slots : Idle(s)
    /\ Eligible # {}
    /\ snap' = [snap EXCEPT ![Main] = Candidates]
    /\ daemon' = "claiming"
    /\ UNCHANGED <<fileVars, now, stop, orphans, job, halts, started, kept>>

\* The stop flag is not read again after the readiness await.
PollLook(ready) ==
    /\ daemon = "claiming" /\ ~MidClaim
    /\ \E s \in Slots : Idle(s) /\ LookFirst(Main, s, DaemonClaimable(ready))
    /\ UNCHANGED <<fileVars, now, daemon, stop, orphans, halts, started, kept>>

PollNothing(ready) ==
    /\ daemon = "claiming" /\ ~MidClaim /\ DaemonClaimable(ready) = {}
    /\ snap' = [snap EXCEPT ![Main] = {}]
    /\ daemon' = "polling"
    /\ UNCHANGED <<fileVars, now, stop, orphans, job, halts, started, kept>>

\* `junco run-once` has no probe to await, no gate and no busy repositories.
PokeBegin(p) ==
    /\ Idle(p) /\ snap[p] = {} /\ Candidates # {}
    /\ PokesOnlyWhenUp => daemon \in {"polling", "claiming"}
    /\ snap' = [snap EXCEPT ![p] = Candidates]
    /\ UNCHANGED <<fileVars, now, daemon, stop, orphans, job, halts, started, kept>>

PokeLook(p) ==
    /\ Idle(p) /\ LookFirst(p, p, Claimable(snap[p]))
    /\ UNCHANGED <<fileVars, now, daemon, stop, orphans, halts, started, kept>>

PokeNothing(p) ==
    /\ Idle(p) /\ snap[p] # {} /\ Claimable(snap[p]) = {}
    /\ snap' = [snap EXCEPT ![p] = {}]
    /\ UNCHANGED <<fileVars, now, daemon, stop, orphans, job, halts, started, kept>>

\* run-once installs no signal handler and nobody recovers what it leaves.
\* Bound: not in the last minute, so that the clock leaves its claim stamp.
PokeCrash(p) ==
    /\ ~Idle(p) /\ halts < MaxHalts /\ now < MaxTime
    /\ halts' = halts + 1
    /\ job' = [job EXCEPT ![p] = NoJob] /\ snap' = [snap EXCEPT ![p] = {}]
    /\ UNCHANGED <<fileVars, now, daemon, stop, orphans, started, kept>>

----------------------------------------------------------------------------
(* The end of a session. Each action ends with the rewrite of the claimed  *)
(* file in processing/; when the file is gone the read throws, containment *)
(* throws too, and the job just ends.                                      *)

Goto(e, pc) == job' = [job EXCEPT ![e].pc = pc]

Vanished(e) ==
    /\ job[e].pc = "running" /\ ClaimedAt(job[e].path) = {}
    /\ job' = [job EXCEPT ![e] = NoJob]
    /\ UNCHANGED <<fileVars, now, daemon, stop, orphans, snap, halts, started, kept>>

\* finalize / finalizePr, and every path that falls through to them.
FinalizeWrite(e) ==
    /\ job[e].pc = "running" /\ ClaimedAt(job[e].path) # {}
    /\ \E pc \in {"toDone", "toFailed"} : Goto(e, pc)
    /\ UNCHANGED <<fileVars, now, daemon, stop, orphans, snap, halts, started, kept>>

\* Mutant: the frontmatter upsert of retry_count does not persist.
ChargeRetryLost(u, seen) ==
    /\ retry' = [retry EXCEPT ![u] = seen]
    /\ nb' = [nb EXCEPT ![u] = Earlier(now + Backoff * (seen + 1), MaxTime)]

\* requeueTicket's rewrite, with the retry count the caller parsed.
ChargeRetry(u, seen) ==
    /\ retry' = [retry EXCEPT ![u] = seen + 1]
    /\ nb' = [nb EXCEPT ![u] = Earlier(now + Backoff * (seen + 1), MaxTime)]

\* A transient failure, or an exception contained by executeClaimed.
RequeueWrite(e) ==
    /\ job[e].pc = "running" /\ job[e].retry < MaxRetries
    /\ \E u \in ClaimedAt(job[e].path) \ Malformed : ChargeRetry(u, job[e].retry)
    /\ Goto(e, "moveBack")
    /\ UNCHANGED <<dir, name, stamp, now, daemon, stop, orphans, snap, halts, started, kept>>

\* requeueTicketKeepBudget: a gate-class failure in the daemon.
KeepBudgetWrite(e) ==
    /\ e \in Slots /\ job[e].pc = "running"
    /\ \E u \in ClaimedAt(job[e].path), until \in now .. Earlier(now + Backoff, MaxTime) :
          /\ \A v \in Tickets : kept[v] < MaxKept
          /\ kept' = [kept EXCEPT ![u] = @ + 1]
          /\ nb' = IF u \in Malformed THEN nb ELSE [nb EXCEPT ![u] = until]
    /\ Goto(e, "moveBack")
    /\ UNCHANGED <<dir, name, stamp, retry, now, daemon, stop, orphans, snap, halts, started>>

SessionEnds(e) ==
    Turn(e) /\ (Vanished(e) \/ FinalizeWrite(e) \/ RequeueWrite(e) \/ KeepBudgetWrite(e))

----------------------------------------------------------------------------
(* The second half: the rename out of processing/.                         *)

\* recoverOrphans reports to nobody; executeClaimed awaits its reporter.
AfterMove(e) ==
    job' = [job EXCEPT ![e] = IF e = Main THEN NoJob ELSE [@ EXCEPT !.pc = "report"]]

\* Mutant: no collision suffix.
BackNamesBlind(n) == {n}

\* moveBackToInbox: the plain name when free, else a free `-r<n>` name.
BackNames(n) ==
    IF InboxAt(n) = {} THEN {n} ELSE {m \in RetryNames : InboxAt(m) = {}}

\* rename(2) replaces whatever is at the destination.
RenameToInbox(e, n) ==
    IF ClaimedAt(job[e].path) = {}
      THEN job' = [job EXCEPT ![e] = NoJob] /\ UNCHANGED <<dir, name>>
      ELSE /\ dir' = [t \in Tickets |-> IF t \in ClaimedAt(job[e].path) THEN "inbox"
                                        ELSE IF t \in InboxAt(n) THEN "clobbered"
                                        ELSE dir[t]]
           /\ name' = [t \in Tickets |-> IF t \in ClaimedAt(job[e].path) THEN n ELSE name[t]]
           /\ AfterMove(e)

MoveBack(e) ==
    /\ AtomicMoveBack /\ job[e].pc = "moveBack"
    /\ \E n \in BackNames(job[e].path[2]) : RenameToInbox(e, n)
    /\ UNCHANGED <<stamp, retry, nb, now, daemon, stop, orphans, snap, halts, started, kept>>

PickName(e) ==
    /\ ~AtomicMoveBack /\ job[e].pc = "moveBack"
    /\ \E n \in BackNames(job[e].path[2]) :
          job' = [job EXCEPT ![e].pc = "rename", ![e].dst = n]
    /\ UNCHANGED <<fileVars, now, daemon, stop, orphans, snap, halts, started, kept>>

RenameBack(e) ==
    /\ job[e].pc = "rename"
    /\ RenameToInbox(e, job[e].dst)
    /\ UNCHANGED <<stamp, retry, nb, now, daemon, stop, orphans, snap, halts, started, kept>>

\* uniqueDestPath makes the terminal name fresh: nothing is replaced.
MoveTerminal(e) ==
    /\ job[e].pc \in {"toDone", "toFailed"}
    /\ IF ClaimedAt(job[e].path) = {}
         THEN job' = [job EXCEPT ![e] = NoJob] /\ UNCHANGED dir
         ELSE /\ dir' = [t \in Tickets |->
                           IF t \in ClaimedAt(job[e].path)
                             THEN IF job[e].pc = "toDone" THEN "done" ELSE "failed"
                             ELSE dir[t]]
              /\ AfterMove(e)
    /\ UNCHANGED <<name, stamp, retry, nb, now, daemon, stop, orphans, snap,
                   halts, started, kept>>

\* Mutant: the slot is not released when the task settles.
SettleLeaks(e) == FALSE /\ UNCHANGED vars

\* The reporter's await ends: the slot and the repository are free again.
Settle(e) ==
    /\ job[e].pc = "report"
    /\ job' = [job EXCEPT ![e] = NoJob]
    /\ UNCHANGED <<fileVars, now, daemon, stop, orphans, snap, halts, started, kept>>

Moves(e) ==
    Turn(e) /\ (MoveBack(e) \/ PickName(e) \/ RenameBack(e) \/ MoveTerminal(e) \/ Settle(e))

----------------------------------------------------------------------------
(* The daemon's life.                                                      *)

Start ==
    /\ daemon = "down"
    /\ PokesOnlyWhenUp => \A p \in Pokes : Idle(p) /\ snap[p] = {}
    /\ daemon' = "recovering"
    /\ orphans' = ProcessingPaths
    /\ UNCHANGED <<fileVars, now, stop, snap, job, halts, started, kept>>

\* One iteration of recoverOrphans, up to the rewrite of the file.
RecoverWrite(p) ==
    /\ daemon = "recovering" /\ Idle(Main) /\ p \in orphans
    /\ orphans' = orphans \ {p}
    /\ IF ClaimedAt(p) = {} THEN UNCHANGED <<retry, nb, job>>
       ELSE \E u \in ClaimedAt(p) :
              LET requeued == retry[u] < MaxRetries /\ u \notin Malformed IN
              /\ IF requeued THEN ChargeRetry(u, retry[u]) ELSE UNCHANGED <<retry, nb>>
              /\ job' = [job EXCEPT ![Main] =
                           [pc |-> IF requeued THEN "moveBack" ELSE "toFailed",
                            ticket |-> u, path |-> p, retry |-> retry[u], dst |-> p[2]]]
    /\ UNCHANGED <<dir, name, stamp, now, daemon, stop, snap, halts, started, kept>>

Online ==
    /\ daemon = "recovering" /\ orphans = {} /\ Idle(Main)
    /\ daemon' = "polling"
    /\ UNCHANGED <<fileVars, now, stop, orphans, snap, job, halts, started, kept>>

RequestStop ==
    /\ daemon # "down" /\ ~stop /\ halts < MaxHalts
    /\ stop' = TRUE /\ halts' = halts + 1
    /\ UNCHANGED <<fileVars, now, daemon, orphans, snap, job, started, kept>>

BeginDrain ==
    /\ daemon = "polling" /\ stop
    /\ daemon' = "draining"
    /\ UNCHANGED <<fileVars, now, stop, orphans, snap, job, halts, started, kept>>

\* Mutant: the loop returns without draining the in-flight set.
ExitUndrained ==
    /\ daemon = "draining"
    /\ daemon' = "down" /\ stop' = FALSE
    /\ job' = [e \in Executors |-> IF e \in Pokes THEN job[e] ELSE NoJob]
    /\ UNCHANGED <<fileVars, now, orphans, snap, halts, started, kept>>

Exit ==
    /\ daemon = "draining" /\ \A s \in Slots : Idle(s)
    /\ daemon' = "down" /\ stop' = FALSE
    /\ UNCHANGED <<fileVars, now, orphans, snap, job, halts, started, kept>>

Crash ==
    /\ daemon # "down" /\ halts < MaxHalts
    /\ daemon' = "down" /\ stop' = FALSE /\ orphans' = {} /\ halts' = halts + 1
    /\ snap' = [snap EXCEPT ![Main] = {}]
    /\ job' = [e \in Executors |-> IF e \in Pokes THEN job[e] ELSE NoJob]
    /\ UNCHANGED <<fileVars, now, started, kept>>

----------------------------------------------------------------------------
Claim == \E ready \in BOOLEAN : PollLook(ready) \/ PollNothing(ready)
Recover == \E p \in orphans : RecoverWrite(p)
Operator == \E t \in Tickets : Submit(t) \/ Remove(t)
Poke == \E p \in Pokes : PokeBegin(p) \/ PokeLook(p) \/ PokeNothing(p) \/ PokeCrash(p)
Execute == \E e \in Executors : ClaimEnds(e) \/ SessionEnds(e) \/ Moves(e)
Lifecycle == Start \/ Recover \/ Online \/ RequestStop \/ BeginDrain \/ Exit \/ Crash

Next == Operator \/ Tick \/ PollBegin \/ Claim \/ Poke \/ Execute \/ Lifecycle

Spec == Init /\ [][Next]_vars

(* A supervised daemon is restarted and its event loop runs: every step of *)
(* the daemon that stays enabled is taken, a session ends, time passes,    *)
(* and the endpoint is reachable for infinitely many claim passes.         *)
Fairness ==
    /\ WF_vars(Start) /\ WF_vars(Recover) /\ WF_vars(Online)
    /\ WF_vars(PollBegin) /\ WF_vars(Claim) /\ SF_vars(PollLook(TRUE))
    /\ WF_vars(BeginDrain) /\ WF_vars(Exit) /\ WF_vars(Tick)
    /\ \A e \in Executors :
          WF_vars(ClaimEnds(e)) /\ WF_vars(SessionEnds(e)) /\ WF_vars(Moves(e))

FairSpec == Spec /\ Fairness

----------------------------------------------------------------------------
(* Properties.                                                             *)

TypeOK ==
    /\ dir \in [Tickets -> Dirs]
    /\ name \in [Tickets -> AllNames]
    /\ stamp \in [Tickets -> 0 .. MaxTime]
    /\ retry \in [Tickets -> 0 .. MaxRetries]
    /\ nb \in [Tickets -> 0 .. MaxTime]
    /\ now \in 0 .. MaxTime
    /\ daemon \in {"down", "recovering", "polling", "claiming", "draining"}
    /\ stop \in BOOLEAN
    /\ orphans \subseteq Path
    /\ snap \in [Claimers -> SUBSET Candidate]
    /\ job \in [Executors -> Job \cup {NoJob}]
    /\ halts \in 0 .. MaxHalts
    /\ started \in [Tickets -> Nat]
    /\ kept \in [Tickets -> 0 .. MaxKept]

(* No rename in inbox/ or processing/ ever replaces another ticket's file: *)
(* no two tickets share a path, and none was overwritten (queue.ts claim's *)
(* destination guard, requeue.ts moveBackToInbox's `-r<n>` loop).          *)
NothingOverwritten ==
    /\ \A t \in Tickets : dir[t] # "clobbered"
    /\ \A t, u \in Tickets :
          /\ t # u /\ dir[t] = dir[u]
          /\ dir[t] \in {"inbox", "processing"} /\ name[t] = name[u]
          => dir[t] = "processing" /\ stamp[t] # stamp[u]

(* Two executors never work on the same claimed file: the claim is one     *)
(* rename, and startup recovery touches no file that is being executed.    *)
SingleOwner ==
    \A e, f \in Executors :
        e # f /\ job[e].pc \in Working /\ job[f].pc \in Working
        => job[e].path # job[f].path

(* The file an executor will finalize or requeue is the file of the ticket *)
(* whose body it runs, unless the operator removed that ticket while its   *)
(* claim pass was awaiting readiness.                                      *)
HoldsItsTicket ==
    \A e \in Executors :
        job[e].pc \in Working =>
            ClaimedAt(job[e].path) = {job[e].ticket} \/ dir[job[e].ticket] = "removed"

(* Tickets that target one repository never run at the same time           *)
(* (docs/operations.md: they always serialize).                            *)
SameRepoSerialized ==
    \A e, f \in Slots \cup Pokes :
        /\ e # f /\ job[e].pc \in Working /\ job[f].pc \in Working
        /\ RepoOf[job[e].ticket] # NoRepo
        => RepoOf[job[e].ticket] # RepoOf[job[f].ticket]

(* A file in processing/ is being worked on, or the startup recovery of    *)
(* this or of the next daemon has it on its list.                          *)
NothingStranded ==
    \A t \in Tickets : dir[t] = "processing" =>
        \/ daemon = "down"
        \/ <<stamp[t], name[t]>> \in orphans
        \/ \E e \in Executors : job[e].pc \in Working /\ job[e].path = <<stamp[t], name[t]>>

(* A daemon that exits after a stop leaves no claimed file behind.         *)
CleanExit ==
    [][daemon # "down" /\ daemon' = "down" /\ halts' = halts => ProcessingPaths = {}]_vars

(* Every queued ticket is eventually done, failed or removed, through       *)
(* crashes, stops and requeues. Two things can come in between: another     *)
(* process's rename that replaces its file, and a run-once that dies with   *)
(* it while the daemon is up (it then waits for the next restart).          *)
Abandoned(t) ==
    /\ dir[t] = "processing" /\ daemon # "down"
    /\ <<stamp[t], name[t]>> \notin orphans
    /\ \A e \in Executors : ~ (job[e].pc \in Working /\ job[e].path = <<stamp[t], name[t]>>)

EventuallySettled ==
    \A t \in Tickets :
        dir[t] = "inbox" ~> dir[t] \in {"done", "failed", "removed", "clobbered"} \/ Abandoned(t)

(* The queue implements the abstract life cycle of a ticket.               *)
Phase == [none |-> "unsubmitted", inbox |-> "queued", processing |-> "running",
          done |-> "done", failed |-> "failed", removed |-> "withdrawn",
          clobbered |-> "lost"]
phaseOf == [t \in Tickets |-> Phase[dir[t]]]

Abstract == INSTANCE TicketLifecycle WITH
    phase <- phaseOf, charges <- retry, sessions <- started, waived <- kept

ImplementsLifecycle == Abstract!Spec
=============================================================================
