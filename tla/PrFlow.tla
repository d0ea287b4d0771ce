------------------------------- MODULE PrFlow -------------------------------
(***************************************************************************)
(* The pull request flow of one ticket (prFlow.ts, repo.ts, worktree.ts,   *)
(* postSessionReview.ts) in fresh mode: validate against the push remote,  *)
(* cut a worktree, apply the ticket's patch or run the agent, review,      *)
(* push, open the pull request, finalize - with what a session, a kill,    *)
(* GitHub and the people who push to the same branch can do in between,    *)
(* the retries that run it again, and the outbox that finishes it when     *)
(* GitHub was unreachable (githubOutbox.ts).                               *)
(*                                                                         *)
(* A step ends where the flow awaits a session or a call. The branch has   *)
(* three copies: in the repository (local), on the push remote (remote),   *)
(* and in a worktree (worktree). A commit is described by who made it in   *)
(* which run; every run starts a branch of its own at the base, so one tip *)
(* descends from another only within a run. Amend mode is left out, and so *)
(* is what people do to the base branch.                                   *)
(***************************************************************************)
EXTENDS Naturals, Sequences

CONSTANTS
    Instances   \* configurations and bounds to check together, see Instance

Instance == [
    apply : BOOLEAN,        \* the ticket carries a patch series
    fallback : BOOLEAN,     \* worker.applyFallbackToAgent
    block : BOOLEAN,        \* verify.blockOnFail
    leftovers : BOOLEAN,    \* worker.commitLeftovers
    retries : Nat,          \* worker.maxTransientRetries
    free : Nat,             \* bound: requeues that keep the budget
    people : Nat,           \* bound: pushes, merges and closes of others
    kills : Nat,            \* bound: kills of the daemon
    again : Nat]            \* bound: retries and resubmissions by the operator

ASSUME InstancesAssumption == Instances \subseteq Instance /\ Instances # {}

NoTip == [author |-> "nobody"]
Base == [author |-> "base"]     \* the branch exists and has no commit of its own
NoPr == [state |-> "none"]
NoRun == [pc |-> "off"]

VARIABLES
    ticket,    \* its file: directory, retry_count, outcome
    run,       \* the flow: where it is, and its local variables
    runs,      \* history: number of worktrees cut
    local,     \* the branch in the repository
    worktree,  \* "absent", "clean" or "dirty"
    remote,    \* the branch on the push remote
    pr,        \* the last pull request for it
    ops,       \* the outbox: pull requests to finish
    dead,      \* history: an op of the ticket was dead-lettered
    mixed,     \* history: a run started while an op for its branch was parked
    left       \* the instance, and what is left of its bounds

work == <<runs, local, worktree>>
github == <<remote, pr>>
outbox == <<ops, dead>>
vars == <<ticket, run, work, github, outbox, mixed, left>>

Init ==
    /\ left \in Instances
    /\ ticket = [where |-> "inbox", retry |-> 0, outcome |-> "none"]
    /\ run = NoRun /\ runs = 0
    /\ local = NoTip /\ worktree = "absent"
    /\ remote = NoTip /\ pr = NoPr
    /\ ops = <<>> /\ dead = FALSE /\ mixed = FALSE

Spend(bound) == left[bound] > 0 /\ left' = [left EXCEPT ![bound] = @ - 1]

----------------------------------------------------------------------------
(* Commits and pushes.                                                     *)

Ours(tip) == tip.author \in {"patch", "agent"}
HasCommits == Ours(local)

\* broken: the ticket's verification fails on it. partial: its session was cut.
\* tidy: the tree held nothing else when a session last left it.
Commit(by, broken, partial, tidy) ==
    [author |-> by, run |-> runs, rev |-> IF HasCommits THEN local.rev + 1 ELSE 1,
     broken |-> broken, partial |-> partial, tidy |-> tidy]

\* Pushing tip over old is a fast-forward.
FastForward(old, tip) ==
    \/ old \in {NoTip, Base}
    \/ Ours(old) /\ Ours(tip) /\ old.run = tip.run /\ old.rev <= tip.rev

\* Mutant: the resumed push is a plain force push.
AcceptedForced(old, tip, lease) == lease # NoTip \/ FastForward(old, tip)

\* Whether the remote takes the push; lease is NoTip for a plain one.
Accepted(old, tip, lease) ==
    \/ FastForward(old, tip)
    \/ lease # NoTip /\ old = lease

----------------------------------------------------------------------------
(* How a run ends.                                                         *)

Finalize(where, outcome) ==
    /\ ticket' = [ticket EXCEPT !.where = where, !.outcome = outcome]
    /\ run' = NoRun

\* Anything that goes wrong from here on leaves the worktree in place.
Fail == Finalize("failed", "failed") /\ UNCHANGED <<work, github, outbox, mixed, left>>

\* cleanupWorktree: git refuses to remove a dirty one; the branch stays
\* (with git.removeWorktreeOnSuccess, the default).
Cleanup == worktree' = IF worktree = "dirty" THEN "dirty" ELSE "absent"

\* requeueTicket, if the budget allows, and the cleanup after it.
Requeue ==
    /\ ticket.retry < left.retries
    /\ ticket' = [ticket EXCEPT !.where = "inbox", !.retry = @ + 1]
    /\ run' = NoRun
    /\ Cleanup
    /\ UNCHANGED <<runs, local, github, outbox, mixed, left>>

RequeueOrFail == Requeue \/ (ticket.retry >= left.retries /\ Fail)

\* requeueTicketKeepBudget: the provider gate holds the ticket back.
RequeueFree ==
    /\ Spend("free")
    /\ ticket' = [ticket EXCEPT !.where = "inbox"]
    /\ run' = NoRun
    /\ Cleanup
    /\ UNCHANGED <<runs, local, github, outbox, mixed>>

----------------------------------------------------------------------------
(* Phases 1 to 3: validate, lint, worktree.                                *)

At(pc) == run.pc = pc
Goto(pc) == run' = [run EXCEPT !.pc = pc]

Start == [pc |-> "validate", seen |-> NoTip, lease |-> NoTip, ending |-> "none",
          fallback |-> FALSE, verify |-> "none", pushed |-> FALSE]

Claim ==
    /\ At("off") /\ ticket.where = "inbox"
    /\ ticket' = [ticket EXCEPT !.where = "processing"]
    /\ run' = Start
    /\ mixed' = (mixed \/ ops # <<>>)
    /\ UNCHANGED <<work, github, outbox, left>>

\* A failed ls-remote of the branch counts as a branch that does not exist.
Validate ==
    /\ At("validate")
    /\ \E seen \in {remote, NoTip} :
          run' = [run EXCEPT !.seen = seen, !.pc = IF seen = NoTip THEN "prepare" ELSE "list"]
    /\ UNCHANGED <<ticket, work, github, outbox, mixed, left>>

\* The branch is taken for what a killed run of this ticket left behind.
Resumes == ticket.retry > 0

ListPrs ==
    /\ At("list") /\ pr.state # "open" /\ Resumes
    /\ run' = [run EXCEPT !.lease = run.seen, !.pc = "prepare"]
    /\ UNCHANGED <<ticket, work, github, outbox, mixed, left>>

\* GitHub cannot be asked, the branch is taken, plan-lint blocks, git fails.
CheckFails == run.pc \in {"validate", "list", "prepare", "count", "critic"} /\ Fail

(* The stale worktree is removed by force, a leftover branch reset.        *)
PrepareWorktree ==
    /\ At("prepare")
    /\ Goto(IF left.apply THEN "apply" ELSE "session")
    /\ runs' = runs + 1
    /\ local' = Base /\ worktree' = "clean"
    /\ UNCHANGED <<ticket, github, outbox, mixed, left>>

----------------------------------------------------------------------------
(* Phase 4: the patch, or the agent.                                       *)

ApplyPatch ==
    /\ At("apply")
    /\ \E broken \in BOOLEAN : local' = Commit("patch", broken, FALSE, TRUE)
    /\ run' = [run EXCEPT !.pc = "count", !.ending = "ok"]
    /\ UNCHANGED <<ticket, runs, worktree, github, outbox, mixed, left>>

\* git am leaves the tree dirty and no commit.
ApplyLeavesDirt ==
    /\ At("apply")
    /\ worktree' = "dirty"
    /\ run' = [run EXCEPT !.pc = "count", !.ending = "ok"]
    /\ UNCHANGED <<ticket, runs, local, github, outbox, mixed, left>>

\* A series that does not apply; one that is refused fails in any case.
ApplyFails ==
    /\ At("apply")
    /\ \/ /\ left.fallback
          /\ run' = [run EXCEPT !.pc = "session", !.fallback = TRUE]
          /\ UNCHANGED <<ticket, work, github, outbox, mixed, left>>
       \/ Fail

Endings == {"ok", "stalled", "error", "timeout", "guard"}
Cut(ending) == ending \in {"timeout", "guard"}

\* What a session may leave: commits or not, a clean tree or not.
SessionLeaves(ending) ==
    \E tree \in {"clean", "dirty"}, broken \in BOOLEAN :
        /\ worktree' = tree
        /\ \/ local' = Commit("agent", broken, Cut(ending), tree = "clean")
           \/ local' = IF HasCommits THEN [local EXCEPT !.tidy = tree = "clean"] ELSE local

Session ==
    /\ At("session")
    /\ \E ending \in Endings :
          /\ SessionLeaves(ending)
          /\ run' = [run EXCEPT !.pc = IF ending = "error" THEN "hard error" ELSE "count",
                                !.ending = ending]
    /\ UNCHANGED <<ticket, runs, github, outbox, mixed, left>>

----------------------------------------------------------------------------
(* Phase 5: a hard error.                                                  *)

\* Mutant: the commits are not counted.
NothingCommittedUnasked == TRUE

NothingCommitted == ~HasCommits

\* A failure of the provider is waived, but not for a fallback session.
HardError ==
    /\ At("hard error")
    /\ \/ NothingCommitted /\ ~run.fallback /\ RequeueFree
       \/ NothingCommitted /\ RequeueOrFail
       \/ ~NothingCommitted /\ Fail

----------------------------------------------------------------------------
(* Phases 6 to 8: commits or none.                                         *)

AppliedCleanly == left.apply /\ ~run.fallback

Count ==
    /\ At("count")
    /\ IF HasCommits \/ worktree = "clean" \/ AppliedCleanly \/ ~left.leftovers
         THEN UNCHANGED <<local, worktree>>
         ELSE /\ \E broken \in BOOLEAN :
                    local' = Commit("agent", broken, Cut(run.ending), TRUE)
              /\ worktree' = "clean"
    /\ Goto(IF Ours(local') THEN "review" ELSE "nothing")
    /\ UNCHANGED <<ticket, runs, github, outbox, mixed, left>>

\* Nothing was committed: a timeout fails, a stall is transient, a guard's
\* kill fails, and a session that ended well had nothing to change.
Nothing ==
    /\ At("nothing")
    /\ \/ run.ending = "timeout" /\ Fail
       \/ run.ending = "stalled" /\ RequeueOrFail
       \/ /\ run.ending \in {"ok", "guard"}
          /\ IF run.ending = "ok" THEN Finalize("done", "no changes")
                                  ELSE Finalize("failed", "failed")
          /\ Cleanup
          /\ UNCHANGED <<runs, local, github, outbox, mixed, left>>

----------------------------------------------------------------------------
(* Phase 9: verification, the fallback it may trigger, the critic.         *)

\* The verification blocks run on the tree, which may hold more than the tip.
Verdicts(tip, tree) ==
    IF tree = "dirty" THEN {"pass", "fail"} ELSE {IF tip.broken THEN "fail" ELSE "pass"}

Review ==
    /\ At("review")
    /\ IF Cut(run.ending) THEN Goto("gates")
       ELSE \E verdict \in Verdicts(local, worktree) :
              run' = [run EXCEPT
                !.verify = verdict,
                !.pc = IF left.apply /\ ~run.fallback /\ verdict = "fail" /\ left.fallback
                         THEN "fallback" ELSE IF AppliedCleanly THEN "gates" ELSE "critic"]
    /\ UNCHANGED <<ticket, work, github, outbox, mixed, left>>

\* A clean apply that fails its checks goes to the agent, once. The session's
\* result replaces the patch's, an error included, and the checks run again.
Fallback ==
    /\ At("fallback")
    /\ \E ending \in Endings :
          /\ SessionLeaves(ending)
          /\ \E verdict \in Verdicts(local', worktree') :
                run' = [run EXCEPT !.pc = "critic", !.fallback = TRUE, !.ending = ending,
                                   !.verify = verdict]
    /\ UNCHANGED <<ticket, runs, github, outbox, mixed, left>>

Critic ==
    /\ At("critic")
    /\ Goto("gates") \/ Goto("corrective")
    /\ UNCHANGED <<ticket, work, github, outbox, mixed, left>>

\* Mutant: the checks do not run again.
RecheckedNot(verdict) == run.verify

Rechecked(verdict) == verdict

\* One corrective session. How it ended is only logged.
Corrective ==
    /\ At("corrective")
    /\ SessionLeaves(run.ending)
    /\ \E verdict \in Verdicts(local', worktree') :
          run' = [run EXCEPT !.pc = "gates", !.verify = Rechecked(verdict)]
    /\ UNCHANGED <<ticket, runs, github, outbox, mixed, left>>

\* A session that cannot be made throws past the flow to the containment of
\* runOnce.ts, which puts the ticket back whatever was committed before.
Contained == {"session", "fallback", "critic", "corrective"}
Thrown ==
    /\ run.pc \in Contained
    /\ run' = NoRun
    /\ \/ Spend("free") /\ ticket' = [ticket EXCEPT !.where = "inbox"]
       \/ /\ ticket.retry < left.retries /\ UNCHANGED left
          /\ ticket' = [ticket EXCEPT !.where = "inbox", !.retry = @ + 1]
       \/ /\ ticket.retry >= left.retries /\ UNCHANGED left
          /\ ticket' = [ticket EXCEPT !.where = "failed", !.outcome = "failed"]
    /\ UNCHANGED <<work, github, outbox, mixed>>

----------------------------------------------------------------------------
(* Phases 10 to 12: gates, push, pull request.                             *)

Gates ==
    /\ At("gates")
    /\ \/ ~(left.block /\ run.verify = "fail")
          /\ Goto("push")
          /\ UNCHANGED <<ticket, work, github, outbox, mixed, left>>
       \/ Fail    \* the checks failed, or the secret scan found something

\* The banners of the pull request's text (buildPrBody).
Body == [fallback |-> run.fallback, partial |-> Cut(run.ending),
         failed |-> run.verify = "fail"]

\* The push or the pull request is left to the outbox (queueOfflinePr).
ParkedFor(pushed) == ops' = Append(ops, [pushed |-> pushed, body |-> Body])

\* Where a ticket ends whose branch is pushed, or queued (computePrStatus):
\* a timeout is asked for first, before what went wrong since.
Status(wrong) ==
    IF run.ending = "timeout" \/ ~(wrong \/ run.ending = "error") THEN "done" ELSE "failed"

Push ==
    /\ At("push") /\ Accepted(remote, local, run.lease)
    /\ remote' = local
    /\ run' = [run EXCEPT !.pc = "create", !.pushed = TRUE]
    /\ UNCHANGED <<ticket, work, pr, outbox, mixed, left>>

PushRefused == At("push") /\ Fail

\* GitHub is unreachable; whether the push arrived is not known.
PushOffline ==
    /\ At("push")
    /\ remote' = remote \/ (Accepted(remote, local, run.lease) /\ remote' = local)
    /\ ParkedFor(FALSE)
    /\ Goto("parked")
    /\ UNCHANGED <<ticket, work, pr, dead, mixed, left>>

Opened(by, body) == [state |-> "open", by |-> by, body |-> body]

Create ==
    /\ At("create") /\ pr.state # "open"
    /\ pr' = Opened("junco", Body)
    /\ Goto("finish")
    /\ UNCHANGED <<ticket, work, remote, outbox, mixed, left>>

\* "already exists": the open pull request is looked up.
Recover ==
    /\ At("create") /\ pr.state = "open"
    /\ Goto("finish")
    /\ UNCHANGED <<ticket, work, github, outbox, mixed, left>>

MaybeCreated == pr' = pr \/ (pr.state # "open" /\ pr' = Opened("junco", Body))

CreateOffline ==
    /\ At("create")
    /\ MaybeCreated
    /\ ParkedFor(TRUE)
    /\ Goto("parked")
    /\ UNCHANGED <<ticket, work, remote, dead, mixed, left>>

\* Refused, or not found again. A network error that is not recognised at
\* once is retried, any other leaves the branch without a pull request.
CreateFails ==
    /\ At("create")
    /\ MaybeCreated
    /\ \/ /\ ticket.retry < left.retries
          /\ ticket' = [ticket EXCEPT !.where = "inbox", !.retry = @ + 1]
          /\ run' = NoRun
       \/ Finalize(Status(TRUE), "pushed")
    /\ Cleanup
    /\ UNCHANGED <<runs, local, remote, outbox, mixed, left>>

\* Phases 13 and 14, and the end of the offline paths: a fallback session
\* that died leaves a failed ticket with a pull request.
Finish ==
    /\ At("finish")
    /\ Finalize(Status(FALSE), "url")
    /\ Cleanup
    /\ UNCHANGED <<runs, local, github, outbox, mixed, left>>

FinishParked ==
    /\ At("parked")
    /\ Finalize(Status(FALSE), "queued")
    /\ UNCHANGED <<work, github, outbox, mixed, left>>

\* The daemon dies and comes back: recoverOrphans (orphans.ts).
Killed ==
    /\ ~At("off") /\ Spend("kills")
    /\ run' = NoRun
    /\ ticket' = IF ticket.retry < left.retries
                   THEN [ticket EXCEPT !.where = "inbox", !.retry = @ + 1]
                   ELSE [ticket EXCEPT !.where = "failed", !.outcome = "failed"]
    /\ UNCHANGED <<work, github, outbox, mixed>>

----------------------------------------------------------------------------
(* The outbox finishes what was parked; Outbox has the rest of its ways.   *)
(* The daemon flushes, so never between enqueueOp and finalizePr, which no *)
(* await separates.                                                        *)

Parked == ops # <<>> /\ ~At("parked")

\* The op names the branch: what is pushed is where it points to by then.
FlushPush ==
    /\ Parked /\ ~Head(ops).pushed
    /\ Accepted(remote, local, NoTip)
    /\ remote' = local
    /\ ops' = <<[Head(ops) EXCEPT !.pushed = TRUE]>> \o Tail(ops)
    /\ UNCHANGED <<ticket, run, work, pr, dead, mixed, left>>

\* Created, unless it would be empty, or found open; the URL goes into the ticket's file in done/.
FlushPr ==
    /\ Parked /\ Head(ops).pushed
    /\ pr.state = "open" \/ remote # Base
    /\ pr' = IF pr.state = "open" THEN pr ELSE Opened("junco", Head(ops).body)
    /\ ticket' = IF ticket.where = "done" THEN [ticket EXCEPT !.outcome = "url"] ELSE ticket
    /\ ops' = Tail(ops)
    /\ UNCHANGED <<run, work, remote, dead, mixed, left>>

\* Mutant: an op that is refused stays.
FlushRetries == FALSE

\* Refused too often, it is dead-lettered.
FlushDies ==
    /\ Parked
    /\ Head(ops).pushed \/ ~Accepted(remote, local, NoTip)
    /\ ops' = Tail(ops) /\ dead' = TRUE
    /\ UNCHANGED <<ticket, run, work, github, mixed, left>>

Flush == FlushPush \/ FlushPr \/ FlushDies

----------------------------------------------------------------------------
(* Other people, and the operator.                                         *)

PersonPushes ==
    /\ Spend("people")
    /\ remote' = [author |-> "person", rev |-> left.people]
    /\ UNCHANGED <<ticket, run, work, pr, outbox, mixed>>

PersonOpensPr ==
    /\ Spend("people") /\ remote # NoTip /\ pr.state # "open"
    /\ pr' = [state |-> "open", by |-> "person"]
    /\ UNCHANGED <<ticket, run, work, remote, outbox, mixed>>

\* Bound: a closed pull request is not opened again.
PrCloses ==
    /\ Spend("people") /\ pr.state = "open"
    /\ \E state \in {"merged", "closed"} : pr' = [pr EXCEPT !.state = state]
    /\ UNCHANGED <<ticket, run, work, remote, outbox, mixed>>

\* `junco retry` clears the retry_count; a finished id may be submitted again.
Again ==
    /\ ticket.where \in {"done", "failed"} /\ Spend("again")
    /\ ticket' = [where |-> "inbox", retry |-> 0, outcome |-> "none"]
    /\ dead' = FALSE
    /\ UNCHANGED <<run, work, github, ops, mixed>>

----------------------------------------------------------------------------
Flow ==
    \/ Validate \/ ListPrs \/ CheckFails \/ PrepareWorktree
    \/ ApplyPatch \/ ApplyLeavesDirt \/ ApplyFails \/ Session \/ HardError
    \/ Count \/ Nothing \/ Review \/ Fallback \/ Critic \/ Corrective \/ Thrown \/ Gates
    \/ Push \/ PushRefused \/ PushOffline
    \/ Create \/ Recover \/ CreateOffline \/ CreateFails \/ Finish \/ FinishParked

Next == \/ Claim \/ Flow \/ Killed \/ Flush
        \/ PersonPushes \/ PersonOpensPr \/ PrCloses \/ Again

Spec == Init /\ [][Next]_vars

(* The daemon claims and its runs go on: sessions time out, and git and gh *)
(* calls have timeouts. The outbox is flushed again and again. Nobody has  *)
(* to push, merge, retry or resubmit anything.                             *)
Fairness == WF_vars(Claim) /\ WF_vars(Flow) /\ WF_vars(Flush)

FairSpec == Spec /\ Fairness

----------------------------------------------------------------------------
Commits == [author : {"patch", "agent"}, run : Nat, rev : Nat, broken : BOOLEAN,
            partial : BOOLEAN, tidy : BOOLEAN]
Persons == [author : {"person"}, rev : Nat]
Bodies == [fallback : BOOLEAN, partial : BOOLEAN, failed : BOOLEAN]

\* Types; in particular a retry_count never exceeds its budget.
TypeOK ==
    /\ ticket \in [where : {"inbox", "processing", "done", "failed"}, retry : 0 .. left.retries,
                   outcome : {"none", "no changes", "url", "queued", "pushed", "failed"}]
    /\ run # NoRun <=> ticket.where = "processing"
    /\ run # NoRun => run.lease = NoTip \/ ticket.retry > 0
    /\ local \in Commits \cup {NoTip, Base}
    /\ remote \in Commits \cup Persons \cup {NoTip, Base}
    /\ worktree \in {"absent", "clean", "dirty"}
    /\ ops \in Seq([pushed : BOOLEAN, body : Bodies])

RunGivenUp ==
    \/ /\ ticket.where = "processing" /\ ticket'.where = "inbox"
       /\ left'.kills = left.kills /\ run.pc \notin Contained
    \/ worktree # "absent" /\ worktree' = "absent"

(* Committed work is never discarded by the flow itself: whatever run goes  *)
(* back to inbox/ or drops its worktree, its commits, if any, are pushed    *)
(* (Phases 5, 8 and 12; isTransientFailure); unless a session after them    *)
(* cannot be made.                                                          *)
CommittedWorkKept ==
    [][RunGivenUp /\ HasCommits => run.pushed]_vars

(* What other people pushed under the branch's name is overwritten only by  *)
(* a ticket that has been put back by junco, which found exactly that tip   *)
(* when it validated, with no open pull request; never by a first attempt,  *)
(* by the outbox, or when they push later (validateRepoContext's resume and *)
(* pushBranch's lease).                                                     *)
PeoplesWorkKept ==
    [][remote.author = "person" /\ remote'.author # "person" =>
          run.pc = "push" /\ ticket.retry > 0 /\ run.seen = remote]_vars

(* No work is lost: neither what a run committed nor what people pushed      *)
(* (prFlow.ts, worktree.ts).                                                *)
WorkIsKept == CommittedWorkKept /\ PeoplesWorkKept

(* An open pull request says what its head is: that an agent replaced the   *)
(* reviewed patch, that the session was cut (not the corrective one, whose  *)
(* end is only logged), that the checks fail - as long                      *)
(* as no run starts while an op for the same branch is parked, and for what *)
(* was committed from a clean tree (buildPrBody with the ladder of          *)
(* fallbacks, resumes and the outbox).                                      *)
PrTellsTheTruth ==
    ~mixed /\ pr.state = "open" /\ pr.by = "junco" /\ Ours(remote) =>
        /\ left.apply /\ remote.author = "agent" => pr.body.fallback
        /\ remote.partial => pr.body.partial
        /\ remote.broken /\ remote.tidy => pr.body.failed \/ pr.body.partial

(* A ticket in done/ changed nothing, or has its pull request, or an op     *)
(* that will open it, unless that op was refused for good, or at the very   *)
(* least its branch (finalizePr's pr_queued and the outbox).                *)
DoneMeansDelivered ==
    ticket.where = "done" =>
        CASE ticket.outcome = "no changes" -> TRUE
          [] ticket.outcome = "url" -> pr # NoPr
          [] ticket.outcome = "queued" -> ops # <<>> \/ dead
          [] ticket.outcome = "pushed" -> remote # NoTip
          [] OTHER -> FALSE

(* What a finished ticket and its pull request say is so: done/ means that  *)
(* the work is delivered or parked, and the text of the pull request fits   *)
(* the head it shows.                                                       *)
OutcomeTellsTheTruth == TypeOK /\ PrTellsTheTruth /\ DoneMeansDelivered

(* Every ticket that is submitted comes to its end, and so does everything  *)
(* that was parked.                                                         *)
EventuallyEnds == <>[](ticket.where \in {"done", "failed"} /\ ops = <<>>)
=============================================================================
