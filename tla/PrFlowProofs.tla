---------------------------- MODULE PrFlowProofs ----------------------------
(***************************************************************************)
(* What PrFlow promises of its outcomes, proved for every configuration    *)
(* and every bound: what a finished ticket and its pull request say is so, *)
(* and neither committed work nor other people's pushes are lost.          *)
(***************************************************************************)
EXTENDS PrFlow, TLAPS

----------------------------------------------------------------------------
(* Types.                                                                  *)

Pcs == {"validate", "list", "prepare", "apply", "session", "hard error", "count",
        "nothing", "review", "fallback", "critic", "corrective", "gates", "push",
        "create", "finish", "parked"}

Tips == Commits \cup Persons \cup {NoTip, Base}

Runs == [pc : Pcs, seen : Tips, lease : Tips, ending : Endings \cup {"none"},
         fallback : BOOLEAN, verify : {"none", "pass", "fail"}, pushed : BOOLEAN]

Tickets == [where : {"inbox", "processing", "done", "failed"}, retry : Nat,
            outcome : {"none", "no changes", "url", "queued", "pushed", "failed"}]

PrStates == {"open", "merged", "closed"}
JuncoPrs == [state : PrStates, by : {"junco"}, body : Bodies]
PersonPrs == [state : PrStates, by : {"person"}]
Ops == [pushed : BOOLEAN, body : Bodies]

RunTyped == run \in Runs \cup {NoRun}
TicketTyped ==
    /\ ticket \in Tickets
    /\ ticket.retry <= left.retries
    /\ run.pc # "off" <=> ticket.where = "processing"
LeaseTyped == run.pc # "off" => run.lease = NoTip \/ ticket.retry > 0
TreeTyped == worktree \in {"absent", "clean", "dirty"} /\ runs \in Nat
LocalTyped == local \in Commits \cup {NoTip, Base}
GithubTyped == remote \in Tips /\ pr \in JuncoPrs \cup PersonPrs \cup {NoPr}
OpsTyped == ops \in Seq(Ops)
LeftTyped == left \in Instance

Typed ==
    /\ LeftTyped /\ RunTyped /\ TicketTyped /\ LeaseTyped /\ TreeTyped
    /\ LocalTyped /\ GithubTyped /\ OpsTyped

LEMMA TypedIsTypeOK == Typed => TypeOK
  <1> SUFFICES ASSUME Typed PROVE TypeOK
    OBVIOUS
  <1>0. left.retries \in Nat
    BY DEF Typed, LeftTyped, Instance
  <1>1. ticket \in [where : {"inbox", "processing", "done", "failed"}, retry : 0 .. left.retries,
                    outcome : {"none", "no changes", "url", "queued", "pushed", "failed"}]
    <2>1. ticket \in Tickets /\ ticket.retry <= left.retries
      BY DEF Typed, TicketTyped
    <2>2. ticket.retry \in Nat
      BY <2>1 DEF Tickets
    <2>3. ticket.retry \in 0 .. left.retries
      BY <1>0, <2>1, <2>2
    <2> QED
      BY <2>1, <2>3 DEF Tickets
  <1>2. run # NoRun <=> run.pc # "off"
    <2>1. CASE run \in Runs
      <3>1. run.pc \in Pcs
        BY <2>1 DEF Runs
      <3>2. run.pc # "off"
        BY <3>1 DEF Pcs
      <3> QED
        BY <3>2 DEF NoRun
    <2>2. CASE run = NoRun
      BY <2>2 DEF NoRun
    <2> QED
      BY <2>1, <2>2 DEF Typed, RunTyped
  <1>3. local \in Commits \cup {NoTip, Base}
    BY DEF Typed, LocalTyped
  <1>4. remote \in Commits \cup Persons \cup {NoTip, Base}
    BY DEF Typed, GithubTyped, Tips
  <1>5. ops \in Seq([pushed : BOOLEAN, body : Bodies])
    BY DEF Typed, OpsTyped, Ops
  <1> QED
    BY <1>1, <1>2, <1>3, <1>4, <1>5 DEF Typed, TicketTyped, LeaseTyped, TreeTyped, TypeOK

LEMMA RunHasRecord ==
  ASSUME RunTyped, run.pc # "off"
  PROVE  run \in Runs
  BY DEF RunTyped, NoRun

(* A bound that is spent changes nothing else of the instance.             *)
LEMMA SpendKeeps ==
  ASSUME LeftTyped, NEW b \in {"free", "people", "kills", "again"}, Spend(b)
  PROVE  /\ left' \in Instance
         /\ left'.apply = left.apply /\ left'.retries = left.retries
         /\ left'[b] = left[b] - 1 /\ left[b] \in Nat
  <1>1. left \in Instance /\ left[b] > 0 /\ left' = [left EXCEPT ![b] = left[b] - 1]
    BY DEF LeftTyped, Spend
  <1>2. CASE b = "free"
    BY <1>1, <1>2 DEF Instance
  <1>3. CASE b = "people"
    BY <1>1, <1>3 DEF Instance
  <1>4. CASE b = "kills"
    BY <1>1, <1>4 DEF Instance
  <1>5. CASE b = "again"
    BY <1>1, <1>5 DEF Instance
  <1> QED
    BY <1>2, <1>3, <1>4, <1>5

LEMMA InitTyped == Init => Typed
  BY InstancesAssumption, SMTT(30)
     DEF Init, Typed, LeftTyped, RunTyped, TicketTyped, LeaseTyped, TreeTyped, LocalTyped,
         GithubTyped, OpsTyped, Tickets, NoRun, Tips, Instance

(* The parts of the type invariant a step changes.                         *)
LEMMA CommitTyped ==
  ASSUME LocalTyped, TreeTyped, NEW by \in {"patch", "agent"}, NEW broken \in BOOLEAN,
         NEW partial \in BOOLEAN, NEW tidy \in BOOLEAN
  PROVE  Commit(by, broken, partial, tidy) \in Commits
  <1>1. HasCommits => local \in Commits
    BY DEF LocalTyped, HasCommits, Ours, NoTip, Base
  <1>2. (IF HasCommits THEN local.rev + 1 ELSE 1) \in Nat
    BY <1>1 DEF Commits
  <1> QED
    BY <1>2 DEF TreeTyped, Commit, Commits

LEMMA SessionLeavesTyped ==
  ASSUME LocalTyped, TreeTyped, NEW ending, SessionLeaves(ending), runs' = runs
  PROVE  LocalTyped' /\ TreeTyped'
  <1>1. PICK tree \in {"clean", "dirty"}, broken \in BOOLEAN :
          /\ worktree' = tree
          /\ \/ local' = Commit("agent", broken, Cut(ending), tree = "clean")
             \/ local' = IF HasCommits THEN [local EXCEPT !.tidy = tree = "clean"] ELSE local
    BY DEF SessionLeaves
  <1>2. Cut(ending) \in BOOLEAN /\ (tree = "clean") \in BOOLEAN
    BY DEF Cut
  <1>3. CASE local' = Commit("agent", broken, Cut(ending), tree = "clean")
    BY <1>1, <1>2, <1>3, CommitTyped DEF LocalTyped, TreeTyped
  <1>4. CASE local' = IF HasCommits THEN [local EXCEPT !.tidy = tree = "clean"] ELSE local
    <2>1. HasCommits => local \in Commits
      BY DEF LocalTyped, HasCommits, Ours, NoTip, Base
    <2>2. local' \in Commits \cup {NoTip, Base}
      BY <1>2, <1>4, <2>1 DEF Commits, LocalTyped
    <2> QED
      BY <1>1, <2>2 DEF LocalTyped, TreeTyped
  <1> QED
    BY <1>1, <1>3, <1>4

(* A run that goes on, and one that ends.                                  *)
LEMMA RunGoesOn ==
  ASSUME Typed, run.pc # "off", run' \in Runs, run'.lease = run.lease,
         UNCHANGED <<ticket, left>>
  PROVE  RunTyped' /\ TicketTyped' /\ LeaseTyped' /\ LeftTyped'
  <1>1. run'.pc # "off"
    BY DEF Runs, Pcs
  <1> QED
    BY <1>1 DEF Typed, RunTyped, TicketTyped, LeaseTyped, LeftTyped

LEMMA RunStops ==
  ASSUME Typed, run' = NoRun, ticket' \in Tickets, ticket'.where # "processing",
         ticket'.retry <= left.retries, left' \in Instance, left'.retries = left.retries
  PROVE  RunTyped' /\ TicketTyped' /\ LeaseTyped' /\ LeftTyped'
  BY DEF NoRun, RunTyped, TicketTyped, LeaseTyped, LeftTyped

Ends == {"done", "failed"}
Outcomes == {"none", "no changes", "url", "queued", "pushed", "failed"}

LEMMA FinalizeTyped ==
  ASSUME Typed, NEW where \in Ends, NEW outcome \in Outcomes, Finalize(where, outcome),
         UNCHANGED left
  PROVE  RunTyped' /\ TicketTyped' /\ LeaseTyped' /\ LeftTyped'
  <1>1. ticket \in Tickets /\ ticket.retry <= left.retries /\ left \in Instance
    BY DEF Typed, TicketTyped, LeftTyped
  <1>2. /\ run' = NoRun
        /\ ticket' = [ticket EXCEPT !.where = where, !.outcome = outcome]
    BY DEF Finalize
  <1>3. ticket' \in Tickets /\ ticket'.where = where /\ ticket'.retry = ticket.retry
    BY <1>1, <1>2 DEF Tickets, Ends, Outcomes
  <1> QED
    BY <1>1, <1>2, <1>3, RunStops DEF Ends

LEMMA FailTyped ==
  ASSUME Typed, Fail
  PROVE  Typed'
  <1>1. RunTyped' /\ TicketTyped' /\ LeaseTyped' /\ LeftTyped'
    BY FinalizeTyped DEF Fail, Ends, Outcomes
  <1> QED
    BY <1>1 DEF Fail, work, github, outbox, Typed, TreeTyped, LocalTyped, GithubTyped, OpsTyped

LEMMA CleanupTyped ==
  ASSUME TreeTyped, Cleanup, UNCHANGED runs
  PROVE  TreeTyped'
  BY DEF TreeTyped, Cleanup

(* The ticket goes back to inbox/, at the price of a retry or for free.    *)
LEMMA BackTyped ==
  ASSUME Typed, run' = NoRun, UNCHANGED left, ticket.retry < left.retries,
         ticket' = [ticket EXCEPT !.where = "inbox", !.retry = @ + 1]
  PROVE  RunTyped' /\ TicketTyped' /\ LeaseTyped' /\ LeftTyped'
  <1>1. ticket \in Tickets /\ left \in Instance
    BY DEF Typed, TicketTyped, LeftTyped
  <1>2. ticket' \in Tickets /\ ticket'.where = "inbox" /\ ticket'.retry = ticket.retry + 1
    <2>0. ticket.retry \in Nat
      BY <1>1 DEF Tickets
    <2>1. ticket.retry + 1 \in Nat
      BY <2>0
    <2>2. ticket' = [ticket EXCEPT !.where = "inbox", !.retry = ticket.retry + 1]
      BY <1>1 DEF Tickets
    <2> QED
      BY <1>1, <2>1, <2>2 DEF Tickets
  <1>3. ticket.retry + 1 <= left.retries
    <2>1. ticket.retry \in Nat /\ left.retries \in Nat
      BY <1>1 DEF Tickets, Instance
    <2> QED
      BY <2>1
  <1> QED
    BY <1>1, <1>2, <1>3, RunStops

LEMMA BackFreeTyped ==
  ASSUME Typed, run' = NoRun, Spend("free"), ticket' = [ticket EXCEPT !.where = "inbox"]
  PROVE  RunTyped' /\ TicketTyped' /\ LeaseTyped' /\ LeftTyped'
  <1>1. ticket \in Tickets /\ ticket.retry <= left.retries
    BY DEF Typed, TicketTyped
  <1>2. ticket' \in Tickets /\ ticket'.where = "inbox" /\ ticket'.retry = ticket.retry
    BY <1>1 DEF Tickets
  <1>3. left' \in Instance /\ left'.retries = left.retries
    BY SpendKeeps DEF Typed
  <1> QED
    BY <1>1, <1>2, <1>3, RunStops

LEMMA RequeueTyped ==
  ASSUME Typed, RequeueOrFail
  PROVE  Typed'
  <1>1. CASE Requeue
    <2>1. RunTyped' /\ TicketTyped' /\ LeaseTyped' /\ LeftTyped'
      BY <1>1, BackTyped DEF Requeue
    <2>2. TreeTyped'
      BY <1>1, CleanupTyped DEF Requeue, Typed
    <2> QED
      BY <1>1, <2>1, <2>2 DEF Requeue, github, outbox, Typed, LocalTyped, GithubTyped, OpsTyped
  <1>2. CASE Fail
    BY <1>2, FailTyped
  <1> QED
    BY <1>1, <1>2 DEF RequeueOrFail

LEMMA RequeueFreeTyped ==
  ASSUME Typed, RequeueFree
  PROVE  Typed'
  <1>1. RunTyped' /\ TicketTyped' /\ LeaseTyped' /\ LeftTyped'
    BY BackFreeTyped DEF RequeueFree
  <1>2. TreeTyped'
    BY CleanupTyped DEF RequeueFree, Typed
  <1> QED
    BY <1>1, <1>2 DEF RequeueFree, github, outbox, Typed, LocalTyped, GithubTyped, OpsTyped

LEMMA BodyTyped ==
  ASSUME run \in Runs
  PROVE  Body \in Bodies
  <1>1. run.fallback \in BOOLEAN /\ Cut(run.ending) \in BOOLEAN /\ (run.verify = "fail") \in BOOLEAN
    BY DEF Runs, Cut
  <1> QED
    BY <1>1 DEF Body, Bodies

LEMMA ParkedTyped ==
  ASSUME OpsTyped, run \in Runs, NEW pushed \in BOOLEAN, ParkedFor(pushed)
  PROVE  OpsTyped'
  <1>1. [pushed |-> pushed, body |-> Body] \in Ops
    BY BodyTyped DEF Ops
  <1> QED
    BY <1>1 DEF OpsTyped, ParkedFor

LEMMA OpenedTyped ==
  ASSUME NEW body \in Bodies
  PROVE  Opened("junco", body) \in JuncoPrs
  BY DEF Opened, JuncoPrs, PrStates

LEMMA VerdictsTyped ==
  ASSUME NEW tip, NEW tree, NEW verdict \in Verdicts(tip, tree)
  PROVE  verdict \in {"pass", "fail"}
  BY DEF Verdicts

LEMMA StatusTyped ==
  ASSUME NEW wrong \in BOOLEAN
  PROVE  Status(wrong) \in Ends
  BY DEF Status, Ends

----------------------------------------------------------------------------
(* Gates, push, pull request, and the ends of a run keep the types.        *)

LEMMA ThrownTyped ==
  ASSUME Typed, Thrown
  PROVE  Typed'
  <1>1. RunTyped' /\ TicketTyped' /\ LeaseTyped' /\ LeftTyped'
    <2>1. CASE Spend("free") /\ ticket' = [ticket EXCEPT !.where = "inbox"]
      BY <2>1, BackFreeTyped DEF Thrown
    <2>2. CASE /\ ticket.retry < left.retries /\ UNCHANGED left
               /\ ticket' = [ticket EXCEPT !.where = "inbox", !.retry = @ + 1]
      BY <2>2, BackTyped DEF Thrown
    <2>3. CASE /\ ticket.retry >= left.retries /\ UNCHANGED left
               /\ ticket' = [ticket EXCEPT !.where = "failed", !.outcome = "failed"]
      BY <2>3, FinalizeTyped DEF Thrown, Finalize, Ends, Outcomes
    <2> QED
      BY <2>1, <2>2, <2>3 DEF Thrown
  <1> QED
    BY <1>1 DEF Thrown, work, github, outbox, Typed, TreeTyped, LocalTyped, GithubTyped, OpsTyped

LEMMA GatesTyped ==
  ASSUME Typed, Gates
  PROVE  Typed'
  <1>1. CASE Fail
    BY <1>1, FailTyped
  <1>2. CASE Goto("push") /\ UNCHANGED <<ticket, work, github, outbox, mixed, left>>
    <2>1. run \in Runs /\ run.pc # "off"
      BY RunHasRecord DEF Gates, At, Typed
    <2>2. run' \in Runs /\ run'.lease = run.lease
      BY <1>2, <2>1 DEF Goto, Runs, Pcs
    <2>3. RunTyped' /\ TicketTyped' /\ LeaseTyped' /\ LeftTyped'
      BY <1>2, <2>1, <2>2, RunGoesOn
    <2> QED
      BY <1>2, <2>3 DEF work, github, outbox, Typed, TreeTyped, LocalTyped, GithubTyped, OpsTyped
  <1> QED
    BY <1>1, <1>2 DEF Gates

LEMMA PushTyped ==
  ASSUME Typed, Push \/ PushRefused \/ PushOffline
  PROVE  Typed'
  <1> USE DEF work, github, outbox
  <1>0. run \in Runs /\ run.pc # "off"
    BY RunHasRecord DEF Push, PushRefused, PushOffline, At, Typed
  <1>1. local \in Tips
    BY DEF Typed, LocalTyped, Tips
  <1>2. CASE Push
    <2>1. run' \in Runs /\ run'.lease = run.lease
      BY <1>0, <1>2 DEF Push, Runs, Pcs
    <2>2. RunTyped' /\ TicketTyped' /\ LeaseTyped' /\ LeftTyped'
      BY <1>0, <1>2, <2>1, RunGoesOn DEF Push
    <2> QED
      BY <1>1, <1>2, <2>2 DEF Push, Typed, TreeTyped, LocalTyped, GithubTyped, OpsTyped
  <1>3. CASE PushRefused
    BY <1>3, FailTyped DEF PushRefused
  <1>4. CASE PushOffline
    <2>1. run' \in Runs /\ run'.lease = run.lease
      BY <1>0, <1>4 DEF PushOffline, Goto, Runs, Pcs
    <2>2. RunTyped' /\ TicketTyped' /\ LeaseTyped' /\ LeftTyped'
      BY <1>0, <1>4, <2>1, RunGoesOn DEF PushOffline
    <2>3. OpsTyped'
      BY <1>0, <1>4, ParkedTyped DEF PushOffline, Typed
    <2>4. remote' \in Tips
      BY <1>1, <1>4 DEF PushOffline, Typed, GithubTyped
    <2> QED
      BY <1>4, <2>2, <2>3, <2>4 DEF PushOffline, Typed, TreeTyped, LocalTyped, GithubTyped
  <1> QED
    BY <1>2, <1>3, <1>4

LEMMA CreateTyped ==
  ASSUME Typed, Create \/ Recover \/ CreateOffline \/ CreateFails
  PROVE  Typed'
  <1> USE DEF work, github, outbox
  <1>0. run \in Runs /\ run.pc # "off"
    BY RunHasRecord DEF Create, Recover, CreateOffline, CreateFails, At, Typed
  <1>1. Opened("junco", Body) \in JuncoPrs
    BY <1>0, BodyTyped, OpenedTyped
  <1>2. MaybeCreated => pr' \in JuncoPrs \cup PersonPrs \cup {NoPr}
    BY <1>1 DEF MaybeCreated, Typed, GithubTyped
  <1>3. Goto("finish") \/ Goto("parked") => run' \in Runs /\ run'.lease = run.lease
    BY <1>0 DEF Goto, Runs, Pcs
  <1>4. CASE Create \/ Recover
    <2>1. RunTyped' /\ TicketTyped' /\ LeaseTyped' /\ LeftTyped'
      BY <1>0, <1>3, <1>4, RunGoesOn DEF Create, Recover
    <2>2. pr' \in JuncoPrs \cup PersonPrs \cup {NoPr}
      BY <1>1, <1>4 DEF Create, Recover, Typed, GithubTyped
    <2> QED
      BY <1>4, <2>1, <2>2 DEF Create, Recover, Typed, TreeTyped, LocalTyped, GithubTyped, OpsTyped
  <1>5. CASE CreateOffline
    <2>1. RunTyped' /\ TicketTyped' /\ LeaseTyped' /\ LeftTyped'
      BY <1>0, <1>3, <1>5, RunGoesOn DEF CreateOffline
    <2>2. OpsTyped'
      BY <1>0, <1>5, ParkedTyped DEF CreateOffline, Typed
    <2> QED
      BY <1>2, <1>5, <2>1, <2>2 DEF CreateOffline, Typed, TreeTyped, LocalTyped, GithubTyped
  <1>6. CASE CreateFails
    <2>1. RunTyped' /\ TicketTyped' /\ LeaseTyped' /\ LeftTyped'
      <3>1. CASE /\ ticket.retry < left.retries
                 /\ ticket' = [ticket EXCEPT !.where = "inbox", !.retry = @ + 1]
                 /\ run' = NoRun
        BY <1>6, <3>1, BackTyped DEF CreateFails
      <3>2. CASE Finalize(Status(TRUE), "pushed")
        BY <1>6, <3>2, StatusTyped, FinalizeTyped DEF CreateFails, Outcomes
      <3> QED
        BY <1>6, <3>1, <3>2 DEF CreateFails
    <2>2. TreeTyped'
      BY <1>6, CleanupTyped DEF CreateFails, Typed
    <2> QED
      BY <1>2, <1>6, <2>1, <2>2 DEF CreateFails, Typed, LocalTyped, GithubTyped, OpsTyped
  <1> QED
    BY <1>4, <1>5, <1>6

LEMMA FinishTyped ==
  ASSUME Typed, Finish \/ FinishParked
  PROVE  Typed'
  <1>1. RunTyped' /\ TicketTyped' /\ LeaseTyped' /\ LeftTyped'
    BY StatusTyped, FinalizeTyped DEF Finish, FinishParked, Outcomes
  <1>2. TreeTyped'
    BY CleanupTyped DEF Finish, FinishParked, work, Typed, TreeTyped
  <1> QED
    BY <1>1, <1>2
       DEF Finish, FinishParked, work, github, outbox, Typed, LocalTyped, GithubTyped, OpsTyped

----------------------------------------------------------------------------
(* Every step keeps the types.                                             *)

LEMMA FlowTyped ==
  ASSUME Typed, Flow
  PROVE  Typed'
  <1> USE DEF work, github, outbox
  <1>1. CASE Validate
    <2>1. run \in Runs /\ run.pc # "off"
      BY <1>1, RunHasRecord DEF Validate, At, Typed
    <2>2. run' \in Runs /\ run'.lease = run.lease
      <3>1. PICK seen \in {remote, NoTip} :
               run' = [run EXCEPT !.seen = seen,
                                  !.pc = IF seen = NoTip THEN "prepare" ELSE "list"]
        BY <1>1 DEF Validate
      <3>2. seen \in Tips
        BY DEF Typed, GithubTyped, Tips
      <3> QED
        BY <2>1, <3>1, <3>2 DEF Runs, Pcs
    <2>3. RunTyped' /\ TicketTyped' /\ LeaseTyped' /\ LeftTyped'
      BY <1>1, <2>1, <2>2, RunGoesOn DEF Validate
    <2> QED
      BY <1>1, <2>3 DEF Validate, Typed, TreeTyped, LocalTyped, GithubTyped, OpsTyped
  <1>2. CASE ListPrs
    <2>1. run \in Runs /\ run.pc # "off"
      BY <1>2, RunHasRecord DEF ListPrs, At, Typed
    <2>2. run' \in Runs
      BY <1>2, <2>1 DEF ListPrs, Runs, Pcs
    <2>3. run'.pc # "off"
      BY <2>2 DEF Runs, Pcs
    <2>4. RunTyped' /\ TicketTyped' /\ LeaseTyped' /\ LeftTyped'
      BY <1>2, <2>1, <2>2, <2>3
         DEF ListPrs, Resumes, Typed, RunTyped, TicketTyped, LeaseTyped, LeftTyped
    <2> QED
      BY <1>2, <2>4 DEF ListPrs, Typed, TreeTyped, LocalTyped, GithubTyped, OpsTyped
  <1>3. CASE CheckFails
    BY <1>3, FailTyped DEF CheckFails
  <1>4. CASE PrepareWorktree
    <2>1. run \in Runs /\ run.pc # "off"
      BY <1>4, RunHasRecord DEF PrepareWorktree, At, Typed
    <2>2. run' \in Runs /\ run'.lease = run.lease
      BY <1>4, <2>1 DEF PrepareWorktree, Goto, At, Runs, Pcs
    <2>3. RunTyped' /\ TicketTyped' /\ LeaseTyped' /\ LeftTyped'
      BY <1>4, <2>1, <2>2, RunGoesOn DEF PrepareWorktree
    <2>4. runs' \in Nat
      BY <1>4 DEF PrepareWorktree, Typed, TreeTyped
    <2> QED
      BY <1>4, <2>3, <2>4 DEF PrepareWorktree, Typed, TreeTyped, LocalTyped, GithubTyped, OpsTyped
  <1>5. CASE ApplyPatch
    <2>1. run \in Runs /\ run.pc # "off"
      BY <1>5, RunHasRecord DEF ApplyPatch, At, Typed
    <2>2. run' \in Runs /\ run'.lease = run.lease
      BY <1>5, <2>1 DEF ApplyPatch, Goto, At, Runs, Pcs, Endings
    <2>3. RunTyped' /\ TicketTyped' /\ LeaseTyped' /\ LeftTyped'
      BY <1>5, <2>1, <2>2, RunGoesOn DEF ApplyPatch
    <2>4. PICK broken \in BOOLEAN : local' = Commit("patch", broken, FALSE, TRUE)
      BY <1>5 DEF ApplyPatch
    <2>5. local' \in Commits
      BY <2>4, CommitTyped DEF Typed
    <2> QED
      BY <1>5, <2>3, <2>5 DEF ApplyPatch, Typed, TreeTyped, LocalTyped, GithubTyped, OpsTyped
  <1>6. CASE ApplyLeavesDirt
    <2>1. run \in Runs /\ run.pc # "off"
      BY <1>6, RunHasRecord DEF ApplyLeavesDirt, At, Typed
    <2>2. run' \in Runs /\ run'.lease = run.lease
      BY <1>6, <2>1 DEF ApplyLeavesDirt, Goto, At, Runs, Pcs, Endings
    <2>3. RunTyped' /\ TicketTyped' /\ LeaseTyped' /\ LeftTyped'
      BY <1>6, <2>1, <2>2, RunGoesOn DEF ApplyLeavesDirt
    <2> QED
      BY <1>6, <2>3 DEF ApplyLeavesDirt, Typed, TreeTyped, LocalTyped, GithubTyped, OpsTyped
  <1>7. CASE ApplyFails
    <2>1. run \in Runs /\ run.pc # "off"
      BY <1>7, RunHasRecord DEF ApplyFails, At, Typed
    <2>2. CASE /\ run' = [run EXCEPT !.pc = "session", !.fallback = TRUE]
               /\ UNCHANGED <<ticket, work, github, outbox, mixed, left>>
      <3>1. run' \in Runs /\ run'.lease = run.lease
        BY <2>1, <2>2 DEF Runs, Pcs
      <3>2. RunTyped' /\ TicketTyped' /\ LeaseTyped' /\ LeftTyped'
        BY <2>1, <2>2, <3>1, RunGoesOn
      <3> QED
        BY <2>2, <3>2 DEF Typed, TreeTyped, LocalTyped, GithubTyped, OpsTyped
    <2> QED
      BY <1>7, <2>2, FailTyped DEF ApplyFails
  <1>8. CASE Session
    <2>1. run \in Runs /\ run.pc # "off"
      BY <1>8, RunHasRecord DEF Session, At, Typed
    <2>2. PICK ending \in Endings :
             /\ SessionLeaves(ending)
             /\ run' = [run EXCEPT !.pc = IF ending = "error" THEN "hard error" ELSE "count",
                                   !.ending = ending]
      BY <1>8 DEF Session
    <2>3. run' \in Runs /\ run'.lease = run.lease
      BY <2>1, <2>2 DEF Runs, Pcs
    <2>4. RunTyped' /\ TicketTyped' /\ LeaseTyped' /\ LeftTyped'
      BY <1>8, <2>1, <2>3, RunGoesOn DEF Session
    <2>5. LocalTyped' /\ TreeTyped'
      BY <1>8, <2>2, SessionLeavesTyped DEF Session, Typed
    <2> QED
      BY <1>8, <2>4, <2>5 DEF Session, Typed, GithubTyped, OpsTyped
  <1>9. CASE HardError
    BY <1>9, RequeueTyped, RequeueFreeTyped, FailTyped DEF HardError
  <1>10. CASE Count
    <2>1. run \in Runs /\ run.pc # "off"
      BY <1>10, RunHasRecord DEF Count, At, Typed
    <2>2. run' \in Runs /\ run'.lease = run.lease
      BY <1>10, <2>1 DEF Count, Goto, Runs, Pcs
    <2>3. RunTyped' /\ TicketTyped' /\ LeaseTyped' /\ LeftTyped'
      BY <1>10, <2>1, <2>2, RunGoesOn DEF Count
    <2>4. CASE UNCHANGED <<local, worktree>>
      BY <1>10, <2>3, <2>4 DEF Count, Typed, TreeTyped, LocalTyped, GithubTyped, OpsTyped
    <2>5. CASE /\ \E broken \in BOOLEAN :
                      local' = Commit("agent", broken, Cut(run.ending), TRUE)
               /\ worktree' = "clean"
      <3>1. PICK broken \in BOOLEAN : local' = Commit("agent", broken, Cut(run.ending), TRUE)
        BY <2>5
      <3>2. Cut(run.ending) \in BOOLEAN
        BY DEF Cut
      <3>3. local' \in Commits
        BY <3>1, <3>2, CommitTyped DEF Typed
      <3> QED
        BY <1>10, <2>3, <2>5, <3>3 DEF Count, Typed, TreeTyped, LocalTyped, GithubTyped, OpsTyped
    <2> QED
      BY <1>10, <2>4, <2>5 DEF Count
  <1>11. CASE Nothing
    <2>1. CASE run.ending = "timeout" /\ Fail
      BY <2>1, FailTyped
    <2>2. CASE run.ending = "stalled" /\ RequeueOrFail
      BY <2>2, RequeueTyped
    <2>3. CASE /\ run.ending \in {"ok", "guard"}
               /\ IF run.ending = "ok" THEN Finalize("done", "no changes")
                                       ELSE Finalize("failed", "failed")
               /\ Cleanup
               /\ UNCHANGED <<runs, local, github, outbox, mixed, left>>
      <3>1. RunTyped' /\ TicketTyped' /\ LeaseTyped' /\ LeftTyped'
        BY <2>3, FinalizeTyped DEF Ends, Outcomes
      <3>2. TreeTyped'
        BY <2>3, CleanupTyped DEF Typed
      <3> QED
        BY <2>3, <3>1, <3>2 DEF Typed, LocalTyped, GithubTyped, OpsTyped
    <2> QED
      BY <1>11, <2>1, <2>2, <2>3 DEF Nothing
  <1>12. CASE Review
    <2>1. run \in Runs /\ run.pc # "off"
      BY <1>12, RunHasRecord DEF Review, At, Typed
    <2>2. run' \in Runs /\ run'.lease = run.lease
      <3>1. CASE Goto("gates")
        BY <2>1, <3>1 DEF Goto, Runs, Pcs
      <3>2. CASE \E verdict \in Verdicts(local, worktree) :
                   run' = [run EXCEPT
                     !.verify = verdict,
                     !.pc = IF left.apply /\ ~run.fallback /\ verdict = "fail" /\ left.fallback
                         THEN "fallback" ELSE IF AppliedCleanly THEN "gates" ELSE "critic"]
        BY <2>1, <3>2, VerdictsTyped DEF Runs, Pcs
      <3> QED
        BY <1>12, <3>1, <3>2 DEF Review
    <2>3. RunTyped' /\ TicketTyped' /\ LeaseTyped' /\ LeftTyped'
      BY <1>12, <2>1, <2>2, RunGoesOn DEF Review
    <2> QED
      BY <1>12, <2>3 DEF Review, Typed, TreeTyped, LocalTyped, GithubTyped, OpsTyped
  <1>13. CASE Fallback
    <2>1. run \in Runs /\ run.pc # "off"
      BY <1>13, RunHasRecord DEF Fallback, At, Typed
    <2>2. PICK ending \in Endings :
             /\ SessionLeaves(ending)
             /\ \E verdict \in Verdicts(local', worktree') :
                   run' = [run EXCEPT !.pc = "critic", !.fallback = TRUE, !.ending = ending,
                                      !.verify = verdict]
      BY <1>13 DEF Fallback
    <2>3. run' \in Runs /\ run'.lease = run.lease
      <3>1. PICK verdict \in Verdicts(local', worktree') :
               run' = [run EXCEPT !.pc = "critic", !.fallback = TRUE, !.ending = ending,
                                  !.verify = verdict]
        BY <2>2
      <3>2. verdict \in {"pass", "fail"}
        BY VerdictsTyped
      <3> QED
        BY <2>1, <3>1, <3>2 DEF Runs, Pcs
    <2>4. RunTyped' /\ TicketTyped' /\ LeaseTyped' /\ LeftTyped'
      BY <1>13, <2>1, <2>3, RunGoesOn DEF Fallback
    <2>5. LocalTyped' /\ TreeTyped'
      BY <1>13, <2>2, SessionLeavesTyped DEF Fallback, Typed
    <2> QED
      BY <1>13, <2>4, <2>5 DEF Fallback, Typed, GithubTyped, OpsTyped
  <1>14. CASE Critic
    <2>1. run \in Runs /\ run.pc # "off"
      BY <1>14, RunHasRecord DEF Critic, At, Typed
    <2>2. run' \in Runs /\ run'.lease = run.lease
      BY <1>14, <2>1 DEF Critic, Goto, At, Runs, Pcs
    <2>3. RunTyped' /\ TicketTyped' /\ LeaseTyped' /\ LeftTyped'
      BY <1>14, <2>1, <2>2, RunGoesOn DEF Critic
    <2> QED
      BY <1>14, <2>3 DEF Critic, Typed, TreeTyped, LocalTyped, GithubTyped, OpsTyped
  <1>15. CASE Corrective
    <2>1. run \in Runs /\ run.pc # "off"
      BY <1>15, RunHasRecord DEF Corrective, At, Typed
    <2>2. run' \in Runs /\ run'.lease = run.lease
      BY <1>15, <2>1, VerdictsTyped DEF Corrective, Rechecked, Runs, Pcs
    <2>3. RunTyped' /\ TicketTyped' /\ LeaseTyped' /\ LeftTyped'
      BY <1>15, <2>1, <2>2, RunGoesOn DEF Corrective
    <2>4. LocalTyped' /\ TreeTyped'
      BY <1>15, <2>1, SessionLeavesTyped DEF Corrective, Typed
    <2> QED
      BY <1>15, <2>3, <2>4 DEF Corrective, Typed, GithubTyped, OpsTyped
  <1>16. CASE Thrown
    BY <1>16, ThrownTyped
  <1>17. CASE Gates
    BY <1>17, GatesTyped
  <1>18. CASE Push \/ PushRefused \/ PushOffline
    BY <1>18, PushTyped
  <1>19. CASE Create \/ Recover \/ CreateOffline \/ CreateFails
    BY <1>19, CreateTyped
  <1>20. CASE Finish \/ FinishParked
    BY <1>20, FinishTyped
  <1> QED
    BY <1>1, <1>2, <1>3, <1>4, <1>5, <1>6, <1>7, <1>8, <1>9, <1>10, <1>11, <1>12, <1>13,
       <1>14, <1>15, <1>16, <1>17, <1>18, <1>19, <1>20 DEF Flow

(* What the outbox, other people and the operator do keeps them too.       *)
LEMMA OthersTyped ==
  ASSUME Typed, Claim \/ Killed \/ Flush \/ PersonPushes \/ PersonOpensPr \/ PrCloses \/ Again
  PROVE  Typed'
  <1> USE DEF work, github, outbox
  <1>1. CASE Claim
    <2>1. ticket' \in Tickets /\ ticket'.where = "processing" /\ ticket'.retry = ticket.retry
      BY <1>1 DEF Claim, Typed, TicketTyped, Tickets
    <2>2. run' \in Runs /\ run'.pc # "off" /\ run'.lease = NoTip
      BY <1>1 DEF Claim, Start, Runs, Pcs, Tips
    <2>3. RunTyped' /\ TicketTyped' /\ LeaseTyped' /\ LeftTyped'
      BY <1>1, <2>1, <2>2
         DEF Claim, Typed, RunTyped, TicketTyped, LeaseTyped, LeftTyped
    <2> QED
      BY <1>1, <2>3 DEF Claim, Typed, TreeTyped, LocalTyped, GithubTyped, OpsTyped
  <1>2. CASE Killed
    <2>1. left' \in Instance /\ left'.retries = left.retries
      BY <1>2, SpendKeeps DEF Killed, Typed
    <2>2. ticket \in Tickets /\ ticket.retry \in Nat /\ left.retries \in Nat
      BY DEF Typed, TicketTyped, LeftTyped, Tickets, Instance
    <2>3. /\ ticket' \in Tickets /\ ticket'.where # "processing"
          /\ ticket'.retry <= left.retries
      <3>1. CASE ticket.retry < left.retries
        <4>1. ticket.retry + 1 \in Nat /\ ticket.retry + 1 <= left.retries
          BY <2>2, <3>1
        <4>2. ticket' = [ticket EXCEPT !.where = "inbox", !.retry = ticket.retry + 1]
          BY <1>2, <3>1 DEF Killed
        <4> QED
          BY <2>2, <4>1, <4>2 DEF Tickets
      <3>2. CASE ~(ticket.retry < left.retries)
        <4>1. ticket' = [ticket EXCEPT !.where = "failed", !.outcome = "failed"]
          BY <1>2, <3>2 DEF Killed
        <4> QED
          BY <2>2, <4>1 DEF Typed, TicketTyped, Tickets
      <3> QED
        BY <3>1, <3>2
    <2>4. RunTyped' /\ TicketTyped' /\ LeaseTyped' /\ LeftTyped'
      BY <1>2, <2>1, <2>3, RunStops DEF Killed
    <2> QED
      BY <1>2, <2>4 DEF Killed, Typed, TreeTyped, LocalTyped, GithubTyped, OpsTyped
  <1>3. CASE FlushPush
    <2>1. ops \in Seq(Ops) /\ ops # <<>>
      BY <1>3 DEF FlushPush, Parked, Typed, OpsTyped
    <2>2. Head(ops) \in Ops /\ Tail(ops) \in Seq(Ops)
      BY <2>1
    <2>3. [Head(ops) EXCEPT !.pushed = TRUE] \in Ops
      BY <2>2 DEF Ops
    <2>4. OpsTyped'
      BY <1>3, <2>2, <2>3 DEF FlushPush, OpsTyped
    <2>5. remote' \in Tips
      BY <1>3 DEF FlushPush, Typed, LocalTyped, Tips
    <2> QED
      BY <1>3, <2>4, <2>5
         DEF FlushPush, Typed, LeftTyped, RunTyped, TicketTyped, LeaseTyped, TreeTyped,
             LocalTyped, GithubTyped
  <1>4. CASE FlushPr
    <2>1. ops \in Seq(Ops) /\ ops # <<>>
      BY <1>4 DEF FlushPr, Parked, Typed, OpsTyped
    <2>2. Head(ops) \in Ops /\ Tail(ops) \in Seq(Ops)
      BY <2>1
    <2>3. Opened("junco", Head(ops).body) \in JuncoPrs
      BY <2>2, OpenedTyped DEF Ops
    <2>4. GithubTyped' /\ OpsTyped'
      BY <1>4, <2>2, <2>3 DEF FlushPr, Typed, GithubTyped, OpsTyped
    <2>5. ticket' \in Tickets /\ ticket'.where = ticket.where /\ ticket'.retry = ticket.retry
      BY <1>4 DEF FlushPr, Typed, TicketTyped, Tickets
    <2> QED
      BY <1>4, <2>4, <2>5
         DEF FlushPr, Typed, LeftTyped, RunTyped, TicketTyped, LeaseTyped, TreeTyped, LocalTyped
  <1>5. CASE FlushDies
    <2>1. Tail(ops) \in Seq(Ops)
      BY <1>5 DEF FlushDies, Parked, Typed, OpsTyped
    <2> QED
      BY <1>5, <2>1
         DEF FlushDies, Typed, LeftTyped, RunTyped, TicketTyped, LeaseTyped, TreeTyped,
             LocalTyped, GithubTyped, OpsTyped
  <1>6. CASE PersonPushes \/ PersonOpensPr \/ PrCloses
    <2>1. left' \in Instance /\ left'.retries = left.retries /\ left.people \in Nat
      BY <1>6, SpendKeeps DEF PersonPushes, PersonOpensPr, PrCloses, Typed
    <2>2. [author |-> "person", rev |-> left.people] \in Tips
      BY <2>1 DEF Persons, Tips
    <2>3. [state |-> "open", by |-> "person"] \in PersonPrs
      BY DEF PersonPrs, PrStates
    <2>4. ASSUME NEW state \in {"merged", "closed"}, pr.state = "open"
          PROVE  [pr EXCEPT !.state = state] \in JuncoPrs \cup PersonPrs
      BY <2>4 DEF Typed, GithubTyped, JuncoPrs, PersonPrs, NoPr, PrStates
    <2>5. remote' \in Tips
      BY <1>6, <2>2 DEF PersonPushes, PersonOpensPr, PrCloses, Typed, GithubTyped
    <2>6. pr' \in JuncoPrs \cup PersonPrs \cup {NoPr}
      BY <1>6, <2>3, <2>4 DEF PersonPushes, PersonOpensPr, PrCloses, Typed, GithubTyped
    <2> QED
      BY <1>6, <2>1, <2>5, <2>6
         DEF PersonPushes, PersonOpensPr, PrCloses, Typed, LeftTyped, RunTyped, TicketTyped,
             LeaseTyped, TreeTyped, LocalTyped, GithubTyped, OpsTyped
  <1>7. CASE Again
    <2>1. left' \in Instance /\ left'.retries = left.retries /\ left.retries \in Nat
      BY <1>7, SpendKeeps DEF Again, Typed, LeftTyped, Instance
    <2>2. run.pc = "off"
      BY <1>7 DEF Again, Typed, TicketTyped
    <2>3. ticket' \in Tickets /\ ticket'.where = "inbox" /\ ticket'.retry = 0
      BY <1>7 DEF Again, Tickets
    <2> QED
      BY <1>7, <2>1, <2>2, <2>3
         DEF Again, Typed, LeftTyped, RunTyped, TicketTyped, LeaseTyped, TreeTyped,
             LocalTyped, GithubTyped, OpsTyped
  <1> QED
    BY <1>1, <1>2, <1>3, <1>4, <1>5, <1>6, <1>7 DEF Flush

LEMMA StepTyped ==
  ASSUME Typed, [Next]_vars
  PROVE  Typed'
  <1>1. CASE Next
    BY <1>1, FlowTyped, OthersTyped DEF Next
  <1>2. CASE UNCHANGED vars
    BY <1>2
       DEF vars, work, github, outbox, Typed, LeftTyped, RunTyped, TicketTyped, LeaseTyped,
           TreeTyped, LocalTyped, GithubTyped, OpsTyped
  <1> QED
    BY <1>1, <1>2

----------------------------------------------------------------------------
(* The steps by what they do to the run: it stops, or it goes on.          *)

Kept == UNCHANGED <<local, runs, remote, pr, ops, dead, mixed>> /\ left'.apply = left.apply

Stopped == run' = NoRun /\ Kept

ApplyFallsBack ==
    /\ At("apply") /\ left.fallback
    /\ run' = [run EXCEPT !.pc = "session", !.fallback = TRUE]
    /\ UNCHANGED <<ticket, work, github, outbox, mixed, left>>

GatesPass ==
    /\ At("gates") /\ Goto("push")
    /\ UNCHANGED <<ticket, work, github, outbox, mixed, left>>

Early == Claim \/ Validate \/ ListPrs \/ PrepareWorktree
Working == \/ ApplyPatch \/ ApplyLeavesDirt \/ ApplyFallsBack \/ Session
           \/ Count \/ Review \/ Fallback \/ Critic \/ Corrective \/ GatesPass
Late == Push \/ PushOffline \/ Create \/ Recover \/ CreateOffline \/ CreateFails
Apart == FlushPush \/ FlushPr \/ FlushDies \/ PersonPushes \/ PersonOpensPr \/ PrCloses \/ Again

LEMMA SpendFree ==
  ASSUME Typed, NEW b \in {"free", "people", "kills", "again"}, Spend(b)
  PROVE  left'.apply = left.apply
  BY SpendKeeps DEF Typed

LEMMA FailStops == Fail => Stopped
  BY DEF Fail, Finalize, Stopped, Kept, work, github, outbox

LEMMA RequeueStops == RequeueOrFail => Stopped
  BY FailStops DEF RequeueOrFail, Requeue, Stopped, Kept, work, github, outbox

LEMMA StepKinds ==
  ASSUME Typed, Next
  PROVE  Stopped \/ Early \/ Working \/ Late \/ Apart
  <1> USE DEF work, github, outbox
  <1>1. CASE CheckFails \/ PushRefused
    BY <1>1, FailStops DEF CheckFails, PushRefused
  <1>2. CASE HardError
    BY <1>2, FailStops, RequeueStops, SpendFree
       DEF HardError, RequeueFree, Stopped, Kept
  <1>3. CASE Nothing
    BY <1>3, FailStops, RequeueStops DEF Nothing, Finalize, Stopped, Kept
  <1>4. CASE Thrown
    BY <1>4, SpendFree DEF Thrown, Stopped, Kept
  <1>5. CASE Finish \/ FinishParked
    BY <1>5 DEF Finish, FinishParked, Finalize, Stopped, Kept
  <1>6. CASE Killed
    BY <1>6, SpendFree DEF Killed, Stopped, Kept
  <1>7. CASE ApplyFails
    BY <1>7, FailStops DEF ApplyFails, ApplyFallsBack, Working
  <1>8. CASE Gates
    BY <1>8, FailStops DEF Gates, GatesPass, Working
  <1> QED
    BY <1>1, <1>2, <1>3, <1>4, <1>5, <1>6, <1>7, <1>8
       DEF Next, Flow, Flush, Early, Working, Late, Apart

(* A working step moves the run on and nothing outside its worktree.       *)
Moved ==
    /\ run \in Runs /\ run.pc \in Pcs
    /\ run'.lease = run.lease /\ run'.seen = run.seen /\ run'.pushed = run.pushed
    /\ run'.pc \notin {"off", "validate", "list", "prepare", "create", "finish", "parked"}
    /\ run.pc \notin {"off", "validate", "list", "prepare", "create", "finish", "parked"}
    /\ UNCHANGED <<ticket, runs, remote, pr, ops, dead, mixed, left>>

LEMMA WorkingMoves ==
  ASSUME Typed, Working
  PROVE  Moved
  <1>0. run.pc # "off" => run \in Runs /\ run.pc \in Pcs
    BY RunHasRecord DEF Typed, Runs
  <1> USE DEF work, github, outbox
  <1>1. CASE ApplyPatch
    BY <1>0, <1>1 DEF ApplyPatch, At, Goto, Runs, Moved
  <1>2. CASE ApplyLeavesDirt
    BY <1>0, <1>2 DEF ApplyLeavesDirt, At, Goto, Runs, Moved
  <1>3. CASE ApplyFallsBack
    BY <1>0, <1>3 DEF ApplyFallsBack, At, Goto, Runs, Moved
  <1>4. CASE Session
    BY <1>0, <1>4 DEF Session, At, Runs, Moved
  <1>5. CASE Count
    BY <1>0, <1>5 DEF Count, At, Goto, Runs, Moved
  <1>6. CASE Review
    <2>1. CASE Goto("gates")
      BY <1>0, <1>6, <2>1 DEF Review, Goto, At, Runs, Moved
    <2>2. CASE \E verdict \in Verdicts(local, worktree) :
                 run' = [run EXCEPT
                   !.verify = verdict,
                   !.pc = IF left.apply /\ ~run.fallback /\ verdict = "fail" /\ left.fallback
                         THEN "fallback" ELSE IF AppliedCleanly THEN "gates" ELSE "critic"]
      BY <1>0, <1>6, <2>2 DEF Review, At, Runs, Moved
    <2> QED
      BY <1>6, <2>1, <2>2 DEF Review
  <1>7. CASE Fallback
    BY <1>0, <1>7 DEF Fallback, At, Runs, Moved
  <1>8. CASE Critic
    BY <1>0, <1>8 DEF Critic, At, Goto, Runs, Moved
  <1>9. CASE Corrective
    BY <1>0, <1>9 DEF Corrective, At, Runs, Moved, Rechecked
  <1>10. CASE GatesPass
    BY <1>0, <1>10 DEF GatesPass, At, Goto, Runs, Moved
  <1> QED
    BY <1>1, <1>2, <1>3, <1>4, <1>5, <1>6, <1>7, <1>8, <1>9, <1>10 DEF Working

LEMMA LateMoves ==
  ASSUME Typed, Late
  PROVE  /\ run \in Runs /\ UNCHANGED <<runs, local, mixed, left>>
         /\ \/ run' = NoRun /\ run.pc = "create"
            \/ /\ run'.lease = run.lease /\ run'.seen = run.seen
               /\ run'.ending = run.ending /\ run'.fallback = run.fallback
               /\ run'.verify = run.verify
               /\ \/ run.pc = "push" /\ run'.pc = "create" /\ run'.pushed
                  \/ run.pc = "push" /\ run'.pc = "parked"
                  \/ run.pc = "create" /\ run'.pc = "parked"
                  \/ run.pc = "create" /\ run'.pc = "finish" /\ run'.pushed = run.pushed
  <1>0. run.pc # "off" => run \in Runs
    BY RunHasRecord DEF Typed
  <1> USE DEF work
  <1>1. CASE Push
    BY <1>0, <1>1 DEF Push, At, Runs
  <1>2. CASE PushOffline
    BY <1>0, <1>2 DEF PushOffline, At, Goto, Runs
  <1>3. CASE Create
    BY <1>0, <1>3 DEF Create, At, Goto, Runs
  <1>4. CASE Recover
    BY <1>0, <1>4 DEF Recover, At, Goto, Runs
  <1>5. CASE CreateOffline
    BY <1>0, <1>5 DEF CreateOffline, At, Goto, Runs
  <1>6. CASE CreateFails
    BY <1>0, <1>6 DEF CreateFails, At, Finalize, NoRun
  <1> QED
    BY <1>1, <1>2, <1>3, <1>4, <1>5, <1>6 DEF Late

LEMMA EarlyMoves ==
  ASSUME Typed, Early
  PROVE  \/ run.pc = "off" /\ run'.pc = "validate" /\ run'.lease = NoTip
         \/ /\ run.pc = "validate" /\ run'.pc \in {"prepare", "list"}
            /\ run'.lease = run.lease /\ run'.seen \in {remote, NoTip}
            /\ run'.pc = "list" => run'.seen = remote
         \/ /\ run.pc = "list" /\ run'.pc = "prepare" /\ pr.state # "open"
            /\ run'.lease = run.seen /\ run'.seen = run.seen
         \/ /\ run.pc = "prepare" /\ run'.pc \in {"apply", "session"}
            /\ run'.lease = run.lease /\ run'.seen = run.seen
            /\ run'.pc = "session" => ~left.apply
  <1>0. run.pc # "off" => run \in Runs
    BY RunHasRecord DEF Typed
  <1>1. CASE Claim
    BY <1>1 DEF Claim, Start, At
  <1>2. CASE Validate
    <2>1. PICK seen \in {remote, NoTip} :
             run' = [run EXCEPT !.seen = seen, !.pc = IF seen = NoTip THEN "prepare" ELSE "list"]
      BY <1>2 DEF Validate
    <2> QED
      BY <1>0, <1>2, <2>1 DEF Validate, At, Runs
  <1>3. CASE ListPrs
    BY <1>0, <1>3 DEF ListPrs, At, Runs
  <1>4. CASE PrepareWorktree
    BY <1>0, <1>4 DEF PrepareWorktree, At, Goto, Runs
  <1> QED
    BY <1>1, <1>2, <1>3, <1>4 DEF Early

(* What the steps of a session leave in the branch.                        *)
LEMMA SessionLeavesWhat ==
  ASSUME NEW ending, SessionLeaves(ending)
  PROVE  \E tree \in {"clean", "dirty"}, broken \in BOOLEAN :
            /\ worktree' = tree
            /\ \/ local' = Commit("agent", broken, Cut(ending), tree = "clean")
               \/ local' = IF HasCommits THEN [local EXCEPT !.tidy = (tree = "clean")] ELSE local
  BY DEF SessionLeaves

----------------------------------------------------------------------------
(* What the flow knows of the commits and of its lease.                    *)

LeaseWasSeen ==
    /\ run.pc \in {"validate", "list"} => run.lease = NoTip
    /\ run.pc # "off" => run.lease \in {NoTip, run.seen}

LEMMA LeaseStep ==
  ASSUME Typed, Typed', LeaseWasSeen, [Next]_vars
  PROVE  LeaseWasSeen'
  <1>0. run.pc # "off" => run \in Runs
    BY RunHasRecord DEF Typed
  <1>1. CASE Stopped
    BY <1>1 DEF Stopped, NoRun, LeaseWasSeen
  <1>2. CASE Early
    <2>1. CASE Claim
      BY <2>1 DEF Claim, Start, LeaseWasSeen
    <2>2. CASE Validate
      BY <1>0, <2>2 DEF Validate, At, Runs, LeaseWasSeen
    <2>3. CASE ListPrs
      BY <1>0, <2>3 DEF ListPrs, At, Runs, LeaseWasSeen
    <2>4. CASE PrepareWorktree
      BY <1>0, <2>4 DEF PrepareWorktree, At, Goto, Runs, LeaseWasSeen
    <2> QED
      BY <1>2, <2>1, <2>2, <2>3, <2>4 DEF Early
  <1>3. CASE Working
    BY <1>3, WorkingMoves DEF Moved, LeaseWasSeen
  <1>4. CASE Late
    BY <1>4, LateMoves DEF NoRun, LeaseWasSeen
  <1>5. CASE Apart \/ UNCHANGED vars
    BY <1>5
       DEF Apart, FlushPush, FlushPr, FlushDies, PersonPushes, PersonOpensPr, PrCloses, Again,
           vars, LeaseWasSeen
  <1> QED
    BY <1>1, <1>2, <1>3, <1>4, <1>5, StepKinds

(* Where the run is tells whether its branch has commits, and they are its *)
(* own.                                                                    *)
Uncommitted == {"apply", "session", "nothing"}
Committed == {"review", "fallback", "critic", "corrective", "gates", "push",
              "create", "finish", "parked"}

CommitsKnown ==
    /\ run.pc \in Uncommitted => ~HasCommits
    /\ run.pc \in Committed => HasCommits
    /\ HasCommits => local.run = runs

LEMMA CommitIsOurs ==
  ASSUME NEW by \in {"patch", "agent"}, NEW broken, NEW partial, NEW tidy,
         local' = Commit(by, broken, partial, tidy)
  PROVE  /\ HasCommits' /\ local'.run = runs /\ local'.author = by
         /\ local'.broken = broken /\ local'.partial = partial /\ local'.tidy = tidy
  BY DEF Commit, HasCommits, Ours

LEMMA TidyKeeps ==
  ASSUME LocalTyped, NEW tidy \in BOOLEAN,
         local' = IF HasCommits THEN [local EXCEPT !.tidy = tidy] ELSE local
  PROVE  /\ HasCommits' <=> HasCommits
         /\ HasCommits => /\ local'.run = local.run /\ local'.author = local.author
                          /\ local'.broken = local.broken /\ local'.partial = local.partial
                          /\ local'.tidy = tidy
         /\ ~HasCommits => local' = local
  <1>1. CASE HasCommits
    <2>1. local \in Commits
      BY <1>1 DEF LocalTyped, HasCommits, Ours, NoTip, Base
    <2>2. local' = [local EXCEPT !.tidy = tidy]
      BY <1>1
    <2>3. /\ local'.run = local.run /\ local'.author = local.author
          /\ local'.broken = local.broken /\ local'.partial = local.partial
          /\ local'.tidy = tidy
      BY <2>1, <2>2 DEF Commits
    <2>4. HasCommits'
      BY <1>1, <2>3 DEF HasCommits, Ours
    <2> QED
      BY <1>1, <2>3, <2>4
  <1>2. CASE ~HasCommits
    BY <1>2 DEF HasCommits
  <1> QED
    BY <1>1, <1>2

LEMMA SessionCommits ==
  ASSUME Typed, CommitsKnown, NEW ending, SessionLeaves(ending), UNCHANGED runs
  PROVE  /\ HasCommits => HasCommits'
         /\ HasCommits' => local'.run = runs'
  <1>1. PICK tree \in {"clean", "dirty"}, broken \in BOOLEAN :
            /\ worktree' = tree
            /\ \/ local' = Commit("agent", broken, Cut(ending), tree = "clean")
               \/ local' = IF HasCommits THEN [local EXCEPT !.tidy = (tree = "clean")] ELSE local
    BY SessionLeavesWhat
  <1>2. CASE local' = Commit("agent", broken, Cut(ending), tree = "clean")
    BY <1>2, CommitIsOurs
  <1>3. CASE local' = IF HasCommits THEN [local EXCEPT !.tidy = (tree = "clean")] ELSE local
    <2>1. (tree = "clean") \in BOOLEAN
      OBVIOUS
    <2> QED
      BY <1>3, <2>1, TidyKeeps DEF Typed, CommitsKnown
  <1> QED
    BY <1>1, <1>2, <1>3

LEMMA CommitsStep ==
  ASSUME Typed, Typed', CommitsKnown, [Next]_vars
  PROVE  CommitsKnown'
  <1> USE DEF Uncommitted, Committed
  <1>1. CASE Stopped
    BY <1>1 DEF Stopped, Kept, NoRun, CommitsKnown, HasCommits
  <1>2. CASE Early
    <2>1. CASE Claim \/ Validate \/ ListPrs
      <3>1. run'.pc \in {"validate", "list", "prepare"}
        BY <1>2, <2>1, EarlyMoves DEF At, Claim, Validate, ListPrs
      <3> QED
        BY <2>1, <3>1 DEF Claim, Validate, ListPrs, work, CommitsKnown, HasCommits
    <2>2. CASE PrepareWorktree
      <3>1. ~HasCommits'
        BY <2>2 DEF PrepareWorktree, HasCommits, Ours, Base
      <3>2. run'.pc \in {"apply", "session"}
        BY <2>2, RunHasRecord DEF PrepareWorktree, At, Goto, Typed, Runs
      <3> QED
        BY <3>1, <3>2 DEF CommitsKnown
    <2> QED
      BY <1>2, <2>1, <2>2 DEF Early
  <1>3. CASE Working
    <2>0. Moved
      BY <1>3, WorkingMoves
    <2>1. run \in Runs /\ runs' = runs
      BY <2>0 DEF Moved
    <2>2. CASE ApplyPatch
      <3>1. HasCommits' /\ local'.run = runs
        BY <2>2, CommitIsOurs DEF ApplyPatch
      <3>2. run'.pc = "count"
        BY <2>1, <2>2 DEF ApplyPatch, Runs
      <3> QED
        BY <2>1, <3>1, <3>2 DEF CommitsKnown
    <2>3. CASE ApplyLeavesDirt \/ ApplyFallsBack
      <3>1. ~HasCommits /\ local' = local
        BY <2>3 DEF ApplyLeavesDirt, ApplyFallsBack, At, work, CommitsKnown
      <3>2. run'.pc \in {"count", "session"}
        BY <2>1, <2>3 DEF ApplyLeavesDirt, ApplyFallsBack, Runs
      <3> QED
        BY <2>1, <3>1, <3>2 DEF CommitsKnown, HasCommits
    <2>4. CASE Session
      <3>1. PICK ending \in Endings :
               /\ SessionLeaves(ending)
               /\ run' = [run EXCEPT !.pc = IF ending = "error" THEN "hard error" ELSE "count",
                                     !.ending = ending]
        BY <2>4 DEF Session
      <3>2. run'.pc \in {"count", "hard error"}
        BY <2>1, <3>1 DEF Runs
      <3> QED
        BY <2>1, <3>1, <3>2, SessionCommits DEF CommitsKnown
    <2>5. CASE Count
      <3>1. run'.pc = IF Ours(local') THEN "review" ELSE "nothing"
        BY <2>1, <2>5 DEF Count, Goto, Runs
      <3>2. HasCommits' => local'.run = runs
        <4>1. CASE UNCHANGED <<local, worktree>>
          BY <4>1 DEF CommitsKnown, HasCommits
        <4>2. CASE \E broken \in BOOLEAN :
                      local' = Commit("agent", broken, Cut(run.ending), TRUE)
          BY <4>2, CommitIsOurs
        <4> QED
          BY <2>5, <4>1, <4>2 DEF Count
      <3> QED
        BY <2>1, <3>1, <3>2 DEF CommitsKnown, HasCommits
    <2>6. CASE Review \/ Critic \/ GatesPass
      <3>1. HasCommits /\ local' = local
        BY <2>6 DEF Review, Critic, GatesPass, At, work, CommitsKnown
      <3>2. run'.pc \in {"gates", "fallback", "critic", "corrective", "push"}
        <4>1. CASE Review
          BY <2>1, <4>1 DEF Review, Goto, Runs
        <4>2. CASE Critic \/ GatesPass
          BY <2>1, <4>2 DEF Critic, GatesPass, Goto, Runs
        <4> QED
          BY <2>6, <4>1, <4>2
      <3> QED
        BY <2>1, <3>1, <3>2 DEF CommitsKnown, HasCommits
    <2>7. CASE Fallback \/ Corrective
      <3>1. HasCommits
        BY <2>7 DEF Fallback, Corrective, At, CommitsKnown
      <3>2. HasCommits' /\ local'.run = runs'
        BY <2>1, <2>7, <3>1, SessionCommits DEF Fallback, Corrective
      <3>3. run'.pc \in {"critic", "gates"}
        BY <2>1, <2>7 DEF Fallback, Corrective, Runs
      <3> QED
        BY <2>1, <3>2, <3>3 DEF CommitsKnown
    <2> QED
      BY <1>3, <2>2, <2>3, <2>4, <2>5, <2>6, <2>7 DEF Working
  <1>4. CASE Late
    <2>1. HasCommits /\ local' = local /\ runs' = runs
      BY <1>4, LateMoves DEF CommitsKnown
    <2>2. run'.pc \notin Uncommitted
      BY <1>4, LateMoves DEF NoRun
    <2> QED
      BY <2>1, <2>2 DEF CommitsKnown, HasCommits
  <1>5. CASE Apart \/ UNCHANGED vars
    BY <1>5
       DEF Apart, FlushPush, FlushPr, FlushDies, PersonPushes, PersonOpensPr, PrCloses, Again,
           vars, work, CommitsKnown, HasCommits
  <1> QED
    BY <1>1, <1>2, <1>3, <1>4, <1>5, StepKinds

(* What has been pushed, opened and parked by the time a run is there.     *)
PushKnown ==
    /\ run.pc \in {"create", "finish"} => run.pushed
    /\ run.pc = "create" => remote # NoTip
    /\ run.pc = "finish" => pr # NoPr
    /\ run.pc = "parked" => ops # <<>>
    /\ ops # <<>> => local # NoTip

LEMMA OursIsATip == HasCommits => local # NoTip /\ local # Base
  BY DEF HasCommits, Ours, NoTip, Base

LEMMA ParkedHolds ==
  ASSUME Typed, NEW pushed, ParkedFor(pushed)
  PROVE  ops' # <<>>
  BY DEF Typed, OpsTyped, ParkedFor

LEMMA PushStep ==
  ASSUME Typed, Typed', CommitsKnown, PushKnown, [Next]_vars
  PROVE  PushKnown'
  <1>1. CASE Stopped
    BY <1>1 DEF Stopped, Kept, NoRun, PushKnown
  <1>2. CASE Early
    <2>1. run'.pc \in {"validate", "prepare", "list", "apply", "session"}
      BY <1>2, EarlyMoves
    <2>2. ops' = ops /\ (local' = local \/ local' = Base)
      BY <1>2 DEF Early, Claim, Validate, ListPrs, PrepareWorktree, work, outbox
    <2> QED
      BY <2>1, <2>2 DEF PushKnown, Base, NoTip
  <1>3. CASE Working
    <2>1. Moved
      BY <1>3, WorkingMoves
    <2>2. local # NoTip => local' # NoTip
      <3>1. CASE ApplyPatch \/ Count
        <4>1. ASSUME NEW by \in {"patch", "agent"}, NEW broken, NEW partial, NEW tidy,
                     local' = Commit(by, broken, partial, tidy)
              PROVE  local' # NoTip
          BY <4>1, CommitIsOurs DEF HasCommits, Ours, NoTip
        <4>2. \/ local' = local
              \/ \E broken : local' = Commit("patch", broken, FALSE, TRUE)
              \/ \E broken : local' = Commit("agent", broken, Cut(run.ending), TRUE)
          BY <3>1 DEF ApplyPatch, Count
        <4> QED
          BY <4>1, <4>2
      <3>2. CASE Session \/ Fallback \/ Corrective
        <4>1. PICK ending : SessionLeaves(ending)
          BY <3>2 DEF Session, Fallback, Corrective
        <4>2. PICK tree \in {"clean", "dirty"}, broken \in BOOLEAN :
                /\ worktree' = tree
                /\ \/ local' = Commit("agent", broken, Cut(ending), tree = "clean")
                   \/ local' = IF HasCommits THEN [local EXCEPT !.tidy = (tree = "clean")]
                                             ELSE local
          BY <4>1, SessionLeavesWhat
        <4>3. CASE local' = Commit("agent", broken, Cut(ending), tree = "clean")
          BY <4>3, CommitIsOurs DEF HasCommits, Ours, NoTip
        <4>4. CASE local' = IF HasCommits THEN [local EXCEPT !.tidy = (tree = "clean")]
                                          ELSE local
          <5>1. (tree = "clean") \in BOOLEAN
            OBVIOUS
          <5> QED
            BY <4>4, <5>1, TidyKeeps DEF Typed, HasCommits, Ours, NoTip
        <4> QED
          BY <4>2, <4>3, <4>4
      <3>3. CASE ApplyLeavesDirt \/ ApplyFallsBack \/ Review \/ Critic \/ GatesPass
        BY <3>3 DEF ApplyLeavesDirt, ApplyFallsBack, Review, Critic, GatesPass, work
      <3> QED
        BY <1>3, <3>1, <3>2, <3>3 DEF Working
    <2> QED
      BY <2>1, <2>2 DEF Moved, PushKnown
  <1>4. CASE Late
    <2>0. local' = local /\ local # NoTip
      BY <1>4, LateMoves, OursIsATip DEF CommitsKnown, Committed
    <2>1. CASE Push
      BY <1>4, <2>0, <2>1, LateMoves, RunHasRecord DEF Push, At, PushKnown, Typed, Runs, NoRun
    <2>2. CASE PushOffline \/ CreateOffline
      <3>1. ops' # <<>>
        BY <2>2, ParkedHolds DEF PushOffline, CreateOffline
      <3>2. run'.pc = "parked"
        BY <2>2, RunHasRecord DEF PushOffline, CreateOffline, At, Goto, Typed, Runs
      <3> QED
        BY <2>0, <3>1, <3>2 DEF PushKnown
    <2>3. CASE Create \/ Recover
      <3>1. run'.pc = "finish" /\ run'.pushed = run.pushed /\ run.pc = "create"
        BY <2>3, RunHasRecord DEF Create, Recover, At, Goto, Typed, Runs
      <3>2. pr' # NoPr
        BY <2>3 DEF Create, Recover, Opened, NoPr, github
      <3> QED
        BY <2>0, <2>3, <3>1, <3>2 DEF Create, Recover, outbox, PushKnown
    <2>4. CASE CreateFails
      BY <2>0, <2>4 DEF CreateFails, Finalize, NoRun, outbox, PushKnown
    <2> QED
      BY <1>4, <2>1, <2>2, <2>3, <2>4 DEF Late
  <1>5. CASE Apart
    <2>1. run' = run /\ local' = local
      BY <1>5 DEF Apart, FlushPush, FlushPr, FlushDies, PersonPushes, PersonOpensPr, PrCloses,
                  Again, work
    <2>2. ops' # <<>> => ops # <<>>
      BY <1>5 DEF Apart, FlushPush, FlushPr, FlushDies, PersonPushes, PersonOpensPr, PrCloses,
                  Again, outbox, Parked
    <2>3. run.pc = "parked" => ops' = ops
      BY <1>5 DEF Apart, FlushPush, FlushPr, FlushDies, PersonPushes, PersonOpensPr, PrCloses,
                  Again, outbox, Parked, At
    <2>4. remote # NoTip => remote' # NoTip
      <3>1. CASE FlushPush
        BY <3>1 DEF FlushPush, Parked, PushKnown
      <3>2. CASE PersonPushes
        BY <3>2 DEF PersonPushes, NoTip
      <3> QED
        BY <1>5, <3>1, <3>2
           DEF Apart, FlushPr, FlushDies, PersonOpensPr, PrCloses, Again, github
    <2>5. pr # NoPr => pr' # NoPr
      BY <1>5
         DEF Apart, FlushPush, FlushPr, FlushDies, PersonPushes, PersonOpensPr, PrCloses, Again,
             github, Opened, NoPr, Typed, GithubTyped, JuncoPrs, PersonPrs, PrStates
    <2> QED
      BY <2>1, <2>2, <2>3, <2>4, <2>5 DEF PushKnown
  <1>6. CASE UNCHANGED vars
    BY <1>6 DEF vars, work, github, outbox, PushKnown
  <1> QED
    BY <1>1, <1>2, <1>3, <1>4, <1>5, <1>6, StepKinds

----------------------------------------------------------------------------
(* No work is lost.                                                        *)

FlowInv == Typed /\ LeaseWasSeen /\ CommitsKnown /\ PushKnown

LEMMA FlowInvInit == Init => FlowInv
  <1> SUFFICES ASSUME Init PROVE FlowInv
    OBVIOUS
  <1>1. Typed
    BY InitTyped
  <1>2. LeaseWasSeen /\ CommitsKnown /\ PushKnown
    BY DEF Init, NoRun, NoTip, LeaseWasSeen, CommitsKnown, Uncommitted, Committed, HasCommits,
           Ours, PushKnown
  <1> QED
    BY <1>1, <1>2 DEF FlowInv

LEMMA FlowInvStep == FlowInv /\ [Next]_vars => FlowInv'
  BY StepTyped, LeaseStep, CommitsStep, PushStep DEF FlowInv

THEOREM FlowInvariant == Spec => []FlowInv
  BY FlowInvInit, FlowInvStep, PTL DEF Spec

LEMMA KeepsCommitted ==
  ASSUME FlowInv, [Next]_vars, RunGivenUp, HasCommits
  PROVE  run.pushed
  <1> USE DEF FlowInv, work, github, outbox
  <1>0. /\ run.pc \in {"create", "finish"} => run.pushed
        /\ run.pc # "nothing"
    BY DEF PushKnown, CommitsKnown, Uncommitted
  <1>1. ASSUME Fail PROVE FALSE
    BY <1>1 DEF Fail, Finalize, RunGivenUp
  <1>2. CASE HardError \/ Nothing
    BY <1>0, <1>1, <1>2 DEF HardError, NothingCommitted, Nothing, At
  <1>3. CASE Thrown
    BY <1>3 DEF Thrown, RunGivenUp
  <1>4. CASE CheckFails \/ PushRefused \/ ApplyFails \/ Gates
    BY <1>1, <1>4 DEF CheckFails, PushRefused, ApplyFails, Gates, RunGivenUp
  <1>5. CASE CreateFails \/ Finish
    BY <1>0, <1>5 DEF CreateFails, Finish, At
  <1>6. CASE FinishParked
    BY <1>6, StatusTyped DEF FinishParked, Finalize, RunGivenUp, Ends, Typed, TicketTyped, Tickets
  <1>7. CASE Killed
    <2>1. left'.kills = left.kills - 1 /\ left.kills \in Nat
      BY <1>7, SpendKeeps DEF Killed, Typed, LeftTyped, Instance
    <2>2. left'.kills # left.kills
      BY <2>1
    <2> QED
      BY <1>7, <2>2 DEF Killed, RunGivenUp
  <1>8. CASE Early
    <2>1. \/ UNCHANGED ticket
          \/ ticket' = [ticket EXCEPT !.where = "processing"]
      BY <1>8 DEF Early, Claim, Validate, ListPrs, PrepareWorktree
    <2>2. worktree' = worktree \/ worktree' = "clean"
      BY <1>8 DEF Early, Claim, Validate, ListPrs, PrepareWorktree
    <2> QED
      BY <2>1, <2>2 DEF RunGivenUp, Typed, TicketTyped, Tickets
  <1>9. CASE Working
    <2>1. UNCHANGED ticket
      BY <1>9, WorkingMoves DEF Moved
    <2>2. worktree' = worktree \/ worktree' \in {"clean", "dirty"}
      BY <1>9
         DEF Working, ApplyPatch, ApplyLeavesDirt, ApplyFallsBack, Session, Count, Review,
             Fallback, Critic, Corrective, GatesPass, SessionLeaves
    <2> QED
      BY <2>1, <2>2 DEF RunGivenUp
  <1>10. CASE Push \/ PushOffline \/ Create \/ Recover \/ CreateOffline
    BY <1>10 DEF Push, PushOffline, Create, Recover, CreateOffline, RunGivenUp
  <1>11. CASE Apart
    <2>1. worktree' = worktree
      BY <1>11 DEF Apart, FlushPush, FlushPr, FlushDies, PersonPushes, PersonOpensPr, PrCloses,
                   Again
    <2>2. ticket.where = "processing" => ticket' = ticket
      BY <1>11 DEF Apart, FlushPush, FlushPr, FlushDies, PersonPushes, PersonOpensPr, PrCloses,
                   Again
    <2> QED
      BY <2>1, <2>2 DEF RunGivenUp
  <1>12. CASE UNCHANGED vars
    BY <1>12 DEF vars, RunGivenUp
  <1> QED
    BY <1>2, <1>3, <1>4, <1>5, <1>6, <1>7, <1>8, <1>9, <1>10, <1>11, <1>12
       DEF Next, Flow, Flush, Early, Working, Apart

LEMMA KeepsPeoples ==
  ASSUME FlowInv, [Next]_vars, remote.author = "person", remote'.author # "person"
  PROVE  run.pc = "push" /\ ticket.retry > 0 /\ run.seen = remote
  <1> USE DEF FlowInv
  <1>1. ~FastForward(remote, local) /\ remote # NoTip
    BY DEF FastForward, Ours, NoTip, Base
  <1>2. \/ Push \/ PushOffline \/ FlushPush
    <2>1. CASE Stopped
      BY <2>1 DEF Stopped, Kept
    <2>2. CASE Early
      BY <2>2 DEF Early, Claim, Validate, ListPrs, PrepareWorktree, github
    <2>3. CASE Working
      BY <2>3, WorkingMoves DEF Moved
    <2>4. CASE Late
      BY <2>4 DEF Late, Create, Recover, CreateOffline, CreateFails, github
    <2>5. CASE Apart
      BY <2>5 DEF Apart, FlushPr, FlushDies, PersonPushes, PersonOpensPr, PrCloses, Again, github
    <2>6. CASE UNCHANGED vars
      BY <2>6 DEF vars, github
    <2> QED
      BY <2>1, <2>2, <2>3, <2>4, <2>5, <2>6, StepKinds
  <1>3. ~FlushPush
    BY <1>1 DEF FlushPush, Accepted
  <1>4. run.pc = "push" /\ run.lease # NoTip /\ remote = run.lease
    BY <1>1, <1>2, <1>3 DEF Push, PushOffline, Accepted, At
  <1>5. run.lease = run.seen
    BY <1>4 DEF LeaseWasSeen
  <1>6. ticket.retry > 0
    BY <1>4 DEF Typed, LeaseTyped
  <1> QED
    BY <1>4, <1>5, <1>6

(* Whatever the flow gives up, the commits a run made are pushed first, and *)
(* what other people pushed under the branch's name is overwritten only by  *)
(* a resumed run that saw exactly that tip (prFlow.ts, worktree.ts): for    *)
(* every configuration, and any number of pushes, kills and retries.        *)
THEOREM NoWorkIsLost == Spec => WorkIsKept
  <1>1. FlowInv /\ [Next]_vars => [RunGivenUp /\ HasCommits => run.pushed]_vars
    BY KeepsCommitted
  <1>2. FlowInv /\ [Next]_vars =>
           [remote.author = "person" /\ remote'.author # "person" =>
              run.pc = "push" /\ ticket.retry > 0 /\ run.seen = remote]_vars
    BY KeepsPeoples
  <1> QED
    BY <1>1, <1>2, FlowInvariant, PTL DEF Spec, WorkIsKept, CommittedWorkKept, PeoplesWorkKept

----------------------------------------------------------------------------
(* What the flow knows of its work when it writes the pull request's text. *)

\* A reviewed patch is replaced by an agent's work only in a fallback.
ReplacedKnown ==
    /\ run.pc \in {"session", "critic", "corrective"} => ~left.apply \/ run.fallback
    /\ run.pc \in Committed \cup {"count"} /\ HasCommits =>
          (left.apply /\ local.author = "agent" => run.fallback)

\* A session that was cut is known to have been.
CutKnown ==
    /\ run.pc = "fallback" => ~Cut(run.ending)
    /\ run.pc \in Committed \cup {"count"} /\ HasCommits => (local.partial => Cut(run.ending))

\* What is committed from a clean tree is what the verification saw.
Judged == {"critic", "gates", "push", "create", "parked"}
VerdictKnown ==
    /\ run.pc \in {"count", "review", "fallback", "critic", "corrective"} /\ HasCommits =>
          (local.tidy => worktree = "clean")
    /\ run.pc = "apply" => worktree = "clean"
    /\ run.pc \in Judged =>
          (local.broken /\ local.tidy => run.verify = "fail" \/ Cut(run.ending))

LadderKnown == ReplacedKnown /\ CutKnown /\ VerdictKnown

LEMMA VerdictTells ==
  ASSUME NEW tip, NEW verdict \in Verdicts(tip, "clean"), tip.broken
  PROVE  verdict = "fail"
  BY DEF Verdicts

(* A session leaves a tip of its own or the one it found, and says how     *)
(* clean the tree is.                                                      *)
LEMMA SessionTells ==
  ASSUME Typed, NEW ending, SessionLeaves(ending), HasCommits \/ HasCommits'
  PROVE  /\ \/ local'.author = "agent" /\ local'.partial = Cut(ending)
            \/ HasCommits /\ local'.author = local.author /\ local'.partial = local.partial
         /\ local'.tidy => worktree' = "clean"
         /\ HasCommits'
  <1>1. PICK tree \in {"clean", "dirty"}, broken \in BOOLEAN :
            /\ worktree' = tree
            /\ \/ local' = Commit("agent", broken, Cut(ending), tree = "clean")
               \/ local' = IF HasCommits THEN [local EXCEPT !.tidy = (tree = "clean")] ELSE local
    BY SessionLeavesWhat
  <1>2. CASE local' = Commit("agent", broken, Cut(ending), tree = "clean")
    <2>1. /\ HasCommits' /\ local'.author = "agent"
          /\ local'.partial = Cut(ending) /\ local'.tidy = (tree = "clean")
      BY <1>2, CommitIsOurs
    <2> QED
      BY <1>1, <2>1
  <1>3. CASE local' = IF HasCommits THEN [local EXCEPT !.tidy = (tree = "clean")] ELSE local
    <2>1. (tree = "clean") \in BOOLEAN
      OBVIOUS
    <2>2. HasCommits /\ HasCommits'
      BY <1>3, <2>1, TidyKeeps DEF Typed
    <2>3. /\ local'.author = local.author /\ local'.partial = local.partial
          /\ local'.tidy = (tree = "clean")
      BY <1>3, <2>1, <2>2, TidyKeeps DEF Typed
    <2> QED
      BY <1>1, <2>2, <2>3
  <1> QED
    BY <1>1, <1>2, <1>3

LEMMA LadderStep ==
  ASSUME Typed, Typed', CommitsKnown, CommitsKnown', LadderKnown, [Next]_vars
  PROVE  LadderKnown'
  <1> USE DEF LadderKnown, Committed, Judged
  <1>1. CASE Stopped
    BY <1>1 DEF Stopped, Kept, NoRun, ReplacedKnown, CutKnown, VerdictKnown
  <1>2. CASE Early
    <2>1. run'.pc \in {"validate", "prepare", "list", "apply", "session"}
      BY <1>2, EarlyMoves
    <2>2. run'.pc = "session" => ~left'.apply
      BY <1>2, EarlyMoves DEF Early, Claim, Validate, ListPrs, PrepareWorktree
    <2>3. run'.pc = "apply" => worktree' = "clean"
      BY <1>2, EarlyMoves DEF Early, Claim, Validate, ListPrs, PrepareWorktree, At
    <2> QED
      BY <2>1, <2>2, <2>3 DEF ReplacedKnown, CutKnown, VerdictKnown
  <1>3. CASE Working
    <2>0. Moved /\ run \in Runs /\ left' = left
      BY <1>3, WorkingMoves DEF Moved
    <2>1. CASE ApplyPatch
      <3>1. PICK broken \in BOOLEAN : local' = Commit("patch", broken, FALSE, TRUE)
        BY <2>1 DEF ApplyPatch
      <3>2. /\ local'.author = "patch" /\ local'.partial = FALSE
        BY <3>1, CommitIsOurs
      <3>3. worktree' = "clean" /\ run'.pc = "count"
        BY <2>0, <2>1 DEF ApplyPatch, At, Runs, VerdictKnown
      <3> QED
        BY <3>2, <3>3 DEF ReplacedKnown, CutKnown, VerdictKnown
    <2>2. CASE ApplyLeavesDirt
      <3>1. ~HasCommits' /\ run'.pc = "count"
        BY <2>0, <2>2 DEF ApplyLeavesDirt, At, Runs, CommitsKnown, Uncommitted, HasCommits
      <3> QED
        BY <3>1 DEF ReplacedKnown, CutKnown, VerdictKnown
    <2>3. CASE ApplyFallsBack
      <3>1. run'.pc = "session" /\ run'.fallback = TRUE
        BY <2>0, <2>3 DEF ApplyFallsBack, Runs
      <3> QED
        BY <3>1 DEF ReplacedKnown, CutKnown, VerdictKnown
    <2>4. CASE Session
      <3>1. PICK ending \in Endings :
               /\ SessionLeaves(ending)
               /\ run' = [run EXCEPT !.pc = IF ending = "error" THEN "hard error" ELSE "count",
                                     !.ending = ending]
        BY <2>4 DEF Session
      <3>2. /\ run'.pc \in {"count", "hard error"} /\ run'.ending = ending
            /\ run'.fallback = run.fallback
        BY <2>0, <3>1 DEF Runs
      <3>3. ~HasCommits /\ (~left.apply \/ run.fallback)
        BY <2>4 DEF Session, At, CommitsKnown, Uncommitted, ReplacedKnown
      <3>4. HasCommits' => /\ local'.partial = Cut(ending)
                           /\ local'.tidy => worktree' = "clean"
        BY <3>1, <3>3, SessionTells
      <3> QED
        BY <2>0, <3>2, <3>3, <3>4 DEF ReplacedKnown, CutKnown, VerdictKnown
    <2>5. CASE Count
      <3>1. run.pc = "count" /\ run'.pc \in {"review", "nothing"}
        BY <2>0, <2>5 DEF Count, Goto, At, Runs
      <3>2. run'.ending = run.ending /\ run'.fallback = run.fallback
        BY <2>0, <2>5 DEF Count, Goto, Runs
      <3>3. CASE UNCHANGED <<local, worktree>>
        BY <2>0, <3>1, <3>2, <3>3 DEF ReplacedKnown, CutKnown, VerdictKnown, HasCommits
      <3>4. CASE /\ \E broken \in BOOLEAN :
                       local' = Commit("agent", broken, Cut(run.ending), TRUE)
                 /\ worktree' = "clean" /\ ~AppliedCleanly
        <4>1. local'.partial = Cut(run.ending)
          BY <3>4, CommitIsOurs
        <4>2. ~left.apply \/ run.fallback
          BY <3>4 DEF AppliedCleanly
        <4> QED
          BY <2>0, <3>1, <3>2, <3>4, <4>1, <4>2 DEF ReplacedKnown, CutKnown, VerdictKnown
      <3> QED
        BY <2>5, <3>3, <3>4 DEF Count
    <2>6. CASE Review
      <3>1. /\ run.pc = "review" /\ HasCommits /\ local' = local /\ worktree' = worktree
            /\ HasCommits' <=> HasCommits
        BY <2>6 DEF Review, At, work, CommitsKnown, HasCommits
      <3>2. CASE Cut(run.ending) /\ Goto("gates")
        <4>1. /\ run'.pc = "gates" /\ run'.ending = run.ending /\ run'.fallback = run.fallback
          BY <2>0, <3>2 DEF Goto, Runs
        <4> QED
          BY <2>0, <3>1, <3>2, <4>1 DEF ReplacedKnown, CutKnown, VerdictKnown
      <3>3. CASE /\ ~Cut(run.ending)
                 /\ \E verdict \in Verdicts(local, worktree) :
                      run' = [run EXCEPT
                        !.verify = verdict,
                        !.pc = IF left.apply /\ ~run.fallback /\ verdict = "fail" /\ left.fallback
                         THEN "fallback" ELSE IF AppliedCleanly THEN "gates" ELSE "critic"]
        <4>1. PICK verdict \in Verdicts(local, worktree) :
                run' = [run EXCEPT
                  !.verify = verdict,
                  !.pc = IF left.apply /\ ~run.fallback /\ verdict = "fail" /\ left.fallback
                         THEN "fallback" ELSE IF AppliedCleanly THEN "gates" ELSE "critic"]
          BY <3>3
        <4>2. /\ run'.ending = run.ending /\ run'.fallback = run.fallback /\ run'.verify = verdict
              /\ run'.pc \in {"fallback", "gates", "critic"}
              /\ run'.pc = "critic" => ~AppliedCleanly
          BY <2>0, <4>1 DEF Runs
        <4>3. local.broken /\ local.tidy => verdict = "fail"
          BY <3>1, VerdictTells DEF VerdictKnown
        <4> QED
          BY <2>0, <3>1, <3>3, <4>2, <4>3
             DEF ReplacedKnown, CutKnown, VerdictKnown, AppliedCleanly
      <3> QED
        BY <2>6, <3>2, <3>3 DEF Review
    <2>7. CASE Fallback
      <3>1. PICK ending \in Endings :
               /\ SessionLeaves(ending)
               /\ \E verdict \in Verdicts(local', worktree') :
                     run' = [run EXCEPT !.pc = "critic", !.fallback = TRUE, !.ending = ending,
                                        !.verify = verdict]
        BY <2>7 DEF Fallback
      <3>2. PICK verdict \in Verdicts(local', worktree') :
               run' = [run EXCEPT !.pc = "critic", !.fallback = TRUE, !.ending = ending,
                                  !.verify = verdict]
        BY <3>1
      <3>3. /\ run'.pc = "critic" /\ run'.fallback = TRUE /\ run'.ending = ending
            /\ run'.verify = verdict
        BY <2>0, <3>2 DEF Runs
      <3>4. run.pc = "fallback" /\ HasCommits
        BY <2>7 DEF Fallback, At, CommitsKnown
      <3>5. /\ local'.partial => Cut(ending)
            /\ local'.tidy => worktree' = "clean"
        <4>1. ~local.partial
          BY <3>4 DEF CutKnown
        <4> QED
          BY <3>1, <3>4, <4>1, SessionTells
      <3>6. local'.broken /\ local'.tidy => verdict = "fail"
        BY <3>5, VerdictTells
      <3> QED
        BY <3>3, <3>5, <3>6 DEF ReplacedKnown, CutKnown, VerdictKnown
    <2>8. CASE Critic \/ GatesPass
      <3>1. /\ HasCommits /\ local' = local /\ worktree' = worktree
            /\ HasCommits' <=> HasCommits
        BY <2>8 DEF Critic, GatesPass, At, work, CommitsKnown, HasCommits
      <3>2. /\ run'.ending = run.ending /\ run'.fallback = run.fallback
            /\ run'.verify = run.verify
            /\ \/ run.pc = "critic" /\ run'.pc \in {"gates", "corrective"}
               \/ run.pc = "gates" /\ run'.pc = "push"
        BY <2>0, <2>8 DEF Critic, GatesPass, At, Goto, Runs
      <3> QED
        BY <2>0, <3>1, <3>2 DEF ReplacedKnown, CutKnown, VerdictKnown
    <2>9. CASE Corrective
      <3>1. PICK verdict \in Verdicts(local', worktree') :
               run' = [run EXCEPT !.pc = "gates", !.verify = Rechecked(verdict)]
        BY <2>9 DEF Corrective
      <3>2. /\ run'.pc = "gates" /\ run'.fallback = run.fallback /\ run'.ending = run.ending
            /\ run'.verify = verdict
        BY <2>0, <3>1 DEF Rechecked, Runs
      <3>3. run.pc = "corrective" /\ HasCommits /\ SessionLeaves(run.ending)
        BY <2>9 DEF Corrective, At, CommitsKnown
      <3>4. /\ local'.partial => Cut(run.ending)
            /\ local'.tidy => worktree' = "clean"
        BY <3>3, SessionTells DEF CutKnown
      <3>5. local'.broken /\ local'.tidy => verdict = "fail"
        BY <3>4, VerdictTells
      <3> QED
        BY <2>0, <3>2, <3>3, <3>4, <3>5 DEF ReplacedKnown, CutKnown, VerdictKnown
    <2> QED
      BY <1>3, <2>1, <2>2, <2>3, <2>4, <2>5, <2>6, <2>7, <2>8, <2>9 DEF Working
  <1>4. CASE Late
    <2>1. /\ HasCommits /\ local' = local /\ left' = left
          /\ HasCommits' <=> HasCommits
      BY <1>4, LateMoves DEF CommitsKnown, HasCommits
    <2> QED
      BY <1>4, <2>1, LateMoves DEF NoRun, ReplacedKnown, CutKnown, VerdictKnown
  <1>5. CASE Apart
    <2>1. run' = run /\ local' = local /\ worktree' = worktree /\ (HasCommits' <=> HasCommits)
      BY <1>5 DEF Apart, FlushPush, FlushPr, FlushDies, PersonPushes, PersonOpensPr, PrCloses,
                  Again, work, HasCommits
    <2>2. left'.apply = left.apply
      BY <1>5, SpendFree
         DEF Apart, FlushPush, FlushPr, FlushDies, PersonPushes, PersonOpensPr, PrCloses, Again
    <2> QED
      BY <2>1, <2>2 DEF ReplacedKnown, CutKnown, VerdictKnown
  <1>6. CASE UNCHANGED vars
    BY <1>6 DEF vars, work, HasCommits, ReplacedKnown, CutKnown, VerdictKnown
  <1> QED
    BY <1>1, <1>2, <1>3, <1>4, <1>5, <1>6, StepKinds

----------------------------------------------------------------------------
(* done/ means delivered.                                                  *)

LEMMA DoneMeans ==
  DoneMeansDelivered <=>
    (ticket.where = "done" =>
        \/ ticket.outcome = "no changes"
        \/ ticket.outcome = "url" /\ pr # NoPr
        \/ ticket.outcome = "queued" /\ (ops # <<>> \/ dead)
        \/ ticket.outcome = "pushed" /\ remote # NoTip)
  BY DEF DoneMeansDelivered

\* Outside its run, a finished ticket meets the outbox, people and the operator.
LEMMA DoneRests ==
  ASSUME Typed, ticket.where = "done", Next
  PROVE  Apart
  <1>1. run.pc = "off"
    BY DEF Typed, TicketTyped
  <1>2. ~Claim /\ ~Killed
    BY <1>1 DEF Claim, Killed, At
  <1>3. ~Flow
    <2>1. ~(Validate \/ ListPrs \/ CheckFails \/ PrepareWorktree \/ ApplyPatch \/ ApplyLeavesDirt
            \/ ApplyFails \/ Session \/ HardError)
      BY <1>1 DEF Validate, ListPrs, CheckFails, PrepareWorktree, ApplyPatch, ApplyLeavesDirt,
                  ApplyFails, Session, HardError, At
    <2>2. ~(Count \/ Nothing \/ Review \/ Fallback \/ Critic \/ Corrective \/ Thrown \/ Gates)
      BY <1>1 DEF Count, Nothing, Review, Fallback, Critic, Corrective, Thrown, Contained, Gates,
                  At
    <2>3. ~(Push \/ PushRefused \/ PushOffline \/ Create \/ Recover \/ CreateOffline
            \/ CreateFails \/ Finish \/ FinishParked)
      BY <1>1 DEF Push, PushRefused, PushOffline, Create, Recover, CreateOffline, CreateFails,
                  Finish, FinishParked, At
    <2> QED
      BY <2>1, <2>2, <2>3 DEF Flow
  <1> QED
    BY <1>2, <1>3 DEF Next, Flush, Apart

\* The ways into done/.
LEMMA WaysToDone ==
  ASSUME FlowInv, Next, ticket.where # "done", ticket'.where = "done"
  PROVE  \/ ticket'.outcome = "no changes"
         \/ ticket'.outcome = "url" /\ run.pc = "finish" /\ pr' = pr
         \/ ticket'.outcome = "queued" /\ run.pc = "parked" /\ ops' = ops
         \/ ticket'.outcome = "pushed" /\ run.pc = "create" /\ remote' = remote
  <1> USE DEF FlowInv
  <1>0. ticket \in Tickets
    BY DEF Typed, TicketTyped
  <1>1. ASSUME NEW where, NEW outcome, Finalize(where, outcome)
        PROVE  ticket'.where = where /\ ticket'.outcome = outcome
    BY <1>0, <1>1 DEF Finalize, Tickets
  <1>2. ASSUME Fail PROVE FALSE
    BY <1>1, <1>2 DEF Fail
  <1>3. ASSUME RequeueOrFail PROVE FALSE
    BY <1>0, <1>2, <1>3 DEF RequeueOrFail, Requeue, Tickets
  <1>4. ~(CheckFails \/ PushRefused \/ ApplyFails \/ Gates \/ HardError \/ Thrown \/ Killed)
    <2>1. ~(CheckFails \/ PushRefused)
      BY <1>2 DEF CheckFails, PushRefused
    <2>2. ~(ApplyFails \/ Gates)
      BY <1>2 DEF ApplyFails, Gates
    <2>3. ~HardError
      BY <1>0, <1>2, <1>3 DEF HardError, RequeueFree, Tickets
    <2>4. ~Thrown
      BY <1>0 DEF Thrown, Tickets
    <2>5. ~Killed
      BY <1>0 DEF Killed, Tickets
    <2> QED
      BY <2>1, <2>2, <2>3, <2>4, <2>5
  <1>5. ~(Early \/ Working)
    <2>1. ~Claim
      BY <1>0 DEF Claim, Tickets
    <2>2. ~(Validate \/ ListPrs \/ PrepareWorktree)
      BY DEF Validate, ListPrs, PrepareWorktree
    <2> QED
      BY <2>1, <2>2, WorkingMoves DEF Moved, Early
  <1>6. ~(Push \/ PushOffline \/ Create \/ Recover \/ CreateOffline)
    BY DEF Push, PushOffline, Create, Recover, CreateOffline
  <1>7. ~Apart
    <2>1. ~(FlushPush \/ FlushDies \/ PersonPushes \/ PersonOpensPr \/ PrCloses)
      BY DEF FlushPush, FlushDies, PersonPushes, PersonOpensPr, PrCloses
    <2>2. ~(FlushPr \/ Again)
      BY DEF FlushPr, Again
    <2> QED
      BY <2>1, <2>2 DEF Apart
  <1>8. CASE Nothing
    <2>1. Finalize("done", "no changes") \/ Finalize("failed", "failed")
      BY <1>2, <1>3, <1>8 DEF Nothing
    <2>2. ~Finalize("failed", "failed")
      BY <1>1
    <2> QED
      BY <1>1, <2>1, <2>2
  <1>9. CASE CreateFails
    <2>1. Finalize(Status(TRUE), "pushed")
      BY <1>0, <1>9 DEF CreateFails, Tickets
    <2> QED
      BY <1>1, <1>9, <2>1 DEF CreateFails, At
  <1>10. CASE Finish
    BY <1>1, <1>10 DEF Finish, At, github
  <1>11. CASE FinishParked
    BY <1>1, <1>11 DEF FinishParked, At, outbox
  <1> QED
    BY <1>4, <1>5, <1>6, <1>7, <1>8, <1>9, <1>10, <1>11
       DEF Next, Flow, Flush, Early, Working, Apart

LEMMA DeliveredStep ==
  ASSUME FlowInv, DoneMeansDelivered, [Next]_vars
  PROVE  DoneMeansDelivered'
  <1> USE DEF FlowInv
  <1> SUFFICES ASSUME ticket'.where = "done"
               PROVE  \/ ticket'.outcome = "no changes"
                      \/ ticket'.outcome = "url" /\ pr' # NoPr
                      \/ ticket'.outcome = "queued" /\ (ops' # <<>> \/ dead')
                      \/ ticket'.outcome = "pushed" /\ remote' # NoTip
    BY DEF DoneMeansDelivered
  <1>1. CASE Next /\ ticket.where # "done"
    BY <1>1, WaysToDone DEF PushKnown
  <1>2. CASE Next /\ ticket.where = "done"
    <2>0. Apart
      BY <1>2, DoneRests
    <2>1. pr # NoPr => pr' # NoPr
      BY <2>0
         DEF Apart, FlushPush, FlushPr, FlushDies, PersonPushes, PersonOpensPr, PrCloses, Again,
             github, Opened, NoPr, Typed, GithubTyped, JuncoPrs, PersonPrs, PrStates
    <2>2. remote # NoTip => remote' # NoTip
      <3>1. CASE FlushPush
        BY <3>1 DEF FlushPush, Parked, PushKnown
      <3>2. CASE PersonPushes
        BY <3>2 DEF PersonPushes, NoTip
      <3> QED
        BY <2>0, <3>1, <3>2
           DEF Apart, FlushPr, FlushDies, PersonOpensPr, PrCloses, Again, github
    <2>3. CASE FlushPr
      <3>1. ticket'.outcome = "url"
        BY <1>2, <2>3 DEF FlushPr, Typed, TicketTyped, Tickets
      <3>2. pr' # NoPr
        BY <2>3 DEF FlushPr, Opened, NoPr
      <3> QED
        BY <3>1, <3>2
    <2>4. CASE FlushPush
      <3>1. ops' # <<>>
        <4>1. ops \in Seq(Ops) /\ ops # <<>>
          BY <2>4 DEF FlushPush, Parked, Typed, OpsTyped
        <4>2. Head(ops) \in Ops /\ Tail(ops) \in Seq(Ops)
          BY <4>1
        <4>3. [Head(ops) EXCEPT !.pushed = TRUE] \in Ops
          BY <4>2 DEF Ops
        <4> QED
          BY <2>4, <4>2, <4>3 DEF FlushPush
      <3> QED
        BY <2>1, <2>2, <2>4, <3>1, <1>2, DoneMeans DEF FlushPush
    <2>5. CASE FlushDies
      <3>1. dead'
        BY <2>5 DEF FlushDies
      <3>2. ticket' = ticket
        BY <2>5 DEF FlushDies
      <3> QED
        BY <2>1, <2>2, <3>1, <3>2, <1>2, DoneMeans
    <2>6. CASE PersonPushes \/ PersonOpensPr \/ PrCloses
      <3>1. (dead => dead') /\ ops' = ops /\ ticket' = ticket
        BY <2>6 DEF PersonPushes, PersonOpensPr, PrCloses, outbox
      <3> QED
        BY <2>1, <2>2, <3>1, <1>2, DoneMeans
    <2>7. ~Again
      BY DEF Again
    <2> QED
      BY <2>0, <2>3, <2>4, <2>5, <2>6, <2>7 DEF Apart
  <1>3. CASE UNCHANGED vars
    BY <1>3, DoneMeans DEF vars, github, outbox
  <1> QED
    BY <1>1, <1>2, <1>3

----------------------------------------------------------------------------
(* The text of the pull request fits its head, as long as no run starts    *)
(* while an op for the same branch is parked.                              *)

Told(tip, body) ==
    /\ left.apply /\ tip.author = "agent" => body.fallback
    /\ tip.partial => body.partial
    /\ tip.broken /\ tip.tidy => body.failed \/ body.partial

JuncoOpen == pr.state = "open" /\ pr.by = "junco"

HeadIsLocal == remote = local \/ remote.author = "person"

\* At most one op is parked, by a run that is over; its text fits the branch.
OpKnown ==
    ops # <<>> =>
        /\ run.pc \in {"off", "parked"} /\ Tail(ops) = <<>> /\ HasCommits
        /\ Told(local, Head(ops).body)
        /\ Head(ops).pushed => HeadIsLocal
        /\ ~Head(ops).pushed /\ Ours(remote) /\ remote.run = runs => remote = local

\* Every run has a number of its own, and pushes late.
Unpushed == Pcs \ {"validate", "list", "prepare", "create", "finish", "parked"}
HeadKnown ==
    /\ JuncoOpen => remote \notin {NoTip, Base}
    /\ Ours(remote) => remote.run <= runs
    /\ run.pc \in Unpushed /\ Ours(remote) => remote.run < runs

\* A run that resumes found no open pull request, and opens the next itself.
OpenKnown ==
    /\ run.pc \in Unpushed \cup {"prepare", "create"} /\ run.lease # NoTip => ~JuncoOpen
    /\ run.pc = "create" => ~JuncoOpen /\ HeadIsLocal

TextFits == JuncoOpen /\ Ours(remote) => Told(remote, pr.body)

TextInv == ~mixed => OpKnown /\ HeadKnown /\ OpenKnown /\ TextFits

LEMMA TextIsTruth == TextInv => PrTellsTheTruth
  BY DEF TextInv, TextFits, JuncoOpen, Told, PrTellsTheTruth

(* What is pushed while a pull request of junco's is open is what it shows. *)
LEMMA NoPushOverOpen ==
  ASSUME FlowInv, HeadKnown, OpenKnown, run.pc = "push", Accepted(remote, local, run.lease)
  PROVE  ~JuncoOpen
  <1> SUFFICES ASSUME JuncoOpen PROVE FALSE
    OBVIOUS
  <1>0. run.pc \in Unpushed
    BY DEF Unpushed, Pcs
  <1>1. FastForward(remote, local)
    BY <1>0 DEF OpenKnown, Accepted
  <1>2. Ours(remote) /\ remote.run = local.run
    BY <1>1 DEF HeadKnown, FastForward
  <1>3. local.run = runs
    BY DEF FlowInv, CommitsKnown, Committed
  <1>4. remote.run < runs
    BY <1>0, <1>2 DEF HeadKnown
  <1>5. runs \in Nat
    BY DEF FlowInv, Typed, TreeTyped
  <1> QED
    BY <1>2, <1>3, <1>4, <1>5

LEMMA BodyTells ==
  ASSUME CommitsKnown, LadderKnown, run.pc \in {"push", "create"}
  PROVE  Told(local, Body)
  BY DEF CommitsKnown, LadderKnown, ReplacedKnown, CutKnown, VerdictKnown, Committed, Judged,
         Told, Body

LEMMA OpenedOpens ==
  ASSUME NEW body
  PROVE  /\ Opened("junco", body).state = "open" /\ Opened("junco", body).by = "junco"
         /\ Opened("junco", body).body = body
  BY DEF Opened

LEMMA AppendToNone ==
  ASSUME NEW op
  PROVE  /\ Append(<<>>, op) # <<>> /\ Head(Append(<<>>, op)) = op
         /\ Tail(Append(<<>>, op)) = <<>>
  OBVIOUS

LEMMA MixedStays ==
  ASSUME Typed, [Next]_vars, ~mixed'
  PROVE  ~mixed /\ (Claim => ops = <<>>)
  <1>1. CASE Claim
    BY <1>1 DEF Claim
  <1>2. CASE Next /\ ~Claim
    <2>1. mixed' = mixed
      <3>1. CASE Stopped
        BY <3>1 DEF Stopped, Kept
      <3>2. CASE Early
        BY <1>2, <3>2 DEF Early, Validate, ListPrs, PrepareWorktree
      <3>3. CASE Working
        BY <3>3, WorkingMoves DEF Moved
      <3>4. CASE Late
        BY <3>4, LateMoves
      <3>5. CASE Apart
        BY <3>5 DEF Apart, FlushPush, FlushPr, FlushDies, PersonPushes, PersonOpensPr, PrCloses,
                    Again
      <3> QED
        BY <1>2, <3>1, <3>2, <3>3, <3>4, <3>5, StepKinds
    <2> QED
      BY <1>2, <2>1
  <1>3. CASE UNCHANGED vars /\ ~Claim
    BY <1>3 DEF vars
  <1> QED
    BY <1>1, <1>2, <1>3

(* The push, and what is parked or opened with it.                         *)
LEMMA LateText ==
  ASSUME FlowInv, FlowInv', LadderKnown, ~mixed, OpKnown, HeadKnown, OpenKnown, TextFits, Late
  PROVE  OpKnown' /\ HeadKnown' /\ OpenKnown' /\ TextFits'
  <1> USE DEF FlowInv
  <1>0. /\ run.pc \in {"push", "create"} /\ run \in Runs
        /\ runs' = runs /\ local' = local /\ left' = left /\ runs \in Nat
        /\ HasCommits /\ local.run = runs /\ (HasCommits' <=> HasCommits)
    BY LateMoves DEF CommitsKnown, Committed, HasCommits, Typed, TreeTyped
  <1>1. ops = <<>>
    BY <1>0 DEF OpKnown
  <1>2. /\ Told(local, Body) /\ Ours(local) /\ local \notin {NoTip, Base}
    BY <1>0, BodyTells, OursIsATip DEF HasCommits
  <1>3. CASE Push
    <2>1. ~JuncoOpen /\ pr' = pr /\ ops' = <<>> /\ remote' = local
      BY <1>1, <1>3, NoPushOverOpen DEF Push, At, outbox
    <2>2. run'.pc = "create" /\ run.pc = "push"
      BY <1>0, <1>3 DEF Push, At, Runs
    <2> QED
      BY <1>0, <1>2, <2>1, <2>2
         DEF OpKnown, HeadKnown, OpenKnown, TextFits, JuncoOpen, HeadIsLocal, Unpushed
  <1>4. CASE PushOffline
    <2>1. run'.pc = "parked" /\ run.pc = "push" /\ run.pc \in Unpushed
      BY <1>0, <1>4 DEF PushOffline, Goto, At, Runs, Unpushed
    <2>2. pr' = pr
      BY <1>4 DEF PushOffline
    <2>3. remote' = remote \/ (remote' = local /\ ~JuncoOpen)
      BY <1>4, <2>1, NoPushOverOpen DEF PushOffline
    <2>4. ops' = Append(<<>>, [pushed |-> FALSE, body |-> Body])
      BY <1>1, <1>4 DEF PushOffline, ParkedFor
    <2>5. /\ Head(ops') = [pushed |-> FALSE, body |-> Body] /\ Tail(ops') = <<>>
          /\ ~Head(ops').pushed /\ Head(ops').body = Body
      BY <2>4, AppendToNone
    <2>6. Ours(remote) => remote.run < runs
      BY <2>1 DEF HeadKnown
    <2>7. Ours(remote') /\ remote'.run = runs' => remote' = local'
      BY <1>0, <2>3, <2>6
    <2>8. OpKnown'
      BY <1>0, <1>2, <2>1, <2>5, <2>7 DEF OpKnown, Told
    <2>9. HeadKnown'
      BY <1>0, <1>2, <2>1, <2>2, <2>3, <2>6 DEF HeadKnown, JuncoOpen, Unpushed
    <2> QED
      BY <1>0, <2>1, <2>2, <2>3, <2>8, <2>9 DEF OpenKnown, TextFits, JuncoOpen, Told, Unpushed
  <1>5. CASE Create \/ CreateOffline \/ CreateFails
    <2>1. run.pc = "create" /\ HeadIsLocal /\ remote' = remote
      BY <1>5 DEF Create, CreateOffline, CreateFails, At, OpenKnown
    <2>2. remote \notin {NoTip, Base}
      BY <1>2, <2>1 DEF HeadIsLocal, NoTip, Base
    <2>3. Ours(remote) => Told(remote, Body) /\ remote.run = runs
      BY <1>0, <1>2, <2>1 DEF HeadIsLocal, Ours
    <2>4. pr' = pr \/ pr' = Opened("junco", Body)
      BY <1>5 DEF Create, CreateOffline, CreateFails, MaybeCreated
    <2>5. TextFits'
      <3>1. CASE pr' = pr
        BY <1>0, <2>1, <3>1 DEF TextFits, JuncoOpen, Told
      <3>2. CASE pr' = Opened("junco", Body)
        BY <1>0, <2>1, <2>3, <3>2, OpenedOpens DEF TextFits, Told
      <3> QED
        BY <2>4, <3>1, <3>2
    <2>6. run'.pc \in {"finish", "parked", "off"}
      BY <1>5, <2>1, LateMoves DEF NoRun
    <2>7. HeadKnown' /\ OpenKnown'
      <3>1. run'.pc \notin Unpushed \cup {"prepare", "create"}
        BY <2>6 DEF Unpushed, Pcs
      <3>2. HeadKnown'
        BY <1>0, <2>1, <2>2, <3>1 DEF HeadKnown
      <3> QED
        BY <3>1, <3>2 DEF OpenKnown
    <2>8. OpKnown'
      <3>1. CASE Create \/ CreateFails
        BY <1>1, <3>1 DEF Create, CreateFails, outbox, OpKnown
      <3>2. CASE CreateOffline
        <4>1. run'.pc = "parked"
          BY <1>0, <3>2 DEF CreateOffline, Goto, Runs
        <4>2. ops' = Append(<<>>, [pushed |-> TRUE, body |-> Body])
          BY <1>1, <3>2 DEF CreateOffline, ParkedFor
        <4>3. /\ Tail(ops') = <<>> /\ Head(ops').pushed /\ Head(ops').body = Body
          BY <4>2, AppendToNone
        <4>4. HeadIsLocal'
          BY <1>0, <2>1 DEF HeadIsLocal
        <4> QED
          BY <1>0, <1>2, <4>1, <4>3, <4>4 DEF OpKnown, Told
      <3> QED
        BY <1>5, <3>1, <3>2
    <2> QED
      BY <2>5, <2>7, <2>8
  <1>6. CASE Recover
    <2>1. run'.pc = "finish" /\ UNCHANGED <<remote, pr, ops>>
      BY <1>0, <1>6 DEF Recover, Goto, Runs, github, outbox
    <2> QED
      BY <1>0, <1>1, <2>1
         DEF OpKnown, HeadKnown, OpenKnown, TextFits, JuncoOpen, Told, Unpushed
  <1> QED
    BY <1>3, <1>4, <1>5, <1>6 DEF Late

(* What the outbox, other people and the operator do to it.                *)
LEMMA ApartText ==
  ASSUME FlowInv, FlowInv', OpKnown, HeadKnown, OpenKnown, TextFits, Apart
  PROVE  OpKnown' /\ HeadKnown' /\ OpenKnown' /\ TextFits'
  <1> USE DEF FlowInv
  <1>0. /\ run' = run /\ local' = local /\ runs' = runs /\ (HasCommits' <=> HasCommits)
        /\ runs \in Nat
    BY DEF Apart, FlushPush, FlushPr, FlushDies, PersonPushes, PersonOpensPr, PrCloses, Again,
           work, HasCommits, Typed, TreeTyped
  <1>1. left'.apply = left.apply
    BY SpendFree
       DEF Apart, FlushPush, FlushPr, FlushDies, PersonPushes, PersonOpensPr, PrCloses, Again
  <1>2. CASE FlushPush
    <2>1. /\ ops # <<>> /\ ops \in Seq(Ops) /\ Tail(ops) = <<>> /\ ~Head(ops).pushed
          /\ HasCommits /\ Told(local, Head(ops).body) /\ run.pc = "off"
      BY <1>2 DEF FlushPush, Parked, At, OpKnown, Typed, OpsTyped
    <2>2. /\ remote' = local /\ pr' = pr /\ Ours(local) /\ local.run = runs
      BY <1>2, <2>1 DEF FlushPush, HasCommits, CommitsKnown
    <2>3. JuncoOpen => remote = local
      <3>1. FastForward(remote, local)
        BY <1>2 DEF FlushPush, Accepted
      <3> QED
        BY <2>1, <2>2, <3>1 DEF HeadKnown, FastForward, OpKnown
    <2>4. /\ Tail(ops') = <<>> /\ Head(ops').pushed /\ Head(ops').body = Head(ops).body
      <3>1. Head(ops) \in Ops
        BY <2>1
      <3>2. DEFINE op == [Head(ops) EXCEPT !.pushed = TRUE]
      <3>3. op.pushed /\ op.body = Head(ops).body
        BY <3>1 DEF Ops
      <3>4. ops' = <<op>> \o <<>>
        BY <1>2, <2>1 DEF FlushPush
      <3> HIDE DEF op
      <3>5. ops' = <<op>>
        BY <3>4
      <3>6. Head(ops') = op /\ Tail(ops') = <<>>
        BY <3>5
      <3> QED
        BY <3>3, <3>6
    <2>5. OpKnown'
      BY <1>0, <1>1, <2>1, <2>2, <2>4 DEF OpKnown, HeadIsLocal, Told
    <2>6. HeadKnown' /\ OpenKnown'
      <3>1. run'.pc \notin Unpushed \cup {"prepare", "create"}
        BY <1>0, <2>1 DEF Unpushed, Pcs
      <3>2. remote' \notin {NoTip, Base} /\ remote'.run <= runs'
        BY <1>0, <2>1, <2>2, OursIsATip
      <3>3. HeadKnown'
        BY <3>1, <3>2 DEF HeadKnown
      <3> QED
        BY <3>1, <3>3 DEF OpenKnown
    <2>7. TextFits'
      BY <1>1, <2>2, <2>3 DEF TextFits, JuncoOpen, Told
    <2> QED
      BY <2>5, <2>6, <2>7
  <1>3. CASE FlushPr
    <2>1. /\ ops # <<>> /\ Tail(ops) = <<>> /\ Head(ops).pushed /\ HeadIsLocal
          /\ HasCommits /\ Told(local, Head(ops).body) /\ run.pc = "off"
      BY <1>3 DEF FlushPr, Parked, At, OpKnown
    <2>2. ops' = <<>> /\ remote' = remote
      BY <1>3, <2>1 DEF FlushPr
    <2>3. remote \notin {NoTip, Base} /\ (Ours(remote) => remote = local)
      BY <2>1, OursIsATip DEF HeadIsLocal, Ours, NoTip, Base
    <2>4. TextFits'
      <3>1. CASE pr' = pr
        BY <1>1, <2>2, <3>1 DEF TextFits, JuncoOpen, Told
      <3>2. CASE pr' = Opened("junco", Head(ops).body)
        BY <1>1, <2>1, <2>2, <2>3, <3>2, OpenedOpens DEF TextFits, Told
      <3> QED
        BY <1>3, <3>1, <3>2 DEF FlushPr
    <2>5. run'.pc \notin Unpushed \cup {"prepare", "create"}
      BY <1>0, <2>1 DEF Unpushed, Pcs
    <2>6. HeadKnown'
      BY <1>0, <2>2, <2>3, <2>5 DEF HeadKnown
    <2> QED
      BY <2>2, <2>4, <2>5, <2>6 DEF OpKnown, OpenKnown
  <1>4. CASE FlushDies
    <2>1. ops' = <<>> /\ UNCHANGED <<remote, pr>>
      BY <1>4 DEF FlushDies, Parked, OpKnown, github
    <2> QED
      BY <1>0, <1>1, <2>1 DEF OpKnown, HeadKnown, OpenKnown, TextFits, JuncoOpen, HeadIsLocal, Told
  <1>5. CASE PersonPushes
    <2>1. remote'.author = "person" /\ pr' = pr /\ ops' = ops
      BY <1>5 DEF PersonPushes, outbox
    <2>2. remote' \notin {NoTip, Base} /\ ~Ours(remote')
      BY <2>1 DEF Ours, NoTip, Base
    <2> QED
      BY <1>0, <1>1, <2>1, <2>2
         DEF OpKnown, HeadKnown, OpenKnown, TextFits, JuncoOpen, HeadIsLocal, Told
  <1>6. CASE PersonOpensPr \/ PrCloses
    <2>1. ~JuncoOpen'
      <3>1. CASE PersonOpensPr
        BY <3>1 DEF PersonOpensPr, JuncoOpen
      <3>2. CASE PrCloses
        <4>1. PICK state \in {"merged", "closed"} : pr' = [pr EXCEPT !.state = state]
          BY <3>2 DEF PrCloses
        <4>2. pr \in JuncoPrs \cup PersonPrs
          BY <3>2 DEF PrCloses, Typed, GithubTyped, NoPr
        <4>3. pr'.state = state
          BY <4>1, <4>2 DEF JuncoPrs, PersonPrs
        <4> QED
          BY <4>3 DEF JuncoOpen
      <3> QED
        BY <1>6, <3>1, <3>2
    <2>2. remote' = remote /\ ops' = ops
      BY <1>6 DEF PersonOpensPr, PrCloses, outbox
    <2> QED
      BY <1>0, <1>1, <2>1, <2>2 DEF OpKnown, HeadKnown, OpenKnown, TextFits, HeadIsLocal, Told
  <1>7. CASE Again
    <2>1. UNCHANGED <<remote, pr, ops>>
      BY <1>7 DEF Again, github
    <2> QED
      BY <1>0, <1>1, <2>1
         DEF OpKnown, HeadKnown, OpenKnown, TextFits, JuncoOpen, HeadIsLocal, Told
  <1> QED
    BY <1>2, <1>3, <1>4, <1>5, <1>6, <1>7 DEF Apart

LEMMA TextStep ==
  ASSUME FlowInv, FlowInv', LadderKnown, TextInv, [Next]_vars
  PROVE  TextInv'
  <1> USE DEF FlowInv
  <1> SUFFICES ASSUME ~mixed' PROVE OpKnown' /\ HeadKnown' /\ OpenKnown' /\ TextFits'
    BY DEF TextInv
  <1>0. ~mixed /\ (Claim => ops = <<>>)
    BY MixedStays
  <1>1. OpKnown /\ HeadKnown /\ OpenKnown /\ TextFits
    BY <1>0 DEF TextInv
  <1>2. CASE Stopped
    <2>1. run'.pc = "off"
      BY <1>2 DEF Stopped, NoRun
    <2>2. UNCHANGED <<local, runs, remote, pr, ops>> /\ left'.apply = left.apply
      BY <1>2 DEF Stopped, Kept
    <2>3. run'.pc \notin Unpushed \cup {"prepare", "create"}
      BY <2>1 DEF Unpushed, Pcs
    <2>4. OpKnown'
      BY <1>1, <2>1, <2>2 DEF OpKnown, HeadIsLocal, Told, HasCommits
    <2>5. HeadKnown' /\ OpenKnown'
      BY <1>1, <2>2, <2>3 DEF HeadKnown, OpenKnown, JuncoOpen
    <2>6. TextFits'
      BY <1>1, <2>2 DEF TextFits, JuncoOpen, Told
    <2> QED
      BY <2>4, <2>5, <2>6
  <1>3. CASE Early
    <2>1. /\ UNCHANGED <<remote, pr>> /\ ops' = <<>> /\ left' = left
      <3>1. ops = <<>>
        BY <1>0, <1>1, <1>3, EarlyMoves DEF Early, Validate, ListPrs, PrepareWorktree, At, OpKnown
      <3> QED
        BY <1>3, <3>1 DEF Early, Claim, Validate, ListPrs, PrepareWorktree, github, outbox
    <2>2. TextFits' /\ OpKnown'
      BY <1>1, <2>1 DEF TextFits, JuncoOpen, Told, OpKnown
    <2>3. CASE PrepareWorktree
      <3>1. run'.pc \in {"apply", "session"} /\ run'.lease = run.lease /\ run.pc = "prepare"
        BY <1>3, <2>3, EarlyMoves DEF PrepareWorktree, At
      <3>2. runs' = runs + 1 /\ runs \in Nat
        BY <2>3 DEF PrepareWorktree, Typed, TreeTyped
      <3>3. Ours(remote) => remote \in Commits
        BY DEF Typed, GithubTyped, Tips, Ours, Persons, NoTip, Base
      <3>4. Ours(remote) => remote.run \in Nat /\ remote.run <= runs
        BY <1>1, <3>3 DEF HeadKnown, Commits
      <3>5. Ours(remote) => remote.run < runs' /\ remote.run <= runs'
        BY <3>2, <3>4
      <3>6. HeadKnown'
        BY <1>1, <2>1, <3>5 DEF HeadKnown, JuncoOpen
      <3>7. OpenKnown'
        BY <1>1, <2>1, <3>1 DEF OpenKnown, JuncoOpen, Unpushed
      <3> QED
        BY <2>2, <3>6, <3>7
    <2>4. CASE Claim \/ Validate \/ ListPrs
      <3>1. runs' = runs
        BY <2>4 DEF Claim, Validate, ListPrs, work
      <3>2. run'.pc \in {"validate", "list", "prepare"}
        BY <1>3, <2>4, EarlyMoves DEF At, Claim, Validate, ListPrs
      <3>3. HeadKnown'
        BY <1>1, <2>1, <3>1, <3>2 DEF HeadKnown, JuncoOpen, Unpushed
      <3>4. run'.pc = "prepare" /\ run'.lease # NoTip => pr.state # "open"
        BY <1>3, <2>4, EarlyMoves DEF LeaseWasSeen, At, Claim, Validate, ListPrs
      <3>5. OpenKnown'
        BY <2>1, <3>2, <3>4 DEF OpenKnown, JuncoOpen, Unpushed
      <3> QED
        BY <2>2, <3>3, <3>5
    <2> QED
      BY <1>3, <2>3, <2>4 DEF Early
  <1>4. CASE Working
    <2>1. Moved
      BY <1>4, WorkingMoves
    <2>2. run.pc \in Unpushed /\ run'.pc \in Unpushed
      <3>1. run'.pc \in Pcs
        BY <2>1, RunHasRecord DEF Moved, Typed, RunTyped, Runs, NoRun
      <3> QED
        BY <2>1, <3>1 DEF Moved, Unpushed
    <2>3. ops = <<>>
      BY <1>1, <2>1 DEF OpKnown, Moved
    <2> QED
      BY <1>1, <2>1, <2>2, <2>3
         DEF Moved, OpKnown, HeadKnown, OpenKnown, TextFits, JuncoOpen, Told, Unpushed
  <1>5. CASE Late
    BY <1>0, <1>1, <1>5, LateText
  <1>6. CASE Apart
    BY <1>1, <1>6, ApartText
  <1>7. CASE UNCHANGED vars
    BY <1>1, <1>7
       DEF vars, work, github, outbox, OpKnown, HeadKnown, OpenKnown, TextFits, JuncoOpen,
           HeadIsLocal, Told, HasCommits
  <1> QED
    BY <1>2, <1>3, <1>4, <1>5, <1>6, <1>7, StepKinds

----------------------------------------------------------------------------
(* The outcome tells the truth.                                            *)

OutcomeInv == FlowInv /\ LadderKnown /\ TextInv /\ DoneMeansDelivered

LEMMA OutcomeInit == Init => OutcomeInv
  <1> SUFFICES ASSUME Init PROVE OutcomeInv
    OBVIOUS
  <1>1. LadderKnown
    BY DEF Init, NoRun, LadderKnown, ReplacedKnown, CutKnown, VerdictKnown, Committed, Judged
  <1>2. TextInv
    BY DEF Init, NoRun, NoTip, NoPr, TextInv, OpKnown, HeadKnown, OpenKnown, TextFits, JuncoOpen,
           Ours, Unpushed
  <1>3. DoneMeansDelivered
    BY DEF Init, DoneMeansDelivered
  <1> QED
    BY <1>1, <1>2, <1>3, FlowInvInit DEF OutcomeInv

LEMMA OutcomeStep == OutcomeInv /\ [Next]_vars => OutcomeInv'
  <1> SUFFICES ASSUME OutcomeInv, [Next]_vars PROVE OutcomeInv'
    OBVIOUS
  <1>1. FlowInv'
    BY FlowInvStep DEF OutcomeInv
  <1>2. LadderKnown'
    BY <1>1, LadderStep DEF OutcomeInv, FlowInv
  <1>3. TextInv'
    BY <1>1, TextStep DEF OutcomeInv
  <1>4. DoneMeansDelivered'
    BY DeliveredStep DEF OutcomeInv
  <1> QED
    BY <1>1, <1>2, <1>3, <1>4 DEF OutcomeInv

(* What a finished ticket and its pull request say is so (finalizePr,      *)
(* buildPrBody, computePrStatus and the outbox): for every configuration,  *)
(* and any number of sessions, pushes of others, kills and resubmissions.  *)
THEOREM OutcomesAreTrue == Spec => []OutcomeTellsTheTruth
  <1>1. Spec => []OutcomeInv
    BY OutcomeInit, OutcomeStep, PTL DEF Spec
  <1>2. OutcomeInv => OutcomeTellsTheTruth
    BY TypedIsTypeOK, TextIsTruth DEF OutcomeInv, FlowInv, OutcomeTellsTheTruth
  <1> QED
    BY <1>1, <1>2, PTL
=============================================================================
