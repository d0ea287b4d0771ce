----------------------------- MODULE TicketDoor -----------------------------
(***************************************************************************)
(* How one ticket enters the queue: `junco submit` writes it beside the    *)
(* inbox and places it under its id (dispatch.ts), by a hard link or, on a *)
(* file system that has none, by a rename under a sentinel; --patch first  *)
(* composes it (patchTicket.ts), --as-issue parks it on GitHub instead     *)
(* (submitAsIssue.ts). A dry run (submitPreflight.ts) foretells where the  *)
(* ticket will go and what the worker will make of it: later, and with its *)
(* own look at GitHub, the worker checks the repository (repo.ts) and      *)
(* lints the text again (planLint.ts).                                     *)
(*                                                                         *)
(* Several authors may submit tickets of the one id. Of a text only what   *)
(* the checks tell apart is kept; authors are numbers, and 0 is nobody.    *)
(* Warnings block nothing and are left out.                                *)
(***************************************************************************)
EXTENDS Naturals, FiniteSets

CONSTANTS
    Papers,      \* the tickets considered, see PaperOf
    Authors,     \* who submits; 1 .. n
    MaxTurns     \* bound: changes and failures on GitHub, kills and requeues

VARIABLES
    paper,      \* the ticket
    hard,       \* the file system of the inbox has hard links
    hand,       \* author |-> where its submit stands, and whether it placed its text
    inboxed,    \* whose text is inbox/<id>.md, 0 for no such file
    sentinel,   \* whose .<id>.md.claim there is, 0 for no such file
    beside,     \* the texts requeued under another name
    job,        \* what the worker does with the text it claimed last
    judged,     \* author |-> what became of its text
    overlaid,   \* the texts a rename replaced
    dry,        \* the dry run
    github,     \* the repository there
    labelCache, \* the worker's list of its labels
    doorTurns

placeVars == <<hand, inboxed, sentinel, beside, overlaid>>
jobVars == <<job, judged, labelCache>>
doorVars == <<paper, hard, placeVars, jobVars, dry, github, doorTurns>>

\* What the ticket's `repo:` is and whether it pushes to a fork, and what is
\* wrong with its text; `plain` if the issue route loses nothing of it, `beyond`
\* if what the worker alone looks at is wrong (the base branch, the allowed
\* roots, the pull request it amends); the levers: a blocking lint, and GitHub
\* with the bot account. And who submits it, after a dry run or not.
Repos == {"none", "missing", "notGit", "noOrigin", "elsewhere", "github"}
Flaws == {"cdVerify", "noCommit", "phrase", "tornPatch", "unsafePatch"}
PaperOf == [repo : Repos, fork : BOOLEAN, flaws : SUBSET Flaws, patch : BOOLEAN,
            composed : BOOLEAN, amends : BOOLEAN, labels : BOOLEAN, plain : BOOLEAN,
            beyond : BOOLEAN, lint : BOOLEAN, bot : BOOLEAN,
            by : SUBSET Authors, asks : BOOLEAN]

ASSUME TicketDoorAssumption ==
    0 \notin Authors /\ Papers \subseteq PaperOf /\ MaxTurns \in Nat

HandSteps == {"start", "written", "slot", "clear", "leave",
              "placed", "taken", "refused", "dead", "issue", "unsure", "notWatched"}
Branches == {"free", "exact", "sibling"}
LabelLists == {"with", "without"}
Unread == "unread"
NoHand == [at |-> "start", won |-> FALSE]
NoJob == [of |-> 0, at |-> "none", again |-> FALSE, branch |-> Unread, labels |-> Unread]
NoDry == [at |-> "idle", route |-> "inbox", branch |-> Unread, labels |-> Unread]
Judged == {"refused", "runs"}

TicketDoorTypeOK ==
    /\ paper \in Papers /\ hard \in BOOLEAN
    /\ hand \in [Authors -> [at : HandSteps, won : BOOLEAN]]
    /\ inboxed \in Authors \cup {0} /\ sentinel \in Authors \cup {0}
    /\ beside \subseteq Authors /\ overlaid \subseteq Authors
    /\ job \in [of : Authors \cup {0}, at : Judged \cup {"none", "check", "lint"}, again : BOOLEAN,
                branch : Branches \cup {Unread}, labels : LabelLists \cup {Unread}]
    /\ judged \in [Authors -> Judged \cup {"none", "again"}]
    /\ dry \in [at : {"idle", "branch", "labels", "ended"}, route : {"inbox", "issue"},
                branch : Branches \cup {Unread}, labels : LabelLists \cup {Unread}]
    /\ github \in [branch : Branches, label : BOOLEAN, watched : BOOLEAN, rewatched : BOOLEAN]
    /\ labelCache \in LabelLists \cup {Unread} /\ doorTurns \in 0 .. MaxTurns

NothingPlaced ==
    /\ hand = [a \in Authors |-> NoHand] /\ inboxed = 0 /\ sentinel = 0
    /\ beside = {} /\ overlaid = {} /\ job = NoJob /\ judged = [a \in Authors |-> "none"]
    /\ dry = NoDry /\ doorTurns = 0
TicketDoorIdle ==
    /\ NothingPlaced /\ labelCache = Unread /\ hard = TRUE
    /\ paper = CHOOSE p \in Papers : TRUE
    /\ github = [branch |-> "free", label |-> TRUE, watched |-> TRUE, rewatched |-> FALSE]
TicketDoorInit ==
    /\ NothingPlaced /\ paper \in Papers /\ hard \in BOOLEAN
    /\ github \in [branch : Branches, label : BOOLEAN, watched : BOOLEAN, rewatched : {FALSE}]
    /\ labelCache \in LabelLists \cup {Unread}
    /\ paper.labels \/ (github.label /\ labelCache = Unread)
    /\ paper.bot \/ github.watched
    /\ paper.asks \/ github.branch = "free"

Turn == doorTurns < MaxTurns /\ doorTurns' = doorTurns + 1
HandAt(a, l) == hand[a].at = l
HandTo(a, l) == hand' = [hand EXCEPT ![a].at = l]
Placed(a) == hand[a].won
LabelsNow == IF github.label THEN "with" ELSE "without"
----------------------------------------------------------------------------
(* What the checks say of the ticket.                                      *)

HasPath == paper.repo # "none"
TornPatch == paper.patch /\ "tornPatch" \in paper.flaws
\* --patch reads its own ticket back before it does anything else with it.
Unreadable == paper.composed /\ TornPatch

VerificationMoves == {r \in {"no_cd_in_verification"} : "cdVerify" \in paper.flaws}
\* Of the rules for prose only this one is an error.
StepsWithoutCommit == {r \in {"steps_have_commits"} : ~paper.patch /\ "noCommit" \in paper.flaws}
ForbiddenPhrases == {r \in {"no_forbidden_phrases"} : "phrase" \in paper.flaws}
PatchFlaws ==
    IF TornPatch THEN {"patch_parses"}
    ELSE {r \in {"patch_paths_sane"} : paper.patch /\ "unsafePatch" \in paper.flaws}
PatchAmends == {r \in {"patch_no_amend"} : paper.patch /\ paper.amends}
\* A list that could not be read, or is empty, says nothing.
LabelsMissing(labels) == {r \in {"labels_exist"} : paper.labels /\ labels = "without"}

LintErrors(labels) ==
    VerificationMoves \cup StepsWithoutCommit \cup ForbiddenPhrases
      \cup PatchFlaws \cup PatchAmends \cup LabelsMissing(labels)

RepoErrors ==
    CASE paper.repo = "none" -> {"repo_missing"}
      [] paper.repo = "missing" -> {"repo_path_missing"}
      [] paper.repo = "notGit" -> {"repo_not_git"}
      [] paper.repo = "noOrigin" -> {"repo_no_origin"}
      [] paper.repo = "elsewhere" -> {"repo_origin_not_github"}
      [] OTHER -> {}

\* ls-remote matches the tail of a name, and the check takes any line of it.
BranchTaken(branch) == {r \in {"branch_exists"} : branch \in {"exact", "sibling"}}

\* On the issue route the bridge gives the ticket another id, and so another
\* branch.
DryErrors ==
    RepoErrors \cup LintErrors(dry.labels)
      \cup {r \in BranchTaken(dry.branch) : dry.route = "inbox"}
----------------------------------------------------------------------------
(* The submit.                                                             *)

MayBegin(a) ==
    /\ a \in paper.by /\ HandAt(a, "start")
    /\ paper.asks => dry.at = "ended"
LeavesPlace == UNCHANGED <<inboxed, sentinel, beside, overlaid>>

WriteText(a) ==
    /\ MayBegin(a)
    /\ HandTo(a, IF Unreadable THEN "refused" ELSE "written")
    /\ LeavesPlace /\ UNCHANGED doorTurns

Place(a, at) ==
    /\ inboxed' = a
    /\ hand' = [hand EXCEPT ![a] = [at |-> at, won |-> TRUE]]

\* Mutant: the text is renamed into place where it should be linked.
LinkOver(a) ==
    /\ HandAt(a, "written") /\ hard
    /\ Place(a, "placed")
    /\ UNCHANGED <<sentinel, beside, overlaid, doorTurns>>
LinkText(a) ==
    /\ HandAt(a, "written") /\ hard
    /\ \/ inboxed = 0 /\ Place(a, "placed")
       \/ inboxed # 0 /\ HandTo(a, "taken") /\ UNCHANGED inboxed
    /\ UNCHANGED <<sentinel, beside, overlaid, doorTurns>>

TakeSlot(a) ==
    /\ HandAt(a, "written") /\ ~hard
    /\ \/ sentinel = 0 /\ sentinel' = a /\ HandTo(a, "slot")
       \/ sentinel # 0 /\ HandTo(a, "taken") /\ UNCHANGED sentinel
    /\ UNCHANGED <<inboxed, beside, overlaid, doorTurns>>

CheckSlot(a) ==
    /\ HandAt(a, "slot")
    /\ HandTo(a, IF inboxed = 0 THEN "clear" ELSE "leave")
    /\ LeavesPlace /\ UNCHANGED doorTurns

\* No other submit can come between, but a requeue can.
RenameText(a) ==
    /\ HandAt(a, "clear")
    /\ overlaid' = overlaid \cup ({inboxed} \ {0})
    /\ Place(a, "leave")
    /\ UNCHANGED <<sentinel, beside, doorTurns>>

LeaveSlot(a) ==
    /\ HandAt(a, "leave")
    /\ sentinel' = 0
    /\ HandTo(a, IF Placed(a) THEN "placed" ELSE "taken")
    /\ UNCHANGED <<inboxed, beside, overlaid, doorTurns>>

\* A link or an open that fails for another reason ends the command.
PlacementFails(a) ==
    /\ HandAt(a, "written") /\ Turn
    /\ HandTo(a, "refused")
    /\ LeavesPlace

HandDies(a) ==
    /\ hand[a].at \in {"written", "slot", "clear", "leave"} /\ Turn
    /\ HandTo(a, "dead")
    /\ LeavesPlace

\* The path or the origin of the ticket's repository must be watched. A call
\* whose answer is lost may have filed the issue.
Watched == HasPath /\ github.watched
ParkAsIssue(a) ==
    /\ MayBegin(a) /\ ~Unreadable
    /\ \/ ~(paper.bot /\ Watched) /\ HandTo(a, "notWatched") /\ UNCHANGED doorTurns
       \/ paper.bot /\ Watched /\ HandTo(a, "issue") /\ UNCHANGED doorTurns
       \/ paper.bot /\ Watched /\ Turn /\ HandTo(a, "unsure")
    /\ LeavesPlace

SubmitStep(a) ==
    /\ \/ WriteText(a) \/ LinkText(a) \/ TakeSlot(a) \/ CheckSlot(a) \/ RenameText(a)
       \/ LeaveSlot(a) \/ PlacementFails(a) \/ HandDies(a) \/ ParkAsIssue(a)
    /\ UNCHANGED <<paper, hard, jobVars, dry, github>>
----------------------------------------------------------------------------
(* The dry run.                                                            *)

DryRoute ==
    /\ paper.asks /\ dry.at = "idle" /\ ~Unreadable
    /\ dry' = [dry EXCEPT
         !.at = IF paper.repo \in {"noOrigin", "elsewhere", "github"} THEN "branch" ELSE "labels",
         !.route = IF paper.plain /\ ~paper.amends /\ paper.bot /\ Watched THEN "issue" ELSE "inbox"]
    /\ UNCHANGED doorTurns

DryBranch ==
    /\ dry.at = "branch"
    /\ \/ paper.repo # "noOrigin" /\ UNCHANGED doorTurns
          /\ dry' = [dry EXCEPT !.at = "labels", !.branch = github.branch]
       \/ (IF paper.repo = "noOrigin" THEN UNCHANGED doorTurns ELSE Turn)
          /\ dry' = [dry EXCEPT !.at = "labels"]

DryLabels ==
    /\ dry.at = "labels"
    /\ LET asked == paper.labels /\ paper.repo = "github"
       IN \/ asked /\ UNCHANGED doorTurns
             /\ dry' = [dry EXCEPT !.at = "ended", !.labels = LabelsNow]
          \/ (IF asked THEN Turn ELSE UNCHANGED doorTurns)
             /\ dry' = [dry EXCEPT !.at = "ended"]

DryStep ==
    /\ DryRoute \/ DryBranch \/ DryLabels
    /\ UNCHANGED <<paper, hard, placeVars, jobVars, github>>
----------------------------------------------------------------------------
(* The worker.                                                             *)

\* A ticket without a repository is a question, and is not checked at all.
ClaimText(a) ==
    /\ job.at \in Judged \cup {"none"}
    /\ \/ inboxed = a /\ inboxed' = 0 /\ UNCHANGED beside
       \/ a \in beside /\ beside' = beside \ {a} /\ UNCHANGED inboxed
    /\ job' = [NoJob EXCEPT !.of = a, !.again = judged[a] = "again",
                          !.at = IF HasPath THEN "check" ELSE "runs"]
    /\ judged' = IF HasPath THEN judged ELSE [judged EXCEPT ![a] = "runs"]
    /\ UNCHANGED <<hand, sentinel, overlaid, labelCache, doorTurns>>

JudgeText(a, as, read) ==
    /\ job' = [read EXCEPT !.at = as]
    /\ judged' = [judged EXCEPT ![a] = as]

\* The branch must be free on the remote it is pushed to, by its exact name; a
\* ticket that was requeued may go on with the one it left there, and one that
\* amends a pull request needs that one's.
CheckRepo(a) ==
    /\ job.of = a /\ job.at = "check"
    /\ \E branch \in (IF paper.fork THEN Branches ELSE {github.branch}) \cup {Unread} :
         LET read == [job EXCEPT !.branch = branch]
             collides == branch = "exact" /\ ~paper.amends
             headless == branch = Unread /\ paper.amends
         IN /\ IF branch = Unread /\ RepoErrors = {} THEN Turn ELSE UNCHANGED doorTurns
            /\ \/ (RepoErrors # {} \/ paper.beyond \/ collides \/ headless) /\ JudgeText(a, "refused", read)
               \/ RepoErrors = {} /\ ~paper.beyond /\ ~headless /\ (collides => job.again)
                  /\ job' = [read EXCEPT !.at = "lint"] /\ UNCHANGED judged
    /\ UNCHANGED <<labelCache, placeVars>>

\* The cached list is taken for the repository's. With the lint off an apply
\* ticket still cannot amend.
LintText(a) ==
    /\ job.of = a /\ job.at = "lint"
    /\ LET asked == paper.lint /\ paper.labels
       IN \E labels \in (IF ~asked THEN {Unread}
                         ELSE IF labelCache # Unread THEN {labelCache} ELSE {LabelsNow, Unread}) :
            LET errors == IF paper.lint THEN LintErrors(labels)
                          ELSE IF TornPatch THEN {} ELSE PatchAmends
            IN /\ labelCache' = IF asked THEN labels ELSE labelCache
               /\ IF asked /\ labels = Unread THEN Turn ELSE UNCHANGED doorTurns
               /\ JudgeText(a, IF errors = {} THEN "runs" ELSE "refused", [job EXCEPT !.labels = labels])
    /\ UNCHANGED placeVars

\* A crash, or GitHub out of reach: back under its name, or beside it.
JobBack(a) ==
    /\ job.of = a /\ job.at \in {"check", "lint"} /\ Turn
    /\ job' = NoJob /\ judged' = [judged EXCEPT ![a] = "again"]
    /\ IF inboxed = 0 THEN inboxed' = a /\ UNCHANGED beside
       ELSE beside' = beside \cup {a} /\ UNCHANGED inboxed
    /\ UNCHANGED <<hand, sentinel, overlaid, labelCache>>

WorkerStep(a) ==
    /\ ClaimText(a) \/ CheckRepo(a) \/ LintText(a) \/ JobBack(a)
    /\ UNCHANGED <<paper, hard, dry, github>>

CacheExpires ==
    /\ labelCache # Unread /\ labelCache' = Unread
    /\ UNCHANGED <<paper, hard, placeVars, job, judged, dry, github, doorTurns>>

GithubTurns ==
    /\ Turn
    /\ \/ \E b \in Branches \ {github.branch} : github' = [github EXCEPT !.branch = b]
       \/ paper.labels /\ github' = [github EXCEPT !.label = ~@]
       \/ paper.bot /\ github' = [github EXCEPT !.watched = ~@, !.rewatched = TRUE]
    /\ UNCHANGED <<paper, hard, placeVars, jobVars, dry>>

TicketDoorNext ==
    \/ DryStep \/ CacheExpires \/ GithubTurns
    \/ \E a \in Authors : SubmitStep(a) \/ WorkerStep(a)
----------------------------------------------------------------------------
(* Properties.                                                             *)

\* A text whose submit exited 0 is in the queue, at work or judged: no later
\* submit of the id replaces it; but on a file system without hard links a
\* rename may replace a text that came back after the look.
PlacedStays ==
    \A a \in Authors : Placed(a) =>
        \/ inboxed = a \/ a \in beside \/ job.of = a \/ judged[a] \in Judged
        \/ ~hard /\ a \in overlaid /\ judged[a] = "again"

\* "already queued" is said only where the id was: some other submit placed its
\* text, is about to, or died in its place.
TakenByAnother ==
    \A a \in Authors : HandAt(a, "taken") =>
        \E b \in Authors \ {a} : Placed(b) \/ hand[b].at \in {"slot", "clear", "leave", "dead"}

\* What the dry run takes for an error and the worker does not: it lints a
\* question too.
LintAlone == LintErrors(dry.labels) \ (IF TornPatch THEN {} ELSE PatchAmends)
WorkerLenient ==
    (IF HasPath THEN {} ELSE {"repo_missing"} \cup LintErrors(dry.labels))
      \cup (IF paper.lint THEN {} ELSE LintAlone)
      \cup (IF paper.fork \/ paper.amends \/ job.again \/ job.branch = "sibling"
            THEN {"branch_exists"} ELSE {})

\* With the same view of GitHub the dry run to the inbox and the worker agree:
\* a clean ticket is refused only for what the dry run does not look at, and of
\* the errors it reports the worker lets only the named ones pass.
DryRunForetells ==
    dry.at = "ended" /\ dry.route = "inbox" /\ job.at \in Judged /\ job.branch = dry.branch
      /\ (paper.lint => job.labels = dry.labels) =>
        /\ job.at = "refused" /\ DryErrors = {} =>
             paper.beyond \/ paper.fork \/ (paper.amends /\ job.branch = Unread)
        /\ job.at = "runs" => DryErrors \subseteq WorkerLenient

\* Where the dry run says "issue" --as-issue finds the repository, unless the
\* watchlist changed meanwhile.
RouteIsOpen ==
    dry.at = "ended" /\ dry.route = "issue" /\ ~github.rewatched =>
        \A a \in Authors : ~HandAt(a, "notWatched")

TicketDoorHolds ==
    TicketDoorTypeOK /\ PlacedStays /\ TakenByAnother /\ DryRunForetells /\ RouteIsOpen
=============================================================================
