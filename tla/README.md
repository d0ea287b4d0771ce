# A verification project for junco

junco is a worker that takes Markdown tickets from a file-system queue, runs an
agent session for each, and turns the result into an answer or a pull request.
This directory keeps TLA+ models of the parts of it whose correctness depends
on the order in which processes, coroutines, crashes and lost network calls
interleave, the TLC configurations that check them on small instances, and
proofs, checked by TLAPS, of what matters most for every size.

All modules are translated from the code under `src/`. Names follow it.

## 1. The system

### Components

| component | state it keeps | operations | modelled |
|---|---|---|---|
| ticket queue (`queue.ts`, `requeue.ts`, `orphans.ts`, `finalize.ts`, `dispatch.ts`, `rmCmd.ts`) | files in `inbox/`, `processing/`, `done/`, `failed/`; `retry_count` and `not_before` in their frontmatter | submit, rm, claim, requeue (charged or free), finalize, recover orphans | `TicketQueue`, `TicketLifecycle` |
| submit doors (`submitCmd.ts`, `dispatch.ts`, `submitPreflight.ts`, `submitAsIssue.ts`, `patchTicket.ts`, `planLint.ts`, `repoContext.ts`) | the temporary and sentinel files beside the inbox; a dry run; the record of a plan set | submit a ticket, dry run, compose a patch, submit a plan again after an edit, submit as an issue | `TicketDoor`, `PlanDoor` |
| scheduler (`daemon.ts`, `runOnce.ts`, `cli.ts run-once`) | in-flight slots, busy repositories, the stop flag | poll, claim, settle, drain, start, stop, crash | `TicketQueue`, `ProviderGate` |
| daemon process and its commands (`startCmd.ts`, `daemon.ts`, `configWatcher.ts`, `restartCmd.ts`, `updateCmd.ts`, `statusCmd.ts`, the service unit) | claims, configuration in force, pending restart fields, installed version | start, reload, stop, update, restart, ensure, status, supervise | `DaemonControl` |
| pidfile lock (`pidfileLock.ts`, `lock.ts`) | the lock file, files moved aside | create, judge, steal, verify, restore, release | `PidfileLock` |
| provider gate and spend ledger (`providerGate.ts`, `spendLedger.ts`) | kind, until, streak; today's dollars | report failure / success / budget, hot-reload, read | `ProviderGate` |
| GitHub outbox and reporter (`githubOutbox.ts`, `githubReport.ts`, `githubComment.ts`) | op files, `dead/`, `flush.lock`; labels, comments and PRs on GitHub | report live or enqueue, flush, checkpoint, dead-letter | `Outbox` |
| ticket dependencies (`ticketDeps.ts`, `retryCmd.ts`, `resultMeta.ts`) | `deps_satisfied` stamps, result markers | sweep, stamp, cascade, retry with resurrection | `TicketDeps` |
| PR flow (`prFlow.ts`, `repo.ts`, `worktree.ts`, `pr.ts`, `verify.ts`, `critic.ts`, `postSessionReview.ts`) | worktree; the branch here and on the push remote; the pull request | validate, apply or session, review, gates, push, create, requeue, finalize, resume | `PrFlow` |
| GitHub bridge and plan sets (`githubInbox.ts`, `planSetBridge.ts`, `planSets.ts`, `planCompiler.ts`) | issue labels, plan comments, set records | ingest, plan, approve, dispatch, fan out, supersede, report, reconcile | `BridgeIssue`, `PlanSets`, `GithubInbox` |
| agent session and supervision (`agent/`) | the session, its guards, deadline and abort, the transcript, metrics | run, nudge, kill, abort, settle or give up, follow-up run, replay | `GuardManager`, `AgentRun` |
| chat (`chat/`, `tui/hooks/useChat.ts`) | sessions, turn, pending cards, transcript file, ring of live records | create, prompt, confirm, abort, reset, reconcile; follow, resume, degrade | `ChatSession`, `ChatManager`, `LiveTurn`, `ChatStream`, `Chat` |
| assess and analyze flows (`assess*.ts`, `analyze*.ts`, `commentReview.ts`) | parked batches and drafts | park, edit, file, post, discard, replay | `AuditReview`, `DraftReview`, `ReviewQueue` |
| data tree migration (`dataTree.ts`, `dataMigrate*.ts`, `migratePathRewrite.ts`) | trees of three ages, the journal, stored paths | plan, lock, move, copy, merge, rewrite, resume | `DataMigrate` |
| lint of a ticket's text (`planLint.ts`, `verify.ts`) | what a scan of the text has found so far | read a line, end | `PlanLint` |
| worktrees (`worktree.ts`, `worktreePruneCmd.ts`) | the trees and backups under the worktree root, its lock | add, clear, seed, remove, preserve, prune, clean up at the start | `Worktrees` |
| dashboard (`tui/`, `unwatchCmd.ts`) | watchlist rail, issue list, overlays, queue | add, unwatch, label verbs, poll, open, file, delete | `Unwatch`, `IssuePane`, `Panes`, `QueueView` |
| health, metrics, task history (`healthServer.ts`, `metrics.ts`, `taskHistory.ts`) | the names of the running tickets, the ledger of records | start, end, answer, append, read again when it changed | as far as `QueueView` and `Worktrees` go by them |
| sandbox, git and gh drivers, doctor, wizard, logging | - | - | no: see section 8 |

### How they interact

The daemon is one Node process. Its main coroutine runs the sweeps (bridge,
outbox, dependencies), then a claim pass; each claimed ticket runs in a slot,
an async task that shares the event loop with the main coroutine. Everything
between two `await`s is atomic to the other coroutines, but not to other
processes: `junco run-once`, `submit`, `rm`, `retry` and `outbox flush` work on
the same directories, and a kill can fall between any two file system calls.
The queue's only synchronisation is that `rename(2)` and `link(2)` are atomic.
A session reports its outcome to the provider gate (in memory), the ledger (a
file), the requeue or finalize functions (renames) and the reporter (GitHub,
or the outbox when GitHub is unreachable). The outbox later updates the `done/`
file of a ticket whose PR it opens; the dependency sweep reads that file to
decide whether dependents may run.

The bridge is one of the daemon's sweeps: it reads an issue once, fetches label
events, edits and comments one call each, and submits tickets to the same
inbox; people relabel and edit meanwhile. Chat lives in the daemon too and
streams its transcript to dashboards, which are processes of their own: they
poll GitHub and files, and start commands (`unwatch`, `start`, `audit file`)
that meet the daemon only in the file system. A migration and a daemon exclude
each other through the pidfiles.

### What is hard

* two renamers of one file; a rename onto a name that was free a moment ago;
* a ticket parsed before an await and claimed by name after it;
* a kill between the rewrite of a claimed file and its rename;
* startup recovery beside processes that take no lock;
* a stale lock that two stealers judge at once, restored after its owner left;
* a gate and a budget that are checked before the endpoint probe, and
  overwritten by sessions that began earlier;
* lost acknowledgements, replays, refusals and dead letters of GitHub calls,
  from two flushers, beside live calls for the same issue;
* a bridge that decides on a body, labels, events and a comment it read at
  different times, and dies between submitting a ticket and marking the issue;
* an abort, a deadline, a guard and a settling session that race, and a session
  that goes on after it was given up;
* a subscriber that resumes from an offset of a file that was reset meanwhile;
* a migration killed between a copy and the removal of its source, beside a
  daemon that starts;
* a plan of deletions that is stale when it is executed, and answers that come
  back to a screen that has moved on;
* a look into four directories, one at a time, for a ticket that moves;
* a worktree judged dead and then removed, while the daemon claims its ticket;
* a text that two programs read by different patterns.

`PROJECT.json` lists each of these at its line under `hazards`.

### What makes each component correct

* Queue: no file lost or overwritten; one executor per claimed file, and that
  executor runs the ticket whose file it holds; no claimed file stranded; each
  re-run paid for by a budget; every ticket eventually settled.
* Scheduler: one ticket per repository at a time; a graceful stop leaves
  nothing claimed.
* Lock: one holder; somebody wins; a dead owner's lock is taken over.
* Gate: a closed gate and a spent budget stop claims, up to the one claim whose
  probe is under way; free requeues wait; latches are lifted by evidence only;
  timed blocks lapse.
* Outbox: nothing posted twice, nothing dropped silently, the issue ends with
  the final label, `pr_queued` is always resolved, everything drains.
* PR flow: committed work is not thrown away, other people's pushes are not
  overwritten, the pull request says what it contains, done means delivered.
* Dependencies: a ticket starts only on merged or PR-less parents; stamps add
  up; a failed parent takes its dependents with it.
* Submit doors: a placed ticket is not replaced by another submit; a dry run
  foretells what the worker will say; a plan run that exits 0 left every task in
  the queue and none of them twice.
* Daemon: no two work on one root; who ends by itself hands its claims back; it
  follows its configuration file or says what needs a restart; the verdicts of
  the commands are true of the processes.
* Bridge: only approved text runs, once; no child of a plan is lost, the old
  plan stops; the issue's label gets to what the queue says.
* Agent runs: nudges and kills are those the guards decided, the result says
  what happened, a replay of the transcript agrees with the run, runs end.
* Chat: the transcript has every turn with its end, the pane shows it, what was
  shown stays.
* Reviews: a finding is filed once and what the queue says of it is true.
* Migration: nothing is lost, other people's data stands, a clean exit means one
  tree; repeated runs get there.
* Worktrees: a run keeps its tree from its adding to its end.
* Lint: what the worker runs has been linted.
* Dashboard: a clean removal removed what it listed, a verb meets the row it was
  pressed on, no ticket is lost from the queue it shows, screens catch up.

## 2. Modules

| module | models | composed from |
|---|---|---|
| `TicketLifecycle` | the promise: what may happen to a ticket, and that each further session is charged or waived | |
| `TicketQueue` | the queue, the daemon's slots, run-once processes and the operator | implements `TicketLifecycle` |
| `ProviderGate` | gate, ledger, claim passes and session reports | |
| `Outbox` | reporter, PR flow's offline path, two flushers, GitHub | |
| `TicketDeps` | the dependency sweep, `retry`, the queue reduced to where a ticket's copies are | |
| `PrFlow` | one ticket's way to a pull request, with retries, kills, the outbox and other people on its branch | |
| `BridgeIssue`, `PlanSets`, `GithubInbox` | one watched issue, its people and the worker; plan sets; the sweeps of the bridge | each extends the one before |
| `GuardManager`, `AgentRun` | the loop guards as a reducer; the runs of an agent for one ticket and their replay | `AgentRun` extends `GuardManager` |
| `ChatSession`, `ChatManager` | one chat session and its turn; the registry, confirm cards, submits and the draft hook | `ChatManager` extends `ChatSession` |
| `LiveTurn`, `ChatStream` | the text of a turn as it streams; ring, offsets, replay and the client that follows them | |
| `Chat` | the three views of a chat: sessions, turn, stream | `ChatManager`, `LiveTurn`, `ChatStream` |
| `AuditReview`, `DraftReview`, `ReviewQueue` | the batch of findings of an audit; the drafted comment of an investigation; either of them | `ReviewQueue` composes both |
| `DataMigrate` | data trees of three ages, `junco migrate`, its journal, and daemons beside it | |
| `PidfileLock` | the lock, one system call per step | |
| `DaemonControl` | daemons of two installations, configuration, unit, commands | |
| `Unwatch`, `IssuePane`, `Panes` | the rail with add and unwatch; the issue list; transcript, command output and review overlays | |
| `TicketDoor`, `PlanDoor` | the two doors of `junco submit` | |
| `PlanLint` | the lint of a ticket's text, and the worker's reading of the same text | |
| `Worktrees` | the worktrees of several tickets, the daemon and `junco worktree prune` | |
| `QueueView` | the dashboard's queue: ticks that overlap, `delete`, and the daemon that moves the tickets | |
| `Operations` | what an operator runs beside each other: one of the ten above per behaviour | `PidfileLock`, `DaemonControl`, `Unwatch`, `IssuePane`, `Panes`, `TicketDoor`, `PlanDoor`, `PlanLint`, `Worktrees`, `QueueView` |
| `MC*` | definitions for TLC; a run whose constants a `.cfg` can write has none | the module of that name |
| `*Proofs` | theorems, section 6 | the module of that name |

A composition of components that share no state (`Operations`, `ReviewQueue`,
`Chat`) picks one of them in `Init` and leaves the others at rest, so that a run
asks the same of all of them without the product of their states.

In all modules, what the code does not guard against is recorded when it
happens, in a history variable (`excused`, `raced`, `usurped`, `planExcuses`,
...), and the property that it breaks names it as an exception. An exception is
therefore a statement about the code - section 5 lists them - and the property
still holds of every behaviour in which it did not occur.

### TicketQueue

A ticket is one *submission*. Its file is a pair of a directory (`dir`) and a
base name (`name`); in `processing/` the claim stamp (`stamp`, to the minute as
`utcStamp` has it) is part of the path. Two submissions may use one name, so
the model can tell the file an executor looks up by path from the file it
meant. `retry` and `nb` are the two frontmatter keys the worker manages. A
`job` is a slot's, a run-once process's or the recovery's progress through one
ticket. Requeue and finalize are two steps each (rewrite in place, rename
away), because a kill may fall between; with `AtomicMoveBack = FALSE` the
existence check and the rename of a requeue are two steps as well, and another
process may run between them.

A claim pass reads its candidates (`PollBegin`, `PokeBegin`; `snap`), the daemon
awaits readiness, and then candidate after candidate is looked at and renamed.
The look whether the destination is free (`PollLook`, `PokeLook`; the job is at
`claim`) and the rename (`ClaimRename`, or `ClaimLost` when the source is gone)
are two steps: within the daemon nothing runs between them, but another process
may, and a rename replaces what is there by then (`clobbered`). With
`SerialClaims` no two processes are between their looks and their renames at one
time; with `PokesOnlyWhenUp` no run-once overlaps a daemon's downtime or start.
Error texts, results, usage numbers and the session itself are
abstracted to the outcome: finalize, charged requeue, free requeue.

### PidfileLock

`lock` is the file at the lock path, with the owner its content names, who
created it and whether the content is written. `aside` holds what a stealer has
renamed away. Every step of `acquirePidfileLock` and `release` that touches the
file system is an action. `links` is chosen in `Init`: whether the file system
has hard links, which decides between the atomic and the two-step create.
`Returning` are the processes that come back after a release (`back`); `Ghost`
is an owner that died before the behaviour began. `usurped` records that a
restored file met a lock created meanwhile, or was lost with the stealer.

### ProviderGate

Deadlines are the time left until them, so the clock is unbounded without
being counted. A claim pass (`PollCheck`, `GateClaim`, `ClaimNothing`) is split at
the probe. A session ends (and its cost is in the ledger) some steps before
its report reaches the gate. `leaked` and `overrun` count agent tickets claimed
since the gate closed and since the budget was reached. `garbled` are tickets
whose frontmatter cannot keep the retry state: a charged requeue sends them to
`failed/`, a free one goes through without its `not_before`. The backoff is any
number, 0 included; a reload that changes it is left out.

### Outbox

GitHub is part of the state: `labels`, `posted`, `prs`. Every call may succeed,
fail with its effect (lost acknowledgement), fail without, or be refused. A live
comment is tried up to `LiveTries` times before it is queued, each try a step
(`tries`); one that has landed unacknowledged (`landed`) is posted again by the
next try, which `reposted` counts. The tries of a label change do the same again
and are one step. An op carries its checkpoints (`pushed`, `url`) and attempts. A
flusher that gives an op up renames it to `dead/` (`Bury`) and then saves its
finalize tail and clears the `pr_queued` marker (`DeadLetter`); it may be killed
in between (`severed`). `trait` makes the
ticket ordinary, silent (external, plan-set child) or one whose PR comes from a
fork. `raced` and `dropped` are history: tickets with an op that something
overtook, and tickets with a report that was given up.

### TicketDeps

`inbox` and `running` hold a ticket's copy in `inbox/` and `processing/` as far
as dependencies are concerned: its `deps_satisfied`. `failed` holds the copies
in `failed/`, each in a place of its own, with the `dependency_failed` marker;
`done` is a ticket's done records, each with what is known of its pull request.
`sweep` is the daemon's sweep between two of its steps: the edges it has still
to look at, its cache of probe results, and the edge a probe, a stamp or a
cascade is about. It is cut where somebody else can come between - after the
reads that decide an edge, at the awaited probe, between passes. `retry` is a
`junco retry`, cut between its copy and its unlink; `before` and `refused` are
history. Edges are visited in any order, and of several done records any may be
the one the directory lists first, because the code takes both from `readdir`.
At most one queued and one running copy of a ticket exist; `TicketQueue` is
about what several do to each other. `Init` picks one of `Instances`, a set of
bounds, so that one run checks a long chain with few events and a short one
with many.

### PrFlow

`run` is the flow: its `pc` is the phase it is in and the other fields are its
local variables (`seen` is what ls-remote answered, `lease` the tip a resumed
run may overwrite, `ending` how the session ended, `verify` the last verdict).
A step ends where the code awaits a session or a git or gh call, so that people,
the outbox and kills come in between. The branch exists three times: `local` in
the repository, `remote` on the push remote, and checked out in `worktree`. A
commit records who made it in which run, whether the ticket's checks fail on it
(`broken`), whether the session was cut (`partial`), and whether the tree held
nothing else when it was last left (`tidy`), because verification runs on the
tree, not on the commit. `ops` are the pull requests parked in the outbox;
`Outbox` has the rest of the outbox's ways. Abstracted: the critic's verdict and
the secret scan (free choices), prompts, titles, labels, reviewers; a ticket
without verification is one whose commits are never broken. Taken to work:
`git rev-list` in the worktree (the code counts a failure there as no commits).
`git.removeWorktreeOnSuccess` has its default. Nobody deletes the branch, opens
a closed pull request again or moves the base.

### BridgeIssue, PlanSets, GithubInbox

A text - issue body or plan comment - is a number that grows with every edit
and stands for its content and for the time of the edit; `form` says what its
fences hold (prose, a ticket, a plan set). `shown` are the texts that were on
the issue when somebody with write access labelled or approved it, `ran` those
a ticket was made of. A sweep is cut at every gh call: `seen`, `held` and `asOf`
are what it read and goes by. File system work between two calls is one step,
and the daemon may die inside it with any part done (`DispatchSetCut`,
`ReplaceCut`). Labels change live or through the parked ops of the outbox
(`parked`), whose own ways are in `Outbox`. The worker is reduced to claim and
finish; `Outbox`'s reporter to its comment and label.

### GuardManager, AgentRun

`GuardManager` is a pure reducer: `Observe` takes an event and returns the new
state and a decision, as `observe` does. `AgentRun` gives it the events of a
session (`sdk`), executes its decisions, and writes the transcript, which is
kept as what a replay has made of its lines so far (`replay`). An abort is
requested, then awaited for a grace period; a session that does not settle is
given up and may go on as a `zombie`. Texts and tool results are abstracted to
whether they repeat (`Streams`, `Calls`) and to how many tokens they cost.

### ChatSession, ChatManager, LiveTurn, ChatStream

`ChatSession` is one session object: prompts, the turn, its pending card, the
aborted and wedged turn. `ChatManager` is the registry of them with creation,
reset, reconciliation with the watchlist, the confirm timeout, the submission by
the tool or by the operator, and the hook that parks drafts. `LiveTurn` is how
the blocks of a turn are built from the records of the stream, on the daemon's
side for a snapshot and on the client's side record by record. `ChatStream` is
the ring of live records with offsets that are positions in the transcript, the
client that subscribes, resumes, falls behind and is cut off, and the file that
is reset under it. `Chat` picks one of the three views.

### AuditReview, DraftReview

A batch or a draft is one JSON file, read before a pass and written back whole
at its end. `batch` has the state of each finding; `pass` is a process that
files; `ops` and `flush` are the queued issue creations and their replay;
`issues` counts GitHub's issues with the finding's marker. In `DraftReview`
texts are numbered as they are written; `comments` and `posted` say which of
them reached GitHub and the archive.

### DataMigrate

An item of the data tree lies at the legacy root, in the old flat names or in
the current ones; a directory has a marker that decides which root the code
resolves. `migrate` is cut at every rename, copy, verification and removal;
`journal` is `migrated.json`; `Holders` are the files that store paths
(watchlist, records, outbox ops, tickets). Their rewrite may fail for any of
them, which the run only warns of (`warned`). A daemon that starts meanwhile runs
its own pass of old names: it renames (`DaemonNames`) and then journals
(`DaemonJournalsNames`), under `migrate.lock`, which refuses a run that comes in
between (`LockRefused`); it may die in between. `passed` and `cut` are history.

### DaemonControl

A process is a record: its installation, how far `start` has come, the
configuration it froze and the one it applies, the fields it reports as pending.
Claims are taken and handed back in one step; `PidfileLock` has their insides. A
`command` is restart, update, ensure or status with what it has read so far;
`units` supervise installations. `Scenarios` say where the roots lie and how
often each thing may happen.

### Unwatch, IssuePane, Panes

`Unwatch` is a watched repository: what is on disk of it (`disk`), the three
hops of the removal (plan, confirm, command) and what the daemon does
meanwhile. `IssuePane` is the list of one repository with its two issues, the
requests under way, the cursor's anchor and the optimistic labels. Issue 1 begins
at any stage a verb or a re-sort follows (`LabelsBegun`): raw, plan ready, in
work, done. The list is sorted when one comes in (`SetIssues`), and by nothing
else: a verb and its rollback only change labels (`setIssueLabels`). `saved` is
what the disk caches hold, and what a list that is asked offline brings. `Panes` has
the transcript poll, the palette command's output and the review list with its
previews.

### TicketDoor, PlanDoor

`TicketDoor` places the texts of several authors under one id, through the hard
link or through the sentinel and a rename, and follows one text to the worker's
verdict; the dry run makes the same checks earlier with its own look at GitHub.
A ticket is a record of what the checks tell apart (`PaperOf`). `PlanDoor` is
`submit --plan`, run again after an edit: dispose of what nobody has claimed,
look for each task in the four directories, submit what is absent, write the
record.

### PlanLint, Worktrees, QueueView

`PlanLint` reads a text line by line, and of a line knows only what the patterns
tell apart (`Lines`); a text of any length ends anywhere. `linted` and
`executed` are where the lint and the worker's `extractVerificationBlocks` are in
it - each finds the section and its fences by a pattern of its own, so they may
pair a text's fences differently - and `ran` counts the blocks that are run.
`misled` records that the text had what the two read differently. The lint's
other rules look for one thing each; they are the flaws of `TicketDoor`.

`Worktrees` has `trees`, one place per repository and slug, which is whole,
unknown to git (`broken`) or without its `.git` (`gutted`); `stage` is how far the
run of a ticket is with its tree, `prunes` what each prune has read. A prune is
cut at its awaits: processing/, /health, rev-parse, `git worktree remove`, the
recursive fallback. `robbed` records that a run lost its tree, and why the prune
could not know. `SceneOf` says which tickets share a repository or a slug.

`QueueView` has `box`, where a ticket is, and `run`, its name in the metrics. A
tick (`ticks`) asks /health, reads the inbox, processing/, the two last
directories and the ledger, and awaits the endpoint's probe before it lands on
the `screen`; it keeps what moved since it began. A read of a directory, of a ticket
or of the ledger may fail and then brings less (`blind`: where rows are missing).
`memo` is the reader's copy of the ledger, taken again when the mtime differs,
also as an empty one when the read failed (`unread`). `dialog` is `delete`, from the
row's confirm to `junco rm`.

## 3. Runs

| run | asks | bounds |
|---|---|---|
| `TicketQueue_daemon` | file safety, ownership, serialization, recovery, clean exit, refinement | 3 tickets (two of one id, two of one repository, one apply ticket of higher priority), 2 slots, 1 retry, 1 free requeue, 2 crashes or stops, no other process |
| `TicketQueue_runonce` | every ticket settles, beside a run-once that may come at any time, also while a daemon starts or claims | 2 tickets of one id, one malformed, one removed at any time, 1 slot, 1 run-once, 1 retry, 1 kill, looks and renames apart for claims and requeues |
| `ProviderGate` | closed gates and spent budgets keep out; requeues wait, latches need evidence, timed blocks lapse | an agent and an apply ticket resubmitted for ever, 2 slots, delays of 1 and 2 capped at 2, a day of 2, budgets 0 (off) and 1 |
| `Outbox` | delivered once, labels converge, everything drains | one issue, silent or with a fork PR, two runs, 2 faults, 2 tries of a live comment, 2 refusals with 2 attempts, 1 kill, daemon and manual flusher |
| `TicketDeps` | dependencies first, stamps add up, release | a chain of 3 with 1 retry; a parent and a child with 2 retries and one resubmission or kill |
| `PrFlow` | commits and people's pushes kept, honest pull requests and outcomes, every ticket ends | 7 instances: apply and agent, each lever on and off, 0 or 1 retry, up to 2 acts of other people, a kill or a retry or resubmission by the operator |
| `GithubInbox` | approved text only and once, children follow the plan, sets close and issues are answered | one issue through each of its doors, plans of two, one and no task, approvals on and off, 3 texts, any two mishaps or acts of people together |
| `AgentRun` | truthful runs and results, a replay that agrees, runs end | 2 runs of up to 4 turns, guards that trip at 1 or 2, one nudge per kind, 1 fault |
| `Chat` | truthful transcript, pane and transcript agree, nothing shown is taken back, everything settles | 2 prompts, 2 session objects, 2 gestures; a turn of 4 events; a ring of 4 records and 3 moves |
| `ReviewQueue` | filed once, accounts true, what waits stands, everything settles | 2 findings, 2 processes, 2 attempts, 2 filings and 2 mishaps; 2 texts, 2 posts and 3 mishaps |
| `DataMigrate` | nothing lost, no step destroys, repeated runs unify | every mix of trees, roots on two file systems, 2 faults (kills, failing calls, failing rewrites), 1 daemon start |
| `Operations` | claims exclude and are handed back, runs keep their trees, verdicts are true, submissions are sound, the dashboard is true, everything settles | 3 lock processes of which two come back; 6 scenarios of two installations with at most 3 processes; 2 moves and 1 mishap around an unwatch; 2 issues, one of them at 4 stages, with 2 changes and 1 failed, offline or refused call; overlays with 3 records, 3 commands, 2 drafts; 30 tickets by up to 2 authors with 1 act of others; a plan edited from one task to two, with 1 slip; texts of any length, 2 blocks run; 2 tickets of one repository or of two, 2 prunes, 2 or 3 claims, kills and prunes; a queue of 2 tickets, 2 ticks, up to 3 turns of the daemon and failed reads |

Why these bounds are enough: ownership and overwriting are pairwise, so two
files of one name, two executors and a third ticket to compete for a
repository show every collision; a second crash falls into the recovery from
the first; a third retry repeats the second. Three lock users are the race the
code's comment accepts, and two of them that come back the one it does not
mention. The gate's delay saturates at the third report, which the instance
reaches. In the outbox one fault hits the first try of a live comment and the next its
second one, which queues it, or the replay of an op; two refusals dead-letter it.
For the issue list, two steps are a change on GitHub and a verb, or a verb and the
one the pane answers it with, from each stage: every verb is pressed, refused,
queued and rolled back, and a list that comes in re-sorts. For dependencies, a chain of three is the shortest
in which a parked ticket parks another and a retry needs a second pass; a stamp
is about one edge, so two tickets with two retries and a resubmission show every
order of stamp, probe, cascade, merge and retry. For the PR flow, one requeue or
kill gives the resumed run, and one push of another person can fall before,
between and after the look at the remote and the push; the second one makes the
pull request or the merge that changes what the retry finds. For the bridge,
three texts are a body, its plan and an edit; two mishaps are a lost label
change and the crash or edit that meets its retry. An agent's second run is the
corrective or fallback one; four turns let a nudge be ignored inside its window
and once more outside it. In the chat a ring of four is overrun by a turn of
four events beside its prompt. Two findings are one that is filed beside one
that fails; two processes are the command line and the dashboard. The data of a
migration are one item per kind of step (renamed, copied, merged, queue, vault).
For the daemon, a third process is the one that a command or the unit starts
beside an old and a new one. `TicketDoor` with one act of others has also been
checked with two. What a scan of a text keeps is finite, so no bound on the text
is needed; two blocks are one that is run and one beyond the limit. A tree is of
one ticket, a prune looks at one tree: two tickets show the tree that is another
one's and the name that two share, and the third claim, kill or prune the one
that meets what the first two left. A ticket shown twice or nowhere moved once
between two reads; the second ticket is the one `rm` may take for it, and the
second tick the one that lands out of order.

`SYMMETRY` is used for the slots in the safety run only; the properties checked
there are invariants, action properties and a safety refinement.

## 4. Fairness

* `TicketQueue`: weak fairness of every daemon step, of sessions' ends and of
  the clock: an event loop runs what is ready, timeouts end sessions, and the
  documentation runs the daemon under a supervisor that restarts it (`Start`).
  Strong fairness of a ready claim: the endpoint is reachable for infinitely
  many claim passes. Operators, run-once and kills are not fair.
* `ProviderGate`: polls, claims, sessions and time go on; reloads, restarts and
  submissions are not fair.
* `Outbox`: the daemon sweeps again and again; a manual flush that was started
  goes on, but need not be started.
* `TicketDeps`: the daemon sweeps and claims, sessions end, and a retry that was
  started goes on; strong fairness of an answered probe: GitHub is reachable for
  infinitely many of them. Submissions, merges, closes and outbox flushes are
  not fair.
* `PrFlow`: the daemon claims, the flow goes on (sessions have timeouts, and so
  have git and gh calls), and the outbox is flushed again and again. Free
  requeues are bounded in the instance: how often a provider fails is not the
  code's to decide. People and operators are not fair.
* `GithubInbox`: the daemon sweeps, or is started again, for ever, and the
  worker claims and finishes each ticket. People are not fair.
* `AgentRun`: the session is created or fails to be, the deadline timer fires,
  an aborted session settles or its grace ends. The model itself need not ever
  answer: the deadline is what ends a run.
* `Chat`: the manager's steps and timers, the client's reading and reopening,
  the daemon's restart and the opening of a session that was asked for.
* `ReviewQueue`: a process that files or posts goes on, and the outbox is
  replayed on every tick. Nobody has to start, edit, post or discard anything.
* `DataMigrate`: a migration that was started goes on; the operator runs it
  again until it is clean and warns of nothing and, strongly fair, clears the
  wreckage the receipt names; a daemon goes on from its renames to its journal,
  and is stopped at some time. Without these the receipt's promise
  ("run it again") says nothing.
* `Operations`: a live process goes through its acquire and release, a daemon
  through its startup, reload, drain and exit, the unit and a command that was
  started go on; what the dashboard awaits comes back and its intervals tick; a
  run that is over leaves the metrics;
  the operator unwatches again a row whose repository is gone. Signals, edits,
  deaths, repairs and everything else a person does are not fair. The submit
  doors need none: what is checked of them is safety. The subscript of each
  fairness condition is the state of the module it is about, and its action is
  that module's alone: `Next` leaves the other modules' state as it is.

## 5. Where the code and its words disagree

None of these is a run that fails: each is an exception that a property names,
so that the runs pass and the proofs hold with it. The lines are the code's.

Queue, sessions and pull requests:

* A daemon that starts while a run-once is executing requeues that file as an
  orphan and claims it (`orphans.ts:27`), although `cli.ts:595` says the two can
  never win the same ticket. The theorem about exclusive claims assumes it away
  (`PokesOnlyWhenUp`).
* `claim` looks and then renames (`queue.ts:48-50`); the comment above it calls
  that safe because the poll is serial, and `cli.ts:595` says that a run-once and
  a daemon can never win the same ticket. Each is serial, the two are not: of two
  submissions of one id in one minute, one is claimed between the other's look
  and its rename, and is replaced (`clobbered`), and both executors then work on
  one file. `NothingOverwritten` and `SingleOwner` are therefore proved and
  checked for processes that do not claim at the same time (`SerialClaims`, or no
  run-once), and `EventuallySettled` names the loss.
* `moveBackToInbox` tests a name and renames later; with
  `AtomicMoveBack = FALSE` `NothingOverwritten` fails (two requeues of one id).
* `requeue.ts` says that the gate, not the budget, prevents a hot loop. The
  configuration admits a `retryBackoffSeconds` of 0 (`configSchema.ts:93`): a rate
  limit then closes the gate until now (`providerGate.ts:119-120`), the free
  requeue waits until now, and the ticket is claimed at once, again and again.
  `NoHotLoop` is for a backoff above 0. A ticket whose frontmatter keeps no
  `not_before` (`requeue.ts:179-188`) is held up by the gate alone.
* A stop signal during the readiness probe is followed by the claim that was
  being made; the drain then waits for it. `docs/tickets.md` reads as if no new
  session started.
* run-once ignores the daemon's busy repositories, so `SameRepoSerialized`
  holds for a daemon alone only.
* A session in flight that reports a rate limit replaces `budget_exhausted`
  until the next poll.
* A fallback session of an apply ticket is neither gated nor counted against
  the budget before it starts.
* A live label change passes an older queued one (`githubOutbox.ts:218`); the
  replay then puts the issue back to working. `docs/github-mode.md:83` promises
  per-issue FIFO. (`raced` in `LabelsConverge`.) A live label change whose
  acknowledgement is lost also takes effect out of order, but is queued behind
  and so converges.
* A live comment is posted with `retryNetwork` (`githubComment.ts:38`), so a post
  whose acknowledgement is lost is posted again by the process itself
  (`git.ts:181-216`) without a look at the issue; `docs/github-mode.md` promises
  that a crash does not double-post, and only a queued comment looks first.
  (`reposted`, counted apart from `posted`.)
* A flusher killed after it has renamed an op to `dead/` and before it has saved
  the finalize tail or cleared the marker (`githubOutbox.ts:898-909`) leaves
  `pr_queued` with no op to clear it, or an opened pull request without its
  comment and label (`severed`).
* The replay of a fork PR whose creation was not acknowledged looks it up with
  a selector (`githubOutbox.ts:692`) that `prFlow.ts:1255` says does not work
  for forks, and dead-letters an op whose PR is open (`dropped`).
* `computePrStatus` asks for the timeout before the error (`finalize.ts:94`): a
  session that timed out after committing and whose pull request is refused is
  `timeout_partial` in `done/` without a pull request; `docs/tickets.md:367`
  says that status comes with one. A guard-killed one goes to `failed/`.
* Crash containment requeues a ticket whose run has committed
  (`runOnce.ts:505`), although `prFlow.ts:764` argues that commits must not be
  re-run.
* `skipPostSessionReview` is computed once, from the main run
  (`postSessionReview.ts:252`), although `prFlow.ts:425` describes it per run.
* A kill between `enqueueOp` and `finalizePr` leaves the op and re-runs the
  ticket; both report on the issue. A flusher that replays the op in that
  window leaves `pr_queued` on the done file with no op to clear it.
* A parked pull request op names the branch, not the commit. When a run starts
  before it is flushed - after a kill between `enqueueOp` and `finalizePr`, or a
  resubmission - the replay pushes whatever the branch points to by then, before
  any check of that run. `OutcomeTellsTheTruth` excludes this (`mixed`).
* A parked op keeps no lease: a resumed run that goes offline at its push is
  replayed by a plain push, refused over the stale tip, and dead-lettered.
* `retry_count > 0` is taken for a crashed run of junco's own, but every requeue
  and every kill before the push gives it too; a person's branch of that name,
  without an open pull request, is then overwritten, with a lease on it.
* `junco retry` clears `retry_count`, so a ticket that failed with its branch
  pushed and no pull request is refused on every retry, although the message
  says that it will resume.
* A fallback session that dies after a clean apply failed its checks still leads
  to a push and a pull request; the ticket is then in `failed/`.
* A corrective session that was cut is only logged; the pull request does not
  say so.
* Verification runs on the worktree; what it passed because of uncommitted files
  is not what is pushed (`tidy`).
* An apply that leaves the tree dirty and no commit ends as
  `completed_no_changes` in `done/`; `docs/tickets.md` says it fails loud.
* A dependent parked because the parent's pull request was closed is told that
  `junco retry <parent>` releases it again (`ticketDeps.ts`), but the parent is
  in `done/`, where `retry` does not look.
* A resubmitted ticket leaves a second done record, and the one that is listed
  first decides: a closed pull request goes on parking dependents although the
  resubmission was merged. A comment in `ticketDeps.ts` calls satisfaction
  monotone; that holds of stamps (`StampsAccumulate`), not of this decision.
* The sweep may decide that a parent failed, a retry of the parent may run to
  its end, and the sweep then parks the dependent. Nothing releases it with that
  retry.

Pidfile lock and daemon:

* The header of `pidfileLock.ts` (6-11) says that exactly one starter wins and
  that no stealer can destroy a racing winner's lock. With three starters the
  restore of a live lock by one stealer and the create of another give two
  holders (the comment on `acquirePidfileLock` accepts it); so does a stealer
  that dies between the rename aside and the restore, which no comment mentions
  (`usurped`). A restored file that names a live process that has released
  blocks everybody, that process included, until it dies. For two processes
  that do not die the claim is proved without exception (`TwoStartersOneWinner`).
* Without hard links two starters can both win, and two can steal from each
  other for ever.
* Levers that need a restart but are not in `overlayFrozenRestartFields`
  (`planSets.enabled`, `chat.modelId`, ...) are applied at once
  (`chatManager.ts:382`), although `daemon.ts:178` says they must never be.
* An edit between `loadConfig` and the watcher's first look is not applied until
  the next edit (`blind`); a file that cannot be parsed at that look makes the
  first reload adopt silently (`configWatcher.ts:35`). A pending restart field is
  never taken back when its edit is.
* `update` and `restart` read `worker.lock` only: a daemon that is starting is
  invisible (`starting`). The second read of `restartCmd.ts:318` may name a new
  holder as "still running - nothing was restarted" (`late`). `status` asks the
  configured port: two installations on one port report each other's pid. A
  signal before the handlers are installed leaves stale pidfiles.

Submit doors (`planExcuses`, and the exceptions of `TicketDoorHolds`):

* `ticketState` reads `done/`, `processing/`, `inbox/` and `failed/` one after
  the other, so a ticket that moves counts as absent and is submitted again
  (`torn`). `supersedeUnclaimed` writes a ticket it read back beside the one
  that was claimed meanwhile (`revived`). A run that submitted something does
  not look for tasks stranded by an earlier one and exits 0 (`masked`,
  `submitCmd.ts:316`). A marked copy that is claimed before it is moved runs,
  and the command ends on the missing file; no property needs an exception for
  that.
* A submit killed on a file system without hard links leaves its sentinel, and
  the id is refused for ever; its rename can replace a ticket requeued between
  the check and the rename.
* The lint looks for a taken branch at `origin` only and by the tail of the
  name, the worker exactly and on the push remote. The worker's label cache
  (five minutes) fails a ticket whose label was just created. A Q&A ticket
  always fails the dry run (`repo_missing`, and on its lint), though the worker
  does not look.
  `amends` skips the branch check of the worker but not of the dry run. These
  are `LintAlone` and `WorkerLenient` in `DryRunForetells`.
* `submitAsIssue` creates the tracking issue before it validates, does not catch
  a throwing create, and parks twice when the acknowledgement is lost.

Lint (`misled`): the header of `planLint.ts` (20) promises that no `cd` stands
in a fenced bash block under `## Verification`. A tag followed by a blank opens
no block for the lint (`:102`) but one for the worker (`verify.ts:103`); the
lint takes a heading such as `## Verifications` for the section and stops at the
next; a fence of another language is none for the one and pairs with the next
for the other. A `cd` in such a text is run unlinted.

Worktrees (`robbed`): `worktreePruneCmd.ts:16-20` says that the gate under the lock
closes the race with a claim, because it sees what the daemon has committed to
processing/. The daemon does not need the lock, so a ticket claimed after that
look, and before the removal, loses its live tree (`late`). A ticket without an
`id:` has another name in processing/ than its tree, so only /health protects it;
when that does not answer, or another ticket of the same name has just ended
(`metrics.ts:199` forgets every entry of the name), its tree is removed
(`nameless`).

Bridge (`excused`):

* `githubInbox.ts:878` says the body is read fresh; the comment's was fetched
  before `verifyLabelApplier` (`raced`).
* A crash between `dispatchPlanSet` and the label change, followed by an edit,
  runs the plan twice, the second time edited; `buildPlanComment` says that the
  edited plan is what runs (`redispatched`). A ticket that ends between the list
  of issues and the in-flight check is dispatched again when its mark failed
  (`stale`, `refused`).
* A replacement writes `plan.md` before `state.json`. A crash between the two
  leaves the new text beside the old record. The next sweep submits stranded
  children from that text, and one that only the old plan has is given up (`cut`).
* A record without children is said to heal itself (`planSetBridge.ts:96`); a
  crash in the fan-out followed by a failed look loses them (`torn`).
* A set's state is read once and used after several calls; a child retried
  meanwhile leaves the set closed. The degraded comment's id is stored at the
  end of the iteration, so a crash posts it twice.

Agent session:

* `createSession` is awaited before the deadline timer is armed.
* A second trip of the tool loops in the turn of the nudge is reported as an
  ignored nudge, although the nudge had not been delivered yet.
* The replay of a run that was given up may show decisions that were never
  made, and later runs of a transcript are replayed with the policy of the
  first `run_start`. A guard's kill whose abort does not settle counts as timed
  out too. A session that was given up may go on writing in the worktree, also
  beside the corrective run.

Chat (`excused`):

* `create` registers before it freshens (`chatManager.ts:167`, `:177`), and a
  reconciliation may evict a session that still does.
* After `/new` the draft hook and a submit that outlives its turn write into the
  archived directory, and the session is degraded. After a wedged turn the SDK
  still streams, and prompts steer into a dead run. A prompt during a reset that
  joins the old build is dropped without a word. Tails of one slug share a
  `pendingRetry` slot. The key `s` and a confirmed tool both submit. A
  repository watched again while a wedged turn drains has two objects on one
  transcript.
* Blocks have another order in a snapshot than in a client that followed record
  by record (`liveBlocks.ts:99`); an unclosed `<think>` goes over into the next
  block; the end of thinking is known through a snapshot only; a refusal ends
  the stream until the chat is opened again.

Reviews: two passes that create one issue at the same time, or one that cannot
see GitHub's markers, file a finding twice (`raced`, `late`); an offline pass
puts "created" back to "queued" (`StaleSave`); a comment posted from two places
is posted twice (`twice`), and an edit during a post is archived as if it had
been sent (`swapped`). A replay that is refused writes its op anew even when the
repository was unwatched meanwhile and the op deleted (`githubOutbox.ts:505`),
so it is tried again later. The dashboard's `file` verb has no guard against a
second key press.

Migration: old names at the legacy root stay behind once the current root has a
marker, and the command exits 0 (`passed`); a stored path that cannot be rewritten
is a warning, and the command exits 0 with the path stale (`warned`,
`dataMigrateCmd.ts:1427-1438`, `:1675-1682`); a kill before the last journal - or of
a daemon between its renames and its journal (`dataMigrate.ts:489-516`) - leaves
stored paths stale (`cut`); of what an unfinished copy is about the receipt names
it, but it names other conflicts too (`dataMigrateCmd.ts:566-574`), so that
`PartialIsNamed` is an implication; a kill in a copy leaves a partial tree nobody names,
and the advice to remove it is unsafe when a daemon has written into it; an
unforced run that probed before `worker.lock` was taken runs beside the daemon
(`raced`, against the comment at `daemon.ts:780`); a queue vault that is not
empty stops half-way (`dataMigrateCmd.ts:1187`, against `:58`).

Dashboard (`excused` in `Unwatch`, `crossed`, `resumed`, `reaimed`):

* After an interrupted removal of a user-owned clone the next run finds neither
  inbox tickets nor push ops nor the worktrees, although `unwatchCmd.ts:216`
  calls it an idempotent sweep. A ticket claimed after the plan's look at
  `processing/` loses its clone. A failed entry does not stop the rest, and after
  a partial failure the watchlist is not read again (`App.tsx:1198`). A
  repository added again during its removal gets the directory that is then
  deleted.
* `askConfirm` replaces an open confirm, and the first flow is dropped. A late
  list brings a removed repository's data back; an older list or a rollback
  overwrites a newer one until the next poll. `openDetail` shows an answer
  without asking whose it is (`App.tsx:950`).
* The queue's tick asks /health first and then reads inbox/: a ticket claimed in
  between is in neither answer, and on no row until the next tick (`late`).
  `delete` hands the row's id to `junco rm`, which looks for a part of a name when
  there is no such ticket any more (`rmCmd.ts:25-64`): if the ticket was claimed
  since the confirm, another one that has the id in its name is deleted
  (`missed`). Two records appended within one mtime are one to the reader of the
  history until the next (`joined`). A directory or a ticket that cannot be read
  is shown as an empty one (`blind`, `queueSnapshot.ts:139-158`), and a ledger that
  cannot be read is kept as an empty one until its next record (`unread`,
  `taskHistory.ts:94-100`, `:143-147`); nobody is told.
* A reload of the reviews keeps the index, not the draft, of a preview. The
  transcript poll ends at the first `live: false` or failed read; a further run
  is not followed.

## 6. Proofs

Thirty-one theorems, in eight modules; `PROJECT.json` lists them under `theorems`.
They hold for every value of the constants that the named assumptions of the
modules allow (kinds of constants, and that special values are not ordinary
ones). What a theorem assumes beyond that is in its `ASSUME`:

| assumption | what it says | where |
|---|---|---|
| `AtomicMoveBack` | nobody runs between the check and the rename of a requeue | `FilesKept`, `ClaimsExclusive` |
| `SerialClaims` or no `Pokes` | no two processes are between the look and the rename of a claim; so it is for the slots of one daemon, which is all the code guarantees (section 5) | `FilesKept`, `ClaimsExclusive` |
| `PokesOnlyWhenUp` | no run-once overlaps a daemon's downtime or startup | `ClaimsExclusive` |
| `DaemonAlone` | `AtomicMoveBack`, `PokesOnlyWhenUp`, and no run-once at all | the other ownership theorems |
| `DaemonUndisturbed` | `DaemonAlone`, and nobody removes tickets | `QueueImplementsLifecycle` |
| `Procs = {a, b}`, `Crashes = FALSE` | two processes that do not die | `TwoStartersOneWinner` |

All of them are satisfied by runs: `TicketQueue_daemon` for the first five.

`TicketQueueProofs`: `TypeCorrect`, including that the retry count stays within
the budget; `TypeOK` is inductive as it stands. `FilesKept`: no ticket file is
overwritten. The inductive invariant adds that no executor is inside the split
requeue, and that what a claim is about to rename to is still free (`LookInv`):
one executor at most is between look and rename, and nobody else fills
`processing/`.

Who owns a claimed file: `ClaimsExclusive` (no two executors on one claimed
file, `SingleOwner`), `ExecutorsHoldTheirTicket`, `RepositoriesSerialized`,
`NoTicketStranded`, `ExitsClean`. As far as files and executors are concerned
every step has one of five shapes - nothing changes hands, an executor releases
its file, one takes a file nobody holds, all daemon executors vanish, or one
run-once does. `SingleOwner` alone is not inductive: a claim is exclusive only
because *every* busy executor's file is still where it claimed it (so the
rename's target is free), and recovery is only because, while the daemon
recovers, no slot is busy and every path on its list but the current one is
unowned. `OwnerInv` and `DaemonInv` say so; the lemmas show that each shape
preserves them, and one lemma per action gives its shape.

`QueueImplementsLifecycle`, the refinement of `TicketLifecycle` by the queue of one daemon: each action is a step of the
abstract ticket or leaves it alone. The mapping needs two facts that ownership
does not give: the retry count an executor read is still the file's when it is
charged (`RetryIsFresh`), and a session is paid for before its ticket is renamed
back (`SessionsPaid`).

`DaemonProofs` is about what has to hold before a ticket is claimed - its
dependencies and the gate - and about the tree a daemon works in. The names of
`ProviderGate` begin with `Gate` and those of `DataMigrate` with `Migrate` where
`TicketDeps` has the same, so that one module can extend all three. Of
`TicketDeps`, for every dependency graph:

* `DependenciesFirst`: `StartsOnMerged`. The invariant `StampsTrue` says that
  whatever copy of a ticket carries a stamp, in `inbox/`, `processing/` or
  `failed/`, the stamp is true, and that a running copy has all it needs;
  `SweepKnows` says the same of what the sweep is about to stamp and of the
  merges in its cache. Both rest on `DoneGrows`: `done/` only grows, and "no
  pull request" and "merged" are final, so what was true when the sweep read it
  is still true after its await.
* `StampsKept`: `StampsAccumulate`, from the same invariant: a step that writes a
  queued file extends its stamps, and every other one that fills `inbox/` finds
  it free.

Of `ProviderGate`, for every number of tickets and slots, cap and backoff:

* `GateKeepsOut`: `GateHolds`. A pass checks, probes, and claims; what makes the
  leak at most one is that one check is good for one claim. `GateInv` adds
  `CheckIsFresh` (while a check stands open nothing has leaked since) and
  `OverrunIsSpent` (an overrun is counted only while the cap is spent).
* `EndsJudgedRightly`: `EndsAreJudged`, the safety half of `GateMoves`: with a
  backoff above 0 a free requeue finds the gate closed and, unless its
  frontmatter is malformed, has to wait; and a latch is lifted by a session that
  talked to the model only.

Of `DataMigrate`, for any number of faults and daemon starts, on one device or
two:

* `MigrationIsSafe`: `DataIsSafe`. The invariant `MigrateInv` is about the marks
  that tell whose content lies where. `NothingLost` is not inductive: a step that
  removes a source is harmless only because the data is known to be at the
  destination (`HandsOff`: at a removal the source has nothing of the operator's
  any more, and the copy is whole) and a step that fills a destination because
  nothing of the operator's was there. `StillThere` says what of the plan, made
  before the lock, still holds when the loop gets to it; `Sheltered` why the
  flat `clones` of a second root are seen by a run that contends for them only;
  `TornIsKnown` that every unfinished copy is under way, in the journal, or of a
  killed run, so that no later run takes it for the real thing. For
  `CleanMeansUnified`, `NoneBehind` follows what a run without conflicts has
  still to move, and `NamesRecorded`, `ClonesRecorded` and `RefsFollow` that each
  move that a stored path has to follow is in a journal, or was cut; a holder
  that was warned of is the one whose paths need not have followed.
* `MigrationStepsAreSafe`: `StepsAreSafe`. `Alone` says that a run beside which
  no daemon came up finds each place as it left it, `Excluded` that a run with its
  locks meets no daemon between its renames and its journal. A move of other people's
  content is counted through finite sets of places (`NewsFinite`): it leaves one
  for a place that is empty.

The attempt found one fault of the model: the pairs to move were defined by a
`CASE` whose arms overlapped, which TLC reads as the first one that is true and
TLA+ as any of them.

`OutboxProofs`, for any number of tickets, flushers, runs, failures, refusals
and kills:

* `OpsDeliveredOnce`: `DeliveredOnce`. `OutboxInv` says who may have posted
  what: an op that is replayed and not yet checkpointed is the only holder of
  its effect, of the live copies of one op only the first can be open, and a
  `pr_queued` marker has its op or a flusher that is past it, or one that was
  killed there (`severed`). What a live call posts over its own post is not in
  `posted`: it is the disclosed exception (`reposted`).
* `IssuesEndFinal`: `LabelsConverge`. `LabelInv` is about where a replay of the
  whole queue would leave the labels of an issue: until the final report was
  made anything goes, from then on replaying what is left ends in the final
  label; a live call and an enqueue keep that, unless they overtake.

`PrFlowProofs`, for every configuration:

* `NoWorkIsLost`: `WorkIsKept`, from `FlowInv`: the lease a resumed run pushes
  with is the tip it saw (`LeaseWasSeen`), a run past its count knows what it
  committed (`CommitsKnown`), and a run past its push has pushed it
  (`PushKnown`).
* `OutcomesAreTrue`: `OutcomeTellsTheTruth`. `OutcomeInv` adds the ladder from a
  session's end to the outcome (`LadderKnown`), what the body of the pull request
  and of each parked op says of the commits it is about (`TextInv`), and that
  what is done has been delivered or has its op (`DoneMeansDelivered`). About
  text the claim is made for tidy commits and while `mixed` is false; a cut
  corrective session is not claimed to be in it.

`OperationsProofs`:

* `ClaimsSound`: `ClaimsAreSound`, for any number of lock processes and of
  installations. `LockInv` says which name may be whose: a written lock has one
  creator, a file aside is still its stealer's, a phantom comes from a restore
  only, and of racing starters not all have lost (`LosersInv`). For the daemons
  each step of a process goes on, takes a claim, exits or dies; `ClaimsInv` says
  that who is past a claim holds it or is dead. For the
  worktrees, for every scene: `TreesInv` says of each prune that what it has read
  still vouches for it - a run of the tree it is about is known to it, or was
  claimed since, or has no name in processing/ - and of each run that its
  repository is its own, and that its file and its name are where a prune looks
  for them (`PrunesInv`, `RunsInv`).
* `DaemonsTellTheTruth`: `DaemonTellsTheTruth`, from `ConfigInv` (what a daemon
  goes by is a file's past or present, and what differs is reported or unread)
  and `CommandInv` (what a command has read is true of the processes there were
  when it read; every step leaves those as they are or older).
* `TwoStartersOneWinner`: the lock's claim without its exception.
* `SubmissionsSound`: `SubmissionsAreSound`, for any authors, turns, plans and
  tasks. For one ticket: a sentinel is of who took it, dead or alive (`SlotInv`), a
  text is in one place from its placement to its claim (`TextInv`), what came
  under a name that was found free was requeued (`LookInv`), and what the worker
  has read explains how far it got (`JobInv`). For a plan: what the fan-out has
  passed is somewhere or known to be stranded (`FanInv`), because outside a
  disposal no copy is lost (`PresentStays`); unclaimed tickets are of the
  recorded revision and ahead of the walk while it disposes, of the new revision
  while it fans out (`RecordInv`). The plans are assumed not to be empty, as the
  compiler refuses an empty one (`planCompiler.ts:109`). For a text: `LintInv`,
  what the worker has open the lint has open too, until the text misleads it.
* `QueueShown`: the queue's part of `DashboardIsTrue`, for any tickets, ticks and
  turns of the daemon. `TicksInv` says of each tick, after each of its reads, what
  it has seen of a ticket that has not moved since it began, where its reads did
  not fail, and that one which
  only went forward is in what has been read or still ahead of it; that a name in
  the metrics has its file in processing/, or an end that is not over
  (`RunsAreThere`), makes /health and processing/ two views of one thing.

`ReviewQueueProofs`, for any sets of findings, filing and posting processes. A
step of one queue leaves the other at rest, so each has an invariant of its own:

* `FiledOnceHolds`: `FiledOnce`. For the audit queue `RacesKnown`: whoever is
  about to create an issue looked and saw none, or the race is noted
  (`LookedBefore`). For the draft queue `OnePost`, about every text whose posts
  do not overlap: its poster is alone, a post about to be sent knows that the
  text is neither on the issue nor queued nor listed by a replay, and of its ops
  one at most is under way. What makes this inductive is what a replay still has
  listed although its file is gone (`Pending`).
* `AccountsAreTrueHold`: `AccountsAreTrue`. `TrueStamps` says of the stamps every
  pass is going to write what the property says of those written; `SentFirst`
  that a poster archives a text it has out, or one that took its place.
* `ReviewStandsHolds`: `ReviewStands`. `PassKeeps`: a pass that goes to write
  keeps the `created` stamps it read, because it saw their markers.

`GithubInboxProofs`, for every number of texts, any plans in them, every set of
doors and any number of mishaps:

* `InboxInvariant`: `InboxInv`, which TLC checked first, is kept by every step of
  the sweep, of the worker, of people and of the outbox. It has four parts beside
  the types.
* `OneApprovedDispatchHolds`: `OneApprovedDispatch`. `Approval` follows a text
  through the sweep: events name texts no younger than what stands
  (`EventsShown`), and a text that is held was shown from the call that vouched
  for it (`HeldShown`), because the body is read again after the check; where
  the code does not read again, `raced` says so. `Marking` follows the label: a
  change that takes off a label of a dispatched issue puts on another
  (`OpsKeepDispatched`), so the issue, or an op on its way to it, shows that its
  ticket was queued, or the ticket is still in flight (`DispatchShows`).
* `ChildrenFollowThePlanHolds`: `ChildrenFollowThePlan`. `Following` says that what
  a sweep holds of a set is what the disk holds (`SweepAgrees`), that the record
  is that of its plan's text (`SetIsItsPlan`), and that each child's file is of
  that plan and in one place (`ChildrenFresh`).

The attempt corrected the property: `NoChildLost` had been checked with too few
mishaps. A crash inside a replacement leaves the new `plan.md` beside the old
`state.json`; a stranded child that the new text leaves out is then given up by
the next sweep, and is in no list. `DispatchedOnce` lost an exception it did not
need, and `OldPlanStops` became stricter: what waits is of the recorded plan's
text, not merely of no older one. That the last parked op about a label decides
it is proved from minimal counterexamples (`Least`, `Greatest`): the library has
well-foundedness of the numbers without an operator parameter.

`AgentRunProofs`, for every policy of the guards and any number of turns, deltas,
calls, runs and faults. Lemmas about the reducer come first: what every answer
charges and remembers (`Sound`), that the tools' guards know nothing of
repetitions and turns (`Aside`), that the blocks of a quiet message bring a
manager to where its deltas brought it (`BlocksQuiet`). `RunInv` follows the
session, the manager and the replay side by side:

* `RunsAreTruthfulHolds`: `RunsAreTruthful`. `HeardHolds`: a recent nudge was
  heard or is on its way and known to this turn, so a trip that counts it as
  ignored came after it was heard. `ErrorsHold`: no error is left of an attempt
  that is tried again. `AbortsHold` and `ZombieHolds`: a grace was armed by an
  abort, whose flow is over.
* `ReplayAgreesHolds`: `ReplayAgrees`, from `ReplayHolds`: until a kill the replay
  has the manager of the run, in a message all of it but the message.

Only model-checked:

* liveness, which needs fairness and `ENABLED`: `EventuallySettled`,
  `BackoffLapses` (in `GateMoves`), `EventuallyDrained`, `EventuallyReleased`,
  `EventuallyEnds`, `BridgeSettles`, `RunsEnd`, `ChatSettles`, `ReviewSettles`,
  `EventuallyUnified`, `OperationsSettle`;
* that the bounds of `TicketDeps` leave `failed/` room (its `TypeOK`);
* the rest of `DashboardIsTrue`: the order of lists in `IssuePane` and `Panes` is
  computed by recursive operators of the community modules, about which nothing can be
  proved by induction here;
* so far: `TranscriptTellsTheTruth`, `PaneShowsTheChat`, `ShownStays`.

## 7. Plan

The models cover the components of section 1. What is left is a proof that the
chat's transcript is what was said (`Chat`).

## 8. Not modelled

The sandbox, the git and gh drivers, doctor, the setup wizard, the configuration
editor, logs, the metrics file and rendering are adapters, views and one-shot
file writers;
prompts, parsing and formatting are data, except for what the checks of
`TicketDoor` tell apart. In the modelled components the following is left out:

* daemon: `--once`, the details of `status`, the guard against a split queue,
  skill links;
* bridge and reporter: wording of comments, labels-cache of several
  repositories, several issues (they share the outbox, per-issue in order);
* agent: an output budget of 0, prompt caching, the contents of tools;
* chat: the composer, the cursor and keys of the pane, a missing or corrupt
  session file, `bash_execution_update`, which does not occur in chat; one tool
  call per turn and one submission per turn;
* reviews: label creation, the history of runs, `file as` another account;
* migration: relocation of the configuration, the pair of `gh` directories,
  restructuring in place, `--force`, dry runs;
* dashboard: filter text, palette, mouse, layout, expanded rows, two concurrent
  removals, overlapping add forms, toasts; the enumeration of worktrees in its
  heavy tick, the arithmetic of the queue's statistics;
* lint: warnings, the Files table and its paths, fences of four backticks, the
  size of a patch;
* worktrees: the order of git's own effects within one call, links into
  `node_modules` that fail;
* submit doors: warnings, standard input, dangling edges, errors of compiling a
  plan, `--as-issue --plan`.

Each component is listed in `PROJECT.json` with what is modelled of it.
