------------------------------- MODULE Unwatch -------------------------------
(***************************************************************************)
(* One watched repository of the dashboard: how it is added                *)
(* (tui/hooks/useAddRepoForm.ts), how it is removed in three hops -- the   *)
(* read-only `unwatch --plan`, the confirm modal, `junco unwatch`          *)
(* (tui/App.tsx, unwatchCmd.ts) -- and what the daemon does to the same    *)
(* files meanwhile.  The command and the daemon are two processes: every   *)
(* read of the plan and every deletion is a step of its own.  The files of *)
(* the repository are one element of Things per group that the command     *)
(* finds, or misses, in the same way.                                      *)
(***************************************************************************)
EXTENDS Naturals, FiniteSets

CONSTANTS
    MaxMoves,     \* bound: what the daemon, GitHub and the operator may start
    MaxMishaps    \* bound: failed deletions, kills and refusals

ASSUME UnwatchBounds == MaxMoves \in Nat /\ MaxMishaps \in Nat

\* What is on disk for the repository besides its ticket: the watchlist
\* entry, outbox ops that name it and push ops that only hold its path, its
\* worktree namespace, everything filed under its name (reviews, history,
\* mirror, cache, chats) and the clone.
Things == {"entry", "opNwo", "opPath", "worktrees", "named", "clone"}

VARIABLES
    place,     \* "managed": the clone lies under a junco root; "user": it does not
    disk,      \* the Things that exist
    ticket,    \* its ticket file: "none", "inbox", "live" (in processing)
    sweep,     \* a bridge sweep that read the watchlist with the entry is under way
    cli,       \* the running `junco unwatch`
    late,      \* what appeared since its plan was read
    rail,      \* the repository is in the dashboard's repoMappings
    hop,       \* the dashboard's unwatch flow
    form,      \* the add-repo form
    modal,     \* the confirm on screen
    seen,      \* the confirm the operator has read
    poll,      \* a gh list of the repository is under way in the dashboard
    cached,    \* its issues and PRs are in the dashboard's caches
    excused,   \* the accidents the properties exempt by name
    moves, mishaps

unwatchVars == <<place, disk, ticket, sweep, cli, late, rail, hop, form, modal,
                 seen, poll, cached, excused, moves, mishaps>>

Modals == {"none", "unwatch", "invite"}
NoRun == [pc |-> "idle", mode |-> "watched", found |-> FALSE, plan |-> {},
          failed |-> FALSE, by |-> "dash"]

UnwatchTypeOK ==
    /\ place \in {"managed", "user"}
    /\ disk \subseteq Things
    /\ ticket \in {"none", "inbox", "live"}
    /\ sweep \in BOOLEAN
    /\ cli \in [pc : {"idle", "queue", "entry", "tickets", "ops", "worktrees",
                      "named", "clone"},
                mode : {"watched", "residue"}, found : BOOLEAN,
                plan : SUBSET (Things \cup {"inbox"}), failed : BOOLEAN,
                by : {"dash", "shell"}]
    /\ late \subseteq Things \cup {"inbox"}
    /\ {rail, poll, cached} \subseteq BOOLEAN
    /\ hop \in {"idle", "planning", "asking", "running"}
    /\ form \in {"idle", "probing", "forking", "cloning", "validating",
                 "preflight", "asked", "granting"}
    /\ modal \in Modals /\ seen \in Modals
    /\ excused \subseteq {"claimed", "readded", "torn", "ghost", "swapped"}
    /\ moves \in 0 .. MaxMoves /\ mishaps \in 0 .. MaxMishaps

UnwatchInit ==
    /\ place \in {"managed", "user"}
    /\ disk \in {{"entry", "clone", "named"}, {"entry", "clone", "worktrees", "opPath"}}
    /\ ticket = "none" /\ sweep = FALSE
    /\ cli = NoRun /\ late = {}
    /\ rail = TRUE /\ hop = "idle" /\ form = "idle"
    /\ modal = "none" /\ seen = "none"
    /\ poll = FALSE /\ cached = TRUE /\ excused = {}
    /\ moves = MaxMoves /\ mishaps = MaxMishaps

UnwatchIdle ==
    /\ place = "managed" /\ disk = {} /\ ticket = "none" /\ sweep = FALSE
    /\ cli = NoRun /\ late = {} /\ rail = FALSE /\ hop = "idle" /\ form = "idle"
    /\ modal = "none" /\ seen = "none"
    /\ poll = FALSE /\ cached = FALSE /\ excused = {}
    /\ moves = 0 /\ mishaps = 0

Move == moves > 0 /\ moves' = moves - 1
Slip == mishaps > 0 /\ mishaps' = mishaps - 1
Appears(x) == late' = IF cli.pc = "idle" THEN {} ELSE late \cup x
Excuse(e, when) == excused' = IF when THEN excused \cup {e} ELSE excused

-----------------------------------------------------------------------------
(* The daemon.  Nothing here is the command's doing: it is what may happen  *)
(* between two of its steps.                                               *)

cliSide == <<place, cli>>
dashSide == <<rail, hop, form, modal, seen, poll, cached>>

SweepStarts ==
    /\ ~sweep /\ "entry" \in disk /\ Move
    /\ sweep' = TRUE
    /\ UNCHANGED <<disk, ticket, late, excused, mishaps>>

\* The sweep works from the list it read: it files a ticket whatever has
\* become of the entry.
SweepFiles ==
    /\ sweep
    /\ sweep' = FALSE
    /\ \/ /\ ticket = "none"
          /\ ticket' = "inbox" /\ Appears({"inbox"})
       \/ UNCHANGED <<ticket, late>>
    /\ UNCHANGED <<disk, excused, moves, mishaps>>

\* A claim moves the file to processing and adds a worktree; without the clone
\* the ticket fails at once.
Claims ==
    /\ ticket = "inbox"
    /\ IF "clone" \in disk
       THEN /\ ticket' = "live"
            /\ disk' = disk \cup {"worktrees"} /\ Appears({"worktrees"})
            /\ Excuse("claimed", cli.pc \notin {"idle", "queue"})
       ELSE ticket' = "none" /\ UNCHANGED <<disk, late, excused>>
    /\ UNCHANGED <<sweep, moves, mishaps>>

\* The run ends; offline it leaves a push op (by path) or an op of the
\* repository's name, and a run that has failed keeps its worktree.
RunFinishes ==
    /\ ticket = "live" /\ ticket' = "none"
    /\ \E left \in {{}, {"opPath"}, {"opNwo"}}, kept \in BOOLEAN :
        /\ disk' = (IF kept THEN disk ELSE disk \ {"worktrees"}) \cup left
        /\ Appears(left)
    /\ UNCHANGED <<sweep, excused, moves, mishaps>>

Flushes ==
    /\ disk \cap {"opNwo", "opPath"} # {} /\ Move
    /\ disk' = disk \ {"opNwo", "opPath"}
    /\ UNCHANGED <<ticket, sweep, late, excused, mishaps>>

DaemonStep ==
    /\ SweepStarts \/ SweepFiles \/ Claims \/ RunFinishes \/ Flushes
    /\ UNCHANGED <<cliSide, dashSide>>

-----------------------------------------------------------------------------
(* `junco unwatch`: the fresh plan, read group by group.                   *)

\* watchedPlan and residuePlan, first half: the inbox and the worktree
\* namespace.  Without an entry only the two junco roots are probed: a path of
\* the user's own is not known any more.
Mode == IF "entry" \in disk THEN "watched" ELSE "residue"
Found == Mode = "watched" \/ (place = "managed" /\ "clone" \in disk)
FindsFirst ==
    (IF Found /\ ticket = "inbox" THEN {"inbox"} ELSE {})
    \cup (IF Found /\ place = "managed" THEN {"clone"} ELSE {})
    \cup (IF Mode = "watched" \/ place = "managed" THEN disk \cap {"worktrees"} ELSE {})

StartsRun(by) ==
    /\ cli.pc = "idle"
    /\ cli' = [pc |-> "queue", mode |-> Mode, found |-> Found, plan |-> FindsFirst,
               failed |-> FALSE, by |-> by]
    /\ late' = {}

\* nwoKeyedItems: an op is found by its name, or by its path when one is known.
NwoKeyed == disk \cap ({"opNwo", "named"} \cup IF cli.found THEN {"opPath"} ELSE {})

\* The exit code reaches the dashboard: only a clean one evicts the caches and
\* reloads the watchlist (runLocalAction's onSuccess).
Exits(ok) ==
    /\ cli' = NoRun
    /\ IF cli.by = "dash"
       THEN /\ hop' = "idle"
            /\ IF ok THEN /\ cached' = FALSE
                          /\ rail' = ("entry" \in disk')
                          /\ Excuse("ghost", poll)
                     ELSE UNCHANGED <<cached, rail, excused>>
       ELSE UNCHANGED <<hop, cached, rail, excused>>

\* Mutant: a ticket in processing does not stop the command.
ReadsQueueBlind ==
    /\ cli.pc = "queue"
    /\ cli' = [cli EXCEPT !.pc = "entry", !.plan = @ \cup NwoKeyed]
    /\ UNCHANGED <<disk, ticket, late, mishaps, hop, cached, rail, excused>>

\* Second half of the plan, and the blocker: a ticket of the repository in
\* processing.
ReadsQueue ==
    /\ cli.pc = "queue"
    /\ IF cli.found /\ ticket = "live"
       THEN Exits(FALSE)
       ELSE /\ cli' = [cli EXCEPT !.pc = "entry", !.plan = @ \cup NwoKeyed]
            /\ UNCHANGED <<hop, cached, rail, excused>>
    /\ UNCHANGED <<disk, ticket, late, mishaps>>

After == [entry |-> "tickets", tickets |-> "ops", ops |-> "worktrees",
          worktrees |-> "named", named |-> "clone", clone |-> "idle"]

\* What each stretch of runUnwatch deletes of its plan.
Deletes(pc) ==
    CASE pc = "entry" -> IF cli.mode = "watched" THEN {"entry"} ELSE {}
      [] pc = "tickets" -> cli.plan \cap {"inbox"}
      [] pc = "ops" -> cli.plan \cap {"opNwo", "opPath"}
      [] OTHER -> cli.plan \cap {pc}

\* An unlink of what has left meanwhile fails; a recursive removal does not.
Missing(things) ==
    \/ "inbox" \in things /\ ticket # "inbox"
    \/ (things \cap {"opNwo", "opPath"}) \ disk # {}

\* attempt(): a row that throws is counted and the rest goes on; after the
\* last row the command exits, cleanly only when every row succeeded.
Deleting ==
    /\ cli.pc \in DOMAIN After
    /\ LET things == Deletes(cli.pc)
       IN \E fails \in BOOLEAN :
            /\ IF fails THEN things # {} /\ Slip ELSE UNCHANGED mishaps
            /\ disk' = IF fails THEN disk ELSE disk \ things
            /\ ticket' = IF ~fails /\ "inbox" \in things /\ ticket = "inbox"
                         THEN "none" ELSE ticket
            /\ LET bad == cli.failed \/ fails \/ Missing(things)
               IN IF After[cli.pc] = "idle"
                  THEN Exits(~bad)
                  ELSE /\ cli' = [cli EXCEPT !.pc = After[@], !.failed = bad]
                       /\ UNCHANGED <<hop, cached, rail>>
                       /\ Excuse("torn", fails /\ cli.pc = "entry")
    /\ UNCHANGED late

\* The command is killed between two of its rows.
Killed ==
    /\ cli.pc # "idle" /\ Slip
    /\ Exits(FALSE)
    /\ UNCHANGED <<disk, ticket, late>>

CliStep ==
    /\ ReadsQueue \/ Deleting \/ Killed
    /\ UNCHANGED <<place, sweep, form, modal, seen, poll, moves>>

\* The operator sweeps what is left from a shell.
ShellRun ==
    /\ Move /\ StartsRun("shell")
    /\ UNCHANGED <<place, disk, ticket, sweep, dashSide, excused, mishaps>>

-----------------------------------------------------------------------------
(* The dashboard's side: the removal in three hops, the add form, and the  *)
(* one confirm they share.                                                 *)

files == <<place, disk, ticket, sweep, cli, late>>
outside == <<files, moves>>
caches == <<poll, cached>>

\* askConfirm replaces whatever confirm is open; the flow that asked before it
\* gets no answer.
AskConfirm(m) ==
    /\ modal' = m
    /\ Excuse("swapped", modal # "none")

\* The verb spawns the plan for a row of the rail.
AsksPlan ==
    /\ rail /\ hop = "idle" /\ modal = "none"
    /\ IF "entry" \in disk THEN Move ELSE UNCHANGED moves
    /\ hop' = "planning"
    /\ UNCHANGED <<place, disk, ticket, sweep, cli, late, rail, form, modal, seen, caches, excused, mishaps>>

\* The plan is back, whatever the operator is doing by now: a blocked or
\* refused one is a toast, any other opens the confirm.
PlanBack ==
    /\ hop = "planning"
    /\ \/ /\ ~(Found /\ ticket = "live")
          /\ hop' = "asking" /\ AskConfirm("unwatch")
          /\ form' = IF modal = "invite" THEN "idle" ELSE form
          /\ UNCHANGED mishaps
       \/ /\ IF Found /\ ticket = "live" THEN UNCHANGED mishaps ELSE Slip
          /\ hop' = "idle" /\ UNCHANGED <<modal, excused, form>>
    /\ UNCHANGED <<outside, rail, seen, caches>>

ReadsModal ==
    /\ modal # seen /\ seen' = modal
    /\ UNCHANGED <<outside, rail, hop, form, modal, caches, excused, mishaps>>

\* settle("confirm"): the open confirm is answered once, and closed first.
Confirms ==
    /\ modal' = "none" /\ seen' = "none"
    /\ \/ /\ modal = "unwatch"
          /\ hop' = "running" /\ StartsRun("dash")
          /\ UNCHANGED form
       \/ /\ modal = "invite"
          /\ form' = "granting"
          /\ UNCHANGED <<hop, cli, late>>
    /\ UNCHANGED <<place, disk, ticket, sweep, rail, caches, excused, moves, mishaps>>

\* `y`, pressed for the confirm that was read; and an Enter meant for something
\* else, which answers a confirm only when nothing dangerous hangs on it.
PressesY == seen # "none" /\ modal # "none" /\ Confirms
\* Mutant: Enter confirms whatever is asked.
AnswersAny(m) == TRUE
Answers(m) == m # "unwatch"
PressesEnter == modal # "none" /\ Answers(modal) /\ Confirms

Cancels ==
    /\ modal # "none" /\ Move /\ modal' = "none" /\ seen' = "none"
    /\ IF modal = "unwatch"
       THEN hop' = "idle" /\ UNCHANGED form
       ELSE form' = "idle" /\ UNCHANGED hop
    /\ UNCHANGED <<files, rail, caches, excused, mishaps>>

\* handleAddRepo, from one await to the next.  Without push access the
\* repository is forked and its clone made under the junco root; an empty path
\* clones there, or takes the directory that is already there.
FormSubmits ==
    /\ form = "idle" /\ modal = "none" /\ "entry" \notin disk /\ Move
    /\ form' = "probing"
    /\ UNCHANGED <<place, disk, ticket, sweep, cli, late, rail, hop, modal, seen, caches, excused, mishaps>>

FormFails ==
    /\ form \in {"forking", "cloning", "validating"} /\ Slip /\ form' = "idle"
    /\ UNCHANGED <<outside, rail, hop, modal, seen, caches, excused>>

FormProceeds ==
    /\ \/ /\ form = "probing"
          /\ \/ place = "managed" /\ form' \in {"forking", "cloning"}
             \/ place = "user" /\ form' = "validating"
          /\ UNCHANGED <<disk, late>>
       \/ /\ form = "cloning" /\ form' = "validating"
          /\ disk' = disk \cup {"clone"}
          /\ Appears({"clone"} \ disk)
       \/ form = "validating" /\ "clone" \notin disk /\ form' = "idle" /\ UNCHANGED <<disk, late>>
    /\ UNCHANGED <<place, ticket, sweep, cli, rail, hop, modal, seen, caches, excused,
                   moves, mishaps>>

\* addEntry re-reads the file and appends; the rail follows at once.
Added ==
    /\ form \in {"forking", "validating"}
    /\ form = "validating" => "clone" \in disk
    /\ disk' = disk \cup {"entry", "clone"}
    /\ Appears({"entry", "clone"} \ disk)
    /\ rail' = TRUE
    /\ Excuse("readded", cli.pc # "idle")
    /\ form' = IF form = "forking" THEN "idle" ELSE "preflight"
    /\ UNCHANGED <<place, ticket, sweep, cli, hop, modal, seen, caches, moves, mishaps>>

\* The bot's access: nothing to do, a silent grant, or an invitation to confirm.
Preflight ==
    /\ form = "preflight"
    /\ \/ form' \in {"idle", "granting"} /\ UNCHANGED <<modal, hop, excused>>
       \/ /\ form' = "asked"  /\ AskConfirm("invite")
          /\ hop' = IF modal = "unwatch" THEN "idle" ELSE hop
    /\ UNCHANGED <<outside, rail, seen, caches, mishaps>>

Granted ==
    /\ form = "granting" /\ form' = "idle"
    /\ UNCHANGED <<outside, rail, hop, modal, seen, caches, excused, mishaps>>

\* The refresh cycle lists the selected row; the answer is cached in memory and
\* on disk however late it comes (loadIssues has no isAlive).
PollStarts ==
    /\ rail /\ ~poll /\ poll' = TRUE /\ Move
    /\ UNCHANGED <<place, disk, ticket, sweep, cli, late, rail, hop, form, modal, seen,
                   cached, excused, mishaps>>
PollLands ==
    /\ poll /\ poll' = FALSE /\ cached' = TRUE
    /\ disk' = disk \cup {"named"} /\ Appears({"named"})
    /\ UNCHANGED <<place, ticket, sweep, cli, rail, hop, form, modal, seen,
                   excused, moves, mishaps>>

Continues == PlanBack \/ FormFails \/ FormProceeds \/ Added \/ Preflight \/ Granted \/ PollLands
Removes == AsksPlan \/ ReadsModal \/ PressesY
UnwatchNext ==
    \/ DaemonStep \/ CliStep \/ Continues
    \/ Removes \/ PressesEnter \/ Cancels \/ FormSubmits \/ ShellRun \/ PollStarts

\* Processes run on and what is awaited comes back; of the operator only that a
\* row without an entry is unwatched again.
UnwatchFairly == DaemonStep \/ CliStep \/ Continues
RowIsLeft == rail /\ "entry" \notin disk /\ Removes

-----------------------------------------------------------------------------
(* What the removal promises.                                              *)

\* A run keeps its clone: the command refuses while a ticket of the repository
\* is in processing -- unless the ticket was claimed after that was looked up.
LiveKeepsItsClone == ticket = "live" => "clone" \in disk \/ "claimed" \in excused

\* A watched repository has its clone, unless it was added again while its
\* removal was still deleting, or the entry's own row failed.
WatchedHasItsClone == "entry" \in disk => "clone" \in disk \/ excused \cap {"readded", "torn"} # {}

\* The user's own clone is never touched.
UsersCloneStays == place = "user" => "clone" \in disk

\* What left the rail left the caches, unless a poll was still to land.
NoGhosts == cached => rail \/ "ghost" \in excused \/ poll

\* A clean exit leaves nothing behind but what came while it ran -- and, without
\* an entry or a clone to tell the path, what only the path would find.
Unnameable ==
    IF cli.found THEN {}
    ELSE {"inbox", "opPath"} \cup IF place = "user" THEN {"worktrees"} ELSE {}
Left == (disk' \ IF place = "user" THEN {"clone"} ELSE {})
        \cup IF ticket' = "inbox" THEN {"inbox"} ELSE {}
CleanMeansClean ==
    [][cli.pc = "clone" /\ ~cli.failed /\ cli'.pc = "idle" /\ mishaps' = mishaps
       => Left \subseteq late \cup Unnameable]_unwatchVars

\* Nothing is removed that the operator has not read the plan of, unless
\* another confirm took its place under the key.
RemovalWasRead ==
    [][hop = "asking" /\ hop' = "running" => seen = "unwatch" \/ "swapped" \in excused]_unwatchVars

\* However a removal failed, unwatching the row that is left once more ends it.
RailTells == rail => "entry" \in disk
=============================================================================
