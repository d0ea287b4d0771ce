----------------------------- MODULE Operations -----------------------------
(***************************************************************************)
(* What an operator runs beside each other: daemons and the commands that  *)
(* start, stop and update them (DaemonControl, which takes and gives up a  *)
(* claim in one step), the pidfile lock under their claims (PidfileLock,   *)
(* one file system call at a time), the worktrees they and `worktree       *)
(* prune` share (Worktrees), the dashboard: the rail with `junco unwatch`  *)
(* (Unwatch), the issue list (IssuePane), the overlays (Panes) and the     *)
(* queue (QueueView), and the two doors of `junco submit`: one ticket      *)
(* (TicketDoor) and a plan (PlanDoor), with the lint of a ticket's text    *)
(* (PlanLint). A behaviour looks at one of them; they share no state.      *)
(***************************************************************************)
EXTENDS PidfileLock, DaemonControl, Unwatch, IssuePane, Panes, TicketDoor, PlanDoor,
        PlanLint, Worktrees, QueueView

VARIABLE look   \* never changes

Looks == {"lock", "daemons", "rail", "issues", "panes", "ticket", "plan", "lint", "worktrees",
          "queue"}
dashboardVars == <<unwatchVars, issueVars, paneVars>>
submitVars == <<doorVars, planVars>>
fileVars == <<lintVars, treeVars, queueVars>>
vars == <<lockVars, daemonVars, dashboardVars, submitVars, fileVars, look>>

Begins(module, init, rest) == IF look = module THEN init ELSE rest

Init ==
    /\ look \in Looks
    /\ LockInit /\ DaemonInit
    /\ look = "lock" \/ (lock = None /\ links)
    /\ look = "daemons" \/ spare = CHOOSE s \in Scenarios : TRUE
    /\ Begins("rail", UnwatchInit, UnwatchIdle)
    /\ Begins("issues", IssueInit, IssueIdle)
    /\ Begins("panes", PanesInit, PanesIdle)
    /\ Begins("ticket", TicketDoorInit, TicketDoorIdle) /\ PlanInit
    /\ Begins("lint", PlanLintInit, PlanLintIdle)
    /\ Begins("worktrees", WorktreesInit, WorktreesIdle)
    /\ Begins("queue", QueueViewInit, QueueViewIdle)

FilesRest == UNCHANGED <<fileVars, look>>
OfLock(A) == look = "lock" /\ A /\ FilesRest /\ UNCHANGED <<daemonVars, dashboardVars, submitVars>>
OfDaemons(A) == look = "daemons" /\ A /\ FilesRest /\ UNCHANGED <<lockVars, dashboardVars, submitVars>>
OthersRest == UNCHANGED <<lockVars, daemonVars>> /\ FilesRest
OfRail(A) == look = "rail" /\ A /\ OthersRest /\ UNCHANGED <<issueVars, paneVars, submitVars>>
OfIssues(A) == look = "issues" /\ A /\ OthersRest /\ UNCHANGED <<unwatchVars, paneVars, submitVars>>
OfPanes(A) == look = "panes" /\ A /\ OthersRest /\ UNCHANGED <<unwatchVars, issueVars, submitVars>>
OfTicket(A) == look = "ticket" /\ A /\ OthersRest /\ UNCHANGED <<dashboardVars, planVars>>
OfPlan(A) == look = "plan" /\ A /\ OthersRest /\ UNCHANGED <<dashboardVars, doorVars>>
AllElseRests == UNCHANGED <<lockVars, daemonVars, dashboardVars, submitVars, look>>
OfLint(A) == look = "lint" /\ A /\ AllElseRests /\ UNCHANGED <<treeVars, queueVars>>
OfWorktrees(A) == look = "worktrees" /\ A /\ AllElseRests /\ UNCHANGED <<lintVars, queueVars>>
OfQueue(A) == look = "queue" /\ A /\ AllElseRests /\ UNCHANGED <<lintVars, treeVars>>

Next ==
    \/ OfLock(LockNext) \/ OfDaemons(DaemonNext)
    \/ OfRail(UnwatchNext) \/ OfIssues(IssueNext) \/ OfPanes(PanesNext)
    \/ OfTicket(TicketDoorNext) \/ OfPlan(PlanNext)
    \/ OfLint(PlanLintNext) \/ OfWorktrees(WorktreesNext) \/ OfQueue(QueueViewNext)

\* Fairness names a step by its module alone: Next leaves the rest as it is.
InLook(module, A) == look = module /\ A

\* A live process runs its synchronous acquire and release to their end; a
\* daemon's own steps and its reload, the service manager and the command at
\* work go on. Nothing says that a signal, an edit or a repair ever comes.
ProcessesGoOn ==
    /\ \A p \in Procs : WF_lockVars(InLook("lock", Step(p)))
    /\ \A p \in 1 .. MaxPids : WF_daemonVars(InLook("daemons", Advance(p) \/ Reload(p)))
    /\ \A i \in Installs : WF_daemonVars(InLook("daemons", Supervise(i)))
    /\ WF_daemonVars(InLook("daemons", Ongoing))

\* What the dashboard awaits comes back and its intervals tick, and a run that is
\* over leaves the metrics. Of the operator only that a row whose repository is
\* gone is unwatched again.
DashboardGoesOn ==
    /\ WF_unwatchVars(InLook("rail", UnwatchFairly)) /\ WF_unwatchVars(InLook("rail", DaemonStep))
    /\ WF_unwatchVars(InLook("rail", RowIsLeft))
    /\ WF_issueVars(InLook("issues", RefreshStarts)) /\ WF_issueVars(InLook("issues", Acting))
    /\ \A k \in Kinds : /\ WF_issueVars(InLook("issues", Served(k)))
                       /\ WF_issueVars(InLook("issues", Lands(k)))
    /\ WF_paneVars(InLook("panes", OfTranscript(TranscriptStep)))
    /\ WF_queueVars(InLook("queue", \E i \in Ticks : TickStep(i)))
    /\ WF_queueVars(InLook("queue", \E t \in Queued : taskEnded(t)))

Spec == Init /\ [][Next]_vars /\ ProcessesGoOn /\ DashboardGoesOn
-----------------------------------------------------------------------------
\* The claims exclude: the lock under each of them is sound, whoever works holds
\* all of its own, and a run keeps its worktree (PidfileLock, DaemonControl, Worktrees).
ClaimsAreSound ==
    /\ look = "lock" => LockIsSound
    /\ look = "daemons" => DaemonTypeOK /\ OneDaemonPerRoot /\ ClaimsFollow
    /\ look = "worktrees" => WorktreesTypeOK /\ WorktreesAreSafe

\* What the dashboard shows is what it says it is, and what stands in its
\* watchlist is there (Unwatch, IssuePane, Panes, QueueView).
DashboardTellsTheTruth ==
    /\ look = "rail" => UnwatchTypeOK /\ LiveKeepsItsClone /\ WatchedHasItsClone
                        /\ UsersCloneStays /\ NoGhosts
    /\ look = "issues" => IssueTypeOK /\ DetailIsWhatWasOpened
    /\ look = "panes" => PanesTypeOK /\ OutputIsOfItsCommand /\ PollStopsAtTheEnd
    /\ look = "queue" => QueueViewTypeOK /\ QueueIsShown

\* And what is done is what was asked for (Unwatch, IssuePane, Panes).
DashboardIsTrue ==
    /\ []DashboardTellsTheTruth
    /\ CleanMeansClean /\ RemovalWasRead /\ CursorKeepsItsIssue /\ VerbMeetsTheOpened

\* What was submitted is queued, as it was said to be, and what was checked is
\* what runs (TicketDoor, PlanDoor, PlanLint).
SubmissionsAreSound ==
    /\ look = "ticket" => TicketDoorHolds
    /\ look = "plan" => PlanTypeOK /\ PlanDoorHolds
    /\ look = "lint" => PlanLintTypeOK /\ CheckedIsWhatRuns

\* The lock of a dead owner is taken again and again, as long as somebody lives
\* and keeps trying; the phantom, and a file system without links, excepted. A
\* daemon that was asked to stop stops, a command comes to its verdict, the
\* unit's daemon is back; what was refused is not started over. And what the
\* dashboard shows gets to what there is.
Settled ==
    /\ look = "daemons" => StopsAreHeeded /\ CommandEnds /\ UnitsAreBack
    /\ look = "rail" => RailTells
    /\ look = "issues" => PaneFollowsGithub
    /\ look = "panes" => TranscriptIsComplete
    /\ look = "queue" => ScreenTells
OperationsSettle ==
    /\ look = "lock" => EventuallyReacquired
    /\ <>[]Settled
    /\ RefusedStaysDown
=============================================================================
