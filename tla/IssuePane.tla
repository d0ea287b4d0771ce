------------------------------ MODULE IssuePane ------------------------------
(***************************************************************************)
(* The dashboard's issue list for the repository on the rail               *)
(* (tui/hooks/useGithubData.ts): what the gh lists bring, in whatever      *)
(* order they come back, the cursor that stays on its issue while a poll   *)
(* re-sorts the list, the label verbs with their optimistic delta          *)
(* (tui/App.tsx, tui/ghClient.ts, tui/state.ts), and the detail overlay.   *)
(* Issue 1 goes through the bridge's lifecycle, issue 2 stays raw; the     *)
(* pull requests of the repository are one version number. A behaviour     *)
(* starts at any of the stages of issue 1 that a verb or a re-sort follows.*)
(***************************************************************************)
EXTENDS Naturals, Sequences, FiniteSets, SequencesExt

CONSTANTS
    MaxSteps,     \* bound: what GitHub, the bridge and the operator may do
    MaxTroubles,  \* bound: failed and offline gh calls
    MaxLists      \* bound: lists under way at once

ASSUME IssuePaneBounds == MaxSteps \in Nat /\ MaxTroubles \in Nat /\ MaxLists \in Nat \ {0}

Issues == {1, 2}
Labels == {"trigger", "ready", "approved", "working", "done"}
LabelsBegun == {{}, {"trigger", "ready"}, {"trigger", "working"}, {"trigger", "done"}}

VARIABLES
    gh,        \* GitHub: the open issues, issue 1's labels, the version of the PRs
    outbox,    \* label ops waiting for GitHub, oldest first
    saved,     \* the disk caches: which lists they hold, and what
    shown,     \* the issues state: the rows as last sorted, and issue 1's labels
    prs,       \* the PR state
    lists,     \* the gh lists under way
    sel, at,   \* the anchored issue number, and the row it was last on
    acts,      \* the label verbs whose answer is not back
    opened, detail, asks,  \* the issue whose detail was opened last, the one on
                           \* screen, the detail requests under way
    crossed,   \* an answer came back to a detail that had been closed
    steps, troubles

issueVars == <<gh, outbox, saved, shown, prs, lists, sel, at, acts, opened, detail,
               asks, crossed, steps, troubles>>

Unloaded == [open |-> {}, labels |-> {}]
NoRows == [rows |-> <<>>, labels |-> {}]
StepTaken == steps > 0 /\ steps' = steps - 1
Trouble == troubles > 0 /\ troubles' = troubles - 1

-----------------------------------------------------------------------------
(* state.ts: what the labels mean, and what a verb does to them.           *)

DeriveState(ls) ==
    CASE "done" \in ls -> "done"
      [] "done" \notin ls /\ "working" \in ls -> "working"
      [] ls \cap {"done", "working"} = {} /\ "ready" \in ls ->
            IF "approved" \in ls THEN "approved" ELSE "plan-ready"
      [] OTHER -> "raw"

AllowedActions(state) ==
    CASE state = "raw" -> {"dispatch"}
      [] state = "plan-ready" -> {"approve", "replan"}
      [] state = "approved" -> {"replan"}
      [] state = "done" -> {"recycle"}
      [] OTHER -> {}

LabelDelta(action, ls) ==
    CASE action = "dispatch" -> [add |-> {"trigger"}, remove |-> {}]
      [] action = "approve" -> [add |-> {"approved"}, remove |-> {}]
      [] action = "replan" -> [add |-> {}, remove |-> {"ready"} \cup (ls \cap {"approved"})]
      [] action = "recycle" -> [add |-> {}, remove |-> ls \cap {"done"}]
Edited(ls, op) == (ls \cup op.add) \ op.remove

\* sortIssues: what needs review first, then raw, in flight, over; of two raw
\* issues the first was touched last.
Group(state) ==
    CASE state \in {"plan-ready", "approved"} -> 0 [] state = "raw" -> 1
      [] state = "working" -> 2 [] state = "done" -> 3
Rows(list) ==
    SelectSeq(IF Group(DeriveState(list.labels)) <= 1 THEN <<1, 2>> ELSE <<2, 1>>,
              LAMBDA i : i \in list.open)

-----------------------------------------------------------------------------
(* The list state and its cursor.                                          *)

RowOf(rows, i) == CHOOSE n \in DOMAIN rows : rows[n] = i
Clamp(n, rows) == IF n > Len(rows) THEN Len(rows) ELSE n

\* Mutant: the cursor keeps its row instead of its issue.
AnchorByRow(rows) == IF rows = <<>> THEN sel ELSE rows[Clamp(at, rows)]

\* Setting the list re-validates the anchor: a number still there is kept, one
\* that has gone falls back to the row it was on.
Anchor(rows) ==
    IF rows = <<>> \/ sel \in Range(rows) THEN sel ELSE rows[Clamp(at, rows)]

\* A list that comes in is sorted; an edit of the labels leaves the rows alone.
SetIssues(list) ==
    LET rows == Rows(list)
        kept == Anchor(rows)
    IN /\ shown' = [rows |-> rows, labels |-> list.labels]
       /\ sel' = kept
       /\ at' = IF rows = <<>> THEN at ELSE RowOf(rows, kept)
setIssueLabels(ls) ==
    /\ shown' = IF 1 \in Range(shown.rows) THEN [shown EXCEPT !.labels = ls] ELSE shown
    /\ UNCHANGED <<sel, at>>

\* The row a key acts on.
Current == IF shown.rows = <<>> THEN 0
           ELSE IF sel \in Range(shown.rows) THEN sel ELSE shown.rows[Clamp(at, shown.rows)]

MoveIssue ==
    /\ opened = 0 /\ shown.rows # <<>> /\ StepTaken
    /\ \E delta \in {0 - 1, 1} :
        LET next == RowOf(shown.rows, Current) + delta
        IN /\ next \in DOMAIN shown.rows
           /\ sel' = shown.rows[next] /\ at' = next
    /\ UNCHANGED <<gh, outbox, saved, shown, prs, lists, acts, opened, detail, asks, crossed, troubles>>

-----------------------------------------------------------------------------
(* refreshAll: the selected repository's issues and its PRs are two lists, *)
(* answered by GitHub at one time and set at another.                      *)

Kinds == {"issues", "prs"}
RefreshStarts ==
    /\ Cardinality(lists) <= MaxLists /\ \A l \in lists : l.at # "asked"
    /\ lists' = lists \cup {[what |-> k, at |-> "asked", list |-> Unloaded, prs |-> 0] : k \in Kinds}
    /\ UNCHANGED <<gh, outbox, saved, shown, prs, sel, at, acts, opened, detail, asks, crossed,
                   steps, troubles>>

Answer(l) ==
    IF l.what = "issues"
    THEN [l EXCEPT !.at = "served", !.list = [open |-> gh.open, labels |-> gh.labels]]
    ELSE [l EXCEPT !.at = "served", !.prs = gh.prs]

ListServed(l) ==
    /\ l.at = "asked" /\ lists' = (lists \ {l}) \cup {Answer(l)}
    /\ UNCHANGED <<gh, outbox, saved, shown, prs, sel, at, acts, opened, detail, asks,
                   crossed, steps, troubles>>

\* What is brought is set as it is, with no look at what was set since it was asked.
SetWhat(l, list, version) ==
    /\ lists' = lists \ {l}
    /\ IF l.what = "issues" THEN SetIssues(list) /\ UNCHANGED prs
       ELSE prs' = version /\ UNCHANGED <<shown, sel, at>>
    /\ UNCHANGED <<gh, outbox, acts, opened, detail, asks, crossed, steps>>

\* The call fails: an offline one brings what is cached, any other nothing.
ListFails(l) ==
    /\ l.at = "asked" /\ Trouble /\ UNCHANGED saved
    /\ \/ l.what \in saved.holds /\ SetWhat(l, saved.list, saved.prs)
       \/ /\ lists' = lists \ {l}
          /\ UNCHANGED <<gh, outbox, shown, prs, sel, at, acts, opened, detail, asks, crossed, steps>>

\* The answer is here: it is cached and set in one breath.
ListLands(l) ==
    /\ l.at = "served" /\ UNCHANGED troubles
    /\ saved' = [holds |-> saved.holds \cup {l.what},
                 list |-> IF l.what = "issues" THEN l.list ELSE saved.list,
                 prs |-> IF l.what = "prs" THEN l.prs ELSE saved.prs]
    /\ SetWhat(l, l.list, l.prs)

Served(k) == \E l \in lists : l.what = k /\ (ListServed(l) \/ ListFails(l))
Lands(k) == \E l \in lists : l.what = k /\ ListLands(l)

-----------------------------------------------------------------------------
(* runAction: the delta is shown at once, asked of GitHub from the labels  *)
(* that were shown, and taken back when GitHub refuses.                    *)

RunAction ==
    /\ opened = 0 /\ Current = 1 /\ StepTaken /\ Cardinality(acts) < 2
    /\ \E a \in AllowedActions(DeriveState(shown.labels)) :
        LET op == LabelDelta(a, shown.labels)
        IN /\ acts' = acts \cup {[op |-> op, prev |-> shown.labels, at |-> "asked"]}
           /\ setIssueLabels(Edited(shown.labels, op))
    /\ UNCHANGED <<gh, outbox, saved, prs, lists, opened, detail, asks, crossed, troubles>>

\* tryOrEnqueue: edited live, refused, or -- offline -- kept in the outbox.
Now(x, state) == (acts \ {x}) \cup {[x EXCEPT !.at = state]}
ActionServed ==
    \E x \in acts :
        /\ x.at = "asked"
        /\ \/ /\ gh' = [gh EXCEPT !.labels = Edited(@, x.op)]
              /\ acts' = Now(x, "done") /\ UNCHANGED <<outbox, troubles>>
           \/ /\ Trouble /\ acts' = Now(x, "refused") /\ UNCHANGED <<gh, outbox>>
           \/ /\ Trouble /\ acts' = Now(x, "queued")
              /\ outbox' = Append(outbox, x.op) /\ UNCHANGED gh
        /\ UNCHANGED <<saved, shown, prs, lists, sel, at, opened, detail, asks, crossed, steps>>

ActionBack ==
    \E x \in acts :
        /\ x.at # "asked"
        /\ acts' = acts \ {x}
        /\ IF x.at = "refused" THEN setIssueLabels(x.prev) ELSE UNCHANGED <<shown, sel, at>>
        /\ UNCHANGED <<gh, outbox, saved, prs, lists, opened, detail, asks, crossed, steps, troubles>>

\* The daemon flushes what was queued (Outbox).
Flush ==
    /\ outbox # <<>>
    /\ gh' = [gh EXCEPT !.labels = Edited(@, Head(outbox))]
    /\ outbox' = Tail(outbox)
    /\ UNCHANGED <<saved, shown, prs, lists, sel, at, acts, opened, detail, asks, crossed,
                   steps, troubles>>

\* GitHub and the bridge move on: a triggered issue gets its plan, an approved
\* plan is worked on, work ends, issues close and come back, PRs change.
GithubMoves ==
    /\ StepTaken
    /\ \/ /\ DeriveState(gh.labels) = "raw" /\ "trigger" \in gh.labels
          /\ gh' = [gh EXCEPT !.labels = @ \cup {"ready"}]
       \/ /\ DeriveState(gh.labels) = "approved"
          /\ gh' = [gh EXCEPT !.labels = (@ \ {"ready", "approved"}) \cup {"working"}]
       \/ /\ DeriveState(gh.labels) = "working"
          /\ gh' = [gh EXCEPT !.labels = (@ \ {"working"}) \cup {"done"}]
       \/ \E i \in Issues : gh' = [gh EXCEPT !.open = IF i \in @ THEN @ \ {i} ELSE @ \cup {i}]
       \/ gh' = [gh EXCEPT !.prs = @ + 1]
    /\ UNCHANGED <<outbox, saved, shown, prs, lists, sel, at, acts, opened, detail, asks, crossed,
                   troubles>>

-----------------------------------------------------------------------------
(* openDetail: the issue on screen is frozen when it is opened; the answer *)
(* sets the overlay again, whatever is open by then.                       *)

OpenDetail ==
    /\ opened = 0 /\ Current # 0 /\ StepTaken
    /\ opened' = Current /\ detail' = Current /\ asks' = asks \cup {Current}
    /\ UNCHANGED <<gh, outbox, saved, shown, prs, lists, sel, at, acts, crossed, troubles>>
CloseDetail ==
    /\ opened # 0 /\ opened' = 0
    /\ UNCHANGED <<gh, outbox, saved, shown, prs, lists, sel, at, acts, detail, asks, crossed,
                   steps, troubles>>
DetailBack ==
    \E i \in asks :
        /\ asks' = asks \ {i}
        /\ detail' = i
        /\ crossed' = (crossed \/ (opened # 0 /\ opened # i))
        /\ UNCHANGED <<gh, outbox, saved, shown, prs, lists, sel, at, acts, opened, steps, troubles>>

IssueInit ==
    /\ gh \in [open : {Issues}, labels : LabelsBegun, prs : {0}]
    /\ saved = [holds |-> {}, list |-> Unloaded, prs |-> 0]
    /\ outbox = <<>> /\ shown = NoRows /\ prs = 0
    /\ lists = {} /\ sel = 0 /\ at = 1 /\ acts = {}
    /\ opened = 0 /\ detail = 0 /\ asks = {} /\ crossed = FALSE
    /\ steps = MaxSteps /\ troubles = MaxTroubles

IssueIdle ==
    /\ gh = [open |-> {}, labels |-> {}, prs |-> 0]
    /\ outbox = <<>> /\ saved = [holds |-> {}, list |-> Unloaded, prs |-> 0]
    /\ shown = NoRows /\ prs = 0
    /\ lists = {} /\ sel = 0 /\ at = 1 /\ acts = {}
    /\ opened = 0 /\ detail = 0 /\ asks = {} /\ crossed = FALSE
    /\ steps = 0 /\ troubles = 0

Repolls == RefreshStarts \/ \E k \in Kinds : Served(k) \/ Lands(k)
Acting == ActionServed \/ ActionBack \/ Flush
IssueNext ==
    \/ Repolls \/ Acting \/ GithubMoves
    \/ MoveIssue \/ RunAction \/ OpenDetail \/ CloseDetail \/ DetailBack

-----------------------------------------------------------------------------
(* What the pane promises.                                                 *)

IssueTypeOK ==
    /\ gh \in [open : SUBSET Issues, labels : SUBSET Labels, prs : 0 .. MaxSteps]
    /\ saved \in [holds : SUBSET Kinds, list : [open : SUBSET Issues, labels : SUBSET Labels],
                 prs : 0 .. MaxSteps]
    /\ shown.rows \in {<<>>, <<1>>, <<2>>, <<1, 2>>, <<2, 1>>} /\ shown.labels \subseteq Labels
    /\ prs \in 0 .. MaxSteps /\ sel \in 0 .. 2 /\ at \in 1 .. 2
    /\ {opened, detail} \subseteq 0 .. 2 /\ asks \subseteq Issues
    /\ Cardinality(acts) <= 2 /\ crossed \in BOOLEAN
    /\ steps \in 0 .. MaxSteps /\ troubles \in 0 .. MaxTroubles

\* The overlay shows the issue that was opened, unless the answer to one that had
\* been closed came back into it.
DetailIsWhatWasOpened == opened # 0 => detail = opened \/ crossed

\* Whatever sets the list -- a poll that re-sorts it, a verb, its rollback --
\* leaves the cursor on its issue while that is listed.
CursorKeepsItsIssue == [][shown' # shown /\ sel \in Range(shown'.rows) => sel' = sel]_issueVars

\* Lists overtake each other, verbs are refused, queued and rolled back over newer
\* polls: in the end the pane shows what GitHub has, sorted.
PaneFollowsGithub ==
    /\ shown.rows = Rows(gh) /\ prs = gh.prs
    /\ 1 \in gh.open => shown.labels = gh.labels
=============================================================================
