------------------------------ MODULE PlanSets ------------------------------
(***************************************************************************)
(* Plan sets (planCompiler.ts, planSets.ts, planSetBridge.ts): a junco-plan *)
(* fence compiled into child tickets, the record kept of the set, and the  *)
(* maintenance of every sweep, which resubmits stranded children, replaces *)
(* the set when its plan was edited and approved again, and keeps the      *)
(* issue's comments and label in step with the queue.                      *)
(*                                                                         *)
(* File system work between two GitHub calls is one step, as nothing else  *)
(* runs in the daemon meanwhile; the daemon can die inside it, with any    *)
(* part of it done. `at` says which GitHub call the sweep makes next.      *)
(***************************************************************************)
EXTENDS BridgeIssue

VARIABLES
    at,       \* where the sweep is
    seen,     \* the labels it read from the issue
    held,     \* the text it took from the issue or the comment
    asOf,     \* time of the label event it read, as a text
    rec,      \* plans/<id>.json, or NoRecord
    planMd,   \* text of the plan kept in plans/<id>.md, 0 for none
    mem       \* the sweep's copy of the record

sweepVars == <<at, seen, held, asOf, mem>>
setVars == <<rec, planMd>>
vars == <<issueVars, sweepVars, setVars>>

NoRecord == [plan |-> 0, tasks |-> {}, label |-> "none", degraded |-> FALSE,
             closed |-> FALSE, lastFailed |-> 0, pending |-> {}, stale |-> FALSE]
Record == [plan : Text, tasks : SUBSET Task, label : Lifecycle \cup {"none"},
           degraded : BOOLEAN, closed : BOOLEAN, lastFailed : Text,
           pending : SUBSET Task, stale : BOOLEAN]

\* parsePlanSet: all errors are collected and any of them refuses the plan.
Compiles(text) == plan[text] # {}

\* The record of a fresh dispatch, and of a supersede, which keeps the label.
Fresh(text, label) ==
    [NoRecord EXCEPT !.plan = text, !.tasks = plan[text], !.label = label]

InitSweep ==
    /\ at = "idle" /\ seen = {} /\ held = 0 /\ asOf = 0
    /\ rec = NoRecord /\ planMd = 0 /\ mem = NoRecord

----------------------------------------------------------------------------
(* Fan-out: submitPlanSet.                                                 *)

\* resubmitFailed: the loose policy of a supersede also submits failed children.
Eligible(t, loose) == State(t) = "absent" \/ (loose /\ State(t) = "failed")

\* The children `landed` get a file in the inbox, made from text.
Submit(landed, text) ==
    /\ inbox' = [i \in Ids |-> IF i \in landed THEN text ELSE inbox[i]]
    /\ IF landed = {} THEN UNCHANGED ran ELSE Made(text)

\* Of the eligible children some submits throw: those are stranded.
FanOut(children, text, loose, stranded) ==
    LET todo == {t \in children : Eligible(t, loose)}
    IN stranded \subseteq todo /\ Submit(todo \ stranded, text)

\* A submit throws for the reasons a file system call does.
Throws(stranded) ==
    IF stranded = {} THEN NoFault ELSE Fault

----------------------------------------------------------------------------
(* dispatchPlanSet, of a fence that compiles.                              *)

\* Children of an older text wait in the inbox and are not disposed of.
Redispatched(text) ==
    IF \E t \in Task : {inbox[t], running[t]} \notin SUBSET {0, text} THEN {"redispatched"} ELSE {}

\* Mutant: the record is not written again after the fan-out.
DispatchSetForgets(text, stranded) ==
    /\ planMd' = text
    /\ rec' = Fresh(text, "none")
    /\ FanOut(plan[text], text, FALSE, stranded) /\ Throws(stranded)
    /\ excused' = excused \cup Redispatched(text)
    /\ UNCHANGED <<running, done, failed>>
\* Record first, then the children, then the record again with the children
\* whose submit threw.
DispatchSet(text, stranded) ==
    /\ planMd' = text
    /\ rec' = [Fresh(text, "none") EXCEPT !.pending = stranded]
    /\ FanOut(plan[text], text, FALSE, stranded) /\ Throws(stranded)
    /\ excused' = excused \cup Redispatched(text)
    /\ UNCHANGED <<running, done, failed>>

\* The daemon dies in it: the plan's text, or the record, or the record and
\* some of the children are there.
DispatchSetCut(text) ==
    /\ planMd' = text
    /\ \/ /\ UNCHANGED <<rec, inbox, ran>>
       \/ /\ rec' = Fresh(text, "none")
          /\ \E landed \in SUBSET {t \in plan[text] : Eligible(t, FALSE)} : Submit(landed, text)
    /\ excused' = excused \cup {"torn"} \cup Redispatched(text)
    /\ UNCHANGED <<running, done, failed>>

----------------------------------------------------------------------------
(* Maintenance.                                                            *)

Goto(l) == at' = l

\* What resolveSetState says of the record r's children.
TaskState(t, r) ==
    IF State(t) # "failed" THEN State(t)
    ELSE IF \E f \in failed[t] : f[2] = 0 THEN "failed" ELSE "superseded"
AllDone(r) == \A t \in r.tasks : TaskState(t, r) = "done"
AllTerminal(r) == \A t \in r.tasks : TaskState(t, r) \in {"done", "failed", "superseded"}
AnyFailed(r) == \E t \in r.tasks : TaskState(t, r) = "failed"
AnyProcessing(r) == \E t \in r.tasks : TaskState(t, r) = "processing"

\* desiredSetLabel
SetLabel(r) ==
    IF AllDone(r) THEN "done"
    ELSE IF AllTerminal(r) THEN "failed"
    ELSE IF AnyProcessing(r) THEN "working"
    ELSE "queued"

EndSweep == Goto("idle") /\ seen' = {} /\ held' = 0 /\ asOf' = 0 /\ mem' = NoRecord

\* drainPendingFanout, then on to the plan comment. Without the plan's text, or
\* when it does not compile any more, the stranded children are given up. A
\* record closed or stuck for 30 days is passed over.
Drain ==
    /\ at = "maintain"
    /\ \/ /\ rec = NoRecord \/ rec.closed \/ rec.stale
          /\ EndSweep /\ UNCHANGED <<issueVars, setVars>>
       \/ /\ rec # NoRecord
          /\ Goto("probe") /\ UNCHANGED <<seen, held, asOf>>
          /\ IF rec.pending = {}
             THEN mem' = rec /\ UNCHANGED <<issueVars, setVars>>
             ELSE /\ IF planMd = 0 \/ ~Compiles(planMd)
                     THEN /\ rec' = [rec EXCEPT !.pending = {}]
                          /\ UNCHANGED <<inbox, ran, troubles>>
                     ELSE \E stranded \in SUBSET rec.pending :
                            /\ FanOut(rec.pending \cap plan[planMd], planMd, TRUE, stranded)
                            /\ Throws(stranded)
                            /\ rec' = [rec EXCEPT !.pending = stranded]
                  /\ mem' = rec'
                  /\ UNCHANGED <<githubVars, running, done, failed, parked, shown,
                                 cycle, excused, planMd>>

Skip(l) == Goto(l) /\ UNCHANGED <<seen, held, asOf, mem, issueVars, setVars>>
FailTo(l) == Goto(l) /\ Fault
             /\ UNCHANGED <<seen, held, asOf, mem, githubVars, queueVars, parked, historyVars,
                            setVars>>

\* trySupersede 1, 2: the plan comment, when it holds a plan other than the
\* record's and other than the last one that did not compile.
Probe ==
    /\ at = "probe"
    /\ \/ FailTo("state")
       \/ /\ comment = 0 \/ form[comment] # "set" \/ comment \in {mem.plan, mem.lastFailed}
          /\ Skip("state")
       \/ /\ comment # 0 /\ form[comment] = "set" /\ comment \notin {mem.plan, mem.lastFailed}
          /\ Goto(IF approval THEN "approval" ELSE "replace")
          /\ held' = comment
          /\ UNCHANGED <<seen, asOf, mem, issueVars, setVars>>

\* The text that was taken is not the one the label event was about.
NoteRace(text) == excused' = IF text = held THEN excused ELSE excused \cup {"raced"}

\* 3: the approved label stands and its last event, by a writer, is younger
\* than the comment.
Reapproved ==
    /\ at = "approval"
    /\ \/ FailTo("state")
       \/ "approved" \notin labels /\ Skip("state")
       \/ "approved" \in labels /\ Skip("event")

ReapprovedEvent ==
    /\ at = "event"
    /\ \/ FailTo("state")
       \/ /\ approved.writer /\ approved.text >= held
          /\ Goto("replace") /\ NoteRace(comment)
          /\ UNCHANGED <<seen, held, asOf, mem, githubVars, queueVars, parked, shown, ran, cycle,
                         troubles, setVars>>
       \/ ~(approved.writer /\ approved.text >= held) /\ Skip("state")

\* The children's copies that are still in the inbox go to failed/ with the
\* marker of the plan that replaces them.
Disposed(ts, text) ==
    failed' = [i \in Ids |-> IF i \in ts THEN failed[i] \cup {<<inbox[i], text>>} ELSE failed[i]]

\* 4 to 7: nothing runs; the unclaimed children are disposed of, and the plan
\* is compiled, fanned out and then recorded. A plan that does not compile
\* leaves the record, and is remembered.
Unclaimed(r) == {t \in r.tasks : inbox[t] # 0}

\* The children a supersede submits once the copies of `gone` are out of the
\* way: all but those that are done, running or queued.
Resubmits(gone) ==
    {t \in plan[held] : t \notin done /\ running[t] = 0 /\ (inbox[t] = 0 \/ t \in gone)}

Resubmit(gone, landed) ==
    /\ Disposed(gone, held)
    /\ inbox' = [i \in Ids |-> IF i \in landed THEN held ELSE IF i \in gone THEN 0 ELSE inbox[i]]
    /\ IF landed = {} THEN UNCHANGED ran ELSE Made(held)

ReplaceRefused ==
    /\ ~Compiles(held)
    /\ Resubmit(Unclaimed(mem), {})
    /\ mem' = [mem EXCEPT !.lastFailed = held]
    /\ Goto(IF approval THEN "refuse" ELSE "state")
    /\ rec' = IF approval THEN rec ELSE mem'
    /\ UNCHANGED <<troubles, planMd>>

ReplaceSet ==
    /\ Compiles(held)
    /\ \E stranded \in SUBSET Resubmits(Unclaimed(mem)) :
         /\ Resubmit(Unclaimed(mem), Resubmits(Unclaimed(mem)) \ stranded)
         /\ Throws(stranded)
         /\ mem' = [Fresh(held, mem.label) EXCEPT !.pending = stranded]
    /\ rec' = mem' /\ planMd' = held
    /\ Goto(IF approval THEN "unapprove" ELSE "state")

Replace ==
    /\ at = "replace"
    /\ \/ AnyProcessing(mem) /\ Skip("state")
       \/ /\ ~AnyProcessing(mem) /\ (ReplaceRefused \/ ReplaceSet)
          /\ UNCHANGED <<githubVars, running, done, parked, shown, cycle, excused,
                         seen, held, asOf>>

\* 8, and its part of a failed recompilation: the approval was for this plan.
Unapprove ==
    /\ at \in {"unapprove", "refuse"}
    /\ GuardedLabels({}, {"approved"})
    /\ rec' = IF at = "refuse" THEN mem ELSE rec
    /\ Goto("state")
    /\ UNCHANGED <<seen, held, asOf, mem, body, comment, form, plan, vouched, approved,
                   approval, queueVars, shown, ran, cycle, planMd>>

\* Closed when every child has ended and no failed edit is pending.
\* Mutant: a degraded set is not closed.
ClosingWhole(label, terminal, degraded) ==
    [mem EXCEPT !.label = label, !.degraded = @ \/ degraded,
                !.closed = @ \/ (terminal /\ ~degraded /\ mem.lastFailed = 0)]
Closing(label, terminal, degraded) ==
    [mem EXCEPT !.label = label, !.degraded = @ \/ degraded,
                !.closed = @ \/ (terminal /\ mem.lastFailed = 0),
                !.stale = @ \/ (terminal /\ mem.lastFailed # 0)]

\* The queue is read once: the dashboard, the degraded comment, the label and
\* the record's next state all follow from that reading. A closed record is
\* left alone; without a new label the record is written at once.
ReadState ==
    /\ at = "state"
    /\ LET next == Closing(SetLabel(mem), AllTerminal(mem), AnyFailed(mem))
       IN \/ mem.closed /\ EndSweep /\ UNCHANGED rec
          \/ ~mem.closed /\ next.label = mem.label /\ EndSweep /\ rec' = next
          \/ /\ ~mem.closed /\ next.label # mem.label
             /\ Goto("label") /\ seen' = {mem.label} /\ mem' = next
             /\ UNCHANGED <<held, asOf, rec>>
    /\ UNCHANGED <<issueVars, planMd>>

\* The label, and then the record.
Relabel ==
    /\ at = "label"
    /\ GuardedLabels({mem.label}, IF seen = {"none"} THEN {"queued"} ELSE seen)
    /\ rec' = mem
    /\ EndSweep
    /\ UNCHANGED <<body, comment, form, plan, vouched, approved, approval, queueVars,
                   shown, ran, cycle, planMd>>

\* The daemon dies in Replace: it disposed of some children, resubmitted some,
\* and the old record stands, with the old plan's text beside it or the new. A
\* child that was marked and not moved yet still waits like any other.
ReplaceCut ==
    /\ at = "replace" /\ ~AnyProcessing(mem)
    /\ \E gone \in SUBSET Unclaimed(mem) :
         \E landed \in IF gone = Unclaimed(mem) /\ Compiles(held)
                       THEN SUBSET Resubmits(gone) ELSE {{}} :
            /\ Resubmit(gone, landed)
            /\ planMd' \in IF gone = Unclaimed(mem) /\ landed = Resubmits(gone)
                           THEN {planMd, held} ELSE {planMd}
    /\ excused' = excused \cup {"cut"}
    /\ UNCHANGED rec

Maintain ==
    Drain \/ Probe \/ Reapproved \/ ReapprovedEvent \/ Replace \/ Unapprove \/ ReadState
        \/ Relabel
=============================================================================
