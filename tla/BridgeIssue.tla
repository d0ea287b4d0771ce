----------------------------- MODULE BridgeIssue -----------------------------
(***************************************************************************)
(* What the GitHub bridge works on: one watched issue with its labels, its *)
(* body and the plan comment of the bridge's own login, the people who     *)
(* edit and label it, and the local queue with the worker that runs the    *)
(* issue's tickets and reports on them (githubReport.ts). The bridge is in *)
(* PlanSets and GithubInbox.                                               *)
(*                                                                         *)
(* A text (issue body or plan comment) is a number, growing with every     *)
(* edit: it stands for the content and for the time of the edit, and       *)
(* `form` says what its fences hold. A label event is recorded with the    *)
(* text that was shown when the label was applied.                         *)
(***************************************************************************)
EXTENDS Naturals, Sequences, FiniteSets

CONSTANTS
    Task,          \* task ids a plan may name
    SetPlans,      \* what a junco-plan fence may hold, as its set of tasks; the
                   \* empty set is a plan that does not compile
    Doors,         \* forms the issue is opened in
    Planned,       \* forms a planner's plan may have
    Approvals,     \* subset of BOOLEAN: values of github.requireApproval
    MaxTexts,      \* bound on edits and comments
    MaxTroubles    \* bound on what people do, calls and tickets that fail and
                   \* deaths of the daemon, together; a writer's approval is free

Exec == "exec"          \* githubTicketId(nwo, issue)
Planning == "plan"      \* githubTicketId(nwo, issue, "plan")
Ids == {Exec, Planning} \cup Task

Forms == {"prose", "ask", "ticket", "set"}
Text == 0 .. MaxTexts   \* 0: no text

ASSUME BridgeAssumption ==
    /\ Task \cap {Exec, Planning} = {}
    /\ SetPlans \subseteq SUBSET Task
    /\ Doors \subseteq Forms /\ Planned \subseteq {"prose", "ticket", "set"}
    /\ Approvals \subseteq BOOLEAN
    /\ MaxTexts \in Nat \ {0} /\ MaxTroubles \in Nat

\* lifecycleLabels, and the trigger label they derive from.
Lifecycle == {"queued", "working", "done", "failed", "denied", "planning", "plan-ready"}
Labels == Lifecycle \cup {"trigger", "approved"}

VARIABLES
    labels,     \* GitHub: labels of the issue
    body,       \* GitHub: text of the issue body
    comment,    \* GitHub: text of the last plan comment of the bridge's login
    form,       \* per text: what its fences hold
    plan,       \* per text: the tasks of its junco-plan fence
    vouched,    \* GitHub: last event of the trigger label, as the body it was
                \* applied to and whether by someone with write access
    approved,   \* GitHub: last event of the approved label, with the comment
    approval,   \* github.requireApproval; never changes
    inbox,      \* per ticket id: text its file in inbox/ was made from, 0 for none
    running,    \* the same for processing/
    done,       \* ids with a file in done/
    failed,     \* per id: its files in failed/, as <<text, by>>: by is 0 for an
                \* execution failure, n for a copy plan text n superseded
    parked,     \* the outbox: changes of the issue not yet on GitHub
    shown,      \* history: body texts labelled by a writer while they were shown,
                \* and comment texts approved so (all of them when
                \* github.requireApproval is off)
    ran,        \* history: texts a ticket was made from
    cycle,      \* history: how often the issue's own ticket was put into the queue
                \* since somebody last took a lifecycle label off the issue
    excused,    \* history: what frees the properties from a promise the code
                \* does not give, by name
    troubles

githubVars == <<labels, body, comment, form, plan, vouched, approved, approval>>
queueVars == <<inbox, running, done, failed>>
historyVars == <<shown, ran, cycle, excused>>
issueVars == <<githubVars, queueVars, parked, historyVars, troubles>>

Texts == Cardinality({n \in Text : n # 0 /\ form[n] # "none"})
NewText(f, p) ==
    /\ Texts < MaxTexts
    /\ form' = [form EXCEPT ![Texts + 1] = f]
    /\ plan' = [plan EXCEPT ![Texts + 1] = IF f = "set" THEN p ELSE {}]

\* The next text becomes the plan comment.
NewComment(f, p) ==
    /\ NewText(f, p) /\ comment' = Texts + 1
    /\ shown' = IF approval THEN shown ELSE shown \cup {Texts + 1}

InitIssue ==
    \E f \in Doors, p \in SetPlans :
    /\ f # "set" => p = {}
    /\ form = [n \in Text |-> IF n = 1 THEN f ELSE "none"]
    /\ plan = [n \in Text |-> IF n = 1 THEN p ELSE {}]
    /\ labels = {"trigger"} /\ body = 1 /\ comment = 0
    /\ \E w \in BOOLEAN :
         /\ vouched = [text |-> 1, writer |-> w]
         /\ shown = IF w THEN {1} ELSE {}
    /\ approved = [text |-> 0, writer |-> FALSE]
    /\ approval \in Approvals
    /\ inbox = [i \in Ids |-> 0] /\ running = [i \in Ids |-> 0]
    /\ done = {} /\ failed = [i \in Ids |-> {}]
    /\ parked = <<>> /\ ran = {} /\ cycle = 0 /\ excused = {}
    /\ troubles = 0

----------------------------------------------------------------------------
(* GitHub calls.                                                           *)

Fault == troubles < MaxTroubles /\ troubles' = troubles + 1
NoFault == UNCHANGED troubles

\* The labels after `gh issue edit --add-label add --remove-label remove`.
Edited(ls, add, remove) == (ls \ remove) \cup add

\* A label change made without the outbox: a call that fails may have had its
\* effect; `done` tells the caller which it was told.
EditLabels(add, remove, ok) ==
    IF ok THEN labels' = Edited(labels, add, remove) /\ NoFault
    ELSE Fault /\ labels' \in {labels, Edited(labels, add, remove)}

\* Ops of the outbox.
LabelsOp(add, remove) ==
    [kind |-> "labels", add |-> add, remove |-> remove, form |-> "none", plan |-> {}]
CommentOp(f, p) ==
    [kind |-> "comment", add |-> {}, remove |-> {}, form |-> f, plan |-> p]

\* guardOrQueue with a label change: made, parked in the outbox when GitHub is
\* unreachable, or refused, logged and given up.
GuardedLabels(add, remove) ==
    LET op == LabelsOp(add, remove)
    IN \/ /\ labels' = Edited(labels, add, remove) /\ NoFault
          /\ excused' = IF parked = <<>> THEN excused ELSE excused \cup {"overtaken"}
          /\ UNCHANGED parked
       \/ /\ Fault /\ labels' \in {labels, Edited(labels, add, remove)}
          /\ parked' = Append(parked, op) /\ UNCHANGED excused
       \/ /\ Fault /\ excused' = excused \cup {"refused"} /\ UNCHANGED <<labels, parked>>

\* flushOutbox at the start of a sweep: replays the first k changes. A plan
\* comment gets its time when it is posted.
Replay(k) ==
    LET Comments == {i \in 1 .. k : parked[i].kind = "comment"}
        About(l) == {i \in 1 .. k : l \in parked[i].add \cup parked[i].remove}
        Latest(is) == {i \in is : \A j \in is : j <= i}
    IN /\ labels' = {l \in Labels : IF About(l) = {} THEN l \in labels
                                    ELSE \E i \in Latest(About(l)) : l \in parked[i].add}
       /\ IF Comments = {} THEN UNCHANGED <<comment, form, plan, shown>>
          ELSE \E i \in Latest(Comments) : NewComment(parked[i].form, parked[i].plan)
       /\ parked' = SubSeq(parked, k + 1, Len(parked))

----------------------------------------------------------------------------
(* The queue, as far as the bridge looks at it.                            *)

\* ticketState
State(i) ==
    IF i \in done THEN "done"
    ELSE IF running[i] # 0 THEN "processing"
    ELSE IF inbox[i] # 0 THEN "inbox"
    ELSE IF failed[i] # {} THEN "failed"
    ELSE "absent"

\* ticketInFlight
\* Mutant: nobody looks for the ticket of an earlier sweep.
InFlightNever(i) == FALSE
InFlight(i) == inbox[i] # 0 \/ running[i] # 0

Made(text) == ran' = ran \cup {text}

\* The worker claims a ticket; the reporter marks the issue unless the ticket is
\* a planning ticket or a child of a set.
Claim(i) ==
    /\ inbox[i] # 0 /\ running[i] = 0
    /\ inbox' = [inbox EXCEPT ![i] = 0]
    /\ running' = [running EXCEPT ![i] = inbox[i]]
    /\ IF i = Exec THEN GuardedLabels({"working"}, {"queued"})
       ELSE UNCHANGED <<labels, parked, excused, troubles>>
    /\ UNCHANGED <<done, failed, body, comment, form, plan, vouched, approved, approval,
                   shown, ran, cycle>>

Leave(i, ok) ==
    /\ running' = [running EXCEPT ![i] = 0]
    /\ done' = IF ok THEN done \cup {i} ELSE done
    /\ failed' = IF ok THEN failed ELSE [failed EXCEPT ![i] = @ \cup {<<running[i], 0>>}]
    /\ UNCHANGED inbox

\* onFinal of the issue's own ticket: the outcome's label.
FinishExec(ok) ==
    /\ running[Exec] # 0 /\ Leave(Exec, ok)
    /\ GuardedLabels({IF ok THEN "done" ELSE "failed"}, {"working"})
    /\ UNCHANGED <<body, comment, form, plan, vouched, approved, approval, shown, ran, cycle>>

\* onFinal of a planning ticket: the plan comment, then the label that asks for
\* its review; without a usable plan the failed label.
FinishPlanning ==
    /\ running[Planning] # 0
    /\ \/ \E f \in Planned \ {"prose"}, p \in SetPlans :
            /\ f # "set" => p = {}
            /\ NewComment(f, p) /\ Leave(Planning, TRUE)
            /\ GuardedLabels({"plan-ready"}, {"planning"})
       \/ /\ "prose" \in Planned /\ Leave(Planning, TRUE)
          /\ GuardedLabels({"failed"}, {"planning"})
          /\ UNCHANGED <<comment, form, plan, shown>>
    /\ UNCHANGED <<body, vouched, approved, approval, ran, cycle>>

\* The plan comment itself is parked, and with it the label change behind it.
FinishPlanningOffline ==
    /\ running[Planning] # 0 /\ Fault /\ Leave(Planning, TRUE)
    /\ \E f \in Planned \ {"prose"}, p \in SetPlans :
         /\ f # "set" => p = {}
         /\ parked' = parked \o <<CommentOp(f, p), LabelsOp({"plan-ready"}, {"planning"})>>
    /\ UNCHANGED <<githubVars, historyVars>>

\* A child of a plan set ends; the reporter leaves the issue to the sweep.
FinishChild(t, ok) ==
    /\ running[t] # 0 /\ Leave(t, ok) /\ (IF ok THEN NoFault ELSE Fault)
    /\ UNCHANGED <<githubVars, parked, historyVars>>

----------------------------------------------------------------------------
(* People.                                                                 *)

ByPeople == UNCHANGED <<queueVars, parked, approval, ran>>
Gesture == Fault /\ ByPeople

ApplyTrigger(writer) ==
    /\ Gesture /\ "trigger" \notin labels
    /\ labels' = labels \cup {"trigger"}
    /\ vouched' = [text |-> body, writer |-> writer]
    /\ shown' = IF writer THEN shown \cup {body} ELSE shown
    /\ UNCHANGED <<body, comment, form, plan, approved, cycle, excused>>

Approve(writer) ==
    /\ approval /\ "approved" \notin labels /\ comment # 0
    /\ ByPeople /\ (IF writer THEN NoFault ELSE Fault)
    /\ labels' = labels \cup {"approved"}
    /\ approved' = [text |-> comment, writer |-> writer]
    /\ shown' = IF writer THEN shown \cup {comment} ELSE shown
    /\ UNCHANGED <<body, comment, form, plan, vouched, cycle, excused>>

EditBody ==
    /\ Gesture
    /\ \E p \in SetPlans : NewText(form[body], p)
    /\ body' = Texts + 1
    /\ UNCHANGED <<labels, comment, vouched, approved, shown, cycle, excused>>

EditComment ==
    /\ Gesture /\ comment # 0
    /\ \E p \in SetPlans : NewComment(form[comment], p)
    /\ UNCHANGED <<labels, body, vouched, approved, cycle, excused>>

\* Taking a label off: the trigger to label again, a lifecycle label to have the
\* issue dispatched again.
RemoveLabel(l) ==
    /\ Gesture /\ l \in labels
    /\ labels' = labels \ {l}
    /\ cycle' = IF l \in Lifecycle THEN 0 ELSE cycle
    /\ excused' = IF l \in Lifecycle THEN excused \cup {"meddled"} ELSE excused
    /\ UNCHANGED <<body, comment, form, plan, vouched, approved, shown>>

\* junco retry: an execution failure goes back to the inbox.
Retry(i) ==
    /\ Fault /\ inbox[i] = 0
    /\ \E n \in Text : /\ <<n, 0>> \in failed[i]
                       /\ inbox' = [inbox EXCEPT ![i] = n]
                       /\ failed' = [failed EXCEPT ![i] = @ \ {<<n, 0>>}]
    /\ excused' = excused \cup {"retried"}
    /\ UNCHANGED <<githubVars, running, done, parked, shown, ran, cycle>>

People ==
    \/ \E w \in BOOLEAN : ApplyTrigger(w) \/ Approve(w)
    \/ EditBody \/ EditComment
    \/ \E l \in {"trigger", "approved", "failed", "plan-ready"} : RemoveLabel(l)
    \/ \E i \in Ids : Retry(i)

Worker ==
    \/ \E i \in Ids : Claim(i)
    \/ \E ok \in BOOLEAN : FinishExec(ok) \/ \E t \in Task : FinishChild(t, ok)
    \/ FinishPlanning \/ FinishPlanningOffline
=============================================================================
