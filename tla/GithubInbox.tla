----------------------------- MODULE GithubInbox -----------------------------
(***************************************************************************)
(* The GitHub bridge (githubInbox.ts): sweeps that replay the outbox, list *)
(* the issues with the trigger label, turn the one looked at into a ticket *)
(* or a plan set through one of its doors, mark it, and then maintain the  *)
(* plan sets (PlanSets). The issue is read once, at the start; the label   *)
(* events, the last edit and the comment are fetched later, one call each, *)
(* while people and the worker go on.                                      *)
(***************************************************************************)
EXTENDS PlanSets

Init == InitIssue /\ InitSweep

\* Labels of an issue that was dispatched, and of one that is not looked at.
Dispatched(ls) == ls \cap {"queued", "working", "done", "failed"} # {}
IsEligible(ls) == "trigger" \in ls /\ ls \cap Lifecycle = {}

\* labelSwapArgs: what leaves plan-ready loses its approval with it.
OutOfReview == {"plan-ready"} \cup (IF approval THEN {"approved"} ELSE {})

\* The look at the issue is over; the maintenance of the plan sets is next.
LookedAt == Goto("maintain") /\ seen' = {} /\ held' = 0 /\ asOf' = 0 /\ UNCHANGED mem
GiveUp == LookedAt /\ UNCHANGED <<issueVars, setVars>>
GiveUpFailed ==
    LookedAt /\ Fault /\ UNCHANGED <<githubVars, queueVars, parked, historyVars, setVars>>

----------------------------------------------------------------------------
(* The start of a sweep.                                                   *)

Flush ==
    /\ at = "idle" /\ parked # <<>> /\ Goto("list")
    /\ \E k \in 0 .. Len(parked) :
         Replay(k) /\ IF k = Len(parked) THEN NoFault ELSE Fault
    /\ UNCHANGED <<seen, held, asOf, mem, setVars, body, vouched, approved, approval, queueVars,
                   ran, cycle, excused>>

List ==
    /\ at = "list" \/ (at = "idle" /\ parked = <<>>)
    /\ \/ GiveUpFailed
       \/ "trigger" \notin labels /\ GiveUp
       \/ /\ "trigger" \in labels
          /\ IF "plan-ready" \in labels \/ IsEligible(labels)
             THEN /\ seen' = labels \cap {"plan-ready", "approved"} /\ held' = body
                  /\ Goto(IF "plan-ready" \notin labels THEN "verify"
                          ELSE IF Dispatched(labels) THEN "cleanup" ELSE "comment")
                  /\ UNCHANGED <<asOf, mem>>
             ELSE LookedAt
          /\ UNCHANGED <<issueVars, setVars>>

----------------------------------------------------------------------------
(* The plan-ready door.                                                    *)

\* A label change of its own, whose failure only ends the look at the issue.
ChangeLabels(add, remove) ==
    /\ \E ok \in BOOLEAN : EditLabels(add, remove, ok)
    /\ LookedAt
    /\ UNCHANGED <<setVars, body, comment, form, plan, vouched, approved,
                   approval, queueVars, parked, historyVars>>

\* Dispatched before, and the change that should have taken plan-ready off lost.
Cleanup == at = "cleanup" /\ ChangeLabels({}, OutOfReview)

\* findOwnPlanComment; without the approved label among those listed, the plan
\* waits for its review.
FindComment ==
    /\ at = "comment"
    /\ \/ GiveUpFailed
       \/ (comment = 0 \/ (approval /\ "approved" \notin seen)) /\ GiveUp
       \/ /\ comment # 0 /\ (approval => "approved" \in seen)
          /\ held' = comment
          /\ Goto(IF approval THEN "approve" ELSE "submit")
          /\ UNCHANGED <<seen, asOf, mem, issueVars, setVars>>

\* The last approval is by a writer and younger than the comment's last edit.
VerifyApproval ==
    /\ at = "approve"
    /\ \/ GiveUpFailed
       \/ ~(approved.writer /\ approved.text >= held) /\ GiveUp
       \/ /\ approved.writer /\ approved.text >= held
          /\ Goto("submit") /\ NoteRace(comment)
          /\ UNCHANGED <<seen, held, asOf, mem, githubVars, queueVars, parked, shown, ran, cycle,
                         troubles, setVars>>

----------------------------------------------------------------------------
(* The doors behind the trigger label.                                     *)

\* verifyLabelApplier of the trigger label; a label by someone without write
\* access is answered with denied.
VerifyTrigger ==
    /\ at = "verify"
    /\ \/ GiveUpFailed
       \/ ~vouched.writer /\ Skip("deny")
       \/ /\ vouched.writer
          /\ Goto("vouch") /\ asOf' = vouched.text /\ NoteRace(body)
          /\ UNCHANGED <<seen, held, mem, githubVars, queueVars, parked, shown, ran, cycle,
                         troubles, setVars>>

Deny == at = "deny" /\ ChangeLabels({"denied"}, {})

\* Mutant: the time of the last edit is not asked for.
VerifyUneditedNot == at = "vouch" /\ (GiveUpFailed \/ Skip("submit"))
\* fetchIssueLastEdited: an edit after the label is not dispatched.
VerifyUnedited ==
    /\ at = "vouch"
    /\ \/ GiveUpFailed
       \/ body > asOf /\ GiveUp
       \/ body <= asOf /\ Skip("submit")

----------------------------------------------------------------------------
(* Dispatch: submit, then mark.                                            *)

Reviewed == "plan-ready" \in seen

\* The ticket a text becomes; a planner is asked about prose.
TicketOf(text) == IF form[text] = "prose" THEN Planning ELSE Exec

\* A ticket in flight is not submitted again; a crash or a lost label change
\* made the bridge look twice.
SubmitTicket ==
    /\ at = "submit" /\ form[held] # "set"
    /\ Goto("mark")
    /\ LET i == TicketOf(held)
       IN IF InFlight(i) THEN UNCHANGED <<inbox, ran, cycle>>
          ELSE /\ Submit({i}, held)
               /\ cycle' = IF i = Exec THEN cycle + 1 ELSE cycle
    /\ excused' = IF Dispatched(labels) \/ \E k \in 1 .. Len(parked) : Dispatched(parked[k].add)
                  THEN excused \cup {"stale"} ELSE excused
    /\ UNCHANGED <<seen, held, asOf, mem, setVars, githubVars, running, done, failed,
                   parked, shown, troubles>>

\* A set with a child whose submit threw keeps plan-ready; through the issue
\* body it is marked all the same.
SubmitSet ==
    /\ at = "submit" /\ form[held] = "set" /\ Compiles(held)
    /\ \E stranded \in SUBSET plan[held] :
         /\ DispatchSet(held, stranded)
         /\ IF Reviewed /\ stranded # {} THEN LookedAt
            ELSE Goto("mark") /\ UNCHANGED <<seen, held, asOf, mem>>
    /\ UNCHANGED <<githubVars, parked, shown, cycle>>

\* A set that does not compile: the failed label first, as it ends the retries.
RefuseSet ==
    /\ at = "submit" /\ form[held] = "set" /\ ~Compiles(held)
    /\ GuardedLabels({"failed"}, IF Reviewed THEN OutOfReview ELSE {})
    /\ LookedAt
    /\ UNCHANGED <<setVars, body, comment, form, plan, vouched, approved,
                   approval, queueVars, shown, ran, cycle>>

Mark ==
    /\ at = "mark"
    /\ IF Reviewed THEN ChangeLabels({"queued"}, OutOfReview)
       ELSE ChangeLabels({IF form[held] = "prose" THEN "planning" ELSE "queued"}, {})

----------------------------------------------------------------------------
(* The daemon.                                                             *)

\* It dies, also inside a fan-out or a supersede; what it knew is gone.
Die ==
    /\ at # "down" /\ Fault
    /\ Goto("down") /\ seen' = {} /\ held' = 0 /\ asOf' = 0 /\ mem' = NoRecord
    /\ \/ UNCHANGED <<queueVars, historyVars, setVars>>
       \/ /\ at = "submit" /\ form[held] = "set" /\ Compiles(held)
          /\ DispatchSetCut(held) /\ UNCHANGED <<shown, cycle>>
       \/ ReplaceCut /\ UNCHANGED <<running, done, shown, cycle>>
    /\ UNCHANGED <<githubVars, parked>>

\* Started again, it puts what was running back into the inbox.
Restart ==
    /\ at = "down" /\ Goto("idle")
    /\ inbox' = [i \in Ids |-> IF inbox[i] = 0 THEN running[i] ELSE inbox[i]]
    /\ running' = [i \in Ids |-> IF inbox[i] = 0 THEN 0 ELSE running[i]]
    /\ UNCHANGED <<seen, held, asOf, mem, setVars, githubVars, done, failed, parked,
                   historyVars, troubles>>

Sweep ==
    Flush \/ List \/ Cleanup \/ FindComment \/ VerifyApproval \/ VerifyTrigger \/ Deny
        \/ VerifyUnedited \/ SubmitTicket \/ SubmitSet \/ RefuseSet \/ Mark \/ Maintain

Next ==
    \/ Sweep
    \/ at # "down" /\ Worker /\ UNCHANGED <<sweepVars, setVars>>
    \/ People /\ UNCHANGED <<sweepVars, setVars>>
    \/ Die \/ Restart

Fairness ==
    /\ WF_vars(Sweep \/ Restart)
    /\ \A i \in Ids : WF_vars(at # "down" /\ Claim(i) /\ UNCHANGED <<sweepVars, setVars>>)
    /\ WF_vars(\E ok \in BOOLEAN : FinishExec(ok) /\ UNCHANGED <<sweepVars, setVars>>)
    /\ WF_vars(FinishPlanning /\ UNCHANGED <<sweepVars, setVars>>)
    /\ \A t \in Task : WF_vars(\E ok \in BOOLEAN : FinishChild(t, ok)
                                                  /\ UNCHANGED <<sweepVars, setVars>>)

Spec == Init /\ [][Next]_vars /\ Fairness

----------------------------------------------------------------------------
(* Properties.                                                             *)

TypeOK ==
    /\ labels \subseteq Labels /\ body \in Text /\ comment \in Text
    /\ inbox \in [Ids -> Text] /\ running \in [Ids -> Text] /\ done \subseteq Ids
    /\ rec \in Record /\ mem \in Record /\ planMd \in Text
    /\ held \in Text /\ asOf \in Text

\* No text reaches a ticket unless somebody with write access labelled the issue,
\* or approved the plan, while that very text was shown: neither an edit after
\* the label, nor a supersede, nor the resubmission of a stranded child brings
\* in another. Not promised for an edit and a second label that both fall
\* between the two calls that read the text and the label event.
OnlyApprovedTextRuns == ran \subseteq shown \/ "raced" \in excused

\* The issue's own ticket is put into the queue once per lifecycle, however
\* often the bridge looks at the issue again after a lost label change or a
\* crash, unless the outcome's label was refused by GitHub or came after the
\* list of issues was read.
DispatchedOnce == cycle > 1 => excused \cap {"refused", "stale"} # {}

\* What the bridge puts into the queue is approved text, and once per lifecycle.
OneApprovedDispatch == OnlyApprovedTextRuns /\ DispatchedOnce

\* A recorded plan set never loses a child: each has a file in the queue or is
\* listed as stranded, whatever submits threw and wherever the plan was
\* replaced, unless the daemon died inside a fan-out. A replacement cut off by a
\* crash leaves the new plan's text beside the old record, and a stranded child
\* which that text leaves out is given up.
NoChildLost ==
    \A t \in rec.tasks : \/ State(t) # "absent"
                         \/ t \in rec.pending
                         \/ "cut" \in excused /\ t \notin plan[planMd]
                         \/ "torn" \in excused

\* Once the record names a plan, the children that wait for a worker are that
\* plan's, made from its text: what an approved edit replaced does not run, a
\* child the new plan leaves out included. Not promised when the replacement
\* was cut off by a crash, when somebody retries an old child, and when the
\* door that reviews plans dispatches again because its label change was lost.
OldPlanStops ==
    rec # NoRecord =>
        \A t \in Task : \/ inbox[t] = 0
                        \/ t \in rec.tasks /\ inbox[t] = rec.plan
                        \/ excused \cap {"retried", "cut", "redispatched", "torn"} # {}

\* The children of a recorded set are what its present plan made of them: none
\* is lost, and none of an earlier plan still waits.
ChildrenFollowThePlan == TypeOK /\ NoChildLost /\ OldPlanStops

\* Every plan set is closed in the end, with its outcome on the issue when no
\* call was refused, unless an edit that does not compile keeps it open.
SetsSettle ==
    <>[](\/ rec = NoRecord \/ rec.lastFailed # 0 \/ "torn" \in excused
         \/ rec.closed /\ (\/ rec.label \in labels
                           \/ excused \cap {"meddled", "refused", "overtaken"} # {}))

\* An issue with a writer's label on its present text does not stay unanswered:
\* it gets a lifecycle label however many calls failed on the way.
IssueAnswered ==
    <>[](\/ "trigger" \notin labels \/ ~vouched.writer \/ body > vouched.text
         \/ labels \cap Lifecycle # {} \/ excused \cap {"meddled", "refused", "overtaken"} # {})

\* The bridge leaves nothing open for ever: sets are closed and issues answered.
BridgeSettles == SetsSettle /\ IssueAnswered
=============================================================================
