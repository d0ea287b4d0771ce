----------------------------- MODULE ReviewQueue -----------------------------
(***************************************************************************)
(* Both review queues. Nothing leaves them without a person's word; they   *)
(* share the store's code and the outbox, but no file: an op of one never  *)
(* delays or changes one of the other, so a behaviour works on one of them *)
(* and leaves the other at rest.                                           *)
(***************************************************************************)
EXTENDS AuditReview, DraftReview

CONSTANT Kinds  \* the queues a run looks at

ASSUME ReviewQueueAssumption == Kinds \subseteq {"audit", "draft"} /\ Kinds # {}

VARIABLE kind

vars == <<auditVars, draftVars, kind>>

Init == AuditInit /\ DraftInit /\ kind \in Kinds

Next ==
    \/ kind = "audit" /\ AuditNext /\ UNCHANGED <<draftVars, kind>>
    \/ kind = "draft" /\ DraftNext /\ UNCHANGED <<auditVars, kind>>

\* A process goes on with what it awaits, and the daemon sweeps the outbox on
\* every tick. Nobody has to start, edit, post or discard anything.
Fairness ==
    /\ WF_vars(FlushStep /\ UNCHANGED <<draftVars, kind>>)
    /\ WF_vars(ReplayStep /\ UNCHANGED <<auditVars, kind>>)

Spec == Init /\ [][Next]_vars /\ Fairness
-----------------------------------------------------------------------------
TypeOK == AuditTypeOK /\ DraftTypeOK

\* What people confirm reaches GitHub once (AuditReview, DraftReview).
FiledOnce == TypeOK /\ OneIssueEach /\ OneCommentEach

\* What the queues say of a finding or of a comment is true (AuditReview, DraftReview).
AccountsAreTrue == StampsAreTrue /\ PostedWasSent

\* What waits for review changes only as its reader was told (AuditReview, DraftReview).
ReviewStands == [][BatchStands /\ DraftStands]_vars

\* Whatever was queued while GitHub was unreachable is sent or given up.
ReviewSettles == StampsSettle /\ CommentsSettle
=============================================================================
