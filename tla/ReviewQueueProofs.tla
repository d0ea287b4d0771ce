-------------------------- MODULE ReviewQueueProofs --------------------------
(***************************************************************************)
(* What the review queues promise, proved for every set of findings and    *)
(* processes and every bound: what people confirm reaches GitHub once, what *)
(* the queues say of it is true, and nothing leaves them unasked.          *)
(*                                                                         *)
(* A step of one queue leaves the other at rest, so each has an inductive  *)
(* invariant of its own: AuditInv (the first half of the module) and       *)
(* DraftInv (the second).                                                  *)
(***************************************************************************)
EXTENDS ReviewQueue, TLAPS

----------------------------------------------------------------------------
(* The shape of the audit queue's state.                                   *)

AuditRecord == [at : {"idle", "dedup", "park"}, left : SUBSET Findings]
PassRecord == [at : {"idle", "scan", "file"}, base : Batch, todo : SUBSET Findings,
               seen : SUBSET Findings, filed : [Findings -> Stamps], stamped : BOOLEAN]
FlushRecord == [at : {"idle", "scan", "create"}, op : Op \cup {NoOp}, todo : SUBSET Op]

AuditShape ==
    /\ batch \in Batch /\ audit \in AuditRecord
    /\ pass \in [Passes -> PassRecord]
    /\ ops \subseteq Op /\ dead \subseteq Findings
    /\ flush \in FlushRecord /\ (flush.at # "idle" => flush.op \in Op)
    /\ issues \in [Findings -> Nat]
    /\ used \in [DOMAIN Bound -> Nat]
    /\ raced \subseteq Findings /\ late \subseteq Findings

LEMMA ShapeIsTypeOK == AuditShape => AuditTypeOK
  <1> SUFFICES ASSUME AuditShape PROVE AuditTypeOK
    OBVIOUS
  <1>1. ASSUME NEW p \in Passes
        PROVE  /\ pass[p].at \in {"idle", "scan", "file"}
               /\ pass[p].base \in Batch /\ pass[p].filed \in [Findings -> Stamps]
               /\ pass[p].todo \subseteq Findings /\ pass[p].stamped \in BOOLEAN
    <2>1. pass[p] \in PassRecord
      BY DEF AuditShape
    <2> QED
      BY <2>1 DEF PassRecord
  <1>2. flush.todo \subseteq Op /\ flush.at \in {"idle", "scan", "create"}
    BY DEF AuditShape, FlushRecord
  <1>3. audit.at \in {"idle", "dedup", "park"}
    BY DEF AuditShape, AuditRecord
  <1> QED
    BY <1>1, <1>2, <1>3 DEF AuditShape, AuditTypeOK

LEMMA RestShapes ==
    /\ IdleAudit \in AuditRecord
    /\ NoBatch \in Batch /\ NoBatch.findings = {} /\ NoBatch.filed = Unstamped
    /\ Unstamped \in [Findings -> Stamps]
    /\ IdlePass \in PassRecord /\ IdleFlush \in FlushRecord
  <1>1. Unstamped \in [Findings -> Stamps]
    BY DEF Unstamped, Stamps
  <1>2. NoBatch \in Batch /\ NoBatch.findings = {} /\ NoBatch.filed = Unstamped
    BY <1>1 DEF NoBatch, Batch
  <1>3. IdlePass \in PassRecord
    BY <1>1, <1>2 DEF IdlePass, PassRecord
  <1>4. IdleFlush \in FlushRecord
    BY DEF IdleFlush, FlushRecord
  <1>5. IdleAudit \in AuditRecord
    BY DEF IdleAudit, AuditRecord
  <1> QED
    BY <1>1, <1>2, <1>3, <1>4, <1>5

LEMMA AuditInitShape == AuditInit => AuditShape
  <1> SUFFICES ASSUME AuditInit PROVE AuditShape
    OBVIOUS
  <1>1. used \in [DOMAIN Bound -> Nat] /\ issues \in [Findings -> Nat]
    BY DEF AuditInit
  <1>2. pass \in [Passes -> PassRecord]
    BY RestShapes DEF AuditInit
  <1>3. flush \in FlushRecord /\ flush.at = "idle"
    BY RestShapes DEF AuditInit, IdleFlush
  <1> QED
    BY <1>1, <1>2, <1>3, RestShapes DEF AuditInit, AuditShape

\* The bounds stay bounds.
LEMMA UseCounts ==
    ASSUME AuditShape, NEW b \in DOMAIN Bound, Use(b)
    PROVE  used' \in [DOMAIN Bound -> Nat]
  BY DEF AuditShape, Use

LEMMA Bounds == {"audits", "filings", "mishaps"} = DOMAIN Bound
  BY DEF Bound

LEMMA UsesCount ==
    ASSUME AuditShape,
           UNCHANGED used \/ Use("mishaps") \/ Use("audits") \/ Use("filings")
    PROVE  used' \in [DOMAIN Bound -> Nat]
  <1>1. CASE UNCHANGED used
    BY <1>1 DEF AuditShape
  <1>2. CASE Use("mishaps")
    BY <1>2, UseCounts, Bounds
  <1>3. CASE Use("audits")
    BY <1>3, UseCounts, Bounds
  <1>4. CASE Use("filings")
    BY <1>4, UseCounts, Bounds
  <1> QED
    BY <1>1, <1>2, <1>3, <1>4

\* The next op listed has its turn, or the flush is over.
LEMMA TurnShape ==
    ASSUME NEW listed \in SUBSET Op, Turn(listed)
    PROVE  flush' \in FlushRecord /\ flush'.at = "scan" /\ flush'.op \in Op
  <1>1. PICK op \in listed : flush' = [at |-> "scan", op |-> op, todo |-> listed \ {op}]
    BY DEF Turn
  <1> QED
    BY <1>1 DEF FlushRecord

LEMMA RestShape ==
    ASSUME AuditShape, Rest
    PROVE  flush' \in FlushRecord /\ flush'.at \in {"idle", "scan"}
           /\ (flush'.at # "idle" => flush'.op \in Op)
  <1>1. flush.todo \in SUBSET Op
    BY DEF AuditShape, FlushRecord
  <1>2. CASE Turn(flush.todo)
    BY <1>1, <1>2, TurnShape
  <1>3. CASE flush' = IdleFlush
    BY <1>3, RestShapes DEF IdleFlush
  <1> QED
    BY <1>2, <1>3 DEF Rest

\* What a refusal does: every op that was queued is still queued, or its
\* finding is dead-lettered.
LEMMA AttemptedEffect ==
    ASSUME AuditShape, flush.at # "idle", Attempted
    PROVE  /\ UNCHANGED <<batch, late, used>>
           /\ ops' \subseteq Op /\ dead \subseteq dead' /\ dead' \subseteq Findings
           /\ flush' \in FlushRecord /\ flush'.at \in {"idle", "scan"}
           /\ flush'.at # "idle" => flush'.op \in Op
           /\ \A f \in Findings : Queued(f) => Queued(f)' \/ f \in dead'
  <1> DEFINE op == flush.op
             again == [op EXCEPT !.attempts = @ + 1]
  <1>1. op \in Op /\ op.f \in Findings /\ op.attempts \in 0 .. MaxAttempts - 1
    BY DEF AuditShape, Op
  <1>2. again.f = op.f /\ again.attempts = op.attempts + 1
    BY <1>1 DEF Op
  <1>3. again.attempts < MaxAttempts => again \in Op
    BY <1>1, <1>2, AuditReviewAssumption DEF Op
  <1>4. ops' = (ops \ {op}) \cup (IF again.attempts < MaxAttempts THEN {again} ELSE {})
    BY DEF Attempted
  <1>5. dead' = IF again.attempts >= MaxAttempts /\ op \in ops THEN dead \cup {op.f} ELSE dead
    BY DEF Attempted
  <1>6. again.attempts < MaxAttempts \/ again.attempts >= MaxAttempts
    BY <1>1, <1>2, AuditReviewAssumption
  <1> HIDE DEF op, again
  <1>7. ops' \subseteq Op
    BY <1>3, <1>4 DEF AuditShape
  <1>8. dead \subseteq dead' /\ dead' \subseteq Findings
    BY <1>1, <1>5 DEF AuditShape
  <1>9. ASSUME NEW f \in Findings, Queued(f)
        PROVE  Queued(f)' \/ f \in dead'
    <2>1. PICK o \in ops : o.f = f
      BY <1>9 DEF Queued
    <2>2. CASE o # op
      <3>1. o \in ops'
        BY <2>1, <2>2, <1>4
      <3> QED
        BY <3>1, <2>1 DEF Queued
    <2>3. CASE o = op /\ again.attempts < MaxAttempts
      <3>1. again \in ops' /\ again.f = f
        BY <2>1, <2>3, <1>2, <1>4
      <3> QED
        BY <3>1 DEF Queued
    <2>4. CASE o = op /\ again.attempts >= MaxAttempts
      BY <2>1, <2>4, <1>5
    <2> QED
      BY <2>2, <2>3, <2>4, <1>6
  <1>10. Rest /\ UNCHANGED <<batch, late, used>>
    BY DEF Attempted
  <1>11. /\ flush' \in FlushRecord /\ flush'.at \in {"idle", "scan"}
         /\ flush'.at # "idle" => flush'.op \in Op
    BY <1>10, RestShape
  <1> QED
    BY <1>7, <1>8, <1>9, <1>10, <1>11

\* What a replay that ends does: the stamps that waited for it learn of it.
LEMMA SentEffect ==
    ASSUME AuditShape, flush.at # "idle", NEW stamp \in {"created", "deduped"}, Sent(stamp)
    PROVE  /\ batch' \in Batch /\ batch'.findings = batch.findings
           /\ \A f \in Findings :
                 \/ batch'.filed[f] = batch.filed[f] /\ (f = flush.op.f => batch.filed[f] # "queued")
                 \/ f = flush.op.f /\ batch.filed[f] = "queued" /\ batch'.filed[f] = stamp
           /\ (batch = NoBatch => batch' = NoBatch)
           /\ ops' \subseteq ops /\ UNCHANGED dead
           /\ late \subseteq late' /\ late' \subseteq Findings
           /\ flush' \in FlushRecord /\ flush'.at \in {"idle", "scan"}
           /\ flush'.at # "idle" => flush'.op \in Op
           /\ flush.op.f \in Findings
           /\ \A f \in Findings : Queued(f) => Queued(f)' \/ f = flush.op.f
           /\ \A p \in Passes : pass[p].filed[flush.op.f] = "queued" => flush.op.f \in late'
  <1> DEFINE e == flush.op.f
  <1>1. flush.op \in Op /\ e \in Findings
    BY DEF AuditShape, Op
  <1>2. Rest /\ UNCHANGED dead /\ ops' = ops \ {flush.op}
    BY DEF Sent
  <1>3. late' = IF \E p \in Passes : pass[p].filed[e] = "queued" THEN late \cup {e} ELSE late
    BY DEF Sent
  <1>4. batch' = IF batch.filed[e] = "queued" THEN [batch EXCEPT !.filed[e] = stamp] ELSE batch
    BY DEF Sent, Upgrade
  <1> HIDE DEF e
  <1>5. batch \in Batch /\ batch.filed \in [Findings -> Stamps] /\ batch.findings \subseteq Findings
    BY DEF AuditShape, Batch
  <1>6. batch.filed[e] = "queued" =>
           batch' = [findings |-> batch.findings, filed |-> [batch.filed EXCEPT ![e] = stamp]]
    BY <1>4, <1>5 DEF Batch
  <1>7. [batch.filed EXCEPT ![e] = stamp] \in [Findings -> Stamps]
    BY <1>5 DEF Stamps
  <1>8. batch' \in Batch /\ batch'.findings = batch.findings
    BY <1>4, <1>5, <1>6, <1>7 DEF Batch
  <1>9. ASSUME NEW f \in Findings
        PROVE  \/ batch'.filed[f] = batch.filed[f] /\ (f = e => batch.filed[f] # "queued")
               \/ f = e /\ batch.filed[f] = "queued" /\ batch'.filed[f] = stamp
    <2>1. CASE batch.filed[e] = "queued"
      <3>1. batch'.filed = [batch.filed EXCEPT ![e] = stamp]
        BY <2>1, <1>6
      <3> QED
        BY <3>1, <2>1, <1>5, <1>1
    <2>2. CASE batch.filed[e] # "queued"
      BY <2>2, <1>4
    <2> QED
      BY <2>1, <2>2
  <1>10. batch = NoBatch => batch' = NoBatch
    BY <1>1, <1>4, RestShapes DEF Unstamped
  <1>11. ASSUME NEW f \in Findings, Queued(f)
         PROVE  Queued(f)' \/ f = e
    <2>1. PICK o \in ops : o.f = f
      BY <1>11 DEF Queued
    <2>2. CASE o = flush.op
      BY <2>1, <2>2 DEF e
    <2>3. CASE o # flush.op
      BY <2>1, <2>3, <1>2 DEF Queued
    <2> QED
      BY <2>2, <2>3
  <1>12. late \subseteq late' /\ late' \subseteq Findings
    BY <1>1, <1>3 DEF AuditShape
  <1>13. \A p \in Passes : pass[p].filed[e] = "queued" => e \in late'
    BY <1>3
  <1>14. /\ flush' \in FlushRecord /\ flush'.at \in {"idle", "scan"}
         /\ flush'.at # "idle" => flush'.op \in Op
    BY <1>2, RestShape
  <1> QED
    BY <1>1, <1>2, <1>8, <1>9, <1>10, <1>11, <1>12, <1>13, <1>14 DEF e

\* One pass changes, and stays a pass.
LEMMA PassSet ==
    ASSUME AuditShape, NEW p \in Passes, NEW r \in PassRecord, pass' = [pass EXCEPT ![p] = r]
    PROVE  /\ pass' \in [Passes -> PassRecord] /\ pass'[p] = r
           /\ \A q \in Passes \ {p} : pass'[q] = pass[q]
  BY DEF AuditShape

LEMMA PassAt ==
    ASSUME AuditShape, NEW p \in Passes
    PROVE  /\ pass[p] \in PassRecord
           /\ pass[p].base \in Batch /\ pass[p].todo \subseteq Findings
           /\ pass[p].filed \in [Findings -> Stamps] /\ pass[p].seen \subseteq Findings
  <1>1. pass[p] \in PassRecord
    BY DEF AuditShape
  <1> QED
    BY <1>1 DEF PassRecord

\* A finding of the pass is dealt with, and may be stamped.
LEMMA StampShape ==
    ASSUME AuditShape, NEW p \in Passes, NEW f \in Findings, NEW stamp \in Stamps,
           NEW st \in BOOLEAN,
           pass' = [pass EXCEPT ![p].todo = @ \ {f}, ![p].filed[f] = stamp, ![p].stamped = st]
    PROVE  /\ pass' \in [Passes -> PassRecord]
           /\ pass'[p] = [pass[p] EXCEPT !.todo = @ \ {f}, !.filed[f] = stamp, !.stamped = st]
           /\ \A q \in Passes \ {p} : pass'[q] = pass[q]
  <1> DEFINE r == [pass[p] EXCEPT !.todo = @ \ {f}, !.filed[f] = stamp, !.stamped = st]
  <1>1. pass[p] \in PassRecord
    BY DEF AuditShape
  <1>2. pass[p].filed \in [Findings -> Stamps] /\ pass[p].todo \subseteq Findings
    BY <1>1 DEF PassRecord
  <1>3. [pass[p].filed EXCEPT ![f] = stamp] \in [Findings -> Stamps]
    BY <1>2
  <1>4. r \in PassRecord
    BY <1>1, <1>2, <1>3 DEF PassRecord
  <1>5. pass' = [pass EXCEPT ![p] = r]
    BY DEF AuditShape
  <1> HIDE DEF r
  <1>6. /\ pass' \in [Passes -> PassRecord] /\ pass'[p] = r
        /\ \A q \in Passes \ {p} : pass'[q] = pass[q]
    BY <1>4, <1>5, PassSet
  <1> QED
    BY <1>6 DEF r

\* What one finding of a pass comes to.
LEMMA FileEffect ==
    ASSUME AuditShape, NEW p \in Passes, NEW f \in pass[p].todo,
           AlreadyFiled(p, f) \/ Create(p, f) \/ Enqueue(p, f) \/ Refused(p, f)
    PROVE  /\ pass' \in [Passes -> PassRecord]
           /\ \A q \in Passes \ {p} : pass'[q] = pass[q]
           /\ pass'[p].at = pass[p].at /\ pass'[p].base = pass[p].base
           /\ pass'[p].todo = pass[p].todo \ {f} /\ pass'[p].seen = pass[p].seen
           /\ f \in Findings
           /\ \A g \in Findings \ {f} : pass'[p].filed[g] = pass[p].filed[g]
           /\ AlreadyFiled(p, f) =>
                 pass'[p].filed[f] = IF pass[p].filed[f] = "none" THEN "deduped" ELSE pass[p].filed[f]
           /\ Create(p, f) => pass'[p].filed[f] = "created"
           /\ Enqueue(p, f) => pass'[p].filed[f] = "queued"
           /\ Refused(p, f) => pass'[p].filed[f] = pass[p].filed[f]
           /\ UNCHANGED used \/ Use("mishaps")
  <1> DEFINE kept == IF pass[p].filed[f] = "none" THEN "deduped" ELSE pass[p].filed[f]
             Filed(stamp) == /\ pass' \in [Passes -> PassRecord]
                             /\ \A q \in Passes \ {p} : pass'[q] = pass[q]
                             /\ pass'[p].at = pass[p].at /\ pass'[p].base = pass[p].base
                             /\ pass'[p].todo = pass[p].todo \ {f}
                             /\ pass'[p].seen = pass[p].seen
                             /\ \A g \in Findings \ {f} : pass'[p].filed[g] = pass[p].filed[g]
                             /\ pass'[p].filed[f] = stamp
  <1>1. pass[p] \in PassRecord /\ f \in Findings /\ pass[p].filed \in [Findings -> Stamps]
    BY PassAt
  <1>2. ASSUME NEW stamp \in Stamps, NEW st \in BOOLEAN,
               pass' = [pass EXCEPT ![p].todo = @ \ {f}, ![p].filed[f] = stamp, ![p].stamped = st]
        PROVE  Filed(stamp)
    <2>1. /\ pass' \in [Passes -> PassRecord]
          /\ pass'[p] = [pass[p] EXCEPT !.todo = @ \ {f}, !.filed[f] = stamp, !.stamped = st]
          /\ \A q \in Passes \ {p} : pass'[q] = pass[q]
      BY <1>1, <1>2, StampShape
    <2>2. /\ pass'[p].at = pass[p].at /\ pass'[p].base = pass[p].base
          /\ pass'[p].todo = pass[p].todo \ {f} /\ pass'[p].seen = pass[p].seen
          /\ pass'[p].filed = [pass[p].filed EXCEPT ![f] = stamp]
      BY <1>1, <2>1 DEF PassRecord
    <2> QED
      BY <1>1, <2>1, <2>2
  <1>3. ASSUME AlreadyFiled(p, f) PROVE Filed(kept) /\ UNCHANGED used
    <2> DEFINE st == pass[p].stamped \/ kept # pass[p].filed[f]
    <2>1. kept \in Stamps
      BY <1>1 DEF Stamps
    <2>2. st \in BOOLEAN
      OBVIOUS
    <2>3. Done(p, f, kept) /\ UNCHANGED used
      BY <1>3 DEF AlreadyFiled
    <2>4. pass' = [pass EXCEPT ![p].todo = @ \ {f}, ![p].filed[f] = kept, ![p].stamped = st]
      BY <2>3 DEF Done, AuditShape
    <2> HIDE DEF st, kept, Filed
    <2> QED
      BY <1>2, <2>1, <2>2, <2>3, <2>4
  <1>4. ASSUME Create(p, f) PROVE Filed("created") /\ UNCHANGED used
    <2>1. pass' = [pass EXCEPT ![p].todo = @ \ {f}, ![p].filed[f] = "created", ![p].stamped = TRUE]
          /\ UNCHANGED used
      BY <1>4 DEF Create
    <2> HIDE DEF Filed
    <2> QED
      BY <1>2, <2>1 DEF Stamps
  <1>5. ASSUME Enqueue(p, f) PROVE Filed("queued") /\ Use("mishaps")
    <2>1. pass' = [pass EXCEPT ![p].todo = @ \ {f}, ![p].filed[f] = "queued", ![p].stamped = TRUE]
          /\ Use("mishaps")
      BY <1>5 DEF Enqueue
    <2> HIDE DEF Filed
    <2> QED
      BY <1>2, <2>1 DEF Stamps
  <1>6. ASSUME Refused(p, f) PROVE Filed(pass[p].filed[f]) /\ Use("mishaps")
    <2> DEFINE r == [pass[p] EXCEPT !.todo = @ \ {f}]
    <2>1. pass' = [pass EXCEPT ![p] = r] /\ Use("mishaps")
      BY <1>6 DEF Refused, AuditShape
    <2>2. /\ r \in PassRecord /\ r.at = pass[p].at /\ r.base = pass[p].base
          /\ r.todo = pass[p].todo \ {f} /\ r.seen = pass[p].seen /\ r.filed = pass[p].filed
      BY <1>1 DEF PassRecord
    <2> HIDE DEF r
    <2> QED
      BY <2>1, <2>2, PassSet
  <1> QED
    BY <1>1, <1>3, <1>4, <1>5, <1>6

\* Every step of the audit queue keeps the shape.
LEMMA ShapeKept == AuditShape /\ AuditNext => AuditShape'
  <1> SUFFICES ASSUME AuditShape, AuditNext PROVE AuditShape'
    OBVIOUS
  <1>0. /\ batch \in Batch /\ audit \in AuditRecord
        /\ pass \in [Passes -> PassRecord]
        /\ ops \subseteq Op /\ dead \subseteq Findings
        /\ flush \in FlushRecord /\ (flush.at # "idle" => flush.op \in Op)
        /\ issues \in [Findings -> Nat]
        /\ used \in [DOMAIN Bound -> Nat]
        /\ raced \subseteq Findings /\ late \subseteq Findings
    BY DEF AuditShape
  <1>f. ASSUME NEW f \in Findings, OpenIssue(f) PROVE issues' \in [Findings -> Nat]
    BY <1>0, <1>f DEF OpenIssue
  <1>r. ASSUME NEW f \in Findings, NEW b \in BOOLEAN, NoteRace(f, b) PROVE raced' \subseteq Findings
    BY <1>0, <1>r DEF NoteRace
  <1>1. CASE Audit
    <2>1. PICK found \in Reports : audit' = [at |-> "dedup", left |-> found]
      BY <1>1 DEF Audit
    <2>2. audit' \in AuditRecord
      BY <2>1, AuditReviewAssumption DEF AuditRecord
    <2>3. used' \in [DOMAIN Bound -> Nat]
      BY <1>1, UsesCount DEF Audit
    <2> QED
      BY <1>0, <1>1, <2>2, <2>3 DEF Audit, AuditShape
  <1>2. CASE Dedup
    <2>1. audit' \in AuditRecord
      <3>1. audit' = [at |-> "park", left |-> audit.left \ Markers]
            \/ audit' = [audit EXCEPT !.at = "park"] \/ audit' = IdleAudit
        BY <1>2 DEF Dedup
      <3> QED
        BY <1>0, <3>1, RestShapes DEF AuditRecord
    <2>2. used' \in [DOMAIN Bound -> Nat]
      BY <1>2, UsesCount DEF Dedup
    <2> QED
      BY <1>0, <1>2, <2>1, <2>2 DEF Dedup, AuditShape
  <1>3. CASE Park
    <2>1. audit.left \subseteq Findings /\ batch.filed \in [Findings -> Stamps]
      BY <1>0 DEF AuditRecord, Batch
    <2>2. Carried(audit.left) \in [Findings -> Stamps]
      BY <2>1 DEF Carried, Stamps
    <2>3. batch' \in Batch
      BY <1>0, <1>3, <2>1, <2>2 DEF Park, Batch
    <2>4. audit' \in AuditRecord
      BY <1>3, RestShapes DEF Park
    <2> QED
      BY <1>0, <1>3, <2>3, <2>4 DEF Park, AuditShape
  <1>4. CASE Flush
    <2>1. flush' \in FlushRecord /\ flush'.at = "scan" /\ flush'.op \in Op
      BY <1>0, <1>4, TurnShape DEF Flush
    <2> QED
      BY <1>0, <1>4, <2>1 DEF Flush, AuditShape
  <1>5. CASE FlushScan
    <2>0. flush.at = "scan" /\ UNCHANGED <<audit, pass, issues, raced>>
      BY <1>5 DEF FlushScan
    <2>1. CASE Use("mishaps") /\ Offline
      <3>1. used' \in [DOMAIN Bound -> Nat]
        BY <2>1, UsesCount
      <3>2. flush' \in FlushRecord /\ flush'.at = "idle"
        BY <2>1, RestShapes DEF Offline, IdleFlush
      <3> QED
        BY <1>0, <2>0, <2>1, <3>1, <3>2 DEF Offline, AuditShape
    <2>2. CASE Attempted
      BY <1>0, <2>0, <2>2, AttemptedEffect DEF AuditShape
    <2>3. CASE Sent("deduped") /\ UNCHANGED used
      BY <1>0, <2>0, <2>3, SentEffect DEF AuditShape
    <2>4. CASE flush' = [flush EXCEPT !.at = "create"] /\ UNCHANGED <<batch, ops, dead, late, used>>
      <3>1. flush' \in FlushRecord /\ flush'.op = flush.op
        BY <1>0, <2>4 DEF FlushRecord
      <3> QED
        BY <1>0, <2>0, <2>4, <3>1 DEF AuditShape
    <2> QED
      BY <1>5, <2>1, <2>2, <2>3, <2>4 DEF FlushScan
  <1>6. CASE FlushCreate
    <2>0. flush.at = "create" /\ UNCHANGED <<audit, pass>> /\ flush.op.f \in Findings
      BY <1>0, <1>6 DEF FlushCreate, Op
    <2>1. ASSUME OpenIssue(flush.op.f) /\ NoteRace(flush.op.f, AboutTo(flush.op.f) # {})
          PROVE  issues' \in [Findings -> Nat] /\ raced' \subseteq Findings
      BY <1>f, <1>r, <2>0, <2>1
    <2>2. CASE OpenIssue(flush.op.f) /\ NoteRace(flush.op.f, AboutTo(flush.op.f) # {})
               /\ Sent("created") /\ UNCHANGED used
      BY <1>0, <2>0, <2>1, <2>2, SentEffect DEF AuditShape
    <2>3. CASE Use("mishaps") /\ Offline
               /\ (\/ OpenIssue(flush.op.f) /\ NoteRace(flush.op.f, AboutTo(flush.op.f) # {})
                   \/ UNCHANGED <<issues, raced>>)
      <3>1. used' \in [DOMAIN Bound -> Nat]
        BY <2>3, UsesCount
      <3>2. flush' \in FlushRecord /\ flush'.at = "idle"
        BY <2>3, RestShapes DEF Offline, IdleFlush
      <3>3. issues' \in [Findings -> Nat] /\ raced' \subseteq Findings
        BY <1>0, <2>1, <2>3
      <3> QED
        BY <1>0, <2>0, <2>3, <3>1, <3>2, <3>3 DEF Offline, AuditShape
    <2>4. CASE Attempted /\ UNCHANGED <<issues, raced>>
      BY <1>0, <2>0, <2>4, AttemptedEffect DEF AuditShape
    <2> QED
      BY <1>6, <2>2, <2>3, <2>4 DEF FlushCreate
  <1>7. CASE Discard \/ Unwatch
    <2>1. used' \in [DOMAIN Bound -> Nat]
      BY <1>7, UsesCount DEF Discard, Unwatch
    <2>2. batch' \in Batch /\ ops' \subseteq Op /\ late' \subseteq Findings
          /\ UNCHANGED <<audit, pass, dead, flush, issues, raced>>
      BY <1>0, <1>7, RestShapes DEF Discard, Unwatch
    <2> QED
      BY <1>0, <2>1, <2>2 DEF AuditShape
  <1>8. CASE KillDaemon
    <2>1. used' \in [DOMAIN Bound -> Nat]
      BY <1>8, UsesCount DEF KillDaemon
    <2>2. audit' \in AuditRecord /\ flush' \in FlushRecord /\ flush'.at = "idle"
      BY <1>8, RestShapes DEF KillDaemon, IdleFlush
    <2> QED
      BY <1>0, <1>8, <2>1, <2>2 DEF KillDaemon, AuditShape
  <1>9. ASSUME NEW p \in Passes, Open(p) PROVE AuditShape'
    <2>1. PICK selected \in SUBSET batch.findings :
             pass' = [pass EXCEPT ![p] = [at |-> "scan", base |-> batch, todo |-> selected,
                                          seen |-> {}, filed |-> batch.filed, stamped |-> FALSE]]
      BY <1>9 DEF Open
    <2>2. [at |-> "scan", base |-> batch, todo |-> selected, seen |-> {}, filed |-> batch.filed,
           stamped |-> FALSE] \in PassRecord
      BY <1>0, <2>1 DEF PassRecord, Batch
    <2>3. pass' \in [Passes -> PassRecord]
      BY <2>1, <2>2, PassSet
    <2>4. used' \in [DOMAIN Bound -> Nat]
      BY <1>9, UsesCount DEF Open
    <2> QED
      BY <1>0, <1>9, <2>3, <2>4 DEF Open, AuditShape
  <1>10. ASSUME NEW p \in Passes, Scan(p) PROVE AuditShape'
    <2>1. pass[p] \in PassRecord /\ pass[p].todo \subseteq Findings
      BY <1>0 DEF PassRecord
    <2>2. PICK r \in PassRecord : pass' = [pass EXCEPT ![p] = r]
      <3>1. CASE pass' = [pass EXCEPT ![p].at = "file", ![p].seen = Markers \cap pass[p].todo]
        <4>1. [pass[p] EXCEPT !.at = "file", !.seen = Markers \cap pass[p].todo] \in PassRecord
          BY <2>1 DEF PassRecord
        <4>2. pass' = [pass EXCEPT ![p] = [pass[p] EXCEPT !.at = "file", !.seen = Markers \cap pass[p].todo]]
          BY <1>0, <3>1
        <4> QED
          BY <4>1, <4>2
      <3>2. CASE pass' = [pass EXCEPT ![p].at = "file"]
        <4>1. [pass[p] EXCEPT !.at = "file"] \in PassRecord
          BY <2>1 DEF PassRecord
        <4>2. pass' = [pass EXCEPT ![p] = [pass[p] EXCEPT !.at = "file"]]
          BY <1>0, <3>2
        <4> QED
          BY <4>1, <4>2
      <3>3. CASE pass' = [pass EXCEPT ![p] = IdlePass]
        BY <3>3, RestShapes
      <3> QED
        BY <1>10, <3>1, <3>2, <3>3 DEF Scan
    <2>3. pass' \in [Passes -> PassRecord]
      BY <2>2, PassSet
    <2>4. used' \in [DOMAIN Bound -> Nat]
      BY <1>10, UsesCount DEF Scan
    <2>5. raced' \subseteq Findings
      BY <1>0, <1>10, <2>1 DEF Scan
    <2> QED
      BY <1>0, <1>10, <2>3, <2>4, <2>5 DEF Scan, AuditShape
  <1>11. ASSUME NEW p \in Passes, File(p) PROVE AuditShape'
    <2>1. PICK f \in pass[p].todo : AlreadyFiled(p, f) \/ Create(p, f) \/ Enqueue(p, f) \/ Refused(p, f)
      BY <1>11 DEF File, InTurn
    <2>2. f \in Findings /\ pass' \in [Passes -> PassRecord] /\ used' \in [DOMAIN Bound -> Nat]
      BY <2>1, FileEffect, UsesCount
    <2>3. issues' \in [Findings -> Nat] /\ raced' \subseteq Findings
      <3>1. ASSUME OpenIssue(f) /\ NoteRace(f, AboutTo(f) # {p} \/ Replaying(f))
            PROVE  issues' \in [Findings -> Nat] /\ raced' \subseteq Findings
        BY <1>f, <1>r, <2>2, <3>1
      <3>2. \/ OpenIssue(f) /\ NoteRace(f, AboutTo(f) # {p} \/ Replaying(f))
            \/ UNCHANGED <<issues, raced>>
        BY <2>1 DEF AlreadyFiled, Create, Enqueue, Refused
      <3> QED
        BY <1>0, <3>1, <3>2
    <2>4. ops' \subseteq Op
      <3>1. ops' = ops \/ ops' = ops \cup {[f |-> f, attempts |-> 0, name |-> used.mishaps]}
        BY <2>1 DEF AlreadyFiled, Create, Enqueue, Refused
      <3>2. used.mishaps \in Nat
        BY <1>0, Bounds
      <3>3. [f |-> f, attempts |-> 0, name |-> used.mishaps] \in Op
        BY <2>2, <3>2, AuditReviewAssumption DEF Op
      <3> QED
        BY <1>0, <3>1, <3>3
    <2> QED
      BY <1>0, <1>11, <2>2, <2>3, <2>4 DEF File, AuditShape
  <1>12. ASSUME NEW p \in Passes, Save(p) PROVE AuditShape'
    <2>1. pass' \in [Passes -> PassRecord]
      BY <1>12, RestShapes, PassSet DEF Save
    <2>2. pass[p].base \in Batch /\ pass[p].filed \in [Findings -> Stamps]
      BY PassAt
    <2>3. batch' \in Batch
      BY <1>0, <1>12, <2>2 DEF Save, Batch
    <2> QED
      BY <1>0, <1>12, <2>1, <2>3 DEF Save, AuditShape
  <1>13. ASSUME NEW p \in Passes, KillPass(p) PROVE AuditShape'
    <2>1. pass' \in [Passes -> PassRecord]
      BY <1>13, RestShapes, PassSet DEF KillPass
    <2>2. used' \in [DOMAIN Bound -> Nat]
      BY <1>13, UsesCount DEF KillPass
    <2> QED
      BY <1>0, <1>13, <2>1, <2>2 DEF KillPass, AuditShape
  <1> QED
    BY <1>1, <1>2, <1>3, <1>4, <1>5, <1>6, <1>7, <1>8, <1>9, <1>10, <1>11, <1>12, <1>13
    DEF AuditNext, AuditStep, FlushStep, PassStep

----------------------------------------------------------------------------
(* One issue for each finding. Who is about to create one looked before:   *)
(* there is none yet, or the race is noted.                                *)

NothingFiled(f) == issues[f] = 0 \/ f \in raced

LookedBefore ==
    /\ \A p \in Passes : pass[p].at = "file" =>
          \A f \in pass[p].todo \ pass[p].seen : NothingFiled(f)
    /\ flush.at = "create" => NothingFiled(flush.op.f)

RacesKnown == LookedBefore /\ OneIssueEach

\* Who else was about to create an issue for f is noted when one is opened.
LEMMA OpenedOnce ==
    ASSUME AuditShape, RacesKnown, NEW f \in Findings, NEW others \in BOOLEAN,
           NothingFiled(f), OpenIssue(f), NoteRace(f, others)
    PROVE  /\ OneIssueEach'
           /\ \A g \in Findings \ {f} : NothingFiled(g) => NothingFiled(g)'
           /\ others => NothingFiled(f)'
           /\ raced \subseteq raced'
           /\ issues'[f] > 0 /\ \A g \in Findings : issues[g] > 0 => issues'[g] > 0
  <1>1. issues \in [Findings -> Nat] /\ issues' = [issues EXCEPT ![f] = @ + 1]
    BY DEF AuditShape, OpenIssue
  <1>2. raced' = IF others THEN raced \cup {f} ELSE raced
    BY DEF NoteRace
  <1>3. \A g \in Findings \ {f} : issues'[g] = issues[g]
    BY <1>1
  <1>4. issues'[f] = issues[f] + 1 /\ issues[f] \in Nat
    BY <1>1
  <1>5. OneIssueEach'
    <2> SUFFICES ASSUME NEW g \in Findings, issues'[g] > 1 PROVE g \in raced'
      BY DEF OneIssueEach
    <2>1. CASE g = f
      BY <2>1, <1>2, <1>4 DEF NothingFiled
    <2>2. CASE g # f
      BY <2>2, <1>2, <1>3 DEF RacesKnown, OneIssueEach
    <2> QED
      BY <2>1, <2>2
  <1>6. \A g \in Findings : issues[g] > 0 => issues'[g] > 0
    BY <1>3, <1>4
  <1> QED
    BY <1>2, <1>3, <1>4, <1>5, <1>6 DEF NothingFiled

\* A step that creates nothing and lets nobody come nearer to creating.
LEMMA RacesStayKnown ==
    ASSUME RacesKnown, UNCHANGED issues, raced \subseteq raced',
           \A p \in Passes : pass'[p] = pass[p] \/ pass'[p].at # "file",
           flush' = flush \/ flush'.at # "create"
    PROVE  RacesKnown'
  BY DEF RacesKnown, LookedBefore, OneIssueEach, NothingFiled

LEMMA RacesKnownKept == AuditShape /\ RacesKnown /\ AuditNext => RacesKnown'
  <1> SUFFICES ASSUME AuditShape, RacesKnown, AuditNext PROVE RacesKnown'
    OBVIOUS
  <1>0. /\ pass \in [Passes -> PassRecord] /\ flush \in FlushRecord
        /\ flush.at # "idle" => flush.op \in Op
        /\ issues \in [Findings -> Nat]
    BY DEF AuditShape
  <1>i. IdlePass.at = "idle" /\ IdleFlush.at = "idle"
    BY DEF IdlePass, IdleFlush
  <1>1. CASE Audit \/ Dedup \/ Park \/ Discard \/ Unwatch
    <2>1. UNCHANGED <<issues, raced, pass, flush>>
      BY <1>1 DEF Audit, Dedup, Park, Discard, Unwatch
    <2> QED
      BY <2>1, RacesStayKnown
  <1>2. CASE Flush \/ KillDaemon
    <2>1. UNCHANGED <<issues, raced, pass>>
      BY <1>2 DEF Flush, KillDaemon
    <2>2. flush'.at # "create"
      BY <1>2, <1>i DEF Flush, Turn, KillDaemon
    <2> QED
      BY <2>1, <2>2, RacesStayKnown
  <1>3. CASE FlushScan
    <2>0. flush.at = "scan" /\ UNCHANGED <<pass, issues, raced>>
      BY <1>3 DEF FlushScan
    <2>1. CASE Offline \/ Attempted \/ Sent("deduped")
      <3>1. flush'.at \in {"idle", "scan"}
        BY <2>0, <2>1, <1>i, AttemptedEffect, SentEffect DEF Offline
      <3> QED
        BY <2>0, <3>1, RacesStayKnown
    <2>2. CASE flush.op.f \notin Markers /\ flush' = [flush EXCEPT !.at = "create"]
      <3>1. flush.op.f \in Findings /\ flush'.op = flush.op
        BY <1>0, <2>0, <2>2 DEF FlushRecord, Op
      <3>2. issues[flush.op.f] = 0
        BY <1>0, <2>2, <3>1 DEF Markers
      <3> QED
        BY <2>0, <3>1, <3>2 DEF RacesKnown, LookedBefore, OneIssueEach, NothingFiled
    <2> QED
      BY <1>3, <2>1, <2>2 DEF FlushScan
  <1>4. CASE FlushCreate
    <2>0. flush.at = "create" /\ UNCHANGED pass /\ flush.op.f \in Findings
      BY <1>0, <1>4 DEF FlushCreate, Op
    <2>1. flush'.at # "create"
      BY <1>4, <2>0, <1>i, AttemptedEffect, SentEffect DEF FlushCreate, Offline
    <2>2. CASE UNCHANGED <<issues, raced>>
      BY <2>0, <2>1, <2>2, RacesStayKnown
    <2>3. CASE OpenIssue(flush.op.f) /\ NoteRace(flush.op.f, AboutTo(flush.op.f) # {})
      <3>0. PICK e \in Findings : e = flush.op.f
        BY <2>0
      <3> DEFINE others == AboutTo(e) # {}
      <3>1. NothingFiled(e)
        BY <2>0, <3>0 DEF RacesKnown, LookedBefore
      <3>2. /\ OneIssueEach' /\ (others => NothingFiled(e)')
            /\ \A g \in Findings \ {e} : NothingFiled(g) => NothingFiled(g)'
        <4>1. OpenIssue(e) /\ NoteRace(e, others) /\ others \in BOOLEAN
          BY <2>3, <3>0
        <4> HIDE DEF others
        <4> QED
          BY <3>1, <4>1, OpenedOnce
      <3>3. ASSUME NEW p \in Passes, pass[p].at = "file", NEW f \in pass[p].todo \ pass[p].seen
            PROVE  NothingFiled(f)'
        <4>1. f \in Findings /\ NothingFiled(f)
          BY <1>0, <3>3 DEF PassRecord, RacesKnown, LookedBefore
        <4>2. CASE f = e
          BY <3>2, <3>3, <4>2 DEF AboutTo
        <4>3. CASE f # e
          BY <3>2, <4>1, <4>3
        <4> QED
          BY <4>2, <4>3
      <3> QED
        BY <2>0, <2>1, <3>2, <3>3 DEF RacesKnown, LookedBefore
    <2> QED
      BY <1>4, <2>2, <2>3 DEF FlushCreate
  <1>5. ASSUME NEW p \in Passes, Open(p) \/ Save(p) \/ KillPass(p) PROVE RacesKnown'
    <2>1. UNCHANGED <<issues, raced, flush>>
      BY <1>5 DEF Open, Save, KillPass
    <2>2. \A q \in Passes : pass'[q] = pass[q] \/ pass'[q].at # "file"
      <3>1. PICK r : pass' = [pass EXCEPT ![p] = r] /\ r.at \in {"idle", "scan"}
        BY <1>5, <1>i DEF Open, Save, KillPass
      <3> QED
        BY <1>0, <3>1
    <2> QED
      BY <2>1, <2>2, RacesStayKnown
  <1>6. ASSUME NEW p \in Passes, Scan(p) PROVE RacesKnown'
    <2>0. UNCHANGED <<issues, flush>> /\ raced \subseteq raced'
      BY <1>6 DEF Scan
    <2>1. pass[p] \in PassRecord /\ pass[p].todo \subseteq Findings
      BY <1>0 DEF PassRecord
    <2>2. \A q \in Passes \ {p} : pass'[q] = pass[q]
      BY <1>0, <1>6 DEF Scan
    <2>3. CASE pass' = [pass EXCEPT ![p].at = "file", ![p].seen = Markers \cap pass[p].todo]
      <3>1. pass'[p].todo = pass[p].todo /\ pass'[p].seen = Markers \cap pass[p].todo
        BY <1>0, <2>1, <2>3 DEF PassRecord
      <3>2. \A f \in pass'[p].todo \ pass'[p].seen : issues[f] = 0
        BY <1>0, <2>1, <3>1 DEF Markers
      <3> QED
        BY <2>0, <2>2, <3>2 DEF RacesKnown, LookedBefore, OneIssueEach, NothingFiled
    <2>4. CASE pass' = [pass EXCEPT ![p].at = "file"] /\ raced' = raced \cup pass[p].todo
      <3>1. pass'[p].todo = pass[p].todo
        BY <1>0, <2>1, <2>4 DEF PassRecord
      <3>2. \A f \in pass'[p].todo \ pass'[p].seen : f \in raced'
        BY <2>4, <3>1
      <3> QED
        BY <2>0, <2>2, <3>2 DEF RacesKnown, LookedBefore, OneIssueEach, NothingFiled
    <2>5. CASE pass' = [pass EXCEPT ![p] = IdlePass]
      <3>1. pass'[p].at = "idle"
        BY <1>0, <1>i, <2>5
      <3> QED
        BY <1>i, <2>0, <2>2, <3>1, RacesStayKnown
    <2> QED
      BY <1>6, <2>3, <2>4, <2>5 DEF Scan
  <1>7. ASSUME NEW p \in Passes, File(p) PROVE RacesKnown'
    <2>0. pass[p].at = "file" /\ UNCHANGED flush
      BY <1>7 DEF File
    <2>1. PICK f \in pass[p].todo : AlreadyFiled(p, f) \/ Create(p, f) \/ Enqueue(p, f) \/ Refused(p, f)
      BY <1>7 DEF File, InTurn
    <2>2. /\ \A q \in Passes \ {p} : pass'[q] = pass[q]
          /\ pass'[p].todo = pass[p].todo \ {f} /\ pass'[p].seen = pass[p].seen
          /\ f \in Findings
      BY <2>1, FileEffect
    <2>3. CASE UNCHANGED <<issues, raced>>
      BY <2>0, <2>2, <2>3 DEF RacesKnown, LookedBefore, OneIssueEach, NothingFiled
    <2>4. CASE /\ f \notin pass[p].seen
               /\ OpenIssue(f) /\ NoteRace(f, AboutTo(f) # {p} \/ Replaying(f))
      <3> DEFINE others == AboutTo(f) # {p} \/ Replaying(f)
      <3>1. NothingFiled(f)
        BY <2>0, <2>1, <2>4 DEF RacesKnown, LookedBefore
      <3>2. /\ OneIssueEach' /\ (others => NothingFiled(f)')
            /\ \A g \in Findings \ {f} : NothingFiled(g) => NothingFiled(g)'
        <4>1. others \in BOOLEAN
          BY DEF AboutTo, Replaying
        <4> HIDE DEF others
        <4>2. OpenIssue(f) /\ NoteRace(f, others)
          BY <2>4 DEF others
        <4> QED
          BY <2>2, <3>1, <4>1, <4>2, OpenedOnce
      <3>3. ASSUME NEW q \in Passes, pass'[q].at = "file", NEW g \in pass'[q].todo \ pass'[q].seen
            PROVE  NothingFiled(g)'
        <4>1. CASE q = p
          <5>1. g \in pass[p].todo \ pass[p].seen /\ g # f
            BY <2>2, <3>3, <4>1
          <5>2. g \in Findings /\ NothingFiled(g)
            BY <2>0, <5>1, PassAt DEF RacesKnown, LookedBefore
          <5> QED
            BY <3>2, <5>1, <5>2
        <4>2. CASE q # p
          <5>1. pass[q].at = "file" /\ g \in pass[q].todo \ pass[q].seen
            BY <2>2, <3>3, <4>2
          <5>2. g \in Findings /\ NothingFiled(g)
            BY <5>1, PassAt DEF RacesKnown, LookedBefore
          <5>3. g = f => others
            BY <4>2, <5>1 DEF AboutTo
          <5> QED
            BY <3>2, <5>2, <5>3
        <4> QED
          BY <4>1, <4>2
      <3>4. ASSUME flush'.at = "create" PROVE NothingFiled(flush.op.f)'
        <4>1. flush.op.f \in Findings /\ NothingFiled(flush.op.f) /\ flush.at = "create"
          BY <1>0, <2>0, <3>4 DEF Op, RacesKnown, LookedBefore
        <4>2. UNCHANGED flush.op.f
          BY <2>0
        <4>3. flush.op.f = f => others
          BY <4>1 DEF Replaying
        <4>4. issues'[flush.op.f] = 0 \/ flush.op.f \in raced'
          BY <3>2, <4>1, <4>3 DEF NothingFiled
        <4> QED
          BY <4>2, <4>4 DEF NothingFiled
      <3> QED
        BY <3>2, <3>3, <3>4 DEF RacesKnown, LookedBefore
    <2> QED
      BY <2>1, <2>3, <2>4 DEF AlreadyFiled, Create, Enqueue, Refused
  <1> QED
    BY <1>1, <1>2, <1>3, <1>4, <1>5, <1>6, <1>7 DEF AuditNext, AuditStep, FlushStep, PassStep

----------------------------------------------------------------------------
(* Stamps are true, of the batch and of every pass that will write it.     *)

Issued(f) == issues[f] > 0
Owed(f) == Queued(f) \/ f \in dead \cup late

TrueStamps ==
    \A f \in Findings :
        /\ batch.filed[f] \in {"created", "deduped"} => Issued(f)
        /\ batch.filed[f] = "queued" => Owed(f)
        /\ \A p \in Passes :
              /\ pass[p].filed[f] \in {"created", "deduped"} => Issued(f)
              /\ pass[p].filed[f] = "queued" => Owed(f)
              /\ f \in pass[p].seen => Issued(f)

LEMMA TrueStampsAreTrue == AuditShape /\ TrueStamps => StampsAreTrue
  BY DEF AuditShape, Batch, TrueStamps, Issued, Owed, StampsAreTrue

\* A step that closes no issue, forgets no op, and stamps nothing anew.
LEMMA StampsStayTrue ==
    ASSUME TrueStamps,
           \A f \in Findings : (Issued(f) => Issued(f)') /\ (Owed(f) => Owed(f)'),
           \A f \in Findings : \/ batch'.filed[f] \in {"none", batch.filed[f]}
                               \/ \E p \in Passes : batch'.filed[f] = pass[p].filed[f],
           \A p \in Passes, f \in Findings :
               /\ pass'[p].filed[f] \in {"none", pass[p].filed[f], batch.filed[f]}
               /\ f \in pass'[p].seen => f \in pass[p].seen \/ Issued(f)'
    PROVE  TrueStamps'
  BY DEF TrueStamps

LEMMA TrueStampsKept == AuditShape /\ TrueStamps /\ AuditNext => TrueStamps'
  <1> SUFFICES ASSUME AuditShape, TrueStamps, AuditNext PROVE TrueStamps'
    OBVIOUS
  <1>0. /\ pass \in [Passes -> PassRecord]
        /\ flush.at # "idle" => flush.op \in Op
        /\ issues \in [Findings -> Nat]
    BY DEF AuditShape
  <1>i. /\ \A f \in Findings : IdlePass.filed[f] = "none"
        /\ \A f \in Findings : NoBatch.filed[f] = "none"
        /\ IdlePass.seen = {}
    BY DEF IdlePass, NoBatch, Unstamped
  <1>o. ASSUME NEW f \in Findings, OpenIssue(f)
        PROVE  \A g \in Findings : (g = f => Issued(g)') /\ (Issued(g) => Issued(g)')
    BY <1>0, <1>o DEF OpenIssue, Issued
  <1>1. CASE Audit \/ Dedup \/ Flush \/ KillDaemon
    <2>1. UNCHANGED <<batch, pass, issues, ops, dead, late>>
      BY <1>1 DEF Audit, Dedup, Flush, KillDaemon
    <2> QED
      BY <2>1 DEF TrueStamps, Issued, Owed, Queued
  <1>2. CASE Park
    <2>1. UNCHANGED <<pass, issues, ops, dead, late>>
      BY <1>2 DEF Park
    <2>2. \A f \in Findings : batch'.filed[f] \in {"none", batch.filed[f]}
      BY <1>2 DEF Park, Carried
    <2>3. \A f \in Findings : (Issued(f) => Issued(f)') /\ (Owed(f) => Owed(f)')
      BY <2>1 DEF Issued, Owed, Queued
    <2> QED
      BY <2>1, <2>2, <2>3, StampsStayTrue
  <1>3. CASE FlushScan \/ FlushCreate
    <2>0. flush.at # "idle" /\ UNCHANGED pass
      BY <1>3 DEF FlushScan, FlushCreate
    <2>1. PICK e \in Findings : e = flush.op.f
      BY <1>0, <2>0 DEF Op
    <2>2. \A f \in Findings : Issued(f) => Issued(f)'
      <3>1. UNCHANGED issues \/ OpenIssue(e)
        BY <1>3, <2>1 DEF FlushScan, FlushCreate
      <3> QED
        BY <1>o, <3>1 DEF Issued
    <2>3. CASE UNCHANGED <<batch, ops, dead, late>>
      <3>1. \A f \in Findings : Owed(f) => Owed(f)'
        BY <2>3 DEF Owed, Queued
      <3> QED
        BY <2>0, <2>2, <2>3, <3>1, StampsStayTrue
    <2>4. CASE Attempted
      <3>1. \A f \in Findings : Owed(f) => Owed(f)'
        BY <2>0, <2>4, AttemptedEffect DEF Owed
      <3>2. UNCHANGED batch
        BY <2>4 DEF Attempted
      <3> QED
        BY <2>0, <2>2, <3>1, <3>2, StampsStayTrue
    <2>5. ASSUME NEW stamp \in {"created", "deduped"}, Sent(stamp), Issued(e)' PROVE TrueStamps'
      <3>1. /\ \A f \in Findings :
                  \/ batch'.filed[f] = batch.filed[f] /\ (f = e => batch.filed[f] # "queued")
                  \/ f = e /\ batch'.filed[f] = stamp
            /\ UNCHANGED dead /\ late \subseteq late'
            /\ \A f \in Findings : Queued(f) => Queued(f)' \/ f = e
            /\ \A p \in Passes : pass[p].filed[e] = "queued" => e \in late'
        BY <2>0, <2>1, <2>5, SentEffect
      <3>2. \A f \in Findings \ {e} : Owed(f) => Owed(f)'
        BY <3>1 DEF Owed
      <3>3. e \in late' => Owed(e)'
        BY DEF Owed
      <3>4. ASSUME NEW f \in Findings
            PROVE  /\ batch'.filed[f] \in {"created", "deduped"} => Issued(f)'
                   /\ batch'.filed[f] = "queued" => Owed(f)'
        <4>1. CASE f = e
          BY <2>5, <3>1, <4>1
        <4>2. CASE f # e
          BY <2>2, <3>1, <3>2, <4>2 DEF TrueStamps
        <4> QED
          BY <4>1, <4>2
      <3>5. ASSUME NEW f \in Findings, NEW p \in Passes
            PROVE  /\ pass'[p].filed[f] \in {"created", "deduped"} => Issued(f)'
                   /\ pass'[p].filed[f] = "queued" => Owed(f)'
                   /\ f \in pass'[p].seen => Issued(f)'
        BY <2>0, <2>2, <3>1, <3>2, <3>3 DEF TrueStamps
      <3> QED
        BY <3>4, <3>5 DEF TrueStamps
    <2>6. CASE e \in Markers /\ Sent("deduped") /\ UNCHANGED issues
      <3>1. Issued(e)'
        BY <2>6 DEF Markers, Issued
      <3> QED
        BY <2>5, <2>6, <3>1
    <2>7. CASE OpenIssue(e) /\ Sent("created")
      BY <1>o, <2>5, <2>7
    <2> QED
      BY <1>3, <2>1, <2>3, <2>4, <2>6, <2>7 DEF FlushScan, FlushCreate, Offline
  <1>4. CASE Discard \/ Unwatch
    <2>1. UNCHANGED <<pass, issues, dead>> /\ batch' = NoBatch
      BY <1>4 DEF Discard, Unwatch
    <2>2. \A f \in Findings, p \in Passes : pass[p].filed[f] = "queued" => Owed(f)'
      BY <1>4, <2>1 DEF Discard, Unwatch, TrueStamps, Owed, Queued
    <2> QED
      BY <1>i, <2>1, <2>2 DEF TrueStamps, Issued
  <1>5. ASSUME NEW p \in Passes, Open(p) \/ Scan(p) \/ KillPass(p) PROVE TrueStamps'
    <2>1. UNCHANGED <<batch, issues, ops, dead, late>>
      BY <1>5 DEF Open, Scan, KillPass
    <2>2. \A f \in Findings : (Issued(f) => Issued(f)') /\ (Owed(f) => Owed(f)')
      BY <2>1 DEF Issued, Owed, Queued
    <2>3. \A q \in Passes \ {p} : pass'[q] = pass[q]
      BY <1>0, <1>5 DEF Open, Scan, KillPass
    <2>4. pass[p] \in PassRecord
      BY <1>0
    <2>5. ASSUME NEW f \in Findings
          PROVE  /\ pass'[p].filed[f] \in {"none", pass[p].filed[f], batch.filed[f]}
                 /\ f \in pass'[p].seen => f \in pass[p].seen \/ Issued(f)'
      <3>1. CASE pass' = [pass EXCEPT ![p] = IdlePass]
        <4>1. pass'[p] = IdlePass
          BY <1>0, <3>1
        <4> QED
          BY <1>i, <4>1
      <3>2. CASE Open(p)
        <4>1. pass'[p].filed = batch.filed /\ pass'[p].seen = {}
          BY <1>0, <3>2 DEF Open
        <4> QED
          BY <4>1
      <3>3. CASE pass' = [pass EXCEPT ![p].at = "file", ![p].seen = Markers \cap pass[p].todo]
        <4>1. pass'[p].filed = pass[p].filed /\ pass'[p].seen = Markers \cap pass[p].todo
          BY <1>0, <2>4, <3>3 DEF PassRecord
        <4> QED
          BY <2>1, <4>1 DEF Markers, Issued
      <3>4. CASE pass' = [pass EXCEPT ![p].at = "file"]
        <4>1. pass'[p].filed = pass[p].filed /\ pass'[p].seen = pass[p].seen
          BY <1>0, <2>4, <3>4 DEF PassRecord
        <4> QED
          BY <4>1
      <3> QED
        BY <1>5, <3>1, <3>2, <3>3, <3>4 DEF Scan, KillPass
    <2>6. ASSUME NEW q \in Passes, NEW f \in Findings
          PROVE  /\ pass'[q].filed[f] \in {"none", pass[q].filed[f], batch.filed[f]}
                 /\ f \in pass'[q].seen => f \in pass[q].seen \/ Issued(f)'
      BY <2>3, <2>5
    <2> QED
      BY <2>1, <2>2, <2>6, StampsStayTrue
  <1>6. ASSUME NEW p \in Passes, File(p) PROVE TrueStamps'
    <2>0. pass[p].at = "file" /\ UNCHANGED <<batch, dead, late>>
      BY <1>6 DEF File
    <2>1. PICK f \in pass[p].todo : AlreadyFiled(p, f) \/ Create(p, f) \/ Enqueue(p, f) \/ Refused(p, f)
      BY <1>6 DEF File, InTurn
    <2>2. /\ \A q \in Passes \ {p} : pass'[q] = pass[q]
          /\ pass'[p].seen = pass[p].seen /\ f \in Findings
          /\ \A g \in Findings \ {f} : pass'[p].filed[g] = pass[p].filed[g]
      BY <2>1, FileEffect
    <2>3. \A g \in Findings : (Issued(g) => Issued(g)') /\ (Owed(g) => Owed(g)')
      <3>1. UNCHANGED issues \/ OpenIssue(f)
        BY <2>1 DEF AlreadyFiled, Create, Enqueue, Refused
      <3>2. ops \subseteq ops'
        BY <2>1 DEF AlreadyFiled, Create, Enqueue, Refused
      <3>3. \A g \in Findings : Issued(g) => Issued(g)'
        BY <1>o, <2>2, <3>1 DEF Issued
      <3>4. \A g \in Findings : Owed(g) => Owed(g)'
        BY <2>0, <3>2 DEF Owed, Queued
      <3> QED
        BY <3>3, <3>4
    <2>4. /\ pass'[p].filed[f] \in {"created", "deduped"} => Issued(f)'
          /\ pass'[p].filed[f] = "queued" => Owed(f)'
      <3>1. CASE AlreadyFiled(p, f)
        <4>1. f \in pass[p].seen
          BY <3>1 DEF AlreadyFiled
        <4>2. Issued(f)
          BY <2>2, <4>1 DEF TrueStamps
        <4>3. pass'[p].filed[f] = IF pass[p].filed[f] = "none" THEN "deduped" ELSE pass[p].filed[f]
          BY <2>1, <3>1, FileEffect
        <4> QED
          BY <2>2, <2>3, <4>2, <4>3 DEF TrueStamps
      <3>2. CASE Create(p, f)
        <4>1. Issued(f)'
          BY <1>o, <2>2, <3>2 DEF Create
        <4> QED
          BY <2>1, <3>2, <4>1, FileEffect
      <3>3. CASE Enqueue(p, f)
        <4>1. Queued(f)'
          <5>1. [f |-> f, attempts |-> 0, name |-> used.mishaps] \in ops'
            BY <3>3 DEF Enqueue
          <5>2. [f |-> f, attempts |-> 0, name |-> used.mishaps].f = f
            OBVIOUS
          <5> QED
            BY <5>1, <5>2 DEF Queued
        <4> QED
          BY <2>1, <3>3, <4>1, FileEffect DEF Owed
      <3>4. CASE Refused(p, f)
        <4>1. pass'[p].filed[f] = pass[p].filed[f]
          BY <2>1, <3>4, FileEffect
        <4> QED
          BY <2>2, <2>3, <4>1 DEF TrueStamps
      <3> QED
        BY <2>1, <3>1, <3>2, <3>3, <3>4
    <2>5. ASSUME NEW q \in Passes, NEW g \in Findings
          PROVE  /\ pass'[q].filed[g] \in {"created", "deduped"} => Issued(g)'
                 /\ pass'[q].filed[g] = "queued" => Owed(g)'
                 /\ g \in pass'[q].seen => Issued(g)'
      <3>1. /\ pass[q].filed[g] \in {"created", "deduped"} => Issued(g)
            /\ pass[q].filed[g] = "queued" => Owed(g)
            /\ g \in pass[q].seen => Issued(g)
        BY DEF TrueStamps
      <3> QED
        BY <2>2, <2>3, <2>4, <3>1
    <2>6. \A g \in Findings : /\ batch'.filed[g] \in {"created", "deduped"} => Issued(g)'
                              /\ batch'.filed[g] = "queued" => Owed(g)'
      BY <2>0, <2>3 DEF TrueStamps
    <2> QED
      BY <2>5, <2>6 DEF TrueStamps
  <1>7. ASSUME NEW p \in Passes, Save(p) PROVE TrueStamps'
    <2>1. UNCHANGED <<issues, ops, dead, late>> /\ pass' = [pass EXCEPT ![p] = IdlePass]
      BY <1>7 DEF Save
    <2>2. \A f \in Findings : (Issued(f) => Issued(f)') /\ (Owed(f) => Owed(f)')
      BY <2>1 DEF Issued, Owed, Queued
    <2>3. pass'[p] = IdlePass /\ \A q \in Passes \ {p} : pass'[q] = pass[q]
      BY <1>0, <2>1
    <2>4. ASSUME NEW q \in Passes, NEW f \in Findings
          PROVE  /\ pass'[q].filed[f] \in {"none", pass[q].filed[f], batch.filed[f]}
                 /\ f \in pass'[q].seen => f \in pass[q].seen \/ Issued(f)'
      BY <1>i, <2>3
    <2>5. batch' = batch \/ batch'.filed = pass[p].filed
      <3>1. batch' = batch \/ batch' = [pass[p].base EXCEPT !.filed = pass[p].filed]
        BY <1>7 DEF Save
      <3>2. pass[p].base \in Batch
        BY PassAt
      <3> QED
        BY <3>1, <3>2 DEF Batch
    <2> QED
      BY <2>2, <2>4, <2>5, StampsStayTrue
  <1> QED
    BY <1>1, <1>2, <1>3, <1>4, <1>5, <1>6, <1>7 DEF AuditNext, AuditStep, FlushStep, PassStep

----------------------------------------------------------------------------
(* A pass writes back at least what it read: what was created stays so.    *)

PassKeeps ==
    \A p \in Passes :
        /\ pass[p].at # "idle" => pass[p].base # NoBatch
        /\ \A f \in Findings : pass[p].base.filed[f] = "created" =>
              Issued(f) /\ (pass[p].filed[f] = "created" \/ f \in raced)

AuditInv == AuditShape /\ RacesKnown /\ TrueStamps /\ PassKeeps

LEMMA IssuesStay == AuditShape /\ AuditNext => \A f \in Findings : Issued(f) => Issued(f)'
  <1> SUFFICES ASSUME AuditShape, AuditNext, NEW f \in Findings, Issued(f) PROVE Issued(f)'
    OBVIOUS
  <1>1. issues \in [Findings -> Nat]
    BY DEF AuditShape
  <1>2. UNCHANGED issues \/ \E g : OpenIssue(g)
    <2>1. ASSUME NEW p \in Passes, File(p) PROVE UNCHANGED issues \/ \E g : OpenIssue(g)
      BY <2>1 DEF File, AlreadyFiled, Create, Enqueue, Refused
    <2>2. ASSUME NEW p \in Passes, Open(p) \/ Scan(p) \/ Save(p) \/ KillPass(p)
          PROVE  UNCHANGED issues
      BY <2>2 DEF Open, Scan, Save, KillPass
    <2>3. ASSUME FlushCreate PROVE UNCHANGED issues \/ \E g : OpenIssue(g)
      BY <2>3 DEF FlushCreate
    <2>4. ASSUME Audit \/ Dedup \/ Park \/ Flush \/ FlushScan \/ Discard \/ Unwatch \/ KillDaemon
          PROVE  UNCHANGED issues
      BY <2>4 DEF Audit, Dedup, Park, Flush, FlushScan, Discard, Unwatch, KillDaemon
    <2> QED
      BY <2>1, <2>2, <2>3, <2>4 DEF AuditNext, AuditStep, FlushStep, PassStep
  <1> QED
    BY <1>1, <1>2 DEF Issued, OpenIssue

LEMMA RacedGrows == AuditNext => raced \subseteq raced'
  <1>1. ASSUME NEW f, NEW others, NoteRace(f, others) PROVE raced \subseteq raced'
    BY <1>1 DEF NoteRace
  <1>2. ASSUME NEW p \in Passes, File(p) PROVE raced \subseteq raced'
    <2>1. ASSUME NEW f, AlreadyFiled(p, f) \/ Refused(p, f) PROVE raced \subseteq raced'
      BY <2>1 DEF AlreadyFiled, Refused
    <2>2. ASSUME NEW f, Create(p, f) \/ Enqueue(p, f) PROVE raced \subseteq raced'
      BY <1>1, <2>2 DEF Create, Enqueue
    <2> QED
      BY <1>2, <2>1, <2>2 DEF File
  <1>3. ASSUME NEW p \in Passes, Open(p) \/ Scan(p) \/ Save(p) \/ KillPass(p)
        PROVE  raced \subseteq raced'
    BY <1>3 DEF Open, Scan, Save, KillPass
  <1>4. ASSUME FlushCreate PROVE raced \subseteq raced'
    BY <1>1, <1>4 DEF FlushCreate
  <1>5. ASSUME Audit \/ Dedup \/ Park \/ Flush \/ FlushScan \/ Discard \/ Unwatch \/ KillDaemon
        PROVE  raced \subseteq raced'
    BY <1>5 DEF Audit, Dedup, Park, Flush, FlushScan, Discard, Unwatch, KillDaemon
  <1> QED
    BY <1>2, <1>3, <1>4, <1>5 DEF AuditNext, AuditStep, FlushStep, PassStep

LEMMA PassKeepsKept == AuditInv /\ AuditNext => PassKeeps'
  <1> SUFFICES ASSUME AuditInv, AuditNext PROVE PassKeeps'
    OBVIOUS
  <1>0. AuditShape /\ pass \in [Passes -> PassRecord]
    BY DEF AuditInv, AuditShape
  <1>1. (\A f \in Findings : Issued(f) => Issued(f)') /\ raced \subseteq raced'
    BY <1>0, IssuesStay, RacedGrows
  <1>i. /\ IdlePass.at = "idle"
        /\ \A f \in Findings : IdlePass.base.filed[f] = "none"
    BY DEF IdlePass, NoBatch, Unstamped
  \* A pass that goes on as it was, or ends.
  <1>2. ASSUME NEW q \in Passes,
               \/ pass'[q] = IdlePass
               \/ /\ pass'[q].base = pass[q].base /\ pass'[q].filed = pass[q].filed
                  /\ pass'[q].at # "idle" => pass[q].at # "idle"
        PROVE  /\ pass'[q].at # "idle" => pass'[q].base # NoBatch
               /\ \A f \in Findings : pass'[q].base.filed[f] = "created" =>
                     Issued(f)' /\ (pass'[q].filed[f] = "created" \/ f \in raced')
    BY <1>1, <1>2, <1>i DEF AuditInv, PassKeeps
  <1>3. CASE UNCHANGED pass
    BY <1>2, <1>3 DEF PassKeeps
  <1>4. ASSUME NEW p \in Passes, NEW r \in PassRecord, pass' = [pass EXCEPT ![p] = r],
               \/ r = IdlePass
               \/ /\ r.base = pass[p].base /\ r.filed = pass[p].filed
                  /\ r.at # "idle" => pass[p].at # "idle"
        PROVE  PassKeeps'
    <2>1. pass'[p] = r /\ \A q \in Passes \ {p} : pass'[q] = pass[q]
      BY <1>0, <1>4
    <2>2. \A q \in Passes :
             \/ pass'[q] = IdlePass
             \/ /\ pass'[q].base = pass[q].base /\ pass'[q].filed = pass[q].filed
                /\ pass'[q].at # "idle" => pass[q].at # "idle"
      BY <1>4, <2>1
    <2> QED
      BY <1>2, <2>2 DEF PassKeeps
  <1>5. ASSUME NEW p \in Passes, Save(p) \/ KillPass(p) PROVE PassKeeps'
    <2>1. pass' = [pass EXCEPT ![p] = IdlePass]
      BY <1>5 DEF Save, KillPass
    <2> QED
      BY <1>4, <2>1, RestShapes
  <1>6. ASSUME NEW p \in Passes, Scan(p) PROVE PassKeeps'
    <2>1. pass[p] \in PassRecord /\ pass[p].at = "scan" /\ pass[p].todo \subseteq Findings
      BY <1>0, <1>6, PassAt DEF Scan
    <2>2. CASE pass' = [pass EXCEPT ![p].at = "file", ![p].seen = Markers \cap pass[p].todo]
      <3> DEFINE r == [pass[p] EXCEPT !.at = "file", !.seen = Markers \cap pass[p].todo]
      <3>1. r \in PassRecord /\ r.base = pass[p].base /\ r.filed = pass[p].filed
        BY <2>1 DEF PassRecord
      <3>2. pass' = [pass EXCEPT ![p] = r]
        BY <1>0, <2>2
      <3> HIDE DEF r
      <3> QED
        BY <1>4, <2>1, <3>1, <3>2
    <2>3. CASE pass' = [pass EXCEPT ![p].at = "file"]
      <3> DEFINE r == [pass[p] EXCEPT !.at = "file"]
      <3>1. r \in PassRecord /\ r.base = pass[p].base /\ r.filed = pass[p].filed
        BY <2>1 DEF PassRecord
      <3>2. pass' = [pass EXCEPT ![p] = r]
        BY <1>0, <2>3
      <3> HIDE DEF r
      <3> QED
        BY <1>4, <2>1, <3>1, <3>2
    <2>4. CASE pass' = [pass EXCEPT ![p] = IdlePass]
      BY <1>4, <2>4, RestShapes
    <2> QED
      BY <1>6, <2>2, <2>3, <2>4 DEF Scan
  <1>7. ASSUME NEW p \in Passes, Open(p) PROVE PassKeeps'
    <2>1. /\ pass'[p].base = batch /\ pass'[p].filed = batch.filed
          /\ \A q \in Passes \ {p} : pass'[q] = pass[q]
      BY <1>0, <1>7 DEF Open
    <2>2. batch # NoBatch
      BY <1>7 DEF Open, Parked
    <2>3. \A f \in Findings : batch.filed[f] = "created" => Issued(f)
      BY DEF AuditInv, TrueStamps
    <2>4. /\ pass'[p].at # "idle" => pass'[p].base # NoBatch
          /\ \A f \in Findings : pass'[p].base.filed[f] = "created" =>
                Issued(f)' /\ (pass'[p].filed[f] = "created" \/ f \in raced')
      <3>1. NoBatch' = NoBatch
        OBVIOUS
      <3> QED
        BY <1>1, <2>1, <2>2, <2>3, <3>1
    <2>5. ASSUME NEW q \in Passes
          PROVE  /\ pass'[q].at # "idle" => pass'[q].base # NoBatch
                 /\ \A f \in Findings : pass'[q].base.filed[f] = "created" =>
                       Issued(f)' /\ (pass'[q].filed[f] = "created" \/ f \in raced')
      BY <1>2, <2>1, <2>4
    <2> QED
      BY <2>5 DEF PassKeeps
  <1>8. ASSUME NEW p \in Passes, File(p) PROVE PassKeeps'
    <2>1. PICK f \in pass[p].todo : AlreadyFiled(p, f) \/ Create(p, f) \/ Enqueue(p, f) \/ Refused(p, f)
      BY <1>8 DEF File, InTurn
    <2>2. /\ \A q \in Passes \ {p} : pass'[q] = pass[q]
          /\ pass'[p].at = pass[p].at /\ pass'[p].base = pass[p].base
          /\ f \in Findings
          /\ \A g \in Findings \ {f} : pass'[p].filed[g] = pass[p].filed[g]
      BY <1>0, <2>1, FileEffect
    <2>3. ASSUME pass[p].base.filed[f] = "created"
          PROVE  Issued(f)' /\ (pass'[p].filed[f] = "created" \/ f \in raced')
      <3>1. Issued(f) /\ (pass[p].filed[f] = "created" \/ f \in raced)
        BY <2>2, <2>3 DEF AuditInv, PassKeeps
      <3>2. CASE AlreadyFiled(p, f)
        <4>1. pass'[p].filed[f] = IF pass[p].filed[f] = "none" THEN "deduped" ELSE pass[p].filed[f]
          BY <1>0, <2>1, <3>2, FileEffect
        <4> QED
          BY <1>1, <2>2, <3>1, <4>1
      <3>3. CASE Create(p, f)
        BY <1>0, <1>1, <2>1, <2>2, <3>1, <3>3, FileEffect
      <3>4. CASE Enqueue(p, f)
        <4>1. f \in pass[p].todo \ pass[p].seen /\ pass[p].at = "file"
          BY <1>8, <2>1, <3>4 DEF Enqueue, File
        <4>2. f \in raced
          BY <3>1, <4>1 DEF AuditInv, RacesKnown, LookedBefore, NothingFiled, Issued
        <4> QED
          BY <1>1, <2>2, <3>1, <4>2
      <3>5. CASE Refused(p, f)
        BY <1>0, <1>1, <2>1, <2>2, <3>1, <3>5, FileEffect
      <3> QED
        BY <2>1, <3>2, <3>3, <3>4, <3>5
    <2>4. /\ pass'[p].at # "idle" => pass'[p].base # NoBatch
          /\ \A g \in Findings : pass'[p].base.filed[g] = "created" =>
                Issued(g)' /\ (pass'[p].filed[g] = "created" \/ g \in raced')
      BY <1>1, <2>2, <2>3 DEF AuditInv, PassKeeps
    <2>5. ASSUME NEW q \in Passes
          PROVE  /\ pass'[q].at # "idle" => pass'[q].base # NoBatch
                 /\ \A g \in Findings : pass'[q].base.filed[g] = "created" =>
                       Issued(g)' /\ (pass'[q].filed[g] = "created" \/ g \in raced')
      BY <1>2, <2>2, <2>4
    <2> QED
      BY <2>5 DEF PassKeeps
  <1>9. CASE Audit \/ Dedup \/ Park \/ Flush \/ FlushScan \/ FlushCreate \/ Discard \/ Unwatch \/ KillDaemon
    <2>1. UNCHANGED pass
      BY <1>9 DEF Audit, Dedup, Park, Flush, FlushScan, FlushCreate, Discard, Unwatch, KillDaemon
    <2> QED
      BY <1>3, <2>1
  <1> QED
    BY <1>5, <1>6, <1>7, <1>8, <1>9 DEF AuditNext, AuditStep, FlushStep, PassStep

----------------------------------------------------------------------------
(* The audit queue as a whole.                                             *)

LEMMA AuditInvInit == AuditInit => AuditInv
  <1> SUFFICES ASSUME AuditInit PROVE AuditInv
    OBVIOUS
  <1>1. AuditShape
    BY AuditInitShape
  <1>2. /\ \A p \in Passes : pass[p] = IdlePass
        /\ batch = NoBatch /\ flush = IdleFlush
        /\ \A f \in Findings : issues[f] = 0
    BY DEF AuditInit
  <1>3. /\ IdlePass.at = "idle" /\ IdleFlush.at = "idle" /\ IdlePass.seen = {}
        /\ \A f \in Findings : /\ NoBatch.filed[f] = "none" /\ IdlePass.filed[f] = "none"
                               /\ IdlePass.base.filed[f] = "none"
    BY DEF IdlePass, IdleFlush, NoBatch, Unstamped
  <1>4. RacesKnown
    BY <1>2, <1>3 DEF RacesKnown, LookedBefore, OneIssueEach
  <1>5. TrueStamps /\ PassKeeps
    BY <1>2, <1>3 DEF TrueStamps, PassKeeps
  <1> QED
    BY <1>1, <1>4, <1>5 DEF AuditInv

LEMMA AuditInvKept == AuditInv /\ [AuditNext]_auditVars => AuditInv'
  <1> SUFFICES ASSUME AuditInv, [AuditNext]_auditVars PROVE AuditInv'
    OBVIOUS
  <1>1. CASE AuditNext
    BY <1>1, ShapeKept, RacesKnownKept, TrueStampsKept, PassKeepsKept DEF AuditInv
  <1>2. CASE UNCHANGED auditVars
    <2>1. UNCHANGED <<batch, audit, pass, ops, dead, flush, issues, used, raced, late>>
      BY <1>2 DEF auditVars
    <2>2. AuditShape'
      BY <2>1 DEF AuditInv, AuditShape
    <2>3. RacesKnown'
      BY <2>1 DEF AuditInv, RacesKnown, LookedBefore, NothingFiled, OneIssueEach
    <2>4. TrueStamps' /\ PassKeeps'
      BY <2>1 DEF AuditInv, TrueStamps, PassKeeps, Issued, Owed, Queued
    <2> QED
      BY <2>2, <2>3, <2>4 DEF AuditInv
  <1> QED
    BY <1>1, <1>2

LEMMA BatchIsKept == AuditInv /\ [AuditNext]_auditVars => BatchStands
  <1> SUFFICES ASSUME AuditInv, [AuditNext]_auditVars PROVE BatchStands
    OBVIOUS
  <1>0. AuditShape /\ batch.findings \subseteq Findings
    BY DEF AuditInv, AuditShape, Batch
  <1>1. CASE UNCHANGED batch
    BY <1>1 DEF BatchStands, Parked
  <1>2. CASE Park
    <2>1. audit.at = "park"
      BY <1>2 DEF Park
    <2>2. CASE batch' = [findings |-> audit.left, filed |-> Carried(audit.left)]
      <3>1. \A f \in batch.findings \cap batch'.findings : batch'.filed[f] = batch.filed[f]
        BY <1>0, <2>2 DEF Carried
      <3> QED
        BY <2>1, <3>1 DEF BatchStands
    <2> QED
      BY <1>1, <1>2, <2>2 DEF Park
  <1>3. CASE Discard \/ Unwatch
    <2>1. batch' = NoBatch
      BY <1>3 DEF Discard, Unwatch
    <2> QED
      BY <2>1, RestShapes DEF BatchStands
  <1>4. CASE FlushScan \/ FlushCreate
    <2>1. CASE UNCHANGED batch
      BY <1>1, <2>1
    <2>2. ASSUME NEW stamp \in {"created", "deduped"}, Sent(stamp) PROVE BatchStands
      <3>1. flush.at # "idle"
        BY <1>4 DEF FlushScan, FlushCreate
      <3>2. \A f \in Findings : \/ batch'.filed[f] = batch.filed[f]
                                \/ batch.filed[f] = "queued"
        BY <1>0, <2>2, <3>1, SentEffect
      <3>3. batch = NoBatch => batch' = NoBatch
        BY <1>0, <2>2, <3>1, SentEffect
      <3> QED
        BY <1>0, <3>2, <3>3 DEF BatchStands, Parked
    <2> QED
      BY <1>4, <2>1, <2>2 DEF FlushScan, FlushCreate, Offline, Attempted
  <1>5. ASSUME NEW p \in Passes, Save(p) PROVE BatchStands
    <2>1. pass[p].at = "file" /\ pass'[p] = IdlePass
      BY <1>0, <1>5 DEF Save, AuditShape
    <2>2. CASE pass[p].base # batch
      BY <2>1, <2>2 DEF BatchStands, StaleSave
    <2>3. CASE pass[p].base = batch
      <3>1. batch # NoBatch
        BY <2>1, <2>3 DEF AuditInv, PassKeeps
      <3>2. CASE batch' = [pass[p].base EXCEPT !.filed = pass[p].filed]
        <4>1. batch'.filed = pass[p].filed
          BY <3>2, <1>0, PassAt DEF Batch
        <4>2. \A f \in Findings : batch.filed[f] = "created" =>
                 batch'.filed[f] = "created" \/ f \in raced
          BY <2>3, <4>1 DEF AuditInv, PassKeeps
        <4> QED
          BY <1>0, <3>1, <4>2 DEF BatchStands, Parked
      <3> QED
        BY <1>1, <1>5, <3>2 DEF Save
    <2> QED
      BY <2>2, <2>3
  <1>6. ASSUME NEW p \in Passes, Open(p) \/ Scan(p) \/ File(p) \/ KillPass(p) PROVE UNCHANGED batch
    BY <1>6 DEF Open, Scan, File, KillPass
  <1>7. ASSUME Audit \/ Dedup \/ Flush \/ KillDaemon PROVE UNCHANGED batch
    BY <1>7 DEF Audit, Dedup, Flush, KillDaemon
  <1>8. CASE UNCHANGED auditVars
    BY <1>1, <1>8 DEF auditVars
  <1> QED
    BY <1>1, <1>2, <1>3, <1>4, <1>5, <1>6, <1>7, <1>8 DEF AuditNext, AuditStep, FlushStep, PassStep

----------------------------------------------------------------------------
(* The shape of the draft queue's state. Texts are numbered as they are    *)
(* written, so none is parked, posted or queued before it exists.          *)

PostRecord == [at : {"idle", "send", "out"}, text : 0 .. TextBound]
ReplayRecord == [at : {"idle", "scan", "send"}, op : Note \cup {NoNote}, todo : SUBSET Note]

\* What the replay has listed and not finished, and all that may still be sent.
Listing == IF replay.at = "idle" THEN {} ELSE {replay.op} \cup replay.todo
Pending == queue \cup Listing
Written == 1 .. count.texts

CountShape == count \in [DOMAIN Limit -> Nat] /\ count.texts <= TextBound
PostShape(r) == r \in PostRecord /\ (r = IdlePost \/ (r.at # "idle" /\ r.text \in Written))
ReplayShape ==
    /\ replay \in ReplayRecord
    /\ replay.at # "idle" => replay.op \in Note /\ replay.op \notin replay.todo

DraftShape ==
    /\ CountShape
    /\ draft \in {0} \cup Written /\ editor \in {0} \cup Written
    /\ post \in [Posters -> PostRecord] /\ \A p \in Posters : PostShape(post[p])
    /\ queue \subseteq Note /\ ReplayShape /\ \A o \in Pending : o.t \in Written
    /\ comments \in [Texts -> Nat] /\ posted \subseteq Texts

LEMMA WrittenAreTexts ==
    ASSUME CountShape
    PROVE  /\ count.texts \in Nat /\ count.mishaps \in Nat
           /\ Written \subseteq Texts /\ {0} \cup Written \subseteq 0 .. TextBound
           /\ 0 \notin Written
  <1>1. count.texts \in Nat /\ count.mishaps \in Nat
    BY DEF CountShape, Limit
  <1> QED
    BY <1>1, DraftReviewAssumption DEF CountShape, Written, Texts

LEMMA DraftShapeIsTypeOK == DraftShape => DraftTypeOK
  <1> SUFFICES ASSUME DraftShape PROVE DraftTypeOK
    OBVIOUS
  <1>1. draft \in 0 .. TextBound /\ editor \in 0 .. TextBound
    BY WrittenAreTexts DEF DraftShape
  <1>2. \A p \in Posters : post[p] \in [at : {"idle", "send", "out"}, text : 0 .. TextBound]
    BY DEF DraftShape, PostRecord
  <1>3. /\ replay.todo \subseteq Note /\ replay.at \in {"idle", "scan", "send"}
        /\ replay.at # "idle" => replay.op \in Note
    BY DEF DraftShape, ReplayShape, ReplayRecord
  <1> QED
    BY <1>1, <1>2, <1>3 DEF DraftShape, DraftTypeOK

LEMMA DraftRest ==
    /\ IdlePost \in PostRecord /\ IdlePost.at = "idle" /\ IdlePost.text = 0
    /\ IdleReplay \in ReplayRecord /\ IdleReplay.at = "idle"
  <1>1. 0 \in 0 .. TextBound
    BY DraftReviewAssumption
  <1> QED
    BY <1>1 DEF IdlePost, PostRecord, IdleReplay, ReplayRecord

LEMMA Limits == {"texts", "posts", "mishaps"} = DOMAIN Limit
  BY DEF Limit

LEMMA DraftInitShape == DraftInit => DraftShape
  <1> SUFFICES ASSUME DraftInit PROVE DraftShape
    OBVIOUS
  <1>1. CountShape
    <2>1. count \in [DOMAIN Limit -> Nat] /\ count.texts = 0
      BY Limits DEF DraftInit
    <2> QED
      BY <2>1, DraftReviewAssumption DEF CountShape
  <1>2. post \in [Posters -> PostRecord] /\ \A p \in Posters : PostShape(post[p])
    BY DraftRest DEF DraftInit, PostShape
  <1>3. ReplayShape /\ Pending = {}
    BY DraftRest DEF DraftInit, ReplayShape, Pending, Listing
  <1> QED
    BY <1>1, <1>2, <1>3 DEF DraftInit, DraftShape

\* What the bounds' counters do: only a new text moves the number of texts.
LEMMA TakeCounts ==
    ASSUME CountShape, NEW b \in {"posts", "mishaps"}, Take(b)
    PROVE  CountShape' /\ count'.texts = count.texts
  BY Limits DEF CountShape, Take

LEMMA CountsKept ==
    ASSUME CountShape, UNCHANGED count \/ Take("posts") \/ Take("mishaps")
    PROVE  CountShape' /\ Written' = Written
  <1>1. CASE UNCHANGED count
    BY <1>1 DEF CountShape, Written
  <1>2. CASE Take("posts") \/ Take("mishaps")
    BY <1>2, TakeCounts DEF Written
  <1> QED
    BY <1>1, <1>2

LEMMA PutEffect ==
    ASSUME CountShape, Put
    PROVE  /\ CountShape' /\ draft' = count.texts + 1
           /\ draft' \in Written' /\ draft' \notin Written /\ Written \subseteq Written'
  <1>1. count.texts \in Nat /\ "texts" \in DOMAIN Limit
    BY Limits DEF CountShape
  <1>2. count.texts < TextBound
    BY DEF Put, Take, Limit
  <1>3. count' = [count EXCEPT !["texts"] = @ + 1] /\ draft' = count.texts + 1
    BY DEF Put, Take
  <1>4. count'.texts = count.texts + 1 /\ count' \in [DOMAIN Limit -> Nat]
    BY <1>1, <1>3 DEF CountShape
  <1>5. CountShape'
    BY <1>1, <1>2, <1>4, DraftReviewAssumption DEF CountShape
  <1> QED
    BY <1>1, <1>3, <1>4, <1>5 DEF Written

\* The next op listed has its turn; the rest stays to come.
LEMMA InTurnEffect ==
    ASSUME NEW listed \in SUBSET Note, InTurnOf(listed)
    PROVE  ReplayShape' /\ replay'.at = "scan" /\ Listing' = listed
  <1>1. PICK op \in listed : replay' = [at |-> "scan", op |-> op, todo |-> listed \ {op}]
    BY DEF InTurnOf
  <1>2. ReplayShape' /\ replay'.at = "scan"
    BY <1>1 DEF ReplayShape, ReplayRecord
  <1>3. Listing' = {op} \cup (listed \ {op})
    BY <1>1 DEF Listing
  <1> QED
    BY <1>2, <1>3

LEMMA OnwardEffect ==
    ASSUME ReplayShape, Onward
    PROVE  ReplayShape' /\ replay'.at \in {"idle", "scan"} /\ Listing' = replay.todo
  <1>1. replay.todo \in SUBSET Note
    BY DEF ReplayShape, ReplayRecord
  <1>2. CASE InTurnOf(replay.todo)
    BY <1>1, <1>2, InTurnEffect
  <1>3. CASE replay.todo = {} /\ replay' = IdleReplay
    BY <1>3, DraftRest DEF ReplayShape, Listing
  <1> QED
    BY <1>2, <1>3 DEF Onward

LEMMA CutEffect ==
    ASSUME replay' = IdleReplay
    PROVE  ReplayShape' /\ replay'.at = "idle" /\ Listing' = {}
  BY DraftRest DEF ReplayShape, Listing

\* What a refusal does: the op leaves the listing, and is queued anew or given up.
LEMMA DeniedEffect ==
    ASSUME DraftShape, replay.at # "idle", Denied
    PROVE  /\ ReplayShape' /\ replay'.at \in {"idle", "scan"} /\ Listing' = replay.todo
           /\ UNCHANGED count /\ queue' \subseteq Note /\ buried \subseteq buried'
           /\ \A o \in queue' : \/ o \in queue /\ o # replay.op
                                \/ o.t = replay.op.t
           /\ \A o1, o2 \in queue' : o1 \notin queue \ {replay.op} /\ o2 \notin queue \ {replay.op}
                                        => o1 = o2
           /\ \A t \in Texts : InQueue(t) => InQueue(t)' \/ (t = replay.op.t /\ t \in buried')
  <1> DEFINE op == replay.op
             again == [op EXCEPT !.attempts = @ + 1]
  <1>1. op \in Note /\ op.t \in Texts /\ op.attempts \in 0 .. TryLimit - 1
    BY DEF DraftShape, ReplayShape, Note
  <1>2. again.t = op.t /\ again.attempts = op.attempts + 1
    BY <1>1 DEF Note
  <1>3. again.attempts < TryLimit => again \in Note
    BY <1>1, <1>2, DraftReviewAssumption DEF Note
  <1>4. again.attempts < TryLimit \/ again.attempts >= TryLimit
    BY <1>1, <1>2, DraftReviewAssumption
  <1>5. /\ queue' = (queue \ {op}) \cup (IF again.attempts < TryLimit THEN {again} ELSE {})
        /\ buried' = IF again.attempts >= TryLimit /\ op \in queue THEN buried \cup {op.t} ELSE buried
        /\ Onward /\ UNCHANGED count
    BY DEF Denied
  <1> HIDE DEF op, again
  <1>6. queue' \subseteq Note /\ buried \subseteq buried'
    BY <1>3, <1>5 DEF DraftShape
  <1>7. \A o \in queue' : (o \in queue /\ o # op) \/ o.t = op.t
    BY <1>2, <1>5
  <1>8. \A o1, o2 \in queue' : o1 \notin queue \ {op} /\ o2 \notin queue \ {op} => o1 = o2
    BY <1>5
  <1>9. ASSUME NEW t \in Texts, InQueue(t) PROVE InQueue(t)' \/ (t = op.t /\ t \in buried')
    <2>1. PICK o \in queue : o.t = t
      BY <1>9 DEF InQueue
    <2>2. CASE o # op
      <3>1. o \in queue'
        BY <2>1, <2>2, <1>5
      <3> QED
        BY <2>1, <3>1 DEF InQueue
    <2>3. CASE o = op /\ again.attempts < TryLimit
      <3>1. again \in queue' /\ again.t = t
        BY <2>1, <2>3, <1>2, <1>5
      <3> QED
        BY <3>1 DEF InQueue
    <2>4. CASE o = op /\ again.attempts >= TryLimit
      BY <2>1, <2>4, <1>5
    <2> QED
      BY <2>2, <2>3, <2>4, <1>4
  <1>10. ReplayShape' /\ replay'.at \in {"idle", "scan"} /\ Listing' = replay.todo
    BY <1>5, OnwardEffect DEF DraftShape
  <1> QED
    BY <1>5, <1>6, <1>7, <1>8, <1>9, <1>10 DEF op

\* One poster changes.
LEMMA PostSet ==
    ASSUME DraftShape, NEW p \in Posters, NEW r, PostShape(r), post' = [post EXCEPT ![p] = r]
    PROVE  /\ post' \in [Posters -> PostRecord] /\ post'[p] = r
           /\ \A q \in Posters \ {p} : post'[q] = post[q]
           /\ \A q \in Posters : PostShape(post'[q])
  BY DEF DraftShape, PostShape

LEMMA DraftShapeKept == DraftShape /\ DraftNext => DraftShape'
  <1> SUFFICES ASSUME DraftShape, DraftNext PROVE DraftShape'
    OBVIOUS
  <1>0. /\ CountShape /\ count.texts \in Nat
        /\ draft \in {0} \cup Written /\ editor \in {0} \cup Written
        /\ post \in [Posters -> PostRecord] /\ \A p \in Posters : PostShape(post[p])
        /\ queue \subseteq Note /\ ReplayShape /\ \A o \in Pending : o.t \in Written
        /\ comments \in [Texts -> Nat] /\ posted \subseteq Texts
        /\ Written \subseteq Texts
    BY WrittenAreTexts DEF DraftShape
  <1>c. ASSUME NEW t \in Texts, Comment(t) PROVE comments' \in [Texts -> Nat]
    BY <1>0, <1>c DEF Comment
  \* A step that writes no text.
  <1>1. ASSUME CountShape', Written' = Written,
               draft' \in {0, draft}, editor' \in {0, editor, draft},
               post' \in [Posters -> PostRecord], \A p \in Posters : PostShape(post'[p]),
               queue' \subseteq Note, ReplayShape', \A o \in Pending' : o.t \in Written,
               comments' \in [Texts -> Nat], posted' \subseteq Texts
        PROVE  DraftShape'
    <2>1. draft' \in {0} \cup Written' /\ editor' \in {0} \cup Written'
      BY <1>0, <1>1
    <2>2. \A p \in Posters : PostShape(post[p])'
      BY <1>1 DEF PostShape
    <2>3. \A o \in Pending' : o.t \in Written'
      BY <1>1
    <2> QED
      BY <1>1, <2>1, <2>2, <2>3 DEF DraftShape
  <1>2. CASE Draft \/ CloseEditor
    <2>0. UNCHANGED <<post, queue, replay, comments, posted>> /\ editor' \in {0, editor}
      BY <1>2 DEF Draft, CloseEditor
    <2>1. Pending' = Pending /\ ReplayShape'
      BY <1>0, <2>0 DEF Pending, Listing, ReplayShape
    <2>2. CASE Put
      <3>1. CountShape' /\ draft' \in Written' /\ Written \subseteq Written'
        BY <1>0, <2>2, PutEffect
      <3>2. \A p \in Posters : PostShape(post[p])'
        BY <1>0, <2>0, <3>1 DEF PostShape
      <3>3. editor' \in {0} \cup Written'
        BY <1>0, <2>0, <3>1
      <3>4. \A o \in Pending' : o.t \in Written'
        BY <1>0, <2>1, <3>1
      <3> QED
        BY <1>0, <2>0, <2>1, <3>1, <3>2, <3>3, <3>4 DEF DraftShape
    <2>3. CASE UNCHANGED <<draft, count, swapped>>
      <3>1. CountShape' /\ Written' = Written
        BY <1>0, <2>3, CountsKept
      <3> QED
        BY <1>0, <1>1, <2>0, <2>1, <2>3, <3>1
    <2> QED
      BY <1>2, <2>2, <2>3 DEF Draft, CloseEditor
  <1>3. CASE OpenEditor \/ Toss \/ Forget
    <2>1. CountShape' /\ Written' = Written
      BY <1>0, <1>3, CountsKept DEF OpenEditor, Toss, Forget
    <2>2. /\ draft' \in {0, draft} /\ editor' \in {editor, draft}
          /\ UNCHANGED <<post, replay, comments, posted>> /\ queue' \subseteq queue
      BY <1>3 DEF OpenEditor, Toss, Forget
    <2>3. Pending' \subseteq Pending /\ ReplayShape'
      BY <1>0, <2>2 DEF Pending, Listing, ReplayShape
    <2>4. /\ queue' \subseteq Note /\ \A o \in Pending' : o.t \in Written
          /\ post' \in [Posters -> PostRecord] /\ \A p \in Posters : PostShape(post'[p])
          /\ comments' \in [Texts -> Nat] /\ posted' \subseteq Texts
      BY <1>0, <2>2, <2>3
    <2> QED
      BY <1>1, <2>1, <2>2, <2>3, <2>4
  <1>4. CASE Replay \/ KillReplay
    <2>1. CountShape' /\ Written' = Written
      BY <1>0, <1>4, CountsKept DEF Replay, KillReplay
    <2>2. UNCHANGED <<draft, editor, post, queue, comments, posted>>
      BY <1>4 DEF Replay, KillReplay
    <2>3. ReplayShape' /\ Listing' \subseteq queue
      <3>1. CASE Replay
        BY <1>0, <3>1, InTurnEffect DEF Replay
      <3>2. CASE KillReplay
        BY <3>2, CutEffect DEF KillReplay
      <3> QED
        BY <1>4, <3>1, <3>2
    <2>4. \A o \in Pending' : o.t \in Written
      BY <1>0, <2>2, <2>3 DEF Pending
    <2> QED
      BY <1>0, <1>1, <2>1, <2>2, <2>3, <2>4
  <1>5. CASE Look \/ Deliver
    <2>0. replay.at # "idle" /\ UNCHANGED <<draft, editor, post, posted>>
      BY <1>5 DEF Look, Deliver
    <2>1. replay.op \in Note /\ replay.op.t \in Written
      BY <1>0, <2>0 DEF ReplayShape, Pending, Listing
    <2>2. PICK t \in Texts : t = replay.op.t
      BY <1>0, <2>1
    <2>3. comments' \in [Texts -> Nat]
      <3>1. UNCHANGED comments \/ Comment(t)
        BY <1>5, <2>2 DEF Look, Deliver
      <3> QED
        BY <1>0, <1>c, <3>1
    <2>4. CountShape' /\ Written' = Written
      BY <1>0, <1>5, CountsKept DEF Look, Deliver, Denied
    <2>5. queue' \subseteq Note /\ ReplayShape' /\ \A o \in Pending' : o.t \in Written
      <3>1. CASE Gone
        <4>1. ReplayShape' /\ Listing' = replay.todo /\ queue' = queue \ {replay.op}
          BY <1>0, <3>1, OnwardEffect DEF Gone
        <4>2. Pending' \subseteq Pending
          BY <2>0, <4>1 DEF Pending, Listing
        <4> QED
          BY <1>0, <4>1, <4>2
      <3>2. CASE Cut
        <4>1. ReplayShape' /\ Listing' = {} /\ queue' = queue
          BY <3>2, CutEffect DEF Cut
        <4> QED
          BY <1>0, <4>1 DEF Pending
      <3>3. CASE Denied
        <4>1. /\ ReplayShape' /\ Listing' = replay.todo /\ queue' \subseteq Note
              /\ \A o \in queue' : (o \in queue /\ o # replay.op) \/ o.t = replay.op.t
          BY <2>0, <3>3, DeniedEffect
        <4>2. \A o \in Listing' : o \in Pending
          BY <2>0, <4>1 DEF Pending, Listing
        <4>3. \A o \in queue' : o.t \in Written
          BY <1>0, <2>1, <4>1 DEF Pending
        <4> QED
          BY <1>0, <4>1, <4>2, <4>3 DEF Pending
      <3>4. CASE replay' = [replay EXCEPT !.at = "send"] /\ UNCHANGED queue
        <4>1. replay' \in ReplayRecord /\ replay'.op = replay.op /\ replay'.todo = replay.todo
              /\ replay'.at = "send"
          BY <1>0, <3>4 DEF ReplayShape, ReplayRecord
        <4>2. ReplayShape'
          BY <1>0, <2>0, <4>1 DEF ReplayShape
        <4>3. Pending' = Pending
          BY <2>0, <3>4, <4>1 DEF Pending, Listing
        <4> QED
          BY <1>0, <3>4, <4>2, <4>3
      <3> QED
        BY <1>5, <3>1, <3>2, <3>3, <3>4 DEF Look, Deliver
    <2> QED
      BY <1>0, <1>1, <2>0, <2>3, <2>4, <2>5
  <1>6. ASSUME NEW p \in Posters, StartPost(p) \/ Archive(p) \/ KillPoster(p) PROVE DraftShape'
    <2>1. CountShape' /\ Written' = Written
      BY <1>0, <1>6, CountsKept DEF StartPost, Archive, KillPoster
    <2>2. /\ draft' \in {0, draft} /\ posted' \subseteq posted \cup ({draft} \ {0})
          /\ UNCHANGED <<editor, queue, replay, comments>>
      BY <1>6 DEF StartPost, Archive, KillPoster
    <2>3. PICK r : PostShape(r) /\ post' = [post EXCEPT ![p] = r]
      <3>1. CASE StartPost(p)
        <4>1. draft \in Written /\ draft \in 0 .. TextBound
          BY <1>0, <3>1, WrittenAreTexts DEF StartPost
        <4>2. PostShape([at |-> "send", text |-> draft])
          BY <4>1 DEF PostShape, PostRecord
        <4> QED
          BY <3>1, <4>2 DEF StartPost
      <3>2. CASE Archive(p) \/ KillPoster(p)
        <4>1. PostShape(IdlePost)
          BY DraftRest DEF PostShape
        <4> QED
          BY <3>2, <4>1 DEF Archive, KillPoster
      <3> QED
        BY <1>6, <3>1, <3>2
    <2>4. post' \in [Posters -> PostRecord] /\ \A q \in Posters : PostShape(post'[q])
      BY <2>3, PostSet
    <2>5. posted' \subseteq Texts
      BY <1>0, <2>2
    <2>6. Pending' = Pending /\ ReplayShape'
      BY <1>0, <2>2 DEF Pending, Listing, ReplayShape
    <2> QED
      BY <1>0, <1>1, <2>1, <2>2, <2>4, <2>5, <2>6
  <1>7. ASSUME NEW p \in Posters, Send(p) PROVE DraftShape'
    <2>0. post[p].at = "send" /\ UNCHANGED <<draft, editor, replay, posted>>
      BY <1>7 DEF Send
    <2>1. CountShape' /\ Written' = Written /\ count.mishaps \in Nat
      BY <1>0, <1>7, CountsKept, WrittenAreTexts DEF Send
    <2>2. post[p] \in PostRecord /\ post[p].text \in Written
      BY <1>0, <2>0, DraftRest DEF PostShape
    <2>3. PICK t \in Texts : t = post[p].text
      BY <1>0, <2>2
    <2>4. comments' \in [Texts -> Nat]
      <3>1. UNCHANGED comments \/ Comment(t)
        BY <1>7, <2>3 DEF Send
      <3> QED
        BY <1>0, <1>c, <3>1
    <2>5. PICK r : PostShape(r) /\ post' = [post EXCEPT ![p] = r]
      <3>1. CASE post' = [post EXCEPT ![p].at = "out"]
        <4>1. [post[p] EXCEPT !.at = "out"] \in PostRecord
          BY <2>2 DEF PostRecord
        <4>2. [post[p] EXCEPT !.at = "out"].text = post[p].text /\ [post[p] EXCEPT !.at = "out"].at = "out"
          BY <2>2 DEF PostRecord
        <4>3. PostShape([post[p] EXCEPT !.at = "out"])
          BY <2>2, <4>1, <4>2 DEF PostShape
        <4>4. post' = [post EXCEPT ![p] = [post[p] EXCEPT !.at = "out"]]
          BY <1>0, <3>1
        <4> QED
          BY <4>3, <4>4
      <3>2. CASE post' = [post EXCEPT ![p] = IdlePost]
        <4>1. PostShape(IdlePost)
          BY DraftRest DEF PostShape
        <4> QED
          BY <3>2, <4>1
      <3> QED
        BY <1>7, <3>1, <3>2 DEF Send
    <2>6. post' \in [Posters -> PostRecord] /\ \A q \in Posters : PostShape(post'[q])
      BY <2>5, PostSet
    <2>7. queue' \subseteq Note /\ \A o \in queue' : o.t \in Written
      <3>1. queue' = queue \/ queue' = queue \cup {[t |-> t, attempts |-> 0, name |-> count.mishaps]}
        BY <1>7, <2>3 DEF Send
      <3>2. [t |-> t, attempts |-> 0, name |-> count.mishaps] \in Note
        BY <2>1, <2>3, DraftReviewAssumption DEF Note
      <3> QED
        BY <1>0, <2>2, <2>3, <3>1, <3>2 DEF Pending
    <2>8. ReplayShape' /\ Listing' = Listing
      BY <1>0, <2>0 DEF Listing, ReplayShape
    <2>9. \A o \in Pending' : o.t \in Written
      BY <1>0, <2>7, <2>8 DEF Pending
    <2> QED
      BY <1>0, <1>1, <2>0, <2>1, <2>4, <2>6, <2>7, <2>8, <2>9
  <1> QED
    BY <1>2, <1>3, <1>4, <1>5, <1>6, <1>7 DEF DraftNext, PostStep, ReplayStep

----------------------------------------------------------------------------
(* One comment for each text t whose posts do not overlap. Who is about to *)
(* post it knows that it is neither on the issue nor on its way there, and *)
(* one op at most is on its way.                                           *)

OnePoster(t) == \A p, q \in Posters : post[p].text = t /\ post[q].text = t => p = q
OneOp(t) == \A o1, o2 \in Pending : o1.t = t /\ o2.t = t => o1 = o2
Unsent(t) == \A p \in Posters : post[p].at = "send" /\ post[p].text = t =>
                comments[t] = 0 /\ \A o \in Pending : o.t # t
SeenNone(t) == replay.at = "send" /\ replay.op.t = t => comments[t] = 0
Known(t) == draft = t /\ (\E o \in Pending : o.t = t) => InQueue(t) \/ comments[t] > 0
OnceFor(t) == OnePoster(t) /\ OneOp(t) /\ Unsent(t) /\ SeenNone(t) /\ Known(t) /\ comments[t] <= 1

OnePost == \A t \in Texts \ twice : OnceFor(t)

LEMMA OnePostIsEnough == DraftShape /\ OnePost => OneCommentEach
  <1> SUFFICES ASSUME DraftShape, OnePost, NEW t \in Texts, comments[t] > 1 PROVE t \in twice
    BY DEF OneCommentEach
  <1>1. comments[t] \in Nat
    BY DEF DraftShape
  <1> QED
    BY <1>1 DEF OnePost, OnceFor

\* A step that posts no comment, starts no post and sends nothing more.
LEMMA OnceStays ==
    ASSUME NEW t, OnceFor(t), comments'[t] = comments[t],
           \A p \in Posters : post'[p].text = t =>
               post[p].text = t /\ (post'[p].at = "send" => post[p].at = "send"),
           Pending' \subseteq Pending,
           replay'.at = "send" /\ replay'.op.t = t =>
               comments[t] = 0 \/ (replay.at = "send" /\ replay.op.t = t),
           draft' = t /\ (\E o \in Pending' : o.t = t) => draft = t,
           InQueue(t) => InQueue(t)' \/ comments[t] > 0 \/ \A o \in Pending' : o.t # t
    PROVE  OnceFor(t)'
  <1>1. OnePoster(t)'
    BY DEF OnceFor, OnePoster
  <1>2. OneOp(t)'
    BY DEF OnceFor, OneOp
  <1>3. Unsent(t)'
    BY DEF OnceFor, Unsent
  <1>4. SeenNone(t)'
    BY DEF OnceFor, SeenNone
  <1>5. Known(t)'
    BY DEF OnceFor, Known
  <1> QED
    BY <1>1, <1>2, <1>3, <1>4, <1>5 DEF OnceFor

\* The op of text e leaves the listing with its comment on the issue.
LEMMA OnceGone ==
    ASSUME DraftShape, replay.at # "idle", Gone, NEW e \in Texts, e = replay.op.t,
           NEW t \in Texts, OnceFor(t), UNCHANGED <<post, draft>>,
           comments'[e] > 0, t # e => comments'[t] = comments[t],
           comments'[t] <= 1, t = e => comments[t] = 0 \/ comments'[t] = comments[t]
    PROVE  OnceFor(t)'
  <1>0. replay.op \in Pending
    BY DEF Pending, Listing
  <1>1. /\ replay'.at \in {"idle", "scan"} /\ Listing' = replay.todo
        /\ queue' = queue \ {replay.op}
    BY OnwardEffect DEF Gone, DraftShape
  <1>2. Pending' \subseteq Pending
    BY <1>1 DEF Pending, Listing
  <1>3. OnePoster(t)' /\ OneOp(t)' /\ SeenNone(t)'
    BY <1>1, <1>2 DEF OnceFor, OnePoster, OneOp, SeenNone
  <1>4. Unsent(t)'
    <2>1. CASE t = e
      BY <1>0, <2>1 DEF OnceFor, Unsent
    <2>2. CASE t # e
      BY <1>2, <2>2 DEF OnceFor, Unsent
    <2> QED
      BY <2>1, <2>2
  <1>5. Known(t)'
    <2>1. CASE t = e
      BY <2>1 DEF Known
    <2>2. CASE t # e
      <3>1. InQueue(t) => InQueue(t)'
        BY <1>1, <2>2 DEF InQueue
      <3> QED
        BY <1>2, <2>2, <3>1 DEF OnceFor, Known
    <2> QED
      BY <2>1, <2>2
  <1> QED
    BY <1>3, <1>4, <1>5 DEF OnceFor

\* The flush ends before the op of text e is done with.
LEMMA OnceCut ==
    ASSUME DraftShape, replay.at # "idle", Cut, NEW e \in Texts, e = replay.op.t,
           NEW t \in Texts, OnceFor(t), UNCHANGED <<post, draft>>,
           t # e => comments'[t] = comments[t],
           comments'[t] <= 1, comments[t] > 0 => comments'[t] > 0
    PROVE  OnceFor(t)'
  <1>0. replay.op \in Pending
    BY DEF Pending, Listing
  <1>1. replay'.at = "idle" /\ Listing' = {} /\ queue' = queue
    BY CutEffect DEF Cut
  <1>2. Pending' \subseteq Pending
    BY <1>1 DEF Pending
  <1>3. OnePoster(t)' /\ OneOp(t)' /\ SeenNone(t)'
    BY <1>1, <1>2 DEF OnceFor, OnePoster, OneOp, SeenNone
  <1>4. Unsent(t)'
    <2>1. CASE t = e
      BY <1>0, <2>1 DEF OnceFor, Unsent
    <2>2. CASE t # e
      BY <1>2, <2>2 DEF OnceFor, Unsent
    <2> QED
      BY <2>1, <2>2
  <1>5. Known(t)'
    BY <1>1 DEF Known, Pending, InQueue
  <1> QED
    BY <1>3, <1>4, <1>5 DEF OnceFor

\* The op of text e is refused: queued anew, or given up.
LEMMA OnceDenied ==
    ASSUME DraftShape, replay.at # "idle", Denied, NEW e \in Texts, e = replay.op.t,
           NEW t \in Texts, OnceFor(t), UNCHANGED <<post, draft, comments>>
    PROVE  OnceFor(t)'
  <1>0. replay.op \in Pending /\ replay.op \notin replay.todo
    BY DEF Pending, Listing, DraftShape, ReplayShape
  <1>1. /\ replay'.at \in {"idle", "scan"} /\ Listing' = replay.todo
        /\ \A o \in queue' : (o \in queue /\ o # replay.op) \/ o.t = e
        /\ \A o1, o2 \in queue' : o1 \notin queue \ {replay.op} /\ o2 \notin queue \ {replay.op}
                                     => o1 = o2
        /\ \A u \in Texts : InQueue(u) => InQueue(u)' \/ u = e
    BY DeniedEffect
  <1>2. Listing' \subseteq Pending
    BY <1>1 DEF Pending, Listing
  <1>3. CASE t # e
    <2>1. \A o \in Pending' : o.t = t => o \in Pending
      BY <1>1, <1>2, <1>3 DEF Pending
    <2>2. OnePoster(t)' /\ OneOp(t)' /\ SeenNone(t)' /\ Unsent(t)'
      BY <1>1, <2>1 DEF OnceFor, OnePoster, OneOp, SeenNone, Unsent
    <2>3. Known(t)'
      BY <1>1, <1>3, <2>1 DEF OnceFor, Known
    <2> QED
      BY <2>2, <2>3 DEF OnceFor
  <1>4. CASE t = e
    <2>1. \A o \in Pending : o.t = t => o = replay.op
      BY <1>0, <1>4 DEF OnceFor, OneOp
    <2>2. \A o \in Pending' : o.t = t => o \in queue' /\ o \notin queue \ {replay.op}
      <3> SUFFICES ASSUME NEW o \in Pending', o.t = t
                   PROVE  o \in queue' /\ o \notin queue \ {replay.op}
        OBVIOUS
      <3>1. o \notin queue \ {replay.op}
        BY <2>1 DEF Pending
      <3>2. o \notin replay.todo
        BY <1>0, <1>1, <1>2, <2>1
      <3> QED
        BY <1>1, <3>1, <3>2 DEF Pending
    <2>3. OneOp(t)'
      BY <1>1, <2>2 DEF OneOp
    <2>4. Unsent(t)'
      BY <1>0, <1>4 DEF OnceFor, Unsent
    <2>5. OnePoster(t)' /\ SeenNone(t)'
      BY <1>1 DEF OnceFor, OnePoster, SeenNone
    <2>6. Known(t)'
      BY <2>2 DEF Known, InQueue
    <2> QED
      BY <2>3, <2>4, <2>5, <2>6 DEF OnceFor
  <1> QED
    BY <1>3, <1>4

LEMMA OnePostKept == DraftShape /\ OnePost /\ DraftNext => OnePost'
  <1> SUFFICES ASSUME DraftShape, OnePost, DraftNext PROVE OnePost'
    OBVIOUS
  <1>0. /\ CountShape /\ post \in [Posters -> PostRecord]
        /\ \A p \in Posters : PostShape(post[p])
        /\ ReplayShape /\ \A o \in Pending : o.t \in Written
        /\ comments \in [Texts -> Nat] /\ Written \subseteq Texts
        /\ \A t \in Texts : t # 0
    BY WrittenAreTexts DEF DraftShape, Texts
  <1>i. IdlePost.at = "idle" /\ IdlePost.text = 0
    BY DraftRest
  <1>c. ASSUME NEW t \in Texts, Comment(t)
        PROVE  comments'[t] = comments[t] + 1 /\ comments[t] \in Nat
               /\ \A u \in Texts \ {t} : comments'[u] = comments[u]
    BY <1>0, <1>c DEF Comment
  \* Texts posted twice stay so: what holds of the others is enough.
  <1>1. twice \subseteq twice'
    BY DEF DraftNext, Draft, OpenEditor, CloseEditor, ReplayStep, Replay, Look, Deliver, Toss,
           Forget, KillReplay, StartPost, PostStep, Send, Archive, KillPoster
  <1>2. ASSUME NEW t \in Texts \ twice' PROVE OnceFor(t)'
    <2>0. OnceFor(t) /\ t \in Texts /\ t # 0 /\ comments[t] \in Nat /\ comments[t] <= 1
      BY <1>0, <1>1, <1>2 DEF OnePost, OnceFor
    <2>1. CASE Draft \/ CloseEditor
      <3>1. UNCHANGED <<post, queue, replay, comments>> /\ Pending' = Pending
        BY <2>1 DEF Draft, CloseEditor, Pending, Listing
      <3>2. draft' = draft \/ draft' \notin Written
        BY <1>0, <2>1, PutEffect DEF Draft, CloseEditor
      <3>3. draft' = t /\ (\E o \in Pending' : o.t = t) => draft = t
        BY <1>0, <3>1, <3>2
      <3>4. InQueue(t) => InQueue(t)'
        BY <3>1 DEF InQueue
      <3> QED
        BY <2>0, <3>1, <3>3, <3>4, OnceStays
    <2>2. CASE OpenEditor \/ Toss
      <3>1. UNCHANGED <<post, queue, replay, comments>> /\ Pending' = Pending /\ draft' \in {0, draft}
        BY <2>2 DEF OpenEditor, Toss, Pending, Listing
      <3>2. InQueue(t) => InQueue(t)'
        BY <3>1 DEF InQueue
      <3> QED
        BY <2>0, <3>1, <3>2, OnceStays
    <2>3. CASE Forget
      <3>1. UNCHANGED <<post, replay, comments>> /\ Pending' \subseteq Pending /\ draft' = 0
        BY <2>3 DEF Forget, Pending, Listing
      <3>2. OnePoster(t)' /\ OneOp(t)' /\ Unsent(t)' /\ SeenNone(t)'
        BY <2>0, <3>1 DEF OnceFor, OnePoster, OneOp, Unsent, SeenNone
      <3>3. Known(t)'
        BY <2>0, <3>1 DEF Known
      <3> QED
        BY <2>0, <3>1, <3>2, <3>3 DEF OnceFor
    <2>4. CASE Replay \/ KillReplay
      <3>1. UNCHANGED <<post, queue, comments, draft>>
        BY <2>4 DEF Replay, KillReplay
      <3>2. replay'.at # "send" /\ Listing' \subseteq queue
        <4>1. CASE Replay
          <5>1. queue \in SUBSET Note
            BY DEF DraftShape
          <5> QED
            BY <4>1, <5>1, InTurnEffect DEF Replay
        <4>2. CASE KillReplay
          BY <4>2, CutEffect DEF KillReplay
        <4> QED
          BY <2>4, <4>1, <4>2
      <3>3. Pending' \subseteq Pending
        BY <3>1, <3>2 DEF Pending
      <3>4. InQueue(t) => InQueue(t)'
        BY <3>1 DEF InQueue
      <3> QED
        BY <2>0, <3>1, <3>2, <3>3, <3>4, OnceStays
    <2>5. CASE Look \/ Deliver
      <3>0. replay.at # "idle" /\ UNCHANGED <<draft, post>>
        BY <2>5 DEF Look, Deliver
      <3>1. PICK e \in Texts : e = replay.op.t
        BY <1>0, <3>0 DEF Pending, Listing
      <3>2. CASE UNCHANGED comments /\ Denied
        BY <2>0, <3>0, <3>1, <3>2, OnceDenied
      <3>3. CASE UNCHANGED comments /\ Cut
        BY <2>0, <3>0, <3>1, <3>3, OnceCut
      <3>4. CASE UNCHANGED comments /\ comments[e] > 0 /\ Gone
        BY <2>0, <3>0, <3>1, <3>4, OnceGone
      <3>5. CASE UNCHANGED <<comments, queue>> /\ comments[e] = 0 /\ replay' = [replay EXCEPT !.at = "send"]
        <4>1. replay'.op = replay.op /\ replay'.todo = replay.todo /\ replay'.at = "send"
          BY <1>0, <3>5 DEF ReplayShape, ReplayRecord
        <4>2. Pending' = Pending
          BY <3>0, <3>5, <4>1 DEF Pending, Listing
        <4>3. InQueue(t) => InQueue(t)'
          BY <3>5 DEF InQueue
        <4>4. replay'.at = "send" /\ replay'.op.t = t => comments[t] = 0
          BY <3>1, <3>5, <4>1
        <4> QED
          BY <2>0, <3>0, <3>5, <4>2, <4>3, <4>4, OnceStays
      <3>6. CASE replay.at = "send" /\ Comment(e) /\ (Gone \/ Cut)
        <4>1. /\ comments'[e] = comments[e] + 1 /\ comments[e] \in Nat
              /\ t # e => comments'[t] = comments[t]
          BY <1>c, <3>6
        <4>2. t = e => comments[t] = 0
          BY <2>0, <3>1, <3>6 DEF OnceFor, SeenNone
        <4>3. comments'[t] <= 1 /\ comments'[e] > 0 /\ (comments[t] > 0 => comments'[t] > 0)
          BY <2>0, <4>1, <4>2
        <4>4. CASE Gone
          BY <2>0, <3>0, <3>1, <4>1, <4>2, <4>3, <4>4, OnceGone
        <4>5. CASE Cut
          BY <2>0, <3>0, <3>1, <4>1, <4>3, <4>5, OnceCut
        <4> QED
          BY <3>6, <4>4, <4>5
      <3> QED
        BY <2>5, <3>1, <3>2, <3>3, <3>4, <3>5, <3>6 DEF Look, Deliver
    <2>6. ASSUME NEW p \in Posters, Archive(p) \/ KillPoster(p) PROVE OnceFor(t)'
      <3>1. UNCHANGED <<queue, replay, comments>> /\ draft' \in {0, draft}
            /\ post' = [post EXCEPT ![p] = IdlePost]
        BY <2>6 DEF Archive, KillPoster
      <3>2. Pending' = Pending /\ (InQueue(t) => InQueue(t)')
        BY <3>1 DEF Pending, Listing, InQueue
      <3>3. \A q \in Posters : post'[q].text = t =>
               post[q].text = t /\ (post'[q].at = "send" => post[q].at = "send")
        BY <1>0, <1>i, <2>0, <3>1
      <3> QED
        BY <2>0, <3>1, <3>2, <3>3, OnceStays
    <2>7. ASSUME NEW p \in Posters, StartPost(p) PROVE OnceFor(t)'
      <3>1. UNCHANGED <<draft, queue, replay, comments>>
            /\ post' = [post EXCEPT ![p] = [at |-> "send", text |-> draft]] /\ post[p] = IdlePost
        BY <2>7 DEF StartPost
      <3>2. Pending' = Pending /\ (InQueue(t) => InQueue(t)')
        BY <3>1 DEF Pending, Listing, InQueue
      <3>3. post'[p].text = draft /\ \A q \in Posters \ {p} : post'[q] = post[q]
        BY <1>0, <3>1
      <3>4. CASE draft # t
        <4>1. \A q \in Posters : post'[q].text = t =>
                 post[q].text = t /\ (post'[q].at = "send" => post[q].at = "send")
          BY <3>3, <3>4
        <4> QED
          BY <2>0, <3>1, <3>2, <4>1, OnceStays
      <3>5. CASE draft = t
        <4>1. ~(comments[t] > 0) /\ ~InQueue(t) /\ \A q \in Posters : post[q].text # t
          BY <1>2, <2>7, <3>5 DEF StartPost
        <4>2. comments[t] = 0 /\ \A o \in Pending : o.t # t
          BY <2>0, <3>5, <4>1 DEF OnceFor, Known
        <4>3. OnePoster(t)'
          BY <3>3, <4>1 DEF OnePoster
        <4>4. Unsent(t)' /\ OneOp(t)' /\ SeenNone(t)' /\ Known(t)'
          BY <3>1, <3>2, <4>2 DEF Unsent, OneOp, SeenNone, Known
        <4> QED
          BY <2>0, <3>1, <4>3, <4>4 DEF OnceFor
      <3> QED
        BY <3>4, <3>5
    <2>8. ASSUME NEW p \in Posters, Send(p) PROVE OnceFor(t)'
      <3>0. post[p].at = "send" /\ UNCHANGED <<draft, replay>> /\ Listing' = Listing
        BY <2>8 DEF Send, Listing
      <3>1. PICK e \in Texts : e = post[p].text
        BY <1>0, <1>i, <3>0 DEF PostShape
      <3>2. /\ \A q \in Posters \ {p} : post'[q] = post[q]
            /\ post'[p].at # "send" /\ post'[p].text \in {0, e}
        <4>1. post[p] \in PostRecord
          BY <1>0
        <4>2. CASE post' = [post EXCEPT ![p].at = "out"]
          <5>1. post'[p] = [post[p] EXCEPT !.at = "out"] /\ \A q \in Posters \ {p} : post'[q] = post[q]
            BY <1>0, <4>2
          <5>2. post'[p].at = "out" /\ post'[p].text = e
            BY <3>1, <4>1, <5>1 DEF PostRecord
          <5> QED
            BY <5>1, <5>2
        <4>3. CASE post' = [post EXCEPT ![p] = IdlePost]
          BY <1>0, <1>i, <4>3
        <4> QED
          BY <2>8, <4>2, <4>3 DEF Send
      <3>3. comments' = comments \/ Comment(e)
        BY <2>8, <3>1 DEF Send
      <3>4. queue' = queue \/ queue' = queue \cup {[t |-> e, attempts |-> 0, name |-> count.mishaps]}
        BY <2>8, <3>1 DEF Send
      <3>5. PICK n : n.t = e /\ queue' \subseteq queue \cup {n} /\ queue \subseteq queue'
        <4>1. [t |-> e, attempts |-> 0, name |-> count.mishaps].t = e
          OBVIOUS
        <4> QED
          BY <3>4, <4>1
      <3>6. Pending' \subseteq Pending \cup {n} /\ Pending \subseteq Pending'
        BY <3>0, <3>5 DEF Pending
      <3>7. InQueue(t) => InQueue(t)'
        BY <3>5 DEF InQueue
      <3>8. CASE t # e
        <4>1. comments'[t] = comments[t]
          BY <1>c, <3>3, <3>8
        <4>2. \A o \in Pending' : o.t = t => o \in Pending
          BY <3>5, <3>6, <3>8
        <4>3. OnePoster(t)' /\ OneOp(t)' /\ SeenNone(t)'
          BY <2>0, <3>0, <3>2, <3>8, <4>1, <4>2 DEF OnceFor, OnePoster, OneOp, SeenNone
        <4>4. Unsent(t)'
          BY <2>0, <3>2, <4>1, <4>2 DEF OnceFor, Unsent
        <4>5. Known(t)'
          BY <2>0, <3>0, <3>7, <4>1, <4>2 DEF OnceFor, Known
        <4> QED
          BY <2>0, <4>1, <4>3, <4>4, <4>5 DEF OnceFor
      <3>9. CASE t = e
        <4>1. comments[t] = 0 /\ \A o \in Pending : o.t # t
          BY <2>0, <3>0, <3>1, <3>9 DEF OnceFor, Unsent
        <4>2. comments'[t] <= 1
          BY <1>c, <3>3, <3>9, <4>1
        <4>3. \A o \in Pending' : o.t = t => o = n /\ o \in queue'
          BY <3>0, <3>6, <4>1 DEF Pending
        <4>4. OnePoster(t)' /\ Unsent(t)'
          BY <2>0, <3>1, <3>2, <3>9 DEF OnceFor, OnePoster, Unsent
        <4>5. OneOp(t)' /\ Known(t)'
          BY <4>3 DEF OneOp, Known, InQueue
        <4>6. SeenNone(t)'
          <5>1. replay.at # "idle" => replay.op \in Pending
            BY DEF Pending, Listing
          <5>2. ~(replay.at = "send" /\ replay.op.t = t)
            BY <4>1, <5>1
          <5> QED
            BY <3>0, <5>2 DEF SeenNone
        <4> QED
          BY <4>2, <4>4, <4>5, <4>6 DEF OnceFor
      <3> QED
        BY <3>8, <3>9
    <2> QED
      BY <2>1, <2>2, <2>3, <2>4, <2>5, <2>6, <2>7, <2>8 DEF DraftNext, PostStep, ReplayStep
  <1> QED
    BY <1>2 DEF OnePost

----------------------------------------------------------------------------
(* What is archived as posted was sent: a poster archives the text it has  *)
(* out, unless another took its place.                                     *)

WasSent(t) == comments[t] > 0 \/ InQueue(t) \/ t \in buried \cup swapped

SentFirst ==
    /\ PostedWasSent
    /\ \A p \in Posters :
          /\ post[p].at = "out" => WasSent(post[p].text)
          /\ post[p].at # "idle" => draft \in {0, post[p].text} \cup swapped

\* No step takes back that a text was sent.
LEMMA SentStays ==
    DraftShape /\ DraftNext => swapped \subseteq swapped' /\ \A t \in Texts : WasSent(t) => WasSent(t)'
  <1> SUFFICES ASSUME DraftShape, DraftNext
               PROVE  swapped \subseteq swapped' /\ \A t \in Texts : WasSent(t) => WasSent(t)'
    OBVIOUS
  <1>0. comments \in [Texts -> Nat]
    BY DEF DraftShape
  <1>1. swapped \subseteq swapped'
    BY DEF DraftNext, Draft, OpenEditor, CloseEditor, Put, ReplayStep, Replay, Look, Deliver, Toss,
           Forget, KillReplay, StartPost, PostStep, Send, Archive, KillPoster
  <1>c. ASSUME NEW e, comments' = comments \/ Comment(e), NEW t \in Texts, comments[t] > 0
        PROVE  comments'[t] > 0
    BY <1>0, <1>c DEF Comment
  <1>2. ASSUME UNCHANGED <<comments, queue, buried>>, NEW t \in Texts, WasSent(t) PROVE WasSent(t)'
    BY <1>1, <1>2 DEF WasSent, InQueue
  <1>3. ASSUME Draft \/ OpenEditor \/ CloseEditor \/ Replay \/ Toss \/ KillReplay
        PROVE  UNCHANGED <<comments, queue, buried>>
    BY <1>3 DEF Draft, OpenEditor, CloseEditor, Replay, Toss, KillReplay
  <1>4. ASSUME NEW p \in Posters, StartPost(p) \/ Archive(p) \/ KillPoster(p)
        PROVE  UNCHANGED <<comments, queue, buried>>
    BY <1>4 DEF StartPost, Archive, KillPoster
  <1>5. ASSUME NEW p \in Posters, Send(p), NEW t \in Texts, WasSent(t) PROVE WasSent(t)'
    <2>1. UNCHANGED buried /\ queue \subseteq queue' /\ (comments' = comments \/ Comment(post[p].text))
      BY <1>5 DEF Send
    <2> QED
      BY <1>1, <1>5, <1>c, <2>1 DEF WasSent, InQueue
  <1>6. ASSUME Forget, NEW t \in Texts, WasSent(t) PROVE WasSent(t)'
    <2>1. UNCHANGED <<comments, buried>> /\ (InQueue(t) => t \in swapped')
      BY <1>6 DEF Forget
    <2> QED
      BY <1>1, <1>6, <2>1 DEF WasSent
  <1>7. ASSUME Look \/ Deliver, NEW t \in Texts, WasSent(t) PROVE WasSent(t)'
    <2>0. replay.at # "idle"
      BY <1>7 DEF Look, Deliver
    <2>1. PICK e \in Texts : e = replay.op.t
      BY <2>0 DEF DraftShape, ReplayShape, Note
    <2>2. comments' = comments \/ Comment(e)
      BY <1>7, <2>1 DEF Look, Deliver
    <2>3. comments[t] > 0 => comments'[t] > 0
      BY <1>c, <2>2
    <2>4. CASE UNCHANGED <<queue, buried>>
      BY <1>1, <1>7, <2>3, <2>4 DEF WasSent, InQueue
    <2>5. CASE Denied
      <3>1. /\ buried \subseteq buried'
            /\ InQueue(t) => InQueue(t)' \/ t \in buried'
        BY <2>0, <2>5, DeniedEffect
      <3> QED
        BY <1>1, <1>7, <2>3, <3>1 DEF WasSent
    <2>6. CASE Gone /\ comments'[e] > 0
      <3>1. UNCHANGED buried /\ (t # e => (InQueue(t) => InQueue(t)'))
        BY <2>1, <2>6 DEF Gone, InQueue
      <3> QED
        BY <1>1, <1>7, <2>3, <2>6, <3>1 DEF WasSent
    <2>7. ASSUME Comment(e) PROVE comments'[e] > 0
      BY <1>0, <2>1, <2>7 DEF Comment
    <2> QED
      BY <1>7, <2>1, <2>4, <2>5, <2>6, <2>7 DEF Look, Deliver, Cut
  <1>8. ASSUME NEW t \in Texts, WasSent(t) PROVE WasSent(t)'
    BY <1>2, <1>3, <1>4, <1>5, <1>6, <1>7, <1>8 DEF DraftNext, PostStep, ReplayStep
  <1> QED
    BY <1>1, <1>8

LEMMA SentFirstKept == DraftShape /\ SentFirst /\ DraftNext => SentFirst'
  <1> SUFFICES ASSUME DraftShape, SentFirst, DraftNext PROVE SentFirst'
    OBVIOUS
  <1>0. /\ CountShape /\ post \in [Posters -> PostRecord] /\ comments \in [Texts -> Nat]
        /\ \A p \in Posters : PostShape(post[p])
        /\ posted \subseteq Texts /\ draft \in {0} \cup Written /\ Written \subseteq Texts
    BY WrittenAreTexts DEF DraftShape
  <1>i. IdlePost.at = "idle"
    BY DraftRest
  <1>1. swapped \subseteq swapped' /\ \A t \in Texts : WasSent(t) => WasSent(t)'
    BY SentStays
  <1>t. \A p \in Posters : post[p].at # "idle" => post[p].text \in Texts
    BY <1>0, <1>i DEF PostShape
  \* What is archived is what a poster has out.
  <1>2. PostedWasSent'
    <2>1. \A t \in posted : t \in Texts /\ WasSent(t)
      BY <1>0 DEF SentFirst, PostedWasSent, WasSent
    <2>2. ASSUME UNCHANGED posted PROVE PostedWasSent'
      BY <1>1, <2>1, <2>2 DEF PostedWasSent, WasSent
    <2>3. ASSUME NEW p \in Posters, Archive(p) PROVE PostedWasSent'
      <3>1. post[p].at = "out" /\ (draft = 0 => posted' = posted) /\ posted' \subseteq posted \cup {draft}
        BY <2>3 DEF Archive
      <3>2. draft # 0 => draft \in Texts /\ WasSent(draft)
        <4>1. WasSent(post[p].text) /\ draft \in {0, post[p].text} \cup swapped
          BY <3>1 DEF SentFirst
        <4> QED
          BY <1>0, <4>1 DEF WasSent
      <3>3. PICK d : d = draft
        OBVIOUS
      <3>4. \A t \in posted' : t \in Texts /\ WasSent(t)
        BY <2>1, <3>1, <3>2, <3>3
      <3> QED
        BY <1>1, <3>4 DEF PostedWasSent, WasSent
    <2>4. ASSUME NEW p \in Posters, StartPost(p) \/ Send(p) \/ KillPoster(p) PROVE UNCHANGED posted
      BY <2>4 DEF StartPost, Send, KillPoster
    <2>5. ASSUME Draft \/ OpenEditor \/ CloseEditor \/ Replay \/ Look \/ Deliver \/ Toss \/ Forget \/ KillReplay
          PROVE  UNCHANGED posted
      BY <2>5 DEF Draft, OpenEditor, CloseEditor, Replay, Look, Deliver, Toss, Forget, KillReplay
    <2> QED
      BY <2>2, <2>3, <2>4, <2>5 DEF DraftNext, PostStep, ReplayStep
  \* A poster that goes on as it was, while the draft stays, goes, or is replaced.
  <1>3. ASSUME NEW q \in Posters, post'[q] = post[q],
               draft' \in {0, draft} \cup swapped' \/ post[q] = IdlePost
        PROVE  /\ post'[q].at = "out" => WasSent(post[q].text)'
               /\ post'[q].at # "idle" => draft' \in {0, post'[q].text} \cup swapped'
    <2>1. ASSUME post[q].at = "out" PROVE WasSent(post[q].text)'
      <3>1. PICK t \in Texts : t = post[q].text
        BY <1>t, <2>1
      <3>2. WasSent(t)'
        BY <1>1, <2>1, <3>1 DEF SentFirst
      <3>3. post[q].text' = t
        BY <1>3, <3>1
      <3> QED
        BY <3>2, <3>3 DEF WasSent, InQueue
    <2>2. post'[q].at # "idle" => draft' \in {0, post'[q].text} \cup swapped'
      BY <1>1, <1>3, <1>i DEF SentFirst
    <2> QED
      BY <1>3, <2>1, <2>2
  <1>4. ASSUME UNCHANGED post,
               \A q \in Posters : draft' \in {0, draft} \cup swapped' \/ post[q] = IdlePost
        PROVE  SentFirst'
    BY <1>2, <1>3, <1>4 DEF SentFirst
  <1>5. CASE Draft \/ CloseEditor
    <2>1. UNCHANGED post
      BY <1>5 DEF Draft, CloseEditor
    <2>2. ASSUME NEW q \in Posters PROVE draft' \in {0, draft} \cup swapped' \/ post[q] = IdlePost
      BY <1>5 DEF Draft, CloseEditor, Put, Posting
    <2> QED
      BY <1>4, <2>1, <2>2
  <1>6. CASE OpenEditor \/ Replay \/ Look \/ Deliver \/ Toss \/ Forget \/ KillReplay
    <2>1. UNCHANGED post /\ draft' \in {0, draft}
      BY <1>6 DEF OpenEditor, Replay, Look, Deliver, Toss, Forget, KillReplay
    <2> QED
      BY <1>4, <2>1
  <1>7. ASSUME NEW p \in Posters, Archive(p) \/ KillPoster(p) PROVE SentFirst'
    <2>1. post'[p] = IdlePost /\ (\A q \in Posters \ {p} : post'[q] = post[q]) /\ draft' \in {0, draft}
      BY <1>0, <1>7 DEF Archive, KillPoster
    <2>2. ASSUME NEW q \in Posters
          PROVE  /\ post'[q].at = "out" => WasSent(post[q].text)'
                 /\ post'[q].at # "idle" => draft' \in {0, post'[q].text} \cup swapped'
      BY <1>3, <1>i, <2>1
    <2> QED
      BY <1>2, <2>2 DEF SentFirst
  <1>8. ASSUME NEW p \in Posters, StartPost(p) PROVE SentFirst'
    <2>1. /\ post'[p].at = "send" /\ post'[p].text = draft
          /\ (\A q \in Posters \ {p} : post'[q] = post[q]) /\ draft' = draft
      BY <1>0, <1>8 DEF StartPost
    <2>2. ASSUME NEW q \in Posters
          PROVE  /\ post'[q].at = "out" => WasSent(post[q].text)'
                 /\ post'[q].at # "idle" => draft' \in {0, post'[q].text} \cup swapped'
      BY <1>3, <2>1
    <2> QED
      BY <1>2, <2>2 DEF SentFirst
  <1>9. ASSUME NEW p \in Posters, Send(p) PROVE SentFirst'
    <2>0. post[p].at = "send" /\ UNCHANGED <<draft, swapped>>
      BY <1>9 DEF Send
    <2>1. PICK e \in Texts : e = post[p].text
      BY <1>t, <2>0
    <2>2. \A q \in Posters \ {p} : post'[q] = post[q]
      BY <1>0, <1>9 DEF Send
    <2>3. /\ post'[p].at = "out" => WasSent(post[p].text)'
          /\ post'[p].at # "idle" => draft' \in {0, post'[p].text} \cup swapped'
      <3>1. CASE post' = [post EXCEPT ![p].at = "out"] /\ (Comment(e) \/ \E o \in queue' : o.t = e)
        <4>1. post[p] \in PostRecord /\ post'[p] = [post[p] EXCEPT !.at = "out"]
          BY <1>0, <3>1
        <4>2. post'[p].text = e /\ post'[p].at = "out"
          BY <2>1, <4>1 DEF PostRecord
        <4>3. comments'[e] > 0 \/ \E o \in queue' : o.t = e
          BY <1>0, <3>1 DEF Comment
        <4>4. WasSent(post[p].text)'
          BY <4>2, <4>3 DEF WasSent, InQueue
        <4>5. draft \in {0, e} \cup swapped
          BY <2>0, <2>1 DEF SentFirst
        <4> QED
          BY <2>0, <4>2, <4>4, <4>5
      <3>2. CASE post' = [post EXCEPT ![p] = IdlePost]
        BY <1>0, <1>i, <3>2
      <3>3. \/ post' = [post EXCEPT ![p].at = "out"] /\ Comment(e)
            \/ /\ post' = [post EXCEPT ![p].at = "out"]
               /\ queue' = queue \cup {[t |-> e, attempts |-> 0, name |-> count.mishaps]}
            \/ post' = [post EXCEPT ![p] = IdlePost]
        BY <1>9, <2>1 DEF Send
      <3>4. [t |-> e, attempts |-> 0, name |-> count.mishaps].t = e
        OBVIOUS
      <3> QED
        BY <3>1, <3>2, <3>3, <3>4
    <2>4. ASSUME NEW q \in Posters
          PROVE  /\ post'[q].at = "out" => WasSent(post[q].text)'
                 /\ post'[q].at # "idle" => draft' \in {0, post'[q].text} \cup swapped'
      BY <1>3, <2>0, <2>2, <2>3
    <2> QED
      BY <1>2, <2>4 DEF SentFirst
  <1> QED
    BY <1>5, <1>6, <1>7, <1>8, <1>9 DEF DraftNext, PostStep, ReplayStep

----------------------------------------------------------------------------
(* The draft queue as a whole.                                             *)

DraftInv == DraftShape /\ OnePost /\ SentFirst

LEMMA DraftInvInit == DraftInit => DraftInv
  <1> SUFFICES ASSUME DraftInit PROVE DraftInv
    OBVIOUS
  <1>1. DraftShape
    BY DraftInitShape
  <1>2. /\ \A p \in Posters : post[p] = IdlePost
        /\ draft = 0 /\ replay = IdleReplay /\ queue = {} /\ posted = {}
        /\ \A t \in Texts : comments[t] = 0 /\ t # 0
    BY DEF DraftInit, Texts
  <1>3. Pending = {} /\ replay.at = "idle"
    BY <1>2, DraftRest DEF Pending, Listing
  <1>4. ASSUME NEW t \in Texts PROVE OnceFor(t)
    BY <1>2, <1>3, DraftRest DEF OnceFor, OnePoster, OneOp, Unsent, SeenNone, Known
  <1>5. SentFirst
    BY <1>2, DraftRest DEF SentFirst, PostedWasSent
  <1> QED
    BY <1>1, <1>4, <1>5 DEF DraftInv, OnePost

LEMMA DraftInvKept == DraftInv /\ [DraftNext]_draftVars => DraftInv'
  <1> SUFFICES ASSUME DraftInv, [DraftNext]_draftVars PROVE DraftInv'
    OBVIOUS
  <1>1. CASE DraftNext
    BY <1>1, DraftShapeKept, OnePostKept, SentFirstKept DEF DraftInv
  <1>2. CASE UNCHANGED draftVars
    <2>1. UNCHANGED <<draft, editor, post, queue, buried, replay, comments, posted, count, twice, swapped>>
      BY <1>2 DEF draftVars
    <2>2. Pending' = Pending /\ Written' = Written
      BY <2>1 DEF Pending, Listing, Written
    <2>3. DraftShape'
      <3>1. \A p \in Posters : PostShape(post[p])'
        BY <2>1, <2>2 DEF DraftInv, DraftShape, PostShape
      <3>2. CountShape' /\ ReplayShape'
        BY <2>1 DEF DraftInv, DraftShape, CountShape, ReplayShape
      <3> QED
        BY <2>1, <2>2, <3>1, <3>2 DEF DraftInv, DraftShape
    <2>4. OnePost'
      <3>1. ASSUME NEW t \in Texts, OnceFor(t) PROVE OnceFor(t)'
        BY <2>1, <2>2, <3>1 DEF OnceFor, OnePoster, OneOp, Unsent, SeenNone, Known, InQueue
      <3> QED
        BY <2>1, <3>1 DEF DraftInv, OnePost
    <2>5. SentFirst'
      BY <2>1 DEF DraftInv, SentFirst, PostedWasSent, WasSent, InQueue
    <2> QED
      BY <2>3, <2>4, <2>5 DEF DraftInv
  <1> QED
    BY <1>1, <1>2

LEMMA DraftIsKept == DraftInv /\ [DraftNext]_draftVars => DraftStands
  <1> SUFFICES ASSUME DraftInv, [DraftNext]_draftVars, draft' # draft
               PROVE  \/ draft' = count.texts + 1
                      \/ draft' = 0 /\ (draft \in posted' \/ count'.mishaps > count.mishaps)
    BY DEF DraftStands
  <1>1. count \in [DOMAIN Limit -> Nat] /\ count.mishaps \in Nat
    BY Limits DEF DraftInv, DraftShape, CountShape
  <1>2. CASE Draft \/ CloseEditor
    BY <1>2 DEF Draft, CloseEditor, Put
  <1>3. CASE Toss \/ Forget
    <2>1. draft' = 0 /\ count' = [count EXCEPT !["mishaps"] = @ + 1]
      BY <1>3 DEF Toss, Forget, Take
    <2>2. count'.mishaps = count.mishaps + 1
      BY <1>1, <2>1, Limits
    <2> QED
      BY <1>1, <2>1, <2>2
  <1>4. ASSUME NEW p \in Posters, Archive(p) PROVE draft' = 0 /\ draft \in posted'
    BY <1>4 DEF Archive
  <1>5. ASSUME NEW p \in Posters, StartPost(p) \/ Send(p) \/ KillPoster(p) PROVE FALSE
    BY <1>5 DEF StartPost, Send, KillPoster
  <1>6. CASE OpenEditor \/ Replay \/ Look \/ Deliver \/ KillReplay \/ UNCHANGED draftVars
    BY <1>6 DEF OpenEditor, Replay, Look, Deliver, KillReplay, draftVars
  <1> QED
    BY <1>2, <1>3, <1>4, <1>5, <1>6 DEF DraftNext, PostStep, ReplayStep

----------------------------------------------------------------------------
(* Both queues.                                                            *)

Inv == AuditInv /\ DraftInv

LEMMA InvHolds == Spec => []Inv
  <1>1. Init => Inv
    BY AuditInvInit, DraftInvInit DEF Init, Inv
  <1>2. Inv /\ [Next]_vars => Inv'
    <2>1. [Next]_vars => [AuditNext]_auditVars /\ [DraftNext]_draftVars
      BY DEF Next, vars
    <2> QED
      BY <2>1, AuditInvKept, DraftInvKept DEF Inv
  <1> QED
    BY <1>1, <1>2, PTL DEF Spec

\* What people confirm reaches GitHub once, however many processes file and
\* post, and whatever is lost, refused or killed on the way (assessFiling.ts:112,
\* githubOutbox.ts:800, analyzeCmd.ts:325).
THEOREM FiledOnceHolds == Spec => []FiledOnce
  <1>1. Inv => FiledOnce
    BY ShapeIsTypeOK, DraftShapeIsTypeOK, OnePostIsEnough
    DEF Inv, AuditInv, DraftInv, RacesKnown, TypeOK, FiledOnce
  <1> QED
    BY <1>1, InvHolds, PTL

\* What a stamp or posted/ says of a finding or comment is so (assessFiling.ts:165,
\* githubOutbox.ts:794, analyzeCmd.ts:328).
THEOREM AccountsAreTrueHold == Spec => []AccountsAreTrue
  <1>1. Inv => AccountsAreTrue
    BY TrueStampsAreTrue DEF Inv, AuditInv, DraftInv, SentFirst, AccountsAreTrue
  <1> QED
    BY <1>1, InvHolds, PTL

\* A batch and a draft change only as their reader was told (assessFiling.ts:222,
\* assessFlow.ts:270, commentReview.ts:73).
THEOREM ReviewStandsHolds == Spec => ReviewStands
  <1>1. Inv /\ [Next]_vars => BatchStands /\ DraftStands
    <2>1. [Next]_vars => [AuditNext]_auditVars /\ [DraftNext]_draftVars
      BY DEF Next, vars
    <2> QED
      BY <2>1, BatchIsKept, DraftIsKept DEF Inv
  <1>2. [][Next]_vars /\ []Inv => [][BatchStands /\ DraftStands]_vars
    BY <1>1, PTL
  <1> QED
    BY <1>2, InvHolds, PTL DEF Spec, ReviewStands
=============================================================================
