---------------------------- MODULE OutboxProofs ----------------------------
(***************************************************************************)
(* Proofs about the GitHub outbox: an op takes effect once and leaves      *)
(* nothing half-done (DeliveredOnce), and the labels of an issue end final *)
(* (LabelsConverge), for any number of tickets, flushers, runs, network    *)
(* failures, refusals and kills.                                           *)
(***************************************************************************)
EXTENDS Outbox, TLAPS

USE OutboxAssumption

----------------------------------------------------------------------------
(* The inductive invariant.                                                *)

Phases == {"queued", "running", "parking", "reporting", "labelling", "settled"}
PrSteps == {"push", "create", "write"}
CommentSteps == {"scan", "post"}
CallSteps == PrSteps \cup CommentSteps \cup {"label", "sent", "buried"}

\* The op files: every one has a name of its own.
OpFiles ==
    /\ live \subseteq Op /\ dead \subseteq Op /\ nextId \in Nat
    /\ \A o \in live : o.id < nextId /\ o.attempts < MaxAttempts
    /\ \A d \in dead : d.id < nextId
    /\ \A o, p \in live : o.id = p.id => o = p
    /\ \A o \in live, d \in dead : o.id # d.id

\* What the flushers hold.
FlushTyped ==
    /\ lock \in Flushers \cup {None}
    /\ todo \in [Flushers -> SUBSET Op]
    /\ cur \in [Flushers -> Op \cup {None}]
    /\ at \in [Flushers -> {"idle", "listed"} \cup CallSteps]
    /\ \A f \in Flushers : lock = f <=> at[f] \notin {"idle", "listed"}

TicketTyped ==
    /\ phase \in [Tickets -> Phases]
    /\ runs \in [Tickets -> Nat]
    /\ meta \in [Tickets -> {"none", "pr_queued", "pr_url"}]
    /\ trait \in [Tickets -> Traits]
    /\ dropped \subseteq Tickets /\ raced \subseteq Tickets

\* The tries of the live comments; only one under way can have landed.
CallTyped ==
    /\ tries \in [Tickets -> 0 .. LiveTries - 1] /\ reposted \in [Tickets -> Nat]
    /\ landed \subseteq {t \in Tickets : phase[t] = "reporting"}

GithubTyped ==
    /\ labels \in [Tickets -> SUBSET Labels]
    /\ posted \in [Tickets -> Seq(Nat)] /\ prs \subseteq Tickets

\* An op is of a run that was, its checkpoints come in order, and only a
\* composite op has a tail.
Sane(o) ==
    /\ o.run <= runs[o.t]
    /\ o.url => o.pushed
    /\ o.tail => o.kind = "pr"
    /\ o.kind = "pr" => o.add = "done" /\ o.remove = "working"

OpsAreSane ==
    /\ \A o \in live \cup dead : Sane(o)
    /\ \A d \in dead : d.t \in dropped
    /\ \A t \in Tickets : \A r \in Range(posted[t]) : r <= runs[t]

\* The run under way has no comment yet, neither posted, but by its own live
\* call, nor queued.
RunIsUnreported ==
    \A t \in Tickets : phase[t] \in {"running", "reporting"} =>
        /\ runs[t] \notin Range(posted[t]) \/ t \in landed
        /\ \A o \in live \cup dead : o.t = t /\ o.kind # "labels" => o.run # runs[t]

\* The ops a flush holds are op files, and it is at a step of its op's kind.
FlushHoldsFiles ==
    \A f \in Flushers : lock = f =>
        /\ cur[f] \in IF at[f] = "buried" THEN dead ELSE live
        /\ todo[f] \subseteq live
        /\ \A o \in todo[f] : cur[f].id < o.id
        /\ at[f] \in PrSteps => cur[f].kind = "pr"
        /\ at[f] \in CommentSteps => cur[f].kind # "labels"
        /\ at[f] = "label" => cur[f].kind # "comment"
        /\ at[f] \in {"push", "create"} => ~cur[f].url
        /\ at[f] = "create" => cur[f].pushed

\* The scan has not seen the comment that is about to be posted.
PostIsNew ==
    \A f \in Flushers : lock = f /\ at[f] = "post" =>
        cur[f].run \notin Range(posted[cur[f].t])

\* A composite op past its write-back no longer has the marker.
MarkerIsGone ==
    \A f \in Flushers :
        lock = f /\ cur[f].kind = "pr"
                 /\ (at[f] \in {"scan", "post", "label", "sent"}
                      \/ (at[f] = "buried" /\ cur[f].url)) =>
            \/ cur[f].t \in raced
            \/ phase[cur[f].t] = "settled" /\ meta[cur[f].t] # "pr_queued"

\* The ops a flush has moved to dead/ and has not dealt with yet.
BuriedOps == {cur[f] : f \in {g \in Flushers : at[g] = "buried"}}

\* The op of a PR is queued, or is being buried.
PrInHand(t) == \E o \in live \cup BuriedOps : o.kind = "pr" /\ o.t = t

\* A PR that is being parked, and one that is, still has its op.
ParkedHasOp ==
    \A t \in Tickets \ (raced \cup severed) :
        phase[t] = "parking" \/ meta[t] = "pr_queued" => PrInHand(t)

\* A dead op that opened its PR has its tail, or is about to have it.
TailIsKept ==
    \A d \in dead \ BuriedOps : d.kind = "pr" /\ d.url /\ d.t \notin Silent \cup severed /\ ~d.tail =>
        \/ \E e \in live \cup dead : e.t = d.t /\ e.run = d.run /\ e.tail
        \/ d.run \in Range(posted[d.t]) /\ "done" \in labels[d.t]

\* A finalize tail is over only after the comment and the label.
TailIsDone ==
    \A f \in Flushers :
        lock = f /\ at[f] \in {"label", "sent"} /\ cur[f].kind = "pr"
                 /\ cur[f].t \notin Silent =>
            /\ cur[f].run \in Range(posted[cur[f].t])
            /\ at[f] = "sent" => "done" \in labels[cur[f].t]

\* What holds of files, tickets and GitHub, and what holds of the flushes.
DataInv ==
    /\ OpFiles /\ TicketTyped /\ CallTyped /\ GithubTyped /\ OpsAreSane /\ RunIsUnreported
    /\ ParkedHasOp /\ NoDoublePost /\ TailIsKept

FlushInv ==
    /\ FlushTyped /\ FlushHoldsFiles /\ PostIsNew /\ MarkerIsGone /\ TailIsDone

OutboxInv == DataInv /\ FlushInv

LEMMA DeliveredFollows == OutboxInv => DeliveredOnce
<1> SUFFICES ASSUME OutboxInv PROVE DeliveredOnce
  OBVIOUS
<1>1. TypeOK /\ NoDoublePost
  BY DEF OutboxInv, DataInv, FlushInv, TypeOK, OpFiles, FlushTyped, TicketTyped, CallTyped,
     GithubTyped, Phases
<1>2. QueuedMarkerHasOp
  BY DEF OutboxInv, DataInv, ParkedHasOp, PrInHand, BuriedOps, QueuedMarkerHasOp, Burying
<1>3. FinalizeNotDropped
  BY DEF OutboxInv, DataInv, TailIsKept, BuriedOps, FinalizeNotDropped
<1> QED
  BY <1>1, <1>2, <1>3 DEF DeliveredOnce

----------------------------------------------------------------------------
(* Comments and op files.                                                  *)

LEMMA AppendComment ==
    ASSUME NEW s \in Seq(Nat), NEW e \in Nat
    PROVE  /\ Append(s, e) \in Seq(Nat) /\ Range(Append(s, e)) = Range(s) \cup {e}
           /\ IsInjective(s) /\ e \notin Range(s) => IsInjective(Append(s, e))
<1> DEFINE a == Append(s, e)
<1>1. a \in Seq(Nat) /\ Len(a) = Len(s) + 1 /\ Len(s) \in Nat
  OBVIOUS
<1>2. \A i \in 1 .. Len(s) : a[i] = s[i]
  OBVIOUS
<1>3. a[Len(s) + 1] = e
  OBVIOUS
<1>4. DOMAIN s = 1 .. Len(s) /\ DOMAIN a = 1 .. (Len(s) + 1)
  BY <1>1
<1> HIDE DEF a
<1>5. Range(a) = Range(s) \cup {e}
  BY <1>1, <1>2, <1>3, <1>4 DEF Range
<1>6. IsInjective(s) /\ e \notin Range(s) => IsInjective(a)
  <2>1. SUFFICES ASSUME IsInjective(s), e \notin Range(s),
                        NEW i \in DOMAIN a, NEW j \in DOMAIN a, a[i] = a[j]
                 PROVE  i = j
    BY DEF IsInjective
  <2>2. \A k \in 1 .. Len(s) : s[k] # e
    BY <1>4, <2>1 DEF Range
  <2>3. CASE i \in 1 .. Len(s) /\ j \in 1 .. Len(s)
    BY <1>2, <1>4, <2>1, <2>3 DEF IsInjective
  <2> QED
    BY <1>1, <1>2, <1>3, <1>4, <2>1, <2>2, <2>3
<1> QED
  BY <1>1, <1>5, <1>6 DEF a

LEMMA CommentsAreOfRuns ==
    ASSUME GithubTyped PROVE \A t \in Tickets : \A r \in Range(posted[t]) : r \in Nat
<1>1. \A t \in Tickets : posted[t] \in Seq(Nat)
  BY DEF GithubTyped
<1>2. \A t \in Tickets : \A i \in DOMAIN posted[t] : posted[t][i] \in Nat
  BY <1>1
<1> QED
  BY <1>2 DEF Range

LEMMA NewOpTyped ==
    ASSUME OpFiles, TicketTyped, NEW kind \in Kinds, NEW t \in Tickets,
           NEW add \in Labels, NEW remove \in Labels \ {"done"}
    PROVE  /\ NewOp(kind, t, add, remove) \in Op
           /\ NewOp(kind, t, add, remove).id = nextId
  BY DEF NewOp, Op, OpFiles, TicketTyped

LEMMA EnqueueKeepsFiles ==
    ASSUME OpFiles, NEW op \in Op, op.id = nextId, op.attempts = 0, Enqueue(op),
           UNCHANGED dead
    PROVE  OpFiles'
  BY DEF OpFiles, Enqueue, Op

LEMMA RewriteKeepsFiles ==
    ASSUME OpFiles, NEW c \in live, NEW op \in Op, op.id = c.id,
           op.attempts < MaxAttempts, live' = Without(op) \cup {op},
           UNCHANGED <<dead, nextId>>
    PROVE  OpFiles'
  BY DEF OpFiles, Without

LEMMA RemoveKeepsFiles ==
    ASSUME OpFiles, NEW c \in live, live' = Without(c),
           \/ dead' = dead
           \/ \E op \in Op : op.id = c.id /\ dead' = dead \cup {op},
           UNCHANGED nextId
    PROVE  OpFiles'
  BY DEF OpFiles, Without, Op

----------------------------------------------------------------------------
(* The reporter: it queues ops and leaves every flush alone.               *)

Fresh(o, t) ==
    /\ o.id = nextId /\ o.attempts = 0 /\ o.t = t /\ o.run = runs[t]
    /\ ~o.url /\ ~o.tail
    /\ o.kind = "pr" => o.add = "done" /\ o.remove = "working"

Queues(t, kinds) ==
    \/ UNCHANGED <<live, nextId>>
    \/ \E o \in Op : Fresh(o, t) /\ o.kind \in kinds /\ Enqueue(o)

LabelsStay ==
    /\ labels' \in [Tickets -> SUBSET Labels]
    /\ \A u \in Tickets : "done" \in labels[u] => "done" \in labels'[u]

\* What the call of a reporter leaves alone, whatever GitHub answers.
Reports(t, kinds) ==
    /\ Queues(t, kinds) /\ LabelsStay
    /\ UNCHANGED <<dead, lock, todo, cur, at, prs, trait, severed>>
    /\ dropped \subseteq dropped' /\ dropped' \subseteq Tickets
    /\ raced \subseteq raced' /\ raced' \subseteq Tickets

LEMMA RelabelKeepsDone ==
    ASSUME GithubTyped, NEW t \in Tickets, NEW add \in Labels,
           NEW remove \in Labels \ {"done"}, Relabel(t, add, remove)
    PROVE  LabelsStay
  BY DEF GithubTyped, Relabel, LabelsStay

LEMMA NewOpFresh ==
    ASSUME OpFiles, TicketTyped, NEW kind \in Kinds, NEW t \in Tickets,
           NEW add \in Labels, NEW remove \in Labels \ {"done"},
           kind = "pr" => add = "done" /\ remove = "working"
    PROVE  /\ NewOp(kind, t, add, remove) \in Op
           /\ Fresh(NewOp(kind, t, add, remove), t)
           /\ NewOp(kind, t, add, remove).kind = kind
           /\ NewOp(kind, t, add, remove).t = t
  BY NewOpTyped DEF NewOp, Fresh

LEMMA ReportLabelsReports ==
    ASSUME DataInv, NEW t \in Tickets, NEW add \in Labels,
           NEW remove \in Labels \ {"done"}, ReportLabels(t, add, remove)
    PROVE  Reports(t, {"labels"}) /\ posted' = posted
<1> DEFINE op == NewOp("labels", t, add, remove)
<1>1. op \in Op /\ Fresh(op, t) /\ op.kind = "labels" /\ op.t = t
  BY NewOpFresh DEF DataInv, Kinds
<1>2. TryOrEnqueue(op, Relabel(t, add, remove), UNCHANGED labels)
      /\ UNCHANGED <<dead, lock, todo, cur, at, posted, prs>>
  BY DEF ReportLabels
<1> HIDE DEF op
<1>3. LabelsStay
  <2>1. Relabel(t, add, remove) \/ UNCHANGED labels
    BY <1>2 DEF TryOrEnqueue
  <2> QED
    BY <2>1, RelabelKeepsDone DEF DataInv, LabelsStay, GithubTyped
<1>4. Queues(t, {"labels"})
  BY <1>1, <1>2 DEF TryOrEnqueue, Queues
<1>5. /\ UNCHANGED <<trait, severed>> /\ dropped \subseteq dropped' /\ dropped' \subseteq Tickets
      /\ raced \subseteq raced' /\ raced' \subseteq Tickets
  BY <1>1, <1>2 DEF TryOrEnqueue, Fault, Refusal, NoFault, envVars, DataInv, TicketTyped
<1> QED
  BY <1>2, <1>3, <1>4, <1>5 DEF Reports

LEMMA FinalCommentReports ==
    ASSUME DataInv, NEW t \in Tickets, FinalComment(t)
    PROVE  /\ Reports(t, {"comment"}) /\ UNCHANGED labels
           /\ UNCHANGED posted \/ (t \notin landed /\ Post(t, runs[t]))
           /\ reposted' \in [Tickets -> Nat]
<1> DEFINE op == NewOp("comment", t, "done", "working")
<1>1. op \in Op /\ Fresh(op, t) /\ op.kind = "comment" /\ op.t = t
  BY NewOpFresh DEF DataInv, Kinds, Labels
<1>2. TryOrEnqueue(op, PostLive(t), UNCHANGED <<posted, reposted>>)
      /\ UNCHANGED <<dead, lock, todo, cur, at, labels, prs>>
  BY DEF FinalComment
<1> HIDE DEF op
<1>3. LabelsStay
  BY <1>2 DEF DataInv, LabelsStay, GithubTyped
<1>6. PostLive(t) \/ UNCHANGED <<posted, reposted>>
  BY <1>2 DEF TryOrEnqueue
<1>7. /\ UNCHANGED posted \/ (t \notin landed /\ Post(t, runs[t]))
      /\ reposted' \in [Tickets -> Nat]
  BY <1>6 DEF PostLive, DataInv, CallTyped
<1>4. Queues(t, {"comment"})
  BY <1>1, <1>2 DEF TryOrEnqueue, Queues
<1>5. /\ UNCHANGED <<trait, severed>> /\ dropped \subseteq dropped' /\ dropped' \subseteq Tickets
      /\ raced \subseteq raced' /\ raced' \subseteq Tickets
  BY <1>1, <1>2 DEF TryOrEnqueue, Fault, Refusal, NoFault, envVars, DataInv, TicketTyped
<1> QED
  BY <1>2, <1>3, <1>4, <1>5, <1>7 DEF Reports

LEMMA QueueOfflineReports ==
    ASSUME DataInv, NEW t \in Tickets, NEW pushed \in BOOLEAN, QueueOfflinePr(t, pushed)
    PROVE  /\ Reports(t, {"pr"}) /\ UNCHANGED <<labels, posted>>
           /\ \E o \in live' : o.kind = "pr" /\ o.t = t
<1> DEFINE new == NewOp("pr", t, "done", "working")
           op == [new EXCEPT !.pushed = pushed]
<1>1. new \in Op /\ Fresh(new, t) /\ new.kind = "pr" /\ new.t = t
  BY NewOpFresh DEF DataInv, Kinds, Labels
<1> HIDE DEF new
<1>2. op \in Op /\ Fresh(op, t) /\ op.kind = "pr" /\ op.t = t
  BY <1>1 DEF Fresh, Op
<1>3. Enqueue(op) /\ Fault
  BY DEF QueueOfflinePr, new
<1> HIDE DEF op
<1>4. Queues(t, {"pr"}) /\ op \in live'
  BY <1>2, <1>3 DEF Queues, Enqueue
<1> QED
  BY <1>2, <1>3, <1>4 DEF QueueOfflinePr, Fault, Reports, LabelsStay, githubVars, DataInv,
     GithubTyped, TicketTyped

\* What every step of a ticket's executor amounts to.
ReporterStep(t) ==
    /\ Reports(t, Kinds) /\ TicketTyped' /\ CallTyped'
    /\ phase[t] # "settled" /\ runs[t] <= runs'[t]
    /\ \A u \in Tickets \ {t} :
          /\ phase'[u] = phase[u] /\ runs'[u] = runs[u] /\ meta'[u] = meta[u]
          /\ u \in landed => u \in landed'
    /\ \/ UNCHANGED posted
       \/ /\ phase[t] = "reporting" /\ t \notin landed /\ Post(t, runs[t])
          /\ phase'[t] = "labelling" \/ t \in landed'
    /\ \/ phase'[t] \notin {"running", "reporting"}
       \/ phase'[t] = "running" /\ runs'[t] = runs[t] + 1
       \/ /\ phase[t] \in {"running", "reporting"} /\ runs'[t] = runs[t] /\ UNCHANGED live
          /\ t \in landed => t \in landed'
    /\ phase'[t] = "parking" => \E o \in live' : o.kind = "pr" /\ o.t = t
    /\ meta'[t] = "pr_queued" => meta[t] = "pr_queued" \/ phase[t] = "parking"

LEMMA ReportsMore ==
    ASSUME NEW t \in Tickets, NEW kinds \in SUBSET Kinds, Reports(t, kinds)
    PROVE  Reports(t, Kinds)
  BY DEF Reports, Queues

LEMMA NothingReported ==
    ASSUME DataInv, NEW t \in Tickets,
           UNCHANGED <<localVars, githubVars, envVars, dropped, raced>>
    PROVE  Reports(t, Kinds) /\ UNCHANGED <<live, labels, posted>>
  BY DEF Reports, Queues, LabelsStay, localVars, githubVars, envVars, DataInv,
     TicketTyped, GithubTyped

\* A step outside a live comment.
LEMMA NoCallMade ==
    ASSUME DataInv, NEW t \in Tickets, phase[t] # "reporting",
           \A u \in Tickets \ {t} : phase'[u] = phase[u], UNCHANGED callVars
    PROVE  CallTyped' /\ landed' = landed
  BY DEF DataInv, CallTyped, callVars

LEMMA OnStartSteps ==
    ASSUME DataInv, NEW t \in Tickets, OnStart(t) PROVE ReporterStep(t)
<1>1. Reports(t, Kinds) /\ UNCHANGED posted
  <2>1. CASE t \in Silent
    BY <2>1, NothingReported DEF OnStart
  <2>2. CASE t \notin Silent
    BY <2>2, ReportLabelsReports, ReportsMore DEF OnStart, Labels, Kinds
  <2> QED
    BY <2>1, <2>2
<1>2. /\ phase[t] = "queued" /\ phase' = [phase EXCEPT ![t] = "running"]
      /\ runs' = [runs EXCEPT ![t] = @ + 1] /\ meta' = meta
      /\ UNCHANGED callVars
  BY DEF OnStart, GoTo, ReportLabels
<1>3. CallTyped' /\ landed' = landed
  BY <1>2, NoCallMade DEF DataInv, TicketTyped
<1> QED
  BY <1>1, <1>2, <1>3 DEF ReporterStep, DataInv, TicketTyped, Reports, Phases

LEMMA OnRequeueSteps ==
    ASSUME DataInv, NEW t \in Tickets, OnRequeue(t) PROVE ReporterStep(t)
<1>1. Reports(t, Kinds) /\ UNCHANGED posted
  <2>1. CASE t \in Silent
    BY <2>1, NothingReported DEF OnRequeue
  <2>2. CASE t \notin Silent
    BY <2>2, ReportLabelsReports, ReportsMore DEF OnRequeue, Labels, Kinds
  <2> QED
    BY <2>1, <2>2
<1>2. /\ phase[t] = "running" /\ phase' = [phase EXCEPT ![t] = "queued"]
      /\ UNCHANGED <<runs, meta>>
      /\ UNCHANGED callVars
  BY DEF OnRequeue, GoTo, ReportLabels
<1>3. CallTyped' /\ landed' = landed
  BY <1>2, NoCallMade DEF DataInv, TicketTyped
<1> QED
  BY <1>1, <1>2, <1>3 DEF ReporterStep, DataInv, TicketTyped, Reports, Phases

LEMMA FinalizeSteps ==
    ASSUME DataInv, NEW t \in Tickets, Finalize(t) PROVE ReporterStep(t)
<1>1. Reports(t, Kinds) /\ UNCHANGED <<live, posted>>
  BY NothingReported DEF Finalize
<1>2. /\ phase[t] = "running" /\ UNCHANGED <<runs, meta>>
      /\ phase' = [phase EXCEPT ![t] = IF t \in Silent THEN "settled" ELSE "reporting"]
      /\ UNCHANGED callVars
  BY DEF Finalize, GoTo
<1>3. CallTyped' /\ landed' = landed
  BY <1>2, NoCallMade DEF DataInv, TicketTyped
<1> QED
  BY <1>1, <1>2, <1>3 DEF ReporterStep, DataInv, TicketTyped, Reports, Phases

LEMMA FinalCommentSteps ==
    ASSUME DataInv, NEW t \in Tickets, FinalComment(t) PROVE ReporterStep(t)
<1>1. /\ Reports(t, Kinds) /\ (UNCHANGED posted \/ (t \notin landed /\ Post(t, runs[t])))
      /\ reposted' \in [Tickets -> Nat]
  BY FinalCommentReports, ReportsMore DEF Kinds
<1>2. /\ phase[t] = "reporting" /\ phase' = [phase EXCEPT ![t] = "labelling"]
      /\ UNCHANGED <<runs, meta>>
      /\ tries' = [tries EXCEPT ![t] = 0] /\ landed' = landed \ {t}
  BY DEF FinalComment, GoTo
<1>3. CallTyped'
  BY <1>1, <1>2 DEF DataInv, CallTyped, TicketTyped
<1> QED
  BY <1>1, <1>2, <1>3 DEF ReporterStep, DataInv, TicketTyped, Reports, Phases

LEMMA TryCommentAgainSteps ==
    ASSUME DataInv, NEW t \in Tickets, TryCommentAgain(t) PROVE ReporterStep(t)
<1>1. /\ phase[t] = "reporting" /\ tries[t] + 1 < LiveTries /\ Fault
      /\ tries' = [tries EXCEPT ![t] = @ + 1]
      /\ UNCHANGED <<localVars, ticketVars, labels, prs, dropped, raced>>
      /\ \/ PostLive(t) /\ landed' = landed \cup {t}
         \/ UNCHANGED <<posted, reposted, landed>>
  BY DEF TryCommentAgain
<1>2. Reports(t, Kinds) /\ UNCHANGED live
  BY <1>1 DEF Reports, Queues, LabelsStay, localVars, Fault, DataInv, TicketTyped, GithubTyped
<1>3. TicketTyped' /\ UNCHANGED <<phase, runs, meta>>
  BY <1>1, <1>2 DEF ticketVars, DataInv, TicketTyped, Reports
<1>4. CallTyped'
  <2>1. tries[t] \in 0 .. LiveTries - 1
    BY DEF DataInv, CallTyped
  <2>2. tries' \in [Tickets -> 0 .. LiveTries - 1]
    BY <1>1, <2>1 DEF DataInv, CallTyped
  <2>3. reposted' \in [Tickets -> Nat]
    BY <1>1 DEF DataInv, CallTyped, PostLive
  <2>4. landed' \subseteq {u \in Tickets : phase'[u] = "reporting"}
    BY <1>1, <1>3 DEF DataInv, CallTyped
  <2> QED
    BY <2>2, <2>3, <2>4 DEF CallTyped
<1>5. /\ landed \subseteq landed'
      /\ UNCHANGED posted \/ (t \notin landed /\ Post(t, runs[t]) /\ t \in landed')
  BY <1>1 DEF PostLive
<1> QED
  BY <1>1, <1>2, <1>3, <1>4, <1>5 DEF ReporterStep, DataInv, TicketTyped

LEMMA FinalLabelsSteps ==
    ASSUME DataInv, NEW t \in Tickets, FinalLabels(t) PROVE ReporterStep(t)
<1>1. Reports(t, Kinds) /\ UNCHANGED posted
  BY ReportLabelsReports, ReportsMore DEF FinalLabels, Labels, Kinds
<1>2. /\ phase[t] = "labelling" /\ phase' = [phase EXCEPT ![t] = "settled"]
      /\ UNCHANGED <<runs, meta>>
      /\ UNCHANGED callVars
  BY DEF FinalLabels, GoTo, ReportLabels
<1>3. CallTyped' /\ landed' = landed
  BY <1>2, NoCallMade DEF DataInv, TicketTyped
<1> QED
  BY <1>1, <1>2, <1>3 DEF ReporterStep, DataInv, TicketTyped, Reports, Phases

LEMMA FinalizeQueuedSteps ==
    ASSUME DataInv, NEW t \in Tickets, FinalizeQueued(t) PROVE ReporterStep(t)
<1>1. Reports(t, Kinds) /\ UNCHANGED posted
  BY NothingReported DEF FinalizeQueued
<1>2. /\ phase[t] = "parking" /\ phase' = [phase EXCEPT ![t] = "settled"]
      /\ UNCHANGED runs /\ meta' = [meta EXCEPT ![t] = "pr_queued"]
      /\ UNCHANGED callVars
  BY DEF FinalizeQueued, GoTo
<1>3. CallTyped' /\ landed' = landed
  BY <1>2, NoCallMade DEF DataInv, TicketTyped
<1> QED
  BY <1>1, <1>2, <1>3 DEF ReporterStep, DataInv, TicketTyped, Reports, Phases

LEMMA QueueOfflinePrSteps ==
    ASSUME DataInv, NEW t \in Tickets, NEW pushed \in BOOLEAN, QueueOfflinePr(t, pushed)
    PROVE  ReporterStep(t)
<1>1. /\ Reports(t, Kinds) /\ UNCHANGED posted
      /\ \E o \in live' : o.kind = "pr" /\ o.t = t
  BY QueueOfflineReports, ReportsMore DEF Kinds
<1>2. /\ phase[t] = "running" /\ phase' = [phase EXCEPT ![t] = "parking"]
      /\ UNCHANGED <<runs, meta>>
      /\ UNCHANGED callVars
  BY DEF QueueOfflinePr, GoTo
<1>3. CallTyped' /\ landed' = landed
  BY <1>2, NoCallMade DEF DataInv, TicketTyped
<1> QED
  BY <1>1, <1>2, <1>3 DEF ReporterStep, DataInv, TicketTyped, Reports, Phases

LEMMA ReporterSteps ==
    ASSUME DataInv, NEW t \in Tickets, Reporter(t) PROVE ReporterStep(t)
  BY OnStartSteps, OnRequeueSteps, FinalizeSteps, TryCommentAgainSteps, FinalCommentSteps,
     FinalLabelsSteps, FinalizeQueuedSteps, QueueOfflinePrSteps DEF Reporter

\* The data after a step of a ticket's executor.
LEMMA ReporterKeepsData ==
    ASSUME OutboxInv, NEW t \in Tickets, ReporterStep(t) PROVE DataInv'
<1> USE DEF OutboxInv
<1>1. OpFiles'
  BY EnqueueKeepsFiles DEF DataInv, ReporterStep, Reports, Queues, Fresh, OpFiles
<1>2. TicketTyped'
  BY DEF ReporterStep
<1>3. GithubTyped' /\ NoDoublePost'
  <2>1. CASE UNCHANGED posted
    BY <2>1 DEF DataInv, GithubTyped, NoDoublePost, ReporterStep, Reports, LabelsStay
  <2>2. CASE phase[t] = "reporting" /\ t \notin landed /\ Post(t, runs[t])
    <3>1. posted[t] \in Seq(Nat) /\ runs[t] \in Nat /\ runs[t] \notin Range(posted[t])
      BY <2>2 DEF DataInv, GithubTyped, TicketTyped, RunIsUnreported
    <3>2. posted' = [posted EXCEPT ![t] = Append(posted[t], runs[t])]
      BY <2>2 DEF Post
    <3>3. Append(posted[t], runs[t]) \in Seq(Nat) /\ IsInjective(Append(posted[t], runs[t]))
      BY <3>1, AppendComment DEF DataInv, NoDoublePost
    <3> QED
      BY <3>2, <3>3 DEF DataInv, GithubTyped, NoDoublePost, ReporterStep, Reports, LabelsStay
  <2> QED
    BY <2>1, <2>2 DEF ReporterStep
<1>4. \A u \in Tickets : Range(posted'[u]) \subseteq Range(posted[u]) \cup (IF u = t THEN {runs[t]} ELSE {})
  <2>1. CASE UNCHANGED posted
    BY <2>1
  <2>2. CASE Post(t, runs[t])
    <3>1. Range(Append(posted[t], runs[t])) = Range(posted[t]) \cup {runs[t]}
      BY AppendComment DEF DataInv, GithubTyped, TicketTyped
    <3> QED
      BY <2>2, <3>1 DEF Post, DataInv, GithubTyped
  <2> QED
    BY <2>1, <2>2 DEF ReporterStep
<1>5. OpsAreSane'
  <2>1. \A u \in Tickets : runs[u] \in Nat /\ runs'[u] \in Nat /\ runs[u] <= runs'[u]
    BY DEF ReporterStep, DataInv, TicketTyped
  <2>2. /\ \A o \in live' : o \in live \/ (o.t = t /\ o \in Op /\ Fresh(o, t))
        /\ dead' = dead /\ dropped \subseteq dropped'
    BY DEF ReporterStep, Reports, Queues, Enqueue, Fresh
  <2>3. \A o \in live' \cup dead' : Sane(o)'
    <3>1. \A o \in live \cup dead : Sane(o)'
      BY <2>1 DEF DataInv, OpFiles, Op, OpsAreSane, Sane
    <3>2. \A o \in Op : o.t = t /\ Fresh(o, t) => Sane(o)'
      BY <2>1 DEF Op, Sane, Fresh
    <3> QED
      BY <2>2, <3>1, <3>2
  <2>6. \A d \in dead' : d.t \in dropped'
    BY <2>2 DEF DataInv, OpsAreSane
  <2>4. \A u \in Tickets : \A r \in Range(posted[u]) : r \in Nat
    BY CommentsAreOfRuns DEF DataInv, GithubTyped, Range
  <2>5. \A u \in Tickets : \A r \in Range(posted'[u]) : r <= runs'[u]
    BY <1>4, <2>1, <2>4 DEF DataInv, OpsAreSane
  <2> QED
    BY <2>3, <2>5, <2>6 DEF OpsAreSane
<1>6. RunIsUnreported'
  <2>1. SUFFICES ASSUME NEW u \in Tickets, phase'[u] \in {"running", "reporting"}
                 PROVE  /\ runs'[u] \notin Range(posted'[u]) \/ u \in landed'
                        /\ \A o \in live' \cup dead' :
                              o.t = u /\ o.kind # "labels" => o.run # runs'[u]
    BY DEF RunIsUnreported
  <2>2. \A o \in live' \cup dead' : o \in live \cup dead \/ Fresh(o, t)
    BY DEF ReporterStep, Reports, Queues, Enqueue
  <2>3. CASE u # t
    BY <1>4, <2>1, <2>2, <2>3 DEF ReporterStep, DataInv, RunIsUnreported, Fresh
  <2>4. CASE u = t
    <3>1. UNCHANGED posted \/ t \in landed'
      BY <2>1, <2>4 DEF ReporterStep
    <3>2. CASE phase'[t] = "running" /\ runs'[t] = runs[t] + 1
      <4>1. runs[t] \in Nat /\ \A r \in Range(posted[t]) : r \in Nat /\ r <= runs[t]
        BY CommentsAreOfRuns DEF DataInv, GithubTyped, TicketTyped, OpsAreSane, Range
      <4>2. \A o \in live' \cup dead' : o.t = t => o.run \in Nat /\ o.run <= runs[t]
        BY <2>2, <4>1 DEF DataInv, OpsAreSane, Sane, OpFiles, Op, Fresh
      <4> QED
        BY <2>4, <3>1, <3>2, <4>1, <4>2
    <3>3. CASE /\ phase[t] \in {"running", "reporting"} /\ runs'[t] = runs[t] /\ UNCHANGED live
               /\ t \in landed => t \in landed'
      <4>1. dead' = dead
        BY DEF ReporterStep, Reports
      <4> QED
        BY <2>4, <3>1, <3>3, <4>1 DEF DataInv, RunIsUnreported
    <3> QED
      BY <2>1, <2>4, <3>2, <3>3 DEF ReporterStep
  <2> QED
    BY <2>3, <2>4
<1>7. /\ live \subseteq live' /\ dead' = dead /\ trait' = trait /\ raced \subseteq raced'
      /\ severed' = severed /\ BuriedOps' = BuriedOps
  BY DEF ReporterStep, Reports, Queues, Enqueue, BuriedOps
<1>8. ParkedHasOp'
  BY <1>7 DEF ReporterStep, DataInv, ParkedHasOp, PrInHand
<1>9. TailIsKept'
  <2>1. \A u \in Tickets : Range(posted[u]) \subseteq Range(posted'[u])
    <3>1. CASE UNCHANGED posted
      BY <3>1
    <3>2. CASE Post(t, runs[t])
      <4>1. Range(Append(posted[t], runs[t])) = Range(posted[t]) \cup {runs[t]}
        BY AppendComment DEF DataInv, GithubTyped, TicketTyped
      <4> QED
        BY <3>2, <4>1 DEF Post, DataInv, GithubTyped
    <3> QED
      BY <3>1, <3>2 DEF ReporterStep
  <2>2. \A u \in Tickets : "done" \in labels[u] => "done" \in labels'[u]
    BY DEF ReporterStep, Reports, LabelsStay
  <2>3. \A d \in dead : d.t \in Tickets
    BY DEF DataInv, OpFiles, Op
  <2> QED
    BY <1>7, <2>1, <2>2, <2>3 DEF DataInv, TailIsKept, Silent
<1>10. CallTyped'
  BY DEF ReporterStep
<1> QED
  BY <1>1, <1>2, <1>3, <1>5, <1>6, <1>8, <1>9, <1>10 DEF DataInv

\* A flush under way meets a step of a ticket's executor.
LEMMA ReporterKeepsFlush ==
    ASSUME OutboxInv, NEW t \in Tickets, ReporterStep(t) PROVE FlushInv'
<1>1. /\ UNCHANGED <<lock, todo, cur, at, trait>> /\ live \subseteq live'
      /\ raced \subseteq raced' /\ dead' = dead
  BY DEF ReporterStep, Reports, Queues, Enqueue
<1>2. FlushTyped' /\ FlushHoldsFiles'
  BY <1>1 DEF OutboxInv, FlushInv, FlushTyped, FlushHoldsFiles
<1>3. \A f \in Flushers : lock = f =>
          cur[f] \in live \cup dead /\ cur[f].t \in Tickets
  BY DEF OutboxInv, FlushInv, FlushHoldsFiles, DataInv, OpFiles, Op
<1>4. \A u \in Tickets : /\ Range(posted[u]) \subseteq Range(posted'[u])
                         /\ \/ Range(posted'[u]) = Range(posted[u])
                            \/ /\ u = t /\ phase[t] = "reporting"
                               /\ Range(posted'[u]) = Range(posted[u]) \cup {runs[t]}
  <2>1. CASE UNCHANGED posted
    BY <2>1
  <2>2. CASE phase[t] = "reporting" /\ Post(t, runs[t])
    <3>1. Range(Append(posted[t], runs[t])) = Range(posted[t]) \cup {runs[t]}
      BY AppendComment DEF OutboxInv, DataInv, GithubTyped, TicketTyped
    <3> QED
      BY <2>2, <3>1 DEF Post, OutboxInv, DataInv, GithubTyped
  <2> QED
    BY <2>1, <2>2 DEF ReporterStep
<1>5. PostIsNew'
  BY <1>1, <1>3, <1>4 DEF OutboxInv, FlushInv, FlushHoldsFiles, PostIsNew, DataInv,
     RunIsUnreported, CommentSteps
<1>6. MarkerIsGone'
  BY <1>1, <1>3 DEF OutboxInv, FlushInv, MarkerIsGone, ReporterStep
<1>7. TailIsDone'
  BY <1>1, <1>3, <1>4 DEF OutboxInv, FlushInv, TailIsDone, ReporterStep, Reports,
     LabelsStay, Silent
<1> QED
  BY <1>2, <1>5, <1>6, <1>7 DEF FlushInv

----------------------------------------------------------------------------
(* The flush: going on with the next op, or stopping.                      *)

\* The next op starts at a step before every promise about sent ones.
LEMMA AdvanceKeepsFlush ==
    ASSUME FlushTyped, OpFiles', \A o \in live' : (o.url => o.pushed),
           NEW f \in Flushers, lock \in {f, None},
           NEW rest \in SUBSET live', Advance(f, rest)
    PROVE  FlushInv'
<1>1. CASE rest = {} /\ Rest(f) /\ lock' = None
  <2>1. FlushTyped'
    BY <1>1 DEF FlushTyped, Rest, Go
  <2> QED
    BY <1>1, <2>1 DEF FlushInv, FlushHoldsFiles, PostIsNew, MarkerIsGone, TailIsDone
<1>2. CASE \E op \in rest :
             /\ \A o \in rest : op.id <= o.id
             /\ todo' = [todo EXCEPT ![f] = rest \ {op}] /\ cur' = [cur EXCEPT ![f] = op]
             /\ Go(f, Entry(op)) /\ lock' = f
  <2>1. PICK op \in rest :
             /\ \A o \in rest : op.id <= o.id
             /\ todo' = [todo EXCEPT ![f] = rest \ {op}] /\ cur' = [cur EXCEPT ![f] = op]
             /\ Go(f, Entry(op)) /\ lock' = f
    BY <1>2
  <2>2. op \in live' /\ op \in Op /\ op.kind \in Kinds /\ op.pushed \in BOOLEAN /\ op.url \in BOOLEAN
        /\ rest \subseteq Op
    BY DEF OpFiles, Op
  <2>3. /\ Entry(op) \in CallSteps \ {"post", "sent", "buried"}
        /\ Entry(op) \in PrSteps <=> op.kind = "pr"
        /\ Entry(op) = "scan" <=> op.kind = "comment"
        /\ Entry(op) = "label" <=> op.kind = "labels"
        /\ Entry(op) = "push" => ~op.pushed
        /\ Entry(op) = "create" => op.pushed /\ ~op.url
    BY <2>2 DEF Entry, CallSteps, PrSteps, CommentSteps, Kinds
  <2>4. at'[f] = Entry(op) /\ cur'[f] = op /\ todo'[f] = rest \ {op}
        /\ \A g \in Flushers \ {f} : at'[g] = at[g]
    BY <2>1 DEF FlushTyped, Go
  <2>5. FlushTyped'
    <3>1. /\ todo' \in [Flushers -> SUBSET Op]
          /\ cur' \in [Flushers -> Op \cup {None}]
      BY <2>1, <2>2 DEF FlushTyped
    <3>2. at' \in [Flushers -> {"idle", "listed"} \cup CallSteps]
      BY <2>1, <2>3 DEF FlushTyped, Go
    <3>3. \A g \in Flushers : lock' = g <=> at'[g] \notin {"idle", "listed"}
      BY <2>1, <2>3, <2>4 DEF FlushTyped, CallSteps, PrSteps, CommentSteps
    <3> QED
      BY <2>1, <3>1, <3>2, <3>3 DEF FlushTyped
  <2>6. FlushHoldsFiles'
    <3>1. \A o \in rest \ {op} : op.id < o.id
      BY <2>1, <2>2 DEF OpFiles, Op
    <3> QED
      BY <2>1, <2>2, <2>3, <2>4, <3>1 DEF FlushHoldsFiles, PrSteps, CommentSteps, Kinds
  <2>7. PostIsNew' /\ MarkerIsGone' /\ TailIsDone'
    BY <2>1, <2>3, <2>4 DEF PostIsNew, MarkerIsGone, TailIsDone, PrSteps
  <2> QED
    BY <2>5, <2>6, <2>7 DEF FlushInv
<1> QED
  BY <1>1, <1>2 DEF Advance

----------------------------------------------------------------------------
(* What a flush does to the op files and to GitHub.                        *)

\* The rewritten op is still the same report.
SameReport(op, c) ==
    /\ op.id = c.id /\ op.kind = c.kind /\ op.t = c.t /\ op.run = c.run
    /\ op.add = c.add /\ op.remove = c.remove /\ op.tail = c.tail

HistoryGrows ==
    /\ dropped \subseteq dropped' /\ dropped' \subseteq Tickets
    /\ raced \subseteq raced' /\ raced' \subseteq Tickets

\* No live comment is under way in the step, and what is being buried stays so.
Aside == UNCHANGED callVars /\ severed' = severed /\ BuriedOps \subseteq BuriedOps'

LEMMA CallsAside ==
    ASSUME CallTyped, \A t \in Tickets : phase'[t] = phase[t], UNCHANGED callVars
    PROVE  CallTyped'
  BY DEF CallTyped, callVars

LEMMA NothingBuried ==
    ASSUME OutboxInv, NEW f \in Flushers, lock \in {f, None}, at[f] # "buried"
    PROVE  BuriedOps = {}
  BY DEF OutboxInv, FlushInv, FlushTyped, BuriedOps

LEMMA RewriteKeepsData ==
    ASSUME DataInv, NEW c \in live, NEW op \in Op, SameReport(op, c),
           op.url => op.pushed, op.attempts < MaxAttempts, live' = Without(op) \cup {op},
           UNCHANGED <<dead, nextId, phase, runs, meta, labels, posted, trait>>,
           HistoryGrows, Aside, prs' \subseteq Tickets
    PROVE  DataInv'
<1>1. OpFiles'
  BY RewriteKeepsFiles DEF DataInv, SameReport
<1>2. /\ \A o \in live' : o = op \/ o \in live
      /\ \A o \in live : o = c \/ o \in live'
      /\ op \in live'
  BY DEF Without, SameReport, DataInv, OpFiles
<1>3. TicketTyped' /\ GithubTyped' /\ NoDoublePost' /\ CallTyped'
  BY CallsAside DEF DataInv, TicketTyped, GithubTyped, NoDoublePost, HistoryGrows, Aside
<1>4. OpsAreSane'
  BY <1>2 DEF DataInv, OpsAreSane, Sane, SameReport, HistoryGrows
<1>5. RunIsUnreported'
  BY <1>2 DEF DataInv, RunIsUnreported, SameReport, Aside, callVars
<1>6. ParkedHasOp'
  <2>1. \A u : PrInHand(u) => PrInHand(u)'
    BY <1>2 DEF PrInHand, SameReport, Aside
  <2> QED
    BY <2>1 DEF DataInv, ParkedHasOp, HistoryGrows, Aside
<1>7. TailIsKept'
  BY <1>2 DEF DataInv, TailIsKept, SameReport, Silent, Aside
<1> QED
  BY <1>1, <1>3, <1>4, <1>5, <1>6, <1>7 DEF DataInv

\* An op that is sent has lost its marker, and as a tail has had its effect.
LEMMA RemoveKeepsData ==
    ASSUME DataInv, NEW c \in live, live' = Without(c),
           c.kind = "pr" => c.t \in raced \/ (phase[c.t] = "settled" /\ meta[c.t] # "pr_queued"),
           c.tail /\ c.t \notin Silent =>
               c.run \in Range(posted[c.t]) /\ "done" \in labels[c.t],
           UNCHANGED <<dead, nextId, ticketVars, githubVars, trait, dropped, raced>>, Aside
    PROVE  DataInv'
<1> USE DEF ticketVars, githubVars
<1>1. OpFiles'
  BY RemoveKeepsFiles DEF DataInv
<1>2. live' \subseteq live /\ \A o \in live : o = c \/ o \in live'
  BY DEF Without, DataInv, OpFiles
<1>3. TicketTyped' /\ GithubTyped' /\ NoDoublePost' /\ CallTyped'
  BY CallsAside DEF DataInv, TicketTyped, GithubTyped, NoDoublePost, Aside
<1>4. OpsAreSane' /\ RunIsUnreported'
  BY <1>2 DEF DataInv, OpsAreSane, Sane, RunIsUnreported, Aside, callVars
<1>5. ParkedHasOp'
  <2>1. \A u : PrInHand(u) => PrInHand(u)' \/ (c.kind = "pr" /\ c.t = u)
    BY <1>2 DEF PrInHand, Aside
  <2> QED
    BY <2>1 DEF DataInv, ParkedHasOp, Aside
<1>6. TailIsKept'
  BY <1>2 DEF DataInv, TailIsKept, Silent, Aside
<1> QED
  BY <1>1, <1>3, <1>4, <1>5, <1>6 DEF DataInv

\* The op file is renamed to dead/; the flush still has it in hand.
LEMMA BuryKeepsData ==
    ASSUME DataInv, NEW f \in Flushers, cur[f] \in live, Bury(f), at'[f] = "buried",
           UNCHANGED <<phase, runs, githubVars, trait>>, Aside
    PROVE  DataInv'
<1> DEFINE c == cur[f]
<1>1. /\ c \in live /\ c \in Op /\ c.t \in Tickets
      /\ dead' = dead \cup {c} /\ live' = Without(c) /\ dropped' = dropped \cup {c.t}
      /\ UNCHANGED <<nextId, meta, raced, cur>>
  BY DEF Bury, DataInv, OpFiles, Op
<1>2. UNCHANGED <<labels, posted, prs>>
  BY DEF githubVars
<1>3. c \in BuriedOps'
  BY <1>1 DEF BuriedOps
<1> HIDE DEF c
<1>4. OpFiles'
  BY <1>1, RemoveKeepsFiles DEF DataInv
<1>5. /\ live' \cup dead' = live \cup dead
      /\ \A o \in live : o = c \/ o \in live'
  BY <1>1 DEF Without, DataInv, OpFiles
<1>6. TicketTyped' /\ GithubTyped' /\ NoDoublePost' /\ CallTyped'
  BY <1>1, <1>2, CallsAside DEF DataInv, TicketTyped, GithubTyped, NoDoublePost, Aside
<1>7. OpsAreSane' /\ RunIsUnreported'
  BY <1>1, <1>2, <1>5 DEF DataInv, OpsAreSane, Sane, RunIsUnreported, Aside, callVars
<1>8. ParkedHasOp'
  <2>1. \A u : PrInHand(u) => PrInHand(u)'
    BY <1>3, <1>5 DEF PrInHand, Aside
  <2> QED
    BY <1>1, <2>1 DEF DataInv, ParkedHasOp, Aside
<1>9. TailIsKept'
  BY <1>1, <1>2, <1>3, <1>5 DEF DataInv, TailIsKept, Silent, Aside
<1> QED
  BY <1>4, <1>6, <1>7, <1>8, <1>9 DEF DataInv

\* A dead-lettered op leaves its tail behind, and no marker without an op.
LEMMA DeadLetterKeepsData ==
    ASSUME DataInv, NEW f \in Flushers, cur[f] \in dead, BuriedOps = {cur[f]}, DeadLetter(f),
           cur[f].kind = "pr" /\ cur[f].url =>
               \/ cur[f].t \in raced
               \/ phase[cur[f].t] = "settled" /\ meta[cur[f].t] # "pr_queued"
    PROVE  DataInv' /\ live \subseteq live'
<1> DEFINE c == cur[f]
           hasTail == c.kind = "pr" /\ c.url /\ c.t \notin Silent /\ ~c.tail
           tail == [c EXCEPT !.id = nextId, !.attempts = 0, !.tail = TRUE]
           marked == c.kind = "pr" /\ ~c.url
<1>1. c \in dead /\ c \in Op /\ c.t \in Tickets /\ nextId \in Nat /\ 0 \in 0 .. MaxAttempts
  BY DEF DataInv, OpFiles, Op
<1>2. tail \in Op
  BY <1>1 DEF Op
<1>3. /\ tail.id = nextId /\ tail.attempts = 0 /\ tail.tail /\ tail.kind = c.kind
      /\ tail.t = c.t /\ tail.run = c.run /\ tail.add = c.add /\ tail.remove = c.remove
      /\ tail.url = c.url /\ tail.pushed = c.pushed
  BY <1>1 DEF Op
<1>4. /\ IF hasTail THEN Enqueue(tail) ELSE UNCHANGED <<live, nextId>>
      /\ meta' = [meta EXCEPT ![c.t] = IF marked /\ @ = "pr_queued" THEN "none" ELSE @]
      /\ raced' = IF marked /\ phase[c.t] # "settled" THEN raced \cup {c.t} ELSE raced
      /\ UNCHANGED <<dead, phase, runs, githubVars, callVars, envVars, dropped>>
  BY DEF DeadLetter, ClearMarker
<1>5. UNCHANGED <<labels, posted, prs, trait, severed>>
  BY <1>4 DEF githubVars, envVars
<1>6. BuriedOps = {c} /\ (c.kind = "pr" /\ c.url =>
          c.t \in raced \/ (phase[c.t] = "settled" /\ meta[c.t] # "pr_queued"))
  OBVIOUS
<1> HIDE DEF c, tail
<1>7. /\ \A o \in live' : (o = tail /\ hasTail) \/ o \in live
      /\ live \subseteq live' /\ (hasTail => tail \in live')
  BY <1>4 DEF Enqueue
<1>8. OpFiles'
  BY <1>2, <1>3, <1>4, EnqueueKeepsFiles DEF DataInv, OpFiles
<1>9. TicketTyped' /\ GithubTyped' /\ NoDoublePost' /\ CallTyped'
  BY <1>1, <1>4, <1>5, CallsAside DEF DataInv, TicketTyped, GithubTyped, NoDoublePost
<1>10. OpsAreSane' /\ RunIsUnreported'
  <2>1. Sane(c)
    BY <1>1 DEF DataInv, OpsAreSane
  <2>2. hasTail => \A o : o = tail => Sane(o)'
    BY <1>3, <1>4, <2>1 DEF Sane
  <2>5. \A o \in live \cup dead : Sane(o)'
    BY <1>4 DEF DataInv, OpsAreSane, Sane
  <2>6. \A o \in live' \cup dead' : Sane(o)'
    BY <1>4, <1>7, <2>2, <2>5
  <2>3. OpsAreSane'
    BY <1>4, <1>5, <2>6 DEF DataInv, OpsAreSane
  <2>4. RunIsUnreported'
    BY <1>1, <1>3, <1>4, <1>5, <1>7 DEF DataInv, RunIsUnreported, callVars
  <2> QED
    BY <2>3, <2>4
<1>11. ParkedHasOp'
  <2>1. \A u : PrInHand(u) => PrInHand(u)' \/ (c.kind = "pr" /\ c.t = u)
    BY <1>6, <1>7 DEF PrInHand
  <2>2. SUFFICES ASSUME NEW u \in Tickets \ (raced' \cup severed),
                        phase[u] = "parking" \/ meta'[u] = "pr_queued"
                 PROVE  PrInHand(u)'
    BY <1>4, <1>5 DEF ParkedHasOp
  <2>3. u \notin raced /\ (phase[u] = "parking" \/ meta[u] = "pr_queued")
    BY <1>1, <1>4, <2>2 DEF DataInv, TicketTyped
  <2>4. ~ (c.kind = "pr" /\ c.t = u)
    <3>1. SUFFICES ASSUME c.kind = "pr", c.t = u PROVE FALSE
      OBVIOUS
    <3>2. CASE c.url
      BY <1>6, <2>3, <3>1, <3>2
    <3>3. CASE ~c.url
      <4>1. phase[u] = "settled"
        BY <1>4, <2>2, <3>1, <3>3
      <4>2. meta'[u] # "pr_queued"
        BY <1>1, <1>4, <3>1, <3>3 DEF DataInv, TicketTyped
      <4> QED
        BY <2>2, <4>1, <4>2
    <3> QED
      BY <3>2, <3>3
  <2> QED
    BY <2>1, <2>2, <2>3, <2>4 DEF DataInv, ParkedHasOp
<1>12. TailIsKept'
  <2>1. SUFFICES ASSUME NEW d \in dead,
                        d.kind = "pr" /\ d.url /\ d.t \notin Silent \cup severed /\ ~d.tail
                 PROVE  \/ \E e \in live' \cup dead' : e.t = d.t /\ e.run = d.run /\ e.tail
                        \/ d.run \in Range(posted[d.t]) /\ "done" \in labels[d.t]
    BY <1>4, <1>5 DEF TailIsKept, Silent
  <2>2. CASE d # c
    <3>1. d \in dead \ BuriedOps
      BY <1>6, <2>2
    <3> QED
      BY <1>4, <1>7, <2>1, <3>1 DEF DataInv, TailIsKept
  <2>3. CASE d = c
    BY <1>3, <1>7, <2>1, <2>3
  <2> QED
    BY <2>2, <2>3
<1> QED
  BY <1>7, <1>8, <1>9, <1>10, <1>11, <1>12 DEF DataInv

\* A comment that is not there yet, of an op that is.
LEMMA PostKeepsData ==
    ASSUME DataInv, NEW c \in live, c.kind # "labels", c.run \notin Range(posted[c.t]),
           Post(c.t, c.run),
           UNCHANGED <<live, dead, nextId, ticketVars, labels, prs, trait, dropped, raced>>, Aside
    PROVE  DataInv' /\ c.run \in Range(posted'[c.t])
<1> USE DEF ticketVars
<1>1. c.t \in Tickets /\ c.run \in Nat /\ posted[c.t] \in Seq(Nat)
  BY DEF DataInv, OpFiles, Op, GithubTyped
<1>2. /\ Append(posted[c.t], c.run) \in Seq(Nat) /\ IsInjective(Append(posted[c.t], c.run))
      /\ Range(Append(posted[c.t], c.run)) = Range(posted[c.t]) \cup {c.run}
  BY <1>1, AppendComment DEF DataInv, NoDoublePost
<1>3. /\ posted' \in [Tickets -> Seq(Nat)]
      /\ posted'[c.t] = Append(posted[c.t], c.run)
      /\ \A u \in Tickets \ {c.t} : posted'[u] = posted[u]
  BY <1>1, <1>2 DEF Post, DataInv, GithubTyped
<1>4. /\ Range(posted'[c.t]) = Range(posted[c.t]) \cup {c.run}
      /\ \A u \in Tickets : Range(posted[u]) \subseteq Range(posted'[u])
      /\ \A u \in Tickets : \A r \in Range(posted'[u]) :
            r \in Range(posted[u]) \/ (u = c.t /\ r = c.run)
  <2>1. Range(posted'[c.t]) = Range(posted[c.t]) \cup {c.run}
    BY <1>2, <1>3
  <2>2. \A u \in Tickets \ {c.t} : Range(posted'[u]) = Range(posted[u])
    BY <1>3
  <2> QED
    BY <2>1, <2>2
<1>5. OpFiles' /\ TicketTyped' /\ GithubTyped' /\ CallTyped'
  BY <1>3, CallsAside DEF DataInv, OpFiles, TicketTyped, GithubTyped, Aside
<1>10. ParkedHasOp'
  BY DEF DataInv, ParkedHasOp, PrInHand, Aside
<1>6. NoDoublePost'
  <2>1. IsInjective(posted'[c.t])
    BY <1>2, <1>3
  <2>2. \A u \in Tickets \ {c.t} : IsInjective(posted'[u])
    BY <1>3 DEF DataInv, NoDoublePost
  <2> QED
    BY <2>1, <2>2 DEF NoDoublePost
<1>7. OpsAreSane'
  <2>1. c.run <= runs[c.t]
    BY DEF DataInv, OpsAreSane, Sane
  <2>2. \A u \in Tickets : \A r \in Range(posted'[u]) : r <= runs[u]
    BY <1>4, <2>1 DEF DataInv, OpsAreSane
  <2>3. \A o \in live \cup dead : Sane(o)'
    BY DEF DataInv, OpsAreSane, Sane
  <2> QED
    BY <2>2, <2>3 DEF DataInv, OpsAreSane
<1>8. RunIsUnreported'
  BY <1>4 DEF DataInv, RunIsUnreported, Aside, callVars
<1>9. TailIsKept'
  <2>1. \A d \in dead : d.t \in Tickets
    BY DEF DataInv, OpFiles, Op
  <2> QED
    BY <1>4, <2>1 DEF DataInv, TailIsKept, Silent, Aside
<1> QED
  BY <1>4, <1>5, <1>6, <1>7, <1>8, <1>9, <1>10 DEF DataInv

LEMMA QuietKeepsData ==
    ASSUME DataInv, LabelsStay, prs' \subseteq Tickets,
           UNCHANGED <<live, dead, nextId, ticketVars, posted, trait, dropped, raced>>, Aside
    PROVE  DataInv'
<1> USE DEF ticketVars
<1>1. OpFiles' /\ TicketTyped' /\ GithubTyped' /\ CallTyped' /\ ParkedHasOp'
  BY CallsAside DEF DataInv, OpFiles, TicketTyped, GithubTyped, ParkedHasOp, PrInHand, LabelsStay,
     Aside
<1>2. NoDoublePost' /\ OpsAreSane' /\ RunIsUnreported'
  BY DEF DataInv, NoDoublePost, OpsAreSane, Sane, RunIsUnreported, Aside, callVars
<1>3. TailIsKept'
  <2>1. \A d \in dead : d.t \in Tickets
    BY DEF DataInv, OpFiles, Op
  <2> QED
    BY <2>1 DEF DataInv, TailIsKept, Silent, LabelsStay, Aside
<1> QED
  BY <1>1, <1>2, <1>3 DEF DataInv

----------------------------------------------------------------------------
(* The steps of a flush that holds the lock.                               *)

LEMMA HeldOps ==
    ASSUME OutboxInv, NEW f \in Flushers, lock = f, at[f] # "buried"
    PROVE  /\ cur[f] \in live /\ cur[f] \in Op /\ cur[f].t \in Tickets
           /\ cur[f].attempts \in Nat /\ cur[f].attempts < MaxAttempts
           /\ cur[f].url => cur[f].pushed
           /\ todo[f] \subseteq live /\ todo[f] \subseteq Without(cur[f])
<1>1. cur[f] \in live /\ cur[f] \in Op /\ todo[f] \subseteq live
  BY DEF OutboxInv, DataInv, FlushInv, FlushHoldsFiles, OpFiles
<1>2. \A o \in todo[f] : o.id # cur[f].id
  BY <1>1 DEF OutboxInv, DataInv, FlushInv, FlushHoldsFiles, OpFiles, Op
<1> QED
  BY <1>1, <1>2 DEF OutboxInv, DataInv, OpFiles, OpsAreSane, Sane, Op, Without

\* A flush at a call of its op leaves the buried ops alone.
LEMMA CallAside ==
    ASSUME OutboxInv, NEW f \in Flushers, lock = f, at[f] # "buried",
           UNCHANGED <<callVars, severed>>
    PROVE  Aside
  BY NothingBuried DEF Aside

LEMMA AdvanceAfter ==
    ASSUME OutboxInv, DataInv', NEW f \in Flushers, lock \in {f, None},
           NEW rest \in SUBSET live', Advance(f, rest)
    PROVE  OutboxInv'
<1>1. FlushTyped /\ OpFiles' /\ \A o \in live' : (o.url => o.pushed)
  BY DEF OutboxInv, FlushInv, DataInv, OpsAreSane, Sane
<1> QED
  BY <1>1, AdvanceKeepsFlush DEF OutboxInv

LEMMA FinishAfter ==
    ASSUME OutboxInv, DataInv', NEW f \in Flushers, lock = f, Finish(f)
    PROVE  OutboxInv'
  BY AdvanceAfter DEF Finish

LEMMA RefusedKeeps ==
    ASSUME OutboxInv, NEW f \in Flushers, lock = f,
           at[f] \in {"push", "create", "scan", "post", "label"}, Refused(f),
           UNCHANGED <<phase, runs, githubVars, callVars, trait, severed>>
    PROVE  OutboxInv'
<1> DEFINE c == cur[f]
           op == [c EXCEPT !.attempts = @ + 1]
<1>1. /\ c \in live /\ c \in Op /\ c.t \in Tickets /\ c.attempts \in Nat
      /\ c.attempts < MaxAttempts /\ (c.url => c.pushed)
      /\ todo[f] \subseteq live /\ todo[f] \subseteq Without(c)
  BY HeldOps
<1>2. op \in Op /\ op.attempts = c.attempts + 1 /\ SameReport(op, c)
  BY <1>1 DEF Op, SameReport
<1>3. op.url = c.url /\ op.pushed = c.pushed
  BY <1>1 DEF Op
<1>4. Aside
  BY CallAside
<1>5. CASE op.attempts = MaxAttempts
  <2>1. Bury(f)
    BY <1>5 DEF Refused
  <2>2. /\ live' = Without(c) /\ dead' = dead \cup {c}
        /\ at' = [at EXCEPT ![f] = "buried"] /\ UNCHANGED <<lock, todo, cur, meta, raced>>
    BY <2>1 DEF Bury, Go
  <2>3. FlushInv
    BY DEF OutboxInv
  <2>4. at'[f] = "buried" /\ \A g \in Flushers : lock' = g <=> g = f
    BY <2>2, <2>3 DEF FlushInv, FlushTyped
  <2>5. DataInv'
    BY <1>1, <1>4, <2>1, <2>4, BuryKeepsData DEF OutboxInv
  <2>6. FlushTyped'
    BY <2>2, <2>3 DEF FlushInv, FlushTyped, CallSteps
  <2>7. FlushHoldsFiles'
    <3>1. c \in dead' /\ todo[f] \subseteq live' /\ \A o \in todo[f] : c.id < o.id
      BY <1>1, <2>2, <2>3 DEF FlushInv, FlushHoldsFiles
    <3> QED
      BY <2>2, <2>4, <3>1 DEF FlushHoldsFiles, PrSteps, CommentSteps
  <2>8. MarkerIsGone'
    <3>1. at[f] \in {"push", "create"} => ~c.url
      BY <2>3 DEF FlushInv, FlushHoldsFiles
    <3>2. c.kind = "pr" /\ c.url =>
              c.t \in raced \/ (phase[c.t] = "settled" /\ meta[c.t] # "pr_queued")
      BY <2>3, <3>1 DEF FlushInv, MarkerIsGone
    <3> QED
      BY <2>2, <2>4, <3>2 DEF MarkerIsGone
  <2>9. PostIsNew' /\ TailIsDone'
    BY <2>4 DEF PostIsNew, TailIsDone
  <2> QED
    BY <2>5, <2>6, <2>7, <2>8, <2>9 DEF OutboxInv, FlushInv
<1>7. CASE op.attempts # MaxAttempts
  <2>1. /\ live' = Without(op) \cup {op} /\ UNCHANGED <<dead, nextId, meta, dropped>>
        /\ raced' = IF \E o \in todo[f] : o.t = op.t THEN raced \cup {op.t} ELSE raced
        /\ Advance(f, todo[f])
    BY <1>7 DEF Refused
  <2>2. op.t = c.t /\ op.attempts < MaxAttempts
    BY <1>1, <1>2, <1>7 DEF SameReport
  <2> HIDE DEF c, op
  <2>3. HistoryGrows
    BY <1>1, <2>1, <2>2 DEF HistoryGrows, OutboxInv, DataInv, TicketTyped
  <2>4. prs' \subseteq Tickets /\ UNCHANGED <<labels, posted>>
    BY DEF githubVars, OutboxInv, DataInv, GithubTyped
  <2>5. op.url => op.pushed
    BY <1>1, <1>3
  <2>6. DataInv'
    BY <1>1, <1>2, <1>4, <2>1, <2>2, <2>3, <2>4, <2>5, RewriteKeepsData DEF OutboxInv
  <2>7. todo[f] \subseteq live'
    BY <1>1, <1>2, <2>1 DEF Without, SameReport
  <2> QED
    BY <2>1, <2>6, <2>7, AdvanceAfter
<1> QED
  BY <1>5, <1>7

LEMMA DeadLetterKeeps ==
    ASSUME OutboxInv, NEW f \in Flushers, DeadLetter(f) PROVE OutboxInv'
<1>1. lock = f /\ at[f] = "buried" /\ Advance(f, todo[f])
  BY DEF DeadLetter, Replaying
<1>2. cur[f] \in dead /\ todo[f] \subseteq live /\ BuriedOps = {cur[f]}
  BY <1>1 DEF OutboxInv, FlushInv, FlushTyped, FlushHoldsFiles, BuriedOps
<1>3. cur[f].kind = "pr" /\ cur[f].url =>
          \/ cur[f].t \in raced
          \/ phase[cur[f].t] = "settled" /\ meta[cur[f].t] # "pr_queued"
  BY <1>1 DEF OutboxInv, FlushInv, MarkerIsGone
<1>4. DataInv' /\ live \subseteq live'
  BY <1>2, <1>3, DeadLetterKeepsData DEF OutboxInv
<1> QED
  BY <1>1, <1>2, <1>4, AdvanceAfter

\* A checkpoint of the composite op: the file and the copy read op.
LEMMA CheckpointKeeps ==
    ASSUME OutboxInv, NEW f \in Flushers, lock = f, at[f] # "buried", cur[f].kind = "pr",
           NEW op \in Op, SameReport(op, cur[f]), op.url => op.pushed,
           op.attempts = cur[f].attempts, Rewrite(f, op),
           NEW step \in {"create", "write"}, Go(f, step),
           step = "create" => op.pushed /\ ~op.url,
           prs' \subseteq Tickets,
           UNCHANGED <<dead, nextId, lock, ticketVars, labels, posted, trait, dropped, raced>>,
           UNCHANGED <<callVars, severed>>
    PROVE  OutboxInv'
<1> USE DEF ticketVars
<1>1. /\ cur[f] \in live /\ cur[f].attempts < MaxAttempts
      /\ todo[f] \subseteq Without(cur[f])
  BY HeldOps
<1>2. /\ live' = Without(op) \cup {op} /\ cur' = [cur EXCEPT ![f] = op] /\ todo' = todo
      /\ at' = [at EXCEPT ![f] = step]
  BY DEF Rewrite, Go
<1>3. DataInv'
  <2>1. HistoryGrows /\ Aside
    BY CallAside DEF HistoryGrows, OutboxInv, DataInv, TicketTyped
  <2> QED
    BY <1>1, <1>2, <2>1, RewriteKeepsData DEF OutboxInv
<1>4. FlushTyped /\ at[f] \in CallSteps
  BY DEF OutboxInv, FlushInv, FlushTyped
<1>5. /\ cur'[f] = op /\ at'[f] = step /\ todo'[f] = todo[f]
  BY <1>2, <1>4 DEF FlushTyped
<1>6. FlushTyped'
  BY <1>2, <1>4 DEF FlushTyped, CallSteps, PrSteps, CommentSteps
<1>7. FlushHoldsFiles'
  <2>1. todo[f] \subseteq live' /\ op \in live'
    BY <1>1, <1>2 DEF Without, SameReport
  <2>2. \A o \in todo[f] : op.id < o.id
    BY DEF OutboxInv, FlushInv, FlushHoldsFiles, SameReport
  <2>3. op.kind = "pr"
    BY DEF SameReport
  <2> QED
    BY <1>5, <2>1, <2>2, <2>3 DEF FlushHoldsFiles, PrSteps, CommentSteps
<1>8. PostIsNew' /\ MarkerIsGone' /\ TailIsDone'
  BY <1>5 DEF PostIsNew, MarkerIsGone, TailIsDone
<1> QED
  BY <1>3, <1>6, <1>7, <1>8 DEF OutboxInv, FlushInv

\* Going on to the next step of the same op.
LEMMA NextStepKeepsFlush ==
    ASSUME OutboxInv, DataInv', NEW f \in Flushers, lock = f, at[f] # "buried",
           NEW step \in {"scan", "post", "label", "sent"}, Go(f, step),
           UNCHANGED <<live, todo, cur, lock>>,
           step \in CommentSteps => cur[f].kind # "labels",
           step = "label" => cur[f].kind # "comment",
           step = "post" => cur[f].run \notin Range(posted'[cur[f].t]),
           cur[f].kind = "pr" =>
               cur[f].t \in raced' \/ (phase'[cur[f].t] = "settled" /\ meta'[cur[f].t] # "pr_queued"),
           step \in {"label", "sent"} /\ cur[f].kind = "pr" /\ cur[f].t \notin Silent' =>
               /\ cur[f].run \in Range(posted'[cur[f].t])
               /\ step = "sent" => "done" \in labels'[cur[f].t]
    PROVE  OutboxInv'
<1>1. FlushTyped /\ FlushHoldsFiles /\ at' = [at EXCEPT ![f] = step]
  BY DEF OutboxInv, FlushInv, Go
<1>2. at'[f] = step /\ at[f] \in CallSteps
  BY <1>1 DEF FlushTyped
<1>3. FlushTyped'
  BY <1>1, <1>2 DEF FlushTyped, CallSteps, PrSteps, CommentSteps
<1>4. FlushHoldsFiles'
  BY <1>1, <1>2 DEF FlushHoldsFiles, PrSteps, CommentSteps
<1>5. PostIsNew' /\ MarkerIsGone' /\ TailIsDone'
  BY <1>2 DEF PostIsNew, MarkerIsGone, TailIsDone
<1> QED
  BY <1>3, <1>4, <1>5 DEF OutboxInv, FlushInv

LEMMA LabelsUntouched == ASSUME OutboxInv, UNCHANGED labels PROVE LabelsStay
  BY DEF OutboxInv, DataInv, GithubTyped, LabelsStay

\* GitHub is unreachable in a call that does not touch the issue.
LEMMA OfflineKeeps ==
    ASSUME OutboxInv, NEW f \in Flushers, lock = f, at[f] # "buried", Fault, Finish(f),
           prs' \subseteq Tickets, UNCHANGED callVars,
           UNCHANGED <<live, dead, nextId, ticketVars, labels, posted, dropped, raced>>
    PROVE  OutboxInv'
<1>1. Aside /\ LabelsStay /\ trait' = trait
  BY LabelsUntouched, CallAside DEF Fault
<1>2. DataInv'
  BY <1>1, QuietKeepsData DEF OutboxInv
<1> QED
  BY <1>2, FinishAfter

LEMMA PushKeeps ==
    ASSUME OutboxInv, NEW f \in Flushers, Push(f) PROVE OutboxInv'
<1> DEFINE op == [cur[f] EXCEPT !.pushed = TRUE]
<1>1. /\ lock = f /\ at[f] = "push" /\ UNCHANGED <<phase, runs, githubVars, callVars>>
      /\ Call(f, TRUE, TRUE, Rewrite(f, op) /\ Go(f, "create"))
  BY DEF Push, Replaying
<1>2. prs' \subseteq Tickets /\ UNCHANGED <<labels, posted>>
  BY <1>1 DEF githubVars, OutboxInv, DataInv, GithubTyped
<1>3. CASE Rewrite(f, op) /\ Go(f, "create") /\ NoFault
           /\ UNCHANGED <<dead, nextId, lock, meta, dropped, raced>>
  <2>1. cur[f] \in Op /\ cur[f].kind = "pr" /\ ~cur[f].url
    BY <1>1, HeldOps DEF OutboxInv, FlushInv, FlushHoldsFiles, PrSteps
  <2>2. op \in Op /\ SameReport(op, cur[f]) /\ op.attempts = cur[f].attempts
    BY <2>1 DEF Op, SameReport
  <2>3. op.pushed /\ ~op.url
    BY <2>1 DEF Op
  <2> HIDE DEF op
  <2> QED
    BY <1>1, <1>2, <1>3, <2>1, <2>2, <2>3, CheckpointKeeps DEF NoFault, envVars, ticketVars
<1>4. CASE Fault /\ Finish(f) /\ UNCHANGED <<live, dead, nextId, meta, dropped, raced>>
  BY <1>1, <1>2, <1>4, OfflineKeeps DEF ticketVars
<1>5. CASE Refusal /\ Refused(f)
  BY <1>1, <1>5, RefusedKeeps DEF Refusal
<1> QED
  BY <1>1, <1>3, <1>4, <1>5 DEF Call

\* The PR is open, or was found open: the url is checkpointed.
LEMMA UrlCheckpointKeeps ==
    ASSUME OutboxInv, NEW f \in Flushers, lock = f, at[f] = "create",
           Rewrite(f, [cur[f] EXCEPT !.url = TRUE]), Go(f, "write"), NoFault,
           prs' \subseteq Tickets,
           UNCHANGED <<dead, nextId, lock, ticketVars, labels, posted, callVars, dropped, raced>>
    PROVE  OutboxInv'
<1> DEFINE op == [cur[f] EXCEPT !.url = TRUE]
<1>1. cur[f] \in Op /\ cur[f].kind = "pr" /\ cur[f].pushed
  BY HeldOps DEF OutboxInv, FlushInv, FlushHoldsFiles, PrSteps
<1>2. op \in Op /\ SameReport(op, cur[f]) /\ op.attempts = cur[f].attempts
  BY <1>1 DEF Op, SameReport
<1>3. op.pushed
  BY <1>1 DEF Op
<1>4. Rewrite(f, op)
  OBVIOUS
<1> HIDE DEF op
<1> QED
  BY <1>1, <1>2, <1>3, <1>4, CheckpointKeeps DEF NoFault, envVars

LEMMA CreateKeeps ==
    ASSUME OutboxInv, NEW f \in Flushers, Create(f) PROVE OutboxInv'
<1>1. /\ lock = f /\ at[f] = "create" /\ UNCHANGED <<phase, runs, labels, posted, callVars>>
      /\ Call(f, prs' = prs \cup {cur[f].t}, UNCHANGED prs,
              Rewrite(f, [cur[f] EXCEPT !.url = TRUE]) /\ Go(f, "write"))
  BY DEF Create, Replaying
<1>2. prs \subseteq Tickets /\ cur[f].t \in Tickets
  BY <1>1, HeldOps DEF OutboxInv, DataInv, GithubTyped
<1>3. CASE /\ prs' = prs \cup {cur[f].t}
           /\ Rewrite(f, [cur[f] EXCEPT !.url = TRUE]) /\ Go(f, "write") /\ NoFault
           /\ UNCHANGED <<dead, nextId, lock, meta, dropped, raced>>
  BY <1>1, <1>2, <1>3, UrlCheckpointKeeps DEF ticketVars
<1>4. CASE /\ prs' = prs \cup {cur[f].t} \/ UNCHANGED prs
           /\ Fault /\ Finish(f) /\ UNCHANGED <<live, dead, nextId, meta, dropped, raced>>
  <2>1. prs' \subseteq Tickets
    BY <1>2, <1>4
  <2> QED
    BY <1>1, <1>4, <2>1, OfflineKeeps DEF ticketVars
<1>5. CASE UNCHANGED prs /\ Refusal /\ Refused(f)
  BY <1>1, <1>5, RefusedKeeps DEF Refusal, githubVars
<1> QED
  BY <1>1, <1>3, <1>4, <1>5 DEF Call

LEMMA ViewKeeps ==
    ASSUME OutboxInv, NEW f \in Flushers, View(f) PROVE OutboxInv'
<1>1. /\ lock = f /\ at[f] = "create" /\ UNCHANGED <<phase, runs, githubVars, callVars>>
      /\ \/ Refused(f) /\ NoFault
         \/ Call(f, TRUE, TRUE, Rewrite(f, [cur[f] EXCEPT !.url = TRUE]) /\ Go(f, "write"))
  BY DEF View, Replaying
<1>2. prs' \subseteq Tickets /\ UNCHANGED <<labels, posted>>
  BY <1>1 DEF githubVars, OutboxInv, DataInv, GithubTyped
<1>3. CASE Rewrite(f, [cur[f] EXCEPT !.url = TRUE]) /\ Go(f, "write") /\ NoFault
           /\ UNCHANGED <<dead, nextId, lock, meta, dropped, raced>>
  BY <1>1, <1>2, <1>3, UrlCheckpointKeeps DEF ticketVars
<1>4. CASE Fault /\ Finish(f) /\ UNCHANGED <<live, dead, nextId, meta, dropped, raced>>
  BY <1>1, <1>2, <1>4, OfflineKeeps DEF ticketVars
<1>5. CASE Refused(f) /\ (Refusal \/ NoFault)
  BY <1>1, <1>5, RefusedKeeps DEF Refusal, NoFault, envVars
<1> QED
  BY <1>1, <1>3, <1>4, <1>5 DEF Call

LEMMA WriteBackKeeps ==
    ASSUME OutboxInv, NEW f \in Flushers, WriteBack(f) PROVE OutboxInv'
<1> DEFINE t == cur[f].t
           step == IF t \in Silent THEN "sent" ELSE "scan"
<1>1. /\ lock = f /\ at[f] = "write" /\ Go(f, step)
      /\ meta' = [meta EXCEPT ![t] = IF phase[t] = "settled" THEN "pr_url" ELSE @]
      /\ raced' = IF phase[t] = "settled" THEN raced ELSE raced \cup {t}
      /\ UNCHANGED <<live, dead, nextId, lock, todo, cur, phase, runs, githubVars, callVars, envVars, dropped>>
  BY DEF WriteBack, Replaying
<1>2. t \in Tickets /\ cur[f].kind = "pr"
  BY <1>1, HeldOps DEF OutboxInv, FlushInv, FlushHoldsFiles, PrSteps
<1>3. UNCHANGED <<labels, posted, prs, trait>>
  BY <1>1 DEF githubVars, envVars
<1>4. step \in {"scan", "sent"} /\ (step = "sent" <=> t \in Silent)
  OBVIOUS
<1> HIDE DEF t, step
<1>5. DataInv'
  <2>6. Aside
    BY <1>1, CallAside DEF envVars
  <2>1. OpFiles' /\ GithubTyped' /\ NoDoublePost' /\ CallTyped'
    BY <1>1, <1>3, CallsAside DEF OutboxInv, DataInv, OpFiles, GithubTyped, NoDoublePost
  <2>2. TicketTyped' /\ raced \subseteq raced'
    BY <1>1, <1>2, <1>3 DEF OutboxInv, DataInv, TicketTyped
  <2>3. OpsAreSane' /\ RunIsUnreported'
    BY <1>1, <1>3 DEF OutboxInv, DataInv, OpsAreSane, Sane, RunIsUnreported, callVars
  <2>4. ParkedHasOp'
    <3>1. \A u : PrInHand(u) => PrInHand(u)'
      BY <1>1, <2>6 DEF PrInHand, Aside
    <3>2. \A u \in Tickets : meta'[u] = "pr_queued" => meta[u] = "pr_queued"
      BY <1>1, <1>2 DEF OutboxInv, DataInv, TicketTyped
    <3> QED
      BY <1>1, <2>2, <2>6, <3>1, <3>2 DEF OutboxInv, DataInv, ParkedHasOp, Aside
  <2>5. TailIsKept'
    BY <1>1, <1>3, <2>6 DEF OutboxInv, DataInv, TailIsKept, Silent, Aside
  <2> QED
    BY <2>1, <2>2, <2>3, <2>4, <2>5 DEF DataInv
<1>6. t \in raced' \/ (phase'[t] = "settled" /\ meta'[t] # "pr_queued")
  BY <1>1, <1>2 DEF OutboxInv, DataInv, TicketTyped
<1>7. Silent' = Silent
  BY <1>3 DEF Silent
<1> QED
  BY <1>1, <1>2, <1>4, <1>5, <1>6, <1>7, NextStepKeepsFlush DEF t

LEMMA MarkerGone ==
    ASSUME OutboxInv, NEW f \in Flushers, lock = f,
           at[f] \in {"scan", "post", "label", "sent"}, cur[f].kind = "pr"
    PROVE  cur[f].t \in raced \/ (phase[cur[f].t] = "settled" /\ meta[cur[f].t] # "pr_queued")
  BY DEF OutboxInv, FlushInv, MarkerIsGone

LEMMA ScanKeeps ==
    ASSUME OutboxInv, NEW f \in Flushers, Scan(f) PROVE OutboxInv'
<1> DEFINE seen == cur[f].run \in Range(posted[cur[f].t])
           step == IF seen THEN AfterComment(cur[f]) ELSE "post"
<1>1. /\ lock = f /\ at[f] = "scan" /\ UNCHANGED <<phase, runs, githubVars, callVars>>
      /\ Call(f, TRUE, TRUE, Go(f, step) /\ UNCHANGED <<live, todo, cur>>)
  BY DEF Scan, Replaying
<1>2. prs' \subseteq Tickets /\ UNCHANGED <<labels, posted, prs>>
  BY <1>1 DEF githubVars, OutboxInv, DataInv, GithubTyped
<1>3. CASE Go(f, step) /\ UNCHANGED <<live, todo, cur>> /\ NoFault
           /\ UNCHANGED <<dead, nextId, lock, meta, dropped, raced>>
  <2>1. cur[f].kind # "labels"
    BY <1>1 DEF OutboxInv, FlushInv, FlushHoldsFiles, CommentSteps
  <2>2. /\ step \in {"post", "label", "sent"}
        /\ step = "post" <=> ~seen
        /\ step = "label" => cur[f].kind = "pr"
        /\ step = "sent" => cur[f].kind # "pr"
    BY DEF AfterComment
  <2> HIDE DEF step
  <2>3. trait' = trait /\ Silent' = Silent /\ Aside
    BY <1>1, <1>3, CallAside DEF NoFault, envVars, Silent
  <2>4. DataInv'
    BY <1>1, <1>2, <1>3, <2>3, LabelsUntouched, QuietKeepsData DEF ticketVars, OutboxInv
  <2>5. cur[f].kind = "pr" =>
           cur[f].t \in raced' \/ (phase'[cur[f].t] = "settled" /\ meta'[cur[f].t] # "pr_queued")
    BY <1>1, <1>3, MarkerGone
  <2> QED
    BY <1>1, <1>2, <1>3, <2>1, <2>2, <2>3, <2>4, <2>5, NextStepKeepsFlush DEF CommentSteps
<1>4. CASE Fault /\ Finish(f) /\ UNCHANGED <<live, dead, nextId, meta, dropped, raced>>
  BY <1>1, <1>2, <1>4, OfflineKeeps DEF ticketVars
<1>5. CASE Refusal /\ Refused(f)
  BY <1>1, <1>5, RefusedKeeps DEF Refusal
<1> QED
  BY <1>1, <1>3, <1>4, <1>5 DEF Call

LEMMA PostCommentKeeps ==
    ASSUME OutboxInv, NEW f \in Flushers, PostComment(f) PROVE OutboxInv'
<1> DEFINE step == AfterComment(cur[f])
<1>1. /\ lock = f /\ at[f] = "post" /\ UNCHANGED <<phase, runs, labels, prs, callVars>>
      /\ Call(f, Post(cur[f].t, cur[f].run), UNCHANGED posted,
              Go(f, step) /\ UNCHANGED <<live, todo, cur>>)
  BY DEF PostComment, Replaying
<1>2. /\ cur[f] \in live /\ cur[f].kind # "labels" /\ cur[f].run \notin Range(posted[cur[f].t])
  BY <1>1, HeldOps DEF OutboxInv, FlushInv, FlushHoldsFiles, PostIsNew, CommentSteps
<1>3. CASE /\ Post(cur[f].t, cur[f].run)
           /\ Go(f, step) /\ UNCHANGED <<live, todo, cur>> /\ NoFault
           /\ UNCHANGED <<dead, nextId, lock, meta, dropped, raced>>
  <2>1. step \in {"label", "sent"} /\ (step = "label" <=> cur[f].kind = "pr")
    BY DEF AfterComment
  <2> HIDE DEF step
  <2>2. trait' = trait /\ Silent' = Silent /\ Aside
    BY <1>1, <1>3, CallAside DEF NoFault, envVars, Silent
  <2>3. DataInv' /\ cur[f].run \in Range(posted'[cur[f].t])
    BY <1>1, <1>2, <1>3, <2>2, PostKeepsData DEF OutboxInv, ticketVars
  <2>4. cur[f].kind = "pr" =>
           cur[f].t \in raced' \/ (phase'[cur[f].t] = "settled" /\ meta'[cur[f].t] # "pr_queued")
    BY <1>1, <1>3, MarkerGone
  <2> QED
    BY <1>1, <1>2, <1>3, <2>1, <2>2, <2>3, <2>4, NextStepKeepsFlush DEF CommentSteps
<1>4. CASE /\ Post(cur[f].t, cur[f].run) \/ UNCHANGED posted
           /\ Fault /\ Finish(f) /\ UNCHANGED <<live, dead, nextId, meta, dropped, raced>>
  <2>1. CASE UNCHANGED posted
    <3>1. prs' \subseteq Tickets
      BY <1>1 DEF OutboxInv, DataInv, GithubTyped
    <3> QED
      BY <1>1, <1>4, <2>1, <3>1, OfflineKeeps DEF ticketVars
  <2>2. CASE Post(cur[f].t, cur[f].run)
    <3>1. DataInv'
      <4>1. Aside /\ trait' = trait
        BY <1>1, <1>4, CallAside DEF Fault
      <4> QED
        BY <1>1, <1>2, <1>4, <2>2, <4>1, PostKeepsData DEF OutboxInv, ticketVars
    <3> QED
      BY <1>1, <1>4, <3>1, FinishAfter
  <2> QED
    BY <1>4, <2>1, <2>2
<1>5. CASE UNCHANGED posted /\ Refusal /\ Refused(f)
  BY <1>1, <1>5, RefusedKeeps DEF Refusal, githubVars
<1> QED
  BY <1>1, <1>3, <1>4, <1>5 DEF Call

LEMMA LabelKeeps ==
    ASSUME OutboxInv, NEW f \in Flushers, Label(f) PROVE OutboxInv'
<1> DEFINE c == cur[f]
<1>1. /\ lock = f /\ at[f] = "label" /\ UNCHANGED <<phase, runs, posted, prs, callVars>>
      /\ Call(f, Relabel(c.t, c.add, c.remove), UNCHANGED labels,
              Go(f, "sent") /\ UNCHANGED <<live, todo, cur>>)
  BY DEF Label, Replaying
<1>2. c \in Op /\ c.t \in Tickets /\ c.add \in Labels /\ c.remove \in Labels \ {"done"}
      /\ c.kind # "comment" /\ prs' \subseteq Tickets
  BY <1>1, HeldOps DEF OutboxInv, DataInv, GithubTyped, FlushInv, FlushHoldsFiles, Op
<1>3. CASE /\ Relabel(c.t, c.add, c.remove)
           /\ Go(f, "sent") /\ UNCHANGED <<live, todo, cur>> /\ NoFault
           /\ UNCHANGED <<dead, nextId, lock, meta, dropped, raced>>
  <2>1. trait' = trait /\ Silent' = Silent /\ Aside
    BY <1>1, <1>3, CallAside DEF NoFault, envVars, Silent
  <2>2. LabelsStay
    BY <1>2, <1>3, RelabelKeepsDone DEF OutboxInv, DataInv
  <2>3. DataInv'
    BY <1>1, <1>2, <1>3, <2>1, <2>2, QuietKeepsData DEF OutboxInv, ticketVars
  <2>4. c.kind = "pr" =>
           c.t \in raced' \/ (phase'[c.t] = "settled" /\ meta'[c.t] # "pr_queued")
    BY <1>1, <1>3, MarkerGone
  <2>5. c.kind = "pr" /\ c.t \notin Silent => c.run \in Range(posted[c.t])
    BY <1>1 DEF OutboxInv, FlushInv, TailIsDone
  <2>6. c.kind = "pr" => "done" \in labels'[c.t]
    <3>1. c.kind = "pr" => c.add = "done" /\ c.remove = "working"
      BY <1>1, HeldOps DEF OutboxInv, DataInv, OpsAreSane, Sane
    <3> QED
      BY <1>2, <1>3, <3>1 DEF Relabel, OutboxInv, DataInv, GithubTyped
  <2> QED
    BY <1>1, <1>2, <1>3, <2>1, <2>3, <2>4, <2>5, <2>6, NextStepKeepsFlush DEF CommentSteps
<1>4. CASE /\ Relabel(c.t, c.add, c.remove) \/ UNCHANGED labels
           /\ Fault /\ Finish(f) /\ UNCHANGED <<live, dead, nextId, meta, dropped, raced>>
  <2>1. LabelsStay
    BY <1>2, <1>4, RelabelKeepsDone, LabelsUntouched DEF OutboxInv, DataInv
  <2>2. DataInv'
    <3>1. Aside /\ trait' = trait
      BY <1>1, <1>4, CallAside DEF Fault
    <3> QED
      BY <1>1, <1>2, <1>4, <2>1, <3>1, QuietKeepsData DEF OutboxInv, ticketVars
  <2> QED
    BY <1>1, <1>4, <2>2, FinishAfter
<1>5. CASE UNCHANGED labels /\ Refusal /\ Refused(f)
  BY <1>1, <1>5, RefusedKeeps DEF Refusal, githubVars
<1> QED
  BY <1>1, <1>3, <1>4, <1>5 DEF Call

LEMMA SentKeeps ==
    ASSUME OutboxInv, NEW f \in Flushers, Sent(f) PROVE OutboxInv'
<1>1. /\ lock = f /\ at[f] = "sent" /\ live' = Without(cur[f]) /\ Advance(f, todo[f])
      /\ UNCHANGED <<dead, nextId, ticketVars, githubVars, callVars, envVars, dropped, raced>>
  BY DEF Sent, Replaying
<1>2. cur[f] \in live /\ todo[f] \subseteq Without(cur[f])
  BY <1>1, HeldOps
<1>3. cur[f].tail /\ cur[f].t \notin Silent =>
          cur[f].run \in Range(posted[cur[f].t]) /\ "done" \in labels[cur[f].t]
  BY <1>1, <1>2 DEF OutboxInv, DataInv, OpsAreSane, Sane, FlushInv, TailIsDone
<1>4. DataInv'
  <2>1. Aside /\ trait' = trait
    BY <1>1, CallAside DEF envVars
  <2> QED
    BY <1>1, <1>2, <1>3, <2>1, MarkerGone, RemoveKeepsData DEF OutboxInv
<1> QED
  BY <1>1, <1>2, <1>4, AdvanceAfter

----------------------------------------------------------------------------
(* Taking and leaving the lock, kills, and the theorem.                    *)

LEMMA NothingMoves ==
    ASSUME OutboxInv, BuriedOps \subseteq BuriedOps',
           UNCHANGED <<live, dead, nextId, ticketVars, githubVars, callVars, envVars, dropped, raced>>
    PROVE  DataInv'
<1>1. Aside /\ trait' = trait /\ LabelsStay
  BY LabelsUntouched DEF Aside, envVars, githubVars
<1> QED
  BY <1>1, QuietKeepsData DEF OutboxInv, DataInv, GithubTyped, githubVars

LEMMA PreListKeeps ==
    ASSUME OutboxInv, NEW f \in Flushers, PreList(f) PROVE OutboxInv'
<1>2. /\ at[f] = "idle" /\ todo' = [todo EXCEPT ![f] = live] /\ at' = [at EXCEPT ![f] = "listed"]
      /\ UNCHANGED <<live, dead, lock, cur, phase, meta, labels, posted, trait, raced>>
  BY DEF PreList, Go, ticketVars, githubVars, envVars
<1>3. FlushTyped' /\ lock # f
  BY <1>2 DEF OutboxInv, DataInv, OpFiles, FlushInv, FlushTyped
<1>4. \A g \in Flushers \ {f} : at'[g] = at[g] /\ todo'[g] = todo[g]
  BY <1>2 DEF OutboxInv, FlushInv, FlushTyped
<1>1. DataInv'
  <2>1. BuriedOps \subseteq BuriedOps'
    BY <1>2, <1>4 DEF BuriedOps
  <2> QED
    BY <2>1, NothingMoves DEF PreList
<1>5. FlushHoldsFiles' /\ PostIsNew' /\ MarkerIsGone' /\ TailIsDone'
  BY <1>2, <1>3, <1>4 DEF OutboxInv, FlushInv, FlushHoldsFiles, PostIsNew, MarkerIsGone,
     TailIsDone, Silent
<1> QED
  BY <1>1, <1>3, <1>5 DEF OutboxInv, FlushInv

LEMMA AcquireKeeps ==
    ASSUME OutboxInv, NEW f \in Flushers, Acquire(f) PROVE OutboxInv'
<1>1. live' = live /\ lock = None /\ at[f] = "listed" /\ Advance(f, live)
  BY DEF Acquire
<1>2. DataInv'
  BY <1>1, NothingBuried, NothingMoves DEF Acquire
<1> QED
  BY <1>1, <1>2, AdvanceAfter

\* A flusher that stops, with or without the lock.
LEMMA RestKeepsFlush ==
    ASSUME OutboxInv, NEW f \in Flushers, Rest(f),
           lock' = IF lock = f THEN None ELSE lock,
           UNCHANGED <<live, dead, meta, labels, posted, trait, raced>>,
           \A t \in Tickets : phase[t] = "settled" => phase'[t] = "settled"
    PROVE  FlushInv' /\ \A o \in BuriedOps : o \in BuriedOps' \/ (at[f] = "buried" /\ o = cur[f])
<1>1. /\ todo' = [todo EXCEPT ![f] = {}] /\ cur' = [cur EXCEPT ![f] = None]
      /\ at' = [at EXCEPT ![f] = "idle"]
  BY DEF Rest, Go
<1>2. FlushTyped' /\ lock' # f
  BY <1>1 DEF OutboxInv, FlushInv, FlushTyped
<1>3. \A g \in Flushers \ {f} : at'[g] = at[g] /\ todo'[g] = todo[g] /\ cur'[g] = cur[g]
  BY <1>1 DEF OutboxInv, FlushInv, FlushTyped
<1>4. \A g \in Flushers : lock' = g => lock = g /\ g # f
  BY <1>2
<1>5. FlushHoldsFiles' /\ PostIsNew' /\ TailIsDone'
  BY <1>3, <1>4 DEF OutboxInv, FlushInv, FlushHoldsFiles, PostIsNew, TailIsDone, Silent
<1>6. MarkerIsGone'
  <2>1. \A g \in Flushers : lock = g => cur[g].t \in Tickets
    BY DEF OutboxInv, FlushInv, FlushHoldsFiles, DataInv, OpFiles, Op
  <2> QED
    BY <1>3, <1>4, <2>1 DEF OutboxInv, FlushInv, MarkerIsGone
<1>7. \A o \in BuriedOps : o \in BuriedOps' \/ (at[f] = "buried" /\ o = cur[f])
  BY <1>3 DEF BuriedOps
<1> QED
  BY <1>2, <1>5, <1>6, <1>7 DEF FlushInv

LEMMA SkipBusyKeeps ==
    ASSUME OutboxInv, NEW f \in Flushers, SkipBusy(f) PROVE OutboxInv'
<1>1. lock # f /\ lock' = lock /\ Rest(f) /\ at[f] = "listed"
  BY DEF SkipBusy, OutboxInv, FlushInv, FlushTyped
<1>2. FlushInv' /\ BuriedOps \subseteq BuriedOps'
  BY <1>1, RestKeepsFlush DEF SkipBusy, OutboxInv, ticketVars, githubVars, envVars
<1>3. DataInv'
  BY <1>2, NothingMoves DEF SkipBusy
<1> QED
  BY <1>2, <1>3 DEF OutboxInv

\* A kill in the middle of a burial is recorded in severed.
LEMMA KillCuts ==
    ASSUME OutboxInv, NEW f \in Flushers, Kill(f),
           \A o \in BuriedOps : o \in BuriedOps' \/ (at[f] = "buried" /\ o = cur[f]),
           UNCHANGED <<live, dead, meta, labels, posted, trait, raced>>,
           \A t \in Tickets : phase'[t] = "parking" => phase[t] = "parking"
    PROVE  ParkedHasOp' /\ TailIsKept'
<1>1. /\ severed \cap Tickets \subseteq severed'
      /\ \A o \in BuriedOps : o \in BuriedOps' \/ o.kind # "pr"
                                \/ (o.t \in Tickets => o.t \in severed')
  BY DEF Kill, Burying
<1>2. \A d \in dead : d.t \in Tickets
  BY DEF OutboxInv, DataInv, OpFiles, Op
<1>3. ParkedHasOp'
  <2>1. \A u \in Tickets : PrInHand(u) => PrInHand(u)' \/ u \in severed'
    BY <1>1 DEF PrInHand
  <2> QED
    BY <1>1, <2>1 DEF OutboxInv, DataInv, ParkedHasOp
<1>4. TailIsKept'
  BY <1>1, <1>2 DEF OutboxInv, DataInv, TailIsKept, Silent
<1> QED
  BY <1>3, <1>4

LEMMA KillManualKeeps ==
    ASSUME OutboxInv, NEW f \in Flushers, KillManual(f) PROVE OutboxInv'
<1>1. /\ trait' = trait /\ Kill(f) /\ Unlock(f)
      /\ UNCHANGED <<live, dead, nextId, phase, runs, meta, labels, posted, prs, callVars,
                     dropped, raced>>
  BY DEF KillManual, Kill, ticketVars, githubVars
<1>2. /\ FlushInv'
      /\ \A o \in BuriedOps : o \in BuriedOps' \/ (at[f] = "buried" /\ o = cur[f])
  BY <1>1, RestKeepsFlush DEF Unlock
<1>3. ParkedHasOp' /\ TailIsKept'
  BY <1>1, <1>2, KillCuts
<1>4. OpFiles' /\ TicketTyped' /\ GithubTyped' /\ NoDoublePost' /\ CallTyped'
  BY <1>1, CallsAside DEF OutboxInv, DataInv, OpFiles, TicketTyped, GithubTyped, NoDoublePost
<1>5. OpsAreSane' /\ RunIsUnreported'
  BY <1>1 DEF OutboxInv, DataInv, OpsAreSane, Sane, RunIsUnreported, callVars
<1> QED
  BY <1>2, <1>3, <1>4, <1>5 DEF OutboxInv, DataInv

LEMMA KillDaemonKeeps ==
    ASSUME OutboxInv, KillDaemon PROVE OutboxInv'
<1> DEFINE cut == {t \in Tickets : phase[t] \in {"reporting", "labelling"}}
<1>1. /\ dropped' = dropped \cup cut
      /\ phase' = [t \in Tickets |->
                     IF phase[t] \in {"running", "parking"} THEN "queued"
                     ELSE IF t \in cut THEN "settled" ELSE phase[t]]
      /\ Kill(Sweep) /\ Unlock(Sweep) /\ trait' = trait
      /\ tries' = [t \in Tickets |-> 0] /\ landed' = {} /\ reposted' = reposted
      /\ UNCHANGED <<live, dead, nextId, runs, meta, githubVars, raced>>
  BY DEF KillDaemon, Kill
<1>2. UNCHANGED <<labels, posted, prs>> /\ Sweep \in Flushers
  BY <1>1 DEF githubVars, Flushers
<1>3. \A t \in Tickets : /\ phase'[t] \in {"queued", "settled"}
                         /\ phase[t] = "settled" => phase'[t] = "settled"
  BY <1>1 DEF OutboxInv, DataInv, TicketTyped, Phases
<1>4. /\ FlushInv'
      /\ \A o \in BuriedOps :
            o \in BuriedOps' \/ (at[Sweep] = "buried" /\ o = cur[Sweep])
  BY <1>1, <1>2, <1>3, RestKeepsFlush DEF Unlock
<1>5. DataInv'
  <2>1. TicketTyped' /\ CallTyped'
    BY <1>1 DEF OutboxInv, DataInv, TicketTyped, CallTyped, Phases
  <2>2. OpFiles' /\ GithubTyped' /\ NoDoublePost'
    BY <1>1, <1>2 DEF OutboxInv, DataInv, OpFiles, GithubTyped, NoDoublePost
  <2>3. OpsAreSane'
    BY <1>1, <1>2 DEF OutboxInv, DataInv, OpsAreSane, Sane
  <2>4. RunIsUnreported'
    BY <1>3 DEF RunIsUnreported
  <2>5. ParkedHasOp' /\ TailIsKept'
    BY <1>1, <1>2, <1>3, <1>4, KillCuts
  <2> QED
    BY <2>1, <2>2, <2>3, <2>4, <2>5 DEF DataInv
<1> QED
  BY <1>4, <1>5 DEF OutboxInv

LEMMA FlushKeeps ==
    ASSUME OutboxInv, NEW f \in Flushers, Flush(f) PROVE OutboxInv'
  BY PreListKeeps, AcquireKeeps, SkipBusyKeeps, PushKeeps, CreateKeeps, ViewKeeps,
     WriteBackKeeps, ScanKeeps, PostCommentKeeps, LabelKeeps, SentKeeps, DeadLetterKeeps DEF Flush

LEMMA OutboxInit == Init => OutboxInv
<1> SUFFICES ASSUME Init PROVE OutboxInv
  OBVIOUS
<1>1. OpFiles /\ TicketTyped /\ CallTyped
  BY DEF Init, OpFiles, TicketTyped, CallTyped, Phases
<1>2. GithubTyped /\ NoDoublePost
  BY DEF Init, GithubTyped, NoDoublePost, IsInjective, Labels
<1>3. OpsAreSane /\ RunIsUnreported
  BY DEF Init, OpsAreSane, RunIsUnreported, Range
<1>4. ParkedHasOp /\ TailIsKept
  BY DEF Init, ParkedHasOp, TailIsKept
<1>5. FlushInv
  BY DEF Init, FlushInv, FlushTyped, FlushHoldsFiles, PostIsNew, MarkerIsGone, TailIsDone
<1> QED
  BY <1>1, <1>2, <1>3, <1>4, <1>5 DEF OutboxInv, DataInv

LEMMA OutboxStep == OutboxInv /\ [Next]_vars => OutboxInv'
<1> SUFFICES ASSUME OutboxInv, [Next]_vars PROVE OutboxInv'
  OBVIOUS
<1>1. CASE \E t \in Tickets : Reporter(t)
  BY <1>1, ReporterSteps, ReporterKeepsData, ReporterKeepsFlush DEF OutboxInv
<1>2. CASE \E f \in Flushers : Flush(f)
  BY <1>2, FlushKeeps
<1>3. CASE \E f \in Flushers : KillManual(f)
  BY <1>3, KillManualKeeps
<1>4. CASE KillDaemon
  BY <1>4, KillDaemonKeeps
<1>5. CASE UNCHANGED vars
  <2>1. DataInv'
    BY <1>5, NothingMoves DEF vars, localVars, BuriedOps
  <2>2. FlushInv'
    BY <1>5 DEF vars, localVars, ticketVars, githubVars, envVars, OutboxInv, FlushInv,
       FlushTyped, FlushHoldsFiles, PostIsNew, MarkerIsGone, TailIsDone, Silent
  <2> QED
    BY <2>1, <2>2 DEF OutboxInv
<1> QED
  BY <1>1, <1>2, <1>3, <1>4, <1>5 DEF Next

LEMMA OutboxInvariant == Spec => []OutboxInv
  BY OutboxInit, OutboxStep, PTL DEF Spec

(* An op takes effect once and leaves nothing half-done, whatever network  *)
(* failures, refusals, kills and flushers meet: no final comment is posted *)
(* twice (postCommentIdempotent) but by the tries of one live call, which  *)
(* do not look (reposted); no done file says pr_queued without an op that  *)
(* will open its PR (clearStrandedPrQueuedMarker), and no opened PR loses  *)
(* its comment and label (preserveFinalizeTail), but by a kill between the *)
(* rename to dead/ and what follows it (severed).                          *)
THEOREM OpsDeliveredOnce == Spec => []DeliveredOnce
  BY OutboxInvariant, DeliveredFollows, PTL

----------------------------------------------------------------------------
(* The labels of an issue: where replaying the queue would leave them.     *)

\* The queued ops of t that touch label x.
Touching(t, x) == {o \in live : o.t = t /\ o.kind # "comment" /\ x \in {o.add, o.remove}}

\* Once every queued op is replayed in order, t's issue has label x, or has not.
EndsWith(t, x) ==
    \/ x \in labels[t] /\ Touching(t, x) = {}
    \/ \E o \in Touching(t, x) : o.add = x /\ \A p \in Touching(t, x) : p.id <= o.id
EndsWithout(t, x) ==
    \/ x \notin labels[t] /\ Touching(t, x) = {}
    \/ \E o \in Touching(t, x) : o.add # x /\ \A p \in Touching(t, x) : p.id <= o.id

\* The tickets LabelsConverge speaks of.
Followed == Tickets \ (Silent \cup dropped \cup raced)

\* The queue of a followed ticket leads to the labels its phase asks for.
QueueLeadsHome ==
    \A t \in Followed :
        /\ phase[t] # "queued" => EndsWithout(t, "queued")
        /\ phase[t] \in {"parking", "settled"} =>
              EndsWith(t, "done") /\ EndsWithout(t, "working")

OpsTurnOver == \A o \in live : o.add # o.remove

\* A flush takes the ops of a followed ticket in order.
TakenInOrder ==
    \A f \in Flushers : lock = f =>
        /\ cur[f].t \in Followed => \A o \in live : o.t = cur[f].t => cur[f].id <= o.id
        /\ \A p \in todo[f] : p.t \in Followed =>
              \A o \in live : o.t = p.t /\ o.id < p.id => o \in todo[f] \cup {cur[f]}

\* It is done with one only once its labels are set, or are a later op's to
\* set: a live call whose acknowledgement is lost has had its effect and is
\* queued behind it.
SentIsSet ==
    \A f \in Flushers :
        lock = f /\ at[f] = "sent" /\ cur[f].t \in Followed /\ cur[f].kind # "comment" =>
            \A x \in {cur[f].add, cur[f].remove} :
                \/ x \in labels[cur[f].t] <=> x = cur[f].add
                \/ \E p \in Touching(cur[f].t, x) : cur[f].id < p.id

LabelInv == QueueLeadsHome /\ OpsTurnOver /\ TakenInOrder /\ SentIsSet

LEMMA ConvergeFollows == OutboxInv /\ LabelInv => LabelsConverge
<1> SUFFICES ASSUME OutboxInv, LabelInv, NEW t \in Followed, Quiet(t)
             PROVE  labels[t] = {"done"}
  BY DEF LabelsConverge, Followed
<1>1. \A x : Touching(t, x) = {}
  BY DEF Quiet, QueuedFor, Touching
<1>2. EndsWithout(t, "queued") /\ EndsWith(t, "done") /\ EndsWithout(t, "working")
  BY DEF LabelInv, QueueLeadsHome, Quiet
<1>3. "queued" \notin labels[t] /\ "working" \notin labels[t] /\ "done" \in labels[t]
  BY <1>1, <1>2 DEF EndsWith, EndsWithout
<1>4. labels[t] \subseteq Labels
  BY DEF OutboxInv, DataInv, GithubTyped, Followed
<1> QED
  BY <1>3, <1>4 DEF Labels

\* A step that leaves where the queue of t leads.
EndsKept(t) ==
    \A x \in Labels : /\ EndsWith(t, x) => EndsWith(t, x)'
                      /\ EndsWithout(t, x) => EndsWithout(t, x)'

LEMMA HomeKept ==
    ASSUME QueueLeadsHome, Followed' \subseteq Followed,
           \A t \in Followed' : EndsKept(t) /\ (phase'[t] = phase[t] \/ phase'[t] = "queued")
    PROVE  QueueLeadsHome'
  BY DEF QueueLeadsHome, EndsKept, Labels

\* Neither the issue of t nor its queue changes.
LEMMA UntouchedKept ==
    ASSUME NEW t, labels'[t] = labels[t],
           \A o : o \in live /\ o.t = t /\ o.kind # "comment"
                <=> o \in live' /\ o.t = t /\ o.kind # "comment"
    PROVE  EndsKept(t) /\ \A x : Touching(t, x)' = Touching(t, x)
<1>1. \A x : Touching(t, x)' = Touching(t, x)
  BY DEF Touching
<1> QED
  BY <1>1 DEF EndsKept, EndsWith, EndsWithout

\* A rewritten op touches what it touched.
LEMMA RewriteKept ==
    ASSUME OpFiles, NEW t, labels'[t] = labels[t], NEW c \in live, NEW op \in Op,
           SameReport(op, c), live' = Without(op) \cup {op}
    PROVE  EndsKept(t)
<1>1. /\ \A o \in live' : o = op \/ (o \in live /\ o # c)
      /\ \A o \in live : o = c \/ o \in live'
      /\ op \in live'
  BY DEF Without, SameReport, OpFiles
<1>2. SUFFICES ASSUME NEW x \in Labels
               PROVE  /\ EndsWith(t, x) => EndsWith(t, x)'
                      /\ EndsWithout(t, x) => EndsWithout(t, x)'
  BY DEF EndsKept
<1>3. /\ \A o \in Touching(t, x) : o # c => o \in Touching(t, x)'
      /\ c \in Touching(t, x) <=> op \in Touching(t, x)'
      /\ \A o \in Touching(t, x)' : o # op => o \in Touching(t, x)
  BY <1>1 DEF Touching, SameReport
<1> QED
  BY <1>3 DEF EndsWith, EndsWithout, SameReport

\* The labels an op sets while it is still queued are that op's to set.
LEMMA RelabelKept ==
    ASSUME GithubTyped, NEW t \in Tickets, NEW c \in live, c.t \in Tickets, c.kind # "comment",
           Relabel(c.t, c.add, c.remove), live' = live
    PROVE  EndsKept(t)
<1>1. \A x : Touching(t, x)' = Touching(t, x)
  BY DEF Touching
<1>2. CASE t # c.t
  <2>1. labels'[t] = labels[t]
    BY <1>2 DEF Relabel, GithubTyped
  <2> QED
    BY <2>1, UntouchedKept
<1>3. CASE t = c.t
  <2>1. \A x : c \in Touching(t, x) \/ (x # c.add /\ x # c.remove)
    BY <1>3 DEF Touching
  <2>2. \A x : x # c.add /\ x # c.remove => (x \in labels'[t] <=> x \in labels[t])
    BY <1>3 DEF Relabel, GithubTyped
  <2> QED
    BY <1>1, <2>1, <2>2 DEF EndsKept, EndsWith, EndsWithout
<1> QED
  BY <1>2, <1>3

\* A sent op, the first of its ticket, goes once its labels are set.
LEMMA RemoveKept ==
    ASSUME OpFiles, OpsTurnOver, NEW t, labels' = labels, NEW c \in live, live' = Without(c),
           c.t = t => \A o \in live : o.t = t => c.id <= o.id,
           c.t = t /\ c.kind # "comment" =>
               \A x \in {c.add, c.remove} :
                   \/ x \in labels[t] <=> x = c.add
                   \/ \E p \in Touching(t, x) : c.id < p.id
    PROVE  EndsKept(t)
<1>1. /\ \A o \in live' : o \in live /\ o # c
      /\ \A o \in live : o = c \/ o \in live'
  BY DEF Without, OpFiles
<1>2. CASE c.t # t \/ c.kind = "comment"
  BY <1>1, <1>2, UntouchedKept
<1>3. CASE c.t = t /\ c.kind # "comment"
  <2>1. SUFFICES ASSUME NEW x \in Labels
                 PROVE  /\ EndsWith(t, x) => EndsWith(t, x)'
                        /\ EndsWithout(t, x) => EndsWithout(t, x)'
    BY DEF EndsKept
  <2>2. Touching(t, x)' = Touching(t, x) \ {c}
    BY <1>1 DEF Touching
  <2>3. \A o \in Touching(t, x) : o.id \in Nat /\ c.id \in Nat /\ c.id <= o.id
                                 /\ (o = c \/ c.id < o.id)
    BY <1>3 DEF Touching, OpFiles, Op
  <2>4. CASE x \notin {c.add, c.remove}
    <3>1. Touching(t, x)' = Touching(t, x)
      BY <2>2, <2>4 DEF Touching
    <3> QED
      BY <3>1 DEF EndsWith, EndsWithout
  <2>5. CASE \E p \in Touching(t, x) : c.id < p.id
    <3>1. PICK p \in Touching(t, x) : c.id < p.id
      BY <2>5
    <3>2. \A o \in Touching(t, x) : p.id <= o.id => o # c
      BY <2>3, <3>1
    <3> QED
      BY <2>2, <3>1, <3>2 DEF EndsWith, EndsWithout
  <2>6. CASE /\ x \in {c.add, c.remove} /\ (x \in labels[t] <=> x = c.add)
             /\ ~ \E p \in Touching(t, x) : c.id < p.id
    <3>1. Touching(t, x) = {c} /\ Touching(t, x)' = {}
      <4>1. c \in Touching(t, x)
        BY <1>3, <2>6 DEF Touching
      <4> QED
        BY <2>2, <2>3, <2>6, <4>1
    <3> QED
      BY <2>6, <3>1 DEF EndsWith, EndsWithout
  <2> QED
    BY <1>3, <2>4, <2>5, <2>6
<1> QED
  BY <1>2, <1>3

----------------------------------------------------------------------------
(* The reporter's calls and where they lead.                               *)

\* The label change add/remove of t was made with nothing queued, or is queued
\* last, made or not.
Turned(t, add, remove) ==
    \/ UNCHANGED live /\ ~QueuedFor(t) /\ Relabel(t, add, remove)
    \/ \E op \in Op : /\ op.id = nextId /\ op.t = t /\ op.kind # "comment"
                      /\ op.add = add /\ op.remove = remove /\ live' = live \cup {op}
                      /\ Relabel(t, add, remove) \/ UNCHANGED labels

LEMMA TurnedLeads ==
    ASSUME OpFiles, GithubTyped, NEW t \in Tickets, NEW add, NEW remove, add # remove,
           Turned(t, add, remove)
    PROVE  /\ EndsWith(t, add)' /\ EndsWithout(t, remove)'
           /\ \A x \in Labels \ {add, remove} :
                 /\ EndsWith(t, x) => EndsWith(t, x)'
                 /\ EndsWithout(t, x) => EndsWithout(t, x)'
           /\ QueuedFor(t) => \A x : \/ x \in labels'[t] <=> x \in labels[t]
                                    \/ \E p \in Touching(t, x)' : p.id = nextId
           /\ \A u \in Tickets \ {t} : EndsKept(u)
<1>1. /\ \A x : x # add /\ x # remove => (x \in labels'[t] <=> x \in labels[t])
      /\ \A u \in Tickets \ {t} : labels'[u] = labels[u]
      /\ Relabel(t, add, remove) => add \in labels'[t] /\ remove \notin labels'[t]
  BY DEF Turned, Relabel, GithubTyped
<1>2. CASE UNCHANGED live /\ ~QueuedFor(t) /\ Relabel(t, add, remove)
  <2>1. \A x : Touching(t, x)' = {} /\ Touching(t, x) = {}
    BY <1>2 DEF Touching, QueuedFor
  <2>2. \A u \in Tickets \ {t} : EndsKept(u)
    BY <1>1, <1>2, UntouchedKept
  <2> QED
    BY <1>1, <1>2, <2>1, <2>2 DEF EndsWith, EndsWithout
<1>3. CASE \E op \in Op : /\ op.id = nextId /\ op.t = t /\ op.kind # "comment"
                          /\ op.add = add /\ op.remove = remove /\ live' = live \cup {op}
                          /\ Relabel(t, add, remove) \/ UNCHANGED labels
  <2>1. PICK op \in Op : /\ op.id = nextId /\ op.t = t /\ op.kind # "comment"
                         /\ op.add = add /\ op.remove = remove /\ live' = live \cup {op}
                         /\ Relabel(t, add, remove) \/ UNCHANGED labels
    BY <1>3
  <2>2. \A x : Touching(t, x)' = Touching(t, x) \cup (IF x \in {add, remove} THEN {op} ELSE {})
    BY <2>1 DEF Touching
  <2>3. \A o \in live : o.id \in Nat /\ o.id < nextId /\ nextId \in Nat
    BY DEF OpFiles, Op
  <2>4. \A x \in {add, remove} : op \in Touching(t, x)' /\ \A p \in Touching(t, x)' : p.id <= op.id
    <3>1. \A o \in live : o.id <= op.id
      BY <2>1, <2>3
    <3>2. op.id <= op.id
      BY <2>1 DEF Op
    <3> QED
      BY <2>2, <3>1, <3>2 DEF Touching
  <2>5. EndsWith(t, add)' /\ EndsWithout(t, remove)'
    BY <2>1, <2>4 DEF EndsWith, EndsWithout
  <2>6. \A x \in Labels \ {add, remove} :
            /\ EndsWith(t, x) => EndsWith(t, x)'
            /\ EndsWithout(t, x) => EndsWithout(t, x)'
    <3>1. SUFFICES ASSUME NEW x \in Labels \ {add, remove}
                   PROVE  /\ EndsWith(t, x) => EndsWith(t, x)'
                          /\ EndsWithout(t, x) => EndsWithout(t, x)'
      OBVIOUS
    <3>2. Touching(t, x)' = Touching(t, x)
      BY <2>2
    <3>3. x \in labels'[t] <=> x \in labels[t]
      BY <1>1
    <3> QED
      BY <3>2, <3>3 DEF EndsWith, EndsWithout
  <2>7. \A u \in Tickets \ {t} : EndsKept(u)
    BY <1>1, <2>1, UntouchedKept
  <2>8. \A x : \/ x \in labels'[t] <=> x \in labels[t]
               \/ \E p \in Touching(t, x)' : p.id = nextId
    BY <1>1, <2>1, <2>4
  <2> QED
    BY <2>5, <2>6, <2>7, <2>8
<1> QED
  BY <1>2, <1>3 DEF Turned

\* What a step of t's executor does to the labels and to the queue.
LabelStep(t) ==
    /\ Followed' \subseteq Followed /\ OpsTurnOver'
    /\ \A u \in Tickets \ {t} : EndsKept(u)
    /\ t \in Followed' =>
          /\ phase'[t] # "queued" => EndsWithout(t, "queued")'
          /\ phase'[t] \in {"parking", "settled"} =>
                EndsWith(t, "done")' /\ EndsWithout(t, "working")'
    /\ live \subseteq live' /\ \A o \in live' \ live : o.t = t /\ o.id = nextId
    /\ \A u \in Tickets \ {t} : labels'[u] = labels[u]
    /\ t \in Followed' /\ QueuedFor(t) =>
          \A x : \/ x \in labels'[t] <=> x \in labels[t]
                \/ \E p \in Touching(t, x)' : p.id = nextId

LEMMA FollowedShrinks ==
    ASSUME NEW t, ReporterStep(t), dropped \subseteq dropped'
    PROVE  Followed' \subseteq Followed
  BY DEF ReporterStep, Reports, Followed, Silent

\* A label call: made, queued, or given up.
LEMMA ReportLabelsTurns ==
    ASSUME OutboxInv, OpsTurnOver, NEW t \in Tickets, NEW add \in Labels,
           NEW remove \in Labels \ {"done"}, add # remove, ReportLabels(t, add, remove)
    PROVE  /\ t \in Followed' => Turned(t, add, remove)
           /\ dropped \subseteq dropped' /\ OpsTurnOver' /\ live \subseteq live'
           /\ \A o \in live' \ live : o.t = t /\ o.id = nextId
           /\ \A u \in Tickets \ {t} : labels'[u] = labels[u] /\ EndsKept(u)
<1> DEFINE op == NewOp("labels", t, add, remove)
<1>1. op \in Op /\ op.id = nextId /\ op.t = t /\ op.kind = "labels"
      /\ op.add = add /\ op.remove = remove
  BY NewOpTyped DEF OutboxInv, DataInv, Kinds, NewOp
<1>2. TryOrEnqueue(op, Relabel(t, add, remove), UNCHANGED labels)
  BY DEF ReportLabels
<1> HIDE DEF op
<1>3. t \in Followed' => Turned(t, add, remove)
  BY <1>1, <1>2 DEF TryOrEnqueue, Enqueue, Turned, Followed
<1>4. /\ live' = live \/ live' = live \cup {op}
      /\ dropped \subseteq dropped' /\ (Relabel(t, add, remove) \/ UNCHANGED labels)
  BY <1>2 DEF TryOrEnqueue, Enqueue
<1>5. \A u \in Tickets \ {t} : labels'[u] = labels[u]
  BY <1>4 DEF Relabel, OutboxInv, DataInv, GithubTyped
<1>6. \A u \in Tickets \ {t} : EndsKept(u)
  BY <1>1, <1>4, <1>5, UntouchedKept
<1> QED
  BY <1>1, <1>3, <1>4, <1>5, <1>6 DEF OpsTurnOver

LEMMA NothingTurns ==
    ASSUME LabelInv, NEW t \in Tickets, ReporterStep(t),
           UNCHANGED <<live, labels, dropped, raced>>,
           phase[t] # "queued" \/ phase'[t] = "queued" \/ t \in Silent,
           phase'[t] \in {"parking", "settled"} =>
               phase[t] \in {"parking", "settled"} \/ t \in Silent
    PROVE  LabelStep(t)
<1>1. /\ UNCHANGED <<live, labels, trait>> /\ Followed' = Followed /\ Silent' = Silent
  BY DEF ReporterStep, Reports, Followed, Silent
<1>2. \A u : EndsKept(u)
  BY <1>1, UntouchedKept
<1> QED
  BY <1>1, <1>2 DEF LabelInv, LabelStep, OpsTurnOver, EndsKept, QueueLeadsHome, Followed, Labels

LEMMA OnStartTurns ==
    ASSUME OutboxInv, LabelInv, NEW t \in Tickets, OnStart(t) PROVE LabelStep(t)
<1>1. ReporterStep(t) /\ phase'[t] = "running"
  BY OnStartSteps DEF OutboxInv, OnStart, GoTo, DataInv, TicketTyped
<1>2. CASE t \in Silent
  BY <1>1, <1>2, NothingTurns DEF OnStart, localVars, githubVars
<1>3. CASE t \notin Silent
  <2>1. ReportLabels(t, "working", "queued")
    BY <1>3 DEF OnStart
  <2>2. t \in Followed' => Turned(t, "working", "queued")
    BY <2>1, ReportLabelsTurns DEF Labels, LabelInv
  <2>3. /\ dropped \subseteq dropped' /\ OpsTurnOver' /\ live \subseteq live'
        /\ \A o \in live' \ live : o.t = t /\ o.id = nextId
        /\ \A u \in Tickets \ {t} : labels'[u] = labels[u] /\ EndsKept(u)
    BY <2>1, ReportLabelsTurns DEF Labels, LabelInv
  <2> QED
    BY <1>1, <2>2, <2>3, FollowedShrinks, TurnedLeads DEF LabelStep, OutboxInv, DataInv
<1> QED
  BY <1>2, <1>3

LEMMA OnRequeueTurns ==
    ASSUME OutboxInv, LabelInv, NEW t \in Tickets, OnRequeue(t) PROVE LabelStep(t)
<1>1. ReporterStep(t) /\ phase'[t] = "queued"
  BY OnRequeueSteps DEF OutboxInv, OnRequeue, GoTo, DataInv, TicketTyped
<1>2. CASE t \in Silent
  BY <1>1, <1>2, NothingTurns DEF OnRequeue, localVars, githubVars
<1>3. CASE t \notin Silent
  <2>1. ReportLabels(t, "queued", "working")
    BY <1>3 DEF OnRequeue
  <2>2. t \in Followed' => Turned(t, "queued", "working")
    BY <2>1, ReportLabelsTurns DEF Labels, LabelInv
  <2>3. /\ dropped \subseteq dropped' /\ OpsTurnOver' /\ live \subseteq live'
        /\ \A o \in live' \ live : o.t = t /\ o.id = nextId
        /\ \A u \in Tickets \ {t} : labels'[u] = labels[u] /\ EndsKept(u)
    BY <2>1, ReportLabelsTurns DEF Labels, LabelInv
  <2> QED
    BY <1>1, <2>2, <2>3, FollowedShrinks, TurnedLeads DEF LabelStep, OutboxInv, DataInv
<1> QED
  BY <1>2, <1>3

LEMMA FinalizeTurns ==
    ASSUME OutboxInv, LabelInv, NEW t \in Tickets, Finalize(t) PROVE LabelStep(t)
<1>1. ReporterStep(t) /\ phase[t] = "running"
      /\ phase'[t] = IF t \in Silent THEN "settled" ELSE "reporting"
  BY FinalizeSteps DEF OutboxInv, Finalize, GoTo, DataInv, TicketTyped
<1> QED
  BY <1>1, NothingTurns DEF Finalize, localVars, githubVars

LEMMA TryCommentAgainTurns ==
    ASSUME OutboxInv, LabelInv, NEW t \in Tickets, TryCommentAgain(t) PROVE LabelStep(t)
<1>1. /\ ReporterStep(t) /\ phase' = phase /\ phase[t] = "reporting"
      /\ UNCHANGED <<live, labels, dropped, raced>>
  BY TryCommentAgainSteps DEF OutboxInv, TryCommentAgain, localVars, ticketVars
<1> QED
  BY <1>1, NothingTurns

LEMMA FinalizeQueuedTurns ==
    ASSUME OutboxInv, LabelInv, NEW t \in Tickets, FinalizeQueued(t) PROVE LabelStep(t)
<1>1. ReporterStep(t) /\ phase[t] = "parking" /\ phase'[t] = "settled"
  BY FinalizeQueuedSteps DEF OutboxInv, FinalizeQueued, GoTo, DataInv, TicketTyped
<1> QED
  BY <1>1, NothingTurns DEF FinalizeQueued, localVars, githubVars

LEMMA FinalCommentTurns ==
    ASSUME OutboxInv, LabelInv, NEW t \in Tickets, FinalComment(t) PROVE LabelStep(t)
<1> DEFINE op == NewOp("comment", t, "done", "working")
<1>1. ReporterStep(t) /\ phase[t] = "reporting" /\ phase'[t] = "labelling"
  BY FinalCommentSteps DEF OutboxInv, FinalComment, GoTo, DataInv, TicketTyped
<1>2. op.id = nextId /\ op.t = t /\ op.kind = "comment" /\ op.add # op.remove
  BY DEF NewOp
<1>3. TryOrEnqueue(op, PostLive(t), UNCHANGED <<posted, reposted>>) /\ UNCHANGED labels
  BY DEF FinalComment
<1> HIDE DEF op
<1>4. (live' = live \/ live' = live \cup {op}) /\ dropped \subseteq dropped'
  BY <1>3 DEF TryOrEnqueue, Enqueue
<1>5. Followed' \subseteq Followed
  BY <1>1, <1>4, FollowedShrinks
<1>6. \A u : EndsKept(u)
  BY <1>2, <1>3, <1>4, UntouchedKept
<1>7. t \in Followed' => EndsWithout(t, "queued")'
  BY <1>1, <1>5, <1>6 DEF LabelInv, QueueLeadsHome, EndsKept, Labels
<1> QED
  BY <1>1, <1>2, <1>3, <1>4, <1>5, <1>6, <1>7 DEF LabelStep, LabelInv, OpsTurnOver

LEMMA FinalLabelsTurns ==
    ASSUME OutboxInv, LabelInv, NEW t \in Tickets, FinalLabels(t) PROVE LabelStep(t)
<1>1. ReporterStep(t) /\ phase[t] = "labelling" /\ phase'[t] = "settled"
  BY FinalLabelsSteps DEF OutboxInv, FinalLabels, GoTo, DataInv, TicketTyped
<1>2. ReportLabels(t, "done", "working")
  BY DEF FinalLabels
<1>3. t \in Followed' => Turned(t, "done", "working")
  BY <1>2, ReportLabelsTurns DEF Labels, LabelInv
<1>4. /\ dropped \subseteq dropped' /\ OpsTurnOver' /\ live \subseteq live'
      /\ \A o \in live' \ live : o.t = t /\ o.id = nextId
      /\ \A u \in Tickets \ {t} : labels'[u] = labels[u] /\ EndsKept(u)
  BY <1>2, ReportLabelsTurns DEF Labels, LabelInv
<1>5. Followed' \subseteq Followed
  BY <1>1, <1>4, FollowedShrinks
<1>6. t \in Followed' => EndsWithout(t, "queued")
  BY <1>1, <1>5 DEF LabelInv, QueueLeadsHome
<1> QED
  BY <1>1, <1>3, <1>4, <1>5, <1>6, TurnedLeads DEF LabelStep, OutboxInv, DataInv, Labels

LEMMA QueueOfflinePrTurns ==
    ASSUME OutboxInv, LabelInv, NEW t \in Tickets, NEW pushed \in BOOLEAN,
           QueueOfflinePr(t, pushed)
    PROVE  LabelStep(t)
<1> DEFINE new == NewOp("pr", t, "done", "working")
           op == [new EXCEPT !.pushed = pushed]
<1>1. ReporterStep(t) /\ phase[t] = "running" /\ phase'[t] = "parking"
  BY QueueOfflinePrSteps DEF OutboxInv, QueueOfflinePr, GoTo, DataInv, TicketTyped
<1>2. new \in Op /\ new.id = nextId /\ new.t = t /\ new.kind = "pr"
      /\ new.add = "done" /\ new.remove = "working"
  BY NewOpTyped DEF OutboxInv, DataInv, Kinds, Labels, NewOp
<1> HIDE DEF new
<1>3. op \in Op /\ op.id = nextId /\ op.t = t /\ op.kind = "pr"
      /\ op.add = "done" /\ op.remove = "working"
  BY <1>2 DEF Op
<1>4. live' = live \cup {op} /\ UNCHANGED <<labels, dropped>>
  BY DEF QueueOfflinePr, Enqueue, new, githubVars
<1> HIDE DEF op
<1>5. Turned(t, "done", "working")
  BY <1>3, <1>4 DEF Turned
<1>6. Followed' \subseteq Followed
  BY <1>1, <1>4, FollowedShrinks
<1>7. t \in Followed' => EndsWithout(t, "queued")
  BY <1>1, <1>6 DEF LabelInv, QueueLeadsHome
<1>8. OpsTurnOver'
  BY <1>3, <1>4 DEF LabelInv, OpsTurnOver
<1> QED
  BY <1>1, <1>3, <1>4, <1>5, <1>6, <1>7, <1>8, TurnedLeads DEF LabelStep, OutboxInv, DataInv, Labels

LEMMA ReporterTurns ==
    ASSUME OutboxInv, LabelInv, NEW t \in Tickets, Reporter(t) PROVE LabelStep(t)
  BY OnStartTurns, OnRequeueTurns, FinalizeTurns, TryCommentAgainTurns, FinalCommentTurns,
     FinalLabelsTurns, FinalizeQueuedTurns, QueueOfflinePrTurns DEF Reporter

LEMMA ReporterKeepsLabels ==
    ASSUME OutboxInv, LabelInv, NEW t \in Tickets, ReporterStep(t), LabelStep(t)
    PROVE  LabelInv'
<1>1. UNCHANGED <<lock, todo, cur, at>> /\ Followed' \subseteq Followed /\ live \subseteq live'
      /\ \A o \in live' \ live : o.t = t /\ o.id = nextId
  BY DEF ReporterStep, Reports, LabelStep
<1>2. \A o \in live : o.id \in Nat /\ o.id < nextId /\ nextId \in Nat
  BY DEF OutboxInv, DataInv, OpFiles, Op
<1>3. QueueLeadsHome'
  BY <1>1 DEF LabelInv, QueueLeadsHome, LabelStep, ReporterStep, EndsKept, Labels, Followed
<1>4. \A f \in Flushers : lock = f =>
          /\ cur[f] \in live \cup dead /\ (at[f] # "buried" => cur[f] \in live)
          /\ todo[f] \subseteq live /\ cur[f].t \in Tickets /\ cur[f].id < nextId
  BY DEF OutboxInv, DataInv, OpFiles, Op, FlushInv, FlushHoldsFiles
<1>7. nextId \in Nat /\ \A f \in Flushers : lock = f => cur[f].id \in Nat
  BY <1>4 DEF OutboxInv, DataInv, OpFiles, Op
<1>5. TakenInOrder'
  <2>1. SUFFICES ASSUME NEW f \in Flushers, lock = f
                 PROVE  /\ cur[f].t \in Followed' =>
                              \A o \in live' : o.t = cur[f].t => cur[f].id <= o.id
                        /\ \A p \in todo[f] : p.t \in Followed' =>
                              \A o \in live' : o.t = p.t /\ o.id < p.id => o \in todo[f] \cup {cur[f]}
    BY <1>1 DEF TakenInOrder
  <2>2. \A o \in live' \ live : cur[f].id <= o.id
    BY <1>1, <1>2, <1>4, <1>7, <2>1
  <2>3. \A o \in live' \ live, p \in todo[f] : ~ (o.id < p.id)
    BY <1>1, <1>2, <1>4, <2>1
  <2> QED
    BY <1>1, <2>1, <2>2, <2>3 DEF LabelInv, TakenInOrder
<1>6. SentIsSet'
  <2>1. SUFFICES ASSUME NEW f \in Flushers, lock = f, at[f] = "sent", cur[f].t \in Followed',
                        cur[f].kind # "comment", NEW x \in {cur[f].add, cur[f].remove}
                 PROVE  \/ x \in labels'[cur[f].t] <=> x = cur[f].add
                        \/ \E p \in Touching(cur[f].t, x)' : cur[f].id < p.id
    BY <1>1 DEF SentIsSet
  <2>2. \/ x \in labels[cur[f].t] <=> x = cur[f].add
        \/ \E p \in Touching(cur[f].t, x) : cur[f].id < p.id
    BY <1>1, <2>1 DEF LabelInv, SentIsSet
  <2>3. Touching(cur[f].t, x) \subseteq Touching(cur[f].t, x)'
    BY <1>1 DEF Touching
  <2>4. CASE cur[f].t # t
    BY <1>4, <2>1, <2>2, <2>3, <2>4 DEF LabelStep
  <2>5. CASE cur[f].t = t
    <3>1. QueuedFor(t)
      BY <1>4, <2>1, <2>5 DEF QueuedFor
    <3>2. \/ x \in labels'[t] <=> x \in labels[t]
          \/ \E p \in Touching(t, x)' : p.id = nextId
      BY <2>1, <2>5, <3>1 DEF LabelStep
    <3>3. CASE \E p \in Touching(t, x)' : p.id = nextId
      BY <1>1, <1>2, <1>4, <2>1, <2>5, <3>3
    <3>4. CASE x \in labels'[t] <=> x \in labels[t]
      <4>1. CASE \E p \in Touching(t, x) : cur[f].id < p.id
        BY <1>1, <2>3, <2>5, <4>1
      <4>2. CASE x \in labels[t] <=> x = cur[f].add
        BY <2>5, <3>4, <4>2
      <4> QED
        BY <2>2, <2>5, <4>1, <4>2
    <3> QED
      BY <3>2, <3>3, <3>4
  <2> QED
    BY <2>4, <2>5
<1> QED
  BY <1>3, <1>5, <1>6 DEF LabelInv, LabelStep

----------------------------------------------------------------------------
(* The flush takes the ops of a ticket in order.                           *)

LEMMA AdvanceInOrder ==
    ASSUME FlushTyped, OpFiles', NEW f \in Flushers, lock \in {f, None},
           NEW rest \in SUBSET live', Advance(f, rest),
           \A p \in rest : p.t \in Followed' =>
               \A o \in live' : o.t = p.t /\ o.id < p.id => o \in rest
    PROVE  TakenInOrder' /\ SentIsSet'
<1>1. CASE rest = {} /\ Rest(f) /\ lock' = None
  BY <1>1 DEF TakenInOrder, SentIsSet
<1>2. CASE \E op \in rest :
             /\ \A o \in rest : op.id <= o.id
             /\ todo' = [todo EXCEPT ![f] = rest \ {op}] /\ cur' = [cur EXCEPT ![f] = op]
             /\ Go(f, Entry(op)) /\ lock' = f
  <2>1. PICK op \in rest :
             /\ \A o \in rest : op.id <= o.id
             /\ todo' = [todo EXCEPT ![f] = rest \ {op}] /\ cur' = [cur EXCEPT ![f] = op]
             /\ Go(f, Entry(op)) /\ lock' = f
    BY <1>2
  <2>2. Entry(op) # "sent"
    BY DEF Entry
  <2>3. at'[f] = Entry(op) /\ cur'[f] = op /\ todo'[f] = rest \ {op}
    BY <2>1 DEF FlushTyped, Go
  <2>4. \A o \in live' : o.id \in Nat
    BY DEF OpFiles, Op
  <2>5. op.t \in Followed' => \A o \in live' : o.t = op.t => op.id <= o.id
    BY <2>1, <2>4
  <2>6. \A p \in rest \ {op} : p.t \in Followed' =>
            \A o \in live' : o.t = p.t /\ o.id < p.id => o \in (rest \ {op}) \cup {op}
    OBVIOUS
  <2> QED
    BY <2>1, <2>2, <2>3, <2>5, <2>6 DEF TakenInOrder, SentIsSet
<1> QED
  BY <1>1, <1>2 DEF Advance

LEMMA FinishKeepsLabels ==
    ASSUME OutboxInv, OutboxInv', LabelInv, NEW f \in Flushers, lock = f, Finish(f),
           UNCHANGED <<live, phase, dropped, raced, trait>>,
           \A t \in Tickets : EndsKept(t)
    PROVE  LabelInv'
<1>1. Followed' = Followed /\ Followed \subseteq Tickets
  BY DEF Followed, Silent
<1>2. QueueLeadsHome'
  BY <1>1, HomeKept DEF LabelInv
<1>3. TakenInOrder' /\ SentIsSet'
  <2>1. FlushTyped /\ OpFiles'
    BY DEF OutboxInv, FlushInv, DataInv
  <2> QED
    BY <2>1, AdvanceInOrder DEF Finish
<1> QED
  BY <1>2, <1>3 DEF LabelInv, OpsTurnOver

LEMMA OfflineKeepsLabels ==
    ASSUME OutboxInv, OutboxInv', LabelInv, NEW f \in Flushers, lock = f, Fault, Finish(f),
           UNCHANGED <<live, phase, labels, dropped, raced>>
    PROVE  LabelInv'
<1>1. \A t \in Tickets : EndsKept(t)
  BY UntouchedKept
<1> QED
  BY <1>1, FinishKeepsLabels DEF Fault

LEMMA RefusedKeepsLabels ==
    ASSUME OutboxInv, OutboxInv', LabelInv, NEW f \in Flushers, lock = f, at[f] # "buried",
           Refused(f), UNCHANGED <<phase, labels, trait>>
    PROVE  LabelInv'
<1> DEFINE c == cur[f]
           op == [c EXCEPT !.attempts = @ + 1]
<1>1. /\ c \in live /\ c \in Op /\ c.t \in Tickets /\ c.attempts \in Nat
      /\ c.attempts < MaxAttempts /\ todo[f] \subseteq live /\ todo[f] \subseteq Without(c)
  BY HeldOps
<1>2. op \in Op /\ SameReport(op, c)
  BY <1>1 DEF Op, SameReport
<1>4. FlushTyped /\ OpFiles /\ OpFiles'
  BY DEF OutboxInv, FlushInv, DataInv
<1>5. \A p \in todo[f] : p.t \in Followed =>
          \A o \in live : o.t = p.t /\ o.id < p.id => o \in todo[f] \cup {c}
  BY DEF LabelInv, TakenInOrder
<1>6. CASE op.attempts = MaxAttempts
  <2>1. /\ live' = Without(c) /\ dropped' = dropped \cup {c.t}
        /\ at' = [at EXCEPT ![f] = "buried"] /\ UNCHANGED <<lock, todo, cur, raced>>
    BY <1>6 DEF Refused, Bury, Go
  <2> HIDE DEF c, op
  <2>2. c.t \notin Followed' /\ Followed' \subseteq Followed
    BY <2>1 DEF Followed, Silent
  <2>3. /\ live' \subseteq live /\ \A o \in live : o = c \/ o \in live'
    BY <1>1, <1>4, <2>1 DEF Without, OpFiles
  <2>4. \A t \in Tickets \ {c.t} : EndsKept(t)
    BY <2>3, UntouchedKept
  <2>5. QueueLeadsHome'
    BY <2>2, <2>4, HomeKept DEF LabelInv, Followed
  <2>6. OpsTurnOver' /\ TakenInOrder'
    BY <2>1, <2>2, <2>3 DEF LabelInv, OpsTurnOver, TakenInOrder
  <2>7. SentIsSet'
    <3>1. at'[f] = "buried"
      BY <1>4, <2>1 DEF FlushTyped
    <3> QED
      BY <2>1, <3>1 DEF SentIsSet
  <2> QED
    BY <2>5, <2>6, <2>7 DEF LabelInv
<1>7. CASE op.attempts # MaxAttempts
  <2>1. /\ live' = Without(op) \cup {op} /\ dropped' = dropped /\ Advance(f, todo[f])
        /\ raced' = IF \E o \in todo[f] : o.t = op.t THEN raced \cup {op.t} ELSE raced
    BY <1>7 DEF Refused
  <2> HIDE DEF c, op
  <2>2. /\ op.t = c.t /\ Followed' \subseteq Followed
        /\ \A p \in todo[f] : p.t \in Followed' => p.t # c.t
    BY <1>2, <2>1 DEF SameReport, Followed, Silent
  <2>3. \A t \in Tickets : EndsKept(t)
    BY <1>1, <1>2, <1>4, <2>1, RewriteKept
  <2>4. QueueLeadsHome'
    BY <2>2, <2>3, HomeKept DEF LabelInv, Followed
  <2>5. OpsTurnOver'
    BY <1>1, <1>2, <2>1 DEF LabelInv, OpsTurnOver, Without, SameReport
  <2>6. todo[f] \subseteq live'
    BY <1>1, <1>2, <2>1 DEF Without, SameReport
  <2>7. TakenInOrder' /\ SentIsSet'
    <3>1. \A p \in todo[f] : p.t \in Followed' =>
             \A o \in live' : o.t = p.t /\ o.id < p.id => o \in todo[f]
      BY <1>5, <2>1, <2>2 DEF Without
    <3> QED
      BY <1>4, <2>1, <2>6, <3>1, AdvanceInOrder
  <2> QED
    BY <2>4, <2>5, <2>7 DEF LabelInv
<1> QED
  BY <1>6, <1>7

\* The tail of a buried op is of a ticket that has given up a report.
LEMMA DeadLetterLeads ==
    ASSUME OutboxInv, OutboxInv', LabelInv, NEW f \in Flushers, DeadLetter(f) PROVE LabelInv'
<1> DEFINE c == cur[f]
           tail == [c EXCEPT !.id = nextId, !.attempts = 0, !.tail = TRUE]
           hasTail == c.kind = "pr" /\ c.url /\ c.t \notin Silent /\ ~c.tail
<1>1. /\ lock = f /\ at[f] = "buried" /\ Advance(f, todo[f])
      /\ IF hasTail THEN Enqueue(tail) ELSE UNCHANGED <<live, nextId>>
      /\ raced \subseteq raced' /\ UNCHANGED <<phase, labels, trait, dropped>>
  BY DEF DeadLetter, Replaying, ClearMarker, githubVars, envVars
<1>2. /\ c \in dead /\ c \in Op /\ c.t \notin Followed /\ Sane(c) /\ todo[f] \subseteq live
  BY <1>1 DEF OutboxInv, DataInv, OpFiles, OpsAreSane, FlushInv, FlushHoldsFiles, Followed
<1>3. tail.t = c.t /\ tail.add = c.add /\ tail.remove = c.remove
  BY <1>2 DEF Op
<1>4. FlushTyped /\ OpFiles'
  BY DEF OutboxInv, FlushInv, DataInv
<1>5. \A p \in todo[f] : p.t \in Followed =>
          \A o \in live : o.t = p.t /\ o.id < p.id => o \in todo[f] \cup {c}
  BY <1>1 DEF LabelInv, TakenInOrder
<1> HIDE DEF c, tail
<1>6. live \subseteq live' /\ \A o \in live' : o \in live \/ (o = tail /\ c.kind = "pr")
  BY <1>1 DEF Enqueue
<1>7. Followed' \subseteq Followed /\ Followed \subseteq Tickets
  BY <1>1 DEF Followed, Silent
<1>8. \A t \in Followed : EndsKept(t)
  BY <1>1, <1>2, <1>3, <1>6, UntouchedKept
<1>9. QueueLeadsHome'
  BY <1>1, <1>7, <1>8, HomeKept DEF LabelInv
<1>10. OpsTurnOver'
  BY <1>2, <1>3, <1>6 DEF LabelInv, OpsTurnOver, Sane
<1>11. TakenInOrder' /\ SentIsSet'
  <2>1. \A p \in todo[f] : p.t \in Followed' =>
           \A o \in live' : o.t = p.t /\ o.id < p.id => o \in todo[f]
    BY <1>2, <1>3, <1>5, <1>6, <1>7
  <2> QED
    BY <1>1, <1>2, <1>4, <1>6, <2>1, AdvanceInOrder
<1> QED
  BY <1>9, <1>10, <1>11 DEF LabelInv

LEMMA CheckpointKeepsLabels ==
    ASSUME OutboxInv, LabelInv, NEW f \in Flushers, lock = f, at[f] # "buried",
           NEW op \in Op, SameReport(op, cur[f]), Rewrite(f, op),
           NEW step \in {"create", "write"}, Go(f, step),
           UNCHANGED <<lock, phase, labels, trait, dropped, raced>>
    PROVE  LabelInv'
<1> DEFINE c == cur[f]
<1>1. c \in live /\ todo[f] \subseteq Without(c) /\ OpFiles /\ FlushTyped
  BY HeldOps DEF OutboxInv, DataInv, FlushInv
<1>2. live' = Without(op) \cup {op} /\ cur'[f] = op /\ todo' = todo /\ at'[f] = step
  BY <1>1 DEF Rewrite, Go, FlushTyped
<1>3. Followed' = Followed /\ Followed \subseteq Tickets
  BY DEF Followed, Silent
<1>4. /\ \A o \in live' : o = op \/ (o \in live /\ o # c)
      /\ op.id = c.id /\ op.t = c.t /\ op.add = c.add /\ op.remove = c.remove
  BY <1>1, <1>2 DEF Without, SameReport, OpFiles
<1>5. \A t \in Tickets : EndsKept(t)
  BY <1>1, <1>2, RewriteKept
<1>6. QueueLeadsHome'
  BY <1>3, <1>5, HomeKept DEF LabelInv
<1>7. OpsTurnOver'
  BY <1>1, <1>4 DEF LabelInv, OpsTurnOver
<1>8. TakenInOrder'
  <2>1. c.t \in Followed => \A o \in live : o.t = c.t => c.id <= o.id
    BY DEF LabelInv, TakenInOrder
  <2>2. \A p \in todo[f] : p.t \in Followed =>
            \A o \in live : o.t = p.t /\ o.id < p.id => o \in todo[f] \cup {c}
    BY DEF LabelInv, TakenInOrder
  <2>3. c.id <= c.id
    BY <1>1 DEF OpFiles, Op
  <2>4. op.t \in Followed' => \A o \in live' : o.t = op.t => op.id <= o.id
    BY <1>3, <1>4, <2>1, <2>3
  <2>5. \A p \in todo[f] : p.t \in Followed' =>
            \A o \in live' : o.t = p.t /\ o.id < p.id => o \in todo[f] \cup {op}
    BY <1>3, <1>4, <2>2
  <2> QED
    BY <1>2, <2>4, <2>5 DEF TakenInOrder
<1>9. SentIsSet'
  BY <1>2 DEF SentIsSet
<1> QED
  BY <1>6, <1>7, <1>8, <1>9 DEF LabelInv

LEMMA NextStepKeepsLabels ==
    ASSUME OutboxInv, LabelInv, NEW f \in Flushers, lock = f, NEW step, Go(f, step),
           UNCHANGED <<live, todo, cur, lock, phase, trait, dropped>>, raced \subseteq raced',
           \A t \in Tickets : EndsKept(t),
           step = "sent" /\ cur[f].t \in Followed' /\ cur[f].kind # "comment" =>
               \A x \in {cur[f].add, cur[f].remove} : x \in labels'[cur[f].t] <=> x = cur[f].add
    PROVE  LabelInv'
<1>1. Followed' \subseteq Followed /\ Followed \subseteq Tickets
  BY DEF Followed, Silent
<1>2. at'[f] = step
  BY DEF Go, OutboxInv, FlushInv, FlushTyped
<1>3. QueueLeadsHome'
  BY <1>1, HomeKept DEF LabelInv
<1>4. OpsTurnOver' /\ TakenInOrder'
  BY <1>1 DEF LabelInv, OpsTurnOver, TakenInOrder
<1>5. SentIsSet'
  BY <1>2 DEF SentIsSet
<1> QED
  BY <1>3, <1>4, <1>5 DEF LabelInv

----------------------------------------------------------------------------
(* Each step keeps the way home, and the second theorem.                   *)

LEMMA PushLeads ==
    ASSUME OutboxInv, OutboxInv', LabelInv, NEW f \in Flushers, Push(f) PROVE LabelInv'
<1> DEFINE op == [cur[f] EXCEPT !.pushed = TRUE]
<1>1. /\ lock = f /\ at[f] = "push" /\ UNCHANGED <<phase, labels>>
      /\ Call(f, TRUE, TRUE, Rewrite(f, op) /\ Go(f, "create"))
  BY DEF Push, Replaying, githubVars
<1>2. CASE Rewrite(f, op) /\ Go(f, "create") /\ NoFault
           /\ UNCHANGED <<dead, nextId, lock, meta, dropped, raced>>
  <2>1. op \in Op /\ SameReport(op, cur[f])
    BY <1>1, HeldOps DEF Op, SameReport
  <2> HIDE DEF op
  <2> QED
    BY <1>1, <1>2, <2>1, CheckpointKeepsLabels DEF NoFault, envVars
<1>3. CASE Fault /\ Finish(f) /\ UNCHANGED <<live, dead, nextId, meta, dropped, raced>>
  BY <1>1, <1>3, OfflineKeepsLabels
<1>4. CASE Refusal /\ Refused(f)
  BY <1>1, <1>4, RefusedKeepsLabels DEF Refusal
<1> QED
  BY <1>1, <1>2, <1>3, <1>4 DEF Call

LEMMA UrlCheckpointLeads ==
    ASSUME OutboxInv, LabelInv, NEW f \in Flushers, lock = f, at[f] # "buried",
           Rewrite(f, [cur[f] EXCEPT !.url = TRUE]), Go(f, "write"), NoFault,
           UNCHANGED <<lock, phase, labels, dropped, raced>>
    PROVE  LabelInv'
<1> DEFINE op == [cur[f] EXCEPT !.url = TRUE]
<1>1. op \in Op /\ SameReport(op, cur[f]) /\ Rewrite(f, op)
  BY HeldOps DEF Op, SameReport
<1> HIDE DEF op
<1> QED
  BY <1>1, CheckpointKeepsLabels DEF NoFault, envVars

LEMMA CreateLeads ==
    ASSUME OutboxInv, OutboxInv', LabelInv, NEW f \in Flushers, Create(f) PROVE LabelInv'
<1>1. /\ lock = f /\ at[f] = "create" /\ UNCHANGED <<phase, labels>>
      /\ Call(f, prs' = prs \cup {cur[f].t}, UNCHANGED prs,
              Rewrite(f, [cur[f] EXCEPT !.url = TRUE]) /\ Go(f, "write"))
  BY DEF Create, Replaying
<1>2. CASE /\ Rewrite(f, [cur[f] EXCEPT !.url = TRUE]) /\ Go(f, "write") /\ NoFault
           /\ UNCHANGED <<dead, nextId, lock, meta, dropped, raced>>
  BY <1>1, <1>2, UrlCheckpointLeads
<1>3. CASE Fault /\ Finish(f) /\ UNCHANGED <<live, dead, nextId, meta, dropped, raced>>
  BY <1>1, <1>3, OfflineKeepsLabels
<1>4. CASE Refusal /\ Refused(f)
  BY <1>1, <1>4, RefusedKeepsLabels DEF Refusal
<1> QED
  BY <1>1, <1>2, <1>3, <1>4 DEF Call

LEMMA ViewLeads ==
    ASSUME OutboxInv, OutboxInv', LabelInv, NEW f \in Flushers, View(f) PROVE LabelInv'
<1>1. /\ lock = f /\ at[f] = "create" /\ UNCHANGED <<phase, labels>>
      /\ \/ Refused(f) /\ NoFault
         \/ Call(f, TRUE, TRUE, Rewrite(f, [cur[f] EXCEPT !.url = TRUE]) /\ Go(f, "write"))
  BY DEF View, Replaying, githubVars
<1>2. CASE /\ Rewrite(f, [cur[f] EXCEPT !.url = TRUE]) /\ Go(f, "write") /\ NoFault
           /\ UNCHANGED <<dead, nextId, lock, meta, dropped, raced>>
  BY <1>1, <1>2, UrlCheckpointLeads
<1>3. CASE Fault /\ Finish(f) /\ UNCHANGED <<live, dead, nextId, meta, dropped, raced>>
  BY <1>1, <1>3, OfflineKeepsLabels
<1>4. CASE Refused(f) /\ (Refusal \/ NoFault)
  BY <1>1, <1>4, RefusedKeepsLabels DEF Refusal, NoFault, envVars
<1> QED
  BY <1>1, <1>2, <1>3, <1>4 DEF Call

LEMMA WriteBackLeads ==
    ASSUME OutboxInv, LabelInv, NEW f \in Flushers, WriteBack(f) PROVE LabelInv'
<1> DEFINE step == IF cur[f].t \in Silent THEN "sent" ELSE "scan"
<1>1. /\ lock = f /\ Go(f, step) /\ raced \subseteq raced'
      /\ UNCHANGED <<live, lock, todo, cur, phase, labels, trait, dropped>>
  BY DEF WriteBack, Replaying, githubVars, envVars
<1>2. \A t \in Tickets : EndsKept(t)
  BY <1>1, UntouchedKept
<1>3. step = "sent" => cur[f].t \notin Followed'
  BY <1>1 DEF Followed, Silent
<1> HIDE DEF step
<1> QED
  BY <1>1, <1>2, <1>3, NextStepKeepsLabels

LEMMA ScanLeads ==
    ASSUME OutboxInv, OutboxInv', LabelInv, NEW f \in Flushers, Scan(f) PROVE LabelInv'
<1> DEFINE step == IF cur[f].run \in Range(posted[cur[f].t]) THEN AfterComment(cur[f]) ELSE "post"
<1>1. /\ lock = f /\ at[f] = "scan" /\ UNCHANGED <<phase, labels>>
      /\ Call(f, TRUE, TRUE, Go(f, step) /\ UNCHANGED <<live, todo, cur>>)
  BY DEF Scan, Replaying, githubVars
<1>2. CASE Go(f, step) /\ UNCHANGED <<live, todo, cur>> /\ NoFault
           /\ UNCHANGED <<dead, nextId, lock, meta, dropped, raced>>
  <2>1. \A t \in Tickets : EndsKept(t)
    BY <1>1, <1>2, UntouchedKept
  <2>2. step = "sent" => cur[f].kind = "comment"
    <3>1. cur[f].kind \in Kinds /\ cur[f].kind # "labels"
      BY <1>1, HeldOps DEF OutboxInv, FlushInv, FlushHoldsFiles, CommentSteps, Op
    <3> QED
      BY <3>1 DEF AfterComment, Kinds
  <2> HIDE DEF step
  <2> QED
    BY <1>1, <1>2, <2>1, <2>2, NextStepKeepsLabels DEF NoFault, envVars
<1>3. CASE Fault /\ Finish(f) /\ UNCHANGED <<live, dead, nextId, meta, dropped, raced>>
  BY <1>1, <1>3, OfflineKeepsLabels
<1>4. CASE Refusal /\ Refused(f)
  BY <1>1, <1>4, RefusedKeepsLabels DEF Refusal
<1> QED
  BY <1>1, <1>2, <1>3, <1>4 DEF Call

LEMMA PostCommentLeads ==
    ASSUME OutboxInv, OutboxInv', LabelInv, NEW f \in Flushers, PostComment(f) PROVE LabelInv'
<1> DEFINE step == AfterComment(cur[f])
<1>1. /\ lock = f /\ at[f] = "post" /\ UNCHANGED <<phase, labels>>
      /\ Call(f, Post(cur[f].t, cur[f].run), UNCHANGED posted,
              Go(f, step) /\ UNCHANGED <<live, todo, cur>>)
  BY DEF PostComment, Replaying
<1>2. CASE Go(f, step) /\ UNCHANGED <<live, todo, cur>> /\ NoFault
           /\ UNCHANGED <<dead, nextId, lock, meta, dropped, raced>>
  <2>1. \A t \in Tickets : EndsKept(t)
    BY <1>1, <1>2, UntouchedKept
  <2>2. step = "sent" => cur[f].kind = "comment"
    <3>1. cur[f].kind \in Kinds /\ cur[f].kind # "labels"
      BY <1>1, HeldOps DEF OutboxInv, FlushInv, FlushHoldsFiles, CommentSteps, Op
    <3> QED
      BY <3>1 DEF AfterComment, Kinds
  <2> HIDE DEF step
  <2> QED
    BY <1>1, <1>2, <2>1, <2>2, NextStepKeepsLabels DEF NoFault, envVars
<1>3. CASE Fault /\ Finish(f) /\ UNCHANGED <<live, dead, nextId, meta, dropped, raced>>
  BY <1>1, <1>3, OfflineKeepsLabels
<1>4. CASE Refusal /\ Refused(f)
  BY <1>1, <1>4, RefusedKeepsLabels DEF Refusal
<1> QED
  BY <1>1, <1>2, <1>3, <1>4 DEF Call

LEMMA LabelLeads ==
    ASSUME OutboxInv, OutboxInv', LabelInv, NEW f \in Flushers, Label(f) PROVE LabelInv'
<1> DEFINE c == cur[f]
<1>1. /\ lock = f /\ at[f] = "label" /\ UNCHANGED phase
      /\ Call(f, Relabel(c.t, c.add, c.remove), UNCHANGED labels,
              Go(f, "sent") /\ UNCHANGED <<live, todo, cur>>)
  BY DEF Label, Replaying
<1>2. /\ c \in live /\ c.t \in Tickets /\ c.kind # "comment" /\ c.add # c.remove
      /\ GithubTyped
  BY <1>1, HeldOps DEF OutboxInv, DataInv, FlushInv, FlushHoldsFiles, LabelInv, OpsTurnOver
<1>3. Relabel(c.t, c.add, c.remove) /\ live' = live => \A t \in Tickets : EndsKept(t)
  BY <1>2, RelabelKept
<1>4. CASE /\ Relabel(c.t, c.add, c.remove)
           /\ Go(f, "sent") /\ UNCHANGED <<live, todo, cur>> /\ NoFault
           /\ UNCHANGED <<dead, nextId, lock, meta, dropped, raced>>
  <2>1. \A x \in {c.add, c.remove} : x \in labels'[c.t] <=> x = c.add
    BY <1>2, <1>4 DEF Relabel, GithubTyped
  <2> QED
    BY <1>1, <1>3, <1>4, <2>1, NextStepKeepsLabels DEF NoFault, envVars
<1>5. CASE /\ Relabel(c.t, c.add, c.remove) \/ UNCHANGED labels
           /\ Fault /\ Finish(f) /\ UNCHANGED <<live, dead, nextId, meta, dropped, raced>>
  <2>1. CASE UNCHANGED labels
    BY <1>1, <1>5, <2>1, OfflineKeepsLabels
  <2>2. CASE Relabel(c.t, c.add, c.remove)
    BY <1>1, <1>3, <1>5, <2>2, FinishKeepsLabels DEF Fault
  <2> QED
    BY <1>5, <2>1, <2>2
<1>6. CASE UNCHANGED labels /\ Refusal /\ Refused(f)
  BY <1>1, <1>6, RefusedKeepsLabels DEF Refusal
<1> QED
  BY <1>1, <1>4, <1>5, <1>6 DEF Call

LEMMA SentLeads ==
    ASSUME OutboxInv, OutboxInv', LabelInv, NEW f \in Flushers, Sent(f) PROVE LabelInv'
<1> DEFINE c == cur[f]
<1>1. /\ lock = f /\ at[f] = "sent" /\ live' = Without(c) /\ Advance(f, todo[f])
      /\ UNCHANGED <<phase, labels, trait, dropped, raced>>
  BY DEF Sent, Replaying, ticketVars, githubVars, envVars
<1>2. c \in live /\ todo[f] \subseteq live' /\ OpFiles /\ OpFiles' /\ FlushTyped
  BY <1>1, HeldOps DEF OutboxInv, DataInv, FlushInv
<1>3. Followed' = Followed /\ Followed \subseteq Tickets
  BY <1>1 DEF Followed, Silent
<1>4. \A t \in Followed : EndsKept(t)
  <2>1. SUFFICES ASSUME NEW t \in Followed PROVE EndsKept(t)
    OBVIOUS
  <2>2. c.t = t => \A o \in live : o.t = t => c.id <= o.id
    BY <1>1 DEF LabelInv, TakenInOrder
  <2>3. c.t = t /\ c.kind # "comment" =>
            \A x \in {c.add, c.remove} :
                \/ x \in labels[t] <=> x = c.add
                \/ \E p \in Touching(t, x) : c.id < p.id
    BY <1>1 DEF LabelInv, SentIsSet
  <2> HIDE DEF c
  <2> QED
    BY <1>1, <1>2, <2>2, <2>3, RemoveKept DEF LabelInv
<1>5. QueueLeadsHome'
  BY <1>1, <1>3, <1>4, HomeKept DEF LabelInv
<1>6. OpsTurnOver'
  BY <1>1 DEF LabelInv, OpsTurnOver, Without
<1>7. TakenInOrder' /\ SentIsSet'
  <2>1. \A p \in todo[f] : p.t \in Followed' =>
           \A o \in live' : o.t = p.t /\ o.id < p.id => o \in todo[f]
    BY <1>1, <1>3 DEF LabelInv, TakenInOrder, Without
  <2> QED
    BY <1>1, <1>2, <2>1, AdvanceInOrder
<1> QED
  BY <1>5, <1>6, <1>7 DEF LabelInv

LEMMA AcquireLeads ==
    ASSUME OutboxInv, OutboxInv', LabelInv, NEW f \in Flushers, Acquire(f) PROVE LabelInv'
<1>1. /\ live' = live /\ lock = None /\ Advance(f, live)
      /\ UNCHANGED <<phase, labels, trait, dropped, raced>>
  BY DEF Acquire, ticketVars, githubVars, envVars
<1>2. \A t \in Tickets : EndsKept(t)
  BY <1>1, UntouchedKept
<1>3. Followed' = Followed /\ Followed \subseteq Tickets
  BY <1>1 DEF Followed, Silent
<1>4. QueueLeadsHome' /\ OpsTurnOver'
  BY <1>1, <1>2, <1>3, HomeKept DEF LabelInv, OpsTurnOver
<1>5. TakenInOrder' /\ SentIsSet'
  BY <1>1, AdvanceInOrder DEF OutboxInv, DataInv, FlushInv
<1> QED
  BY <1>4, <1>5 DEF LabelInv

\* A step that leaves the queue, the issues and every flush under way as they are.
LEMMA AsideLeads ==
    ASSUME OutboxInv, LabelInv,
           UNCHANGED <<live, labels, trait, raced>>, dropped \subseteq dropped',
           \A f \in Flushers : lock' = f =>
               lock = f /\ cur'[f] = cur[f] /\ todo'[f] = todo[f] /\ at'[f] = at[f],
           \A t \in Followed' : phase'[t] = phase[t] \/ phase'[t] = "queued"
    PROVE  LabelInv'
<1>1. Followed' \subseteq Followed /\ Followed \subseteq Tickets
  BY DEF Followed, Silent
<1>2. \A t : EndsKept(t) /\ \A x : Touching(t, x)' = Touching(t, x)
  BY UntouchedKept
<1>3. QueueLeadsHome' /\ OpsTurnOver'
  BY <1>1, <1>2, HomeKept DEF LabelInv, OpsTurnOver
<1>4. TakenInOrder'
  BY <1>1 DEF LabelInv, TakenInOrder
<1>5. SentIsSet'
  BY <1>1 DEF LabelInv, SentIsSet, Touching
<1> QED
  BY <1>3, <1>4, <1>5 DEF LabelInv

LEMMA PreListLeads ==
    ASSUME OutboxInv, LabelInv, NEW f \in Flushers, PreList(f) PROVE LabelInv'
  BY AsideLeads DEF PreList, Go, ticketVars, githubVars, envVars, OutboxInv, FlushInv, FlushTyped

LEMMA SkipBusyLeads ==
    ASSUME OutboxInv, LabelInv, NEW f \in Flushers, SkipBusy(f) PROVE LabelInv'
  BY AsideLeads DEF SkipBusy, Rest, Go, ticketVars, githubVars, envVars, OutboxInv, FlushInv, FlushTyped

LEMMA KillManualLeads ==
    ASSUME OutboxInv, LabelInv, NEW f \in Flushers, KillManual(f) PROVE LabelInv'
  BY AsideLeads DEF KillManual, Kill, Unlock, Rest, Go, ticketVars, githubVars, OutboxInv,
     FlushInv, FlushTyped

LEMMA KillDaemonLeads ==
    ASSUME OutboxInv, LabelInv, KillDaemon PROVE LabelInv'
<1> DEFINE lost == {t \in Tickets : phase[t] \in {"reporting", "labelling"}}
<1>1. /\ dropped' = dropped \cup lost
      /\ phase' = [t \in Tickets |->
                     IF phase[t] \in {"running", "parking"} THEN "queued"
                     ELSE IF t \in lost THEN "settled" ELSE phase[t]]
      /\ Unlock(Sweep) /\ trait' = trait /\ UNCHANGED <<live, labels, raced>>
  BY DEF KillDaemon, Kill, githubVars
<1>2. \A t \in Followed' : phase'[t] = phase[t] \/ phase'[t] = "queued"
  BY <1>1 DEF Followed
<1>3. \A f \in Flushers : lock' = f =>
          lock = f /\ cur'[f] = cur[f] /\ todo'[f] = todo[f] /\ at'[f] = at[f]
  BY <1>1 DEF Unlock, Rest, Go, OutboxInv, FlushInv, FlushTyped
<1> QED
  BY <1>1, <1>2, <1>3, AsideLeads

LEMMA LabelInit == Init => LabelInv
<1> SUFFICES ASSUME Init PROVE LabelInv
  OBVIOUS
<1>1. QueueLeadsHome /\ OpsTurnOver
  BY DEF Init, QueueLeadsHome, OpsTurnOver, Followed
<1>2. TakenInOrder /\ SentIsSet
  BY DEF Init, TakenInOrder, SentIsSet
<1> QED
  BY <1>1, <1>2 DEF LabelInv

LEMMA LabelStepKeeps == OutboxInv /\ OutboxInv' /\ LabelInv /\ [Next]_vars => LabelInv'
<1> SUFFICES ASSUME OutboxInv, OutboxInv', LabelInv, [Next]_vars PROVE LabelInv'
  OBVIOUS
<1>1. CASE \E t \in Tickets : Reporter(t)
  BY <1>1, ReporterSteps, ReporterTurns, ReporterKeepsLabels DEF OutboxInv
<1>2. CASE \E f \in Flushers : Flush(f)
  BY <1>2, PreListLeads, AcquireLeads, SkipBusyLeads, PushLeads, CreateLeads, ViewLeads,
     WriteBackLeads, ScanLeads, PostCommentLeads, LabelLeads, SentLeads, DeadLetterLeads DEF Flush
<1>3. CASE \E f \in Flushers : KillManual(f)
  BY <1>3, KillManualLeads
<1>4. CASE KillDaemon
  BY <1>4, KillDaemonLeads
<1>5. CASE UNCHANGED vars
  BY <1>5, AsideLeads DEF vars, localVars, ticketVars, githubVars, callVars, envVars
<1> QED
  BY <1>1, <1>2, <1>3, <1>4, <1>5 DEF Next

(* The labels of an issue end final: once its ticket is settled and its    *)
(* ops are gone, whatever was lost, queued or killed on the way, the issue *)
(* shows done and nothing else; unless a report was given up, or a live    *)
(* call (githubOutbox.ts:218) or a later op overtook a queued one.         *)
THEOREM IssuesEndFinal == Spec => []LabelsConverge
<1>1. Spec => [](OutboxInv /\ LabelInv)
  BY OutboxInit, OutboxStep, LabelInit, LabelStepKeeps, PTL DEF Spec
<1> QED
  BY <1>1, ConvergeFollows, PTL

=============================================================================
