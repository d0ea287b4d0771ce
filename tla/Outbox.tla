------------------------------- MODULE Outbox -------------------------------
(***************************************************************************)
(* The GitHub outbox (githubOutbox.ts) with the two that fill it: the      *)
(* reporter, which tries each label change and comment live and queues it  *)
(* when GitHub is unreachable (githubComment.ts, githubReport.ts), and the *)
(* PR flow, which parks push, PR, comment and labels as one composite op   *)
(* (prFlow.ts). Queued ops are replayed in order by the daemon's sweep and *)
(* by `junco outbox flush`, one at a time under the flush lock.            *)
(*                                                                         *)
(* Each GitHub call is a step of its own and can succeed, fail on the      *)
(* network with its effect applied (a lost acknowledgement) or not, or be  *)
(* refused. A live call is tried LiveTries times on the network before it  *)
(* is queued; the tries of a comment are steps of their own, those of a    *)
(* label change, which do the same again, are one. Each ticket has its own *)
(* issue.                                                                  *)
(***************************************************************************)
EXTENDS Naturals, Sequences, FiniteSets, Functions

CONSTANTS
    Tickets,
    Traits,       \* kinds of tickets: "plain"; "silent", an external ticket or a
                  \* plan-set child: no comment, no label; "forked", whose PR comes
                  \* from a fork (its head is owner:branch)
    Sweep,        \* the daemon's flusher
    Manual,       \* `junco outbox flush` processes
    None,         \* nobody holds the flush lock
    MaxAttempts,  \* MAX_OP_ATTEMPTS
    LiveTries,    \* attempts of runWithRetry
    MaxRuns,      \* bound on the runs of one ticket
    MaxFaults,    \* bound on network failures
    MaxRefusals,  \* bound on refusals
    MaxCrashes    \* bound on killed processes

Flushers == Manual \cup {Sweep}

ASSUME OutboxAssumption ==
    /\ Traits \subseteq {"plain", "silent", "forked"} /\ Traits # {}
    /\ Sweep \notin Manual /\ None \notin Flushers
    /\ MaxAttempts \in Nat \ {0} /\ LiveTries \in Nat \ {0} /\ MaxRuns \in Nat
    /\ MaxFaults \in Nat /\ MaxRefusals \in Nat /\ MaxCrashes \in Nat

VARIABLES
    live,     \* the op files of outbox/; they sort by name, their id
    dead,     \* the op files of outbox/dead/
    nextId,   \* the next op's file name
    lock,     \* holder of flush.lock
    todo,     \* per flusher: the listed ops its loop has not reached
    cur,      \* per flusher: the op its loop is at
    at,       \* per flusher: where it is in replaying that op
    trait,    \* per ticket: its kind; never changes
    phase,    \* per ticket: what its executor reports next
    runs,     \* per ticket: runs so far (bound)
    meta,     \* per ticket: the PR field of its done file's result block
    tries,    \* per ticket: tries of its live comment the network has failed
    landed,   \* tickets whose live comment is on the issue, unacknowledged
    labels,   \* GitHub: lifecycle labels of the issue
    posted,   \* GitHub: final comments on the issue, as the runs they report
    reposted, \* GitHub: comments a live call posted again, over its own landed one
    prs,      \* GitHub: tickets with an open PR
    dropped,  \* history: tickets with a report given up (refused, dead, killed)
    raced,    \* history: tickets with a queued op overtaken by a live call or,
              \* once refused, by the next op; or replayed before the done file
              \* that it updates is in place
    severed,  \* history: tickets whose PR op a killed flusher left in dead/ without
              \* its tail queued or its marker cleared
    faults, refusals, crashes

localVars == <<live, dead, nextId, lock, todo, cur, at>>
ticketVars == <<phase, runs, meta>>
githubVars == <<labels, posted, prs>>
callVars == <<tries, landed, reposted>>
envVars == <<trait, severed, faults, refusals, crashes>>
vars == <<localVars, ticketVars, githubVars, callVars, envVars, dropped, raced>>

Silent == {t \in Tickets : trait[t] = "silent"}
Forked == {t \in Tickets : trait[t] = "forked"}

Labels == {"queued", "working", "done"}
Kinds == {"labels", "comment", "pr"}
Op == [id : Nat, kind : Kinds, t : Tickets, run : Nat, add : Labels, remove : Labels \ {"done"},
       attempts : 0 .. MaxAttempts, pushed : BOOLEAN, url : BOOLEAN, tail : BOOLEAN]

Init ==
    /\ live = {} /\ dead = {} /\ nextId = 0 /\ lock = None
    /\ todo = [f \in Flushers |-> {}] /\ cur = [f \in Flushers |-> None]
    /\ at = [f \in Flushers |-> "idle"]
    /\ trait \in [Tickets -> Traits]
    /\ phase = [t \in Tickets |-> "queued"]
    /\ runs = [t \in Tickets |-> 0]
    /\ meta = [t \in Tickets |-> "none"]
    /\ labels = [t \in Tickets |-> IF t \in Silent THEN {} ELSE {"queued"}]
    /\ posted = [t \in Tickets |-> <<>>]
    /\ tries = [t \in Tickets |-> 0] /\ landed = {}
    /\ reposted = [t \in Tickets |-> 0]
    /\ prs = {} /\ dropped = {} /\ raced = {} /\ severed = {}
    /\ faults = 0 /\ refusals = 0 /\ crashes = 0

----------------------------------------------------------------------------
(* GitHub calls and op files.                                              *)

NewOp(kind, t, add, remove) ==
    [id |-> nextId, kind |-> kind, t |-> t, run |-> runs[t], add |-> add, remove |-> remove,
     attempts |-> 0, pushed |-> FALSE, url |-> FALSE, tail |-> FALSE]

\* enqueueOp: file names grow, so the new file is the last one.
Enqueue(op) == live' = live \cup {op} /\ nextId' = nextId + 1

QueuedFor(t) == \E o \in live : o.t = t

Relabel(t, add, remove) == labels' = [labels EXCEPT ![t] = (@ \cup {add}) \ {remove}]
Post(t, run) == posted' = [posted EXCEPT ![t] = Append(@, run)]

Fault == faults < MaxFaults /\ faults' = faults + 1 /\ UNCHANGED <<trait, severed, refusals, crashes>>
Refusal ==
    /\ refusals < MaxRefusals /\ refusals' = refusals + 1
    /\ UNCHANGED <<trait, severed, faults, crashes>>
NoFault == UNCHANGED envVars

----------------------------------------------------------------------------
(* The reporter: tryOrEnqueue behind guardOrQueue.                         *)

\* The live attempt of op, whose effect on GitHub is `effect`; a refusal is
\* logged and swallowed.
TryOrEnqueue(op, effect, unaffected) ==
    \/ /\ effect /\ NoFault /\ UNCHANGED <<live, nextId, dropped>>
       /\ raced' = IF QueuedFor(op.t) THEN raced \cup {op.t} ELSE raced
    \/ effect /\ Fault /\ Enqueue(op) /\ UNCHANGED <<dropped, raced>>
    \/ unaffected /\ Fault /\ Enqueue(op) /\ UNCHANGED <<dropped, raced>>
    \/ /\ unaffected /\ Refusal /\ dropped' = dropped \cup {op.t}
       /\ UNCHANGED <<live, nextId, raced>>

ReportLabels(t, add, remove) ==
    /\ TryOrEnqueue(NewOp("labels", t, add, remove),
                    Relabel(t, add, remove), UNCHANGED labels)
    /\ UNCHANGED <<dead, lock, todo, cur, at, posted, prs, callVars>>

GoTo(t, p) == phase' = [phase EXCEPT ![t] = p]

\* executeClaimed: onStart, unless the ticket is silent.
OnStart(t) ==
    /\ phase[t] = "queued" /\ runs[t] < MaxRuns
    /\ runs' = [runs EXCEPT ![t] = @ + 1]
    /\ GoTo(t, "running") /\ UNCHANGED meta
    /\ IF t \in Silent THEN UNCHANGED <<localVars, githubVars, callVars, envVars, dropped, raced>>
       ELSE ReportLabels(t, "working", "queued")

OnRequeue(t) ==
    /\ phase[t] = "running" /\ runs[t] < MaxRuns
    /\ GoTo(t, "queued") /\ UNCHANGED <<runs, meta>>
    /\ IF t \in Silent THEN UNCHANGED <<localVars, githubVars, callVars, envVars, dropped, raced>>
       ELSE ReportLabels(t, "queued", "working")

\* finalize / finalizePr: a silent ticket is settled, any other is reported.
Finalize(t) ==
    /\ phase[t] = "running"
    /\ GoTo(t, IF t \in Silent THEN "settled" ELSE "reporting")
    /\ UNCHANGED <<localVars, runs, meta, githubVars, callVars, envVars, dropped, raced>>

\* One try of the live comment reaches the issue; a later one does not look.
PostLive(t) ==
    IF t \in landed THEN reposted' = [reposted EXCEPT ![t] = @ + 1] /\ UNCHANGED posted
    ELSE Post(t, runs[t]) /\ UNCHANGED reposted

\* runWithRetry: a network failure that is not the last is tried again.
TryCommentAgain(t) ==
    /\ phase[t] = "reporting" /\ tries[t] + 1 < LiveTries /\ Fault
    /\ tries' = [tries EXCEPT ![t] = @ + 1]
    /\ \/ PostLive(t) /\ landed' = landed \cup {t}
       \/ UNCHANGED <<posted, reposted, landed>>
    /\ UNCHANGED <<localVars, ticketVars, labels, prs, dropped, raced>>

\* onFinal comments, then flips the label; queued after the last try alone.
FinalComment(t) ==
    /\ phase[t] = "reporting"
    /\ GoTo(t, "labelling") /\ UNCHANGED <<runs, meta>>
    /\ TryOrEnqueue(NewOp("comment", t, "done", "working"), PostLive(t),
                    UNCHANGED <<posted, reposted>>)
    /\ nextId' # nextId => tries[t] + 1 = LiveTries
    /\ tries' = [tries EXCEPT ![t] = 0] /\ landed' = landed \ {t}
    /\ UNCHANGED <<dead, lock, todo, cur, at, labels, prs>>

FinalLabels(t) ==
    /\ phase[t] = "labelling"
    /\ GoTo(t, "settled") /\ UNCHANGED <<runs, meta>>
    /\ ReportLabels(t, "done", "working")

\* queueOfflinePr; finalizePr records pr_queued, and the op owns the rest.
QueueOfflinePr(t, pushed) ==
    /\ phase[t] = "running"
    /\ Enqueue([NewOp("pr", t, "done", "working") EXCEPT !.pushed = pushed])
    /\ GoTo(t, "parking") /\ Fault
    /\ UNCHANGED <<dead, lock, todo, cur, at, runs, meta, githubVars, callVars, dropped, raced>>

FinalizeQueued(t) ==
    /\ phase[t] = "parking"
    /\ meta' = [meta EXCEPT ![t] = "pr_queued"] /\ GoTo(t, "settled")
    /\ UNCHANGED <<localVars, runs, githubVars, callVars, envVars, dropped, raced>>

----------------------------------------------------------------------------
(* flushOutbox                                                             *)

Go(f, step) == at' = [at EXCEPT ![f] = step]
Replaying(f, step) == lock = f /\ at[f] = step

\* Where the replay of an op starts: a composite op resumes at its checkpoint.
Entry(op) ==
    IF op.kind = "labels" THEN "label"
    ELSE IF op.kind = "comment" THEN "scan"
    ELSE IF ~op.pushed THEN "push" ELSE IF ~op.url THEN "create" ELSE "write"

Rest(f) == todo' = [todo EXCEPT ![f] = {}] /\ cur' = [cur EXCEPT ![f] = None] /\ Go(f, "idle")

\* The flush goes on with the first op of rest, or releases the lock in its finally.
Advance(f, rest) ==
    \/ rest = {} /\ Rest(f) /\ lock' = None
    \/ \E op \in rest :
          /\ \A o \in rest : op.id <= o.id
          /\ todo' = [todo EXCEPT ![f] = rest \ {op}] /\ cur' = [cur EXCEPT ![f] = op]
          /\ Go(f, Entry(op)) /\ lock' = f

\* GitHub is unreachable: the flush is over.
Finish(f) == Advance(f, {})

\* An empty outbox takes no lock.
PreList(f) ==
    /\ at[f] = "idle" /\ live # {}
    /\ todo' = [todo EXCEPT ![f] = live] /\ Go(f, "listed")
    /\ UNCHANGED <<live, dead, nextId, lock, cur, ticketVars, githubVars, callVars, envVars, dropped, raced>>

\* Mutant: the listing from before the lock is replayed.
AcquireStale(f) ==
    /\ at[f] = "listed" /\ lock = None
    /\ Advance(f, todo[f])
    /\ UNCHANGED <<live, dead, nextId, ticketVars, githubVars, callVars, envVars, dropped, raced>>

\* The ops are listed again under the lock.
Acquire(f) ==
    /\ at[f] = "listed" /\ lock = None
    /\ Advance(f, live)
    /\ UNCHANGED <<live, dead, nextId, ticketVars, githubVars, callVars, envVars, dropped, raced>>

SkipBusy(f) ==
    /\ at[f] = "listed" /\ lock # None
    /\ Rest(f)
    /\ UNCHANGED <<live, dead, nextId, lock, ticketVars, githubVars, callVars, envVars, dropped, raced>>

Without(op) == {o \in live : o.id # op.id}

\* rewrite(): the op file and the flusher's copy now read op.
Rewrite(f, op) ==
    /\ live' = Without(op) \cup {op}
    /\ cur' = [cur EXCEPT ![f] = op] /\ UNCHANGED todo

\* A composite op that never opened its PR: the marker of its done file is cleared,
\* unless there is no done file yet.
ClearMarker(op) ==
    LET marked == op.kind = "pr" /\ ~op.url IN
    /\ meta' = [meta EXCEPT ![op.t] = IF marked /\ @ = "pr_queued" THEN "none" ELSE @]
    /\ raced' = IF marked /\ phase[op.t] # "settled" THEN raced \cup {op.t} ELSE raced

\* Mutant: the finalize tail of an open PR is not enqueued again.
DeadLetterTailless(f) ==
    /\ Replaying(f, "buried")
    /\ ClearMarker(cur[f]) /\ Advance(f, todo[f])
    /\ UNCHANGED <<live, dead, nextId, phase, runs, githubVars, callVars, envVars, dropped>>

\* What follows the rename to dead/: preserveFinalizeTail for an op that opened
\* its PR, clearStrandedPrQueuedMarker for one that did not.
DeadLetter(f) ==
    /\ Replaying(f, "buried")
    /\ IF cur[f].kind = "pr" /\ cur[f].url /\ cur[f].t \notin Silent /\ ~cur[f].tail
         THEN Enqueue([cur[f] EXCEPT !.id = nextId, !.attempts = 0, !.tail = TRUE])
         ELSE UNCHANGED <<live, nextId>>
    /\ ClearMarker(cur[f]) /\ Advance(f, todo[f])
    /\ UNCHANGED <<dead, phase, runs, githubVars, callVars, envVars, dropped>>

\* The last refusal: the op file is renamed to dead/ as it is.
Bury(f) ==
    /\ dead' = dead \cup {cur[f]} /\ live' = Without(cur[f])
    /\ dropped' = dropped \cup {cur[f].t}
    /\ Go(f, "buried") /\ UNCHANGED <<nextId, lock, todo, cur, meta, raced>>

\* Mutant: the attempt is not written back to the op file.
RefusedUncounted(f) ==
    /\ Advance(f, todo[f])
    /\ UNCHANGED <<live, dead, nextId, meta, dropped, raced>>

Refused(f) ==
    LET op == [cur[f] EXCEPT !.attempts = @ + 1] IN
    IF op.attempts = MaxAttempts THEN Bury(f)
    ELSE /\ live' = Without(op) \cup {op}
         /\ raced' = IF \E o \in todo[f] : o.t = op.t THEN raced \cup {op.t} ELSE raced
         /\ Advance(f, todo[f])
         /\ UNCHANGED <<dead, nextId, meta, dropped>>

\* One GitHub call of f: `ok` continues, a network failure with or without
\* the effect ends the flush, a refusal is counted against the op.
Call(f, effect, unaffected, ok) ==
    \/ effect /\ ok /\ NoFault /\ UNCHANGED <<dead, nextId, lock, meta, dropped, raced>>
    \/ (effect \/ unaffected) /\ Fault /\ Finish(f) /\ UNCHANGED <<live, dead, nextId, meta, dropped, raced>>
    \/ unaffected /\ Refusal /\ Refused(f)

Push(f) ==
    /\ Replaying(f, "push")
    /\ Call(f, TRUE, TRUE, Rewrite(f, [cur[f] EXCEPT !.pushed = TRUE]) /\ Go(f, "create"))
    /\ UNCHANGED <<phase, runs, githubVars, callVars>>

\* `gh pr create`; GitHub refuses a second PR for one head.
Create(f) ==
    /\ Replaying(f, "create") /\ cur[f].t \notin prs
    /\ Call(f, prs' = prs \cup {cur[f].t}, UNCHANGED prs,
            Rewrite(f, [cur[f] EXCEPT !.url = TRUE]) /\ Go(f, "write"))
    /\ UNCHANGED <<phase, runs, labels, posted, callVars>>

\* "already exists": `gh pr view <head>`, which finds no owner:branch head.
View(f) ==
    /\ Replaying(f, "create") /\ cur[f].t \in prs
    /\ IF cur[f].t \in Forked
         THEN Refused(f) /\ NoFault
         ELSE Call(f, TRUE, TRUE, Rewrite(f, [cur[f] EXCEPT !.url = TRUE]) /\ Go(f, "write"))
    /\ UNCHANGED <<phase, runs, githubVars, callVars>>

\* upsertResultPrUrl on the done file, if there is one; then the finalize tail.
WriteBack(f) ==
    /\ Replaying(f, "write")
    /\ meta' = [meta EXCEPT ![cur[f].t] = IF phase[cur[f].t] = "settled" THEN "pr_url" ELSE @]
    /\ raced' = IF phase[cur[f].t] = "settled" THEN raced ELSE raced \cup {cur[f].t}
    /\ Go(f, IF cur[f].t \in Silent THEN "sent" ELSE "scan")
    /\ UNCHANGED <<live, dead, nextId, lock, todo, cur, phase, runs, githubVars, callVars, envVars,
                   dropped>>

AfterComment(op) == IF op.kind = "pr" THEN "label" ELSE "sent"

\* fetchOwnCommentBodies: the marker says whether we already posted it.
Scan(f) ==
    /\ Replaying(f, "scan")
    /\ Call(f, TRUE, TRUE,
            /\ Go(f, IF cur[f].run \in Range(posted[cur[f].t])
                       THEN AfterComment(cur[f]) ELSE "post")
            /\ UNCHANGED <<live, todo, cur>>)
    /\ UNCHANGED <<phase, runs, githubVars, callVars>>

PostComment(f) ==
    /\ Replaying(f, "post")
    /\ Call(f, Post(cur[f].t, cur[f].run), UNCHANGED posted,
            Go(f, AfterComment(cur[f])) /\ UNCHANGED <<live, todo, cur>>)
    /\ UNCHANGED <<phase, runs, labels, prs, callVars>>

Label(f) ==
    /\ Replaying(f, "label")
    /\ Call(f, Relabel(cur[f].t, cur[f].add, cur[f].remove), UNCHANGED labels,
            Go(f, "sent") /\ UNCHANGED <<live, todo, cur>>)
    /\ UNCHANGED <<phase, runs, posted, prs, callVars>>

\* The op file is removed.
Sent(f) ==
    /\ Replaying(f, "sent")
    /\ live' = Without(cur[f])
    /\ Advance(f, todo[f])
    /\ UNCHANGED <<dead, nextId, ticketVars, githubVars, callVars, envVars, dropped, raced>>

----------------------------------------------------------------------------
(* Kills. The pidfile of a dead flusher is stale at once.                  *)

\* f has moved the PR op of t to dead/ and has not dealt with what it leaves.
Burying(f, t) == at[f] = "buried" /\ cur[f].kind = "pr" /\ cur[f].t = t

Unlock(f) ==
    /\ lock' = IF lock = f THEN None ELSE lock
    /\ Rest(f)

Kill(f) ==
    /\ crashes < MaxCrashes /\ crashes' = crashes + 1 /\ UNCHANGED <<trait, faults, refusals>>
    /\ severed' = {t \in Tickets : t \in severed \/ Burying(f, t)}

KillManual(f) ==
    /\ f \in Manual /\ at[f] # "idle" /\ Kill(f) /\ Unlock(f)
    /\ UNCHANGED <<live, dead, nextId, ticketVars, githubVars, callVars, dropped, raced>>

\* The daemon dies: running tickets are recovered and run again, a report that
\* was still to be made is not made.
KillDaemon ==
    /\ Kill(Sweep) /\ Unlock(Sweep)
    /\ LET cut == {t \in Tickets : phase[t] \in {"reporting", "labelling"}} IN
       /\ dropped' = dropped \cup cut
       /\ phase' = [t \in Tickets |->
                      IF phase[t] \in {"running", "parking"} THEN "queued"
                      ELSE IF t \in cut THEN "settled" ELSE phase[t]]
    /\ tries' = [t \in Tickets |-> 0] /\ landed' = {}
    /\ UNCHANGED <<live, dead, nextId, runs, meta, githubVars, reposted, raced>>

----------------------------------------------------------------------------
Reporter(t) ==
    \/ OnStart(t) \/ OnRequeue(t) \/ Finalize(t) \/ TryCommentAgain(t)
    \/ FinalComment(t) \/ FinalLabels(t) \/ FinalizeQueued(t)
    \/ \E pushed \in BOOLEAN : QueueOfflinePr(t, pushed)

Flush(f) ==
    \/ PreList(f) \/ Acquire(f) \/ SkipBusy(f)
    \/ Push(f) \/ Create(f) \/ View(f) \/ WriteBack(f)
    \/ Scan(f) \/ PostComment(f) \/ Label(f) \/ Sent(f) \/ DeadLetter(f)

Next ==
    \/ \E t \in Tickets : Reporter(t)
    \/ \E f \in Flushers : Flush(f) \/ KillManual(f)
    \/ KillDaemon

Spec == Init /\ [][Next]_vars

\* The daemon sweeps again and again, and a started manual flush goes on.
FairSpec ==
    /\ Spec /\ WF_vars(Flush(Sweep))
    /\ \A f \in Manual : WF_vars(at[f] # "idle" /\ Flush(f))

----------------------------------------------------------------------------
(* Types; an op is not both live and dead, and the flush lock is held      *)
(* exactly by a flush under way.                                           *)
TypeOK ==
    /\ live \subseteq Op
    /\ \A o \in live : o.id < nextId /\ o.attempts < MaxAttempts
    /\ \A o, p \in live : o.id = p.id => o = p
    /\ \A o \in live, d \in dead : o.id # d.id
    /\ dead \subseteq Op /\ nextId \in Nat
    /\ lock \in Flushers \cup {None}
    /\ \A f \in Flushers : lock = f <=> at[f] \notin {"idle", "listed"}
    /\ phase \in [Tickets -> {"queued", "running", "parking", "reporting",
                           "labelling", "settled"}]
    /\ meta \in [Tickets -> {"none", "pr_queued", "pr_url"}]
    /\ labels \in [Tickets -> SUBSET Labels]
    /\ posted \in [Tickets -> Seq(Nat)] /\ prs \subseteq Tickets
    /\ tries \in [Tickets -> 0 .. LiveTries - 1] /\ reposted \in [Tickets -> Nat]
    /\ landed \subseteq {t \in Tickets : phase[t] = "reporting"}

(* A lost acknowledgement, a killed flusher or two flushers never post one *)
(* final comment twice (docs/github-mode.md: a crash mid-flush will not    *)
(* double-post comments; #132). One thing does: a live call that loses the *)
(* acknowledgement of its own post is tried again without a look at the    *)
(* issue (githubComment.ts retryNetwork); these are counted apart, in      *)
(* reposted.                                                               *)
NoDoublePost == \A t \in Tickets : IsInjective(posted[t])

Quiet(t) == phase[t] = "settled" /\ ~QueuedFor(t)

(* Once a ticket is settled and its ops are gone, its issue shows the      *)
(* final state and no other (docs/github-mode.md: replayed in FIFO order   *)
(* to preserve per-issue semantics), unless a report was given up.         *)
(* It does so over crashes, lost acknowledgements and two flushers, as     *)
(* long as nothing overtook an op that was queued for the issue.           *)
LabelsConverge ==
    \A t \in Tickets \ (Silent \cup dropped \cup raced) : Quiet(t) => labels[t] = {"done"}

(* A done file says pr_queued only while an op can still open the PR, or a *)
(* flush is clearing it, so no dependent waits for ever on it (#298);      *)
(* unless a flusher got to the op before finalizePr had moved the file, or *)
(* was killed between the rename to dead/ and the clearing.                *)
QueuedMarkerHasOp ==
    \A t \in Tickets \ (raced \cup severed) : meta[t] = "pr_queued" =>
        \/ \E o \in live : o.kind = "pr" /\ o.t = t
        \/ \E f \in Flushers : Burying(f, t)

(* An op that dies after it opened the PR leaves its finalize tail behind, *)
(* queued, done, or itself dead (#77), or a flush is about to queue it;    *)
(* unless the flusher was killed between the rename to dead/ and that.     *)
FinalizeNotDropped ==
    \A d \in dead : d.kind = "pr" /\ d.url /\ d.t \notin Silent \cup severed /\ ~d.tail =>
        \/ \E e \in live \cup dead : e.t = d.t /\ e.run = d.run /\ e.tail
        \/ d.run \in Range(posted[d.t]) /\ "done" \in labels[d.t]
        \/ \E f \in Flushers : at[f] = "buried" /\ cur[f] = d

(* An op takes effect once and leaves nothing half-done: no comment twice,  *)
(* no marker without its op, no opened PR without its finalize tail.        *)
DeliveredOnce == TypeOK /\ NoDoublePost /\ QueuedMarkerHasOp /\ FinalizeNotDropped

(* Everything queued is sent or dead-lettered (docs/github-mode.md:        *)
(* flushed automatically once GitHub is back; never retried for ever).     *)
EventuallyDrained == live # {} ~> live = {}
=============================================================================
