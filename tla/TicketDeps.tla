----------------------------- MODULE TicketDeps -----------------------------
(***************************************************************************)
(* Dependencies between tickets (ticketDeps.ts) and the way back from a    *)
(* failure, `junco retry` (retryCmd.ts).                                   *)
(*                                                                         *)
(* A ticket is claimed only when every entry of its depends_on is among    *)
(* its deps_satisfied. The daemon's sweep adds those stamps: a dependency  *)
(* that is done confirms its edge, at once when it produced no pull        *)
(* request and after the merge when it did; one that failed, or whose pull *)
(* request was closed, parks the dependent in failed/ with a marker that   *)
(* names it. A retry puts the ticket back into inbox/ together with the    *)
(* tickets parked because of it.                                           *)
(*                                                                         *)
(* The sweep is cut where another process, or another coroutine, can come  *)
(* between: after the reads that decide an edge, at the await of the pull  *)
(* request probe, and between passes. The reads of one decision, and the   *)
(* rewrite of one file, are one step each. Edges are visited in any order. *)
(* Claims and sessions may be a run-once process's, so they happen at any  *)
(* time. `junco retry --all` skips superseded plan-set copies; there are   *)
(* none here.                                                              *)
(***************************************************************************)
EXTENDS Naturals, Sequences

CONSTANTS
    Tickets,
    DependsOn,  \* depends_on of a ticket, for all its copies
    Asks,       \* Q&A tickets: no repository, so no pull request
    Instances   \* bounds to check together: the tickets submitted, the number
                \* of `junco retry` commands, that of resubmissions and kills

ASSUME DepsAssumption ==
    /\ DependsOn \in [Tickets -> SUBSET Tickets]
    /\ \A t \in Tickets : t \notin DependsOn[t]
    /\ Asks \subseteq Tickets
    /\ Instances \subseteq [tickets : SUBSET Tickets, retries : Nat, events : Nat]
    /\ Instances # {}

NoFile == [file |-> "none"]
NoDep == "no dependency"

VARIABLES
    inbox,    \* the queued copy of a ticket: its deps_satisfied
    running,  \* the copy in processing/
    failed,   \* the copies in failed/: deps_satisfied and dependency_failed
    done,     \* the copies in done/: what is known of their pull requests
    sweep,    \* the daemon's dependency sweep
    retry,    \* a `junco retry`
    left      \* the instance; what is left of its retries and events

files == <<inbox, running, failed, done>>
vars == <<files, sweep, retry, left>>

----------------------------------------------------------------------------
(* Every copy of a ticket beyond the first costs a bounded event, or is the *)
(* one a retry is about to unlink: these many places always suffice.        *)
MaxEvents == CHOOSE n \in {i.events : i \in Instances} : \A i \in Instances : i.events <= n
Places == 1 .. MaxEvents + 2

\* "queued": pr_queued; the other PR states are GitHub's for the recorded URL.
PrRecords == {"none", "queued", "open", "merged", "closed"}

Edge == Tickets \X Tickets
IdleSweep == [pc |-> "idle"]
IdleRetry == [pc |-> "idle"]

Init ==
    /\ left \in Instances
    /\ \E queued \in SUBSET left.tickets :
          inbox = [t \in Tickets |-> IF t \in queued THEN [sat |-> {}] ELSE NoFile]
    /\ running = [t \in Tickets |-> NoFile]
    /\ failed = [t \in Tickets |-> [i \in Places |-> NoFile]]
    /\ done = [t \in Tickets |-> <<>>]
    /\ sweep = IdleSweep
    /\ retry = IdleRetry

Count == left.events > 0 /\ left' = [left EXCEPT !.events = @ - 1]

FailedFiles == {f \in Tickets \X Places : failed[f[1]][f[2]] # NoFile}
FreePlace(t) == CHOOSE i \in Places : /\ failed[t][i] = NoFile
                                      /\ \A j \in 1 .. i - 1 : failed[t][j] # NoFile

\* The file x of ticket t arrives in failed/, under a name of its own.
Fail(t, x, dep) ==
    failed' = [failed EXCEPT ![t][FreePlace(t)] = [sat |-> x.sat, dep |-> dep]]

----------------------------------------------------------------------------
(* The queue, as far as dependencies see it. Bound: at most one queued and *)
(* one running copy of a ticket; what several of one name do to each other *)
(* is the subject of TicketQueue.                                          *)

Submit(t) ==
    /\ t \in left.tickets /\ inbox[t] = NoFile /\ Count
    /\ inbox' = [inbox EXCEPT ![t] = [sat |-> {}]]
    /\ UNCHANGED <<running, failed, done, sweep, retry>>

Remove(t) ==
    /\ inbox[t] # NoFile
    /\ inbox' = [inbox EXCEPT ![t] = NoFile]
    /\ UNCHANGED <<running, failed, done, sweep, retry, left>>

\* claimNextTask's dependency gate.
Unblocked(t) == inbox[t] # NoFile /\ DependsOn[t] \subseteq inbox[t].sat

Claim(t) ==
    /\ Unblocked(t) /\ running[t] = NoFile
    /\ running' = [running EXCEPT ![t] = inbox[t]]
    /\ inbox' = [inbox EXCEPT ![t] = NoFile]
    /\ UNCHANGED <<failed, done, sweep, retry, left>>

\* A session finalizes done: without a pull request, with one, or offline.
Succeed(t) ==
    /\ running[t] # NoFile
    /\ \E pr \in {"none"} \cup (IF t \in Asks THEN {} ELSE {"queued", "open"}) :
          done' = [done EXCEPT ![t] = Append(@, pr)]
    /\ running' = [running EXCEPT ![t] = NoFile]
    /\ UNCHANGED <<inbox, failed, sweep, retry, left>>

FailTerminally(t) ==
    /\ running[t] # NoFile
    /\ Fail(t, running[t], NoDep)
    /\ running' = [running EXCEPT ![t] = NoFile]
    /\ UNCHANGED <<inbox, done, sweep, retry, left>>

\* A transient failure, or the recovery of an orphan; stamps stay in the file.
Requeue(t) ==
    /\ running[t] # NoFile /\ inbox[t] = NoFile
    /\ inbox' = [inbox EXCEPT ![t] = running[t]]
    /\ running' = [running EXCEPT ![t] = NoFile]
    /\ UNCHANGED <<failed, done, sweep, retry, left>>

----------------------------------------------------------------------------
(* What happens to a recorded pull request.                                *)

SetPr(t, i, from, to) ==
    /\ i \in DOMAIN done[t] /\ done[t][i] = from
    /\ done' = [done EXCEPT ![t][i] = to]
    /\ UNCHANGED <<inbox, running, failed, sweep, retry, left>>

\* The outbox opens the queued pull request, or gives it up and drops the marker.
Flush(t, i) == SetPr(t, i, "queued", "open") \/ SetPr(t, i, "queued", "none")

Merge(t, i) == SetPr(t, i, "open", "merged")
Close(t, i) == SetPr(t, i, "open", "closed")
Reopen(t, i) == SetPr(t, i, "closed", "open")

----------------------------------------------------------------------------
(* The sweep.                                                              *)

TicketState(t) ==
    IF done[t] # <<>> THEN "done"
    ELSE IF running[t] # NoFile THEN "processing"
    ELSE IF inbox[t] # NoFile THEN "inbox"
    ELSE IF \E i \in Places : failed[t][i] # NoFile THEN "failed" ELSE "absent"

\* readWaiting: the unconfirmed edges of the queued tickets.
Waiting == {e \in Edge : /\ inbox[e[1]] # NoFile
                         /\ e[2] \in DependsOn[e[1]] \ inbox[e[1]].sat}

\* edge and rec: what a probe, a stamp or a cascade under way is about.
Pass(cache) == [pc |-> "edge", todo |-> Waiting, cache |-> cache, changed |-> FALSE]
At(pc, e, i) == [pc |-> pc, todo |-> sweep.todo \ {e}, cache |-> sweep.cache,
                 changed |-> sweep.changed, edge |-> e, rec |-> i]
NextEdge(todo, cache, changed) ==
    [pc |-> "edge", todo |-> todo, cache |-> cache, changed |-> changed]

SweepBegin ==
    /\ sweep.pc = "idle" /\ Waiting # {}
    /\ sweep' = Pass({})
    /\ UNCHANGED <<files, retry, left>>

\* The edge e is left as it is, for now.
Wait(e) == NextEdge(sweep.todo \ {e}, sweep.cache, sweep.changed)

\* Mutant: a queued pull request counts as none.
JudgeQueuedAsNone(e, i, state) ==
    CASE state \in {"none", "queued", "merged"} -> At("stamp", e, i)
      [] state = "closed" -> At("cascade", e, i)
      [] OTHER -> Wait(e)

\* The verdict on edge e, whose dependency left the done record i.
Judge(e, i, state) ==
    CASE state \in {"none", "merged"} -> At("stamp", e, i)
      [] state = "closed" -> At("cascade", e, i)
      [] OTHER -> Wait(e)

\* A recorded pull request is asked for once per sweep.
JudgeDone(e, i) ==
    LET seen == {c \in sweep.cache : c.pr = <<e[2], i>>}
        asks == done[e[2]][i] \in {"open", "merged", "closed"}
    IN  IF asks /\ seen = {} THEN sweep' = At("probe", e, i)
        ELSE IF asks THEN \E c \in seen : sweep' = Judge(e, i, c.state)
        ELSE sweep' = Judge(e, i, done[e[2]][i])

\* Several done records: whichever the directory lists first.
SweepEdge ==
    /\ sweep.pc = "edge"
    /\ \E e \in sweep.todo :
          CASE TicketState(e[2]) = "done" -> \E i \in DOMAIN done[e[2]] : JudgeDone(e, i)
            [] TicketState(e[2]) = "failed" -> sweep' = At("cascade", e, 1)
            [] OTHER -> sweep' = Wait(e)
    /\ UNCHANGED <<files, retry, left>>

\* The probe's await ends; that GitHub was unreachable is remembered as well.
SweepAnswer(reached) ==
    /\ sweep.pc = "probe"
    /\ LET d == sweep.edge[2]
           state == IF reached THEN done[d][sweep.rec] ELSE "unknown"
           known == sweep.cache \cup {[pr |-> <<d, sweep.rec>>, state |-> state]}
       IN  sweep' = [Judge(sweep.edge, sweep.rec, state) EXCEPT !.cache = known]
    /\ UNCHANGED <<files, retry, left>>

\* Mutant: the stamp replaces the list of stamps.
StampedOnly(sat, d) == {d}

\* Mutant: the confirmed entry does not survive the rewrite.
StampedNot(sat, d) == sat

\* stampSatisfied: the list of stamps in the file, extended and read back.
Stamped(sat, d) == sat \cup {d}

SweepStamp ==
    /\ sweep.pc = "stamp" /\ inbox[sweep.edge[1]] # NoFile
    /\ inbox' = [inbox EXCEPT ![sweep.edge[1]].sat = Stamped(@, sweep.edge[2])]
    /\ sweep' = NextEdge(sweep.todo, sweep.cache, TRUE)
    /\ UNCHANGED <<running, failed, done, retry, left>>

\* cascadeFail: no other edge of the parked ticket is looked at.
SweepCascade ==
    /\ sweep.pc = "cascade" /\ inbox[sweep.edge[1]] # NoFile
    /\ LET t == sweep.edge[1]
       IN  /\ Fail(t, inbox[t], sweep.edge[2])
           /\ inbox' = [inbox EXCEPT ![t] = NoFile]
           /\ sweep' = NextEdge({e \in sweep.todo : e[1] # t}, sweep.cache, TRUE)
    /\ UNCHANGED <<running, done, retry, left>>

\* The ticket was removed or moved under the sweep: the read throws out of it.
SweepThrows ==
    /\ sweep.pc \in {"stamp", "cascade"} /\ inbox[sweep.edge[1]] = NoFile
    /\ sweep' = IdleSweep
    /\ UNCHANGED <<files, retry, left>>

\* Passes repeat, with the same probe results, until one changes nothing.
SweepPassEnds ==
    /\ sweep.pc = "edge" /\ sweep.todo = {}
    /\ sweep' = IF sweep.changed THEN Pass(sweep.cache) ELSE IdleSweep
    /\ UNCHANGED <<files, retry, left>>

SweepKilled ==
    /\ sweep.pc # "idle" /\ Count
    /\ sweep' = IdleSweep
    /\ UNCHANGED <<files, retry>>

Sweep == \/ SweepBegin \/ SweepEdge \/ SweepStamp \/ SweepCascade \/ SweepThrows
         \/ SweepPassEnds \/ \E reached \in BOOLEAN : SweepAnswer(reached)

----------------------------------------------------------------------------
(* `junco retry`: first the named tickets, then in passes those parked     *)
(* because of one that was retried.                                        *)

Retrying == [
    phase : {"named", "parked"},
    todo : SUBSET (Tickets \X Places),    \* entries of this listing still to visit
    copied : SUBSET (Tickets \X Places),  \* copied to inbox/, to be unlinked next
    ids : SUBSET Tickets,                 \* put back so far
    refused : SUBSET Tickets,             \* history: already queued, left in failed/
    grew : BOOLEAN,                       \* this pass put one back
    before : SUBSET (Tickets \X (Tickets \cup {NoDep}))]  \* history: failed/ at the start

RetryBegin ==
    /\ retry = IdleRetry /\ left.retries > 0
    /\ \E targets \in {{f} : f \in FailedFiles} \cup ({FailedFiles} \ {{}}) :
          retry' = [phase |-> "named", todo |-> targets, copied |-> {}, ids |-> {},
                    refused |-> {}, grew |-> FALSE,
                    before |-> {<<f[1], failed[f[1]][f[2]].dep>> : f \in FailedFiles}]
    /\ left' = [left EXCEPT !.retries = @ - 1]
    /\ UNCHANGED <<files, sweep>>

\* The resurrection leaves alone what was not parked because of a retried id.
Concerns(f) == retry.phase = "parked" => failed[f[1]][f[2]].dep \in retry.ids

RetryEntry ==
    /\ retry # IdleRetry /\ retry.copied = {}
    /\ \E f \in retry.todo :
          \/ /\ ~Concerns(f)
             /\ retry' = [retry EXCEPT !.todo = @ \ {f}]
             /\ UNCHANGED inbox
          \/ /\ Concerns(f) /\ inbox[f[1]] # NoFile
             /\ retry' = [retry EXCEPT !.todo = @ \ {f}, !.refused = @ \cup {f[1]}]
             /\ UNCHANGED inbox
          \/ /\ Concerns(f) /\ inbox[f[1]] = NoFile
             /\ inbox' = [inbox EXCEPT ![f[1]] = [sat |-> failed[f[1]][f[2]].sat]]
             /\ retry' = [retry EXCEPT !.todo = @ \ {f}, !.copied = {f}]
    /\ UNCHANGED <<running, failed, done, sweep, left>>

RetryUnlinks ==
    /\ retry # IdleRetry
    /\ \E f \in retry.copied :
          /\ failed' = [failed EXCEPT ![f[1]][f[2]] = NoFile]
          /\ retry' = [retry EXCEPT !.copied = {}, !.ids = @ \cup {f[1]}, !.grew = TRUE]
    /\ UNCHANGED <<inbox, running, done, sweep, left>>

\* Mutant: one pass over the parked tickets.
RetryGoesOnOnce == retry.grew /\ retry.phase = "named"

RetryGoesOn == retry.grew

RetryPassEnds ==
    /\ retry # IdleRetry /\ retry.todo = {} /\ retry.copied = {}
    /\ retry' = IF RetryGoesOn
                  THEN [retry EXCEPT !.phase = "parked", !.todo = FailedFiles, !.grew = FALSE]
                  ELSE IdleRetry
    /\ UNCHANGED <<files, sweep, left>>

RetryKilled ==
    /\ retry # IdleRetry /\ Count
    /\ retry' = IdleRetry
    /\ UNCHANGED <<files, sweep>>

Retry == RetryEntry \/ RetryUnlinks \/ RetryPassEnds

----------------------------------------------------------------------------
GitHub == \E t \in Tickets, i \in Places :
             Flush(t, i) \/ Merge(t, i) \/ Close(t, i) \/ Reopen(t, i)

Session(t) == Succeed(t) \/ FailTerminally(t) \/ Requeue(t)

Next ==
    \/ \E t \in Tickets : Submit(t) \/ Remove(t) \/ Claim(t) \/ Session(t)
    \/ GitHub
    \/ Sweep \/ SweepKilled
    \/ RetryBegin \/ Retry \/ RetryKilled

Spec == Init /\ [][Next]_vars

(* The daemon polls and sweeps on, sessions end, a retry that was started  *)
(* goes on, and GitHub answers infinitely many of the probes. Nobody has   *)
(* to submit, merge, close or flush anything.                              *)
Fairness ==
    /\ WF_vars(Sweep) /\ SF_vars(SweepAnswer(TRUE))
    /\ WF_vars(Retry)
    /\ \A t \in Tickets : WF_vars(Claim(t)) /\ WF_vars(Session(t))

FairSpec == Spec /\ Fairness

----------------------------------------------------------------------------
File == [sat : SUBSET Tickets]
MaybeFile == File \cup {NoFile}
Cached == [pr : Tickets \X Places, state : {"open", "merged", "closed", "unknown"}]
Edges == [pc : {"edge"}, todo : SUBSET Edge, cache : SUBSET Cached, changed : BOOLEAN]
AtEdge == [pc : {"probe", "stamp", "cascade"}, todo : SUBSET Edge, cache : SUBSET Cached,
           changed : BOOLEAN, edge : Edge, rec : Places]

\* Types; in particular failed/ and done/ never outgrow Places.
TypeOK ==
    /\ inbox \in [Tickets -> MaybeFile]
    /\ running \in [Tickets -> MaybeFile]
    /\ \A t \in Tickets, i \in Places :
          failed[t][i] \in [sat : SUBSET Tickets, dep : Tickets \cup {NoDep}] \cup {NoFile}
    /\ \A t \in Tickets : done[t] \in Seq(PrRecords) /\ DOMAIN done[t] \subseteq Places
    /\ sweep = IdleSweep \/ sweep \in Edges \/ sweep \in AtEdge
    /\ retry = IdleRetry \/ retry \in Retrying
    /\ left \in [tickets : SUBSET Tickets, retries : Nat, events : 0 .. MaxEvents]

(* A session runs only on what its dependencies delivered: each of them has *)
(* a done record that produced no pull request or whose pull request was    *)
(* merged - through requeues, retries, parked copies and two copies of one  *)
(* ticket (claimNextTask's gate reads stamps, the sweep writes them).       *)
StartsOnMerged ==
    \A t \in Tickets : running[t] # NoFile =>
        \A d \in DependsOn[t] : \E i \in DOMAIN done[d] : done[d][i] \in {"none", "merged"}

(* While a ticket waits its stamps add up, also when several edges are      *)
(* confirmed in one pass from one snapshot (stampSatisfied re-reads).       *)
StampsAccumulate ==
    [][\A t \in Tickets : inbox[t] # NoFile /\ inbox'[t] # NoFile
                             => inbox[t].sat \subseteq inbox'[t].sat]_vars

(* A retry that comes to its end has put back, transitively, every ticket   *)
(* that was parked when it began because of one it put back, unless a copy  *)
(* was queued already (retryCmd's resurrection loop).                       *)
RetryReleasesParked ==
    [][retry # IdleRetry /\ retry' = IdleRetry /\ left' = left
         => \A p \in retry.before : p[2] \in retry.ids
                                       => p[1] \in retry.ids \cup retry.refused]_vars

\* Every edge of t could be decided if the sweep looked now.
Decidable(t) ==
    \A d \in DependsOn[t] :
        \/ TicketState(d) = "failed"
        \/ /\ done[d] # <<>>
           /\ \A i \in DOMAIN done[d] : done[d][i] \in {"none", "merged", "closed"}

(* A ticket whose dependencies have all been decided does not wait for      *)
(* ever: the sweep stamps or parks it, what is stamped is claimed, and what *)
(* was parked comes back with the retry of what parked it.                  *)
EventuallyReleased ==
    /\ \A t \in Tickets : ~<>[](inbox[t] # NoFile /\ Decidable(t))
    /\ RetryReleasesParked
=============================================================================
