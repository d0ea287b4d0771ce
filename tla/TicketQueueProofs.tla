------------------------- MODULE TicketQueueProofs -------------------------
(***************************************************************************)
(* Theorems about TicketQueue, for every value of its constants: types and *)
(* files, who owns a claimed file, and that the queue of one daemon        *)
(* implements the life cycle of a ticket.                                  *)
(***************************************************************************)
EXTENDS TicketQueue, TLAPS

----------------------------------------------------------------------------
(* Lemmas about the operators.                                             *)

LEMMA EarlierType == ASSUME NEW a \in Nat, NEW b \in Nat
                     PROVE  Earlier(a, b) \in 0 .. b
  BY DEF Earlier

\* The waiting time a requeue writes stays within the clock's bound.
LEMMA ChargeType ==
    ASSUME TypeOK, NEW u \in Tickets, NEW seen \in 0 .. MaxRetries,
           seen < MaxRetries, ChargeRetry(u, seen)
    PROVE  retry' \in [Tickets -> 0 .. MaxRetries] /\ nb' \in [Tickets -> 0 .. MaxTime]
<1>1. seen \in Nat /\ seen + 1 \in 0 .. MaxRetries /\ now \in Nat
  BY QueueAssumption DEF TypeOK
<1> DEFINE due == now + Backoff * (seen + 1)
<1>2. due \in Nat
  BY <1>1, QueueAssumption
<1> HIDE DEF due
<1>3. Earlier(due, MaxTime) \in 0 .. MaxTime
  BY <1>2, EarlierType, QueueAssumption
<1> QED
  BY <1>1, <1>3 DEF TypeOK, ChargeRetry, due

LEMMA CandidatesType == TypeOK => Candidates \subseteq Candidate
  BY DEF TypeOK, Candidates, Eligible, Candidate

LEMMA ClaimableType == ASSUME NEW cands \in SUBSET Candidate
                       PROVE  Claimable(cands) \subseteq Candidate
  BY DEF Claimable

LEMMA PathsTyped == TypeOK => ProcessingPaths \subseteq Path
  BY DEF TypeOK, ProcessingPaths, Path

LEMMA BackNamesType == ASSUME NEW n \in AllNames
                       PROVE  BackNames(n) \subseteq AllNames
  BY DEF BackNames, AllNames

LEMMA LookType ==
    ASSUME TypeOK, NEW c \in Claimers, NEW e \in Executors,
           NEW cands \in SUBSET Candidate, LookFirst(c, e, cands)
    PROVE  /\ job' \in [Executors -> Job \cup {NoJob}]
           /\ snap' \in [Claimers -> SUBSET Candidate]
<1>1. PICK x \in cands :
        /\ job' = [job EXCEPT ![e] =
                     [pc |-> "claim", ticket |-> x.ticket, path |-> <<now, x.name>>,
                      retry |-> x.retry, dst |-> x.name]]
        /\ snap' = [snap EXCEPT ![c] =
                      {y \in snap[c] : Rank[y.ticket] <= Rank[x.ticket]}]
  BY DEF LookFirst
<1>2. x \in Candidate
  OBVIOUS
<1>3. [pc |-> "claim", ticket |-> x.ticket, path |-> <<now, x.name>>,
       retry |-> x.retry, dst |-> x.name] \in Job
  BY <1>2 DEF TypeOK, Job, Path, Candidate
<1>4. {y \in snap[c] : Rank[y.ticket] <= Rank[x.ticket]} \in SUBSET Candidate
  BY DEF TypeOK
<1> QED
  BY <1>1, <1>3, <1>4 DEF TypeOK

LEMMA ClaimType ==
    ASSUME TypeOK, NEW e \in Executors, ClaimEnds(e) PROVE TypeOK'
<1>0. job[e] \in Job /\ job[e].pc = "claim"
  BY DEF TypeOK, ClaimEnds, ClaimRename, ClaimLost, NoJob
<1>1. CASE ClaimRename(e)
  <2>1. PICK u \in InboxAt(job[e].path[2]) :
          /\ dir' = [t \in Tickets |-> IF t = u THEN "processing"
                                       ELSE IF t \in ClaimedAt(job[e].path) THEN "clobbered"
                                       ELSE dir[t]]
          /\ stamp' = [stamp EXCEPT ![u] = job[e].path[1]]
          /\ job' = [job EXCEPT ![e].pc = "running"]
          /\ started' = [started EXCEPT ![job[e].ticket] = @ + 1]
    BY <1>1 DEF ClaimRename, ClaimFile
  <2>2. dir' \in [Tickets -> Dirs]
    BY <2>1 DEF TypeOK, Dirs
  <2>3. stamp' \in [Tickets -> 0 .. MaxTime]
    BY <1>0, <2>1 DEF TypeOK, Job, Path
  <2>4. job' \in [Executors -> Job \cup {NoJob}]
    <3>1. [job[e] EXCEPT !.pc = "running"] \in Job
      BY <1>0 DEF Job, Working
    <3> QED
      BY <2>1, <3>1 DEF TypeOK
  <2>5. started' \in [Tickets -> Nat]
    BY <1>0, <2>1 DEF TypeOK, Job
  <2>6. snap' \in [Claimers -> SUBSET Candidate]
    BY <1>1 DEF TypeOK, ClaimRename
  <2>7. daemon' \in {"down", "recovering", "polling", "claiming", "draining"}
    BY <1>1 DEF TypeOK, ClaimRename
  <2> QED
    BY <1>1, <2>2, <2>3, <2>4, <2>5, <2>6, <2>7 DEF TypeOK, ClaimRename
<1>2. CASE ClaimLost(e)
  <2>1. snap' \in [Claimers -> SUBSET Candidate]
    BY <1>2 DEF TypeOK, ClaimLost
  <2> QED
    BY <1>2, <2>1 DEF TypeOK, ClaimLost, fileVars
<1> QED
  BY <1>1, <1>2 DEF ClaimEnds

LEMMA RenameType ==
    ASSUME TypeOK, NEW e \in Executors, NEW n \in AllNames,
           job[e] # NoJob, RenameToInbox(e, n)
    PROVE  /\ dir' \in [Tickets -> Dirs] /\ name' \in [Tickets -> AllNames]
           /\ job' \in [Executors -> Job \cup {NoJob}]
  BY DEF TypeOK, RenameToInbox, AfterMove, Dirs, Job, NoJob

----------------------------------------------------------------------------
(* Type correctness.                                                       *)

LEMMA TypeInit == Init => TypeOK
<1> SUFFICES ASSUME Init PROVE TypeOK
  OBVIOUS
<1> USE QueueAssumption DEF Init
<1>1. 0 \in 0 .. MaxTime /\ 0 \in 0 .. MaxRetries /\ 0 \in 0 .. MaxHalts /\ 0 \in 0 .. MaxKept
  OBVIOUS
<1>2. name \in [Tickets -> AllNames]
  BY DEF AllNames
<1>3. dir \in [Tickets -> Dirs]
  BY DEF Dirs
<1>4. job \in [Executors -> Job \cup {NoJob}]
  OBVIOUS
<1> QED
  BY <1>1, <1>2, <1>3, <1>4 DEF TypeOK

LEMMA TypeClaim ==
    ASSUME TypeOK, Operator \/ Tick \/ PollBegin \/ Claim \/ Poke
    PROVE  TypeOK'
<1> USE QueueAssumption
<1>1. ASSUME NEW t \in Tickets, Submit(t) \/ Remove(t) PROVE TypeOK'
  BY <1>1 DEF TypeOK, Submit, Remove, Dirs
<1>2. CASE Tick
  BY <1>2 DEF TypeOK, Tick, fileVars
<1>3. CASE PollBegin
  BY <1>3, CandidatesType DEF TypeOK, PollBegin, fileVars
<1>4. ASSUME NEW ready \in BOOLEAN, PollLook(ready) PROVE TypeOK'
  <2>0. Main \in Claimers
    BY DEF Claimers
  <2>1. DaemonClaimable(ready) \in SUBSET Candidate
    BY <2>0, ClaimableType DEF TypeOK, DaemonClaimable
  <2>2. PICK s \in Slots : LookFirst(Main, s, DaemonClaimable(ready))
    BY <1>4 DEF PollLook
  <2>3. s \in Executors
    BY DEF Executors
  <2> QED
    BY <1>4, <2>0, <2>1, <2>2, <2>3, LookType DEF TypeOK, PollLook, fileVars
<1>5. ASSUME NEW ready \in BOOLEAN, PollNothing(ready) PROVE TypeOK'
  BY <1>5 DEF TypeOK, PollNothing, fileVars
<1>6. ASSUME NEW p \in Pokes, PokeLook(p) PROVE TypeOK'
  <2>1. p \in Executors /\ p \in Claimers
    BY DEF Executors, Claimers
  <2>2. Claimable(snap[p]) \in SUBSET Candidate
    BY <2>1, ClaimableType DEF TypeOK
  <2> QED
    BY <1>6, <2>1, <2>2, LookType DEF TypeOK, PokeLook, fileVars
<1>11. ASSUME NEW p \in Pokes, PokeBegin(p) \/ PokeNothing(p) PROVE TypeOK'
  BY <1>11, CandidatesType DEF TypeOK, PokeBegin, PokeNothing, fileVars
<1>7. ASSUME NEW p \in Pokes, PokeCrash(p) PROVE TypeOK'
  <2>1. halts' \in 0 .. MaxHalts
    BY <1>7 DEF TypeOK, PokeCrash
  <2>2. job' \in [Executors -> Job \cup {NoJob}]
    BY <1>7 DEF TypeOK, PokeCrash
  <2> QED
    BY <1>7, <2>1, <2>2 DEF TypeOK, PokeCrash, fileVars
<1>8. CASE Operator
  BY <1>1, <1>8 DEF Operator
<1>9. CASE Claim
  BY <1>4, <1>5, <1>9 DEF Claim
<1>10. CASE Poke
  BY <1>6, <1>7, <1>10, <1>11 DEF Poke
<1> QED
  BY <1>2, <1>3, <1>8, <1>9, <1>10

LEMMA TypeExecute ==
    ASSUME TypeOK, NEW e \in Executors, SessionEnds(e) \/ Moves(e)
    PROVE  TypeOK'
<1> USE QueueAssumption
<1>0. job[e] \in Job \cup {NoJob}
  BY DEF TypeOK
<1>1. CASE Vanished(e)
  BY <1>1 DEF TypeOK, Vanished, fileVars
<1>2. CASE FinalizeWrite(e)
  BY <1>2 DEF TypeOK, FinalizeWrite, Goto, fileVars, Job, Working, NoJob
<1>3. CASE RequeueWrite(e)
  <2>1. job[e] \in Job
    BY <1>0, <1>3 DEF RequeueWrite, NoJob
  <2>2. job' \in [Executors -> Job \cup {NoJob}]
    BY <1>3, <2>1 DEF TypeOK, RequeueWrite, Goto, Job, Working
  <2>3. PICK u \in ClaimedAt(job[e].path) \ Malformed : ChargeRetry(u, job[e].retry)
    BY <1>3 DEF RequeueWrite
  <2>4. u \in Tickets /\ job[e].retry \in 0 .. MaxRetries /\ job[e].retry < MaxRetries
    BY <1>3, <2>1, <2>3 DEF RequeueWrite, ClaimedAt, Job
  <2> QED
    BY <1>3, <2>2, <2>3, <2>4, ChargeType DEF TypeOK, RequeueWrite
<1>4. CASE KeepBudgetWrite(e)
  <2>1. PICK u \in ClaimedAt(job[e].path),
             until \in now .. Earlier(now + Backoff, MaxTime) :
          /\ \A v \in Tickets : kept[v] < MaxKept
          /\ kept' = [kept EXCEPT ![u] = @ + 1]
          /\ nb' = IF u \in Malformed THEN nb ELSE [nb EXCEPT ![u] = until]
    BY <1>4 DEF KeepBudgetWrite
  <2>2. u \in Tickets
    BY DEF ClaimedAt
  <2>3. until \in 0 .. MaxTime
    <3>1. now \in Nat /\ now + Backoff \in Nat
      BY DEF TypeOK
    <3>2. Earlier(now + Backoff, MaxTime) \in 0 .. MaxTime
      BY <3>1, EarlierType
    <3> QED
      BY <3>1, <3>2
  <2>4. job' \in [Executors -> Job \cup {NoJob}]
    BY <1>0, <1>4 DEF TypeOK, KeepBudgetWrite, Goto, Job, Working, NoJob
  <2>5. kept' \in [Tickets -> 0 .. MaxKept] /\ nb' \in [Tickets -> 0 .. MaxTime]
    BY <2>1, <2>2, <2>3 DEF TypeOK
  <2> QED
    BY <1>4, <2>4, <2>5 DEF TypeOK, KeepBudgetWrite
<1>5. CASE MoveBack(e)
  <2>1. PICK n \in BackNames(job[e].path[2]) : RenameToInbox(e, n)
    BY <1>5 DEF MoveBack
  <2>2. job[e] \in Job
    BY <1>0, <1>5 DEF MoveBack, NoJob
  <2>3. n \in AllNames /\ job[e] # NoJob
    BY <1>5, <2>2, BackNamesType DEF Job, Path, MoveBack, NoJob
  <2> QED
    BY <1>5, <2>1, <2>3, RenameType DEF TypeOK, MoveBack
<1>6. CASE PickName(e)
  <2>1. job[e] \in Job
    BY <1>0, <1>6 DEF PickName, NoJob
  <2>2. BackNames(job[e].path[2]) \subseteq AllNames
    BY <2>1, BackNamesType DEF Job, Path
  <2>3. job' \in [Executors -> Job \cup {NoJob}]
    <3>1. PICK n \in BackNames(job[e].path[2]) :
            job' = [job EXCEPT ![e].pc = "rename", ![e].dst = n]
      BY <1>6 DEF PickName
    <3>2. job' = [job EXCEPT ![e] = [job[e] EXCEPT !.pc = "rename", !.dst = n]]
      BY <3>1, <2>1 DEF TypeOK
    <3>3. [job[e] EXCEPT !.pc = "rename", !.dst = n] \in Job
      BY <2>1, <2>2 DEF Job, Working
    <3> QED
      BY <3>2, <3>3 DEF TypeOK
  <2> QED
    BY <1>6, <2>3 DEF TypeOK, PickName, fileVars
<1>7. CASE RenameBack(e)
  <2>1. job[e] \in Job /\ job[e] # NoJob
    BY <1>0, <1>7 DEF RenameBack, NoJob
  <2>2. job[e].dst \in AllNames
    BY <2>1 DEF Job
  <2> QED
    BY <1>7, <2>1, <2>2, RenameType DEF TypeOK, RenameBack
<1>8. CASE MoveTerminal(e)
  <2>1. job[e] \in Job
    BY <1>0, <1>8 DEF MoveTerminal, NoJob
  <2>2. job' \in [Executors -> Job \cup {NoJob}]
    BY <1>8, <2>1 DEF TypeOK, MoveTerminal, AfterMove, Job
  <2>3. dir' \in [Tickets -> Dirs]
    BY <1>8 DEF TypeOK, MoveTerminal, Dirs
  <2> QED
    BY <1>8, <2>2, <2>3 DEF TypeOK, MoveTerminal
<1>9. CASE Settle(e)
  BY <1>9 DEF TypeOK, Settle, fileVars
<1> QED
  BY <1>1, <1>2, <1>3, <1>4, <1>5, <1>6, <1>7, <1>8, <1>9 DEF SessionEnds, Moves

LEMMA TypeLifecycle == ASSUME TypeOK, Lifecycle PROVE TypeOK'
<1> USE QueueAssumption
<1>1. CASE Start
  BY <1>1, PathsTyped DEF TypeOK, Start, fileVars
<1>2. ASSUME NEW p \in orphans, RecoverWrite(p) PROVE TypeOK'
  <2>1. p \in Path /\ Main \in Executors
    BY DEF TypeOK, Executors
  <2>2. orphans' \subseteq Path
    BY <1>2 DEF TypeOK, RecoverWrite
  <2>3. CASE ClaimedAt(p) = {}
    BY <1>2, <2>2, <2>3 DEF TypeOK, RecoverWrite
  <2>4. CASE ClaimedAt(p) # {}
    <3> DEFINE requeued(u) == retry[u] < MaxRetries /\ u \notin Malformed
    <3>1. PICK u \in ClaimedAt(p) :
            /\ IF requeued(u) THEN ChargeRetry(u, retry[u]) ELSE UNCHANGED <<retry, nb>>
            /\ job' = [job EXCEPT ![Main] =
                         [pc |-> IF requeued(u) THEN "moveBack" ELSE "toFailed",
                          ticket |-> u, path |-> p, retry |-> retry[u], dst |-> p[2]]]
      BY <1>2, <2>4 DEF RecoverWrite
    <3>2. u \in Tickets /\ retry[u] \in 0 .. MaxRetries
      BY DEF ClaimedAt, TypeOK
    <3>3. retry' \in [Tickets -> 0 .. MaxRetries] /\ nb' \in [Tickets -> 0 .. MaxTime]
      BY <3>1, <3>2, ChargeType DEF TypeOK
    <3>4. job' \in [Executors -> Job \cup {NoJob}]
      BY <2>1, <3>1, <3>2 DEF TypeOK, Job, Working, Path
    <3> QED
      BY <1>2, <2>2, <3>3, <3>4 DEF TypeOK, RecoverWrite
  <2> QED
    BY <2>3, <2>4
<1>3. CASE Online
  BY <1>3 DEF TypeOK, Online, fileVars
<1>4. CASE RequestStop
  BY <1>4 DEF TypeOK, RequestStop, fileVars
<1>5. CASE BeginDrain
  BY <1>5 DEF TypeOK, BeginDrain, fileVars
<1>6. CASE Exit
  BY <1>6 DEF TypeOK, Exit, fileVars
<1>7. CASE Crash
  <2>1. halts' \in 0 .. MaxHalts
    BY <1>7 DEF TypeOK, Crash
  <2>2. job' \in [Executors -> Job \cup {NoJob}]
    BY <1>7 DEF TypeOK, Crash
  <2> QED
    BY <1>7, <2>1, <2>2 DEF TypeOK, Crash, fileVars
<1> QED
  BY <1>1, <1>2, <1>3, <1>4, <1>5, <1>6, <1>7 DEF Lifecycle, Recover

LEMMA TypeNext == TypeOK /\ [Next]_vars => TypeOK'
<1> SUFFICES ASSUME TypeOK, [Next]_vars PROVE TypeOK'
  OBVIOUS
<1>1. CASE UNCHANGED vars
  BY <1>1 DEF TypeOK, vars
<1> QED
  BY <1>1, TypeClaim, ClaimType, TypeExecute, TypeLifecycle DEF Next, Execute

(* In every reachable state of the queue each ticket is in one directory   *)
(* under one name, its retry count is within worker.maxTransientRetries,   *)
(* and every executor is idle or at one of its steps on a claimed path.    *)
THEOREM TypeCorrect == Spec => []TypeOK
  BY TypeInit, TypeNext, PTL DEF Spec

----------------------------------------------------------------------------
(* Nothing is overwritten. A step that changes files is a submission into  *)
(* a free name, a removal, a claim to a free path, a rename to a free      *)
(* inbox name, or a move to a terminal directory.                          *)

\* A ticket is submitted under the name it still has.
FreshName == \A t \in Tickets : dir[t] = "none" => name[t] = NameOf[t]

\* With an atomic move back no name is picked ahead of its rename.
NoPickedName == AtomicMoveBack => \A e \in Executors : job[e].pc # "rename"

(* At most one executor is between the look and the rename of a claim, and *)
(* its destination is still free: the claims of several processes do not   *)
(* overlap, or one daemon is the only process that claims.                 *)
SerialLooks == SerialClaims \/ Pokes = {}

Looks(e) == job[e].pc = "claim"
LookInv ==
    /\ \A e, f \in Executors : Looks(e) /\ Looks(f) => e = f
    /\ \A e \in Executors : Looks(e) => ClaimedAt(job[e].path) = {}
    /\ ~Looks(Main)

FileInv == TypeOK /\ NothingOverwritten /\ FreshName /\ NoPickedName /\ LookInv

FilesSame == UNCHANGED <<dir, name, stamp>>

LEMMA SameFiles ==
    ASSUME NothingOverwritten, FreshName, FilesSame
    PROVE  NothingOverwritten' /\ FreshName'
  BY DEF NothingOverwritten, FreshName, FilesSame

LEMMA BackNamesFree == \A n : \A m \in BackNames(n) : InboxAt(m) = {}
  BY DEF BackNames

LEMMA ClaimFiles ==
    ASSUME TypeOK, NothingOverwritten, FreshName, LookInv,
           NEW e \in Executors, ClaimRename(e)
    PROVE  NothingOverwritten' /\ FreshName'
<1>0. Looks(e) /\ job[e] \in Job
  BY DEF ClaimRename, Looks, TypeOK, NoJob
<1>1. PICK m, n : /\ job[e].path = <<m, n>>
                  /\ job[e].path[1] = m /\ job[e].path[2] = n
  BY <1>0 DEF Looks, Job, NoJob, Path
<1>2. ClaimedAt(<<m, n>>) = {}
  BY <1>0, <1>1 DEF LookInv
<1>3. PICK u \in InboxAt(n) :
        /\ dir' = [t \in Tickets |-> IF t = u THEN "processing"
                                     ELSE IF t \in ClaimedAt(<<m, n>>) THEN "clobbered"
                                     ELSE dir[t]]
        /\ stamp' = [stamp EXCEPT ![u] = m]
  <2>1. ClaimFile(e)
    BY DEF ClaimRename
  <2>2. PICK u \in InboxAt(job[e].path[2]) :
          /\ dir' = [t \in Tickets |-> IF t = u THEN "processing"
                                       ELSE IF t \in ClaimedAt(job[e].path) THEN "clobbered"
                                       ELSE dir[t]]
          /\ stamp' = [stamp EXCEPT ![u] = job[e].path[1]]
    BY <2>1 DEF ClaimFile
  <2> QED
    BY <1>1, <2>2
<1>4. u \in Tickets /\ name[u] = n
  BY DEF InboxAt
<1>5. \A t \in Tickets : dir[t] = "processing" /\ name[t] = n => stamp[t] # m
  BY <1>2 DEF ClaimedAt
<1>6. dir' = [dir EXCEPT ![u] = "processing"]
  BY <1>2, <1>3 DEF TypeOK
<1> QED
  BY <1>3, <1>4, <1>5, <1>6 DEF ClaimRename, TypeOK, NothingOverwritten, FreshName

LEMMA RenameFiles ==
    ASSUME TypeOK, NothingOverwritten, FreshName, NEW e \in Executors, NEW n,
           InboxAt(n) = {}, RenameToInbox(e, n), UNCHANGED stamp
    PROVE  NothingOverwritten' /\ FreshName'
<1>1. CASE ClaimedAt(job[e].path) = {}
  BY <1>1, SameFiles DEF RenameToInbox, FilesSame
<1>2. CASE ClaimedAt(job[e].path) # {}
  <2> DEFINE moved == ClaimedAt(job[e].path)
  <2>1. /\ dir' = [t \in Tickets |-> IF t \in moved THEN "inbox" ELSE dir[t]]
        /\ name' = [t \in Tickets |-> IF t \in moved THEN n ELSE name[t]]
    BY <1>2 DEF RenameToInbox, TypeOK
  <2>2. \A t, u \in moved : t = u
    BY DEF ClaimedAt, NothingOverwritten
  <2>3. \A t \in Tickets : dir[t] = "inbox" => name[t] # n
    BY DEF InboxAt
  <2>4. \A t \in moved : t \in Tickets /\ dir[t] = "processing"
    BY DEF ClaimedAt
  <2> HIDE DEF moved
  <2> QED
    BY <2>1, <2>2, <2>3, <2>4 DEF NothingOverwritten, FreshName
<1> QED
  BY <1>1, <1>2

LEMMA TerminalFiles ==
    ASSUME TypeOK, NothingOverwritten, FreshName, NEW e \in Executors, MoveTerminal(e)
    PROVE  NothingOverwritten' /\ FreshName'
<1>1. CASE ClaimedAt(job[e].path) = {}
  BY <1>1, SameFiles DEF MoveTerminal, FilesSame
<1>2. CASE ClaimedAt(job[e].path) # {}
  <2>1. \A t \in Tickets : dir'[t] = dir[t] \/ dir'[t] \in {"done", "failed"}
    BY <1>2 DEF MoveTerminal
  <2> QED
    BY <1>2, <2>1 DEF MoveTerminal, NothingOverwritten, FreshName
<1> QED
  BY <1>1, <1>2

LEMMA PickedNext ==
    ASSUME TypeOK, NoPickedName, [Next]_vars
    PROVE  NoPickedName'
<1> SUFFICES ASSUME AtomicMoveBack, NEW f \in Executors
             PROVE  job'[f].pc # "rename"
  BY DEF NoPickedName
<1>0. job[f].pc # "rename" /\ NoJob.pc # "rename"
  BY DEF NoPickedName, NoJob
<1> DEFINE JobsWith(pcs) == \A e \in Executors : job'[e] = job[e] \/ job'[e].pc \in pcs
<1>1. SUFFICES JobsWith({"idle", "claim", "running", "moveBack", "toDone", "toFailed", "report"})
  BY <1>0
<1>2. CASE Operator \/ Tick \/ PollBegin \/ UNCHANGED vars
  BY <1>2 DEF Operator, Submit, Remove, Tick, PollBegin, vars
<1>3. ASSUME NEW e \in Executors, NEW c, NEW cands, LookFirst(c, e, cands)
      PROVE  JobsWith({"claim"})
  BY <1>3 DEF LookFirst, TypeOK
<1>4. CASE Claim
  BY <1>3, <1>4 DEF Claim, PollLook, PollNothing, Executors
<1>5. CASE Poke
  BY <1>3, <1>5 DEF Poke, PokeBegin, PokeLook, PokeNothing, PokeCrash, Executors, TypeOK, NoJob
<1>10. ASSUME NEW e \in Executors, ClaimEnds(e) PROVE JobsWith({"idle", "running"})
  <2>1. job[e] \in Job
    BY <1>10 DEF ClaimEnds, ClaimRename, ClaimLost, TypeOK, NoJob
  <2> QED
    BY <1>10, <2>1 DEF ClaimEnds, ClaimRename, ClaimFile, ClaimLost, TypeOK, NoJob, Job
<1>6. ASSUME NEW e \in Executors, SessionEnds(e)
      PROVE  JobsWith({"idle", "moveBack", "toDone", "toFailed"})
  <2> USE DEF TypeOK, Goto, NoJob, Job
  <2>1. CASE Vanished(e)
    BY <2>1 DEF Vanished
  <2>2. CASE FinalizeWrite(e)
    BY <2>2 DEF FinalizeWrite
  <2>3. CASE RequeueWrite(e)
    BY <2>3 DEF RequeueWrite
  <2>4. CASE KeepBudgetWrite(e)
    BY <2>4 DEF KeepBudgetWrite
  <2> QED
    BY <1>6, <2>1, <2>2, <2>3, <2>4 DEF SessionEnds
<1>7. ASSUME NEW e \in Executors, NEW n, RenameToInbox(e, n), job[e] # NoJob
      PROVE  JobsWith({"idle", "report"})
  BY <1>7 DEF RenameToInbox, AfterMove, TypeOK, NoJob, Job
<1>8. ASSUME NEW e \in Executors, Moves(e) PROVE JobsWith({"idle", "report"})
  <2>1. CASE MoveBack(e) \/ RenameBack(e)
    BY <1>7, <2>1 DEF MoveBack, RenameBack, NoJob
  <2>2. CASE PickName(e)
    BY <2>2 DEF PickName
  <2>3. CASE MoveTerminal(e) \/ Settle(e)
    BY <2>3 DEF MoveTerminal, Settle, AfterMove, TypeOK, NoJob, Job
  <2> QED
    BY <1>8, <2>1, <2>2, <2>3 DEF Moves
<1>9. CASE Lifecycle
  BY <1>9 DEF Lifecycle, Start, Recover, RecoverWrite, Online, RequestStop, BeginDrain,
     Exit, Crash, TypeOK, NoJob
<1> QED
  BY <1>2, <1>4, <1>5, <1>6, <1>8, <1>9, <1>10 DEF Next, Execute

\* A step that is no look: who is between look and rename was so before, and
\* no claimed file appears.
LooksKept ==
    /\ \A e \in Executors : Looks(e)' => job'[e] = job[e]
    /\ \A t \in Tickets : dir'[t] = "processing" =>
          dir[t] = "processing" /\ stamp'[t] = stamp[t] /\ name'[t] = name[t]

LEMMA LooksStay == ASSUME LookInv, LooksKept PROVE LookInv'
<1>1. \A e \in Executors : Looks(e)' => Looks(e) /\ job'[e].path = job[e].path
  BY DEF LooksKept, Looks
<1>2. \A p : ClaimedAt(p)' \subseteq ClaimedAt(p)
  BY DEF LooksKept, ClaimedAt
<1>3. Main \in Executors
  BY DEF Executors
<1> QED
  BY <1>1, <1>2, <1>3 DEF LookInv

LEMMA LookLooks ==
    ASSUME TypeOK, LookInv, SerialLooks, NEW c, NEW e \in Slots \cup Pokes,
           NEW cands, NEW free \in SUBSET Claimable(cands),
           LookFirst(c, e, free), UNCHANGED fileVars, e \in Pokes \/ ~MidClaim
    PROVE  LookInv'
<1>0. e \in Executors /\ Main \in Executors /\ e # Main
  BY QueueAssumption DEF Executors
<1>1. PICK x \in free :
        job' = [job EXCEPT ![e] =
                  [pc |-> "claim", ticket |-> x.ticket, path |-> <<now, x.name>>,
                   retry |-> x.retry, dst |-> x.name]]
  BY DEF LookFirst
<1>2. job'[e].path = <<now, x.name>> /\ \A f \in Executors \ {e} : job'[f] = job[f]
  BY <1>0, <1>1 DEF TypeOK
<1>3. \A f \in Executors \ {e} : ~Looks(f)
  <2>1. CASE SerialClaims
    BY <2>1 DEF LookFirst, Looks
  <2>2. CASE Pokes = {}
    BY <2>2 DEF MidClaim, Looks, LookInv, Executors
  <2> QED
    BY <2>1, <2>2 DEF SerialLooks
<1>4. ClaimedAt(<<now, x.name>>) = {}
  BY DEF Claimable
<1>5. \A p : ClaimedAt(p)' = ClaimedAt(p)
  BY DEF ClaimedAt, fileVars
<1>6. \A f \in Executors : Looks(f)' => f = e
  BY <1>2, <1>3 DEF Looks
<1> QED
  BY <1>0, <1>2, <1>4, <1>5, <1>6 DEF LookInv

LEMMA RenameLooks ==
    ASSUME TypeOK, LookInv, NEW e \in Executors, ClaimRename(e) PROVE LookInv'
<1>1. job[e] \in Job /\ Looks(e)
  BY DEF ClaimRename, TypeOK, NoJob, Looks
<1>2. job' = [job EXCEPT ![e].pc = "running"]
  BY DEF ClaimRename, ClaimFile
<1>3. \A f \in Executors : ~Looks(f)'
  BY <1>1, <1>2 DEF LookInv, Looks, TypeOK, Job
<1> QED
  BY <1>3 DEF LookInv, Executors

LEMMA ExecuteLooks ==
    ASSUME TypeOK, NEW e \in Executors, ClaimLost(e) \/ SessionEnds(e) \/ Moves(e)
    PROVE  LooksKept
<1> DEFINE OwnOnly == \A f \in Executors : job'[f] = job[f] \/ (f = e /\ job'[f].pc # "claim")
           FilesLeave == \A t \in Tickets : dir'[t] = "processing" =>
                            dir[t] = "processing" /\ stamp'[t] = stamp[t] /\ name'[t] = name[t]
<1>0. SUFFICES OwnOnly /\ FilesLeave
  BY DEF LooksKept, Looks
<1> USE DEF NoJob
<1>1. CASE ClaimLost(e)
  BY <1>1 DEF ClaimLost, fileVars, TypeOK
<1>2. CASE SessionEnds(e)
  <2>1. FilesLeave
    BY <1>2 DEF SessionEnds, Vanished, FinalizeWrite, RequeueWrite, KeepBudgetWrite, fileVars
  <2>2. CASE Vanished(e)
    BY <2>1, <2>2 DEF Vanished, TypeOK
  <2>3. CASE FinalizeWrite(e) \/ RequeueWrite(e) \/ KeepBudgetWrite(e)
    <3>1. job[e] \in Job
      BY <2>3 DEF FinalizeWrite, RequeueWrite, KeepBudgetWrite, TypeOK
    <3>2. PICK pc \in {"toDone", "toFailed", "moveBack"} : Goto(e, pc)
      BY <2>3 DEF FinalizeWrite, RequeueWrite, KeepBudgetWrite
    <3> QED
      BY <2>1, <3>1, <3>2 DEF Goto, TypeOK, Job
  <2> QED
    BY <1>2, <2>2, <2>3 DEF SessionEnds
<1>3. ASSUME NEW n, RenameToInbox(e, n), job[e] # NoJob, UNCHANGED stamp PROVE OwnOnly /\ FilesLeave
  <2>1. OwnOnly
    BY <1>3 DEF RenameToInbox, AfterMove, TypeOK, Job
  <2>2. FilesLeave
    BY <1>3 DEF RenameToInbox, TypeOK
  <2> QED
    BY <2>1, <2>2
<1>4. CASE Moves(e)
  <2>1. CASE MoveBack(e) \/ RenameBack(e)
    BY <1>3, <2>1 DEF MoveBack, RenameBack
  <2>2. CASE PickName(e)
    BY <2>2 DEF PickName, TypeOK, Job, fileVars
  <2>3. CASE MoveTerminal(e) \/ Settle(e)
    BY <2>3 DEF MoveTerminal, Settle, AfterMove, TypeOK, Job, fileVars
  <2> QED
    BY <1>4, <2>1, <2>2, <2>3 DEF Moves
<1> QED
  BY <1>1, <1>2, <1>4

LEMMA LooksNext == ASSUME TypeOK, LookInv, SerialLooks, [Next]_vars PROVE LookInv'
<1>1. CASE UNCHANGED vars \/ Tick \/ PollBegin
  BY <1>1, LooksStay DEF vars, Tick, PollBegin, fileVars, LooksKept
<1>2. ASSUME NEW t \in Tickets, Submit(t) \/ Remove(t) PROVE LookInv'
  BY <1>2, LooksStay DEF Submit, Remove, LooksKept, TypeOK
<1>3. ASSUME NEW ready \in BOOLEAN, PollLook(ready) PROVE LookInv'
  <2>1. PICK s \in Slots : LookFirst(Main, s, DaemonClaimable(ready))
    BY <1>3 DEF PollLook
  <2>2. DaemonClaimable(ready) \in SUBSET Claimable(snap[Main])
    BY DEF DaemonClaimable
  <2> QED
    BY <1>3, <2>1, <2>2, LookLooks DEF PollLook
<1>4. ASSUME NEW ready \in BOOLEAN, PollNothing(ready) PROVE LookInv'
  BY <1>4, LooksStay DEF PollNothing, fileVars, LooksKept
<1>5. ASSUME NEW p \in Pokes, PokeLook(p) PROVE LookInv'
  BY <1>5, LookLooks DEF PokeLook
<1>6. ASSUME NEW p \in Pokes, PokeBegin(p) \/ PokeNothing(p) PROVE LookInv'
  BY <1>6, LooksStay DEF PokeBegin, PokeNothing, fileVars, LooksKept
<1>7. ASSUME NEW p \in Pokes, PokeCrash(p) PROVE LookInv'
  BY <1>7, LooksStay DEF PokeCrash, fileVars, LooksKept, Looks, TypeOK, NoJob
<1>8. ASSUME NEW e \in Executors, ClaimEnds(e) \/ SessionEnds(e) \/ Moves(e) PROVE LookInv'
  BY <1>8, RenameLooks, ExecuteLooks, LooksStay DEF ClaimEnds
<1>9. CASE Lifecycle
  <2>1. \A t \in Tickets : UNCHANGED <<dir, stamp, name>>
    BY <1>9 DEF Lifecycle, Start, Recover, RecoverWrite, Online, RequestStop, BeginDrain,
       Exit, Crash, fileVars
  <2>2. \A e \in Executors : job'[e] = job[e] \/ job'[e].pc # "claim"
    BY <1>9 DEF Lifecycle, Start, Recover, RecoverWrite, Online, RequestStop, BeginDrain,
       Exit, Crash, fileVars, TypeOK, NoJob
  <2> QED
    BY <2>1, <2>2, LooksStay DEF LooksKept, Looks
<1> QED
  BY <1>1, <1>2, <1>3, <1>4, <1>5, <1>6, <1>7, <1>8, <1>9
     DEF Next, Operator, Claim, Poke, Execute

LEMMA FilesNext ==
    ASSUME FileInv, AtomicMoveBack, SerialLooks, [Next]_vars PROVE FileInv'
<1> USE DEF FileInv
<1>1. SUFFICES NothingOverwritten' /\ FreshName'
  BY TypeNext, PickedNext, LooksNext
<1>2. CASE FilesSame
  BY <1>2, SameFiles
<1>3. ASSUME NEW t \in Tickets, Submit(t) PROVE NothingOverwritten' /\ FreshName'
  <2>1. name[t] = NameOf[t] /\ \A u \in Tickets : dir[u] = "inbox" => name[u] # NameOf[t]
    BY <1>3 DEF Submit, FreshName, InboxAt
  <2> QED
    BY <1>3, <2>1 DEF Submit, TypeOK, NothingOverwritten, FreshName
<1>4. ASSUME NEW t \in Tickets, Remove(t) PROVE NothingOverwritten' /\ FreshName'
  BY <1>4 DEF Remove, TypeOK, NothingOverwritten, FreshName
<1>5. CASE Claim
  BY <1>2, <1>5 DEF Claim, PollLook, PollNothing, FilesSame, fileVars
<1>6. CASE Poke
  BY <1>2, <1>6 DEF Poke, PokeBegin, PokeLook, PokeNothing, PokeCrash, FilesSame, fileVars
<1>11. ASSUME NEW e \in Executors, ClaimEnds(e) PROVE NothingOverwritten' /\ FreshName'
  BY <1>2, <1>11, ClaimFiles DEF ClaimEnds, ClaimLost, FilesSame, fileVars
<1>7. ASSUME NEW e \in Executors, Moves(e) PROVE NothingOverwritten' /\ FreshName'
  <2>1. CASE MoveBack(e)
    BY <2>1, RenameFiles, BackNamesFree DEF MoveBack
  <2>2. CASE RenameBack(e)
    BY <2>2 DEF RenameBack, NoPickedName
  <2>3. CASE MoveTerminal(e)
    BY <2>3, TerminalFiles
  <2>4. CASE PickName(e) \/ Settle(e)
    BY <1>2, <2>4 DEF PickName, Settle, FilesSame, fileVars
  <2> QED
    BY <1>7, <2>1, <2>2, <2>3, <2>4 DEF Moves
<1>8. CASE Tick \/ PollBegin \/ UNCHANGED vars
  BY <1>2, <1>8 DEF Tick, PollBegin, vars, FilesSame, fileVars
<1>9. ASSUME NEW e \in Executors, SessionEnds(e) PROVE FilesSame
  BY <1>9 DEF SessionEnds, Vanished, FinalizeWrite, RequeueWrite, KeepBudgetWrite,
     FilesSame, fileVars
<1>10. CASE Lifecycle
  BY <1>2, <1>10 DEF Lifecycle, Start, Recover, RecoverWrite, Online, RequestStop,
     BeginDrain, Exit, Crash, FilesSame, fileVars
<1> QED
  BY <1>2, <1>3, <1>4, <1>5, <1>6, <1>7, <1>8, <1>9, <1>10, <1>11 DEF Next, Operator, Execute

LEMMA FilesInit == Init => FileInv
<1> SUFFICES ASSUME Init PROVE FileInv
  OBVIOUS
<1>1. NothingOverwritten /\ FreshName /\ NoPickedName /\ LookInv
  BY DEF Init, NothingOverwritten, FreshName, NoPickedName, LookInv, Looks, NoJob, Executors
<1> QED
  BY <1>1, TypeInit DEF FileInv

(* No ticket file is ever overwritten: two tickets never share a path in   *)
(* inbox/ or processing/, whatever crashes, restarts, run-once processes,  *)
(* submissions and removals happen, and although a claim looks at its      *)
(* destination one step before it renames. Two windows are assumed away:   *)
(* no process runs between a requeue's check for a free inbox name and its *)
(* rename, and a run-once does not claim between the look and the rename   *)
(* of another process's claim. Beside submissions and removals alone, one  *)
(* daemon needs no assumption on its claims.                               *)
THEOREM FilesKept ==
    ASSUME AtomicMoveBack, SerialClaims \/ Pokes = {} PROVE Spec => []NothingOverwritten
<1>1. FileInv /\ [Next]_vars => FileInv'
  BY FilesNext DEF SerialLooks
<1>2. FileInv => NothingOverwritten
  BY DEF FileInv
<1> QED
  BY FilesInit, <1>1, <1>2, PTL DEF Spec

----------------------------------------------------------------------------
(* Who owns a claimed file. Every step of the queue has one of five shapes *)
(* as far as claimed files and executors are concerned: it leaves both     *)
(* alone (Quiet), one executor releases its file (Release), one takes a    *)
(* file at a path nobody holds (Take), the daemon's executors all go away  *)
(* (Halt), or one run-once process does (Leave). The invariants are        *)
(* preserved by each shape.                                                *)

----------------------------------------------------------------------------
(* Shapes of a step.                                                       *)

Busy(e) == job[e].pc \in Working
At(t, p) == dir[t] = "processing" /\ <<stamp[t], name[t]>> = p

\* Executor f is as busy as before, with the same ticket and path.
Steady(f) ==
    /\ Busy(f)' <=> Busy(f)
    /\ Busy(f) => job'[f].path = job[f].path /\ job'[f].ticket = job[f].ticket

\* At every path outside P the claimed file stays; what was removed stays so.
SameOutside(P) ==
    /\ \A t \in Tickets : \A p : p \notin P => (At(t, p)' <=> At(t, p))
    /\ \A t \in Tickets : dir[t] = "removed" => dir'[t] = "removed"

Quiet == (\A f \in Executors : Steady(f)) /\ SameOutside({})

Release(e, q) ==
    /\ Busy(e) /\ ~Busy(e)' /\ job[e].path = q
    /\ \A f \in Executors \ {e} : Steady(f)
    /\ SameOutside({q})
    /\ \A t \in Tickets : ~At(t, q)'

Take(e, q) ==
    /\ ~Busy(e) /\ Busy(e)' /\ job'[e].path = q
    /\ \A f \in Executors \ {e} : Steady(f)
    /\ SameOutside({q})
    /\ \E t \in Tickets : At(t, q)'
    /\ \A f \in Executors : Busy(f) => job[f].path # q

Halt ==
    /\ \A s \in Slots \cup {Main} : ~Busy(s)'
    /\ \A p \in Pokes : Steady(p)
    /\ SameOutside({})
    /\ daemon' = "down"

Leave(p) ==
    /\ ~Busy(p)' /\ \A f \in Executors \ {p} : Steady(f)
    /\ SameOutside({})

----------------------------------------------------------------------------
(* The control invariant: who can be at work in which phase of the daemon. *)

Control ==
    /\ daemon = "down" => \A s \in Slots : Idle(s)
    /\ daemon = "recovering" => \A e \in Slots \cup Pokes : Idle(e)
    /\ daemon # "recovering" => Idle(Main) /\ orphans = {}
    /\ daemon = "recovering" => \A p \in Pokes : snap[p] = {}
    /\ Busy(Main) => job[Main].path \notin orphans

\* A busy executor's file is where it claimed it.
Held == \A e \in Executors : Busy(e) => \E t \in Tickets : At(t, job[e].path)

OwnerInv == FileInv /\ Control /\ Held /\ SingleOwner

LEMMA NoJobIdle == ~(NoJob.pc \in Working)
  BY DEF NoJob, Working

LEMMA ClaimedIsAt == \A p : ClaimedAt(p) = {t \in Tickets : At(t, p)}
  BY DEF ClaimedAt, At

LEMMA QuietOwners ==
    ASSUME Held, SingleOwner, Quiet PROVE Held' /\ SingleOwner'
  BY DEF Held, SingleOwner, Quiet, Steady, SameOutside, Busy

LEMMA ReleaseOwners ==
    ASSUME Held, SingleOwner, NEW e \in Executors, NEW q, Release(e, q)
    PROVE  Held' /\ SingleOwner'
<1>1. \A f \in Executors \ {e} : Busy(f) => job[f].path # q
  BY DEF SingleOwner, Release, Busy
<1> QED
  BY <1>1 DEF Held, SingleOwner, Release, Steady, SameOutside, Busy

LEMMA TakeOwners ==
    ASSUME Held, SingleOwner, NEW e \in Executors, NEW q, Take(e, q)
    PROVE  Held' /\ SingleOwner'
  BY DEF Held, SingleOwner, Take, Steady, SameOutside, Busy

LEMMA HaltOwners ==
    ASSUME Held, SingleOwner, Halt PROVE Held' /\ SingleOwner'
  BY DEF Held, SingleOwner, Halt, Steady, SameOutside, Busy, Executors

LEMMA LeaveOwners ==
    ASSUME Held, SingleOwner, NEW p \in Executors, Leave(p)
    PROVE  Held' /\ SingleOwner'
  BY DEF Held, SingleOwner, Leave, Steady, SameOutside, Busy

----------------------------------------------------------------------------
(* Every step has a shape.                                                 *)

LEMMA FilesSameOutside == FilesSame => SameOutside({})
  BY DEF FilesSame, SameOutside, At

LEMMA SameJobs == UNCHANGED job => \A f \in Executors : Steady(f)
  BY DEF Steady, Busy

LEMMA OperatorShape ==
    ASSUME TypeOK, Operator \/ Tick \/ PollBegin PROVE Quiet
<1>1. ASSUME NEW t \in Tickets, Submit(t) PROVE Quiet
  BY <1>1, SameJobs DEF Submit, TypeOK, Quiet, SameOutside, At
<1>2. ASSUME NEW t \in Tickets, Remove(t) PROVE Quiet
  BY <1>2, SameJobs DEF Remove, TypeOK, Quiet, SameOutside, At
<1>3. CASE Tick \/ PollBegin
  BY <1>3, SameJobs, FilesSameOutside DEF Tick, PollBegin, fileVars, FilesSame, Quiet
<1> QED
  BY <1>1, <1>2, <1>3 DEF Operator

LEMMA ClaimShape ==
    ASSUME TypeOK, Held, LookInv, NEW e \in Executors, ClaimRename(e)
    PROVE  \E q :
             /\ Take(e, q) /\ job'[e].ticket = job[e].ticket
             /\ \A t \in Tickets : At(t, q)' => t \in InboxAt(job[e].path[2])
<1>0. Looks(e) /\ job[e] \in Job
  BY DEF ClaimRename, Looks, TypeOK, NoJob
<1>a. PICK q : q = job[e].path
  OBVIOUS
<1>1. PICK m, n : q = <<m, n>> /\ job[e].path[1] = m /\ job[e].path[2] = n
  BY <1>0, <1>a DEF Job, Path
<1>2. \A t \in Tickets : ~At(t, q)
  BY <1>0, <1>a, ClaimedIsAt DEF LookInv
<1>3. PICK u \in InboxAt(n) :
        /\ dir' = [t \in Tickets |-> IF t = u THEN "processing"
                                     ELSE IF t \in ClaimedAt(q) THEN "clobbered"
                                     ELSE dir[t]]
        /\ stamp' = [stamp EXCEPT ![u] = m]
        /\ job' = [job EXCEPT ![e].pc = "running"]
  BY <1>a, <1>1 DEF ClaimRename, ClaimFile
<1>4. u \in Tickets /\ name[u] = n /\ dir[u] = "inbox" /\ UNCHANGED name
  BY DEF InboxAt, ClaimRename
<1>b. ClaimedAt(q) = {}
  BY <1>2, ClaimedIsAt
<1>c. dir' = [dir EXCEPT ![u] = "processing"]
  BY <1>3, <1>b DEF TypeOK
<1>5. /\ job'[e].pc = "running" /\ job'[e].path = q /\ job'[e].ticket = job[e].ticket
      /\ \A f \in Executors \ {e} : job'[f] = job[f]
  BY <1>0, <1>a, <1>3 DEF TypeOK, Job
<1>6. At(u, q)' /\ \A t \in Tickets \ {u} : \A p : At(t, p)' <=> At(t, p)
  <2>1. At(u, q)'
    BY <1>1, <1>3, <1>4, <1>c DEF At, TypeOK
  <2>2. ASSUME NEW t \in Tickets \ {u}, NEW p PROVE At(t, p)' <=> At(t, p)
    <3>1. dir'[t] = dir[t] /\ stamp'[t] = stamp[t] /\ name'[t] = name[t]
      BY <1>3, <1>4, <1>c DEF TypeOK
    <3> QED
      BY <3>1 DEF At
  <2> QED
    BY <2>1, <2>2
<1>7. \A p : p # q => ~At(u, p)' /\ ~At(u, p)
  BY <1>1, <1>3, <1>4, <1>c DEF At, TypeOK
<1>8. \A t \in Tickets : dir[t] = "removed" => dir'[t] = "removed"
  BY <1>4, <1>c DEF TypeOK
<1>9. SameOutside({q})
  BY <1>6, <1>7, <1>8 DEF SameOutside
<1>10. \A f \in Executors : Busy(f) => job[f].path # q
  BY <1>2 DEF Held
<1>11. ~Busy(e) /\ Busy(e)'
  BY <1>0, <1>5 DEF Looks, Busy, Working
<1>12. Take(e, q)
  BY <1>4, <1>5, <1>6, <1>9, <1>10, <1>11 DEF Take, Steady, Busy
<1>13. \A t \in Tickets : At(t, q)' => t \in InboxAt(job[e].path[2])
  BY <1>1, <1>2, <1>3, <1>6
<1> QED
  BY <1>5, <1>12, <1>13

\* A look, or a rename that finds nothing, is no work on a claimed file.
LEMMA LookShape ==
    ASSUME TypeOK, NEW e \in Executors, NEW c, NEW cands, Idle(e), LookFirst(c, e, cands),
           UNCHANGED fileVars
    PROVE  Quiet
<1>1. ~Busy(e)
  BY NoJobIdle DEF Idle, Busy
<1>2. job'[e].pc = "claim" /\ \A f \in Executors \ {e} : job'[f] = job[f]
  BY DEF LookFirst, TypeOK
<1>3. \A f \in Executors : Steady(f)
  BY <1>1, <1>2 DEF Steady, Busy, Working
<1> QED
  BY <1>3, FilesSameOutside DEF FilesSame, fileVars, Quiet

LEMMA LostShape ==
    ASSUME TypeOK, NEW e \in Executors, ClaimLost(e) PROVE Quiet
<1>1. ~Busy(e) /\ ~Busy(e)' /\ \A f \in Executors \ {e} : job'[f] = job[f]
  BY NoJobIdle DEF ClaimLost, Busy, Working, TypeOK
<1>2. \A f \in Executors : Steady(f)
  BY <1>1 DEF Steady, Busy
<1> QED
  BY <1>2, FilesSameOutside DEF ClaimLost, FilesSame, fileVars, Quiet

LEMMA SessionShape ==
    ASSUME TypeOK, Held, NEW e \in Executors, SessionEnds(e)
    PROVE  Quiet
<1>1. FilesSame
  BY DEF SessionEnds, Vanished, FinalizeWrite, RequeueWrite, KeepBudgetWrite,
     FilesSame, fileVars
<1>2. job[e].pc = "running" /\ Busy(e)
  BY DEF SessionEnds, Vanished, FinalizeWrite, RequeueWrite, KeepBudgetWrite, Busy, Working
<1>3. PICK pc \in Working : Goto(e, pc)
  <2>1. ~Vanished(e)
    BY <1>2, ClaimedIsAt DEF Vanished, Held
  <2> QED
    BY <2>1 DEF SessionEnds, FinalizeWrite, RequeueWrite, KeepBudgetWrite, Working
<1>4. job[e] \in Job
  BY <1>2 DEF TypeOK, NoJob
<1>5. \A f \in Executors : Steady(f)
  BY <1>2, <1>3, <1>4 DEF Goto, Steady, Busy, TypeOK, Job
<1> QED
  BY <1>1, <1>5, FilesSameOutside DEF Quiet

LEMMA RenameShape ==
    ASSUME TypeOK, Held, NEW e \in Executors, Busy(e), NEW n, RenameToInbox(e, n),
           UNCHANGED stamp
    PROVE  \E q : Release(e, q)
<1>0. PICK q : q = job[e].path
  OBVIOUS
<1> DEFINE moved == ClaimedAt(q)
<1>1. moved = {t \in Tickets : At(t, q)} /\ moved # {}
  BY <1>0, ClaimedIsAt DEF Held
<1>2. /\ dir' = [t \in Tickets |-> IF t \in moved THEN "inbox"
                                  ELSE IF t \in InboxAt(n) THEN "clobbered" ELSE dir[t]]
      /\ name' = [t \in Tickets |-> IF t \in moved THEN n ELSE name[t]]
      /\ AfterMove(e)
  BY <1>0, <1>1 DEF RenameToInbox
<1>3. \A t \in Tickets : t \in InboxAt(n) => dir[t] = "inbox"
  BY DEF InboxAt
<1> HIDE DEF moved
<1>4. /\ ~Busy(e)' /\ \A f \in Executors \ {e} : job'[f] = job[f]
  BY <1>2, NoJobIdle DEF AfterMove, TypeOK, Busy, Job, Working, NoJob
<1>5. \A t \in moved : At(t, q)
  BY <1>1
<1>6. \A t \in Tickets : ~At(t, q)'
  BY <1>1, <1>2, <1>3 DEF At
<1>7. ASSUME NEW t \in Tickets, NEW p, p # q PROVE At(t, p)' <=> At(t, p)
  BY <1>2, <1>3, <1>5, <1>7 DEF At
<1>8. \A t \in Tickets : dir[t] = "removed" => dir'[t] = "removed"
  BY <1>2, <1>3, <1>5 DEF At
<1>9. SameOutside({q})
  BY <1>7, <1>8 DEF SameOutside
<1> QED
  BY <1>0, <1>4, <1>6, <1>9 DEF Release, Steady, Busy

LEMMA TerminalShape ==
    ASSUME TypeOK, Held, NEW e \in Executors, MoveTerminal(e)
    PROVE  \E q : Release(e, q)
<1>0. PICK q : q = job[e].path
  OBVIOUS
<1> DEFINE moved == ClaimedAt(q)
<1>1. Busy(e)
  BY DEF MoveTerminal, Busy, Working
<1>2. moved = {t \in Tickets : At(t, q)} /\ moved # {}
  BY <1>0, <1>1, ClaimedIsAt DEF Held
<1>3. /\ \A t \in Tickets : IF t \in moved THEN dir'[t] \in {"done", "failed"}
                                         ELSE dir'[t] = dir[t]
      /\ AfterMove(e) /\ UNCHANGED <<name, stamp>>
  BY <1>0, <1>2 DEF MoveTerminal
<1> HIDE DEF moved
<1>4. /\ ~Busy(e)' /\ \A f \in Executors \ {e} : job'[f] = job[f]
  BY <1>3, NoJobIdle DEF AfterMove, TypeOK, Busy, Job, Working, NoJob
<1>5. \A t \in moved : At(t, q)
  BY <1>2
<1>6. \A t \in Tickets : ~At(t, q)'
  BY <1>2, <1>3 DEF At
<1>7. ASSUME NEW t \in Tickets, NEW p, p # q PROVE At(t, p)' <=> At(t, p)
  BY <1>3, <1>5, <1>7 DEF At
<1>8. \A t \in Tickets : dir[t] = "removed" => dir'[t] = "removed"
  BY <1>3, <1>5 DEF At
<1>9. SameOutside({q})
  BY <1>7, <1>8 DEF SameOutside
<1> QED
  BY <1>0, <1>1, <1>4, <1>6, <1>9 DEF Release, Steady, Busy

LEMMA MovesShape ==
    ASSUME TypeOK, Held, NEW e \in Executors, Moves(e)
    PROVE  Quiet \/ \E q : Release(e, q)
<1>0. job[e] \in Job /\ job[e].pc \in {"moveBack", "rename", "toDone", "toFailed", "report"}
  BY DEF TypeOK, Moves, MoveBack, PickName, RenameBack, MoveTerminal, Settle, NoJob
<1>1. CASE MoveBack(e) \/ RenameBack(e)
  BY <1>1, RenameShape DEF MoveBack, RenameBack, Busy, Working
<1>2. CASE PickName(e)
  <2>1. PICK n \in BackNames(job[e].path[2]) :
          job' = [job EXCEPT ![e].pc = "rename", ![e].dst = n]
    BY <1>2 DEF PickName
  <2>2. job' = [job EXCEPT ![e] = [job[e] EXCEPT !.pc = "rename", !.dst = n]]
    BY <2>1, <1>0 DEF TypeOK
  <2>3. \A f \in Executors : Steady(f)
    BY <1>0, <1>2, <2>2 DEF Steady, Busy, TypeOK, PickName, Working, Job
  <2> QED
    BY <1>2, <2>3, FilesSameOutside DEF PickName, FilesSame, fileVars, Quiet
<1>3. CASE MoveTerminal(e)
  BY <1>3, TerminalShape
<1>4. CASE Settle(e)
  <2>1. \A f \in Executors : Steady(f)
    BY <1>4, NoJobIdle DEF Settle, Steady, Busy, TypeOK, Working
  <2> QED
    BY <1>4, <2>1, FilesSameOutside DEF Settle, FilesSame, fileVars, Quiet
<1> QED
  BY <1>1, <1>2, <1>3, <1>4 DEF Moves

LEMMA RecoverShape ==
    ASSUME TypeOK, Control, NEW p \in orphans, RecoverWrite(p)
    PROVE  Quiet \/ (Take(Main, p) /\ FilesSame /\ At(job'[Main].ticket, p))
<1>1. FilesSame /\ SameOutside({}) /\ Main \in Executors
  BY FilesSameOutside DEF RecoverWrite, FilesSame, Executors
<1>2. CASE ClaimedAt(p) = {}
  BY <1>1, <1>2, SameJobs DEF RecoverWrite, Quiet
<1>3. CASE ClaimedAt(p) # {}
  <2>1. PICK u \in ClaimedAt(p), pc \in {"moveBack", "toFailed"} :
          job' = [job EXCEPT ![Main] = [pc |-> pc, ticket |-> u, path |-> p,
                                        retry |-> retry[u], dst |-> p[2]]]
    BY <1>3 DEF RecoverWrite
  <2>2. \A e \in Executors : ~Busy(e)
    BY NoJobIdle DEF RecoverWrite, Control, Idle, Busy, Executors
  <2>3. /\ job'[Main].pc = pc /\ job'[Main].path = p
        /\ \A f \in Executors \ {Main} : job'[f] = job[f]
    BY <1>1, <2>1 DEF TypeOK
  <2>4. \E t \in Tickets : At(t, p)'
    BY <1>1, <1>3, ClaimedIsAt DEF At, FilesSame
  <2>5. Busy(Main)' /\ At(job'[Main].ticket, p)
    BY <1>1, <2>1, <2>3, ClaimedIsAt DEF Busy, Working, TypeOK
  <2> QED
    BY <1>1, <2>2, <2>3, <2>4, <2>5 DEF Take, SameOutside, Steady, Busy
<1> QED
  BY <1>2, <1>3

\* Startup recovery takes the file it finds.
LEMMA RecoverTakes ==
    ASSUME TypeOK, Control, NEW p \in orphans, RecoverWrite(p), ClaimedAt(p) # {}
    PROVE  Take(Main, p)
<1>1. job'[Main].pc \in {"moveBack", "toFailed"}
  BY DEF RecoverWrite, TypeOK, Executors
<1>2. Idle(Main) /\ Main \in Executors
  BY DEF RecoverWrite, Executors
<1> QED
  BY <1>1, <1>2, RecoverShape, NoJobIdle DEF Quiet, Steady, Busy, Idle, Working

LEMMA LifecycleShape ==
    ASSUME TypeOK, Control, Lifecycle
    PROVE  Quiet \/ Halt \/ \E p : Take(Main, p)
<1>1. CASE Start \/ Online \/ RequestStop \/ BeginDrain \/ Exit
  BY <1>1, SameJobs, FilesSameOutside
     DEF Start, Online, RequestStop, BeginDrain, Exit, FilesSame, fileVars, Quiet
<1>2. CASE Recover
  BY <1>2, RecoverShape DEF Recover
<1>3. CASE Crash
  <2>1. \A e \in Executors : job'[e] = IF e \in Pokes THEN job[e] ELSE NoJob
    BY <1>3 DEF Crash
  <2>2. \A p \in Pokes : Steady(p)
    BY <2>1 DEF Steady, Busy, Executors
  <2>3. \A s \in Slots \cup {Main} : ~Busy(s)'
    BY <2>1, NoJobIdle, QueueAssumption DEF Busy, Executors
  <2> QED
    BY <1>3, <2>2, <2>3, FilesSameOutside DEF Crash, Halt, FilesSame, fileVars
<1> QED
  BY <1>1, <1>2, <1>3 DEF Lifecycle

LEMMA PokeShape ==
    ASSUME TypeOK, NEW p \in Pokes,
           PokeBegin(p) \/ PokeLook(p) \/ PokeNothing(p) \/ PokeCrash(p)
    PROVE  Quiet \/ Leave(p)
<1>0. p \in Executors
  BY DEF Executors
<1>1. CASE PokeLook(p)
  BY <1>0, <1>1, LookShape DEF PokeLook
<1>3. CASE PokeBegin(p) \/ PokeNothing(p)
  BY <1>3, SameJobs, FilesSameOutside DEF PokeBegin, PokeNothing, FilesSame, fileVars, Quiet
<1>2. CASE PokeCrash(p)
  <2>1. job'[p] = NoJob /\ \A f \in Executors \ {p} : job'[f] = job[f]
    BY <1>0, <1>2 DEF PokeCrash, TypeOK
  <2> QED
    BY <1>2, <2>1, NoJobIdle, FilesSameOutside
       DEF PokeCrash, Leave, Steady, Busy, FilesSame, fileVars
<1> QED
  BY <1>1, <1>2, <1>3

LEMMA PollShape ==
    ASSUME TypeOK, NEW ready \in BOOLEAN, PollLook(ready) \/ PollNothing(ready)
    PROVE  Quiet
<1>1. CASE PollLook(ready)
  <2>1. PICK s \in Slots : Idle(s) /\ LookFirst(Main, s, DaemonClaimable(ready))
    BY <1>1 DEF PollLook
  <2>2. s \in Executors
    BY DEF Executors
  <2> QED
    BY <1>1, <2>1, <2>2, LookShape DEF PollLook
<1>2. CASE PollNothing(ready)
  BY <1>2, SameJobs, FilesSameOutside DEF PollNothing, FilesSame, fileVars, Quiet
<1> QED
  BY <1>1, <1>2

LEMMA OwnersNext ==
    ASSUME TypeOK, LookInv, Control, Held, SingleOwner, [Next]_vars
    PROVE  Held' /\ SingleOwner'
<1>1. CASE Operator \/ Tick \/ PollBegin
  BY <1>1, OperatorShape, QuietOwners
<1>2. CASE Claim
  BY <1>2, PollShape, QuietOwners DEF Claim
<1>3. CASE Poke
  BY <1>3, PokeShape, QuietOwners, LeaveOwners DEF Poke, Executors
<1>7. ASSUME NEW e \in Executors, ClaimEnds(e) PROVE Held' /\ SingleOwner'
  BY <1>7, ClaimShape, LostShape, TakeOwners, QuietOwners DEF ClaimEnds
<1>4. CASE Execute
  BY <1>4, <1>7, SessionShape, MovesShape, QuietOwners, ReleaseOwners DEF Execute
<1>5. CASE Lifecycle
  <2>1. Main \in Executors
    BY DEF Executors
  <2> QED
    BY <1>5, <2>1, LifecycleShape, QuietOwners, HaltOwners, TakeOwners
<1>6. CASE UNCHANGED vars
  <2>1. Quiet
    BY <1>6, SameJobs, FilesSameOutside DEF vars, FilesSame, Quiet
  <2> QED
    BY <2>1, QuietOwners
<1> QED
  BY <1>1, <1>2, <1>3, <1>4, <1>5, <1>6 DEF Next

----------------------------------------------------------------------------
(* The control invariant is preserved.                                     *)

\* A step of an executor changes its own job, which was not idle.
LEMMA OwnJob ==
    ASSUME TypeOK, NEW e \in Executors, SessionEnds(e) \/ Moves(e)
    PROVE  /\ ~Idle(e) /\ \A f \in Executors \ {e} : job'[f] = job[f]
           /\ UNCHANGED <<daemon, orphans, snap>>
<1>1. job[e].pc # "idle"
  BY DEF SessionEnds, Vanished, FinalizeWrite, RequeueWrite, KeepBudgetWrite,
     Moves, MoveBack, PickName, RenameBack, MoveTerminal, Settle
<1>2. CASE SessionEnds(e)
  BY <1>1, <1>2 DEF SessionEnds, Vanished, FinalizeWrite, RequeueWrite, KeepBudgetWrite,
     Goto, TypeOK, Idle, NoJob, fileVars
<1>3. ASSUME NEW n, RenameToInbox(e, n) PROVE \A f \in Executors \ {e} : job'[f] = job[f]
  BY <1>3 DEF RenameToInbox, AfterMove, TypeOK
<1>4. CASE Moves(e)
  BY <1>1, <1>3, <1>4 DEF Moves, MoveBack, PickName, RenameBack, MoveTerminal, Settle,
     AfterMove, TypeOK, Idle, NoJob, fileVars
<1> QED
  BY <1>2, <1>4

LEMMA ControlExecute ==
    ASSUME TypeOK, Control, Held, NEW e \in Executors, SessionEnds(e) \/ Moves(e)
    PROVE  Control'
<1>1. \A f \in Executors : Idle(f) => Idle(f)'
  BY OwnJob DEF Idle
<1>2. (Busy(Main)' => Busy(Main) /\ job'[Main].path = job[Main].path)
  <2>1. Main \in Executors
    BY DEF Executors
  <2> QED
    BY <2>1, SessionShape, MovesShape DEF Quiet, Release, Steady
<1>3. UNCHANGED <<daemon, orphans, snap>>
  BY OwnJob
<1> QED
  BY <1>1, <1>2, <1>3 DEF Control, Executors

LEMMA ControlClaim ==
    ASSUME TypeOK, LookInv, Control, NEW e \in Executors, ClaimEnds(e)
    PROVE  Control'
<1>1. e # Main /\ ~Idle(e) /\ UNCHANGED orphans
  BY DEF ClaimEnds, ClaimRename, ClaimLost, LookInv, Looks, Idle, NoJob
<1>2. daemon # "recovering" /\ (e \in Slots => daemon # "down")
  BY <1>1 DEF Control, Executors
<1>3. \A f \in Executors \ {e} : job'[f] = job[f]
  BY DEF ClaimEnds, ClaimRename, ClaimFile, ClaimLost, TypeOK
<1>4. /\ e \in Slots => daemon' \in {"polling", daemon}
      /\ e \notin Slots => daemon' = daemon
  BY DEF ClaimEnds, ClaimRename, ClaimLost
<1>5. Main \in Executors /\ Slots \subseteq Executors
  BY DEF Executors
<1>6. job'[Main] = job[Main]
  BY <1>1, <1>3, <1>5
<1>7. daemon' # "recovering"
  BY <1>2, <1>4
<1>8. daemon' = "down" => \A s \in Slots : Idle(s)'
  BY <1>2, <1>3, <1>4, <1>5 DEF Control, Idle
<1>9. Idle(Main)' /\ orphans' = {}
  BY <1>1, <1>2, <1>6 DEF Control, Idle
<1> QED
  BY <1>7, <1>8, <1>9, NoJobIdle DEF Control, Idle, Busy

LEMMA ControlNext ==
    ASSUME TypeOK, LookInv, Control, Held, PokesOnlyWhenUp, [Next]_vars
    PROVE  Control'
<1> USE DEF Control, Busy, Idle
<1>0. Main \in Executors /\ Main \notin Slots \cup Pokes /\ ~(NoJob.pc \in Working)
  BY QueueAssumption, NoJobIdle DEF Executors
<1>1. CASE Operator \/ Tick \/ UNCHANGED vars
  BY <1>1 DEF Operator, Submit, Remove, Tick, vars
<1>2. CASE PollBegin
  BY <1>2 DEF PollBegin
<1>3. ASSUME NEW e \in Slots \cup Pokes, NEW c, NEW cands, LookFirst(c, e, cands)
      PROVE  /\ job'[Main] = job[Main] /\ \A f \in Executors \ {e} : job'[f] = job[f]
  BY <1>0, <1>3 DEF LookFirst, TypeOK
<1>4. CASE Claim
  <2>1. ASSUME NEW ready \in BOOLEAN, PollLook(ready) PROVE Control'
    <3>1. daemon = "claiming" /\ UNCHANGED <<daemon, orphans>> /\ job'[Main] = job[Main]
      BY <1>3, <2>1 DEF PollLook
    <3> QED
      BY <3>1
  <2>2. ASSUME NEW ready \in BOOLEAN, PollNothing(ready) PROVE Control'
    BY <2>2 DEF PollNothing
  <2> QED
    BY <1>4, <2>1, <2>2 DEF Claim
<1>5. ASSUME NEW p \in Pokes, PokeLook(p) PROVE Control'
  <2>1. snap[p] # {}
    BY <1>5 DEF PokeLook, LookFirst, Claimable
  <2>2. daemon # "recovering" /\ UNCHANGED <<daemon, orphans>>
    BY <1>5, <2>1 DEF PokeLook
  <2>3. job'[Main] = job[Main] /\ \A s \in Slots : job'[s] = job[s]
    BY <1>3, <1>5, QueueAssumption DEF PokeLook, Executors
  <2> QED
    BY <2>2, <2>3
<1>12. ASSUME NEW p \in Pokes, PokeBegin(p) \/ PokeNothing(p) PROVE Control'
  <2>1. UNCHANGED <<daemon, orphans, job>>
    BY <1>12 DEF PokeBegin, PokeNothing
  <2>2. daemon = "recovering" => \A r \in Pokes : snap'[r] = {}
    BY <1>12 DEF PokeBegin, PokeNothing, TypeOK, Claimers
  <2> QED
    BY <2>1, <2>2
<1>6. ASSUME NEW p \in Pokes, PokeCrash(p) PROVE Control'
  BY <1>0, <1>6 DEF PokeCrash, TypeOK, Executors, Claimers
<1>7. CASE Execute
  BY <1>7, ControlExecute, ControlClaim DEF Execute
<1>8. CASE Start
  BY <1>0, <1>8 DEF Start
<1>9. ASSUME NEW p \in orphans, RecoverWrite(p) PROVE Control'
  <2>1. daemon = "recovering" /\ orphans' = orphans \ {p} /\ UNCHANGED daemon
    BY <1>9 DEF RecoverWrite
  <2>2. CASE ClaimedAt(p) = {}
    BY <1>9, <2>1, <2>2 DEF RecoverWrite
  <2>3. CASE ClaimedAt(p) # {}
    <3>1. /\ job'[Main].path = p
          /\ \A f \in Executors \ {Main} : job'[f] = job[f]
      BY <1>0, <1>9, <2>3 DEF RecoverWrite, TypeOK
    <3>2. UNCHANGED snap
      BY <1>9 DEF RecoverWrite
    <3> QED
      BY <1>0, <2>1, <3>1, <3>2 DEF Executors
  <2> QED
    BY <2>2, <2>3
<1>10. CASE Online \/ RequestStop \/ BeginDrain \/ Exit
  BY <1>0, <1>10 DEF Online, RequestStop, BeginDrain, Exit
<1>11. CASE Crash
  <2>1. \A e \in Slots \cup {Main} : job'[e] = NoJob
    BY <1>0, <1>11, QueueAssumption DEF Crash, Executors
  <2> QED
    BY <1>0, <1>11, <2>1 DEF Crash
<1> QED
  BY <1>1, <1>2, <1>4, <1>5, <1>6, <1>7, <1>8, <1>9, <1>10, <1>11, <1>12
     DEF Next, Poke, Lifecycle, Recover

LEMMA OwnerInit == Init => OwnerInv
<1> SUFFICES ASSUME Init PROVE OwnerInv
  OBVIOUS
<1>1. \A e \in Executors : job[e] = NoJob
  BY DEF Init
<1>2. Control /\ Held /\ SingleOwner
  BY <1>1, NoJobIdle DEF Init, Control, Held, SingleOwner, Idle, Busy, Executors
<1> QED
  BY <1>2, FilesInit DEF OwnerInv

LEMMA OwnerNext ==
    ASSUME AtomicMoveBack, SerialLooks, PokesOnlyWhenUp, OwnerInv, [Next]_vars
    PROVE  OwnerInv'
  BY FilesNext, ControlNext, OwnersNext DEF OwnerInv, FileInv

(* No two executors - slots, run-once processes, startup recovery - ever   *)
(* work on the same claimed file, although a claim looks one step before   *)
(* it renames. Assumed: the two of FilesKept, and that no run-once         *)
(* overlaps a daemon's downtime or startup recovery.                       *)
THEOREM ClaimsExclusive ==
    ASSUME AtomicMoveBack, SerialClaims \/ Pokes = {}, PokesOnlyWhenUp
    PROVE  Spec => []SingleOwner
<1>1. OwnerInv /\ [Next]_vars => OwnerInv'
  BY OwnerNext DEF SerialLooks
<1>2. OwnerInv => SingleOwner
  BY DEF OwnerInv
<1> QED
  BY OwnerInit, <1>1, <1>2, PTL DEF Spec

----------------------------------------------------------------------------
(* Without run-once processes: the executor holds the file of its own      *)
(* ticket, repositories are serialized and no claimed file is stranded.    *)

\* A candidate keeps its inbox name while its claim pass awaits readiness,
\* and the one at hand is one of them.
SnapInv ==
    /\ daemon # "claiming" => snap[Main] = {}
    /\ \A x \in snap[Main] : dir[x.ticket] = "removed" \/ InboxAt(x.name) = {x.ticket}

HandInv == \A s \in Slots : Looks(s) => daemon = "claiming" /\ AtHand(s) \in snap[Main]

\* A slot with a job, even one that only awaits its reporter, has a busy
\* repository.
ReposApart ==
    \A e, f \in Slots :
        e # f /\ ~Idle(e) /\ ~Idle(f) /\ RepoOf[job[e].ticket] # NoRepo
        => RepoOf[job[e].ticket] # RepoOf[job[f].ticket]

\* HoldsItsTicket and NothingStranded, in terms of At.
HoldsAt ==
    \A e \in Executors : Busy(e) =>
        \/ \A t \in Tickets : At(t, job[e].path) <=> t = job[e].ticket
        \/ dir[job[e].ticket] = "removed"

StrandedAt ==
    \A t \in Tickets : \A p : At(t, p) =>
        daemon = "down" \/ p \in orphans \/ \E e \in Executors : Busy(e) /\ job[e].path = p

LEMMA HoldsIsAt == TypeOK => (HoldsItsTicket <=> HoldsAt)
<1> SUFFICES ASSUME TypeOK PROVE HoldsItsTicket <=> HoldsAt
  OBVIOUS
<1>1. ASSUME NEW e \in Executors, Busy(e)
      PROVE  ClaimedAt(job[e].path) = {job[e].ticket} <=>
             \A t \in Tickets : At(t, job[e].path) <=> t = job[e].ticket
  <2>1. job[e].ticket \in Tickets
    BY <1>1, NoJobIdle DEF TypeOK, Busy, Job
  <2> QED
    BY <2>1, ClaimedIsAt
<1> QED
  BY <1>1 DEF HoldsItsTicket, HoldsAt, Busy

LEMMA StrandedIsAt == NothingStranded <=> StrandedAt
  BY DEF NothingStranded, StrandedAt, At, Busy

\* An orphan path is given up only when nothing is there, or when it is q.
OrphansSound(Q) ==
    \/ daemon' = "down"
    \/ daemon # "down" /\ \A p \in orphans \ Q : p \in orphans' \/ \A t \in Tickets : ~At(t, p)

\* A path outside Q stays owned when the busy executors outside E are steady
\* and those of E were at Q.
LEMMA StrandedStep ==
    ASSUME StrandedAt, NEW Q, NEW E, SameOutside(Q), OrphansSound(Q),
           \A f \in Executors \ E : Steady(f),
           \A f \in Executors \cap E : Busy(f) => job[f].path \in Q,
           daemon' # "down",
           \A q \in Q : \A t \in Tickets : At(t, q)' => \E f \in Executors : Busy(f)' /\ job'[f].path = q
    PROVE  StrandedAt'
<1> SUFFICES ASSUME NEW t \in Tickets, NEW p, At(t, p)'
             PROVE  p \in orphans' \/ \E f \in Executors : Busy(f)' /\ job'[f].path = p
  BY DEF StrandedAt
<1>1. CASE p \in Q
  BY <1>1
<1>2. CASE p \notin Q
  <2>1. At(t, p) /\ daemon # "down"
    BY <1>2 DEF SameOutside, OrphansSound
  <2>2. CASE p \in orphans
    BY <1>2, <2>1, <2>2 DEF OrphansSound
  <2>3. CASE \E f \in Executors : Busy(f) /\ job[f].path = p
    BY <1>2, <2>3 DEF Steady
  <2> QED
    BY <2>1, <2>2, <2>3 DEF StrandedAt
<1> QED
  BY <1>1, <1>2

\* Likewise what the executors outside E hold; E answers for itself.
LEMMA HoldsStep ==
    ASSUME TypeOK, HoldsAt, NEW Q, NEW E, SameOutside(Q),
           \A f \in Executors \ E : Steady(f) /\ (Busy(f) => job[f].path \notin Q),
           \A f \in Executors \cap E : Busy(f)' =>
               \/ \A t \in Tickets : At(t, job[f].path)' <=> t = job'[f].ticket
               \/ dir'[job'[f].ticket] = "removed"
    PROVE  HoldsAt'
<1> SUFFICES ASSUME NEW f \in Executors, f \notin E, Busy(f)'
             PROVE  \/ \A t \in Tickets : At(t, job[f].path)' <=> t = job'[f].ticket
                    \/ dir'[job'[f].ticket] = "removed"
  BY DEF HoldsAt
<1>1. Busy(f) /\ job'[f].path = job[f].path /\ job'[f].ticket = job[f].ticket
  BY DEF Steady
<1>2. job[f].ticket \in Tickets
  BY <1>1, NoJobIdle DEF TypeOK, Busy, Job
<1>3. PICK p : p = job[f].path /\ p \notin Q
  BY <1>1
<1>4. \A t \in Tickets : At(t, p)' <=> At(t, p)
  BY <1>3 DEF SameOutside
<1>5. CASE dir[job[f].ticket] = "removed"
  BY <1>1, <1>2, <1>5 DEF SameOutside
<1>6. CASE \A t \in Tickets : At(t, job[f].path) <=> t = job[f].ticket
  BY <1>1, <1>3, <1>4, <1>6 DEF At
<1> QED
  BY <1>1, <1>5, <1>6 DEF HoldsAt

DaemonInv == OwnerInv /\ SnapInv /\ HandInv /\ HoldsAt /\ StrandedAt /\ ReposApart

DaemonAlone == AtomicMoveBack /\ PokesOnlyWhenUp /\ Pokes = {}

LEMMA QuietHolds == ASSUME TypeOK, HoldsAt, Quiet PROVE HoldsAt'
  BY HoldsStep DEF Quiet

LEMMA ReleaseHolds ==
    ASSUME TypeOK, HoldsAt, SingleOwner, NEW e \in Executors, NEW q, Release(e, q)
    PROVE  HoldsAt'
<1>1. \A f \in Executors \ {e} : Busy(f) => job[f].path # q
  BY DEF SingleOwner, Release, Busy
<1> QED
  BY <1>1, HoldsStep DEF Release

LEMMA TakeHolds ==
    ASSUME TypeOK, HoldsAt, NEW e \in Executors, NEW q, Take(e, q),
           \/ \A t \in Tickets : At(t, q)' => t = job'[e].ticket
           \/ dir'[job'[e].ticket] = "removed",
           job'[e].ticket \in Tickets
    PROVE  HoldsAt'
<1>1. \A t \in Tickets : At(t, job[e].path)' <=> At(t, q)'
  BY DEF Take, At
<1>2. PICK v \in Tickets : At(v, q)'
  BY DEF Take
<1>3. (\A u \in Tickets : At(u, q)' => u = job'[e].ticket) =>
          \A u \in Tickets : At(u, job[e].path)' <=> u = job'[e].ticket
  BY <1>1, <1>2
<1>4. \A f \in Executors \ {e} : Steady(f) /\ (Busy(f) => job[f].path \notin {q})
  BY DEF Take
<1>5. \A f \in Executors \cap {e} : Busy(f)' =>
          \/ \A t \in Tickets : At(t, job[f].path)' <=> t = job'[f].ticket
          \/ dir'[job'[f].ticket] = "removed"
  BY <1>3
<1>6. SameOutside({q})
  BY DEF Take
<1> QED
  BY <1>4, <1>5, <1>6, HoldsStep

\* Who is between look and rename is a slot, for a candidate of the pass.
LEMMA LooksAtCandidate ==
    ASSUME TypeOK, LookInv, HandInv, Pokes = {}, NEW e \in Executors, Looks(e)
    PROVE  /\ e \in Slots /\ job[e] \in Job /\ job[e].ticket \in Tickets
           /\ AtHand(e) \in snap[Main] /\ daemon = "claiming"
  BY DEF LookInv, HandInv, Executors, TypeOK, NoJob, Looks, Job

\* What the daemon claims is the candidate, unless that one was removed.
LEMMA PollTicket ==
    ASSUME TypeOK, LookInv, SnapInv, HandInv, Held, Pokes = {},
           NEW e \in Executors, ClaimRename(e)
    PROVE  \E q :
             /\ Take(e, q) /\ job'[e].ticket \in Tickets
             /\ \/ \A t \in Tickets : At(t, q)' => t = job'[e].ticket
                \/ dir'[job'[e].ticket] = "removed"
<1>1. PICK q :
        /\ Take(e, q) /\ job'[e].ticket = job[e].ticket
        /\ \A t \in Tickets : At(t, q)' => t \in InboxAt(job[e].path[2])
  BY ClaimShape
<1>2. AtHand(e) \in snap[Main] /\ job[e].ticket \in Tickets
  BY LooksAtCandidate DEF ClaimRename, Looks
<1>3. \/ dir[job[e].ticket] = "removed"
      \/ InboxAt(job[e].path[2]) = {job[e].ticket}
  BY <1>2 DEF SnapInv, AtHand
<1>4. dir[job[e].ticket] = "removed" => dir'[job[e].ticket] = "removed"
  BY <1>1, <1>2 DEF Take, SameOutside
<1> QED
  BY <1>1, <1>2, <1>3, <1>4

LEMMA HoldsNext ==
    ASSUME DaemonAlone, DaemonInv, [Next]_vars PROVE HoldsAt'
<1> USE DEF DaemonInv, OwnerInv, FileInv
<1>0. Main \in Executors /\ Slots \subseteq Executors /\ Pokes = {}
  BY DEF Executors, DaemonAlone
<1>1. CASE Operator \/ Tick \/ PollBegin
  BY <1>1, OperatorShape, QuietHolds
<1>2. CASE UNCHANGED vars
  BY <1>2, SameJobs, FilesSameOutside, QuietHolds DEF vars, FilesSame, Quiet
<1>3. ASSUME NEW ready \in BOOLEAN, PollLook(ready) \/ PollNothing(ready) PROVE HoldsAt'
  BY <1>3, PollShape, QuietHolds
<1>4. ASSUME NEW e \in Executors, ClaimEnds(e) PROVE HoldsAt'
  <2>1. CASE ClaimRename(e)
    <3>1. PICK q :
            /\ Take(e, q) /\ job'[e].ticket \in Tickets
            /\ \/ \A t \in Tickets : At(t, q)' => t = job'[e].ticket
               \/ dir'[job'[e].ticket] = "removed"
      BY <1>0, <2>1, PollTicket
    <3> QED
      BY <3>1, TakeHolds
  <2>2. CASE ClaimLost(e)
    BY <2>2, LostShape, QuietHolds
  <2> QED
    BY <1>4, <2>1, <2>2 DEF ClaimEnds
<1>5. CASE Execute
  BY <1>4, <1>5, SessionShape, MovesShape, QuietHolds, ReleaseHolds DEF Execute
<1>6. ASSUME NEW p \in orphans, RecoverWrite(p) PROVE HoldsAt'
  <2>1. CASE Take(Main, p) /\ FilesSame /\ At(job'[Main].ticket, p)
    <3>1. job'[Main].ticket \in Tickets
      BY <1>0, <2>1, TypeNext, NoJobIdle DEF TypeOK, Take, Busy, Job
    <3>2. \A t \in Tickets : At(t, p) => t = job'[Main].ticket
      BY <2>1, <3>1 DEF At, NothingOverwritten
    <3>3. \A t \in Tickets : At(t, p)' => t = job'[Main].ticket
      BY <2>1, <3>2 DEF FilesSame, At
    <3> QED
      BY <1>0, <2>1, <3>1, <3>3, TakeHolds
  <2> QED
    BY <1>6, <2>1, RecoverShape, QuietHolds
<1>7. CASE Start \/ Online \/ RequestStop \/ BeginDrain \/ Exit
  BY <1>7, SameJobs, FilesSameOutside, QuietHolds
     DEF Start, Online, RequestStop, BeginDrain, Exit, FilesSame, fileVars, Quiet
<1>8. CASE Crash
  <2>1. \A e \in Executors : ~Busy(e)'
    BY <1>0, <1>8, NoJobIdle DEF Crash, Busy
  <2> QED
    BY <2>1 DEF HoldsAt
<1> QED
  BY <1>0, <1>1, <1>2, <1>3, <1>4, <1>5, <1>6, <1>7, <1>8
     DEF Next, Claim, Poke, Lifecycle, Recover

LEMMA QuietStranded ==
    ASSUME StrandedAt, Quiet, OrphansSound({}), daemon' # "down" PROVE StrandedAt'
<1>1. SameOutside({}) /\ \A f \in Executors \ {} : Steady(f)
  BY DEF Quiet
<1>2. \A f \in Executors \cap {} : Busy(f) => job[f].path \in {}
  OBVIOUS
<1>3. \A q \in {} : \A t \in Tickets :
        At(t, q)' => \E f \in Executors : Busy(f)' /\ job'[f].path = q
  OBVIOUS
<1> QED
  BY <1>1, <1>2, <1>3, StrandedStep

LEMMA StrandedNext ==
    ASSUME DaemonAlone, DaemonInv, [Next]_vars PROVE StrandedAt'
<1> USE DEF DaemonInv, OwnerInv, FileInv
<1>0. Main \in Executors /\ Slots \subseteq Executors /\ Pokes = {}
  BY DEF Executors, DaemonAlone
<1>1. CASE daemon' = "down"
  BY <1>1 DEF StrandedAt
<1>2. ASSUME Quiet, daemon # "down", UNCHANGED orphans PROVE StrandedAt'
  BY <1>1, <1>2, QuietStranded DEF OrphansSound
<1>3. CASE Operator \/ Tick \/ PollBegin
  <2>1. UNCHANGED orphans /\ (daemon = "down" => daemon' = "down")
    BY <1>3 DEF Operator, Submit, Remove, Tick, PollBegin
  <2> QED
    BY <1>1, <1>2, <1>3, <2>1, OperatorShape
<1>4. CASE UNCHANGED vars
  <2>1. Quiet
    BY <1>4, SameJobs, FilesSameOutside DEF vars, FilesSame, Quiet
  <2> QED
    BY <1>1, <1>2, <1>4, <2>1 DEF vars
<1>5. ASSUME NEW e \in Executors, ClaimEnds(e) PROVE StrandedAt'
  <2>0. daemon = "claiming" /\ daemon' # "down" /\ UNCHANGED orphans
    BY <1>0, <1>5, LooksAtCandidate DEF ClaimEnds, ClaimRename, ClaimLost, Looks
  <2>1. CASE ClaimRename(e)
    <3>1. PICK q : Take(e, q)
      BY <2>1, ClaimShape
    <3>2. SameOutside({q}) /\ \A f \in Executors \ {e} : Steady(f)
      BY <3>1 DEF Take
    <3>3. \A f \in Executors \cap {e} : Busy(f) => job[f].path \in {q}
      BY <3>1 DEF Take
    <3>4. OrphansSound({q})
      BY <2>0 DEF OrphansSound
    <3>5. Busy(e)' /\ job'[e].path = q
      BY <3>1 DEF Take
    <3> QED
      BY <2>0, <3>2, <3>3, <3>4, <3>5, StrandedStep
  <2>2. CASE ClaimLost(e)
    BY <1>2, <2>0, <2>2, LostShape
  <2> QED
    BY <1>5, <2>1, <2>2 DEF ClaimEnds
<1>6. ASSUME NEW ready \in BOOLEAN, PollLook(ready) \/ PollNothing(ready) PROVE StrandedAt'
  BY <1>2, <1>6, PollShape DEF PollLook, PollNothing
<1>7. ASSUME NEW e \in Executors, SessionEnds(e) \/ Moves(e) PROVE StrandedAt'
  <2>1. UNCHANGED <<daemon, orphans>>
    BY <1>7, OwnJob
  <2>2. CASE Quiet
    BY <1>1, <1>2, <2>1, <2>2
  <2>3. ASSUME NEW q, Release(e, q), daemon' # "down" PROVE StrandedAt'
    <3>1. OrphansSound({q})
      BY <2>1, <2>3 DEF OrphansSound
    <3>2. SameOutside({q}) /\ (\A f \in Executors \ {e} : Steady(f)) /\ job[e].path = q
      BY <2>3 DEF Release
    <3>3. \A t \in Tickets : ~At(t, q)'
      BY <2>3 DEF Release
    <3>4. \A f \in Executors \cap {e} : Busy(f) => job[f].path \in {q}
      BY <3>2
    <3>5. \A r \in {q} : \A t \in Tickets :
            At(t, r)' => \E f \in Executors : Busy(f)' /\ job'[f].path = r
      BY <3>3
    <3> QED
      BY <2>3, <3>1, <3>2, <3>4, <3>5, StrandedStep
  <2>4. Quiet \/ \E q : Release(e, q)
    BY <1>7, SessionShape, MovesShape
  <2> QED
    BY <1>1, <2>2, <2>3, <2>4
<1>8. ASSUME NEW p \in orphans, RecoverWrite(p) PROVE StrandedAt'
  <2>1. daemon # "down" /\ daemon' # "down" /\ orphans' = orphans \ {p}
    BY <1>8 DEF RecoverWrite
  <2>2. CASE ClaimedAt(p) = {}
    <3>1. Quiet /\ OrphansSound({})
      BY <1>8, <2>1, <2>2, SameJobs, FilesSameOutside, ClaimedIsAt
         DEF RecoverWrite, Quiet, FilesSame, OrphansSound
    <3> QED
      BY <2>1, <3>1, QuietStranded
  <2>3. CASE Take(Main, p)
    <3>1. OrphansSound({p})
      BY <2>1 DEF OrphansSound
    <3>2. SameOutside({p}) /\ \A f \in Executors \ {Main} : Steady(f)
      BY <2>3 DEF Take
    <3>3. \A f \in Executors \cap {Main} : Busy(f) => job[f].path \in {p}
      BY <2>3 DEF Take
    <3>4. Busy(Main)' /\ job'[Main].path = p
      BY <2>3 DEF Take
    <3> QED
      BY <1>0, <2>1, <3>1, <3>2, <3>3, <3>4, StrandedStep
  <2>4. ClaimedAt(p) # {} => Take(Main, p)
    BY <1>8, RecoverTakes
  <2> QED
    BY <2>2, <2>3, <2>4
<1>9. CASE Start
  BY <1>9 DEF Start, fileVars, StrandedAt, At, ProcessingPaths
<1>10. CASE Online \/ RequestStop \/ BeginDrain
  <2>1. Quiet /\ UNCHANGED orphans /\ daemon # "down"
    BY <1>10, SameJobs, FilesSameOutside
       DEF Online, RequestStop, BeginDrain, FilesSame, fileVars, Quiet
  <2> QED
    BY <1>2, <2>1
<1>11. CASE Exit \/ Crash
  BY <1>1, <1>11 DEF Exit, Crash
<1> QED
  BY <1>0, <1>3, <1>4, <1>5, <1>6, <1>7, <1>8, <1>9, <1>10, <1>11
     DEF Next, Claim, Poke, Lifecycle, Recover, Execute

----------------------------------------------------------------------------
(* The claim pass and the busy repositories.                               *)

LEMMA SnapSame ==
    ASSUME SnapInv, FilesSame,
           \/ snap'[Main] = {}
           \/ snap'[Main] \subseteq snap[Main] /\ daemon' = "claiming"
    PROVE  SnapInv'
  BY DEF SnapInv, FilesSame, InboxAt

\* Moving a claimed file to a free inbox name disturbs no candidate.
LEMMA SnapRename ==
    ASSUME TypeOK, SnapInv, NEW e \in Executors, NEW n, InboxAt(n) = {},
           RenameToInbox(e, n), UNCHANGED <<snap, daemon, stamp>>
    PROVE  SnapInv'
<1>1. CASE ClaimedAt(job[e].path) = {}
  BY <1>1 DEF RenameToInbox, SnapInv, InboxAt
<1>2. CASE ClaimedAt(job[e].path) # {}
  <2> DEFINE moved == ClaimedAt(job[e].path)
  <2>1. /\ dir' = [t \in Tickets |-> IF t \in moved THEN "inbox" ELSE dir[t]]
        /\ name' = [t \in Tickets |-> IF t \in moved THEN n ELSE name[t]]
    BY <1>2 DEF RenameToInbox, TypeOK
  <2>2. \A t \in moved : dir[t] = "processing"
    BY DEF ClaimedAt
  <2> HIDE DEF moved
  <2>3. ASSUME NEW x \in snap[Main]
        PROVE  dir'[x.ticket] = "removed" \/ InboxAt(x.name)' = {x.ticket}
    <3>1. x.ticket \in Tickets
      BY DEF TypeOK, Candidate, Claimers
    <3>2. CASE dir[x.ticket] = "removed"
      BY <2>1, <2>2, <3>1, <3>2
    <3>3. CASE InboxAt(x.name) = {x.ticket}
      <4>1. x.name # n
        BY <3>3
      <4> QED
        BY <2>1, <2>2, <3>3, <4>1 DEF InboxAt
    <3> QED
      BY <3>2, <3>3 DEF SnapInv
  <2> QED
    BY <2>3 DEF SnapInv, InboxAt
<1> QED
  BY <1>1, <1>2

LEMMA SnapMoves ==
    ASSUME FileInv, AtomicMoveBack, SnapInv, NEW e \in Executors, Moves(e)
    PROVE  SnapInv'
<1> USE DEF FileInv
<1>1. CASE MoveBack(e)
  BY <1>1, SnapRename, BackNamesFree DEF MoveBack
<1>2. CASE RenameBack(e)
  BY <1>2 DEF RenameBack, NoPickedName
<1>3. CASE PickName(e)
  BY <1>3 DEF PickName
<1>4. CASE Settle(e)
  BY <1>4, SnapSame DEF Settle, FilesSame, fileVars, SnapInv
<1>5. CASE MoveTerminal(e)
  <2>1. \A t \in Tickets : dir[t] # "processing" => dir'[t] = dir[t]
    BY <1>5 DEF MoveTerminal, ClaimedAt
  <2>2. \A t \in Tickets : dir'[t] = "inbox" => dir[t] = "inbox"
    BY <1>5 DEF MoveTerminal
  <2>3. UNCHANGED <<snap, daemon, name>>
    BY <1>5 DEF MoveTerminal
  <2>4. \A n : InboxAt(n)' = InboxAt(n)
    BY <2>1, <2>2, <2>3 DEF InboxAt
  <2>5. ASSUME NEW x \in snap[Main]
        PROVE  dir'[x.ticket] = "removed" \/ InboxAt(x.name)' = {x.ticket}
    <3>1. x.ticket \in Tickets
      BY DEF TypeOK, Candidate, Claimers
    <3> QED
      BY <2>1, <2>4, <3>1 DEF SnapInv
  <2> QED
    BY <2>3, <2>5 DEF SnapInv, InboxAt
<1> QED
  BY <1>1, <1>2, <1>3, <1>4, <1>5 DEF Moves

LEMMA SnapNext ==
    ASSUME DaemonAlone, DaemonInv, [Next]_vars PROVE SnapInv'
<1> USE DEF DaemonInv, OwnerInv, FileInv
<1>1. ASSUME NEW t \in Tickets, Submit(t) PROVE SnapInv'
  <2>1. /\ dir[t] = "none" /\ name[t] = NameOf[t]
        /\ \A u \in Tickets : dir[u] = "inbox" => name[u] # name[t]
    BY <1>1 DEF Submit, FreshName, InboxAt
  <2>2. /\ dir' = [dir EXCEPT ![t] = "inbox"] /\ UNCHANGED <<name, snap, daemon>>
    BY <1>1 DEF Submit
  <2>3. ASSUME NEW x \in snap[Main]
        PROVE  dir'[x.ticket] = "removed" \/ InboxAt(x.name)' = {x.ticket}
    <3>1. x.ticket \in Tickets
      BY DEF TypeOK, Candidate, Claimers
    <3>2. CASE dir[x.ticket] = "removed"
      BY <2>1, <2>2, <3>1, <3>2 DEF TypeOK
    <3>3. CASE InboxAt(x.name) = {x.ticket}
      <4>1. dir[x.ticket] = "inbox" /\ name[x.ticket] = x.name
        BY <3>3 DEF InboxAt
      <4>2. x.name # name[t]
        BY <2>1, <3>1, <4>1
      <4> QED
        BY <2>2, <3>3, <4>2 DEF InboxAt, TypeOK
    <3> QED
      BY <3>2, <3>3 DEF SnapInv
  <2> QED
    BY <2>2, <2>3 DEF SnapInv, InboxAt
<1>2. ASSUME NEW t \in Tickets, Remove(t) PROVE SnapInv'
  BY <1>2 DEF Remove, SnapInv, InboxAt, TypeOK, Candidate, Claimers
<1>3. CASE PollBegin
  <2>1. \A t \in Eligible : InboxAt(name[t]) = {t}
    BY DEF Eligible, InboxAt, NothingOverwritten
  <2>2. FilesSame /\ snap'[Main] = Candidates /\ daemon' = "claiming"
    BY <1>3 DEF PollBegin, FilesSame, fileVars, TypeOK, Claimers
  <2>3. \A x \in Candidates : InboxAt(x.name) = {x.ticket}
    BY <2>1 DEF Candidates
  <2>4. \A n : InboxAt(n)' = InboxAt(n)
    BY <2>2 DEF InboxAt, FilesSame
  <2> QED
    BY <2>2, <2>3, <2>4 DEF SnapInv, InboxAt
<1>4. CASE Claim
  <2>1. Main \in Claimers
    BY DEF Claimers
  <2>2. ASSUME NEW ready \in BOOLEAN, PollLook(ready) PROVE SnapInv'
    <3>1. FilesSame /\ daemon' = "claiming"
      BY <2>2 DEF PollLook, FilesSame, fileVars
    <3>2. snap'[Main] \subseteq snap[Main]
      BY <2>1, <2>2 DEF PollLook, LookFirst, TypeOK
    <3> QED
      BY <3>1, <3>2, SnapSame
  <2>3. ASSUME NEW ready \in BOOLEAN, PollNothing(ready) PROVE SnapInv'
    BY <2>1, <2>3 DEF PollNothing, SnapInv, TypeOK
  <2> QED
    BY <1>4, <2>2, <2>3 DEF Claim
<1>8. ASSUME NEW e \in Executors, ClaimEnds(e) PROVE SnapInv'
  <2>1. e \in Slots /\ daemon = "claiming" /\ Main \in Claimers
    BY <1>8, LooksAtCandidate
       DEF ClaimEnds, ClaimRename, ClaimLost, Looks, DaemonAlone, Claimers
  <2>2. CASE ClaimRename(e)
    BY <2>1, <2>2 DEF ClaimRename, PassOf, SnapInv, TypeOK
  <2>3. CASE ClaimLost(e)
    <3>1. FilesSame /\ daemon' = "claiming"
      BY <2>1, <2>3 DEF ClaimLost, FilesSame, fileVars
    <3>2. snap'[Main] \subseteq snap[Main]
      BY <2>1, <2>3 DEF ClaimLost, PassOf, TypeOK
    <3> QED
      BY <3>1, <3>2, SnapSame
  <2> QED
    BY <1>8, <2>2, <2>3 DEF ClaimEnds
<1>5. ASSUME NEW e \in Executors, SessionEnds(e) PROVE SnapInv'
  BY <1>5, SnapSame DEF SessionEnds, Vanished, FinalizeWrite, RequeueWrite,
     KeepBudgetWrite, FilesSame, fileVars, SnapInv
<1>6. CASE Tick \/ Lifecycle \/ UNCHANGED vars
  BY <1>6, SnapSame DEF Tick, Lifecycle, Start, Recover, RecoverWrite, Online,
     RequestStop, BeginDrain, Exit, Crash, vars, FilesSame, fileVars, SnapInv,
     TypeOK, Claimers
<1>7. ASSUME NEW e \in Executors, Moves(e) PROVE SnapInv'
  BY <1>7, SnapMoves DEF DaemonAlone
<1> QED
  BY <1>1, <1>2, <1>3, <1>4, <1>5, <1>6, <1>7, <1>8
     DEF Next, Operator, Poke, Execute, DaemonAlone

LEMMA HandNext ==
    ASSUME DaemonAlone, DaemonInv, [Next]_vars PROVE HandInv'
<1> USE DEF DaemonInv, OwnerInv, FileInv
<1>0. /\ Pokes = {} /\ Main \in Claimers /\ Main \in Executors
      /\ Slots \subseteq Executors /\ Main \notin Slots
  BY QueueAssumption DEF DaemonAlone, Claimers, Executors
<1>1. ASSUME UNCHANGED <<daemon, snap>>, \A s \in Slots : Looks(s)' => job'[s] = job[s]
      PROVE  HandInv'
  BY <1>1 DEF HandInv, Looks, AtHand
<1>2. ASSUME \A s \in Slots : ~Looks(s)' PROVE HandInv'
  BY <1>2 DEF HandInv
<1>3. CASE Operator \/ Tick \/ UNCHANGED vars
  BY <1>1, <1>3 DEF Operator, Submit, Remove, Tick, vars
<1>4. CASE PollBegin
  <2>1. \A s \in Slots : ~Looks(s)
    BY <1>4 DEF PollBegin, HandInv
  <2> QED
    BY <1>2, <1>4, <2>1 DEF PollBegin, Looks
<1>5. ASSUME NEW ready \in BOOLEAN, PollLook(ready) PROVE HandInv'
  <2>1. PICK s \in Slots, x \in DaemonClaimable(ready) :
          /\ job' = [job EXCEPT ![s] =
                       [pc |-> "claim", ticket |-> x.ticket, path |-> <<now, x.name>>,
                        retry |-> x.retry, dst |-> x.name]]
          /\ snap' = [snap EXCEPT ![Main] =
                        {y \in snap[Main] : Rank[y.ticket] <= Rank[x.ticket]}]
    BY <1>5 DEF PollLook, LookFirst
  <2>2. x \in snap[Main] /\ x \in Candidate
    BY <1>0 DEF DaemonClaimable, Claimable, TypeOK
  <2>3. AtHand(s)' = [ticket |-> x.ticket, name |-> x.name, retry |-> x.retry]
    BY <1>0, <2>1 DEF AtHand, TypeOK
  <2>4. AtHand(s)' = x
    BY <2>2, <2>3 DEF Candidate
  <2>5. Rank[x.ticket] <= Rank[x.ticket]
    BY <2>2, QueueAssumption DEF Candidate
  <2>6. AtHand(s)' \in snap'[Main]
    BY <1>0, <2>1, <2>2, <2>4, <2>5 DEF TypeOK
  <2>7. \A f \in Slots \ {s} : ~Looks(f)'
    BY <1>0, <1>5, <2>1 DEF PollLook, MidClaim, Looks, TypeOK
  <2>8. daemon' = "claiming"
    BY <1>5 DEF PollLook
  <2> QED
    BY <2>6, <2>7, <2>8 DEF HandInv
<1>6. ASSUME NEW ready \in BOOLEAN, PollNothing(ready) PROVE HandInv'
  BY <1>2, <1>6 DEF PollNothing, MidClaim, Looks
<1>7. ASSUME NEW e \in Executors, ClaimEnds(e) PROVE HandInv'
  <2>1. Looks(e) /\ job[e] \in Job
    BY <1>7 DEF ClaimEnds, ClaimRename, ClaimLost, Looks, TypeOK, NoJob
  <2>2. \A f \in Executors \ {e} : ~Looks(f) /\ job'[f] = job[f]
    BY <1>7, <2>1 DEF ClaimEnds, ClaimRename, ClaimFile, ClaimLost, LookInv, TypeOK
  <2>3. ~Looks(e)'
    BY <1>7, <2>1 DEF ClaimEnds, ClaimRename, ClaimFile, ClaimLost, Looks, TypeOK, Job, NoJob
  <2>4. \A f \in Executors : ~Looks(f)'
    BY <2>2, <2>3 DEF Looks
  <2> QED
    BY <1>0, <1>2, <2>4
<1>8. ASSUME NEW e \in Executors, SessionEnds(e) \/ Moves(e) PROVE HandInv'
  <2>1. \A s \in Slots : Looks(s)' => job'[s] = job[s]
    BY <1>0, <1>8, ExecuteLooks DEF LooksKept
  <2> QED
    BY <1>1, <1>8, <2>1, OwnJob
<1>9. CASE Start \/ Online \/ RequestStop \/ BeginDrain \/ Exit \/ Crash
  <2>1. CASE Start \/ Online \/ BeginDrain \/ Exit
    <3>1. daemon # "claiming" /\ UNCHANGED job
      BY <2>1 DEF Start, Online, BeginDrain, Exit
    <3> QED
      BY <1>2, <3>1 DEF HandInv, Looks
  <2>2. CASE RequestStop
    BY <1>1, <2>2 DEF RequestStop
  <2>3. CASE Crash
    BY <1>0, <1>2, <2>3 DEF Crash, Looks, NoJob
  <2> QED
    BY <1>9, <2>1, <2>2, <2>3
<1>10. ASSUME NEW p \in orphans, RecoverWrite(p) PROVE HandInv'
  <2>1. UNCHANGED <<daemon, snap>> /\ \A s \in Slots : job'[s] = job[s]
    BY <1>0, <1>10 DEF RecoverWrite, TypeOK
  <2> QED
    BY <1>1, <2>1
<1> QED
  BY <1>0, <1>3, <1>4, <1>5, <1>6, <1>7, <1>8, <1>9, <1>10
     DEF Next, Claim, Poke, Execute, Lifecycle, Recover

LEMMA ReposSame ==
    ASSUME ReposApart,
           \A s \in Slots : Idle(s)' \/ (~Idle(s) /\ job'[s].ticket = job[s].ticket)
    PROVE  ReposApart'
  BY DEF ReposApart

LEMMA ExecuteTicket ==
    ASSUME TypeOK, NEW e \in Executors, SessionEnds(e) \/ Moves(e)
    PROVE  Idle(e)' \/ (~Idle(e) /\ job'[e].ticket = job[e].ticket)
<1>0. ~Idle(e) /\ job[e] \in Job
  BY OwnJob DEF Idle, TypeOK
<1>1. CASE SessionEnds(e)
  BY <1>0, <1>1 DEF SessionEnds, Vanished, FinalizeWrite, RequeueWrite, KeepBudgetWrite,
     Goto, TypeOK, Idle, Job
<1>2. ASSUME NEW n, RenameToInbox(e, n) PROVE Idle(e)' \/ job'[e].ticket = job[e].ticket
  BY <1>0, <1>2 DEF RenameToInbox, AfterMove, TypeOK, Idle, Job
<1>3. CASE PickName(e)
  BY <1>0, <1>3 DEF PickName, TypeOK, Job
<1>4. CASE MoveTerminal(e) \/ Settle(e)
  BY <1>0, <1>4 DEF MoveTerminal, Settle, AfterMove, TypeOK, Idle, Job
<1> QED
  BY <1>0, <1>1, <1>2, <1>3, <1>4 DEF Moves, MoveBack, RenameBack

LEMMA ReposNext ==
    ASSUME DaemonAlone, DaemonInv, [Next]_vars PROVE ReposApart'
<1> USE DEF DaemonInv, OwnerInv, FileInv
<1>0. Main \notin Slots /\ Slots \subseteq Executors /\ Pokes = {}
  BY QueueAssumption DEF Executors, DaemonAlone
<1>1. CASE UNCHANGED job
  BY <1>1, ReposSame DEF Idle
<1>2. ASSUME NEW e \in Executors, SessionEnds(e) \/ Moves(e) PROVE ReposApart'
  BY <1>0, <1>2, ExecuteTicket, OwnJob, ReposSame DEF Idle
<1>6. ASSUME NEW e \in Executors, ClaimEnds(e) PROVE ReposApart'
  <2>1. job[e] \in Job /\ ~Idle(e)
    BY <1>6 DEF ClaimEnds, ClaimRename, ClaimLost, TypeOK, NoJob, Idle
  <2>2. Idle(e)' \/ job'[e].ticket = job[e].ticket
    BY <1>6, <2>1 DEF ClaimEnds, ClaimRename, ClaimFile, ClaimLost, TypeOK, Job, Idle
  <2>3. \A f \in Executors \ {e} : job'[f] = job[f]
    BY <1>6 DEF ClaimEnds, ClaimRename, ClaimFile, ClaimLost, TypeOK
  <2> QED
    BY <1>0, <2>1, <2>2, <2>3, ReposSame DEF Idle
<1>3. ASSUME NEW ready \in BOOLEAN, PollLook(ready) PROVE ReposApart'
  <2>1. PICK s \in Slots : LookFirst(Main, s, DaemonClaimable(ready))
    BY <1>3 DEF PollLook
  <2>2. PICK x \in DaemonClaimable(ready) :
          job' = [job EXCEPT ![s] =
                    [pc |-> "claim", ticket |-> x.ticket, path |-> <<now, x.name>>,
                     retry |-> x.retry, dst |-> x.name]]
    BY <2>1 DEF LookFirst
  <2>3. /\ job'[s].ticket = x.ticket
        /\ \A f \in Slots \ {s} : job'[f] = job[f]
    BY <1>0, <2>2 DEF TypeOK
  <2>4. RepoOf[x.ticket] \notin BusyRepos
    BY DEF DaemonClaimable
  <2>5. \A f \in Slots \ {s} : ~Idle(f) /\ RepoOf[job[f].ticket] # NoRepo
                               => RepoOf[job[f].ticket] # RepoOf[x.ticket]
    BY <2>4 DEF BusyRepos
  <2> QED
    BY <2>3, <2>5 DEF ReposApart, Idle
<1>4. ASSUME NEW p \in orphans, RecoverWrite(p) PROVE ReposApart'
  <2>1. \A s \in Slots : job'[s] = job[s]
    BY <1>0, <1>4 DEF RecoverWrite, TypeOK
  <2> QED
    BY <2>1, ReposSame DEF Idle
<1>5. CASE Crash
  BY <1>0, <1>5, ReposSame DEF Crash, Idle
<1> QED
  BY <1>0, <1>1, <1>2, <1>3, <1>4, <1>5, <1>6
     DEF Next, Operator, Submit, Remove, Tick, PollBegin, Claim, PollNothing, Poke,
         Execute, Lifecycle, Start, Recover, Online, RequestStop, BeginDrain, Exit, vars

----------------------------------------------------------------------------
LEMMA DaemonInit == Init => DaemonInv
<1> SUFFICES ASSUME Init PROVE DaemonInv
  OBVIOUS
<1>1. \A e \in Executors : job[e] = NoJob
  BY DEF Init
<1>2. \A t \in Tickets : dir[t] = "none"
  BY DEF Init
<1>3. SnapInv /\ HandInv /\ HoldsAt /\ StrandedAt /\ ReposApart
  BY <1>1, <1>2, NoJobIdle
     DEF Init, SnapInv, HandInv, Looks, NoJob, Claimers, HoldsAt, StrandedAt, ReposApart, Busy, At, Idle, Executors
<1> QED
  BY <1>3, OwnerInit DEF DaemonInv

LEMMA DaemonNext == ASSUME DaemonAlone, DaemonInv, [Next]_vars PROVE DaemonInv'
<1>1. OwnerInv'
  BY OwnerNext DEF DaemonInv, DaemonAlone, SerialLooks
<1> QED
  BY <1>1, SnapNext, HandNext, HoldsNext, StrandedNext, ReposNext DEF DaemonInv

LEMMA DaemonInvariant == ASSUME DaemonAlone PROVE Spec => []DaemonInv
<1>1. DaemonInv /\ [Next]_vars => DaemonInv'
  BY DaemonNext
<1> QED
  BY DaemonInit, <1>1, PTL DEF Spec

(* Without run-once processes, what an executor finalizes or requeues is   *)
(* the file of the ticket it runs, although it holds a path that was read  *)
(* before the readiness await (unless that ticket was removed meanwhile).  *)
THEOREM ExecutorsHoldTheirTicket == ASSUME DaemonAlone PROVE Spec => []HoldsItsTicket
<1>1. DaemonInv => HoldsItsTicket
  BY HoldsIsAt DEF DaemonInv, OwnerInv, FileInv
<1> QED
  BY DaemonInvariant, <1>1, PTL

(* Without run-once processes, tickets of one repository never run at the  *)
(* same time, for any number of slots.                                     *)
THEOREM RepositoriesSerialized == ASSUME DaemonAlone PROVE Spec => []SameRepoSerialized
<1>1. DaemonInv => SameRepoSerialized
  BY NoJobIdle DEF DaemonInv, ReposApart, SameRepoSerialized, Idle, DaemonAlone
<1> QED
  BY DaemonInvariant, <1>1, PTL

(* Without run-once processes, a file in processing/ is being executed, or *)
(* on the list of startup recovery, or the daemon is down and will list it *)
(* at its next start: crashes strand no ticket.                            *)
THEOREM NoTicketStranded == ASSUME DaemonAlone PROVE Spec => []NothingStranded
<1>1. DaemonInv => NothingStranded
  BY StrandedIsAt DEF DaemonInv
<1> QED
  BY DaemonInvariant, <1>1, PTL

LEMMA ExitClean ==
    ASSUME DaemonAlone, DaemonInv, [Next]_vars,
           daemon # "down", daemon' = "down", halts' = halts
    PROVE  ProcessingPaths = {}
<1> USE DEF DaemonInv, OwnerInv, FileInv
<1>1. ASSUME NEW e \in Executors, SessionEnds(e) \/ Moves(e) PROVE UNCHANGED daemon
  BY <1>1, OwnJob
<1>2. halts \in Nat
  BY QueueAssumption DEF TypeOK
<1>6. ASSUME NEW e \in Executors, ClaimEnds(e) PROVE daemon' \in {"polling", daemon}
  BY <1>6 DEF ClaimEnds, ClaimRename, ClaimLost
<1>3. Exit
  BY <1>1, <1>2, <1>6
     DEF Next, Operator, Submit, Remove, Tick, PollBegin, Claim, PollLook, PollNothing,
         Poke, DaemonAlone, Execute, Lifecycle, Start, Recover, RecoverWrite, Online,
         RequestStop, BeginDrain, Crash, vars
<1>4. \A e \in Executors : ~Busy(e)
  BY <1>3, NoJobIdle DEF Exit, Control, Idle, Busy, Executors, DaemonAlone
<1>5. orphans = {} /\ daemon = "draining"
  BY <1>3 DEF Exit, Control
<1> QED
  BY <1>4, <1>5 DEF StrandedAt, ProcessingPaths, At

(* Without run-once processes, a daemon that drains and exits leaves       *)
(* nothing in processing/.                                                 *)
THEOREM ExitsClean == ASSUME DaemonAlone PROVE Spec => CleanExit
<1>1. DaemonInv /\ [Next]_vars
      => [daemon # "down" /\ daemon' = "down" /\ halts' = halts => ProcessingPaths = {}]_vars
  BY ExitClean
<1> QED
  BY DaemonInvariant, <1>1, PTL DEF Spec, CleanExit

----------------------------------------------------------------------------
(* The queue of one daemon implements the life cycle of a ticket: every    *)
(* rename and rewrite of a file is one step of TicketLifecycle, or none.   *)

----------------------------------------------------------------------------
(* What the mapping needs beyond the ownership of files: the retry count a *)
(* claimer read is still the file's when it is charged, and a session is   *)
(* paid for before its ticket is renamed back to the inbox.                *)

Settled(t) == started[t] <= retry[t] + kept[t]

NoneRemoved == \A t \in Tickets : dir[t] # "removed"

RetryIsFresh ==
    /\ \A x \in snap[Main] : x.retry = retry[x.ticket]
    /\ \A e \in Executors : job[e].pc = "running" => job[e].retry = retry[job[e].ticket]

SessionsPaid ==
    /\ \A t \in Tickets : started[t] <= retry[t] + kept[t] + 1
    /\ \A t \in Tickets : dir[t] \in {"none", "inbox"} => Settled(t)
    /\ \A e \in Executors : job[e].pc = "moveBack" => Settled(job[e].ticket)

LifeInv == DaemonInv /\ NoneRemoved /\ RetryIsFresh /\ SessionsPaid

\* One daemon, and nobody removes tickets.
DaemonUndisturbed == DaemonAlone /\ Removable = {}

----------------------------------------------------------------------------
(* Facts the steps share.                                                  *)

LEMMA OwnsItsFile ==
    ASSUME LifeInv, NEW e \in Executors, Busy(e)
    PROVE  /\ job[e] \in Job /\ job[e].ticket \in Tickets
           /\ ClaimedAt(job[e].path) = {job[e].ticket}
           /\ dir[job[e].ticket] = "processing"
<1>1. TypeOK /\ HoldsAt /\ NoneRemoved
  BY DEF LifeInv, DaemonInv, OwnerInv, FileInv
<1>2. job[e] \in Job /\ job[e].ticket \in Tickets
  BY <1>1, NoJobIdle DEF TypeOK, Busy, Job
<1>3. \A t \in Tickets : At(t, job[e].path) <=> t = job[e].ticket
  BY <1>1, <1>2 DEF HoldsAt, NoneRemoved
<1> QED
  BY <1>2, <1>3, ClaimedIsAt DEF At

\* Two executors at work run different tickets.
LEMMA TicketsApart ==
    ASSUME LifeInv, NEW e \in Executors, NEW f \in Executors, e # f, Busy(e), Busy(f)
    PROVE  job[e].ticket # job[f].ticket
<1>1. job[e].path # job[f].path
  BY DEF LifeInv, DaemonInv, OwnerInv, SingleOwner, Busy
<1>2. At(job[e].ticket, job[e].path) /\ At(job[f].ticket, job[f].path)
  BY OwnsItsFile, ClaimedIsAt
<1> QED
  BY <1>1, <1>2 DEF At

\* A candidate waits in the inbox under the name it was read with.
LEMMA CandidateWaits ==
    ASSUME LifeInv, NEW x \in snap[Main]
    PROVE  /\ x.ticket \in Tickets /\ dir[x.ticket] = "inbox"
           /\ InboxAt(x.name) = {x.ticket} /\ x.retry = retry[x.ticket]
<1>1. x.ticket \in Tickets
  BY DEF LifeInv, DaemonInv, OwnerInv, FileInv, TypeOK, Candidate, Claimers
<1>2. InboxAt(x.name) = {x.ticket}
  BY <1>1 DEF LifeInv, DaemonInv, SnapInv, NoneRemoved
<1> QED
  BY <1>1, <1>2 DEF InboxAt, LifeInv, RetryIsFresh

\* The rename of a claim, in full.
LEMMA ClaimDetail ==
    ASSUME LifeInv, DaemonAlone, NEW e \in Executors, ClaimRename(e)
    PROVE  /\ job[e] \in Job /\ job[e].ticket \in Tickets
           /\ dir[job[e].ticket] = "inbox" /\ job[e].retry = retry[job[e].ticket]
           /\ dir' = [dir EXCEPT ![job[e].ticket] = "processing"]
           /\ job' = [job EXCEPT ![e].pc = "running"]
           /\ started' = [started EXCEPT ![job[e].ticket] = @ + 1]
           /\ snap'[Main] = {} /\ UNCHANGED <<retry, kept>>
<1>0. TypeOK /\ LookInv /\ HandInv /\ Pokes = {}
  BY DEF LifeInv, DaemonInv, OwnerInv, FileInv, DaemonAlone
<1>1. /\ e \in Slots /\ job[e] \in Job /\ job[e].ticket \in Tickets
      /\ AtHand(e) \in snap[Main] /\ Looks(e)
  BY <1>0, LooksAtCandidate DEF ClaimRename, Looks
<1>2. AtHand(e).ticket = job[e].ticket /\ AtHand(e).retry = job[e].retry
      /\ AtHand(e).name = job[e].path[2]
  BY DEF AtHand
<1>3. /\ dir[job[e].ticket] = "inbox" /\ job[e].retry = retry[job[e].ticket]
      /\ InboxAt(job[e].path[2]) = {job[e].ticket}
  BY <1>1, <1>2, CandidateWaits
<1>4. ClaimedAt(job[e].path) = {}
  BY <1>0, <1>1 DEF LookInv
<1>5. /\ dir' = [t \in Tickets |-> IF t = job[e].ticket THEN "processing" ELSE dir[t]]
      /\ job' = [job EXCEPT ![e].pc = "running"]
      /\ started' = [started EXCEPT ![job[e].ticket] = @ + 1]
  BY <1>3, <1>4 DEF ClaimRename, ClaimFile
<1>6. dir' = [dir EXCEPT ![job[e].ticket] = "processing"]
  BY <1>0, <1>1, <1>5 DEF TypeOK
<1>7. snap'[Main] = {}
  BY <1>0, <1>1 DEF ClaimRename, PassOf, TypeOK, Claimers
<1> QED
  BY <1>1, <1>3, <1>5, <1>6, <1>7 DEF ClaimRename

\* A charge is of the ticket the executor runs, and counts on from its file.
LEMMA ChargeDetail ==
    ASSUME LifeInv, NEW e \in Executors, RequeueWrite(e)
    PROVE  \E t \in Tickets :
             /\ t = job[e].ticket /\ dir[t] = "processing" /\ retry[t] < MaxRetries
             /\ retry' = [retry EXCEPT ![t] = @ + 1]
             /\ UNCHANGED <<dir, started, kept, snap>>
<1>1. job[e].pc = "running" /\ Busy(e) /\ job[e].retry < MaxRetries
  BY DEF RequeueWrite, Busy, Working
<1>2. PICK u \in ClaimedAt(job[e].path) : ChargeRetry(u, job[e].retry)
  BY DEF RequeueWrite
<1>3. u = job[e].ticket /\ u \in Tickets /\ dir[u] = "processing"
  BY <1>1, <1>2, OwnsItsFile
<1>4. job[e].retry = retry[u]
  BY <1>1, <1>3 DEF LifeInv, RetryIsFresh
<1> QED
  BY <1>1, <1>2, <1>3, <1>4 DEF ChargeRetry, RequeueWrite

LEMMA WaiveDetail ==
    ASSUME LifeInv, NEW e \in Executors, KeepBudgetWrite(e)
    PROVE  \E t \in Tickets :
             /\ t = job[e].ticket /\ dir[t] = "processing"
             /\ kept' = [kept EXCEPT ![t] = @ + 1]
             /\ UNCHANGED <<dir, started, retry, snap>>
<1>1. job[e].pc = "running" /\ Busy(e)
  BY DEF KeepBudgetWrite, Busy, Working
<1>2. PICK u \in ClaimedAt(job[e].path) : kept' = [kept EXCEPT ![u] = @ + 1]
  BY DEF KeepBudgetWrite
<1>3. u = job[e].ticket /\ u \in Tickets /\ dir[u] = "processing"
  BY <1>1, <1>2, OwnsItsFile
<1> QED
  BY <1>2, <1>3 DEF KeepBudgetWrite

\* The two kinds of move out of processing/.
LEMMA BackDetail ==
    ASSUME LifeInv, NEW e \in Executors, MoveBack(e)
    PROVE  /\ job[e].ticket \in Tickets /\ dir[job[e].ticket] = "processing"
           /\ Settled(job[e].ticket)
           /\ dir' = [dir EXCEPT ![job[e].ticket] = "inbox"]
           /\ AfterMove(e) /\ UNCHANGED <<started, retry, kept, snap>>
<1>1. job[e].pc = "moveBack" /\ Busy(e)
  BY DEF MoveBack, Busy, Working
<1>2. PICK n \in BackNames(job[e].path[2]) : RenameToInbox(e, n)
  BY DEF MoveBack
<1>3. InboxAt(n) = {}
  BY <1>2, BackNamesFree
<1>4. ClaimedAt(job[e].path) = {job[e].ticket} /\ job[e].ticket \in Tickets
  BY <1>1, OwnsItsFile
<1>5. dir' = [t \in Tickets |-> IF t = job[e].ticket THEN "inbox" ELSE dir[t]]
  BY <1>2, <1>3, <1>4 DEF RenameToInbox
<1>6. dir' = [dir EXCEPT ![job[e].ticket] = "inbox"]
  BY <1>4, <1>5 DEF LifeInv, DaemonInv, OwnerInv, FileInv, TypeOK
<1> QED
  BY <1>1, <1>2, <1>4, <1>6, OwnsItsFile
     DEF RenameToInbox, MoveBack, LifeInv, SessionsPaid

LEMMA TerminalDetail ==
    ASSUME LifeInv, NEW e \in Executors, MoveTerminal(e)
    PROVE  /\ job[e].ticket \in Tickets /\ dir[job[e].ticket] = "processing"
           /\ \E d \in {"done", "failed"} : dir' = [dir EXCEPT ![job[e].ticket] = d]
           /\ AfterMove(e) /\ UNCHANGED <<started, retry, kept, snap>>
<1>1. job[e].pc \in {"toDone", "toFailed"} /\ Busy(e)
  BY DEF MoveTerminal, Busy, Working
<1>2. ClaimedAt(job[e].path) = {job[e].ticket} /\ job[e].ticket \in Tickets
  BY <1>1, OwnsItsFile
<1> DEFINE d == IF job[e].pc = "toDone" THEN "done" ELSE "failed"
<1>3. dir' = [t \in Tickets |-> IF t = job[e].ticket THEN d ELSE dir[t]]
  BY <1>2 DEF MoveTerminal
<1>4. dir' = [dir EXCEPT ![job[e].ticket] = d]
  BY <1>2, <1>3 DEF LifeInv, DaemonInv, OwnerInv, FileInv, TypeOK
<1>5. d \in {"done", "failed"}
  OBVIOUS
<1>6. AfterMove(e) /\ UNCHANGED <<started, retry, kept, snap>>
  BY <1>2 DEF MoveTerminal
<1> QED
  BY <1>1, <1>2, <1>4, <1>5, <1>6, OwnsItsFile

\* Startup recovery charges the file it finds, once, or gives it up.
LEMMA RecoverDetail ==
    ASSUME LifeInv, NEW p \in orphans, RecoverWrite(p)
    PROVE  \/ UNCHANGED <<dir, retry, started, kept, snap, job>>
           \/ \E t \in Tickets :
                /\ dir[t] = "processing" /\ UNCHANGED <<dir, started, kept, snap>>
                /\ \/ /\ retry[t] < MaxRetries /\ retry' = [retry EXCEPT ![t] = @ + 1]
                      /\ job' = [job EXCEPT ![Main] =
                                   [pc |-> "moveBack", ticket |-> t, path |-> p,
                                    retry |-> retry[t], dst |-> p[2]]]
                   \/ /\ UNCHANGED retry
                      /\ job' = [job EXCEPT ![Main] =
                                   [pc |-> "toFailed", ticket |-> t, path |-> p,
                                    retry |-> retry[t], dst |-> p[2]]]
<1>1. CASE ClaimedAt(p) = {}
  BY <1>1 DEF RecoverWrite
<1>2. CASE ClaimedAt(p) # {}
  BY <1>2 DEF RecoverWrite, ChargeRetry, ClaimedAt
<1> QED
  BY <1>1, <1>2

----------------------------------------------------------------------------
(* The invariant is preserved.                                             *)

Counters == <<retry, started, kept>>

\* Every executor that still runs, or is about to rename back, did so before.
NoNewWork ==
    \A e \in Executors : job'[e].pc \in {"running", "moveBack"} => job'[e] = job[e]

CountInv == NoneRemoved /\ RetryIsFresh /\ SessionsPaid

LEMMA CountsAlone ==
    ASSUME LifeInv, UNCHANGED Counters, snap'[Main] \subseteq snap[Main], NoNewWork,
           \A t \in Tickets : dir'[t] # "removed",
           \A t \in Tickets : dir'[t] \in {"none", "inbox"} =>
               dir[t] \in {"none", "inbox"} \/ Settled(t)
    PROVE  CountInv'
<1>1. RetryIsFresh /\ SessionsPaid
  BY DEF LifeInv
<1>2. NoneRemoved'
  BY DEF NoneRemoved
<1>3. RetryIsFresh'
  BY <1>1 DEF RetryIsFresh, NoNewWork, Counters
<1>4. SessionsPaid'
  BY <1>1 DEF SessionsPaid, NoNewWork, Settled, Counters
<1> QED
  BY <1>2, <1>3, <1>4 DEF CountInv

LEMMA CountsCharged ==
    ASSUME LifeInv, NEW t \in Tickets, dir[t] = "processing",
           retry' = [retry EXCEPT ![t] = @ + 1], UNCHANGED <<dir, started, kept, snap>>,
           \A f \in Executors : job'[f].pc = "running" => job'[f] = job[f] /\ job[f].ticket # t,
           \A f \in Executors : job'[f].pc = "moveBack" => job'[f] = job[f] \/ job'[f].ticket = t
    PROVE  CountInv'
<1>1. RetryIsFresh /\ SessionsPaid /\ NoneRemoved /\ TypeOK
  BY DEF LifeInv, DaemonInv, OwnerInv, FileInv
<1>2. retry \in [Tickets -> Nat] /\ started \in [Tickets -> Nat] /\ kept \in [Tickets -> Nat]
  BY <1>1 DEF TypeOK
<1>3. NoneRemoved'
  BY <1>1 DEF NoneRemoved
<1>4. \A x \in snap[Main] : x.ticket # t
  BY CandidateWaits
<1>5. RetryIsFresh'
  BY <1>1, <1>2, <1>4 DEF RetryIsFresh
<1>6. \A u \in Tickets : retry'[u] \in Nat /\ retry'[u] >= retry[u]
  BY <1>2
<1>7. Settled(t)'
  BY <1>1, <1>2 DEF Settled, SessionsPaid
<1>8. \A u : u # t => retry'[u] = retry[u]
  BY <1>2
<1>9. SessionsPaid'
  BY <1>1, <1>2, <1>6, <1>7, <1>8 DEF SessionsPaid, Settled
<1> QED
  BY <1>3, <1>5, <1>9 DEF CountInv

LEMMA CountsWaived ==
    ASSUME LifeInv, NEW t \in Tickets, dir[t] = "processing",
           kept' = [kept EXCEPT ![t] = @ + 1], UNCHANGED <<dir, started, retry, snap>>,
           \A f \in Executors : job'[f].pc = "running" => job'[f] = job[f],
           \A f \in Executors : job'[f].pc = "moveBack" => job'[f] = job[f] \/ job'[f].ticket = t
    PROVE  CountInv'
<1>1. RetryIsFresh /\ SessionsPaid /\ NoneRemoved /\ TypeOK
  BY DEF LifeInv, DaemonInv, OwnerInv, FileInv
<1>2. retry \in [Tickets -> Nat] /\ started \in [Tickets -> Nat] /\ kept \in [Tickets -> Nat]
  BY <1>1 DEF TypeOK
<1>3. NoneRemoved' /\ RetryIsFresh'
  BY <1>1 DEF NoneRemoved, RetryIsFresh
<1>4. \A u \in Tickets : kept'[u] \in Nat /\ kept'[u] >= kept[u]
  BY <1>2
<1>5. Settled(t)'
  BY <1>1, <1>2 DEF Settled, SessionsPaid
<1>6. \A u : u # t => kept'[u] = kept[u]
  BY <1>2
<1>7. SessionsPaid'
  BY <1>1, <1>2, <1>4, <1>5, <1>6 DEF SessionsPaid, Settled
<1> QED
  BY <1>3, <1>7 DEF CountInv

LEMMA CountsClaimed ==
    ASSUME LifeInv, DaemonAlone, NEW s \in Executors, ClaimRename(s) PROVE CountInv'
<1>1. RetryIsFresh /\ SessionsPaid /\ NoneRemoved /\ TypeOK
  BY DEF LifeInv, DaemonInv, OwnerInv, FileInv
<1>a. PICK t \in Tickets : t = job[s].ticket
  BY ClaimDetail
<1>2. /\ job[s] \in Job /\ dir' = [dir EXCEPT ![t] = "processing"]
      /\ job' = [job EXCEPT ![s].pc = "running"]
      /\ started' = [started EXCEPT ![t] = @ + 1]
      /\ snap'[Main] = {} /\ UNCHANGED <<retry, kept>>
  BY <1>a, ClaimDetail
<1>3. dir[t] = "inbox" /\ job[s].retry = retry[t]
  BY <1>a, ClaimDetail
<1>5. job'[s].pc = "running" /\ job'[s].ticket = t /\ job'[s].retry = retry[t]
  BY <1>1, <1>2, <1>3, <1>a DEF TypeOK, Job
<1>6. \A f \in Executors \ {s} : job'[f] = job[f]
  BY <1>1, <1>2 DEF TypeOK
<1>7. NoneRemoved'
  BY <1>1, <1>2, <1>3 DEF NoneRemoved, TypeOK
<1>8. RetryIsFresh'
  BY <1>1, <1>2, <1>3, <1>5, <1>6 DEF RetryIsFresh
<1>9. Settled(t)
  BY <1>1, <1>3 DEF SessionsPaid
<1>10. \A f \in Executors : job[f].pc = "moveBack" => job[f].ticket # t
  BY <1>3, OwnsItsFile DEF Busy, Working
<1>11. started \in [Tickets -> Nat] /\ retry \in [Tickets -> Nat] /\ kept \in [Tickets -> Nat]
  BY <1>1 DEF TypeOK
<1>12. /\ started'[t] = started[t] + 1
       /\ \A u : u # t => started'[u] = started[u]
  BY <1>2, <1>3, <1>11
<1>13. dir'[t] = "processing" /\ \A u \in Tickets : u # t => dir'[u] = dir[u]
  BY <1>1, <1>2, <1>3 DEF TypeOK
<1>14. SessionsPaid'
  <2>1. \A u \in Tickets : started'[u] <= retry[u] + kept[u] + 1
    BY <1>1, <1>9, <1>11, <1>12 DEF SessionsPaid, Settled
  <2>2. \A u \in Tickets : dir'[u] \in {"none", "inbox"} => started'[u] <= retry[u] + kept[u]
    BY <1>1, <1>12, <1>13 DEF SessionsPaid, Settled
  <2>3. \A f \in Executors : job'[f].pc = "moveBack" => job'[f] = job[f]
    BY <1>5, <1>6
  <2>4. \A f \in Executors : job'[f].pc = "moveBack" =>
            started'[job'[f].ticket] <= retry[job'[f].ticket] + kept[job'[f].ticket]
    BY <1>1, <1>10, <1>12, <2>3 DEF SessionsPaid, Settled
  <2> QED
    BY <1>2, <2>1, <2>2, <2>4 DEF SessionsPaid, Settled
<1> QED
  BY <1>7, <1>8, <1>14 DEF CountInv

\* What an executor does to its own entry of job.
LEMMA OtherJobs ==
    ASSUME LifeInv, NEW e \in Executors, SessionEnds(e) \/ Moves(e)
    PROVE  \A f \in Executors \ {e} : job'[f] = job[f]
<1>0. TypeOK
  BY DEF LifeInv, DaemonInv, OwnerInv, FileInv
<1>1. CASE SessionEnds(e)
  BY <1>0, <1>1 DEF SessionEnds, Vanished, FinalizeWrite, RequeueWrite, KeepBudgetWrite,
     Goto, TypeOK
<1>2. CASE Moves(e)
  BY <1>0, <1>2 DEF Moves, MoveBack, PickName, RenameBack, RenameToInbox, MoveTerminal,
     Settle, AfterMove, TypeOK
<1> QED
  BY <1>1, <1>2

LEMMA CountsSession ==
    ASSUME LifeInv, NEW e \in Executors, SessionEnds(e) PROVE CountInv'
<1>0. TypeOK /\ NoneRemoved /\ Held
  BY DEF LifeInv, DaemonInv, OwnerInv, FileInv
<1>1. \A f \in Executors \ {e} : job'[f] = job[f]
  BY OtherJobs
<1>2. job[e].pc = "running" /\ Busy(e) /\ job[e] \in Job
  <2>1. job[e].pc = "running" /\ Busy(e)
    BY DEF SessionEnds, Vanished, FinalizeWrite, RequeueWrite, KeepBudgetWrite, Busy, Working
  <2> QED
    BY <2>1, OwnsItsFile
<1>3. CASE Vanished(e) \/ FinalizeWrite(e)
  <2>1. job'[e].pc \notin {"running", "moveBack"}
    BY <1>0, <1>2, <1>3 DEF Vanished, FinalizeWrite, Goto, TypeOK, NoJob, Job
  <2>2. NoNewWork
    BY <1>1, <2>1 DEF NoNewWork
  <2>3. UNCHANGED <<dir, snap>> /\ UNCHANGED Counters
    BY <1>3 DEF Vanished, FinalizeWrite, fileVars, Counters
  <2> QED
    BY <1>0, <2>2, <2>3, CountsAlone DEF NoneRemoved
<1>4. CASE RequeueWrite(e)
  <2>1. PICK t \in Tickets :
          /\ t = job[e].ticket /\ dir[t] = "processing" /\ retry[t] < MaxRetries
          /\ retry' = [retry EXCEPT ![t] = @ + 1]
          /\ UNCHANGED <<dir, started, kept, snap>>
    BY <1>4, ChargeDetail
  <2>2. job'[e].pc = "moveBack" /\ job'[e].ticket = t
    BY <1>0, <1>2, <1>4, <2>1 DEF RequeueWrite, Goto, TypeOK, Job
  <2>3. \A f \in Executors : job'[f].pc = "running" => job'[f] = job[f] /\ job[f].ticket # t
    <3> SUFFICES ASSUME NEW f \in Executors, job'[f].pc = "running"
                 PROVE  job'[f] = job[f] /\ job[f].ticket # t
      OBVIOUS
    <3>1. f # e /\ job'[f] = job[f]
      BY <1>1, <2>2
    <3>2. Busy(f)
      BY <3>1 DEF Busy, Working
    <3> QED
      BY <1>2, <2>1, <3>1, <3>2, TicketsApart
  <2> QED
    BY <1>1, <2>1, <2>2, <2>3, CountsCharged
<1>5. CASE KeepBudgetWrite(e)
  <2>1. PICK t \in Tickets :
          /\ t = job[e].ticket /\ dir[t] = "processing"
          /\ kept' = [kept EXCEPT ![t] = @ + 1]
          /\ UNCHANGED <<dir, started, retry, snap>>
    BY <1>5, WaiveDetail
  <2>2. job'[e].pc = "moveBack" /\ job'[e].ticket = t
    BY <1>0, <1>2, <1>5, <2>1 DEF KeepBudgetWrite, Goto, TypeOK, Job
  <2> QED
    BY <1>1, <2>1, <2>2, CountsWaived
<1> QED
  BY <1>3, <1>4, <1>5 DEF SessionEnds

LEMMA CountsMoves ==
    ASSUME LifeInv, AtomicMoveBack, NEW e \in Executors, Moves(e) PROVE CountInv'
<1>0. TypeOK /\ NoneRemoved /\ NoPickedName
  BY DEF LifeInv, DaemonInv, OwnerInv, FileInv
<1>1. \A f \in Executors \ {e} : job'[f] = job[f]
  BY OtherJobs
<1>2. job[e] # NoJob => job[e] \in Job
  BY <1>0 DEF TypeOK
<1>3. AfterMove(e) \/ job'[e] = NoJob => job'[e].pc \notin {"running", "moveBack"} \/ job[e] = NoJob
  BY <1>0, <1>2 DEF AfterMove, TypeOK, Job, NoJob
<1>4. CASE MoveBack(e) \/ MoveTerminal(e)
  <2>1. /\ AfterMove(e) /\ UNCHANGED Counters /\ UNCHANGED snap
        /\ job[e].ticket \in Tickets
        /\ \/ Settled(job[e].ticket) /\ dir' = [dir EXCEPT ![job[e].ticket] = "inbox"]
           \/ \E d \in {"done", "failed"} : dir' = [dir EXCEPT ![job[e].ticket] = d]
    BY <1>4, BackDetail, TerminalDetail DEF Counters
  <2>2. job[e] # NoJob
    BY <1>4 DEF MoveBack, MoveTerminal, NoJob
  <2>3. NoNewWork
    BY <1>1, <1>3, <2>1, <2>2 DEF NoNewWork
  <2>4. \A t \in Tickets : dir'[t] # "removed"
    BY <1>0, <2>1 DEF NoneRemoved, TypeOK
  <2>5. \A t \in Tickets : dir'[t] \in {"none", "inbox"} =>
            dir[t] \in {"none", "inbox"} \/ Settled(t)
    BY <1>0, <2>1 DEF TypeOK
  <2> QED
    BY <2>1, <2>3, <2>4, <2>5, CountsAlone
<1>5. CASE Settle(e)
  <2>1. NoNewWork /\ UNCHANGED Counters /\ UNCHANGED <<dir, snap>>
    BY <1>0, <1>1, <1>5 DEF Settle, NoNewWork, fileVars, Counters, TypeOK, NoJob
  <2> QED
    BY <1>0, <2>1, CountsAlone DEF NoneRemoved
<1>6. ~PickName(e) /\ ~RenameBack(e)
  BY <1>0 DEF PickName, RenameBack, NoPickedName
<1> QED
  BY <1>4, <1>5, <1>6 DEF Moves

LEMMA CountsRecovered ==
    ASSUME LifeInv, NEW p \in orphans, RecoverWrite(p) PROVE CountInv'
<1>0. TypeOK /\ NoneRemoved /\ Main \in Executors
  BY DEF LifeInv, DaemonInv, OwnerInv, FileInv, Executors
<1>1. daemon = "recovering" /\ Idle(Main)
  BY DEF RecoverWrite
<1>2. CASE UNCHANGED <<dir, retry, started, kept, snap, job>>
  BY <1>0, <1>2, CountsAlone DEF NoneRemoved, Counters, NoNewWork
<1>3. ASSUME NEW t \in Tickets, dir[t] = "processing", UNCHANGED <<dir, started, kept, snap>>,
             NEW pc, NEW j, j.pc = pc, j.ticket = t,
             job' = [job EXCEPT ![Main] = j],
             \/ pc = "moveBack" /\ retry' = [retry EXCEPT ![t] = @ + 1]
             \/ pc = "toFailed" /\ UNCHANGED retry
      PROVE  CountInv'
  <2>1. job'[Main] = j /\ \A f \in Executors \ {Main} : job'[f] = job[f]
    BY <1>0, <1>3 DEF TypeOK
  <2>2. CASE pc = "toFailed"
    BY <1>0, <1>3, <2>1, <2>2, CountsAlone DEF NoneRemoved, Counters, NoNewWork
  <2>3. CASE pc = "moveBack"
    <3>1. \A f \in Executors : job'[f].pc = "running" => job'[f] = job[f] /\ Busy(f)
      BY <1>3, <2>1, <2>3 DEF Busy, Working
    <3>2. \A f \in Executors \ {Main} : Idle(f) \/ f \in Pokes
      BY <1>1 DEF LifeInv, DaemonInv, OwnerInv, Control, Executors
    <3>3. \A f \in Pokes : Idle(f)
      BY <1>1 DEF LifeInv, DaemonInv, OwnerInv, Control
    <3>4. \A f \in Executors : job'[f].pc # "running"
      BY <1>3, <2>1, <2>3, <3>1, <3>2, <3>3, NoJobIdle DEF Idle, Busy
    <3> QED
      BY <1>3, <2>1, <2>3, <3>4, CountsCharged
  <2> QED
    BY <1>3, <2>2, <2>3
<1>4. CASE \E t \in Tickets :
             /\ dir[t] = "processing" /\ UNCHANGED <<dir, started, kept, snap>>
             /\ \/ /\ retry[t] < MaxRetries /\ retry' = [retry EXCEPT ![t] = @ + 1]
                   /\ job' = [job EXCEPT ![Main] =
                                [pc |-> "moveBack", ticket |-> t, path |-> p,
                                 retry |-> retry[t], dst |-> p[2]]]
                \/ /\ UNCHANGED retry
                   /\ job' = [job EXCEPT ![Main] =
                                [pc |-> "toFailed", ticket |-> t, path |-> p,
                                 retry |-> retry[t], dst |-> p[2]]]
  <2>1. PICK t \in Tickets :
          /\ dir[t] = "processing" /\ UNCHANGED <<dir, started, kept, snap>>
          /\ \E pc : \E j :
               /\ j.pc = pc /\ j.ticket = t /\ job' = [job EXCEPT ![Main] = j]
               /\ \/ pc = "moveBack" /\ retry' = [retry EXCEPT ![t] = @ + 1]
                  \/ pc = "toFailed" /\ UNCHANGED retry
    BY <1>4
  <2> QED
    BY <1>3, <2>1
<1> QED
  BY <1>2, <1>4, RecoverDetail

LEMMA LifeNext == ASSUME DaemonUndisturbed, LifeInv, [Next]_vars PROVE LifeInv'
<1>0. TypeOK /\ NoneRemoved /\ AtomicMoveBack /\ Pokes = {}
  BY DEF LifeInv, DaemonInv, OwnerInv, FileInv, DaemonUndisturbed, DaemonAlone
<1>1. SUFFICES CountInv'
  BY DaemonNext DEF LifeInv, CountInv, DaemonUndisturbed
<1>2. ASSUME UNCHANGED Counters, UNCHANGED job, snap'[Main] \subseteq snap[Main],
             \A t \in Tickets : dir'[t] = dir[t] \/ (dir[t] = "none" /\ dir'[t] = "inbox")
      PROVE  CountInv'
  BY <1>0, <1>2, CountsAlone DEF NoneRemoved, NoNewWork
<1>3. ASSUME NEW t \in Tickets, Submit(t) PROVE CountInv'
  BY <1>0, <1>2, <1>3 DEF Submit, TypeOK, Counters
<1>4. ASSUME NEW t \in Tickets, Remove(t) PROVE FALSE
  BY <1>4 DEF Remove, DaemonUndisturbed
<1>5. CASE UNCHANGED vars \/ Tick \/ Start \/ Online \/ RequestStop \/ BeginDrain \/ Exit
  <2>1. UNCHANGED <<dir, job, retry, started, kept, snap>>
    BY <1>5 DEF vars, Tick, Start, Online, RequestStop, BeginDrain, Exit, fileVars
  <2>2. UNCHANGED Counters /\ snap'[Main] \subseteq snap[Main]
    BY <2>1 DEF Counters
  <2> QED
    BY <1>2, <2>1, <2>2
<1>6. CASE PollBegin
  <2>1. snap'[Main] = Candidates /\ UNCHANGED <<job, dir, retry, started, kept>>
    BY <1>0, <1>6 DEF PollBegin, fileVars, TypeOK, Claimers
  <2>2. \A x \in Candidates : x.retry = retry[x.ticket]
    BY DEF Candidates
  <2> QED
    <3>1. NoneRemoved' /\ SessionsPaid'
      BY <2>1 DEF LifeInv, NoneRemoved, SessionsPaid, Settled
    <3>2. RetryIsFresh'
      BY <2>1, <2>2 DEF LifeInv, RetryIsFresh
    <3> QED
      BY <3>1, <3>2 DEF CountInv
<1>7. ASSUME NEW ready \in BOOLEAN, PollNothing(ready) PROVE CountInv'
  BY <1>0, <1>2, <1>7 DEF PollNothing, fileVars, Counters, TypeOK, Claimers
<1>9. ASSUME NEW ready \in BOOLEAN, PollLook(ready) PROVE CountInv'
  <2>1. PICK s \in Slots : LookFirst(Main, s, DaemonClaimable(ready))
    BY <1>9 DEF PollLook
  <2>2. UNCHANGED Counters /\ UNCHANGED dir
    BY <1>9 DEF PollLook, fileVars, Counters
  <2>3. snap'[Main] \subseteq snap[Main]
    BY <1>0, <2>1 DEF LookFirst, TypeOK, Claimers
  <2>4. NoNewWork
    BY <1>0, <2>1 DEF NoNewWork, LookFirst, TypeOK, Executors
  <2> QED
    BY <1>0, <2>2, <2>3, <2>4, CountsAlone DEF NoneRemoved
<1>10. ASSUME NEW e \in Executors, ClaimLost(e) PROVE CountInv'
  <2>1. UNCHANGED Counters /\ UNCHANGED dir
    BY <1>10 DEF ClaimLost, fileVars, Counters
  <2>2. snap'[Main] \subseteq snap[Main]
    BY <1>0, <1>10 DEF ClaimLost, TypeOK, Claimers
  <2>3. NoNewWork
    BY <1>0, <1>10 DEF NoNewWork, ClaimLost, TypeOK, NoJob
  <2> QED
    BY <1>0, <2>1, <2>2, <2>3, CountsAlone DEF NoneRemoved
<1>8. CASE Crash
  <2>1. \A e \in Executors : job'[e].pc \notin {"running", "moveBack"}
    BY <1>0, <1>8 DEF Crash, NoJob
  <2> QED
    <3>1. UNCHANGED Counters /\ snap'[Main] \subseteq snap[Main] /\ UNCHANGED dir
      BY <1>0, <1>8 DEF Crash, fileVars, Counters, TypeOK, Claimers
    <3> QED
      BY <1>0, <2>1, <3>1, CountsAlone DEF NoNewWork, NoneRemoved
<1>11. DaemonAlone
  BY DEF DaemonUndisturbed
<1> QED
  BY <1>0, <1>3, <1>4, <1>5, <1>6, <1>7, <1>8, <1>9, <1>10, <1>11, CountsClaimed,
     CountsSession, CountsMoves, CountsRecovered
     DEF Next, Operator, Claim, ClaimEnds, Poke, Execute, Lifecycle, Recover

LEMMA LifeInit == Init => LifeInv
<1> SUFFICES ASSUME Init PROVE LifeInv
  OBVIOUS
<1>1. \A e \in Executors : job[e].pc = "idle"
  BY DEF Init, NoJob
<1>2. NoneRemoved /\ RetryIsFresh /\ SessionsPaid
  BY <1>1, QueueAssumption DEF Init, Claimers, NoneRemoved, RetryIsFresh, SessionsPaid, Settled
<1> QED
  BY <1>2, DaemonInit DEF LifeInv

----------------------------------------------------------------------------
(* The mapping: each step of the queue is a step of the life cycle, or     *)
(* leaves it alone.                                                        *)

LifeVars == <<phaseOf, retry, started, kept>>

LEMMA PhaseTyped ==
    ASSUME TypeOK, NEW t \in Tickets
    PROVE  /\ dir[t] = "none" => phaseOf[t] = "unsubmitted"
           /\ dir[t] = "inbox" => phaseOf[t] = "queued"
           /\ dir[t] = "processing" => phaseOf[t] = "running"
  BY DEF phaseOf, Phase

\* A rename of t's file moves t from one phase to the other.
LEMMA PhaseMoves ==
    ASSUME TypeOK, NEW t \in Tickets, NEW d, dir' = [dir EXCEPT ![t] = d],
           d \in {"inbox", "processing", "done", "failed"}
    PROVE  phaseOf' = [phaseOf EXCEPT ![t] = Phase[d]]
  BY DEF phaseOf, TypeOK

LEMMA PhaseSame == UNCHANGED dir => UNCHANGED phaseOf
  BY DEF phaseOf

LEMMA PhaseNames ==
    /\ Phase["inbox"] = "queued" /\ Phase["processing"] = "running"
    /\ Phase["done"] = "done" /\ Phase["failed"] = "failed"
  BY DEF Phase

LEMMA SubmitMaps ==
    ASSUME TypeOK, NEW t \in Tickets, Submit(t) PROVE Abstract!Submit(t)
<1>1. dir[t] = "none" /\ dir' = [dir EXCEPT ![t] = "inbox"] /\ UNCHANGED <<retry, started, kept>>
  BY DEF Submit
<1>2. phaseOf[t] = "unsubmitted"
  BY <1>1, PhaseTyped
<1>3. phaseOf' = [phaseOf EXCEPT ![t] = Phase["inbox"]]
  BY <1>1, PhaseMoves
<1> QED
  BY <1>1, <1>2, <1>3, PhaseNames DEF Abstract!Submit, Abstract!Move

LEMMA ClaimMaps ==
    ASSUME LifeInv, DaemonAlone, NEW e \in Executors, ClaimRename(e)
    PROVE  \E t \in Tickets : Abstract!Start(t)
<1>0. TypeOK /\ SessionsPaid
  BY DEF LifeInv, DaemonInv, OwnerInv, FileInv
<1>1. PICK t \in Tickets :
        /\ dir[t] = "inbox" /\ dir' = [dir EXCEPT ![t] = "processing"]
        /\ started' = [started EXCEPT ![t] = @ + 1]
        /\ UNCHANGED <<retry, kept>>
  BY ClaimDetail
<1>3. Settled(t)
  BY <1>0, <1>1 DEF SessionsPaid
<1>4. phaseOf[t] = "queued"
  BY <1>0, <1>1, PhaseTyped
<1>5. phaseOf' = [phaseOf EXCEPT ![t] = Phase["processing"]]
  BY <1>0, <1>1, PhaseMoves
<1>6. Abstract!Start(t)
  BY <1>1, <1>3, <1>4, <1>5, PhaseNames DEF Abstract!Start, Abstract!Move, Abstract!Paid, Settled
<1> QED
  BY <1>6

LEMMA ExecuteMaps ==
    ASSUME LifeInv, AtomicMoveBack, NEW e \in Executors, SessionEnds(e) \/ Moves(e)
    PROVE  Abstract!Next \/ UNCHANGED LifeVars
<1>0. TypeOK /\ NoPickedName
  BY DEF LifeInv, DaemonInv, OwnerInv, FileInv
<1>1. CASE Vanished(e) \/ FinalizeWrite(e) \/ Settle(e)
  BY <1>1, PhaseSame DEF Vanished, FinalizeWrite, Settle, fileVars, LifeVars
<1>2. CASE RequeueWrite(e)
  <2>1. PICK t \in Tickets :
          /\ dir[t] = "processing" /\ retry[t] < MaxRetries
          /\ retry' = [retry EXCEPT ![t] = @ + 1]
          /\ UNCHANGED <<dir, started, kept, snap>>
    BY <1>2, ChargeDetail
  <2>2. Abstract!Charge(t)
    BY <1>0, <2>1, PhaseTyped, PhaseSame DEF Abstract!Charge
  <2> QED
    BY <2>2 DEF Abstract!Next
<1>3. CASE KeepBudgetWrite(e)
  <2>1. PICK t \in Tickets :
          /\ dir[t] = "processing" /\ kept' = [kept EXCEPT ![t] = @ + 1]
          /\ UNCHANGED <<dir, started, retry, snap>>
    BY <1>3, WaiveDetail
  <2>2. Abstract!Waive(t)
    BY <1>0, <2>1, PhaseTyped, PhaseSame DEF Abstract!Waive
  <2> QED
    BY <2>2 DEF Abstract!Next
<1>4. CASE MoveBack(e)
  <2>1. Abstract!Requeue(job[e].ticket) /\ job[e].ticket \in Tickets
    BY <1>0, <1>4, BackDetail, PhaseTyped, PhaseMoves, PhaseNames
       DEF Abstract!Requeue, Abstract!Move, Abstract!Paid, Settled
  <2> QED
    BY <2>1 DEF Abstract!Next
<1>5. CASE MoveTerminal(e)
  <2>1. Abstract!Settle(job[e].ticket) /\ job[e].ticket \in Tickets
    BY <1>0, <1>5, TerminalDetail, PhaseTyped, PhaseMoves, PhaseNames
       DEF Abstract!Settle, Abstract!Move
  <2> QED
    BY <2>1 DEF Abstract!Next
<1>6. ~PickName(e) /\ ~RenameBack(e)
  BY <1>0 DEF PickName, RenameBack, NoPickedName
<1> QED
  BY <1>1, <1>2, <1>3, <1>4, <1>5, <1>6 DEF SessionEnds, Moves

LEMMA RecoverMaps ==
    ASSUME LifeInv, NEW p \in orphans, RecoverWrite(p)
    PROVE  Abstract!Next \/ UNCHANGED LifeVars
<1>0. TypeOK
  BY DEF LifeInv, DaemonInv, OwnerInv, FileInv
<1>1. CASE UNCHANGED <<dir, retry, started, kept>>
  BY <1>1, PhaseSame DEF LifeVars
<1>2. ASSUME NEW t \in Tickets, dir[t] = "processing", retry[t] < MaxRetries,
             retry' = [retry EXCEPT ![t] = @ + 1], UNCHANGED <<dir, started, kept>>
      PROVE  Abstract!Next
  <2>1. Abstract!Charge(t)
    BY <1>0, <1>2, PhaseTyped, PhaseSame DEF Abstract!Charge
  <2> QED
    BY <2>1 DEF Abstract!Next
<1> QED
  BY <1>1, <1>2, RecoverDetail

LEMMA StepMaps ==
    ASSUME DaemonUndisturbed, LifeInv, [Next]_vars
    PROVE  Abstract!Next \/ UNCHANGED LifeVars
<1>0. TypeOK /\ AtomicMoveBack /\ Pokes = {}
  BY DEF LifeInv, DaemonInv, OwnerInv, FileInv, DaemonUndisturbed, DaemonAlone
<1>1. CASE Operator
  BY <1>0, <1>1, SubmitMaps DEF Operator, Remove, DaemonUndisturbed, Abstract!Next
<1>2. CASE UNCHANGED vars \/ Tick \/ PollBegin
  BY <1>2, PhaseSame DEF vars, Tick, PollBegin, fileVars, LifeVars
<1>3. CASE Claim
  BY <1>3, PhaseSame DEF Claim, PollLook, PollNothing, fileVars, LifeVars
<1>4. CASE Execute
  <2>1. ASSUME NEW e \in Executors, ClaimLost(e) PROVE UNCHANGED LifeVars
    BY <2>1, PhaseSame DEF ClaimLost, fileVars, LifeVars
  <2>2. ASSUME NEW e \in Executors, ClaimRename(e) PROVE Abstract!Next
    BY <2>2, ClaimMaps DEF Abstract!Next, DaemonUndisturbed
  <2> QED
    BY <1>0, <1>4, <2>1, <2>2, ExecuteMaps DEF Execute, ClaimEnds
<1>5. CASE Recover
  BY <1>5, RecoverMaps DEF Recover
<1>6. CASE Start \/ Online \/ RequestStop \/ BeginDrain \/ Exit \/ Crash
  BY <1>6, PhaseSame DEF Start, Online, RequestStop, BeginDrain, Exit, Crash, fileVars, LifeVars
<1> QED
  BY <1>0, <1>1, <1>2, <1>3, <1>4, <1>5, <1>6 DEF Next, Poke, Lifecycle

LEMMA InitMaps == Init => Abstract!Init
  BY DEF Init, Abstract!Init, phaseOf, Phase

(* One daemon's queue implements the life cycle of a ticket, through every *)
(* crash, stop and restart: no ticket is lost or in two phases, a session  *)
(* starts only for a queued ticket, and a ticket is queued again only      *)
(* after its last session was charged to the bounded budget or waived.     *)
THEOREM QueueImplementsLifecycle ==
    ASSUME DaemonUndisturbed PROVE Spec => ImplementsLifecycle
<1>1. LifeInv /\ [Next]_vars => LifeInv'
  BY LifeNext
<1>2. LifeInv /\ [Next]_vars => [Abstract!Next]_(Abstract!lifecycleVars)
  BY StepMaps DEF LifeVars, Abstract!lifecycleVars
<1> QED
  BY <1>1, <1>2, LifeInit, InitMaps, PTL DEF Spec, ImplementsLifecycle, Abstract!Spec
=============================================================================
