--------------------------- MODULE DaemonProofs ----------------------------
(***************************************************************************)
(* What is around the work of a daemon, proved of the three modules that   *)
(* model it. What has to hold before a queued ticket is claimed: its       *)
(* dependencies delivered (TicketDeps), for every dependency graph and     *)
(* every number of retries, resubmissions and kills; and the gate open and *)
(* the day's budget unspent (ProviderGate), for every number of tickets    *)
(* and slots and every cap and backoff. And the tree it works in: that     *)
(* `junco data migrate` loses none of it (DataMigrate), for every number   *)
(* of faults and of daemons that start beside it. The three parts are      *)
(* independent of each other.                                              *)
(***************************************************************************)
EXTENDS TicketDeps, ProviderGate, DataMigrate, FiniteSetTheorems, TLAPS

----------------------------------------------------------------------------
(* I. The dependencies (TicketDeps).                                       *)

(* What the proofs need of the types. That failed/ has room enough is not  *)
(* among it.                                                               *)
FailedFile == [sat : SUBSET Tickets, dep : Tickets \cup {NoDep}]

FilesTyped ==
    /\ inbox \in [Tickets -> MaybeFile]
    /\ running \in [Tickets -> MaybeFile]
    /\ failed \in [Tickets -> [Places -> FailedFile \cup {NoFile}]]
    /\ done \in [Tickets -> Seq(PrRecords)]

SweepTyped ==
    /\ sweep.pc \in {"idle", "edge", "probe", "stamp", "cascade"}
    /\ sweep.pc # "idle" => sweep.todo \subseteq Edge
    /\ sweep.pc \in {"probe", "stamp", "cascade"} => sweep.edge \in Edge

\* What a retry has still to visit or to unlink is in failed/.
RetryTyped ==
    \/ retry = IdleRetry
    \/ retry \in Retrying /\ retry.todo \subseteq FailedFiles /\ retry.copied \cap retry.todo = {}

Typed == FilesTyped /\ SweepTyped /\ RetryTyped

(* A dependency is delivered for good once a done record says so: done/     *)
(* only grows, and "none" and "merged" are final.                           *)
Delivered == {d \in Tickets : \E i \in DOMAIN done[d] : done[d][i] \in {"none", "merged"}}

DoneGrows ==
    \A d \in Tickets : \A i \in DOMAIN done[d] :
        /\ i \in DOMAIN done'[d]
        /\ done[d][i] \in {"none", "merged"} => done'[d][i] = done[d][i]

\* Whatever copy carries a stamp, the stamp is true.
StampsTrue ==
    /\ \A t \in Tickets : inbox[t] # NoFile => inbox[t].sat \subseteq Delivered
    /\ \A t \in Tickets : running[t] # NoFile =>
          running[t].sat \subseteq Delivered /\ DependsOn[t] \subseteq running[t].sat
    /\ \A t \in Tickets, i \in Places : failed[t][i] # NoFile =>
          failed[t][i].sat \subseteq Delivered

\* So is what the sweep is about to stamp, and what it remembers of merges.
SweepKnows ==
    /\ sweep.pc # "idle" => \A c \in sweep.cache :
          c.state \in {"none", "merged"} => c.pr[1] \in Delivered
    /\ sweep.pc = "probe" => sweep.rec \in DOMAIN done[sweep.edge[2]]
    /\ sweep.pc = "stamp" => sweep.edge[2] \in Delivered

Inv == Typed /\ StampsTrue /\ SweepKnows

----------------------------------------------------------------------------
(* Lemmas.                                                                 *)

LEMMA FilesDiffer == \A x \in FailedFile : x # NoFile
  BY DEF FailedFile, NoFile

LEMMA FileTyped == \A x \in MaybeFile : x # NoFile => x \in [sat : SUBSET Tickets]
  BY DEF MaybeFile, File

\* A file that arrives in failed/ replaces nothing but free places.
LEMMA FailTyped ==
    ASSUME FilesTyped, NEW t \in Tickets, NEW x \in [sat : SUBSET Tickets],
           NEW dep \in Tickets \cup {NoDep}, Fail(t, x, dep)
    PROVE  /\ failed' \in [Tickets -> [Places -> FailedFile \cup {NoFile}]]
           /\ FailedFiles \subseteq FailedFiles'
           /\ \A u \in Tickets, i \in Places :
                 failed'[u][i] = failed[u][i] \/ failed'[u][i] = [sat |-> x.sat, dep |-> dep]
<1> DEFINE new == [sat |-> x.sat, dep |-> dep]
<1>1. new \in FailedFile /\ new # NoFile
  BY FilesDiffer DEF FailedFile
<1> HIDE DEF new
<1>2. failed' = [failed EXCEPT ![t][FreePlace(t)] = new]
  BY DEF Fail, new
<1>3. failed' \in [Tickets -> [Places -> FailedFile \cup {NoFile}]]
  BY <1>1, <1>2 DEF FilesTyped
<1>4. \A u \in Tickets, i \in Places : failed'[u][i] = failed[u][i] \/ failed'[u][i] = new
  BY <1>2 DEF FilesTyped
<1> QED
  BY <1>1, <1>3, <1>4 DEF FailedFiles, new

----------------------------------------------------------------------------
(* done/ only grows.                                                       *)

LEMMA PrMoves ==
    ASSUME FilesTyped, NEW t \in Tickets, NEW i \in Places, NEW from \in PrRecords,
           NEW to \in PrRecords, from \notin {"none", "merged"}, SetPr(t, i, from, to)
    PROVE  DoneGrows /\ done' \in [Tickets -> Seq(PrRecords)]
<1>1. /\ i \in DOMAIN done[t] /\ done[t][i] = from
      /\ done' = [done EXCEPT ![t][i] = to]
  BY DEF SetPr
<1>2. [done[t] EXCEPT ![i] = to] \in Seq(PrRecords)
  BY <1>1 DEF FilesTyped
<1>3. done' = [done EXCEPT ![t] = [done[t] EXCEPT ![i] = to]]
  BY <1>1 DEF FilesTyped
<1>4. DOMAIN [done[t] EXCEPT ![i] = to] = DOMAIN done[t]
  OBVIOUS
<1>5. done' \in [Tickets -> Seq(PrRecords)]
  BY <1>2, <1>3 DEF FilesTyped
<1>6. DoneGrows
  BY <1>1, <1>3, <1>4 DEF FilesTyped, DoneGrows
<1> QED
  BY <1>5, <1>6

LEMMA GitHubMoves ==
    ASSUME FilesTyped, GitHub
    PROVE  /\ DoneGrows /\ done' \in [Tickets -> Seq(PrRecords)]
           /\ UNCHANGED <<inbox, running, failed, sweep, retry, left>>
<1>1. PICK t \in Tickets, i \in Places :
        Flush(t, i) \/ Merge(t, i) \/ Close(t, i) \/ Reopen(t, i)
  BY DEF GitHub
<1>2. PICK from \in {"queued", "open", "closed"}, to \in PrRecords : SetPr(t, i, from, to)
  BY <1>1 DEF Flush, Merge, Close, Reopen, PrRecords
<1>3. from \in PrRecords /\ from \notin {"none", "merged"}
  BY DEF PrRecords
<1>4. DoneGrows /\ done' \in [Tickets -> Seq(PrRecords)]
  BY <1>2, <1>3, PrMoves
<1> QED
  BY <1>2, <1>4 DEF SetPr

LEMMA SucceedMoves ==
    ASSUME FilesTyped, NEW t \in Tickets, Succeed(t)
    PROVE  DoneGrows /\ done' \in [Tickets -> Seq(PrRecords)]
<1>1. PICK pr \in PrRecords : done' = [done EXCEPT ![t] = Append(@, pr)]
  BY DEF Succeed, PrRecords
<1>2. done[t] \in Seq(PrRecords)
  BY DEF FilesTyped
<1>3. /\ Append(done[t], pr) \in Seq(PrRecords)
      /\ \A i \in DOMAIN done[t] : /\ i \in DOMAIN Append(done[t], pr)
                                   /\ Append(done[t], pr)[i] = done[t][i]
  BY <1>2
<1>4. done' = [done EXCEPT ![t] = Append(done[t], pr)]
  BY <1>1
<1> HIDE DEF PrRecords
<1> QED
  BY <1>3, <1>4 DEF FilesTyped, DoneGrows

\* What is delivered stays delivered.
LEMMA DeliveredStays == DoneGrows => Delivered \subseteq Delivered'
  BY DEF DoneGrows, Delivered

LEMMA DoneSame == UNCHANGED done => DoneGrows
  BY DEF DoneGrows

----------------------------------------------------------------------------
(* What a step that leaves a part alone preserves of it.                   *)

LEMMA SweepSame ==
    ASSUME SweepTyped, SweepKnows, DoneGrows, UNCHANGED sweep
    PROVE  SweepTyped' /\ SweepKnows'
<1>1. SweepTyped'
  BY DEF SweepTyped
<1>2. sweep.pc = "probe" => sweep.edge[2] \in Tickets
  BY DEF SweepTyped, Edge
<1>3. (sweep.pc = "probe" => sweep.rec \in DOMAIN done[sweep.edge[2]])'
  BY <1>2 DEF SweepKnows, DoneGrows
<1> QED
  BY <1>1, <1>3, DeliveredStays DEF SweepKnows

LEMMA RetrySame ==
    ASSUME RetryTyped, FailedFiles \subseteq FailedFiles', UNCHANGED retry
    PROVE  RetryTyped'
  BY DEF RetryTyped

LEMMA FilesSame ==
    ASSUME FilesTyped, StampsTrue, DoneGrows, done' \in [Tickets -> Seq(PrRecords)],
           UNCHANGED <<inbox, running, failed>>
    PROVE  FilesTyped' /\ StampsTrue' /\ FailedFiles \subseteq FailedFiles'
<1>1. FilesTyped' /\ FailedFiles \subseteq FailedFiles'
  BY DEF FilesTyped, FailedFiles
<1>2. StampsTrue'
  BY DeliveredStays DEF StampsTrue
<1> QED
  BY <1>1, <1>2

----------------------------------------------------------------------------
(* The queue's own steps.                                                  *)

LEMMA SubmitOK == ASSUME Inv, NEW t \in Tickets, Submit(t) PROVE Inv'
<1>1. /\ inbox' = [inbox EXCEPT ![t] = [sat |-> {}]]
      /\ UNCHANGED <<running, failed, done, sweep, retry>>
  BY DEF Submit
<1>2. FilesTyped'
  BY <1>1 DEF Inv, Typed, FilesTyped, MaybeFile, File
<1>3. DoneGrows /\ FailedFiles \subseteq FailedFiles'
  BY <1>1, DoneSame DEF FailedFiles
<1>4. StampsTrue'
  BY <1>1, <1>3, DeliveredStays DEF Inv, Typed, FilesTyped, StampsTrue
<1> QED
  BY <1>1, <1>2, <1>3, <1>4, SweepSame, RetrySame DEF Inv, Typed

LEMMA RemoveOK == ASSUME Inv, NEW t \in Tickets, Remove(t) PROVE Inv'
<1>1. /\ inbox' = [inbox EXCEPT ![t] = NoFile]
      /\ UNCHANGED <<running, failed, done, sweep, retry>>
  BY DEF Remove
<1>2. FilesTyped'
  BY <1>1 DEF Inv, Typed, FilesTyped, MaybeFile
<1>3. DoneGrows /\ FailedFiles \subseteq FailedFiles'
  BY <1>1, DoneSame DEF FailedFiles
<1>4. StampsTrue'
  BY <1>1, <1>3, DeliveredStays DEF Inv, Typed, FilesTyped, StampsTrue
<1> QED
  BY <1>1, <1>2, <1>3, <1>4, SweepSame, RetrySame DEF Inv, Typed

LEMMA ClaimOK == ASSUME Inv, NEW t \in Tickets, Claim(t) PROVE Inv'
<1>1. /\ inbox[t] # NoFile /\ DependsOn[t] \subseteq inbox[t].sat
      /\ running' = [running EXCEPT ![t] = inbox[t]]
      /\ inbox' = [inbox EXCEPT ![t] = NoFile]
      /\ UNCHANGED <<failed, done, sweep, retry>>
  BY DEF Claim, Unblocked
<1>2. FilesTyped'
  BY <1>1 DEF Inv, Typed, FilesTyped, MaybeFile
<1>3. DoneGrows /\ FailedFiles \subseteq FailedFiles'
  BY <1>1, DoneSame DEF FailedFiles
<1>4. StampsTrue'
  BY <1>1, <1>3, DeliveredStays DEF Inv, Typed, FilesTyped, StampsTrue
<1> QED
  BY <1>1, <1>2, <1>3, <1>4, SweepSame, RetrySame DEF Inv, Typed

LEMMA RequeueOK == ASSUME Inv, NEW t \in Tickets, Requeue(t) PROVE Inv'
<1>1. /\ running[t] # NoFile
      /\ inbox' = [inbox EXCEPT ![t] = running[t]]
      /\ running' = [running EXCEPT ![t] = NoFile]
      /\ UNCHANGED <<failed, done, sweep, retry>>
  BY DEF Requeue
<1>2. FilesTyped'
  BY <1>1 DEF Inv, Typed, FilesTyped, MaybeFile
<1>3. DoneGrows /\ FailedFiles \subseteq FailedFiles'
  BY <1>1, DoneSame DEF FailedFiles
<1>4. StampsTrue'
  BY <1>1, <1>3, DeliveredStays DEF Inv, Typed, FilesTyped, StampsTrue
<1> QED
  BY <1>1, <1>2, <1>3, <1>4, SweepSame, RetrySame DEF Inv, Typed

LEMMA SucceedOK == ASSUME Inv, NEW t \in Tickets, Succeed(t) PROVE Inv'
<1>1. /\ running' = [running EXCEPT ![t] = NoFile]
      /\ UNCHANGED <<inbox, failed, sweep, retry>>
  BY DEF Succeed
<1>2. DoneGrows /\ done' \in [Tickets -> Seq(PrRecords)]
  BY SucceedMoves DEF Inv, Typed
<1>3. FilesTyped' /\ FailedFiles \subseteq FailedFiles'
  BY <1>1, <1>2 DEF Inv, Typed, FilesTyped, MaybeFile, FailedFiles
<1>4. StampsTrue'
  BY <1>1, <1>2, DeliveredStays DEF Inv, Typed, FilesTyped, StampsTrue
<1> QED
  BY <1>1, <1>2, <1>3, <1>4, SweepSame, RetrySame DEF Inv, Typed

LEMMA FailTerminallyOK == ASSUME Inv, NEW t \in Tickets, FailTerminally(t) PROVE Inv'
<1>1. /\ running[t] # NoFile /\ Fail(t, running[t], NoDep)
      /\ running' = [running EXCEPT ![t] = NoFile]
      /\ UNCHANGED <<inbox, done, sweep, retry>>
  BY DEF FailTerminally
<1>2. running[t] \in [sat : SUBSET Tickets] /\ running[t].sat \subseteq Delivered
  BY <1>1, FileTyped DEF Inv, Typed, FilesTyped, StampsTrue
<1>3. DoneGrows
  BY <1>1, DoneSame
<1>4. /\ failed' \in [Tickets -> [Places -> FailedFile \cup {NoFile}]]
      /\ FailedFiles \subseteq FailedFiles'
      /\ \A u \in Tickets, i \in Places :
            \/ failed'[u][i] = failed[u][i]
            \/ failed'[u][i] = [sat |-> running[t].sat, dep |-> NoDep]
  BY <1>1, <1>2, FailTyped DEF Inv, Typed
<1>5. FilesTyped'
  BY <1>1, <1>4 DEF Inv, Typed, FilesTyped, MaybeFile
<1>6. (\A u \in Tickets, i \in Places :
          failed[u][i] # NoFile => failed[u][i].sat \subseteq Delivered)'
  BY <1>2, <1>3, <1>4, DeliveredStays DEF Inv, StampsTrue
<1>7. StampsTrue'
  BY <1>1, <1>3, <1>6, DeliveredStays DEF Inv, Typed, FilesTyped, StampsTrue
<1> QED
  BY <1>1, <1>3, <1>4, <1>5, <1>7, SweepSame, RetrySame DEF Inv, Typed

LEMMA GitHubOK == ASSUME Inv, GitHub PROVE Inv'
<1>1. /\ DoneGrows /\ done' \in [Tickets -> Seq(PrRecords)]
      /\ UNCHANGED <<inbox, running, failed, sweep, retry, left>>
  BY GitHubMoves DEF Inv, Typed
<1> QED
  BY <1>1, FilesSame, SweepSame, RetrySame DEF Inv, Typed

----------------------------------------------------------------------------
(* The sweep's steps.                                                      *)

\* A sweep state that may follow: typed, and sure of what it stamps.
Sound(s) ==
    /\ s.pc \in {"edge", "stamp", "cascade"}
    /\ s.todo \subseteq Edge
    /\ s.pc # "edge" => s.edge \in Edge
    /\ \A c \in s.cache : c.state \in {"none", "merged"} => c.pr[1] \in Delivered
    /\ s.pc = "stamp" => s.edge[2] \in Delivered

\* Judge is sound when the state it is given is that of the edge's dependency.
LEMMA JudgeSound ==
    ASSUME SweepTyped, SweepKnows, sweep.pc # "idle", NEW e \in Edge, NEW i, NEW state,
           state \in {"none", "merged"} => e[2] \in Delivered,
           NEW known, \A c \in known : c.state \in {"none", "merged"} => c.pr[1] \in Delivered
    PROVE  Sound(Judge(e, i, state)) /\ Sound([Judge(e, i, state) EXCEPT !.cache = known])
<1>1. /\ sweep.todo \ {e} \subseteq Edge
      /\ \A c \in sweep.cache : c.state \in {"none", "merged"} => c.pr[1] \in Delivered
  BY DEF SweepTyped, SweepKnows
<1>2. CASE state \in {"none", "merged"}
  <2>1. Judge(e, i, state) = At("stamp", e, i)
    BY <1>2 DEF Judge
  <2> QED
    BY <1>1, <1>2, <2>1 DEF Sound, At
<1>3. CASE state = "closed"
  <2>1. Judge(e, i, state) = At("cascade", e, i)
    BY <1>3 DEF Judge
  <2> QED
    BY <1>1, <2>1 DEF Sound, At
<1>4. CASE state \notin {"none", "merged", "closed"}
  <2>1. Judge(e, i, state) = Wait(e)
    BY <1>4 DEF Judge
  <2> QED
    BY <1>1, <2>1 DEF Sound, Wait, NextEdge
<1> QED
  BY <1>2, <1>3, <1>4

LEMMA SoundNext ==
    ASSUME Inv, Sound(sweep'), UNCHANGED <<files, retry>>
    PROVE  Inv'
<1>1. DoneGrows /\ done' \in [Tickets -> Seq(PrRecords)]
  BY DoneSame DEF files, Inv, Typed, FilesTyped
<1>2. FilesTyped' /\ StampsTrue' /\ FailedFiles \subseteq FailedFiles'
  BY <1>1, FilesSame DEF Inv, Typed, files
<1>3. SweepTyped' /\ SweepKnows'
  BY DEF Sound, SweepTyped, SweepKnows, Delivered, files
<1> QED
  BY <1>2, <1>3, RetrySame DEF Inv, Typed

LEMMA IdleNext ==
    ASSUME Inv, sweep' = IdleSweep, UNCHANGED <<files, retry>>
    PROVE  Inv'
<1>1. DoneGrows /\ done' \in [Tickets -> Seq(PrRecords)]
  BY DoneSame DEF files, Inv, Typed, FilesTyped
<1>2. FilesTyped' /\ StampsTrue' /\ FailedFiles \subseteq FailedFiles'
  BY <1>1, FilesSame DEF Inv, Typed, files
<1>3. SweepTyped' /\ SweepKnows'
  BY DEF IdleSweep, SweepTyped, SweepKnows
<1> QED
  BY <1>2, <1>3, RetrySame DEF Inv, Typed

LEMMA PassSound ==
    ASSUME NEW cache, \A c \in cache : c.state \in {"none", "merged"} => c.pr[1] \in Delivered
    PROVE  Sound(Pass(cache))
  BY DEF Sound, Pass, Waiting

LEMMA SweepBeginOK == ASSUME Inv, SweepBegin PROVE Inv'
<1>1. Sound(Pass({}))
  BY PassSound
<1> QED
  BY <1>1, SoundNext DEF SweepBegin, Sound, Delivered, files

LEMMA SweepEdgeOK == ASSUME Inv, SweepEdge PROVE Inv'
<1>1. PICK e \in sweep.todo :
        CASE TicketState(e[2]) = "done" -> \E i \in DOMAIN done[e[2]] : JudgeDone(e, i)
          [] TicketState(e[2]) = "failed" -> sweep' = At("cascade", e, 1)
          [] OTHER -> sweep' = Wait(e)
  BY DEF SweepEdge
<1>2. /\ sweep.pc = "edge" /\ e \in Edge /\ e[2] \in Tickets /\ sweep.todo \subseteq Edge
      /\ UNCHANGED <<files, retry>>
  BY DEF SweepEdge, Inv, Typed, SweepTyped, Edge
<1>3. \A c \in sweep.cache : c.state \in {"none", "merged"} => c.pr[1] \in Delivered
  BY <1>2 DEF Inv, SweepKnows
<1>4. CASE \E i \in DOMAIN done[e[2]] : JudgeDone(e, i)
  <2>1. PICK i \in DOMAIN done[e[2]] : JudgeDone(e, i)
    BY <1>4
  <2>2. done[e[2]][i] \in {"none", "merged"} => e[2] \in Delivered
    BY <1>2 DEF Delivered
  <2>3. CASE sweep' = At("probe", e, i)
    <3>1. SweepTyped' /\ SweepKnows'
      BY <1>2, <1>3, <2>3 DEF At, SweepTyped, SweepKnows, Delivered, files
    <3>2. DoneGrows /\ done' \in [Tickets -> Seq(PrRecords)]
      BY <1>2, DoneSame DEF files, Inv, Typed, FilesTyped
    <3>3. FilesTyped' /\ StampsTrue' /\ FailedFiles \subseteq FailedFiles'
      BY <1>2, <3>2, FilesSame DEF Inv, Typed, files
    <3> QED
      BY <1>2, <3>1, <3>3, RetrySame DEF Inv, Typed
  <2>4. CASE sweep' = Judge(e, i, done[e[2]][i])
    <3>1. Sound(Judge(e, i, done[e[2]][i]))
      BY <1>2, <1>3, <2>2, JudgeSound DEF Inv, Typed
    <3>2. Sound(sweep')
      BY <2>4, <3>1
    <3> QED
      BY <1>2, <3>2, SoundNext
  <2>5. CASE \E c \in sweep.cache : c.pr = <<e[2], i>> /\ sweep' = Judge(e, i, c.state)
    <3>1. PICK c \in sweep.cache : c.pr = <<e[2], i>> /\ sweep' = Judge(e, i, c.state)
      BY <2>5
    <3>2. c.state \in {"none", "merged"} => e[2] \in Delivered
      BY <1>3, <3>1
    <3>3. Sound(sweep')
      BY <1>2, <1>3, <3>1, <3>2, JudgeSound DEF Inv, Typed
    <3> QED
      BY <1>2, <3>3, SoundNext
  <2> QED
    BY <2>1, <2>3, <2>4, <2>5 DEF JudgeDone
<1>5. CASE sweep' = At("cascade", e, 1)
  <2>1. Sound(sweep')
    BY <1>2, <1>3, <1>5 DEF Sound, At
  <2> QED
    BY <1>2, <2>1, SoundNext
<1>6. CASE sweep' = Wait(e)
  <2>1. Sound(sweep')
    BY <1>2, <1>3, <1>6 DEF Sound, Wait, NextEdge
  <2> QED
    BY <1>2, <2>1, SoundNext
<1> QED
  BY <1>1, <1>4, <1>5, <1>6

LEMMA SweepAnswerOK == ASSUME Inv, NEW reached \in BOOLEAN, SweepAnswer(reached) PROVE Inv'
<1> DEFINE e == sweep.edge
           state == IF reached THEN done[e[2]][sweep.rec] ELSE "unknown"
           known == sweep.cache \cup {[pr |-> <<e[2], sweep.rec>>, state |-> state]}
<1>1. /\ sweep.pc = "probe" /\ UNCHANGED <<files, retry>>
      /\ sweep' = [Judge(e, sweep.rec, state) EXCEPT !.cache = known]
  BY DEF SweepAnswer
<1>2. e \in Edge /\ e[2] \in Tickets /\ sweep.rec \in DOMAIN done[e[2]]
  BY <1>1 DEF Inv, Typed, SweepTyped, SweepKnows, Edge
<1>3. state \in {"none", "merged"} => e[2] \in Delivered
  BY <1>2 DEF Delivered
<1>4. \A c \in known : c.state \in {"none", "merged"} => c.pr[1] \in Delivered
  BY <1>1, <1>3 DEF Inv, SweepKnows
<1> HIDE DEF e, state, known
<1>5. Sound(sweep')
  BY <1>1, <1>2, <1>3, <1>4, JudgeSound DEF Inv, Typed
<1> QED
  BY <1>1, <1>5, SoundNext

LEMMA SweepStampOK == ASSUME Inv, SweepStamp PROVE Inv'
<1> DEFINE t == sweep.edge[1]
           d == sweep.edge[2]
<1>1. /\ sweep.pc = "stamp" /\ inbox[t] # NoFile
      /\ inbox' = [inbox EXCEPT ![t].sat = @ \cup {d}]
      /\ sweep' = NextEdge(sweep.todo, sweep.cache, TRUE)
      /\ UNCHANGED <<running, failed, done, retry>>
  BY DEF SweepStamp, Stamped
<1>2. t \in Tickets /\ d \in Tickets /\ d \in Delivered /\ sweep.todo \subseteq Edge
  BY <1>1 DEF Inv, Typed, SweepTyped, SweepKnows, Edge
<1>3. inbox[t] \in [sat : SUBSET Tickets] /\ inbox[t].sat \subseteq Delivered
  BY <1>1, <1>2, FileTyped DEF Inv, Typed, FilesTyped, StampsTrue
<1> HIDE DEF t, d
<1>4. inbox' = [inbox EXCEPT ![t] = [sat |-> inbox[t].sat \cup {d}]]
  <2>1. [inbox[t] EXCEPT !.sat = @ \cup {d}] = [sat |-> inbox[t].sat \cup {d}]
    BY <1>3
  <2>2. inbox' = [inbox EXCEPT ![t] = [inbox[t] EXCEPT !.sat = @ \cup {d}]]
    BY <1>1
  <2> QED
    BY <2>1, <2>2
<1>5. FilesTyped' /\ FailedFiles \subseteq FailedFiles'
  BY <1>1, <1>2, <1>3, <1>4 DEF Inv, Typed, FilesTyped, MaybeFile, File, FailedFiles
<1>6. DoneGrows /\ Delivered' = Delivered
  BY <1>1, DoneSame DEF Delivered
<1>7. StampsTrue'
  BY <1>1, <1>2, <1>3, <1>4, <1>6 DEF Inv, Typed, FilesTyped, StampsTrue
<1>8. SweepTyped' /\ SweepKnows'
  BY <1>1, <1>2, <1>6 DEF Inv, NextEdge, SweepTyped, SweepKnows
<1> QED
  BY <1>1, <1>5, <1>7, <1>8, RetrySame DEF Inv, Typed

LEMMA SweepCascadeOK == ASSUME Inv, SweepCascade PROVE Inv'
<1> DEFINE t == sweep.edge[1]
           d == sweep.edge[2]
<1>1. /\ sweep.pc = "cascade" /\ inbox[t] # NoFile /\ Fail(t, inbox[t], d)
      /\ inbox' = [inbox EXCEPT ![t] = NoFile]
      /\ sweep' = NextEdge({e \in sweep.todo : e[1] # t}, sweep.cache, TRUE)
      /\ UNCHANGED <<running, done, retry>>
  BY DEF SweepCascade
<1>2. t \in Tickets /\ d \in Tickets /\ sweep.todo \subseteq Edge
  BY <1>1 DEF Inv, Typed, SweepTyped, Edge
<1>3. inbox[t] \in [sat : SUBSET Tickets] /\ inbox[t].sat \subseteq Delivered
  BY <1>1, <1>2, FileTyped DEF Inv, Typed, FilesTyped, StampsTrue
<1> HIDE DEF t, d
<1>4. /\ failed' \in [Tickets -> [Places -> FailedFile \cup {NoFile}]]
      /\ FailedFiles \subseteq FailedFiles'
      /\ \A u \in Tickets, i \in Places :
            \/ failed'[u][i] = failed[u][i]
            \/ failed'[u][i] = [sat |-> inbox[t].sat, dep |-> d]
  BY <1>1, <1>2, <1>3, FailTyped DEF Inv, Typed
<1>5. FilesTyped'
  BY <1>1, <1>2, <1>4 DEF Inv, Typed, FilesTyped, MaybeFile
<1>6. DoneGrows /\ Delivered' = Delivered
  BY <1>1, DoneSame DEF Delivered
<1>7. StampsTrue'
  <2>1. (\A u \in Tickets, i \in Places :
            failed[u][i] # NoFile => failed[u][i].sat \subseteq Delivered)'
    BY <1>3, <1>4, <1>6 DEF Inv, StampsTrue
  <2>2. (\A u \in Tickets : inbox[u] # NoFile => inbox[u].sat \subseteq Delivered)'
    BY <1>1, <1>6 DEF Inv, Typed, FilesTyped, StampsTrue
  <2> QED
    BY <1>1, <1>6, <2>1, <2>2 DEF Inv, StampsTrue
<1>8. SweepTyped' /\ SweepKnows'
  BY <1>1, <1>2, <1>6 DEF Inv, NextEdge, SweepTyped, SweepKnows
<1> QED
  BY <1>1, <1>4, <1>5, <1>7, <1>8, RetrySame DEF Inv, Typed

LEMMA SweepPassEndsOK == ASSUME Inv, SweepPassEnds PROVE Inv'
<1>1. \A c \in sweep.cache : c.state \in {"none", "merged"} => c.pr[1] \in Delivered
  BY DEF SweepPassEnds, Inv, SweepKnows
<1>2. CASE sweep.changed
  <2>1. Sound(Pass(sweep.cache))
    BY <1>1, PassSound
  <2> QED
    BY <1>2, <2>1, SoundNext DEF SweepPassEnds
<1>3. CASE ~sweep.changed
  BY <1>3, IdleNext DEF SweepPassEnds
<1> QED
  BY <1>2, <1>3

LEMMA SweepStopsOK == ASSUME Inv, SweepThrows \/ SweepKilled PROVE Inv'
  BY IdleNext DEF SweepThrows, SweepKilled

----------------------------------------------------------------------------
(* The retry's steps.                                                      *)

LEMMA RetryOnly ==
    ASSUME Inv, RetryTyped', UNCHANGED <<files, sweep>>
    PROVE  Inv'
<1>1. DoneGrows /\ done' \in [Tickets -> Seq(PrRecords)]
  BY DoneSame DEF files, Inv, Typed, FilesTyped
<1>2. FilesTyped' /\ StampsTrue'
  BY <1>1, FilesSame DEF Inv, Typed, files
<1>3. SweepTyped' /\ SweepKnows'
  BY <1>1, SweepSame DEF Inv, Typed
<1> QED
  BY <1>2, <1>3 DEF Inv, Typed

LEMMA RetryBeginOK == ASSUME Inv, RetryBegin PROVE Inv'
<1> DEFINE before == {<<f[1], failed[f[1]][f[2]].dep>> : f \in FailedFiles}
<1>1. PICK targets \in {{f} : f \in FailedFiles} \cup ({FailedFiles} \ {{}}) :
        retry' = [phase |-> "named", todo |-> targets, copied |-> {}, ids |-> {},
                  refused |-> {}, grew |-> FALSE, before |-> before]
  BY DEF RetryBegin
<1>2. UNCHANGED <<files, sweep>>
  BY DEF RetryBegin
<1>3. targets \subseteq FailedFiles /\ FailedFiles \subseteq Tickets \X Places
  BY DEF FailedFiles
<1>4. \A f \in FailedFiles : failed[f[1]][f[2]].dep \in Tickets \cup {NoDep}
  BY DEF FailedFiles, Inv, Typed, FilesTyped, FailedFile
<1>5. before \in SUBSET (Tickets \X (Tickets \cup {NoDep}))
  BY <1>3, <1>4
<1> HIDE DEF before
<1>6. FailedFiles' = FailedFiles
  BY <1>2 DEF files, FailedFiles
<1>7. RetryTyped'
  BY <1>1, <1>3, <1>5, <1>6 DEF RetryTyped, Retrying
<1> QED
  BY <1>2, <1>7, RetryOnly

LEMMA RetryEntryOK == ASSUME Inv, RetryEntry PROVE Inv'
<1>1. PICK f \in retry.todo :
        \/ /\ retry' = [retry EXCEPT !.todo = @ \ {f}]
           /\ UNCHANGED inbox
        \/ /\ retry' = [retry EXCEPT !.todo = @ \ {f}, !.refused = @ \cup {f[1]}]
           /\ UNCHANGED inbox
        \/ /\ inbox' = [inbox EXCEPT ![f[1]] = [sat |-> failed[f[1]][f[2]].sat]]
           /\ retry' = [retry EXCEPT !.todo = @ \ {f}, !.copied = {f}]
  BY DEF RetryEntry
<1>2. UNCHANGED <<running, failed, done, sweep>>
  BY DEF RetryEntry
<1>3. /\ retry \in Retrying /\ retry.todo \subseteq FailedFiles
      /\ retry.copied \cap retry.todo = {}
  BY DEF RetryEntry, Inv, Typed, RetryTyped
<1>4. /\ f \in Tickets \X Places /\ f[1] \in Tickets
      /\ failed[f[1]][f[2]] \in FailedFile /\ failed[f[1]][f[2]].sat \subseteq Delivered
  BY <1>3 DEF FailedFiles, Inv, Typed, FilesTyped, StampsTrue
<1>5. FailedFiles' = FailedFiles
  BY <1>2 DEF FailedFiles
<1>6. RetryTyped'
  <2>1. retry'.todo = retry.todo \ {f}
    BY <1>1, <1>3 DEF Retrying
  <2>2. retry'.copied = retry.copied \/ retry'.copied = {f}
    BY <1>1, <1>3 DEF Retrying
  <2>3. retry' \in Retrying
    <3>1. CASE retry' = [retry EXCEPT !.todo = @ \ {f}]
      BY <1>3, <3>1 DEF Retrying
    <3>2. CASE retry' = [retry EXCEPT !.todo = @ \ {f}, !.refused = @ \cup {f[1]}]
      BY <1>3, <1>4, <3>2 DEF Retrying
    <3>3. CASE retry' = [retry EXCEPT !.todo = @ \ {f}, !.copied = {f}]
      BY <1>3, <1>4, <3>3 DEF Retrying
    <3> QED
      BY <1>1, <3>1, <3>2, <3>3
  <2> QED
    BY <1>3, <1>5, <2>1, <2>2, <2>3 DEF RetryTyped
<1>7. DoneGrows /\ Delivered' = Delivered
  BY <1>2, DoneSame DEF Delivered
<1>8. PICK x \in [sat : SUBSET Tickets] :
        /\ x.sat \subseteq Delivered
        /\ UNCHANGED inbox \/ inbox' = [inbox EXCEPT ![f[1]] = x]
  <2>1. failed[f[1]][f[2]].sat \in SUBSET Tickets
    BY <1>4 DEF FailedFile
  <2>2. /\ [sat |-> failed[f[1]][f[2]].sat] \in [sat : SUBSET Tickets]
        /\ [sat |-> failed[f[1]][f[2]].sat].sat \subseteq Delivered
    BY <1>4, <2>1
  <2> QED
    BY <1>1, <2>2
<1>9. FilesTyped'
  BY <1>2, <1>4, <1>8 DEF Inv, Typed, FilesTyped, MaybeFile, File
<1>10. StampsTrue'
  BY <1>2, <1>4, <1>7, <1>8 DEF Inv, Typed, FilesTyped, StampsTrue
<1> QED
  BY <1>2, <1>6, <1>7, <1>9, <1>10, SweepSame DEF Inv, Typed

LEMMA RetryUnlinksOK == ASSUME Inv, RetryUnlinks PROVE Inv'
<1>1. PICK f \in retry.copied :
        /\ failed' = [failed EXCEPT ![f[1]][f[2]] = NoFile]
        /\ retry' = [retry EXCEPT !.copied = {}, !.ids = @ \cup {f[1]}, !.grew = TRUE]
  BY DEF RetryUnlinks
<1>2. UNCHANGED <<inbox, running, done, sweep>>
  BY DEF RetryUnlinks
<1>3. /\ retry \in Retrying /\ retry.todo \subseteq FailedFiles
      /\ retry.copied \cap retry.todo = {}
  BY DEF RetryUnlinks, Inv, Typed, RetryTyped
<1>4. f \in Tickets \X Places /\ f[1] \in Tickets /\ f[2] \in Places /\ f \notin retry.todo
  BY <1>3 DEF Retrying
<1>5. /\ failed' \in [Tickets -> [Places -> FailedFile \cup {NoFile}]]
      /\ \A u \in Tickets, i \in Places :
            /\ failed'[u][i] = failed[u][i] \/ failed'[u][i] = NoFile
            /\ <<u, i>> # f => failed'[u][i] = failed[u][i]
  BY <1>1, <1>4 DEF Inv, Typed, FilesTyped
<1>6. retry.todo \subseteq FailedFiles'
  BY <1>3, <1>4, <1>5 DEF FailedFiles
<1>7. RetryTyped'
  BY <1>1, <1>3, <1>4, <1>6 DEF RetryTyped, Retrying
<1>8. DoneGrows /\ Delivered' = Delivered
  BY <1>2, DoneSame DEF Delivered
<1>9. FilesTyped' /\ StampsTrue'
  BY <1>2, <1>5, <1>8 DEF Inv, Typed, FilesTyped, StampsTrue
<1> QED
  BY <1>2, <1>7, <1>8, <1>9, SweepSame DEF Inv, Typed

LEMMA RetryPassEndsOK == ASSUME Inv, RetryPassEnds PROVE Inv'
<1>1. /\ retry' = IdleRetry \/ retry' = [retry EXCEPT !.phase = "parked",
                                                    !.todo = FailedFiles, !.grew = FALSE]
      /\ retry.copied = {} /\ retry # IdleRetry /\ UNCHANGED <<files, sweep>>
  BY DEF RetryPassEnds
<1>2. FailedFiles' = FailedFiles /\ FailedFiles \subseteq Tickets \X Places
  BY <1>1 DEF FailedFiles, files
<1>3. retry \in Retrying
  BY <1>1 DEF Inv, Typed, RetryTyped
<1>4. CASE retry' = IdleRetry
  <2>1. RetryTyped'
    BY <1>4 DEF RetryTyped
  <2> QED BY <1>1, <2>1, RetryOnly
<1>5. CASE retry' = [retry EXCEPT !.phase = "parked", !.todo = FailedFiles, !.grew = FALSE]
  <2>1. retry' \in Retrying
    BY <1>2, <1>3, <1>5 DEF Retrying
  <2>2. RetryTyped'
    BY <2>1, <1>1, <1>2, <1>5 DEF RetryTyped
  <2> QED BY <1>1, <2>2, RetryOnly
<1> QED
  BY <1>1, <1>4, <1>5

LEMMA RetryKilledOK == ASSUME Inv, RetryKilled PROVE Inv'
  BY RetryOnly DEF RetryKilled, RetryTyped

----------------------------------------------------------------------------
(* The theorems.                                                           *)

LEMMA InvInit == Init => Inv
<1> SUFFICES ASSUME Init PROVE Inv
  OBVIOUS
<1>1. FilesTyped
  BY DEF Init, FilesTyped, MaybeFile, File
<1>2. SweepTyped /\ RetryTyped /\ SweepKnows
  BY DEF Init, SweepTyped, RetryTyped, SweepKnows, IdleSweep
<1>3. StampsTrue
  BY DEF Init, StampsTrue
<1> QED
  BY <1>1, <1>2, <1>3 DEF Inv, Typed

LEMMA InvStutters == ASSUME Inv, UNCHANGED vars PROVE Inv'
<1>1. UNCHANGED <<files, sweep, retry>>
  BY DEF vars
<1>2. RetryTyped'
  BY <1>1 DEF Inv, Typed, RetryTyped, FailedFiles, files
<1> QED
  BY <1>1, <1>2, RetryOnly

LEMMA InvNext == ASSUME Inv, [Next]_vars PROVE Inv'
<1>1. CASE UNCHANGED vars
  BY <1>1, InvStutters
<1>2. CASE \E t \in Tickets : Submit(t) \/ Remove(t) \/ Claim(t) \/ Session(t)
  BY <1>2, SubmitOK, RemoveOK, ClaimOK, SucceedOK, FailTerminallyOK, RequeueOK DEF Session
<1>3. CASE GitHub
  BY <1>3, GitHubOK
<1>4. CASE Sweep \/ SweepKilled
  BY <1>4, SweepBeginOK, SweepEdgeOK, SweepAnswerOK, SweepStampOK, SweepCascadeOK,
     SweepPassEndsOK, SweepStopsOK DEF Sweep
<1>5. CASE RetryBegin \/ Retry \/ RetryKilled
  BY <1>5, RetryBeginOK, RetryEntryOK, RetryUnlinksOK, RetryPassEndsOK, RetryKilledOK
     DEF Retry
<1> QED
  BY <1>1, <1>2, <1>3, <1>4, <1>5 DEF Next

(* No session ever runs before every dependency of its ticket has delivered *)
(* - a result without pull request, or a merged one - whatever requeues,    *)
(* retries, cascades, resubmissions and kills came before                   *)
(* (claimNextTask's gate with sweepDependencies' stamps).                   *)
THEOREM DependenciesFirst == Spec => []StartsOnMerged
<1>1. Init => Inv
  BY InvInit
<1>2. Inv /\ [Next]_vars => Inv'
  BY InvNext
<1>3. Inv => StartsOnMerged
  BY DEF Inv, StampsTrue, Delivered, StartsOnMerged
<1> QED
  BY <1>1, <1>2, <1>3, PTL DEF Spec

\* One step adds to the stamps of a queued ticket or leaves them.
LEMMA StampsGrow ==
    ASSUME Inv, [Next]_vars, NEW t \in Tickets, inbox[t] # NoFile, inbox'[t] # NoFile
    PROVE  inbox[t].sat \subseteq inbox'[t].sat
<1>1. inbox \in [Tickets -> MaybeFile] /\ inbox[t] \in [sat : SUBSET Tickets]
  BY FileTyped DEF Inv, Typed, FilesTyped
<1>2. CASE SweepStamp
  <2>1. CASE sweep.edge[1] = t
    <3>1. inbox'[t] = [inbox[t] EXCEPT !.sat = @ \cup {sweep.edge[2]}]
      BY <1>1, <1>2, <2>1 DEF SweepStamp, Stamped
    <3> QED
      BY <1>1, <3>1
  <2>2. CASE sweep.edge[1] # t
    BY <1>1, <1>2, <2>2 DEF SweepStamp
  <2> QED
    BY <2>1, <2>2
<1>3. CASE UNCHANGED inbox
  BY <1>3
<1>4. CASE \E u \in Tickets : \E x : inbox[u] = NoFile /\ inbox' = [inbox EXCEPT ![u] = x]
  BY <1>1, <1>4
<1>5. CASE \E u \in Tickets : inbox' = [inbox EXCEPT ![u] = NoFile]
  BY <1>1, <1>5
<1>6. CASE \E u \in Tickets : Submit(u) \/ Remove(u) \/ Claim(u) \/ Session(u)
  <2>1. PICK u \in Tickets : Submit(u) \/ Remove(u) \/ Claim(u) \/ Session(u)
    BY <1>6
  <2>2. CASE Submit(u) \/ Requeue(u)
    BY <1>4, <2>2 DEF Submit, Requeue
  <2>3. CASE Remove(u) \/ Claim(u)
    BY <1>5, <2>3 DEF Remove, Claim
  <2>4. CASE Succeed(u) \/ FailTerminally(u)
    BY <1>3, <2>4 DEF Succeed, FailTerminally
  <2> QED
    BY <2>1, <2>2, <2>3, <2>4 DEF Session
<1>7. CASE GitHub
  BY <1>3, <1>7, GitHubMoves DEF Inv, Typed
<1>8. CASE Sweep \/ SweepKilled
  <2>1. CASE SweepCascade
    <3>1. sweep.edge[1] \in Tickets
      BY <2>1 DEF SweepCascade, Inv, Typed, SweepTyped, Edge
    <3> QED
      BY <1>5, <2>1, <3>1 DEF SweepCascade
  <2>2. CASE ~SweepCascade /\ ~SweepStamp
    BY <1>3, <1>8, <2>2 DEF Sweep, SweepBegin, SweepEdge, SweepThrows, SweepPassEnds,
       SweepAnswer, SweepKilled, files
  <2> QED
    BY <1>2, <2>1, <2>2
<1>9. CASE RetryEntry
  <2>1. retry.todo \subseteq Tickets \X Places
    BY <1>9 DEF RetryEntry, Inv, Typed, RetryTyped, FailedFiles
  <2>2. UNCHANGED inbox \/ \E u \in Tickets : \E x : /\ inbox[u] = NoFile
                                                 /\ inbox' = [inbox EXCEPT ![u] = x]
    BY <1>9, <2>1 DEF RetryEntry
  <2> QED
    BY <1>3, <1>4, <2>2
<1>10. CASE RetryBegin \/ RetryUnlinks \/ RetryPassEnds \/ RetryKilled
  BY <1>3, <1>10 DEF RetryBegin, RetryUnlinks, RetryPassEnds, RetryKilled, files
<1>11. CASE UNCHANGED vars
  BY <1>3, <1>11 DEF vars, files
<1> QED
  BY <1>6, <1>7, <1>8, <1>9, <1>10, <1>11 DEF Next, Retry

(* The stamps of a waiting ticket add up: no sweep, and nobody beside it,   *)
(* ever takes one away (stampSatisfied re-reads what it rewrites).          *)
THEOREM StampsKept == Spec => StampsAccumulate
<1>1. Init => Inv
  BY InvInit
<1>2. Inv /\ [Next]_vars => Inv'
  BY InvNext
<1>3. Inv /\ [Next]_vars =>
        [\A t \in Tickets : inbox[t] # NoFile /\ inbox'[t] # NoFile
                             => inbox[t].sat \subseteq inbox'[t].sat]_vars
  BY StampsGrow
<1> QED
  BY <1>1, <1>2, <1>3, PTL DEF Spec, StampsAccumulate

----------------------------------------------------------------------------
(* II. The gate and the ledger (ProviderGate). The argument is about the   *)
(* claim pass: its readiness check opens only for an open gate and an      *)
(* unspent budget, and one check is good for one claim.                    *)

USE GateAssumption

(* The inductive invariant: while a readiness check stands open, nothing   *)
(* has leaked yet, and an overrun is only counted while the cap is spent.  *)

CheckIsFresh == poll = "open" => leaked = 0 /\ overrun = 0

OverrunIsSpent == overrun > 0 => OverBudget

GateInv ==
    /\ GateTypeOK /\ ClosedGateStopsClaims /\ BudgetOverrunBounded
    /\ CheckIsFresh /\ OverrunIsSpent

----------------------------------------------------------------------------
(* The operations of the gate.                                             *)

GateTyped ==
    /\ kind \in Latches \cup Timed \cup {"ok"}
    /\ until \in 0 .. (MaxDelay + Backoff + Day)
    /\ kind \notin Timed => until = 0
    /\ kind = "rate_limited" => until <= MaxDelay
    /\ streak \in 0 .. MaxStreak
    /\ leaked \in Nat

LEMMA LesserBounds ==
    ASSUME NEW a \in Nat, NEW b \in Nat
    PROVE  Lesser(a, b) \in 0 .. b /\ (a > 0 /\ b > 0 => Lesser(a, b) > 0)
  BY DEF Lesser

LEMMA RateDelayBounds ==
    \A n \in Nat : RateDelay(n) \in 0 .. MaxDelay /\ (Backoff > 0 => RateDelay(n) > 0)
  BY DEF RateDelay

\* After a report: with a backoff, a ticket that goes back waits at a closed gate.
Barred == Backoff > 0 => NotBefore > 0 /\ Shut'

LEMMA ReadTyped ==
    ASSUME GateTyped, Read
    PROVE  GateTyped' /\ kind' = Current /\ leaked' \in {0, leaked}
  BY DEF GateTyped, Read, Enter, Current, Timed, Latches

LEMMA RateLimitTyped ==
    ASSUME GateTyped, ReportRateLimit
    PROVE  /\ GateTyped' /\ leaked' \in {0, leaked} /\ Barred
           /\ kind \in Latches => kind' \in Latches
<1>1. CASE Current \in Latches
  <2>1. Read
    BY <1>1 DEF ReportRateLimit
  <2>2. kind' \in Latches
    BY <1>1, <2>1, ReadTyped
  <2> QED
    BY <2>1, <2>2, ReadTyped DEF Barred, Shut, NotBefore, Latches, Timed
<1>2. CASE Current \notin Latches
  <2>1. streak' \in 0 .. MaxStreak
    BY <1>2, LesserBounds DEF ReportRateLimit, GateTyped
  <2>2. /\ kind' = "rate_limited" /\ leaked' = leaked
        /\ until' \in 0 .. MaxDelay /\ (Backoff > 0 => until' > 0)
    BY <1>2, <2>1, RateDelayBounds DEF ReportRateLimit, Enter
  <2>3. kind \notin Latches
    BY <1>2 DEF Current, Timed, Latches
  <2> QED
    BY <2>1, <2>2, <2>3 DEF GateTyped, Barred, Shut, NotBefore, Timed, Latches
<1> QED
  BY <1>1, <1>2

LEMMA LatchTyped ==
    ASSUME GateTyped, NEW cls \in DOMAIN LatchOf, ReportLatch(cls)
    PROVE  GateTyped' /\ leaked' = leaked /\ Barred /\ kind' \in Latches
  BY DEF GateTyped, ReportLatch, LatchOf, Enter, Barred, Shut, NotBefore, Latches, Timed

LEMMA OutageTyped ==
    ASSUME GateTyped, ReportOutage
    PROVE  /\ GateTyped' /\ leaked' \in {0, leaked}
           /\ kind \in Latches => kind' \in Latches
  BY ReadTyped DEF GateTyped, ReportOutage, Enter, Current, Latches, Timed

LEMMA FailureTyped ==
    ASSUME GateTyped, NEW cls, ReportFailure(cls)
    PROVE  /\ GateTyped' /\ leaked' \in {0, leaked}
           /\ kind \in Latches => kind' \in Latches
           /\ cls \in GateClasses => Barred
  BY RateLimitTyped, LatchTyped, OutageTyped DEF ReportFailure, GateClasses

LEMMA SuccessTyped ==
    ASSUME GateTyped, ReportSuccess
    PROVE  GateTyped' /\ leaked' \in {0, leaked}
  BY DEF GateTyped, ReportSuccess, Enter, Current, Latches, Timed

----------------------------------------------------------------------------
(* Each step preserves the invariant.                                      *)

TaskTyped ==
    /\ phase \in [GateTickets -> Phases]
    /\ wait \in [GateTickets -> Nat]
    /\ tries \in [GateTickets -> 0 .. MaxRetries]
    /\ garbled \subseteq GateTickets \ ApplyTickets

LEMMA FinishTyped ==
    ASSUME TaskTyped, NEW t \in GateTickets, Finish(t), UNCHANGED garbled PROVE TaskTyped'
  BY DEF TaskTyped, Finish, Phases

LEMMA RequeueTyped ==
    ASSUME TaskTyped, NEW t \in GateTickets, UNCHANGED garbled,
           RequeueCharged(t) \/ (RequeueKeepBudget(t) /\ NotBefore \in Nat)
    PROVE  TaskTyped'
<1>1. CASE RequeueKeepBudget(t) /\ NotBefore \in Nat
  <2> DEFINE nb == IF t \in garbled THEN 0 ELSE NotBefore
  <2>1. /\ phase' = [phase EXCEPT ![t] = "queued"] /\ nb \in Nat
        /\ wait' = [wait EXCEPT ![t] = nb] /\ tries' = tries
    BY <1>1 DEF RequeueKeepBudget
  <2> HIDE DEF nb
  <2> QED
    BY <2>1 DEF TaskTyped, Phases
<1>2. CASE RequeueCharged(t)
  BY <1>2, FinishTyped DEF RequeueCharged, TaskTyped, Phases
<1> QED
  BY <1>1, <1>2

LEMMA NotBeforeIsTime == ASSUME GateTyped' PROVE NotBefore \in Nat
  BY DEF GateTyped, NotBefore

LEMMA DisposeTyped ==
    ASSUME GateTypeOK, NEW t \in GateTickets, Dispose(t), UNCHANGED garbled
    PROVE  GateTyped' /\ TaskTyped' /\ leaked' \in {0, leaked}
<1>0. GateTyped /\ TaskTyped
  BY DEF GateTypeOK, GateTyped, TaskTyped
<1>1. GateTyped' /\ leaked' \in {0, leaked}
  <2>1. CASE UNCHANGED gateVars
    BY <1>0, <2>1 DEF GateTyped, gateVars
  <2>2. CASE ReportSuccess
    BY <1>0, <2>2, SuccessTyped
  <2>3. CASE \E cls : ReportFailure(cls)
    BY <1>0, <2>3, FailureTyped
  <2> QED
    BY <2>1, <2>2, <2>3 DEF Dispose
<1>2. TaskTyped'
  <2>1. Finish(t) \/ RequeueCharged(t) \/ RequeueKeepBudget(t)
    BY DEF Dispose
  <2> QED
    BY <1>0, <1>1, <2>1, FinishTyped, RequeueTyped, NotBeforeIsTime
<1> QED
  BY <1>1, <1>2

LEMMA ReportKeepsInv ==
    ASSUME GateInv, NEW t \in GateTickets, Report(t) PROVE GateInv'
<1>1. GateTypeOK /\ Dispose(t) /\ UNCHANGED garbled
  BY DEF GateInv, Report
<1>2. GateTyped' /\ TaskTyped' /\ leaked' \in {0, leaked}
  BY <1>1, DisposeTyped
<1>3. result' \in [GateTickets -> SessionResults \cup {"applied", "none"}]
  BY <1>1 DEF GateTypeOK, Report
<1>4. GateTypeOK'
  BY <1>1, <1>2, <1>3 DEF GateTypeOK, GateTyped, TaskTyped, Report, ledgerVars
<1> QED
  BY <1>2, <1>4 DEF GateInv, Report, ledgerVars, ClosedGateStopsClaims,
     BudgetOverrunBounded, CheckIsFresh, OverrunIsSpent, OverBudget, GateTypeOK

LEMMA PollKeepsInv == ASSUME GateInv, PollCheck PROVE GateInv'
<1>1. GateTypeOK /\ GateTyped
  BY DEF GateInv, GateTypeOK, GateTyped
<1>2. GateTyped' /\ leaked' \in {0, leaked} /\ (kind' = "ok" => leaked' = 0 /\ ~OverBudget)
  <2>1. CASE OverBudget /\ Current \notin Latches
    BY <1>1, <2>1 DEF PollCheck, Enter, GateTyped, GateTypeOK, Timed, Latches
  <2>2. CASE ~(OverBudget /\ Current \notin Latches)
    BY <1>1, <2>2, ReadTyped DEF PollCheck, Read, Enter, Latches
  <2> QED
    BY <2>1, <2>2
<1>3. pass' \subseteq GateTickets /\ poll' \in {"open", "blocked"}
  BY DEF PollCheck, Eligible
<1>4. GateTypeOK'
  BY <1>1, <1>2, <1>3 DEF GateTypeOK, GateTyped, PollCheck, ledgerVars, taskVars
<1>5. poll' = "open" => kind' = "ok"
  BY DEF PollCheck
<1> QED
  BY <1>1, <1>2, <1>4, <1>5 DEF GateInv, PollCheck, ledgerVars, ClosedGateStopsClaims,
     BudgetOverrunBounded, CheckIsFresh, OverrunIsSpent, OverBudget, GateTypeOK

LEMMA ClaimKeepsInv ==
    ASSUME GateInv, NEW t \in GateTickets, GateClaim(t) PROVE GateInv'
<1>1. GateTypeOK
  BY DEF GateInv
<1>2. t \notin ApplyTickets => poll = "open"
  BY DEF GateClaim, Readiness, Claimable
<1>3. /\ leaked' \in Nat /\ leaked' <= 1
      /\ overrun' \in Nat /\ overrun' <= 1
      /\ overrun' > 0 => OverBudget
  BY <1>1, <1>2 DEF GateClaim, GateInv, GateTypeOK, CheckIsFresh, OverrunIsSpent,
     ClosedGateStopsClaims, BudgetOverrunBounded
<1>4. GateTypeOK'
  BY <1>1, <1>3 DEF GateClaim, GateTypeOK, Phases
<1> QED
  BY <1>3, <1>4 DEF GateInv, GateClaim, ClosedGateStopsClaims, BudgetOverrunBounded,
     CheckIsFresh, OverrunIsSpent, OverBudget

LEMMA SessionKeepsInv ==
    ASSUME GateInv, NEW t \in GateTickets,
           ApplyCleanly(t) \/ ApplyFallback(t) \/ SessionEnds(t) \/ Resubmit(t)
    PROVE  GateInv'
<1>1. CASE ApplyCleanly(t) \/ ApplyFallback(t) \/ Resubmit(t)
  BY <1>1 DEF GateInv, GateTypeOK, ApplyCleanly, ApplyFallback, Resubmit, Phases, gateVars,
     ledgerVars, ClosedGateStopsClaims, BudgetOverrunBounded, CheckIsFresh,
     OverrunIsSpent, OverBudget
<1>2. CASE SessionEnds(t)
  <2>1. spent' \in 0 .. MaxSpend /\ spent' >= spent
    BY <1>2 DEF SessionEnds, Lesser, GateInv, GateTypeOK
  <2>2. GateTypeOK'
    BY <1>2, <2>1 DEF SessionEnds, GateInv, GateTypeOK, Phases, gateVars
  <2> QED
    BY <1>2, <2>1, <2>2 DEF SessionEnds, GateInv, GateTypeOK, gateVars, ClosedGateStopsClaims,
       BudgetOverrunBounded, CheckIsFresh, OverrunIsSpent, OverBudget
<1> QED
  BY <1>1, <1>2

LEMMA WorldKeepsInv ==
    ASSUME GateInv, ClaimNothing \/ Tick \/ Restart \/ \E c \in Caps : Reload(c)
    PROVE  GateInv'
<1>1. CASE ClaimNothing
  BY <1>1 DEF ClaimNothing, GateInv, GateTypeOK, gateVars, ledgerVars, taskVars,
     ClosedGateStopsClaims, BudgetOverrunBounded, CheckIsFresh, OverrunIsSpent, OverBudget
<1>2. CASE Tick
  <2>1. \A n \in Nat : Sooner(n) \in Nat /\ Sooner(n) <= n
    BY DEF Sooner
  <2>2. GateTypeOK'
    BY <1>2, <2>1 DEF Tick, GateInv, GateTypeOK, Sooner
  <2> QED
    BY <1>2, <2>2 DEF Tick, GateInv, GateTypeOK, ClosedGateStopsClaims, BudgetOverrunBounded,
       CheckIsFresh, OverrunIsSpent, OverBudget
<1>3. CASE Restart
  <2>1. GateTypeOK'
    BY <1>3 DEF Restart, Enter, GateInv, GateTypeOK, Phases, Kept, ledgerVars, Timed
  <2> QED
    BY <1>3, <2>1 DEF Restart, Enter, GateInv, GateTypeOK, ledgerVars, ClosedGateStopsClaims,
       BudgetOverrunBounded, CheckIsFresh, OverrunIsSpent, OverBudget
<1>4. ASSUME NEW c \in Caps, Reload(c) PROVE GateInv'
  <2>1. GateTypeOK'
    BY <1>4 DEF Reload, Enter, GateInv, GateTypeOK, taskVars, Timed
  <2> QED
    BY <1>4, <2>1 DEF Reload, Enter, GateInv, GateTypeOK, ClosedGateStopsClaims,
       BudgetOverrunBounded, CheckIsFresh, OverrunIsSpent, OverBudget
<1> QED
  BY <1>1, <1>2, <1>3, <1>4

LEMMA GateInvHolds == GateSpec => []GateInv
<1>1. GateInit => GateInv
  BY DEF GateInit, GateInv, GateTypeOK, Phases, SessionResults, ClosedGateStopsClaims, Timed,
     BudgetOverrunBounded, CheckIsFresh, OverrunIsSpent
<1>2. GateInv /\ [GateNext]_allGateVars => GateInv'
  <2> SUFFICES ASSUME GateInv, [GateNext]_allGateVars PROVE GateInv'
    OBVIOUS
  <2>1. CASE UNCHANGED allGateVars
    BY <2>1 DEF allGateVars, gateVars, ledgerVars, taskVars, GateInv, GateTypeOK, CheckIsFresh,
       ClosedGateStopsClaims, BudgetOverrunBounded, OverrunIsSpent, OverBudget
  <2>2. CASE GateNext
    BY <2>2, PollKeepsInv, ClaimKeepsInv, SessionKeepsInv, ReportKeepsInv, WorldKeepsInv
       DEF GateNext, ClaimPass, GateSession
  <2> QED
    BY <2>1, <2>2
<1> QED
  BY <1>1, <1>2, PTL DEF GateSpec

(* After the gate closes, and after the day's cap is reached, at most one  *)
(* agent ticket is still claimed: the one whose endpoint probe was under   *)
(* way (runOnce.ts claimNextTask, daemon.ts gatedReady).                   *)
THEOREM GateKeepsOut == GateSpec => []GateHolds
<1>1. GateInv => GateHolds
  BY DEF GateInv, GateHolds
<1> QED
  BY <1>1, GateInvHolds, PTL

----------------------------------------------------------------------------
(* How the end of a session is judged.                                     *)

LEMMA ReportWaits ==
    ASSUME GateTypeOK, NEW t \in GateTickets, Report(t)
    PROVE  /\ Backoff > 0 /\ phase'[t] = "queued" /\ tries'[t] = tries[t]
                => Shut' /\ (t \notin garbled => wait'[t] > 0)
           /\ kind \in Latches /\ kind' = "ok" => result[t] = "ok"
           /\ \A u \in GateTickets \ {t} : phase'[u] = phase[u]
<1>0. GateTyped /\ TaskTyped /\ Dispose(t)
  BY DEF GateTypeOK, GateTyped, TaskTyped, Report
<1>1. ASSUME Finish(t)
      PROVE  phase'[t] = "done" /\ \A u \in GateTickets \ {t} : phase'[u] = phase[u]
  BY <1>0, <1>1 DEF Finish, TaskTyped
<1>2. ASSUME RequeueCharged(t)
      PROVE  /\ phase'[t] = "queued" => tries'[t] # tries[t]
             /\ \A u \in GateTickets \ {t} : phase'[u] = phase[u]
  BY <1>0, <1>1, <1>2 DEF RequeueCharged, TaskTyped
<1>3. ASSUME RequeueKeepBudget(t)
      PROVE  /\ t \notin garbled => wait'[t] = NotBefore
             /\ \A u \in GateTickets \ {t} : phase'[u] = phase[u]
  BY <1>0, <1>3 DEF RequeueKeepBudget, TaskTyped
<1>4. UNCHANGED gateVars => (kind \in Latches => kind' # "ok")
  BY DEF gateVars, Latches
<1>5. CASE result[t] \in {"ok", "applied", "soft", "unknown"}
  BY <1>0, <1>1, <1>2, <1>4, <1>5 DEF Dispose, GateClasses
<1>6. ASSUME NEW cls, result[t] = cls, ReportFailure(cls)
      PROVE  /\ kind \in Latches => kind' # "ok"
             /\ cls \in GateClasses => Barred
  BY <1>0, <1>6, FailureTyped DEF Latches
<1>7. CASE result[t] \in GateClasses
  <2>1. ReportFailure(result[t])
    BY <1>0, <1>7 DEF Dispose, GateClasses
  <2>2. RequeueCharged(t) \/ RequeueKeepBudget(t)
    BY <1>0, <1>7 DEF Dispose, GateClasses
  <2> QED
    BY <1>2, <1>3, <1>6, <1>7, <2>1, <2>2 DEF Barred
<1>8. CASE result[t] = "outage"
  BY <1>0, <1>2, <1>6, <1>8 DEF Dispose, GateClasses
<1> QED
  BY <1>0, <1>5, <1>7, <1>8 DEF Dispose

LEMMA OnlyReportsAreFree ==
    ASSUME GateTypeOK, GateNext, NEW t \in GateTickets, ~Report(t),
           phase[t] = "ended", phase'[t] = "queued", tries'[t] = tries[t]
    PROVE  FALSE
<1>1. CASE Restart
  BY <1>1 DEF Restart, GateTypeOK, Kept, Busy
<1>2. ASSUME NEW u \in GateTickets, GateClaim(u) PROVE FALSE
  BY <1>2 DEF GateClaim, GateTypeOK
<1>3. ASSUME NEW u \in GateTickets,
             ApplyCleanly(u) \/ ApplyFallback(u) \/ SessionEnds(u) \/ Resubmit(u)
      PROVE  FALSE
  BY <1>3 DEF ApplyCleanly, ApplyFallback, SessionEnds, Resubmit, GateTypeOK
<1>4. ASSUME NEW u \in GateTickets, Report(u) PROVE FALSE
  BY <1>4, ReportWaits
<1>5. CASE PollCheck \/ ClaimNothing \/ Tick \/ \E c \in Caps : Reload(c)
  BY <1>5 DEF PollCheck, ClaimNothing, Tick, Reload, taskVars
<1> QED
  BY <1>1, <1>2, <1>3, <1>4, <1>5 DEF GateNext, ClaimPass, GateSession

(* Where retryBackoffSeconds is not 0, a ticket is sent back free of       *)
(* charge only to a closed gate, and it waits too if its frontmatter can   *)
(* keep the stamp, so that the gate and not the budget prevents a hot loop *)
(* (requeue.ts); and the end of a session lifts a latch only when that     *)
(* session talked to the model.                                            *)
THEOREM EndsJudgedRightly == GateSpec => EndsAreJudged
<1>1. ASSUME GateTypeOK, [GateNext]_allGateVars, NEW t \in GateTickets, Backoff > 0,
             phase[t] = "ended", phase'[t] = "queued", tries'[t] = tries[t]
      PROVE  Shut' /\ (t \notin garbled => wait'[t] > 0)
  <2>1. GateNext
    BY <1>1 DEF allGateVars, taskVars
  <2> QED
    BY <1>1, <2>1, ReportWaits, OnlyReportsAreFree
<1>2. ASSUME GateTypeOK, NEW t \in GateTickets, kind \in Latches, kind' = "ok", Report(t)
      PROVE  result[t] = "ok"
  BY <1>2, ReportWaits
<1>3. GateTypeOK /\ [GateNext]_allGateVars =>
        [\A t \in GateTickets :
            Backoff > 0 /\ phase[t] = "ended" /\ phase'[t] = "queued" /\ tries'[t] = tries[t]
            => Shut' /\ (t \notin garbled => wait'[t] > 0)]_allGateVars
  BY <1>1
<1>4. GateTypeOK /\ [GateNext]_allGateVars =>
        [\A t \in GateTickets :
             kind \in Latches /\ kind' = "ok" /\ Report(t) => result[t] = "ok"]_allGateVars
  BY <1>2
<1>5. GateInv => GateTypeOK
  BY DEF GateInv
<1> QED
  BY <1>3, <1>4, <1>5, GateInvHolds, PTL DEF GateSpec, EndsAreJudged, NoHotLoop, FreshEvidence

-----------------------------------------------------------------------------
(* III. The move of the data (DataMigrate).                                *)

(***************************************************************************)
(* Types.                                                                  *)
(***************************************************************************)
Content == SUBSET ({"mine", "news", "torn", "rest"} \cup Absent)
Trees == [Items -> [Spots -> Content]]
Copies == {Step(i, "flat", "v2") : i \in Items}
Moves == Copies \cup {OldName, Step("clones", "cflat", "v2")}
JournalRec == [there : BOOLEAN, renamed : SUBSET Moves, partial : SUBSET Copies]
ClaimPlaces == Roots \cup {"vault", "flat", "v2"}
Before == {"probe", "lock", "queue", "vault"}
Gathering == {"queue", "vault", "vaultrm", "names", "journalnames", "pairs"}
Moving == {"rename", "copy", "remove"}
Told == {"rewrite", "legacy", "config"}
RunSteps == {"probe", "lock", "loop", "journal", "exit"} \cup Gathering \cup Moving \cup Told
RunRec == [pc : RunSteps, root : Roots, vault : BOOLEAN, pairs : SUBSET Pairs,
           contended : SUBSET Items, claimed : BOOLEAN, prior : SUBSET Copies,
           done : SUBSET Moves, torn : SUBSET Copies,
           conflicts : SUBSET (Items \cup {"names"}), named : SUBSET Items, failed : BOOLEAN]
DaemonRec == [pc : {"down", "loaded", "naming", "named", "up"}, root : Roots, vault : BOOLEAN]
EndRec == [exit : {"none", "clean", "conflicts", "failed", "killed"},
           conflicts : SUBSET (Items \cup {"names"}), named : SUBSET Items]
TypedTree ==
  /\ tree \in Trees
  /\ ref \in [Holders -> {"old", "flat", "v2"}]
  /\ journal \in [Roots -> JournalRec]
  /\ lock \in [Roots -> BOOLEAN]
  /\ claim \in [ClaimPlaces -> {"none", "live", "stale"}]
  /\ {legacyThere, marked, vaultRoot, across, raced, passed} \subseteq BOOLEAN
  /\ run = NoRun \/ run \in RunRec
  /\ daemon \in DaemonRec /\ last \in EndRec
  /\ cut \subseteq Moves /\ warned \subseteq Holders
  /\ faults \in 0 .. MaxFaults /\ starts \in 0 .. MaxStarts

Under == run # NoRun

(***************************************************************************)
(* Where the marks lie.                                                    *)
(***************************************************************************)
MineAt(i) == CASE i = "queue" -> {"vault", "flat", "v2"}
               [] i = "watch" -> {"flat", "v2"}
               [] i = "clones" -> {"old", "flat", "v2"}
Mine(i, p) == "mine" \in tree[i][p]
TornIn(i) == "torn" \in tree[i]["v2"]
Laid ==
  /\ \A i \in Items, p \in Spots :
       /\ "absent" \in tree[i][p] => tree[i][p] = Absent
       /\ Mine(i, p) => p \in MineAt(i)
       /\ "torn" \in tree[i][p] => p = "v2" /\ across
       /\ p # "v2" => ~({"mine", "news"} \subseteq tree[i][p])
  /\ tree["clones"]["old"] \in {Absent, {"mine"}}
\* A second root was there from the start, and old names make the first one the
\* legacy root until ~/.junco is marked.
RootsTell ==
  /\ Has("clones", "cflat") => marked /\ ~TornIn("clones")
  /\ Has("clones", "old") => legacyThere /\ (marked => passed)
  /\ Mine("queue", "vault") => vaultRoot

(***************************************************************************)
(* The run, by where it stands.                                            *)
(***************************************************************************)
QF == [item |-> "queue", from |-> "flat"]
WF == [item |-> "watch", from |-> "flat"]
JL == [item |-> "journal", from |-> "L"]
CC == [item |-> "clones", from |-> "cflat"]
CF == [item |-> "clones", from |-> "flat"]
PairStep(q) == Step(q.item, q.from, "v2")
Shaped ==
  /\ run.named \subseteq run.conflicts /\ run.vault = vaultRoot
  /\ run.failed <=> run.pc \in {"journal", "exit"}
  /\ run.pc \notin {"journal", "exit"} => run.torn = {}
  /\ run.pc \in {"probe", "lock"} \cup Gathering =>
       run.done = {} /\ run.named = {} /\ run.conflicts \subseteq {"names"}
  /\ run.pc \in {"probe", "lock"} \cup (Gathering \ {"pairs"}) => run.conflicts = {}
  /\ run.pc \in {"lock"} \cup Gathering => {QF, WF, JL} \subseteq run.pairs
  /\ run.pc \in Told => run.pairs = {}
  /\ run.pc = "journalnames" => run.root = "L"
  /\ run.pc = "vault" => run.claimed /\ run.vault
  /\ run.pc \in {"probe", "lock", "queue"} => ~run.claimed
PairsShaped ==
  /\ run.pc \in Moving => /\ run.pairs # {} /\ Pair.item # "journal" /\ ~Spoken
                          /\ run.pc # "rename" => Pair.from = "flat"
  /\ \A q \in run.pairs : /\ PairStep(q) \notin run.done
                          /\ q.item \in run.conflicts => q = CF /\ "clones" \in run.contended
\* What is written down.
Journals ==
  /\ journal["L"].renamed \subseteq {OldName}
  /\ journal["L"].renamed # {} => journal["L"].there
Remembers ==
  /\ run.pc \notin {"probe", "lock", "exit"} \cup Told => journal["C"].partial \subseteq run.prior
  /\ run.pc \in Told \cup {"exit"} =>
       run.done \subseteq journal["C"].renamed /\ run.torn \subseteq journal["C"].partial
\* A second root's clones, and the run that may see them.
Sheltered ==
  /\ run.contended \subseteq {"clones"}
  /\ run.pc # "probe" => (Has("clones", "cflat") /\ CF \in run.pairs => "clones" \in run.contended)
  /\ Has("clones", "cflat") => run.root = "C"
  /\ CC \in run.pairs => Has("clones", "cflat")
  /\ "clones" \in run.contended => ~TornIn("clones")
  /\ run.root = "C" /\ Has("clones", "old") => passed
\* Where the data of the operator is not any more.
HandsOff ==
  /\ run.pc \in {"rename", "copy"} => ~Mine(Pair.item, "v2")
  /\ run.pc = "remove" => ~Mine(Pair.item, Pair.from) /\ ~TornIn(Pair.item)
  /\ run.pc \notin Before \cup {"exit"} => ~Mine("queue", "vault")
\* And what the run counts on finding.
StillThere ==
  /\ run.pc = "vault" => Has("queue", "vault")
  /\ run.pc \in {"loop"} \cup Moving =>
       \A q \in run.pairs : q.item # "journal" => Has(q.item, q.from)
  /\ run.pc = "copy" => TornIn(Pair.item)
  /\ run.pc = "remove" => "rest" \in tree[Pair.item][Pair.from]

(***************************************************************************)
(* Unfinished copies: each is under way, or written down, or was cut.      *)
(***************************************************************************)
WasCut(i) == \E s \in cut : s.item = i
FromVault(i) == /\ i = "queue" /\ vaultRoot /\ Has("queue", "vault")
                /\ run.pc \in Before \cup {"idle", "exit"}
TornKnown(i) ==
  \/ FromVault(i)
  \/ Step(i, "flat", "v2") \in journal["C"].partial
  \/ WasCut(i)
  \/ Under /\ Step(i, "flat", "v2") \in run.torn
  \/ run.pc = "copy" /\ Pair.item = i
TornIsKnown == \A i \in Items : TornIn(i) => TornKnown(i)
QueueIsWhole == run.pc \notin Before \cup {"exit"} /\ run.claimed => ~TornIn("queue")
DoneIsWhole == \A i \in Items : Step(i, "flat", "v2") \in run.done => ~TornIn(i)
ConflictsTold ==
  \A i \in run.conflicts \cap Items : TornIn(i) => i \in run.named \/ WasCut(i)

Smooth == run.conflicts = {} /\ ~run.failed /\ ~passed
\* A run beside which no daemon came up finds things as it left them, and a daemon
\* moves the old names only while no run has the lock of the legacy root.
Alone ==
  run.pc \notin {"idle", "probe", "lock"} /\ ~raced =>
    /\ daemon.pc = "down"
    /\ run.pc = "vaultrm" => tree["queue"]["vault"] = {"rest"}
    /\ run.pc = "rename" => ~Has(Pair.item, "v2")
    /\ run.pc = "copy" => tree[Pair.item]["v2"] = {"torn"}
    /\ run.pc = "remove" => tree[Pair.item][Pair.from] = {"rest"}
Excluded ==
  /\ run.pc \notin {"idle", "probe", "lock", "config"} =>
       ~Naming /\ (lock["L"] \/ ~Has("clones", "old"))
  /\ run.pc = "config" /\ Naming => ~Smooth
Beside == Alone /\ Excluded

(***************************************************************************)
(* What a clean end rests on.                                              *)
(***************************************************************************)
Filtered == {"loop"} \cup Moving \cup Told
Gathered ==
  /\ run.pc \in {"lock"} \cup Gathering /\ ~passed =>
       CF \in run.pairs \/ ~(Mine("clones", "flat") \/ Mine("clones", "old"))
  /\ run.pc \in {"journalnames", "pairs"} \cup Filtered /\ Smooth => ~Has("clones", "old")
NoneBehind ==
  run.pc \in Filtered /\ Smooth =>
    /\ \A i \in Items : Mine(i, "flat") => [item |-> i, from |-> "flat"] \in run.pairs
    /\ journal["L"].renamed # {} => JL \in run.pairs
RefsFollow ==
  run.pc \in {"legacy", "config"} /\ Smooth =>
    \A h \in Holders : ref[h] = "v2" \/ h \in warned \/ cut # {}
ClonesRecorded ==
  Mine("clones", "v2") =>
    \/ Step("clones", "flat", "v2") \in journal["C"].renamed \/ cut # {}
    \/ Under /\ Step("clones", "flat", "v2") \in run.done
    \/ run.pc = "remove" /\ Pair = CF
NamesRecorded ==
  \A h \in Holders : ref[h] = "old" /\ ~Mine("clones", "old") =>
    \/ OldName \in journal["L"].renamed \cup journal["C"].renamed
    \/ cut # {} \/ run.pc = "journalnames" \/ Naming
Ends ==
  /\ Under => last = NoEnd
  /\ last.named \subseteq last.conflicts

RunInv == /\ Shaped /\ PairsShaped /\ Remembers /\ Sheltered
          /\ HandsOff /\ StillThere
          /\ QueueIsWhole /\ DoneIsWhole /\ ConflictsTold
          /\ Gathered /\ NoneBehind /\ RefsFollow
MigrateInv ==
  /\ TypedTree /\ Laid /\ RootsTell /\ Journals
  /\ Under => RunInv
  /\ TornIsKnown /\ Beside /\ ClonesRecorded /\ NamesRecorded /\ Ends
  /\ NothingLost /\ CleanMeansUnified

-----------------------------------------------------------------------------
\* The pair in hand is the first one left.
LEMMA LeastPair ==
  ASSUME run.pairs \subseteq Pairs, run.pairs # {}
  PROVE  \E q \in run.pairs : \A o \in run.pairs : Rank(q) <= Rank(o)
<1>1. /\ Rank(QF) = 1 /\ Rank(WF) = 2 /\ Rank(JL) = 3 /\ Rank(CC) = 4 /\ Rank(CF) = 5
    BY DEF Rank, QF, WF, JL, CC, CF
<1>2. Pairs = {QF, WF, JL, CC, CF}
    BY DEF Pairs, QF, WF, JL, CC, CF
<1>3. CASE QF \in run.pairs BY <1>1, <1>2, <1>3
<1>4. CASE QF \notin run.pairs /\ WF \in run.pairs BY <1>1, <1>2, <1>4
<1>5. CASE QF \notin run.pairs /\ WF \notin run.pairs /\ JL \in run.pairs BY <1>1, <1>2, <1>5
<1>6. CASE QF \notin run.pairs /\ WF \notin run.pairs /\ JL \notin run.pairs /\ CC \in run.pairs
    BY <1>1, <1>2, <1>6
<1>7. CASE run.pairs = {CF} BY <1>1, <1>7
<1> QED BY <1>2, <1>3, <1>4, <1>5, <1>6, <1>7

LEMMA PairIn == ASSUME run.pairs \subseteq Pairs, run.pairs # {} PROVE Pair \in run.pairs
BY LeastPair DEF Pair

\* What a change of some of its fields leaves of the run.
LEMMA SetPc ==
  ASSUME run \in RunRec,
         NEW pc \in RunSteps,
         run' = [run EXCEPT !.pc = pc]
  PROVE  /\ run' \in RunRec
         /\ run'.pc = pc
         /\ run'.root = run.root /\ run'.vault = run.vault /\ run'.pairs = run.pairs
         /\ run'.contended = run.contended /\ run'.claimed = run.claimed /\ run'.prior = run.prior
         /\ run'.done = run.done /\ run'.torn = run.torn /\ run'.conflicts = run.conflicts
         /\ run'.named = run.named /\ run'.failed = run.failed
BY DEF RunRec

LEMMA SetPlan ==
  ASSUME run \in RunRec,
         NEW pc \in RunSteps,
         NEW pairs \in SUBSET Pairs,
         NEW contended \in SUBSET Items,
         run' = [run EXCEPT !.pc = pc, !.pairs = pairs, !.contended = contended]
  PROVE  /\ run' \in RunRec
         /\ run'.pc = pc /\ run'.pairs = pairs /\ run'.contended = contended
         /\ run'.root = run.root /\ run'.vault = run.vault /\ run'.claimed = run.claimed
         /\ run'.prior = run.prior /\ run'.done = run.done /\ run'.torn = run.torn
         /\ run'.conflicts = run.conflicts /\ run'.named = run.named /\ run'.failed = run.failed
BY DEF RunRec

LEMMA SetPrior ==
  ASSUME run \in RunRec,
         NEW pc \in RunSteps,
         NEW prior \in SUBSET Copies,
         run' = [run EXCEPT !.pc = pc, !.prior = prior]
  PROVE  /\ run' \in RunRec
         /\ run'.pc = pc /\ run'.prior = prior
         /\ run'.root = run.root /\ run'.vault = run.vault /\ run'.pairs = run.pairs
         /\ run'.contended = run.contended /\ run'.claimed = run.claimed /\ run'.done = run.done
         /\ run'.torn = run.torn /\ run'.conflicts = run.conflicts /\ run'.named = run.named
         /\ run'.failed = run.failed
BY DEF RunRec

LEMMA SetClaimed ==
  ASSUME run \in RunRec,
         NEW pc \in RunSteps,
         NEW claimed \in BOOLEAN,
         run' = [run EXCEPT !.pc = pc, !.claimed = claimed]
  PROVE  /\ run' \in RunRec
         /\ run'.pc = pc /\ run'.claimed = claimed
         /\ run'.root = run.root /\ run'.vault = run.vault /\ run'.pairs = run.pairs
         /\ run'.contended = run.contended /\ run'.prior = run.prior /\ run'.done = run.done
         /\ run'.torn = run.torn /\ run'.conflicts = run.conflicts /\ run'.named = run.named
         /\ run'.failed = run.failed
BY DEF RunRec

LEMMA SetFailed ==
  ASSUME run \in RunRec,
         NEW pc \in RunSteps,
         NEW wrong \in BOOLEAN,
         run' = [run EXCEPT !.pc = pc, !.failed = wrong]
  PROVE  /\ run' \in RunRec
         /\ run'.pc = pc /\ run'.failed = wrong
         /\ run'.root = run.root /\ run'.vault = run.vault /\ run'.pairs = run.pairs
         /\ run'.contended = run.contended /\ run'.claimed = run.claimed /\ run'.prior = run.prior
         /\ run'.done = run.done /\ run'.torn = run.torn /\ run'.conflicts = run.conflicts
         /\ run'.named = run.named
BY DEF RunRec

LEMMA SetConflicts ==
  ASSUME run \in RunRec,
         NEW pc \in RunSteps,
         NEW conflicts \in SUBSET (Items \cup {"names"}),
         run' = [run EXCEPT !.pc = pc, !.conflicts = conflicts]
  PROVE  /\ run' \in RunRec
         /\ run'.pc = pc /\ run'.conflicts = conflicts
         /\ run'.root = run.root /\ run'.vault = run.vault /\ run'.pairs = run.pairs
         /\ run'.contended = run.contended /\ run'.claimed = run.claimed /\ run'.prior = run.prior
         /\ run'.done = run.done /\ run'.torn = run.torn /\ run'.named = run.named
         /\ run'.failed = run.failed
BY DEF RunRec

LEMMA SetPairs ==
  ASSUME run \in RunRec,
         NEW pc \in RunSteps,
         NEW pairs \in SUBSET Pairs,
         run' = [run EXCEPT !.pc = pc, !.pairs = pairs]
  PROVE  /\ run' \in RunRec
         /\ run'.pc = pc /\ run'.pairs = pairs
         /\ run'.root = run.root /\ run'.vault = run.vault /\ run'.contended = run.contended
         /\ run'.claimed = run.claimed /\ run'.prior = run.prior /\ run'.done = run.done
         /\ run'.torn = run.torn /\ run'.conflicts = run.conflicts /\ run'.named = run.named
         /\ run'.failed = run.failed
BY DEF RunRec

LEMMA SetRest ==
  ASSUME run \in RunRec,
         NEW pairs \in SUBSET Pairs,
         run' = [run EXCEPT !.pairs = pairs]
  PROVE  /\ run' \in RunRec
         /\ run'.pairs = pairs
         /\ run'.pc = run.pc /\ run'.root = run.root /\ run'.vault = run.vault
         /\ run'.contended = run.contended /\ run'.claimed = run.claimed /\ run'.prior = run.prior
         /\ run'.done = run.done /\ run'.torn = run.torn /\ run'.conflicts = run.conflicts
         /\ run'.named = run.named /\ run'.failed = run.failed
BY DEF RunRec

LEMMA SetConflict ==
  ASSUME run \in RunRec,
         NEW pairs \in SUBSET Pairs,
         NEW conflicts \in SUBSET (Items \cup {"names"}),
         NEW named \in SUBSET Items,
         run' = [run EXCEPT !.pairs = pairs, !.conflicts = conflicts, !.named = named]
  PROVE  /\ run' \in RunRec
         /\ run'.pairs = pairs /\ run'.conflicts = conflicts /\ run'.named = named
         /\ run'.pc = run.pc /\ run'.root = run.root /\ run'.vault = run.vault
         /\ run'.contended = run.contended /\ run'.claimed = run.claimed /\ run'.prior = run.prior
         /\ run'.done = run.done /\ run'.torn = run.torn /\ run'.failed = run.failed
BY DEF RunRec

LEMMA SetDone ==
  ASSUME run \in RunRec,
         NEW pc \in RunSteps,
         NEW pairs \in SUBSET Pairs,
         NEW behind \in SUBSET Moves,
         run' = [run EXCEPT !.pc = pc, !.pairs = pairs, !.done = behind]
  PROVE  /\ run' \in RunRec
         /\ run'.pc = pc /\ run'.pairs = pairs /\ run'.done = behind
         /\ run'.root = run.root /\ run'.vault = run.vault /\ run'.contended = run.contended
         /\ run'.claimed = run.claimed /\ run'.prior = run.prior /\ run'.torn = run.torn
         /\ run'.conflicts = run.conflicts /\ run'.named = run.named /\ run'.failed = run.failed
BY DEF RunRec

LEMMA SetTorn ==
  ASSUME run \in RunRec,
         NEW pc \in RunSteps,
         NEW wrong \in BOOLEAN,
         NEW torn \in SUBSET Copies,
         run' = [run EXCEPT !.pc = pc, !.failed = wrong, !.torn = torn]
  PROVE  /\ run' \in RunRec
         /\ run'.pc = pc /\ run'.failed = wrong /\ run'.torn = torn
         /\ run'.root = run.root /\ run'.vault = run.vault /\ run'.pairs = run.pairs
         /\ run'.contended = run.contended /\ run'.claimed = run.claimed /\ run'.prior = run.prior
         /\ run'.done = run.done /\ run'.conflicts = run.conflicts /\ run'.named = run.named
BY DEF RunRec

LEMMA PairFirst ==
  ASSUME run.pairs \subseteq Pairs, CC \in run.pairs
  PROVE  Pair # CF
<1>1. \E q \in run.pairs : \A o \in run.pairs : Rank(q) <= Rank(o)
  BY LeastPair
<1>2. Rank(Pair) <= Rank(CC)
  BY <1>1 DEF Pair
<1> QED BY <1>2 DEF Rank, CC, CF

LEMMA UnderRec ==
  /\ run \in RunRec => Under /\ run.pc \in RunSteps /\ run.pc # "idle"
  /\ TypedTree /\ run.pc # "idle" => run \in RunRec
  /\ TypedTree /\ Under => run \in RunRec
  /\ run = NoRun => run.pc = "idle" /\ ~Under
BY DEF TypedTree, Under, RunRec, RunSteps, Gathering, Moving, Told, NoRun

(***************************************************************************)
(* What is not the operator's: a step leaves it where it is, or a move     *)
(* carries it from the place that is left to the empty place it takes.     *)
(***************************************************************************)
OthersStand ==
  ~raced' /\ ~RunAt("vault") => \A i \in Items :
    /\ Cardinality(News(tree', i)) >= Cardinality(News(tree, i))
    /\ \A p \in News(tree', i) : "mine" \in tree'[i][p] => {"mine", "news"} \subseteq tree[i][p]

\* The places are few, so what lies at them can be counted.
LEMMA NewsFinite ==
  /\ \A i : IsFiniteSet(News(tree, i)) /\ IsFiniteSet(News(tree', i))
  /\ \A i : Cardinality(News(tree, i)) \in Nat /\ Cardinality(News(tree', i)) \in Nat
<1>1. IsFiniteSet(Spots)
  <2>1. \A p : IsFiniteSet({p})
    BY FS_Singleton
  <2>2. \A p, q : IsFiniteSet({p} \cup {q})
    BY <2>1, FS_Union
  <2>3. IsFiniteSet(({"vault"} \cup {"old"}) \cup ({"flat"} \cup {"cflat"}))
    BY <2>2, FS_Union
  <2>4. IsFiniteSet((({"vault"} \cup {"old"}) \cup ({"flat"} \cup {"cflat"})) \cup {"v2"})
    BY <2>1, <2>3, FS_Union
  <2> QED BY <2>4 DEF Spots
<1>2. \A i : News(tree, i) \subseteq Spots /\ News(tree', i) \subseteq Spots
  BY DEF News
<1>3. \A i : IsFiniteSet(News(tree, i)) /\ IsFiniteSet(News(tree', i))
  BY <1>1, <1>2, FS_Subset
<1> QED BY <1>3, FS_CardinalityType

\* Nothing anyone else wrote goes, and none of it is where the move's data comes.
LEMMA QuietStands ==
  ASSUME \A i \in Items, p \in Spots :
           /\ "news" \in tree[i][p] => "news" \in tree'[i][p]
           /\ {"mine", "news"} \subseteq tree'[i][p] => {"mine", "news"} \subseteq tree[i][p]
  PROVE  OthersStand
<1> SUFFICES ASSUME NEW i \in Items
             PROVE  /\ Cardinality(News(tree', i)) >= Cardinality(News(tree, i))
                    /\ \A p \in News(tree', i) :
                         "mine" \in tree'[i][p] => {"mine", "news"} \subseteq tree[i][p]
  BY DEF OthersStand
<1>1. News(tree, i) \subseteq News(tree', i)
  BY DEF News
<1>2. Cardinality(News(tree, i)) <= Cardinality(News(tree', i))
  BY <1>1, NewsFinite, FS_Subset
<1>3. \A p \in News(tree', i) : "mine" \in tree'[i][p] => {"mine", "news"} \subseteq tree[i][p]
  BY DEF News
<1> QED BY <1>2, <1>3, NewsFinite

\* A move to a place where there is nothing of theirs takes theirs along.
LEMMA SwapStands ==
  ASSUME NEW i0 \in Items, NEW from \in Spots, from # "v2",
         "news" \notin tree[i0]["v2"], "news" \notin tree'[i0][from],
         "news" \in tree[i0][from] <=> "news" \in tree'[i0]["v2"],
         ~({"mine", "news"} \subseteq tree'[i0]["v2"]),
         \A j \in Items, r \in Spots : j # i0 \/ r \notin {from, "v2"} => tree'[j][r] = tree[j][r]
  PROVE  OthersStand
<1> SUFFICES ASSUME NEW i \in Items
             PROVE  /\ Cardinality(News(tree', i)) >= Cardinality(News(tree, i))
                    /\ \A p \in News(tree', i) :
                         "mine" \in tree'[i][p] => {"mine", "news"} \subseteq tree[i][p]
  BY DEF OthersStand
<1>1. \A p \in News(tree', i) : "mine" \in tree'[i][p] => {"mine", "news"} \subseteq tree[i][p]
  BY DEF News
<1>2. Cardinality(News(tree', i)) >= Cardinality(News(tree, i))
  <2>1. CASE i # i0 \/ from \notin News(tree, i)
    <3>1. News(tree, i) = News(tree', i)
      BY <2>1 DEF News, Spots
    <3> QED BY <3>1, NewsFinite
  <2>2. CASE i = i0 /\ from \in News(tree, i)
    <3> DEFINE S == News(tree, i) \ {from}
    <3>1. News(tree', i) = S \cup {"v2"} /\ "v2" \notin S
      BY <2>2 DEF News, Spots
    <3>2. IsFiniteSet(S) /\ Cardinality(S) = Cardinality(News(tree, i)) - 1
      BY <2>2, NewsFinite, FS_RemoveElement
    <3>3. Cardinality(News(tree', i)) = Cardinality(S) + 1
      <4>1. Cardinality(S \cup {"v2"}) = Cardinality(S) + 1
        BY <3>1, <3>2, FS_AddElement
      <4> QED BY <3>1, <4>1
    <3> QED BY <3>2, <3>3, NewsFinite
  <2> QED BY <2>1, <2>2
<1> QED BY <1>1, <1>2

\* A run begins knowing nothing but where the roots are.
LEMMA LoadKeeps ==
  ASSUME MigrateInv, Load PROVE MigrateInv'
<1>1. run = NoRun /\ run.pc = "idle" /\ ~Under /\ TypedTree
  BY UnderRec DEF MigrateInv, Load, RunAt, TypedTree, RunRec
<1>2. /\ UNCHANGED <<tree, ref, journal, claim, legacyThere, marked, vaultRoot, across, daemon,
                     passed, faults, starts, lock, cut>>
      /\ raced' = FALSE /\ last' = NoEnd /\ warned' = {}
  BY DEF Load, RunOnly, machine
<1>3. DataRoot \in Roots /\ vaultRoot \in BOOLEAN
  BY <1>1 DEF DataRoot, Roots, TypedTree
<1>4. run' \in RunRec
  BY <1>3 DEF Load, RunRec, RunSteps
<1>5. /\ run'.pc = "probe" /\ run'.root = DataRoot /\ run'.vault = vaultRoot /\ run'.pairs = {}
      /\ run'.contended = {} /\ run'.claimed = FALSE /\ run'.prior = {} /\ run'.done = {}
      /\ run'.torn = {} /\ run'.conflicts = {} /\ run'.named = {} /\ run'.failed = FALSE
  BY DEF Load
<1>6. NoEnd \in EndRec /\ NoEnd.exit = "none" /\ NoEnd.named \subseteq NoEnd.conflicts
  BY DEF NoEnd, EndRec
<1>7. Under'
  BY <1>4, <1>5 DEF Under, NoRun
<1>8. /\ Has("clones", "cflat") => DataRoot = "C"
      /\ DataRoot = "C" /\ Has("clones", "old") => passed
  BY DEF MigrateInv, RootsTell, DataRoot
<1>9. TypedTree'
  BY <1>1, <1>2, <1>5, <1>7, <1>4, <1>6 DEF MigrateInv, TypedTree
<1>10. Laid'
  BY <1>1, <1>2, <1>5, <1>7 DEF MigrateInv, Laid, Mine
<1>11. RootsTell'
  BY <1>1, <1>2, <1>5, <1>7 DEF MigrateInv, RootsTell, Has, Mine, TornIn
<1>12. Journals'
  BY <1>1, <1>2, <1>5, <1>7 DEF MigrateInv, Journals
<1>13. Shaped'
  BY <1>1, <1>2, <1>5, <1>7 DEF Shaped, Before, Gathering, Moving, Told
<1>14. PairsShaped'
  BY <1>1, <1>2, <1>5, <1>7 DEF PairsShaped, Moving
<1>15. Remembers'
  BY <1>1, <1>2, <1>5, <1>7 DEF Remembers, Before, Gathering, Moving, Told
<1>16. Sheltered'
  BY <1>1, <1>2, <1>5, <1>7, <1>8 DEF Sheltered, Has, TornIn
<1>17. HandsOff'
  BY <1>1, <1>2, <1>5, <1>7 DEF HandsOff, Mine, TornIn, Before, Gathering, Moving, Told
<1>18. StillThere'
  BY <1>1, <1>2, <1>5, <1>7 DEF StillThere, Has, TornIn, Moving
<1>19. QueueIsWhole'
  BY <1>1, <1>2, <1>5, <1>7 DEF QueueIsWhole, TornIn, Before
<1>20. DoneIsWhole'
  BY <1>1, <1>2, <1>5, <1>7 DEF DoneIsWhole, TornIn
<1>21. ConflictsTold'
  BY <1>1, <1>2, <1>5, <1>7 DEF ConflictsTold, TornIn, WasCut
<1>22. Gathered'
  BY <1>1, <1>2, <1>5, <1>7 DEF Gathered, Smooth, Filtered, Mine, Has, Before,
     Gathering, Moving, Told
<1>23. NoneBehind'
  BY <1>1, <1>2, <1>5, <1>7 DEF NoneBehind, Smooth, Filtered, Mine, Before, Gathering,
     Moving, Told
<1>24. RefsFollow'
  BY <1>1, <1>2, <1>5, <1>7 DEF RefsFollow, Smooth, Before, Gathering, Moving, Told
<1>25. TornIsKnown'
  BY <1>1, <1>2, <1>5, <1>7 DEF MigrateInv, TornIsKnown, TornKnown, FromVault, TornIn,
     WasCut, Under, Has, Before, Gathering, Moving, Told
<1>26. Beside'
  BY <1>1, <1>2, <1>5, <1>7 DEF MigrateInv, Beside, Alone, Excluded, Naming, Smooth, Has
<1>27. ClonesRecorded'
  BY <1>1, <1>2, <1>5, <1>7 DEF MigrateInv, ClonesRecorded, Mine, Under
<1>28. NamesRecorded'
  BY <1>1, <1>2, <1>5, <1>7 DEF MigrateInv, NamesRecorded, Naming, Mine
<1>29. Ends'
  BY <1>1, <1>2, <1>5, <1>7, <1>6 DEF MigrateInv, Ends
<1>30. NothingLost'
  BY <1>1, <1>2, <1>5, <1>7 DEF MigrateInv, NothingLost
<1>31. CleanMeansUnified'
  BY <1>1, <1>2, <1>5, <1>7, <1>6 DEF MigrateInv, CleanMeansUnified, Ends, NoEnd
<1> QED
  BY <1>9, <1>10, <1>11, <1>12, <1>13, <1>14, <1>15, <1>16, <1>17, <1>18, <1>19, <1>20,
     <1>21, <1>22, <1>23, <1>24, <1>25, <1>26, <1>27, <1>28, <1>29, <1>30, <1>31 DEF
     MigrateInv, RunInv

\* The plan has a pair for everything it may see.
LEMMA ProbeKeeps ==
  ASSUME MigrateInv, Probe PROVE MigrateInv'
<1>1. /\ run \in RunRec /\ Under /\ RunInv /\ TypedTree
      /\ run.pc = "probe"
  BY UnderRec DEF MigrateInv, Probe, RunAt
<1>2. UNCHANGED <<tree, ref, journal, claim, legacyThere, marked, vaultRoot, across, daemon,
                  passed, faults, starts, lock, cut, warned, raced>>
  BY DEF Probe, RunOnly, machine
<1>3. CASE Refused /\ Ended("none")
  <2>1. /\ run' = NoRun /\ last' = [exit |-> "none", conflicts |-> run.conflicts, named |-> run.named]
    BY <1>3 DEF Ended
  <2>2. /\ last' \in EndRec /\ last'.exit = "none" /\ last'.conflicts = run.conflicts /\ last'.named = run.named
    BY <2>1, <1>1 DEF EndRec, RunRec
  <2>3. ~Under' /\ run'.pc = "idle"
    BY <2>1 DEF Under, NoRun
  <2>4. run.done = {} /\ run.torn = {} /\ run.conflicts = {} /\ run.named = {}
    BY <1>1 DEF RunInv, Shaped
  <2>5. TypedTree'
    BY <1>1, <1>2, <2>2, <2>3, <2>4, <2>1 DEF MigrateInv, TypedTree
  <2>6. Laid'
    BY <1>1, <1>2, <2>2, <2>3, <2>4 DEF MigrateInv, Laid, Mine
  <2>7. RootsTell'
    BY <1>1, <1>2, <2>2, <2>3, <2>4 DEF MigrateInv, RootsTell, Has, Mine, TornIn
  <2>8. Journals'
    BY <1>1, <1>2, <2>2, <2>3, <2>4 DEF MigrateInv, Journals
  <2>9. TornIsKnown'
    BY <1>1, <1>2, <2>2, <2>3, <2>4 DEF MigrateInv, TornIsKnown, TornKnown, FromVault,
       TornIn, WasCut, Under, Has, Before, Gathering, Moving, Told
  <2>10. Beside'
    BY <1>1, <1>2, <2>2, <2>3, <2>4 DEF MigrateInv, Beside, Alone, Excluded, Naming, Smooth, Has
  <2>11. ClonesRecorded'
    BY <1>1, <1>2, <2>2, <2>3, <2>4 DEF MigrateInv, ClonesRecorded, Mine, Under
  <2>12. NamesRecorded'
    BY <1>1, <1>2, <2>2, <2>3, <2>4 DEF MigrateInv, NamesRecorded, Naming, Mine
  <2>13. Ends'
    BY <1>1, <1>2, <2>2, <2>3, <2>4 DEF MigrateInv, Ends
  <2>14. NothingLost'
    BY <1>1, <1>2, <2>2, <2>3, <2>4 DEF MigrateInv, NothingLost
  <2>15. CleanMeansUnified'
    BY <1>1, <1>2, <2>2, <2>3, <2>4 DEF MigrateInv, CleanMeansUnified, Ends, NoEnd
  <2> QED
    BY <2>3, <2>5, <2>6, <2>7, <2>8, <2>9, <2>10, <2>11, <2>12, <2>13, <2>14, <2>15 DEF
       MigrateInv
<1>4. CASE /\ run' = [run EXCEPT !.pc = "lock", !.pairs = DataRootPairs(run.root),
                                !.contended = Contended(run.root)]
           /\ UNCHANGED last
  <2> DEFINE p == DataRootPairs(run.root)
      c == Contended(run.root)
  <2>1. "lock" \in RunSteps /\ p \in SUBSET Pairs /\ c \in SUBSET Items
    BY DEF RunSteps, DataRootPairs, Contended
  <2>2. run' = [run EXCEPT !.pc = "lock", !.pairs = p, !.contended = c] /\ UNCHANGED last
    BY <1>4
  <2>3. /\ Pending("clones", run.root) \subseteq {"cflat", "flat"}
        /\ "cflat" \in Pending("clones", run.root) <=> Has("clones", "cflat") /\ run.root = "C"
        /\ "flat" \in Pending("clones", run.root) <=> Has("clones", "flat")
        /\ \A i \in Items : "cflat" \in Pending(i, run.root) => i = "clones"
    BY DEF Pending
  <2>4. Has("clones", "cflat") => run.root = "C" /\ ~TornIn("clones") /\ marked
    BY <1>1 DEF MigrateInv, RunInv, Sheltered, RootsTell
  <2>5. /\ {QF, WF, JL} \subseteq p /\ (CC \in p => Has("clones", "cflat"))
        /\ (CF \in p <=> Has("clones", "flat") \/ ~Has("clones", "cflat"))
    <3>1. /\ QF \in Pairs /\ QF.item # "clones"
          /\ WF \in Pairs /\ WF.item # "clones"
          /\ JL \in Pairs /\ JL.item # "clones"
      BY DEF Pairs, QF, WF, JL
    <3>2. \A q \in Pairs : q.item # "clones" => q \in p
      BY DEF DataRootPairs
    <3>3. CC \in p => "cflat" \in Pending("clones", run.root)
      BY DEF DataRootPairs, Pairs, CC
    <3>4. CF \in p <=> "flat" \in Pending("clones", run.root) \/ Pending("clones", run.root) = {}
      BY DEF DataRootPairs, Pairs, CF
    <3> QED
      BY <3>1, <3>2, <3>3, <3>4, <2>3, <2>4
  <2>6. /\ c \subseteq {"clones"} /\ ("clones" \in c <=> Has("clones", "flat") /\ Has("clones", "cflat"))
    BY <2>3, <2>4 DEF Contended, Items
  <2> HIDE DEF p, c
  <2>7. /\ run' \in RunRec /\ run'.pc = "lock" /\ run'.pairs = p /\ run'.contended = c
        /\ run'.root = run.root /\ run'.vault = run.vault /\ run'.claimed = run.claimed
        /\ run'.prior = run.prior /\ run'.done = run.done /\ run'.torn = run.torn
        /\ run'.conflicts = run.conflicts /\ run'.named = run.named /\ run'.failed = run.failed
    <3>1. PICK l \in RunSteps : l = "lock"
      BY <2>1
    <3>2. run' = [run EXCEPT !.pc = l, !.pairs = p, !.contended = c]
      BY <2>2, <3>1
    <3>3. run \in RunRec /\ p \in SUBSET Pairs /\ c \in SUBSET Items
      BY <1>1, <2>1
    <3> QED
      BY <3>2, <3>3, <3>1, SetPlan, Zenon
  <2>8. Under'
    BY <2>7, UnderRec DEF Under, RunRec, RunSteps, Gathering, Moving, Told, NoRun
  <2>9. TypedTree'
    BY <1>1, <1>2, <2>2, <2>7, <2>8 DEF MigrateInv, TypedTree
  <2>10. Laid'
    BY <1>1, <1>2, <2>2, <2>7, <2>8 DEF MigrateInv, Laid, Mine
  <2>11. RootsTell'
    BY <1>1, <1>2, <2>2, <2>7, <2>8 DEF MigrateInv, RootsTell, Has, Mine, TornIn
  <2>12. Journals'
    BY <1>1, <1>2, <2>2, <2>7, <2>8 DEF MigrateInv, Journals
  <2>13. Shaped'
    BY <1>1, <1>2, <2>2, <2>7, <2>8, <2>5 DEF RunInv, Shaped, Before, Gathering,
       Moving, Told
  <2>14. PairsShaped'
    BY <1>1, <1>2, <2>2, <2>7, <2>8 DEF RunInv, PairsShaped, Shaped, Moving
  <2>15. Remembers'
    BY <1>1, <1>2, <2>2, <2>7, <2>8 DEF RunInv, Remembers, Before, Gathering, Moving,
       Told
  <2>16. Sheltered'
    BY <1>1, <1>2, <2>2, <2>7, <2>8, <2>5, <2>6, <2>4 DEF RunInv, Sheltered, Has,
       TornIn
  <2>17. HandsOff'
    BY <1>1, <1>2, <2>2, <2>7, <2>8 DEF RunInv, HandsOff, Mine, TornIn, Before,
       Gathering, Moving, Told
  <2>18. StillThere'
    BY <1>1, <1>2, <2>2, <2>7, <2>8 DEF RunInv, StillThere, Has, TornIn, Moving
  <2>19. QueueIsWhole'
    BY <1>1, <1>2, <2>2, <2>7, <2>8 DEF RunInv, QueueIsWhole, TornIn, Before
  <2>20. DoneIsWhole'
    BY <1>1, <1>2, <2>2, <2>7, <2>8 DEF RunInv, DoneIsWhole, TornIn
  <2>21. ConflictsTold'
    BY <1>1, <1>2, <2>2, <2>7, <2>8 DEF RunInv, ConflictsTold, TornIn, WasCut
  <2>22. Gathered'
    BY <1>1, <1>2, <2>2, <2>7, <2>8, <2>5, <2>4 DEF RunInv, Gathered, Smooth, Filtered,
       Mine, Has, Before, Gathering, Moving, Told, RootsTell, Absent, MigrateInv
  <2>23. NoneBehind'
    BY <1>1, <1>2, <2>2, <2>7, <2>8 DEF RunInv, NoneBehind, Smooth, Filtered, Mine, Before,
       Gathering, Moving, Told
  <2>24. RefsFollow'
    BY <1>1, <1>2, <2>2, <2>7, <2>8 DEF RunInv, RefsFollow, Smooth, Before, Gathering,
       Moving, Told
  <2>25. TornIsKnown'
    BY <1>1, <1>2, <2>2, <2>7, <2>8 DEF MigrateInv, TornIsKnown, TornKnown, FromVault,
       TornIn, WasCut, Under, Has, Before, Gathering, Moving, Told
  <2>26. Beside'
    BY <1>1, <1>2, <2>2, <2>7, <2>8 DEF MigrateInv, Beside, Alone, Excluded, Naming, Smooth, Has
  <2>27. ClonesRecorded'
    BY <1>1, <1>2, <2>2, <2>7, <2>8 DEF MigrateInv, ClonesRecorded, Mine, Under
  <2>28. NamesRecorded'
    BY <1>1, <1>2, <2>2, <2>7, <2>8 DEF MigrateInv, NamesRecorded, Naming, Mine
  <2>29. Ends'
    BY <1>1, <1>2, <2>2, <2>7, <2>8 DEF MigrateInv, Ends
  <2>30. NothingLost'
    BY <1>1, <1>2, <2>2, <2>7, <2>8 DEF MigrateInv, NothingLost
  <2>31. CleanMeansUnified'
    BY <1>1, <1>2, <2>2, <2>7, <2>8 DEF MigrateInv, CleanMeansUnified, Ends, NoEnd
  <2> QED
    BY <2>9, <2>10, <2>11, <2>12, <2>13, <2>14, <2>15, <2>16, <2>17, <2>18, <2>19,
       <2>20, <2>21, <2>22, <2>23, <2>24, <2>25, <2>26, <2>27, <2>28, <2>29, <2>30,
       <2>31 DEF MigrateInv, RunInv
<1> QED
  BY <1>3, <1>4 DEF Probe

\* The daemon moves the old names: the run refuses.
LEMMA LockRefusedKeeps ==
  ASSUME MigrateInv, LockRefused PROVE MigrateInv'
<1>1. /\ run \in RunRec /\ Under /\ RunInv /\ TypedTree
      /\ run.pc = "lock"
  BY UnderRec DEF MigrateInv, LockRefused, RunAt
<1>2. UNCHANGED <<tree, ref, journal, claim, legacyThere, marked, vaultRoot, across, daemon,
                  passed, faults, starts, lock, cut, warned, raced>>
  BY DEF LockRefused, RunOnly, machine
<1>3. /\ run' = NoRun /\ last' = [exit |-> "none", conflicts |-> run.conflicts, named |-> run.named]
  BY DEF LockRefused, Ended
<1>4. /\ last' \in EndRec /\ last'.exit = "none" /\ last'.conflicts = run.conflicts /\ last'.named = run.named
  BY <1>3, <1>1 DEF EndRec, RunRec
<1>5. ~Under' /\ run'.pc = "idle"
  BY <1>3 DEF Under, NoRun
<1>6. run.done = {} /\ run.torn = {} /\ run.conflicts = {} /\ run.named = {}
  BY <1>1 DEF RunInv, Shaped
<1>7. TypedTree'
  BY <1>1, <1>2, <1>4, <1>5, <1>6, <1>3 DEF MigrateInv, TypedTree
<1>8. Laid'
  BY <1>1, <1>2, <1>4, <1>5, <1>6 DEF MigrateInv, Laid, Mine
<1>9. RootsTell'
  BY <1>1, <1>2, <1>4, <1>5, <1>6 DEF MigrateInv, RootsTell, Has, Mine, TornIn
<1>10. Journals'
  BY <1>1, <1>2, <1>4, <1>5, <1>6 DEF MigrateInv, Journals
<1>11. TornIsKnown'
  BY <1>1, <1>2, <1>4, <1>5, <1>6 DEF MigrateInv, TornIsKnown, TornKnown, FromVault,
     TornIn, WasCut, Under, Has, Before, Gathering, Moving, Told
<1>12. Beside'
  BY <1>1, <1>2, <1>4, <1>5, <1>6 DEF MigrateInv, Beside, Alone, Excluded, Naming, Smooth, Has
<1>13. ClonesRecorded'
  BY <1>1, <1>2, <1>4, <1>5, <1>6 DEF MigrateInv, ClonesRecorded, Mine, Under
<1>14. NamesRecorded'
  BY <1>1, <1>2, <1>4, <1>5, <1>6 DEF MigrateInv, NamesRecorded, Naming, Mine
<1>15. Ends'
  BY <1>1, <1>2, <1>4, <1>5, <1>6 DEF MigrateInv, Ends
<1>16. NothingLost'
  BY <1>1, <1>2, <1>4, <1>5, <1>6 DEF MigrateInv, NothingLost
<1>17. CleanMeansUnified'
  BY <1>1, <1>2, <1>4, <1>5, <1>6 DEF MigrateInv, CleanMeansUnified, Ends, NoEnd
<1> QED
  BY <1>5, <1>7, <1>8, <1>9, <1>10, <1>11, <1>12, <1>13, <1>14, <1>15, <1>16, <1>17 DEF
     MigrateInv

LEMMA LockKeeps ==
  ASSUME MigrateInv, Lock PROVE MigrateInv'
<1>1. /\ run \in RunRec /\ Under /\ RunInv /\ TypedTree
      /\ run.pc = "lock"
  BY UnderRec DEF MigrateInv, Lock, RunAt
<1>2. /\ UNCHANGED <<tree, ref, journal, legacyThere, marked, vaultRoot, across, daemon, last,
                     cut, warned, passed, faults, starts>>
      /\ raced' = (raced \/ daemon.pc # "down")
  BY DEF Lock, machine, bounds
<1>3. lock' \in [Roots -> BOOLEAN] /\ claim' \in [ClaimPlaces -> {"none", "live", "stale"}]
  BY <1>1 DEF Lock, Swept, TypedTree
<1> DEFINE r == journal["C"].partial
<1>4. run' = [run EXCEPT !.pc = "queue", !.prior = r]
  BY DEF Lock
<1>5. "queue" \in RunSteps /\ r \in SUBSET Copies
  BY <1>1 DEF RunSteps, Gathering, TypedTree, Roots, JournalRec
<1>6. /\ run' \in RunRec /\ run'.pc = "queue" /\ run'.prior = r
      /\ run'.root = run.root /\ run'.vault = run.vault /\ run'.pairs = run.pairs
      /\ run'.contended = run.contended /\ run'.claimed = run.claimed /\ run'.done = run.done
      /\ run'.torn = run.torn /\ run'.conflicts = run.conflicts /\ run'.named = run.named
      /\ run'.failed = run.failed
  BY <1>1, <1>4, <1>5, SetPrior
<1>7. Pair' = Pair
  BY <1>6 DEF Pair
<1>8. Under'
  BY <1>6, UnderRec DEF Under, RunRec, RunSteps, Gathering, Moving, Told, NoRun
<1>9. TypedTree'
  BY <1>1, <1>2, <1>6, <1>8, <1>3 DEF MigrateInv, TypedTree
<1>10. Laid'
  BY <1>1, <1>2, <1>6, <1>8 DEF MigrateInv, Laid, Mine
<1>11. RootsTell'
  BY <1>1, <1>2, <1>6, <1>8 DEF MigrateInv, RootsTell, Has, Mine, TornIn
<1>12. Journals'
  BY <1>1, <1>2, <1>6, <1>8 DEF MigrateInv, Journals
<1>13. Shaped'
  BY <1>1, <1>2, <1>6, <1>8 DEF RunInv, Shaped, Before, Gathering, Moving, Told
<1>14. PairsShaped'
  BY <1>1, <1>2, <1>6, <1>8, <1>7 DEF RunInv, PairsShaped, Moving
<1>15. Remembers'
  BY <1>1, <1>2, <1>6, <1>8 DEF RunInv, Remembers, Before, Gathering, Moving, Told
<1>16. Sheltered'
  BY <1>1, <1>2, <1>6, <1>8 DEF RunInv, Sheltered, Has, TornIn
<1>17. HandsOff'
  BY <1>1, <1>2, <1>6, <1>8 DEF RunInv, HandsOff, Mine, TornIn, Before, Gathering,
     Moving, Told
<1>18. StillThere'
  BY <1>1, <1>2, <1>6, <1>8 DEF RunInv, StillThere, Has, TornIn, Moving
<1>19. QueueIsWhole'
  BY <1>1, <1>2, <1>6, <1>8 DEF RunInv, QueueIsWhole, TornIn, Before
<1>20. DoneIsWhole'
  BY <1>1, <1>2, <1>6, <1>8 DEF RunInv, DoneIsWhole, TornIn
<1>21. ConflictsTold'
  BY <1>1, <1>2, <1>6, <1>8 DEF RunInv, ConflictsTold, TornIn, WasCut
<1>22. Gathered'
  BY <1>1, <1>2, <1>6, <1>8 DEF RunInv, Gathered, Smooth, Filtered, Mine, Has, Before,
     Gathering, Moving, Told
<1>23. NoneBehind'
  BY <1>1, <1>2, <1>6, <1>8 DEF RunInv, NoneBehind, Smooth, Filtered, Mine, Before,
     Gathering, Moving, Told
<1>24. RefsFollow'
  BY <1>1, <1>2, <1>6, <1>8 DEF RunInv, RefsFollow, Smooth, Before, Gathering, Moving,
     Told
<1>25. TornIsKnown'
  BY <1>1, <1>2, <1>6, <1>8, <1>7 DEF MigrateInv, TornIsKnown, TornKnown, FromVault,
     TornIn, WasCut, Under, Has, Before, Gathering, Moving, Told
<1>26. Beside'
  <2>1. ~Naming /\ (Has("clones", "old") => lock'["L"])
    BY <1>1 DEF Lock, MigrateInv, RootsTell, Roots
  <2> QED
    BY <1>1, <1>2, <1>6, <1>8, <2>1 DEF Beside, Alone, Excluded, Naming, Has
<1>27. ClonesRecorded'
  BY <1>1, <1>2, <1>6, <1>8 DEF MigrateInv, ClonesRecorded, Mine, Under
<1>28. NamesRecorded'
  BY <1>1, <1>2, <1>6, <1>8 DEF MigrateInv, NamesRecorded, Naming, Mine
<1>29. Ends'
  BY <1>1, <1>2, <1>6, <1>8 DEF MigrateInv, Ends
<1>30. NothingLost'
  BY <1>1, <1>2, <1>6, <1>8 DEF MigrateInv, NothingLost
<1>31. CleanMeansUnified'
  BY <1>1, <1>2, <1>6, <1>8 DEF MigrateInv, CleanMeansUnified, Ends, NoEnd
<1> QED
  BY <1>9, <1>10, <1>11, <1>12, <1>13, <1>14, <1>15, <1>16, <1>17, <1>18, <1>19, <1>20,
     <1>21, <1>22, <1>23, <1>24, <1>25, <1>26, <1>27, <1>28, <1>29, <1>30, <1>31 DEF
     MigrateInv, RunInv

\* Only an unfinished copy is removed.
LEMMA ClearWreckageKeeps ==
  ASSUME MigrateInv, NEW i \in Items, ClearWreckage(i) PROVE MigrateInv' /\ OthersStand
<1>1. run = NoRun /\ run.pc = "idle" /\ ~Under /\ TypedTree
  BY UnderRec DEF MigrateInv, ClearWreckage, RunAt, TypedTree, RunRec
<1>2. UNCHANGED <<ref, journal, lock, claim, legacyThere, marked, vaultRoot, across, run, daemon,
                  cut, warned, raced, passed, faults, starts>>
  BY DEF ClearWreckage, machine, ghosts, bounds
<1>3. Items = {"queue", "watch", "clones"} /\ Spots = {"vault", "old", "flat", "cflat", "v2"}
  BY DEF Items, Spots
<1>4. tree[i]["v2"] = {"torn"}
  BY DEF ClearWreckage
<1>5. tree' = [tree EXCEPT ![i]["v2"] = Absent]
  BY DEF ClearWreckage
<1>6. Absent \in Content
  BY <1>1, <1>3 DEF Content, Absent
<1>7. /\ tree' \in Trees
      /\ tree'[i]["v2"] = Absent
      /\ \A j \in Items, r \in Spots : j # i \/ r \notin {"v2"} => tree'[j][r] = tree[j][r]
  BY <1>1, <1>5, <1>6, <1>3 DEF TypedTree, Trees
<1> DEFINE n == last.named \ {i}
<1>8. /\ last' \in EndRec /\ last'.exit = last.exit /\ last'.conflicts = last.conflicts /\ last'.named = n
  <2>1. last' = [last EXCEPT !.named = n] /\ n \in SUBSET Items /\ last \in EndRec
    BY <1>1 DEF ClearWreckage, TypedTree, EndRec
  <2> HIDE DEF n
  <2> QED
    BY <2>1 DEF EndRec
<1>9. ~Under' /\ run'.pc = "idle"
  BY <1>2, <1>1 DEF Under
<1>10. /\ \A j \in Items, r \in Spots : "mine" \in tree'[j][r] <=> "mine" \in tree[j][r]
       /\ \A j \in Items : "torn" \in tree'[j]["v2"] => "torn" \in tree[j]["v2"] /\ j # i
  BY <1>7, <1>4, <1>3 DEF Absent
<1>11. TypedTree'
  BY <1>1, <1>2, <1>7, <1>8, <1>9, <1>3, <1>4, <1>10 DEF MigrateInv, TypedTree
<1>12. Laid'
  BY <1>1, <1>2, <1>7, <1>8, <1>9, <1>3, <1>4, <1>10 DEF MigrateInv, Laid, Mine, Absent
<1>13. RootsTell'
  BY <1>1, <1>2, <1>7, <1>8, <1>9, <1>3, <1>4, <1>10 DEF MigrateInv, RootsTell, Has,
     Mine, TornIn, Absent
<1>14. Journals'
  BY <1>1, <1>2, <1>7, <1>8, <1>9, <1>3, <1>4, <1>10 DEF MigrateInv, Journals
<1>15. TornIsKnown'
  BY <1>1, <1>2, <1>7, <1>8, <1>9, <1>3, <1>4, <1>10 DEF MigrateInv, TornIsKnown,
     TornKnown, FromVault, TornIn, WasCut, Under, Has, Before, Gathering, Moving, Told
<1>16. Beside'
  BY <1>1, <1>2, <1>7, <1>8, <1>9, <1>3, <1>4, <1>10 DEF MigrateInv, Beside, Alone, Excluded, Naming, Smooth, Has
<1>17. ClonesRecorded'
  BY <1>1, <1>2, <1>7, <1>8, <1>9, <1>3, <1>4, <1>10 DEF MigrateInv, ClonesRecorded,
     Mine, Under
<1>18. NamesRecorded'
  BY <1>1, <1>2, <1>7, <1>8, <1>9, <1>3, <1>4, <1>10 DEF MigrateInv, NamesRecorded, Naming,
     Mine
<1>19. Ends'
  BY <1>1, <1>2, <1>7, <1>8, <1>9, <1>3, <1>4, <1>10 DEF MigrateInv, Ends
<1>20. NothingLost'
  BY <1>1, <1>2, <1>7, <1>8, <1>9, <1>3, <1>4, <1>10 DEF MigrateInv, NothingLost
<1>21. CleanMeansUnified'
  BY <1>1, <1>2, <1>7, <1>8, <1>9, <1>3, <1>4, <1>10 DEF MigrateInv, CleanMeansUnified,
     Ends, NoEnd
<1>22. OthersStand
  BY <1>7, <1>4, <1>3, QuietStands DEF Absent
<1> QED
  BY <1>9, <1>11, <1>12, <1>13, <1>14, <1>15, <1>16, <1>17, <1>18, <1>19, <1>20, <1>21,
     <1>22 DEF MigrateInv

\* The vault's queue, before the pairs: it goes first, on its own.
LEMMA QueueMkdirKeeps ==
  ASSUME MigrateInv, QueueMkdir PROVE MigrateInv' /\ OthersStand
<1>1. /\ run \in RunRec /\ Under /\ RunInv /\ TypedTree
      /\ run.pc = "queue"
  BY UnderRec DEF MigrateInv, QueueMkdir, RunAt
<1>2. /\ UNCHANGED <<ref, lock, vaultRoot, across, legacyThere, daemon, last, cut, warned,
                     starts, faults, journal, claim>>
      /\ raced' = (raced \/ daemon.pc # "down")
  BY DEF QueueMkdir, Acting, NoFault
<1>3. CASE run.vault /\ Has("queue", "vault")
  <2>1. Items = {"queue", "watch", "clones"} /\ Spots = {"vault", "old", "flat", "cflat", "v2"}
    BY DEF Items, Spots
  <2>2. run' = [run EXCEPT !.pc = "vault", !.claimed = TRUE]
    BY <1>3, <1>1 DEF QueueMkdir, Go
  <2>3. "vault" \in RunSteps /\ TRUE \in BOOLEAN
    BY <1>1 DEF RunRec, RunSteps, Gathering, Moving, Told
  <2>4. /\ run' \in RunRec /\ run'.pc = "vault" /\ run'.claimed = TRUE
        /\ run'.root = run.root /\ run'.vault = run.vault /\ run'.pairs = run.pairs
        /\ run'.contended = run.contended /\ run'.prior = run.prior /\ run'.done = run.done
        /\ run'.torn = run.torn /\ run'.conflicts = run.conflicts /\ run'.named = run.named
        /\ run'.failed = run.failed
    BY <1>1, <2>2, <2>3, SetClaimed
  <2> DEFINE A == IF tree["queue"]["v2"] = Absent THEN {} ELSE tree["queue"]["v2"]
  <2>5. tree' = [tree EXCEPT !["queue"]["v2"] = A]
    BY <1>3, <1>1 DEF QueueMkdir, TypedTree, Trees
  <2>6. A \in Content
    BY <1>1, <2>1 DEF TypedTree, Trees, Content
  <2>7. /\ tree' \in Trees
        /\ tree'["queue"]["v2"] = A
        /\ \A j \in Items, r \in Spots : j # "queue" \/ r \notin {"v2"} => tree'[j][r] = tree[j][r]
    BY <1>1, <2>5, <2>6, <2>1 DEF TypedTree, Trees
  <2>8. /\ \A j \in Items, r \in Spots, m \in {"mine", "news", "torn"} : m \in tree'[j][r] <=> m \in tree[j][r]
        /\ tree'["queue"]["v2"] \in {{}, tree["queue"]["v2"]}
    BY <2>7 DEF Absent
  <2> HIDE DEF A
  <2>9. marked' = TRUE /\ passed' = (passed \/ (~marked /\ Has("clones", "old")))
    BY <1>3 DEF QueueMkdir, Mark
  <2>10. Pair' = Pair
    BY <2>4 DEF Pair
  <2>11. Under'
    BY <2>4, UnderRec DEF Under, RunRec, RunSteps, Gathering, Moving, Told, NoRun
  <2>12. TypedTree'
    BY <1>1, <1>2, <2>7, <2>9, <2>4, <2>11, <2>8, <2>1 DEF MigrateInv, TypedTree
  <2>13. Laid'
    BY <1>1, <1>2, <2>7, <2>9, <2>4, <2>11, <2>8, <2>1 DEF MigrateInv, Laid, Mine
  <2>14. RootsTell'
    BY <1>1, <1>2, <2>7, <2>9, <2>4, <2>11, <2>8, <2>1 DEF MigrateInv, RootsTell, Has,
       Mine, TornIn
  <2>15. Journals'
    BY <1>1, <1>2, <2>7, <2>9, <2>4, <2>11, <2>8, <2>1 DEF MigrateInv, Journals
  <2>16. Shaped'
    BY <1>1, <1>2, <2>7, <2>9, <2>4, <2>11, <2>8, <2>1, <1>3 DEF RunInv, Shaped,
       Before, Gathering, Moving, Told
  <2>17. PairsShaped'
    BY <1>1, <1>2, <2>7, <2>9, <2>4, <2>11, <2>8, <2>1, <2>10 DEF RunInv, PairsShaped,
       Moving
  <2>18. Remembers'
    BY <1>1, <1>2, <2>7, <2>9, <2>4, <2>11, <2>8, <2>1 DEF RunInv, Remembers, Before,
       Gathering, Moving, Told
  <2>19. Sheltered'
    BY <1>1, <1>2, <2>7, <2>9, <2>4, <2>11, <2>8, <2>1 DEF RunInv, Sheltered, Has,
       TornIn
  <2>20. HandsOff'
    BY <1>1, <1>2, <2>7, <2>9, <2>4, <2>11, <2>8, <2>1, <2>10 DEF RunInv, HandsOff,
       Mine, TornIn, Before, Gathering, Moving, Told
  <2>21. StillThere'
    BY <1>1, <1>2, <2>7, <2>9, <2>4, <2>11, <2>8, <2>1, <1>3 DEF RunInv, StillThere,
       Has, TornIn, Moving
  <2>22. QueueIsWhole'
    BY <1>1, <1>2, <2>7, <2>9, <2>4, <2>11, <2>8, <2>1 DEF RunInv, QueueIsWhole,
       TornIn, Before
  <2>23. DoneIsWhole'
    BY <1>1, <1>2, <2>7, <2>9, <2>4, <2>11, <2>8, <2>1 DEF RunInv, DoneIsWhole, TornIn
  <2>24. ConflictsTold'
    BY <1>1, <1>2, <2>7, <2>9, <2>4, <2>11, <2>8, <2>1 DEF RunInv, ConflictsTold,
       TornIn, WasCut
  <2>25. Gathered'
    BY <1>1, <1>2, <2>7, <2>9, <2>4, <2>11, <2>8, <2>1 DEF RunInv, Gathered, Smooth,
       Filtered, Mine, Has, Before, Gathering, Moving, Told
  <2>26. NoneBehind'
    BY <1>1, <1>2, <2>7, <2>9, <2>4, <2>11, <2>8, <2>1 DEF RunInv, NoneBehind, Smooth,
       Filtered, Mine, Before, Gathering, Moving, Told
  <2>27. RefsFollow'
    BY <1>1, <1>2, <2>7, <2>9, <2>4, <2>11, <2>8, <2>1 DEF RunInv, RefsFollow, Smooth,
       Before, Gathering, Moving, Told
  <2>28. TornIsKnown'
    BY <1>1, <1>2, <2>7, <2>9, <2>4, <2>11, <2>8, <2>1 DEF MigrateInv, TornIsKnown,
       TornKnown, FromVault, TornIn, WasCut, Under, Has, Before, Gathering, Moving,
       Told
  <2>29. Beside'
    BY <1>1, <1>2, <2>7, <2>9, <2>4, <2>11, <2>8, <2>1, <2>10 DEF MigrateInv, Beside, Alone, Excluded, Naming, Smooth,
       Has
  <2>30. ClonesRecorded'
    BY <1>1, <1>2, <2>7, <2>9, <2>4, <2>11, <2>8, <2>1 DEF MigrateInv, ClonesRecorded,
       Mine, Under
  <2>31. NamesRecorded'
    BY <1>1, <1>2, <2>7, <2>9, <2>4, <2>11, <2>8, <2>1 DEF MigrateInv, NamesRecorded, Naming,
       Mine
  <2>32. Ends'
    BY <1>1, <1>2, <2>7, <2>9, <2>4, <2>11, <2>8, <2>1 DEF MigrateInv, Ends
  <2>33. NothingLost'
    BY <1>1, <1>2, <2>7, <2>9, <2>4, <2>11, <2>8, <2>1 DEF MigrateInv, NothingLost
  <2>34. CleanMeansUnified'
    BY <1>1, <1>2, <2>7, <2>9, <2>4, <2>11, <2>8, <2>1 DEF MigrateInv,
       CleanMeansUnified, Ends, NoEnd
  <2>35. OthersStand
    BY <2>8, <2>1, QuietStands
  <2> QED
    BY <2>12, <2>13, <2>14, <2>15, <2>16, <2>17, <2>18, <2>19, <2>20, <2>21, <2>22,
       <2>23, <2>24, <2>25, <2>26, <2>27, <2>28, <2>29, <2>30, <2>31, <2>32, <2>33,
       <2>34, <2>35 DEF MigrateInv, RunInv
<1>4. CASE ~(run.vault /\ Has("queue", "vault"))
  <2>1. run' = [run EXCEPT !.pc = "names"]
    BY <1>4, <1>1 DEF QueueMkdir, Go
  <2>2. "names" \in RunSteps
    BY DEF RunSteps, Gathering, Moving, Told
  <2>3. /\ run' \in RunRec /\ run'.pc = "names"
        /\ run'.root = run.root /\ run'.vault = run.vault /\ run'.pairs = run.pairs
        /\ run'.contended = run.contended /\ run'.claimed = run.claimed /\ run'.prior = run.prior
        /\ run'.done = run.done /\ run'.torn = run.torn /\ run'.conflicts = run.conflicts
        /\ run'.named = run.named /\ run'.failed = run.failed
    BY <1>1, <2>1, <2>2, SetPc
  <2>4. UNCHANGED <<tree, marked, passed>>
    BY <1>4 DEF QueueMkdir
  <2>5. Pair' = Pair
    BY <2>3 DEF Pair
  <2>6. ~Mine("queue", "vault") /\ ~FromVault("queue")
    BY <1>1, <1>4 DEF MigrateInv, RunInv, Shaped, RootsTell, Mine, Has, Absent,
       FromVault
  <2>7. Under'
    BY <2>3, UnderRec DEF Under, RunRec, RunSteps, Gathering, Moving, Told, NoRun
  <2>8. TypedTree'
    BY <1>1, <1>2, <2>4, <2>3, <2>7 DEF MigrateInv, TypedTree
  <2>9. Laid'
    BY <1>1, <1>2, <2>4, <2>3, <2>7 DEF MigrateInv, Laid, Mine
  <2>10. RootsTell'
    BY <1>1, <1>2, <2>4, <2>3, <2>7 DEF MigrateInv, RootsTell, Has, Mine, TornIn
  <2>11. Journals'
    BY <1>1, <1>2, <2>4, <2>3, <2>7 DEF MigrateInv, Journals
  <2>12. Shaped'
    BY <1>1, <1>2, <2>4, <2>3, <2>7 DEF RunInv, Shaped, Before, Gathering, Moving, Told
  <2>13. PairsShaped'
    BY <1>1, <1>2, <2>4, <2>3, <2>7, <2>5 DEF RunInv, PairsShaped, Moving
  <2>14. Remembers'
    BY <1>1, <1>2, <2>4, <2>3, <2>7 DEF RunInv, Remembers, Before, Gathering, Moving,
       Told
  <2>15. Sheltered'
    BY <1>1, <1>2, <2>4, <2>3, <2>7 DEF RunInv, Sheltered, Has, TornIn
  <2>16. HandsOff'
    BY <1>1, <1>2, <2>4, <2>3, <2>7, <2>5, <2>6 DEF RunInv, HandsOff, Mine, TornIn,
       Before, Gathering, Moving, Told
  <2>17. StillThere'
    BY <1>1, <1>2, <2>4, <2>3, <2>7 DEF RunInv, StillThere, Has, TornIn, Moving
  <2>18. QueueIsWhole'
    BY <1>1, <1>2, <2>4, <2>3, <2>7 DEF RunInv, QueueIsWhole, TornIn, Before, Shaped
  <2>19. DoneIsWhole'
    BY <1>1, <1>2, <2>4, <2>3, <2>7 DEF RunInv, DoneIsWhole, TornIn
  <2>20. ConflictsTold'
    BY <1>1, <1>2, <2>4, <2>3, <2>7 DEF RunInv, ConflictsTold, TornIn, WasCut
  <2>21. Gathered'
    BY <1>1, <1>2, <2>4, <2>3, <2>7 DEF RunInv, Gathered, Smooth, Filtered, Mine, Has,
       Before, Gathering, Moving, Told
  <2>22. NoneBehind'
    BY <1>1, <1>2, <2>4, <2>3, <2>7 DEF RunInv, NoneBehind, Smooth, Filtered, Mine, Before,
       Gathering, Moving, Told
  <2>23. RefsFollow'
    BY <1>1, <1>2, <2>4, <2>3, <2>7 DEF RunInv, RefsFollow, Smooth, Before, Gathering,
       Moving, Told
  <2>24. TornIsKnown'
    BY <1>1, <1>2, <2>4, <2>3, <2>7, <2>6, <2>5 DEF MigrateInv, TornIsKnown, TornKnown,
       FromVault, TornIn, WasCut, Under, Has, Before, Gathering, Moving, Told
  <2>25. Beside'
    BY <1>1, <1>2, <2>4, <2>3, <2>7, <2>5 DEF MigrateInv, Beside, Alone, Excluded, Naming, Smooth, Has
  <2>26. ClonesRecorded'
    BY <1>1, <1>2, <2>4, <2>3, <2>7 DEF MigrateInv, ClonesRecorded, Mine, Under
  <2>27. NamesRecorded'
    BY <1>1, <1>2, <2>4, <2>3, <2>7 DEF MigrateInv, NamesRecorded, Naming, Mine
  <2>28. Ends'
    BY <1>1, <1>2, <2>4, <2>3, <2>7 DEF MigrateInv, Ends
  <2>29. NothingLost'
    BY <1>1, <1>2, <2>4, <2>3, <2>7 DEF MigrateInv, NothingLost
  <2>30. CleanMeansUnified'
    BY <1>1, <1>2, <2>4, <2>3, <2>7 DEF MigrateInv, CleanMeansUnified, Ends, NoEnd
  <2>31. OthersStand
    BY <2>4, QuietStands
  <2> QED
    BY <2>8, <2>9, <2>10, <2>11, <2>12, <2>13, <2>14, <2>15, <2>16, <2>17, <2>18,
       <2>19, <2>20, <2>21, <2>22, <2>23, <2>24, <2>25, <2>26, <2>27, <2>28, <2>29,
       <2>30, <2>31 DEF MigrateInv, RunInv
<1> QED
  BY <1>3, <1>4

LEMMA QueueRemoveSourceKeeps ==
  ASSUME MigrateInv, QueueRemoveSource PROVE MigrateInv' /\ OthersStand
<1>1. /\ run \in RunRec /\ Under /\ RunInv /\ TypedTree
      /\ run.pc = "vaultrm"
  BY UnderRec DEF MigrateInv, QueueRemoveSource, RunAt
<1>2. /\ UNCHANGED <<ref, lock, vaultRoot, across, legacyThere, daemon, last, cut, warned,
                     starts, faults, journal, claim, marked, passed>>
      /\ raced' = (raced \/ daemon.pc # "down")
  BY DEF QueueRemoveSource, Acting, NoFault
<1>3. Items = {"queue", "watch", "clones"} /\ Spots = {"vault", "old", "flat", "cflat", "v2"}
  BY DEF Items, Spots
<1>4. run' = [run EXCEPT !.pc = "names"]
  BY <1>1 DEF QueueRemoveSource, Go
<1>5. "names" \in RunSteps
  BY DEF RunSteps, Gathering, Moving, Told
<1>6. /\ run' \in RunRec /\ run'.pc = "names"
      /\ run'.root = run.root /\ run'.vault = run.vault /\ run'.pairs = run.pairs
      /\ run'.contended = run.contended /\ run'.claimed = run.claimed /\ run'.prior = run.prior
      /\ run'.done = run.done /\ run'.torn = run.torn /\ run'.conflicts = run.conflicts
      /\ run'.named = run.named /\ run'.failed = run.failed
  BY <1>1, <1>4, <1>5, SetPc
<1>7. tree' = [tree EXCEPT !["queue"]["vault"] = Absent]
  BY DEF QueueRemoveSource
<1>8. Absent \in Content
  BY <1>1, <1>3 DEF Content, Absent
<1>9. /\ tree' \in Trees
      /\ tree'["queue"]["vault"] = Absent
      /\ \A j \in Items, r \in Spots : j # "queue" \/ r \notin {"vault"} => tree'[j][r] = tree[j][r]
  BY <1>1, <1>7, <1>8, <1>3 DEF TypedTree, Trees
<1>10. Pair' = Pair
  BY <1>6 DEF Pair
<1>11. Under'
  BY <1>6, UnderRec DEF Under, RunRec, RunSteps, Gathering, Moving, Told, NoRun
<1>12. /\ ~Mine("queue", "vault")
       /\ \A j \in Items, m \in {"mine", "torn"} : m \in tree'[j]["v2"] <=> m \in tree[j]["v2"]
       /\ \A j \in Items, r \in Spots : "mine" \in tree'[j][r] <=> "mine" \in tree[j][r]
  BY <1>1, <1>9, <1>3 DEF RunInv, HandsOff, Mine, Before, Absent
<1>13. TypedTree'
  BY <1>1, <1>2, <1>9, <1>6, <1>11, <1>12, <1>3 DEF MigrateInv, TypedTree
<1>14. Laid'
  BY <1>1, <1>2, <1>9, <1>6, <1>11, <1>12, <1>3 DEF MigrateInv, Laid, Mine, Absent
<1>15. RootsTell'
  BY <1>1, <1>2, <1>9, <1>6, <1>11, <1>12, <1>3 DEF MigrateInv, RootsTell, Has, Mine,
     TornIn
<1>16. Journals'
  BY <1>1, <1>2, <1>9, <1>6, <1>11, <1>12, <1>3 DEF MigrateInv, Journals
<1>17. Shaped'
  BY <1>1, <1>2, <1>9, <1>6, <1>11, <1>12, <1>3 DEF RunInv, Shaped, Before, Gathering,
     Moving, Told
<1>18. PairsShaped'
  BY <1>1, <1>2, <1>9, <1>6, <1>11, <1>12, <1>3, <1>10 DEF RunInv, PairsShaped, Moving
<1>19. Remembers'
  BY <1>1, <1>2, <1>9, <1>6, <1>11, <1>12, <1>3 DEF RunInv, Remembers, Before,
     Gathering, Moving, Told
<1>20. Sheltered'
  BY <1>1, <1>2, <1>9, <1>6, <1>11, <1>12, <1>3 DEF RunInv, Sheltered, Has, TornIn
<1>21. HandsOff'
  BY <1>1, <1>2, <1>9, <1>6, <1>11, <1>12, <1>3, <1>10 DEF RunInv, HandsOff, Mine,
     TornIn, Before, Gathering, Moving, Told
<1>22. StillThere'
  BY <1>1, <1>2, <1>9, <1>6, <1>11, <1>12, <1>3 DEF RunInv, StillThere, Has, TornIn,
     Moving
<1>23. QueueIsWhole'
  BY <1>1, <1>2, <1>9, <1>6, <1>11, <1>12, <1>3 DEF RunInv, QueueIsWhole, TornIn,
     Before
<1>24. DoneIsWhole'
  BY <1>1, <1>2, <1>9, <1>6, <1>11, <1>12, <1>3 DEF RunInv, DoneIsWhole, TornIn
<1>25. ConflictsTold'
  BY <1>1, <1>2, <1>9, <1>6, <1>11, <1>12, <1>3 DEF RunInv, ConflictsTold, TornIn,
     WasCut
<1>26. Gathered'
  BY <1>1, <1>2, <1>9, <1>6, <1>11, <1>12, <1>3 DEF RunInv, Gathered, Smooth, Filtered,
     Mine, Has, Before, Gathering, Moving, Told
<1>27. NoneBehind'
  BY <1>1, <1>2, <1>9, <1>6, <1>11, <1>12, <1>3 DEF RunInv, NoneBehind, Smooth, Filtered,
     Mine, Before, Gathering, Moving, Told
<1>28. RefsFollow'
  BY <1>1, <1>2, <1>9, <1>6, <1>11, <1>12, <1>3 DEF RunInv, RefsFollow, Smooth, Before,
     Gathering, Moving, Told
<1>29. TornIsKnown'
  BY <1>1, <1>2, <1>9, <1>6, <1>11, <1>12, <1>3, <1>10 DEF MigrateInv, TornIsKnown,
     TornKnown, FromVault, TornIn, WasCut, Under, Has, Before, Gathering, Moving, Told
<1>30. Beside'
  BY <1>1, <1>2, <1>9, <1>6, <1>11, <1>12, <1>3, <1>10 DEF MigrateInv, Beside, Alone, Excluded, Naming, Smooth, Has
<1>31. ClonesRecorded'
  BY <1>1, <1>2, <1>9, <1>6, <1>11, <1>12, <1>3 DEF MigrateInv, ClonesRecorded, Mine,
     Under
<1>32. NamesRecorded'
  BY <1>1, <1>2, <1>9, <1>6, <1>11, <1>12, <1>3 DEF MigrateInv, NamesRecorded, Naming, Mine
<1>33. Ends'
  BY <1>1, <1>2, <1>9, <1>6, <1>11, <1>12, <1>3 DEF MigrateInv, Ends
<1>34. NothingLost'
  BY <1>1, <1>2, <1>9, <1>6, <1>11, <1>12, <1>3 DEF MigrateInv, NothingLost
<1>35. CleanMeansUnified'
  BY <1>1, <1>2, <1>9, <1>6, <1>11, <1>12, <1>3 DEF MigrateInv, CleanMeansUnified,
     Ends, NoEnd
<1>36. OthersStand
  <2> SUFFICES ASSUME ~raced' PROVE OthersStand
    BY DEF OthersStand
  <2>1. tree["queue"]["vault"] = {"rest"}
    BY <1>2, <1>1 DEF MigrateInv, Beside, Alone
  <2> QED
    BY <1>9, <2>1, <1>3, QuietStands DEF Absent
<1> QED
  BY <1>13, <1>14, <1>15, <1>16, <1>17, <1>18, <1>19, <1>20, <1>21, <1>22, <1>23,
     <1>24, <1>25, <1>26, <1>27, <1>28, <1>29, <1>30, <1>31, <1>32, <1>33, <1>34,
     <1>35, <1>36 DEF MigrateInv, RunInv

LEMMA QueueCopyFailsKeeps ==
  ASSUME MigrateInv, QueueCopyFails PROVE MigrateInv'
<1>1. /\ run \in RunRec /\ Under /\ RunInv /\ TypedTree
      /\ run.pc = "vault"
  BY UnderRec DEF MigrateInv, QueueCopyFails, RunAt
<1>2. /\ UNCHANGED <<ref, lock, vaultRoot, across, legacyThere, daemon, last, cut, warned,
                     starts, tree, journal, claim, marked, passed>>
      /\ raced' = (raced \/ daemon.pc # "down")
  BY DEF QueueCopyFails, Acting, NoFault
<1>3. faults' \in 0 .. MaxFaults
  BY <1>1, BoundsAssumption DEF QueueCopyFails, TypedTree
<1>4. run' = [run EXCEPT !.pc = "exit", !.failed = TRUE]
  BY <1>1 DEF QueueCopyFails, Go
<1>5. "exit" \in RunSteps /\ TRUE \in BOOLEAN
  BY <1>1 DEF RunRec, RunSteps, Gathering, Moving, Told
<1>6. /\ run' \in RunRec /\ run'.pc = "exit" /\ run'.failed = TRUE
      /\ run'.root = run.root /\ run'.vault = run.vault /\ run'.pairs = run.pairs
      /\ run'.contended = run.contended /\ run'.claimed = run.claimed /\ run'.prior = run.prior
      /\ run'.done = run.done /\ run'.torn = run.torn /\ run'.conflicts = run.conflicts
      /\ run'.named = run.named
  BY <1>1, <1>4, <1>5, SetFailed
<1>7. Pair' = Pair
  BY <1>6 DEF Pair
<1>8. Under'
  BY <1>6, UnderRec DEF Under, RunRec, RunSteps, Gathering, Moving, Told, NoRun
<1>9. TypedTree'
  BY <1>1, <1>2, <1>6, <1>8, <1>3 DEF MigrateInv, TypedTree
<1>10. Laid'
  BY <1>1, <1>2, <1>6, <1>8 DEF MigrateInv, Laid, Mine
<1>11. RootsTell'
  BY <1>1, <1>2, <1>6, <1>8 DEF MigrateInv, RootsTell, Has, Mine, TornIn
<1>12. Journals'
  BY <1>1, <1>2, <1>6, <1>8 DEF MigrateInv, Journals
<1>13. Shaped'
  BY <1>1, <1>2, <1>6, <1>8 DEF RunInv, Shaped, Before, Gathering, Moving, Told
<1>14. PairsShaped'
  BY <1>1, <1>2, <1>6, <1>8, <1>7 DEF RunInv, PairsShaped, Moving
<1>15. Remembers'
  BY <1>1, <1>2, <1>6, <1>8 DEF RunInv, Remembers, Before, Gathering, Moving, Told,
     Shaped
<1>16. Sheltered'
  BY <1>1, <1>2, <1>6, <1>8 DEF RunInv, Sheltered, Has, TornIn
<1>17. HandsOff'
  BY <1>1, <1>2, <1>6, <1>8, <1>7 DEF RunInv, HandsOff, Mine, TornIn, Before,
     Gathering, Moving, Told
<1>18. StillThere'
  BY <1>1, <1>2, <1>6, <1>8 DEF RunInv, StillThere, Has, TornIn, Moving
<1>19. QueueIsWhole'
  BY <1>1, <1>2, <1>6, <1>8 DEF RunInv, QueueIsWhole, TornIn, Before
<1>20. DoneIsWhole'
  BY <1>1, <1>2, <1>6, <1>8 DEF RunInv, DoneIsWhole, TornIn
<1>21. ConflictsTold'
  BY <1>1, <1>2, <1>6, <1>8 DEF RunInv, ConflictsTold, TornIn, WasCut
<1>22. Gathered'
  BY <1>1, <1>2, <1>6, <1>8 DEF RunInv, Gathered, Smooth, Filtered, Mine, Has, Before,
     Gathering, Moving, Told
<1>23. NoneBehind'
  BY <1>1, <1>2, <1>6, <1>8 DEF RunInv, NoneBehind, Smooth, Filtered, Mine, Before,
     Gathering, Moving, Told
<1>24. RefsFollow'
  BY <1>1, <1>2, <1>6, <1>8 DEF RunInv, RefsFollow, Smooth, Before, Gathering, Moving,
     Told
<1>25. TornIsKnown'
  BY <1>1, <1>2, <1>6, <1>8, <1>7 DEF MigrateInv, TornIsKnown, TornKnown, FromVault,
     TornIn, WasCut, Under, Has, Before, Gathering, Moving, Told
<1>26. Beside'
  BY <1>1, <1>2, <1>6, <1>8, <1>7 DEF MigrateInv, Beside, Alone, Excluded, Naming, Smooth, Has
<1>27. ClonesRecorded'
  BY <1>1, <1>2, <1>6, <1>8 DEF MigrateInv, ClonesRecorded, Mine, Under
<1>28. NamesRecorded'
  BY <1>1, <1>2, <1>6, <1>8 DEF MigrateInv, NamesRecorded, Naming, Mine
<1>29. Ends'
  BY <1>1, <1>2, <1>6, <1>8 DEF MigrateInv, Ends
<1>30. NothingLost'
  BY <1>1, <1>2, <1>6, <1>8 DEF MigrateInv, NothingLost
<1>31. CleanMeansUnified'
  BY <1>1, <1>2, <1>6, <1>8 DEF MigrateInv, CleanMeansUnified, Ends, NoEnd
<1> QED
  BY <1>9, <1>10, <1>11, <1>12, <1>13, <1>14, <1>15, <1>16, <1>17, <1>18, <1>19, <1>20,
     <1>21, <1>22, <1>23, <1>24, <1>25, <1>26, <1>27, <1>28, <1>29, <1>30, <1>31 DEF
     MigrateInv, RunInv

\* The rename that succeeds, the one that meets files, the copy that begins and
\* the copy that is whole.
LEMMA QueueMoveKeeps ==
  ASSUME MigrateInv, QueueMove PROVE MigrateInv'
<1>1. /\ run \in RunRec /\ Under /\ RunInv /\ TypedTree
      /\ run.pc = "vault"
  BY UnderRec DEF MigrateInv, QueueMove, RunAt
<1>2. /\ UNCHANGED <<ref, lock, vaultRoot, across, legacyThere, daemon, last, cut, warned,
                     starts, faults, journal, claim, marked, passed>>
      /\ raced' = (raced \/ daemon.pc # "down")
  BY DEF QueueMove, Acting, NoFault
<1>3. Items = {"queue", "watch", "clones"} /\ Spots = {"vault", "old", "flat", "cflat", "v2"}
  BY DEF Items, Spots
<1>4. /\ run.vault /\ vaultRoot /\ run.claimed /\ Has("queue", "vault") /\ run.conflicts = {} /\ run.done = {} /\ run.torn = {}
      /\ "absent" \notin tree["queue"]["vault"] /\ "torn" \notin tree["queue"]["vault"]
  BY <1>1, <1>3 DEF MigrateInv, RunInv, Shaped, StillThere, Laid, Has, Absent,
     Gathering
<1>5. CASE ~across /\ tree["queue"]["v2"] \subseteq Absent
  <2>1. run' = [run EXCEPT !.pc = "names"]
    BY <1>5, <1>1 DEF QueueMove, Go
  <2>2. "names" \in RunSteps
    BY DEF RunSteps, Gathering, Moving, Told
  <2>3. /\ run' \in RunRec /\ run'.pc = "names"
        /\ run'.root = run.root /\ run'.vault = run.vault /\ run'.pairs = run.pairs
        /\ run'.contended = run.contended /\ run'.claimed = run.claimed /\ run'.prior = run.prior
        /\ run'.done = run.done /\ run'.torn = run.torn /\ run'.conflicts = run.conflicts
        /\ run'.named = run.named /\ run'.failed = run.failed
    BY <1>1, <2>1, <2>2, SetPc
  <2>4. tree' = [tree EXCEPT !["queue"]["vault"] = Absent, !["queue"]["v2"] = tree["queue"]["vault"]]
    BY <1>5 DEF QueueMove, Moved
  <2>5. Absent \in Content /\ tree["queue"]["vault"] \in Content
    BY <1>1, <1>3 DEF Content, TypedTree, Trees
  <2>6. /\ tree' \in Trees
        /\ tree'["queue"]["vault"] = Absent
        /\ tree'["queue"]["v2"] = tree["queue"]["vault"]
        /\ \A j \in Items, r \in Spots : j # "queue" \/ r \notin {"vault", "v2"} => tree'[j][r] = tree[j][r]
    BY <1>1, <2>4, <2>5, <1>3 DEF TypedTree, Trees
  <2>7. Pair' = Pair
    BY <2>3 DEF Pair
  <2>8. Under'
    BY <2>3, UnderRec DEF Under, RunRec, RunSteps, Gathering, Moving, Told, NoRun
  <2>9. /\ ~Mine("queue", "vault")' /\ ~TornIn("queue")' /\ ~Mine("queue", "v2")
        /\ (Mine("queue", "vault") => Mine("queue", "v2")')
    BY <2>6, <1>5, <1>4, <1>3 DEF Mine, TornIn, Absent
  <2>10. TypedTree'
    BY <1>1, <1>2, <2>6, <2>3, <2>8, <1>3, <1>4 DEF MigrateInv, TypedTree
  <2>11. Laid'
    BY <1>1, <1>2, <2>6, <2>3, <2>8, <1>3, <1>4, <2>9 DEF MigrateInv, Laid, Mine,
       Absent, MineAt
  <2>12. RootsTell'
    BY <1>1, <1>2, <2>6, <2>3, <2>8, <1>3, <1>4 DEF MigrateInv, RootsTell, Has, Mine,
       TornIn
  <2>13. Journals'
    BY <1>1, <1>2, <2>6, <2>3, <2>8, <1>3, <1>4 DEF MigrateInv, Journals
  <2>14. Shaped'
    BY <1>1, <1>2, <2>6, <2>3, <2>8, <1>3, <1>4 DEF RunInv, Shaped, Before, Gathering,
       Moving, Told
  <2>15. PairsShaped'
    BY <1>1, <1>2, <2>6, <2>3, <2>8, <1>3, <1>4, <2>7 DEF RunInv, PairsShaped, Moving
  <2>16. Remembers'
    BY <1>1, <1>2, <2>6, <2>3, <2>8, <1>3, <1>4 DEF RunInv, Remembers, Before,
       Gathering, Moving, Told
  <2>17. Sheltered'
    BY <1>1, <1>2, <2>6, <2>3, <2>8, <1>3, <1>4 DEF RunInv, Sheltered, Has, TornIn
  <2>18. HandsOff'
    BY <1>1, <1>2, <2>6, <2>3, <2>8, <1>3, <1>4, <2>7, <2>9 DEF RunInv, HandsOff, Mine,
       TornIn, Before, Gathering, Moving, Told
  <2>19. StillThere'
    BY <1>1, <1>2, <2>6, <2>3, <2>8, <1>3, <1>4 DEF RunInv, StillThere, Has, TornIn,
       Moving
  <2>20. QueueIsWhole'
    BY <1>1, <1>2, <2>6, <2>3, <2>8, <1>3, <1>4, <2>9 DEF RunInv, QueueIsWhole, TornIn,
       Before
  <2>21. DoneIsWhole'
    BY <1>1, <1>2, <2>6, <2>3, <2>8, <1>3, <1>4 DEF RunInv, DoneIsWhole, TornIn
  <2>22. ConflictsTold'
    BY <1>1, <1>2, <2>6, <2>3, <2>8, <1>3, <1>4 DEF RunInv, ConflictsTold, TornIn,
       WasCut
  <2>23. Gathered'
    BY <1>1, <1>2, <2>6, <2>3, <2>8, <1>3, <1>4 DEF RunInv, Gathered, Smooth, Filtered,
       Mine, Has, Before, Gathering, Moving, Told
  <2>24. NoneBehind'
    BY <1>1, <1>2, <2>6, <2>3, <2>8, <1>3, <1>4 DEF RunInv, NoneBehind, Smooth, Filtered,
       Mine, Before, Gathering, Moving, Told
  <2>25. RefsFollow'
    BY <1>1, <1>2, <2>6, <2>3, <2>8, <1>3, <1>4 DEF RunInv, RefsFollow, Smooth, Before,
       Gathering, Moving, Told
  <2>26. TornIsKnown'
    BY <1>1, <1>2, <2>6, <2>3, <2>8, <1>3, <1>4, <2>7, <2>9 DEF MigrateInv,
       TornIsKnown, TornKnown, FromVault, TornIn, WasCut, Under, Has, Before,
       Gathering, Moving, Told
  <2>27. Beside'
    BY <1>1, <1>2, <2>6, <2>3, <2>8, <1>3, <1>4, <2>7 DEF MigrateInv, Beside, Alone, Excluded, Naming, Smooth, Has
  <2>28. ClonesRecorded'
    BY <1>1, <1>2, <2>6, <2>3, <2>8, <1>3, <1>4 DEF MigrateInv, ClonesRecorded, Mine,
       Under
  <2>29. NamesRecorded'
    BY <1>1, <1>2, <2>6, <2>3, <2>8, <1>3, <1>4 DEF MigrateInv, NamesRecorded, Naming, Mine
  <2>30. Ends'
    BY <1>1, <1>2, <2>6, <2>3, <2>8, <1>3, <1>4 DEF MigrateInv, Ends
  <2>31. NothingLost'
    BY <1>1, <1>2, <2>6, <2>3, <2>8, <1>3, <1>4, <2>9 DEF MigrateInv, NothingLost, Mine
  <2>32. CleanMeansUnified'
    BY <1>1, <1>2, <2>6, <2>3, <2>8, <1>3, <1>4 DEF MigrateInv, CleanMeansUnified,
       Ends, NoEnd
  <2> QED
    BY <2>10, <2>11, <2>12, <2>13, <2>14, <2>15, <2>16, <2>17, <2>18, <2>19, <2>20,
       <2>21, <2>22, <2>23, <2>24, <2>25, <2>26, <2>27, <2>28, <2>29, <2>30, <2>31,
       <2>32 DEF MigrateInv, RunInv
<1>6. CASE ~across /\ ~(tree["queue"]["v2"] \subseteq Absent)
  <2>1. UNCHANGED tree
    BY <1>6 DEF QueueMove
  <2>2. run' = [run EXCEPT !.pc = "exit", !.failed = TRUE]
    BY <1>6, <1>1 DEF QueueMove, Go
  <2>3. "exit" \in RunSteps /\ TRUE \in BOOLEAN
    BY <1>1 DEF RunRec, RunSteps, Gathering, Moving, Told
  <2>4. /\ run' \in RunRec /\ run'.pc = "exit" /\ run'.failed = TRUE
        /\ run'.root = run.root /\ run'.vault = run.vault /\ run'.pairs = run.pairs
        /\ run'.contended = run.contended /\ run'.claimed = run.claimed /\ run'.prior = run.prior
        /\ run'.done = run.done /\ run'.torn = run.torn /\ run'.conflicts = run.conflicts
        /\ run'.named = run.named
    BY <1>1, <2>2, <2>3, SetFailed
  <2>5. Pair' = Pair
    BY <2>4 DEF Pair
  <2>6. Under'
    BY <2>4, UnderRec DEF Under, RunRec, RunSteps, Gathering, Moving, Told, NoRun
  <2>7. TypedTree'
    BY <1>1, <1>2, <2>1, <2>4, <2>6, <1>4 DEF MigrateInv, TypedTree
  <2>8. Laid'
    BY <1>1, <1>2, <2>1, <2>4, <2>6, <1>4 DEF MigrateInv, Laid, Mine
  <2>9. RootsTell'
    BY <1>1, <1>2, <2>1, <2>4, <2>6, <1>4 DEF MigrateInv, RootsTell, Has, Mine, TornIn
  <2>10. Journals'
    BY <1>1, <1>2, <2>1, <2>4, <2>6, <1>4 DEF MigrateInv, Journals
  <2>11. Shaped'
    BY <1>1, <1>2, <2>1, <2>4, <2>6, <1>4 DEF RunInv, Shaped, Before, Gathering,
       Moving, Told
  <2>12. PairsShaped'
    BY <1>1, <1>2, <2>1, <2>4, <2>6, <1>4, <2>5 DEF RunInv, PairsShaped, Moving
  <2>13. Remembers'
    BY <1>1, <1>2, <2>1, <2>4, <2>6, <1>4 DEF RunInv, Remembers, Before, Gathering,
       Moving, Told, Shaped
  <2>14. Sheltered'
    BY <1>1, <1>2, <2>1, <2>4, <2>6, <1>4 DEF RunInv, Sheltered, Has, TornIn
  <2>15. HandsOff'
    BY <1>1, <1>2, <2>1, <2>4, <2>6, <1>4, <2>5 DEF RunInv, HandsOff, Mine, TornIn,
       Before, Gathering, Moving, Told
  <2>16. StillThere'
    BY <1>1, <1>2, <2>1, <2>4, <2>6, <1>4 DEF RunInv, StillThere, Has, TornIn, Moving
  <2>17. QueueIsWhole'
    BY <1>1, <1>2, <2>1, <2>4, <2>6, <1>4 DEF RunInv, QueueIsWhole, TornIn, Before
  <2>18. DoneIsWhole'
    BY <1>1, <1>2, <2>1, <2>4, <2>6, <1>4 DEF RunInv, DoneIsWhole, TornIn
  <2>19. ConflictsTold'
    BY <1>1, <1>2, <2>1, <2>4, <2>6, <1>4 DEF RunInv, ConflictsTold, TornIn, WasCut
  <2>20. Gathered'
    BY <1>1, <1>2, <2>1, <2>4, <2>6, <1>4 DEF RunInv, Gathered, Smooth, Filtered, Mine,
       Has, Before, Gathering, Moving, Told
  <2>21. NoneBehind'
    BY <1>1, <1>2, <2>1, <2>4, <2>6, <1>4 DEF RunInv, NoneBehind, Smooth, Filtered, Mine,
       Before, Gathering, Moving, Told
  <2>22. RefsFollow'
    BY <1>1, <1>2, <2>1, <2>4, <2>6, <1>4 DEF RunInv, RefsFollow, Smooth, Before,
       Gathering, Moving, Told
  <2>23. TornIsKnown'
    BY <1>1, <1>2, <2>1, <2>4, <2>6, <1>4, <2>5 DEF MigrateInv, TornIsKnown, TornKnown,
       FromVault, TornIn, WasCut, Under, Has, Before, Gathering, Moving, Told
  <2>24. Beside'
    BY <1>1, <1>2, <2>1, <2>4, <2>6, <1>4, <2>5 DEF MigrateInv, Beside, Alone, Excluded, Naming, Smooth, Has
  <2>25. ClonesRecorded'
    BY <1>1, <1>2, <2>1, <2>4, <2>6, <1>4 DEF MigrateInv, ClonesRecorded, Mine, Under
  <2>26. NamesRecorded'
    BY <1>1, <1>2, <2>1, <2>4, <2>6, <1>4 DEF MigrateInv, NamesRecorded, Naming, Mine
  <2>27. Ends'
    BY <1>1, <1>2, <2>1, <2>4, <2>6, <1>4 DEF MigrateInv, Ends
  <2>28. NothingLost'
    BY <1>1, <1>2, <2>1, <2>4, <2>6, <1>4 DEF MigrateInv, NothingLost
  <2>29. CleanMeansUnified'
    BY <1>1, <1>2, <2>1, <2>4, <2>6, <1>4 DEF MigrateInv, CleanMeansUnified, Ends,
       NoEnd
  <2> QED
    BY <2>7, <2>8, <2>9, <2>10, <2>11, <2>12, <2>13, <2>14, <2>15, <2>16, <2>17, <2>18,
       <2>19, <2>20, <2>21, <2>22, <2>23, <2>24, <2>25, <2>26, <2>27, <2>28, <2>29 DEF
       MigrateInv, RunInv
<1>7. CASE across /\ "torn" \notin tree["queue"]["v2"]
  <2> DEFINE A == (tree["queue"]["v2"] \ Absent) \cup {"torn"}
  <2>1. UNCHANGED run
    BY <1>7 DEF QueueMove
  <2>2. tree' = [tree EXCEPT !["queue"]["v2"] = A]
    BY <1>7 DEF QueueMove
  <2>3. A \in Content
    BY <1>1, <1>3 DEF TypedTree, Trees, Content
  <2>4. /\ tree' \in Trees
        /\ tree'["queue"]["v2"] = A
        /\ \A j \in Items, r \in Spots : j # "queue" \/ r \notin {"v2"} => tree'[j][r] = tree[j][r]
    BY <1>1, <2>2, <2>3, <1>3 DEF TypedTree, Trees
  <2>5. /\ "torn" \in A /\ "absent" \notin A /\ ("mine" \in A <=> Mine("queue", "v2"))
    BY DEF Mine, Absent
  <2> HIDE DEF A
  <2>6. Pair' = Pair /\ Spoken' = Spoken /\ Under' /\ run' \in RunRec
    BY <2>1, <1>1 DEF Pair, Spoken, Under
  <2>7. FromVault("queue")'
    BY <1>1, <1>2, <2>4, <1>4, <2>1, <1>3 DEF FromVault, Has, Before
  <2>8. TypedTree'
    BY <1>1, <1>2, <2>4, <2>1, <1>4, <2>5, <1>3, <2>6 DEF MigrateInv, TypedTree
  <2>9. Laid'
    BY <1>1, <1>2, <2>4, <2>1, <1>4, <2>5, <1>3, <2>6, <1>7 DEF MigrateInv, Laid, Mine,
       MineAt
  <2>10. RootsTell'
    BY <1>1, <1>2, <2>4, <2>1, <1>4, <2>5, <1>3, <2>6 DEF MigrateInv, RootsTell, Has,
       Mine, TornIn
  <2>11. Journals'
    BY <1>1, <1>2, <2>4, <2>1, <1>4, <2>5, <1>3, <2>6 DEF MigrateInv, Journals
  <2>12. Shaped'
    BY <1>1, <1>2, <2>4, <2>1, <1>4, <2>5, <1>3, <2>6 DEF RunInv, Shaped, Before,
       Gathering, Moving, Told
  <2>13. PairsShaped'
    BY <1>1, <1>2, <2>4, <2>1, <1>4, <2>5, <1>3, <2>6 DEF RunInv, PairsShaped, Moving
  <2>14. Remembers'
    BY <1>1, <1>2, <2>4, <2>1, <1>4, <2>5, <1>3, <2>6 DEF RunInv, Remembers, Before,
       Gathering, Moving, Told
  <2>15. Sheltered'
    BY <1>1, <1>2, <2>4, <2>1, <1>4, <2>5, <1>3, <2>6 DEF RunInv, Sheltered, Has,
       TornIn
  <2>16. HandsOff'
    BY <1>1, <1>2, <2>4, <2>1, <1>4, <2>5, <1>3, <2>6 DEF RunInv, HandsOff, Mine,
       TornIn, Before, Gathering, Moving, Told
  <2>17. StillThere'
    BY <1>1, <1>2, <2>4, <2>1, <1>4, <2>5, <1>3, <2>6 DEF RunInv, StillThere, Has,
       TornIn, Moving
  <2>18. QueueIsWhole'
    BY <1>1, <1>2, <2>4, <2>1, <1>4, <2>5, <1>3, <2>6 DEF RunInv, QueueIsWhole, TornIn,
       Before
  <2>19. DoneIsWhole'
    BY <1>1, <1>2, <2>4, <2>1, <1>4, <2>5, <1>3, <2>6 DEF RunInv, DoneIsWhole, TornIn
  <2>20. ConflictsTold'
    BY <1>1, <1>2, <2>4, <2>1, <1>4, <2>5, <1>3, <2>6 DEF RunInv, ConflictsTold,
       TornIn, WasCut
  <2>21. Gathered'
    BY <1>1, <1>2, <2>4, <2>1, <1>4, <2>5, <1>3, <2>6 DEF RunInv, Gathered, Smooth,
       Filtered, Mine, Has, Before, Gathering, Moving, Told
  <2>22. NoneBehind'
    BY <1>1, <1>2, <2>4, <2>1, <1>4, <2>5, <1>3, <2>6 DEF RunInv, NoneBehind, Smooth,
       Filtered, Mine, Before, Gathering, Moving, Told
  <2>23. RefsFollow'
    BY <1>1, <1>2, <2>4, <2>1, <1>4, <2>5, <1>3, <2>6 DEF RunInv, RefsFollow, Smooth,
       Before, Gathering, Moving, Told
  <2>24. TornIsKnown'
    BY <1>1, <1>2, <2>4, <2>1, <1>4, <2>5, <1>3, <2>6, <2>7 DEF MigrateInv,
       TornIsKnown, TornKnown, FromVault, TornIn, WasCut, Under, Has, Before,
       Gathering, Moving, Told
  <2>25. Beside'
    BY <1>1, <1>2, <2>4, <2>1, <1>4, <2>5, <1>3, <2>6 DEF MigrateInv, Beside, Alone, Excluded, Naming, Smooth, Has
  <2>26. ClonesRecorded'
    BY <1>1, <1>2, <2>4, <2>1, <1>4, <2>5, <1>3, <2>6 DEF MigrateInv, ClonesRecorded,
       Mine, Under
  <2>27. NamesRecorded'
    BY <1>1, <1>2, <2>4, <2>1, <1>4, <2>5, <1>3, <2>6 DEF MigrateInv, NamesRecorded, Naming,
       Mine
  <2>28. Ends'
    BY <1>1, <1>2, <2>4, <2>1, <1>4, <2>5, <1>3, <2>6 DEF MigrateInv, Ends
  <2>29. NothingLost'
    BY <1>1, <1>2, <2>4, <2>1, <1>4, <2>5, <1>3, <2>6 DEF MigrateInv, NothingLost, Mine
  <2>30. CleanMeansUnified'
    BY <1>1, <1>2, <2>4, <2>1, <1>4, <2>5, <1>3, <2>6 DEF MigrateInv,
       CleanMeansUnified, Ends, NoEnd
  <2> QED
    BY <2>8, <2>9, <2>10, <2>11, <2>12, <2>13, <2>14, <2>15, <2>16, <2>17, <2>18,
       <2>19, <2>20, <2>21, <2>22, <2>23, <2>24, <2>25, <2>26, <2>27, <2>28, <2>29,
       <2>30 DEF MigrateInv, RunInv
<1>8. CASE across /\ "torn" \in tree["queue"]["v2"]
  <2> DEFINE A == (tree["queue"]["v2"] \ {"torn"}) \cup (tree["queue"]["vault"] \ {"rest"})
  <2>1. run' = [run EXCEPT !.pc = "vaultrm"]
    BY <1>8, <1>1 DEF QueueMove, Go
  <2>2. "vaultrm" \in RunSteps
    BY DEF RunSteps, Gathering, Moving, Told
  <2>3. /\ run' \in RunRec /\ run'.pc = "vaultrm"
        /\ run'.root = run.root /\ run'.vault = run.vault /\ run'.pairs = run.pairs
        /\ run'.contended = run.contended /\ run'.claimed = run.claimed /\ run'.prior = run.prior
        /\ run'.done = run.done /\ run'.torn = run.torn /\ run'.conflicts = run.conflicts
        /\ run'.named = run.named /\ run'.failed = run.failed
    BY <1>1, <2>1, <2>2, SetPc
  <2>4. tree' = [tree EXCEPT !["queue"]["v2"] = A, !["queue"]["vault"] = {"rest"}]
    BY <1>8 DEF QueueMove
  <2>5. A \in Content /\ {"rest"} \in Content
    BY <1>1, <1>3 DEF TypedTree, Trees, Content
  <2>6. /\ tree' \in Trees
        /\ tree'["queue"]["v2"] = A
        /\ tree'["queue"]["vault"] = {"rest"}
        /\ \A j \in Items, r \in Spots : j # "queue" \/ r \notin {"v2", "vault"} => tree'[j][r] = tree[j][r]
    <3> HIDE DEF A
    <3>1. tree \in [Items -> [Spots -> Content]]
      BY <1>1 DEF TypedTree, Trees
    <3>2. tree["queue"] \in [Spots -> Content] /\ "queue" \in Items /\ {"v2", "vault"} \subseteq Spots
      BY <3>1, <1>3
    <3> DEFINE q == [tree["queue"] EXCEPT !["v2"] = A, !["vault"] = {"rest"}]
    <3>3. /\ q \in [Spots -> Content] /\ q["v2"] = A /\ q["vault"] = {"rest"}
          /\ \A r \in Spots \ {"v2", "vault"} : q[r] = tree["queue"][r]
      BY <2>5, <3>2
    <3>4. tree' = [tree EXCEPT !["queue"] = q]
      BY <2>4, <3>1, <3>2
    <3> HIDE DEF q
    <3>5. /\ tree' \in [Items -> [Spots -> Content]] /\ tree'["queue"] = q
          /\ \A j \in Items \ {"queue"} : tree'[j] = tree[j]
      BY <3>1, <3>2, <3>3, <3>4
    <3> QED BY <3>3, <3>5 DEF Trees
  <2>7. "absent" \notin tree["queue"]["v2"]
    BY <1>1, <1>3, <1>8 DEF MigrateInv, Laid, Absent
  <2>8. /\ "torn" \notin A /\ "absent" \notin A
        /\ ("mine" \in A <=> Mine("queue", "v2") \/ Mine("queue", "vault"))
    BY <1>4, <2>7 DEF Mine
  <2> HIDE DEF A
  <2>9. Pair' = Pair
    BY <2>3 DEF Pair
  <2>10. Under'
    BY <2>3, UnderRec DEF Under, RunRec, RunSteps, Gathering, Moving, Told, NoRun
  <2>11. ~TornIn("queue")' /\ ~Mine("queue", "vault")'
    BY <2>6, <2>8 DEF TornIn, Mine
  <2>12. TypedTree'
    BY <1>1, <1>2, <2>6, <2>3, <2>10, <1>4, <2>8, <1>3 DEF MigrateInv, TypedTree
  <2>13. Laid'
    BY <1>1, <1>2, <2>6, <2>3, <2>10, <1>4, <2>8, <1>3 DEF MigrateInv, Laid, Mine,
       MineAt
  <2>14. RootsTell'
    BY <1>1, <1>2, <2>6, <2>3, <2>10, <1>4, <2>8, <1>3 DEF MigrateInv, RootsTell, Has,
       Mine, TornIn
  <2>15. Journals'
    BY <1>1, <1>2, <2>6, <2>3, <2>10, <1>4, <2>8, <1>3 DEF MigrateInv, Journals
  <2>16. Shaped'
    BY <1>1, <1>2, <2>6, <2>3, <2>10, <1>4, <2>8, <1>3 DEF RunInv, Shaped, Before,
       Gathering, Moving, Told
  <2>17. PairsShaped'
    BY <1>1, <1>2, <2>6, <2>3, <2>10, <1>4, <2>8, <1>3, <2>9 DEF RunInv, PairsShaped,
       Moving
  <2>18. Remembers'
    BY <1>1, <1>2, <2>6, <2>3, <2>10, <1>4, <2>8, <1>3 DEF RunInv, Remembers, Before,
       Gathering, Moving, Told
  <2>19. Sheltered'
    BY <1>1, <1>2, <2>6, <2>3, <2>10, <1>4, <2>8, <1>3 DEF RunInv, Sheltered, Has,
       TornIn
  <2>20. HandsOff'
    BY <1>1, <1>2, <2>6, <2>3, <2>10, <1>4, <2>8, <1>3, <2>9, <2>11 DEF RunInv,
       HandsOff, Mine, TornIn, Before, Gathering, Moving, Told
  <2>21. StillThere'
    BY <1>1, <1>2, <2>6, <2>3, <2>10, <1>4, <2>8, <1>3 DEF RunInv, StillThere, Has,
       TornIn, Moving
  <2>22. QueueIsWhole'
    BY <1>1, <1>2, <2>6, <2>3, <2>10, <1>4, <2>8, <1>3, <2>11 DEF RunInv, QueueIsWhole,
       TornIn, Before
  <2>23. DoneIsWhole'
    BY <1>1, <1>2, <2>6, <2>3, <2>10, <1>4, <2>8, <1>3 DEF RunInv, DoneIsWhole, TornIn
  <2>24. ConflictsTold'
    BY <1>1, <1>2, <2>6, <2>3, <2>10, <1>4, <2>8, <1>3 DEF RunInv, ConflictsTold,
       TornIn, WasCut
  <2>25. Gathered'
    BY <1>1, <1>2, <2>6, <2>3, <2>10, <1>4, <2>8, <1>3 DEF RunInv, Gathered, Smooth,
       Filtered, Mine, Has, Before, Gathering, Moving, Told
  <2>26. NoneBehind'
    BY <1>1, <1>2, <2>6, <2>3, <2>10, <1>4, <2>8, <1>3 DEF RunInv, NoneBehind, Smooth,
       Filtered, Mine, Before, Gathering, Moving, Told
  <2>27. RefsFollow'
    BY <1>1, <1>2, <2>6, <2>3, <2>10, <1>4, <2>8, <1>3 DEF RunInv, RefsFollow, Smooth,
       Before, Gathering, Moving, Told
  <2>28. TornIsKnown'
    BY <1>1, <1>2, <2>6, <2>3, <2>10, <1>4, <2>8, <1>3, <2>9, <2>11 DEF MigrateInv,
       TornIsKnown, TornKnown, FromVault, TornIn, WasCut, Under, Has, Before,
       Gathering, Moving, Told
  <2>29. Beside'
    BY <1>1, <1>2, <2>6, <2>3, <2>10, <1>4, <2>8, <1>3, <2>9 DEF MigrateInv, Beside, Alone, Excluded, Naming, Smooth, Has
  <2>30. ClonesRecorded'
    BY <1>1, <1>2, <2>6, <2>3, <2>10, <1>4, <2>8, <1>3 DEF MigrateInv, ClonesRecorded,
       Mine, Under
  <2>31. NamesRecorded'
    BY <1>1, <1>2, <2>6, <2>3, <2>10, <1>4, <2>8, <1>3 DEF MigrateInv, NamesRecorded, Naming,
       Mine
  <2>32. Ends'
    BY <1>1, <1>2, <2>6, <2>3, <2>10, <1>4, <2>8, <1>3 DEF MigrateInv, Ends
  <2>33. NothingLost'
    BY <1>1, <1>2, <2>6, <2>3, <2>10, <1>4, <2>8, <1>3 DEF MigrateInv, NothingLost,
       Mine
  <2>34. CleanMeansUnified'
    BY <1>1, <1>2, <2>6, <2>3, <2>10, <1>4, <2>8, <1>3 DEF MigrateInv,
       CleanMeansUnified, Ends, NoEnd
  <2> QED
    BY <2>12, <2>13, <2>14, <2>15, <2>16, <2>17, <2>18, <2>19, <2>20, <2>21, <2>22,
       <2>23, <2>24, <2>25, <2>26, <2>27, <2>28, <2>29, <2>30, <2>31, <2>32, <2>33,
       <2>34 DEF MigrateInv, RunInv
<1> QED
  BY <1>5, <1>6, <1>7, <1>8

\* The old name of the clones moves onto nothing, or is a conflict.
LEMMA NamesKeeps ==
  ASSUME MigrateInv, Names PROVE MigrateInv' /\ OthersStand
<1>1. /\ run \in RunRec /\ Under /\ RunInv /\ TypedTree
      /\ run.pc = "names"
  BY UnderRec DEF MigrateInv, Names, RunAt
<1>2. /\ UNCHANGED <<ref, lock, vaultRoot, across, legacyThere, daemon, last, cut, warned,
                     starts, faults, journal, claim, marked, passed>>
      /\ raced' = (raced \/ daemon.pc # "down")
  BY DEF Names, Acting, NoFault
<1>3. Items = {"queue", "watch", "clones"} /\ Spots = {"vault", "old", "flat", "cflat", "v2"}
  BY DEF Items, Spots
<1>4. run.conflicts = {} /\ run.done = {} /\ run.torn = {} /\ run.named = {} /\ ~run.failed
  BY <1>1 DEF RunInv, Shaped, Gathering
<1>5. CASE OldNameMoves(run.root)
  <2>1. /\ tree["clones"]["old"] = {"mine"} /\ tree["clones"]["flat"] \in {Absent, {}}
    BY <1>1, <1>5 DEF MigrateInv, Laid, OldNameMoves, Has, IsRecursivelyEmptyDir
  <2>2. run' = [run EXCEPT !.pc = "journalnames"]
    BY <1>5, <1>1 DEF Names, Go
  <2>3. "journalnames" \in RunSteps
    BY DEF RunSteps, Gathering, Moving, Told
  <2>4. /\ run' \in RunRec /\ run'.pc = "journalnames"
        /\ run'.root = run.root /\ run'.vault = run.vault /\ run'.pairs = run.pairs
        /\ run'.contended = run.contended /\ run'.claimed = run.claimed /\ run'.prior = run.prior
        /\ run'.done = run.done /\ run'.torn = run.torn /\ run'.conflicts = run.conflicts
        /\ run'.named = run.named /\ run'.failed = run.failed
    BY <1>1, <2>2, <2>3, SetPc
  <2>5. tree' = [tree EXCEPT !["clones"]["old"] = Absent, !["clones"]["flat"] = {"mine"}]
    BY <1>5, <2>1 DEF Names, Moved
  <2>6. Absent \in Content /\ {"mine"} \in Content
    BY DEF Content, Absent
  <2>7. /\ tree' \in Trees
        /\ tree'["clones"]["old"] = Absent
        /\ tree'["clones"]["flat"] = {"mine"}
        /\ \A j \in Items, r \in Spots : j # "clones" \/ r \notin {"old", "flat"} => tree'[j][r] = tree[j][r]
    BY <1>1, <2>5, <2>6, <1>3 DEF TypedTree, Trees
  <2>8. Pair' = Pair
    BY <2>4 DEF Pair
  <2>9. Under'
    BY <2>4, UnderRec DEF Under, RunRec, RunSteps, Gathering, Moving, Told, NoRun
  <2>10. run.root = "L"
    BY <1>5 DEF OldNameMoves
  <2>11. /\ ~Has("clones", "old")'
         /\ \A j \in Items : tree'[j]["v2"] = tree[j]["v2"] /\ tree'[j]["vault"] = tree[j]["vault"] /\ tree'[j]["cflat"] = tree[j]["cflat"]
    BY <2>7, <1>3 DEF Has
  <2>12. TypedTree'
    BY <1>1, <1>2, <2>7, <2>4, <2>9, <1>3, <1>4, <2>11 DEF MigrateInv, TypedTree
  <2>13. Laid'
    BY <1>1, <1>2, <2>7, <2>4, <2>9, <1>3, <1>4, <2>11 DEF MigrateInv, Laid, Mine,
       Absent, MineAt
  <2>14. RootsTell'
    BY <1>1, <1>2, <2>7, <2>4, <2>9, <1>3, <1>4, <2>11 DEF MigrateInv, RootsTell, Has,
       Mine, TornIn
  <2>15. Journals'
    BY <1>1, <1>2, <2>7, <2>4, <2>9, <1>3, <1>4, <2>11 DEF MigrateInv, Journals
  <2>16. Shaped'
    BY <1>1, <1>2, <2>7, <2>4, <2>9, <1>3, <1>4, <2>11, <2>10 DEF RunInv, Shaped,
       Before, Gathering, Moving, Told
  <2>17. PairsShaped'
    BY <1>1, <1>2, <2>7, <2>4, <2>9, <1>3, <1>4, <2>11, <2>8 DEF RunInv, PairsShaped,
       Moving
  <2>18. Remembers'
    BY <1>1, <1>2, <2>7, <2>4, <2>9, <1>3, <1>4, <2>11 DEF RunInv, Remembers, Before,
       Gathering, Moving, Told
  <2>19. Sheltered'
    BY <1>1, <1>2, <2>7, <2>4, <2>9, <1>3, <1>4, <2>11 DEF RunInv, Sheltered, Has,
       TornIn
  <2>20. HandsOff'
    BY <1>1, <1>2, <2>7, <2>4, <2>9, <1>3, <1>4, <2>11, <2>8 DEF RunInv, HandsOff,
       Mine, TornIn, Before, Gathering, Moving, Told
  <2>21. StillThere'
    BY <1>1, <1>2, <2>7, <2>4, <2>9, <1>3, <1>4, <2>11 DEF RunInv, StillThere, Has,
       TornIn, Moving
  <2>22. QueueIsWhole'
    BY <1>1, <1>2, <2>7, <2>4, <2>9, <1>3, <1>4, <2>11 DEF RunInv, QueueIsWhole,
       TornIn, Before
  <2>23. DoneIsWhole'
    BY <1>1, <1>2, <2>7, <2>4, <2>9, <1>3, <1>4, <2>11 DEF RunInv, DoneIsWhole, TornIn
  <2>24. ConflictsTold'
    BY <1>1, <1>2, <2>7, <2>4, <2>9, <1>3, <1>4, <2>11 DEF RunInv, ConflictsTold,
       TornIn, WasCut
  <2>25. Gathered'
    BY <1>1, <1>2, <2>7, <2>4, <2>9, <1>3, <1>4, <2>11, <2>1 DEF RunInv, Gathered,
       Smooth, Filtered, Mine, Has, Before, Gathering, Moving, Told
  <2>26. NoneBehind'
    BY <1>1, <1>2, <2>7, <2>4, <2>9, <1>3, <1>4, <2>11 DEF RunInv, NoneBehind, Smooth,
       Filtered, Mine, Before, Gathering, Moving, Told
  <2>27. RefsFollow'
    BY <1>1, <1>2, <2>7, <2>4, <2>9, <1>3, <1>4, <2>11 DEF RunInv, RefsFollow, Smooth,
       Before, Gathering, Moving, Told
  <2>28. TornIsKnown'
    BY <1>1, <1>2, <2>7, <2>4, <2>9, <1>3, <1>4, <2>11, <2>8 DEF MigrateInv,
       TornIsKnown, TornKnown, FromVault, TornIn, WasCut, Under, Has, Before,
       Gathering, Moving, Told
  <2>29. Beside'
    BY <1>1, <1>2, <2>7, <2>4, <2>9, <1>3, <1>4, <2>11, <2>8 DEF MigrateInv, Beside, Alone, Excluded, Naming, Smooth, Has
  <2>30. ClonesRecorded'
    BY <1>1, <1>2, <2>7, <2>4, <2>9, <1>3, <1>4, <2>11 DEF MigrateInv, ClonesRecorded,
       Mine, Under
  <2>31. NamesRecorded'
    BY <1>1, <1>2, <2>7, <2>4, <2>9, <1>3, <1>4, <2>11 DEF MigrateInv, NamesRecorded, Naming,
       Mine
  <2>32. Ends'
    BY <1>1, <1>2, <2>7, <2>4, <2>9, <1>3, <1>4, <2>11 DEF MigrateInv, Ends
  <2>33. NothingLost'
    BY <1>1, <1>2, <2>7, <2>4, <2>9, <1>3, <1>4, <2>11, <2>1 DEF MigrateInv,
       NothingLost, Absent
  <2>34. CleanMeansUnified'
    BY <1>1, <1>2, <2>7, <2>4, <2>9, <1>3, <1>4, <2>11 DEF MigrateInv,
       CleanMeansUnified, Ends, NoEnd
  <2>35. OthersStand
    BY <2>7, <2>1, <1>3, QuietStands DEF Absent
  <2> QED
    BY <2>12, <2>13, <2>14, <2>15, <2>16, <2>17, <2>18, <2>19, <2>20, <2>21, <2>22,
       <2>23, <2>24, <2>25, <2>26, <2>27, <2>28, <2>29, <2>30, <2>31, <2>32, <2>33,
       <2>34, <2>35 DEF MigrateInv, RunInv
<1>6. CASE ~OldNameMoves(run.root)
  <2>1. UNCHANGED tree
    BY <1>6 DEF Names
  <2> DEFINE b == IF OldNameConflicts(run.root) THEN run.conflicts \cup {"names"} ELSE run.conflicts
  <2>2. Has("clones", "old") => "names" \in b \/ passed
    BY <1>1, <1>6 DEF RunInv, Sheltered, OldNameConflicts, OldNameMoves, RunRec, Roots
  <2>3. b \subseteq {"names"} /\ b \cap Items = {} /\ \A q \in Pairs : q.item \notin b
    BY <1>4, <1>3 DEF Pairs
  <2>4. run' = [run EXCEPT !.pc = "pairs", !.conflicts = b]
    BY <1>6 DEF Names
  <2> HIDE DEF b
  <2>5. "pairs" \in RunSteps /\ b \in SUBSET (Items \cup {"names"})
    BY <2>3 DEF RunSteps, Gathering
  <2>6. /\ run' \in RunRec /\ run'.pc = "pairs" /\ run'.conflicts = b
        /\ run'.root = run.root /\ run'.vault = run.vault /\ run'.pairs = run.pairs
        /\ run'.contended = run.contended /\ run'.claimed = run.claimed /\ run'.prior = run.prior
        /\ run'.done = run.done /\ run'.torn = run.torn /\ run'.named = run.named
        /\ run'.failed = run.failed
    BY <1>1, <2>4, <2>5, SetConflicts
  <2>7. Pair' = Pair
    BY <2>6 DEF Pair
  <2>8. Under'
    BY <2>6, UnderRec DEF Under, RunRec, RunSteps, Gathering, Moving, Told, NoRun
  <2>9. TypedTree'
    BY <1>1, <1>2, <2>1, <2>6, <2>8, <1>4, <2>3 DEF MigrateInv, TypedTree
  <2>10. Laid'
    BY <1>1, <1>2, <2>1, <2>6, <2>8, <1>4, <2>3 DEF MigrateInv, Laid, Mine
  <2>11. RootsTell'
    BY <1>1, <1>2, <2>1, <2>6, <2>8, <1>4, <2>3 DEF MigrateInv, RootsTell, Has, Mine,
       TornIn
  <2>12. Journals'
    BY <1>1, <1>2, <2>1, <2>6, <2>8, <1>4, <2>3 DEF MigrateInv, Journals
  <2>13. Shaped'
    BY <1>1, <1>2, <2>1, <2>6, <2>8, <1>4, <2>3 DEF RunInv, Shaped, Before, Gathering,
       Moving, Told
  <2>14. PairsShaped'
    BY <1>1, <1>2, <2>1, <2>6, <2>8, <1>4, <2>3, <2>7 DEF RunInv, PairsShaped, Moving,
       RunRec
  <2>15. Remembers'
    BY <1>1, <1>2, <2>1, <2>6, <2>8, <1>4, <2>3 DEF RunInv, Remembers, Before,
       Gathering, Moving, Told
  <2>16. Sheltered'
    BY <1>1, <1>2, <2>1, <2>6, <2>8, <1>4, <2>3 DEF RunInv, Sheltered, Has, TornIn
  <2>17. HandsOff'
    BY <1>1, <1>2, <2>1, <2>6, <2>8, <1>4, <2>3, <2>7 DEF RunInv, HandsOff, Mine,
       TornIn, Before, Gathering, Moving, Told
  <2>18. StillThere'
    BY <1>1, <1>2, <2>1, <2>6, <2>8, <1>4, <2>3 DEF RunInv, StillThere, Has, TornIn,
       Moving
  <2>19. QueueIsWhole'
    BY <1>1, <1>2, <2>1, <2>6, <2>8, <1>4, <2>3 DEF RunInv, QueueIsWhole, TornIn,
       Before
  <2>20. DoneIsWhole'
    BY <1>1, <1>2, <2>1, <2>6, <2>8, <1>4, <2>3 DEF RunInv, DoneIsWhole, TornIn
  <2>21. ConflictsTold'
    BY <1>1, <1>2, <2>1, <2>6, <2>8, <1>4, <2>3 DEF RunInv, ConflictsTold, TornIn,
       WasCut
  <2>22. Gathered'
    BY <1>1, <1>2, <2>1, <2>6, <2>8, <1>4, <2>3, <2>2 DEF RunInv, Gathered, Smooth,
       Filtered, Mine, Has, Before, Gathering, Moving, Told
  <2>23. NoneBehind'
    BY <1>1, <1>2, <2>1, <2>6, <2>8, <1>4, <2>3 DEF RunInv, NoneBehind, Smooth, Filtered,
       Mine, Before, Gathering, Moving, Told
  <2>24. RefsFollow'
    BY <1>1, <1>2, <2>1, <2>6, <2>8, <1>4, <2>3 DEF RunInv, RefsFollow, Smooth, Before,
       Gathering, Moving, Told
  <2>25. TornIsKnown'
    BY <1>1, <1>2, <2>1, <2>6, <2>8, <1>4, <2>3, <2>7 DEF MigrateInv, TornIsKnown,
       TornKnown, FromVault, TornIn, WasCut, Under, Has, Before, Gathering, Moving,
       Told
  <2>26. Beside'
    BY <1>1, <1>2, <2>1, <2>6, <2>8, <1>4, <2>3, <2>7 DEF MigrateInv, Beside, Alone, Excluded, Naming, Smooth, Has
  <2>27. ClonesRecorded'
    BY <1>1, <1>2, <2>1, <2>6, <2>8, <1>4, <2>3 DEF MigrateInv, ClonesRecorded, Mine,
       Under
  <2>28. NamesRecorded'
    BY <1>1, <1>2, <2>1, <2>6, <2>8, <1>4, <2>3 DEF MigrateInv, NamesRecorded, Naming, Mine
  <2>29. Ends'
    BY <1>1, <1>2, <2>1, <2>6, <2>8, <1>4, <2>3 DEF MigrateInv, Ends
  <2>30. NothingLost'
    BY <1>1, <1>2, <2>1, <2>6, <2>8, <1>4, <2>3 DEF MigrateInv, NothingLost
  <2>31. CleanMeansUnified'
    BY <1>1, <1>2, <2>1, <2>6, <2>8, <1>4, <2>3 DEF MigrateInv, CleanMeansUnified,
       Ends, NoEnd
  <2>32. OthersStand
    BY <2>1, QuietStands
  <2> QED
    BY <2>9, <2>10, <2>11, <2>12, <2>13, <2>14, <2>15, <2>16, <2>17, <2>18, <2>19,
       <2>20, <2>21, <2>22, <2>23, <2>24, <2>25, <2>26, <2>27, <2>28, <2>29, <2>30,
       <2>31, <2>32 DEF MigrateInv, RunInv
<1> QED
  BY <1>5, <1>6

LEMMA JournalNamesKeeps ==
  ASSUME MigrateInv, JournalNames PROVE MigrateInv'
<1>1. /\ run \in RunRec /\ Under /\ RunInv /\ TypedTree
      /\ run.pc = "journalnames"
  BY UnderRec DEF MigrateInv, JournalNames, RunAt
<1>2. /\ UNCHANGED <<ref, lock, vaultRoot, across, legacyThere, daemon, last, cut, warned,
                     starts, faults, tree, claim, marked, passed>>
      /\ raced' = (raced \/ daemon.pc # "down")
  BY DEF JournalNames, Acting, NoFault
<1>3. run.root = "L"
  BY <1>1 DEF RunInv, Shaped
<1>4. /\ journal' \in [Roots -> JournalRec] /\ journal'["C"] = journal["C"]
      /\ journal'["L"].there = TRUE /\ journal'["L"].renamed = journal["L"].renamed \cup {OldName}
  <2>1. AppendRenamed(journal["L"], {OldName}) \in JournalRec
    BY <1>1 DEF TypedTree, JournalRec, AppendRenamed, Moves, Roots
  <2>2. journal' = [journal EXCEPT !["L"] = AppendRenamed(journal["L"], {OldName})]
    BY <1>3 DEF JournalNames
  <2>3. journal' \in [Roots -> JournalRec] /\ journal'["C"] = journal["C"] /\ journal'["L"] = AppendRenamed(journal["L"], {OldName})
    BY <1>1, <2>1, <2>2 DEF TypedTree, Roots
  <2> QED
    BY <2>3 DEF AppendRenamed
<1>5. run' = [run EXCEPT !.pc = "pairs"]
  BY <1>1 DEF JournalNames, Go
<1>6. "pairs" \in RunSteps
  BY DEF RunSteps, Gathering, Moving, Told
<1>7. /\ run' \in RunRec /\ run'.pc = "pairs"
      /\ run'.root = run.root /\ run'.vault = run.vault /\ run'.pairs = run.pairs
      /\ run'.contended = run.contended /\ run'.claimed = run.claimed /\ run'.prior = run.prior
      /\ run'.done = run.done /\ run'.torn = run.torn /\ run'.conflicts = run.conflicts
      /\ run'.named = run.named /\ run'.failed = run.failed
  BY <1>1, <1>5, <1>6, SetPc
<1>8. Pair' = Pair
  BY <1>7 DEF Pair
<1>9. Under'
  BY <1>7, UnderRec DEF Under, RunRec, RunSteps, Gathering, Moving, Told, NoRun
<1>10. TypedTree'
  BY <1>1, <1>2, <1>4, <1>7, <1>9 DEF MigrateInv, TypedTree
<1>11. Laid'
  BY <1>1, <1>2, <1>4, <1>7, <1>9 DEF MigrateInv, Laid, Mine
<1>12. RootsTell'
  BY <1>1, <1>2, <1>4, <1>7, <1>9 DEF MigrateInv, RootsTell, Has, Mine, TornIn
<1>13. Journals'
  BY <1>1, <1>2, <1>4, <1>7, <1>9 DEF MigrateInv, Journals
<1>14. Shaped'
  BY <1>1, <1>2, <1>4, <1>7, <1>9 DEF RunInv, Shaped, Before, Gathering, Moving, Told
<1>15. PairsShaped'
  BY <1>1, <1>2, <1>4, <1>7, <1>9, <1>8 DEF RunInv, PairsShaped, Moving
<1>16. Remembers'
  BY <1>1, <1>2, <1>4, <1>7, <1>9 DEF RunInv, Remembers, Before, Gathering, Moving,
     Told
<1>17. Sheltered'
  BY <1>1, <1>2, <1>4, <1>7, <1>9 DEF RunInv, Sheltered, Has, TornIn
<1>18. HandsOff'
  BY <1>1, <1>2, <1>4, <1>7, <1>9, <1>8 DEF RunInv, HandsOff, Mine, TornIn, Before,
     Gathering, Moving, Told
<1>19. StillThere'
  BY <1>1, <1>2, <1>4, <1>7, <1>9 DEF RunInv, StillThere, Has, TornIn, Moving
<1>20. QueueIsWhole'
  BY <1>1, <1>2, <1>4, <1>7, <1>9 DEF RunInv, QueueIsWhole, TornIn, Before
<1>21. DoneIsWhole'
  BY <1>1, <1>2, <1>4, <1>7, <1>9 DEF RunInv, DoneIsWhole, TornIn
<1>22. ConflictsTold'
  BY <1>1, <1>2, <1>4, <1>7, <1>9 DEF RunInv, ConflictsTold, TornIn, WasCut
<1>23. Gathered'
  BY <1>1, <1>2, <1>4, <1>7, <1>9 DEF RunInv, Gathered, Smooth, Filtered, Mine, Has,
     Before, Gathering, Moving, Told
<1>24. NoneBehind'
  BY <1>1, <1>2, <1>4, <1>7, <1>9 DEF RunInv, NoneBehind, Smooth, Filtered, Mine, Before,
     Gathering, Moving, Told
<1>25. RefsFollow'
  BY <1>1, <1>2, <1>4, <1>7, <1>9 DEF RunInv, RefsFollow, Smooth, Before, Gathering,
     Moving, Told
<1>26. TornIsKnown'
  BY <1>1, <1>2, <1>4, <1>7, <1>9, <1>8 DEF MigrateInv, TornIsKnown, TornKnown,
     FromVault, TornIn, WasCut, Under, Has, Before, Gathering, Moving, Told
<1>27. Beside'
  BY <1>1, <1>2, <1>4, <1>7, <1>9, <1>8 DEF MigrateInv, Beside, Alone, Excluded, Naming, Smooth, Has
<1>28. ClonesRecorded'
  BY <1>1, <1>2, <1>4, <1>7, <1>9 DEF MigrateInv, ClonesRecorded, Mine, Under
<1>29. NamesRecorded'
  BY <1>1, <1>2, <1>4, <1>7, <1>9 DEF MigrateInv, NamesRecorded, Naming, Mine
<1>30. Ends'
  BY <1>1, <1>2, <1>4, <1>7, <1>9 DEF MigrateInv, Ends
<1>31. NothingLost'
  BY <1>1, <1>2, <1>4, <1>7, <1>9 DEF MigrateInv, NothingLost
<1>32. CleanMeansUnified'
  BY <1>1, <1>2, <1>4, <1>7, <1>9 DEF MigrateInv, CleanMeansUnified, Ends, NoEnd
<1> QED
  BY <1>10, <1>11, <1>12, <1>13, <1>14, <1>15, <1>16, <1>17, <1>18, <1>19, <1>20,
     <1>21, <1>22, <1>23, <1>24, <1>25, <1>26, <1>27, <1>28, <1>29, <1>30, <1>31, <1>32
     DEF MigrateInv, RunInv

\* Under the lock, the pairs that are there are all the data that is not moved.
LEMMA FilterKeeps ==
  ASSUME MigrateInv, Filter PROVE MigrateInv'
<1>1. /\ run \in RunRec /\ Under /\ RunInv /\ TypedTree
      /\ run.pc = "pairs"
  BY UnderRec DEF MigrateInv, Filter, RunAt
<1>2. /\ UNCHANGED <<ref, lock, vaultRoot, across, legacyThere, daemon, last, cut, warned,
                     starts, faults, tree, journal, claim, marked, passed>>
      /\ raced' = (raced \/ daemon.pc # "down")
  BY DEF Filter, Acting, NoFault
<1>3. \A q \in run.pairs : q.item # "journal" => q.item \in Items /\ q.from \in Spots /\ q.from # "v2"
  BY <1>1 DEF RunRec, Pairs, Items, Spots
<1>4. Items = {"queue", "watch", "clones"} /\ Spots = {"vault", "old", "flat", "cflat", "v2"}
  BY DEF Items, Spots
<1> DEFINE a == {q \in run.pairs : IF q.item = "journal" THEN journal["L"].there ELSE Has(q.item, q.from)}
<1>5. run' = [run EXCEPT !.pc = "loop", !.pairs = a]
  BY DEF Filter
<1>6. run.done = {} /\ run.torn = {} /\ run.named = {} /\ ~run.failed /\ {QF, WF, JL} \subseteq run.pairs /\ run.conflicts \subseteq {"names"}
  BY <1>1 DEF RunInv, Shaped, Gathering
<1>7. /\ a \subseteq run.pairs /\ (JL \in a <=> journal["L"].there)
      /\ \A q \in a : q.item # "journal" => Has(q.item, q.from)
      /\ \A q \in a : q.item \notin {"names"}
      /\ (QF \in a <=> Has("queue", "flat")) /\ (WF \in a <=> Has("watch", "flat"))
      /\ (CF \in a <=> CF \in run.pairs /\ Has("clones", "flat"))
  BY <1>1, <1>6 DEF JL, QF, WF, CF, RunRec, Pairs
<1> HIDE DEF a
<1>8. "loop" \in RunSteps /\ a \in SUBSET Pairs
  BY <1>7, <1>1 DEF RunSteps, RunRec
<1>9. /\ run' \in RunRec /\ run'.pc = "loop" /\ run'.pairs = a
      /\ run'.root = run.root /\ run'.vault = run.vault /\ run'.contended = run.contended
      /\ run'.claimed = run.claimed /\ run'.prior = run.prior /\ run'.done = run.done
      /\ run'.torn = run.torn /\ run'.conflicts = run.conflicts /\ run'.named = run.named
      /\ run'.failed = run.failed
  BY <1>1, <1>5, <1>8, SetPairs
<1>10. Under'
  BY <1>9, UnderRec DEF Under, RunRec, RunSteps, Gathering, Moving, Told, NoRun
<1>11. \A i \in Items : Mine(i, "flat") => Has(i, "flat")
  BY DEF Mine, Has, Absent
<1>12. TypedTree'
  BY <1>1, <1>2, <1>9, <1>10, <1>7, <1>6 DEF MigrateInv, TypedTree
<1>13. Laid'
  BY <1>1, <1>2, <1>9, <1>10, <1>7, <1>6 DEF MigrateInv, Laid, Mine
<1>14. RootsTell'
  BY <1>1, <1>2, <1>9, <1>10, <1>7, <1>6 DEF MigrateInv, RootsTell, Has, Mine, TornIn
<1>15. Journals'
  BY <1>1, <1>2, <1>9, <1>10, <1>7, <1>6 DEF MigrateInv, Journals
<1>16. Shaped'
  BY <1>1, <1>2, <1>9, <1>10, <1>7, <1>6 DEF RunInv, Shaped, Before, Gathering, Moving,
     Told
<1>17. PairsShaped'
  BY <1>1, <1>2, <1>9, <1>10, <1>7, <1>6 DEF RunInv, PairsShaped, Moving, Pairs, RunRec
<1>18. Remembers'
  BY <1>1, <1>2, <1>9, <1>10, <1>7, <1>6 DEF RunInv, Remembers, Before, Gathering,
     Moving, Told
<1>19. Sheltered'
  BY <1>1, <1>2, <1>9, <1>10, <1>7, <1>6 DEF RunInv, Sheltered, Has, TornIn
<1>20. HandsOff'
  BY <1>1, <1>2, <1>9, <1>10, <1>7, <1>6 DEF RunInv, HandsOff, Mine, TornIn, Before,
     Gathering, Moving, Told
<1>21. StillThere'
  BY <1>1, <1>2, <1>9, <1>10, <1>7, <1>6 DEF RunInv, StillThere, Has, TornIn, Moving
<1>22. QueueIsWhole'
  BY <1>1, <1>2, <1>9, <1>10, <1>7, <1>6 DEF RunInv, QueueIsWhole, TornIn, Before
<1>23. DoneIsWhole'
  BY <1>1, <1>2, <1>9, <1>10, <1>7, <1>6 DEF RunInv, DoneIsWhole, TornIn
<1>24. ConflictsTold'
  BY <1>1, <1>2, <1>9, <1>10, <1>7, <1>6 DEF RunInv, ConflictsTold, TornIn, WasCut
<1>25. Gathered'
  BY <1>1, <1>2, <1>9, <1>10, <1>7, <1>6 DEF RunInv, Gathered, Smooth, Filtered, Mine,
     Has, Before, Gathering, Moving, Told
<1>26. NoneBehind'
  <2>1. Smooth =>
        /\ \A i \in Items : "mine" \in tree[i]["flat"] => [item |-> i, from |-> "flat"] \in a
        /\ journal["L"].renamed # {} => JL \in a
    <3> SUFFICES ASSUME Smooth PROVE
        /\ \A i \in Items : "mine" \in tree[i]["flat"] => [item |-> i, from |-> "flat"] \in a
        /\ journal["L"].renamed # {} => JL \in a
      OBVIOUS
    <3>1. journal["L"].renamed # {} => JL \in a
      BY <1>7 DEF MigrateInv, Journals
    <3>2. Mine("clones", "flat") => CF \in a
      BY <1>7, <1>11, <1>1, <1>4 DEF RunInv, Gathered, Gathering, Smooth
    <3>3. (Mine("queue", "flat") => QF \in a) /\ (Mine("watch", "flat") => WF \in a)
      BY <1>7, <1>11, <1>4
    <3> QED
      BY <3>1, <3>2, <3>3, <1>4 DEF QF, WF, CF, Mine
  <2>2. Smooth' => Smooth
    BY <1>9, <1>2, <1>6, <1>1 DEF Smooth, TypedTree
  <2>3. tree' = tree /\ journal' = journal /\ run'.pairs = a
    BY <1>9, <1>2
  <2> QED
    BY <2>1, <2>2, <2>3 DEF NoneBehind, Mine
<1>27. RefsFollow'
  BY <1>1, <1>2, <1>9, <1>10, <1>7, <1>6 DEF RunInv, RefsFollow, Smooth, Before,
     Gathering, Moving, Told
<1>28. TornIsKnown'
  BY <1>1, <1>2, <1>9, <1>10, <1>7, <1>6 DEF MigrateInv, TornIsKnown, TornKnown,
     FromVault, TornIn, WasCut, Under, Has, Before, Gathering, Moving, Told
<1>29. Beside'
  BY <1>1, <1>2, <1>9, <1>10, <1>7, <1>6 DEF MigrateInv, Beside, Alone, Excluded, Naming, Smooth, Has
<1>30. ClonesRecorded'
  BY <1>1, <1>2, <1>9, <1>10, <1>7, <1>6 DEF MigrateInv, ClonesRecorded, Mine, Under
<1>31. NamesRecorded'
  BY <1>1, <1>2, <1>9, <1>10, <1>7, <1>6 DEF MigrateInv, NamesRecorded, Naming, Mine
<1>32. Ends'
  BY <1>1, <1>2, <1>9, <1>10, <1>7, <1>6 DEF MigrateInv, Ends
<1>33. NothingLost'
  BY <1>1, <1>2, <1>9, <1>10, <1>7, <1>6 DEF MigrateInv, NothingLost
<1>34. CleanMeansUnified'
  BY <1>1, <1>2, <1>9, <1>10, <1>7, <1>6 DEF MigrateInv, CleanMeansUnified, Ends, NoEnd
<1> QED
  BY <1>12, <1>13, <1>14, <1>15, <1>16, <1>17, <1>18, <1>19, <1>20, <1>21, <1>22,
     <1>23, <1>24, <1>25, <1>26, <1>27, <1>28, <1>29, <1>30, <1>31, <1>32, <1>33, <1>34
     DEF MigrateInv, RunInv

\* A conflict takes the pair off the list and says whether the copy is torn; a
\* place that is free is cleared of scaffolding.
LEMMA MoveCheckKeeps ==
  ASSUME MigrateInv, MoveCheck PROVE MigrateInv' /\ OthersStand
<1>1. /\ run \in RunRec /\ Under /\ RunInv /\ TypedTree
      /\ run.pc = "loop"
      /\ run.pairs # {} /\ Pair.item # "journal"
  BY UnderRec DEF MigrateInv, MoveCheck, RunAt, Looping
<1>2. /\ Pair \in run.pairs /\ Pair \in Pairs /\ Pair.item \in Items
      /\ Pair.from \in {"flat", "cflat"} /\ Pair.from \in Spots
      /\ Pair \in {QF, WF, CC, CF} /\ (Pair.from = "cflat" => Pair = CC)
  BY <1>1, PairIn DEF RunRec, Pairs, Items, Spots, QF, WF, CC, CF
<1>3. \A q \in run.pairs : q.item # "journal" => q.item \in Items /\ q.from \in Spots /\ q.from # "v2"
  BY <1>1 DEF RunRec, Pairs, Items, Spots
<1>4. /\ UNCHANGED <<journal, claim, ref, lock, vaultRoot, across, legacyThere, daemon,
                     last, cut, warned, starts, faults>>
      /\ raced' = (raced \/ daemon.pc # "down")
  BY DEF MoveCheck, Acting, NoFault
<1>5. CASE Spoken \/ (Has(Pair.item, "v2") /\ ~IsRecursivelyEmptyDir(Pair.item, "v2"))
  <2> DEFINE i0 == Pair.item
      a == run.pairs \ {Pair}
      b == run.conflicts \cup {i0}
      c == IF ~Spoken /\ Step(i0, Pair.from, "v2") \in run.prior
           THEN run.named \cup {i0} ELSE run.named
  <2>1. UNCHANGED <<tree, marked, passed>>
    BY <1>5 DEF MoveCheck
  <2>2. run' = [run EXCEPT !.pairs = a, !.conflicts = b, !.named = c]
    BY <1>5 DEF MoveCheck, Conflict
  <2>3. a \in SUBSET Pairs /\ b \in SUBSET (Items \cup {"names"}) /\ c \in SUBSET Items
    BY <1>1, <1>2 DEF RunRec
  <2>4. \A q \in a : q.item = i0 => q = CF /\ "clones" \in run.contended
    <3> SUFFICES ASSUME NEW q \in a, q.item = i0 PROVE q = CF /\ "clones" \in run.contended
      OBVIOUS
    <3>1. q \in run.pairs /\ q # Pair /\ {q, Pair} = {CC, CF}
      BY <1>1, <1>2 DEF RunRec, Pairs, CC, CF
    <3>2. Pair = CC /\ q = CF
      BY <1>1, <3>1, PairFirst DEF RunRec
    <3> QED
      BY <1>1, <1>2, <3>1, <3>2 DEF RunInv, Sheltered
  <2>5. TornIn(i0) => i0 \in c \/ WasCut(i0)
    <3> SUFFICES ASSUME TornIn(i0), ~WasCut(i0) PROVE i0 \in c
      OBVIOUS
    <3>1. ~(run.claimed /\ i0 = "queue") /\ ~("clones" \in run.contended /\ i0 = "clones")
      BY <1>1 DEF RunInv, QueueIsWhole, Sheltered, Before
    <3>2. Pair # CC
      BY <1>1, <1>2 DEF MigrateInv, RunInv, Sheltered, RootsTell, CC
    <3>3. ~Spoken /\ Pair.from = "flat"
      BY <1>2, <1>1, <3>1, <3>2 DEF Spoken, RunInv, Sheltered
    <3>4. Step(i0, "flat", "v2") \in journal["C"].partial
      BY <1>1, <1>2 DEF MigrateInv, RunInv, TornIsKnown, TornKnown, FromVault, Shaped,
         Before
    <3>5. Step(i0, "flat", "v2") \in run.prior
      BY <1>1, <3>4 DEF RunInv, Remembers, Told
    <3> QED
      BY <3>3, <3>5
  <2>6. b \cap Items = (run.conflicts \cap Items) \cup {i0} /\ run.named \subseteq c /\ c \subseteq run.named \cup {i0} /\ b # {}
        /\ a \subseteq run.pairs /\ b = run.conflicts \cup {i0} /\ c \subseteq b
    BY <1>2, <1>1 DEF RunInv, Shaped
  <2> HIDE DEF a, b, c
  <2>7. /\ run' \in RunRec /\ run'.pairs = a /\ run'.conflicts = b /\ run'.named = c
        /\ run'.pc = run.pc /\ run'.root = run.root /\ run'.vault = run.vault
        /\ run'.contended = run.contended /\ run'.claimed = run.claimed /\ run'.prior = run.prior
        /\ run'.done = run.done /\ run'.torn = run.torn /\ run'.failed = run.failed
    BY <1>1, <2>2, <2>3, SetConflict, ZenonT(60)
  <2>8. Under'
    BY <2>7, UnderRec DEF Under, RunRec, RunSteps, Gathering, Moving, Told, NoRun
  <2>9. TypedTree'
    BY <1>1, <1>4, <2>1, <2>7, <2>8 DEF MigrateInv, TypedTree
  <2>10. Laid'
    BY <1>1, <1>4, <2>1, <2>7, <2>8 DEF MigrateInv, Laid, Mine
  <2>11. RootsTell'
    BY <1>1, <1>4, <2>1, <2>7, <2>8 DEF MigrateInv, RootsTell, Has, Mine, TornIn
  <2>12. Journals'
    BY <1>1, <1>4, <2>1, <2>7, <2>8 DEF MigrateInv, Journals
  <2>13. Shaped'
    BY <1>1, <1>4, <2>1, <2>7, <2>8, <2>6, <1>2 DEF RunInv, Shaped, Before, Gathering,
       Moving, Told
  <2>14. PairsShaped'
    BY <1>1, <1>4, <2>1, <2>7, <2>8, <1>2, <2>4, <2>6 DEF RunInv, PairsShaped, Moving
  <2>15. Remembers'
    BY <1>1, <1>4, <2>1, <2>7, <2>8 DEF RunInv, Remembers, Before, Gathering, Moving,
       Told
  <2>16. Sheltered'
    BY <1>1, <1>4, <2>1, <2>7, <2>8, <2>6 DEF RunInv, Sheltered, Has, TornIn
  <2>17. HandsOff'
    BY <1>1, <1>4, <2>1, <2>7, <2>8 DEF RunInv, HandsOff, Mine, TornIn, Before,
       Gathering, Moving, Told
  <2>18. StillThere'
    BY <1>1, <1>4, <2>1, <2>7, <2>8, <2>6 DEF RunInv, StillThere, Has, TornIn, Moving
  <2>19. QueueIsWhole'
    BY <1>1, <1>4, <2>1, <2>7, <2>8 DEF RunInv, QueueIsWhole, TornIn, Before
  <2>20. DoneIsWhole'
    BY <1>1, <1>4, <2>1, <2>7, <2>8 DEF RunInv, DoneIsWhole, TornIn
  <2>21. ConflictsTold'
    BY <1>1, <1>4, <2>1, <2>7, <2>8, <2>6, <2>5 DEF RunInv, ConflictsTold, TornIn,
       WasCut
  <2>22. Gathered'
    BY <1>1, <1>4, <2>1, <2>7, <2>8, <2>6 DEF RunInv, Gathered, Smooth, Filtered, Mine,
       Has, Before, Gathering, Moving, Told
  <2>23. NoneBehind'
    BY <1>1, <1>4, <2>1, <2>7, <2>8, <2>6 DEF RunInv, NoneBehind, Smooth, Filtered, Mine,
       Before, Gathering, Moving, Told
  <2>24. RefsFollow'
    BY <1>1, <1>4, <2>1, <2>7, <2>8 DEF RunInv, RefsFollow, Smooth, Before, Gathering,
       Moving, Told
  <2>25. TornIsKnown'
    BY <1>1, <1>4, <2>1, <2>7, <2>8 DEF MigrateInv, TornIsKnown, TornKnown, FromVault,
       TornIn, WasCut, Under, Has, Before, Gathering, Moving, Told
  <2>26. Beside'
    BY <1>1, <1>4, <2>1, <2>7, <2>8 DEF MigrateInv, Beside, Alone, Excluded, Naming, Smooth, Has
  <2>27. ClonesRecorded'
    BY <1>1, <1>4, <2>1, <2>7, <2>8 DEF MigrateInv, ClonesRecorded, Mine, Under
  <2>28. NamesRecorded'
    BY <1>1, <1>4, <2>1, <2>7, <2>8 DEF MigrateInv, NamesRecorded, Naming, Mine
  <2>29. Ends'
    BY <1>1, <1>4, <2>1, <2>7, <2>8 DEF MigrateInv, Ends
  <2>30. NothingLost'
    BY <1>1, <1>4, <2>1, <2>7, <2>8 DEF MigrateInv, NothingLost
  <2>31. CleanMeansUnified'
    BY <1>1, <1>4, <2>1, <2>7, <2>8 DEF MigrateInv, CleanMeansUnified, Ends, NoEnd
  <2>32. OthersStand
    BY <2>1, QuietStands
  <2> QED
    BY <2>9, <2>10, <2>11, <2>12, <2>13, <2>14, <2>15, <2>16, <2>17, <2>18, <2>19,
       <2>20, <2>21, <2>22, <2>23, <2>24, <2>25, <2>26, <2>27, <2>28, <2>29, <2>30,
       <2>31, <2>32 DEF MigrateInv, RunInv
<1>6. CASE ~Spoken /\ (~Has(Pair.item, "v2") \/ IsRecursivelyEmptyDir(Pair.item, "v2"))
  <2> DEFINE i0 == Pair.item
  <2>1. tree' = [tree EXCEPT ![i0]["v2"] = Absent]
    BY <1>6, <1>2 DEF MoveCheck, Trees
  <2>2. run' = [run EXCEPT !.pc = "rename"]
    BY <1>6 DEF MoveCheck, Go
  <2>3. "rename" \in RunSteps /\ Absent \in Content /\ "v2" \in Spots
    BY DEF RunSteps, Moving, Content, Spots
  <2>4. /\ tree' \in Trees /\ tree'[i0]["v2"] = Absent
        /\ \A j \in Items, r \in Spots : j # i0 \/ r # "v2" => tree'[j][r] = tree[j][r]
    <3>1. tree \in Trees /\ i0 \in Items
      BY <1>1, <1>2 DEF TypedTree
    <3> HIDE DEF i0
    <3> QED
      BY <3>1, <2>1, <2>3 DEF Trees
  <2>5. tree[i0]["v2"] \in {Absent, {}}
    BY <1>6 DEF Has, IsRecursivelyEmptyDir
  <2>6. marked' = (marked \/ i0 = "clones") /\ passed' = (passed \/ (i0 = "clones" /\ ~marked /\ Has("clones", "old")))
    BY <1>6, <1>1 DEF MoveCheck, Mark, TypedTree
  <2>7. /\ run' \in RunRec /\ run'.pc = "rename"
        /\ run'.root = run.root /\ run'.vault = run.vault /\ run'.pairs = run.pairs
        /\ run'.contended = run.contended /\ run'.claimed = run.claimed /\ run'.prior = run.prior
        /\ run'.done = run.done /\ run'.torn = run.torn /\ run'.conflicts = run.conflicts
        /\ run'.named = run.named /\ run'.failed = run.failed
    BY <1>1, <2>2, <2>3, SetPc
  <2>8. Pair' = Pair /\ Spoken' = Spoken
    BY <2>7 DEF Pair, Spoken
  <2>9. Under'
    BY <2>7, UnderRec DEF Under, RunRec, RunSteps, Gathering, Moving, Told, NoRun
  <2>10. \A j \in Items, r \in Spots, m \in {"mine", "news", "torn"} : m \in tree'[j][r] <=> m \in tree[j][r]
    BY <2>4, <2>5 DEF Absent
  <2>11. {"queue", "watch", "clones"} = Items /\ {"vault", "old", "flat", "cflat", "v2"} = Spots
    BY DEF Items, Spots
  <2>12. TypedTree'
    BY <1>1, <1>4, <2>4, <2>6, <2>7, <2>9, <2>10, <2>11 DEF MigrateInv, TypedTree
  <2>13. Laid'
    BY <1>1, <1>4, <2>4, <2>6, <2>7, <2>9, <2>10, <2>11 DEF MigrateInv, Laid, Mine
  <2>14. RootsTell'
    BY <1>1, <1>4, <2>4, <2>6, <2>7, <2>9, <2>10, <2>11, <2>5 DEF MigrateInv,
       RootsTell, Has, Mine, TornIn
  <2>15. Journals'
    BY <1>1, <1>4, <2>4, <2>6, <2>7, <2>9, <2>10, <2>11 DEF MigrateInv, Journals
  <2>16. Shaped'
    BY <1>1, <1>4, <2>4, <2>6, <2>7, <2>9, <2>10, <2>11 DEF RunInv, Shaped, Before,
       Gathering, Moving, Told
  <2>17. PairsShaped'
    BY <1>1, <1>4, <2>4, <2>6, <2>7, <2>9, <2>10, <2>11, <1>2, <2>8, <1>6 DEF RunInv,
       PairsShaped, Moving
  <2>18. Remembers'
    BY <1>1, <1>4, <2>4, <2>6, <2>7, <2>9, <2>10, <2>11 DEF RunInv, Remembers, Before,
       Gathering, Moving, Told
  <2>19. Sheltered'
    BY <1>1, <1>4, <2>4, <2>6, <2>7, <2>9, <2>10, <2>11 DEF RunInv, Sheltered, Has,
       TornIn
  <2>20. HandsOff'
    BY <1>1, <1>4, <2>4, <2>6, <2>7, <2>9, <2>10, <2>11, <2>8, <2>5, <1>2 DEF RunInv,
       HandsOff, Mine, TornIn, Before, Gathering, Moving, Told, Absent
  <2>21. StillThere'
    BY <1>1, <1>4, <2>4, <2>6, <2>7, <2>9, <2>10, <2>11, <2>8, <1>3 DEF RunInv,
       StillThere, Has, TornIn, Moving
  <2>22. QueueIsWhole'
    BY <1>1, <1>4, <2>4, <2>6, <2>7, <2>9, <2>10, <2>11 DEF RunInv, QueueIsWhole,
       TornIn, Before
  <2>23. DoneIsWhole'
    BY <1>1, <1>4, <2>4, <2>6, <2>7, <2>9, <2>10, <2>11 DEF RunInv, DoneIsWhole, TornIn
  <2>24. ConflictsTold'
    BY <1>1, <1>4, <2>4, <2>6, <2>7, <2>9, <2>10, <2>11 DEF RunInv, ConflictsTold,
       TornIn, WasCut
  <2>25. Gathered'
    BY <1>1, <1>4, <2>4, <2>6, <2>7, <2>9, <2>10, <2>11 DEF RunInv, Gathered, Smooth,
       Filtered, Mine, Has, Before, Gathering, Moving, Told
  <2>26. NoneBehind'
    BY <1>1, <1>4, <2>4, <2>6, <2>7, <2>9, <2>10, <2>11 DEF RunInv, NoneBehind, Smooth,
       Filtered, Mine, Before, Gathering, Moving, Told
  <2>27. RefsFollow'
    BY <1>1, <1>4, <2>4, <2>6, <2>7, <2>9, <2>10, <2>11 DEF RunInv, RefsFollow, Smooth,
       Before, Gathering, Moving, Told
  <2>28. TornIsKnown'
    BY <1>1, <1>4, <2>4, <2>6, <2>7, <2>9, <2>10, <2>11, <2>8 DEF MigrateInv,
       TornIsKnown, TornKnown, FromVault, TornIn, WasCut, Under, Has, Before,
       Gathering, Moving, Told
  <2>29. Beside'
    BY <1>1, <1>4, <2>4, <2>6, <2>7, <2>9, <2>10, <2>11, <2>8 DEF MigrateInv, Beside, Alone, Excluded, Naming, Smooth,
       Has
  <2>30. ClonesRecorded'
    BY <1>1, <1>4, <2>4, <2>6, <2>7, <2>9, <2>10, <2>11 DEF MigrateInv, ClonesRecorded,
       Mine, Under
  <2>31. NamesRecorded'
    BY <1>1, <1>4, <2>4, <2>6, <2>7, <2>9, <2>10, <2>11 DEF MigrateInv, NamesRecorded, Naming,
       Mine
  <2>32. Ends'
    BY <1>1, <1>4, <2>4, <2>6, <2>7, <2>9, <2>10, <2>11 DEF MigrateInv, Ends
  <2>33. NothingLost'
    BY <1>1, <1>4, <2>4, <2>6, <2>7, <2>9, <2>10, <2>11 DEF MigrateInv, NothingLost
  <2>34. CleanMeansUnified'
    BY <1>1, <1>4, <2>4, <2>6, <2>7, <2>9, <2>10, <2>11 DEF MigrateInv,
       CleanMeansUnified, Ends, NoEnd
  <2>35. OthersStand
    BY <2>10, <2>11, QuietStands
  <2> QED
    BY <2>12, <2>13, <2>14, <2>15, <2>16, <2>17, <2>18, <2>19, <2>20, <2>21, <2>22,
       <2>23, <2>24, <2>25, <2>26, <2>27, <2>28, <2>29, <2>30, <2>31, <2>32, <2>33,
       <2>34, <2>35 DEF MigrateInv, RunInv
<1> QED
  BY <1>5, <1>6

\* A rename carries everything that was at the source, or nothing moves.
LEMMA RenameKeeps ==
  ASSUME MigrateInv, Rename PROVE MigrateInv' /\ OthersStand
<1>1. /\ run \in RunRec /\ Under /\ RunInv /\ TypedTree
      /\ run.pc = "rename"
  BY UnderRec DEF MigrateInv, Rename, RunAt
<1>2. /\ run \in RunRec /\ Under /\ RunInv /\ TypedTree
      /\ run.pc = "rename" /\ run.pairs # {} /\ Pair.item # "journal"
  BY <1>1 DEF RunInv, PairsShaped, Moving
<1>3. /\ Pair \in run.pairs /\ Pair \in Pairs /\ Pair.item \in Items
      /\ Pair.from \in {"flat", "cflat"} /\ Pair.from \in Spots
      /\ Pair \in {QF, WF, CC, CF} /\ (Pair.from = "cflat" => Pair = CC)
  BY <1>2, PairIn DEF RunRec, Pairs, Items, Spots, QF, WF, CC, CF
<1>4. \A q \in run.pairs : q.item # "journal" => q.item \in Items /\ q.from \in Spots /\ q.from # "v2"
  BY <1>2 DEF RunRec, Pairs, Items, Spots
<1>5. /\ UNCHANGED <<journal, ref, lock, vaultRoot, across, legacyThere, daemon, last, cut, warned,
                     starts, faults>>
      /\ raced' = (raced \/ daemon.pc # "down")
  BY DEF Rename, Acting, NoFault
<1>6. CASE Has(Pair.item, "v2") /\ ~IsFile(Pair.item)
  <2>1. run' = [run EXCEPT !.pc = "journal", !.failed = TRUE]
    BY <1>6, <1>2 DEF Rename, Go
  <2>2. "journal" \in RunSteps /\ TRUE \in BOOLEAN
    BY <1>2 DEF RunRec, RunSteps, Gathering, Moving, Told
  <2>3. /\ run' \in RunRec /\ run'.pc = "journal" /\ run'.failed = TRUE
        /\ run'.root = run.root /\ run'.vault = run.vault /\ run'.pairs = run.pairs
        /\ run'.contended = run.contended /\ run'.claimed = run.claimed /\ run'.prior = run.prior
        /\ run'.done = run.done /\ run'.torn = run.torn /\ run'.conflicts = run.conflicts
        /\ run'.named = run.named
    BY <1>2, <2>1, <2>2, SetFailed
  <2>4. UNCHANGED <<tree, claim, marked, passed>>
    BY <1>6 DEF Rename
  <2>5. Pair' = Pair
    BY <2>3 DEF Pair
  <2>6. Under'
    BY <2>3, UnderRec DEF Under, RunRec, RunSteps, Gathering, Moving, Told, NoRun
  <2>7. TypedTree'
    BY <1>2, <1>5, <2>4, <2>3, <2>6 DEF MigrateInv, TypedTree
  <2>8. Laid'
    BY <1>2, <1>5, <2>4, <2>3, <2>6 DEF MigrateInv, Laid, Mine
  <2>9. RootsTell'
    BY <1>2, <1>5, <2>4, <2>3, <2>6 DEF MigrateInv, RootsTell, Has, Mine, TornIn
  <2>10. Journals'
    BY <1>2, <1>5, <2>4, <2>3, <2>6 DEF MigrateInv, Journals
  <2>11. Shaped'
    BY <1>2, <1>5, <2>4, <2>3, <2>6 DEF RunInv, Shaped, Before, Gathering, Moving, Told
  <2>12. PairsShaped'
    BY <1>2, <1>5, <2>4, <2>3, <2>6, <2>5 DEF RunInv, PairsShaped, Moving
  <2>13. Remembers'
    BY <1>2, <1>5, <2>4, <2>3, <2>6 DEF RunInv, Remembers, Before, Gathering, Moving,
       Told
  <2>14. Sheltered'
    BY <1>2, <1>5, <2>4, <2>3, <2>6 DEF RunInv, Sheltered, Has, TornIn
  <2>15. HandsOff'
    BY <1>2, <1>5, <2>4, <2>3, <2>6, <2>5 DEF RunInv, HandsOff, Mine, TornIn, Before,
       Gathering, Moving, Told
  <2>16. StillThere'
    BY <1>2, <1>5, <2>4, <2>3, <2>6, <2>5 DEF RunInv, StillThere, Has, TornIn, Moving
  <2>17. QueueIsWhole'
    BY <1>2, <1>5, <2>4, <2>3, <2>6 DEF RunInv, QueueIsWhole, TornIn, Before
  <2>18. DoneIsWhole'
    BY <1>2, <1>5, <2>4, <2>3, <2>6 DEF RunInv, DoneIsWhole, TornIn
  <2>19. ConflictsTold'
    BY <1>2, <1>5, <2>4, <2>3, <2>6 DEF RunInv, ConflictsTold, TornIn, WasCut
  <2>20. Gathered'
    BY <1>2, <1>5, <2>4, <2>3, <2>6 DEF RunInv, Gathered, Smooth, Filtered, Mine, Has,
       Before, Gathering, Moving, Told
  <2>21. NoneBehind'
    BY <1>2, <1>5, <2>4, <2>3, <2>6 DEF RunInv, NoneBehind, Smooth, Filtered, Mine, Before,
       Gathering, Moving, Told
  <2>22. RefsFollow'
    BY <1>2, <1>5, <2>4, <2>3, <2>6 DEF RunInv, RefsFollow, Smooth, Before, Gathering,
       Moving, Told
  <2>23. TornIsKnown'
    BY <1>2, <1>5, <2>4, <2>3, <2>6, <2>5 DEF MigrateInv, TornIsKnown, TornKnown,
       FromVault, TornIn, WasCut, Under, Has, Before, Gathering, Moving, Told
  <2>24. Beside'
    BY <1>2, <1>5, <2>4, <2>3, <2>6, <2>5 DEF MigrateInv, Beside, Alone, Excluded, Naming, Smooth, Has
  <2>25. ClonesRecorded'
    BY <1>2, <1>5, <2>4, <2>3, <2>6 DEF MigrateInv, ClonesRecorded, Mine, Under
  <2>26. NamesRecorded'
    BY <1>2, <1>5, <2>4, <2>3, <2>6 DEF MigrateInv, NamesRecorded, Naming, Mine
  <2>27. Ends'
    BY <1>2, <1>5, <2>4, <2>3, <2>6 DEF MigrateInv, Ends
  <2>28. NothingLost'
    BY <1>2, <1>5, <2>4, <2>3, <2>6 DEF MigrateInv, NothingLost
  <2>29. CleanMeansUnified'
    BY <1>2, <1>5, <2>4, <2>3, <2>6 DEF MigrateInv, CleanMeansUnified, Ends, NoEnd
  <2>30. OthersStand
    BY <2>4, QuietStands
  <2> QED
    BY <2>7, <2>8, <2>9, <2>10, <2>11, <2>12, <2>13, <2>14, <2>15, <2>16, <2>17, <2>18,
       <2>19, <2>20, <2>21, <2>22, <2>23, <2>24, <2>25, <2>26, <2>27, <2>28, <2>29,
       <2>30 DEF MigrateInv, RunInv
<1>7. CASE ~(Has(Pair.item, "v2") /\ ~IsFile(Pair.item))
  <2> DEFINE i0 == Pair.item
      from == Pair.from
  <2>1. Items = {"queue", "watch", "clones"} /\ Spots = {"vault", "old", "flat", "cflat", "v2"}
    BY DEF Items, Spots
  <2>2. tree' = Moved(i0, from, "v2")
    BY <1>7 DEF Rename
  <2>3. claim' = ClaimMoved(i0, from, "v2")
    BY <1>7 DEF Rename
  <2>4. marked' = (marked \/ i0 = "queue") /\ passed' = (passed \/ (i0 = "queue" /\ ~marked /\ Has("clones", "old")))
    BY <1>7, <1>2 DEF Rename, Mark, TypedTree
  <2>5. /\ ~Mine(i0, "v2") /\ Has(i0, from) /\ "absent" \notin tree[i0][from] /\ "torn" \notin tree[i0][from]
        /\ (from = "cflat" => ~Mine(i0, from)) /\ tree[i0][from] \in Content /\ from # "v2"
    BY <1>2, <1>3, <2>1 DEF MigrateInv, RunInv, HandsOff, StillThere, Laid, Has, Mine,
       MineAt, Absent, Moving, TypedTree, Trees, CC
  <2> DEFINE a == run.pairs \ {Pair}
      d == run.done \cup {Step(i0, from, "v2")}
  <2>6. run' = [run EXCEPT !.pc = "loop", !.pairs = a, !.done = d]
    BY <1>7 DEF Rename, Renamed
  <2>7. "loop" \in RunSteps /\ a \in SUBSET Pairs /\ d \in SUBSET Moves
    BY <1>2, <1>3 DEF RunSteps, RunRec, Moves, Copies, CC, Items
  <2>8. /\ a \subseteq run.pairs /\ \A q \in run.pairs : q # Pair => q \in a
        /\ Pair \notin a /\ run.done \subseteq d /\ Step(i0, from, "v2") \in d
        /\ \A s \in d : s \in run.done \/ s = Step(i0, from, "v2")
    OBVIOUS
  <2>9. \A q \in a : PairStep(q) # Step(i0, from, "v2")
    BY <1>2, <1>3 DEF RunRec, Pairs, PairStep, Step
  <2>10. \A j \in Items : Step(j, "flat", "v2") = Step(i0, from, "v2") <=> j = i0 /\ from = "flat"
    BY DEF Step
  <2> HIDE DEF a, d
  <2>11. /\ run' \in RunRec /\ run'.pc = "loop" /\ run'.pairs = a /\ run'.done = d
         /\ run'.root = run.root /\ run'.vault = run.vault /\ run'.contended = run.contended
         /\ run'.claimed = run.claimed /\ run'.prior = run.prior /\ run'.torn = run.torn
         /\ run'.conflicts = run.conflicts /\ run'.named = run.named /\ run'.failed = run.failed
    <3>1. PICK l \in RunSteps : l = "loop"
      BY <2>7
    <3>2. run' = [run EXCEPT !.pc = l, !.pairs = a, !.done = d]
      BY <2>6, <3>1
    <3>3. run \in RunRec /\ a \in SUBSET Pairs /\ d \in SUBSET Moves
      BY <1>2, <2>7
    <3> QED
      BY <3>2, <3>3, <3>1, SetDone, Zenon
  <2>12. Under'
    BY <2>11, UnderRec DEF Under, RunRec, RunSteps, Gathering, Moving, Told, NoRun
  <2>13. claim' \in [ClaimPlaces -> {"none", "live", "stale"}]
    BY <1>3, <1>2, <2>3 DEF ClaimMoved, TypedTree, ClaimPlaces, CC
  <2>14. tree' = [tree EXCEPT ![i0][from] = Absent, ![i0]["v2"] = tree[i0][from]]
    BY <2>2 DEF Moved
  <2>15. i0 \in Items /\ from \in Spots /\ from # "v2" /\ from \in {"flat", "cflat"} /\ (from = "cflat" => i0 = "clones")
    BY <1>3 DEF CC
  <2>16. (from = "cflat" => Pair = CC) /\ (from = "flat" => Pair = [item |-> i0, from |-> "flat"])
    BY <1>3 DEF QF, WF, CF, CC
  <2>17. \A j \in Items : [item |-> j, from |-> "flat"] = Pair => j = i0 /\ from = "flat"
    OBVIOUS
  <2>18. Pair.item = i0 /\ Pair.from = from
    OBVIOUS
  <2>19. \A q \in a : q.item # "journal" => q.item # i0 \/ q.from # from
    BY <2>8, <1>2, <1>3 DEF RunRec, Pairs
  <2> HIDE DEF i0, from
  <2>20. /\ tree' \in Trees /\ tree'[i0][from] = Absent /\ tree'[i0]["v2"] = tree[i0][from]
         /\ \A j \in Items, r \in Spots : j # i0 \/ r \notin {from, "v2"} => tree'[j][r] = tree[j][r]
    <3>1. Absent \in Content /\ "v2" \in Spots
      BY <2>1 DEF Content
    <3> QED
      BY <1>2, <2>14, <2>15, <2>5, <3>1 DEF TypedTree, Trees
  <2>21. /\ "torn" \notin tree'[i0]["v2"] /\ "mine" \notin tree'[i0][from]
         /\ ("mine" \in tree'[i0]["v2"] <=> "mine" \in tree[i0][from])
    BY <2>20, <2>5, <2>1, <2>15 DEF Mine, Absent
  <2>22. \A j \in Items, r \in Spots : "mine" \in tree'[j][r] =>
           "mine" \in tree[j][r] \/ (j = i0 /\ r = "v2" /\ "mine" \in tree[i0][from])
    BY <2>20, <2>21, <2>15
  <2>23. TypedTree'
    BY <1>2, <1>5, <2>20, <2>4, <2>11, <2>12, <2>15, <2>1, <2>5, <2>13 DEF MigrateInv,
       TypedTree
  <2>24. Laid'
    BY <1>2, <1>5, <2>20, <2>4, <2>11, <2>12, <2>15, <2>1, <2>5 DEF MigrateInv, Laid,
       Mine, Absent, MineAt
  <2>25. RootsTell'
    BY <1>2, <1>5, <2>20, <2>4, <2>11, <2>12, <2>15, <2>1, <2>5, <2>21, <2>22 DEF
       MigrateInv, RootsTell, Has, Mine, TornIn, Absent
  <2>26. Journals'
    BY <1>2, <1>5, <2>20, <2>4, <2>11, <2>12, <2>15, <2>1, <2>5 DEF MigrateInv,
       Journals
  <2>27. Shaped'
    BY <1>2, <1>5, <2>20, <2>4, <2>11, <2>12, <2>15, <2>1, <2>5 DEF RunInv, Shaped,
       Before, Gathering, Moving, Told
  <2>28. PairsShaped'
    BY <1>2, <1>5, <2>20, <2>4, <2>11, <2>12, <2>15, <2>1, <2>5, <2>8, <2>9 DEF RunInv,
       PairsShaped, Moving
  <2>29. Remembers'
    BY <1>2, <1>5, <2>20, <2>4, <2>11, <2>12, <2>15, <2>1, <2>5 DEF RunInv, Remembers,
       Before, Gathering, Moving, Told
  <2>30. Sheltered'
    BY <1>2, <1>5, <2>20, <2>4, <2>11, <2>12, <2>15, <2>1, <2>5, <2>8, <2>16, ZenonT(60) DEF
       RunInv, Sheltered, Has, TornIn
  <2>31. HandsOff'
    BY <1>2, <1>5, <2>20, <2>4, <2>11, <2>12, <2>15, <2>1, <2>5, <2>21 DEF RunInv,
       HandsOff, Mine, TornIn, Before, Gathering, Moving, Told
  <2>32. StillThere'
    BY <1>2, <1>5, <2>20, <2>4, <2>11, <2>12, <2>15, <2>1, <2>5, <2>8, <1>4, <2>16,
       <2>19 DEF RunInv, StillThere, Has, TornIn, Moving
  <2>33. QueueIsWhole'
    BY <1>2, <1>5, <2>20, <2>4, <2>11, <2>12, <2>15, <2>1, <2>5, <2>21 DEF RunInv,
       QueueIsWhole, TornIn, Before
  <2>34. DoneIsWhole'
    BY <1>2, <1>5, <2>20, <2>4, <2>11, <2>12, <2>15, <2>1, <2>5, <2>8, <2>10, <2>21 DEF
       RunInv, DoneIsWhole, TornIn
  <2>35. ConflictsTold'
    BY <1>2, <1>5, <2>20, <2>4, <2>11, <2>12, <2>15, <2>1, <2>5, <2>21 DEF RunInv,
       ConflictsTold, TornIn, WasCut
  <2>36. Gathered'
    BY <1>2, <1>5, <2>20, <2>4, <2>11, <2>12, <2>15, <2>1, <2>5, <2>21 DEF RunInv,
       Gathered, Smooth, Filtered, Mine, Has, Before, Gathering, Moving, Told
  <2>37. NoneBehind'
    <3>1. run'.pc = "loop" /\ (Smooth' => Smooth)
      BY <2>11, <2>4, <1>2 DEF Smooth, TypedTree
    <3>2. Smooth => /\ \A j \in Items : "mine" \in tree[j]["flat"] => [item |-> j, from |-> "flat"] \in run.pairs
                    /\ journal["L"].renamed # {} => JL \in run.pairs
      BY <1>2 DEF RunInv, NoneBehind, Filtered, Moving, Mine
    <3>3. \A j \in Items : "mine" \in tree'[j]["flat"] =>
            "mine" \in tree[j]["flat"] /\ [item |-> j, from |-> "flat"] # Pair
      BY <2>22, <2>21, <2>15, <2>1, <2>17
    <3>4. JL # Pair
      BY <1>3 DEF JL, Items
    <3> QED
      BY <3>1, <3>2, <3>3, <3>4, <2>8, <2>11, <1>5 DEF NoneBehind, Mine
  <2>38. RefsFollow'
    BY <1>2, <1>5, <2>20, <2>4, <2>11, <2>12, <2>15, <2>1, <2>5 DEF RunInv, RefsFollow,
       Smooth, Before, Gathering, Moving, Told
  <2>39. TornIsKnown'
    BY <1>2, <1>5, <2>20, <2>4, <2>11, <2>12, <2>15, <2>1, <2>5, <2>21 DEF MigrateInv,
       TornIsKnown, TornKnown, FromVault, TornIn, WasCut, Under, Has, Before,
       Gathering, Moving, Told
  <2>40. Beside'
    BY <1>2, <1>5, <2>20, <2>4, <2>11, <2>12, <2>15, <2>1, <2>5 DEF MigrateInv, Beside, Alone, Excluded, Naming, Smooth,
       Has
  <2>41. ClonesRecorded'
    BY <1>2, <1>5, <2>20, <2>4, <2>11, <2>12, <2>15, <2>1, <2>5, <2>8, <2>21 DEF
       MigrateInv, ClonesRecorded, Mine, Under
  <2>42. NamesRecorded'
    BY <1>2, <1>5, <2>20, <2>4, <2>11, <2>12, <2>15, <2>1, <2>5 DEF MigrateInv,
       NamesRecorded, Naming, Mine
  <2>43. Ends'
    BY <1>2, <1>5, <2>20, <2>4, <2>11, <2>12, <2>15, <2>1, <2>5 DEF MigrateInv, Ends
  <2>44. NothingLost'
    BY <1>2, <1>5, <2>20, <2>4, <2>11, <2>12, <2>15, <2>1, <2>5, <2>21 DEF MigrateInv,
       NothingLost, Mine
  <2>45. CleanMeansUnified'
    BY <1>2, <1>5, <2>20, <2>4, <2>11, <2>12, <2>15, <2>1, <2>5 DEF MigrateInv,
       CleanMeansUnified, Ends, NoEnd
  <2>46. OthersStand
    <3> SUFFICES ASSUME ~raced' PROVE OthersStand
      BY DEF OthersStand
    <3>1. tree[i0]["v2"] = Absent
      BY <1>5, <1>2, <2>18 DEF MigrateInv, Beside, Alone, Excluded, Naming, Smooth, Has
    <3>2. ~({"mine", "news"} \subseteq tree[i0][from])
      BY <2>15 DEF MigrateInv, Laid
    <3>3. /\ "news" \notin tree[i0]["v2"] /\ "news" \notin tree'[i0][from]
          /\ "news" \in tree[i0][from] <=> "news" \in tree'[i0]["v2"]
          /\ ~({"mine", "news"} \subseteq tree'[i0]["v2"])
      BY <2>20, <3>1, <3>2 DEF Absent
    <3>4. \A j \in Items, r \in Spots : j # i0 \/ r \notin {from, "v2"} => tree'[j][r] = tree[j][r]
      BY <2>20
    <3> QED
      BY <3>3, <3>4, <2>15, SwapStands, ZenonT(60)
  <2> QED
    BY <2>23, <2>24, <2>25, <2>26, <2>27, <2>28, <2>29, <2>30, <2>31, <2>32, <2>33,
       <2>34, <2>35, <2>36, <2>37, <2>38, <2>39, <2>40, <2>41, <2>42, <2>43, <2>44,
       <2>45, <2>46 DEF MigrateInv, RunInv
<1> QED
  BY <1>6, <1>7

\* A copy under way: torn at the destination, whole at the source, and the run
\* that makes it is the only one that moves this item.
LEMMA CopyBeginsKeeps ==
  ASSUME MigrateInv, CopyBegins PROVE MigrateInv' /\ OthersStand
<1>1. /\ run \in RunRec /\ Under /\ RunInv /\ TypedTree
      /\ run.pc = "rename"
  BY UnderRec DEF MigrateInv, CopyBegins, RunAt
<1>2. /\ run \in RunRec /\ Under /\ RunInv /\ TypedTree
      /\ run.pc = "rename" /\ run.pairs # {} /\ Pair.item # "journal"
  BY <1>1 DEF RunInv, PairsShaped, Moving
<1>3. /\ Pair \in run.pairs /\ Pair \in Pairs /\ Pair.item \in Items
      /\ Pair.from \in {"flat", "cflat"} /\ Pair.from \in Spots
      /\ Pair \in {QF, WF, CC, CF} /\ (Pair.from = "cflat" => Pair = CC)
  BY <1>2, PairIn DEF RunRec, Pairs, Items, Spots, QF, WF, CC, CF
<1>4. \A q \in run.pairs : q.item # "journal" => q.item \in Items /\ q.from \in Spots /\ q.from # "v2"
  BY <1>2 DEF RunRec, Pairs, Items, Spots
<1>5. /\ UNCHANGED <<ref, lock, vaultRoot, across, legacyThere, daemon, last, cut, warned,
                     starts, faults, journal, claim>>
      /\ raced' = (raced \/ daemon.pc # "down")
  BY DEF CopyBegins, Acting, NoFault
<1> DEFINE i0 == Pair.item
    from == Pair.from
<1>6. Items = {"queue", "watch", "clones"} /\ Spots = {"vault", "old", "flat", "cflat", "v2"}
  BY DEF Items, Spots
<1>7. from = "flat" /\ across
  BY <1>3 DEF CopyBegins, Crosses
<1>8. i0 \in Items /\ from = "flat" /\ from \in Spots /\ "v2" \in Spots
  BY <1>3, <1>7, <1>6
<1>9. /\ Pair = [item |-> i0, from |-> "flat"] /\ PairStep(Pair) = Step(i0, "flat", "v2")
      /\ \A q \in run.pairs : PairStep(q) \notin run.done
      /\ (i0 = "clones" <=> Pair = CF)
  BY <1>3, <1>7, <1>2 DEF QF, WF, CF, CC, PairStep, Step, RunInv, PairsShaped
<1>10. /\ ~Spoken /\ (i0 = "queue" => ~run.claimed) /\ i0 \notin run.contended
       /\ i0 \notin run.conflicts
       /\ (i0 = "clones" => ~Has("clones", "cflat"))
  <2>1. ~Spoken
    BY <1>2 DEF RunInv, PairsShaped, Moving
  <2>2. (i0 = "queue" => ~run.claimed) /\ i0 \notin run.contended
    BY <2>1, <1>7 DEF Spoken
  <2>3. i0 \notin run.conflicts
    BY <1>2, <1>3, <2>2 DEF RunInv, PairsShaped, CF
  <2>4. i0 = "clones" => ~Has("clones", "cflat")
    BY <1>2, <1>3, <1>9, <2>2 DEF RunInv, Sheltered
  <2> QED
    BY <2>1, <2>2, <2>3, <2>4
<1> DEFINE v == IF IsFile(i0) THEN {"torn"} ELSE (tree[i0]["v2"] \ Absent) \cup {"torn"}
<1>11. tree' = [tree EXCEPT ![i0]["v2"] = v]
  BY DEF CopyBegins
<1>12. marked' = (marked \/ i0 = "queue") /\ passed' = (passed \/ (i0 = "queue" /\ ~marked /\ Has("clones", "old")))
  BY <1>2 DEF CopyBegins, Mark, TypedTree
<1>13. run' = [run EXCEPT !.pc = "copy"]
  BY <1>2 DEF CopyBegins, Go
<1>14. "copy" \in RunSteps
  BY DEF RunSteps, Gathering, Moving, Told
<1>15. /\ run' \in RunRec /\ run'.pc = "copy"
       /\ run'.root = run.root /\ run'.vault = run.vault /\ run'.pairs = run.pairs
       /\ run'.contended = run.contended /\ run'.claimed = run.claimed /\ run'.prior = run.prior
       /\ run'.done = run.done /\ run'.torn = run.torn /\ run'.conflicts = run.conflicts
       /\ run'.named = run.named /\ run'.failed = run.failed
  BY <1>2, <1>13, <1>14, SetPc
<1>16. Pair' = Pair /\ Spoken' = Spoken
  BY <1>15 DEF Pair, Spoken
<1>17. Under'
  BY <1>15, UnderRec DEF Under, RunRec, RunSteps, Gathering, Moving, Told, NoRun
<1>18. ~Mine(i0, "v2") /\ tree[i0]["v2"] \in Content
  BY <1>2, <1>8 DEF RunInv, HandsOff, TypedTree, Trees
<1>19. /\ v \in Content /\ "torn" \in v /\ "absent" \notin v /\ "mine" \notin v
       /\ (tree[i0]["v2"] = Absent => v = {"torn"})
  BY <1>18 DEF Content, Absent, Mine
<1>20. Step(i0, "flat", "v2") \notin run.done
  BY <1>9, <1>3
<1>21. Pair.item = i0 /\ Pair.from = from
  OBVIOUS
<1> HIDE DEF i0, from, v
<1>22. /\ tree' \in Trees /\ tree'[i0]["v2"] = v
       /\ \A j \in Items, r \in Spots : j # i0 \/ r # "v2" => tree'[j][r] = tree[j][r]
  BY <1>2, <1>11, <1>8, <1>19 DEF TypedTree, Trees
<1>23. \A j \in Items, r \in Spots : "mine" \in tree'[j][r] <=> "mine" \in tree[j][r]
  BY <1>22, <1>18, <1>19 DEF Mine
<1>24. TypedTree'
  BY <1>2, <1>5, <1>22, <1>19, <1>12, <1>15, <1>17, <1>8, <1>6 DEF MigrateInv, TypedTree
<1>25. Laid'
  BY <1>2, <1>5, <1>22, <1>19, <1>12, <1>15, <1>17, <1>8, <1>6, <1>7, <1>23 DEF
     MigrateInv, Laid, Mine
<1>26. RootsTell'
  BY <1>2, <1>5, <1>22, <1>19, <1>12, <1>15, <1>17, <1>8, <1>6, <1>10, <1>23 DEF
     MigrateInv, RootsTell, Has, Mine, TornIn
<1>27. Journals'
  BY <1>2, <1>5, <1>22, <1>19, <1>12, <1>15, <1>17, <1>8, <1>6 DEF MigrateInv, Journals
<1>28. Shaped'
  BY <1>2, <1>5, <1>22, <1>19, <1>12, <1>15, <1>17, <1>8, <1>6 DEF RunInv, Shaped,
     Before, Gathering, Moving, Told
<1>29. PairsShaped'
  BY <1>2, <1>5, <1>22, <1>19, <1>12, <1>15, <1>17, <1>8, <1>6, <1>16, <1>21, <1>7,
     <1>10, <1>3 DEF RunInv, PairsShaped, Moving
<1>30. Remembers'
  BY <1>2, <1>5, <1>22, <1>19, <1>12, <1>15, <1>17, <1>8, <1>6 DEF RunInv, Remembers,
     Before, Gathering, Moving, Told
<1>31. Sheltered'
  BY <1>2, <1>5, <1>22, <1>19, <1>12, <1>15, <1>17, <1>8, <1>6, <1>10, ZenonT(60) DEF RunInv,
     Sheltered, Has, TornIn
<1>32. HandsOff'
  BY <1>2, <1>5, <1>22, <1>19, <1>12, <1>15, <1>17, <1>8, <1>6, <1>16, <1>21, <1>23 DEF
     RunInv, HandsOff, Mine, TornIn, Before, Gathering, Moving, Told
<1>33. StillThere'
  BY <1>2, <1>5, <1>22, <1>19, <1>12, <1>15, <1>17, <1>8, <1>6, <1>16, <1>21, <1>4 DEF
     RunInv, StillThere, Has, TornIn, Moving
<1>34. QueueIsWhole'
  BY <1>2, <1>5, <1>22, <1>19, <1>12, <1>15, <1>17, <1>8, <1>6, <1>10 DEF RunInv,
     QueueIsWhole, TornIn, Before
<1>35. DoneIsWhole'
  BY <1>2, <1>5, <1>22, <1>19, <1>12, <1>15, <1>17, <1>8, <1>6, <1>20 DEF RunInv,
     DoneIsWhole, TornIn
<1>36. ConflictsTold'
  BY <1>2, <1>5, <1>22, <1>19, <1>12, <1>15, <1>17, <1>8, <1>6, <1>10 DEF RunInv,
     ConflictsTold, TornIn, WasCut
<1>37. Gathered'
  BY <1>2, <1>5, <1>22, <1>19, <1>12, <1>15, <1>17, <1>8, <1>6, <1>23 DEF RunInv,
     Gathered, Smooth, Filtered, Mine, Has, Before, Gathering, Moving, Told
<1>38. NoneBehind'
  BY <1>2, <1>5, <1>22, <1>19, <1>12, <1>15, <1>17, <1>8, <1>6, <1>23 DEF RunInv,
     NoneBehind, Smooth, Filtered, Mine, Before, Gathering, Moving, Told
<1>39. RefsFollow'
  BY <1>2, <1>5, <1>22, <1>19, <1>12, <1>15, <1>17, <1>8, <1>6 DEF RunInv, RefsFollow,
     Smooth, Before, Gathering, Moving, Told
<1>40. TornIsKnown'
  BY <1>2, <1>5, <1>22, <1>19, <1>12, <1>15, <1>17, <1>8, <1>6, <1>16, <1>21 DEF
     MigrateInv, TornIsKnown, TornKnown, FromVault, TornIn, WasCut, Under, Has, Before,
     Gathering, Moving, Told
<1>41. Beside'
  BY <1>2, <1>5, <1>22, <1>19, <1>12, <1>15, <1>17, <1>8, <1>6, <1>16, <1>21 DEF
     MigrateInv, Beside, Alone, Excluded, Naming, Smooth, Has
<1>42. ClonesRecorded'
  BY <1>2, <1>5, <1>22, <1>19, <1>12, <1>15, <1>17, <1>8, <1>6, <1>23 DEF MigrateInv,
     ClonesRecorded, Mine, Under
<1>43. NamesRecorded'
  BY <1>2, <1>5, <1>22, <1>19, <1>12, <1>15, <1>17, <1>8, <1>6, <1>23 DEF MigrateInv,
     NamesRecorded, Naming, Mine
<1>44. Ends'
  BY <1>2, <1>5, <1>22, <1>19, <1>12, <1>15, <1>17, <1>8, <1>6 DEF MigrateInv, Ends
<1>45. NothingLost'
  BY <1>2, <1>5, <1>22, <1>19, <1>12, <1>15, <1>17, <1>8, <1>6, <1>23 DEF MigrateInv,
     NothingLost
<1>46. CleanMeansUnified'
  BY <1>2, <1>5, <1>22, <1>19, <1>12, <1>15, <1>17, <1>8, <1>6, <1>23 DEF MigrateInv,
     CleanMeansUnified, Ends, NoEnd
<1>47. OthersStand
  <2> SUFFICES ASSUME ~raced' PROVE OthersStand
    BY DEF OthersStand
  <2>1. tree[i0]["v2"] = Absent
    BY <1>5, <1>2, <1>21 DEF MigrateInv, Beside, Alone, Excluded, Naming, Smooth, Has
  <2> QED
    BY <1>22, <2>1, <1>19, QuietStands DEF Absent
<1> QED
  BY <1>24, <1>25, <1>26, <1>27, <1>28, <1>29, <1>30, <1>31, <1>32, <1>33, <1>34,
     <1>35, <1>36, <1>37, <1>38, <1>39, <1>40, <1>41, <1>42, <1>43, <1>44, <1>45,
     <1>46, <1>47 DEF MigrateInv, RunInv

\* Whole at the destination before the source goes.
LEMMA CopyDoneKeeps ==
  ASSUME MigrateInv, CopyDone PROVE MigrateInv' /\ OthersStand
<1>1. /\ run \in RunRec /\ Under /\ RunInv /\ TypedTree
      /\ run.pc = "copy"
  BY UnderRec DEF MigrateInv, CopyDone, RunAt
<1>2. /\ run \in RunRec /\ Under /\ RunInv /\ TypedTree
      /\ run.pc = "copy" /\ run.pairs # {} /\ Pair.item # "journal"
  BY <1>1 DEF RunInv, PairsShaped, Moving
<1>3. /\ Pair \in run.pairs /\ Pair \in Pairs /\ Pair.item \in Items
      /\ Pair.from \in {"flat", "cflat"} /\ Pair.from \in Spots
      /\ Pair \in {QF, WF, CC, CF} /\ (Pair.from = "cflat" => Pair = CC)
  BY <1>2, PairIn DEF RunRec, Pairs, Items, Spots, QF, WF, CC, CF
<1>4. \A q \in run.pairs : q.item # "journal" => q.item \in Items /\ q.from \in Spots /\ q.from # "v2"
  BY <1>2 DEF RunRec, Pairs, Items, Spots
<1>5. /\ UNCHANGED <<ref, lock, vaultRoot, across, legacyThere, daemon, last, cut, warned,
                     starts, faults, journal, marked, passed>>
      /\ raced' = (raced \/ daemon.pc # "down")
  BY DEF CopyDone, Acting, NoFault
<1> DEFINE i0 == Pair.item
    from == Pair.from
<1>6. Items = {"queue", "watch", "clones"} /\ Spots = {"vault", "old", "flat", "cflat", "v2"}
  BY DEF Items, Spots
<1>7. from = "flat"
  BY <1>2 DEF RunInv, PairsShaped, Moving
<1>8. i0 \in Items /\ from = "flat" /\ from \in Spots /\ "v2" \in Spots
  BY <1>3, <1>7, <1>6
<1>9. /\ Pair = [item |-> i0, from |-> "flat"] /\ PairStep(Pair) = Step(i0, "flat", "v2")
      /\ \A q \in run.pairs : PairStep(q) \notin run.done
      /\ (i0 = "clones" <=> Pair = CF)
  BY <1>3, <1>7, <1>2 DEF QF, WF, CF, CC, PairStep, Step, RunInv, PairsShaped
<1> DEFINE v == (tree[i0]["v2"] \ {"torn"}) \cup tree[i0][from]
<1>10. tree' = [tree EXCEPT ![i0]["v2"] = v, ![i0][from] = {"rest"}]
  BY DEF CopyDone
<1>11. claim' = ClaimMoved(i0, from, "v2")
  BY DEF CopyDone
<1>12. claim' \in [ClaimPlaces -> {"none", "live", "stale"}]
  BY <1>7, <1>2, <1>11 DEF ClaimMoved, TypedTree, ClaimPlaces
<1>13. run' = [run EXCEPT !.pc = "remove"]
  BY <1>2 DEF CopyDone, Go
<1>14. "remove" \in RunSteps
  BY DEF RunSteps, Gathering, Moving, Told
<1>15. /\ run' \in RunRec /\ run'.pc = "remove"
       /\ run'.root = run.root /\ run'.vault = run.vault /\ run'.pairs = run.pairs
       /\ run'.contended = run.contended /\ run'.claimed = run.claimed /\ run'.prior = run.prior
       /\ run'.done = run.done /\ run'.torn = run.torn /\ run'.conflicts = run.conflicts
       /\ run'.named = run.named /\ run'.failed = run.failed
  BY <1>2, <1>13, <1>14, SetPc
<1>16. Pair' = Pair /\ Spoken' = Spoken
  BY <1>15 DEF Pair, Spoken
<1>17. Under'
  BY <1>15, UnderRec DEF Under, RunRec, RunSteps, Gathering, Moving, Told, NoRun
<1>18. /\ ~Mine(i0, "v2") /\ TornIn(i0) /\ Has(i0, from) /\ tree[i0]["v2"] \in Content /\ tree[i0][from] \in Content
       /\ "absent" \notin tree[i0]["v2"] /\ "absent" \notin tree[i0][from] /\ "torn" \notin tree[i0][from]
  BY <1>2, <1>8, <1>6, <1>3 DEF MigrateInv, RunInv, HandsOff, StillThere, Laid, Has,
     TornIn, Absent, TypedTree, Trees, Moving
<1>19. /\ v \in Content /\ "torn" \notin v /\ "absent" \notin v /\ ("mine" \in v <=> "mine" \in tree[i0][from]) /\ {"rest"} \in Content
  BY <1>18 DEF Content, Absent, Mine
<1>20. "news" \notin tree[i0]["v2"] => ("news" \in v <=> "news" \in tree[i0][from])
  OBVIOUS
<1>21. Pair.item = i0 /\ Pair.from = from
  OBVIOUS
<1> HIDE DEF i0, from, v
<1>22. /\ tree' \in Trees /\ tree'[i0]["v2"] = v /\ tree'[i0]["flat"] = {"rest"}
       /\ \A j \in Items, r \in Spots : j # i0 \/ r \notin {"flat", "v2"} => tree'[j][r] = tree[j][r]
  BY <1>2, <1>10, <1>8, <1>19 DEF TypedTree, Trees
<1>23. \A j \in Items, r \in Spots : "mine" \in tree'[j][r] =>
         "mine" \in tree[j][r] \/ (j = i0 /\ r = "v2" /\ "mine" \in tree[i0]["flat"])
  BY <1>22, <1>18, <1>19, <1>8 DEF Mine
<1>24. tree'[Pair.item'][Pair.from'] = {"rest"}
  BY <1>16, <1>21, <1>22, <1>8
<1>25. \A j \in Items, r \in Spots : "mine" \in tree[j][r] =>
         "mine" \in tree'[j][r] \/ "mine" \in tree'[j]["v2"]
  BY <1>22, <1>18, <1>19, <1>8 DEF Mine
<1>26. TypedTree'
  BY <1>2, <1>5, <1>22, <1>19, <1>15, <1>17, <1>8, <1>6, <1>12 DEF MigrateInv, TypedTree
<1>27. Laid'
  BY <1>2, <1>5, <1>22, <1>19, <1>15, <1>17, <1>8, <1>6, <1>23 DEF MigrateInv, Laid,
     Mine, Absent, MineAt
<1>28. RootsTell'
  BY <1>2, <1>5, <1>22, <1>19, <1>15, <1>17, <1>8, <1>6, <1>23 DEF MigrateInv,
     RootsTell, Has, Mine, TornIn, Absent
<1>29. Journals'
  BY <1>2, <1>5, <1>22, <1>19, <1>15, <1>17, <1>8, <1>6 DEF MigrateInv, Journals
<1>30. Shaped'
  BY <1>2, <1>5, <1>22, <1>19, <1>15, <1>17, <1>8, <1>6 DEF RunInv, Shaped, Before,
     Gathering, Moving, Told
<1>31. PairsShaped'
  BY <1>2, <1>5, <1>22, <1>19, <1>15, <1>17, <1>8, <1>6, <1>16, <1>21, <1>3 DEF RunInv,
     PairsShaped, Moving
<1>32. Remembers'
  BY <1>2, <1>5, <1>22, <1>19, <1>15, <1>17, <1>8, <1>6 DEF RunInv, Remembers, Before,
     Gathering, Moving, Told
<1>33. Sheltered'
  BY <1>2, <1>5, <1>22, <1>19, <1>15, <1>17, <1>8, <1>6 DEF RunInv, Sheltered, Has,
     TornIn
<1>34. HandsOff'
  BY <1>2, <1>5, <1>22, <1>19, <1>15, <1>17, <1>8, <1>6, <1>16, <1>21, <1>23 DEF
     RunInv, HandsOff, Mine, TornIn, Before, Gathering, Moving, Told
<1>35. StillThere'
  BY <1>2, <1>5, <1>22, <1>19, <1>15, <1>17, <1>8, <1>6, <1>16, <1>21, <1>4 DEF RunInv,
     StillThere, Has, TornIn, Moving, Absent
<1>36. QueueIsWhole'
  BY <1>2, <1>5, <1>22, <1>19, <1>15, <1>17, <1>8, <1>6 DEF RunInv, QueueIsWhole,
     TornIn, Before
<1>37. DoneIsWhole'
  BY <1>2, <1>5, <1>22, <1>19, <1>15, <1>17, <1>8, <1>6 DEF RunInv, DoneIsWhole, TornIn
<1>38. ConflictsTold'
  BY <1>2, <1>5, <1>22, <1>19, <1>15, <1>17, <1>8, <1>6 DEF RunInv, ConflictsTold,
     TornIn, WasCut
<1>39. Gathered'
  BY <1>2, <1>5, <1>22, <1>19, <1>15, <1>17, <1>8, <1>6, <1>23 DEF RunInv, Gathered,
     Smooth, Filtered, Mine, Has, Before, Gathering, Moving, Told
<1>40. NoneBehind'
  BY <1>2, <1>5, <1>22, <1>19, <1>15, <1>17, <1>8, <1>6, <1>23 DEF RunInv, NoneBehind,
     Smooth, Filtered, Mine, Before, Gathering, Moving, Told
<1>41. RefsFollow'
  BY <1>2, <1>5, <1>22, <1>19, <1>15, <1>17, <1>8, <1>6 DEF RunInv, RefsFollow, Smooth,
     Before, Gathering, Moving, Told
<1>42. TornIsKnown'
  BY <1>2, <1>5, <1>22, <1>19, <1>15, <1>17, <1>8, <1>6, <1>16, <1>21 DEF MigrateInv,
     TornIsKnown, TornKnown, FromVault, TornIn, WasCut, Under, Has, Before, Gathering,
     Moving, Told
<1>43. Beside'
  BY <1>2, <1>5, <1>22, <1>19, <1>15, <1>17, <1>8, <1>6, <1>24 DEF MigrateInv, Beside, Alone, Excluded, Naming, Smooth,
     Has
<1>44. ClonesRecorded'
  BY <1>2, <1>5, <1>22, <1>19, <1>15, <1>17, <1>8, <1>6, <1>23, <1>16, <1>9 DEF
     MigrateInv, ClonesRecorded, Mine, Under
<1>45. NamesRecorded'
  BY <1>2, <1>5, <1>22, <1>19, <1>15, <1>17, <1>8, <1>6 DEF MigrateInv, NamesRecorded, Naming,
     Mine
<1>46. Ends'
  BY <1>2, <1>5, <1>22, <1>19, <1>15, <1>17, <1>8, <1>6 DEF MigrateInv, Ends
<1>47. NothingLost'
  BY <1>2, <1>5, <1>22, <1>19, <1>15, <1>17, <1>8, <1>6, <1>25 DEF MigrateInv,
     NothingLost, Mine
<1>48. CleanMeansUnified'
  BY <1>2, <1>5, <1>22, <1>19, <1>15, <1>17, <1>8, <1>6 DEF MigrateInv,
     CleanMeansUnified, Ends, NoEnd
<1>49. OthersStand
  <2> SUFFICES ASSUME ~raced' PROVE OthersStand
    BY DEF OthersStand
  <2>1. tree[i0]["v2"] = {"torn"}
    BY <1>5, <1>2, <1>21 DEF MigrateInv, Beside, Alone
  <2>2. ~({"mine", "news"} \subseteq tree[i0]["flat"])
    BY <1>8, <1>6 DEF MigrateInv, Laid
  <2>3. /\ "news" \notin tree[i0]["v2"] /\ "news" \notin tree'[i0][from]
        /\ "news" \in tree[i0][from] <=> "news" \in tree'[i0]["v2"]
        /\ ~({"mine", "news"} \subseteq tree'[i0]["v2"])
    BY <1>22, <1>8, <1>19, <1>20, <2>1, <2>2
  <2>4. \A j \in Items, r \in Spots : j # i0 \/ r \notin {from, "v2"} => tree'[j][r] = tree[j][r]
    BY <1>22, <1>8
  <2>5. from # "v2"
    BY <1>8
  <2> QED
    BY <1>8, <2>3, <2>4, <2>5, SwapStands, ZenonT(60)
<1> QED
  BY <1>26, <1>27, <1>28, <1>29, <1>30, <1>31, <1>32, <1>33, <1>34, <1>35, <1>36,
     <1>37, <1>38, <1>39, <1>40, <1>41, <1>42, <1>43, <1>44, <1>45, <1>46, <1>47,
     <1>48, <1>49 DEF MigrateInv, RunInv

LEMMA RemoveSourceKeeps ==
  ASSUME MigrateInv, RemoveSource PROVE MigrateInv' /\ OthersStand
<1>1. /\ run \in RunRec /\ Under /\ RunInv /\ TypedTree
      /\ run.pc = "remove"
  BY UnderRec DEF MigrateInv, RemoveSource, RunAt
<1>2. /\ run \in RunRec /\ Under /\ RunInv /\ TypedTree
      /\ run.pc = "remove" /\ run.pairs # {} /\ Pair.item # "journal"
  BY <1>1 DEF RunInv, PairsShaped, Moving
<1>3. /\ Pair \in run.pairs /\ Pair \in Pairs /\ Pair.item \in Items
      /\ Pair.from \in {"flat", "cflat"} /\ Pair.from \in Spots
      /\ Pair \in {QF, WF, CC, CF} /\ (Pair.from = "cflat" => Pair = CC)
  BY <1>2, PairIn DEF RunRec, Pairs, Items, Spots, QF, WF, CC, CF
<1>4. \A q \in run.pairs : q.item # "journal" => q.item \in Items /\ q.from \in Spots /\ q.from # "v2"
  BY <1>2 DEF RunRec, Pairs, Items, Spots
<1>5. /\ UNCHANGED <<ref, lock, vaultRoot, across, legacyThere, daemon, last, cut, warned,
                     starts, faults, journal, claim, marked, passed>>
      /\ raced' = (raced \/ daemon.pc # "down")
  BY DEF RemoveSource, Acting, NoFault
<1> DEFINE i0 == Pair.item
    from == Pair.from
<1>6. Items = {"queue", "watch", "clones"} /\ Spots = {"vault", "old", "flat", "cflat", "v2"}
  BY DEF Items, Spots
<1>7. from = "flat"
  BY <1>2 DEF RunInv, PairsShaped, Moving
<1>8. i0 \in Items /\ from = "flat" /\ from \in Spots /\ "v2" \in Spots
  BY <1>3, <1>7, <1>6
<1>9. /\ Pair = [item |-> i0, from |-> "flat"] /\ PairStep(Pair) = Step(i0, "flat", "v2")
      /\ \A q \in run.pairs : PairStep(q) \notin run.done
      /\ (i0 = "clones" <=> Pair = CF)
  BY <1>3, <1>7, <1>2 DEF QF, WF, CF, CC, PairStep, Step, RunInv, PairsShaped
<1>10. tree' = [tree EXCEPT ![i0][from] = Absent]
  BY DEF RemoveSource
<1> DEFINE a == run.pairs \ {Pair}
    d == run.done \cup {Step(i0, from, "v2")}
<1>11. run' = [run EXCEPT !.pc = "loop", !.pairs = a, !.done = d]
  BY DEF RemoveSource, Renamed
<1>12. "loop" \in RunSteps /\ a \in SUBSET Pairs /\ d \in SUBSET Moves
  BY <1>2, <1>3 DEF RunSteps, RunRec, Moves, Copies, CC, Items
<1>13. /\ a \subseteq run.pairs /\ \A q \in run.pairs : q # Pair => q \in a
       /\ Pair \notin a /\ run.done \subseteq d /\ Step(i0, from, "v2") \in d
       /\ \A s \in d : s \in run.done \/ s = Step(i0, from, "v2")
  OBVIOUS
<1>14. \A q \in a : PairStep(q) # Step(i0, from, "v2")
  BY <1>2, <1>3 DEF RunRec, Pairs, PairStep, Step
<1>15. \A j \in Items : Step(j, "flat", "v2") = Step(i0, from, "v2") <=> j = i0 /\ from = "flat"
  BY DEF Step
<1> HIDE DEF a, d
<1>16. /\ run' \in RunRec /\ run'.pc = "loop" /\ run'.pairs = a /\ run'.done = d
       /\ run'.root = run.root /\ run'.vault = run.vault /\ run'.contended = run.contended
       /\ run'.claimed = run.claimed /\ run'.prior = run.prior /\ run'.torn = run.torn
       /\ run'.conflicts = run.conflicts /\ run'.named = run.named /\ run'.failed = run.failed
  <2>1. PICK l \in RunSteps : l = "loop"
    BY <1>12
  <2>2. run' = [run EXCEPT !.pc = l, !.pairs = a, !.done = d]
    BY <1>11, <2>1
  <2>3. run \in RunRec /\ a \in SUBSET Pairs /\ d \in SUBSET Moves
    BY <1>2, <1>12
  <2> QED
    BY <2>2, <2>3, <2>1, SetDone, Zenon
<1>17. Under'
  BY <1>16, UnderRec DEF Under, RunRec, RunSteps, Gathering, Moving, Told, NoRun
<1>18. ~Mine(i0, "flat") /\ ~TornIn(i0)
  BY <1>2, <1>7 DEF RunInv, HandsOff
<1>19. \A q \in a : q.item # "journal" => q.item # i0 \/ q.from # from
  BY <1>13, <1>2, <1>3 DEF RunRec, Pairs
<1>20. JL # Pair
  BY <1>3 DEF JL, Items
<1>21. \A j \in Items : [item |-> j, from |-> "flat"] = Pair => j = i0
  OBVIOUS
<1>22. Pair.item = i0 /\ Pair.from = from
  OBVIOUS
<1> HIDE DEF i0, from
<1>23. /\ tree' \in Trees /\ tree'[i0]["flat"] = Absent
       /\ \A j \in Items, r \in Spots : j # i0 \/ r # "flat" => tree'[j][r] = tree[j][r]
  <2>1. Absent \in Content
    BY DEF Content
  <2> QED
    BY <1>2, <1>10, <1>8, <2>1 DEF TypedTree, Trees
<1>24. \A j \in Items, r \in Spots, m \in {"mine", "torn"} : m \in tree'[j][r] => m \in tree[j][r]
  BY <1>23, <1>8 DEF Absent
<1>25. \A j \in Items, r \in Spots : "mine" \in tree'[j][r] <=> "mine" \in tree[j][r]
  BY <1>23, <1>18 DEF Mine, Absent
<1>26. TypedTree'
  BY <1>2, <1>5, <1>23, <1>16, <1>17, <1>8, <1>6, <1>18, <1>24, <1>25 DEF MigrateInv,
     TypedTree
<1>27. Laid'
  BY <1>2, <1>5, <1>23, <1>16, <1>17, <1>8, <1>6, <1>18, <1>24, <1>25 DEF MigrateInv,
     Laid, Mine, Absent
<1>28. RootsTell'
  BY <1>2, <1>5, <1>23, <1>16, <1>17, <1>8, <1>6, <1>18, <1>24, <1>25 DEF MigrateInv,
     RootsTell, Has, Mine, TornIn, Absent
<1>29. Journals'
  BY <1>2, <1>5, <1>23, <1>16, <1>17, <1>8, <1>6, <1>18, <1>24, <1>25 DEF MigrateInv,
     Journals
<1>30. Shaped'
  BY <1>2, <1>5, <1>23, <1>16, <1>17, <1>8, <1>6, <1>18, <1>24, <1>25 DEF RunInv,
     Shaped, Before, Gathering, Moving, Told
<1>31. PairsShaped'
  BY <1>2, <1>5, <1>23, <1>16, <1>17, <1>8, <1>6, <1>18, <1>24, <1>25, <1>13, <1>14 DEF
     RunInv, PairsShaped, Moving
<1>32. Remembers'
  BY <1>2, <1>5, <1>23, <1>16, <1>17, <1>8, <1>6, <1>18, <1>24, <1>25 DEF RunInv,
     Remembers, Before, Gathering, Moving, Told
<1>33. Sheltered'
  BY <1>2, <1>5, <1>23, <1>16, <1>17, <1>8, <1>6, <1>18, <1>24, <1>25, <1>13 DEF
     RunInv, Sheltered, Has, TornIn
<1>34. HandsOff'
  BY <1>2, <1>5, <1>23, <1>16, <1>17, <1>8, <1>6, <1>18, <1>24, <1>25 DEF RunInv,
     HandsOff, Mine, TornIn, Before, Gathering, Moving, Told
<1>35. StillThere'
  BY <1>2, <1>5, <1>23, <1>16, <1>17, <1>8, <1>6, <1>18, <1>24, <1>25, <1>13, <1>4,
     <1>19 DEF RunInv, StillThere, Has, TornIn, Moving
<1>36. QueueIsWhole'
  BY <1>2, <1>5, <1>23, <1>16, <1>17, <1>8, <1>6, <1>18, <1>24, <1>25 DEF RunInv,
     QueueIsWhole, TornIn, Before
<1>37. DoneIsWhole'
  BY <1>2, <1>5, <1>23, <1>16, <1>17, <1>8, <1>6, <1>18, <1>24, <1>25, <1>13, <1>15 DEF
     RunInv, DoneIsWhole, TornIn
<1>38. ConflictsTold'
  BY <1>2, <1>5, <1>23, <1>16, <1>17, <1>8, <1>6, <1>18, <1>24, <1>25 DEF RunInv,
     ConflictsTold, TornIn, WasCut
<1>39. Gathered'
  BY <1>2, <1>5, <1>23, <1>16, <1>17, <1>8, <1>6, <1>18, <1>24, <1>25 DEF RunInv,
     Gathered, Smooth, Filtered, Mine, Has, Before, Gathering, Moving, Told
<1>40. NoneBehind'
  <2>1. run'.pc = "loop" /\ (Smooth' => Smooth)
    BY <1>16, <1>5, <1>2 DEF Smooth, TypedTree
  <2>2. Smooth =>
        /\ \A j \in Items : "mine" \in tree[j]["flat"] => [item |-> j, from |-> "flat"] \in run.pairs
        /\ journal["L"].renamed # {} => JL \in run.pairs
    BY <1>2 DEF RunInv, NoneBehind, Filtered, Moving, Mine
  <2>3. \A j \in Items : "mine" \in tree'[j]["flat"] =>
          "mine" \in tree[j]["flat"] /\ [item |-> j, from |-> "flat"] # Pair
    BY <1>24, <1>23, <1>8, <1>6, <1>21 DEF Absent
  <2> QED
    BY <2>1, <2>2, <2>3, <1>20, <1>13, <1>16, <1>5 DEF NoneBehind, Mine
<1>41. RefsFollow'
  BY <1>2, <1>5, <1>23, <1>16, <1>17, <1>8, <1>6, <1>18, <1>24, <1>25 DEF RunInv,
     RefsFollow, Smooth, Before, Gathering, Moving, Told
<1>42. TornIsKnown'
  BY <1>2, <1>5, <1>23, <1>16, <1>17, <1>8, <1>6, <1>18, <1>24, <1>25 DEF MigrateInv,
     TornIsKnown, TornKnown, FromVault, TornIn, WasCut, Under, Has, Before, Gathering,
     Moving, Told
<1>43. Beside'
  BY <1>2, <1>5, <1>23, <1>16, <1>17, <1>8, <1>6, <1>18, <1>24, <1>25 DEF MigrateInv,
     Beside, Alone, Excluded, Naming, Smooth, Has
<1>44. ClonesRecorded'
  BY <1>2, <1>5, <1>23, <1>16, <1>17, <1>8, <1>6, <1>18, <1>24, <1>25, <1>13, <1>9 DEF
     MigrateInv, ClonesRecorded, Mine, Under
<1>45. NamesRecorded'
  BY <1>2, <1>5, <1>23, <1>16, <1>17, <1>8, <1>6, <1>18, <1>24, <1>25 DEF MigrateInv,
     NamesRecorded, Naming, Mine
<1>46. Ends'
  BY <1>2, <1>5, <1>23, <1>16, <1>17, <1>8, <1>6, <1>18, <1>24, <1>25 DEF MigrateInv,
     Ends
<1>47. NothingLost'
  BY <1>2, <1>5, <1>23, <1>16, <1>17, <1>8, <1>6, <1>18, <1>24, <1>25 DEF MigrateInv,
     NothingLost
<1>48. CleanMeansUnified'
  BY <1>2, <1>5, <1>23, <1>16, <1>17, <1>8, <1>6, <1>18, <1>24, <1>25 DEF MigrateInv,
     CleanMeansUnified, Ends, NoEnd
<1>49. OthersStand
  <2> SUFFICES ASSUME ~raced' PROVE OthersStand
    BY DEF OthersStand
  <2>1. tree[i0]["flat"] = {"rest"}
    BY <1>5, <1>2, <1>22, <1>7 DEF MigrateInv, Beside, Alone
  <2> QED
    BY <1>23, <2>1, <1>8, QuietStands, ZenonT(60) DEF Absent
<1> QED
  BY <1>26, <1>27, <1>28, <1>29, <1>30, <1>31, <1>32, <1>33, <1>34, <1>35, <1>36,
     <1>37, <1>38, <1>39, <1>40, <1>41, <1>42, <1>43, <1>44, <1>45, <1>46, <1>47,
     <1>48, <1>49 DEF MigrateInv, RunInv

\* The record of the old names survives in C's journal.
LEMMA MergeJournalKeeps ==
  ASSUME MigrateInv, MergeJournal PROVE MigrateInv'
<1>1. /\ run \in RunRec /\ Under /\ RunInv /\ TypedTree
      /\ run.pc = "loop"
      /\ run.pairs # {} /\ Pair.item = "journal"
  BY UnderRec DEF MigrateInv, MergeJournal, RunAt, Looping
<1>2. Pair = JL /\ JL \in run.pairs
  BY <1>1, PairIn DEF RunRec, Pairs, JL
<1>3. /\ UNCHANGED <<ref, lock, vaultRoot, across, legacyThere, daemon, last, cut, warned,
                     starts, faults, tree, claim, marked, passed>>
      /\ raced' = (raced \/ daemon.pc # "down")
  BY DEF MergeJournal, Acting, NoFault
<1>4. /\ journal' \in [Roots -> JournalRec] /\ journal'["L"] = NoJournal
      /\ journal["C"].renamed \subseteq journal'["C"].renamed /\ journal["L"].renamed \subseteq journal'["C"].renamed
      /\ journal'["C"].partial = journal["C"].partial
  <2> DEFINE A == IF journal["L"].renamed = {} THEN journal["C"]
           ELSE AppendRenamed(journal["C"], journal["L"].renamed)
  <2>1. journal["L"] \in JournalRec /\ journal["C"] \in JournalRec /\ journal["L"].renamed \subseteq {OldName}
    BY <1>1 DEF MigrateInv, Journals, TypedTree, Roots
  <2>2. OldName \notin Copies
    BY DEF Copies, OldName, Step
  <2>3. /\ A \in JournalRec /\ A.partial = journal["C"].partial
        /\ journal["C"].renamed \subseteq A.renamed /\ journal["L"].renamed \subseteq A.renamed
    BY <2>1, <2>2 DEF JournalRec, AppendRenamed
  <2>4. NoJournal \in JournalRec
    BY DEF NoJournal, JournalRec
  <2>5. journal' = [journal EXCEPT !["L"] = NoJournal, !["C"] = A]
    BY DEF MergeJournal
  <2> HIDE DEF A
  <2>6. journal' \in [Roots -> JournalRec] /\ journal'["C"] = A /\ journal'["L"] = NoJournal
    BY <1>1, <2>3, <2>4, <2>5 DEF TypedTree, Roots
  <2> QED
    BY <2>6, <2>3
<1>5. journal'["L"].renamed = {} /\ journal'["L"].there = FALSE
  BY <1>4 DEF NoJournal
<1> DEFINE a == run.pairs \ {Pair}
<1>6. run' = [run EXCEPT !.pairs = a]
  BY DEF MergeJournal
<1>7. /\ a \subseteq run.pairs /\ a \in SUBSET Pairs /\ JL \notin a
      /\ \A q \in run.pairs : q.item # "journal" => q \in a
      /\ \A i \in Items : [item |-> i, from |-> "flat"] \in run.pairs => [item |-> i, from |-> "flat"] \in a
      /\ (CF \in a <=> CF \in run.pairs)
  BY <1>1, <1>2 DEF RunRec, JL, Items, CF
<1> HIDE DEF a
<1>8. /\ run' \in RunRec /\ run'.pairs = a
      /\ run'.pc = run.pc /\ run'.root = run.root /\ run'.vault = run.vault
      /\ run'.contended = run.contended /\ run'.claimed = run.claimed /\ run'.prior = run.prior
      /\ run'.done = run.done /\ run'.torn = run.torn /\ run'.conflicts = run.conflicts
      /\ run'.named = run.named /\ run'.failed = run.failed
  BY <1>1, <1>6, <1>7, SetRest
<1>9. Under'
  BY <1>8, UnderRec DEF Under, RunRec, RunSteps, Gathering, Moving, Told, NoRun
<1>10. TypedTree'
  BY <1>1, <1>3, <1>4, <1>8, <1>9, <1>7 DEF MigrateInv, TypedTree
<1>11. Laid'
  BY <1>1, <1>3, <1>4, <1>8, <1>9, <1>7 DEF MigrateInv, Laid, Mine
<1>12. RootsTell'
  BY <1>1, <1>3, <1>4, <1>8, <1>9, <1>7 DEF MigrateInv, RootsTell, Has, Mine, TornIn
<1>13. Journals'
  BY <1>1, <1>3, <1>4, <1>8, <1>9, <1>7, <1>5 DEF MigrateInv, Journals
<1>14. Shaped'
  BY <1>1, <1>3, <1>4, <1>8, <1>9, <1>7 DEF RunInv, Shaped, Before, Gathering, Moving,
     Told
<1>15. PairsShaped'
  BY <1>1, <1>3, <1>4, <1>8, <1>9, <1>7 DEF RunInv, PairsShaped, Moving
<1>16. Remembers'
  BY <1>1, <1>3, <1>4, <1>8, <1>9, <1>7 DEF RunInv, Remembers, Before, Gathering,
     Moving, Told
<1>17. Sheltered'
  BY <1>1, <1>3, <1>4, <1>8, <1>9, <1>7 DEF RunInv, Sheltered, Has, TornIn
<1>18. HandsOff'
  BY <1>1, <1>3, <1>4, <1>8, <1>9, <1>7 DEF RunInv, HandsOff, Mine, TornIn, Before,
     Gathering, Moving, Told
<1>19. StillThere'
  BY <1>1, <1>3, <1>4, <1>8, <1>9, <1>7 DEF RunInv, StillThere, Has, TornIn, Moving
<1>20. QueueIsWhole'
  BY <1>1, <1>3, <1>4, <1>8, <1>9, <1>7 DEF RunInv, QueueIsWhole, TornIn, Before
<1>21. DoneIsWhole'
  BY <1>1, <1>3, <1>4, <1>8, <1>9, <1>7 DEF RunInv, DoneIsWhole, TornIn
<1>22. ConflictsTold'
  BY <1>1, <1>3, <1>4, <1>8, <1>9, <1>7 DEF RunInv, ConflictsTold, TornIn, WasCut
<1>23. Gathered'
  BY <1>1, <1>3, <1>4, <1>8, <1>9, <1>7 DEF RunInv, Gathered, Smooth, Filtered, Mine,
     Has, Before, Gathering, Moving, Told
<1>24. NoneBehind'
  BY <1>1, <1>3, <1>4, <1>8, <1>9, <1>7, <1>5 DEF RunInv, NoneBehind, Smooth, Filtered,
     Mine, Before, Gathering, Moving, Told
<1>25. RefsFollow'
  BY <1>1, <1>3, <1>4, <1>8, <1>9, <1>7 DEF RunInv, RefsFollow, Smooth, Before,
     Gathering, Moving, Told
<1>26. TornIsKnown'
  BY <1>1, <1>3, <1>4, <1>8, <1>9, <1>7 DEF MigrateInv, TornIsKnown, TornKnown,
     FromVault, TornIn, WasCut, Under, Has, Before, Gathering, Moving, Told
<1>27. Beside'
  BY <1>1, <1>3, <1>4, <1>8, <1>9, <1>7 DEF MigrateInv, Beside, Alone, Excluded, Naming, Smooth, Has
<1>28. ClonesRecorded'
  BY <1>1, <1>3, <1>4, <1>8, <1>9, <1>7 DEF MigrateInv, ClonesRecorded, Mine, Under
<1>29. NamesRecorded'
  BY <1>1, <1>3, <1>4, <1>8, <1>9, <1>7, <1>5 DEF MigrateInv, NamesRecorded, Naming, Mine
<1>30. Ends'
  BY <1>1, <1>3, <1>4, <1>8, <1>9, <1>7 DEF MigrateInv, Ends
<1>31. NothingLost'
  BY <1>1, <1>3, <1>4, <1>8, <1>9, <1>7 DEF MigrateInv, NothingLost
<1>32. CleanMeansUnified'
  BY <1>1, <1>3, <1>4, <1>8, <1>9, <1>7 DEF MigrateInv, CleanMeansUnified, Ends, NoEnd
<1> QED
  BY <1>10, <1>11, <1>12, <1>13, <1>14, <1>15, <1>16, <1>17, <1>18, <1>19, <1>20,
     <1>21, <1>22, <1>23, <1>24, <1>25, <1>26, <1>27, <1>28, <1>29, <1>30, <1>31, <1>32
     DEF MigrateInv, RunInv

\* A copy that fails is torn, and the run knows.
LEMMA CopyFailsKeeps ==
  ASSUME MigrateInv, CopyFails PROVE MigrateInv'
<1>1. /\ run \in RunRec /\ Under /\ RunInv /\ TypedTree
      /\ run.pc = "copy"
  BY UnderRec DEF MigrateInv, CopyFails, RunAt
<1>2. /\ run \in RunRec /\ Under /\ RunInv /\ TypedTree
      /\ run.pc = "copy" /\ run.pairs # {} /\ Pair.item # "journal"
  BY <1>1 DEF RunInv, PairsShaped, Moving
<1>3. /\ Pair \in run.pairs /\ Pair \in Pairs /\ Pair.item \in Items
      /\ Pair.from \in {"flat", "cflat"} /\ Pair.from \in Spots
      /\ Pair \in {QF, WF, CC, CF} /\ (Pair.from = "cflat" => Pair = CC)
  BY <1>2, PairIn DEF RunRec, Pairs, Items, Spots, QF, WF, CC, CF
<1>4. \A q \in run.pairs : q.item # "journal" => q.item \in Items /\ q.from \in Spots /\ q.from # "v2"
  BY <1>2 DEF RunRec, Pairs, Items, Spots
<1>5. /\ UNCHANGED <<ref, lock, vaultRoot, across, legacyThere, daemon, last, cut, warned,
                     starts, tree, journal, claim, marked, passed>>
      /\ raced' = (raced \/ daemon.pc # "down")
  BY DEF CopyFails, Acting, NoFault
<1>6. faults' \in 0 .. MaxFaults
  BY <1>2, BoundsAssumption DEF CopyFails, TypedTree
<1>7. Pair.from = "flat"
  BY <1>2 DEF RunInv, PairsShaped, Moving
<1>8. Step(Pair.item, Pair.from, "v2") \in Copies
  BY <1>3, <1>7 DEF Copies
<1> DEFINE t == run.torn \cup {Step(Pair.item, Pair.from, "v2")}
<1>9. run' = [run EXCEPT !.pc = "journal", !.failed = TRUE, !.torn = t]
  BY DEF CopyFails
<1>10. "journal" \in RunSteps /\ TRUE \in BOOLEAN /\ t \in SUBSET Copies
  BY <1>2, <1>8 DEF RunSteps, RunRec
<1>11. run.torn \subseteq t /\ Step(Pair.item, "flat", "v2") \in t
  BY <1>7
<1> HIDE DEF t
<1>12. /\ run' \in RunRec /\ run'.pc = "journal" /\ run'.failed = TRUE /\ run'.torn = t
       /\ run'.root = run.root /\ run'.vault = run.vault /\ run'.pairs = run.pairs
       /\ run'.contended = run.contended /\ run'.claimed = run.claimed /\ run'.prior = run.prior
       /\ run'.done = run.done /\ run'.conflicts = run.conflicts /\ run'.named = run.named
  BY <1>2, <1>9, <1>10, SetTorn, ZenonT(60)
<1>13. Pair' = Pair /\ Spoken' = Spoken
  BY <1>12 DEF Pair, Spoken
<1>14. Under'
  BY <1>12, UnderRec DEF Under, RunRec, RunSteps, Gathering, Moving, Told, NoRun
<1>15. TypedTree'
  BY <1>2, <1>5, <1>12, <1>14, <1>6 DEF MigrateInv, TypedTree
<1>16. Laid'
  BY <1>2, <1>5, <1>12, <1>14 DEF MigrateInv, Laid, Mine
<1>17. RootsTell'
  BY <1>2, <1>5, <1>12, <1>14 DEF MigrateInv, RootsTell, Has, Mine, TornIn
<1>18. Journals'
  BY <1>2, <1>5, <1>12, <1>14 DEF MigrateInv, Journals
<1>19. Shaped'
  BY <1>2, <1>5, <1>12, <1>14 DEF RunInv, Shaped, Before, Gathering, Moving, Told
<1>20. PairsShaped'
  BY <1>2, <1>5, <1>12, <1>14, <1>13 DEF RunInv, PairsShaped, Moving
<1>21. Remembers'
  BY <1>2, <1>5, <1>12, <1>14 DEF RunInv, Remembers, Before, Gathering, Moving, Told
<1>22. Sheltered'
  BY <1>2, <1>5, <1>12, <1>14 DEF RunInv, Sheltered, Has, TornIn
<1>23. HandsOff'
  BY <1>2, <1>5, <1>12, <1>14, <1>13 DEF RunInv, HandsOff, Mine, TornIn, Before,
     Gathering, Moving, Told
<1>24. StillThere'
  BY <1>2, <1>5, <1>12, <1>14, <1>13 DEF RunInv, StillThere, Has, TornIn, Moving
<1>25. QueueIsWhole'
  BY <1>2, <1>5, <1>12, <1>14 DEF RunInv, QueueIsWhole, TornIn, Before
<1>26. DoneIsWhole'
  BY <1>2, <1>5, <1>12, <1>14 DEF RunInv, DoneIsWhole, TornIn
<1>27. ConflictsTold'
  BY <1>2, <1>5, <1>12, <1>14 DEF RunInv, ConflictsTold, TornIn, WasCut
<1>28. Gathered'
  BY <1>2, <1>5, <1>12, <1>14 DEF RunInv, Gathered, Smooth, Filtered, Mine, Has,
     Before, Gathering, Moving, Told
<1>29. NoneBehind'
  BY <1>2, <1>5, <1>12, <1>14 DEF RunInv, NoneBehind, Smooth, Filtered, Mine, Before,
     Gathering, Moving, Told
<1>30. RefsFollow'
  BY <1>2, <1>5, <1>12, <1>14 DEF RunInv, RefsFollow, Smooth, Before, Gathering,
     Moving, Told
<1>31. TornIsKnown'
  BY <1>2, <1>5, <1>12, <1>14, <1>13, <1>11 DEF MigrateInv, TornIsKnown, TornKnown,
     FromVault, TornIn, WasCut, Under, Has, Before, Gathering, Moving, Told
<1>32. Beside'
  BY <1>2, <1>5, <1>12, <1>14, <1>13 DEF MigrateInv, Beside, Alone, Excluded, Naming, Smooth, Has
<1>33. ClonesRecorded'
  BY <1>2, <1>5, <1>12, <1>14 DEF MigrateInv, ClonesRecorded, Mine, Under
<1>34. NamesRecorded'
  BY <1>2, <1>5, <1>12, <1>14 DEF MigrateInv, NamesRecorded, Naming, Mine
<1>35. Ends'
  BY <1>2, <1>5, <1>12, <1>14 DEF MigrateInv, Ends
<1>36. NothingLost'
  BY <1>2, <1>5, <1>12, <1>14 DEF MigrateInv, NothingLost
<1>37. CleanMeansUnified'
  BY <1>2, <1>5, <1>12, <1>14 DEF MigrateInv, CleanMeansUnified, Ends, NoEnd
<1> QED
  BY <1>15, <1>16, <1>17, <1>18, <1>19, <1>20, <1>21, <1>22, <1>23, <1>24, <1>25,
     <1>26, <1>27, <1>28, <1>29, <1>30, <1>31, <1>32, <1>33, <1>34, <1>35, <1>36, <1>37
     DEF MigrateInv, RunInv

\* What was done and what was torn is written down; nothing done was torn.
LEMMA JournalPairsKeeps ==
  ASSUME MigrateInv, JournalPairs PROVE MigrateInv'
<1>1. /\ UNCHANGED <<ref, lock, vaultRoot, across, legacyThere, daemon, last, cut, warned,
                     starts, faults, tree, claim, marked, passed>>
      /\ raced' = (raced \/ daemon.pc # "down")
  BY DEF JournalPairs, Acting, NoFault
<1>2. run \in RunRec /\ TypedTree
  BY UnderRec DEF MigrateInv, JournalPairs, RunAt
<1>3. /\ journal' \in [Roots -> JournalRec] /\ journal'["L"] = journal["L"]
      /\ journal'["C"].renamed = journal["C"].renamed \cup run.done
      /\ journal'["C"].partial = (journal["C"].partial \ run.done) \cup run.torn
  <2> DEFINE A == Journaled(journal["C"], run.done, run.torn, run.conflicts # {})
  <2>1. journal["C"] \in JournalRec /\ run.done \in SUBSET Moves /\ run.torn \in SUBSET Copies
    BY <1>2 DEF TypedTree, Roots, RunRec
  <2>2. /\ A \in JournalRec /\ A.renamed = journal["C"].renamed \cup run.done
        /\ A.partial = (journal["C"].partial \ run.done) \cup run.torn
    <3>1. CASE run.done \cup run.torn = {} /\ ~(run.conflicts # {})
      BY <3>1, <2>1 DEF Journaled, JournalRec
    <3>2. CASE ~(run.done \cup run.torn = {} /\ ~(run.conflicts # {}))
      BY <3>2, <2>1 DEF Journaled, AppendRenamed, JournalRec
    <3> QED
      BY <3>1, <3>2
  <2>3. journal' = [journal EXCEPT !["C"] = A]
    BY DEF JournalPairs
  <2> HIDE DEF A
  <2> QED
    BY <1>2, <2>1, <2>2, <2>3 DEF TypedTree, Roots
<1>4. CASE run.pc = "journal"
  <2>1. /\ run \in RunRec /\ Under /\ RunInv /\ TypedTree
        /\ run.pc = "journal"
    BY UnderRec, <1>4 DEF MigrateInv, JournalPairs, RunAt
  <2>2. run.failed = TRUE
    BY <2>1 DEF RunInv, Shaped, RunRec
  <2>3. run' = [run EXCEPT !.pc = "exit"]
    BY <2>2, <2>1 DEF JournalPairs, Go
  <2>4. "exit" \in RunSteps
    BY DEF RunSteps, Gathering, Moving, Told
  <2>5. /\ run' \in RunRec /\ run'.pc = "exit"
        /\ run'.root = run.root /\ run'.vault = run.vault /\ run'.pairs = run.pairs
        /\ run'.contended = run.contended /\ run'.claimed = run.claimed /\ run'.prior = run.prior
        /\ run'.done = run.done /\ run'.torn = run.torn /\ run'.conflicts = run.conflicts
        /\ run'.named = run.named /\ run'.failed = run.failed
    BY <2>1, <2>3, <2>4, SetPc
  <2>6. Pair' = Pair
    BY <2>5 DEF Pair
  <2>7. Under'
    BY <2>5, UnderRec DEF Under, RunRec, RunSteps, Gathering, Moving, Told, NoRun
  <2>8. \A j \in Items : TornIn(j) => Step(j, "flat", "v2") \notin run.done
    BY <2>1 DEF RunInv, DoneIsWhole
  <2>9. TypedTree'
    BY <2>1, <1>1, <1>3, <2>5, <2>7 DEF MigrateInv, TypedTree
  <2>10. Laid'
    BY <2>1, <1>1, <1>3, <2>5, <2>7 DEF MigrateInv, Laid, Mine
  <2>11. RootsTell'
    BY <2>1, <1>1, <1>3, <2>5, <2>7 DEF MigrateInv, RootsTell, Has, Mine, TornIn
  <2>12. Journals'
    BY <2>1, <1>1, <1>3, <2>5, <2>7 DEF MigrateInv, Journals
  <2>13. Shaped'
    BY <2>1, <1>1, <1>3, <2>5, <2>7 DEF RunInv, Shaped, Before, Gathering, Moving, Told
  <2>14. PairsShaped'
    BY <2>1, <1>1, <1>3, <2>5, <2>7, <2>6 DEF RunInv, PairsShaped, Moving
  <2>15. Remembers'
    BY <2>1, <1>1, <1>3, <2>5, <2>7 DEF RunInv, Remembers, Before, Gathering, Moving,
       Told
  <2>16. Sheltered'
    BY <2>1, <1>1, <1>3, <2>5, <2>7 DEF RunInv, Sheltered, Has, TornIn
  <2>17. HandsOff'
    BY <2>1, <1>1, <1>3, <2>5, <2>7, <2>6 DEF RunInv, HandsOff, Mine, TornIn, Before,
       Gathering, Moving, Told
  <2>18. StillThere'
    BY <2>1, <1>1, <1>3, <2>5, <2>7, <2>6 DEF RunInv, StillThere, Has, TornIn, Moving
  <2>19. QueueIsWhole'
    BY <2>1, <1>1, <1>3, <2>5, <2>7 DEF RunInv, QueueIsWhole, TornIn, Before
  <2>20. DoneIsWhole'
    BY <2>1, <1>1, <1>3, <2>5, <2>7 DEF RunInv, DoneIsWhole, TornIn
  <2>21. ConflictsTold'
    BY <2>1, <1>1, <1>3, <2>5, <2>7 DEF RunInv, ConflictsTold, TornIn, WasCut
  <2>22. Gathered'
    BY <2>1, <1>1, <1>3, <2>5, <2>7 DEF RunInv, Gathered, Smooth, Filtered, Mine, Has,
       Before, Gathering, Moving, Told
  <2>23. NoneBehind'
    BY <2>1, <1>1, <1>3, <2>5, <2>7 DEF RunInv, NoneBehind, Smooth, Filtered, Mine, Before,
       Gathering, Moving, Told
  <2>24. RefsFollow'
    BY <2>1, <1>1, <1>3, <2>5, <2>7 DEF RunInv, RefsFollow, Smooth, Before, Gathering,
       Moving, Told
  <2>25. TornIsKnown'
    BY <2>1, <1>1, <1>3, <2>5, <2>7, <2>6, <2>8 DEF MigrateInv, TornIsKnown, TornKnown,
       FromVault, TornIn, WasCut, Under, Has, Before, Gathering, Moving, Told
  <2>26. Beside'
    BY <2>1, <1>1, <1>3, <2>5, <2>7, <2>6 DEF MigrateInv, Beside, Alone, Excluded, Naming, Smooth, Has
  <2>27. ClonesRecorded'
    BY <2>1, <1>1, <1>3, <2>5, <2>7 DEF MigrateInv, ClonesRecorded, Mine, Under
  <2>28. NamesRecorded'
    BY <2>1, <1>1, <1>3, <2>5, <2>7 DEF MigrateInv, NamesRecorded, Naming, Mine
  <2>29. Ends'
    BY <2>1, <1>1, <1>3, <2>5, <2>7 DEF MigrateInv, Ends
  <2>30. NothingLost'
    BY <2>1, <1>1, <1>3, <2>5, <2>7 DEF MigrateInv, NothingLost
  <2>31. CleanMeansUnified'
    BY <2>1, <1>1, <1>3, <2>5, <2>7 DEF MigrateInv, CleanMeansUnified, Ends, NoEnd
  <2> QED
    BY <2>9, <2>10, <2>11, <2>12, <2>13, <2>14, <2>15, <2>16, <2>17, <2>18, <2>19,
       <2>20, <2>21, <2>22, <2>23, <2>24, <2>25, <2>26, <2>27, <2>28, <2>29, <2>30,
       <2>31 DEF MigrateInv, RunInv
<1>5. CASE run.pc = "loop" /\ run.pairs = {}
  <2>1. /\ run \in RunRec /\ Under /\ RunInv /\ TypedTree
        /\ run.pc = "loop" /\ run.pairs = {}
    BY UnderRec, <1>5 DEF MigrateInv, JournalPairs, RunAt
  <2>2. run.failed = FALSE
    BY <2>1 DEF RunInv, Shaped, RunRec
  <2>3. run' = [run EXCEPT !.pc = "rewrite"]
    BY <2>2, <2>1 DEF JournalPairs, Go
  <2>4. "rewrite" \in RunSteps
    BY DEF RunSteps, Gathering, Moving, Told
  <2>5. /\ run' \in RunRec /\ run'.pc = "rewrite"
        /\ run'.root = run.root /\ run'.vault = run.vault /\ run'.pairs = run.pairs
        /\ run'.contended = run.contended /\ run'.claimed = run.claimed /\ run'.prior = run.prior
        /\ run'.done = run.done /\ run'.torn = run.torn /\ run'.conflicts = run.conflicts
        /\ run'.named = run.named /\ run'.failed = run.failed
    BY <2>1, <2>3, <2>4, SetPc
  <2>6. Pair' = Pair
    BY <2>5 DEF Pair
  <2>7. Under'
    BY <2>5, UnderRec DEF Under, RunRec, RunSteps, Gathering, Moving, Told, NoRun
  <2>8. \A j \in Items : TornIn(j) => Step(j, "flat", "v2") \notin run.done
    BY <2>1 DEF RunInv, DoneIsWhole
  <2>9. TypedTree'
    BY <2>1, <1>1, <1>3, <2>5, <2>7 DEF MigrateInv, TypedTree
  <2>10. Laid'
    BY <2>1, <1>1, <1>3, <2>5, <2>7 DEF MigrateInv, Laid, Mine
  <2>11. RootsTell'
    BY <2>1, <1>1, <1>3, <2>5, <2>7 DEF MigrateInv, RootsTell, Has, Mine, TornIn
  <2>12. Journals'
    BY <2>1, <1>1, <1>3, <2>5, <2>7 DEF MigrateInv, Journals
  <2>13. Shaped'
    BY <2>1, <1>1, <1>3, <2>5, <2>7 DEF RunInv, Shaped, Before, Gathering, Moving, Told
  <2>14. PairsShaped'
    BY <2>1, <1>1, <1>3, <2>5, <2>7, <2>6 DEF RunInv, PairsShaped, Moving
  <2>15. Remembers'
    BY <2>1, <1>1, <1>3, <2>5, <2>7 DEF RunInv, Remembers, Before, Gathering, Moving,
       Told
  <2>16. Sheltered'
    BY <2>1, <1>1, <1>3, <2>5, <2>7 DEF RunInv, Sheltered, Has, TornIn
  <2>17. HandsOff'
    BY <2>1, <1>1, <1>3, <2>5, <2>7, <2>6 DEF RunInv, HandsOff, Mine, TornIn, Before,
       Gathering, Moving, Told
  <2>18. StillThere'
    BY <2>1, <1>1, <1>3, <2>5, <2>7, <2>6 DEF RunInv, StillThere, Has, TornIn, Moving
  <2>19. QueueIsWhole'
    BY <2>1, <1>1, <1>3, <2>5, <2>7 DEF RunInv, QueueIsWhole, TornIn, Before
  <2>20. DoneIsWhole'
    BY <2>1, <1>1, <1>3, <2>5, <2>7 DEF RunInv, DoneIsWhole, TornIn
  <2>21. ConflictsTold'
    BY <2>1, <1>1, <1>3, <2>5, <2>7 DEF RunInv, ConflictsTold, TornIn, WasCut
  <2>22. Gathered'
    BY <2>1, <1>1, <1>3, <2>5, <2>7 DEF RunInv, Gathered, Smooth, Filtered, Mine, Has,
       Before, Gathering, Moving, Told
  <2>23. NoneBehind'
    BY <2>1, <1>1, <1>3, <2>5, <2>7 DEF RunInv, NoneBehind, Smooth, Filtered, Mine, Before,
       Gathering, Moving, Told
  <2>24. RefsFollow'
    BY <2>1, <1>1, <1>3, <2>5, <2>7 DEF RunInv, RefsFollow, Smooth, Before, Gathering,
       Moving, Told
  <2>25. TornIsKnown'
    BY <2>1, <1>1, <1>3, <2>5, <2>7, <2>6, <2>8 DEF MigrateInv, TornIsKnown, TornKnown,
       FromVault, TornIn, WasCut, Under, Has, Before, Gathering, Moving, Told
  <2>26. Beside'
    BY <2>1, <1>1, <1>3, <2>5, <2>7, <2>6 DEF MigrateInv, Beside, Alone, Excluded, Naming, Smooth, Has
  <2>27. ClonesRecorded'
    BY <2>1, <1>1, <1>3, <2>5, <2>7 DEF MigrateInv, ClonesRecorded, Mine, Under
  <2>28. NamesRecorded'
    BY <2>1, <1>1, <1>3, <2>5, <2>7 DEF MigrateInv, NamesRecorded, Naming, Mine
  <2>29. Ends'
    BY <2>1, <1>1, <1>3, <2>5, <2>7 DEF MigrateInv, Ends
  <2>30. NothingLost'
    BY <2>1, <1>1, <1>3, <2>5, <2>7 DEF MigrateInv, NothingLost
  <2>31. CleanMeansUnified'
    BY <2>1, <1>1, <1>3, <2>5, <2>7 DEF MigrateInv, CleanMeansUnified, Ends, NoEnd
  <2> QED
    BY <2>9, <2>10, <2>11, <2>12, <2>13, <2>14, <2>15, <2>16, <2>17, <2>18, <2>19,
       <2>20, <2>21, <2>22, <2>23, <2>24, <2>25, <2>26, <2>27, <2>28, <2>29, <2>30,
       <2>31 DEF MigrateInv, RunInv
<1> QED
  BY <1>4, <1>5 DEF JournalPairs, RunAt

\* Where a stored prefix of the clones leads, step by step.
LEMMA HopMoves ==
  ASSUME NEW steps \in SUBSET Moves
  PROVE  /\ Hop(steps, "v2") = "v2"
         /\ Hop(steps, "flat") = IF Step("clones", "flat", "v2") \in steps THEN "v2" ELSE "flat"
         /\ Hop(steps, "old") = IF OldName \in steps THEN "flat" ELSE "old"
<1> DEFINE out(p) == {s \in steps : s.item = "clones" /\ s.from = p}
<1>1. /\ out("v2") = {}
      /\ out("flat") = IF Step("clones", "flat", "v2") \in steps THEN {Step("clones", "flat", "v2")} ELSE {}
      /\ out("old") = IF OldName \in steps THEN {OldName} ELSE {}
  BY DEF Moves, Copies, OldName, Step, Items
<1>2. \A p, s : out(p) = {s} => Hop(steps, p) = s.to
  <2> SUFFICES ASSUME NEW p, NEW s, out(p) = {s} PROVE Hop(steps, p) = s.to
    OBVIOUS
  <2>1. (CHOOSE t \in out(p) : TRUE) = s
    OBVIOUS
  <2> QED BY <2>1 DEF Hop
<1>3. \A p : out(p) = {} => Hop(steps, p) = p
  BY DEF Hop
<1>4. Step("clones", "flat", "v2").to = "v2" /\ OldName.to = "flat"
  BY DEF Step, OldName
<1> HIDE DEF out
<1> QED BY <1>1, <1>2, <1>3, <1>4

\* A run that gets to the end of its moves without a conflict has them all behind it.
LEMMA ToldWhole ==
  ASSUME MigrateInv, Under, run.pc \in Told, Smooth
  PROVE  /\ \A i \in Items : Mine(i, "v2")
         /\ ~Mine("clones", "old") /\ journal["L"].renamed = {}
<1>1. run.pairs = {} /\ run.pc \in Filtered /\ run.pc \notin Before \cup {"exit"}
  BY DEF MigrateInv, RunInv, Shaped, Filtered, Told, Before
<1>2. ~Mine("queue", "vault")
  BY <1>1 DEF MigrateInv, RunInv, HandsOff
<1>3. (\A i \in Items : ~Mine(i, "flat")) /\ journal["L"].renamed = {}
  BY <1>1 DEF MigrateInv, RunInv, NoneBehind
<1>4. ~Mine("clones", "old")
  BY <1>1 DEF MigrateInv, RunInv, Gathered, Has, Mine, Absent
<1>5. \A i \in Items : \E p \in Spots : Mine(i, p) /\ p \in MineAt(i)
  BY DEF MigrateInv, NothingLost, Laid, Mine
<1>6. MineAt("queue") = {"vault", "flat", "v2"} /\ MineAt("watch") = {"flat", "v2"}
      /\ MineAt("clones") = {"old", "flat", "v2"}
  BY DEF MineAt
<1> QED BY <1>2, <1>3, <1>4, <1>5, <1>6 DEF Items

\* Every prefix the stores hold is known to the journals, so it is followed to
\* the end.
LEMMA RewriteStoredPathsKeeps ==
  ASSUME MigrateInv, RewriteStoredPaths PROVE MigrateInv'
<1>1. /\ run \in RunRec /\ Under /\ RunInv /\ TypedTree
      /\ run.pc = "rewrite"
  BY UnderRec DEF MigrateInv, RewriteStoredPaths, RunAt
<1>2. /\ UNCHANGED <<tree, journal, lock, claim, legacyThere, marked, vaultRoot, across, daemon, last,
                     cut, passed, starts>>
      /\ raced' = (raced \/ daemon.pc # "down")
  BY DEF RewriteStoredPaths, machine
<1>3. /\ KnownMoves \in SUBSET Moves /\ journal["C"].renamed \subseteq KnownMoves /\ run.done \subseteq KnownMoves
  BY <1>1 DEF KnownMoves, TypedTree, Roots, JournalRec, RunRec
<1>4. ref \in [Holders -> {"old", "flat", "v2"}]
  BY <1>1 DEF TypedTree
<1>5. \A p \in {"old", "flat", "v2"} :
        /\ Followed(KnownMoves, p) \in {"old", "flat", "v2"}
        /\ Followed(KnownMoves, p) = "old" => p = "old"
        /\ p = "v2" => Followed(KnownMoves, p) = "v2"
        /\ /\ Step("clones", "flat", "v2") \in KnownMoves
           /\ p = "old" => OldName \in KnownMoves
           => Followed(KnownMoves, p) = "v2"
  BY <1>3, HopMoves DEF Followed
<1> DEFINE f(p) == Followed(KnownMoves, p)
<1>6. PICK failing \in SUBSET {h \in Holders : Has(h, "v2")} :
        /\ failing # {} => faults < MaxFaults
        /\ faults' = IF failing = {} THEN faults ELSE faults + 1
        /\ warned' = failing
        /\ ref' = [h \in Holders |-> IF "mine" \in tree[h]["v2"] /\ h \notin failing
                                     THEN f(ref[h]) ELSE ref[h]]
  BY DEF RewriteStoredPaths
<1>7. warned' \subseteq Holders /\ faults' \in 0 .. MaxFaults
  BY <1>1, <1>6, BoundsAssumption DEF TypedTree
<1> HIDE DEF f
<1>8. ref' \in [Holders -> {"old", "flat", "v2"}] /\ \A h \in Holders : ref'[h] = "old" => ref[h] = "old"
  <2>1. \A p \in {"old", "flat", "v2"} : f(p) \in {"old", "flat", "v2"} /\ (f(p) = "old" => p = "old")
    BY <1>5 DEF f
  <2> QED
    BY <1>6, <2>1, <1>4
<1>9. run' = [run EXCEPT !.pc = "legacy"]
  BY <1>1 DEF RewriteStoredPaths, Go
<1>10. "legacy" \in RunSteps
  BY DEF RunSteps, Gathering, Moving, Told
<1>11. /\ run' \in RunRec /\ run'.pc = "legacy"
       /\ run'.root = run.root /\ run'.vault = run.vault /\ run'.pairs = run.pairs
       /\ run'.contended = run.contended /\ run'.claimed = run.claimed /\ run'.prior = run.prior
       /\ run'.done = run.done /\ run'.torn = run.torn /\ run'.conflicts = run.conflicts
       /\ run'.named = run.named /\ run'.failed = run.failed
  BY <1>1, <1>9, <1>10, SetPc
<1>12. Pair' = Pair
  BY <1>11 DEF Pair
<1>13. Under'
  BY <1>11, UnderRec DEF Under, RunRec, RunSteps, Gathering, Moving, Told, NoRun
<1>14. TypedTree'
  BY <1>1, <1>2, <1>11, <1>13, <1>8, <1>7 DEF MigrateInv, TypedTree
<1>15. Laid'
  BY <1>1, <1>2, <1>11, <1>13, <1>8 DEF MigrateInv, Laid, Mine
<1>16. RootsTell'
  BY <1>1, <1>2, <1>11, <1>13, <1>8 DEF MigrateInv, RootsTell, Has, Mine, TornIn
<1>17. Journals'
  BY <1>1, <1>2, <1>11, <1>13, <1>8 DEF MigrateInv, Journals
<1>18. Shaped'
  BY <1>1, <1>2, <1>11, <1>13, <1>8 DEF RunInv, Shaped, Before, Gathering, Moving, Told
<1>19. PairsShaped'
  BY <1>1, <1>2, <1>11, <1>13, <1>8, <1>12 DEF RunInv, PairsShaped, Moving
<1>20. Remembers'
  BY <1>1, <1>2, <1>11, <1>13, <1>8 DEF RunInv, Remembers, Before, Gathering, Moving,
     Told
<1>21. Sheltered'
  BY <1>1, <1>2, <1>11, <1>13, <1>8 DEF RunInv, Sheltered, Has, TornIn
<1>22. HandsOff'
  BY <1>1, <1>2, <1>11, <1>13, <1>8, <1>12 DEF RunInv, HandsOff, Mine, TornIn, Before,
     Gathering, Moving, Told
<1>23. StillThere'
  BY <1>1, <1>2, <1>11, <1>13, <1>8, <1>12 DEF RunInv, StillThere, Has, TornIn, Moving
<1>24. QueueIsWhole'
  BY <1>1, <1>2, <1>11, <1>13, <1>8 DEF RunInv, QueueIsWhole, TornIn, Before
<1>25. DoneIsWhole'
  BY <1>1, <1>2, <1>11, <1>13, <1>8 DEF RunInv, DoneIsWhole, TornIn
<1>26. ConflictsTold'
  BY <1>1, <1>2, <1>11, <1>13, <1>8 DEF RunInv, ConflictsTold, TornIn, WasCut
<1>27. Gathered'
  BY <1>1, <1>2, <1>11, <1>13, <1>8 DEF RunInv, Gathered, Smooth, Filtered, Mine, Has,
     Before, Gathering, Moving, Told
<1>28. NoneBehind'
  BY <1>1, <1>2, <1>11, <1>13, <1>8 DEF RunInv, NoneBehind, Smooth, Filtered, Mine, Before,
     Gathering, Moving, Told
<1>29. RefsFollow'
  <2> SUFFICES ASSUME Smooth, cut = {}, NEW h \in Holders PROVE ref'[h] = "v2" \/ h \in warned'
    <3>1. Smooth' => Smooth
      BY <1>11, <1>2, <1>1 DEF Smooth, TypedTree, RunRec
    <3> QED
      BY <3>1, <1>2 DEF RefsFollow
  <2>1. /\ \A i \in Items : Mine(i, "v2")
        /\ ~Mine("clones", "old") /\ journal["L"].renamed = {}
    BY <1>1, ToldWhole DEF Told
  <2>2. Step("clones", "flat", "v2") \in KnownMoves
    BY <2>1, <1>3, <1>1 DEF MigrateInv, ClonesRecorded, Items
  <2>3. ref[h] = "old" => OldName \in KnownMoves
    BY <2>1, <1>3, <1>1 DEF MigrateInv, NamesRecorded, Beside, Excluded
  <2>4. "mine" \in tree[h]["v2"]
    BY <2>1 DEF Mine, Holders, Items
  <2>5. f(ref[h]) = "v2"
    BY <1>4, <2>2, <2>3, <1>5 DEF f
  <2> QED
    BY <2>4, <2>5, <1>6
<1>30. TornIsKnown'
  BY <1>1, <1>2, <1>11, <1>13, <1>8, <1>12 DEF MigrateInv, TornIsKnown, TornKnown,
     FromVault, TornIn, WasCut, Under, Has, Before, Gathering, Moving, Told
<1>31. Beside'
  BY <1>1, <1>2, <1>11, <1>13, <1>8, <1>12 DEF MigrateInv, Beside, Alone, Excluded, Naming, Smooth, Has
<1>32. ClonesRecorded'
  BY <1>1, <1>2, <1>11, <1>13, <1>8 DEF MigrateInv, ClonesRecorded, Mine, Under
<1>33. NamesRecorded'
  BY <1>1, <1>2, <1>11, <1>13, <1>8 DEF MigrateInv, NamesRecorded, Naming, Mine
<1>34. Ends'
  BY <1>1, <1>2, <1>11, <1>13, <1>8 DEF MigrateInv, Ends
<1>35. NothingLost'
  BY <1>1, <1>2, <1>11, <1>13, <1>8 DEF MigrateInv, NothingLost
<1>36. CleanMeansUnified'
  BY <1>1, <1>2, <1>11, <1>13, <1>8 DEF MigrateInv, CleanMeansUnified, Ends, NoEnd
<1> QED
  BY <1>14, <1>15, <1>16, <1>17, <1>18, <1>19, <1>20, <1>21, <1>22, <1>23, <1>24,
     <1>25, <1>26, <1>27, <1>28, <1>29, <1>30, <1>31, <1>32, <1>33, <1>34, <1>35, <1>36
     DEF MigrateInv, RunInv

LEMMA RemoveLegacyRootKeeps ==
  ASSUME MigrateInv, RemoveLegacyRoot PROVE MigrateInv'
<1>1. /\ run \in RunRec /\ Under /\ RunInv /\ TypedTree
      /\ run.pc = "legacy"
  BY UnderRec DEF MigrateInv, RemoveLegacyRoot, RunAt
<1>2. /\ UNCHANGED <<tree, ref, journal, claim, marked, vaultRoot, across, daemon, last,
                     cut, warned, raced, passed, faults, starts>>
      /\ lock' \in [Roots -> BOOLEAN] /\ legacyThere' \in BOOLEAN
      /\ Has("clones", "old") => legacyThere' = legacyThere
  BY <1>1 DEF RemoveLegacyRoot, ghosts, bounds, TypedTree, Items
<1>3. run' = [run EXCEPT !.pc = "config"]
  BY <1>1 DEF RemoveLegacyRoot, Go
<1>4. "config" \in RunSteps
  BY DEF RunSteps, Gathering, Moving, Told
<1>5. /\ run' \in RunRec /\ run'.pc = "config"
      /\ run'.root = run.root /\ run'.vault = run.vault /\ run'.pairs = run.pairs
      /\ run'.contended = run.contended /\ run'.claimed = run.claimed /\ run'.prior = run.prior
      /\ run'.done = run.done /\ run'.torn = run.torn /\ run'.conflicts = run.conflicts
      /\ run'.named = run.named /\ run'.failed = run.failed
  BY <1>1, <1>3, <1>4, SetPc
<1>6. Pair' = Pair
  BY <1>5 DEF Pair
<1>7. Under'
  BY <1>5, UnderRec DEF Under, RunRec, RunSteps, Gathering, Moving, Told, NoRun
<1>8. TypedTree'
  BY <1>1, <1>2, <1>5, <1>7 DEF MigrateInv, TypedTree
<1>9. Laid'
  BY <1>1, <1>2, <1>5, <1>7 DEF MigrateInv, Laid, Mine
<1>10. RootsTell'
  BY <1>1, <1>2, <1>5, <1>7 DEF MigrateInv, RootsTell, Has, Mine, TornIn
<1>11. Journals'
  BY <1>1, <1>2, <1>5, <1>7 DEF MigrateInv, Journals
<1>12. Shaped'
  BY <1>1, <1>2, <1>5, <1>7 DEF RunInv, Shaped, Before, Gathering, Moving, Told
<1>13. PairsShaped'
  BY <1>1, <1>2, <1>5, <1>7, <1>6 DEF RunInv, PairsShaped, Moving
<1>14. Remembers'
  BY <1>1, <1>2, <1>5, <1>7 DEF RunInv, Remembers, Before, Gathering, Moving, Told
<1>15. Sheltered'
  BY <1>1, <1>2, <1>5, <1>7 DEF RunInv, Sheltered, Has, TornIn
<1>16. HandsOff'
  BY <1>1, <1>2, <1>5, <1>7, <1>6 DEF RunInv, HandsOff, Mine, TornIn, Before,
     Gathering, Moving, Told
<1>17. StillThere'
  BY <1>1, <1>2, <1>5, <1>7, <1>6 DEF RunInv, StillThere, Has, TornIn, Moving
<1>18. QueueIsWhole'
  BY <1>1, <1>2, <1>5, <1>7 DEF RunInv, QueueIsWhole, TornIn, Before
<1>19. DoneIsWhole'
  BY <1>1, <1>2, <1>5, <1>7 DEF RunInv, DoneIsWhole, TornIn
<1>20. ConflictsTold'
  BY <1>1, <1>2, <1>5, <1>7 DEF RunInv, ConflictsTold, TornIn, WasCut
<1>21. Gathered'
  BY <1>1, <1>2, <1>5, <1>7 DEF RunInv, Gathered, Smooth, Filtered, Mine, Has, Before,
     Gathering, Moving, Told
<1>22. NoneBehind'
  BY <1>1, <1>2, <1>5, <1>7 DEF RunInv, NoneBehind, Smooth, Filtered, Mine, Before,
     Gathering, Moving, Told
<1>23. RefsFollow'
  BY <1>1, <1>2, <1>5, <1>7 DEF RunInv, RefsFollow, Smooth, Before, Gathering, Moving,
     Told
<1>24. TornIsKnown'
  BY <1>1, <1>2, <1>5, <1>7, <1>6 DEF MigrateInv, TornIsKnown, TornKnown, FromVault,
     TornIn, WasCut, Under, Has, Before, Gathering, Moving, Told
<1>25. Beside'
  BY <1>1, <1>2, <1>5, <1>7, <1>6 DEF MigrateInv, Beside, Alone, Excluded, Naming, Smooth, Has
<1>26. ClonesRecorded'
  BY <1>1, <1>2, <1>5, <1>7 DEF MigrateInv, ClonesRecorded, Mine, Under
<1>27. NamesRecorded'
  BY <1>1, <1>2, <1>5, <1>7 DEF MigrateInv, NamesRecorded, Naming, Mine
<1>28. Ends'
  BY <1>1, <1>2, <1>5, <1>7 DEF MigrateInv, Ends
<1>29. NothingLost'
  BY <1>1, <1>2, <1>5, <1>7 DEF MigrateInv, NothingLost
<1>30. CleanMeansUnified'
  BY <1>1, <1>2, <1>5, <1>7 DEF MigrateInv, CleanMeansUnified, Ends, NoEnd
<1> QED
  BY <1>8, <1>9, <1>10, <1>11, <1>12, <1>13, <1>14, <1>15, <1>16, <1>17, <1>18, <1>19,
     <1>20, <1>21, <1>22, <1>23, <1>24, <1>25, <1>26, <1>27, <1>28, <1>29, <1>30 DEF
     MigrateInv, RunInv

\* What a run says when it ends is what it found.
LEMMA ExitKeeps ==
  ASSUME MigrateInv, Exit PROVE MigrateInv'
<1>1. /\ run \in RunRec /\ Under /\ RunInv /\ TypedTree
      /\ run.pc \in {"config", "exit"}
  BY UnderRec DEF MigrateInv, Exit
<1>2. UNCHANGED <<tree, ref, journal, claim, legacyThere, marked, across, daemon,
                  cut, warned, raced, passed, faults, starts>>
  BY DEF Exit, ghosts, bounds
<1> DEFINE e == IF run.failed THEN "failed" ELSE IF run.conflicts # {} THEN "conflicts" ELSE "clean"
<1>3. vaultRoot' \in BOOLEAN /\ (run.pc = "exit" => vaultRoot' = vaultRoot) /\ lock' \in [Roots -> BOOLEAN]
  BY <1>1 DEF Exit, RunAt, TypedTree
<1>4. /\ run' = NoRun /\ last' = [exit |-> e, conflicts |-> run.conflicts, named |-> run.named]
  BY DEF Exit, Ended
<1>5. e \in {"none", "clean", "conflicts", "failed", "killed"} /\ (e = "clean" => run.conflicts = {} /\ ~run.failed)
  OBVIOUS
<1> HIDE DEF e
<1>6. /\ last' \in EndRec /\ last'.exit = e /\ last'.conflicts = run.conflicts /\ last'.named = run.named
  BY <1>4, <1>5, <1>1 DEF EndRec, RunRec
<1>7. ~Under' /\ run'.pc = "idle"
  BY <1>4 DEF Under, NoRun
<1>8. run.pc = "config" => ~Mine("queue", "vault")
  BY <1>1 DEF RunInv, HandsOff, Before
<1>9. run.done \subseteq journal["C"].renamed /\ run.torn \subseteq journal["C"].partial
  BY <1>1 DEF RunInv, Remembers, Told
<1>10. TypedTree'
  BY <1>1, <1>2, <1>3, <1>6, <1>7, <1>4 DEF MigrateInv, TypedTree
<1>11. Laid'
  BY <1>1, <1>2, <1>3, <1>6, <1>7 DEF MigrateInv, Laid, Mine
<1>12. RootsTell'
  BY <1>1, <1>2, <1>3, <1>6, <1>7, <1>8 DEF MigrateInv, RootsTell, Has, Mine, TornIn
<1>13. Journals'
  BY <1>1, <1>2, <1>3, <1>6, <1>7 DEF MigrateInv, Journals
<1>14. TornIsKnown'
  BY <1>1, <1>2, <1>3, <1>6, <1>7, <1>9 DEF MigrateInv, TornIsKnown, TornKnown,
     FromVault, TornIn, WasCut, Under, Has, Before, Gathering, Moving, Told
<1>15. Beside'
  BY <1>1, <1>2, <1>3, <1>6, <1>7 DEF MigrateInv, Beside, Alone, Excluded, Naming, Smooth, Has
<1>16. ClonesRecorded'
  BY <1>1, <1>2, <1>3, <1>6, <1>7, <1>9 DEF MigrateInv, ClonesRecorded, Mine, Under
<1>17. NamesRecorded'
  BY <1>1, <1>2, <1>3, <1>6, <1>7 DEF MigrateInv, NamesRecorded, Naming, Mine
<1>18. Ends'
  BY <1>1, <1>2, <1>3, <1>6, <1>7 DEF MigrateInv, Ends, RunInv, Shaped
<1>19. NothingLost'
  BY <1>1, <1>2, <1>3, <1>6, <1>7 DEF MigrateInv, NothingLost
<1>20. CleanMeansUnified'
  <2> SUFFICES ASSUME e = "clean", ~passed PROVE /\ \A i \in Items : Mine(i, "v2")
                                            /\ \A h \in Holders :
                                                 ref[h] = "v2" \/ h \in warned \/ cut # {}
    BY <1>6, <1>2 DEF CleanMeansUnified, Mine
  <2>1. Smooth /\ run.pc = "config"
    BY <1>5, <1>1 DEF Smooth, RunInv, Shaped
  <2> QED
    BY <2>1, <1>1, ToldWhole DEF RunInv, RefsFollow, Told
<1> QED
  BY <1>7, <1>10, <1>11, <1>12, <1>13, <1>14, <1>15, <1>16, <1>17, <1>18, <1>19, <1>20
     DEF MigrateInv

\* A kill forgets what was not written down, and the ghost remembers it.
LEMMA KillKeeps ==
  ASSUME MigrateInv, Kill PROVE MigrateInv'
<1>1. /\ run \in RunRec /\ Under /\ RunInv /\ TypedTree
  BY UnderRec DEF MigrateInv, Kill, RunAt, TypedTree, NoRun
<1>2. UNCHANGED <<tree, ref, journal, claim, legacyThere, marked, vaultRoot, across, daemon,
                  warned, raced, passed, starts>>
  BY DEF Kill, machine
<1>3. /\ run \in RunRec /\ Under /\ RunInv /\ TypedTree
      /\ run.pc \in {"copy", "remove"} => Pair.from = "flat" /\ Pair.item \in Items /\ Pair \in Pairs
  <2>1. run.pc \in {"copy", "remove"} => Pair.from = "flat" /\ run.pairs # {} /\ Pair.item # "journal"
    BY <1>1 DEF RunInv, PairsShaped, Moving
  <2> QED
    BY <1>1, <2>1, PairIn DEF RunRec, Pairs, Items
<1>4. /\ cut \subseteq cut' /\ cut' \in SUBSET Moves
      /\ \A s \in run.done : s \in journal["C"].renamed \/ s \in cut'
      /\ \A s \in run.torn : s \in journal["C"].partial \/ s \in cut'
      /\ run.pc = "journalnames" => OldName \in cut'
      /\ run.pc \in {"copy", "remove"} => Step(Pair.item, "flat", "v2") \in cut'
  BY <1>3 DEF Kill, RunAt, TypedTree, RunRec, Moves, Copies
<1>5. faults' \in 0 .. MaxFaults /\ lock' \in [Roots -> BOOLEAN]
  BY <1>3, BoundsAssumption DEF Kill, TypedTree
<1>6. /\ run' = NoRun /\ last' = [exit |-> "killed", conflicts |-> run.conflicts, named |-> run.named]
  BY DEF Kill, Ended
<1>7. /\ last' \in EndRec /\ last'.exit = "killed" /\ last'.conflicts = run.conflicts /\ last'.named = run.named
  BY <1>6, <1>3 DEF EndRec, RunRec
<1>8. ~Under' /\ run'.pc = "idle"
  BY <1>6 DEF Under, NoRun
<1>9. \A i \in Items : Step(i, "flat", "v2").item = i
  BY DEF Step
<1>10. TypedTree'
  BY <1>3, <1>2, <1>7, <1>8, <1>6, <1>4, <1>5 DEF MigrateInv, TypedTree
<1>11. Laid'
  BY <1>3, <1>2, <1>7, <1>8 DEF MigrateInv, Laid, Mine
<1>12. RootsTell'
  BY <1>3, <1>2, <1>7, <1>8 DEF MigrateInv, RootsTell, Has, Mine, TornIn
<1>13. Journals'
  BY <1>3, <1>2, <1>7, <1>8 DEF MigrateInv, Journals
<1>14. TornIsKnown'
  BY <1>3, <1>2, <1>7, <1>8, <1>4, <1>9 DEF MigrateInv, TornIsKnown, TornKnown,
     FromVault, TornIn, WasCut, Under, Has, Before, Gathering, Moving, Told
<1>15. Beside'
  BY <1>3, <1>2, <1>7, <1>8 DEF MigrateInv, Beside, Alone, Excluded, Naming, Smooth, Has
<1>16. ClonesRecorded'
  BY <1>3, <1>2, <1>7, <1>8, <1>4 DEF MigrateInv, ClonesRecorded, Mine, Under
<1>17. NamesRecorded'
  BY <1>3, <1>2, <1>7, <1>8, <1>4 DEF MigrateInv, NamesRecorded, Naming, Mine
<1>18. Ends'
  BY <1>3, <1>2, <1>7, <1>8 DEF MigrateInv, Ends, RunInv, Shaped
<1>19. NothingLost'
  BY <1>3, <1>2, <1>7, <1>8 DEF MigrateInv, NothingLost
<1>20. CleanMeansUnified'
  BY <1>3, <1>2, <1>7, <1>8 DEF MigrateInv, CleanMeansUnified, Ends, NoEnd
<1> QED
  BY <1>8, <1>10, <1>11, <1>12, <1>13, <1>14, <1>15, <1>16, <1>17, <1>18, <1>19, <1>20
     DEF MigrateInv

\* The daemon: it makes directories, it files, it renames the old clones once,
\* and never where a run has left something half done.
LEMMA DaemonLoadKeeps ==
  ASSUME MigrateInv, DaemonLoad PROVE MigrateInv' /\ OthersStand
<1>1. TypedTree
  BY DEF MigrateInv
<1>2. Items = {"queue", "watch", "clones"} /\ Spots = {"vault", "old", "flat", "cflat", "v2"}
  BY DEF Items, Spots
<1> DEFINE root == DataRoot
    home == QueueAt(root, vaultRoot)
<1>3. /\ UNCHANGED <<ref, journal, lock, vaultRoot, across, run, last, cut, warned, faults>>
      /\ raced' = (raced \/ run.pc \notin {"idle", "probe"})
  BY DEF DaemonLoad
<1>4. /\ run' = run /\ Pair' = Pair /\ Spoken' = Spoken /\ (Under' <=> Under)
  BY <1>3 DEF Pair, Spoken, Under
<1>5. /\ Under => \A q \in run.pairs : q.item # "journal" => q.item \in Items /\ q.from \in Spots \ {"old"}
      /\ Under /\ run.pc \in Moving => Pair.item \in Items /\ Pair.from \in Spots \ {"old"}
  <2>1. ASSUME Under PROVE /\ run \in RunRec /\ RunInv
                            /\ \A q \in run.pairs : q.item # "journal" => q.item \in Items /\ q.from \in Spots \ {"old"}
    BY UnderRec, <2>1 DEF MigrateInv, RunRec, Pairs, Items, Spots
  <2>2. ASSUME Under, run.pc \in Moving PROVE Pair \in run.pairs /\ Pair.item # "journal"
    BY <2>1, <2>2, PairIn DEF RunInv, PairsShaped, RunRec
  <2> QED
    BY <2>1, <2>2
<1>6. root \in Roots /\ home \in {"vault", "flat", "v2"} /\ home \in Spots /\ home \in ClaimPlaces /\ root \in ClaimPlaces /\ (root = "C" <=> ~(~marked /\ legacyThere))
  BY <1>2 DEF DataRoot, QueueAt, Roots, ClaimPlaces
<1>7. tree' = [tree EXCEPT !["queue"][home] = IF @ = Absent /\ home # "vault" THEN {} ELSE @]
  BY DEF DaemonLoad
<1>8. claim' = [claim EXCEPT ![root] = "live", ![home] = "live"]
  BY DEF DaemonLoad
<1>9. daemon' \in DaemonRec /\ daemon'.pc = "loaded" /\ daemon.pc = "down"
  BY <1>6, <1>1 DEF DaemonLoad, DaemonRec, TypedTree
<1>10. /\ (passed => passed') /\ (legacyThere => legacyThere')
       /\ (marked => marked') /\ (marked' /\ Has("clones", "old") => marked \/ passed')
       /\ {marked', legacyThere', passed'} \subseteq BOOLEAN
  BY <1>1 DEF DaemonLoad, TypedTree, MigrateInv, RootsTell
<1>11. starts' \in 0 .. MaxStarts
  BY <1>1, BoundsAssumption DEF DaemonLoad, TypedTree
<1> HIDE DEF root, home
<1>12. claim' \in [ClaimPlaces -> {"none", "live", "stale"}]
  BY <1>1, <1>8, <1>6 DEF TypedTree
<1>13. /\ tree' \in Trees /\ tree'["queue"][home] \in {tree["queue"][home], {}}
       /\ \A j \in Items, r \in Spots : j # "queue" \/ r # home => tree'[j][r] = tree[j][r]
       /\ tree'["queue"][home] # tree["queue"][home] => tree["queue"][home] = Absent
  BY <1>1, <1>7, <1>6, <1>2 DEF TypedTree, Trees, Content
<1>14. \A j \in Items, r \in Spots :
         /\ \A m \in {"mine", "torn", "rest"} : m \in tree'[j][r] <=> m \in tree[j][r]
         /\ tree[j][r] # Absent => tree'[j][r] # Absent
         /\ r \in {"old", "cflat"} => tree'[j][r] = tree[j][r]
         /\ "absent" \in tree'[j][r] => tree'[j][r] = tree[j][r]
  BY <1>13, <1>6, <1>2 DEF Absent
<1>15. \A j \in Items, r \in Spots : "news" \in tree'[j][r] => "news" \in tree[j][r]
  BY <1>13
<1>16. TypedTree'
  BY <1>1, <1>3, <1>4, <1>2, <1>14, <1>10, <1>13, <1>12, <1>9, <1>11 DEF MigrateInv,
     TypedTree
<1>17. Laid'
  BY <1>1, <1>3, <1>4, <1>2, <1>14, <1>10, <1>15 DEF MigrateInv, Laid, Mine
<1>18. RootsTell'
  BY <1>1, <1>3, <1>4, <1>2, <1>14, <1>10 DEF MigrateInv, RootsTell, Has, Mine, TornIn
<1>19. Journals'
  BY <1>1, <1>3, <1>4, <1>2, <1>14, <1>10 DEF MigrateInv, Journals
<1>20. Under' => RunInv'
  <2> SUFFICES ASSUME Under PROVE RunInv'
    BY <1>4
  <2>1. run \in RunRec /\ RunInv
    BY UnderRec DEF MigrateInv
  <2>2. Shaped'
    BY <1>1, <1>3, <1>4, <1>2, <1>14, <1>10, <2>1 DEF RunInv, Shaped, Before,
       Gathering, Moving, Told
  <2>3. PairsShaped'
    BY <1>1, <1>3, <1>4, <1>2, <1>14, <1>10, <1>5, <2>1 DEF RunInv, PairsShaped, Moving
  <2>4. Remembers'
    BY <1>1, <1>3, <1>4, <1>2, <1>14, <1>10, <2>1 DEF RunInv, Remembers, Before,
       Gathering, Moving, Told
  <2>5. Sheltered'
    BY <1>1, <1>3, <1>4, <1>2, <1>14, <1>10, <2>1 DEF RunInv, Sheltered, Has, TornIn
  <2>6. HandsOff'
    BY <1>1, <1>3, <1>4, <1>2, <1>14, <1>10, <1>5, <2>1 DEF RunInv, HandsOff, Mine,
       TornIn, Before, Gathering, Moving, Told
  <2>7. StillThere'
    BY <1>1, <1>3, <1>4, <1>2, <1>14, <1>10, <1>5, <2>1 DEF RunInv, StillThere, Has,
       TornIn, Moving
  <2>8. QueueIsWhole'
    BY <1>1, <1>3, <1>4, <1>2, <1>14, <1>10, <2>1 DEF RunInv, QueueIsWhole, TornIn,
       Before
  <2>9. DoneIsWhole'
    BY <1>1, <1>3, <1>4, <1>2, <1>14, <1>10, <2>1 DEF RunInv, DoneIsWhole, TornIn
  <2>10. ConflictsTold'
    BY <1>1, <1>3, <1>4, <1>2, <1>14, <1>10, <2>1 DEF RunInv, ConflictsTold, TornIn,
       WasCut
  <2>11. Gathered'
    BY <1>1, <1>3, <1>4, <1>2, <1>14, <1>10, <2>1 DEF RunInv, Gathered, Smooth,
       Filtered, Mine, Has, Before, Gathering, Moving, Told
  <2>12. NoneBehind'
    BY <1>1, <1>3, <1>4, <1>2, <1>14, <1>10, <2>1 DEF RunInv, NoneBehind, Smooth, Filtered,
       Mine, Before, Gathering, Moving, Told
  <2>13. RefsFollow'
    BY <1>1, <1>3, <1>4, <1>2, <1>14, <1>10, <2>1 DEF RunInv, RefsFollow, Smooth,
       Before, Gathering, Moving, Told
  <2> QED
    BY <2>2, <2>3, <2>4, <2>5, <2>6, <2>7, <2>8, <2>9, <2>10, <2>11, <2>12, <2>13 DEF
       RunInv
<1>21. TornIsKnown'
  BY <1>1, <1>3, <1>4, <1>2, <1>14, <1>10, <1>5 DEF MigrateInv, TornIsKnown, TornKnown,
     FromVault, TornIn, WasCut, Under, Has, Before, Gathering, Moving, Told
<1>22. Beside'
  BY <1>1, <1>3, <1>4, <1>2, <1>14, <1>10, <1>9 DEF MigrateInv, Beside, Alone, Excluded, Naming, Smooth, Has
<1>23. ClonesRecorded'
  BY <1>1, <1>3, <1>4, <1>2, <1>14, <1>10 DEF MigrateInv, ClonesRecorded, Mine, Under
<1>24. NamesRecorded'
  BY <1>1, <1>3, <1>4, <1>2, <1>14, <1>10, <1>9 DEF MigrateInv, NamesRecorded, Naming, Mine
<1>25. Ends'
  BY <1>1, <1>3, <1>4, <1>2, <1>14, <1>10 DEF MigrateInv, Ends
<1>26. NothingLost'
  BY <1>1, <1>3, <1>4, <1>2, <1>14, <1>10 DEF MigrateInv, NothingLost
<1>27. CleanMeansUnified'
  BY <1>1, <1>3, <1>4, <1>2, <1>14, <1>10 DEF MigrateInv, CleanMeansUnified, Ends,
     NoEnd
<1>28. OthersStand
  BY <1>13, <1>2, QuietStands DEF Absent
<1> QED
  BY <1>20, <1>16, <1>17, <1>18, <1>19, <1>21, <1>22, <1>23, <1>24, <1>25, <1>26,
     <1>27, <1>28 DEF MigrateInv

LEMMA DaemonMkdirsKeeps ==
  ASSUME MigrateInv, DaemonMkdirs PROVE MigrateInv' /\ OthersStand
<1>1. TypedTree
  BY DEF MigrateInv
<1>2. Items = {"queue", "watch", "clones"} /\ Spots = {"vault", "old", "flat", "cflat", "v2"}
  BY DEF Items, Spots
<1>3. daemon.pc = "named" /\ daemon \in DaemonRec
  BY <1>1 DEF DaemonMkdirs, TypedTree
<1>4. UNCHANGED <<ref, journal, lock, claim, vaultRoot, across, run, last, cut, warned, raced, faults, starts>>
  BY DEF DaemonMkdirs, bounds
<1>5. /\ run' = run /\ Pair' = Pair /\ Spoken' = Spoken /\ (Under' <=> Under)
  BY <1>4 DEF Pair, Spoken, Under
<1>6. /\ Under => \A q \in run.pairs : q.item # "journal" => q.item \in Items /\ q.from \in Spots \ {"old"}
      /\ Under /\ run.pc \in Moving => Pair.item \in Items /\ Pair.from \in Spots \ {"old"}
  <2>1. ASSUME Under PROVE /\ run \in RunRec /\ RunInv
                            /\ \A q \in run.pairs : q.item # "journal" => q.item \in Items /\ q.from \in Spots \ {"old"}
    BY UnderRec, <2>1 DEF MigrateInv, RunRec, Pairs, Items, Spots
  <2>2. ASSUME Under, run.pc \in Moving PROVE Pair \in run.pairs /\ Pair.item # "journal"
    BY <2>1, <2>2, PairIn DEF RunInv, PairsShaped, RunRec
  <2> QED
    BY <2>1, <2>2
<1>7. run.pc \notin {"idle", "probe", "lock"} /\ daemon.pc # "down" => raced
  BY DEF MigrateInv, Beside, Alone
<1>8. \A j \in Items : LiveAt(j, daemon.root, daemon.vault) \notin {"old", "cflat"}
  BY DEF LiveAt, QueueAt
<1>9. daemon' \in DaemonRec /\ daemon'.pc = "up"
  BY <1>3 DEF DaemonMkdirs, DaemonRec
<1>10. /\ (passed => passed') /\ (legacyThere => legacyThere')
       /\ (marked => marked') /\ (marked' /\ Has("clones", "old") => marked \/ passed')
       /\ {marked', legacyThere', passed'} \subseteq BOOLEAN
  BY <1>1 DEF DaemonMkdirs, TypedTree, MigrateInv, RootsTell
<1>11. \A j \in Items, r \in Spots : tree'[j][r] =
         IF ~IsFile(j) /\ r = LiveAt(j, daemon.root, daemon.vault) /\ ~Has(j, r) THEN {} ELSE tree[j][r]
  BY DEF DaemonMkdirs
<1>12. tree' \in Trees
  BY <1>1 DEF DaemonMkdirs, TypedTree, Trees, Content
<1>13. \A j \in Items, r \in Spots :
         /\ \A m \in {"mine", "torn", "rest"} : m \in tree'[j][r] <=> m \in tree[j][r]
         /\ tree[j][r] # Absent => tree'[j][r] # Absent
         /\ r \in {"old", "cflat"} => tree'[j][r] = tree[j][r]
         /\ "absent" \in tree'[j][r] => tree'[j][r] = tree[j][r]
  BY <1>11, <1>8 DEF Has, Absent
<1>14. \A j \in Items, r \in Spots : "news" \in tree'[j][r] => "news" \in tree[j][r]
  BY <1>11
<1>15. TypedTree'
  BY <1>1, <1>4, <1>5, <1>2, <1>13, <1>10, <1>12, <1>9 DEF MigrateInv, TypedTree
<1>16. Laid'
  BY <1>1, <1>4, <1>5, <1>2, <1>13, <1>10, <1>14 DEF MigrateInv, Laid, Mine
<1>17. RootsTell'
  BY <1>1, <1>4, <1>5, <1>2, <1>13, <1>10 DEF MigrateInv, RootsTell, Has, Mine, TornIn
<1>18. Journals'
  BY <1>1, <1>4, <1>5, <1>2, <1>13, <1>10 DEF MigrateInv, Journals
<1>19. Under' => RunInv'
  <2> SUFFICES ASSUME Under PROVE RunInv'
    BY <1>5
  <2>1. run \in RunRec /\ RunInv
    BY UnderRec DEF MigrateInv
  <2>2. Shaped'
    BY <1>1, <1>4, <1>5, <1>2, <1>13, <1>10, <2>1 DEF RunInv, Shaped, Before,
       Gathering, Moving, Told
  <2>3. PairsShaped'
    BY <1>1, <1>4, <1>5, <1>2, <1>13, <1>10, <1>6, <2>1 DEF RunInv, PairsShaped, Moving
  <2>4. Remembers'
    BY <1>1, <1>4, <1>5, <1>2, <1>13, <1>10, <2>1 DEF RunInv, Remembers, Before,
       Gathering, Moving, Told
  <2>5. Sheltered'
    BY <1>1, <1>4, <1>5, <1>2, <1>13, <1>10, <2>1 DEF RunInv, Sheltered, Has, TornIn
  <2>6. HandsOff'
    BY <1>1, <1>4, <1>5, <1>2, <1>13, <1>10, <1>6, <2>1 DEF RunInv, HandsOff, Mine,
       TornIn, Before, Gathering, Moving, Told
  <2>7. StillThere'
    BY <1>1, <1>4, <1>5, <1>2, <1>13, <1>10, <1>6, <2>1, SMTT(30) DEF RunInv, StillThere, Has,
       TornIn, Moving
  <2>8. QueueIsWhole'
    BY <1>1, <1>4, <1>5, <1>2, <1>13, <1>10, <2>1 DEF RunInv, QueueIsWhole, TornIn,
       Before
  <2>9. DoneIsWhole'
    BY <1>1, <1>4, <1>5, <1>2, <1>13, <1>10, <2>1 DEF RunInv, DoneIsWhole, TornIn
  <2>10. ConflictsTold'
    BY <1>1, <1>4, <1>5, <1>2, <1>13, <1>10, <2>1 DEF RunInv, ConflictsTold, TornIn,
       WasCut
  <2>11. Gathered'
    BY <1>1, <1>4, <1>5, <1>2, <1>13, <1>10, <2>1 DEF RunInv, Gathered, Smooth,
       Filtered, Mine, Has, Before, Gathering, Moving, Told
  <2>12. NoneBehind'
    BY <1>1, <1>4, <1>5, <1>2, <1>13, <1>10, <2>1 DEF RunInv, NoneBehind, Smooth, Filtered,
       Mine, Before, Gathering, Moving, Told
  <2>13. RefsFollow'
    BY <1>1, <1>4, <1>5, <1>2, <1>13, <1>10, <2>1 DEF RunInv, RefsFollow, Smooth,
       Before, Gathering, Moving, Told
  <2> QED
    BY <2>2, <2>3, <2>4, <2>5, <2>6, <2>7, <2>8, <2>9, <2>10, <2>11, <2>12, <2>13 DEF
       RunInv
<1>20. TornIsKnown'
  BY <1>1, <1>4, <1>5, <1>2, <1>13, <1>10, <1>6 DEF MigrateInv, TornIsKnown, TornKnown,
     FromVault, TornIn, WasCut, Under, Has, Before, Gathering, Moving, Told
<1>21. Beside'
  BY <1>1, <1>4, <1>5, <1>2, <1>13, <1>10, <1>7, <1>3, <1>9 DEF MigrateInv, Beside, Alone, Excluded, Naming, Smooth, Has
<1>22. ClonesRecorded'
  BY <1>1, <1>4, <1>5, <1>2, <1>13, <1>10 DEF MigrateInv, ClonesRecorded, Mine, Under
<1>23. NamesRecorded'
  BY <1>1, <1>4, <1>5, <1>2, <1>13, <1>10, <1>3, <1>9 DEF MigrateInv, NamesRecorded, Naming, Mine
<1>24. Ends'
  BY <1>1, <1>4, <1>5, <1>2, <1>13, <1>10 DEF MigrateInv, Ends
<1>25. NothingLost'
  BY <1>1, <1>4, <1>5, <1>2, <1>13, <1>10 DEF MigrateInv, NothingLost
<1>26. CleanMeansUnified'
  BY <1>1, <1>4, <1>5, <1>2, <1>13, <1>10 DEF MigrateInv, CleanMeansUnified, Ends,
     NoEnd
<1>27. OthersStand
  BY <1>11, <1>2, QuietStands DEF Has, Absent
<1> QED
  BY <1>19, <1>15, <1>16, <1>17, <1>18, <1>20, <1>21, <1>22, <1>23, <1>24, <1>25,
     <1>26, <1>27 DEF MigrateInv

LEMMA DaemonWritesKeeps ==
  ASSUME MigrateInv, NEW i \in Items, DaemonWrites(i) PROVE MigrateInv' /\ OthersStand
<1>1. TypedTree
  BY DEF MigrateInv
<1>2. Items = {"queue", "watch", "clones"} /\ Spots = {"vault", "old", "flat", "cflat", "v2"}
  BY DEF Items, Spots
<1>3. daemon.pc = "up"
  BY DEF DaemonWrites
<1>4. UNCHANGED <<ref, journal, lock, claim, legacyThere, marked, vaultRoot, across, run, daemon, last,
                  cut, warned, raced, passed, faults, starts>>
  BY DEF DaemonWrites, bounds, machine, ghosts
<1>5. /\ run' = run /\ Pair' = Pair /\ Spoken' = Spoken /\ (Under' <=> Under)
  BY <1>4 DEF Pair, Spoken, Under
<1>6. /\ Under => \A q \in run.pairs : q.item # "journal" => q.item \in Items /\ q.from \in Spots \ {"old"}
      /\ Under /\ run.pc \in Moving => Pair.item \in Items /\ Pair.from \in Spots \ {"old"}
  <2>1. ASSUME Under PROVE /\ run \in RunRec /\ RunInv
                            /\ \A q \in run.pairs : q.item # "journal" => q.item \in Items /\ q.from \in Spots \ {"old"}
    BY UnderRec, <2>1 DEF MigrateInv, RunRec, Pairs, Items, Spots
  <2>2. ASSUME Under, run.pc \in Moving PROVE Pair \in run.pairs /\ Pair.item # "journal"
    BY <2>1, <2>2, PairIn DEF RunInv, PairsShaped, RunRec
  <2> QED
    BY <2>1, <2>2
<1>7. run.pc \notin {"idle", "probe", "lock"} /\ daemon.pc # "down" => raced
  BY DEF MigrateInv, Beside, Alone
<1> DEFINE p == LiveAt(i, daemon.root, daemon.vault)
    v == (tree[i][p] \ Absent) \cup {"news"}
<1>8. p \in {"vault", "flat", "v2"} /\ p \in Spots
  BY <1>2 DEF LiveAt, QueueAt
<1>9. tree' = [tree EXCEPT ![i][p] = v] /\ "mine" \notin tree[i][p]
  BY DEF DaemonWrites
<1> HIDE DEF p
<1>10. /\ v \in Content /\ "absent" \notin v /\ "mine" \notin v /\ "news" \in v /\ \A m \in {"torn", "rest"} : m \in v <=> m \in tree[i][p]
  BY <1>1, <1>8, <1>9 DEF TypedTree, Trees, Content, Absent
<1> HIDE DEF v
<1>11. /\ tree' \in Trees /\ tree'[i][p] = v
       /\ \A j \in Items, r \in Spots : j # i \/ r # p => tree'[j][r] = tree[j][r]
  BY <1>1, <1>9, <1>8, <1>10 DEF TypedTree, Trees
<1>12. \A j \in Items, r \in Spots :
         /\ \A m \in {"mine", "torn", "rest"} : m \in tree'[j][r] <=> m \in tree[j][r]
         /\ tree[j][r] # Absent => tree'[j][r] # Absent
         /\ r \in {"old", "cflat"} => tree'[j][r] = tree[j][r]
         /\ "absent" \in tree'[j][r] => tree'[j][r] = tree[j][r]
  BY <1>11, <1>8, <1>10, <1>9 DEF Absent
<1>13. TypedTree'
  BY <1>1, <1>4, <1>5, <1>2, <1>12, <1>11 DEF MigrateInv, TypedTree
<1>14. Laid'
  BY <1>1, <1>4, <1>5, <1>2, <1>12, <1>11, <1>10, <1>8 DEF MigrateInv, Laid, Mine
<1>15. RootsTell'
  BY <1>1, <1>4, <1>5, <1>2, <1>12 DEF MigrateInv, RootsTell, Has, Mine, TornIn
<1>16. Journals'
  BY <1>1, <1>4, <1>5, <1>2, <1>12 DEF MigrateInv, Journals
<1>17. Under' => RunInv'
  <2> SUFFICES ASSUME Under PROVE RunInv'
    BY <1>5
  <2>1. run \in RunRec /\ RunInv
    BY UnderRec DEF MigrateInv
  <2>2. Shaped'
    BY <1>1, <1>4, <1>5, <1>2, <1>12, <2>1 DEF RunInv, Shaped, Before, Gathering,
       Moving, Told
  <2>3. PairsShaped'
    BY <1>1, <1>4, <1>5, <1>2, <1>12, <1>6, <2>1 DEF RunInv, PairsShaped, Moving
  <2>4. Remembers'
    BY <1>1, <1>4, <1>5, <1>2, <1>12, <2>1 DEF RunInv, Remembers, Before, Gathering,
       Moving, Told
  <2>5. Sheltered'
    BY <1>1, <1>4, <1>5, <1>2, <1>12, <2>1 DEF RunInv, Sheltered, Has, TornIn
  <2>6. HandsOff'
    BY <1>1, <1>4, <1>5, <1>2, <1>12, <1>6, <2>1 DEF RunInv, HandsOff, Mine, TornIn,
       Before, Gathering, Moving, Told
  <2>7. StillThere'
    BY <1>1, <1>4, <1>5, <1>2, <1>12, <1>6, <2>1 DEF RunInv, StillThere, Has, TornIn,
       Moving
  <2>8. QueueIsWhole'
    BY <1>1, <1>4, <1>5, <1>2, <1>12, <2>1 DEF RunInv, QueueIsWhole, TornIn, Before
  <2>9. DoneIsWhole'
    BY <1>1, <1>4, <1>5, <1>2, <1>12, <2>1 DEF RunInv, DoneIsWhole, TornIn
  <2>10. ConflictsTold'
    BY <1>1, <1>4, <1>5, <1>2, <1>12, <2>1 DEF RunInv, ConflictsTold, TornIn, WasCut
  <2>11. Gathered'
    BY <1>1, <1>4, <1>5, <1>2, <1>12, <2>1 DEF RunInv, Gathered, Smooth, Filtered,
       Mine, Has, Before, Gathering, Moving, Told
  <2>12. NoneBehind'
    BY <1>1, <1>4, <1>5, <1>2, <1>12, <2>1 DEF RunInv, NoneBehind, Smooth, Filtered, Mine,
       Before, Gathering, Moving, Told
  <2>13. RefsFollow'
    BY <1>1, <1>4, <1>5, <1>2, <1>12, <2>1 DEF RunInv, RefsFollow, Smooth, Before,
       Gathering, Moving, Told
  <2> QED
    BY <2>2, <2>3, <2>4, <2>5, <2>6, <2>7, <2>8, <2>9, <2>10, <2>11, <2>12, <2>13 DEF
       RunInv
<1>18. TornIsKnown'
  BY <1>1, <1>4, <1>5, <1>2, <1>12, <1>6 DEF MigrateInv, TornIsKnown, TornKnown,
     FromVault, TornIn, WasCut, Under, Has, Before, Gathering, Moving, Told
<1>19. Beside'
  BY <1>1, <1>4, <1>5, <1>2, <1>12, <1>7, <1>3 DEF MigrateInv, Beside, Alone, Excluded, Naming, Smooth, Has
<1>20. ClonesRecorded'
  BY <1>1, <1>4, <1>5, <1>2, <1>12 DEF MigrateInv, ClonesRecorded, Mine, Under
<1>21. NamesRecorded'
  BY <1>1, <1>4, <1>5, <1>2, <1>12 DEF MigrateInv, NamesRecorded, Naming, Mine
<1>22. Ends'
  BY <1>1, <1>4, <1>5, <1>2, <1>12 DEF MigrateInv, Ends
<1>23. NothingLost'
  BY <1>1, <1>4, <1>5, <1>2, <1>12 DEF MigrateInv, NothingLost
<1>24. CleanMeansUnified'
  BY <1>1, <1>4, <1>5, <1>2, <1>12 DEF MigrateInv, CleanMeansUnified, Ends, NoEnd
<1>25. OthersStand
  BY <1>11, <1>10, <1>8, <1>2, QuietStands
<1> QED
  BY <1>17, <1>13, <1>14, <1>15, <1>16, <1>18, <1>19, <1>20, <1>21, <1>22, <1>23,
     <1>24, <1>25 DEF MigrateInv

LEMMA DaemonEndsKeeps ==
  ASSUME MigrateInv, NEW killed \in BOOLEAN, DaemonEnds(killed) PROVE MigrateInv'
<1>1. TypedTree
  BY DEF MigrateInv
<1>2. UNCHANGED <<tree, ref, journal, lock, legacyThere, marked, vaultRoot, across, run, last,
                  warned, raced, passed, starts>>
  BY DEF DaemonEnds, machine
<1>3. /\ run' = run /\ Pair' = Pair /\ Spoken' = Spoken /\ (Under' <=> Under)
  BY <1>2 DEF Pair, Spoken, Under
<1>4. run.pc \notin {"idle", "probe", "lock"} /\ daemon.pc # "down" => raced
  BY DEF MigrateInv, Beside, Alone
<1>5. daemon' \in DaemonRec /\ daemon'.pc = "down"
  BY DEF DaemonEnds, Down, DaemonRec, Roots
<1>6. claim' \in [ClaimPlaces -> {"none", "live", "stale"}] /\ faults' \in 0 .. MaxFaults
  BY <1>1, BoundsAssumption DEF DaemonEnds, TypedTree
<1>c. /\ cut \subseteq cut' /\ cut' \in SUBSET Moves
      /\ Naming => OldName \in cut'
  BY <1>1 DEF DaemonEnds, TypedTree, Moves
<1>7. TypedTree'
  BY <1>1, <1>2, <1>c, <1>3, <1>6, <1>5 DEF MigrateInv, TypedTree
<1>8. Laid'
  BY <1>1, <1>2, <1>c, <1>3 DEF MigrateInv, Laid, Mine
<1>9. RootsTell'
  BY <1>1, <1>2, <1>c, <1>3 DEF MigrateInv, RootsTell, Has, Mine, TornIn
<1>10. Journals'
  BY <1>1, <1>2, <1>c, <1>3 DEF MigrateInv, Journals
<1>11. Under' => RunInv'
  <2> SUFFICES ASSUME Under PROVE RunInv'
    BY <1>3
  <2>1. run \in RunRec /\ RunInv
    BY UnderRec DEF MigrateInv
  <2>2. Shaped'
    BY <1>1, <1>2, <1>c, <1>3, <2>1 DEF RunInv, Shaped, Before, Gathering, Moving, Told
  <2>3. PairsShaped'
    BY <1>1, <1>2, <1>c, <1>3, <2>1 DEF RunInv, PairsShaped, Moving
  <2>4. Remembers'
    BY <1>1, <1>2, <1>c, <1>3, <2>1 DEF RunInv, Remembers, Before, Gathering, Moving, Told
  <2>5. Sheltered'
    BY <1>1, <1>2, <1>c, <1>3, <2>1 DEF RunInv, Sheltered, Has, TornIn
  <2>6. HandsOff'
    BY <1>1, <1>2, <1>c, <1>3, <2>1 DEF RunInv, HandsOff, Mine, TornIn, Before, Gathering,
       Moving, Told
  <2>7. StillThere'
    BY <1>1, <1>2, <1>c, <1>3, <2>1 DEF RunInv, StillThere, Has, TornIn, Moving
  <2>8. QueueIsWhole'
    BY <1>1, <1>2, <1>c, <1>3, <2>1 DEF RunInv, QueueIsWhole, TornIn, Before
  <2>9. DoneIsWhole'
    BY <1>1, <1>2, <1>c, <1>3, <2>1 DEF RunInv, DoneIsWhole, TornIn
  <2>10. ConflictsTold'
    BY <1>1, <1>2, <1>c, <1>3, <2>1 DEF RunInv, ConflictsTold, TornIn, WasCut
  <2>11. Gathered'
    BY <1>1, <1>2, <1>c, <1>3, <2>1 DEF RunInv, Gathered, Smooth, Filtered, Mine, Has,
       Before, Gathering, Moving, Told
  <2>12. NoneBehind'
    BY <1>1, <1>2, <1>c, <1>3, <2>1 DEF RunInv, NoneBehind, Smooth, Filtered, Mine, Before,
       Gathering, Moving, Told
  <2>13. RefsFollow'
    BY <1>1, <1>2, <1>c, <1>3, <2>1 DEF RunInv, RefsFollow, Smooth, Before, Gathering,
       Moving, Told
  <2> QED
    BY <2>2, <2>3, <2>4, <2>5, <2>6, <2>7, <2>8, <2>9, <2>10, <2>11, <2>12, <2>13 DEF
       RunInv
<1>12. TornIsKnown'
  BY <1>1, <1>2, <1>c, <1>3 DEF MigrateInv, TornIsKnown, TornKnown, FromVault, TornIn,
     WasCut, Under, Has, Before, Gathering, Moving, Told
<1>13. Beside'
  BY <1>1, <1>2, <1>c, <1>3, <1>5, <1>4 DEF MigrateInv, Beside, Alone, Excluded, Naming, Smooth, Has
<1>14. ClonesRecorded'
  BY <1>1, <1>2, <1>c, <1>3 DEF MigrateInv, ClonesRecorded, Mine, Under
<1>15. NamesRecorded'
  BY <1>1, <1>2, <1>c, <1>3 DEF MigrateInv, NamesRecorded, Naming, Mine
<1>16. Ends'
  BY <1>1, <1>2, <1>c, <1>3 DEF MigrateInv, Ends
<1>17. NothingLost'
  BY <1>1, <1>2, <1>c, <1>3 DEF MigrateInv, NothingLost
<1>18. CleanMeansUnified'
  BY <1>1, <1>2, <1>c, <1>3 DEF MigrateInv, CleanMeansUnified, Ends, NoEnd
<1> QED
  BY <1>11, <1>7, <1>8, <1>9, <1>10, <1>12, <1>13, <1>14, <1>15, <1>16, <1>17, <1>18
     DEF MigrateInv

LEMMA DaemonNamesKeeps ==
  ASSUME MigrateInv, DaemonNames PROVE MigrateInv' /\ OthersStand
<1>1. TypedTree
  BY DEF MigrateInv
<1>2. Items = {"queue", "watch", "clones"} /\ Spots = {"vault", "old", "flat", "cflat", "v2"}
  BY DEF Items, Spots
<1>3. daemon.pc = "loaded" /\ daemon \in DaemonRec
  BY <1>1 DEF DaemonNames, TypedTree
<1>4. UNCHANGED <<ref, journal, lock, claim, legacyThere, marked, vaultRoot, across, run, last,
                  cut, warned, raced, passed, faults, starts>>
  BY DEF DaemonNames, machine, ghosts, bounds
<1>5. /\ run' = run /\ Pair' = Pair /\ Spoken' = Spoken /\ (Under' <=> Under)
  BY <1>4 DEF Pair, Spoken, Under
<1>6. /\ Under => \A q \in run.pairs : q.item # "journal" => q.item \in Items /\ q.from \in Spots \ {"old"}
      /\ Under /\ run.pc \in Moving => Pair.item \in Items /\ Pair.from \in Spots \ {"old"}
  <2>1. ASSUME Under PROVE /\ run \in RunRec /\ RunInv
                            /\ \A q \in run.pairs : q.item # "journal" => q.item \in Items /\ q.from \in Spots \ {"old"}
    BY UnderRec, <2>1 DEF MigrateInv, RunRec, Pairs, Items, Spots
  <2>2. ASSUME Under, run.pc \in Moving PROVE Pair \in run.pairs /\ Pair.item # "journal"
    BY <2>1, <2>2, PairIn DEF RunInv, PairsShaped, RunRec
  <2> QED
    BY <2>1, <2>2
<1>7. run.pc \notin {"idle", "probe", "lock"} /\ daemon.pc # "down" => raced
  BY DEF MigrateInv, Beside, Alone
<1>8. daemon' \in DaemonRec
  BY <1>3 DEF DaemonNames, DaemonRec
<1>9. CASE ~lock[daemon.root] /\ OldNameMoves(daemon.root)
  <2>1. /\ daemon.root = "L" /\ tree["clones"]["old"] = {"mine"} /\ tree["clones"]["flat"] \in {Absent, {}}
    BY <1>9 DEF MigrateInv, Laid, OldNameMoves, Has, IsRecursivelyEmptyDir
  <2>2. tree' = [tree EXCEPT !["clones"]["old"] = Absent, !["clones"]["flat"] = {"mine"}]
    BY <1>9, <2>1 DEF DaemonNames, Moved
  <2>3. Absent \in Content /\ {"mine"} \in Content
    BY DEF Content, Absent
  <2>4. /\ tree' \in Trees
        /\ tree'["clones"]["old"] = Absent
        /\ tree'["clones"]["flat"] = {"mine"}
        /\ \A j \in Items, r \in Spots : j # "clones" \/ r \notin {"old", "flat"} => tree'[j][r] = tree[j][r]
    BY <1>1, <2>2, <2>3, <1>2 DEF TypedTree, Trees
  <2>5. daemon'.pc = "naming" /\ ~lock["L"]
    BY <1>9, <2>1, <1>3 DEF DaemonNames, DaemonRec
  <2>6. /\ \A j \in Items, r \in Spots : j # "clones" \/ r \notin {"old", "flat"} => tree'[j][r] = tree[j][r]
        /\ \A j \in Items, r \in Spots \ {"old"} : tree[j][r] # Absent => tree'[j][r] # Absent
        /\ \A j \in Items, r \in Spots : "rest" \in tree[j][r] => tree'[j][r] = tree[j][r]
        /\ tree'["clones"]["old"] = Absent
    BY <2>4, <2>1, <1>2 DEF Absent
  <2>7. Under /\ run.pc \in Filtered => ~Smooth
    BY <2>1 DEF MigrateInv, RunInv, Gathered, Has, Absent
  <2>8. TypedTree'
    BY <1>1, <1>4, <1>5, <1>2, <2>4, <2>6, <2>5, <2>1, <1>8 DEF MigrateInv, TypedTree
  <2>9. Laid'
    BY <1>1, <1>4, <1>5, <1>2, <2>4, <2>6, <2>5, <2>1 DEF MigrateInv, Laid, Mine,
       MineAt, Absent
  <2>10. RootsTell'
    BY <1>1, <1>4, <1>5, <1>2, <2>4, <2>6, <2>5, <2>1 DEF MigrateInv, RootsTell, Has,
       Mine, TornIn
  <2>11. Journals'
    BY <1>1, <1>4, <1>5, <1>2, <2>4, <2>6, <2>5, <2>1 DEF MigrateInv, Journals
  <2>12. Under' => RunInv'
    <3> SUFFICES ASSUME Under PROVE RunInv'
      BY <1>5
    <3>1. run \in RunRec /\ RunInv
      BY UnderRec DEF MigrateInv
    <3>2. Shaped'
      BY <1>1, <1>4, <1>5, <1>2, <2>4, <2>6, <2>5, <2>1, <3>1 DEF RunInv, Shaped,
         Before, Gathering, Moving, Told
    <3>3. PairsShaped'
      BY <1>1, <1>4, <1>5, <1>2, <2>4, <2>6, <2>5, <2>1, <1>6, <3>1 DEF RunInv,
         PairsShaped, Moving
    <3>4. Remembers'
      BY <1>1, <1>4, <1>5, <1>2, <2>4, <2>6, <2>5, <2>1, <3>1 DEF RunInv, Remembers,
         Before, Gathering, Moving, Told
    <3>5. Sheltered'
      BY <1>1, <1>4, <1>5, <1>2, <2>4, <2>6, <2>5, <2>1, <3>1 DEF RunInv, Sheltered,
         Has, TornIn
    <3>6. HandsOff'
      BY <1>1, <1>4, <1>5, <1>2, <2>4, <2>6, <2>5, <2>1, <1>6, <3>1 DEF RunInv,
         HandsOff, Mine, TornIn, Before, Gathering, Moving, Told, RunInv, StillThere
    <3>7. StillThere'
      BY <1>1, <1>4, <1>5, <1>2, <2>4, <2>6, <2>5, <2>1, <1>6, <3>1 DEF RunInv,
         StillThere, Has, TornIn, Moving
    <3>8. QueueIsWhole'
      BY <1>1, <1>4, <1>5, <1>2, <2>4, <2>6, <2>5, <2>1, <3>1 DEF RunInv, QueueIsWhole,
         TornIn, Before
    <3>9. DoneIsWhole'
      BY <1>1, <1>4, <1>5, <1>2, <2>4, <2>6, <2>5, <2>1, <3>1 DEF RunInv, DoneIsWhole,
         TornIn
    <3>10. ConflictsTold'
      BY <1>1, <1>4, <1>5, <1>2, <2>4, <2>6, <2>5, <2>1, <3>1 DEF RunInv,
         ConflictsTold, TornIn, WasCut
    <3>11. Gathered'
      BY <1>1, <1>4, <1>5, <1>2, <2>4, <2>6, <2>5, <2>1, <3>1 DEF RunInv, Gathered,
         Smooth, Filtered, Mine, Has, Before, Gathering, Moving, Told
    <3>12. NoneBehind'
      BY <1>1, <1>4, <1>5, <1>2, <2>4, <2>6, <2>5, <2>1, <2>7, <3>1 DEF RunInv, NoneBehind,
         Smooth, Filtered, Mine, Before, Gathering, Moving, Told
    <3>13. RefsFollow'
      BY <1>1, <1>4, <1>5, <1>2, <2>4, <2>6, <2>5, <2>1, <3>1 DEF RunInv, RefsFollow,
         Smooth, Before, Gathering, Moving, Told
    <3> QED
      BY <3>2, <3>3, <3>4, <3>5, <3>6, <3>7, <3>8, <3>9, <3>10, <3>11, <3>12, <3>13 DEF
         RunInv
  <2>13. TornIsKnown'
    BY <1>1, <1>4, <1>5, <1>2, <2>4, <2>6, <2>5, <2>1, <1>6 DEF MigrateInv,
       TornIsKnown, TornKnown, FromVault, TornIn, WasCut, Under, Has, Before,
       Gathering, Moving, Told
  <2>14. Beside'
    <3>1. Alone'
      BY <1>1, <1>4, <1>5, <1>7, <1>3 DEF Alone
    <3>2. run.pc \in {"idle", "probe", "lock", "config"}
      BY <2>1, <2>5 DEF MigrateInv, Beside, Excluded, Has, Absent
    <3>3. run.pc = "config" => ~Smooth
      BY <2>7 DEF Under, NoRun, Filtered, Told
    <3>4. Excluded'
      BY <3>2, <3>3, <1>4 DEF Excluded, Smooth
    <3> QED
      BY <3>1, <3>4 DEF Beside
  <2>15. ClonesRecorded'
    BY <1>1, <1>4, <1>5, <1>2, <2>4, <2>6, <2>5, <2>1 DEF MigrateInv, ClonesRecorded,
       Mine, Under
  <2>16. NamesRecorded'
    BY <1>1, <1>4, <1>5, <1>2, <2>4, <2>6, <2>5, <2>1 DEF MigrateInv, NamesRecorded, Naming,
       Mine
  <2>17. Ends'
    BY <1>1, <1>4, <1>5, <1>2, <2>4, <2>6, <2>5, <2>1 DEF MigrateInv, Ends
  <2>18. NothingLost'
    BY <1>1, <1>4, <1>5, <1>2, <2>4, <2>6, <2>5, <2>1 DEF MigrateInv, NothingLost
  <2>19. CleanMeansUnified'
    BY <1>1, <1>4, <1>5, <1>2, <2>4, <2>6, <2>5, <2>1 DEF MigrateInv,
       CleanMeansUnified, Ends, NoEnd
  <2>20. OthersStand
    BY <2>4, <2>1, <1>2, QuietStands DEF Absent
  <2> QED
    BY <2>12, <2>8, <2>9, <2>10, <2>11, <2>13, <2>14, <2>15, <2>16, <2>17, <2>18,
       <2>19, <2>20 DEF MigrateInv
<1>10. CASE ~(~lock[daemon.root] /\ OldNameMoves(daemon.root))
  <2>1. UNCHANGED tree /\ daemon'.pc = "named"
    BY <1>10, <1>3 DEF DaemonNames, DaemonRec
  <2>2. TypedTree'
    BY <1>1, <1>4, <1>5, <2>1, <1>8 DEF MigrateInv, TypedTree
  <2>3. Laid'
    BY <1>1, <1>4, <1>5, <2>1 DEF MigrateInv, Laid, Mine
  <2>4. RootsTell'
    BY <1>1, <1>4, <1>5, <2>1 DEF MigrateInv, RootsTell, Has, Mine, TornIn
  <2>5. Journals'
    BY <1>1, <1>4, <1>5, <2>1 DEF MigrateInv, Journals
  <2>6. Under' => RunInv'
    <3> SUFFICES ASSUME Under PROVE RunInv'
      BY <1>5
    <3>1. run \in RunRec /\ RunInv
      BY UnderRec DEF MigrateInv
    <3>2. Shaped'
      BY <1>1, <1>4, <1>5, <2>1, <3>1 DEF RunInv, Shaped, Before, Gathering, Moving,
         Told
    <3>3. PairsShaped'
      BY <1>1, <1>4, <1>5, <2>1, <3>1 DEF RunInv, PairsShaped, Moving
    <3>4. Remembers'
      BY <1>1, <1>4, <1>5, <2>1, <3>1 DEF RunInv, Remembers, Before, Gathering, Moving,
         Told
    <3>5. Sheltered'
      BY <1>1, <1>4, <1>5, <2>1, <3>1 DEF RunInv, Sheltered, Has, TornIn
    <3>6. HandsOff'
      BY <1>1, <1>4, <1>5, <2>1, <3>1 DEF RunInv, HandsOff, Mine, TornIn, Before,
         Gathering, Moving, Told
    <3>7. StillThere'
      BY <1>1, <1>4, <1>5, <2>1, <3>1 DEF RunInv, StillThere, Has, TornIn, Moving
    <3>8. QueueIsWhole'
      BY <1>1, <1>4, <1>5, <2>1, <3>1 DEF RunInv, QueueIsWhole, TornIn, Before
    <3>9. DoneIsWhole'
      BY <1>1, <1>4, <1>5, <2>1, <3>1 DEF RunInv, DoneIsWhole, TornIn
    <3>10. ConflictsTold'
      BY <1>1, <1>4, <1>5, <2>1, <3>1 DEF RunInv, ConflictsTold, TornIn, WasCut
    <3>11. Gathered'
      BY <1>1, <1>4, <1>5, <2>1, <3>1 DEF RunInv, Gathered, Smooth, Filtered, Mine,
         Has, Before, Gathering, Moving, Told
    <3>12. NoneBehind'
      BY <1>1, <1>4, <1>5, <2>1, <3>1 DEF RunInv, NoneBehind, Smooth, Filtered, Mine,
         Before, Gathering, Moving, Told
    <3>13. RefsFollow'
      BY <1>1, <1>4, <1>5, <2>1, <3>1 DEF RunInv, RefsFollow, Smooth, Before,
         Gathering, Moving, Told
    <3> QED
      BY <3>2, <3>3, <3>4, <3>5, <3>6, <3>7, <3>8, <3>9, <3>10, <3>11, <3>12, <3>13 DEF
         RunInv
  <2>7. TornIsKnown'
    BY <1>1, <1>4, <1>5, <2>1 DEF MigrateInv, TornIsKnown, TornKnown, FromVault,
       TornIn, WasCut, Under, Has, Before, Gathering, Moving, Told
  <2>8. Beside'
    BY <1>1, <1>4, <1>5, <2>1, <1>7, <1>3 DEF MigrateInv, Beside, Alone, Excluded, Naming, Smooth, Has
  <2>9. ClonesRecorded'
    BY <1>1, <1>4, <1>5, <2>1 DEF MigrateInv, ClonesRecorded, Mine, Under
  <2>10. NamesRecorded'
    BY <1>1, <1>4, <1>5, <2>1, <1>3 DEF MigrateInv, NamesRecorded, Naming, Mine
  <2>11. Ends'
    BY <1>1, <1>4, <1>5, <2>1 DEF MigrateInv, Ends
  <2>12. NothingLost'
    BY <1>1, <1>4, <1>5, <2>1 DEF MigrateInv, NothingLost
  <2>13. CleanMeansUnified'
    BY <1>1, <1>4, <1>5, <2>1 DEF MigrateInv, CleanMeansUnified, Ends, NoEnd
  <2>14. OthersStand
    BY <2>1, QuietStands
  <2> QED
    BY <2>6, <2>2, <2>3, <2>4, <2>5, <2>7, <2>8, <2>9, <2>10, <2>11, <2>12, <2>13,
       <2>14 DEF MigrateInv
<1> QED
  BY <1>9, <1>10

LEMMA DaemonJournalsNamesKeeps ==
  ASSUME MigrateInv, DaemonJournalsNames PROVE MigrateInv' /\ OthersStand
<1>1. TypedTree
  BY DEF MigrateInv
<1>3. Naming /\ daemon \in DaemonRec
  BY <1>1 DEF DaemonJournalsNames, TypedTree
<1>4. UNCHANGED <<tree, ref, lock, claim, legacyThere, marked, vaultRoot, across, run, last,
                  cut, warned, raced, passed, faults, starts>>
  BY DEF DaemonJournalsNames, machine, ghosts, bounds
<1>5. /\ run' = run /\ Pair' = Pair /\ Spoken' = Spoken /\ (Under' <=> Under)
  BY <1>4 DEF Pair, Spoken, Under
<1>6. /\ journal' \in [Roots -> JournalRec] /\ journal'["C"] = journal["C"]
      /\ journal'["L"].there = TRUE /\ journal'["L"].renamed = journal["L"].renamed \cup {OldName}
  <2>1. AppendRenamed(journal["L"], {OldName}) \in JournalRec
    BY <1>1 DEF TypedTree, JournalRec, AppendRenamed, Moves, Roots
  <2>2. journal' = [journal EXCEPT !["L"] = AppendRenamed(journal["L"], {OldName})]
    BY DEF DaemonJournalsNames
  <2>3. journal' \in [Roots -> JournalRec] /\ journal'["C"] = journal["C"] /\ journal'["L"] = AppendRenamed(journal["L"], {OldName})
    BY <1>1, <2>1, <2>2 DEF TypedTree, Roots
  <2> QED
    BY <2>3 DEF AppendRenamed
<1>7. daemon' \in DaemonRec /\ daemon'.pc = "named"
  BY <1>3 DEF DaemonJournalsNames, DaemonRec
<1>8. /\ run.pc \notin {"idle", "probe", "lock"} /\ daemon.pc # "down" => raced
      /\ Under /\ run.pc \in Filtered => ~Smooth
  BY <1>3, UnderRec DEF MigrateInv, Beside, Alone, Excluded, Filtered, Moving, Told, Naming
<1>10. TypedTree'
  BY <1>1, <1>4, <1>5, <1>6, <1>7, <1>8 DEF MigrateInv, TypedTree
<1>11. Laid'
  BY <1>1, <1>4, <1>5, <1>6, <1>7 DEF MigrateInv, Laid, Mine
<1>12. RootsTell'
  BY <1>1, <1>4, <1>5, <1>6, <1>7 DEF MigrateInv, RootsTell, Has, Mine, TornIn
<1>13. Journals'
  BY <1>1, <1>4, <1>5, <1>6, <1>7 DEF MigrateInv, Journals
<1>14. Under' => RunInv'
  <2> SUFFICES ASSUME Under PROVE RunInv'
    BY <1>5
  <2>1. run \in RunRec /\ RunInv
    BY UnderRec DEF MigrateInv
  <2>2. Shaped'
    BY <1>1, <1>4, <1>5, <1>6, <1>7, <2>1 DEF RunInv, Shaped, Before, Gathering, Moving,
       Told
  <2>3. PairsShaped'
    BY <1>1, <1>4, <1>5, <1>6, <1>7, <2>1 DEF RunInv, PairsShaped, Moving
  <2>4. Remembers'
    BY <1>1, <1>4, <1>5, <1>6, <1>7, <2>1 DEF RunInv, Remembers, Before, Gathering, Moving,
       Told
  <2>5. Sheltered'
    BY <1>1, <1>4, <1>5, <1>6, <1>7, <2>1 DEF RunInv, Sheltered, Has, TornIn
  <2>6. HandsOff'
    BY <1>1, <1>4, <1>5, <1>6, <1>7, <2>1 DEF RunInv, HandsOff, Mine, TornIn, Before,
       Gathering, Moving, Told
  <2>7. StillThere'
    BY <1>1, <1>4, <1>5, <1>6, <1>7, <2>1 DEF RunInv, StillThere, Has, TornIn, Moving
  <2>8. QueueIsWhole'
    BY <1>1, <1>4, <1>5, <1>6, <1>7, <2>1 DEF RunInv, QueueIsWhole, TornIn, Before
  <2>9. DoneIsWhole'
    BY <1>1, <1>4, <1>5, <1>6, <1>7, <2>1 DEF RunInv, DoneIsWhole, TornIn
  <2>10. ConflictsTold'
    BY <1>1, <1>4, <1>5, <1>6, <1>7, <2>1 DEF RunInv, ConflictsTold, TornIn, WasCut
  <2>11. Gathered'
    BY <1>1, <1>4, <1>5, <1>6, <1>7, <2>1 DEF RunInv, Gathered, Smooth, Filtered, Mine,
       Has, Before, Gathering, Moving, Told
  <2>12. NoneBehind'
    BY <1>1, <1>4, <1>5, <1>6, <1>7, <1>8, <2>1 DEF RunInv, NoneBehind, Smooth, Filtered, Mine,
       Before, Gathering, Moving, Told
  <2>13. RefsFollow'
    BY <1>1, <1>4, <1>5, <1>6, <1>7, <2>1 DEF RunInv, RefsFollow, Smooth, Before,
       Gathering, Moving, Told
  <2> QED
    BY <2>2, <2>3, <2>4, <2>5, <2>6, <2>7, <2>8, <2>9, <2>10, <2>11, <2>12, <2>13 DEF
       RunInv
<1>15. TornIsKnown'
  BY <1>1, <1>4, <1>5, <1>6, <1>7 DEF MigrateInv, TornIsKnown, TornKnown, FromVault,
     TornIn, WasCut, Under, Has, Before, Gathering, Moving, Told
<1>16. Beside'
  BY <1>1, <1>4, <1>5, <1>6, <1>7, <1>3, <1>8 DEF MigrateInv, Beside, Alone, Excluded, Naming, Smooth, Has
<1>17. ClonesRecorded'
  BY <1>1, <1>4, <1>5, <1>6, <1>7 DEF MigrateInv, ClonesRecorded, Mine, Under
<1>18. NamesRecorded'
  BY <1>1, <1>4, <1>5, <1>6, <1>7 DEF MigrateInv, NamesRecorded, Naming, Mine
<1>19. Ends'
  BY <1>1, <1>4, <1>5, <1>6, <1>7 DEF MigrateInv, Ends
<1>20. NothingLost'
  BY <1>1, <1>4, <1>5, <1>6, <1>7 DEF MigrateInv, NothingLost
<1>21. CleanMeansUnified'
  BY <1>1, <1>4, <1>5, <1>6, <1>7 DEF MigrateInv, CleanMeansUnified, Ends, NoEnd
<1>22. OthersStand
  BY <1>4, QuietStands
<1> QED
  BY <1>14, <1>10, <1>11, <1>12, <1>13, <1>15, <1>16, <1>17, <1>18, <1>19, <1>20, <1>21,
     <1>22 DEF MigrateInv

\* A machine before its first migration.
LEMMA MigrateInitHolds == MigrateInit => MigrateInv
<1> SUFFICES ASSUME MigrateInit PROVE MigrateInv
  OBVIOUS
<1>1. Items = {"queue", "watch", "clones"} /\ Spots = {"vault", "old", "flat", "cflat", "v2"}
  BY DEF Items, Spots
<1>2. run = NoRun /\ run.pc = "idle" /\ ~Under /\ daemon = Down /\ last = NoEnd
  BY DEF MigrateInit, Under, NoRun
<1>3. /\ journal = [r \in Roots |-> NoJournal] /\ lock = [r \in Roots |-> FALSE] /\ cut = {} /\ warned = {}
      /\ claim = [p \in ClaimPlaces |-> "none"] /\ legacyThere = TRUE /\ raced = FALSE
      /\ faults = 0 /\ starts = 0 /\ vaultRoot \in BOOLEAN /\ across \in BOOLEAN
  BY BoundsAssumption DEF MigrateInit, ClaimPlaces
<1>4. PICK home \in {"old", "flat"}, second \in BOOLEAN, stray \in BOOLEAN :
        /\ stray => vaultRoot
        /\ tree = [i \in Items |-> [p \in Spots |->
             CASE i = "queue" /\ p = "vault" /\ vaultRoot -> {"mine"}
               [] i = "queue" /\ p = "flat" /\ ~vaultRoot -> {"mine"}
               [] i = "queue" /\ p = "flat" /\ stray -> {"news"}
               [] i = "watch" /\ p = "flat" -> {"mine"}
               [] i = "clones" /\ p = home -> {"mine"}
               [] i = "clones" /\ p = "cflat" /\ second -> {"news"}
               [] OTHER -> Absent]]
        /\ ref = [h \in Holders |-> home]
        /\ marked = second /\ passed = (second /\ home = "old")
  BY Zenon DEF MigrateInit
<1> DEFINE at(i, p) == CASE i = "queue" /\ p = "vault" /\ vaultRoot -> {"mine"}
             [] i = "queue" /\ p = "flat" /\ ~vaultRoot -> {"mine"}
             [] i = "queue" /\ p = "flat" /\ stray -> {"news"}
             [] i = "watch" /\ p = "flat" -> {"mine"}
             [] i = "clones" /\ p = home -> {"mine"}
             [] i = "clones" /\ p = "cflat" /\ second -> {"news"}
             [] OTHER -> Absent
<1>5. tree = [i \in Items |-> [p \in Spots |-> at(i, p)]]
  BY <1>4, Zenon
<1>6. /\ at("queue", "vault") = IF vaultRoot THEN {"mine"} ELSE Absent
      /\ at("queue", "flat") = IF ~vaultRoot THEN {"mine"} ELSE IF stray THEN {"news"} ELSE Absent
      /\ at("watch", "flat") = {"mine"} /\ at("clones", home) = {"mine"}
      /\ at("clones", "cflat") = IF second THEN {"news"} ELSE Absent
      /\ \A p : p \notin {"vault", "flat"} => at("queue", p) = Absent
      /\ \A p : p # "flat" => at("watch", p) = Absent
      /\ \A p : p \notin {home, "cflat"} => at("clones", p) = Absent
  BY <1>4
<1> HIDE DEF at
<1>7. /\ tree \in Trees /\ \A i \in Items, p \in Spots : tree[i][p] = at(i, p) /\ at(i, p) \in {Absent, {"mine"}, {"news"}}
  <2>1. \A i \in Items, p \in Spots : at(i, p) \in {Absent, {"mine"}, {"news"}}
    BY <1>6, <1>4, <1>1
  <2> QED
    BY <2>1, <1>5 DEF Trees, Content, Absent
<1>8. TypedTree
  <2>1. NoJournal \in JournalRec /\ Down \in DaemonRec /\ NoEnd \in EndRec
    BY DEF DaemonRec, Down, EndRec, NoEnd, JournalRec, NoJournal, Roots
  <2>2. /\ journal \in [Roots -> JournalRec] /\ lock \in [Roots -> BOOLEAN]
        /\ claim \in [ClaimPlaces -> {"none", "live", "stale"}]
    BY <1>3, <2>1
  <2>3. ref \in [Holders -> {"old", "flat", "v2"}]
    BY <1>4
  <2>4. {legacyThere, marked, vaultRoot, across, raced, passed} \subseteq BOOLEAN
    BY <1>3, <1>4
  <2>5. faults \in 0 .. MaxFaults /\ starts \in 0 .. MaxStarts
    BY <1>3, BoundsAssumption
  <2> QED
    BY <2>1, <2>2, <2>3, <2>4, <2>5, <1>2, <1>7, <1>3 DEF TypedTree
<1>9. Laid
  BY <1>2, <1>3, <1>4, <1>6, <1>7, <1>1 DEF MineAt, Absent, Laid, Mine
<1>10. RootsTell
  BY <1>2, <1>3, <1>4, <1>6, <1>7, <1>1 DEF Absent, RootsTell, Has, Mine, TornIn
<1>11. Journals
  BY <1>2, <1>3, <1>4, <1>6, <1>7, <1>1 DEF NoJournal, Roots, Journals
<1>12. TornIsKnown
  BY <1>2, <1>3, <1>4, <1>6, <1>7, <1>1 DEF Absent, TornIsKnown, TornKnown, FromVault,
     TornIn, WasCut, Under, Has, Before, Gathering, Moving, Told
<1>13. Beside
  BY <1>2, <1>3, <1>4, <1>6, <1>7, <1>1 DEF Beside, Alone, Excluded, Naming, Smooth, Has
<1>14. ClonesRecorded
  BY <1>2, <1>3, <1>4, <1>6, <1>7, <1>1 DEF Absent, ClonesRecorded, Mine, Under
<1>15. NamesRecorded
  BY <1>2, <1>3, <1>4, <1>6, <1>7, <1>1 DEF Holders, Absent, NamesRecorded, Naming, Mine
<1>16. Ends
  BY <1>2, <1>3, <1>4, <1>6, <1>7, <1>1 DEF NoEnd, Ends
<1>17. NothingLost
  BY <1>2, <1>3, <1>4, <1>6, <1>7, <1>1 DEF NothingLost
<1>18. CleanMeansUnified
  BY <1>2, <1>3, <1>4, <1>6, <1>7, <1>1 DEF CleanMeansUnified, Ends, NoEnd
<1> QED
  BY <1>2, <1>8, <1>9, <1>10, <1>11, <1>12, <1>13, <1>14, <1>15, <1>16, <1>17, <1>18
     DEF MigrateInv

LEMMA MigrateStutterKeeps == ASSUME MigrateInv, UNCHANGED migrateVars PROVE MigrateInv' /\ OthersStand
<1>1. TypedTree
  BY DEF MigrateInv
<1>2. /\ UNCHANGED <<tree, ref, journal, lock, claim, legacyThere, marked, vaultRoot, across, run, daemon,
                     last, cut, warned, raced, passed, faults, starts>>
  BY DEF migrateVars, machine, ghosts, bounds
<1>3. /\ run' = run /\ Pair' = Pair /\ Spoken' = Spoken /\ (Under' <=> Under)
  BY <1>2 DEF Pair, Spoken, Under
<1>4. TypedTree'
  BY <1>1, <1>2, <1>3 DEF MigrateInv, TypedTree
<1>5. Laid'
  BY <1>1, <1>2, <1>3 DEF MigrateInv, Laid, Mine
<1>6. RootsTell'
  BY <1>1, <1>2, <1>3 DEF MigrateInv, RootsTell, Has, Mine, TornIn
<1>7. Journals'
  BY <1>1, <1>2, <1>3 DEF MigrateInv, Journals
<1>8. Under' => RunInv'
  <2> SUFFICES ASSUME Under PROVE RunInv'
    BY <1>3
  <2>1. run \in RunRec /\ RunInv
    BY UnderRec DEF MigrateInv
  <2>2. Shaped'
    BY <1>1, <1>2, <1>3, <2>1 DEF RunInv, Shaped, Before, Gathering, Moving, Told
  <2>3. PairsShaped'
    BY <1>1, <1>2, <1>3, <2>1 DEF RunInv, PairsShaped, Moving
  <2>4. Remembers'
    BY <1>1, <1>2, <1>3, <2>1 DEF RunInv, Remembers, Before, Gathering, Moving, Told
  <2>5. Sheltered'
    BY <1>1, <1>2, <1>3, <2>1 DEF RunInv, Sheltered, Has, TornIn
  <2>6. HandsOff'
    BY <1>1, <1>2, <1>3, <2>1 DEF RunInv, HandsOff, Mine, TornIn, Before, Gathering,
       Moving, Told
  <2>7. StillThere'
    BY <1>1, <1>2, <1>3, <2>1 DEF RunInv, StillThere, Has, TornIn, Moving
  <2>8. QueueIsWhole'
    BY <1>1, <1>2, <1>3, <2>1 DEF RunInv, QueueIsWhole, TornIn, Before
  <2>9. DoneIsWhole'
    BY <1>1, <1>2, <1>3, <2>1 DEF RunInv, DoneIsWhole, TornIn
  <2>10. ConflictsTold'
    BY <1>1, <1>2, <1>3, <2>1 DEF RunInv, ConflictsTold, TornIn, WasCut
  <2>11. Gathered'
    BY <1>1, <1>2, <1>3, <2>1 DEF RunInv, Gathered, Smooth, Filtered, Mine, Has,
       Before, Gathering, Moving, Told
  <2>12. NoneBehind'
    BY <1>1, <1>2, <1>3, <2>1 DEF RunInv, NoneBehind, Smooth, Filtered, Mine, Before,
       Gathering, Moving, Told
  <2>13. RefsFollow'
    BY <1>1, <1>2, <1>3, <2>1 DEF RunInv, RefsFollow, Smooth, Before, Gathering,
       Moving, Told
  <2> QED
    BY <2>2, <2>3, <2>4, <2>5, <2>6, <2>7, <2>8, <2>9, <2>10, <2>11, <2>12, <2>13 DEF
       RunInv
<1>9. TornIsKnown'
  BY <1>1, <1>2, <1>3 DEF MigrateInv, TornIsKnown, TornKnown, FromVault, TornIn,
     WasCut, Under, Has, Before, Gathering, Moving, Told
<1>10. Beside'
  BY <1>1, <1>2, <1>3 DEF MigrateInv, Beside, Alone, Excluded, Naming, Smooth, Has
<1>11. ClonesRecorded'
  BY <1>1, <1>2, <1>3 DEF MigrateInv, ClonesRecorded, Mine, Under
<1>12. NamesRecorded'
  BY <1>1, <1>2, <1>3 DEF MigrateInv, NamesRecorded, Naming, Mine
<1>13. Ends'
  BY <1>1, <1>2, <1>3 DEF MigrateInv, Ends
<1>14. NothingLost'
  BY <1>1, <1>2, <1>3 DEF MigrateInv, NothingLost
<1>15. CleanMeansUnified'
  BY <1>1, <1>2, <1>3 DEF MigrateInv, CleanMeansUnified, Ends, NoEnd
<1>16. OthersStand
  BY <1>2, QuietStands
<1> QED
  BY <1>8, <1>4, <1>5, <1>6, <1>7, <1>9, <1>10, <1>11, <1>12, <1>13, <1>14, <1>15,
     <1>16 DEF MigrateInv

(***************************************************************************)
(* The steps of the specification.                                         *)
(***************************************************************************)
\* Steps that touch no place leave what is not the operator's alone.
LEMMA StillStands == ASSUME UNCHANGED tree PROVE OthersStand
BY QuietStands

\* Every step of a run, of a daemon and of the operator.
LEMMA ActsKeep == ASSUME MigrateInv, Acts PROVE MigrateInv' /\ OthersStand
<1> USE DEF Acting, NoFault
<1>1. CASE \/ QueueMkdir \/ QueueRemoveSource \/ Names \/ MoveCheck \/ Rename
           \/ CopyBegins \/ CopyDone \/ RemoveSource
  BY <1>1, QueueMkdirKeeps, QueueRemoveSourceKeeps, NamesKeeps, MoveCheckKeeps, RenameKeeps,
     CopyBeginsKeeps, CopyDoneKeeps, RemoveSourceKeeps
<1>2. CASE QueueMove
  BY <1>2, QueueMoveKeeps DEF QueueMove, OthersStand
<1>3. CASE \/ Lock \/ QueueCopyFails \/ JournalNames \/ Filter \/ MergeJournal \/ CopyFails
           \/ JournalPairs \/ RewriteStoredPaths \/ RemoveLegacyRoot \/ Exit
  <2>1. UNCHANGED tree
    BY <1>3 DEF Lock, QueueCopyFails, JournalNames, Filter, MergeJournal, CopyFails,
       JournalPairs, RewriteStoredPaths, RemoveLegacyRoot, Exit
  <2> QED
    BY <1>3, <2>1, StillStands, LockKeeps, QueueCopyFailsKeeps, JournalNamesKeeps, FilterKeeps,
       MergeJournalKeeps, CopyFailsKeeps, JournalPairsKeeps, RewriteStoredPathsKeeps,
       RemoveLegacyRootKeeps, ExitKeeps
<1> QED BY <1>1, <1>2, <1>3 DEF Acts

LEMMA DaemonKeeps == ASSUME MigrateInv, Daemon PROVE MigrateInv' /\ OthersStand
<1>1. CASE DaemonLoad \/ DaemonNames \/ DaemonJournalsNames \/ DaemonMkdirs
  BY <1>1, DaemonLoadKeeps, DaemonNamesKeeps, DaemonJournalsNamesKeeps, DaemonMkdirsKeeps
<1>2. ASSUME NEW i \in Items, DaemonWrites(i) PROVE MigrateInv' /\ OthersStand
  BY <1>2, DaemonWritesKeeps
<1>3. ASSUME NEW killed \in BOOLEAN, DaemonEnds(killed) PROVE MigrateInv' /\ OthersStand
  BY <1>3, DaemonEndsKeeps, StillStands DEF DaemonEnds
<1> QED BY <1>1, <1>2, <1>3 DEF Daemon

LEMMA MigrateStep ==
  ASSUME MigrateInv, [MigrateNext]_migrateVars PROVE MigrateInv' /\ OthersStand
<1>1. CASE Load BY <1>1, LoadKeeps, StillStands DEF Load, RunOnly
<1>2. CASE Probe BY <1>2, ProbeKeeps, StillStands DEF Probe, RunOnly
<1>3. CASE Acts BY <1>3, ActsKeep
<1>8. CASE LockRefused BY <1>8, LockRefusedKeeps, StillStands DEF LockRefused, RunOnly
<1>4. CASE Kill BY <1>4, KillKeeps, StillStands DEF Kill
<1>5. CASE Daemon BY <1>5, DaemonKeeps
<1>6. ASSUME NEW i \in Items, ClearWreckage(i) PROVE MigrateInv' /\ OthersStand
  BY <1>6, ClearWreckageKeeps
<1>7. CASE UNCHANGED migrateVars BY <1>7, MigrateStutterKeeps
<1> QED BY <1>1, <1>2, <1>3, <1>4, <1>5, <1>6, <1>7, <1>8 DEF MigrateNext

\* Only the end of a run says how it ended, and what it says of unfinished
\* copies is what the run was told.
LEMMA EndNamesPartial ==
  ASSUME MigrateInv, MigrateNext, last'.exit \in {"conflicts", "failed"}, run # run'
  PROVE  \A i \in last'.conflicts \ {"names"} :
           "torn" \in tree[i]["v2"] => i \in last'.named \/ \E s \in cut : s.item = i
<1>1. CASE Exit
  <2>1. run \in RunRec /\ RunInv
    BY <1>1, UnderRec DEF Exit, MigrateInv
  <2>2. last'.conflicts = run.conflicts /\ last'.named = run.named
    BY <1>1 DEF Exit, Ended
  <2>3. run.conflicts \ {"names"} = run.conflicts \cap Items
    BY <2>1 DEF RunRec, Items
  <2> QED BY <2>1, <2>2, <2>3 DEF RunInv, ConflictsTold, TornIn, WasCut
<1>2. CASE Load \/ Probe \/ LockRefused \/ Kill
  BY <1>2 DEF Load, Probe, LockRefused, Kill, Ended, NoEnd, MigrateInv, Ends, Under, RunAt, NoRun
<1>3. CASE Acts /\ ~Exit
  <2>1. UNCHANGED last
    BY <1>3 DEF Acts, Lock, QueueMkdir, QueueMove, QueueCopyFails, QueueRemoveSource, Names,
       JournalNames, Filter, MergeJournal, MoveCheck, Rename, CopyBegins, CopyDone, CopyFails,
       RemoveSource, JournalPairs, RewriteStoredPaths, RemoveLegacyRoot, Acting
  <2>2. run.pc # "idle"
    <3>1. CASE \/ Lock \/ QueueMkdir \/ QueueMove \/ QueueCopyFails \/ QueueRemoveSource
               \/ Names \/ JournalNames \/ Filter \/ MergeJournal \/ MoveCheck
      BY <3>1 DEF Lock, QueueMkdir, QueueMove, QueueCopyFails, QueueRemoveSource, Names,
         JournalNames, Filter, MergeJournal, MoveCheck, Looping, RunAt
    <3>2. CASE \/ Rename \/ CopyBegins \/ CopyDone \/ CopyFails \/ RemoveSource
               \/ JournalPairs \/ RewriteStoredPaths \/ RemoveLegacyRoot
      BY <3>2 DEF Rename, CopyBegins, CopyDone, CopyFails, RemoveSource, JournalPairs,
         RewriteStoredPaths, RemoveLegacyRoot, RunAt
    <3> QED BY <1>3, <3>1, <3>2 DEF Acts
  <2>3. last = NoEnd
    BY <2>2 DEF MigrateInv, Ends, Under, NoRun
  <2> QED BY <2>1, <2>3 DEF NoEnd
<1>4. CASE Daemon \/ \E i \in Items : ClearWreckage(i)
  BY <1>4 DEF Daemon, DaemonLoad, DaemonNames, DaemonJournalsNames, DaemonMkdirs, DaemonWrites, DaemonEnds,
     ClearWreckage
<1> QED BY <1>1, <1>2, <1>3, <1>4 DEF MigrateNext

LEMMA MigrationHolds == MigrateSpec => []MigrateInv
<1>1. MigrateInit => MigrateInv
  BY MigrateInitHolds
<1>2. MigrateInv /\ [MigrateNext]_migrateVars => MigrateInv'
  BY MigrateStep
<1> QED BY <1>1, <1>2, PTL DEF MigrateSpec

\* The types the runs check.
LEMMA MigrateTyped == MigrateInv => MigrateTypeOK
<1> SUFFICES ASSUME MigrateInv PROVE MigrateTypeOK
  OBVIOUS
<1>1. TypedTree /\ Laid /\ last.named \subseteq last.conflicts
  BY DEF MigrateInv, Ends
<1>2. \A i \in Items, p \in Spots :
        \/ tree[i][p] = Absent
        \/ tree[i][p] \subseteq {"mine", "news", "torn", "rest"}
  BY <1>1 DEF TypedTree, Trees, Content, Laid, Absent
<1>3. \A s \in Moves : s.item \in Items /\ {s.from, s.to} \subseteq Spots
  BY DEF Moves, Copies, OldName, Step, Items, Spots
<1>4. \A r \in Roots :
        /\ journal[r].there \in BOOLEAN /\ lock[r] \in BOOLEAN
        /\ \A s \in journal[r].renamed \cup journal[r].partial :
             s.item \in Items /\ {s.from, s.to} \subseteq Spots
  BY <1>1, <1>3 DEF TypedTree, JournalRec, Moves
<1>5. /\ \A h \in Holders : ref[h] \in Spots
      /\ \A p \in DOMAIN claim : claim[p] \in {"none", "live", "stale"}
      /\ daemon.pc \in {"down", "loaded", "naming", "named", "up"} /\ daemon.root \in Roots
      /\ last.exit \in {"none", "clean", "conflicts", "failed", "killed"}
      /\ last.conflicts \subseteq Items \cup {"names"}
      /\ faults \in 0 .. MaxFaults /\ starts \in 0 .. MaxStarts /\ warned \subseteq Holders
  BY <1>1 DEF TypedTree, DaemonRec, EndRec, Spots
<1> QED BY <1>1, <1>2, <1>4, <1>5 DEF MigrateTypeOK

\* `junco data migrate` never leaves a moment at which any of the operator's data is
\* not whole somewhere, kills between two file operations and daemons that start
\* beside it included; and what it calls clean has all of it at ~/.junco, with the
\* stored paths naming the clones there, outside the two cases CleanMeansUnified names.
THEOREM MigrationIsSafe == MigrateSpec => []DataIsSafe
<1>1. MigrateInv => DataIsSafe
  BY MigrateTyped DEF DataIsSafe, MigrateInv
<1> QED BY <1>1, MigrationHolds, PTL

\* No step of it makes less of what a daemon or the second root has written or mixes
\* it with what it moves, and no end of it keeps quiet about an unfinished copy.
THEOREM MigrationStepsAreSafe == MigrateSpec => StepsAreSafe
<1>1. MigrateInv /\ [MigrateNext]_migrateVars =>
        [~raced' /\ ~RunAt("vault") => \A i \in Items :
           /\ Cardinality(News(tree', i)) >= Cardinality(News(tree, i))
           /\ \A p \in News(tree', i) :
                "mine" \in tree'[i][p] => {"mine", "news"} \subseteq tree[i][p]]_migrateVars
  BY MigrateStep DEF OthersStand
<1>2. MigrateInv /\ [MigrateNext]_migrateVars =>
        [last'.exit \in {"conflicts", "failed"} /\ run # run' =>
           \A i \in last'.conflicts \ {"names"} :
             "torn" \in tree[i]["v2"] => i \in last'.named \/ \E s \in cut : s.item = i]_migrateVars
  BY EndNamesPartial
<1>3. MigrateSpec => OthersDataStands
  BY <1>1, MigrationHolds, PTL DEF MigrateSpec, OthersDataStands
<1>4. MigrateSpec => PartialIsNamed
  BY <1>2, MigrationHolds, PTL DEF MigrateSpec, PartialIsNamed
<1> QED BY <1>3, <1>4 DEF StepsAreSafe

=============================================================================
