------------------------------ MODULE PlanDoor ------------------------------
(***************************************************************************)
(* `junco submit --plan` (submitCmd.ts, planSets.ts): a file with a plan,  *)
(* compiled into one ticket per task. A run after an edit disposes of the  *)
(* tickets nobody has claimed, submits what the new revision lacks, and    *)
(* then writes the record of the set. The command is synchronous, but the  *)
(* daemon and other commands are other processes: each look into a queue   *)
(* directory and each rename is a step, and it may be killed anywhere.     *)
(*                                                                         *)
(* A revision is a number and stands for the hash of the plan's text, a    *)
(* task for its ticket. Plans that do not compile end the command before   *)
(* it touches anything, and are left out.                                  *)
(***************************************************************************)
EXTENDS Naturals, Sequences, FiniteSets, SequencesExt

CONSTANTS
    Plans,        \* revision |-> the tasks of that revision, in order
    MaxEdits,     \* bound: edits of the file
    MaxSlips      \* bound: kills, throwing submits, requeues and retries

VARIABLES
    planFile,     \* the revision in the author's file
    queued,   \* task |-> the copy in the inbox, or NoCopy
    working,  \* task |-> the revision of the copies in processing/
    finished, \* the tasks with a copy in done/
    parked,   \* task |-> copies in failed/: revision and superseded marker
    setRecord,   \* the revision of the set's record, 0 for none
    door,     \* the command
    planEdits, doorSlips,
    planExcuses   \* what happened that the code does not guard against

planVars == <<planFile, queued, working, finished, parked, setRecord, door, planEdits, doorSlips, planExcuses>>
copyVars == <<queued, working, finished, parked>>

Revs == DOMAIN Plans
Rev0 == Revs \cup {0}
Tasks == UNION {ToSet(Plans[r]) : r \in Revs}
ASSUME PlanDoorAssumption ==
    1 \in Revs /\ Revs \subseteq Nat \ {0} /\ \A r \in Revs : Plans[r] \in Seq(Tasks) \ {<<>>}

NoCopy == [rev |-> 0, mark |-> 0]
PlanCopies == [rev : Rev0, mark : Rev0]

\* `todo` are the tasks still to come, the first of them at work; `loose` the
\* policy of a supersede; `made` and `stranded` the tasks submitted and not.
NoDoor == [at |-> "idle", rev |-> 0, todo |-> <<>>, loose |-> FALSE,
           held |-> 0, made |-> {}, stranded |-> {}, code |-> 0]
DoorSteps == {"idle", "find", "read", "mark", "move", "done", "processing", "inbox", "failed",
              "record", "ended"}

PlanTypeOK ==
    /\ planFile \in Revs /\ setRecord \in Rev0
    /\ queued \in [Tasks -> PlanCopies] /\ working \in [Tasks -> SUBSET Revs]
    /\ finished \subseteq Tasks /\ parked \in [Tasks -> SUBSET PlanCopies]
    /\ door.at \in DoorSteps /\ door.rev \in Rev0 /\ ToSet(door.todo) \subseteq Tasks
    /\ door.made \subseteq Tasks /\ door.stranded \subseteq Tasks
    /\ planExcuses \subseteq {"torn", "cut", "masked", "revived", "retried", "requeued"}

PlanIdle ==
    /\ planFile = 1 /\ setRecord = 0
    /\ queued = [t \in Tasks |-> NoCopy] /\ working = [t \in Tasks |-> {}]
    /\ finished = {} /\ parked = [t \in Tasks |-> {}]
    /\ door = NoDoor /\ planEdits = 0 /\ doorSlips = 0 /\ planExcuses = {}
PlanInit == PlanIdle

DoorSlips == doorSlips < MaxSlips /\ doorSlips' = doorSlips + 1
PlanExcuse(why) == planExcuses' = planExcuses \cup {why}
Child == Head(door.todo)
DoorAt(l) == door.at = l
QueueAlone == UNCHANGED copyVars

----------------------------------------------------------------------------
(* The command.                                                            *)

\* The walk over the next task, or what comes after the last one.
WalkOn(d, first, last) == [d EXCEPT !.at = IF d.todo = <<>> THEN last ELSE first]
FanOut(d) == WalkOn([d EXCEPT !.todo = Plans[d.rev]], "done", "record")
NextChild(d, first, last) == WalkOn([d EXCEPT !.todo = Tail(@)], first, last)
Disposed(d) == LET n == NextChild(d, "find", "record") IN IF n.at = "record" THEN FanOut(n) ELSE n

\* The file is read and compiled, and the record of the set. A record of
\* another revision makes this run a supersede, of its tasks.
RunDoor ==
    /\ door.at \in {"idle", "ended"}
    /\ LET d == [NoDoor EXCEPT !.rev = planFile, !.loose = setRecord \notin {0, planFile}]
       IN door' = IF d.loose THEN WalkOn([d EXCEPT !.todo = Plans[setRecord]], "find", "record")
                  ELSE FanOut(d)
    /\ UNCHANGED <<planFile, setRecord, planEdits, doorSlips, planExcuses>> /\ QueueAlone

\* supersedeUnclaimed: a ticket found in the inbox is read, written again with
\* the marker, and then renamed into failed/. What is gone when it is read or
\* moved ends the command. The write does not look: a ticket claimed after the
\* read is back in the inbox beside the one that runs.
FindChild ==
    /\ DoorAt("find")
    /\ door' = IF queued[Child] = NoCopy THEN Disposed(door) ELSE [door EXCEPT !.at = "read"]
    /\ UNCHANGED <<planFile, setRecord, planEdits, doorSlips, planExcuses>> /\ QueueAlone

Broken == [NoDoor EXCEPT !.at = "ended", !.code = 1]
ReadChild ==
    /\ DoorAt("read")
    /\ door' = IF queued[Child] = NoCopy THEN Broken
               ELSE [door EXCEPT !.at = "mark", !.held = queued[Child].rev]
    /\ UNCHANGED <<planFile, setRecord, planEdits, doorSlips, planExcuses>> /\ QueueAlone

MarkChild ==
    /\ DoorAt("mark")
    /\ queued' = [queued EXCEPT ![Child] = [rev |-> door.held, mark |-> door.rev]]
    /\ door' = [door EXCEPT !.at = "move", !.held = 0]
    /\ IF queued[Child] = NoCopy THEN PlanExcuse("revived") ELSE UNCHANGED planExcuses
    /\ UNCHANGED <<planFile, working, finished, parked, setRecord, planEdits, doorSlips>>

MoveChild ==
    /\ DoorAt("move")
    /\ \/ /\ queued[Child] # NoCopy
          /\ parked' = [parked EXCEPT ![Child] = @ \cup {queued[Child]}]
          /\ queued' = [queued EXCEPT ![Child] = NoCopy]
          /\ door' = Disposed(door)
       \/ /\ queued[Child] = NoCopy
          /\ door' = Broken /\ UNCHANGED <<parked, queued>>
    /\ UNCHANGED <<planFile, working, finished, setRecord, planEdits, doorSlips, planExcuses>>

\* ticketState looks into done/, processing/, inbox/ and failed/, in this
\* order. A ticket that moves from a directory not yet looked at into one that
\* was is taken to be absent.
Skipped == NextChild(door, "done", "record")
FoundIn(dir) ==
    CASE dir = "done" -> Child \in finished
      [] dir = "processing" -> working[Child] # {}
      [] dir = "inbox" -> queued[Child] # NoCopy
NextDirectory == [done |-> "processing", processing |-> "inbox", inbox |-> "failed"]
LookForChild ==
    /\ door.at \in DOMAIN NextDirectory
    /\ door' = IF FoundIn(door.at) THEN Skipped ELSE [door EXCEPT !.at = NextDirectory[@]]
    /\ UNCHANGED <<planFile, setRecord, planEdits, doorSlips, planExcuses>> /\ QueueAlone

\* submitPlanSet: a failed task only under the policy of a supersede.
MaySubmit == parked[Child] = {} \/ door.loose

\* The ticket was elsewhere when it was looked for.
Elsewhere == Child \in finished \/ working[Child] # {}

SubmitChild ==
    /\ DoorAt("failed")
    /\ \/ ~MaySubmit /\ door' = Skipped /\ UNCHANGED <<queued, doorSlips, planExcuses>>
       \/ /\ MaySubmit /\ queued[Child] = NoCopy
          /\ queued' = [queued EXCEPT ![Child] = [rev |-> door.rev, mark |-> 0]]
          /\ door' = [Skipped EXCEPT !.made = @ \cup {Child}]
          /\ IF Elsewhere THEN PlanExcuse("torn") ELSE UNCHANGED planExcuses
          /\ UNCHANGED doorSlips
       \/ /\ MaySubmit \* the name is taken, or the file system refuses
          /\ IF queued[Child] = NoCopy THEN DoorSlips ELSE UNCHANGED doorSlips
          /\ door' = [Skipped EXCEPT !.stranded = @ \cup {Child}]
          /\ UNCHANGED <<queued, planExcuses>>
    /\ UNCHANGED <<planFile, working, finished, parked, setRecord, planEdits>>

\* resolveSetState: a task whose copies in failed/ all bear a marker never ran.
ChildState(t) ==
    IF t \in finished THEN "done"
    ELSE IF working[t] # {} THEN "processing"
    ELSE IF queued[t] # NoCopy THEN "inbox"
    ELSE IF parked[t] = {} THEN "absent"
    ELSE IF \E c \in parked[t] : c.mark = 0 THEN "failed"
    ELSE "superseded"
Stranded(r) == {t \in ToSet(Plans[r]) : ChildState(t) = "superseded"}

\* Stranded tasks are failures; earlier ones are looked for only by a run that
\* submitted nothing.
DoorCode ==
    IF door.stranded # {} THEN 1
    ELSE IF door.made = {} /\ Stranded(door.rev) # {} THEN 1
    ELSE 0

\* The record is written after the fan-out.
Materialize == setRecord' = door.rev

DoorEnds ==
    /\ DoorAt("record")
    /\ Materialize
    /\ door' = [NoDoor EXCEPT !.at = "ended", !.rev = door.rev, !.code = DoorCode]
    /\ IF DoorCode = 0 /\ Stranded(door.rev) # {} THEN PlanExcuse("masked") ELSE UNCHANGED planExcuses
    /\ UNCHANGED <<planFile, planEdits, doorSlips>> /\ QueueAlone

KillDoor ==
    /\ door.at \notin {"idle", "ended"} /\ DoorSlips
    /\ door' = Broken
    /\ PlanExcuse("cut")
    /\ UNCHANGED <<planFile, setRecord, planEdits>> /\ QueueAlone

----------------------------------------------------------------------------
(* The others.                                                             *)

EditPlan ==
    /\ planEdits < MaxEdits /\ planEdits' = planEdits + 1
    /\ planFile' \in Revs \ {planFile}
    /\ UNCHANGED <<setRecord, door, doorSlips, planExcuses>> /\ QueueAlone

\* A copy that bears a marker is claimed like any other.
ClaimChild(t) ==
    /\ queued[t] # NoCopy
    /\ working' = [working EXCEPT ![t] = @ \cup {queued[t].rev}]
    /\ queued' = [queued EXCEPT ![t] = NoCopy]
    /\ UNCHANGED <<planFile, finished, parked, setRecord, door, planEdits, doorSlips, planExcuses>>

ChildEnds(t) ==
    \E r \in working[t] :
      /\ working' = [working EXCEPT ![t] = @ \ {r}]
      /\ \/ finished' = finished \cup {t} /\ UNCHANGED <<queued, parked, doorSlips, planExcuses>>
         \/ /\ parked' = [parked EXCEPT ![t] = @ \cup {[rev |-> r, mark |-> 0]}]
            /\ UNCHANGED <<queued, finished, doorSlips, planExcuses>>
         \/ /\ DoorSlips /\ queued[t] = NoCopy \* a requeue
            /\ queued' = [queued EXCEPT ![t] = [rev |-> r, mark |-> 0]]
            /\ PlanExcuse("requeued") /\ UNCHANGED <<finished, parked>>
      /\ UNCHANGED <<planFile, setRecord, door, planEdits>>

\* `junco retry`: by name also of a copy that was disposed of.
RetryChild(t) ==
    \E c \in parked[t] :
      /\ DoorSlips /\ queued[t] = NoCopy
      /\ queued' = [queued EXCEPT ![t] = [c EXCEPT !.mark = 0]]
      /\ parked' = [parked EXCEPT ![t] = @ \ {c}]
      /\ PlanExcuse("retried")
      /\ UNCHANGED <<planFile, working, finished, setRecord, door, planEdits>>

DoorStep == FindChild \/ ReadChild \/ MarkChild \/ MoveChild \/ LookForChild \/ SubmitChild \/ DoorEnds
PlanNext ==
    \/ RunDoor \/ DoorStep \/ KillDoor \/ EditPlan
    \/ \E t \in Tasks : ClaimChild(t) \/ ChildEnds(t) \/ RetryChild(t)
----------------------------------------------------------------------------
(* Properties.                                                             *)

\* A run that exits 0 leaves every task of its revision in the queue, or done,
\* or failed by itself; but a run that submitted something does not look for
\* the tasks that an earlier run disposed of and could not submit ("masked").
SubmittedMeansQueued ==
    door.at = "ended" /\ door.code = 0 /\ "masked" \notin planExcuses =>
      \A t \in ToSet(Plans[door.rev]) : ChildState(t) \notin {"absent", "superseded"}

\* No task has a second ticket beside one that runs or is done, unless it was
\* moved while it was looked for, retried, or claimed between its being read and
\* marked: not even after a kill, or when a marked ticket is claimed.
NoSecondTicket ==
    planExcuses \cap {"torn", "revived", "retried"} = {} =>
      \A t \in Tasks : queued[t] # NoCopy => working[t] = {} /\ t \notin finished

\* Between runs, the tickets nobody has claimed are of the recorded revision,
\* whatever the exit code: no revision is recorded that the queue does not
\* contain. A kill leaves both, and what comes back is of its old revision.
RecordIsWhatIsQueued ==
    door.at = "ended" /\ planExcuses \cap {"cut", "retried", "requeued"} = {} =>
      \A t \in Tasks : queued[t] # NoCopy => queued[t].rev = setRecord

PlanDoorHolds == SubmittedMeansQueued /\ NoSecondTicket /\ RecordIsWhatIsQueued
=============================================================================
