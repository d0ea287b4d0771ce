------------------------- MODULE GithubInboxProofs -------------------------
(***************************************************************************)
(* What the GitHub bridge promises of one issue, proved for every set of   *)
(* plans, every door and every bound: only approved text becomes a ticket, *)
(* the issue's ticket is queued once, and the children of a recorded set   *)
(* are what its plan made of them.                                         *)
(***************************************************************************)
EXTENDS GithubInbox, FiniteSetTheorems, SequenceTheorems, NaturalsInduction,
        WellFoundedInduction, TLAPS

----------------------------------------------------------------------------
(* Types.                                                                  *)

Op == [kind : {"labels", "comment"}, add : SUBSET Labels,
       remove : SUBSET (Labels \cup {"none"}),
       form : Forms \cup {"none"}, plan : SUBSET Task]
LabelEvent == [text : Text, writer : BOOLEAN]

InMaintenance == {"probe", "approval", "event", "replace", "unapprove", "refuse", "state",
                  "label"}
Places == {"idle", "list", "cleanup", "comment", "approve", "verify", "deny", "vouch",
           "submit", "mark", "maintain", "down"} \cup InMaintenance

\* The texts there are, numbered from one.
IsWritten(n) == n \in Text /\ n <= Texts

FormTyped ==
    /\ form \in [Text -> Forms \cup {"none"}] /\ plan \in [Text -> SUBSET Task]
    /\ Texts \in Nat /\ plan[0] = {}
    /\ \A n \in Text : form[n] # "none" <=> n # 0 /\ n <= Texts

IssueTyped ==
    /\ labels \subseteq Labels
    /\ IsWritten(body) /\ body # 0 /\ IsWritten(comment)
    /\ vouched \in LabelEvent /\ approved \in LabelEvent /\ approval \in BOOLEAN

QueueTyped ==
    /\ inbox \in [Ids -> Text] /\ running \in [Ids -> Text]
    /\ done \subseteq Ids /\ failed \in [Ids -> SUBSET ((Text \ {0}) \X Text)]

ParkedTyped ==
    /\ parked \in Seq(Op)
    /\ \A k \in 1 .. Len(parked) : parked[k].kind = "comment" => parked[k].form # "none"

HistoryTyped ==
    /\ shown \subseteq Text /\ ran \subseteq Text /\ cycle \in Nat /\ troubles \in Nat

SweepTyped ==
    /\ at \in Places /\ seen \subseteq Labels \cup {"none"}
    /\ IsWritten(held) /\ asOf \in Text /\ mem \in Record

SetTyped == rec \in Record /\ IsWritten(rec.plan) /\ IsWritten(planMd)

----------------------------------------------------------------------------
(* Approved text.                                                          *)

\* Who labelled, and approved, saw a text that is no younger than what stands.
EventsShown ==
    /\ vouched.text <= body /\ (vouched.writer => vouched.text \in shown)
    /\ approved.text <= comment /\ (approved.writer => approved.text \in shown)
    /\ ~approval => comment = 0 \/ comment \in shown

\* The text the sweep holds, on its way to the queue.
HeldShown ==
    /\ at = "verify" => held <= body
    /\ at = "vouch" => held <= body /\ ("raced" \in excused \/ (asOf <= held /\ asOf \in shown))
    /\ at \in {"approve", "approval", "event"} => held <= comment
    /\ at \in {"submit", "replace"} => "raced" \in excused \/ held \in shown

RunsShown ==
    "raced" \in excused \/ (ran \subseteq shown /\ (planMd = 0 \/ planMd \in shown))

----------------------------------------------------------------------------
(* Dispatched once.                                                        *)

DispatchLabels == {"queued", "working", "done", "failed"}

\* A change that takes a label of a dispatched issue off puts another one on.
KeepsDispatched(add, remove) ==
    remove \cap DispatchLabels # {} => add \cap DispatchLabels # {}

OpsKeepDispatched ==
    \A k \in 1 .. Len(parked) : KeepsDispatched(parked[k].add, parked[k].remove)

\* On the issue, or on its way to it, is a label of a dispatched one.
ShowsDispatch ==
    Dispatched(labels) \/ \E k \in 1 .. Len(parked) : Dispatched(parked[k].add)

\* An issue whose ticket was queued in this lifecycle shows it.
DispatchShows ==
    cycle >= 1 => \/ excused \cap {"refused", "stale"} # {}
                  \/ ShowsDispatch \/ InFlight(Exec)

LabelChosen == at = "label" => mem.label \in DispatchLabels

----------------------------------------------------------------------------
(* The children of a recorded set.                                         *)

SameSet(r, s) == r.plan = s.plan /\ r.tasks = s.tasks /\ r.pending = s.pending

\* Where the sweep has a text in hand.
Holding == {"verify", "vouch", "approve", "approval", "event", "submit", "replace"}

\* What the sweep and the disk hold of the set.
SweepAgrees ==
    /\ at \in Holding => held # 0
    /\ IF at \in InMaintenance THEN rec # NoRecord /\ SameSet(mem, rec) ELSE mem = NoRecord
SetIsItsPlan ==
    /\ rec.tasks = plan[rec.plan] /\ rec.pending \subseteq rec.tasks
    /\ rec # NoRecord => rec.plan # 0 /\ rec.tasks # {}
    /\ planMd = rec.plan \/ excused \cap {"cut", "torn"} # {}

\* A child's file is of the recorded plan, and it is in one place.
Childlike(t) ==
    /\ inbox[t] # 0 => inbox[t] = rec.plan /\ t \in rec.tasks /\ running[t] = 0
    /\ running[t] # 0 => running[t] = rec.plan /\ t \in rec.tasks
    /\ t \in done => inbox[t] = 0 /\ running[t] = 0
ChildrenFresh ==
    \/ excused \cap {"retried", "cut", "redispatched", "torn"} # {}
    \/ \A t \in Task : Childlike(t)

\* The inductive invariant.
Typed ==
    /\ FormTyped /\ IssueTyped /\ QueueTyped /\ ParkedTyped /\ HistoryTyped /\ SweepTyped
    /\ SetTyped
Approval == EventsShown /\ HeldShown /\ RunsShown
Marking == OpsKeepDispatched /\ DispatchShows /\ DispatchedOnce /\ LabelChosen
Following == SweepAgrees /\ SetIsItsPlan /\ NoChildLost /\ ChildrenFresh
InboxInv == Typed /\ Approval /\ Marking /\ Following

LEMMA InboxInvIsEnough == InboxInv => OneApprovedDispatch /\ ChildrenFollowThePlan
  <1> SUFFICES ASSUME InboxInv PROVE OneApprovedDispatch /\ ChildrenFollowThePlan
    OBVIOUS
  <1>1. TypeOK
    BY DEF InboxInv, Typed, TypeOK, IssueTyped, QueueTyped, SweepTyped, SetTyped, IsWritten
  <1>2. OneApprovedDispatch
    BY DEF InboxInv, Approval, Marking, RunsShown, OneApprovedDispatch, OnlyApprovedTextRuns
  <1>3. OldPlanStops
    BY DEF InboxInv, Following, ChildrenFresh, Childlike, OldPlanStops
  <1> QED
    BY <1>1, <1>2, <1>3 DEF InboxInv, Following, ChildrenFollowThePlan

----------------------------------------------------------------------------
(* Numbers and texts.                                                      *)

LEMMA Least ==
  ASSUME NEW T \in SUBSET Nat, T # {}
  PROVE  \E m \in T : \A k \in T : m <= k
  <1>1. IsWellFoundedOn(OpToRel(<, Nat), Nat)
    BY NatLessThanWellFounded
  <1>2. PICK m \in T : \A k \in T : ~(<<k, m>> \in OpToRel(<, Nat))
    BY <1>1, WFMin
  <1>3. \A k \in T : ~(k < m)
    BY <1>2 DEF OpToRel
  <1> QED
    BY <1>3

LEMMA Greatest ==
  ASSUME NEW n \in Nat, NEW S \in SUBSET (1 .. n), S # {}
  PROVE  \E m \in S : \A k \in S : k <= m
  <1> DEFINE T == {d \in Nat : \E k \in S : d = n - k}
  <1>1. \A k \in S : n - k \in T
    OBVIOUS
  <1>2. T \in SUBSET Nat /\ T # {}
    BY <1>1
  <1>3. PICK d \in T : \A e \in T : d <= e
    <2> HIDE DEF T
    <2> QED
      BY <1>2, Least
  <1>4. PICK m \in S : d = n - m
    BY <1>3
  <1>5. \A k \in S : n - m <= n - k
    BY <1>1, <1>3, <1>4
  <1>6. \A k \in S : k <= m
    BY <1>5
  <1> QED
    BY <1>6

LEMMA TextsAreANumber ==
  ASSUME NEW f, NEW n \in Nat, n <= MaxTexts,
         \A i \in Text : f[i] # "none" <=> i # 0 /\ i <= n
  PROVE  Cardinality({i \in Text : i # 0 /\ f[i] # "none"}) = n
  <1>1. {i \in Text : i # 0 /\ f[i] # "none"} = 1 .. n
    BY BridgeAssumption DEF Text
  <1>2. Cardinality(1 .. n) = n
    BY FS_Interval
  <1> QED
    BY <1>1, <1>2

(* A new text is the next number, and no text before it changes.           *)
LEMMA NewTextIsNext ==
  ASSUME FormTyped, NEW f \in Forms, NEW p \in SUBSET Task, NewText(f, p)
  PROVE  /\ FormTyped' /\ Texts' = Texts + 1 /\ Texts + 1 \in Text
         /\ \A n \in Text : n <= Texts => plan'[n] = plan[n] /\ form'[n] = form[n]
         /\ form'[Texts + 1] = f
  <1> DEFINE n1 == Texts + 1
  <1>0. Texts \in Nat /\ Texts < MaxTexts /\ MaxTexts \in Nat /\ n1 \in Nat /\ n1 <= MaxTexts
    BY BridgeAssumption DEF FormTyped, NewText
  <1>1. n1 \in Text
    BY <1>0 DEF Text
  <1>2. /\ form' = [form EXCEPT ![n1] = f]
        /\ plan' = [plan EXCEPT ![n1] = IF f = "set" THEN p ELSE {}]
    BY DEF NewText
  <1>3. form' \in [Text -> Forms \cup {"none"}] /\ plan' \in [Text -> SUBSET Task]
    BY <1>1, <1>2 DEF FormTyped
  <1>4. \A n \in Text : form'[n] # "none" <=> n # 0 /\ n <= n1
    <2> SUFFICES ASSUME NEW n \in Text PROVE form'[n] # "none" <=> n # 0 /\ n <= n1
      OBVIOUS
    <2>1. CASE n = n1
      BY <1>0, <1>1, <1>2, <2>1 DEF FormTyped, Forms
    <2>2. CASE n # n1
      <3>1. form'[n] = form[n]
        BY <1>2, <2>2 DEF FormTyped
      <3>2. n \in Nat /\ (n <= n1 <=> n <= Texts)
        BY <1>0, <2>2 DEF Text
      <3> QED
        BY <3>1, <3>2 DEF FormTyped
    <2> QED
      BY <2>1, <2>2
  <1>5. Texts' = n1
    <2>1. Cardinality({i \in Text : i # 0 /\ form'[i] # "none"}) = n1
      BY <1>0, <1>4, TextsAreANumber
    <2> QED
      BY <2>1 DEF Texts
  <1>6. \A n \in Text : n <= Texts => plan'[n] = plan[n] /\ form'[n] = form[n]
    <2> SUFFICES ASSUME NEW n \in Text, n <= Texts PROVE plan'[n] = plan[n] /\ form'[n] = form[n]
      OBVIOUS
    <2>1. n # n1
      BY <1>0 DEF Text
    <2> QED
      BY <1>2, <2>1 DEF FormTyped
  <1>7. plan'[0] = {}
    <2>1. 0 \in Text /\ 0 <= Texts
      BY <1>0 DEF Text
    <2> QED
      BY <1>6, <2>1 DEF FormTyped
  <1> QED
    BY <1>0, <1>1, <1>2, <1>3, <1>4, <1>5, <1>6, <1>7 DEF FormTyped

LEMMA FormSame ==
  ASSUME FormTyped, UNCHANGED <<form, plan>>
  PROVE  FormTyped' /\ Texts' = Texts
  <1>1. Texts' = Texts
    BY DEF Texts
  <1> QED
    BY <1>1 DEF FormTyped

----------------------------------------------------------------------------
(* Changes of labels.                                                      *)

LEMMA EditedLabels ==
  ASSUME labels \subseteq Labels, NEW add \in SUBSET Labels,
         NEW remove, KeepsDispatched(add, remove)
  PROVE  /\ Edited(labels, add, remove) \subseteq Labels
         /\ Dispatched(labels) => Dispatched(Edited(labels, add, remove))
         /\ Dispatched(add) => Dispatched(Edited(labels, add, remove))
  BY DEF Edited, KeepsDispatched, Dispatched, DispatchLabels

LEMMA ParkOp ==
  ASSUME ParkedTyped, OpsKeepDispatched, NEW op \in Op, KeepsDispatched(op.add, op.remove),
         op.kind = "comment" => op.form # "none", parked' = Append(parked, op)
  PROVE  /\ ParkedTyped' /\ OpsKeepDispatched'
         /\ (\E k \in 1 .. Len(parked) : Dispatched(parked[k].add))
              => \E k \in 1 .. Len(parked') : Dispatched(parked'[k].add)
         /\ Dispatched(op.add) => \E k \in 1 .. Len(parked') : Dispatched(parked'[k].add)
  <1>1. parked \in Seq(Op)
    BY DEF ParkedTyped
  <1>2. /\ parked' \in Seq(Op) /\ Len(parked') = Len(parked) + 1 /\ Len(parked) \in Nat
        /\ \A i \in 1 .. Len(parked) : parked'[i] = parked[i]
        /\ parked'[Len(parked) + 1] = op
    BY <1>1, AppendProperties, LenProperties
  <1>3. \A k \in 1 .. Len(parked') : k = Len(parked) + 1 \/ k \in 1 .. Len(parked)
    BY <1>2
  <1>4. Len(parked) + 1 \in 1 .. Len(parked') /\ 1 .. Len(parked) \subseteq 1 .. Len(parked')
    BY <1>2
  <1>5. ParkedTyped'
    BY <1>2, <1>3 DEF ParkedTyped
  <1>6. OpsKeepDispatched'
    BY <1>2, <1>3 DEF OpsKeepDispatched
  <1> QED
    BY <1>2, <1>4, <1>5, <1>6

LEMMA LabelsOpTyped ==
  ASSUME NEW add \in SUBSET Labels, NEW remove \in SUBSET (Labels \cup {"none"})
  PROVE  /\ LabelsOp(add, remove) \in Op
         /\ LabelsOp(add, remove).add = add /\ LabelsOp(add, remove).remove = remove
         /\ LabelsOp(add, remove).kind = "labels"
  BY DEF LabelsOp, Op

(* A guarded change of labels, in the three ways it can end.               *)
LEMMA GuardedLabelsKeep ==
  ASSUME labels \subseteq Labels, ParkedTyped, OpsKeepDispatched, troubles \in Nat,
         NEW add \in SUBSET Labels, NEW remove \in SUBSET (Labels \cup {"none"}),
         KeepsDispatched(add, remove), GuardedLabels(add, remove)
  PROVE  /\ labels' \subseteq Labels /\ ParkedTyped' /\ OpsKeepDispatched' /\ troubles' \in Nat
         /\ excused \subseteq excused' /\ excused' \subseteq excused \cup {"refused", "overtaken"}
         /\ ShowsDispatch \/ Dispatched(add) => ShowsDispatch' \/ "refused" \in excused'
  <1> DEFINE op == LabelsOp(add, remove)
             ls == Edited(labels, add, remove)
  <1>1. /\ op \in Op /\ op.add = add /\ op.remove = remove /\ op.kind = "labels"
    BY LabelsOpTyped
  <1>2. /\ ls \subseteq Labels
        /\ Dispatched(labels) \/ Dispatched(add) => Dispatched(ls)
    BY EditedLabels
  <1>3. \/ /\ labels' = ls /\ troubles' = troubles
           /\ excused' \in {excused, excused \cup {"overtaken"}} /\ parked' = parked
        \/ /\ troubles' = troubles + 1 /\ labels' \in {labels, ls}
           /\ parked' = Append(parked, op) /\ excused' = excused
        \/ /\ troubles' = troubles + 1 /\ excused' = excused \cup {"refused"}
           /\ labels' = labels /\ parked' = parked
    BY DEF GuardedLabels, Fault, NoFault
  <1> HIDE DEF op, ls
  <1>4. CASE /\ labels' = ls /\ troubles' = troubles
             /\ excused' \in {excused, excused \cup {"overtaken"}} /\ parked' = parked
    BY <1>2, <1>4 DEF ParkedTyped, OpsKeepDispatched, ShowsDispatch
  <1>5. CASE /\ troubles' = troubles + 1 /\ labels' \in {labels, ls}
             /\ parked' = Append(parked, op) /\ excused' = excused
    <2>1. /\ ParkedTyped' /\ OpsKeepDispatched'
          /\ (\E k \in 1 .. Len(parked) : Dispatched(parked[k].add))
               => \E k \in 1 .. Len(parked') : Dispatched(parked'[k].add)
          /\ Dispatched(add) => \E k \in 1 .. Len(parked') : Dispatched(parked'[k].add)
      BY <1>1, <1>5, ParkOp
    <2>2. ShowsDispatch \/ Dispatched(add) => ShowsDispatch'
      BY <1>2, <1>5, <2>1 DEF ShowsDispatch
    <2> QED
      BY <1>2, <1>5, <2>1, <2>2
  <1>6. CASE /\ troubles' = troubles + 1 /\ excused' = excused \cup {"refused"}
             /\ labels' = labels /\ parked' = parked
    BY <1>6 DEF ParkedTyped, OpsKeepDispatched
  <1> QED
    BY <1>3, <1>4, <1>5, <1>6

LEMMA EditLabelsKeep ==
  ASSUME labels \subseteq Labels, troubles \in Nat, NEW add \in SUBSET Labels,
         NEW remove, KeepsDispatched(add, remove), NEW ok \in BOOLEAN,
         EditLabels(add, remove, ok)
  PROVE  /\ labels' \subseteq Labels /\ troubles' \in Nat
         /\ Dispatched(labels) => Dispatched(labels')
  <1>1. /\ Edited(labels, add, remove) \subseteq Labels
        /\ Dispatched(labels) => Dispatched(Edited(labels, add, remove))
    BY EditedLabels
  <1>2. labels' \in {labels, Edited(labels, add, remove)} /\ troubles' \in {troubles, troubles + 1}
    BY DEF EditLabels, Fault, NoFault
  <1> QED
    BY <1>1, <1>2

----------------------------------------------------------------------------
(* The outbox is replayed.                                                 *)

LEMMA ReplayKeepsParked ==
  ASSUME ParkedTyped, OpsKeepDispatched, NEW k \in 0 .. Len(parked), Replay(k)
  PROVE  /\ ParkedTyped' /\ OpsKeepDispatched' /\ Len(parked') = Len(parked) - k
         /\ \A i \in 1 .. Len(parked) - k : parked'[i] = parked[k + i]
  <1>1. parked \in Seq(Op) /\ Len(parked) \in Nat /\ k \in Nat
    BY LenProperties DEF ParkedTyped
  <1>2. parked' = SubSeq(parked, k + 1, Len(parked))
    BY DEF Replay
  <1>3. \A i \in k + 1 .. Len(parked) : parked[i] \in Op
    BY <1>1, ElementOfSeq
  <1>4. /\ parked' \in Seq(Op)
        /\ Len(parked') = IF k + 1 <= Len(parked) THEN Len(parked) - (k + 1) + 1 ELSE 0
        /\ \A i \in 1 .. Len(parked) - (k + 1) + 1 : parked'[i] = parked[k + 1 + i - 1]
    BY <1>1, <1>2, <1>3, SubSeqProperties
  <1>5. Len(parked') = Len(parked) - k
    BY <1>1, <1>4
  <1>6. \A i \in 1 .. Len(parked) - k : parked'[i] = parked[k + i] /\ k + i \in 1 .. Len(parked)
    BY <1>1, <1>4
  <1>7. ParkedTyped'
    BY <1>4, <1>5, <1>6 DEF ParkedTyped
  <1>8. OpsKeepDispatched'
    BY <1>5, <1>6 DEF OpsKeepDispatched
  <1> QED
    BY <1>5, <1>6, <1>7, <1>8

(* What was dispatched still shows after a replay: the last replayed change *)
(* that touches such a label puts one on.                                  *)
LEMMA ReplayShows ==
  ASSUME labels \subseteq Labels, ParkedTyped, OpsKeepDispatched,
         NEW k \in 0 .. Len(parked), Replay(k), ShowsDispatch
  PROVE  ShowsDispatch'
  <1> DEFINE Touches(i) == (parked[i].add \cup parked[i].remove) \cap DispatchLabels # {}
             of == {i \in 1 .. k : Touches(i)}
             About(l) == {i \in 1 .. k : l \in parked[i].add \cup parked[i].remove}
  <1>0. k \in Nat /\ parked \in Seq(Op) /\ Len(parked) \in Nat
    BY LenProperties DEF ParkedTyped
  <1>1. labels' = {l \in Labels :
                     IF About(l) = {} THEN l \in labels
                     ELSE \E i \in {m \in About(l) : \A j \in About(l) : j <= m} :
                            l \in parked[i].add}
    BY DEF Replay
  <1>2. DispatchLabels \subseteq Labels
    BY DEF DispatchLabels, Labels, Lifecycle
  <1>3. CASE of = {}
    <2>1. \A l \in DispatchLabels : About(l) = {}
      BY <1>3
    <2>2. CASE Dispatched(labels)
      <3>1. PICK l \in DispatchLabels : l \in labels
        BY <2>2 DEF Dispatched, DispatchLabels
      <3>2. l \in labels'
        BY <1>1, <1>2, <2>1, <3>1
      <3> QED
        BY <3>1, <3>2 DEF ShowsDispatch, Dispatched, DispatchLabels
    <2>3. CASE \E i \in 1 .. Len(parked) : Dispatched(parked[i].add)
      <3>1. PICK i \in 1 .. Len(parked) : Dispatched(parked[i].add)
        BY <2>3
      <3>2. i \notin 1 .. k
        BY <1>3, <3>1 DEF Dispatched, DispatchLabels
      <3>3. i - k \in 1 .. Len(parked) - k /\ k + (i - k) = i
        BY <1>0, <3>2
      <3>4. parked'[i - k] = parked[i] /\ Len(parked') = Len(parked) - k
        BY <3>3, ReplayKeepsParked
      <3> QED
        BY <3>1, <3>3, <3>4 DEF ShowsDispatch
    <2> QED
      BY <2>2, <2>3 DEF ShowsDispatch
  <1>4. CASE of # {}
    <2>1. PICK m \in of : \A j \in of : j <= m
      BY <1>0, <1>4, Greatest
    <2>2. parked[m].add \cap DispatchLabels # {}
      BY <2>1 DEF OpsKeepDispatched, KeepsDispatched
    <2>3. PICK l \in DispatchLabels : l \in parked[m].add
      BY <2>2
    <2>4. m \in About(l) /\ \A j \in About(l) : j <= m
      BY <2>1, <2>3
    <2>5. l \in labels'
      BY <1>1, <1>2, <2>3, <2>4
    <2> QED
      BY <2>3, <2>5 DEF ShowsDispatch, Dispatched, DispatchLabels
  <1> QED
    BY <1>3, <1>4

----------------------------------------------------------------------------
(* What each part of the invariant leaves to a step.                       *)

LEMMA QueueSame ==
  ASSUME QueueTyped, UNCHANGED queueVars
  PROVE  /\ QueueTyped' /\ \A i \in Ids : State(i)' = State(i)
         /\ InFlight(Exec)' = InFlight(Exec)
  <1>1. inbox' = inbox /\ running' = running /\ done' = done /\ failed' = failed
    BY DEF queueVars
  <1>2. QueueTyped'
    BY <1>1 DEF QueueTyped
  <1>3. \A i \in Ids : State(i)' = State(i)
    BY <1>1 DEF State
  <1>4. InFlight(Exec)' = InFlight(Exec)
    BY <1>1 DEF InFlight
  <1> QED
    BY <1>2, <1>3, <1>4

\* No ticket leaves the queue altogether.
Stays(t) == State(t) # "absent" => State(t)' # "absent"

LEMMA ParkedSame ==
  ASSUME ParkedTyped, OpsKeepDispatched, parked' = parked
  PROVE  ParkedTyped' /\ OpsKeepDispatched'
  BY DEF ParkedTyped, OpsKeepDispatched

(* The ticket count of a lifecycle under a step that queues nothing.       *)
LEMMA DispatchKept ==
  ASSUME DispatchShows, DispatchedOnce, cycle \in Nat, cycle' \in {0, cycle},
         excused \subseteq excused',
         cycle' # 0 /\ ShowsDispatch => ShowsDispatch' \/ "refused" \in excused',
         InFlight(Exec) => \/ InFlight(Exec)' \/ ShowsDispatch' \/ "refused" \in excused'
  PROVE  DispatchShows' /\ DispatchedOnce'
  <1>1. DispatchShows'
    <2> SUFFICES ASSUME cycle' >= 1
                 PROVE  \/ excused' \cap {"refused", "stale"} # {}
                        \/ ShowsDispatch' \/ InFlight(Exec)'
      BY DEF DispatchShows
    <2>1. cycle' # 0 /\ cycle >= 1
      OBVIOUS
    <2> QED
      BY <2>1 DEF DispatchShows
  <1>2. DispatchedOnce'
    BY DEF DispatchedOnce
  <1> QED
    BY <1>1, <1>2

(* The sets follow their plan as long as their files stay.                 *)
LEMMA SetKept ==
  ASSUME SetTyped, FormTyped, SetIsItsPlan, NoChildLost, excused \subseteq excused',
         \A n \in Text : n <= Texts => plan'[n] = plan[n],
         UNCHANGED setVars, \A t \in Task : Stays(t)
  PROVE  SetIsItsPlan' /\ NoChildLost'
  <1>1. rec' = rec /\ planMd' = planMd
    BY DEF setVars
  <1>2. plan'[rec.plan] = plan[rec.plan] /\ plan'[planMd] = plan[planMd]
    BY DEF SetTyped, IsWritten
  <1>3. SetIsItsPlan'
    BY <1>1, <1>2 DEF SetIsItsPlan
  <1>4. rec.tasks \subseteq Task
    BY DEF SetTyped, Record
  <1>5. NoChildLost'
    <2> SUFFICES ASSUME NEW t \in rec.tasks
                 PROVE  \/ State(t)' # "absent"
                        \/ t \in rec.pending
                        \/ "cut" \in excused' /\ t \notin plan'[planMd]
                        \/ "torn" \in excused'
      BY <1>1 DEF NoChildLost
    <2>1. State(t) # "absent" => State(t)' # "absent"
      BY <1>4 DEF Stays
    <2> QED
      BY <1>2, <2>1 DEF NoChildLost
  <1> QED
    BY <1>3, <1>5

LEMMA ChildrenSame ==
  ASSUME ChildrenFresh, excused \subseteq excused',
         rec'.plan = rec.plan, rec'.tasks = rec.tasks,
         \A t \in Task : /\ inbox'[t] = inbox[t] /\ running'[t] = running[t]
                         /\ (t \in done' <=> t \in done)
  PROVE  ChildrenFresh'
  BY DEF ChildrenFresh, Childlike

(* A step of the sweep that only looks.                                    *)
LEMMA LookingStep ==
  ASSUME InboxInv,
         UNCHANGED <<githubVars, queueVars, parked, shown, ran, cycle, setVars>>,
         excused' \in {excused, excused \cup {"raced"}}, troubles' \in Nat,
         SweepTyped', HeldShown', LabelChosen', SweepAgrees'
  PROVE  InboxInv'
  <1>1. /\ form' = form /\ plan' = plan /\ labels' = labels /\ body' = body
        /\ comment' = comment /\ vouched' = vouched /\ approved' = approved
        /\ approval' = approval /\ rec' = rec /\ planMd' = planMd
        /\ inbox' = inbox /\ running' = running /\ done' = done
    BY DEF githubVars, setVars, queueVars
  <1>2. FormTyped' /\ Texts' = Texts
    BY <1>1, FormSame DEF InboxInv, Typed
  <1>3. QueueTyped' /\ (\A i \in Ids : State(i)' = State(i)) /\ InFlight(Exec)' = InFlight(Exec)
    BY QueueSame DEF InboxInv, Typed
  <1>4. ParkedTyped' /\ OpsKeepDispatched'
    BY ParkedSame DEF InboxInv, Typed, Marking
  <1>5. Typed'
    <2>1. IssueTyped'
      BY <1>1, <1>2 DEF InboxInv, Typed, IssueTyped, IsWritten
    <2>2. HistoryTyped'
      BY DEF InboxInv, Typed, HistoryTyped
    <2>3. SetTyped'
      BY <1>1, <1>2 DEF InboxInv, Typed, SetTyped, IsWritten
    <2> QED
      BY <1>2, <1>3, <1>4, <2>1, <2>2, <2>3 DEF Typed
  <1>6. Approval'
    <2>1. EventsShown'
      BY <1>1 DEF InboxInv, Approval, EventsShown
    <2>2. RunsShown'
      BY <1>1 DEF InboxInv, Approval, RunsShown
    <2> QED
      BY <2>1, <2>2 DEF Approval
  <1>7. Marking'
    <2>1. ShowsDispatch => ShowsDispatch'
      BY <1>1 DEF ShowsDispatch
    <2>2. DispatchShows' /\ DispatchedOnce'
      BY <1>3, <2>1, DispatchKept DEF InboxInv, Marking, Typed, HistoryTyped
    <2> QED
      BY <1>4, <2>2 DEF Marking
  <1>8. Following'
    <2>1. \A t \in Task : Stays(t)
      BY <1>3 DEF Stays, Ids
    <2>2. SetIsItsPlan' /\ NoChildLost'
      BY <1>1, <2>1, SetKept DEF InboxInv, Following, Typed
    <2>3. ChildrenFresh'
      BY <1>1, ChildrenSame DEF InboxInv, Following
    <2> QED
      BY <2>2, <2>3 DEF Following
  <1> QED
    BY <1>5, <1>6, <1>7, <1>8 DEF InboxInv

(* A step beside the sweep, by the worker or by people, and its replay of  *)
(* the outbox.                                                             *)
LEMMA StepBeside ==
  ASSUME InboxInv, at' = at \/ (at = "idle" /\ at' = "list"),
         UNCHANGED <<seen, held, asOf, mem, setVars>>, excused \subseteq excused', ran' = ran,
         FormTyped', Texts <= Texts', \A n \in Text : n <= Texts => plan'[n] = plan[n],
         IssueTyped', QueueTyped', ParkedTyped', HistoryTyped',
         EventsShown', body <= body', comment <= comment', shown \subseteq shown',
         OpsKeepDispatched', DispatchShows', DispatchedOnce',
         \A t \in Task : Stays(t), ChildrenFresh'
  PROVE  InboxInv'
  <1>1. /\ seen' = seen /\ held' = held /\ asOf' = asOf /\ mem' = mem
        /\ rec' = rec /\ planMd' = planMd
    BY DEF setVars
  <1>2. \A n : IsWritten(n) => IsWritten(n)'
    BY DEF IsWritten, InboxInv, Typed, FormTyped, Text
  <1>3. Typed'
    <2>1. SweepTyped'
      BY <1>1, <1>2 DEF InboxInv, Typed, SweepTyped, Places
    <2>2. SetTyped'
      BY <1>1, <1>2 DEF InboxInv, Typed, SetTyped
    <2> QED
      BY <2>1, <2>2 DEF Typed
  <1>4. Approval'
    <2>1. HeldShown'
      <3>1. /\ held \in Nat /\ body \in Nat /\ comment \in Nat /\ body' \in Nat /\ comment' \in Nat
        BY DEF InboxInv, Typed, IssueTyped, SweepTyped, IsWritten, Text
      <3> QED
        BY <1>1, <3>1 DEF InboxInv, Approval, HeldShown
    <2>2. RunsShown'
      BY <1>1 DEF InboxInv, Approval, RunsShown
    <2> QED
      BY <2>1, <2>2 DEF Approval
  <1>5. Marking'
    BY <1>1 DEF InboxInv, Marking, LabelChosen
  <1>6. Following'
    <2>1. SweepAgrees'
      BY <1>1 DEF InboxInv, Following, SweepAgrees, InMaintenance, Holding
    <2>2. SetIsItsPlan' /\ NoChildLost'
      BY SetKept DEF InboxInv, Following, Typed
    <2> QED
      BY <2>1, <2>2 DEF Following
  <1> QED
    BY <1>3, <1>4, <1>5, <1>6 DEF InboxInv

----------------------------------------------------------------------------
(* The sweep looks at the issue.                                           *)

LEMMA NothingHeld ==
  ASSUME FormTyped'
  PROVE  IsWritten(0)'
  BY BridgeAssumption DEF FormTyped, IsWritten, Text

LEMMA Beginning ==
  ASSUME InboxInv
  PROVE  /\ IsWritten(body) /\ IsWritten(comment) /\ IsWritten(held)
         /\ body \in Nat /\ body # 0 /\ comment \in Nat /\ held \in Nat /\ asOf \in Nat
         /\ vouched.text \in Nat /\ approved.text \in Nat
         /\ vouched \in LabelEvent /\ approved \in LabelEvent /\ approval \in BOOLEAN
         /\ troubles \in Nat /\ troubles + 1 \in Nat /\ cycle \in Nat
         /\ labels \subseteq Labels /\ seen \subseteq Labels \cup {"none"} /\ asOf \in Text
         /\ (at \notin InMaintenance => mem = NoRecord) /\ mem \in Record
         /\ (at \in Holding => held # 0)
  BY DEF InboxInv, Typed, IssueTyped, SweepTyped, HistoryTyped, IsWritten, Text, LabelEvent,
         Following, SweepAgrees

LEMMA LookedAtKeeps ==
  ASSUME InboxInv, at \notin InMaintenance, LookedAt, FormTyped'
  PROVE  SweepTyped' /\ HeldShown' /\ LabelChosen' /\ SweepAgrees'
  <1>1. at' = "maintain" /\ seen' = {} /\ held' = 0 /\ asOf' = 0 /\ mem' = mem
    BY DEF LookedAt, Goto
  <1>2. mem = NoRecord /\ mem \in Record
    BY Beginning
  <1>3. SweepTyped'
    BY <1>1, <1>2, NothingHeld, BridgeAssumption DEF SweepTyped, Places, Text
  <1>4. HeldShown'
    BY <1>1 DEF HeldShown
  <1>5. LabelChosen'
    BY <1>1 DEF LabelChosen
  <1>6. SweepAgrees'
    BY <1>1, <1>2 DEF SweepAgrees, InMaintenance, Holding
  <1> QED
    BY <1>3, <1>4, <1>5, <1>6

LEMMA EndSweepKeeps ==
  ASSUME EndSweep, FormTyped'
  PROVE  SweepTyped' /\ HeldShown' /\ LabelChosen' /\ SweepAgrees'
  <1>1. at' = "idle" /\ seen' = {} /\ held' = 0 /\ asOf' = 0 /\ mem' = NoRecord
    BY DEF EndSweep, Goto
  <1>2. NoRecord \in Record
    BY BridgeAssumption DEF NoRecord, Record, Text
  <1>3. SweepTyped'
    BY <1>1, <1>2, NothingHeld, BridgeAssumption DEF SweepTyped, Places, Text
  <1>4. HeldShown'
    BY <1>1 DEF HeldShown
  <1>5. LabelChosen'
    BY <1>1 DEF LabelChosen
  <1>6. SweepAgrees'
    BY <1>1 DEF SweepAgrees, InMaintenance, Holding
  <1> QED
    BY <1>3, <1>4, <1>5, <1>6

LEMMA TextsSame ==
  ASSUME InboxInv, UNCHANGED githubVars
  PROVE  /\ FormTyped' /\ Texts' = Texts /\ \A n : IsWritten(n)' <=> IsWritten(n)
         /\ body' = body /\ comment' = comment /\ labels' = labels
  <1>1. form' = form /\ plan' = plan /\ body' = body /\ comment' = comment /\ labels' = labels
    BY DEF githubVars
  <1>2. FormTyped' /\ Texts' = Texts
    BY <1>1, FormSame DEF InboxInv, Typed
  <1> QED
    BY <1>1, <1>2 DEF IsWritten

LEMMA IssueAndSetSame ==
  ASSUME UNCHANGED <<issueVars, setVars>>
  PROVE  /\ UNCHANGED <<githubVars, queueVars, parked, shown, ran, cycle, setVars>>
         /\ excused' = excused /\ troubles' = troubles
  BY DEF issueVars, historyVars

LEMMA FaultIsCounted ==
  ASSUME InboxInv, Fault
  PROVE  troubles' \in Nat
  BY Beginning DEF Fault

LEMMA GiveUpStep ==
  ASSUME InboxInv, at \notin InMaintenance, GiveUp \/ GiveUpFailed
  PROVE  InboxInv'
  <1>1. /\ UNCHANGED <<githubVars, queueVars, parked, shown, ran, cycle, setVars>>
        /\ excused' = excused /\ troubles' \in Nat /\ LookedAt
    <2>1. CASE GiveUp
      BY <2>1, IssueAndSetSame, Beginning DEF GiveUp
    <2>2. CASE GiveUpFailed
      BY <2>2, FaultIsCounted DEF GiveUpFailed, historyVars
    <2> QED
      BY <2>1, <2>2
  <1>2. FormTyped'
    BY <1>1, TextsSame
  <1>3. SweepTyped' /\ HeldShown' /\ LabelChosen' /\ SweepAgrees'
    BY <1>1, <1>2, LookedAtKeeps
  <1> QED
    BY <1>1, <1>3, LookingStep

LEMMA ListStep ==
  ASSUME InboxInv, List
  PROVE  InboxInv'
  <1>1. at \in {"list", "idle"} /\ at \notin InMaintenance
    BY DEF List, InMaintenance
  <1>2. CASE GiveUp \/ GiveUpFailed
    BY <1>1, <1>2, GiveUpStep
  <1>3. CASE ~(GiveUp \/ GiveUpFailed)
    <2>1. /\ UNCHANGED <<issueVars, setVars>>
          /\ \/ /\ seen' = labels \cap {"plan-ready", "approved"} /\ held' = body
                /\ at' \in {"verify", "cleanup", "comment"}
                /\ asOf' = asOf /\ mem' = mem
             \/ LookedAt
      BY <1>3 DEF List, Goto
    <2>2. /\ UNCHANGED <<githubVars, queueVars, parked, shown, ran, cycle, setVars>>
          /\ excused' = excused /\ troubles' = troubles
      BY <2>1, IssueAndSetSame
    <2>3. /\ FormTyped' /\ Texts' = Texts /\ \A n : IsWritten(n)' <=> IsWritten(n)
          /\ body' = body /\ comment' = comment
      BY <2>2, TextsSame
    <2>4. CASE LookedAt
      <3>1. SweepTyped' /\ HeldShown' /\ LabelChosen' /\ SweepAgrees'
        BY <1>1, <2>3, <2>4, LookedAtKeeps
      <3> QED
        BY <2>2, <3>1, LookingStep, Beginning
    <2>5. CASE /\ seen' = labels \cap {"plan-ready", "approved"} /\ held' = body
               /\ at' \in {"verify", "cleanup", "comment"}
               /\ asOf' = asOf /\ mem' = mem
      <3>1. at' \in Places /\ at' \notin InMaintenance
        BY <2>5 DEF Places, InMaintenance
      <3>2. SweepTyped'
        BY <2>3, <2>5, <3>1, Beginning DEF SweepTyped, Labels
      <3>3. HeldShown'
        BY <2>3, <2>5, Beginning DEF HeldShown
      <3>4. LabelChosen'
        BY <2>5 DEF LabelChosen
      <3>5. SweepAgrees'
        BY <1>1, <2>3, <2>5, <3>1, Beginning DEF SweepAgrees
      <3> QED
        BY <2>2, <3>2, <3>3, <3>4, <3>5, LookingStep, Beginning
    <2> QED
      BY <2>1, <2>4, <2>5
  <1> QED
    BY <1>2, <1>3

(* A look that goes on at another place, with the same text or a new one.  *)
LEMMA GoOn ==
  ASSUME InboxInv, UNCHANGED <<githubVars, queueVars, parked, shown, ran, cycle, setVars>>,
         excused' \in {excused, excused \cup {"raced"}}, troubles' \in Nat,
         at' \in Places, at' # "label", mem' = mem, seen' = seen,
         at \in InMaintenance <=> at' \in InMaintenance,
         held' \in {held, comment}, asOf' \in {asOf, vouched.text},
         HeldShown', at' \in Holding => held' # 0
  PROVE  InboxInv'
  <1>1. \A n : IsWritten(n)' <=> IsWritten(n)
    BY TextsSame
  <1>2. rec' = rec
    BY DEF setVars
  <1>3. SweepTyped'
    BY <1>1, Beginning DEF SweepTyped, LabelEvent
  <1>4. LabelChosen'
    BY DEF LabelChosen
  <1>5. SweepAgrees'
    BY <1>2 DEF SweepAgrees, InboxInv, Following
  <1> QED
    BY <1>3, <1>4, <1>5, LookingStep

LEMMA SkipStep ==
  ASSUME InboxInv, NEW l \in Places, l # "label", Skip(l),
         at \in InMaintenance <=> l \in InMaintenance,
         l \notin Holding
  PROVE  InboxInv'
  <1>1. /\ UNCHANGED <<githubVars, queueVars, parked, shown, ran, cycle, setVars>>
        /\ excused' = excused /\ troubles' = troubles
    BY IssueAndSetSame DEF Skip
  <1>2. at' = l /\ seen' = seen /\ held' = held /\ asOf' = asOf /\ mem' = mem
    BY DEF Skip, Goto
  <1>3. HeldShown'
    BY <1>2 DEF HeldShown, Holding
  <1> QED
    BY <1>1, <1>2, <1>3, GoOn, Beginning

LEMMA FindCommentStep ==
  ASSUME InboxInv, FindComment
  PROVE  InboxInv'
  <1>1. at = "comment" /\ at \notin InMaintenance
    BY DEF FindComment, InMaintenance
  <1>2. CASE GiveUp \/ GiveUpFailed
    BY <1>1, <1>2, GiveUpStep
  <1>3. CASE ~(GiveUp \/ GiveUpFailed)
    <2>1. /\ comment # 0 /\ held' = comment /\ at' = IF approval THEN "approve" ELSE "submit"
          /\ seen' = seen /\ asOf' = asOf /\ mem' = mem /\ UNCHANGED <<issueVars, setVars>>
      BY <1>3 DEF FindComment, Goto
    <2>2. /\ UNCHANGED <<githubVars, queueVars, parked, shown, ran, cycle, setVars>>
          /\ excused' = excused /\ troubles' = troubles /\ comment' = comment /\ shown' = shown
      BY <2>1, IssueAndSetSame, TextsSame
    <2>3. at' \in Places /\ at' \notin InMaintenance /\ at' \in {"approve", "submit"}
      BY <2>1 DEF Places, InMaintenance
    <2>4. ~approval => comment \in shown
      BY <2>1 DEF InboxInv, Approval, EventsShown
    <2>5. HeldShown'
      BY <2>1, <2>2, <2>3, <2>4, Beginning DEF HeldShown
    <2> QED
      BY <1>1, <2>1, <2>2, <2>3, <2>5, GoOn, Beginning
  <1> QED
    BY <1>2, <1>3

(* The last approval is for the comment that was taken, or there was a race. *)
LEMMA ApprovedIsHeld ==
  ASSUME InboxInv, at \in {"approve", "event"}, approved.writer, approved.text >= held,
         NoteRace(comment)
  PROVE  /\ excused' \in {excused, excused \cup {"raced"}}
         /\ "raced" \in excused' \/ held \in shown
  <1>1. held <= comment /\ approved.text <= comment /\ approved.text \in shown
    BY DEF InboxInv, Approval, HeldShown, EventsShown
  <1>2. held = comment => approved.text = held
    BY <1>1, Beginning
  <1> QED
    BY <1>1, <1>2 DEF NoteRace

LEMMA VerifyApprovalStep ==
  ASSUME InboxInv, VerifyApproval
  PROVE  InboxInv'
  <1>1. at = "approve" /\ at \notin InMaintenance /\ at \in Holding
    BY DEF VerifyApproval, InMaintenance, Holding
  <1>2. CASE GiveUp \/ GiveUpFailed
    BY <1>1, <1>2, GiveUpStep
  <1>3. CASE ~(GiveUp \/ GiveUpFailed)
    <2>1. /\ approved.writer /\ approved.text >= held /\ NoteRace(comment) /\ at' = "submit"
          /\ seen' = seen /\ held' = held /\ asOf' = asOf /\ mem' = mem
          /\ UNCHANGED <<githubVars, queueVars, parked, shown, ran, cycle, setVars>>
          /\ troubles' = troubles
      BY <1>3 DEF VerifyApproval, Goto, setVars, historyVars
    <2>2. /\ excused' \in {excused, excused \cup {"raced"}}
          /\ "raced" \in excused' \/ held \in shown
      BY <1>1, <2>1, ApprovedIsHeld
    <2>3. HeldShown'
      BY <2>1, <2>2 DEF HeldShown
    <2>4. at' \in Places /\ at' \notin InMaintenance
      BY <2>1 DEF Places, InMaintenance
    <2> QED
      BY <1>1, <2>1, <2>2, <2>3, <2>4, GoOn, Beginning
  <1> QED
    BY <1>2, <1>3

LEMMA VerifyTriggerStep ==
  ASSUME InboxInv, VerifyTrigger
  PROVE  InboxInv'
  <1>1. at = "verify" /\ at \notin InMaintenance /\ at \in Holding
    BY DEF VerifyTrigger, InMaintenance, Holding
  <1>2. CASE GiveUpFailed
    BY <1>1, <1>2, GiveUpStep
  <1>3. CASE Skip("deny")
    <2>1. "deny" \in Places /\ "deny" \notin InMaintenance /\ "deny" \notin Holding
      BY DEF Places, InMaintenance, Holding
    <2> QED
      BY <1>1, <1>3, <2>1, SkipStep
  <1>4. CASE ~(GiveUpFailed \/ Skip("deny"))
    <2>1. /\ vouched.writer /\ NoteRace(body) /\ at' = "vouch"
          /\ seen' = seen /\ held' = held /\ asOf' = vouched.text /\ mem' = mem
          /\ UNCHANGED <<githubVars, queueVars, parked, shown, ran, cycle, setVars>>
          /\ troubles' = troubles
      BY <1>4 DEF VerifyTrigger, Goto, setVars
    <2>2. /\ vouched.text \in shown /\ vouched.text <= body /\ held <= body
      BY <1>1, <2>1 DEF InboxInv, Approval, EventsShown, HeldShown
    <2>3. /\ excused' \in {excused, excused \cup {"raced"}}
          /\ "raced" \in excused' \/ body = held
      BY <2>1 DEF NoteRace
    <2>4. HeldShown'
      <3>1. body' = body /\ shown' = shown
        BY <2>1 DEF githubVars
      <3> QED
        BY <2>1, <2>2, <2>3, <3>1, Beginning DEF HeldShown
    <2>5. at' \in Places /\ at' \notin InMaintenance
      BY <2>1 DEF Places, InMaintenance
    <2> QED
      BY <1>1, <2>1, <2>3, <2>4, <2>5, GoOn, Beginning
  <1> QED
    BY <1>2, <1>3, <1>4

LEMMA VerifyUneditedStep ==
  ASSUME InboxInv, VerifyUnedited
  PROVE  InboxInv'
  <1>1. at = "vouch" /\ at \notin InMaintenance /\ at \in Holding
    BY DEF VerifyUnedited, InMaintenance, Holding
  <1>2. CASE GiveUp \/ GiveUpFailed
    BY <1>1, <1>2, GiveUpStep
  <1>3. CASE ~(GiveUp \/ GiveUpFailed)
    <2>1. /\ body <= asOf /\ Skip("submit")
      BY <1>3 DEF VerifyUnedited
    <2>2. /\ UNCHANGED <<githubVars, queueVars, parked, shown, ran, cycle, setVars>>
          /\ excused' = excused /\ troubles' = troubles /\ at' = "submit"
          /\ seen' = seen /\ held' = held /\ asOf' = asOf /\ mem' = mem
      BY <2>1, IssueAndSetSame DEF Skip, Goto
    <2>3. "raced" \in excused \/ held \in shown
      <3>1. /\ held <= body /\ ("raced" \in excused \/ (asOf <= held /\ asOf \in shown))
        BY <1>1 DEF InboxInv, Approval, HeldShown
      <3> QED
        BY <2>1, <3>1, Beginning
    <2>4. HeldShown'
      BY <2>2, <2>3 DEF HeldShown
    <2>5. at' \in Places /\ at' \notin InMaintenance
      BY <2>2 DEF Places, InMaintenance
    <2> QED
      BY <1>1, <2>2, <2>4, <2>5, GoOn, Beginning
  <1> QED
    BY <1>2, <1>3

(* The plan comment of a recorded set is looked at.                        *)
LEMMA FailToStep ==
  ASSUME InboxInv, at \in InMaintenance, FailTo("state")
  PROVE  InboxInv'
  <1>1. /\ UNCHANGED <<githubVars, queueVars, parked, shown, ran, cycle, setVars>>
        /\ excused' = excused /\ troubles' \in Nat /\ at' = "state"
        /\ seen' = seen /\ held' = held /\ asOf' = asOf /\ mem' = mem
    BY FaultIsCounted DEF FailTo, Goto, historyVars
  <1>2. HeldShown'
    BY <1>1 DEF HeldShown
  <1>3. at' \in Places /\ at' \in InMaintenance /\ at' \notin Holding
    BY <1>1 DEF Places, InMaintenance, Holding
  <1> QED
    BY <1>1, <1>2, <1>3, GoOn, Beginning

LEMMA ToStateStep ==
  ASSUME InboxInv, at \in InMaintenance, Skip("state")
  PROVE  InboxInv'
  <1>1. "state" \in Places /\ "state" \in InMaintenance /\ "state" \notin Holding
    BY DEF Places, InMaintenance, Holding
  <1> QED
    BY <1>1, SkipStep

LEMMA ProbeStep ==
  ASSUME InboxInv, Probe
  PROVE  InboxInv'
  <1>1. at = "probe" /\ at \in InMaintenance
    BY DEF Probe, InMaintenance
  <1>2. CASE FailTo("state")
    BY <1>1, <1>2, FailToStep
  <1>3. CASE Skip("state")
    BY <1>1, <1>3, ToStateStep
  <1>4. CASE ~(FailTo("state") \/ Skip("state"))
    <2>1. /\ comment # 0 /\ held' = comment /\ at' = IF approval THEN "approval" ELSE "replace"
          /\ seen' = seen /\ asOf' = asOf /\ mem' = mem /\ UNCHANGED <<issueVars, setVars>>
      BY <1>4 DEF Probe, Goto
    <2>2. /\ UNCHANGED <<githubVars, queueVars, parked, shown, ran, cycle, setVars>>
          /\ excused' = excused /\ troubles' = troubles /\ comment' = comment /\ shown' = shown
      BY <2>1, IssueAndSetSame, TextsSame
    <2>3. at' \in Places /\ at' \in InMaintenance /\ at' \in {"approval", "replace"}
      BY <2>1 DEF Places, InMaintenance
    <2>4. ~approval => comment \in shown
      BY <2>1 DEF InboxInv, Approval, EventsShown
    <2>5. HeldShown'
      BY <2>1, <2>2, <2>3, <2>4, Beginning DEF HeldShown
    <2> QED
      BY <1>1, <2>1, <2>2, <2>3, <2>5, GoOn, Beginning
  <1> QED
    BY <1>2, <1>3, <1>4

LEMMA ReapprovedStep ==
  ASSUME InboxInv, Reapproved
  PROVE  InboxInv'
  <1>1. at = "approval" /\ at \in InMaintenance /\ at \in Holding
    BY DEF Reapproved, InMaintenance, Holding
  <1>2. CASE FailTo("state")
    BY <1>1, <1>2, FailToStep
  <1>3. CASE Skip("state")
    BY <1>1, <1>3, ToStateStep
  <1>4. CASE Skip("event")
    <2>1. /\ UNCHANGED <<githubVars, queueVars, parked, shown, ran, cycle, setVars>>
          /\ excused' = excused /\ troubles' = troubles /\ at' = "event"
          /\ seen' = seen /\ held' = held /\ asOf' = asOf /\ mem' = mem
      BY <1>4, IssueAndSetSame DEF Skip, Goto
    <2>2. held <= comment /\ comment' = comment
      BY <1>1, <2>1, TextsSame DEF InboxInv, Approval, HeldShown
    <2>3. HeldShown'
      BY <2>1, <2>2 DEF HeldShown
    <2>4. at' \in Places /\ at' \in InMaintenance
      BY <2>1 DEF Places, InMaintenance
    <2> QED
      BY <1>1, <2>1, <2>3, <2>4, GoOn, Beginning
  <1> QED
    BY <1>2, <1>3, <1>4 DEF Reapproved

LEMMA ReapprovedEventStep ==
  ASSUME InboxInv, ReapprovedEvent
  PROVE  InboxInv'
  <1>1. at = "event" /\ at \in InMaintenance /\ at \in Holding
    BY DEF ReapprovedEvent, InMaintenance, Holding
  <1>2. CASE FailTo("state")
    BY <1>1, <1>2, FailToStep
  <1>3. CASE Skip("state")
    BY <1>1, <1>3, ToStateStep
  <1>4. CASE ~(FailTo("state") \/ Skip("state"))
    <2>1. /\ approved.writer /\ approved.text >= held /\ NoteRace(comment) /\ at' = "replace"
          /\ seen' = seen /\ held' = held /\ asOf' = asOf /\ mem' = mem
          /\ UNCHANGED <<githubVars, queueVars, parked, shown, ran, cycle, setVars>>
          /\ troubles' = troubles
      BY <1>4 DEF ReapprovedEvent, Goto, setVars
    <2>2. /\ excused' \in {excused, excused \cup {"raced"}}
          /\ "raced" \in excused' \/ held \in shown
      BY <1>1, <2>1, ApprovedIsHeld
    <2>3. HeldShown'
      BY <2>1, <2>2 DEF HeldShown
    <2>4. at' \in Places /\ at' \in InMaintenance
      BY <2>1 DEF Places, InMaintenance
    <2> QED
      BY <1>1, <2>1, <2>2, <2>3, <2>4, GoOn, Beginning
  <1> QED
    BY <1>2, <1>3, <1>4

----------------------------------------------------------------------------
(* The sweep changes labels and notes what it knows of the set.            *)

\* The record is rewritten about the same plan, children and stranded ones.
Noted == planMd' = planMd /\ rec' \in Record /\ SameSet(rec', rec) /\ (rec = NoRecord => rec' = rec)

LEMMA SetNoted ==
  ASSUME InboxInv, Noted, excused \subseteq excused', UNCHANGED <<form, plan>>,
         \A t \in Task : Stays(t)
  PROVE  SetTyped' /\ SetIsItsPlan' /\ NoChildLost'
  <1>1. /\ rec'.plan = rec.plan /\ rec'.tasks = rec.tasks /\ rec'.pending = rec.pending
        /\ planMd' = planMd /\ rec' \in Record /\ (rec = NoRecord => rec' = rec)
    BY DEF Noted, SameSet
  <1>2. FormTyped' /\ Texts' = Texts
    BY FormSame DEF InboxInv, Typed
  <1>3. SetTyped'
    BY <1>1, <1>2 DEF InboxInv, Typed, SetTyped, IsWritten
  <1>4. SetIsItsPlan'
    BY <1>1 DEF InboxInv, Following, SetIsItsPlan
  <1>5. rec.tasks \subseteq Task
    BY DEF InboxInv, Typed, SetTyped, Record
  <1>6. NoChildLost'
    <2> SUFFICES ASSUME NEW t \in rec.tasks
                 PROVE  \/ State(t)' # "absent"
                        \/ t \in rec.pending
                        \/ "cut" \in excused' /\ t \notin plan'[planMd]
                        \/ "torn" \in excused'
      BY <1>1 DEF NoChildLost
    <2>1. State(t) # "absent" => State(t)' # "absent"
      BY <1>5 DEF Stays
    <2> QED
      BY <2>1 DEF InboxInv, Following, NoChildLost
  <1> QED
    BY <1>3, <1>4, <1>6

LEMMA LabellingStep ==
  ASSUME InboxInv,
         UNCHANGED <<form, plan, body, comment, vouched, approved, approval, queueVars, shown,
                     ran, cycle>>,
         excused \subseteq excused', troubles' \in Nat, labels' \subseteq Labels,
         ParkedTyped', OpsKeepDispatched',
         ShowsDispatch => ShowsDispatch' \/ "refused" \in excused',
         SweepTyped', HeldShown', LabelChosen', SweepAgrees', Noted
  PROVE  InboxInv'
  <1>1. FormTyped' /\ Texts' = Texts
    BY FormSame DEF InboxInv, Typed
  <1>2. /\ QueueTyped' /\ (\A i \in Ids : State(i)' = State(i)) /\ InFlight(Exec)' = InFlight(Exec)
        /\ inbox' = inbox /\ running' = running /\ done' = done
    BY QueueSame DEF InboxInv, Typed, queueVars
  <1>3. SetTyped' /\ SetIsItsPlan' /\ NoChildLost' /\ ChildrenFresh'
    <2>1. \A t \in Task : Stays(t)
      BY <1>2 DEF Stays, Ids
    <2>2. ChildrenFresh'
      BY <1>2, ChildrenSame DEF InboxInv, Following, Noted, SameSet
    <2> QED
      BY <2>1, <2>2, SetNoted
  <1>4. Typed'
    <2>1. IssueTyped'
      BY <1>1 DEF InboxInv, Typed, IssueTyped, IsWritten
    <2>2. HistoryTyped'
      BY DEF InboxInv, Typed, HistoryTyped
    <2> QED
      BY <1>1, <1>2, <1>3, <2>1, <2>2 DEF Typed
  <1>5. Approval'
    <2>1. EventsShown'
      BY DEF InboxInv, Approval, EventsShown
    <2>2. RunsShown'
      BY DEF InboxInv, Approval, RunsShown, Noted
    <2> QED
      BY <2>1, <2>2 DEF Approval
  <1>6. Marking'
    <2>1. DispatchShows' /\ DispatchedOnce'
      BY <1>2, DispatchKept, Beginning DEF InboxInv, Marking
    <2> QED
      BY <2>1 DEF Marking
  <1> QED
    BY <1>3, <1>4, <1>5, <1>6 DEF InboxInv, Following

LEMMA NotedSame ==
  ASSUME InboxInv, UNCHANGED setVars
  PROVE  Noted
  BY DEF Noted, SameSet, setVars, InboxInv, Typed, SetTyped

LEMMA ReviewLabels ==
  /\ OutOfReview \subseteq Labels /\ OutOfReview \cap DispatchLabels = {}
  /\ {"queued"} \subseteq Labels /\ {"planning"} \subseteq Labels /\ {"denied"} \subseteq Labels
  /\ {"failed"} \subseteq Labels /\ {"failed"} \cap DispatchLabels # {}
  BY DEF OutOfReview, Labels, Lifecycle, DispatchLabels

LEMMA ChangeLabelsStep ==
  ASSUME InboxInv, at \notin InMaintenance, NEW add \in SUBSET Labels, NEW remove,
         remove \cap DispatchLabels = {}, ChangeLabels(add, remove)
  PROVE  InboxInv'
  <1>1. /\ LookedAt /\ UNCHANGED setVars
        /\ UNCHANGED <<form, plan, body, comment, vouched, approved, approval, queueVars, shown,
                       ran, cycle>>
        /\ excused' = excused /\ parked' = parked
    BY DEF ChangeLabels, historyVars
  <1>2. PICK ok \in BOOLEAN : EditLabels(add, remove, ok)
    BY DEF ChangeLabels
  <1>3. KeepsDispatched(add, remove)
    BY DEF KeepsDispatched
  <1>4. /\ labels' \subseteq Labels /\ troubles' \in Nat
        /\ Dispatched(labels) => Dispatched(labels')
    BY <1>2, <1>3, EditLabelsKeep, Beginning
  <1>5. ParkedTyped' /\ OpsKeepDispatched'
    BY <1>1, ParkedSame DEF InboxInv, Typed, Marking
  <1>6. ShowsDispatch => ShowsDispatch'
    BY <1>1, <1>4 DEF ShowsDispatch
  <1>7. FormTyped'
    BY <1>1, FormSame DEF InboxInv, Typed
  <1>8. SweepTyped' /\ HeldShown' /\ LabelChosen' /\ SweepAgrees'
    BY <1>1, <1>7, LookedAtKeeps
  <1>9. Noted
    BY <1>1, NotedSame
  <1> QED
    BY <1>1, <1>4, <1>5, <1>6, <1>8, <1>9, LabellingStep

LEMMA MarkingStep ==
  ASSUME InboxInv, Cleanup \/ Deny \/ Mark
  PROVE  InboxInv'
  <1>0. at \in {"cleanup", "deny", "mark"} /\ at \notin InMaintenance
    BY DEF Cleanup, Deny, Mark, InMaintenance
  <1>1. CASE Cleanup
    <2>1. ChangeLabels({}, OutOfReview)
      BY <1>1 DEF Cleanup
    <2> QED
      BY <1>0, <2>1, ReviewLabels, ChangeLabelsStep
  <1>2. CASE Deny
    <2>1. ChangeLabels({"denied"}, {})
      BY <1>2 DEF Deny
    <2> QED
      BY <1>0, <2>1, ReviewLabels, ChangeLabelsStep
  <1>3. CASE Mark
    <2>1. \E add \in {{"queued"}, {"planning"}} : \E remove \in {{}, OutOfReview} :
            ChangeLabels(add, remove)
      BY <1>3 DEF Mark
    <2>2. PICK add \in {{"queued"}, {"planning"}} : \E remove \in {{}, OutOfReview} :
            ChangeLabels(add, remove)
      BY <2>1
    <2>3. PICK remove \in {{}, OutOfReview} : ChangeLabels(add, remove)
      BY <2>2
    <2>4. add \subseteq Labels /\ remove \cap DispatchLabels = {}
      BY <2>2, <2>3, ReviewLabels
    <2> QED
      BY <1>0, <2>3, <2>4, ChangeLabelsStep
  <1> QED
    BY <1>1, <1>2, <1>3

LEMMA RefuseSetStep ==
  ASSUME InboxInv, RefuseSet
  PROVE  InboxInv'
  <1> DEFINE remove == IF Reviewed THEN OutOfReview ELSE {}
  <1>1. /\ LookedAt /\ UNCHANGED setVars /\ GuardedLabels({"failed"}, remove)
        /\ UNCHANGED <<form, plan, body, comment, vouched, approved, approval, queueVars, shown,
                       ran, cycle>>
    BY DEF RefuseSet
  <1>2. at \notin InMaintenance
    BY DEF RefuseSet, InMaintenance
  <1>3. /\ remove \in SUBSET (Labels \cup {"none"}) /\ {"failed"} \in SUBSET Labels
        /\ KeepsDispatched({"failed"}, remove)
    BY ReviewLabels DEF KeepsDispatched
  <1> HIDE DEF remove
  <1>4. /\ labels' \subseteq Labels /\ ParkedTyped' /\ OpsKeepDispatched' /\ troubles' \in Nat
        /\ excused \subseteq excused'
        /\ ShowsDispatch \/ Dispatched({"failed"}) => ShowsDispatch' \/ "refused" \in excused'
    BY <1>1, <1>3, GuardedLabelsKeep, Beginning DEF InboxInv, Typed, Marking
  <1>5. FormTyped'
    BY <1>1, FormSame DEF InboxInv, Typed
  <1>6. SweepTyped' /\ HeldShown' /\ LabelChosen' /\ SweepAgrees'
    BY <1>1, <1>2, <1>5, LookedAtKeeps
  <1>7. Noted
    BY <1>1, NotedSame
  <1> QED
    BY <1>1, <1>4, <1>6, <1>7, LabellingStep

LEMMA UnapproveStep ==
  ASSUME InboxInv, Unapprove
  PROVE  InboxInv'
  <1>1. /\ at \in {"unapprove", "refuse"} /\ at \in InMaintenance
        /\ GuardedLabels({}, {"approved"})
        /\ rec' \in {mem, rec} /\ planMd' = planMd
        /\ at' = "state" /\ seen' = seen /\ held' = held /\ asOf' = asOf /\ mem' = mem
        /\ UNCHANGED <<form, plan, body, comment, vouched, approved, approval, queueVars, shown,
                       ran, cycle>>
    BY DEF Unapprove, Goto, InMaintenance
  <1>2. /\ {"approved"} \in SUBSET (Labels \cup {"none"}) /\ {} \in SUBSET Labels
        /\ KeepsDispatched({}, {"approved"})
    BY DEF KeepsDispatched, Labels, DispatchLabels
  <1>3. /\ labels' \subseteq Labels /\ ParkedTyped' /\ OpsKeepDispatched' /\ troubles' \in Nat
        /\ excused \subseteq excused'
        /\ ShowsDispatch \/ Dispatched({}) => ShowsDispatch' \/ "refused" \in excused'
    BY <1>1, <1>2, GuardedLabelsKeep, Beginning DEF InboxInv, Typed, Marking
  <1>4. rec # NoRecord /\ SameSet(mem, rec) /\ mem \in Record /\ rec \in Record
    BY <1>1 DEF InboxInv, Following, SweepAgrees, Typed, SweepTyped, SetTyped
  <1>5. Noted
    BY <1>1, <1>4 DEF Noted, SameSet
  <1>6. FormTyped' /\ Texts' = Texts
    BY <1>1, FormSame DEF InboxInv, Typed
  <1>7. SweepTyped'
    BY <1>1, <1>6, Beginning DEF SweepTyped, Places, InMaintenance, IsWritten
  <1>8. HeldShown' /\ LabelChosen'
    BY <1>1 DEF HeldShown, LabelChosen
  <1>9. SweepAgrees'
    <2>1. rec' # NoRecord
      <3>1. rec.plan # 0
        BY <1>4 DEF InboxInv, Following, SetIsItsPlan
      <3>2. rec'.plan # 0
        BY <1>1, <1>4, <3>1 DEF SameSet
      <3> QED
        BY <3>2 DEF NoRecord
    <2> QED
      BY <1>1, <1>4, <2>1 DEF SweepAgrees, SameSet, InMaintenance, Holding
  <1> QED
    BY <1>1, <1>3, <1>5, <1>7, <1>8, <1>9, LabellingStep

(* What is left of a record that is closed, or relabelled.                 *)
LEMMA ClosingIsTheSet ==
  ASSUME mem \in Record, NEW label \in DispatchLabels, NEW terminal \in BOOLEAN,
         NEW degraded \in BOOLEAN
  PROVE  /\ Closing(label, terminal, degraded) \in Record
         /\ SameSet(Closing(label, terminal, degraded), mem)
         /\ Closing(label, terminal, degraded).label = label
  BY DEF Closing, Record, SameSet, DispatchLabels, Lifecycle

LEMMA ReadStateStep ==
  ASSUME InboxInv, ReadState
  PROVE  InboxInv'
  <1> DEFINE next == Closing(SetLabel(mem), AllTerminal(mem), AnyFailed(mem))
  <1>0. /\ SetLabel(mem) \in DispatchLabels /\ AllTerminal(mem) \in BOOLEAN
        /\ AnyFailed(mem) \in BOOLEAN
    BY DEF SetLabel, DispatchLabels, AllTerminal, AnyFailed
  <1>1. /\ next \in Record /\ SameSet(next, mem) /\ next.label \in DispatchLabels
    BY <1>0, ClosingIsTheSet, Beginning
  <1>2. /\ at = "state" /\ at \in InMaintenance /\ UNCHANGED issueVars /\ planMd' = planMd
        /\ \/ EndSweep /\ rec' = rec
           \/ EndSweep /\ rec' = next
           \/ /\ at' = "label" /\ seen' = {mem.label} /\ mem' = next
              /\ held' = held /\ asOf' = asOf /\ rec' = rec
    BY DEF ReadState, Goto, InMaintenance
  <1> HIDE DEF next
  <1>3. /\ UNCHANGED <<form, plan, body, comment, vouched, approved, approval, queueVars, shown,
                       ran, cycle>>
        /\ excused' = excused /\ troubles' = troubles /\ labels' = labels /\ parked' = parked
    BY <1>2 DEF issueVars, githubVars, historyVars
  <1>4. rec # NoRecord /\ SameSet(mem, rec) /\ mem \in Record /\ rec \in Record
    BY <1>2 DEF InboxInv, Following, SweepAgrees, Typed, SweepTyped, SetTyped
  <1>5. Noted
    BY <1>1, <1>2, <1>4 DEF Noted, SameSet
  <1>6. FormTyped' /\ Texts' = Texts
    BY <1>3, FormSame DEF InboxInv, Typed
  <1>7. ParkedTyped' /\ OpsKeepDispatched' /\ (ShowsDispatch => ShowsDispatch')
    BY <1>3, ParkedSame DEF InboxInv, Typed, Marking, ShowsDispatch
  <1>8. SweepTyped' /\ HeldShown' /\ LabelChosen' /\ SweepAgrees'
    <2>1. CASE EndSweep
      BY <1>6, <2>1, EndSweepKeeps
    <2>2. CASE /\ at' = "label" /\ seen' = {mem.label} /\ mem' = next
               /\ held' = held /\ asOf' = asOf /\ rec' = rec
      <3>1. mem.label \in Labels \cup {"none"}
        BY <1>4 DEF Record, Labels
      <3>2. SweepTyped'
        BY <1>1, <1>6, <2>2, <3>1, Beginning DEF SweepTyped, Places, InMaintenance, IsWritten
      <3>3. HeldShown' /\ LabelChosen'
        BY <1>1, <2>2 DEF HeldShown, LabelChosen
      <3>4. SweepAgrees'
        BY <1>1, <1>4, <2>2 DEF SweepAgrees, SameSet, InMaintenance, Holding
      <3> QED
        BY <3>2, <3>3, <3>4
    <2> QED
      BY <1>2, <2>1, <2>2
  <1> QED
    BY <1>3, <1>5, <1>7, <1>8, LabellingStep, Beginning

LEMMA RelabelStep ==
  ASSUME InboxInv, Relabel
  PROVE  InboxInv'
  <1> DEFINE remove == IF seen = {"none"} THEN {"queued"} ELSE seen
  <1>1. /\ at = "label" /\ at \in InMaintenance
        /\ GuardedLabels({mem.label}, remove)
        /\ rec' = mem /\ planMd' = planMd /\ EndSweep
        /\ UNCHANGED <<form, plan, body, comment, vouched, approved, approval, queueVars, shown,
                       ran, cycle>>
    BY DEF Relabel, InMaintenance
  <1>2. mem.label \in DispatchLabels
    BY <1>1 DEF InboxInv, Marking, LabelChosen
  <1>3. /\ remove \in SUBSET (Labels \cup {"none"}) /\ {mem.label} \in SUBSET Labels
        /\ KeepsDispatched({mem.label}, remove)
    BY <1>2, Beginning DEF KeepsDispatched, Labels, Lifecycle, DispatchLabels
  <1> HIDE DEF remove
  <1>4. /\ labels' \subseteq Labels /\ ParkedTyped' /\ OpsKeepDispatched' /\ troubles' \in Nat
        /\ excused \subseteq excused'
        /\ ShowsDispatch \/ Dispatched({mem.label}) => ShowsDispatch' \/ "refused" \in excused'
    BY <1>1, <1>3, GuardedLabelsKeep, Beginning DEF InboxInv, Typed, Marking
  <1>5. rec # NoRecord /\ SameSet(mem, rec) /\ mem \in Record
    BY <1>1 DEF InboxInv, Following, SweepAgrees, Typed, SweepTyped
  <1>6. Noted
    BY <1>1, <1>5 DEF Noted, SameSet
  <1>7. FormTyped'
    BY <1>1, FormSame DEF InboxInv, Typed
  <1>8. SweepTyped' /\ HeldShown' /\ LabelChosen' /\ SweepAgrees'
    BY <1>1, <1>7, EndSweepKeeps
  <1> QED
    BY <1>1, <1>4, <1>6, <1>8, LabellingStep

----------------------------------------------------------------------------
(* The plan comment, and the replay of the outbox.                         *)

LEMMA NewCommentKeeps ==
  ASSUME InboxInv, NEW f \in Forms, NEW p \in SUBSET Task, NewComment(f, p),
         UNCHANGED <<body, vouched, approved, approval>>, labels' \subseteq Labels
  PROVE  /\ FormTyped' /\ IssueTyped' /\ EventsShown' /\ Texts <= Texts'
         /\ (\A n \in Text : n <= Texts => plan'[n] = plan[n])
         /\ comment <= comment' /\ shown \subseteq shown' /\ shown' \subseteq Text
  <1>1. /\ NewText(f, p) /\ comment' = Texts + 1
        /\ shown' = IF approval THEN shown ELSE shown \cup {Texts + 1}
    BY DEF NewComment
  <1>2. FormTyped
    BY DEF InboxInv, Typed
  <1>3. /\ FormTyped' /\ Texts' = Texts + 1 /\ Texts + 1 \in Text
        /\ \A n \in Text : n <= Texts => plan'[n] = plan[n]
    BY <1>1, <1>2, NewTextIsNext
  <1>4. Texts \in Nat /\ comment \in Nat /\ comment <= Texts /\ body \in Nat /\ body <= Texts
    BY <1>2, Beginning DEF FormTyped, IsWritten
  <1>5. IssueTyped'
    <2>1. IsWritten(body)' /\ IsWritten(comment)'
      BY <1>1, <1>3, <1>4, Beginning DEF IsWritten
    <2> QED
      BY <2>1, Beginning DEF IssueTyped
  <1>6. EventsShown'
    BY <1>1, <1>4, Beginning DEF InboxInv, Approval, EventsShown
  <1>7. shown' \subseteq Text
    BY <1>1, <1>3 DEF InboxInv, Typed, HistoryTyped
  <1> QED
    BY <1>1, <1>3, <1>4, <1>5, <1>6, <1>7

LEMMA CommentSame ==
  ASSUME InboxInv, UNCHANGED <<form, plan, body, comment, vouched, approved, approval>>,
         shown' = shown, labels' \subseteq Labels
  PROVE  /\ FormTyped' /\ IssueTyped' /\ EventsShown' /\ Texts <= Texts'
         /\ (\A n \in Text : n <= Texts => plan'[n] = plan[n])
         /\ comment <= comment' /\ shown \subseteq shown' /\ shown' \subseteq Text
  <1>1. FormTyped' /\ Texts' = Texts /\ Texts \in Nat
    BY FormSame DEF InboxInv, Typed, FormTyped
  <1>2. IssueTyped'
    BY <1>1 DEF InboxInv, Typed, IssueTyped, IsWritten
  <1>3. EventsShown'
    BY DEF InboxInv, Approval, EventsShown
  <1> QED
    BY <1>1, <1>2, <1>3, Beginning DEF InboxInv, Typed, HistoryTyped

LEMMA ReplayedComment ==
  ASSUME InboxInv, NEW k \in 0 .. Len(parked), Replay(k),
         UNCHANGED <<body, vouched, approved, approval>>
  PROVE  /\ FormTyped' /\ IssueTyped' /\ EventsShown' /\ Texts <= Texts'
         /\ (\A n \in Text : n <= Texts => plan'[n] = plan[n])
         /\ comment <= comment' /\ shown \subseteq shown' /\ shown' \subseteq Text
  <1> DEFINE Comments == {i \in 1 .. k : parked[i].kind = "comment"}
  <1>1. labels' \subseteq Labels
    BY DEF Replay
  <1>2. CASE Comments = {}
    <2>1. UNCHANGED <<comment, form, plan, shown>>
      BY <1>2 DEF Replay
    <2> QED
      BY <1>1, <2>1, CommentSame
  <1>3. CASE Comments # {}
    <2>1. \E i \in Comments : NewComment(parked[i].form, parked[i].plan)
      BY <1>3 DEF Replay
    <2>2. PICK i \in 1 .. k : /\ parked[i].kind = "comment"
                              /\ NewComment(parked[i].form, parked[i].plan)
      BY <2>1
    <2>3. parked \in Seq(Op) /\ i \in 1 .. Len(parked)
      BY LenProperties DEF InboxInv, Typed, ParkedTyped
    <2>4. parked[i] \in Op
      BY <2>3, ElementOfSeq
    <2>5. parked[i].form # "none"
      BY <2>2, <2>3 DEF InboxInv, Typed, ParkedTyped
    <2>6. parked[i].form \in Forms /\ parked[i].plan \in SUBSET Task
      BY <2>4, <2>5 DEF Op
    <2> QED
      BY <1>1, <2>2, <2>6, NewCommentKeeps
  <1> QED
    BY <1>2, <1>3

LEMMA FlushStep ==
  ASSUME InboxInv, Flush
  PROVE  InboxInv'
  <1>1. /\ at = "idle" /\ at' = "list" /\ UNCHANGED <<seen, held, asOf, mem, setVars>>
        /\ UNCHANGED <<body, vouched, approved, approval, queueVars, ran, cycle, excused>>
    BY DEF Flush, Goto
  <1>2. PICK k \in 0 .. Len(parked) : Replay(k) /\ (Fault \/ NoFault)
    BY DEF Flush
  <1>3. /\ FormTyped' /\ IssueTyped' /\ EventsShown' /\ Texts <= Texts'
        /\ (\A n \in Text : n <= Texts => plan'[n] = plan[n])
        /\ comment <= comment' /\ shown \subseteq shown' /\ shown' \subseteq Text
    BY <1>1, <1>2, ReplayedComment
  <1>4. ParkedTyped' /\ OpsKeepDispatched'
    BY <1>2, ReplayKeepsParked DEF InboxInv, Typed, Marking
  <1>5. ShowsDispatch => ShowsDispatch'
    BY <1>2, ReplayShows, Beginning DEF InboxInv, Typed, Marking
  <1>6. /\ QueueTyped' /\ (\A i \in Ids : State(i)' = State(i)) /\ InFlight(Exec)' = InFlight(Exec)
        /\ inbox' = inbox /\ running' = running /\ done' = done
    BY <1>1, QueueSame DEF InboxInv, Typed, queueVars
  <1>7. DispatchShows' /\ DispatchedOnce'
    BY <1>1, <1>5, <1>6, DispatchKept, Beginning DEF InboxInv, Marking
  <1>8. HistoryTyped'
    BY <1>1, <1>2, <1>3, Beginning DEF InboxInv, Typed, HistoryTyped, Fault, NoFault
  <1>9. \A t \in Task : Stays(t)
    BY <1>6 DEF Stays, Ids
  <1>10. ChildrenFresh'
    BY <1>1, <1>6, ChildrenSame DEF InboxInv, Following, setVars
  <1>11. body <= body'
    BY <1>1, Beginning
  <1> QED
    BY <1>1, <1>3, <1>4, <1>6, <1>7, <1>8, <1>9, <1>10, <1>11, StepBeside

----------------------------------------------------------------------------
(* The worker.                                                             *)

\* What a ticket that moves through the queue keeps.
QueueMoves ==
    /\ QueueTyped' /\ ChildrenFresh' /\ (\A t \in Task : Stays(t))

LEMMA ExecIsNoTask ==
  /\ Exec \in Ids /\ Planning \in Ids /\ Task \subseteq Ids /\ Exec # Planning
  /\ Exec \notin Task /\ Planning \notin Task
  BY BridgeAssumption DEF Ids, Exec, Planning

LEMMA ClaimMoves ==
  ASSUME InboxInv, NEW i \in Ids, Claim(i), rec' = rec, excused \subseteq excused'
  PROVE  QueueMoves /\ (InFlight(Exec) => InFlight(Exec)')
  <1>1. /\ inbox[i] # 0 /\ running[i] = 0
        /\ inbox' = [inbox EXCEPT ![i] = 0]
        /\ running' = [running EXCEPT ![i] = inbox[i]]
        /\ done' = done /\ failed' = failed
    BY DEF Claim
  <1>2. inbox \in [Ids -> Text] /\ running \in [Ids -> Text]
    BY DEF InboxInv, Typed, QueueTyped
  <1>3. QueueTyped'
    BY <1>1, <1>2, BridgeAssumption DEF InboxInv, Typed, QueueTyped, Text
  <1>4. /\ inbox'[i] = 0 /\ running'[i] = inbox[i]
        /\ \A j \in Ids : j # i => inbox'[j] = inbox[j] /\ running'[j] = running[j]
    BY <1>1, <1>2
  <1>5. \A t \in Ids : Stays(t)
    BY <1>1, <1>4 DEF Stays, State
  <1>6. ChildrenFresh'
    <2>1. \A t \in Task : Childlike(t) => Childlike(t)'
      <3> SUFFICES ASSUME NEW t \in Task, Childlike(t) PROVE Childlike(t)'
        OBVIOUS
      <3>1. CASE t = i
        BY <1>1, <1>4, <3>1 DEF Childlike
      <3>2. CASE t # i
        BY <1>1, <1>4, <3>2, ExecIsNoTask DEF Childlike
      <3> QED
        BY <3>1, <3>2
    <2> QED
      BY <2>1 DEF InboxInv, Following, ChildrenFresh
  <1>7. InFlight(Exec) => InFlight(Exec)'
    BY <1>1, <1>4, ExecIsNoTask DEF InFlight
  <1> QED
    BY <1>3, <1>5, <1>6, <1>7, ExecIsNoTask DEF QueueMoves

LEMMA LeaveMoves ==
  ASSUME InboxInv, NEW i \in Ids, NEW ok \in BOOLEAN, running[i] # 0, Leave(i, ok),
         rec' = rec, excused \subseteq excused'
  PROVE  QueueMoves /\ (i # Exec /\ InFlight(Exec) => InFlight(Exec)')
  <1>1. /\ running' = [running EXCEPT ![i] = 0] /\ inbox' = inbox
        /\ done' = IF ok THEN done \cup {i} ELSE done
        /\ failed' = IF ok THEN failed ELSE [failed EXCEPT ![i] = @ \cup {<<running[i], 0>>}]
    BY DEF Leave
  <1>2. /\ inbox \in [Ids -> Text] /\ running \in [Ids -> Text] /\ done \subseteq Ids
        /\ failed \in [Ids -> SUBSET ((Text \ {0}) \X Text)]
    BY DEF InboxInv, Typed, QueueTyped
  <1>3. running[i] \in Text \ {0} /\ 0 \in Text
    BY <1>2, BridgeAssumption DEF Text
  <1>4. QueueTyped'
    <2>1. running' \in [Ids -> Text] /\ done' \subseteq Ids
      BY <1>1, <1>2, <1>3
    <2>2. failed' \in [Ids -> SUBSET ((Text \ {0}) \X Text)]
      <3>1. failed[i] \cup {<<running[i], 0>>} \in SUBSET ((Text \ {0}) \X Text)
        BY <1>2, <1>3
      <3> QED
        BY <1>1, <1>2, <3>1
    <2> QED
      BY <1>1, <1>2, <2>1, <2>2 DEF QueueTyped
  <1>5. /\ running'[i] = 0
        /\ \A j \in Ids : j # i => running'[j] = running[j] /\ failed'[j] = failed[j]
        /\ \A j \in Ids : j # i => (j \in done' <=> j \in done)
        /\ IF ok THEN i \in done' ELSE failed'[i] # {}
    <2>1. CASE ok
      BY <1>1, <1>2, <2>1
    <2>2. CASE ~ok
      BY <1>1, <1>2, <2>2
    <2> QED
      BY <2>1, <2>2
  <1>6. \A t \in Ids : Stays(t)
    BY <1>1, <1>5 DEF Stays, State
  <1>7. ChildrenFresh'
    <2>1. \A t \in Task : Childlike(t) => Childlike(t)'
      <3> SUFFICES ASSUME NEW t \in Task, Childlike(t) PROVE Childlike(t)'
        OBVIOUS
      <3>1. CASE t = i
        BY <1>1, <1>5, <3>1 DEF Childlike
      <3>2. CASE t # i
        BY <1>1, <1>5, <3>2, ExecIsNoTask DEF Childlike
      <3> QED
        BY <3>1, <3>2
    <2> QED
      BY <2>1 DEF InboxInv, Following, ChildrenFresh
  <1>8. i # Exec /\ InFlight(Exec) => InFlight(Exec)'
    BY <1>1, <1>5, ExecIsNoTask DEF InFlight
  <1> QED
    BY <1>4, <1>6, <1>7, <1>8, ExecIsNoTask DEF QueueMoves

\* What the marks on the issue keep.
MarksKept ==
    /\ labels' \subseteq Labels /\ ParkedTyped' /\ OpsKeepDispatched' /\ troubles' \in Nat
    /\ excused \subseteq excused'
    /\ ShowsDispatch => ShowsDispatch' \/ "refused" \in excused'

LEMMA MarkKeeps ==
  ASSUME InboxInv, NEW add \in SUBSET Labels, NEW remove \in SUBSET (Labels \cup {"none"}),
         KeepsDispatched(add, remove), GuardedLabels(add, remove)
  PROVE  MarksKept /\ (Dispatched(add) => ShowsDispatch' \/ "refused" \in excused')
  BY GuardedLabelsKeep, Beginning DEF InboxInv, Typed, Marking, MarksKept

LEMMA NoMarkKeeps ==
  ASSUME InboxInv, labels' = labels, parked' = parked, excused \subseteq excused',
         troubles' \in Nat
  PROVE  MarksKept
  <1>1. ParkedTyped' /\ OpsKeepDispatched'
    BY ParkedSame DEF InboxInv, Typed, Marking
  <1> QED
    BY <1>1, Beginning DEF MarksKept, ShowsDispatch

(* A step of the worker that leaves texts and comments alone.              *)
LEMMA WorkingStep ==
  ASSUME InboxInv, UNCHANGED <<sweepVars, setVars>>,
         UNCHANGED <<body, comment, form, plan, vouched, approved, approval, shown, ran, cycle>>,
         MarksKept, QueueMoves,
         InFlight(Exec) => \/ InFlight(Exec)' \/ ShowsDispatch' \/ "refused" \in excused'
  PROVE  InboxInv'
  <1>1. /\ FormTyped' /\ IssueTyped' /\ EventsShown' /\ Texts <= Texts'
        /\ (\A n \in Text : n <= Texts => plan'[n] = plan[n])
        /\ comment <= comment' /\ shown \subseteq shown' /\ shown' \subseteq Text
    BY CommentSame DEF MarksKept
  <1>2. DispatchShows' /\ DispatchedOnce'
    BY DispatchKept, Beginning DEF InboxInv, Marking, MarksKept
  <1>3. HistoryTyped'
    BY <1>1 DEF InboxInv, Typed, HistoryTyped, MarksKept
  <1>4. UNCHANGED <<at, seen, held, asOf, mem, setVars>> /\ body <= body'
    BY Beginning DEF sweepVars
  <1> QED
    BY <1>1, <1>2, <1>3, <1>4, StepBeside DEF MarksKept, QueueMoves

LEMMA WorkerLabels ==
  /\ {"working"} \in SUBSET Labels /\ Dispatched({"working"})
  /\ \A ok \in BOOLEAN : /\ {IF ok THEN "done" ELSE "failed"} \in SUBSET Labels
                         /\ Dispatched({IF ok THEN "done" ELSE "failed"})
  /\ {"plan-ready"} \in SUBSET Labels /\ {"failed"} \in SUBSET Labels
  /\ \A l \in {"queued", "working", "planning"} : {l} \in SUBSET (Labels \cup {"none"})
  /\ \A add : KeepsDispatched(add, {"planning"})
  /\ \A add, remove : Dispatched(add) => KeepsDispatched(add, remove)
  BY DEF Labels, Lifecycle, Dispatched, KeepsDispatched, DispatchLabels

LEMMA ClaimStep ==
  ASSUME InboxInv, NEW i \in Ids, Claim(i), UNCHANGED <<sweepVars, setVars>>
  PROVE  InboxInv'
  <1>1. MarksKept
    <2>1. CASE i = Exec
      <3>1. GuardedLabels({"working"}, {"queued"})
        BY <2>1 DEF Claim
      <3> QED
        BY <3>1, MarkKeeps, WorkerLabels
    <2>2. CASE i # Exec
      <3>1. labels' = labels /\ parked' = parked /\ excused' = excused /\ troubles' = troubles
        BY <2>2 DEF Claim
      <3> QED
        BY <3>1, NoMarkKeeps, Beginning
    <2> QED
      BY <2>1, <2>2
  <1>2. rec' = rec /\ excused \subseteq excused'
    BY <1>1 DEF setVars, MarksKept
  <1>3. QueueMoves /\ (InFlight(Exec) => InFlight(Exec)')
    BY <1>2, ClaimMoves
  <1>4. UNCHANGED <<body, comment, form, plan, vouched, approved, approval, shown, ran, cycle>>
    BY DEF Claim
  <1> QED
    BY <1>1, <1>3, <1>4, WorkingStep

LEMMA FinishExecStep ==
  ASSUME InboxInv, NEW ok \in BOOLEAN, FinishExec(ok), UNCHANGED <<sweepVars, setVars>>
  PROVE  InboxInv'
  <1>1. /\ running[Exec] # 0 /\ Leave(Exec, ok)
        /\ GuardedLabels({IF ok THEN "done" ELSE "failed"}, {"working"})
        /\ UNCHANGED <<body, comment, form, plan, vouched, approved, approval, shown, ran, cycle>>
    BY DEF FinishExec
  <1>2. MarksKept /\ (ShowsDispatch' \/ "refused" \in excused')
    BY <1>1, MarkKeeps, WorkerLabels
  <1>3. QueueMoves
    <2>1. rec' = rec /\ excused \subseteq excused'
      BY <1>2 DEF setVars, MarksKept
    <2> QED
      BY <1>1, <2>1, LeaveMoves, ExecIsNoTask
  <1> QED
    BY <1>1, <1>2, <1>3, WorkingStep

LEMMA FinishChildStep ==
  ASSUME InboxInv, NEW t \in Task, NEW ok \in BOOLEAN, FinishChild(t, ok),
         UNCHANGED <<sweepVars, setVars>>
  PROVE  InboxInv'
  <1>1. /\ running[t] # 0 /\ Leave(t, ok) /\ (NoFault \/ Fault)
        /\ labels' = labels /\ parked' = parked /\ excused' = excused
        /\ UNCHANGED <<body, comment, form, plan, vouched, approved, approval, shown, ran, cycle>>
    BY DEF FinishChild, githubVars, historyVars
  <1>2. MarksKept
    BY <1>1, NoMarkKeeps, FaultIsCounted, Beginning DEF NoFault
  <1>3. QueueMoves /\ (InFlight(Exec) => InFlight(Exec)')
    <2>1. rec' = rec /\ excused \subseteq excused'
      BY <1>1 DEF setVars
    <2>2. t \in Ids /\ t # Exec
      BY ExecIsNoTask
    <2> QED
      BY <1>1, <2>1, <2>2, LeaveMoves
  <1> QED
    BY <1>1, <1>2, <1>3, WorkingStep

(* The planner's plan becomes the comment, now or with the next replay.    *)
LEMMA PlanningMoves ==
  ASSUME InboxInv, running[Planning] # 0, Leave(Planning, TRUE), rec' = rec,
         excused \subseteq excused'
  PROVE  QueueMoves /\ (InFlight(Exec) => InFlight(Exec)')
  BY LeaveMoves, ExecIsNoTask

LEMMA FinishPlanningStep ==
  ASSUME InboxInv, FinishPlanning, UNCHANGED <<sweepVars, setVars>>
  PROVE  InboxInv'
  <1>1. /\ running[Planning] # 0 /\ Leave(Planning, TRUE)
        /\ UNCHANGED <<body, vouched, approved, approval, ran, cycle>>
    BY DEF FinishPlanning
  <1>2. \E add \in {{"plan-ready"}, {"failed"}} : GuardedLabels(add, {"planning"})
    BY DEF FinishPlanning
  <1>3. MarksKept
    <2>1. PICK add \in {{"plan-ready"}, {"failed"}} : GuardedLabels(add, {"planning"})
      BY <1>2
    <2>2. add \in SUBSET Labels
      BY <2>1, WorkerLabels
    <2> QED
      BY <2>1, <2>2, MarkKeeps, WorkerLabels
  <1>4. QueueMoves /\ (InFlight(Exec) => InFlight(Exec)')
    <2>1. rec' = rec /\ excused \subseteq excused'
      BY <1>3 DEF setVars, MarksKept
    <2> QED
      BY <1>1, <2>1, PlanningMoves
  <1>5. /\ FormTyped' /\ IssueTyped' /\ EventsShown' /\ Texts <= Texts'
        /\ (\A n \in Text : n <= Texts => plan'[n] = plan[n])
        /\ comment <= comment' /\ shown \subseteq shown' /\ shown' \subseteq Text
    <2>0. labels' \subseteq Labels
      BY <1>3 DEF MarksKept
    <2>1. CASE UNCHANGED <<comment, form, plan, shown>>
      BY <1>1, <2>0, <2>1, CommentSame
    <2>2. CASE \E f \in Planned \ {"prose"}, p \in SetPlans : NewComment(f, p)
      <3>1. PICK f \in Planned \ {"prose"}, p \in SetPlans : NewComment(f, p)
        BY <2>2
      <3>2. f \in Forms /\ p \in SUBSET Task
        BY BridgeAssumption DEF Forms
      <3> QED
        BY <1>1, <2>0, <3>1, <3>2, NewCommentKeeps
    <2> QED
      BY <2>1, <2>2 DEF FinishPlanning
  <1>6. DispatchShows' /\ DispatchedOnce'
    BY <1>1, <1>3, <1>4, DispatchKept, Beginning DEF InboxInv, Marking, MarksKept
  <1>7. HistoryTyped'
    BY <1>1, <1>3, <1>5 DEF InboxInv, Typed, HistoryTyped, MarksKept
  <1>8. UNCHANGED <<at, seen, held, asOf, mem, setVars>> /\ body <= body'
    BY <1>1, Beginning DEF sweepVars
  <1> QED
    BY <1>1, <1>3, <1>4, <1>5, <1>6, <1>7, <1>8, StepBeside DEF MarksKept, QueueMoves

(* Two changes are parked, one behind the other.                           *)
LEMMA ParkTwo ==
  ASSUME ParkedTyped, OpsKeepDispatched, NEW a \in Op, NEW b \in Op,
         KeepsDispatched(a.add, a.remove), KeepsDispatched(b.add, b.remove),
         a.form # "none", b.kind # "comment", parked' = parked \o <<a, b>>
  PROVE  /\ ParkedTyped' /\ OpsKeepDispatched'
         /\ (\E k \in 1 .. Len(parked) : Dispatched(parked[k].add))
              => \E k \in 1 .. Len(parked') : Dispatched(parked'[k].add)
  <1>1. parked \in Seq(Op) /\ Len(parked) \in Nat
    BY LenProperties DEF ParkedTyped
  <1>2. <<a, b>> \in Seq(Op) /\ Len(<<a, b>>) = 2 /\ <<a, b>>[1] = a /\ <<a, b>>[2] = b
    OBVIOUS
  <1>3. /\ parked' \in Seq(Op) /\ Len(parked') = Len(parked) + 2
        /\ \A i \in 1 .. Len(parked) + 2 :
             parked'[i] = IF i <= Len(parked) THEN parked[i] ELSE <<a, b>>[i - Len(parked)]
    BY <1>1, <1>2, ConcatProperties
  <1>4. /\ \A i \in 1 .. Len(parked) : i \in 1 .. Len(parked') /\ parked'[i] = parked[i]
        /\ parked'[Len(parked) + 1] = a /\ parked'[Len(parked) + 2] = b
    <2>1. (Len(parked) + 1) - Len(parked) = 1 /\ (Len(parked) + 2) - Len(parked) = 2
      BY <1>1
    <2> QED
      BY <1>1, <1>2, <1>3, <2>1
  <1>5. \A i \in 1 .. Len(parked') : \/ i \in 1 .. Len(parked)
                                     \/ i = Len(parked) + 1 \/ i = Len(parked) + 2
    BY <1>1, <1>3
  <1>6. ParkedTyped'
    BY <1>3, <1>4, <1>5 DEF ParkedTyped
  <1>7. OpsKeepDispatched'
    BY <1>4, <1>5 DEF OpsKeepDispatched
  <1> QED
    BY <1>4, <1>6, <1>7

LEMMA FinishPlanningOfflineStep ==
  ASSUME InboxInv, FinishPlanningOffline, UNCHANGED <<sweepVars, setVars>>
  PROVE  InboxInv'
  <1>1. /\ running[Planning] # 0 /\ Leave(Planning, TRUE) /\ Fault
        /\ UNCHANGED <<githubVars, historyVars>>
    BY DEF FinishPlanningOffline
  <1>2. PICK f \in Planned \ {"prose"}, p \in SetPlans :
          parked' = parked \o <<CommentOp(f, p), LabelsOp({"plan-ready"}, {"planning"})>>
    BY DEF FinishPlanningOffline
  <1>3. f \in Forms /\ p \in SUBSET Task /\ f # "none"
    BY BridgeAssumption DEF Forms
  <1>4. /\ CommentOp(f, p) \in Op /\ CommentOp(f, p).form = f
        /\ CommentOp(f, p).add = {} /\ CommentOp(f, p).remove = {}
    BY <1>3 DEF CommentOp, Op
  <1>5. /\ LabelsOp({"plan-ready"}, {"planning"}) \in Op
        /\ LabelsOp({"plan-ready"}, {"planning"}).add = {"plan-ready"}
        /\ LabelsOp({"plan-ready"}, {"planning"}).remove = {"planning"}
        /\ LabelsOp({"plan-ready"}, {"planning"}).kind = "labels"
    BY LabelsOpTyped, WorkerLabels
  <1>6. KeepsDispatched({}, {}) /\ KeepsDispatched({"plan-ready"}, {"planning"})
    BY WorkerLabels DEF KeepsDispatched
  <1>7. /\ ParkedTyped' /\ OpsKeepDispatched'
        /\ (\E k \in 1 .. Len(parked) : Dispatched(parked[k].add))
             => \E k \in 1 .. Len(parked') : Dispatched(parked'[k].add)
    BY <1>2, <1>3, <1>4, <1>5, <1>6, ParkTwo DEF InboxInv, Typed, Marking
  <1>8. /\ UNCHANGED <<body, comment, form, plan, vouched, approved, approval, shown, ran, cycle>>
        /\ labels' = labels /\ excused' = excused
    BY <1>1 DEF githubVars, historyVars
  <1>9. MarksKept
    BY <1>1, <1>7, <1>8, FaultIsCounted, Beginning DEF MarksKept, ShowsDispatch
  <1>10. QueueMoves /\ (InFlight(Exec) => InFlight(Exec)')
    <2>1. rec' = rec /\ excused \subseteq excused'
      BY <1>8 DEF setVars
    <2> QED
      BY <1>1, <2>1, PlanningMoves
  <1> QED
    BY <1>8, <1>9, <1>10, WorkingStep

----------------------------------------------------------------------------
(* People.                                                                 *)

LEMMA PeopleStep ==
  ASSUME InboxInv, UNCHANGED <<sweepVars, setVars>>, ByPeople,
         excused \subseteq excused', troubles' \in Nat, cycle' \in {0, cycle},
         FormTyped', IssueTyped', EventsShown', Texts <= Texts',
         \A n \in Text : n <= Texts => plan'[n] = plan[n],
         body <= body', comment <= comment', shown \subseteq shown', shown' \subseteq Text,
         cycle' # 0 /\ ShowsDispatch => ShowsDispatch'
  PROVE  InboxInv'
  <1>1. UNCHANGED queueVars /\ parked' = parked /\ ran' = ran /\ rec' = rec
    BY DEF ByPeople, setVars
  <1>2. /\ QueueTyped' /\ (\A i \in Ids : State(i)' = State(i)) /\ InFlight(Exec)' = InFlight(Exec)
        /\ inbox' = inbox /\ running' = running /\ done' = done
    BY <1>1, QueueSame DEF InboxInv, Typed, queueVars
  <1>3. ParkedTyped' /\ OpsKeepDispatched'
    BY <1>1, ParkedSame DEF InboxInv, Typed, Marking
  <1>4. DispatchShows' /\ DispatchedOnce'
    BY <1>2, DispatchKept, Beginning DEF InboxInv, Marking
  <1>5. HistoryTyped'
    BY <1>1 DEF InboxInv, Typed, HistoryTyped
  <1>6. \A t \in Task : Stays(t)
    BY <1>2 DEF Stays, Ids
  <1>7. ChildrenFresh'
    BY <1>1, <1>2, ChildrenSame DEF InboxInv, Following
  <1>8. UNCHANGED <<at, seen, held, asOf, mem, setVars>>
    BY DEF sweepVars
  <1> QED
    BY <1>1, <1>2, <1>3, <1>4, <1>5, <1>6, <1>7, <1>8, StepBeside

LEMMA ApplyTriggerStep ==
  ASSUME InboxInv, NEW w \in BOOLEAN, ApplyTrigger(w), UNCHANGED <<sweepVars, setVars>>
  PROVE  InboxInv'
  <1>1. /\ ByPeople /\ Fault /\ labels' = labels \cup {"trigger"}
        /\ vouched' = [text |-> body, writer |-> w]
        /\ shown' = IF w THEN shown \cup {body} ELSE shown
        /\ UNCHANGED <<body, comment, form, plan, approved, approval, cycle, excused, parked>>
    BY DEF ApplyTrigger, Gesture, ByPeople
  <1>2. FormTyped' /\ Texts' = Texts /\ Texts \in Nat
    BY <1>1, FormSame DEF InboxInv, Typed, FormTyped
  <1>3. IssueTyped'
    BY <1>1, <1>2, Beginning DEF InboxInv, Typed, IssueTyped, IsWritten, LabelEvent, Labels
  <1>4. EventsShown'
    BY <1>1, Beginning DEF InboxInv, Approval, EventsShown
  <1>5. shown \subseteq shown' /\ shown' \subseteq Text
    BY <1>1, Beginning DEF InboxInv, Typed, HistoryTyped, IsWritten
  <1>6. ShowsDispatch => ShowsDispatch'
    BY <1>1 DEF ShowsDispatch, Dispatched
  <1>7. body <= body' /\ comment <= comment' /\ Texts <= Texts'
    BY <1>1, <1>2, Beginning
  <1> QED
    BY <1>1, <1>2, <1>3, <1>4, <1>5, <1>6, <1>7, FaultIsCounted, PeopleStep

LEMMA ApproveStep ==
  ASSUME InboxInv, NEW w \in BOOLEAN, Approve(w), UNCHANGED <<sweepVars, setVars>>
  PROVE  InboxInv'
  <1>1. /\ ByPeople /\ (NoFault \/ Fault) /\ labels' = labels \cup {"approved"}
        /\ approved' = [text |-> comment, writer |-> w]
        /\ shown' = IF w THEN shown \cup {comment} ELSE shown
        /\ UNCHANGED <<body, comment, form, plan, vouched, approval, cycle, excused, parked>>
    BY DEF Approve, ByPeople
  <1>2. FormTyped' /\ Texts' = Texts /\ Texts \in Nat
    BY <1>1, FormSame DEF InboxInv, Typed, FormTyped
  <1>3. IssueTyped'
    BY <1>1, <1>2, Beginning DEF InboxInv, Typed, IssueTyped, IsWritten, LabelEvent, Labels
  <1>4. EventsShown'
    BY <1>1, Beginning DEF InboxInv, Approval, EventsShown
  <1>5. shown \subseteq shown' /\ shown' \subseteq Text
    BY <1>1, Beginning DEF InboxInv, Typed, HistoryTyped, IsWritten
  <1>6. ShowsDispatch => ShowsDispatch'
    BY <1>1 DEF ShowsDispatch, Dispatched
  <1>7. body <= body' /\ comment <= comment' /\ Texts <= Texts'
    BY <1>1, <1>2, Beginning
  <1>8. troubles' \in Nat
    BY <1>1, FaultIsCounted, Beginning DEF NoFault
  <1> QED
    BY <1>1, <1>2, <1>3, <1>4, <1>5, <1>6, <1>7, <1>8, PeopleStep

LEMMA EditBodyStep ==
  ASSUME InboxInv, EditBody, UNCHANGED <<sweepVars, setVars>>
  PROVE  InboxInv'
  <1>1. /\ ByPeople /\ Fault /\ body' = Texts + 1
        /\ UNCHANGED <<labels, comment, vouched, approved, approval, shown, cycle, excused, parked>>
    BY DEF EditBody, Gesture, ByPeople
  <1>2. PICK p \in SetPlans : NewText(form[body], p)
    BY DEF EditBody
  <1>3. FormTyped /\ p \in SUBSET Task
    BY BridgeAssumption DEF InboxInv, Typed
  <1>4. form[body] \in Forms
    BY <1>3, Beginning DEF FormTyped, IsWritten
  <1>5. /\ FormTyped' /\ Texts' = Texts + 1 /\ Texts + 1 \in Text
        /\ \A n \in Text : n <= Texts => plan'[n] = plan[n]
    BY <1>2, <1>3, <1>4, NewTextIsNext
  <1>6. /\ Texts \in Nat /\ body <= Texts /\ comment <= Texts /\ comment \in Nat /\ body \in Nat
        /\ comment \in Text
    BY <1>3, Beginning DEF FormTyped, IsWritten
  <1>7. IssueTyped'
    <2>1. IsWritten(body)' /\ IsWritten(comment)' /\ body' # 0
      BY <1>1, <1>5, <1>6 DEF IsWritten
    <2> QED
      BY <1>1, <2>1, Beginning DEF IssueTyped
  <1>8. EventsShown'
    BY <1>1, <1>6, Beginning DEF InboxInv, Approval, EventsShown
  <1>9. ShowsDispatch => ShowsDispatch'
    BY <1>1 DEF ShowsDispatch
  <1>10. /\ body <= body' /\ comment <= comment' /\ Texts <= Texts'
         /\ shown \subseteq shown' /\ shown' \subseteq Text
    BY <1>1, <1>5, <1>6 DEF InboxInv, Typed, HistoryTyped
  <1> QED
    BY <1>1, <1>5, <1>7, <1>8, <1>9, <1>10, FaultIsCounted, PeopleStep

LEMMA EditCommentStep ==
  ASSUME InboxInv, EditComment, UNCHANGED <<sweepVars, setVars>>
  PROVE  InboxInv'
  <1>1. /\ ByPeople /\ Fault /\ comment # 0
        /\ UNCHANGED <<labels, body, vouched, approved, approval, cycle, excused, parked>>
    BY DEF EditComment, Gesture, ByPeople
  <1>2. PICK p \in SetPlans : NewComment(form[comment], p)
    BY DEF EditComment
  <1>3. form[comment] \in Forms /\ p \in SUBSET Task
    BY <1>1, Beginning, BridgeAssumption DEF InboxInv, Typed, FormTyped, IsWritten
  <1>4. /\ FormTyped' /\ IssueTyped' /\ EventsShown' /\ Texts <= Texts'
        /\ (\A n \in Text : n <= Texts => plan'[n] = plan[n])
        /\ comment <= comment' /\ shown \subseteq shown' /\ shown' \subseteq Text
    BY <1>1, <1>2, <1>3, NewCommentKeeps, Beginning
  <1>5. ShowsDispatch => ShowsDispatch'
    BY <1>1 DEF ShowsDispatch
  <1>6. body <= body'
    BY <1>1, Beginning
  <1> QED
    BY <1>1, <1>4, <1>5, <1>6, FaultIsCounted, PeopleStep

LEMMA RemoveLabelStep ==
  ASSUME InboxInv, NEW l \in {"trigger", "approved", "failed", "plan-ready"}, RemoveLabel(l),
         UNCHANGED <<sweepVars, setVars>>
  PROVE  InboxInv'
  <1>1. /\ ByPeople /\ Fault /\ labels' = labels \ {l}
        /\ cycle' = IF l \in Lifecycle THEN 0 ELSE cycle
        /\ excused \subseteq excused'
        /\ UNCHANGED <<body, comment, form, plan, vouched, approved, approval, shown, parked>>
    BY DEF RemoveLabel, Gesture, ByPeople
  <1>2. labels' \subseteq Labels
    BY <1>1, Beginning
  <1>3. /\ FormTyped' /\ IssueTyped' /\ EventsShown' /\ Texts <= Texts'
        /\ (\A n \in Text : n <= Texts => plan'[n] = plan[n])
        /\ comment <= comment' /\ shown \subseteq shown' /\ shown' \subseteq Text
    BY <1>1, <1>2, CommentSame
  <1>4. cycle' # 0 /\ ShowsDispatch => ShowsDispatch'
    <2>1. cycle' # 0 => l \notin {"queued", "working", "done", "failed"}
      BY <1>1 DEF Lifecycle
    <2> QED
      BY <1>1, <2>1 DEF ShowsDispatch, Dispatched
  <1>5. cycle' \in {0, cycle} /\ body <= body'
    BY <1>1, Beginning
  <1> QED
    BY <1>1, <1>3, <1>4, <1>5, FaultIsCounted, PeopleStep

LEMMA RetryStep ==
  ASSUME InboxInv, NEW i \in Ids, Retry(i), UNCHANGED <<sweepVars, setVars>>
  PROVE  InboxInv'
  <1>1. /\ Fault /\ inbox[i] = 0 /\ running' = running /\ done' = done
        /\ excused' = excused \cup {"retried"} /\ labels' = labels /\ parked' = parked
        /\ UNCHANGED <<body, comment, form, plan, vouched, approved, approval, shown, ran, cycle>>
    BY DEF Retry, githubVars
  <1>2. PICK n \in Text : /\ <<n, 0>> \in failed[i]
                          /\ inbox' = [inbox EXCEPT ![i] = n]
                          /\ failed' = [failed EXCEPT ![i] = @ \ {<<n, 0>>}]
    BY DEF Retry
  <1>3. /\ inbox \in [Ids -> Text] /\ failed \in [Ids -> SUBSET ((Text \ {0}) \X Text)]
        /\ running \in [Ids -> Text] /\ done \subseteq Ids
    BY DEF InboxInv, Typed, QueueTyped
  <1>4. MarksKept
    BY <1>1, NoMarkKeeps, FaultIsCounted
  <1>5. QueueTyped'
    <2>1. failed[i] \ {<<n, 0>>} \in SUBSET ((Text \ {0}) \X Text)
      BY <1>3
    <2> QED
      BY <1>1, <1>2, <1>3, <2>1 DEF QueueTyped
  <1>6. \A t \in Ids : Stays(t)
    <2>1. n # 0
      BY <1>2, <1>3
    <2>2. inbox'[i] = n /\ \A j \in Ids : j # i => inbox'[j] = inbox[j] /\ failed'[j] = failed[j]
      BY <1>2, <1>3
    <2> QED
      BY <1>1, <2>1, <2>2 DEF Stays, State
  <1>7. ChildrenFresh'
    BY <1>1 DEF ChildrenFresh
  <1>8. InFlight(Exec) => InFlight(Exec)'
    <2>1. inbox[Exec] # 0 => inbox'[Exec] # 0
      BY <1>1, <1>2, <1>3, ExecIsNoTask
    <2> QED
      BY <1>1, <2>1 DEF InFlight
  <1>9. QueueMoves
    BY <1>5, <1>6, <1>7, ExecIsNoTask DEF QueueMoves
  <1> QED
    BY <1>1, <1>4, <1>8, <1>9, WorkingStep

----------------------------------------------------------------------------
(* Tickets are put into the queue.                                         *)

(* A step of the sweep in the queue and the record, GitHub left alone.     *)
LEMMA FilingStep ==
  ASSUME InboxInv, UNCHANGED <<githubVars, parked, shown>>, excused \subseteq excused',
         troubles' \in Nat, cycle' \in Nat, ran' \subseteq Text,
         QueueTyped', SetTyped', SweepTyped', HeldShown', RunsShown', DispatchShows',
         DispatchedOnce', LabelChosen', SweepAgrees', SetIsItsPlan', NoChildLost', ChildrenFresh'
  PROVE  InboxInv'
  <1>1. /\ form' = form /\ plan' = plan /\ labels' = labels /\ body' = body
        /\ comment' = comment /\ vouched' = vouched /\ approved' = approved
        /\ approval' = approval
    BY DEF githubVars
  <1>2. /\ FormTyped' /\ IssueTyped' /\ EventsShown' /\ shown' \subseteq Text
    BY <1>1, CommentSame, Beginning
  <1>3. ParkedTyped' /\ OpsKeepDispatched'
    BY ParkedSame DEF InboxInv, Typed, Marking
  <1>4. HistoryTyped'
    BY <1>2 DEF HistoryTyped
  <1> QED
    BY <1>2, <1>3, <1>4 DEF InboxInv, Typed, Approval, Marking, Following

LEMMA SubmitKeeps ==
  ASSUME InboxInv, NEW landed \in SUBSET Ids, NEW text \in Text, text # 0,
         Submit(landed, text), UNCHANGED <<running, done, failed>>
  PROVE  /\ QueueTyped' /\ (\A i \in Ids : Stays(i)) /\ (\A i \in landed : State(i)' # "absent")
         /\ \A i \in Ids : inbox'[i] = IF i \in landed THEN text ELSE inbox[i]
         /\ ran' \subseteq ran \cup {text} /\ ran' \subseteq Text
         /\ (InFlight(Exec) => InFlight(Exec)')
  <1>1. inbox' = [i \in Ids |-> IF i \in landed THEN text ELSE inbox[i]]
    BY DEF Submit
  <1>2. \A i \in Ids : inbox'[i] = IF i \in landed THEN text ELSE inbox[i]
    BY <1>1
  <1>3. QueueTyped'
    BY <1>1 DEF InboxInv, Typed, QueueTyped
  <1>4. \A i \in Ids : Stays(i)
    BY <1>2 DEF Stays, State
  <1>5. \A i \in landed : State(i)' # "absent"
    BY <1>2 DEF State
  <1>6. ran' \subseteq ran \cup {text} /\ ran' \subseteq Text
    BY DEF Submit, Made, InboxInv, Typed, HistoryTyped
  <1>7. InFlight(Exec) => InFlight(Exec)'
    BY <1>2, ExecIsNoTask DEF InFlight
  <1> QED
    BY <1>2, <1>3, <1>4, <1>5, <1>6, <1>7

LEMMA RanShown ==
  ASSUME InboxInv, NEW text, "raced" \in excused \/ text \in shown,
         ran' \subseteq ran \cup {text}, shown' = shown, excused \subseteq excused',
         planMd' \in {planMd, text}
  PROVE  RunsShown'
  BY DEF InboxInv, Approval, RunsShown

LEMMA SubmitTicketStep ==
  ASSUME InboxInv, SubmitTicket
  PROVE  InboxInv'
  <1> DEFINE i == TicketOf(held)
  <1>1. /\ at = "submit" /\ at' = "mark" /\ seen' = seen /\ held' = held /\ asOf' = asOf
        /\ mem' = mem /\ UNCHANGED setVars
        /\ UNCHANGED <<githubVars, running, done, failed, parked, shown, troubles>>
        /\ excused' = IF ShowsDispatch THEN excused \cup {"stale"} ELSE excused
        /\ IF InFlight(i) THEN UNCHANGED <<inbox, ran, cycle>>
           ELSE Submit({i}, held) /\ cycle' = IF i = Exec THEN cycle + 1 ELSE cycle
    BY DEF SubmitTicket, Goto, ShowsDispatch
  <1>2. i \in {Exec, Planning} /\ i \in Ids /\ i \notin Task
    BY ExecIsNoTask DEF TicketOf
  <1> HIDE DEF i
  <1>3. /\ at \notin InMaintenance /\ at \in Holding /\ at' \notin InMaintenance
        /\ at' \notin Holding /\ at' \in Places
    BY <1>1 DEF InMaintenance, Holding, Places
  <1>4. held \in Text /\ held # 0 /\ ("raced" \in excused \/ held \in shown)
    BY <1>1, <1>3, Beginning DEF InboxInv, Approval, HeldShown, IsWritten
  <1>5. excused \subseteq excused' /\ rec' = rec /\ planMd' = planMd /\ labels' = labels
    BY <1>1 DEF setVars, githubVars
  <1>6. /\ FormTyped' /\ Texts' = Texts /\ (\A n : IsWritten(n)' <=> IsWritten(n))
    BY <1>1, TextsSame
  <1>7. SweepTyped' /\ HeldShown' /\ LabelChosen' /\ SweepAgrees'
    <2>1. SweepTyped'
      BY <1>1, <1>3, <1>6, Beginning DEF SweepTyped
    <2>2. HeldShown' /\ LabelChosen'
      BY <1>1 DEF HeldShown, LabelChosen
    <2>3. SweepAgrees'
      BY <1>1, <1>3, Beginning DEF SweepAgrees
    <2> QED
      BY <2>1, <2>2, <2>3
  <1>8. SetTyped'
    BY <1>5, <1>6 DEF InboxInv, Typed, SetTyped
  <1>9. /\ QueueTyped' /\ (\A j \in Ids : Stays(j)) /\ ran' \subseteq ran \cup {held}
        /\ ran' \subseteq Text /\ (InFlight(Exec) => InFlight(Exec)')
        /\ \A t \in Task : inbox'[t] = inbox[t]
        /\ (i = Exec => InFlight(Exec)')
    <2>1. CASE InFlight(i)
      <3>1. UNCHANGED queueVars /\ ran' = ran
        BY <1>1, <2>1 DEF queueVars
      <3>2. /\ QueueTyped' /\ (\A j \in Ids : State(j)' = State(j))
            /\ InFlight(Exec)' = InFlight(Exec)
        BY <3>1, QueueSame DEF InboxInv, Typed
      <3> QED
        BY <1>1, <2>1, <3>1, <3>2 DEF Stays, InboxInv, Typed, HistoryTyped
    <2>2. CASE ~InFlight(i)
      <3>1. Submit({i}, held) /\ {i} \in SUBSET Ids
        BY <1>1, <1>2, <2>2
      <3>2. /\ QueueTyped' /\ (\A j \in Ids : Stays(j)) /\ ran' \subseteq ran \cup {held}
            /\ ran' \subseteq Text /\ (InFlight(Exec) => InFlight(Exec)')
            /\ \A j \in Ids : inbox'[j] = IF j \in {i} THEN held ELSE inbox[j]
        BY <1>1, <1>4, <3>1, SubmitKeeps
      <3>3. \A t \in Task : inbox'[t] = inbox[t]
        BY <1>2, <3>2, ExecIsNoTask
      <3>4. i = Exec => InFlight(Exec)'
        BY <1>2, <1>4, <3>2 DEF InFlight
      <3> QED
        BY <3>2, <3>3, <3>4
    <2> QED
      BY <2>1, <2>2
  <1>10. RunsShown'
    BY <1>1, <1>4, <1>5, <1>9, RanShown
  <1>11. ShowsDispatch' <=> ShowsDispatch
    BY <1>1, <1>5 DEF ShowsDispatch
  <1>12. cycle' \in Nat /\ DispatchShows' /\ DispatchedOnce'
    <2>1. CASE InFlight(i) \/ i # Exec
      <3>1. cycle' = cycle
        BY <1>1, <2>1
      <3> QED
        BY <1>5, <1>9, <1>11, <3>1, DispatchKept, Beginning DEF InboxInv, Marking
    <2>2. CASE ~InFlight(i) /\ i = Exec
      <3>1. cycle' = cycle + 1
        BY <1>1, <2>2
      <3>2. DispatchShows'
        BY <1>9, <2>2 DEF DispatchShows
      <3>3. cycle >= 1 => excused \cap {"refused", "stale"} # {} \/ ShowsDispatch
        BY <2>2 DEF InboxInv, Marking, DispatchShows
      <3>4. DispatchedOnce'
        BY <1>1, <3>1, <3>3, Beginning DEF DispatchedOnce
      <3> QED
        BY <3>1, <3>2, <3>4, Beginning
    <2> QED
      BY <2>1, <2>2
  <1>13. SetIsItsPlan' /\ NoChildLost'
    <2>1. plan' = plan /\ \A t \in Task : Stays(t)
      BY <1>1, <1>9, ExecIsNoTask DEF githubVars
    <2> QED
      BY <1>1, <1>5, <2>1, SetKept DEF InboxInv, Following, Typed
  <1>14. ChildrenFresh'
    BY <1>1, <1>5, <1>9, ChildrenSame DEF InboxInv, Following
  <1> QED
    BY <1>1, <1>5, <1>7, <1>8, <1>9, <1>10, <1>12, <1>13, <1>14, FilingStep, Beginning

----------------------------------------------------------------------------
(* A plan set is dispatched.                                               *)

LEMMA FreshSet ==
  ASSUME FormTyped, NEW text \in Text, NEW label \in Lifecycle \cup {"none"},
         NEW stranded \in SUBSET Task
  PROVE  LET r == [Fresh(text, label) EXCEPT !.pending = stranded]
         IN /\ r \in Record /\ r.plan = text /\ r.tasks = plan[text] /\ r.pending = stranded
            /\ Fresh(text, label) \in Record /\ Fresh(text, label).plan = text
            /\ Fresh(text, label).tasks = plan[text] /\ Fresh(text, label).pending = {}
  <1> DEFINE f == Fresh(text, label)
             r == [f EXCEPT !.pending = stranded]
  <1>1. plan[text] \in SUBSET Task /\ 0 \in Text
    BY BridgeAssumption DEF FormTyped, Text
  <1>2. NoRecord \in Record /\ NoRecord.pending = {}
    BY <1>1 DEF NoRecord, Record
  <1>3. /\ f \in Record /\ f.plan = text /\ f.tasks = plan[text] /\ f.pending = {}
    <2> HIDE DEF f
    <2>1. f = [NoRecord EXCEPT !.plan = text, !.tasks = plan[text], !.label = label]
      BY DEF f, Fresh
    <2> QED
      BY <1>1, <1>2, <2>1 DEF Record
  <1> HIDE DEF f
  <1>4. r \in Record /\ r.plan = text /\ r.tasks = plan[text] /\ r.pending = stranded
    BY <1>3 DEF Record
  <1> QED
    BY <1>3, <1>4 DEF f

LEMMA HeldToQueue ==
  ASSUME InboxInv, at \in {"submit", "replace"}
  PROVE  /\ held \in Text /\ held # 0 /\ ("raced" \in excused \/ held \in shown)
         /\ plan[held] \in SUBSET Task
  <1>1. at \in Holding
    BY DEF Holding
  <1> QED
    BY <1>1, Beginning DEF InboxInv, Typed, FormTyped, Approval, HeldShown, IsWritten

LEMMA QueuesNoExec ==
  ASSUME InboxInv, cycle' = cycle, excused \subseteq excused', labels' = labels, parked' = parked,
         InFlight(Exec) => InFlight(Exec)'
  PROVE  DispatchShows' /\ DispatchedOnce'
  <1>1. ShowsDispatch => ShowsDispatch'
    BY DEF ShowsDispatch
  <1> QED
    BY <1>1, DispatchKept, Beginning DEF InboxInv, Marking

\* What a fan-out leaves of the set.
SetWritten == SetTyped' /\ QueueTyped' /\ SetIsItsPlan' /\ NoChildLost' /\ ChildrenFresh'

LEMMA DispatchSetWrites ==
  ASSUME InboxInv, at = "submit", Compiles(held), NEW stranded \in SUBSET plan[held],
         DispatchSet(held, stranded), UNCHANGED githubVars
  PROVE  /\ SetWritten /\ ran' \subseteq ran \cup {held} /\ ran' \subseteq Text
         /\ (InFlight(Exec) => InFlight(Exec)')
  <1> DEFINE todo == {t \in plan[held] : Eligible(t, FALSE)}
             landed == todo \ stranded
  <1>1. /\ planMd' = held /\ rec' = [Fresh(held, "none") EXCEPT !.pending = stranded]
        /\ stranded \subseteq todo /\ Submit(landed, held)
        /\ excused' = excused \cup Redispatched(held) /\ UNCHANGED <<running, done, failed>>
    BY DEF DispatchSet, FanOut
  <1>2. held \in Text /\ held # 0 /\ plan[held] \in SUBSET Task
    BY HeldToQueue
  <1>3. /\ rec' \in Record /\ rec'.plan = held /\ rec'.tasks = plan[held]
        /\ rec'.pending = stranded
    BY <1>1, <1>2, FreshSet DEF InboxInv, Typed
  <1>4. landed \in SUBSET Ids
    BY <1>2, ExecIsNoTask
  <1>5. \A t \in plan[held] : t \in todo <=> State(t) = "absent"
    BY DEF Eligible
  <1> HIDE DEF todo
  <1>6. /\ QueueTyped' /\ (\A i \in Ids : Stays(i)) /\ (\A i \in landed : State(i)' # "absent")
        /\ \A i \in Ids : inbox'[i] = IF i \in landed THEN held ELSE inbox[i]
        /\ ran' \subseteq ran \cup {held} /\ ran' \subseteq Text
        /\ (InFlight(Exec) => InFlight(Exec)')
    BY <1>1, <1>2, <1>4, SubmitKeeps
  <1>7. FormTyped' /\ (\A n : IsWritten(n)' <=> IsWritten(n)) /\ plan' = plan
    BY TextsSame DEF githubVars
  <1>8. SetTyped'
    BY <1>1, <1>3, <1>7, Beginning DEF SetTyped
  <1>9. SetIsItsPlan'
    BY <1>1, <1>2, <1>3, <1>7 DEF SetIsItsPlan, Compiles
  <1>10. NoChildLost'
    <2> SUFFICES ASSUME NEW t \in plan[held] PROVE State(t)' # "absent" \/ t \in stranded
      BY <1>3 DEF NoChildLost
    <2>1. CASE State(t) = "absent"
      BY <1>5, <1>6, <2>1
    <2>2. CASE State(t) # "absent"
      BY <1>2, <1>6, <2>2, ExecIsNoTask DEF Stays
    <2> QED
      BY <2>1, <2>2
  <1>11. ChildrenFresh'
    <2> SUFFICES ASSUME excused' \cap {"retried", "cut", "redispatched", "torn"} = {},
                        NEW t \in Task
                 PROVE  Childlike(t)'
      BY DEF ChildrenFresh
    <2>1. Childlike(t) /\ {inbox[t], running[t]} \in SUBSET {0, held}
      BY <1>1 DEF InboxInv, Following, ChildrenFresh, Redispatched
    <2>2. inbox'[t] = (IF t \in landed THEN held ELSE inbox[t]) /\ running'[t] = running[t]
      BY <1>1, <1>6, ExecIsNoTask
    <2>3. CASE t \in landed
      <3>1. State(t) = "absent" /\ t \in plan[held]
        BY <1>1, <1>5, <2>3 DEF todo
      <3>2. t \notin done /\ running[t] = 0
        BY <3>1 DEF State
      <3> QED
        BY <1>1, <1>3, <2>2, <2>3, <3>1, <3>2 DEF Childlike
    <2>4. CASE t \notin landed
      <3>1. rec.tasks = plan[rec.plan]
        BY DEF InboxInv, Following, SetIsItsPlan
      <3>2. inbox[t] # 0 \/ running[t] # 0 => rec.plan = held /\ t \in plan[held]
        BY <2>1, <3>1 DEF Childlike
      <3> QED
        BY <1>1, <1>3, <2>1, <2>2, <2>4, <3>2 DEF Childlike
    <2> QED
      BY <2>3, <2>4
  <1> QED
    BY <1>6, <1>8, <1>9, <1>10, <1>11 DEF SetWritten

LEMMA SubmitSetStep ==
  ASSUME InboxInv, SubmitSet
  PROVE  InboxInv'
  <1>1. PICK stranded \in SUBSET plan[held] :
          /\ DispatchSet(held, stranded)
          /\ \/ LookedAt
             \/ Goto("mark") /\ UNCHANGED <<seen, held, asOf, mem>>
    BY DEF SubmitSet
  <1>2. /\ at = "submit" /\ Compiles(held) /\ UNCHANGED <<githubVars, parked, shown, cycle>>
    BY DEF SubmitSet
  <1>3. /\ SetWritten /\ ran' \subseteq ran \cup {held} /\ ran' \subseteq Text
        /\ (InFlight(Exec) => InFlight(Exec)')
    BY <1>1, <1>2, DispatchSetWrites
  <1>4. /\ planMd' = held /\ excused \subseteq excused' /\ troubles' \in Nat
    BY <1>1, FaultIsCounted, Beginning DEF DispatchSet, Throws, NoFault
  <1>5. "raced" \in excused \/ held \in shown
    BY <1>2, HeldToQueue
  <1>6. RunsShown'
    BY <1>2, <1>3, <1>4, <1>5, RanShown
  <1>7. DispatchShows' /\ DispatchedOnce'
    BY <1>2, <1>3, <1>4, QueuesNoExec DEF githubVars
  <1>8. FormTyped' /\ (\A n : IsWritten(n)' <=> IsWritten(n))
    BY <1>2, TextsSame
  <1>9. SweepTyped' /\ HeldShown' /\ LabelChosen' /\ SweepAgrees'
    <2>1. CASE LookedAt
      BY <1>2, <1>8, <2>1, LookedAtKeeps DEF InMaintenance
    <2>2. CASE Goto("mark") /\ UNCHANGED <<seen, held, asOf, mem>>
      <3>1. at' = "mark" /\ at \notin InMaintenance
        BY <1>2, <2>2 DEF Goto, InMaintenance
      <3>2. SweepTyped'
        BY <1>8, <2>2, <3>1, Beginning DEF SweepTyped, Places
      <3>3. HeldShown' /\ LabelChosen'
        BY <3>1 DEF HeldShown, LabelChosen
      <3>4. SweepAgrees'
        BY <2>2, <3>1, Beginning DEF SweepAgrees, InMaintenance, Holding
      <3> QED
        BY <3>2, <3>3, <3>4
    <2> QED
      BY <1>1, <2>1, <2>2
  <1> QED
    BY <1>2, <1>3, <1>4, <1>6, <1>7, <1>9, FilingStep, Beginning DEF SetWritten

----------------------------------------------------------------------------
(* The stranded children of a set are submitted again.                     *)

LEMMA PassOverStep ==
  ASSUME InboxInv, EndSweep, UNCHANGED <<issueVars, setVars>>
  PROVE  InboxInv'
  <1>1. /\ UNCHANGED <<githubVars, queueVars, parked, shown, ran, cycle, setVars>>
        /\ excused' = excused /\ troubles' = troubles
    BY IssueAndSetSame
  <1>2. FormTyped'
    BY <1>1, TextsSame
  <1>3. SweepTyped' /\ HeldShown' /\ LabelChosen' /\ SweepAgrees'
    BY <1>2, EndSweepKeeps
  <1> QED
    BY <1>1, <1>3, LookingStep, Beginning

(* The sweep takes its copy of the record.                                 *)
LEMMA CopyKeeps ==
  ASSUME InboxInv, at' = "probe", UNCHANGED <<seen, held, asOf>>, mem' = rec',
         rec' \in Record, rec' # NoRecord, UNCHANGED githubVars
  PROVE  SweepTyped' /\ HeldShown' /\ LabelChosen' /\ SweepAgrees'
  <1>1. \A n : IsWritten(n)' <=> IsWritten(n)
    BY TextsSame
  <1>2. SweepTyped'
    BY <1>1, Beginning DEF SweepTyped, Places, InMaintenance
  <1>3. HeldShown' /\ LabelChosen'
    BY DEF HeldShown, LabelChosen
  <1>4. SweepAgrees'
    BY DEF SweepAgrees, SameSet, InMaintenance, Holding
  <1> QED
    BY <1>2, <1>3, <1>4

LEMMA StrandedChildren ==
  ASSUME InboxInv, rec # NoRecord, NEW left \in SUBSET rec.pending,
         rec' = [rec EXCEPT !.pending = left], planMd' = planMd, UNCHANGED githubVars,
         excused' = excused
  PROVE  /\ rec' \in Record /\ rec' # NoRecord /\ rec'.plan = rec.plan
         /\ rec'.tasks = rec.tasks /\ rec'.pending = left /\ SetTyped' /\ SetIsItsPlan'
  <1>1. rec \in Record /\ rec.pending \subseteq rec.tasks /\ rec.plan # 0 /\ rec.tasks # {}
    BY DEF InboxInv, Typed, SetTyped, Following, SetIsItsPlan
  <1>2. /\ rec' \in Record /\ rec'.plan = rec.plan /\ rec'.tasks = rec.tasks
        /\ rec'.pending = left
    BY <1>1 DEF Record
  <1>3. rec' # NoRecord
    BY <1>1, <1>2 DEF NoRecord
  <1>4. plan' = plan /\ \A n : IsWritten(n)' <=> IsWritten(n)
    BY TextsSame DEF githubVars
  <1>5. SetTyped'
    BY <1>2, <1>4 DEF InboxInv, Typed, SetTyped
  <1>6. SetIsItsPlan'
    BY <1>1, <1>2, <1>4 DEF InboxInv, Following, SetIsItsPlan
  <1> QED
    BY <1>2, <1>3, <1>5, <1>6

(* A set whose text is gone, or does not compile, was cut or torn.         *)
LEMMA GivenUp ==
  ASSUME InboxInv, rec # NoRecord, planMd = 0 \/ ~Compiles(planMd)
  PROVE  excused \cap {"cut", "torn"} # {} /\ plan[planMd] = {}
  <1>1. plan[planMd] = {}
    BY DEF Compiles, InboxInv, Typed, FormTyped
  <1> QED
    BY <1>1 DEF InboxInv, Following, SetIsItsPlan

LEMMA GiveUpStranded ==
  ASSUME InboxInv, at = "maintain", rec # NoRecord, planMd = 0 \/ ~Compiles(planMd),
         at' = "probe", UNCHANGED <<seen, held, asOf>>,
         rec' = [rec EXCEPT !.pending = {}], mem' = rec',
         UNCHANGED <<githubVars, queueVars, parked, historyVars, troubles, planMd>>
  PROVE  InboxInv'
  <1>1. excused' = excused /\ shown' = shown /\ ran' = ran /\ cycle' = cycle
    BY DEF historyVars
  <1>2. /\ rec' \in Record /\ rec' # NoRecord /\ rec'.plan = rec.plan
        /\ rec'.tasks = rec.tasks /\ rec'.pending = {} /\ SetTyped' /\ SetIsItsPlan'
    BY <1>1, StrandedChildren
  <1>3. /\ QueueTyped' /\ (\A i \in Ids : State(i)' = State(i)) /\ InFlight(Exec)' = InFlight(Exec)
        /\ inbox' = inbox /\ running' = running /\ done' = done
    BY QueueSame DEF InboxInv, Typed, queueVars
  <1>4. NoChildLost'
    <2> SUFFICES ASSUME NEW t \in rec.tasks
                 PROVE  \/ State(t)' # "absent"
                        \/ "cut" \in excused' /\ t \notin plan'[planMd]
                        \/ "torn" \in excused'
      BY <1>2 DEF NoChildLost
    <2> QED
      BY <1>1, GivenUp DEF githubVars
  <1>5. ChildrenFresh'
    BY <1>1, <1>2, <1>3, ChildrenSame DEF InboxInv, Following
  <1>6. SweepTyped' /\ HeldShown' /\ LabelChosen' /\ SweepAgrees'
    BY <1>2, CopyKeeps
  <1>7. RunsShown'
    BY <1>1 DEF InboxInv, Approval, RunsShown
  <1>8. DispatchShows' /\ DispatchedOnce'
    BY <1>1, <1>3, QueuesNoExec DEF githubVars
  <1> QED
    BY <1>1, <1>2, <1>3, <1>4, <1>5, <1>6, <1>7, <1>8, FilingStep, Beginning
       DEF InboxInv, Typed, HistoryTyped

LEMMA SubmitStranded ==
  ASSUME InboxInv, at = "maintain", rec # NoRecord, planMd # 0, Compiles(planMd),
         at' = "probe", UNCHANGED <<seen, held, asOf>>, NEW stranded \in SUBSET rec.pending,
         FanOut(rec.pending \cap plan[planMd], planMd, TRUE, stranded), Throws(stranded),
         rec' = [rec EXCEPT !.pending = stranded], mem' = rec',
         UNCHANGED <<githubVars, running, done, failed, parked, shown, cycle, excused, planMd>>
  PROVE  InboxInv'
  <1> DEFINE todo == {t \in rec.pending \cap plan[planMd] : Eligible(t, TRUE)}
             landed == todo \ stranded
  <1>1. stranded \subseteq todo /\ Submit(landed, planMd)
    BY DEF FanOut
  <1>2. /\ rec' \in Record /\ rec' # NoRecord /\ rec'.plan = rec.plan
        /\ rec'.tasks = rec.tasks /\ rec'.pending = stranded /\ SetTyped' /\ SetIsItsPlan'
    BY StrandedChildren
  <1>3. /\ planMd \in Text /\ rec.pending \subseteq rec.tasks /\ rec.tasks \subseteq Task
        /\ rec.tasks = plan[rec.plan]
    BY DEF InboxInv, Typed, SetTyped, IsWritten, Record, Following, SetIsItsPlan
  <1>4. landed \in SUBSET Ids
    BY <1>3, ExecIsNoTask
  <1>5. \A t \in rec.pending \cap plan[planMd] : t \in todo <=> State(t) \in {"absent", "failed"}
    BY DEF Eligible
  <1>6. \A t \in landed : t \in rec.pending /\ t \in plan[planMd]
    OBVIOUS
  <1> HIDE DEF todo
  <1>7. /\ QueueTyped' /\ (\A i \in Ids : Stays(i)) /\ (\A i \in landed : State(i)' # "absent")
        /\ \A i \in Ids : inbox'[i] = IF i \in landed THEN planMd ELSE inbox[i]
        /\ ran' \subseteq ran \cup {planMd} /\ ran' \subseteq Text
        /\ (InFlight(Exec) => InFlight(Exec)')
    BY <1>1, <1>3, <1>4, SubmitKeeps
  <1>8. NoChildLost'
    <2> SUFFICES ASSUME NEW t \in rec.tasks
                 PROVE  \/ State(t)' # "absent" \/ t \in stranded
                        \/ "cut" \in excused /\ t \notin plan[planMd]
                        \/ "torn" \in excused
      BY <1>2 DEF NoChildLost, githubVars
    <2>1. CASE State(t) # "absent"
      BY <1>3, <1>7, <2>1, ExecIsNoTask DEF Stays
    <2>2. CASE State(t) = "absent" /\ t \in rec.pending
      <3>1. CASE t \in plan[planMd]
        BY <1>5, <1>7, <2>2, <3>1
      <3>2. CASE t \notin plan[planMd]
        BY <1>3, <3>2 DEF InboxInv, Following, SetIsItsPlan
      <3> QED
        BY <3>1, <3>2
    <2>3. CASE State(t) = "absent" /\ t \notin rec.pending
      BY <2>3 DEF InboxInv, Following, NoChildLost
    <2> QED
      BY <2>1, <2>2, <2>3
  <1>9. ChildrenFresh'
    <2> SUFFICES ASSUME excused \cap {"retried", "cut", "redispatched", "torn"} = {},
                        NEW t \in Task
                 PROVE  Childlike(t)'
      BY DEF ChildrenFresh
    <2>1. Childlike(t) /\ planMd = rec.plan
      BY DEF InboxInv, Following, ChildrenFresh, SetIsItsPlan
    <2>2. inbox'[t] = (IF t \in landed THEN planMd ELSE inbox[t]) /\ running'[t] = running[t]
      BY <1>7, ExecIsNoTask
    <2>3. CASE t \in landed
      <3>1. State(t) \in {"absent", "failed"} /\ t \in rec.tasks
        BY <1>3, <1>5, <1>6, <2>3
      <3>2. t \notin done /\ running[t] = 0
        BY <3>1 DEF State
      <3> QED
        BY <1>2, <2>1, <2>2, <2>3, <3>1, <3>2 DEF Childlike
    <2>4. CASE t \notin landed
      BY <1>2, <2>1, <2>2, <2>4 DEF Childlike
    <2> QED
      BY <2>3, <2>4
  <1>10. SweepTyped' /\ HeldShown' /\ LabelChosen' /\ SweepAgrees'
    BY <1>2, CopyKeeps
  <1>11. RunsShown'
    <2>1. "raced" \in excused \/ planMd \in shown
      BY DEF InboxInv, Approval, RunsShown
    <2> QED
      BY <1>7, <2>1, RanShown
  <1>12. DispatchShows' /\ DispatchedOnce'
    BY <1>7, QueuesNoExec DEF githubVars
  <1>13. troubles' \in Nat
    BY FaultIsCounted, Beginning DEF Throws, NoFault
  <1> QED
    BY <1>2, <1>7, <1>8, <1>9, <1>10, <1>11, <1>12, <1>13, FilingStep, Beginning

LEMMA DrainStep ==
  ASSUME InboxInv, Drain
  PROVE  InboxInv'
  <1>1. CASE EndSweep /\ UNCHANGED <<issueVars, setVars>>
    BY <1>1, PassOverStep
  <1>2. CASE rec # NoRecord /\ rec.pending = {} /\ Goto("probe") /\ UNCHANGED <<seen, held, asOf>>
             /\ mem' = rec /\ UNCHANGED <<issueVars, setVars>>
    <2>1. /\ UNCHANGED <<githubVars, queueVars, parked, shown, ran, cycle, setVars>>
          /\ excused' = excused /\ troubles' = troubles /\ rec' = rec
      BY <1>2, IssueAndSetSame DEF setVars
    <2>2. rec \in Record
      BY DEF InboxInv, Typed, SetTyped
    <2>3. SweepTyped' /\ HeldShown' /\ LabelChosen' /\ SweepAgrees'
      BY <1>2, <2>1, <2>2, CopyKeeps DEF Goto
    <2> QED
      BY <2>1, <2>3, LookingStep, Beginning
  <1>3. CASE ~(EndSweep /\ UNCHANGED <<issueVars, setVars>>) /\ rec # NoRecord /\ rec.pending # {}
    <2>1. /\ at = "maintain" /\ at' = "probe" /\ UNCHANGED <<seen, held, asOf>> /\ mem' = rec'
          /\ UNCHANGED <<githubVars, running, done, failed, parked, shown, cycle, excused, planMd>>
      BY <1>3 DEF Drain, Goto
    <2>2. CASE planMd = 0 \/ ~Compiles(planMd)
      <3>1. rec' = [rec EXCEPT !.pending = {}] /\ UNCHANGED <<inbox, ran, troubles>>
        BY <1>3, <2>2 DEF Drain
      <3>2. UNCHANGED <<githubVars, queueVars, parked, historyVars, troubles, planMd>>
        BY <2>1, <3>1 DEF queueVars, historyVars
      <3> QED
        BY <1>3, <2>1, <2>2, <3>1, <3>2, GiveUpStranded
    <2>3. CASE planMd # 0 /\ Compiles(planMd)
      <3>1. PICK stranded \in SUBSET rec.pending :
              /\ FanOut(rec.pending \cap plan[planMd], planMd, TRUE, stranded)
              /\ Throws(stranded)
              /\ rec' = [rec EXCEPT !.pending = stranded]
        BY <1>3, <2>3 DEF Drain
      <3> QED
        BY <1>3, <2>1, <2>3, <3>1, SubmitStranded
    <2> QED
      BY <2>2, <2>3
  <1> QED
    BY <1>1, <1>2, <1>3 DEF Drain

----------------------------------------------------------------------------
(* A set is replaced.                                                      *)

LEMMA ResubmitKeeps ==
  ASSUME InboxInv, at = "replace", NEW gone \in SUBSET Unclaimed(mem),
         NEW landed \in SUBSET Resubmits(gone), Resubmit(gone, landed),
         UNCHANGED <<running, done>>
  PROVE  /\ QueueTyped' /\ (\A i \in Ids : Stays(i)) /\ (\A t \in landed : State(t)' # "absent")
         /\ gone \subseteq Task /\ landed \subseteq Task
         /\ \A t \in Task :
              inbox'[t] = IF t \in landed THEN held ELSE IF t \in gone THEN 0 ELSE inbox[t]
         /\ ran' \subseteq ran \cup {held} /\ ran' \subseteq Text
         /\ (InFlight(Exec) => InFlight(Exec)')
  <1>1. held \in Text /\ held # 0 /\ plan[held] \in SUBSET Task
    BY HeldToQueue
  <1>2. /\ gone \subseteq Task /\ \A t \in gone : inbox[t] # 0
    BY Beginning DEF Unclaimed, Record
  <1>3. landed \subseteq Task
    BY <1>1 DEF Resubmits
  <1>4. /\ failed' = [i \in Ids |-> IF i \in gone THEN failed[i] \cup {<<inbox[i], held>>}
                                    ELSE failed[i]]
        /\ inbox' = [i \in Ids |-> IF i \in landed THEN held ELSE IF i \in gone THEN 0
                                   ELSE inbox[i]]
    BY DEF Resubmit, Disposed
  <1>5. \A i \in Ids : /\ inbox[i] \in Text /\ running[i] \in Text
                       /\ failed[i] \in SUBSET ((Text \ {0}) \X Text)
    BY DEF InboxInv, Typed, QueueTyped
  <1>6. QueueTyped'
    <2>1. \A i \in gone : failed[i] \cup {<<inbox[i], held>>} \in SUBSET ((Text \ {0}) \X Text)
      BY <1>1, <1>2, <1>5, ExecIsNoTask
    <2>2. failed' \in [Ids -> SUBSET ((Text \ {0}) \X Text)]
      BY <1>4, <1>5, <2>1
    <2>3. inbox' \in [Ids -> Text]
      BY <1>1, <1>4, <1>5, BridgeAssumption DEF Text
    <2> QED
      BY <2>2, <2>3 DEF InboxInv, Typed, QueueTyped
  <1>7. /\ \A i \in Ids : inbox'[i] = IF i \in landed THEN held ELSE IF i \in gone THEN 0
                                      ELSE inbox[i]
        /\ \A i \in Ids : IF i \in gone THEN failed'[i] # {} ELSE failed'[i] = failed[i]
    BY <1>4
  <1>8. \A i \in Ids : Stays(i)
    BY <1>1, <1>7 DEF Stays, State
  <1>9. \A t \in landed : State(t)' # "absent"
    BY <1>1, <1>3, <1>7, ExecIsNoTask DEF State
  <1>10. ran' \subseteq ran \cup {held} /\ ran' \subseteq Text
    BY <1>1 DEF Resubmit, Made, InboxInv, Typed, HistoryTyped
  <1>11. InFlight(Exec) => InFlight(Exec)'
    BY <1>2, <1>3, <1>7, ExecIsNoTask DEF InFlight
  <1> QED
    BY <1>2, <1>3, <1>6, <1>7, <1>8, <1>9, <1>10, <1>11, ExecIsNoTask

LEMMA Replacing ==
  ASSUME InboxInv, at = "replace"
  PROVE  /\ rec # NoRecord /\ SameSet(mem, rec) /\ mem \in Record /\ rec \in Record
         /\ at \in InMaintenance /\ rec.plan # 0 /\ rec.tasks \subseteq Task
         /\ rec.tasks = plan[rec.plan]
  <1>1. at \in InMaintenance
    BY DEF InMaintenance
  <1> QED
    BY <1>1, Beginning DEF InboxInv, Typed, SetTyped, Record, Following, SweepAgrees, SetIsItsPlan

LEMMA ReplaceRefusedStep ==
  ASSUME InboxInv, at = "replace", ReplaceRefused,
         UNCHANGED <<githubVars, running, done, parked, shown, cycle, excused, seen, held, asOf>>
  PROVE  InboxInv'
  <1>1. /\ Resubmit(Unclaimed(mem), {}) /\ mem' = [mem EXCEPT !.lastFailed = held]
        /\ at' \in {"refuse", "state"} /\ rec' \in {rec, mem'}
        /\ troubles' = troubles /\ planMd' = planMd
    BY DEF ReplaceRefused, Goto
  <1>2. /\ rec # NoRecord /\ SameSet(mem, rec) /\ mem \in Record /\ rec \in Record
        /\ rec.plan # 0 /\ held \in Text
    BY Replacing, HeldToQueue
  <1>3. mem' \in Record /\ SameSet(mem', rec)
    BY <1>1, <1>2 DEF Record, SameSet
  <1>4. Noted /\ rec' # NoRecord /\ SameSet(mem', rec')
    <2>1. rec' \in Record /\ SameSet(rec', rec) /\ SameSet(mem', rec')
      BY <1>1, <1>2, <1>3 DEF SameSet
    <2>2. rec' # NoRecord
      BY <1>2, <2>1 DEF SameSet, NoRecord
    <2> QED
      BY <1>1, <1>2, <2>1, <2>2 DEF Noted
  <1>5. /\ QueueTyped' /\ (\A i \in Ids : Stays(i))
        /\ \A t \in Task :
             inbox'[t] = IF t \in {} THEN held ELSE IF t \in Unclaimed(mem) THEN 0 ELSE inbox[t]
        /\ ran' \subseteq ran \cup {held} /\ ran' \subseteq Text
        /\ (InFlight(Exec) => InFlight(Exec)')
    BY <1>1, ResubmitKeeps
  <1>6. SetTyped' /\ SetIsItsPlan' /\ NoChildLost'
    BY <1>4, <1>5, SetNoted, ExecIsNoTask DEF githubVars
  <1>7. ChildrenFresh'
    <2> SUFFICES ASSUME excused \cap {"retried", "cut", "redispatched", "torn"} = {},
                        NEW t \in Task
                 PROVE  Childlike(t)'
      BY DEF ChildrenFresh
    <2>1. Childlike(t) /\ rec'.plan = rec.plan /\ rec'.tasks = rec.tasks
      BY <1>4 DEF InboxInv, Following, ChildrenFresh, Noted, SameSet
    <2>2. inbox'[t] \in {0, inbox[t]} /\ running'[t] = running[t]
      BY <1>5
    <2> QED
      BY <2>1, <2>2 DEF Childlike
  <1>8. \A n : IsWritten(n)' <=> IsWritten(n)
    BY TextsSame
  <1>9. SweepTyped' /\ HeldShown' /\ LabelChosen' /\ SweepAgrees'
    <2>1. SweepTyped'
      BY <1>1, <1>3, <1>8, Beginning DEF SweepTyped, Places, InMaintenance
    <2>2. HeldShown' /\ LabelChosen'
      BY <1>1 DEF HeldShown, LabelChosen
    <2>3. SweepAgrees'
      BY <1>1, <1>4 DEF SweepAgrees, InMaintenance, Holding
    <2> QED
      BY <2>1, <2>2, <2>3
  <1>10. RunsShown'
    BY <1>1, <1>5, HeldToQueue, RanShown
  <1>11. DispatchShows' /\ DispatchedOnce'
    BY <1>5, QueuesNoExec DEF githubVars
  <1> QED
    BY <1>1, <1>5, <1>6, <1>7, <1>9, <1>10, <1>11, FilingStep, Beginning

(* Nothing of the old plan waits or runs, and all of the new one is there. *)
LEMMA ReplaceSetStep ==
  ASSUME InboxInv, at = "replace", ReplaceSet, ~AnyProcessing(mem),
         UNCHANGED <<githubVars, running, done, parked, shown, cycle, excused, seen, held, asOf>>
  PROVE  InboxInv'
  <1> DEFINE gone == Unclaimed(mem)
             todo == Resubmits(gone)
  <1>1. PICK stranded \in SUBSET todo :
          /\ Resubmit(gone, todo \ stranded) /\ Throws(stranded)
          /\ mem' = [Fresh(held, mem.label) EXCEPT !.pending = stranded]
    BY DEF ReplaceSet
  <1>2. Compiles(held) /\ rec' = mem' /\ planMd' = held /\ at' \in {"unapprove", "state"}
    BY DEF ReplaceSet, Goto
  <1>3. held \in Text /\ held # 0 /\ ("raced" \in excused \/ held \in shown)
        /\ plan[held] \in SUBSET Task
    BY HeldToQueue
  <1>4. stranded \in SUBSET Task /\ mem.label \in Lifecycle \cup {"none"}
    BY <1>1, <1>3, Replacing DEF Resubmits, Record
  <1>5. /\ rec' \in Record /\ rec'.plan = held /\ rec'.tasks = plan[held]
        /\ rec'.pending = stranded
    <2>1. rec' = [Fresh(held, mem.label) EXCEPT !.pending = stranded]
      BY <1>1, <1>2
    <2>2. FormTyped
      BY DEF InboxInv, Typed
    <2>3. PICK label \in Lifecycle \cup {"none"} : label = mem.label
      BY <1>4
    <2>4. LET r == [Fresh(held, label) EXCEPT !.pending = stranded]
          IN r \in Record /\ r.plan = held /\ r.tasks = plan[held] /\ r.pending = stranded
      BY <1>3, <1>4, <2>2, FreshSet
    <2> QED
      BY <2>1, <2>3, <2>4
  <1>6. \A t \in plan[held] : t \in todo <=> /\ t \notin done /\ running[t] = 0
                                             /\ (inbox[t] = 0 \/ t \in gone)
    BY DEF Resubmits
  <1>7. todo \ stranded \in SUBSET Resubmits(gone) /\ todo \subseteq plan[held]
    BY DEF Resubmits
  <1>8. \A t \in Task : t \in gone <=> t \in rec.tasks /\ inbox[t] # 0
    BY Replacing DEF Unclaimed, SameSet
  <1>9. gone \in SUBSET Unclaimed(mem)
    OBVIOUS
  <1>10. /\ QueueTyped' /\ (\A i \in Ids : Stays(i))
         /\ (\A t \in todo \ stranded : State(t)' # "absent")
         /\ \A t \in Task : inbox'[t] = IF t \in todo \ stranded THEN held
                                        ELSE IF t \in gone THEN 0 ELSE inbox[t]
         /\ ran' \subseteq ran \cup {held} /\ ran' \subseteq Text
         /\ (InFlight(Exec) => InFlight(Exec)')
    BY <1>1, <1>7, <1>9, ResubmitKeeps
  <1> HIDE DEF gone, todo
  <1>11. (\A n : IsWritten(n)' <=> IsWritten(n)) /\ plan' = plan
    BY TextsSame DEF githubVars
  <1>12. SetTyped'
    BY <1>2, <1>5, <1>11, Beginning DEF SetTyped
  <1>13. SetIsItsPlan'
    BY <1>1, <1>2, <1>3, <1>5, <1>7, <1>11 DEF SetIsItsPlan, Compiles
  <1>14. NoChildLost'
    <2> SUFFICES ASSUME NEW t \in plan[held] PROVE State(t)' # "absent" \/ t \in stranded
      BY <1>5 DEF NoChildLost
    <2>1. CASE t \in todo
      BY <1>10, <2>1
    <2>2. CASE t \notin todo
      <3>1. State(t) # "absent"
        BY <1>6, <2>2 DEF State
      <3> QED
        BY <1>3, <1>10, <3>1, ExecIsNoTask DEF Stays
    <2> QED
      BY <2>1, <2>2
  <1>15. ChildrenFresh'
    <2> SUFFICES ASSUME excused \cap {"retried", "cut", "redispatched", "torn"} = {},
                        NEW t \in Task
                 PROVE  Childlike(t)'
      BY DEF ChildrenFresh
    <2>1. Childlike(t)
      BY DEF InboxInv, Following, ChildrenFresh
    <2>2. running[t] = 0
      <3>1. CASE t \in rec.tasks
        <4>1. t \in mem.tasks /\ TaskState(t, mem) # "processing"
          BY <3>1, Replacing DEF AnyProcessing, SameSet
        <4>2. State(t) # "processing"
          BY <4>1 DEF TaskState
        <4> QED
          BY <2>1, <4>2 DEF State, Childlike
      <3>2. CASE t \notin rec.tasks
        BY <2>1, <3>2 DEF Childlike
      <3> QED
        BY <3>1, <3>2
    <2>3. inbox[t] # 0 => t \in gone
      BY <1>8, <2>1 DEF Childlike
    <2>4. running'[t] = 0 /\ (t \in done' <=> t \in done)
      BY <2>2
    <2>5. inbox'[t] = 0 \/ (t \in todo /\ inbox'[t] = held)
      BY <1>10, <2>3
    <2>6. t \in todo => t \in plan[held] /\ t \notin done
      BY <1>6, <1>7
    <2> QED
      BY <1>5, <2>4, <2>5, <2>6 DEF Childlike
  <1>16. SweepTyped' /\ HeldShown' /\ LabelChosen' /\ SweepAgrees'
    <2>1. SweepTyped'
      BY <1>2, <1>5, <1>11, Beginning DEF SweepTyped, Places, InMaintenance
    <2>2. HeldShown' /\ LabelChosen'
      BY <1>2 DEF HeldShown, LabelChosen
    <2>3. rec' # NoRecord
      BY <1>3, <1>5 DEF NoRecord
    <2>4. SweepAgrees'
      BY <1>2, <2>3 DEF SweepAgrees, SameSet, InMaintenance, Holding
    <2> QED
      BY <2>1, <2>2, <2>4
  <1>17. RunsShown'
    BY <1>2, <1>3, <1>10, RanShown
  <1>18. DispatchShows' /\ DispatchedOnce'
    BY <1>10, QueuesNoExec DEF githubVars
  <1>19. troubles' \in Nat
    BY <1>1, FaultIsCounted, Beginning DEF Throws, NoFault
  <1> QED
    BY <1>10, <1>12, <1>13, <1>14, <1>15, <1>16, <1>17, <1>18, <1>19, FilingStep, Beginning

LEMMA ReplaceStep ==
  ASSUME InboxInv, Replace
  PROVE  InboxInv'
  <1>1. at = "replace" /\ at \in InMaintenance
    BY DEF Replace, InMaintenance
  <1>2. CASE Skip("state")
    BY <1>1, <1>2, ToStateStep
  <1>3. CASE ~Skip("state")
    <2>1. /\ ~AnyProcessing(mem) /\ (ReplaceRefused \/ ReplaceSet)
          /\ UNCHANGED <<githubVars, running, done, parked, shown, cycle, excused, seen, held,
                         asOf>>
      BY <1>3 DEF Replace
    <2>2. CASE ReplaceRefused
      BY <1>1, <2>1, <2>2, ReplaceRefusedStep
    <2>3. CASE ReplaceSet
      BY <1>1, <2>1, <2>3, ReplaceSetStep
    <2> QED
      BY <2>1, <2>2, <2>3
  <1> QED
    BY <1>2, <1>3

----------------------------------------------------------------------------
(* The daemon dies and is started again.                                   *)

LEMMA DownKeeps ==
  ASSUME InboxInv, at' = "down", seen' = {}, held' = 0, asOf' = 0, mem' = NoRecord,
         UNCHANGED githubVars
  PROVE  SweepTyped' /\ HeldShown' /\ LabelChosen' /\ SweepAgrees'
  <1>1. FormTyped'
    BY TextsSame
  <1>2. NoRecord \in Record
    BY BridgeAssumption DEF NoRecord, Record, Text
  <1>3. SweepTyped'
    BY <1>1, <1>2, NothingHeld, BridgeAssumption DEF SweepTyped, Places, Text
  <1>4. HeldShown' /\ LabelChosen'
    BY DEF HeldShown, LabelChosen
  <1>5. SweepAgrees'
    BY DEF SweepAgrees, InMaintenance, Holding
  <1> QED
    BY <1>3, <1>4, <1>5

LEMMA DispatchSetCutWrites ==
  ASSUME InboxInv, at = "submit", Compiles(held), DispatchSetCut(held), UNCHANGED githubVars
  PROVE  /\ SetWritten /\ ran' \subseteq ran \cup {held} /\ ran' \subseteq Text
         /\ (InFlight(Exec) => InFlight(Exec)')
         /\ planMd' = held /\ excused \subseteq excused'
  <1>1. /\ planMd' = held /\ excused \subseteq excused' /\ "torn" \in excused'
        /\ UNCHANGED <<running, done, failed>>
        /\ \/ UNCHANGED <<rec, inbox, ran>>
           \/ /\ rec' = Fresh(held, "none")
              /\ \E landed \in SUBSET {t \in plan[held] : Eligible(t, FALSE)} :
                   Submit(landed, held)
    BY DEF DispatchSetCut
  <1>2. held \in Text /\ held # 0 /\ plan[held] \in SUBSET Task
    BY HeldToQueue
  <1>3. FormTyped' /\ (\A n : IsWritten(n)' <=> IsWritten(n)) /\ plan' = plan
    BY TextsSame DEF githubVars
  <1>4. NoChildLost' /\ ChildrenFresh'
    BY <1>1 DEF NoChildLost, ChildrenFresh
  <1>5. CASE UNCHANGED <<rec, inbox, ran>>
    <2>1. UNCHANGED queueVars
      BY <1>1, <1>5 DEF queueVars
    <2>2. QueueTyped' /\ InFlight(Exec)' = InFlight(Exec)
      BY <2>1, QueueSame DEF InboxInv, Typed
    <2>3. SetTyped'
      BY <1>1, <1>3, <1>5, Beginning DEF InboxInv, Typed, SetTyped
    <2>4. SetIsItsPlan'
      BY <1>1, <1>3, <1>5 DEF InboxInv, Following, SetIsItsPlan
    <2> QED
      BY <1>1, <1>4, <1>5, <2>2, <2>3, <2>4 DEF SetWritten, InboxInv, Typed, HistoryTyped
  <1>6. CASE /\ rec' = Fresh(held, "none")
             /\ \E landed \in SUBSET {t \in plan[held] : Eligible(t, FALSE)} :
                  Submit(landed, held)
    <2>1. PICK landed \in SUBSET {t \in plan[held] : Eligible(t, FALSE)} : Submit(landed, held)
      BY <1>6
    <2>2. landed \in SUBSET Ids
      BY <1>2, ExecIsNoTask
    <2>3. /\ QueueTyped' /\ ran' \subseteq ran \cup {held} /\ ran' \subseteq Text
          /\ (InFlight(Exec) => InFlight(Exec)')
      BY <1>1, <1>2, <2>1, <2>2, SubmitKeeps
    <2>4. /\ rec' \in Record /\ rec'.plan = held /\ rec'.tasks = plan[held] /\ rec'.pending = {}
      BY <1>2, <1>6, FreshSet DEF InboxInv, Typed
    <2>5. SetTyped'
      BY <1>1, <1>3, <2>4, Beginning DEF SetTyped
    <2>6. SetIsItsPlan'
      BY <1>1, <1>2, <1>3, <2>4 DEF SetIsItsPlan, Compiles
    <2> QED
      BY <1>1, <1>4, <2>3, <2>5, <2>6 DEF SetWritten
  <1> QED
    BY <1>1, <1>5, <1>6

LEMMA ReplaceCutWrites ==
  ASSUME InboxInv, ReplaceCut, UNCHANGED <<githubVars, running, done>>
  PROVE  /\ SetWritten /\ ran' \subseteq ran \cup {held} /\ ran' \subseteq Text
         /\ (InFlight(Exec) => InFlight(Exec)')
         /\ planMd' \in {planMd, held} /\ excused \subseteq excused'
  <1>1. at = "replace" /\ rec' = rec /\ excused' = excused \cup {"cut"}
    BY DEF ReplaceCut
  <1>2. PICK gone \in SUBSET Unclaimed(mem) :
          \E landed \in IF gone = Unclaimed(mem) /\ Compiles(held)
                        THEN SUBSET Resubmits(gone) ELSE {{}} :
             /\ Resubmit(gone, landed)
             /\ planMd' \in IF gone = Unclaimed(mem) /\ landed = Resubmits(gone)
                            THEN {planMd, held} ELSE {planMd}
    BY DEF ReplaceCut
  <1>3. PICK landed \in SUBSET Resubmits(gone) :
          /\ Resubmit(gone, landed)
          /\ planMd' = planMd \/ (planMd' = held /\ landed = Resubmits(gone))
    BY <1>2
  <1>4. /\ QueueTyped' /\ (\A i \in Ids : Stays(i)) /\ (\A t \in landed : State(t)' # "absent")
        /\ ran' \subseteq ran \cup {held} /\ ran' \subseteq Text
        /\ (InFlight(Exec) => InFlight(Exec)')
    BY <1>1, <1>3, ResubmitKeeps
  <1>5. (\A n : IsWritten(n)' <=> IsWritten(n)) /\ plan' = plan
    BY TextsSame DEF githubVars
  <1>6. SetTyped'
    BY <1>1, <1>3, <1>5, Beginning DEF InboxInv, Typed, SetTyped
  <1>7. SetIsItsPlan'
    BY <1>1, <1>5 DEF InboxInv, Following, SetIsItsPlan
  <1>8. NoChildLost'
    <2> SUFFICES ASSUME NEW t \in rec.tasks
                 PROVE  \/ State(t)' # "absent" \/ t \in rec.pending
                        \/ t \notin plan[planMd'] \/ "torn" \in excused
      BY <1>1, <1>5 DEF NoChildLost
    <2>1. t \in Ids
      BY <1>1, Replacing, ExecIsNoTask
    <2>2. CASE State(t) # "absent"
      BY <1>4, <2>1, <2>2 DEF Stays
    <2>3. CASE State(t) = "absent" /\ planMd' = planMd
      BY <2>3 DEF InboxInv, Following, NoChildLost
    <2>4. CASE State(t) = "absent" /\ planMd' = held /\ landed = Resubmits(gone)
      <3>1. t \notin done /\ running[t] = 0 /\ inbox[t] = 0
        BY <2>4 DEF State
      <3>2. t \in plan[held] => t \in landed
        BY <2>4, <3>1 DEF Resubmits
      <3> QED
        BY <1>4, <2>4, <3>2
    <2> QED
      BY <1>3, <2>2, <2>3, <2>4
  <1>9. ChildrenFresh'
    BY <1>1 DEF ChildrenFresh
  <1> QED
    BY <1>1, <1>3, <1>4, <1>6, <1>7, <1>8, <1>9 DEF SetWritten

LEMMA DieStep ==
  ASSUME InboxInv, Die
  PROVE  InboxInv'
  <1>1. /\ Fault /\ at' = "down" /\ seen' = {} /\ held' = 0 /\ asOf' = 0 /\ mem' = NoRecord
        /\ UNCHANGED <<githubVars, parked>>
    BY DEF Die, Goto
  <1>2. SweepTyped' /\ HeldShown' /\ LabelChosen' /\ SweepAgrees'
    BY <1>1, DownKeeps
  <1>3. troubles' \in Nat
    BY <1>1, FaultIsCounted
  <1>4. CASE UNCHANGED <<queueVars, historyVars, setVars>>
    <2>1. /\ UNCHANGED <<githubVars, queueVars, parked, shown, ran, cycle, setVars>>
          /\ excused' = excused
      BY <1>1, <1>4 DEF historyVars
    <2> QED
      BY <1>2, <1>3, <2>1, LookingStep
  <1>5. ASSUME at \in {"submit", "replace"}, UNCHANGED <<shown, cycle>>,
               SetWritten, ran' \subseteq ran \cup {held}, ran' \subseteq Text,
               InFlight(Exec) => InFlight(Exec)',
               planMd' \in {planMd, held}, excused \subseteq excused'
        PROVE  InboxInv'
    <2>1. RunsShown'
      BY <1>5, HeldToQueue, RanShown
    <2>2. DispatchShows' /\ DispatchedOnce'
      BY <1>1, <1>5, QueuesNoExec DEF githubVars
    <2> QED
      BY <1>1, <1>2, <1>3, <1>5, <2>1, <2>2, FilingStep, Beginning DEF SetWritten
  <1>6. CASE /\ at = "submit" /\ form[held] = "set" /\ Compiles(held)
             /\ DispatchSetCut(held) /\ UNCHANGED <<shown, cycle>>
    BY <1>1, <1>5, <1>6, DispatchSetCutWrites
  <1>7. CASE ReplaceCut /\ UNCHANGED <<running, done, shown, cycle>>
    BY <1>1, <1>5, <1>7, ReplaceCutWrites DEF ReplaceCut
  <1> QED
    BY <1>4, <1>6, <1>7 DEF Die

LEMMA RestartStep ==
  ASSUME InboxInv, Restart
  PROVE  InboxInv'
  <1>1. /\ at = "down" /\ at' = "idle"
        /\ inbox' = [i \in Ids |-> IF inbox[i] = 0 THEN running[i] ELSE inbox[i]]
        /\ running' = [i \in Ids |-> IF inbox[i] = 0 THEN 0 ELSE running[i]]
        /\ UNCHANGED <<seen, held, asOf, mem, setVars, githubVars, done, failed, parked, shown,
                       ran, cycle, excused, troubles>>
    BY DEF Restart, Goto, historyVars
  <1>2. inbox \in [Ids -> Text] /\ running \in [Ids -> Text] /\ 0 \in Text
    BY BridgeAssumption DEF InboxInv, Typed, QueueTyped, Text
  <1>3. QueueTyped'
    BY <1>1, <1>2 DEF InboxInv, Typed, QueueTyped
  <1>4. \A i \in Ids : /\ inbox'[i] = IF inbox[i] = 0 THEN running[i] ELSE inbox[i]
                       /\ running'[i] = IF inbox[i] = 0 THEN 0 ELSE running[i]
    BY <1>1
  <1>5. \A i \in Ids : Stays(i)
    BY <1>1, <1>4 DEF Stays, State
  <1>6. rec' = rec /\ planMd' = planMd /\ plan' = plan /\ labels' = labels
    BY <1>1 DEF setVars, githubVars
  <1>7. InFlight(Exec) => InFlight(Exec)'
    BY <1>4, ExecIsNoTask DEF InFlight
  <1>8. ChildrenFresh'
    <2>1. \A t \in Task : Childlike(t) => Childlike(t)'
      BY <1>1, <1>4, <1>6, ExecIsNoTask DEF Childlike
    <2> QED
      BY <1>1, <2>1 DEF InboxInv, Following, ChildrenFresh
  <1>9. SetIsItsPlan' /\ NoChildLost'
    BY <1>1, <1>5, <1>6, SetKept, ExecIsNoTask DEF InboxInv, Following, Typed
  <1>10. DispatchShows' /\ DispatchedOnce'
    BY <1>1, <1>6, <1>7, QueuesNoExec
  <1>11. \A n : IsWritten(n)' <=> IsWritten(n)
    BY <1>1, TextsSame
  <1>12. SetTyped'
    BY <1>6, <1>11 DEF InboxInv, Typed, SetTyped
  <1>13. SweepTyped' /\ HeldShown' /\ LabelChosen' /\ SweepAgrees'
    <2>1. SweepTyped'
      BY <1>1, <1>11, Beginning DEF SweepTyped, Places
    <2>2. HeldShown' /\ LabelChosen'
      BY <1>1 DEF HeldShown, LabelChosen
    <2>3. SweepAgrees'
      BY <1>1, Beginning DEF SweepAgrees, InMaintenance, Holding
    <2> QED
      BY <2>1, <2>2, <2>3
  <1>14. RunsShown' /\ ran' \subseteq Text
    BY <1>1, <1>6 DEF InboxInv, Approval, RunsShown, Typed, HistoryTyped
  <1> QED
    BY <1>1, <1>3, <1>8, <1>9, <1>10, <1>12, <1>13, <1>14, FilingStep, Beginning

----------------------------------------------------------------------------
(* The invariant.                                                          *)

LEMMA InitInboxInv ==
  ASSUME Init
  PROVE  InboxInv
  <1>1. PICK f \in Doors, p \in SetPlans :
          /\ form = [n \in Text |-> IF n = 1 THEN f ELSE "none"]
          /\ plan = [n \in Text |-> IF n = 1 THEN p ELSE {}]
          /\ labels = {"trigger"} /\ body = 1 /\ comment = 0
          /\ \E w \in BOOLEAN :
               /\ vouched = [text |-> 1, writer |-> w]
               /\ shown = IF w THEN {1} ELSE {}
          /\ approved = [text |-> 0, writer |-> FALSE]
          /\ approval \in Approvals
          /\ inbox = [i \in Ids |-> 0] /\ running = [i \in Ids |-> 0]
          /\ done = {} /\ failed = [i \in Ids |-> {}]
          /\ parked = <<>> /\ ran = {} /\ cycle = 0 /\ excused = {}
          /\ troubles = 0
    BY DEF Init, InitIssue
  <1>2. PICK w \in BOOLEAN : vouched = [text |-> 1, writer |-> w] /\ shown = IF w THEN {1} ELSE {}
    BY <1>1
  <1>3. /\ at = "idle" /\ seen = {} /\ held = 0 /\ asOf = 0
        /\ rec = NoRecord /\ planMd = 0 /\ mem = NoRecord
    BY DEF Init, InitSweep
  <1>4. f \in Forms /\ p \in SUBSET Task /\ approval \in BOOLEAN /\ 0 \in Text /\ 1 \in Text
        /\ MaxTexts \in Nat /\ 1 <= MaxTexts
    BY <1>1, BridgeAssumption DEF Text
  <1>5. \A n \in Text : form[n] # "none" <=> n # 0 /\ n <= 1
    BY <1>1, <1>4 DEF Forms, Text
  <1>6. Texts = 1
    BY <1>4, <1>5, TextsAreANumber DEF Texts
  <1>7. FormTyped
    <2>1. form \in [Text -> Forms \cup {"none"}] /\ plan \in [Text -> SUBSET Task]
      BY <1>1, <1>4
    <2>2. plan[0] = {}
      BY <1>1, <1>4
    <2> QED
      BY <1>5, <1>6, <2>1, <2>2 DEF FormTyped
  <1>8. IssueTyped
    BY <1>1, <1>2, <1>4, <1>6 DEF IssueTyped, IsWritten, LabelEvent, Labels
  <1>9. QueueTyped
    BY <1>1, <1>4 DEF QueueTyped
  <1>10. ParkedTyped /\ OpsKeepDispatched
    BY <1>1 DEF ParkedTyped, OpsKeepDispatched
  <1>11. HistoryTyped
    BY <1>1, <1>2, <1>4 DEF HistoryTyped
  <1>12. NoRecord \in Record /\ NoRecord.plan = 0 /\ NoRecord.tasks = {} /\ NoRecord.pending = {}
    BY <1>4 DEF NoRecord, Record
  <1>13. SweepTyped /\ SetTyped
    BY <1>3, <1>4, <1>6, <1>12 DEF SweepTyped, SetTyped, IsWritten, Places
  <1>14. Approval
    BY <1>1, <1>2, <1>3 DEF Approval, EventsShown, HeldShown, RunsShown
  <1>15. DispatchShows /\ DispatchedOnce /\ LabelChosen
    BY <1>1, <1>3 DEF DispatchShows, DispatchedOnce, LabelChosen
  <1>16. Following
    <2>1. SweepAgrees
      BY <1>3 DEF SweepAgrees, InMaintenance, Holding
    <2>2. SetIsItsPlan
      BY <1>1, <1>3, <1>4, <1>12 DEF SetIsItsPlan
    <2>3. NoChildLost
      BY <1>3, <1>12 DEF NoChildLost
    <2>4. ChildrenFresh
      BY <1>1, ExecIsNoTask DEF ChildrenFresh, Childlike
    <2> QED
      BY <2>1, <2>2, <2>3, <2>4 DEF Following
  <1> QED
    BY <1>7, <1>8, <1>9, <1>10, <1>11, <1>13, <1>14, <1>15, <1>16
       DEF InboxInv, Typed, Marking

LEMMA WorkerStep ==
  ASSUME InboxInv, Worker, UNCHANGED <<sweepVars, setVars>>
  PROVE  InboxInv'
  <1>1. ASSUME NEW i \in Ids, Claim(i) PROVE InboxInv'
    BY <1>1, ClaimStep
  <1>2. ASSUME NEW ok \in BOOLEAN, FinishExec(ok) PROVE InboxInv'
    BY <1>2, FinishExecStep
  <1>3. ASSUME NEW ok \in BOOLEAN, NEW t \in Task, FinishChild(t, ok) PROVE InboxInv'
    BY <1>3, FinishChildStep
  <1>4. CASE FinishPlanning
    BY <1>4, FinishPlanningStep
  <1>5. CASE FinishPlanningOffline
    BY <1>5, FinishPlanningOfflineStep
  <1> QED
    BY <1>1, <1>2, <1>3, <1>4, <1>5 DEF Worker

LEMMA PeoplesStep ==
  ASSUME InboxInv, People, UNCHANGED <<sweepVars, setVars>>
  PROVE  InboxInv'
  <1>1. ASSUME NEW w \in BOOLEAN, ApplyTrigger(w) PROVE InboxInv'
    BY <1>1, ApplyTriggerStep
  <1>2. ASSUME NEW w \in BOOLEAN, Approve(w) PROVE InboxInv'
    BY <1>2, ApproveStep
  <1>3. CASE EditBody
    BY <1>3, EditBodyStep
  <1>4. CASE EditComment
    BY <1>4, EditCommentStep
  <1>5. ASSUME NEW l \in {"trigger", "approved", "failed", "plan-ready"}, RemoveLabel(l)
        PROVE  InboxInv'
    BY <1>5, RemoveLabelStep
  <1>6. ASSUME NEW i \in Ids, Retry(i) PROVE InboxInv'
    BY <1>6, RetryStep
  <1> QED
    BY <1>1, <1>2, <1>3, <1>4, <1>5, <1>6 DEF People

LEMMA StutteringStep ==
  ASSUME InboxInv, UNCHANGED vars
  PROVE  InboxInv'
  <1>1. /\ UNCHANGED <<issueVars, setVars>> /\ UNCHANGED sweepVars
    BY DEF vars
  <1>2. /\ UNCHANGED <<githubVars, queueVars, parked, shown, ran, cycle, setVars>>
        /\ excused' = excused /\ troubles' = troubles
    BY <1>1, IssueAndSetSame
  <1>3. /\ at' = at /\ seen' = seen /\ held' = held /\ asOf' = asOf /\ mem' = mem
        /\ body' = body /\ comment' = comment /\ rec' = rec
    BY <1>1, <1>2 DEF sweepVars, githubVars, setVars
  <1>4. \A n : IsWritten(n)' <=> IsWritten(n)
    BY <1>2, TextsSame
  <1>5. SweepTyped'
    BY <1>3, <1>4 DEF InboxInv, Typed, SweepTyped
  <1>6. HeldShown'
    BY <1>2, <1>3 DEF InboxInv, Approval, HeldShown
  <1>7. LabelChosen' /\ SweepAgrees'
    BY <1>3 DEF InboxInv, Marking, Following, LabelChosen, SweepAgrees
  <1> QED
    BY <1>2, <1>5, <1>6, <1>7, LookingStep, Beginning

LEMMA NextInboxInv ==
  ASSUME InboxInv, [Next]_vars
  PROVE  InboxInv'
  <1>1. CASE Sweep
    <2>1. CASE Maintain
      BY <2>1, DrainStep, ProbeStep, ReapprovedStep, ReapprovedEventStep, ReplaceStep,
         UnapproveStep, ReadStateStep, RelabelStep DEF Maintain
    <2>2. CASE ~Maintain
      BY <1>1, <2>2, FlushStep, ListStep, MarkingStep, FindCommentStep, VerifyApprovalStep,
         VerifyTriggerStep, VerifyUneditedStep, SubmitTicketStep, SubmitSetStep, RefuseSetStep
         DEF Sweep
    <2> QED
      BY <2>1, <2>2
  <1>2. CASE Worker /\ UNCHANGED <<sweepVars, setVars>>
    BY <1>2, WorkerStep
  <1>3. CASE People /\ UNCHANGED <<sweepVars, setVars>>
    BY <1>3, PeoplesStep
  <1>4. CASE Die
    BY <1>4, DieStep
  <1>5. CASE Restart
    BY <1>5, RestartStep
  <1>6. CASE UNCHANGED vars
    BY <1>6, StutteringStep
  <1> QED
    BY <1>1, <1>2, <1>3, <1>4, <1>5, <1>6 DEF Next

THEOREM InboxInvariant == Spec => []InboxInv
  <1>1. Init => InboxInv
    BY InitInboxInv
  <1>2. InboxInv /\ [Next]_vars => InboxInv'
    BY NextInboxInv
  <1> QED
    BY <1>1, <1>2, PTL DEF Spec

(* Only a text that somebody with write access vouched for, or approved,   *)
(* becomes a ticket, and the issue's own ticket is queued once: whatever   *)
(* people edit and label meanwhile, whatever GitHub call fails or half     *)
(* fails and wherever the daemon dies.                                     *)
THEOREM OneApprovedDispatchHolds == Spec => []OneApprovedDispatch
  <1>1. InboxInv => OneApprovedDispatch
    BY InboxInvIsEnough
  <1> QED
    BY <1>1, InboxInvariant, PTL

(* The children of a recorded set are what its present plan made of them:  *)
(* the type invariant, that none is lost, and that none of an earlier plan *)
(* waits, for plans of any number of tasks.                                *)
THEOREM ChildrenFollowThePlanHolds == Spec => []ChildrenFollowThePlan
  <1>1. InboxInv => ChildrenFollowThePlan
    BY InboxInvIsEnough
  <1> QED
    BY <1>1, InboxInvariant, PTL
=============================================================================
