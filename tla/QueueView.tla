------------------------------ MODULE QueueView ------------------------------
(***************************************************************************)
(* What the dashboard shows of the queue (queueSnapshot.ts, localSnapshot  *)
(* .ts, taskHistory.ts): every few seconds a tick asks the daemon for      *)
(* /health, reads the queue's directories one after the other and then the *)
(* ledger, probes the endpoint and lands on the screen. The daemon is      *)
(* another process and moves its tickets meanwhile, ticks overlap and land *)
(* in any order, and `delete` goes by what the screen showed. A directory  *)
(* or a file that cannot be read shows less, and nobody is told.           *)
(*                                                                         *)
(* One directory is read in one step, the ledger is one month's, and the   *)
(* five rows of RECENT are enough.                                         *)
(***************************************************************************)
EXTENDS Naturals, FiniteSets

CONSTANTS
    Queued,      \* the tickets
    Inside,      \* <<t, u>>: t's name is found inside u's
    Ticks,       \* bound: the ticks at a time
    Shows        \* what is asked of them: see ShowOf

VARIABLES
    show,        \* one of the Shows: never changes
    box,         \* the directory each ticket's file is in
    run,         \* the daemon's run of it
    up,          \* is the daemon up
    ledger,      \* the records there are, the file's mtime, and if the last two share it
    memo,        \* the reader's copy, the mtime it had, and if it could not be read
    ticks,       \* the ticks
    screen,      \* what landed last
    dialog,      \* a confirmed `delete`
    turns

queueVars == <<show, box, run, up, ledger, memo, ticks, screen, dialog, turns>>

\* The tickets that wait and that run when the dashboard starts, the ticks it has,
\* if the operator deletes, and a bound on what the daemon does and on failed reads.
ShowOf == [wait : SUBSET Queued, runs : SUBSET Queued, ticks : SUBSET Ticks, deletes : BOOLEAN, turns : Nat]
ASSUME QueueViewAssumption ==
    /\ Inside \subseteq Queued \X Queued /\ Shows \subseteq ShowOf /\ Shows # {}

Boxes == {"inbox", "processing", "over", "gone"}   \* over: in done/ or in failed/
Shown == [waiting : SUBSET Queued, running : SUBSET Queued, recent : SUBSET Queued,
          records : Nat]
Blank == [waiting |-> {}, running |-> {}, recent |-> {}, records |-> 0]
\* What /health answered, if it was heard; what happened since the tick began: who
\* moved, who went back or away, and who was claimed after the answer; and where
\* rows are missing because a read failed.
TickStates == [step : {"off", "ask", "inbox", "processing", "over", "probe"},
               heard : BOOLEAN, answer : SUBSET Queued, seen : Shown,
               moved : SUBSET Queued, back : SUBSET Queued, late : SUBSET Queued,
               blind : SUBSET Boxes]
OffTick == [step |-> "off", heard |-> FALSE, answer |-> {}, seen |-> Blank,
            moved |-> {}, back |-> {}, late |-> {}, blind |-> {}]
NoDialog == [step |-> "none"]

QueueViewTypeOK ==
    /\ show \in Shows /\ box \in [Queued -> Boxes] /\ run \in [Queued -> {"none", "runs", "over", "requeued"}]
    /\ up \in BOOLEAN
    /\ ledger \in [records : Nat, mtime : Nat, joined : BOOLEAN]
    /\ memo \in [records : Nat, mtime : Nat, unread : BOOLEAN]
    /\ ticks \in [Ticks -> TickStates] /\ screen \in Shown
    /\ dialog \in [step : {"confirm"}, of : Queued] \cup {NoDialog}
                  \cup [step : {"unlink", "deleted"}, of : Queued, entry : Queued, missed : BOOLEAN]
    /\ turns \in 0 .. show.turns

QueueAtRest ==
    /\ box = [t \in Queued |-> IF t \in show.runs THEN "processing"
                              ELSE IF t \in show.wait THEN "inbox" ELSE "gone"]
    /\ run = [t \in Queued |-> IF t \in show.runs THEN "runs" ELSE "none"] /\ up = TRUE
    /\ ledger = [records |-> 0, mtime |-> 0, joined |-> FALSE]
    /\ memo = [records |-> 0, mtime |-> 0, unread |-> FALSE]
    /\ ticks = [i \in Ticks |-> OffTick] /\ screen = Blank /\ dialog = NoDialog
    /\ turns = 0
QueueViewIdle == show = (CHOOSE s \in Shows : TRUE) /\ QueueAtRest
QueueViewInit == show \in Shows /\ QueueAtRest
-----------------------------------------------------------------------------
(* The daemon. What it does is noted in the ticks there are.               *)

Note(movers, backers, claimed) ==
    ticks' = [i \in Ticks |->
                IF ticks[i].step = "off" THEN ticks[i]
                ELSE [ticks[i] EXCEPT !.moved = @ \cup movers, !.back = @ \cup backers,
                        !.late = IF ticks[i].step = "ask" THEN @ ELSE @ \cup claimed]]
DaemonTurn == turns < show.turns /\ turns' = turns + 1
DashboardRests == UNCHANGED <<show, memo, screen, dialog>>

\* The file, and with it the name in the metrics, in one breath.
TicketClaimed(t) ==
    /\ up /\ DaemonTurn /\ box[t] = "inbox" /\ run[t] = "none"
    /\ box' = [box EXCEPT ![t] = "processing"] /\ run' = [run EXCEPT ![t] = "runs"]
    /\ Note({t}, {}, {t})
    /\ UNCHANGED <<up, ledger>> /\ DashboardRests

\* The file goes first; the report to GitHub is awaited; then the record is
\* written and the name leaves the metrics.
TicketEnds(t, to) ==
    /\ DaemonTurn /\ run[t] = "runs"
    /\ box' = [box EXCEPT ![t] = to]
    /\ run' = [run EXCEPT ![t] = IF to = "inbox" THEN "requeued" ELSE "over"]
    /\ Note({t}, IF to = "inbox" THEN {t} ELSE {}, {})
    /\ UNCHANGED <<up, ledger>> /\ DashboardRests
appendTaskRecord(later) ==
    ledger' = [records |-> ledger.records + 1, joined |-> ~later,
               mtime |-> IF later THEN ledger.mtime + 1 ELSE ledger.mtime]
taskEnded(t) ==
    /\ \/ run[t] = "over" /\ \E later \in BOOLEAN : appendTaskRecord(later)
       \/ run[t] = "requeued" /\ UNCHANGED ledger
    /\ run' = [run EXCEPT ![t] = "none"]
    /\ Note({t}, {}, {})
    /\ UNCHANGED <<box, up, turns>> /\ DashboardRests

DaemonDies ==
    /\ up /\ DaemonTurn /\ up' = FALSE /\ run' = [t \in Queued |-> "none"]
    /\ Note({t \in Queued : run[t] # "none"}, {}, {})
    /\ UNCHANGED <<box, ledger>> /\ DashboardRests
\* recoverOrphans, before there is a /health.
DaemonStarts ==
    LET orphans == {t \in Queued : box[t] = "processing"}
    IN  /\ ~up /\ up' = TRUE
        /\ box' = [t \in Queued |-> IF t \in orphans THEN "inbox" ELSE box[t]]
        /\ Note(orphans, orphans, {})
        /\ UNCHANGED <<run, ledger, turns>> /\ DashboardRests
-----------------------------------------------------------------------------
(* A tick. From the inbox to the probe nothing else of the dashboard runs. *)

TickAt(i, step) == ticks[i].step = step
DaemonRests == UNCHANGED <<box, run, up, ledger>>
QueueRests == DaemonRests /\ UNCHANGED turns
Calm == \A i \in Ticks : ~TickAt(i, "processing") /\ ~TickAt(i, "over")
Goes(i, step) == ticks' = [ticks EXCEPT ![i].step = step]

Fires(i) ==
    /\ Calm /\ TickAt(i, "off") /\ i \in show.ticks
    /\ Goes(i, "ask") /\ QueueRests /\ DashboardRests
\* The names are taken before the server probes the endpoint; off, down or too
\* slow is no answer.
fetchHealthBody(i) ==
    /\ TickAt(i, "ask")
    /\ \/ /\ up
          /\ ticks' = [ticks EXCEPT ![i].step = "inbox", ![i].heard = TRUE,
                                    ![i].answer = {t \in Queued : run[t] # "none"}]
       \/ Goes(i, "inbox")
    /\ QueueRests /\ DashboardRests

In(boxes) == {t \in Queued : box[t] \in boxes}

\* A read is whole, or it fails within the bound.
ReadsWell(whole) == IF whole THEN UNCHANGED turns ELSE DaemonTurn
Blinded(i, boxes, list) == IF list = In(boxes) THEN ticks[i].blind ELSE ticks[i].blind \cup boxes

\* listMd, and parseAt of what it lists.
ReadsInbox(i) ==
    /\ Calm /\ TickAt(i, "inbox")
    /\ \E list \in SUBSET In({"inbox"}), whole \in BOOLEAN :
        /\ ReadsWell(whole) /\ (whole <=> list = In({"inbox"}))
        /\ ticks' = [ticks EXCEPT ![i].step = "processing", ![i].seen.waiting = list,
                                  ![i].blind = Blinded(i, {"inbox"}, list)]
    /\ DaemonRests /\ DashboardRests
ReadsProcessing(i) ==
    /\ TickAt(i, "processing")
    /\ \E list \in SUBSET In({"processing"}), whole \in BOOLEAN :
        /\ ReadsWell(whole) /\ (whole <=> list = In({"processing"}))
        /\ ticks' = [ticks EXCEPT ![i].step = "over",
                       ![i].seen.running = IF ticks[i].heard THEN ticks[i].answer ELSE list,
                       ![i].blind = Blinded(i, {"processing"}, list)]
    /\ DaemonRests /\ DashboardRests

\* A shard that cannot be read is kept as an empty one, under the mtime it has.
makeTaskHistoryReader(read) ==
    memo' = IF memo.mtime = ledger.mtime THEN memo
            ELSE [records |-> IF read THEN ledger.records ELSE 0, mtime |-> ledger.mtime,
                  unread |-> ~read]
ReadsOver(i) ==
    /\ TickAt(i, "over")
    /\ \E list \in SUBSET In({"over"}), whole, read \in BOOLEAN :
        /\ ReadsWell(whole) /\ (whole <=> list = In({"over"}) /\ read)
        /\ makeTaskHistoryReader(read)
        /\ ticks' = [ticks EXCEPT ![i].step = "probe", ![i].seen.recent = list,
                                  ![i].seen.records = memo'.records,
                                  ![i].blind = Blinded(i, {"over"}, list)]
    /\ DaemonRests /\ UNCHANGED <<show, screen, dialog>>

\* Mutant: keepIfEqual by the waiting rows alone.
TickLandsByWaiting(i) ==
    /\ Calm /\ TickAt(i, "probe")
    /\ screen' = IF ticks[i].seen.waiting = screen.waiting THEN screen ELSE ticks[i].seen
    /\ ticks' = [ticks EXCEPT ![i] = OffTick]
    /\ QueueRests /\ UNCHANGED <<show, memo, dialog>>
\* The endpoint's probe is cached, and awaited all the same.
TickLands(i) ==
    /\ Calm /\ TickAt(i, "probe")
    /\ screen' = ticks[i].seen /\ ticks' = [ticks EXCEPT ![i] = OffTick]
    /\ QueueRests /\ UNCHANGED <<show, memo, dialog>>
TickStep(i) ==
    \/ Fires(i) \/ fetchHealthBody(i) \/ ReadsInbox(i) \/ ReadsProcessing(i) \/ ReadsOver(i)
    \/ TickLands(i)
-----------------------------------------------------------------------------
(* `delete`, on a waiting row: the row's id is asked about, and then handed *)
(* to `junco rm`, a process of its own, which takes a name's part as well.  *)

ScreenRests == QueueRests /\ UNCHANGED <<show, memo, screen, ticks>>
AsksDelete(t) ==
    /\ Calm /\ show.deletes /\ dialog = NoDialog /\ t \in screen.waiting
    /\ dialog' = [step |-> "confirm", of |-> t] /\ ScreenRests
Matches(t) == IF box[t] = "inbox" THEN {t} ELSE {u \in In({"inbox"}) : <<t, u>> \in Inside}
runRmCommand ==
    /\ dialog.step = "confirm"
    /\ \/ \E u \in Queued :
            /\ Matches(dialog.of) = {u}
            /\ dialog' = [step |-> "unlink", of |-> dialog.of, entry |-> u,
                          missed |-> box[dialog.of] # "inbox"]
       \/ /\ \A u \in Queued : Matches(dialog.of) # {u}
          /\ dialog' = NoDialog
    /\ ScreenRests
RmUnlinks ==
    /\ dialog.step = "unlink"
    /\ \/ /\ box[dialog.entry] = "inbox"
          /\ box' = [box EXCEPT ![dialog.entry] = "gone"]
          /\ Note({dialog.entry}, {dialog.entry}, {})
          /\ dialog' = [dialog EXCEPT !.step = "deleted"]
       \/ /\ box[dialog.entry] # "inbox" /\ dialog' = NoDialog
          /\ UNCHANGED <<box, ticks>>
    /\ UNCHANGED <<show, run, up, ledger, turns, memo, screen>>

QueueViewNext ==
    \/ \E t \in Queued :
         TicketClaimed(t) \/ taskEnded(t) \/ AsksDelete(t) \/ \E to \in {"over", "inbox"} : TicketEnds(t, to)
    \/ DaemonDies \/ DaemonStarts \/ runRmCommand \/ RmUnlinks
    \/ \E i \in Ticks : TickStep(i)
-----------------------------------------------------------------------------
\* When a tick has read it all: whoever has not moved since it began is shown
\* where it is, and only there. Whoever went forward only is not lost, unless it
\* was claimed between /health's answer and the reading of the inbox. That is for
\* the directories that could be read. The ledger's copy is the ledger, unless
\* its last two records have one mtime or it could not be read under the mtime it
\* has. And what is deleted was asked for, or was taken for what was no longer there.
QueueIsShown ==
    /\ \A i \in Ticks : TickAt(i, "probe") =>
         LET k == ticks[i] IN \A t \in Queued :
           /\ t \notin k.moved =>
                /\ "inbox" \notin k.blind => (t \in k.seen.waiting <=> box[t] = "inbox")
                /\ k.heard => (t \in k.seen.running <=> run[t] # "none")
                /\ ~k.heard /\ "processing" \notin k.blind =>
                     (t \in k.seen.running <=> box[t] = "processing")
                /\ "over" \notin k.blind => (t \in k.seen.recent <=> box[t] = "over")
           /\ t \notin k.back /\ (k.heard => t \notin k.late) /\ box[t] # "gone" /\ k.blind = {} =>
                t \in k.seen.waiting \cup k.seen.running \cup k.seen.recent
    /\ memo.mtime = ledger.mtime => memo.records = ledger.records \/ ledger.joined \/ memo.unread
    /\ dialog.step = "deleted" =>
         /\ box[dialog.entry] = "gone"
         /\ dialog.entry = dialog.of \/ (dialog.missed /\ <<dialog.of, dialog.entry>> \in Inside)

\* When the queue rests the screen comes to show it, but for a ledger that could
\* not be read: its copy stays until the next record.
ScreenTells ==
    /\ screen.waiting = In({"inbox"}) /\ screen.running = In({"processing"})
    /\ screen.recent = In({"over"}) /\ (screen.records = ledger.records \/ ledger.joined \/ memo.unread)
=============================================================================
