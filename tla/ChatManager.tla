----------------------------- MODULE ChatManager -----------------------------
(***************************************************************************)
(* The daemon's chat registry for one repository, over ChatSession: which  *)
(* session object answers, when it is opened, re-opened on a moved         *)
(* checkout, dropped or reset; the prompts; the draft hook that runs after *)
(* each turn; shutdown, and the process dying.                             *)
(***************************************************************************)
EXTENDS ChatSession

CONSTANTS
    Drafting,       \* bound: the prompts whose turns may emit a fence
    MaxGestures     \* bound on what people and failures do besides prompting

VARIABLES
    registry,   \* the session object of the repository, or None
    recheck,    \* its checkout path is to be resolved again when next opened
    opening,    \* the pending build or re-open
    draining,   \* the daemon is shutting down
    slot,       \* the hook's failed drafts, waiting for their retry
    place,      \* what the watchlist says: "here", "moved" or "gone"
    tree,       \* whether the checkout was fast-forwarded
    gestures    \* how many of MaxGestures were made

managerVars == <<sessionVars, registry, recheck, opening, draining, slot, place, tree, gestures>>

Closed == [phase |-> "none", obj |-> None]
Phase(p, o) == [phase |-> p, obj |-> o]

ManagerInit ==
    /\ obj = [o \in Objs |-> Blank]
    /\ call = [c \in Calls |-> Unsent]
    /\ file = NoFile /\ card = [c \in Calls |-> "none"] /\ tool = [c \in Calls |-> "none"]
    /\ draft = [c \in Calls |-> "none"]
    /\ registry = None /\ recheck = FALSE /\ opening = Closed /\ draining = FALSE /\ slot = {}
    /\ place = "here" /\ tree = "old" /\ gestures = 0

Gesture == gestures < MaxGestures /\ gestures' = gestures + 1

\* A continuation is due: it runs before the event loop takes another event.
Getting == {c \in Calls : call[c].at = "getting"}
Due ==
    \/ \E c \in Calls : Admittable(c) \/ call[c].at \in {"dead", "sent"}
    \/ \E o \in Objs : Over(o)
    \/ opening.phase \in {"resolve", "answer"}
    \/ opening.phase \in {"moving", "leaving"} /\ obj[opening.obj].awaiting = <<>>

----------------------------------------------------------------------------
(* get: the registered object at once, or the pending open.                *)

AnswersNow ==
    registry # None /\ (~recheck \/ (opening = Closed /\ Streaming(registry)))
Wanted == IF opening = Closed THEN Phase("resolve", registry) ELSE opening

Unused == {o \in Objs : obj[o].cwd = None}
Fresh(o) == o \in Unused /\ \A u \in Unused : o <= u

\* Whoever waits for an open that fails gets its error.
Refuse ==
    /\ opening' = Closed
    /\ call' = [c \in Calls |-> IF c \in Getting THEN Done(c, "failed") ELSE call[c]]

\* create: the object is registered before its checkout is brought up to date.
Create ==
    /\ opening = Phase("resolve", None)
    /\ \/ \E o \in Objs :
            /\ Fresh(o) /\ place # "gone"
            /\ obj' = [obj EXCEPT ![o].cwd = place]
            /\ registry' = o /\ opening' = Phase("freshen", o)
            /\ UNCHANGED <<call, gestures>>
       \/ place = "gone" /\ Refuse /\ UNCHANGED <<obj, registry, gestures>>
       \/ Gesture /\ Refuse /\ UNCHANGED <<obj, registry>>     \* no checkout there just now
    /\ UNCHANGED <<file, card, tool, draft, recheck, draining, slot, place, tree>>

\* evict: out of the registry first, then drained.
Evict(o, phase) ==
    /\ registry' = None /\ recheck' = FALSE
    /\ Bump(o, "drain") /\ opening' = phase

Reopen ==
    LET o == opening.obj IN
    /\ opening.phase = "resolve" /\ o # None
    /\ \/ place = "gone" /\ Evict(o, Phase("leaving", o)) /\ UNCHANGED gestures
       \/ place \notin {"gone", obj[o].cwd} /\ Evict(o, Phase("moving", o)) /\ UNCHANGED gestures
       \/ /\ place = obj[o].cwd /\ recheck' = FALSE /\ opening' = Phase("freshen", o)
          /\ UNCHANGED <<obj, call, file, card, tool, draft, registry, gestures>>
       \/ /\ Gesture /\ recheck' = FALSE /\ opening' = Phase("answer", o)
          /\ UNCHANGED <<obj, call, file, card, tool, draft, registry>>
    /\ UNCHANGED <<draining, slot, place, tree>>

Left ==
    /\ opening.phase = "leaving" /\ obj[opening.obj].awaiting = <<>> /\ Refuse
    /\ UNCHANGED <<obj, file, card, tool, draft, registry, recheck, draining, slot, place, tree, gestures>>
\* The object of the new path takes over the directory.
Moved ==
    /\ opening.phase = "moving" /\ obj[opening.obj].awaiting = <<>>
    /\ \E o \in Objs :
         /\ Fresh(o)
         /\ obj' = [obj EXCEPT ![o].cwd = "moved", ![o].meta = TRUE]
         /\ file' = MetaFile(o) /\ card' = MetaCards(o)
         /\ registry' = o /\ opening' = Phase("freshen", o)
    /\ UNCHANGED <<call, tool, draft, recheck, draining, slot, place, tree, gestures>>

\* A managed, clean clone that is behind its default branch moves; any other
\* checkout, and one whose fetch or merge fails, stays as it is.
FastForward(before) == {before, "new"}

\* freshen: the fetch and the fast-forward are done, and recorded.
Freshen ==
    LET o == opening.obj IN
    /\ opening.phase = "freshen" /\ ~Due
    /\ opening' = Phase("answer", o)
    /\ tree' \in FastForward(tree)
    /\ file' = MetaFile(o) /\ card' = MetaCards(o)
    /\ obj' = [obj EXCEPT ![o].meta = TRUE, ![o].degraded = @ \/ ~MetaFile(o).there]
    /\ UNCHANGED <<call, tool, draft, registry, recheck, draining, slot, place, gestures>>

----------------------------------------------------------------------------
(* prompt.                                                                 *)

\* With a session in hand: turned away by the gate, or started.
Enter(c, o) ==
    \/ StartPrompt(c, o) /\ UNCHANGED gestures
    \/ /\ Gesture
       /\ call' = [call EXCEPT ![c] = Done(c, "rejected")]
       /\ file' = MetaFile(o) /\ card' = MetaCards(o)
       /\ obj' = [obj EXCEPT ![o].meta = TRUE, ![o].degraded = @ \/ ~MetaFile(o).there]
       /\ UNCHANGED <<tool, draft>>

Send(c) ==
    /\ \/ call[c].at = "idle" /\ c[2] = "operator" /\ ~Due
       \/ call[c].at = "sent"
    /\ \/ /\ draining /\ call' = [call EXCEPT ![c] = Done(c, "failed")]
          /\ UNCHANGED <<obj, file, card, tool, draft, opening, gestures>>
       \/ ~draining /\ AnswersNow /\ Enter(c, registry) /\ UNCHANGED opening
       \/ /\ ~draining /\ ~AnswersNow
          /\ call' = At(c, "getting") /\ opening' = Wanted
          /\ UNCHANGED <<obj, file, card, tool, draft, gestures>>
    /\ UNCHANGED <<registry, recheck, draining, slot, place, tree>>

Answered(c) ==
    /\ opening.phase = "answer" /\ call[c].at = "getting" /\ Enter(c, opening.obj)
    /\ UNCHANGED <<registry, recheck, opening, draining, slot, place, tree>>
AllAnswered ==
    /\ opening.phase = "answer" /\ Getting = {} /\ opening' = Closed
    /\ UNCHANGED <<sessionVars, registry, recheck, draining, slot, place, tree, gestures>>

\* A verb that only opens: a subscriber, a note.
Touch ==
    /\ ~Due /\ ~AnswersNow /\ opening = Closed /\ Gesture /\ opening' = Wanted
    /\ UNCHANGED <<sessionVars, registry, recheck, draining, slot, place, tree>>

----------------------------------------------------------------------------
(* The steps of the registered session, and of those still winding down.   *)

rest == <<registry, recheck, opening, draining, slot, place, tree>>
Keep == UNCHANGED <<rest, gestures>>

\* finishTurn calls the hook; a retry that comes back spends the slot.
Spends(c) == slot' = IF c[2] = "auto_lint" THEN {} ELSE slot
Fences(c) == IF c[1] \in Drafting THEN {"none", "good", "bad"} ELSE {"none"}
TurnOver(c, fence) ==
    /\ ~Due /\ (ModelEnds(c, fence, slot) \/ Wedge(c, fence, slot)) /\ Spends(c)
    /\ UNCHANGED <<registry, recheck, opening, draining, place, tree, gestures>>
DeadTurn(c) ==
    /\ Dead(c, slot) /\ Spends(c)
    /\ UNCHANGED <<registry, recheck, opening, draining, place, tree, gestures>>

\* The hook: the fences are linted and parked, the retry's predecessor is
\* removed, and a first failure sent back to the model.
Hook(c) ==
    LET o == call[c].obj
        failed == call[c].fence = "bad"
        retry == failed /\ c[2] = "operator" /\ call[c].why = "none" IN
    /\ ~Due /\ call[c].at = "linting"
    /\ draft' = [d \in Calls |-> IF d = c THEN IF failed THEN "failed" ELSE "parked"
                                 ELSE IF d \in call[c].prev THEN "gone" ELSE draft[d]]
    /\ Note(o)
    /\ slot' = IF retry THEN {c} ELSE slot
    /\ call' = [[call EXCEPT ![c] = Done(c, IF call[c].why = "none" THEN "ended" ELSE "aborted")]
                 EXCEPT ![<<c[1], "auto_lint">>].at = IF retry /\ ~draining THEN "sent" ELSE @]
    /\ UNCHANGED <<file, card, tool, registry, recheck, opening, draining, place, tree, gestures>>

OfSession ==
    \/ \E o \in Objs : (FinishDrain(o) \/ (~Due /\ WedgedRunEnds(o))) /\ Keep
    \/ \E o \in Objs : FinishReset(o) /\ recheck' = TRUE
                       /\ UNCHANGED <<registry, opening, draining, slot, place, tree, gestures>>
    \/ \E o \in Objs : ~Due /\ (Built(o) \/ Disposed(o)) /\ Keep
    \/ \E o \in Objs : ~Due /\ BuildFails(o) /\ Gesture /\ UNCHANGED rest
    \/ \E c \in Calls : Admit(c) /\ Keep
    \/ \E c \in Calls : ~Due /\ Timeout(c) /\ Keep

Submits ==
    /\ ~Due
    /\ \/ \E c, d \in Calls : Propose(c, d)
       \/ \E c \in Calls : Answer(c, "expired")
       \/ \E c \in Calls : AnswersNow /\ call[c].obj = registry /\ (Answer(c, "declined") \/ Confirm(c))
       \/ \E c \in Calls, how \in {"ran", "failed"} : CliReturns(c, how)
    /\ Keep

----------------------------------------------------------------------------
(* What people do: stop a turn, start over, change the watchlist or the    *)
(* draft; and the daemon's own sweep, shutdown and death.                  *)

Abort ==
    /\ ~Due /\ AnswersNow /\ Gesture /\ AbortSession(registry)
    /\ obj' = [obj EXCEPT ![registry].degraded = @ \/ SilencedBy(registry)]
    /\ UNCHANGED rest
NewChat ==
    /\ ~Due /\ AnswersNow /\ Gesture /\ Bump(registry, "reset") /\ UNCHANGED rest

Reconcile ==
    /\ ~Due /\ ~draining /\ registry # None
    /\ \/ place = "gone" /\ Evict(registry, opening)
       \/ /\ place \notin {"gone", obj[registry].cwd} /\ recheck' = TRUE
          /\ UNCHANGED <<sessionVars, registry, opening>>
    /\ UNCHANGED <<draining, slot, place, tree, gestures>>

\* The checkout moves, or the repository leaves the watchlist and its chat
\* directory and drafts with it.
Rewatch ==
    /\ ~Due /\ Gesture
    /\ \/ place = "here" /\ place' = "moved" /\ UNCHANGED <<file, card, draft>>
       \/ /\ place # "gone" /\ place' = "gone" /\ file' = NoFile /\ card' = [c \in Calls |-> "none"]
          /\ draft' = [d \in Calls |-> IF draft[d] \in {"parked", "failed"} THEN "gone" ELSE draft[d]]
    /\ UNCHANGED <<obj, call, tool, registry, recheck, opening, draining, slot, tree>>
\* The dashboard mends, submits or discards a draft.
OnDraft ==
    /\ ~Due /\ Gesture
    /\ \E d \in Calls : \/ draft[d] = "failed" /\ draft' = [draft EXCEPT ![d] = "parked"]
                        \/ draft[d] = "parked" /\ draft' = [draft EXCEPT ![d] = "gone"]
    /\ UNCHANGED <<obj, call, file, card, tool, rest>>

Drain ==
    /\ ~Due /\ ~draining /\ Gesture /\ draining' = TRUE
    /\ IF registry = None THEN UNCHANGED sessionVars ELSE Bump(registry, "drain")
    /\ UNCHANGED <<registry, recheck, opening, slot, place, tree>>
\* The process ends, with its memory: killed, or done draining or waiting.
Stops ==
    /\ ~Due /\ IF draining THEN UNCHANGED gestures ELSE Gesture
    /\ obj' = [o \in Objs |-> Blank]
    /\ call' = [c \in Calls |-> IF call[c].at \in Waiting THEN [Unsent EXCEPT !.at = "lost"] ELSE [Unsent EXCEPT !.at = call[c].at]]
    /\ tool' = [c \in Calls |-> "none"]
    /\ registry' = None /\ recheck' = FALSE /\ opening' = Closed /\ draining' = FALSE /\ slot' = {}
    /\ UNCHANGED <<file, card, draft, place, tree>>

Continue ==
    \/ Create \/ Reopen \/ Left \/ Moved \/ AllAnswered
    \/ \E c \in Calls : Answered(c) \/ DeadTurn(c)
ManagerNext ==
    \/ Continue \/ Freshen \/ OfSession \/ Submits
    \/ \E c \in Calls : Send(c) \/ Hook(c) \/ \E f \in Fences(c) : TurnOver(c, f)
    \/ Touch \/ Abort \/ NewChat \/ Reconcile \/ Rewatch \/ OnDraft \/ Drain \/ Stops

\* Timers fire; git, the CLI, the linter and the session build come back.  The
\* model need never end a run, nor the operator answer.
Outside(c) ==
    \/ Hook(c)
    \/ Running(c) /\ call[c].why # "none" /\ TurnOver(c, "none")
    \/ ~Due /\ (Answer(c, "expired") \/ \E how \in {"ran", "failed"} : CliReturns(c, how)) /\ Keep
ManagerStep ==
    \/ Continue \/ Freshen \/ OfSession
    \/ \E c \in Calls : Outside(c) \/ (call[c].at = "sent" /\ Send(c))

----------------------------------------------------------------------------
\* Every variable keeps to its values (the session of src/src/chat/chatSession.ts
\* and the registry of chatManager.ts).
ManagerTypeOK ==
    /\ \A o \in Objs : obj[o] \in
         [cwd : {None, "here", "moved"}, meta : BOOLEAN, degraded : BOOLEAN, drained : BOOLEAN,
          build : {"none", "current", "stale"}, sdk : {"none", "idle", "wedged"},
          turn : Calls \cup {None}, ctl : Calls \cup {None}, awaiting : Seq({"drain", "reset"})]
    /\ \A c \in Calls :
         /\ call[c].at \in Waiting \cup Final \cup {"idle"}
         /\ card[c] \in OpenCard \cup SettledCard \cup {"none"}
         /\ tool[c] \in {"none", "asked", "run"}
         /\ draft[c] \in {"none", "parked", "failed", "gone"}
    /\ file.turn \in {"none", "open", "closed", "garbled"}
    /\ registry \in Objs \cup {None} /\ recheck \in BOOLEAN /\ draining \in BOOLEAN
    /\ \A o \in Objs : Streaming(o) => call[obj[o].turn].obj = o /\ call[obj[o].turn].at \in {"running", "dead"}
    /\ \A c \in Calls : tool[c] = "asked" => Running(c)

\* The turn records of transcript.jsonl alternate, and a turn_start with no end
\* behind it is a turn in flight, or what a dead process left and the next one
\* has not opened yet (ensureMeta stamps it then): settle, the drain, the crash
\* stamp and the prompts that never started each close what is theirs and
\* nothing else.
TurnRecordsMatch ==
    /\ file.turn # "garbled"
    /\ file.turn = "open" => \/ \E o \in Objs : Streaming(o)
                             \/ \A o \in Objs : ~obj[o].meta

\* At most one turn of the repository's chat runs at a time: two prompts that
\* arrive together become one turn and a steer, and a session that replaces
\* another starts after the other's turn is over.
OneTurn == Cardinality({c \in Calls : Running(c)}) <= 1

\* A proposal that is open in the transcript has somebody who will settle it:
\* the confirmation, the CLI run, or the next daemon's ensureMeta.
OpenCardIsAnswerable ==
    \A c \in Calls :
        /\ card[c] = "proposed" => tool[c] = "asked" \/ \A o \in Objs : ~obj[o].meta
        /\ card[c] = "running" => tool[c] = "run" \/ \A o \in Objs : ~obj[o].meta

\* A settled proposal keeps its verdict (until the transcript is archived).
VerdictsStand ==
    [][\A c \in Calls : 
        card[c] \in SettledCard /\ tool[c] # "run" => card'[c] \in {card[c], "none"}]_managerVars

\* Mid-conversation the tree holds still, for every session but the one whose own
\* opening moves it: a prompt may get in there before the fast-forward is done.
TreeHoldsStill == [][tree' # tree => \A o \in Objs : Streaming(o) => o = opening.obj]_managerVars

\* Every prompt the daemon takes comes to an end -- each is sent once, so in the
\* end none is waiting: the model may hang, ignore the abort or sit on a
\* confirmation nobody answers.
Unanswered == \E c \in Calls : call[c].at \in Waiting
PromptsEnd == ~Unanswered

=============================================================================
