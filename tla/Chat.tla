-------------------------------- MODULE Chat --------------------------------
(***************************************************************************)
(* The chat, looked at in three ways that share no state: the daemon's     *)
(* sessions (ChatManager), the turn as it is streamed (LiveTurn), and a    *)
(* dashboard that follows the transcript (ChatStream). A behaviour works   *)
(* on one of them and leaves the others at rest.                           *)
(***************************************************************************)
EXTENDS ChatManager, LiveTurn, ChatStream

CONSTANT Views  \* the ways a run looks at the chat

ASSUME ChatAssumption == Views \subseteq {"sessions", "turn", "stream"} /\ Views # {}

VARIABLE looking

vars == <<managerVars, liveVars, streamVars, looking>>

Init ==
    /\ ManagerInit /\ LiveInit /\ StreamInit /\ looking \in Views
    /\ looking # "turn" => thinkTags = "off" /\ ~Watching

Next ==
    \/ looking = "sessions" /\ ManagerNext /\ UNCHANGED <<liveVars, streamVars, looking>>
    \/ looking = "turn" /\ LiveNext /\ UNCHANGED <<managerVars, streamVars, looking>>
    \/ looking = "stream" /\ StreamNext /\ UNCHANGED <<managerVars, liveVars, looking>>

\* Timers fire, what is awaited comes back, and the client follows the stream;
\* a daemon that stopped is started again. Nobody has to prompt or to answer.
InSessions(A) == looking = "sessions" /\ A /\ UNCHANGED <<liveVars, streamVars, looking>>
InStream(A) == looking = "stream" /\ A /\ UNCHANGED <<managerVars, liveVars, looking>>
Fairness ==
    /\ WF_vars(InSessions(ManagerStep))
    /\ WF_vars(InStream(Follow)) /\ WF_vars(InStream(Restart)) /\ WF_vars(InStream(OpenSession))

Spec == Init /\ [][Next]_vars /\ Fairness
-----------------------------------------------------------------------------
TypeOK ==
    /\ looking \in Views
    /\ looking = "sessions" => ManagerTypeOK
    /\ looking = "turn" => LiveTypeOK
    /\ looking = "stream" => StreamTypeOK

\* What the transcript says of turns and cards agrees with what runs: records
\* in pairs, one turn at a time, and no open card that nobody will settle
\* (ChatManager).
TranscriptTellsTheTruth == TypeOK /\ TurnRecordsMatch /\ OneTurn /\ OpenCardIsAnswerable

\* What a dashboard shows is what was said: the turn it watches, from whichever
\* snapshot it started (LiveTurn), and the transcript behind it, through lost
\* connections, resets and restarts of the daemon (ChatStream).
PaneShowsTheChat ==
    /\ looking = "turn" => TurnIsWhole /\ ViewFollows
    /\ looking = "stream" => RingIsTrue /\ PaneIsTrue

\* What people were shown stays as it was shown (ChatManager).
ShownStays == VerdictsStand /\ TreeHoldsStill

\* Every prompt ends (ChatManager), and a pane that is not refused gets to the
\* end of what there is to see (ChatStream).
ChatSettles ==
    <>[](/\ looking = "sessions" => PromptsEnd
         /\ looking = "stream" => PaneCatchesUp)
=============================================================================
