------------------------------ MODULE ChatStream ------------------------------
(***************************************************************************)
(* A dashboard following a repository's chat: the daemon's transcript and  *)
(* bus, the event stream that replays the one and carries the other, the   *)
(* client that reconnects it, and the pane's ring, live turn and card.     *)
(* The transcript of one session is a log; /chat/new begins another.       *)
(*                                                                         *)
(* An offset is a position in the log. A turn is ended only once the       *)
(* command it proposed is settled; the ways out of that are ChatSession's. *)
(***************************************************************************)
EXTENDS Integers, Sequences, SequencesExt, FiniteSets

CONSTANTS
    RingSize,       \* CHAT_RING: records the pane keeps
    MaxDeltas,      \* bound on the bus records of a turn
    MaxLag,         \* bound on the frames on their way when another is published
    MaxMoves        \* bound on the turns, the failures and what people do, together

ASSUME ChatStreamAssumption ==
    RingSize \in Nat \ {0} /\ {MaxDeltas, MaxLag, MaxMoves} \subseteq Nat

VARIABLES
    logs,       \* the records of every session so far; the last is current
    kept,       \* how many of the current session's records are in its file
    degraded,   \* an append failed: no further record is written
    deltas,     \* bus records published in the running turn
    daemon,     \* "up", "closed" (up, and the session's file not opened yet) or "down"
    attached,   \* the daemon has the client among its subscribers
    phase,      \* the client's subscription
    lastId,     \* the client's Last-Event-ID, and the session it is from
    route,      \* what the answering route holds until the headers are out
    pipe,       \* frames on their way to the client
    ring,       \* the pane's records, each <<session, position>>
    pane,       \* lastOffset, live turn, pending card, overflowed, and why it ended
    excused,    \* the pane resumed where the stream could not carry it on
    moves       \* how many of MaxMoves were made

streamVars == <<logs, kept, degraded, deltas, daemon, attached, phase, lastId, route, pipe, ring, pane,
                excused, moves>>
daemonVars == <<logs, kept, degraded, deltas, daemon>>
clientVars == <<phase, lastId, ring, pane, excused>>

Session == Len(logs)
Log == logs[Session]
NoRoute == [replay |-> <<>>, pending |-> <<>>]
NoId == [at |-> 0, of |-> 0]
NoLive == [turn |-> 0, got |-> {}]
BlankPane == [offset |-> 0, live |-> NoLive, card |-> "none", overflowed |-> FALSE, ended |-> "no"]

StreamInit ==
    /\ logs = << <<>> >> /\ kept = 0 /\ degraded = FALSE /\ deltas = 0 /\ daemon = "closed"
    /\ attached = FALSE /\ phase = "closed" /\ lastId = NoId /\ route = NoRoute /\ pipe = <<>>
    /\ ring = <<>> /\ pane = BlankPane /\ excused = FALSE /\ moves = 0

Move == moves < MaxMoves /\ moves' = moves + 1

-----------------------------------------------------------------------------
(* What a log says of its turns and of its command.                        *)

Turns(log) == SelectSeq(log, LAMBDA r : r \in {"start", "end", "aborted"})
InTurn(log) == Turns(log) # <<>> /\ Last(Turns(log)) = "start"
CardOf(log) ==
    LET cards == SelectSeq(log, LAMBDA r : r \in {"proposed", "running", "settled"})
    IN  IF cards = <<>> \/ Last(cards) = "settled" THEN "none" ELSE Last(cards)
Starts(logsSoFar) ==
    FoldLeft(LAMBDA n, log : n + Len(SelectSeq(log, LAMBDA r : r = "start")), 0, logsSoFar)
Turn == Starts(logs)

-----------------------------------------------------------------------------
(* The daemon: writeRecord persists and publishes, and to a subscriber     *)
(* whose headers are not out the route keeps what it is given.             *)

Publish(frames) ==
    /\ route' = IF attached /\ phase = "subscribed"
                THEN [route EXCEPT !.pending = @ \o frames] ELSE route
    /\ pipe' = IF attached /\ phase = "open" THEN pipe \o frames ELSE pipe

\* The frames of the session's records `all` after the first `from`.
TurnAt(all, i) == Starts(SubSeq(logs, 1, Session - 1) \o <<SubSeq(all, 1, i)>>)
Frames(all, from, ids) ==
    [j \in 1 .. Len(all) - from |->
        [type |-> "record", of |-> Session, at |-> from + j, id |-> IF ids THEN from + j ELSE 0,
         kind |-> all[from + j], turn |-> TurnAt(all, from + j)]]

\* Several records in a row, and then `after` on the same stream.
WriteThen(recs, after) ==
    /\ logs' = [logs EXCEPT ![Session] = @ \o recs]
    /\ kept' = IF degraded THEN kept ELSE kept + Len(recs)
    /\ Publish(Frames(Log \o recs, Len(Log), ~degraded) \o after)
Write(recs) == WriteThen(recs, <<>>)

Serving == daemon = "up"
Room == Len(pipe) <= MaxLag /\ Len(route.pending) <= MaxLag

\* ensureMeta: the header of a new file, and a stamp for what a crash cut off.
Dangling ==
    LET file == SubSeq(Log, 1, kept) IN
    (IF InTurn(file) THEN <<"aborted">> ELSE <<>>)
        \o (IF CardOf(file) # "none" THEN <<"settled">> ELSE <<>>)
Stamp == IF kept = 0 THEN <<"meta">> ELSE Dangling
OpenSession ==
    /\ daemon = "closed" /\ daemon' = "up"
    /\ Write(Stamp)
    /\ UNCHANGED <<degraded, deltas, attached, clientVars, moves>>

StartTurn ==
    /\ Serving /\ Room /\ ~InTurn(Log) /\ Move
    /\ Write(<<"start">>) /\ deltas' = 0
    /\ UNCHANGED <<degraded, daemon, attached, clientVars>>

\* emitSdk of a provider chunk: on the bus only.
StreamDelta ==
    /\ Serving /\ Room /\ InTurn(Log) /\ deltas < MaxDeltas
    /\ deltas' = deltas + 1
    /\ Publish(<<[type |-> "delta", turn |-> Turn, n |-> deltas + 1]>>)
    /\ UNCHANGED <<logs, kept, degraded, daemon, attached, clientVars, moves>>

\* junco_submit's card: proposed, answered with a run, and settled.
ProposeSubmit ==
    /\ Serving /\ Room /\ InTurn(Log) /\ CardOf(Log) = "none" /\ Last(Log) = "start"
    /\ Write(<<"proposed">>)
    /\ UNCHANGED <<degraded, deltas, daemon, attached, clientVars, moves>>
RunSubmit ==
    /\ Serving /\ Room /\ CardOf(Log) = "proposed"
    /\ Write(<<"running">>)
    /\ UNCHANGED <<degraded, deltas, daemon, attached, clientVars, moves>>
SettleSubmit ==
    /\ Serving /\ Room /\ CardOf(Log) # "none"
    /\ Write(<<"settled">>)
    /\ UNCHANGED <<degraded, deltas, daemon, attached, clientVars, moves>>

EndTurn ==
    /\ Serving /\ Room /\ InTurn(Log) /\ CardOf(Log) = "none"
    /\ Write(<<"end">>) /\ deltas' = 0
    /\ UNCHANGED <<degraded, daemon, attached, clientVars, moves>>

\* What aborting the turn writes. A command already running is not aborted.
Aborted ==
    (IF CardOf(Log) = "proposed" THEN <<"settled">> ELSE <<>>)
        \o (IF InTurn(Log) THEN <<"aborted">> ELSE <<>>)
EndFrame(reason) == <<[type |-> "end", reason |-> reason]>>

\* reset: the turn ends, the subscribers are ended, the directory is archived.
Reset ==
    /\ Serving /\ CardOf(Log) # "running" /\ Move
    /\ logs' = Append([logs EXCEPT ![Session] = @ \o Aborted], <<>>)
    /\ kept' = 0 /\ degraded' = FALSE /\ deltas' = 0 /\ daemon' = "closed"
    /\ Publish(Frames(Log \o Aborted, Len(Log), ~degraded) \o EndFrame("session_reset"))
    /\ attached' = FALSE /\ UNCHANGED clientVars

\* drain, and the daemon exits; or it just dies.
Stop ==
    /\ Serving /\ CardOf(Log) # "running" /\ Move
    /\ WriteThen(Aborted, EndFrame("daemon_stopped"))
    /\ deltas' = 0 /\ daemon' = "down" /\ attached' = FALSE
    /\ UNCHANGED <<degraded, clientVars>>
Crash ==
    /\ daemon # "down" /\ Move
    /\ daemon' = "down" /\ deltas' = 0 /\ attached' = FALSE
    /\ UNCHANGED <<logs, kept, degraded, clientVars, route, pipe>>

\* What a degraded session did not write is gone: the file is all there is.
Restart ==
    /\ daemon = "down" /\ daemon' = "closed" /\ degraded' = FALSE
    /\ logs' = [logs EXCEPT ![Session] = SubSeq(@, 1, kept)]
    /\ excused' = (excused \/ degraded)
    /\ UNCHANGED <<kept, deltas, attached, phase, lastId, ring, pane, route, pipe, moves>>

\* An append fails: the subscribers are told, and no file is written any more.
Degrade ==
    /\ Serving /\ Room /\ ~degraded /\ Move /\ degraded' = TRUE
    /\ Publish(<<[type |-> "degraded"]>>)
    /\ UNCHANGED <<logs, kept, deltas, daemon, attached, clientVars>>

-----------------------------------------------------------------------------
(* The client's loop: fetch, read, and on any failure fetch again from the *)
(* last id it saw. `end` is the pane's to follow up.                       *)

\* manager.subscribe: replay, snapshot and attachment are one step, and an
\* offset of another session's file means nothing in this one.
\* Mutant: the client's offset is ignored.
ReplayAll(since) == Frames(SubSeq(Log, 1, kept), 0, TRUE)
Replay(since) == Frames(SubSeq(Log, 1, kept), since, TRUE)
Snapshot ==
    IF Serving /\ InTurn(Log)
    THEN <<[type |-> "partial", turn |-> Turn, n |-> deltas]>> ELSE <<>>
Crossed == lastId.at > 0 /\ lastId.of # Session
Missed == kept < Len(Log)

Subscribe ==
    /\ phase = "fetching" /\ Serving
    /\ \E since \in (IF Crossed THEN 0 .. kept ELSE {lastId.at}) :
        route' = [replay |-> Replay(since) \o Snapshot, pending |-> <<>>]
    /\ phase' = "subscribed" /\ attached' = TRUE
    /\ excused' = (excused \/ Crossed \/ Missed)
    /\ UNCHANGED <<daemonVars, lastId, pipe, ring, pane, moves>>

\* The headers are out: replay and snapshot first, then what came meanwhile.
Response == route.replay \o route.pending
Respond ==
    /\ phase = "subscribed"
    /\ attached \/ (route.pending # <<>> /\ Last(route.pending).type = "end")
    /\ phase' = "open" /\ pipe' = Response /\ route' = NoRoute
    /\ UNCHANGED <<daemonVars, attached, lastId, ring, pane, excused, moves>>

\* A refusal is an answer: the client gives up until the chat is opened again.
RefuseStream ==
    /\ phase = "fetching" /\ Serving /\ Move /\ phase' = "down"
    /\ UNCHANGED <<daemonVars, attached, lastId, route, pipe, ring, pane, excused>>

\* The connection breaks, with whatever was still on its way.
Break ==
    /\ phase' = "backoff" /\ attached' = FALSE /\ route' = NoRoute /\ pipe' = <<>>
    /\ UNCHANGED <<daemonVars, lastId, ring, pane, excused>>
Drop == phase \in {"subscribed", "open"} /\ attached /\ Move /\ Break
Cut ==
    \/ phase = "fetching" /\ daemon = "down" /\ Break /\ UNCHANGED moves
    \/ phase \in {"subscribed", "open"} /\ ~attached /\ Break /\ UNCHANGED moves

Retry ==
    /\ phase = "backoff" /\ phase' = "fetching"
    /\ UNCHANGED <<daemonVars, attached, lastId, route, pipe, ring, pane, excused, moves>>

-----------------------------------------------------------------------------
(* The pane: what a record does to the ring, the live turn and the card.   *)

Batch == IF RingSize \div 10 > 1 THEN RingSize \div 10 ELSE 1
Pushed(rec) ==
    LET all == Append(ring, rec)
        over == Len(all) - RingSize + Batch - 1
    IN  IF Len(all) > RingSize THEN SubSeq(all, over + 1, Len(all)) ELSE all

LiveAfter(f) ==
    IF f.kind = "start" THEN [turn |-> f.turn, got |-> {}]
    ELSE IF f.kind \in {"end", "aborted"} THEN NoLive ELSE pane.live
CardAfter(kind) ==
    IF kind \in {"proposed", "running"} THEN kind ELSE IF kind = "settled" THEN "none" ELSE pane.card

OnRecord(f) ==
    /\ ring' = Pushed(<<f.of, f.at>>)
    /\ lastId' = IF f.id = 0 THEN lastId ELSE [at |-> f.id, of |-> f.of]
    /\ pane' = [pane EXCEPT !.offset = IF f.id = 0 THEN @ ELSE f.id,
                            !.live = LiveAfter(f), !.card = CardAfter(f.kind),
                            !.overflowed = @ \/ Len(ring) = RingSize]
    /\ UNCHANGED phase

\* Told that the file is no longer written, the pane keeps a line of it in the ring.
NoRecord == <<0, 0>>
OnDegraded ==
    /\ ring' = Pushed(NoRecord)
    /\ pane' = [pane EXCEPT !.overflowed = @ \/ Len(ring) = RingSize]
    /\ UNCHANGED <<lastId, phase>>

OnDelta(f) ==
    IF pane.live.turn = f.turn /\ \A n \in pane.live.got : n < f.n
    THEN [pane.live EXCEPT !.got = @ \cup {f.n}] ELSE pane.live
OnPartial(f) == [turn |-> f.turn, got |-> 1 .. f.n]

OnLive(f) ==
    /\ pane' = [pane EXCEPT !.live = IF f.type = "delta" THEN OnDelta(f) ELSE OnPartial(f)]
    /\ UNCHANGED <<ring, lastId, phase>>

OnEnd(f) ==
    /\ pane' = [pane EXCEPT !.ended = f.reason] /\ phase' = "timer"
    /\ UNCHANGED <<ring, lastId>>

Deliver ==
    /\ phase = "open" /\ pipe # <<>>
    /\ LET f == Head(pipe) IN
        CASE f.type = "record" -> OnRecord(f)
          [] f.type \in {"delta", "partial"} -> OnLive(f)
          [] f.type = "end" -> OnEnd(f)
          [] f.type = "degraded" -> OnDegraded
    /\ pipe' = Tail(pipe)
    /\ UNCHANGED <<daemonVars, attached, route, excused, moves>>

\* The pane's timer: a reset session is read from its start, any other end is
\* taken up where it stopped.
Resubscribe ==
    /\ phase = "timer" /\ phase' = "fetching"
    /\ IF pane.ended = "session_reset"
       THEN ring' = <<>> /\ pane' = BlankPane /\ lastId' = NoId /\ excused' = FALSE
       ELSE /\ pane' = [pane EXCEPT !.ended = "no"]
            /\ UNCHANGED <<ring, lastId, excused>>
    /\ UNCHANGED <<daemonVars, attached, route, pipe, moves>>

\* The operator opens the chat, or closes it and opens it again.
OpenChat ==
    /\ phase = "closed" \/ (phase \notin {"closed"} /\ Move)
    /\ phase = "closed" => UNCHANGED moves
    /\ phase' = "fetching" /\ attached' = FALSE /\ route' = NoRoute /\ pipe' = <<>>
    /\ ring' = <<>> /\ pane' = BlankPane /\ lastId' = NoId /\ excused' = FALSE
    /\ UNCHANGED daemonVars

StreamNext ==
    \/ OpenSession \/ StartTurn \/ StreamDelta \/ ProposeSubmit \/ RunSubmit \/ SettleSubmit \/ EndTurn
    \/ Reset \/ Stop \/ Crash \/ Restart \/ Degrade
    \/ Subscribe \/ Respond \/ RefuseStream \/ Drop \/ Cut \/ Retry
    \/ Deliver \/ Resubscribe \/ OpenChat

\* The client's own steps and the daemon's answers to it; a daemon that stopped
\* is started again. Nobody has to prompt, and no failure has to happen.
Follow == Subscribe \/ Respond \/ Cut \/ Retry \/ Deliver \/ Resubscribe

-----------------------------------------------------------------------------
StreamTypeOK ==
    /\ kept \in 0 .. Len(Log) /\ daemon \in {"up", "closed", "down"}
    /\ phase \in {"closed", "fetching", "subscribed", "open", "backoff", "timer", "down"}
    /\ attached => Serving /\ phase \in {"subscribed", "open"}
    /\ moves \in 0 .. MaxMoves /\ Len(ring) <= RingSize

\* The transcript's records in the ring, and the log up to the last of them.
Records == SelectSeq(ring, LAMBDA r : r # NoRecord)
Seen == SubSeq(logs[Last(Records)[1]], 1, Last(Records)[2])

\* The ring is a stretch of one session's transcript, without a gap or a record
\* twice, and from its start unless the ring overflowed (useChat.ts:341-357).
RingIsTrue ==
    ~excused =>
        \A i \in DOMAIN Records :
            /\ Records[i][1] = Records[1][1] /\ Records[i][2] = Records[1][2] + i - 1
            /\ pane.overflowed \/ Records[1][2] = 1

\* The live turn is the one that record left open, and shows its stream from the
\* start without a hole; the card is the command that record left open.
PaneIsTrue ==
    Records # <<>> /\ ~excused =>
        /\ InTurn(Seen) <=> pane.live # NoLive
        /\ \E n \in 0 .. MaxDeltas : pane.live.got = 1 .. n
        /\ pane.card = CardOf(Seen)

\* Whatever broke, the pane gets to the end of the transcript and of the turn,
\* unless it was refused.
CaughtUp ==
    /\ Records # <<>> /\ Last(Records) = <<Session, Len(Log)>>
    /\ deltas > 0 => pane.live.got = 1 .. deltas
PaneCatchesUp == CaughtUp \/ excused \/ phase \in {"closed", "down"}
=============================================================================
