------------------------------- MODULE AgentRun -------------------------------
(***************************************************************************)
(* The runs of an agent for one ticket (src/agent/session.ts with          *)
(* runEnvelope.ts and runResult.ts), and the transcript they leave for     *)
(* `junco replay` (src/agent/replay.ts).                                   *)
(*                                                                         *)
(* A run makes a session, watches the events it emits, and ends when the   *)
(* prompt comes to an end or an abort has had its grace.  What aborts it   *)
(* is the ticket's deadline, a guard or the operator.  It may be followed  *)
(* by a corrective one in the same worktree and transcript; and the first  *)
(* run of a ticket with a patch may be the fallback for a patch that       *)
(* applied and failed its checks, already part of the review.              *)
(* The transcript is kept as what a replay has made of the lines so far.   *)
(***************************************************************************)
EXTENDS GuardManager, Sequences

CONSTANTS MaxTurns, MaxDeltas, MaxCalls,  \* turns of a run, parts of a turn
          MaxRuns, MaxFaults,             \* runs of a ticket; faults
          Streams, Calls, Tokens          \* what repeats, tool calls, tokens of a turn

ASSUME RunAssumption ==
  /\ {MaxTurns, MaxDeltas, MaxCalls, MaxRuns, MaxFaults} \subseteq Nat
  /\ Streams \subseteq RepKinds /\ Tokens \subseteq Nat

VARIABLES
  run,      \* runAgent: pc, the abort's flags and timers
  gm,       \* its guard manager
  acc,      \* RunAccumulator: its errorMessage
  sdk,      \* the session: where it is in a turn
  zombie,   \* the flow whose session was given up and may still be working
  stop,     \* the ticket's abort signal
  flow,     \* what runs next
  sinkOk,   \* does the transcript sink take lines?
  replay,   \* what replayTranscript makes of the lines of the run under way
  metrics,  \* its decisions as the daemon's metrics count them
  result,   \* the RunResult of the last run
  runs, faults

vars == <<run, gm, acc, sdk, zombie, stop, flow, sinkOk, replay, metrics, result,
          runs, faults>>

NoRun == [pc |-> "none", timedOut |-> FALSE, kill |-> "none", kind |-> "none",
          why |-> "none", grace |-> FALSE]
NoSdk == [pc |-> "off", n |-> 0, msg |-> [k \in RepKinds |-> 0], calls |-> 0,
          call |-> <<>>, aborting |-> FALSE, steers |-> {}, heard |-> {},
          retrying |-> FALSE, failed |-> FALSE]
NoReplay == [gm |-> NewManager, killed |-> FALSE, recorded |-> <<>>,
             replayed |-> <<>>, void |-> FALSE]
NoMetrics == [nudges |-> 0, kills |-> 0]
NoResult == [aborted |-> FALSE, timedOut |-> FALSE, error |-> FALSE,
             stopped |-> FALSE, failed |-> FALSE]

Init ==
  /\ run = NoRun /\ gm = NewManager /\ acc = [error |-> FALSE] /\ sdk = NoSdk
  /\ zombie = "none" /\ stop = FALSE /\ flow = "first" /\ sinkOk = TRUE
  /\ replay = NoReplay /\ metrics = NoMetrics
  /\ result = NoResult /\ runs = 0 /\ faults = 0

-----------------------------------------------------------------------------
(* The transcript, as the replay reads it.                                 *)

Entry(d) == [action |-> d.action, kind |-> d.kind, turn |-> d.turn]

\* Mutant: the guards are fed past a kill.
FedOn(r, e) ==
  LET d == Observe(r.gm, e)
  IN [r EXCEPT !.gm = d.g,
        !.replayed = IF d.action = "none" THEN @ ELSE Append(@, Entry(d))]
\* One observation of the replay, unless it has come to a kill.
Fed(r, e) ==
  LET d == Observe(r.gm, e)
  IN IF r.killed THEN r
     ELSE [r EXCEPT !.gm = d.g, !.killed = d.action = "kill",
            !.replayed = IF d.action = "none" THEN @ ELSE Append(@, Entry(d))]
\* Deltas are not in the transcript: message_end stands for them, a block at a time.
Blocks(r, msg) ==
  Fed(Fed(r, [type |-> "message_update", kind |-> "thinking_rep",
              repeats |-> msg["thinking_rep"]]),
      [type |-> "message_update", kind |-> "text_rep", repeats |-> msg["text_rep"]])
Read(r, e) == IF e.type = "message_end" THEN Blocks(r, e.msg)
              ELSE IF e.type = "message_update" THEN r ELSE Fed(r, e)
Recorded(r, d) == [r EXCEPT !.recorded = Append(@, Entry(d))]

\* Where a replay cannot know what the run knew, it is not followed further:
\* for repetitions (it has the message whole), without the lines of a broken
\* sink, and after a force stop, which no line tells of.
Repeats(ds) == \E i \in DOMAIN ds : ds[i].kind \in RepKinds
Void == [NoReplay EXCEPT !.void = TRUE]
Comparable(r) ==
  IF r.void \/ ~sinkOk \/ Repeats(r.recorded) \/ Repeats(r.replayed) THEN Void ELSE r

-----------------------------------------------------------------------------
(* What runAgent's listener does with an event of the session.             *)

\* Mutant: a retry that succeeds leaves the error of the first attempt.
AccumulatedStale(e) ==
  CASE e.type = "turn_end" -> [acc EXCEPT !.error = @ \/ e.failed]
    [] e.type = "auto_retry_end" -> [acc EXCEPT !.error = @ \/ ~e.success]
    [] OTHER -> acc
Accumulated(e) ==
  CASE e.type = "turn_end" -> [acc EXCEPT !.error = @ \/ e.failed]
    [] e.type = "auto_retry_end" -> [acc EXCEPT !.error = ~e.success]
    [] OTHER -> acc

\* The accumulator and the transcript see every event; the guards none after a
\* kill.  A nudge steers the session, a kill aborts it and arms the grace.
Emit(e, next) ==
  LET d == Observe(gm, e)
      guarded == run.kill = "none" /\ d.action # "none"
      killed == guarded /\ d.action = "kill"
  IN /\ acc' = Accumulated(e)
     /\ gm' = IF run.kill = "none" THEN d.g ELSE gm
     /\ replay' = Comparable(IF guarded THEN Recorded(Read(replay, e), d)
                             ELSE Read(replay, e))
     /\ metrics' = IF ~guarded THEN metrics
                   ELSE IF killed THEN [metrics EXCEPT !.kills = @ + 1]
                   ELSE [metrics EXCEPT !.nudges = @ + 1]
     /\ run' = IF killed THEN [run EXCEPT !.kill = "guard", !.kind = d.kind,
                                          !.why = d.why, !.grace = TRUE] ELSE run
     /\ sdk' = [next EXCEPT !.aborting = @ \/ killed,
                            !.steers = IF guarded /\ ~killed THEN @ \cup {d.kind} ELSE @]
     /\ UNCHANGED <<zombie, stop, flow, sinkOk, result, runs, faults>>

-----------------------------------------------------------------------------
(* The session: a run of turns, each a message, its calls and its end.     *)

Live == run.pc = "running" /\ sdk.pc \notin {"off", "settled"}

MessageBegins ==
  /\ Live /\ sdk.pc = "between" /\ ~sdk.aborting /\ sdk.n < MaxTurns
  /\ Emit([type |-> "message_start"],
          [sdk EXCEPT !.pc = "message", !.msg = [k \in RepKinds |-> 0],
                      !.calls = 0, !.steers = {}, !.heard = @ \cup sdk.steers])

Deltas == sdk.msg["text_rep"] + sdk.msg["thinking_rep"]
Delta(kind) ==
  /\ Live /\ sdk.pc = "message" /\ Deltas < MaxDeltas
  /\ Emit([type |-> "message_update", kind |-> kind, repeats |-> 1],
          [sdk EXCEPT !.msg[kind] = @ + 1])

MessageEnds ==
  /\ Live /\ sdk.pc = "message"
  /\ Emit([type |-> "message_end", msg |-> sdk.msg], [sdk EXCEPT !.pc = "tools"])

ToolStarts(call) ==
  /\ Live /\ sdk.pc = "tools" /\ sdk.calls < MaxCalls /\ ~sdk.aborting
  /\ Emit([type |-> "tool_execution_start", call |-> call],
          [sdk EXCEPT !.pc = "tool", !.calls = @ + 1, !.call = call])

ToolEnds(isError) ==
  /\ Live /\ sdk.pc = "tool"
  /\ Emit([type |-> "tool_execution_end", call |-> sdk.call, isError |-> isError],
          [sdk EXCEPT !.pc = "tools", !.call = <<>>])

\* A turn with calls, or that was steered, is followed by another, and so is one
\* that failed when it is tried again; an aborted one is the last.
GoesOn == ~sdk.aborting /\ sdk.n + 1 < MaxTurns
TurnEnds(tokens, failed, again) ==
  /\ Live /\ sdk.pc \in {"message", "tools"}
  /\ IF failed THEN again => GoesOn
     ELSE again = (GoesOn /\ (sdk.calls > 0 \/ sdk.steers # {}))
  /\ Emit([type |-> "turn_end", tokens |-> tokens, failed |-> failed],
          [sdk EXCEPT !.n = @ + 1, !.failed = failed,
             !.pc = IF sdk.retrying /\ ~(failed /\ again)
                    THEN IF again THEN "retried" ELSE "retrylast"
                    ELSE IF again THEN "between" ELSE "settled",
             !.retrying = failed /\ again])

RetryEnds ==
  /\ Live /\ sdk.pc \in {"retried", "retrylast"}
  /\ Emit([type |-> "auto_retry_end", success |-> ~sdk.failed],
          [sdk EXCEPT !.pc = IF @ = "retried" THEN "between" ELSE "settled"])

\* An abort stops the session between any two events, or it never does.
AbortLands ==
  /\ Live /\ sdk.aborting
  /\ sdk' = [sdk EXCEPT !.pc = "settled"]
  /\ UNCHANGED <<run, gm, acc, zombie, stop, flow, sinkOk, replay, metrics, result,
                 runs, faults>>

PromptRejects ==
  /\ Live /\ faults < MaxFaults
  /\ sdk' = [sdk EXCEPT !.pc = "settled", !.failed = TRUE]
  /\ acc' = [error |-> TRUE] /\ faults' = faults + 1
  /\ UNCHANGED <<run, gm, zombie, stop, flow, sinkOk, replay, metrics, result, runs>>

-----------------------------------------------------------------------------
(* runEnveloped and runAgent around the session.                           *)

SkipsReview(r) == r.aborted \/ r.timedOut

\* What the flow does next: a hard error may be requeued, a critic that finds
\* something missing sends the ticket through one corrective run.  Whether to
\* review was asked before the fallback, and its own end is not.
After(kind, r) ==
  CASE kind = "corrective" -> {"over"}
    [] kind = "fallback" -> {"corrective", "over"}
    [] r.error /\ ~r.aborted /\ ~r.timedOut -> {"first", "over"}
    [] OTHER -> IF SkipsReview(r) THEN {"over"} ELSE {"corrective", "over"}

\* Which of the two a first run is matters when it ends, and is chosen there.
Kinds == IF flow = "corrective" THEN {"corrective"} ELSE {"main", "fallback"}

Returned(kind, r) ==
  /\ result' = r /\ flow' \in After(kind, r)
  /\ run' = NoRun /\ sdk' = NoSdk /\ gm' = NewManager /\ acc' = [error |-> FALSE]
  /\ sinkOk' = TRUE /\ replay' = NoReplay /\ metrics' = NoMetrics
PreAborted == [NoResult EXCEPT !.aborted = TRUE, !.error = TRUE, !.stopped = TRUE]

Start ==
  /\ run.pc = "none" /\ flow # "over" /\ runs < MaxRuns
  /\ runs' = runs + 1
  /\ IF stop THEN \E kind \in Kinds : Returned(kind, PreAborted)
     ELSE /\ run' = [NoRun EXCEPT !.pc = "creating"]
          /\ result' = NoResult
          /\ UNCHANGED <<flow, sdk, gm, acc, sinkOk, replay, metrics>>
  /\ UNCHANGED <<zombie, stop, faults>>

\* The session is there; an abort that came meanwhile ends the run before it.
Created ==
  /\ run.pc = "creating"
  /\ IF stop THEN \E kind \in Kinds : Returned(kind, PreAborted)
     ELSE /\ run' = [run EXCEPT !.pc = "running"]
          /\ sdk' = [NoSdk EXCEPT !.pc = "between"]
          /\ UNCHANGED <<result, flow, gm, acc, sinkOk, replay, metrics>>
  /\ UNCHANGED <<zombie, stop, runs, faults>>

\* The factory throws: the frame is closed and the ticket requeued or failed.
FactoryThrows ==
  /\ run.pc = "creating" /\ faults < MaxFaults /\ faults' = faults + 1
  /\ run' = NoRun /\ flow' \in {"first", "over"} /\ sinkOk' = TRUE
  /\ UNCHANGED <<gm, acc, sdk, zombie, stop, replay, metrics, result, runs>>

\* Mutant: the deadline aborts and arms nothing.
DeadlineUnarmed ==
  /\ Live /\ ~run.timedOut
  /\ run' = [run EXCEPT !.timedOut = TRUE] /\ sdk' = [sdk EXCEPT !.aborting = TRUE]
  /\ UNCHANGED <<gm, acc, zombie, stop, flow, sinkOk, replay, metrics, result, runs,
                 faults>>
Deadline ==
  /\ Live /\ ~run.timedOut
  /\ run' = [run EXCEPT !.timedOut = TRUE, !.grace = TRUE]
  /\ sdk' = [sdk EXCEPT !.aborting = TRUE]
  /\ UNCHANGED <<gm, acc, zombie, stop, flow, sinkOk, replay, metrics, result, runs,
                 faults>>

\* The operator's force stop, heard by a run that is under way.
Stop ==
  /\ ~stop /\ stop' = TRUE /\ sdk.pc # "settled"
  /\ IF Live
     THEN /\ run' = [run EXCEPT !.kill = IF @ = "none" THEN "operator" ELSE @,
                                !.grace = TRUE]
          /\ sdk' = [sdk EXCEPT !.aborting = TRUE]
          /\ replay' = IF run.kill = "guard" THEN replay ELSE Void
     ELSE UNCHANGED <<run, sdk, replay>>
  /\ UNCHANGED <<gm, acc, zombie, flow, sinkOk, metrics, result, runs, faults>>

RunResult ==
  [aborted |-> run.kill # "none", timedOut |-> run.timedOut,
   error |-> acc.error \/ run.kill # "none", stopped |-> stop,
   failed |-> sdk.failed]

\* The prompt came to an end, or the abort's grace did: then the session is
\* disposed of, whatever it is still doing.
Settled ==
  /\ run.pc = "running" /\ sdk.pc = "settled"
  /\ \E kind \in Kinds : Returned(kind, RunResult)
  /\ UNCHANGED <<zombie, stop, runs, faults>>
Wedged ==
  /\ Live /\ run.grace
  /\ \E kind \in Kinds : Returned(kind, RunResult) /\ zombie' = kind
  /\ UNCHANGED <<stop, runs, faults>>

ZombieEnds ==
  /\ zombie # "none" /\ zombie' = "none"
  /\ UNCHANGED <<run, gm, acc, sdk, stop, flow, sinkOk, replay, metrics, result, runs,
                 faults>>

SinkBreaks ==
  /\ sinkOk /\ run.pc # "none" /\ faults < MaxFaults
  /\ sinkOk' = FALSE /\ faults' = faults + 1
  /\ UNCHANGED <<run, gm, acc, sdk, zombie, stop, flow, replay, metrics, result, runs>>

\* The process dies and the ticket is requeued by the next one.
Crash ==
  /\ flow # "over" /\ faults < MaxFaults /\ faults' = faults + 1
  /\ run' = NoRun /\ sdk' = NoSdk /\ gm' = NewManager /\ acc' = [error |-> FALSE]
  /\ zombie' = "none" /\ stop' = FALSE /\ flow' = "first" /\ result' = NoResult
  /\ sinkOk' = TRUE /\ replay' = NoReplay /\ metrics' = NoMetrics
  /\ UNCHANGED runs

Session ==
  \/ MessageBegins \/ MessageEnds \/ RetryEnds \/ AbortLands \/ PromptRejects
  \/ \E kind \in Streams : Delta(kind)
  \/ \E call \in Calls : ToolStarts(call)
  \/ \E isError \in BOOLEAN : ToolEnds(isError)
  \/ \E tokens \in Tokens, failed \in BOOLEAN, again \in BOOLEAN :
       TurnEnds(tokens, failed, again)

Next == \/ Start \/ Created \/ FactoryThrows \/ Session \/ Deadline \/ Stop \/ Settled
        \/ Wedged \/ ZombieEnds \/ SinkBreaks \/ Crash

\* The timers and the continuations of the process go on; nothing is assumed of
\* the session.
Fairness == WF_vars(Created \/ Deadline \/ Settled \/ Wedged)
Spec == Init /\ [][Next]_vars /\ Fairness

-----------------------------------------------------------------------------
(* Properties.                                                             *)

TypeOK ==
  /\ run.pc \in {"none", "creating", "running"} /\ run.timedOut \in BOOLEAN
  /\ run.kill \in {"none", "guard", "operator"} /\ run.grace \in BOOLEAN
  /\ gm.turn \in 0 .. MaxTurns /\ acc.error \in BOOLEAN
  /\ sdk.n \in 0 .. MaxTurns /\ sdk.steers \cup sdk.heard \subseteq NudgedKinds
  /\ flow \in {"first", "corrective", "over"}
  /\ zombie \in {"main", "fallback", "corrective", "none"}
  /\ {stop, sinkOk} \subseteq BOOLEAN
  /\ runs \in 0 .. MaxRuns /\ faults \in 0 .. MaxFaults

\* Only one session works for a ticket at a time: none is started while one
\* that did not heed its abort may still be at work in the worktree - except for
\* the corrective run after a fallback, whose end nobody looks at.
OneSessionAtATime == run.pc # "none" => zombie \in {"none", "fallback"}

\* The nudges a supervisor has charged, of every kind.
Told(g) == g.nudgesUsed["text_rep"] + g.nudgesUsed["thinking_rep"]
           + g.nudgesUsed["tool_call_loop"] + g.nudgesUsed["tool_error_loop"]

\* Counters agree: each nudge the supervisor has charged was sent to the
\* session, and a kill for a repetition the model was told to stop came after
\* the model was told.
NudgesAreReal ==
  run.pc = "running" =>
    /\ Told(gm) = metrics.nudges
    /\ run.why = "ignored" /\ run.kind \in RepKinds => run.kind \in sdk.heard

\* Wherever the transcript tells all that the run knew, a replay of it under the
\* policy of the run has come to the decisions that were made and to no other.
ReplayAgrees == replay.void \/ replay.recorded = replay.replayed

\* What a run reports is what happened: the stop of an operator always shows,
\* and without an abort there is an error if and only if the run ended in one,
\* whatever was tried again on the way.
ResultTellsTheTruth ==
  /\ result.stopped => result.aborted
  /\ ~result.aborted /\ ~result.timedOut => result.error = result.failed

\* The bookkeeping of a run fits what happened: sessions, nudges and result.
RunsAreTruthful ==
  TypeOK /\ OneSessionAtATime /\ NudgesAreReal /\ ResultTellsTheTruth

\* Every run ends, whether or not the model, the session or the abort does.
RunsEnd == (run.pc = "running") ~> (run.pc = "none")
===============================================================================
