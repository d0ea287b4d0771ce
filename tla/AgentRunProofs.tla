---------------------------- MODULE AgentRunProofs ----------------------------
(***************************************************************************)
(* Proofs about the runs of an agent (AgentRun, GuardManager): that the    *)
(* bookkeeping of a run tells what happened (RunsAreTruthful), and that a  *)
(* replay of its transcript comes to the same decisions (ReplayAgrees).    *)
(*                                                                         *)
(* The reducer of the guards is reasoned about first: what the answer to   *)
(* each event may be and what it leaves of the manager.  The invariant     *)
(* then follows the manager, the session and the replay side by side: the  *)
(* replay has the manager of the run at every point at which both have     *)
(* seen the same, which is everywhere but inside a message.                *)
(***************************************************************************)
EXTENDS AgentRun, TLAPS

-----------------------------------------------------------------------------
(* The values of the state.                                                *)

Names == {call[1] : call \in Calls} \cup {""}
Notes == [kind : NudgedKinds, turn : Nat]
Manager ==
  [turn : Nat, lastCall : Calls \cup {<<>>}, runLen : Nat, lastName : Names,
   errors : Nat, commits : BOOLEAN, buf : [RepKinds -> Nat],
   nudgesUsed : [NudgedKinds -> Nat], recent : SUBSET Notes,
   repNudgeTurn : SUBSET RepKinds]
Reasons == {"none", "ignored", "spent", "recovery", "runaway", "budget"}
GuardKinds == NudgedKinds \cup {"none", "output_budget"}
Answer == [g : Manager, action : {"none", "nudge", "kill"}, kind : GuardKinds,
           turn : Nat, why : Reasons]
Entries == [action : {"none", "nudge", "kill"}, kind : GuardKinds, turn : Nat]

RunStates ==
  [pc : {"none", "creating", "running"}, timedOut : BOOLEAN,
   kill : {"none", "guard", "operator"}, kind : GuardKinds, why : Reasons,
   grace : BOOLEAN]
InTurn == {"message", "tools", "tool"}
Places == InTurn \cup {"off", "between", "retried", "retrylast", "settled"}
Sessions ==
  [pc : Places, n : Nat, msg : [RepKinds -> Nat], calls : Nat,
   call : Calls \cup {<<>>}, aborting : BOOLEAN, steers : SUBSET NudgedKinds,
   heard : SUBSET NudgedKinds, retrying : BOOLEAN, failed : BOOLEAN]
Replays ==
  [gm : Manager, killed : BOOLEAN, recorded : Seq(Entries),
   replayed : Seq(Entries), void : BOOLEAN]
Results == [aborted : BOOLEAN, timedOut : BOOLEAN, error : BOOLEAN,
            stopped : BOOLEAN, failed : BOOLEAN]

TypesHold ==
  /\ run \in RunStates /\ gm \in Manager /\ acc \in [error : BOOLEAN]
  /\ sdk \in Sessions /\ replay \in Replays /\ metrics \in [nudges : Nat, kills : Nat]
  /\ result \in Results /\ stop \in BOOLEAN /\ sinkOk \in BOOLEAN
  /\ flow \in {"first", "corrective", "over"}
  /\ zombie \in {"main", "fallback", "corrective", "none"}
  /\ runs \in 0 .. MaxRuns /\ faults \in 0 .. MaxFaults

-----------------------------------------------------------------------------
(* The invariant.                                                          *)

\* Before and after a run there is nothing of it left.
FreshHolds ==
  run.pc # "running" =>
    /\ run = [NoRun EXCEPT !.pc = run.pc] /\ sdk = NoSdk /\ gm = NewManager
    /\ acc = [error |-> FALSE] /\ replay = NoReplay /\ metrics = NoMetrics

\* The turns of the guards are turns of the session, which has one to come in
\* every turn it is in.
TurnsHold ==
  /\ run.pc = "running" => sdk.pc # "off"
  /\ gm.turn <= sdk.n /\ sdk.n <= MaxTurns
  /\ sdk.pc \in InTurn => sdk.n < MaxTurns
  /\ sdk.pc = "tool" => sdk.call \in Calls

\* A flow whose session was given up is over, unless it was the fallback's.
ZombieHolds == zombie \in {"main", "corrective"} => flow = "over" /\ run.pc = "none"

\* Whatever is being aborted has a reason, and a stop is one for every run.
AbortsHold ==
  /\ sdk.aborting \/ run.grace => run.kill # "none" \/ run.timedOut
  /\ run.pc = "running" /\ stop => run.kill # "none"

\* A nudge that counts as recent was heard by the model, or is on its way to it
\* and known to this turn.
HeardHolds ==
  /\ \A r \in gm.recent :
       r.kind \in RepKinds =>
         \/ r.kind \in sdk.heard
         \/ /\ r.kind \in sdk.steers
            /\ sdk.pc \in InTurn => r.kind \in gm.repNudgeTurn
  /\ run.why = "ignored" /\ run.kind \in RepKinds => run.kind \in sdk.heard

\* The accumulated error is the one of the run: none is left of an attempt that
\* was tried again.
ErrorsHold ==
  /\ sdk.pc \in InTurn \cup {"between"} /\ ~sdk.retrying => ~acc.error
  /\ sdk.pc = "retried" => ~sdk.failed
  /\ sdk.pc \in {"retried", "retrylast"} => ~sdk.retrying
  /\ sdk.pc = "settled" /\ run.kill = "none" /\ ~run.timedOut =>
       acc.error = sdk.failed

\* The replay has come to the same decisions, and to a kill if the run has; until
\* then it has the manager of the run, but for the message under way.
ReplayHolds ==
  ~replay.void =>
    /\ replay.recorded = replay.replayed
    /\ replay.killed <=> run.kill # "none"
    /\ run.kill = "none" /\ sdk.pc # "settled" =>
         IF sdk.pc = "message"
         THEN /\ replay.gm = Cleared(gm) /\ gm.buf = sdk.msg
              /\ \A k \in RepKinds : sdk.msg[k] < RepeatsAt
         ELSE replay.gm = gm

RunInv ==
  /\ TypesHold /\ FreshHolds /\ TurnsHold /\ ZombieHolds /\ AbortsHold
  /\ Told(gm) = metrics.nudges /\ HeardHolds /\ ErrorsHold /\ ReplayHolds
  /\ ResultTellsTheTruth

-----------------------------------------------------------------------------
(* The guards.                                                             *)

\* What every answer is: it charges a nudge if it is one and else none, what it
\* adds to the recent ones is that nudge, and a nudge was ignored only if there
\* was one.
Sound(g, d) ==
  /\ d \in Answer
  /\ Told(d.g) = Told(g) + (IF d.action = "nudge" THEN 1 ELSE 0)
  /\ d.action = "nudge" => d.kind \in NudgedKinds
  /\ \A r \in d.g.recent : r \in g.recent \/ (d.action = "nudge" /\ r.kind = d.kind)
  /\ d.why = "ignored" => \E r \in g.recent : r.kind = d.kind

\* The nudges of a manager depend on nothing else of it.
LEMMA ToldSame ==
  ASSUME NEW g, NEW h, h.nudgesUsed = g.nudgesUsed
  PROVE  Told(h) = Told(g)
BY DEF Told

LEMMA ToldNat ==
  ASSUME NEW g \in Manager
  PROVE  Told(g) \in Nat
<1>1. g.nudgesUsed \in [NudgedKinds -> Nat]
  BY DEF Manager
<1>2. {"text_rep", "thinking_rep", "tool_call_loop", "tool_error_loop"} = NudgedKinds
  BY DEF NudgedKinds, RepKinds
<1>3. \A k \in NudgedKinds : g.nudgesUsed[k] \in Nat
  BY <1>1
<1>4. /\ g.nudgesUsed["text_rep"] \in Nat /\ g.nudgesUsed["thinking_rep"] \in Nat
      /\ g.nudgesUsed["tool_call_loop"] \in Nat /\ g.nudgesUsed["tool_error_loop"] \in Nat
  BY <1>2, <1>3
<1> QED BY <1>4 DEF Told

LEMMA NewIsManager == NewManager \in Manager /\ Told(NewManager) = 0
<1>1. "" \in Names /\ <<>> \in Calls \cup {<<>>}
  BY DEF Names
<1>2. [k \in NudgedKinds |-> 0] \in [NudgedKinds -> Nat]
      /\ [k \in RepKinds |-> 0] \in [RepKinds -> Nat]
  OBVIOUS
<1>3. NewManager \in Manager
  BY <1>1, <1>2 DEF NewManager, Manager
<1>4. NewManager.nudgesUsed = [k \in NudgedKinds |-> 0]
  BY DEF NewManager
<1> QED BY <1>3, <1>4 DEF Told, NudgedKinds, RepKinds

LEMMA QuietSound ==
  ASSUME NEW g \in Manager, NEW h \in Manager, h.nudgesUsed = g.nudgesUsed,
         h.recent \subseteq g.recent
  PROVE  Sound(g, Quiet(h))
<1> DEFINE d == Quiet(h)
<1>1. h.turn \in Nat
  BY DEF Manager
<1>2. d.g = h /\ d.action = "none" /\ d.kind = "none" /\ d.why = "none"
  BY DEF Quiet
<1>3. d \in Answer
  BY <1>1 DEF Quiet, Answer, GuardKinds, Reasons
<1>4. Told(h) = Told(g) /\ Told(g) \in Nat
  BY ToldSame, ToldNat
<1> QED BY <1>2, <1>3, <1>4 DEF Sound

LEMMA KillSound ==
  ASSUME NEW g \in Manager, NEW h \in Manager, h.nudgesUsed = g.nudgesUsed,
         h.recent \subseteq g.recent, NEW kind \in GuardKinds, NEW why \in Reasons,
         why = "ignored" => \E r \in g.recent : r.kind = kind
  PROVE  Sound(g, Kill(h, kind, why))
<1> DEFINE d == Kill(h, kind, why)
<1>1. h.turn \in Nat
  BY DEF Manager
<1>2. d.g = h /\ d.action = "kill" /\ d.kind = kind /\ d.why = why
  BY DEF Kill
<1>3. d \in Answer
  BY <1>1 DEF Kill, Answer
<1>4. Told(h) = Told(g) /\ Told(g) \in Nat
  BY ToldSame, ToldNat
<1> QED BY <1>2, <1>3, <1>4 DEF Sound

\* Charging a nudge is charging one.
LEMMA ToldOne ==
  ASSUME NEW g \in Manager, NEW h \in Manager, NEW kind \in NudgedKinds,
         h.nudgesUsed = [g.nudgesUsed EXCEPT ![kind] = @ + 1]
  PROVE  Told(h) = Told(g) + 1
<1>1. g.nudgesUsed \in [NudgedKinds -> Nat]
  BY DEF Manager
<1>2. \A k \in NudgedKinds :
        h.nudgesUsed[k] = (IF k = kind THEN g.nudgesUsed[k] + 1 ELSE g.nudgesUsed[k])
  BY <1>1
<1>3. {"text_rep", "thinking_rep", "tool_call_loop", "tool_error_loop"} = NudgedKinds
  BY DEF NudgedKinds, RepKinds
<1>4. \A k \in NudgedKinds : g.nudgesUsed[k] \in Nat
  BY <1>1
<1>5. kind \in {"text_rep", "thinking_rep", "tool_call_loop", "tool_error_loop"}
  BY <1>3
<1>6. CASE kind = "text_rep"
  BY <1>2, <1>3, <1>4, <1>6 DEF Told
<1>7. CASE kind = "thinking_rep"
  BY <1>2, <1>3, <1>4, <1>7 DEF Told
<1>8. CASE kind = "tool_call_loop"
  BY <1>2, <1>3, <1>4, <1>8 DEF Told
<1>9. CASE kind = "tool_error_loop"
  BY <1>2, <1>3, <1>4, <1>9 DEF Told
<1> QED BY <1>5, <1>6, <1>7, <1>8, <1>9

\* A nudge changes what is charged and what is recent, a kill forgets what is not.
LEMMA DecideSound ==
  ASSUME NEW g \in Manager, NEW kind \in NudgedKinds
  PROVE  LET d == Decide(g, kind)
         IN /\ Sound(g, d) /\ d.kind = kind /\ d.action \in {"nudge", "kill"}
            /\ d.g.turn = g.turn /\ d.turn = g.turn
            /\ d.g.repNudgeTurn = g.repNudgeTurn
<1> DEFINE recent == {r \in g.recent : r.turn + Window > g.turn}
           kept == [g EXCEPT !.recent = recent]
           note == [kind |-> kind, turn |-> g.turn]
           told == [kept EXCEPT !.nudgesUsed[kind] = @ + 1, !.recent = @ \cup {note}]
<1>1. recent \subseteq g.recent /\ g.recent \in SUBSET Notes /\ g.turn \in Nat
      /\ g.nudgesUsed \in [NudgedKinds -> Nat]
  BY DEF Manager
<1>2. note \in Notes
  BY <1>1 DEF Notes
<1>3. recent \in SUBSET Notes
  BY <1>1
<1> HIDE DEF recent, note
<1>4. /\ kept \in Manager /\ kept.nudgesUsed = g.nudgesUsed /\ kept.recent = recent
      /\ kept.turn = g.turn /\ kept.repNudgeTurn = g.repNudgeTurn
  BY <1>3 DEF Manager
<1>5. [g.nudgesUsed EXCEPT ![kind] = @ + 1] \in [NudgedKinds -> Nat]
  BY <1>1
<1>6. told = [g EXCEPT !.nudgesUsed = [g.nudgesUsed EXCEPT ![kind] = @ + 1],
                       !.recent = recent \cup {note}]
  BY DEF Manager
<1>7. recent \cup {note} \in SUBSET Notes
  BY <1>2, <1>3
<1>8. /\ told \in Manager
      /\ told.nudgesUsed = [g.nudgesUsed EXCEPT ![kind] = @ + 1]
      /\ told.recent = recent \cup {note} /\ told.turn = g.turn
      /\ told.repNudgeTurn = g.repNudgeTurn
  BY <1>5, <1>6, <1>7 DEF Manager
<1>9. note.kind = kind
  BY DEF note
<1>10. Decide(g, kind) = IF \E r \in recent : r.kind = kind
                         THEN Kill(kept, kind, "ignored")
                         ELSE IF g.nudgesUsed[kind] >= BudgetPerKind
                              THEN Kill(kept, kind, "spent")
                              ELSE Nudge(told, kind)
  BY DEF Decide, recent, note
<1> HIDE DEF kept, told
<1>11. kind \in GuardKinds
  BY DEF GuardKinds
<1>12. CASE \E r \in recent : r.kind = kind
  <2>1. \E r \in g.recent : r.kind = kind
    BY <1>1, <1>12
  <2>2. Sound(g, Kill(kept, kind, "ignored"))
    BY <1>1, <1>4, <1>11, <2>1, KillSound DEF Reasons
  <2> QED BY <1>4, <1>10, <1>12, <2>2 DEF Kill
<1>13. CASE ~(\E r \in recent : r.kind = kind) /\ g.nudgesUsed[kind] >= BudgetPerKind
  <2>1. Sound(g, Kill(kept, kind, "spent"))
    BY <1>1, <1>4, <1>11, KillSound DEF Reasons
  <2> QED BY <1>4, <1>10, <1>13, <2>1 DEF Kill
<1>14. CASE ~(\E r \in recent : r.kind = kind) /\ ~(g.nudgesUsed[kind] >= BudgetPerKind)
  <2> DEFINE d == Nudge(told, kind)
  <2>1. /\ d.g = told /\ d.action = "nudge" /\ d.kind = kind /\ d.why = "recovery"
        /\ d.turn = g.turn
    BY <1>8 DEF Nudge
  <2>2. d \in Answer
    BY <1>1, <1>8, <1>11 DEF Nudge, Answer, Reasons
  <2>3. Told(told) = Told(g) + 1
    BY <1>8, ToldOne
  <2>4. \A r \in told.recent : r \in g.recent \/ r.kind = kind
    BY <1>1, <1>8, <1>9
  <2>5. Sound(g, d)
    BY <2>1, <2>2, <2>3, <2>4 DEF Sound
  <2> QED BY <1>8, <1>10, <1>14, <2>1, <2>5
<1> QED BY <1>12, <1>13, <1>14

-----------------------------------------------------------------------------
(* The answers to the events, one by one.                                  *)

LEMMA ClearedIsManager ==
  ASSUME NEW g \in Manager
  PROVE  /\ Cleared(g) \in Manager /\ Cleared(g).nudgesUsed = g.nudgesUsed
         /\ Cleared(g).recent = g.recent /\ Cleared(g).turn = g.turn
         /\ Cleared(g).repNudgeTurn = g.repNudgeTurn
         /\ Cleared(g).buf = [k \in RepKinds |-> 0]
<1>1. [k \in RepKinds |-> 0] \in [RepKinds -> Nat]
  OBVIOUS
<1> QED BY <1>1 DEF Cleared, Manager

LEMMA StartAnswer ==
  ASSUME NEW g \in Manager, NEW e, e.type = "message_start"
  PROVE  Observe(g, e) = Quiet(Cleared(g)) /\ Sound(g, Quiet(Cleared(g)))
<1>1. Observe(g, e) = MessageStart(g)
  BY Zenon DEF Observe
<1>2. Cleared(g) \in Manager /\ Cleared(g).nudgesUsed = g.nudgesUsed
      /\ Cleared(g).recent \subseteq g.recent
  BY ClearedIsManager
<1>3. Sound(g, Quiet(Cleared(g)))
  BY <1>2, QuietSound
<1> QED BY <1>1, <1>3 DEF MessageStart

LEMMA OtherAnswer ==
  ASSUME NEW g \in Manager, NEW e, e.type \in {"message_end", "auto_retry_end"}
  PROVE  Observe(g, e) = Quiet(g) /\ Sound(g, Quiet(g))
<1>1. Observe(g, e) = Quiet(g)
  BY DEF Observe
<1> QED BY <1>1, QuietSound

\* A nudge for a repetition is known to the turn, and one that was ignored was not.
LEMMA DecideRepSound ==
  ASSUME NEW g \in Manager, NEW kind \in RepKinds
  PROVE  LET d == DecideRep(g, kind)
         IN /\ Sound(g, d) /\ d.kind = kind /\ d.action \in {"nudge", "kill"}
            /\ d.g.turn = g.turn
            /\ g.repNudgeTurn \subseteq d.g.repNudgeTurn
            /\ d.action = "nudge" => kind \in d.g.repNudgeTurn
            /\ d.why = "ignored" => kind \notin g.repNudgeTurn
<1>1. kind \in NudgedKinds /\ kind \in GuardKinds
  BY DEF NudgedKinds, GuardKinds
<1>2. CASE kind \in g.repNudgeTurn
  <2>1. DecideRep(g, kind) = Kill(g, kind, "runaway")
    BY <1>2 DEF DecideRep
  <2>2. Sound(g, Kill(g, kind, "runaway"))
    BY <1>1, KillSound DEF Reasons
  <2> QED BY <2>1, <2>2 DEF Kill
<1>3. CASE kind \notin g.repNudgeTurn
  <2> DEFINE d == Decide(g, kind)
             h == Renewed(d.g, kind)
  <2>1. /\ Sound(g, d) /\ d.kind = kind /\ d.action \in {"nudge", "kill"}
        /\ d.g.turn = g.turn /\ d.g.repNudgeTurn = g.repNudgeTurn
    BY <1>1, DecideSound
  <2>2. DecideRep(g, kind) = IF d.action = "nudge"
                             THEN [d EXCEPT !.g = Renewed(@, kind)] ELSE d
    BY <1>3 DEF DecideRep
  <2> HIDE DEF d
  <2>3. d \in Answer /\ d.g \in Manager
    BY <2>1 DEF Sound, Answer
  <2>4. /\ Cleared(d.g) \in Manager /\ Cleared(d.g).nudgesUsed = d.g.nudgesUsed
        /\ Cleared(d.g).recent = d.g.recent /\ Cleared(d.g).turn = d.g.turn
        /\ Cleared(d.g).repNudgeTurn = d.g.repNudgeTurn
    BY <2>3, ClearedIsManager
  <2>5. Cleared(d.g).repNudgeTurn \cup {kind} \in SUBSET RepKinds
    BY <2>4 DEF Manager
  <2>6. /\ h \in Manager /\ h.nudgesUsed = d.g.nudgesUsed /\ h.recent = d.g.recent
        /\ h.turn = d.g.turn /\ h.repNudgeTurn = d.g.repNudgeTurn \cup {kind}
    BY <2>4, <2>5 DEF Manager, Renewed
  <2> HIDE DEF h
  <2>7. CASE d.action # "nudge"
    BY <1>3, <2>1, <2>2, <2>7
  <2>8. CASE d.action = "nudge"
    <3> DEFINE n == [d EXCEPT !.g = h]
    <3>1. /\ n \in Answer /\ n.g = h /\ n.action = "nudge" /\ n.kind = kind
          /\ n.why = d.why
      BY <2>1, <2>3, <2>6, <2>8 DEF Answer
    <3>2. Told(h) = Told(d.g)
      BY <2>6, ToldSame
    <3>4. DecideRep(g, kind) = n
      BY <2>2, <2>8 DEF h
    <3> HIDE DEF n
    <3>3. Sound(g, n)
      BY <2>1, <2>6, <2>8, <3>1, <3>2 DEF Sound
    <3> QED BY <1>3, <2>1, <2>6, <3>1, <3>3, <3>4
  <2> QED BY <2>7, <2>8
<1> QED BY <1>2, <1>3

\* The repetitions of a message, counted on; it is quiet until they are too many.
Counted(g, kind, repeats) ==
  [g EXCEPT !.buf[kind] = IF repeats = 0 THEN 0 ELSE @ + repeats]
LEMMA CountedIsManager ==
  ASSUME NEW g \in Manager, NEW kind \in RepKinds, NEW repeats \in Nat
  PROVE  /\ Counted(g, kind, repeats) \in Manager
         /\ Counted(g, kind, repeats).nudgesUsed = g.nudgesUsed
         /\ Counted(g, kind, repeats).recent = g.recent
         /\ Counted(g, kind, repeats).turn = g.turn
         /\ Counted(g, kind, repeats).repNudgeTurn = g.repNudgeTurn
         /\ Counted(g, kind, repeats).buf[kind] =
              (IF repeats = 0 THEN 0 ELSE g.buf[kind] + repeats)
         /\ \A k \in RepKinds \ {kind} :
              Counted(g, kind, repeats).buf[k] = g.buf[k]
<1>1. g.buf \in [RepKinds -> Nat]
  BY DEF Manager
<1> DEFINE b == [g.buf EXCEPT ![kind] = IF repeats = 0 THEN 0 ELSE @ + repeats]
<1>2. b \in [RepKinds -> Nat]
  BY <1>1
<1>3. Counted(g, kind, repeats) = [g EXCEPT !.buf = b]
  BY DEF Counted, Manager
<1> HIDE DEF b
<1>4. /\ [g EXCEPT !.buf = b] \in Manager
      /\ LET h == [g EXCEPT !.buf = b]
         IN /\ h.nudgesUsed = g.nudgesUsed /\ h.recent = g.recent
            /\ h.turn = g.turn /\ h.repNudgeTurn = g.repNudgeTurn /\ h.buf = b
  BY <1>2 DEF Manager
<1> QED BY <1>1, <1>3, <1>4 DEF b

LEMMA CountedOnly ==
  ASSUME NEW g \in Manager, NEW kind \in RepKinds, NEW repeats \in Nat,
         NEW b \in [RepKinds -> Nat]
  PROVE  [Counted(g, kind, repeats) EXCEPT !.buf = b] = [g EXCEPT !.buf = b]
<1> DEFINE c == [g.buf EXCEPT ![kind] = IF repeats = 0 THEN 0 ELSE @ + repeats]
<1>1. Counted(g, kind, repeats) = [g EXCEPT !.buf = c]
  BY DEF Counted, Manager
<1> HIDE DEF c
<1>2. [[g EXCEPT !.buf = c] EXCEPT !.buf = b] = [g EXCEPT !.buf = b]
  BY DEF Manager
<1> QED BY <1>1, <1>2

LEMMA UpdateAnswer ==
  ASSUME NEW g \in Manager, NEW kind \in RepKinds, NEW repeats \in Nat,
         NEW e, e.type = "message_update", e.kind = kind, e.repeats = repeats
  PROVE  LET d == Observe(g, e)
             h == Counted(g, kind, repeats)
         IN /\ Sound(g, d) /\ d.g.turn = g.turn
            /\ g.repNudgeTurn \subseteq d.g.repNudgeTurn
            /\ d.action = "nudge" => kind \in d.g.repNudgeTurn
            /\ d.why = "ignored" => kind \notin g.repNudgeTurn
            /\ IF h.buf[kind] < RepeatsAt THEN d = Quiet(h)
               ELSE d.kind = kind /\ d.action # "none"
<1> DEFINE d == Observe(g, e)
           h == Counted(g, kind, repeats)
<1>1. d = IF h.buf[kind] >= RepeatsAt THEN DecideRep(h, kind) ELSE Quiet(h)
  <2>1. d = MessageUpdate(g, kind, repeats)
    BY Zenon DEF Observe
  <2> QED BY <2>1 DEF MessageUpdate, Counted
<1>2. /\ h \in Manager /\ h.nudgesUsed = g.nudgesUsed /\ h.recent = g.recent
      /\ h.turn = g.turn /\ h.repNudgeTurn = g.repNudgeTurn
  BY CountedIsManager
<1> HIDE DEF h, d
<1>3. h.buf[kind] \in Nat /\ RepeatsAt \in Nat
  BY <1>2, ThresholdAssumption DEF Manager
<1>4. CASE h.buf[kind] < RepeatsAt
  <2>1. d = Quiet(h)
    BY <1>1, <1>3, <1>4
  <2>2. Sound(g, d)
    BY <1>2, <2>1, QuietSound
  <2> QED BY <1>2, <1>4, <2>1, <2>2 DEF Quiet, d, h
<1>5. CASE ~(h.buf[kind] < RepeatsAt)
  <2>1. d = DecideRep(h, kind)
    BY <1>1, <1>3, <1>5
  <2>2. /\ Sound(h, d) /\ d.kind = kind /\ d.action \in {"nudge", "kill"}
        /\ d.g.turn = h.turn /\ h.repNudgeTurn \subseteq d.g.repNudgeTurn
        /\ d.action = "nudge" => kind \in d.g.repNudgeTurn
        /\ d.why = "ignored" => kind \notin h.repNudgeTurn
    BY <1>2, <2>1, DecideRepSound
  <2>3. Told(h) = Told(g)
    BY <1>2, ToldSame
  <2>4. Sound(g, d)
    BY <1>2, <2>2, <2>3 DEF Sound
  <2> QED BY <1>2, <1>5, <2>2, <2>4 DEF d, h
<1> QED BY <1>4, <1>5

\* After its answer a guard may start over: that changes nothing of the answer.
LEMMA OverSound ==
  ASSUME NEW g \in Manager, NEW d, Sound(g, d), NEW h \in Manager,
         h.nudgesUsed = d.g.nudgesUsed, h.recent = d.g.recent
  PROVE  LET n == [d EXCEPT !.g = h]
         IN Sound(g, n) /\ n.g = h /\ n.kind = d.kind /\ n.action = d.action
<1> DEFINE n == [d EXCEPT !.g = h]
<1>1. d \in Answer
  BY DEF Sound
<1>2. /\ n \in Answer /\ n.g = h /\ n.action = d.action /\ n.kind = d.kind
      /\ n.why = d.why
  BY <1>1 DEF Answer
<1> HIDE DEF n
<1>3. Told(h) = Told(d.g)
  BY ToldSame
<1>4. Sound(g, n)
  BY <1>2, <1>3 DEF Sound
<1> QED BY <1>2, <1>4 DEF n

\* A decision on a tool's guard, of a manager that has counted the event.
LEMMA ToolDecides ==
  ASSUME NEW g \in Manager, NEW h \in Manager, h.nudgesUsed = g.nudgesUsed,
         h.recent = g.recent, h.turn = g.turn, h.repNudgeTurn = g.repNudgeTurn,
         NEW kind \in {"tool_call_loop", "tool_error_loop"}
  PROVE  LET d == Decide(h, kind)
         IN /\ Sound(g, d) /\ d.kind \notin RepKinds /\ d.g.turn = g.turn
            /\ d.g.repNudgeTurn = g.repNudgeTurn
<1> DEFINE d == Decide(h, kind)
<1>1. kind \in NudgedKinds /\ kind \notin RepKinds
  BY DEF NudgedKinds, RepKinds
<1>2. /\ Sound(h, d) /\ d.kind = kind /\ d.g.turn = h.turn
      /\ d.g.repNudgeTurn = h.repNudgeTurn
  BY <1>1, DecideSound
<1>3. Told(h) = Told(g)
  BY ToldSame
<1> HIDE DEF d
<1>4. Sound(g, d)
  BY <1>2, <1>3 DEF Sound
<1> QED BY <1>1, <1>2, <1>4 DEF d

\* The guards of the tools know nothing of repetitions and of turns.
Aside(g, d) ==
  /\ Sound(g, d) /\ d.kind \notin RepKinds /\ d.g.turn = g.turn
  /\ d.g.repNudgeTurn = g.repNudgeTurn

LEMMA QuietAside ==
  ASSUME NEW g \in Manager, NEW h \in Manager, h.nudgesUsed = g.nudgesUsed,
         h.recent = g.recent, h.turn = g.turn, h.repNudgeTurn = g.repNudgeTurn
  PROVE  Aside(g, Quiet(h))
<1>1. Sound(g, Quiet(h))
  BY QuietSound
<1> QED BY <1>1 DEF Quiet, Aside, RepKinds

LEMMA ToolStartAnswer ==
  ASSUME NEW g \in Manager, NEW call \in Calls,
         NEW e, e.type = "tool_execution_start", e.call = call
  PROVE  Aside(g, Observe(g, e))
<1> DEFINE n == IF g.lastCall = call THEN g.runLen + 1 ELSE 1
           c == g.commits \/ call = <<"bash", "git commit">>
           h == [g EXCEPT !.lastCall = call, !.runLen = n, !.commits = c]
           d == Decide(h, "tool_call_loop")
           o == [d.g EXCEPT !.lastCall = <<>>, !.runLen = 0]
<1>1. n \in Nat /\ c \in BOOLEAN /\ call \in Calls \cup {<<>>}
  BY DEF Manager
<1>2. Observe(g, e) = ToolStart(g, call)
  BY Zenon DEF Observe
<1>3. h = [g EXCEPT !.lastCall = call, !.runLen = n,
                    !.commits = @ \/ call = <<"bash", "git commit">>]
  OBVIOUS
<1>4. ToolStart(g, call) = IF n < LoopAt THEN Quiet(h)
                           ELSE IF d.action = "nudge" THEN [d EXCEPT !.g = o] ELSE d
  BY <1>3 DEF ToolStart
<1> HIDE DEF n, c
<1>5. /\ h \in Manager /\ h.nudgesUsed = g.nudgesUsed /\ h.recent = g.recent
      /\ h.turn = g.turn /\ h.repNudgeTurn = g.repNudgeTurn
  BY <1>1 DEF Manager
<1> HIDE DEF h
<1>6. Aside(g, Quiet(h))
  BY <1>5, QuietAside
<1>7. Aside(g, d)
  BY <1>5, ToolDecides DEF Aside
<1> HIDE DEF d
<1>8. d.g \in Manager
  BY <1>7 DEF Aside, Sound, Answer
<1>9. /\ o \in Manager /\ o.nudgesUsed = d.g.nudgesUsed /\ o.recent = d.g.recent
      /\ o.turn = d.g.turn /\ o.repNudgeTurn = d.g.repNudgeTurn
  BY <1>8 DEF Manager
<1> HIDE DEF o
<1> DEFINE a == [d EXCEPT !.g = o]
<1>10. Sound(g, a) /\ a.g = o /\ a.kind = d.kind
  BY <1>7, <1>9, OverSound DEF Aside
<1> HIDE DEF a
<1>11. Aside(g, a)
  BY <1>7, <1>9, <1>10 DEF Aside
<1> QED BY <1>2, <1>4, <1>6, <1>7, <1>11 DEF a

LEMMA ToolEndAnswer ==
  ASSUME NEW g \in Manager, NEW call \in Calls, NEW isError \in BOOLEAN,
         NEW e, e.type = "tool_execution_end", e.call = call, e.isError = isError
  PROVE  Aside(g, Observe(g, e))
<1> DEFINE name == call[1]
           n == IF ~isError THEN 0 ELSE IF g.lastName = name THEN g.errors + 1 ELSE 1
           l == IF isError THEN name ELSE ""
           h == [g EXCEPT !.lastName = l, !.errors = n]
           d == Decide(h, "tool_error_loop")
           o == [d.g EXCEPT !.lastName = "", !.errors = 0]
<1>1. n \in Nat /\ l \in Names /\ "" \in Names
  <2>1. g.errors \in Nat
    BY DEF Manager
  <2>2. name \in Names /\ "" \in Names
    BY DEF Names
  <2>3. n = 0 \/ n = 1 \/ n = g.errors + 1
    BY Zenon
  <2>4. l \in Names
    BY Zenon, <2>2
  <2>5. 0 \in Nat /\ 1 \in Nat /\ g.errors + 1 \in Nat
    BY <2>1
  <2> HIDE DEF n, l
  <2> QED BY Zenon, <2>2, <2>3, <2>4, <2>5
<1>2. Observe(g, e) = ToolEnd(g, name, isError)
  BY Zenon DEF Observe
<1>3. ToolEnd(g, name, isError) =
        IF n < ErrorsAt THEN Quiet(h)
        ELSE IF d.action = "nudge" THEN [d EXCEPT !.g = o] ELSE d
  BY DEF ToolEnd
<1> HIDE DEF name, n, l
<1>5. /\ h \in Manager /\ h.nudgesUsed = g.nudgesUsed /\ h.recent = g.recent
      /\ h.turn = g.turn /\ h.repNudgeTurn = g.repNudgeTurn
  BY <1>1 DEF Manager
<1> HIDE DEF h
<1>6. Aside(g, Quiet(h))
  BY <1>5, QuietAside
<1>7. Aside(g, d)
  BY <1>5, ToolDecides DEF Aside
<1> HIDE DEF d
<1>8. d.g \in Manager
  BY <1>7 DEF Aside, Sound, Answer
<1>9. /\ o \in Manager /\ o.nudgesUsed = d.g.nudgesUsed /\ o.recent = d.g.recent
      /\ o.turn = d.g.turn /\ o.repNudgeTurn = d.g.repNudgeTurn
  BY <1>1, <1>8 DEF Manager
<1> HIDE DEF o
<1> DEFINE a == [d EXCEPT !.g = o]
<1>10. Sound(g, a) /\ a.g = o /\ a.kind = d.kind
  BY <1>7, <1>9, OverSound DEF Aside
<1> HIDE DEF a
<1>11. Aside(g, a)
  BY <1>7, <1>9, <1>10 DEF Aside
<1> QED BY <1>2, <1>3, <1>6, <1>7, <1>11 DEF a

\* The end of a turn is a kill or nothing, and what is left of the manager does
\* not depend on the message.
LEMMA NextTurnIsManager ==
  ASSUME NEW g \in Manager
  PROVE  /\ NextTurn(g) \in Manager /\ NextTurn(g).nudgesUsed = g.nudgesUsed
         /\ NextTurn(g).recent = g.recent /\ NextTurn(g).turn = g.turn + 1
         /\ NextTurn(Cleared(g)) = NextTurn(g)
<1>1. Cleared(g) \in Manager
  BY ClearedIsManager
<1>2. Cleared(Cleared(g)) = Cleared(g)
  BY DEF Cleared, Manager
<1> DEFINE h == Cleared(g)
           i == [h EXCEPT !.turn = @ + 1, !.repNudgeTurn = {}]
<1>3. h \in Manager /\ h.nudgesUsed = g.nudgesUsed /\ h.recent = g.recent
      /\ h.turn = g.turn
  BY ClearedIsManager
<1> HIDE DEF h
<1>4. i \in Manager /\ i.nudgesUsed = h.nudgesUsed /\ i.recent = h.recent
      /\ i.turn = h.turn + 1
  <2>1. h.turn + 1 \in Nat
    BY <1>3 DEF Manager
  <2>2. {} \in SUBSET RepKinds
    OBVIOUS
  <2> QED BY <1>3, <2>1, <2>2 DEF Manager
<1>5. NextTurn(g) = i /\ NextTurn(Cleared(g)) = i
  BY <1>2 DEF NextTurn, h
<1> QED BY <1>3, <1>4, <1>5

LEMMA TurnAnswer ==
  ASSUME NEW g \in Manager, NEW e, e.type = "turn_end"
  PROVE  LET d == Observe(g, e)
         IN /\ Sound(g, d) /\ d.kind \notin RepKinds /\ d.action \in {"none", "kill"}
            /\ d.g = NextTurn(g) /\ d.why # "ignored"
            /\ Observe(Cleared(g), e).g = d.g
            /\ Observe(Cleared(g), e).action = d.action
            /\ Entry(Observe(Cleared(g), e)) = Entry(d)
<1>1. \A h : Observe(h, e) = TurnEnd(h, e.tokens)
  BY Zenon DEF Observe
<1>2. /\ Cleared(g).commits = g.commits /\ Cleared(g).turn = g.turn
      /\ NextTurn(g).turn = g.turn + 1 /\ g.turn \in Nat
  BY NextTurnIsManager DEF Cleared, Manager
<1>3. NextTurn(g) \in Manager /\ NextTurn(g).nudgesUsed = g.nudgesUsed
      /\ NextTurn(g).recent \subseteq g.recent /\ NextTurn(Cleared(g)) = NextTurn(g)
  BY NextTurnIsManager
<1>4. OverBudget(Cleared(g), e.tokens) <=> OverBudget(g, e.tokens)
  BY <1>2 DEF OverBudget
<1>5. CASE OverBudget(g, e.tokens)
  <2> DEFINE k(h) == [Kill(h, "output_budget", "budget") EXCEPT !.g = NextTurn(h)]
             d == k(g)
  <2>1. Observe(g, e) = d /\ Observe(Cleared(g), e) = k(Cleared(g))
    BY <1>1, <1>4, <1>5 DEF TurnEnd
  <2>2. /\ d.g = NextTurn(g) /\ d.action = "kill" /\ d.kind = "output_budget"
        /\ d.turn = g.turn /\ d.why = "budget"
    BY DEF Kill
  <2>3. LET c == k(Cleared(g))
        IN /\ c.g = NextTurn(g) /\ c.action = "kill" /\ c.kind = "output_budget"
           /\ c.turn = g.turn
    BY <1>2, <1>3 DEF Kill
  <2>4. d \in Answer
    BY <1>2, <1>3 DEF Kill, Answer, GuardKinds, Reasons
  <2> HIDE DEF k
  <2>5. Told(NextTurn(g)) = Told(g) /\ Told(g) \in Nat
    BY <1>3, ToldSame, ToldNat
  <2>6. Sound(g, d)
    BY <1>3, <2>2, <2>4, <2>5 DEF Sound
  <2> QED BY <2>1, <2>2, <2>3, <2>6 DEF Entry, RepKinds
<1>6. CASE ~OverBudget(g, e.tokens)
  <2>1. Observe(g, e) = Quiet(NextTurn(g)) /\ Observe(Cleared(g), e) = Quiet(NextTurn(g))
    BY <1>1, <1>3, <1>4, <1>6 DEF TurnEnd
  <2>2. Sound(g, Quiet(NextTurn(g)))
    BY <1>3, QuietSound
  <2> QED BY <2>1, <2>2 DEF Quiet, RepKinds
<1> QED BY <1>5, <1>6

-----------------------------------------------------------------------------
(* The initial state, and the values a run starts with.                    *)

LEMMA FreshValues ==
  /\ NoSdk \in Sessions /\ NoReplay \in Replays /\ NoRun \in RunStates
  /\ NoResult \in Results /\ NoMetrics \in [nudges : Nat, kills : Nat]
  /\ Void \in Replays /\ Void.void /\ ~NoReplay.void
<1>1. [k \in RepKinds |-> 0] \in [RepKinds -> Nat] /\ <<>> \in Calls \cup {<<>>}
      /\ {} \in SUBSET NudgedKinds /\ "off" \in Places
  BY DEF Places
<1>2. NoSdk \in Sessions
  BY <1>1 DEF NoSdk, Sessions
<1>3. <<>> \in Seq(Entries)
  OBVIOUS
<1>4. NoReplay \in Replays /\ ~NoReplay.void
  BY <1>3, NewIsManager DEF NoReplay, Replays
<1>5. Void \in Replays /\ Void.void
  BY <1>4 DEF Void, Replays
<1>6. NoRun \in RunStates
  BY DEF NoRun, RunStates, GuardKinds, Reasons
<1>7. NoResult \in Results /\ NoMetrics \in [nudges : Nat, kills : Nat]
  BY DEF NoResult, Results, NoMetrics
<1> QED BY <1>2, <1>4, <1>5, <1>6, <1>7

\* What there is when no run is under way keeps the invariant by itself.
NothingLeft ==
  /\ run = [NoRun EXCEPT !.pc = run.pc] /\ sdk = NoSdk /\ gm = NewManager
  /\ acc = [error |-> FALSE] /\ replay = NoReplay /\ metrics = NoMetrics

Nothing ==
  /\ gm.turn <= sdk.n /\ sdk.n <= MaxTurns /\ sdk.pc = "off" /\ sdk.n = 0
  /\ ~sdk.aborting /\ ~run.grace /\ run.kill = "none" /\ ~run.timedOut
  /\ Told(gm) = metrics.nudges /\ HeardHolds /\ ErrorsHold /\ ReplayHolds
  /\ sdk \in Sessions /\ replay \in Replays /\ gm \in Manager
  /\ acc \in [error : BOOLEAN] /\ metrics \in [nudges : Nat, kills : Nat]
  /\ ~acc.error
LEMMA NothingHolds == NothingLeft => Nothing
<1> SUFFICES ASSUME NothingLeft PROVE Nothing
  OBVIOUS
<1>1. /\ gm.turn = 0 /\ gm.recent = {} /\ sdk.n = 0 /\ sdk.pc = "off"
      /\ ~sdk.aborting /\ run.why = "none" /\ run.kill = "none" /\ ~run.grace
      /\ ~run.timedOut /\ replay.gm = gm /\ ~replay.killed
      /\ replay.recorded = replay.replayed /\ metrics.nudges = 0
  BY DEF NothingLeft, NewManager, NoSdk, NoRun, NoReplay, NoMetrics
<1>2. MaxTurns \in Nat
  BY RunAssumption
<1>3. Told(gm) = 0 /\ gm \in Manager
  BY NewIsManager DEF NothingLeft
<1>4. HeardHolds
  BY <1>1 DEF HeardHolds
<1>5. ErrorsHold
  BY <1>1 DEF ErrorsHold, InTurn
<1>6. ReplayHolds
  BY <1>1 DEF ReplayHolds
<1>7. /\ sdk \in Sessions /\ replay \in Replays
      /\ acc \in [error : BOOLEAN] /\ metrics \in [nudges : Nat, kills : Nat]
      /\ ~acc.error
  BY FreshValues DEF NothingLeft
<1> QED BY <1>1, <1>2, <1>3, <1>4, <1>5, <1>6, <1>7 DEF Nothing

LEMMA NothingNext == NothingLeft' => Nothing'
BY NothingHolds, PTL

LEMMA InitInv == ASSUME Init PROVE RunInv
<1>1. NothingLeft
  BY DEF Init, NothingLeft, NoRun
<1>2. /\ run.pc = "none" /\ run \in RunStates /\ result \in Results
      /\ result.stopped = FALSE /\ result.error = FALSE /\ result.failed = FALSE
  BY FreshValues DEF Init, NoRun, NoResult
<1>3. runs \in 0 .. MaxRuns /\ faults \in 0 .. MaxFaults
  BY RunAssumption DEF Init
<1>4. TypesHold
  BY <1>1, <1>2, <1>3, NothingHolds DEF Nothing, TypesHold, Init
<1>5. FreshHolds
  BY <1>1 DEF FreshHolds, NothingLeft
<1>6. TurnsHold
  BY <1>1, <1>2, NothingHolds DEF Nothing, TurnsHold, InTurn
<1>7. ZombieHolds /\ AbortsHold
  BY <1>1, <1>2, NothingHolds DEF Nothing, ZombieHolds, AbortsHold, Init
<1>8. ResultTellsTheTruth
  BY <1>2 DEF ResultTellsTheTruth
<1> QED BY <1>1, <1>4, <1>5, <1>6, <1>7, <1>8, NothingHolds DEF Nothing, RunInv

-----------------------------------------------------------------------------
(* The replay.                                                             *)

LEMMA EntryOf ==
  ASSUME NEW d \in Answer
  PROVE  Entry(d) \in Entries /\ Entry(d).kind = d.kind
BY DEF Entry, Entries, Answer

\* An observation of a replay that has come to no kill.
LEMMA FedGives ==
  ASSUME NEW r \in Replays, ~r.killed, NEW e, Observe(r.gm, e) \in Answer
  PROVE  LET d == Observe(r.gm, e)
             q == Fed(r, e)
         IN /\ q \in Replays /\ q.gm = d.g /\ (q.killed <=> d.action = "kill")
            /\ q.recorded = r.recorded /\ q.void = r.void
            /\ q.replayed = IF d.action = "none" THEN r.replayed
                            ELSE Append(r.replayed, Entry(d))
<1> DEFINE d == Observe(r.gm, e)
           k == (d.action = "kill")
           s == IF d.action = "none" THEN r.replayed ELSE Append(r.replayed, Entry(d))
<1>1. Fed(r, e) = [r EXCEPT !.gm = d.g, !.killed = k, !.replayed = s]
  BY DEF Fed
<1>2. d.g \in Manager /\ Entry(d) \in Entries /\ k \in BOOLEAN
  BY EntryOf DEF Answer
<1>3. s \in Seq(Entries)
  BY <1>2 DEF Replays
<1> HIDE DEF k, s, d
<1>4. LET q == [r EXCEPT !.gm = d.g, !.killed = k, !.replayed = s]
      IN /\ q \in Replays /\ q.gm = d.g /\ q.killed = k
         /\ q.recorded = r.recorded /\ q.void = r.void /\ q.replayed = s
  BY <1>2, <1>3 DEF Replays
<1> QED BY <1>1, <1>2, <1>4 DEF k, s, d

LEMMA FedKilled ==
  ASSUME NEW r, r.killed, NEW e
  PROVE  Fed(r, e) = r
BY DEF Fed

\* A decision that is recorded.
LEMMA RecordedGives ==
  ASSUME NEW r \in Replays, NEW d \in Answer
  PROVE  LET q == Recorded(r, d)
         IN /\ q \in Replays /\ q.gm = r.gm /\ q.killed = r.killed /\ q.void = r.void
            /\ q.replayed = r.replayed
            /\ q.recorded = Append(r.recorded, Entry(d))
<1> DEFINE s == Append(r.recorded, Entry(d))
<1>1. s \in Seq(Entries)
  BY EntryOf DEF Replays
<1>2. Recorded(r, d) = [r EXCEPT !.recorded = s]
  BY DEF Recorded
<1> HIDE DEF s
<1>3. LET q == [r EXCEPT !.recorded = s]
      IN /\ q \in Replays /\ q.gm = r.gm /\ q.killed = r.killed /\ q.void = r.void
         /\ q.replayed = r.replayed /\ q.recorded = s
  BY <1>1 DEF Replays
<1> QED BY <1>2, <1>3 DEF s

\* A decision about repetitions is not compared.
LEMMA RepeatsVoid ==
  ASSUME NEW r \in Replays, NEW d \in Answer, d.kind \in RepKinds
  PROVE  Comparable(Recorded(r, d)) = Void
<1>1. r.recorded \in Seq(Entries) /\ Entry(d) \in Entries /\ Entry(d).kind = d.kind
  BY EntryOf DEF Replays
<1>2. Recorded(r, d).recorded = Append(r.recorded, Entry(d))
  BY RecordedGives
<1> DEFINE s == Append(r.recorded, Entry(d))
           n == Len(r.recorded) + 1
<1>3. n \in DOMAIN s /\ s[n] = Entry(d)
  BY <1>1
<1>4. Repeats(s)
  BY <1>1, <1>3 DEF Repeats
<1> QED BY <1>2, <1>4 DEF Comparable

LEMMA ComparableIs == \A r : Comparable(r) = Void \/ Comparable(r) = r
BY DEF Comparable

\* An event the transcript tells whole: a replay that comes to the answer of the
\* run records and replays the same.
LEMMA Follows ==
  ASSUME NEW r \in Replays, ~r.void, ~r.killed, r.recorded = r.replayed,
         NEW e, e.type \notin {"message_update", "message_end"},
         NEW d \in Answer, Observe(r.gm, e) \in Answer,
         Observe(r.gm, e).action = d.action, Entry(Observe(r.gm, e)) = Entry(d)
  PROVE  LET q == IF d.action # "none" THEN Recorded(Read(r, e), d) ELSE Read(r, e)
         IN /\ q \in Replays /\ ~q.void /\ q.recorded = q.replayed
            /\ q.gm = Observe(r.gm, e).g
            /\ q.killed <=> d.action = "kill"
<1> DEFINE f == Fed(r, e)
<1>1. Read(r, e) = f
  BY DEF Read
<1>2. /\ f \in Replays /\ f.gm = Observe(r.gm, e).g /\ (f.killed <=> d.action = "kill")
      /\ f.recorded = r.recorded /\ f.void = r.void
      /\ f.replayed = IF d.action = "none" THEN r.replayed
                      ELSE Append(r.replayed, Entry(d))
  BY FedGives
<1> HIDE DEF f
<1>3. CASE d.action = "none"
  BY <1>1, <1>2, <1>3
<1>4. CASE d.action # "none"
  <2> DEFINE q == Recorded(f, d)
  <2>1. /\ q \in Replays /\ q.gm = f.gm /\ q.killed = f.killed /\ q.void = f.void
        /\ q.replayed = f.replayed /\ q.recorded = Append(f.recorded, Entry(d))
    BY <1>2, RecordedGives
  <2> HIDE DEF q
  <2>2. q.recorded = q.replayed
    BY <1>2, <1>4, <2>1
  <2> QED BY <1>1, <1>2, <1>4, <2>1, <2>2 DEF q
<1> QED BY <1>3, <1>4

\* The blocks of a message that tripped nothing bring the replay to where the run
\* was brought by the deltas.
LEMMA BlocksQuiet ==
  ASSUME NEW g \in Manager, NEW r \in Replays, ~r.killed, r.gm = Cleared(g),
         \A k \in RepKinds : g.buf[k] < RepeatsAt
  PROVE  LET q == Blocks(r, g.buf)
         IN /\ q \in Replays /\ q.gm = g /\ ~q.killed /\ q.recorded = r.recorded
            /\ q.replayed = r.replayed /\ q.void = r.void
<1> DEFINE th == "thinking_rep"
           te == "text_rep"
           e1 == [type |-> "message_update", kind |-> th, repeats |-> g.buf[th]]
           e2 == [type |-> "message_update", kind |-> te, repeats |-> g.buf[te]]
           h0 == Cleared(g)
           h1 == Counted(h0, th, g.buf[th])
           h2 == Counted(h1, te, g.buf[te])
           q1 == Fed(r, e1)
           q2 == Fed(q1, e2)
<1>1. g.buf \in [RepKinds -> Nat] /\ RepKinds = {te, th} /\ te # th
  BY DEF Manager, RepKinds
<1>2. g.buf[th] \in Nat /\ g.buf[te] \in Nat
  BY <1>1
<1>3. h0 \in Manager /\ h0.buf[th] = 0 /\ h0.buf[te] = 0
  BY <1>1, ClearedIsManager
<1>4. h1 \in Manager /\ h1.buf[th] = g.buf[th] /\ h1.buf[te] = 0
  <2> HIDE DEF h0
  <2>1. th \in RepKinds /\ te \in RepKinds \ {th}
    BY <1>1
  <2>2. /\ h1 \in Manager
        /\ h1.buf[th] = (IF g.buf[th] = 0 THEN 0 ELSE h0.buf[th] + g.buf[th])
        /\ \A k \in RepKinds \ {th} : h1.buf[k] = h0.buf[k]
    BY <1>2, <1>3, <2>1, CountedIsManager
  <2> QED BY <1>2, <1>3, <2>1, <2>2
<1>5. h2 \in Manager /\ h2.buf[te] = g.buf[te] /\ h2.buf[th] = g.buf[th]
  <2> HIDE DEF h0, h1
  <2>1. te \in RepKinds /\ th \in RepKinds \ {te}
    BY <1>1
  <2>2. /\ h2 \in Manager
        /\ h2.buf[te] = (IF g.buf[te] = 0 THEN 0 ELSE h1.buf[te] + g.buf[te])
        /\ \A k \in RepKinds \ {te} : h2.buf[k] = h1.buf[k]
    BY <1>2, <1>4, <2>1, CountedIsManager
  <2> QED BY <1>2, <1>4, <2>1, <2>2
<1>6. Observe(h0, e1) = Quiet(h1)
  <2>1. e1.type = "message_update" /\ e1.kind = th /\ e1.repeats = g.buf[th]
    OBVIOUS
  <2>2. th \in RepKinds /\ h1.buf[th] < RepeatsAt
    BY <1>1, <1>4
  <2> HIDE DEF e1, h0
  <2> QED BY <1>2, <1>3, <2>1, <2>2, UpdateAnswer
<1>7. Observe(h1, e2) = Quiet(h2)
  <2>1. e2.type = "message_update" /\ e2.kind = te /\ e2.repeats = g.buf[te]
    OBVIOUS
  <2>2. te \in RepKinds /\ h2.buf[te] < RepeatsAt
    BY <1>1, <1>5
  <2> HIDE DEF e2, h1
  <2> QED BY <1>2, <1>4, <2>1, <2>2, UpdateAnswer
<1>8. h2 = g
  <2>1. [h0 EXCEPT !.buf = g.buf] = [g EXCEPT !.buf = g.buf]
    BY <1>1 DEF Cleared, Manager
  <2>2. [h1 EXCEPT !.buf = g.buf] = [h0 EXCEPT !.buf = g.buf]
    <3> HIDE DEF h0
    <3> QED BY <1>1, <1>2, <1>3, CountedOnly
  <2>3. [h2 EXCEPT !.buf = g.buf] = [h1 EXCEPT !.buf = g.buf]
    <3> HIDE DEF h1
    <3> QED BY <1>1, <1>2, <1>4, CountedOnly
  <2> HIDE DEF h0, h1, h2
  <2>4. h2.buf \in [RepKinds -> Nat]
    BY <1>5 DEF Manager
  <2>5. h2.buf = g.buf
    BY <1>1, <1>5, <2>4
  <2>6. [h2 EXCEPT !.buf = g.buf] = h2 /\ [g EXCEPT !.buf = g.buf] = g
    BY <1>5, <2>5 DEF Manager
  <2> QED BY <2>1, <2>2, <2>3, <2>6
<1>9. \A h \in Manager : Quiet(h) \in Answer
  BY DEF Quiet, Answer, GuardKinds, Reasons, Manager
<1>10. Blocks(r, g.buf) = q2
  BY DEF Blocks
<1> HIDE DEF h0, h1, h2, e1, e2
<1>11. /\ q1 \in Replays /\ q1.gm = h1 /\ ~q1.killed /\ q1.recorded = r.recorded
       /\ q1.replayed = r.replayed /\ q1.void = r.void
  <2>1. Observe(r.gm, e1) = Quiet(h1) /\ Observe(r.gm, e1) \in Answer
    BY <1>4, <1>6, <1>9 DEF h0
  <2> QED BY <2>1, FedGives DEF Quiet
<1> HIDE DEF q1
<1>12. /\ q2 \in Replays /\ q2.gm = h2 /\ ~q2.killed /\ q2.recorded = q1.recorded
       /\ q2.replayed = q1.replayed /\ q2.void = q1.void
  <2>1. Observe(q1.gm, e2) = Quiet(h2) /\ Observe(q1.gm, e2) \in Answer
    BY <1>5, <1>7, <1>9, <1>11
  <2> QED BY <1>11, <2>1, FedGives DEF Quiet
<1> HIDE DEF q2
<1> QED BY <1>8, <1>10, <1>11, <1>12

-----------------------------------------------------------------------------
(* What the listener does with any event.                                  *)

LEMMA EmitKeeps ==
  ASSUME RunInv, Live, NEW e, NEW next \in Sessions, Emit(e, next),
         Sound(gm, Observe(gm, e))
  PROVE  LET d == Observe(gm, e)
         IN /\ gm' \in Manager /\ run' \in RunStates /\ sdk' \in Sessions
            /\ metrics' \in [nudges : Nat, kills : Nat]
            /\ Told(gm') = metrics'.nudges
            /\ run'.pc = run.pc /\ run'.timedOut = run.timedOut
            /\ sdk' = [next EXCEPT !.aborting = sdk'.aborting, !.steers = sdk'.steers]
            /\ next.steers \subseteq sdk'.steers
            /\ sdk'.aborting \/ run'.grace =>
                 next.aborting \/ run.grace \/ run'.kill # "none"
            /\ run.kill # "none" => run' = run /\ gm' = gm
            /\ run.kill = "none" =>
                 /\ gm' = d.g
                 /\ run'.kill = IF d.action = "kill" THEN "guard" ELSE "none"
                 /\ d.action = "nudge" => d.kind \in sdk'.steers
                 /\ run'.why = "ignored" =>
                      \/ run.why = "ignored" /\ run'.kind = run.kind
                      \/ d.why = "ignored" /\ run'.kind = d.kind
<1> DEFINE d == Observe(gm, e)
           guarded == run.kill = "none" /\ d.action # "none"
           killed == guarded /\ d.action = "kill"
           ab == next.aborting \/ killed
           st == IF guarded /\ ~killed THEN next.steers \cup {d.kind} ELSE next.steers
<1>1. /\ gm' = IF run.kill = "none" THEN d.g ELSE gm
      /\ metrics' = IF ~guarded THEN metrics
                    ELSE IF killed THEN [metrics EXCEPT !.kills = @ + 1]
                    ELSE [metrics EXCEPT !.nudges = @ + 1]
      /\ run' = IF killed THEN [run EXCEPT !.kill = "guard", !.kind = d.kind,
                                           !.why = d.why, !.grace = TRUE] ELSE run
      /\ sdk' = [next EXCEPT !.aborting = ab, !.steers = st]
  BY DEF Emit
<1>2. /\ gm \in Manager /\ run \in RunStates /\ Told(gm) = metrics.nudges
      /\ metrics \in [nudges : Nat, kills : Nat]
  BY DEF RunInv, TypesHold
<1>3. /\ d \in Answer /\ Told(d.g) = Told(gm) + (IF d.action = "nudge" THEN 1 ELSE 0)
      /\ d.action = "nudge" => d.kind \in NudgedKinds
  BY DEF Sound
<1>4. d.g \in Manager /\ d.kind \in GuardKinds /\ d.why \in Reasons
      /\ d.action \in {"none", "nudge", "kill"}
  BY <1>3 DEF Answer
<1> HIDE DEF d
<1>5. ab \in BOOLEAN /\ (ab => next.aborting \/ killed)
  BY DEF Sessions
<1>6. st \in SUBSET NudgedKinds /\ next.steers \subseteq st
      /\ (guarded /\ ~killed => d.kind \in st)
  BY <1>3, <1>4 DEF Sessions
<1> HIDE DEF ab, st
<1>7. /\ sdk' \in Sessions /\ sdk'.aborting = ab /\ sdk'.steers = st
      /\ sdk' = [next EXCEPT !.aborting = sdk'.aborting, !.steers = sdk'.steers]
  BY <1>1, <1>5, <1>6 DEF Sessions
<1>8. gm' \in Manager
  BY <1>1, <1>2, <1>4
<1>9. CASE killed
  <2>1. run' = [run EXCEPT !.kill = "guard", !.kind = d.kind, !.why = d.why,
                           !.grace = TRUE]
        /\ metrics' = [metrics EXCEPT !.kills = @ + 1] /\ gm' = d.g
    BY <1>1, <1>9
  <2>2. /\ run' \in RunStates /\ run'.pc = run.pc /\ run'.timedOut = run.timedOut
        /\ run'.kill = "guard" /\ run'.kind = d.kind /\ run'.why = d.why
    BY <1>2, <1>4, <2>1 DEF RunStates
  <2>3. metrics' \in [nudges : Nat, kills : Nat] /\ metrics'.nudges = metrics.nudges
    BY <1>2, <2>1
  <2>4. Told(gm') = metrics'.nudges
    BY <1>2, <1>3, <1>9, <2>1, <2>3
  <2> QED BY <1>6, <1>7, <1>8, <1>9, <2>1, <2>2, <2>3, <2>4 DEF d
<1>10. CASE ~killed
  <2>1. run' = run
    BY <1>1, <1>10
  <2>2. metrics' \in [nudges : Nat, kills : Nat]
        /\ metrics'.nudges = metrics.nudges + (IF guarded THEN 1 ELSE 0)
    BY <1>1, <1>2, <1>10
  <2>3. Told(gm') = metrics'.nudges
    BY <1>1, <1>2, <1>3, <1>4, <1>10, <2>2
  <2>4. sdk'.aborting \/ run'.grace => next.aborting \/ run.grace
    BY <1>5, <1>7, <1>10, <2>1
  <2>5. run.kill = "none" => gm' = d.g /\ run'.kill = "none" /\ d.action # "kill"
                             /\ (d.action = "nudge" => d.kind \in sdk'.steers)
    BY <1>1, <1>6, <1>7, <1>10, <2>1
  <2>6. run.kill # "none" => gm' = gm
    BY <1>1
  <2>7. run' \in RunStates /\ run'.pc = run.pc /\ run'.timedOut = run.timedOut
        /\ run'.why = run.why /\ run'.kind = run.kind
    BY <1>2, <2>1
  <2>8. run.kill = "none" => run'.kill = (IF d.action = "kill" THEN "guard" ELSE "none")
    BY <2>1, <2>5
  <2> QED BY <1>6, <1>7, <1>8, <2>1, <2>2, <2>3, <2>4, <2>5, <2>6, <2>7, <2>8 DEF d
<1> QED BY <1>9, <1>10

\* What is read of it most: the rest of the session is as the event leaves it.
LEMMA EmitFacts ==
  ASSUME RunInv, Live, NEW e, NEW next \in Sessions, Emit(e, next),
         Sound(gm, Observe(gm, e))
  PROVE  /\ sdk'.pc = next.pc /\ sdk'.n = next.n /\ sdk'.msg = next.msg
         /\ sdk'.call = next.call /\ sdk'.retrying = next.retrying
         /\ sdk'.failed = next.failed
         /\ run.kill # "none" => run' = run /\ gm' = gm
         /\ run.kill = "none" => gm' = Observe(gm, e).g
         /\ run'.kill = "none" => run.kill = "none" /\ Observe(gm, e).action # "kill"
         /\ run'.timedOut = run.timedOut
<1>1. /\ sdk' = [next EXCEPT !.aborting = sdk'.aborting, !.steers = sdk'.steers]
      /\ run.kill # "none" => run' = run /\ gm' = gm
      /\ run.kill = "none" =>
           /\ gm' = Observe(gm, e).g
           /\ run'.kill = IF Observe(gm, e).action = "kill" THEN "guard" ELSE "none"
      /\ run'.timedOut = run.timedOut
  BY EmitKeeps
<1>2. \A a, b : LET i == [next EXCEPT !.aborting = a, !.steers = b]
               IN /\ i.pc = next.pc /\ i.n = next.n /\ i.msg = next.msg
                  /\ i.call = next.call /\ i.retrying = next.retrying
                  /\ i.failed = next.failed
  BY DEF Sessions
<1>3. /\ sdk'.pc = next.pc /\ sdk'.n = next.n /\ sdk'.msg = next.msg
      /\ sdk'.call = next.call /\ sdk'.retrying = next.retrying
      /\ sdk'.failed = next.failed
  <2>1. PICK a, b : a = sdk'.aborting /\ b = sdk'.steers
    OBVIOUS
  <2>2. sdk' = [next EXCEPT !.aborting = a, !.steers = b]
    BY <1>1, <2>1
  <2> QED BY <1>2, <2>2
<1> QED BY <1>1, <1>3

\* The part of the invariant that is the same for every event.
LEMMA EmitInv ==
  ASSUME RunInv, Live, NEW e, NEW next \in Sessions, Emit(e, next),
         Sound(gm, Observe(gm, e)), next.aborting = sdk.aborting,
         acc' \in [error : BOOLEAN], replay' \in Replays,
         TurnsHold', HeardHolds', ErrorsHold', ReplayHolds'
  PROVE  RunInv'
<1>1. UNCHANGED <<zombie, stop, flow, sinkOk, result, runs, faults>>
  BY DEF Emit
<1>2. /\ gm' \in Manager /\ run' \in RunStates /\ sdk' \in Sessions
      /\ metrics' \in [nudges : Nat, kills : Nat]
      /\ Told(gm') = metrics'.nudges
      /\ run'.pc = run.pc /\ run'.timedOut = run.timedOut
      /\ sdk'.aborting \/ run'.grace => sdk.aborting \/ run.grace \/ run'.kill # "none"
      /\ run.kill # "none" => run' = run
  BY EmitKeeps
<1>3. TypesHold'
  BY <1>1, <1>2 DEF TypesHold, RunInv
<1>4. run'.pc = "running"
  BY <1>2 DEF Live
<1>5. FreshHolds'
  BY <1>4 DEF FreshHolds
<1>6. ZombieHolds'
  BY <1>1, <1>2 DEF ZombieHolds, RunInv
<1>7. AbortsHold'
  BY <1>1, <1>2 DEF AbortsHold, RunInv
<1>8. ResultTellsTheTruth'
  BY <1>1 DEF ResultTellsTheTruth, RunInv
<1> QED BY <1>2, <1>3, <1>5, <1>6, <1>7, <1>8 DEF RunInv

\* What is recent was heard or is on its way, if steering and turns keep to it.
LEMMA EmitHeard ==
  ASSUME RunInv, Live, NEW e, NEW next \in Sessions, Emit(e, next),
         Sound(gm, Observe(gm, e)), sdk.heard \subseteq next.heard,
         \/ sdk.steers \subseteq next.heard
         \/ /\ sdk.steers \subseteq next.steers
            /\ next.pc \in InTurn =>
                 sdk.pc \in InTurn /\ gm.repNudgeTurn \subseteq gm'.repNudgeTurn,
         Observe(gm, e).kind \in RepKinds =>
           LET d == Observe(gm, e)
           IN /\ d.action = "nudge" => d.kind \in d.g.repNudgeTurn
              /\ d.why = "ignored" => sdk.pc \in InTurn /\ d.kind \notin gm.repNudgeTurn
  PROVE  HeardHolds'
<1> DEFINE d == Observe(gm, e)
<1>1. /\ sdk'.heard = next.heard /\ sdk'.pc = next.pc
      /\ next.steers \subseteq sdk'.steers
      /\ run.kill # "none" => run' = run /\ gm' = gm
      /\ run.kill = "none" =>
           /\ gm' = d.g
           /\ d.action = "nudge" => d.kind \in sdk'.steers
           /\ run'.why = "ignored" =>
                \/ run.why = "ignored" /\ run'.kind = run.kind
                \/ d.why = "ignored" /\ run'.kind = d.kind
  BY EmitKeeps DEF Sessions
<1>2. /\ \A r \in d.g.recent : r \in gm.recent \/ (d.action = "nudge" /\ r.kind = d.kind)
      /\ d.why = "ignored" => \E r \in gm.recent : r.kind = d.kind
  BY DEF Sound
<1> HIDE DEF d
<1>3. /\ \A r \in gm.recent :
           r.kind \in RepKinds =>
             \/ r.kind \in sdk.heard
             \/ /\ r.kind \in sdk.steers
                /\ sdk.pc \in InTurn => r.kind \in gm.repNudgeTurn
      /\ run.why = "ignored" /\ run.kind \in RepKinds => run.kind \in sdk.heard
  BY DEF RunInv, HeardHolds
<1>4. ASSUME NEW r \in gm.recent, r.kind \in RepKinds
      PROVE  \/ r.kind \in sdk'.heard
             \/ /\ r.kind \in sdk'.steers
                /\ sdk'.pc \in InTurn => r.kind \in gm'.repNudgeTurn
  BY <1>1, <1>3, <1>4
<1>5. ASSUME NEW r \in gm'.recent, r.kind \in RepKinds
      PROVE  \/ r.kind \in sdk'.heard
             \/ /\ r.kind \in sdk'.steers
                /\ sdk'.pc \in InTurn => r.kind \in gm'.repNudgeTurn
  <2>1. CASE r \in gm.recent
    BY <1>4, <1>5, <2>1
  <2>2. CASE r \notin gm.recent
    <3>1. run.kill = "none"
      BY <1>1, <1>5, <2>2
    <3>2. d.action = "nudge" /\ r.kind = d.kind
      BY <1>1, <1>2, <1>5, <2>2, <3>1
    <3> QED BY <1>1, <1>5, <3>1, <3>2 DEF d
  <2> QED BY <2>1, <2>2
<1>6. ASSUME run'.why = "ignored", run'.kind \in RepKinds
      PROVE  run'.kind \in sdk'.heard
  <2>1. CASE run.why = "ignored" /\ run'.kind = run.kind
    BY <1>1, <1>3, <1>6, <2>1
  <2>2. CASE run.kill = "none" /\ d.why = "ignored" /\ run'.kind = d.kind
    <3>1. sdk.pc \in InTurn /\ d.kind \notin gm.repNudgeTurn
      BY <1>6, <2>2 DEF d
    <3>2. d.kind \in sdk.heard
      BY <1>2, <1>3, <1>6, <2>2, <3>1
    <3> QED BY <1>1, <2>2, <3>2
  <2> QED BY <1>1, <1>6, <2>1, <2>2
<1> QED BY <1>5, <1>6 DEF HeardHolds

\* What is void stays void.
LEMMA FedVoid ==
  ASSUME NEW r, "void" \in DOMAIN r, r.void, NEW e
  PROVE  "void" \in DOMAIN Fed(r, e) /\ Fed(r, e).void
BY DEF Fed

LEMMA VoidStays ==
  ASSUME NEW r \in Replays, r.void, NEW e, NEW d
  PROVE  Comparable(Read(r, e)) = Void /\ Comparable(Recorded(Read(r, e), d)) = Void
<1>1. "void" \in DOMAIN r
  BY DEF Replays
<1>2. "void" \in DOMAIN Read(r, e) /\ Read(r, e).void
  <2>1. \A f : "void" \in DOMAIN Fed(r, f) /\ Fed(r, f).void
    BY <1>1, FedVoid
  <2>2. "void" \in DOMAIN Blocks(r, e.msg) /\ Blocks(r, e.msg).void
    BY <2>1, FedVoid DEF Blocks
  <2> QED BY <1>1, <2>1, <2>2 DEF Read
<1>3. Recorded(Read(r, e), d).void
  BY <1>2 DEF Recorded
<1> QED BY <1>2, <1>3 DEF Comparable

\* An event of which the transcript has a line, and the message when it ended.
LEMMA EmitFollowed ==
  ASSUME RunInv, Live, NEW e, NEW next \in Sessions, Emit(e, next),
         Sound(gm, Observe(gm, e)), e.type \notin {"message_update", "message_end"},
         ~replay.void /\ run.kill = "none" =>
           LET c == Observe(replay.gm, e)
           IN /\ c \in Answer /\ c.action = Observe(gm, e).action
              /\ Entry(c) = Entry(Observe(gm, e))
  PROVE  /\ replay' \in Replays
         /\ ~replay'.void =>
              /\ ~replay.void /\ replay'.recorded = replay'.replayed
              /\ replay'.killed <=> run'.kill # "none"
              /\ run'.kill = "none" =>
                   run.kill = "none" /\ replay'.gm = Observe(replay.gm, e).g
<1> DEFINE d == Observe(gm, e)
           q == IF d.action # "none" THEN Recorded(Read(replay, e), d)
                ELSE Read(replay, e)
<1>1. replay' = Comparable(IF run.kill = "none" /\ d.action # "none"
                           THEN Recorded(Read(replay, e), d) ELSE Read(replay, e))
  BY DEF Emit
<1>2. /\ replay \in Replays /\ run \in RunStates
      /\ ~replay.void => /\ replay.recorded = replay.replayed
                         /\ replay.killed <=> run.kill # "none"
  BY DEF RunInv, TypesHold, ReplayHolds
<1>3. /\ d \in Answer
      /\ run.kill # "none" => run' = run
      /\ run.kill = "none" => run'.kill = IF d.action = "kill" THEN "guard" ELSE "none"
  BY EmitKeeps DEF Sound
<1> HIDE DEF d
<1>4. CASE replay.void
  BY <1>1, <1>2, <1>4, FreshValues, VoidStays
<1>5. CASE ~replay.void /\ run.kill # "none"
  <2>1. Read(replay, e) = replay
    BY <1>2, <1>5, FedKilled DEF Read
  <2>2. replay' = Comparable(replay)
    BY <1>1, <1>5, <2>1
  <2>3. replay' = Void \/ replay' = replay
    BY <2>2, ComparableIs
  <2> QED BY <1>2, <1>3, <1>5, <2>3, FreshValues
<1>6. CASE ~replay.void /\ run.kill = "none"
  <2>1. replay' = Comparable(q)
    BY <1>1, <1>6
  <2>2. Observe(replay.gm, e) \in Answer /\ Observe(replay.gm, e).action = d.action
        /\ Entry(Observe(replay.gm, e)) = Entry(d)
    BY <1>6 DEF d
  <2>3. /\ q \in Replays /\ ~q.void /\ q.recorded = q.replayed
        /\ q.gm = Observe(replay.gm, e).g
        /\ q.killed <=> d.action = "kill"
    BY <1>2, <1>3, <1>6, <2>2, Follows
  <2> HIDE DEF q
  <2>4. replay' = Void \/ replay' = q
    BY <2>1, ComparableIs
  <2> QED BY <1>3, <1>6, <2>3, <2>4, FreshValues
<1> QED BY <1>4, <1>5, <1>6

-----------------------------------------------------------------------------
(* The session, event by event.                                            *)

\* Outside a message the replay has the manager of the run, and comes to what it
\* comes to.
LEMMA OutsideFollowed ==
  ASSUME RunInv, Live, NEW e, NEW next \in Sessions, Emit(e, next),
         Sound(gm, Observe(gm, e)), e.type \notin {"message_update", "message_end"},
         sdk.pc # "message", next.pc # "message"
  PROVE  replay' \in Replays /\ ReplayHolds'
<1>1. ~replay.void /\ run.kill = "none" => replay.gm = gm
  BY DEF RunInv, ReplayHolds, Live
<1>2. ~replay.void /\ run.kill = "none" =>
        LET c == Observe(replay.gm, e)
        IN /\ c \in Answer /\ c.action = Observe(gm, e).action
           /\ Entry(c) = Entry(Observe(gm, e))
  BY <1>1 DEF Sound
<1>3. /\ replay' \in Replays
      /\ ~replay'.void =>
           /\ ~replay.void /\ replay'.recorded = replay'.replayed
           /\ replay'.killed <=> run'.kill # "none"
           /\ run'.kill = "none" =>
                run.kill = "none" /\ replay'.gm = Observe(replay.gm, e).g
  BY <1>2, EmitFollowed
<1>4. /\ sdk'.pc = next.pc
      /\ run.kill = "none" => gm' = Observe(gm, e).g
  BY EmitFacts
<1>5. ~replay'.void /\ run'.kill = "none" => replay'.gm = gm'
  BY <1>1, <1>3, <1>4
<1> QED BY <1>3, <1>4, <1>5 DEF ReplayHolds

LEMMA MessageBeginsInv == ASSUME RunInv, MessageBegins PROVE RunInv'
<1>1. PICK e, next :
        /\ e = [type |-> "message_start"]
        /\ next = [sdk EXCEPT !.pc = "message", !.msg = [k \in RepKinds |-> 0],
                              !.calls = 0, !.steers = {}, !.heard = @ \cup sdk.steers]
  OBVIOUS
<1>2. /\ Live /\ Emit(e, next) /\ sdk.pc = "between" /\ sdk.n < MaxTurns
  BY <1>1 DEF MessageBegins
<1>3. /\ sdk \in Sessions /\ gm \in Manager /\ acc \in [error : BOOLEAN]
      /\ replay \in Replays
  BY DEF RunInv, TypesHold
<1>4. /\ next \in Sessions /\ next.pc = "message" /\ next.msg = [k \in RepKinds |-> 0]
      /\ next.steers = {} /\ next.heard = sdk.heard \cup sdk.steers
      /\ next.n = sdk.n /\ next.aborting = sdk.aborting /\ next.retrying = sdk.retrying
  <2>1. [k \in RepKinds |-> 0] \in [RepKinds -> Nat] /\ {} \in SUBSET NudgedKinds
        /\ sdk.heard \cup sdk.steers \in SUBSET NudgedKinds /\ "message" \in Places
    BY <1>3 DEF Sessions, Places, InTurn
  <2> QED BY <1>1, <1>3, <2>1 DEF Sessions
<1>5. e.type = "message_start"
  BY <1>1
<1>6. \A g \in Manager : Observe(g, e) = Quiet(Cleared(g)) /\ Sound(g, Quiet(Cleared(g)))
  BY <1>5, StartAnswer
<1>7. Sound(gm, Observe(gm, e)) /\ Observe(gm, e) = Quiet(Cleared(gm))
  BY <1>3, <1>6
<1>8. acc' = acc
  BY <1>2, <1>5, Zenon DEF Emit, Accumulated
<1>9. /\ sdk'.pc = "message" /\ sdk'.msg = [k \in RepKinds |-> 0] /\ sdk'.n = sdk.n
      /\ sdk'.retrying = sdk.retrying
      /\ run.kill # "none" => run' = run /\ gm' = gm
      /\ run.kill = "none" => gm' = Cleared(gm)
      /\ run'.timedOut = run.timedOut
  <2>1. Observe(gm, e).g = Cleared(gm)
    BY <1>7 DEF Quiet
  <2> QED BY <1>2, <1>4, <1>7, <2>1, EmitFacts
<1>10. TurnsHold'
  <2>1. gm'.turn = gm.turn
    BY <1>3, <1>9, ClearedIsManager
  <2> QED BY <1>2, <1>9, <2>1 DEF TurnsHold, RunInv
<1>11. HeardHolds'
  BY <1>2, <1>4, <1>7, EmitHeard DEF Quiet, RepKinds
<1>12. ErrorsHold'
  BY <1>2, <1>8, <1>9 DEF ErrorsHold, RunInv, InTurn
<1>13. /\ replay' \in Replays
       /\ ~replay'.void =>
            /\ ~replay.void /\ replay'.recorded = replay'.replayed
            /\ replay'.killed <=> run'.kill # "none"
            /\ run'.kill = "none" => run.kill = "none" /\ replay'.gm = Cleared(gm)
  <2>1. ~replay.void /\ run.kill = "none" => replay.gm = gm
    BY <1>2 DEF RunInv, ReplayHolds
  <2>2. ~replay.void /\ run.kill = "none" =>
          LET c == Observe(replay.gm, e)
          IN /\ c \in Answer /\ c.action = Observe(gm, e).action
             /\ Entry(c) = Entry(Observe(gm, e)) /\ c.g = Cleared(gm)
    BY <1>7, <2>1 DEF Sound, Quiet
  <2> QED BY <1>2, <1>4, <1>5, <1>7, <2>2, EmitFollowed
<1>14. ReplayHolds'
  <2>1. Cleared(gm) \in Manager /\ Cleared(gm).buf = [k \in RepKinds |-> 0]
        /\ Cleared(Cleared(gm)) = Cleared(gm)
    BY <1>3, ClearedIsManager DEF Cleared, Manager
  <2>2. \A k \in RepKinds : [i \in RepKinds |-> 0][k] < RepeatsAt
    BY ThresholdAssumption
  <2> QED BY <1>9, <1>13, <2>1, <2>2 DEF ReplayHolds
<1> QED BY <1>2, <1>3, <1>4, <1>7, <1>8, <1>10, <1>11, <1>12, <1>13, <1>14, EmitInv

LEMMA DeltaInv ==
  ASSUME RunInv, NEW kind \in Streams, Delta(kind)
  PROVE  RunInv'
<1>1. PICK e, next :
        /\ e = [type |-> "message_update", kind |-> kind, repeats |-> 1]
        /\ next = [sdk EXCEPT !.msg[kind] = @ + 1]
  OBVIOUS
<1>2. /\ Live /\ Emit(e, next) /\ sdk.pc = "message"
  BY <1>1 DEF Delta
<1>3. /\ sdk \in Sessions /\ gm \in Manager /\ acc \in [error : BOOLEAN]
      /\ replay \in Replays /\ kind \in RepKinds
  BY RunAssumption DEF RunInv, TypesHold
<1> DEFINE m == [sdk.msg EXCEPT ![kind] = @ + 1]
           h == Counted(gm, kind, 1)
           d == Observe(gm, e)
<1>4. /\ next \in Sessions /\ next.pc = "message" /\ next.msg = m
      /\ next.steers = sdk.steers /\ next.heard = sdk.heard
      /\ next.n = sdk.n /\ next.aborting = sdk.aborting /\ next.retrying = sdk.retrying
  <2>1. sdk.msg \in [RepKinds -> Nat]
    BY <1>3 DEF Sessions
  <2>2. m \in [RepKinds -> Nat]
    BY <1>3, <2>1
  <2>3. next = [sdk EXCEPT !.msg = m]
    BY <1>1, <1>3 DEF Sessions
  <2> HIDE DEF m
  <2> QED BY <1>2, <1>3, <2>2, <2>3 DEF Sessions
<1>5. e.type = "message_update" /\ e.kind = kind /\ e.repeats = 1
  BY <1>1
<1>6. /\ Sound(gm, d) /\ d.g.turn = gm.turn
      /\ gm.repNudgeTurn \subseteq d.g.repNudgeTurn
      /\ d.action = "nudge" => kind \in d.g.repNudgeTurn
      /\ d.why = "ignored" => kind \notin gm.repNudgeTurn
      /\ IF h.buf[kind] < RepeatsAt THEN d = Quiet(h)
         ELSE d.kind = kind /\ d.action # "none"
  BY <1>3, <1>5, UpdateAnswer
<1>7. d.kind \in {kind, "none"}
  BY <1>6 DEF Quiet
<1>8. acc' = acc
  BY <1>2, <1>5, Zenon DEF Emit, Accumulated
<1> HIDE DEF d
<1>9. /\ sdk'.pc = "message" /\ sdk'.msg = m /\ sdk'.n = sdk.n
      /\ sdk'.retrying = sdk.retrying
      /\ run.kill # "none" => run' = run /\ gm' = gm
      /\ run.kill = "none" => gm' = d.g
      /\ run'.kill = "none" => run.kill = "none" /\ d.action # "kill"
      /\ run'.timedOut = run.timedOut
  BY <1>2, <1>4, <1>6, EmitFacts DEF d
<1>10. TurnsHold'
  <2>1. gm'.turn = gm.turn
    BY <1>6, <1>9
  <2>2. sdk.pc \in InTurn
    BY <1>2 DEF InTurn
  <2> QED BY <1>9, <2>1, <2>2 DEF TurnsHold, RunInv
<1>11. HeardHolds'
  <2>1. gm.repNudgeTurn \subseteq gm'.repNudgeTurn
    BY <1>6, <1>9
  <2>2. "none" \notin RepKinds /\ sdk.pc \in InTurn
    BY <1>2 DEF RepKinds, InTurn
  <2>3. Observe(gm, e).kind \in RepKinds =>
           LET o == Observe(gm, e)
           IN /\ o.action = "nudge" => o.kind \in o.g.repNudgeTurn
              /\ o.why = "ignored" => sdk.pc \in InTurn /\ o.kind \notin gm.repNudgeTurn
    BY <1>6, <1>7, <2>2 DEF d
  <2>4. Sound(gm, Observe(gm, e))
    BY <1>6 DEF d
  <2> QED BY <1>2, <1>4, <2>1, <2>2, <2>3, <2>4, EmitHeard
<1>12. ErrorsHold'
  BY <1>2, <1>8, <1>9 DEF ErrorsHold, RunInv, InTurn
<1>13. Read(replay, e) = replay
  BY <1>5 DEF Read
<1>14. replay' = Comparable(IF run.kill = "none" /\ d.action # "none"
                            THEN Recorded(replay, d) ELSE replay)
  BY <1>2, <1>13 DEF Emit, d
<1>15. CASE run.kill = "none" /\ d.action # "none"
  <2>1. replay' = Void
    <3>1. d \in Answer /\ d.kind \in RepKinds
      BY <1>3, <1>6, <1>15 DEF Sound, Quiet
    <3> QED BY <1>3, <1>14, <1>15, <3>1, RepeatsVoid
  <2>2. replay' \in Replays /\ replay'.void
    BY <2>1, FreshValues
  <2>3. ReplayHolds'
    BY <2>2 DEF ReplayHolds
  <2> QED BY <1>2, <1>3, <1>4, <1>6, <1>8, <1>10, <1>11, <1>12, <2>2, <2>3, EmitInv DEF d
<1>16. CASE ~(run.kill = "none" /\ d.action # "none")
  <2>1. replay' = Void \/ replay' = replay
    BY <1>14, <1>16, ComparableIs
  <2>2. replay' \in Replays /\ (~replay'.void => replay' = replay)
    BY <1>3, <2>1, FreshValues
  <2>3. ReplayHolds'
    <3>1. SUFFICES ASSUME ~replay'.void
                   PROVE  ReplayHolds'
      BY DEF ReplayHolds
    <3>2. /\ replay' = replay /\ ~replay.void /\ replay.recorded = replay.replayed
          /\ replay.killed <=> run.kill # "none"
          /\ run.kill = "none" =>
               /\ replay.gm = Cleared(gm) /\ gm.buf = sdk.msg
               /\ \A k \in RepKinds : sdk.msg[k] < RepeatsAt
      BY <1>2, <2>2, <3>1 DEF RunInv, ReplayHolds
    <3>3. CASE run.kill # "none"
      BY <1>9, <3>2, <3>3 DEF ReplayHolds
    <3>4. CASE run.kill = "none"
      <4>1. d.action = "none" /\ h.buf[kind] < RepeatsAt /\ d = Quiet(h)
        BY <1>6, <1>16, <3>4
      <4>2. gm' = h
        BY <1>9, <3>4, <4>1 DEF Quiet
      <4>3. h.buf = m
        <5>1. /\ h.buf[kind] = gm.buf[kind] + 1 /\ h \in Manager
              /\ \A k \in RepKinds \ {kind} : h.buf[k] = gm.buf[k]
          BY <1>3, CountedIsManager
        <5>2. h.buf \in [RepKinds -> Nat] /\ gm.buf = sdk.msg
              /\ sdk.msg \in [RepKinds -> Nat]
          BY <1>3, <3>2, <3>4, <5>1 DEF Manager
        <5> HIDE DEF h
        <5> QED BY <1>3, <5>1, <5>2
      <4>4. Cleared(h) = Cleared(gm)
        BY <1>3 DEF Counted, Cleared, Manager
      <4>5. sdk.msg \in [RepKinds -> Nat]
        BY <1>3 DEF Sessions
      <4>6. \A k \in RepKinds : m[k] < RepeatsAt
        <5>1. ASSUME NEW k \in RepKinds PROVE m[k] < RepeatsAt
          <6>1. CASE k = kind
            BY <4>1, <4>3, <6>1
          <6>2. CASE k # kind
            BY <3>2, <3>4, <4>5, <6>2
          <6> QED BY <6>1, <6>2
        <5> QED BY <5>1
      <4>7. run'.kill = "none"
        <5>1. run'.kill = IF d.action = "kill" THEN "guard" ELSE "none"
          BY <1>2, <1>4, <1>6, <3>4, EmitKeeps DEF d
        <5> QED BY <4>1, <5>1
      <4> HIDE DEF h, m
      <4> QED BY <1>9, <3>2, <3>4, <4>2, <4>3, <4>4, <4>6, <4>7 DEF ReplayHolds
    <3> QED BY <3>3, <3>4
  <2> QED BY <1>2, <1>3, <1>4, <1>6, <1>8, <1>10, <1>11, <1>12, <2>2, <2>3, EmitInv DEF d
<1> QED BY <1>15, <1>16

LEMMA MessageEndsInv == ASSUME RunInv, MessageEnds PROVE RunInv'
<1>1. PICK e, next : /\ e = [type |-> "message_end", msg |-> sdk.msg]
                     /\ next = [sdk EXCEPT !.pc = "tools"]
  OBVIOUS
<1>2. Live /\ Emit(e, next) /\ sdk.pc = "message"
  BY <1>1 DEF MessageEnds
<1>3. /\ sdk \in Sessions /\ gm \in Manager /\ acc \in [error : BOOLEAN]
      /\ replay \in Replays
  BY DEF RunInv, TypesHold
<1>4. /\ next \in Sessions /\ next.pc = "tools" /\ next.steers = sdk.steers
      /\ next.heard = sdk.heard /\ next.n = sdk.n /\ next.aborting = sdk.aborting
      /\ next.retrying = sdk.retrying
  BY <1>1, <1>3 DEF Sessions, Places, InTurn
<1>5. e.type = "message_end" /\ e.msg = sdk.msg
  BY <1>1
<1>6. Observe(gm, e) = Quiet(gm) /\ Sound(gm, Observe(gm, e))
  BY <1>3, <1>5, OtherAnswer
<1>7. Observe(gm, e).action = "none" /\ Observe(gm, e).g = gm
      /\ Observe(gm, e).kind \notin RepKinds
  BY <1>6 DEF Quiet, RepKinds
<1>8. acc' = acc
  BY <1>2, <1>5, Zenon DEF Emit, Accumulated
<1>9. /\ sdk'.pc = "tools" /\ sdk'.n = sdk.n /\ sdk'.retrying = sdk.retrying
      /\ gm' = gm /\ run'.timedOut = run.timedOut
  BY <1>2, <1>4, <1>6, <1>7, EmitFacts
<1>10. run' = run
  BY <1>2, <1>7 DEF Emit
<1>11. TurnsHold'
  BY <1>2, <1>9 DEF TurnsHold, RunInv, InTurn
<1>12. HeardHolds'
  BY <1>2, <1>4, <1>6, <1>7, <1>9, EmitHeard DEF InTurn
<1>13. ErrorsHold'
  BY <1>2, <1>8, <1>9 DEF ErrorsHold, RunInv, InTurn
<1>14. replay' = Comparable(Blocks(replay, sdk.msg))
  BY <1>2, <1>5, <1>7 DEF Emit, Read
<1>15. replay' \in Replays /\ ReplayHolds'
  <2>1. CASE replay.void
    <3>1. Comparable(Read(replay, e)) = Void
      BY <1>3, <2>1, VoidStays
    <3>2. replay' = Void
      BY <1>5, <1>14, <3>1 DEF Read
    <3> QED BY <3>2, FreshValues DEF ReplayHolds
  <2>2. CASE ~replay.void /\ run.kill # "none"
    <3>1. Blocks(replay, sdk.msg) = replay
      BY <2>2, FedKilled DEF Blocks, RunInv, ReplayHolds
    <3>2. replay' = Void \/ replay' = replay
      BY <1>14, <3>1, ComparableIs
    <3> QED BY <1>3, <1>10, <2>2, <3>2, FreshValues DEF ReplayHolds, RunInv
  <2>3. CASE ~replay.void /\ run.kill = "none"
    <3>1. /\ replay.recorded = replay.replayed /\ ~replay.killed
          /\ replay.gm = Cleared(gm) /\ gm.buf = sdk.msg
          /\ \A k \in RepKinds : gm.buf[k] < RepeatsAt
      BY <1>2, <2>3 DEF RunInv, ReplayHolds
    <3> DEFINE q == Blocks(replay, gm.buf)
    <3>2. /\ q \in Replays /\ q.gm = gm /\ ~q.killed /\ q.recorded = replay.recorded
          /\ q.replayed = replay.replayed /\ q.void = replay.void
      BY <1>3, <3>1, BlocksQuiet
    <3> HIDE DEF q
    <3>3. replay' = Comparable(q)
      BY <1>14, <3>1 DEF q
    <3>4. replay' = Void \/ replay' = q
      BY <3>3, ComparableIs
    <3> QED BY <1>9, <1>10, <2>3, <3>1, <3>2, <3>4, FreshValues DEF ReplayHolds
  <2> QED BY <2>1, <2>2, <2>3
<1> QED BY <1>2, <1>3, <1>4, <1>6, <1>8, <1>11, <1>12, <1>13, <1>15, EmitInv

LEMMA ToolStartsInv ==
  ASSUME RunInv, NEW call \in Calls, ToolStarts(call)
  PROVE  RunInv'
<1>1. PICK e, next :
        /\ e = [type |-> "tool_execution_start", call |-> call]
        /\ next = [sdk EXCEPT !.pc = "tool", !.calls = @ + 1, !.call = call]
  OBVIOUS
<1>2. Live /\ Emit(e, next) /\ sdk.pc = "tools"
  BY <1>1 DEF ToolStarts
<1>3. /\ sdk \in Sessions /\ gm \in Manager /\ acc \in [error : BOOLEAN]
  BY DEF RunInv, TypesHold
<1>4. /\ next \in Sessions /\ next.pc = "tool" /\ next.steers = sdk.steers
      /\ next.heard = sdk.heard /\ next.n = sdk.n /\ next.aborting = sdk.aborting
      /\ next.retrying = sdk.retrying /\ next.call = call
  <2>1. sdk.calls + 1 \in Nat /\ call \in Calls \cup {<<>>} /\ "tool" \in Places
    BY <1>3 DEF Sessions, Places, InTurn
  <2>2. next = [sdk EXCEPT !.pc = "tool", !.calls = sdk.calls + 1, !.call = call]
    BY <1>1
  <2> QED BY <1>3, <2>1, <2>2 DEF Sessions
<1>5. e.type = "tool_execution_start" /\ e.call = call
  BY <1>1
<1>6. Aside(gm, Observe(gm, e))
  BY <1>3, <1>5, ToolStartAnswer
<1>7. /\ Sound(gm, Observe(gm, e)) /\ Observe(gm, e).kind \notin RepKinds
      /\ Observe(gm, e).g.turn = gm.turn
      /\ Observe(gm, e).g.repNudgeTurn = gm.repNudgeTurn
  BY <1>6 DEF Aside
<1>8. acc' = acc
  BY <1>2, <1>5, Zenon DEF Emit, Accumulated
<1>9. /\ sdk'.pc = "tool" /\ sdk'.n = sdk.n /\ sdk'.retrying = sdk.retrying
      /\ sdk'.call = call /\ run'.timedOut = run.timedOut
      /\ gm'.turn = gm.turn /\ gm'.repNudgeTurn = gm.repNudgeTurn
  BY <1>2, <1>4, <1>7, EmitFacts
<1>10. TurnsHold'
  BY <1>2, <1>9 DEF TurnsHold, RunInv, InTurn
<1>11. HeardHolds'
  BY <1>2, <1>4, <1>7, <1>9, EmitHeard DEF InTurn
<1>12. ErrorsHold'
  BY <1>2, <1>8, <1>9 DEF ErrorsHold, RunInv, InTurn
<1>13. replay' \in Replays /\ ReplayHolds'
  BY <1>2, <1>4, <1>5, <1>7, OutsideFollowed
<1> QED BY <1>2, <1>3, <1>4, <1>7, <1>8, <1>10, <1>11, <1>12, <1>13, EmitInv

LEMMA ToolEndsInv ==
  ASSUME RunInv, NEW isError \in BOOLEAN, ToolEnds(isError)
  PROVE  RunInv'
<1>1. PICK e, next, call :
        /\ call = sdk.call
        /\ e = [type |-> "tool_execution_end", call |-> sdk.call, isError |-> isError]
        /\ next = [sdk EXCEPT !.pc = "tools", !.call = <<>>]
  OBVIOUS
<1>2. Live /\ Emit(e, next) /\ sdk.pc = "tool"
  BY <1>1 DEF ToolEnds
<1>3. /\ sdk \in Sessions /\ gm \in Manager /\ acc \in [error : BOOLEAN]
      /\ call \in Calls
  BY <1>1, <1>2 DEF RunInv, TypesHold, TurnsHold
<1>4. /\ next \in Sessions /\ next.pc = "tools" /\ next.steers = sdk.steers
      /\ next.heard = sdk.heard /\ next.n = sdk.n /\ next.aborting = sdk.aborting
      /\ next.retrying = sdk.retrying
  BY <1>1, <1>3 DEF Sessions, Places, InTurn
<1>5. e.type = "tool_execution_end" /\ e.call = call /\ e.isError = isError
  BY <1>1
<1>6. Aside(gm, Observe(gm, e))
  BY <1>3, <1>5, ToolEndAnswer
<1>7. /\ Sound(gm, Observe(gm, e)) /\ Observe(gm, e).kind \notin RepKinds
      /\ Observe(gm, e).g.turn = gm.turn
      /\ Observe(gm, e).g.repNudgeTurn = gm.repNudgeTurn
  BY <1>6 DEF Aside
<1>8. acc' = acc
  BY <1>2, <1>5, Zenon DEF Emit, Accumulated
<1>9. /\ sdk'.pc = "tools" /\ sdk'.n = sdk.n /\ sdk'.retrying = sdk.retrying
      /\ run'.timedOut = run.timedOut
      /\ gm'.turn = gm.turn /\ gm'.repNudgeTurn = gm.repNudgeTurn
  BY <1>2, <1>4, <1>7, EmitFacts
<1>10. TurnsHold'
  BY <1>2, <1>9 DEF TurnsHold, RunInv, InTurn
<1>11. HeardHolds'
  BY <1>2, <1>4, <1>7, <1>9, EmitHeard DEF InTurn
<1>12. ErrorsHold'
  BY <1>2, <1>8, <1>9 DEF ErrorsHold, RunInv, InTurn
<1>13. replay' \in Replays /\ ReplayHolds'
  BY <1>2, <1>4, <1>5, <1>7, OutsideFollowed
<1> QED BY <1>2, <1>3, <1>4, <1>7, <1>8, <1>10, <1>11, <1>12, <1>13, EmitInv

LEMMA RetryEndsInv == ASSUME RunInv, RetryEnds PROVE RunInv'
<1> DEFINE to == IF sdk.pc = "retried" THEN "between" ELSE "settled"
<1>1. PICK e, next :
        /\ e = [type |-> "auto_retry_end", success |-> ~sdk.failed]
        /\ next = [sdk EXCEPT !.pc = IF @ = "retried" THEN "between" ELSE "settled"]
  OBVIOUS
<1>2. Live /\ Emit(e, next) /\ sdk.pc \in {"retried", "retrylast"}
  BY <1>1 DEF RetryEnds
<1>3. /\ sdk \in Sessions /\ gm \in Manager /\ acc \in [error : BOOLEAN]
  BY DEF RunInv, TypesHold
<1>4. /\ next \in Sessions /\ next.pc = to /\ next.steers = sdk.steers
      /\ next.heard = sdk.heard /\ next.n = sdk.n /\ next.aborting = sdk.aborting
      /\ next.retrying = sdk.retrying /\ next.failed = sdk.failed
  BY <1>1, <1>3 DEF Sessions, Places, InTurn
<1>5. e.type = "auto_retry_end" /\ e.success = ~sdk.failed
  BY <1>1
<1>6. Observe(gm, e) = Quiet(gm) /\ Sound(gm, Observe(gm, e))
  BY <1>3, <1>5, OtherAnswer
<1>7. Observe(gm, e).g = gm /\ Observe(gm, e).kind \notin RepKinds
  BY <1>6 DEF Quiet, RepKinds
<1>8. acc' = [acc EXCEPT !.error = ~e.success]
  BY <1>2, <1>5, Zenon DEF Emit, Accumulated
<1>9. acc' \in [error : BOOLEAN] /\ acc'.error = sdk.failed
  <2>1. (~e.success) = sdk.failed /\ sdk.failed \in BOOLEAN
    BY <1>3, <1>5 DEF Sessions
  <2> QED BY <1>3, <1>8, <2>1
<1>10. /\ sdk'.pc = to /\ sdk'.n = sdk.n /\ sdk'.retrying = sdk.retrying
       /\ sdk'.failed = sdk.failed
       /\ gm' = gm /\ run'.timedOut = run.timedOut
  BY <1>2, <1>4, <1>6, <1>7, EmitFacts
<1>11. TurnsHold'
  BY <1>2, <1>10 DEF TurnsHold, RunInv, InTurn
<1>12. HeardHolds'
  BY <1>2, <1>4, <1>6, <1>7, EmitHeard DEF InTurn
<1>13. ErrorsHold'
  BY <1>2, <1>9, <1>10 DEF ErrorsHold, RunInv, InTurn
<1>14. replay' \in Replays /\ ReplayHolds'
  BY <1>2, <1>4, <1>5, <1>6, OutsideFollowed
<1> QED BY <1>2, <1>3, <1>4, <1>6, <1>9, <1>11, <1>12, <1>13, <1>14, EmitInv

LEMMA TurnEndsInv ==
  ASSUME RunInv, NEW tokens \in Tokens, NEW failed \in BOOLEAN, NEW again \in BOOLEAN,
         TurnEnds(tokens, failed, again)
  PROVE  RunInv'
<1> DEFINE retried == sdk.retrying /\ ~(failed /\ again)
           to == IF retried THEN IF again THEN "retried" ELSE "retrylast"
                 ELSE IF again THEN "between" ELSE "settled"
           re == failed /\ again
<1>1. PICK e, next :
        /\ e = [type |-> "turn_end", tokens |-> tokens, failed |-> failed]
        /\ next = [sdk EXCEPT !.n = @ + 1, !.failed = failed, !.pc = to, !.retrying = re]
  OBVIOUS
<1>2. Live /\ Emit(e, next) /\ sdk.pc \in {"message", "tools"}
  BY <1>1 DEF TurnEnds
<1>3. /\ sdk \in Sessions /\ gm \in Manager /\ acc \in [error : BOOLEAN]
      /\ replay \in Replays
  BY DEF RunInv, TypesHold
<1>4. /\ next \in Sessions /\ next.pc = to /\ next.steers = sdk.steers
      /\ next.heard = sdk.heard /\ next.n = sdk.n + 1 /\ next.aborting = sdk.aborting
      /\ next.retrying = re /\ next.failed = failed /\ to \notin InTurn /\ to # "off"
  <2>1. sdk.n + 1 \in Nat /\ re \in BOOLEAN
    BY <1>3 DEF Sessions
  <2>2. to \in {"retried", "retrylast", "between", "settled"}
    BY Zenon
  <2>3. to \in Places /\ to \notin InTurn /\ to # "off"
    BY <2>2 DEF Places, InTurn
  <2>4. next = [sdk EXCEPT !.n = sdk.n + 1, !.failed = failed, !.pc = to, !.retrying = re]
    BY <1>1
  <2> HIDE DEF to, re
  <2> QED BY <1>3, <2>1, <2>3, <2>4 DEF Sessions
<1>5. e.type = "turn_end" /\ e.failed = failed
  BY <1>1
<1> DEFINE d == Observe(gm, e)
<1>6. /\ Sound(gm, d) /\ d.kind \notin RepKinds /\ d.g = NextTurn(gm)
      /\ Observe(Cleared(gm), e).g = d.g
      /\ Observe(Cleared(gm), e).action = d.action
      /\ Entry(Observe(Cleared(gm), e)) = Entry(d)
  BY <1>3, <1>5, TurnAnswer
<1>7. Sound(Cleared(gm), Observe(Cleared(gm), e))
  <2>1. Cleared(gm) \in Manager
    BY <1>3, ClearedIsManager
  <2> QED BY <1>5, <2>1, TurnAnswer
<1> HIDE DEF d
<1>8. acc' = [acc EXCEPT !.error = @ \/ e.failed]
  BY <1>2, <1>5, Zenon DEF Emit, Accumulated
<1>9. acc' \in [error : BOOLEAN] /\ acc'.error = (acc.error \/ failed)
  <2>1. /\ (acc.error \/ e.failed) = (acc.error \/ failed)
        /\ (acc.error \/ failed) \in BOOLEAN
    BY <1>5
  <2> QED BY <1>3, <1>8, <2>1
<1>10. /\ sdk'.pc = to /\ sdk'.n = sdk.n + 1 /\ sdk'.retrying = re /\ sdk'.failed = failed
       /\ run.kill # "none" => run' = run /\ gm' = gm
       /\ run.kill = "none" => gm' = d.g
       /\ run'.kill = "none" => run.kill = "none"
       /\ run'.timedOut = run.timedOut
  BY <1>2, <1>4, <1>6, EmitFacts DEF d
<1>11. TurnsHold'
  <2>1. gm'.turn <= gm.turn + 1 /\ gm'.turn \in Nat /\ gm.turn \in Nat
    <3>1. d.g.turn = gm.turn + 1 /\ gm.turn \in Nat
      BY <1>3, <1>6, NextTurnIsManager DEF Manager
    <3> QED BY <1>10, <3>1
  <2>2. gm.turn <= sdk.n /\ sdk.n < MaxTurns /\ sdk.n \in Nat /\ MaxTurns \in Nat
    BY <1>2, <1>3, RunAssumption DEF RunInv, TurnsHold, InTurn, Sessions
  <2>3. sdk'.pc \notin InTurn /\ sdk'.pc # "off" /\ sdk'.pc # "tool"
    BY <1>4, <1>10 DEF InTurn
  <2>4. gm'.turn <= sdk'.n /\ sdk'.n <= MaxTurns
    BY <1>10, <2>1, <2>2
  <2> QED BY <2>3, <2>4 DEF TurnsHold
<1>12. HeardHolds'
  BY <1>2, <1>4, <1>6, EmitHeard DEF d
<1>13. ErrorsHold'
  <2>1. ~sdk.retrying => ~acc.error
    BY <1>2 DEF RunInv, ErrorsHold, InTurn
  <2>2. CASE retried
    <3>1. sdk'.pc \in {"retried", "retrylast"} /\ ~sdk'.retrying
          /\ (sdk'.pc = "retried" => ~sdk'.failed)
      BY <1>10, <2>2
    <3> QED BY <3>1 DEF ErrorsHold, InTurn
  <2>3. CASE ~retried
    <3>1. sdk'.pc = (IF again THEN "between" ELSE "settled") /\ sdk'.retrying = re
          /\ sdk'.failed = failed
      BY <1>10, <2>3
    <3>2. ~again => ~sdk.retrying
      BY <2>3
    <3>3. again /\ ~re => ~failed /\ ~sdk.retrying
      BY <2>3
    <3>4. ~sdk'.retrying /\ sdk'.pc = "between" => ~acc'.error
      BY <1>9, <2>1, <3>1, <3>3
    <3>5. sdk'.pc = "settled" => acc'.error = failed
      BY <1>9, <2>1, <3>1, <3>2
    <3> QED BY <3>1, <3>4, <3>5 DEF ErrorsHold, InTurn
  <2> QED BY <2>2, <2>3
<1>14. /\ replay' \in Replays
       /\ ~replay'.void =>
            /\ ~replay.void /\ replay'.recorded = replay'.replayed
            /\ replay'.killed <=> run'.kill # "none"
            /\ run'.kill = "none" => run.kill = "none" /\ replay'.gm = d.g
  <2>1. ~replay.void /\ run.kill = "none" => replay.gm \in {gm, Cleared(gm)}
    BY <1>2 DEF RunInv, ReplayHolds
  <2>2. ~replay.void /\ run.kill = "none" =>
          LET c == Observe(replay.gm, e)
          IN /\ c \in Answer /\ c.action = Observe(gm, e).action
             /\ Entry(c) = Entry(Observe(gm, e)) /\ c.g = d.g
    BY <1>6, <1>7, <2>1 DEF Sound, d
  <2>3. Sound(gm, Observe(gm, e))
    BY <1>6 DEF d
  <2> QED BY <1>2, <1>4, <1>5, <2>2, <2>3, EmitFollowed
<1>15. ReplayHolds'
  <2>1. sdk'.pc # "message"
    BY <1>4, <1>10 DEF InTurn
  <2> QED BY <1>10, <1>14, <2>1 DEF ReplayHolds
<1> QED BY <1>2, <1>3, <1>4, <1>6, <1>9, <1>11, <1>12, <1>13, <1>14, <1>15, EmitInv DEF d

LEMMA AbortLandsInv == ASSUME RunInv, AbortLands PROVE RunInv'
<1>1. /\ Live /\ sdk.aborting /\ sdk' = [sdk EXCEPT !.pc = "settled"]
      /\ UNCHANGED <<run, gm, acc, zombie, stop, flow, sinkOk, replay, metrics, result,
                     runs, faults>>
  BY DEF AbortLands
<1>2. sdk \in Sessions
  BY DEF RunInv, TypesHold
<1>3. /\ sdk' \in Sessions /\ sdk'.pc = "settled" /\ sdk'.n = sdk.n
      /\ sdk'.aborting = sdk.aborting /\ sdk'.steers = sdk.steers
      /\ sdk'.heard = sdk.heard /\ sdk'.failed = sdk.failed
  BY <1>1, <1>2 DEF Sessions, Places
<1>4. run.kill # "none" \/ run.timedOut
  BY <1>1 DEF RunInv, AbortsHold
<1>5. TypesHold' /\ FreshHolds'
  BY <1>1, <1>3 DEF RunInv, TypesHold, FreshHolds, Live
<1>6. TurnsHold' /\ ZombieHolds' /\ AbortsHold'
  BY <1>1, <1>3 DEF RunInv, TurnsHold, ZombieHolds, AbortsHold, InTurn
<1>7. (Told(gm) = metrics.nudges)'
  BY <1>1 DEF RunInv, Told
<1>8. HeardHolds'
  BY <1>1, <1>3 DEF RunInv, HeardHolds, InTurn
<1>9. ErrorsHold'
  BY <1>1, <1>3, <1>4 DEF ErrorsHold, InTurn
<1>10. ReplayHolds'
  BY <1>1, <1>3 DEF RunInv, ReplayHolds
<1>11. ResultTellsTheTruth'
  BY <1>1 DEF RunInv, ResultTellsTheTruth
<1> QED BY <1>5, <1>6, <1>7, <1>8, <1>9, <1>10, <1>11 DEF RunInv

LEMMA PromptRejectsInv == ASSUME RunInv, PromptRejects PROVE RunInv'
<1>1. /\ Live /\ faults < MaxFaults /\ faults' = faults + 1
      /\ sdk' = [sdk EXCEPT !.pc = "settled", !.failed = TRUE] /\ acc' = [error |-> TRUE]
      /\ UNCHANGED <<run, gm, zombie, stop, flow, sinkOk, replay, metrics, result, runs>>
  BY DEF PromptRejects
<1>2. sdk \in Sessions /\ faults \in 0 .. MaxFaults /\ MaxFaults \in Nat
  BY RunAssumption DEF RunInv, TypesHold
<1>3. /\ sdk' \in Sessions /\ sdk'.pc = "settled" /\ sdk'.n = sdk.n
      /\ sdk'.aborting = sdk.aborting /\ sdk'.steers = sdk.steers
      /\ sdk'.heard = sdk.heard /\ sdk'.failed = TRUE
  BY <1>1, <1>2 DEF Sessions, Places
<1>4. faults' \in 0 .. MaxFaults /\ acc' \in [error : BOOLEAN] /\ acc'.error = TRUE
  BY <1>1, <1>2
<1>5. TypesHold' /\ FreshHolds'
  BY <1>1, <1>3, <1>4 DEF RunInv, TypesHold, FreshHolds, Live
<1>6. TurnsHold' /\ ZombieHolds' /\ AbortsHold'
  BY <1>1, <1>3 DEF RunInv, TurnsHold, ZombieHolds, AbortsHold, InTurn
<1>7. (Told(gm) = metrics.nudges)'
  BY <1>1 DEF RunInv, Told
<1>8. HeardHolds'
  BY <1>1, <1>3 DEF RunInv, HeardHolds, InTurn
<1>9. ErrorsHold'
  BY <1>3, <1>4 DEF ErrorsHold, InTurn
<1>10. ReplayHolds'
  BY <1>1, <1>3 DEF RunInv, ReplayHolds
<1>11. ResultTellsTheTruth'
  BY <1>1 DEF RunInv, ResultTellsTheTruth
<1> QED BY <1>5, <1>6, <1>7, <1>8, <1>9, <1>10, <1>11 DEF RunInv

-----------------------------------------------------------------------------
(* Around the session.                                                     *)

\* A step that leaves nothing of a run.
LEMMA NothingInv ==
  ASSUME NothingLeft', run'.pc \in {"none", "creating"}, result' \in Results,
         stop' \in BOOLEAN, sinkOk' \in BOOLEAN,
         flow' \in {"first", "corrective", "over"},
         zombie' \in {"main", "fallback", "corrective", "none"},
         runs' \in 0 .. MaxRuns, faults' \in 0 .. MaxFaults,
         ZombieHolds', ResultTellsTheTruth'
  PROVE  RunInv'
<1>1. Nothing'
  BY NothingNext
<1>2. run' \in RunStates
  <2>1. run' = [NoRun EXCEPT !.pc = run'.pc] /\ NoRun \in RunStates
    BY FreshValues DEF NothingLeft
  <2> QED BY <2>1 DEF RunStates
<1>3. TypesHold'
  BY <1>1, <1>2 DEF TypesHold, Nothing
<1>4. FreshHolds'
  BY DEF FreshHolds, NothingLeft
<1>5. TurnsHold'
  BY <1>1 DEF TurnsHold, Nothing, InTurn
<1>6. AbortsHold'
  BY <1>1 DEF AbortsHold, Nothing
<1> QED BY <1>1, <1>3, <1>4, <1>5, <1>6 DEF RunInv, Nothing

\* What a run returns, and what the flow makes of it.
LEMMA ReturnedInv ==
  ASSUME RunInv, NEW kind, NEW r \in Results, Returned(kind, r),
         kind \in {"main", "fallback", "corrective"},
         r.stopped => r.aborted,
         ~r.aborted /\ ~r.timedOut => r.error = r.failed,
         zombie' \in {"main", "fallback", "corrective", "none"},
         zombie' \in {"main", "corrective"} => flow' = "over",
         stop' = stop, runs' \in 0 .. MaxRuns, faults' = faults
  PROVE  RunInv'
<1>1. /\ result' = r /\ flow' \in {"first", "corrective", "over"} /\ sinkOk' = TRUE
      /\ run' = NoRun
  <2>1. After(kind, r) \subseteq {"first", "corrective", "over"}
    BY DEF After
  <2> QED BY <2>1 DEF Returned
<1>2. NothingLeft' /\ run'.pc = "none"
  BY DEF Returned, NothingLeft, NoRun
<1>3. ZombieHolds'
  BY <1>2 DEF ZombieHolds
<1>4. ResultTellsTheTruth'
  BY <1>1 DEF ResultTellsTheTruth
<1>5. stop' \in BOOLEAN /\ faults' \in 0 .. MaxFaults
  BY DEF RunInv, TypesHold
<1> QED BY <1>1, <1>2, <1>3, <1>4, <1>5, NothingInv

LEMMA KindsAre == Kinds \subseteq {"main", "fallback", "corrective"}
BY DEF Kinds

LEMMA PreAbortedIs ==
  /\ PreAborted \in Results /\ PreAborted.aborted /\ PreAborted.stopped
BY DEF PreAborted, NoResult, Results

LEMMA StartInv == ASSUME RunInv, Start PROVE RunInv'
<1>1. /\ run.pc = "none" /\ flow # "over" /\ runs < MaxRuns /\ runs' = runs + 1
      /\ UNCHANGED <<zombie, stop, faults>>
  BY DEF Start
<1>2. runs' \in 0 .. MaxRuns
  BY <1>1, RunAssumption DEF RunInv, TypesHold
<1>3. zombie \in {"fallback", "none"}
  BY <1>1 DEF RunInv, TypesHold, ZombieHolds
<1>4. CASE stop
  <2>1. PICK kind \in Kinds : Returned(kind, PreAborted)
    BY <1>4 DEF Start
  <2> QED BY <1>1, <1>2, <1>3, <2>1, KindsAre, PreAbortedIs, ReturnedInv
<1>5. CASE ~stop
  <2>1. /\ run' = [NoRun EXCEPT !.pc = "creating"] /\ result' = NoResult
        /\ UNCHANGED <<flow, sdk, gm, acc, sinkOk, replay, metrics>>
    BY <1>5 DEF Start
  <2>2. NothingLeft' /\ run'.pc = "creating"
    BY <1>1, <2>1 DEF NothingLeft, NoRun, RunInv, FreshHolds
  <2>3. ZombieHolds'
    BY <1>1, <1>3 DEF ZombieHolds
  <2>4. ResultTellsTheTruth' /\ result' \in Results
    BY <2>1, FreshValues DEF ResultTellsTheTruth, NoResult
  <2>5. /\ flow' \in {"first", "corrective", "over"} /\ stop' \in BOOLEAN
        /\ sinkOk' \in BOOLEAN /\ faults' \in 0 .. MaxFaults
        /\ zombie' \in {"main", "fallback", "corrective", "none"}
    BY <1>1, <1>3, <2>1 DEF RunInv, TypesHold
  <2> QED BY <1>2, <2>2, <2>3, <2>4, <2>5, NothingInv
<1> QED BY <1>4, <1>5

LEMMA CreatedInv == ASSUME RunInv, Created PROVE RunInv'
<1>1. run.pc = "creating" /\ UNCHANGED <<zombie, stop, runs, faults>>
  BY DEF Created
<1>2. NothingLeft /\ runs' \in 0 .. MaxRuns
  BY <1>1 DEF RunInv, FreshHolds, NothingLeft, TypesHold
<1>3. zombie \in {"fallback", "none"}
  BY <1>1 DEF RunInv, TypesHold, ZombieHolds
<1>4. CASE stop
  <2>1. PICK kind \in Kinds : Returned(kind, PreAborted)
    BY <1>4 DEF Created
  <2> QED BY <1>1, <1>2, <1>3, <2>1, KindsAre, PreAbortedIs, ReturnedInv
<1>5. CASE ~stop
  <2>1. /\ run' = [run EXCEPT !.pc = "running"]
        /\ sdk' = [NoSdk EXCEPT !.pc = "between"]
        /\ UNCHANGED <<result, flow, gm, acc, sinkOk, replay, metrics>>
    BY <1>5 DEF Created
  <2>2. Nothing
    BY <1>2, NothingHolds
  <2>3. /\ run' \in RunStates /\ run'.pc = "running" /\ run'.kill = "none"
        /\ run'.why = run.why /\ run'.grace = run.grace /\ run'.timedOut = run.timedOut
        /\ run'.kind = run.kind
    BY <2>1, <2>2 DEF RunInv, TypesHold, RunStates, Nothing
  <2>4. /\ sdk' \in Sessions /\ sdk'.pc = "between" /\ sdk'.n = 0 /\ ~sdk'.aborting
        /\ sdk'.heard = sdk.heard /\ sdk'.steers = sdk.steers
    BY <1>2, <2>1, FreshValues DEF Sessions, Places, NothingLeft, NoSdk
  <2>5. TypesHold' /\ FreshHolds'
    BY <1>1, <2>1, <2>3, <2>4 DEF RunInv, TypesHold, FreshHolds
  <2>6. TurnsHold'
    BY <2>1, <2>2, <2>4, RunAssumption DEF TurnsHold, InTurn, Nothing
  <2>7. ZombieHolds' /\ AbortsHold'
    BY <1>1, <1>3, <1>5, <2>2, <2>3, <2>4 DEF ZombieHolds, AbortsHold, Nothing
  <2>8. (Told(gm) = metrics.nudges)'
    BY <2>1 DEF RunInv, Told
  <2>9. HeardHolds'
    <3>1. gm.recent = {} /\ run.why = "none"
      BY <1>2 DEF NothingLeft, NewManager, NoRun
    <3> QED BY <2>1, <2>3, <3>1 DEF HeardHolds
  <2>10. ErrorsHold'
    BY <2>1, <2>2, <2>4 DEF ErrorsHold, Nothing
  <2>11. ReplayHolds'
    <3>1. /\ replay.gm = gm /\ ~replay.killed /\ replay.recorded = replay.replayed
      BY <1>2 DEF NothingLeft, NoReplay
    <3> QED BY <2>1, <2>3, <2>4, <3>1 DEF ReplayHolds
  <2>12. ResultTellsTheTruth'
    BY <2>1 DEF RunInv, ResultTellsTheTruth
  <2> QED BY <2>5, <2>6, <2>7, <2>8, <2>9, <2>10, <2>11, <2>12 DEF RunInv
<1> QED BY <1>4, <1>5

LEMMA FactoryThrowsInv == ASSUME RunInv, FactoryThrows PROVE RunInv'
<1>1. /\ run.pc = "creating" /\ faults < MaxFaults /\ faults' = faults + 1
      /\ run' = NoRun /\ flow' \in {"first", "over"} /\ sinkOk' = TRUE
      /\ UNCHANGED <<gm, acc, sdk, zombie, stop, replay, metrics, result, runs>>
  BY DEF FactoryThrows
<1>2. NothingLeft' /\ run'.pc = "none"
  BY <1>1 DEF RunInv, FreshHolds, NothingLeft, NoRun
<1>3. zombie \in {"fallback", "none"}
  BY <1>1 DEF RunInv, TypesHold, ZombieHolds
<1>4. ZombieHolds' /\ ResultTellsTheTruth'
  BY <1>1, <1>3 DEF RunInv, ZombieHolds, ResultTellsTheTruth
<1>5. faults' \in 0 .. MaxFaults
  BY <1>1, RunAssumption DEF RunInv, TypesHold
<1>6. /\ result' \in Results /\ stop' \in BOOLEAN /\ sinkOk' \in BOOLEAN
      /\ flow' \in {"first", "corrective", "over"} /\ runs' \in 0 .. MaxRuns
      /\ zombie' \in {"main", "fallback", "corrective", "none"}
  BY <1>1 DEF RunInv, TypesHold
<1> QED BY <1>2, <1>4, <1>5, <1>6, NothingInv

LEMMA CrashInv == ASSUME RunInv, Crash PROVE RunInv'
<1>1. /\ faults < MaxFaults /\ faults' = faults + 1 /\ runs' = runs
      /\ zombie' = "none" /\ stop' = FALSE /\ flow' = "first" /\ result' = NoResult
      /\ sinkOk' = TRUE
  BY DEF Crash
<1>2. NothingLeft' /\ run'.pc = "none"
  BY DEF Crash, NothingLeft, NoRun
<1>3. ZombieHolds' /\ ResultTellsTheTruth'
  BY <1>1 DEF ZombieHolds, ResultTellsTheTruth, NoResult
<1>4. faults' \in 0 .. MaxFaults /\ runs' \in 0 .. MaxRuns
  BY <1>1, RunAssumption DEF RunInv, TypesHold
<1> QED BY <1>1, <1>2, <1>3, <1>4, NothingInv, FreshValues

\* The run ends: what its result says is what there was.
LEMMA RunResultIs ==
  ASSUME RunInv, run.pc = "running",
         sdk.pc = "settled" \/ run.kill # "none" \/ run.timedOut
  PROVE  /\ RunResult \in Results
         /\ RunResult.stopped => RunResult.aborted
         /\ ~RunResult.aborted /\ ~RunResult.timedOut =>
              RunResult.error = RunResult.failed
<1>1. /\ run \in RunStates /\ acc \in [error : BOOLEAN] /\ sdk \in Sessions
      /\ stop \in BOOLEAN
  BY DEF RunInv, TypesHold
<1> DEFINE a == (run.kill # "none")
           x == (acc.error \/ run.kill # "none")
<1>2. RunResult = [aborted |-> a, timedOut |-> run.timedOut, error |-> x,
                   stopped |-> stop, failed |-> sdk.failed]
  BY DEF RunResult
<1>3. a \in BOOLEAN /\ x \in BOOLEAN /\ run.timedOut \in BOOLEAN /\ sdk.failed \in BOOLEAN
  BY <1>1 DEF RunStates, Sessions
<1>4. stop => a
  BY DEF RunInv, AbortsHold
<1>5. ~a /\ ~run.timedOut => x = sdk.failed
  <2>1. ~a /\ ~run.timedOut => acc.error = sdk.failed
    BY DEF RunInv, ErrorsHold
  <2>2. acc.error \in BOOLEAN
    BY <1>1
  <2> QED BY <2>1, <2>2
<1> HIDE DEF a, x
<1>6. /\ RunResult \in Results /\ RunResult.aborted = a
      /\ RunResult.timedOut = run.timedOut /\ RunResult.error = x
      /\ RunResult.stopped = stop /\ RunResult.failed = sdk.failed
  BY <1>1, <1>2, <1>3 DEF Results
<1> QED BY <1>4, <1>5, <1>6

LEMMA SettledInv == ASSUME RunInv, Settled PROVE RunInv'
<1>1. /\ run.pc = "running" /\ sdk.pc = "settled"
      /\ UNCHANGED <<zombie, stop, runs, faults>>
  BY DEF Settled
<1>2. PICK kind, r : kind \in Kinds /\ r = RunResult /\ Returned(kind, r)
  BY DEF Settled, Returned
<1>3. zombie \in {"fallback", "none"} /\ runs' \in 0 .. MaxRuns
  BY <1>1 DEF RunInv, TypesHold, ZombieHolds
<1>4. /\ r \in Results /\ (r.stopped => r.aborted)
      /\ ~r.aborted /\ ~r.timedOut => r.error = r.failed
  BY <1>1, <1>2, RunResultIs
<1> QED BY <1>1, <1>2, <1>3, <1>4, KindsAre, ReturnedInv

LEMMA WedgedInv == ASSUME RunInv, Wedged PROVE RunInv'
<1>1. /\ run.pc = "running" /\ run.grace /\ UNCHANGED <<stop, runs, faults>>
  BY DEF Wedged, Live
<1>2. PICK kind, r : /\ kind \in Kinds /\ r = RunResult /\ Returned(kind, r)
                     /\ zombie' = kind
  BY DEF Wedged, Returned
<1>3. run.kill # "none" \/ run.timedOut
  BY <1>1 DEF RunInv, AbortsHold
<1>4. /\ r \in Results /\ (r.stopped => r.aborted)
      /\ ~r.aborted /\ ~r.timedOut => r.error = r.failed
  BY <1>1, <1>2, <1>3, RunResultIs
<1>5. r.aborted \/ r.timedOut
  BY <1>2, <1>3 DEF RunResult
<1>6. kind \in {"main", "corrective"} => After(kind, r) = {"over"}
  BY <1>5 DEF After, SkipsReview
<1>7. kind \in {"main", "corrective"} => flow' = "over"
  BY <1>2, <1>6 DEF Returned
<1>8. runs' \in 0 .. MaxRuns
  BY <1>1 DEF RunInv, TypesHold
<1> QED BY <1>1, <1>2, <1>4, <1>7, <1>8, KindsAre, ReturnedInv

LEMMA DeadlineInv == ASSUME RunInv, Deadline PROVE RunInv'
<1>1. /\ Live /\ run' = [run EXCEPT !.timedOut = TRUE, !.grace = TRUE]
      /\ sdk' = [sdk EXCEPT !.aborting = TRUE]
      /\ UNCHANGED <<gm, acc, zombie, stop, flow, sinkOk, replay, metrics, result, runs,
                     faults>>
  BY DEF Deadline
<1>2. sdk \in Sessions /\ run \in RunStates
  BY DEF RunInv, TypesHold
<1>3. /\ sdk' \in Sessions /\ sdk'.pc = sdk.pc /\ sdk'.n = sdk.n /\ sdk'.call = sdk.call
      /\ sdk'.steers = sdk.steers /\ sdk'.heard = sdk.heard /\ sdk'.failed = sdk.failed
      /\ sdk'.msg = sdk.msg /\ sdk'.retrying = sdk.retrying
  BY <1>1, <1>2 DEF Sessions
<1>4. /\ run' \in RunStates /\ run'.pc = run.pc /\ run'.kill = run.kill /\ run'.timedOut
      /\ run'.why = run.why /\ run'.kind = run.kind
  BY <1>1, <1>2 DEF RunStates
<1>5. TypesHold' /\ FreshHolds'
  BY <1>1, <1>3, <1>4 DEF RunInv, TypesHold, FreshHolds, Live
<1>6. TurnsHold'
  BY <1>1, <1>3, <1>4 DEF RunInv, TurnsHold
<1>7. ZombieHolds' /\ AbortsHold'
  BY <1>1, <1>3, <1>4 DEF RunInv, ZombieHolds, AbortsHold
<1>8. (Told(gm) = metrics.nudges)'
  BY <1>1 DEF RunInv, Told
<1>9. HeardHolds'
  BY <1>1, <1>3, <1>4 DEF RunInv, HeardHolds
<1>10. ErrorsHold'
  BY <1>1, <1>3, <1>4 DEF RunInv, ErrorsHold
<1>11. ReplayHolds'
  BY <1>1, <1>3, <1>4 DEF RunInv, ReplayHolds
<1>12. ResultTellsTheTruth'
  BY <1>1 DEF RunInv, ResultTellsTheTruth
<1> QED BY <1>5, <1>6, <1>7, <1>8, <1>9, <1>10, <1>11, <1>12 DEF RunInv

LEMMA StopInv == ASSUME RunInv, Stop PROVE RunInv'
<1>1. /\ stop' = TRUE /\ sdk.pc # "settled"
      /\ UNCHANGED <<gm, acc, zombie, flow, sinkOk, metrics, result, runs, faults>>
  BY DEF Stop
<1>2. sdk \in Sessions /\ run \in RunStates /\ replay \in Replays
  BY DEF RunInv, TypesHold
<1>3. (Told(gm) = metrics.nudges)' /\ ResultTellsTheTruth'
  BY <1>1 DEF RunInv, Told, ResultTellsTheTruth
<1>4. CASE Live
  <2> DEFINE kill == IF run.kill = "none" THEN "operator" ELSE run.kill
  <2>1. /\ run' = [run EXCEPT !.kill = kill, !.grace = TRUE]
        /\ sdk' = [sdk EXCEPT !.aborting = TRUE]
        /\ replay' = IF run.kill = "guard" THEN replay ELSE Void
    BY <1>4 DEF Stop
  <2>2. kill \in {"guard", "operator"}
    BY <1>2 DEF RunStates
  <2> HIDE DEF kill
  <2>3. /\ sdk' \in Sessions /\ sdk'.pc = sdk.pc /\ sdk'.n = sdk.n /\ sdk'.call = sdk.call
        /\ sdk'.steers = sdk.steers /\ sdk'.heard = sdk.heard /\ sdk'.failed = sdk.failed
        /\ sdk'.msg = sdk.msg /\ sdk'.retrying = sdk.retrying
    BY <1>2, <2>1 DEF Sessions
  <2>4. /\ run' \in RunStates /\ run'.pc = run.pc /\ run'.kill = kill
        /\ run'.timedOut = run.timedOut /\ run'.why = run.why /\ run'.kind = run.kind
    BY <1>2, <2>1, <2>2 DEF RunStates
  <2>5. replay' \in Replays
    BY <1>2, <2>1, FreshValues
  <2>6. TypesHold' /\ FreshHolds'
    BY <1>1, <1>4, <2>3, <2>4, <2>5 DEF RunInv, TypesHold, FreshHolds, Live
  <2>7. TurnsHold'
    BY <1>1, <2>3, <2>4 DEF RunInv, TurnsHold
  <2>8. ZombieHolds' /\ AbortsHold'
    BY <1>1, <2>2, <2>4 DEF RunInv, ZombieHolds, AbortsHold
  <2>9. HeardHolds'
    BY <1>1, <2>3, <2>4 DEF RunInv, HeardHolds
  <2>10. ErrorsHold'
    BY <1>1, <2>2, <2>3, <2>4 DEF RunInv, ErrorsHold
  <2>11. ReplayHolds'
    <3>1. CASE run.kill = "guard"
      BY <2>1, <2>2, <2>4, <3>1 DEF RunInv, ReplayHolds
    <3>2. CASE run.kill # "guard"
      BY <2>1, <3>2, FreshValues DEF ReplayHolds
    <3> QED BY <3>1, <3>2
  <2> QED BY <1>3, <2>6, <2>7, <2>8, <2>9, <2>10, <2>11 DEF RunInv
<1>5. CASE ~Live
  <2>1. UNCHANGED <<run, sdk, replay>>
    BY <1>5 DEF Stop
  <2>2. run.pc # "running"
    BY <1>1, <1>5 DEF Live, RunInv, TurnsHold
  <2>3. TypesHold' /\ FreshHolds'
    BY <1>1, <2>1 DEF RunInv, TypesHold, FreshHolds
  <2>4. TurnsHold' /\ ZombieHolds' /\ AbortsHold'
    BY <1>1, <2>1, <2>2 DEF RunInv, TurnsHold, ZombieHolds, AbortsHold
  <2>5. HeardHolds' /\ ErrorsHold'
    BY <1>1, <2>1 DEF RunInv, HeardHolds, ErrorsHold
  <2>6. ReplayHolds'
    BY <1>1, <2>1 DEF RunInv, ReplayHolds
  <2> QED BY <1>3, <2>3, <2>4, <2>5, <2>6 DEF RunInv
<1> QED BY <1>4, <1>5

\* Steps that touch nothing of the run.
LEMMA AsideInv ==
  ASSUME RunInv,
         UNCHANGED <<run, gm, acc, sdk, stop, flow, replay, metrics, result, runs>>,
         zombie' \in {zombie, "none"}, sinkOk' \in BOOLEAN, faults' \in 0 .. MaxFaults
  PROVE  RunInv'
<1>1. TypesHold' /\ FreshHolds'
  BY DEF RunInv, TypesHold, FreshHolds
<1>2. TurnsHold' /\ ZombieHolds' /\ AbortsHold'
  BY DEF RunInv, TurnsHold, ZombieHolds, AbortsHold
<1>3. (Told(gm) = metrics.nudges)' /\ ResultTellsTheTruth'
  BY DEF RunInv, Told, ResultTellsTheTruth
<1>4. HeardHolds' /\ ErrorsHold'
  BY DEF RunInv, HeardHolds, ErrorsHold
<1>5. ReplayHolds'
  BY DEF RunInv, ReplayHolds
<1> QED BY <1>1, <1>2, <1>3, <1>4, <1>5 DEF RunInv

LEMMA NextInv == ASSUME RunInv, [Next]_vars PROVE RunInv'
<1>1. faults \in 0 .. MaxFaults /\ sinkOk \in BOOLEAN
  BY DEF RunInv, TypesHold
<1>2. CASE Session
  <2>1. CASE MessageBegins
    BY <2>1, MessageBeginsInv
  <2>2. CASE MessageEnds
    BY <2>2, MessageEndsInv
  <2>3. CASE RetryEnds
    BY <2>3, RetryEndsInv
  <2>4. CASE AbortLands
    BY <2>4, AbortLandsInv
  <2>5. CASE PromptRejects
    BY <2>5, PromptRejectsInv
  <2>6. CASE \E kind \in Streams : Delta(kind)
    BY <2>6, DeltaInv
  <2>7. CASE \E call \in Calls : ToolStarts(call)
    BY <2>7, ToolStartsInv
  <2>8. CASE \E isError \in BOOLEAN : ToolEnds(isError)
    BY <2>8, ToolEndsInv
  <2>9. CASE \E tokens \in Tokens, failed \in BOOLEAN, again \in BOOLEAN :
               TurnEnds(tokens, failed, again)
    BY <2>9, TurnEndsInv
  <2> QED BY <1>2, <2>1, <2>2, <2>3, <2>4, <2>5, <2>6, <2>7, <2>8, <2>9 DEF Session
<1>3. CASE ZombieEnds
  BY <1>1, <1>3, AsideInv DEF ZombieEnds
<1>4. CASE SinkBreaks
  <2>1. faults' \in 0 .. MaxFaults
    BY <1>1, <1>4, RunAssumption DEF SinkBreaks
  <2> QED BY <1>4, <2>1, AsideInv DEF SinkBreaks
<1>5. CASE UNCHANGED vars
  BY <1>1, <1>5, AsideInv DEF vars
<1>6. CASE Start
  BY <1>6, StartInv
<1>7. CASE Created
  BY <1>7, CreatedInv
<1>8. CASE FactoryThrows
  BY <1>8, FactoryThrowsInv
<1>9. CASE Deadline
  BY <1>9, DeadlineInv
<1>10. CASE Stop
  BY <1>10, StopInv
<1>11. CASE Settled
  BY <1>11, SettledInv
<1>12. CASE Wedged
  BY <1>12, WedgedInv
<1>13. CASE Crash
  BY <1>13, CrashInv
<1> QED BY <1>2, <1>3, <1>4, <1>5, <1>6, <1>7, <1>8, <1>9, <1>10, <1>11, <1>12, <1>13
        DEF Next

-----------------------------------------------------------------------------
(* The theorems.                                                           *)

LEMMA RunInvHolds == Spec => []RunInv
<1>1. Init => RunInv
  BY InitInv
<1>2. RunInv /\ [Next]_vars => RunInv'
  BY NextInv
<1> QED BY <1>1, <1>2, PTL DEF Spec

\* The bookkeeping of an agent run (src/agent/session.ts, runEnvelope.ts) tells what
\* happened: one session at a time works for a ticket but after a fallback, each
\* nudge that was charged was sent and each that counts as ignored had been heard,
\* a stop always shows in the result and so does an error, however often the
\* session tried again.
THEOREM RunsAreTruthfulHolds == Spec => []RunsAreTruthful
<1>1. RunInv => RunsAreTruthful
  <2> SUFFICES ASSUME RunInv PROVE RunsAreTruthful
    OBVIOUS
  <2>1. /\ run \in RunStates /\ gm \in Manager /\ sdk \in Sessions
        /\ acc \in [error : BOOLEAN] /\ stop \in BOOLEAN /\ sinkOk \in BOOLEAN
        /\ flow \in {"first", "corrective", "over"}
        /\ zombie \in {"main", "fallback", "corrective", "none"}
        /\ runs \in 0 .. MaxRuns /\ faults \in 0 .. MaxFaults
    BY DEF RunInv, TypesHold
  <2>2. gm.turn \in 0 .. MaxTurns /\ sdk.n \in 0 .. MaxTurns
    <3>1. gm.turn \in Nat /\ sdk.n \in Nat /\ MaxTurns \in Nat
          /\ gm.turn <= sdk.n /\ sdk.n <= MaxTurns
      BY <2>1, RunAssumption DEF RunInv, TurnsHold, Manager, Sessions
    <3> QED BY <3>1
  <2>3. /\ run.pc \in {"none", "creating", "running"} /\ run.timedOut \in BOOLEAN
        /\ run.kill \in {"none", "guard", "operator"} /\ run.grace \in BOOLEAN
        /\ acc.error \in BOOLEAN /\ sdk.steers \cup sdk.heard \subseteq NudgedKinds
    BY <2>1 DEF RunStates, Sessions
  <2>4. TypeOK
    BY <2>1, <2>2, <2>3 DEF TypeOK
  <2>5. OneSessionAtATime
    BY <2>1 DEF RunInv, ZombieHolds, OneSessionAtATime
  <2>6. NudgesAreReal
    BY DEF RunInv, HeardHolds, NudgesAreReal
  <2> QED BY <2>4, <2>5, <2>6 DEF RunInv, RunsAreTruthful
<1> QED BY <1>1, RunInvHolds, PTL

\* Wherever the transcript tells all that the run knew, `junco replay`
\* (src/agent/replay.ts) comes to the decisions the guards made, to all of them and
\* to no other.
THEOREM ReplayAgreesHolds == Spec => []ReplayAgrees
<1>1. RunInv => ReplayAgrees
  BY DEF RunInv, ReplayHolds, ReplayAgrees
<1> QED BY <1>1, RunInvHolds, PTL
===============================================================================
