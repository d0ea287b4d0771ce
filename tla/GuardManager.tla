----------------------------- MODULE GuardManager -----------------------------
(***************************************************************************)
(* The loop guards of an agent run (src/agent/guardManager.ts with         *)
(* guards.ts and supervisor.ts): a reducer that is given the events of the *)
(* session one by one and answers each with nothing, a nudge or a kill.    *)
(* Live runs and the replay of a transcript use the same reducer.          *)
(***************************************************************************)
EXTENDS Naturals

CONSTANTS
  LoopAt,         \* identical calls in a row that trip the call guard
  ErrorsAt,       \* errors in a row of one tool that trip the error guard
  RepeatsAt,      \* repetitions in a message that trip its guard
  PreBudget, PostBudget,   \* tokens of a turn before and after a commit
  BudgetPerKind,  \* nudges of a kind
  Window          \* turns in which a trip means that the nudge was ignored

ASSUME ThresholdAssumption ==
  /\ {LoopAt, ErrorsAt, RepeatsAt} \subseteq Nat \ {0}
  /\ {PreBudget, PostBudget, BudgetPerKind, Window} \subseteq Nat

RepKinds == {"text_rep", "thinking_rep"}
NudgedKinds == RepKinds \cup {"tool_call_loop", "tool_error_loop"}

NewManager ==
  [turn |-> 0, lastCall |-> <<>>, runLen |-> 0, lastName |-> "", errors |-> 0,
   commits |-> FALSE, buf |-> [k \in RepKinds |-> 0],
   nudgesUsed |-> [k \in NudgedKinds |-> 0], recent |-> {},
   repNudgeTurn |-> {}]                  \* rep kinds nudged in this turn

\* What observe returns: the manager after the event, and its decision.
Quiet(g) == [g |-> g, action |-> "none", kind |-> "none", turn |-> g.turn, why |-> "none"]
Kill(g, kind, why) ==
  [g |-> g, action |-> "kill", kind |-> kind, turn |-> g.turn, why |-> why]
Nudge(g, kind) ==
  [g |-> g, action |-> "nudge", kind |-> kind, turn |-> g.turn, why |-> "recovery"]

\* Supervisor.decide: a nudge, unless one of this kind is recent or all are used.
Decide(g, kind) ==
  LET recent == {r \in g.recent : r.turn + Window > g.turn}
      kept == [g EXCEPT !.recent = recent]
  IN IF \E r \in recent : r.kind = kind THEN Kill(kept, kind, "ignored")
     ELSE IF g.nudgesUsed[kind] >= BudgetPerKind THEN Kill(kept, kind, "spent")
     ELSE Nudge([kept EXCEPT !.nudgesUsed[kind] = @ + 1,
                             !.recent = @ \cup {[kind |-> kind, turn |-> g.turn]}],
                kind)

Cleared(g) == [g EXCEPT !.buf = [k \in RepKinds |-> 0]]
Renewed(g, kind) == [Cleared(g) EXCEPT !.repNudgeTurn = @ \cup {kind}]

\* A nudge is delivered when the turn is over: a trip before that is a runaway.
DecideRep(g, kind) ==
  LET d == Decide(g, kind)
  IN IF kind \in g.repNudgeTurn THEN Kill(g, kind, "runaway")
     ELSE IF d.action = "nudge" THEN [d EXCEPT !.g = Renewed(@, kind)] ELSE d

MessageStart(g) == Quiet(Cleared(g))

\* A delta that adds `repeats` repetitions to what the message has so far.
MessageUpdate(g, kind, repeats) ==
  LET seen == [g EXCEPT !.buf[kind] = IF repeats = 0 THEN 0 ELSE @ + repeats]
  IN IF seen.buf[kind] >= RepeatsAt THEN DecideRep(seen, kind) ELSE Quiet(seen)

\* The call guard; a `git commit` raises the budget of tokens before it runs.
ToolStart(g, call) ==
  LET n == IF g.lastCall = call THEN g.runLen + 1 ELSE 1
      seen == [g EXCEPT !.lastCall = call, !.runLen = n,
                        !.commits = @ \/ call = <<"bash", "git commit">>]
      d == Decide(seen, "tool_call_loop")
  IN IF n < LoopAt THEN Quiet(seen)
     ELSE IF d.action = "nudge"
          THEN [d EXCEPT !.g = [@ EXCEPT !.lastCall = <<>>, !.runLen = 0]] ELSE d

ToolEnd(g, name, isError) ==
  LET n == IF ~isError THEN 0 ELSE IF g.lastName = name THEN g.errors + 1 ELSE 1
      seen == [g EXCEPT !.lastName = IF isError THEN name ELSE "", !.errors = n]
      d == Decide(seen, "tool_error_loop")
  IN IF n < ErrorsAt THEN Quiet(seen)
     ELSE IF d.action = "nudge"
          THEN [d EXCEPT !.g = [@ EXCEPT !.lastName = "", !.errors = 0]] ELSE d

OverBudget(g, tokens) == tokens > (IF g.commits THEN PostBudget ELSE PreBudget)
NextTurn(g) == [Cleared(g) EXCEPT !.turn = @ + 1, !.repNudgeTurn = {}]

\* Too many tokens in a turn is always a kill; no nudge is recorded for it.
TurnEnd(g, tokens) ==
  IF OverBudget(g, tokens)
  THEN [Kill(g, "output_budget", "budget") EXCEPT !.g = NextTurn(g)]
  ELSE Quiet(NextTurn(g))

\* observe: the events as the session emits them.
Observe(g, e) ==
  CASE e.type = "message_start" -> MessageStart(g)
    [] e.type = "message_update" -> MessageUpdate(g, e.kind, e.repeats)
    [] e.type = "tool_execution_start" -> ToolStart(g, e.call)
    [] e.type = "tool_execution_end" -> ToolEnd(g, e.call[1], e.isError)
    [] e.type = "turn_end" -> TurnEnd(g, e.tokens)
    [] OTHER -> Quiet(g)
===============================================================================
