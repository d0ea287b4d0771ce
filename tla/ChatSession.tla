----------------------------- MODULE ChatSession -----------------------------
(***************************************************************************)
(* One repository's chat session: the transcript it appends to, the model  *)
(* session it builds lazily, the turn in flight, and the handshake in      *)
(* which the model asks the operator to submit a parked draft.             *)
(*                                                                         *)
(* The daemon is one thread.  A step below is everything the code does     *)
(* between two waits for the outside (the model, a child process, a timer, *)
(* git, another process); continuations that need no such event are steps  *)
(* of their own that run before any other (ChatManager!Due).               *)
(***************************************************************************)
EXTENDS Naturals, Sequences, FiniteSets

CONSTANTS
    Prompts,    \* what the operator types
    Objs,       \* session objects: 1..n
    None

Sources == {"operator", "auto_lint"}
Calls == Prompts \X Sources

VARIABLES
    obj,    \* the session objects of this process
    call,   \* what became of each prompt
    file,   \* transcript.jsonl, as the reader of its turn records sees it
    card,   \* the submit proposal of each turn, as recorded in the transcript
    tool,   \* where the junco_submit execution of each turn is
    draft   \* the draft each turn parked

sessionVars == <<obj, call, file, card, tool, draft>>

Blank ==
    [cwd |-> None, meta |-> FALSE, degraded |-> FALSE, drained |-> FALSE, build |-> "none",
     sdk |-> "none", turn |-> None, ctl |-> None, awaiting |-> <<>>]
Unsent == [at |-> "idle", obj |-> None, aborted |-> FALSE, why |-> "none", fence |-> "none",
           asks |-> None, prev |-> {}]
NoFile == [there |-> FALSE, turn |-> "none"]

Waiting == {"sent", "getting", "starting", "dead", "running", "linting"}
Final == {"ended", "aborted", "steered", "rejected", "dropped", "failed", "lost"}
OpenCard == {"proposed", "running"}
SettledCard == {"ran", "failed", "declined", "expired", "aborted"}

Streaming(o) == obj[o].turn # None
StartingOn(o) == {c \in Calls : call[c].at = "starting" /\ call[c].obj = o}
At(c, pc) == [call EXCEPT ![c].at = pc]
\* A prompt that is over; a submit of its turn may outlive it.
Done(c, how) ==
    [Unsent EXCEPT !.at = how, !.obj = IF tool[c] = "run" THEN call[c].obj ELSE None,
                   !.asks = IF tool[c] = "run" THEN call[c].asks ELSE None]

----------------------------------------------------------------------------
(* The transcript.                                                         *)

\* What a reader makes of the next turn record.  "stillborn" is the abort
\* recorded for a turn that never started.
Read(turn, rec) ==
    CASE rec = "start" /\ turn # "open" -> "open"
      [] rec = "close" /\ turn = "open" -> "closed"
      [] rec = "stillborn" /\ turn # "open" -> "closed"
      [] rec = "note" -> turn
      [] OTHER -> "garbled"

\* A failed append (here: the directory is gone) disables the transcript of
\* the object that tried.
Stored(o) == file.there /\ ~obj[o].degraded
Latched(o) == ~Stored(o)
Append1(o, rec) == IF Stored(o) THEN [file EXCEPT !.turn = Read(@, rec)] ELSE file
SetCard(o, c, status) == IF Stored(o) THEN [card EXCEPT ![c] = status] ELSE card

\* ensureMeta: the directory, and the stamps of what a dead daemon left open.
MetaFile(o) ==
    IF obj[o].meta THEN file
    ELSE [there |-> TRUE,
          turn |-> IF file.turn = "open" /\ ~obj[o].degraded THEN Read(file.turn, "close") ELSE file.turn]
MetaCards(o) ==
    IF obj[o].meta \/ obj[o].degraded THEN card
    ELSE [c \in Calls |-> IF card[c] \in OpenCard THEN "expired" ELSE card[c]]

----------------------------------------------------------------------------
(* Stopping what runs: abort(), and the two calls that invalidate a build. *)

\* The pending confirmation settles, the turn is signalled; while a turn only
\* starts, the controller it will run with is.
AbortedCall(o) ==
    [c \in Calls |->
        IF c = obj[o].turn /\ call[c].why = "none" THEN [call[c] EXCEPT !.why = "operator"]
        ELSE IF c = obj[o].ctl /\ call[c].at = "starting" THEN [call[c] EXCEPT !.aborted = TRUE]
        ELSE call[c]]
Asked(o) == obj[o].turn # None /\ tool[obj[o].turn] = "asked"
AbortSession(o) ==
    /\ call' = AbortedCall(o)
    /\ tool' = IF Asked(o) THEN [tool EXCEPT ![obj[o].turn] = "none"] ELSE tool
    /\ card' = IF Asked(o) THEN SetCard(o, obj[o].turn, "aborted") ELSE card
    /\ UNCHANGED <<file, draft>>
SilencedBy(o) == Asked(o) /\ Latched(o)

\* drain() and reset() bump the generation, abort, and wait for the turn and
\* the build.
Bumped(o, by) ==
    [obj[o] EXCEPT !.build = IF @ = "current" THEN "stale" ELSE @,
                   !.drained = @ \/ by = "drain",
                   !.degraded = @ \/ SilencedBy(o),
                   !.awaiting = Append(@, by)]
Bump(o, by) == AbortSession(o) /\ obj' = [obj EXCEPT ![o] = Bumped(o, by)]

Over(o) == obj[o].awaiting # <<>> /\ obj[o].turn = None /\ obj[o].build = "none"
FinishDrain(o) ==
    /\ Over(o) /\ Head(obj[o].awaiting) = "drain"
    /\ obj' = [obj EXCEPT ![o].sdk = "none", ![o].awaiting = Tail(@)]
    /\ UNCHANGED <<call, file, card, tool, draft>>
\* The directory goes to the archive and the object starts over.
FinishReset(o) ==
    /\ Over(o) /\ Head(obj[o].awaiting) = "reset"
    /\ obj' = [obj EXCEPT ![o] = [Blank EXCEPT !.cwd = obj[o].cwd,
                                               !.awaiting = Tail(obj[o].awaiting)]]
    /\ file' = NoFile /\ card' = [c \in Calls |-> "none"]
    /\ UNCHANGED <<call, tool, draft>>

----------------------------------------------------------------------------
(* Starting a turn.                                                        *)

\* startPrompt up to its first wait: the build is started, or joined.
StartPrompt(c, o) ==
    /\ call' = [call EXCEPT ![c].at = "starting", ![c].obj = o]
    /\ obj' = [obj EXCEPT ![o].meta = TRUE,
                          ![o].ctl = IF ~Streaming(o) /\ StartingOn(o) = {} THEN c ELSE @,
                          ![o].build = IF obj[o].sdk = "none" /\ @ = "none" THEN "current" ELSE @]
    /\ file' = MetaFile(o) /\ card' = MetaCards(o)
    /\ UNCHANGED <<tool, draft>>

\* The factory returns.  A build that a drain or a reset overtook disposes of
\* what it built, and the prompts that waited for it never run.
Disposed(o) ==
    LET n == StartingOn(o) IN
    /\ obj[o].build = "stale"
    /\ call' = [c \in Calls |-> IF c \in n THEN Done(c, "dropped") ELSE call[c]]
    /\ obj' = [obj EXCEPT ![o].build = "none",
                          ![o].degraded = @ \/ (obj[o].drained /\ n # {} /\ Latched(o))]
    /\ file' = IF obj[o].drained /\ n # {} THEN Append1(o, "stillborn") ELSE file
    /\ UNCHANGED <<card, tool, draft>>
Built(o) ==
    /\ obj[o].build = "current"
    /\ obj' = [obj EXCEPT ![o].build = "none", ![o].sdk = "idle"]
    /\ UNCHANGED <<call, file, card, tool, draft>>
BuildFails(o) ==
    /\ obj[o].build = "current"
    /\ obj' = [obj EXCEPT ![o].build = "none"]
    /\ call' = [c \in Calls |-> IF c \in StartingOn(o) THEN Done(c, "failed") ELSE call[c]]
    /\ UNCHANGED <<file, card, tool, draft>>

\* admit: into the running turn, or a turn of its own.  A prompt aborted while
\* it started gets its records and never reaches the model.
Admittable(c) ==
    call[c].at = "starting" /\ obj[call[c].obj].build = "none" /\ obj[call[c].obj].sdk # "none"
\* Mutant: only the SDK is asked whether a turn runs.
SteersBySdk(o) == obj[o].sdk = "wedged"
Steers(o) == Streaming(o) \/ obj[o].sdk = "wedged"
Admit(c) ==
    LET o == call[c].obj IN
    /\ Admittable(c)
    /\ \/ /\ Steers(o)
          /\ call' = [call EXCEPT ![c] = Done(c, "steered")] /\ file' = Append1(o, "note")
          /\ obj' = [obj EXCEPT ![o].degraded = Latched(o)]
       \/ /\ ~Steers(o)
          /\ call' = At(c, IF call[c].aborted THEN "dead" ELSE "running")
          /\ file' = Append1(o, "start")
          /\ obj' = [obj EXCEPT ![o].turn = c, ![o].ctl = c, ![o].degraded = Latched(o)]
    /\ UNCHANGED <<card, tool, draft>>

----------------------------------------------------------------------------
(* The turn.                                                               *)

\* settle: the end record and the bookkeeping.
Settled(c, status, fence, sdk, slot) ==
    LET o == call[c].obj IN
    /\ file' = Append1(o, "close")
    /\ obj' = [obj EXCEPT ![o].turn = None, ![o].ctl = None, ![o].sdk = sdk,
                          ![o].degraded = Latched(o)]
    /\ call' = [call EXCEPT ![c] =
         IF fence # "none" /\ status # "error"
         THEN [@ EXCEPT !.at = "linting", !.fence = fence,
                        !.why = IF status = "aborted" THEN @ ELSE "none",
                        !.prev = IF c[2] = "auto_lint" THEN slot ELSE {}]
         ELSE Done(c, IF status = "aborted" THEN "aborted" ELSE "ended")]
    /\ UNCHANGED <<card, draft>>

Running(c) == call[c].at = "running"
Dead(c, slot) ==
    /\ call[c].at = "dead" /\ Settled(c, "aborted", "none", "idle", slot) /\ UNCHANGED tool
\* The model's run is over by itself, or because it honoured the abort.
ModelEnds(c, fence, slot) ==
    /\ Running(c) /\ tool[c] = "none"
    /\ \/ call[c].why = "none" /\ \E s \in {"ok", "error"} : Settled(c, s, fence, "idle", slot)
       \/ call[c].why # "none" /\ Settled(c, "aborted", fence, "idle", slot)
    /\ UNCHANGED tool
\* Or it is given up: the run is still going when the grace after an abort ends,
\* and a submit it started with it.
Wedge(c, fence, slot) ==
    /\ Running(c) /\ call[c].why # "none"
    /\ Settled(c, "aborted", fence, "wedged", slot) /\ UNCHANGED tool
WedgedRunEnds(o) ==
    /\ obj[o].sdk = "wedged" /\ obj' = [obj EXCEPT ![o].sdk = "idle"]
    /\ UNCHANGED <<call, file, card, tool, draft>>

\* The turn's deadline: stopped while the operator is being asked.
\* Mutant: the clock is not started again after the answer.
ClockStaysStopped(c) == call[c].asks = None
ClockRuns(c) == tool[c] # "asked"
Timeout(c) ==
    /\ Running(c) /\ call[c].why = "none" /\ ClockRuns(c)
    /\ call' = [call EXCEPT ![c].why = "timeout"]
    /\ UNCHANGED <<obj, file, card, tool, draft>>

----------------------------------------------------------------------------
(* junco_submit: the tool's execute, the confirmation and the CLI run.     *)

Note(o) == obj' = [obj EXCEPT ![o].degraded = Latched(o)]
\* A clean parked draft is found, and the operator asked.
Propose(c, d) ==
    /\ Running(c) /\ call[c].why = "none" /\ tool[c] = "none" /\ call[c].asks = None
    /\ draft[d] = "parked"
    /\ tool' = [tool EXCEPT ![c] = "asked"] /\ call' = [call EXCEPT ![c].asks = d]
    /\ card' = SetCard(call[c].obj, c, "proposed") /\ Note(call[c].obj)
    /\ UNCHANGED <<file, draft>>
\* declined, or nobody answered in time
Answer(c, how) ==
    /\ tool[c] = "asked" /\ tool' = [tool EXCEPT ![c] = "none"]
    /\ card' = SetCard(call[c].obj, c, how) /\ Note(call[c].obj)
    /\ UNCHANGED <<call, file, draft>>
\* Confirmed: the draft is read again, and the CLI spawned if it still waits.
\* Mutant: a decision is taken whatever it decides about is still pending.
ConfirmLate(c) ==
    LET o == call[c].obj IN
    /\ tool[c] # "run" /\ call[c].asks # None
    /\ tool' = [tool EXCEPT ![c] = "run"]
    /\ card' = SetCard(o, c, "running") /\ Note(o)
    /\ UNCHANGED <<call, file, draft>>
Confirm(c) ==
    LET o == call[c].obj
        parked == draft[call[c].asks] = "parked" IN
    /\ tool[c] = "asked"
    /\ tool' = [tool EXCEPT ![c] = IF parked THEN "run" ELSE "none"]
    /\ card' = SetCard(o, c, IF parked THEN "running" ELSE "failed") /\ Note(o)
    /\ UNCHANGED <<call, file, draft>>
\* The CLI is back, in the turn or after it was given up.
CliReturns(c, how) ==
    LET o == call[c].obj
        d == call[c].asks IN
    /\ tool[c] = "run" /\ tool' = [tool EXCEPT ![c] = "none"]
    /\ card' = SetCard(o, c, how) /\ Note(o)
    /\ draft' = IF how = "ran" /\ draft[d] = "parked" THEN [draft EXCEPT ![d] = "gone"] ELSE draft
    /\ call' = IF call[c].at \in Final THEN [call EXCEPT ![c] = [Unsent EXCEPT !.at = call[c].at]] ELSE call
    /\ UNCHANGED file
=============================================================================
