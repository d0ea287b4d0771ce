---------------------------- MODULE MCOperations ----------------------------
(* Instances of Operations for TLC.                                        *)
EXTENDS Operations, TLC

Nothing == [data |-> <<1, 2>>, queue |-> <<1, 2>>, edits |-> 0, hands |-> 0, boots |-> 0,
            commands |-> 0, mishaps |-> 0, signals |-> 0, tickets |-> 0, outages |-> 0]
Rivals == [Nothing EXCEPT !.hands = 1, !.boots = 1, !.mishaps = 1, !.signals = 1, !.tickets = 1]

MCScenarios == {
    \* Two installations on one queue, and on one data root.
    [Rivals EXCEPT !.queue = <<1, 1>>], [Rivals EXCEPT !.data = <<1, 1>>, !.mishaps = 0],
    \* A command while things fail, and while two daemons are about.
    [Nothing EXCEPT !.boots = 1, !.commands = 1, !.mishaps = 2],
    [Nothing EXCEPT !.boots = 1, !.hands = 1, !.commands = 1],
    [Nothing EXCEPT !.boots = 1, !.signals = 1, !.commands = 1],
    \* Edits and outages under a daemon that is also stopped.
    [Nothing EXCEPT !.hands = 1, !.mishaps = 1, !.signals = 2, !.outages = 2, !.edits = 2]}
MCPorts == <<1, 1>>

Plain == [repo |-> "github", fork |-> FALSE, flaws |-> {}, patch |-> FALSE, composed |-> FALSE,
          amends |-> FALSE, labels |-> FALSE, plain |-> FALSE, beyond |-> FALSE, lint |-> TRUE,
          bot |-> FALSE, by |-> {1}, asks |-> TRUE]
Patch == [Plain EXCEPT !.patch = TRUE]
MCPapers ==
    \* Two authors and one id; the rest after a dry run.
    {[Plain EXCEPT !.by = {1, 2}, !.asks = FALSE]}
    \cup {[Plain EXCEPT !.repo = r, !.bot = TRUE, !.plain = TRUE] : r \in Repos}
    \cup {[Plain EXCEPT !.labels = TRUE, !.lint = l] : l \in BOOLEAN}
    \cup {[Plain EXCEPT !.fork = TRUE], [Plain EXCEPT !.amends = TRUE], [Plain EXCEPT !.beyond = TRUE]}
    \cup {[Plain EXCEPT !.repo = "none", !.flaws = {"phrase"}]}
    \cup {[Plain EXCEPT !.flaws = {f}] : f \in {"cdVerify", "noCommit", "phrase"}}
    \cup {[Patch EXCEPT !.composed = c, !.flaws = {f}, !.amends = m, !.lint = l] :
            c, m, l \in BOOLEAN, f \in {"tornPatch", "unsafePatch"}}

MCStyles ==
    {{"verification", "likeness", "section", "bash", "bashBlank", "sh", "bare", "other", "cd", "text"}}

Job(r, s, n) == [repo |-> r, slug |-> s, named |-> n]
MCScenes ==
    \* Two of one repository.
    {[of |-> <<Job("A", "x", TRUE), Job("A", "y", TRUE)>>, pruners |-> Pruners, starts |-> 2,
      left |-> l] : l \in TreeStates}
    \* Two of two, of one name or not, and nobody names its id.
    \cup {[of |-> <<Job("A", "x", FALSE), Job("B", s, FALSE)>>, pruners |-> {11}, starts |-> 3,
           left |-> "none"] : s \in {"x", "y"}}

MCShows ==
    {[wait |-> {1, 2}, runs |-> {}, ticks |-> {1}, deletes |-> TRUE, turns |-> 1],
     [wait |-> {1}, runs |-> {}, ticks |-> {1, 2}, deletes |-> FALSE, turns |-> 1],
     [wait |-> {1}, runs |-> {}, ticks |-> {1}, deletes |-> FALSE, turns |-> 3],
     [wait |-> {}, runs |-> {1, 2}, ticks |-> {1}, deletes |-> FALSE, turns |-> 2]}
MCInside == {<<1, 2>>}

MCPlans == <<<<"a">>, <<"a", "b">>>>
=============================================================================
