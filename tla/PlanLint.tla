------------------------------ MODULE PlanLint ------------------------------
(***************************************************************************)
(* What the lint (planLint.ts) makes of a ticket's text, and what the      *)
(* worker makes of the same text (verify.ts): the bash blocks under        *)
(* `## Verification` are run in the worktree after the agent's session.    *)
(* The two find the section and its fences by different patterns. Nobody   *)
(* bounds the text: it is read a line at a time, and of a line only what   *)
(* the patterns tell apart is kept.                                        *)
(*                                                                         *)
(* Fences have three backticks and begin their line. The lint's other      *)
(* rules (steps, patches, phrases) are what TicketDoor calls a flaw.       *)
(***************************************************************************)
EXTENDS Naturals, FiniteSets

CONSTANTS
    MaxBlocks,   \* how many blocks the worker runs: 10 in the code
    Styles       \* the sets of lines an author keeps to

VARIABLES
    page,      \* is the text at its end
    style,     \* the lines it is made of
    linted,    \* the lint in the Verification section
    executed,  \* the worker in it
    ran,       \* how many blocks it ran
    misled     \* did the text have what the two read differently

lintVars == <<page, style, linted, executed, ran, misled>>

\* "likeness" is a heading such as `## Verifications`.
Sections == {"verification", "likeness", "section"}
Tagged == {"bash", "bashBlank", "sh", "other"}  \* bashBlank: a blank after the tag
Fences == Tagged \cup {"bare"}
Lines == Sections \cup Fences \cup {"cd", "text"}

ASSUME PlanLintAssumption == MaxBlocks \in Nat \ {0} /\ Styles \subseteq SUBSET Lines /\ Styles # {}

\* Mutant: a fence with a tag is not seen.
LintOpensUntagged == {"bare"}
LintOpens == {"bash", "sh", "bare"}
RunOpens == {"bash", "bashBlank"}
BlockStates == {"none", "empty", "filled", "cd"}
NothingRead == [at |-> "before", block |-> "none", found |-> FALSE]

PlanLintTypeOK ==
    /\ page \in {"read", "ended"} /\ style \in Styles /\ misled \in BOOLEAN
    /\ {linted, executed} \subseteq
         [at : {"before", "in", "past"}, block : BlockStates, found : BOOLEAN]
    /\ ran \in 0 .. MaxBlocks

LintAtRest ==
    /\ page = "read" /\ linted = NothingRead /\ executed = NothingRead /\ ran = 0
    /\ misled = FALSE
PlanLintIdle == style = (CHOOSE s \in Styles : TRUE) /\ LintAtRest
PlanLintInit == style \in Styles /\ LintAtRest
-----------------------------------------------------------------------------
\* The section is the first of its name, up to the next; a fence that is not
\* closed in it is none. Whatever has three backticks closes what is open.
BlockAfter(block, line, opens) ==
    IF line \in Sections THEN "none"
    ELSE IF line \in Fences THEN IF block = "none" /\ line \in opens THEN "empty" ELSE "none"
    ELSE IF block = "none" THEN "none"
    ELSE IF "cd" \in {block, line} THEN "cd" ELSE "filled"
Section(r, line, names, opens) ==
    [at    |-> IF r.at = "before" /\ line \in names THEN "in"
               ELSE IF r.at = "in" /\ line \in Sections THEN "past" ELSE r.at,
     block |-> IF r.at = "in" THEN BlockAfter(r.block, line, opens) ELSE "none",
     found |-> r.found]
BlockEnds(r, line) == r.at = "in" /\ r.block # "none" /\ line \in Fences

\* The lint takes every heading that begins so, and no fence with a blank after
\* its tag; the worker takes the word, and the blank. The lint reports every
\* block, the worker runs the first ones that are not empty.
checkNoCdInVerification(line) ==
    linted' = [Section(linted, line, {"verification", "likeness"}, LintOpens) EXCEPT
                 !.found = @ \/ (BlockEnds(linted, line) /\ linted.block = "cd")]
extractVerificationBlocks(line) ==
    LET runs == BlockEnds(executed, line) /\ executed.block # "empty" /\ ran < MaxBlocks
    IN  /\ executed' = [Section(executed, line, {"verification"}, RunOpens) EXCEPT
                           !.found = @ \/ (runs /\ executed.block = "cd")]
        /\ ran' = IF runs THEN ran + 1 ELSE ran

\* A heading that is only like the section's, and what one takes for a fence and
\* the other does not: another language, a blank, a tag while a fence is open.
Misleads(line) ==
    \/ executed.at = "before" /\ line = "likeness"
    \/ /\ executed.at = "in"
       /\ \/ line \in Tagged \ {"bash", "sh"}
          \/ line \in {"bash", "sh"} /\ linted.block # "none"

ReadLine(line) ==
    /\ page = "read" /\ line \in style
    /\ checkNoCdInVerification(line) /\ extractVerificationBlocks(line)
    /\ misled' = (misled \/ Misleads(line))
    /\ UNCHANGED <<page, style>>
PageEnds ==
    /\ page = "read" /\ page' = "ended"
    /\ UNCHANGED <<style, linted, executed, ran, misled>>

PlanLintNext == PageEnds \/ \E line \in Lines : ReadLine(line)
-----------------------------------------------------------------------------
\* No block that is run leaves the worktree: the lint that passes a ticket has
\* seen every `cd` the worker runs, unless the text misleads it.
CheckedIsWhatRuns ==
    page = "ended" /\ ~linted.found => ~executed.found \/ misled
=============================================================================
