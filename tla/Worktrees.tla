----------------------------- MODULE Worktrees -----------------------------
(***************************************************************************)
(* The git worktrees under worktreeRoot, one directory per repository and  *)
(* in it one per ticket's slug: a run adds its own and removes it at its   *)
(* end (worktree.ts, prFlow.ts), the daemon clears old backups away when   *)
(* it starts, and `junco worktree prune`, of the command line and of the   *)
(* dashboard, destroys what it is pointed at (worktreePruneCmd.ts), unless *)
(* a ticket in flight has the slug. The lock on the root makes a prune     *)
(* yield to the daemon and to another prune; the daemon tries for it and   *)
(* goes on without.                                                        *)
(*                                                                         *)
(* git's calls take effect in one step. A ticket without an `id:` takes    *)
(* its name from its file, and the file in processing/ has another.        *)
(***************************************************************************)
EXTENDS Naturals, FiniteSets

CONSTANTS
    Jobs,        \* the tickets with a repository
    Pruners,     \* the commands
    Scenes       \* who asks for what, after what: see SceneOf

VARIABLES
    scene,       \* one of the Scenes: never changes
    workerUp,    \* is the daemon, or run-once, up
    filed,       \* where the ticket's file is
    stage,       \* how far its run is
    current,     \* /health's currentTickets
    trees,       \* what is at <repo>/<slug>
    backups,     \* and at <repo>/<slug>.old-<time>
    rootLock,    \* who holds .worktrees.lock
    prune,       \* the commands
    robbed,      \* the runs that lost their tree, and why
    starts

treeVars == <<scene, workerUp, filed, stage, current, trees, backups, rootLock,
              prune, robbed, starts>>

Nobody == 0
Stages == {"none", "begun", "stale", "adding", "live", "cleaning"}
Unfinished == {"begun", "stale", "adding", "live"}
TreeStates == {"none", "whole", "broken", "gutted"}  \* broken: git does not know it; gutted: no .git
PruneAsks == {"ask", "asked"}
Removing == {"resolve", "remove", "recurse"}

\* Each ticket's repository, its slug and whether it names its id; the commands, and
\* how many claims, kills and prunes there may be; what an earlier run left of the trees.
SceneOf == [of : [Jobs -> [repo : {"A", "B"}, slug : {"x", "y"}, named : BOOLEAN]],
            pruners : SUBSET Pruners, starts : Nat, left : TreeStates]
ASSUME WorktreesAssumption ==
    /\ Scenes \subseteq SceneOf /\ Scenes # {}
    /\ Jobs \cup Pruners \subseteq Nat \ {Nobody} /\ Jobs \cap Pruners = {}

TreeOf(j) == <<scene.of[j].repo, scene.of[j].slug>>
Slug(j) == scene.of[j].slug
Places == {"A", "B"} \X {"x", "y"}
Targets == [kind : {"tree", "backup"}, at : Places]
NoPrune == [step |-> "idle"]
Pruning == [step : PruneAsks \cup Removing, target : Targets, liveSlugs : SUBSET {"x", "y"},
            heard : BOOLEAN, since : SUBSET Jobs]

WorktreesTypeOK ==
    /\ scene \in Scenes /\ workerUp \in BOOLEAN
    /\ filed \in [Jobs -> {"inbox", "processing", "over"}] /\ stage \in [Jobs -> Stages]
    /\ current \subseteq {"x", "y"}
    /\ trees \in [Places -> TreeStates] /\ backups \subseteq Places
    /\ rootLock \in Jobs \cup Pruners \cup {Nobody}
    /\ prune \in [Pruners -> Pruning \cup {NoPrune}]
    /\ robbed \in [Jobs -> {"no", "late", "nameless", "seen"}]
    /\ starts \in 0 .. scene.starts

\* An earlier run may have left its tree.
TreesAtRest ==
    /\ workerUp = TRUE /\ filed = [j \in Jobs |-> "inbox"] /\ stage = [j \in Jobs |-> "none"]
    /\ current = {} /\ backups = {} /\ rootLock = Nobody
    /\ prune = [p \in Pruners |-> NoPrune] /\ robbed = [j \in Jobs |-> "no"]
    /\ starts = 0
    /\ trees = [w \in Places |-> IF \E j \in Jobs : TreeOf(j) = w THEN scene.left ELSE "none"]
WorktreesIdle == scene = (CHOOSE s \in Scenes : TRUE) /\ TreesAtRest
WorktreesInit == scene \in Scenes /\ TreesAtRest

To(j, s) == stage' = [stage EXCEPT ![j] = s]
LockOr(who) == IF rootLock = Nobody THEN who ELSE rootLock
Unlocked(who) == IF rootLock = who THEN Nobody ELSE rootLock
-----------------------------------------------------------------------------
(* A run.                                                                  *)

\* Tickets of one repository run one after the other. The ticket is in
\* processing/ and in currentTickets before anything is awaited.
RunClaims(j) ==
    /\ workerUp /\ filed[j] = "inbox" /\ starts < scene.starts
    /\ \A k \in Jobs : stage[k] # "none" => scene.of[k].repo # scene.of[j].repo
    /\ starts' = starts + 1
    /\ filed' = [filed EXCEPT ![j] = "processing"] /\ To(j, "begun")
    /\ current' = current \cup {Slug(j)}
    /\ robbed' = [robbed EXCEPT ![j] = "no"]
    /\ prune' = [p \in Pruners |-> IF prune[p].step = "idle" THEN NoPrune
                                   ELSE [prune[p] EXCEPT !.since = @ \cup {j}]]
    /\ UNCHANGED <<scene, workerUp, trees, backups, rootLock>>

\* Its end, and with it that of every entry of its id.
RunEnds(j, box) ==
    /\ filed' = [filed EXCEPT ![j] = box] /\ To(j, "none")
    /\ current' = current \ {Slug(j)}
    /\ rootLock' = Unlocked(j)
    /\ UNCHANGED <<scene, workerUp, prune, robbed, starts>>

\* What is checked before there is a tree, and every git error until there is.
FailsEarly(j) ==
    /\ stage[j] \in {"begun", "stale", "adding"}
    /\ \E box \in {"inbox", "over"} : RunEnds(j, box)
    /\ \/ UNCHANGED trees
       \/ /\ stage[j] = "adding" /\ trees[TreeOf(j)] = "none"
          /\ \E how \in {"broken", "gutted"} : trees' = [trees EXCEPT ![TreeOf(j)] = how]
    /\ UNCHANGED backups

RunGoes(j) == UNCHANGED <<scene, workerUp, filed, current, prune, robbed, starts>>
prepareWorktree(j) ==
    /\ stage[j] = "begun"
    /\ rootLock' = LockOr(j)
    /\ To(j, IF trees[TreeOf(j)] = "none" THEN "adding" ELSE "stale")
    /\ RunGoes(j) /\ UNCHANGED <<trees, backups>>

\* git removes what it knows; the rest is moved aside.
ClearsStale(j) ==
    /\ stage[j] = "stale" /\ To(j, "adding")
    /\ trees' = [trees EXCEPT ![TreeOf(j)] = "none"]
    /\ \/ trees[TreeOf(j)] \in {"none", "whole"} /\ UNCHANGED backups
       \/ /\ trees[TreeOf(j)] # "none" /\ backups' = backups \cup {TreeOf(j)}
    /\ RunGoes(j) /\ UNCHANGED rootLock

Adds(j) ==
    /\ stage[j] = "adding" /\ trees[TreeOf(j)] = "none"
    /\ trees' = [trees EXCEPT ![TreeOf(j)] = "whole"]
    /\ To(j, "live") /\ rootLock' = Unlocked(j)
    /\ RunGoes(j) /\ UNCHANGED <<backups>>

\* A failed run leaves its tree to be looked at, and so may a finished one; a
\* ticket that goes back to the inbox goes before its tree does.
Preserves(j) ==
    /\ stage[j] = "live" /\ RunEnds(j, "over") /\ UNCHANGED <<trees, backups>>
Finishes(j) ==
    /\ stage[j] = "live" /\ To(j, "cleaning") /\ rootLock' = LockOr(j)
    /\ \E box \in {"processing", "inbox"} : filed' = [filed EXCEPT ![j] = box]
    /\ UNCHANGED <<scene, workerUp, current, prune, robbed, starts, trees, backups>>
\* Without --force: a tree with changes in it stays.
cleanupWorktree(j) ==
    /\ stage[j] = "cleaning"
    /\ RunEnds(j, IF filed[j] = "inbox" THEN "inbox" ELSE "over")
    /\ \/ trees' = [trees EXCEPT ![TreeOf(j)] = IF @ = "whole" THEN "none" ELSE @]
       \/ UNCHANGED trees
    /\ UNCHANGED <<backups>>

\* The operator retries a ticket.
Retried(j) ==
    /\ filed[j] = "over" /\ starts < scene.starts
    /\ filed' = [filed EXCEPT ![j] = "inbox"]
    /\ UNCHANGED <<scene, workerUp, stage, current, trees, backups, rootLock, prune,
                   robbed, starts>>

\* A kill in the middle of `git worktree add` leaves what there is of a tree.
RunsKilled ==
    /\ workerUp /\ starts < scene.starts /\ starts' = starts + 1
    /\ workerUp' = FALSE /\ stage' = [j \in Jobs |-> "none"] /\ current' = {}
    /\ rootLock' = IF rootLock \in Jobs THEN Nobody ELSE rootLock
    /\ \E torn \in SUBSET {j \in Jobs : stage[j] = "adding" /\ trees[TreeOf(j)] = "none"},
          how \in {"broken", "gutted"} :
         trees' = [w \in Places |-> IF \E j \in torn : TreeOf(j) = w THEN how ELSE trees[w]]
    /\ UNCHANGED <<scene, filed, backups, prune, robbed>>
\* recoverOrphans, then pruneStaleWorktrees.
Restarts ==
    /\ ~workerUp /\ workerUp' = TRUE
    /\ filed' = [j \in Jobs |-> IF filed[j] = "processing" THEN "inbox" ELSE filed[j]]
    /\ \E old \in SUBSET backups : backups' = backups \ old
    /\ UNCHANGED <<scene, stage, current, trees, rootLock, prune, robbed, starts>>
-----------------------------------------------------------------------------
(* A prune. It reads processing/ and only then awaits /health.             *)

PruneAt(p, s) == prune[p].step = s
PruneGoes(p, s) == prune' = [prune EXCEPT ![p].step = s]
RunsRest == UNCHANGED <<scene, workerUp, filed, stage, current>>
OthersRun == RunsRest /\ UNCHANGED starts

\* Mutant: processing/ is not looked at.
LiveSlugsUnread == {}
LiveSlugs == {Slug(j) : j \in {k \in Jobs : filed[k] = "processing" /\ scene.of[k].named}}
PruneBegins(p, target) ==
    /\ p \in scene.pruners /\ PruneAt(p, "idle") /\ rootLock = Nobody /\ starts < scene.starts
    /\ \E j \in Jobs : target.at = TreeOf(j)
    /\ rootLock' = p /\ starts' = starts + 1
    /\ prune' = [prune EXCEPT ![p] = [step |-> "ask", target |-> target,
                                      liveSlugs |-> LiveSlugs, heard |-> FALSE, since |-> {}]]
    /\ RunsRest /\ UNCHANGED <<trees, backups, robbed>>

\* Disabled, down or too slow is no answer, and no reason to stop.
fetchCurrentTickets(p) ==
    /\ PruneAt(p, "ask")
    /\ \/ /\ workerUp
          /\ prune' = [prune EXCEPT ![p].step = "asked", ![p].heard = TRUE,
                                    ![p].liveSlugs = @ \cup current]
       \/ PruneGoes(p, "asked")
    /\ OthersRun /\ UNCHANGED <<trees, backups, rootLock, robbed>>

PruneEnds(p) ==
    /\ rootLock' = Unlocked(p) /\ prune' = [prune EXCEPT ![p] = NoPrune]

\* Only a tree's name is a slug, whichever its repository.
SlugGate(p) ==
    LET t == prune[p].target
    IN  /\ PruneAt(p, "asked")
        /\ \/ /\ t.kind = "tree" /\ t.at[2] \in prune[p].liveSlugs
              /\ PruneEnds(p)
           \/ /\ t.kind # "tree" \/ t.at[2] \notin prune[p].liveSlugs
              /\ PruneGoes(p, "resolve") /\ UNCHANGED rootLock
        /\ OthersRun /\ UNCHANGED <<trees, backups, robbed>>

Resolves(p) ==
    LET t == prune[p].target
    IN  /\ PruneAt(p, "resolve")
        /\ \/ t.kind = "tree" /\ trees[t.at] = "whole" /\ PruneGoes(p, "remove")
           \/ (t.kind # "tree" \/ trees[t.at] # "whole") /\ PruneGoes(p, "recurse")
        /\ OthersRun /\ UNCHANGED <<trees, backups, rootLock, robbed>>

\* What that does to a run: it was claimed after the look at processing/, or its
\* name was not to be found there, or the prune knew of it.
Twin(j) == \E k \in Jobs \ {j} : Slug(k) = Slug(j)
Why(p, j) ==
    IF j \in prune[p].since THEN "late"
    ELSE IF ~scene.of[j].named /\ (~prune[p].heard \/ Twin(j)) THEN "nameless" ELSE "seen"
Destroys(p) ==
    LET w == prune[p].target.at
    IN  /\ trees' = [trees EXCEPT ![w] = "none"]
        /\ robbed' = [j \in Jobs |-> IF TreeOf(j) = w /\ stage[j] = "live" /\ trees[w] = "whole"
                                     THEN Why(p, j) ELSE robbed[j]]

RemovesTree(p) ==
    /\ PruneAt(p, "remove")
    /\ \/ /\ trees[prune[p].target.at] = "whole"
          /\ Destroys(p) /\ PruneEnds(p)
       \/ /\ PruneGoes(p, "recurse") /\ UNCHANGED <<trees, robbed, rootLock>>
    /\ OthersRun /\ UNCHANGED backups

\* Only a backup, and what has a .git, is deleted: never a repository's directory.
Recurses(p) ==
    LET t == prune[p].target
    IN  /\ PruneAt(p, "recurse") /\ PruneEnds(p)
        /\ \/ /\ t.kind = "backup" /\ backups' = backups \ {t.at}
              /\ UNCHANGED <<trees, robbed>>
           \/ t.kind = "tree" /\ trees[t.at] \in {"whole", "broken"} /\ Destroys(p)
              /\ UNCHANGED backups
           \/ /\ t.kind = "tree" /\ trees[t.at] \in {"none", "gutted"}
              /\ UNCHANGED <<trees, backups, robbed>>
        /\ OthersRun

PruneDies(p) ==
    /\ ~PruneAt(p, "idle") /\ PruneEnds(p)
    /\ OthersRun /\ UNCHANGED <<trees, backups, robbed>>

WorktreesNext ==
    \/ \E j \in Jobs :
         \/ RunClaims(j) \/ FailsEarly(j) \/ prepareWorktree(j) \/ ClearsStale(j) \/ Adds(j)
         \/ Preserves(j) \/ Finishes(j) \/ cleanupWorktree(j) \/ Retried(j)
    \/ RunsKilled \/ Restarts
    \/ \E p \in Pruners :
         \/ \E target \in Targets : PruneBegins(p, target)
         \/ fetchCurrentTickets(p) \/ SlugGate(p) \/ Resolves(p) \/ RemovesTree(p)
         \/ Recurses(p) \/ PruneDies(p)
-----------------------------------------------------------------------------
\* A run works in its own tree, whole, from its adding to its end: nobody takes
\* it but a prune that could not know. That is one whose ticket was claimed
\* after the prune's look at processing/, or, without an `id:`, unless /health
\* told of it. And two prunes exclude each other.
WorktreesAreSafe ==
    /\ \A j \in Jobs : stage[j] = "live" => trees[TreeOf(j)] = "whole" \/ robbed[j] # "no"
    /\ \A j \in Jobs : robbed[j] # "seen"
    /\ \A p, q \in Pruners : PruneAt(p, "idle") \/ PruneAt(q, "idle") \/ p = q
=============================================================================
