----------------------------- MODULE DataMigrate -----------------------------
(***************************************************************************)
(* `junco data migrate` (src/dataMigrateCmd.ts with src/dataMigrate.ts and *)
(* src/migratePathRewrite.ts): the move of the old state tree to ~/.junco, *)
(* pair by pair, beside a daemon that may start, write, stop or die at any *)
(* moment, and killed between any two of its file operations.              *)
(*                                                                         *)
(* Three things stand for the tree: the queue (a directory, which a legacy *)
(* vaultRoot may keep elsewhere), the watchlist (a file) and the clones (a *)
(* directory whose oldest name differs).  The queue's tickets and the      *)
(* watchlist hold absolute paths of clones.  A place holds a set of marks: *)
(* "mine", the operator's data whole; "news", data a daemon or a second    *)
(* root made there; "torn", an unfinished copy; "rest", a half-removed     *)
(* source.  The empty set is a directory with no file in it.               *)
(***************************************************************************)
EXTENDS Naturals, FiniteSets

CONSTANTS MaxFaults,   \* runs and daemons that die, copies and rewrites that fail
          MaxStarts,   \* starts of the daemon
          Across       \* may the two roots be on different devices?

ASSUME BoundsAssumption == /\ {MaxFaults, MaxStarts} \subseteq Nat
                           /\ Across \in BOOLEAN

Items == {"queue", "watch", "clones"}
Holders == {"queue", "watch"}
Spots == {"vault", "old", "flat", "cflat", "v2"}
Roots == {"L", "C"}                          \* ~/.local/state/junco, ~/.junco
Absent == {"absent"}
NoRun == [pc |-> "idle"]

VARIABLES
  tree,      \* tree[i][p]: what is at the place p of the item i
  ref,       \* ref[h]: the place of the clones that the paths inside h name
  journal,   \* journal[r]: the migrated.json of the root r
  lock,      \* lock[r]: is its migrate.lock held by a live run?
  claim,     \* claim[p]: the daemon's claim file in a root or a queue
  legacyThere, marked,   \* does L exist?  does C hold a marker of a tree?
  vaultRoot, \* does config.json name a legacy vaultRoot?
  across,    \* are L and C on different devices?
  run, daemon,
  last,      \* how the last run that ended left things
  warned,    \* holders whose stored paths the run, or the last one, warned of
  cut,       \* ghost: moves whose run or daemon died before it wrote them down
  raced,     \* ghost: a daemon was up while a run acted
  passed,    \* ghost: C was marked while the old names were still at L
  faults, starts

machine == <<legacyThere, marked, vaultRoot, across>>
ghosts == <<cut, warned, raced, passed>>
bounds == <<faults, starts>>
migrateVars == <<tree, ref, journal, lock, claim, machine, run, daemon, last, ghosts,
          bounds>>

NoJournal == [there |-> FALSE, renamed |-> {}, partial |-> {}]
Down == [pc |-> "down", root |-> "C", vault |-> FALSE]
NoEnd == [exit |-> "none", conflicts |-> {}, named |-> {}]

\* A machine before its first migration: each thing where some version of
\* junco left it, and perhaps a second, flat tree at ~/.junco.
MigrateInit ==
  /\ vaultRoot \in BOOLEAN /\ across \in (IF Across THEN BOOLEAN ELSE {FALSE})
  /\ \E home \in {"old", "flat"}, second \in BOOLEAN, stray \in BOOLEAN :
       /\ stray => vaultRoot
       /\ tree = [i \in Items |-> [p \in Spots |->
            CASE i = "queue" /\ p = "vault" /\ vaultRoot -> {"mine"}
              [] i = "queue" /\ p = "flat" /\ ~vaultRoot -> {"mine"}
              [] i = "queue" /\ p = "flat" /\ stray -> {"news"}
              [] i = "watch" /\ p = "flat" -> {"mine"}
              [] i = "clones" /\ p = home -> {"mine"}
              [] i = "clones" /\ p = "cflat" /\ second -> {"news"}
              [] OTHER -> Absent]]
       /\ ref = [h \in Holders |-> home]
       /\ marked = second /\ passed = (second /\ home = "old")
  /\ journal = [r \in Roots |-> NoJournal]
  /\ lock = [r \in Roots |-> FALSE]
  /\ claim = [p \in Roots \cup {"vault", "flat", "v2"} |-> "none"]
  /\ legacyThere = TRUE
  /\ run = NoRun /\ daemon = Down /\ last = NoEnd
  /\ cut = {} /\ warned = {} /\ raced = FALSE
  /\ faults = 0 /\ starts = 0

Has(i, p) == tree[i][p] # Absent
IsFile(i) == i = "watch"
\* Mutant: a destination that is a directory counts as scaffolding.
IsDir(i, p) == Has(i, p) /\ ~IsFile(i)
\* A directory with no file anywhere in it; a claim left in a queue is one.
IsRecursivelyEmptyDir(i, p) ==
  /\ tree[i][p] = {} /\ ~IsFile(i)
  /\ (i = "queue" /\ p \in DOMAIN claim) => claim[p] = "none"
\* The root the configuration resolves to at this moment.
DataRoot == IF ~marked /\ legacyThere THEN "L" ELSE "C"
QueueAt(root, vault) == IF vault THEN "vault" ELSE IF root = "L" THEN "flat" ELSE "v2"
LiveAt(i, root, vault) == IF i = "queue" THEN QueueAt(root, vault)
                          ELSE IF root = "L" THEN "flat" ELSE "v2"
Step(i, from, to) == [item |-> i, from |-> from, to |-> to]
OldName == Step("clones", "old", "flat")

\* A rename: what was at from is at to, the claim file in it included.
Moved(i, from, to) == [tree EXCEPT ![i][from] = Absent, ![i][to] = tree[i][from]]
ClaimMoved(i, from, to) ==
  IF i = "queue" /\ claim[from] # "none"
  THEN [claim EXCEPT ![from] = "none", ![to] = claim[from]] ELSE claim

AppendRenamed(j, steps) == [there |-> TRUE, renamed |-> j.renamed \cup steps,
                            partial |-> j.partial \ steps]
Journaled(j, done, torn, any) ==
  IF done \cup torn = {} /\ ~any THEN j
  ELSE [AppendRenamed(j, done) EXCEPT !.partial = @ \cup torn]

-----------------------------------------------------------------------------
(* The daemon: its start reads the configuration once, claims its roots,   *)
(* normalises the old names under migrate.lock and makes the tree.         *)

DaemonLoad ==
  /\ daemon.pc = "down" /\ starts < MaxStarts
  /\ LET root == DataRoot
         q == QueueAt(root, vaultRoot)
     IN /\ claim[root] # "live" /\ claim[q] # "live"
        /\ daemon' = [pc |-> "loaded", root |-> root, vault |-> vaultRoot]
        /\ claim' = [claim EXCEPT ![root] = "live", ![q] = "live"]
        /\ tree' = [tree EXCEPT !["queue"][q] =
                      IF @ = Absent /\ q # "vault" THEN {} ELSE @]
        /\ legacyThere' = (legacyThere \/ root = "L")
        /\ marked' = (marked \/ q = "v2")
        /\ passed' = (passed \/ (~marked /\ marked' /\ Has("clones", "old")))
  /\ starts' = starts + 1
  /\ raced' = (raced \/ run.pc \notin {"idle", "probe"})
  /\ UNCHANGED <<ref, journal, lock, vaultRoot, across, run, last, cut, warned,
                 faults>>

\* Mutant: the old name is renamed onto what is at the new one.
OldNameAlwaysMoves(root) == root = "L" /\ Has("clones", "old")
\* migrateStateTree: repos becomes clones/watched, never onto real data.
OldNameMoves(root) ==
  root = "L" /\ Has("clones", "old")
    /\ (~Has("clones", "flat") \/ IsRecursivelyEmptyDir("clones", "flat"))
OldNameConflicts(root) == root = "L" /\ Has("clones", "old") /\ ~OldNameMoves(root)

\* The old names are being moved by the daemon, which holds migrate.lock of L.
Naming == daemon.pc = "naming"

\* Skipped when a run holds the lock.
DaemonNames ==
  /\ daemon.pc = "loaded"
  /\ IF ~lock[daemon.root] /\ OldNameMoves(daemon.root)
     THEN /\ tree' = Moved("clones", "old", "flat")
          /\ daemon' = [daemon EXCEPT !.pc = "naming"]
     ELSE daemon' = [daemon EXCEPT !.pc = "named"] /\ UNCHANGED tree
  /\ UNCHANGED <<ref, journal, lock, claim, machine, run, last, ghosts, bounds>>

\* The `finally` of the same pass; then the lock is released.
DaemonJournalsNames ==
  /\ Naming
  /\ journal' = [journal EXCEPT !["L"] = AppendRenamed(@, {OldName})]
  /\ daemon' = [daemon EXCEPT !.pc = "named"]
  /\ UNCHANGED <<tree, ref, lock, claim, machine, run, last, ghosts, bounds>>

\* ensureDataTree makes the directories that are missing and nothing else.
DaemonMkdirs ==
  /\ daemon.pc = "named"
  /\ daemon' = [daemon EXCEPT !.pc = "up"]
  /\ tree' = [i \in Items |-> [p \in Spots |->
       IF ~IsFile(i) /\ p = LiveAt(i, daemon.root, daemon.vault) /\ ~Has(i, p)
       THEN {} ELSE tree[i][p]]]
  /\ marked' = (marked \/ daemon.root = "C")
  /\ legacyThere' = (legacyThere \/ daemon.root = "L")
  /\ passed' = (passed \/ (~marked /\ marked' /\ Has("clones", "old")))
  /\ UNCHANGED <<ref, journal, lock, claim, vaultRoot, across, run, last, cut,
                 warned, raced, bounds>>

\* A daemon that is up files tickets, watches and clones in the tree it has.
DaemonWrites(i) ==
  /\ daemon.pc = "up"
  /\ LET p == LiveAt(i, daemon.root, daemon.vault)
     IN /\ Has(i, p) \/ IsFile(i)
        /\ "mine" \notin tree[i][p] /\ "news" \notin tree[i][p]
        /\ tree' = [tree EXCEPT ![i][p] = (@ \ Absent) \cup {"news"}]
  /\ UNCHANGED <<ref, journal, lock, claim, machine, run, daemon, last, ghosts,
                 bounds>>

\* An orderly stop unlinks the claims it finds where it put them; one that was
\* moved with its queue, and both after a kill, are left with no live owner.
\* Only a kill comes between a rename and its journal.
DaemonEnds(killed) ==
  /\ daemon.pc # "down" /\ (IF killed THEN faults < MaxFaults ELSE ~Naming)
  /\ cut' = IF Naming THEN cut \cup {OldName} ELSE cut
  /\ LET own == {daemon.root, QueueAt(daemon.root, daemon.vault)}
     IN claim' = [p \in DOMAIN claim |->
                    IF claim[p] # "live" THEN claim[p]
                    ELSE IF p \in own /\ ~killed THEN "none" ELSE "stale"]
  /\ daemon' = Down
  /\ faults' = faults + (IF killed THEN 1 ELSE 0)
  /\ UNCHANGED <<tree, ref, journal, lock, machine, run, last, warned, raced, passed,
                 starts>>

-----------------------------------------------------------------------------
(* The command: probe and plan.                                            *)

RunOnly == <<tree, ref, journal, claim, machine, daemon, passed, faults, starts>>
RunAt(pc) == run.pc = pc
Go(pc) == run' = [run EXCEPT !.pc = pc]

Load ==
  /\ RunAt("idle") /\ (last.exit # "clean" \/ warned # {})
  /\ run' = [pc |-> "probe", root |-> DataRoot, vault |-> vaultRoot,
             pairs |-> {}, contended |-> {}, claimed |-> FALSE, prior |-> {},
             done |-> {}, torn |-> {}, conflicts |-> {}, named |-> {},
             failed |-> FALSE]
  /\ last' = NoEnd /\ warned' = {} /\ raced' = FALSE
  /\ UNCHANGED <<lock, cut, RunOnly>>

Ended(exit) == /\ run' = NoRun
               /\ last' = [exit |-> exit, conflicts |-> run.conflicts,
                           named |-> run.named]

Refused == \E p \in DOMAIN claim : claim[p] = "live"

\* A pair of the move is an item and the place it leaves; the run takes its pairs
\* in this order.
Pairs == {[item |-> "queue", from |-> "flat"], [item |-> "watch", from |-> "flat"],
          [item |-> "journal", from |-> "L"],
          [item |-> "clones", from |-> "cflat"], [item |-> "clones", from |-> "flat"]}
Rank(q) == CASE q.item = "queue" -> 1 [] q.item = "watch" -> 2 [] q.item = "journal" -> 3
             [] q.item = "clones" -> IF q.from = "cflat" THEN 4 ELSE 5

\* The sources this run may see: its own root's, and the fixed legacy root's
\* whatever the configuration resolves to by now.  Of two the first wins, and
\* the pair of the other is kept to be reported.
Pending(i, root) ==
  {p \in {"cflat", "flat"} : Has(i, p) /\ (p = "cflat" => root = "C" /\ i = "clones")}
Contended(root) == {i \in Items : Pending(i, root) = {"cflat", "flat"}}
DataRootPairs(root) ==
  {q \in Pairs : q.item = "clones" =>
     IF q.from = "cflat" THEN "cflat" \in Pending("clones", root)
                         ELSE \/ "flat" \in Pending("clones", root)
                              \/ Pending("clones", root) = {}}

\* The probe of the daemon, then the read-only plan (where a dry run stops).
Probe ==
  /\ RunAt("probe")
  /\ \/ Refused /\ Ended("none")
     \/ /\ ~Refused
        /\ run' = [run EXCEPT !.pc = "lock", !.pairs = DataRootPairs(run.root),
                              !.contended = Contended(run.root)]
        /\ UNCHANGED last
  /\ UNCHANGED <<lock, cut, warned, raced, RunOnly>>

\* Mutant: a claim nobody holds any more is left where it is.
NothingSwept == claim
Swept == [p \in DOMAIN claim |-> IF claim[p] = "stale" THEN "none" ELSE claim[p]]

\* migrate.lock at every root there is, all or none; then the claims that no
\* live process owns are cleared, and what earlier runs recorded is read.
Lock ==
  /\ RunAt("lock") /\ ~Naming
  /\ LET roots == {"C"} \cup (IF legacyThere THEN {"L"} ELSE {})
     IN lock' = [r \in Roots |-> lock[r] \/ r \in roots]
  /\ claim' = Swept
  /\ run' = [run EXCEPT !.pc = "queue", !.prior = journal["C"].partial]
  /\ raced' = (raced \/ daemon.pc # "down")
  /\ UNCHANGED <<tree, ref, journal, machine, daemon, last, cut, warned, passed,
                 bounds>>

LockRefused ==
  /\ RunAt("lock") /\ Naming
  /\ Ended("none")
  /\ UNCHANGED <<lock, cut, warned, raced, RunOnly>>

-----------------------------------------------------------------------------
(* The vault's queue, and the old names.                                   *)

Acting == /\ UNCHANGED <<ref, lock, vaultRoot, across, legacyThere, daemon, last,
                         cut, warned, starts>>
          /\ raced' = (raced \/ daemon.pc # "down")
NoFault == UNCHANGED faults
Mark == /\ marked' = TRUE
        /\ passed' = (passed \/ (~marked /\ Has("clones", "old")))

QueueMkdir ==
  /\ RunAt("queue")
  /\ IF run.vault /\ Has("queue", "vault")
     THEN /\ run' = [run EXCEPT !.pc = "vault", !.claimed = TRUE]
          /\ tree' = [tree EXCEPT !["queue"]["v2"] = IF @ = Absent THEN {} ELSE @]
          /\ Mark
     ELSE Go("names") /\ UNCHANGED <<tree, marked, passed>>
  /\ UNCHANGED <<journal, claim>> /\ Acting /\ NoFault

\* Onto empty directories the rename succeeds, onto files it fails; across
\* devices the copy goes into whatever is there.
QueueMove ==
  /\ RunAt("vault")
  /\ LET here == tree["queue"]["v2"]
     IN \/ /\ ~across /\ here \subseteq Absent
           /\ tree' = Moved("queue", "vault", "v2")
           /\ Go("names")
        \/ /\ ~across /\ ~(here \subseteq Absent)
           /\ run' = [run EXCEPT !.pc = "exit", !.failed = TRUE]
           /\ UNCHANGED tree
        \/ /\ across /\ "torn" \notin here
           /\ tree' = [tree EXCEPT !["queue"]["v2"] = (@ \ Absent) \cup {"torn"}]
           /\ UNCHANGED run
        \/ /\ across /\ "torn" \in here
           /\ tree' = [tree EXCEPT !["queue"]["v2"] =
                          (@ \ {"torn"}) \cup (tree["queue"]["vault"] \ {"rest"}),
                          !["queue"]["vault"] = {"rest"}]
           /\ Go("vaultrm")
  /\ UNCHANGED <<journal, claim, marked, passed>> /\ Acting /\ NoFault

QueueCopyFails ==
  /\ RunAt("vault") /\ "torn" \in tree["queue"]["v2"] /\ faults < MaxFaults
  /\ run' = [run EXCEPT !.pc = "exit", !.failed = TRUE]
  /\ faults' = faults + 1
  /\ UNCHANGED <<tree, journal, claim, marked, passed>> /\ Acting

QueueRemoveSource ==
  /\ RunAt("vaultrm")
  /\ tree' = [tree EXCEPT !["queue"]["vault"] = Absent]
  /\ Go("names")
  /\ UNCHANGED <<journal, claim, marked, passed>> /\ Acting /\ NoFault

Names ==
  /\ RunAt("names")
  /\ IF OldNameMoves(run.root)
     THEN /\ tree' = Moved("clones", "old", "flat")
          /\ Go("journalnames")
     ELSE /\ run' = [run EXCEPT !.pc = "pairs",
                !.conflicts = IF OldNameConflicts(run.root) THEN @ \cup {"names"} ELSE @]
          /\ UNCHANGED tree
  /\ UNCHANGED <<journal, claim, marked, passed>> /\ Acting /\ NoFault

JournalNames ==
  /\ RunAt("journalnames")
  /\ journal' = [journal EXCEPT ![run.root] =
                   AppendRenamed(@, {OldName})]
  /\ Go("pairs")
  /\ UNCHANGED <<tree, claim, marked, passed>> /\ Acting /\ NoFault

-----------------------------------------------------------------------------
(* The pairs of the data root, one at a time, then the record of them.     *)

Filter ==
  /\ RunAt("pairs")
  /\ run' = [run EXCEPT !.pc = "loop", !.pairs = {q \in @ :
               IF q.item = "journal" THEN journal["L"].there
               ELSE Has(q.item, q.from)}]
  /\ UNCHANGED <<tree, journal, claim, marked, passed>> /\ Acting /\ NoFault

Pair == CHOOSE q \in run.pairs : \A o \in run.pairs : Rank(q) <= Rank(o)
Looping(item) == RunAt("loop") /\ run.pairs # {} /\ (Pair.item = "journal") = (item = "journal")
Conflict(named) ==
  run' = [run EXCEPT !.pairs = @ \ {Pair}, !.conflicts = @ \cup {Pair.item},
                     !.named = IF named THEN @ \cup {Pair.item} ELSE @]
Spoken == \/ run.claimed /\ Pair.item = "queue"
          \/ Pair.item \in run.contended /\ Pair.from = "flat"

\* The record that old-name moves left at L is merged, never renamed.
MergeJournal ==
  /\ Looping("journal")
  /\ journal' = [journal EXCEPT !["L"] = NoJournal,
        !["C"] = IF journal["L"].renamed = {} THEN @
                 ELSE AppendRenamed(@, journal["L"].renamed)]
  /\ run' = [run EXCEPT !.pairs = @ \ {Pair}]
  /\ UNCHANGED <<tree, claim, marked, passed>> /\ Acting /\ NoFault

\* moveDataRootPair up to the rename: scaffolding is replaced, real data never.
MoveCheck ==
  /\ Looping("data")
  /\ LET i == Pair.item
         free == ~Has(i, "v2") \/ IsRecursivelyEmptyDir(i, "v2")
     IN IF Spoken \/ ~free
        THEN /\ Conflict(~Spoken /\ Step(i, Pair.from, "v2") \in run.prior)
             /\ UNCHANGED <<tree, marked, passed>>
        ELSE /\ tree' = [tree EXCEPT ![i]["v2"] = Absent]
             /\ Go("rename")
             /\ IF i = "clones" THEN Mark ELSE UNCHANGED <<marked, passed>>
  /\ UNCHANGED <<journal, claim>> /\ Acting /\ NoFault

Crosses == across /\ Pair.from # "cflat"
Renamed == [run EXCEPT !.pc = "loop", !.pairs = @ \ {Pair},
                       !.done = @ \cup {Step(Pair.item, Pair.from, "v2")}]

\* One file replaces another; a directory replaces nothing that has entries.
Rename ==
  /\ RunAt("rename") /\ ~Crosses
  /\ LET i == Pair.item
     IN IF Has(i, "v2") /\ ~IsFile(i)
        THEN /\ run' = [run EXCEPT !.pc = "journal", !.failed = TRUE]
             /\ UNCHANGED <<tree, claim, marked, passed>>
        ELSE /\ tree' = Moved(i, Pair.from, "v2")
             /\ claim' = ClaimMoved(i, Pair.from, "v2")
             /\ run' = Renamed
             /\ IF i = "queue" THEN Mark ELSE UNCHANGED <<marked, passed>>
  /\ UNCHANGED journal /\ Acting /\ NoFault

CopyBegins ==
  /\ RunAt("rename") /\ Crosses
  /\ tree' = [tree EXCEPT ![Pair.item]["v2"] =
                IF IsFile(Pair.item) THEN {"torn"} ELSE (@ \ Absent) \cup {"torn"}]
  /\ Go("copy")
  /\ IF Pair.item = "queue" THEN Mark ELSE UNCHANGED <<marked, passed>>
  /\ UNCHANGED <<journal, claim>> /\ Acting /\ NoFault

\* Copied, verified and on disk; only then is the source removed.
CopyDone ==
  /\ RunAt("copy")
  /\ tree' = [tree EXCEPT ![Pair.item]["v2"] = (@ \ {"torn"}) \cup tree[Pair.item][Pair.from],
                          ![Pair.item][Pair.from] = {"rest"}]
  /\ claim' = ClaimMoved(Pair.item, Pair.from, "v2")
  /\ Go("remove")
  /\ UNCHANGED <<journal, marked, passed>> /\ Acting /\ NoFault

CopyFails ==
  /\ RunAt("copy") /\ faults < MaxFaults
  /\ faults' = faults + 1
  /\ run' = [run EXCEPT !.pc = "journal", !.failed = TRUE,
                        !.torn = @ \cup {Step(Pair.item, Pair.from, "v2")}]
  /\ UNCHANGED <<tree, journal, claim, marked, passed>> /\ Acting

RemoveSource ==
  /\ RunAt("remove")
  /\ tree' = [tree EXCEPT ![Pair.item][Pair.from] = Absent]
  /\ run' = Renamed
  /\ UNCHANGED <<journal, claim, marked, passed>> /\ Acting /\ NoFault

\* The `finally` of the loop: what was done and torn is written to C's journal.
JournalPairs ==
  /\ RunAt("journal") \/ (RunAt("loop") /\ run.pairs = {})
  /\ journal' = [journal EXCEPT !["C"] =
                   Journaled(@, run.done, run.torn, run.conflicts # {})]
  /\ Go(IF run.failed THEN "exit" ELSE "rewrite")
  /\ UNCHANGED <<tree, claim, marked, passed>> /\ Acting /\ NoFault

-----------------------------------------------------------------------------
(* Stored paths, the legacy root, config.json, the receipt.                *)

\* buildPrefixMap: a prefix is followed through the later moves of its target.
Hop(steps, p) ==
  LET out == {s \in steps : s.item = "clones" /\ s.from = p}
  IN IF out = {} THEN p ELSE (CHOOSE s \in out : TRUE).to
Followed(steps, p) == Hop(steps, Hop(steps, p))
KnownMoves == journal["C"].renamed \cup run.done

\* What cannot be read or written is warned of and left as it is.
RewriteStoredPaths ==
  /\ RunAt("rewrite")
  /\ \E failing \in SUBSET {h \in Holders : Has(h, "v2")} :
       /\ failing # {} => faults < MaxFaults
       /\ faults' = IF failing = {} THEN faults ELSE faults + 1
       /\ warned' = failing
       /\ ref' = [h \in Holders |-> IF "mine" \in tree[h]["v2"] /\ h \notin failing
                                    THEN Followed(KnownMoves, ref[h]) ELSE ref[h]]
  /\ Go("legacy")
  /\ UNCHANGED <<tree, journal, lock, claim, machine, daemon, last, cut, passed,
                 starts>>
  /\ raced' = (raced \/ daemon.pc # "down")

\* The legacy root goes when nothing is left in it, its own lock included.
RemoveLegacyRoot ==
  /\ RunAt("legacy")
  /\ lock' = [lock EXCEPT !["L"] = FALSE]
  /\ legacyThere' = (legacyThere /\
       ~(/\ \A i \in Items, p \in {"old", "flat"} : ~Has(i, p)
         /\ ~journal["L"].there /\ claim["L"] = "none" /\ claim["flat"] = "none"))
  /\ Go("config")
  /\ UNCHANGED <<tree, ref, journal, claim, marked, vaultRoot, across, daemon,
                 last, ghosts, bounds>>

Exit ==
  /\ run.pc \in {"config", "exit"}
  /\ vaultRoot' = (vaultRoot /\ RunAt("exit"))
  /\ Ended(IF run.failed THEN "failed"
           ELSE IF run.conflicts # {} THEN "conflicts" ELSE "clean")
  /\ lock' = [r \in Roots |-> FALSE]
  /\ UNCHANGED <<tree, ref, journal, claim, legacyThere, marked, across, daemon,
                 ghosts, bounds>>

\* A killed run leaves its locks to be stolen and its moves unrecorded.
Kill ==
  /\ ~RunAt("idle") /\ faults < MaxFaults
  /\ Ended("killed")
  /\ lock' = [r \in Roots |-> FALSE]
  /\ cut' = cut \cup (run.done \ journal["C"].renamed)
                 \cup (run.torn \ journal["C"].partial)
                 \cup (IF RunAt("journalnames") THEN {OldName} ELSE {})
                 \cup (IF run.pc \in {"copy", "remove"}
                       THEN {Step(Pair.item, Pair.from, "v2")} ELSE {})
  /\ faults' = faults + 1
  /\ UNCHANGED <<tree, ref, journal, claim, machine, daemon, warned, raced, passed,
                 starts>>

\* The operator removes the wreckage the receipt of the last run named.
ClearWreckage(i) ==
  /\ RunAt("idle") /\ i \in last.named /\ tree[i]["v2"] = {"torn"}
  /\ tree' = [tree EXCEPT ![i]["v2"] = Absent]
  /\ last' = [last EXCEPT !.named = @ \ {i}]
  /\ UNCHANGED <<ref, journal, lock, claim, machine, run, daemon, ghosts, bounds>>

Acts == \/ Lock \/ QueueMkdir \/ QueueMove \/ QueueCopyFails \/ QueueRemoveSource \/ Names
        \/ JournalNames \/ Filter \/ MergeJournal \/ MoveCheck \/ Rename
        \/ CopyBegins \/ CopyDone \/ CopyFails \/ RemoveSource
        \/ JournalPairs \/ RewriteStoredPaths \/ RemoveLegacyRoot
        \/ Exit

Daemon == \/ DaemonLoad \/ DaemonNames \/ DaemonJournalsNames \/ DaemonMkdirs
          \/ \E i \in Items : DaemonWrites(i)
          \/ \E killed \in BOOLEAN : DaemonEnds(killed)

MigrateNext == \/ Load \/ Probe \/ LockRefused \/ Acts \/ Kill \/ Daemon
               \/ \E i \in Items : ClearWreckage(i)

\* An operator who runs the command until it says all is done and warns of nothing, and
\* clears the wreckage it names; a daemon that is stopped in the end.
MigrateFairness ==
  /\ WF_migrateVars(Load \/ Probe \/ LockRefused \/ Acts)
  /\ WF_migrateVars(DaemonJournalsNames \/ DaemonEnds(FALSE))
  /\ SF_migrateVars(\E i \in Items : ClearWreckage(i))

MigrateSpec == MigrateInit /\ [][MigrateNext]_migrateVars /\ MigrateFairness

-----------------------------------------------------------------------------
(* Properties.                                                             *)

MigrateTypeOK ==
  /\ \A i \in Items, p \in Spots :
       \/ tree[i][p] = Absent
       \/ tree[i][p] \subseteq {"mine", "news", "torn", "rest"}
  /\ \A r \in Roots : /\ journal[r].there \in BOOLEAN /\ lock[r] \in BOOLEAN
                       /\ \A s \in journal[r].renamed \cup journal[r].partial :
                            s.item \in Items /\ {s.from, s.to} \subseteq Spots
  /\ \A h \in Holders : ref[h] \in Spots
  /\ \A p \in DOMAIN claim : claim[p] \in {"none", "live", "stale"}
  /\ daemon.pc \in {"down", "loaded", "naming", "named", "up"} /\ daemon.root \in Roots
  /\ last.exit \in {"none", "clean", "conflicts", "failed", "killed"}
  /\ warned \subseteq Holders
  /\ last.named \subseteq last.conflicts /\ last.conflicts \subseteq Items \cup {"names"}
  /\ faults \in 0 .. MaxFaults /\ starts \in 0 .. MaxStarts

\* At every moment, a kill between two file operations included, all the
\* operator's data is whole somewhere.
NothingLost == \A i \in Items : \E p \in Spots : "mine" \in tree[i][p]

\* No step of a run makes less of what a daemon or the other root has written,
\* nor puts it together with the data being moved, unless a daemon came up
\* after the run's probe.  (What is left in a vault's queue is the same queue:
\* a second run adds it to what the first one moved.)
News(t, i) == {p \in Spots : "news" \in t[i][p]}
OthersDataStands ==
  [][~raced' /\ ~RunAt("vault") => \A i \in Items :
        /\ Cardinality(News(tree', i)) >= Cardinality(News(tree, i))
        /\ \A p \in News(tree', i) :
             "mine" \in tree'[i][p] => {"mine", "news"} \subseteq tree[i][p]]_migrateVars

\* A run that says all is done has left nothing of the operator's behind, and
\* every stored path names where the clones are: unless its receipt warns of the
\* file that holds the path (it exits 0 all the same), the record of a move died
\* with the run or daemon that made it, or ~/.junco looked populated before the
\* old names at the legacy root were normalised.
CleanMeansUnified ==
  last.exit = "clean" =>
    \A i \in Items :
      \/ /\ "mine" \in tree[i]["v2"]
         /\ i \in Holders => ref[i] = "v2" \/ i \in warned \/ cut # {}
      \/ passed

\* Nothing of the operator's is lost at any moment, and what is called clean is.
DataIsSafe == MigrateTypeOK /\ NothingLost /\ CleanMeansUnified

\* A conflict with an unfinished copy is reported as one, unless the run that
\* made it was killed.  (Not the converse: what a journal says of a copy outlives
\* the copy, so a conflict with whole data may be called unfinished too.)
PartialIsNamed ==
  [][last'.exit \in {"conflicts", "failed"} /\ run # run' =>
      \A i \in last'.conflicts \ {"names"} :
        "torn" \in tree[i]["v2"] => i \in last'.named \/ \E s \in cut : s.item = i]_migrateVars

\* A step neither harms other people's data nor misreports what it left torn.
StepsAreSafe == OthersDataStands /\ PartialIsNamed

\* Run again after each failure or warning, with the wreckage it names removed, the
\* command ends with everything in place or with a conflict that is real; but
\* a vault's queue made again after it was moved stops every run.
Unified == \A i \in Items :
  \/ "mine" \in tree[i]["v2"]
  \/ i \in last.conflicts /\ tree[i]["v2"] \notin {Absent, {}}
  \/ i = "clones" /\ "names" \in last.conflicts
  \/ passed
VaultStuck == last.exit = "failed" /\ Has("queue", "vault") /\ Has("queue", "v2")
EventuallyUnified ==
  []<>(VaultStuck \/ (last.exit \in {"clean", "conflicts"} /\ Unified
                      /\ (last.exit = "clean" => warned = {})))

=============================================================================
