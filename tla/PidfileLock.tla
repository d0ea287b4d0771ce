---------------------------- MODULE PidfileLock ----------------------------
(***************************************************************************)
(* The pidfile lock of pidfileLock.ts, one file system call at a time: the *)
(* cross-process mutual exclusion behind the daemon's three claims         *)
(* (lock.ts), the outbox flush lock, worktrees.lock and migrate.lock.      *)
(*                                                                         *)
(* A process creates the file with its content (link of a complete temp    *)
(* file), or finds it taken and judges the recorded owner. A stale file is *)
(* moved aside, the moved content judged again, and either discarded       *)
(* before a second create or put back. Where the file system has no hard   *)
(* links, a create is an O_EXCL open followed by the write of the content. *)
(*                                                                         *)
(* A process here is one incarnation: its pid and start time are its       *)
(* identity, so a content it wrote is live exactly while it is.            *)
(***************************************************************************)
EXTENDS Naturals, FiniteSets

CONSTANTS
    Procs,      \* process incarnations that use the lock
    Ghost,      \* a process that died before any of them started
    None,       \* no file
    Returning,  \* processes that release the lock and try again later; the rest
                \* keep what they get until they die
    Crashes     \* processes may die at any point

ASSUME LockAssumption ==
    /\ Procs # {} /\ Ghost \notin Procs
    /\ Returning \subseteq Procs /\ Crashes \in BOOLEAN

VARIABLES
    lock,   \* the file at lockPath, or None
    aside,  \* the file each process has moved aside, or None
    alive,  \* which processes live
    pc,     \* where each process is in acquire / release
    usurped, \* history: whose file was lost, or whose name another took
    links   \* whether the lock's file system supports link(2); never changes

lockVars == <<lock, aside, alive, pc, usurped, links>>

\* A file: the owner its content names, who created it, whether the content
\* has been written yet (always, with hard links), and whether it is a moved
\* file that was put back.
File == [owner : Procs \cup {Ghost}, maker : Procs \cup {Ghost}, full : BOOLEAN, back : BOOLEAN]
ASSUME NoneAssumption == None \notin File
FileOf(o, m, f, b) == [owner |-> o, maker |-> m, full |-> f, back |-> b]

\* checkStaleContent: unparseable, or the recorded owner is dead.
Stale(f) == ~f.full \/ f.owner = Ghost \/ ~alive[f.owner]

Holding == {"held", "unlink"}
Steps == {"idle", "create", "check", "steal", "settle", "verify", "restore", "retry",
          "write", "rewrite", "lost", "dead"} \cup Holding

LockInit ==
    /\ lock \in {None, FileOf(Ghost, Ghost, TRUE, FALSE)}
    /\ aside = [p \in Procs |-> None]
    /\ alive = [p \in Procs |-> TRUE]
    /\ pc = [p \in Procs |-> "idle"]
    /\ usurped = {}
    /\ links \in BOOLEAN

Goto(p, step) == pc' = [pc EXCEPT ![p] = step]

----------------------------------------------------------------------------
(* acquirePidfileLock                                                      *)

Acquire(p) ==
    /\ pc[p] = "idle"
    /\ Goto(p, "create")
    /\ UNCHANGED <<lock, aside, alive, usurped, links>>

\* The name now goes to o: a process whose file is aside just then is usurped.
GoesTo(o) ==
    usurped' = (usurped \cup {q \in Procs : \E r \in Procs :
                    aside[r] # None /\ aside[r].owner = q}) \ {o}

\* claimName with p's own content: EEXIST sends p to `taken`.
ClaimName(p, taken) ==
    IF lock # None THEN Goto(p, taken) /\ UNCHANGED <<lock, usurped>>
    ELSE /\ lock' = FileOf(p, p, links, FALSE)
         /\ GoesTo(p)
         /\ Goto(p, IF links THEN "held" ELSE "write")

Create(p) ==
    /\ pc[p] = "create" /\ ClaimName(p, "check")
    /\ UNCHANGED <<aside, alive, links>>

\* The second create, after a discard ("retry") or a lost rename ("settle").
CreateAgain(p) ==
    /\ pc[p] \in {"retry", "settle"} /\ ClaimName(p, "lost")
    /\ UNCHANGED <<aside, alive, links>>

\* claimNameExcl: the content reaches the file p opened, wherever its name is.
Written(f, p) == IF f # None /\ f.maker = p THEN [f EXCEPT !.full = TRUE] ELSE f

Write(p) ==
    /\ pc[p] \in {"write", "rewrite"}
    /\ lock' = Written(lock, p)
    /\ aside' = [q \in Procs |-> Written(aside[q], p)]
    /\ Goto(p, IF pc[p] = "write" THEN "held" ELSE "lost")
    /\ UNCHANGED <<alive, usurped, links>>

\* checkStale: a vanished file counts as stale.
Judge(p) ==
    /\ pc[p] = "check"
    /\ Goto(p, IF lock = None \/ Stale(lock) THEN "steal" ELSE "lost")
    /\ UNCHANGED <<lock, aside, alive, usurped, links>>

\* The rename aside: ENOENT when a racing stealer was faster.
Steal(p) ==
    /\ pc[p] = "steal"
    /\ aside' = [aside EXCEPT ![p] = lock]
    /\ lock' = None
    /\ Goto(p, IF lock = None THEN "settle" ELSE "verify")
    /\ UNCHANGED <<alive, usurped, links>>

\* Mutant: the moved file is discarded without a second look.
VerifyNothing(p) ==
    /\ pc[p] = "verify" /\ Goto(p, "retry")
    /\ aside' = [aside EXCEPT ![p] = None]
    /\ UNCHANGED <<lock, alive, usurped, links>>

\* Post-move verification: discard what is stale, restore what is not.
Verify(p) ==
    /\ pc[p] = "verify"
    /\ IF Stale(aside[p]) THEN aside' = [aside EXCEPT ![p] = None] /\ Goto(p, "retry")
       ELSE Goto(p, "restore") /\ UNCHANGED aside
    /\ UNCHANGED <<lock, alive, usurped, links>>

\* claimName with the moved content; a name taken meanwhile is left alone.
Restore(p) ==
    /\ pc[p] = "restore"
    /\ IF lock # None THEN Goto(p, "lost") /\ UNCHANGED <<lock, usurped>>
       ELSE /\ lock' = FileOf(aside[p].owner, p, links, TRUE)
            /\ GoesTo(aside[p].owner)
            /\ Goto(p, IF links THEN "lost" ELSE "rewrite")
    /\ aside' = [aside EXCEPT ![p] = None]
    /\ UNCHANGED <<alive, links>>

----------------------------------------------------------------------------
(* release(): read, then unlink when the content names the caller.         *)

ReleaseRead(p) ==
    /\ p \in Returning /\ pc[p] = "held"
    /\ Goto(p, IF lock # None /\ lock.full /\ lock.owner = p THEN "unlink" ELSE "idle")
    /\ UNCHANGED <<lock, aside, alive, usurped, links>>

\* Mutant: the handle is dropped and the file stays.
UnlinkForgotten(p) ==
    /\ pc[p] = "unlink" /\ Goto(p, "idle")
    /\ UNCHANGED <<lock, aside, alive, usurped, links>>

Unlink(p) ==
    /\ pc[p] = "unlink"
    /\ lock' = None
    /\ usurped' = IF lock # None THEN usurped \cup ({lock.owner} \ {p}) ELSE usurped
    /\ Goto(p, "idle")
    /\ UNCHANGED <<aside, alive, links>>

\* A long-lived process that found the lock held comes back later.
TryLater(p) ==
    /\ p \in Returning /\ pc[p] = "lost"
    /\ Goto(p, "idle")
    /\ UNCHANGED <<lock, aside, alive, usurped, links>>

Crash(p) ==
    /\ Crashes /\ alive[p]
    /\ alive' = [alive EXCEPT ![p] = FALSE]
    /\ Goto(p, "dead")
    /\ usurped' = usurped \cup (IF aside[p] = None THEN {} ELSE {aside[p].owner})
    /\ aside' = [aside EXCEPT ![p] = None]
    /\ UNCHANGED <<lock, links>>

----------------------------------------------------------------------------
Step(p) ==
    \/ Acquire(p) \/ Create(p) \/ CreateAgain(p) \/ Write(p) \/ Judge(p)
    \/ Steal(p) \/ Verify(p) \/ Restore(p)
    \/ ReleaseRead(p) \/ Unlink(p) \/ TryLater(p)

LockNext == \E p \in Procs : Step(p) \/ Crash(p)

----------------------------------------------------------------------------
(* Types; a process has a file aside exactly between its rename and what   *)
(* it does with the file, so no `.stale.` file is left behind.             *)
LockTypeOK ==
    /\ lock \in File \cup {None}
    /\ aside \in [Procs -> File \cup {None}]
    /\ alive \in [Procs -> BOOLEAN]
    /\ pc \in [Procs -> Steps]
    /\ links \in BOOLEAN
    /\ usurped \subseteq Procs \cup {Ghost}
    /\ \A p \in Procs : pc[p] = "dead" <=> ~alive[p]
    /\ \A p \in Procs : aside[p] # None <=> pc[p] \in {"verify", "restore"}

(* Exactly one winner: with hard links, no two live processes hold the     *)
(* lock at a time (pidfileLock.ts, header), unless a third took the name   *)
(* while a stealer had a winner's file aside (the TOCTOU the comment on    *)
(* acquirePidfileLock accepts), or the stealer died with it. Without links *)
(* a stealer cannot tell a file that is being written from a stale one,    *)
(* and both may win.                                                       *)
MutualExclusion ==
    links => \A p, q \in Procs \ usurped : pc[p] \in Holding /\ pc[q] \in Holding => p = q

(* The lock names a live process that does not hold it only when a stealer *)
(* restored that process's file after it had released (or while it is      *)
(* about to be restored or released).                                      *)
PhantomOnlyRestored ==
    links /\ lock # None => LET p == lock.owner IN
        p # Ghost /\ alive[p] /\ pc[p] \notin Holding => lock.back

(* A restored file that names a live process which has already released.   *)
Phantom == lock # None /\ lock.owner # Ghost /\ lock.back /\ ~Stale(lock)

(* With hard links, racing starters do not all lose, whatever they steal   *)
(* from each other: somebody wins, or the phantom is in the way.           *)
SomeoneWins == links /\ (\A p \in Procs : pc[p] = "lost") => Phantom

(* With hard links the lock is sound: the files are what the protocol makes *)
(* them, one process holds it, racing starters do not all lose, and a file  *)
(* that names a live process without the lock was put back by a stealer.    *)
LockIsSound == LockTypeOK /\ MutualExclusion /\ PhantomOnlyRestored /\ SomeoneWins

(* With hard links the lock file of a dead owner is replaced: as long as   *)
(* some process lives and keeps trying, the lock is held again and again;  *)
(* the phantom is the one thing that can stop it. Without hard links two   *)
(* processes can go on stealing each other's unwritten files.              *)
EventuallyReacquired ==
    []<>(\/ \E p \in Procs : pc[p] \in Holding
         \/ \A p \in Returning : ~alive[p]
         \/ Phantom \/ ~links)
=============================================================================
