-------------------------- MODULE OperationsProofs --------------------------
(***************************************************************************)
(* What TLAPS proves of Operations: the pidfile lock excludes, whatever    *)
(* the number of processes (LockInv), two installations never work on one  *)
(* root, and the daemon and the commands that ask about it tell the truth  *)
(* (DaemonInv), for every scenario; and what `junco submit` was given, one *)
(* ticket (TicketInv) or a plan (PlanInv), is queued as it was said to be. *)
(* And of the text the lint lets pass (LintInv), of the worktrees a prune  *)
(* may take (TreesInv) and of the queue the dashboard shows (QueueInv).    *)
(* A behaviour looks at one of the modules, so each invariant is kept by   *)
(* its own module's steps.                                                 *)
(***************************************************************************)
EXTENDS Operations, FiniteSetTheorems, TLAPS

USE LockAssumption, NoneAssumption

-----------------------------------------------------------------------------
(* The pidfile lock.                                                       *)

\* The file of p is in some stealer's hands.
Aside(p) == \E r \in Procs : aside[r] # None /\ aside[r].owner = p

\* With hard links a name never stands for an unwritten file.
WrittenInv ==
    links => /\ lock # None => lock.full
             /\ \A p \in Procs : aside[p] # None => aside[p].full
             /\ \A p \in Procs : pc[p] \notin {"write", "rewrite"}

\* A holder that was not usurped has its file at the name or, while the name
\* is free, in a stealer's hands; and there is one such holder.
HolderInv ==
    links => /\ \A p \in Procs \ usurped : pc[p] \in Holding =>
                    \/ lock # None /\ lock.owner = p
                    \/ lock = None /\ Aside(p)
             /\ MutualExclusion

\* Before the dead owner's file is gone, nobody has come further than judging it;
\* and it is not put back.
GhostInv ==
    /\ lock # None /\ lock.owner = Ghost =>
        \A p \in Procs : pc[p] \in {"idle", "create", "check", "steal", "dead"}
    /\ \A p \in Procs : pc[p] = "restore" => aside[p].owner # Ghost

\* Racing starters that have all lost left a file.
LosersInv == links /\ (\A p \in Procs : pc[p] = "lost") => lock # None

LockInv ==
    /\ LockTypeOK /\ WrittenInv /\ HolderInv
    /\ PhantomOnlyRestored /\ GhostInv /\ LosersInv

\* The invariant contains what is claimed of the lock.
LEMMA LockInvSound == LockInv => LockIsSound
<1> SUFFICES ASSUME LockInv PROVE LockIsSound
    OBVIOUS
<1>1. MutualExclusion
    BY DEF LockInv, HolderInv, MutualExclusion
<1>2. ASSUME links, \A p \in Procs : pc[p] = "lost" PROVE Phantom
    <2>1. lock # None
        BY <1>2 DEF LockInv, LosersInv
    <2>2. PICK q \in Procs : TRUE
        OBVIOUS
    <2>3. lock.owner # Ghost
        BY <1>2, <2>1, <2>2 DEF LockInv, GhostInv
    <2>4. lock.owner \in Procs /\ lock.full
        BY <1>2, <2>1, <2>3 DEF LockInv, LockTypeOK, WrittenInv, File
    <2>5. alive[lock.owner] /\ pc[lock.owner] \notin Holding
        BY <1>2, <2>4 DEF LockInv, LockTypeOK, Holding
    <2>6. lock.back
        BY <1>2, <2>1, <2>3, <2>5 DEF LockInv, PhantomOnlyRestored
    <2> QED BY <2>1, <2>3, <2>4, <2>5, <2>6 DEF Phantom, Stale
<1>3. SomeoneWins
    BY <1>2 DEF SomeoneWins
<1> QED BY <1>1, <1>3 DEF LockInv, LockIsSound

LEMMA LockInvInit == LockInit => LockInv
<1> SUFFICES ASSUME LockInit PROVE LockInv
    OBVIOUS
<1>1. FileOf(Ghost, Ghost, TRUE, FALSE) \in File
    BY DEF FileOf, File
<1>2. LockTypeOK
    BY <1>1 DEF LockInit, LockTypeOK, Steps
<1>3. WrittenInv /\ PhantomOnlyRestored /\ GhostInv /\ LosersInv
    BY DEF LockInit, WrittenInv, PhantomOnlyRestored, GhostInv, LosersInv, FileOf, Holding
<1>4. HolderInv
    BY DEF LockInit, HolderInv, MutualExclusion, Holding
<1> QED BY <1>2, <1>3, <1>4 DEF LockInv

LEMMA LockInvStutters == LockInv /\ UNCHANGED lockVars => LockInv'
BY DEF LockInv, lockVars, LockTypeOK, WrittenInv, HolderInv, MutualExclusion, Aside,
       PhantomOnlyRestored, GhostInv, LosersInv

\* Files that are made.
LEMMA FilesMade ==
    \A o \in Procs \cup {Ghost}, m \in Procs, f \in BOOLEAN, b \in BOOLEAN :
        FileOf(o, m, f, b) \in File /\ FileOf(o, m, f, b) # None /\ FileOf(o, m, f, b).owner = o
BY DEF FileOf, File

\* A step of p moves p, and what it comes to.
LEMMA OneMoves ==
    ASSUME LockTypeOK, NEW p \in Procs, Step(p) \/ Crash(p)
    PROVE  pc' = [pc EXCEPT ![p] = pc'[p]] /\ links' = links
<1> USE DEF LockTypeOK, Goto
<1>1. CASE Acquire(p) \/ Create(p) \/ CreateAgain(p)
    BY <1>1 DEF Acquire, Create, CreateAgain, ClaimName
<1>2. CASE Write(p) \/ Judge(p) \/ Steal(p)
    BY <1>2 DEF Write, Judge, Steal
<1>3. CASE Verify(p) \/ Restore(p)
    BY <1>3 DEF Verify, Restore
<1>4. CASE ReleaseRead(p) \/ Unlink(p) \/ TryLater(p) \/ Crash(p)
    BY <1>4 DEF ReleaseRead, Unlink, TryLater, Crash
<1> QED BY <1>1, <1>2, <1>3, <1>4 DEF Step

\* Only a verified file is put back.
LEMMA Restoring ==
    ASSUME LockTypeOK, NEW p \in Procs, Step(p) \/ Crash(p), NEW q \in Procs, pc'[q] = "restore"
    PROVE  \/ pc[q] = "restore" /\ (aside'[q] = aside[q] \/ Write(p))
           \/ q = p /\ Verify(p)
<1> USE OneMoves DEF LockTypeOK, Goto
<1>1. CASE Acquire(p) \/ Create(p) \/ CreateAgain(p)
    BY <1>1, ZenonT(60) DEF Acquire, Create, CreateAgain, ClaimName
<1>2. CASE Write(p) \/ Judge(p)
    BY <1>2 DEF Write, Judge
<1>3. CASE Verify(p)
    BY <1>3 DEF Verify
<1>4. CASE Steal(p) \/ Restore(p) \/ Crash(p)
    <2>1. pc'[p] # "restore" /\ \A r \in Procs : r # p => aside'[r] = aside[r]
        BY <1>4, ZenonT(60) DEF Steal, Restore, Crash
    <2> QED BY <2>1
<1>5. CASE ReleaseRead(p) \/ Unlink(p) \/ TryLater(p)
    BY <1>5 DEF ReleaseRead, Unlink, TryLater
<1> QED BY <1>1, <1>2, <1>3, <1>4, <1>5 DEF Step

\* Types.
LEMMA LockTyped ==
    ASSUME LockInv, NEW p \in Procs, Step(p) \/ Crash(p)
    PROVE  LockTypeOK'
<1> USE DEF LockInv, LockTypeOK, Goto, Holding
<1>1. \A o \in Procs \cup {Ghost}, f \in BOOLEAN, b \in BOOLEAN : FileOf(o, p, f, b) \in File
    BY DEF FileOf, File
<1>2. CASE Acquire(p) \/ Judge(p) \/ ReleaseRead(p) \/ TryLater(p)
    <2>1. UNCHANGED <<lock, aside, alive, usurped, links>>
        BY <1>2 DEF Acquire, Judge, ReleaseRead, TryLater
    <2>2. pc' = [pc EXCEPT ![p] = pc'[p]] /\ pc'[p] \in {"create", "steal", "lost", "unlink", "idle"}
        BY <1>2 DEF Acquire, Judge, ReleaseRead, TryLater
    <2>3. pc[p] \in {"idle", "check", "held", "lost"}
        BY <1>2 DEF Acquire, Judge, ReleaseRead, TryLater
    <2> QED BY <2>1, <2>2, <2>3 DEF Steps
<1>3. CASE Create(p) \/ CreateAgain(p)
    <2>. FileOf(p, p, links, FALSE) \in File
        BY <1>1
    <2>1. lock' \in File \cup {None} /\ UNCHANGED <<aside, alive, links>>
        BY <1>3 DEF Create, CreateAgain, ClaimName
    <2>2. pc' = [pc EXCEPT ![p] = pc'[p]] /\ pc'[p] \in {"check", "lost", "held", "write"}
        BY <1>3 DEF Create, CreateAgain, ClaimName
    <2>3. usurped' \subseteq Procs \cup {Ghost}
        BY <1>3 DEF Create, CreateAgain, ClaimName, GoesTo
    <2>4. pc[p] \in {"create", "retry", "settle"}
        BY <1>3 DEF Create, CreateAgain
    <2> QED BY <2>1, <2>2, <2>3, <2>4 DEF Steps
<1>4. CASE Write(p)
    <2>1. \A f \in File \cup {None} : Written(f, p) \in File \cup {None} /\ (Written(f, p) = None <=> f = None)
        <3>1. Written(None, p) = None
            BY DEF Written
        <3>2. ASSUME NEW f \in File PROVE Written(f, p) \in File
            <4>1. [f EXCEPT !.full = TRUE] \in File
                BY DEF File
            <4> QED BY <4>1 DEF Written
        <3> QED BY <3>1, <3>2
    <2>2. lock' \in File \cup {None} /\ UNCHANGED <<alive, usurped, links>>
        BY <1>4, <2>1 DEF Write
    <2>3. aside' \in [Procs -> File \cup {None}] /\ \A q \in Procs : aside'[q] = None <=> aside[q] = None
        BY <1>4, <2>1 DEF Write
    <2>4. pc' = [pc EXCEPT ![p] = pc'[p]] /\ pc'[p] \in {"held", "lost"} /\ pc[p] \in {"write", "rewrite"}
        BY <1>4 DEF Write
    <2> QED BY <2>2, <2>3, <2>4 DEF Steps
<1>5. CASE Steal(p)
    BY <1>5 DEF Steal, Steps
<1>6. CASE Verify(p)
    BY <1>6 DEF Verify, Steps
<1>7. CASE Restore(p)
    <2>1. aside[p] \in File /\ aside[p].owner \in Procs \cup {Ghost}
        BY <1>7 DEF Restore, File
    <2>. FileOf(aside[p].owner, p, links, TRUE) \in File
        BY <1>1, <2>1
    <2>2. lock' \in File \cup {None} /\ UNCHANGED <<alive, links>>
        BY <1>7, <2>1 DEF Restore
    <2>3. pc' = [pc EXCEPT ![p] = pc'[p]] /\ pc'[p] \in {"lost", "rewrite"}
        BY <1>7 DEF Restore
    <2>4. usurped' \subseteq Procs \cup {Ghost}
        BY <1>7 DEF Restore, GoesTo
    <2>5. aside' = [aside EXCEPT ![p] = None] /\ pc[p] = "restore"
        BY <1>7 DEF Restore
    <2> QED BY <2>2, <2>3, <2>4, <2>5 DEF Steps
<1>8. CASE Unlink(p)
    <2>1. usurped' \subseteq Procs \cup {Ghost}
        BY <1>8 DEF Unlink, File
    <2> QED BY <1>8, <2>1 DEF Unlink, Steps
<1>9. CASE Crash(p)
    <2>1. usurped' \subseteq Procs \cup {Ghost}
        BY <1>9 DEF Crash, File
    <2> QED BY <1>9, <2>1 DEF Crash, Steps
<1> QED BY <1>2, <1>3, <1>4, <1>5, <1>6, <1>7, <1>8, <1>9 DEF Step

\* Files are whole: under hard links only whole files are made.
LEMMA LockWritten ==
    ASSUME LockInv, NEW p \in Procs, Step(p) \/ Crash(p)
    PROVE  WrittenInv'
<1> USE DEF LockInv, LockTypeOK, WrittenInv, Goto
<1> SUFFICES ASSUME links'
    PROVE  /\ lock' # None => lock'.full
           /\ \A q \in Procs : aside'[q] # None => aside'[q].full
           /\ \A q \in Procs : pc'[q] \notin {"write", "rewrite"}
    OBVIOUS
<1>0. links
    BY DEF Step, Acquire, Create, CreateAgain, Write, Judge, Steal, Verify, Restore, ReleaseRead,
           Unlink, TryLater, Crash
<1>1. CASE Acquire(p) \/ Judge(p) \/ ReleaseRead(p) \/ TryLater(p) \/ Unlink(p) \/ Crash(p)
    <2>1. lock' \in {lock, None} /\ \A q \in Procs : aside'[q] \in {aside[q], None}
        BY <1>1 DEF Acquire, Judge, ReleaseRead, TryLater, Unlink, Crash
    <2>2. \A q \in Procs : pc'[q] = pc[q] \/ pc'[q] \notin {"write", "rewrite"}
        BY <1>1, ZenonT(60) DEF Acquire, Judge, ReleaseRead, TryLater, Unlink, Crash
    <2> QED BY <1>0, <2>1, <2>2
<1>2. CASE Create(p) \/ CreateAgain(p)
    BY <1>0, <1>2 DEF Create, CreateAgain, ClaimName, FileOf
<1>3. CASE Write(p)
    BY <1>0, <1>3 DEF Write
<1>4. CASE Steal(p)
    BY <1>0, <1>4 DEF Steal
<1>5. CASE Verify(p)
    BY <1>0, <1>5 DEF Verify
<1>6. CASE Restore(p)
    BY <1>0, <1>6 DEF Restore, FileOf
<1> QED BY <1>1, <1>2, <1>3, <1>4, <1>5, <1>6 DEF Step

\* The file at the name is its owner's own while that one is alive and does not
\* hold the lock, unless it was put back.
LEMMA LockPhantom ==
    ASSUME LockInv, NEW p \in Procs, Step(p) \/ Crash(p)
    PROVE  PhantomOnlyRestored'
<1> USE DEF LockInv, LockTypeOK, WrittenInv, PhantomOnlyRestored, Goto, Holding
<1> SUFFICES ASSUME links', lock' # None, lock'.owner # Ghost, alive'[lock'.owner],
                    pc'[lock'.owner] \notin Holding
    PROVE  lock'.back
    OBVIOUS
<1>0. links
    BY DEF Step, Acquire, Create, CreateAgain, Write, Judge, Steal, Verify, Restore, ReleaseRead,
           Unlink, TryLater, Crash
<1>1. CASE Acquire(p) \/ Judge(p) \/ TryLater(p) \/ Verify(p)
    <2>1. UNCHANGED <<lock, alive>>
        BY <1>1 DEF Acquire, Judge, TryLater, Verify
    <2>2. \A q \in Procs : pc'[q] = pc[q] \/ pc[q] \notin Holding
        BY <1>1 DEF Acquire, Judge, TryLater, Verify
    <2> QED BY <1>0, <2>1, <2>2 DEF File
<1>2. CASE ReleaseRead(p)
    BY <1>0, <1>2 DEF ReleaseRead, File
<1>3. CASE Unlink(p) \/ Steal(p)
    BY <1>3 DEF Unlink, Steal
<1>4. CASE Crash(p)
    BY <1>0, <1>4 DEF Crash, File
<1>5. CASE Create(p) \/ CreateAgain(p)
    <2>1. CASE lock = None
        BY <1>0, <1>5, <2>1 DEF Create, CreateAgain, ClaimName, FileOf
    <2>2. CASE lock # None
        BY <1>0, <1>5, <2>2 DEF Create, CreateAgain, ClaimName, File
    <2> QED BY <2>1, <2>2
<1>6. CASE Write(p)
    BY <1>0, <1>6 DEF Write
<1>7. CASE Restore(p)
    <2>1. CASE lock = None
        BY <1>0, <1>7, <2>1 DEF Restore, FileOf
    <2>2. CASE lock # None
        BY <1>0, <1>7, <2>2 DEF Restore, File
    <2> QED BY <2>1, <2>2
<1> QED BY <1>1, <1>2, <1>3, <1>4, <1>5, <1>6, <1>7 DEF Step

\* The dead owner's file comes first, and never comes back.
LEMMA LockGhost ==
    ASSUME LockInv, NEW p \in Procs, Step(p) \/ Crash(p)
    PROVE  GhostInv'
<1> USE DEF LockInv, LockTypeOK, GhostInv, Goto
<1>0. ASSUME NEW q \in Procs, pc'[q] = "restore" PROVE aside'[q].owner # Ghost
    <2>1. CASE Verify(p)
        BY <1>0, <2>1 DEF Verify, Stale
    <2>2. CASE Write(p)
        <3>1. pc[q] = "restore" /\ aside[q] # None
            BY <1>0, <2>2 DEF Write
        <3>2. aside'[q].owner = aside[q].owner
            BY <2>2, <3>1 DEF Write, Written, File
        <3> QED BY <3>1, <3>2
    <2>3. CASE pc[q] = "restore" /\ aside'[q] = aside[q]
        BY <2>3
    <2>4. LockTypeOK
        OBVIOUS
    <2> QED BY <1>0, <2>1, <2>2, <2>3, <2>4, Restoring
<1> SUFFICES ASSUME lock' # None, lock'.owner = Ghost, NEW q \in Procs
    PROVE  pc'[q] \in {"idle", "create", "check", "steal", "dead"}
    BY <1>0
<1>1. CASE Acquire(p) \/ Judge(p) \/ TryLater(p) \/ Verify(p) \/ ReleaseRead(p) \/ Crash(p)
    <2>1. UNCHANGED lock
        BY <1>1 DEF Acquire, Judge, TryLater, Verify, ReleaseRead, Crash
    <2>2. pc'[q] = pc[q] \/ pc'[q] \in {"idle", "create", "check", "steal", "dead"}
          \/ pc[q] \notin {"idle", "create", "check", "steal", "dead"}
        BY <1>1, <2>1 DEF Acquire, Judge, TryLater, Verify, ReleaseRead, Crash, Stale
    <2> QED BY <2>1, <2>2
<1>2. CASE Unlink(p) \/ Steal(p)
    BY <1>2 DEF Unlink, Steal
<1>3. CASE Create(p) \/ CreateAgain(p)
    <2>1. lock # None
        BY <1>3 DEF Create, CreateAgain, ClaimName, FileOf
    <2> QED BY <1>3, <2>1 DEF Create, CreateAgain, ClaimName
<1>4. CASE Write(p)
    <2>1. lock # None /\ lock.owner = Ghost
        BY <1>4 DEF Write, Written, File
    <2> QED BY <1>4, <2>1 DEF Write
<1>5. CASE Restore(p)
    BY <1>5 DEF Restore, FileOf
<1> QED BY <1>1, <1>2, <1>3, <1>4, <1>5 DEF Step

\* Whoever is last to lose has seen a file, which nobody is left to move.
LEMMA LockLosers ==
    ASSUME LockInv, NEW p \in Procs, Step(p) \/ Crash(p)
    PROVE  LosersInv'
<1> USE DEF LockInv, LockTypeOK, Goto
<1>t. LockTypeOK
    OBVIOUS
<1> SUFFICES ASSUME links', \A q \in Procs : pc'[q] = "lost"
    PROVE  lock' # None
    BY DEF LosersInv
<1>1. CASE Acquire(p) \/ ReleaseRead(p) \/ Unlink(p) \/ TryLater(p) \/ Crash(p) \/ Steal(p) \/ Verify(p)
    BY <1>1 DEF Acquire, ReleaseRead, Unlink, TryLater, Crash, Steal, Verify
<1>2. CASE Judge(p)
    BY <1>2 DEF Judge
<1>3. CASE Create(p) \/ CreateAgain(p)
    BY <1>3 DEF Create, CreateAgain, ClaimName, FileOf
<1>4. CASE Restore(p)
    <2>1. aside[p].owner \in Procs \cup {Ghost}
        BY <1>4 DEF Restore, File
    <2>2. FileOf(aside[p].owner, p, links, TRUE) \in File
        BY <1>t, <2>1, Zenon, FilesMade DEF LockTypeOK
    <2> QED BY <1>4, <2>2 DEF Restore
<1>5. CASE Write(p)
    <2>1. ~links
        BY <1>5 DEF Write, WrittenInv
    <2> QED BY <1>5, <2>1 DEF Write
<1> QED BY <1>1, <1>2, <1>3, <1>4, <1>5 DEF Step

\* One holder that was not usurped.
LEMMA LockHolder ==
    ASSUME LockInv, NEW p \in Procs, Step(p) \/ Crash(p)
    PROVE  HolderInv'
<1> USE DEF LockTypeOK, Goto, Holding
<1> DEFINE Sole(q) == q \notin usurped /\ pc[q] \in Holding
           Kept(q) == (lock # None /\ lock.owner = q) \/ (lock = None /\ Aside(q))
<1>t. LockTypeOK
    BY DEF LockInv
<1> SUFFICES ASSUME links'
    PROVE  (\A q \in Procs : Sole(q)' => Kept(q)') /\ (\A q, r \in Procs : Sole(q)' /\ Sole(r)' => q = r)
    BY DEF MutualExclusion, HolderInv
<1>0. links
    BY DEF Step, Acquire, Create, CreateAgain, Write, Judge, Steal, Verify, Restore, ReleaseRead,
           Unlink, TryLater, Crash
<1>a. \A q \in Procs : Sole(q) => Kept(q)
    BY <1>0 DEF LockInv, HolderInv
<1>b. \A q, r \in Procs : Sole(q) /\ Sole(r) => q = r
    BY <1>0 DEF LockInv, HolderInv, MutualExclusion
<1> HIDE DEF Sole, Kept
\* What the name goes to is the only one that is not usurped.
<1>c. ASSUME lock = None, NEW o \in Procs \cup {Ghost}, GoesTo(o), lock' # None, lock'.owner = o,
             \A q \in Procs : q # o => (pc'[q] \in Holding => pc[q] \in Holding)
      PROVE  (\A q \in Procs : Sole(q)' => Kept(q)') /\ (\A q, r \in Procs : Sole(q)' /\ Sole(r)' => q = r)
    <2>1. ASSUME NEW q \in Procs, Sole(q)', q # o PROVE FALSE
        <3>1. q \notin usurped /\ ~Aside(q)
            BY <1>c, <2>1 DEF Sole, GoesTo, Aside
        <3>2. Sole(q)
            BY <1>c, <2>1, <3>1 DEF Sole
        <3> QED BY <1>a, <1>c, <3>1, <3>2 DEF Kept
    <2> QED BY <1>c, <2>1 DEF Kept
<1>1. CASE Acquire(p) \/ Judge(p) \/ ReleaseRead(p) \/ TryLater(p)
    <2>1. UNCHANGED <<lock, aside, usurped>>
        BY <1>t, <1>1 DEF Acquire, Judge, ReleaseRead, TryLater
    <2>2. \A q \in Procs : pc'[q] \in Holding => pc[q] \in Holding
        BY <1>t, <1>1 DEF Acquire, Judge, ReleaseRead, TryLater
    <2>3. \A q \in Procs : Sole(q)' => Sole(q)
        BY <2>1, <2>2 DEF Sole
    <2>4. \A q \in Procs : Kept(q) => Kept(q)'
        BY <2>1 DEF Aside, Kept
    <2> QED BY <1>a, <1>b, <2>3, <2>4
<1>2. CASE Create(p) \/ CreateAgain(p)
    <2>1. CASE lock = None
        <3>0. FileOf(p, p, links, FALSE) # None /\ FileOf(p, p, links, FALSE).owner = p
            BY <1>t, FilesMade
        <3>1. GoesTo(p) /\ lock' # None /\ lock'.owner = p
            BY <1>t, <1>2, <2>1, <3>0 DEF Create, CreateAgain, ClaimName
        <3>2. \A q \in Procs : q # p => (pc'[q] \in Holding => pc[q] \in Holding)
            BY <1>t, <1>2, <2>1 DEF Create, CreateAgain, ClaimName
        <3> QED BY <1>c, <2>1, <3>1, <3>2
    <2>2. CASE lock # None
        <3>1. UNCHANGED <<lock, aside, usurped>>
            BY <1>t, <1>2, <2>2 DEF Create, CreateAgain, ClaimName
        <3>2. \A q \in Procs : pc'[q] \in Holding => pc[q] \in Holding
            BY <1>t, <1>2, <2>2 DEF Create, CreateAgain, ClaimName
        <3>3. \A q \in Procs : Sole(q)' => Sole(q)
            BY <3>1, <3>2 DEF Sole
        <3>4. \A q \in Procs : Kept(q) => Kept(q)'
            BY <2>2, <3>1 DEF Kept
        <3> QED BY <1>a, <1>b, <3>3, <3>4
    <2> QED BY <2>1, <2>2
<1>3. CASE Write(p)
    BY <1>0, <1>3 DEF Write, LockInv, WrittenInv
<1>4. CASE Steal(p)
    <2>1. \A q \in Procs : Sole(q)' => Sole(q)
        BY <1>t, <1>4 DEF Steal, Sole
    <2>2. lock' = None /\ aside' = [aside EXCEPT ![p] = lock] /\ aside[p] = None
        BY <1>t, <1>4 DEF Steal
    <2>3. ASSUME NEW q \in Procs, Sole(q) PROVE Aside(q)'
        <3>1. CASE lock # None
            BY <1>a, <2>2, <2>3, <3>1, <1>t DEF Aside, Kept
        <3>2. CASE lock = None
            BY <1>a, <2>2, <2>3, <3>2, <1>t DEF Aside, Kept
        <3> QED BY <3>1, <3>2
    <2> QED BY <1>b, <2>1, <2>2, <2>3 DEF Kept
<1>5. CASE Verify(p)
    <2>1. \A q \in Procs : Sole(q)' => Sole(q)
        BY <1>t, <1>5 DEF Verify, Sole
    <2>2. UNCHANGED lock
        BY <1>t, <1>5 DEF Verify
    <2>3. ASSUME NEW q \in Procs, Sole(q), Aside(q) PROVE Aside(q)'
        <3>1. alive[q] /\ q # Ghost
            BY <1>t, <2>3 DEF Sole
        <3>2. PICK r \in Procs : aside[r] # None /\ aside[r].owner = q
            BY <2>3 DEF Aside
        <3>3. aside[r].full
            BY <1>0, <3>2 DEF LockInv, WrittenInv
        <3>4. ~Stale(aside[r])
            BY <3>1, <3>2, <3>3 DEF Stale
        <3>5. aside'[r] = aside[r]
            BY <1>t, <1>5, <3>4 DEF Verify
        <3> QED BY <3>2, <3>5 DEF Aside
    <2>4. \A q \in Procs : Sole(q) /\ Kept(q) => Kept(q)'
        BY <2>2, <2>3 DEF Kept
    <2> QED BY <1>a, <1>b, <2>1, <2>4
<1>6. CASE Restore(p)
    <2>1. CASE lock = None
        <3>0. aside[p] \in File /\ GoesTo(aside[p].owner)
            BY <1>t, <1>6, <2>1 DEF Restore
        <3>1. aside[p].owner \in Procs \cup {Ghost} /\ GoesTo(aside[p].owner)
            BY <3>0 DEF File
        <3>4. FileOf(aside[p].owner, p, links, TRUE) \in File
            BY <1>t, <3>1, Zenon, FilesMade DEF LockTypeOK
        <3>5. FileOf(aside[p].owner, p, links, TRUE).owner = aside[p].owner
            BY DEF FileOf
        <3>2. lock' # None /\ lock'.owner = aside[p].owner
            BY <1>t, <1>6, <2>1, <3>4, <3>5 DEF Restore
        <3>3. \A q \in Procs : pc'[q] \in Holding => pc[q] \in Holding
            BY <1>t, <1>6, <2>1 DEF Restore
        <3> QED BY <1>c, <2>1, <3>1, <3>2, <3>3
    <2>2. CASE lock # None
        <3>1. UNCHANGED <<lock, usurped>>
            BY <1>t, <1>6, <2>2 DEF Restore
        <3>2. \A q \in Procs : pc'[q] \in Holding => pc[q] \in Holding
            BY <1>t, <1>6, <2>2 DEF Restore
        <3>3. \A q \in Procs : Sole(q)' => Sole(q)
            BY <3>1, <3>2 DEF Sole
        <3>4. \A q \in Procs : Kept(q) => Kept(q)'
            BY <2>2, <3>1 DEF Kept
        <3> QED BY <1>a, <1>b, <3>3, <3>4
    <2> QED BY <2>1, <2>2
<1>7. CASE Unlink(p)
    <2>1. UNCHANGED aside /\ lock' = None
        BY <1>t, <1>7 DEF Unlink
    <2>2. ASSUME NEW q \in Procs, Sole(q)' PROVE Sole(q) /\ lock = None
        <3>1. q # p /\ pc[q] \in Holding /\ q \notin usurped
            BY <1>t, <1>7, <2>2 DEF Unlink, Sole
        <3>2. lock # None => lock.owner # q
            BY <1>t, <1>7, <2>2, <3>1 DEF Unlink, Sole
        <3>3. Sole(q)
            BY <3>1 DEF Sole
        <3> QED BY <1>a, <3>2, <3>3 DEF Kept
    <2>3. \A q \in Procs : Aside(q) => Aside(q)'
        BY <2>1 DEF Aside
    <2> QED BY <1>a, <1>b, <2>1, <2>2, <2>3 DEF Kept
<1>8. CASE Crash(p)
    <2>1. UNCHANGED lock
        BY <1>t, <1>8 DEF Crash
    <2>2. ASSUME NEW q \in Procs, Sole(q)' PROVE Sole(q) /\ (Aside(q) => Aside(q)')
        <3>1. Sole(q)
            BY <1>t, <1>8, <2>2 DEF Crash, Sole
        <3>2. aside[p] = None \/ aside[p].owner # q
            BY <1>t, <1>8, <2>2 DEF Crash, Sole
        <3>3. Aside(q) => Aside(q)'
            BY <1>t, <1>8, <3>2 DEF Crash, Aside
        <3> QED BY <3>1, <3>3
    <2> QED BY <1>a, <1>b, <2>1, <2>2 DEF Kept
<1> QED BY <1>t, <1>1, <1>2, <1>3, <1>4, <1>5, <1>6, <1>7, <1>8 DEF Step

LEMMA LockInvSteps == LockInv /\ LockNext => LockInv'
BY LockTyped, LockWritten, LockPhantom, LockGhost, LockLosers, LockHolder DEF LockNext, LockInv

\* Among two processes of which none dies, nobody who holds is ever usurped.
Unusurped == links => \A q \in usurped \cap Procs : pc[q] \notin Holding

LEMMA TwoAlone ==
    ASSUME NEW a, NEW b, Procs = {a, b}, Crashes = FALSE, LockInv, Unusurped, LockNext
    PROVE  Unusurped'
<1> PICK p \in Procs : Step(p) \/ Crash(p)
    BY DEF LockNext
<1>t. LockTypeOK
    BY DEF LockInv
<1> USE DEF LockTypeOK, Goto, Holding
<1> SUFFICES ASSUME links', NEW q \in usurped' \cap Procs PROVE pc'[q] \notin Holding
    BY DEF Unusurped
<1>0. links
    BY <1>t, OneMoves
<1>a. ASSUME UNCHANGED usurped, \A r \in Procs : pc'[r] \in Holding => pc[r] \in Holding
      PROVE  pc'[q] \notin Holding
    BY <1>0, <1>a DEF Unusurped
<1>1. CASE Acquire(p) \/ Judge(p) \/ Steal(p) \/ Verify(p) \/ TryLater(p) \/ ReleaseRead(p)
    <2>1. UNCHANGED usurped /\ \A r \in Procs : pc'[r] \in Holding => pc[r] \in Holding
        <3>1. CASE Acquire(p) \/ Judge(p)
            BY <3>1, <1>t DEF Acquire, Judge
        <3>2. CASE Steal(p) \/ Verify(p)
            BY <3>2, <1>t, ZenonT(60) DEF Steal, Verify
        <3>3. CASE TryLater(p)
            BY <3>3, <1>t DEF TryLater
        <3>4. CASE ReleaseRead(p)
            BY <3>4, <1>t DEF ReleaseRead
        <3> QED BY <1>1, <3>1, <3>2, <3>3, <3>4
    <2> QED BY <1>a, <2>1
<1>2. CASE Write(p)
    BY <1>0, <1>2 DEF Write, LockInv, WrittenInv
<1>3. CASE Create(p) \/ CreateAgain(p)
    <2>1. CASE lock # None
        <3>1. UNCHANGED usurped /\ \A r \in Procs : pc'[r] \in Holding => pc[r] \in Holding
            BY <1>3, <1>t, <2>1, ZenonT(60) DEF Create, CreateAgain, ClaimName
        <3> QED BY <1>a, <3>1
    <2>2. CASE lock = None
        <3>1. GoesTo(p) /\ aside[p] = None /\ \A r \in Procs : r # p => pc'[r] = pc[r]
            BY <1>3, <1>t, <2>2 DEF Create, CreateAgain, ClaimName
        <3>2. q # p /\ (q \in usurped \/ Aside(q))
            BY <3>1 DEF GoesTo, Aside
        <3>3. Aside(q) => pc[q] \in {"verify", "restore"}
            BY <1>t, <3>1, <3>2 DEF Aside
        <3> QED BY <1>0, <3>1, <3>2, <3>3 DEF Unusurped
    <2> QED BY <2>1, <2>2
<1>4. CASE Restore(p)
    <2>1. \A r \in Procs : pc'[r] \in Holding => pc[r] \in Holding
        BY <1>4, <1>t, ZenonT(60) DEF Restore
    <2>2. CASE lock # None
        BY <1>4, <1>a, <2>1, <2>2 DEF Restore
    <2>3. CASE lock = None
        <3>1. GoesTo(aside[p].owner) /\ pc[p] = "restore"
            BY <1>4, <2>3 DEF Restore
        <3>2. q # aside[p].owner /\ (q \in usurped \/ Aside(q))
            BY <3>1 DEF GoesTo, Aside
        <3>3. Aside(q) => pc[q] \in {"verify", "restore"}
            BY <1>t, <3>1, <3>2 DEF Aside
        <3> QED BY <1>0, <2>1, <3>2, <3>3 DEF Unusurped
    <2> QED BY <2>2, <2>3
<1>5. CASE Unlink(p)
    <2>0. pc'[p] = "idle"
        BY <1>5, <1>t DEF Unlink
    <2>1. SUFFICES ASSUME q # p PROVE pc'[q] \notin Holding
        BY <2>0
    <2>2. p \notin usurped /\ pc[p] \in Holding /\ pc'[q] = pc[q]
        BY <1>0, <1>5, <1>t, <2>1 DEF Unlink, Unusurped
    <2>3. lock # None => lock.owner = p
        BY <1>0, <2>2 DEF LockInv, HolderInv
    <2>4. q \in usurped
        BY <1>5, <2>1, <2>3 DEF Unlink
    <2> QED BY <1>0, <2>2, <2>4 DEF Unusurped
<1> QED BY <1>1, <1>2, <1>3, <1>4, <1>5 DEF Step, Crash

-----------------------------------------------------------------------------
(* Daemons and commands.                                                   *)

Before == {"auth", "worker", "tree", "queue", "watch"}
Ats == {"loading", "gone"} \cup Before \cup Handling
Ends == {"none", "clean", "failed", "refused", "signal", "killed"}
Daemon ==
    [of : Installs, at : Ats, code : {0, 1}, cfg : Config, held : Config,
     prev : Config \cup {NoConfig}, watching : BOOLEAN, due : BOOLEAN, told : BOOLEAN,
     blind : BOOLEAN, stops : 0 .. 2, fatal : BOOLEAN, exit : Ends]

Counts == {"edits", "hands", "boots", "commands", "mishaps", "signals", "tickets", "outages"}
Spare == [data : [Installs -> Nat], queue : [Installs -> Nat], edits : Nat, hands : Nat, boots : Nat,
          commands : Nat, mishaps : Nat, signals : Nat, tickets : Nat, outages : Nat]

Command ==
    [name : {"none", "restart", "update", "ensure", "status"}, of : Installs \cup {0},
     at : {"idle", "begin", "old", "kick", "poll", "conclude", "look", "lock", "done"},
     old : Nat, count : Nat, kick : BOOLEAN, starting : BOOLEAN, late : BOOLEAN,
     verdict : {"none", "refused", "no unit", "restarted", "no change", "down", "still running",
                "nothing to do", "not running", "manual", "running", "start-failed", "started",
                "not responding"},
     pid : Nat]

DaemonTyped ==
    /\ \E n \in 0 .. MaxPids : daemons \in [1 .. n -> Daemon]
    /\ claims \in [Pidfiles -> Pids \cup {0}]
    /\ units \in [Installs -> [pid : Pids \cup {0}, job : {"none", "restart"}]]
    /\ file \in [Installs -> [ok : BOOLEAN, value : Config]]
    /\ installed \in {0, 1} /\ endpoint \in BOOLEAN
    /\ spare \in Spare /\ command \in Command
    /\ command.at # "idle" => command.of \in Installs

\* Who has come so far has taken these claims, in this order; who ended by
\* itself has handed them back; and a worker lock names one of its own.
ClaimsInv ==
    /\ \A p \in Pids :
        /\ daemons[p].at \in {"tree", "queue"} \cup Working => claims[Worker(daemons[p].of)] = p
        /\ daemons[p].at \in {"queue"} \cup Working => claims[Tree(daemons[p].of)] = p
        /\ daemons[p].at \in Working => claims[Queue(daemons[p].of)] = p
        /\ Live(p) => daemons[p].exit = "none"
        /\ daemons[p].exit \in {"clean", "refused"} => \A n \in Pidfiles : claims[n] # p
    /\ \A i \in Installs : claims[Worker(i)] # 0 => daemons[claims[Worker(i)]].of = i

\* What a daemon holds of its configuration, until it watches the file and then.
Follows(d, f) ==
    /\ d.due => d.watching
    /\ d.watching => d.at \in Handling
    /\ d.at \in Before /\ ~d.blind => f.ok /\ d.held = f.value /\ d.cfg = f.value
    /\ d.watching /\ ~d.blind =>
        /\ d.prev \in Config /\ d.held = d.prev
        /\ d.prev.frozen # d.cfg.frozen => d.told
        /\ ~d.due /\ f.ok => d.prev = f.value
ConfigInv == \A p \in Pids : Follows(daemons[p], file[daemons[p].of])

\* A restart counts from the processes there were: of those only the old holder
\* can still be about, unless one was just starting; after an update the later
\* ones are of the new code.
Counting == {"kick", "poll", "conclude"}
CommandInv ==
    /\ command.count <= Cardinality(Pids)
    /\ command.name \in {"restart", "update"} /\ command.at \in Counting /\ ~command.starting =>
        \A p \in Pids : p <= command.count /\ daemons[p].of = command.of /\ Live(p) => p = command.old
    /\ command.name = "update" /\ command.at \in Counting =>
        \A p \in Pids : p > command.count => daemons[p].code = installed
    /\ command.name = "update" /\ command.at \in {"look", "old"} \cup Counting => installed = 1
    /\ command.at = "done" /\ command.verdict = "restarted" => command.pid \in Pids
    /\ VerdictsAreTrue

DaemonInv == DaemonTyped /\ ClaimsInv /\ ConfigInv /\ CommandInv

LEMMA Processes ==
    ASSUME DaemonTyped
    PROVE  /\ Cardinality(Pids) \in 0 .. MaxPids /\ Pids = 1 .. Cardinality(Pids)
           /\ \A p \in Pids : daemons[p] \in Daemon
<1> PICK n \in 0 .. MaxPids : daemons \in [1 .. n -> Daemon]
    BY DEF DaemonTyped
<1>1. Pids = 1 .. n
    BY DEF Pids
<1>2. Cardinality(Pids) = n
    BY <1>1, FS_Interval
<1> QED BY <1>1, <1>2 DEF Pids

\* What each thing may still happen is counted down; the roots stay.
LEMMA Spends ==
    ASSUME spare \in Spare, \/ UNCHANGED spare
                            \/ \E what \in Counts : Spend(what)
    PROVE  spare' \in Spare /\ spare'.data = spare.data /\ spare'.queue = spare.queue
<1>1. CASE UNCHANGED spare
    BY <1>1
<1>2. ASSUME NEW what \in Counts, Spend(what) PROVE spare' \in Spare /\ spare'.data = spare.data /\ spare'.queue = spare.queue
    <2>1. spare[what] \in Nat /\ spare[what] - 1 \in Nat
        BY <1>2 DEF Spend, Spare, Counts
    <2> QED BY <1>2, <2>1 DEF Spend, Spare, Counts
<1> QED BY <1>1, <1>2

LEMMA RootsStay == DaemonTyped /\ DaemonNext => spare' \in Spare /\ spare'.data = spare.data /\ spare'.queue = spare.queue
<1> SUFFICES ASSUME DaemonTyped, DaemonNext
    PROVE  UNCHANGED spare \/ \E what \in Counts : Spend(what)
    BY Spends DEF DaemonTyped
<1> USE DEF Counts, Mishap
<1>1. ASSUME NEW p \in Pids, Advance(p) \/ TakeTicket(p) \/ Signal(p) \/ Kill(p) \/ Reload(p)
      PROVE  UNCHANGED spare \/ \E what \in Counts : Spend(what)
    BY <1>1 DEF Advance, Load, Auth, ClaimWorker, ClaimTree, ClaimQueue, Claim, WatchConfig, Setup,
                WaitForEndpoint, EndTicket, LeaveLoop, Close, TakeTicket, Signal, Kill, Reload
<1>2. ASSUME NEW i \in Installs,
             Supervise(i) \/ Boot(i) \/ HandStart(i) \/ EditConfig(i) \/ \E name \in {"restart", "update", "ensure", "status"} : Ask(i, name)
      PROVE  UNCHANGED spare \/ \E what \in Counts : Spend(what)
    BY <1>2 DEF Supervise, Respawn, StayDown, RestartJob, Boot, HandStart, EditConfig, Ask
<1>3. CASE EndpointTurns
    BY <1>3 DEF EndpointTurns
<1>4. CASE Ongoing
    BY <1>4 DEF Ongoing, RestartBegins, ReadOld, Kick, Poll, Conclude, UpdateBegins, UpdateLooks,
                EnsureBegins, EnsurePolls, StatusFetches, StatusReads, askVars
<1> QED BY <1>1, <1>2, <1>3, <1>4 DEF DaemonNext

LEMMA NamesStay ==
    ASSUME spare'.data = spare.data, spare'.queue = spare.queue
    PROVE  /\ Pidfiles' = Pidfiles
           /\ \A i \in Installs : Claimed(i)' = Claimed(i) /\ Tree(i)' = Tree(i) /\ Queue(i)' = Queue(i)
BY DEF Pidfiles, Claimed, Tree, Queue, Worker

LEMMA NamesDiffer ==
    /\ \A i \in Installs : {Worker(i), Tree(i), Queue(i)} \subseteq Pidfiles
    /\ \A i, j \in Installs : Worker(i) # Tree(j) /\ Worker(i) # Queue(j) /\ Tree(i) # Queue(j)
    /\ \A i, j \in Installs : Worker(i) = Worker(j) => i = j
BY DEF Pidfiles, Claimed, Tree, Queue, Worker

\* The kinds of steps of one process: it goes on, takes a claim, exits, dies.
Moves(p) ==
    /\ p \in Pids /\ Live(p) /\ daemons' = [daemons EXCEPT ![p] = daemons'[p]]
    /\ daemons'[p] \in Daemon
    /\ daemons'[p].of = daemons[p].of /\ daemons'[p].code = daemons[p].code
    /\ daemons'[p].at \in {"loading", "auth", "worker"} => daemons[p].at \in {"loading", "auth", "worker"}

GoesOn(p) ==
    /\ Moves(p) /\ UNCHANGED claims /\ Live(p)' /\ daemons'[p].exit = daemons[p].exit
    /\ \/ daemons'[p].at = daemons[p].at
       \/ {daemons[p].at, daemons'[p].at} \subseteq Working
       \/ daemons'[p].at \in {"loading", "auth", "worker"}
TakesClaim(p) ==
    /\ Moves(p) /\ daemons'[p].exit = daemons[p].exit
    /\ \E step \in {<<"worker", Worker(daemons[p].of), "tree">>,
                    <<"tree", Tree(daemons[p].of), "queue">>,
                    <<"queue", Queue(daemons[p].of), "watch">>} :
        /\ daemons[p].at = step[1] /\ daemons'[p].at = step[3]
        /\ Holder(step[2]) = 0 /\ claims' = [claims EXCEPT ![step[2]] = p]
Exits1(p) ==
    /\ Moves(p) /\ ~Live(p)'
    /\ claims' = [n \in Pidfiles |-> IF claims[n] = p THEN 0 ELSE claims[n]]
Dies(p) ==
    /\ Moves(p) /\ ~Live(p)' /\ daemons'[p].exit \in {"signal", "failed", "killed"}
    /\ UNCHANGED claims
Kind(p) == GoesOn(p) \/ TakesClaim(p) \/ Exits1(p) \/ Dies(p)

LEMMA IsBorn ==
    ASSUME DaemonTyped, NEW i \in Installs
    PROVE  /\ Born(i) \in Daemon /\ Born(i).at = "loading" /\ Born(i).of = i /\ Born(i).code = installed
           /\ ~Born(i).due /\ ~Born(i).watching /\ Born(i).exit = "none"
<1>1. NoConfig \in Config \cup {NoConfig} /\ Zero \in Config /\ 0 \in 0 .. 2
    BY DEF Config, Zero
<1>2. installed \in {0, 1}
    BY DEF DaemonTyped
<1> QED BY <1>1, <1>2 DEF Born, Daemon, Ats, Ends

LEMMA IsGone ==
    ASSUME DaemonTyped, NEW p \in Pids, Live(p), NEW how \in Ends, Gone(p, how)
    PROVE  /\ Moves(p) /\ ~Live(p)' /\ daemons'[p].exit = how
           /\ ~daemons'[p].due /\ ~daemons'[p].watching
<1> DEFINE d == [Born(daemons[p].of) EXCEPT !.at = "gone", !.code = daemons[p].code, !.exit = how]
<1>1. daemons[p] \in Daemon
    BY Processes
<1>2. d \in Daemon /\ d.at = "gone" /\ d.exit = how /\ d.of = daemons[p].of /\ d.code = daemons[p].code
      /\ ~d.due /\ ~d.watching
    <2>0. daemons[p].of \in Installs
        BY <1>1 DEF Daemon
    <2>1. /\ Born(daemons[p].of) \in Daemon /\ Born(daemons[p].of).of = daemons[p].of
          /\ ~Born(daemons[p].of).due /\ ~Born(daemons[p].of).watching
        BY <2>0, IsBorn
    <2> QED BY <1>1, <2>1 DEF Daemon, Ats
<1>3. daemons' = [daemons EXCEPT ![p] = d]
    BY DEF Gone
<1> QED BY <1>2, <1>3 DEF Moves, Live, Pids

LEMMA IsMoved ==
    ASSUME DaemonTyped, NEW p \in Pids, Live(p), NEW d \in Daemon, daemons' = [daemons EXCEPT ![p] = d],
           UNCHANGED claims, d.of = daemons[p].of, d.code = daemons[p].code, d.exit = daemons[p].exit,
           d.at # "gone",
           \/ d.at = daemons[p].at \/ {daemons[p].at, d.at} \subseteq Working
           \/ daemons[p].at \in {"loading", "auth"} /\ d.at \in {"auth", "worker"}
    PROVE  GoesOn(p)
BY DEF GoesOn, Moves, Live, Pids, Working, Handling

LEMMA IsTerm ==
    ASSUME DaemonTyped, NEW p \in Pids, Live(p), Term(p)
    PROVE  Kind(p)
<1>1. daemons[p] \in Daemon
    BY Processes
<1>2. CASE daemons[p].at \notin Handling \/ daemons[p].stops = 2
    <2>1. \E how \in {"signal", "failed"} : Gone(p, how) /\ UNCHANGED claims
        BY <1>2 DEF Term, Die
    <2> QED BY <2>1, IsGone DEF Ends, Kind, Dies
<1>3. CASE daemons[p].at \in Handling /\ daemons[p].stops # 2
    <2> DEFINE d == [daemons[p] EXCEPT !.stops = @ + 1]
    <2>1. daemons[p].stops + 1 \in 0 .. 2
        BY <1>1, <1>3 DEF Daemon
    <2>2. d \in Daemon /\ d.at = daemons[p].at /\ d.of = daemons[p].of /\ d.code = daemons[p].code
          /\ d.exit = daemons[p].exit
        BY <1>1, <2>1 DEF Daemon
    <2>3. daemons' = [daemons EXCEPT ![p] = d] /\ UNCHANGED claims
        BY <1>3 DEF Term
    <2>4. d.at # "gone"
        BY <2>2, <1>3 DEF Handling
    <2> HIDE DEF d
    <2> QED BY <2>2, <2>3, <2>4, IsMoved DEF Kind
<1> QED BY <1>2, <1>3

LEMMA IsKind ==
    ASSUME DaemonTyped, NEW p \in Pids,
           Advance(p) \/ TakeTicket(p) \/ Signal(p) \/ Kill(p) \/ Reload(p)
    PROVE  Kind(p)
<1>0. daemons[p] \in Daemon
    BY Processes
<1>f. file[daemons[p].of].value \in Config
    BY <1>0 DEF DaemonTyped, Daemon
<1>i. {Worker(daemons[p].of), Tree(daemons[p].of), Queue(daemons[p].of)} \subseteq Pidfiles
    BY <1>0, NamesDiffer DEF Daemon
\* Exit is Exits1, with any reason.
<1>e. ASSUME NEW how \in Ends, Live(p), Exit(p, how) PROVE Kind(p)
    BY <1>e, IsGone DEF Exit, Exits1, Kind
\* A step that only moves on.
<1>g. ASSUME NEW to \in Ats, Live(p), Go(p, to), UNCHANGED claims, to # "gone",
             \/ {daemons[p].at, to} \subseteq Working
             \/ daemons[p].at \in {"loading", "auth"} /\ to \in {"auth", "worker"}
      PROVE  Kind(p)
    <2> DEFINE d == [daemons[p] EXCEPT !.at = to]
    <2>1. d \in Daemon /\ d.at = to /\ d.of = daemons[p].of /\ d.code = daemons[p].code
          /\ d.exit = daemons[p].exit
        BY <1>0 DEF Daemon
    <2>2. daemons' = [daemons EXCEPT ![p] = d]
        BY <1>g DEF Go
    <2> HIDE DEF d
    <2> QED BY <1>g, <2>1, <2>2, IsMoved DEF Kind
<1>1. CASE Load(p)
    <2>l. Live(p)
        BY <1>1 DEF Load, At, Live
    <2>1. CASE file[daemons[p].of].ok
        <3> DEFINE v == file[daemons[p].of].value
                   d == [daemons[p] EXCEPT !.at = "auth", !.cfg = v, !.held = v]
        <3>1. d \in Daemon /\ d.at = "auth" /\ d.of = daemons[p].of /\ d.code = daemons[p].code
              /\ d.exit = daemons[p].exit
            BY <1>0, <1>f DEF Daemon, Ats, Before
        <3>2. daemons' = [daemons EXCEPT ![p] = d] /\ UNCHANGED claims /\ daemons[p].at = "loading"
            BY <1>1, <2>1 DEF Load, At
        <3> HIDE DEF d
        <3> QED BY <2>l, <3>1, <3>2, IsMoved DEF Kind
    <2>2. CASE ~file[daemons[p].of].ok
        BY <1>1, <1>e, <2>l, <2>2 DEF Load, Ends
    <2> QED BY <2>1, <2>2
<1>2. CASE Auth(p)
    <2>l. Live(p) /\ daemons[p].at = "auth"
        BY <1>2 DEF Auth, At, Live
    <2>1. CASE Go(p, "worker") /\ UNCHANGED claims
        BY <1>g, <2>l, <2>1 DEF Ats, Before
    <2>2. CASE Exit(p, "failed")
        BY <1>e, <2>l, <2>2 DEF Ends
    <2> QED BY <1>2, <2>1, <2>2 DEF Auth
<1>3. ASSUME NEW step \in {<<"worker", Worker(daemons[p].of), "tree">>,
                           <<"tree", Tree(daemons[p].of), "queue">>,
                           <<"queue", Queue(daemons[p].of), "watch">>},
             Claim(p, step[1], step[2], step[3])
      PROVE  Kind(p)
    <2>l. Live(p) /\ daemons[p].at = step[1] /\ step[3] \in {"tree", "queue", "watch"}
        BY <1>3 DEF Claim, At, Live
    <2>1. CASE Exit(p, "refused") \/ Exit(p, "failed")
        BY <1>e, <2>l, <2>1 DEF Ends
    <2>2. CASE Holder(step[2]) = 0 /\ claims' = [claims EXCEPT ![step[2]] = p] /\ Go(p, step[3])
        <3> DEFINE d == [daemons[p] EXCEPT !.at = step[3]]
        <3>1. d \in Daemon /\ d.at = step[3] /\ d.of = daemons[p].of /\ d.code = daemons[p].code
              /\ d.exit = daemons[p].exit
            BY <1>0, <2>l DEF Daemon, Ats, Before
        <3>2. daemons' = [daemons EXCEPT ![p] = d]
            BY <2>2 DEF Go
        <3>3. Moves(p) /\ daemons'[p] = d
            BY <3>1, <3>2, <2>l DEF Moves, Pids
        <3> QED BY <2>2, <2>l, <3>1, <3>3 DEF Kind, TakesClaim
    <2> QED BY <1>3, <2>1, <2>2 DEF Claim
<1>4. CASE ClaimWorker(p) \/ ClaimTree(p) \/ ClaimQueue(p)
    BY <1>3, <1>4 DEF ClaimWorker, ClaimTree, ClaimQueue
<1>5. CASE WatchConfig(p)
    <2>l. Live(p) /\ daemons[p].at = "watch"
        BY <1>5 DEF WatchConfig, At, Live
    <2>1. CASE Go(p, "setup")
        BY <1>5, <1>g, <2>l, <2>1 DEF WatchConfig, Ats, Working, Handling
    <2>2. CASE ~Go(p, "setup")
        <3> DEFINE f == file[daemons[p].of]
                   d == [daemons[p] EXCEPT !.at = "setup", !.watching = TRUE,
                            !.prev = IF f.ok THEN f.value ELSE NoConfig, !.blind = @ \/ ~f.ok]
        <3>1. d \in Daemon /\ d.at = "setup" /\ d.of = daemons[p].of /\ d.code = daemons[p].code
              /\ d.exit = daemons[p].exit
            BY <1>0, <1>f DEF Daemon, Ats, Before, Handling
        <3>2. daemons' = [daemons EXCEPT ![p] = d] /\ UNCHANGED claims
            BY <1>5, <2>2 DEF WatchConfig
        <3> HIDE DEF d
        <3> QED BY <2>l, <3>1, <3>2, IsMoved DEF Kind, Working, Handling
    <2> QED BY <2>1, <2>2
<1>6. CASE Setup(p)
    <2>l. Live(p) /\ daemons[p].at = "setup"
        BY <1>6 DEF Setup, At, Live
    <2>1. CASE Go(p, "wait") /\ UNCHANGED claims
        BY <1>g, <2>l, <2>1 DEF Ats, Working, Handling
    <2>2. CASE Exit(p, "failed")
        BY <1>e, <2>l, <2>2 DEF Ends
    <2> QED BY <1>6, <2>1, <2>2 DEF Setup
<1>7. CASE WaitForEndpoint(p) \/ EndTicket(p) \/ TakeTicket(p)
    <2>1. Live(p) /\ daemons[p].at \in Handling /\ UNCHANGED claims
        BY <1>7 DEF WaitForEndpoint, EndTicket, TakeTicket, At, Live, Handling
    <2>2. Go(p, "serve") \/ Go(p, "busy")
        BY <1>7 DEF WaitForEndpoint, EndTicket, TakeTicket
    <2> QED BY <1>g, <2>1, <2>2 DEF Ats, Working, Handling
<1>8. CASE LeaveLoop(p)
    <2>l. Live(p) /\ daemons[p].at = "serve" /\ UNCHANGED claims
        BY <1>8 DEF LeaveLoop, At, Live
    <2>1. CASE Go(p, "closing")
        BY <1>g, <2>l, <2>1 DEF Ats, Working, Handling
    <2>2. CASE ~Go(p, "closing")
        <3> DEFINE d == [daemons[p] EXCEPT !.at = "closing", !.fatal = TRUE]
        <3>1. d \in Daemon /\ d.at = "closing" /\ d.of = daemons[p].of /\ d.code = daemons[p].code
              /\ d.exit = daemons[p].exit
            BY <1>0 DEF Daemon, Ats, Before, Handling
        <3>2. daemons' = [daemons EXCEPT ![p] = d]
            BY <1>8, <2>2 DEF LeaveLoop
        <3> HIDE DEF d
        <3> QED BY <2>l, <3>1, <3>2, IsMoved DEF Kind, Working, Handling
    <2> QED BY <2>1, <2>2
<1>9. CASE Close(p)
    <2>1. Live(p) /\ (Exit(p, "failed") \/ Exit(p, "clean"))
        BY <1>9 DEF Close, At, Live
    <2> QED BY <1>e, <2>1 DEF Ends
<1>10. CASE Signal(p)
    BY <1>10, IsTerm DEF Signal
<1>11. CASE Kill(p)
    <2>1. Live(p) /\ Gone(p, "killed") /\ UNCHANGED claims
        BY <1>11 DEF Kill, Die
    <2> QED BY <2>1, IsGone DEF Ends, Kind, Dies
<1>12. CASE Reload(p)
    <2> DEFINE f == file[daemons[p].of]
               d == [daemons[p] EXCEPT !.due = FALSE]
               e == IF ~f.ok THEN d
                    ELSE [d EXCEPT !.held = f.value, !.prev = f.value,
                                   !.told = @ \/ (d.prev # NoConfig /\ d.prev.frozen # f.value.frozen)]
    <2>1. d \in Daemon /\ d.at = daemons[p].at /\ d.of = daemons[p].of /\ d.code = daemons[p].code
          /\ d.exit = daemons[p].exit
        BY <1>0 DEF Daemon
    <2>2. e \in Daemon /\ e.at = daemons[p].at /\ e.of = daemons[p].of /\ e.code = daemons[p].code
          /\ e.exit = daemons[p].exit
        BY <1>f, <2>1, ZenonT(60) DEF Daemon
    <2>3. daemons' = [daemons EXCEPT ![p] = e] /\ UNCHANGED claims /\ Live(p)
        BY <1>12 DEF Reload
    <2>4. e.at # "gone"
        BY <2>2, <2>3 DEF Live
    <2> HIDE DEF e
    <2> QED BY <2>2, <2>3, <2>4, IsMoved DEF Kind
<1> QED BY <1>1, <1>2, <1>4, <1>5, <1>6, <1>7, <1>8, <1>9, <1>10, <1>11, <1>12 DEF Advance

\* A new process, and an edit, which leaves every process where it is.
IsLaunch == \E i \in Installs : Launch(i) /\ UNCHANGED claims
IsEdit ==
    /\ UNCHANGED claims /\ DOMAIN daemons' = Pids /\ daemons' = [p \in Pids |-> daemons'[p]]
    /\ \A p \in Pids : /\ daemons'[p] \in Daemon
                       /\ daemons'[p].of = daemons[p].of /\ daemons'[p].at = daemons[p].at
                       /\ daemons'[p].code = daemons[p].code /\ daemons'[p].exit = daemons[p].exit

LEMMA IsOneOf ==
    ASSUME DaemonTyped, DaemonNext
    PROVE  \/ \E p \in Pids : Kind(p)
           \/ IsLaunch \/ IsEdit
           \/ UNCHANGED <<daemons, claims>>
<1>1. ASSUME NEW p \in Pids, Advance(p) \/ TakeTicket(p) \/ Signal(p) \/ Kill(p) \/ Reload(p)
      PROVE  Kind(p)
    BY <1>1, IsKind
<1>2. ASSUME NEW i \in Installs, Respawn(i) \/ RestartJob(i) \/ Boot(i) \/ HandStart(i)
      PROVE  IsLaunch
    BY <1>2 DEF Respawn, RestartJob, Boot, HandStart, Start, unitRest, IsLaunch
<1>3. ASSUME NEW i \in Installs, EditConfig(i)
      PROVE  IsEdit
    <2> DEFINE d(p) == [daemons[p] EXCEPT
            !.due = @ \/ (daemons[p].of = i /\ daemons[p].watching),
            !.blind = @ \/ (daemons[p].of = i /\ daemons[p].at \in
                                {"auth", "worker", "tree", "queue", "watch"})]
    <2>1. ASSUME NEW p \in Pids
          PROVE  d(p) \in Daemon /\ d(p).of = daemons[p].of /\ d(p).at = daemons[p].at
                 /\ d(p).code = daemons[p].code /\ d(p).exit = daemons[p].exit
        <3>1. daemons[p] \in Daemon
            BY Processes
        <3> QED BY <3>1 DEF Daemon
    <2>2. daemons' = [p \in Pids |-> d(p)] /\ UNCHANGED claims
        BY <1>3 DEF EditConfig
    <2> HIDE DEF d
    <2> QED BY <2>1, <2>2 DEF IsEdit
<1>4. ASSUME NEW i \in Installs, StayDown(i) \/ \E name \in {"restart", "update", "ensure", "status"} : Ask(i, name)
      PROVE  UNCHANGED <<daemons, claims>>
    BY <1>4 DEF StayDown, Ask, unitRest
<1>5. CASE EndpointTurns
    BY <1>5 DEF EndpointTurns
<1>6. CASE Kick
    <2>1. UNCHANGED <<daemons, claims>> \/ StopUnit(command.of)
        BY <1>6 DEF Kick
    <2>2. CASE StopUnit(command.of)
        <3>1. CASE UnitOf(command.of) # 0 /\ Live(UnitOf(command.of))
            <4>1. command.of \in Installs
                BY <1>6 DEF Kick, Asking, DaemonTyped
            <4>2. UnitOf(command.of) \in Pids
                BY <3>1, <4>1 DEF UnitOf, DaemonTyped
            <4> QED BY <2>2, <3>1, <4>2, IsTerm DEF StopUnit
        <3>2. CASE ~(UnitOf(command.of) # 0 /\ Live(UnitOf(command.of)))
            BY <2>2, <3>2 DEF StopUnit
        <3> QED BY <3>1, <3>2
    <2> QED BY <2>1, <2>2
<1>7. CASE Ongoing /\ ~Kick
    BY <1>7 DEF Ongoing, RestartBegins, ReadOld, Poll, Conclude, UpdateBegins, UpdateLooks,
                EnsureBegins, EnsurePolls, StatusFetches, StatusReads, askVars
<1> QED BY <1>1, <1>2, <1>3, <1>4, <1>5, <1>6, <1>7 DEF DaemonNext, Supervise

\* What every step leaves of the processes there were.
Older ==
    /\ Pids \subseteq Pids' /\ Cardinality(Pids) <= Cardinality(Pids')
    /\ \A p \in Pids : /\ daemons'[p].of = daemons[p].of /\ daemons'[p].code = daemons[p].code
                       /\ Live(p)' => Live(p)
                       /\ daemons'[p].at \in {"loading", "auth", "worker"} =>
                            daemons[p].at \in {"loading", "auth", "worker"}
    /\ \A p \in Pids' \ Pids : p > Cardinality(Pids) /\ daemons'[p].code = installed
    /\ Cardinality(Pids') \in 0 .. MaxPids /\ Pids' = 1 .. Cardinality(Pids')
    /\ \A p \in Pids' : daemons'[p] \in Daemon

LEMMA Launches ==
    ASSUME DaemonTyped, NEW i \in Installs, Launch(i)
    PROVE  /\ NewPid \in 1 .. MaxPids /\ NewPid \notin Pids
           /\ Pids' = Pids \cup {NewPid} /\ Pids' = 1 .. NewPid /\ Cardinality(Pids') = NewPid
           /\ daemons'[NewPid] = Born(i)
           /\ \A p \in Pids : daemons'[p] = daemons[p]
<1>1. Cardinality(Pids) \in 0 .. MaxPids /\ Pids = 1 .. Cardinality(Pids)
    BY Processes
<1>2. NewPid \in 1 .. MaxPids /\ NewPid = Cardinality(Pids) + 1 /\ MaxPids \in Nat
    BY <1>1, DaemonAssumption DEF Launch, NewPid
<1>3. Pids' = 1 .. NewPid
    BY <1>2 DEF Launch, Pids
<1>4. Cardinality(Pids') = NewPid
    BY <1>2, <1>3, FS_Interval
<1>5. NewPid \notin Pids /\ Pids' = Pids \cup {NewPid}
    BY <1>1, <1>2, <1>3
<1>6. daemons'[NewPid] = Born(i) /\ \A p \in Pids : daemons'[p] = daemons[p]
    BY <1>1, <1>2, <1>5 DEF Launch
<1> QED BY <1>2, <1>3, <1>4, <1>5, <1>6

LEMMA StepsAreOlder ==
    ASSUME DaemonTyped, DaemonNext
    PROVE  Older
<1>0. Cardinality(Pids) \in 0 .. MaxPids /\ Pids = 1 .. Cardinality(Pids) /\ \A p \in Pids : daemons[p] \in Daemon
    BY Processes
<1>1. ASSUME NEW p \in Pids, Kind(p) PROVE Older
    <2>1. Moves(p)
        BY <1>1 DEF Kind, GoesOn, TakesClaim, Exits1, Dies
    <2>2. Pids' = Pids /\ \A q \in Pids : q # p => daemons'[q] = daemons[q]
        BY <2>1 DEF Moves, Pids
    <2>3. ASSUME NEW q \in Pids
          PROVE  /\ daemons'[q].of = daemons[q].of /\ daemons'[q].code = daemons[q].code
                 /\ Live(q)' => Live(q)
                 /\ daemons'[q].at \in {"loading", "auth", "worker"} =>
                        daemons[q].at \in {"loading", "auth", "worker"}
                 /\ daemons'[q] \in Daemon
        BY <1>0, <2>1, <2>2 DEF Moves, Live
    <2> QED BY <1>0, <2>2, <2>3 DEF Older
<1>2. CASE IsLaunch
    <2> PICK i \in Installs : Launch(i)
        BY <1>2 DEF IsLaunch
    <2>1. Born(i) \in Daemon /\ Born(i).code = installed
        BY IsBorn
    <2>2. ASSUME NEW p \in Pids PROVE daemons'[p] = daemons[p] /\ (Live(p)' => Live(p))
        BY Launches DEF Live
    <2> QED BY <1>0, <2>1, <2>2, Launches DEF Older, NewPid
<1>3. CASE IsEdit
    BY <1>0, <1>3 DEF IsEdit, Older, Live, Pids
<1>4. CASE UNCHANGED <<daemons, claims>>
    BY <1>0, <1>4 DEF Older, Live, Pids
<1> QED BY <1>1, <1>2, <1>3, <1>4, IsOneOf

-----------------------------------------------------------------------------
(* Types.                                                                  *)

LEMMA ClaimsTyped ==
    ASSUME DaemonTyped, DaemonNext
    PROVE  claims' \in [Pidfiles' -> Pids' \cup {0}]
<1>1. Pidfiles' = Pidfiles /\ Pids \subseteq Pids'
    BY RootsStay, NamesStay, StepsAreOlder DEF Older
<1>2. ASSUME NEW p \in Pids, Kind(p) PROVE claims' \in [Pidfiles -> Pids \cup {0}]
    <2>1. CASE GoesOn(p) \/ Dies(p)
        BY <2>1 DEF GoesOn, Dies, DaemonTyped
    <2>2. CASE Exits1(p)
        BY <2>2 DEF Exits1, DaemonTyped
    <2>3. CASE TakesClaim(p)
        BY <2>3 DEF TakesClaim, DaemonTyped
    <2> QED BY <1>2, <2>1, <2>2, <2>3 DEF Kind
<1>3. CASE UNCHANGED claims
    BY <1>1, <1>3 DEF DaemonTyped
<1> QED BY <1>1, <1>2, <1>3, IsOneOf DEF IsLaunch, IsEdit, DaemonTyped

LEMMA RestTyped ==
    ASSUME DaemonTyped, DaemonNext
    PROVE  /\ units' \in [Installs -> [pid : Pids' \cup {0}, job : {"none", "restart"}]]
           /\ file' \in [Installs -> [ok : BOOLEAN, value : Config]]
           /\ installed' \in {0, 1} /\ endpoint' \in BOOLEAN
<1>0. Pids \subseteq Pids'
    BY StepsAreOlder DEF Older
<1>1. ASSUME NEW p \in Pids, Advance(p) \/ TakeTicket(p) \/ Signal(p) \/ Kill(p) \/ Reload(p)
      PROVE  UNCHANGED <<units, file, installed, endpoint>>
    BY <1>1 DEF Advance, Load, Auth, ClaimWorker, ClaimTree, ClaimQueue, Claim, WatchConfig, Setup,
                WaitForEndpoint, EndTicket, LeaveLoop, Close, TakeTicket, Signal, Kill, Reload,
                startVars
<1>2. ASSUME NEW i \in Installs, Respawn(i) \/ RestartJob(i) \/ Boot(i)
      PROVE  /\ units' \in [Installs -> [pid : Pids' \cup {0}, job : {"none", "restart"}]]
             /\ UNCHANGED <<file, installed, endpoint>>
    <2>1. Launch(i) /\ units' = [units EXCEPT ![i] = [pid |-> NewPid, job |-> "none"]]
          /\ UNCHANGED <<file, installed, endpoint>>
        BY <1>2 DEF Respawn, RestartJob, Boot, Start, unitRest
    <2>2. NewPid \in Pids'
        BY <2>1, Launches
    <2> QED BY <1>0, <2>1, <2>2 DEF DaemonTyped
<1>3. ASSUME NEW i \in Installs, StayDown(i)
      PROVE  /\ units' \in [Installs -> [pid : Pids' \cup {0}, job : {"none", "restart"}]]
             /\ UNCHANGED <<file, installed, endpoint>>
    BY <1>0, <1>3 DEF StayDown, DaemonTyped, unitRest
<1>4. ASSUME NEW i \in Installs,
             HandStart(i) \/ \E name \in {"restart", "update", "ensure", "status"} : Ask(i, name)
      PROVE  UNCHANGED <<units, file, installed, endpoint>>
    BY <1>4 DEF HandStart, Ask, unitRest
<1>5. ASSUME NEW i \in Installs, EditConfig(i)
      PROVE  UNCHANGED <<units, installed, endpoint>> /\ file' \in [Installs -> [ok : BOOLEAN, value : Config]]
    <2>1. PICK ok \in BOOLEAN, v \in Config : file' = [file EXCEPT ![i] = [ok |-> ok, value |-> v]]
        BY <1>5 DEF EditConfig
    <2>2. [ok |-> ok, value |-> v] \in [ok : BOOLEAN, value : Config]
        OBVIOUS
    <2>3. file' \in [Installs -> [ok : BOOLEAN, value : Config]]
        BY <2>1, <2>2 DEF DaemonTyped
    <2> QED BY <1>5, <2>3 DEF EditConfig
<1>u. units \in [Installs -> [pid : Pids' \cup {0}, job : {"none", "restart"}]]
    BY <1>0 DEF DaemonTyped
<1>r. file \in [Installs -> [ok : BOOLEAN, value : Config]] /\ installed \in {0, 1} /\ endpoint \in BOOLEAN
    BY DEF DaemonTyped
<1>6. CASE EndpointTurns
    BY <1>u, <1>6 DEF EndpointTurns, DaemonTyped
<1>7. CASE Kick
    <2>1. UNCHANGED <<file, installed, endpoint>>
        BY <1>7 DEF Kick
    <2>2. units' = [units EXCEPT ![command.of].job = "restart"] \/ UNCHANGED units
        BY <1>7 DEF Kick
    <2>3. units' \in [Installs -> [pid : Pids \cup {0}, job : {"none", "restart"}]]
        BY <2>2 DEF DaemonTyped
    <2> QED BY <1>0, <2>1, <2>3 DEF DaemonTyped
<1>8. CASE UpdateBegins
    BY <1>u, <1>8 DEF UpdateBegins, DaemonTyped
<1>9. ASSUME Ongoing, ~Kick, ~UpdateBegins PROVE UNCHANGED <<units, file, installed, endpoint>>
    BY <1>9 DEF Ongoing, RestartBegins, ReadOld, Poll, Conclude, UpdateLooks,
                EnsureBegins, EnsurePolls, StatusFetches, StatusReads, askVars
<1>10. CASE UNCHANGED <<units, file, installed, endpoint>>
    BY <1>u, <1>r, <1>10
<1> QED BY <1>u, <1>r, <1>1, <1>2, <1>3, <1>4, <1>5, <1>6, <1>7, <1>8, <1>9, <1>10
        DEF DaemonNext, Supervise

LEMMA WorkerIs ==
    ASSUME DaemonTyped, NEW i \in Installs
    PROVE  WorkerOf(i) \in Pids \cup {0} /\ WorkerOf(i) \in Nat
<1>1. claims[Worker(i)] \in Pids \cup {0}
    BY NamesDiffer DEF DaemonTyped
<1>2. Pids \subseteq Nat
    BY Processes
<1> QED BY <1>1, <1>2 DEF WorkerOf, Holder

LEMMA CommandTyped ==
    ASSUME DaemonTyped, DaemonNext
    PROVE  command' \in Command /\ (command'.at # "idle" => command'.of \in Installs)
<1>0. command \in Command /\ (command.at # "idle" => command.of \in Installs)
    BY DEF DaemonTyped
<1>w. \A i \in Installs : WorkerOf(i) \in Nat
    BY WorkerIs
<1>n. Cardinality(Pids) \in Nat /\ Pids \subseteq Nat
    BY Processes
<1>1. CASE UNCHANGED command
    BY <1>0, <1>1
<1>2. ASSUME NEW i \in Installs, NEW name \in {"restart", "update", "ensure", "status"}, Ask(i, name)
      PROVE  command' \in Command /\ command'.of \in Installs
    BY <1>0, <1>2 DEF Ask, Command
\* A verdict, and the next step.
<1>v. ASSUME command.at # "idle", NEW v \in {"refused", "no unit", "restarted", "no change", "down",
                "nothing to do", "not running", "manual", "running", "start-failed", "started",
                "not responding"}, NEW p \in Nat, Verdict(v, p)
      PROVE  command' \in Command /\ command'.of \in Installs
    BY <1>0, <1>v DEF Verdict, Command
<1>x. ASSUME command.at # "idle", NEW to \in {"old", "kick", "conclude", "look", "lock"}, Next1(to)
      PROVE  command' \in Command /\ command'.of \in Installs
    BY <1>0, <1>x DEF Next1, Command
<1>3. CASE RestartBegins \/ EnsureBegins \/ EnsurePolls \/ Poll \/ StatusReads
    <2>1. command.at # "idle" /\ WorkerOf(command.of) \in Nat
        BY <1>0, <1>3, <1>w DEF RestartBegins, EnsureBegins, EnsurePolls, Poll, StatusReads, Asking
    <2> QED BY <1>3, <1>v, <1>x, <2>1 DEF RestartBegins, EnsureBegins, EnsurePolls, Poll, StatusReads
<1>4. CASE ReadOld
    <2> DEFINE st == Starting(command.of)
    <2>1. st \in BOOLEAN
        BY DEF Starting
    <2>2. command.of \in Installs /\ WorkerOf(command.of) \in Nat
        BY <1>0, <1>4, <1>w DEF ReadOld, Asking
    <2>3. command' = [command EXCEPT !.at = "kick", !.old = WorkerOf(command.of),
                                     !.count = Cardinality(Pids), !.starting = st]
        BY <1>4 DEF ReadOld
    <2> HIDE DEF st
    <2> QED BY <1>0, <1>n, <2>1, <2>2, <2>3 DEF Command
<1>5. CASE Kick
    <2>1. command.at # "idle"
        BY <1>5 DEF Kick, Asking
    <2>2. \E kick \in BOOLEAN : command' = [command EXCEPT !.at = "poll", !.kick = kick]
        BY <1>5 DEF Kick
    <2> QED BY <1>0, <2>1, <2>2 DEF Command
<1>6. CASE Conclude
    <2>1. command.at # "idle" /\ WorkerOf(command.of) \in Nat
        BY <1>0, <1>6, <1>w DEF Conclude, Asking
    <2>2. CASE Verdict("no change", 0) \/ Verdict("down", 0)
        BY <1>v, <2>1, <2>2
    <2>3. CASE ~(Verdict("no change", 0) \/ Verdict("down", 0))
        <3> DEFINE fresh == WorkerOf(command.of) # command.old
        <3>1. command' = [command EXCEPT !.at = "done", !.verdict = "still running",
                                         !.pid = WorkerOf(command.of), !.late = fresh]
            BY <1>6, <2>3 DEF Conclude
        <3>2. fresh \in BOOLEAN
            OBVIOUS
        <3> HIDE DEF fresh
        <3> QED BY <1>0, <2>1, <3>1, <3>2 DEF Command
    <2> QED BY <2>2, <2>3
<1>7. CASE UpdateBegins
    BY <1>7, <1>v, <1>x DEF UpdateBegins, Asking
<1>8. CASE UpdateLooks
    <2>1. command.at # "idle" /\ WorkerOf(command.of) \in Nat
        BY <1>0, <1>8, <1>w DEF UpdateLooks, Asking
    <2>2. CASE WorkerOf(command.of) # 0
        BY <1>8, <1>v, <1>x, <2>1, <2>2 DEF UpdateLooks
    <2>3. CASE WorkerOf(command.of) = 0
        <3> DEFINE st == Starting(command.of)
        <3>1. command' = [command EXCEPT !.at = "done", !.verdict = "not running", !.starting = st]
            BY <1>8, <2>3 DEF UpdateLooks
        <3>2. st \in BOOLEAN
            BY DEF Starting
        <3> HIDE DEF st
        <3> QED BY <1>0, <2>1, <3>1, <3>2 DEF Command
    <2> QED BY <2>2, <2>3
<1>9. CASE StatusFetches
    BY <1>9, <1>n, <1>v, <1>x DEF StatusFetches, Asking
<1>10. ASSUME NEW p \in Pids, Advance(p) \/ TakeTicket(p) \/ Signal(p) \/ Kill(p) \/ Reload(p)
       PROVE  UNCHANGED command
    BY <1>10 DEF Advance, Load, Auth, ClaimWorker, ClaimTree, ClaimQueue, Claim, WatchConfig, Setup,
                 WaitForEndpoint, EndTicket, LeaveLoop, Close, TakeTicket, Signal, Kill, Reload,
                 startVars
<1>11. ASSUME NEW i \in Installs, Supervise(i) \/ Boot(i) \/ HandStart(i) \/ EditConfig(i)
       PROVE  UNCHANGED command
    BY <1>11 DEF Supervise, Respawn, StayDown, RestartJob, Boot, HandStart, EditConfig, unitRest
<1>12. CASE EndpointTurns
    BY <1>1, <1>12 DEF EndpointTurns
<1> QED BY <1>1, <1>2, <1>3, <1>4, <1>5, <1>6, <1>7, <1>8, <1>9, <1>10, <1>11, <1>12
        DEF DaemonNext, Ongoing

LEMMA DaemonIsTyped == DaemonTyped /\ DaemonNext => DaemonTyped'
<1> SUFFICES ASSUME DaemonTyped, DaemonNext PROVE DaemonTyped'
    OBVIOUS
<1>1. \E n \in 0 .. MaxPids : daemons' \in [1 .. n -> Daemon]
    <2>1. Cardinality(Pids') \in 0 .. MaxPids /\ Pids' = 1 .. Cardinality(Pids')
          /\ \A p \in Pids' : daemons'[p] \in Daemon
        BY StepsAreOlder DEF Older
    <2>2. daemons' = [p \in Pids' |-> daemons'[p]]
        <3>1. ASSUME NEW p \in Pids, Kind(p) PROVE daemons' = [q \in Pids' |-> daemons'[q]]
            BY <3>1 DEF Kind, GoesOn, TakesClaim, Exits1, Dies, Moves, Pids
        <3>2. CASE IsLaunch
            BY <3>2 DEF IsLaunch, Launch, Pids
        <3>3. CASE UNCHANGED <<daemons, claims>>
            BY <3>3 DEF DaemonTyped, Pids
        <3>4. CASE IsEdit
            BY <3>4 DEF IsEdit, Pids
        <3> QED BY <3>1, <3>2, <3>3, <3>4, IsOneOf
    <2> QED BY <2>1, <2>2
<1> QED BY <1>1, ClaimsTyped, RestTyped, CommandTyped, RootsStay DEF DaemonTyped

-----------------------------------------------------------------------------
(* The claims.                                                             *)

LEMMA ClaimsKept == DaemonTyped /\ ClaimsInv /\ DaemonNext => ClaimsInv'
<1> SUFFICES ASSUME DaemonTyped, ClaimsInv, DaemonNext PROVE ClaimsInv'
    OBVIOUS
<1>0. Pids = 1 .. Cardinality(Pids) /\ Cardinality(Pids) \in Nat /\ \A p \in Pids : daemons[p] \in Daemon
    BY Processes
<1>n. /\ Pidfiles' = Pidfiles
      /\ \A i \in Installs : Tree(i)' = Tree(i) /\ Queue(i)' = Queue(i) /\ Worker(i)' = Worker(i)
    BY RootsStay, NamesStay DEF Worker
<1>c. claims \in [Pidfiles -> Pids \cup {0}] /\ 0 \notin Pids
    BY <1>0 DEF DaemonTyped
<1>o. \A p \in Pids : daemons[p].of \in Installs
    BY <1>0 DEF Daemon
<1>1. ASSUME NEW p \in Pids, Kind(p) PROVE ClaimsInv'
    <2>m. Moves(p)
        BY <1>1 DEF Kind, GoesOn, TakesClaim, Exits1, Dies
    <2>p. Pids' = Pids /\ (\A q \in Pids : q # p => daemons'[q] = daemons[q])
          /\ (\A q \in Pids : daemons'[q].of = daemons[q].of)
        BY <2>m DEF Moves, Pids
    <2>l. daemons[p].at # "gone" /\ daemons[p].exit = "none"
        BY <2>m DEF Moves, Live, ClaimsInv
    <2>1. CASE GoesOn(p)
        <3>1. claims' = claims /\ daemons'[p].at # "gone" /\ daemons'[p].exit = "none"
            BY <2>1, <2>l DEF GoesOn, Live
        <3>2. \/ daemons'[p].at = daemons[p].at
              \/ {daemons[p].at, daemons'[p].at} \subseteq Working
              \/ daemons'[p].at \in {"loading", "auth", "worker"}
            BY <2>1 DEF GoesOn
        <3>3. ASSUME NEW q \in Pids
              PROVE  /\ daemons'[q].at \in {"tree", "queue"} \cup Working => claims[Worker(daemons'[q].of)] = q
                     /\ daemons'[q].at \in {"queue"} \cup Working => claims[Tree(daemons'[q].of)] = q
                     /\ daemons'[q].at \in Working => claims[Queue(daemons'[q].of)] = q
                     /\ Live(q)' => daemons'[q].exit = "none"
                     /\ daemons'[q].exit \in {"clean", "refused"} => \A n \in Pidfiles : claims[n] # q
            <4>1. CASE q # p
                BY <2>p, <4>1 DEF ClaimsInv, Live
            <4>2. CASE q = p
                BY <2>p, <3>1, <3>2, <4>2 DEF ClaimsInv, Working, Handling
            <4> QED BY <4>1, <4>2
        <3>4. ASSUME NEW j \in Installs, claims[Worker(j)] # 0 PROVE daemons'[claims[Worker(j)]].of = j
            <4>1. claims[Worker(j)] \in Pids
                BY <1>c, <3>4, NamesDiffer
            <4> QED BY <2>p, <3>4, <4>1 DEF ClaimsInv
        <3> QED BY <1>n, <1>o, <2>p, <3>1, <3>3, <3>4 DEF ClaimsInv
    <2>2. CASE TakesClaim(p)
        <3> DEFINE i == daemons[p].of
        <3>1. PICK step \in {<<"worker", Worker(i), "tree">>, <<"tree", Tree(i), "queue">>,
                             <<"queue", Queue(i), "watch">>} :
                /\ daemons[p].at = step[1] /\ daemons'[p].at = step[3]
                /\ Holder(step[2]) = 0 /\ claims' = [claims EXCEPT ![step[2]] = p]
            BY <2>2 DEF TakesClaim
        <3>2. daemons'[p].exit = "none" /\ daemons'[p].of = i /\ i \in Installs
            BY <1>o, <2>2, <2>l, <2>p DEF TakesClaim
        <3>3. step[2] \in Pidfiles
            BY <3>1, <3>2, NamesDiffer
        \* Whoever had it has gone.
        <3>4. claims[step[2]] = 0 \/ (claims[step[2]] \in Pids /\ ~Live(claims[step[2]]))
            BY <1>c, <3>1, <3>3 DEF Holder
        <3>5. claims'[step[2]] = p /\ \A n \in Pidfiles : n # step[2] => claims'[n] = claims[n]
            BY <1>c, <3>1, <3>3
        <3>6. ASSUME NEW q \in Pids
              PROVE  /\ daemons'[q].at \in {"tree", "queue"} \cup Working => claims'[Worker(daemons'[q].of)] = q
                     /\ daemons'[q].at \in {"queue"} \cup Working => claims'[Tree(daemons'[q].of)] = q
                     /\ daemons'[q].at \in Working => claims'[Queue(daemons'[q].of)] = q
            <4>1. CASE q # p
                <5>1. daemons'[q] = daemons[q] /\ daemons[q].of \in Installs
                    BY <1>o, <2>p, <4>1
                <5>2. /\ daemons[q].at \in {"tree", "queue"} \cup Working => claims[Worker(daemons[q].of)] = q
                      /\ daemons[q].at \in {"queue"} \cup Working => claims[Tree(daemons[q].of)] = q
                      /\ daemons[q].at \in Working => claims[Queue(daemons[q].of)] = q
                    BY DEF ClaimsInv
                <5>3. daemons[q].at \in {"tree", "queue"} \cup Working => Live(q)
                    BY DEF Live, Working, Handling
                <5>4. claims[step[2]] = q => daemons[q].at \notin {"tree", "queue"} \cup Working
                    BY <1>c, <3>4, <5>3
                <5> QED BY <3>5, <5>1, <5>2, <5>4, NamesDiffer
            <4>2. CASE q = p
                <5>1. /\ daemons[p].at \in {"tree", "queue"} => claims[Worker(i)] = p
                      /\ daemons[p].at = "queue" => claims[Tree(i)] = p
                    BY DEF ClaimsInv
                <5>2. CASE step[1] = "worker"
                    BY <3>1, <3>2, <3>5, <4>2, <5>2 DEF Working, Handling
                <5>3. CASE step[1] = "tree"
                    BY <3>1, <3>2, <3>5, <4>2, <5>1, <5>3, NamesDiffer DEF Working, Handling
                <5>4. CASE step[1] = "queue"
                    BY <3>1, <3>2, <3>5, <4>2, <5>1, <5>4, NamesDiffer DEF Working, Handling
                <5> QED BY <3>1, <5>2, <5>3, <5>4
            <4> QED BY <4>1, <4>2
        <3>7. ASSUME NEW q \in Pids
              PROVE  /\ Live(q)' => daemons'[q].exit = "none"
                     /\ daemons'[q].exit \in {"clean", "refused"} => \A n \in Pidfiles : claims'[n] # q
            <4>1. CASE q # p
                BY <2>p, <3>5, <4>1 DEF ClaimsInv, Live
            <4>2. CASE q = p
                BY <3>2, <4>2
            <4> QED BY <4>1, <4>2
        <3>8. ASSUME NEW j \in Installs, claims'[Worker(j)] # 0 PROVE daemons'[claims'[Worker(j)]].of = j
            <4>1. CASE step[2] = Worker(j)
                <5>1. i = j
                    BY <3>1, <3>2, <4>1, NamesDiffer
                <5> QED BY <3>2, <3>5, <4>1, <5>1
            <4>2. CASE step[2] # Worker(j)
                <5>1. claims'[Worker(j)] = claims[Worker(j)] /\ claims[Worker(j)] \in Pids
                    BY <1>c, <3>5, <3>8, <4>2, NamesDiffer
                <5> QED BY <2>p, <3>8, <5>1 DEF ClaimsInv
            <4> QED BY <4>1, <4>2
        <3> QED BY <1>n, <1>o, <2>p, <3>6, <3>7, <3>8 DEF ClaimsInv
    <2>3. CASE Exits1(p) \/ Dies(p)
        <3>1. daemons'[p].at = "gone" /\ (daemons'[p].exit \in {"clean", "refused"} => Exits1(p))
            BY <2>3 DEF Exits1, Dies, Live
        <3>2. \A n \in Pidfiles : claims'[n] = claims[n] \/ (claims[n] = p /\ claims'[n] = 0)
            BY <1>c, <2>3 DEF Exits1, Dies
        <3>3. Exits1(p) => \A n \in Pidfiles : claims'[n] # p
            BY <1>c DEF Exits1
        <3>4. ASSUME NEW q \in Pids
              PROVE  /\ daemons'[q].at \in {"tree", "queue"} \cup Working => claims'[Worker(daemons'[q].of)] = q
                     /\ daemons'[q].at \in {"queue"} \cup Working => claims'[Tree(daemons'[q].of)] = q
                     /\ daemons'[q].at \in Working => claims'[Queue(daemons'[q].of)] = q
                     /\ Live(q)' => daemons'[q].exit = "none"
                     /\ daemons'[q].exit \in {"clean", "refused"} => \A n \in Pidfiles : claims'[n] # q
            <4>1. CASE q # p
                <5>1. daemons'[q] = daemons[q] /\ daemons[q].of \in Installs
                    BY <1>o, <2>p, <4>1
                <5> QED BY <1>c, <3>2, <4>1, <5>1, NamesDiffer DEF ClaimsInv, Live
            <4>2. CASE q = p
                BY <3>1, <3>3, <4>2 DEF Live, Working, Handling
            <4> QED BY <4>1, <4>2
        <3>5. ASSUME NEW j \in Installs, claims'[Worker(j)] # 0 PROVE daemons'[claims'[Worker(j)]].of = j
            <4>1. claims'[Worker(j)] = claims[Worker(j)] /\ claims[Worker(j)] \in Pids
                BY <1>c, <3>2, <3>5, NamesDiffer
            <4> QED BY <2>p, <3>5, <4>1 DEF ClaimsInv
        <3> QED BY <1>n, <1>o, <2>p, <3>4, <3>5 DEF ClaimsInv
    <2> QED BY <1>1, <2>1, <2>2, <2>3 DEF Kind
<1>2. CASE IsLaunch
    <2> PICK i \in Installs : Launch(i) /\ UNCHANGED claims
        BY <1>2 DEF IsLaunch
    <2>1. /\ NewPid \notin Pids /\ Pids' = Pids \cup {NewPid} /\ daemons'[NewPid] = Born(i)
          /\ \A p \in Pids : daemons'[p] = daemons[p]
        BY Launches
    <2>2. NewPid # 0
        BY Launches
    <2>3. Born(i).at = "loading" /\ Born(i).exit = "none"
        BY IsBorn
    <2>4. \A n \in Pidfiles : claims[n] # NewPid
        BY <1>c, <2>1, <2>2
    <2>5. ASSUME NEW q \in Pids'
          PROVE  /\ daemons'[q].at \in {"tree", "queue"} \cup Working => claims[Worker(daemons'[q].of)] = q
                 /\ daemons'[q].at \in {"queue"} \cup Working => claims[Tree(daemons'[q].of)] = q
                 /\ daemons'[q].at \in Working => claims[Queue(daemons'[q].of)] = q
                 /\ Live(q)' => daemons'[q].exit = "none"
                 /\ daemons'[q].exit \in {"clean", "refused"} => \A n \in Pidfiles : claims[n] # q
        <3>1. CASE q = NewPid
            BY <2>1, <2>3, <3>1 DEF Working, Handling
        <3>2. CASE q \in Pids
            <4>1. daemons'[q] = daemons[q]
                BY <2>1, <3>2
            <4> QED BY <3>2, <4>1 DEF ClaimsInv, Live
        <3> QED BY <2>1, <3>1, <3>2
    <2>6. ASSUME NEW j \in Installs, claims[Worker(j)] # 0 PROVE daemons'[claims[Worker(j)]].of = j
        <3>1. claims[Worker(j)] \in Pids
            BY <1>c, <2>6, NamesDiffer
        <3> QED BY <2>1, <2>6, <3>1 DEF ClaimsInv
    <2>7. \A q \in Pids' : daemons'[q].of \in Installs
        BY StepsAreOlder DEF Older, Daemon
    <2> QED BY <1>n, <2>5, <2>6, <2>7 DEF ClaimsInv
<1>3. CASE IsEdit
    <2>1. Pids' = Pids /\ claims' = claims
        BY <1>3 DEF IsEdit, Pids
    <2>2. \A p \in Pids : /\ daemons'[p].of = daemons[p].of /\ daemons'[p].at = daemons[p].at
                          /\ daemons'[p].exit = daemons[p].exit
        BY <1>3 DEF IsEdit
    <2>3. \A j \in Installs : claims[Worker(j)] \in Pids \cup {0}
        BY <1>c, NamesDiffer
    <2> QED BY <1>n, <1>o, <2>1, <2>2, <2>3 DEF ClaimsInv, Live
<1>4. CASE UNCHANGED <<daemons, claims>>
    BY <1>n, <1>o, <1>4 DEF ClaimsInv, Live, Pids
<1> QED BY <1>1, <1>2, <1>3, <1>4, IsOneOf

-----------------------------------------------------------------------------
(* The configuration.                                                      *)

LEMMA GoneFollows ==
    ASSUME DaemonTyped, NEW p \in Pids, Live(p), NEW how \in Ends, Gone(p, how), NEW f
    PROVE  Follows(daemons'[p], f)
<1>1. daemons'[p].at = "gone" /\ ~daemons'[p].due /\ ~daemons'[p].watching
    BY IsGone DEF Live
<1> QED BY <1>1 DEF Follows, Before

\* A step that only moves on.
LEMMA GoFollows ==
    ASSUME NEW d \in Daemon, NEW to \in Ats, NEW f, Follows(d, f),
           to \in Before => d.at \in Before, d.at \in Handling => to \in Handling
    PROVE  Follows([d EXCEPT !.at = to], f)
<1> DEFINE e == [d EXCEPT !.at = to]
<1>1. /\ e.at = to /\ e.due = d.due /\ e.watching = d.watching /\ e.blind = d.blind
      /\ e.held = d.held /\ e.cfg = d.cfg /\ e.prev = d.prev /\ e.told = d.told
    BY DEF Daemon
<1> HIDE DEF e
<1>2. Follows(e, f)
    BY <1>1 DEF Follows
<1> QED BY <1>2 DEF e

LEMMA TermFollows ==
    ASSUME DaemonTyped, NEW p \in Pids, Live(p), Term(p), NEW f, Follows(daemons[p], f)
    PROVE  Follows(daemons'[p], f)
<1>e. daemons[p] \in Daemon
    BY Processes
<1>1. CASE Die(p, "signal") \/ Die(p, "failed")
    BY <1>1, GoneFollows DEF Die, Ends
<1>2. CASE ~(Die(p, "signal") \/ Die(p, "failed"))
    <2> DEFINE d == [daemons[p] EXCEPT !.stops = @ + 1]
    <2>1. daemons'[p] = d
        BY <1>2 DEF Term, Pids
    <2>2. /\ d.at = daemons[p].at /\ d.due = daemons[p].due /\ d.watching = daemons[p].watching
          /\ d.blind = daemons[p].blind /\ d.held = daemons[p].held /\ d.cfg = daemons[p].cfg
          /\ d.prev = daemons[p].prev /\ d.told = daemons[p].told
        BY <1>e DEF Daemon
    <2> HIDE DEF d
    <2>3. Follows(d, f)
        BY <2>2 DEF Follows
    <2> QED BY <2>1, <2>3
<1> QED BY <1>1, <1>2

LEMMA StepFollows ==
    ASSUME DaemonTyped, NEW p \in Pids, Follows(daemons[p], file[daemons[p].of]),
           Advance(p) \/ TakeTicket(p) \/ Signal(p) \/ Kill(p) \/ Reload(p)
    PROVE  Follows(daemons'[p], file[daemons[p].of])
<1> DEFINE f == file[daemons[p].of]
<1>0. daemons[p] \in Daemon /\ f \in [ok : BOOLEAN, value : Config]
    BY Processes DEF Daemon, DaemonTyped
<1>x. ASSUME NEW how \in Ends, Live(p), Gone(p, how) PROVE Follows(daemons'[p], f)
    BY <1>x, GoneFollows
<1>g. ASSUME NEW to \in Ats, Go(p, to),
             to \in Before => daemons[p].at \in Before, daemons[p].at \in Handling => to \in Handling
      PROVE  Follows(daemons'[p], f)
    <2>1. daemons'[p] = [daemons[p] EXCEPT !.at = to]
        BY <1>g DEF Go, Pids
    <2> QED BY <1>0, <1>g, <2>1, GoFollows
<1>s. ASSUME Live(p), Term(p) PROVE Follows(daemons'[p], f)
    BY <1>s, TermFollows
<1>1. CASE Load(p)
    <2>1. CASE f.ok
        <3> DEFINE d == [daemons[p] EXCEPT !.at = "auth", !.cfg = f.value, !.held = f.value]
        <3>1. daemons'[p] = d /\ daemons[p].at = "loading"
            BY <1>1, <2>1 DEF Load, At, Pids
        <3>2. d.at = "auth" /\ d.cfg = f.value /\ d.held = f.value /\ d.due = daemons[p].due
              /\ d.watching = daemons[p].watching
            BY <1>0 DEF Daemon
        <3>3. ~daemons[p].watching /\ ~daemons[p].due
            BY <3>1 DEF Follows, Handling
        <3> HIDE DEF d
        <3>4. Follows(d, f)
            BY <2>1, <3>2, <3>3 DEF Follows, Handling
        <3> QED BY <3>1, <3>4
    <2>2. CASE ~f.ok
        BY <1>1, <1>x, <2>2 DEF Load, Exit, At, Live, Ends
    <2> QED BY <2>1, <2>2
<1>2. CASE Auth(p)
    <2>1. Live(p) /\ daemons[p].at = "auth" /\ (Go(p, "worker") \/ Gone(p, "failed"))
        BY <1>2 DEF Auth, At, Live, Exit
    <2>2. "failed" \in Ends /\ "worker" \in Ats /\ "auth" \in Before /\ "auth" \notin Handling
        BY DEF Ends, Ats, Before, Handling
    <2> QED BY <1>g, <1>x, <2>1, <2>2
<1>3. CASE ClaimWorker(p) \/ ClaimTree(p) \/ ClaimQueue(p)
    <2>1. Live(p) /\ daemons[p].at \in {"worker", "tree", "queue"}
        BY <1>3 DEF ClaimWorker, ClaimTree, ClaimQueue, Claim, At, Live
    <2>2. \/ Go(p, "tree") \/ Go(p, "queue") \/ Go(p, "watch")
          \/ Gone(p, "failed") \/ Gone(p, "refused")
        BY <1>3 DEF ClaimWorker, ClaimTree, ClaimQueue, Claim, Exit
    <2>3. {"failed", "refused"} \subseteq Ends /\ {"tree", "queue", "watch"} \subseteq Ats
          /\ daemons[p].at \in Before /\ daemons[p].at \notin Handling
        BY <2>1 DEF Ends, Ats, Before, Handling
    <2> QED BY <1>g, <1>x, <2>1, <2>2, <2>3
<1>4. CASE WatchConfig(p)
    <2>0. daemons[p].at = "watch"
        BY <1>4 DEF WatchConfig, At
    <2>1. CASE Go(p, "setup")
        BY <1>g, <2>0, <2>1 DEF Ats, Before, Handling
    <2>2. CASE ~Go(p, "setup")
        <3> DEFINE blind == daemons[p].blind \/ ~f.ok
                   d == [daemons[p] EXCEPT !.at = "setup", !.watching = TRUE,
                            !.prev = IF f.ok THEN f.value ELSE NoConfig, !.blind = blind]
        <3>1. daemons'[p] = d
            BY <1>4, <2>2 DEF WatchConfig, Pids
        <3>2. /\ d.at = "setup" /\ d.due = daemons[p].due /\ d.watching = TRUE /\ d.blind = blind
              /\ d.held = daemons[p].held /\ d.cfg = daemons[p].cfg
              /\ d.prev = IF f.ok THEN f.value ELSE NoConfig
            BY <1>0 DEF Daemon
        <3>3. ~daemons[p].due
            BY <2>0 DEF Follows, Handling
        <3>4. ~blind => f.ok /\ daemons[p].held = f.value /\ daemons[p].cfg = f.value
            BY <2>0 DEF Follows, Before
        <3> HIDE DEF d, blind
        <3>5. d.at \notin Before /\ d.at \in Handling
            BY <3>2 DEF Before, Handling
        <3>6. Follows(d, f)
            BY <1>0, <3>2, <3>3, <3>4, <3>5 DEF Follows
        <3> QED BY <3>1, <3>6
    <2> QED BY <2>1, <2>2
<1>5. CASE Setup(p)
    <2>1. Live(p) /\ daemons[p].at = "setup" /\ (Go(p, "wait") \/ Gone(p, "failed"))
        BY <1>5 DEF Setup, At, Live, Exit
    <2> QED BY <1>g, <1>x, <2>1 DEF Ends, Ats, Before, Handling
<1>6. CASE WaitForEndpoint(p) \/ EndTicket(p) \/ TakeTicket(p)
    <2>1. Go(p, "serve") \/ Go(p, "busy")
        BY <1>6 DEF WaitForEndpoint, EndTicket, TakeTicket
    <2>2. {"serve", "busy"} \subseteq Ats /\ {"serve", "busy"} \subseteq Handling
          /\ "serve" \notin Before /\ "busy" \notin Before
        BY DEF Ats, Before, Handling
    <2> QED BY <1>g, <2>1, <2>2
<1>7. CASE LeaveLoop(p)
    <2>1. CASE Go(p, "closing")
        BY <1>g, <2>1 DEF Ats, Before, Handling
    <2>2. CASE ~Go(p, "closing")
        <3> DEFINE d == [daemons[p] EXCEPT !.at = "closing", !.fatal = TRUE]
        <3>1. daemons'[p] = d
            BY <1>7, <2>2 DEF LeaveLoop, Pids
        <3>2. /\ d.at = "closing" /\ d.due = daemons[p].due /\ d.watching = daemons[p].watching
              /\ d.blind = daemons[p].blind /\ d.held = daemons[p].held /\ d.cfg = daemons[p].cfg
              /\ d.prev = daemons[p].prev /\ d.told = daemons[p].told
            BY <1>0 DEF Daemon
        <3> HIDE DEF d
        <3>3. Follows(d, f)
            BY <3>2 DEF Follows, Before, Handling
        <3> QED BY <3>1, <3>3
    <2> QED BY <2>1, <2>2
<1>8. CASE Close(p)
    <2>1. Live(p) /\ (Gone(p, "failed") \/ Gone(p, "clean"))
        BY <1>8 DEF Close, At, Live, Exit
    <2> QED BY <1>x, <2>1 DEF Ends
<1>9. CASE Signal(p)
    BY <1>9, <1>s DEF Signal
<1>10. CASE Kill(p)
    BY <1>10, <1>x DEF Kill, Die, Ends
<1>11. CASE Reload(p)
    <2> DEFINE d == [daemons[p] EXCEPT !.due = FALSE]
               told == d.told \/ (d.prev # NoConfig /\ d.prev.frozen # f.value.frozen)
               e == [d EXCEPT !.held = f.value, !.prev = f.value, !.told = told]
    <2>1. daemons'[p] = IF ~f.ok THEN d ELSE e
        BY <1>11 DEF Reload, Pids
    <2>w. daemons[p].watching
        BY <1>11 DEF Reload, Follows
    <2>2. /\ d \in Daemon /\ d.at = daemons[p].at /\ ~d.due /\ d.watching = daemons[p].watching
          /\ d.blind = daemons[p].blind /\ d.held = daemons[p].held /\ d.cfg = daemons[p].cfg
          /\ d.prev = daemons[p].prev /\ d.told = daemons[p].told
        BY <1>0 DEF Daemon
    <2>3. CASE ~f.ok
        <3> HIDE DEF d
        <3>1. Follows(d, f)
            BY <2>2, <2>3, <2>w DEF Follows
        <3> QED BY <2>1, <2>3, <3>1
    <2>4. CASE f.ok
        <3>1. /\ e.at = daemons[p].at /\ ~e.due /\ e.watching /\ e.blind = daemons[p].blind
              /\ e.held = f.value /\ e.prev = f.value /\ e.told = told /\ e.cfg = daemons[p].cfg
            BY <1>0, <2>2, <2>w DEF Daemon
        <3>2. e.at \in Handling /\ e.at \notin Before
            BY <2>w, <3>1 DEF Follows, Handling, Before
        <3>3. ~e.blind /\ f.value.frozen # e.cfg.frozen => told
            <4>1. SUFFICES ASSUME ~daemons[p].blind, f.value.frozen # daemons[p].cfg.frozen PROVE told
                BY <3>1
            <4>2. daemons[p].prev \in Config /\ (daemons[p].prev.frozen # daemons[p].cfg.frozen => daemons[p].told)
                BY <2>w, <4>1 DEF Follows
            <4>3. daemons[p].prev # NoConfig
                BY <4>2 DEF Config, NoConfig
            <4> QED BY <2>2, <4>1, <4>2, <4>3
        <3> HIDE DEF e, told
        <3>4. Follows(e, f)
            BY <1>0, <3>1, <3>2, <3>3 DEF Follows
        <3> QED BY <2>1, <2>4, <3>4
    <2> QED BY <2>3, <2>4
<1> QED BY <1>1, <1>2, <1>3, <1>4, <1>5, <1>6, <1>7, <1>8, <1>9, <1>10, <1>11 DEF Advance

LEMMA ConfigKept == DaemonTyped /\ ConfigInv /\ DaemonNext => ConfigInv'
<1> SUFFICES ASSUME DaemonTyped, ConfigInv, DaemonNext PROVE ConfigInv'
    OBVIOUS
<1>0. \A p \in Pids : daemons[p] \in Daemon /\ file[daemons[p].of] \in [ok : BOOLEAN, value : Config]
    BY Processes DEF Daemon, DaemonTyped
<1>m. ASSUME NEW p \in Pids, Moves(p)
      PROVE  /\ Pids' = Pids /\ \A q \in Pids : q # p => daemons'[q] = daemons[q]
             /\ \A q \in Pids : daemons'[q].of = daemons[q].of
    BY <1>m DEF Moves, Pids
\* One process moves, and follows the file as it is.
<1>a. ASSUME NEW p \in Pids, Moves(p), UNCHANGED file, Follows(daemons'[p], file[daemons[p].of])
      PROVE  ConfigInv'
    <2>1. ASSUME NEW q \in Pids PROVE Follows(daemons'[q], file[daemons'[q].of])
        <3>1. CASE q # p
            BY <1>a, <1>m, <3>1 DEF ConfigInv
        <3>2. CASE q = p
            BY <1>a, <1>m, <3>2
        <3> QED BY <3>1, <3>2
    <2> QED BY <1>a, <1>m, <2>1 DEF ConfigInv
<1>1. ASSUME NEW p \in Pids, Advance(p) \/ TakeTicket(p) \/ Signal(p) \/ Kill(p) \/ Reload(p)
      PROVE  ConfigInv'
    <2>1. UNCHANGED file
        BY <1>1 DEF Advance, Load, Auth, ClaimWorker, ClaimTree, ClaimQueue, Claim, WatchConfig, Setup,
                    WaitForEndpoint, EndTicket, LeaveLoop, Close, TakeTicket, Signal, Kill, Reload,
                    startVars
    <2>2. Follows(daemons'[p], file[daemons[p].of])
        BY <1>1, StepFollows DEF ConfigInv
    <2>3. Moves(p)
        BY <1>1, IsKind DEF Kind, GoesOn, TakesClaim, Exits1, Dies
    <2> QED BY <1>a, <2>1, <2>2, <2>3
<1>2. ASSUME NEW i \in Installs, Launch(i), UNCHANGED file PROVE ConfigInv'
    <2>1. /\ Pids' = Pids \cup {NewPid} /\ daemons'[NewPid] = Born(i)
          /\ \A p \in Pids : daemons'[p] = daemons[p]
        BY <1>2, Launches
    <2>2. Follows(Born(i), file[i]) /\ Born(i).of = i
        BY IsBorn DEF Follows, Before
    <2>3. ASSUME NEW q \in Pids' PROVE Follows(daemons'[q], file[daemons'[q].of])
        <3>1. CASE q = NewPid
            BY <2>1, <2>2, <3>1
        <3>2. CASE q \in Pids
            BY <2>1, <3>2 DEF ConfigInv
        <3> QED BY <2>1, <3>1, <3>2
    <2> QED BY <1>2, <2>3 DEF ConfigInv
<1>3. ASSUME NEW i \in Installs, EditConfig(i) PROVE ConfigInv'
    <2> DEFINE due(p) == daemons[p].due \/ (daemons[p].of = i /\ daemons[p].watching)
               blind(p) == daemons[p].blind \/ (daemons[p].of = i /\ daemons[p].at \in
                                {"auth", "worker", "tree", "queue", "watch"})
               d(p) == [daemons[p] EXCEPT !.due = due(p), !.blind = blind(p)]
    <2>1. daemons' = [p \in Pids |-> d(p)] /\ Pids' = Pids
        BY <1>3 DEF EditConfig, Pids
    <2>2. \A j \in Installs : j # i => file'[j] = file[j]
        BY <1>3 DEF EditConfig, DaemonTyped
    <2>3. ASSUME NEW p \in Pids PROVE Follows(daemons'[p], file'[daemons'[p].of])
        <3>1. /\ daemons'[p].of = daemons[p].of /\ daemons'[p].at = daemons[p].at
              /\ daemons'[p].due = due(p) /\ daemons'[p].blind = blind(p)
              /\ daemons'[p].watching = daemons[p].watching /\ daemons'[p].held = daemons[p].held
              /\ daemons'[p].cfg = daemons[p].cfg /\ daemons'[p].prev = daemons[p].prev
              /\ daemons'[p].told = daemons[p].told
            BY <1>0, <2>1 DEF Daemon
        <3>2. daemons[p].of \in Installs /\ Follows(daemons[p], file[daemons[p].of])
            BY <1>0 DEF Daemon, ConfigInv
        <3>3. CASE daemons[p].of # i
            <4>1. due(p) = daemons[p].due /\ blind(p) = daemons[p].blind
                BY <1>0, <3>3 DEF Daemon
            <4>2. file'[daemons[p].of] = file[daemons[p].of]
                BY <2>2, <3>2, <3>3
            <4> HIDE DEF due, blind, d
            <4> QED BY <3>1, <3>2, <4>1, <4>2 DEF Follows
        <3>4. CASE daemons[p].of = i
            <4>1. due(p) <=> daemons[p].due \/ daemons[p].watching
                BY <3>4
            <4>2. ~blind(p) => ~daemons[p].blind /\ daemons[p].at \notin Before
                BY <3>4 DEF Before
            <4> HIDE DEF due, blind, d
            <4> QED BY <3>1, <3>2, <4>1, <4>2 DEF Follows
        <3> QED BY <3>3, <3>4
    <2> QED BY <2>1, <2>3 DEF ConfigInv
<1>4. CASE UNCHANGED <<daemons, file>>
    BY <1>4 DEF ConfigInv, Pids
<1>5. ASSUME NEW i \in Installs, Supervise(i) \/ Boot(i) \/ HandStart(i)
      PROVE  ConfigInv'
    BY <1>2, <1>4, <1>5 DEF Supervise, Respawn, StayDown, RestartJob, Boot, HandStart, Start, unitRest
<1>6. CASE Kick
    <2>1. UNCHANGED file
        BY <1>6 DEF Kick
    <2>2. UNCHANGED daemons \/ StopUnit(command.of)
        BY <1>6 DEF Kick
    <2>3. CASE UNCHANGED daemons
        BY <1>4, <2>1, <2>3
    <2>4. CASE UnitOf(command.of) # 0 /\ Live(UnitOf(command.of)) /\ Term(UnitOf(command.of))
        <3> DEFINE p == UnitOf(command.of)
        <3>1. p \in Pids
            <4>1. command.of \in Installs
                BY <1>6 DEF Kick, Asking, DaemonTyped
            <4> QED BY <2>4, <4>1 DEF UnitOf, DaemonTyped
        <3>2. Follows(daemons'[p], file[daemons[p].of])
            BY <2>4, <3>1, TermFollows DEF ConfigInv
        <3>3. Moves(p)
            BY <2>4, <3>1, IsTerm DEF Kind, GoesOn, TakesClaim, Exits1, Dies
        <3> QED BY <1>a, <2>1, <3>1, <3>2, <3>3
    <2> QED BY <2>2, <2>3, <2>4 DEF StopUnit
<1>7. ASSUME Ongoing, ~Kick PROVE UNCHANGED <<daemons, file>>
    BY <1>7 DEF Ongoing, RestartBegins, ReadOld, Poll, Conclude, UpdateBegins, UpdateLooks,
                EnsureBegins, EnsurePolls, StatusFetches, StatusReads, askVars
<1>8. ASSUME NEW i \in Installs, NEW name \in {"restart", "update", "ensure", "status"}, Ask(i, name)
      PROVE  UNCHANGED <<daemons, file>>
    BY <1>8 DEF Ask
<1>9. CASE EndpointTurns
    BY <1>4, <1>9 DEF EndpointTurns
<1> QED BY <1>1, <1>3, <1>4, <1>5, <1>6, <1>7, <1>8, <1>9 DEF DaemonNext

-----------------------------------------------------------------------------
(* The commands.                                                           *)

\* Whoever is past its worker claim is the one the lock names.
LEMMA OnlyTheHolder ==
    ASSUME DaemonTyped, ClaimsInv, NEW i \in Installs, ~Starting(i),
           NEW p \in Pids, Live(p), daemons[p].of = i
    PROVE  p = WorkerOf(i)
<1>1. daemons[p] \in Daemon /\ p # 0
    BY Processes
<1>2. daemons[p].at \in {"tree", "queue"} \cup Working
    BY <1>1 DEF Starting, Live, Daemon, Ats, Before, Working
<1>3. claims[Worker(i)] = p
    BY <1>2 DEF ClaimsInv
<1> QED BY <1>1, <1>3 DEF WorkerOf, Holder

LEMMA TheHolderIs ==
    ASSUME DaemonTyped, ClaimsInv, NEW i \in Installs, WorkerOf(i) # 0
    PROVE  WorkerOf(i) \in Pids /\ Live(WorkerOf(i)) /\ daemons[WorkerOf(i)].of = i
<1>1. claims[Worker(i)] # 0 /\ Live(claims[Worker(i)]) /\ WorkerOf(i) = claims[Worker(i)]
    BY DEF WorkerOf, Holder
<1> QED BY <1>1, WorkerIs DEF ClaimsInv

\* The processes go on while the command keeps what it has noted.
LEMMA NotesStand ==
    ASSUME DaemonTyped, CommandInv, Older, UNCHANGED installed, command' \in Command,
           command'.name = command.name, command'.of = command.of, command'.old = command.old,
           command'.count = command.count, command'.starting = command.starting,
           command'.late = command.late, command'.verdict = command.verdict,
           command'.pid = command.pid,
           command'.at = command.at \/ {command.at, command'.at} \subseteq Counting
    PROVE  CommandInv'
<1> DEFINE n == Cardinality(Pids)
           m == Cardinality(Pids')
<1>0. command.count \in Nat /\ n \in Nat /\ m \in Nat /\ Pids' = 1 .. m
    <2>1. command.count \in Nat
        BY DEF DaemonTyped, Command
    <2>2. n \in 0 .. MaxPids /\ m \in 0 .. MaxPids /\ Pids' = 1 .. m /\ MaxPids \in Nat
        BY Processes, DaemonAssumption DEF Older
    <2> QED BY <2>1, <2>2
<1>a. command.count <= n
    BY DEF CommandInv
<1>b. n <= m /\ \A p \in Pids' : p <= n => p \in Pids
    BY <1>0 DEF Older
<1> HIDE DEF n, m
<1>1. command'.count <= m
    BY <1>0, <1>a, <1>b
\* Whoever is new came after the count.
<1>2. \A p \in Pids' : p <= command.count => p \in Pids
    BY <1>0, <1>a, <1>b
<1>3. ASSUME command.name \in {"restart", "update"}, command.at \in Counting, ~command.starting
      PROVE  \A p \in Pids' : p <= command.count /\ daemons'[p].of = command.of /\ Live(p)' => p = command.old
    BY <1>2, <1>3 DEF CommandInv, Older
<1>4. ASSUME command.name = "update", command.at \in Counting
      PROVE  \A p \in Pids' : p > command.count => daemons'[p].code = installed
    BY <1>4 DEF CommandInv, Older
<1>5. command.at \notin {"done", "look", "old"} \/ command'.at = command.at
    BY DEF Counting
<1>6. VerdictsAreTrue'
    <2>1. SUFFICES ASSUME command'.at = "done" PROVE VerdictsAreTrue'
        BY DEF VerdictsAreTrue
    <2>2. command.at = "done"
        BY <2>1 DEF Counting
    <2>3. VerdictsAreTrue
        BY DEF CommandInv
    <2>4. ASSUME command.verdict = "restarted", ~command.starting
          PROVE  command.pid > command.count /\ (command.name = "update" => daemons'[command.pid].code = installed)
        BY <2>2, <2>3, <2>4 DEF VerdictsAreTrue, CommandInv, Older
    <2>5. ASSUME command.name = "update", command.verdict = "not running", ~command.starting,
                 NEW p \in Pids', Live(p)', daemons'[p].of = command.of
          PROVE  daemons'[p].code = installed
        BY <2>2, <2>3, <2>5 DEF VerdictsAreTrue, Older
    <2> QED BY <2>2, <2>3, <2>4, <2>5 DEF VerdictsAreTrue
<1>7. command'.at = "done" /\ command'.verdict = "restarted" => command'.pid \in Pids'
    <2>1. SUFFICES ASSUME command'.at = "done", command.verdict = "restarted" PROVE command.pid \in Pids'
        OBVIOUS
    <2>2. command.at = "done"
        BY <2>1 DEF Counting
    <2>3. command.pid \in Pids
        BY <2>1, <2>2 DEF CommandInv
    <2> QED BY <2>3 DEF Older
<1>8. ASSUME command.name = "update", command'.at \in {"look", "old"} \cup Counting PROVE installed = 1
    <2>1. command.at \in {"look", "old"} \cup Counting
        BY <1>8 DEF Counting
    <2> QED BY <1>8, <2>1 DEF CommandInv
<1>9. command'.at \in Counting => command.at \in Counting
    OBVIOUS
<1> QED BY <1>1, <1>3, <1>4, <1>6, <1>7, <1>8, <1>9 DEF CommandInv, m

\* It is at a place where nothing is noted yet.
LEMMA NothingNoted ==
    ASSUME DaemonTyped, CommandInv, UNCHANGED daemons, command'.count = command.count,
           command'.at # "done",
           command'.at \notin Counting \/ command'.name \notin {"restart", "update"},
           command'.name = "update" /\ command'.at \in {"look", "old"} => installed' = 1
    PROVE  CommandInv'
<1>1. VerdictsAreTrue'
    BY DEF VerdictsAreTrue
<1>2. command'.count <= Cardinality(Pids')
    BY DEF CommandInv, Pids
<1> QED BY <1>1, <1>2 DEF CommandInv

\* It ends with a verdict nothing is claimed of.
LEMMA PlainVerdict ==
    ASSUME DaemonTyped, CommandInv, UNCHANGED daemons, command'.count = command.count,
           command'.at = "done",
           \/ command'.verdict \notin {"restarted", "still running", "not running"}
           \/ command'.verdict = "not running" /\ command'.name # "update"
    PROVE  CommandInv'
<1>1. VerdictsAreTrue'
    BY DEF VerdictsAreTrue
<1>2. command'.count <= Cardinality(Pids')
    BY DEF CommandInv, Pids
<1> QED BY <1>1, <1>2 DEF CommandInv, Counting

LEMMA CommandKept == DaemonTyped /\ ClaimsInv /\ CommandInv /\ DaemonNext => CommandInv'
<1> SUFFICES ASSUME DaemonTyped, ClaimsInv, CommandInv, DaemonNext PROVE CommandInv'
    OBVIOUS
<1>0. /\ command \in Command /\ (command.at # "idle" => command.of \in Installs)
      /\ command' \in Command /\ Older
    BY CommandTyped, StepsAreOlder DEF DaemonTyped
<1>c. command \in Command
    BY <1>0
<1>n. Cardinality(Pids) \in Nat /\ Pids = 1 .. Cardinality(Pids)
    BY Processes
<1>w. ASSUME command.at # "idle", WorkerOf(command.of) # 0
      PROVE  /\ WorkerOf(command.of) \in Pids /\ Live(WorkerOf(command.of))
             /\ daemons[WorkerOf(command.of)].of = command.of
    BY <1>0, <1>w, TheHolderIs
\* The command waits while the others go on.
<1>1. CASE UNCHANGED <<command, installed>>
    BY <1>0, <1>1, NotesStand
\* It goes on to a place where nothing is noted.
<1>x. ASSUME UNCHANGED <<daemons, installed>>, NEW to \in {"old", "lock"}, Next1(to),
             command.name = "update" => installed = 1
      PROVE  CommandInv'
    <2>1. command'.at = to /\ command'.count = command.count /\ command'.name = command.name
        BY <1>c, <1>x DEF Next1, Command
    <2> QED BY <1>x, <2>1, NothingNoted DEF Counting
\* It ends with a verdict nothing is claimed of.
<1>v. ASSUME UNCHANGED daemons, NEW v, NEW p, Verdict(v, p),
             v \notin {"restarted", "still running", "not running"} \/ (v = "not running" /\ command.name # "update")
      PROVE  CommandInv'
    <2>1. command'.at = "done" /\ command'.count = command.count /\ command'.name = command.name
          /\ command'.verdict = v
        BY <1>c, <1>v DEF Verdict, Command
    <2> QED BY <1>v, <2>1, PlainVerdict
<1>2. ASSUME NEW i \in Installs, NEW name \in {"restart", "update", "ensure", "status"}, Ask(i, name)
      PROVE  CommandInv'
    <2>1. command'.at = "begin" /\ command'.count = command.count /\ UNCHANGED daemons
        BY <1>c, <1>2 DEF Ask, Command
    <2> QED BY <2>1, NothingNoted DEF Counting
<1>3. CASE RestartBegins
    <2>1. UNCHANGED <<daemons, installed>> /\ command.name = "restart"
        BY <1>3 DEF RestartBegins, Asking, askVars
    <2> QED BY <1>3, <1>v, <1>x, <2>1 DEF RestartBegins
<1>4. CASE ReadOld
    <2> DEFINE st == Starting(command.of)
    <2>1. /\ command' = [command EXCEPT !.at = "kick", !.old = WorkerOf(command.of),
                                        !.count = Cardinality(Pids), !.starting = st]
          /\ UNCHANGED <<daemons, installed>> /\ command.name \in {"restart", "update"} /\ command.at = "old"
        BY <1>4 DEF ReadOld, Asking, askVars
    <2> HIDE DEF st
    <2>2. /\ command'.at = "kick" /\ command'.old = WorkerOf(command.of)
          /\ command'.count = Cardinality(Pids) /\ command'.starting = st
          /\ command'.name = command.name /\ command'.of = command.of
        BY <1>c, <2>1 DEF Command
    <2>3. ASSUME ~st, NEW p \in Pids, daemons[p].of = command.of, Live(p)
          PROVE  p = WorkerOf(command.of)
        BY <1>0, <2>1, <2>3, OnlyTheHolder DEF st
    <2>4. Pids' = Pids /\ (\A p \in Pids : Live(p)' <=> Live(p))
        BY <2>1 DEF Pids, Live
    <2>5. \A p \in Pids' : ~(p > Cardinality(Pids))
        BY <1>n, <2>4
    <2>6. command'.count <= Cardinality(Pids')
        BY <1>n, <2>2, <2>4
    <2>7. command'.name = "update" => installed' = 1
        BY <2>1, <2>2 DEF CommandInv
    <2>8. VerdictsAreTrue'
        BY <2>2 DEF VerdictsAreTrue
    <2>9. ~command'.starting =>
            \A p \in Pids' : p <= command'.count /\ daemons'[p].of = command'.of /\ Live(p)' => p = command'.old
        BY <2>1, <2>2, <2>3, <2>4
    <2>10. \A p \in Pids' : ~(p > command'.count)
        BY <2>2, <2>5
    <2> QED BY <2>2, <2>6, <2>7, <2>8, <2>9, <2>10 DEF CommandInv
<1>5. CASE Kick
    <2>1. /\ command.at = "kick" /\ UNCHANGED installed
          /\ \E kick \in BOOLEAN : command' = [command EXCEPT !.at = "poll", !.kick = kick]
        BY <1>5 DEF Kick, Asking
    <2>2. /\ command'.name = command.name /\ command'.of = command.of /\ command'.old = command.old
          /\ command'.count = command.count /\ command'.starting = command.starting
          /\ command'.late = command.late /\ command'.verdict = command.verdict
          /\ command'.pid = command.pid /\ command'.at = "poll"
        BY <1>c, <2>1 DEF Command
    <2>3. {command.at, command'.at} \subseteq Counting
        BY <2>1, <2>2 DEF Counting
    <2> QED BY <1>0, <2>1, <2>2, <2>3, NotesStand
<1>6. CASE Poll
    <2> DEFINE now == WorkerOf(command.of)
    <2>0. command.name \in {"restart", "update"} /\ command.at = "poll" /\ UNCHANGED <<daemons, installed>>
        BY <1>6 DEF Poll, Asking, askVars
    <2>1. CASE Next1("conclude")
        <3>1. /\ command'.name = command.name /\ command'.of = command.of /\ command'.old = command.old
              /\ command'.count = command.count /\ command'.starting = command.starting
              /\ command'.late = command.late /\ command'.verdict = command.verdict
              /\ command'.pid = command.pid /\ command'.at = "conclude"
            BY <1>c, <2>1 DEF Next1, Command
        <3>2. {command.at, command'.at} \subseteq Counting
            BY <2>0, <3>1 DEF Counting
        <3> QED BY <1>0, <2>0, <3>1, <3>2, NotesStand
    <2>2. CASE now # 0 /\ now # command.old /\ Verdict("restarted", now)
        <3>1. /\ command'.name = command.name /\ command'.of = command.of /\ command'.count = command.count
              /\ command'.starting = command.starting /\ command'.verdict = "restarted"
              /\ command'.pid = now /\ command'.at = "done"
            BY <1>c, <2>2 DEF Verdict, Command
        <3>2. now \in Pids /\ Live(now) /\ daemons[now].of = command.of
            BY <1>w, <2>0, <2>2
        <3>3. ~command.starting => now > command.count
            <4>1. ~command.starting => ~(now <= command.count)
                BY <2>0, <2>2, <3>2 DEF CommandInv, Counting
            <4>2. command.count \in Nat
                BY <1>c DEF Command
            <4> HIDE DEF now
            <4>3. now \in Nat
                BY <1>n, <3>2
            <4> QED BY <4>1, <4>2, <4>3
        <3>4. command.name = "update" /\ now > command.count => daemons[now].code = installed
            BY <2>0, <3>2 DEF CommandInv, Counting
        <3> HIDE DEF now
        <3>5. VerdictsAreTrue'
            BY <2>0, <3>1, <3>3, <3>4 DEF VerdictsAreTrue
        <3>6. command'.count <= Cardinality(Pids') /\ command'.pid \in Pids'
            BY <2>0, <3>1, <3>2 DEF CommandInv, Pids
        <3> QED BY <3>1, <3>5, <3>6 DEF CommandInv, Counting
    <2> QED BY <1>6, <2>1, <2>2 DEF Poll, Changed
<1>7. CASE Conclude
    <2>0. UNCHANGED daemons
        BY <1>7 DEF Conclude, askVars
    <2>1. CASE Verdict("no change", 0) \/ Verdict("down", 0)
        BY <1>v, <2>0, <2>1
    <2>2. CASE ~(Verdict("no change", 0) \/ Verdict("down", 0))
        <3> DEFINE fresh == WorkerOf(command.of) # command.old
        <3>1. command' = [command EXCEPT !.at = "done", !.verdict = "still running",
                                         !.pid = WorkerOf(command.of), !.late = fresh]
            BY <1>7, <2>2 DEF Conclude
        <3>2. /\ command'.count = command.count /\ command'.verdict = "still running"
              /\ command'.pid = WorkerOf(command.of) /\ command'.at = "done" /\ command'.old = command.old
              /\ command'.late = fresh
            <4> HIDE DEF fresh
            <4> QED BY <1>c, <3>1 DEF Command
        <3>3. VerdictsAreTrue'
            BY <3>2 DEF VerdictsAreTrue
        <3>4. command'.count <= Cardinality(Pids')
            BY <2>0, <3>2 DEF CommandInv, Pids
        <3> HIDE DEF fresh
        <3> QED BY <3>2, <3>3, <3>4 DEF CommandInv, Counting
    <2> QED BY <2>1, <2>2
<1>8. CASE UpdateBegins
    <2>0. UNCHANGED daemons /\ command.name = "update"
        BY <1>8 DEF UpdateBegins, Asking
    <2>1. CASE Verdict("nothing to do", 0)
        BY <1>v, <2>0, <2>1
    <2>2. CASE installed' = 1 /\ Next1("look")
        <3>1. command'.at = "look" /\ command'.count = command.count
            BY <1>c, <2>2 DEF Next1, Command
        <3> QED BY <2>0, <2>2, <3>1, NothingNoted DEF Counting
    <2> QED BY <1>8, <2>1, <2>2 DEF UpdateBegins
<1>9. CASE UpdateLooks
    <2>0. UNCHANGED <<daemons, installed>> /\ command.name = "update" /\ command.at = "look" /\ installed = 1
        BY <1>9 DEF UpdateLooks, Asking, askVars, CommandInv
    <2>1. CASE Verdict("manual", WorkerOf(command.of))
        BY <1>v, <2>0, <2>1
    <2>2. CASE Next1("old")
        BY <1>x, <2>0, <2>2
    <2>3. CASE WorkerOf(command.of) = 0
        <3> DEFINE st == Starting(command.of)
        <3>1. command' = [command EXCEPT !.at = "done", !.verdict = "not running", !.starting = st]
            BY <1>9, <2>3 DEF UpdateLooks
        <3> HIDE DEF st
        <3>2. /\ command'.at = "done" /\ command'.verdict = "not running" /\ command'.starting = st
              /\ command'.of = command.of /\ command'.count = command.count /\ command'.name = command.name
            BY <1>c, <3>1 DEF Command
        <3>3. ASSUME ~st, NEW p \in Pids, Live(p), daemons[p].of = command.of PROVE FALSE
            <4>1. p = 0
                BY <1>0, <2>0, <2>3, <3>3, OnlyTheHolder DEF st
            <4> QED BY <1>n, <3>3, <4>1
        <3>4. Pids' = Pids /\ (\A p \in Pids : Live(p)' <=> Live(p))
            BY <2>0 DEF Pids, Live
        <3>5. VerdictsAreTrue'
            BY <2>0, <3>2, <3>3, <3>4 DEF VerdictsAreTrue
        <3>6. command'.count <= Cardinality(Pids')
            BY <3>2, <3>4 DEF CommandInv
        <3> QED BY <3>2, <3>5, <3>6 DEF CommandInv, Counting
    <2> QED BY <1>9, <2>1, <2>2, <2>3 DEF UpdateLooks
<1>10. CASE EnsureBegins
    <2>0. UNCHANGED <<daemons, installed>> /\ command.name = "ensure"
        BY <1>10 DEF EnsureBegins, Asking, askVars
    <2>1. CASE Next1("kick")
        <3>1. command'.at = "kick" /\ command'.count = command.count /\ command'.name = command.name
            BY <1>c, <2>1 DEF Next1, Command
        <3> QED BY <2>0, <3>1, NothingNoted
    <2>2. CASE ~Next1("kick")
        BY <1>10, <1>v, <2>0, <2>2 DEF EnsureBegins
    <2> QED BY <2>1, <2>2
<1>11. CASE EnsurePolls
    BY <1>11, <1>v DEF EnsurePolls, askVars
<1>12. CASE StatusFetches
    <2>1. UNCHANGED <<daemons, installed>> /\ command.name = "status"
        BY <1>12 DEF StatusFetches, Asking, askVars
    <2> QED BY <1>12, <1>v, <1>x, <2>1 DEF StatusFetches
<1>13. CASE StatusReads
    <2>1. UNCHANGED <<daemons, installed>> /\ command.name = "status"
        BY <1>13 DEF StatusReads, Asking, askVars
    <2> QED BY <1>13, <1>v, <2>1 DEF StatusReads
<1>14. ASSUME NEW p \in Pids, Advance(p) \/ TakeTicket(p) \/ Signal(p) \/ Kill(p) \/ Reload(p)
       PROVE  UNCHANGED <<command, installed>>
    BY <1>14 DEF Advance, Load, Auth, ClaimWorker, ClaimTree, ClaimQueue, Claim, WatchConfig, Setup,
                 WaitForEndpoint, EndTicket, LeaveLoop, Close, TakeTicket, Signal, Kill, Reload,
                 startVars
<1>15. ASSUME NEW i \in Installs, Supervise(i) \/ Boot(i) \/ HandStart(i) \/ EditConfig(i)
       PROVE  UNCHANGED <<command, installed>>
    BY <1>15 DEF Supervise, Respawn, StayDown, RestartJob, Boot, HandStart, EditConfig, unitRest
<1>16. CASE EndpointTurns
    BY <1>1, <1>16 DEF EndpointTurns
<1> QED BY <1>1, <1>2, <1>3, <1>4, <1>5, <1>6, <1>7, <1>8, <1>9, <1>10, <1>11, <1>12, <1>13,
           <1>14, <1>15, <1>16 DEF DaemonNext, Ongoing

-----------------------------------------------------------------------------
(* The invariant of the daemons, and what it says.                         *)

LEMMA DaemonInvInit == DaemonInit => DaemonInv
<1> SUFFICES ASSUME DaemonInit PROVE DaemonInv
    OBVIOUS
<1>1. Pids = {} /\ Cardinality(Pids) = 0
    BY FS_EmptySet DEF DaemonInit, Pids
<1>2. DaemonTyped
    <2>1. daemons \in [1 .. 0 -> Daemon] /\ 0 \in 0 .. MaxPids
        BY DaemonAssumption DEF DaemonInit
    <2>2. Zero \in Config
        BY DEF Zero, Config
    <2>3. claims \in [Pidfiles -> Pids \cup {0}]
        BY DEF DaemonInit
    <2>4. units \in [Installs -> [pid : Pids \cup {0}, job : {"none", "restart"}]]
        BY DEF DaemonInit
    <2>5. file \in [Installs -> [ok : BOOLEAN, value : Config]]
        BY <2>2 DEF DaemonInit
    <2>6. spare \in Spare
        BY DaemonAssumption DEF DaemonInit, Spare
    <2>7. NoCommand \in Command /\ NoCommand.at = "idle"
        BY DEF NoCommand, Command
    <2>8. installed \in {0, 1} /\ endpoint \in BOOLEAN /\ command = NoCommand
        BY DEF DaemonInit
    <2> QED BY <2>1, <2>3, <2>4, <2>5, <2>6, <2>7, <2>8 DEF DaemonTyped
<1>3. ClaimsInv
    <2>1. \A i \in Installs : claims[Worker(i)] = 0
        BY NamesDiffer DEF DaemonInit
    <2> QED BY <1>1, <2>1 DEF ClaimsInv
<1>4. ConfigInv
    BY <1>1 DEF ConfigInv
<1>5. CommandInv
    BY <1>1 DEF CommandInv, VerdictsAreTrue, DaemonInit, NoCommand, Counting
<1> QED BY <1>2, <1>3, <1>4, <1>5 DEF DaemonInv

LEMMA DaemonInvSteps == DaemonInv /\ DaemonNext => DaemonInv'
BY DaemonIsTyped, ClaimsKept, ConfigKept, CommandKept DEF DaemonInv

LEMMA DaemonInvStutters == DaemonInv /\ UNCHANGED daemonVars => DaemonInv'
<1> SUFFICES ASSUME DaemonInv, UNCHANGED daemonVars PROVE DaemonInv'
    OBVIOUS
<1>1. Pids' = Pids /\ Pidfiles' = Pidfiles /\ (\A p \in Pids : Live(p)' <=> Live(p))
      /\ \A i \in Installs : Tree(i)' = Tree(i) /\ Queue(i)' = Queue(i)
    BY DEF daemonVars, Pids, Pidfiles, Live, Claimed, Tree, Queue, Worker
<1>2. DaemonTyped'
    BY <1>1 DEF DaemonInv, DaemonTyped, daemonVars
<1>3. ClaimsInv'
    <2>1. daemons' = daemons /\ claims' = claims /\ ClaimsInv
        BY DEF DaemonInv, daemonVars
    <2>2. \A i \in Installs : Worker(i)' = Worker(i)
        BY DEF Worker
    <2>3. \A p \in Pids : daemons[p].of \in Installs
        BY Processes DEF DaemonInv, Daemon
    <2> QED BY <1>1, <2>1, <2>2, <2>3 DEF ClaimsInv
<1>4. ConfigInv'
    BY <1>1 DEF DaemonInv, ConfigInv, daemonVars
<1>5. VerdictsAreTrue'
    BY <1>1 DEF DaemonInv, CommandInv, VerdictsAreTrue, daemonVars
<1>6. CommandInv'
    BY <1>1, <1>5 DEF DaemonInv, CommandInv, daemonVars
<1> QED BY <1>2, <1>3, <1>4, <1>6 DEF DaemonInv

LEMMA ClaimsFollowFromInv == DaemonTyped /\ ClaimsInv => ClaimsFollow /\ OneDaemonPerRoot
<1> SUFFICES ASSUME DaemonTyped, ClaimsInv PROVE ClaimsFollow /\ OneDaemonPerRoot
    OBVIOUS
<1>1. \A p \in Pids : daemons[p].at \in Working => \A n \in Claimed(daemons[p].of) : claims[n] = p
    BY DEF ClaimsInv, Claimed
<1>2. ClaimsFollow
    BY <1>1 DEF ClaimsFollow, ClaimsInv
<1>3. OneDaemonPerRoot
    BY <1>1 DEF OneDaemonPerRoot
<1> QED BY <1>2, <1>3

LEMMA DaemonTypesFromInv == DaemonTyped => DaemonTypeOK
<1> SUFFICES ASSUME DaemonTyped PROVE DaemonTypeOK
    OBVIOUS
<1>1. \A n \in Pidfiles : claims[n] \in 0 .. MaxPids
    <2>1. Pids = 1 .. Cardinality(Pids) /\ Cardinality(Pids) \in 0 .. MaxPids /\ MaxPids \in Nat
        BY Processes, DaemonAssumption
    <2>2. \A n \in Pidfiles : claims[n] \in Pids \cup {0}
        BY DEF DaemonTyped
    <2>3. Pids \cup {0} \subseteq 0 .. MaxPids
        BY <2>1
    <2> QED BY <2>2, <2>3
<1>2. \A p \in Pids : daemons[p].held \in Config /\ daemons[p].stops \in 0 .. 2
    BY Processes DEF Daemon
<1>3. \A i \in Installs : units[i].pid \in Pids \cup {0} /\ units[i].job \in {"none", "restart"}
    BY DEF DaemonTyped
<1> QED BY <1>1, <1>2, <1>3 DEF DaemonTypeOK

LEMMA ConfigFollowsFromInv == DaemonTyped /\ ConfigInv => ConfigFollows
<1> SUFFICES ASSUME DaemonTyped, ConfigInv, NEW p \in Pids,
                    daemons[p].watching, ~daemons[p].due, ~daemons[p].blind, file[daemons[p].of].ok
    PROVE  /\ daemons[p].held = file[daemons[p].of].value
           /\ file[daemons[p].of].value.frozen # daemons[p].cfg.frozen => daemons[p].told
    BY DEF ConfigFollows
<1> QED BY DEF ConfigInv, Follows

-----------------------------------------------------------------------------
(* The door of one ticket.                                                 *)

USE TicketDoorAssumption

\* The ticket a is at work and not judged.
AtWork(a) == job.of = a /\ job.at \in {"check", "lint"}
InQueue(a) == inboxed = a \/ a \in beside \/ AtWork(a)

\* The sentinel is of the one who took it, alive or dead.
InSlot == {"slot", "clear", "leave"}
SlotInv ==
    /\ \A a \in Authors : hand[a].at \in InSlot => ~hard /\ sentinel = a
    /\ sentinel # 0 => hand[sentinel].at \in InSlot \cup {"dead"}

\* A text is placed once and is then in one place.
TextInv ==
    \A a \in Authors :
        /\ InQueue(a) => Placed(a)
        /\ hand[a].at \in {"start", "written", "slot", "clear", "taken"} => ~Placed(a)
        /\ a \in beside => inboxed # a
        /\ AtWork(a) => a \notin beside /\ inboxed # a

\* What came under the name after the look was requeued; and who found the name
\* taken found the text of another there.
LookInv ==
    \A a \in Authors :
        /\ HandAt(a, "clear") /\ inboxed # 0 => judged[inboxed] = "again"
        /\ HandAt(a, "leave") /\ ~Placed(a) => \E b \in Authors \ {a} : Placed(b)

PlaceInv == SlotInv /\ TextInv /\ LookInv /\ PlacedStays /\ TakenByAnother

\* What the worker refuses a ticket for: by its own check, or by the lint.
RefusedByCheck ==
    \/ RepoErrors # {} \/ paper.beyond
    \/ job.branch = "exact" /\ ~paper.amends
    \/ job.branch = Unread /\ paper.amends
PassedCheck ==
    /\ RepoErrors = {} /\ ~paper.beyond
    /\ ~(job.branch = Unread /\ paper.amends)
    /\ job.branch = "exact" /\ ~paper.amends => job.again
LintRefuses ==
    IF paper.lint THEN LintErrors(job.labels)
    ELSE IF TornPatch THEN {} ELSE PatchAmends

JobInv ==
    /\ job.at = "none" <=> job.of = 0
    /\ job.at \in Judged => judged[job.of] = job.at
    /\ job.at \in {"check", "lint", "refused"} => HasPath
    /\ job.at = "lint" => PassedCheck
    /\ job.at = "runs" => IF HasPath THEN PassedCheck /\ LintRefuses = {} ELSE job.branch = Unread
    /\ job.at = "refused" => RefusedByCheck \/ LintRefuses # {}

\* The watchlist as the dry run, and the command, found it.
RouteInv ==
    ~github.rewatched =>
        /\ dry.route = "issue" => paper.bot /\ Watched
        /\ \A a \in Authors : HandAt(a, "notWatched") => ~(paper.bot /\ Watched)

TicketInv == TicketDoorTypeOK /\ PlaceInv /\ JobInv /\ RouteInv

-----------------------------------------------------------------------------
LEMMA TicketInvInit == TicketDoorInit => TicketInv
<1> SUFFICES ASSUME TicketDoorInit PROVE TicketInv
    OBVIOUS
<1> USE DEF TicketDoorInit, NothingPlaced, NoHand, NoJob, NoDry
<1>0. doorTurns \in 0 .. MaxTurns
    OBVIOUS
<1>1. TicketDoorTypeOK
    <2>1. hand \in [Authors -> [at : HandSteps, won : BOOLEAN]] /\ judged \in [Authors -> Judged \cup {"none", "again"}]
        BY DEF HandSteps, Judged
    <2>2. dry \in [at : {"idle", "branch", "labels", "ended"}, route : {"inbox", "issue"},
                    branch : Branches \cup {Unread}, labels : LabelLists \cup {Unread}]
        OBVIOUS
    <2>3. job \in [of : Authors \cup {0}, at : Judged \cup {"none", "check", "lint"}, again : BOOLEAN,
                    branch : Branches \cup {Unread}, labels : LabelLists \cup {Unread}]
        OBVIOUS
    <2>4. github \in [branch : Branches, label : BOOLEAN, watched : BOOLEAN, rewatched : BOOLEAN]
        OBVIOUS
    <2> QED BY <1>0, <2>1, <2>2, <2>3, <2>4 DEF TicketDoorTypeOK
<1>2. PlaceInv
    BY DEF PlaceInv, SlotInv, TextInv, LookInv, PlacedStays, TakenByAnother, InQueue, AtWork, InSlot,
           Placed, HandAt
<1>3. JobInv /\ RouteInv
    BY DEF JobInv, RouteInv, Judged, HandAt
<1> QED BY <1>1, <1>2, <1>3 DEF TicketInv

LEMMA HandTyped ==
    ASSUME TicketDoorTypeOK, NEW a \in Authors, NEW l \in HandSteps, HandTo(a, l)
    PROVE  /\ hand' \in [Authors -> [at : HandSteps, won : BOOLEAN]]
           /\ hand'[a].at = l /\ hand'[a].won = hand[a].won
           /\ \A b \in Authors \ {a} : hand'[b] = hand[b]
BY DEF TicketDoorTypeOK, HandTo

LEMMA PlaceTyped ==
    ASSUME TicketDoorTypeOK, NEW a \in Authors, NEW l \in HandSteps, Place(a, l)
    PROVE  /\ hand' \in [Authors -> [at : HandSteps, won : BOOLEAN]]
           /\ hand'[a].at = l /\ hand'[a].won
           /\ \A b \in Authors \ {a} : hand'[b] = hand[b]
           /\ inboxed' = a
BY DEF TicketDoorTypeOK, Place

LEMMA SubmitTyped ==
    ASSUME TicketDoorTypeOK, NEW a \in Authors, SubmitStep(a)
    PROVE  TicketDoorTypeOK'
<1> USE DEF SubmitStep
<1>0. UNCHANGED <<paper, hard, job, judged, labelCache, dry, github>>
    BY DEF jobVars
<1>t. ASSUME hand' \in [Authors -> [at : HandSteps, won : BOOLEAN]],
             inboxed' \in Authors \cup {0}, sentinel' \in Authors \cup {0},
             beside' = beside, overlaid' \subseteq Authors, doorTurns' \in 0 .. MaxTurns
      PROVE  TicketDoorTypeOK'
    BY <1>0, <1>t DEF TicketDoorTypeOK
<1>u. ASSUME Turn PROVE doorTurns' \in 0 .. MaxTurns
    BY <1>u DEF Turn, TicketDoorTypeOK
<1>1. CASE WriteText(a)
    <2>1. (IF Unreadable THEN "refused" ELSE "written") \in HandSteps
        BY DEF HandSteps
    <2> QED BY <1>1, <1>t, <2>1, HandTyped DEF WriteText, LeavesPlace, TicketDoorTypeOK
<1>2. CASE LinkText(a)
    <2>1. CASE Place(a, "placed")
        <3>1. "placed" \in HandSteps
            BY DEF HandSteps
        <3> QED BY <1>2, <1>t, <2>1, <3>1, PlaceTyped DEF LinkText, TicketDoorTypeOK
    <2>2. CASE HandTo(a, "taken") /\ UNCHANGED inboxed
        <3>1. "taken" \in HandSteps
            BY DEF HandSteps
        <3> QED BY <1>2, <1>t, <2>2, <3>1, HandTyped DEF LinkText, TicketDoorTypeOK
    <2> QED BY <1>2, <2>1, <2>2 DEF LinkText
<1>3. CASE TakeSlot(a)
    <2>1. "slot" \in HandSteps /\ "taken" \in HandSteps
        BY DEF HandSteps
    <2> QED BY <1>3, <1>t, <2>1, HandTyped DEF TakeSlot, TicketDoorTypeOK
<1>4. CASE CheckSlot(a)
    <2>1. (IF inboxed = 0 THEN "clear" ELSE "leave") \in HandSteps
        BY DEF HandSteps
    <2> QED BY <1>4, <1>t, <2>1, HandTyped DEF CheckSlot, LeavesPlace, TicketDoorTypeOK
<1>5. CASE RenameText(a)
    <2>1. "leave" \in HandSteps
        BY DEF HandSteps
    <2> QED BY <1>5, <1>t, <2>1, PlaceTyped DEF RenameText, TicketDoorTypeOK
<1>6. CASE LeaveSlot(a)
    <2>1. (IF Placed(a) THEN "placed" ELSE "taken") \in HandSteps
        BY DEF HandSteps
    <2> QED BY <1>6, <1>t, <2>1, HandTyped DEF LeaveSlot, TicketDoorTypeOK
<1>7. CASE PlacementFails(a) \/ HandDies(a)
    <2>1. "refused" \in HandSteps /\ "dead" \in HandSteps
        BY DEF HandSteps
    <2> QED BY <1>7, <1>t, <1>u, <2>1, HandTyped DEF PlacementFails, HandDies, LeavesPlace, TicketDoorTypeOK
<1>8. CASE ParkAsIssue(a)
    <2>1. {"notWatched", "issue", "unsure"} \subseteq HandSteps
        BY DEF HandSteps
    <2> QED BY <1>8, <1>t, <1>u, <2>1, HandTyped DEF ParkAsIssue, LeavesPlace, TicketDoorTypeOK
<1> QED BY <1>1, <1>2, <1>3, <1>4, <1>5, <1>6, <1>7, <1>8 DEF SubmitStep

JobType == [of : Authors \cup {0}, at : Judged \cup {"none", "check", "lint"}, again : BOOLEAN,
            branch : Branches \cup {Unread}, labels : LabelLists \cup {Unread}]

\* What each step of the worker makes of its job.
LEMMA TextClaimed ==
    ASSUME TicketDoorTypeOK, NEW a \in Authors, ClaimText(a)
    PROVE  /\ job' \in JobType /\ job'.of = a /\ job'.at = IF HasPath THEN "check" ELSE "runs"
           /\ job'.branch = Unread
           /\ judged' \in [Authors -> Judged \cup {"none", "again"}]
           /\ judged'[a] = IF HasPath THEN judged[a] ELSE "runs"
           /\ \A b \in Authors \ {a} : judged'[b] = judged[b]
<1>1. judged' = IF HasPath THEN judged ELSE [judged EXCEPT ![a] = "runs"]
    BY DEF ClaimText
<1>2. "runs" \in Judged
    BY DEF Judged
<1>3. judged \in [Authors -> Judged \cup {"none", "again"}]
    BY DEF TicketDoorTypeOK
<1>4. /\ judged' \in [Authors -> Judged \cup {"none", "again"}]
      /\ judged'[a] = IF HasPath THEN judged[a] ELSE "runs"
      /\ \A b \in Authors \ {a} : judged'[b] = judged[b]
    BY <1>1, <1>2, <1>3
<1>5. (judged[a] = "again") \in BOOLEAN
    OBVIOUS
<1>6. PICK again \in BOOLEAN : job' = [NoJob EXCEPT !.of = a, !.again = again,
                                                  !.at = IF HasPath THEN "check" ELSE "runs"]
    BY <1>5 DEF ClaimText
<1>7. job'.at = (IF HasPath THEN "check" ELSE "runs") /\ job'.of = a /\ job'.branch = Unread
    BY <1>6 DEF NoJob
<1>8. job' \in JobType
    BY <1>2, <1>6 DEF NoJob, JobType
<1> QED BY <1>4, <1>7, <1>8

LEMMA JobJudged ==
    ASSUME TicketDoorTypeOK, NEW a \in Authors, NEW as \in Judged, NEW r \in JobType, JudgeText(a, as, r)
    PROVE  /\ job' \in JobType /\ job'.of = r.of /\ job'.at = as /\ job'.again = r.again
           /\ job'.branch = r.branch /\ job'.labels = r.labels
           /\ judged' \in [Authors -> Judged \cup {"none", "again"}]
           /\ judged'[a] = as
           /\ \A b \in Authors \ {a} : judged'[b] = judged[b]
BY DEF JudgeText, JobType, TicketDoorTypeOK

LEMMA JobReads ==
    ASSUME TicketDoorTypeOK, NEW b \in Branches \cup {Unread}
    PROVE  [job EXCEPT !.branch = b] \in JobType
BY DEF JobType, TicketDoorTypeOK

LEMMA JobLists ==
    ASSUME TicketDoorTypeOK, NEW l \in LabelLists \cup {Unread}
    PROVE  [job EXCEPT !.labels = l] \in JobType
BY DEF JobType, TicketDoorTypeOK
LEMMA WorkerTyped ==
    ASSUME TicketDoorTypeOK, NEW a \in Authors, WorkerStep(a)
    PROVE  TicketDoorTypeOK'
<1>0. UNCHANGED <<paper, hard, dry, github>>
    BY DEF WorkerStep
<1>t. ASSUME UNCHANGED <<hand, sentinel, overlaid>>, inboxed' \in Authors \cup {0}, beside' \subseteq Authors,
             job' \in JobType, judged' \in [Authors -> Judged \cup {"none", "again"}],
             labelCache' \in LabelLists \cup {Unread}, doorTurns' \in 0 .. MaxTurns
      PROVE  TicketDoorTypeOK'
    BY <1>0, <1>t DEF TicketDoorTypeOK, JobType
<1>u. Turn \/ UNCHANGED doorTurns => doorTurns' \in 0 .. MaxTurns
    BY DEF Turn, TicketDoorTypeOK
<1>1. CASE ClaimText(a)
    <2>1. inboxed' \in Authors \cup {0} /\ beside' \subseteq Authors /\ UNCHANGED <<hand, sentinel, overlaid, labelCache, doorTurns>>
        BY <1>1 DEF ClaimText, TicketDoorTypeOK
    <2> QED BY <1>1, <1>t, <1>u, <2>1, TextClaimed DEF TicketDoorTypeOK
<1>2. CASE CheckRepo(a)
    <2>1. PICK branch \in (IF paper.fork THEN Branches ELSE {github.branch}) \cup {Unread} :
              /\ Turn \/ UNCHANGED doorTurns
              /\ \/ JudgeText(a, "refused", [job EXCEPT !.branch = branch])
                 \/ /\ job' = [[job EXCEPT !.branch = branch] EXCEPT !.at = "lint"]
                    /\ UNCHANGED judged
        BY <1>2 DEF CheckRepo
    <2>2. branch \in Branches \cup {Unread}
        BY DEF TicketDoorTypeOK
    <2>3. UNCHANGED <<labelCache, hand, inboxed, sentinel, beside, overlaid>>
        BY <1>2 DEF CheckRepo, placeVars
    <2>4. job' \in JobType /\ judged' \in [Authors -> Judged \cup {"none", "again"}]
        <3>1. "refused" \in Judged
            BY DEF Judged
        <3>2. CASE JudgeText(a, "refused", [job EXCEPT !.branch = branch])
            BY <2>2, <3>1, <3>2, JobReads, JobJudged
        <3>3. CASE job' = [[job EXCEPT !.branch = branch] EXCEPT !.at = "lint"] /\ UNCHANGED judged
            <4>1. [job EXCEPT !.branch = branch] \in JobType
                BY <2>2, JobReads
            <4> QED BY <3>3, <4>1 DEF JobType, TicketDoorTypeOK
        <3> QED BY <2>1, <3>2, <3>3
    <2> QED BY <1>t, <1>u, <2>1, <2>3, <2>4 DEF TicketDoorTypeOK
<1>3. CASE LintText(a)
    <2>1. PICK labels \in (IF ~(paper.lint /\ paper.labels) THEN {Unread}
                           ELSE IF labelCache # Unread THEN {labelCache} ELSE {LabelsNow, Unread}) :
              /\ labelCache' = IF paper.lint /\ paper.labels THEN labels ELSE labelCache
              /\ Turn \/ UNCHANGED doorTurns
              /\ \E as \in {"runs", "refused"} : JudgeText(a, as, [job EXCEPT !.labels = labels])
        BY <1>3 DEF LintText
    <2>2. labels \in LabelLists \cup {Unread}
        BY <2>1 DEF TicketDoorTypeOK, LabelsNow, LabelLists
    <2>3. UNCHANGED <<hand, inboxed, sentinel, beside, overlaid>>
        BY <1>3 DEF LintText, placeVars
    <2>4. job' \in JobType /\ judged' \in [Authors -> Judged \cup {"none", "again"}]
        <3>1. PICK as \in Judged : JudgeText(a, as, [job EXCEPT !.labels = labels])
            BY <2>1 DEF Judged
        <3> QED BY <2>2, <3>1, JobLists, JobJudged
    <2>5. labelCache' \in LabelLists \cup {Unread}
        BY <2>1, <2>2 DEF TicketDoorTypeOK
    <2> QED BY <1>t, <1>u, <2>1, <2>3, <2>4, <2>5 DEF TicketDoorTypeOK
<1>4. CASE JobBack(a)
    <2>1. job' \in JobType
        BY <1>4 DEF JobBack, NoJob, JobType
    <2>2. judged' \in [Authors -> Judged \cup {"none", "again"}]
        BY <1>4 DEF JobBack, TicketDoorTypeOK
    <2>3. inboxed' \in Authors \cup {0} /\ beside' \subseteq Authors
        BY <1>4 DEF JobBack, TicketDoorTypeOK
    <2> QED BY <1>4, <1>t, <1>u, <2>1, <2>2, <2>3 DEF JobBack, TicketDoorTypeOK
<1> QED BY <1>1, <1>2, <1>3, <1>4 DEF WorkerStep

LEMMA DryTyped == TicketDoorTypeOK /\ DryStep => TicketDoorTypeOK'
<1> SUFFICES ASSUME TicketDoorTypeOK, DryStep PROVE TicketDoorTypeOK'
    OBVIOUS
<1>0. UNCHANGED <<paper, hard, hand, inboxed, sentinel, beside, overlaid, job, judged, labelCache, github>>
    BY DEF DryStep, placeVars, jobVars
<1> DEFINE D == [at : {"idle", "branch", "labels", "ended"}, route : {"inbox", "issue"},
                 branch : Branches \cup {Unread}, labels : LabelLists \cup {Unread}]
<1>1. dry \in D /\ github.branch \in Branches /\ LabelsNow \in LabelLists
    BY DEF TicketDoorTypeOK, LabelsNow, LabelLists
<1> HIDE DEF D
<1>2. dry' \in D /\ doorTurns' \in 0 .. MaxTurns
    <2>u. Turn \/ UNCHANGED doorTurns => doorTurns' \in 0 .. MaxTurns
        BY DEF Turn, TicketDoorTypeOK
    <2>1. CASE DryRoute
        <3>1. PICK step \in {"branch", "labels"}, route \in {"inbox", "issue"} :
                  dry' = [dry EXCEPT !.at = step, !.route = route]
            BY <2>1 DEF DryRoute
        <3> QED BY <1>1, <2>1, <2>u, <3>1 DEF DryRoute, D
    <2>2. CASE DryBranch
        BY <1>1, <2>2, <2>u DEF DryBranch, D
    <2>3. CASE DryLabels
        BY <1>1, <2>3, <2>u DEF DryLabels, D
    <2> QED BY <2>1, <2>2, <2>3 DEF DryStep
<1> QED BY <1>0, <1>2 DEF TicketDoorTypeOK, D

LEMMA TicketTyped == TicketDoorTypeOK /\ TicketDoorNext => TicketDoorTypeOK'
<1> SUFFICES ASSUME TicketDoorTypeOK, TicketDoorNext PROVE TicketDoorTypeOK'
    OBVIOUS
<1>1. CASE CacheExpires
    BY <1>1 DEF CacheExpires, TicketDoorTypeOK, placeVars
<1>2. CASE GithubTurns
    <2>1. UNCHANGED <<paper, hard, hand, inboxed, sentinel, beside, overlaid, job, judged, labelCache, dry>>
        BY <1>2 DEF GithubTurns, placeVars, jobVars
    <2>2. doorTurns' \in 0 .. MaxTurns
        BY <1>2 DEF GithubTurns, Turn, TicketDoorTypeOK
    <2>3. github' \in [branch : Branches, label : BOOLEAN, watched : BOOLEAN, rewatched : BOOLEAN]
        BY <1>2, ZenonT(60) DEF GithubTurns, TicketDoorTypeOK
    <2> QED BY <2>1, <2>2, <2>3 DEF TicketDoorTypeOK
<1> QED BY <1>1, <1>2, DryTyped, SubmitTyped, WorkerTyped DEF TicketDoorNext

LEMMA HandMoves ==
    ASSUME TicketDoorTypeOK, PlaceInv, NEW a \in Authors, NEW l \in HandSteps, HandTo(a, l),
           UNCHANGED <<hard, inboxed, sentinel, beside, overlaid, job, judged>>,
           l \in InSlot \cup {"dead"} \/ hand[a].at \notin InSlot \cup {"dead"},
           l \in InSlot => hand[a].at \in InSlot,
           l = "clear" => inboxed = 0 /\ ~Placed(a),
           l = "leave" => Placed(a) \/ \E b \in Authors \ {a} : Placed(b),
           l \in {"start", "written", "slot"} => ~Placed(a),
           l = "taken" => ~Placed(a) /\ \E b \in Authors \ {a} : Placed(b) \/ hand[b].at \in {"slot", "clear", "leave", "dead"}
    PROVE  PlaceInv'
<1>1. /\ hand' \in [Authors -> [at : HandSteps, won : BOOLEAN]]
      /\ hand'[a].at = l /\ hand'[a].won = hand[a].won
      /\ \A b \in Authors \ {a} : hand'[b] = hand[b]
    BY HandTyped
<1>2. \A b \in Authors : Placed(b)' <=> Placed(b)
    BY <1>1 DEF Placed
<1>3. SlotInv'
    BY <1>1 DEF PlaceInv, SlotInv, InSlot, TicketDoorTypeOK
<1>4. TextInv'
    BY <1>1, <1>2 DEF PlaceInv, TextInv, InQueue, AtWork
<1>5. LookInv'
    BY <1>1, <1>2 DEF PlaceInv, LookInv, HandAt
<1>6. PlacedStays'
    BY <1>2 DEF PlaceInv, PlacedStays
<1>7. TakenByAnother'
    <2> SUFFICES ASSUME NEW c \in Authors, hand'[c].at = "taken"
        PROVE  \E b \in Authors \ {c} : Placed(b)' \/ hand'[b].at \in {"slot", "clear", "leave", "dead"}
        BY DEF TakenByAnother, HandAt
    <2>1. CASE c = a
        BY <1>1, <1>2, <2>1
    <2>2. CASE c # a
        <3>1. PICK b \in Authors \ {c} : Placed(b) \/ hand[b].at \in {"slot", "clear", "leave", "dead"}
            BY <1>1, <2>2 DEF PlaceInv, TakenByAnother, HandAt
        <3>2. CASE b # a \/ Placed(b)
            BY <1>1, <1>2, <3>1, <3>2
        <3>3. CASE b = a /\ ~Placed(b)
            <4>1. l \in InSlot \cup {"dead"}
                BY <3>1, <3>3 DEF InSlot
            <4> QED BY <1>1, <3>3, <4>1 DEF InSlot
        <3> QED BY <3>2, <3>3
    <2> QED BY <2>1, <2>2
<1> QED BY <1>3, <1>4, <1>5, <1>6, <1>7 DEF PlaceInv

LEMMA SlotTaken ==
    ASSUME TicketDoorTypeOK, PlaceInv, NEW a \in Authors, TakeSlot(a), sentinel = 0,
           UNCHANGED <<hard, job, judged>>
    PROVE  PlaceInv'
<1>1. /\ hand' \in [Authors -> [at : HandSteps, won : BOOLEAN]]
      /\ hand'[a].at = "slot" /\ hand'[a].won = hand[a].won
      /\ \A b \in Authors \ {a} : hand'[b] = hand[b]
      /\ sentinel' = a /\ UNCHANGED <<inboxed, beside, overlaid>> /\ ~hard /\ hand[a].at = "written"
    <2>1. "slot" \in HandSteps
        BY DEF HandSteps
    <2> QED BY <2>1, HandTyped DEF TakeSlot, HandAt
<1>2. \A b \in Authors : Placed(b)' <=> Placed(b)
    BY <1>1 DEF Placed
<1>3. SlotInv'
    BY <1>1 DEF PlaceInv, SlotInv, InSlot, TicketDoorTypeOK
<1>4. TextInv'
    BY <1>1, <1>2 DEF PlaceInv, TextInv, InQueue, AtWork
<1>5. LookInv'
    BY <1>1, <1>2 DEF PlaceInv, LookInv, HandAt
<1>6. PlacedStays'
    BY <1>1, <1>2 DEF PlaceInv, PlacedStays
<1>7. TakenByAnother'
    <2> SUFFICES ASSUME NEW c \in Authors, hand'[c].at = "taken"
        PROVE  \E b \in Authors \ {c} : Placed(b)' \/ hand'[b].at \in {"slot", "clear", "leave", "dead"}
        BY DEF TakenByAnother, HandAt
    <2>1. c # a
        BY <1>1
    <2>2. PICK b \in Authors \ {c} : Placed(b) \/ hand[b].at \in {"slot", "clear", "leave", "dead"}
        BY <1>1, <2>1 DEF PlaceInv, TakenByAnother, HandAt
    <2> QED BY <1>1, <1>2, <2>2
<1> QED BY <1>3, <1>4, <1>5, <1>6, <1>7 DEF PlaceInv

LEMMA SlotLeft ==
    ASSUME TicketDoorTypeOK, PlaceInv, NEW a \in Authors, LeaveSlot(a), UNCHANGED <<hard, job, judged>>
    PROVE  PlaceInv'
<1>1. /\ hand' \in [Authors -> [at : HandSteps, won : BOOLEAN]]
      /\ hand'[a].at = (IF Placed(a) THEN "placed" ELSE "taken") /\ hand'[a].won = hand[a].won
      /\ \A b \in Authors \ {a} : hand'[b] = hand[b]
      /\ sentinel' = 0 /\ UNCHANGED <<inboxed, beside, overlaid>> /\ hand[a].at = "leave"
    <2>1. (IF Placed(a) THEN "placed" ELSE "taken") \in HandSteps
        BY DEF HandSteps
    <2> QED BY <2>1, HandTyped DEF LeaveSlot, HandAt
<1>2. \A b \in Authors : Placed(b)' <=> Placed(b)
    BY <1>1 DEF Placed
<1>s. \A b \in Authors : hand[b].at \in InSlot => b = a
    BY <1>1 DEF PlaceInv, SlotInv, InSlot
<1>3. SlotInv'
    BY <1>1, <1>s DEF PlaceInv, SlotInv, InSlot, TicketDoorTypeOK
<1>4. TextInv'
    BY <1>1, <1>2 DEF PlaceInv, TextInv, InQueue, AtWork
<1>5. LookInv'
    BY <1>1, <1>2 DEF PlaceInv, LookInv, HandAt
<1>6. PlacedStays'
    BY <1>1, <1>2 DEF PlaceInv, PlacedStays
<1>7. TakenByAnother'
    <2> SUFFICES ASSUME NEW c \in Authors, hand'[c].at = "taken"
        PROVE  \E b \in Authors \ {c} : Placed(b)' \/ hand'[b].at \in {"slot", "clear", "leave", "dead"}
        BY DEF TakenByAnother, HandAt
    <2>0. ~Placed(a) => \E b \in Authors \ {a} : Placed(b)
        BY <1>1 DEF PlaceInv, LookInv, HandAt
    <2>1. CASE c = a
        <3>1. ~Placed(a)
            BY <1>1, <2>1
        <3> QED BY <1>2, <2>0, <2>1, <3>1
    <2>2. CASE c # a
        <3>0. ~Placed(c)
            BY <1>1, <2>2 DEF PlaceInv, TextInv
        <3>1. PICK b \in Authors \ {c} : Placed(b) \/ hand[b].at \in {"slot", "clear", "leave", "dead"}
            BY <1>1, <2>2 DEF PlaceInv, TakenByAnother, HandAt
        <3>2. CASE b # a \/ Placed(b)
            BY <1>1, <1>2, <3>1, <3>2
        <3>3. CASE b = a /\ ~Placed(b)
            <4>1. PICK d \in Authors \ {a} : Placed(d)
                BY <2>0, <3>3
            <4> QED BY <1>2, <3>0, <4>1
        <3> QED BY <3>2, <3>3
    <2> QED BY <2>1, <2>2
<1> QED BY <1>3, <1>4, <1>5, <1>6, <1>7 DEF PlaceInv

\* A text comes under its name by a link where there is none, or by a rename.
LEMMA TextPlaced ==
    ASSUME TicketDoorTypeOK, PlaceInv, NEW a \in Authors, NEW l \in {"placed", "leave"}, Place(a, l),
           UNCHANGED <<hard, sentinel, beside, job, judged>>,
           \/ l = "placed" /\ hard /\ inboxed = 0 /\ HandAt(a, "written") /\ UNCHANGED overlaid
           \/ l = "leave" /\ HandAt(a, "clear") /\ overlaid' = overlaid \cup ({inboxed} \ {0})
    PROVE  PlaceInv'
<1>1. /\ hand' \in [Authors -> [at : HandSteps, won : BOOLEAN]]
      /\ hand'[a].at = l /\ hand'[a].won
      /\ \A b \in Authors \ {a} : hand'[b] = hand[b]
      /\ inboxed' = a
    <2>1. l \in HandSteps
        BY DEF HandSteps
    <2> QED BY <2>1, PlaceTyped
<1>2. Placed(a)' /\ \A b \in Authors \ {a} : Placed(b)' <=> Placed(b)
    BY <1>1 DEF Placed
<1>3. SlotInv'
    BY <1>1, SMTT(30) DEF PlaceInv, SlotInv, InSlot, TicketDoorTypeOK, HandAt
<1>n. ~Placed(a) /\ ~InQueue(a)
    BY DEF PlaceInv, TextInv, HandAt
<1>4. TextInv'
    BY <1>1, <1>2, <1>n DEF PlaceInv, TextInv, InQueue, AtWork
<1>5. LookInv'
    <2>1. \A b \in Authors : hand'[b].at # "clear"
        BY <1>1 DEF PlaceInv, SlotInv, InSlot, HandAt
    <2>2. ASSUME NEW b \in Authors, hand'[b].at = "leave", ~Placed(b)'
          PROVE  \E c \in Authors \ {b} : Placed(c)'
        BY <1>2, <2>2
    <2> QED BY <2>1, <2>2 DEF LookInv, HandAt
<1>6. PlacedStays'
    <2> SUFFICES ASSUME NEW c \in Authors, Placed(c)'
        PROVE  \/ inboxed' = c \/ c \in beside \/ job.of = c \/ judged[c] \in Judged
               \/ ~hard /\ c \in overlaid' /\ judged[c] = "again"
        BY DEF PlacedStays
    <2>1. CASE c = a
        BY <1>1, <2>1
    <2>2. CASE c # a
        <3>1. Placed(c) /\ overlaid \subseteq overlaid'
            BY <1>2, <2>2
        <3>2. CASE inboxed = c
            BY <3>2 DEF PlaceInv, SlotInv, LookInv, InSlot, HandAt, TicketDoorTypeOK
        <3> QED BY <3>1, <3>2 DEF PlaceInv, PlacedStays
    <2> QED BY <2>1, <2>2
<1>7. TakenByAnother'
    <2> SUFFICES ASSUME NEW c \in Authors, hand'[c].at = "taken"
        PROVE  \E b \in Authors \ {c} : Placed(b)' \/ hand'[b].at \in {"slot", "clear", "leave", "dead"}
        BY DEF TakenByAnother, HandAt
    <2>1. c # a
        BY <1>1
    <2> QED BY <1>2, <2>1
<1> QED BY <1>3, <1>4, <1>5, <1>6, <1>7 DEF PlaceInv

LEMMA SubmitPlaces ==
    ASSUME TicketDoorTypeOK, PlaceInv, NEW a \in Authors, SubmitStep(a)
    PROVE  PlaceInv'
<1>0. UNCHANGED <<hard, job, judged>>
    BY DEF SubmitStep, jobVars
<1>1. CASE WriteText(a)
    <2>1. (IF Unreadable THEN "refused" ELSE "written") \in HandSteps
        BY DEF HandSteps
    <2>2. HandTo(a, IF Unreadable THEN "refused" ELSE "written") /\ ~Placed(a) /\ hand[a].at = "start"
        BY <1>1 DEF WriteText, MayBegin, PlaceInv, TextInv, HandAt
    <2>3. UNCHANGED <<inboxed, sentinel, beside, overlaid>>
        BY <1>1 DEF WriteText, LeavesPlace
    <2> QED BY <1>0, <2>1, <2>2, <2>3, HandMoves DEF InSlot
<1>2. CASE LinkText(a)
    <2>1. CASE inboxed = 0 /\ Place(a, "placed")
        BY <1>0, <1>2, <2>1, TextPlaced DEF LinkText
    <2>2. CASE inboxed # 0 /\ HandTo(a, "taken") /\ UNCHANGED inboxed
        <3>1. "taken" \in HandSteps
            BY DEF HandSteps
        <3>2. ~Placed(a) /\ hand[a].at = "written" /\ UNCHANGED <<sentinel, beside, overlaid>>
            BY <1>2 DEF LinkText, PlaceInv, TextInv, HandAt
        <3>3. inboxed \in Authors /\ Placed(inboxed)
            BY <2>2 DEF PlaceInv, TextInv, InQueue, TicketDoorTypeOK
        <3> QED BY <1>0, <2>2, <3>1, <3>2, <3>3, HandMoves DEF InSlot
    <2> QED BY <1>2, <2>1, <2>2 DEF LinkText
<1>3. CASE TakeSlot(a)
    <2>1. CASE sentinel = 0
        BY <1>0, <1>3, <2>1, SlotTaken
    <2>2. CASE sentinel # 0
        <3>1. "taken" \in HandSteps
            BY DEF HandSteps
        <3>2. ~Placed(a) /\ hand[a].at = "written" /\ UNCHANGED <<inboxed, sentinel, beside, overlaid>> /\ HandTo(a, "taken")
            BY <1>3, <2>2 DEF TakeSlot, PlaceInv, TextInv, HandAt
        <3>3. sentinel \in Authors /\ hand[sentinel].at \in {"slot", "clear", "leave", "dead"}
            BY <2>2 DEF PlaceInv, SlotInv, InSlot, TicketDoorTypeOK
        <3> QED BY <1>0, <3>1, <3>2, <3>3, HandMoves DEF InSlot
    <2> QED BY <2>1, <2>2
<1>4. CASE CheckSlot(a)
    <2>1. (IF inboxed = 0 THEN "clear" ELSE "leave") \in HandSteps
        BY DEF HandSteps
    <2>2. /\ HandTo(a, IF inboxed = 0 THEN "clear" ELSE "leave") /\ ~Placed(a) /\ hand[a].at = "slot"
          /\ UNCHANGED <<inboxed, sentinel, beside, overlaid>>
        BY <1>4 DEF CheckSlot, LeavesPlace, PlaceInv, TextInv, HandAt
    <2>3. inboxed # 0 => inboxed \in Authors \ {a} /\ Placed(inboxed)
        BY <2>2 DEF PlaceInv, TextInv, InQueue, TicketDoorTypeOK
    <2> QED BY <1>0, <2>1, <2>2, <2>3, HandMoves DEF InSlot
<1>5. CASE RenameText(a)
    BY <1>0, <1>5, TextPlaced DEF RenameText
<1>6. CASE LeaveSlot(a)
    BY <1>0, <1>6, SlotLeft
<1>7. CASE PlacementFails(a)
    <2>1. "refused" \in HandSteps
        BY DEF HandSteps
    <2>2. HandTo(a, "refused") /\ hand[a].at = "written" /\ UNCHANGED <<inboxed, sentinel, beside, overlaid>>
        BY <1>7 DEF PlacementFails, LeavesPlace, HandAt
    <2> QED BY <1>0, <2>1, <2>2, HandMoves DEF InSlot
<1>8. CASE HandDies(a)
    <2>1. "dead" \in HandSteps
        BY DEF HandSteps
    <2>2. HandTo(a, "dead") /\ UNCHANGED <<inboxed, sentinel, beside, overlaid>>
        BY <1>8 DEF HandDies, LeavesPlace
    <2> QED BY <1>0, <2>1, <2>2, HandMoves DEF InSlot
<1>9. CASE ParkAsIssue(a)
    <2>1. {"notWatched", "issue", "unsure"} \subseteq HandSteps
        BY DEF HandSteps
    <2>2. PICK l \in {"notWatched", "issue", "unsure"} : HandTo(a, l)
        BY <1>9 DEF ParkAsIssue
    <2>3. hand[a].at = "start" /\ UNCHANGED <<inboxed, sentinel, beside, overlaid>>
        BY <1>9 DEF ParkAsIssue, MayBegin, LeavesPlace, HandAt
    <2> QED BY <1>0, <2>1, <2>2, <2>3, HandMoves DEF InSlot
<1> QED BY <1>1, <1>2, <1>3, <1>4, <1>5, <1>6, <1>7, <1>8, <1>9 DEF SubmitStep

-----------------------------------------------------------------------------
\* A text is claimed: it leaves its place in the queue.
LEMMA ClaimPlaces ==
    ASSUME TicketDoorTypeOK, PlaceInv, JobInv, NEW a \in Authors, ClaimText(a), UNCHANGED hard
    PROVE  PlaceInv'
<1>0. UNCHANGED <<hand, sentinel, overlaid>> /\ job.at \in Judged \cup {"none"}
    BY DEF ClaimText
<1>1. /\ job'.of = a /\ job'.at \in {"check", "runs"}
      /\ judged'[a] \in {judged[a], "runs"}
      /\ \A b \in Authors \ {a} : judged'[b] = judged[b]
    BY TextClaimed
<1>2. /\ inboxed' \in {inboxed, 0} /\ beside' \subseteq beside /\ InQueue(a)
      /\ inboxed' # a /\ a \notin beside'
      /\ \A b \in Authors \ {a} : (inboxed' = b <=> inboxed = b) /\ (b \in beside' <=> b \in beside)
    BY DEF ClaimText, PlaceInv, TextInv, InQueue
<1>3. SlotInv'
    BY <1>0 DEF PlaceInv, SlotInv, InSlot
<1>4. TextInv'
    BY <1>0, <1>1, <1>2 DEF PlaceInv, TextInv, InQueue, AtWork, Placed
<1>5. LookInv'
    BY <1>0, <1>1, <1>2 DEF PlaceInv, LookInv, HandAt, Placed, TicketDoorTypeOK
<1>6. PlacedStays'
    <2> SUFFICES ASSUME NEW c \in Authors, Placed(c)
        PROVE  \/ inboxed' = c \/ c \in beside' \/ job'.of = c \/ judged'[c] \in Judged
               \/ ~hard /\ c \in overlaid /\ judged'[c] = "again"
        BY <1>0 DEF PlacedStays, Placed
    <2>1. CASE c = a
        BY <1>1, <2>1
    <2>2. CASE c # a /\ job.of # c
        BY <1>1, <1>2, <2>2 DEF PlaceInv, PlacedStays
    <2>3. CASE c # a /\ job.of = c
        <3>1. CASE job.at \in Judged
            BY <1>1, <2>3, <3>1 DEF JobInv
        <3>2. CASE job.at = "none"
            BY <2>3, <3>2 DEF JobInv
        <3> QED BY <1>0, <3>1, <3>2
    <2> QED BY <2>1, <2>2, <2>3
<1>7. TakenByAnother'
    BY <1>0 DEF PlaceInv, TakenByAnother, HandAt, Placed
<1> QED BY <1>3, <1>4, <1>5, <1>6, <1>7 DEF PlaceInv

\* The worker has looked at the text it holds, and may have judged it.
LEMMA LookPlaces ==
    ASSUME TicketDoorTypeOK, PlaceInv, JobInv, NEW a \in Authors, AtWork(a),
           UNCHANGED <<hard, hand, inboxed, sentinel, beside, overlaid>>, job' \in JobType, job'.of = a,
           judged' \in [Authors -> Judged \cup {"none", "again"}],
           judged'[a] \in {judged[a]} \cup Judged, \A b \in Authors \ {a} : judged'[b] = judged[b]
    PROVE  PlaceInv'
<1>1. \A b \in Authors : AtWork(b)' => b = a
    BY DEF AtWork
<1>2. inboxed # a /\ a \notin beside /\ Placed(a) /\ \A b \in Authors : Placed(b)' <=> Placed(b)
    BY DEF PlaceInv, TextInv, InQueue, Placed
<1>3. SlotInv'
    BY DEF PlaceInv, SlotInv, InSlot
<1>4. TextInv'
    <2> SUFFICES ASSUME NEW c \in Authors
        PROVE  /\ InQueue(c)' => Placed(c)
               /\ hand[c].at \in {"start", "written", "slot", "clear", "taken"} => ~Placed(c)
               /\ c \in beside => inboxed # c
               /\ AtWork(c)' => c \notin beside /\ inboxed # c
        BY <1>2 DEF TextInv
    <2>1. InQueue(c)' => inboxed = c \/ c \in beside \/ c = a
        BY <1>1 DEF InQueue
    <2> QED BY <1>1, <1>2, <2>1 DEF PlaceInv, TextInv, InQueue
<1>5. LookInv'
    BY <1>2 DEF PlaceInv, LookInv, HandAt, TicketDoorTypeOK
<1>6. PlacedStays'
    <2> SUFFICES ASSUME NEW c \in Authors, Placed(c)
        PROVE  \/ inboxed = c \/ c \in beside \/ job'.of = c \/ judged'[c] \in Judged
               \/ ~hard /\ c \in overlaid /\ judged'[c] = "again"
        BY <1>2 DEF PlacedStays
    <2>1. CASE c = a
        BY <2>1
    <2>2. CASE c # a
        <3>1. job.of # c
            BY <2>2 DEF AtWork
        <3> QED BY <2>2, <3>1 DEF PlaceInv, PlacedStays
    <2> QED BY <2>1, <2>2
<1>7. TakenByAnother'
    BY <1>2 DEF PlaceInv, TakenByAnother, HandAt
<1> QED BY <1>3, <1>4, <1>5, <1>6, <1>7 DEF PlaceInv

LEMMA BackPlaces ==
    ASSUME TicketDoorTypeOK, PlaceInv, JobInv, NEW a \in Authors, JobBack(a), UNCHANGED hard
    PROVE  PlaceInv'
<1>0. UNCHANGED <<hand, sentinel, overlaid>> /\ AtWork(a)
    BY DEF JobBack, AtWork
<1>1. /\ job'.of = 0 /\ job'.at = "none" /\ judged'[a] = "again"
      /\ \A b \in Authors \ {a} : judged'[b] = judged[b]
    BY DEF JobBack, NoJob, TicketDoorTypeOK
<1>2. /\ inboxed' \in {inboxed, a} /\ beside' \in {beside, beside \cup {a}}
      /\ inboxed' = a <=> a \notin beside'
      /\ inboxed # 0 => inboxed' = inboxed
      /\ inboxed # a /\ a \notin beside
    BY <1>0 DEF JobBack, PlaceInv, TextInv
<1>p. Placed(a) /\ \A b \in Authors : Placed(b)' <=> Placed(b)
    BY <1>0 DEF PlaceInv, TextInv, InQueue, Placed
<1>3. SlotInv'
    BY <1>0 DEF PlaceInv, SlotInv, InSlot
<1>w. \A b \in Authors : ~AtWork(b)'
    BY <1>1 DEF AtWork
<1>4. TextInv'
    <2> SUFFICES ASSUME NEW c \in Authors
        PROVE  /\ InQueue(c)' => Placed(c)
               /\ hand[c].at \in {"start", "written", "slot", "clear", "taken"} => ~Placed(c)
               /\ c \in beside' => inboxed' # c
        BY <1>0, <1>p, <1>w DEF TextInv
    <2>1. InQueue(c)' => inboxed' = c \/ c \in beside'
        BY <1>w DEF InQueue
    <2> QED BY <1>0, <1>2, <1>p, <2>1 DEF PlaceInv, TextInv, InQueue, TicketDoorTypeOK
<1>5. LookInv'
    <2>1. ASSUME NEW b \in Authors, hand[b].at = "clear", inboxed' # 0 PROVE judged'[inboxed'] = "again"
        <3>1. CASE inboxed' = a
            BY <1>1, <3>1
        <3>2. CASE inboxed' # a
            BY <1>1, <1>2, <2>1, <3>2 DEF PlaceInv, LookInv, HandAt, TicketDoorTypeOK
        <3> QED BY <3>1, <3>2
    <2> QED BY <1>0, <1>p, <2>1 DEF PlaceInv, LookInv, HandAt
<1>6. PlacedStays'
    <2> SUFFICES ASSUME NEW c \in Authors, Placed(c)
        PROVE  \/ inboxed' = c \/ c \in beside' \/ job'.of = c \/ judged'[c] \in Judged
               \/ ~hard /\ c \in overlaid /\ judged'[c] = "again"
        BY <1>0, <1>p DEF PlacedStays
    <2>1. CASE c = a
        BY <1>2, <2>1
    <2>2. CASE c # a
        <3>1. job.of # c
            BY <1>0, <2>2 DEF AtWork
        <3>2. (inboxed = c => inboxed' = c) /\ (c \in beside => c \in beside')
            BY <1>2
        <3> QED BY <1>1, <2>2, <3>1, <3>2 DEF PlaceInv, PlacedStays
    <2> QED BY <2>1, <2>2
<1>7. TakenByAnother'
    BY <1>0, <1>p DEF PlaceInv, TakenByAnother, HandAt
<1> QED BY <1>3, <1>4, <1>5, <1>6, <1>7 DEF PlaceInv

-----------------------------------------------------------------------------
\* The two looks of the worker: what each reads, and what it makes of it.
LEMMA SameErrors ==
    ASSUME UNCHANGED paper
    PROVE  /\ RepoErrors' = RepoErrors /\ PatchAmends' = PatchAmends /\ TornPatch' = TornPatch
           /\ HasPath' = HasPath /\ \A l : LintErrors(l)' = LintErrors(l)
<1>1. RepoErrors' = RepoErrors
    BY Zenon DEF RepoErrors
<1>2. PatchAmends' = PatchAmends /\ TornPatch' = TornPatch /\ HasPath' = HasPath
    BY DEF PatchAmends, TornPatch, HasPath
<1>3. ASSUME NEW l PROVE LintErrors(l)' = LintErrors(l)
    BY <1>2 DEF LintErrors, VerificationMoves, StepsWithoutCommit, ForbiddenPhrases, PatchFlaws, PatchAmends, LabelsMissing, TornPatch
<1> QED BY <1>1, <1>2, <1>3

LEMMA Checked ==
    ASSUME TicketDoorTypeOK, NEW a \in Authors, CheckRepo(a), UNCHANGED paper
    PROVE  /\ job.of = a /\ job.at = "check" /\ job' \in JobType
           /\ job'.of = a /\ job'.labels = job.labels
           /\ \/ job'.at = "refused" /\ judged'[a] = "refused" /\ RefusedByCheck'
              \/ job'.at = "lint" /\ judged' = judged /\ PassedCheck'
           /\ judged' \in [Authors -> Judged \cup {"none", "again"}]
           /\ \A b \in Authors \ {a} : judged'[b] = judged[b]
<1>1. job.of = a /\ job.at = "check" /\ job \in JobType
    BY DEF CheckRepo, TicketDoorTypeOK, JobType
<1>2. PICK branch \in (IF paper.fork THEN Branches ELSE {github.branch}) \cup {Unread} :
          \/ /\ \/ RepoErrors # {} \/ paper.beyond
                \/ branch = "exact" /\ ~paper.amends
                \/ branch = Unread /\ paper.amends
             /\ JudgeText(a, "refused", [job EXCEPT !.branch = branch])
          \/ /\ RepoErrors = {} /\ ~paper.beyond /\ ~(branch = Unread /\ paper.amends)
             /\ branch = "exact" /\ ~paper.amends => job.again
             /\ job' = [[job EXCEPT !.branch = branch] EXCEPT !.at = "lint"]
             /\ judged' = judged
    BY DEF CheckRepo
<1>3. branch \in Branches \cup {Unread}
    BY DEF TicketDoorTypeOK
<1>4. PICK looked \in JobType :
          /\ looked = [job EXCEPT !.branch = branch] /\ looked.of = a
          /\ looked.branch = branch /\ looked.labels = job.labels /\ looked.again = job.again
    BY <1>1, <1>3, JobReads DEF JobType
<1>5. RepoErrors' = RepoErrors
    BY SameErrors
<1>6. CASE /\ \/ RepoErrors # {} \/ paper.beyond
              \/ branch = "exact" /\ ~paper.amends
              \/ branch = Unread /\ paper.amends
           /\ JudgeText(a, "refused", [job EXCEPT !.branch = branch])
    <2>1. "refused" \in Judged
        BY DEF Judged
    <2>2. /\ job' \in JobType /\ job'.of = a /\ job'.at = "refused" /\ job'.branch = branch /\ job'.labels = job.labels
          /\ judged' \in [Authors -> Judged \cup {"none", "again"}] /\ judged'[a] = "refused"
          /\ \A b \in Authors \ {a} : judged'[b] = judged[b]
        <3>1. JudgeText(a, "refused", looked)
            BY <1>4, <1>6
        <3>2. /\ job' \in JobType /\ job'.of = looked.of /\ job'.at = "refused"
              /\ job'.branch = looked.branch /\ job'.labels = looked.labels
              /\ judged' \in [Authors -> Judged \cup {"none", "again"}] /\ judged'[a] = "refused"
              /\ \A b \in Authors \ {a} : judged'[b] = judged[b]
            BY <2>1, <3>1, JobJudged
        <3> QED BY <1>4, <3>2
    <2>3. RefusedByCheck'
        BY <1>5, <1>6, <2>2 DEF RefusedByCheck
    <2> QED BY <1>1, <2>2, <2>3
<1>7. CASE /\ RepoErrors = {} /\ ~paper.beyond /\ ~(branch = Unread /\ paper.amends)
           /\ branch = "exact" /\ ~paper.amends => job.again
           /\ job' = [[job EXCEPT !.branch = branch] EXCEPT !.at = "lint"]
           /\ judged' = judged
    <2>1. /\ job' \in JobType /\ job'.of = a /\ job'.at = "lint" /\ job'.branch = branch /\ job'.labels = job.labels
          /\ job'.again = job.again
        BY <1>4, <1>7 DEF JobType
    <2>2. judged' \in [Authors -> Judged \cup {"none", "again"}]
        BY <1>7 DEF TicketDoorTypeOK
    <2>3. PassedCheck'
        BY <1>5, <1>7, <2>1 DEF PassedCheck
    <2> QED BY <1>1, <1>7, <2>1, <2>2, <2>3
<1> QED BY <1>2, <1>6, <1>7

LEMMA Linted ==
    ASSUME TicketDoorTypeOK, NEW a \in Authors, LintText(a), UNCHANGED paper
    PROVE  /\ job.of = a /\ job.at = "lint" /\ job' \in JobType
           /\ job'.of = a /\ job'.again = job.again /\ job'.branch = job.branch
           /\ \/ job'.at = "runs" /\ LintRefuses' = {}
              \/ job'.at = "refused" /\ LintRefuses' # {}
           /\ judged'[a] = job'.at
           /\ judged' \in [Authors -> Judged \cup {"none", "again"}]
           /\ \A b \in Authors \ {a} : judged'[b] = judged[b]
<1>1. job.of = a /\ job.at = "lint" /\ job \in JobType
    BY DEF LintText, TicketDoorTypeOK, JobType
<1>2. PICK labels \in (IF ~(paper.lint /\ paper.labels) THEN {Unread}
                       ELSE IF labelCache # Unread THEN {labelCache} ELSE {LabelsNow, Unread}) :
          LET errors == IF paper.lint THEN LintErrors(labels) ELSE IF TornPatch THEN {} ELSE PatchAmends
          IN  JudgeText(a, IF errors = {} THEN "runs" ELSE "refused", [job EXCEPT !.labels = labels])
    BY DEF LintText
<1>3. labels \in LabelLists \cup {Unread}
    BY DEF TicketDoorTypeOK, LabelsNow, LabelLists
<1>4. PICK looked \in JobType :
          /\ looked = [job EXCEPT !.labels = labels] /\ looked.of = a
          /\ looked.branch = job.branch /\ looked.labels = labels /\ looked.again = job.again
    BY <1>1, <1>3, JobLists DEF JobType
<1> DEFINE errors == IF paper.lint THEN LintErrors(labels) ELSE IF TornPatch THEN {} ELSE PatchAmends
<1>5. PICK as \in Judged : /\ as = IF errors = {} THEN "runs" ELSE "refused"
                           /\ JudgeText(a, as, [job EXCEPT !.labels = labels])
    BY <1>2 DEF Judged
<1>6. /\ job' \in JobType /\ job'.of = a /\ job'.at = as /\ job'.branch = job.branch
      /\ job'.labels = labels /\ job'.again = job.again
      /\ judged' \in [Authors -> Judged \cup {"none", "again"}] /\ judged'[a] = as
      /\ \A b \in Authors \ {a} : judged'[b] = judged[b]
    <2>1. JudgeText(a, as, looked)
        BY <1>4, <1>5
    <2>2. /\ job' \in JobType /\ job'.of = looked.of /\ job'.at = as
          /\ job'.branch = looked.branch /\ job'.labels = looked.labels /\ job'.again = looked.again
          /\ judged' \in [Authors -> Judged \cup {"none", "again"}] /\ judged'[a] = as
          /\ \A b \in Authors \ {a} : judged'[b] = judged[b]
        BY <2>1, JobJudged, ZenonT(60)
    <2> QED BY <1>4, <2>2
<1>7. LintRefuses' = errors
    BY <1>6, SameErrors DEF LintRefuses
<1> HIDE DEF errors
<1> QED BY <1>1, <1>5, <1>6, <1>7

LEMMA WorkerPlaces ==
    ASSUME TicketDoorTypeOK, PlaceInv, JobInv, NEW a \in Authors, WorkerStep(a)
    PROVE  PlaceInv'
<1>0. UNCHANGED <<paper, hard>>
    BY DEF WorkerStep
<1>1. CASE ClaimText(a)
    BY <1>0, <1>1, ClaimPlaces
<1>2. CASE CheckRepo(a)
    <2>1. UNCHANGED <<hand, inboxed, sentinel, beside, overlaid>>
        BY <1>2 DEF CheckRepo, placeVars
    <2> QED BY <1>0, <1>2, <2>1, Checked, LookPlaces DEF AtWork, Judged
<1>3. CASE LintText(a)
    <2>1. UNCHANGED <<hand, inboxed, sentinel, beside, overlaid>>
        BY <1>3 DEF LintText, placeVars
    <2> QED BY <1>0, <1>3, <2>1, Linted, LookPlaces DEF AtWork, Judged
<1>4. CASE JobBack(a)
    BY <1>0, <1>4, BackPlaces
<1> QED BY <1>1, <1>2, <1>3, <1>4 DEF WorkerStep

LEMMA WorkerJob ==
    ASSUME TicketDoorTypeOK, JobInv, NEW a \in Authors, WorkerStep(a)
    PROVE  JobInv'
<1>0. UNCHANGED paper /\ HasPath' = HasPath
    BY SameErrors DEF WorkerStep
<1>1. CASE ClaimText(a)
    BY <1>0, <1>1, TextClaimed DEF JobInv, Judged, PassedCheck
<1>2. CASE CheckRepo(a)
    <2>1. HasPath
        BY <1>0, <1>2, Checked DEF JobInv
    <2> QED BY <1>0, <1>2, <2>1, Checked DEF JobInv, Judged
<1>3. CASE LintText(a)
    <2>1. HasPath /\ PassedCheck
        BY <1>0, <1>3, Linted DEF JobInv
    <2>2. PassedCheck'
        BY <1>0, <1>3, <2>1, Linted, SameErrors DEF PassedCheck
    <2> QED BY <1>0, <1>3, <2>1, <2>2, Linted DEF JobInv, Judged
<1>4. CASE JobBack(a)
    BY <1>4 DEF JobBack, NoJob, JobInv, Judged
<1> QED BY <1>1, <1>2, <1>3, <1>4 DEF WorkerStep

LEMMA OtherJob ==
    ASSUME JobInv, UNCHANGED <<paper, job, judged>>
    PROVE  JobInv'
<1>1. LintRefuses' = LintRefuses
    BY SameErrors DEF LintRefuses
<1>2. (RefusedByCheck' <=> RefusedByCheck) /\ (PassedCheck' <=> PassedCheck)
    BY SameErrors DEF RefusedByCheck, PassedCheck
<1> QED BY <1>1, <1>2, SameErrors DEF JobInv

LEMMA RouteKept ==
    ASSUME TicketDoorTypeOK, RouteInv, TicketDoorNext
    PROVE  RouteInv'
<1>0. UNCHANGED paper
    BY DEF TicketDoorNext, DryStep, CacheExpires, GithubTurns, SubmitStep, WorkerStep
<1>1. CASE DryStep
    <2>1. UNCHANGED <<github, hand>>
        BY <1>1 DEF DryStep, placeVars
    <2>2. dry'.route = "issue" => dry.route = "issue" \/ (paper.bot /\ Watched)
        <3>1. dry \in [at : {"idle", "branch", "labels", "ended"}, route : {"inbox", "issue"},
                       branch : Branches \cup {Unread}, labels : LabelLists \cup {Unread}]
            BY DEF TicketDoorTypeOK
        <3>2. CASE DryRoute
            BY <3>1, <3>2 DEF DryRoute
        <3>3. CASE DryBranch \/ DryLabels
            BY <3>1, <3>3 DEF DryBranch, DryLabels
        <3> QED BY <1>1, <3>2, <3>3 DEF DryStep
    <2> QED BY <1>0, <2>1, <2>2 DEF RouteInv, Watched, HasPath, HandAt
<1>2. CASE GithubTurns
    <2>1. UNCHANGED <<dry, hand>>
        BY <1>2 DEF GithubTurns, placeVars
    <2>2. ~github'.rewatched => ~github.rewatched /\ github'.watched = github.watched
        BY <1>2, ZenonT(60) DEF GithubTurns, TicketDoorTypeOK
    <2> QED BY <1>0, <2>1, <2>2 DEF RouteInv, Watched, HasPath, HandAt
<1>3. ASSUME NEW a \in Authors, SubmitStep(a) PROVE RouteInv'
    <2>0. UNCHANGED <<github, dry>>
        BY <1>3 DEF SubmitStep
    <2>1. ASSUME NEW b \in Authors, hand'[b].at = "notWatched"
          PROVE  hand[b].at = "notWatched" \/ ~(paper.bot /\ Watched)
        <3>1. CASE b # a
            <4>1. hand'[b] = hand[b]
                BY <1>3, <3>1 DEF SubmitStep, WriteText, LinkText, TakeSlot, CheckSlot, RenameText, LeaveSlot,
                       PlacementFails, HandDies, ParkAsIssue, HandTo, Place, TicketDoorTypeOK
            <4> QED BY <2>1, <4>1
        <3>2. CASE b = a /\ ~ParkAsIssue(a)
            BY <1>3, <2>1, <3>2 DEF SubmitStep, WriteText, LinkText, TakeSlot, CheckSlot, RenameText, LeaveSlot,
                   PlacementFails, HandDies, HandTo, Place, TicketDoorTypeOK
        <3>3. CASE b = a /\ ParkAsIssue(a)
            BY <2>1, <3>3 DEF ParkAsIssue, HandTo, TicketDoorTypeOK
        <3> QED BY <3>1, <3>2, <3>3
    <2> QED BY <1>0, <2>0, <2>1 DEF RouteInv, Watched, HasPath, HandAt
<1>4. CASE CacheExpires \/ \E a \in Authors : WorkerStep(a)
    <2>1. UNCHANGED <<github, dry, hand>>
        BY <1>4 DEF CacheExpires, WorkerStep, ClaimText, CheckRepo, LintText, JobBack, placeVars
    <2> QED BY <1>0, <2>1 DEF RouteInv, Watched, HasPath, HandAt
<1> QED BY <1>1, <1>2, <1>3, <1>4 DEF TicketDoorNext

LEMMA RestPlaces ==
    ASSUME PlaceInv, UNCHANGED <<hard, hand, inboxed, sentinel, beside, overlaid, job, judged>>
    PROVE  PlaceInv'
BY DEF PlaceInv, SlotInv, TextInv, LookInv, PlacedStays, TakenByAnother, InQueue, AtWork, Placed, HandAt

LEMMA TicketInvSteps == TicketInv /\ TicketDoorNext => TicketInv'
<1> SUFFICES ASSUME TicketInv, TicketDoorNext PROVE TicketInv'
    OBVIOUS
<1>1. TicketDoorTypeOK' /\ RouteInv'
    BY TicketTyped, RouteKept DEF TicketInv
<1>2. PlaceInv' /\ JobInv'
    <2>1. CASE DryStep \/ CacheExpires \/ GithubTurns
        <3>1. UNCHANGED <<paper, hard, hand, inboxed, sentinel, beside, overlaid, job, judged>>
            BY <2>1 DEF DryStep, CacheExpires, GithubTurns, placeVars, jobVars
        <3> QED BY <3>1, RestPlaces, OtherJob DEF TicketInv
    <2>2. ASSUME NEW a \in Authors, SubmitStep(a) PROVE PlaceInv' /\ JobInv'
        <3>1. UNCHANGED <<paper, job, judged>>
            BY <2>2 DEF SubmitStep, jobVars
        <3> QED BY <2>2, <3>1, SubmitPlaces, OtherJob DEF TicketInv
    <2>3. ASSUME NEW a \in Authors, WorkerStep(a) PROVE PlaceInv' /\ JobInv'
        BY <2>3, WorkerPlaces, WorkerJob DEF TicketInv
    <2> QED BY <2>1, <2>2, <2>3 DEF TicketDoorNext
<1> QED BY <1>1, <1>2 DEF TicketInv

LEMMA TicketInvStutters == TicketInv /\ UNCHANGED doorVars => TicketInv'
<1> SUFFICES ASSUME TicketInv, UNCHANGED doorVars PROVE TicketInv'
    OBVIOUS
<1>1. UNCHANGED <<paper, hard, hand, inboxed, sentinel, beside, overlaid, job, judged, labelCache, dry, github, doorTurns>>
    BY DEF doorVars, placeVars, jobVars
<1>2. TicketDoorTypeOK'
    BY <1>1 DEF TicketInv, TicketDoorTypeOK
<1>3. RouteInv'
    BY <1>1 DEF TicketInv, RouteInv, Watched, HasPath, HandAt
<1> QED BY <1>1, <1>2, <1>3, RestPlaces, OtherJob DEF TicketInv

LEMMA TicketInvSound == TicketInv => TicketDoorHolds
<1> SUFFICES ASSUME TicketInv PROVE DryRunForetells /\ RouteIsOpen
    BY DEF TicketInv, PlaceInv, TicketDoorHolds
<1>1. RouteIsOpen
    BY DEF TicketInv, RouteInv, RouteIsOpen, HandAt
<1>2. DryRunForetells
    <2> SUFFICES ASSUME dry.at = "ended", dry.route = "inbox", job.at \in Judged, job.branch = dry.branch,
                        paper.lint => job.labels = dry.labels
        PROVE  /\ job.at = "refused" /\ DryErrors = {} =>
                    paper.beyond \/ paper.fork \/ (paper.amends /\ job.branch = Unread)
               /\ job.at = "runs" => DryErrors \subseteq WorkerLenient
        BY DEF DryRunForetells
    <2>0. /\ dry.branch \in Branches \cup {Unread} /\ RepoErrors \subseteq DryErrors
          /\ LintErrors(dry.labels) \subseteq DryErrors
          /\ dry.branch \in {"exact", "sibling"} => "branch_exists" \in DryErrors
          /\ DryErrors \subseteq RepoErrors \cup LintErrors(dry.labels)
                 \cup {r \in {"branch_exists"} : dry.branch \in {"exact", "sibling"}}
        BY DEF TicketInv, TicketDoorTypeOK, DryErrors, BranchTaken
    <2>p. (IF TornPatch THEN {} ELSE PatchAmends) \subseteq LintErrors(dry.labels)
        BY DEF LintErrors
    <2>1. ASSUME job.at = "refused", DryErrors = {}
          PROVE  paper.beyond \/ paper.fork \/ (paper.amends /\ job.branch = Unread)
        <3>1. LintRefuses = {}
            BY <2>0, <2>1, <2>p DEF LintRefuses
        <3>2. RefusedByCheck
            BY <2>1, <3>1 DEF TicketInv, JobInv
        <3> QED BY <2>0, <2>1, <3>2 DEF RefusedByCheck
    <2>2. ASSUME job.at = "runs" PROVE DryErrors \subseteq WorkerLenient
        <3>1. CASE HasPath
            <4>1. PassedCheck /\ LintRefuses = {}
                BY <2>2, <3>1 DEF TicketInv, JobInv
            <4>2. RepoErrors = {}
                BY <4>1 DEF PassedCheck
            <4>3. LintErrors(dry.labels) \subseteq WorkerLenient
                <5>1. CASE paper.lint
                    BY <4>1, <5>1 DEF LintRefuses
                <5>2. CASE ~paper.lint
                    BY <4>1, <5>2 DEF LintRefuses, WorkerLenient, LintAlone
                <5> QED BY <5>1, <5>2
            <4>4. dry.branch \in {"exact", "sibling"} => "branch_exists" \in WorkerLenient
                BY <4>1 DEF PassedCheck, WorkerLenient
            <4> QED BY <2>0, <4>2, <4>3, <4>4
        <3>2. CASE ~HasPath
            <4>1. job.branch = Unread
                BY <2>2, <3>2 DEF TicketInv, JobInv
            <4>2. RepoErrors = {"repo_missing"}
                BY <3>2 DEF RepoErrors, HasPath
            <4>3. {"repo_missing"} \cup LintErrors(dry.labels) \subseteq WorkerLenient
                BY <3>2 DEF WorkerLenient
            <4> QED BY <2>0, <4>1, <4>2, <4>3 DEF Unread
        <3> QED BY <3>1, <3>2
    <2> QED BY <2>1, <2>2
<1> QED BY <1>1, <1>2

-----------------------------------------------------------------------------
(* The door of a plan.                                                     *)

USE PlanDoorAssumption

Disposing == {"find", "read", "mark", "move"}
FanningOut == {"done", "processing", "inbox", "failed"}

DoorTyped ==
    /\ PlanTypeOK
    /\ door \in [at : DoorSteps, rev : Rev0, todo : Seq(Tasks), loose : BOOLEAN, held : Rev0,
                 made : SUBSET Tasks, stranded : SUBSET Tasks, code : {0, 1}]

\* Every copy is of a revision.
CopiesAre ==
    /\ \A t \in Tasks : queued[t] # NoCopy => queued[t].rev \in Revs
    /\ \A t \in Tasks : \A c \in parked[t] : c.rev \in Revs
    /\ DoorAt("mark") => door.held \in Revs

\* A walk is over tasks of the revision it is about.
DoorWalks ==
    /\ door.at \in Disposing => /\ door.todo # <<>> /\ door.rev \in Revs /\ setRecord \in Revs
                                /\ ToSet(door.todo) \subseteq ToSet(Plans[setRecord])
    /\ door.at \in FanningOut => /\ door.todo # <<>> /\ door.rev \in Revs
                                 /\ ToSet(door.todo) \subseteq ToSet(Plans[door.rev])
    /\ DoorAt("record") => door.todo = <<>> /\ door.rev \in Revs
    /\ DoorAt("ended") /\ door.code = 0 => door.rev \in Revs

Present(t) ==
    \/ t \in finished \/ working[t] # {} \/ queued[t] # NoCopy
    \/ \E c \in parked[t] : c.mark = 0
\* Whatever the fan-out has passed is somewhere, or is known to be stranded.
FanInv ==
    door.at \in FanningOut \cup {"record"} =>
      \A t \in ToSet(Plans[door.rev]) \ ToSet(door.todo) :
          Present(t) \/ parked[t] # {} \/ t \in door.stranded

\* One copy of a task is at work, and no finished one.
OneAtWork ==
    planExcuses \cap {"torn", "revived", "retried"} = {} =>
      \A t \in Tasks : /\ working[t] # {} => t \notin finished
                       /\ \A r, s \in working[t] : r = s

QueuedAre(rev, tasks) == \A t \in Tasks : queued[t] # NoCopy => queued[t].rev = rev /\ t \in tasks
RecordInv ==
    planExcuses \cap {"cut", "retried", "requeued"} = {} =>
      /\ door.at \in {"idle", "ended"} =>
           QueuedAre(setRecord, IF setRecord = 0 THEN {} ELSE ToSet(Plans[setRecord]))
      /\ door.at \in Disposing => QueuedAre(setRecord, ToSet(door.todo))
      /\ DoorAt("mark") => door.held = setRecord
      /\ door.at \in FanningOut \cup {"record"} => QueuedAre(door.rev, ToSet(Plans[door.rev]))

PlanInv ==
    /\ DoorTyped /\ CopiesAre /\ DoorWalks /\ FanInv /\ SubmittedMeansQueued
    /\ OneAtWork /\ NoSecondTicket /\ RecordInv

-----------------------------------------------------------------------------
DoorRec == [at : DoorSteps, rev : Rev0, todo : Seq(Tasks), loose : BOOLEAN, held : Rev0,
            made : SUBSET Tasks, stranded : SUBSET Tasks, code : {0, 1}]

LEMMA PlansAre == /\ Revs \subseteq Rev0 /\ 0 \in Rev0 /\ 0 \notin Revs /\ \A r \in Revs : Plans[r] \in Seq(Tasks) /\ Plans[r] # <<>>
                  /\ \A r \in Revs : ToSet(Plans[r]) \subseteq Tasks
<1>1. Revs \subseteq Rev0 /\ 0 \in Rev0 /\ 0 \notin Revs
    BY DEF Rev0
<1>2. ASSUME NEW r \in Revs PROVE ToSet(Plans[r]) \subseteq Tasks
    BY DEF Tasks
<1> QED BY <1>1, <1>2

LEMMA Walked ==
    ASSUME NEW s \in Seq(Tasks)
    PROVE  /\ ToSet(s) \subseteq Tasks /\ (s = <<>> => ToSet(s) = {})
           /\ s # <<>> => /\ Head(s) \in ToSet(s) /\ Tail(s) \in Seq(Tasks)
                          /\ ToSet(Tail(s)) \subseteq ToSet(s)
                          /\ ToSet(s) \subseteq ToSet(Tail(s)) \cup {Head(s)}
<1>1. ToSet(s) \subseteq Tasks /\ (s = <<>> => ToSet(s) = {})
    BY DEF ToSet
<1>2. ASSUME s # <<>>
      PROVE  /\ Head(s) \in ToSet(s) /\ Tail(s) \in Seq(Tasks)
             /\ ToSet(Tail(s)) \subseteq ToSet(s)
             /\ ToSet(s) \subseteq ToSet(Tail(s)) \cup {Head(s)}
    <2>1. Len(s) \in Nat \ {0} /\ Head(s) = s[1] /\ Tail(s) \in Seq(Tasks) /\ Len(Tail(s)) = Len(s) - 1
          /\ \A i \in 1 .. Len(s) - 1 : Tail(s)[i] = s[i + 1]
        BY <1>2
    <2>2. DOMAIN s = 1 .. Len(s) /\ DOMAIN Tail(s) = 1 .. Len(s) - 1
        BY <2>1
    <2>3. Head(s) \in ToSet(s)
        BY <2>1, <2>2 DEF ToSet
    <2>4. ToSet(Tail(s)) \subseteq ToSet(s)
        BY <2>1, <2>2 DEF ToSet
    <2>5. ASSUME NEW i \in 1 .. Len(s), i # 1 PROVE s[i] \in ToSet(Tail(s))
        <3>1. i - 1 \in 1 .. Len(s) - 1 /\ Tail(s)[i - 1] = s[i]
            BY <2>1, <2>5
        <3> QED BY <2>2, <3>1 DEF ToSet
    <2>6. ToSet(s) \subseteq ToSet(Tail(s)) \cup {Head(s)}
        BY <2>1, <2>2, <2>5 DEF ToSet
    <2> QED BY <2>1, <2>3, <2>4, <2>6
<1> QED BY <1>1, <1>2

LEMMA WalksOn ==
    ASSUME NEW d \in DoorRec, NEW first \in DoorSteps, NEW last \in DoorSteps
    PROVE  /\ WalkOn(d, first, last) \in DoorRec
           /\ WalkOn(d, first, last).at = IF d.todo = <<>> THEN last ELSE first
           /\ WalkOn(d, first, last).todo = d.todo /\ WalkOn(d, first, last).rev = d.rev
           /\ WalkOn(d, first, last).loose = d.loose /\ WalkOn(d, first, last).held = d.held
           /\ WalkOn(d, first, last).made = d.made /\ WalkOn(d, first, last).stranded = d.stranded
           /\ WalkOn(d, first, last).code = d.code
BY DEF WalkOn, DoorRec

\* The fan-out begins, with every task still to come.
BeginsFan(d, e) ==
    /\ e \in DoorRec /\ e.todo = Plans[d.rev] /\ e.rev = d.rev /\ e.held = d.held /\ e.loose = d.loose
    /\ e.made = d.made /\ e.stranded = d.stranded /\ e.code = d.code
    /\ e.at = "done" /\ e.todo # <<>>

\* The walk has passed the task at its head.
Passes(d, e, first, last) ==
    /\ e \in DoorRec /\ e.todo = Tail(d.todo) /\ e.rev = d.rev /\ e.held = d.held /\ e.loose = d.loose
    /\ e.made = d.made /\ e.stranded = d.stranded /\ e.code = d.code
    /\ \/ e.at = first /\ e.todo # <<>>
       \/ e.at = last /\ e.todo = <<>>

LEMMA FansOut ==
    ASSUME NEW d \in DoorRec, d.rev \in Revs
    PROVE  BeginsFan(d, FanOut(d))
<1> DEFINE e == [d EXCEPT !.todo = Plans[d.rev]]
<1>1. e \in DoorRec /\ e.todo = Plans[d.rev]
    BY PlansAre DEF DoorRec
<1>a. /\ e.at = d.at /\ e.rev = d.rev /\ e.held = d.held /\ e.loose = d.loose
      /\ e.made = d.made /\ e.stranded = d.stranded /\ e.code = d.code
    BY DEF DoorRec
<1>2. FanOut(d) = WalkOn(e, "done", "record")
    BY DEF FanOut
<1>3. "done" \in DoorSteps /\ "record" \in DoorSteps
    BY DEF DoorSteps
<1> HIDE DEF e
<1> DEFINE w == WalkOn(e, "done", "record")
<1>4. /\ w \in DoorRec /\ w.at = IF e.todo = <<>> THEN "record" ELSE "done"
      /\ w.todo = e.todo /\ w.rev = e.rev /\ w.loose = e.loose /\ w.held = e.held
      /\ w.made = e.made /\ w.stranded = e.stranded /\ w.code = e.code
    BY <1>1, <1>3, WalksOn
<1> HIDE DEF w
<1>5. BeginsFan(d, w)
    BY <1>1, <1>a, <1>4, PlansAre DEF BeginsFan
<1> QED BY <1>2, <1>5 DEF w

LEMMA NextOne ==
    ASSUME NEW d \in DoorRec, d.todo # <<>>, NEW first \in DoorSteps, NEW last \in DoorSteps
    PROVE  Passes(d, NextChild(d, first, last), first, last)
<1>0. Tail(d.todo) \in Seq(Tasks)
    BY Walked DEF DoorRec
<1> DEFINE e == [d EXCEPT !.todo = Tail(d.todo)]
<1>1. e \in DoorRec /\ e.todo = Tail(d.todo)
    BY <1>0 DEF DoorRec
<1>a. /\ e.at = d.at /\ e.rev = d.rev /\ e.held = d.held /\ e.loose = d.loose
      /\ e.made = d.made /\ e.stranded = d.stranded /\ e.code = d.code
    BY DEF DoorRec
<1>2. NextChild(d, first, last) = WalkOn(e, first, last)
    BY DEF NextChild
<1> HIDE DEF e
<1> DEFINE w == WalkOn(e, first, last)
<1>4. /\ w \in DoorRec /\ w.at = IF e.todo = <<>> THEN last ELSE first
      /\ w.todo = e.todo /\ w.rev = e.rev /\ w.loose = e.loose /\ w.held = e.held
      /\ w.made = e.made /\ w.stranded = e.stranded /\ w.code = e.code
    <2>1. first \in DoorSteps /\ last \in DoorSteps /\ e \in DoorRec
        BY <1>1
    <2> QED BY <2>1, WalksOn DEF w
<1> HIDE DEF w
<1>5. Passes(d, w, first, last)
    BY <1>1, <1>a, <1>4 DEF Passes
<1> QED BY <1>2, <1>5 DEF w

LEMMA DisposedOf ==
    ASSUME NEW d \in DoorRec, d.todo # <<>>, d.rev \in Revs
    PROVE  \/ Passes(d, Disposed(d), "find", "record") /\ Disposed(d).at = "find"
           \/ BeginsFan(d, Disposed(d)) /\ Tail(d.todo) = <<>>
<1>0. "find" \in DoorSteps /\ "record" \in DoorSteps
    BY DEF DoorSteps
<1>1. PICK n \in DoorRec : n = NextChild(d, "find", "record") /\ Passes(d, n, "find", "record")
    BY <1>0, NextOne DEF Passes
<1>2. Disposed(d) = IF n.at = "record" THEN FanOut(n) ELSE n
    BY <1>1 DEF Disposed
<1>3. CASE n.at = "record"
    <2>1. n.rev \in Revs /\ Tail(d.todo) = <<>>
        BY <1>1, <1>3 DEF Passes
    <2>2. BeginsFan(n, Disposed(d))
        BY <1>2, <1>3, <2>1, FansOut
    <2> QED BY <1>1, <2>1, <2>2 DEF BeginsFan, Passes
<1>4. CASE n.at # "record"
    BY <1>1, <1>2, <1>4 DEF Passes
<1> QED BY <1>3, <1>4

\* The types, and the shape of the walk.
ShapeInv == DoorTyped /\ CopiesAre /\ DoorWalks

LEMMA ChildIs ==
    ASSUME DoorTyped, DoorWalks, door.at \in Disposing \cup FanningOut
    PROVE  /\ Child \in ToSet(door.todo) /\ Child \in Tasks /\ Tail(door.todo) \in Seq(Tasks)
           /\ ToSet(Tail(door.todo)) \subseteq ToSet(door.todo)
           /\ ToSet(door.todo) \subseteq ToSet(Tail(door.todo)) \cup {Child}
           /\ door \in DoorRec /\ door.todo # <<>> /\ door.rev \in Revs
<1>1. door \in DoorRec /\ door.todo # <<>> /\ door.rev \in Revs /\ door.todo \in Seq(Tasks)
    BY DEF DoorTyped, DoorWalks, DoorRec, Disposing, FanningOut
<1> QED BY <1>1, Walked DEF Child

\* What the walks make of the rest.
LEMMA SkipsOn ==
    ASSUME DoorTyped, DoorWalks, door.at \in FanningOut
    PROVE  Passes(door, Skipped, "done", "record")
<1>1. "done" \in DoorSteps /\ "record" \in DoorSteps
    BY DEF DoorSteps
<1>2. door \in DoorRec /\ door.todo # <<>>
    BY ChildIs
<1> QED BY <1>1, <1>2, NextOne DEF Skipped

LEMMA WalkTyped ==
    ASSUME PlanTypeOK, door' \in DoorRec, planFile' \in Revs, setRecord' \in Rev0,
           queued' \in [Tasks -> PlanCopies], working' \in [Tasks -> SUBSET Revs],
           finished' \subseteq Tasks, parked' \in [Tasks -> SUBSET PlanCopies],
           planExcuses' \subseteq {"torn", "cut", "masked", "revived", "retried", "requeued"}
    PROVE  DoorTyped'
<1>1. ToSet(door'.todo) \subseteq Tasks
    BY Walked DEF DoorRec
<1>2. PlanTypeOK'
    BY <1>1 DEF PlanTypeOK, DoorRec
<1> QED BY <1>2 DEF DoorTyped, DoorRec

LEMMA ExcuseTyped ==
    ASSUME PlanTypeOK, NEW why \in {"torn", "cut", "masked", "revived", "retried", "requeued"},
           PlanExcuse(why) \/ UNCHANGED planExcuses
    PROVE  planExcuses' \subseteq {"torn", "cut", "masked", "revived", "retried", "requeued"}
BY DEF PlanTypeOK, PlanExcuse

\* The command only walks: the copies are as they were.
LEMMA WalkShape ==
    ASSUME ShapeInv, UNCHANGED <<planFile, queued, working, finished, parked, setRecord>>,
           planExcuses' \subseteq {"torn", "cut", "masked", "revived", "retried", "requeued"},
           door' \in DoorRec, DoorAt("mark")' => door'.held \in Revs,
           DoorWalks'
    PROVE  ShapeInv'
<1>1. DoorTyped'
    BY WalkTyped DEF ShapeInv, DoorTyped, PlanTypeOK
<1>2. CopiesAre'
    BY DEF ShapeInv, CopiesAre, DoorAt
<1> QED BY <1>1, <1>2 DEF ShapeInv

LEMMA FanWalks ==
    ASSUME NEW d \in DoorRec, d.rev \in Revs, BeginsFan(d, door'), UNCHANGED setRecord
    PROVE  DoorWalks' /\ door' \in DoorRec /\ ~DoorAt("mark")'
BY DEF BeginsFan, DoorWalks, DoorAt, Disposing, FanningOut

LEMMA PassWalks ==
    ASSUME ShapeInv, door.at \in FanningOut, Passes(door, door', "done", "record"), UNCHANGED setRecord
    PROVE  DoorWalks' /\ door' \in DoorRec /\ ~DoorAt("mark")'
<1>1. ToSet(Tail(door.todo)) \subseteq ToSet(Plans[door.rev]) /\ door.rev \in Revs
    BY ChildIs DEF ShapeInv, DoorWalks
<1> QED BY <1>1 DEF Passes, DoorWalks, DoorAt, Disposing, FanningOut

LEMMA DisposedWalks ==
    ASSUME ShapeInv, door.at \in Disposing, door' = Disposed(door), UNCHANGED setRecord
    PROVE  DoorWalks' /\ door' \in DoorRec /\ ~DoorAt("mark")'
<1>0. /\ ToSet(Tail(door.todo)) \subseteq ToSet(Plans[setRecord]) /\ door.rev \in Revs /\ setRecord \in Revs
      /\ door \in DoorRec /\ door.todo # <<>>
    BY ChildIs DEF ShapeInv, DoorWalks
<1>1. CASE Passes(door, door', "find", "record") /\ door'.at = "find"
    BY <1>0, <1>1 DEF Passes, DoorWalks, DoorAt, Disposing, FanningOut
<1>2. CASE BeginsFan(door, door')
    BY <1>0, <1>2, FanWalks
<1> QED BY <1>0, <1>1, <1>2, DisposedOf

LEMMA NoDoorIs ==
    /\ NoDoor \in DoorRec /\ NoDoor.at = "idle" /\ NoDoor.todo = <<>> /\ NoDoor.rev = 0
    /\ NoDoor.made = {} /\ NoDoor.stranded = {} /\ NoDoor.held = 0 /\ NoDoor.code = 0
<1>1. <<>> \in Seq(Tasks) /\ 0 \in Rev0 /\ "idle" \in DoorSteps
    BY PlansAre DEF DoorSteps
<1> QED BY <1>1 DEF NoDoor, DoorRec

LEMMA BrokenIs ==
    /\ Broken \in DoorRec /\ Broken.at = "ended" /\ Broken.code = 1 /\ Broken.todo = <<>>
    /\ Broken.made = {} /\ Broken.stranded = {} /\ Broken.rev = 0
<1>1. "ended" \in DoorSteps
    BY DEF DoorSteps
<1> QED BY <1>1, NoDoorIs DEF Broken, DoorRec

LEMMA BrokenWalks ==
    ASSUME door' = Broken
    PROVE  DoorWalks' /\ door' \in DoorRec /\ ~DoorAt("mark")'
BY BrokenIs DEF DoorWalks, DoorAt, Disposing, FanningOut

RevOf(r) == [NoDoor EXCEPT !.rev = planFile, !.loose = r]
LEMMA Started ==
    ASSUME planFile \in Revs, NEW r \in BOOLEAN
    PROVE  /\ RevOf(r) \in DoorRec /\ RevOf(r).rev = planFile /\ RevOf(r).loose = r
           /\ RevOf(r).made = {} /\ RevOf(r).stranded = {} /\ RevOf(r).held = 0 /\ RevOf(r).code = 0
<1>1. planFile \in Rev0
    BY PlansAre
<1> QED BY <1>1, NoDoorIs DEF RevOf, DoorRec

\* A run begins with the fan-out, or with the tasks of the recorded revision.
LEMMA RunsFrom ==
    ASSUME PlanTypeOK, RunDoor
    PROVE  /\ door' \in DoorRec /\ door'.rev = planFile /\ door'.made = {} /\ door'.stranded = {}
           /\ \/ setRecord \in {0, planFile} /\ door'.at = "done" /\ door'.todo = Plans[planFile]
              \/ /\ setRecord \in Revs /\ door'.at = "find" /\ door'.todo = Plans[setRecord]
                 /\ door'.loose
           /\ door'.todo # <<>>
<1>0. planFile \in Revs /\ setRecord \in Rev0
    BY DEF PlanTypeOK
<1>1. CASE setRecord \in {0, planFile}
    <2>1. door' = FanOut(RevOf(FALSE))
        <3>1. (setRecord \notin {0, planFile}) = FALSE
            BY <1>1
        <3>2. ~RevOf(FALSE).loose
            BY <1>0, Started
        <3> QED BY <3>1, <3>2 DEF RunDoor, RevOf
    <2>2. BeginsFan(RevOf(FALSE), door')
        BY <1>0, <2>1, Started, FansOut
    <2> QED BY <1>0, <1>1, <2>2, Started DEF BeginsFan
<1>2. CASE setRecord \notin {0, planFile}
    <2>0. setRecord \in Revs /\ Plans[setRecord] \in Seq(Tasks) /\ Plans[setRecord] # <<>>
        BY <1>0, <1>2, PlansAre DEF Rev0
    <2> DEFINE d == [RevOf(TRUE) EXCEPT !.todo = Plans[setRecord]]
    <2>1. door' = WalkOn(d, "find", "record")
        <3>1. (setRecord \notin {0, planFile}) = TRUE
            BY <1>2
        <3>2. RevOf(TRUE).loose
            BY <1>0, Started
        <3> QED BY <3>1, <3>2 DEF RunDoor, RevOf
    <2>2. /\ d \in DoorRec /\ d.todo = Plans[setRecord] /\ d.rev = planFile /\ d.loose
          /\ d.made = {} /\ d.stranded = {}
        BY <1>0, <2>0, Started DEF DoorRec
    <2> HIDE DEF d
    <2>c. PICK c \in DoorRec : c = d
        BY <2>2
    <2>3. "find" \in DoorSteps /\ "record" \in DoorSteps
        BY DEF DoorSteps
    <2>4. /\ door' \in DoorRec /\ door'.at = "find" /\ door'.todo = d.todo /\ door'.rev = d.rev
          /\ door'.made = d.made /\ door'.stranded = d.stranded /\ door'.loose = d.loose
        <3>1. d.todo # <<>>
            BY <2>0, <2>2
        <3>2. door' = WalkOn(c, "find", "record")
            BY <2>1, <2>c
        <3> QED BY <2>3, <2>c, <3>1, <3>2, WalksOn
    <2> QED BY <2>0, <2>2, <2>4
<1> QED BY <1>1, <1>2

\* Only where the command stands, or what it holds, has changed.
SameWalk(d, e) ==
    /\ e \in DoorRec /\ e.todo = d.todo /\ e.rev = d.rev /\ e.loose = d.loose
    /\ e.made = d.made /\ e.stranded = d.stranded /\ e.code = d.code

\* Wherever a look ends: the task was found, or the next directory is looked into.
LEMMA Looked ==
    ASSUME ShapeInv, LookForChild
    PROVE  /\ door.at \in {"done", "processing", "inbox"}
           /\ \/ /\ Passes(door, door', "done", "record")
                 /\ Child \in finished \/ working[Child] # {} \/ queued[Child] # NoCopy
              \/ SameWalk(door, door') /\ door'.at \in {"processing", "inbox", "failed"}
<1>1. /\ DOMAIN NextDirectory = {"done", "processing", "inbox"}
      /\ \A l \in {"done", "processing", "inbox"} : NextDirectory[l] \in {"processing", "inbox", "failed"}
    BY DEF NextDirectory
<1>2. door.at \in {"done", "processing", "inbox"} /\ door \in DoorRec
    BY <1>1 DEF LookForChild, ShapeInv, DoorTyped, DoorRec
<1>3. CASE FoundIn(door.at)
    <2>1. Child \in finished \/ working[Child] # {} \/ queued[Child] # NoCopy
        BY <1>2, <1>3 DEF FoundIn
    <2>2. Passes(door, door', "done", "record")
        BY <1>2, <1>3, SkipsOn DEF LookForChild, ShapeInv, FanningOut
    <2> QED BY <1>2, <2>1, <2>2
<1>4. CASE ~FoundIn(door.at)
    <2>1. PICK l \in {"processing", "inbox", "failed"} : door' = [door EXCEPT !.at = l]
        BY <1>1, <1>2, <1>4 DEF LookForChild
    <2>2. l \in DoorSteps
        BY DEF DoorSteps
    <2> QED BY <1>2, <2>1, <2>2 DEF SameWalk, DoorRec
<1> QED BY <1>3, <1>4

\* What becomes of a task that was found nowhere: left, submitted or stranded.
StaysFailed == Passes(door, door', "done", "record") /\ parked[Child] # {} /\ UNCHANGED <<queued, planExcuses>>
\* The walk goes on, with the task among those submitted (or stranded).
PassesWith(d, e, made, stranded) ==
    /\ e \in DoorRec /\ e.todo = Tail(d.todo) /\ e.rev = d.rev /\ e.held = d.held /\ e.loose = d.loose
    /\ e.made = made /\ e.stranded = stranded /\ e.code = d.code
    /\ \/ e.at = "done" /\ e.todo # <<>>
       \/ e.at = "record" /\ e.todo = <<>>
Submitted ==
    /\ PassesWith(door, door', door.made \cup {Child}, door.stranded)
    /\ queued[Child] = NoCopy
    /\ queued' = [queued EXCEPT ![Child] = [rev |-> door.rev, mark |-> 0]]
    /\ IF Elsewhere THEN PlanExcuse("torn") ELSE UNCHANGED planExcuses
Strands ==
    /\ PassesWith(door, door', door.made, door.stranded \cup {Child})
    /\ UNCHANGED <<queued, planExcuses>>

LEMMA Submits ==
    ASSUME ShapeInv, SubmitChild
    PROVE  StaysFailed \/ Submitted \/ Strands
<1>1. /\ door.at = "failed" /\ Passes(door, Skipped, "done", "record")
      /\ door \in DoorRec /\ Child \in Tasks
    BY SkipsOn, ChildIs DEF SubmitChild, ShapeInv, DoorAt, FanningOut
<1>2. PICK n \in DoorRec : n = Skipped
    BY <1>1 DEF Passes
<1>3. CASE ~MaySubmit /\ door' = Skipped /\ UNCHANGED <<queued, doorSlips, planExcuses>>
    BY <1>1, <1>3 DEF StaysFailed, MaySubmit
<1>4. CASE /\ MaySubmit /\ queued[Child] = NoCopy
           /\ queued' = [queued EXCEPT ![Child] = [rev |-> door.rev, mark |-> 0]]
           /\ door' = [Skipped EXCEPT !.made = @ \cup {Child}]
           /\ IF Elsewhere THEN PlanExcuse("torn") ELSE UNCHANGED planExcuses
    <2>1. door' = [n EXCEPT !.made = n.made \cup {Child}]
        BY <1>2, <1>4
    <2>2. Passes(door, n, "done", "record")
        BY <1>1, <1>2
    <2>3. n.made \cup {Child} \in SUBSET Tasks
        BY <1>1 DEF DoorRec
    <2>4. PassesWith(door, door', door.made \cup {Child}, door.stranded)
        BY <2>1, <2>2, <2>3 DEF Passes, PassesWith, DoorRec
    <2> QED BY <1>4, <2>4 DEF Submitted
<1>5. CASE door' = [Skipped EXCEPT !.stranded = @ \cup {Child}] /\ UNCHANGED <<queued, planExcuses>>
    <2>1. door' = [n EXCEPT !.stranded = n.stranded \cup {Child}]
        BY <1>2, <1>5
    <2>2. Passes(door, n, "done", "record")
        BY <1>1, <1>2
    <2>3. n.stranded \cup {Child} \in SUBSET Tasks
        BY <1>1 DEF DoorRec
    <2>4. PassesWith(door, door', door.made, door.stranded \cup {Child})
        BY <2>1, <2>2, <2>3 DEF Passes, PassesWith, DoorRec
    <2> QED BY <1>5, <2>4 DEF Strands
<1> QED BY <1>3, <1>4, <1>5 DEF SubmitChild

LEMMA CopyIs ==
    ASSUME NEW r \in Revs, NEW m \in Rev0
    PROVE  /\ [rev |-> r, mark |-> m] \in PlanCopies /\ [rev |-> r, mark |-> m].rev = r /\ [rev |-> r, mark |-> m].mark = m
           /\ [rev |-> r, mark |-> m] # NoCopy /\ NoCopy \in PlanCopies
<1>1. [rev |-> r, mark |-> m].rev # NoCopy.rev
    BY PlansAre DEF NoCopy
<1> QED BY <1>1, PlansAre DEF PlanCopies, NoCopy

Commands == door' \in DoorRec /\ DoorWalks' /\ (DoorAt("mark")' => door'.held \in Revs)

LEMMA CommandShape ==
    ASSUME ShapeInv, RunDoor \/ FindChild \/ ReadChild \/ LookForChild \/ DoorEnds \/ KillDoor
    PROVE  ShapeInv'
<1>0. PlanTypeOK /\ door \in DoorRec
    BY DEF ShapeInv, DoorTyped, DoorRec
<1>1. CASE RunDoor
    <2>1. UNCHANGED <<planFile, queued, working, finished, parked, setRecord, planExcuses>>
        BY <1>1 DEF RunDoor, QueueAlone, copyVars
    <2>2. Commands
        BY <1>0, <1>1, <2>1, RunsFrom DEF Commands, DoorWalks, DoorAt, Disposing, FanningOut, PlanTypeOK
    <2> QED BY <1>0, <2>1, <2>2, WalkShape DEF PlanTypeOK, Commands
<1>2. CASE FindChild
    <2>1. UNCHANGED <<planFile, queued, working, finished, parked, setRecord, planExcuses>> /\ door.at = "find"
        BY <1>2 DEF FindChild, QueueAlone, copyVars, DoorAt
    <2>2. CASE door' = Disposed(door)
        BY <1>0, <2>1, <2>2, DisposedWalks, WalkShape DEF PlanTypeOK, Disposing
    <2>3. CASE door' = [door EXCEPT !.at = "read"]
        <3>1. door' \in DoorRec /\ door'.at = "read" /\ door'.todo = door.todo /\ door'.rev = door.rev
            BY <1>0, <2>3 DEF DoorRec, DoorSteps
        <3>2. DoorWalks'
            BY <2>1, <3>1 DEF ShapeInv, DoorWalks, DoorAt, Disposing, FanningOut
        <3> QED BY <1>0, <2>1, <3>1, <3>2, WalkShape DEF PlanTypeOK, DoorAt
    <2> QED BY <1>2, <2>2, <2>3 DEF FindChild
<1>3. CASE ReadChild
    <2>1. UNCHANGED <<planFile, queued, working, finished, parked, setRecord, planExcuses>> /\ door.at = "read"
        BY <1>3 DEF ReadChild, QueueAlone, copyVars, DoorAt
    <2>2. CASE door' = Broken
        BY <1>0, <2>1, <2>2, BrokenWalks, WalkShape DEF PlanTypeOK
    <2>3. CASE queued[Child] # NoCopy /\ door' = [door EXCEPT !.at = "mark", !.held = queued[Child].rev]
        <3>0. queued[Child].rev \in Revs
            BY <2>1, <2>3, ChildIs DEF ShapeInv, CopiesAre, Disposing
        <3>1. /\ door' \in DoorRec /\ door'.at = "mark" /\ door'.todo = door.todo /\ door'.rev = door.rev
              /\ door'.held \in Revs
            BY <1>0, <2>3, <3>0, PlansAre DEF DoorRec, DoorSteps
        <3>2. DoorWalks'
            BY <2>1, <3>1 DEF ShapeInv, DoorWalks, DoorAt, Disposing, FanningOut
        <3> QED BY <1>0, <2>1, <3>1, <3>2, WalkShape DEF PlanTypeOK, DoorAt
    <2> QED BY <1>3, <2>2, <2>3 DEF ReadChild
<1>4. CASE LookForChild
    <2>1. UNCHANGED <<planFile, queued, working, finished, parked, setRecord, planExcuses>>
        BY <1>4 DEF LookForChild, QueueAlone, copyVars
    <2>0. door.at \in FanningOut
        BY <1>4, Looked DEF FanningOut
    <2>2. CASE Passes(door, door', "done", "record")
        BY <1>0, <2>0, <2>1, <2>2, PassWalks, WalkShape DEF PlanTypeOK
    <2>3. CASE SameWalk(door, door') /\ door'.at \in {"processing", "inbox", "failed"}
        <3>1. door' \in DoorRec /\ DoorWalks' /\ ~DoorAt("mark")'
            BY <2>0, <2>1, <2>3 DEF SameWalk, ShapeInv, DoorWalks, DoorAt, Disposing, FanningOut
        <3> QED BY <1>0, <2>1, <3>1, WalkShape DEF PlanTypeOK
    <2> QED BY <1>4, <2>2, <2>3, Looked
<1>5. CASE DoorEnds
    <2>1. UNCHANGED <<planFile, queued, working, finished, parked>> /\ door.at = "record" /\ setRecord' = door.rev
        BY <1>5 DEF DoorEnds, QueueAlone, copyVars, DoorAt, Materialize
    <2>2. door.rev \in Revs /\ DoorCode \in {0, 1}
        BY <2>1 DEF ShapeInv, DoorWalks, DoorAt, DoorCode
    <2>3. door' = [NoDoor EXCEPT !.at = "ended", !.rev = door.rev, !.code = DoorCode]
        BY <1>5 DEF DoorEnds
    <2>4. door' \in DoorRec /\ door'.at = "ended" /\ door'.rev = door.rev
        <3>1. "ended" \in DoorSteps /\ door.rev \in Rev0
            BY <2>2, PlansAre DEF DoorSteps
        <3> HIDE DEF DoorCode
        <3> QED BY <2>2, <2>3, <3>1, NoDoorIs DEF DoorRec
    <2>5. planExcuses' \subseteq {"torn", "cut", "masked", "revived", "retried", "requeued"}
        BY <1>0, <1>5, ExcuseTyped DEF DoorEnds
    <2>6. DoorTyped'
        BY <1>0, <2>1, <2>2, <2>4, <2>5, WalkTyped, PlansAre DEF PlanTypeOK
    <2>7. CopiesAre' /\ DoorWalks'
        BY <2>1, <2>2, <2>4 DEF ShapeInv, CopiesAre, DoorWalks, DoorAt, Disposing, FanningOut
    <2> QED BY <2>6, <2>7 DEF ShapeInv
<1>6. CASE KillDoor
    <2>1. UNCHANGED <<planFile, queued, working, finished, parked, setRecord>> /\ door' = Broken
        BY <1>6 DEF KillDoor, QueueAlone, copyVars
    <2>2. planExcuses' \subseteq {"torn", "cut", "masked", "revived", "retried", "requeued"}
        BY <1>0, <1>6, ExcuseTyped DEF KillDoor
    <2> QED BY <2>1, <2>2, BrokenWalks, WalkShape
<1> QED BY <1>1, <1>2, <1>3, <1>4, <1>5, <1>6

LEMMA CopyShape ==
    ASSUME ShapeInv, MarkChild \/ MoveChild \/ SubmitChild
    PROVE  ShapeInv'
<1>0. PlanTypeOK /\ door \in DoorRec /\ planExcuses' \subseteq {"torn", "cut", "masked", "revived", "retried", "requeued"}
    <2>1. PlanTypeOK /\ door \in DoorRec
        BY DEF ShapeInv, DoorTyped, DoorRec
    <2> QED BY <2>1, ExcuseTyped DEF MarkChild, MoveChild, SubmitChild
<1>1. CASE MarkChild
    <2>1. UNCHANGED <<planFile, working, finished, parked, setRecord>> /\ door.at = "mark"
        BY <1>1 DEF MarkChild, DoorAt
    <2>2. door.held \in Revs /\ door.rev \in Revs /\ Child \in Tasks
        BY <2>1, ChildIs DEF ShapeInv, CopiesAre, DoorAt, DoorWalks, Disposing
    <2>3. queued' = [queued EXCEPT ![Child] = [rev |-> door.held, mark |-> door.rev]]
        BY <1>1 DEF MarkChild
    <2>4. PICK c \in PlanCopies : c = [rev |-> door.held, mark |-> door.rev] /\ c.rev \in Revs
        <3>1. /\ [rev |-> door.held, mark |-> door.rev] \in PlanCopies
              /\ [rev |-> door.held, mark |-> door.rev].rev \in Revs
            BY <2>2, PlansAre DEF PlanCopies
        <3> QED BY <3>1
    <2>5. queued' \in [Tasks -> PlanCopies] /\ \A t \in Tasks : queued'[t] = IF t = Child THEN c ELSE queued[t]
        BY <1>0, <2>2, <2>3, <2>4 DEF PlanTypeOK
    <2>6. door' \in DoorRec /\ door'.at = "move" /\ door'.todo = door.todo /\ door'.rev = door.rev
        BY <1>0, <1>1, PlansAre DEF MarkChild, DoorRec, DoorSteps
    <2>7. DoorTyped'
        BY <1>0, <2>1, <2>5, <2>6, WalkTyped DEF PlanTypeOK
    <2>8. CopiesAre'
        BY <2>1, <2>4, <2>5, <2>6 DEF ShapeInv, CopiesAre, DoorAt
    <2>9. DoorWalks'
        BY <2>1, <2>6 DEF ShapeInv, DoorWalks, DoorAt, Disposing, FanningOut
    <2> QED BY <2>7, <2>8, <2>9 DEF ShapeInv
<1>2. CASE MoveChild
    <2>1. UNCHANGED <<planFile, working, finished, setRecord, planExcuses>> /\ door.at = "move"
        BY <1>2 DEF MoveChild, DoorAt
    <2>2. Child \in Tasks
        BY <2>1, ChildIs DEF ShapeInv, Disposing
    <2>3. CASE door' = Broken /\ UNCHANGED <<parked, queued>>
        BY <1>0, <2>1, <2>3, BrokenWalks, WalkShape DEF PlanTypeOK
    <2>4. CASE /\ queued[Child] # NoCopy
               /\ parked' = [parked EXCEPT ![Child] = @ \cup {queued[Child]}]
               /\ queued' = [queued EXCEPT ![Child] = NoCopy]
               /\ door' = Disposed(door)
        <3>1. door' \in DoorRec /\ DoorWalks' /\ ~DoorAt("mark")'
            BY <2>1, <2>4, DisposedWalks DEF Disposing
        <3>2. /\ queued' \in [Tasks -> PlanCopies] /\ parked' \in [Tasks -> SUBSET PlanCopies]
              /\ \A t \in Tasks : queued'[t] \in {queued[t], NoCopy}
              /\ \A t \in Tasks : parked'[t] \subseteq parked[t] \cup (IF t = Child THEN {queued[t]} ELSE {})
            <4>1. NoCopy \in PlanCopies
                BY PlansAre DEF NoCopy, PlanCopies
            <4> QED BY <1>0, <2>2, <2>4, <4>1 DEF PlanTypeOK
        <3>3. DoorTyped'
            BY <1>0, <2>1, <3>1, <3>2, WalkTyped DEF PlanTypeOK
        <3>4. CopiesAre'
            BY <2>2, <2>4, <3>1, <3>2 DEF ShapeInv, CopiesAre
        <3> QED BY <3>1, <3>3, <3>4 DEF ShapeInv
    <2> QED BY <1>2, <2>3, <2>4 DEF MoveChild
<1>3. CASE SubmitChild
    <2>1. UNCHANGED <<planFile, working, finished, parked, setRecord>> /\ door.at = "failed"
        BY <1>3 DEF SubmitChild, DoorAt
    <2>2. /\ Child \in Tasks /\ door.rev \in Revs
          /\ ToSet(Tail(door.todo)) \subseteq ToSet(Plans[door.rev])
        BY <2>1, ChildIs DEF ShapeInv, DoorWalks, FanningOut
    <2>3. CASE StaysFailed
        <3>1. UNCHANGED queued /\ Passes(door, door', "done", "record")
            BY <2>3 DEF StaysFailed
        <3> QED BY <1>0, <2>1, <3>1, PassWalks, WalkShape DEF PlanTypeOK, FanningOut
    <2>4. ASSUME NEW m, NEW s, PassesWith(door, door', m, s)
          PROVE  door' \in DoorRec /\ DoorWalks' /\ ~DoorAt("mark")'
        BY <2>1, <2>2, <2>4 DEF PassesWith, DoorWalks, DoorAt, Disposing, FanningOut
    <2>5. CASE Strands
        <3>1. UNCHANGED queued /\ door' \in DoorRec /\ DoorWalks' /\ ~DoorAt("mark")'
            BY <2>4, <2>5 DEF Strands
        <3> QED BY <1>0, <2>1, <3>1, WalkShape DEF PlanTypeOK
    <2>6. CASE Submitted
        <3>1. door' \in DoorRec /\ DoorWalks' /\ ~DoorAt("mark")'
            BY <2>4, <2>6 DEF Submitted
        <3>2. PICK c \in PlanCopies : c = [rev |-> door.rev, mark |-> 0] /\ c.rev \in Revs
            BY <2>2, CopyIs, PlansAre, ZenonT(60)
        <3>3. queued' \in [Tasks -> PlanCopies] /\ \A t \in Tasks : queued'[t] = IF t = Child THEN c ELSE queued[t]
            BY <1>0, <2>2, <2>6, <3>2 DEF PlanTypeOK, Submitted
        <3>4. DoorTyped'
            BY <1>0, <2>1, <3>1, <3>3, WalkTyped DEF PlanTypeOK
        <3>5. CopiesAre'
            BY <2>1, <3>1, <3>2, <3>3 DEF ShapeInv, CopiesAre
        <3> QED BY <3>1, <3>4, <3>5 DEF ShapeInv
    <2> QED BY <1>3, <2>3, <2>5, <2>6, Submits
<1> QED BY <1>1, <1>2, <1>3

\* The steps of the others leave the command where it is.
LEMMA OthersShape ==
    ASSUME ShapeInv, EditPlan \/ \E t \in Tasks : ClaimChild(t) \/ ChildEnds(t) \/ RetryChild(t)
    PROVE  ShapeInv'
<1>0. /\ PlanTypeOK /\ door \in DoorRec /\ UNCHANGED <<door, setRecord>>
      /\ planExcuses' \subseteq {"torn", "cut", "masked", "revived", "retried", "requeued"}
    <2>1. PlanTypeOK /\ door \in DoorRec
        BY DEF ShapeInv, DoorTyped, DoorRec
    <2> QED BY <2>1, ExcuseTyped DEF EditPlan, ClaimChild, ChildEnds, RetryChild
<1>1. DoorWalks'
    BY <1>0 DEF ShapeInv, DoorWalks, DoorAt
<1>n. NoCopy \in PlanCopies
    BY PlansAre DEF NoCopy, PlanCopies
<1>2. ASSUME planFile' \in Revs,
             queued' \in [Tasks -> PlanCopies], working' \in [Tasks -> SUBSET Revs],
             finished' \subseteq Tasks, parked' \in [Tasks -> SUBSET PlanCopies],
             \A t \in Tasks : queued'[t] # NoCopy => queued'[t].rev \in Revs,
             \A t \in Tasks : \A c \in parked'[t] : c.rev \in Revs
      PROVE  ShapeInv'
    <2>1. DoorTyped'
        BY <1>0, <1>2, WalkTyped DEF PlanTypeOK
    <2>2. CopiesAre'
        BY <1>0, <1>2 DEF ShapeInv, CopiesAre, DoorAt
    <2> QED BY <1>1, <2>1, <2>2 DEF ShapeInv
<1>3. CASE EditPlan
    BY <1>0, <1>2, <1>3 DEF EditPlan, QueueAlone, copyVars, PlanTypeOK, ShapeInv, CopiesAre
<1>4. ASSUME NEW t \in Tasks, ClaimChild(t) PROVE ShapeInv'
    <2>1. queued[t].rev \in Revs /\ UNCHANGED <<planFile, finished, parked>>
        BY <1>4 DEF ClaimChild, ShapeInv, CopiesAre
    <2>2. queued' \in [Tasks -> PlanCopies] /\ \A s \in Tasks : queued'[s] \in {queued[s], NoCopy}
        BY <1>0, <1>4, <1>n DEF ClaimChild, PlanTypeOK
    <2>3. working' \in [Tasks -> SUBSET Revs]
        BY <1>0, <1>4, <2>1 DEF ClaimChild, PlanTypeOK
    <2> QED BY <1>0, <1>2, <2>1, <2>2, <2>3 DEF PlanTypeOK, ShapeInv, CopiesAre
<1>5. ASSUME NEW t \in Tasks, ChildEnds(t) PROVE ShapeInv'
    <2>1. PICK r \in working[t] :
              /\ working' = [working EXCEPT ![t] = @ \ {r}] /\ UNCHANGED planFile
              /\ \/ finished' = finished \cup {t} /\ UNCHANGED <<queued, parked>>
                 \/ /\ parked' = [parked EXCEPT ![t] = @ \cup {[rev |-> r, mark |-> 0]}]
                    /\ UNCHANGED <<queued, finished>>
                 \/ /\ queued' = [queued EXCEPT ![t] = [rev |-> r, mark |-> 0]]
                    /\ UNCHANGED <<finished, parked>>
        BY <1>5 DEF ChildEnds
    <2>2. r \in Revs
        BY <1>0 DEF PlanTypeOK
    <2>3. PICK c \in PlanCopies : c = [rev |-> r, mark |-> 0] /\ c.rev \in Revs
        <3>1. [rev |-> r, mark |-> 0] \in PlanCopies /\ [rev |-> r, mark |-> 0].rev \in Revs
            BY <2>2, PlansAre DEF PlanCopies
        <3> QED BY <3>1
    <2>4. working' \in [Tasks -> SUBSET Revs]
        BY <1>0, <2>1 DEF PlanTypeOK
    <2>5. CASE finished' = finished \cup {t} /\ UNCHANGED <<queued, parked>>
        BY <1>0, <1>2, <2>1, <2>4, <2>5 DEF PlanTypeOK, ShapeInv, CopiesAre
    <2>6. CASE parked' = [parked EXCEPT ![t] = @ \cup {[rev |-> r, mark |-> 0]}] /\ UNCHANGED <<queued, finished>>
        <3>1. /\ parked' \in [Tasks -> SUBSET PlanCopies]
              /\ \A s \in Tasks : parked'[s] \subseteq parked[s] \cup {c}
            BY <1>0, <2>3, <2>6 DEF PlanTypeOK
        <3> QED BY <1>0, <1>2, <2>1, <2>3, <2>4, <2>6, <3>1 DEF PlanTypeOK, ShapeInv, CopiesAre
    <2>7. CASE queued' = [queued EXCEPT ![t] = [rev |-> r, mark |-> 0]] /\ UNCHANGED <<finished, parked>>
        <3>1. queued' \in [Tasks -> PlanCopies] /\ \A s \in Tasks : queued'[s] \in {queued[s], c}
            BY <1>0, <2>3, <2>7 DEF PlanTypeOK
        <3> QED BY <1>0, <1>2, <2>1, <2>3, <2>4, <2>7, <3>1 DEF PlanTypeOK, ShapeInv, CopiesAre
    <2> QED BY <2>1, <2>5, <2>6, <2>7
<1>6. ASSUME NEW t \in Tasks, RetryChild(t) PROVE ShapeInv'
    <2>1. PICK c \in parked[t] :
              /\ queued' = [queued EXCEPT ![t] = [c EXCEPT !.mark = 0]]
              /\ parked' = [parked EXCEPT ![t] = @ \ {c}]
              /\ UNCHANGED <<planFile, working, finished>>
        BY <1>6 DEF RetryChild
    <2>2. c \in PlanCopies /\ c.rev \in Revs
        BY <1>0 DEF PlanTypeOK, ShapeInv, CopiesAre
    <2>3. PICK d \in PlanCopies : d = [c EXCEPT !.mark = 0] /\ d.rev \in Revs
        <3>1. [c EXCEPT !.mark = 0] \in PlanCopies /\ [c EXCEPT !.mark = 0].rev \in Revs
            BY <2>2, PlansAre DEF PlanCopies
        <3> QED BY <3>1
    <2>4. queued' \in [Tasks -> PlanCopies] /\ \A s \in Tasks : queued'[s] \in {queued[s], d}
        BY <1>0, <2>1, <2>3 DEF PlanTypeOK
    <2>5. parked' \in [Tasks -> SUBSET PlanCopies] /\ \A s \in Tasks : parked'[s] \subseteq parked[s]
        BY <1>0, <2>1 DEF PlanTypeOK
    <2> QED BY <1>0, <1>2, <2>1, <2>3, <2>4, <2>5 DEF PlanTypeOK, ShapeInv, CopiesAre
<1> QED BY <1>3, <1>4, <1>5, <1>6

LEMMA ShapeSteps == ShapeInv /\ PlanNext => ShapeInv'
BY CommandShape, CopyShape, OthersShape DEF PlanNext, DoorStep

LEMMA ExcusesStay == PlanNext => planExcuses \subseteq planExcuses'
BY DEF PlanNext, DoorStep, RunDoor, FindChild, ReadChild, MarkChild, MoveChild, LookForChild, SubmitChild, DoorEnds,
       KillDoor, EditPlan, ClaimChild, ChildEnds, RetryChild, PlanExcuse

\* What the steps do to the copies.
LEMMA CopiesRest ==
    ASSUME RunDoor \/ FindChild \/ ReadChild \/ LookForChild \/ DoorEnds \/ KillDoor \/ EditPlan
    PROVE  UNCHANGED <<queued, working, finished, parked>>
BY DEF RunDoor, FindChild, ReadChild, LookForChild, DoorEnds, KillDoor, EditPlan, QueueAlone, copyVars

LEMMA Marked ==
    ASSUME ShapeInv, MarkChild
    PROVE  /\ door.at = "mark" /\ Child \in ToSet(door.todo) /\ Child \in Tasks
           /\ UNCHANGED <<working, finished, parked, setRecord>>
           /\ queued'[Child] # NoCopy /\ queued'[Child].rev = door.held
           /\ \A t \in Tasks \ {Child} : queued'[t] = queued[t]
           /\ SameWalk(door, door') /\ door'.at = "move"
           /\ queued[Child] = NoCopy => "revived" \in planExcuses'
<1>1. door.at = "mark" /\ UNCHANGED <<working, finished, parked, setRecord>>
    BY DEF MarkChild, DoorAt
<1>2. /\ Child \in ToSet(door.todo) /\ Child \in Tasks /\ door.held \in Revs /\ door.rev \in Rev0
      /\ queued \in [Tasks -> PlanCopies] /\ door \in DoorRec
    BY <1>1, ChildIs, PlansAre DEF ShapeInv, CopiesAre, DoorAt, Disposing, DoorTyped, PlanTypeOK
<1>3. PICK c \in PlanCopies : c = [rev |-> door.held, mark |-> door.rev] /\ c.rev = door.held /\ c # NoCopy
    <2>1. /\ [rev |-> door.held, mark |-> door.rev] \in PlanCopies
          /\ [rev |-> door.held, mark |-> door.rev].rev = door.held
        BY <1>2, PlansAre DEF PlanCopies
    <2>2. [rev |-> door.held, mark |-> door.rev] # NoCopy
        BY <1>2, CopyIs
    <2> QED BY <2>1, <2>2
<1>4. queued' = [queued EXCEPT ![Child] = c]
    BY <1>3 DEF MarkChild
<1>5. /\ queued'[Child] # NoCopy /\ queued'[Child].rev = door.held
      /\ \A t \in Tasks \ {Child} : queued'[t] = queued[t]
    BY <1>2, <1>3, <1>4
<1>6. SameWalk(door, door') /\ door'.at = "move"
    BY <1>2, PlansAre DEF MarkChild, SameWalk, DoorRec, DoorSteps
<1>7. queued[Child] = NoCopy => "revived" \in planExcuses'
    BY DEF MarkChild, PlanExcuse
<1> QED BY <1>1, <1>2, <1>5, <1>6, <1>7

LEMMA Moved ==
    ASSUME ShapeInv, MoveChild
    PROVE  /\ door.at = "move" /\ UNCHANGED <<working, finished, setRecord>>
           /\ \A t \in Tasks : queued'[t] \in {queued[t], NoCopy}
           /\ \/ door' = Broken /\ UNCHANGED queued
              \/ door' = Disposed(door) /\ queued'[Child] = NoCopy
<1>1. Child \in Tasks /\ queued \in [Tasks -> PlanCopies] /\ door.at = "move"
    BY ChildIs DEF ShapeInv, Disposing, DoorTyped, PlanTypeOK, MoveChild, DoorAt
<1> QED BY <1>1 DEF MoveChild

LEMMA SubmittedIs ==
    ASSUME ShapeInv, SubmitChild, Submitted
    PROVE  /\ queued[Child] = NoCopy /\ queued'[Child] # NoCopy /\ queued'[Child].rev = door.rev
           /\ \A t \in Tasks \ {Child} : queued'[t] = queued[t]
           /\ Child \in Tasks /\ Child \in ToSet(door.todo)
<1>1. Child \in Tasks /\ Child \in ToSet(door.todo) /\ door.rev \in Revs /\ queued \in [Tasks -> PlanCopies]
    BY ChildIs DEF ShapeInv, FanningOut, DoorTyped, PlanTypeOK, SubmitChild, DoorAt
<1>2. PICK c \in PlanCopies : c = [rev |-> door.rev, mark |-> 0] /\ c.rev = door.rev /\ c # NoCopy
    <2>1. [rev |-> door.rev, mark |-> 0] \in PlanCopies /\ [rev |-> door.rev, mark |-> 0].rev = door.rev
        BY <1>1, PlansAre DEF PlanCopies
    <2>2. [rev |-> door.rev, mark |-> 0] # NoCopy
        BY <1>1, CopyIs, PlansAre
    <2> QED BY <2>1, <2>2
<1>3. queued[Child] = NoCopy /\ queued' = [queued EXCEPT ![Child] = c]
    BY <1>2 DEF Submitted
<1> QED BY <1>1, <1>2, <1>3

LEMMA ClaimedChild ==
    ASSUME ShapeInv, NEW t \in Tasks, ClaimChild(t)
    PROVE  /\ queued[t] # NoCopy /\ queued'[t] = NoCopy /\ \A s \in Tasks \ {t} : queued'[s] = queued[s]
           /\ working'[t] = working[t] \cup {queued[t].rev}
           /\ \A s \in Tasks \ {t} : working'[s] = working[s]
           /\ UNCHANGED <<finished, parked, door, setRecord, planExcuses>>
BY DEF ClaimChild, ShapeInv, DoorTyped, PlanTypeOK

LEMMA EndedChild ==
    ASSUME ShapeInv, NEW t \in Tasks, ChildEnds(t)
    PROVE  \E r \in working[t] :
              /\ working'[t] = working[t] \ {r} /\ \A s \in Tasks \ {t} : working'[s] = working[s]
              /\ UNCHANGED <<door, setRecord>>
              /\ \/ finished' = finished \cup {t} /\ UNCHANGED <<queued, parked, planExcuses>>
                 \/ /\ UNCHANGED <<queued, finished, planExcuses>>
                    /\ \E c \in parked'[t] : c.mark = 0
                    /\ \A s \in Tasks : parked[s] \subseteq parked'[s]
                 \/ /\ queued'[t] # NoCopy /\ \A s \in Tasks \ {t} : queued'[s] = queued[s]
                    /\ UNCHANGED <<finished, parked>> /\ queued[t] = NoCopy /\ "requeued" \in planExcuses'
<1>0. /\ queued \in [Tasks -> PlanCopies] /\ working \in [Tasks -> SUBSET Revs]
      /\ parked \in [Tasks -> SUBSET PlanCopies]
    BY DEF ShapeInv, DoorTyped, PlanTypeOK
<1>1. PICK r \in working[t] :
          /\ working' = [working EXCEPT ![t] = @ \ {r}] /\ UNCHANGED <<door, setRecord>>
          /\ \/ finished' = finished \cup {t} /\ UNCHANGED <<queued, parked, planExcuses>>
             \/ /\ parked' = [parked EXCEPT ![t] = @ \cup {[rev |-> r, mark |-> 0]}]
                /\ UNCHANGED <<queued, finished, planExcuses>>
             \/ /\ queued[t] = NoCopy /\ PlanExcuse("requeued")
                /\ queued' = [queued EXCEPT ![t] = [rev |-> r, mark |-> 0]]
                /\ UNCHANGED <<finished, parked>>
    BY DEF ChildEnds
<1>2. r \in Revs
    BY <1>0
<1>3. working'[t] = working[t] \ {r} /\ \A s \in Tasks \ {t} : working'[s] = working[s]
    BY <1>0, <1>1
<1>4. CASE finished' = finished \cup {t} /\ UNCHANGED <<queued, parked, planExcuses>>
    BY <1>1, <1>3, <1>4
<1>5. CASE /\ parked' = [parked EXCEPT ![t] = @ \cup {[rev |-> r, mark |-> 0]}]
           /\ UNCHANGED <<queued, finished, planExcuses>>
    <2>1. [rev |-> r, mark |-> 0] \in parked'[t] /\ \A s \in Tasks : parked[s] \subseteq parked'[s]
        BY <1>0, <1>5
    <2>2. [rev |-> r, mark |-> 0].mark = 0
        OBVIOUS
    <2> QED BY <1>1, <1>3, <1>5, <2>1, <2>2
<1>6. CASE /\ queued[t] = NoCopy /\ PlanExcuse("requeued")
           /\ queued' = [queued EXCEPT ![t] = [rev |-> r, mark |-> 0]]
           /\ UNCHANGED <<finished, parked>>
    <2>1. [rev |-> r, mark |-> 0] # NoCopy
        BY <1>2, CopyIs, PlansAre
    <2>2. queued'[t] # NoCopy /\ \A s \in Tasks \ {t} : queued'[s] = queued[s]
        BY <1>0, <1>6, <2>1
    <2> QED BY <1>1, <1>3, <1>6, <2>2 DEF PlanExcuse
<1> QED BY <1>1, <1>4, <1>5, <1>6

LEMMA RetriedChild ==
    ASSUME ShapeInv, NEW t \in Tasks, RetryChild(t)
    PROVE  /\ queued'[t] # NoCopy /\ \A s \in Tasks \ {t} : queued'[s] = queued[s] /\ parked'[s] = parked[s]
           /\ UNCHANGED <<working, finished, door, setRecord>> /\ "retried" \in planExcuses'
<1>0. /\ queued \in [Tasks -> PlanCopies] /\ parked \in [Tasks -> SUBSET PlanCopies]
      /\ \A c \in parked[t] : c.rev \in Revs
    BY DEF ShapeInv, DoorTyped, PlanTypeOK, CopiesAre
<1>1. PICK c \in parked[t] :
          /\ queued' = [queued EXCEPT ![t] = [c EXCEPT !.mark = 0]]
          /\ parked' = [parked EXCEPT ![t] = @ \ {c}]
          /\ UNCHANGED <<working, finished, door, setRecord>> /\ PlanExcuse("retried")
    BY DEF RetryChild
<1>2. c \in PlanCopies /\ c.rev \in Revs
    BY <1>0
<1>3. [c EXCEPT !.mark = 0].rev = c.rev /\ NoCopy.rev = 0
    BY <1>2 DEF PlanCopies, NoCopy
<1>4. [c EXCEPT !.mark = 0] # NoCopy
    BY <1>2, <1>3, PlansAre
<1>5. queued'[t] = [c EXCEPT !.mark = 0] /\ \A s \in Tasks \ {t} : queued'[s] = queued[s] /\ parked'[s] = parked[s]
    BY <1>0, <1>1
<1> QED BY <1>1, <1>4, <1>5 DEF PlanExcuse

-----------------------------------------------------------------------------
LEMMA OneTicketKept ==
    ASSUME ShapeInv, OneAtWork, NoSecondTicket, PlanNext
    PROVE  OneAtWork' /\ NoSecondTicket'
<1> DEFINE Single(t) == /\ working[t] # {} => t \notin finished
                        /\ \A r, s \in working[t] : r = s
                        /\ queued[t] # NoCopy => working[t] = {} /\ t \notin finished
<1> SUFFICES ASSUME planExcuses' \cap {"torn", "revived", "retried"} = {}, NEW t \in Tasks
             PROVE  Single(t)'
    BY DEF OneAtWork, NoSecondTicket
<1>0. planExcuses \cap {"torn", "revived", "retried"} = {}
    BY ExcusesStay
<1>1. \A s \in Tasks : Single(s)
    BY <1>0 DEF OneAtWork, NoSecondTicket
<1>2. CASE RunDoor \/ FindChild \/ ReadChild \/ LookForChild \/ DoorEnds \/ KillDoor \/ EditPlan
    BY <1>1, <1>2, CopiesRest
<1>3. CASE MarkChild
    <2>1. queued'[t] # NoCopy => queued[t] # NoCopy
        BY <1>3, Marked
    <2> QED BY <1>1, <1>3, <2>1, Marked
<1>4. CASE MoveChild
    BY <1>1, <1>4, Moved
<1>5. CASE SubmitChild
    <2>0. UNCHANGED <<working, finished>>
        BY <1>5 DEF SubmitChild
    <2>1. CASE UNCHANGED queued
        BY <1>1, <2>0, <2>1
    <2>2. CASE Submitted
        <3>1. ~Elsewhere
            BY <2>2 DEF Submitted, PlanExcuse
        <3> QED BY <1>1, <1>5, <2>0, <2>2, <3>1, SubmittedIs DEF Elsewhere
    <2> QED BY <1>5, <2>1, <2>2, Submits DEF StaysFailed, Strands
<1>6. ASSUME NEW k \in Tasks, ClaimChild(k) PROVE Single(t)'
    <2>1. CASE t # k
        BY <1>1, <1>6, <2>1, ClaimedChild
    <2>2. CASE t = k
        <3>1. working[t] = {} /\ t \notin finished
            BY <1>1, <1>6, <2>2, ClaimedChild
        <3> QED BY <1>6, <2>2, <3>1, ClaimedChild
    <2> QED BY <2>1, <2>2
<1>7. ASSUME NEW k \in Tasks, ChildEnds(k) PROVE Single(t)'
    <2>1. PICK r \in working[k] :
              /\ working'[k] = working[k] \ {r} /\ \A s \in Tasks \ {k} : working'[s] = working[s]
              /\ \/ finished' = finished \cup {k} /\ UNCHANGED queued
                 \/ UNCHANGED <<queued, finished>>
                 \/ /\ \A s \in Tasks \ {k} : queued'[s] = queued[s]
                    /\ UNCHANGED finished
        BY <1>7, EndedChild
    <2>2. CASE t # k
        BY <1>1, <2>1, <2>2
    <2>3. CASE t = k
        <3>1. working'[t] = {} /\ queued[t] = NoCopy /\ t \notin finished
            BY <1>1, <2>1, <2>3
        <3> QED BY <2>1, <2>3, <3>1
    <2> QED BY <2>2, <2>3
<1>8. ASSUME NEW k \in Tasks, RetryChild(k) PROVE FALSE
    BY <1>8, RetriedChild
<1> QED BY <1>2, <1>3, <1>4, <1>5, <1>6, <1>7, <1>8 DEF PlanNext, DoorStep

Somewhere(t) == Present(t) \/ parked[t] # {}

LEMMA StateIs ==
    ASSUME NEW t \in Tasks
    PROVE  /\ ChildState(t) = "absent" <=> ~Somewhere(t)
           /\ ChildState(t) = "superseded" <=> ~Present(t) /\ Somewhere(t)
BY DEF ChildState, Present, Somewhere

\* A copy does not get lost, except that an unclaimed one is disposed of.
LEMMA PresentStays ==
    ASSUME ShapeInv, PlanNext, door.at \notin Disposing, NEW t \in Tasks
    PROVE  (Present(t) => Present(t)') /\ (Somewhere(t) => Somewhere(t)')
<1>1. CASE RunDoor \/ FindChild \/ ReadChild \/ LookForChild \/ DoorEnds \/ KillDoor \/ EditPlan
    BY <1>1, CopiesRest DEF Present, Somewhere
<1>2. CASE MarkChild \/ MoveChild
    BY <1>2 DEF MarkChild, MoveChild, DoorAt, Disposing
<1>3. CASE SubmitChild
    <2>1. UNCHANGED <<working, finished, parked>>
        BY <1>3 DEF SubmitChild
    <2>2. queued[t] # NoCopy => queued'[t] # NoCopy
        BY <1>3, Submits, SubmittedIs DEF StaysFailed, Strands
    <2> QED BY <2>1, <2>2 DEF Present, Somewhere
<1>4. ASSUME NEW k \in Tasks, ClaimChild(k) PROVE (Present(t) => Present(t)') /\ (Somewhere(t) => Somewhere(t)')
    BY <1>4, ClaimedChild DEF Present, Somewhere
<1>5. ASSUME NEW k \in Tasks, ChildEnds(k) PROVE (Present(t) => Present(t)') /\ (Somewhere(t) => Somewhere(t)')
    <2>1. CASE t # k
        BY <1>5, <2>1, EndedChild DEF Present, Somewhere
    <2>2. CASE t = k
        <3>1. Present(t)'
            BY <1>5, <2>2, EndedChild DEF Present
        <3> QED BY <3>1 DEF Somewhere
    <2> QED BY <2>1, <2>2
<1>6. ASSUME NEW k \in Tasks, RetryChild(k) PROVE (Present(t) => Present(t)') /\ (Somewhere(t) => Somewhere(t)')
    BY <1>6, RetriedChild DEF Present, Somewhere
<1> QED BY <1>1, <1>2, <1>3, <1>4, <1>5, <1>6 DEF PlanNext, DoorStep

\* The walk of the fan-out has come to e: what it has passed is accounted for.
LEMMA FanPasses ==
    ASSUME ShapeInv, FanInv, PlanNext, door.at \in FanningOut,
           door'.rev = door.rev, door'.todo = Tail(door.todo), door.stranded \subseteq door'.stranded,
           NEW h \in Tasks, h = Child, Somewhere(h)' \/ h \in door'.stranded
    PROVE  FanInv'
<1> SUFFICES ASSUME NEW t \in ToSet(Plans[door.rev]) \ ToSet(Tail(door.todo))
             PROVE  Somewhere(t)' \/ t \in door'.stranded
    BY DEF FanInv, Somewhere
<1>0. door.rev \in Revs /\ ToSet(door.todo) \subseteq ToSet(Tail(door.todo)) \cup {Child}
    BY ChildIs DEF ShapeInv
<1>1. t \in Tasks
    BY <1>0, PlansAre
<1>2. CASE t = Child
    BY <1>2
<1>3. CASE t # Child
    <2>1. t \in ToSet(Plans[door.rev]) \ ToSet(door.todo)
        BY <1>0, <1>3
    <2>2. Somewhere(t) \/ t \in door.stranded
        BY <2>1 DEF FanInv, Somewhere
    <2>3. door.at \notin Disposing
        BY DEF FanningOut, Disposing
    <2> QED BY <1>1, <2>2, <2>3, PresentStays
<1> QED BY <1>2, <1>3

LEMMA FanBegins ==
    ASSUME door'.todo = Plans[door'.rev] \/ door'.at \notin FanningOut \cup {"record"}, door'.at # "ended" \/ door'.code # 0
    PROVE  FanInv' /\ SubmittedMeansQueued'
BY DEF FanInv, SubmittedMeansQueued

LEMMA DisposedFan ==
    ASSUME ShapeInv, door.at \in Disposing, door' = Disposed(door)
    PROVE  FanInv' /\ SubmittedMeansQueued'
<1>0. door \in DoorRec /\ door.todo # <<>> /\ door.rev \in Revs
    BY ChildIs DEF ShapeInv
<1>1. CASE Passes(door, door', "find", "record") /\ door'.at = "find"
    BY <1>1, FanBegins DEF FanningOut
<1>2. CASE BeginsFan(door, door')
    BY <1>2, FanBegins DEF BeginsFan
<1> QED BY <1>0, <1>1, <1>2, DisposedOf

LEMMA FanKept ==
    ASSUME ShapeInv, FanInv, SubmittedMeansQueued, PlanNext
    PROVE  FanInv' /\ SubmittedMeansQueued'
<1>b. ASSUME door' = Broken PROVE FanInv' /\ SubmittedMeansQueued'
    BY <1>b, BrokenIs, FanBegins DEF FanningOut
<1>0. PlanTypeOK
    BY DEF ShapeInv, DoorTyped
<1>1. CASE RunDoor
    <2>1. door'.todo = Plans[door'.rev] \/ door'.at = "find"
        BY <1>0, <1>1, RunsFrom
    <2>2. door'.at # "ended"
        BY <1>0, <1>1, RunsFrom
    <2> QED BY <2>1, <2>2, FanBegins DEF FanningOut
<1>2. CASE FindChild
    <2>1. door.at = "find"
        BY <1>2 DEF FindChild, DoorAt
    <2>2. CASE door' = Disposed(door)
        BY <2>1, <2>2, DisposedFan DEF Disposing
    <2>3. CASE door' = [door EXCEPT !.at = "read"]
        <3>1. door'.at = "read"
            BY <2>3 DEF ShapeInv, DoorTyped
        <3> QED BY <3>1, FanBegins DEF FanningOut
    <2> QED BY <1>2, <2>2, <2>3 DEF FindChild
<1>3. CASE ReadChild
    <2>1. CASE door' = [door EXCEPT !.at = "mark", !.held = queued[Child].rev]
        <3>1. door'.at = "mark"
            BY <2>1 DEF ShapeInv, DoorTyped
        <3> QED BY <3>1, FanBegins DEF FanningOut
    <2> QED BY <1>3, <1>b, <2>1 DEF ReadChild
<1>4. CASE MarkChild
    BY <1>4, Marked, FanBegins DEF FanningOut
<1>5. CASE MoveChild
    BY <1>5, <1>b, Moved, DisposedFan DEF Disposing
<1>6. CASE LookForChild
    <2>0. door.at \in FanningOut /\ Child \in Tasks
        BY <1>6, Looked, ChildIs DEF FanningOut, ShapeInv
    <2> PICK h \in Tasks : h = Child
        BY <2>0
    <2>1. UNCHANGED <<queued, working, finished, parked>>
        BY <1>6, CopiesRest
    <2>2. CASE /\ Passes(door, door', "done", "record")
               /\ Child \in finished \/ working[Child] # {} \/ queued[Child] # NoCopy
        <3>1. Somewhere(h)'
            BY <2>1, <2>2 DEF Somewhere, Present
        <3>2. FanInv'
            BY <2>0, <2>2, <3>1, FanPasses DEF Passes
        <3> QED BY <2>2, <3>2 DEF Passes, SubmittedMeansQueued
    <2>3. CASE SameWalk(door, door') /\ door'.at \in {"processing", "inbox", "failed"}
        BY <2>0, <2>1, <2>3 DEF SameWalk, FanInv, SubmittedMeansQueued, Present
    <2> QED BY <1>6, <2>2, <2>3, Looked
<1>7. CASE SubmitChild
    <2>0. door.at \in FanningOut /\ Child \in Tasks /\ UNCHANGED <<working, finished, parked>>
        BY <1>7, ChildIs DEF FanningOut, ShapeInv, SubmitChild, DoorAt
    <2> PICK h \in Tasks : h = Child
        BY <2>0
    <2>1. CASE StaysFailed
        <3>1. Somewhere(h)'
            BY <2>0, <2>1 DEF Somewhere, StaysFailed
        <3>2. FanInv'
            BY <2>0, <2>1, <3>1, FanPasses DEF Passes, StaysFailed
        <3> QED BY <2>1, <3>2 DEF Passes, SubmittedMeansQueued, StaysFailed
    <2>2. CASE Submitted
        <3>1. Somewhere(h)'
            <4>1. queued'[h] # NoCopy
                BY <1>7, <2>2, SubmittedIs
            <4> QED BY <4>1 DEF Somewhere, Present
        <3>2. FanInv'
            BY <2>0, <2>2, <3>1, FanPasses DEF PassesWith, Submitted
        <3> QED BY <2>2, <3>2 DEF PassesWith, SubmittedMeansQueued, Submitted
    <2>3. CASE Strands
        <3>1. FanInv'
            BY <2>0, <2>3, FanPasses DEF PassesWith, Strands
        <3> QED BY <2>3, <3>1 DEF PassesWith, SubmittedMeansQueued, Strands
    <2> QED BY <1>7, <2>1, <2>2, <2>3, Submits
<1>8. CASE DoorEnds
    <2>1. UNCHANGED <<queued, working, finished, parked>> /\ door.at = "record"
        BY <1>8, CopiesRest DEF DoorEnds, DoorAt
    <2>2. door.rev \in Revs /\ door.todo = <<>> /\ ToSet(door.todo) = {}
        BY <2>1, Walked DEF ShapeInv, DoorTyped, DoorWalks, DoorAt
    <2>3. door' = [NoDoor EXCEPT !.at = "ended", !.rev = door.rev, !.code = DoorCode]
        BY <1>8 DEF DoorEnds
    <2>4. door'.at = "ended" /\ door'.rev = door.rev /\ door'.code = DoorCode
        <3> HIDE DEF DoorCode
        <3> QED BY <2>3 DEF NoDoor
    <2>5. ASSUME DoorCode = 0, "masked" \notin planExcuses', NEW t \in ToSet(Plans[door.rev])
          PROVE  ChildState(t)' \notin {"absent", "superseded"}
        <3>1. door.stranded = {} /\ Stranded(door.rev) = {}
            BY <1>8, <2>5 DEF DoorEnds, DoorCode, PlanExcuse
        <3>2. t \in Tasks
            BY <2>2, PlansAre
        <3>3. Somewhere(t)
            BY <2>1, <2>2, <3>1 DEF FanInv, Somewhere
        <3>4. ChildState(t) # "superseded"
            BY <3>1 DEF Stranded
        <3>5. Present(t)
            BY <3>2, <3>3, <3>4, StateIs
        <3>6. ChildState(t)' = ChildState(t)
            BY <2>1 DEF ChildState
        <3> QED BY <3>2, <3>4, <3>5, <3>6, StateIs DEF Somewhere
    <2>6. SubmittedMeansQueued'
        BY <2>4, <2>5 DEF SubmittedMeansQueued
    <2> QED BY <2>4, <2>6 DEF FanInv, FanningOut
<1>9. CASE KillDoor
    BY <1>9, <1>b DEF KillDoor
<1>10. CASE EditPlan \/ \E t \in Tasks : ClaimChild(t) \/ ChildEnds(t) \/ RetryChild(t)
    <2>0. UNCHANGED door
        BY <1>10 DEF EditPlan, ClaimChild, ChildEnds, RetryChild
    <2>1. FanInv'
        <3> SUFFICES ASSUME door.at \in FanningOut \cup {"record"}, NEW t \in ToSet(Plans[door.rev]) \ ToSet(door.todo)
                     PROVE  Somewhere(t)' \/ t \in door.stranded
            BY <2>0 DEF FanInv, Somewhere
        <3>1. t \in Tasks
            BY PlansAre DEF ShapeInv, DoorWalks, DoorAt
        <3>2. Somewhere(t) \/ t \in door.stranded
            BY DEF FanInv, Somewhere
        <3>3. door.at \notin Disposing
            BY DEF FanningOut, Disposing
        <3> QED BY <3>1, <3>2, <3>3, PresentStays
    <2>2. SubmittedMeansQueued'
        <3> SUFFICES ASSUME door.at = "ended", door.code = 0, "masked" \notin planExcuses', NEW t \in ToSet(Plans[door.rev])
                     PROVE  ChildState(t)' \notin {"absent", "superseded"}
            BY <2>0 DEF SubmittedMeansQueued
        <3>1. t \in Tasks
            BY PlansAre DEF ShapeInv, DoorWalks, DoorAt
        <3>2. ChildState(t) \notin {"absent", "superseded"}
            BY ExcusesStay DEF SubmittedMeansQueued
        <3>3. Present(t)
            BY <3>1, <3>2, StateIs
        <3>4. door.at \notin Disposing
            BY DEF Disposing
        <3>5. Present(t)'
            BY <3>1, <3>3, <3>4, PresentStays
        <3> QED BY <3>5 DEF ChildState, Present
    <2> QED BY <2>1, <2>2
<1> QED BY <1>1, <1>2, <1>3, <1>4, <1>5, <1>6, <1>7, <1>8, <1>9, <1>10 DEF PlanNext, DoorStep

Unspoiled == planExcuses \cap {"cut", "retried", "requeued"} = {}

LEMMA Unspoilt == ASSUME PlanNext, Unspoiled' PROVE Unspoiled
BY ExcusesStay DEF Unspoiled

\* The head of the walk is disposed of.
LEMMA DisposedRecord ==
    ASSUME ShapeInv, door.at \in Disposing, QueuedAre(setRecord, ToSet(door.todo)),
           door' = Disposed(door), UNCHANGED setRecord,
           NEW h \in Tasks, h = Child, queued'[h] = NoCopy,
           \A t \in Tasks : queued'[t] \in {queued[t], NoCopy}
    PROVE  RecordInv'
<1>0. /\ door \in DoorRec /\ door.todo # <<>> /\ door.rev \in Revs /\ Tail(door.todo) \in Seq(Tasks)
      /\ ToSet(door.todo) \subseteq ToSet(Tail(door.todo)) \cup {h}
    BY ChildIs DEF ShapeInv
<1>2. ASSUME NEW t \in Tasks, queued'[t] # NoCopy
      PROVE  queued'[t].rev = setRecord /\ t \in ToSet(Tail(door.todo))
    <2>1. t # h /\ queued'[t] = queued[t]
        BY <1>2
    <2>2. queued[t].rev = setRecord /\ t \in ToSet(door.todo)
        BY <1>2, <2>1 DEF QueuedAre
    <2> QED BY <1>0, <2>1, <2>2
<1>3. CASE Passes(door, door', "find", "record") /\ door'.at = "find"
    <2>1. door'.todo = Tail(door.todo)
        BY <1>3 DEF Passes
    <2>2. QueuedAre(setRecord, ToSet(door.todo))'
        BY <1>2, <2>1 DEF QueuedAre
    <2> QED BY <1>3, <2>2 DEF RecordInv, DoorAt, FanningOut, Disposing
<1>4. CASE BeginsFan(door, door') /\ Tail(door.todo) = <<>>
    <2>1. ToSet(Tail(door.todo)) = {}
        BY <1>0, <1>4, Walked
    <2>2. QueuedAre(door.rev, ToSet(Plans[door.rev]))'
        BY <1>2, <2>1 DEF QueuedAre
    <2> QED BY <1>4, <2>2 DEF RecordInv, BeginsFan, DoorAt, FanningOut, Disposing
<1> QED BY <1>0, <1>3, <1>4, DisposedOf

LEMMA BrokenRecord ==
    ASSUME ShapeInv, door.at \in Disposing, QueuedAre(setRecord, ToSet(door.todo)),
           door' = Broken, UNCHANGED <<setRecord, queued>>
    PROVE  RecordInv'
<1>1. setRecord \in Revs /\ setRecord # 0 /\ ToSet(door.todo) \subseteq ToSet(Plans[setRecord])
    BY PlansAre DEF ShapeInv, DoorWalks
<1>2. QueuedAre(setRecord, ToSet(Plans[setRecord]))'
    BY <1>1 DEF QueuedAre
<1> QED BY <1>1, <1>2, BrokenIs DEF RecordInv, DoorAt, FanningOut, Disposing

LEMMA FanRecord ==
    ASSUME door'.at \in FanningOut \cup {"record"}, UNCHANGED queued, door'.rev = door.rev,
           QueuedAre(door.rev, ToSet(Plans[door.rev]))
    PROVE  RecordInv'
BY DEF RecordInv, QueuedAre, DoorAt, FanningOut, Disposing

LEMMA RecordKept ==
    ASSUME ShapeInv, RecordInv, PlanNext
    PROVE  RecordInv'
<1> SUFFICES ASSUME Unspoiled' PROVE RecordInv'
    BY DEF RecordInv, Unspoiled
<1>u. Unspoiled
    BY Unspoilt
<1>0. PlanTypeOK
    BY DEF ShapeInv, DoorTyped
<1>d. ASSUME door.at \in Disposing PROVE QueuedAre(setRecord, ToSet(door.todo))
    BY <1>u, <1>d DEF RecordInv, Unspoiled
<1>f. ASSUME door.at \in FanningOut \cup {"record"}
      PROVE  QueuedAre(door.rev, ToSet(Plans[door.rev]))
    BY <1>u, <1>f DEF RecordInv, Unspoiled
<1>1. CASE RunDoor
    <2>1. UNCHANGED <<queued, setRecord>> /\ door.at \in {"idle", "ended"}
        BY <1>1 DEF RunDoor, QueueAlone, copyVars
    <2>2. QueuedAre(setRecord, IF setRecord = 0 THEN {} ELSE ToSet(Plans[setRecord]))
        BY <1>u, <2>1 DEF RecordInv, Unspoiled
    <2>3. CASE setRecord \in {0, planFile} /\ door'.at = "done" /\ door'.rev = planFile
        <3>1. QueuedAre(planFile, ToSet(Plans[planFile]))
            BY <2>2, <2>3 DEF QueuedAre
        <3>2. QueuedAre(door.rev, ToSet(Plans[door.rev]))'
            BY <2>1, <2>3, <3>1 DEF QueuedAre
        <3> QED BY <2>3, <3>2 DEF RecordInv, DoorAt, FanningOut, Disposing
    <2>4. CASE setRecord \in Revs /\ door'.at = "find" /\ door'.todo = Plans[setRecord]
        <3>1. QueuedAre(setRecord, ToSet(Plans[setRecord]))
            BY <2>2, <2>4, PlansAre DEF QueuedAre
        <3>2. QueuedAre(setRecord, ToSet(door.todo))'
            BY <2>1, <2>4, <3>1 DEF QueuedAre
        <3> QED BY <2>4, <3>2 DEF RecordInv, DoorAt, FanningOut, Disposing
    <2> QED BY <1>0, <1>1, <2>3, <2>4, RunsFrom
<1>2. CASE FindChild
    <2>1. door.at = "find" /\ door.at \in Disposing /\ UNCHANGED <<queued, setRecord>>
        BY <1>2 DEF FindChild, DoorAt, Disposing, QueueAlone, copyVars
    <2>2. CASE queued[Child] = NoCopy /\ door' = Disposed(door)
        <3>1. PICK h \in Tasks : h = Child
            BY <2>1, ChildIs DEF ShapeInv
        <3> QED BY <1>d, <2>1, <2>2, <3>1, DisposedRecord
    <2>3. CASE door' = [door EXCEPT !.at = "read"]
        <3>1. door'.at = "read" /\ door'.todo = door.todo
            BY <2>3 DEF ShapeInv, DoorTyped
        <3>2. QueuedAre(setRecord, ToSet(door.todo))'
            BY <1>d, <2>1, <3>1 DEF QueuedAre
        <3> QED BY <3>1, <3>2 DEF RecordInv, DoorAt, FanningOut, Disposing
    <2> QED BY <1>2, <2>2, <2>3 DEF FindChild
<1>3. CASE ReadChild
    <2>1. door.at = "read" /\ door.at \in Disposing /\ UNCHANGED <<queued, setRecord>>
        BY <1>3 DEF ReadChild, DoorAt, Disposing, QueueAlone, copyVars
    <2>2. CASE door' = Broken
        BY <1>d, <2>1, <2>2, BrokenRecord
    <2>3. CASE queued[Child] # NoCopy /\ door' = [door EXCEPT !.at = "mark", !.held = queued[Child].rev]
        <3>0. Child \in Tasks
            BY <2>1, ChildIs DEF ShapeInv
        <3>1. door'.at = "mark" /\ door'.todo = door.todo /\ door'.held = queued[Child].rev
            BY <2>3 DEF ShapeInv, DoorTyped
        <3>2. QueuedAre(setRecord, ToSet(door.todo))'
            BY <1>d, <2>1, <3>1 DEF QueuedAre
        <3>3. door'.held = setRecord'
            BY <1>d, <2>1, <2>3, <3>0, <3>1 DEF QueuedAre
        <3> QED BY <3>1, <3>2, <3>3 DEF RecordInv, DoorAt, FanningOut, Disposing
    <2> QED BY <1>3, <2>2, <2>3 DEF ReadChild
<1>4. CASE MarkChild
    <2>1. door.at = "mark" /\ door.at \in Disposing /\ UNCHANGED setRecord
        BY <1>4, Marked DEF Disposing
    <2>2. door.held = setRecord
        BY <1>u, <2>1 DEF RecordInv, Unspoiled, DoorAt
    <2>3. PICK h \in Tasks : h = Child
        BY <2>1, ChildIs DEF ShapeInv
    <2>4. /\ queued'[h].rev = setRecord /\ h \in ToSet(door.todo) /\ door'.at = "move" /\ door'.todo = door.todo
          /\ \A t \in Tasks \ {h} : queued'[t] = queued[t]
        BY <1>4, <2>2, <2>3, Marked DEF SameWalk
    <2>5. QueuedAre(setRecord, ToSet(door.todo))'
        BY <1>d, <2>1, <2>4 DEF QueuedAre
    <2> QED BY <2>4, <2>5 DEF RecordInv, DoorAt, FanningOut, Disposing
<1>5. CASE MoveChild
    <2>1. door.at \in Disposing /\ UNCHANGED setRecord /\ \A t \in Tasks : queued'[t] \in {queued[t], NoCopy}
        BY <1>5, Moved DEF Disposing
    <2>2. CASE door' = Broken /\ UNCHANGED queued
        BY <1>d, <2>1, <2>2, BrokenRecord
    <2>3. CASE door' = Disposed(door) /\ queued'[Child] = NoCopy
        <3>1. PICK h \in Tasks : h = Child
            BY <2>1, ChildIs DEF ShapeInv
        <3> QED BY <1>d, <2>1, <2>3, <3>1, DisposedRecord
    <2> QED BY <1>5, <2>2, <2>3, Moved
<1>6. CASE LookForChild
    <2>0. door.at \in FanningOut \cup {"record"} /\ UNCHANGED queued
        BY <1>6, Looked, CopiesRest DEF FanningOut
    <2>1. door'.at \in FanningOut \cup {"record"} /\ door'.rev = door.rev
        BY <1>6, Looked DEF Passes, SameWalk, FanningOut
    <2> QED BY <1>f, <2>0, <2>1, FanRecord
<1>7. CASE SubmitChild
    <2>0. /\ door.at \in FanningOut /\ door.at \in FanningOut \cup {"record"}
          /\ door.rev \in Revs /\ ToSet(door.todo) \subseteq ToSet(Plans[door.rev])
        BY <1>7 DEF FanningOut, SubmitChild, DoorAt, ShapeInv, DoorWalks
    <2>1. door'.at \in FanningOut \cup {"record"} /\ door'.rev = door.rev
        BY <1>7, Submits DEF StaysFailed, Submitted, Strands, Passes, PassesWith, FanningOut
    <2>2. CASE UNCHANGED queued
        BY <1>f, <2>0, <2>1, <2>2, FanRecord
    <2>3. CASE Submitted
        <3>1. PICK h \in Tasks : h = Child
            BY <1>7, <2>3, SubmittedIs
        <3>2. /\ queued'[h].rev = door.rev /\ h \in ToSet(Plans[door.rev])
              /\ \A t \in Tasks \ {h} : queued'[t] = queued[t]
            BY <1>7, <2>0, <2>3, <3>1, SubmittedIs
        <3>3. QueuedAre(door.rev, ToSet(Plans[door.rev]))'
            BY <1>f, <2>0, <2>1, <3>2 DEF QueuedAre
        <3> QED BY <2>1, <3>3 DEF RecordInv, DoorAt, FanningOut, Disposing
    <2> QED BY <1>7, <2>2, <2>3, Submits DEF StaysFailed, Strands
<1>8. CASE DoorEnds
    <2>1. UNCHANGED queued /\ door.at \in FanningOut \cup {"record"} /\ setRecord' = door.rev
        BY <1>8, CopiesRest DEF DoorEnds, DoorAt, Materialize
    <2>2. door.rev \in Revs /\ door.rev # 0
        BY <1>8, PlansAre DEF DoorEnds, DoorAt, ShapeInv, DoorWalks
    <2>3. door' = [NoDoor EXCEPT !.at = "ended", !.rev = door.rev, !.code = DoorCode]
        BY <1>8 DEF DoorEnds
    <2>4. door'.at = "ended"
        <3> HIDE DEF DoorCode
        <3> QED BY <2>3 DEF NoDoor
    <2>5. QueuedAre(setRecord, ToSet(Plans[setRecord]))'
        BY <1>f, <2>1 DEF QueuedAre
    <2> QED BY <2>1, <2>2, <2>4, <2>5 DEF RecordInv, DoorAt, FanningOut, Disposing
<1>9. CASE KillDoor
    BY <1>9 DEF KillDoor, PlanExcuse, Unspoiled
<1>10. CASE EditPlan
    <2>1. UNCHANGED <<queued, door, setRecord, planExcuses>>
        BY <1>10 DEF EditPlan, QueueAlone, copyVars
    <2> QED BY <2>1 DEF RecordInv, QueuedAre, DoorAt
<1>11. ASSUME NEW k \in Tasks, ClaimChild(k) \/ ChildEnds(k) PROVE RecordInv'
    <2>1. /\ UNCHANGED <<door, setRecord>> /\ UNCHANGED planExcuses
          /\ \A t \in Tasks : queued'[t] \in {queued[t], NoCopy}
        BY <1>11, ClaimedChild, EndedChild DEF Unspoiled
    <2> QED BY <2>1 DEF RecordInv, QueuedAre, DoorAt
<1>12. ASSUME NEW k \in Tasks, RetryChild(k) PROVE RecordInv'
    BY <1>12, RetriedChild DEF Unspoiled
<1> QED BY <1>1, <1>2, <1>3, <1>4, <1>5, <1>6, <1>7, <1>8, <1>9, <1>10, <1>11, <1>12 DEF PlanNext, DoorStep

LEMMA PlanInvInit == PlanInit => PlanInv
<1> SUFFICES ASSUME PlanInit PROVE PlanInv
    OBVIOUS
<1> USE DEF PlanInit, PlanIdle
<1>1. DoorTyped
    <2>1. NoCopy \in PlanCopies /\ Rev0 = Revs \cup {0}
        BY CopyIs DEF Rev0
    <2>2. PlanTypeOK
        BY <2>1, NoDoorIs, Walked DEF PlanTypeOK, DoorRec
    <2> QED BY <2>2, NoDoorIs DEF DoorTyped, DoorRec
<1>2. CopiesAre /\ DoorWalks
    BY NoDoorIs DEF CopiesAre, DoorWalks, DoorAt, Disposing, FanningOut
<1>3. FanInv /\ SubmittedMeansQueued /\ OneAtWork /\ NoSecondTicket
    BY NoDoorIs DEF FanInv, SubmittedMeansQueued, OneAtWork, NoSecondTicket, FanningOut
<1>4. RecordInv
    BY NoDoorIs DEF RecordInv, QueuedAre, DoorAt, Disposing, FanningOut
<1> QED BY <1>1, <1>2, <1>3, <1>4 DEF PlanInv

LEMMA PlanInvSteps == PlanInv /\ PlanNext => PlanInv'
BY ShapeSteps, FanKept, OneTicketKept, RecordKept DEF PlanInv, ShapeInv

LEMMA PlanInvStutters == PlanInv /\ UNCHANGED planVars => PlanInv'
<1> SUFFICES ASSUME PlanInv, UNCHANGED planVars PROVE PlanInv'
    OBVIOUS
<1> USE DEF PlanInv, planVars
<1>1. DoorTyped' /\ CopiesAre' /\ DoorWalks'
    BY DEF DoorTyped, PlanTypeOK, CopiesAre, DoorWalks, DoorAt
<1>2. FanInv' /\ OneAtWork' /\ NoSecondTicket'
    BY DEF FanInv, Present, OneAtWork, NoSecondTicket
<1>3. SubmittedMeansQueued'
    BY DEF SubmittedMeansQueued, ChildState
<1>4. RecordInv'
    BY DEF RecordInv, QueuedAre, DoorAt
<1> QED BY <1>1, <1>2, <1>3, <1>4

LEMMA PlanInvSound == PlanInv => PlanTypeOK /\ PlanDoorHolds
<1> SUFFICES ASSUME PlanInv PROVE PlanTypeOK /\ PlanDoorHolds
    OBVIOUS
<1>1. RecordIsWhatIsQueued
    BY DEF PlanInv, RecordInv, RecordIsWhatIsQueued, QueuedAre
<1> QED BY <1>1 DEF PlanInv, DoorTyped, PlanDoorHolds

-----------------------------------------------------------------------------
(* The lint of a ticket's text.                                            *)

Reads == [at : {"before", "in", "past"}, block : BlockStates, found : BOOLEAN]

\* What the worker has open the lint has open too, and the lint has found what it found.
LintInv ==
    /\ PlanLintTypeOK
    /\ ~misled =>
         /\ linted.at = executed.at
         /\ executed.block # "none" => linted.block = executed.block
         /\ executed.found => linted.found

LEMMA SectionIs ==
    ASSUME NEW r \in Reads, NEW line \in Lines \cup {"end"}, NEW names, NEW opens
    PROVE  Section(r, line, names, opens) \in Reads
BY DEF Section, BlockAfter, Reads, BlockStates

LEMMA LintInvIdle == LintAtRest /\ style \in Styles => LintInv
<1> SUFFICES ASSUME LintAtRest, style \in Styles PROVE LintInv
    OBVIOUS
<1>1. NothingRead \in Reads /\ ran \in 0 .. MaxBlocks
    BY PlanLintAssumption DEF LintAtRest, NothingRead, Reads, BlockStates
<1>2. linted = NothingRead /\ executed = NothingRead
    BY DEF LintAtRest
<1>4. PlanLintTypeOK
    BY <1>1, <1>2 DEF LintAtRest, PlanLintTypeOK, Reads
<1> QED BY <1>2, <1>4 DEF LintInv

LEMMA LintInvInit == (PlanLintInit => LintInv) /\ (PlanLintIdle => LintInv)
<1>1. (CHOOSE s \in Styles : TRUE) \in Styles
    BY PlanLintAssumption
<1> QED BY <1>1, LintInvIdle DEF PlanLintInit, PlanLintIdle

LEMMA LintReads ==
    ASSUME PlanLintTypeOK, NEW line \in Lines, checkNoCdInVerification(line)
    PROVE  /\ linted' \in Reads
           /\ linted'.at = Section(linted, line, {"verification", "likeness"}, LintOpens).at
           /\ linted'.block = Section(linted, line, {"verification", "likeness"}, LintOpens).block
           /\ linted'.found = (linted.found \/ (BlockEnds(linted, line) /\ linted.block = "cd"))
<1> DEFINE s == Section(linted, line, {"verification", "likeness"}, LintOpens)
<1>1. linted \in Reads
    BY DEF PlanLintTypeOK, Reads
<1>2. s \in Reads /\ s.found = linted.found
    BY <1>1, SectionIs DEF Section
<1>3. linted' = [s EXCEPT !.found = @ \/ (BlockEnds(linted, line) /\ linted.block = "cd")]
    BY DEF checkNoCdInVerification
<1>4. BlockEnds(linted, line) \in BOOLEAN /\ linted.found \in BOOLEAN
    BY <1>1 DEF BlockEnds, Reads
<1> HIDE DEF s
<1>5. linted' \in Reads /\ linted'.at = s.at /\ linted'.block = s.block
      /\ linted'.found = (linted.found \/ (BlockEnds(linted, line) /\ linted.block = "cd"))
    BY <1>2, <1>3, <1>4 DEF Reads
<1> QED BY <1>5 DEF s

LEMMA WorkerReads ==
    ASSUME PlanLintTypeOK, NEW line \in Lines, extractVerificationBlocks(line)
    PROVE  /\ executed' \in Reads /\ ran' \in 0 .. MaxBlocks
           /\ executed'.at = Section(executed, line, {"verification"}, RunOpens).at
           /\ executed'.block = Section(executed, line, {"verification"}, RunOpens).block
           /\ executed'.found => executed.found \/ (BlockEnds(executed, line) /\ executed.block = "cd")
<1> DEFINE s == Section(executed, line, {"verification"}, RunOpens)
           tried == BlockEnds(executed, line) /\ executed.block # "empty" /\ ran < MaxBlocks
<1>1. executed \in Reads
    BY DEF PlanLintTypeOK, Reads
<1>2. s \in Reads /\ s.found = executed.found
    BY <1>1, SectionIs DEF Section
<1>3. executed' = [s EXCEPT !.found = @ \/ (tried /\ executed.block = "cd")] /\ ran' = IF tried THEN ran + 1 ELSE ran
    BY DEF extractVerificationBlocks
<1>4. tried \in BOOLEAN /\ executed.found \in BOOLEAN /\ (tried => BlockEnds(executed, line))
    BY <1>1 DEF BlockEnds, Reads
<1>5. ran' \in 0 .. MaxBlocks
    BY <1>3, PlanLintAssumption DEF PlanLintTypeOK
<1> HIDE DEF s, tried
<1>6. executed' \in Reads /\ executed'.at = s.at /\ executed'.block = s.block
      /\ (executed'.found => executed.found \/ (tried /\ executed.block = "cd"))
    BY <1>2, <1>3, <1>4 DEF Reads
<1> QED BY <1>4, <1>5, <1>6 DEF s

LEMMA LintInvSteps == LintInv /\ PlanLintNext => LintInv'
<1> SUFFICES ASSUME LintInv, PlanLintNext PROVE LintInv'
    OBVIOUS
<1>0. PlanLintTypeOK
    BY DEF LintInv
<1>1. CASE PageEnds
    <2>1. PlanLintTypeOK'
        BY <1>0, <1>1 DEF PageEnds, PlanLintTypeOK
    <2> QED BY <1>1, <2>1 DEF LintInv, PageEnds
<1>2. ASSUME NEW line \in Lines, ReadLine(line) PROVE LintInv'
    <2>1. /\ checkNoCdInVerification(line) /\ extractVerificationBlocks(line)
          /\ misled' = (misled \/ Misleads(line)) /\ UNCHANGED <<page, style>>
        BY <1>2 DEF ReadLine
    <2>2. linted' \in Reads /\ executed' \in Reads /\ ran' \in 0 .. MaxBlocks
        BY <1>0, <2>1, LintReads, WorkerReads
    <2>3. misled \in BOOLEAN /\ Misleads(line) \in BOOLEAN
        BY <1>0 DEF PlanLintTypeOK, Misleads
    <2>4. PlanLintTypeOK'
        BY <1>0, <2>1, <2>2, <2>3 DEF PlanLintTypeOK, Reads
    <2>5. ASSUME ~misled, ~Misleads(line)
          PROVE  /\ linted'.at = executed'.at
                 /\ executed'.block # "none" => linted'.block = executed'.block
                 /\ executed'.found => linted'.found
        <3>1. /\ linted.at = executed.at
              /\ executed.found => linted.found
              /\ executed.block # "none" => linted.block = executed.block
            BY <2>5 DEF LintInv
        <3>2. linted \in Reads /\ executed \in Reads
            BY <1>0 DEF PlanLintTypeOK, Reads
        <3> DEFINE l == Section(linted, line, {"verification", "likeness"}, LintOpens)
                   x == Section(executed, line, {"verification"}, RunOpens)
        <3>a. linted'.at = l.at /\ linted'.block = l.block
              /\ linted'.found = (linted.found \/ (BlockEnds(linted, line) /\ linted.block = "cd"))
            BY <1>0, <2>1, LintReads
        <3>b. executed'.at = x.at /\ executed'.block = x.block
              /\ (executed'.found => executed.found \/ (BlockEnds(executed, line) /\ executed.block = "cd"))
            BY <1>0, <2>1, WorkerReads
        <3>3. l.at = x.at
            BY <2>5, <3>1, <3>2 DEF Section, Misleads, Sections, Reads
        <3>4. ASSUME x.block # "none" PROVE l.block = x.block
            <4>1. executed.at = "in" /\ x.block = BlockAfter(executed.block, line, RunOpens)
                BY <3>4 DEF Section
            <4>2. l.block = BlockAfter(linted.block, line, LintOpens)
                BY <3>1, <4>1 DEF Section
            <4>3. line \notin Tagged \ {"bash", "sh"} /\ (line \in {"bash", "sh"} => linted.block = "none")
                BY <2>5, <4>1 DEF Misleads
            <4>4. linted.block \in BlockStates /\ executed.block \in BlockStates
                BY <3>2 DEF Reads
            <4> QED BY <3>1, <3>4, <4>1, <4>2, <4>3, <4>4
                    DEF BlockAfter, Fences, Tagged, LintOpens, RunOpens, BlockStates
        <3>5. ASSUME executed'.found PROVE linted'.found
            <4>1. CASE executed.found
                BY <3>1, <3>a, <4>1
            <4>2. CASE BlockEnds(executed, line) /\ executed.block = "cd"
                BY <3>1, <3>a, <4>2 DEF BlockEnds
            <4> QED BY <3>5, <3>b, <4>1, <4>2
        <3> HIDE DEF l, x
        <3> QED BY <3>a, <3>b, <3>3, <3>4, <3>5
    <2> QED BY <2>1, <2>4, <2>5 DEF LintInv
<1> QED BY <1>1, <1>2 DEF PlanLintNext

LEMMA LintInvStutters == LintInv /\ UNCHANGED lintVars => LintInv'
BY DEF LintInv, lintVars, PlanLintTypeOK

LEMMA LintInvSound == LintInv => PlanLintTypeOK /\ CheckedIsWhatRuns
BY DEF LintInv, CheckedIsWhatRuns

-----------------------------------------------------------------------------
(* The worktrees.                                                          *)

\* Whatever has a run has its repository for itself; its file and its name are
\* where a prune looks for them.
RunsInv ==
    /\ \A j, k \in Jobs : stage[j] # "none" /\ stage[k] # "none" /\ scene.of[j].repo = scene.of[k].repo => j = k
    /\ \A j \in Jobs : stage[j] \in Unfinished => filed[j] = "processing"
    /\ \A j \in Jobs : stage[j] # "none" /\ ~Twin(j) => Slug(j) \in current
    /\ \A j \in Jobs : stage[j] # "none" => workerUp

\* A prune at work holds the lock, is past the gate when it removes, and has the
\* slug of every run that was there when it looked and that can be told.
OfPrune(p) ==
    prune[p].step # "idle" =>
      /\ rootLock = p
      /\ prune[p].step = "remove" => prune[p].target.kind = "tree"
      /\ prune[p].step \in Removing /\ prune[p].target.kind = "tree" =>
           prune[p].target.at[2] \notin prune[p].liveSlugs
      /\ prune[p].step = "ask" => ~prune[p].heard
      /\ \A j \in Jobs \ prune[p].since :
           stage[j] \in Unfinished /\ (scene.of[j].named \/ (prune[p].heard /\ ~Twin(j))) =>
             Slug(j) \in prune[p].liveSlugs
PrunesInv == \A p \in Pruners : OfPrune(p)

TreesKept ==
    /\ \A j \in Jobs : stage[j] = "live" => trees[TreeOf(j)] = "whole" \/ robbed[j] # "no"
    /\ \A j \in Jobs : robbed[j] # "seen"

TreesInv == WorktreesTypeOK /\ RunsInv /\ PrunesInv /\ TreesKept

\* The scene is one of SceneOf.
LEMMA SceneIs ==
    ASSUME WorktreesTypeOK, NEW j \in Jobs
    PROVE  /\ scene.of[j].repo \in {"A", "B"} /\ Slug(j) \in {"x", "y"} /\ scene.of[j].named \in BOOLEAN
           /\ TreeOf(j) \in Places /\ scene.starts \in Nat
<1>1. scene \in SceneOf
    BY WorktreesAssumption DEF WorktreesTypeOK
<1>2. scene.of[j] \in [repo : {"A", "B"}, slug : {"x", "y"}, named : BOOLEAN] /\ scene.starts \in Nat
    BY <1>1 DEF SceneOf
<1> QED BY <1>2 DEF TreeOf, Slug, Places

LEMMA WorkersAre ==
    ASSUME NEW j \in Jobs, NEW p \in Pruners
    PROVE  j # p /\ j # Nobody /\ p # Nobody
BY WorktreesAssumption

LEMMA PruneIs ==
    ASSUME WorktreesTypeOK, NEW p \in Pruners
    PROVE  (prune[p].step # "idle" => prune[p] \in Pruning) /\ (prune[p].step = "idle" => prune[p] = NoPrune)
BY DEF WorktreesTypeOK, Pruning, NoPrune, PruneAsks, Removing

\* Two runs never share a tree.
LEMMA OwnTrees ==
    ASSUME RunsInv, NEW j \in Jobs, NEW k \in Jobs, stage[j] # "none", stage[k] # "none", j # k
    PROVE  TreeOf(j) # TreeOf(k)
BY DEF RunsInv, TreeOf

LEMMA TreesIdle == TreesAtRest /\ scene \in Scenes => TreesInv
<1> SUFFICES ASSUME TreesAtRest, scene \in Scenes PROVE TreesInv
    OBVIOUS
<1>1. scene.left \in TreeStates /\ scene.starts \in Nat
    BY WorktreesAssumption DEF SceneOf
<1>2. WorktreesTypeOK
    BY <1>1 DEF TreesAtRest, WorktreesTypeOK, Stages, TreeStates
<1>3. RunsInv /\ PrunesInv /\ TreesKept
    BY DEF TreesAtRest, RunsInv, PrunesInv, OfPrune, TreesKept, NoPrune, Unfinished
<1> QED BY <1>2, <1>3 DEF TreesInv

LEMMA TreesInvInit == (WorktreesInit => TreesInv) /\ (WorktreesIdle => TreesInv)
<1>1. (CHOOSE s \in Scenes : TRUE) \in Scenes
    BY WorktreesAssumption
<1> QED BY <1>1, TreesIdle DEF WorktreesInit, WorktreesIdle

\* A run's steps leave a prune what it knows.
LEMMA PrunesKept ==
    ASSUME PrunesInv, UNCHANGED <<scene, prune>>, \A p \in Pruners : rootLock = p => rootLock' = p,
           \A k \in Jobs : stage'[k] \in Unfinished => stage[k] \in Unfinished
    PROVE  PrunesInv'
<1> SUFFICES ASSUME NEW p \in Pruners PROVE OfPrune(p)'
    BY DEF PrunesInv
<1>1. OfPrune(p)
    BY DEF PrunesInv
<1> QED BY <1>1 DEF OfPrune, Twin, Slug

\* What a step does to the tree of j no other run notices.
LEMMA OneTree ==
    ASSUME TreesInv, NEW j \in Jobs, stage[j] # "none", UNCHANGED <<scene, robbed>>,
           \A w \in Places : w # TreeOf(j) => trees'[w] = trees[w],
           \A k \in Jobs : k # j => stage'[k] = stage[k],
           stage'[j] = "live" => trees'[TreeOf(j)] = "whole"
    PROVE  TreesKept'
<1> SUFFICES ASSUME NEW k \in Jobs PROVE (stage'[k] = "live" => trees'[TreeOf(k)] = "whole" \/ robbed'[k] # "no") /\ robbed'[k] # "seen"
    BY DEF TreesKept, TreeOf
<1>1. TreesKept /\ RunsInv /\ WorktreesTypeOK
    BY DEF TreesInv
<1>2. TreeOf(k) \in Places
    BY <1>1, SceneIs
<1>3. CASE k = j
    BY <1>1, <1>3 DEF TreesKept
<1>4. CASE k # j
    BY <1>1, <1>2, <1>4, OwnTrees DEF TreesKept
<1> QED BY <1>3, <1>4

\* One run moves on.
LEMMA RunMoves ==
    ASSUME WorktreesTypeOK, RunsInv, NEW j \in Jobs, NEW s \in Stages, To(j, s), UNCHANGED <<scene, workerUp>>,
           stage[j] # "none", s # "none",
           UNCHANGED current, \A k \in Jobs : k # j => filed'[k] = filed[k],
           s \in Unfinished => filed'[j] = filed[j] /\ stage[j] \in Unfinished
    PROVE  /\ stage' \in [Jobs -> Stages] /\ RunsInv'
           /\ stage'[j] = s /\ \A k \in Jobs : k # j => stage'[k] = stage[k]
           /\ \A k \in Jobs : stage'[k] \in Unfinished => stage[k] \in Unfinished
<1>1. stage' \in [Jobs -> Stages] /\ stage'[j] = s /\ \A k \in Jobs : k # j => stage'[k] = stage[k]
    BY DEF To, WorktreesTypeOK
<1>2. \A k \in Jobs : stage'[k] # "none" => stage[k] # "none"
    BY <1>1
<1>3. \A k \in Jobs : stage'[k] \in Unfinished => stage[k] \in Unfinished /\ filed'[k] = filed[k]
    BY <1>1
<1>4. RunsInv'
    BY <1>2, <1>3 DEF RunsInv, Twin, Slug
<1> QED BY <1>1, <1>3, <1>4

\* One run ends.
LEMMA RunStops ==
    ASSUME WorktreesTypeOK, RunsInv, NEW j \in Jobs, stage[j] # "none", NEW to \in {"inbox", "over"}, RunEnds(j, to)
    PROVE  /\ stage' \in [Jobs -> Stages] /\ filed' \in [Jobs -> {"inbox", "processing", "over"}]
           /\ current' \subseteq {"x", "y"} /\ rootLock' \in Jobs \cup Pruners \cup {Nobody}
           /\ UNCHANGED <<scene, workerUp, prune, robbed, starts>>
           /\ RunsInv' /\ stage'[j] = "none" /\ \A k \in Jobs : k # j => stage'[k] = stage[k]
           /\ \A k \in Jobs : stage'[k] \in Unfinished => stage[k] \in Unfinished
           /\ \A p \in Pruners : rootLock = p => rootLock' = p
<1>1. /\ stage' \in [Jobs -> Stages] /\ stage'[j] = "none" /\ \A k \in Jobs : k # j => stage'[k] = stage[k]
      /\ filed' \in [Jobs -> {"inbox", "processing", "over"}] /\ \A k \in Jobs : k # j => filed'[k] = filed[k]
      /\ UNCHANGED <<scene, workerUp, prune, robbed, starts>>
    BY DEF RunEnds, To, WorktreesTypeOK, Stages
<1>2. current' \subseteq {"x", "y"} /\ rootLock' \in Jobs \cup Pruners \cup {Nobody}
      /\ \A p \in Pruners : rootLock = p => rootLock' = p
    BY WorkersAre DEF RunEnds, Unlocked, WorktreesTypeOK
<1>3. \A k \in Jobs : stage'[k] \in Unfinished => stage[k] \in Unfinished /\ filed'[k] = filed[k]
    BY <1>1 DEF Unfinished
<1>4. ASSUME NEW k \in Jobs, stage'[k] # "none", ~Twin(k)' PROVE Slug(k)' \in current'
    <2>1. k # j /\ stage[k] # "none" /\ ~Twin(k) /\ Slug(k)' = Slug(k) /\ Slug(j) # Slug(k)
        BY <1>1, <1>4 DEF Twin, Slug
    <2> QED BY <2>1 DEF RunsInv, RunEnds
<1>5. RunsInv'
    BY <1>1, <1>3, <1>4 DEF RunsInv
<1> QED BY <1>1, <1>2, <1>3, <1>5

LEMMA ClaimKept ==
    ASSUME TreesInv, NEW j \in Jobs, RunClaims(j)
    PROVE  TreesInv'
<1>0. WorktreesTypeOK /\ RunsInv /\ PrunesInv /\ TreesKept
    BY DEF TreesInv
<1>1. /\ stage' \in [Jobs -> Stages] /\ stage'[j] = "begun" /\ \A k \in Jobs : k # j => stage'[k] = stage[k]
      /\ filed' \in [Jobs -> {"inbox", "processing", "over"}] /\ filed'[j] = "processing"
      /\ \A k \in Jobs : k # j => filed'[k] = filed[k]
      /\ robbed' \in [Jobs -> {"no", "late", "nameless", "seen"}] /\ robbed'[j] = "no"
      /\ \A k \in Jobs : k # j => robbed'[k] = robbed[k]
    BY <1>0 DEF RunClaims, To, WorktreesTypeOK, Stages
<1>2. UNCHANGED <<scene, workerUp, trees, backups, rootLock>> /\ current' = current \cup {Slug(j)} /\ starts' = starts + 1 /\ starts < scene.starts
      /\ prune' = [p \in Pruners |-> IF prune[p].step = "idle" THEN NoPrune ELSE [prune[p] EXCEPT !.since = @ \cup {j}]]
    BY DEF RunClaims
<1>3. Slug(j) \in {"x", "y"} /\ scene.starts \in Nat
    BY <1>0, SceneIs
<1>4. ASSUME NEW p \in Pruners
      PROVE  IF prune[p].step = "idle" THEN prune'[p] = NoPrune
             ELSE /\ prune'[p] \in Pruning /\ prune'[p].step = prune[p].step /\ prune'[p].target = prune[p].target
                  /\ prune'[p].liveSlugs = prune[p].liveSlugs /\ prune'[p].heard = prune[p].heard
                  /\ prune'[p].since = prune[p].since \cup {j}
    <2>1. CASE prune[p].step # "idle"
        <3>1. prune[p] \in Pruning /\ prune'[p] = [prune[p] EXCEPT !.since = @ \cup {j}]
            BY <1>0, <1>2, <2>1, PruneIs
        <3> QED BY <2>1, <3>1 DEF Pruning
    <2> QED BY <1>2, <2>1
<1>5. prune' \in [Pruners -> Pruning \cup {NoPrune}]
    <2>1. \A p \in Pruners : prune'[p] \in Pruning \cup {NoPrune}
        BY <1>4
    <2>2. prune' = [p \in Pruners |-> prune'[p]]
        BY <1>2
    <2> QED BY <2>1, <2>2
<1>6. starts' \in 0 .. scene'.starts
    BY <1>0, <1>2, <1>3 DEF WorktreesTypeOK
<1>7. WorktreesTypeOK'
    BY <1>0, <1>1, <1>2, <1>3, <1>5, <1>6 DEF WorktreesTypeOK
<1>8. RunsInv'
    <2>1. ASSUME NEW k \in Jobs, NEW l \in Jobs, stage'[k] # "none", stage'[l] # "none",
                 scene'.of[k].repo = scene'.of[l].repo
          PROVE  k = l
        <3>1. \A i \in Jobs : stage[i] # "none" => scene.of[i].repo # scene.of[j].repo
            BY DEF RunClaims
        <3> QED BY <1>0, <1>1, <1>2, <2>1, <3>1 DEF RunsInv
    <2>2. \A k \in Jobs : stage'[k] \in Unfinished => filed'[k] = "processing"
        BY <1>0, <1>1 DEF RunsInv
    <2>3. \A k \in Jobs : stage'[k] # "none" /\ ~Twin(k)' => Slug(k)' \in current'
        BY <1>0, <1>1, <1>2 DEF RunsInv, Slug, Twin
    <2>4. \A k \in Jobs : stage'[k] # "none" => workerUp'
        BY <1>0, <1>1 DEF RunsInv, RunClaims
    <2> QED BY <2>1, <2>2, <2>3, <2>4 DEF RunsInv
<1>9. PrunesInv'
    <2> SUFFICES ASSUME NEW p \in Pruners PROVE OfPrune(p)'
        BY DEF PrunesInv
    <2>1. CASE prune[p].step = "idle"
        BY <1>4, <2>1 DEF OfPrune, NoPrune
    <2>2. CASE prune[p].step # "idle"
        <3>1. OfPrune(p)
            BY <1>0 DEF PrunesInv
        <3>2. \A k \in Jobs \ prune'[p].since : k # j /\ k \notin prune[p].since /\ stage'[k] = stage[k]
            BY <1>1, <1>4, <2>2
        <3> QED BY <1>2, <1>4, <2>2, <3>1, <3>2, SMTT(30) DEF OfPrune, Twin, Slug
    <2> QED BY <2>1, <2>2
<1>10. TreesKept'
    <2> SUFFICES ASSUME NEW k \in Jobs
                 PROVE (stage'[k] = "live" => trees'[TreeOf(k)] = "whole" \/ robbed'[k] # "no") /\ robbed'[k] # "seen"
        BY <1>2 DEF TreesKept, TreeOf
    <2>1. CASE k = j
        BY <1>1, <2>1
    <2>2. CASE k # j
        BY <1>0, <1>1, <1>2, <2>2 DEF TreesKept
    <2> QED BY <2>1, <2>2
<1> QED BY <1>7, <1>8, <1>9, <1>10 DEF TreesInv

LEMMA FailsEarlyKept ==
    ASSUME TreesInv, NEW j \in Jobs, FailsEarly(j)
    PROVE  TreesInv'
<1>0. WorktreesTypeOK /\ RunsInv /\ PrunesInv /\ TreesKept
    BY DEF TreesInv
<1>1. PICK to \in {"inbox", "over"} : RunEnds(j, to)
    BY DEF FailsEarly
<1>2. stage[j] # "none"
    BY DEF FailsEarly
<1>3. TreeOf(j) \in Places
    BY <1>0, SceneIs
<1>4. trees' \in [Places -> TreeStates] /\ (\A w \in Places : w # TreeOf(j) => trees'[w] = trees[w]) /\ backups' = backups
    <2>1. CASE UNCHANGED trees
        BY <1>0, <2>1 DEF FailsEarly, WorktreesTypeOK
    <2>2. CASE \E how \in {"broken", "gutted"} : trees' = [trees EXCEPT ![TreeOf(j)] = how]
        BY <1>0, <1>3, <2>2 DEF FailsEarly, WorktreesTypeOK, TreeStates
    <2> QED BY <2>1, <2>2 DEF FailsEarly
<1>5. WorktreesTypeOK'
    BY <1>0, <1>1, <1>2, <1>4, RunStops DEF WorktreesTypeOK
<1>6. RunsInv' /\ PrunesInv'
    BY <1>0, <1>1, <1>2, RunStops, PrunesKept
<1>7. TreesKept'
    BY <1>1, <1>0, <1>2, <1>4, RunStops, OneTree
<1> QED BY <1>5, <1>6, <1>7 DEF TreesInv

LEMMA LockGoes ==
    ASSUME WorktreesTypeOK, NEW j \in Jobs, rootLock' \in {rootLock, LockOr(j), Unlocked(j)}
    PROVE  /\ rootLock' \in Jobs \cup Pruners \cup {Nobody}
           /\ \A p \in Pruners : rootLock = p => rootLock' = p
BY WorkersAre DEF LockOr, Unlocked, WorktreesTypeOK

\* The steps that take a run on.
LEMMA RunStepKept ==
    ASSUME TreesInv, NEW j \in Jobs, prepareWorktree(j) \/ ClearsStale(j) \/ Adds(j) \/ Finishes(j)
    PROVE  TreesInv'
<1>0. WorktreesTypeOK /\ RunsInv /\ PrunesInv /\ TreesKept
    BY DEF TreesInv
<1>1. TreeOf(j) \in Places
    BY <1>0, SceneIs
<1>2. /\ UNCHANGED <<scene, workerUp, current, prune, robbed, starts>> /\ stage[j] # "none"
      /\ rootLock' \in {rootLock, LockOr(j), Unlocked(j)}
      /\ filed' \in [Jobs -> {"inbox", "processing", "over"}] /\ \A k \in Jobs : k # j => filed'[k] = filed[k]
    <2>1. CASE prepareWorktree(j)
        BY <1>0, <2>1 DEF prepareWorktree, RunGoes, WorktreesTypeOK
    <2>2. CASE ClearsStale(j)
        BY <1>0, <2>2 DEF ClearsStale, RunGoes, WorktreesTypeOK
    <2>3. CASE Adds(j)
        BY <1>0, <2>3 DEF Adds, RunGoes, WorktreesTypeOK
    <2>4. CASE Finishes(j)
        BY <1>0, <2>4 DEF Finishes, WorktreesTypeOK
    <2> QED BY <2>1, <2>2, <2>3, <2>4
<1>3. PICK s \in Stages : /\ To(j, s) /\ s # "none"
                          /\ s \in Unfinished => filed' = filed /\ stage[j] \in Unfinished
    <2>1. CASE prepareWorktree(j)
        <3>1. PICK s \in {"adding", "stale"} : To(j, s)
            BY <2>1 DEF prepareWorktree
        <3> QED BY <2>1, <3>1 DEF prepareWorktree, RunGoes, Stages, Unfinished
    <2>2. CASE ClearsStale(j)
        BY <2>2 DEF ClearsStale, RunGoes, Stages, Unfinished
    <2>3. CASE Adds(j)
        BY <2>3 DEF Adds, RunGoes, Stages, Unfinished
    <2>4. CASE Finishes(j)
        BY <2>4 DEF Finishes, RunGoes, Stages, Unfinished
    <2> QED BY <2>1, <2>2, <2>3, <2>4
<1>4. /\ stage' \in [Jobs -> Stages] /\ RunsInv'
      /\ stage'[j] = s /\ \A k \in Jobs : k # j => stage'[k] = stage[k]
      /\ \A k \in Jobs : stage'[k] \in Unfinished => stage[k] \in Unfinished
    BY <1>0, <1>2, <1>3, RunMoves
<1>5. /\ trees' \in [Places -> TreeStates] /\ \A w \in Places : w # TreeOf(j) => trees'[w] = trees[w]
      /\ backups' \subseteq Places
      /\ stage'[j] = "live" => trees'[TreeOf(j)] = "whole"
    <2>1. CASE prepareWorktree(j)
        <3>1. stage'[j] # "live"
            BY <1>0, <2>1 DEF prepareWorktree, To, WorktreesTypeOK
        <3> QED BY <1>0, <2>1, <3>1 DEF prepareWorktree, WorktreesTypeOK
    <2>2. CASE ClearsStale(j)
        <3>1. stage'[j] # "live"
            BY <1>0, <2>2 DEF ClearsStale, To, WorktreesTypeOK
        <3> QED BY <1>0, <1>1, <2>2, <3>1 DEF ClearsStale, WorktreesTypeOK, TreeStates
    <2>3. CASE Adds(j)
        BY <1>0, <1>1, <2>3 DEF Adds, WorktreesTypeOK, TreeStates
    <2>4. CASE Finishes(j)
        <3>1. stage'[j] # "live"
            BY <1>0, <2>4 DEF Finishes, To, WorktreesTypeOK
        <3> QED BY <1>0, <2>4, <3>1 DEF Finishes, WorktreesTypeOK
    <2> QED BY <2>1, <2>2, <2>3, <2>4
<1>6. rootLock' \in Jobs \cup Pruners \cup {Nobody} /\ \A p \in Pruners : rootLock = p => rootLock' = p
    BY <1>0, <1>2, LockGoes
<1>7. WorktreesTypeOK'
    BY <1>0, <1>2, <1>4, <1>5, <1>6 DEF WorktreesTypeOK
<1>8. PrunesInv'
    BY <1>0, <1>2, <1>4, <1>6, PrunesKept
<1>9. TreesKept'
    BY <1>2, <1>4, <1>5, OneTree
<1> QED BY <1>4, <1>7, <1>8, <1>9 DEF TreesInv

LEMMA RunEndKept ==
    ASSUME TreesInv, NEW j \in Jobs, Preserves(j) \/ cleanupWorktree(j)
    PROVE  TreesInv'
<1>0. WorktreesTypeOK /\ RunsInv /\ PrunesInv /\ TreesKept
    BY DEF TreesInv
<1>1. PICK to \in {"inbox", "over"} : RunEnds(j, to)
    BY DEF Preserves, cleanupWorktree
<1>2. stage[j] # "none"
    BY DEF Preserves, cleanupWorktree
<1>3. TreeOf(j) \in Places
    BY <1>0, SceneIs
<1>4. trees' \in [Places -> TreeStates] /\ (\A w \in Places : w # TreeOf(j) => trees'[w] = trees[w]) /\ backups' = backups
    <2>1. CASE UNCHANGED trees
        BY <1>0, <2>1 DEF Preserves, cleanupWorktree, WorktreesTypeOK
    <2>2. CASE trees' = [trees EXCEPT ![TreeOf(j)] = IF @ = "whole" THEN "none" ELSE @] /\ UNCHANGED backups
        BY <1>0, <1>3, <2>2 DEF WorktreesTypeOK, TreeStates
    <2> QED BY <2>1, <2>2 DEF Preserves, cleanupWorktree
<1>5. WorktreesTypeOK'
    BY <1>0, <1>1, <1>2, <1>4, RunStops DEF WorktreesTypeOK
<1>6. RunsInv' /\ PrunesInv'
    BY <1>0, <1>1, <1>2, RunStops, PrunesKept
<1>7. TreesKept'
    BY <1>1, <1>0, <1>2, <1>4, RunStops, OneTree
<1> QED BY <1>5, <1>6, <1>7 DEF TreesInv

LEMMA RetryKept ==
    ASSUME TreesInv, NEW j \in Jobs, Retried(j)
    PROVE  TreesInv'
<1>0. WorktreesTypeOK /\ RunsInv /\ PrunesInv /\ TreesKept
    BY DEF TreesInv
<1>1. /\ UNCHANGED <<scene, workerUp, stage, current, trees, backups, rootLock, prune, robbed, starts>>
      /\ filed[j] = "over" /\ filed' \in [Jobs -> {"inbox", "processing", "over"}]
      /\ \A k \in Jobs : k # j => filed'[k] = filed[k]
    BY <1>0 DEF Retried, WorktreesTypeOK
<1>2. WorktreesTypeOK'
    BY <1>0, <1>1 DEF WorktreesTypeOK
<1>3. RunsInv'
    BY <1>0, <1>1 DEF RunsInv, Twin, Slug
<1>4. PrunesInv'
    BY <1>0, <1>1, PrunesKept
<1>5. TreesKept'
    BY <1>0, <1>1 DEF TreesKept, TreeOf
<1> QED BY <1>2, <1>3, <1>4, <1>5 DEF TreesInv

LEMMA KillKept ==
    ASSUME TreesInv, RunsKilled \/ Restarts
    PROVE  TreesInv'
<1>0. WorktreesTypeOK /\ RunsInv /\ PrunesInv /\ TreesKept
    BY DEF TreesInv
<1>1. CASE RunsKilled
    <2>1. /\ stage' = [j \in Jobs |-> "none"] /\ current' = {} /\ workerUp' = FALSE
          /\ UNCHANGED <<scene, filed, backups, prune, robbed>>
          /\ starts' = starts + 1 /\ starts < scene.starts
        BY <1>1 DEF RunsKilled
    <2>2. rootLock' \in Jobs \cup Pruners \cup {Nobody} /\ \A p \in Pruners : rootLock = p => rootLock' = p
        BY <1>0, <1>1, WorkersAre DEF RunsKilled, WorktreesTypeOK
    <2>3. trees' \in [Places -> TreeStates]
        BY <1>0, <1>1 DEF RunsKilled, WorktreesTypeOK, TreeStates
    <2>4. scene.starts \in Nat
        BY <1>0, WorktreesAssumption DEF WorktreesTypeOK, SceneOf
    <2>5. starts' \in 0 .. scene'.starts
        BY <1>0, <2>1, <2>4 DEF WorktreesTypeOK
    <2>6. WorktreesTypeOK'
        BY <1>0, <2>1, <2>2, <2>3, <2>5 DEF WorktreesTypeOK, Stages
    <2>7. RunsInv' /\ TreesKept'
        BY <1>0, <2>1 DEF RunsInv, TreesKept, Unfinished
    <2>8. PrunesInv'
        BY <1>0, <2>1, <2>2, PrunesKept DEF Unfinished
    <2> QED BY <2>6, <2>7, <2>8 DEF TreesInv
<1>2. CASE Restarts
    <2>1. /\ UNCHANGED <<scene, stage, current, trees, rootLock, prune, robbed, starts>> /\ workerUp' = TRUE
          /\ filed' = [j \in Jobs |-> IF filed[j] = "processing" THEN "inbox" ELSE filed[j]]
          /\ backups' \subseteq backups /\ ~workerUp
        BY <1>2 DEF Restarts
    <2>2. filed' \in [Jobs -> {"inbox", "processing", "over"}]
        BY <1>0, <2>1 DEF WorktreesTypeOK
    <2>3. WorktreesTypeOK'
        BY <1>0, <2>1, <2>2 DEF WorktreesTypeOK
    <2>4. \A j \in Jobs : stage[j] = "none"
        BY <1>0, <2>1 DEF RunsInv
    <2>5. RunsInv' /\ TreesKept'
        BY <1>0, <2>1, <2>4 DEF RunsInv, TreesKept, Unfinished
    <2>6. PrunesInv'
        BY <1>0, <2>1, PrunesKept
    <2> QED BY <2>3, <2>5, <2>6 DEF TreesInv
<1> QED BY <1>1, <1>2

\* What a prune's step does to the prunes.
LEMMA OnePrune ==
    ASSUME WorktreesTypeOK, NEW p \in Pruners, NEW r \in Pruning \cup {NoPrune}, prune' = [prune EXCEPT ![p] = r]
    PROVE  /\ prune' \in [Pruners -> Pruning \cup {NoPrune}] /\ prune'[p] = r
           /\ \A q \in Pruners : q # p => prune'[q] = prune[q]
BY DEF WorktreesTypeOK

LEMMA PruneGoesOn ==
    ASSUME WorktreesTypeOK, NEW p \in Pruners, prune[p].step # "idle",
           NEW s \in PruneAsks \cup Removing, PruneGoes(p, s)
    PROVE  /\ prune' \in [Pruners -> Pruning \cup {NoPrune}]
           /\ prune'[p].step = s /\ prune'[p].target = prune[p].target /\ prune'[p].liveSlugs = prune[p].liveSlugs
           /\ prune'[p].heard = prune[p].heard /\ prune'[p].since = prune[p].since
           /\ \A q \in Pruners : q # p => prune'[q] = prune[q]
<1> DEFINE r == [prune[p] EXCEPT !.step = s]
<1>1. prune[p] \in Pruning
    BY PruneIs
<1>2. /\ r \in Pruning /\ r.step = s /\ r.target = prune[p].target /\ r.liveSlugs = prune[p].liveSlugs
      /\ r.heard = prune[p].heard /\ r.since = prune[p].since
    BY <1>1 DEF Pruning
<1>3. prune' = [prune EXCEPT ![p] = r]
    BY DEF PruneGoes
<1> HIDE DEF r
<1> QED BY <1>2, <1>3, OnePrune

LEMMA PruneStops ==
    ASSUME WorktreesTypeOK, PrunesInv, NEW p \in Pruners, PruneEnds(p)
    PROVE  /\ prune' \in [Pruners -> Pruning \cup {NoPrune}] /\ prune'[p] = NoPrune
           /\ \A q \in Pruners : q # p => prune'[q] = prune[q]
           /\ rootLock' \in Jobs \cup Pruners \cup {Nobody}
           /\ \A q \in Pruners : q # p /\ rootLock = q => rootLock' = q
<1>1. /\ prune' \in [Pruners -> Pruning \cup {NoPrune}] /\ prune'[p] = NoPrune
      /\ \A q \in Pruners : q # p => prune'[q] = prune[q]
    BY OnePrune DEF PruneEnds
<1> QED BY <1>1 DEF PruneEnds, Unlocked, WorktreesTypeOK

\* Nobody else's prune is at work beside one that holds the lock, or before one begins.
LEMMA OnePruneOnly ==
    ASSUME PrunesInv, NEW p \in Pruners, rootLock = Nobody \/ prune[p].step # "idle"
    PROVE  \A q \in Pruners : q # p => prune[q].step = "idle"
BY WorktreesAssumption DEF PrunesInv, OfPrune

\* A prune's step moves no run.
LEMMA RunsUnmoved ==
    ASSUME RunsInv, OthersRun \/ RunsRest
    PROVE  RunsInv'
BY DEF OthersRun, RunsRest, RunsInv, Twin, Slug

LEMMA OnlyThisPrune ==
    ASSUME PrunesInv, NEW p \in Pruners, rootLock = Nobody \/ prune[p].step # "idle",
           \A q \in Pruners : q # p => prune'[q] = prune[q], OfPrune(p)'
    PROVE  PrunesInv'
<1>1. \A q \in Pruners : q # p => prune'[q].step = "idle"
    BY OnePruneOnly
<1> QED BY <1>1 DEF PrunesInv, OfPrune

\* What destroys a tree goes by the gate's verdict.
LEMMA Destroyed ==
    ASSUME TreesInv, NEW p \in Pruners, prune[p].step \in Removing, prune[p].target.kind = "tree",
           Destroys(p), OthersRun
    PROVE  trees' \in [Places -> TreeStates] /\ robbed' \in [Jobs -> {"no", "late", "nameless", "seen"}] /\ TreesKept'
<1>0. WorktreesTypeOK /\ RunsInv /\ PrunesInv /\ TreesKept
    BY DEF TreesInv
<1> DEFINE w == prune[p].target.at
<1>1. prune[p] \in Pruning /\ prune[p].step # "idle"
    BY <1>0, PruneIs DEF Removing
<1>2. w \in Places
    BY <1>1 DEF Pruning, Targets
<1>3. /\ trees' = [trees EXCEPT ![w] = "none"]
      /\ robbed' = [j \in Jobs |-> IF TreeOf(j) = w /\ stage[j] = "live" /\ trees[w] = "whole"
                                   THEN Why(p, j) ELSE robbed[j]]
    BY DEF Destroys
<1>4. trees' \in [Places -> TreeStates]
    BY <1>0, <1>3 DEF WorktreesTypeOK, TreeStates
<1>5. \A j \in Jobs : Why(p, j) \in {"late", "nameless", "seen"}
    BY DEF Why
<1>6. robbed' \in [Jobs -> {"no", "late", "nameless", "seen"}]
    BY <1>0, <1>3, <1>5 DEF WorktreesTypeOK
<1>7. ASSUME NEW j \in Jobs, TreeOf(j) = w, stage[j] = "live" PROVE Why(p, j) # "seen"
    <2>1. SUFFICES ASSUME j \notin prune[p].since, scene.of[j].named \/ (prune[p].heard /\ ~Twin(j)) PROVE FALSE
        BY DEF Why
    <2>2. OfPrune(p)
        BY <1>0 DEF PrunesInv
    <2>3. Slug(j) \in prune[p].liveSlugs
        BY <1>1, <1>7, <2>1, <2>2 DEF OfPrune, Unfinished
    <2>4. Slug(j) = prune[p].target.at[2]
        BY <1>7 DEF TreeOf, Slug
    <2> QED BY <1>1, <2>2, <2>3, <2>4 DEF OfPrune
<1>8. UNCHANGED <<scene, stage>>
    BY DEF OthersRun, RunsRest
<1> HIDE DEF w
<1>9. TreesKept'
    <2> SUFFICES ASSUME NEW j \in Jobs
                 PROVE (stage'[j] = "live" => trees'[TreeOf(j)] = "whole" \/ robbed'[j] # "no") /\ robbed'[j] # "seen"
        BY <1>8 DEF TreesKept, TreeOf
    <2>0. TreeOf(j) \in Places
        BY <1>0, SceneIs
    <2>1. CASE TreeOf(j) = w /\ stage[j] = "live" /\ trees[w] = "whole"
        BY <1>3, <1>5, <1>7, <1>8, <2>1
    <2>2. CASE ~(TreeOf(j) = w /\ stage[j] = "live" /\ trees[w] = "whole")
        BY <1>0, <1>2, <1>3, <1>8, <2>0, <2>2 DEF TreesKept, WorktreesTypeOK
    <2> QED BY <2>1, <2>2
<1> QED BY <1>4, <1>6, <1>9

LEMMA BeginsKept ==
    ASSUME TreesInv, NEW p \in Pruners, NEW target \in Targets, PruneBegins(p, target)
    PROVE  TreesInv'
<1>0. WorktreesTypeOK /\ RunsInv /\ PrunesInv /\ TreesKept
    BY DEF TreesInv
<1> DEFINE r == [step |-> "ask", target |-> target, liveSlugs |-> LiveSlugs, heard |-> FALSE, since |-> {}]
<1>1. /\ rootLock = Nobody /\ rootLock' = p /\ starts' = starts + 1 /\ starts < scene.starts
      /\ prune' = [prune EXCEPT ![p] = r] /\ RunsRest /\ UNCHANGED <<trees, backups, robbed>>
    BY DEF PruneBegins
<1>2. LiveSlugs \subseteq {"x", "y"}
    BY <1>0, SceneIs DEF LiveSlugs
<1>3. r \in Pruning
    BY <1>2 DEF Pruning, PruneAsks
<1>4. scene.starts \in Nat
    BY <1>0, WorktreesAssumption DEF WorktreesTypeOK, SceneOf
<1>5. /\ prune' \in [Pruners -> Pruning \cup {NoPrune}] /\ prune'[p] = r
      /\ \A q \in Pruners : q # p => prune'[q] = prune[q]
    <2> HIDE DEF r
    <2> QED BY <1>0, <1>1, <1>3, OnePrune
<1>6. UNCHANGED <<scene, workerUp, filed, stage, current>>
    BY <1>1 DEF RunsRest
<1>7. starts' \in 0 .. scene'.starts
    BY <1>0, <1>1, <1>4, <1>6 DEF WorktreesTypeOK
<1>8. WorktreesTypeOK'
    BY <1>0, <1>1, <1>5, <1>6, <1>7 DEF WorktreesTypeOK
<1>9. OfPrune(p)'
    <2>1. \A j \in Jobs : stage[j] \in Unfinished /\ scene.of[j].named => Slug(j) \in LiveSlugs
        BY <1>0 DEF RunsInv, LiveSlugs
    <2>2. prune'[p].step = "ask" /\ prune'[p].liveSlugs = LiveSlugs /\ prune'[p].heard = FALSE
        BY <1>5
    <2> HIDE DEF r
    <2> QED BY <1>1, <1>6, <2>1, <2>2 DEF OfPrune, Slug, Removing
<1>10. RunsInv' /\ TreesKept'
    BY <1>0, <1>1, <1>6, RunsUnmoved DEF TreesKept, TreeOf
<1> HIDE DEF r
<1>11. PrunesInv'
    BY <1>0, <1>1, <1>5, <1>9, OnlyThisPrune
<1> QED BY <1>8, <1>10, <1>11 DEF TreesInv

LEMMA FetchKept ==
    ASSUME TreesInv, NEW p \in Pruners, fetchCurrentTickets(p)
    PROVE  TreesInv'
<1>0. WorktreesTypeOK /\ RunsInv /\ PrunesInv /\ TreesKept
    BY DEF TreesInv
<1>1. prune[p].step = "ask" /\ OthersRun /\ UNCHANGED <<trees, backups, rootLock, robbed>>
    BY DEF fetchCurrentTickets, PruneAt
<1>2. UNCHANGED <<scene, workerUp, filed, stage, current, starts>>
    BY <1>1 DEF OthersRun, RunsRest
<1>3. prune[p] \in Pruning /\ OfPrune(p)
    BY <1>0, <1>1, PruneIs DEF PrunesInv
<1>4. /\ prune' \in [Pruners -> Pruning \cup {NoPrune}] /\ prune'[p].step = "asked"
      /\ prune'[p].since = prune[p].since
      /\ \/ prune'[p].heard /\ prune'[p].liveSlugs = prune[p].liveSlugs \cup current
         \/ ~prune'[p].heard /\ prune'[p].liveSlugs = prune[p].liveSlugs
      /\ \A q \in Pruners : q # p => prune'[q] = prune[q]
    <2>1. CASE PruneGoes(p, "asked")
        <3>1. "asked" \in PruneAsks \cup Removing
            BY DEF PruneAsks
        <3> QED BY <1>0, <1>1, <1>3, <2>1, <3>1, PruneGoesOn DEF OfPrune
    <2>2. CASE prune' = [prune EXCEPT ![p].step = "asked", ![p].heard = TRUE, ![p].liveSlugs = @ \cup current]
        <3> DEFINE r == [prune[p] EXCEPT !.step = "asked", !.heard = TRUE, !.liveSlugs = @ \cup current]
        <3>1. prune[p].liveSlugs \cup current \in SUBSET {"x", "y"}
            BY <1>0, <1>3 DEF Pruning, WorktreesTypeOK
        <3>2. r \in Pruning /\ r.step = "asked" /\ r.heard = TRUE /\ r.since = prune[p].since
              /\ r.liveSlugs = prune[p].liveSlugs \cup current
            BY <1>3, <3>1 DEF Pruning, PruneAsks
        <3>3. prune' = [prune EXCEPT ![p] = r]
            BY <1>0, <2>2 DEF WorktreesTypeOK
        <3> HIDE DEF r
        <3> QED BY <1>0, <3>2, <3>3, OnePrune
    <2> QED BY <2>1, <2>2 DEF fetchCurrentTickets
<1>5. WorktreesTypeOK'
    BY <1>0, <1>1, <1>2, <1>4 DEF WorktreesTypeOK
<1>6. OfPrune(p)'
    <2>1. \A j \in Jobs \ prune'[p].since :
            stage[j] \in Unfinished /\ (scene.of[j].named \/ (prune'[p].heard /\ ~Twin(j))) => Slug(j) \in prune'[p].liveSlugs
        <3>1. SUFFICES ASSUME NEW j \in Jobs, j \notin prune[p].since, stage[j] \in Unfinished,
                              scene.of[j].named \/ (prune'[p].heard /\ ~Twin(j))
                       PROVE  Slug(j) \in prune'[p].liveSlugs
            BY <1>4
        <3>2. CASE scene.of[j].named
            BY <1>1, <1>3, <1>4, <3>1, <3>2 DEF OfPrune
        <3>3. CASE prune'[p].heard /\ ~Twin(j)
            BY <1>0, <1>4, <3>1, <3>3 DEF RunsInv, Unfinished
        <3> QED BY <3>1, <3>2, <3>3
    <2> QED BY <1>1, <1>2, <1>3, <1>4, <2>1 DEF OfPrune, Removing, Twin, Slug
<1>7. RunsInv' /\ TreesKept'
    BY <1>0, <1>1, <1>2, RunsUnmoved DEF TreesKept, TreeOf
<1>8. PrunesInv'
    BY <1>0, <1>1, <1>4, <1>6, OnlyThisPrune
<1> QED BY <1>5, <1>7, <1>8 DEF TreesInv

\* The steps of a prune that destroy nothing.
LEMMA PruneGoesKept ==
    ASSUME TreesInv, NEW p \in Pruners, prune[p].step # "idle",
           NEW s \in Removing, PruneGoes(p, s), OthersRun, UNCHANGED <<trees, backups, robbed, rootLock>>,
           s = "remove" => prune[p].target.kind = "tree",
           prune[p].target.kind = "tree" => prune[p].target.at[2] \notin prune[p].liveSlugs
    PROVE  TreesInv'
<1>0. WorktreesTypeOK /\ RunsInv /\ PrunesInv /\ TreesKept
    BY DEF TreesInv
<1>1. /\ prune' \in [Pruners -> Pruning \cup {NoPrune}]
      /\ prune'[p].step = s /\ prune'[p].target = prune[p].target /\ prune'[p].liveSlugs = prune[p].liveSlugs
      /\ prune'[p].heard = prune[p].heard /\ prune'[p].since = prune[p].since
      /\ \A q \in Pruners : q # p => prune'[q] = prune[q]
    BY <1>0, PruneGoesOn
<1>2. UNCHANGED <<scene, workerUp, filed, stage, current, starts>>
    BY DEF OthersRun, RunsRest
<1>3. WorktreesTypeOK'
    BY <1>0, <1>1, <1>2 DEF WorktreesTypeOK
<1>4. OfPrune(p)'
    <2>1. OfPrune(p)
        BY <1>0 DEF PrunesInv
    <2> QED BY <1>1, <1>2, <2>1 DEF OfPrune, Removing, Twin, Slug
<1>5. RunsInv' /\ TreesKept'
    BY <1>0, <1>2, RunsUnmoved DEF TreesKept, TreeOf
<1>6. PrunesInv'
    BY <1>0, <1>1, <1>4, OnlyThisPrune
<1> QED BY <1>3, <1>5, <1>6 DEF TreesInv

LEMMA PruneEndKept ==
    ASSUME TreesInv, NEW p \in Pruners, prune[p].step # "idle", PruneEnds(p), OthersRun,
           trees' \in [Places -> TreeStates], robbed' \in [Jobs -> {"no", "late", "nameless", "seen"}], TreesKept',
           backups' \subseteq Places
    PROVE  TreesInv'
<1>0. WorktreesTypeOK /\ RunsInv /\ PrunesInv /\ TreesKept
    BY DEF TreesInv
<1>1. /\ prune' \in [Pruners -> Pruning \cup {NoPrune}] /\ prune'[p] = NoPrune
      /\ \A q \in Pruners : q # p => prune'[q] = prune[q]
      /\ rootLock' \in Jobs \cup Pruners \cup {Nobody}
    BY <1>0, PruneStops
<1>2. UNCHANGED <<scene, workerUp, filed, stage, current, starts>>
    BY DEF OthersRun, RunsRest
<1>3. WorktreesTypeOK'
    BY <1>0, <1>1, <1>2 DEF WorktreesTypeOK
<1>4. OfPrune(p)'
    BY <1>1 DEF OfPrune, NoPrune
<1>5. RunsInv'
    BY <1>0, RunsUnmoved
<1>6. PrunesInv'
    BY <1>0, <1>1, <1>4, OnlyThisPrune
<1> QED BY <1>3, <1>5, <1>6 DEF TreesInv

LEMMA PruneStepKept ==
    ASSUME TreesInv, NEW p \in Pruners,
           SlugGate(p) \/ Resolves(p) \/ RemovesTree(p) \/ Recurses(p) \/ PruneDies(p)
    PROVE  TreesInv'
<1>0. WorktreesTypeOK /\ RunsInv /\ PrunesInv /\ TreesKept /\ OfPrune(p)
    BY DEF TreesInv, PrunesInv
<1>1. prune[p].step # "idle" /\ OthersRun
    BY DEF SlugGate, Resolves, RemovesTree, Recurses, PruneDies, PruneAt
<1>2. prune[p] \in Pruning
    BY <1>0, <1>1, PruneIs
<1>3. UNCHANGED <<scene, stage>>
    BY <1>1 DEF OthersRun, RunsRest
<1>t. trees \in [Places -> TreeStates] /\ robbed \in [Jobs -> {"no", "late", "nameless", "seen"}] /\ backups \subseteq Places
    BY <1>0 DEF WorktreesTypeOK
<1>4. ASSUME PruneEnds(p), UNCHANGED <<trees, robbed>>, backups' \subseteq backups PROVE TreesInv'
    <2>1. TreesKept'
        BY <1>0, <1>3, <1>4 DEF TreesKept, TreeOf
    <2> QED BY <1>1, <1>4, <1>t, <2>1, PruneEndKept
<1>5. ASSUME PruneEnds(p), Destroys(p), UNCHANGED backups, prune[p].step \in Removing, prune[p].target.kind = "tree"
      PROVE TreesInv'
    BY <1>1, <1>5, <1>t, Destroyed, PruneEndKept
<1>6. CASE SlugGate(p)
    <2>1. prune[p].step = "asked" /\ UNCHANGED <<trees, backups, robbed>>
        BY <1>6 DEF SlugGate, PruneAt
    <2>2. CASE PruneEnds(p)
        BY <1>4, <2>1, <2>2
    <2>3. CASE /\ prune[p].target.kind # "tree" \/ prune[p].target.at[2] \notin prune[p].liveSlugs
               /\ PruneGoes(p, "resolve") /\ UNCHANGED rootLock
        <3>1. "resolve" \in Removing
            BY DEF Removing
        <3> QED BY <1>1, <2>1, <2>3, <3>1, PruneGoesKept
    <2> QED BY <1>6, <2>2, <2>3 DEF SlugGate
<1>7. CASE Resolves(p)
    <2>1. prune[p].step = "resolve" /\ UNCHANGED <<trees, backups, rootLock, robbed>>
        BY <1>7 DEF Resolves, PruneAt
    <2>2. "remove" \in Removing /\ "recurse" \in Removing /\ "resolve" \in Removing
        BY DEF Removing
    <2>3. prune[p].target.kind = "tree" => prune[p].target.at[2] \notin prune[p].liveSlugs
        BY <1>0, <1>1, <2>1, <2>2 DEF OfPrune
    <2>4. CASE prune[p].target.kind = "tree" /\ PruneGoes(p, "remove")
        BY <1>1, <2>1, <2>2, <2>3, <2>4, PruneGoesKept
    <2>5. CASE PruneGoes(p, "recurse")
        BY <1>1, <2>1, <2>2, <2>3, <2>5, PruneGoesKept
    <2> QED BY <1>7, <2>4, <2>5 DEF Resolves
<1>8. CASE RemovesTree(p)
    <2>1. prune[p].step = "remove" /\ UNCHANGED backups /\ "recurse" \in Removing /\ "remove" \in Removing
        BY <1>8 DEF RemovesTree, PruneAt, Removing
    <2>2. prune[p].target.kind = "tree" /\ prune[p].target.at[2] \notin prune[p].liveSlugs
        BY <1>0, <1>1, <2>1 DEF OfPrune
    <2>3. CASE Destroys(p) /\ PruneEnds(p)
        BY <1>5, <2>1, <2>2, <2>3
    <2>4. CASE PruneGoes(p, "recurse") /\ UNCHANGED <<trees, robbed, rootLock>>
        BY <1>1, <2>1, <2>2, <2>4, PruneGoesKept
    <2> QED BY <1>8, <2>3, <2>4 DEF RemovesTree
<1>9. CASE Recurses(p)
    <2>1. prune[p].step = "recurse" /\ prune[p].step \in Removing /\ PruneEnds(p)
        BY <1>9 DEF Recurses, PruneAt, Removing
    <2>2. CASE UNCHANGED <<trees, robbed>> /\ backups' \subseteq backups
        BY <1>4, <2>1, <2>2
    <2>3. CASE prune[p].target.kind = "tree" /\ Destroys(p) /\ UNCHANGED backups
        BY <1>5, <2>1, <2>3
    <2> QED BY <1>9, <2>2, <2>3 DEF Recurses
<1>10. CASE PruneDies(p)
    BY <1>4, <1>10 DEF PruneDies
<1> QED BY <1>6, <1>7, <1>8, <1>9, <1>10

LEMMA TreesInvSteps == TreesInv /\ WorktreesNext => TreesInv'
BY ClaimKept, FailsEarlyKept, RunStepKept, RunEndKept, RetryKept, KillKept, BeginsKept, FetchKept, PruneStepKept
   DEF WorktreesNext

LEMMA TreesInvStutters == TreesInv /\ UNCHANGED treeVars => TreesInv'
<1> SUFFICES ASSUME TreesInv, UNCHANGED treeVars PROVE TreesInv'
    OBVIOUS
<1> USE DEF TreesInv, treeVars
<1>1. WorktreesTypeOK'
    BY DEF WorktreesTypeOK
<1>2. RunsInv' /\ PrunesInv' /\ TreesKept'
    BY DEF RunsInv, PrunesInv, OfPrune, TreesKept, Twin, Slug, TreeOf
<1> QED BY <1>1, <1>2

LEMMA TreesInvSound == TreesInv => WorktreesTypeOK /\ WorktreesAreSafe
BY OnePruneOnly DEF TreesInv, TreesKept, WorktreesAreSafe, PruneAt

-----------------------------------------------------------------------------
(* The queue on the dashboard.                                             *)

Heard == {"inbox", "processing", "over", "probe"}
Waited == {"processing", "over", "probe"}
Ran == {"over", "probe"}

\* What a tick has of the queue, after each thing it reads and could read.
OfTick(i) ==
    /\ ticks[i].step \in {"off", "ask"} => ~ticks[i].heard
    /\ ticks[i].step \in Heard /\ ticks[i].heard => \A t \in Queued :
         /\ t \notin ticks[i].moved => (t \in ticks[i].answer <=> run[t] # "none")
         /\ t \notin ticks[i].late /\ box[t] = "processing" => t \in ticks[i].answer
    /\ ticks[i].step \in Waited /\ "inbox" \notin ticks[i].blind => \A t \in Queued :
         /\ t \notin ticks[i].moved => (t \in ticks[i].seen.waiting <=> box[t] = "inbox")
         /\ t \notin ticks[i].back /\ box[t] = "inbox" => t \in ticks[i].seen.waiting
    /\ ticks[i].step \in Ran => \A t \in Queued :
         /\ t \notin ticks[i].moved /\ ticks[i].heard => (t \in ticks[i].seen.running <=> run[t] # "none")
         /\ t \notin ticks[i].moved /\ ~ticks[i].heard /\ "processing" \notin ticks[i].blind =>
              (t \in ticks[i].seen.running <=> box[t] = "processing")
         /\ t \notin ticks[i].back /\ (ticks[i].heard => t \notin ticks[i].late) /\ box[t] = "processing"
            /\ ticks[i].blind = {} => t \in ticks[i].seen.waiting \cup ticks[i].seen.running
    /\ ticks[i].step = "probe" => \A t \in Queued :
         /\ t \notin ticks[i].moved /\ "over" \notin ticks[i].blind =>
              (t \in ticks[i].seen.recent <=> box[t] = "over")
         /\ t \notin ticks[i].back /\ (ticks[i].heard => t \notin ticks[i].late) /\ box[t] = "over"
            /\ ticks[i].blind = {} =>
              t \in ticks[i].seen.waiting \cup ticks[i].seen.running \cup ticks[i].seen.recent
TicksInv == \A i \in Ticks : OfTick(i)

\* A daemon that is up runs what is in processing/.
RunsAreThere ==
    \A t \in Queued : /\ run[t] = "runs" => box[t] = "processing"
                      /\ up /\ box[t] = "processing" => run[t] = "runs"
                      /\ ~up => run[t] = "none"
MemoInv ==
    /\ memo.mtime <= ledger.mtime
    /\ memo.mtime = ledger.mtime => memo.records = ledger.records \/ ledger.joined \/ memo.unread
DeleteInv ==
    /\ dialog.step \in {"unlink", "deleted"} =>
         dialog.entry = dialog.of \/ (dialog.missed /\ <<dialog.of, dialog.entry>> \in Inside)
    /\ dialog.step = "deleted" => box[dialog.entry] = "gone"

QueueInv == QueueViewTypeOK /\ TicksInv /\ RunsAreThere /\ MemoInv /\ DeleteInv

LEMMA QueueIdle == QueueAtRest /\ show \in Shows => QueueInv
<1> SUFFICES ASSUME QueueAtRest, show \in Shows PROVE QueueInv
    OBVIOUS
<1>1. show \in ShowOf
    BY QueueViewAssumption
<1>2. OffTick \in TickStates /\ Blank \in Shown /\ OffTick.step = "off"
    BY DEF OffTick, TickStates, Blank, Shown
<1>3. ledger = [records |-> 0, mtime |-> 0, joined |-> FALSE] /\ memo = [records |-> 0, mtime |-> 0, unread |-> FALSE]
      /\ ticks = [i \in Ticks |-> OffTick] /\ dialog = NoDialog
    BY DEF QueueAtRest
<1>4. box \in [Queued -> Boxes] /\ run \in [Queued -> {"none", "runs", "over", "requeued"}]
    BY DEF QueueAtRest, Boxes
<1>5. turns \in 0 .. show.turns
    BY <1>1 DEF QueueAtRest, ShowOf
<1>6. QueueViewTypeOK
    BY <1>2, <1>3, <1>4, <1>5 DEF QueueAtRest, QueueViewTypeOK
<1>7. TicksInv
    BY <1>2, <1>3 DEF TicksInv, OfTick, Heard, Waited, Ran, OffTick
<1>8. RunsAreThere
    BY DEF QueueAtRest, RunsAreThere
<1>9. MemoInv /\ DeleteInv
    BY <1>3 DEF MemoInv, DeleteInv, NoDialog
<1> QED BY <1>6, <1>7, <1>8, <1>9 DEF QueueInv

LEMMA QueueInvInit == (QueueViewInit => QueueInv) /\ (QueueViewIdle => QueueInv)
<1>1. (CHOOSE s \in Shows : TRUE) \in Shows
    BY QueueViewAssumption
<1> QED BY <1>1, QueueIdle DEF QueueViewInit, QueueViewIdle

\* What is noted in a tick.
Noted(i, movers, backers, claimed) ==
    /\ ticks'[i].step = ticks[i].step /\ ticks'[i].heard = ticks[i].heard
    /\ ticks'[i].answer = ticks[i].answer /\ ticks'[i].seen = ticks[i].seen
    /\ ticks'[i].blind = ticks[i].blind
    /\ ticks[i].step # "off" => /\ ticks'[i].moved = ticks[i].moved \cup movers
                                /\ ticks'[i].back = ticks[i].back \cup backers
    /\ ticks[i].step \in Heard => ticks'[i].late = ticks[i].late \cup claimed

LEMMA NotedIn ==
    ASSUME QueueViewTypeOK, NEW movers \in SUBSET Queued, NEW backers \in SUBSET Queued,
           NEW claimed \in SUBSET Queued, Note(movers, backers, claimed)
    PROVE  ticks' \in [Ticks -> TickStates] /\ \A i \in Ticks : Noted(i, movers, backers, claimed)
<1>1. ASSUME NEW i \in Ticks
      PROVE  ticks'[i] \in TickStates /\ Noted(i, movers, backers, claimed)
    <2>1. ticks[i] \in TickStates
        BY DEF QueueViewTypeOK
    <2>2. CASE ticks[i].step = "off"
        BY <2>1, <2>2 DEF Note, Noted, Heard
    <2>3. CASE ticks[i].step # "off"
        <3> DEFINE l == IF ticks[i].step = "ask" THEN ticks[i].late ELSE ticks[i].late \cup claimed
        <3>1. ticks'[i] = [ticks[i] EXCEPT !.moved = ticks[i].moved \cup movers,
                                           !.back = ticks[i].back \cup backers, !.late = l]
            BY <2>3 DEF Note
        <3>2. l \in SUBSET Queued /\ (ticks[i].step \in Heard => l = ticks[i].late \cup claimed)
            BY <2>1 DEF TickStates, Heard
        <3> HIDE DEF l
        <3> QED BY <2>1, <2>3, <3>1, <3>2, ZenonT(60) DEF TickStates, Noted
    <2> QED BY <2>2, <2>3
<1>2. ticks' = [i \in Ticks |-> ticks'[i]]
    BY DEF Note
<1> QED BY <1>1, <1>2

\* A ticket that moves is noted; into processing/ it comes from the inbox, out of
\* it it goes over, and what is gone stays so.
MovesFollow(movers, backers, claimed) ==
    /\ \A t \in Queued \ movers : box'[t] = box[t] /\ run'[t] = run[t]
    /\ \A t \in Queued : /\ box'[t] = "inbox" => box[t] = "inbox" \/ t \in backers
                         /\ box'[t] = "processing" =>
                              box[t] = "processing" \/ (box[t] = "inbox" /\ t \in claimed)
                         /\ box'[t] = "over" => box[t] \in {"over", "processing"}

LEMMA NotedKept ==
    ASSUME QueueViewTypeOK, TicksInv, NEW movers \in SUBSET Queued, NEW backers \in SUBSET Queued,
           NEW claimed \in SUBSET Queued, Note(movers, backers, claimed),
           MovesFollow(movers, backers, claimed)
    PROVE  ticks' \in [Ticks -> TickStates] /\ TicksInv'
<1>1. ticks' \in [Ticks -> TickStates] /\ \A i \in Ticks : Noted(i, movers, backers, claimed)
    BY NotedIn
<1> SUFFICES ASSUME NEW i \in Ticks PROVE OfTick(i)'
    BY <1>1 DEF TicksInv
<1>2. /\ ticks'[i].step = ticks[i].step /\ ticks'[i].heard = ticks[i].heard
      /\ ticks'[i].answer = ticks[i].answer /\ ticks'[i].seen = ticks[i].seen
      /\ ticks'[i].blind = ticks[i].blind
      /\ ticks[i].step # "off" => /\ ticks'[i].moved = ticks[i].moved \cup movers
                                  /\ ticks'[i].back = ticks[i].back \cup backers
      /\ ticks[i].step \in Heard => ticks'[i].late = ticks[i].late \cup claimed
    BY <1>1 DEF Noted
<1>3. OfTick(i)
    BY DEF TicksInv
<1>4. Ran \subseteq Waited /\ Waited \subseteq Heard /\ "probe" \in Ran /\ "off" \notin Heard
    BY DEF Heard, Waited, Ran
<1>5. ASSUME ticks[i].step \in Heard, ticks[i].heard, NEW t \in Queued
      PROVE  /\ t \notin ticks'[i].moved => (t \in ticks[i].answer <=> run'[t] # "none")
             /\ t \notin ticks'[i].late /\ box'[t] = "processing" => t \in ticks[i].answer
    BY <1>2, <1>3, <1>4, <1>5 DEF OfTick, MovesFollow
<1>6. ASSUME ticks[i].step \in Waited, "inbox" \notin ticks[i].blind, NEW t \in Queued
      PROVE  /\ t \notin ticks'[i].moved => (t \in ticks[i].seen.waiting <=> box'[t] = "inbox")
             /\ t \notin ticks'[i].back /\ box'[t] = "inbox" => t \in ticks[i].seen.waiting
    BY <1>2, <1>3, <1>4, <1>6 DEF OfTick, MovesFollow
<1>7. ASSUME ticks[i].step \in Ran, NEW t \in Queued
      PROVE  /\ t \notin ticks'[i].moved /\ ticks[i].heard => (t \in ticks[i].seen.running <=> run'[t] # "none")
             /\ t \notin ticks'[i].moved /\ ~ticks[i].heard /\ "processing" \notin ticks[i].blind =>
                  (t \in ticks[i].seen.running <=> box'[t] = "processing")
             /\ t \notin ticks'[i].back /\ (ticks[i].heard => t \notin ticks'[i].late) /\ box'[t] = "processing"
                /\ ticks[i].blind = {} => t \in ticks[i].seen.waiting \cup ticks[i].seen.running
    BY <1>2, <1>3, <1>4, <1>7 DEF OfTick, MovesFollow
<1>8. ASSUME ticks[i].step = "probe", NEW t \in Queued
      PROVE  /\ t \notin ticks'[i].moved /\ "over" \notin ticks[i].blind =>
                  (t \in ticks[i].seen.recent <=> box'[t] = "over")
             /\ t \notin ticks'[i].back /\ (ticks[i].heard => t \notin ticks'[i].late) /\ box'[t] = "over"
                /\ ticks[i].blind = {} =>
                  t \in ticks[i].seen.waiting \cup ticks[i].seen.running \cup ticks[i].seen.recent
    BY <1>2, <1>3, <1>4, <1>8 DEF OfTick, MovesFollow
<1> QED BY <1>2, <1>3, <1>5, <1>6, <1>7, <1>8 DEF OfTick

\* What the daemon does leaves the dashboard's own.
LEMMA DashboardKept ==
    ASSUME QueueViewTypeOK, MemoInv, DeleteInv, DashboardRests, UNCHANGED ledger,
           \A t \in Queued : box[t] = "gone" => box'[t] = "gone"
    PROVE  MemoInv' /\ DeleteInv'
<1>1. UNCHANGED <<show, memo, screen, dialog, ledger>>
    BY DEF DashboardRests
<1>2. dialog.step = "deleted" => dialog.entry \in Queued
    BY DEF QueueViewTypeOK, NoDialog
<1> QED BY <1>1, <1>2 DEF MemoInv, DeleteInv

LEMMA TurnTaken ==
    ASSUME QueueViewTypeOK, DaemonTurn, UNCHANGED show
    PROVE  turns' \in 0 .. show'.turns
BY QueueViewAssumption DEF QueueViewTypeOK, DaemonTurn, ShowOf

LEMMA ClaimedKept ==
    ASSUME QueueInv, NEW t \in Queued, TicketClaimed(t)
    PROVE  QueueInv'
<1>0. QueueViewTypeOK /\ TicksInv /\ RunsAreThere /\ MemoInv /\ DeleteInv
    BY DEF QueueInv
<1>1. /\ box' \in [Queued -> Boxes] /\ box'[t] = "processing" /\ \A u \in Queued : u # t => box'[u] = box[u]
      /\ run' \in [Queued -> {"none", "runs", "over", "requeued"}] /\ run'[t] = "runs"
      /\ \A u \in Queued : u # t => run'[u] = run[u]
      /\ box[t] = "inbox" /\ run[t] = "none" /\ up
    BY <1>0 DEF TicketClaimed, QueueViewTypeOK, Boxes
<1>2. Note({t}, {}, {t}) /\ UNCHANGED <<up, ledger>> /\ DashboardRests /\ UNCHANGED <<show, memo, screen, dialog>>
    BY DEF TicketClaimed, DashboardRests
<1>3. ticks' \in [Ticks -> TickStates] /\ TicksInv'
    <2>1. {t} \in SUBSET Queued /\ {} \in SUBSET Queued /\ \A u \in Queued \ {t} : box'[u] = box[u] /\ run'[u] = run[u]
        BY <1>1
    <2>2. \A u \in Queued : /\ box'[u] = "inbox" => box[u] = "inbox" \/ u \in {}
                            /\ box'[u] = "processing" => box[u] = "processing" \/ (box[u] = "inbox" /\ u \in {t})
                            /\ box'[u] = "over" => box[u] \in {"over", "processing"}
        BY <1>1
    <2>3. MovesFollow({t}, {}, {t})
        BY <2>1, <2>2 DEF MovesFollow
    <2> QED BY <1>0, <1>2, <2>1, <2>3, NotedKept
<1>4. turns' \in 0 .. show'.turns
    BY <1>0, <1>2, TurnTaken DEF TicketClaimed
<1>5. QueueViewTypeOK'
    BY <1>0, <1>1, <1>2, <1>3, <1>4 DEF QueueViewTypeOK
<1>6. RunsAreThere'
    BY <1>0, <1>1, <1>2 DEF RunsAreThere
<1>7. MemoInv' /\ DeleteInv'
    BY <1>0, <1>1, <1>2, DashboardKept
<1> QED BY <1>3, <1>5, <1>6, <1>7 DEF QueueInv

LEMMA EndsKept ==
    ASSUME QueueInv, NEW t \in Queued, NEW to \in {"over", "inbox"}, TicketEnds(t, to)
    PROVE  QueueInv'
<1>0. QueueViewTypeOK /\ TicksInv /\ RunsAreThere /\ MemoInv /\ DeleteInv
    BY DEF QueueInv
<1>1. /\ box' \in [Queued -> Boxes] /\ box'[t] = to /\ \A u \in Queued : u # t => box'[u] = box[u]
      /\ run' \in [Queued -> {"none", "runs", "over", "requeued"}] /\ run'[t] \notin {"runs", "none"}
      /\ \A u \in Queued : u # t => run'[u] = run[u]
      /\ run[t] = "runs"
    BY <1>0 DEF TicketEnds, QueueViewTypeOK, Boxes
<1>2. box[t] = "processing" /\ up
    BY <1>0, <1>1 DEF RunsAreThere, QueueViewTypeOK
<1> DEFINE back == IF to = "inbox" THEN {t} ELSE {}
<1>3. Note({t}, back, {}) /\ UNCHANGED <<up, ledger>> /\ DashboardRests /\ UNCHANGED <<show, memo, screen, dialog>>
    BY DEF TicketEnds, DashboardRests
<1>4. ticks' \in [Ticks -> TickStates] /\ TicksInv'
    <2>1. {t} \in SUBSET Queued /\ {} \in SUBSET Queued /\ back \in SUBSET Queued
          /\ \A u \in Queued \ {t} : box'[u] = box[u] /\ run'[u] = run[u]
        BY <1>1
    <2>2. \A u \in Queued : /\ box'[u] = "inbox" => box[u] = "inbox" \/ u \in back
                            /\ box'[u] = "processing" => box[u] = "processing" \/ (box[u] = "inbox" /\ u \in {})
                            /\ box'[u] = "over" => box[u] \in {"over", "processing"}
        BY <1>1, <1>2
    <2> HIDE DEF back
    <2>3. MovesFollow({t}, back, {})
        BY <2>1, <2>2 DEF MovesFollow
    <2> QED BY <1>0, <1>3, <2>1, <2>3, NotedKept
<1>5. turns' \in 0 .. show'.turns
    BY <1>0, <1>3, TurnTaken DEF TicketEnds
<1> HIDE DEF back
<1>6. QueueViewTypeOK'
    BY <1>0, <1>1, <1>3, <1>4, <1>5 DEF QueueViewTypeOK
<1>7. RunsAreThere'
    BY <1>0, <1>1, <1>2, <1>3 DEF RunsAreThere
<1>8. MemoInv' /\ DeleteInv'
    BY <1>0, <1>1, <1>2, <1>3, DashboardKept
<1> QED BY <1>4, <1>6, <1>7, <1>8 DEF QueueInv

LEMMA TaskEndedKept ==
    ASSUME QueueInv, NEW t \in Queued, taskEnded(t)
    PROVE  QueueInv'
<1>0. QueueViewTypeOK /\ TicksInv /\ RunsAreThere /\ MemoInv /\ DeleteInv
    BY DEF QueueInv
<1>1. /\ run' \in [Queued -> {"none", "runs", "over", "requeued"}] /\ run'[t] = "none"
      /\ \A u \in Queued : u # t => run'[u] = run[u]
      /\ run[t] \in {"over", "requeued"}
    BY <1>0 DEF taskEnded, QueueViewTypeOK
<1>2. Note({t}, {}, {}) /\ UNCHANGED <<box, up, turns>> /\ UNCHANGED <<show, memo, screen, dialog>>
    BY DEF taskEnded, DashboardRests
<1>3. ticks' \in [Ticks -> TickStates] /\ TicksInv'
    <2>1. {t} \in SUBSET Queued /\ {} \in SUBSET Queued /\ \A u \in Queued \ {t} : box'[u] = box[u] /\ run'[u] = run[u]
        BY <1>1, <1>2
    <2>2. \A u \in Queued : /\ box'[u] = "inbox" => box[u] = "inbox" \/ u \in {}
                            /\ box'[u] = "processing" => box[u] = "processing" \/ (box[u] = "inbox" /\ u \in {})
                            /\ box'[u] = "over" => box[u] \in {"over", "processing"}
        BY <1>2
    <2>3. MovesFollow({t}, {}, {})
        BY <2>1, <2>2 DEF MovesFollow
    <2> QED BY <1>0, <1>2, <2>1, <2>3, NotedKept
<1>4. ledger' \in [records : Nat, mtime : Nat, joined : BOOLEAN] /\ MemoInv'
    <2>1. ledger \in [records : Nat, mtime : Nat, joined : BOOLEAN] /\ memo \in [records : Nat, mtime : Nat, unread : BOOLEAN]
        BY <1>0 DEF QueueViewTypeOK
    <2>2. CASE UNCHANGED ledger
        BY <1>0, <1>2, <2>1, <2>2 DEF MemoInv
    <2>3. ASSUME NEW later \in BOOLEAN, appendTaskRecord(later)
          PROVE  ledger' \in [records : Nat, mtime : Nat, joined : BOOLEAN] /\ MemoInv'
        <3>1. CASE later
            <4>1. ledger' = [records |-> ledger.records + 1, joined |-> FALSE, mtime |-> ledger.mtime + 1]
                BY <2>3, <3>1 DEF appendTaskRecord
            <4> QED BY <1>0, <1>2, <2>1, <4>1 DEF MemoInv
        <3>2. CASE ~later
            <4>1. ledger' = [records |-> ledger.records + 1, joined |-> TRUE, mtime |-> ledger.mtime]
                BY <2>3, <3>2 DEF appendTaskRecord
            <4> QED BY <1>0, <1>2, <2>1, <4>1 DEF MemoInv
        <3> QED BY <3>1, <3>2
    <2> QED BY <2>2, <2>3 DEF taskEnded
<1>5. QueueViewTypeOK'
    BY <1>0, <1>1, <1>2, <1>3, <1>4 DEF QueueViewTypeOK
<1>6. RunsAreThere'
    BY <1>0, <1>1, <1>2 DEF RunsAreThere
<1>7. DeleteInv'
    BY <1>0, <1>2 DEF DeleteInv
<1> QED BY <1>3, <1>4, <1>5, <1>6, <1>7 DEF QueueInv

LEMMA DaemonGone ==
    ASSUME QueueInv, DaemonDies
    PROVE  QueueInv'
<1>0. QueueViewTypeOK /\ TicksInv /\ RunsAreThere /\ MemoInv /\ DeleteInv
    BY DEF QueueInv
<1> DEFINE had == {t \in Queued : run[t] # "none"}
<1>1. /\ run' = [t \in Queued |-> "none"] /\ up' = FALSE /\ Note(had, {}, {})
      /\ UNCHANGED <<box, ledger>> /\ DashboardRests /\ UNCHANGED <<show, memo, screen, dialog>>
    BY DEF DaemonDies, DashboardRests
<1>2. had \in SUBSET Queued /\ \A u \in Queued \ had : box'[u] = box[u] /\ run'[u] = run[u]
    BY <1>1
<1> HIDE DEF had
<1>3. ticks' \in [Ticks -> TickStates] /\ TicksInv'
    <2>1. {} \in SUBSET Queued
        OBVIOUS
    <2>2. \A u \in Queued : /\ box'[u] = "inbox" => box[u] = "inbox" \/ u \in {}
                            /\ box'[u] = "processing" => box[u] = "processing" \/ (box[u] = "inbox" /\ u \in {})
                            /\ box'[u] = "over" => box[u] \in {"over", "processing"}
        BY <1>1
    <2>3. MovesFollow(had, {}, {})
        BY <1>2, <2>2 DEF MovesFollow
    <2> QED BY <1>0, <1>1, <1>2, <2>1, <2>3, NotedKept
<1>4. turns' \in 0 .. show'.turns
    BY <1>0, <1>1, TurnTaken DEF DaemonDies
<1>5. QueueViewTypeOK'
    BY <1>0, <1>1, <1>3, <1>4 DEF QueueViewTypeOK
<1>6. RunsAreThere'
    BY <1>0, <1>1 DEF RunsAreThere
<1>7. MemoInv' /\ DeleteInv'
    BY <1>0, <1>1, DashboardKept
<1> QED BY <1>3, <1>5, <1>6, <1>7 DEF QueueInv

LEMMA DaemonBack ==
    ASSUME QueueInv, DaemonStarts
    PROVE  QueueInv'
<1>0. QueueViewTypeOK /\ TicksInv /\ RunsAreThere /\ MemoInv /\ DeleteInv
    BY DEF QueueInv
<1> DEFINE orphans == {t \in Queued : box[t] = "processing"}
<1>1. /\ ~up /\ up' = TRUE /\ Note(orphans, orphans, {})
      /\ box' = [t \in Queued |-> IF t \in orphans THEN "inbox" ELSE box[t]]
      /\ UNCHANGED <<run, ledger, turns>> /\ DashboardRests /\ UNCHANGED <<show, memo, screen, dialog>>
    BY DEF DaemonStarts, DashboardRests
<1>2. orphans \in SUBSET Queued /\ \A u \in Queued : u \in orphans <=> box[u] = "processing"
    OBVIOUS
<1> HIDE DEF orphans
<1>3. \A u \in Queued : box'[u] = IF box[u] = "processing" THEN "inbox" ELSE box[u]
    BY <1>1, <1>2
<1>4. ticks' \in [Ticks -> TickStates] /\ TicksInv'
    <2>1. {} \in SUBSET Queued /\ \A u \in Queued \ orphans : box'[u] = box[u] /\ run'[u] = run[u]
        BY <1>1, <1>2, <1>3
    <2>2. \A u \in Queued : /\ box'[u] = "inbox" => box[u] = "inbox" \/ u \in orphans
                            /\ box'[u] = "processing" => box[u] = "processing" \/ (box[u] = "inbox" /\ u \in {})
                            /\ box'[u] = "over" => box[u] \in {"over", "processing"}
        BY <1>2, <1>3
    <2>3. MovesFollow(orphans, orphans, {})
        BY <2>1, <2>2 DEF MovesFollow
    <2> QED BY <1>0, <1>1, <1>2, <2>1, <2>3, NotedKept
<1>5. box' \in [Queued -> Boxes]
    BY <1>0, <1>1 DEF QueueViewTypeOK, Boxes
<1>6. QueueViewTypeOK'
    BY <1>0, <1>1, <1>4, <1>5 DEF QueueViewTypeOK
<1>7. RunsAreThere'
    BY <1>0, <1>1, <1>3 DEF RunsAreThere
<1>8. MemoInv' /\ DeleteInv'
    BY <1>0, <1>1, <1>3, DashboardKept
<1> QED BY <1>4, <1>6, <1>7, <1>8 DEF QueueInv

\* A step of one tick.
LEMMA TickMoved ==
    ASSUME QueueViewTypeOK, TicksInv, NEW i \in Ticks, NEW k \in TickStates, ticks' = [ticks EXCEPT ![i] = k],
           UNCHANGED <<box, run>>, OfTick(i)'
    PROVE  ticks' \in [Ticks -> TickStates] /\ TicksInv'
<1>1. ticks' \in [Ticks -> TickStates] /\ \A j \in Ticks : j # i => ticks'[j] = ticks[j]
    BY DEF QueueViewTypeOK
<1>2. ASSUME NEW j \in Ticks, j # i PROVE OfTick(j)'
    <2>1. ticks'[j] = ticks[j] /\ OfTick(j)
        BY <1>1, <1>2 DEF TicksInv
    <2> QED BY <2>1 DEF OfTick
<1> QED BY <1>1, <1>2 DEF TicksInv

LEMMA TickStepKept ==
    ASSUME QueueInv, NEW i \in Ticks, TickStep(i)
    PROVE  QueueInv'
<1>0. QueueViewTypeOK /\ TicksInv /\ RunsAreThere /\ MemoInv /\ DeleteInv /\ OfTick(i)
    BY DEF QueueInv, TicksInv
<1>t. ticks[i] \in TickStates /\ ticks \in [Ticks -> TickStates] /\ ticks[i].seen \in Shown
    BY <1>0 DEF QueueViewTypeOK, TickStates
<1>q. /\ UNCHANGED <<box, run, up, ledger>> /\ UNCHANGED <<show, dialog>>
      /\ turns' \in 0 .. show'.turns
    <2>1. /\ UNCHANGED <<box, run, up, ledger>> /\ UNCHANGED <<show, dialog>>
          /\ UNCHANGED turns \/ DaemonTurn
        <3>1. CASE Fires(i) \/ fetchHealthBody(i) \/ TickLands(i)
            BY <3>1 DEF Fires, fetchHealthBody, TickLands, QueueRests, DaemonRests, DashboardRests
        <3>2. CASE ReadsInbox(i)
            <4>1. PICK whole \in BOOLEAN : ReadsWell(whole)
                BY <3>2 DEF ReadsInbox
            <4>2. UNCHANGED turns \/ DaemonTurn
                BY <4>1 DEF ReadsWell
            <4> QED BY <3>2, <4>2 DEF ReadsInbox, DaemonRests, DashboardRests
        <3>3. CASE ReadsProcessing(i)
            <4>1. PICK whole \in BOOLEAN : ReadsWell(whole)
                BY <3>3 DEF ReadsProcessing
            <4>2. UNCHANGED turns \/ DaemonTurn
                BY <4>1 DEF ReadsWell
            <4> QED BY <3>3, <4>2 DEF ReadsProcessing, DaemonRests, DashboardRests
        <3>4. CASE ReadsOver(i)
            <4>1. PICK whole \in BOOLEAN : ReadsWell(whole)
                BY <3>4 DEF ReadsOver
            <4>2. UNCHANGED turns \/ DaemonTurn
                BY <4>1 DEF ReadsWell
            <4> QED BY <3>4, <4>2 DEF ReadsOver, DaemonRests
        <3> QED BY <3>1, <3>2, <3>3, <3>4 DEF TickStep
    <2>2. CASE UNCHANGED turns
        BY <1>0, <2>1, <2>2 DEF QueueViewTypeOK
    <2>3. CASE DaemonTurn
        BY <1>0, <2>1, <2>3, TurnTaken
    <2> QED BY <2>1, <2>2, <2>3
<1>r. RunsAreThere' /\ DeleteInv'
    BY <1>0, <1>q DEF RunsAreThere, DeleteInv
<1>1. ASSUME NEW k \in TickStates, ticks' = [ticks EXCEPT ![i] = k], ticks'[i] = k => OfTick(i)',
             UNCHANGED <<memo, screen>>
      PROVE  QueueInv'
    <2>1. ticks' \in [Ticks -> TickStates] /\ TicksInv'
        BY <1>0, <1>1, <1>t, <1>q, TickMoved
    <2>2. MemoInv'
        BY <1>0, <1>1, <1>q DEF MemoInv
    <2> QED BY <1>0, <1>1, <1>q, <1>r, <2>1, <2>2 DEF QueueInv, QueueViewTypeOK
<1>2. CASE Fires(i)
    <2> DEFINE k == [ticks[i] EXCEPT !.step = "ask"]
    <2>0. ticks[i].step = "off" /\ ~ticks[i].heard
        BY <1>0, <1>2 DEF Fires, TickAt, OfTick
    <2>1. k \in TickStates /\ k.step = "ask" /\ ~k.heard
        BY <1>t, <2>0 DEF TickStates
    <2>2. ticks' = [ticks EXCEPT ![i] = k] /\ UNCHANGED <<memo, screen>>
        BY <1>2 DEF Fires, Goes, DashboardRests
    <2> HIDE DEF k
    <2>3. ticks'[i] = k => OfTick(i)'
        BY <2>1 DEF OfTick, Heard, Waited, Ran
    <2> QED BY <1>1, <2>1, <2>2, <2>3
<1>3. CASE fetchHealthBody(i)
    <2>0. UNCHANGED <<memo, screen>>
        BY <1>3 DEF fetchHealthBody, DashboardRests
    <2>1. CASE up /\ ticks' = [ticks EXCEPT ![i].step = "inbox", ![i].heard = TRUE,
                                            ![i].answer = {t \in Queued : run[t] # "none"}]
        <3> DEFINE a == {t \in Queued : run[t] # "none"}
                   k == [ticks[i] EXCEPT !.step = "inbox", !.heard = TRUE, !.answer = a]
        <3>1. a \in SUBSET Queued /\ \A t \in Queued : t \in a <=> run[t] # "none"
            OBVIOUS
        <3>2. ticks' = [ticks EXCEPT ![i] = k]
            BY <1>t, <2>1
        <3> HIDE DEF a
        <3>3. k \in TickStates /\ k.step = "inbox" /\ k.answer = a
            BY <1>t, <3>1 DEF TickStates
        <3> HIDE DEF k
        <3>4. \A t \in Queued : box[t] = "processing" => run[t] = "runs"
            BY <1>0, <2>1 DEF RunsAreThere
        <3>5. ticks'[i] = k => OfTick(i)'
            BY <1>q, <3>1, <3>3, <3>4 DEF OfTick, Waited, Ran
        <3> QED BY <1>1, <2>0, <3>2, <3>3, <3>5
    <2>2. CASE Goes(i, "inbox")
        <3> DEFINE k == [ticks[i] EXCEPT !.step = "inbox"]
        <3>1. k \in TickStates /\ k.step = "inbox" /\ k.heard = ticks[i].heard
            BY <1>t DEF TickStates
        <3>2. ticks' = [ticks EXCEPT ![i] = k]
            BY <2>2 DEF Goes
        <3> HIDE DEF k
        <3>3. ~ticks[i].heard
            BY <1>0, <1>3 DEF fetchHealthBody, TickAt, OfTick
        <3>5. ticks'[i] = k => OfTick(i)'
            BY <3>1, <3>3 DEF OfTick, Heard, Waited, Ran
        <3> QED BY <1>1, <2>0, <3>1, <3>2, <3>5
    <2> QED BY <1>3, <2>1, <2>2 DEF fetchHealthBody
<1>b. ASSUME NEW boxes \in SUBSET Boxes, NEW list \in SUBSET In(boxes)
      PROVE  /\ Blinded(i, boxes, list) \in SUBSET Boxes /\ list \in SUBSET Queued
             /\ ticks[i].blind \subseteq Blinded(i, boxes, list)
             /\ boxes \subseteq Blinded(i, boxes, list) \/ list = In(boxes)
    BY <1>t, <1>b DEF Blinded, TickStates, In
<1>4. CASE ReadsInbox(i)
    <2>0. ticks[i].step = "inbox" /\ UNCHANGED <<memo, screen>>
        BY <1>4 DEF ReadsInbox, TickAt, DashboardRests
    <2>l. PICK list \in SUBSET In({"inbox"}) :
            ticks' = [ticks EXCEPT ![i].step = "processing", ![i].seen.waiting = list,
                                   ![i].blind = Blinded(i, {"inbox"}, list)]
        BY <1>4 DEF ReadsInbox
    <2> DEFINE v == [ticks[i].seen EXCEPT !.waiting = list]
               b == Blinded(i, {"inbox"}, list)
               k == [ticks[i] EXCEPT !.step = "processing", !.seen = v, !.blind = b]
    <2>b. b \in SUBSET Boxes /\ list \in SUBSET Queued /\ ("inbox" \in b \/ list = In({"inbox"}))
        <3>1. {"inbox"} \in SUBSET Boxes
            BY DEF Boxes
        <3> QED BY <1>b, <3>1
    <2> HIDE DEF b
    <2>1. v \in Shown /\ v.waiting = list
        BY <1>t, <2>b DEF Shown
    <2>2. ticks' = [ticks EXCEPT ![i] = k]
        BY <1>t, <2>l DEF b
    <2> HIDE DEF v
    <2>3. /\ k \in TickStates /\ k.step = "processing" /\ k.seen = v /\ k.heard = ticks[i].heard
          /\ k.answer = ticks[i].answer /\ k.moved = ticks[i].moved /\ k.late = ticks[i].late /\ k.blind = b
        BY <1>t, <2>1, <2>b DEF TickStates
    <2> HIDE DEF k
    <2>4. "inbox" \notin b => \A t \in Queued : t \in v.waiting <=> box[t] = "inbox"
        BY <2>1, <2>b DEF In
    <2>5. ticks'[i] = k => OfTick(i)'
        BY <1>0, <1>q, <2>0, <2>3, <2>4 DEF OfTick, Heard, Waited, Ran
    <2> QED BY <1>1, <2>0, <2>2, <2>3, <2>5
<1>5. CASE ReadsProcessing(i)
    <2>0. ticks[i].step = "processing" /\ UNCHANGED <<memo, screen>>
        BY <1>5 DEF ReadsProcessing, TickAt, DashboardRests
    <2>l. PICK list \in SUBSET In({"processing"}) :
            ticks' = [ticks EXCEPT ![i].step = "over",
                                   ![i].seen.running = IF ticks[i].heard THEN ticks[i].answer ELSE list,
                                   ![i].blind = Blinded(i, {"processing"}, list)]
        BY <1>5 DEF ReadsProcessing
    <2> DEFINE a == IF ticks[i].heard THEN ticks[i].answer ELSE list
               v == [ticks[i].seen EXCEPT !.running = a]
               b == Blinded(i, {"processing"}, list)
               k == [ticks[i] EXCEPT !.step = "over", !.seen = v, !.blind = b]
    <2>b. /\ b \in SUBSET Boxes /\ list \in SUBSET Queued /\ ("processing" \in b \/ list = In({"processing"}))
          /\ ticks[i].blind \subseteq b
        <3>1. {"processing"} \in SUBSET Boxes
            BY DEF Boxes
        <3> QED BY <1>b, <3>1
    <2> HIDE DEF b
    <2>1. /\ a \in SUBSET Queued /\ (ticks[i].heard => a = ticks[i].answer)
          /\ ~ticks[i].heard /\ "processing" \notin b => \A t \in Queued : t \in a <=> box[t] = "processing"
        BY <1>t, <2>b DEF TickStates, In
    <2>2. ticks' = [ticks EXCEPT ![i] = k]
        BY <1>t, <2>l DEF b
    <2> HIDE DEF a
    <2>3. v \in Shown /\ v.running = a /\ v.waiting = ticks[i].seen.waiting
        BY <1>t, <2>1 DEF Shown
    <2> HIDE DEF v
    <2>4. /\ k \in TickStates /\ k.step = "over" /\ k.seen = v /\ k.heard = ticks[i].heard
          /\ k.answer = ticks[i].answer /\ k.moved = ticks[i].moved /\ k.late = ticks[i].late
          /\ k.back = ticks[i].back /\ k.blind = b
        BY <1>t, <2>3, <2>b DEF TickStates
    <2> HIDE DEF k
    <2>5. /\ ticks[i].heard => \A t \in Queued :
               /\ t \notin ticks[i].moved => (t \in ticks[i].answer <=> run[t] # "none")
               /\ t \notin ticks[i].late /\ box[t] = "processing" => t \in ticks[i].answer
          /\ "inbox" \notin b => \A t \in Queued :
               /\ t \notin ticks[i].moved => (t \in ticks[i].seen.waiting <=> box[t] = "inbox")
               /\ t \notin ticks[i].back /\ box[t] = "inbox" => t \in ticks[i].seen.waiting
        BY <1>0, <2>0, <2>b DEF OfTick, Heard, Waited
    <2>6. \A t \in Queued :
            /\ t \notin k.moved /\ k.heard => (t \in v.running <=> run[t] # "none")
            /\ t \notin k.moved /\ ~k.heard /\ "processing" \notin b => (t \in v.running <=> box[t] = "processing")
            /\ t \notin k.back /\ (k.heard => t \notin k.late) /\ box[t] = "processing" /\ b = {} =>
                 t \in v.waiting \cup v.running
        BY <2>1, <2>3, <2>4, <2>5
    <2>7. ticks'[i] = k => OfTick(i)'
        BY <1>q, <2>3, <2>4, <2>5, <2>6 DEF OfTick, Heard, Waited, Ran
    <2> QED BY <1>1, <2>0, <2>2, <2>4, <2>7
<1>6. CASE ReadsOver(i)
    <2>0. ticks[i].step = "over" /\ UNCHANGED <<screen>> /\ \E whole \in BOOLEAN : makeTaskHistoryReader(whole)
        BY <1>6 DEF ReadsOver, TickAt
    <2>l. PICK list \in SUBSET In({"over"}) :
            ticks' = [ticks EXCEPT ![i].step = "probe", ![i].seen.recent = list,
                                   ![i].seen.records = memo'.records,
                                   ![i].blind = Blinded(i, {"over"}, list)]
        BY <1>6 DEF ReadsOver
    <2> DEFINE v == [ticks[i].seen EXCEPT !.recent = list, !.records = memo'.records]
               b == Blinded(i, {"over"}, list)
               k == [ticks[i] EXCEPT !.step = "probe", !.seen = v, !.blind = b]
    <2>m. memo' \in [records : Nat, mtime : Nat, unread : BOOLEAN] /\ MemoInv'
        <3>1. /\ memo \in [records : Nat, mtime : Nat, unread : BOOLEAN]
              /\ ledger \in [records : Nat, mtime : Nat, joined : BOOLEAN]
            BY <1>0 DEF QueueViewTypeOK
        <3>2. PICK whole \in BOOLEAN : makeTaskHistoryReader(whole)
            BY <2>0
        <3>3. CASE memo.mtime = ledger.mtime
            <4>1. memo' = memo
                BY <3>2, <3>3 DEF makeTaskHistoryReader
            <4> QED BY <1>0, <1>q, <3>1, <4>1 DEF MemoInv
        <3>4. CASE memo.mtime # ledger.mtime
            <4> DEFINE n == IF whole THEN ledger.records ELSE 0
            <4>1. memo' = [records |-> n, mtime |-> ledger.mtime, unread |-> ~whole]
                BY <3>2, <3>4 DEF makeTaskHistoryReader
            <4>2. n \in Nat /\ (whole => n = ledger.records)
                BY <3>1
            <4> HIDE DEF n
            <4>3. /\ memo' \in [records : Nat, mtime : Nat, unread : BOOLEAN]
                  /\ memo'.records = n /\ memo'.mtime = ledger.mtime /\ memo'.unread = ~whole
                BY <3>1, <4>1, <4>2
            <4> QED BY <1>q, <3>1, <4>2, <4>3 DEF MemoInv
        <3> QED BY <3>3, <3>4
    <2>b. /\ b \in SUBSET Boxes /\ list \in SUBSET Queued /\ ("over" \in b \/ list = In({"over"}))
          /\ ticks[i].blind \subseteq b
        <3>1. {"over"} \in SUBSET Boxes
            BY DEF Boxes
        <3> QED BY <1>b, <3>1
    <2> HIDE DEF b
    <2>1. v \in Shown /\ v.recent = list /\ v.waiting = ticks[i].seen.waiting /\ v.running = ticks[i].seen.running
        BY <1>t, <2>m, <2>b DEF Shown
    <2>2. ticks' = [ticks EXCEPT ![i] = k]
        BY <1>t, <2>l DEF b
    <2> HIDE DEF v
    <2>3. /\ k \in TickStates /\ k.step = "probe" /\ k.seen = v /\ k.heard = ticks[i].heard
          /\ k.answer = ticks[i].answer /\ k.moved = ticks[i].moved /\ k.late = ticks[i].late
          /\ k.back = ticks[i].back /\ k.blind = b
        BY <1>t, <2>1, <2>b DEF TickStates
    <2> HIDE DEF k
    <2>4. "over" \notin b => \A t \in Queued : t \in v.recent <=> box[t] = "over"
        BY <2>1, <2>b DEF In
    <2>5. ticks'[i] = k => OfTick(i)'
        <3>1. OfTick(i) /\ ticks[i].blind \subseteq b
            BY <1>0, <2>b
        <3> QED BY <3>1, <1>q, <2>0, <2>1, <2>3, <2>4 DEF OfTick, Heard, Waited, Ran
    <2>6. ticks' \in [Ticks -> TickStates] /\ TicksInv'
        BY <1>0, <1>t, <1>q, <2>2, <2>3, <2>5, TickMoved
    <2> QED BY <1>0, <1>q, <1>r, <2>0, <2>m, <2>6 DEF QueueInv, QueueViewTypeOK
<1>7. CASE TickLands(i)
    <2>1. OffTick \in TickStates /\ OffTick.step = "off" /\ ~OffTick.heard
        BY DEF OffTick, TickStates, Blank, Shown
    <2>2. ticks' = [ticks EXCEPT ![i] = OffTick] /\ UNCHANGED memo /\ screen' = ticks[i].seen
        BY <1>7 DEF TickLands
    <2>3. ticks'[i] = OffTick => OfTick(i)'
        BY <2>1 DEF OfTick, Heard, Waited, Ran
    <2>4. ticks' \in [Ticks -> TickStates] /\ TicksInv'
        BY <1>0, <1>t, <1>q, <2>1, <2>2, <2>3, TickMoved
    <2>5. MemoInv'
        BY <1>0, <1>q, <2>2 DEF MemoInv
    <2> QED BY <1>0, <1>t, <1>q, <1>r, <2>2, <2>4, <2>5 DEF QueueInv, QueueViewTypeOK
<1> QED BY <1>2, <1>3, <1>4, <1>5, <1>6, <1>7 DEF TickStep

\* The dialog's steps but the last.
LEMMA AsksKept ==
    ASSUME QueueInv, runRmCommand \/ \E t \in Queued : AsksDelete(t)
    PROVE  QueueInv'
<1>0. QueueViewTypeOK /\ TicksInv /\ RunsAreThere /\ MemoInv /\ DeleteInv
    BY DEF QueueInv
<1>1. UNCHANGED <<show, box, run, up, ledger, turns, memo, screen, ticks>>
    BY DEF runRmCommand, AsksDelete, ScreenRests, QueueRests, DaemonRests
<1>2. TicksInv' /\ RunsAreThere' /\ MemoInv'
    BY <1>0, <1>1 DEF TicksInv, OfTick, RunsAreThere, MemoInv
<1> DEFINE Dialogs == [step : {"confirm"}, of : Queued] \cup {NoDialog}
                        \cup [step : {"unlink", "deleted"}, of : Queued, entry : Queued, missed : BOOLEAN]
<1>3. dialog' \in Dialogs /\ DeleteInv'
    <2>1. CASE \E t \in Queued : AsksDelete(t)
        BY <2>1 DEF AsksDelete, DeleteInv
    <2>2. CASE dialog' = NoDialog
        BY <2>2 DEF NoDialog, DeleteInv
    <2>3. ASSUME NEW u \in Queued, dialog.step = "confirm", Matches(dialog.of) = {u},
                 dialog' = [step |-> "unlink", of |-> dialog.of, entry |-> u, missed |-> box[dialog.of] # "inbox"]
          PROVE  dialog' \in Dialogs /\ DeleteInv'
        <3>1. dialog.of \in Queued
            BY <1>0, <2>3 DEF QueueViewTypeOK, NoDialog
        <3>2. u = dialog.of \/ (box[dialog.of] # "inbox" /\ <<dialog.of, u>> \in Inside)
            BY <2>3 DEF Matches
        <3>3. dialog'.step = "unlink" /\ dialog'.of = dialog.of /\ dialog'.entry = u
              /\ dialog'.missed = (box[dialog.of] # "inbox") /\ dialog' \in Dialogs
            BY <2>3, <3>1
        <3> QED BY <3>2, <3>3 DEF DeleteInv
    <2> QED BY <2>1, <2>2, <2>3 DEF runRmCommand
<1>4. QueueViewTypeOK'
    BY <1>0, <1>1, <1>3 DEF QueueViewTypeOK
<1> QED BY <1>2, <1>3, <1>4 DEF QueueInv

LEMMA UnlinkKept ==
    ASSUME QueueInv, RmUnlinks
    PROVE  QueueInv'
<1>0. QueueViewTypeOK /\ TicksInv /\ RunsAreThere /\ MemoInv /\ DeleteInv
    BY DEF QueueInv
<1>1. dialog.step = "unlink" /\ UNCHANGED <<show, run, up, ledger, turns, memo, screen>>
    BY DEF RmUnlinks
<1>2. dialog \in [step : {"unlink", "deleted"}, of : Queued, entry : Queued, missed : BOOLEAN]
    BY <1>0, <1>1 DEF QueueViewTypeOK, NoDialog
<1>3. MemoInv'
    BY <1>0, <1>1 DEF MemoInv
<1>4. CASE box[dialog.entry] # "inbox" /\ dialog' = NoDialog /\ UNCHANGED <<box, ticks>>
    <2>1. TicksInv' /\ RunsAreThere' /\ DeleteInv'
        BY <1>0, <1>1, <1>4 DEF TicksInv, OfTick, RunsAreThere, DeleteInv, NoDialog
    <2>2. QueueViewTypeOK'
        BY <1>0, <1>1, <1>4 DEF QueueViewTypeOK
    <2> QED BY <1>3, <2>1, <2>2 DEF QueueInv
<1>5. CASE /\ box[dialog.entry] = "inbox" /\ box' = [box EXCEPT ![dialog.entry] = "gone"]
           /\ Note({dialog.entry}, {dialog.entry}, {}) /\ dialog' = [dialog EXCEPT !.step = "deleted"]
    <2>1. PICK e \in Queued : e = dialog.entry
        BY <1>2
    <2>2. /\ box' \in [Queued -> Boxes] /\ box'[e] = "gone" /\ box[e] = "inbox"
          /\ \A u \in Queued : u # e => box'[u] = box[u]
        BY <1>0, <1>5, <2>1 DEF QueueViewTypeOK, Boxes
    <2>3. ticks' \in [Ticks -> TickStates] /\ TicksInv'
        <3>1. {e} \in SUBSET Queued /\ {} \in SUBSET Queued /\ \A u \in Queued \ {e} : box'[u] = box[u] /\ run'[u] = run[u]
            BY <1>1, <2>2
        <3>2. \A u \in Queued : /\ box'[u] = "inbox" => box[u] = "inbox" \/ u \in {e}
                                /\ box'[u] = "processing" => box[u] = "processing" \/ (box[u] = "inbox" /\ u \in {})
                                /\ box'[u] = "over" => box[u] \in {"over", "processing"}
            BY <2>2
        <3>3. Note({e}, {e}, {})
            BY <1>5, <2>1
        <3>4. MovesFollow({e}, {e}, {})
            BY <3>1, <3>2 DEF MovesFollow
        <3> QED BY <1>0, <3>1, <3>3, <3>4, NotedKept
    <2>4. /\ dialog' \in [step : {"unlink", "deleted"}, of : Queued, entry : Queued, missed : BOOLEAN]
          /\ dialog'.step = "deleted" /\ dialog'.of = dialog.of /\ dialog'.entry = e /\ dialog'.missed = dialog.missed
        BY <1>2, <1>5, <2>1
    <2>5. DeleteInv'
        BY <1>0, <1>1, <2>1, <2>2, <2>4 DEF DeleteInv
    <2>6. RunsAreThere'
        BY <1>0, <1>1, <2>2 DEF RunsAreThere
    <2>7. QueueViewTypeOK'
        BY <1>0, <1>1, <2>2, <2>3, <2>4 DEF QueueViewTypeOK
    <2> QED BY <1>3, <2>3, <2>5, <2>6, <2>7 DEF QueueInv
<1> QED BY <1>4, <1>5 DEF RmUnlinks

LEMMA QueueInvSteps == QueueInv /\ QueueViewNext => QueueInv'
BY ClaimedKept, EndsKept, TaskEndedKept, DaemonGone, DaemonBack, TickStepKept, AsksKept, UnlinkKept
   DEF QueueViewNext

LEMMA QueueInvStutters == QueueInv /\ UNCHANGED queueVars => QueueInv'
<1> SUFFICES ASSUME QueueInv, UNCHANGED queueVars PROVE QueueInv'
    OBVIOUS
<1> USE DEF QueueInv, queueVars
<1>1. QueueViewTypeOK'
    BY DEF QueueViewTypeOK
<1>2. TicksInv' /\ RunsAreThere' /\ MemoInv' /\ DeleteInv'
    BY DEF TicksInv, OfTick, RunsAreThere, MemoInv, DeleteInv
<1> QED BY <1>1, <1>2

LEMMA QueueInvSound == QueueInv => QueueViewTypeOK /\ QueueIsShown
<1> SUFFICES ASSUME QueueInv PROVE QueueIsShown
    BY DEF QueueInv
<1>1. ASSUME NEW i \in Ticks, ticks[i].step = "probe", NEW t \in Queued
      PROVE  /\ t \notin ticks[i].moved =>
                  /\ "inbox" \notin ticks[i].blind => (t \in ticks[i].seen.waiting <=> box[t] = "inbox")
                  /\ ticks[i].heard => (t \in ticks[i].seen.running <=> run[t] # "none")
                  /\ ~ticks[i].heard /\ "processing" \notin ticks[i].blind =>
                       (t \in ticks[i].seen.running <=> box[t] = "processing")
                  /\ "over" \notin ticks[i].blind => (t \in ticks[i].seen.recent <=> box[t] = "over")
             /\ t \notin ticks[i].back /\ (ticks[i].heard => t \notin ticks[i].late) /\ box[t] # "gone"
                /\ ticks[i].blind = {} =>
                  t \in ticks[i].seen.waiting \cup ticks[i].seen.running \cup ticks[i].seen.recent
    <2>1. OfTick(i) /\ box[t] \in Boxes
        BY DEF QueueInv, TicksInv, QueueViewTypeOK
    <2> QED BY <1>1, <2>1 DEF OfTick, Heard, Waited, Ran, Boxes
<1>2. MemoInv /\ DeleteInv
    BY DEF QueueInv
<1> QED BY <1>1, <1>2 DEF QueueIsShown, TickAt, MemoInv, DeleteInv

-----------------------------------------------------------------------------
(* The theorems.                                                           *)

FilesInv ==
    /\ look = "lint" => LintInv
    /\ look = "worktrees" => TreesInv
    /\ look = "queue" => QueueInv

OperationsInv ==
    /\ DaemonInv
    /\ look = "lock" => LockInv
    /\ look = "ticket" => TicketInv
    /\ look = "plan" => PlanInv
    /\ FilesInv

\* What moves neither a lock nor a daemon.
OthersNext ==
    \/ OfRail(UnwatchNext) \/ OfIssues(IssueNext) \/ OfPanes(PanesNext)
    \/ OfTicket(TicketDoorNext) \/ OfPlan(PlanNext)
    \/ OfLint(PlanLintNext) \/ OfWorktrees(WorktreesNext) \/ OfQueue(QueueViewNext)

LEMMA OthersLeave == OthersNext => UNCHANGED <<lockVars, daemonVars, look>> /\ look # "lock"
BY DEF OthersNext, OthersRest, FilesRest, AllElseRests, OfRail, OfIssues, OfPanes, OfTicket, OfPlan,
       OfLint, OfWorktrees, OfQueue

LEMMA SubmitInit ==
    Init => (look = "ticket" => TicketInv) /\ (look = "plan" => PlanInv)
BY TicketInvInit, PlanInvInit DEF Init, Begins

LEMMA FilesInit == Init => FilesInv
BY LintInvInit, TreesInvInit, QueueInvInit DEF Init, Begins, FilesInv

LEMMA FilesSteps ==
    ASSUME FilesInv, [Next]_vars
    PROVE  FilesInv'
<1>1. CASE OfLint(PlanLintNext)
    BY <1>1, LintInvSteps DEF OfLint, AllElseRests, FilesInv
<1>2. CASE OfWorktrees(WorktreesNext)
    BY <1>2, TreesInvSteps DEF OfWorktrees, AllElseRests, FilesInv
<1>3. CASE OfQueue(QueueViewNext)
    BY <1>3, QueueInvSteps DEF OfQueue, AllElseRests, FilesInv
<1>4. CASE \/ OfLock(LockNext) \/ OfDaemons(DaemonNext)
           \/ OfRail(UnwatchNext) \/ OfIssues(IssueNext) \/ OfPanes(PanesNext)
           \/ OfTicket(TicketDoorNext) \/ OfPlan(PlanNext)
    <2>1. look' = look /\ look \notin {"lint", "worktrees", "queue"}
        BY <1>4 DEF OfLock, OfDaemons, OfRail, OfIssues, OfPanes, OfTicket, OfPlan, OthersRest, FilesRest
    <2> QED BY <2>1 DEF FilesInv
<1>5. CASE UNCHANGED vars
    <2>1. UNCHANGED <<lintVars, treeVars, queueVars, look>>
        BY <1>5 DEF vars, fileVars
    <2> QED BY <2>1, LintInvStutters, TreesInvStutters, QueueInvStutters DEF FilesInv
<1> QED BY <1>1, <1>2, <1>3, <1>4, <1>5 DEF Next

LEMMA SubmitSteps ==
    ASSUME (look = "ticket" => TicketInv) /\ (look = "plan" => PlanInv), [Next]_vars
    PROVE  (look = "ticket" => TicketInv)' /\ (look = "plan" => PlanInv)'
<1>1. CASE OfTicket(TicketDoorNext)
    BY <1>1, TicketInvSteps DEF OfTicket, OthersRest, FilesRest
<1>2. CASE OfPlan(PlanNext)
    BY <1>2, PlanInvSteps DEF OfPlan, OthersRest, FilesRest
<1>3. CASE \/ OfLock(LockNext) \/ OfDaemons(DaemonNext)
           \/ OfRail(UnwatchNext) \/ OfIssues(IssueNext) \/ OfPanes(PanesNext)
           \/ OfLint(PlanLintNext) \/ OfWorktrees(WorktreesNext) \/ OfQueue(QueueViewNext)
    <2>1. look' = look /\ look \notin {"ticket", "plan"}
        BY <1>3 DEF OfLock, OfDaemons, OfRail, OfIssues, OfPanes, OfLint, OfWorktrees, OfQueue,
                    OthersRest, FilesRest, AllElseRests
    <2> QED BY <2>1
<1>4. CASE UNCHANGED vars
    <2>1. UNCHANGED <<doorVars, planVars, look>>
        BY <1>4 DEF vars, submitVars
    <2> QED BY <2>1, TicketInvStutters, PlanInvStutters
<1> QED BY <1>1, <1>2, <1>3, <1>4 DEF Next

LEMMA OperationsInvHolds == Spec => []OperationsInv
<1>1. Init => OperationsInv
    BY LockInvInit, DaemonInvInit, SubmitInit, FilesInit DEF Init, OperationsInv
<1>2. OperationsInv /\ [Next]_vars => OperationsInv'
    <2> SUFFICES ASSUME OperationsInv, [Next]_vars PROVE OperationsInv'
        OBVIOUS
    <2>0. (look = "ticket" => TicketInv)' /\ (look = "plan" => PlanInv)'
        BY SubmitSteps DEF OperationsInv
    <2>f. FilesInv'
        BY FilesSteps DEF OperationsInv
    <2>1. CASE OfLock(LockNext)
        BY <2>0, <2>f, <2>1, LockInvSteps, DaemonInvStutters DEF OfLock, FilesRest, OperationsInv
    <2>2. CASE OfDaemons(DaemonNext)
        BY <2>0, <2>f, <2>2, DaemonInvSteps DEF OfDaemons, FilesRest, OperationsInv
    <2>3. CASE OthersNext
        <3>1. UNCHANGED <<lockVars, daemonVars, look>> /\ look # "lock"
            BY <2>3, OthersLeave
        <3> QED BY <2>0, <2>f, <3>1, DaemonInvStutters DEF OperationsInv
    <2>4. CASE UNCHANGED vars
        <3>1. UNCHANGED <<daemonVars, lockVars, look>>
            BY <2>4 DEF vars
        <3> QED BY <2>0, <2>f, <3>1, LockInvStutters, DaemonInvStutters DEF OperationsInv
    <2> QED BY <2>1, <2>2, <2>3, <2>4 DEF Next, OthersNext
<1> QED BY <1>1, <1>2, PTL DEF Spec

\* Whatever the number of racing starters, stealers and crashes, one process
\* holds a pidfile and racing starters do not all lose it (acquirePidfileLock);
\* and however many daemons are started on whatever roots, none works on a data
\* root or a queue another works on, and whoever ended by itself has handed its
\* claims back (runStartCommand); and a run keeps its worktree from every prune
\* that could know of it (runWorktreePruneCommand), for every scene.
THEOREM ClaimsSound == Spec => []ClaimsAreSound
<1>1. OperationsInv => ClaimsAreSound
    BY LockInvSound, ClaimsFollowFromInv, DaemonTypesFromInv, TreesInvSound DEF OperationsInv, FilesInv, DaemonInv, ClaimsAreSound
<1> QED BY <1>1, OperationsInvHolds, PTL

\* What a daemon goes by is what its configuration file says once its reload
\* has run, with every lever that needs a restart reported (configWatcher); and
\* the verdicts of restart, update and ensure are true of the processes there
\* are (restartCmd, updateCmd), for every number of installations and starts.
THEOREM DaemonsTellTheTruth == Spec => []DaemonTellsTheTruth
<1>1. OperationsInv => DaemonTellsTheTruth
    BY ConfigFollowsFromInv DEF OperationsInv, DaemonInv, CommandInv, DaemonTellsTheTruth
<1> QED BY <1>1, OperationsInvHolds, PTL

\* Two processes of which none dies exclude each other without exception, as
\* the header of pidfileLock.ts says: what `usurped` excepts takes a third
\* process, or a death between the rename aside and the restore.
THEOREM TwoStartersOneWinner ==
    ASSUME NEW a, NEW b, Procs = {a, b}, Crashes = FALSE
    PROVE  Spec => [](look = "lock" /\ links =>
                        \A p, q \in Procs : pc[p] \in Holding /\ pc[q] \in Holding => p = q)
<1> DEFINE Alone == look = "lock" => Unusurped
<1>1. Init => Alone
    BY DEF Init, LockInit, Unusurped
<1>2. OperationsInv /\ Alone /\ [Next]_vars => Alone'
    <2> SUFFICES ASSUME OperationsInv, Alone, [Next]_vars, look' = "lock" PROVE Unusurped'
        OBVIOUS
    <2>1. CASE OfLock(LockNext)
        BY <2>1, TwoAlone DEF OfLock, FilesRest, OperationsInv
    <2>2. CASE UNCHANGED <<lockVars, look>>
        BY <2>2 DEF lockVars, Unusurped
    <2>3. CASE OfDaemons(DaemonNext) \/ OthersNext
        <3>1. look' = look /\ look # "lock"
            BY <2>3, OthersLeave DEF OfDaemons, FilesRest
        <3> QED BY <3>1
    <2> QED BY <2>1, <2>2, <2>3 DEF Next, OthersNext, vars
<1>3. OperationsInv /\ Alone =>
        (look = "lock" /\ links => \A p, q \in Procs : pc[p] \in Holding /\ pc[q] \in Holding => p = q)
    <2> SUFFICES ASSUME LockInv, Unusurped, links, NEW p \in Procs, NEW q \in Procs,
                        pc[p] \in Holding, pc[q] \in Holding
        PROVE  p = q
        BY DEF OperationsInv
    <2>1. p \notin usurped /\ q \notin usurped
        BY DEF Unusurped
    <2> QED BY <2>1 DEF LockInv, HolderInv, MutualExclusion
<1> QED BY <1>1, <1>2, <1>3, OperationsInvHolds, PTL DEF Spec

\* Whatever the number of authors, turns, revisions and tasks: a text that was
\* submitted is placed once, stays, and is told of truthfully, and the dry run
\* foretells the worker's verdict (placeTicketFile, dispatch); a plan's run that
\* exits 0 left no task out, no task has a second ticket beside the one that
\* runs, and the record is of what is queued (submitPlanSet, supersedeUnclaimed);
\* and a text that passes the lint has no `cd` in a block that is run, unless it
\* has what the two patterns read differently (lintTicket, extractVerificationBlocks).
THEOREM SubmissionsSound == Spec => []SubmissionsAreSound
<1>1. OperationsInv => SubmissionsAreSound
    BY TicketInvSound, PlanInvSound, LintInvSound DEF OperationsInv, FilesInv, SubmissionsAreSound
<1> QED BY <1>1, OperationsInvHolds, PTL

\* For every number of tickets, and of ticks that overlap: what a tick of the
\* dashboard brings to the screen is where each ticket is that did not move
\* meanwhile, nobody who only went forward is missing but a ticket claimed between
\* the daemon's answer and the reading of the inbox, the history is the ledger's
\* unless two records have one mtime, and `delete` deletes what was asked for or
\* what bears a name that contains its own (makeQueueSnapshotFn, runRmCommand).
THEOREM QueueShown == Spec => [](look = "queue" => QueueViewTypeOK /\ QueueIsShown)
<1>1. OperationsInv => (look = "queue" => QueueViewTypeOK /\ QueueIsShown)
    BY QueueInvSound DEF OperationsInv, FilesInv
<1> QED BY <1>1, OperationsInvHolds, PTL
=============================================================================
