--------------------------- MODULE MCTicketQueue ---------------------------
(***************************************************************************)
(* Instances of TicketQueue for TLC: two submissions of one id (t1, t2),   *)
(* and two tickets of one repository (t2, t3).                             *)
(***************************************************************************)
EXTENDS TicketQueue, TLC

CONSTANTS t1, t2, t3, a, b, c, d, ra, noRepo

MCNameOf == [t \in Tickets |-> IF t = t3 THEN b ELSE a]
MCRepoOf == [t \in Tickets |-> IF t = t1 THEN noRepo ELSE ra]
MCRank == [t \in Tickets |-> IF t = t3 THEN 2 ELSE 1]
MCApply == {t3} \cap Tickets
MCMalformed == {}

\* Slots are interchangeable.
MCSymmetry == Permutations(Slots)
MCMalformedT1 == {t1}
=============================================================================
