------------------------------ MODULE MCPrFlow ------------------------------
(* Bounds for TLC: apply tickets and agents', each option on and off, with  *)
(* what can happen around them taken two or three at a time.               *)
EXTENDS PrFlow

Bound(apply, fallback, block, leftovers, retries, free, people, kills, again) ==
    [apply |-> apply, fallback |-> fallback, block |-> block, leftovers |-> leftovers,
     retries |-> retries, free |-> free, people |-> people, kills |-> kills, again |-> again]

MCInstances ==
    {Bound(TRUE, TRUE, TRUE, TRUE, 1, 0, 1, 0, 0),
     Bound(TRUE, TRUE, FALSE, FALSE, 1, 0, 0, 1, 0),
     Bound(TRUE, FALSE, FALSE, FALSE, 1, 0, 2, 1, 0),
     Bound(TRUE, FALSE, TRUE, FALSE, 0, 0, 2, 0, 1),
     Bound(FALSE, FALSE, TRUE, TRUE, 1, 1, 1, 1, 0),
     Bound(FALSE, FALSE, FALSE, FALSE, 1, 0, 2, 0, 0),
     Bound(FALSE, FALSE, FALSE, TRUE, 0, 0, 1, 0, 1)}
=============================================================================
