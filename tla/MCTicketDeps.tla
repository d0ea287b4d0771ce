---------------------------- MODULE MCTicketDeps ----------------------------
(* An instance of TicketDeps for TLC: a chain with a shortcut, so that one *)
(* ticket has two edges and a failure cascades through two tickets.        *)
EXTENDS TicketDeps

CONSTANTS parent, child, grandchild

MCDependsOn == [t \in Tickets |-> CASE t = parent -> {}
                                    [] t = child -> {parent}
                                    [] t = grandchild -> {parent, child}]

\* The chain, and parent and child alone with more going on.
MCInstances == {[tickets |-> Tickets, retries |-> 1, events |-> 0],
                [tickets |-> {parent, child}, retries |-> 2, events |-> 1]}
=============================================================================
