---------------------------- MODULE MCNodeService ----------------------------
(* Small instances of NodeService: two lanes, an invoke of the second.     *)
EXTENDS NodeService, TLC
CONSTANTS s1, s2, r1, run

MCOwner == [c \in Conns |-> c]
MCTarget == [r \in Requests |-> 2]
MCCommand == [r \in Requests |-> run]
MCKey == [r \in Requests |-> "own"]
=============================================================================
