--------------------------- MODULE MCNodeRegistry ---------------------------
(* Small instances of NodeRegistry: one node on one connection.            *)
EXTENDS NodeRegistry, TLC
CONSTANTS n1, c1, r1, r2, r3, s1, present

MCOwner == [c \in Conns |-> n1]
MCTarget == [r \in Requests |-> n1]
MCCommand == [r \in Requests |-> present]
\* r1 and its retry r2 have one key.
MCKey == [r \in Requests |-> IF r \in {r1, r2} THEN "retry" ELSE "own"]
=============================================================================
