----------------------------- MODULE MC_MultiTcp -----------------------------
(* Two clients on distinct addresses, and two on the same one.            *)
EXTENDS MultiTcp

CONSTANTS c1, c2

\* Each client connects from its own address and port.
DistinctAddr == [c \in Conns |-> IF c = c1 THEN 1 ELSE 2]

\* The second client reconnects from the first one's address and port.
SharedAddr == [c \in Conns |-> 1]
==============================================================================
