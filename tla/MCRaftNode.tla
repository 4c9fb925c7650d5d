----------------------------- MODULE MCRaftNode -----------------------------
(* Small clusters of Raft nodes for TLC.                                   *)
EXTENDS RaftNode

\* Each node's -peers list names the others in order.
TwoPeers == [n \in Node |-> IF n = 1 THEN <<2>> ELSE <<1>>]

ThreePeers == [n \in Node |-> CASE n = 1 -> <<2, 3>>
                                [] n = 2 -> <<1, 3>>
                                [] OTHER -> <<1, 2>>]
=============================================================================
