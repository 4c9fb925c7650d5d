---------------------------- MODULE MCRaftCluster ----------------------------
(* Small clusters of Raft nodes with their Go servers for TLC.             *)
EXTENDS RaftCluster

TwoPeers == [n \in Node |-> IF n = 1 THEN <<2>> ELSE <<1>>]

ThreePeers == [n \in Node |-> CASE n = 1 -> <<2, 3>>
                                [] n = 2 -> <<1, 3>>
                                [] OTHER -> <<1, 2>>]
=============================================================================
