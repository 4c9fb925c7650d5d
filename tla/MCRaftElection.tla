--------------------------- MODULE MCRaftElection ---------------------------
(* A small cluster of the election-only Raft nodes for TLC.                *)
EXTENDS RaftElection

ThreePeers == [n \in Node |-> CASE n = 1 -> <<2, 3>>
                                [] n = 2 -> <<1, 3>>
                                [] OTHER -> <<1, 2>>]
=============================================================================
