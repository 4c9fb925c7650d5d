---------------------------- MODULE MCRaftClient ----------------------------
(* Small clusters with the test client for TLC.                            *)
EXTENDS RaftClient

TwoPeers == [n \in Node |-> IF n = 1 THEN <<2>> ELSE <<1>>]

ThreePeers == [n \in Node |-> CASE n = 1 -> <<2, 3>>
                                [] n = 2 -> <<1, 3>>
                                [] OTHER -> <<1, 2>>]

\* The nodes the client asks.
TheFirst == <<1>>
BothNodes == <<1, 2>>

Calls == [number : 1..MaxCalls, call : 1..MaxCalls]
=============================================================================
