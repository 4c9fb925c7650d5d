-------------------------- MODULE MCTwoPhaseCommit --------------------------
(* The five participants of docker-compose.yml for TLC.                    *)
EXTENDS TwoPhaseCommit

CONSTANTS p1, p2, p3, p4, p5

InOrder == <<p1, p2, p3, p4, p5>>
=============================================================================
