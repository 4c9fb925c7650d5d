----------------------------- MODULE VotingPhase -----------------------------
(***************************************************************************)
(* The voting phase of "Project - 2/Q1_Assignment2": the coordinator asks  *)
(* the participants for their votes one after the other and prints its     *)
(* verdict; nobody is told (coordinator.py, participant.py).  The complete *)
(* protocol of Q2 is built on it and implements it: see TwoPhaseCommit.    *)
(***************************************************************************)
EXTENDS Naturals, Sequences

CONSTANTS
  Participant,   \* the participants
  Addresses,     \* PARTICIPANTS, the order in which they are called
  Forced,        \* participants started with FORCE_COMMIT=true
  Unreliable     \* participants that may crash or be cut off

VARIABLES
  up,           \* up[p]: p's server runs
  cast,         \* cast[p]: what p voted, "none" before
  coordinator,  \* "voting", "done" or "failed"
  votes,        \* the votes collected
  verdict       \* what main printed, "none" before

vars == <<up, cast, coordinator, votes, verdict>>

Vote == {"commit", "abort"}

Init ==
  /\ up = [p \in Participant |-> FALSE]
  /\ cast = [p \in Participant |-> "none"]
  /\ coordinator = "voting" /\ votes = <<>> /\ verdict = "none"

\* A participant's server starts, and again after a crash.
Start(p) ==
  /\ ~up[p] /\ up' = [up EXCEPT ![p] = TRUE]
  /\ UNCHANGED <<cast, coordinator, votes, verdict>>

Crash(p) ==
  /\ p \in Unreliable /\ up[p] /\ up' = [up EXCEPT ![p] = FALSE]
  /\ UNCHANGED <<cast, coordinator, votes, verdict>>

Asks(p) ==
  /\ coordinator = "voting" /\ Len(votes) < Len(Addresses)
  /\ p = Addresses[Len(votes) + 1]

\* The handler chooses at random, unless the vote is forced.
RequestVote(p, v) ==
  /\ up[p] /\ v \in (IF p \in Forced THEN {"commit"} ELSE Vote)
  /\ cast' = [cast EXCEPT ![p] = v]

VoteAnswered(p, v) ==
  /\ Asks(p) /\ RequestVote(p, v) /\ votes' = Append(votes, v)
  /\ UNCHANGED <<up, coordinator, verdict>>

\* Nobody catches the error of a call: the coordinator ends.  The participant
\* may have voted before the call failed.
VoteFails(p) ==
  /\ Asks(p)
  /\ \/ ~up[p] /\ UNCHANGED cast
     \/ p \in Unreliable /\ \E v \in Vote : RequestVote(p, v)
  /\ coordinator' = "failed"
  /\ UNCHANGED <<up, votes, verdict>>

\* Every vote is there: all(v == COMMIT for v in votes).
Conclude ==
  /\ coordinator = "voting" /\ Len(votes) = Len(Addresses)
  /\ verdict' = IF \A i \in 1..Len(votes) : votes[i] = "commit"
                  THEN "commit" ELSE "abort"
  /\ coordinator' = "done"
  /\ UNCHANGED <<up, cast, votes>>

\* The coordinator is stopped.
CoordinatorFails ==
  /\ coordinator = "voting" /\ coordinator' = "failed"
  /\ UNCHANGED <<up, cast, votes, verdict>>

Next ==
  \/ \E p \in Participant :
       \/ Start(p) \/ Crash(p) \/ VoteFails(p)
       \/ \E v \in Vote : VoteAnswered(p, v)
  \/ Conclude \/ CoordinatorFails

Spec == Init /\ [][Next]_vars
=============================================================================
