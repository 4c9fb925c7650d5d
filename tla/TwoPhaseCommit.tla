--------------------------- MODULE TwoPhaseCommit ---------------------------
(***************************************************************************)
(* The two-phase commit of "Project - 2/Q2": a Python coordinator asks the *)
(* participants for their votes one after the other (coordinator.py,       *)
(* participant.py), hands the votes to a Go process in its container, and  *)
(* that process sends the decision to the Go processes of the participants *)
(* (global_decision.go).  One transaction is run.                          *)
(*                                                                         *)
(* The coordinator's container is one sequence of phases: the Go process   *)
(* waits for the votes, and the container ends with the Python process     *)
(* when that one fails (docker-compose.yml 9).  No call has a deadline: a  *)
(* participant that hangs is one that takes no step.                       *)
(***************************************************************************)
EXTENDS Naturals, Sequences, FiniteSets

CONSTANTS
  Participant,   \* the participants
  Addresses,     \* the order in which the coordinator calls them
  Forced,        \* participants started with FORCE_COMMIT=true
  Unreliable     \* participants that may crash, hang or be cut off

ASSUME ParticipantAssumption == IsFiniteSet(Participant) /\ Participant # {}

ASSUME AddressAssumption ==
  /\ Addresses \in Seq(Participant)
  /\ \A p \in Participant : \E i \in 1..Len(Addresses) : Addresses[i] = p
  /\ Len(Addresses) = Cardinality(Participant)
  /\ \A i, j \in 1..Len(Addresses) : Addresses[i] = Addresses[j] => i = j

ASSUME EnvironmentAssumption ==
  Forced \subseteq Participant /\ Unreliable \subseteq Participant

VARIABLES
  up,           \* up[p]: the container of p runs
  cast,         \* cast[p]: what p voted, "none" before
  decided,      \* decided[p]: what p was told to do, "none" before
  coordinator,  \* the phase the coordinator is in, or "failed"
  votes,        \* the votes the Python coordinator has collected
  decision,     \* the global decision, "none" before
  unsent        \* participants whose GlobalDecision call is not over

vars == <<up, cast, decided, coordinator, votes, decision, unsent>>

Vote == {"commit", "abort"}
VoteOrNone == Vote \cup {"none"}
Phase == {"voting", "reporting", "reported", "sending", "done", "failed"}

Init ==
  /\ up = [p \in Participant |-> FALSE]
  /\ cast = [p \in Participant |-> "none"]
  /\ decided = [p \in Participant |-> "none"]
  /\ coordinator = "voting"
  /\ votes = <<>>
  /\ decision = "none"
  /\ unsent = {}

\* A container starts, and again after a crash: it remembers nothing.
Start(p) ==
  /\ ~up[p]
  /\ up' = [up EXCEPT ![p] = TRUE]
  /\ UNCHANGED <<cast, decided, coordinator, votes, decision, unsent>>

Crash(p) ==
  /\ p \in Unreliable /\ up[p]
  /\ up' = [up EXCEPT ![p] = FALSE]
  /\ UNCHANGED <<cast, decided, coordinator, votes, decision, unsent>>

-----------------------------------------------------------------------------
(* Voting.                                                                 *)

Voting == coordinator = "voting" /\ Len(votes) < Len(Addresses)
\* A mutant asks the first participant every time.
FirstCallee == Addresses[1]
Callee == Addresses[Len(votes) + 1]

\* A mutant may answer before it has chosen.
ChoicesOrNone(p) == VoteOrNone
\* What p may vote: at random, unless it is forced.
Choices(p) == IF p \in Forced THEN {"commit"} ELSE Vote

RequestVote(p, v) ==
  /\ up[p]
  /\ cast' = [cast EXCEPT ![p] = v]

\* The callee votes and the coordinator gets its vote.
VoteAnswered ==
  /\ Voting
  /\ \E v \in Choices(Callee) :
       RequestVote(Callee, v) /\ votes' = Append(votes, v)
  /\ UNCHANGED <<up, decided, coordinator, decision, unsent>>

\* The call fails, before or after the callee has voted: an exception nobody
\* catches ends the coordinator.
VoteFails ==
  /\ Voting
  /\ \/ ~up[Callee] /\ cast' = cast
     \/ /\ Callee \in Unreliable
        /\ \E v \in Choices(Callee) : RequestVote(Callee, v)
  /\ coordinator' = "failed"
  /\ UNCHANGED <<up, decided, votes, decision, unsent>>

-----------------------------------------------------------------------------
(* Deciding.                                                               *)

\* SendVotes begins to store the list.  The lock it holds is not taken by
\* waitForVotes and main, which may see the list's length before its array.
ReportVotes ==
  /\ coordinator = "voting" /\ Len(votes) = Len(Addresses)
  /\ coordinator' = "reporting"
  /\ UNCHANGED <<up, cast, decided, votes, decision, unsent>>

\* The list is there.
VotesStored ==
  /\ coordinator = "reporting"
  /\ coordinator' = "reported"
  /\ UNCHANGED <<up, cast, decided, votes, decision, unsent>>

\* main read the list half stored, or the container stops for a reason of its
\* own.
CoordinatorFails ==
  /\ coordinator \notin {"done", "failed"}
  /\ coordinator' = "failed"
  /\ UNCHANGED <<up, cast, decided, votes, decision, unsent>>

\* A mutant looks at the last vote only.
DecisionOfLast(vs) == vs[Len(vs)]
coordinatorDecision(vs) ==
  IF \E i \in 1..Len(vs) : vs[i] = "abort" THEN "abort" ELSE "commit"

Decide ==
  /\ coordinator = "reported"
  /\ coordinator' = "sending"
  /\ decision' = coordinatorDecision(votes)
  /\ unsent' = Participant
  /\ UNCHANGED <<up, cast, decided, votes>>

\* A mutant calls the participants one after the other.
CalledInOrder(p) ==
  \E i \in 1..Len(Addresses) :
    /\ Addresses[i] = p
    /\ \A j \in 1..(i - 1) : Addresses[j] \notin unsent
\* Each participant is called by a goroutine of its own.
Called(p) == p \in unsent

\* The participant does what it is told, whatever it voted; it may handle its
\* call after the coordinator has failed.
GlobalDecision(p) ==
  /\ coordinator \in {"sending", "failed"} /\ Called(p)
  /\ up[p]
  /\ decided' = [decided EXCEPT ![p] = decision]
  /\ unsent' = unsent \ {p}
  /\ UNCHANGED <<up, cast, coordinator, votes, decision>>

\* The call fails: it is logged and not tried again.
DecisionFails(p) ==
  /\ coordinator = "sending" /\ p \in unsent
  /\ ~up[p] \/ p \in Unreliable
  /\ unsent' = unsent \ {p}
  /\ UNCHANGED <<up, cast, decided, coordinator, votes, decision>>

\* "All participants have received the global decision."
Announce ==
  /\ coordinator = "sending" /\ unsent = {}
  /\ coordinator' = "done"
  /\ UNCHANGED <<up, cast, decided, votes, decision, unsent>>

Next ==
  \/ \E p \in Participant : \/ Start(p) \/ Crash(p)
                            \/ GlobalDecision(p) \/ DecisionFails(p)
  \/ VoteAnswered \/ VoteFails \/ ReportVotes \/ VotesStored
  \/ CoordinatorFails \/ Decide \/ Announce

Spec == Init /\ [][Next]_vars

\* The coordinator's processes run on, and so does a reliable participant.
Fairness ==
  /\ WF_vars(VotesStored) /\ WF_vars(ReportVotes) /\ WF_vars(Decide)
  /\ \A p \in Participant \ Unreliable :
       WF_vars(Start(p)) /\ WF_vars(GlobalDecision(p))

FairSpec == Spec /\ Fairness

-----------------------------------------------------------------------------
TypeOK ==
  /\ up \in [Participant -> BOOLEAN]
  /\ cast \in [Participant -> VoteOrNone]
  /\ decided \in [Participant -> VoteOrNone]
  /\ coordinator \in Phase
  /\ votes \in Seq(Vote)
  /\ Len(votes) <= Len(Addresses)
  /\ decision \in VoteOrNone
  /\ unsent \subseteq Participant

\* The promise, with what a participant was told as its outcome: the decision
\* rule (27-34), the order of the phases and the failures between them never
\* make a participant commit against a vote or abort without one.
Promise == INSTANCE AtomicCommit WITH outcome <- decided
KeepsPromise == Promise!Spec

\* The coordinator of the voting phase alone (Q1_Assignment2): it is done when
\* the votes have been evaluated, and its verdict is the decision.
VotingCoordinator ==
  IF coordinator \in {"voting", "reporting", "reported"} THEN "voting"
  ELSE IF decision # "none" THEN "done" ELSE "failed"
Earlier == INSTANCE VotingPhase WITH coordinator <- VotingCoordinator,
                                     verdict <- decision

\* This protocol was built on Q1_Assignment2's and asks, fails and decides as
\* that one does: the Go process that now evaluates the votes, and reads them
\* while they are stored, comes to the verdict the first coordinator prints.
KeepsVotingPhase == Earlier!Spec

\* Participants do not look at their own vote (98-102), yet one that voted
\* abort is never told to commit, crashes or not.
OwnVoteRespected ==
  \A p \in Participant : cast[p] = "abort" => decided[p] # "commit"

\* A goroutine per participant (44): once decided, a reliable participant is
\* told, however the others hang, unless the coordinator fails.
ReliableAreTold ==
  \A p \in Participant \ Unreliable :
    coordinator = "sending" ~> decided[p] # "none" \/ coordinator = "failed"
=============================================================================
