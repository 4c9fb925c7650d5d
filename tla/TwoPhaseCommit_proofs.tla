------------------------ MODULE TwoPhaseCommit_proofs ------------------------
(* Proofs about TwoPhaseCommit, for any number of participants, any of     *)
(* them forced and any of them unreliable.                                 *)
EXTENDS TwoPhaseCommit, TLAPS

\* The collected votes are those of the first addresses, in order; while votes
\* are collected, the other participants have not voted.
VotesInv ==
  /\ \A i \in 1..Len(votes) : cast[Addresses[i]] = votes[i]
  /\ coordinator = "voting" =>
       \A i \in 1..Len(Addresses) : i > Len(votes) => cast[Addresses[i]] = "none"
  /\ coordinator \notin {"voting", "failed"} => Len(votes) = Len(Addresses)

\* The decision is that of all votes, and nobody was told another one.
DecisionInv ==
  /\ coordinator \in {"voting", "reporting", "reported"} => decision = "none"
  /\ coordinator \in {"sending", "done"} => decision # "none"
  /\ decision = "none" => unsent = {}
  /\ decision # "none" => /\ Len(votes) = Len(Addresses)
                          /\ decision = coordinatorDecision(votes)
                          /\ coordinator \in {"sending", "done", "failed"}
  /\ \A p \in Participant : decided[p] \in {"none", decision}
  /\ \A p \in unsent : decided[p] = "none"

IInv == TypeOK /\ VotesInv /\ DecisionInv

-----------------------------------------------------------------------------
\* The callee is a participant, the next one of the list.
LEMMA CalleeNext ==
  ASSUME TypeOK, Voting
  PROVE  /\ Callee \in Participant
         /\ Len(votes) + 1 \in 1..Len(Addresses)
         /\ \A i \in 1..Len(Addresses) :
              Addresses[i] = Callee <=> i = Len(votes) + 1
  <1>1. Len(votes) \in Nat /\ Len(Addresses) \in Nat
    BY AddressAssumption DEF TypeOK
  <1>2. Len(votes) + 1 \in 1..Len(Addresses)
    BY <1>1 DEF Voting
  <1> QED
    BY <1>2, AddressAssumption DEF Callee

LEMMA InitInv == Init => IInv
  <1> SUFFICES ASSUME Init PROVE IInv
    OBVIOUS
  <1> USE DEF Init
  <1>1. TypeOK
    BY AddressAssumption DEF TypeOK, VoteOrNone, Vote, Phase
  <1>2. VotesInv
    BY AddressAssumption DEF VotesInv
  <1>3. DecisionInv
    BY DEF DecisionInv
  <1> QED
    BY <1>1, <1>2, <1>3 DEF IInv

\* The decision is a vote that was cast, and commit only when all are.
LEMMA DecisionByVotes ==
  ASSUME IInv, decision # "none"
  PROVE  /\ decision \in Vote
         /\ decision = "commit" => \A p \in Participant : cast[p] = "commit"
         /\ decision = "abort" => \E p \in Participant : cast[p] = "abort"
  <1> USE DEF IInv
  <1>1. /\ Len(votes) = Len(Addresses)
        /\ decision = coordinatorDecision(votes)
    BY DEF DecisionInv
  <1>2. \A i \in 1..Len(votes) : votes[i] \in Vote /\ cast[Addresses[i]] = votes[i]
    BY DEF TypeOK, VotesInv
  <1>3. decision \in Vote
    BY <1>1 DEF coordinatorDecision, Vote
  <1>4. ASSUME decision = "commit", NEW p \in Participant
        PROVE  cast[p] = "commit"
    <2>1. PICK i \in 1..Len(Addresses) : Addresses[i] = p
      BY AddressAssumption
    <2> QED
      BY <1>1, <1>2, <1>4, <2>1 DEF coordinatorDecision, Vote
  <1>5. ASSUME decision = "abort"
        PROVE  \E p \in Participant : cast[p] = "abort"
    <2>1. PICK i \in 1..Len(votes) : votes[i] = "abort"
      BY <1>1, <1>5 DEF coordinatorDecision
    <2>2. Addresses[i] \in Participant
      BY <1>1, AddressAssumption
    <2> QED
      BY <1>2, <2>1, <2>2
  <1> QED
    BY <1>3, <1>4, <1>5
-----------------------------------------------------------------------------
(* The invariant.                                                          *)

\* A participant votes while votes are collected.
LEMMA VoteStep ==
  ASSUME IInv, Voting, NEW v \in Choices(Callee), RequestVote(Callee, v)
  PROVE  /\ v \in Vote
         /\ Callee \in Participant
         /\ cast[Callee] = "none"
         /\ cast' = [cast EXCEPT ![Callee] = v]
         /\ cast' \in [Participant -> VoteOrNone]
         /\ \A i \in 1..Len(votes) : cast'[Addresses[i]] = votes[i]
         /\ cast'[Addresses[Len(votes) + 1]] = v
         /\ \A i \in 1..Len(Addresses) :
              i > Len(votes) + 1 => cast'[Addresses[i]] = "none"
  <1> USE DEF IInv
  <1>1. v \in Vote
    BY DEF Choices, Vote
  <1>2. /\ Callee \in Participant
        /\ Len(votes) \in Nat /\ Len(Addresses) \in Nat
        /\ Len(votes) + 1 \in 1..Len(Addresses)
        /\ \A i \in 1..Len(Addresses) :
             Addresses[i] = Callee <=> i = Len(votes) + 1
    BY CalleeNext, AddressAssumption DEF TypeOK
  <1>3. cast[Callee] = "none"
    BY <1>2 DEF VotesInv, Voting
  <1>4. cast' = [cast EXCEPT ![Callee] = v]
    BY DEF RequestVote
  <1>5. cast \in [Participant -> VoteOrNone] /\ cast' \in [Participant -> VoteOrNone]
    BY <1>1, <1>4 DEF TypeOK, VoteOrNone
  <1>6. \A i \in 1..Len(Addresses) : Addresses[i] \in Participant
    BY AddressAssumption
  <1>7. \A i \in 1..Len(votes) : cast'[Addresses[i]] = votes[i]
    BY <1>2, <1>4, <1>5, <1>6 DEF VotesInv
  <1>8. cast'[Addresses[Len(votes) + 1]] = v
    BY <1>2, <1>4, <1>5
  <1>9. \A i \in 1..Len(Addresses) :
          i > Len(votes) + 1 => cast'[Addresses[i]] = "none"
    BY <1>2, <1>4, <1>5, <1>6 DEF VotesInv, Voting
  <1> QED
    BY <1>1, <1>2, <1>3, <1>4, <1>5, <1>7, <1>8, <1>9

LEMMA InvStep == IInv /\ [Next]_vars => IInv'
  <1> SUFFICES ASSUME IInv, [Next]_vars PROVE IInv'
    OBVIOUS
  <1> USE DEF IInv
  <1>1. Len(votes) \in Nat /\ Len(Addresses) \in Nat
    BY AddressAssumption DEF TypeOK
  <1>2. ASSUME NEW p \in Participant, Start(p) PROVE IInv'
    BY <1>2 DEF Start, TypeOK, VotesInv, DecisionInv, coordinatorDecision
  <1>3. ASSUME NEW p \in Participant, Crash(p) PROVE IInv'
    BY <1>3 DEF Crash, TypeOK, VotesInv, DecisionInv, coordinatorDecision
  <1>4. ASSUME VoteAnswered PROVE IInv'
    <2> USE <1>4 DEF VoteAnswered
    <2>1. PICK v \in Choices(Callee) :
            RequestVote(Callee, v) /\ votes' = Append(votes, v)
      OBVIOUS
    <2>2. Voting
      OBVIOUS
    <2>3. /\ v \in Vote
          /\ cast' \in [Participant -> VoteOrNone]
          /\ \A i \in 1..Len(votes) : cast'[Addresses[i]] = votes[i]
          /\ cast'[Addresses[Len(votes) + 1]] = v
          /\ \A i \in 1..Len(Addresses) :
               i > Len(votes) + 1 => cast'[Addresses[i]] = "none"
      BY <2>1, <2>2, VoteStep
    <2>4. /\ votes' \in Seq(Vote) /\ Len(votes') = Len(votes) + 1
          /\ \A i \in 1..Len(votes) : votes'[i] = votes[i]
          /\ votes'[Len(votes) + 1] = v
      BY <2>1, <2>3 DEF TypeOK
    <2>5. TypeOK'
      BY <1>1, <2>2, <2>3, <2>4 DEF TypeOK, Voting
    <2>6. VotesInv'
      BY <1>1, <2>2, <2>3, <2>4 DEF VotesInv, Voting
    <2>7. DecisionInv'
      BY <2>2 DEF DecisionInv, Voting
    <2> QED
      BY <2>5, <2>6, <2>7
  <1>5. ASSUME VoteFails PROVE IInv'
    <2> USE <1>5 DEF VoteFails
    <2>1. Voting
      OBVIOUS
    <2>2. /\ cast' \in [Participant -> VoteOrNone]
          /\ \A i \in 1..Len(votes) : cast'[Addresses[i]] = votes[i]
      <3>1. CASE cast' = cast
        BY <3>1 DEF TypeOK, VotesInv
      <3>2. CASE \E v \in Choices(Callee) : RequestVote(Callee, v)
        BY <2>1, <3>2, VoteStep
      <3> QED
        BY <3>1, <3>2
    <2>3. TypeOK'
      BY <2>2 DEF TypeOK, Phase
    <2>4. VotesInv'
      BY <2>2 DEF VotesInv
    <2>5. DecisionInv'
      BY <2>1 DEF DecisionInv, Voting
    <2> QED
      BY <2>3, <2>4, <2>5
  <1>6. ASSUME ReportVotes \/ VotesStored \/ CoordinatorFails PROVE IInv'
    BY <1>6 DEF ReportVotes, VotesStored, CoordinatorFails, TypeOK, VotesInv,
                DecisionInv, Phase, coordinatorDecision
  <1>7. ASSUME Decide PROVE IInv'
    <2> USE <1>7 DEF Decide
    <2>1. decision = "none" /\ decision' = coordinatorDecision(votes)
      BY DEF DecisionInv
    <2>2. decision' \in Vote
      BY <2>1 DEF coordinatorDecision, Vote
    <2>3. \A p \in Participant : decided[p] = "none"
      BY <2>1 DEF DecisionInv
    <2>4. TypeOK'
      BY <2>2 DEF TypeOK, VoteOrNone, Phase
    <2>5. VotesInv'
      BY DEF VotesInv
    <2>6. DecisionInv'
      BY <2>1, <2>2, <2>3 DEF DecisionInv, VotesInv, Vote, coordinatorDecision
    <2> QED
      BY <2>4, <2>5, <2>6
  <1>8. ASSUME NEW p \in Participant, GlobalDecision(p) PROVE IInv'
    <2> USE <1>8 DEF GlobalDecision, Called
    <2>1. TypeOK'
      BY DEF TypeOK
    <2>2. VotesInv'
      BY DEF VotesInv
    <2>3. \A q \in Participant : decided'[q] = IF q = p THEN decision ELSE decided[q]
      BY DEF TypeOK
    <2>4. DecisionInv'
      BY <2>3 DEF DecisionInv, TypeOK, coordinatorDecision
    <2> QED
      BY <2>1, <2>2, <2>4
  <1>9. ASSUME NEW p \in Participant, DecisionFails(p) PROVE IInv'
    BY <1>9 DEF DecisionFails, TypeOK, VotesInv, DecisionInv, coordinatorDecision
  <1>10. ASSUME Announce PROVE IInv'
    BY <1>10 DEF Announce, TypeOK, VotesInv, DecisionInv, Phase, coordinatorDecision
  <1>11. ASSUME UNCHANGED vars PROVE IInv'
    BY <1>11 DEF vars, TypeOK, VotesInv, DecisionInv, coordinatorDecision
  <1> QED
    BY <1>2, <1>3, <1>4, <1>5, <1>6, <1>7, <1>8, <1>9, <1>10, <1>11 DEF Next

LEMMA Invariant == Spec => []IInv
  <1> QED
    BY InitInv, InvStep, PTL DEF Spec

\* The variables keep their types.
THEOREM TypeCorrect == Spec => []TypeOK
  <1>1. IInv => TypeOK
    BY DEF IInv
  <1> QED
    BY <1>1, Invariant, PTL

-----------------------------------------------------------------------------
(* The promise.                                                            *)

\* Whatever fails, every step of the system is a step AtomicCommit allows, or
\* none: a vote is cast once, commit follows only unanimous votes, abort only a
\* vote to abort, and no outcome is changed.
THEOREM Atomic == Spec => KeepsPromise
  <1>1. Init => Promise!Init
    BY DEF Init, Promise!Init
  <1>2. IInv /\ [Next]_vars => [Promise!Next]_(Promise!vars)
    <2> SUFFICES ASSUME IInv, [Next]_vars
                 PROVE  [Promise!Next]_(Promise!vars)
      OBVIOUS
    <2>1. CASE UNCHANGED <<cast, decided>>
      BY <2>1 DEF Promise!vars
    <2>2. ASSUME Voting, NEW v \in Choices(Callee), RequestVote(Callee, v),
                 UNCHANGED decided
          PROVE  Promise!Next
      <3>1. /\ v \in Vote /\ Callee \in Participant /\ cast[Callee] = "none"
            /\ cast' = [cast EXCEPT ![Callee] = v]
        BY <2>2, VoteStep
      <3>2. Promise!CastVote(Callee, v)
        BY <2>2, <3>1 DEF Promise!CastVote
      <3> QED
        BY <3>1, <3>2 DEF Promise!Next, Vote
    <2>3. ASSUME NEW p \in Participant, GlobalDecision(p)
          PROVE  Promise!Next
      <3>1. /\ p \in unsent /\ decision # "none" /\ decided[p] = "none"
            /\ decided' = [decided EXCEPT ![p] = decision]
            /\ UNCHANGED cast
        BY <2>3 DEF GlobalDecision, Called, IInv, DecisionInv
      <3>2. CASE decision = "commit"
        <4>1. Promise!Commit(p)
          BY <3>1, <3>2, DecisionByVotes DEF Promise!Commit
        <4> QED
          BY <4>1 DEF Promise!Next
      <3>3. CASE decision = "abort"
        <4>1. Promise!Abort(p)
          BY <3>1, <3>3, DecisionByVotes DEF Promise!Abort
        <4> QED
          BY <4>1 DEF Promise!Next
      <3> QED
        BY <3>1, <3>2, <3>3, DecisionByVotes DEF Vote
    <2>4. CASE VoteAnswered
      BY <2>2, <2>4 DEF VoteAnswered
    <2>5. CASE VoteFails
      BY <2>1, <2>2, <2>5 DEF VoteFails
    <2> QED
      BY <2>1, <2>3, <2>4, <2>5
      DEF Next, vars, Start, Crash, DecisionFails, ReportVotes, VotesStored,
          CoordinatorFails, Decide, Announce
  <1> QED
    BY <1>1, <1>2, Invariant, PTL DEF Spec, KeepsPromise, Promise!Spec

-----------------------------------------------------------------------------
(* What the promise is worth.                                              *)

\* An outcome once reached stays justified: votes are never taken back.
Justified ==
  \A p \in Participant :
    /\ decided[p] = "commit" => \A q \in Participant : cast[q] = "commit"
    /\ decided[p] = "abort" => \E q \in Participant : cast[q] = "abort"

PromiseInv == Promise!TypeOK /\ Justified

LEMMA PromiseStart == Promise!Init => PromiseInv
  BY DEF Promise!Init, PromiseInv, Promise!TypeOK, Justified

LEMMA PromiseStep == PromiseInv /\ [Promise!Next]_(Promise!vars) => PromiseInv'
  <1> SUFFICES ASSUME PromiseInv, [Promise!Next]_(Promise!vars)
               PROVE  PromiseInv'
    OBVIOUS
  <1> USE DEF PromiseInv, Promise!TypeOK, Justified
  <1>1. ASSUME NEW p \in Participant, NEW v \in {"commit", "abort"},
               Promise!CastVote(p, v)
        PROVE  PromiseInv'
    BY <1>1 DEF Promise!CastVote
  <1>2. ASSUME NEW p \in Participant, Promise!Commit(p) PROVE PromiseInv'
    BY <1>2 DEF Promise!Commit
  <1>3. ASSUME NEW p \in Participant, Promise!Abort(p) PROVE PromiseInv'
    BY <1>3 DEF Promise!Abort
  <1>4. ASSUME UNCHANGED Promise!vars PROVE PromiseInv'
    BY <1>4 DEF Promise!vars
  <1> QED
    BY <1>1, <1>2, <1>3, <1>4 DEF Promise!Next

\* What the promise is worth: all participants that reach an outcome reach the
\* same one.
THEOREM Atomicity == Promise!Spec => []Promise!Agreement
  <1>1. PromiseInv => Promise!Agreement
    BY DEF PromiseInv, Justified, Promise!Agreement
  <1> QED
    BY <1>1, PromiseStart, PromiseStep, PTL DEF Promise!Spec

\* So whatever crashes, and whenever, no participant of the system is told to
\* commit what another one is told to abort.
THEOREM Agreed == Spec => []Promise!Agreement
  BY Atomic, Atomicity, PTL DEF KeepsPromise

-----------------------------------------------------------------------------
(* The voting phase this protocol was built on.                            *)

\* The first coordinator's rule, all votes are commit, is the Go process's, no
\* vote is abort.
LEMMA SameRule ==
  ASSUME votes \in Seq(Vote)
  PROVE  coordinatorDecision(votes) =
           IF \A i \in 1..Len(votes) : votes[i] = "commit"
             THEN "commit" ELSE "abort"
  <1>1. \A i \in 1..Len(votes) : votes[i] \in {"commit", "abort"}
    BY DEF Vote
  <1> QED
    BY <1>1 DEF coordinatorDecision

\* Every step is one of the voting phase alone, or none: nothing that follows
\* the decision touches it.
THEOREM BuiltOnVotingPhase == Spec => KeepsVotingPhase
  <1>1. Init => Earlier!Init
    BY DEF Init, Earlier!Init, VotingCoordinator
  <1>2. IInv /\ [Next]_vars => [Earlier!Next]_(Earlier!vars)
    <2> SUFFICES ASSUME IInv, [Next]_vars
                 PROVE  [Earlier!Next]_(Earlier!vars)
      OBVIOUS
    <2> USE DEF IInv
    <2>1. Earlier!Vote = Vote
      BY DEF Earlier!Vote, Vote
    <2>2. ASSUME NEW p \in Participant, Start(p) PROVE Earlier!Next
      <3>1. Earlier!Start(p)
        BY <2>2 DEF Start, Earlier!Start, VotingCoordinator
      <3> QED
        BY <3>1 DEF Earlier!Next
    <2>3. ASSUME NEW p \in Participant, Crash(p) PROVE Earlier!Next
      <3>1. Earlier!Crash(p)
        BY <2>3 DEF Crash, Earlier!Crash, VotingCoordinator
      <3> QED
        BY <3>1 DEF Earlier!Next
    <2>4. ASSUME Voting
          PROVE  /\ VotingCoordinator = "voting" /\ Callee \in Participant
                 /\ Earlier!Asks(Callee)
                 /\ decision = "none" /\ Choices(Callee) \subseteq Vote
      BY <2>4, CalleeNext
      DEF Voting, Callee, Earlier!Asks, VotingCoordinator, DecisionInv, Choices,
          Vote
    <2>5. ASSUME NEW v \in Choices(Callee), RequestVote(Callee, v)
          PROVE  Earlier!RequestVote(Callee, v)
      BY <2>1, <2>5 DEF RequestVote, Choices, Earlier!RequestVote
    <2>6. CASE VoteAnswered
      <3> USE <2>6 DEF VoteAnswered
      <3>1. PICK v \in Choices(Callee) :
              RequestVote(Callee, v) /\ votes' = Append(votes, v)
        OBVIOUS
      <3>2. Earlier!VoteAnswered(Callee, v)
        BY <2>4, <2>5, <3>1 DEF Earlier!VoteAnswered, VotingCoordinator
      <3> QED
        BY <2>1, <2>4, <3>1, <3>2 DEF Earlier!Next
    <2>7. CASE VoteFails
      <3> USE <2>7 DEF VoteFails
      <3>1. \/ ~up[Callee] /\ UNCHANGED cast
            \/ /\ Callee \in Unreliable
               /\ \E v \in Earlier!Vote : Earlier!RequestVote(Callee, v)
        BY <2>1, <2>4, <2>5
      <3>2. VotingCoordinator' = "failed"
        BY <2>4 DEF VotingCoordinator
      <3>3. Earlier!VoteFails(Callee)
        BY <2>4, <3>1, <3>2 DEF Earlier!VoteFails
      <3> QED
        BY <2>4, <3>3 DEF Earlier!Next
    <2>8. CASE Decide
      <3> USE <2>8 DEF Decide
      <3>1. VotingCoordinator = "voting" /\ VotingCoordinator' = "done"
        BY SMT DEF VotingCoordinator, coordinatorDecision
      <3>2. Len(votes) = Len(Addresses)
        BY DEF VotesInv
      <3>3. decision' = IF \A i \in 1..Len(votes) : votes[i] = "commit"
                          THEN "commit" ELSE "abort"
        BY SameRule DEF TypeOK
      <3>4. Earlier!Conclude
        BY <3>1, <3>2, <3>3 DEF Earlier!Conclude
      <3> QED
        BY <3>4 DEF Earlier!Next
    <2>9. CASE CoordinatorFails
      <3> USE <2>9 DEF CoordinatorFails
      <3>1. CASE decision = "none"
        <4>1. VotingCoordinator = "voting" /\ VotingCoordinator' = "failed"
          BY <3>1 DEF VotingCoordinator, TypeOK, Phase, DecisionInv
        <4>2. Earlier!CoordinatorFails
          BY <4>1 DEF Earlier!CoordinatorFails
        <4> QED
          BY <4>2 DEF Earlier!Next
      <3>2. CASE decision # "none"
        BY <3>2 DEF VotingCoordinator, Earlier!vars, DecisionInv
      <3> QED
        BY <3>1, <3>2
    <2>10. CASE ReportVotes \/ VotesStored \/ Announce
      BY <2>10 DEF ReportVotes, VotesStored, Announce, VotingCoordinator,
                   Earlier!vars, DecisionInv
    <2>11. ASSUME NEW p \in Participant, GlobalDecision(p) \/ DecisionFails(p)
           PROVE  UNCHANGED Earlier!vars
      BY <2>11 DEF GlobalDecision, DecisionFails, VotingCoordinator, Earlier!vars
    <2>12. CASE UNCHANGED vars
      BY <2>12 DEF vars, VotingCoordinator, Earlier!vars
    <2> QED
      BY <2>2, <2>3, <2>6, <2>7, <2>8, <2>9, <2>10, <2>11, <2>12 DEF Next
  <1> QED
    BY <1>1, <1>2, Invariant, PTL DEF Spec, KeepsVotingPhase, Earlier!Spec

\* Participants do not look at their own votes; the decision respects them.
THEOREM OwnVotes == Spec => []OwnVoteRespected
  <1>1. IInv => OwnVoteRespected
    <2> SUFFICES ASSUME IInv, NEW p \in Participant, cast[p] = "abort",
                        decided[p] = "commit"
                 PROVE  FALSE
      BY DEF OwnVoteRespected
    <2>1. decision = "commit"
      BY DEF IInv, DecisionInv
    <2> QED
      BY <2>1, DecisionByVotes
  <1> QED
    BY <1>1, Invariant, PTL
=============================================================================
