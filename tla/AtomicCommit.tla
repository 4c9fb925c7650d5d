---------------------------- MODULE AtomicCommit ----------------------------
(***************************************************************************)
(* What the two-phase commit of "Project - 2/Q2" promises (README.md       *)
(* 24-28): participants vote once, and each one's outcome is commit only   *)
(* if all voted commit, abort only if some voted abort.  Nobody has to     *)
(* reach an outcome.                                                       *)
(***************************************************************************)
CONSTANT Participant

VARIABLES
  cast,      \* cast[p]: the vote of p, "none" before it votes
  outcome    \* outcome[p]: what p does to the transaction

vars == <<cast, outcome>>

Init ==
  /\ cast = [p \in Participant |-> "none"]
  /\ outcome = [p \in Participant |-> "none"]

CastVote(p, v) ==
  /\ cast[p] = "none"
  /\ cast' = [cast EXCEPT ![p] = v]
  /\ UNCHANGED outcome

Commit(p) ==
  /\ \A q \in Participant : cast[q] = "commit"
  /\ outcome[p] = "none"
  /\ outcome' = [outcome EXCEPT ![p] = "commit"]
  /\ UNCHANGED cast

Abort(p) ==
  /\ \E q \in Participant : cast[q] = "abort"
  /\ outcome[p] = "none"
  /\ outcome' = [outcome EXCEPT ![p] = "abort"]
  /\ UNCHANGED cast

Next ==
  \E p \in Participant :
    \/ \E v \in {"commit", "abort"} : CastVote(p, v)
    \/ Commit(p) \/ Abort(p)

Spec == Init /\ [][Next]_vars

-----------------------------------------------------------------------------
TypeOK ==
  /\ cast \in [Participant -> {"none", "commit", "abort"}]
  /\ outcome \in [Participant -> {"none", "commit", "abort"}]

\* Atomicity: no participant commits what another one aborts.
Agreement ==
  \A p, q \in Participant : ~(outcome[p] = "commit" /\ outcome[q] = "abort")
=============================================================================
