-------------------------------- MODULE Swim --------------------------------
(***************************************************************************)
(* The SWIM membership service of "Project - 1/Q5": the Python failure     *)
(* detector of each node (failure_detector.py, node.py, main.py) with the  *)
(* dissemination component it shares its container with (Dissemination).   *)
(*                                                                         *)
(* The detector works on a list of its own.  The thread that receives the  *)
(* stream replaces that list at any time, between a test of the detector   *)
(* and what it does next too.  A joiner is a node started with             *)
(* BOOTSTRAP_NEEDED: it gets its list from Bootstrap, has no stream, and   *)
(* its dissemination process has ended by the time it would report.        *)
(***************************************************************************)
EXTENDS Dissemination

CONSTANTS
  Joiner,      \* the nodes started with BOOTSTRAP_NEEDED
  Bootstrap,   \* the node they ask for the list
  K,           \* how many helpers an indirect ping asks
  NoOne,
  Detectors,   \* the nodes whose detector pings
  Stoppable    \* the nodes that may be stopped

Node == Founder \cup Joiner

ASSUME NodeAssumption ==
  /\ Joiner \subseteq Nat /\ IsFiniteSet(Joiner) /\ Joiner \cap Founder = {}
  /\ Bootstrap \in Founder /\ NoOne \notin Node
  /\ K \in Nat \ {0}
  /\ Detectors \subseteq Node /\ Stoppable \subseteq Founder

VARIABLES
  fdList,   \* fdList[n]: the membership_list of n's detector
  probe     \* probe[n]: what n's detector is doing

detectorVars == <<fdList, probe>>
vars == <<disseminationVars, detectorVars>>

Idle == [phase |-> "idle", target |-> NoOne, helpers |-> {}]
Phase == {"idle", "pinging", "asking", "marking", "removing", "reporting"}
Runs(n) == n \in up \cup Joiner

Init ==
  /\ DisseminationInit
  /\ fdList = [n \in Node |-> IF n \in Founder THEN Founder ELSE {}]
  /\ probe = [n \in Node |-> Idle]

-----------------------------------------------------------------------------
(* Probing.                                                                *)

\* A joiner asks the bootstrap node for its list.
Join(n) ==
  /\ n \in Joiner /\ fdList[n] = {} /\ Bootstrap \in up
  /\ fdList' = [fdList EXCEPT ![n] = members[Bootstrap]]
  /\ UNCHANGED <<disseminationVars, probe>>

\* The detector chooses one of at least two members.
Choose(n, target) ==
  /\ n \in Detectors /\ Runs(n) /\ probe[n].phase = "idle"
  /\ Cardinality(fdList[n]) > 1 /\ target \in fdList[n] \ {n}
  /\ probe' = [probe EXCEPT ![n] = [phase |-> "pinging", target |-> target,
                                    helpers |-> {}]]
  /\ UNCHANGED <<disseminationVars, fdList>>

PingAnswered(n) ==
  /\ probe[n].phase = "pinging" /\ probe[n].target \in up
  /\ probe' = [probe EXCEPT ![n] = Idle]
  /\ UNCHANGED <<disseminationVars, fdList>>

\* A call to m fails: m is down, or the call is lost.
Fails(m) ==
  \/ m \notin up /\ UNCHANGED losses
  \/ m \in up /\ losses < MaxLosses /\ losses' = losses + 1

\* Any K of the other members, or all of them.
HelperSets(n) ==
  LET others == fdList[n] \ {n, probe[n].target}
  IN {s \in SUBSET others :
        Cardinality(s) = IF Cardinality(others) < K THEN Cardinality(others)
                                                    ELSE K}

\* A mutant asks nobody.
NoHelpers(n, helpers) == [probe[n] EXCEPT !.phase = "marking", !.helpers = {}]
\* Without helpers to ask, or left to ask, the target is marked as failed.
Ask(n, helpers) ==
  [probe[n] EXCEPT !.phase = IF helpers = {} THEN "marking" ELSE "asking",
                   !.helpers = helpers]

PingFails(n) ==
  /\ probe[n].phase = "pinging" /\ Fails(probe[n].target)
  /\ \E helpers \in HelperSets(n) :
       probe' = [probe EXCEPT ![n] = Ask(n, helpers)]
  /\ UNCHANGED <<up, members, streamVars, handlers, spreads, fdList>>

\* A mutant confirms every target, as a helper that got no answer would if it
\* did not tell success from failure.
ConfirmedAlways(target) == TRUE
\* A helper's own ping of the target succeeds.
Confirmed(target) == target \in up

HelperConfirms(n, helper) ==
  /\ probe[n].phase = "asking" /\ helper \in probe[n].helpers
  /\ helper \in up /\ Confirmed(probe[n].target)
  /\ probe' = [probe EXCEPT ![n] = Idle]
  /\ UNCHANGED <<disseminationVars, fdList>>

\* The helper does not answer, or its own ping fails.
HelperFails(n, helper) ==
  /\ probe[n].phase = "asking" /\ helper \in probe[n].helpers
  /\ Fails(helper) \/ (helper \in up /\ Fails(probe[n].target))
  /\ probe' = [probe EXCEPT ![n] = Ask(n, @.helpers \ {helper})]
  /\ UNCHANGED <<up, members, streamVars, handlers, spreads, fdList>>

-----------------------------------------------------------------------------
(* Marking a node as failed.                                               *)

\* The local dissemination process is told; a joiner's has ended.
Report(n) ==
  IF n \in Joiner
    THEN probe' = [probe EXCEPT ![n] = Idle] /\ UNCHANGED handlers
    ELSE /\ probe' = [probe EXCEPT ![n].phase = "reporting"]
         /\ handlers' = handlers \cup {Call(n, n, probe[n].target)}

\* The target is looked up in the list.
MarkFailed(n) ==
  /\ probe[n].phase = "marking"
  /\ IF probe[n].target \in fdList[n]
       THEN probe' = [probe EXCEPT ![n].phase = "removing"]
            /\ UNCHANGED handlers
       ELSE Report(n)
  /\ UNCHANGED <<serverVars, streamVars, spreads, fdList>>

\* It is removed from the list, if that is still the list it was found in.
RemoveTarget(n) ==
  /\ probe[n].phase = "removing" /\ probe[n].target \in fdList[n]
  /\ fdList' = [fdList EXCEPT ![n] = @ \ {probe[n].target}]
  /\ Report(n)
  /\ UNCHANGED <<serverVars, streamVars, spreads>>

Stops(n) ==
  /\ ServerStops(n)
  /\ probe' = [probe EXCEPT ![n] = Idle]
  /\ UNCHANGED fdList

\* Another list without the target has come in: remove raises a ValueError
\* nobody catches, and the container ends with its main thread.
DetectorDies(n) ==
  /\ probe[n].phase = "removing" /\ probe[n].target \notin fdList[n]
  /\ Stops(n)

Reported(n) ==
  /\ probe[n].phase = "reporting" /\ Handled(n, n, probe[n].target)
  /\ probe' = [probe EXCEPT ![n] = Idle]
  /\ UNCHANGED <<disseminationVars, fdList>>

\* The stream thread takes the next list.
ReceiveUpdate(n) ==
  /\ wire[n] # <<>>
  /\ fdList' = [fdList EXCEPT ![n] = Head(wire[n])]
  /\ wire' = [wire EXCEPT ![n] = Tail(@)]
  /\ UNCHANGED <<serverVars, subscriber, channel, handlers, spreads, probe>>

Stop(n) == n \in Stoppable /\ Stops(n)

-----------------------------------------------------------------------------
\* A stream affects its own node's detector only, so it is enough to follow
\* those of detectors that ping.
Followed == Detectors \cap Founder

Detect(n) ==
  \/ PingAnswered(n) \/ PingFails(n)
  \/ \E h \in Node : HelperConfirms(n, h) \/ HelperFails(n, h)
  \/ MarkFailed(n) \/ RemoveTarget(n) \/ DetectorDies(n) \/ Reported(n)

Next ==
  \/ \E n \in Node : \/ Join(n) \/ Detect(n)
                     \/ \E target \in Node : Choose(n, target)
  \/ \E n \in Followed : ReceiveUpdate(n) \/ (Stream(n) /\ UNCHANGED detectorVars)
  \/ \E n \in Founder : Stop(n) \/ (Disseminate(n) /\ UNCHANGED detectorVars)

Spec == Init /\ [][Next]_vars

\* Every call ends, and threads and goroutines run on.  random.choice (31)
\* does not leave a member out for ever.
Fairness ==
  /\ \A n \in Detectors :
       /\ WF_vars(Detect(n))
       /\ \A target \in Stoppable : SF_vars(Choose(n, target))
  /\ \A n \in Followed :
       /\ WF_vars(Stream(n) /\ UNCHANGED detectorVars)
       /\ WF_vars(ReceiveUpdate(n))
  /\ \A n \in Founder :
       /\ WF_vars(Handling(n) /\ UNCHANGED detectorVars)
       /\ WF_vars(Spreading(n) /\ UNCHANGED detectorVars)

FairSpec == Spec /\ Fairness

-----------------------------------------------------------------------------
(* Properties.                                                             *)

TypeOK ==
  /\ DisseminationTypeOK
  /\ fdList \in [Node -> List]
  /\ probe \in [Node -> [phase : Phase, target : Node \cup {NoOne},
                         helpers : List]]
  /\ \A n \in Node : probe[n].phase # "idle" => probe[n].target \in Founder \ {n}

\* A failed node is off the list (107) before the list of those to tell is
\* copied (121-124): a running node that others take for failed never takes
\* itself off, and random.choice (31) never gets an empty list.
KeepsItself ==
  \A n \in Founder : n \in members[n] /\ n \in fdList[n]

\* Updates are dropped (51-52) and overtaken by older ones (42-46, 64-68), yet
\* never hide a member: the detector's list has all members but the one being
\* reported (82-92).  So a detector that dies at 82 had nothing new to report.
DetectorKnowsMembers ==
  \A n \in up :
    members[n] \subseteq
      fdList[n] \cup (IF probe[n].phase = "reporting" THEN {probe[n].target}
                                                     ELSE {})

\* With a helper to ask, one lost call or one stopped node is not enough to
\* take a running node off a running node's list (45-47, 55-77).
OneFaultTolerated ==
  Cardinality(Founder) > 2 /\ losses + Cardinality(Founder \ up) <= 1
    => \A m, n \in up : m \in members[n] /\ m \in fdList[n]

\* A stopped node is off its node's list and the detector's in the end, for good:
\* lists from before the removal, in the channel in place of newer ones (49-52) or
\* on the way, bring it back (101) only so often, and the detector may die of one
\* (82).  A joiner's stops at the last member of its list (29).
Forgot(n, m) ==
  \/ n \in Founder /\ (n \notin up \/ m \notin members[n] \cup fdList[n])
  \/ n \in Joiner /\ (Cardinality(fdList[n]) <= 1 \/ m \notin fdList[n])
StoppedIsForgotten ==
  \A n \in Detectors, m \in Stoppable : m \notin up ~> []Forgot(n, m)
=============================================================================
