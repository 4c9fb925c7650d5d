-------------------------- MODULE SharedListDetector --------------------------
(***************************************************************************)
(* The failure detector of "Project - 1/Q4" (src/failure_detector.py,      *)
(* node.py, main.py), the first version of the SWIM service.  A node keeps *)
(* one list of members, which its detector thread shortens while the       *)
(* threads that serve indirect pings search it for their target.           *)
(*                                                                         *)
(* A search goes through the list by position.  A node removed meanwhile   *)
(* from a place already passed moves the others forward, and the search    *)
(* misses one.  A detector makes one call at a time and waits for its      *)
(* answer, so the search that serves it is kept in its own probe.          *)
(***************************************************************************)
EXTENDS Naturals, FiniteSets, SequencesExt

CONSTANTS
  MembershipList,  \* the list main.py starts a node with
  K,               \* how many helpers an indirect ping asks
  NoOne,
  Late,            \* nodes whose container starts after the first pings
  Detectors,       \* the nodes whose detector pings
  Stoppable,       \* the nodes that may be stopped and started again
  MaxLosses,       \* bound: calls between running nodes that fail
  MaxStops         \* bound: how often nodes are stopped

Node == ToSet(MembershipList)

ASSUME ListAssumption ==
  /\ MembershipList \in Seq(Node) /\ IsInjective(MembershipList)
  /\ NoOne \notin Node
  /\ Late \subseteq Node /\ Detectors \subseteq Node /\ Stoppable \subseteq Node
  /\ K \in Nat \ {0} /\ MaxLosses \in Nat /\ MaxStops \in Nat

VARIABLES
  up,        \* nodes that run
  list,      \* list[n]: n's membership_list
  probe,     \* probe[n]: what n's detector is doing
  losses,    \* calls between running nodes that failed so far
  stops      \* stops so far

\* What happened so far; no action reads these.
VARIABLES
  steady,    \* nodes that have run all the time
  raced      \* a node was removed from a list that was being searched

vars == <<up, list, probe, losses, stops, steady, raced>>

Phase == {"idle", "pinging", "asking", "searching", "confirming", "removing"}
Idle == [phase |-> "idle", target |-> NoOne, left |-> {}, helper |-> NoOne,
         at |-> 0]
Members(n) == ToSet(list[n])

Init ==
  /\ up = Node \ Late /\ steady = up
  /\ list = [n \in Node |-> MembershipList]
  /\ probe = [n \in Node |-> Idle]
  /\ losses = 0 /\ stops = 0 /\ raced = FALSE

-----------------------------------------------------------------------------
(* Calls.                                                                  *)

\* The methods a node's server knows; it knows them before it listens.  A
\* mutant forgets one.
RegisteredPing == {"Ping"}
Registered == {"Ping", "IndirectPing"}

\* A running server finds the handler of a method by its name.
Answers(n, method) == n \in up /\ method \in Registered

\* A call fails: nobody answers it, or it is lost.
Fails(n, method) ==
  \/ ~Answers(n, method) /\ UNCHANGED losses
  \/ /\ Answers(n, method) /\ losses < MaxLosses
     /\ losses' = losses + 1

-----------------------------------------------------------------------------
(* The detector.                                                           *)

\* Every T seconds it chooses a member; itself it leaves alone.
Choose(n, target) ==
  /\ n \in Detectors \cap up /\ probe[n] = Idle
  /\ target \in Members(n) \ {n}
  /\ probe' = [probe EXCEPT ![n] = [Idle EXCEPT !.phase = "pinging",
                                                !.target = target]]
  /\ UNCHANGED <<up, list, losses, stops, steady, raced>>

PingAnswered(n) ==
  /\ probe[n].phase = "pinging" /\ Answers(probe[n].target, "Ping")
  /\ probe' = [probe EXCEPT ![n] = Idle]
  /\ UNCHANGED <<up, list, losses, stops, steady, raced>>

\* min(k, len(other_nodes)) of the other members.
HelperSets(n) ==
  LET others == Members(n) \ {n, probe[n].target}
  IN {s \in SUBSET others :
        Cardinality(s) = IF Cardinality(others) < K THEN Cardinality(others)
                                                    ELSE K}

\* A mutant keeps waiting for a helper that has gone.
WaitingStill(p, left) ==
  [p EXCEPT !.phase = IF left = {} THEN "removing"
                      ELSE IF p.phase = "pinging" THEN "asking" ELSE p.phase,
            !.left = left, !.helper = NoOne, !.at = 0]
\* A detector with these helpers left to ask goes on.
Asking(p, left) ==
  [p EXCEPT !.phase = IF left = {} THEN "removing" ELSE "asking",
            !.left = left, !.helper = NoOne, !.at = 0]

PingFails(n) ==
  /\ probe[n].phase = "pinging" /\ Fails(probe[n].target, "Ping")
  /\ \E helpers \in HelperSets(n) :
       probe' = [probe EXCEPT ![n] = Asking(@, helpers)]
  /\ UNCHANGED <<up, list, stops, steady, raced>>

\* The helper's handler begins to search its list for the target.
AskHelper(n, helper) ==
  /\ probe[n].phase = "asking" /\ helper \in probe[n].left
  /\ Answers(helper, "IndirectPing")
  /\ probe' = [probe EXCEPT ![n].phase = "searching", ![n].helper = helper,
                            ![n].at = 1]
  /\ UNCHANGED <<up, list, losses, stops, steady, raced>>

AskFails(n, helper) ==
  /\ probe[n].phase = "asking" /\ helper \in probe[n].left
  /\ Fails(helper, "IndirectPing")
  /\ probe' = [probe EXCEPT ![n] = Asking(@, @.left \ {helper})]
  /\ UNCHANGED <<up, list, stops, steady, raced>>

\* The helper looks at one place of the list it now has.
Search(n) ==
  LET p == probe[n]
  IN /\ p.phase = "searching" /\ p.at <= Len(list[p.helper])
     /\ probe' = IF list[p.helper][p.at] = p.target
          THEN [probe EXCEPT ![n].phase = "confirming"]
          ELSE [probe EXCEPT ![n].at = @ + 1]
     /\ UNCHANGED <<up, list, losses, stops, steady, raced>>

\* It is past the end: it answers no.
SearchMisses(n) ==
  /\ probe[n].phase = "searching"
  /\ probe[n].at > Len(list[probe[n].helper])
  /\ probe' = [probe EXCEPT ![n] = Asking(@, @.left \ {@.helper})]
  /\ UNCHANGED <<up, list, losses, stops, steady, raced>>

\* A mutant confirms every target.
ConfirmedAlways(target) == TRUE
\* The helper's own ping of the target is answered.
Confirmed(target) == Answers(target, "Ping")

HelperConfirms(n) ==
  /\ probe[n].phase = "confirming" /\ Confirmed(probe[n].target)
  /\ probe' = [probe EXCEPT ![n] = Idle]
  /\ UNCHANGED <<up, list, losses, stops, steady, raced>>

\* Its ping fails, or its answer is lost.
HelperDenies(n) ==
  /\ probe[n].phase = "confirming" /\ Fails(probe[n].target, "Ping")
  /\ probe' = [probe EXCEPT ![n] = Asking(@, @.left \ {@.helper})]
  /\ UNCHANGED <<up, list, stops, steady, raced>>

\* No helper is left: the target has failed.
RemoveTarget(n) ==
  /\ probe[n].phase = "removing"
  /\ \E i \in DOMAIN list[n] :
       /\ list[n][i] = probe[n].target
       /\ list' = [list EXCEPT ![n] = RemoveAt(@, i)]
  /\ probe' = [probe EXCEPT ![n] = Idle]
  /\ raced' = (raced \/ \E c \in Node : /\ probe[c].phase = "searching"
                                        /\ probe[c].helper = n)
  /\ UNCHANGED <<up, losses, stops, steady>>

-----------------------------------------------------------------------------
(* Containers.                                                             *)

\* A node that starts has the whole list, and is on the lists it was on.
Start(n) ==
  /\ n \notin up
  /\ up' = up \cup {n}
  /\ list' = [list EXCEPT ![n] = MembershipList]
  /\ UNCHANGED <<probe, losses, stops, steady, raced>>

\* A node stops; a detector that waits for its help gets an error.
Stop(n) ==
  /\ n \in Stoppable \cap up /\ stops < MaxStops
  /\ up' = up \ {n} /\ steady' = steady \ {n} /\ stops' = stops + 1
  /\ probe' = [c \in Node |->
                 CASE c = n -> Idle
                   [] c # n /\ probe[c].helper = n ->
                        Asking(probe[c], probe[c].left \ {n})
                   [] OTHER -> probe[c]]
  /\ UNCHANGED <<list, losses, raced>>

-----------------------------------------------------------------------------
Detect(n) ==
  \/ PingAnswered(n) \/ PingFails(n)
  \/ \E h \in Node : AskHelper(n, h) \/ AskFails(n, h)
  \/ Search(n) \/ SearchMisses(n) \/ HelperConfirms(n) \/ HelperDenies(n)
  \/ RemoveTarget(n)

Next ==
  \E n \in Node : \/ Detect(n) \/ Start(n) \/ Stop(n)
                  \/ \E target \in Node : Choose(n, target)

Spec == Init /\ [][Next]_vars

\* Every call ends and threads run on; random.choice (22) does not leave a
\* member out for ever.  Containers need not start again.
Fairness ==
  \A n \in Detectors :
    /\ WF_vars(Detect(n))
    /\ \A target \in Node : SF_vars(Choose(n, target))

FairSpec == Spec /\ Fairness

-----------------------------------------------------------------------------
(* Properties.                                                             *)

TypeOK ==
  /\ up \subseteq Node /\ steady \subseteq up
  /\ list \in [Node -> Seq(Node)]
  /\ probe \in [Node -> [phase : Phase, target : Node \cup {NoOne},
                         left : SUBSET Node, helper : Node \cup {NoOne},
                         at : Nat]]
  /\ losses \in 0..MaxLosses /\ stops \in 0..MaxStops /\ raced \in BOOLEAN
  /\ \A n \in Node : probe[n].phase \in {"searching", "confirming"}
                       => probe[n].helper \in up \cap probe[n].left

\* However many nodes stop, start late or come back, one lost call takes no
\* node that runs all the time off a list, as long as a third such node is
\* there and fewer than K are not, so that one is among any K that are asked
\* (31-47, node.py 17-26).  A removal during a search breaks this: the search
\* may pass over the target.
Tolerable ==
  /\ losses <= 1 /\ ~raced
  /\ Cardinality(steady) > 2 /\ Cardinality(Node \ steady) < K
OneLossTolerated == Tolerable => \A n \in up, m \in steady : m \in Members(n)

\* A stopped node is taken off every list, though helpers drop it from theirs
\* first and then answer without a ping (17, 26).
StoppedIsForgotten ==
  \A n \in Detectors, m \in Stoppable :
    m \notin up ~> m \in up \/ n \notin up \/ m \notin Members(n)
=============================================================================
