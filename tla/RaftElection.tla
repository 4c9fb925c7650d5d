---------------------------- MODULE RaftElection ----------------------------
(***************************************************************************)
(* Leader election and heartbeats of "Project - 2/Q3" (raft-election.py),  *)
(* before Q4 rewrote them.  Three things differ.  A heartbeat round keeps  *)
(* the node's lock, which is not reentrant, while it calls every peer; no  *)
(* call has a deadline; and the timer starts a new election thread while   *)
(* an earlier one may still run.                                           *)
(*                                                                         *)
(* A call ends when its handler has run or its callee stops.  A node that  *)
(* stops forgets everything; a call it has made may still be handled.      *)
(***************************************************************************)
EXTENDS Naturals, Sequences, FiniteSets

CONSTANTS
  Node,        \* the nodes of the cluster
  Peers,       \* Peers[n]: node n's -peers list, in its order
  NoOne,       \* Python's None, for voted_for
  Candidates,  \* the nodes whose election timer may expire
  Stoppable,   \* the nodes that may be stopped and started again
  Thread,      \* bound: the election threads a node may have at a time
  MaxTerm,     \* bound: no election starts at this term
  MaxStops     \* bound on how often nodes are stopped

PeersOf(n) == {Peers[n][i] : i \in 1..Len(Peers[n])}

ASSUME NodeAssumption == IsFiniteSet(Node) /\ NoOne \notin Node

\* A -peers list names every other node, once.
ASSUME PeersAssumption ==
  /\ Peers \in [Node -> Seq(Node)]
  /\ \A n \in Node : /\ PeersOf(n) = Node \ {n}
                     /\ Len(Peers[n]) = Cardinality(Node) - 1

ASSUME BoundAssumption ==
  /\ Candidates \subseteq Node /\ Stoppable \subseteq Node
  /\ MaxTerm \in Nat /\ MaxStops \in Nat

VARIABLES
  up,          \* up[n]: node n runs
  state,       \* "follower", "candidate" or "leader"
  term,
  votedFor,
  channels,    \* how many peers, in order, have a key in grpc_channels
  campaign,    \* campaign[n][i]: what election thread i of n does
  beat,        \* heartbeat threads started; those past their state check
  round,       \* the peer the heartbeat that holds the lock calls, 0: none
  orphans,     \* calls of a node that stopped, not yet handled
  stops        \* how often a node was stopped

nodeVars == <<state, term, votedFor>>
threadVars == <<campaign, beat, round, channels>>
stopVars == <<up, orphans, stops>>
vars == <<nodeVars, threadVars, stopVars>>

Asleep == [phase |-> "none", term |-> 0, next |-> 1, votes |-> 0]
Majority(n) == Len(Peers[n]) \div 2 + 1
Larger(a, b) == IF a > b THEN a ELSE b

\* The lock is free: no heartbeat round holds it.  All other sections that
\* take it are single steps.
LockFree(n) == up[n] /\ round[n] = 0

Init ==
  /\ up = [n \in Node |-> TRUE]
  /\ state = [n \in Node |-> "follower"]
  /\ term = [n \in Node |-> 0]
  /\ votedFor = [n \in Node |-> NoOne]
  /\ channels = [n \in Node |-> 0]
  /\ campaign = [n \in Node |-> [i \in Thread |-> Asleep]]
  /\ beat = [n \in Node |-> [threads |-> 0, ready |-> 0]]
  /\ round = [n \in Node |-> 0]
  /\ orphans = {} /\ stops = 0

-----------------------------------------------------------------------------
(* The handlers.                                                           *)

\* RequestVote at node p, for candidate c and term t.
Granted(p, c, t) ==
  \/ t > term[p]
  \/ t = term[p] /\ votedFor[p] \in {NoOne, c}

RequestVote(p, c, t) ==
  /\ LockFree(p)
  /\ term' = [term EXCEPT ![p] = Larger(t, @)]
  /\ state' = [state EXCEPT ![p] = IF t > term[p] THEN "follower" ELSE @]
  /\ votedFor' = [votedFor EXCEPT ![p] = IF Granted(p, c, t) THEN c ELSE @]

\* A mutant takes a heartbeat of any term.
AcceptedAlways(p, t) == TRUE
Accepted(p, t) == t >= term[p]

\* AppendEntries at node p.  A node that steps down forgets its vote.
AppendEntries(p, t) ==
  /\ LockFree(p)
  /\ IF Accepted(p, t)
       THEN /\ term' = [term EXCEPT ![p] = t]
            /\ state' = [state EXCEPT ![p] = "follower"]
            /\ votedFor' = [votedFor EXCEPT
                              ![p] = IF state[p] # "follower" THEN NoOne ELSE @]
       ELSE UNCHANGED nodeVars

-----------------------------------------------------------------------------
(* Elections.                                                              *)

\* The timer of a follower has expired: the monitor thread starts an election
\* thread, every 0.1 s until the node hears from a leader.
ElectionTimeout(n, i) ==
  /\ n \in Candidates /\ campaign[n][i].phase = "none"
  /\ LockFree(n) /\ state[n] = "follower"
  /\ campaign' = [campaign EXCEPT ![n][i].phase = "created"]
  /\ UNCHANGED <<nodeVars, beat, round, channels, stopVars>>

\* The thread raises the term, whatever the node has become since.
StartElection(n, i) ==
  /\ campaign[n][i].phase = "created" /\ term[n] < MaxTerm
  /\ LockFree(n)
  /\ state' = [state EXCEPT ![n] = "candidate"]
  /\ term' = [term EXCEPT ![n] = @ + 1]
  /\ campaign' = [campaign EXCEPT ![n][i].phase = "started"]
  /\ UNCHANGED <<votedFor, beat, round, channels, stopVars>>

\* It reads the term for its requests after it gave the lock up.
ReadTerm(n, i) ==
  /\ campaign[n][i].phase = "started"
  /\ campaign' = [campaign EXCEPT ![n][i] =
       [phase |-> "asking", term |-> term[n], next |-> 1, votes |-> 1]]
  /\ UNCHANGED <<nodeVars, beat, round, channels, stopVars>>

Callee(n, i) == Peers[n][campaign[n][i].next]

\* A peer the node has sent a heartbeat to is not asked for its vote.
Cached(n, k) == k <= channels[n]

AskPeer(n, i) ==
  LET c == campaign[n][i]
  IN /\ c.phase = "asking" /\ c.next <= Len(Peers[n])
     /\ campaign' = [campaign EXCEPT ![n][i] =
          IF Cached(n, c.next) THEN [c EXCEPT !.next = @ + 1]
                               ELSE [c EXCEPT !.phase = "waiting"]]
     /\ UNCHANGED <<nodeVars, beat, round, channels, stopVars>>

VoteAnswered(n, i) ==
  LET c == campaign[n][i]
      p == Callee(n, i)
  IN /\ c.phase = "waiting" /\ RequestVote(p, n, c.term)
     /\ campaign' = [campaign EXCEPT ![n][i] =
          [c EXCEPT !.phase = "asking", !.next = @ + 1,
                    !.votes = IF Granted(p, n, c.term) THEN @ + 1 ELSE @]]
     /\ UNCHANGED <<beat, round, channels, stopVars>>

\* A mutant waits until the callee is back.
NeverFails(p) == FALSE
\* A call to a node that does not run fails, and the exception is printed.
Fails(p) == ~up[p]

VoteFails(n, i) ==
  /\ campaign[n][i].phase = "waiting" /\ Fails(Callee(n, i))
  /\ campaign' = [campaign EXCEPT ![n][i].phase = "asking",
                                  ![n][i].next = @ + 1]
  /\ UNCHANGED <<nodeVars, beat, round, channels, stopVars>>

Counting(n, i) ==
  /\ campaign[n][i].phase = "asking" /\ campaign[n][i].next > Len(Peers[n])
  /\ LockFree(n)

\* A mutant does not look at the state again.
ElectedAnyState(n, i) == campaign[n][i].votes >= Majority(n)
\* The state is looked at again, the term is not.
Elected(n, i) ==
  campaign[n][i].votes >= Majority(n) /\ state[n] = "candidate"

WinElection(n, i) ==
  /\ Counting(n, i) /\ Elected(n, i)
  /\ state' = [state EXCEPT ![n] = "leader"]
  /\ beat' = [beat EXCEPT ![n].threads = @ + 1]
  /\ campaign' = [campaign EXCEPT ![n][i] = Asleep]
  /\ UNCHANGED <<term, votedFor, round, channels, stopVars>>

\* Whatever the node has become since, it is a follower now.
LoseElection(n, i) ==
  /\ Counting(n, i) /\ ~Elected(n, i)
  /\ state' = [state EXCEPT ![n] = "follower"]
  /\ campaign' = [campaign EXCEPT ![n][i] = Asleep]
  /\ UNCHANGED <<term, votedFor, beat, round, channels, stopVars>>

-----------------------------------------------------------------------------
(* Heartbeats.                                                             *)

\* A heartbeat thread finds its node leader, without taking the lock.
HeartbeatCheck(n) ==
  /\ state[n] = "leader" /\ beat[n].ready < beat[n].threads
  /\ beat' = [beat EXCEPT ![n].ready = @ + 1]
  /\ UNCHANGED <<nodeVars, campaign, round, channels, stopVars>>

\* It takes the lock, whatever the state is by now, and calls its first peer;
\* the term it sends is the node's for as long as it holds the lock.
StartRound(n) ==
  /\ beat[n].ready > 0 /\ LockFree(n) /\ Peers[n] # <<>>
  /\ beat' = [beat EXCEPT ![n].ready = @ - 1]
  /\ round' = [round EXCEPT ![n] = 1]
  /\ channels' = [channels EXCEPT ![n] = Larger(1, @)]
  /\ UNCHANGED <<nodeVars, campaign, stopVars>>

\* A mutant calls one peer more.
OnePeerMore(n) == round[n] > Len(Peers[n])
LastPeer(n) == round[n] = Len(Peers[n])

\* A call is over: the next peer is called, or the lock given up.
NextPeer(n) ==
  IF LastPeer(n)
    THEN round' = [round EXCEPT ![n] = 0] /\ UNCHANGED channels
    ELSE /\ round' = [round EXCEPT ![n] = @ + 1]
         /\ channels' = [channels EXCEPT ![n] = Larger(round[n] + 1, @)]

HeartbeatAnswered(n) ==
  /\ round[n] # 0
  /\ AppendEntries(Peers[n][round[n]], term[n])
  /\ NextPeer(n)
  /\ UNCHANGED <<campaign, beat, stopVars>>

HeartbeatFails(n) ==
  /\ round[n] # 0 /\ Fails(Peers[n][round[n]])
  /\ NextPeer(n)
  /\ UNCHANGED <<nodeVars, campaign, beat, stopVars>>

-----------------------------------------------------------------------------
(* Nodes stop and start.                                                   *)

\* The calls node n waits for.
Calls(n) ==
  {[kind |-> "vote", from |-> n, to |-> Callee(n, i),
    term |-> campaign[n][i].term] :
     i \in {j \in Thread : campaign[n][j].phase = "waiting"}}
  \cup {[kind |-> "append", from |-> n, to |-> Peers[n][k], term |-> term[n]] :
          k \in {round[n]} \ {0}}

Stop(n) ==
  /\ n \in Stoppable /\ up[n] /\ stops < MaxStops
  /\ stops' = stops + 1
  /\ up' = [up EXCEPT ![n] = FALSE]
  /\ state' = [state EXCEPT ![n] = "follower"]
  /\ term' = [term EXCEPT ![n] = 0]
  /\ votedFor' = [votedFor EXCEPT ![n] = NoOne]
  /\ channels' = [channels EXCEPT ![n] = 0]
  /\ campaign' = [campaign EXCEPT ![n] = [i \in Thread |-> Asleep]]
  /\ beat' = [beat EXCEPT ![n] = [threads |-> 0, ready |-> 0]]
  /\ round' = [round EXCEPT ![n] = 0]
  /\ orphans' = {m \in orphans \cup Calls(n) : m.to # n /\ up[m.to]}

Start(n) ==
  /\ ~up[n]
  /\ up' = [up EXCEPT ![n] = TRUE]
  /\ UNCHANGED <<nodeVars, threadVars, orphans, stops>>

\* A call whose caller has stopped is handled.
HandleOrphan(m) ==
  /\ \/ m.kind = "vote" /\ RequestVote(m.to, m.from, m.term)
     \/ m.kind = "append" /\ AppendEntries(m.to, m.term)
  /\ orphans' = orphans \ {m}
  /\ UNCHANGED <<up, threadVars, stops>>

-----------------------------------------------------------------------------
Election(n, i) ==
  \/ StartElection(n, i) \/ ReadTerm(n, i) \/ AskPeer(n, i)
  \/ VoteAnswered(n, i) \/ VoteFails(n, i)
  \/ WinElection(n, i) \/ LoseElection(n, i)

Heartbeat(n) ==
  StartRound(n) \/ HeartbeatAnswered(n) \/ HeartbeatFails(n)

Next ==
  \/ \E n \in Node, i \in Thread : ElectionTimeout(n, i) \/ Election(n, i)
  \/ \E n \in Node : HeartbeatCheck(n) \/ Heartbeat(n) \/ Stop(n) \/ Start(n)
  \/ \E m \in orphans : HandleOrphan(m)

Spec == Init /\ [][Next]_vars

\* A thread that waits for a lock gets it: heartbeat threads sleep a second
\* between two rounds (114).
Fairness ==
  \A n \in Candidates :
    /\ WF_vars(HeartbeatAnswered(n) \/ HeartbeatFails(n))
    /\ \A i \in Thread : SF_vars(Election(n, i))

FairSpec == Spec /\ Fairness

-----------------------------------------------------------------------------
Phase == {"none", "created", "started", "asking", "waiting"}

TypeOK ==
  /\ up \in [Node -> BOOLEAN]
  /\ state \in [Node -> {"follower", "candidate", "leader"}]
  /\ term \in [Node -> Nat]
  /\ votedFor \in [Node -> Node \cup {NoOne}]
  /\ channels \in [Node -> Nat]
  /\ campaign \in [Node -> [Thread -> [phase : Phase, term : Nat,
                                       next : Nat \ {0}, votes : Nat]]]
  /\ beat \in [Node -> [threads : Nat, ready : Nat]]
  /\ round \in [Node -> Nat]
  /\ \A n \in Node : channels[n] <= Len(Peers[n]) /\ round[n] <= channels[n]
  /\ orphans \subseteq [kind : {"vote", "append"}, from : Node, to : Node,
                        term : Nat]

\* The term of a node that runs on only grows (49, 74, 133), late calls of a
\* stopped leader included.
TermNeverFalls ==
  [][\A n \in Node : up[n] /\ up'[n] => term'[n] >= term[n]]_vars

\* The term of the vote requests is read after the lock was given up (136), and
\* only the state is looked at when the votes are counted (156): still, a node
\* becomes leader in the term an election of its own asks for votes in (or has
\* just raised), whichever rivals, heartbeats and late calls came in between.
AsksFor(n, i, t) ==
  \/ campaign[n][i].phase = "started"
  \/ campaign[n][i].phase \in {"asking", "waiting"} /\ campaign[n][i].term = t
ElectedInItsTerm ==
  [][\A n \in Node : state[n] # "leader" /\ state'[n] = "leader" =>
       \E i \in Thread : AsksFor(n, i, term'[n])]_vars

\* Two nodes are in a heartbeat round, each with its lock, at the same time.
RivalRounds ==
  \E m, n \in Node : m # n /\ round[m] # 0 /\ round[n] # 0

\* A heartbeat round gives the lock up in the end (91-112), though its calls
\* have no deadline and peers stop and start; only rival rounds may not.
RoundsEnd == \A n \in Candidates : round[n] # 0 ~> round[n] = 0 \/ RivalRounds

\* So ends an election that was started (130-162).
ElectionsEnd ==
  \A n \in Candidates, i \in Thread :
    campaign[n][i].phase = "started"
      ~> campaign[n][i].phase = "none" \/ RivalRounds

-----------------------------------------------------------------------------
(* What the documentation says and the program does not do.                *)

\* Readme.md 11: "The leader sends periodic heartbeats to maintain its
\* leadership": a round is followed by another one.
HeartbeatsGoOn == \A n \in Candidates : round[n] # 0 ~> round[n] = 0

\* Readme.md 83: a candidate "requests votes from peers".  A peer that was sent a
\* heartbeat is not asked (103-105, 143), which leaves a former leader out: one
\* that called all its peers and lost the leadership cannot lead again before it
\* is restarted (with three nodes or more; of two, one vote is a majority).
\* Nobody promises this: it is what the skipped peers amount to.
Spent(n) ==
  /\ channels[n] = Len(Peers[n]) /\ state[n] # "leader"
  /\ \A i \in Thread : campaign[n][i].phase \in {"none", "created", "started"}
FormerLeaderStaysOut ==
  \A n \in Candidates \ Stoppable : [](Spent(n) => [](state[n] # "leader"))
=============================================================================
