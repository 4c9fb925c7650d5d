------------------------- MODULE RaftElection_proofs -------------------------
(* Proofs about RaftElection, for any cluster, threads and bounds.         *)
EXTENDS RaftElection, TLAPS, FiniteSetTheorems

\* A thread that waits for an answer has asked a peer.
Waits ==
  \A n \in Node, i \in Thread :
    campaign[n][i].phase = "waiting" => campaign[n][i].next <= Len(Peers[n])

IInv == TypeOK /\ Waits

LEMMA CalleeIsPeer ==
  ASSUME IInv, NEW n \in Node, NEW i \in Thread, campaign[n][i].phase = "waiting"
  PROVE  Callee(n, i) \in Node
  BY PeersAssumption DEF IInv, TypeOK, Waits, Callee

LEMMA PeersLen == ASSUME NEW n \in Node PROVE Len(Peers[n]) \in Nat
  <1>1. Peers[n] \in Seq(Node)
    BY PeersAssumption
  <1> QED
    BY <1>1

LEMMA CalledIsPeer ==
  ASSUME TypeOK, NEW n \in Node, round[n] # 0
  PROVE  Peers[n][round[n]] \in Node
  <1>1. /\ Peers[n] \in Seq(Node)
        /\ round[n] \in Nat /\ channels[n] \in Nat
        /\ channels[n] <= Len(Peers[n]) /\ round[n] <= channels[n]
    BY PeersAssumption DEF TypeOK
  <1>2. round[n] \in 1..Len(Peers[n])
    BY <1>1, PeersLen
  <1> QED
    BY <1>1, <1>2

-----------------------------------------------------------------------------
(* The handlers.                                                           *)

NodeTypeOK ==
  /\ state \in [Node -> {"follower", "candidate", "leader"}]
  /\ term \in [Node -> Nat]
  /\ votedFor \in [Node -> Node \cup {NoOne}]

LEMMA RequestVoteStep ==
  ASSUME NodeTypeOK, NEW p \in Node, NEW c \in Node, NEW t \in Nat,
         RequestVote(p, c, t)
  PROVE  NodeTypeOK' /\ \A n \in Node : term'[n] >= term[n]
  BY DEF NodeTypeOK, RequestVote, Larger

LEMMA AppendEntriesStep ==
  ASSUME NodeTypeOK, NEW p \in Node, NEW t \in Nat, AppendEntries(p, t)
  PROVE  NodeTypeOK' /\ \A n \in Node : term'[n] >= term[n]
  <1>1. CASE Accepted(p, t)
    BY <1>1 DEF NodeTypeOK, AppendEntries, Accepted
  <1>2. CASE ~Accepted(p, t)
    BY <1>2 DEF NodeTypeOK, AppendEntries, nodeVars
  <1> QED
    BY <1>1, <1>2

-----------------------------------------------------------------------------
(* The invariant.  It is kept in four parts, each with its own variables.  *)

ThreadState ==
  [phase : Phase, term : Nat, next : Nat \ {0}, votes : Nat]

CampaignOK == campaign \in [Node -> [Thread -> ThreadState]]

BeatOK == beat \in [Node -> [threads : Nat, ready : Nat]]

RoundOK ==
  /\ channels \in [Node -> Nat] /\ round \in [Node -> Nat]
  /\ \A n \in Node : channels[n] <= Len(Peers[n]) /\ round[n] <= channels[n]

StopOK ==
  /\ up \in [Node -> BOOLEAN]
  /\ orphans \subseteq [kind : {"vote", "append"}, from : Node, to : Node,
                        term : Nat]

LEMMA Parts ==
  TypeOK <=> NodeTypeOK /\ CampaignOK /\ BeatOK /\ RoundOK /\ StopOK
  BY DEF TypeOK, NodeTypeOK, CampaignOK, BeatOK, RoundOK, StopOK, ThreadState

LEMMA PartsNext ==
  ASSUME NodeTypeOK', CampaignOK', BeatOK', RoundOK', StopOK', Waits'
  PROVE  IInv'
  BY DEF IInv, TypeOK, NodeTypeOK, CampaignOK, BeatOK, RoundOK, StopOK,
     ThreadState

\* The updates VoteFails and VoteAnswered make.
LEMMA Updated ==
  ASSUME NEW c \in ThreadState, NEW p \in Phase, NEW k \in Nat \ {0},
         NEW v \in Nat
  PROVE  /\ [c EXCEPT !.phase = p, !.next = k] \in ThreadState
         /\ [c EXCEPT !.phase = p, !.next = k].phase = p
         /\ [c EXCEPT !.phase = p, !.next = k, !.votes = v] \in ThreadState
         /\ [c EXCEPT !.phase = p, !.next = k, !.votes = v].phase = p
  BY DEF ThreadState

\* A step of one election thread.
LEMMA ThreadStep ==
  ASSUME CampaignOK, Waits, NEW n \in Node, NEW i \in Thread,
         NEW r \in ThreadState,
         r.phase = "waiting" => r.next <= Len(Peers[n]),
         campaign' = [campaign EXCEPT ![n][i] = r]
  PROVE  CampaignOK' /\ Waits'
  <1>1. CampaignOK'
    BY DEF CampaignOK
  <1>2. ASSUME NEW m \in Node, NEW j \in Thread,
               campaign'[m][j].phase = "waiting"
        PROVE  campaign'[m][j].next <= Len(Peers[m])
    <2>1. CASE m = n /\ j = i
      BY <1>2, <2>1 DEF CampaignOK
    <2>2. CASE ~(m = n /\ j = i)
      <3>1. campaign'[m][j] = campaign[m][j]
        BY <2>2 DEF CampaignOK
      <3> QED
        BY <1>2, <3>1 DEF Waits
    <2> QED
      BY <2>1, <2>2
  <1> QED
    BY <1>1, <1>2 DEF Waits

LEMMA NextPeerStep ==
  ASSUME RoundOK, NEW n \in Node, round[n] # 0, NextPeer(n)
  PROVE  RoundOK'
  <1>1. /\ Len(Peers[n]) \in Nat /\ round[n] \in Nat /\ channels[n] \in Nat
        /\ round[n] <= channels[n] /\ channels[n] <= Len(Peers[n])
    BY PeersLen DEF RoundOK
  <1>2. CASE LastPeer(n)
    BY <1>2 DEF RoundOK, NextPeer
  <1>3. CASE ~LastPeer(n)
    <2> DEFINE next == round[n] + 1
               known == Larger(next, channels[n])
    <2>1. /\ next \in Nat /\ known \in Nat
          /\ next <= known /\ known <= Len(Peers[n])
      BY <1>1, <1>3 DEF LastPeer, Larger
    <2>2. /\ round' = [round EXCEPT ![n] = next]
          /\ channels' = [channels EXCEPT ![n] = known]
      BY <1>3 DEF NextPeer
    <2> HIDE DEF next, known
    <2> QED
      BY <2>1, <2>2 DEF RoundOK
  <1> QED
    BY <1>2, <1>3

\* What a step does to the terms of the nodes that run on.
TermsGrow == \A n \in Node : up[n] /\ up'[n] => term'[n] >= term[n]

LEMMA InitInvariant == Init => IInv
  BY PeersLen
  DEF Init, IInv, TypeOK, Waits, Asleep, Phase

-----------------------------------------------------------------------------
(* The steps.                                                              *)

\* The steps of an election thread that change no node's state.
LEMMA QuietElectionStep ==
  ASSUME IInv, NEW n \in Node, NEW i \in Thread,
         \/ ElectionTimeout(n, i) \/ ReadTerm(n, i)
         \/ AskPeer(n, i) \/ VoteFails(n, i)
  PROVE  IInv' /\ TermsGrow
  <1> USE DEF ThreadState, Phase
  <1> DEFINE c == campaign[n][i]
  <1>1. NodeTypeOK /\ CampaignOK /\ BeatOK /\ RoundOK /\ StopOK /\ Waits
    BY Parts DEF IInv
  <1>2. c \in ThreadState /\ term[n] \in Nat /\ Len(Peers[n]) \in Nat
    BY <1>1, PeersLen DEF CampaignOK, NodeTypeOK
  <1>3. UNCHANGED <<nodeVars, beat, round, channels, stopVars>>
    BY DEF ElectionTimeout, ReadTerm, AskPeer, VoteFails
  <1>4. NodeTypeOK' /\ BeatOK' /\ RoundOK' /\ StopOK' /\ TermsGrow
    <2>1. NodeTypeOK' /\ TermsGrow
      BY <1>1, <1>3 DEF NodeTypeOK, TermsGrow, nodeVars
    <2>2. BeatOK' /\ RoundOK'
      BY <1>1, <1>3 DEF BeatOK, RoundOK
    <2>3. StopOK'
      BY <1>1, <1>3 DEF StopOK, stopVars
    <2> QED
      BY <2>1, <2>2, <2>3
  <1>5. CampaignOK' /\ Waits'
    <2>1. CASE ElectionTimeout(n, i)
      <3>1. campaign' = [campaign EXCEPT ![n][i] = [c EXCEPT !.phase = "created"]]
        BY <2>1 DEF ElectionTimeout
      <3> QED
        BY <1>1, <1>2, <3>1, ThreadStep
    <2>2. CASE ReadTerm(n, i)
      <3> DEFINE r == [phase |-> "asking", term |-> term[n],
                       next |-> 1, votes |-> 1]
      <3>1. campaign' = [campaign EXCEPT ![n][i] = r]
        BY <2>2 DEF ReadTerm
      <3>2. r \in ThreadState /\ r.phase # "waiting"
        BY <1>2
      <3> HIDE DEF r
      <3> QED
        BY <1>1, <3>1, <3>2, ThreadStep
    <2>3. CASE AskPeer(n, i)
      <3>1. CASE Cached(n, c.next)
        <4> DEFINE r == [c EXCEPT !.next = @ + 1]
        <4>1. campaign' = [campaign EXCEPT ![n][i] = r]
          BY <2>3, <3>1 DEF AskPeer
        <4>2. r \in ThreadState /\ r.phase # "waiting"
          BY <1>2, <2>3 DEF AskPeer
        <4> HIDE DEF r
        <4> QED
          BY <1>1, <4>1, <4>2, ThreadStep
      <3>2. CASE ~Cached(n, c.next)
        <4> DEFINE r == [c EXCEPT !.phase = "waiting"]
        <4>1. campaign' = [campaign EXCEPT ![n][i] = r]
          BY <2>3, <3>2 DEF AskPeer
        <4>2. r \in ThreadState /\ r.next <= Len(Peers[n])
          BY <1>2, <2>3 DEF AskPeer
        <4> HIDE DEF r
        <4> QED
          BY <1>1, <4>1, <4>2, ThreadStep
      <3> QED
        BY <3>1, <3>2
    <2>4. CASE VoteFails(n, i)
      <3> DEFINE r == [c EXCEPT !.phase = "asking", !.next = @ + 1]
      <3>1. campaign' = [campaign EXCEPT ![n][i] = r]
        BY <2>4 DEF VoteFails
      <3>2. c.next + 1 \in Nat \ {0} /\ c.votes \in Nat
        BY <1>2
      <3>3. r \in ThreadState /\ r.phase = "asking"
        BY <1>2, <3>2, Updated
      <3> HIDE DEF r
      <3> QED
        BY <1>1, <3>1, <3>3, ThreadStep
    <2> QED
      BY <2>1, <2>2, <2>3, <2>4
  <1> QED
    BY <1>1, <1>4, <1>5, PartsNext

\* The steps that do.
LEMMA ElectionStep ==
  ASSUME IInv, NEW n \in Node, NEW i \in Thread,
         \/ StartElection(n, i) \/ VoteAnswered(n, i)
         \/ WinElection(n, i) \/ LoseElection(n, i)
  PROVE  IInv' /\ TermsGrow
  <1> USE DEF ThreadState, Phase
  <1> DEFINE c == campaign[n][i]
  <1>1. NodeTypeOK /\ CampaignOK /\ BeatOK /\ RoundOK /\ StopOK /\ Waits
    BY Parts DEF IInv
  <1>2. c \in ThreadState /\ term[n] \in Nat
    BY <1>1 DEF CampaignOK, NodeTypeOK
  <1>3. Asleep \in ThreadState /\ Asleep.phase # "waiting"
    BY DEF Asleep
  <1>4. UNCHANGED <<round, channels, stopVars>>
    BY DEF StartElection, VoteAnswered, WinElection, LoseElection
  <1>5. RoundOK' /\ StopOK'
    BY <1>1, <1>4 DEF RoundOK, StopOK, stopVars
  <1>6. NodeTypeOK' /\ TermsGrow /\ BeatOK'
    <2>1. CASE StartElection(n, i)
      BY <1>1, <2>1 DEF StartElection, NodeTypeOK, BeatOK, TermsGrow
    <2>2. CASE VoteAnswered(n, i)
      <3>1. Callee(n, i) \in Node /\ c.term \in Nat
        BY <1>2, <2>2, CalleeIsPeer DEF VoteAnswered
      <3>2. RequestVote(Callee(n, i), n, c.term) /\ UNCHANGED beat
        BY <2>2 DEF VoteAnswered
      <3> QED
        BY <1>1, <3>1, <3>2, RequestVoteStep DEF BeatOK, TermsGrow
    <2>3. CASE WinElection(n, i)
      BY <1>1, <2>3 DEF WinElection, NodeTypeOK, BeatOK, TermsGrow
    <2>4. CASE LoseElection(n, i)
      BY <1>1, <2>4 DEF LoseElection, NodeTypeOK, BeatOK, TermsGrow
    <2> QED
      BY <2>1, <2>2, <2>3, <2>4
  <1>7. CampaignOK' /\ Waits'
    <2>1. CASE StartElection(n, i)
      <3>1. campaign' = [campaign EXCEPT ![n][i] = [c EXCEPT !.phase = "started"]]
        BY <2>1 DEF StartElection
      <3> QED
        BY <1>1, <1>2, <3>1, ThreadStep
    <2>2. CASE VoteAnswered(n, i)
      <3> DEFINE v == IF Granted(Callee(n, i), n, c.term)
                        THEN c.votes + 1 ELSE c.votes
                 r == [c EXCEPT !.phase = "asking", !.next = @ + 1,
                         !.votes = v]
      <3>1. campaign' = [campaign EXCEPT ![n][i] = r]
        BY <2>2 DEF VoteAnswered
      <3>2. v \in Nat /\ c.next + 1 \in Nat \ {0}
        BY <1>2
      <3> HIDE DEF v
      <3>3. r \in ThreadState /\ r.phase = "asking"
        BY <1>2, <3>2, Updated
      <3> HIDE DEF r
      <3> QED
        BY <1>1, <3>1, <3>3, ThreadStep
    <2>3. CASE WinElection(n, i) \/ LoseElection(n, i)
      BY <1>1, <1>3, <2>3, ThreadStep DEF WinElection, LoseElection
    <2> QED
      BY <2>1, <2>2, <2>3
  <1> QED
    BY <1>1, <1>5, <1>6, <1>7, PartsNext

LEMMA HeartbeatStep ==
  ASSUME IInv, NEW n \in Node, HeartbeatCheck(n) \/ Heartbeat(n)
  PROVE  IInv' /\ TermsGrow
  <1>1. NodeTypeOK /\ CampaignOK /\ BeatOK /\ RoundOK /\ StopOK /\ Waits
    BY Parts DEF IInv
  <1>2. UNCHANGED <<campaign, stopVars>>
    BY DEF HeartbeatCheck, Heartbeat, StartRound, HeartbeatAnswered,
       HeartbeatFails
  <1>3. CampaignOK' /\ StopOK' /\ Waits'
    BY <1>1, <1>2 DEF CampaignOK, StopOK, Waits, stopVars
  <1>4. BeatOK'
    <2>1. beat[n] \in [threads : Nat, ready : Nat]
      BY <1>1 DEF BeatOK
    <2>2. CASE HeartbeatCheck(n)
      <3>1. beat' = [beat EXCEPT ![n] = [@ EXCEPT !.ready = beat[n].ready + 1]]
        BY <2>2 DEF HeartbeatCheck
      <3> QED
        BY <1>1, <2>1, <3>1 DEF BeatOK
    <2>3. CASE StartRound(n)
      <3>1. beat[n].ready - 1 \in Nat
        BY <2>1, <2>3 DEF StartRound
      <3>2. beat' = [beat EXCEPT ![n] = [@ EXCEPT !.ready = beat[n].ready - 1]]
        BY <2>3 DEF StartRound
      <3> QED
        BY <1>1, <2>1, <3>1, <3>2 DEF BeatOK
    <2>4. CASE HeartbeatAnswered(n) \/ HeartbeatFails(n)
      BY <1>1, <2>4 DEF HeartbeatAnswered, HeartbeatFails, BeatOK
    <2> QED
      BY <2>2, <2>3, <2>4 DEF Heartbeat
  <1>5. NodeTypeOK' /\ TermsGrow
    <2>1. CASE HeartbeatAnswered(n)
      <3>1. round[n] # 0 /\ AppendEntries(Peers[n][round[n]], term[n])
        BY <2>1 DEF HeartbeatAnswered
      <3>2. Peers[n][round[n]] \in Node /\ term[n] \in Nat
        BY <1>1, <3>1, CalledIsPeer DEF IInv, NodeTypeOK
      <3> QED
        BY <1>1, <3>1, <3>2, AppendEntriesStep DEF TermsGrow
    <2>2. CASE ~HeartbeatAnswered(n)
      BY <1>1, <2>2 DEF HeartbeatCheck, Heartbeat, StartRound, HeartbeatFails,
         NodeTypeOK, TermsGrow, nodeVars
    <2> QED
      BY <2>1, <2>2
  <1>6. RoundOK'
    <2>1. CASE HeartbeatCheck(n)
      BY <1>1, <2>1 DEF HeartbeatCheck, RoundOK
    <2>2. CASE StartRound(n)
      <3>1. Len(Peers[n]) \in Nat \ {0}
        <4>1. Peers[n] \in Seq(Node) /\ Peers[n] # <<>>
          BY <2>2, PeersAssumption DEF StartRound
        <4> QED
          BY <4>1
      <3> QED
        BY <1>1, <2>2, <3>1 DEF StartRound, RoundOK, Larger
    <2>3. CASE HeartbeatAnswered(n) \/ HeartbeatFails(n)
      BY <1>1, <2>3, NextPeerStep DEF HeartbeatAnswered, HeartbeatFails
    <2> QED
      BY <2>1, <2>2, <2>3 DEF Heartbeat
  <1> QED
    BY <1>1, <1>3, <1>4, <1>5, <1>6, PartsNext

\* The calls a node waits for have their types.
LEMMA CallsTyped ==
  ASSUME IInv, NEW n \in Node
  PROVE  Calls(n) \subseteq [kind : {"vote", "append"}, from : Node, to : Node,
                             term : Nat]
  <1>1. ASSUME NEW i \in Thread, campaign[n][i].phase = "waiting"
        PROVE  Callee(n, i) \in Node /\ campaign[n][i].term \in Nat
    BY <1>1, CalleeIsPeer DEF IInv, TypeOK
  <1>2. ASSUME NEW k \in {round[n]} \ {0}
        PROVE  Peers[n][k] \in Node /\ term[n] \in Nat
    BY <1>2, CalledIsPeer DEF IInv, TypeOK
  <1> QED
    BY <1>1, <1>2 DEF Calls

LEMMA StopStep ==
  ASSUME IInv, NEW n \in Node, Stop(n) \/ Start(n)
  PROVE  IInv' /\ TermsGrow
  <1>1. NodeTypeOK /\ CampaignOK /\ BeatOK /\ RoundOK /\ StopOK /\ Waits
    BY Parts DEF IInv
  <1>2. CASE Stop(n)
    <2>1. NodeTypeOK' /\ BeatOK'
      BY <1>1, <1>2 DEF Stop, NodeTypeOK, BeatOK
    <2>2. TermsGrow
      BY <1>1, <1>2 DEF Stop, NodeTypeOK, StopOK, TermsGrow
    <2>3. RoundOK'
      BY <1>1, <1>2, PeersLen DEF Stop, RoundOK
    <2>4. CampaignOK'
      BY <1>1, <1>2 DEF Stop, CampaignOK, ThreadState, Asleep, Phase
    <2>5. Waits'
      <3>1. ASSUME NEW m \in Node, NEW j \in Thread,
                   campaign'[m][j].phase = "waiting"
            PROVE  campaign'[m][j] = campaign[m][j]
        BY <1>1, <1>2, <3>1 DEF Stop, CampaignOK, Asleep
      <3> QED
        BY <1>1, <3>1 DEF Waits
    <2>6. StopOK'
      BY <1>1, <1>2, CallsTyped DEF Stop, StopOK
    <2> QED
      BY <2>1, <2>2, <2>3, <2>4, <2>5, <2>6, PartsNext
  <1>3. CASE Start(n)
    <2>1. UNCHANGED <<nodeVars, threadVars, orphans>> /\ StopOK'
      BY <1>1, <1>3 DEF Start, StopOK
    <2>2. NodeTypeOK' /\ CampaignOK' /\ BeatOK' /\ RoundOK' /\ Waits'
      BY <1>1, <2>1 DEF NodeTypeOK, CampaignOK, BeatOK, RoundOK, Waits,
         nodeVars, threadVars
    <2>3. TermsGrow
      BY <1>1, <2>1 DEF TermsGrow, NodeTypeOK, nodeVars
    <2> QED
      BY <2>1, <2>2, <2>3, PartsNext
  <1> QED
    BY <1>2, <1>3

LEMMA OrphanStep ==
  ASSUME IInv, NEW m \in orphans, HandleOrphan(m)
  PROVE  IInv' /\ TermsGrow
  <1>1. NodeTypeOK /\ CampaignOK /\ BeatOK /\ RoundOK /\ StopOK /\ Waits
    BY Parts DEF IInv
  <1>2. m.from \in Node /\ m.to \in Node /\ m.term \in Nat
    BY <1>1 DEF StopOK
  <1>3. \/ RequestVote(m.to, m.from, m.term)
        \/ AppendEntries(m.to, m.term)
    BY DEF HandleOrphan
  <1>4. NodeTypeOK' /\ TermsGrow
    BY <1>1, <1>2, <1>3, RequestVoteStep, AppendEntriesStep DEF TermsGrow
  <1>5. CampaignOK' /\ BeatOK' /\ RoundOK' /\ StopOK' /\ Waits'
    BY <1>1 DEF HandleOrphan, CampaignOK, BeatOK, RoundOK, StopOK, Waits,
       threadVars
  <1> QED
    BY <1>4, <1>5, PartsNext

LEMMA InvariantStep == IInv /\ [Next]_vars => IInv' /\ TermsGrow
  <1> SUFFICES ASSUME IInv, [Next]_vars PROVE IInv' /\ TermsGrow
    OBVIOUS
  <1>1. ASSUME NEW n \in Node, NEW i \in Thread,
               ElectionTimeout(n, i) \/ Election(n, i)
        PROVE  IInv' /\ TermsGrow
    BY <1>1, QuietElectionStep, ElectionStep DEF Election
  <1>2. ASSUME NEW n \in Node,
               HeartbeatCheck(n) \/ Heartbeat(n) \/ Stop(n) \/ Start(n)
        PROVE  IInv' /\ TermsGrow
    BY <1>2, HeartbeatStep, StopStep
  <1>3. CASE UNCHANGED vars
    <2>1. IInv'
      BY <1>3 DEF IInv, TypeOK, Waits, vars, nodeVars, threadVars, stopVars
    <2>2. TermsGrow
      BY <1>3 DEF IInv, TypeOK, TermsGrow, vars, nodeVars
    <2> QED
      BY <2>1, <2>2
  <1> QED
    BY <1>1, <1>2, <1>3, OrphanStep DEF Next

LEMMA Invariant == Spec => []IInv
  BY InitInvariant, InvariantStep, PTL DEF Spec

-----------------------------------------------------------------------------
\* Every reachable state of the Q3 model has its types; in particular a
\* heartbeat round calls one of its node's peers, whatever was stopped.
THEOREM TypeCorrect == Spec => []TypeOK
  <1>1. IInv => TypeOK
    BY DEF IInv
  <1> QED
    BY <1>1, Invariant, PTL

\* The term of a node that runs on never falls, whichever elections, late
\* calls and stops of other nodes it lives through (49, 74, 133).
THEOREM TermsNeverFall == Spec => TermNeverFalls
  <1>1. IInv /\ [Next]_vars
          => [\A n \in Node : up[n] /\ up'[n] => term'[n] >= term[n]]_vars
    BY InvariantStep DEF TermsGrow
  <1> QED
    BY <1>1, Invariant, PTL DEF Spec, TermNeverFalls

-----------------------------------------------------------------------------
(* A candidate has an election that asks for votes in its term: a rival    *)
(* that raises the term makes it a follower.                               *)

Asks ==
  \A n \in Node : state[n] = "candidate" =>
    \E i \in Thread : AsksFor(n, i, term[n])

\* Node n is a candidate after a step only if it was one, of the same term.
StillCandidate(n) ==
  state'[n] = "candidate" => state[n] = "candidate" /\ term'[n] = term[n]

LEMMA HandledStill ==
  ASSUME IInv, NEW p \in Node, NEW q \in Node, NEW t \in Nat,
         RequestVote(p, q, t) \/ AppendEntries(p, t), NEW n \in Node
  PROVE  StillCandidate(n) /\ (state'[n] = "leader" => state[n] = "leader")
  <1>1. state \in [Node -> {"follower", "candidate", "leader"}]
        /\ term \in [Node -> Nat]
    BY DEF IInv, TypeOK
  <1>2. CASE RequestVote(p, q, t)
    BY <1>1, <1>2 DEF RequestVote, Larger, StillCandidate
  <1>3. CASE AppendEntries(p, t)
    BY <1>1, <1>3 DEF AppendEntries, StillCandidate, nodeVars
  <1> QED
    BY <1>2, <1>3

\* Its elections keep asking.
StillAsks(n) ==
  \A i \in Thread, t \in Nat : AsksFor(n, i, t) => AsksFor(n, i, t)'

LEMMA AsksKept ==
  ASSUME IInv, Asks, NEW n \in Node, StillCandidate(n), StillAsks(n),
         state'[n] = "candidate"
  PROVE  \E i \in Thread : AsksFor(n, i, term[n])'
  <1>1. term[n] \in Nat /\ term'[n] = term[n] /\ state[n] = "candidate"
    BY DEF IInv, TypeOK, StillCandidate
  <1>2. PICK i \in Thread : AsksFor(n, i, term[n])
    BY <1>1 DEF Asks
  <1> QED
    BY <1>1, <1>2 DEF StillAsks, AsksFor

LEMMA SameAsks ==
  ASSUME NEW n \in Node, UNCHANGED campaign[n] PROVE StillAsks(n)
  BY DEF StillAsks, AsksFor

\* The steps of a node's own elections.
LEMMA AsksCampaign ==
  ASSUME IInv, Asks, NEW n \in Node, NEW i \in Thread,
         ElectionTimeout(n, i) \/ Election(n, i), state'[n] = "candidate"
  PROVE  \E j \in Thread : AsksFor(n, j, term[n])'
  <1> DEFINE c == campaign[n][i]
  <1>1. /\ campaign \in [Node -> [Thread -> ThreadState]]
        /\ state \in [Node -> {"follower", "candidate", "leader"}]
        /\ term \in [Node -> Nat] /\ c \in ThreadState
    BY DEF IInv, TypeOK, ThreadState
  <1>2. CASE StartElection(n, i)
    <2>1. campaign' = [campaign EXCEPT ![n][i] = [c EXCEPT !.phase = "started"]]
      BY <1>2 DEF StartElection
    <2>2. campaign'[n][i].phase = "started"
      BY <1>1, <2>1 DEF ThreadState
    <2> QED
      BY <2>2 DEF AsksFor
  <1>3. CASE ReadTerm(n, i)
    <2>1. /\ campaign'[n][i].phase = "asking"
          /\ campaign'[n][i].term = term[n] /\ term' = term
      BY <1>1, <1>3 DEF ReadTerm, nodeVars
    <2> QED
      BY <2>1 DEF AsksFor
  <1>4. CASE AskPeer(n, i) \/ VoteAnswered(n, i) \/ VoteFails(n, i)
    <2>1. StillAsks(n)
      <3>1. \E d : /\ campaign' = [campaign EXCEPT ![n][i] = d]
                   /\ d.phase \in {"asking", "waiting"} /\ d.term = c.term
        <4>1. CASE AskPeer(n, i)
          <5> DEFINE d == IF Cached(n, c.next) THEN [c EXCEPT !.next = @ + 1]
                                              ELSE [c EXCEPT !.phase = "waiting"]
          <5>1. campaign' = [campaign EXCEPT ![n][i] = d]
            BY <4>1 DEF AskPeer
          <5>2. d.phase \in {"asking", "waiting"} /\ d.term = c.term
            BY <1>1, <4>1 DEF AskPeer, ThreadState
          <5> QED
            BY <5>1, <5>2
        <4>2. CASE VoteAnswered(n, i)
          <5> DEFINE v == IF Granted(Callee(n, i), n, c.term)
                            THEN c.votes + 1 ELSE c.votes
                     d == [c EXCEPT !.phase = "asking", !.next = @ + 1,
                             !.votes = v]
          <5>1. campaign' = [campaign EXCEPT ![n][i] = d]
            BY <4>2 DEF VoteAnswered
          <5>2. d.phase \in {"asking", "waiting"} /\ d.term = c.term
            BY <1>1 DEF ThreadState
          <5> QED
            BY <5>1, <5>2
        <4>3. CASE VoteFails(n, i)
          <5> DEFINE d == [c EXCEPT !.phase = "asking", !.next = @ + 1]
          <5>1. campaign' = [campaign EXCEPT ![n][i] = d]
            BY <4>3 DEF VoteFails
          <5>2. d.phase \in {"asking", "waiting"} /\ d.term = c.term
            BY <1>1 DEF ThreadState
          <5> QED
            BY <5>1, <5>2
        <4> QED
          BY <1>4, <4>1, <4>2, <4>3
      <3>2. c.phase \in {"asking", "waiting"}
        BY <1>4 DEF AskPeer, VoteAnswered, VoteFails
      <3>3. PICK d : /\ campaign' = [campaign EXCEPT ![n][i] = d]
                     /\ d.phase \in {"asking", "waiting"} /\ d.term = c.term
        BY <3>1
      <3>4. campaign'[n][i] = d
            /\ \A j \in Thread : j # i => campaign'[n][j] = campaign[n][j]
        BY <1>1, <3>3
      <3> QED
        BY <3>2, <3>3, <3>4 DEF StillAsks, AsksFor
    <2>2. StillCandidate(n)
      <3>1. CASE VoteAnswered(n, i)
        <4>1. /\ Callee(n, i) \in Node /\ c.term \in Nat
              /\ RequestVote(Callee(n, i), n, c.term)
          BY <1>1, <3>1, CalleeIsPeer DEF VoteAnswered, ThreadState
        <4> QED
          BY <4>1, HandledStill
      <3>2. CASE AskPeer(n, i) \/ VoteFails(n, i)
        BY <3>2 DEF AskPeer, VoteFails, nodeVars, StillCandidate
      <3> QED
        BY <1>4, <3>1, <3>2
    <2> QED
      BY <2>1, <2>2, AsksKept
  <1>5. ~ElectionTimeout(n, i) /\ ~WinElection(n, i) /\ ~LoseElection(n, i)
    BY <1>1 DEF ElectionTimeout, WinElection, LoseElection, nodeVars
  <1> QED
    BY <1>2, <1>3, <1>4, <1>5 DEF Election

LEMMA AsksStep == IInv /\ Asks /\ [Next]_vars => Asks'
  <1> SUFFICES ASSUME IInv, Asks, [Next]_vars, NEW n \in Node,
                      state'[n] = "candidate"
               PROVE  \E i \in Thread : AsksFor(n, i, term[n])'
    BY DEF Asks
  <1>1. TypeOK
    BY DEF IInv
  <1>2. ASSUME NEW m \in Node, m # n, NEW i \in Thread,
               ElectionTimeout(m, i) \/ Election(m, i)
        PROVE  StillCandidate(n) /\ StillAsks(n)
    <2>1. campaign'[n] = campaign[n]
      BY <1>1, <1>2 DEF TypeOK, ElectionTimeout, Election, StartElection,
         ReadTerm, AskPeer, VoteAnswered, VoteFails, WinElection, LoseElection
    <2>2. CASE VoteAnswered(m, i)
      <3>1. /\ Callee(m, i) \in Node /\ campaign[m][i].term \in Nat
            /\ RequestVote(Callee(m, i), m, campaign[m][i].term)
        BY <1>1, <2>2, CalleeIsPeer DEF VoteAnswered, TypeOK
      <3> QED
        BY <2>1, <3>1, HandledStill, SameAsks
    <2>3. CASE ~VoteAnswered(m, i)
      <3>1. state'[n] = state[n] /\ term'[n] = term[n]
        BY <1>1, <1>2, <2>3 DEF TypeOK, ElectionTimeout, Election,
           StartElection, ReadTerm, AskPeer, VoteFails, WinElection,
           LoseElection, nodeVars
      <3> QED
        BY <2>1, <3>1, SameAsks DEF StillCandidate
    <2> QED
      BY <2>2, <2>3
  <1>3. ASSUME NEW m \in Node, Heartbeat(m)
        PROVE  StillCandidate(n) /\ StillAsks(n)
    <2>1. campaign' = campaign
      BY <1>3 DEF Heartbeat, StartRound, HeartbeatAnswered, HeartbeatFails
    <2>2. CASE HeartbeatAnswered(m)
      <3>1. /\ Peers[m][round[m]] \in Node /\ term[m] \in Nat
            /\ AppendEntries(Peers[m][round[m]], term[m])
        BY <1>1, <2>2, CalledIsPeer DEF HeartbeatAnswered, TypeOK
      <3> QED
        BY <2>1, <3>1, HandledStill, SameAsks
    <2> QED
      BY <1>3, <2>1, <2>2, SameAsks
      DEF Heartbeat, StartRound, HeartbeatFails, nodeVars, StillCandidate
  <1>4. ASSUME NEW m \in Node, HeartbeatCheck(m) \/ Start(m)
        PROVE  StillCandidate(n) /\ StillAsks(n)
    BY <1>4, SameAsks
    DEF HeartbeatCheck, Start, nodeVars, threadVars, StillCandidate
  <1>5. ASSUME NEW m \in Node, Stop(m) PROVE StillCandidate(n) /\ StillAsks(n)
    <2>1. m # n
      BY <1>1, <1>5 DEF Stop, TypeOK
    <2>2. UNCHANGED <<state[n], term[n], campaign[n]>>
      BY <1>1, <1>5, <2>1 DEF Stop, TypeOK
    <2> QED
      BY <2>2, SameAsks DEF StillCandidate
  <1>6. ASSUME NEW m \in orphans, HandleOrphan(m)
        PROVE  StillCandidate(n) /\ StillAsks(n)
    <2>1. m.from \in Node /\ m.to \in Node /\ m.term \in Nat
      BY <1>1 DEF TypeOK
    <2>2. campaign' = campaign
      BY <1>6 DEF HandleOrphan, threadVars
    <2> QED
      BY <1>6, <2>1, <2>2, HandledStill, SameAsks DEF HandleOrphan
  <1>7. CASE UNCHANGED vars
    BY <1>7, SameAsks, AsksKept DEF vars, nodeVars, threadVars, StillCandidate
  <1> QED
    BY <1>2, <1>3, <1>4, <1>5, <1>6, <1>7, AsksCampaign, AsksKept DEF Next

\* Only an election that counts its votes makes a node leader.
LEMMA OnlyWinnersLead ==
  ASSUME IInv, [Next]_vars, NEW n \in Node, state[n] # "leader",
         state'[n] = "leader"
  PROVE  \E i \in Thread : WinElection(n, i)
  <1>1. TypeOK
    BY DEF IInv
  <1>2. ASSUME NEW m \in Node, NEW i \in Thread,
               ElectionTimeout(m, i) \/ Election(m, i)
        PROVE  m = n /\ WinElection(n, i)
    <2>1. ~VoteAnswered(m, i)
      <3> SUFFICES ASSUME VoteAnswered(m, i) PROVE FALSE
        OBVIOUS
      <3>1. /\ Callee(m, i) \in Node /\ campaign[m][i].term \in Nat
            /\ RequestVote(Callee(m, i), m, campaign[m][i].term)
        BY <1>1, CalleeIsPeer DEF VoteAnswered, TypeOK
      <3> QED
        BY <3>1, HandledStill
    <2> QED
      BY <1>1, <1>2, <2>1 DEF TypeOK, ElectionTimeout, Election, StartElection,
         ReadTerm, AskPeer, VoteFails, WinElection, LoseElection, nodeVars
  <1>3. ASSUME NEW m \in Node,
               HeartbeatCheck(m) \/ Heartbeat(m) \/ Stop(m) \/ Start(m)
        PROVE  FALSE
    <2>1. ~HeartbeatAnswered(m)
      <3> SUFFICES ASSUME HeartbeatAnswered(m) PROVE FALSE
        OBVIOUS
      <3>1. /\ Peers[m][round[m]] \in Node /\ term[m] \in Nat
            /\ AppendEntries(Peers[m][round[m]], term[m])
        BY <1>1, CalledIsPeer DEF HeartbeatAnswered, TypeOK
      <3> QED
        BY <3>1, HandledStill
    <2> QED
      BY <1>1, <1>3, <2>1 DEF TypeOK, HeartbeatCheck, Heartbeat, StartRound,
         HeartbeatFails, Stop, Start, nodeVars
  <1>4. ASSUME NEW m \in orphans, HandleOrphan(m) PROVE FALSE
    <2>1. m.from \in Node /\ m.to \in Node /\ m.term \in Nat
      BY <1>1 DEF TypeOK
    <2> QED
      BY <1>4, <2>1, HandledStill DEF HandleOrphan
  <1>5. state' # state
    OBVIOUS
  <1> QED
    BY <1>2, <1>3, <1>4, <1>5 DEF Next, vars, nodeVars

\* Whatever happens while its election threads ask for votes, however many
\* there are, a node becomes leader in a term it asks for votes in (136, 156).
THEOREM ElectedInTheirTerm == Spec => ElectedInItsTerm
  <1> DEFINE Elects == \A n \in Node : state[n] # "leader" /\ state'[n] = "leader" =>
                         \E i \in Thread : AsksFor(n, i, term'[n])
  <1>1. Init => Asks
    BY DEF Init, Asks
  <1>2. IInv /\ Asks /\ [Next]_vars => Elects
    <2> SUFFICES ASSUME IInv, Asks, [Next]_vars, NEW n \in Node,
                        state[n] # "leader", state'[n] = "leader"
                 PROVE  \E i \in Thread : AsksFor(n, i, term'[n])
      OBVIOUS
    <2>1. PICK i \in Thread : WinElection(n, i)
      BY OnlyWinnersLead
    <2>2. state[n] = "candidate" /\ term' = term
      BY <2>1 DEF WinElection, Elected
    <2> QED
      BY <2>2 DEF Asks
  <1>3. IInv /\ Asks /\ [Next]_vars => [Elects]_vars
    BY <1>2
  <1> HIDE DEF Elects
  <1>4. Spec => [][Elects]_vars
    BY <1>1, <1>3, AsksStep, Invariant, PTL DEF Spec
  <1> QED
    BY <1>4 DEF Elects, ElectedInItsTerm

-----------------------------------------------------------------------------
(* A node that has a channel to every peer asks nobody: its elections have *)
(* the one vote of its own, which is not a majority of three nodes.        *)

Unasked(c) ==
  c.phase \in {"none", "created", "started"} \/ (c.phase = "asking" /\ c.votes = 1)
Out(n) ==
  /\ channels[n] = Len(Peers[n]) /\ state[n] # "leader"
  /\ \A i \in Thread : Unasked(campaign[n][i])

LEMMA OneVoteLoses ==
  ASSUME Cardinality(Node) > 2, IInv, NEW n \in Node, NEW i \in Thread,
         Unasked(campaign[n][i])
  PROVE  ~WinElection(n, i)
  <1>1. Len(Peers[n]) = Cardinality(Node) - 1 /\ Cardinality(Node) \in Nat
    BY PeersAssumption, NodeAssumption, FS_CardinalityType
  <1>2. Majority(n) \in Nat /\ Majority(n) >= 2
    BY <1>1 DEF Majority
  <1>3. ~(1 >= Majority(n))
    BY <1>2
  <1>4. Counting(n, i) => campaign[n][i].votes = 1
    BY DEF Counting, Unasked
  <1> QED
    BY <1>3, <1>4 DEF WinElection, Elected

\* The steps of the node's own elections.
LEMMA OutCampaign ==
  ASSUME Cardinality(Node) > 2, IInv, NEW n \in Node, Out(n),
         NEW i \in Thread, ElectionTimeout(n, i) \/ Election(n, i)
  PROVE  Out(n)'
  <1> DEFINE c == campaign[n][i]
  <1>1. /\ campaign \in [Node -> [Thread -> [phase : Phase, term : Nat,
                                             next : Nat \ {0}, votes : Nat]]]
        /\ state \in [Node -> {"follower", "candidate", "leader"}]
        /\ channels[n] = Len(Peers[n]) /\ Len(Peers[n]) \in Nat
        /\ Unasked(c) /\ state[n] # "leader"
    BY PeersLen DEF IInv, TypeOK, Out
  <1>2. UNCHANGED channels
    BY DEF ElectionTimeout, Election, StartElection, ReadTerm, AskPeer,
       VoteAnswered, VoteFails, WinElection, LoseElection
  <1>3. ~WinElection(n, i) /\ ~VoteAnswered(n, i) /\ ~VoteFails(n, i)
    BY <1>1, OneVoteLoses DEF VoteAnswered, VoteFails, Unasked
  <1>4. state'[n] # "leader"
    BY <1>1, <1>3 DEF ElectionTimeout, Election, StartElection, ReadTerm,
       AskPeer, LoseElection, nodeVars
  <1>5. \E d : campaign' = [campaign EXCEPT ![n][i] = d] /\ Unasked(d)
    <2>1. CASE ElectionTimeout(n, i)
      <3>1. campaign' = [campaign EXCEPT ![n][i] = [c EXCEPT !.phase = "created"]]
        BY <2>1 DEF ElectionTimeout
      <3>2. [c EXCEPT !.phase = "created"].phase = "created"
        BY <1>1
      <3> QED
        BY <3>1, <3>2 DEF Unasked
    <2>2. CASE StartElection(n, i)
      <3>1. campaign' = [campaign EXCEPT ![n][i] = [c EXCEPT !.phase = "started"]]
        BY <2>2 DEF StartElection
      <3>2. [c EXCEPT !.phase = "started"].phase = "started"
        BY <1>1
      <3> QED
        BY <3>1, <3>2 DEF Unasked
    <2>3. CASE ReadTerm(n, i)
      <3> DEFINE d == [phase |-> "asking", term |-> term[n], next |-> 1,
                       votes |-> 1]
      <3>1. campaign' = [campaign EXCEPT ![n][i] = d]
        BY <2>3 DEF ReadTerm
      <3>2. d.phase = "asking" /\ d.votes = 1
        OBVIOUS
      <3> QED
        BY <3>1, <3>2 DEF Unasked
    <2>4. CASE AskPeer(n, i)
      <3>1. Cached(n, c.next)
        BY <1>1, <2>4 DEF AskPeer, Cached
      <3>2. campaign' = [campaign EXCEPT ![n][i] = [c EXCEPT !.next = @ + 1]]
        BY <2>4, <3>1 DEF AskPeer
      <3>3. Unasked([c EXCEPT !.next = @ + 1])
        <4>1. /\ [c EXCEPT !.next = @ + 1].phase = c.phase
              /\ [c EXCEPT !.next = @ + 1].votes = c.votes
          BY <1>1
        <4> HIDE DEF c
        <4> QED
          BY <1>1, <4>1 DEF Unasked
      <3> QED
        BY <3>2, <3>3
    <2>5. CASE LoseElection(n, i)
      <3>1. campaign' = [campaign EXCEPT ![n][i] = Asleep]
        BY <2>5 DEF LoseElection
      <3>2. Unasked(Asleep)
        BY DEF Asleep, Unasked
      <3> QED
        BY <3>1, <3>2
    <2> QED
      BY <1>3, <2>1, <2>2, <2>3, <2>4, <2>5 DEF Election
  <1>6. \A j \in Thread : Unasked(campaign'[n][j])
    BY <1>1, <1>5 DEF Out
  <1> QED
    BY <1>1, <1>2, <1>4, <1>6 DEF Out

\* What others do to the node: its handlers lead nobody.
LEMMA OutHandled ==
  ASSUME IInv, NEW n \in Node, Out(n), UNCHANGED <<campaign[n], channels[n]>>,
         NEW p \in Node, NEW q \in Node, NEW t \in Nat,
         RequestVote(p, q, t) \/ AppendEntries(p, t)
  PROVE  Out(n)'
  <1>1. state'[n] \in {state[n], "follower"}
    BY DEF IInv, TypeOK, RequestVote, AppendEntries, nodeVars
  <1> QED
    BY <1>1 DEF Out

LEMMA OutStep ==
  ASSUME Cardinality(Node) > 2, NEW n \in Node \ Stoppable
  PROVE  IInv /\ Out(n) /\ [Next]_vars => Out(n)'
  <1> SUFFICES ASSUME IInv, Out(n), [Next]_vars PROVE Out(n)'
    OBVIOUS
  <1>1. TypeOK
    BY DEF IInv
  <1>2. ASSUME UNCHANGED <<state[n], channels[n], campaign[n]>> PROVE Out(n)'
    BY <1>2 DEF Out
  <1>3. ASSUME NEW m \in Node, m # n, NEW i \in Thread,
               ElectionTimeout(m, i) \/ Election(m, i)
        PROVE  Out(n)'
    <2>1. channels' = channels /\ campaign'[n] = campaign[n]
      BY <1>1, <1>3 DEF TypeOK, ElectionTimeout, Election, StartElection,
         ReadTerm, AskPeer, VoteAnswered, VoteFails, WinElection, LoseElection
    <2>2. CASE VoteAnswered(m, i)
      <3>1. /\ Callee(m, i) \in Node /\ campaign[m][i].term \in Nat
            /\ RequestVote(Callee(m, i), m, campaign[m][i].term)
        BY <1>1, <2>2, CalleeIsPeer DEF VoteAnswered, TypeOK
      <3> QED
        BY <2>1, <3>1, OutHandled
    <2>3. CASE ~VoteAnswered(m, i)
      <3>1. state'[n] = state[n]
        BY <1>1, <1>3, <2>3 DEF TypeOK, ElectionTimeout, Election,
           StartElection, ReadTerm, AskPeer, VoteFails, WinElection,
           LoseElection, nodeVars
      <3> QED
        BY <1>2, <2>1, <3>1
    <2> QED
      BY <2>2, <2>3
  <1>4. ASSUME NEW m \in Node, Heartbeat(m) PROVE Out(n)'
    <2>1. campaign' = campaign /\ channels'[n] = channels[n]
      <3>1. channels[n] = Len(Peers[n]) /\ Len(Peers[n]) \in Nat
        BY PeersLen DEF Out
      <3>2. StartRound(m) => channels'[n] = channels[n]
        BY <1>1, <3>1 DEF StartRound, TypeOK, Larger
      <3>3. NextPeer(m) /\ round[m] # 0 => channels'[n] = channels[n]
        BY <1>1, <3>1 DEF NextPeer, LastPeer, TypeOK, Larger
      <3> QED
        BY <1>4, <3>2, <3>3
        DEF Heartbeat, StartRound, HeartbeatAnswered, HeartbeatFails
    <2>2. CASE HeartbeatAnswered(m)
      <3>1. /\ Peers[m][round[m]] \in Node /\ term[m] \in Nat
            /\ AppendEntries(Peers[m][round[m]], term[m])
        BY <1>1, <2>2, CalledIsPeer DEF HeartbeatAnswered, TypeOK
      <3> QED
        BY <2>1, <3>1, OutHandled
    <2> QED
      BY <1>2, <1>4, <2>1, <2>2
      DEF Heartbeat, StartRound, HeartbeatFails, nodeVars
  <1>5. ASSUME NEW m \in Node, HeartbeatCheck(m) \/ Stop(m) \/ Start(m)
        PROVE  Out(n)'
    BY <1>1, <1>2, <1>5
    DEF HeartbeatCheck, Stop, Start, TypeOK, nodeVars, threadVars
  <1>6. ASSUME NEW m \in orphans, HandleOrphan(m) PROVE Out(n)'
    <2>1. m.from \in Node /\ m.to \in Node /\ m.term \in Nat
      BY <1>1 DEF TypeOK
    <2> QED
      BY <1>6, <2>1, OutHandled DEF HandleOrphan, threadVars
  <1>7. CASE UNCHANGED vars
    BY <1>2, <1>7 DEF vars, nodeVars, threadVars
  <1> QED
    BY <1>3, <1>4, <1>5, <1>6, <1>7, OutCampaign DEF Next

\* In a cluster of three or more, a node that has called all its peers and does
\* not lead never leads again (143), whatever calls are under way.
THEOREM FormerLeadersStayOut ==
  ASSUME Cardinality(Node) > 2
  PROVE  Spec => FormerLeaderStaysOut
  <1>1. ASSUME NEW n \in Candidates \ Stoppable
        PROVE  Spec => [](Spent(n) => [](state[n] # "leader"))
    <2>1. n \in Node \ Stoppable
      BY BoundAssumption
    <2>2. Spent(n) => Out(n)
      BY DEF Spent, Out, Unasked
    <2>3. IInv /\ Out(n) /\ [Next]_vars => Out(n)'
      BY <2>1, OutStep
    <2>4. Out(n) => state[n] # "leader"
      BY DEF Out
    <2> QED
      BY <2>2, <2>3, <2>4, Invariant, PTL DEF Spec
  <1> QED
    BY <1>1 DEF FormerLeaderStaysOut
=============================================================================
