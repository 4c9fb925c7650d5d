------------------------------ MODULE RaftNode ------------------------------
(***************************************************************************)
(* The Python Raft node of "Project - 2/Q4" (python/raft-election.py):     *)
(* leader election, heartbeats, client submissions and log replication.    *)
(*                                                                         *)
(* The actions are the critical sections of the node's threads: one        *)
(* monitor thread (elections), the heartbeat threads, the gRPC handlers,   *)
(* and the threads that serve a client submission.  What a thread read     *)
(* before it gave the lock up is kept in election, beat and tasks, so that *)
(* a later section works on what it read and not on the current state.     *)
(*                                                                         *)
(* RPCs.  Every call has a deadline, and the server runs a request whose   *)
(* caller has given up.  A call is therefore either answered in time (the  *)
(* handler's step also hands the caller its reply) or abandoned, and the   *)
(* request may then be handled at any later time, or never.  Requests      *)
(* overtake one another; none is handled twice.                            *)
(***************************************************************************)
EXTENDS Naturals, Sequences, FiniteSets

CONSTANTS
  Node,        \* the nodes of the cluster
  Peers,       \* Peers[n]: node n's -peers list, in its order
  Op,          \* the operations a client may submit
  NoOne,       \* Python's None, for voted_for and current_leader_id
  Candidates,  \* the nodes whose election timer may expire
  Contacts,    \* the nodes clients submit to
  MaxTerm,     \* bound: no election starts at this term
  MaxTasks,    \* bound: no operation is appended while so many are served
  MaxLog,      \* bound: no operation is appended to a log of this length
  MaxInFlight, \* bound: no heartbeat with so many AppendEntries in flight
  MaxLate      \* bound on the abandoned RequestVote calls still to come

PeersOf(n) == {Peers[n][i] : i \in 1..Len(Peers[n])}

ASSUME NodeAssumption == IsFiniteSet(Node) /\ NoOne \notin Node

\* A -peers list names every other node, once.
ASSUME PeersAssumption ==
  /\ Peers \in [Node -> Seq(Node)]
  /\ \A n \in Node : /\ PeersOf(n) = Node \ {n}
                     /\ Len(Peers[n]) = Cardinality(Node) - 1

ASSUME BoundAssumption ==
  /\ Candidates \subseteq Node /\ Contacts \subseteq Node
  /\ MaxTerm \in Nat /\ MaxLog \in Nat /\ MaxTasks \in Nat
  /\ MaxInFlight \in Nat /\ MaxLate \in Nat

VARIABLES
  state,           \* "follower", "candidate" or "leader"
  term,
  votedFor,
  currentLeaderId,
  log,
  commitIndex,
  pendingAcks,     \* pendingAcks[n][i] = {}: the dictionary has no key i
  election,        \* the monitor thread's election: its term, calls and votes
  beat,            \* heartbeat threads started; those past their state check
  tasks,           \* submissions being served by a leader
  forwarding,      \* nodes whose lock is held while they forward a request
  voteRequests,    \* abandoned RequestVote calls not yet handled
  appendRequests,  \* AppendEntries calls not yet handled
  submissions      \* forwarded submissions not yet handled

\* What happened so far; no action reads these.
VARIABLES
  grants,          \* votes granted by a RequestVote handler
  wins,            \* elections won, with the peers that voted
  reported         \* submissions answered "committed"

nodeVars == <<state, term, votedFor, currentLeaderId>>
logVars == <<log, commitIndex, pendingAcks>>
netVars == <<voteRequests, appendRequests, submissions>>
history == <<grants, wins, reported>>
vars == <<nodeVars, logVars, election, beat, tasks, forwarding, netVars,
          history>>

Index == 1..MaxLog
Entry == [op : Op, term : Nat, index : Index]
NodeOrNone == Node \cup {NoOne}
Idle == [term |-> 0, next |-> 1, votes |-> {}]
AppendRequest == [from : Node, to : Node, term : Nat, log : Seq(Entry),
                  commitIndex : Nat, ackFor : 0..MaxLog]
Task == [node : Node, index : Index, op : Op,
         phase : {"appended", "sent"}, ahead : SUBSET Node]

\* A mutant forgets the "+ 1".
MajorityOffByOne(n) == Len(Peers[n]) \div 2
\* len(self.peers)//2 + 1
Majority(n) == Len(Peers[n]) \div 2 + 1
Larger(a, b) == IF a > b THEN a ELSE b

\* The node's lock is free.  Only a forwarded submission keeps it over a call.
LockFree(n) == n \notin forwarding

Init ==
  /\ state = [n \in Node |-> "follower"]
  /\ term = [n \in Node |-> 0]
  /\ votedFor = [n \in Node |-> NoOne]
  /\ currentLeaderId = [n \in Node |-> NoOne]
  /\ log = [n \in Node |-> <<>>]
  /\ commitIndex = [n \in Node |-> 0]
  /\ pendingAcks = [n \in Node |-> [i \in Index |-> {}]]
  /\ election = [n \in Node |-> Idle]
  /\ beat = [n \in Node |-> [threads |-> 0, ready |-> 0]]
  /\ tasks = {} /\ forwarding = {}
  /\ voteRequests = {} /\ appendRequests = {} /\ submissions = {}
  /\ grants = {} /\ wins = {} /\ reported = {}

-----------------------------------------------------------------------------
(* Election: the monitor thread and the RequestVote handler.               *)

\* The timer of a node that is not leader expires.  voted_for is left alone.
StartElection(n) ==
  /\ n \in Candidates /\ term[n] < MaxTerm
  /\ state[n] # "leader" /\ election[n] = Idle /\ LockFree(n)
  /\ state' = [state EXCEPT ![n] = "candidate"]
  /\ term' = [term EXCEPT ![n] = @ + 1]
  /\ election' = [election EXCEPT ![n] =
                    [term |-> term[n] + 1, next |-> 1, votes |-> {}]]
  /\ UNCHANGED <<votedFor, currentLeaderId, logVars, beat, tasks, forwarding,
                 netVars, history>>

\* A mutant does not ask whom it voted for.
GrantedToAll(p, c, t) == t >= term[p]
\* Node p's RequestVote handler, called by candidate c for term t.
Granted(p, c, t) ==
  \/ t > term[p]
  \/ t = term[p] /\ votedFor[p] \in {NoOne, c}

RequestVote(p, c, t) ==
  /\ LockFree(p)
  /\ term' = [term EXCEPT ![p] = Larger(t, @)]
  /\ state' = [state EXCEPT ![p] = IF t > term[p] THEN "follower" ELSE @]
  /\ votedFor' = [votedFor EXCEPT ![p] = IF Granted(p, c, t) THEN c ELSE @]
  /\ grants' = IF Granted(p, c, t)
                 THEN grants \cup {[voter |-> p, candidate |-> c, term |-> t]}
                 ELSE grants

\* The candidate calls its peers one after the other.
Calling(n) == election[n] # Idle /\ election[n].next <= Len(Peers[n])
Callee(n) == Peers[n][election[n].next]

\* The peer handles the call and its reply arrives in time.
VoteAnswered(n) ==
  /\ Calling(n)
  /\ RequestVote(Callee(n), n, election[n].term)
  /\ election' = [election EXCEPT ![n] =
       [term |-> @.term, next |-> @.next + 1,
        votes |-> IF Granted(Callee(n), n, @.term)
                    THEN @.votes \cup {Callee(n)} ELSE @.votes]]
  /\ UNCHANGED <<currentLeaderId, logVars, beat, tasks, forwarding, netVars,
                 wins, reported>>

\* The call fails or its deadline passes; the request may still be handled.
VoteAbandoned(n) ==
  /\ Calling(n)
  /\ election' = [election EXCEPT ![n].next = @ + 1]
  /\ voteRequests' = IF Cardinality(voteRequests) < MaxLate
       THEN voteRequests \cup
              {[from |-> n, to |-> Callee(n), term |-> election[n].term]}
       ELSE voteRequests
  /\ UNCHANGED <<nodeVars, logVars, beat, tasks, forwarding, appendRequests,
                 submissions, history>>

LateVoteRequest(m) ==
  /\ RequestVote(m.to, m.from, m.term)
  /\ voteRequests' = voteRequests \ {m}
  /\ UNCHANGED <<currentLeaderId, logVars, election, beat, tasks, forwarding,
                 appendRequests, submissions, wins, reported>>

\* All peers were called.  Neither the state nor the term is looked at again.
Polled(n) == election[n] # Idle /\ election[n].next > Len(Peers[n])
Elected(n) == Cardinality(election[n].votes) + 1 >= Majority(n)

\* A mutant starts a second thread, for the calls to the Go node.
StartHeartbeatTwice(b) == [b EXCEPT !.threads = @ + 2]
StartHeartbeat(b) == [b EXCEPT !.threads = @ + 1]

WinElection(n) ==
  /\ Polled(n) /\ Elected(n) /\ LockFree(n)
  /\ state' = [state EXCEPT ![n] = "leader"]
  /\ currentLeaderId' = [currentLeaderId EXCEPT ![n] = n]
  /\ beat' = [beat EXCEPT ![n] = StartHeartbeat(@)]
  /\ wins' = wins \cup {[node |-> n, term |-> election[n].term,
                         voters |-> election[n].votes]}
  /\ election' = [election EXCEPT ![n] = Idle]
  /\ UNCHANGED <<term, votedFor, logVars, tasks, forwarding, netVars,
                 grants, reported>>

LoseElection(n) ==
  /\ Polled(n) /\ ~Elected(n) /\ LockFree(n)
  /\ state' = [state EXCEPT ![n] = "follower"]
  /\ election' = [election EXCEPT ![n] = Idle]
  /\ UNCHANGED <<term, votedFor, currentLeaderId, logVars, beat, tasks,
                 forwarding, netVars, history>>

-----------------------------------------------------------------------------
(* Heartbeats and the AppendEntries handler.                               *)

\* A mutant announces what is in the log as committed.
AppendsLogEnd(n, entries, ackFor) ==
  {[from |-> n, to |-> p, term |-> term[n], log |-> entries,
    commitIndex |-> Len(log[n]), ackFor |-> ackFor] : p \in PeersOf(n)}
\* The requests that carry `entries' to all peers of n.
Appends(n, entries, ackFor) ==
  {[from |-> n, to |-> p, term |-> term[n], log |-> entries,
    commitIndex |-> commitIndex[n], ackFor |-> ackFor] : p \in PeersOf(n)}

\* A heartbeat thread finds its node leader, without taking the lock.
HeartbeatCheck(n) ==
  /\ state[n] = "leader" /\ beat[n].ready < beat[n].threads
  /\ beat' = [beat EXCEPT ![n].ready = @ + 1]
  /\ UNCHANGED <<nodeVars, logVars, election, tasks, forwarding, netVars,
                 history>>

\* It builds its request under the lock, whatever the state is by now.
HeartbeatSend(n) ==
  /\ beat[n].ready > 0 /\ LockFree(n)
  /\ Cardinality(appendRequests) < MaxInFlight
  /\ beat' = [beat EXCEPT ![n].ready = @ - 1]
  /\ appendRequests' = appendRequests \cup Appends(n, log[n], 0)
  /\ UNCHANGED <<nodeVars, logVars, election, tasks, forwarding, voteRequests,
                 submissions, history>>

\* Mutants of the handler's checks: it takes every term, only a newer one; it
\* takes every log, appends to its own, or keeps what it has.
NeverOld(m) == FALSE
OldOrEqual(m) == m.term <= term[m.to]
MergeAny(own, received) == received
MergeAppend(own, received) == own \o received
MergeOnce(own, received) == IF own = <<>> THEN received ELSE own

\* The request is of an older term than its receiver's.
Old(m) == m.term < term[m.to]
\* The longer log wins.
Merge(own, received) == IF Len(received) > Len(own) THEN received ELSE own

\* The AppendEntries handler of m.to refuses an old request.
RejectAppendEntries(m) ==
  /\ LockFree(m.to) /\ Old(m)
  /\ appendRequests' = appendRequests \ {m}
  /\ UNCHANGED <<nodeVars, logVars, election, beat, tasks, forwarding,
                 voteRequests, submissions, history>>

\* A mutant does not take the sender's term over.
TermKept(m) == term[m.to]
TermTaken(m) == m.term

\* It takes any other one.  A worker of the
\* sender's submission that is answered in time records the ack, unless the
\* entry's key is gone from pending_acks.
AppendEntries(m, inTime) ==
  LET p == m.to
      counted == inTime /\ m.ackFor # 0
                   /\ pendingAcks[m.from][m.ackFor] # {}
  IN /\ LockFree(p) /\ ~Old(m)
     /\ state' = [state EXCEPT ![p] = "follower"]
     /\ term' = [term EXCEPT ![p] = TermTaken(m)]
     /\ currentLeaderId' = [currentLeaderId EXCEPT ![p] = m.from]
     /\ log' = [log EXCEPT ![p] = Merge(@, m.log)]
     /\ commitIndex' = [commitIndex EXCEPT ![p] = Larger(m.commitIndex, @)]
     /\ pendingAcks' = IF counted
          THEN [pendingAcks EXCEPT ![m.from][m.ackFor] = @ \cup {p}]
          ELSE pendingAcks
     /\ appendRequests' = appendRequests \ {m}
     /\ UNCHANGED <<votedFor, election, beat, tasks, forwarding, voteRequests,
                    submissions, history>>

-----------------------------------------------------------------------------
(* SubmitClientRequest.                                                    *)

\* Node n is handed operation op by a client, which may submit any operation at
\* any time, or by a node that forwards it: the forwarded ones left after that.
Remaining(n, op) ==
  {s \in {submissions, submissions \ {[to |-> n, op |-> op]}} :
     n \in Contacts \/ s # submissions}

\* A mutant numbers entries from 0.
NextIndexFromZero(n) == Len(log[n])
NextIndex(n) == Len(log[n]) + 1

\* A leader appends the operation and opens its set of acks.
AppendOperation(n, op) ==
  LET idx == NextIndex(n)
  IN /\ LockFree(n) /\ state[n] = "leader"
     /\ Len(log[n]) < MaxLog /\ Cardinality(tasks) < MaxTasks
     /\ submissions' \in Remaining(n, op)
     /\ log' = [log EXCEPT ![n] =
                  Append(@, [op |-> op, term |-> term[n], index |-> idx])]
     /\ pendingAcks' = [pendingAcks EXCEPT ![n][idx] = {n}]
     /\ tasks' = tasks \cup {[node |-> n, index |-> idx, op |-> op,
                              phase |-> "appended", ahead |-> {}]}
     /\ UNCHANGED <<nodeVars, commitIndex, election, beat, forwarding,
                    voteRequests, appendRequests, history>>

\* Under a second lock it reads the entry back and sends it to every peer, in
\* a request whose log is that one entry.  `ahead' is history: the peers whose
\* term was already past the one the request carries.
BroadcastAppendOne(t) ==
  LET n == t.node
  IN /\ t.phase = "appended" /\ LockFree(n)
     /\ appendRequests' = appendRequests \cup
                            Appends(n, <<log[n][t.index]>>, t.index)
     /\ tasks' = (tasks \ {t}) \cup
          {[t EXCEPT !.phase = "sent",
                     !.ahead = {p \in Node : term[p] > term[n]}]}
     /\ UNCHANGED <<nodeVars, logVars, election, beat, forwarding,
                    voteRequests, submissions, history>>

\* Its workers are done or out of time: it counts the acks it has.
Acked(t) == Cardinality(pendingAcks[t.node][t.index]) >= Majority(t.node)

CommitOperation(t) ==
  /\ t.phase = "sent" /\ LockFree(t.node) /\ Acked(t)
  /\ commitIndex' = [commitIndex EXCEPT ![t.node] = t.index]
  /\ pendingAcks' = [pendingAcks EXCEPT ![t.node][t.index] = {}]
  /\ tasks' = tasks \ {t}
  /\ reported' = reported \cup {[node |-> t.node, index |-> t.index,
                                 op |-> t.op, ahead |-> t.ahead]}
  /\ UNCHANGED <<nodeVars, log, election, beat, forwarding, netVars,
                 grants, wins>>

FailOperation(t) ==
  /\ t.phase = "sent" /\ LockFree(t.node) /\ ~Acked(t)
  /\ tasks' = tasks \ {t}
  /\ UNCHANGED <<nodeVars, logVars, election, beat, forwarding, netVars,
                 history>>

\* A node that is not leader calls the leader it knows, which may be itself,
\* and keeps its lock until the call returns.
ForwardSubmission(n, op) ==
  /\ LockFree(n) /\ state[n] # "leader" /\ currentLeaderId[n] # NoOne
  /\ \E rest \in Remaining(n, op) :
       submissions' = rest \cup {[to |-> currentLeaderId[n], op |-> op]}
  /\ forwarding' = forwarding \cup {n}
  /\ UNCHANGED <<nodeVars, logVars, election, beat, tasks, voteRequests,
                 appendRequests, history>>

\* Its call is answered, fails, or is out of time.
ForwardReturns(n) ==
  /\ n \in forwarding
  /\ forwarding' = forwarding \ {n}
  /\ UNCHANGED <<nodeVars, logVars, election, beat, tasks, netVars,
                 history>>

-----------------------------------------------------------------------------
Next ==
  \/ \E n \in Node : \/ StartElection(n) \/ VoteAnswered(n)
                     \/ VoteAbandoned(n) \/ WinElection(n) \/ LoseElection(n)
                     \/ HeartbeatCheck(n) \/ HeartbeatSend(n)
                     \/ ForwardReturns(n)
  \/ \E m \in voteRequests : LateVoteRequest(m)
  \/ \E m \in appendRequests :
       RejectAppendEntries(m) \/ \E inTime \in BOOLEAN : AppendEntries(m, inTime)
  \/ \E n \in Node, op \in Op : AppendOperation(n, op) \/ ForwardSubmission(n, op)
  \/ \E t \in tasks : \/ BroadcastAppendOne(t) \/ CommitOperation(t)
                      \/ FailOperation(t)

Spec == Init /\ [][Next]_vars

-----------------------------------------------------------------------------
(* Invariants.                                                             *)

TypeOK ==
  /\ state \in [Node -> {"follower", "candidate", "leader"}]
  /\ term \in [Node -> Nat]
  /\ votedFor \in [Node -> NodeOrNone]
  /\ currentLeaderId \in [Node -> NodeOrNone]
  /\ log \in [Node -> Seq(Entry)]
  /\ commitIndex \in [Node -> Nat]
  /\ pendingAcks \in [Node -> [Index -> SUBSET Node]]
  /\ election \in [Node -> [term : Nat, next : Nat \ {0},
                            votes : SUBSET Node]]
  /\ beat \in [Node -> [threads : Nat, ready : Nat]]
  /\ tasks \subseteq Task
  /\ forwarding \subseteq Node
  /\ voteRequests \subseteq [from : Node, to : Node, term : Nat]
  /\ appendRequests \subseteq AppendRequest
  /\ submissions \subseteq [to : Node, op : Op]
  /\ grants \subseteq [voter : Node, candidate : Node, term : Nat]
  /\ wins \subseteq [node : Node, term : Nat, voters : SUBSET Node]
  /\ reported \subseteq [node : Node, index : Index, op : Op, ahead : SUBSET Node]

\* RequestVote (90-102): a node grants its vote to one candidate in a term,
\* though AppendEntries (76) raises the term and leaves voted_for alone.
OneGrantPerTerm ==
  \A g, h \in grants :
    g.voter = h.voter /\ g.term = h.term => g.candidate = h.candidate

\* _start_election never votes for itself (192-198), so a term may have two
\* winners.  But then they voted for each other, or one for the other: no peer
\* elects both (odd clusters; an even one counts half as a majority).
RivalWinnersVoted ==
  \A v, w \in wins :
    v.term = w.term /\ v.node # w.node
      => /\ v.voters \cap w.voters = {}
         /\ v.node \in w.voters \/ w.node \in v.voters

\* The term check of AppendEntries (71): no operation is reported committed
\* (135) that was sent in a term a majority of the nodes had already left.
StaleLeaderCannotCommit ==
  \A r \in reported : Cardinality(Node \ r.ahead) >= Majority(r.node)

\* A leader assigns its commit_index (131), so that it falls when submissions
\* finish out of order, and the others take any larger one, even past their own
\* log (83-84): still it is 0 or the index of an operation that was reported
\* committed.
CommitIndexReported ==
  \A n \in Node : commitIndex[n] = 0
                  \/ \E r \in reported : r.index = commitIndex[n]

\* Every election won starts a heartbeat thread that never ends (163, 213): a
\* node has no more of them than there were terms, however often it is deposed
\* and elected again.
HeartbeatThreadsBounded == \A n \in Node : beat[n].threads <= term[n]

\* Elections do not compare logs and AppendEntries replaces them wholesale
\* (81-82); still the terms along a log never fall, and none is ahead of its
\* node's.
TermsAlong(s) == \A i \in 1..(Len(s) - 1) : s[i].term <= s[i + 1].term
LogTermsOrdered ==
  \A n \in Node : /\ TermsAlong(log[n])
                  /\ \A i \in 1..Len(log[n]) : log[n][i].term <= term[n]

\* A submission's request carries one entry as a whole log (143-146), so the
\* entry at the head of a log may be any; every later entry is in its place.
InPlace(s) == \A i \in 2..Len(s) : s[i].index = i
OnlyHeadMisplaced == \A n \in Node : InPlace(log[n])

\* With a leader that is never deposed, the log of any other node is a prefix
\* of the leader's or one entry of it (81-82, 142-146).
FollowerLogShape ==
  \A l, f \in Node : Candidates = {l} =>
    \/ \E i \in 0..Len(log[l]) : log[f] = SubSeq(log[l], 1, i)
    \/ \E i \in 1..Len(log[l]) : log[f] = <<log[l][i]>>

-----------------------------------------------------------------------------
(* What a step may not do.                                                 *)

\* A node's term only grows: a deposed leader stays deposed (71, 93-94, 195).
TermNeverFalls == [][\A n \in Node : term'[n] >= term[n]]_vars

\* No log gets shorter, so the entry a submission reads back (142) is there.
LogNeverShrinks == [][\A n \in Node : Len(log'[n]) >= Len(log[n])]_vars

-----------------------------------------------------------------------------
(* Liveness.                                                               *)

\* Handling a request that reached node n.
Handles(n) ==
  \E m \in {r \in appendRequests : r.to = n} :
    RejectAppendEntries(m) \/ \E inTime \in BOOLEAN : AppendEntries(m, inTime)

\* Heartbeat threads run for ever (163), a forwarded call has a deadline (113),
\* and a thread whose lock stays free gets it.  That requests arrive (Handles) is
\* the network's part.
Fairness ==
  /\ \A n \in Candidates : WF_vars(HeartbeatCheck(n)) /\ WF_vars(HeartbeatSend(n))
  /\ \A n \in Node : WF_vars(ForwardReturns(n)) /\ WF_vars(Handles(n))

FairSpec == Spec /\ Fairness

\* With a leader that is never deposed, heartbeats make all logs equal once no
\* operation is appended any more (162-177), though a follower that forwards
\* keeps them waiting for its lock (113).
LogsConverge == <>[](\A m, n \in Node : log[m] = log[n])

-----------------------------------------------------------------------------
(* What the documentation says and the program does not do.                *)

\* README.md 118: "after the randomized election timeout, one becomes the
\* leader": two nodes are not leaders of one term.
OneLeaderPerTerm ==
  \A m, n \in Node :
    state[m] = "leader" /\ state[n] = "leader" /\ term[m] = term[n] => m = n
=============================================================================
