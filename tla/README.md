# Verification of cse5306: consensus, commit and membership services

TLA+ models of the distributed programs of this repository, the TLC runs that
check them on small instances, and TLAPS proofs about them for instances of any
size. Line numbers refer to the source file a section names.

## 1. The system

The repository holds six small programs. They share gRPC and Docker, not code.

| Program | Processes | State | Operations |
|---|---|---|---|
| `Project - 2/Q4` Raft | 5 Python nodes (`raft-election.py`), each paired with a Go log replicator (`server.go`), a test client | Python: state, term, voted_for, current_leader_id, log, commit_index, pending_acks, lock. Go: logs, commitIndex | AppendEntries, RequestVote, SubmitClientRequest, election timer, heartbeat threads; ReplicateLog |
| `Project - 2/Q3` Raft election | 5 Python nodes | state, term, voted_for, grpc_channels, a non-reentrant lock | AppendEntries, RequestVote, election and heartbeat threads, container stop and start |
| `Project - 2/Q2` two-phase commit | a coordinator (Python voting, Go decision) and 5 participants (same pair) | the votes; nothing in participants | RequestVote, SendVotes, GlobalDecision |
| `Project - 2/Q1_Assignment2` | the voting phase of Q2 alone | the votes | RequestVote |
| `Project - 1/Q5` SWIM | 5 nodes of a Python failure detector and a Go dissemination component, one joiner | detector's list; component's list, subscribers and their channels | Ping, IndirectPing, BroadcastFailure, StreamMembership, Join |
| `Project - 1/Q4` SWIM, first version | 5 Python nodes | one shared list | Ping, IndirectPing |
| `Project - 1/Q3` averages | clients and servers in Python and Go | none | Average, RunningAverage |

How parts interact, and what is hard about it:

* **Raft (Q4).** Nodes call one another with deadlines; a request whose caller
  has given up is still handled. Critical sections are short, so a thread often
  acts on what it read under an earlier lock: the winner of an election (209),
  a heartbeat (165-168), the entry of a submission (142). Replication to Go is a
  call per AppendEntries, heartbeat round and commit, and the calls overtake one
  another. The client repeats what was not answered in time. *Correct* means:
  single votes, deposed leaders without effect, logs that stay in order and come
  together, a Go side that runs only entries it has, up to an index a leader
  reported, and that is never ahead of its node.
* **Raft election (Q3).** Calls have no deadline and a heartbeat round makes
  them while it holds the lock. *Correct* means: terms only grow, a node leads
  only a term it asked for votes in, rounds and elections end, the leader's
  heartbeats go on.
* **Two-phase commit (Q2).** Two processes per container; the coordinator fails
  as a whole or not at all, participants at any time. *Correct* means atomic
  commit, and delivery where nothing failed.
* **SWIM (Q5).** A detector and the component it reports to keep two lists of
  the same thing; the stream between them drops and reorders updates and is read
  by a second thread of the detector. *Correct* means: stopped nodes are
  forgotten, running ones are kept under single faults, a node keeps itself, a
  detector never loses sight of a member.
* **SWIM, first version (Q4).** One list per node, which the detector thread
  shortens while handler threads search it; a helper that has dropped the target
  from its own list denies it without a ping; nodes start late and come back.
  *Correct* means the same: running nodes survive a lost call, stopped ones go.
* **Averages (Q3).** Streams hold the workers of the Python server; the Go
  server adds in 32 bits and takes a broken stream for a complete one. *Correct*
  means that every call ends for its client and that a shown result is the mean
  of what was entered, if the sum of it fits the server's integers.

`PROJECT.json` lists every component with its status and every hazard with its
line and the properties aimed at it.

## 2. Modules

| Module | Models |
|---|---|
| `RaftNode` | the Python node of Q4 and its network: elections, heartbeats, submissions |
| `LogReplicator` | the Go server of Q4, fed any requests |
| `RaftCluster` | `RaftNode` with an instance of `LogReplicator` for each node of `Paired` |
| `RaftClient` | the test client of Q4, closing `RaftNode` |
| `RaftElection` | the node of Q3, with containers that stop and start |
| `AtomicCommit` | the promise of two-phase commit: one vote each, commit only if all voted commit, abort only if some voted abort |
| `VotingPhase` | `Q1_Assignment2`: the votes and the coordinator's verdict |
| `TwoPhaseCommit` | Q2; implements `AtomicCommit` (`KeepsPromise`, `outcome <- decided`) and `VotingPhase` (`KeepsVotingPhase`) |
| `Dissemination` | the Go component of `Project - 1/Q5` |
| `Swim` | the detectors of Q5 with `Dissemination` |
| `SharedListDetector` | the detectors of `Project - 1/Q4` |
| `Averages` | both clients and both servers of `Project - 1/Q3` |
| `MC*` | values of the constants for TLC |
| `*_proofs` | theorems and their proofs; `RaftCluster_proofs` and `TwoPhaseCommit_proofs` also hold those about `LogReplicator` and `AtomicCommit` |

State variables have the names of the fields they stand for. Each action is one
critical section or one other step that no second thread can divide: a handler
that runs under the lock from start to end is one action, a thread that gives
the lock up between two sections has one action for each, and what it carried
over is kept in a record (`election`, `beat`, `tasks` in `RaftNode`; `campaign`,
`round` in `RaftElection`; `probe` in `Swim`; `handlers` and `spreads` in
`Dissemination`).

**RPCs of Q4.** A call answered in time is one action with its handler, which
also hands the reply over: whatever happens between the handler and the
caller's next section does not depend on the order of the two. A call that is
not answered in time ends for its caller, and its request joins a set of
requests that may be handled at any later time or never. Heartbeats and
submissions put all their requests in such a set at once, since their handling
by one peer does not wait for another. Requests are set members, so two equal
ones in flight count as one. `AppendEntries(m, inTime)` records the ack when the
caller still waits for it.

**Locks.** Sections that are single steps need no lock variable. `forwarding`
(Q4, 113) and `round` (Q3, 91-112) stand for the locks kept over calls.

**Go replicators.** A server affects neither Python nodes nor other servers, so
`RaftCluster` follows the servers of the nodes in `Paired` only. `owing` holds
nodes with a thread between the end of a locked section and `_replicate_to_go`;
a commit sends its snapshot under the lock (134).

**Test client of Q4.** `RaftNode`'s own clients submit anything at any time.
`RaftClient` sets `Contacts = Node` and says which calls there are: one
operation after the other, the nodes in a cycle, two seconds each. A call the
client gave up on stays in `calls` and may be handled at any later time, which
is how an operation gets into a log twice. An operation is a record of its
number and of the call that brought it, so that repeated ones can be told apart;
the program sees the number only.

**Two-phase commit.** The votes are collected in address order. `reporting` is
the time during which `SendVotes` writes the slice `s.votes` that `waitForVotes`
and `main` read without the lock: a reader that sees the length before the array
fails (`CoordinatorFails`), one that sees both goes on. A participant that hangs
is one that takes no step. The container of the coordinator ends with its Python
process (`docker-compose.yml` 9), so the coordinator is a sequence of phases.

**SWIM.** Lists keep the order of the `MEMBERSHIP` variable, so a set of node
ids stands for a list. A detector's container ends with the detector
(`Dockerfile` 27), which is how the `ValueError` of `failure_detector.py` 82
stops a node (`DetectorDies`). Streams are followed for the nodes whose detector
pings; a stream affects nothing else.

**First version of SWIM.** Here the order of the list matters: a handler
searches it place by place (`at`) while the detector may take a node out, and
the search then passes over one. A detector makes one call at a time, so the
search that serves it is part of its own `probe`. `raced` records that a node
was removed from a list under search; `OneLossTolerated` excludes those states,
because without that condition TLC finds a running node removed after a single
lost call. It also asks for more than two nodes that run all the time, so that
one can speak for another, and for fewer than `K` that do not, so that one of
them is among any `K` a detector asks: in a larger cluster with many stopped
nodes all `K` helpers may be stopped ones.

**Averages.** A handler has received a prefix of what its client sent (`count`).
Results are the pair of sum and count; division and digits are left out, except
that no numbers have no mean in Python (the call fails) and `NaN` in Go. The Go
server takes any error of `Recv` for the end of the stream. The Python server
has a queue of calls (`pool`) for its workers.

## 3. Runs

Deadlock is not checked: every bound below stops the system, and two-phase
commit ends by design.

| Run | Instance | Distinct states | What it shows |
|---|---|---|---|
| `raft_contested` | 3 nodes, candidates 1 and 2, terms 1-2, the client with 2 calls, one submission at a time, 2 entries | 2.4 M | `OneGrantPerTerm`, `RivalWinnersVoted`, `StaleLeaderCannotCommit`, `HeartbeatThreadsBounded`, `LogTermsOrdered`, `TermNeverFalls` with rival and stale leaders |
| `raft_stable` | 2 nodes, one leader, the client with 3 calls to both, 2 submissions at a time, 2 entries, heartbeats | 141 k | `OnlyHeadMisplaced`, `FollowerLogShape`, `LogNeverShrinks`, and `CommitIndexReported` of indexes that fall or run ahead; `MovedOnIsLogged`, `OperationsInOrder` of the client; `LogsConverge` under fairness |
| `raft_go` | 2 nodes, the replicator of node 2, 2 entries, 2 calls in flight to it | 346 k | `GoPanicsOnlyWhenShortFed`, `GoCommitIsLogged`, `GoLogFollowsNode` |
| `two_phase_commit` | 5 participants, 3 unreliable, 2 forced | 15 k | `KeepsPromise` and `KeepsVotingPhase` (refinements), `OwnVoteRespected`, `ReliableAreTold` |
| `raft_election` | 3 nodes, candidates 1 and 2, node 1 stops and starts once | 122 k | `TermNeverFalls`, `ElectedInItsTerm`, `RoundsEnd`, `ElectionsEnd` |
| `swim` | 3 nodes, 2 detectors, node 3 may stop, one lost call, late stream of node 1 | 2.2 M | `KeepsItself`, `DetectorKnowsMembers`, `OneFaultTolerated` |
| `swim_live` | 3 nodes and a joiner, detectors 1 and 4, nodes 2 and 3 may stop | 41 k | `StoppedIsForgotten` |
| `shared_list` | 4 nodes, 2 detectors that help each other, node 4 starts late and may stop once and come back, one lost call | 13 k | `OneLossTolerated`, `StoppedIsForgotten` |
| `averages` | 2 Go clients on one worker of the Python server, a Python client of the Go server, 4-bit integers, one broken call | 161 k | `AnswersAreMeans`, `CallsEnd` |
| `raft_two_leaders` | 3 nodes, candidates 1 and 2, one term, no entries | violation | two leaders of one term |
| `raft_go_panic` | 3 nodes, the replicator of node 2 | violation | the replicator indexes past its log |
| `raft_election_stuck` | 3 nodes, one term | violation | two leaders' rounds block each other for ever |

The type invariant of a module is checked by the first run that uses it. The
three violations are disagreements between the code and a line of its own
documents; `PROJECT.json` quotes the lines under `findings`.

Bounds, and why they are enough:

* `MaxTerm` 2: a second term is what deposes a leader, leaves stale requests
  behind and lets a node vote again. `MaxLog` 2: the second entry is the one a
  single-entry request can misplace. `MaxTasks` 2: two submissions overtake each
  other. `MaxCalls` 3: an operation, its repetition, and the next one.
  `MaxInFlight` limits when a heartbeat starts, not the requests in flight,
  which submissions add to. `MaxLate` bounds abandoned vote calls still to be
  handled; it is 0 in `raft_contested`, where they would double a space that
  the theorems of section 5 cover without it, and 8 in `raft_two_leaders`, more
  than the calls two candidates make.
* `raft_contested` sends no heartbeats (`MaxInFlight` 0): its subject is
  elections and single-entry requests; heartbeats are in `raft_stable` and
  `raft_go`. With one submission at a time no commit index falls in it, and no
  log of another leader replaces a non-empty one: the first is in `raft_stable`,
  the second only in the theorems (`LogsNeverShrink`, `EntriesInPlace`,
  `TermsOrderLogs`, `CommitIndexesReported`).
* `raft_stable` has two nodes: with one candidate a follower deals with nobody
  but the leader, so two followers bring no new order of steps between them. The
  majority of two nodes is one (208), so that commits need no ack and every
  timing of a commit occurs. `FollowersTrail`, `MovedOnStays` and
  `OperationsOrdered` are the same properties for any number of nodes.
* `Thread` = 1: one election thread per node at a time; an instance with two
  has more than five million states. `MaxStops` 1.
* Two-phase commit is run with the five participants it is deployed with.
* SWIM: `MaxLosses` 1 with one stop gives the two faults that take a running
  node off a list; with three nodes every detector has a helper. `K` 3 is the
  code's. `Late` names the nodes whose subscription is slower than the first
  failure (the detector sleeps five seconds before it pings). `swim_live` loses
  no call: its subject is stale lists, double failures and dying detectors.
* `swim_live` checks that a stopped node stays forgotten. The lists that bring it
  back for a while do occur in the instance; late streams would make it too
  large, and are in `swim`.
* `shared_list`: the list is in an order in which a removal moves the others
  under a search that has begun.
* `averages`: `Half` 8 stands for 2^31: two numbers wrap, and a third takes the
  sum back into range. One worker stands for ten, so that two streams compete.

## 4. Fairness

* `RaftNode!Fairness`: a candidate's heartbeat threads loop for ever (163), a
  lock that stays free is obtained, a forwarded submission returns within two
  seconds (113) and its node's lock with it. `Handles` says that the network
  delivers: an assumption about the environment. All of it is for `LogsConverge`.
  `raft_stable` has one candidate, so no lock is taken from it again and again.
  Nothing is assumed of elections: while nobody leads all logs are empty.
* `RaftClient` adds none: the client may stop at any time.
* `TwoPhaseCommit!Fairness`: only the coordinator's own steps after the votes
  are there, and the start and the handler of reliable participants. Nothing is
  assumed of voting: a participant that hangs stops the coordinator.
* `RaftElection!Fairness`: weak fairness of the calls of a heartbeat round (a
  callee whose lock is free answers, one that is down fails); strong fairness of
  an election thread's steps, since heartbeat rounds take and release the lock
  it waits for, with a second's sleep between two rounds (114).
* `Swim!Fairness`: calls end, threads and goroutines run on. Strong fairness of
  choosing a node that may be stopped: `random.choice` (31) leaves no member out
  for ever, with probability one. `SharedListDetector!Fairness` is the same for
  the first version; containers need not start again.
* `Averages!Fairness`: calls arrive, threads run on, and a user who has begun a
  stream ends it. Nothing else makes a worker free for those who wait.

## 5. Proofs

All are for any constants that satisfy the named assumptions of the module
(peers lists name every other node once; bounds are natural numbers).

`RaftNode_proofs`. `TypeInv` strengthens `TypeOK` by what types need: the tasks'
indices lie within the log, requests carry entries with the right types, the
callee of an election exists. Then

* `TermsNeverFall`, `LogsNeverShrink`: from the type invariant, action by action.
* `GrantsAgree`: invariant: a recorded grant's term is at most its voter's term,
  and if they are equal the voter's `votedFor` is its candidate. AppendEntries
  may raise the term and keep a stale `votedFor`, which only refuses more.
* `RivalsOnlyByVoting`: every vote of an election is in `grants`. Two winners of
  a term share no voter by `GrantsAgree`; in an odd cluster two majorities of
  disjoint voters leave no room unless one voted for the other (a counting
  argument with the cardinality theorems of the library).
* `EntriesInPlace`: in every log, and in every request's log, entries after the
  first have their position as index.
* `TermsOrderLogs`: the same for the order of terms, with the term of the
  request as an upper bound of those in its log.
* `CommitIndexesReported`: every commit index on a node or in a request is 0 or
  that of an operation some leader reported.
* `FewHeartbeatThreads`: an election under way has a term of its own, and starts
  at most one thread.
* `FollowersTrail`: with one candidate, nobody else leads, submits or sends, and
  every log and request was taken from the leader's log, which only grows.
* `StaleLeadersFail`: for a submission that was sent, its acks come from nodes
  whose term had not passed the request's when it was sent, so they lie outside
  `ahead`; counting gives the majority.

`RaftClient_proofs`: `ClientImplementsNodes` is the refinement
`ClientSpec => Spec`, so that all theorems about `RaftNode` hold of the closed
system. `OrderInv` says, for a single leader, that tasks and reports are about
their place in its log, that every operation the client has moved on from was
reported, and that nothing under way is ahead of the client: `MovedOnStays` and
`OperationsOrdered` follow, since an operation is appended only after the one
before it is in the log.

`RaftCluster_proofs` starts with the Go server alone. `ServerPanics`: unless it
was fed short, its commit index is within its log, which the longest-log rule
preserves. Then the composition implements both its parts
(`ClusterImplementsNodes`, `ClusterImplementsReplicators`), which gives
`ReplicatorPanics` and `ClusterTypeCorrect`. `ReplicatorsRunLogged` adds that a
server which runs has every entry up to its commit index (`RunsWhatItHas`), and
that requests to servers carry indexes which a leader reported and has
(`FedInv`, `ReportsLogged`). `ReplicatorsFollow` holds under any leaders: a node
replaces its log only by a longer one (`ReplacedByLonger`), so that what a server
has or is sent is shorter than its node's log or equal to it (`TrailInv`). With
one leader more is known: what a server has was the beginning of its node's log,
or is one entry (`ReplicatorsBegin`). With `FollowersTrail` this gives
`ReplicatorsAgree`: two servers have the same entry at every index from 2 on. At index 1 they need not:
a follower that missed the first entry stores the second in its place
(`OnlyHeadMisplaced`), and told that index 1 is committed, its server runs entry 2.

`RaftElection_proofs`: `TypeCorrect`, with the fact that a waiting thread has
asked a peer; `TermsNeverFall`; `ElectedInTheirTerm`, for any number of election
threads, from the invariant `Asks`: a candidate has a thread that asks for votes
in its term or is about to, since whatever raises the term makes it a follower.
With several threads the winner may be another one of them. `FormerLeadersStayOut`
is about what the program does and no document wants (section 6).

`TwoPhaseCommit_proofs` starts with the promise alone. `Atomicity`: a commit
means all votes are commit, an abort that one is abort, and votes do not change.
`Atomic` is the refinement `Spec => Promise!Spec` for
any participants. Its invariant ties `votes` to `cast` in address order, says
that a decision was made from a complete list of votes, that `decided` is the
decision, and that participants not yet called have not voted. `OwnVotes`
follows from the same invariant, and `BuiltOnVotingPhase` is the refinement of
`VotingPhase`. `Agreed` carries `Atomicity` over to the program.

`Swim_proofs`: the component's list only shrinks, so every list read from it and
still on its way to the detector has all its members; a report that has passed
its first section is done; what a detector took off its own list is in a report
until the component has taken it off. From this `TypeCorrect`,
`NodesKeepThemselves` and `DetectorsKnowMembers`. `OneFaultSurvived`: while
there was at most one fault, a running node is under suspicion only if the fault
was its lost ping; then all nodes run, there is a helper (a counting argument),
and it confirms.

`SharedListDetector_proofs`: a detector that waits for a helper waits for one
that runs and that it chose (`TypeCorrect`). `OneLossSurvived` takes an invariant
in three parts, all under the condition of `OneLossTolerated`: every list names
every steady node (`AllListed`); a detector that suspects a steady node has lost
a call for it, and of those it asked all steady ones are left to ask (`Covered`);
a search for a steady node has not passed it (`Ahead`). The second part cannot
just say that a steady helper is left, which a stop may falsify: it remembers a
set of `K` nodes, or of everybody known, that was asked. Counting (`SomeHelperLeft`)
then finds a steady one in it, and since the one call is already lost, that
helper is reached, finds the target and has it answer.

`Averages_proofs`: `TypeCorrect` needs that the queue of the Python server holds
each waiting call once, so that taking one makes it busy and no other. For
`MeansAnswered`, which in the Go server is about totals that fit, the invariant
says that a handler's sum is congruent, modulo 2 * `Half`, to the sum of the
numbers it has received, and equal to it in the Python server. Equality at the end then depends on the total alone, since two
congruent numbers that both fit are the same. Sums of streams of any length are
a recursive function; that it exists, and what one more number adds, is proved
by an induction over the naturals taken from `WFMin` and `NatLessThanWellFounded`
(`Smallest`, `Induction`), because the induction theorems of the library have an
operator parameter.

Only model-checked: the liveness properties (`ReliableAreTold`, `RoundsEnd`,
`ElectionsEnd`, `LogsConverge`, `StoppedIsForgotten`, `CallsEnd`), which are out
of the prover's reach. Every invariant and every action property that a passing
run checks is proved for all values of the constants.

## 6. Not modelled

* Restarts of Q4 nodes: nothing is persisted, and neither code nor documents
  say what a restarted node may expect. Q3's stop and start are modelled.
* The ten-worker thread pools of Raft and SWIM; links that break between running
  containers of Q3; a broken stream on the local host in Q5; restarts of Q5
  nodes (a node that starts again has its full list and is on nobody else's).
* `AckReplication` (Q4) and `JoinCluster` (Q5) have no callers. `Join` (Q5)
  changes no state: a joiner is on nobody's list, which
  `Q6-test_cases.txt` 5 expects otherwise.
* The coordinator of Q2 prints that all participants received the decision (75)
  even if calls failed; `ReliableAreTold` says who is told.
* Of the generated stubs, only which methods a server has handlers for
  (`Registered`); serialisation and the static classes nobody calls are left out.
* Docker networks, log texts, shown digits, pauses between operations.

Two disagreements with the documents that no run exhibits:

* `Project - 2/Q3/Readme.md` 83 has a candidate request votes from its peers;
  the code asks only peers it has no channel to (143). In three nodes or more, a
  leader that called all its peers and was deposed cannot win again before it is
  restarted. `FormerLeadersStayOut` proves that; it is not a promise.
* `Project - 1/Q3/pranav/Readme.md` 80 has Average calculate the average of the
  two numbers; the server adds them in 32 bits (20, 38), so that the result is
  wrong when the sum does not fit. `AnswersAreMeans` says nothing of such sums.

## 7. Plan

Done: all six programs modelled, the Q4 nodes composed with their replicators
and with their client, two abstract specifications of Q2 implemented by it,
every safety property of every model proved.

Left, in this order:

1. Restarts of Q4 nodes, if the code comes to say what they keep.
2. An instance of `RaftElection` with two election threads per node, which needs
   a smaller model of the heartbeat rounds.
3. One model of `Thread` pools for the Python servers, as `Averages` has.
