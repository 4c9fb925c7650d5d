-------------------------- MODULE RaftCluster_proofs --------------------------
(* Proofs about RaftCluster: what the Python nodes do with their Go        *)
(* replicators is what they do alone, and the replicators are fed by them. *)
EXTENDS RaftCluster, RaftNode_proofs

-----------------------------------------------------------------------------
(* A replicator alone: what holds of one whatever it is sent.             *)

LEMMA LongestType ==
  ASSUME NEW own \in Seq(Entry), NEW sent \in Seq(Entry)
  PROVE  /\ Go!Longest(own, sent) \in Seq(Entry)
         /\ Len(own) \in Nat /\ Len(sent) \in Nat
         /\ Len(Go!Longest(own, sent)) \in Nat
         /\ Len(Go!Longest(own, sent)) >= Len(own)
         /\ Len(Go!Longest(own, sent)) >= Len(sent)
  <1>1. Len(own) \in Nat /\ Len(sent) \in Nat
    OBVIOUS
  <1> QED
    BY <1>1 DEF Go!Longest

LEMMA ServerTypeStep == Go!TypeOK /\ [Go!Next]_(Go!vars) => Go!TypeOK'
  <1> SUFFICES ASSUME Go!TypeOK, [Go!Next]_(Go!vars) PROVE Go!TypeOK'
    OBVIOUS
  <1>1. ASSUME NEW s \in Paired, NEW r \in Go!Request, Go!ReplicateLog(s, r)
        PROVE  Go!TypeOK'
    <2>1. r.log \in Seq(Entry) /\ r.commitIndex \in Nat
      BY DEF Go!Request
    <2>2. goLogs' \in [Paired -> Seq(Entry)]
      BY <1>1, <2>1, LongestType DEF Go!ReplicateLog, Go!TypeOK
    <2>3. goCommitIndex' \in [Paired -> Nat]
      BY <1>1, <2>1 DEF Go!ReplicateLog, Go!TypeOK, Go!Forward
    <2>4. goRunning' \in [Paired -> BOOLEAN]
      <3>1. goRunning' = [goRunning EXCEPT
                          ![s] = Go!Forward(goCommitIndex[s], r.commitIndex)
                                   <= Len(Go!Longest(goLogs[s], r.log))]
        BY <1>1 DEF Go!ReplicateLog
      <3>2. goRunning \in [Paired -> BOOLEAN]
        BY DEF Go!TypeOK
      <3>3. (Go!Forward(goCommitIndex[s], r.commitIndex)
               <= Len(Go!Longest(goLogs[s], r.log))) \in BOOLEAN
        OBVIOUS
      <3> QED
        BY <3>1, <3>2, <3>3, Zenon
    <2>5. goShortFed' \in [Paired -> BOOLEAN]
      <3>1. goShortFed' = [goShortFed EXCEPT ![s] = @ \/ Go!Short(r)]
        BY <1>1 DEF Go!ReplicateLog
      <3>2. goShortFed \in [Paired -> BOOLEAN]
        BY DEF Go!TypeOK
      <3> QED
        BY <3>1, <3>2, Zenon DEF Go!Short
    <2> QED
      BY <2>2, <2>3, <2>4, <2>5 DEF Go!TypeOK
  <1>2. CASE UNCHANGED Go!vars
    BY <1>2 DEF Go!vars, Go!TypeOK
  <1> QED
    BY <1>1, <1>2 DEF Go!Next

LEMMA ServerPanicStep ==
  Go!TypeOK /\ Go!PanicsOnlyWhenShortFed /\ [Go!Next]_(Go!vars)
    => Go!PanicsOnlyWhenShortFed'
  <1> SUFFICES ASSUME Go!TypeOK, Go!PanicsOnlyWhenShortFed, [Go!Next]_(Go!vars)
               PROVE  Go!PanicsOnlyWhenShortFed'
    OBVIOUS
  <1>1. ASSUME NEW s \in Paired, NEW r \in Go!Request, Go!ReplicateLog(s, r)
        PROVE  Go!PanicsOnlyWhenShortFed'
    <2> DEFINE kept == Go!Longest(goLogs[s], r.log)
               upTo == Go!Forward(goCommitIndex[s], r.commitIndex)
    <2>1. /\ r.log \in Seq(Entry) /\ r.commitIndex \in Nat
          /\ goLogs[s] \in Seq(Entry) /\ goCommitIndex[s] \in Nat
      BY DEF Go!Request, Go!TypeOK
    <2>2. /\ goLogs'[s] = kept /\ goCommitIndex'[s] = upTo
          /\ goRunning'[s] = (upTo <= Len(kept))
          /\ goShortFed'[s] = (goShortFed[s] \/ Go!Short(r))
      BY <1>1, Zenon DEF Go!ReplicateLog, Go!TypeOK
    <2>3. ASSUME NEW q \in Paired, q # s
          PROVE  /\ goLogs'[q] = goLogs[q] /\ goCommitIndex'[q] = goCommitIndex[q]
                 /\ goRunning'[q] = goRunning[q] /\ goShortFed'[q] = goShortFed[q]
      BY <1>1, <2>3, Zenon DEF Go!ReplicateLog, Go!TypeOK
    <2>4. ASSUME ~goShortFed[s], ~Go!Short(r) PROVE upTo <= Len(kept)
      <3>1. goCommitIndex[s] <= Len(goLogs[s]) /\ r.commitIndex <= Len(r.log)
        BY <2>1, <2>4, LongestType DEF Go!PanicsOnlyWhenShortFed, Go!Short
      <3> QED
        BY <2>1, <3>1, LongestType DEF Go!Forward
    <2>5. goShortFed'[s] \/ (goRunning'[s] /\ goCommitIndex'[s] <= Len(goLogs'[s]))
      <3> HIDE DEF kept, upTo
      <3> QED
        BY <2>2, <2>4, Zenon
    <2> QED
      BY <2>3, <2>5, Zenon DEF Go!PanicsOnlyWhenShortFed
  <1>2. CASE UNCHANGED Go!vars
    BY <1>2 DEF Go!vars, Go!PanicsOnlyWhenShortFed
  <1> QED
    BY <1>1, <1>2 DEF Go!Next

\* A server that runs has every entry it runs through.
RunsWhatItHas ==
  \A n \in Paired : goRunning[n] => goCommitIndex[n] <= Len(goLogs[n])

LEMMA ServerRunsStep ==
  Go!TypeOK /\ RunsWhatItHas /\ [Go!Next]_(Go!vars) => RunsWhatItHas'
  <1> SUFFICES ASSUME Go!TypeOK, RunsWhatItHas, [Go!Next]_(Go!vars)
               PROVE  RunsWhatItHas'
    OBVIOUS
  <1>1. ASSUME NEW s \in Paired, NEW r \in Go!Request, Go!ReplicateLog(s, r)
        PROVE  RunsWhatItHas'
    <2> DEFINE kept == Go!Longest(goLogs[s], r.log)
               upTo == Go!Forward(goCommitIndex[s], r.commitIndex)
    <2>1. /\ goLogs'[s] = kept /\ goCommitIndex'[s] = upTo
          /\ goRunning'[s] = (upTo <= Len(kept))
      BY <1>1, Zenon DEF Go!ReplicateLog, Go!TypeOK
    <2>2. ASSUME NEW q \in Paired, q # s
          PROVE  /\ goLogs'[q] = goLogs[q] /\ goCommitIndex'[q] = goCommitIndex[q]
                 /\ goRunning'[q] = goRunning[q]
      BY <1>1, <2>2, Zenon DEF Go!ReplicateLog, Go!TypeOK
    <2> HIDE DEF kept, upTo
    <2> QED
      BY <2>1, <2>2, Zenon DEF RunsWhatItHas
  <1>2. CASE UNCHANGED Go!vars
    BY <1>2 DEF Go!vars, RunsWhatItHas
  <1> QED
    BY <1>1, <1>2 DEF Go!Next

\* Whatever a server is sent, in whatever order, it panics only after a request
\* whose commit index is past the log it came with.
THEOREM ServerPanics == Go!Spec => []Go!PanicsOnlyWhenShortFed
  <1>1. Go!Init => Go!TypeOK /\ Go!PanicsOnlyWhenShortFed
    BY DEF Go!Init, Go!TypeOK, Go!PanicsOnlyWhenShortFed
  <1> QED
    BY <1>1, ServerTypeStep, ServerPanicStep, PTL DEF Go!Spec

-----------------------------------------------------------------------------
(* The two parts.                                                          *)

LEMMA NodeStepOfCluster == [ClusterNext]_clusterVars => [Next]_vars
  <1> SUFFICES ASSUME [ClusterNext]_clusterVars PROVE [Next]_vars
    OBVIOUS
  <1>1. CASE UNCHANGED clusterVars
    BY <1>1 DEF clusterVars
  <1>2. ASSUME NEW n \in Node, ReplicateToGo(n) PROVE UNCHANGED vars
    BY <1>2 DEF ReplicateToGo
  <1>3. ASSUME NEW r \in goRequests, GoReplicateLog(r) PROVE UNCHANGED vars
    BY <1>3 DEF GoReplicateLog
  <1>4. CASE ClusterNext
    BY <1>2, <1>3, <1>4 DEF ClusterNext, Next
  <1> QED
    BY <1>1, <1>4

\* A call to a replicator that is new holds what its node then has.
Fed ==
  /\ UNCHANGED goVars /\ owing' \subseteq Paired
  /\ \A r \in goRequests' : r \in goRequests \/ \E n \in Paired : r = Snapshot(n)'

LEMMA CallsOfCluster ==
  ASSUME owing \subseteq Paired, [ClusterNext]_clusterVars
  PROVE  Fed \/ \E r \in goRequests : GoReplicateLog(r)
  <1>1. ASSUME UNCHANGED <<owing, goRequests, goVars>> PROVE Fed
    BY <1>1 DEF Fed
  <1>2. ASSUME NEW n \in Node, ThenOwes(n) PROVE Fed
    BY <1>2 DEF ThenOwes, Fed
  <1>3. ASSUME NEW n \in Node, ThenSends(n) PROVE Fed
    BY <1>3 DEF ThenSends, Fed
  <1>4. ASSUME NEW n \in Node, ReplicateToGo(n) PROVE Fed
    <2>1. /\ n \in Paired /\ UNCHANGED goVars /\ owing' \subseteq Paired
          /\ goRequests' = goRequests \cup {Snapshot(n)}
      BY <1>4 DEF ReplicateToGo
    <2>2. Snapshot(n)' = Snapshot(n)
      BY <1>4 DEF ReplicateToGo, vars, logVars, Snapshot
    <2> QED
      BY <2>1, <2>2 DEF Fed
  <1>5. CASE UNCHANGED clusterVars
    BY <1>1, <1>5 DEF clusterVars
  <1>6. CASE ClusterNext
    <2>1. ASSUME NEW m \in appendRequests, NEW inTime \in BOOLEAN,
                 AppendEntries(m, inTime), ThenOwes(m.to)
          PROVE  Fed
      BY <2>1 DEF ThenOwes, Fed
    <2>2. ASSUME NEW t \in tasks, CommitOperation(t), ThenSends(t.node)
          PROVE  Fed
      BY <2>2 DEF ThenSends, Fed
    <2> QED
      BY <1>1, <1>2, <1>4, <1>6, <2>1, <2>2 DEF ClusterNext
  <1> QED
    BY <1>5, <1>6

-----------------------------------------------------------------------------
(* Types, and the two refinements.                                         *)

CallType == [to : Paired, log : Seq(Entry), commitIndex : Nat]
PairInv == owing \subseteq Paired /\ goRequests \subseteq CallType

LEMMA PairStep ==
  ASSUME PairInv, TypeInv', [ClusterNext]_clusterVars
  PROVE  PairInv'
  <1>1. ASSUME Fed PROVE PairInv'
    <2>1. \A n \in Paired : Snapshot(n)' \in CallType
      BY PairedAssumption DEF Snapshot, CallType, TypeInv, TypeOK
    <2> QED
      BY <1>1, <2>1 DEF Fed, PairInv
  <1>2. ASSUME NEW r \in goRequests, GoReplicateLog(r) PROVE PairInv'
    BY <1>2 DEF GoReplicateLog, PairInv
  <1> QED
    BY <1>1, <1>2, CallsOfCluster DEF PairInv

\* A replicator is fed requests by its node, so it does what it does alone.
LEMMA ReplicatorStep ==
  ASSUME PairInv, [ClusterNext]_clusterVars
  PROVE  [Go!Next]_(Go!vars)
  <1>1. ASSUME Fed PROVE UNCHANGED Go!vars
    BY <1>1 DEF Fed, goVars, Go!vars
  <1>2. ASSUME NEW r \in goRequests, GoReplicateLog(r) PROVE Go!Next
    <2> DEFINE q == [log |-> r.log, commitIndex |-> r.commitIndex]
    <2>1. r.to \in Paired /\ q \in Go!Request
      BY DEF PairInv, CallType, Go!Request
    <2>2. Go!ReplicateLog(r.to, q)
      BY <1>2
      DEF GoReplicateLog, Go!ReplicateLog, Go!Longest, Go!Forward, Go!Short
    <2> QED
      BY <2>1, <2>2 DEF Go!Next
  <1> QED
    BY <1>1, <1>2, CallsOfCluster DEF PairInv

LEMMA ClusterStart ==
  ClusterInit => Init /\ TypeInv /\ PairInv /\ Go!Init
  BY InitType DEF ClusterInit, PairInv, Go!Init

\* The cluster implements the nodes without replicators: what is proved of them
\* holds with replicators, too.
THEOREM ClusterImplementsNodes == ClusterSpec => Spec
  <1> QED
    BY ClusterStart, NodeStepOfCluster, PTL DEF ClusterSpec, Spec

LEMMA ClusterInvariant == ClusterSpec => [](TypeInv /\ PairInv)
  <1>1. TypeInv /\ PairInv /\ [ClusterNext]_clusterVars => (TypeInv /\ PairInv)'
    BY NodeStepOfCluster, TypeStep, PairStep
  <1> QED
    BY <1>1, ClusterStart, PTL DEF ClusterSpec

\* And the replicators it feeds are those that may be fed anything.
THEOREM ClusterImplementsReplicators == ClusterSpec => Go!Spec
  <1>1. TypeInv /\ PairInv /\ [ClusterNext]_clusterVars
          => [Go!Next]_(Go!vars)
    BY ReplicatorStep
  <1> QED
    BY <1>1, ClusterStart, ClusterInvariant, PTL DEF ClusterSpec, Go!Spec

\* However the calls of a node's threads overtake one another, its replicator
\* panics only after one whose commit index was past its own log.
THEOREM ReplicatorPanics == ClusterSpec => []GoPanicsOnlyWhenShortFed
  BY ClusterImplementsReplicators, ServerPanics, PTL
  DEF GoPanicsOnlyWhenShortFed

\* Every variable of the cluster has its type.
THEOREM ClusterTypeCorrect == ClusterSpec => []ClusterTypeOK
  <1>1. Go!Init => Go!TypeOK
    BY DEF Go!Init, Go!TypeOK
  <1>2. TypeInv /\ PairInv /\ Go!TypeOK => ClusterTypeOK
    BY DEF TypeInv, PairInv, CallType, ClusterTypeOK
  <1>3. Go!Spec => []Go!TypeOK
    BY <1>1, ServerTypeStep, PTL DEF Go!Spec
  <1> QED
    BY <1>2, <1>3, ClusterImplementsReplicators, ClusterInvariant, PTL

-----------------------------------------------------------------------------
(* Commit indexes on their way.                                            *)

\* What was reported stays reported, and is in the log of who reported it.
ReportsLogged ==
  \A r \in reported : r.node \in Node /\ r.index \in 1..Len(log[r.node])

LEMMA ReportsStep ==
  ASSUME TypeInv, ReportsLogged, [Next]_vars
  PROVE  ReportsLogged' /\ reported \subseteq reported'
  <1>1. log \in [Node -> Seq(Entry)] /\ log' \in [Node -> Seq(Entry)]
    BY TypeStep DEF TypeInv, TypeOK
  <1>2. \A n \in Node : /\ Len(log[n]) \in Nat /\ Len(log'[n]) \in Nat
                        /\ Len(log'[n]) >= Len(log[n])
    BY <1>1, LogsGrow
  <1>3. ASSUME reported' = reported
        PROVE  ReportsLogged' /\ reported \subseteq reported'
    BY <1>2, <1>3 DEF ReportsLogged
  <1>4. ASSUME NEW t \in tasks, CommitOperation(t)
        PROVE  ReportsLogged' /\ reported \subseteq reported'
    <2> DEFINE new == [node |-> t.node, index |-> t.index, op |-> t.op,
                       ahead |-> t.ahead]
    <2>1. reported' = reported \cup {new} /\ log' = log
      BY <1>4 DEF CommitOperation
    <2>2. new.node \in Node /\ new.index \in 1..Len(log[new.node])
      BY TaskTyped DEF TaskTypes
    <2> HIDE DEF new
    <2> QED
      BY <2>1, <2>2 DEF ReportsLogged
  <1> QED
    BY <1>3, <1>4
    DEF Next, StartElection, VoteAnswered, VoteAbandoned, LateVoteRequest,
        RequestVote, WinElection, LoseElection, HeartbeatCheck, HeartbeatSend,
        RejectAppendEntries, AppendEntries, AppendOperation,
        BroadcastAppendOne, FailOperation, ForwardSubmission, ForwardReturns,
        vars, history

\* The commit indexes sent to and held by replicators were reported.
FedInv ==
  /\ \A r \in goRequests : ReportedAt(r.commitIndex)
  /\ \A n \in Paired : ReportedAt(goCommitIndex[n])

LEMMA FedStep ==
  ASSUME PairInv, FedInv, CommitInv', reported \subseteq reported',
         goCommitIndex \in [Paired -> Nat], [ClusterNext]_clusterVars
  PROVE  FedInv'
  <1> USE DEF FedInv, ReportedAt
  <1>1. ASSUME Fed PROVE FedInv'
    <2>1. \A n \in Paired : Snapshot(n)'.commitIndex = commitIndex'[n]
      BY DEF Snapshot
    <2>2. \A n \in Paired : ReportedAt(commitIndex[n])'
      BY PairedAssumption DEF CommitInv
    <2>3. \A r \in goRequests' : ReportedAt(r.commitIndex)'
      BY <1>1, <2>1, <2>2 DEF Fed
    <2> QED
      BY <1>1, <2>3 DEF Fed, goVars
  <1>2. ASSUME NEW r \in goRequests, GoReplicateLog(r) PROVE FedInv'
    <2>1. /\ goRequests' \subseteq goRequests
          /\ goCommitIndex' = [goCommitIndex EXCEPT ![r.to] =
                                 Go!Forward(@, r.commitIndex)]
      BY <1>2 DEF GoReplicateLog, Go!ReplicateLog
    <2>2. \A n \in Paired : goCommitIndex'[n] \in {r.commitIndex, goCommitIndex[n]}
      BY <2>1 DEF Go!Forward
    <2> QED
      BY <2>1, <2>2
  <1> QED
    BY <1>1, <1>2, CallsOfCluster DEF PairInv

\* A replicator that runs has every entry up to its commit index, and that
\* index was reported by a leader that has the entry.
THEOREM ReplicatorsRunLogged == ClusterSpec => []GoCommitIsLogged
  <1> DEFINE Inv == CommitInv /\ ReportsLogged /\ FedInv
  <1>1. ClusterInit => Inv
    BY DEF ClusterInit, Init, Go!Init, CommitInv, ReportsLogged, FedInv,
           ReportedAt
  <1>2. /\ TypeInv /\ PairInv /\ ClusterTypeOK /\ Inv
        /\ [ClusterNext]_clusterVars
        => Inv'
    <2> SUFFICES ASSUME TypeInv, PairInv, ClusterTypeOK, Inv,
                        [ClusterNext]_clusterVars
                 PROVE  Inv'
      OBVIOUS
    <2>1. CommitInv' /\ ReportsLogged' /\ reported \subseteq reported'
      BY NodeStepOfCluster, CommitStep, ReportsStep
    <2>2. goCommitIndex \in [Paired -> Nat]
      BY DEF ClusterTypeOK, Go!TypeOK
    <2> QED
      BY <2>1, <2>2, FedStep
  <1>3. Go!Init => Go!TypeOK /\ RunsWhatItHas
    BY DEF Go!Init, Go!TypeOK, RunsWhatItHas
  <1>4. Go!Spec => []RunsWhatItHas
    BY <1>3, ServerTypeStep, ServerRunsStep, PTL DEF Go!Spec
  <1>5. Inv /\ RunsWhatItHas => GoCommitIsLogged
    <2> SUFFICES ASSUME Inv, RunsWhatItHas, NEW n \in Paired,
                        goCommitIndex[n] # 0
                 PROVE  \E r \in reported : /\ r.index = goCommitIndex[n]
                                            /\ r.index <= Len(log[r.node])
      BY DEF GoCommitIsLogged, RunsWhatItHas
    <2>1. PICK r \in reported : r.index = goCommitIndex[n]
      BY DEF FedInv, ReportedAt
    <2>2. r.index \in 1..Len(log[r.node])
      BY <2>1 DEF ReportsLogged
    <2> QED
      BY <2>1, <2>2
  <1> HIDE DEF Inv
  <1> QED
    BY <1>1, <1>2, <1>4, <1>5, ClusterInvariant, ClusterTypeCorrect,
       ClusterImplementsReplicators, PTL
    DEF ClusterSpec

-----------------------------------------------------------------------------
(* Logs on their way, under any leaders.                                   *)

\* s is no longer than whole, and whole itself if it is as long.
Trails(s, whole) ==
  /\ Len(s) <= Len(whole)
  /\ Len(s) = Len(whole) => s = whole

\* A log that is replaced is replaced by a longer one.
LEMMA ReplacedByLonger ==
  ASSUME TypeInv, [Next]_vars, NEW n \in Node
  PROVE  log'[n] = log[n] \/ Len(log'[n]) > Len(log[n])
  <1>0. log \in [Node -> Seq(Entry)]
    BY DEF TypeInv, TypeOK
  <1>1. ASSUME NEW m \in appendRequests, NEW inTime \in BOOLEAN,
               AppendEntries(m, inTime)
        PROVE  log'[n] = log[n] \/ Len(log'[n]) > Len(log[n])
    <2>1. log' = [log EXCEPT ![m.to] = Merge(@, m.log)]
      BY <1>1 DEF AppendEntries
    <2> QED
      BY <1>0, <2>1 DEF Merge
  <1>2. ASSUME NEW m \in Node, NEW op \in Op, AppendOperation(m, op)
        PROVE  log'[n] = log[n] \/ Len(log'[n]) > Len(log[n])
    <2> DEFINE e == [op |-> op, term |-> term[m], index |-> Len(log[m]) + 1]
    <2>1. log' = [log EXCEPT ![m] = Append(@, e)]
      BY <1>2 DEF AppendOperation, NextIndex
    <2> HIDE DEF e
    <2>2. log'[n] = log[n] \/ log'[n] = Append(log[n], e)
      BY <1>0, <2>1
    <2>3. log[n] \in Seq(Entry) /\ Len(Append(log[n], e)) = Len(log[n]) + 1
      BY <1>0
    <2> QED
      BY <2>2, <2>3
  <1>3. ASSUME log' = log PROVE log'[n] = log[n]
    BY <1>3
  <1> QED
    BY <1>1, <1>2, <1>3
    DEF Next, StartElection, VoteAnswered, VoteAbandoned, LateVoteRequest,
        WinElection, LoseElection, HeartbeatCheck, HeartbeatSend,
        RejectAppendEntries, BroadcastAppendOne, CommitOperation,
        FailOperation, ForwardSubmission, ForwardReturns, vars, logVars

LEMMA TrailsKept ==
  ASSUME TypeInv, TypeInv', [Next]_vars, NEW n \in Node, NEW s \in Seq(Entry),
         Trails(s, log[n])
  PROVE  Trails(s, log'[n])
  <1>1. /\ Len(s) \in Nat /\ Len(log[n]) \in Nat /\ Len(log'[n]) \in Nat
    BY DEF TypeInv, TypeOK
  <1> QED
    BY <1>1, ReplacedByLonger DEF Trails

TrailInv ==
  /\ \A r \in goRequests : Trails(r.log, log[r.to])
  /\ \A n \in Paired : Trails(goLogs[n], log[n])

LEMMA TrailStep ==
  ASSUME TypeInv, TypeInv', PairInv, TrailInv,
         goLogs \in [Paired -> Seq(Entry)], [ClusterNext]_clusterVars
  PROVE  TrailInv'
  <1>1. /\ \A r \in goRequests : /\ r.to \in Node /\ r.to \in Paired
                                 /\ r.log \in Seq(Entry)
        /\ Paired \subseteq Node
    BY PairedAssumption DEF PairInv, CallType
  <1>2. /\ \A r \in goRequests : Trails(r.log, log'[r.to])
        /\ \A n \in Paired : Trails(goLogs[n], log'[n])
    BY <1>1, NodeStepOfCluster, TrailsKept DEF TrailInv
  <1>3. ASSUME Fed PROVE TrailInv'
    <2>1. \A n \in Paired : LET r == Snapshot(n)' IN Trails(r.log, log'[r.to])
      <3>1. \A n \in Paired : log'[n] \in Seq(Entry)
        BY <1>1 DEF TypeInv, TypeOK
      <3> QED
        BY <3>1 DEF Snapshot, Trails
    <2> QED
      BY <1>2, <1>3, <2>1 DEF Fed, goVars, TrailInv
  <1>4. ASSUME NEW r \in goRequests, GoReplicateLog(r) PROVE TrailInv'
    <2>1. /\ goRequests' \subseteq goRequests
          /\ goLogs' = [goLogs EXCEPT ![r.to] = Go!Longest(@, r.log)]
      BY <1>4 DEF GoReplicateLog, Go!ReplicateLog
    <2>2. \A n \in Paired : goLogs'[n] = goLogs[n] \/ (n = r.to /\ goLogs'[n] = r.log)
      BY <1>1, <2>1 DEF Go!Longest
    <2> QED
      BY <1>2, <2>1, <2>2 DEF TrailInv
  <1> QED
    BY <1>3, <1>4, CallsOfCluster DEF PairInv

\* Whatever overtakes what, and whoever leads, a replicator is never ahead of
\* its node, and has the node's log when it has caught up with it.
THEOREM ReplicatorsFollow == ClusterSpec => []GoLogFollowsNode
  <1>1. ClusterInit => TrailInv
    BY PairedAssumption DEF ClusterInit, Init, Go!Init, TrailInv, Trails
  <1>2. /\ TypeInv /\ TypeInv' /\ PairInv /\ ClusterTypeOK /\ TrailInv
        /\ [ClusterNext]_clusterVars
        => TrailInv'
    BY TrailStep DEF ClusterTypeOK, Go!TypeOK
  <1>3. TrailInv => GoLogFollowsNode
    BY DEF TrailInv, Trails, GoLogFollowsNode
  <1> QED
    BY <1>1, <1>2, <1>3, ClusterInvariant, ClusterTypeCorrect, PTL
    DEF ClusterSpec

-----------------------------------------------------------------------------
(* Logs on their way, under a single leader.                               *)

\* s was the beginning of a log, or one entry.
Begins(s, whole) ==
  \/ \E i \in 0..Len(whole) : s = SubSeq(whole, 1, i)
  \/ Len(s) = 1

LEMMA BeginsItself == ASSUME NEW s \in Seq(Entry) PROVE Begins(s, s)
  <1>1. SubSeq(s, 1, Len(s)) = s /\ Len(s) \in 0..Len(s)
    OBVIOUS
  <1> QED
    BY <1>1 DEF Begins

LEMMA BeginsLonger ==
  ASSUME NEW whole \in Seq(Entry), NEW e \in Entry, NEW s, Begins(s, whole)
  PROVE  Begins(s, Append(whole, e))
  <1>1. Len(Append(whole, e)) = Len(whole) + 1 /\ Len(whole) \in Nat
    OBVIOUS
  <1>2. ASSUME NEW i \in 0..Len(whole), s = SubSeq(whole, 1, i)
        PROVE  s = SubSeq(Append(whole, e), 1, i)
    BY <1>2
  <1> QED
    BY <1>1, <1>2 DEF Begins

\* Of two logs taken from the same leader's, the longer may replace the other.
LEMMA BeginsReplaced ==
  ASSUME NEW leaders \in Seq(Entry), NEW old \in Seq(Entry),
         NEW new \in Seq(Entry), TakenFrom(old, leaders),
         TakenFrom(new, leaders), Len(new) > Len(old),
         NEW s, Begins(s, old)
  PROVE  Begins(s, new)
  <1>1. CASE Len(s) = 1
    BY <1>1 DEF Begins
  <1>2. ASSUME NEW i \in 0..Len(old), s = SubSeq(old, 1, i), Len(s) # 1
        PROVE  Begins(s, new)
    <2>1. i \in Nat /\ Len(old) \in Nat /\ Len(new) \in Nat /\ Len(s) = i
      BY <1>2
    <2>2. CASE i = 0
      <3>1. SubSeq(new, 1, 0) = SubSeq(old, 1, 0) /\ 0 \in 0..Len(new)
        BY <2>1
      <3> QED
        BY <1>2, <2>2, <3>1 DEF Begins
    <2>3. CASE i >= 2
      <3>1. \A k \in 1..Len(leaders) : Len(<<leaders[k]>>) = 1
        OBVIOUS
      <3>2. PICK a \in 0..Len(leaders) : old = SubSeq(leaders, 1, a)
        BY <1>2, <2>1, <2>3, <3>1 DEF TakenFrom
      <3>3. PICK b \in 0..Len(leaders) : new = SubSeq(leaders, 1, b)
        BY <1>2, <2>1, <2>3, <3>1 DEF TakenFrom
      <3>4. Len(old) = a /\ Len(new) = b /\ a \in Nat /\ b \in Nat
        BY <3>2, <3>3
      <3>5. SubSeq(old, 1, i) = SubSeq(leaders, 1, i)
        BY <2>1, <3>2, <3>4
      <3>6. SubSeq(new, 1, i) = SubSeq(leaders, 1, i) /\ i \in 0..Len(new)
        BY <2>1, <3>3, <3>4
      <3> QED
        BY <1>2, <3>5, <3>6 DEF Begins
    <2> QED
      BY <1>2, <2>1, <2>2, <2>3
  <1> QED
    BY <1>1, <1>2 DEF Begins

\* What was the beginning of a node's log is so after a step of any node.
LEMMA BeginsKept ==
  ASSUME TypeInv, NEW l \in Node, Candidates = {l}, OnlyLeads(l),
         [Next]_vars, NEW n \in Node, NEW s, Begins(s, log[n])
  PROVE  Begins(s, log'[n])
  <1>0. /\ log \in [Node -> Seq(Entry)] /\ term \in [Node -> Nat]
        /\ appendRequests \subseteq AppendRequest
    BY DEF TypeInv, TypeOK
  <1>1. ASSUME NEW m \in appendRequests, NEW inTime \in BOOLEAN,
               AppendEntries(m, inTime)
        PROVE  Begins(s, log'[n])
    <2>1. m.to \in Node /\ m.log \in Seq(Entry) /\ TakenFrom(m.log, log[l])
      BY <1>0 DEF AppendRequest, OnlyLeads
    <2>2. log'[n] = log[n] \/ (log'[n] = m.log /\ Len(m.log) > Len(log[n]))
      BY <1>0, <1>1, <2>1 DEF AppendEntries, Merge
    <2>3. TakenFrom(log[n], log[l])
      BY DEF OnlyLeads
    <2> QED
      BY <1>0, <2>1, <2>2, <2>3, BeginsReplaced
  <1>2. ASSUME NEW m \in Node, NEW op \in Op, AppendOperation(m, op)
        PROVE  Begins(s, log'[n])
    <2> DEFINE e == [op |-> op, term |-> term[m], index |-> Len(log[m]) + 1]
    <2>1. log' = [log EXCEPT ![m] = Append(@, e)]
      BY <1>2 DEF AppendOperation, NextIndex
    <2>2. e \in Entry
      BY <1>0, <1>2, BoundAssumption DEF AppendOperation, Entry, Index
    <2> HIDE DEF e
    <2>3. log'[n] = log[n] \/ log'[n] = Append(log[n], e)
      BY <1>0, <2>1
    <2> QED
      BY <1>0, <2>2, <2>3, BeginsLonger
  <1>3. ASSUME log' = log PROVE Begins(s, log'[n])
    BY <1>3
  <1> QED
    BY <1>1, <1>2, <1>3
    DEF Next, StartElection, VoteAnswered, VoteAbandoned, LateVoteRequest,
        WinElection, LoseElection, HeartbeatCheck, HeartbeatSend,
        RejectAppendEntries, BroadcastAppendOne, CommitOperation,
        FailOperation, ForwardSubmission, ForwardReturns, vars, logVars

FollowInv ==
  /\ \A r \in goRequests : Begins(r.log, log[r.to])
  /\ \A n \in Paired : Begins(goLogs[n], log[n])

LEMMA FollowStep ==
  ASSUME TypeInv, TypeInv', PairInv, SingleInv, FollowInv,
         NEW l \in Node, Candidates = {l}, goLogs \in [Paired -> Seq(Entry)],
         [ClusterNext]_clusterVars
  PROVE  FollowInv'
  <1>1. /\ \A r \in goRequests : r.to \in Node /\ r.to \in Paired
        /\ Paired \subseteq Node
    BY PairedAssumption DEF PairInv, CallType
  <1>2. [Next]_vars /\ OnlyLeads(l)
    BY NodeStepOfCluster DEF SingleInv
  <1>3. /\ \A r \in goRequests : Begins(r.log, log'[r.to])
        /\ \A n \in Paired : Begins(goLogs[n], log'[n])
    BY <1>1, <1>2, BeginsKept DEF FollowInv
  <1>4. ASSUME Fed PROVE FollowInv'
    <2>1. \A n \in Paired : LET r == Snapshot(n)' IN Begins(r.log, log'[r.to])
      <3>1. \A n \in Paired : log'[n] \in Seq(Entry)
        BY <1>1 DEF TypeInv, TypeOK
      <3> QED
        BY <3>1, BeginsItself DEF Snapshot
    <2> QED
      BY <1>3, <1>4, <2>1 DEF Fed, goVars, FollowInv
  <1>5. ASSUME NEW r \in goRequests, GoReplicateLog(r) PROVE FollowInv'
    <2>1. /\ goRequests' \subseteq goRequests
          /\ goLogs' = [goLogs EXCEPT ![r.to] = Go!Longest(@, r.log)]
      BY <1>5 DEF GoReplicateLog, Go!ReplicateLog
    <2>2. \A n \in Paired : goLogs'[n] = goLogs[n] \/ (n = r.to /\ goLogs'[n] = r.log)
      BY <1>1, <2>1 DEF Go!Longest
    <2> QED
      BY <1>3, <2>1, <2>2 DEF FollowInv
  <1> QED
    BY <1>4, <1>5, CallsOfCluster DEF PairInv

\* With one leader, whatever overtakes what, a replicator's log is the
\* beginning of its node's, or one entry.
GoLogBegins == \A n \in Paired : Begins(goLogs[n], log[n])

LEMMA ReplicatorsBegin ==
  ASSUME NEW l \in Node, Candidates = {l}
  PROVE  ClusterSpec => []GoLogBegins
  <1>1. Init => SingleInv
    BY SingleStart
  <1>2. ClusterInit => FollowInv
    <2>1. <<>> \in Seq(Entry)
      OBVIOUS
    <2>2. Begins(<<>>, <<>>)
      BY <2>1, BeginsItself
    <2> QED
      BY <2>2, PairedAssumption DEF ClusterInit, Init, Go!Init, FollowInv
  <1>3. /\ TypeInv /\ PairInv /\ ClusterTypeOK /\ SingleInv /\ FollowInv
        /\ [ClusterNext]_clusterVars
        => SingleInv' /\ FollowInv'
    BY NodeStepOfCluster, SingleStep, TypeStep, FollowStep
    DEF ClusterTypeOK, Go!TypeOK
  <1>4. FollowInv => GoLogBegins
    BY DEF FollowInv, GoLogBegins
  <1> QED
    BY <1>1, <1>2, <1>3, <1>4, ClusterStart, ClusterInvariant,
       ClusterTypeCorrect, PTL
    DEF ClusterSpec

\* Whom they agree with: entry i of the leader.
AgreesWith(l) ==
  \A n \in Paired : \A i \in 2..Len(goLogs[n]) :
    i \in 1..Len(log[l]) /\ goLogs[n][i] = log[l][i]

LEMMA LongLogs ==
  ASSUME NEW l \in Node, Candidates = {l}, ClusterTypeOK, FollowerLogShape,
         GoLogBegins
  PROVE  AgreesWith(l)
  <1> SUFFICES ASSUME NEW n \in Paired, NEW i \in 2..Len(goLogs[n])
               PROVE  i \in 1..Len(log[l]) /\ goLogs[n][i] = log[l][i]
    BY DEF AgreesWith
  <1>1. n \in Node /\ goLogs[n] \in Seq(Entry) /\ log \in [Node -> Seq(Entry)]
    BY PairedAssumption DEF ClusterTypeOK, TypeOK, Go!TypeOK
  <1>2. Len(goLogs[n]) # 1 /\ i \in Nat /\ 2 <= i /\ i <= Len(goLogs[n])
    <2> DEFINE k == Len(goLogs[n])
    <2>1. k \in Nat
      BY <1>1
    <2>2. i \in 2..k
      OBVIOUS
    <2> HIDE DEF k
    <2>3. k # 1 /\ i \in Nat /\ 2 <= i /\ i <= k
      BY <2>1, <2>2
    <2> QED
      BY <2>3 DEF k
  <1>3. PICK j \in 0..Len(log[n]) : goLogs[n] = SubSeq(log[n], 1, j)
    BY <1>2 DEF GoLogBegins, Begins
  <1>4. i <= Len(log[n]) /\ goLogs[n][i] = log[n][i]
    BY <1>1, <1>2, <1>3
  <1>5. PICK k \in 0..Len(log[l]) : log[n] = SubSeq(log[l], 1, k)
    <2>1. ASSUME NEW k \in 1..Len(log[l]), log[n] = <<log[l][k]>> PROVE FALSE
      <3>1. Len(log[n]) = 1
        BY <2>1
      <3> QED
        BY <1>1, <1>2, <1>4, <3>1
    <2> QED
      BY <1>1, <2>1 DEF FollowerLogShape
  <1> QED
    BY <1>1, <1>2, <1>4, <1>5

\* With one leader, the replicators are copies of one state machine but for its
\* first step: what any two have at an index from 2 on is the same entry, that
\* of the leader.  The first one may differ (OnlyHeadMisplaced).
THEOREM ReplicatorsAgree ==
  ASSUME NEW l \in Node, Candidates = {l}
  PROVE  ClusterSpec => [](\A m, n \in Paired : \A i \in 2..Len(goLogs[m]) :
                             i <= Len(goLogs[n]) => goLogs[m][i] = goLogs[n][i])
  <1> DEFINE Agree == \A m, n \in Paired : \A i \in 2..Len(goLogs[m]) :
                        i <= Len(goLogs[n]) => goLogs[m][i] = goLogs[n][i]
  <1>1. ClusterTypeOK /\ FollowerLogShape /\ GoLogBegins => Agree
    <2> SUFFICES ASSUME ClusterTypeOK, FollowerLogShape, GoLogBegins,
                        NEW m \in Paired, NEW n \in Paired,
                        NEW i \in 2..Len(goLogs[m]), i <= Len(goLogs[n])
                 PROVE  goLogs[m][i] = goLogs[n][i]
      OBVIOUS
    <2>1. AgreesWith(l)
      BY LongLogs
    <2>2. Len(goLogs[m]) \in Nat /\ Len(goLogs[n]) \in Nat
      BY DEF ClusterTypeOK, Go!TypeOK
    <2>3. i \in 2..Len(goLogs[n])
      BY <2>2
    <2> QED
      BY <2>1, <2>3 DEF AgreesWith
  <1>2. ClusterSpec => []FollowerLogShape
    BY ClusterImplementsNodes, FollowersTrail, PTL
  <1>3. ClusterSpec => []GoLogBegins
    BY ReplicatorsBegin
  <1> HIDE DEF Agree
  <1>4. ClusterSpec => []Agree
    BY <1>1, <1>2, <1>3, ClusterTypeCorrect, PTL
  <1> QED
    BY <1>4 DEF Agree
=============================================================================
