----------------------------- MODULE RaftCluster -----------------------------
(***************************************************************************)
(* The cluster of "Project - 2/Q4": every Python node (RaftNode) with the  *)
(* Go log replicator (LogReplicator) it is paired with.                    *)
(*                                                                         *)
(* _replicate_to_go runs at the end of AppendEntries and of every          *)
(* heartbeat round, after the lock was given up: it takes the lock again   *)
(* and sends what the log is by then.  A commit runs it under the lock.    *)
(* The call may be handled at any later time, or never.  A server affects  *)
(* neither the Python nodes nor other servers, so it is enough to follow   *)
(* the servers of some nodes at a time (Paired).                           *)
(***************************************************************************)
EXTENDS RaftNode

CONSTANTS
  Paired,       \* the nodes whose Go server is followed
  MaxGoCalls    \* bound on the calls in flight to a Go server

ASSUME PairedAssumption == Paired \subseteq Node /\ MaxGoCalls \in Nat

VARIABLES
  owing,        \* nodes with a thread about to run _replicate_to_go
  goRequests,   \* ReplicateLog calls not yet handled
  goLogs, goCommitIndex, goRunning, goShortFed

goVars == <<goLogs, goCommitIndex, goRunning, goShortFed>>
clusterVars == <<vars, owing, goRequests, goVars>>

Go == INSTANCE LogReplicator
        WITH Server <- Paired, Record <- Entry, logs <- goLogs,
             commitIndex <- goCommitIndex, running <- goRunning,
             shortFed <- goShortFed

ClusterInit == Init /\ Go!Init /\ owing = {} /\ goRequests = {}

\* A mutant reads the commit index before the log has the entry.
SnapshotTorn(n) == [to |-> n, log |-> log[n], commitIndex |-> commitIndex[n] + 1]
\* The ReplicateLog request of node n, read under its lock.
Snapshot(n) == [to |-> n, log |-> log[n], commitIndex |-> commitIndex[n]]

ReplicateToGo(n) ==
  /\ n \in owing /\ LockFree(n)
  /\ Cardinality({r \in goRequests : r.to = n}) < MaxGoCalls
  /\ goRequests' = goRequests \cup {Snapshot(n)}
  /\ owing' \in {owing, owing \ {n}}      \* another thread of n may be there
  /\ UNCHANGED <<vars, goVars>>

GoReplicateLog(r) ==
  /\ Go!ReplicateLog(r.to, r)
  /\ goRequests' = goRequests \ {r}
  /\ UNCHANGED <<vars, owing>>

\* A step of node n's Python process that leaves a thread of n owing.
ThenOwes(n) ==
  /\ owing' = owing \cup ({n} \cap Paired)
  /\ UNCHANGED <<goRequests, goVars>>

ThenSends(n) ==
  /\ goRequests' = goRequests \cup {r \in {Snapshot(n)'} : n \in Paired}
  /\ UNCHANGED <<owing, goVars>>

ClusterNext ==
  \/ \E n \in Node :
       \/ /\ \/ StartElection(n) \/ VoteAnswered(n) \/ VoteAbandoned(n)
             \/ WinElection(n) \/ LoseElection(n) \/ HeartbeatCheck(n)
             \/ ForwardReturns(n)
             \/ \E op \in Op : AppendOperation(n, op) \/ ForwardSubmission(n, op)
          /\ UNCHANGED <<owing, goRequests, goVars>>
       \/ HeartbeatSend(n) /\ ThenOwes(n)
       \/ ReplicateToGo(n)
  \/ \E m \in voteRequests :
       LateVoteRequest(m) /\ UNCHANGED <<owing, goRequests, goVars>>
  \/ \E m \in appendRequests :
       \/ RejectAppendEntries(m) /\ UNCHANGED <<owing, goRequests, goVars>>
       \/ \E inTime \in BOOLEAN : AppendEntries(m, inTime) /\ ThenOwes(m.to)
  \/ \E t \in tasks :
       \/ /\ BroadcastAppendOne(t) \/ FailOperation(t)
          /\ UNCHANGED <<owing, goRequests, goVars>>
       \/ CommitOperation(t) /\ ThenSends(t.node)
  \/ \E r \in goRequests : GoReplicateLog(r)

ClusterSpec == ClusterInit /\ [][ClusterNext]_clusterVars

-----------------------------------------------------------------------------
ClusterTypeOK ==
  /\ TypeOK
  /\ Go!TypeOK
  /\ owing \subseteq Paired
  /\ goRequests \subseteq [to : Paired, log : Seq(Entry), commitIndex : Nat]

\* ReplicateLog (34-47) takes requests in any order, late ones too: a server
\* panics only if its node sent a commit index past the log it sent with it.
GoPanicsOnlyWhenShortFed == Go!PanicsOnlyWhenShortFed

\* Whatever its calls overtake, a server that runs has every entry it runs
\* through (44-47), up to an index that a node reported committed and that is in
\* that node's log.
GoCommitIsLogged ==
  \A n \in Paired :
    /\ goRunning[n] => goCommitIndex[n] <= Len(goLogs[n])
    /\ goCommitIndex[n] # 0 =>
         \E r \in reported : /\ r.index = goCommitIndex[n]
                             /\ r.index <= Len(log[r.node])

\* Calls overtake one another, nodes replace their logs (81-82) and a server
\* keeps the longest it was sent (34-37): it is never ahead of its node, and
\* when it has caught up it has the node's log, not one the node had before.
GoLogFollowsNode ==
  \A n \in Paired : /\ Len(goLogs[n]) <= Len(log[n])
                    /\ Len(goLogs[n]) = Len(log[n]) => goLogs[n] = log[n]

\* README.md 124: "The Go nodes update their commit index and execute log
\* entries": the process does not die of it.
GoKeepsRunning == \A n \in Paired : goRunning[n]
=============================================================================
