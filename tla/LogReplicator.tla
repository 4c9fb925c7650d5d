---------------------------- MODULE LogReplicator ----------------------------
(***************************************************************************)
(* The Go log replicators of "Project - 2/Q4" (go/server.go).  A server    *)
(* keeps the longest log and the largest commit index it was sent, and     *)
(* runs through its committed entries on every call; an index past its log *)
(* panics, which ends the process.                                         *)
(*                                                                         *)
(* ReplicateLog holds the server's mutex throughout, so a call is a step.  *)
(* Its requests come from the paired Python node: RaftCluster composes the *)
(* two.  Alone, a server is fed any request at all.                        *)
(***************************************************************************)
EXTENDS Naturals, Sequences

CONSTANTS
  Server,    \* the servers
  Record     \* the log entries a request may hold

VARIABLES
  logs,         \* logs[s]: the server's log
  commitIndex,
  running,      \* FALSE once the process has panicked
  shortFed      \* history: s was fed a commit index past the request's log

vars == <<logs, commitIndex, running, shortFed>>

Request == [log : Seq(Record), commitIndex : Nat]
Short(r) == r.commitIndex > Len(r.log)

Init ==
  /\ logs = [s \in Server |-> <<>>]
  /\ commitIndex = [s \in Server |-> 0]
  /\ running = [s \in Server |-> TRUE]
  /\ shortFed = [s \in Server |-> FALSE]

\* Mutants keep the log sent last, or append it.
Latest(own, sent) == sent
Joined(own, sent) == own \o sent
\* keep longest log
Longest(own, sent) == IF Len(sent) > Len(own) THEN sent ELSE own
\* commit index only moves forward
Forward(own, sent) == IF sent > own THEN sent ELSE own

ReplicateLog(s, r) ==
  /\ running[s]
  /\ logs' = [logs EXCEPT ![s] = Longest(@, r.log)]
  /\ commitIndex' = [commitIndex EXCEPT ![s] = Forward(@, r.commitIndex)]
  /\ running' = [running EXCEPT
                   ![s] = Forward(commitIndex[s], r.commitIndex)
                            <= Len(Longest(logs[s], r.log))]
  /\ shortFed' = [shortFed EXCEPT ![s] = @ \/ Short(r)]

Next == \E s \in Server, r \in Request : ReplicateLog(s, r)

Spec == Init /\ [][Next]_vars

TypeOK ==
  /\ logs \in [Server -> Seq(Record)]
  /\ commitIndex \in [Server -> Nat]
  /\ running \in [Server -> BOOLEAN]
  /\ shortFed \in [Server -> BOOLEAN]

\* Keeping the longest log (34) under any order of calls is what lets a server
\* index by its commit index (44-45): it panics only after a request whose own
\* commit index is past its own log.
PanicsOnlyWhenShortFed ==
  \A s \in Server :
    shortFed[s] \/ (running[s] /\ commitIndex[s] <= Len(logs[s]))
=============================================================================
