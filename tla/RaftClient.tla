----------------------------- MODULE RaftClient -----------------------------
(***************************************************************************)
(* The test client of "Project - 2/Q4" (python/testclient.py) with the     *)
(* nodes it talks to (RaftNode, whose clients submit anything at any time; *)
(* Contacts = Node leaves that to this module).                            *)
(*                                                                         *)
(* The client submits one operation after the other.  It asks the nodes in *)
(* turn, two seconds each, until one answers "committed".  A node that was *)
(* given up on may still handle its call, so an operation can be in a log  *)
(* more than once.  An Op names the operation and the call that brought it.*)
(***************************************************************************)
EXTENDS RaftNode

CONSTANTS
  Endpoints,   \* NODES
  MaxCalls     \* bound on the calls the client makes

ASSUME ClientAssumption ==
  /\ Endpoints \in Seq(Node) /\ Endpoints # <<>>
  /\ MaxCalls \in Nat
  /\ Op = [number : 1..MaxCalls, call : 1..MaxCalls]
  /\ Contacts = Node

VARIABLES
  call,      \* the call the client makes, or makes next
  at,        \* the place of its node among the Endpoints
  waiting,   \* the call is not over
  calls      \* the client's calls no node has handled

clientVars == <<call, at, waiting, calls>>

ClientInit ==
  /\ Init
  /\ call = [number |-> 1, call |-> 1] /\ at = 1 /\ waiting = FALSE
  /\ calls = {}

-----------------------------------------------------------------------------
SendCall ==
  /\ ~waiting /\ call \in Op
  /\ waiting' = TRUE
  /\ calls' = calls \cup {[to |-> Endpoints[at], op |-> call]}
  /\ UNCHANGED <<vars, call, at>>

\* itertools.cycle(NODES)
NextEndpoint == IF at = Len(Endpoints) THEN 1 ELSE at + 1

\* A mutant goes on to the next operation.
Abandon(c) == [number |-> c.number + 1, call |-> c.call + 1]
Retry(c) == [c EXCEPT !.call = @ + 1]

\* The call fails, is out of time, or is answered otherwise than "committed".
GiveUp ==
  /\ waiting
  /\ waiting' = FALSE /\ call' = Retry(call) /\ at' = NextEndpoint
  /\ UNCHANGED <<vars, calls>>

\* The commit reaches the client in time, through the nodes that forwarded its
\* call: submit returns, and the next operation starts with the first node.
Committed(t) ==
  /\ CommitOperation(t) /\ waiting /\ t.op = call
  /\ waiting' = FALSE /\ at' = 1
  /\ call' = [number |-> call.number + 1, call |-> call.call + 1]
  /\ UNCHANGED calls

\* A call of the client or of a node is taken up, and `more' are made for it.
TakesUp(r, more) ==
  \/ r \in calls /\ calls' = calls \ {r} /\ submissions' = submissions \cup more
  \/ /\ r \in submissions /\ UNCHANGED calls
     /\ submissions' = (submissions \ {r}) \cup more

SubmitClientRequest(r) ==
  /\ \/ TakesUp(r, {}) /\ AppendOperation(r.to, r.op)
     \/ /\ TakesUp(r, {[to |-> currentLeaderId[r.to], op |-> r.op]})
        /\ ForwardSubmission(r.to, r.op)
  /\ UNCHANGED <<call, at, waiting>>

\* What nodes do by themselves.
NodeStep ==
  \/ \E n \in Node : \/ StartElection(n) \/ VoteAnswered(n)
                     \/ VoteAbandoned(n) \/ WinElection(n) \/ LoseElection(n)
                     \/ HeartbeatCheck(n) \/ HeartbeatSend(n)
                     \/ ForwardReturns(n)
  \/ \E m \in voteRequests : LateVoteRequest(m)
  \/ \E m \in appendRequests :
       RejectAppendEntries(m) \/ \E inTime \in BOOLEAN : AppendEntries(m, inTime)
  \/ \E t \in tasks : \/ BroadcastAppendOne(t) \/ CommitOperation(t)
                      \/ FailOperation(t)

ClientNext ==
  \/ SendCall \/ GiveUp
  \/ \E t \in tasks : Committed(t)
  \/ \E r \in calls \cup submissions : SubmitClientRequest(r)
  \/ NodeStep /\ UNCHANGED clientVars

ClientSpec == ClientInit /\ [][ClientNext]_<<vars, clientVars>>

\* The nodes' threads run on and requests arrive; the client may stop.
FairClientSpec == ClientSpec /\ Fairness

-----------------------------------------------------------------------------
ClientTypeOK ==
  /\ TypeOK
  /\ call \in [number : 1..(MaxCalls + 1), call : 1..(MaxCalls + 1)]
  /\ at \in 1..Len(Endpoints) /\ waiting \in BOOLEAN
  /\ calls \subseteq [to : Node, op : Op]

\* With a leader that is never deposed, an operation reported committed (135)
\* stays in its place in the leader's log, though followers may have acked it
\* without storing it (81, 151); and whatever the client has moved on from
\* (13-15) was reported, whichever of its calls brought it.
MovedOnIsLogged ==
  \A l \in Node : Candidates = {l} =>
    /\ \A r \in reported : r.index <= Len(log[l]) /\ log[l][r.index].op = r.op
    /\ \A k \in 1..(call.number - 1) : \E r \in reported : r.op.number = k

\* Calls the client gave up on are handled late, repeat operations and overtake
\* others; still an operation appears in the leader's log only after the one
\* submitted before it (22-27).
OperationsInOrder ==
  \A l \in Node : Candidates = {l} =>
    \A i \in 1..Len(log[l]) :
      \/ log[l][i].op.number = 1
      \/ \E j \in 1..(i - 1) : log[l][j].op.number = log[l][i].op.number - 1
=============================================================================
