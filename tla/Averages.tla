------------------------------ MODULE Averages ------------------------------
(***************************************************************************)
(* "Project - 1/Q3": averages over gRPC.  The Go client (mehul/client.go)  *)
(* asks the Python server (mehul/server.py), whose handlers share a pool   *)
(* of workers; the Python client (pranav/python client) asks the Go server *)
(* (pranav/go-grpc-server), which gives each call a goroutine and adds in  *)
(* 32 bits.  A client makes one call after the other.                      *)
(*                                                                         *)
(* A handler that has received c numbers of a call has received its first  *)
(* c.  A result stays a fraction.                                          *)
(***************************************************************************)
EXTENDS Integers, FiniteSets, SequencesExt

CONSTANTS
  GoClient, PyClient,
  NoReply,
  Inputs,      \* Inputs[k]: the numbers the user enters for k
  Calls,       \* bound: Calls[c], how many calls c makes
  MaxNumbers,  \* bound: MaxNumbers[c], the numbers in a stream of c
  MaxBreaks,   \* bound: calls that break
  Workers,     \* max_workers
  Half         \* 2^31: an int32 is -Half..(Half - 1)

Client == GoClient \cup PyClient
Call == UNION {{c} \X (1..Calls[c]) : c \in Client}

ASSUME AveragesAssumption ==
  /\ GoClient \cap PyClient = {}
  /\ Inputs \in [Call -> SUBSET Int]
  /\ Calls \in [Client -> Nat] /\ \A c \in PyClient : Calls[c] = 2
  /\ MaxNumbers \in [Client -> Nat] /\ MaxBreaks \in Nat
  /\ Workers \in Nat \ {0} /\ Half \in Nat \ {0}

VARIABLES
  kind,      \* kind[k]: the method k calls
  sent,      \* sent[k]: the numbers its client has sent
  step,      \* step[k]: what its client is doing
  handler,   \* handler[k]: where the server is with it
  count,     \* count[k]: the numbers the handler has received
  sum,       \* sum[k]: its sum or total
  reply,     \* reply[k]: the result sent back
  pool,      \* calls that wait for one of the Python server's workers
  breaks     \* calls that broke so far

vars == <<kind, sent, step, handler, count, sum, reply, pool, breaks>>

Step == {"none", "sending", "waiting", "answered", "failed"}
Over == {"answered", "failed"}

Init ==
  /\ kind = [k \in Call |-> "Average"] /\ sent = [k \in Call |-> <<>>]
  /\ step = [k \in Call |-> "none"] /\ handler = [k \in Call |-> "none"]
  /\ count = [k \in Call |-> 0] /\ sum = [k \in Call |-> 0]
  /\ reply = [k \in Call |-> NoReply]
  /\ pool = <<>> /\ breaks = 0

-----------------------------------------------------------------------------
(* Clients.                                                                *)

\* What a client can call.
Methods == {"Average", "RunningAverage"}

\* The Go client's menu; the Python client's one call and then the other,
\* which a failure of the first prevents.
MayCall(k, method) ==
  /\ step[k] = "none"
  /\ IF k[1] \in GoClient
       THEN k[2] > 1 => step[<<k[1], k[2] - 1>>] \in Over
       ELSE IF k[2] = 1 THEN method = "Average"
            ELSE method = "RunningAverage" /\ step[<<k[1], 1>>] = "answered"

\* The methods a server has handlers for.
Registered == {"Average", "RunningAverage"}

Begins(k, method, numbers, next) ==
  /\ MayCall(k, method)
  /\ kind' = [kind EXCEPT ![k] = method]
  /\ sent' = [sent EXCEPT ![k] = numbers]
  /\ step' = [step EXCEPT ![k] = next]
  /\ handler' = [handler EXCEPT ![k] =
                   IF method \in Registered THEN "arriving" ELSE "ended"]
  /\ UNCHANGED <<count, sum, reply, pool, breaks>>

\* A number the Go client cannot read is 0; the Python client does not start
\* a call with one that is not an int32.
CalculateAverage(k) ==
  \E a, b \in Inputs[k] : Begins(k, "Average", <<a, b>>, "waiting")

CalculateRunningAverage(k) == Begins(k, "RunningAverage", <<>>, "sending")

Send(k) ==
  /\ step[k] = "sending" /\ Len(sent[k]) < MaxNumbers[k[1]]
  /\ \E n \in Inputs[k] : sent' = [sent EXCEPT ![k] = Append(@, n)]
  /\ UNCHANGED <<kind, step, handler, count, sum, reply, pool, breaks>>

\* "done", or the end of the arguments.
CloseSend(k) ==
  /\ step[k] = "sending"
  /\ step' = [step EXCEPT ![k] = "waiting"]
  /\ UNCHANGED <<kind, sent, handler, count, sum, reply, pool, breaks>>

\* The connection breaks, or the Python client's next argument is not an
\* int32 and its call is cancelled: the client has an error.
CallBreaks(k) ==
  /\ step[k] \in {"sending", "waiting"} /\ breaks < MaxBreaks
  /\ breaks' = breaks + 1
  /\ step' = [step EXCEPT ![k] = "failed"]
  /\ UNCHANGED <<kind, sent, handler, count, sum, reply, pool>>

ShowResult(k) ==
  /\ step[k] = "waiting" /\ reply[k] # NoReply
  /\ step' = [step EXCEPT ![k] = "answered"]
  /\ UNCHANGED <<kind, sent, handler, count, sum, reply, pool, breaks>>

\* The server ended the call with an error; Send tells the Go client, too.
ShowError(k) ==
  /\ step[k] \in {"sending", "waiting"}
  /\ handler[k] = "ended" /\ reply[k] = NoReply
  /\ step' = [step EXCEPT ![k] = "failed"]
  /\ UNCHANGED <<kind, sent, handler, count, sum, reply, pool, breaks>>

-----------------------------------------------------------------------------
(* Servers.                                                                *)

\* A call comes in: a goroutine of its own, or a place among those that wait
\* for a worker.
Arrive(k) ==
  /\ handler[k] = "arriving" /\ step[k] # "failed"
  /\ IF k[1] \in PyClient
       THEN handler' = [handler EXCEPT ![k] = "running"] /\ UNCHANGED pool
       ELSE /\ handler' = [handler EXCEPT ![k] = "queued"]
            /\ pool' = Append(pool, k)
  /\ UNCHANGED <<kind, sent, step, count, sum, reply, breaks>>

Busy == {k \in Call : k[1] \in GoClient /\ handler[k] = "running"}

\* A mutant starts one worker too many.
WorkerIsFreeOffByOne == Cardinality(Busy) <= Workers
WorkerIsFree == Cardinality(Busy) < Workers

WorkerTakes ==
  /\ pool # <<>> /\ WorkerIsFree
  /\ handler' = [handler EXCEPT ![Head(pool)] = "running"]
  /\ pool' = Tail(pool)
  /\ UNCHANGED <<kind, sent, step, count, sum, reply, breaks>>

Wrapped(x) == ((x + Half) % (2 * Half)) - Half

\* A mutant stops at the ends of the range.
AddClamped(k, a, b) ==
  IF k[1] \in GoClient THEN a + b
  ELSE IF a + b >= Half THEN Half - 1
  ELSE IF a + b < -Half THEN -Half ELSE a + b
\* Python integers do not wrap.
Add(k, a, b) == IF k[1] \in GoClient THEN a + b ELSE Wrapped(a + b)

Average(k) ==
  /\ handler[k] = "running" /\ kind[k] = "Average"
  /\ reply' = [reply EXCEPT ![k] =
                 [sum |-> Add(k, sent[k][1], sent[k][2]), count |-> 2]]
  /\ handler' = [handler EXCEPT ![k] = "ended"]
  /\ UNCHANGED <<kind, sent, step, count, sum, pool, breaks>>

Receive(k) ==
  /\ handler[k] = "running" /\ kind[k] = "RunningAverage"
  /\ count[k] < Len(sent[k])
  /\ count' = [count EXCEPT ![k] = @ + 1]
  /\ sum' = [sum EXCEPT ![k] = Add(k, @, sent[k][count[k] + 1])]
  /\ UNCHANGED <<kind, sent, step, handler, reply, pool, breaks>>

\* The mean of no numbers: ZeroDivisionError in Python, NaN in Go.
Result(k) ==
  IF k[1] \in GoClient /\ count[k] = 0
    THEN NoReply ELSE [sum |-> sum[k], count |-> count[k]]

StreamEnds(k) ==
  /\ handler[k] = "running" /\ kind[k] = "RunningAverage"
  /\ step[k] = "waiting" /\ count[k] = Len(sent[k])
  /\ reply' = [reply EXCEPT ![k] = Result(k)]
  /\ handler' = [handler EXCEPT ![k] = "ended"]
  /\ UNCHANGED <<kind, sent, step, count, sum, pool, breaks>>

\* A mutant keeps its worker.
HeldAfterBreak == "running"
AfterBreak == "ended"

\* The stream of a call that broke: Python's iterator raises; Go takes the
\* error for the end and cannot send its result.  What was sent may be lost.
StreamBreaks(k) ==
  /\ handler[k] = "running" /\ kind[k] = "RunningAverage"
  /\ step[k] = "failed"
  /\ handler' = [handler EXCEPT ![k] = AfterBreak]
  /\ UNCHANGED <<kind, sent, step, count, sum, reply, pool, breaks>>

-----------------------------------------------------------------------------
Handle(k) ==
  Arrive(k) \/ Average(k) \/ Receive(k) \/ StreamEnds(k) \/ StreamBreaks(k)

Next ==
  \/ WorkerTakes
  \/ \E k \in Call : \/ CalculateAverage(k) \/ CalculateRunningAverage(k)
                     \/ Send(k) \/ CloseSend(k) \/ CallBreaks(k)
                     \/ ShowResult(k) \/ ShowError(k) \/ Handle(k)

Spec == Init /\ [][Next]_vars

\* Threads run on and calls arrive; a user who has begun a stream ends it.
Fairness ==
  /\ WF_vars(WorkerTakes)
  /\ \A k \in Call : WF_vars(Handle(k) \/ CloseSend(k)
                               \/ ShowResult(k) \/ ShowError(k))

FairSpec == Spec /\ Fairness

-----------------------------------------------------------------------------
(* Properties.                                                             *)

Reply == [sum : Int, count : Nat]

TypeOK ==
  /\ kind \in [Call -> Methods]
  /\ sent \in [Call -> Seq(Int)] /\ step \in [Call -> Step]
  /\ handler \in [Call -> {"none", "arriving", "queued", "running", "ended"}]
  /\ count \in [Call -> Nat] /\ sum \in [Call -> Int]
  /\ reply \in [Call -> Reply \cup {NoReply}]
  /\ pool \in Seq(Call) /\ breaks \in 0..MaxBreaks
  /\ Cardinality(Busy) <= Workers
  /\ \A k \in Call : k \in ToSet(pool) <=> handler[k] = "queued"

\* Totals(s)[i]: the sum of the first i numbers of s.
Totals(s) ==
  LET t[i \in 0..Len(s)] == IF i = 0 THEN 0 ELSE t[i - 1] + s[i] IN t
Total(k) == Totals(sent[k])[Len(sent[k])]
Fits(x) == -Half <= x /\ x < Half

\* A client that shows a result shows the mean of all the numbers it entered,
\* with other streams under way and broken ones that the Go server takes for
\* complete (33-36).  From the Go server it does if their total fits, although
\* its sum may have wrapped on the way (38); of other totals nothing is promised
\* here (server.go 20 and 38 wrap, though Readme.md 80 knows no such limit).
\* Only the Go server has a result for no numbers.
AnswersAreMeans ==
  \A k \in Call : step[k] = "answered" =>
    /\ reply[k].count = Len(sent[k])
    /\ k[1] \in GoClient \/ Fits(Total(k)) => reply[k].sum = Total(k)
    /\ reply[k].count = 0 => k[1] \in PyClient

\* Every call ends for its client, also when streams hold all the workers of
\* the Python server (21) and some of them break or are empty (18).
CallsEnd ==
  \A k \in Call : step[k] \in {"sending", "waiting"} ~> step[k] \in Over
=============================================================================
