---------------------------- MODULE Dissemination ----------------------------
(***************************************************************************)
(* The dissemination component of "Project - 1/Q5" (dissemination.go): the *)
(* Go process of each node, which keeps the node's membership list, takes  *)
(* failures off it, tells the other nodes, and streams its list to the     *)
(* node's failure detector.                                                *)
(*                                                                         *)
(* A BroadcastFailure handler has three critical sections: it replaces the *)
(* list, reads it again under a read lock, and offers what it read to the  *)
(* subscriber, whose channel holds one list.  A list is never changed in   *)
(* place.  All lists keep the order of the MEMBERSHIP variable, so a set   *)
(* of node ids stands for one.  Equal handlers or goroutines at a node     *)
(* count as one.                                                           *)
(***************************************************************************)
EXTENDS Naturals, Sequences, FiniteSets

CONSTANTS
  Founder,    \* the nodes of the MEMBERSHIP variable, in the order of their ids
  Late,       \* the founders whose stream is not set up yet when they start
  MaxLosses   \* bound on the calls between running nodes that fail

ASSUME FounderAssumption ==
  /\ Founder \subseteq Nat /\ IsFiniteSet(Founder) /\ Late \subseteq Founder
  /\ MaxLosses \in Nat

VARIABLES
  up,          \* the founders whose container runs
  members,     \* members[n]: the membership list of n's dissemination server
  handlers,    \* BroadcastFailure calls being handled
  spreads,     \* goroutines that run BroadcastFailureToAll
  subscriber,  \* the detector's stream: "none", "registered", "streaming"
  channel,     \* channel[n]: the list in the subscriber's channel, if any
  wire,        \* wire[n]: lists sent on the stream and not yet received
  losses       \* how many calls between running nodes have failed

serverVars == <<up, members, losses>>
streamVars == <<subscriber, channel, wire>>
disseminationVars == <<serverVars, streamVars, handlers, spreads>>

List == SUBSET Founder
Handler == [at : Founder, from : Founder, failed : Founder,
            phase : {"called", "removed", "notifying"}, list : List]
Spread == [at : Founder, failed : Founder,
           phase : {"started", "next", "waiting"}, left : List]

Call(at, from, failed) ==
  [at |-> at, from |-> from, failed |-> failed, phase |-> "called",
   list |-> {}]
Handled(at, from, failed) ==
  ~\E h \in handlers : h.at = at /\ h.from = from /\ h.failed = failed

DisseminationInit ==
  /\ up = Founder
  /\ members = [n \in Founder |-> Founder]
  /\ handlers = {} /\ spreads = {}
  /\ subscriber = [n \in Founder |-> IF n \in Late THEN "none" ELSE "streaming"]
  /\ channel = [n \in Founder |-> <<>>]
  /\ wire = [n \in Founder |-> <<>>]
  /\ losses = 0

-----------------------------------------------------------------------------
(* The BroadcastFailure handler.                                           *)

\* A mutant leaves the removal to the others when the report is its own.
RemovedForOthers(h) ==
  IF h.from = h.at THEN members[h.at] ELSE members[h.at] \ {h.failed}
Removed(h) == members[h.at] \ {h.failed}

Remove(h) ==
  /\ h.phase = "called"
  /\ members' = [members EXCEPT ![h.at] = Removed(h)]
  /\ handlers' = (handlers \ {h}) \cup {[h EXCEPT !.phase = "removed"]}
  /\ UNCHANGED <<up, losses, streamVars, spreads>>

\* notifySubscribers reads the list, which other handlers may have changed.
ReadList(h) ==
  /\ h.phase = "removed"
  /\ handlers' = (handlers \ {h}) \cup
       {[h EXCEPT !.phase = "notifying", !.list = members[h.at]]}
  /\ UNCHANGED <<serverVars, streamVars, spreads>>

\* A mutant's channel has no limit.
Queued(n, list) == Append(channel[n], list)
\* A full channel keeps the older list and drops this one.
Offered(n, list) == IF channel[n] = <<>> THEN <<list>> ELSE channel[n]

\* The subscriber is offered the list.  The node that found the failure spreads
\* it.
Notify(h) ==
  LET n == h.at
  IN /\ h.phase = "notifying"
     /\ channel' = [channel EXCEPT
          ![n] = IF subscriber[n] = "none" THEN @ ELSE Offered(n, h.list)]
     /\ spreads' = IF h.from = n
          THEN spreads \cup {[at |-> n, failed |-> h.failed,
                              phase |-> "started", left |-> {}]}
          ELSE spreads
     /\ handlers' = handlers \ {h}
     /\ UNCHANGED <<serverVars, subscriber, wire>>

Handle(h) == Remove(h) \/ ReadList(h) \/ Notify(h)

-----------------------------------------------------------------------------
(* BroadcastFailureToAll: one call after the other, none tried twice.      *)

\* A mutant tells the failed node too.
RecipientsAndFailed(s) == (members[s.at] \cup {s.failed}) \ {s.at}
Recipients(s) == members[s.at] \ {s.at}

First(nodes) == CHOOSE n \in nodes : \A m \in nodes : n <= m

Continue(s, left) ==
  (spreads \ {s}) \cup {r \in {[s EXCEPT !.phase = "next", !.left = left]} :
                          left # {}}

CopyList(s) ==
  /\ s.phase = "started"
  /\ spreads' = Continue(s, Recipients(s))
  /\ UNCHANGED <<serverVars, streamVars, handlers>>

CallNext(s) ==
  LET n == First(s.left)
  IN /\ s.phase = "next" /\ n \in up
     /\ handlers' = handlers \cup {Call(n, s.at, s.failed)}
     /\ spreads' = (spreads \ {s}) \cup {[s EXCEPT !.phase = "waiting"]}
     /\ UNCHANGED <<serverVars, streamVars>>

\* The call fails.
SkipNext(s) ==
  /\ s.phase = "next"
  /\ \/ First(s.left) \notin up /\ UNCHANGED losses
     \/ losses < MaxLosses /\ losses' = losses + 1
  /\ spreads' = Continue(s, s.left \ {First(s.left)})
  /\ UNCHANGED <<up, members, streamVars, handlers>>

CallOver(s) ==
  /\ s.phase = "waiting" /\ Handled(First(s.left), s.at, s.failed)
  /\ spreads' = Continue(s, s.left \ {First(s.left)})
  /\ UNCHANGED <<serverVars, streamVars, handlers>>

SpreadOn(s) == CopyList(s) \/ CallNext(s) \/ SkipNext(s) \/ CallOver(s)

-----------------------------------------------------------------------------
(* StreamMembership, called once by the node's own failure detector.       *)

Register(n) ==
  /\ n \in up /\ subscriber[n] = "none"
  /\ subscriber' = [subscriber EXCEPT ![n] = "registered"]
  /\ UNCHANGED <<serverVars, channel, wire, handlers, spreads>>

\* The current list is sent, whatever the channel holds by now.
SendCurrent(n) ==
  /\ subscriber[n] = "registered"
  /\ subscriber' = [subscriber EXCEPT ![n] = "streaming"]
  /\ wire' = [wire EXCEPT ![n] = Append(@, members[n])]
  /\ UNCHANGED <<serverVars, channel, handlers, spreads>>

SendUpdate(n) ==
  /\ subscriber[n] = "streaming" /\ channel[n] # <<>>
  /\ wire' = [wire EXCEPT ![n] = @ \o channel[n]]
  /\ channel' = [channel EXCEPT ![n] = <<>>]
  /\ UNCHANGED <<serverVars, subscriber, handlers, spreads>>

Stream(n) == Register(n) \/ SendCurrent(n) \/ SendUpdate(n)

-----------------------------------------------------------------------------
\* The container of n stops: its calls, goroutines and stream are gone.  The
\* calls it made go on where they are handled.
ServerStops(n) ==
  /\ n \in up
  /\ up' = up \ {n}
  /\ handlers' = {h \in handlers : h.at # n}
  /\ spreads' = {s \in spreads : s.at # n}
  /\ subscriber' = [subscriber EXCEPT ![n] = "none"]
  /\ channel' = [channel EXCEPT ![n] = <<>>]
  /\ wire' = [wire EXCEPT ![n] = <<>>]
  /\ UNCHANGED <<members, losses>>

-----------------------------------------------------------------------------
Handling(n) == \E h \in handlers : h.at = n /\ Handle(h)
Spreading(n) == \E s \in spreads : s.at = n /\ SpreadOn(s)
Disseminate(n) == Handling(n) \/ Spreading(n)

DisseminationTypeOK ==
  /\ up \subseteq Founder
  /\ members \in [Founder -> List]
  /\ handlers \subseteq Handler
  /\ spreads \subseteq Spread
  /\ \A s \in spreads : s.phase = "started" <=> s.left = {}
  /\ subscriber \in [Founder -> {"none", "registered", "streaming"}]
  /\ channel \in [Founder -> Seq(List)]
  /\ \A n \in Founder : Len(channel[n]) <= 1
  /\ wire \in [Founder -> Seq(List)]
  /\ losses \in Nat
=============================================================================
