----------------------------- MODULE Swim_proofs -----------------------------
(***************************************************************************)
(* Proofs about Swim, for any nodes, helpers and faults.                   *)
(*                                                                         *)
(* A membership list only shrinks, so every list on its way to the         *)
(* detector, read earlier, has all its members.  What the detector takes   *)
(* off its own list is in a report until the server has taken it off.      *)
(***************************************************************************)
EXTENDS Swim, TLAPS, WellFoundedInduction, FiniteSetTheorems

LEMMA FirstIsLeast ==
  ASSUME NEW nodes \in SUBSET Founder, nodes # {}
  PROVE  First(nodes) \in nodes
  <1> DEFINE R == OpToRel(<, Nat)
  <1>1. \E n \in nodes : \A m \in nodes : <<m, n>> \notin R
    BY FounderAssumption, NatLessThanWellFounded, WFMin
  <1>2. R = {p \in Nat \X Nat : p[1] < p[2]}
    BY DEF OpToRel
  <1> HIDE DEF R
  <1>3. nodes \subseteq Nat
    BY FounderAssumption
  <1>4. PICK n \in nodes : \A m \in nodes : ~(m < n)
    BY <1>1, <1>2, <1>3
  <1>5. \A m \in nodes : n <= m
    BY <1>3, <1>4
  <1> QED
    BY <1>4, <1>5 DEF First

-----------------------------------------------------------------------------
(* The invariant, by the variables of its parts.                           *)

ServerOK ==
  /\ up \subseteq Founder /\ losses \in Nat
  /\ members \in [Founder -> List]
  /\ \A n \in Founder : n \in members[n]

\* A report that has passed its first section is done.
HandlersOK ==
  /\ handlers \subseteq Handler
  /\ \A h \in handlers :
       /\ h.failed # h.at
       /\ h.phase # "called" => h.failed \notin members[h.at]
       /\ h.phase = "notifying" => members[h.at] \subseteq h.list

SpreadsOK ==
  /\ spreads \subseteq Spread
  /\ \A s \in spreads :
       /\ s.phase = "started" <=> s.left = {}
       /\ s.failed \notin members[s.at] /\ s.failed \notin s.left

\* The lists that were read at n: members[n] has only shrunk since.
Views(n) == {list \in List : members[n] \subseteq list}

StreamsOK ==
  /\ subscriber \in [Founder -> {"none", "registered", "streaming"}]
  /\ channel \in [Founder -> Seq(List)]
  /\ wire \in [Founder -> Seq(List)]
  /\ \A n \in Founder : /\ Len(channel[n]) <= 1
                        /\ channel[n] \in Seq(Views(n))
                        /\ wire[n] \in Seq(Views(n))

ListsOK ==
  /\ fdList \in [Node -> List]
  /\ \A n \in Founder : n \in fdList[n]

ProbeState == [phase : Phase, target : Node \cup {NoOne}, helpers : List]

ProbesOK ==
  /\ probe \in [Node -> ProbeState]
  /\ \A n \in Node :
       probe[n].phase # "idle" => probe[n].target \in Founder \ {n}

\* A report is waited for until the server has taken the target off.
ReportsOK ==
  \A n \in Founder :
    probe[n].phase = "reporting" =>
      \/ probe[n].target \notin members[n]
      \/ Call(n, n, probe[n].target) \in handlers

IInv ==
  /\ ServerOK /\ HandlersOK /\ SpreadsOK /\ StreamsOK
  /\ ListsOK /\ ProbesOK /\ ReportsOK
  /\ DetectorKnowsMembers

LEMMA Implied == IInv => TypeOK /\ KeepsItself
  BY DEF IInv, ServerOK, HandlersOK, SpreadsOK, StreamsOK, ListsOK, ProbesOK,
     ProbeState, TypeOK, DisseminationTypeOK, KeepsItself

LEMMA InitInvariant == Init => IInv
  <1> SUFFICES ASSUME Init PROVE IInv
    OBVIOUS
  <1> USE FounderAssumption DEF Init, DisseminationInit
  <1>1. ServerOK /\ HandlersOK /\ SpreadsOK
    BY DEF ServerOK, HandlersOK, SpreadsOK, List
  <1>2. StreamsOK
    <2>1. \A S : <<>> \in Seq(S) /\ Len(<<>>) = 0
      OBVIOUS
    <2> QED
      BY <2>1 DEF StreamsOK
  <1>3. ListsOK /\ ProbesOK /\ ReportsOK
    BY DEF ListsOK, ProbesOK, ReportsOK, ProbeState, Idle, Phase, List, Node
  <1>4. DetectorKnowsMembers
    BY DEF DetectorKnowsMembers, Node, Idle
  <1> QED
    BY <1>1, <1>2, <1>3, <1>4 DEF IInv

-----------------------------------------------------------------------------
\* What a step leaves alone, it keeps.
LEMMA Kept ==
  ASSUME IInv
  PROVE  /\ UNCHANGED serverVars => ServerOK'
         /\ UNCHANGED <<members, handlers>> => HandlersOK'
         /\ UNCHANGED <<members, spreads>> => SpreadsOK'
         /\ UNCHANGED <<members, streamVars>> => StreamsOK'
         /\ UNCHANGED fdList => ListsOK'
         /\ UNCHANGED probe => ProbesOK'
         /\ UNCHANGED <<members, handlers, probe>> => ReportsOK'
         /\ UNCHANGED <<up, members, fdList, probe>> => DetectorKnowsMembers'
  <1> USE DEF IInv
  <1>1. UNCHANGED serverVars => ServerOK'
    BY DEF ServerOK, serverVars
  <1>2. UNCHANGED <<members, handlers>> => HandlersOK'
    BY DEF HandlersOK
  <1>3. UNCHANGED <<members, spreads>> => SpreadsOK'
    BY DEF SpreadsOK
  <1>4. UNCHANGED <<members, streamVars>> => StreamsOK'
    BY DEF StreamsOK, streamVars, Views
  <1>5. UNCHANGED fdList => ListsOK'
    BY DEF ListsOK
  <1>6. UNCHANGED probe => ProbesOK'
    BY DEF ProbesOK
  <1>7. UNCHANGED <<members, handlers, probe>> => ReportsOK'
    BY DEF ReportsOK
  <1>8. UNCHANGED <<up, members, fdList, probe>> => DetectorKnowsMembers'
    BY DEF DetectorKnowsMembers
  <1> QED
    BY <1>1, <1>2, <1>3, <1>4, <1>5, <1>6, <1>7, <1>8

-----------------------------------------------------------------------------
(* The dissemination component.                                            *)

LEMMA RemoveStep ==
  ASSUME IInv, NEW h \in handlers, Remove(h), UNCHANGED detectorVars
  PROVE  IInv'
  <1> DEFINE g == [h EXCEPT !.phase = "removed"]
  <1>1. /\ h \in Handler /\ g \in Handler /\ h.failed # h.at
        /\ g.phase = "removed" /\ g.at = h.at /\ g.from = h.from
        /\ g.failed = h.failed /\ h.phase = "called"
    BY DEF IInv, HandlersOK, Handler, Remove
  <1>2. handlers' = (handlers \ {h}) \cup {g}
    BY DEF Remove
  <1> HIDE DEF g
  <1>3. /\ members' \in [Founder -> List]
        /\ members'[h.at] = members[h.at] \ {h.failed}
        /\ \A n \in Founder \ {h.at} : members'[n] = members[n]
        /\ \A n \in Founder : n \in members'[n]
    BY <1>1 DEF IInv, ServerOK, Remove, Removed, List, Handler
  <1>4. /\ UNCHANGED <<up, losses, subscriber, channel, wire, spreads>>
        /\ UNCHANGED <<fdList, probe>>
    BY DEF Remove, streamVars, detectorVars
  <1>5. ServerOK'
    BY <1>3, <1>4 DEF IInv, ServerOK
  <1>6. HandlersOK'
    BY <1>1, <1>2, <1>3 DEF IInv, HandlersOK, Handler
  <1>7. SpreadsOK'
    BY <1>3, <1>4 DEF IInv, SpreadsOK, Spread
  <1>8. StreamsOK'
    <2> DEFINE NewViews(n) == {list \in List : members'[n] \subseteq list}
    <2>1. ASSUME NEW n \in Founder
          PROVE  Seq(Views(n)) \subseteq Seq(NewViews(n))
      <3>1. Views(n) \subseteq NewViews(n)
        BY <1>3 DEF Views
      <3> HIDE DEF NewViews
      <3> QED
        BY <3>1
    <2> QED
      BY <1>4, <2>1 DEF IInv, StreamsOK, Views
  <1>9. ListsOK' /\ ProbesOK'
    BY <1>4, Kept
  <1>10. ReportsOK'
    <2> SUFFICES ASSUME NEW n \in Founder, probe[n].phase = "reporting"
                 PROVE  \/ probe[n].target \notin members'[n]
                        \/ Call(n, n, probe[n].target) \in handlers'
      BY <1>4 DEF ReportsOK
    <2>1. CASE probe[n].target \notin members[n]
      BY <1>3, <2>1
    <2>2. CASE Call(n, n, probe[n].target) = h
      BY <1>3, <2>2 DEF Call
    <2>3. CASE Call(n, n, probe[n].target) \in handlers \ {h}
      BY <1>2, <2>3
    <2> QED
      BY <2>1, <2>2, <2>3 DEF IInv, ReportsOK
  <1>11. DetectorKnowsMembers'
    BY <1>3, <1>4 DEF IInv, ServerOK, DetectorKnowsMembers
  <1> QED
    BY <1>5, <1>6, <1>7, <1>8, <1>9, <1>10, <1>11 DEF IInv

LEMMA ReadListStep ==
  ASSUME IInv, NEW h \in handlers, ReadList(h), UNCHANGED detectorVars
  PROVE  IInv'
  <1> DEFINE g == [h EXCEPT !.phase = "notifying", !.list = members[h.at]]
  <1>1. h \in Handler /\ members[h.at] \in List /\ h.phase = "removed"
    BY DEF IInv, HandlersOK, ServerOK, Handler, ReadList
  <1>2. /\ g \in Handler
        /\ g.at = h.at /\ g.from = h.from /\ g.failed = h.failed
        /\ g.list = members[h.at]
    BY <1>1 DEF Handler
  <1>3. handlers' = (handlers \ {h}) \cup {g}
    BY DEF ReadList
  <1> HIDE DEF g
  <1>4. UNCHANGED <<serverVars, streamVars, spreads, detectorVars, members>>
    BY DEF ReadList, serverVars
  <1>5. /\ ServerOK' /\ SpreadsOK' /\ StreamsOK' /\ ListsOK' /\ ProbesOK'
        /\ DetectorKnowsMembers'
    BY <1>4, Kept DEF serverVars, detectorVars
  <1>6. HandlersOK'
    BY <1>1, <1>2, <1>3, <1>4 DEF IInv, HandlersOK
  <1>7. ReportsOK'
    BY <1>1, <1>3, <1>4 DEF IInv, ReportsOK, Call, detectorVars
  <1> QED
    BY <1>5, <1>6, <1>7 DEF IInv

LEMMA NotifyStep ==
  ASSUME IInv, NEW h \in handlers, Notify(h), UNCHANGED detectorVars
  PROVE  IInv'
  <1> DEFINE r == [at |-> h.at, failed |-> h.failed, phase |-> "started",
                   left |-> {}]
  <1>1. /\ h \in Handler /\ h.phase = "notifying"
        /\ h.at \in Founder /\ h.list \in Views(h.at)
        /\ h.failed \notin members[h.at]
    BY DEF IInv, HandlersOK, Handler, Notify, Views
  <1>2. UNCHANGED <<serverVars, subscriber, wire, detectorVars, members>>
        /\ handlers' = handlers \ {h}
    BY DEF Notify, serverVars
  <1>3. ServerOK' /\ ListsOK' /\ ProbesOK' /\ DetectorKnowsMembers'
    BY <1>2, Kept DEF serverVars, detectorVars
  <1>4. HandlersOK'
    BY <1>2 DEF IInv, HandlersOK
  <1>5. SpreadsOK'
    <2>1. /\ r \in Spread /\ r.phase = "started" /\ r.left = {}
          /\ r.failed \notin members[r.at]
      BY <1>1 DEF Handler, Spread, List
    <2>2. spreads' \subseteq spreads \cup {r}
      BY DEF Notify
    <2> HIDE DEF r
    <2> QED
      BY <1>1, <1>2, <2>1, <2>2 DEF IInv, SpreadsOK
  <1>6. StreamsOK'
    <2> DEFINE n == h.at
    <2>1. Offered(n, h.list) \in Seq(Views(n)) /\ Len(Offered(n, h.list)) <= 1
      <3>1. <<h.list>> \in Seq(Views(n)) /\ Len(<<h.list>>) = 1
        BY <1>1
      <3>2. channel[n] \in Seq(Views(n)) /\ Len(channel[n]) <= 1
        BY <1>1 DEF IInv, StreamsOK
      <3>3. Offered(n, h.list) \in {<<h.list>>, channel[n]}
        BY DEF Offered
      <3> QED
        BY <3>1, <3>2, <3>3
    <2>2. Seq(Views(n)) \subseteq Seq(List)
      BY DEF Views
    <2>3. PICK q : /\ q \in Seq(Views(n)) /\ q \in Seq(List) /\ Len(q) <= 1
                   /\ channel' = [channel EXCEPT ![n] = q]
      BY <1>1, <2>1, <2>2 DEF IInv, StreamsOK, Notify
    <2>4. ASSUME NEW m \in Founder PROVE Views(m)' = Views(m)
      BY <1>2 DEF Views
    <2> QED
      BY <1>1, <1>2, <2>3, <2>4 DEF IInv, StreamsOK
  <1>7. ReportsOK'
    BY <1>1, <1>2 DEF IInv, ReportsOK, Call, detectorVars
  <1> QED
    BY <1>3, <1>4, <1>5, <1>6, <1>7 DEF IInv

LEMMA SpreadStep ==
  ASSUME IInv, NEW s \in spreads, SpreadOn(s), UNCHANGED detectorVars
  PROVE  IInv'
  <1>1. /\ s \in Spread /\ s.at \in Founder /\ s.failed \in Founder
        /\ s.left \in List /\ (s.phase = "started" <=> s.left = {})
        /\ s.failed \notin members[s.at] /\ s.failed \notin s.left
    BY DEF IInv, SpreadsOK, Spread
  <1>2. UNCHANGED <<up, members, streamVars, detectorVars>>
    BY DEF SpreadOn, CopyList, CallNext, SkipNext, CallOver, serverVars
  <1>3. ServerOK'
    BY <1>2 DEF IInv, ServerOK, SpreadOn, CopyList, CallNext, SkipNext,
       CallOver, serverVars
  <1>4. StreamsOK' /\ ListsOK' /\ ProbesOK' /\ DetectorKnowsMembers'
    BY <1>2, Kept DEF detectorVars
  <1>5. ASSUME NEW left \in List, s.failed \notin left,
               spreads' = Continue(s, left)
        PROVE  SpreadsOK'
    <2> DEFINE r == [s EXCEPT !.phase = "next", !.left = left]
    <2>1. /\ r \in Spread /\ r.phase = "next" /\ r.left = left
          /\ r.at = s.at /\ r.failed = s.failed
      BY <1>1, <1>5 DEF Spread
    <2>2. \A q \in spreads' : q \in spreads \/ (q = r /\ left # {})
      BY <1>5 DEF Continue
    <2> HIDE DEF r
    <2> QED
      BY <1>1, <1>2, <1>5, <2>1, <2>2 DEF IInv, SpreadsOK
  <1>6. CASE CopyList(s)
    <2>1. Recipients(s) \in List /\ s.failed \notin Recipients(s)
      BY <1>1 DEF IInv, ServerOK, Recipients, List
    <2>2. SpreadsOK'
      BY <1>5, <1>6, <2>1 DEF CopyList
    <2>3. HandlersOK' /\ ReportsOK'
      BY <1>2, <1>6, Kept DEF CopyList, detectorVars
    <2> QED
      BY <1>3, <1>4, <2>2, <2>3 DEF IInv
  <1>7. CASE SkipNext(s) \/ CallOver(s)
    <2>1. /\ s.left \ {First(s.left)} \in List
          /\ s.failed \notin s.left \ {First(s.left)}
      BY <1>1 DEF List
    <2>2. SpreadsOK'
      BY <1>5, <1>7, <2>1 DEF SkipNext, CallOver
    <2>3. HandlersOK' /\ ReportsOK'
      BY <1>2, <1>7, Kept DEF SkipNext, CallOver, detectorVars
    <2> QED
      BY <1>3, <1>4, <2>2, <2>3 DEF IInv
  <1>8. CASE CallNext(s)
    <2> DEFINE n == First(s.left)
               r == [s EXCEPT !.phase = "waiting"]
    <2>1. /\ n \in s.left /\ n \in Founder /\ n # s.failed
          /\ s.phase = "next"
      BY <1>1, <1>8, FirstIsLeast DEF CallNext, List
    <2>2. /\ r \in Spread /\ r.phase = "waiting" /\ r.left = s.left
          /\ r.at = s.at /\ r.failed = s.failed
      BY <1>1 DEF Spread
    <2>3. spreads' = (spreads \ {s}) \cup {r}
      BY <1>8 DEF CallNext
    <2>4. SpreadsOK'
      <3> HIDE DEF r, n
      <3> QED
        BY <1>1, <1>2, <2>1, <2>2, <2>3 DEF IInv, SpreadsOK
    <2>5. handlers' = handlers \cup {Call(n, s.at, s.failed)}
      BY <1>8 DEF CallNext
    <2>6. HandlersOK'
      <3>1. Call(n, s.at, s.failed) \in Handler
        BY <1>1, <2>1 DEF Call, Handler, List
      <3> HIDE DEF n
      <3> QED
        BY <1>2, <2>1, <2>5, <3>1, SMTT(30) DEF IInv, HandlersOK, Call
    <2>7. ReportsOK'
      BY <1>2, <2>5 DEF IInv, ReportsOK, detectorVars
    <2> QED
      BY <1>3, <1>4, <2>4, <2>6, <2>7 DEF IInv
  <1> QED
    BY <1>6, <1>7, <1>8 DEF SpreadOn

LEMMA StreamStep ==
  ASSUME IInv, NEW n \in Founder, Stream(n), UNCHANGED detectorVars
  PROVE  IInv'
  <1>1. UNCHANGED <<serverVars, handlers, spreads, detectorVars, members>>
    BY DEF Stream, Register, SendCurrent, SendUpdate, serverVars
  <1>2. /\ ServerOK' /\ HandlersOK' /\ SpreadsOK' /\ ListsOK' /\ ProbesOK'
        /\ ReportsOK' /\ DetectorKnowsMembers'
    BY <1>1, Kept DEF serverVars, detectorVars
  <1>3. \A m \in Founder : Views(m)' = Views(m)
    BY <1>1 DEF Views
  <1>4. /\ Seq(Views(n)) \subseteq Seq(List)
        /\ wire[n] \in Seq(Views(n)) /\ channel[n] \in Seq(Views(n))
        /\ <<>> \in Seq(Views(n)) /\ Len(<<>>) <= 1
    <2>1. Seq(Views(n)) \subseteq Seq(List)
      BY DEF Views
    <2>2. \A S : <<>> \in Seq(S) /\ Len(<<>>) <= 1
      OBVIOUS
    <2> QED
      BY <2>1, <2>2 DEF IInv, StreamsOK
  <1>5. ASSUME Register(n) PROVE StreamsOK'
    BY <1>3, <1>5 DEF IInv, StreamsOK, Register
  <1>6. ASSUME SendCurrent(n) PROVE StreamsOK'
    <2>1. members[n] \in Views(n)
      BY DEF IInv, ServerOK, Views
    <2>2. Append(wire[n], members[n]) \in Seq(Views(n))
      BY <1>4, <2>1
    <2>3. PICK q : /\ q \in Seq(Views(n)) /\ q \in Seq(List)
                   /\ wire' = [wire EXCEPT ![n] = q]
      BY <1>4, <1>6, <2>2 DEF SendCurrent
    <2> QED
      BY <1>3, <1>6, <2>3 DEF IInv, StreamsOK, SendCurrent
  <1>7. ASSUME SendUpdate(n) PROVE StreamsOK'
    <2>1. wire[n] \o channel[n] \in Seq(Views(n))
      BY <1>4
    <2>2. PICK q : /\ q \in Seq(Views(n)) /\ q \in Seq(List)
                   /\ wire' = [wire EXCEPT ![n] = q]
      BY <1>4, <1>7, <2>1 DEF SendUpdate
    <2>3. PICK e : /\ e \in Seq(Views(n)) /\ e \in Seq(List) /\ Len(e) <= 1
                   /\ channel' = [channel EXCEPT ![n] = e]
      BY <1>4, <1>7 DEF SendUpdate
    <2> QED
      BY <1>3, <1>7, <2>2, <2>3 DEF IInv, StreamsOK, SendUpdate
  <1>8. StreamsOK'
    BY <1>5, <1>6, <1>7 DEF Stream
  <1> QED
    BY <1>2, <1>8 DEF IInv

-----------------------------------------------------------------------------
(* The detector.                                                           *)

\* Steps that change one probe, to anything but a report.
LEMMA ProbeStep ==
  ASSUME IInv, NEW n \in Node, NEW p \in ProbeState,
         p.phase # "idle" => p.target \in Founder \ {n},
         p.phase # "reporting",
         n \in up => members[n] \subseteq fdList[n],
         probe' = [probe EXCEPT ![n] = p], losses' \in Nat,
         UNCHANGED <<up, members, streamVars, handlers, spreads, fdList>>
  PROVE  IInv'
  <1>1. ServerOK'
    BY DEF IInv, ServerOK
  <1>2. HandlersOK' /\ SpreadsOK' /\ StreamsOK' /\ ListsOK'
    BY Kept
  <1>3. /\ probe' \in [Node -> ProbeState] /\ probe'[n] = p
        /\ \A m \in Node \ {n} : probe'[m] = probe[m]
    BY DEF IInv, ProbesOK
  <1>4. ProbesOK'
    BY <1>3 DEF IInv, ProbesOK
  <1>5. ReportsOK'
    BY <1>3 DEF IInv, ReportsOK, Node
  <1>6. DetectorKnowsMembers'
    BY <1>3 DEF IInv, ServerOK, DetectorKnowsMembers, Node
  <1> QED
    BY <1>1, <1>2, <1>4, <1>5, <1>6 DEF IInv

\* A detector that does not wait for a report has all members.
LEMMA KnowsAll ==
  ASSUME IInv, NEW n \in up, probe[n].phase # "reporting"
  PROVE  members[n] \subseteq fdList[n]
  BY DEF IInv, DetectorKnowsMembers

LEMMA FailsLosses ==
  ASSUME IInv, NEW m, Fails(m)
  PROVE  losses' \in Nat
  BY DEF IInv, ServerOK, Fails

LEMMA AskState ==
  ASSUME IInv, NEW n \in Node, NEW helpers \in List
  PROVE  /\ Ask(n, helpers) \in ProbeState
         /\ Ask(n, helpers).phase \in {"marking", "asking"}
         /\ Ask(n, helpers).target = probe[n].target
  <1>1. probe[n] \in ProbeState
    BY DEF IInv, ProbesOK
  <1> QED
    BY <1>1 DEF Ask, ProbeState, Phase

LEMMA IdleState == Idle \in ProbeState /\ Idle.phase = "idle"
  BY DEF Idle, ProbeState, Phase, List

LEMMA ProbingStep ==
  ASSUME IInv, NEW n \in Node,
         \/ \E target \in Node : Choose(n, target)
         \/ PingAnswered(n) \/ PingFails(n)
         \/ \E h \in Node : HelperConfirms(n, h) \/ HelperFails(n, h)
  PROVE  IInv'
  <1>1. /\ probe[n] \in ProbeState
        /\ probe[n].phase # "idle" => probe[n].target \in Founder \ {n}
        /\ fdList[n] \in List
    BY DEF IInv, ProbesOK, ListsOK
  <1>2. ASSUME probe[n].phase # "reporting", n \in up
        PROVE  members[n] \subseteq fdList[n]
    BY <1>2, KnowsAll
  <1>3. ASSUME NEW target \in Node, Choose(n, target)
        PROVE  IInv'
    <2> DEFINE p == [phase |-> "pinging", target |-> target, helpers |-> {}]
    <2>1. /\ p \in ProbeState /\ p.phase = "pinging" /\ p.target = target
          /\ target \in Founder \ {n}
      BY <1>1, <1>3 DEF Choose, ProbeState, Phase, List
    <2>2. /\ probe' = [probe EXCEPT ![n] = p] /\ probe[n].phase = "idle"
          /\ UNCHANGED <<up, members, losses, streamVars, handlers, spreads,
                         fdList>>
      BY <1>3 DEF Choose, disseminationVars, serverVars
    <2>3. losses' \in Nat
      BY <2>2 DEF IInv, ServerOK
    <2> HIDE DEF p
    <2> QED
      BY <1>2, <2>1, <2>2, <2>3, ProbeStep
  <1>4. ASSUME PingAnswered(n) \/ \E h \in Node : HelperConfirms(n, h)
        PROVE  IInv'
    <2>1. /\ probe' = [probe EXCEPT ![n] = Idle]
          /\ probe[n].phase # "reporting"
          /\ UNCHANGED <<up, members, losses, streamVars, handlers, spreads,
                         fdList>>
      BY <1>4 DEF PingAnswered, HelperConfirms, disseminationVars, serverVars
    <2>2. losses' \in Nat
      BY <2>1 DEF IInv, ServerOK
    <2> QED
      BY <1>2, <2>1, <2>2, IdleState, ProbeStep
  <1>5. ASSUME NEW helpers \in List, probe' = [probe EXCEPT ![n] = Ask(n, helpers)],
               losses' \in Nat, probe[n].phase \in {"pinging", "asking"},
               UNCHANGED <<up, members, streamVars, handlers, spreads, fdList>>
        PROVE  IInv'
    <2>1. /\ Ask(n, helpers) \in ProbeState
          /\ Ask(n, helpers).phase # "reporting"
          /\ Ask(n, helpers).target \in Founder \ {n}
      BY <1>1, <1>5, AskState
    <2> QED
      BY <1>2, <1>5, <2>1, ProbeStep
  <1>6. ASSUME PingFails(n) PROVE IInv'
    <2>1. PICK helpers \in HelperSets(n) :
            probe' = [probe EXCEPT ![n] = Ask(n, helpers)]
      BY <1>6 DEF PingFails
    <2>2. helpers \in List
      BY <1>1, <2>1 DEF HelperSets, List
    <2>3. losses' \in Nat
      BY <1>6, FailsLosses DEF PingFails
    <2> QED
      BY <1>5, <1>6, <2>1, <2>2, <2>3 DEF PingFails
  <1>7. ASSUME NEW h \in Node, HelperFails(n, h) PROVE IInv'
    <2> DEFINE helpers == probe[n].helpers \ {h}
    <2>1. probe' = [probe EXCEPT ![n] = Ask(n, helpers)]
      BY <1>7 DEF HelperFails
    <2>2. helpers \in List
      BY <1>1 DEF ProbeState, List
    <2>3. losses' \in Nat
      BY <1>7, FailsLosses DEF HelperFails
    <2> HIDE DEF helpers
    <2> QED
      BY <1>5, <1>7, <2>1, <2>2, <2>3 DEF HelperFails
  <1> QED
    BY <1>3, <1>4, <1>6, <1>7

LEMMA JoinStep ==
  ASSUME IInv, NEW n \in Node, Join(n)
  PROVE  IInv'
  <1>1. /\ n \in Joiner /\ n \notin Founder /\ UNCHANGED <<disseminationVars, probe>>
        /\ members[Bootstrap] \in List
        /\ fdList' = [fdList EXCEPT ![n] = members[Bootstrap]]
    BY NodeAssumption DEF Join, IInv, ServerOK
  <1>2. /\ ServerOK' /\ HandlersOK' /\ SpreadsOK' /\ StreamsOK' /\ ProbesOK'
        /\ ReportsOK'
    BY <1>1, Kept DEF disseminationVars, serverVars
  <1>3. ListsOK'
    BY <1>1 DEF IInv, ListsOK, Node
  <1>4. DetectorKnowsMembers'
    BY <1>1 DEF IInv, ServerOK, ListsOK, DetectorKnowsMembers, Node,
       disseminationVars, serverVars
  <1> QED
    BY <1>2, <1>3, <1>4 DEF IInv

\* A report, after which the target may be missing on the detector's list.
LEMMA ReportStep ==
  ASSUME IInv, NEW n \in Node, Report(n),
         probe[n].phase \in {"marking", "removing"},
         \/ UNCHANGED fdList
         \/ fdList' = [fdList EXCEPT ![n] = @ \ {probe[n].target}],
         UNCHANGED <<serverVars, streamVars, spreads>>
  PROVE  IInv'
  <1> DEFINE t == probe[n].target
  <1>1. /\ probe[n] \in ProbeState /\ t \in Founder \ {n}
        /\ fdList[n] \in List /\ UNCHANGED <<up, members, losses>>
    BY DEF IInv, ProbesOK, ListsOK, serverVars
  <1>2. ServerOK' /\ SpreadsOK' /\ StreamsOK'
    BY <1>1, Kept
  <1>3. ListsOK'
    <2>1. CASE UNCHANGED fdList
      BY <2>1, Kept
    <2>2. CASE fdList' = [fdList EXCEPT ![n] = @ \ {t}]
      <3>1. fdList[n] \ {t} \in List
        BY <1>1 DEF List
      <3> HIDE DEF t
      <3> QED
        BY <1>1, <2>2, <3>1 DEF IInv, ListsOK
    <2> QED
      BY <2>1, <2>2
  <1>4. CASE n \in Joiner
    <2>1. n \notin Founder /\ UNCHANGED handlers
          /\ probe' = [probe EXCEPT ![n] = Idle]
      BY <1>4, NodeAssumption DEF Report
    <2>2. HandlersOK'
      BY <1>1, <2>1, Kept
    <2>3. ProbesOK'
      BY <2>1, IdleState DEF IInv, ProbesOK
    <2>4. ReportsOK'
      BY <1>1, <2>1 DEF IInv, ProbesOK, ReportsOK, Node
    <2>5. DetectorKnowsMembers'
      BY <1>1, <2>1
      DEF IInv, ServerOK, ProbesOK, ListsOK, DetectorKnowsMembers, Node
    <2> QED
      BY <1>2, <1>3, <2>2, <2>3, <2>4, <2>5 DEF IInv
  <1>5. CASE n \notin Joiner
    <2> DEFINE p == [probe[n] EXCEPT !.phase = "reporting"]
    <2>1. /\ n \in Founder
          /\ handlers' = handlers \cup {Call(n, n, t)}
          /\ probe' = [probe EXCEPT ![n] = p]
      BY <1>5 DEF Report, Node
    <2>2. p \in ProbeState /\ p.phase = "reporting" /\ p.target = t
      BY <1>1 DEF ProbeState, Phase
    <2> HIDE DEF p
    <2>3. /\ probe' \in [Node -> ProbeState] /\ probe'[n] = p
          /\ \A m \in Node \ {n} : probe'[m] = probe[m]
      BY <2>1, <2>2 DEF IInv, ProbesOK
    <2>4. HandlersOK'
      <3>1. Call(n, n, t) \in Handler
        BY <1>1, <2>1 DEF Call, Handler, List
      <3>2. /\ Call(n, n, t).phase = "called"
            /\ Call(n, n, t).at = n /\ Call(n, n, t).failed = t
        BY DEF Call
      <3> DEFINE h == Call(n, n, t)
      <3> HIDE DEF h
      <3> QED
        BY <1>1, <2>1, <3>1, <3>2 DEF IInv, HandlersOK, h
    <2>5. ProbesOK'
      BY <1>1, <2>2, <2>3 DEF IInv, ProbesOK
    <2>6. ReportsOK'
      BY <1>1, <2>1, <2>2, <2>3 DEF IInv, ReportsOK, Node
    <2>7. DetectorKnowsMembers'
      <3> SUFFICES ASSUME NEW m \in up
                   PROVE  members[m] \subseteq fdList'[m] \cup
                            (IF probe'[m].phase = "reporting"
                               THEN {probe'[m].target} ELSE {})
        BY <1>1 DEF DetectorKnowsMembers
      <3>1. m \in Node /\ fdList[m] \in List
        BY DEF IInv, ServerOK, ListsOK, Node
      <3>2. CASE m = n
        <4>1. members[n] \subseteq fdList[n]
          BY <3>2, KnowsAll
        <4>2. fdList[n] \subseteq fdList'[n] \cup {t}
          BY DEF IInv, ListsOK
        <4> QED
          BY <2>2, <2>3, <3>2, <4>1, <4>2
      <3>3. CASE m # n
        <4>1. fdList'[m] = fdList[m]
          BY <3>1, <3>3 DEF IInv, ListsOK
        <4> QED
          BY <2>3, <3>1, <3>3, <4>1 DEF IInv, DetectorKnowsMembers
      <3> QED
        BY <3>2, <3>3
    <2> QED
      BY <1>2, <1>3, <2>4, <2>5, <2>6, <2>7 DEF IInv
  <1> QED
    BY <1>4, <1>5

LEMMA MarkingStep ==
  ASSUME IInv, NEW n \in Node, MarkFailed(n) \/ RemoveTarget(n) \/ Reported(n)
  PROVE  IInv'
  <1>1. /\ probe[n] \in ProbeState
        /\ probe[n].phase # "idle" => probe[n].target \in Founder \ {n}
    BY DEF IInv, ProbesOK
  <1>2. CASE MarkFailed(n)
    <2>1. CASE probe[n].target \in fdList[n]
      <3> DEFINE p == [probe[n] EXCEPT !.phase = "removing"]
      <3>1. /\ p \in ProbeState /\ p.phase = "removing"
            /\ p.target = probe[n].target /\ p.target \in Founder \ {n}
        BY <1>1, <1>2 DEF ProbeState, Phase, MarkFailed
      <3>2. /\ probe' = [probe EXCEPT ![n] = p]
            /\ probe[n].phase # "reporting"
            /\ UNCHANGED <<up, members, losses, streamVars, handlers, spreads,
                           fdList>>
        BY <1>2, <2>1 DEF MarkFailed, serverVars
      <3>3. losses' \in Nat
        BY <3>2 DEF IInv, ServerOK
      <3>4. n \in up => members[n] \subseteq fdList[n]
        BY <3>2, KnowsAll
      <3> HIDE DEF p
      <3> QED
        BY <3>1, <3>2, <3>3, <3>4, ProbeStep
    <2>2. CASE probe[n].target \notin fdList[n]
      BY <1>2, <2>2, ReportStep DEF MarkFailed
    <2> QED
      BY <2>1, <2>2
  <1>3. CASE RemoveTarget(n)
    BY <1>3, ReportStep DEF RemoveTarget
  <1>4. CASE Reported(n)
    <2>1. /\ probe' = [probe EXCEPT ![n] = Idle]
          /\ Handled(n, n, probe[n].target)
          /\ probe[n].phase = "reporting"
          /\ UNCHANGED <<up, members, losses, streamVars, handlers, spreads,
                         fdList>>
      BY <1>4 DEF Reported, disseminationVars, serverVars
    <2>2. losses' \in Nat
      BY <2>1 DEF IInv, ServerOK
    <2>3. ASSUME n \in up PROVE members[n] \subseteq fdList[n]
      <3>1. Call(n, n, probe[n].target) \notin handlers
        BY <2>1 DEF Handled, Call
      <3>2. probe[n].target \notin members[n]
        BY <2>1, <2>3, <3>1 DEF IInv, ServerOK, ReportsOK
      <3> QED
        BY <2>1, <2>3, <3>2 DEF IInv, DetectorKnowsMembers
    <2> QED
      BY <2>1, <2>2, <2>3, IdleState, ProbeStep
  <1> QED
    BY <1>2, <1>3, <1>4

LEMMA StopsStep ==
  ASSUME IInv, NEW n \in Node, Stops(n)
  PROVE  IInv'
  <1>1. /\ n \in up /\ n \in Founder /\ up' = up \ {n}
        /\ handlers' = {h \in handlers : h.at # n}
        /\ spreads' = {s \in spreads : s.at # n}
        /\ UNCHANGED <<members, losses, fdList>>
        /\ probe' = [probe EXCEPT ![n] = Idle]
    BY DEF Stops, ServerStops, IInv, ServerOK
  <1>2. ServerOK' /\ HandlersOK' /\ SpreadsOK'
    BY <1>1 DEF IInv, ServerOK, HandlersOK, SpreadsOK
  <1>3. StreamsOK'
    <2>1. \A S : <<>> \in Seq(S) /\ Len(<<>>) <= 1
      OBVIOUS
    <2>2. \A m \in Founder : Views(m)' = Views(m)
      BY <1>1 DEF Views
    <2>3. /\ subscriber' = [subscriber EXCEPT ![n] = "none"]
          /\ channel' = [channel EXCEPT ![n] = <<>>]
          /\ wire' = [wire EXCEPT ![n] = <<>>]
      BY DEF Stops, ServerStops
    <2> QED
      BY <1>1, <2>1, <2>2, <2>3 DEF IInv, StreamsOK
  <1>4. ListsOK'
    BY <1>1, Kept
  <1>5. /\ probe' \in [Node -> ProbeState] /\ probe'[n] = Idle
        /\ \A m \in Node \ {n} : probe'[m] = probe[m]
    BY <1>1, IdleState DEF IInv, ProbesOK
  <1>6. ProbesOK'
    BY <1>5, IdleState DEF IInv, ProbesOK
  <1>7. ReportsOK'
    BY <1>1, <1>5, IdleState DEF IInv, ReportsOK, Node, Call
  <1>8. DetectorKnowsMembers'
    BY <1>1, <1>5 DEF IInv, ServerOK, DetectorKnowsMembers, Node
  <1> QED
    BY <1>2, <1>3, <1>4, <1>6, <1>7, <1>8 DEF IInv

LEMMA ReceiveStep ==
  ASSUME IInv, NEW n \in Founder, ReceiveUpdate(n)
  PROVE  IInv'
  <1>1. /\ wire[n] # <<>> /\ wire[n] \in Seq(Views(n))
        /\ UNCHANGED <<serverVars, members, up, subscriber, channel, handlers,
                       spreads, probe>>
        /\ fdList' = [fdList EXCEPT ![n] = Head(wire[n])]
        /\ wire' = [wire EXCEPT ![n] = Tail(@)]
    BY DEF ReceiveUpdate, serverVars, IInv, StreamsOK
  <1>2. Head(wire[n]) \in Views(n) /\ Tail(wire[n]) \in Seq(Views(n))
    BY <1>1
  <1>3. ServerOK' /\ HandlersOK' /\ SpreadsOK' /\ ProbesOK' /\ ReportsOK'
    BY <1>1, Kept
  <1>4. ListsOK'
    BY <1>1, <1>2 DEF IInv, ServerOK, ListsOK, Views, Node
  <1>5. StreamsOK'
    <2>1. Tail(wire[n]) \in Seq(List)
      BY <1>1 DEF IInv, StreamsOK
    <2>2. \A m \in Founder : Views(m)' = Views(m)
      BY <1>1 DEF Views
    <2> QED
      BY <1>1, <1>2, <2>1, <2>2 DEF IInv, StreamsOK
  <1>6. DetectorKnowsMembers'
    BY <1>1, <1>2 DEF IInv, ServerOK, ListsOK, DetectorKnowsMembers, Views, Node
  <1> QED
    BY <1>3, <1>4, <1>5, <1>6 DEF IInv

-----------------------------------------------------------------------------
LEMMA InvariantStep == IInv /\ [Next]_vars => IInv'
  <1> SUFFICES ASSUME IInv, [Next]_vars PROVE IInv'
    OBVIOUS
  <1>1. ASSUME NEW n \in Node,
               \/ Join(n) \/ Detect(n) \/ \E target \in Node : Choose(n, target)
        PROVE  IInv'
    BY <1>1, JoinStep, ProbingStep, MarkingStep, StopsStep
    DEF Detect, DetectorDies
  <1>2. ASSUME NEW n \in Followed,
               ReceiveUpdate(n) \/ (Stream(n) /\ UNCHANGED detectorVars)
        PROVE  IInv'
    BY <1>2, ReceiveStep, StreamStep DEF Followed
  <1>3. ASSUME NEW n \in Founder,
               Stop(n) \/ (Disseminate(n) /\ UNCHANGED detectorVars)
        PROVE  IInv'
    BY <1>3, StopsStep, RemoveStep, ReadListStep, NotifyStep, SpreadStep
    DEF Stop, Node, Disseminate, Handling, Spreading, Handle
  <1>4. CASE UNCHANGED vars
    BY <1>4, Kept DEF vars, disseminationVars, detectorVars, serverVars, IInv
  <1> QED
    BY <1>1, <1>2, <1>3, <1>4 DEF Next

LEMMA Invariant == Spec => []IInv
  BY InitInvariant, InvariantStep, PTL DEF Spec

-----------------------------------------------------------------------------
\* Every reachable state of the membership service has its types.
THEOREM TypeCorrect == Spec => []TypeOK
  BY Invariant, Implied, PTL

\* No order of reports, copies and updates takes a running node off its own
\* lists, whatever the others believe of it (dissemination.go 107, 121-124).
THEOREM NodesKeepThemselves == Spec => []KeepsItself
  BY Invariant, Implied, PTL

\* Lists dropped by a full channel (dissemination.go 51-52) and lists that
\* overtake one another (42-46, 64-68) never hide a member from the detector.
THEOREM DetectorsKnowMembers == Spec => []DetectorKnowsMembers
  <1>1. IInv => DetectorKnowsMembers
    BY DEF IInv
  <1> QED
    BY <1>1, Invariant, PTL

-----------------------------------------------------------------------------
(***************************************************************************)
(* One fault.  While there was at most one, nobody is blamed but nodes     *)
(* that have stopped: a lost ping was the one fault, so that all nodes run *)
(* and every helper confirms.                                              *)
(***************************************************************************)
Few == losses + Cardinality(Founder \ up) <= 1

StoppedBlamed ==
  /\ \A h \in handlers : h.failed \notin up
  /\ \A s \in spreads : s.failed \notin up
RunningListed ==
  \A n \in Founder : up \subseteq members[n] /\ up \subseteq fdList[n]
RunningAsked ==
  \A n \in Founder :
    probe[n].phase \notin {"idle", "pinging"} /\ probe[n].target \in up
      => probe[n].phase = "asking" /\ probe[n].helpers # {} /\ losses >= 1

Blame == StoppedBlamed /\ RunningListed /\ RunningAsked
BlameInv == Cardinality(Founder) > 2 /\ Few => Blame

LEMMA AllUp ==
  ASSUME NEW nodes \in SUBSET Founder, NEW lost \in Nat, lost >= 1,
         lost + Cardinality(Founder \ nodes) <= 1
  PROVE  nodes = Founder
  <1>1. IsFiniteSet(Founder \ nodes)
    BY FounderAssumption, FS_Subset
  <1>2. Cardinality(Founder \ nodes) = 0
    BY <1>1, FS_CardinalityType
  <1>3. Founder \ nodes = {}
    BY <1>1, <1>2, FS_EmptySet
  <1> QED
    BY <1>3

LEMMA DownCounted ==
  ASSUME IInv
  PROVE  /\ Cardinality(Founder \ up) \in Nat
         /\ Few /\ losses >= 1 => losses = 1 /\ up = Founder
  <1>1. IsFiniteSet(Founder \ up)
    BY FounderAssumption, FS_Subset
  <1>2. Cardinality(Founder \ up) \in Nat
    BY <1>1, FS_CardinalityType
  <1>3. ASSUME Few, losses >= 1 PROVE losses = 1 /\ up = Founder
    <2>1. losses \in Nat /\ up \subseteq Founder
      BY DEF IInv, ServerOK
    <2>2. losses = 1
      BY <1>2, <1>3, <2>1 DEF Few
    <2>3. up = Founder
      BY <1>3, <2>1, AllUp DEF Few
    <2> QED
      BY <2>1, <2>2, <2>3
  <1> QED
    BY <1>2, <1>3

\* Faults are not taken back.
LEMMA FewBefore ==
  ASSUME IInv, IInv', up' \subseteq up, losses' >= losses, Few'
  PROVE  Few
  <1>1. IsFiniteSet(Founder \ up') /\ Founder \ up \in SUBSET (Founder \ up')
    BY FounderAssumption, FS_Subset
  <1>2. /\ Cardinality(Founder \ up) <= Cardinality(Founder \ up')
        /\ Cardinality(Founder \ up) \in Nat
    BY <1>1, FS_Subset, DownCounted
  <1>3. /\ Cardinality(Founder \ up') \in Nat
        /\ losses \in Nat /\ losses' \in Nat
    BY <1>1, FS_CardinalityType DEF IInv, ServerOK
  <1> QED
    BY <1>2, <1>3 DEF Few

\* Nobody is added to the running nodes, and no loss forgotten.
LEMMA FaultsStay ==
  ASSUME IInv, [Next]_vars
  PROVE  up' \subseteq up /\ losses' >= losses
  <1>1. losses \in Nat
    BY DEF IInv, ServerOK
  <1>2. ASSUME UNCHANGED <<up, losses>>
        PROVE  up' \subseteq up /\ losses' >= losses
    BY <1>1, <1>2
  <1>3. ASSUME NEW n \in Node, PingFails(n)
        PROVE  up' \subseteq up /\ losses' >= losses
    BY <1>1, <1>3 DEF PingFails, Fails
  <1>4. ASSUME NEW n \in Node, NEW h \in Node, HelperFails(n, h)
        PROVE  up' \subseteq up /\ losses' >= losses
    BY <1>1, <1>4 DEF HelperFails, Fails
  <1>5. ASSUME NEW n \in Node, Stops(n)
        PROVE  up' \subseteq up /\ losses' >= losses
    BY <1>1, <1>5 DEF Stops, ServerStops
  <1>6. ASSUME NEW s \in spreads, SpreadOn(s)
        PROVE  up' \subseteq up /\ losses' >= losses
    BY <1>1, <1>6 DEF SpreadOn, CopyList, CallNext, SkipNext, CallOver,
       serverVars
  <1>7. ASSUME NEW h \in handlers, Handle(h)
        PROVE  UNCHANGED <<up, losses>>
    BY <1>7 DEF Handle, Remove, ReadList, Notify, serverVars
  <1>8. ASSUME NEW n \in Node,
               \/ Join(n) \/ PingAnswered(n) \/ MarkFailed(n)
               \/ RemoveTarget(n) \/ Reported(n)
               \/ \E h \in Node : HelperConfirms(n, h) \/ Choose(n, h)
        PROVE  UNCHANGED <<up, losses>>
    BY <1>8 DEF Join, PingAnswered, MarkFailed, RemoveTarget, Reported,
       HelperConfirms, Choose, disseminationVars, serverVars
  <1>9. ASSUME NEW n \in Followed, ReceiveUpdate(n) \/ Stream(n)
        PROVE  UNCHANGED <<up, losses>>
    BY <1>9 DEF ReceiveUpdate, Stream, Register, SendCurrent, SendUpdate,
       serverVars
  <1>10. CASE UNCHANGED vars
    BY <1>2, <1>10 DEF vars, disseminationVars, serverVars
  <1>11. CASE Next
    <2>1. CASE \E n \in Node : \/ Join(n) \/ Detect(n)
                               \/ \E target \in Node : Choose(n, target)
      BY <1>2, <1>3, <1>4, <1>5, <1>8, <2>1 DEF Detect, DetectorDies
    <2>2. CASE \E n \in Followed : \/ ReceiveUpdate(n)
                                   \/ Stream(n) /\ UNCHANGED detectorVars
      BY <1>2, <1>9, <2>2
    <2>3. CASE \E n \in Founder : \/ Stop(n)
                                  \/ Disseminate(n) /\ UNCHANGED detectorVars
      BY <1>2, <1>5, <1>6, <1>7, <2>3
      DEF Stop, Node, Disseminate, Handling, Spreading
    <2> QED
      BY <1>11, <2>1, <2>2, <2>3 DEF Next
  <1> QED
    BY <1>10, <1>11

LEMMA BlameKept ==
  ASSUME Blame, up' \subseteq up, losses' >= losses, losses \in Nat, losses' \in Nat
  PROVE  /\ handlers' \subseteq handlers /\ spreads' \subseteq spreads
              => StoppedBlamed'
         /\ UNCHANGED <<members, fdList>> => RunningListed'
         /\ UNCHANGED probe => RunningAsked'
  BY DEF Blame, StoppedBlamed, RunningListed, RunningAsked

LEMMA ServerBlame ==
  ASSUME IInv, IInv', Blame, UNCHANGED <<up, detectorVars>>,
         losses' >= losses,
         \/ \E h \in handlers : Handle(h)
         \/ \E s \in spreads : SpreadOn(s)
  PROVE  Blame'
  <1>1. RunningAsked'
    BY BlameKept DEF detectorVars, IInv, ServerOK
  <1>2. ASSUME NEW h \in handlers, Handle(h) PROVE Blame'
    <2>1. /\ h \in Handler /\ h.failed \notin up
          /\ members \in [Founder -> List]
      BY DEF IInv, HandlersOK, ServerOK, Blame, StoppedBlamed
    <2>2. ASSUME NEW g \in handlers', g \notin handlers
          PROVE  g.failed = h.failed
      <3>1. CASE Remove(h)
        <4>1. g = [h EXCEPT !.phase = "removed"]
          BY <2>2, <3>1 DEF Remove
        <4> QED
          BY <2>1, <4>1 DEF Handler
      <3>2. CASE ReadList(h)
        <4>1. g = [h EXCEPT !.phase = "notifying", !.list = members[h.at]]
          BY <2>2, <3>2 DEF ReadList
        <4> QED
          BY <2>1, <4>1 DEF Handler
      <3>3. CASE Notify(h)
        BY <2>2, <3>3 DEF Notify
      <3> QED
        BY <1>2, <3>1, <3>2, <3>3 DEF Handle
    <2>3. ASSUME NEW s \in spreads', s \notin spreads
          PROVE  s.failed = h.failed
      <3>1. CASE Notify(h)
        <4>1. s = [at |-> h.at, failed |-> h.failed, phase |-> "started",
                   left |-> {}]
          BY <2>3, <3>1 DEF Notify
        <4> QED
          BY <4>1
      <3>2. CASE ~Notify(h)
        BY <1>2, <2>3, <3>2 DEF Handle, Remove, ReadList
      <3> QED
        BY <3>1, <3>2
    <2>4. StoppedBlamed'
      BY <2>1, <2>2, <2>3 DEF Blame, StoppedBlamed
    <2>5. \A n \in Founder : up \subseteq members'[n]
      <3>1. \/ UNCHANGED members
            \/ members' = [members EXCEPT ![h.at] = @ \ {h.failed}]
        BY <1>2 DEF Handle, Remove, Removed, ReadList, Notify, serverVars
      <3> QED
        BY <2>1, <3>1 DEF Blame, RunningListed
    <2>6. RunningListed'
      BY <2>5 DEF Blame, RunningListed, detectorVars
    <2> QED
      BY <1>1, <2>4, <2>6 DEF Blame
  <1>3. ASSUME NEW s \in spreads, SpreadOn(s) PROVE Blame'
    <2>1. s \in Spread /\ s.failed \notin up
      BY DEF IInv, SpreadsOK, Blame, StoppedBlamed
    <2>2. ASSUME NEW left, NEW q \in Continue(s, left), q \notin spreads
          PROVE  q.failed = s.failed
      BY <2>1, <2>2 DEF Continue, Spread
    <2>3. ASSUME NEW q \in spreads', q \notin spreads
          PROVE  q.failed = s.failed
      <3>1. CASE CallNext(s)
        BY <2>1, <2>3, <3>1 DEF CallNext, Spread
      <3>2. CASE ~CallNext(s)
        BY <1>3, <2>2, <2>3, <3>2 DEF SpreadOn, CopyList, SkipNext, CallOver
      <3> QED
        BY <3>1, <3>2
    <2>4. ASSUME NEW h \in handlers', h \notin handlers
          PROVE  h.failed = s.failed
      BY <1>3, <2>4 DEF SpreadOn, CopyList, CallNext, SkipNext, CallOver, Call
    <2>5. StoppedBlamed'
      BY <2>1, <2>3, <2>4 DEF Blame, StoppedBlamed
    <2>6. RunningListed'
      BY <1>3 DEF SpreadOn, CopyList, CallNext, SkipNext, CallOver, serverVars,
         Blame, RunningListed, detectorVars
    <2> QED
      BY <1>1, <2>5, <2>6 DEF Blame
  <1> QED
    BY <1>2, <1>3

\* A step that sets one probe to p.
LEMMA ProbeBlame ==
  ASSUME IInv, Blame, NEW n \in Node, NEW p \in ProbeState,
         n \in Founder /\ p.phase \notin {"idle", "pinging"} /\ p.target \in up
           => p.phase = "asking" /\ p.helpers # {} /\ losses' >= 1,
         losses' >= losses, losses' \in Nat, up' \subseteq up,
         probe' = [probe EXCEPT ![n] = p],
         handlers' \subseteq handlers, spreads' \subseteq spreads,
         UNCHANGED <<members, fdList>>
  PROVE  Blame'
  <1>1. losses \in Nat /\ probe \in [Node -> ProbeState]
    BY DEF IInv, ServerOK, ProbesOK
  <1>2. StoppedBlamed' /\ RunningListed'
    BY <1>1, BlameKept
  <1>3. probe'[n] = p /\ \A m \in Node \ {n} : probe'[m] = probe[m]
    BY <1>1
  <1>4. RunningAsked'
    BY <1>1, <1>3 DEF Blame, RunningAsked, Node
  <1> QED
    BY <1>2, <1>4 DEF Blame

\* With more than two nodes in the list there is a helper to ask.
LEMMA SomeHelpers ==
  ASSUME IInv, Cardinality(Founder) > 2, NEW n \in Founder,
         probe[n].target \in Founder, Founder \subseteq fdList[n],
         NEW helpers \in HelperSets(n)
  PROVE  helpers # {}
  <1> DEFINE t == probe[n].target
             others == fdList[n] \ {n, t}
  <1>1. IsFiniteSet(others)
    <2>1. others \in SUBSET Founder
      BY DEF IInv, ListsOK, List, Node
    <2> QED
      BY <2>1, FounderAssumption, FS_Subset
  <1>2. others # {}
    <2>1. SUFFICES ASSUME others = {} PROVE FALSE
      OBVIOUS
    <2>2. Founder \in SUBSET ({n} \cup {t})
      BY <2>1
    <2>3. /\ IsFiniteSet({n} \cup {t})
          /\ Cardinality({n} \cup {t}) \in {1, 2}
      <3>1. IsFiniteSet({n}) /\ Cardinality({n}) = 1
        BY FS_Singleton
      <3>2. /\ IsFiniteSet({n} \cup {t})
            /\ Cardinality({n} \cup {t}) =
                 IF t \in {n} THEN Cardinality({n}) ELSE Cardinality({n}) + 1
        BY <3>1, FS_AddElement, Zenon
      <3> QED
        BY <3>1, <3>2
    <2>4. Cardinality(Founder) <= Cardinality({n} \cup {t})
      BY <2>2, <2>3, FS_Subset
    <2>5. Cardinality(Founder) \in Nat
      BY FounderAssumption, FS_CardinalityType
    <2> QED
      BY <2>3, <2>4, <2>5
  <1>3. Cardinality(others) \in Nat \ {0}
    BY <1>1, <1>2, FS_CardinalityType, FS_EmptySet
  <1>4. Cardinality(helpers) = IF Cardinality(others) < K
                                 THEN Cardinality(others) ELSE K
    BY DEF HelperSets
  <1> HIDE DEF others
  <1> QED
    BY <1>3, <1>4, FS_EmptySet, NodeAssumption

LEMMA DetectorBlame ==
  ASSUME IInv, IInv', Blame, Few, Few', Cardinality(Founder) > 2,
         up' \subseteq up, losses' >= losses, NEW n \in Node,
         \/ \E target \in Node : Choose(n, target)
         \/ PingAnswered(n) \/ PingFails(n) \/ Reported(n)
         \/ \E h \in Node : HelperConfirms(n, h) \/ HelperFails(n, h)
  PROVE  Blame'
  <1>1. /\ losses \in Nat /\ losses' \in Nat /\ up \subseteq Founder
        /\ probe[n] \in ProbeState
        /\ probe[n].phase # "idle" => probe[n].target \in Founder \ {n}
    BY DEF IInv, ServerOK, ProbesOK
  <1>2. /\ UNCHANGED <<handlers, spreads, members, fdList>>
        /\ up' = up
    BY DEF Choose, PingAnswered, PingFails, Reported, HelperConfirms,
       HelperFails, disseminationVars, serverVars
  <1>3. CASE \/ \E target \in Node : Choose(n, target)
             \/ PingAnswered(n) \/ Reported(n)
             \/ \E h \in Node : HelperConfirms(n, h)
    <2>1. PICK p : /\ p.phase \in {"idle", "pinging"}
                   /\ probe' = [probe EXCEPT ![n] = p]
      <3>1. ASSUME NEW target \in Node, Choose(n, target)
            PROVE  probe' = [probe EXCEPT ![n] =
                     [phase |-> "pinging", target |-> target, helpers |-> {}]]
        BY <3>1 DEF Choose
      <3>2. ~(\E target \in Node : Choose(n, target))
               => probe' = [probe EXCEPT ![n] = Idle]
        BY <1>3 DEF PingAnswered, Reported, HelperConfirms
      <3> QED
        BY <3>1, <3>2, IdleState
    <2>2. p \in ProbeState
      <3>1. probe'[n] \in ProbeState /\ probe'[n] = p
        BY <2>1 DEF IInv, ProbesOK
      <3> QED
        BY <3>1
    <2> QED
      BY <1>1, <1>2, <2>1, <2>2, ProbeBlame
  <1>4. CASE PingFails(n)
    <2>1. PICK helpers \in HelperSets(n) :
            probe' = [probe EXCEPT ![n] = Ask(n, helpers)]
      BY <1>4 DEF PingFails
    <2>2. helpers \in List
      BY <2>1 DEF HelperSets, List, IInv, ListsOK
    <2>3. /\ Ask(n, helpers) \in ProbeState
          /\ Ask(n, helpers).target = probe[n].target
      BY <2>2, AskState
    <2>4. ASSUME n \in Founder, probe[n].target \in up
          PROVE  /\ Ask(n, helpers).phase = "asking"
                 /\ Ask(n, helpers).helpers # {} /\ losses' >= 1
      <3>1. losses' >= 1
        BY <1>1, <1>4, <2>4 DEF PingFails, Fails
      <3>2. up = Founder
        <4>1. losses' + Cardinality(Founder \ up) <= 1
          BY <1>2 DEF Few
        <4> QED
          BY <1>1, <3>1, <4>1, AllUp
      <3>3. helpers # {}
        BY <2>1, <2>4, <3>2, SomeHelpers DEF Blame, RunningListed
      <3> QED
        BY <1>1, <3>1, <3>3 DEF Ask, ProbeState
    <2> QED
      BY <1>1, <1>2, <2>1, <2>3, <2>4, ProbeBlame
  <1>5. ASSUME NEW h \in Node, HelperFails(n, h) PROVE Blame'
    <2> DEFINE helpers == probe[n].helpers \ {h}
    <2>1. /\ probe' = [probe EXCEPT ![n] = Ask(n, helpers)]
          /\ probe[n].phase = "asking" /\ h \in probe[n].helpers
          /\ Fails(h) \/ Fails(probe[n].target)
      BY <1>5 DEF HelperFails
    <2>2. helpers \in List /\ h \in Founder
      BY <1>1, <2>1 DEF ProbeState, List
    <2>3. /\ Ask(n, helpers) \in ProbeState
          /\ Ask(n, helpers).target = probe[n].target
      BY <2>2, AskState
    <2>4. ~(n \in Founder /\ probe[n].target \in up)
      <3> SUFFICES ASSUME n \in Founder, probe[n].target \in up PROVE FALSE
        OBVIOUS
      <3>1. losses = 1 /\ up = Founder
        BY <2>1, DownCounted DEF Blame, RunningAsked
      <3>2. losses' = losses + 1
        BY <2>1, <2>2, <3>1 DEF Fails
      <3>3. Cardinality(Founder \ up) \in Nat
        BY DownCounted
      <3> QED
        BY <1>2, <3>1, <3>2, <3>3 DEF Few
    <2> HIDE DEF helpers
    <2> QED
      BY <1>1, <1>2, <2>1, <2>3, <2>4, ProbeBlame
  <1> QED
    BY <1>3, <1>4, <1>5

\* Who is marked as failed has stopped.
LEMMA MarkingBlame ==
  ASSUME IInv, IInv', Blame, NEW n \in Node, MarkFailed(n) \/ RemoveTarget(n)
  PROVE  Blame'
  <1> DEFINE t == probe[n].target
  <1>1. /\ probe[n] \in ProbeState /\ UNCHANGED <<up, members, losses, spreads>>
        /\ probe[n].phase \in {"marking", "removing"}
        /\ probe \in [Node -> ProbeState] /\ fdList \in [Node -> List]
    BY DEF MarkFailed, RemoveTarget, IInv, ProbesOK, ListsOK, serverVars
  <1>2. n \in Founder => t \notin up
    BY <1>1 DEF Blame, RunningAsked
  <1>3. /\ Report(n) \/ (/\ probe' = [probe EXCEPT ![n].phase = "removing"]
                         /\ UNCHANGED handlers)
        /\ UNCHANGED fdList \/ fdList' = [fdList EXCEPT ![n] = @ \ {t}]
    BY DEF MarkFailed, RemoveTarget
  <1>4. StoppedBlamed'
    <2>1. ASSUME NEW h \in handlers', h \notin handlers
          PROVE  n \in Founder /\ h = Call(n, n, t)
      BY <1>3, <2>1 DEF Report, Node
    <2>2. \A h \in handlers' : h \notin handlers => h.failed \notin up
      BY <1>2, <2>1 DEF Call
    <2> QED
      BY <1>1, <2>2 DEF Blame, StoppedBlamed
  <1>5. RunningListed'
    <2> HIDE DEF t
    <2> QED
      BY <1>1, <1>2, <1>3 DEF Blame, RunningListed, Node
  <1>6. RunningAsked'
    <2> SUFFICES ASSUME NEW m \in Founder,
                        probe'[m].phase \notin {"idle", "pinging"},
                        probe'[m].target \in up'
                 PROVE  /\ probe'[m].phase = "asking"
                        /\ probe'[m].helpers # {} /\ losses' >= 1
      BY DEF RunningAsked
    <2>1. m \in Node /\ m # n => probe'[m] = probe[m]
      BY <1>1, <1>3 DEF Report, Node
    <2>2. m = n => probe'[m].phase = "idle" \/ probe'[m].target = t
      <3>1. \A ph : [probe[n] EXCEPT !.phase = ph].target = t
        BY <1>1 DEF ProbeState
      <3>2. \/ probe'[n] = Idle
            \/ probe'[n] = [probe[n] EXCEPT !.phase = "removing"]
            \/ probe'[n] = [probe[n] EXCEPT !.phase = "reporting"]
        BY <1>1, <1>3 DEF Report
      <3> QED
        BY <1>1, <3>1, <3>2, IdleState
    <2>3. m # n
      BY <1>1, <1>2, <2>2
    <2> QED
      BY <1>1, <2>1, <2>3 DEF Blame, RunningAsked, Node
  <1> QED
    BY <1>4, <1>5, <1>6 DEF Blame

LEMMA OtherBlame ==
  ASSUME IInv, IInv', Blame, up' \subseteq up, losses' >= losses,
         \/ \E n \in Node : Join(n) \/ Stops(n)
         \/ \E n \in Founder : \/ ReceiveUpdate(n)
                               \/ Stream(n) /\ UNCHANGED detectorVars
         \/ UNCHANGED vars
  PROVE  Blame'
  <1>1. /\ losses \in Nat /\ losses' \in Nat /\ up \subseteq Founder
        /\ probe \in [Node -> ProbeState] /\ fdList \in [Node -> List]
    BY DEF IInv, ServerOK, ProbesOK, ListsOK
  <1>2. ASSUME NEW n \in Node, Join(n) PROVE Blame'
    <2>1. /\ n \notin Founder /\ UNCHANGED <<disseminationVars, probe>>
          /\ \A m \in Founder : fdList'[m] = fdList[m]
      BY <1>1, <1>2, NodeAssumption DEF Join, Node
    <2> QED
      BY <1>1, <2>1, BlameKept
      DEF disseminationVars, serverVars, Blame, RunningListed
  <1>3. ASSUME NEW n \in Node, Stops(n) PROVE Blame'
    <2>1. /\ handlers' \subseteq handlers /\ spreads' \subseteq spreads
          /\ UNCHANGED <<members, fdList>>
          /\ probe' = [probe EXCEPT ![n] = Idle]
      BY <1>3 DEF Stops, ServerStops
    <2> QED
      BY <1>1, <2>1, IdleState, ProbeBlame
  <1>4. ASSUME NEW n \in Founder, ReceiveUpdate(n) PROVE Blame'
    <2>1. /\ UNCHANGED <<up, members, losses, handlers, spreads, probe>>
          /\ fdList' = [fdList EXCEPT ![n] = Head(wire[n])]
          /\ Head(wire[n]) \in Views(n)
      BY <1>4 DEF ReceiveUpdate, serverVars, IInv, StreamsOK
    <2>2. StoppedBlamed' /\ RunningAsked'
      BY <1>1, <2>1, BlameKept
    <2>3. RunningListed'
      BY <1>1, <2>1 DEF Blame, RunningListed, Views, Node
    <2> QED
      BY <2>2, <2>3 DEF Blame
  <1>5. ASSUME UNCHANGED <<members, handlers, spreads, fdList, probe>>
        PROVE  Blame'
    BY <1>1, <1>5, BlameKept DEF Blame
  <1>6. ASSUME NEW n \in Founder, Stream(n), UNCHANGED detectorVars PROVE Blame'
    BY <1>5, <1>6
    DEF Stream, Register, SendCurrent, SendUpdate, serverVars, detectorVars
  <1>7. CASE UNCHANGED vars
    BY <1>5, <1>7 DEF vars, disseminationVars, serverVars, detectorVars
  <1> QED
    BY <1>2, <1>3, <1>4, <1>6, <1>7

LEMMA BlameStep == IInv /\ IInv' /\ BlameInv /\ [Next]_vars => BlameInv'
  <1> SUFFICES ASSUME IInv, IInv', BlameInv, [Next]_vars,
                      Cardinality(Founder) > 2, Few'
               PROVE  Blame'
    BY DEF BlameInv
  <1>1. up' \subseteq up /\ losses' >= losses
    BY FaultsStay
  <1>2. Few /\ Blame
    BY <1>1, FewBefore DEF BlameInv
  <1>3. ASSUME NEW n \in Node,
               \/ Join(n) \/ Detect(n) \/ \E target \in Node : Choose(n, target)
        PROVE  Blame'
    BY <1>1, <1>2, <1>3, DetectorBlame, MarkingBlame, OtherBlame
    DEF Detect, DetectorDies
  <1>4. ASSUME NEW n \in Followed,
               ReceiveUpdate(n) \/ (Stream(n) /\ UNCHANGED detectorVars)
        PROVE  Blame'
    BY <1>1, <1>2, <1>4, OtherBlame DEF Followed
  <1>5. ASSUME NEW n \in Founder, Stop(n) PROVE Blame'
    BY <1>1, <1>2, <1>5, OtherBlame DEF Stop, Node
  <1>6. ASSUME NEW n \in Founder, Disseminate(n), UNCHANGED detectorVars
        PROVE  Blame'
    <2>1. (\E h \in handlers : Handle(h)) \/ (\E s \in spreads : SpreadOn(s))
      BY <1>6 DEF Disseminate, Handling, Spreading
    <2>2. UNCHANGED up
      BY <2>1 DEF Handle, Remove, ReadList, Notify, SpreadOn, CopyList,
         CallNext, SkipNext, CallOver, serverVars
    <2> QED
      BY <1>1, <1>2, <1>6, <2>1, <2>2, ServerBlame
  <1>7. CASE UNCHANGED vars
    BY <1>1, <1>2, <1>7, OtherBlame
  <1> QED
    BY <1>3, <1>4, <1>5, <1>6, <1>7 DEF Next

LEMMA BlameInitially == Init => BlameInv
  BY FounderAssumption
  DEF Init, DisseminationInit, BlameInv, Blame, StoppedBlamed, RunningListed,
      RunningAsked, Node, Idle

LEMMA BlameImplies == IInv /\ BlameInv => OneFaultTolerated
  BY DEF BlameInv, Few, Blame, RunningListed, OneFaultTolerated, IInv, ServerOK

\* One lost call, or one stopped node, does not take a running node off a
\* running node's list: with all nodes running, every helper confirms.
THEOREM OneFaultSurvived == Spec => []OneFaultTolerated
  <1>1. Spec => []BlameInv
    BY Invariant, BlameInitially, BlameStep, PTL DEF Spec
  <1> QED
    BY <1>1, Invariant, BlameImplies, PTL
=============================================================================
