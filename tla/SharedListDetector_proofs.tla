----------------------- MODULE SharedListDetector_proofs -----------------------
(* Proofs about SharedListDetector, for lists of any length, any number of *)
(* helpers, and any stops, starts and lost calls.                          *)
EXTENDS SharedListDetector, TLAPS, FiniteSetTheorems, SequenceTheorems

LEMMA NodesFinite == IsFiniteSet(Node)
  <1>1. MembershipList \in Seq(Node)
    BY ListAssumption
  <1>2. \A n \in Node : \E i \in 1..Len(MembershipList) : MembershipList[i] = n
    BY <1>1 DEF Node, ToSet
  <1> QED
    BY <1>1, <1>2 DEF IsFiniteSet

\* A place of a list that is taken out takes nobody else off it.
LEMMA RemoveAtMembers ==
  ASSUME NEW s \in Seq(Node), NEW i \in 1..Len(s)
  PROVE  /\ RemoveAt(s, i) \in Seq(Node)
         /\ \A j \in 1..Len(s) : j # i => s[j] \in ToSet(RemoveAt(s, i))
  <1> DEFINE a == SubSeq(s, 1, i - 1)
             b == SubSeq(s, i + 1, Len(s))
  <1>1. /\ a \in Seq(Node) /\ Len(a) = i - 1
        /\ \A j \in 1..(i - 1) : a[j] = s[j]
        /\ b \in Seq(Node) /\ Len(b) = Len(s) - i
        /\ \A j \in 1..(Len(s) - i) : b[j] = s[i + j]
    <2>1. /\ Len(s) \in Nat /\ i - 1 \in Nat /\ 1 <= i - 1 + 1
          /\ i - 1 <= Len(s)
          /\ i + 1 \in Nat /\ i + 1 <= Len(s) + 1
      OBVIOUS
    <2>2. a \in Seq(Node) /\ Len(a) = i - 1 /\ \A j \in 1..(i - 1) : a[j] = s[j]
      BY <2>1
    <2>3. b \in Seq(Node) /\ Len(b) = Len(s) - i
      BY <2>1
    <2>4. ASSUME NEW j \in 1..(Len(s) - i) PROVE b[j] = s[i + j]
      <3>1. j \in 1..(Len(s) - (i + 1) + 1) /\ (i + 1) + j - 1 = i + j
        BY <2>1
      <3>2. b[j] = s[(i + 1) + j - 1]
        BY <2>1, <3>1
      <3> QED
        BY <3>1, <3>2
    <2>5. \A j \in 1..(Len(s) - i) : b[j] = s[i + j]
      BY <2>4
    <2> HIDE DEF a, b
    <2> QED
      BY <2>2, <2>3, <2>5
  <1>2. RemoveAt(s, i) = a \o b
    BY DEF RemoveAt
  <1> HIDE DEF a, b
  <1>3. /\ a \o b \in Seq(Node) /\ Len(a \o b) = Len(s) - 1
        /\ \A j \in 1..(i - 1) : (a \o b)[j] = s[j]
        /\ \A j \in i..(Len(s) - 1) : (a \o b)[j] = s[j + 1]
    <2>1. /\ a \o b \in Seq(Node) /\ Len(a \o b) = Len(a) + Len(b)
          /\ \A j \in 1..(Len(a) + Len(b)) :
               (a \o b)[j] = IF j <= Len(a) THEN a[j] ELSE b[j - Len(a)]
      BY <1>1, ConcatProperties
    <2>2. Len(s) \in Nat /\ i \in Nat /\ 1 <= i /\ i <= Len(s)
      OBVIOUS
    <2>3. Len(a \o b) = Len(s) - 1
      BY <1>1, <2>1, <2>2
    <2>4. ASSUME NEW j \in 1..(i - 1) PROVE (a \o b)[j] = s[j]
      BY <1>1, <2>1, <2>2
    <2>5. ASSUME NEW j \in i..(Len(s) - 1) PROVE (a \o b)[j] = s[j + 1]
      <3>1. /\ j \in 1..(Len(a) + Len(b)) /\ ~(j <= Len(a))
            /\ j - Len(a) = j - i + 1 /\ j - i + 1 \in 1..(Len(s) - i)
            /\ i + (j - i + 1) = j + 1
        BY <1>1, <2>2
      <3> QED
        BY <1>1, <2>1, <3>1
    <2> QED
      BY <2>1, <2>3, <2>4, <2>5
  <1>4. ASSUME NEW j \in 1..Len(s), j # i PROVE s[j] \in ToSet(a \o b)
    <2>1. DOMAIN (a \o b) = 1..(Len(s) - 1)
      BY <1>3
    <2>2. CASE j < i
      <3>1. j \in 1..(i - 1) /\ j \in 1..(Len(s) - 1)
        BY <2>2
      <3> QED
        BY <1>3, <2>1, <3>1 DEF ToSet
    <2>3. CASE j > i
      <3>1. /\ j - 1 \in i..(Len(s) - 1) /\ j - 1 \in 1..(Len(s) - 1)
            /\ (j - 1) + 1 = j
        BY <2>3
      <3>2. (a \o b)[j - 1] = s[j]
        BY <1>3, <3>1
      <3> QED
        BY <2>1, <3>1, <3>2 DEF ToSet
    <2> QED
      BY <1>4, <2>2, <2>3
  <1> QED
    BY <1>2, <1>3, <1>4

-----------------------------------------------------------------------------
(* Types.  A detector that is busy runs and has a target.                  *)

Busy(n) == probe[n].phase # "idle"
TypeInv ==
  /\ TypeOK
  /\ \A n \in Node : Busy(n) => n \in up /\ probe[n].target \in Node
  /\ \A n \in Node : probe[n].phase = "removing" => probe[n].left = {}
  /\ \A n \in Node : probe[n].helper # NoOne
                       => probe[n].phase \in {"searching", "confirming"}

ProbeType == [phase : Phase, target : Node \cup {NoOne}, left : SUBSET Node,
              helper : Node \cup {NoOne}, at : Nat]

\* What a probe may become when the others stay as they are.
LEMMA ProbeStep ==
  ASSUME TypeInv, NEW n \in Node, NEW p \in ProbeType,
         probe' = [probe EXCEPT ![n] = p],
         p.phase \in {"searching", "confirming"} => p.helper \in up \cap p.left,
         p.phase # "idle" => n \in up /\ p.target \in Node,
         p.phase = "removing" => p.left = {},
         p.helper # NoOne => p.phase \in {"searching", "confirming"},
         up' = up, steady' = steady, list' \in [Node -> Seq(Node)],
         losses' \in 0..MaxLosses, stops' = stops, raced' \in BOOLEAN
  PROVE  TypeInv'
  <1>1. TypeOK'
    BY DEF TypeInv, TypeOK, ProbeType
  <1>2. \A c \in Node : probe'[c] = IF c = n THEN p ELSE probe[c]
    BY DEF TypeInv, TypeOK
  <1> QED
    BY <1>1, <1>2 DEF TypeInv, Busy

LEMMA IdleState ==
  Idle \in ProbeType /\ Idle.phase = "idle" /\ Idle.helper = NoOne
  BY DEF Idle, ProbeType, Phase

LEMMA AskingState ==
  ASSUME NEW p \in ProbeType, NEW left \in SUBSET Node
  PROVE  /\ Asking(p, left) \in ProbeType /\ Asking(p, left).left = left
         /\ Asking(p, left).target = p.target /\ Asking(p, left).helper = NoOne
         /\ Asking(p, left).phase = IF left = {} THEN "removing" ELSE "asking"
  BY DEF Asking, ProbeType, Phase

LEMMA FailsLosses ==
  ASSUME TypeInv, NEW n, NEW method, Fails(n, method)
  PROVE  losses' \in 0..MaxLosses /\ losses' >= losses
  BY ListAssumption DEF TypeInv, TypeOK, Fails

LEMMA InitType == Init => TypeInv
  <1> SUFFICES ASSUME Init PROVE TypeInv
    OBVIOUS
  <1>1. \A n \in Node : probe[n] = Idle
    BY DEF Init
  <1>2. probe \in [Node -> ProbeType]
    BY IdleState DEF Init
  <1>3. TypeOK
    <2>1. up \subseteq Node /\ steady \subseteq up /\ list \in [Node -> Seq(Node)]
      BY ListAssumption DEF Init
    <2>2. losses \in 0..MaxLosses /\ stops \in 0..MaxStops /\ raced \in BOOLEAN
      <3>1. losses = 0 /\ stops = 0 /\ MaxLosses \in Nat /\ MaxStops \in Nat
        BY ListAssumption DEF Init
      <3>2. raced = FALSE
        BY DEF Init
      <3>3. raced \in BOOLEAN
        BY <3>2
      <3>4. losses \in 0..MaxLosses /\ stops \in 0..MaxStops
        BY <3>1
      <3> QED
        BY <3>3, <3>4
    <2>3. \A n \in Node : probe[n].phase \notin {"searching", "confirming"}
      BY <1>1, IdleState
    <2> QED
      BY <1>2, <2>1, <2>2, <2>3 DEF TypeOK, ProbeType
  <1> QED
    BY <1>1, <1>3, IdleState DEF TypeInv, Busy

\* The probe of a detector that goes on with fewer helpers.
LEMMA GoesOn ==
  ASSUME TypeInv, NEW n \in Node, NEW left \in SUBSET Node, Busy(n),
         probe' = [probe EXCEPT ![n] = Asking(@, left)],
         losses' \in 0..MaxLosses, UNCHANGED <<up, list, stops, steady, raced>>
  PROVE  TypeInv'
  <1> DEFINE p == Asking(probe[n], left)
  <1>1. probe[n] \in ProbeType /\ n \in up /\ probe[n].target \in Node
    BY DEF TypeInv, TypeOK, ProbeType
  <1>2. /\ p \in ProbeType /\ p.left = left /\ p.target = probe[n].target
        /\ p.helper = NoOne
        /\ p.phase = IF left = {} THEN "removing" ELSE "asking"
    BY <1>1, AskingState
  <1>3. probe' = [probe EXCEPT ![n] = p]
    BY DEF TypeInv, TypeOK
  <1>4. list' \in [Node -> Seq(Node)] /\ raced' \in BOOLEAN
    BY DEF TypeInv, TypeOK
  <1> HIDE DEF p
  <1> QED
    BY <1>1, <1>2, <1>3, <1>4, ProbeStep

LEMMA ChooseType ==
  ASSUME TypeInv, NEW n \in Node, NEW target \in Node, Choose(n, target)
  PROVE  TypeInv'
  <1> DEFINE p == [Idle EXCEPT !.phase = "pinging", !.target = target]
  <1>1. /\ p \in ProbeType /\ p.phase = "pinging" /\ p.target = target
        /\ p.helper = NoOne /\ n \in up /\ probe' = [probe EXCEPT ![n] = p]
    BY DEF Choose, Idle, ProbeType, Phase
  <1>2. /\ UNCHANGED <<up, list, losses, stops, steady, raced>>
        /\ list \in [Node -> Seq(Node)] /\ losses \in 0..MaxLosses
        /\ raced \in BOOLEAN
    BY DEF Choose, TypeInv, TypeOK
  <1> HIDE DEF p
  <1> QED
    BY <1>1, <1>2, ProbeStep

\* The detector rests.
LEMMA RestType ==
  ASSUME TypeInv, NEW n \in Node, probe' = [probe EXCEPT ![n] = Idle],
         list' \in [Node -> Seq(Node)], raced' \in BOOLEAN,
         UNCHANGED <<up, losses, stops, steady>>
  PROVE  TypeInv'
  <1>1. losses' \in 0..MaxLosses
    BY DEF TypeInv, TypeOK
  <1>2. Idle \in ProbeType /\ Idle.phase = "idle" /\ Idle.helper = NoOne
    BY IdleState
  <1> QED
    BY <1>1, <1>2, ProbeStep

LEMMA PingAnsweredType ==
  ASSUME TypeInv, NEW n \in Node, PingAnswered(n)
  PROVE  TypeInv'
  <1>1. /\ probe' = [probe EXCEPT ![n] = Idle]
        /\ UNCHANGED <<up, list, losses, stops, steady, raced>>
        /\ list \in [Node -> Seq(Node)] /\ raced \in BOOLEAN
    BY DEF PingAnswered, TypeInv, TypeOK
  <1> QED
    BY <1>1, RestType

LEMMA HelperConfirmsType ==
  ASSUME TypeInv, NEW n \in Node, HelperConfirms(n)
  PROVE  TypeInv'
  <1>1. /\ probe' = [probe EXCEPT ![n] = Idle]
        /\ UNCHANGED <<up, list, losses, stops, steady, raced>>
        /\ list \in [Node -> Seq(Node)] /\ raced \in BOOLEAN
    BY DEF HelperConfirms, TypeInv, TypeOK
  <1> QED
    BY <1>1, RestType

\* Members are what the places of the list hold.
LEMMA Listed ==
  ASSUME TypeInv, NEW n \in Node, NEW m
  PROVE  m \in Members(n) <=> \E i \in 1..Len(list[n]) : list[n][i] = m
  <1>1. list[n] \in Seq(Node)
    BY DEF TypeInv, TypeOK
  <1>2. DOMAIN list[n] = 1..Len(list[n])
    BY <1>1
  <1>3. Members(n) = {list[n][i] : i \in 1..Len(list[n])}
    BY <1>2, Zenon DEF Members, ToSet
  <1> QED
    BY <1>3

\* What RemoveTarget does to the lists.
LEMMA RemoveTargetLists ==
  ASSUME TypeInv, NEW n \in Node, RemoveTarget(n)
  PROVE  /\ list' \in [Node -> Seq(Node)]
         /\ \A c \in Node \ {n} : list'[c] = list[c]
         /\ \A m \in Members(n) : m # probe[n].target => m \in Members(n)'
  <1>1. PICK i \in DOMAIN list[n] : /\ list[n][i] = probe[n].target
                                    /\ list' = [list EXCEPT ![n] = RemoveAt(@, i)]
    BY DEF RemoveTarget
  <1>2. list \in [Node -> Seq(Node)] /\ list[n] \in Seq(Node)
    BY DEF TypeInv, TypeOK
  <1>3. i \in 1..Len(list[n])
    BY <1>2
  <1>4. /\ RemoveAt(list[n], i) \in Seq(Node)
        /\ \A j \in 1..Len(list[n]) :
             j # i => list[n][j] \in ToSet(RemoveAt(list[n], i))
    BY <1>2, <1>3, RemoveAtMembers
  <1>5. list' = [list EXCEPT ![n] = RemoveAt(list[n], i)]
    BY <1>1
  <1>6. /\ list' \in [Node -> Seq(Node)]
        /\ \A c \in Node \ {n} : list'[c] = list[c]
    BY <1>2, <1>4, <1>5
  <1>7. list'[n] = RemoveAt(list[n], i)
    BY <1>2, <1>5
  <1>8. ASSUME NEW m \in Members(n), m # probe[n].target
        PROVE  m \in Members(n)'
    <2>1. PICK j \in 1..Len(list[n]) : list[n][j] = m
      BY <1>8, Listed
    <2>2. j # i
      BY <1>1, <1>8, <2>1
    <2> QED
      BY <1>4, <1>7, <2>1, <2>2 DEF Members
  <1> QED
    BY <1>6, <1>8

LEMMA RemoveTargetType ==
  ASSUME TypeInv, NEW n \in Node, RemoveTarget(n)
  PROVE  TypeInv'
  <1>1. /\ probe' = [probe EXCEPT ![n] = Idle]
        /\ UNCHANGED <<up, losses, stops, steady>>
    BY DEF RemoveTarget
  <1>2. raced' \in BOOLEAN
    <2>1. raced' = (raced \/ \E c \in Node : /\ probe[c].phase = "searching"
                                             /\ probe[c].helper = n)
      BY DEF RemoveTarget
    <2> QED
      BY <2>1, Zenon
  <1> QED
    BY <1>1, <1>2, RemoveTargetLists, RestType

LEMMA PingFailsType ==
  ASSUME TypeInv, NEW n \in Node, PingFails(n)
  PROVE  TypeInv'
  <1>1. PICK helpers \in HelperSets(n) :
          probe' = [probe EXCEPT ![n] = Asking(@, helpers)]
    BY DEF PingFails
  <1>2. list[n] \in Seq(Node)
    BY DEF TypeInv, TypeOK
  <1>3. Members(n) \subseteq Node
    BY <1>2 DEF Members, ToSet
  <1>4. helpers \in SUBSET Node
    BY <1>3 DEF HelperSets
  <1>5. losses' \in 0..MaxLosses /\ Busy(n)
        /\ UNCHANGED <<up, list, stops, steady, raced>>
    BY FailsLosses DEF PingFails, Busy
  <1> QED
    BY <1>1, <1>4, <1>5, GoesOn

\* The helper a busy probe gives up.
LEMMA GivesUpHelper ==
  ASSUME TypeInv, NEW n \in Node, NEW helper, Busy(n),
         probe' = [probe EXCEPT ![n] = Asking(@, @.left \ {helper})],
         losses' \in 0..MaxLosses, UNCHANGED <<up, list, stops, steady, raced>>
  PROVE  TypeInv'
  <1>1. probe[n].left \ {helper} \in SUBSET Node
    BY DEF TypeInv, TypeOK
  <1>2. probe' = [probe EXCEPT ![n] = Asking(@, probe[n].left \ {helper})]
    BY DEF TypeInv, TypeOK
  <1> QED
    BY <1>1, <1>2, GoesOn

LEMMA AskFailsType ==
  ASSUME TypeInv, NEW n \in Node, NEW helper \in Node, AskFails(n, helper)
  PROVE  TypeInv'
  <1>1. /\ losses' \in 0..MaxLosses /\ Busy(n)
        /\ UNCHANGED <<up, list, stops, steady, raced>>
        /\ probe' = [probe EXCEPT ![n] = Asking(@, @.left \ {helper})]
    BY FailsLosses DEF AskFails, Busy
  <1> QED
    BY <1>1, GivesUpHelper

LEMMA SearchMissesType ==
  ASSUME TypeInv, NEW n \in Node, SearchMisses(n)
  PROVE  TypeInv'
  <1>1. /\ losses' \in 0..MaxLosses /\ Busy(n)
        /\ UNCHANGED <<up, list, stops, steady, raced>>
        /\ probe' = [probe EXCEPT ![n] = Asking(@, @.left \ {probe[n].helper})]
    BY DEF SearchMisses, Busy, TypeInv, TypeOK
  <1> QED
    BY <1>1, GivesUpHelper

LEMMA HelperDeniesType ==
  ASSUME TypeInv, NEW n \in Node, HelperDenies(n)
  PROVE  TypeInv'
  <1>1. /\ losses' \in 0..MaxLosses /\ Busy(n)
        /\ UNCHANGED <<up, list, stops, steady, raced>>
    BY FailsLosses DEF HelperDenies, Busy
  <1>2. probe' = [probe EXCEPT ![n] = Asking(@, @.left \ {probe[n].helper})]
    BY DEF HelperDenies, TypeInv, TypeOK
  <1> QED
    BY <1>1, <1>2, GivesUpHelper

\* The helper searches on, or has found the target.
LEMMA AskHelperType ==
  ASSUME TypeInv, NEW n \in Node, NEW helper \in Node, AskHelper(n, helper)
  PROVE  TypeInv'
  <1> DEFINE p == [probe[n] EXCEPT !.phase = "searching", !.helper = helper,
                                   !.at = 1]
  <1>1. probe[n] \in ProbeType /\ n \in up /\ probe[n].target \in Node
    BY DEF TypeInv, TypeOK, ProbeType, AskHelper, Busy
  <1>2. /\ p \in ProbeType /\ p.phase = "searching" /\ p.helper = helper
        /\ p.left = probe[n].left /\ p.target = probe[n].target
    BY <1>1 DEF ProbeType, Phase
  <1>3. probe' = [probe EXCEPT ![n] = p] /\ helper \in up \cap probe[n].left
    BY DEF AskHelper, Answers, TypeInv, TypeOK
  <1>4. /\ UNCHANGED <<up, list, losses, stops, steady, raced>>
        /\ list \in [Node -> Seq(Node)] /\ losses \in 0..MaxLosses
        /\ raced \in BOOLEAN
    BY DEF AskHelper, TypeInv, TypeOK
  <1> HIDE DEF p
  <1> QED
    BY <1>1, <1>2, <1>3, <1>4, ProbeStep

LEMMA SearchType ==
  ASSUME TypeInv, NEW n \in Node, Search(n)
  PROVE  TypeInv'
  <1> DEFINE found == [probe[n] EXCEPT !.phase = "confirming"]
             on == [probe[n] EXCEPT !.at = probe[n].at + 1]
  <1>1. /\ probe[n] \in ProbeType /\ n \in up /\ probe[n].target \in Node
        /\ probe[n].helper \in up \cap probe[n].left
    BY DEF TypeInv, TypeOK, ProbeType, Search, Busy
  <1>2. /\ found \in ProbeType /\ found.phase = "confirming"
        /\ found.left = probe[n].left /\ found.target = probe[n].target
        /\ found.helper = probe[n].helper
    BY <1>1 DEF ProbeType, Phase
  <1>3. /\ on \in ProbeType /\ on.phase = "searching"
        /\ on.left = probe[n].left /\ on.target = probe[n].target
        /\ on.helper = probe[n].helper
    BY <1>1 DEF ProbeType, Phase, Search
  <1>4. \/ probe' = [probe EXCEPT ![n] = found]
        \/ probe' = [probe EXCEPT ![n] = on]
    BY DEF Search, TypeInv, TypeOK
  <1>5. /\ UNCHANGED <<up, list, losses, stops, steady, raced>>
        /\ list \in [Node -> Seq(Node)] /\ losses \in 0..MaxLosses
        /\ raced \in BOOLEAN
    BY DEF Search, TypeInv, TypeOK
  <1> HIDE DEF found, on
  <1>6. CASE probe' = [probe EXCEPT ![n] = found]
    BY <1>1, <1>2, <1>5, <1>6, ProbeStep
  <1>7. CASE probe' = [probe EXCEPT ![n] = on]
    BY <1>1, <1>3, <1>5, <1>7, ProbeStep
  <1> QED
    BY <1>4, <1>6, <1>7

LEMMA StartType ==
  ASSUME TypeInv, NEW n \in Node, Start(n)
  PROVE  TypeInv'
  <1>1. /\ up' = up \cup {n}
        /\ UNCHANGED <<probe, losses, stops, steady, raced>>
        /\ list' = [list EXCEPT ![n] = MembershipList]
    BY DEF Start
  <1>2. list' \in [Node -> Seq(Node)]
    BY <1>1, ListAssumption DEF TypeInv, TypeOK
  <1>3. TypeOK'
    BY <1>1, <1>2 DEF TypeInv, TypeOK
  <1> QED
    BY <1>1, <1>3 DEF TypeInv, Busy

\* What a stop does to the probes.
LEMMA StopProbes ==
  ASSUME TypeInv, NEW n \in Node, Stop(n), NEW c \in Node
  PROVE  /\ probe'[c] \in ProbeType
         /\ \/ probe'[c] = Idle /\ c = n
            \/ /\ probe[c].helper = n /\ c # n
               /\ probe'[c] = Asking(probe[c], probe[c].left \ {n})
            \/ probe'[c] = probe[c] /\ c # n /\ probe[c].helper # n
  <1>1. /\ probe[c] \in ProbeType /\ probe[c].left \ {n} \in SUBSET Node
        /\ Idle \in ProbeType
    BY IdleState DEF TypeInv, TypeOK, ProbeType
  <1>2. Asking(probe[c], probe[c].left \ {n}) \in ProbeType
    BY <1>1, AskingState
  <1>3. probe'[c] = CASE c = n -> Idle
                      [] c # n /\ probe[c].helper = n ->
                           Asking(probe[c], probe[c].left \ {n})
                      [] OTHER -> probe[c]
    BY DEF Stop
  <1> QED
    BY <1>1, <1>2, <1>3

LEMMA StopType ==
  ASSUME TypeInv, NEW n \in Node, Stop(n)
  PROVE  TypeInv'
  <1>1. /\ up' = up \ {n} /\ steady' = steady \ {n}
        /\ UNCHANGED <<list, losses, raced>>
        /\ stops < MaxStops /\ stops' = stops + 1
    BY DEF Stop
  <1>2. stops' \in 0..MaxStops
    BY <1>1, ListAssumption DEF TypeInv, TypeOK
  <1>3. probe' \in [Node -> ProbeType]
    <2>1. \A c \in Node : probe'[c] \in ProbeType
      BY StopProbes
    <2>2. \E f : probe' = [c \in Node |-> f[c]]
      <3> DEFINE f == [c \in Node |->
                        CASE c = n -> Idle
                          [] c # n /\ probe[c].helper = n ->
                               Asking(probe[c], probe[c].left \ {n})
                          [] OTHER -> probe[c]]
      <3>1. probe' = f
        BY DEF Stop
      <3> QED
        BY <3>1
    <2> QED
      BY <2>1, <2>2
  <1>4. ASSUME NEW c \in Node
        PROVE  /\ probe'[c].phase \in {"searching", "confirming"}
                    => probe'[c].helper \in up' \cap probe'[c].left
               /\ probe'[c].phase # "idle"
                    => c \in up' /\ probe'[c].target \in Node
               /\ probe'[c].phase = "removing" => probe'[c].left = {}
               /\ probe'[c].helper # NoOne
                    => probe'[c].phase \in {"searching", "confirming"}
    <2>1. CASE probe'[c] = Idle
      BY <2>1, IdleState
    <2>2. CASE /\ probe[c].helper = n /\ c # n
               /\ probe'[c] = Asking(probe[c], probe[c].left \ {n})
      <3>1. n # NoOne
        BY ListAssumption
      <3>2. /\ probe[c].phase # "idle" /\ c \in up /\ probe[c].target \in Node
            /\ probe[c] \in ProbeType /\ probe[c].left \ {n} \in SUBSET Node
        BY <2>2, <3>1 DEF TypeInv, TypeOK, ProbeType, Busy
      <3> DEFINE p == Asking(probe[c], probe[c].left \ {n})
      <3>3. /\ p.left = probe[c].left \ {n} /\ p.target = probe[c].target
            /\ p.helper = NoOne
            /\ p.phase = IF probe[c].left \ {n} = {} THEN "removing" ELSE "asking"
        BY <3>2, AskingState
      <3> HIDE DEF p
      <3>4. probe'[c] = p
        BY <2>2 DEF p
      <3> QED
        BY <1>1, <2>2, <3>2, <3>3, <3>4
    <2>3. CASE probe'[c] = probe[c] /\ c # n /\ probe[c].helper # n
      BY <1>1, <2>3 DEF TypeInv, TypeOK, Busy
    <2> QED
      BY <2>1, <2>2, <2>3, StopProbes
  <1>5. up' \subseteq Node /\ steady' \subseteq up'
    BY <1>1 DEF TypeInv, TypeOK
  <1>6. /\ list' \in [Node -> Seq(Node)] /\ losses' \in 0..MaxLosses
        /\ raced' \in BOOLEAN
    BY <1>1 DEF TypeInv, TypeOK
  <1>7. TypeOK'
    BY <1>2, <1>3, <1>4, <1>5, <1>6 DEF TypeOK, ProbeType
  <1> QED
    BY <1>4, <1>7 DEF TypeInv, Busy

LEMMA TypeStep == TypeInv /\ [Next]_vars => TypeInv'
  <1> SUFFICES ASSUME TypeInv, [Next]_vars PROVE TypeInv'
    OBVIOUS
  <1>1. CASE UNCHANGED vars
    BY <1>1 DEF vars, TypeInv, TypeOK, Busy
  <1>2. CASE Next
    <2>1. PICK n \in Node : \/ Detect(n) \/ Start(n) \/ Stop(n)
                            \/ \E target \in Node : Choose(n, target)
      BY <1>2 DEF Next
    <2>2. CASE Detect(n)
      BY <2>2, PingAnsweredType, PingFailsType, AskHelperType, AskFailsType,
         SearchType, SearchMissesType, HelperConfirmsType, HelperDeniesType,
         RemoveTargetType DEF Detect
    <2> QED
      BY <2>1, <2>2, StartType, StopType, ChooseType
  <1> QED
    BY <1>1, <1>2

\* The types hold throughout, and the helper a detector waits for runs and is
\* one it chose: nobody waits for an answer of a node that stopped.
THEOREM TypeCorrect == Spec => []TypeOK
  <1>1. TypeInv => TypeOK
    BY DEF TypeInv
  <1> QED
    BY <1>1, InitType, TypeStep, PTL DEF Spec

-----------------------------------------------------------------------------
(* One loss.  While it is all that was lost, every list names every steady *)
(* node.  A detector that suspects one has lost its ping, so every later   *)
(* call to a steady node is answered; among those it asked is a steady one *)
(* that is not done, and that one finds the target in its list.            *)

Suspects(n) ==
  /\ probe[n].phase \in {"asking", "searching", "confirming", "removing"}
  /\ probe[n].target \in steady
\* Of those it asked, the steady ones are left.
HelpersLeft(n) ==
  \E asked \in SUBSET Node :
    /\ Cardinality(asked) >= K \/ steady \ {n, probe[n].target} \subseteq asked
    /\ asked \cap steady \subseteq probe[n].left

AllListed == \A n \in up, m \in steady : m \in Members(n)
Covered == \A n \in Node : Suspects(n) => losses >= 1 /\ HelpersLeft(n)
Ahead ==
  \A n \in Node : probe[n].phase = "searching" /\ probe[n].target \in steady =>
    \E i \in probe[n].at..Len(list[probe[n].helper]) :
      list[probe[n].helper][i] = probe[n].target

Good == AllListed /\ Covered /\ Ahead
Inv == TypeInv /\ (Tolerable => Good)

\* A steady helper is left.
LEMMA SomeHelperLeft ==
  ASSUME TypeInv, Tolerable, NEW n \in Node, HelpersLeft(n)
  PROVE  probe[n].left # {}
  <1>1. PICK asked \in SUBSET Node :
          /\ \/ Cardinality(asked) >= K
             \/ steady \ {n, probe[n].target} \subseteq asked
          /\ asked \cap steady \subseteq probe[n].left
    BY DEF HelpersLeft
  <1>2. steady \subseteq Node /\ IsFiniteSet(steady) /\ IsFiniteSet(Node \ steady)
    BY NodesFinite, FS_Subset DEF TypeInv, TypeOK
  <1>3. asked \cap steady # {}
    <2>1. CASE Cardinality(asked) >= K
      <3>1. SUFFICES ASSUME asked \subseteq Node \ steady PROVE FALSE
        BY <1>1
      <3>2. Cardinality(asked) <= Cardinality(Node \ steady)
        BY <1>2, <3>1, FS_Subset
      <3>3. Cardinality(asked) \in Nat /\ Cardinality(Node \ steady) \in Nat
        BY <1>2, <3>1, FS_Subset, FS_CardinalityType
      <3>4. Cardinality(Node \ steady) < K /\ K \in Nat
        BY ListAssumption DEF Tolerable
      <3> QED
        BY <2>1, <3>2, <3>3, <3>4
    <2>2. CASE steady \ {n, probe[n].target} \subseteq asked
      <3>1. SUFFICES ASSUME steady \subseteq {n, probe[n].target} PROVE FALSE
        BY <2>2
      <3>2. IsFiniteSet({n, probe[n].target}) /\ Cardinality({n, probe[n].target}) <= 2
        <4>1. IsFiniteSet({n}) /\ Cardinality({n}) = 1
          BY FS_Singleton
        <4>2. {n, probe[n].target} = {n} \cup {probe[n].target}
          OBVIOUS
        <4> QED
          BY <4>1, <4>2, FS_AddElement
      <3>3. Cardinality(steady) <= Cardinality({n, probe[n].target})
        BY <3>1, <3>2, FS_Subset
      <3>4. Cardinality(steady) \in Nat /\ Cardinality({n, probe[n].target}) \in Nat
        BY <1>2, <3>2, FS_CardinalityType
      <3>5. Cardinality(steady) > 2
        BY DEF Tolerable
      <3> QED
        BY <3>2, <3>3, <3>4, <3>5
    <2> QED
      BY <1>1, <2>1, <2>2
  <1> QED
    BY <1>1, <1>3

\* A step that loses one node more, or one call more, is no easier to bear.
LEMMA TolerableBefore ==
  ASSUME TypeInv, TypeInv', losses' >= losses, steady' \subseteq steady,
         raced => raced', Tolerable'
  PROVE  Tolerable
  <1>1. /\ losses \in Nat /\ losses' \in Nat /\ K \in Nat
        /\ IsFiniteSet(steady) /\ IsFiniteSet(Node \ steady')
    BY NodesFinite, FS_Subset, ListAssumption DEF TypeInv, TypeOK
  <1>2. /\ Cardinality(steady') <= Cardinality(steady)
        /\ Cardinality(Node \ steady) <= Cardinality(Node \ steady')
        /\ IsFiniteSet(steady') /\ IsFiniteSet(Node \ steady)
    <2>1. Node \ steady \subseteq Node \ steady'
      OBVIOUS
    <2> QED
      BY <1>1, <2>1, FS_Subset
  <1>3. /\ Cardinality(steady) \in Nat /\ Cardinality(steady') \in Nat
        /\ Cardinality(Node \ steady) \in Nat
        /\ Cardinality(Node \ steady') \in Nat
    BY <1>1, <1>2, FS_CardinalityType
  <1>4. /\ losses' <= 1 /\ ~raced' /\ Cardinality(steady') > 2
        /\ Cardinality(Node \ steady') < K
    BY DEF Tolerable
  <1>5. losses <= 1 /\ Cardinality(steady) > 2 /\ Cardinality(Node \ steady) < K
    BY <1>1, <1>2, <1>3, <1>4
  <1> QED
    BY <1>4, <1>5 DEF Tolerable

\* A running node answers whatever it is asked; a call to it that fails is lost.
LEMMA LostCall ==
  ASSUME TypeInv, NEW n, n \in steady,
         Fails(n, "Ping") \/ Fails(n, "IndirectPing")
  PROVE  losses' = losses + 1
  BY DEF Fails, Answers, Registered, TypeInv, TypeOK

\* What a step keeps of the helpers a detector asked.
LEMMA HelpersStay ==
  ASSUME NEW n \in Node, HelpersLeft(n), steady' \subseteq steady,
         probe'[n].target = probe[n].target,
         probe[n].left \cap steady' \subseteq probe'[n].left
  PROVE  HelpersLeft(n)'
  <1>1. PICK asked \in SUBSET Node :
          /\ \/ Cardinality(asked) >= K
             \/ steady \ {n, probe[n].target} \subseteq asked
          /\ asked \cap steady \subseteq probe[n].left
    BY DEF HelpersLeft
  <1>2. /\ \/ Cardinality(asked) >= K
           \/ steady' \ {n, probe'[n].target} \subseteq asked
        /\ asked \cap steady' \subseteq probe'[n].left
    BY <1>1
  <1> QED
    BY <1>2 DEF HelpersLeft

\* One detector's step, seen from the others.
LEMMA OneProbe ==
  ASSUME TypeInv, TypeInv', Good, NEW n \in Node, NEW p,
         probe' = [probe EXCEPT ![n] = p], losses' >= losses,
         UNCHANGED <<up, list, steady>>,
         p.phase \in {"asking", "searching", "confirming", "removing"} =>
           (p.target \in steady => losses' >= 1 /\ HelpersLeft(n)'),
         p.phase = "searching" /\ p.target \in steady
           => \E i \in p.at..Len(list[p.helper]) : list[p.helper][i] = p.target
  PROVE  Good'
  <1>1. AllListed'
    BY DEF Good, AllListed, Members
  <1>2. probe'[n] = p /\ \A c \in Node \ {n} : probe'[c] = probe[c]
    BY DEF TypeInv, TypeOK
  <1>3. ASSUME NEW c \in Node, Suspects(c)'
        PROVE  losses' >= 1 /\ HelpersLeft(c)'
    <2>1. CASE c = n
      BY <1>2, <1>3, <2>1 DEF Suspects
    <2>2. CASE c # n
      <3>1. probe'[c] = probe[c] /\ Suspects(c)
        BY <1>2, <1>3, <2>2 DEF Suspects
      <3>2. losses >= 1 /\ HelpersLeft(c)
        BY <3>1 DEF Good, Covered
      <3>3. losses \in Nat /\ losses' \in Nat
        BY ListAssumption DEF TypeInv, TypeOK
      <3> QED
        BY <3>1, <3>2, <3>3, HelpersStay
    <2> QED
      BY <2>1, <2>2
  <1>4. ASSUME NEW c \in Node, probe'[c].phase = "searching",
               probe'[c].target \in steady'
        PROVE  \E i \in probe'[c].at..Len(list'[probe'[c].helper]) :
                 list'[probe'[c].helper][i] = probe'[c].target
    <2>1. CASE c = n
      BY <1>2, <1>4, <2>1
    <2>2. CASE c # n
      <3>1. probe'[c] = probe[c]
        BY <1>2, <2>2
      <3>2. probe[c].phase = "searching" /\ probe[c].target \in steady
        BY <1>4, <3>1
      <3> QED
        BY <3>1, <3>2 DEF Good, Ahead
    <2> QED
      BY <2>1, <2>2
  <1>5. Covered'
    BY <1>3 DEF Covered
  <1>6. Ahead'
    BY <1>4 DEF Ahead
  <1> QED
    BY <1>1, <1>5, <1>6 DEF Good

\* A detector that rests or pings suspects nobody.
LEMMA Unsuspecting ==
  ASSUME TypeInv, TypeInv', Good, NEW n \in Node, NEW p,
         probe' = [probe EXCEPT ![n] = p], p.phase \in {"idle", "pinging"},
         UNCHANGED <<up, list, steady, losses>>
  PROVE  Good'
  <1>1. losses' >= losses
    BY ListAssumption DEF TypeInv, TypeOK
  <1>2. UNCHANGED <<up, list, steady>>
    OBVIOUS
  <1>3. /\ p.phase \notin {"asking", "searching", "confirming", "removing"}
        /\ p.phase # "searching"
    OBVIOUS
  <1> QED
    BY <1>1, <1>2, <1>3, OneProbe

LEMMA ChooseGood ==
  ASSUME TypeInv, TypeInv', Good, NEW n \in Node, NEW target \in Node,
         Choose(n, target)
  PROVE  Good'
  <1> DEFINE p == [Idle EXCEPT !.phase = "pinging", !.target = target]
  <1>1. /\ p.phase = "pinging" /\ probe' = [probe EXCEPT ![n] = p]
        /\ UNCHANGED <<up, list, steady, losses>>
    BY DEF Choose, Idle
  <1> HIDE DEF p
  <1> QED
    BY <1>1, Unsuspecting

LEMMA RestGood ==
  ASSUME TypeInv, TypeInv', Good, NEW n \in Node,
         PingAnswered(n) \/ HelperConfirms(n)
  PROVE  Good'
  <1>1. /\ probe' = [probe EXCEPT ![n] = Idle] /\ Idle.phase = "idle"
        /\ UNCHANGED <<up, list, steady, losses>>
    BY IdleState DEF PingAnswered, HelperConfirms
  <1> QED
    BY <1>1, Unsuspecting

\* The first suspicion of a steady node costs a call, and it asks either as
\* many as an indirect ping asks or everybody it knows.
LEMMA PingFailsGood ==
  ASSUME TypeInv, TypeInv', Good, NEW n \in Node, PingFails(n)
  PROVE  Good'
  <1>1. PICK helpers \in HelperSets(n) :
          probe' = [probe EXCEPT ![n] = Asking(@, helpers)]
    BY DEF PingFails
  <1>2. /\ list[n] \in Seq(Node) /\ probe[n] \in ProbeType /\ n \in up
        /\ steady \subseteq Node /\ losses \in Nat
    BY ListAssumption DEF TypeInv, TypeOK, PingFails, Busy, ProbeType
  <1> DEFINE others == Members(n) \ {n, probe[n].target}
  <1>3. /\ helpers \subseteq others
        /\ Cardinality(helpers) = IF Cardinality(others) < K
                                  THEN Cardinality(others) ELSE K
    BY DEF HelperSets
  <1>4. Members(n) \subseteq Node
    BY <1>2 DEF Members, ToSet
  <1> DEFINE p == Asking(probe[n], helpers)
  <1>5. /\ p.left = helpers /\ p.target = probe[n].target
        /\ p.phase \in {"asking", "removing"}
    BY <1>2, <1>3, <1>4, AskingState
  <1>6. probe' = [probe EXCEPT ![n] = p] /\ UNCHANGED <<up, list, steady>>
    BY <1>1 DEF PingFails
  <1>7. losses' >= losses
    BY FailsLosses DEF PingFails
  <1>8. ASSUME probe[n].target \in steady
        PROVE  losses' >= 1 /\ HelpersLeft(n)'
    <2>1. losses' >= 1
      <3>1. losses' = losses + 1
        BY <1>8, LostCall DEF PingFails
      <3> QED
        BY <1>2, <3>1
    <2>2. Cardinality(helpers) >= K \/ steady \ {n, probe[n].target} \subseteq helpers
      <3>1. CASE Cardinality(others) < K
        <4>1. IsFiniteSet(others)
          BY <1>4, NodesFinite, FS_Subset
        <4>2. helpers = others
          BY <1>3, <3>1, <4>1, FS_Subset
        <4>3. steady \subseteq Members(n)
          BY <1>2 DEF Good, AllListed
        <4> QED
          BY <4>2, <4>3
      <3>2. CASE ~(Cardinality(others) < K)
        <4>1. Cardinality(helpers) = K /\ K \in Nat
          BY <1>3, <3>2, ListAssumption
        <4> QED
          BY <4>1
      <3> QED
        BY <3>1, <3>2
    <2>3. probe'[n].left = helpers /\ probe'[n].target = probe[n].target
      BY <1>5, <1>6 DEF TypeInv, TypeOK
    <2>4. helpers \in SUBSET Node
      BY <1>3, <1>4
    <2>5. /\ \/ Cardinality(helpers) >= K
             \/ steady' \ {n, probe'[n].target} \subseteq helpers
          /\ helpers \cap steady' \subseteq probe'[n].left
      BY <1>6, <2>2, <2>3
    <2> QED
      BY <2>1, <2>4, <2>5 DEF HelpersLeft
  <1> HIDE DEF p, others
  <1> QED
    BY <1>5, <1>6, <1>7, <1>8, OneProbe

LEMMA AskHelperGood ==
  ASSUME TypeInv, TypeInv', Good, NEW n \in Node, NEW helper \in Node,
         AskHelper(n, helper)
  PROVE  Good'
  <1> DEFINE p == [probe[n] EXCEPT !.phase = "searching", !.helper = helper,
                                   !.at = 1]
  <1>1. /\ probe[n] \in ProbeType /\ losses \in Nat /\ helper \in up
        /\ steady \subseteq Node
    BY ListAssumption DEF TypeInv, TypeOK, ProbeType, AskHelper, Answers
  <1>2. /\ p.phase = "searching" /\ p.helper = helper /\ p.at = 1
        /\ p.left = probe[n].left /\ p.target = probe[n].target
    BY <1>1 DEF ProbeType
  <1>3. /\ probe' = [probe EXCEPT ![n] = p]
        /\ UNCHANGED <<up, list, steady>> /\ losses' = losses
    <2>1. probe' = [probe EXCEPT ![n] = p]
      <3>1. probe \in [Node -> ProbeType]
        BY DEF TypeInv, TypeOK, ProbeType
      <3>2. probe' = [probe EXCEPT ![n].phase = "searching",
                                   ![n].helper = helper, ![n].at = 1]
        BY DEF AskHelper
      <3> QED
        BY <3>1, <3>2 DEF ProbeType
    <2>2. UNCHANGED <<up, list, steady>> /\ losses' = losses
      BY DEF AskHelper
    <2> QED
      BY <2>1, <2>2
  <1> HIDE DEF p
  <1>4. ASSUME probe[n].target \in steady
        PROVE  losses' >= 1 /\ HelpersLeft(n)'
    <2>1. Suspects(n)
      BY <1>4 DEF Suspects, AskHelper
    <2>2. losses >= 1 /\ HelpersLeft(n)
      BY <2>1 DEF Good, Covered
    <2>3. probe'[n] = p
      BY <1>3 DEF TypeInv, TypeOK
    <2> QED
      BY <1>2, <1>3, <2>2, <2>3, HelpersStay
  <1>5. ASSUME probe[n].target \in steady
        PROVE  \E i \in 1..Len(list[helper]) : list[helper][i] = probe[n].target
    <2>1. probe[n].target \in Members(helper)
      BY <1>1, <1>5 DEF Good, AllListed
    <2> QED
      BY <2>1, Listed
  <1>6. losses' >= losses
    BY <1>1, <1>3
  <1> QED
    BY <1>2, <1>3, <1>4, <1>5, <1>6, OneProbe

LEMMA SearchGood ==
  ASSUME TypeInv, TypeInv', Good, NEW n \in Node, Search(n)
  PROVE  Good'
  <1> DEFINE here == list[probe[n].helper][probe[n].at]
             p == IF here = probe[n].target
                  THEN [probe[n] EXCEPT !.phase = "confirming"]
                  ELSE [probe[n] EXCEPT !.at = probe[n].at + 1]
  <1>1. probe[n] \in ProbeType /\ losses \in Nat /\ probe[n].at \in Nat
    BY ListAssumption DEF TypeInv, TypeOK, ProbeType
  <1>2. /\ p.left = probe[n].left /\ p.target = probe[n].target
        /\ p.helper = probe[n].helper
        /\ p.phase = "searching" => here # probe[n].target /\ p.at = probe[n].at + 1
    BY <1>1 DEF ProbeType
  <1>3. /\ probe' = [probe EXCEPT ![n] = p]
        /\ UNCHANGED <<up, list, steady>> /\ losses' = losses
    BY DEF Search, TypeInv, TypeOK
  <1> HIDE DEF p
  <1>4. ASSUME probe[n].target \in steady
        PROVE  losses' >= 1 /\ HelpersLeft(n)'
    <2>1. Suspects(n)
      BY <1>4 DEF Suspects, Search
    <2>2. losses >= 1 /\ HelpersLeft(n)
      BY <2>1 DEF Good, Covered
    <2>3. probe'[n] = p
      BY <1>3 DEF TypeInv, TypeOK
    <2> QED
      BY <1>2, <1>3, <2>2, <2>3, HelpersStay
  <1>5. ASSUME p.phase = "searching", p.target \in steady
        PROVE  \E i \in p.at..Len(list[p.helper]) : list[p.helper][i] = p.target
    <2>1. PICK i \in probe[n].at..Len(list[probe[n].helper]) :
            list[probe[n].helper][i] = probe[n].target
      BY <1>2, <1>5 DEF Good, Ahead, Search
    <2>2. i # probe[n].at
      BY <1>2, <1>5, <2>1
    <2>3. i \in (probe[n].at + 1)..Len(list[probe[n].helper])
      BY <1>1, <2>2
    <2> QED
      BY <1>2, <1>5, <2>1, <2>3
  <1>6. losses' >= losses
    BY <1>1, <1>3
  <1> HIDE DEF here
  <1> QED
    BY <1>2, <1>3, <1>4, <1>5, <1>6, OneProbe

\* A detector that gives up a helper, which is not steady if the target is.
LEMMA GivenUp ==
  ASSUME NEW n \in Node, NEW helper, TypeInv, TypeInv', Good,
         probe[n].phase \in {"asking", "searching", "confirming"},
         probe' = [probe EXCEPT ![n] = Asking(probe[n], probe[n].left \ {helper})],
         losses' >= losses, UNCHANGED <<up, list, steady>>,
         probe[n].target \in steady => helper \notin steady
  PROVE  Good'
  <1> DEFINE p == Asking(probe[n], probe[n].left \ {helper})
  <1>1. /\ probe[n] \in ProbeType /\ probe[n].left \ {helper} \in SUBSET Node
        /\ losses \in Nat /\ losses' \in Nat
    BY ListAssumption DEF TypeInv, TypeOK, ProbeType
  <1>2. /\ p.left = probe[n].left \ {helper} /\ p.target = probe[n].target
        /\ p.phase \in {"asking", "removing"}
    BY <1>1, AskingState
  <1>3. probe' = [probe EXCEPT ![n] = p]
    BY DEF TypeInv, TypeOK
  <1> HIDE DEF p
  <1>4. ASSUME probe[n].target \in steady
        PROVE  losses' >= 1 /\ HelpersLeft(n)'
    <2>1. Suspects(n)
      BY <1>4 DEF Suspects
    <2>2. losses >= 1 /\ HelpersLeft(n)
      BY <2>1 DEF Good, Covered
    <2>3. probe'[n] = p
      BY <1>3 DEF TypeInv, TypeOK
    <2>4. probe[n].left \cap steady' \subseteq probe'[n].left
      BY <1>2, <1>4, <2>3
    <2>5. losses' >= 1
      BY <1>1, <2>2
    <2>6. steady' \subseteq steady /\ probe'[n].target = probe[n].target
      BY <1>2, <2>3
    <2>7. HelpersLeft(n)'
      BY <2>2, <2>4, <2>6, HelpersStay
    <2> QED
      BY <2>5, <2>7
  <1>5. p.phase # "searching"
    BY <1>2
  <1> QED
    BY <1>2, <1>3, <1>4, <1>5, OneProbe

\* No call to a steady node fails for a detector that suspects another.
LEMMA NoSecondLoss ==
  ASSUME TypeInv, Good, Tolerable', NEW n \in Node, Suspects(n), NEW m,
         Fails(m, "Ping") \/ Fails(m, "IndirectPing")
  PROVE  m \notin steady
  <1>1. losses >= 1 /\ losses \in Nat /\ losses' <= 1
    BY ListAssumption DEF Good, Covered, Tolerable, TypeInv, TypeOK
  <1>2. ASSUME m \in steady PROVE FALSE
    <2>1. losses' = losses + 1
      BY <1>2, LostCall
    <2> QED
      BY <1>1, <2>1
  <1> QED
    BY <1>2

LEMMA AskFailsGood ==
  ASSUME TypeInv, TypeInv', Good, Tolerable', NEW n \in Node,
         NEW helper \in Node, AskFails(n, helper)
  PROVE  Good'
  <1>1. /\ probe[n].phase \in {"asking", "searching", "confirming"}
        /\ probe[n].phase = "asking" /\ Fails(helper, "IndirectPing")
        /\ probe' = [probe EXCEPT ![n] = Asking(probe[n], probe[n].left \ {helper})]
        /\ UNCHANGED <<up, list, steady>>
    BY DEF AskFails, TypeInv, TypeOK
  <1>2. losses' >= losses
    BY <1>1, FailsLosses
  <1>3. probe[n].target \in steady => helper \notin steady
    BY <1>1, NoSecondLoss DEF Suspects
  <1> QED
    BY <1>1, <1>2, <1>3, GivenUp

\* The target of a search is in the list that is searched.
LEMMA SearchMissesGood ==
  ASSUME TypeInv, TypeInv', Good, NEW n \in Node, SearchMisses(n)
  PROVE  Good'
  <1>1. /\ probe[n].phase \in {"asking", "searching", "confirming"}
        /\ probe[n].phase = "searching" /\ losses \in Nat /\ probe[n].at \in Nat
        /\ probe' = [probe EXCEPT ![n] = Asking(probe[n], probe[n].left \ {probe[n].helper})]
        /\ UNCHANGED <<up, list, steady>> /\ losses' = losses
        /\ probe[n].at > Len(list[probe[n].helper])
        /\ probe[n].helper \in Node /\ list[probe[n].helper] \in Seq(Node)
    BY ListAssumption DEF SearchMisses, TypeInv, TypeOK
  <1>2. probe[n].target \notin steady
    <2>1. Len(list[probe[n].helper]) \in Nat
      BY <1>1
    <2>2. ~\E i \in probe[n].at..Len(list[probe[n].helper]) : TRUE
      BY <1>1, <2>1
    <2> QED
      BY <1>1, <2>2 DEF Good, Ahead
  <1>3. losses' >= losses
    BY <1>1
  <1> QED
    BY <1>1, <1>2, <1>3, GivenUp

LEMMA HelperDeniesGood ==
  ASSUME TypeInv, TypeInv', Good, Tolerable', NEW n \in Node, HelperDenies(n)
  PROVE  Good'
  <1>1. /\ probe[n].phase \in {"asking", "searching", "confirming"}
        /\ probe[n].phase = "confirming" /\ Fails(probe[n].target, "Ping")
        /\ probe' = [probe EXCEPT ![n] = Asking(probe[n], probe[n].left \ {probe[n].helper})]
        /\ UNCHANGED <<up, list, steady>>
    BY DEF HelperDenies, TypeInv, TypeOK
  <1>2. losses' >= losses
    BY <1>1, FailsLosses
  <1>3. probe[n].target \notin steady
    BY <1>1, NoSecondLoss DEF Suspects
  <1> QED
    BY <1>1, <1>2, <1>3, GivenUp

\* It has asked nobody who is steady in vain, so its target is not steady.
LEMMA RemoveTargetGood ==
  ASSUME NEW n \in Node, TypeInv, TypeInv', Good, Tolerable, Tolerable',
         RemoveTarget(n)
  PROVE  Good'
  <1>1. /\ probe' = [probe EXCEPT ![n] = Idle] /\ losses' = losses
        /\ UNCHANGED <<up, steady>> /\ probe[n].phase = "removing"
    BY DEF RemoveTarget
  <1>2. /\ list' \in [Node -> Seq(Node)]
        /\ \A c \in Node \ {n} : list'[c] = list[c]
        /\ \A m \in Members(n) : m # probe[n].target => m \in Members(n)'
    BY RemoveTargetLists
  <1>3. probe[n].target \notin steady
    <2>1. probe[n].left = {}
      BY <1>1 DEF TypeInv
    <2>2. ASSUME Suspects(n) PROVE FALSE
      <3>1. HelpersLeft(n)
        BY <2>2 DEF Good, Covered
      <3> QED
        BY <2>1, <3>1, SomeHelperLeft
    <2> QED
      BY <1>1, <2>2 DEF Suspects
  <1>4. up \subseteq Node
    BY DEF TypeInv, TypeOK
  <1>5. ASSUME NEW c \in up', NEW m \in steady'
        PROVE  m \in Members(c)'
    <2>1. c \in Node /\ m \in Members(c) /\ m # probe[n].target
      BY <1>1, <1>3, <1>4, <1>5 DEF Good, AllListed
    <2>2. CASE c = n
      BY <1>2, <2>1, <2>2
    <2>3. CASE c # n
      BY <1>2, <2>1, <2>3 DEF Members
    <2> QED
      BY <2>2, <2>3
  <1>6. /\ probe'[n] = Idle /\ Idle.phase = "idle"
        /\ \A c \in Node \ {n} : probe'[c] = probe[c]
    BY <1>1, IdleState DEF TypeInv, TypeOK
  <1>7. ASSUME NEW c \in Node, Suspects(c)'
        PROVE  losses' >= 1 /\ HelpersLeft(c)'
    <2>1. c # n
      BY <1>6, <1>7 DEF Suspects
    <2>2. probe'[c] = probe[c] /\ Suspects(c)
      BY <1>1, <1>6, <1>7, <2>1 DEF Suspects
    <2>3. losses >= 1 /\ HelpersLeft(c)
      BY <2>2 DEF Good, Covered
    <2>4. HelpersLeft(c)'
      BY <1>1, <2>2, <2>3, HelpersStay
    <2> QED
      BY <1>1, <2>3, <2>4
  <1>8. ASSUME NEW c \in Node, probe'[c].phase = "searching",
               probe'[c].target \in steady'
        PROVE  \E i \in probe'[c].at..Len(list'[probe'[c].helper]) :
                 list'[probe'[c].helper][i] = probe'[c].target
    <2>1. c # n /\ probe'[c] = probe[c]
      BY <1>6, <1>8
    <2>2. probe[c].helper # n
      <3>1. ~raced'
        BY DEF Tolerable
      <3>2. ~\E d \in Node : probe[d].phase = "searching" /\ probe[d].helper = n
        BY <3>1 DEF RemoveTarget
      <3> QED
        BY <1>8, <2>1, <3>2
    <2>3. probe[c].helper \in Node
      BY <1>8, <2>1 DEF TypeInv, TypeOK
    <2>4. list'[probe[c].helper] = list[probe[c].helper]
      BY <1>2, <2>2, <2>3
    <2>5. \E i \in probe[c].at..Len(list[probe[c].helper]) :
            list[probe[c].helper][i] = probe[c].target
      BY <1>1, <1>8, <2>1 DEF Good, Ahead
    <2> QED
      BY <2>1, <2>4, <2>5
  <1>9. AllListed'
    BY <1>5 DEF AllListed
  <1>10. Covered'
    BY <1>7 DEF Covered
  <1>11. Ahead'
    BY <1>8 DEF Ahead
  <1> QED
    BY <1>9, <1>10, <1>11 DEF Good

\* A node starts with everybody on its list, and nobody searches that list.
LEMMA StartGood ==
  ASSUME NEW n \in Node, TypeInv, TypeInv', Good, Start(n)
  PROVE  Good'
  <1>1. /\ n \notin up /\ up' = up \cup {n} /\ losses' = losses
        /\ UNCHANGED <<probe, steady>>
        /\ list' = [list EXCEPT ![n] = MembershipList]
    BY DEF Start
  <1>2. list'[n] = MembershipList /\ \A c \in Node \ {n} : list'[c] = list[c]
    BY <1>1 DEF TypeInv, TypeOK
  <1>3. up \subseteq Node /\ steady \subseteq Node
    BY DEF TypeInv, TypeOK
  <1>4. ASSUME NEW c \in up', NEW m \in steady'
        PROVE  m \in Members(c)'
    <2>1. CASE c = n
      BY <1>1, <1>2, <1>3, <1>4, <2>1 DEF Members, Node
    <2>2. CASE c # n
      <3>1. c \in up /\ c \in Node /\ m \in steady
        BY <1>1, <1>3, <1>4, <2>2
      <3>2. m \in Members(c)
        BY <3>1 DEF Good, AllListed
      <3> QED
        BY <1>2, <2>2, <3>1, <3>2 DEF Members
    <2> QED
      BY <2>1, <2>2
  <1>5. ASSUME NEW c \in Node, Suspects(c)'
        PROVE  losses' >= 1 /\ HelpersLeft(c)'
    BY <1>1, <1>5 DEF Good, Covered, Suspects, HelpersLeft
  <1>6. ASSUME NEW c \in Node, probe'[c].phase = "searching",
               probe'[c].target \in steady'
        PROVE  \E i \in probe'[c].at..Len(list'[probe'[c].helper]) :
                 list'[probe'[c].helper][i] = probe'[c].target
    <2>1. probe[c].helper \in Node \ {n}
      BY <1>1, <1>3, <1>6 DEF TypeInv, TypeOK
    <2>2. list'[probe[c].helper] = list[probe[c].helper]
      BY <1>2, <2>1
    <2>3. \E i \in probe[c].at..Len(list[probe[c].helper]) :
            list[probe[c].helper][i] = probe[c].target
      BY <1>1, <1>6 DEF Good, Ahead
    <2> QED
      BY <1>1, <2>2, <2>3
  <1>7. AllListed'
    BY <1>4 DEF AllListed
  <1>8. Covered'
    BY <1>5 DEF Covered
  <1>9. Ahead'
    BY <1>6 DEF Ahead
  <1> QED
    BY <1>7, <1>8, <1>9 DEF Good

\* A helper that stops is not steady any more.
LEMMA StopGood ==
  ASSUME NEW n \in Node, TypeInv, TypeInv', Good, Stop(n)
  PROVE  Good'
  <1>1. /\ up' = up \ {n} /\ steady' = steady \ {n} /\ losses' = losses
        /\ list' = list
    BY DEF Stop
  <1>2. AllListed'
    BY <1>1 DEF Good, AllListed, Members
  <1>3. ASSUME NEW c \in Node
        PROVE  \/ probe'[c].phase = "idle"
               \/ /\ probe[c].phase \in {"searching", "confirming"}
                  /\ probe'[c].phase \in {"asking", "removing"}
                  /\ probe'[c].left = probe[c].left \ {n}
                  /\ probe'[c].target = probe[c].target
               \/ probe'[c] = probe[c]
    <2>1. CASE probe'[c] = Idle
      BY <2>1, IdleState
    <2>2. CASE /\ probe[c].helper = n
               /\ probe'[c] = Asking(probe[c], probe[c].left \ {n})
      <3>1. /\ probe[c] \in ProbeType /\ probe[c].left \ {n} \in SUBSET Node
            /\ n # NoOne
        BY ListAssumption DEF TypeInv, TypeOK, ProbeType
      <3>2. probe[c].phase \in {"searching", "confirming"}
        BY <2>2, <3>1 DEF TypeInv
      <3> DEFINE p == Asking(probe[c], probe[c].left \ {n})
      <3>3. /\ p.left = probe[c].left \ {n} /\ p.target = probe[c].target
            /\ p.phase \in {"asking", "removing"}
        BY <3>1, AskingState
      <3> HIDE DEF p
      <3>4. probe'[c] = p
        BY <2>2 DEF p
      <3> QED
        BY <3>2, <3>3, <3>4
    <2> QED
      BY <2>1, <2>2, StopProbes
  <1>4. ASSUME NEW c \in Node, Suspects(c)'
        PROVE  losses' >= 1 /\ HelpersLeft(c)'
    <2>1. /\ Suspects(c) /\ probe'[c].target = probe[c].target
          /\ probe[c].left \cap steady' \subseteq probe'[c].left
      BY <1>1, <1>3, <1>4 DEF Suspects
    <2>2. losses >= 1 /\ HelpersLeft(c)
      BY <2>1 DEF Good, Covered
    <2>3. steady' \subseteq steady
      BY <1>1
    <2>4. HelpersLeft(c)'
      BY <2>1, <2>2, <2>3, HelpersStay
    <2> QED
      BY <1>1, <2>2, <2>4
  <1>5. ASSUME NEW c \in Node, probe'[c].phase = "searching",
               probe'[c].target \in steady'
        PROVE  \E i \in probe'[c].at..Len(list'[probe'[c].helper]) :
                 list'[probe'[c].helper][i] = probe'[c].target
    <2>1. probe'[c] = probe[c]
      BY <1>3, <1>5
    <2> QED
      BY <1>1, <1>5, <2>1 DEF Good, Ahead
  <1>6. Covered'
    BY <1>4 DEF Covered
  <1>7. Ahead'
    BY <1>5 DEF Ahead
  <1> QED
    BY <1>2, <1>6, <1>7 DEF Good

LEMMA InitGood == Init => Good
  <1> SUFFICES ASSUME Init PROVE Good
    OBVIOUS
  <1>1. \A n \in Node : probe[n] = Idle /\ list[n] = MembershipList
    BY DEF Init
  <1>2. Covered /\ Ahead
    BY <1>1, IdleState DEF Covered, Ahead, Suspects
  <1>3. AllListed
    BY <1>1 DEF Init, AllListed, Members, Node
  <1> QED
    BY <1>2, <1>3 DEF Good

\* Losses are never made good, a node that stopped once stays unsteady.
LEMMA NeverBetter ==
  ASSUME TypeInv, Next
  PROVE  losses' >= losses /\ steady' \subseteq steady /\ (raced => raced')
  <1>1. losses \in Nat
    BY ListAssumption DEF TypeInv, TypeOK
  <1>2. PICK n \in Node : \/ Detect(n) \/ Start(n) \/ Stop(n)
                          \/ \E target \in Node : Choose(n, target)
    BY DEF Next
  <1>3. CASE PingFails(n)
    BY <1>3, FailsLosses DEF PingFails
  <1>4. CASE HelperDenies(n)
    BY <1>4, FailsLosses DEF HelperDenies
  <1>5. ASSUME NEW h \in Node, AskFails(n, h)
        PROVE  losses' >= losses /\ steady' \subseteq steady /\ (raced => raced')
    BY <1>5, FailsLosses DEF AskFails
  <1>6. CASE PingAnswered(n) \/ HelperConfirms(n)
    BY <1>1, <1>6 DEF PingAnswered, HelperConfirms
  <1>7. ASSUME NEW h \in Node, AskHelper(n, h)
        PROVE  losses' >= losses /\ steady' \subseteq steady /\ (raced => raced')
    BY <1>1, <1>7 DEF AskHelper
  <1>8. CASE Search(n)
    BY <1>1, <1>8 DEF Search
  <1>9. CASE SearchMisses(n)
    BY <1>1, <1>9 DEF SearchMisses
  <1>10. CASE RemoveTarget(n)
    <2>1. losses' = losses /\ steady' = steady
      BY <1>10 DEF RemoveTarget
    <2>2. raced => raced'
      BY <1>10 DEF RemoveTarget
    <2> QED
      BY <1>1, <2>1, <2>2
  <1>11. CASE Start(n)
    BY <1>1, <1>11 DEF Start
  <1>12. CASE Stop(n)
    BY <1>1, <1>12 DEF Stop
  <1>13. ASSUME NEW target \in Node, Choose(n, target)
         PROVE  losses' >= losses /\ steady' \subseteq steady /\ (raced => raced')
    BY <1>1, <1>13 DEF Choose
  <1> QED
    BY <1>2, <1>3, <1>4, <1>5, <1>6, <1>7, <1>8, <1>9, <1>10, <1>11, <1>12,
       <1>13 DEF Detect

LEMMA GoodStep == Inv /\ TypeInv' /\ Next /\ Tolerable' => Good'
  <1> SUFFICES ASSUME Inv, TypeInv', Next, Tolerable' PROVE Good'
    OBVIOUS
  <1>1. TypeInv /\ Tolerable /\ Good
    <2>1. TypeInv
      BY DEF Inv
    <2>2. losses' >= losses /\ steady' \subseteq steady /\ (raced => raced')
      BY <2>1, NeverBetter
    <2>3. Tolerable
      BY <2>1, <2>2, TolerableBefore
    <2> QED
      BY <2>1, <2>3 DEF Inv
  <1>2. PICK n \in Node : \/ Detect(n) \/ Start(n) \/ Stop(n)
                          \/ \E target \in Node : Choose(n, target)
    BY DEF Next
  <1>3. CASE Detect(n)
    <2>1. CASE PingAnswered(n) \/ HelperConfirms(n)
      BY <1>1, <2>1, RestGood
    <2>2. CASE PingFails(n) \/ SearchMisses(n) \/ Search(n)
      BY <1>1, <2>2, PingFailsGood, SearchMissesGood, SearchGood
    <2>3. CASE HelperDenies(n)
      BY <1>1, <2>3, HelperDeniesGood
    <2>4. ASSUME NEW h \in Node, AskHelper(n, h) \/ AskFails(n, h) PROVE Good'
      BY <1>1, <2>4, AskHelperGood, AskFailsGood
    <2>5. CASE RemoveTarget(n)
      BY <1>1, <2>5, RemoveTargetGood
    <2> QED
      BY <1>3, <2>1, <2>2, <2>3, <2>4, <2>5 DEF Detect
  <1>4. CASE Start(n) \/ Stop(n)
    BY <1>1, <1>4, StartGood, StopGood
  <1>5. ASSUME NEW target \in Node, Choose(n, target) PROVE Good'
    BY <1>1, <1>5, ChooseGood
  <1> QED
    BY <1>2, <1>3, <1>4, <1>5

\* However many nodes stop, start late or come back, a detector whose one call
\* was lost finds, among any K helpers, a steady one that speaks for the target.
THEOREM OneLossSurvived == Spec => []OneLossTolerated
  <1>1. Init => Inv
    BY InitType, InitGood DEF Inv
  <1>2. Inv /\ [Next]_vars => Inv'
    <2> SUFFICES ASSUME Inv, [Next]_vars PROVE Inv'
      OBVIOUS
    <2>1. TypeInv'
      BY TypeStep DEF Inv
    <2>2. CASE Next
      BY <2>1, <2>2, GoodStep DEF Inv
    <2>3. CASE UNCHANGED vars
      BY <2>1, <2>3 DEF vars, Inv, Tolerable, Good, AllListed, Covered, Ahead,
         Members, Suspects, HelpersLeft
    <2> QED
      BY <2>2, <2>3
  <1>3. Inv => OneLossTolerated
    BY DEF Inv, Good, AllListed, OneLossTolerated
  <1> QED
    BY <1>1, <1>2, <1>3, PTL DEF Spec
=============================================================================
