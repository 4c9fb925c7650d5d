--------------------------- MODULE Averages_proofs ---------------------------
(* Proofs about Averages, for any clients, calls and numbers, any number   *)
(* of workers and integers of any width.                                   *)
EXTENDS Averages, TLAPS, WellFoundedInduction, FiniteSetTheorems

-----------------------------------------------------------------------------
(* Induction, from the order of the natural numbers being well-founded.    *)

LEMMA Smallest ==
  ASSUME NEW S \in SUBSET Nat, S # {}
  PROVE  \E n \in S : \A m \in S : n <= m
  <1> DEFINE R == OpToRel(<, Nat)
  <1>1. IsWellFoundedOn(R, Nat)
    BY NatLessThanWellFounded
  <1>2. \A x, y \in Nat : x < y => <<x, y>> \in R
    BY DEF OpToRel
  <1> HIDE DEF R
  <1>3. PICK n \in S : \A m \in S : ~(<<m, n>> \in R)
    BY <1>1, WFMin
  <1>4. \A m \in S : ~(m < n)
    BY <1>2, <1>3
  <1> QED
    BY <1>4

LEMMA Induction ==
  ASSUME NEW S \in SUBSET Nat, 0 \in S, \A n \in S : n + 1 \in S
  PROVE  S = Nat
  <1>1. SUFFICES ASSUME Nat \ S # {} PROVE FALSE
    OBVIOUS
  <1>2. PICK n \in Nat \ S : \A m \in Nat \ S : n <= m
    BY <1>1, Smallest
  <1>3. n - 1 \in Nat /\ n - 1 \in S
    BY <1>2
  <1> QED
    BY <1>2, <1>3

-----------------------------------------------------------------------------
(* Running totals.                                                         *)

\* t has the totals of the first n numbers of s.
IsTotals(t, n, s) == /\ t \in [0..n -> Int] /\ t[0] = 0
                     /\ \A i \in 1..n : t[i] = t[i - 1] + s[i]

LEMMA TotalsExist ==
  ASSUME NEW s \in Seq(Int)
  PROVE  \E t : IsTotals(t, Len(s), s)
  <1> DEFINE S == {n \in Nat : n <= Len(s) => \E t : IsTotals(t, n, s)}
  <1>1. 0 \in S
    <2>1. IsTotals([i \in 0..0 |-> 0], 0, s)
      BY DEF IsTotals
    <2> QED
      BY <2>1
  <1>2. ASSUME NEW n \in S PROVE n + 1 \in S
    <2> SUFFICES ASSUME n + 1 <= Len(s) PROVE \E t : IsTotals(t, n + 1, s)
      OBVIOUS
    <2>1. Len(s) \in Nat /\ n \in Nat /\ n <= Len(s) /\ s[n + 1] \in Int
      OBVIOUS
    <2>2. PICK t : IsTotals(t, n, s)
      BY <2>1
    <2> DEFINE u == [i \in 0..(n + 1) |-> IF i <= n THEN t[i]
                                          ELSE t[n] + s[n + 1]]
    <2>3. IsTotals(u, n + 1, s)
      BY <2>1, <2>2 DEF IsTotals
    <2> QED
      BY <2>3
  <1> HIDE DEF S
  <1>3. S = Nat
    BY <1>1, <1>2, Induction DEF S
  <1>4. Len(s) \in Nat /\ Len(s) <= Len(s)
    OBVIOUS
  <1> QED
    BY <1>3, <1>4 DEF S

LEMMA TotalsAre ==
  ASSUME NEW s \in Seq(Int)
  PROVE  IsTotals(Totals(s), Len(s), s)
  <1> DEFINE F(t) == [i \in 0..Len(s) |-> IF i = 0 THEN 0 ELSE t[i - 1] + s[i]]
  <1>1. PICK t : IsTotals(t, Len(s), s)
    BY TotalsExist
  <1>2. t = F(t)
    <2>1. \A i \in 0..Len(s) : t[i] = F(t)[i]
      BY <1>1 DEF IsTotals
    <2>2. t = [i \in 0..Len(s) |-> t[i]]
      BY <1>1 DEF IsTotals
    <2> QED
      BY <2>1, <2>2
  <1>3. Totals(s) = F(Totals(s))
    <2>1. Totals(s) = CHOOSE u : u = F(u)
      BY DEF Totals
    <2> HIDE DEF F
    <2> QED
      BY <1>2, <2>1
  <1>4. /\ DOMAIN Totals(s) = 0..Len(s)
        /\ \A i \in 0..Len(s) :
             Totals(s)[i] = IF i = 0 THEN 0 ELSE Totals(s)[i - 1] + s[i]
    <2> DEFINE u == Totals(s)
    <2>1. u = [i \in 0..Len(s) |-> IF i = 0 THEN 0 ELSE u[i - 1] + s[i]]
      BY <1>3
    <2> HIDE DEF u
    <2>2. /\ DOMAIN u = 0..Len(s)
          /\ \A i \in 0..Len(s) : u[i] = IF i = 0 THEN 0 ELSE u[i - 1] + s[i]
      BY <2>1, Zenon
    <2> QED
      BY <2>2 DEF u
  <1> DEFINE S == {n \in Nat : n <= Len(s) => Totals(s)[n] \in Int}
  <1>5. 0 \in S
    BY <1>4
  <1>6. ASSUME NEW n \in S PROVE n + 1 \in S
    BY <1>4
  <1> HIDE DEF S
  <1>7. S = Nat
    BY <1>5, <1>6, Induction DEF S
  <1>8. \A i \in 0..Len(s) : Totals(s)[i] \in Int
    BY <1>7 DEF S
  <1>9. Totals(s) \in [0..Len(s) -> Int]
    <2>1. Totals(s) = [i \in 0..Len(s) |-> Totals(s)[i]]
      BY <1>3
    <2> QED
      BY <1>8, <2>1
  <1> QED
    BY <1>4, <1>9 DEF IsTotals

\* A number that is added changes no total before it.
LEMMA TotalsOfMore ==
  ASSUME NEW s \in Seq(Int), NEW n \in Int
  PROVE  \A i \in 0..Len(s) : Totals(Append(s, n))[i] = Totals(s)[i]
  <1> DEFINE r == Append(s, n)
             S == {i \in Nat : i <= Len(s) => Totals(r)[i] = Totals(s)[i]}
  <1>1. /\ r \in Seq(Int) /\ Len(r) = Len(s) + 1 /\ Len(s) \in Nat
        /\ \A i \in 1..Len(s) : r[i] = s[i]
    OBVIOUS
  <1>2. IsTotals(Totals(s), Len(s), s) /\ IsTotals(Totals(r), Len(r), r)
    BY <1>1, TotalsAre
  <1> HIDE DEF r
  <1>3. 0 \in S
    BY <1>2 DEF IsTotals
  <1>4. ASSUME NEW i \in S PROVE i + 1 \in S
    BY <1>1, <1>2 DEF IsTotals
  <1> HIDE DEF S
  <1>5. S = Nat
    BY <1>3, <1>4, Induction DEF S
  <1> QED
    BY <1>1, <1>5 DEF S, r

-----------------------------------------------------------------------------
(* Sums that wrap.                                                         *)

\* a and b differ by a multiple of the size of the range.
Congruent(a, b) == \E q \in Int : a = b + q * (2 * Half)

LEMMA Division ==
  ASSUME NEW x \in Int, NEW M \in Nat \ {0}
  PROVE  /\ x \div M \in Int /\ x % M \in 0..(M - 1)
         /\ x = M * (x \div M) + (x % M)
  BY SMT

LEMMA Wraps ==
  ASSUME NEW x \in Int
  PROVE  Wrapped(x) \in Int /\ Fits(Wrapped(x)) /\ Congruent(Wrapped(x), x)
  <1> DEFINE M == 2 * Half
             q == (x + Half) \div M
  <1>1. Half \in Nat \ {0} /\ M \in Nat \ {0} /\ x + Half \in Int
    BY AveragesAssumption
  <1>2. /\ q \in Int /\ (x + Half) % M \in 0..(M - 1)
        /\ x + Half = M * q + ((x + Half) % M)
    <2> HIDE DEF M
    <2> QED
      BY <1>1, Division
  <1>3. Wrapped(x) = ((x + Half) % M) - Half
    BY DEF Wrapped
  <1> HIDE DEF q
  <1>4. Wrapped(x) = x + (-q) * M
    <2> DEFINE y == (x + Half) % M
               z == M * q
    <2>1. /\ y \in Int /\ z \in Int /\ (-q) * M = -z
          /\ Wrapped(x) = y - Half /\ x + Half = z + y
      <3>1. z \in Int /\ (-q) * M = -z
        BY <1>1, <1>2
      <3> QED
        BY <1>2, <1>3, <3>1
    <2> HIDE DEF y, z, M
    <2> QED
      BY <1>1, <2>1
  <1>5. Fits(Wrapped(x)) /\ Wrapped(x) \in Int
    BY <1>1, <1>2, <1>3 DEF Fits
  <1> QED
    BY <1>2, <1>4, <1>5 DEF Congruent

LEMMA CongruentSum ==
  ASSUME NEW a \in Int, NEW b \in Int, NEW c \in Int, NEW n \in Int,
         Congruent(c, a + n), Congruent(a, b)
  PROVE  Congruent(c, b + n)
  <1>1. PICK p \in Int : c = (a + n) + p * (2 * Half)
    BY DEF Congruent
  <1>2. PICK q \in Int : a = b + q * (2 * Half)
    BY DEF Congruent
  <1>3. (p + q) * (2 * Half) = p * (2 * Half) + q * (2 * Half)
    BY AveragesAssumption
  <1>4. c = (b + n) + (p + q) * (2 * Half)
    BY <1>1, <1>2, <1>3, AveragesAssumption
  <1> QED
    BY <1>4 DEF Congruent

\* A number in the range is the only one there is of its class.
LEMMA OneFits ==
  ASSUME NEW a \in Int, NEW b \in Int, Congruent(a, b), Fits(a), Fits(b)
  PROVE  a = b
  <1>1. PICK q \in Int : a = b + q * (2 * Half)
    BY DEF Congruent
  <1>2. Half \in Nat \ {0}
    BY AveragesAssumption
  <1>3. q >= 1 => q * (2 * Half) >= 2 * Half
    BY <1>2
  <1>4. q <= -1 => q * (2 * Half) <= -(2 * Half)
    BY <1>2
  <1>5. q * (2 * Half) \in Int
    BY <1>2
  <1> QED
    BY <1>1, <1>2, <1>3, <1>4, <1>5 DEF Fits

\* What a server may have for this total: Python the total itself, Go the one
\* number of 32 bits that is congruent to it.
Sound(k, x, total) ==
  IF k[1] \in GoClient THEN x = total ELSE Fits(x) /\ Congruent(x, total)

LEMMA AddIsSound ==
  ASSUME NEW k \in Call, NEW x \in Int, NEW total \in Int, NEW n \in Int,
         Sound(k, x, total)
  PROVE  Add(k, x, n) \in Int /\ Sound(k, Add(k, x, n), total + n)
  <1>1. CASE k[1] \in GoClient
    BY <1>1 DEF Add, Sound
  <1>2. CASE k[1] \notin GoClient
    <2>1. /\ Add(k, x, n) = Wrapped(x + n) /\ Wrapped(x + n) \in Int
          /\ Fits(Wrapped(x + n)) /\ Congruent(Wrapped(x + n), x + n)
      BY <1>2, Wraps DEF Add
    <2>2. Congruent(x, total)
      BY <1>2 DEF Sound
    <2> QED
      BY <1>2, <2>1, <2>2, CongruentSum DEF Sound
  <1> QED
    BY <1>1, <1>2

\* A sound sum is the total when the total fits, and only then.
LEMMA SoundIsExact ==
  ASSUME NEW k \in Call, NEW x \in Int, NEW total \in Int, Sound(k, x, total)
  PROVE  x = total <=> k[1] \in GoClient \/ Fits(total)
  BY OneFits DEF Sound

-----------------------------------------------------------------------------
(* The invariant: what each handler has is sound for what it received.     *)

CallInv(k) ==
  /\ step[k] = "none" => sent[k] = <<>>
  /\ step[k] = "none" <=> handler[k] = "none"
  /\ step[k] = "sending" => kind[k] = "RunningAverage"
  /\ kind[k] = "Average" /\ step[k] # "none" => Len(sent[k]) = 2
  /\ handler[k] \in {"none", "arriving", "queued"} => count[k] = 0
  /\ count[k] <= Len(sent[k])
  /\ Sound(k, sum[k], Totals(sent[k])[count[k]])
  /\ handler[k] # "ended" \/ step[k] = "sending" => reply[k] = NoReply
  /\ step[k] = "answered" => reply[k] # NoReply
  /\ reply[k] # NoReply => /\ reply[k].count = Len(sent[k])
                           /\ Sound(k, reply[k].sum, Total(k))
                           /\ reply[k].count = 0 => k[1] \in PyClient

\* A call waits once, and the busy workers can be counted.
PoolInv ==
  /\ \A i, j \in 1..Len(pool) : pool[i] = pool[j] => i = j
  /\ IsFiniteSet(Busy)

IInv == TypeOK /\ PoolInv /\ \A k \in Call : CallInv(k)

\* A step that leaves a call alone.
Same(k) ==
  /\ kind'[k] = kind[k] /\ sent'[k] = sent[k] /\ step'[k] = step[k]
  /\ handler'[k] = handler[k] /\ count'[k] = count[k] /\ sum'[k] = sum[k]
  /\ reply'[k] = reply[k]

LEMMA SameCall ==
  ASSUME NEW k \in Call, CallInv(k), Same(k)
  PROVE  CallInv(k)'
  BY DEF CallInv, Same, Total

LEMMA InitInv == Init => IInv
  <1> SUFFICES ASSUME Init PROVE IInv
    OBVIOUS
  <1> USE DEF Init
  <1>1. Busy = {}
    BY DEF Busy
  <1>2. PoolInv /\ Cardinality(Busy) = 0
    BY <1>1, FS_EmptySet DEF PoolInv
  <1>3. TypeOK
    <2>1. ToSet(pool) = {}
      BY DEF ToSet
    <2> QED
      BY <1>2, <2>1, AveragesAssumption DEF TypeOK, Methods, Step
  <1>4. ASSUME NEW k \in Call PROVE CallInv(k)
    <2>1. <<>> \in Seq(Int) /\ Len(<<>>) = 0
      OBVIOUS
    <2>2. Totals(<<>>)[0] = 0
      BY <2>1, TotalsAre DEF IsTotals
    <2>3. Fits(0) /\ Congruent(0, 0)
      BY AveragesAssumption DEF Fits, Congruent
    <2>4. Sound(k, 0, 0)
      BY <2>3 DEF Sound
    <2> QED
      BY <2>1, <2>2, <2>4 DEF CallInv
  <1> QED
    BY <1>2, <1>3, <1>4 DEF IInv

-----------------------------------------------------------------------------
(* Clients.                                                                *)

\* The waiting calls and the busy workers depend on the handlers alone.
LEMMA PoolKept ==
  ASSUME IInv, pool' = pool,
         \A k \in Call : /\ handler[k] = "queued" <=> handler'[k] = "queued"
                         /\ handler[k] = "running" <=> handler'[k] = "running"
  PROVE  /\ PoolInv' /\ Cardinality(Busy)' <= Workers
         /\ \A k \in Call : k \in ToSet(pool)' <=> handler'[k] = "queued"
  <1>1. Busy' = Busy
    BY DEF Busy
  <1> QED
    BY <1>1 DEF IInv, TypeOK, PoolInv, ToSet

LEMMA BeginsInv ==
  ASSUME IInv, NEW k \in Call, NEW method \in Methods, NEW numbers \in Seq(Int),
         NEW next \in {"sending", "waiting"},
         IF next = "sending" THEN method = "RunningAverage" /\ numbers = <<>>
                             ELSE method = "Average" /\ Len(numbers) = 2,
         Begins(k, method, numbers, next)
  PROVE  IInv'
  <1> USE DEF IInv
  <1>1. /\ step[k] = "none" /\ handler[k] = "none" /\ sent[k] = <<>>
        /\ count[k] = 0 /\ reply[k] = NoReply
    BY DEF Begins, MayCall, CallInv
  <1>2. /\ kind' = [kind EXCEPT ![k] = method]
        /\ sent' = [sent EXCEPT ![k] = numbers]
        /\ step' = [step EXCEPT ![k] = next]
        /\ handler' = [handler EXCEPT ![k] = "arriving"]
        /\ UNCHANGED <<count, sum, reply, pool, breaks>>
    BY DEF Begins, Methods, Registered
  <1>3. /\ PoolInv' /\ Cardinality(Busy)' <= Workers
        /\ \A c \in Call : c \in ToSet(pool)' <=> handler'[c] = "queued"
    BY <1>1, <1>2, PoolKept DEF TypeOK
  <1>4. TypeOK'
    BY <1>2, <1>3 DEF TypeOK, Step
  <1>5. CallInv(k)'
    <2>1. Totals(<<>>)[0] = Totals(numbers)[0]
      <3>1. <<>> \in Seq(Int) /\ Len(<<>>) \in Nat /\ Len(numbers) \in Nat
        OBVIOUS
      <3> QED
        BY <3>1, TotalsAre DEF IsTotals
    <2>2. /\ kind'[k] = method /\ sent'[k] = numbers /\ step'[k] = next
          /\ handler'[k] = "arriving" /\ count'[k] = 0 /\ sum'[k] = sum[k]
          /\ reply'[k] = NoReply
      BY <1>1, <1>2 DEF TypeOK
    <2>3. Sound(k, sum[k], Totals(numbers)[0])
      BY <1>1, <2>1 DEF CallInv
    <2> QED
      BY <2>2, <2>3 DEF CallInv
  <1>6. ASSUME NEW c \in Call, c # k PROVE CallInv(c)'
    BY <1>2, <1>6, SameCall DEF TypeOK, Same
  <1> QED
    BY <1>3, <1>4, <1>5, <1>6

LEMMA CalculateInv ==
  ASSUME IInv, NEW k \in Call,
         CalculateAverage(k) \/ CalculateRunningAverage(k)
  PROVE  IInv'
  <1>1. CASE CalculateAverage(k)
    <2>1. PICK a \in Inputs[k], b \in Inputs[k] :
            Begins(k, "Average", <<a, b>>, "waiting")
      BY <1>1 DEF CalculateAverage
    <2>2. <<a, b>> \in Seq(Int) /\ Len(<<a, b>>) = 2
      BY AveragesAssumption
    <2> QED
      BY <2>1, <2>2, BeginsInv DEF Methods
  <1>2. CASE CalculateRunningAverage(k)
    <2>1. Begins(k, "RunningAverage", <<>>, "sending") /\ <<>> \in Seq(Int)
      BY <1>2 DEF CalculateRunningAverage
    <2> QED
      BY <2>1, BeginsInv DEF Methods
  <1> QED
    BY <1>1, <1>2

LEMMA SendInv ==
  ASSUME IInv, NEW k \in Call, Send(k)
  PROVE  IInv'
  <1> USE DEF IInv
  <1>1. PICK n \in Inputs[k] : sent' = [sent EXCEPT ![k] = Append(@, n)]
    BY DEF Send
  <1>2. /\ n \in Int /\ step[k] = "sending"
        /\ UNCHANGED <<kind, step, handler, count, sum, reply, pool, breaks>>
    BY AveragesAssumption DEF Send
  <1>3. sent[k] \in Seq(Int) /\ sent'[k] = Append(sent[k], n)
    BY <1>1 DEF TypeOK
  <1>4. /\ PoolInv' /\ Cardinality(Busy)' <= Workers
        /\ \A c \in Call : c \in ToSet(pool)' <=> handler'[c] = "queued"
    BY <1>2, PoolKept DEF TypeOK
  <1>5. TypeOK'
    <2>1. Append(sent[k], n) \in Seq(Int)
      BY <1>2, <1>3
    <2> QED
      BY <1>1, <1>2, <1>4, <2>1 DEF TypeOK
  <1>6. CallInv(k)'
    <2>1. /\ Len(sent'[k]) = Len(sent[k]) + 1 /\ Len(sent[k]) \in Nat
          /\ count[k] \in 0..Len(sent[k])
      BY <1>2, <1>3 DEF TypeOK, CallInv
    <2>2. Totals(sent'[k])[count[k]] = Totals(sent[k])[count[k]]
      BY <1>2, <1>3, <2>1, TotalsOfMore
    <2>3. kind[k] = "RunningAverage" /\ reply[k] = NoReply
      BY <1>2 DEF CallInv
    <2>4. handler[k] # "none" /\ Sound(k, sum[k], Totals(sent[k])[count[k]])
      BY <1>2 DEF CallInv
    <2>5. handler[k] \in {"none", "arriving", "queued"} => count[k] = 0
      BY DEF CallInv
    <2> QED
      BY <1>2, <2>1, <2>2, <2>3, <2>4, <2>5 DEF CallInv
  <1>7. ASSUME NEW c \in Call, c # k PROVE CallInv(c)'
    BY <1>1, <1>2, <1>7, SameCall DEF TypeOK, Same
  <1> QED
    BY <1>4, <1>5, <1>6, <1>7

\* A client that goes on with a call changes nothing of it but its step.
LEMMA StepInv ==
  ASSUME IInv, NEW k \in Call, NEW next \in {"waiting", "answered", "failed"},
         step[k] \in {"sending", "waiting"}, next = "answered" => reply[k] # NoReply,
         step' = [step EXCEPT ![k] = next],
         UNCHANGED <<kind, sent, handler, count, sum, reply, pool>>,
         breaks' \in 0..MaxBreaks
  PROVE  IInv'
  <1> USE DEF IInv
  <1>1. /\ PoolInv' /\ Cardinality(Busy)' <= Workers
        /\ \A c \in Call : c \in ToSet(pool)' <=> handler'[c] = "queued"
    BY PoolKept DEF TypeOK
  <1>2. TypeOK'
    BY <1>1 DEF TypeOK, Step
  <1>3. CallInv(k)'
    <2>1. step'[k] = next
      BY DEF TypeOK
    <2> QED
      BY <2>1 DEF CallInv, Total
  <1>4. ASSUME NEW c \in Call, c # k PROVE CallInv(c)'
    BY <1>4, SameCall DEF TypeOK, Same
  <1> QED
    BY <1>1, <1>2, <1>3, <1>4

LEMMA ClientInv ==
  ASSUME IInv, NEW k \in Call,
         CloseSend(k) \/ CallBreaks(k) \/ ShowResult(k) \/ ShowError(k)
  PROVE  IInv'
  <1>1. breaks \in 0..MaxBreaks /\ MaxBreaks \in Nat
    BY AveragesAssumption DEF IInv, TypeOK
  <1>2. CASE CloseSend(k)
    BY <1>1, <1>2, StepInv DEF CloseSend
  <1>3. CASE CallBreaks(k)
    <2>1. breaks' \in 0..MaxBreaks
      BY <1>1, <1>3 DEF CallBreaks
    <2> QED
      BY <1>3, <2>1, StepInv DEF CallBreaks
  <1>4. CASE ShowResult(k)
    BY <1>1, <1>4, StepInv DEF ShowResult
  <1>5. CASE ShowError(k)
    BY <1>1, <1>5, StepInv DEF ShowError
  <1> QED
    BY <1>2, <1>3, <1>4, <1>5

-----------------------------------------------------------------------------
(* Servers.                                                                *)

\* The workers that are busy once the handler of k has changed.
LEMMA BusyAfter ==
  ASSUME IInv, NEW k \in Call, NEW s \in {"queued", "running", "ended"},
         handler' = [handler EXCEPT ![k] = s]
  PROVE  /\ s = "running" /\ k[1] \in GoClient => Busy' = Busy \cup {k}
         /\ s # "running" => Busy' = Busy \ {k}
         /\ k \notin Busy /\ (s # "running" \/ k[1] \notin GoClient)
              => Busy' = Busy
  <1>1. handler \in [Call -> {"none", "arriving", "queued", "running", "ended"}]
    BY DEF IInv, TypeOK
  <1> QED
    BY <1>1 DEF Busy

\* A call that comes nearer to a worker, or whose stream breaks.
LEMMA HandlerMoves ==
  ASSUME IInv, NEW k \in Call, NEW s \in {"queued", "running", "ended"},
         handler[k] \in {"arriving", "queued", "running"},
         s = "queued" => handler[k] = "arriving",
         handler' = [handler EXCEPT ![k] = s],
         UNCHANGED <<kind, sent, step, count, sum, reply>>
  PROVE  \A c \in Call : CallInv(c)'
  <1>1. CallInv(k) /\ handler'[k] = s
    BY DEF IInv, TypeOK
  <1>2. CallInv(k)'
    BY <1>1 DEF CallInv, Total
  <1>3. ASSUME NEW c \in Call, c # k PROVE CallInv(c)'
    BY <1>3, SameCall DEF IInv, TypeOK, Same
  <1> QED
    BY <1>2, <1>3

LEMMA ArriveInv ==
  ASSUME IInv, NEW k \in Call, Arrive(k)
  PROVE  IInv'
  <1>1. /\ handler[k] = "arriving" /\ TypeOK /\ PoolInv
        /\ UNCHANGED <<kind, sent, step, count, sum, reply, breaks>>
    BY DEF Arrive, IInv
  <1>4. k \notin Busy /\ Cardinality(Busy) <= Workers /\ IsFiniteSet(Busy)
    BY <1>1 DEF Busy, TypeOK, PoolInv
  <1>5. CASE k[1] \in PyClient
    <2>1. handler' = [handler EXCEPT ![k] = "running"] /\ pool' = pool
      BY <1>5 DEF Arrive
    <2>2. Busy' = Busy
      BY <1>4, <1>5, <2>1, BusyAfter, AveragesAssumption
    <2>3. PoolInv' /\ \A c \in Call : c \in ToSet(pool)' <=> handler'[c] = "queued"
      BY <1>1, <2>1, <2>2 DEF PoolInv, TypeOK, ToSet
    <2>4. \A c \in Call : CallInv(c)'
      BY <1>1, <2>1, HandlerMoves
    <2>5. TypeOK'
      BY <1>1, <1>4, <2>1, <2>2, <2>3 DEF TypeOK
    <2> QED
      BY <2>3, <2>4, <2>5 DEF IInv
  <1>6. CASE k[1] \notin PyClient
    <2>1. handler' = [handler EXCEPT ![k] = "queued"] /\ pool' = Append(pool, k)
      BY <1>6 DEF Arrive
    <2>2. Busy' = Busy
      BY <1>4, <2>1, BusyAfter
    <2>3. pool \in Seq(Call) /\ k \notin ToSet(pool)
      BY <1>1 DEF TypeOK
    <2>4. /\ pool' \in Seq(Call) /\ Len(pool') = Len(pool) + 1 /\ Len(pool) \in Nat
          /\ pool'[Len(pool) + 1] = k /\ \A i \in 1..Len(pool) : pool'[i] = pool[i]
          /\ DOMAIN pool = 1..Len(pool) /\ DOMAIN pool' = 1..Len(pool')
      BY <2>1, <2>3
    <2>5. \A i \in 1..Len(pool) : pool[i] # k
      BY <2>3, <2>4 DEF ToSet
    <2>6. PoolInv'
      <3>1. \A i, j \in 1..Len(pool) : pool[i] = pool[j] => i = j
        BY <1>1 DEF PoolInv
      <3>2. \A i \in 1..Len(pool') : i \in 1..Len(pool) \/ i = Len(pool) + 1
        BY <2>4
      <3>3. \A i, j \in 1..Len(pool') : pool'[i] = pool'[j] => i = j
        BY <2>4, <2>5, <3>1, <3>2
      <3> QED
        BY <1>4, <2>2, <3>3 DEF PoolInv
    <2>7. ToSet(pool') = ToSet(pool) \cup {k}
      BY <2>4 DEF ToSet
    <2>8. \A c \in Call : c \in ToSet(pool)' <=> handler'[c] = "queued"
      BY <1>1, <2>1, <2>7 DEF TypeOK
    <2>9. \A c \in Call : CallInv(c)'
      BY <1>1, <2>1, HandlerMoves
    <2>10. TypeOK'
      BY <1>1, <1>4, <2>1, <2>2, <2>4, <2>8 DEF TypeOK
    <2> QED
      BY <2>6, <2>9, <2>10 DEF IInv
  <1> QED
    BY <1>5, <1>6

LEMMA WorkerTakesInv ==
  ASSUME IInv, WorkerTakes
  PROVE  IInv'
  <1> DEFINE h == Head(pool)
  <1> TypeOK /\ PoolInv
    BY DEF IInv
  <1>1. /\ handler' = [handler EXCEPT ![h] = "running"] /\ pool' = Tail(pool)
        /\ pool # <<>> /\ Cardinality(Busy) < Workers
        /\ UNCHANGED <<kind, sent, step, count, sum, reply, breaks>>
    BY DEF WorkerTakes, WorkerIsFree
  <1>2. /\ pool \in Seq(Call) /\ Len(pool) \in Nat /\ Len(pool) >= 1
        /\ h = pool[1] /\ h \in Call /\ pool' \in Seq(Call)
        /\ Len(pool') = Len(pool) - 1
        /\ \A i \in 1..Len(pool') : pool'[i] = pool[i + 1]
        /\ DOMAIN pool = 1..Len(pool) /\ DOMAIN pool' = 1..Len(pool')
    BY <1>1 DEF TypeOK
  <1> HIDE DEF h
  <1>3. handler[h] = "queued" /\ ToSet(pool') = ToSet(pool) \ {h}
    <2>1. h \in ToSet(pool)
      BY <1>2 DEF ToSet
    <2>2. ToSet(pool') \subseteq ToSet(pool) \ {h}
      BY <1>2 DEF ToSet, PoolInv
    <2>3. ASSUME NEW c \in ToSet(pool), c # h PROVE c \in ToSet(pool')
      <3>1. PICK i \in 1..Len(pool) : pool[i] = c
        BY <1>2 DEF ToSet
      <3>2. i - 1 \in 1..Len(pool') /\ pool'[i - 1] = c
        BY <1>2, <2>3, <3>1
      <3> QED
        BY <1>2, <3>2 DEF ToSet
    <2> QED
      BY <1>2, <2>1, <2>2, <2>3 DEF TypeOK
  <1>4. Busy' = Busy \/ Busy' = Busy \cup {h}
    <2>1. h \notin Busy
      BY <1>3 DEF Busy
    <2> QED
      BY <1>1, <1>2, <2>1, BusyAfter
  <1>5. IsFiniteSet(Busy') /\ Cardinality(Busy') <= Workers
    <2>1. IsFiniteSet(Busy) /\ Cardinality(Busy) \in Nat /\ Workers \in Nat
      BY FS_CardinalityType, AveragesAssumption DEF PoolInv
    <2>2. /\ IsFiniteSet(Busy \cup {h})
          /\ Cardinality(Busy \cup {h}) <= Cardinality(Busy) + 1
      BY <2>1, FS_AddElement
    <2>3. Cardinality(Busy) + 1 <= Workers
      BY <1>1, <2>1
    <2>4. Cardinality(Busy \cup {h}) \in Nat
      BY <2>2, FS_CardinalityType
    <2> HIDE DEF PoolInv
    <2>5. CASE Busy' = Busy
      BY <2>1, <2>3, <2>5
    <2>6. CASE Busy' = Busy \cup {h}
      BY <2>1, <2>2, <2>3, <2>4, <2>6
    <2> QED
      BY <1>4, <2>5, <2>6
  <1>6. PoolInv'
    BY <1>2, <1>5 DEF PoolInv
  <1>7. TypeOK'
    <2>1. \A c \in Call : c \in ToSet(pool') <=> handler'[c] = "queued"
      BY <1>1, <1>2, <1>3 DEF TypeOK
    <2> QED
      BY <1>1, <1>2, <1>5, <2>1 DEF TypeOK
  <1>8. \A c \in Call : CallInv(c)'
    BY <1>1, <1>2, <1>3, HandlerMoves
  <1> QED
    BY <1>6, <1>7, <1>8 DEF IInv

\* A handler that ends gives up its worker.
LEMMA PoolAfterEnd ==
  ASSUME IInv, NEW k \in Call, handler[k] = "running",
         handler' = [handler EXCEPT ![k] = "ended"], pool' = pool
  PROVE  /\ PoolInv' /\ Cardinality(Busy)' <= Workers
         /\ \A c \in Call : c \in ToSet(pool)' <=> handler'[c] = "queued"
  <1>1. TypeOK /\ PoolInv
    BY DEF IInv
  <1>2. Busy' = Busy \ {k}
    BY BusyAfter
  <1>3. IsFiniteSet(Busy') /\ Cardinality(Busy') <= Cardinality(Busy)
    <2>1. Busy' \subseteq Busy /\ IsFiniteSet(Busy)
      BY <1>1, <1>2 DEF PoolInv
    <2> QED
      BY <2>1, FS_Subset
  <1>4. Cardinality(Busy') <= Workers
    <2>1. /\ Cardinality(Busy) \in Nat /\ Cardinality(Busy') \in Nat
          /\ Workers \in Nat /\ Cardinality(Busy) <= Workers
      BY <1>1, <1>3, FS_CardinalityType, AveragesAssumption DEF PoolInv, TypeOK
    <2> QED
      BY <1>3, <2>1
  <1>5. \A c \in Call : c \in ToSet(pool)' <=> handler'[c] = "queued"
    BY <1>1 DEF TypeOK, ToSet
  <1> QED
    BY <1>1, <1>3, <1>4, <1>5 DEF PoolInv

\* The result is the sum of what was sent, as far as the server can hold it.
LEMMA ReplyInv ==
  ASSUME IInv, NEW k \in Call, handler[k] = "running", step[k] # "sending",
         NEW r \in Reply \cup {NoReply},
         r # NoReply => /\ r.count = Len(sent[k]) /\ Sound(k, r.sum, Total(k))
                        /\ r.count = 0 => k[1] \in PyClient,
         reply' = [reply EXCEPT ![k] = r],
         handler' = [handler EXCEPT ![k] = "ended"],
         UNCHANGED <<kind, sent, step, count, sum, pool, breaks>>
  PROVE  IInv'
  <1>1. TypeOK /\ CallInv(k)
    BY DEF IInv
  <1>2. /\ PoolInv' /\ Cardinality(Busy)' <= Workers
        /\ \A c \in Call : c \in ToSet(pool)' <=> handler'[c] = "queued"
    BY PoolAfterEnd
  <1>3. TypeOK'
    BY <1>1, <1>2 DEF TypeOK
  <1>4. CallInv(k)'
    <2>1. reply'[k] = r /\ handler'[k] = "ended"
      BY <1>1 DEF TypeOK
    <2>2. step[k] # "answered"
      BY <1>1 DEF CallInv
    <2> QED
      BY <1>1, <2>1, <2>2 DEF CallInv, Total
  <1>5. ASSUME NEW c \in Call, c # k PROVE CallInv(c)'
    BY <1>1, <1>5, SameCall DEF IInv, TypeOK, Same
  <1> QED
    BY <1>2, <1>3, <1>4, <1>5 DEF IInv

LEMMA AverageInv ==
  ASSUME IInv, NEW k \in Call, Average(k)
  PROVE  IInv'
  <1> DEFINE r == [sum |-> Add(k, sent[k][1], sent[k][2]), count |-> 2]
  <1>1. /\ sent[k] \in Seq(Int) /\ CallInv(k)
        /\ handler[k] = "running" /\ kind[k] = "Average"
    BY DEF IInv, TypeOK, Average
  <1>2. step[k] # "none" /\ step[k] # "sending" /\ Len(sent[k]) = 2
    BY <1>1 DEF CallInv
  <1>3. sent[k][1] \in Int /\ sent[k][2] \in Int
    BY <1>1, <1>2
  <1>4. Total(k) = sent[k][1] + sent[k][2]
    <2>1. IsTotals(Totals(sent[k]), 2, sent[k])
      BY <1>1, <1>2, TotalsAre
    <2>2. /\ Totals(sent[k])[1] = 0 + sent[k][1]
          /\ Totals(sent[k])[2] = Totals(sent[k])[1] + sent[k][2]
      BY <2>1 DEF IsTotals
    <2> QED
      BY <1>2, <1>3, <2>2 DEF Total
  <1>5. /\ Add(k, sent[k][1], sent[k][2]) \in Int
        /\ Sound(k, Add(k, sent[k][1], sent[k][2]), Total(k))
    <2>1. CASE k[1] \in GoClient
      BY <1>3, <1>4, <2>1 DEF Add, Sound
    <2>2. CASE k[1] \notin GoClient
      BY <1>3, <1>4, <2>2, Wraps DEF Add, Sound
    <2> QED
      BY <2>1, <2>2
  <1>6. r \in Reply /\ r.count = Len(sent[k]) /\ Sound(k, r.sum, Total(k))
        /\ r.count # 0
    BY <1>2, <1>5 DEF Reply
  <1>7. /\ reply' = [reply EXCEPT ![k] = r]
        /\ handler' = [handler EXCEPT ![k] = "ended"]
        /\ UNCHANGED <<kind, sent, step, count, sum, pool, breaks>>
    BY DEF Average
  <1> HIDE DEF r
  <1> QED
    BY <1>1, <1>2, <1>6, <1>7, ReplyInv

LEMMA StreamEndsInv ==
  ASSUME IInv, NEW k \in Call, StreamEnds(k)
  PROVE  IInv'
  <1>1. /\ handler[k] = "running" /\ step[k] = "waiting"
        /\ count[k] = Len(sent[k]) /\ CallInv(k) /\ TypeOK
        /\ reply' = [reply EXCEPT ![k] = Result(k)]
        /\ handler' = [handler EXCEPT ![k] = "ended"]
        /\ UNCHANGED <<kind, sent, step, count, sum, pool, breaks>>
    BY DEF IInv, StreamEnds
  <1>2. Result(k) \in Reply \cup {NoReply}
    BY <1>1 DEF Result, Reply, TypeOK
  <1>3. k[1] \in GoClient \/ k[1] \in PyClient
    BY DEF Call, Client
  <1>4. Sound(k, sum[k], Total(k))
    BY <1>1 DEF CallInv, Total
  <1>5. Result(k) # NoReply =>
          /\ Result(k).count = Len(sent[k]) /\ Sound(k, Result(k).sum, Total(k))
          /\ Result(k).count = 0 => k[1] \in PyClient
    BY <1>1, <1>3, <1>4 DEF Result
  <1> HIDE DEF Result
  <1> QED
    BY <1>1, <1>2, <1>5, ReplyInv

LEMMA StreamBreaksInv ==
  ASSUME IInv, NEW k \in Call, StreamBreaks(k)
  PROVE  IInv'
  <1>1. /\ handler[k] = "running"
        /\ handler' = [handler EXCEPT ![k] = "ended"]
        /\ UNCHANGED <<kind, sent, step, count, sum, reply, pool, breaks>>
    BY DEF StreamBreaks, AfterBreak
  <1>2. /\ PoolInv' /\ Cardinality(Busy)' <= Workers
        /\ \A c \in Call : c \in ToSet(pool)' <=> handler'[c] = "queued"
    BY <1>1, PoolAfterEnd
  <1>3. TypeOK'
    BY <1>1, <1>2 DEF IInv, TypeOK
  <1>4. \A c \in Call : CallInv(c)'
    BY <1>1, HandlerMoves
  <1> QED
    BY <1>2, <1>3, <1>4 DEF IInv

\* One more number is added to what was sound for those before it.
LEMMA ReceiveInv ==
  ASSUME IInv, NEW k \in Call, Receive(k)
  PROVE  IInv'
  <1> DEFINE n == sent[k][count[k] + 1]
  <1>1. /\ handler[k] = "running" /\ count[k] < Len(sent[k])
        /\ count' = [count EXCEPT ![k] = @ + 1]
        /\ sum' = [sum EXCEPT ![k] = Add(k, @, n)]
        /\ UNCHANGED <<kind, sent, step, handler, reply, pool, breaks>>
        /\ CallInv(k) /\ TypeOK
    BY DEF IInv, Receive
  <1>2. /\ sent[k] \in Seq(Int) /\ count[k] \in Nat /\ sum[k] \in Int
        /\ Len(sent[k]) \in Nat /\ count[k] + 1 \in 1..Len(sent[k]) /\ n \in Int
    BY <1>1 DEF TypeOK
  <1>3. /\ Totals(sent[k])[count[k]] \in Int
        /\ Totals(sent[k])[count[k] + 1] = Totals(sent[k])[count[k]] + n
    <2>1. IsTotals(Totals(sent[k]), Len(sent[k]), sent[k])
      BY <1>2, TotalsAre
    <2> QED
      BY <1>2, <2>1 DEF IsTotals
  <1> HIDE DEF n
  <1>4. /\ Add(k, sum[k], n) \in Int
        /\ Sound(k, Add(k, sum[k], n), Totals(sent[k])[count[k] + 1])
    <2>1. Sound(k, sum[k], Totals(sent[k])[count[k]])
      BY <1>1 DEF CallInv
    <2> QED
      BY <1>2, <1>3, <2>1, AddIsSound
  <1>5. /\ PoolInv' /\ Cardinality(Busy)' <= Workers
        /\ \A c \in Call : c \in ToSet(pool)' <=> handler'[c] = "queued"
    BY <1>1, PoolKept
  <1>6. TypeOK'
    BY <1>1, <1>2, <1>4, <1>5 DEF TypeOK
  <1>7. CallInv(k)'
    <2>1. count'[k] = count[k] + 1 /\ sum'[k] = Add(k, sum[k], n)
      BY <1>1 DEF TypeOK
    <2> QED
      BY <1>1, <1>2, <1>4, <2>1 DEF CallInv, Total
  <1>8. ASSUME NEW c \in Call, c # k PROVE CallInv(c)'
    BY <1>1, <1>8, SameCall DEF IInv, TypeOK, Same
  <1> QED
    BY <1>5, <1>6, <1>7, <1>8 DEF IInv

-----------------------------------------------------------------------------
LEMMA InvStep == IInv /\ [Next]_vars => IInv'
  <1> SUFFICES ASSUME IInv, [Next]_vars PROVE IInv'
    OBVIOUS
  <1>1. ASSUME UNCHANGED vars PROVE IInv'
    <2>1. /\ PoolInv' /\ Cardinality(Busy)' <= Workers
          /\ \A c \in Call : c \in ToSet(pool)' <=> handler'[c] = "queued"
      BY <1>1, PoolKept DEF vars
    <2>2. TypeOK'
      BY <1>1, <2>1 DEF vars, IInv, TypeOK
    <2>3. \A c \in Call : CallInv(c)'
      BY <1>1, SameCall DEF vars, IInv, Same
    <2> QED
      BY <2>1, <2>2, <2>3 DEF IInv
  <1>2. ASSUME NEW k \in Call, Handle(k) PROVE IInv'
    BY <1>2, ArriveInv, AverageInv, ReceiveInv, StreamEndsInv, StreamBreaksInv
    DEF Handle
  <1> QED
    BY <1>1, <1>2, CalculateInv, SendInv, ClientInv, WorkerTakesInv DEF Next

LEMMA Invariant == Spec => []IInv
  BY InitInv, InvStep, PTL DEF Spec

\* Every variable has its type, no more workers are busy than there are, and
\* the calls that wait for one are those in the queue.
THEOREM TypeCorrect == Spec => []TypeOK
  <1>1. IInv => TypeOK
    BY DEF IInv
  <1> QED
    BY <1>1, Invariant, PTL

\* Whatever other streams do and however often a sum wraps on its way, a result
\* that is shown is the mean of what was entered; that of the Go server if the
\* total fits its integers.
THEOREM MeansAnswered == Spec => []AnswersAreMeans
  <1>1. IInv => AnswersAreMeans
    <2> SUFFICES ASSUME IInv, NEW k \in Call, step[k] = "answered"
                 PROVE  /\ reply[k].count = Len(sent[k])
                        /\ k[1] \in GoClient \/ Fits(Total(k))
                             => reply[k].sum = Total(k)
                        /\ reply[k].count = 0 => k[1] \in PyClient
      BY DEF AnswersAreMeans
    <2>1. /\ reply[k] # NoReply /\ reply[k].count = Len(sent[k])
          /\ Sound(k, reply[k].sum, Total(k))
          /\ reply[k].count = 0 => k[1] \in PyClient
      BY DEF IInv, CallInv
    <2>2. reply[k].sum \in Int
      BY <2>1 DEF IInv, TypeOK, Reply
    <2>3. Total(k) \in Int
      <3>1. sent[k] \in Seq(Int) /\ Len(sent[k]) \in 0..Len(sent[k])
        BY DEF IInv, TypeOK
      <3> QED
        BY <3>1, TotalsAre DEF Total, IsTotals
    <2> QED
      BY <2>1, <2>2, <2>3, SoundIsExact
  <1> QED
    BY <1>1, Invariant, PTL
=============================================================================
