---------------------- MODULE SessionCollaborationBooks ----------------------
(***************************************************************************)
(* What the coordinator's operations do to its books, as relations between *)
(* values: the table of deliveries, the ids it remembers, the queues, what *)
(* each target works on and whom to tell.  A handler that concludes one    *)
(* delivery and enqueues another is followed in two steps this way.        *)
(***************************************************************************)
EXTENDS SessionCollaboration, SequenceTheorems, FiniteSetTheorems, TLAPS

USE BoundIsPositive, CapacityIsPositive

-----------------------------------------------------------------------------
(* The coordinator's state as values                                       *)

MadeIn(dl) == {d \in Deliveries : dl[d].status # "unmade"}

Shape(dl, rec, q, run, nt) ==
  /\ dl \in [Deliveries -> Delivery \cup {Unmade}]
  /\ rec \in SUBSET MadeIn(dl) /\ Cardinality(rec) <= Capacity
  /\ q \in [Sessions -> Seq(Deliveries)]
  /\ run \in [Sessions -> Deliveries \cup {NoDelivery}]
  /\ nt \in SUBSET Deliveries

\* What is queued or running is remembered and where it belongs.
Placed(dl, rec, q, run) ==
  \A d \in MadeIn(dl) :
    /\ dl[d].status = "queued" => d \in rec /\ d \in Range(q[dl[d].target])
    /\ dl[d].status = "running" => d \in rec /\ run[dl[d].target] = d

QueuesAgree(dl, q) ==
  \A s \in Sessions :
    /\ IsInjective(q[s])
    /\ \A d \in Range(q[s]) :
         d \in MadeIn(dl) /\ dl[d].status = "queued" /\ dl[d].target = s

RunsAgree(dl, run) ==
  \A s \in Sessions : run[s] # NoDelivery =>
    /\ run[s] \in MadeIn(dl) /\ dl[run[s]].target = s
    /\ dl[run[s]].status \in {"running", "cancelled"}

\* A sender that waits to be told asked for it, and its delivery is not over.
NotifyIsOpen(dl, nt) ==
  \A d \in nt : /\ d \in MadeIn(dl) /\ dl[d].kind = "message" /\ dl[d].asked
                /\ dl[d].status \in Active

\* What a sender was told about is over for good: no target works on it, so
\* the failure of an abort cannot revive it.
Reported(dl, run) ==
  \A c \in MadeIn(dl) : dl[c].kind = "completion" =>
    LET d == dl[c].about IN
    /\ d \in MadeIn(dl) /\ dl[d].kind = "message" /\ dl[d].asked
    /\ dl[d].status \in Final
    /\ dl[c].source = dl[d].target
    /\ dl[c].target = dl[d].source
    /\ \A e \in MadeIn(dl) : dl[e].kind = "completion" /\ dl[e].about = d => e = c
    /\ run[dl[d].target] # d

Coordinated(dl, rec, q, run, nt) ==
  /\ Shape(dl, rec, q, run, nt)
  /\ Placed(dl, rec, q, run)
  /\ QueuesAgree(dl, q)
  /\ RunsAgree(dl, run)
  /\ NotifyIsOpen(dl, nt)
  /\ Reported(dl, run)

\* What a step may do to the deliveries there are.
Forward(dl, dl2) ==
  \A d \in MadeIn(dl) :
    /\ d \in MadeIn(dl2)
    /\ dl2[d].kind = dl[d].kind /\ dl2[d].asked = dl[d].asked
    /\ dl[d].status # "queued" => dl2[d].status # "queued"
    /\ dl[d].status \in {"completed", "failed", "interrupted"} => dl2[d] = dl[d]

\* Only status and result are rewritten.
Restated(dl, dl2) ==
  /\ dl2 \in [Deliveries -> Delivery \cup {Unmade}]
  /\ MadeIn(dl2) = MadeIn(dl)
  /\ \A d \in MadeIn(dl) :
       /\ dl2[d].source = dl[d].source /\ dl2[d].target = dl[d].target
       /\ dl2[d].kind = dl[d].kind /\ dl2[d].about = dl[d].about
       /\ dl2[d].asked = dl[d].asked

-----------------------------------------------------------------------------
(* The coordinator's operations as relations between such values           *)

WithStatus(r, st) == [r EXCEPT !.status = st]
WithResult(r, st, res) == [r EXCEPT !.status = st, !.result = res]

\* settled() for a delivery that still runs: it takes the result.
Concludes(dl, rec, run, nt, s, st, res, dl2, run2, nt2) ==
  /\ s \in Sessions /\ st \in Final /\ res \in Run \cup {NoDelivery}
  /\ run[s] \in rec /\ dl[run[s]].status = "running"
  /\ dl2 = [dl EXCEPT ![run[s]] = WithResult(@, st, res)]
  /\ run2 = [run EXCEPT ![s] = NoDelivery]
  /\ nt2 = nt \ {run[s]}

\* settled() for anything else: the target only gets free.
Releases(dl, rec, run, s, run2) ==
  /\ s \in Sessions /\ ~(run[s] \in rec /\ dl[run[s]].status = "running")
  /\ run2 = [run EXCEPT ![s] = NoDelivery]

\* A completion is about a delivery that is over and was not reported yet.
Reportable(dl, run, d) ==
  /\ d \in MadeIn(dl) /\ dl[d].kind = "message" /\ dl[d].asked
  /\ dl[d].status \in Final
  /\ \A e \in MadeIn(dl) : dl[e].kind = "completion" => dl[e].about # d
  /\ run[dl[d].target] # d

\* enqueue() of a new delivery id, for which the deliveries gone are forgotten.
Enqueues(dl, rec, q, run, nt, item, id, gone, dl2, rec2, q2, nt2) ==
  /\ id \in Deliveries \ MadeIn(dl)
  /\ item \in Delivery /\ item.status = "queued"
  /\ \A d \in gone : dl[d].status \notin Active
  /\ Cardinality(rec2) <= Capacity
  /\ (nt2 = nt \/ (nt2 = nt \cup {id} /\ item.kind = "message" /\ item.asked))
  /\ item.kind = "completion" =>
       /\ Reportable(dl, run, item.about)
       /\ item.source = dl[item.about].target
       /\ item.target = dl[item.about].source
  /\ dl2 = [dl EXCEPT ![id] = item]
  /\ rec2 = (rec \ gone) \cup {id}
  /\ q2 = [q EXCEPT ![item.target] = Append(@, id)]

\* interrupted(): everything for s that is not over is hit.
Interrupts(dl, rec, q, run, nt, s, hit, dl2, q2, run2, nt2) ==
  /\ s \in Sessions
  /\ hit = {d \in rec : dl[d].target = s /\ dl[d].status \in Active}
  /\ nt2 \subseteq nt \ hit
  /\ dl2 = [d \in Deliveries |->
              IF d \in hit THEN WithStatus(dl[d], "interrupted") ELSE dl[d]]
  /\ q2 = [q EXCEPT ![s] = <<>>]
  /\ run2 = [run EXCEPT ![s] = NoDelivery]

\* drain(): the oldest delivery of a target that is free.
Drains(dl, q, run, s, d, dl2, q2, run2) ==
  /\ s \in Sessions /\ run[s] = NoDelivery /\ q[s] # <<>> /\ d = Head(q[s])
  /\ dl2 = [dl EXCEPT ![d] = WithStatus(@, "running")]
  /\ q2 = [q EXCEPT ![s] = Tail(@)]
  /\ run2 = [run EXCEPT ![s] = d]

\* execute() with cancel: deliveries that wait or run at one target.
Cancels(dl, rec, q, nt, s, chosen, dl2, q2, nt2) ==
  /\ s \in Sessions
  /\ chosen \subseteq {d \in rec : dl[d].target = s /\ dl[d].status \in Active}
  /\ dl2 = [d \in Deliveries |->
              IF d \in chosen THEN WithStatus(dl[d], "cancelled") ELSE dl[d]]
  /\ q2 = [q EXCEPT ![s] = Without(@, chosen)]
  /\ nt2 = nt \ chosen

\* The abort of a running delivery failed: it runs on.
Revives(dl, rec, run, nt, s, d, dl2, nt2) ==
  /\ s \in Sessions /\ d \in rec /\ run[s] = d
  /\ (nt2 = nt \/ (nt2 = nt \cup {d} /\ dl[d].kind = "message" /\ dl[d].asked))
  /\ dl2 = [dl EXCEPT ![d] = WithStatus(@, "running")]

-----------------------------------------------------------------------------
(* Lemmas on numbers and queues                                            *)

\* A set of ids has an oldest one.
LEMMA LeastNat ==
  ASSUME NEW T, T \subseteq Nat, T # {}
  PROVE  \E n \in T : \A k \in T : n <= k
<1> DEFINE Upto(n) == 0..n
           Spans == {Upto(n) : n \in T}
<1>1. Spans \subseteq FiniteSubsetsOf(Nat)
  <2> SUFFICES ASSUME NEW n \in T PROVE Upto(n) \in FiniteSubsetsOf(Nat)
    OBVIOUS
  <2>1. n \in Nat /\ n \in Int /\ 0 \in Int
    OBVIOUS
  <2>2. IsFiniteSet(0..n)
    BY <2>1, FS_Interval
  <2>3. Upto(n) \in SUBSET Nat
    BY <2>1
  <2> QED BY <2>2, <2>3 DEF FiniteSubsetsOf
<1>2. Spans # {}
  OBVIOUS
<1>3. IsWellFoundedOn(StrictSubsetOrdering(Nat), FiniteSubsetsOf(Nat))
  BY FS_StrictSubsetOrderingWellFounded
<1>4. \E X \in Spans : \A Y \in Spans : ~ (<<Y, X>> \in StrictSubsetOrdering(Nat))
  <2> HIDE DEF Spans
  <2> QED BY <1>1, <1>2, <1>3, WFMin
<1>5. PICK n \in T : \A k \in T : ~ (<<Upto(k), Upto(n)>> \in StrictSubsetOrdering(Nat))
  BY <1>4
<1>6. ASSUME NEW k \in T, k < n PROVE FALSE
  <2>1. n \in Nat /\ k \in Nat
    OBVIOUS
  <2>2. Upto(k) \in SUBSET Nat /\ Upto(n) \in SUBSET Nat
    BY <2>1
  <2>3. Upto(k) \subseteq Upto(n)
    BY <2>1, <1>6
  <2>4. n \in Upto(n) /\ n \notin Upto(k)
    BY <2>1, <1>6
  <2> HIDE DEF Upto
  <2>5. Upto(k) # Upto(n)
    BY <2>4
  <2>6. <<Upto(k), Upto(n)>> \in StrictSubsetOrdering(Nat)
    BY <2>2, <2>3, <2>5 DEF StrictSubsetOrdering
  <2> QED BY <2>6, <1>5
<1> QED BY <1>5, <1>6

LEMMA MinIsMember ==
  ASSUME NEW T, T \subseteq Nat, T # {}
  PROVE  Min(T) \in T
BY LeastNat DEF Min

LEMMA AppendQueue ==
  ASSUME NEW S, NEW q \in Seq(S), NEW x \in S, IsInjective(q), x \notin Range(q)
  PROVE  /\ Append(q, x) \in Seq(S)
         /\ IsInjective(Append(q, x))
         /\ Range(Append(q, x)) = Range(q) \cup {x}
<1> DEFINE t == Append(q, x)
<1>1. /\ t \in Seq(S) /\ Len(t) = Len(q) + 1 /\ Len(q) \in Nat
      /\ DOMAIN t = 1..Len(q) + 1 /\ DOMAIN q = 1..Len(q)
      /\ \A i \in 1..Len(q) : t[i] = q[i]
      /\ t[Len(q) + 1] = x
  OBVIOUS
<1> HIDE DEF t
<1>2. \A i \in DOMAIN q : q[i] # x
  BY DEF Range
<1>3. IsInjective(t)
  BY <1>1, <1>2 DEF IsInjective
<1>4. Range(t) = Range(q) \cup {x}
  BY <1>1 DEF Range
<1> QED BY <1>1, <1>3, <1>4 DEF t

LEMMA TailQueue ==
  ASSUME NEW S, NEW q \in Seq(S), q # <<>>, IsInjective(q)
  PROVE  /\ Head(q) \in Range(q) /\ Head(q) \in S
         /\ Tail(q) \in Seq(S)
         /\ IsInjective(Tail(q))
         /\ Range(Tail(q)) = Range(q) \ {Head(q)}
<1> DEFINE t == Tail(q)
<1>1. /\ t \in Seq(S) /\ Len(q) \in Nat \ {0} /\ Len(t) = Len(q) - 1
      /\ DOMAIN t = 1..Len(q) - 1 /\ DOMAIN q = 1..Len(q)
      /\ \A i \in 1..Len(q) - 1 : t[i] = q[i + 1]
      /\ Head(q) = q[1]
  OBVIOUS
<1> HIDE DEF t
<1>2. Head(q) \in Range(q) /\ Head(q) \in S
  BY <1>1 DEF Range
<1>3. IsInjective(t)
  <2> SUFFICES ASSUME NEW i \in DOMAIN t, NEW j \in DOMAIN t, t[i] = t[j]
               PROVE  i = j
    BY DEF IsInjective
  <2>1. /\ i + 1 \in 1..Len(q) /\ j + 1 \in 1..Len(q)
        /\ q[i + 1] = q[j + 1] /\ i \in Int /\ j \in Int
    BY <1>1
  <2>2. i + 1 = j + 1
    BY <1>1, <2>1 DEF IsInjective
  <2> QED BY <2>1, <2>2
<1>4. ASSUME NEW y \in Range(t) PROVE y \in Range(q) /\ y # Head(q)
  <2>1. PICK i \in 1..Len(q) - 1 : y = q[i + 1]
    BY <1>1 DEF Range
  <2>2. i + 1 \in 1..Len(q) /\ i + 1 # 1
    BY <1>1
  <2> QED BY <1>1, <2>1, <2>2 DEF Range, IsInjective
<1>5. ASSUME NEW y \in Range(q), y # Head(q) PROVE y \in Range(t)
  <2>1. PICK i \in 1..Len(q) : y = q[i]
    BY <1>1 DEF Range
  <2>2. i - 1 \in 1..Len(q) - 1 /\ (i - 1) + 1 = i
    BY <1>1, <1>5, <2>1
  <2>3. t[i - 1] = y
    BY <1>1, <2>1, <2>2
  <2> QED BY <1>1, <2>2, <2>3 DEF Range
<1>6. Range(t) = Range(q) \ {Head(q)}
  BY <1>4, <1>5
<1> QED BY <1>1, <1>2, <1>3, <1>6 DEF t

LEMMA EmptyQueue ==
  ASSUME NEW S
  PROVE  <<>> \in Seq(S) /\ IsInjective(<<>>) /\ Range(<<>>) = {}
BY DEF IsInjective, Range

-----------------------------------------------------------------------------
(* What Without keeps of a queue                                           *)

\* The defining equation of Kept.
KeptStep(q, chosen, f, i) ==
  IF i = 0 THEN <<>>
  ELSE IF q[i] \in chosen THEN f[i - 1] ELSE Append(f[i - 1], q[i])
KeptUpTo(q, chosen, f, n) == f = [i \in 0..n |-> KeptStep(q, chosen, f, i)]

\* A function that satisfies it exists: otherwise take the shortest prefix of
\* the queue that has none.
LEMMA KeptExists ==
  ASSUME NEW S, NEW q \in Seq(S), NEW chosen, NEW n \in 0..Len(q)
  PROVE  \E f : KeptUpTo(q, chosen, f, n)
<1> DEFINE Bad == {k \in 0..Len(q) : ~ \E f : KeptUpTo(q, chosen, f, k)}
<1> SUFFICES ASSUME Bad # {} PROVE FALSE
  OBVIOUS
<1>0. Len(q) \in Nat
  OBVIOUS
<1>1. PICK k \in Bad : \A j \in Bad : k <= j
  <2>1. Bad \subseteq Nat
    BY <1>0
  <2> HIDE DEF Bad
  <2> QED BY <2>1, LeastNat
<1>2. k # 0
  <2> SUFFICES ASSUME k = 0 PROVE FALSE
    OBVIOUS
  <2>1. KeptUpTo(q, chosen, [i \in 0..0 |-> <<>>], 0)
    BY DEF KeptUpTo, KeptStep
  <2> QED BY <2>1
<1>3. PICK g : KeptUpTo(q, chosen, g, k - 1)
  <2>1. k - 1 \in 0..Len(q) /\ ~ (k <= k - 1)
    BY <1>0, <1>2
  <2> QED BY <1>1, <2>1
<1> DEFINE f == [i \in 0..k |-> IF i < k THEN g[i] ELSE KeptStep(q, chosen, g, k)]
<1>4. KeptUpTo(q, chosen, f, k)
  <2>0. k \in Nat \ {0}
    BY <1>0, <1>2
  <2>2. ASSUME NEW i \in 0..k PROVE f[i] = KeptStep(q, chosen, f, i)
    <3>1. CASE i < k
      <4>1. g[i] = KeptStep(q, chosen, g, i)
        BY <1>3, <2>0, <3>1 DEF KeptUpTo
      <4>2. i # 0 => i - 1 \in 0..k /\ i - 1 < k
        BY <2>0, <3>1
      <4> QED BY <3>1, <4>1, <4>2 DEF KeptStep
    <3>2. CASE i = k
      <4>1. k - 1 \in 0..k /\ k - 1 < k /\ k # 0
        BY <2>0
      <4> QED BY <3>2, <4>1 DEF KeptStep
    <3> QED BY <2>0, <3>1, <3>2
  <2> QED BY <2>2 DEF KeptUpTo
<1> HIDE DEF f
<1> QED BY <1>4

LEMMA KeptEquation ==
  ASSUME NEW S, NEW q \in Seq(S), NEW chosen
  PROVE  KeptUpTo(q, chosen, Kept(q, chosen), Len(q))
<1>1. Kept(q, chosen) = CHOOSE f : KeptUpTo(q, chosen, f, Len(q))
  BY DEF Kept, KeptUpTo, KeptStep
<1>2. \E f : KeptUpTo(q, chosen, f, Len(q))
  <2>1. Len(q) \in 0..Len(q)
    OBVIOUS
  <2> QED BY <2>1, KeptExists
<1> QED BY <1>1, <1>2

\* d is among the first i entries of q.
Among(q, i, d) == \E j \in 1..i : q[j] = d
\* r is what a filter keeps of the first i entries of q.
KeptSoFar(q, chosen, r, i, S) ==
  /\ r \in Seq(S)
  /\ \A d : (\E j \in 1..Len(r) : r[j] = d) <=> (d \notin chosen /\ Among(q, i, d))
  /\ \A j, k \in 1..Len(r) : r[j] = r[k] => j = k

LEMMA WithoutProperty ==
  ASSUME NEW S, NEW q \in Seq(S), NEW chosen,
         \A j, k \in 1..Len(q) : q[j] = q[k] => j = k
  PROVE  KeptSoFar(q, chosen, Without(q, chosen), Len(q), S)
<1> DEFINE f == Kept(q, chosen)
           Bad == {k \in 0..Len(q) : ~ KeptSoFar(q, chosen, f[k], k, S)}
<1> SUFFICES ASSUME Bad # {} PROVE FALSE
  BY DEF Without
<1>0. Len(q) \in Nat
  OBVIOUS
<1>f. KeptUpTo(q, chosen, f, Len(q))
  BY KeptEquation
<1> HIDE DEF f
<1>1. PICK k \in Bad : \A j \in Bad : k <= j
  <2>1. Bad \subseteq Nat
    BY <1>0
  <2> HIDE DEF Bad
  <2> QED BY <2>1, LeastNat
<1>2. k # 0
  BY <1>f, <1>0 DEF KeptUpTo, KeptStep, KeptSoFar, Among
<1>3. k - 1 \in 0..Len(q) /\ ~ (k <= k - 1) /\ k \in 1..Len(q)
  BY <1>0, <1>2
<1>4. KeptSoFar(q, chosen, f[k - 1], k - 1, S)
  BY <1>1, <1>3
<1>5. f[k] = IF q[k] \in chosen THEN f[k - 1] ELSE Append(f[k - 1], q[k])
  BY <1>f, <1>2, <1>3 DEF KeptUpTo, KeptStep
<1>6. \A d : Among(q, k, d) <=> (d = q[k] \/ Among(q, k - 1, d))
  BY <1>3 DEF Among
<1>7. KeptSoFar(q, chosen, f[k], k, S)
  <2>1. CASE q[k] \in chosen
    BY <1>4, <1>5, <1>6, <2>1 DEF KeptSoFar
  <2>2. CASE q[k] \notin chosen
    <3> DEFINE r == f[k - 1]
               t == Append(r, q[k])
    <3>1. f[k] = t
      BY <1>5, <2>2
    <3>2. r \in Seq(S) /\ q[k] \in S
      BY <1>3, <1>4 DEF KeptSoFar
    <3> HIDE DEF r
    <3>3. /\ t \in Seq(S) /\ Len(t) = Len(r) + 1 /\ Len(r) \in Nat
          /\ \A j \in 1..Len(r) : t[j] = r[j]
          /\ t[Len(r) + 1] = q[k]
      BY <3>2
    <3>4. ~ Among(q, k - 1, q[k])
      BY <1>3, <1>0 DEF Among
    <3>5. /\ \A d : (\E j \in 1..Len(r) : r[j] = d) <=> (d \notin chosen /\ Among(q, k - 1, d))
          /\ \A i, j \in 1..Len(r) : r[i] = r[j] => i = j
      BY <1>4 DEF KeptSoFar, r
    <3> HIDE DEF t
    <3>6. ASSUME NEW d
          PROVE (\E j \in 1..Len(t) : t[j] = d) <=> (d \notin chosen /\ Among(q, k, d))
      <4>1. (\E j \in 1..Len(t) : t[j] = d) <=> (d = q[k] \/ \E j \in 1..Len(r) : r[j] = d)
        BY <3>3
      <4> QED BY <4>1, <1>6, <2>2, <3>5
    <3>7. ASSUME NEW i \in 1..Len(t), NEW j \in 1..Len(t), t[i] = t[j] PROVE i = j
      <4>1. \A l \in 1..Len(r) : r[l] # q[k]
        BY <3>4, <3>5
      <4> QED BY <3>3, <3>5, <3>7, <4>1
    <3> QED BY <3>1, <3>3, <3>6, <3>7 DEF KeptSoFar
  <2> QED BY <2>1, <2>2
<1> QED BY <1>1, <1>7

LEMMA WithoutQueue ==
  ASSUME NEW S, NEW q \in Seq(S), NEW chosen, IsInjective(q)
  PROVE  /\ Without(q, chosen) \in Seq(S)
         /\ IsInjective(Without(q, chosen))
         /\ Range(Without(q, chosen)) = Range(q) \ chosen
<1> DEFINE r == Without(q, chosen)
<1>1. \A j, k \in 1..Len(q) : q[j] = q[k] => j = k
  BY DEF IsInjective
<1>2. KeptSoFar(q, chosen, r, Len(q), S)
  BY <1>1, WithoutProperty
<1> HIDE DEF r
<1>3. r \in Seq(S) /\ DOMAIN r = 1..Len(r) /\ DOMAIN q = 1..Len(q)
  BY <1>2 DEF KeptSoFar
<1>4. IsInjective(r)
  BY <1>2, <1>3 DEF KeptSoFar, IsInjective
<1>5. Range(r) = Range(q) \ chosen
  <2>1. \A d : d \in Range(r) <=> \E j \in 1..Len(r) : r[j] = d
    BY <1>3 DEF Range
  <2>2. \A d : d \in Range(q) <=> Among(q, Len(q), d)
    BY <1>3 DEF Range, Among
  <2>3. \A d : (\E j \in 1..Len(r) : r[j] = d)
               <=> (d \notin chosen /\ Among(q, Len(q), d))
    BY <1>2 DEF KeptSoFar
  <2> QED BY <2>1, <2>2, <2>3
<1> QED BY <1>3, <1>4, <1>5 DEF r

-----------------------------------------------------------------------------
(* Lemmas on deliveries                                                    *)

LEMMA MadeIsDelivery ==
  ASSUME NEW dl \in [Deliveries -> Delivery \cup {Unmade}], NEW d \in MadeIn(dl)
  PROVE  /\ d \in Deliveries /\ dl[d] \in Delivery
         /\ dl[d].source \in Sessions /\ dl[d].target \in Sessions
         /\ dl[d].kind \in {"message", "completion"}
         /\ dl[d].about \in Deliveries \cup {NoDelivery}
         /\ dl[d].asked \in BOOLEAN
         /\ dl[d].status \in Active \cup Final
<1>1. d \in Deliveries /\ dl[d] # Unmade
  BY DEF MadeIn, Unmade
<1>2. dl[d] \in Delivery
  BY <1>1
<1> QED BY <1>1, <1>2 DEF Delivery

LEMMA DeliveryIsMade ==
  ASSUME NEW dl, NEW d \in Deliveries, dl[d] \in Delivery
  PROVE  d \in MadeIn(dl)
BY DEF MadeIn, Delivery, Active, Final

LEMMA StatusChange ==
  ASSUME NEW r \in Delivery, NEW st \in Active \cup Final,
         NEW n, n = WithStatus(r, st)
  PROVE  /\ n \in Delivery /\ n.status = st
         /\ n.source = r.source /\ n.target = r.target /\ n.kind = r.kind
         /\ n.about = r.about /\ n.asked = r.asked
BY DEF Delivery, WithStatus

LEMMA ResultChange ==
  ASSUME NEW r \in Delivery, NEW st \in Active \cup Final,
         NEW res \in Run \cup {NoDelivery},
         NEW n, n = WithResult(r, st, res)
  PROVE  /\ n \in Delivery /\ n.status = st
         /\ n.source = r.source /\ n.target = r.target /\ n.kind = r.kind
         /\ n.about = r.about /\ n.asked = r.asked
BY DEF Delivery, WithResult

\* Rewriting the status of made deliveries restates the table.
LEMMA Restating ==
  ASSUME NEW dl \in [Deliveries -> Delivery \cup {Unmade}],
         NEW dl2, DOMAIN dl2 = Deliveries, dl2 = [d \in Deliveries |-> dl2[d]],
         \A d \in Deliveries :
           \/ dl2[d] = dl[d]
           \/ /\ d \in MadeIn(dl) /\ dl2[d] \in Delivery
              /\ dl2[d].source = dl[d].source /\ dl2[d].target = dl[d].target
              /\ dl2[d].kind = dl[d].kind /\ dl2[d].about = dl[d].about
              /\ dl2[d].asked = dl[d].asked
  PROVE  Restated(dl, dl2)
<1>1. dl2 \in [Deliveries -> Delivery \cup {Unmade}]
  OBVIOUS
<1>2. MadeIn(dl2) = MadeIn(dl)
  <2>1. ASSUME NEW d \in Deliveries PROVE d \in MadeIn(dl2) <=> d \in MadeIn(dl)
    BY <2>1, DeliveryIsMade DEF MadeIn
  <2> QED BY <2>1 DEF MadeIn
<1>3. \A d \in MadeIn(dl) : d \in Deliveries
  BY DEF MadeIn
<1> QED BY <1>1, <1>2, <1>3 DEF Restated

\* What was reported stays reported while no final delivery is revived.
LEMMA ReportedKept ==
  ASSUME NEW dl, NEW dl2, NEW run, NEW run2,
         Restated(dl, dl2), Reported(dl, run),
         \A d \in MadeIn(dl) :
           dl[d].status \in Final /\ run[dl[d].target] # d
             => dl2[d].status \in Final /\ run2[dl[d].target] # d
  PROVE  Reported(dl2, run2)
<1> SUFFICES ASSUME NEW c \in MadeIn(dl2), dl2[c].kind = "completion"
             PROVE  LET d == dl2[c].about IN
                    /\ d \in MadeIn(dl2) /\ dl2[d].kind = "message" /\ dl2[d].asked
                    /\ dl2[d].status \in Final
                    /\ dl2[c].source = dl2[d].target
                    /\ dl2[c].target = dl2[d].source
                    /\ \A e \in MadeIn(dl2) :
                         dl2[e].kind = "completion" /\ dl2[e].about = d => e = c
                    /\ run2[dl2[d].target] # d
  BY DEF Reported
<1> DEFINE d == dl2[c].about
<1>1. c \in MadeIn(dl) /\ dl[c].kind = "completion" /\ dl[c].about = d
  BY DEF Restated
<1>2. /\ d \in MadeIn(dl) /\ dl[d].kind = "message" /\ dl[d].asked
      /\ dl[d].status \in Final
      /\ dl[c].source = dl[d].target /\ dl[c].target = dl[d].source
      /\ \A e \in MadeIn(dl) : dl[e].kind = "completion" /\ dl[e].about = d => e = c
      /\ run[dl[d].target] # d
  BY <1>1 DEF Reported
<1> HIDE DEF d
<1>3. dl2[d].status \in Final /\ run2[dl[d].target] # d
  BY <1>2
<1>4. \A e \in MadeIn(dl2) : dl2[e].kind = "completion" /\ dl2[e].about = d => e = c
  BY <1>2 DEF Restated
<1>5. /\ d \in MadeIn(dl2) /\ dl2[d].kind = "message" /\ dl2[d].asked
      /\ dl2[c].source = dl2[d].target /\ dl2[c].target = dl2[d].source
      /\ dl2[d].target = dl[d].target
  BY <1>1, <1>2 DEF Restated
<1> QED BY <1>3, <1>4, <1>5 DEF d

-----------------------------------------------------------------------------
(* What each operation of the coordinator keeps                            *)

LEMMA ConcludeKeeps ==
  ASSUME NEW dl, NEW rec, NEW q, NEW run, NEW nt, NEW s, NEW st, NEW res,
         NEW dl2, NEW run2, NEW nt2,
         Coordinated(dl, rec, q, run, nt),
         Concludes(dl, rec, run, nt, s, st, res, dl2, run2, nt2)
  PROVE  /\ Coordinated(dl2, rec, q, run2, nt2)
         /\ Forward(dl, dl2) /\ Restated(dl, dl2)
         /\ dl2[run[s]].status = st
<1> DEFINE d == run[s]
<1>a. /\ s \in Sessions /\ st \in Final /\ res \in Run \cup {NoDelivery}
      /\ run[s] \in rec /\ dl[run[s]].status = "running"
  BY DEF Concludes
<1> USE <1>a
<1>b. /\ dl2 = [dl EXCEPT ![d] = WithResult(@, st, res)]
      /\ run2 = [run EXCEPT ![s] = NoDelivery]
      /\ nt2 = nt \ {d}
  BY DEF Concludes
<1>1. Shape(dl, rec, q, run, nt)
  BY DEF Coordinated
<1>2. d \in MadeIn(dl) /\ d \in Deliveries /\ d # NoDelivery
  BY <1>1 DEF Shape, MadeIn, Deliveries, NoDelivery
<1>3. dl[d] \in Delivery
  BY <1>1, <1>2, MadeIsDelivery DEF Shape
<1>4. dl[d].target = s
  BY <1>2 DEF Coordinated, RunsAgree
<1>5. st \in Active \cup Final
  OBVIOUS
<1>6. /\ dl2 = [e \in Deliveries |-> dl2[e]] /\ DOMAIN dl2 = Deliveries
      /\ dl2[d] = WithResult(dl[d], st, res)
      /\ \A e \in Deliveries \ {d} : dl2[e] = dl[e]
  BY <1>1, <1>2, <1>b DEF Shape
<1>7. /\ dl2[d] \in Delivery /\ dl2[d].status = st
      /\ dl2[d].source = dl[d].source /\ dl2[d].target = dl[d].target
      /\ dl2[d].kind = dl[d].kind /\ dl2[d].about = dl[d].about
      /\ dl2[d].asked = dl[d].asked
  <2> HIDE DEF d
  <2> QED BY <1>3, <1>5, <1>6, ResultChange
<1>8. Restated(dl, dl2)
  <2> HIDE DEF d
  <2>1. \A e \in Deliveries :
           \/ dl2[e] = dl[e]
           \/ /\ e \in MadeIn(dl) /\ dl2[e] \in Delivery
              /\ dl2[e].source = dl[e].source /\ dl2[e].target = dl[e].target
              /\ dl2[e].kind = dl[e].kind /\ dl2[e].about = dl[e].about
              /\ dl2[e].asked = dl[e].asked
    BY <1>2, <1>6, <1>7
  <2>2. dl \in [Deliveries -> Delivery \cup {Unmade}]
    BY <1>1 DEF Shape
  <2> QED BY <2>1, <2>2, <1>6, Restating
<1>9. MadeIn(dl2) = MadeIn(dl) /\ \A e \in MadeIn(dl) : e \in Deliveries
  BY <1>8 DEF Restated, MadeIn
<1>10. /\ run2 \in [Sessions -> Deliveries \cup {NoDelivery}]
       /\ run2[s] = NoDelivery /\ \A t \in Sessions \ {s} : run2[t] = run[t]
  BY <1>1, <1>b DEF Shape
<1> HIDE DEF d
<1>11. st \notin Active /\ st # "running" /\ st # "queued"
  BY DEF Active, Final
<1>12. dl[d].status = "running"
  BY DEF d
<1>13. Shape(dl2, rec, q, run2, nt2)
  BY <1>1, <1>8, <1>9, <1>10, <1>b DEF Shape, Restated
<1>14. Placed(dl2, rec, q, run2)
  <2> SUFFICES ASSUME NEW e \in MadeIn(dl)
               PROVE  /\ dl2[e].status = "queued" => e \in rec /\ e \in Range(q[dl2[e].target])
                      /\ dl2[e].status = "running" => e \in rec /\ run2[dl2[e].target] = e
    BY <1>9 DEF Placed
  <2>1. CASE e = d
    BY <2>1, <1>7, <1>11
  <2>2. CASE e # d
    <3>1. dl2[e] = dl[e] /\ dl[e].target \in Sessions
      BY <2>2, <1>1, <1>6, <1>9, MadeIsDelivery DEF Shape
    <3>2. dl[e].status = "running" => e \in rec /\ run[dl[e].target] = e
      BY DEF Coordinated, Placed
    <3>3. dl[e].status = "queued" => e \in rec /\ e \in Range(q[dl[e].target])
      BY DEF Coordinated, Placed
    <3>4. dl[e].status = "running" => dl[e].target # s
      BY <2>2, <3>2 DEF d
    <3> QED BY <3>1, <3>2, <3>3, <3>4, <1>10
  <2> QED BY <2>1, <2>2
<1>15. QueuesAgree(dl2, q)
  <2>1. QueuesAgree(dl, q)
    BY DEF Coordinated
  <2>2. ASSUME NEW t \in Sessions, NEW e \in Range(q[t])
        PROVE  e \in MadeIn(dl2) /\ dl2[e].status = "queued" /\ dl2[e].target = t
    <3>1. e \in MadeIn(dl) /\ dl[e].status = "queued" /\ dl[e].target = t
      BY <2>1 DEF QueuesAgree
    <3>2. dl2[e] = dl[e]
      BY <3>1, <1>6, <1>9, <1>12
    <3> QED BY <3>1, <3>2, <1>9
  <2> QED BY <2>1, <2>2 DEF QueuesAgree
<1>16. RunsAgree(dl2, run2)
  <2> SUFFICES ASSUME NEW t \in Sessions, run2[t] # NoDelivery
               PROVE  /\ run2[t] \in MadeIn(dl2) /\ dl2[run2[t]].target = t
                      /\ dl2[run2[t]].status \in {"running", "cancelled"}
    BY DEF RunsAgree
  <2>1. t # s /\ run2[t] = run[t]
    BY <1>10
  <2>2. /\ run[t] \in MadeIn(dl) /\ dl[run[t]].target = t
        /\ dl[run[t]].status \in {"running", "cancelled"}
    BY <2>1 DEF Coordinated, RunsAgree
  <2>3. dl2[run[t]] = dl[run[t]]
    BY <2>1, <2>2, <1>4, <1>6, <1>9
  <2> QED BY <2>1, <2>2, <2>3, <1>9
<1>17. NotifyIsOpen(dl2, nt2)
  BY <1>6, <1>9, <1>b DEF Coordinated, NotifyIsOpen
<1>18. Reported(dl2, run2)
  <2>1. Reported(dl, run)
    BY DEF Coordinated
  <2>2. ASSUME NEW e \in MadeIn(dl), dl[e].status \in Final, run[dl[e].target] # e
        PROVE  dl2[e].status \in Final /\ run2[dl[e].target] # e
    <3>1. e # d
      BY <2>2, <1>12 DEF Final
    <3>2. dl[e].target \in Sessions
      BY <1>1, MadeIsDelivery DEF Shape
    <3>3. e \in Deliveries /\ e # NoDelivery
      BY <1>9 DEF Deliveries, NoDelivery
    <3> QED BY <2>2, <3>1, <3>2, <3>3, <1>6, <1>10
  <2> QED BY <2>1, <2>2, <1>8, ReportedKept
<1>19. Forward(dl, dl2)
  BY <1>6, <1>7, <1>8, <1>9, <1>11, <1>12 DEF Forward, Restated
<1>20. Coordinated(dl2, rec, q, run2, nt2)
  BY <1>13, <1>14, <1>15, <1>16, <1>17, <1>18 DEF Coordinated
<1> QED BY <1>7, <1>8, <1>19, <1>20 DEF d

LEMMA ReleaseKeeps ==
  ASSUME NEW dl, NEW rec, NEW q, NEW run, NEW nt, NEW s, NEW run2,
         Coordinated(dl, rec, q, run, nt),
         Releases(dl, rec, run, s, run2)
  PROVE  Coordinated(dl, rec, q, run2, nt)
<1>a. s \in Sessions /\ ~(run[s] \in rec /\ dl[run[s]].status = "running")
  BY DEF Releases
<1> USE <1>a
<1>b. run2 = [run EXCEPT ![s] = NoDelivery]
  BY DEF Releases
<1>1. Shape(dl, rec, q, run, nt)
  BY DEF Coordinated
<1>2. /\ run2 \in [Sessions -> Deliveries \cup {NoDelivery}]
      /\ run2[s] = NoDelivery /\ \A t \in Sessions \ {s} : run2[t] = run[t]
  BY <1>1, <1>b DEF Shape
<1>3. \A e \in MadeIn(dl) : dl[e].target \in Sessions
  BY <1>1, MadeIsDelivery DEF Shape
<1>4. \A e \in MadeIn(dl) : e # NoDelivery
  BY DEF MadeIn, Deliveries, NoDelivery
<1>5. Placed(dl, rec, q, run2)
  <2> SUFFICES ASSUME NEW e \in MadeIn(dl), dl[e].status = "running"
               PROVE  e \in rec /\ run2[dl[e].target] = e
    BY DEF Coordinated, Placed
  <2>1. e \in rec /\ run[dl[e].target] = e
    BY DEF Coordinated, Placed
  <2> QED BY <2>1, <1>2, <1>3
<1>6. RunsAgree(dl, run2)
  BY <1>2 DEF Coordinated, RunsAgree
<1>7. Reported(dl, run2)
  <2>1. \A e \in MadeIn(dl) : run[dl[e].target] # e => run2[dl[e].target] # e
    BY <1>2, <1>3, <1>4
  <2> QED BY <2>1 DEF Coordinated, Reported
<1>8. Shape(dl, rec, q, run2, nt)
  BY <1>1, <1>2 DEF Shape
<1> QED BY <1>5, <1>6, <1>7, <1>8 DEF Coordinated

LEMMA EnqueueKeeps ==
  ASSUME NEW dl, NEW rec, NEW q, NEW run, NEW nt, NEW item, NEW id, NEW gone,
         NEW dl2, NEW rec2, NEW q2, NEW nt2,
         Coordinated(dl, rec, q, run, nt),
         Enqueues(dl, rec, q, run, nt, item, id, gone, dl2, rec2, q2, nt2)
  PROVE  Coordinated(dl2, rec2, q2, run, nt2) /\ Forward(dl, dl2)
<1>a. /\ id \in Deliveries \ MadeIn(dl)
      /\ item \in Delivery /\ item.status = "queued"
      /\ \A d \in gone : dl[d].status \notin Active
      /\ Cardinality(rec2) <= Capacity
      /\ (nt2 = nt \/ (nt2 = nt \cup {id} /\ item.kind = "message" /\ item.asked))
  BY DEF Enqueues
<1> USE <1>a
<1>b. /\ dl2 = [dl EXCEPT ![id] = item]
      /\ rec2 = (rec \ gone) \cup {id}
      /\ q2 = [q EXCEPT ![item.target] = Append(@, id)]
  BY DEF Enqueues
<1>c. item.kind = "completion" =>
       /\ item.about \in MadeIn(dl) /\ dl[item.about].kind = "message"
       /\ dl[item.about].asked /\ dl[item.about].status \in Final
       /\ item.source = dl[item.about].target
       /\ item.target = dl[item.about].source
       /\ \A e \in MadeIn(dl) :
            dl[e].kind = "completion" => dl[e].about # item.about
       /\ run[dl[item.about].target] # item.about
  BY DEF Enqueues, Reportable
<1>1. Shape(dl, rec, q, run, nt)
  BY DEF Coordinated
<1>2. /\ item.target \in Sessions /\ item.source \in Sessions
      /\ item.status \in Active /\ item.status # "running"
  BY DEF Delivery, Active
<1>3. /\ dl2 \in [Deliveries -> Delivery \cup {Unmade}] /\ dl2[id] = item
      /\ \A e \in Deliveries \ {id} : dl2[e] = dl[e]
  BY <1>1, <1>b DEF Shape
<1>4. /\ MadeIn(dl2) = MadeIn(dl) \cup {id}
      /\ \A e \in MadeIn(dl) : e # id /\ dl2[e] = dl[e]
  BY <1>3, <1>2 DEF MadeIn
<1>5. \A e \in Range(q[item.target]) : e \in MadeIn(dl)
  BY <1>2 DEF Coordinated, QueuesAgree
<1>6. q[item.target] \in Seq(Deliveries) /\ IsInjective(q[item.target])
  BY <1>1, <1>2 DEF Shape, Coordinated, QueuesAgree
<1>7. /\ Append(q[item.target], id) \in Seq(Deliveries)
      /\ IsInjective(Append(q[item.target], id))
      /\ Range(Append(q[item.target], id)) = Range(q[item.target]) \cup {id}
  BY <1>5, <1>6, AppendQueue
<1>8. /\ q2 \in [Sessions -> Seq(Deliveries)]
      /\ q2[item.target] = Append(q[item.target], id)
      /\ \A t \in Sessions \ {item.target} : q2[t] = q[t]
  BY <1>1, <1>2, <1>7, <1>b DEF Shape
<1>9. \A t \in Sessions : Range(q[t]) \subseteq Range(q2[t])
  BY <1>7, <1>8
<1>10. Shape(dl2, rec2, q2, run, nt2)
  BY <1>1, <1>3, <1>4, <1>8, <1>b DEF Shape
<1>11. Placed(dl2, rec2, q2, run)
  <2> SUFFICES ASSUME NEW e \in MadeIn(dl2)
               PROVE  /\ dl2[e].status = "queued"
                           => e \in rec2 /\ e \in Range(q2[dl2[e].target])
                      /\ dl2[e].status = "running"
                           => e \in rec2 /\ run[dl2[e].target] = e
    BY DEF Placed
  <2>1. CASE e = id
    BY <2>1, <1>2, <1>3, <1>7, <1>8, <1>b
  <2>2. CASE e # id
    <3>1. e \in MadeIn(dl) /\ dl2[e] = dl[e] /\ dl[e].target \in Sessions
      BY <2>2, <1>1, <1>4, MadeIsDelivery DEF Shape
    <3>2. /\ dl[e].status = "queued" => e \in rec /\ e \in Range(q[dl[e].target])
          /\ dl[e].status = "running" => e \in rec /\ run[dl[e].target] = e
      BY <3>1 DEF Coordinated, Placed
    <3>3. dl[e].status \in Active => e \notin gone
      OBVIOUS
    <3> QED BY <3>1, <3>2, <3>3, <1>9, <1>b DEF Active
  <2> QED BY <2>1, <2>2
<1>12. QueuesAgree(dl2, q2)
  <2> SUFFICES ASSUME NEW t \in Sessions
               PROVE  /\ IsInjective(q2[t])
                      /\ \A e \in Range(q2[t]) : /\ e \in MadeIn(dl2)
                            /\ dl2[e].status = "queued" /\ dl2[e].target = t
    BY DEF QueuesAgree
  <2>1. /\ IsInjective(q[t])
        /\ \A e \in Range(q[t]) : /\ e \in MadeIn(dl2)
              /\ dl2[e].status = "queued" /\ dl2[e].target = t
    BY <1>4 DEF Coordinated, QueuesAgree
  <2>2. id \in MadeIn(dl2) /\ dl2[id].status = "queued" /\ dl2[id].target = item.target
    BY <1>3, <1>4
  <2>3. CASE t = item.target
    <3>1. q2[t] = Append(q[item.target], id)
      BY <2>3, <1>8
    <3>2. IsInjective(q2[t]) /\ Range(q2[t]) = Range(q[t]) \cup {id}
      BY <2>3, <3>1, <1>7
    <3> QED BY <2>1, <2>2, <2>3, <3>2
  <2>4. CASE t # item.target
    BY <2>1, <2>4, <1>8
  <2> QED BY <2>3, <2>4
<1>13. RunsAgree(dl2, run)
  BY <1>4 DEF Coordinated, RunsAgree
<1>14. NotifyIsOpen(dl2, nt2)
  BY <1>2, <1>3, <1>4 DEF Coordinated, NotifyIsOpen
<1>15. Reported(dl2, run)
  <2> DEFINE Told(c, d) ==
               /\ d \in MadeIn(dl2) /\ dl2[d].kind = "message" /\ dl2[d].asked
               /\ dl2[d].status \in Final
               /\ dl2[c].source = dl2[d].target
               /\ dl2[c].target = dl2[d].source
               /\ \A e \in MadeIn(dl2) :
                    dl2[e].kind = "completion" /\ dl2[e].about = d => e = c
               /\ run[dl2[d].target] # d
  <2>1. ASSUME NEW c \in MadeIn(dl), dl[c].kind = "completion"
        PROVE  Told(c, dl[c].about)
    <3> DEFINE d == dl[c].about
    <3>1. /\ d \in MadeIn(dl) /\ dl[d].kind = "message" /\ dl[d].asked
          /\ dl[d].status \in Final
          /\ dl[c].source = dl[d].target /\ dl[c].target = dl[d].source
          /\ \A e \in MadeIn(dl) : dl[e].kind = "completion" /\ dl[e].about = d => e = c
          /\ run[dl[d].target] # d
      BY <2>1 DEF Coordinated, Reported
    <3>2. item.kind = "completion" => item.about # d
      BY <2>1, <1>c
    <3> HIDE DEF d
    <3>3. d \in MadeIn(dl2) /\ dl2[d] = dl[d] /\ dl2[c] = dl[c]
      BY <3>1, <1>4
    <3>4. \A e \in MadeIn(dl2) : dl2[e].kind = "completion" /\ dl2[e].about = d => e = c
      BY <3>1, <3>2, <1>3, <1>4
    <3>5. Told(c, d)
      BY <3>1, <3>3, <3>4
    <3> QED BY <3>5 DEF d
  <2>2. ASSUME item.kind = "completion" PROVE Told(id, item.about)
    <3>1. item.about \in MadeIn(dl) /\ dl2[item.about] = dl[item.about]
      BY <2>2, <1>4, <1>c
    <3> QED BY <2>2, <3>1, <1>3, <1>4, <1>c
  <2>3. ASSUME NEW c \in MadeIn(dl2), dl2[c].kind = "completion"
        PROVE  Told(c, dl2[c].about)
    <3>1. CASE c = id
      BY <2>2, <2>3, <3>1, <1>3
    <3>2. CASE c # id
      BY <2>1, <2>3, <3>2, <1>4
    <3> QED BY <3>1, <3>2
  <2> QED BY <2>3 DEF Reported
<1>16. Coordinated(dl2, rec2, q2, run, nt2)
  BY <1>10, <1>11, <1>12, <1>13, <1>14, <1>15 DEF Coordinated
<1>17. Forward(dl, dl2)
  BY <1>4 DEF Forward
<1> QED BY <1>16, <1>17

LEMMA InterruptKeeps ==
  ASSUME NEW dl, NEW rec, NEW q, NEW run, NEW nt, NEW s, NEW hit,
         NEW dl2, NEW q2, NEW run2, NEW nt2,
         Coordinated(dl, rec, q, run, nt),
         Interrupts(dl, rec, q, run, nt, s, hit, dl2, q2, run2, nt2)
  PROVE  Coordinated(dl2, rec, q2, run2, nt2) /\ Forward(dl, dl2)
<1>a. /\ s \in Sessions
      /\ hit = {d \in rec : dl[d].target = s /\ dl[d].status \in Active}
      /\ nt2 \subseteq nt \ hit
      /\ dl2 = [d \in Deliveries |->
                  IF d \in hit THEN WithStatus(dl[d], "interrupted") ELSE dl[d]]
  BY DEF Interrupts
<1> USE <1>a
<1>b. /\ q2 = [q EXCEPT ![s] = <<>>]
      /\ run2 = [run EXCEPT ![s] = NoDelivery]
  BY DEF Interrupts
<1>1. Shape(dl, rec, q, run, nt)
  BY DEF Coordinated
<1>2. \A d \in hit : d \in MadeIn(dl) /\ dl[d] \in Delivery
  BY <1>1, MadeIsDelivery DEF Shape
<1>3. ASSUME NEW d \in hit
      PROVE  /\ dl2[d] \in Delivery /\ dl2[d].status = "interrupted"
             /\ dl2[d].source = dl[d].source /\ dl2[d].target = dl[d].target
             /\ dl2[d].kind = dl[d].kind /\ dl2[d].about = dl[d].about
             /\ dl2[d].asked = dl[d].asked
  <2>1. dl2[d] = WithStatus(dl[d], "interrupted")
    BY <1>2 DEF MadeIn
  <2>2. "interrupted" \in Active \cup Final
    BY DEF Final
  <2> QED BY <1>2, <2>1, <2>2, StatusChange
<1>4. \A d \in Deliveries \ hit : dl2[d] = dl[d]
  OBVIOUS
<1>5. Restated(dl, dl2)
  <2>1. \A d \in Deliveries :
           \/ dl2[d] = dl[d]
           \/ /\ d \in MadeIn(dl) /\ dl2[d] \in Delivery
              /\ dl2[d].source = dl[d].source /\ dl2[d].target = dl[d].target
              /\ dl2[d].kind = dl[d].kind /\ dl2[d].about = dl[d].about
              /\ dl2[d].asked = dl[d].asked
    BY <1>2, <1>3, <1>4
  <2>2. dl \in [Deliveries -> Delivery \cup {Unmade}]
    BY <1>1 DEF Shape
  <2>3. DOMAIN dl2 = Deliveries /\ dl2 = [d \in Deliveries |-> dl2[d]]
    OBVIOUS
  <2> QED BY <2>1, <2>2, <2>3, Restating
<1>6. /\ MadeIn(dl2) = MadeIn(dl)
      /\ \A e \in MadeIn(dl) : e \in Deliveries /\ e # NoDelivery
  BY <1>5 DEF Restated, MadeIn, Deliveries, NoDelivery
<1>7. \A e \in MadeIn(dl) : dl[e].target \in Sessions
  BY <1>1, MadeIsDelivery DEF Shape
<1>8. /\ run2 \in [Sessions -> Deliveries \cup {NoDelivery}]
      /\ run2[s] = NoDelivery /\ \A t \in Sessions \ {s} : run2[t] = run[t]
  BY <1>1, <1>b DEF Shape
<1>9. /\ q2 \in [Sessions -> Seq(Deliveries)]
      /\ q2[s] = <<>> /\ \A t \in Sessions \ {s} : q2[t] = q[t]
  BY <1>1, <1>b, EmptyQueue DEF Shape
\* What is not over is not for s any more.
<1>10. ASSUME NEW e \in MadeIn(dl), dl2[e].status \in Active
       PROVE  e \notin hit /\ dl2[e] = dl[e] /\ dl[e].target # s
  <2>1. e \notin hit
    BY <1>3, <1>10 DEF Active
  <2>2. dl2[e] = dl[e]
    BY <2>1, <1>4, <1>6
  <2>3. e \in rec
    BY <2>2, <1>10 DEF Coordinated, Placed, Active
  <2> QED BY <2>1, <2>2, <2>3, <1>10
<1>11. Shape(dl2, rec, q2, run2, nt2)
  BY <1>1, <1>5, <1>6, <1>8, <1>9 DEF Shape, Restated
<1>12. Placed(dl2, rec, q2, run2)
  <2> SUFFICES ASSUME NEW e \in MadeIn(dl), dl2[e].status \in Active
               PROVE  /\ dl2[e].status = "queued"
                           => e \in rec /\ e \in Range(q2[dl2[e].target])
                      /\ dl2[e].status = "running"
                           => e \in rec /\ run2[dl2[e].target] = e
    BY <1>6 DEF Placed, Active
  <2>1. dl2[e] = dl[e] /\ dl[e].target \in Sessions \ {s}
    BY <1>7, <1>10
  <2>2. /\ dl[e].status = "queued" => e \in rec /\ e \in Range(q[dl[e].target])
        /\ dl[e].status = "running" => e \in rec /\ run[dl[e].target] = e
    BY DEF Coordinated, Placed
  <2> QED BY <2>1, <2>2, <1>8, <1>9
<1>13. QueuesAgree(dl2, q2)
  <2> SUFFICES ASSUME NEW t \in Sessions
               PROVE  /\ IsInjective(q2[t])
                      /\ \A e \in Range(q2[t]) : /\ e \in MadeIn(dl2)
                            /\ dl2[e].status = "queued" /\ dl2[e].target = t
    BY DEF QueuesAgree
  <2>1. CASE t = s
    BY <2>1, <1>9, EmptyQueue
  <2>2. CASE t # s
    <3>1. /\ IsInjective(q[t])
          /\ \A e \in Range(q[t]) : /\ e \in MadeIn(dl)
                /\ dl[e].status = "queued" /\ dl[e].target = t
      BY DEF Coordinated, QueuesAgree
    <3>2. \A e \in Range(q[t]) : e \notin hit
      BY <3>1, <2>2
    <3> QED BY <3>1, <3>2, <2>2, <1>4, <1>6, <1>9
  <2> QED BY <2>1, <2>2
<1>14. RunsAgree(dl2, run2)
  <2> SUFFICES ASSUME NEW t \in Sessions, run2[t] # NoDelivery
               PROVE  /\ run2[t] \in MadeIn(dl2) /\ dl2[run2[t]].target = t
                      /\ dl2[run2[t]].status \in {"running", "cancelled"}
    BY DEF RunsAgree
  <2>1. t # s /\ run2[t] = run[t]
    BY <1>8
  <2>2. /\ run[t] \in MadeIn(dl) /\ dl[run[t]].target = t
        /\ dl[run[t]].status \in {"running", "cancelled"}
    BY <2>1 DEF Coordinated, RunsAgree
  <2>3. dl2[run[t]] = dl[run[t]]
    BY <2>1, <2>2, <1>4, <1>6
  <2> QED BY <2>1, <2>2, <2>3, <1>6
<1>15. NotifyIsOpen(dl2, nt2)
  BY <1>4, <1>6 DEF Coordinated, NotifyIsOpen
<1>16. Reported(dl2, run2)
  <2>1. Reported(dl, run)
    BY DEF Coordinated
  <2>2. ASSUME NEW e \in MadeIn(dl), dl[e].status \in Final, run[dl[e].target] # e
        PROVE  dl2[e].status \in Final /\ run2[dl[e].target] # e
    <3>1. e \notin hit
      BY <2>2 DEF Final, Active
    <3> QED BY <2>2, <3>1, <1>4, <1>6, <1>7, <1>8
  <2> QED BY <2>1, <2>2, <1>5, ReportedKept
<1>17. Forward(dl, dl2)
  <2>1. \A d \in hit : dl[d].status \in Active
    OBVIOUS
  <2>2. \A d \in hit : dl[d].status \notin {"completed", "failed", "interrupted"}
    BY <2>1 DEF Active
  <2> QED BY <2>2, <1>3, <1>4, <1>5, <1>6 DEF Forward, Restated
<1>18. Coordinated(dl2, rec, q2, run2, nt2)
  BY <1>11, <1>12, <1>13, <1>14, <1>15, <1>16 DEF Coordinated
<1> QED BY <1>17, <1>18

LEMMA DrainKeeps ==
  ASSUME NEW dl, NEW rec, NEW q, NEW run, NEW nt, NEW s, NEW d,
         NEW dl2, NEW q2, NEW run2,
         Coordinated(dl, rec, q, run, nt),
         Drains(dl, q, run, s, d, dl2, q2, run2)
  PROVE  d \in Deliveries /\ Coordinated(dl2, rec, q2, run2, nt) /\ Forward(dl, dl2)
<1>a. s \in Sessions /\ run[s] = NoDelivery /\ q[s] # <<>> /\ d = Head(q[s])
  BY DEF Drains
<1> USE <1>a
<1>b. /\ dl2 = [dl EXCEPT ![d] = WithStatus(@, "running")]
      /\ q2 = [q EXCEPT ![s] = Tail(@)]
      /\ run2 = [run EXCEPT ![s] = d]
  BY DEF Drains
<1>1. Shape(dl, rec, q, run, nt)
  BY DEF Coordinated
<1>2. q[s] \in Seq(Deliveries) /\ IsInjective(q[s])
  BY <1>1 DEF Shape, Coordinated, QueuesAgree
<1>3. /\ d \in Range(q[s]) /\ d \in Deliveries
      /\ Tail(q[s]) \in Seq(Deliveries) /\ IsInjective(Tail(q[s]))
      /\ Range(Tail(q[s])) = Range(q[s]) \ {d}
  BY <1>2, TailQueue
<1>4. d \in MadeIn(dl) /\ dl[d].status = "queued" /\ dl[d].target = s
  BY <1>3 DEF Coordinated, QueuesAgree
<1>5. d \in rec /\ dl[d] \in Delivery
  BY <1>1, <1>4, MadeIsDelivery DEF Shape, Coordinated, Placed
<1>6. /\ DOMAIN dl2 = Deliveries /\ dl2 = [e \in Deliveries |-> dl2[e]]
      /\ dl2[d] = WithStatus(dl[d], "running")
      /\ \A e \in Deliveries \ {d} : dl2[e] = dl[e]
  BY <1>1, <1>3, <1>b DEF Shape
<1>7. /\ dl2[d] \in Delivery /\ dl2[d].status = "running"
      /\ dl2[d].source = dl[d].source /\ dl2[d].target = dl[d].target
      /\ dl2[d].kind = dl[d].kind /\ dl2[d].about = dl[d].about
      /\ dl2[d].asked = dl[d].asked
  <2>1. "running" \in Active \cup Final
    BY DEF Active
  <2> QED BY <1>5, <1>6, <2>1, StatusChange
<1>8. Restated(dl, dl2)
  <2>1. \A e \in Deliveries :
           \/ dl2[e] = dl[e]
           \/ /\ e \in MadeIn(dl) /\ dl2[e] \in Delivery
              /\ dl2[e].source = dl[e].source /\ dl2[e].target = dl[e].target
              /\ dl2[e].kind = dl[e].kind /\ dl2[e].about = dl[e].about
              /\ dl2[e].asked = dl[e].asked
    BY <1>4, <1>6, <1>7
  <2>2. dl \in [Deliveries -> Delivery \cup {Unmade}]
    BY <1>1 DEF Shape
  <2> QED BY ONLY <2>1, <2>2, <1>6, Restating
<1>9. /\ MadeIn(dl2) = MadeIn(dl)
      /\ \A e \in MadeIn(dl) : e \in Deliveries /\ e # NoDelivery
  BY <1>8 DEF Restated, MadeIn, Deliveries, NoDelivery
<1>10. \A e \in MadeIn(dl) : dl[e].target \in Sessions
  BY <1>1, MadeIsDelivery DEF Shape
<1>11. /\ run2 \in [Sessions -> Deliveries \cup {NoDelivery}]
       /\ run2[s] = d /\ \A t \in Sessions \ {s} : run2[t] = run[t]
  BY <1>1, <1>3, <1>b DEF Shape
<1>12. /\ q2 \in [Sessions -> Seq(Deliveries)]
       /\ q2[s] = Tail(q[s]) /\ \A t \in Sessions \ {s} : q2[t] = q[t]
  BY <1>1, <1>3, <1>b DEF Shape
<1>13. Shape(dl2, rec, q2, run2, nt)
  BY <1>1, <1>8, <1>9, <1>11, <1>12 DEF Shape, Restated
<1>14. Placed(dl2, rec, q2, run2)
  <2> SUFFICES ASSUME NEW e \in MadeIn(dl)
               PROVE  /\ dl2[e].status = "queued"
                           => e \in rec /\ e \in Range(q2[dl2[e].target])
                      /\ dl2[e].status = "running"
                           => e \in rec /\ run2[dl2[e].target] = e
    BY <1>9 DEF Placed
  <2>1. CASE e = d
    BY <2>1, <1>4, <1>5, <1>7, <1>11
  <2>2. CASE e # d
    <3>1. dl2[e] = dl[e] /\ dl[e].target \in Sessions
      BY <2>2, <1>6, <1>9, <1>10
    <3>2. /\ dl[e].status = "queued" => e \in rec /\ e \in Range(q[dl[e].target])
          /\ dl[e].status = "running" => e \in rec /\ run[dl[e].target] = e
      BY DEF Coordinated, Placed
    <3>3. dl[e].status = "running" => dl[e].target # s
      BY <3>2, <1>9
    <3>4. Range(q[dl[e].target]) \ {d} \subseteq Range(q2[dl[e].target])
      BY <3>1, <1>3, <1>12
    <3> QED BY <2>2, <3>1, <3>2, <3>3, <3>4, <1>11
  <2> QED BY <2>1, <2>2
<1>15. QueuesAgree(dl2, q2)
  <2> SUFFICES ASSUME NEW t \in Sessions
               PROVE  /\ IsInjective(q2[t])
                      /\ \A e \in Range(q2[t]) : /\ e \in MadeIn(dl2)
                            /\ dl2[e].status = "queued" /\ dl2[e].target = t
    BY DEF QueuesAgree
  <2>1. /\ IsInjective(q[t])
        /\ \A e \in Range(q[t]) : /\ e \in MadeIn(dl)
              /\ dl[e].status = "queued" /\ dl[e].target = t
    BY DEF Coordinated, QueuesAgree
  <2>2. CASE t = s
    BY <2>1, <2>2, <1>3, <1>6, <1>9, <1>12
  <2>3. CASE t # s
    <3>1. \A e \in Range(q[t]) : e # d
      BY <2>1, <2>3, <1>4
    <3>2. q2[t] = q[t]
      BY <2>3, <1>12
    <3>3. \A e \in Range(q[t]) : dl2[e] = dl[e] /\ e \in MadeIn(dl2)
      BY <2>1, <3>1, <1>6, <1>9
    <3> QED BY <2>1, <3>2, <3>3
  <2> QED BY <2>2, <2>3
<1>16. RunsAgree(dl2, run2)
  <2> SUFFICES ASSUME NEW t \in Sessions, run2[t] # NoDelivery
               PROVE  /\ run2[t] \in MadeIn(dl2) /\ dl2[run2[t]].target = t
                      /\ dl2[run2[t]].status \in {"running", "cancelled"}
    BY DEF RunsAgree
  <2>1. CASE t = s
    BY <2>1, <1>4, <1>7, <1>9, <1>11
  <2>2. CASE t # s
    <3>1. /\ run2[t] = run[t]
          /\ run[t] \in MadeIn(dl) /\ dl[run[t]].target = t
          /\ dl[run[t]].status \in {"running", "cancelled"}
      BY <2>2, <1>11 DEF Coordinated, RunsAgree
    <3> QED BY <3>1, <1>4, <1>6, <1>9
  <2> QED BY <2>1, <2>2
<1>17. NotifyIsOpen(dl2, nt)
  BY <1>6, <1>7, <1>9 DEF Coordinated, NotifyIsOpen, Active
<1>18. Reported(dl2, run2)
  <2>1. Reported(dl, run)
    BY DEF Coordinated
  <2>2. ASSUME NEW e \in MadeIn(dl), dl[e].status \in Final, run[dl[e].target] # e
        PROVE  dl2[e].status \in Final /\ run2[dl[e].target] # e
    <3>1. e # d
      BY <2>2, <1>4 DEF Final
    <3> QED BY <2>2, <3>1, <1>6, <1>9, <1>10, <1>11
  <2> QED BY <2>1, <2>2, <1>8, ReportedKept
<1>19. Forward(dl, dl2)
  BY <1>4, <1>6, <1>7, <1>8, <1>9 DEF Forward, Restated
<1>20. Coordinated(dl2, rec, q2, run2, nt)
  BY <1>13, <1>14, <1>15, <1>16, <1>17, <1>18 DEF Coordinated
<1> QED BY <1>3, <1>19, <1>20

LEMMA CancelKeeps ==
  ASSUME NEW dl, NEW rec, NEW q, NEW run, NEW nt, NEW s, NEW chosen,
         NEW dl2, NEW q2, NEW nt2,
         Coordinated(dl, rec, q, run, nt),
         Cancels(dl, rec, q, nt, s, chosen, dl2, q2, nt2)
  PROVE  Coordinated(dl2, rec, q2, run, nt2) /\ Forward(dl, dl2)
<1>a. /\ s \in Sessions
      /\ chosen \subseteq {d \in rec : dl[d].target = s /\ dl[d].status \in Active}
      /\ dl2 = [d \in Deliveries |->
                  IF d \in chosen THEN WithStatus(dl[d], "cancelled") ELSE dl[d]]
      /\ nt2 = nt \ chosen
  BY DEF Cancels
<1> USE <1>a
<1>b. q2 = [q EXCEPT ![s] = Without(@, chosen)]
  BY DEF Cancels
<1>1. Shape(dl, rec, q, run, nt)
  BY DEF Coordinated
<1>2. \A d \in chosen : /\ d \in MadeIn(dl) /\ dl[d] \in Delivery
                        /\ dl[d].target = s /\ dl[d].status \in Active
  BY <1>1, MadeIsDelivery DEF Shape
<1>3. ASSUME NEW d \in chosen
      PROVE  /\ dl2[d] \in Delivery /\ dl2[d].status = "cancelled"
             /\ dl2[d].source = dl[d].source /\ dl2[d].target = dl[d].target
             /\ dl2[d].kind = dl[d].kind /\ dl2[d].about = dl[d].about
             /\ dl2[d].asked = dl[d].asked
  <2>1. dl2[d] = WithStatus(dl[d], "cancelled")
    BY <1>2 DEF MadeIn
  <2>2. "cancelled" \in Active \cup Final
    BY DEF Final
  <2> QED BY <1>2, <2>1, <2>2, StatusChange
<1>4. \A d \in Deliveries \ chosen : dl2[d] = dl[d]
  OBVIOUS
<1>5. Restated(dl, dl2)
  <2>1. \A d \in Deliveries :
           \/ dl2[d] = dl[d]
           \/ /\ d \in MadeIn(dl) /\ dl2[d] \in Delivery
              /\ dl2[d].source = dl[d].source /\ dl2[d].target = dl[d].target
              /\ dl2[d].kind = dl[d].kind /\ dl2[d].about = dl[d].about
              /\ dl2[d].asked = dl[d].asked
    BY <1>2, <1>3, <1>4
  <2>2. dl \in [Deliveries -> Delivery \cup {Unmade}]
    BY <1>1 DEF Shape
  <2>3. DOMAIN dl2 = Deliveries /\ dl2 = [d \in Deliveries |-> dl2[d]]
    OBVIOUS
  <2> QED BY <2>1, <2>2, <2>3, Restating
<1>6. /\ MadeIn(dl2) = MadeIn(dl)
      /\ \A e \in MadeIn(dl) : e \in Deliveries
  BY <1>5 DEF Restated, MadeIn
<1>7. \A e \in MadeIn(dl) : dl[e].target \in Sessions
  BY <1>1, MadeIsDelivery DEF Shape
<1>8. q[s] \in Seq(Deliveries) /\ IsInjective(q[s])
  BY <1>1 DEF Shape, Coordinated, QueuesAgree
<1>9. /\ Without(q[s], chosen) \in Seq(Deliveries)
      /\ IsInjective(Without(q[s], chosen))
      /\ Range(Without(q[s], chosen)) = Range(q[s]) \ chosen
  BY <1>8, WithoutQueue
<1>10. /\ q2 \in [Sessions -> Seq(Deliveries)]
       /\ q2[s] = Without(q[s], chosen) /\ \A t \in Sessions \ {s} : q2[t] = q[t]
  BY <1>1, <1>9, <1>b DEF Shape
<1>11. Shape(dl2, rec, q2, run, nt2)
  BY <1>1, <1>5, <1>6, <1>10 DEF Shape, Restated
<1>12. Placed(dl2, rec, q2, run)
  <2> SUFFICES ASSUME NEW e \in MadeIn(dl), dl2[e].status \in Active
               PROVE  /\ dl2[e].status = "queued"
                           => e \in rec /\ e \in Range(q2[dl2[e].target])
                      /\ dl2[e].status = "running"
                           => e \in rec /\ run[dl2[e].target] = e
    BY <1>6 DEF Placed, Active
  <2>1. e \notin chosen
    BY <1>3 DEF Active
  <2>2. dl2[e] = dl[e] /\ dl[e].target \in Sessions
    BY <2>1, <1>4, <1>6, <1>7
  <2>3. /\ dl[e].status = "queued" => e \in rec /\ e \in Range(q[dl[e].target])
        /\ dl[e].status = "running" => e \in rec /\ run[dl[e].target] = e
    BY DEF Coordinated, Placed
  <2>4. Range(q[dl[e].target]) \ chosen \subseteq Range(q2[dl[e].target])
    BY <2>2, <1>9, <1>10
  <2> QED BY <2>1, <2>2, <2>3, <2>4
<1>13. QueuesAgree(dl2, q2)
  <2> SUFFICES ASSUME NEW t \in Sessions
               PROVE  /\ IsInjective(q2[t])
                      /\ \A e \in Range(q2[t]) : /\ e \in MadeIn(dl2)
                            /\ dl2[e].status = "queued" /\ dl2[e].target = t
    BY DEF QueuesAgree
  <2>1. /\ IsInjective(q[t])
        /\ \A e \in Range(q[t]) : /\ e \in MadeIn(dl)
              /\ dl[e].status = "queued" /\ dl[e].target = t
    BY DEF Coordinated, QueuesAgree
  <2>2. CASE t = s
    BY <2>1, <2>2, <1>4, <1>6, <1>9, <1>10
  <2>3. CASE t # s
    <3>1. \A e \in Range(q[t]) : e \notin chosen
      BY <2>1, <2>3, <1>2
    <3> QED BY <2>1, <2>3, <3>1, <1>4, <1>6, <1>10
  <2> QED BY <2>2, <2>3
<1>14. RunsAgree(dl2, run)
  <2> SUFFICES ASSUME NEW t \in Sessions, run[t] # NoDelivery
               PROVE  /\ run[t] \in MadeIn(dl2) /\ dl2[run[t]].target = t
                      /\ dl2[run[t]].status \in {"running", "cancelled"}
    BY DEF RunsAgree
  <2>1. /\ run[t] \in MadeIn(dl) /\ dl[run[t]].target = t
        /\ dl[run[t]].status \in {"running", "cancelled"}
    BY DEF Coordinated, RunsAgree
  <2>2. CASE run[t] \in chosen
    BY <2>1, <2>2, <1>3, <1>6
  <2>3. CASE run[t] \notin chosen
    BY <2>1, <2>3, <1>4, <1>6
  <2> QED BY <2>2, <2>3
<1>15. NotifyIsOpen(dl2, nt2)
  BY <1>4, <1>6 DEF Coordinated, NotifyIsOpen
<1>16. Reported(dl2, run)
  <2>1. Reported(dl, run)
    BY DEF Coordinated
  <2>2. ASSUME NEW e \in MadeIn(dl), dl[e].status \in Final
        PROVE  dl2[e].status \in Final
    <3>1. e \notin chosen
      BY <2>2, <1>2 DEF Final, Active
    <3> QED BY <2>2, <3>1, <1>4, <1>6
  <2> QED BY <2>1, <2>2, <1>5, ReportedKept
<1>17. Forward(dl, dl2)
  <2>1. \A d \in chosen : dl[d].status \notin {"completed", "failed", "interrupted"}
    BY <1>2 DEF Active
  <2> QED BY <2>1, <1>3, <1>4, <1>5, <1>6 DEF Forward, Restated
<1>18. Coordinated(dl2, rec, q2, run, nt2)
  BY <1>11, <1>12, <1>13, <1>14, <1>15, <1>16 DEF Coordinated
<1> QED BY <1>17, <1>18

LEMMA ReviveKeeps ==
  ASSUME NEW dl, NEW rec, NEW q, NEW run, NEW nt, NEW s, NEW d, NEW dl2, NEW nt2,
         Coordinated(dl, rec, q, run, nt),
         Revives(dl, rec, run, nt, s, d, dl2, nt2)
  PROVE  Coordinated(dl2, rec, q, run, nt2) /\ Forward(dl, dl2)
<1>a. /\ s \in Sessions /\ d \in rec /\ run[s] = d
      /\ (nt2 = nt \/ (nt2 = nt \cup {d} /\ dl[d].kind = "message" /\ dl[d].asked))
  BY DEF Revives
<1> USE <1>a
<1>b. dl2 = [dl EXCEPT ![d] = WithStatus(@, "running")]
  BY DEF Revives
<1>1. Shape(dl, rec, q, run, nt)
  BY DEF Coordinated
<1>2. d \in MadeIn(dl) /\ d \in Deliveries /\ d # NoDelivery
  BY <1>1 DEF Shape, MadeIn, Deliveries, NoDelivery
<1>3. dl[d] \in Delivery
  BY <1>1, <1>2, MadeIsDelivery DEF Shape
<1>4. dl[d].target = s /\ dl[d].status \in {"running", "cancelled"}
  BY <1>2 DEF Coordinated, RunsAgree
<1>5. /\ DOMAIN dl2 = Deliveries /\ dl2 = [e \in Deliveries |-> dl2[e]]
      /\ dl2[d] = WithStatus(dl[d], "running")
      /\ \A e \in Deliveries \ {d} : dl2[e] = dl[e]
  BY <1>1, <1>2, <1>b DEF Shape
<1>6. /\ dl2[d] \in Delivery /\ dl2[d].status = "running"
      /\ dl2[d].source = dl[d].source /\ dl2[d].target = dl[d].target
      /\ dl2[d].kind = dl[d].kind /\ dl2[d].about = dl[d].about
      /\ dl2[d].asked = dl[d].asked
  <2>1. "running" \in Active \cup Final
    BY DEF Active
  <2> QED BY ONLY <1>3, <1>5, <2>1, StatusChange
<1>7. Restated(dl, dl2)
  <2>1. \A e \in Deliveries :
           \/ dl2[e] = dl[e]
           \/ /\ e \in MadeIn(dl) /\ dl2[e] \in Delivery
              /\ dl2[e].source = dl[e].source /\ dl2[e].target = dl[e].target
              /\ dl2[e].kind = dl[e].kind /\ dl2[e].about = dl[e].about
              /\ dl2[e].asked = dl[e].asked
    BY <1>2, <1>5, <1>6
  <2>2. dl \in [Deliveries -> Delivery \cup {Unmade}]
    BY <1>1 DEF Shape
  <2> QED BY ONLY <2>1, <2>2, <1>5, Restating
<1>8. /\ MadeIn(dl2) = MadeIn(dl)
      /\ \A e \in MadeIn(dl) : e \in Deliveries
  BY <1>7 DEF Restated, MadeIn
<1>9. Shape(dl2, rec, q, run, nt2)
  BY <1>1, <1>2, <1>7, <1>8 DEF Shape, Restated
<1>10. Placed(dl2, rec, q, run)
  BY <1>4, <1>5, <1>6, <1>8 DEF Coordinated, Placed
<1>11. QueuesAgree(dl2, q)
  <2> SUFFICES ASSUME NEW t \in Sessions
               PROVE  /\ IsInjective(q[t])
                      /\ \A e \in Range(q[t]) : /\ e \in MadeIn(dl2)
                            /\ dl2[e].status = "queued" /\ dl2[e].target = t
    BY DEF QueuesAgree
  <2>1. /\ IsInjective(q[t])
        /\ \A e \in Range(q[t]) : /\ e \in MadeIn(dl)
              /\ dl[e].status = "queued" /\ dl[e].target = t
    BY DEF Coordinated, QueuesAgree
  <2>2. \A e \in Range(q[t]) : e # d
    BY <2>1, <1>4
  <2> QED BY <2>1, <2>2, <1>5, <1>8
<1>12. RunsAgree(dl2, run)
  BY <1>5, <1>6, <1>8 DEF Coordinated, RunsAgree
<1>13. NotifyIsOpen(dl2, nt2)
  <2>1. \A e \in nt : /\ e \in MadeIn(dl) /\ dl[e].kind = "message" /\ dl[e].asked
                       /\ dl[e].status \in Active
    BY DEF Coordinated, NotifyIsOpen
  <2>2. \A e \in nt2 : e \in MadeIn(dl) /\ dl[e].kind = "message" /\ dl[e].asked
    BY <2>1, <1>2
  <2>3. \A e \in nt2 \ {d} : dl2[e] = dl[e] /\ dl[e].status \in Active
    BY <2>1, <1>5, <1>8
  <2>4. dl2[d].status \in Active
    BY <1>6 DEF Active
  <2> QED BY <2>2, <2>3, <2>4, <1>6, <1>8 DEF NotifyIsOpen
<1>14. Reported(dl2, run)
  <2>1. Reported(dl, run)
    BY DEF Coordinated
  <2>2. ASSUME NEW e \in MadeIn(dl), dl[e].status \in Final, run[dl[e].target] # e
        PROVE  dl2[e].status \in Final
    BY <2>2, <1>4, <1>5, <1>8
  <2> QED BY <2>1, <2>2, <1>7, ReportedKept
<1>15. Forward(dl, dl2)
  BY <1>4, <1>5, <1>6, <1>7, <1>8 DEF Forward, Restated
<1>16. Coordinated(dl2, rec, q, run, nt2)
  BY <1>9, <1>10, <1>11, <1>12, <1>13, <1>14 DEF Coordinated
<1> QED BY <1>15, <1>16

=============================================================================
