------------------------ MODULE KernelStateSyncProofs ------------------------
(***************************************************************************)
(* What KernelStateSync guarantees for every bound, batch size, queue cap, *)
(* set of acknowledgements and either kind of snapshot channel.            *)
(***************************************************************************)
EXTENDS KernelStateSync, SequenceTheorems, FiniteSetTheorems, TLAPS

USE BoundsAreNatural, BatchHoldsTwo, PendingIsPositive, OrderedIsBoolean

\* The patches that are queued are all ahead of the screen.
PendingIsAhead == \A p \in pending : applied < p

\* A settled acknowledgement is of a revision that has been applied.
SettledMeansApplied ==
  \A w \in Waiters : waiters[w].st = "resolved" => waiters[w].rev <= applied

\* The inductive invariant: together with the types, the screen is the prefix
\* up to appliedRevision, and queue and acknowledgements are on their side of it.
IInv ==
  /\ TypeOK
  /\ ViewIsPrefix
  /\ PendingIsAhead
  /\ SettledMeansApplied

-----------------------------------------------------------------------------
(* Lemmas on the operators                                                 *)

LEMMA RevisionGrows ==
  ASSUME revision \in Nat, revision' \in Nat, revision <= revision'
  PROVE  /\ Revision \subseteq Revision'
         /\ Event \subseteq Event'
         /\ Message \subseteq Message'
         /\ Fetch \subseteq Fetch'
         /\ Waiter \subseteq Waiter'
<1>1. Revision \subseteq Revision'
  BY DEF Revision
<1>2. Event \subseteq Event'
  BY <1>1 DEF Event, Revision
<1>3. Seq(Event) \subseteq Seq(Event')
  BY <1>2, SeqMonotonic
<1>4. Message \subseteq Message'
  BY <1>1, <1>3 DEF Message
<1>5. Fetch \subseteq Fetch' /\ Waiter \subseteq Waiter'
  BY <1>1 DEF Fetch, Waiter
<1> QED BY <1>1, <1>2, <1>4, <1>5

LEMMA FaultType ==
  ASSUME NEW k \in FaultKind, faults \in [FaultKind -> Nat], Fault(k)
  PROVE  faults' \in [FaultKind -> Nat]
BY DEF Fault

LEMMA TransmitType ==
  ASSUME NEW M, NEW messages \in Seq(M), channel \in Seq(M),
         faults \in [FaultKind -> Nat], Transmit(messages)
  PROVE  channel' \in Seq(M) /\ faults' \in [FaultKind -> Nat]
<1>1. channel \o messages \in Seq(M)
  BY ConcatProperties
<1> QED BY <1>1, FaultType DEF Transmit, FaultKind

LEMMA FlushedType ==
  ASSUME revision \in Nat, NEW events \in Seq(Event)
  PROVE  Flushed(events) \in Seq(Message)
<1>1. StateMessage(events) \in Message
  BY DEF StateMessage, Message, Revision
<1> QED BY <1>1 DEF Flushed

LEMMA EmptyOutbox == <<>> \in Seq(Event) /\ Len(<<>>) < MaxBatch
BY EmptySeq

\* The run that follows r is a queue the flush can apply without a hole.
LEMMA RunIsSubset ==
  ASSUME NEW r, NEW revs
  PROVE  RunFrom(r, revs) \subseteq revs
BY DEF RunFrom

LEMMA ResyncingType ==
  ASSUME revision \in Nat, NEW fs \in [FetchId -> Fetch]
  PROVE  Resyncing(fs) \in [FetchId -> Fetch]
BY DEF Resyncing, Asked, Fetch, FetchId, Revision

LEMMA SettledType ==
  ASSUME revision \in Nat, fetch \in [FetchId -> Fetch],
         NEW f \in FetchId, NEW gap \in BOOLEAN
  PROVE  Settled(f, gap) \in [FetchId -> Fetch]
<1> DEFINE rest == [fetch EXCEPT ![f] = NoFetch]
<1>1. rest \in [FetchId -> Fetch]
  BY DEF NoFetch, Fetch, Revision
<1> QED BY <1>1, ResyncingType DEF Settled

LEMMA ResolveProperties ==
  ASSUME NEW r \in Int, NEW ws \in [Waiters -> Waiter]
  PROVE  /\ Resolve(ws, r) \in [Waiters -> Waiter]
         /\ \A w \in Waiters :
              /\ Resolve(ws, r)[w].rev = ws[w].rev
              /\ Resolve(ws, r)[w].st = "resolved" =>
                   ws[w].st = "resolved" \/ ws[w].rev <= r
BY DEF Resolve, Waiter

LEMMA EndResyncProperties ==
  ASSUME NEW ws \in [Waiters -> Waiter]
  PROVE  /\ EndResync(ws) \in [Waiters -> Waiter]
         /\ \A w \in Waiters :
              /\ EndResync(ws)[w].rev = ws[w].rev
              /\ EndResync(ws)[w].st = "resolved" => ws[w].st = "resolved"
BY DEF EndResync, Waiter

\* A subset of the queue stays under its cap.
LEMMA PendingShrinks ==
  ASSUME NEW n \in Nat, NEW P \in SUBSET (0..n), NEW Q \in SUBSET P,
         Cardinality(P) <= MaxPending
  PROVE  Cardinality(Q) <= MaxPending
<1>0. IsFiniteSet(0..n)
  BY FS_Interval
<1>1. IsFiniteSet(P)
  BY <1>0, FS_Subset
<1>2. IsFiniteSet(Q) /\ Cardinality(Q) <= Cardinality(P)
  BY <1>1, FS_Subset
<1>3. Cardinality(P) \in Nat /\ Cardinality(Q) \in Nat
  BY <1>1, <1>2, FS_CardinalityType
<1> QED BY <1>2, <1>3

-----------------------------------------------------------------------------
(* Every step keeps the invariant                                          *)

LEMMA InitEstablishes == Init => IInv
<1> SUFFICES ASSUME Init PROVE IInv
  OBVIOUS
<1> USE DEF Init
<1>1. outbox \in Seq(Event) /\ Len(outbox) < MaxBatch /\ inbox \in Seq(Event)
  BY EmptySeq
<1>2. channel \in Seq(Message)
  BY EmptySeq
<1>3. fetch \in [FetchId -> Fetch]
  BY DEF Fetch, Asked, NoFetch, Revision
<1>4. waiters \in [Waiters -> Waiter]
  BY DEF Waiter, Revision
<1>5. Cardinality(pending) <= MaxPending
  BY FS_EmptySet
<1>6. faults \in [FaultKind -> Nat]
  OBVIOUS
<1>7. /\ revision \in 0..MaxRevision /\ timer \in BOOLEAN
      /\ applied \in Revision \cup {-1} /\ view \in SUBSET Revision
      /\ pending \in SUBSET (Revision \ {0})
      /\ frame \in BOOLEAN /\ disposed \in BOOLEAN
  <2>1. revision \in 0..MaxRevision
    BY SMT
  <2>2. applied \in Revision \cup {-1}
    OBVIOUS
  <2>3. timer \in BOOLEAN /\ frame \in BOOLEAN /\ disposed \in BOOLEAN
    OBVIOUS
  <2>4. view \in SUBSET Revision /\ pending \in SUBSET (Revision \ {0})
    OBVIOUS
  <2> QED BY <2>1, <2>2, <2>3, <2>4
<1>8. TypeOK
  BY ONLY <1>1, <1>2, <1>3, <1>4, <1>5, <1>6, <1>7 DEF TypeOK
<1>9. ViewIsPrefix /\ PendingIsAhead /\ SettledMeansApplied
  BY DEF ViewIsPrefix, PendingIsAhead, SettledMeansApplied
<1> QED BY <1>8, <1>9 DEF IInv

\* What the Kernel side may change: events and replies of revisions it has
\* reached, and nothing of the barrier.
LEMMA KernelSide ==
  ASSUME IInv,
         revision' \in 0..MaxRevision, revision <= revision',
         outbox' \in Seq(Event'), Len(outbox') < MaxBatch, timer' \in BOOLEAN,
         channel' \in Seq(Message'), fetch' \in [FetchId -> Fetch'],
         inbox' \in Seq(Event'), faults' \in [FaultKind -> Nat],
         UNCHANGED barrierVars
  PROVE  IInv'
<1> USE DEF IInv, barrierVars
<1>1. /\ Revision \subseteq Revision'
      /\ Waiter \subseteq Waiter'
  <2>1. revision \in Nat /\ revision' \in Nat
    BY DEF TypeOK
  <2> QED BY <2>1, RevisionGrows
<1>2. /\ applied' \in Revision' \cup {-1}
      /\ view' \in SUBSET Revision'
      /\ pending' \in SUBSET (Revision' \ {0})
      /\ waiters' \in [Waiters -> Waiter']
  BY <1>1 DEF TypeOK
<1>3. TypeOK'
  BY <1>2 DEF TypeOK
<1>4. ViewIsPrefix' /\ PendingIsAhead' /\ SettledMeansApplied'
  BY DEF ViewIsPrefix, PendingIsAhead, SettledMeansApplied
<1> QED BY <1>3, <1>4

LEMMA PublishKeeps ==
  ASSUME IInv, NEW full \in BOOLEAN, PublishEvent(full)
  PROVE  IInv'
<1> USE DEF IInv
<1> DEFINE event == [full |-> full, rev |-> revision']
           queued == Append(IF event.full THEN <<>> ELSE outbox, event)
<1>1. revision \in Nat /\ revision' = revision + 1 /\ revision' \in 0..MaxRevision
  BY DEF PublishEvent, TypeOK
<1>2. /\ Revision \subseteq Revision' /\ Event \subseteq Event'
      /\ Message \subseteq Message' /\ Fetch \subseteq Fetch'
  BY <1>1, RevisionGrows
<1>3. event \in Event'
  BY <1>1 DEF Event, Revision
<1>4. outbox \in Seq(Event') /\ inbox \in Seq(Event') /\ channel \in Seq(Message')
  BY <1>2, SeqMonotonic DEF TypeOK
<1>5. queued \in Seq(Event')
  <2>1. (IF event.full THEN <<>> ELSE outbox) \in Seq(Event')
    BY <1>4, EmptySeq
  <2> QED BY <1>3, <2>1, AppendProperties
<1>6. Flushed(queued) \in Seq(Message')
  <2>1. StateMessage(queued) \in Message'
    BY <1>1, <1>5 DEF StateMessage, Message, Revision
  <2> QED BY <2>1 DEF Flushed
<1>7. /\ outbox' \in Seq(Event') /\ Len(outbox') < MaxBatch
      /\ timer' \in BOOLEAN
      /\ channel' \in Seq(Message') /\ faults' \in [FaultKind -> Nat]
  <2>0. Forward(event)
    BY DEF PublishEvent
  <2>1. CASE /\ Len(queued) >= MaxBatch /\ outbox' = <<>> /\ timer' = FALSE
             /\ Transmit(Flushed(queued))
    <3>1. faults \in [FaultKind -> Nat]
      BY DEF TypeOK
    <3>2. channel' \in Seq(Message') /\ faults' \in [FaultKind -> Nat]
      <4> HIDE DEF queued
      <4> QED BY <1>4, <1>6, <2>1, <3>1, TransmitType
    <3>3. <<>> \in Seq(Event') /\ Len(<<>>) < MaxBatch
      BY EmptySeq
    <3> HIDE DEF queued
    <3> QED BY <2>1, <3>2, <3>3
  <2>2. CASE /\ Len(queued) < MaxBatch /\ outbox' = queued /\ timer' = TRUE
             /\ UNCHANGED <<channel, faults>>
    BY <1>4, <1>5, <2>2 DEF TypeOK
  <2> QED BY <2>0, <2>1, <2>2 DEF Forward
<1>8. fetch' \in [FetchId -> Fetch'] /\ inbox' \in Seq(Event') /\ UNCHANGED barrierVars
  BY <1>2, <1>4 DEF PublishEvent, TypeOK
<1> QED BY <1>1, <1>7, <1>8, KernelSide

LEMMA DomainKeeps ==
  ASSUME IInv, EmitDomain
  PROVE  IInv'
<1> USE DEF IInv
<1>1. revision \in Nat /\ revision' = revision /\ revision' \in 0..MaxRevision
  BY DEF EmitDomain, TypeOK
<1>2. Event' = Event /\ Message' = Message /\ Fetch' = Fetch
  BY <1>1 DEF Event, Message, Fetch, Revision
<1>3. DomainMessage \in Message
  BY <1>1, EmptySeq DEF DomainMessage, Message, Revision
<1>4. Flushed(outbox) \in Seq(Message)
  BY <1>1, FlushedType DEF TypeOK
<1>5. /\ Append(Flushed(outbox), DomainMessage) \in Seq(Message)
      /\ Append(channel, DomainMessage) \in Seq(Message)
      /\ channel \o Flushed(outbox) \in Seq(Message)
  BY <1>3, <1>4, AppendProperties, ConcatProperties DEF TypeOK
<1>6. channel' \in Seq(Message) /\ faults' \in [FaultKind -> Nat]
  <2>1. CASE Transmit(Append(Flushed(outbox), DomainMessage))
    BY <1>5, <2>1, TransmitType DEF TypeOK
  <2>2. CASE Fault("lost") /\ channel' = Append(channel, DomainMessage)
    BY <1>5, <2>2, FaultType DEF TypeOK, FaultKind
  <2>3. CASE Fault("lost") /\ channel' = channel \o Flushed(outbox)
    BY <1>5, <2>3, FaultType DEF TypeOK, FaultKind
  <2> QED BY <2>1, <2>2, <2>3 DEF EmitDomain
<1>7. /\ outbox' \in Seq(Event) /\ Len(outbox') < MaxBatch /\ timer' \in BOOLEAN
      /\ fetch' \in [FetchId -> Fetch] /\ inbox' \in Seq(Event)
      /\ UNCHANGED barrierVars
  BY EmptyOutbox DEF EmitDomain, TypeOK
<1> QED BY <1>1, <1>2, <1>6, <1>7, KernelSide

LEMMA FlushKeeps ==
  ASSUME IInv, FlushTimer
  PROVE  IInv'
<1> USE DEF IInv
<1>1. revision \in Nat /\ revision' = revision /\ revision' \in 0..MaxRevision
  BY DEF FlushTimer, TypeOK
<1>2. Event' = Event /\ Message' = Message /\ Fetch' = Fetch
  BY <1>1 DEF Event, Message, Fetch, Revision
<1>3. Flushed(outbox) \in Seq(Message)
  BY <1>1, FlushedType DEF TypeOK
<1>4. channel' \in Seq(Message) /\ faults' \in [FaultKind -> Nat]
  BY <1>3, TransmitType DEF FlushTimer, TypeOK
<1>5. /\ outbox' \in Seq(Event) /\ Len(outbox') < MaxBatch /\ timer' \in BOOLEAN
      /\ fetch' \in [FetchId -> Fetch] /\ inbox' \in Seq(Event)
      /\ UNCHANGED barrierVars
  BY EmptyOutbox DEF FlushTimer, TypeOK
<1> QED BY <1>1, <1>2, <1>4, <1>5, KernelSide

LEMMA AnswerKeeps ==
  ASSUME IInv, NEW f \in FetchId, AnswerFetch(f)
  PROVE  IInv'
<1> USE DEF IInv
<1>1. revision \in Nat /\ revision' = revision /\ revision' \in 0..MaxRevision
  BY DEF AnswerFetch, TypeOK, kernelVars
<1>2. Event' = Event /\ Message' = Message /\ Fetch' = Fetch
  BY <1>1 DEF Event, Message, Fetch, Revision
<1>3. Len(channel) \in Nat
  BY LenProperties DEF TypeOK
<1>4. fetch' \in [FetchId -> Fetch]
  BY <1>1, <1>3 DEF AnswerFetch, TypeOK, Fetch, Revision
<1> QED BY <1>1, <1>2, <1>4, KernelSide DEF AnswerFetch, TypeOK, kernelVars

LEMMA ReceiveKeeps ==
  ASSUME IInv, Receive
  PROVE  IInv'
<1> USE DEF IInv
<1>1. revision \in Nat /\ revision' = revision /\ revision' \in 0..MaxRevision
  BY DEF Receive, TypeOK, kernelVars
<1>2. Event' = Event /\ Message' = Message /\ Fetch' = Fetch
  BY <1>1 DEF Event, Message, Fetch, Revision
<1>3. Head(channel) \in Message /\ channel' \in Seq(Message)
  BY HeadTailProperties DEF Receive, TypeOK
<1>4. inbox' \in Seq(Event)
  BY <1>3, EmptySeq DEF Receive, Message
<1>5. fetch' \in [FetchId -> Fetch]
  <2>1. \A f \in FetchId :
          (IF fetch[f].ahead > 0 THEN [fetch[f] EXCEPT !.ahead = @ - 1] ELSE fetch[f])
            \in Fetch
    <3> SUFFICES ASSUME NEW f \in FetchId
                 PROVE  (IF fetch[f].ahead > 0
                         THEN [fetch[f] EXCEPT !.ahead = @ - 1] ELSE fetch[f]) \in Fetch
      OBVIOUS
    <3>1. fetch[f] \in Fetch
      BY DEF TypeOK
    <3>2. CASE fetch[f].ahead > 0
      <4>1. fetch[f].ahead - 1 \in Nat
        BY <3>1, <3>2 DEF Fetch
      <4>2. [fetch[f] EXCEPT !.ahead = fetch[f].ahead - 1] \in Fetch
        BY <3>1, <4>1 DEF Fetch
      <4> QED BY <3>2, <4>2
    <3>3. CASE ~(fetch[f].ahead > 0)
      BY <3>1, <3>3
    <3> QED BY <3>2, <3>3
  <2> QED BY <2>1 DEF Receive
<1> QED BY <1>1, <1>2, <1>3, <1>4, <1>5, KernelSide DEF Receive, TypeOK, kernelVars

\* What the barrier may change: its own variables and the snapshot requests.
LEMMA BarrierSide ==
  ASSUME IInv, UNCHANGED <<kernelVars, channel>>,
         fetch' \in [FetchId -> Fetch], inbox' \in Seq(Event),
         applied' \in Revision \cup {-1}, view' \in SUBSET Revision,
         pending' \in SUBSET (Revision \ {0}),
         Cardinality(pending') <= MaxPending,
         frame' \in BOOLEAN, disposed' \in BOOLEAN,
         waiters' \in [Waiters -> Waiter], faults' \in [FaultKind -> Nat],
         ViewIsPrefix', PendingIsAhead', SettledMeansApplied'
  PROVE  IInv'
<1>1. revision' = revision /\ outbox' = outbox /\ timer' = timer /\ channel' = channel
  BY DEF kernelVars
<1>2. /\ Event' = Event /\ Message' = Message /\ Fetch' = Fetch
      /\ Revision' = Revision /\ Waiter' = Waiter
  BY <1>1 DEF Event, Message, Fetch, Revision, Waiter
<1>3. TypeOK'
  BY <1>1, <1>2 DEF IInv, TypeOK
<1> QED BY <1>3 DEF IInv

\* What an outcome of a snapshot request may change besides adopting it.
LEMMA WaitersOnly ==
  ASSUME IInv, UNCHANGED <<kernelVars, channel, applied, view, pending, frame>>,
         fetch' \in [FetchId -> Fetch], inbox' \in Seq(Event),
         disposed' \in BOOLEAN, faults' \in [FaultKind -> Nat],
         waiters' \in [Waiters -> Waiter],
         \A w \in Waiters :
           /\ waiters'[w].rev = waiters[w].rev
           /\ waiters'[w].st = "resolved" => waiters[w].st = "resolved"
  PROVE  IInv'
<1>1. SettledMeansApplied'
  BY DEF IInv, SettledMeansApplied
<1> QED BY <1>1, BarrierSide DEF IInv, TypeOK, ViewIsPrefix, PendingIsAhead

\* Adopting revision r as a whole: a full state or a snapshot.
LEMMA AdoptRevision ==
  ASSUME IInv, NEW r \in Revision, ~Initialized \/ r >= applied,
         applied' = r, view' = 1..r,
         NEW P \in SUBSET pending, \A p \in P : p > r, pending' = P,
         waiters' \in [Waiters -> Waiter],
         \A w \in Waiters :
           /\ waiters'[w].rev = waiters[w].rev
           /\ waiters'[w].st = "resolved" =>
                waiters[w].st = "resolved" \/ waiters[w].rev <= r
  PROVE  /\ applied' \in Revision \cup {-1} /\ view' \in SUBSET Revision
         /\ pending' \in SUBSET (Revision \ {0})
         /\ Cardinality(pending') <= MaxPending
         /\ ViewIsPrefix' /\ PendingIsAhead' /\ SettledMeansApplied'
<1>1. revision \in Nat /\ Revision = 0..revision
  BY DEF IInv, TypeOK, Revision
<1>2. applied \in Int /\ applied <= r
  BY <1>1 DEF IInv, TypeOK, Initialized
<1>3. Cardinality(pending') <= MaxPending
  BY <1>1, PendingShrinks DEF IInv, TypeOK
<1>4. view' \in SUBSET Revision /\ pending' \in SUBSET (Revision \ {0})
  BY <1>1 DEF IInv, TypeOK
<1>5. ViewIsPrefix' /\ PendingIsAhead'
  BY <1>1, <1>4 DEF ViewIsPrefix, PendingIsAhead
<1>6. SettledMeansApplied'
  BY <1>1, <1>2 DEF IInv, TypeOK, Waiter, SettledMeansApplied
<1> QED BY <1>3, <1>4, <1>5, <1>6

LEMMA CommitKeeps ==
  ASSUME IInv, NEW r \in Revision, CommitState(r)
  PROVE  /\ applied' \in Revision \cup {-1} /\ view' \in SUBSET Revision
         /\ pending' \in SUBSET (Revision \ {0})
         /\ Cardinality(pending') <= MaxPending
         /\ frame' \in BOOLEAN /\ waiters' \in [Waiters -> Waiter]
         /\ ViewIsPrefix' /\ PendingIsAhead' /\ SettledMeansApplied'
<1>1. CASE UNCHANGED <<applied, view, pending, frame, waiters>>
  BY <1>1 DEF IInv, TypeOK, ViewIsPrefix, PendingIsAhead, SettledMeansApplied
<1>2. CASE /\ ~Initialized \/ r >= applied
           /\ applied' = r /\ view' = 1..r
           /\ pending' = {p \in pending : p > r} /\ frame' = (pending' # {})
           /\ waiters' = Resolve(waiters, r)
  <2>1. r \in Int /\ waiters \in [Waiters -> Waiter]
    BY DEF IInv, TypeOK, Revision
  <2>2. /\ waiters' \in [Waiters -> Waiter]
        /\ \A w \in Waiters :
             /\ waiters'[w].rev = waiters[w].rev
             /\ waiters'[w].st = "resolved" =>
                  waiters[w].st = "resolved" \/ waiters[w].rev <= r
    BY <1>2, <2>1, ResolveProperties
  <2>3. pending' \in SUBSET pending /\ \A p \in pending' : p > r
    BY <1>2
  <2>4. frame' \in BOOLEAN
    BY <1>2
  <2> QED BY <1>2, <2>2, <2>3, <2>4, AdoptRevision
<1> QED BY <1>1, <1>2 DEF CommitState

LEMMA QueueKeeps ==
  ASSUME IInv, NEW r \in Revision \ {0}, QueuePatch(r)
  PROVE  /\ fetch' \in [FetchId -> Fetch]
         /\ pending' \in SUBSET (Revision \ {0})
         /\ Cardinality(pending') <= MaxPending
         /\ frame' \in BOOLEAN
         /\ UNCHANGED <<applied, view, waiters>>
         /\ PendingIsAhead'
<1>0. revision \in Nat /\ applied \in Int /\ Revision = 0..revision
  BY DEF IInv, TypeOK, Revision
<1>1. Resyncing(fetch) \in [FetchId -> Fetch]
  BY <1>0, ResyncingType DEF IInv, TypeOK
<1>2. UNCHANGED <<applied, view, waiters>>
  BY DEF QueuePatch
<1>3. CASE (~Initialized \/ applied < r) /\ StorePending(r)
  <2>1. CASE /\ r \in pending \/ Cardinality(pending) < MaxPending
             /\ pending' = pending \cup {r} /\ frame' = Initialized
             /\ UNCHANGED fetch
    <3>1. applied < r
      BY <1>0, <1>3 DEF Initialized
    <3>2. IsFiniteSet(pending) /\ Cardinality(pending) \in Nat
      <4>1. IsFiniteSet(0..revision)
        BY <1>0, FS_Interval
      <4>2. pending \in SUBSET (0..revision)
        BY <1>0 DEF IInv, TypeOK
      <4>3. IsFiniteSet(pending)
        BY <4>1, <4>2, FS_Subset
      <4> QED BY <4>3, FS_CardinalityType
    <3>3. Cardinality(pending') <= MaxPending
      <4>1. Cardinality(pending \cup {r}) =
              IF r \in pending THEN Cardinality(pending) ELSE Cardinality(pending) + 1
        BY <3>2, FS_AddElement
      <4> QED BY <2>1, <3>2, <4>1 DEF IInv, TypeOK
    <3>4. pending' \in SUBSET (Revision \ {0}) /\ frame' \in BOOLEAN
      BY <2>1 DEF IInv, TypeOK, Initialized
    <3>5. PendingIsAhead' /\ fetch' \in [FetchId -> Fetch]
      BY <1>2, <2>1, <3>1 DEF IInv, TypeOK, PendingIsAhead
    <3> QED BY <1>2, <3>3, <3>4, <3>5
  <2>2. CASE pending' = {} /\ frame' = FALSE /\ fetch' = Resyncing(fetch)
    <3>1. Cardinality(pending') <= MaxPending
      BY <2>2, FS_EmptySet
    <3> QED BY <1>1, <1>2, <2>2, <3>1 DEF PendingIsAhead
  <2> QED BY <1>3, <2>1, <2>2 DEF StorePending
<1>4. CASE /\ pending' = pending /\ frame' = frame
           /\ fetch' = fetch \/ fetch' = Resyncing(fetch)
  BY <1>1, <1>2, <1>4 DEF IInv, TypeOK, PendingIsAhead
<1> QED BY <1>3, <1>4 DEF QueuePatch

-----------------------------------------------------------------------------
LEMMA HandleKeeps ==
  ASSUME IInv, HandleNext
  PROVE  IInv'
<1>0. revision \in Nat /\ inbox # <<>> /\ inbox \in Seq(Event)
  BY DEF IInv, TypeOK, HandleNext
<1>1. Head(inbox) \in Event /\ inbox' \in Seq(Event)
  BY <1>0, HeadTailProperties DEF HandleNext
<1>2. Head(inbox).rev \in Revision \ {0} /\ Head(inbox).rev \in Revision
  BY <1>1 DEF Event
<1>3. UNCHANGED <<kernelVars, channel, disposed, faults>>
  BY DEF HandleNext
<1>4. disposed' \in BOOLEAN /\ faults' \in [FaultKind -> Nat]
  BY <1>3 DEF IInv, TypeOK
<1>5. CASE CommitState(Head(inbox).rev) /\ UNCHANGED fetch
  <2>1. fetch' \in [FetchId -> Fetch]
    BY <1>5 DEF IInv, TypeOK
  <2> QED BY <1>1, <1>2, <1>3, <1>4, <1>5, <2>1, CommitKeeps, BarrierSide
<1>6. CASE QueuePatch(Head(inbox).rev)
  <2>1. UNCHANGED <<applied, view, waiters>>
    BY <1>2, <1>6, QueueKeeps
  <2>2. /\ applied' \in Revision \cup {-1} /\ view' \in SUBSET Revision
        /\ waiters' \in [Waiters -> Waiter]
        /\ ViewIsPrefix' /\ SettledMeansApplied'
    BY <2>1 DEF IInv, TypeOK, ViewIsPrefix, SettledMeansApplied
  <2> QED BY <1>1, <1>2, <1>3, <1>4, <1>6, <2>2, QueueKeeps, BarrierSide
<1> QED BY <1>5, <1>6 DEF HandleNext

\* The queue without a hole ends at its greatest revision and extends the
\* prefix on screen to it.
LEMMA RunExtendsPrefix ==
  ASSUME IInv, RunFrom(applied, pending) = pending,
         NEW r \in pending, \A p \in pending : p <= r
  PROVE  (1..applied) \cup pending = 1..r
<1>0. /\ revision \in Nat /\ applied \in Int /\ applied >= -1
      /\ pending \subseteq 1..revision /\ \A p \in pending : applied < p
  BY DEF IInv, TypeOK, Revision, PendingIsAhead
<1>1. (applied + 1)..r \subseteq pending
  BY DEF RunFrom
<1>2. (1..applied) \cup pending \subseteq 1..r
  BY <1>0
<1>3. ASSUME NEW i \in 1..r PROVE i \in (1..applied) \cup pending
  BY <1>0, <1>1
<1> QED BY <1>2, <1>3

LEMMA FrameKeeps ==
  ASSUME IInv, Frame
  PROVE  IInv'
<1>0. revision \in Nat /\ Revision = 0..revision
  BY DEF IInv, TypeOK, Revision
<1>1. UNCHANGED <<kernelVars, channel, inbox, disposed>> /\ frame' = FALSE
  BY DEF Frame
<1>2. inbox' \in Seq(Event) /\ frame' \in BOOLEAN /\ disposed' \in BOOLEAN
  BY <1>1 DEF IInv, TypeOK
<1>3. CASE ApplyPending
  <2>1. /\ fetch' \in [FetchId -> Fetch] /\ pending' = {}
        /\ pending' \in SUBSET (Revision \ {0}) /\ PendingIsAhead'
    BY <1>3 DEF ApplyPending, IInv, TypeOK, PendingIsAhead
  <2>2. Cardinality(pending') <= MaxPending
    BY <2>1, FS_EmptySet
  <2>3. ASSUME NEW r \in pending, \A p \in pending : p <= r,
               applied' = r, waiters' = Resolve(waiters, r),
               view' = view \cup pending, UNCHANGED faults
        PROVE  IInv'
    <3>1. r \in Revision /\ r \in Int /\ applied \in Int /\ applied < r
      BY <1>0 DEF IInv, TypeOK, PendingIsAhead
    <3>2. view' = 1..r
      BY <1>3, <2>3, RunExtendsPrefix DEF ApplyPending, IInv, ViewIsPrefix
    <3>3. /\ waiters' \in [Waiters -> Waiter]
          /\ \A w \in Waiters :
               /\ waiters'[w].rev = waiters[w].rev
               /\ waiters'[w].st = "resolved" =>
                    waiters[w].st = "resolved" \/ waiters[w].rev <= r
      BY <2>3, <3>1, ResolveProperties DEF IInv, TypeOK
    <3>4. faults' \in [FaultKind -> Nat]
      BY <2>3 DEF IInv, TypeOK
    <3>5. {} \in SUBSET pending
      OBVIOUS
    <3>6. /\ applied' \in Revision \cup {-1} /\ view' \in SUBSET Revision
          /\ ViewIsPrefix' /\ SettledMeansApplied'
      <4>1. r >= applied /\ applied' = r /\ \A p \in {} : p > r
        BY <2>3, <3>1
      <4> QED BY <2>1, <3>1, <3>2, <3>3, <3>5, <4>1, AdoptRevision
    <3> QED BY <1>1, <1>2, <2>1, <2>2, <3>3, <3>4, <3>6, BarrierSide
  <2>4. CASE Fault("throw") /\ UNCHANGED <<applied, view, waiters>>
    <3>1. faults' \in [FaultKind -> Nat]
      BY <2>4, FaultType DEF IInv, TypeOK, FaultKind
    <3>2. /\ applied' \in Revision \cup {-1} /\ view' \in SUBSET Revision
          /\ waiters' \in [Waiters -> Waiter]
          /\ ViewIsPrefix' /\ SettledMeansApplied'
      BY <2>4 DEF IInv, TypeOK, ViewIsPrefix, SettledMeansApplied
    <3> QED BY <1>1, <1>2, <2>1, <2>2, <3>1, <3>2, BarrierSide
  <2> QED BY <1>3, <2>3, <2>4 DEF ApplyPending
<1>4. CASE FindHole
  <2>1. fetch' \in [FetchId -> Fetch]
    BY <1>0, <1>4, ResyncingType DEF FindHole, IInv, TypeOK
  <2>2. pending' \in SUBSET pending
    BY <1>4 DEF FindHole
  <2>3. Cardinality(pending') <= MaxPending
    BY <1>0, <2>2, PendingShrinks DEF IInv, TypeOK
  <2>4. /\ applied' \in Revision \cup {-1} /\ view' \in SUBSET Revision
        /\ waiters' \in [Waiters -> Waiter] /\ faults' \in [FaultKind -> Nat]
        /\ pending' \in SUBSET (Revision \ {0})
        /\ ViewIsPrefix' /\ PendingIsAhead' /\ SettledMeansApplied'
    BY <1>4, <2>2 DEF FindHole, IInv, TypeOK, ViewIsPrefix, PendingIsAhead,
                      SettledMeansApplied
  <2> QED BY <1>1, <1>2, <2>1, <2>3, <2>4, BarrierSide
<1> QED BY <1>3, <1>4 DEF Frame

LEMMA ArriveKeeps ==
  ASSUME IInv, NEW f \in FetchId, FetchArrives(f)
  PROVE  IInv'
<1>0. /\ revision \in Nat /\ fetch \in [FetchId -> Fetch]
      /\ waiters \in [Waiters -> Waiter]
  BY DEF IInv, TypeOK
<1>1. UNCHANGED <<kernelVars, channel, inbox, disposed, faults>>
  BY DEF FetchArrives
<1>2. inbox' \in Seq(Event) /\ disposed' \in BOOLEAN /\ faults' \in [FaultKind -> Nat]
  BY <1>1 DEF IInv, TypeOK
<1>3. CASE AdoptSnapshot(f)
  <2> DEFINE r == fetch[f].rev
             later == {p \in pending : p > r}
             run == RunFrom(r, later)
             ws == Resolve(waiters, r)
  <2>1. r \in Revision /\ r \in Int
    BY <1>0 DEF Fetch, Revision
  <2>2. /\ ~Initialized \/ r > applied
        /\ applied' = r /\ view' = 1..r /\ pending' = run /\ frame' = (run # {})
        /\ waiters' = (IF f = "resync" THEN EndResync(ws) ELSE ws)
        /\ fetch' = Settled(f, run # later)
    BY <1>3 DEF AdoptSnapshot
  <2> HIDE DEF r
  <2>3. fetch' \in [FetchId -> Fetch] /\ frame' \in BOOLEAN
    BY <1>0, <2>2, SettledType
  <2>4. run \subseteq later /\ run \in SUBSET pending /\ \A p \in run : p > r
    BY RunIsSubset
  <2>5. /\ ws \in [Waiters -> Waiter]
        /\ \A w \in Waiters :
             /\ ws[w].rev = waiters[w].rev
             /\ ws[w].st = "resolved" => waiters[w].st = "resolved" \/ waiters[w].rev <= r
    BY <1>0, <2>1, ResolveProperties
  <2> HIDE DEF ws, run, later
  <2>6. /\ waiters' \in [Waiters -> Waiter]
        /\ \A w \in Waiters :
             /\ waiters'[w].rev = waiters[w].rev
             /\ waiters'[w].st = "resolved" =>
                  waiters[w].st = "resolved" \/ waiters[w].rev <= r
    BY <2>2, <2>5, EndResyncProperties
  <2>7. ~Initialized \/ r >= applied
    BY <2>1, <2>2 DEF IInv, TypeOK, Revision
  <2>8. /\ applied' \in Revision \cup {-1} /\ view' \in SUBSET Revision
        /\ pending' \in SUBSET (Revision \ {0})
        /\ Cardinality(pending') <= MaxPending
        /\ ViewIsPrefix' /\ PendingIsAhead' /\ SettledMeansApplied'
    BY <2>1, <2>2, <2>4, <2>6, <2>7, AdoptRevision
  <2> QED BY <1>1, <1>2, <2>3, <2>6, <2>8, BarrierSide
<1>4. CASE IgnoreSnapshot(f)
  <2>1. fetch' \in [FetchId -> Fetch]
    BY <1>0, <1>4, SettledType DEF IgnoreSnapshot
  <2>2. /\ waiters' \in [Waiters -> Waiter]
        /\ \A w \in Waiters :
             /\ waiters'[w].rev = waiters[w].rev
             /\ waiters'[w].st = "resolved" => waiters[w].st = "resolved"
    BY <1>0, <1>4, EndResyncProperties DEF IgnoreSnapshot
  <2>3. UNCHANGED <<applied, view, pending, frame>>
    BY <1>4 DEF IgnoreSnapshot
  <2> QED BY <1>1, <1>2, <2>1, <2>2, <2>3, WaitersOnly
<1> QED BY <1>3, <1>4 DEF FetchArrives

LEMMA FailKeeps ==
  ASSUME IInv, NEW f \in FetchId, FetchFails(f)
  PROVE  IInv'
<1>0. /\ revision \in Nat /\ fetch \in [FetchId -> Fetch]
      /\ waiters \in [Waiters -> Waiter]
  BY DEF IInv, TypeOK
<1>1. fetch' \in [FetchId -> Fetch]
  BY <1>0, SettledType DEF FetchFails
<1>2. /\ waiters' \in [Waiters -> Waiter]
      /\ \A w \in Waiters :
           /\ waiters'[w].rev = waiters[w].rev
           /\ waiters'[w].st = "resolved" => waiters[w].st = "resolved"
  BY <1>0, EndResyncProperties DEF FetchFails
<1>3. faults' \in [FaultKind -> Nat]
  BY FaultType DEF FetchFails, IInv, TypeOK, FaultKind
<1>4. UNCHANGED <<kernelVars, channel, inbox, applied, view, pending, frame, disposed>>
  BY DEF FetchFails
<1>5. inbox' \in Seq(Event) /\ disposed' \in BOOLEAN
  BY <1>4 DEF IInv, TypeOK
<1> QED BY <1>1, <1>2, <1>3, <1>4, <1>5, WaitersOnly

LEMMA AckKeeps ==
  ASSUME IInv, NEW w \in Waiters, ReceiveAck(w)
  PROVE  IInv'
<1>0. revision \in Nat /\ waiters \in [Waiters -> Waiter] /\ Revision = 0..revision
  BY DEF IInv, TypeOK, Revision
<1>1. PICK r \in 0..revision :
        waiters' = [waiters EXCEPT ![w] =
         [st |-> IF disposed THEN "rejected"
                 ELSE IF applied >= r THEN "resolved" ELSE "waiting",
          rev |-> r]]
  BY DEF ReceiveAck
<1>2. waiters' \in [Waiters -> Waiter]
  BY <1>0, <1>1 DEF Waiter
<1>3. UNCHANGED <<kernelVars, channel, fetch, inbox, applied, view, pending,
                  frame, disposed, faults>>
  BY DEF ReceiveAck
<1>4. SettledMeansApplied'
  BY <1>0, <1>1, <1>3 DEF IInv, SettledMeansApplied
<1> QED BY <1>2, <1>3, <1>4, BarrierSide DEF IInv, TypeOK, ViewIsPrefix, PendingIsAhead

LEMMA TimeoutKeeps ==
  ASSUME IInv, NEW w \in Waiters, WaitTimeout(w)
  PROVE  IInv'
<1>0. revision \in Nat /\ waiters \in [Waiters -> Waiter]
  BY DEF IInv, TypeOK
<1>1. fetch' \in [FetchId -> Fetch]
  BY <1>0, ResyncingType DEF WaitTimeout, IInv, TypeOK
<1>2. /\ waiters' \in [Waiters -> Waiter]
      /\ \A v \in Waiters :
           /\ waiters'[v].rev = waiters[v].rev
           /\ waiters'[v].st = "resolved" => waiters[v].st = "resolved"
  BY <1>0 DEF WaitTimeout, Waiter
<1>3. UNCHANGED <<kernelVars, channel, inbox, applied, view, pending, frame,
                  disposed, faults>>
  BY DEF WaitTimeout
<1> QED BY <1>1, <1>2, <1>3, WaitersOnly DEF IInv, TypeOK

LEMMA DisposeKeeps ==
  ASSUME IInv, Dispose
  PROVE  IInv'
<1>0. revision \in Nat /\ waiters \in [Waiters -> Waiter]
  BY DEF IInv, TypeOK
<1>1. waiters' \in [Waiters -> Waiter]
  BY <1>0 DEF Dispose, Waiter
<1>2. \A w \in Waiters :
        /\ waiters'[w].rev = waiters[w].rev
        /\ waiters'[w].st = "resolved" => waiters[w].st = "resolved"
  BY <1>0 DEF Dispose, Waiter
<1>3. Cardinality(pending') <= MaxPending
  BY FS_EmptySet DEF Dispose
<1>4. UNCHANGED <<kernelVars, channel, fetch, inbox, applied, view, faults>>
  BY DEF Dispose
<1>5. SettledMeansApplied'
  BY <1>2, <1>4 DEF IInv, SettledMeansApplied
<1> QED BY <1>1, <1>3, <1>4, <1>5, BarrierSide
        DEF Dispose, IInv, TypeOK, ViewIsPrefix, PendingIsAhead

LEMMA StepKeeps == IInv /\ [Next]_vars => IInv'
<1> SUFFICES ASSUME IInv, [Next]_vars PROVE IInv'
  OBVIOUS
<1>1. CASE UNCHANGED vars
  BY <1>1 DEF vars, kernelVars, barrierVars, IInv, TypeOK, ViewIsPrefix,
              PendingIsAhead, SettledMeansApplied, Event, Message, Fetch, Waiter,
              Revision
<1>2. CASE EmitState \/ EmitPatch
  BY <1>2, PublishKeeps DEF EmitState, EmitPatch
<1>3. CASE EmitDomain \/ FlushTimer \/ Receive
  BY <1>3, DomainKeeps, FlushKeeps, ReceiveKeeps
<1>4. CASE \E f \in FetchId : AnswerFetch(f) \/ FetchArrives(f) \/ FetchFails(f)
  BY <1>4, AnswerKeeps, ArriveKeeps, FailKeeps
<1>5. CASE HandleNext \/ Frame \/ Dispose
  BY <1>5, HandleKeeps, FrameKeeps, DisposeKeeps
<1>6. CASE \E w \in Waiters : ReceiveAck(w) \/ WaitTimeout(w)
  BY <1>6, AckKeeps, TimeoutKeeps
<1> QED BY <1>1, <1>2, <1>3, <1>4, <1>5, <1>6 DEF Next

THEOREM Inductive == Spec => []IInv
<1> QED BY InitEstablishes, StepKeeps, PTL DEF Spec

-----------------------------------------------------------------------------
(* Results                                                                 *)

\* Types hold, and with them the limits of the batch and of the patch queue:
\* the forwarder never holds a full batch back, and the barrier never queues
\* more than maxPendingPatches.
THEOREM TypesHold == Spec => []TypeOK
<1>1. IInv => TypeOK
  BY DEF IInv
<1> QED BY <1>1, Inductive, PTL

\* The Renderer always shows the Kernel's history up to appliedRevision, with
\* nothing missing, however events and snapshots are lost and interleaved.
THEOREM ViewIsAlwaysPrefix == Spec => []ViewIsPrefix
<1>1. IInv => ViewIsPrefix
  BY DEF IInv
<1> QED BY <1>1, Inductive, PTL

\* waitForAck() resolves only when the mutation's effect is on screen.
THEOREM SettledIsShown == Spec => []SettledMeansShown
<1>1. IInv => SettledMeansShown
  <2> SUFFICES ASSUME IInv, NEW w \in Waiters, waiters[w].st = "resolved"
               PROVE  1..waiters[w].rev \subseteq view
    BY DEF SettledMeansShown
  <2>1. waiters[w].rev <= applied /\ waiters[w].rev \in Int /\ applied \in Int
    BY DEF IInv, TypeOK, SettledMeansApplied, Waiter, Revision
  <2> QED BY <2>1 DEF IInv, ViewIsPrefix
<1> QED BY <1>1, Inductive, PTL

\* A step that moves the screen forward or not at all, and leaves settled
\* acknowledgements alone.
Forwards ==
  /\ applied' >= applied
  /\ \A w \in Waiters : waiters[w].st \in {"resolved", "rejected"} =>
       waiters'[w] = waiters[w]

\* resolveWaiters() and the end of a recovery touch open waiters only.
LEMMA SettledStay ==
  ASSUME NEW ws, NEW r, NEW w \in Waiters, ws[w].st \in {"resolved", "rejected"}
  PROVE  /\ Resolve(ws, r)[w] = ws[w]
         /\ EndResync(ws)[w] = ws[w]
BY DEF Resolve, EndResync

LEMMA StepForwards == IInv /\ Next => Forwards
<1> SUFFICES ASSUME IInv, Next PROVE Forwards
  OBVIOUS
<1>0. /\ revision \in Nat /\ applied \in Int /\ applied >= -1
      /\ waiters \in [Waiters -> Waiter]
  BY DEF IInv, TypeOK, Revision
<1>1. CASE UNCHANGED <<applied, waiters>>
  BY <1>0, <1>1 DEF Forwards
<1>2. ASSUME applied' = applied,
             waiters' = EndResync(waiters) \/ waiters' = waiters
      PROVE  Forwards
  BY <1>0, <1>2, SettledStay DEF Forwards
<1>3. CASE HandleNext
  <2>1. ASSUME Initialized => Head(inbox).rev >= applied,
               applied' = Head(inbox).rev,
               waiters' = Resolve(waiters, Head(inbox).rev)
        PROVE  Forwards
    <3>1. Head(inbox).rev \in Nat
      <4>1. Head(inbox) \in Event
        BY <1>3, HeadTailProperties DEF HandleNext, IInv, TypeOK
      <4> QED BY <1>0, <4>1 DEF Event, Revision
    <3>2. applied' >= applied
      BY <1>0, <2>1, <3>1 DEF Initialized
    <3> QED BY <2>1, <3>2, SettledStay DEF Forwards
  <2> QED BY <1>1, <1>3, <2>1 DEF HandleNext, CommitState, QueuePatch
<1>4. CASE Frame
  <2>1. ASSUME NEW r \in pending, applied' = r, waiters' = Resolve(waiters, r)
        PROVE  Forwards
    <3>1. r \in Int /\ applied < r
      BY <1>0 DEF IInv, TypeOK, PendingIsAhead, Revision
    <3> QED BY <1>0, <2>1, <3>1, SettledStay DEF Forwards
  <2> QED BY <1>1, <1>4, <2>1 DEF Frame, ApplyPending, FindHole
<1>5. ASSUME NEW f \in FetchId, FetchArrives(f) PROVE Forwards
  <2>1. CASE AdoptSnapshot(f)
    <3> DEFINE r == fetch[f].rev
               ws == Resolve(waiters, r)
    <3>1. r \in Nat
      BY <1>0 DEF IInv, TypeOK, Fetch, Revision
    <3>2. /\ ~Initialized \/ r > applied
          /\ applied' = r
          /\ waiters' = (IF f = "resync" THEN EndResync(ws) ELSE ws)
      BY <2>1 DEF AdoptSnapshot
    <3> HIDE DEF r
    <3>3. applied' >= applied
      BY <1>0, <3>1, <3>2 DEF Initialized
    <3>4. \A w \in Waiters : waiters[w].st \in {"resolved", "rejected"} =>
            ws[w] = waiters[w] /\ EndResync(ws)[w] = waiters[w]
      BY SettledStay
    <3> QED BY <3>2, <3>3, <3>4 DEF Forwards
  <2>2. CASE IgnoreSnapshot(f)
    BY <1>2, <2>2 DEF IgnoreSnapshot
  <2> QED BY <1>5, <2>1, <2>2 DEF FetchArrives
<1>6. ASSUME NEW f \in FetchId, FetchFails(f) PROVE Forwards
  BY <1>2, <1>6 DEF FetchFails
<1>7. ASSUME NEW w \in Waiters, ReceiveAck(w) \/ WaitTimeout(w) PROVE Forwards
  BY <1>0, <1>7 DEF ReceiveAck, WaitTimeout, Forwards
<1>8. CASE Dispose
  BY <1>0, <1>8 DEF Dispose, Forwards
<1>9. CASE EmitState \/ EmitPatch \/ EmitDomain \/ FlushTimer \/ Receive
  BY <1>1, <1>9 DEF EmitState, EmitPatch, PublishEvent, EmitDomain, FlushTimer,
                    Receive, barrierVars
<1>10. ASSUME NEW f \in FetchId, AnswerFetch(f) PROVE Forwards
  BY <1>1, <1>10 DEF AnswerFetch, barrierVars
<1> QED BY <1>3, <1>4, <1>5, <1>6, <1>7, <1>8, <1>9, <1>10 DEF Next

\* The screen never goes back to an earlier revision, and an acknowledgement
\* that has settled stays as it settled.
THEOREM NeverRegresses == Spec => NoRegress
<1>1. IInv /\ [Next]_vars => [Forwards]_vars
  BY StepForwards
<1> QED BY <1>1, Inductive, PTL DEF Spec, NoRegress, Forwards

LEMMA StepImplements == IInv /\ IInv' /\ [Next]_vars => [Replica!Next]_Replica!vars
<1> SUFFICES ASSUME IInv, IInv', [Next]_vars
             PROVE  [Replica!Next]_Replica!vars
  OBVIOUS
<1>0. /\ revision \in Nat /\ applied \in Int /\ applied' \in Int
      /\ applied' <= revision' /\ view = 1..applied /\ view' = 1..applied'
  BY DEF IInv, TypeOK, ViewIsPrefix, Revision
<1>1. CASE UNCHANGED vars
  BY <1>1 DEF vars, kernelVars, barrierVars, Replica!vars
<1>2. CASE EmitState \/ EmitPatch
  BY <1>2 DEF EmitState, EmitPatch, PublishEvent, barrierVars,
              Replica!Next, Replica!Publish
<1>3. CASE Next /\ revision' = revision
  <2>1. applied' >= applied
    BY <1>3, StepForwards DEF Forwards
  <2>2. CASE applied' = applied
    BY <1>0, <1>3, <2>2 DEF Replica!vars
  <2>3. CASE applied' # applied
    BY <1>0, <1>3, <2>1, <2>3 DEF Replica!Next, Replica!Advance
  <2> QED BY <2>2, <2>3
<1>4. Next => EmitState \/ EmitPatch \/ revision' = revision
  BY DEF Next, EmitDomain, FlushTimer, AnswerFetch, FetchArrives, FetchFails,
         Receive, HandleNext, Frame, ReceiveAck, WaitTimeout, Dispose, kernelVars
<1> QED BY <1>1, <1>2, <1>3, <1>4

\* Batches, frames, gaps and recoveries are invisible: the Kernel and the
\* Renderer together implement the replica of KernelReplica.
THEOREM DeliveryImplementsReplica == Spec => ImplementsReplica
<1>1. Init => Replica!Init
  BY DEF Init, Replica!Init
<1> QED BY <1>1, StepImplements, Inductive, PTL
        DEF Spec, ImplementsReplica, Replica!Spec

-----------------------------------------------------------------------------
(* Domain events as ordering barriers                                      *)

LEMMA FencedBatch ==
  ASSUME NEW ms \in Seq(Message), NEW es, Fenced(ms, es),
         NEW batch \in Seq(Event'), revision \in Nat,
         \A k \in 1..Len(batch) :
           batch[k].rev > revision \/ \E i \in 1..Len(es) : batch[k].rev = es[i].rev
  PROVE  Fenced(ms, batch)
<1> SUFFICES ASSUME NEW i \in 1..Len(ms), ms[i].type = "domain",
                    NEW k \in 1..Len(batch)
             PROVE  batch[k].rev > ms[i].rev
  BY DEF Fenced, After
<1>1. CASE batch[k].rev > revision
  <2>1. batch[k] \in Event' /\ ms[i] \in Message
    BY ElementOfSeq
  <2>2. ms[i].rev \in Nat /\ ms[i].rev <= revision /\ batch[k].rev \in Int
    BY <2>1 DEF Message, Event, Revision
  <2> QED BY <1>1, <2>2
<1>2. CASE \E j \in 1..Len(es) : batch[k].rev = es[j].rev
  BY <1>2 DEF Fenced, After
<1> QED BY <1>1, <1>2

LEMMA FencedFlush ==
  ASSUME NEW M, NEW ms \in Seq(M), NEW es, StateMessage(es) \in M, Fenced(ms, es)
  PROVE  Fenced(ms \o Flushed(es), <<>>)
<1>1. Fenced(ms, <<>>)
  BY DEF Fenced, After
<1>2. CASE es = <<>>
  BY <1>1, <1>2, ConcatEmptySeq DEF Flushed
<1>3. CASE es # <<>>
  <2> DEFINE m == StateMessage(es)
             all == Append(ms, m)
  <2>1. /\ ms \o Flushed(es) = all
        /\ Len(all) = Len(ms) + 1 /\ Len(ms) \in Nat
        /\ \A i \in 1..Len(ms) : all[i] = ms[i]
        /\ all[Len(ms) + 1] = m
    BY <1>3, AppendProperties, LenProperties, AppendIsConcat DEF Flushed
  <2>2. m.type = "state" /\ m.events = es
    BY DEF StateMessage
  <2> HIDE DEF m, all
  <2>3. ASSUME NEW i \in 1..Len(all), all[i].type = "domain"
        PROVE  \A j \in (i + 1)..Len(all) : After(all[j].events, all[i].rev)
    <3>1. i \in 1..Len(ms) /\ all[i] = ms[i]
      BY <2>1, <2>2, <2>3
    <3>2. \A j \in (i + 1)..Len(ms) : After(all[j].events, all[i].rev)
      BY <2>1, <2>3, <3>1 DEF Fenced
    <3>3. After(m.events, all[i].rev)
      BY <2>2, <2>3, <3>1 DEF Fenced
    <3> QED BY <2>1, <3>1, <3>2, <3>3
  <2>4. Fenced(all, <<>>)
    BY <2>3 DEF Fenced, After
  <2> QED BY <2>1, <2>4
<1> QED BY <1>2, <1>3

LEMMA FencedDomain ==
  ASSUME NEW ms \in Seq(Message), Fenced(ms, <<>>)
  PROVE  Fenced(Append(ms, DomainMessage), <<>>)
<1> DEFINE m == DomainMessage
           all == Append(ms, m)
<1>1. /\ Len(all) = Len(ms) + 1 /\ Len(ms) \in Nat
      /\ \A i \in 1..Len(ms) : all[i] = ms[i]
      /\ all[Len(ms) + 1] = m
  BY AppendProperties, LenProperties
<1>2. Len(m.events) = 0
  BY DEF DomainMessage
<1> HIDE DEF m, all
<1>3. ASSUME NEW i \in 1..Len(all), all[i].type = "domain"
      PROVE  \A j \in (i + 1)..Len(all) : After(all[j].events, all[i].rev)
  <2>1. After(m.events, all[i].rev)
    BY <1>2 DEF After
  <2>2. ASSUME NEW j \in (i + 1)..Len(ms)
        PROVE  After(all[j].events, all[i].rev)
    BY <1>1, <1>3 DEF Fenced
  <2> QED BY <1>1, <2>1, <2>2
<1>4. Fenced(all, <<>>)
  BY <1>3 DEF Fenced, After
<1> QED BY <1>4 DEF all, m

LEMMA FencedTail ==
  ASSUME NEW ms \in Seq(Message), ms # <<>>, NEW es, Fenced(ms, es)
  PROVE  Fenced(Tail(ms), es)
<1> DEFINE rest == Tail(ms)
<1>1. /\ Len(ms) \in Nat /\ Len(rest) = Len(ms) - 1
      /\ \A i \in 1..Len(rest) : rest[i] = ms[i + 1]
  BY HeadTailProperties, LenProperties
<1> HIDE DEF rest
<1>2. ASSUME NEW i \in 1..Len(rest), rest[i].type = "domain"
      PROVE  /\ \A j \in (i + 1)..Len(rest) : After(rest[j].events, rest[i].rev)
             /\ After(es, rest[i].rev)
  <2>1. i + 1 \in 1..Len(ms) /\ rest[i] = ms[i + 1]
    BY <1>1
  <2>2. \A j \in (i + 1)..Len(rest) :
          j + 1 \in (i + 2)..Len(ms) /\ rest[j] = ms[j + 1]
    BY <1>1
  <2>3. /\ After(es, ms[i + 1].rev)
        /\ \A j \in (i + 2)..Len(ms) : After(ms[j].events, ms[i + 1].rev)
    BY <1>1, <1>2, <2>1 DEF Fenced
  <2> QED BY <2>1, <2>2, <2>3
<1>3. Fenced(rest, es)
  BY <1>2 DEF Fenced
<1> QED BY <1>3 DEF rest

LEMMA TransmitFenced ==
  ASSUME NEW ms, Fenced(channel \o ms, <<>>), Fenced(channel, <<>>), Transmit(ms)
  PROVE  Fenced(channel', <<>>)
BY DEF Transmit

LEMMA PublishKeepsFence ==
  ASSUME IInv, DomainEventIsBarrier, NEW full \in BOOLEAN, PublishEvent(full)
  PROVE  DomainEventIsBarrier'
<1> DEFINE event == [full |-> full, rev |-> revision']
           base == IF event.full THEN <<>> ELSE outbox
           queued == Append(base, event)
<1>1. /\ revision \in Nat /\ revision' = revision + 1
      /\ channel \in Seq(Message) /\ Fenced(channel, outbox)
  BY DEF IInv, TypeOK, PublishEvent, DomainEventIsBarrier
<1>2. Event \subseteq Event' /\ Message \subseteq Message'
  BY <1>1, RevisionGrows
<1>3. event \in Event' /\ event.rev > revision
  BY <1>1 DEF Event, Revision
<1>4. base \in Seq(Event') /\ (base = <<>> \/ base = outbox)
  BY <1>2, SeqMonotonic, EmptySeq DEF IInv, TypeOK
<1>5. Forward(event)
  BY DEF PublishEvent
<1> HIDE DEF event, base
<1>6. /\ queued \in Seq(Event') /\ Len(queued) = Len(base) + 1 /\ Len(base) \in Nat
      /\ \A k \in 1..Len(base) : queued[k] = base[k]
      /\ queued[Len(base) + 1] = event
  BY <1>3, <1>4, AppendProperties, LenProperties
<1>7. Forward(event) <=>
        \/ /\ Len(queued) >= MaxBatch
           /\ outbox' = <<>>
           /\ timer' = FALSE
           /\ Transmit(Flushed(queued))
        \/ /\ Len(queued) < MaxBatch
           /\ outbox' = queued
           /\ timer' = TRUE
           /\ UNCHANGED <<channel, faults>>
  BY DEF Forward, base
<1> HIDE DEF queued
<1>8. Fenced(channel, queued)
  <2>1. \A k \in 1..Len(queued) :
          queued[k].rev > revision \/ \E i \in 1..Len(outbox) : queued[k].rev = outbox[i].rev
    BY <1>3, <1>4, <1>6
  <2> QED BY <1>1, <1>6, <2>1, FencedBatch
<1>9. CASE outbox' = queued /\ channel' = channel
  BY <1>8, <1>9 DEF DomainEventIsBarrier
<1>10. CASE outbox' = <<>> /\ Transmit(Flushed(queued))
  <2>1. StateMessage(queued) \in Message'
    BY <1>1, <1>6 DEF StateMessage, Message, Revision
  <2>2. Fenced(channel \o Flushed(queued), <<>>)
    <3>1. channel \in Seq(Message')
      BY <1>1, <1>2, SeqMonotonic
    <3> QED BY <1>8, <2>1, <3>1, FencedFlush
  <2>3. Fenced(channel, <<>>)
    BY <1>8 DEF Fenced, After
  <2>4. Fenced(channel', <<>>)
    BY <1>10, <2>2, <2>3, TransmitFenced
  <2> QED BY <1>10, <2>4 DEF DomainEventIsBarrier
<1> QED BY <1>5, <1>7, <1>9, <1>10

LEMMA StepKeepsFence == IInv /\ DomainEventIsBarrier /\ [Next]_vars => DomainEventIsBarrier'
<1> SUFFICES ASSUME IInv, DomainEventIsBarrier, [Next]_vars
             PROVE  DomainEventIsBarrier'
  OBVIOUS
<1>0. /\ revision \in Nat /\ channel \in Seq(Message) /\ outbox \in Seq(Event)
      /\ Fenced(channel, outbox) /\ Fenced(channel, <<>>)
  BY DEF IInv, TypeOK, DomainEventIsBarrier, Fenced, After
<1>1. CASE UNCHANGED <<channel, outbox>>
  BY <1>1 DEF DomainEventIsBarrier
<1>2. CASE EmitState \/ EmitPatch
  BY <1>2, PublishKeepsFence DEF EmitState, EmitPatch
<1>3. Flushed(outbox) \in Seq(Message) /\ StateMessage(outbox) \in Message
  <2>1. Flushed(outbox) \in Seq(Message)
    BY <1>0, FlushedType
  <2>2. StateMessage(outbox) \in Message
    BY <1>0 DEF StateMessage, Message, Revision
  <2> QED BY <2>1, <2>2
<1>4. Fenced(channel \o Flushed(outbox), <<>>)
  BY <1>0, <1>3, FencedFlush
<1>5. CASE FlushTimer
  BY <1>0, <1>4, <1>5, TransmitFenced DEF FlushTimer, DomainEventIsBarrier
<1>6. CASE EmitDomain
  <2> DEFINE flushed == channel \o Flushed(outbox)
  <2>1. flushed \in Seq(Message) /\ DomainMessage \in Message
    BY <1>0, <1>3, ConcatProperties, EmptySeq DEF DomainMessage, Message, Revision
  <2>2. channel \o Append(Flushed(outbox), DomainMessage) = Append(flushed, DomainMessage)
    <3>1. /\ Append(Flushed(outbox), DomainMessage) = Flushed(outbox) \o <<DomainMessage>>
          /\ Append(flushed, DomainMessage) = flushed \o <<DomainMessage>>
      BY <1>3, <2>1, AppendIsConcat
    <3>2. <<DomainMessage>> \in Seq(Message)
      BY <2>1
    <3> QED BY <1>0, <1>3, <3>1, <3>2, ConcatAssociative
  <2>3. Fenced(channel \o Append(Flushed(outbox), DomainMessage), <<>>)
    <3>1. Fenced(flushed, <<>>)
      BY <1>4
    <3> HIDE DEF flushed
    <3> QED BY <2>1, <2>2, <3>1, FencedDomain
  <2>4. Fenced(Append(channel, DomainMessage), <<>>)
    BY <1>0, FencedDomain
  <2>5. CASE Transmit(Append(Flushed(outbox), DomainMessage))
    BY <1>0, <1>6, <2>3, <2>5, TransmitFenced DEF EmitDomain, DomainEventIsBarrier
  <2>6. CASE channel' = Append(channel, DomainMessage) \/ channel' = channel \o Flushed(outbox)
    BY <1>4, <1>6, <2>4, <2>6 DEF EmitDomain, DomainEventIsBarrier
  <2> QED BY <1>6, <2>5, <2>6 DEF EmitDomain
<1>7. CASE Receive
  BY <1>0, <1>7, FencedTail DEF Receive, kernelVars, DomainEventIsBarrier
<1> QED BY <1>1, <1>2, <1>5, <1>6, <1>7
        DEF vars, Next, AnswerFetch, FetchArrives, FetchFails, HandleNext, Frame,
            ReceiveAck, WaitTimeout, Dispose, kernelVars

\* A state event never overtakes a domain event emitted after it, whatever the
\* batch size and however many messages are lost.
THEOREM DomainEventsAreBarriers == Spec => []DomainEventIsBarrier
<1>1. Init => DomainEventIsBarrier
  BY DEF Init, DomainEventIsBarrier, Fenced
<1> QED BY <1>1, StepKeepsFence, Inductive, PTL DEF Spec
=============================================================================
