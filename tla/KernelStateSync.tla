--------------------------- MODULE KernelStateSync ---------------------------
(***************************************************************************)
(* How Kernel state reaches a Renderer: the Kernel publishes full states   *)
(* and patches under one revision counter (workbench-kernel.ts), the event *)
(* forwarder batches them (kernel-event-forwarder.ts), a transport carries *)
(* them, and the Renderer's revision barrier applies them, recovers from   *)
(* gaps with a snapshot and settles mutation acknowledgements              *)
(* (kernel-revision-barrier.ts).                                           *)
(*                                                                         *)
(* The mutation of revision r is abstracted to the number r itself: a full *)
(* state of revision r contains 1..r, a patch adds {r}.                    *)
(***************************************************************************)
EXTENDS Integers, Sequences, FiniteSets, FiniteSetsExt

CONSTANTS
  MaxRevision,     \* bound on the mutations the Kernel publishes
  MaxBatch,        \* maxBatchEvents of the forwarder
  MaxPending,      \* maxPendingPatches of the barrier
  Waiters,         \* mutations whose acknowledgement the Renderer awaits
  MaxLost,         \* bound on sends the transport loses
  MaxFetchFaults,  \* bound on snapshot requests that fail or time out
  MaxThrows,       \* bound on patch batches that do not fit the shown state
  Ordered          \* snapshot replies share the channel of the events

ASSUME BoundsAreNatural ==
  /\ MaxRevision \in Nat
  /\ MaxLost \in Nat
  /\ MaxFetchFaults \in Nat
  /\ MaxThrows \in Nat
ASSUME BatchHoldsTwo == MaxBatch \in Nat /\ MaxBatch >= 2
ASSUME PendingIsPositive == MaxPending \in Nat \ {0}
ASSUME OrderedIsBoolean == Ordered \in BOOLEAN

VARIABLES
  revision,   \* stateRevision of the Kernel
  outbox,     \* forwarder: state events waiting for the batch window
  timer,      \* forwarder: is the batch timer armed
  channel,    \* messages on their way to the Renderer
  fetch,      \* the two snapshot requests: at start-up, and to recover
  inbox,      \* events of the message the Renderer is handling
  applied,    \* appliedRevision of the barrier, -1 before the first state
  view,       \* mutations contained in the barrier's currentState
  pending,    \* revisions of the patches queued for the next frame
  frame,      \* is an animation frame scheduled
  waiters,    \* acknowledgements being awaited
  disposed,   \* the barrier was disposed
  faults      \* how often each fault has happened

kernelVars == <<revision, outbox, timer>>
barrierVars == <<applied, view, pending, frame, waiters, disposed>>
vars == <<kernelVars, channel, fetch, inbox, barrierVars, faults>>

-----------------------------------------------------------------------------
\* Nothing carries a revision the Kernel has not reached.
Revision == 0..revision
Event == [full : BOOLEAN, rev : Revision \ {0}]
Message == [type : {"state", "domain"}, events : Seq(Event), rev : Revision]
FetchId == {"initial", "resync"}
Fetch == [st : {"none", "asked", "answered"}, rev : Revision, ahead : Nat]
NoFetch == [st |-> "none", rev |-> 0, ahead |-> 0]
Asked == [st |-> "asked", rev |-> 0, ahead |-> 0]
Waiter == [st : {"free", "waiting", "resyncing", "resolved", "rejected"},
           rev : Revision]
FaultKind == {"lost", "fetch", "throw"}
FaultBound == [lost |-> MaxLost, fetch |-> MaxFetchFaults, throw |-> MaxThrows]

\* Every variable has its type; the batch and the patch queue stay under their
\* limits, and the Renderer knows no revision the Kernel has not reached.
TypeOK ==
  /\ revision \in 0..MaxRevision
  /\ outbox \in Seq(Event) /\ Len(outbox) < MaxBatch
  /\ timer \in BOOLEAN
  /\ channel \in Seq(Message)
  /\ fetch \in [FetchId -> Fetch]
  /\ inbox \in Seq(Event)
  /\ applied \in Revision \cup {-1}
  /\ view \in SUBSET Revision
  /\ pending \in SUBSET (Revision \ {0}) /\ Cardinality(pending) <= MaxPending
  /\ frame \in BOOLEAN
  /\ waiters \in [Waiters -> Waiter]
  /\ disposed \in BOOLEAN
  /\ faults \in [FaultKind -> Nat]

\* The window has subscribed and asked for its first snapshot.
Init ==
  /\ revision = 0
  /\ outbox = <<>>
  /\ timer = FALSE
  /\ channel = <<>>
  /\ fetch = [f \in FetchId |-> IF f = "initial" THEN Asked ELSE NoFetch]
  /\ inbox = <<>>
  /\ applied = -1
  /\ view = {}
  /\ pending = {}
  /\ frame = FALSE
  /\ waiters = [w \in Waiters |-> [st |-> "free", rev |-> 0]]
  /\ disposed = FALSE
  /\ faults = [k \in FaultKind |-> 0]

Fault(k) ==
  /\ faults[k] < FaultBound[k]
  /\ faults' = [faults EXCEPT ![k] = @ + 1]

-----------------------------------------------------------------------------
(* Kernel and forwarder                                                    *)

StateMessage(events) == [type |-> "state", events |-> events, rev |-> 0]
DomainMessage == [type |-> "domain", events |-> <<>>, rev |-> revision]

\* safeSend: a Renderer that is going away loses the messages sent to it.
Transmit(messages) ==
  \/ channel' = channel \o messages /\ UNCHANGED faults
  \/ Fault("lost") /\ UNCHANGED channel

\* What flush() has to send: one message, or none when nothing is pending.
Flushed(events) == IF events = <<>> THEN <<>> ELSE <<StateMessage(events)>>

\* forward() of a state event; a full state supersedes whatever is pending.
Forward(event) ==
  LET queued == Append(IF event.full THEN <<>> ELSE outbox, event)
  IN \/ /\ Len(queued) >= MaxBatch
        /\ outbox' = <<>>
        /\ timer' = FALSE
        /\ Transmit(Flushed(queued))
     \/ /\ Len(queued) < MaxBatch
        /\ outbox' = queued
        /\ timer' = TRUE
        /\ UNCHANGED <<channel, faults>>

PublishEvent(full) ==
  /\ revision < MaxRevision
  /\ revision' = revision + 1
  /\ Forward([full |-> full, rev |-> revision'])
  /\ UNCHANGED <<fetch, inbox, barrierVars>>

EmitState == PublishEvent(TRUE)
EmitPatch == PublishEvent(FALSE)

\* Mutant: the domain event overtakes the batch.
EmitDomainUnflushed ==
  /\ \A i \in DOMAIN channel : channel[i].type = "state"
  /\ Transmit(<<DomainMessage>>)
  /\ UNCHANGED <<kernelVars, fetch, inbox, barrierVars>>

\* A compaction or package event: forward() flushes the pending state first.
\* Bound: one undelivered domain event at a time.
EmitDomain ==
  /\ \A i \in DOMAIN channel : channel[i].type = "state"
  /\ outbox' = <<>>
  /\ timer' = FALSE
  /\ \/ Transmit(Append(Flushed(outbox), DomainMessage))
     \/ /\ outbox # <<>>
        /\ Fault("lost")
        /\ channel' = Append(channel, DomainMessage)
     \/ /\ outbox # <<>>
        /\ Fault("lost")
        /\ channel' = channel \o Flushed(outbox)
  /\ UNCHANGED <<revision, fetch, inbox, barrierVars>>

\* The 8 ms batch window ends.
FlushTimer ==
  /\ timer
  /\ timer' = FALSE
  /\ outbox' = <<>>
  /\ Transmit(Flushed(outbox))
  /\ UNCHANGED <<revision, fetch, inbox, barrierVars>>

\* getSnapshot() pairs the current state with the current revision.
AnswerFetch(f) ==
  /\ fetch[f].st = "asked"
  /\ fetch' = [fetch EXCEPT ![f] =
                [st |-> "answered", rev |-> revision, ahead |-> Len(channel)]]
  /\ UNCHANGED <<kernelVars, channel, inbox, barrierVars, faults>>

-----------------------------------------------------------------------------
(* Revision barrier                                                        *)

Initialized == applied # -1

\* startResync(): joins the recovery that is already in flight.
Resyncing(fs) ==
  IF fs["resync"].st = "none" THEN [fs EXCEPT !["resync"] = Asked] ELSE fs

\* Mutant: the flush trusts the queue to have no hole.
RunFromUnchecked(r, revs) == revs

\* The queued revisions that follow r without a hole.
RunFrom(r, revs) == {p \in revs : (r + 1)..p \subseteq revs}

NextExpected == 1 + IF pending = {} THEN applied ELSE Max(pending)

\* resolveWaiters() once revision r is applied.
Resolve(ws, r) ==
  [w \in Waiters |->
    IF ws[w].st \in {"waiting", "resyncing"} /\ ws[w].rev <= r
    THEN [ws[w] EXCEPT !.st = "resolved"] ELSE ws[w]]

\* Mutant: the end of the recovery settles every waiter that joined it.
EndResyncAsSuccess(ws) ==
  [w \in Waiters |->
    IF ws[w].st = "resyncing" THEN [ws[w] EXCEPT !.st = "resolved"] ELSE ws[w]]

\* Mutant: a waiter whose recovery is over keeps waiting for a later event.
EndResyncForgotten(ws) == ws

\* The waiters that joined a recovery get its outcome.
EndResync(ws) ==
  [w \in Waiters |->
    IF ws[w].st = "resyncing" THEN [ws[w] EXCEPT !.st = "rejected"] ELSE ws[w]]

\* Mutant: a full state is taken whatever its revision.
CommitStateUnordered(r) ==
  /\ applied' = r
  /\ view' = 1..r
  /\ pending' = {p \in pending : p > r}
  /\ frame' = (pending' # {})
  /\ waiters' = Resolve(waiters, r)

\* commitState()
CommitState(r) ==
  \/ /\ Initialized /\ r < applied
     /\ UNCHANGED <<applied, view, pending, frame, waiters>>
  \/ /\ ~Initialized \/ r >= applied
     /\ applied' = r
     /\ view' = 1..r
     /\ pending' = {p \in pending : p > r}
     /\ frame' = (pending' # {})
     /\ waiters' = Resolve(waiters, r)

\* storePendingPatch(): a queue over its cap is dropped for one snapshot.
StorePending(r) ==
  \/ /\ r \in pending \/ Cardinality(pending) < MaxPending
     /\ pending' = pending \cup {r}
     /\ frame' = Initialized
     /\ UNCHANGED fetch
  \/ /\ r \notin pending /\ Cardinality(pending) >= MaxPending
     /\ pending' = {}
     /\ frame' = FALSE
     /\ fetch' = Resyncing(fetch)

\* Mutant: a patch behind a gap is dropped and nothing is recovered.
QueuePatchWithoutRecovery(r) ==
  /\ \/ /\ ~Initialized \/ (applied < r /\ r <= NextExpected)
        /\ StorePending(r)
     \/ /\ Initialized /\ (r <= applied \/ r > NextExpected)
        /\ UNCHANGED <<pending, frame, fetch>>
  /\ UNCHANGED <<applied, view, waiters>>

\* queuePatch()
QueuePatch(r) ==
  /\ \/ /\ ~Initialized \/ (applied < r /\ r <= NextExpected)
        /\ StorePending(r)
     \/ /\ Initialized /\ r <= applied
        /\ UNCHANGED <<pending, frame, fetch>>
     \/ /\ Initialized /\ r > NextExpected
        /\ fetch' = Resyncing(fetch)
        /\ UNCHANGED <<pending, frame>>
  /\ UNCHANGED <<applied, view, waiters>>

\* Events of one message are handled in one go; nothing of the Renderer runs
\* in between.
Idle == inbox = <<>> /\ ~disposed

\* A reply that shares the events' channel waits for the messages before it.
Arrived(f) == fetch[f].st = "answered" /\ (Ordered => fetch[f].ahead = 0)

Receive ==
  /\ inbox = <<>>
  /\ channel # <<>>
  /\ Ordered => \A f \in FetchId : ~Arrived(f)
  /\ channel' = Tail(channel)
  /\ inbox' = IF disposed THEN <<>> ELSE Head(channel).events
  /\ fetch' = [f \in FetchId |->
                IF fetch[f].ahead > 0 THEN [fetch[f] EXCEPT !.ahead = @ - 1]
                ELSE fetch[f]]
  /\ UNCHANGED <<kernelVars, barrierVars, faults>>

\* handleEvent() of the next event in the message.
HandleNext ==
  /\ inbox # <<>>
  /\ inbox' = Tail(inbox)
  /\ \/ /\ Head(inbox).full
        /\ CommitState(Head(inbox).rev)
        /\ UNCHANGED fetch
     \/ /\ ~Head(inbox).full
        /\ QueuePatch(Head(inbox).rev)
  /\ UNCHANGED <<kernelVars, channel, disposed, faults>>

\* flushPatches(): all of the queue when it has no hole, and otherwise none.
ApplyPending ==
  /\ RunFrom(applied, pending) = pending
  /\ pending' = {}
  /\ \/ /\ \E r \in pending :
             /\ \A p \in pending : p <= r
             /\ applied' = r
             /\ waiters' = Resolve(waiters, r)
        /\ view' = view \cup pending
        /\ UNCHANGED faults
     \/ /\ Fault("throw")
        /\ UNCHANGED <<applied, view, waiters>>
  /\ UNCHANGED fetch

FindHole ==
  /\ RunFrom(applied, pending) # pending
  /\ pending' = pending \ RunFrom(applied, pending)
  /\ fetch' = Resyncing(fetch)
  /\ UNCHANGED <<applied, view, waiters, faults>>

Frame ==
  /\ Idle
  /\ frame
  /\ frame' = FALSE
  /\ ApplyPending \/ FindHole
  /\ UNCHANGED <<kernelVars, channel, inbox, disposed>>

\* What is left of fetch f once its outcome is known: a recovery is over, and
\* a gap found by the start-up snapshot may have begun one.
Settled(f, gap) ==
  LET rest == [fetch EXCEPT ![f] = NoFetch]
  IN IF f = "initial" /\ gap THEN Resyncing(rest) ELSE rest

\* handleSnapshot(): queued patches that follow the snapshot are kept.
AdoptSnapshot(f) ==
  LET r == fetch[f].rev
      later == {p \in pending : p > r}
      run == RunFrom(r, later)
  IN /\ ~Initialized \/ r > applied
     /\ applied' = r
     /\ view' = 1..r
     /\ pending' = run
     /\ frame' = (run # {})
     /\ waiters' = LET ws == Resolve(waiters, r)
                   IN IF f = "resync" THEN EndResync(ws) ELSE ws
     /\ fetch' = Settled(f, run # later)

\* A snapshot that is not newer is ignored.
IgnoreSnapshot(f) ==
  /\ Initialized /\ fetch[f].rev <= applied
  /\ waiters' = IF f = "resync" THEN EndResync(waiters) ELSE waiters
  /\ fetch' = Settled(f, FALSE)
  /\ UNCHANGED <<applied, view, pending, frame>>

FetchArrives(f) ==
  /\ Idle
  /\ Arrived(f)
  /\ AdoptSnapshot(f) \/ IgnoreSnapshot(f)
  /\ UNCHANGED <<kernelVars, channel, inbox, disposed, faults>>

\* The request is rejected, or its 2 s timer fires and the reply is ignored.
FetchFails(f) ==
  /\ Idle
  /\ fetch[f].st # "none"
  /\ Fault("fetch")
  /\ fetch' = Settled(f, FALSE)
  /\ waiters' = IF f = "resync" THEN EndResync(waiters) ELSE waiters
  /\ UNCHANGED <<kernelVars, channel, inbox, applied, view, pending, frame,
                 disposed>>

\* waitForAck() with the acknowledgement of a mutation, which carries a
\* revision the Kernel had reached when it replied.
ReceiveAck(w) ==
  /\ inbox = <<>>
  /\ waiters[w].st = "free"
  /\ \E r \in 0..revision :
       waiters' = [waiters EXCEPT ![w] =
         [st |-> IF disposed THEN "rejected"
                 ELSE IF applied >= r THEN "resolved" ELSE "waiting",
          rev |-> r]]
  /\ UNCHANGED <<kernelVars, channel, fetch, inbox, applied, view, pending,
                 frame, disposed, faults>>

\* The waiter's 2 s timer fires.
WaitTimeout(w) ==
  /\ Idle
  /\ waiters[w].st = "waiting"
  /\ waiters' = [waiters EXCEPT ![w].st = "resyncing"]
  /\ fetch' = Resyncing(fetch)
  /\ UNCHANGED <<kernelVars, channel, inbox, applied, view, pending, frame,
                 disposed, faults>>

Dispose ==
  /\ Idle
  /\ disposed' = TRUE
  /\ pending' = {}
  /\ frame' = FALSE
  /\ waiters' = [w \in Waiters |->
                  IF waiters[w].st \in {"waiting", "resyncing"}
                  THEN [waiters[w] EXCEPT !.st = "rejected"] ELSE waiters[w]]
  /\ UNCHANGED <<kernelVars, channel, fetch, inbox, applied, view, faults>>

-----------------------------------------------------------------------------
Next ==
  \/ EmitState \/ EmitPatch \/ EmitDomain \/ FlushTimer
  \/ \E f \in FetchId : AnswerFetch(f) \/ FetchArrives(f) \/ FetchFails(f)
  \/ Receive \/ HandleNext \/ Frame
  \/ \E w \in Waiters : ReceiveAck(w) \/ WaitTimeout(w)
  \/ Dispose

Spec == Init /\ [][Next]_vars

\* Timers fire and messages that were sent arrive.
TimersAndTransport ==
  /\ WF_vars(FlushTimer)
  /\ WF_vars(Receive)
  /\ WF_vars(HandleNext)
  /\ \A f \in FetchId : WF_vars(AnswerFetch(f)) /\ WF_vars(FetchArrives(f))
  /\ \A w \in Waiters : WF_vars(WaitTimeout(w))

\* A visible window also gets animation frames.
VisibleSpec == Spec /\ TimersAndTransport /\ WF_vars(Frame)

\* A hidden window need not get any.
HiddenSpec == Spec /\ TimersAndTransport

-----------------------------------------------------------------------------
(* Properties                                                              *)

\* What is on screen is the Kernel's history up to appliedRevision: nothing
\* missing, nothing from later, whatever was lost, refetched or reordered.
ViewIsPrefix == view = 1..applied

\* A mutation is reported settled (waitForAck resolved) only once its effect
\* is on screen.
SettledMeansShown ==
  \A w \in Waiters : waiters[w].st = "resolved" => 1..waiters[w].rev \subseteq view

\* The events of a message or batch are all of revisions after r.
After(events, r) == \A k \in 1..Len(events) : events[k].rev > r

\* "Domain events are ordering barriers relative to state revisions": every
\* state event behind a domain event is of a later revision than all the
\* mutations the domain event was emitted after, those still in the batch
\* included.
Fenced(messages, batch) ==
  \A i \in 1..Len(messages) : messages[i].type = "domain" =>
    /\ \A j \in (i + 1)..Len(messages) : After(messages[j].events, messages[i].rev)
    /\ After(batch, messages[i].rev)
DomainEventIsBarrier == Fenced(channel, outbox)

\* The screen never goes back, and a settled acknowledgement never changes.
NoRegress ==
  [][/\ applied' >= applied
     /\ \A w \in Waiters : waiters[w].st \in {"resolved", "rejected"} =>
          waiters'[w] = waiters[w]]_vars

\* An event the barrier has seen is on screen in the end, whatever was lost
\* before it: its own application or a snapshot brings it there.
HeardIsShown ==
  \A r \in 1..MaxRevision :
    (inbox # <<>> /\ Head(inbox).rev = r) ~> (applied >= r \/ disposed)

\* That holds of a visible window whose requests for a snapshot do not fail.
VisibleWindowCatchesUp ==
  WF_vars(Frame) /\ [](faults["fetch"] = 0) => HeardIsShown

\* Every acknowledgement settles, frames or no frames.
WaiterSettles ==
  \A w \in Waiters :
    (waiters[w].st = "waiting") ~> (waiters[w].st \in {"resolved", "rejected"})

\* The Kernel's history and the screen implement the replica.
Replica == INSTANCE KernelReplica WITH
  published <- revision, shown <- applied, contents <- view
ImplementsReplica == Replica!Spec
=============================================================================
