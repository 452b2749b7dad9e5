------------------------- MODULE SessionCollaboration -------------------------
(***************************************************************************)
(* Sessions that send each other work.  The coordinator                    *)
(* (session-collaboration.ts) queues deliveries per target Session, hands  *)
(* one at a time to the target's Runtime, records its result and tells the *)
(* sender once.  The Kernel side (session-collaboration-runtime.ts and the *)
(* event handlers of workbench-kernel.ts) owns the Runtime contexts.  The  *)
(* Pi child answers over one ordered channel per direction.                *)
(*                                                                         *)
(* The Kernel is one event loop: an event handler and the promise          *)
(* continuations it triggers are one action, and the drains it schedules   *)
(* with queueMicrotask run before the next event (variable due).           *)
(***************************************************************************)
EXTENDS Integers, Sequences, FiniteSets, FiniteSetsExt, Functions

CONSTANTS
  Sessions,        \* Pi Sessions
  Existing,        \* those that exist at the start; the others are spawned
  MaxDeliveries,   \* bound on deliveries ever made
  Capacity,        \* deliveries the coordinator remembers (256)
  Limit,           \* bound on how often each outside event happens
  Budget           \* bound on the kinds of disturbance that happen

NoDelivery == 0
OwnRun == -1       \* a run that no delivery asked for
Disturbance ==
  {"user", "own", "reject", "launchFault", "crash", "stop", "hibernate", "stopAll",
   "abortFault"}
OutsideEvent == {"send", "stopFault"} \cup Disturbance

ASSUME SomeExist == Existing \subseteq Sessions /\ IsFiniteSet(Sessions)
ASSUME BoundIsPositive == MaxDeliveries \in Nat \ {0}
ASSUME CapacityIsPositive == Capacity \in Nat \ {0}
ASSUME LimitsAreNatural == Limit \in [OutsideEvent -> Nat] /\ Budget \in Nat

VARIABLES
  delivery,   \* every delivery ever made, by message id
  records,    \* ids the coordinator still remembers
  queue,      \* ids waiting for each target, oldest first
  running,    \* the delivery each target works on
  notify,     \* deliveries whose sender is to be told
  draining,   \* the delivery being handed over, while deliver() is awaited
  due,        \* Sessions whose drain is scheduled as a microtask
  ctx,        \* runtime status of each Session's RuntimeContext
  owner,      \* the Session a spawning context is started for
  naming,     \* the spawn that gives its new Session a title or a model
  runOpen,    \* collaborationRunStartIndex of the context is set
  stopAll,    \* stopAllRequested: no admission, Pi events are dropped
  commands,   \* Kernel -> Pi channel of each Session
  events,     \* Pi -> Kernel channel of each Session
  pi,         \* the run Pi is in: a delivery, OwnRun or none
  life,       \* how often each Session was interrupted
  used        \* how often each outside event has happened

coordinatorVars == <<delivery, records, queue, running, notify, draining, due>>
contextVars == <<ctx, owner, naming, runOpen, stopAll>>
piVars == <<commands, events, pi>>
vars == <<coordinatorVars, contextVars, piVars, life, used>>

-----------------------------------------------------------------------------
Deliveries == 1..MaxDeliveries
Run == Deliveries \cup {OwnRun}
Active == {"queued", "running"}
Final == {"completed", "failed", "cancelled", "interrupted"}
\* Three fields are history: the life of the source when the code last looked
\* at it, its life when the delivery was recorded (see StoppedSenderIsLeftAlone),
\* and whether it is the task of a late spawn, or the completion of one, for a
\* target that was being stopped then (see NoLostWakeup).
Delivery ==
  [source : Sessions, target : Sessions, kind : {"message", "completion"},
   about : Deliveries \cup {NoDelivery}, asked : BOOLEAN,
   life : Nat, since : Nat, stranded : BOOLEAN,
   status : Active \cup Final, result : Run \cup {NoDelivery}]
Unmade == [status |-> "unmade"]
\* A spawn under way after its launch, with the life of its source at the check.
Naming == [source : Sessions, life : Nat]
Nobody == [source |-> "nobody"]
Command == [type : {"prompt", "abort"}, run : Run \cup {NoDelivery}, told : BOOLEAN]
Event == [type : {"start", "settled", "accepted", "rejected", "abortFailed"},
          run : Run \cup {NoDelivery}, told : BOOLEAN,
          outcome : {"completed", "failed", "cancelled"}]
Status == {"absent", "none", "spawning", "launching", "ready", "running",
           "stopping", "crashed"}

\* Every variable has its type, and the coordinator remembers no more than it may.
TypeOK ==
  /\ delivery \in [Deliveries -> Delivery \cup {Unmade}]
  /\ records \in SUBSET Deliveries /\ Cardinality(records) <= Capacity
  /\ queue \in [Sessions -> Seq(Deliveries)]
  /\ running \in [Sessions -> Deliveries \cup {NoDelivery}]
  /\ notify \in SUBSET Deliveries
  /\ draining \in [Sessions -> Deliveries \cup {NoDelivery}]
  /\ due \in SUBSET Sessions
  /\ ctx \in [Sessions -> Status]
  /\ owner \in [Sessions -> Sessions]
  /\ naming \in [Sessions -> Naming \cup {Nobody}]
  /\ runOpen \in [Sessions -> BOOLEAN]
  /\ stopAll \in BOOLEAN
  /\ commands \in [Sessions -> Seq(Command)]
  /\ events \in [Sessions -> Seq(Event)]
  /\ pi \in [Sessions -> Run \cup {NoDelivery}]
  /\ life \in [Sessions -> Nat]
  /\ used \in [OutsideEvent -> Nat]

Init ==
  /\ delivery = [d \in Deliveries |-> Unmade]
  /\ records = {}
  /\ queue = [s \in Sessions |-> <<>>]
  /\ running = [s \in Sessions |-> NoDelivery]
  /\ notify = {}
  /\ draining = [s \in Sessions |-> NoDelivery]
  /\ due = {}
  /\ ctx = [s \in Sessions |-> IF s \in Existing THEN "none" ELSE "absent"]
  /\ owner = [s \in Sessions |-> s]
  /\ naming = [s \in Sessions |-> Nobody]
  /\ runOpen = [s \in Sessions |-> FALSE]
  /\ stopAll = FALSE
  /\ commands = [s \in Sessions |-> <<>>]
  /\ events = [s \in Sessions |-> <<>>]
  /\ pi = [s \in Sessions |-> NoDelivery]
  /\ life = [s \in Sessions |-> 0]
  /\ used = [k \in OutsideEvent |-> 0]

Disturbed == {k \in Disturbance : used[k] > 0}

Happens(k) ==
  /\ used[k] < Limit[k]
  /\ k \in Disturbance => Cardinality(Disturbed \cup {k}) <= Budget
  /\ used' = [used EXCEPT ![k] = @ + 1]

\* The event loop takes its next event once the microtasks are done.
Idle == due = {}

-----------------------------------------------------------------------------
(* The coordinator                                                         *)

Made == {d \in Deliveries : delivery[d].status # "unmade"}
Unused == Deliveries \ Made
IsActive(d) == delivery[d].status \in Active

\* Contexts a drain may hand work to: none yet, or one that is ready.
\* Mutant: a context that is running counts as ready.
ReadyWhileRunning(s) == ~stopAll /\ ctx[s] \in {"none", "ready", "running"}
Ready(s) == ~stopAll /\ ctx[s] \in {"none", "ready"}

HasPending(s) == running[s] # NoDelivery \/ queue[s] # <<>>

\* What enqueue() forgets to make room, given the deliveries that are active.
Inactive(table) == {d \in records : table[d].status \notin Active}
\* Mutant: the oldest record goes, whatever its state.
ExpiredOldest(table) ==
  IF Cardinality(records) < Capacity THEN {} ELSE {Min(records)}
Expired(table) ==
  IF Cardinality(records) < Capacity THEN {} ELSE {Min(Inactive(table))}
HasRoom(table) == Cardinality(records) < Capacity \/ Inactive(table) # {}

\* enqueue() on top of the changes already made to the table.
Enqueue(table, item) ==
  LET id == Min(Unused) IN
  /\ Unused # {}
  /\ HasRoom(table)
  /\ delivery' = [table EXCEPT ![id] = item]
  /\ records' = (records \ Expired(table)) \cup {id}
  /\ queue' = [queue EXCEPT ![item.target] = Append(@, id)]

\* A stop of the source between the last look at it and the recording.
Overlooked(d) == delivery[d].since # delivery[d].life

Completion(d) ==
  [source |-> delivery[d].target, target |-> delivery[d].source,
   kind |-> "completion", about |-> d, asked |-> FALSE,
   life |-> life[delivery[d].source], since |-> life[delivery[d].source],
   stranded |-> Overlooked(d) /\ ctx[delivery[d].source] = "stopping",
   status |-> "queued", result |-> NoDelivery]

\* Mutant: every sender is told.
ReportsBackAlways(d) == delivery[d].kind # "completion"
ReportsBack(d) == d \in notify /\ delivery[d].kind # "completion"

\* scheduleDrain().  Mutant: the drain after a settled run is forgotten.
NoWake(S) == due
Wake(S) == due \cup S

\* The delivery of session s is over; its sender is told if it asked.
Conclude(s, d, result, outcome) ==
  LET table == [delivery EXCEPT ![d].status = outcome, ![d].result = result] IN
  /\ notify' = notify \ {d}
  /\ \/ /\ ReportsBack(d)
        /\ Enqueue(table, Completion(d))
        /\ due' = Wake({s, delivery[d].source})
     \/ /\ ReportsBack(d) => ~HasRoom(table)
        /\ delivery' = table
        /\ due' = Wake({s})
        /\ UNCHANGED <<records, queue>>

\* settled(): only a delivery that still runs takes the result.
Settled(s, result, outcome) ==
  LET d == running[s] IN
  /\ running' = [running EXCEPT ![s] = NoDelivery]
  /\ \/ /\ d \in records /\ delivery[d].status = "running"
        /\ Conclude(s, d, result, outcome)
     \/ /\ ~(d \in records /\ delivery[d].status = "running")
        /\ due' = Wake({s})
        /\ UNCHANGED <<delivery, records, queue, notify>>

\* interrupted(): what of a Session is hit, and who is still to be told.
\* Mutants: the final deliveries are hit too; a stopped sender is told.
HitEvenFinal(s) == {d \in records : delivery[d].target = s}
Hit(s) == {d \in records : delivery[d].target = s /\ IsActive(d)}
StillToldAll(s) == notify \ Hit(s)
StillTold(s) == {d \in notify \ Hit(s) : d \in records => delivery[d].source # s}

\* Nothing queued or running for s survives, and s is told nothing any more.
Interrupted(s) ==
  /\ running' = [running EXCEPT ![s] = NoDelivery]
  /\ queue' = [queue EXCEPT ![s] = <<>>]
  /\ delivery' = [d \in Deliveries |->
       IF d \in Hit(s) THEN [delivery[d] EXCEPT !.status = "interrupted"]
                       ELSE delivery[d]]
  /\ notify' = StillTold(s)
  /\ life' = [life EXCEPT ![s] = @ + 1]
  /\ UNCHANGED records

\* deliver() returned: the next delivery may be handed over once nothing runs.
EndDrain(s) ==
  /\ draining' = [draining EXCEPT ![s] = NoDelivery]
  /\ due' = IF running[s] = NoDelivery THEN due \cup {s} ELSE due
  /\ UNCHANGED <<delivery, records, queue, running, notify>>

\* deliver() threw: a delivery that still runs has failed without a run.
FailDrain(s) ==
  \/ /\ running[s] = draining[s]
     /\ draining' = [draining EXCEPT ![s] = NoDelivery]
     /\ Settled(s, NoDelivery, "failed")
  \/ /\ running[s] # draining[s]
     /\ EndDrain(s)

\* The same when nothing of s runs any more.  Mutant: the finally is missing.
DropDrainNever(s) == UNCHANGED <<draining, due>>
DropDrain(s) ==
  /\ draining' = [draining EXCEPT ![s] = NoDelivery]
  /\ due' = IF draining[s] = NoDelivery THEN due ELSE due \cup {s}

-----------------------------------------------------------------------------
(* Operations of a Session's agent                                         *)

Live(s) == ~stopAll /\ ctx[s] \in {"ready", "running"}

Item(src, t, asked) ==
  [source |-> src, target |-> t, kind |-> "message", about |-> NoDelivery,
   asked |-> asked, life |-> life[src], since |-> life[src],
   stranded |-> FALSE, status |-> "queued", result |-> NoDelivery]

\* enqueue() for an agent, followed by the drain it awaits.
Submit(item) ==
  /\ Enqueue(delivery, item)
  /\ notify' = IF item.asked THEN notify \cup {Min(Unused)} ELSE notify
  /\ due' = due \cup {item.target}
  /\ UNCHANGED <<running, draining>>

\* execute() with send: not to itself, and not to a Session that is down.
Send(src, t) ==
  /\ Idle /\ Live(src) /\ src # t
  /\ ctx[t] \in {"none", "launching", "ready", "running"}
  /\ \E asked \in BOOLEAN : Submit(Item(src, t, asked))
  /\ Happens("send")
  /\ UNCHANGED <<contextVars, piVars, life>>

\* execute() with spawn, up to the launch of the new context.
Spawn(src, t) ==
  /\ Idle /\ Live(src) /\ ctx[t] = "absent"
  /\ ctx' = [ctx EXCEPT ![t] = "spawning"]
  /\ owner' = [owner EXCEPT ![t] = src]
  /\ Happens("send")
  /\ UNCHANGED <<coordinatorVars, naming, runOpen, stopAll, piVars, life>>

\* The requesting context is the same one, and no stop of it is in progress.
OwnerWaits(t) ==
  owner[t] # t /\ ctx[owner[t]] \in {"ready", "running", "crashed"}

\* The context is launched and the source looked at, for the last time.  The
\* task is queued (or there is no room), or a title or a model is awaited first.
SpawnDone(t) ==
  /\ Idle /\ ~stopAll /\ ctx[t] = "spawning" /\ OwnerWaits(t)
  /\ ctx' = [ctx EXCEPT ![t] = "ready"]
  /\ owner' = [owner EXCEPT ![t] = t]
  /\ \/ /\ \/ \E asked \in BOOLEAN : Submit(Item(owner[t], t, asked))
           \/ ~HasRoom(delivery) /\ UNCHANGED coordinatorVars
        /\ UNCHANGED naming
     \/ /\ naming' = [naming EXCEPT ![t] =
             [source |-> owner[t], life |-> life[owner[t]]]]
        /\ UNCHANGED coordinatorVars
  /\ UNCHANGED <<runOpen, stopAll, piVars, life, used>>

\* The new Session is stopped again: its owner stopped, or its start failed.
SpawnFails(t) ==
  /\ Idle /\ ctx[t] = "spawning"
  /\ \/ (stopAll \/ ~OwnerWaits(t)) /\ UNCHANGED used
     \/ Happens("launchFault")
  /\ ctx' = [ctx EXCEPT ![t] = "absent"]
  /\ owner' = [owner EXCEPT ![t] = t]
  /\ UNCHANGED <<coordinatorVars, naming, runOpen, stopAll, piVars, life>>

\* Its task as it is recorded now, for the source as it was at the check.
Task(t, asked) ==
  [Item(naming[t].source, t, asked) EXCEPT
     !.life = naming[t].life, !.stranded = (ctx[t] = "stopping")]

\* Title and model are set, in a Session that may be stopping by now: its task is
\* queued, whatever became of the source or of the admission.
SpawnNamed(t) ==
  /\ Idle /\ naming[t] # Nobody
  /\ naming' = [naming EXCEPT ![t] = Nobody]
  /\ \/ \E asked \in BOOLEAN : Submit(Task(t, asked))
     \/ ~HasRoom(delivery) /\ UNCHANGED coordinatorVars
  /\ UNCHANGED <<ctx, owner, runOpen, stopAll, piVars, life, used>>

\* Deliveries src may cancel at t: its own, queued or running.
Cancellable(src, t) ==
  {d \in records : /\ delivery[d].source = src /\ delivery[d].target = t
                   /\ IsActive(d)}

\* queue.filter(): kept[i] is what stays of the first i entries.
Kept(q, chosen) ==
  LET kept[i \in 0..Len(q)] ==
        IF i = 0 THEN <<>>
        ELSE IF q[i] \in chosen THEN kept[i - 1] ELSE Append(kept[i - 1], q[i])
  IN kept
Without(q, chosen) == Kept(q, chosen)[Len(q)]

\* Mutant: the abort is sent even if what is cancelled does not run.
AlwaysAborts(t, chosen) == running[t] # NoDelivery /\ ctx[t] \notin {"none", "launching"}
Aborts(t, chosen) == running[t] \in chosen /\ ctx[t] \notin {"none", "launching"}

\* execute() with cancel, of one delivery or of all: a running one is aborted,
\* which does nothing while the target has no context yet.
Cancel(src, t) ==
  /\ Idle /\ Live(src) /\ ctx[t] \notin {"absent", "spawning"}
  /\ \E chosen \in {Cancellable(src, t)} \cup {{d} : d \in Cancellable(src, t)} :
       /\ chosen # {}
       /\ delivery' = [d \in Deliveries |->
            IF d \in chosen THEN [delivery[d] EXCEPT !.status = "cancelled"]
                            ELSE delivery[d]]
       /\ notify' = notify \ chosen
       /\ queue' = [queue EXCEPT ![t] = Without(@, chosen)]
       /\ \/ /\ Aborts(t, chosen)
             /\ commands' = [commands EXCEPT ![t] = Append(@,
                  [type |-> "abort", run |-> running[t],
                   told |-> running[t] \in notify])]
          \/ ~Aborts(t, chosen) /\ UNCHANGED commands
  /\ UNCHANGED <<records, running, draining, due, contextVars, events, pi,
                 life, used>>

-----------------------------------------------------------------------------
(* Handing a delivery to its target                                        *)

\* The synchronous part of deliverCollaborationMessage for a ready context.
HandOver(s, d) ==
  /\ ctx' = [ctx EXCEPT ![s] = "running"]
  /\ runOpen' = [runOpen EXCEPT ![s] = TRUE]
  /\ commands' = [commands EXCEPT ![s] =
       Append(@, [type |-> "prompt", run |-> d, told |-> FALSE])]

CanDrain(s) ==
  /\ draining[s] = NoDelivery
  /\ running[s] = NoDelivery
  /\ Ready(s)
  /\ queue[s] # <<>>

\* drain(): the oldest delivery starts, in its context or in a new one.
Drain(s) ==
  /\ s \in due
  /\ due' = due \ {s}
  /\ CanDrain(s)
  /\ LET d == Head(queue[s]) IN
     /\ queue' = [queue EXCEPT ![s] = Tail(@)]
     /\ draining' = [draining EXCEPT ![s] = d]
     /\ running' = [running EXCEPT ![s] = d]
     /\ delivery' = [delivery EXCEPT ![d].status = "running"]
     /\ \/ /\ ctx[s] = "none"
           /\ ctx' = [ctx EXCEPT ![s] = "launching"]
           /\ UNCHANGED <<runOpen, commands>>
        \/ /\ ctx[s] # "none"
           /\ HandOver(s, d)
  /\ UNCHANGED <<records, notify, owner, naming, stopAll, events, pi, life, used>>

\* drain() that returns early.
DrainNothing(s) ==
  /\ s \in due
  /\ due' = due \ {s}
  /\ ~CanDrain(s)
  /\ UNCHANGED <<delivery, records, queue, running, notify, draining,
                 contextVars, piVars, life, used>>

\* The background launch succeeded: the prompt follows without a further check
\* of the delivery.
LaunchDone(s) ==
  /\ Idle /\ ~stopAll /\ ctx[s] = "launching"
  /\ HandOver(s, draining[s])
  /\ UNCHANGED <<coordinatorVars, owner, naming, stopAll, events, pi, life, used>>

LaunchFails(s) ==
  /\ Idle /\ ctx[s] = "launching"
  /\ (stopAll /\ UNCHANGED used) \/ Happens("launchFault")
  /\ ctx' = [ctx EXCEPT ![s] = "none"]
  /\ FailDrain(s)
  /\ UNCHANGED <<owner, naming, runOpen, stopAll, piVars, life>>

-----------------------------------------------------------------------------
(* The Pi child: it takes commands in order and answers in order           *)

Started(r) == [type |-> "start", run |-> r, told |-> FALSE, outcome |-> "completed"]
Accepted(r) == [Started(r) EXCEPT !.type = "accepted"]
Rejected(r) == [Started(r) EXCEPT !.type = "rejected"]
Ended(r, outcome) == [Started(r) EXCEPT !.type = "settled", !.outcome = outcome]
AbortFailed(r, told) == [Started(r) EXCEPT !.type = "abortFailed", !.told = told]

Takes(s, type) ==
  /\ Idle /\ commands[s] # <<>> /\ Head(commands[s]).type = type
  /\ commands' = [commands EXCEPT ![s] = Tail(@)]
Emits(s, messages) == events' = [events EXCEPT ![s] = @ \o messages]

\* collaboration_prompt and prompt: accepted with the start of the run; a
\* Session that is streaming refuses it.
PiTakesPrompt(s) ==
  /\ Takes(s, "prompt")
  /\ LET r == Head(commands[s]).run IN
     \/ /\ pi[s] = NoDelivery
        /\ pi' = [pi EXCEPT ![s] = r]
        /\ Emits(s, <<Started(r), Accepted(r)>>)
        /\ UNCHANGED used
     \/ /\ (pi[s] # NoDelivery /\ UNCHANGED used) \/ Happens("reject")
        /\ Emits(s, <<Rejected(r)>>)
        /\ UNCHANGED pi
  /\ UNCHANGED <<coordinatorVars, contextVars, life>>

\* abort ends whatever runs; only a failure of it has a further effect.
PiTakesAbort(s) ==
  /\ Takes(s, "abort")
  /\ LET c == Head(commands[s]) IN
     \/ /\ pi[s] # NoDelivery
        /\ pi' = [pi EXCEPT ![s] = NoDelivery]
        /\ Emits(s, <<Ended(pi[s], "cancelled")>>)
        /\ UNCHANGED used
     \/ pi[s] = NoDelivery /\ UNCHANGED <<pi, events, used>>
     \/ /\ c.run # NoDelivery
        /\ Happens("abortFault")
        /\ Emits(s, <<AbortFailed(c.run, c.told)>>)
        /\ UNCHANGED pi
  /\ UNCHANGED <<coordinatorVars, contextVars, life>>

\* A run ends; an answer that carries an error is not told apart.
PiSettles(s) ==
  /\ Idle /\ pi[s] # NoDelivery
  /\ pi' = [pi EXCEPT ![s] = NoDelivery]
  /\ Emits(s, <<Ended(pi[s], "completed")>>)
  /\ UNCHANGED <<coordinatorVars, contextVars, commands, life, used>>

\* A finished background task reports to its Session and starts a turn.
PiStartsOwnRun(s) ==
  /\ Idle /\ ctx[s] \in {"ready", "running"} /\ pi[s] = NoDelivery
  /\ Happens("own")
  /\ pi' = [pi EXCEPT ![s] = OwnRun]
  /\ Emits(s, <<Started(OwnRun)>>)
  /\ UNCHANGED <<coordinatorVars, contextVars, commands, life>>

-----------------------------------------------------------------------------
(* The Kernel handles what Pi emits                                        *)

Receives(s, type) ==
  /\ Idle /\ events[s] # <<>> /\ Head(events[s]).type = type
  /\ events' = [events EXCEPT ![s] = Tail(@)]

\* Pi events of a context that stops or crashed are dropped.
Listening(s) == ~stopAll /\ ctx[s] \in {"ready", "running"}

HandleStart(s) ==
  /\ Receives(s, "start")
  /\ ctx' = IF Listening(s) THEN [ctx EXCEPT ![s] = "running"] ELSE ctx
  /\ UNCHANGED <<coordinatorVars, owner, naming, runOpen, stopAll, commands, pi,
                 life, used>>

\* agent_settled: the open collaboration run takes the answer of the run that
\* ended; otherwise the Session is merely free again.
HandleSettled(s) ==
  /\ Receives(s, "settled")
  /\ LET e == Head(events[s]) IN
     \/ /\ Listening(s) /\ runOpen[s]
        /\ ctx' = [ctx EXCEPT ![s] = "ready"]
        /\ runOpen' = [runOpen EXCEPT ![s] = FALSE]
        /\ Settled(s, e.run, e.outcome)
        /\ UNCHANGED draining
     \/ /\ Listening(s) /\ ~runOpen[s]
        /\ ctx' = [ctx EXCEPT ![s] = "ready"]
        /\ due' = Wake({s})
        /\ UNCHANGED <<runOpen, delivery, records, queue, running, notify, draining>>
     \/ /\ ~Listening(s)
        /\ UNCHANGED <<coordinatorVars, ctx, runOpen>>
  /\ UNCHANGED <<owner, naming, stopAll, commands, pi, life, used>>

HandleAccepted(s) ==
  /\ Receives(s, "accepted")
  /\ \/ Head(events[s]).run # OwnRun /\ EndDrain(s)
     \/ Head(events[s]).run = OwnRun /\ UNCHANGED coordinatorVars
  /\ UNCHANGED <<contextVars, commands, pi, life, used>>

\* A refused prompt, of a delivery or of the user: a context that is running is
\* made ready again.
HandleRejected(s) ==
  /\ Receives(s, "rejected")
  /\ ctx' = IF ctx[s] = "running" THEN [ctx EXCEPT ![s] = "ready"] ELSE ctx
  /\ \/ /\ Head(events[s]).run # OwnRun
        /\ runOpen' = [runOpen EXCEPT ![s] = FALSE]
        /\ FailDrain(s)
     \/ /\ Head(events[s]).run = OwnRun
        /\ UNCHANGED <<runOpen, coordinatorVars>>
  /\ UNCHANGED <<owner, naming, stopAll, commands, pi, life, used>>

\* The cancel of a running delivery failed: it runs on, and its sender is told
\* again if it was to be told before.
HandleAbortFailed(s) ==
  /\ Receives(s, "abortFailed")
  /\ LET e == Head(events[s]) IN
     \/ /\ e.run \in records /\ running[s] = e.run
        /\ delivery' = [delivery EXCEPT ![e.run].status = "running"]
        /\ notify' = IF e.told THEN notify \cup {e.run} ELSE notify
     \/ /\ ~(e.run \in records /\ running[s] = e.run)
        /\ UNCHANGED <<delivery, notify>>
  /\ UNCHANGED <<records, queue, running, draining, due, contextVars, commands,
                 pi, life, used>>

-----------------------------------------------------------------------------
(* What the user and the Kernel do with Sessions                           *)

Activate(s) ==
  /\ Idle /\ ~stopAll /\ ctx[s] = "none"
  /\ ctx' = [ctx EXCEPT ![s] = "ready"]
  /\ UNCHANGED <<coordinatorVars, owner, naming, runOpen, stopAll, piVars, life, used>>

\* requireRuntime('ready').  Mutant: a running Session takes a prompt.
PromptableBusy(s) == ~stopAll /\ ctx[s] \in {"ready", "running"}
Promptable(s) == ~stopAll /\ ctx[s] = "ready"
UserPrompt(s) ==
  /\ Idle /\ Promptable(s)
  /\ Happens("user")
  /\ ctx' = [ctx EXCEPT ![s] = "running"]
  /\ commands' = [commands EXCEPT ![s] =
       Append(@, [type |-> "prompt", run |-> OwnRun, told |-> FALSE])]
  /\ UNCHANGED <<coordinatorVars, owner, naming, runOpen, stopAll, events, pi, life>>

UserAbort(s) ==
  /\ Idle /\ ctx[s] = "running"
  /\ Happens("user")
  /\ commands' = [commands EXCEPT ![s] =
       Append(@, [type |-> "abort", run |-> NoDelivery, told |-> FALSE])]
  /\ UNCHANGED <<coordinatorVars, contextVars, events, pi, life>>

\* The Runtime of s is gone, and with it everything on the way.
Gone(s) ==
  /\ commands' = [commands EXCEPT ![s] = <<>>]
  /\ events' = [events EXCEPT ![s] = <<>>]
  /\ pi' = [pi EXCEPT ![s] = NoDelivery]
  /\ runOpen' = [runOpen EXCEPT ![s] = FALSE]

\* process-exit.  A spawn that awaited an answer then stops its new context.
Crash(s) ==
  /\ Idle /\ Listening(s)
  /\ Happens("crash")
  /\ ctx' = [ctx EXCEPT ![s] = IF naming[s] = Nobody THEN "crashed" ELSE "stopping"]
  /\ naming' = [naming EXCEPT ![s] = Nobody]
  /\ Interrupted(s)
  /\ DropDrain(s)
  /\ Gone(s)
  /\ UNCHANGED <<owner, stopAll>>

\* stopContext up to the stop of the Runtime.
Stop(s) ==
  /\ Idle /\ ctx[s] \in {"ready", "running", "crashed"}
  /\ (stopAll /\ UNCHANGED used) \/ Happens("stop")
  /\ ctx' = [ctx EXCEPT ![s] = "stopping"]
  /\ Interrupted(s)
  /\ UNCHANGED <<draining, due, owner, naming, runOpen, stopAll, piVars>>

\* A title or model is refused: the spawn stops the context of its new Session.
NamingFails(s) ==
  /\ Idle /\ naming[s] # Nobody
  /\ Happens("launchFault")
  /\ ctx' = [ctx EXCEPT ![s] = "stopping"]
  /\ naming' = [naming EXCEPT ![s] = Nobody]
  /\ Interrupted(s)
  /\ UNCHANGED <<draining, due, owner, runOpen, stopAll, piVars>>

\* A stop for hibernation, which leaves the deliveries alone: the gate has
\* just seen that there are none.
Hibernate(s) ==
  /\ Idle /\ ctx[s] = "ready" /\ ~HasPending(s)
  /\ Happens("hibernate")
  /\ ctx' = [ctx EXCEPT ![s] = "stopping"]
  /\ UNCHANGED <<coordinatorVars, owner, naming, runOpen, stopAll, piVars, life>>

\* The Runtime has stopped and the context is retired; no answer comes any more.
StopDone(s) ==
  /\ Idle /\ ctx[s] = "stopping"
  /\ ctx' = [ctx EXCEPT ![s] = "none"]
  /\ owner' = [t \in Sessions |-> IF owner[t] = s THEN t ELSE owner[t]]
  /\ naming' = [naming EXCEPT ![s] = Nobody]
  /\ DropDrain(s)
  /\ Gone(s)
  /\ UNCHANGED <<delivery, records, queue, running, notify, stopAll, life, used>>

\* The Runtime did not stop: the context is kept, as crashed.
StopFails(s) ==
  /\ Idle /\ ctx[s] = "stopping"
  /\ Happens("stopFault")
  /\ ctx' = [ctx EXCEPT ![s] = "crashed"]
  /\ UNCHANGED <<coordinatorVars, owner, naming, runOpen, stopAll, piVars, life>>

BeginStopAll ==
  /\ Idle /\ ~stopAll
  /\ Happens("stopAll")
  /\ stopAll' = TRUE
  /\ UNCHANGED <<coordinatorVars, ctx, owner, naming, runOpen, piVars, life>>

EndStopAll ==
  /\ Idle /\ stopAll
  /\ \A s \in Sessions : ctx[s] \in {"absent", "none", "crashed"}
  /\ stopAll' = FALSE
  /\ UNCHANGED <<coordinatorVars, ctx, owner, naming, runOpen, piVars, life, used>>

-----------------------------------------------------------------------------
Agent ==
  \E s, t \in Sessions : Send(s, t) \/ Spawn(s, t) \/ Cancel(s, t)
Continue(s) ==
  \/ Drain(s) \/ DrainNothing(s) \/ LaunchDone(s) \/ LaunchFails(s)
  \/ SpawnDone(s) \/ SpawnFails(s) \/ SpawnNamed(s)
Pi(s) == PiTakesPrompt(s) \/ PiTakesAbort(s) \/ PiSettles(s)
Handle(s) ==
  \/ HandleStart(s) \/ HandleSettled(s) \/ HandleAccepted(s)
  \/ HandleRejected(s) \/ HandleAbortFailed(s)
Control(s) ==
  \/ Activate(s) \/ UserPrompt(s) \/ UserAbort(s) \/ Crash(s)
  \/ Stop(s) \/ NamingFails(s) \/ Hibernate(s) \/ StopDone(s) \/ StopFails(s)

Next ==
  \/ Agent \/ BeginStopAll \/ EndStopAll
  \/ \E s \in Sessions :
       Continue(s) \/ Pi(s) \/ PiStartsOwnRun(s) \/ Handle(s) \/ Control(s)

Spec == Init /\ [][Next]_vars

\* The event loop goes on: while a microtask, an event, or the end of a launch, a
\* spawn or a stop waits, some of it is handled.  Pi goes on too: it takes its
\* commands and ends its runs.
FairSpec ==
  /\ Spec
  /\ \A s \in Sessions :
       /\ WF_vars(Continue(s) \/ Handle(s) \/ StopDone(s))
       /\ WF_vars(PiTakesPrompt(s) \/ PiTakesAbort(s) \/ PiSettles(s))

-----------------------------------------------------------------------------
(* Properties                                                              *)

\* The three bookkeeping structures of the coordinator tell one story: a
\* remembered delivery is queued exactly when it waits once in its target's
\* queue, it runs only as the one its target works on, and what a target works
\* on is its own, running or cancelled meanwhile.
BooksAgree ==
  /\ \A d \in Made :
       /\ delivery[d].status = "queued" =>
            d \in records /\ d \in Range(queue[delivery[d].target])
       /\ delivery[d].status = "running" =>
            d \in records /\ running[delivery[d].target] = d
  /\ \A s \in Sessions :
       /\ IsInjective(queue[s])
       /\ \A d \in Range(queue[s]) :
            d \in Made /\ delivery[d].status = "queued" /\ delivery[d].target = s
       /\ running[s] # NoDelivery =>
            /\ running[s] \in Made /\ delivery[running[s]].target = s
            /\ delivery[running[s]].status \in {"running", "cancelled"}

\* A sender is told at most once about a delivery, only if it asked, only once
\* the delivery is over, and never about a notification (docs: completions are
\* sent back at most once and do not recurse).
ReportedOnce ==
  \A c \in Made : delivery[c].kind = "completion" =>
    LET d == delivery[c].about IN
    /\ d \in Made /\ delivery[d].kind = "message" /\ delivery[d].asked
    /\ delivery[d].status \in Final
    /\ delivery[c].source = delivery[d].target
    /\ delivery[c].target = delivery[d].source
    /\ \A e \in Made :
         delivery[e].kind = "completion" /\ delivery[e].about = d => e = c

\* Nothing is sent again: a delivery that left its queue never returns to it,
\* and a completed, failed or interrupted one never changes (D-099).
NeverReplayed ==
  [][\A d \in Made :
       /\ delivery[d].status # "queued" => delivery'[d].status # "queued"
       /\ delivery[d].status \in {"completed", "failed", "interrupted"} =>
            delivery'[d] = delivery[d]]_vars

\* The answer recorded for a delivery is the answer of the run it started.
ResultIsOwn ==
  \A d \in Made : delivery[d].result \in {NoDelivery, d}

Prompts(s) == {i \in DOMAIN commands[s] : commands[s][i].type = "prompt"}

\* A target that is busy is sent no prompt: at most one is on its way, and none
\* while a run is on.
BusyGetsNoPrompt ==
  \A s \in Sessions :
    Cardinality(Prompts(s)) + (IF pi[s] = NoDelivery THEN 0 ELSE 1) <= 1

\* The abort that a cancel sends reaches no run but that of the cancelled delivery.
AbortHitsItsRun ==
  \A s \in Sessions :
    (commands[s] # <<>> /\ Head(commands[s]).type = "abort"
       /\ Head(commands[s]).run # NoDelivery)
    => \/ pi[s] = NoDelivery
       \/ pi[s] = Head(commands[s]).run /\ delivery[pi[s]].status = "cancelled"

\* A Session that was stopped is not restarted by the completion of something
\* it sent before.  The one hole of the code is named: a spawn that awaits a title
\* or a model overlooks a stop of its owner, and only the stops that follow the
\* recording of its task count.
StoppedSenderIsLeftAlone ==
  \A c \in Made : delivery[c].kind = "completion" =>
    LET d == delivery[c].about IN
    \/ delivery[c].life = delivery[d].life
    \/ Overlooked(d) /\ delivery[c].life = delivery[d].since

\* The same without the hole, as the comment in interrupted() has it
\* (session-collaboration.ts:117).  The code does not keep it.
StoppedSenderIsNeverTold ==
  \A c \in Made : delivery[c].kind = "completion" =>
    delivery[c].life = delivery[delivery[c].about].life

\* All that waits for s is such work, recorded while s was being stopped: the drain
\* of the recording found s stopping, and the end of a stop schedules none.
Stranded(s) == \A d \in Range(queue[s]) : delivery[d].stranded

\* A Session that could take its next delivery is about to look for it.  The hole
\* is that of StoppedSenderIsLeftAlone: the task of a spawn whose new Session is
\* being stopped, or the completion a stopped owner gets, has come too late.
NoLostWakeup ==
  \A s \in Sessions : CanDrain(s) => s \in due \/ Stranded(s)

\* A delivery is handed to Pi only while it runs, so not once it is cancelled.
CancelledIsNotHanded ==
  [][\A s \in Sessions, d \in Made :
       (commands'[s] = Append(commands[s],
          [type |-> "prompt", run |-> d, told |-> FALSE]))
       => delivery'[d].status = "running"]_vars

\* Whatever is queued or running is over some day, unless its target's Runtime
\* has crashed and nobody restarts it, or it came too late as above.
EachConcludes ==
  \A d \in Deliveries :
    delivery[d].status \in Active ~>
      \/ delivery[d].status \in Final
      \/ /\ d \in Made
         /\ ctx[delivery[d].target] = "crashed" \/ delivery[d].stranded

=============================================================================
