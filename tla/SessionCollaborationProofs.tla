---------------------- MODULE SessionCollaborationProofs ----------------------
(***************************************************************************)
(* What SessionCollaboration guarantees for every set of Sessions, every   *)
(* capacity and every number of outside events: the coordinator's books    *)
(* agree, a sender is told at most once, and nothing is sent again; until  *)
(* Pi starts a run of its own, answers, prompts and aborts reach the run   *)
(* they belong to; until an abort fails, no Session is told of what was    *)
(* recorded before it was stopped; and no wake-up is lost while neither    *)
(* hibernation nor a stop of everything interferes.  A spawn that awaits a *)
(* title or a model is the exception that the last two properties name.    *)
(***************************************************************************)
EXTENDS SessionCollaborationBooks

USE BoundIsPositive, CapacityIsPositive

-----------------------------------------------------------------------------
(* The inductive invariant                                                 *)

Coord == Coordinated(delivery, records, queue, running, notify)

\* Deliveries whose sender asked to be told.
Known(d) == d \in Made /\ delivery[d].kind = "message" /\ delivery[d].asked

\* A channel says "told" only of those, so a failed abort adds no other to notify.
SaidCommand == {c \in Command : c.told => Known(c.run)}
SaidEvent == {e \in Event : e.told => Known(e.run)}

ScheduleTypes ==
  /\ draining \in [Sessions -> Deliveries \cup {NoDelivery}]
  /\ due \in SUBSET Sessions
ContextTypes ==
  /\ ctx \in [Sessions -> Status]
  /\ owner \in [Sessions -> Sessions]
  /\ runOpen \in [Sessions -> BOOLEAN]
  /\ stopAll \in BOOLEAN
PiTypes ==
  /\ commands \in [Sessions -> Seq(SaidCommand)]
  /\ events \in [Sessions -> Seq(SaidEvent)]
  /\ pi \in [Sessions -> Run \cup {NoDelivery}]
HistoryTypes ==
  /\ life \in [Sessions -> Nat]
  /\ used \in [OutsideEvent -> Nat]

\* A spawn that awaits a title or a model has a new Session that is up, and a
\* source that was there.
Unborn == {"absent", "spawning"}
Up == {"ready", "running", "stopping", "crashed"}
Named ==
  /\ naming \in [Sessions -> Naming \cup {Nobody}]
  /\ \A s \in Sessions : naming[s] # Nobody =>
       ctx[s] \in Up /\ ctx[naming[s].source] \notin Unborn

IInv == Coord /\ ScheduleTypes /\ ContextTypes /\ PiTypes /\ HistoryTypes /\ Named

LEMMA MadeIsMade == MadeIn(delivery) = Made /\ MadeIn(delivery') = Made'
BY DEF MadeIn, Made

LEMMA ForwardSame ==
  ASSUME NEW dl
  PROVE  Forward(dl, dl)
BY DEF Forward

LEMMA ForwardTwice ==
  ASSUME NEW dl, NEW dl2, NEW dl3, Forward(dl, dl2), Forward(dl2, dl3)
  PROVE  Forward(dl, dl3)
<1> SUFFICES ASSUME NEW d \in MadeIn(dl)
             PROVE  /\ d \in MadeIn(dl3)
                    /\ dl3[d].kind = dl[d].kind /\ dl3[d].asked = dl[d].asked
                    /\ dl[d].status # "queued" => dl3[d].status # "queued"
                    /\ dl[d].status \in {"completed", "failed", "interrupted"}
                         => dl3[d] = dl[d]
  BY DEF Forward
<1>1. /\ d \in MadeIn(dl2)
      /\ dl2[d].kind = dl[d].kind /\ dl2[d].asked = dl[d].asked
      /\ dl[d].status # "queued" => dl2[d].status # "queued"
      /\ dl[d].status \in {"completed", "failed", "interrupted"} => dl2[d] = dl[d]
  BY DEF Forward
<1>2. /\ d \in MadeIn(dl3)
      /\ dl3[d].kind = dl2[d].kind /\ dl3[d].asked = dl2[d].asked
      /\ dl2[d].status # "queued" => dl3[d].status # "queued"
      /\ dl2[d].status \in {"completed", "failed", "interrupted"} => dl3[d] = dl2[d]
  BY <1>1 DEF Forward
<1> QED BY <1>1, <1>2

\* A delivery somebody asked about stays one.
LEMMA SaidGrows ==
  ASSUME Forward(delivery, delivery')
  PROVE  /\ Seq(SaidCommand) \subseteq Seq(SaidCommand')
         /\ Seq(SaidEvent) \subseteq Seq(SaidEvent')
<1>1. ASSUME NEW d, Known(d) PROVE Known(d)'
  BY <1>1, MadeIsMade DEF Known, Forward
<1>2. SaidCommand \subseteq SaidCommand' /\ SaidEvent \subseteq SaidEvent'
  BY <1>1 DEF SaidCommand, SaidEvent
<1> QED BY <1>2, SeqMonotonic

LEMMA PiTypesStay ==
  ASSUME PiTypes, Forward(delivery, delivery'),
         UNCHANGED <<commands, events, pi>>
  PROVE  PiTypes'
BY SaidGrows DEF PiTypes

LEMMA CoordStays ==
  ASSUME Coord, UNCHANGED <<delivery, records, queue, running, notify>>
  PROVE  Coord' /\ Forward(delivery, delivery')
<1>1. Coord'
  BY DEF Coord
<1> QED BY <1>1, ForwardSame

\* The invariant is all of the properties.
LEMMA IInvImplies == IInv => TypeOK /\ BooksAgree /\ ReportedOnce
<1> SUFFICES ASSUME IInv PROVE TypeOK /\ BooksAgree /\ ReportedOnce
  OBVIOUS
<1>1. Coordinated(delivery, records, queue, running, notify)
  BY DEF IInv, Coord
<1>2. TypeOK
  <2>1. SaidCommand \subseteq Command /\ SaidEvent \subseteq Event
    BY DEF SaidCommand, SaidEvent
  <2>2. Seq(SaidCommand) \subseteq Seq(Command) /\ Seq(SaidEvent) \subseteq Seq(Event)
    BY <2>1, SeqMonotonic
  <2>3. /\ commands \in [Sessions -> Seq(Command)]
        /\ events \in [Sessions -> Seq(Event)]
        /\ pi \in [Sessions -> Run \cup {NoDelivery}]
    BY <2>2 DEF IInv, PiTypes
  <2>4. records \in SUBSET Deliveries
    BY <1>1 DEF Coordinated, Shape, MadeIn
  <2> QED BY <1>1, <2>3, <2>4
          DEF TypeOK, IInv, Coordinated, Shape, ScheduleTypes, ContextTypes,
              HistoryTypes, Named
<1>3. BooksAgree
  BY <1>1, MadeIsMade DEF BooksAgree, Coordinated, Placed, QueuesAgree, RunsAgree
<1>4. ReportedOnce
  BY <1>1, MadeIsMade DEF ReportedOnce, Coordinated, Reported
<1> QED BY <1>2, <1>3, <1>4

-----------------------------------------------------------------------------
(* The coordinator's operations as they appear in the actions              *)

LEMMA DeliveriesAreFinite ==
  /\ Deliveries \subseteq Nat /\ IsFiniteSet(Deliveries)
<1>1. 1 \in Int /\ MaxDeliveries \in Int
  OBVIOUS
<1>2. IsFiniteSet(1..MaxDeliveries)
  BY <1>1, FS_Interval
<1> QED BY <1>2 DEF Deliveries

\* What enqueue() chooses: a fresh id, and room for it that costs no delivery
\* which is queued or running.
LEMMA EnqueueMakesRoom ==
  ASSUME NEW table, NEW item, Enqueue(table, item),
         records \subseteq Deliveries, Cardinality(records) <= Capacity
  PROVE  /\ Min(Unused) \in Deliveries \ Made
         /\ \A d \in Expired(table) : table[d].status \notin Active
         /\ Cardinality((records \ Expired(table)) \cup {Min(Unused)}) <= Capacity
<1>1. Min(Unused) \in Unused
  BY MinIsMember, DeliveriesAreFinite DEF Enqueue, Unused
<1>2. Min(Unused) \in Deliveries \ Made
  BY <1>1 DEF Unused
<1>3. IsFiniteSet(records)
  BY DeliveriesAreFinite, FS_Subset
<1>4. Cardinality(records) \in Nat
  BY <1>3, FS_CardinalityType
<1> DEFINE id == Min(Unused)
           gone == Expired(table)
           left == records \ gone
<1>5. /\ \A d \in gone : table[d].status \notin Active
      /\ IsFiniteSet(left) /\ Cardinality(left) \in Nat
      /\ Cardinality(left) < Capacity
  <2>1. CASE Cardinality(records) < Capacity
    <3>1. gone = {} /\ left = records
      BY <2>1 DEF Expired
    <3> QED BY <3>1, <2>1, <1>3, <1>4
  <2>2. CASE ~(Cardinality(records) < Capacity)
    <3>1. Inactive(table) # {} /\ Inactive(table) \subseteq Nat
      BY <2>2, DeliveriesAreFinite DEF Enqueue, HasRoom, Inactive
    <3>2. Min(Inactive(table)) \in Inactive(table)
      BY <3>1, MinIsMember
    <3>3. gone = {Min(Inactive(table))}
      BY <2>2 DEF Expired
    <3> DEFINE x == Min(Inactive(table))
    <3>4. x \in records /\ table[x].status \notin Active
      BY <3>2 DEF Inactive
    <3> HIDE DEF x
    <3>5. IsFiniteSet(records \ {x}) /\ Cardinality(records \ {x}) = Cardinality(records) - 1
      BY <3>4, <1>3, FS_RemoveElement
    <3>6. left = records \ {x} /\ \A d \in gone : table[d].status \notin Active
      BY <3>3, <3>4 DEF x
    <3> HIDE DEF gone, left
    <3>7. IsFiniteSet(left) /\ Cardinality(left) = Cardinality(records) - 1
      BY <3>5, <3>6
    <3>8. Cardinality(left) \in Nat
      BY <3>7, FS_CardinalityType
    <3>9. Cardinality(left) < Capacity
      BY <3>7, <1>4
    <3> QED BY <3>6, <3>7, <3>8, <3>9
  <2> QED BY <2>1, <2>2
<1> HIDE DEF id, gone, left
<1>6. Cardinality(left \cup {id}) <= Cardinality(left) + 1
  <2>1. Cardinality(left \cup {id}) = IF id \in left THEN Cardinality(left)
                                                    ELSE Cardinality(left) + 1
    BY <1>5, FS_AddElement
  <2> QED BY <2>1, <1>5
<1>7. Cardinality(left \cup {id}) \in Nat
  <2>1. IsFiniteSet(left \cup {id})
    BY <1>5, FS_AddElement
  <2> QED BY <2>1, FS_CardinalityType
<1>8. Cardinality(left \cup {id}) <= Capacity
  BY <1>5, <1>6, <1>7
<1> QED BY <1>2, <1>5, <1>8 DEF id, gone, left

\* A request of an agent.
Request(item) ==
  /\ item \in Delivery
  /\ item.kind = "message" /\ item.status = "queued" /\ item.result = NoDelivery

LEMMA ItemIsRequest ==
  ASSUME life \in [Sessions -> Nat],
         NEW src \in Sessions, NEW t \in Sessions, NEW asked \in BOOLEAN,
         NEW item, item = Item(src, t, asked)
  PROVE  /\ Request(item)
         /\ item.source = src /\ item.target = t
         /\ item.life = life[src] /\ item.since = life[src] /\ item.stranded = FALSE
BY DEF Item, Request, Delivery, Active

LEMMA TaskIsRequest ==
  ASSUME life \in [Sessions -> Nat], Named,
         NEW t \in Sessions, naming[t] # Nobody, NEW asked \in BOOLEAN,
         NEW item, item = Task(t, asked)
  PROVE  /\ naming[t] \in Naming
         /\ Request(item)
         /\ item.source = naming[t].source /\ item.target = t
         /\ item.life = naming[t].life /\ item.since = life[naming[t].source]
         /\ item.stranded = (ctx[t] = "stopping")
<1> DEFINE src == naming[t].source
           old == Item(src, t, asked)
           stranded == ctx[t] = "stopping"
<1>1. /\ naming[t] \in Naming
      /\ src \in Sessions /\ naming[t].life \in Nat
  BY DEF Named, Naming
<1>2. item = [old EXCEPT !.life = naming[t].life, !.stranded = stranded]
      /\ stranded \in BOOLEAN
  BY DEF Task
<1> HIDE DEF src, stranded
<1>3. old = Item(src, t, asked)
  OBVIOUS
<1> HIDE DEF old
<1>4. /\ Request(old)
      /\ old.source = src /\ old.target = t /\ old.since = life[src]
  BY <1>1, <1>3 DEF Item, Request, Delivery, Active
<1>5. /\ Request(item)
      /\ item.source = old.source /\ item.target = old.target
      /\ item.since = old.since /\ item.life = naming[t].life
      /\ item.stranded = stranded
  BY <1>1, <1>2, <1>4 DEF Request, Delivery
<1> QED BY <1>1, <1>4, <1>5 DEF src, stranded

LEMMA SubmitKeeps ==
  ASSUME Coord, due \in SUBSET Sessions, NEW item, Request(item), Submit(item)
  PROVE  /\ Coord' /\ Forward(delivery, delivery') /\ due' \in SUBSET Sessions
         /\ draining' = draining
<1> DEFINE id == Min(Unused)
           gone == Expired(delivery)
           nt2 == IF item.asked THEN notify \cup {id} ELSE notify
<1>1. Enqueue(delivery, item) /\ notify' = nt2 /\ running' = running
  BY DEF Submit
<1>2. Shape(delivery, records, queue, running, notify)
  BY DEF Coord, Coordinated
<1>3. records \subseteq Deliveries /\ Cardinality(records) <= Capacity
  BY <1>2 DEF Shape, MadeIn
<1>4. /\ item \in Delivery /\ item.status = "queued" /\ item.kind = "message"
      /\ item.target \in Sessions
  BY DEF Request, Delivery
<1>5. /\ id \in Deliveries \ Made
      /\ \A d \in gone : delivery[d].status \notin Active
      /\ Cardinality((records \ gone) \cup {id}) <= Capacity
  BY <1>1, <1>3, EnqueueMakesRoom
<1>6. /\ delivery' = [delivery EXCEPT ![id] = item]
      /\ records' = (records \ gone) \cup {id}
      /\ queue' = [queue EXCEPT ![item.target] = Append(@, id)]
  BY <1>1 DEF Enqueue
<1>7. notify' = notify \/ (notify' = notify \cup {id} /\ item.asked)
  BY <1>1
<1> HIDE DEF id, gone, nt2
<1>8. id \in Deliveries \ MadeIn(delivery)
  BY <1>5, MadeIsMade
<1>9. Enqueues(delivery, records, queue, running, notify, item, id, gone,
               delivery', records', queue', notify')
  BY <1>4, <1>5, <1>6, <1>7, <1>8 DEF Enqueues
<1>10. Coord' /\ Forward(delivery, delivery')
  BY <1>1, <1>9, EnqueueKeeps DEF Coord
<1>11. due' \in SUBSET Sessions /\ draining' = draining
  BY <1>4 DEF Submit
<1> QED BY <1>10, <1>11

\* The end of what a target works on.
LEMMA SettledKeeps ==
  ASSUME Coord, life \in [Sessions -> Nat], due \in SUBSET Sessions,
         NEW s \in Sessions, NEW result \in Run \cup {NoDelivery}, NEW outcome \in Final,
         Settled(s, result, outcome)
  PROVE  Coord' /\ Forward(delivery, delivery') /\ due' \in SUBSET Sessions
<1> DEFINE d == running[s]
           run2 == [running EXCEPT ![s] = NoDelivery]
<1>1. running' = run2
  BY DEF Settled
<1>2. Shape(delivery, records, queue, running, notify)
  BY DEF Coord, Coordinated
<1>3. CASE ~(d \in records /\ delivery[d].status = "running")
  <2>1. Coordinated(delivery, records, queue, running', notify)
    <3>1. Releases(delivery, records, running, s, running')
      BY <1>1, <1>3 DEF Releases
    <3> QED BY <3>1, ReleaseKeeps DEF Coord
  <2>2. /\ due' = due \cup {s}
        /\ UNCHANGED <<delivery, records, queue, notify>>
    BY <1>3 DEF Settled, Wake
  <2>3. Coord'
    BY <2>1, <2>2 DEF Coord
  <2> QED BY <2>2, <2>3, ForwardSame
<1>4. CASE d \in records /\ delivery[d].status = "running"
  <2> DEFINE table == [delivery EXCEPT ![d].status = outcome, ![d].result = result]
             nt2 == notify \ {d}
  <2>1. /\ Coordinated(table, records, queue, running', nt2)
        /\ Forward(delivery, table) /\ Restated(delivery, table)
        /\ table[d].status = outcome
    <3>1. table = [delivery EXCEPT ![d] = WithResult(@, outcome, result)]
      BY <1>2 DEF WithResult, Shape
    <3> HIDE DEF table
    <3>2. Concludes(delivery, records, running, notify, s, outcome, result,
                    table, running', nt2)
      BY <1>1, <1>4, <3>1 DEF Concludes
    <3> QED BY <3>2, ConcludeKeeps DEF Coord
  <2>2. /\ notify' = nt2
        /\ \/ /\ ReportsBack(d)
              /\ Enqueue(table, Completion(d))
              /\ due' = due \cup {s, delivery[d].source}
           \/ /\ delivery' = table
              /\ due' = due \cup {s}
              /\ UNCHANGED <<records, queue>>
    BY <1>4 DEF Settled, Conclude, Wake
  <2>3. d \in MadeIn(delivery) /\ d \in Deliveries /\ delivery[d].target = s
    BY <1>2, <1>4 DEF Shape, MadeIn, Coord, Coordinated, RunsAgree, Deliveries, NoDelivery
  <2>4. /\ delivery[d].source \in Sessions
        /\ delivery[d].kind \in {"message", "completion"}
    BY <1>2, <2>3, MadeIsDelivery DEF Shape
  <2>5. due' \in SUBSET Sessions
    BY <2>2, <2>4
  <2> HIDE DEF table, nt2
  <2>6. CASE delivery' = table /\ UNCHANGED <<records, queue>>
    <3>1. Coord'
      BY <2>1, <2>2, <2>6 DEF Coord
    <3> QED BY <2>1, <2>5, <2>6, <3>1
  <2>7. CASE ReportsBack(d) /\ Enqueue(table, Completion(d))
    <3> DEFINE item == Completion(d)
               id == Min(Unused)
               gone == Expired(table)
    <3>1. /\ item \in Delivery /\ item.status = "queued" /\ item.kind = "completion"
          /\ item.about = d /\ item.source = s /\ item.target = delivery[d].source
      BY <2>3, <2>4 DEF Completion, Delivery, Active
    <3> HIDE DEF item
    <3>2. records \subseteq Deliveries /\ Cardinality(records) <= Capacity
      BY <1>2 DEF Shape, MadeIn
    <3>3. /\ id \in Deliveries \ Made
          /\ \A e \in gone : table[e].status \notin Active
          /\ Cardinality((records \ gone) \cup {id}) <= Capacity
      BY <2>7, <3>2, EnqueueMakesRoom DEF item
    <3>4. /\ delivery' = [table EXCEPT ![id] = item]
          /\ records' = (records \ gone) \cup {id}
          /\ queue' = [queue EXCEPT ![item.target] = Append(@, id)]
      BY <2>7 DEF Enqueue, item
    <3> HIDE DEF id, gone
    <3>5. MadeIn(table) = Made /\ id \in Deliveries \ MadeIn(table)
      BY <2>1, <3>3, MadeIsMade DEF Restated
    <3>6. d \in notify /\ delivery[d].kind = "message" /\ delivery[d].asked
      BY <2>4, <2>7 DEF ReportsBack, Coord, Coordinated, NotifyIsOpen
    <3>7. /\ table[d].source = delivery[d].source /\ table[d].target = s
          /\ table[d].kind = "message" /\ table[d].asked
          /\ table[d].status \in Final /\ d \in MadeIn(table)
      BY <2>1, <2>3, <3>6 DEF Restated
    \* No completion is about d: it ran until now, and a reported one is over.
    <3>8. ASSUME NEW e \in MadeIn(table), table[e].kind = "completion"
          PROVE  table[e].about # d
      <4>1. e \in MadeIn(delivery) /\ delivery[e].kind = "completion"
            /\ delivery[e].about = table[e].about
        BY <2>1, <3>8 DEF Restated
      <4>2. delivery[delivery[e].about].status \in Final
        BY <4>1 DEF Coord, Coordinated, Reported
      <4> QED BY <1>4, <4>1, <4>2 DEF Final
    <3>9. running'[s] # d
      BY <1>1, <1>2, <2>3 DEF Shape, Deliveries, NoDelivery
    <3> HIDE DEF d
    <3>10. Reportable(table, running', item.about)
      BY <3>1, <3>7, <3>8, <3>9 DEF Reportable
    <3>11. Enqueues(table, records, queue, running', nt2, item, id, gone,
                    delivery', records', queue', nt2)
      BY <3>1, <3>3, <3>4, <3>5, <3>7, <3>10 DEF Enqueues
    <3>12. Coordinated(delivery', records', queue', running', nt2)
           /\ Forward(table, delivery')
      BY <2>1, <3>11, EnqueueKeeps
    <3>13. Coord'
      BY <2>2, <3>12 DEF Coord
    <3>14. Forward(delivery, delivery')
      BY <2>1, <3>12, ForwardTwice
    <3> QED BY <2>5, <3>13, <3>14
  <2> QED BY <2>2, <2>6, <2>7
<1> QED BY <1>3, <1>4

\* A Session that crashed or was stopped.
LEMMA InterruptedKeeps ==
  ASSUME Coord, life \in [Sessions -> Nat], NEW s \in Sessions, Interrupted(s)
  PROVE  Coord' /\ Forward(delivery, delivery') /\ life' \in [Sessions -> Nat]
<1> DEFINE hit == Hit(s)
<1>1. hit = {d \in records : delivery[d].target = s /\ delivery[d].status \in Active}
  BY DEF Hit, IsActive
<1>2. notify' \subseteq notify \ hit
  BY DEF Interrupted, StillTold
<1>3. /\ running' = [running EXCEPT ![s] = NoDelivery]
      /\ queue' = [queue EXCEPT ![s] = <<>>]
      /\ records' = records
      /\ delivery' = [d \in Deliveries |->
           IF d \in hit THEN WithStatus(delivery[d], "interrupted") ELSE delivery[d]]
  BY DEF Interrupted, WithStatus
<1> HIDE DEF hit
<1>4. Interrupts(delivery, records, queue, running, notify, s, hit,
                 delivery', queue', running', notify')
  BY <1>1, <1>2, <1>3 DEF Interrupts
<1>5. Coord' /\ Forward(delivery, delivery')
  BY <1>3, <1>4, InterruptKeeps DEF Coord
<1>6. life' \in [Sessions -> Nat]
  BY DEF Interrupted
<1> QED BY <1>5, <1>6

\* The drain of a target ends.
LEMMA EndDrainKeeps ==
  ASSUME Coord, ScheduleTypes, NEW s \in Sessions, EndDrain(s)
  PROVE  Coord' /\ Forward(delivery, delivery') /\ ScheduleTypes'
<1>1. Coord' /\ Forward(delivery, delivery')
  BY CoordStays DEF EndDrain
<1>2. ScheduleTypes'
  BY DEF EndDrain, ScheduleTypes
<1> QED BY <1>1, <1>2

LEMMA FailDrainKeeps ==
  ASSUME Coord, ScheduleTypes, life \in [Sessions -> Nat],
         NEW s \in Sessions, FailDrain(s)
  PROVE  Coord' /\ Forward(delivery, delivery') /\ ScheduleTypes'
<1>1. CASE EndDrain(s)
  BY <1>1, EndDrainKeeps
<1>2. CASE /\ draining' = [draining EXCEPT ![s] = NoDelivery]
           /\ Settled(s, NoDelivery, "failed")
  <2>1. NoDelivery \in Run \cup {NoDelivery} /\ "failed" \in Final
    BY DEF Final
  <2>2. due \in SUBSET Sessions
    BY DEF ScheduleTypes
  <2>3. Coord' /\ Forward(delivery, delivery') /\ due' \in SUBSET Sessions
    BY <1>2, <2>1, <2>2, SettledKeeps
  <2>4. draining' \in [Sessions -> Deliveries \cup {NoDelivery}]
    BY <1>2 DEF ScheduleTypes
  <2> QED BY <2>3, <2>4 DEF ScheduleTypes
<1> QED BY <1>1, <1>2 DEF FailDrain

LEMMA DropDrainTypes ==
  ASSUME ScheduleTypes, NEW s \in Sessions, DropDrain(s)
  PROVE  ScheduleTypes'
BY DEF DropDrain, ScheduleTypes

-----------------------------------------------------------------------------
(* Channels                                                                *)

LEMMA HappensTypes ==
  ASSUME used \in [OutsideEvent -> Nat], NEW k \in OutsideEvent, Happens(k)
  PROVE  used' \in [OutsideEvent -> Nat]
BY DEF Happens

\* Channels typed in the old state are typed in the new one.
LEMMA PiTypesGrow ==
  ASSUME Forward(delivery, delivery'),
         commands' \in [Sessions -> Seq(SaidCommand)],
         events' \in [Sessions -> Seq(SaidEvent)],
         pi' \in [Sessions -> Run \cup {NoDelivery}]
  PROVE  PiTypes'
BY SaidGrows DEF PiTypes

LEMMA SendsCommand ==
  ASSUME commands \in [Sessions -> Seq(SaidCommand)],
         NEW s \in Sessions, NEW c \in SaidCommand,
         commands' = [commands EXCEPT ![s] = Append(@, c)]
  PROVE  commands' \in [Sessions -> Seq(SaidCommand)]
<1>1. Append(commands[s], c) \in Seq(SaidCommand)
  BY AppendProperties
<1> QED BY <1>1

LEMMA TakesCommand ==
  ASSUME commands \in [Sessions -> Seq(SaidCommand)],
         NEW s \in Sessions, NEW type, Takes(s, type)
  PROVE  /\ Head(commands[s]) \in SaidCommand
         /\ commands' \in [Sessions -> Seq(SaidCommand)]
<1>1. commands[s] \in Seq(SaidCommand) /\ commands[s] # <<>>
  BY DEF Takes
<1>2. Head(commands[s]) \in SaidCommand /\ Tail(commands[s]) \in Seq(SaidCommand)
  BY <1>1, HeadTailProperties
<1> QED BY <1>2 DEF Takes

LEMMA ReceivesEvent ==
  ASSUME events \in [Sessions -> Seq(SaidEvent)],
         NEW s \in Sessions, NEW type, Receives(s, type)
  PROVE  /\ Head(events[s]) \in SaidEvent
         /\ events' \in [Sessions -> Seq(SaidEvent)]
<1>1. events[s] \in Seq(SaidEvent) /\ events[s] # <<>>
  BY DEF Receives
<1>2. Head(events[s]) \in SaidEvent /\ Tail(events[s]) \in Seq(SaidEvent)
  BY <1>1, HeadTailProperties
<1> QED BY <1>2 DEF Receives

LEMMA EmitsEvents ==
  ASSUME events \in [Sessions -> Seq(SaidEvent)],
         NEW s \in Sessions, NEW messages \in Seq(SaidEvent), Emits(s, messages)
  PROVE  events' \in [Sessions -> Seq(SaidEvent)]
<1>1. events[s] \o messages \in Seq(SaidEvent)
  BY ConcatProperties
<1> QED BY <1>1 DEF Emits

LEMMA EventTypes ==
  ASSUME NEW r \in Run \cup {NoDelivery}
  PROVE  /\ Started(r) \in SaidEvent /\ Accepted(r) \in SaidEvent
         /\ Rejected(r) \in SaidEvent
         /\ \A outcome \in {"completed", "failed", "cancelled"} :
              Ended(r, outcome) \in SaidEvent
         /\ \A told \in BOOLEAN : (told => Known(r)) => AbortFailed(r, told) \in SaidEvent
<1>1. /\ Started(r).type = "start" /\ Started(r).run = r /\ Started(r).told = FALSE
      /\ Started(r).outcome = "completed"
      /\ Started(r) \in Event
  BY DEF Started, Event
<1>2. Started(r) \in SaidEvent
  BY <1>1 DEF SaidEvent
<1>3. Accepted(r) \in Event /\ Accepted(r).told = FALSE
  BY DEF Accepted, Started, Event
<1>4. Rejected(r) \in Event /\ Rejected(r).told = FALSE
  BY DEF Rejected, Started, Event
<1>5. ASSUME NEW outcome \in {"completed", "failed", "cancelled"}
      PROVE  Ended(r, outcome) \in SaidEvent
  <2>1. Ended(r, outcome) \in Event /\ Ended(r, outcome).told = FALSE
    BY DEF Ended, Started, Event
  <2> QED BY <2>1 DEF SaidEvent
<1>6. ASSUME NEW told \in BOOLEAN, told => Known(r)
      PROVE  AbortFailed(r, told) \in SaidEvent
  <2>1. /\ AbortFailed(r, told) \in Event
        /\ AbortFailed(r, told).told = told /\ AbortFailed(r, told).run = r
    BY DEF AbortFailed, Started, Event
  <2> QED BY <1>6, <2>1 DEF SaidEvent
<1>7. Accepted(r) \in SaidEvent /\ Rejected(r) \in SaidEvent
  BY <1>3, <1>4 DEF SaidEvent
<1> QED BY <1>2, <1>5, <1>6, <1>7

LEMMA PromptType ==
  ASSUME NEW r \in Run \cup {NoDelivery}
  PROVE  [type |-> "prompt", run |-> r, told |-> FALSE] \in SaidCommand
BY DEF SaidCommand, Command

LEMMA AbortType ==
  ASSUME NEW r \in Run \cup {NoDelivery}, NEW told \in BOOLEAN, told => Known(r)
  PROVE  [type |-> "abort", run |-> r, told |-> told] \in SaidCommand
BY DEF SaidCommand, Command

LEMMA HandOverTypes ==
  ASSUME ContextTypes, commands \in [Sessions -> Seq(SaidCommand)],
         NEW s \in Sessions, NEW d \in Deliveries \cup {NoDelivery}, HandOver(s, d)
  PROVE  /\ ctx' \in [Sessions -> Status] /\ runOpen' \in [Sessions -> BOOLEAN]
         /\ commands' \in [Sessions -> Seq(SaidCommand)]
<1>1. [type |-> "prompt", run |-> d, told |-> FALSE] \in SaidCommand
  BY PromptType DEF Run
<1>2. commands' \in [Sessions -> Seq(SaidCommand)]
  BY <1>1, SendsCommand DEF HandOver
<1> QED BY <1>2 DEF HandOver, ContextTypes, Status

LEMMA GoneTypes ==
  ASSUME PiTypes, runOpen \in [Sessions -> BOOLEAN], Forward(delivery, delivery'),
         NEW s \in Sessions, Gone(s)
  PROVE  PiTypes' /\ runOpen' \in [Sessions -> BOOLEAN]
<1>1. <<>> \in Seq(SaidCommand) /\ <<>> \in Seq(SaidEvent)
  OBVIOUS
<1>2. /\ commands' \in [Sessions -> Seq(SaidCommand)]
      /\ events' \in [Sessions -> Seq(SaidEvent)]
      /\ pi' \in [Sessions -> Run \cup {NoDelivery}]
  BY <1>1 DEF Gone, PiTypes
<1> QED BY <1>2, PiTypesGrow DEF Gone

-----------------------------------------------------------------------------
(* Every action keeps the invariant                                        *)

\* The invariant but for Named, and no delivery goes back.
Keeps ==
  /\ Coord' /\ ScheduleTypes' /\ ContextTypes' /\ PiTypes' /\ HistoryTypes'
  /\ Forward(delivery, delivery')

\* The parts of the invariant that only speak of what is around the coordinator.
Around ==
  /\ ScheduleTypes /\ ContextTypes /\ HistoryTypes
  /\ commands \in [Sessions -> Seq(SaidCommand)]
  /\ events \in [Sessions -> Seq(SaidEvent)]
  /\ pi \in [Sessions -> Run \cup {NoDelivery}]

\* The same after a step, the channels still typed by what was asked before it.
AroundStep ==
  /\ ScheduleTypes' /\ ContextTypes' /\ HistoryTypes'
  /\ commands' \in [Sessions -> Seq(SaidCommand)]
  /\ events' \in [Sessions -> Seq(SaidEvent)]
  /\ pi' \in [Sessions -> Run \cup {NoDelivery}]

LEMMA IInvParts == IInv => Coord /\ Around
BY DEF IInv, Around, PiTypes

LEMMA LoudStep ==
  ASSUME Coord', Forward(delivery, delivery'), AroundStep
  PROVE  Keeps
BY PiTypesGrow DEF AroundStep, Keeps

LEMMA QuietStep ==
  ASSUME Coord, UNCHANGED <<delivery, records, queue, running, notify>>, AroundStep
  PROVE  Keeps
BY CoordStays, LoudStep

LEMMA SpawnKeeps ==
  ASSUME IInv, NEW src \in Sessions, NEW t \in Sessions,
         Spawn(src, t)
  PROVE  Keeps
<1>1. Coord /\ Around
  BY IInvParts
<1>2. UNCHANGED <<delivery, records, queue, running, notify>>
  BY DEF Spawn, coordinatorVars
<1>3. HistoryTypes'
  BY <1>1, HappensTypes DEF Around, HistoryTypes, Spawn, OutsideEvent, Disturbance
<1>4. ContextTypes' /\ ScheduleTypes'
  BY <1>1 DEF Around, ContextTypes, ScheduleTypes, Spawn, coordinatorVars, contextVars, Status
<1>5. UNCHANGED <<commands, events, pi>>
  BY DEF Spawn, piVars
<1>6. AroundStep
  BY <1>1, <1>3, <1>4, <1>5 DEF Around, AroundStep
<1> QED BY <1>1, <1>2, <1>6, QuietStep

LEMMA SpawnFailsKeeps ==
  ASSUME IInv, NEW t \in Sessions,
         SpawnFails(t)
  PROVE  Keeps
<1>1. Coord /\ Around
  BY IInvParts
<1>2. UNCHANGED <<delivery, records, queue, running, notify>>
  BY DEF SpawnFails, coordinatorVars
<1>3. HistoryTypes'
  BY <1>1, HappensTypes DEF Around, HistoryTypes, SpawnFails, OutsideEvent, Disturbance
<1>4. ContextTypes' /\ ScheduleTypes'
  BY <1>1 DEF Around, ContextTypes, ScheduleTypes, SpawnFails, coordinatorVars, contextVars, Status
<1>5. UNCHANGED <<commands, events, pi>>
  BY DEF SpawnFails, piVars
<1>6. AroundStep
  BY <1>1, <1>3, <1>4, <1>5 DEF Around, AroundStep
<1> QED BY <1>1, <1>2, <1>6, QuietStep

LEMMA DrainNothingKeeps ==
  ASSUME IInv, NEW s \in Sessions,
         DrainNothing(s)
  PROVE  Keeps
<1>1. Coord /\ Around
  BY IInvParts
<1>2. UNCHANGED <<delivery, records, queue, running, notify>>
  BY DEF DrainNothing, coordinatorVars
<1>3. HistoryTypes'
  BY <1>1 DEF Around, HistoryTypes, DrainNothing
<1>4. ContextTypes' /\ ScheduleTypes'
  BY <1>1 DEF Around, ContextTypes, ScheduleTypes, DrainNothing, coordinatorVars, contextVars, Status
<1>5. UNCHANGED <<commands, events, pi>>
  BY DEF DrainNothing, piVars
<1>6. AroundStep
  BY <1>1, <1>3, <1>4, <1>5 DEF Around, AroundStep
<1> QED BY <1>1, <1>2, <1>6, QuietStep

LEMMA ActivateKeeps ==
  ASSUME IInv, NEW s \in Sessions,
         Activate(s)
  PROVE  Keeps
<1>1. Coord /\ Around
  BY IInvParts
<1>2. UNCHANGED <<delivery, records, queue, running, notify>>
  BY DEF Activate, coordinatorVars
<1>3. HistoryTypes'
  BY <1>1 DEF Around, HistoryTypes, Activate
<1>4. ContextTypes' /\ ScheduleTypes'
  BY <1>1 DEF Around, ContextTypes, ScheduleTypes, Activate, coordinatorVars, contextVars, Status
<1>5. UNCHANGED <<commands, events, pi>>
  BY DEF Activate, piVars
<1>6. AroundStep
  BY <1>1, <1>3, <1>4, <1>5 DEF Around, AroundStep
<1> QED BY <1>1, <1>2, <1>6, QuietStep

LEMMA HibernateKeeps ==
  ASSUME IInv, NEW s \in Sessions,
         Hibernate(s)
  PROVE  Keeps
<1>1. Coord /\ Around
  BY IInvParts
<1>2. UNCHANGED <<delivery, records, queue, running, notify>>
  BY DEF Hibernate, coordinatorVars
<1>3. HistoryTypes'
  BY <1>1, HappensTypes DEF Around, HistoryTypes, Hibernate, OutsideEvent, Disturbance
<1>4. ContextTypes' /\ ScheduleTypes'
  BY <1>1 DEF Around, ContextTypes, ScheduleTypes, Hibernate, coordinatorVars, contextVars, Status
<1>5. UNCHANGED <<commands, events, pi>>
  BY DEF Hibernate, piVars
<1>6. AroundStep
  BY <1>1, <1>3, <1>4, <1>5 DEF Around, AroundStep
<1> QED BY <1>1, <1>2, <1>6, QuietStep

LEMMA StopFailsKeeps ==
  ASSUME IInv, NEW s \in Sessions,
         StopFails(s)
  PROVE  Keeps
<1>1. Coord /\ Around
  BY IInvParts
<1>2. UNCHANGED <<delivery, records, queue, running, notify>>
  BY DEF StopFails, coordinatorVars
<1>3. HistoryTypes'
  BY <1>1, HappensTypes DEF Around, HistoryTypes, StopFails, OutsideEvent, Disturbance
<1>4. ContextTypes' /\ ScheduleTypes'
  BY <1>1 DEF Around, ContextTypes, ScheduleTypes, StopFails, coordinatorVars, contextVars, Status
<1>5. UNCHANGED <<commands, events, pi>>
  BY DEF StopFails, piVars
<1>6. AroundStep
  BY <1>1, <1>3, <1>4, <1>5 DEF Around, AroundStep
<1> QED BY <1>1, <1>2, <1>6, QuietStep

LEMMA BeginStopAllKeeps ==
  ASSUME IInv, BeginStopAll
  PROVE  Keeps
<1>1. Coord /\ Around
  BY IInvParts
<1>2. UNCHANGED <<delivery, records, queue, running, notify>>
  BY DEF BeginStopAll, coordinatorVars
<1>3. HistoryTypes'
  BY <1>1, HappensTypes DEF Around, HistoryTypes, BeginStopAll, OutsideEvent, Disturbance
<1>4. ContextTypes' /\ ScheduleTypes'
  BY <1>1 DEF Around, ContextTypes, ScheduleTypes, BeginStopAll, coordinatorVars, contextVars, Status
<1>5. UNCHANGED <<commands, events, pi>>
  BY DEF BeginStopAll, piVars
<1>6. AroundStep
  BY <1>1, <1>3, <1>4, <1>5 DEF Around, AroundStep
<1> QED BY <1>1, <1>2, <1>6, QuietStep

LEMMA EndStopAllKeeps ==
  ASSUME IInv, EndStopAll
  PROVE  Keeps
<1>1. Coord /\ Around
  BY IInvParts
<1>2. UNCHANGED <<delivery, records, queue, running, notify>>
  BY DEF EndStopAll, coordinatorVars
<1>3. HistoryTypes'
  BY <1>1 DEF Around, HistoryTypes, EndStopAll
<1>4. ContextTypes' /\ ScheduleTypes'
  BY <1>1 DEF Around, ContextTypes, ScheduleTypes, EndStopAll, coordinatorVars, contextVars, Status
<1>5. UNCHANGED <<commands, events, pi>>
  BY DEF EndStopAll, piVars
<1>6. AroundStep
  BY <1>1, <1>3, <1>4, <1>5 DEF Around, AroundStep
<1> QED BY <1>1, <1>2, <1>6, QuietStep

LEMMA LaunchDoneKeeps ==
  ASSUME IInv, NEW s \in Sessions, LaunchDone(s)
  PROVE  Keeps
<1>1. Coord /\ Around
  BY IInvParts
<1>2. UNCHANGED <<delivery, records, queue, running, notify, draining, due,
                  owner, stopAll, events, pi, life, used>>
  BY DEF LaunchDone, coordinatorVars
<1>3. draining[s] \in Deliveries \cup {NoDelivery}
  BY <1>1 DEF Around, ScheduleTypes
<1>4. /\ ctx' \in [Sessions -> Status] /\ runOpen' \in [Sessions -> BOOLEAN]
      /\ commands' \in [Sessions -> Seq(SaidCommand)]
  BY <1>1, <1>3, HandOverTypes DEF LaunchDone, Around
<1>5. ScheduleTypes' /\ ContextTypes' /\ HistoryTypes'
  BY <1>1, <1>2, <1>4 DEF Around, ScheduleTypes, ContextTypes, HistoryTypes
<1>6. AroundStep
  BY <1>1, <1>2, <1>4, <1>5 DEF Around, AroundStep
<1> QED BY <1>1, <1>2, <1>6, QuietStep

LEMMA PiTakesPromptKeeps ==
  ASSUME IInv, NEW s \in Sessions, PiTakesPrompt(s)
  PROVE  Keeps
<1> DEFINE r == Head(commands[s]).run
<1>1. Coord /\ Around
  BY IInvParts
<1>2. UNCHANGED <<delivery, records, queue, running, notify, draining, due,
                  ctx, owner, runOpen, stopAll, life>>
  BY DEF PiTakesPrompt, coordinatorVars, contextVars
<1>3. /\ Head(commands[s]) \in SaidCommand
      /\ commands' \in [Sessions -> Seq(SaidCommand)]
  BY <1>1, TakesCommand DEF PiTakesPrompt, Around
<1>4. r \in Run \cup {NoDelivery}
  BY <1>3 DEF SaidCommand, Command
<1>5. events' \in [Sessions -> Seq(SaidEvent)] /\ pi' \in [Sessions -> Run \cup {NoDelivery}]
  <2> HIDE DEF r
  <2>0. /\ events \in [Sessions -> Seq(SaidEvent)]
        /\ pi \in [Sessions -> Run \cup {NoDelivery}]
    BY <1>1 DEF Around
  <2>1. CASE pi' = [pi EXCEPT ![s] = r] /\ Emits(s, <<Started(r), Accepted(r)>>)
    <3>1. <<Started(r), Accepted(r)>> \in Seq(SaidEvent)
      BY <1>4, EventTypes
    <3> QED BY <2>0, <2>1, <3>1, <1>4, EmitsEvents
  <2>2. CASE pi' = pi /\ Emits(s, <<Rejected(r)>>)
    <3>1. <<Rejected(r)>> \in Seq(SaidEvent)
      BY <1>4, EventTypes
    <3> QED BY <2>0, <2>2, <3>1, EmitsEvents
  <2> QED BY <2>1, <2>2 DEF PiTakesPrompt, r
<1>6. HistoryTypes'
  BY <1>1, <1>2, HappensTypes
     DEF Around, HistoryTypes, PiTakesPrompt, OutsideEvent, Disturbance
<1>7. ScheduleTypes' /\ ContextTypes'
  BY <1>1, <1>2 DEF Around, ScheduleTypes, ContextTypes
<1>8. AroundStep
  BY <1>3, <1>5, <1>6, <1>7 DEF AroundStep
<1> QED BY <1>1, <1>2, <1>8, QuietStep

LEMMA PiTakesAbortKeeps ==
  ASSUME IInv, NEW s \in Sessions, PiTakesAbort(s)
  PROVE  Keeps
<1> DEFINE c == Head(commands[s])
<1>1. Coord /\ Around
  BY IInvParts
<1>2. UNCHANGED <<delivery, records, queue, running, notify, draining, due,
                  ctx, owner, runOpen, stopAll, life>>
  BY DEF PiTakesAbort, coordinatorVars, contextVars
<1>3. c \in SaidCommand /\ commands' \in [Sessions -> Seq(SaidCommand)]
  BY <1>1, TakesCommand DEF PiTakesAbort, Around
<1>4. /\ c.run \in Run \cup {NoDelivery} /\ c.told \in BOOLEAN
      /\ c.told => Known(c.run)
  BY <1>3 DEF SaidCommand, Command
<1>5. events' \in [Sessions -> Seq(SaidEvent)] /\ pi' \in [Sessions -> Run \cup {NoDelivery}]
  <2> HIDE DEF c
  <2>0. /\ events \in [Sessions -> Seq(SaidEvent)]
        /\ pi \in [Sessions -> Run \cup {NoDelivery}]
        /\ pi[s] \in Run \cup {NoDelivery}
    BY <1>1 DEF Around
  <2>1. CASE pi' = [pi EXCEPT ![s] = NoDelivery] /\ Emits(s, <<Ended(pi[s], "cancelled")>>)
    <3>1. <<Ended(pi[s], "cancelled")>> \in Seq(SaidEvent)
      BY <2>0, EventTypes
    <3> QED BY <2>0, <2>1, <3>1, EmitsEvents
  <2>2. CASE pi' = pi /\ events' = events
    BY <2>0, <2>2
  <2>3. CASE pi' = pi /\ Emits(s, <<AbortFailed(c.run, c.told)>>)
    <3>1. <<AbortFailed(c.run, c.told)>> \in Seq(SaidEvent)
      BY <1>4, EventTypes
    <3> QED BY <2>0, <2>3, <3>1, EmitsEvents
  <2> QED BY <2>1, <2>2, <2>3 DEF PiTakesAbort, c
<1>6. HistoryTypes'
  BY <1>1, <1>2, HappensTypes
     DEF Around, HistoryTypes, PiTakesAbort, OutsideEvent, Disturbance
<1>7. ScheduleTypes' /\ ContextTypes'
  BY <1>1, <1>2 DEF Around, ScheduleTypes, ContextTypes
<1>8. AroundStep
  BY <1>3, <1>5, <1>6, <1>7 DEF AroundStep
<1> QED BY <1>1, <1>2, <1>8, QuietStep

LEMMA PiSettlesKeeps ==
  ASSUME IInv, NEW s \in Sessions, PiSettles(s)
  PROVE  Keeps
<1>1. Coord /\ Around
  BY IInvParts
<1>2. UNCHANGED <<delivery, records, queue, running, notify, draining, due,
                  ctx, owner, runOpen, stopAll, commands, life, used>>
  BY DEF PiSettles, coordinatorVars, contextVars
<1>3. /\ pi[s] \in Run \cup {NoDelivery}
      /\ pi' \in [Sessions -> Run \cup {NoDelivery}]
  BY <1>1 DEF Around, PiSettles
<1>4. <<Ended(pi[s], "completed")>> \in Seq(SaidEvent)
  BY <1>3, EventTypes
<1>5. events' \in [Sessions -> Seq(SaidEvent)]
  BY <1>1, <1>4, EmitsEvents DEF PiSettles, Around
<1>6. ScheduleTypes' /\ ContextTypes' /\ HistoryTypes'
  BY <1>1, <1>2 DEF Around, ScheduleTypes, ContextTypes, HistoryTypes
<1>7. AroundStep
  BY <1>1, <1>2, <1>3, <1>5, <1>6 DEF Around, AroundStep
<1> QED BY <1>1, <1>2, <1>7, QuietStep

LEMMA PiStartsOwnRunKeeps ==
  ASSUME IInv, NEW s \in Sessions, PiStartsOwnRun(s)
  PROVE  Keeps
<1>1. Coord /\ Around
  BY IInvParts
<1>2. UNCHANGED <<delivery, records, queue, running, notify, draining, due,
                  ctx, owner, runOpen, stopAll, commands, life>>
  BY DEF PiStartsOwnRun, coordinatorVars, contextVars
<1>3. OwnRun \in Run \cup {NoDelivery}
  BY DEF Run
<1>4. pi' \in [Sessions -> Run \cup {NoDelivery}]
  BY <1>1, <1>3 DEF Around, PiStartsOwnRun
<1>5. <<Started(OwnRun)>> \in Seq(SaidEvent)
  BY <1>3, EventTypes
<1>6. events' \in [Sessions -> Seq(SaidEvent)]
  BY <1>1, <1>5, EmitsEvents DEF PiStartsOwnRun, Around
<1>7. HistoryTypes'
  BY <1>1, <1>2, HappensTypes
     DEF Around, HistoryTypes, PiStartsOwnRun, OutsideEvent, Disturbance
<1>8. ScheduleTypes' /\ ContextTypes'
  BY <1>1, <1>2 DEF Around, ScheduleTypes, ContextTypes
<1>9. AroundStep
  BY <1>1, <1>2, <1>4, <1>6, <1>7, <1>8 DEF Around, AroundStep
<1> QED BY <1>1, <1>2, <1>9, QuietStep

LEMMA HandleStartKeeps ==
  ASSUME IInv, NEW s \in Sessions, HandleStart(s)
  PROVE  Keeps
<1>1. Coord /\ Around
  BY IInvParts
<1>2. UNCHANGED <<delivery, records, queue, running, notify, draining, due,
                  owner, runOpen, stopAll, commands, pi, life, used>>
  BY DEF HandleStart, coordinatorVars
<1>3. events' \in [Sessions -> Seq(SaidEvent)]
  BY <1>1, ReceivesEvent DEF HandleStart, Around
<1>4. ctx' \in [Sessions -> Status]
  BY <1>1 DEF HandleStart, Around, ContextTypes, Status
<1>5. ScheduleTypes' /\ ContextTypes' /\ HistoryTypes'
  BY <1>1, <1>2, <1>4 DEF Around, ScheduleTypes, ContextTypes, HistoryTypes
<1>6. AroundStep
  BY <1>1, <1>2, <1>3, <1>5 DEF Around, AroundStep
<1> QED BY <1>1, <1>2, <1>6, QuietStep

LEMMA HandleAcceptedKeeps ==
  ASSUME IInv, NEW s \in Sessions, HandleAccepted(s)
  PROVE  Keeps
<1>1. Coord /\ Around
  BY IInvParts
<1>2. UNCHANGED <<ctx, owner, runOpen, stopAll, commands, pi, life, used>>
  BY DEF HandleAccepted, contextVars
<1>3. events' \in [Sessions -> Seq(SaidEvent)]
  BY <1>1, ReceivesEvent DEF HandleAccepted, Around
<1>4. Coord' /\ Forward(delivery, delivery') /\ ScheduleTypes'
  <2>1. CASE EndDrain(s)
    BY <2>1, <1>1, EndDrainKeeps DEF Around
  <2>2. CASE UNCHANGED coordinatorVars
    <3>1. UNCHANGED <<delivery, records, queue, running, notify, draining, due>>
      BY <2>2 DEF coordinatorVars
    <3> QED BY <3>1, <1>1, CoordStays DEF Around, ScheduleTypes
  <2> QED BY <2>1, <2>2 DEF HandleAccepted
<1>5. ContextTypes' /\ HistoryTypes'
  BY <1>1, <1>2 DEF Around, ContextTypes, HistoryTypes
<1>6. AroundStep
  BY <1>1, <1>2, <1>3, <1>4, <1>5 DEF Around, AroundStep
<1> QED BY <1>4, <1>6, LoudStep

LEMMA UserPromptKeeps ==
  ASSUME IInv, NEW s \in Sessions, UserPrompt(s)
  PROVE  Keeps
<1>1. Coord /\ Around
  BY IInvParts
<1>2. UNCHANGED <<delivery, records, queue, running, notify, draining, due,
                  owner, runOpen, stopAll, events, pi, life>>
  BY DEF UserPrompt, coordinatorVars
<1>3. [type |-> "prompt", run |-> OwnRun, told |-> FALSE] \in SaidCommand
  BY PromptType DEF Run
<1>4. commands' \in [Sessions -> Seq(SaidCommand)]
  BY <1>1, <1>3, SendsCommand DEF UserPrompt, Around
<1>5. ctx' \in [Sessions -> Status]
  BY <1>1 DEF UserPrompt, Around, ContextTypes, Status
<1>6. HistoryTypes'
  BY <1>1, <1>2, HappensTypes
     DEF Around, HistoryTypes, UserPrompt, OutsideEvent, Disturbance
<1>7. ScheduleTypes' /\ ContextTypes'
  BY <1>1, <1>2, <1>5 DEF Around, ScheduleTypes, ContextTypes
<1>8. AroundStep
  BY <1>1, <1>2, <1>4, <1>6, <1>7 DEF Around, AroundStep
<1> QED BY <1>1, <1>2, <1>8, QuietStep

LEMMA UserAbortKeeps ==
  ASSUME IInv, NEW s \in Sessions, UserAbort(s)
  PROVE  Keeps
<1>1. Coord /\ Around
  BY IInvParts
<1>2. UNCHANGED <<delivery, records, queue, running, notify, draining, due,
                  ctx, owner, runOpen, stopAll, events, pi, life>>
  BY DEF UserAbort, coordinatorVars, contextVars
<1>3. [type |-> "abort", run |-> NoDelivery, told |-> FALSE] \in SaidCommand
  BY AbortType
<1>4. commands' \in [Sessions -> Seq(SaidCommand)]
  BY <1>1, <1>3, SendsCommand DEF UserAbort, Around
<1>5. HistoryTypes'
  BY <1>1, <1>2, HappensTypes
     DEF Around, HistoryTypes, UserAbort, OutsideEvent, Disturbance
<1>6. ScheduleTypes' /\ ContextTypes'
  BY <1>1, <1>2 DEF Around, ScheduleTypes, ContextTypes
<1>7. AroundStep
  BY <1>1, <1>2, <1>4, <1>5, <1>6 DEF Around, AroundStep
<1> QED BY <1>1, <1>2, <1>7, QuietStep

LEMMA StopDoneKeeps ==
  ASSUME IInv, NEW s \in Sessions, StopDone(s)
  PROVE  Keeps
<1>1. Coord /\ Around
  BY IInvParts
<1>2. UNCHANGED <<delivery, records, queue, running, notify, stopAll, life, used>>
  BY DEF StopDone
<1>3. Coord' /\ Forward(delivery, delivery')
  BY <1>1, <1>2, CoordStays
<1>4. ScheduleTypes'
  BY <1>1, DropDrainTypes DEF StopDone, Around
<1>5. PiTypes' /\ runOpen' \in [Sessions -> BOOLEAN]
  BY <1>1, <1>3, GoneTypes DEF StopDone, Around, PiTypes, ContextTypes
<1>6. ContextTypes'
  BY <1>1, <1>2, <1>5 DEF StopDone, Around, ContextTypes, Status
<1>7. HistoryTypes'
  BY <1>1, <1>2 DEF Around, HistoryTypes
<1> QED BY <1>3, <1>4, <1>5, <1>6, <1>7 DEF Keeps

LEMMA SendKeeps ==
  ASSUME IInv, NEW src \in Sessions, NEW t \in Sessions, Send(src, t)
  PROVE  Keeps
<1>1. Coord /\ Around
  BY IInvParts
<1>2. PICK asked \in BOOLEAN : Submit(Item(src, t, asked))
  BY DEF Send
<1>3. life \in [Sessions -> Nat] /\ due \in SUBSET Sessions
  BY <1>1 DEF Around, HistoryTypes, ScheduleTypes
<1>4. /\ Coord' /\ Forward(delivery, delivery') /\ due' \in SUBSET Sessions
      /\ draining' = draining
  <2>1. Request(Item(src, t, asked))
    BY <1>3, ItemIsRequest
  <2> QED BY <1>1, <1>2, <1>3, <2>1, SubmitKeeps
<1>5. UNCHANGED <<draining, ctx, owner, runOpen, stopAll, commands, events, pi, life>>
  BY <1>4 DEF Send, contextVars, piVars
<1>6. HistoryTypes'
  BY <1>1, <1>5, HappensTypes DEF Around, HistoryTypes, Send, OutsideEvent
<1>7. ScheduleTypes' /\ ContextTypes'
  BY <1>1, <1>4, <1>5 DEF Around, ScheduleTypes, ContextTypes
<1>8. AroundStep
  BY <1>1, <1>5, <1>6, <1>7 DEF Around, AroundStep
<1> QED BY <1>4, <1>8, LoudStep

LEMMA SpawnDoneKeeps ==
  ASSUME IInv, NEW t \in Sessions, SpawnDone(t)
  PROVE  Keeps
<1>1. Coord /\ Around
  BY IInvParts
<1>2. life \in [Sessions -> Nat] /\ due \in SUBSET Sessions /\ owner[t] \in Sessions
  BY <1>1 DEF Around, HistoryTypes, ScheduleTypes, ContextTypes
<1>3. /\ Coord' /\ Forward(delivery, delivery') /\ due' \in SUBSET Sessions
      /\ draining' = draining
  <2>1. CASE UNCHANGED coordinatorVars
    <3>1. UNCHANGED <<delivery, records, queue, running, notify, draining, due>>
      BY <2>1 DEF coordinatorVars
    <3> QED BY <3>1, <1>1, <1>2, CoordStays
  <2>2. CASE \E asked \in BOOLEAN : Submit(Item(owner[t], t, asked))
    <3>1. PICK asked \in BOOLEAN : Submit(Item(owner[t], t, asked))
      BY <2>2
    <3>2. Request(Item(owner[t], t, asked))
      BY <1>2, ItemIsRequest
    <3> QED BY <1>1, <1>2, <3>1, <3>2, SubmitKeeps
  <2> QED BY <2>1, <2>2 DEF SpawnDone
<1>4. UNCHANGED <<runOpen, stopAll, commands, events, pi, life, used>>
  BY DEF SpawnDone, piVars
<1>5. ContextTypes'
  BY <1>1, <1>4 DEF Around, ContextTypes, SpawnDone, Status
<1>6. ScheduleTypes' /\ HistoryTypes'
  BY <1>1, <1>3, <1>4 DEF Around, ScheduleTypes, HistoryTypes
<1>7. AroundStep
  BY <1>1, <1>4, <1>5, <1>6 DEF Around, AroundStep
<1> QED BY <1>3, <1>7, LoudStep

LEMMA SpawnNamedKeeps ==
  ASSUME IInv, NEW t \in Sessions, SpawnNamed(t)
  PROVE  Keeps
<1>1. Coord /\ Around /\ Named
  BY IInvParts DEF IInv
<1>2. life \in [Sessions -> Nat] /\ due \in SUBSET Sessions
  BY <1>1 DEF Around, HistoryTypes, ScheduleTypes
<1>3. /\ Coord' /\ Forward(delivery, delivery') /\ due' \in SUBSET Sessions
      /\ draining' = draining
  <2>1. CASE UNCHANGED coordinatorVars
    <3>1. UNCHANGED <<delivery, records, queue, running, notify, draining, due>>
      BY <2>1 DEF coordinatorVars
    <3> QED BY <3>1, <1>1, <1>2, CoordStays
  <2>2. CASE \E asked \in BOOLEAN : Submit(Task(t, asked))
    <3>1. PICK asked \in BOOLEAN : Submit(Task(t, asked))
      BY <2>2
    <3>2. naming[t] # Nobody
      BY DEF SpawnNamed
    <3>3. Request(Task(t, asked))
      BY <1>1, <1>2, <3>2, TaskIsRequest
    <3> QED BY <1>1, <1>2, <3>1, <3>3, SubmitKeeps
  <2> QED BY <2>1, <2>2 DEF SpawnNamed
<1>4. UNCHANGED <<ctx, owner, runOpen, stopAll, commands, events, pi, life, used>>
  BY DEF SpawnNamed, piVars
<1>5. ContextTypes' /\ ScheduleTypes' /\ HistoryTypes'
  BY <1>1, <1>3, <1>4 DEF Around, ContextTypes, ScheduleTypes, HistoryTypes
<1>6. AroundStep
  BY <1>1, <1>4, <1>5 DEF Around, AroundStep
<1> QED BY <1>3, <1>6, LoudStep

LEMMA CancelActionKeeps ==
  ASSUME IInv, NEW src \in Sessions, NEW t \in Sessions, Cancel(src, t)
  PROVE  Keeps
<1>1. Coord /\ Around
  BY IInvParts
<1>2. PICK chosen \in {Cancellable(src, t)} \cup {{d} : d \in Cancellable(src, t)} :
        /\ delivery' = [d \in Deliveries |->
             IF d \in chosen THEN [delivery[d] EXCEPT !.status = "cancelled"]
                             ELSE delivery[d]]
        /\ notify' = notify \ chosen
        /\ queue' = [queue EXCEPT ![t] = Without(@, chosen)]
        /\ \/ commands' = [commands EXCEPT ![t] = Append(@,
                [type |-> "abort", run |-> running[t], told |-> running[t] \in notify])]
           \/ UNCHANGED commands
  BY DEF Cancel
<1>3. UNCHANGED <<records, running, draining, due, ctx, owner, runOpen, stopAll,
                  events, pi, life, used>>
  BY DEF Cancel, contextVars
<1>4. chosen \subseteq Cancellable(src, t)
  OBVIOUS
<1>5. chosen \subseteq {d \in records : delivery[d].target = t /\ delivery[d].status \in Active}
  BY <1>4 DEF Cancellable, IsActive
<1>6. Cancels(delivery, records, queue, notify, t, chosen, delivery', queue', notify')
  BY <1>2, <1>5 DEF Cancels, WithStatus
<1>7. Coord' /\ Forward(delivery, delivery')
  BY <1>1, <1>3, <1>6, CancelKeeps DEF Coord
<1>8. commands' \in [Sessions -> Seq(SaidCommand)]
  <2>0. commands \in [Sessions -> Seq(SaidCommand)]
    BY <1>1 DEF Around
  <2>1. running[t] \in Run \cup {NoDelivery}
    BY <1>1 DEF Coord, Coordinated, Shape, Run
  <2> DEFINE told == running[t] \in notify
  <2>2. told \in BOOLEAN
    OBVIOUS
  <2>3. told => Known(running[t])
    BY <1>1, MadeIsMade DEF Coord, Coordinated, NotifyIsOpen, Known
  <2> HIDE DEF told
  <2>4. [type |-> "abort", run |-> running[t], told |-> told] \in SaidCommand
    BY <2>1, <2>2, <2>3, AbortType
  <2>5. CASE commands' = commands
    BY <2>0, <2>5
  <2>6. CASE commands' = [commands EXCEPT ![t] = Append(@,
               [type |-> "abort", run |-> running[t], told |-> told])]
    BY <2>0, <2>4, <2>6, SendsCommand
  <2> QED BY <1>2, <2>5, <2>6 DEF told
<1>9. ScheduleTypes' /\ ContextTypes' /\ HistoryTypes'
  BY <1>1, <1>3 DEF Around, ScheduleTypes, ContextTypes, HistoryTypes
<1>10. AroundStep
  BY <1>1, <1>3, <1>8, <1>9 DEF Around, AroundStep
<1> QED BY <1>7, <1>10, LoudStep

LEMMA DrainActionKeeps ==
  ASSUME IInv, NEW s \in Sessions, Drain(s)
  PROVE  Keeps
<1> DEFINE d == Head(queue[s])
<1>1. Coord /\ Around
  BY IInvParts
<1>2. UNCHANGED <<records, notify, owner, stopAll, events, pi, life, used>>
  BY DEF Drain
<1>3. /\ running[s] = NoDelivery /\ queue[s] # <<>>
      /\ delivery' = [delivery EXCEPT ![d].status = "running"]
      /\ queue' = [queue EXCEPT ![s] = Tail(@)]
      /\ running' = [running EXCEPT ![s] = d]
      /\ draining' = [draining EXCEPT ![s] = d]
      /\ due' = due \ {s}
      /\ \/ ctx' = [ctx EXCEPT ![s] = "launching"] /\ UNCHANGED <<runOpen, commands>>
         \/ HandOver(s, d)
  BY DEF Drain, CanDrain
<1> HIDE DEF d
<1>4. Drains(delivery, queue, running, s, d, delivery', queue', running')
  BY <1>3 DEF Drains, WithStatus, d
<1>5. d \in Deliveries /\ Coord' /\ Forward(delivery, delivery')
  BY <1>1, <1>2, <1>4, DrainKeeps DEF Coord
<1>6. ScheduleTypes'
  BY <1>1, <1>3, <1>5 DEF Around, ScheduleTypes
<1>7. /\ ctx' \in [Sessions -> Status] /\ runOpen' \in [Sessions -> BOOLEAN]
      /\ commands' \in [Sessions -> Seq(SaidCommand)]
  <2>1. CASE HandOver(s, d)
    BY <2>1, <1>1, <1>5, HandOverTypes DEF Around
  <2>2. CASE ctx' = [ctx EXCEPT ![s] = "launching"] /\ UNCHANGED <<runOpen, commands>>
    BY <2>2, <1>1 DEF Around, ContextTypes, Status
  <2> QED BY <2>1, <2>2, <1>3
<1>8. ContextTypes' /\ HistoryTypes'
  BY <1>1, <1>2, <1>7 DEF Around, ContextTypes, HistoryTypes
<1>9. AroundStep
  BY <1>1, <1>2, <1>6, <1>7, <1>8 DEF Around, AroundStep
<1> QED BY <1>5, <1>9, LoudStep

LEMMA LaunchFailsKeeps ==
  ASSUME IInv, NEW s \in Sessions, LaunchFails(s)
  PROVE  Keeps
<1>1. Coord /\ Around
  BY IInvParts
<1>2. UNCHANGED <<owner, runOpen, stopAll, commands, events, pi, life>>
  BY DEF LaunchFails, piVars
<1>3. Coord' /\ Forward(delivery, delivery') /\ ScheduleTypes'
  BY <1>1, FailDrainKeeps DEF LaunchFails, Around, HistoryTypes
<1>4. ContextTypes'
  BY <1>1, <1>2 DEF LaunchFails, Around, ContextTypes, Status
<1>5. HistoryTypes'
  BY <1>1, <1>2, HappensTypes
     DEF Around, HistoryTypes, LaunchFails, OutsideEvent, Disturbance
<1>6. AroundStep
  BY <1>1, <1>2, <1>3, <1>4, <1>5 DEF Around, AroundStep
<1> QED BY <1>3, <1>6, LoudStep

LEMMA HandleSettledKeeps ==
  ASSUME IInv, NEW s \in Sessions, HandleSettled(s)
  PROVE  Keeps
<1> DEFINE e == Head(events[s])
<1>1. Coord /\ Around
  BY IInvParts
<1>2. UNCHANGED <<draining, owner, stopAll, commands, pi, life, used>>
  BY DEF HandleSettled, coordinatorVars
<1>3. e \in SaidEvent /\ events' \in [Sessions -> Seq(SaidEvent)]
  BY <1>1, ReceivesEvent DEF HandleSettled, Around
<1>4. e.run \in Run \cup {NoDelivery} /\ e.outcome \in Final
  BY <1>3 DEF SaidEvent, Event, Final
<1>5. life \in [Sessions -> Nat] /\ due \in SUBSET Sessions
  BY <1>1 DEF Around, HistoryTypes, ScheduleTypes
<1>6. Coord' /\ Forward(delivery, delivery') /\ due' \in SUBSET Sessions
  <2> HIDE DEF e
  <2>1. CASE Settled(s, e.run, e.outcome)
    BY <2>1, <1>1, <1>4, <1>5, SettledKeeps
  <2>2. CASE due' = Wake({s}) /\ UNCHANGED <<delivery, records, queue, running, notify>>
    BY <2>2, <1>1, <1>5, CoordStays DEF Wake
  <2>3. CASE UNCHANGED coordinatorVars
    <3>1. UNCHANGED <<delivery, records, queue, running, notify, due>>
      BY <2>3 DEF coordinatorVars
    <3> QED BY <3>1, <1>1, <1>5, CoordStays
  <2> QED BY <2>1, <2>2, <2>3 DEF HandleSettled, e
<1>7. ctx' \in [Sessions -> Status] /\ runOpen' \in [Sessions -> BOOLEAN]
  BY <1>1 DEF HandleSettled, Around, ContextTypes, Status
<1>8. ScheduleTypes' /\ ContextTypes' /\ HistoryTypes'
  BY <1>1, <1>2, <1>6, <1>7 DEF Around, ScheduleTypes, ContextTypes, HistoryTypes
<1>9. AroundStep
  BY <1>1, <1>2, <1>3, <1>8 DEF Around, AroundStep
<1> QED BY <1>6, <1>9, LoudStep

LEMMA HandleRejectedKeeps ==
  ASSUME IInv, NEW s \in Sessions, HandleRejected(s)
  PROVE  Keeps
<1>1. Coord /\ Around
  BY IInvParts
<1>2. UNCHANGED <<owner, stopAll, commands, pi, life, used>>
  BY DEF HandleRejected
<1>3. events' \in [Sessions -> Seq(SaidEvent)]
  BY <1>1, ReceivesEvent DEF HandleRejected, Around
<1>4. Coord' /\ Forward(delivery, delivery') /\ ScheduleTypes'
  <2>1. CASE FailDrain(s)
    BY <2>1, <1>1, FailDrainKeeps DEF Around, HistoryTypes
  <2>2. CASE UNCHANGED coordinatorVars
    <3>1. UNCHANGED <<delivery, records, queue, running, notify, draining, due>>
      BY <2>2 DEF coordinatorVars
    <3> QED BY <3>1, <1>1, CoordStays DEF Around, ScheduleTypes
  <2> QED BY <2>1, <2>2 DEF HandleRejected
<1>5. ctx' \in [Sessions -> Status] /\ runOpen' \in [Sessions -> BOOLEAN]
  BY <1>1 DEF HandleRejected, Around, ContextTypes, Status
<1>6. ContextTypes' /\ HistoryTypes'
  BY <1>1, <1>2, <1>5 DEF Around, ContextTypes, HistoryTypes
<1>7. AroundStep
  BY <1>1, <1>2, <1>3, <1>4, <1>6 DEF Around, AroundStep
<1> QED BY <1>4, <1>7, LoudStep

LEMMA HandleAbortFailedKeeps ==
  ASSUME IInv, NEW s \in Sessions, HandleAbortFailed(s)
  PROVE  Keeps
<1> DEFINE e == Head(events[s])
<1>1. Coord /\ Around
  BY IInvParts
<1>2. UNCHANGED <<records, queue, running, draining, due, ctx, owner, runOpen,
                  stopAll, commands, pi, life, used>>
  BY DEF HandleAbortFailed, contextVars
<1>3. e \in SaidEvent /\ events' \in [Sessions -> Seq(SaidEvent)]
  BY <1>1, ReceivesEvent DEF HandleAbortFailed, Around
<1>4. e.told \in BOOLEAN /\ (e.told => Known(e.run))
  BY <1>3 DEF SaidEvent, Event
<1>5. Coord' /\ Forward(delivery, delivery')
  <2> HIDE DEF e
  <2>1. CASE /\ e.run \in records /\ running[s] = e.run
             /\ delivery' = [delivery EXCEPT ![e.run].status = "running"]
             /\ notify' = IF e.told THEN notify \cup {e.run} ELSE notify
    <3>1. notify' = notify \/ (/\ notify' = notify \cup {e.run}
                               /\ delivery[e.run].kind = "message"
                               /\ delivery[e.run].asked)
      BY <2>1, <1>4 DEF Known
    <3>2. Revives(delivery, records, running, notify, s, e.run, delivery', notify')
      BY <2>1, <3>1 DEF Revives, WithStatus
    <3> QED BY <1>1, <1>2, <3>2, ReviveKeeps DEF Coord
  <2>2. CASE UNCHANGED <<delivery, notify>>
    BY <2>2, <1>1, <1>2, CoordStays
  <2> QED BY <2>1, <2>2 DEF HandleAbortFailed, e
<1>6. ScheduleTypes' /\ ContextTypes' /\ HistoryTypes'
  BY <1>1, <1>2 DEF Around, ScheduleTypes, ContextTypes, HistoryTypes
<1>7. AroundStep
  BY <1>1, <1>2, <1>3, <1>6 DEF Around, AroundStep
<1> QED BY <1>5, <1>7, LoudStep

LEMMA CrashKeeps ==
  ASSUME IInv, NEW s \in Sessions, Crash(s)
  PROVE  Keeps
<1>1. Coord /\ Around
  BY IInvParts
<1>2. Coord' /\ Forward(delivery, delivery') /\ life' \in [Sessions -> Nat]
  BY <1>1, InterruptedKeeps DEF Crash, Around, HistoryTypes
<1>3. ScheduleTypes'
  BY <1>1, DropDrainTypes DEF Crash, Around
<1>4. PiTypes' /\ runOpen' \in [Sessions -> BOOLEAN]
  BY <1>1, <1>2, GoneTypes DEF Crash, Around, PiTypes, ContextTypes
<1>5. ContextTypes'
  BY <1>1, <1>4 DEF Crash, Around, ContextTypes, Status
<1>6. HistoryTypes'
  BY <1>1, <1>2, HappensTypes
     DEF Around, HistoryTypes, Crash, OutsideEvent, Disturbance
<1> QED BY <1>2, <1>3, <1>4, <1>5, <1>6 DEF Keeps

LEMMA StopKeeps ==
  ASSUME IInv, NEW s \in Sessions, Stop(s)
  PROVE  Keeps
<1>1. Coord /\ Around
  BY IInvParts
<1>2. Coord' /\ Forward(delivery, delivery') /\ life' \in [Sessions -> Nat]
  BY <1>1, InterruptedKeeps DEF Stop, Around, HistoryTypes
<1>3. UNCHANGED <<draining, due, owner, runOpen, stopAll, commands, events, pi>>
  BY DEF Stop, piVars
<1>4. ScheduleTypes' /\ ContextTypes'
  BY <1>1, <1>3 DEF Stop, Around, ScheduleTypes, ContextTypes, Status
<1>5. HistoryTypes'
  BY <1>1, <1>2, HappensTypes
     DEF Around, HistoryTypes, Stop, OutsideEvent, Disturbance
<1>6. AroundStep
  BY <1>1, <1>3, <1>4, <1>5 DEF Around, AroundStep
<1> QED BY <1>2, <1>6, LoudStep

LEMMA NamingFailsKeeps ==
  ASSUME IInv, NEW s \in Sessions, NamingFails(s)
  PROVE  Keeps
<1>1. Coord /\ Around
  BY IInvParts
<1>2. Coord' /\ Forward(delivery, delivery') /\ life' \in [Sessions -> Nat]
  BY <1>1, InterruptedKeeps DEF NamingFails, Around, HistoryTypes
<1>3. UNCHANGED <<draining, due, owner, runOpen, stopAll, commands, events, pi>>
  BY DEF NamingFails, piVars
<1>4. ScheduleTypes' /\ ContextTypes'
  BY <1>1, <1>3 DEF NamingFails, Around, ScheduleTypes, ContextTypes, Status
<1>5. HistoryTypes'
  BY <1>1, <1>2, HappensTypes
     DEF Around, HistoryTypes, NamingFails, OutsideEvent, Disturbance
<1>6. AroundStep
  BY <1>1, <1>3, <1>4, <1>5 DEF Around, AroundStep
<1> QED BY <1>2, <1>6, LoudStep

\* Sessions stay born, and a Session leaves Up only at the end of a stop, which
\* gives up what it named.
Upkeep ==
  /\ \A u \in Sessions : ctx[u] \notin Unborn => ctx'[u] \notin Unborn
  /\ \A u \in Sessions : ctx[u] \in Up /\ naming'[u] # Nobody => ctx'[u] \in Up
  /\ \/ \A u \in Sessions : naming'[u] = naming[u] \/ naming'[u] = Nobody
     \/ \E t \in Sessions : SpawnDone(t)
  /\ naming' \in [Sessions -> Naming \cup {Nobody}]

LEMMA UpkeepIsDone ==
  ASSUME IInv, [Next]_vars
  PROVE  Upkeep
<1>1. /\ ctx \in [Sessions -> Status] /\ owner \in [Sessions -> Sessions]
      /\ naming \in [Sessions -> Naming \cup {Nobody}]
      /\ life \in [Sessions -> Nat]
  BY DEF IInv, ContextTypes, Named, HistoryTypes
<1> USE DEF Unborn, Up
<1>2. CASE Agent \/ BeginStopAll \/ EndStopAll
  BY <1>1, <1>2 DEF Upkeep, Agent, Send, Spawn, Cancel, BeginStopAll, EndStopAll,
                    contextVars
<1>3. ASSUME NEW s \in Sessions,
             \/ Drain(s) \/ DrainNothing(s) \/ LaunchDone(s) \/ LaunchFails(s)
             \/ SpawnFails(s)
      PROVE  Upkeep
  BY <1>1, <1>3 DEF Upkeep, Drain, DrainNothing, LaunchDone, LaunchFails, SpawnFails,
                    HandOver, contextVars
<1>4. ASSUME NEW s \in Sessions, SpawnNamed(s) \/ NamingFails(s) \/ Crash(s)
      PROVE  Upkeep
  BY <1>1, <1>4 DEF Upkeep, SpawnNamed, NamingFails, Crash, Named, Listening
<1>5. ASSUME NEW s \in Sessions, SpawnDone(s)
      PROVE  Upkeep
  <2>1. [source |-> owner[s], life |-> life[owner[s]]] \in Naming
    BY <1>1 DEF Naming
  <2>2. /\ naming' \in [Sessions -> Naming \cup {Nobody}]
        /\ ctx' = [ctx EXCEPT ![s] = "ready"]
    BY <1>1, <1>5, <2>1 DEF SpawnDone
  <2> QED BY <1>1, <1>5, <2>2 DEF Upkeep
<1>6. ASSUME NEW s \in Sessions, Pi(s) \/ PiStartsOwnRun(s) \/ Handle(s)
      PROVE  Upkeep
  BY <1>1, <1>6 DEF Upkeep, Pi, PiTakesPrompt, PiTakesAbort, PiSettles, PiStartsOwnRun,
                    Handle, HandleStart, HandleSettled, HandleAccepted, HandleRejected,
                    HandleAbortFailed, Listening, contextVars
<1>7. ASSUME NEW s \in Sessions,
             \/ Activate(s) \/ UserPrompt(s) \/ UserAbort(s) \/ Stop(s)
             \/ Hibernate(s) \/ StopDone(s) \/ StopFails(s)
      PROVE  Upkeep
  BY <1>1, <1>7 DEF Upkeep, Activate, UserPrompt, UserAbort, Stop, Hibernate, StopDone,
                    StopFails, Promptable, contextVars
<1>8. CASE UNCHANGED vars
  BY <1>1, <1>8 DEF Upkeep, vars, contextVars
<1>9. ASSUME NEW s \in Sessions, Continue(s) \/ Control(s) PROVE Upkeep
  BY <1>3, <1>4, <1>5, <1>7, <1>9 DEF Continue, Control
<1> QED BY <1>2, <1>6, <1>8, <1>9 DEF Next

LEMMA NamedStays == IInv /\ [Next]_vars => Named'
<1> SUFFICES ASSUME IInv, [Next]_vars PROVE Named'
  OBVIOUS
<1>1. Upkeep /\ Named /\ ContextTypes
  BY UpkeepIsDone DEF IInv
<1> SUFFICES ASSUME NEW u \in Sessions, naming'[u] # Nobody
             PROVE  ctx'[u] \in Up /\ ctx'[naming'[u].source] \notin Unborn
  BY <1>1 DEF Named, Upkeep
<1>2. CASE naming'[u] = naming[u]
  <2>1. naming[u].source \in Sessions
    BY <1>1, <1>2 DEF Named, Naming
  <2> QED BY <1>1, <1>2, <2>1 DEF Named, Upkeep
<1>3. ASSUME NEW t \in Sessions, SpawnDone(t), naming'[u] # naming[u]
      PROVE  ctx'[u] \in Up /\ ctx'[naming'[u].source] \notin Unborn
  <2>1. /\ u = t /\ naming'[u].source = owner[t] /\ ctx'[t] = "ready"
        /\ owner[t] \in Sessions /\ ctx[owner[t]] \notin Unborn
    BY <1>1, <1>3 DEF SpawnDone, OwnerWaits, Named, ContextTypes, Unborn
  <2> QED BY <1>1, <2>1 DEF Upkeep, Up
<1> QED BY <1>1, <1>2, <1>3 DEF Upkeep

-----------------------------------------------------------------------------
(* The theorems                                                            *)

LEMMA InitHolds == Init => IInv
<1> SUFFICES ASSUME Init PROVE IInv
  OBVIOUS
<1>1. MadeIn(delivery) = {}
  BY DEF Init, MadeIn, Unmade
<1>2. /\ <<>> \in Seq(Deliveries) /\ <<>> \in Seq(SaidCommand) /\ <<>> \in Seq(SaidEvent)
      /\ IsInjective(<<>>) /\ Range(<<>>) = {}
  BY EmptyQueue
<1>3. Cardinality({}) <= Capacity
  BY FS_EmptySet
<1>4. Shape(delivery, records, queue, running, notify)
  BY <1>1, <1>2, <1>3 DEF Init, Shape
<1>5. QueuesAgree(delivery, queue)
  BY <1>2 DEF Init, QueuesAgree
<1>6. /\ Placed(delivery, records, queue, running) /\ RunsAgree(delivery, running)
      /\ NotifyIsOpen(delivery, notify) /\ Reported(delivery, running)
  BY <1>1 DEF Init, Placed, RunsAgree, NotifyIsOpen, Reported
<1>7. Coord
  BY <1>4, <1>5, <1>6 DEF Coord, Coordinated
<1>8. ScheduleTypes /\ ContextTypes /\ HistoryTypes
  BY DEF Init, ScheduleTypes, ContextTypes, HistoryTypes, Status
<1>9. PiTypes
  BY <1>2 DEF Init, PiTypes
<1>10. Named
  BY DEF Init, Named
<1> QED BY <1>7, <1>8, <1>9, <1>10 DEF IInv

LEMMA StepKeeps == IInv /\ [Next]_vars => Keeps
<1> SUFFICES ASSUME IInv, [Next]_vars PROVE Keeps
  OBVIOUS
<1>1. ASSUME NEW s \in Sessions, NEW t \in Sessions,
             Send(s, t) \/ Spawn(s, t) \/ Cancel(s, t)
      PROVE  Keeps
  BY <1>1, SendKeeps, SpawnKeeps, CancelActionKeeps
<1>2. CASE BeginStopAll \/ EndStopAll
  BY <1>2, BeginStopAllKeeps, EndStopAllKeeps
<1>3. ASSUME NEW s \in Sessions, Continue(s) PROVE Keeps
  BY <1>3, DrainActionKeeps, DrainNothingKeeps, LaunchDoneKeeps, LaunchFailsKeeps,
     SpawnDoneKeeps, SpawnFailsKeeps, SpawnNamedKeeps DEF Continue
<1>4. ASSUME NEW s \in Sessions, Pi(s) \/ PiStartsOwnRun(s) PROVE Keeps
  BY <1>4, PiTakesPromptKeeps, PiTakesAbortKeeps, PiSettlesKeeps, PiStartsOwnRunKeeps
     DEF Pi
<1>5. ASSUME NEW s \in Sessions, Handle(s) PROVE Keeps
  BY <1>5, HandleStartKeeps, HandleSettledKeeps, HandleAcceptedKeeps,
     HandleRejectedKeeps, HandleAbortFailedKeeps DEF Handle
<1>6. ASSUME NEW s \in Sessions, Control(s) PROVE Keeps
  BY <1>6, ActivateKeeps, UserPromptKeeps, UserAbortKeeps, CrashKeeps, StopKeeps,
     NamingFailsKeeps, HibernateKeeps, StopDoneKeeps, StopFailsKeeps DEF Control
<1>7. CASE UNCHANGED vars
  <2>1. UNCHANGED <<delivery, records, queue, running, notify, draining, due, ctx,
                    owner, runOpen, stopAll, commands, events, pi, life, used>>
    BY <1>7 DEF vars, coordinatorVars, contextVars, piVars
  <2>2. Coord /\ Around
    BY IInvParts
  <2>3. AroundStep
    BY <2>1, <2>2
       DEF Around, AroundStep, ScheduleTypes, ContextTypes, HistoryTypes
  <2> QED BY <2>1, <2>2, <2>3, QuietStep
<1> QED BY <1>1, <1>2, <1>3, <1>4, <1>5, <1>6, <1>7 DEF Next, Agent

LEMMA StepHolds == IInv /\ [Next]_vars => IInv' /\ Forward(delivery, delivery')
BY StepKeeps, NamedStays DEF Keeps, IInv

\* The bookkeeping invariant: the coordinator's structures agree, a waiting
\* sender's delivery is not over, and what was reported is out of reach of any
\* target, in every state the Kernel can reach.
THEOREM Inductive == Spec => []IInv
<1>1. Init => IInv
  BY InitHolds
<1>2. IInv /\ [Next]_vars => IInv'
  BY StepHolds
<1> QED BY <1>1, <1>2, PTL DEF Spec

\* Every variable has its type; the coordinator remembers at most Capacity
\* deliveries although it never forgets one that is queued or running.
THEOREM TypesHold == Spec => []TypeOK
BY Inductive, IInvImplies, PTL

\* The table of deliveries, the queues and what the targets work on agree.
THEOREM BooksAreKept == Spec => []BooksAgree
BY Inductive, IInvImplies, PTL

\* A sender is told at most once, only what it asked for, and only in the end.
THEOREM ReportsOnce == Spec => []ReportedOnce
BY Inductive, IInvImplies, PTL

\* A delivery that left its queue is never sent again, and one that completed,
\* failed or was interrupted never changes.
THEOREM ReplaysNothing == Spec => NeverReplayed
<1>1. IInv /\ [Next]_vars =>
        [\A d \in Made :
           /\ delivery[d].status # "queued" => delivery'[d].status # "queued"
           /\ delivery[d].status \in {"completed", "failed", "interrupted"} =>
                delivery'[d] = delivery[d]]_vars
  BY StepHolds, MadeIsMade DEF Forward
<1> QED BY <1>1, Inductive, PTL DEF Spec, NeverReplayed

-----------------------------------------------------------------------------
(* What the coordinator's operations do to the deliveries                  *)

\* The same request, whatever has become of it.
SameRequest(x, y) ==
  /\ x.source = y.source /\ x.target = y.target /\ x.kind = y.kind
  /\ x.about = y.about /\ x.asked = y.asked
  /\ x.life = y.life /\ x.since = y.since /\ x.stranded = y.stranded

LEMMA MadeRecord ==
  ASSUME IInv, NEW d \in Made
  PROVE  /\ d \in Deliveries /\ delivery[d] \in Delivery
         /\ delivery[d].source \in Sessions /\ delivery[d].target \in Sessions
         /\ delivery[d].kind \in {"message", "completion"}
         /\ delivery[d].status \in Active \cup Final
<1>1. delivery \in [Deliveries -> Delivery \cup {Unmade}] /\ d \in MadeIn(delivery)
  BY MadeIsMade DEF IInv, Coord, Coordinated, Shape
<1> QED BY <1>1, MadeIsDelivery

LEMMA NotifyIsMade ==
  ASSUME IInv
  PROVE  /\ notify \subseteq Made /\ notify \subseteq records
         /\ \A d \in notify : delivery[d].status \in Active
<1>1. Placed(delivery, records, queue, running) /\ NotifyIsOpen(delivery, notify)
  BY DEF IInv, Coord, Coordinated
<1> QED BY <1>1, MadeIsMade DEF Placed, NotifyIsOpen, Active

LEMMA RecordsAreMade ==
  ASSUME IInv
  PROVE  records \subseteq Made /\ Made \subseteq Deliveries
BY MadeIsMade DEF IInv, Coord, Coordinated, Shape, Made

LEMMA RunningIsHere ==
  ASSUME IInv, NEW s \in Sessions, running[s] # NoDelivery
  PROVE  /\ running[s] \in Made /\ delivery[running[s]].target = s
         /\ delivery[running[s]].status \in {"running", "cancelled"}
BY MadeIsMade DEF IInv, Coord, Coordinated, RunsAgree

\* A delivery that is written again is the same request.
LEMMA Rewritten ==
  ASSUME NEW r \in Delivery, NEW st, NEW new, new = [r EXCEPT !.status = st]
  PROVE  SameRequest(new, r) /\ new.status = st /\ new.result = r.result
BY DEF SameRequest, Delivery

LEMMA Answered ==
  ASSUME NEW r \in Delivery, NEW st, NEW res, NEW new,
         new = WithResult(r, st, res)
  PROVE  SameRequest(new, r) /\ new.status = st /\ new.result = res
BY DEF SameRequest, Delivery, WithResult

\* An agent's request is queued under a fresh id.
LEMMA SubmitDoes ==
  ASSUME IInv, NEW item, Request(item), Submit(item)
  PROVE  /\ UNCHANGED <<running, draining>>
         /\ due' = due \cup {item.target}
         /\ \E n \in Deliveries \ Made :
              /\ Made' = Made \cup {n}
              /\ \A d \in Made : delivery'[d] = delivery[d]
              /\ delivery'[n] = item
              /\ notify' \subseteq notify \cup {n}
              /\ queue' = [queue EXCEPT ![item.target] = Append(@, n)]
<1> DEFINE n == Min(Unused)
<1>1. /\ Enqueue(delivery, item) /\ due' = due \cup {item.target}
      /\ UNCHANGED <<running, draining>> /\ notify' \subseteq notify \cup {n}
  BY DEF Submit
<1>2. n \in Deliveries \ Made
  <2>1. records \subseteq Deliveries /\ Cardinality(records) <= Capacity
    BY RecordsAreMade DEF IInv, Coord, Coordinated, Shape
  <2> QED BY <1>1, <2>1, EnqueueMakesRoom
<1>3. /\ delivery' = [delivery EXCEPT ![n] = item]
      /\ queue' = [queue EXCEPT ![item.target] = Append(@, n)]
  BY <1>1 DEF Enqueue
<1>4. item.status = "queued"
  BY DEF Request
<1>5. delivery \in [Deliveries -> Delivery \cup {Unmade}]
  BY DEF IInv, Coord, Coordinated, Shape
<1> HIDE DEF n
<1>6. /\ delivery'[n] = item
      /\ \A d \in Deliveries : d # n => delivery'[d] = delivery[d]
  BY <1>2, <1>3, <1>5
<1>7. Made' = Made \cup {n}
  BY <1>2, <1>4, <1>6 DEF Made
<1>8. \A d \in Made : delivery'[d] = delivery[d]
  BY <1>2, <1>6 DEF Made
<1> QED BY <1>1, <1>2, <1>3, <1>6, <1>7, <1>8

\* The source of a request was looked at in this step, or when its spawn had found
\* it up.
LookedAt(item) ==
  \/ item.life = life[item.source] /\ ctx[item.source] # "stopping"
  \/ \E u \in Sessions :
       naming[u] # Nobody /\ naming[u].source = item.source /\ naming[u].life = item.life

\* What an agent asks of t is recorded at once or, by a spawn, after a wait.
Submission(t) == \E item :
  /\ Request(item) /\ Submit(item) /\ item.target = t
  /\ ctx'[t] \notin Unborn /\ ctx'[item.source] \notin Unborn
  /\ item.since = life[item.source] /\ LookedAt(item)
  /\ item.stranded = (ctx'[t] = "stopping")

LEMMA Submissions ==
  ASSUME IInv, NEW src \in Sessions, NEW t \in Sessions
  PROVE  /\ Send(src, t) => Submission(t)
         /\ SpawnDone(t) => Submission(t) \/ UNCHANGED coordinatorVars
         /\ SpawnNamed(t) => Submission(t) \/ UNCHANGED coordinatorVars
<1>0. /\ life \in [Sessions -> Nat] /\ ctx \in [Sessions -> Status]
      /\ owner \in [Sessions -> Sessions] /\ Named
  BY DEF IInv, HistoryTypes, ContextTypes
<1>1. ASSUME Send(src, t) PROVE Submission(t)
  <2>1. PICK asked \in BOOLEAN : Submit(Item(src, t, asked))
    BY <1>1 DEF Send
  <2>2. /\ ctx' = ctx /\ ctx[src] \notin Unborn /\ ctx[src] # "stopping"
        /\ ctx[t] \notin Unborn /\ ctx[t] # "stopping"
    BY <1>1 DEF Send, Live, contextVars, Unborn
  <2> DEFINE item == Item(src, t, asked)
  <2>3. /\ Request(item) /\ item.source = src /\ item.target = t
        /\ item.since = life[src] /\ item.life = life[src] /\ item.stranded = FALSE
    <3>1. item = Item(src, t, asked)
      OBVIOUS
    <3> HIDE DEF item
    <3> QED BY <1>0, <3>1 DEF Item, Request, Delivery, Active
  <2> HIDE DEF item
  <2>4. Submit(item)
    BY <2>1 DEF item
  <2> QED BY <2>2, <2>3, <2>4 DEF Submission, LookedAt
<1>2. ASSUME SpawnDone(t), ~UNCHANGED coordinatorVars PROVE Submission(t)
  <2>1. PICK asked \in BOOLEAN : Submit(Item(owner[t], t, asked))
    BY <1>2 DEF SpawnDone
  <2> DEFINE item == Item(owner[t], t, asked)
             boss == owner[t]
  <2>2. /\ boss \in Sessions /\ ctx'[boss] \notin Unborn /\ ctx[boss] # "stopping"
        /\ ctx'[t] \notin Unborn /\ ctx'[t] # "stopping"
    BY <1>0, <1>2 DEF SpawnDone, OwnerWaits, Unborn
  <2>3. /\ Request(item) /\ item.source = boss /\ item.target = t
        /\ item.since = life[boss] /\ item.life = life[boss] /\ item.stranded = FALSE
    <3>1. item = Item(boss, t, asked)
      OBVIOUS
    <3> HIDE DEF item, boss
    <3> QED BY <1>0, <2>2, <3>1 DEF Item, Request, Delivery, Active
  <2> HIDE DEF item, boss
  <2>4. Submit(item)
    BY <2>1 DEF item
  <2> QED BY <2>2, <2>3, <2>4 DEF Submission, LookedAt
<1>3. ASSUME SpawnNamed(t), ~UNCHANGED coordinatorVars PROVE Submission(t)
  <2>1. PICK asked \in BOOLEAN : Submit(Task(t, asked))
    BY <1>3 DEF SpawnNamed
  <2>2. ctx' = ctx /\ naming[t] # Nobody
    BY <1>3 DEF SpawnNamed
  <2>3. ctx[t] \notin Unborn /\ ctx[naming[t].source] \notin Unborn
    BY <1>0, <2>2 DEF Named, Up, Unborn
  <2> DEFINE item == Task(t, asked)
             boss == naming[t].source
  <2>4. /\ Request(item) /\ item.source = boss /\ item.target = t
        /\ item.since = life[boss] /\ item.life = naming[t].life
        /\ item.stranded = (ctx[t] = "stopping")
    <3>1. item = Task(t, asked)
      OBVIOUS
    <3> HIDE DEF item
    <3> QED BY <1>0, <2>2, <3>1, TaskIsRequest
  <2>5. ctx[boss] \notin Unborn /\ LookedAt(item)
    <3> HIDE DEF item
    <3> QED BY <2>2, <2>3, <2>4 DEF LookedAt
  <2> HIDE DEF item, boss
  <2>6. Submit(item)
    BY <2>1 DEF item
  <2> QED BY <2>2, <2>3, <2>4, <2>5, <2>6 DEF Submission
<1> QED BY <1>1, <1>2, <1>3

\* Only the delivery that ran is written, and what is made is its completion.
LEMMA SettledDoes ==
  ASSUME IInv, NEW s \in Sessions, NEW result \in Run \cup {NoDelivery},
         NEW outcome \in Final, Settled(s, result, outcome)
  PROVE  /\ running' = [running EXCEPT ![s] = NoDelivery]
         /\ s \in due' /\ due \subseteq due'
         /\ notify' \subseteq notify
         /\ \A d \in Made :
              /\ d \in Made' /\ SameRequest(delivery'[d], delivery[d])
              /\ \/ delivery'[d] = delivery[d]
                 \/ /\ d = running[s] /\ delivery[d].status = "running"
                    /\ delivery'[d].result = result
         /\ \/ Made' = Made /\ queue' = queue
            \/ \E n \in Deliveries \ Made, d \in notify :
                 /\ Made' = Made \cup {n}
                 /\ delivery'[n] = Completion(d)
                 /\ queue' = [queue EXCEPT ![delivery[d].source] = Append(@, n)]
                 /\ delivery[d].source \in due'
<1> DEFINE r == running[s]
           table == [delivery EXCEPT ![r].status = outcome, ![r].result = result]
           n == Min(Unused)
<1>0. /\ delivery \in [Deliveries -> Delivery \cup {Unmade}]
      /\ running' = [running EXCEPT ![s] = NoDelivery]
  BY DEF IInv, Coord, Coordinated, Shape, Settled
<1>1. \A x : SameRequest(x, x)
  BY DEF SameRequest
<1>2. CASE ~(r \in records /\ delivery[r].status = "running")
  <2>1. due' = due \cup {s} /\ UNCHANGED <<delivery, queue, notify>>
    BY <1>2 DEF Settled, Wake
  <2> QED BY <1>0, <1>1, <2>1 DEF Made
<1>3. CASE r \in records /\ delivery[r].status = "running"
  <2>1. Conclude(s, r, result, outcome)
    BY <1>3 DEF Settled
  <2>2. r \in Made /\ r \in Deliveries /\ delivery[r] \in Delivery
    BY <1>3, RecordsAreMade, MadeRecord
  <2>3. table = [delivery EXCEPT ![r] = [delivery[r] EXCEPT !.status = outcome, !.result = result]]
    BY <1>0, <2>2
  <2>4. /\ \A d \in Deliveries : d # r => table[d] = delivery[d]
        /\ table[r] = [delivery[r] EXCEPT !.status = outcome, !.result = result]
    BY <1>0, <2>2, <2>3
  <2>5. /\ SameRequest(table[r], delivery[r]) /\ table[r].result = result
        /\ table[r].status = outcome
    <3> DEFINE new == table[r]
    <3>1. new = WithResult(delivery[r], outcome, result)
      BY <2>4 DEF WithResult
    <3> HIDE DEF table, new
    <3>2. SameRequest(new, delivery[r]) /\ new.status = outcome /\ new.result = result
      BY <2>2, <3>1, Answered
    <3> QED BY <3>2 DEF new
  <2>6. \A d \in Deliveries : table[d].status = "unmade" <=> delivery[d].status = "unmade"
    BY <1>3, <2>4, <2>5 DEF Final
  <2>7. \A d \in Made :
          /\ d \in Deliveries /\ SameRequest(table[d], delivery[d])
          /\ \/ table[d] = delivery[d]
             \/ /\ d = r /\ delivery[d].status = "running"
                /\ table[d].result = result
    BY <1>1, <1>3, <2>4, <2>5 DEF Made
  <2>8. CASE /\ notify' = notify \ {r} /\ ReportsBack(r)
             /\ Enqueue(table, Completion(r))
             /\ due' = Wake({s, delivery[r].source})
    <3> DEFINE item == Completion(r)
    <3>1. r \in notify /\ item.target = delivery[r].source /\ item.status = "queued"
      BY <2>8 DEF ReportsBack, Completion
    <3>2. /\ delivery' = [table EXCEPT ![n] = item]
          /\ queue' = [queue EXCEPT ![item.target] = Append(@, n)]
      BY <2>8 DEF Enqueue
    <3>3. n \in Deliveries \ Made
      <4>1. records \subseteq Deliveries /\ Cardinality(records) <= Capacity
        BY RecordsAreMade DEF IInv, Coord, Coordinated, Shape
      <4> HIDE DEF item, table
      <4> QED BY <2>8, <4>1, EnqueueMakesRoom DEF item
    <3>4. DOMAIN table = Deliveries
      BY <1>0
    <3> HIDE DEF item, table, n
    <3>5. /\ delivery'[n] = item
          /\ \A d \in Deliveries : d # n => delivery'[d] = table[d]
      BY <3>2, <3>3, <3>4
    <3>6. Made' = Made \cup {n}
      BY <2>6, <3>1, <3>3, <3>5 DEF Made
    <3>7. \A d \in Made : delivery'[d] = table[d]
      BY <2>7, <3>3, <3>5
    <3>8. due' = due \cup {s, delivery[r].source} /\ notify' \subseteq notify
      BY <2>8 DEF Wake
    <3>9. queue' = [queue EXCEPT ![delivery[r].source] = Append(@, n)]
      BY <3>1, <3>2
    <3> HIDE DEF r
    <3>10. \A d \in Made :
             /\ d \in Made' /\ SameRequest(delivery'[d], delivery[d])
             /\ \/ delivery'[d] = delivery[d]
                \/ /\ d = r /\ delivery[d].status = "running"
                   /\ delivery'[d].result = result
      BY <2>7, <3>6, <3>7
    <3>11. n \in Deliveries \ Made /\ r \in notify /\ delivery'[n] = Completion(r)
           /\ delivery[r].source \in due'
      BY <3>1, <3>3, <3>5, <3>8 DEF item
    <3> QED BY <1>0, <3>6, <3>8, <3>9, <3>10, <3>11 DEF r
  <2>9. CASE /\ notify' = notify \ {r} /\ delivery' = table /\ due' = Wake({s})
             /\ UNCHANGED <<records, queue>>
    <3>1. Made' = Made
      BY <2>6, <2>9 DEF Made
    <3>2. s \in due' /\ due \subseteq due' /\ notify' \subseteq notify /\ queue' = queue
      BY <2>9 DEF Wake
    <3>3. \A d \in Made : delivery'[d] = table[d]
      BY <2>9
    <3> HIDE DEF table
    <3> QED BY <1>0, <2>7, <3>1, <3>2, <3>3
  <2> QED BY <2>1, <2>8, <2>9 DEF Conclude
<1> QED BY <1>2, <1>3

\* What was queued or running for s is over, and s is told nothing any more.
LEMMA InterruptedDoes ==
  ASSUME IInv, NEW s \in Sessions, Interrupted(s)
  PROVE  /\ running' = [running EXCEPT ![s] = NoDelivery]
         /\ queue' = [queue EXCEPT ![s] = <<>>]
         /\ life' = [life EXCEPT ![s] = @ + 1]
         /\ Made' = Made
         /\ notify' \subseteq notify /\ \A d \in notify' : delivery[d].source # s
         /\ \A d \in Made :
              /\ SameRequest(delivery'[d], delivery[d])
              /\ delivery'[d].result = delivery[d].result
              /\ delivery'[d] = delivery[d] \/ delivery[d].status \in Active
<1>1. /\ running' = [running EXCEPT ![s] = NoDelivery]
      /\ queue' = [queue EXCEPT ![s] = <<>>]
      /\ life' = [life EXCEPT ![s] = @ + 1]
      /\ delivery' = [d \in Deliveries |->
           IF d \in Hit(s) THEN [delivery[d] EXCEPT !.status = "interrupted"]
                           ELSE delivery[d]]
  BY DEF Interrupted
<1>2. notify' \subseteq notify /\ \A d \in notify' : delivery[d].source # s
  BY NotifyIsMade DEF Interrupted, StillTold
<1>3. ASSUME NEW d \in Made
      PROVE  /\ SameRequest(delivery'[d], delivery[d])
             /\ delivery'[d].result = delivery[d].result
             /\ delivery'[d] = delivery[d] \/ delivery[d].status \in Active
             /\ d \in Made'
  <2>1. d \in Deliveries /\ delivery[d] \in Delivery
    BY MadeRecord
  <2>2. CASE d \in Hit(s)
    <3>1. delivery'[d] = [delivery[d] EXCEPT !.status = "interrupted"]
      BY <1>1, <2>1, <2>2
    <3>2. delivery[d].status \in Active
      BY <2>2 DEF Hit, IsActive
    <3>3. /\ SameRequest(delivery'[d], delivery[d])
          /\ delivery'[d].status = "interrupted"
          /\ delivery'[d].result = delivery[d].result
      BY <2>1, <3>1, Rewritten
    <3> QED BY <2>1, <3>2, <3>3 DEF Made
  <2>3. CASE d \notin Hit(s)
    <3>1. delivery'[d] = delivery[d]
      BY <1>1, <2>1, <2>3
    <3> QED BY <2>1, <3>1 DEF Made, SameRequest
  <2> QED BY <2>2, <2>3
<1>4. ASSUME NEW d \in Made' PROVE d \in Made
  <2>1. d \in Deliveries /\ (d \in Hit(s) \/ delivery'[d] = delivery[d])
    BY <1>1 DEF Made
  <2>2. Hit(s) \subseteq Made
    BY RecordsAreMade DEF Hit
  <2> QED BY <2>1, <2>2 DEF Made
<1> QED BY <1>1, <1>2, <1>3, <1>4

\* The end of a drain that failed.
LEMMA FailDrainDoes ==
  ASSUME IInv, NEW s \in Sessions, FailDrain(s)
  PROVE  \/ /\ running[s] = draining[s]
            /\ draining' = [draining EXCEPT ![s] = NoDelivery]
            /\ Settled(s, NoDelivery, "failed")
         \/ running[s] # draining[s] /\ EndDrain(s)
BY DEF FailDrain

\* What a cancel rewrites is over.
LEMMA CancelDoes ==
  ASSUME IInv, NEW src \in Sessions, NEW t \in Sessions, Cancel(src, t)
  PROVE  /\ Made' = Made /\ notify' \subseteq notify
         /\ UNCHANGED <<running, draining, due, ctx, runOpen, stopAll, owner,
                        events, pi, life, used>>
         /\ \A d \in Made :
              /\ SameRequest(delivery'[d], delivery[d])
              /\ delivery'[d].result = delivery[d].result
              /\ \/ delivery'[d] = delivery[d]
                 \/ /\ delivery[d].status \in Active /\ delivery[d].target = t
                    /\ delivery'[d].status = "cancelled"
         /\ \/ commands' = commands
            \/ /\ running[t] \in Made /\ delivery[running[t]].status \in Active
               /\ delivery'[running[t]].status = "cancelled"
               /\ ctx[t] \notin {"absent", "spawning", "none", "launching"}
               /\ commands' = [commands EXCEPT ![t] = Append(@,
                    [type |-> "abort", run |-> running[t],
                     told |-> running[t] \in notify])]
<1>1. PICK chosen \in {Cancellable(src, t)} \cup {{d} : d \in Cancellable(src, t)} :
        /\ delivery' = [d \in Deliveries |->
             IF d \in chosen THEN [delivery[d] EXCEPT !.status = "cancelled"]
                             ELSE delivery[d]]
        /\ notify' = notify \ chosen
        /\ \/ /\ Aborts(t, chosen)
              /\ commands' = [commands EXCEPT ![t] = Append(@,
                   [type |-> "abort", run |-> running[t],
                    told |-> running[t] \in notify])]
           \/ UNCHANGED commands
  BY DEF Cancel
<1>2. /\ ctx[t] \notin {"absent", "spawning"}
      /\ UNCHANGED <<running, draining, due, ctx, runOpen, stopAll, owner,
                     events, pi, life, used>>
  BY DEF Cancel, contextVars
<1>3. chosen \subseteq Cancellable(src, t)
  OBVIOUS
<1>4. ASSUME NEW d \in chosen
      PROVE  /\ d \in Made /\ delivery[d].status \in Active /\ delivery[d].target = t
  BY <1>3, RecordsAreMade DEF Cancellable, IsActive
<1>5. ASSUME NEW d \in Made
      PROVE  /\ SameRequest(delivery'[d], delivery[d])
             /\ delivery'[d].result = delivery[d].result
             /\ \/ delivery'[d] = delivery[d]
                \/ /\ delivery[d].status \in Active /\ delivery[d].target = t
                   /\ delivery'[d].status = "cancelled"
             /\ d \in Made'
             /\ d \in chosen => delivery'[d].status = "cancelled"
  <2>1. d \in Deliveries /\ delivery[d] \in Delivery
    BY MadeRecord
  <2>2. CASE d \in chosen
    <3>1. delivery'[d] = [delivery[d] EXCEPT !.status = "cancelled"]
      BY <1>1, <2>1, <2>2
    <3>2. /\ SameRequest(delivery'[d], delivery[d])
          /\ delivery'[d].status = "cancelled"
          /\ delivery'[d].result = delivery[d].result
      BY <2>1, <3>1, Rewritten
    <3> QED BY <1>4, <2>1, <2>2, <3>2 DEF Made
  <2>3. CASE d \notin chosen
    <3>1. delivery'[d] = delivery[d]
      BY <1>1, <2>1, <2>3
    <3> QED BY <2>1, <2>3, <3>1 DEF Made, SameRequest
  <2> QED BY <2>2, <2>3
<1>6. ASSUME NEW d \in Made' PROVE d \in Made
  <2>1. d \in Deliveries /\ (d \in chosen \/ delivery'[d] = delivery[d])
    BY <1>1 DEF Made
  <2> QED BY <1>4, <2>1 DEF Made
<1>7. \/ commands' = commands
      \/ /\ running[t] \in Made /\ delivery[running[t]].status \in Active
         /\ delivery'[running[t]].status = "cancelled"
         /\ ctx[t] \notin {"absent", "spawning", "none", "launching"}
         /\ commands' = [commands EXCEPT ![t] = Append(@,
              [type |-> "abort", run |-> running[t],
               told |-> running[t] \in notify])]
  <2>1. CASE Aborts(t, chosen)
    <3>1. running[t] \in chosen /\ ctx[t] \notin {"none", "launching"}
      BY <2>1 DEF Aborts
    <3> QED BY <1>1, <1>2, <1>4, <1>5, <3>1
  <2>2. CASE ~Aborts(t, chosen)
    BY <1>1, <2>2
  <2> QED BY <2>1, <2>2
<1>8. Made' = Made /\ notify' \subseteq notify
  BY <1>1, <1>5, <1>6
<1> QED BY <1>2, <1>5, <1>7, <1>8

\* A drain starts what was queued.
LEMMA DrainDoes ==
  ASSUME IInv, NEW s \in Sessions, Drain(s)
  PROVE  \E d \in Made :
           /\ delivery[d].status = "queued" /\ delivery[d].target = s
           /\ d = Head(queue[s])
           /\ Made' = Made
           /\ delivery'[d].result = delivery[d].result
           /\ \A e \in Made : SameRequest(delivery'[e], delivery[e])
           /\ \A e \in Made : e # d => delivery'[e] = delivery[e]
           /\ running' = [running EXCEPT ![s] = d]
           /\ draining' = [draining EXCEPT ![s] = d]
<1> DEFINE d == Head(queue[s])
<1>1. /\ queue[s] # <<>>
      /\ delivery' = [delivery EXCEPT ![d].status = "running"]
      /\ running' = [running EXCEPT ![s] = d]
      /\ draining' = [draining EXCEPT ![s] = d]
  BY DEF Drain, CanDrain
<1>2. /\ queue[s] \in Seq(Deliveries) /\ QueuesAgree(delivery, queue)
      /\ delivery \in [Deliveries -> Delivery \cup {Unmade}]
  BY DEF IInv, Coord, Coordinated, Shape
<1>3. d \in Range(queue[s])
  BY <1>1, <1>2, TailQueue DEF QueuesAgree
<1>4. d \in Made /\ delivery[d].status = "queued" /\ delivery[d].target = s
  BY <1>2, <1>3, MadeIsMade DEF QueuesAgree
<1>5. d \in Deliveries /\ delivery[d] \in Delivery
  BY <1>4, MadeRecord
<1> HIDE DEF d
<1>6. /\ delivery'[d] = [delivery[d] EXCEPT !.status = "running"]
      /\ \A e \in Deliveries : e # d => delivery'[e] = delivery[e]
  BY <1>1, <1>2, <1>5
<1>7. /\ SameRequest(delivery'[d], delivery[d]) /\ delivery'[d].status = "running"
      /\ delivery'[d].result = delivery[d].result
  BY <1>5, <1>6, Rewritten
<1>8. Made' = Made
  BY <1>4, <1>6, <1>7 DEF Made
<1>9. \A e \in Made : SameRequest(delivery'[e], delivery[e])
  BY <1>6, <1>7 DEF Made, SameRequest
<1>10. \A e \in Made : e # d => delivery'[e] = delivery[e]
  BY <1>6 DEF Made
<1> QED BY <1>1, <1>4, <1>7, <1>8, <1>9, <1>10 DEF d

-----------------------------------------------------------------------------
(* Where a Session's channel and drain stand at each status                *)

Offline == Unborn \cup {"none", "launching"}

\* A Session that is not there yet is named in no delivery; a launch holds the
\* delivery it is made for; a Session that stops or crashed works on nothing.
Stage(s) ==
  /\ ctx[s] \in Unborn =>
       /\ draining[s] = NoDelivery
       /\ \A d \in Made : delivery[d].source # s /\ delivery[d].target # s
  /\ ctx[s] = "none" => running[s] = NoDelivery /\ draining[s] = NoDelivery
  /\ ctx[s] = "launching" => running[s] # NoDelivery /\ draining[s] = running[s]
  /\ ctx[s] \in {"stopping", "crashed"} => running[s] = NoDelivery
  /\ ctx[s] \in Offline =>
       /\ commands[s] = <<>> /\ events[s] = <<>>
       /\ pi[s] = NoDelivery /\ ~runOpen[s]
Stages == \A s \in Sessions : Stage(s)

Shapes ==
  /\ running \in [Sessions -> Deliveries \cup {NoDelivery}]
  /\ draining \in [Sessions -> Deliveries \cup {NoDelivery}]
  /\ due \in SUBSET Sessions
  /\ ctx \in [Sessions -> Status] /\ runOpen \in [Sessions -> BOOLEAN]
  /\ owner \in [Sessions -> Sessions]
  /\ commands \in [Sessions -> Seq(Command)] /\ events \in [Sessions -> Seq(Event)]
  /\ pi \in [Sessions -> Run \cup {NoDelivery}]
  /\ queue \in [Sessions -> Seq(Deliveries)] /\ life \in [Sessions -> Nat]
  /\ used \in [OutsideEvent -> Nat]

LEMMA IInvShapes == IInv => Shapes
BY IInvImplies DEF TypeOK, Shapes

\* The steps that touch no delivery.
LEMMA QuietStages ==
  ASSUME IInv, Stages, NEW src \in Sessions, NEW s \in Sessions,
         \/ Spawn(src, s) \/ SpawnFails(s) \/ DrainNothing(s) \/ LaunchDone(s)
         \/ PiTakesPrompt(s) \/ PiTakesAbort(s) \/ PiSettles(s) \/ PiStartsOwnRun(s)
         \/ HandleStart(s) \/ HandleAccepted(s) \/ Activate(s) \/ UserPrompt(s)
         \/ UserAbort(s) \/ Hibernate(s) \/ StopDone(s) \/ StopFails(s)
  PROVE  Stages'
<1> SUFFICES ASSUME NEW u \in Sessions PROVE Stage(u)'
  BY DEF Stages
<1>1. Shapes /\ Stage(u) /\ Stage(s)
  BY IInvShapes DEF Stages
<1> USE DEF Shapes, Stage, Unborn, Offline, Made, coordinatorVars, contextVars, piVars
<1>2. CASE Spawn(src, s)
  BY <1>1, <1>2 DEF Spawn
<1>3. CASE SpawnFails(s)
  BY <1>1, <1>3 DEF SpawnFails
<1>4. CASE DrainNothing(s)
  BY <1>1, <1>4 DEF DrainNothing
<1>5. CASE LaunchDone(s)
  BY <1>1, <1>5 DEF LaunchDone, HandOver
<1>6. CASE PiTakesPrompt(s)
  BY <1>1, <1>6 DEF PiTakesPrompt, Takes, Emits
<1>7. CASE PiTakesAbort(s)
  BY <1>1, <1>7 DEF PiTakesAbort, Takes, Emits
<1>8. CASE PiSettles(s)
  BY <1>1, <1>8 DEF PiSettles, Emits
<1>9. CASE PiStartsOwnRun(s)
  BY <1>1, <1>9 DEF PiStartsOwnRun, Emits
<1>10. CASE HandleStart(s)
  BY <1>1, <1>10 DEF HandleStart, Receives, Listening
<1>11. CASE HandleAccepted(s)
  BY <1>1, <1>11 DEF HandleAccepted, Receives, EndDrain
<1>12. CASE Activate(s)
  BY <1>1, <1>12 DEF Activate
<1>13. CASE UserPrompt(s)
  BY <1>1, <1>13 DEF UserPrompt, Promptable
<1>14. CASE UserAbort(s)
  BY <1>1, <1>14 DEF UserAbort
<1>15. CASE Hibernate(s)
  BY <1>1, <1>15 DEF Hibernate, HasPending
<1>16. CASE StopDone(s)
  BY <1>1, <1>16 DEF StopDone, DropDrain, Gone
<1>17. CASE StopFails(s)
  BY <1>1, <1>17 DEF StopFails
<1> QED BY <1>2, <1>3, <1>4, <1>5, <1>6, <1>7, <1>8, <1>9, <1>10, <1>11, <1>12, <1>13, <1>14, <1>15, <1>16, <1>17

\* Each delivery was there before, or both of its Sessions are there.
Origin ==
  \A d \in Made' :
    \/ d \in Made /\ SameRequest(delivery'[d], delivery[d])
    \/ /\ ctx'[delivery'[d].source] \notin Unborn
       /\ ctx'[delivery'[d].target] \notin Unborn

LEMMA BornStay ==
  ASSUME Stages, Origin, NEW u \in Sessions, ctx[u] \in Unborn,
         ctx'[u] \in Unborn
  PROVE  \A d \in Made' : delivery'[d].source # u /\ delivery'[d].target # u
BY DEF Stages, Stage, Origin, SameRequest

LEMMA BornPartners ==
  ASSUME IInv, Stages, NEW d \in Made
  PROVE  /\ ctx[delivery[d].source] \notin Unborn
         /\ ctx[delivery[d].target] \notin Unborn
BY MadeRecord DEF Stages, Stage

LEMMA SubmitOrigin ==
  ASSUME IInv, NEW t \in Sessions, Submission(t)
  PROVE  Origin /\ UNCHANGED <<running, draining>>
<1>1. PICK item :
        /\ Request(item) /\ Submit(item) /\ item.target = t
        /\ ctx'[t] \notin Unborn /\ ctx'[item.source] \notin Unborn
  BY DEF Submission
<1>2. UNCHANGED <<running, draining>>
  BY <1>1, SubmitDoes
<1>3. PICK n \in Deliveries \ Made :
        /\ Made' = Made \cup {n}
        /\ \A d \in Made : delivery'[d] = delivery[d]
        /\ delivery'[n] = item
  BY <1>1, SubmitDoes
<1> QED BY <1>1, <1>2, <1>3 DEF Origin, SameRequest

LEMMA SettledOrigin ==
  ASSUME IInv, Stages, NEW s \in Sessions, NEW result \in Run \cup {NoDelivery},
         NEW outcome \in Final, Settled(s, result, outcome),
         \A u \in Sessions : ctx[u] \notin Unborn => ctx'[u] \notin Unborn
  PROVE  Origin
<1>1. \A d \in Made : SameRequest(delivery'[d], delivery[d])
  BY SettledDoes
<1>2. \/ Made' = Made
      \/ \E n \in Deliveries \ Made, d \in notify :
           Made' = Made \cup {n} /\ delivery'[n] = Completion(d)
  BY SettledDoes
<1>3. ASSUME NEW d \in notify
      PROVE  /\ ctx'[Completion(d).source] \notin Unborn
             /\ ctx'[Completion(d).target] \notin Unborn
  <2>1. d \in Made
    BY NotifyIsMade
  <2>2. delivery[d].source \in Sessions /\ delivery[d].target \in Sessions
    BY <2>1, MadeRecord
  <2> QED BY <2>1, <2>2, BornPartners DEF Completion
<1> QED BY <1>1, <1>2, <1>3 DEF Origin

LEMMA SameOrigin ==
  ASSUME Made' = Made, \A d \in Made : SameRequest(delivery'[d], delivery[d])
  PROVE  Origin
BY DEF Origin

LEMMA SendStages ==
  ASSUME IInv, Stages, NEW src \in Sessions, NEW t \in Sessions, Send(src, t)
  PROVE  Stages'
<1>1. UNCHANGED <<ctx, runOpen, commands, events, pi>>
  BY DEF Send, contextVars, piVars
<1>2. Origin /\ UNCHANGED <<running, draining>>
  BY Submissions, SubmitOrigin
<1> QED BY <1>1, <1>2, BornStay DEF Stages, Stage

LEMMA SpawnNamedStages ==
  ASSUME IInv, Stages, NEW t \in Sessions, SpawnNamed(t)
  PROVE  Stages'
<1>1. UNCHANGED <<ctx, runOpen, commands, events, pi>>
  BY DEF SpawnNamed, piVars
<1>2. Origin /\ UNCHANGED <<running, draining>>
  <2>1. CASE UNCHANGED coordinatorVars
    <3>1. UNCHANGED <<delivery, running, draining>>
      BY <2>1 DEF coordinatorVars
    <3> QED BY <3>1, SameOrigin DEF Made, SameRequest
  <2> QED BY <2>1, Submissions, SubmitOrigin
<1> QED BY <1>1, <1>2, BornStay DEF Stages, Stage

LEMMA SpawnDoneStages ==
  ASSUME IInv, Stages, NEW t \in Sessions, SpawnDone(t)
  PROVE  Stages'
<1>1. Shapes
  BY IInvShapes
<1>2. /\ ctx' = [ctx EXCEPT ![t] = "ready"]
      /\ UNCHANGED <<runOpen, commands, events, pi>>
  BY DEF SpawnDone, piVars
<1>4. Origin /\ UNCHANGED <<running, draining>>
  <2>1. CASE UNCHANGED coordinatorVars
    <3>1. UNCHANGED <<delivery, running, draining>>
      BY <2>1 DEF coordinatorVars
    <3> QED BY <3>1, SameOrigin DEF Made, SameRequest
  <2> QED BY <2>1, Submissions, SubmitOrigin
<1> SUFFICES ASSUME NEW u \in Sessions PROVE Stage(u)'
  BY DEF Stages
<1>5. ctx'[u] \in Unborn => ctx[u] \in Unborn
  BY <1>1, <1>2 DEF Shapes, Unborn
<1>6. ctx'[u] \in Unborn =>
        \A d \in Made' : delivery'[d].source # u /\ delivery'[d].target # u
  BY <1>4, <1>5, BornStay
<1> QED BY <1>1, <1>2, <1>4, <1>6 DEF Stages, Stage, Shapes, Unborn, Offline

LEMMA CancelStages ==
  ASSUME IInv, Stages, NEW src \in Sessions, NEW t \in Sessions, Cancel(src, t)
  PROVE  Stages'
<1>1. Origin /\ Shapes
  BY CancelDoes, SameOrigin, IInvShapes
<1>2. UNCHANGED <<running, draining, ctx, runOpen, events, pi>>
  BY CancelDoes
<1>3. \/ commands' = commands
      \/ /\ ctx[t] \notin Offline
         /\ commands' = [commands EXCEPT ![t] = Append(@,
              [type |-> "abort", run |-> running[t], told |-> running[t] \in notify])]
  BY CancelDoes DEF Offline, Unborn
<1> SUFFICES ASSUME NEW u \in Sessions PROVE Stage(u)'
  BY DEF Stages
<1>4. ctx'[u] \in Unborn =>
        \A d \in Made' : delivery'[d].source # u /\ delivery'[d].target # u
  BY <1>1, <1>2, BornStay
<1>5. ctx[u] \in Offline => commands'[u] = commands[u]
  BY <1>1, <1>3 DEF Shapes
<1> QED BY <1>2, <1>4, <1>5 DEF Stages, Stage

LEMMA DrainStages ==
  ASSUME IInv, Stages, NEW s \in Sessions, Drain(s)
  PROVE  Stages'
<1>1. Origin /\ Shapes
  BY DrainDoes, SameOrigin, IInvShapes
<1>2. PICK d \in Made : /\ running' = [running EXCEPT ![s] = d]
                        /\ draining' = [draining EXCEPT ![s] = d]
  BY DrainDoes
<1>3. d # NoDelivery
  BY DEF Made, Deliveries, NoDelivery
<1>4. /\ UNCHANGED <<events, pi>> /\ ctx[s] \in {"none", "ready"}
      /\ \/ /\ ctx' = [ctx EXCEPT ![s] = "launching"]
            /\ ctx[s] = "none" /\ UNCHANGED <<runOpen, commands>>
         \/ HandOver(s, Head(queue[s]))
  BY DEF Drain, CanDrain, Ready
<1> SUFFICES ASSUME NEW u \in Sessions PROVE Stage(u)'
  BY DEF Stages
<1>5. ctx'[u] \in Unborn => ctx[u] \in Unborn
  BY <1>1, <1>4 DEF Shapes, Unborn, HandOver
<1>6. ctx'[u] \in Unborn =>
        \A e \in Made' : delivery'[e].source # u /\ delivery'[e].target # u
  BY <1>1, <1>5, BornStay
<1> QED BY <1>1, <1>2, <1>3, <1>4, <1>6
        DEF Stages, Stage, Shapes, Unborn, Offline, HandOver

LEMMA FailDrainStages ==
  ASSUME IInv, Stages, NEW s \in Sessions, FailDrain(s),
         \A u \in Sessions : ctx[u] \notin Unborn => ctx'[u] \notin Unborn
  PROVE  /\ Origin
         /\ running' = [running EXCEPT ![s] = NoDelivery] \/ running' = running
         /\ running[s] = draining[s] => running' = [running EXCEPT ![s] = NoDelivery]
         /\ draining' = [draining EXCEPT ![s] = NoDelivery]
<1>1. CASE /\ draining' = [draining EXCEPT ![s] = NoDelivery]
           /\ Settled(s, NoDelivery, "failed")
  <2>1. NoDelivery \in Run \cup {NoDelivery} /\ "failed" \in Final
    BY DEF Final
  <2>2. Origin /\ running' = [running EXCEPT ![s] = NoDelivery]
    BY <1>1, <2>1, SettledOrigin, SettledDoes
  <2> QED BY <1>1, <2>2
<1>2. CASE running[s] # draining[s] /\ EndDrain(s)
  <2>1. /\ UNCHANGED <<delivery, running>>
        /\ draining' = [draining EXCEPT ![s] = NoDelivery]
    BY <1>2 DEF EndDrain
  <2>2. Origin
    BY <2>1, SameOrigin DEF Made, SameRequest
  <2> QED BY <1>2, <2>1, <2>2
<1> QED BY <1>1, <1>2 DEF FailDrain

LEMMA LaunchFailsStages ==
  ASSUME IInv, Stages, NEW s \in Sessions, LaunchFails(s)
  PROVE  Stages'
<1>1. /\ ctx' = [ctx EXCEPT ![s] = "none"] /\ ctx[s] = "launching" /\ FailDrain(s)
      /\ UNCHANGED <<runOpen, commands, events, pi>> /\ Shapes
  BY IInvShapes DEF LaunchFails, piVars
<1>2. \A u \in Sessions : (ctx[u] \in Unborn <=> ctx'[u] \in Unborn)
  BY <1>1 DEF Shapes, Unborn
<1>3. /\ Origin /\ draining' = [draining EXCEPT ![s] = NoDelivery]
      /\ running' = [running EXCEPT ![s] = NoDelivery]
  BY <1>1, <1>2, FailDrainStages DEF Stages, Stage
<1> SUFFICES ASSUME NEW u \in Sessions PROVE Stage(u)'
  BY DEF Stages
<1>4. ctx'[u] \in Unborn =>
        \A e \in Made' : delivery'[e].source # u /\ delivery'[e].target # u
  BY <1>2, <1>3, BornStay
<1> QED BY <1>1, <1>3, <1>4 DEF Stages, Stage, Shapes, Unborn, Offline

LEMMA HandleSettledStages ==
  ASSUME IInv, Stages, NEW s \in Sessions, HandleSettled(s)
  PROVE  Stages'
<1> DEFINE e == Head(events[s])
<1>1. /\ UNCHANGED <<draining, commands, pi>> /\ Shapes /\ events[s] # <<>>
      /\ events' = [events EXCEPT ![s] = Tail(@)]
  BY IInvShapes DEF HandleSettled, Receives, coordinatorVars
<1>2. \/ ctx[s] \in {"ready", "running"} /\ ctx' = [ctx EXCEPT ![s] = "ready"]
      \/ ctx' = ctx
  BY DEF HandleSettled, Listening
<1>3. runOpen' = [runOpen EXCEPT ![s] = FALSE] \/ runOpen' = runOpen
  BY DEF HandleSettled
<1>4. \A u \in Sessions : (ctx[u] \in Unborn <=> ctx'[u] \in Unborn)
  BY <1>1, <1>2 DEF Shapes, Unborn
<1>5. Origin /\ (running' = [running EXCEPT ![s] = NoDelivery] \/ running' = running)
  <2>1. CASE Settled(s, e.run, e.outcome)
    <3>1. e \in Event
      BY <1>1, HeadTailProperties DEF Shapes
    <3>2. e.run \in Run \cup {NoDelivery} /\ e.outcome \in Final
      BY <3>1 DEF Event, Final
    <3> HIDE DEF e
    <3> QED BY <2>1, <1>4, <3>2, SettledOrigin, SettledDoes
  <2>2. CASE UNCHANGED <<delivery, running>>
    BY <2>2, SameOrigin DEF Made, SameRequest
  <2> QED BY <2>1, <2>2 DEF HandleSettled, coordinatorVars
<1> SUFFICES ASSUME NEW u \in Sessions PROVE Stage(u)'
  BY DEF Stages
<1>6. ctx'[u] \in Unborn =>
        \A d \in Made' : delivery'[d].source # u /\ delivery'[d].target # u
  BY <1>4, <1>5, BornStay
<1>7. ctx[s] \notin Offline
  BY <1>1 DEF Stages, Stage
<1> QED BY <1>1, <1>2, <1>3, <1>5, <1>6, <1>7
        DEF Stages, Stage, Shapes, Unborn, Offline

LEMMA HandleRejectedStages ==
  ASSUME IInv, Stages, NEW s \in Sessions, HandleRejected(s)
  PROVE  Stages'
<1>1. /\ UNCHANGED <<commands, pi>> /\ Shapes /\ events[s] # <<>>
      /\ events' = [events EXCEPT ![s] = Tail(@)]
      /\ ctx' = IF ctx[s] = "running" THEN [ctx EXCEPT ![s] = "ready"] ELSE ctx
      /\ runOpen' = [runOpen EXCEPT ![s] = FALSE] \/ runOpen' = runOpen
  BY IInvShapes DEF HandleRejected, Receives
<1>2. \A u \in Sessions : (ctx[u] \in Unborn <=> ctx'[u] \in Unborn)
  BY <1>1 DEF Shapes, Unborn
<1>3. /\ Origin
      /\ running' = [running EXCEPT ![s] = NoDelivery] \/ running' = running
      /\ draining' = [draining EXCEPT ![s] = NoDelivery] \/ draining' = draining
  <2>1. CASE FailDrain(s)
    BY <2>1, <1>2, FailDrainStages
  <2>2. CASE UNCHANGED <<delivery, running, draining>>
    BY <2>2, SameOrigin DEF Made, SameRequest
  <2> QED BY <2>1, <2>2 DEF HandleRejected, coordinatorVars
<1> SUFFICES ASSUME NEW u \in Sessions PROVE Stage(u)'
  BY DEF Stages
<1>4. ctx'[u] \in Unborn =>
        \A d \in Made' : delivery'[d].source # u /\ delivery'[d].target # u
  BY <1>2, <1>3, BornStay
<1>5. ctx[s] \notin Offline
  BY <1>1 DEF Stages, Stage
<1> QED BY <1>1, <1>3, <1>4, <1>5 DEF Stages, Stage, Shapes, Unborn, Offline

\* A failed abort revives the delivery that still runs.
LEMMA AbortFailedDoes ==
  ASSUME IInv, NEW s \in Sessions, HandleAbortFailed(s)
  PROVE  LET e == Head(events[s]) IN
         /\ Made' = Made /\ events' = [events EXCEPT ![s] = Tail(@)]
         /\ events[s] # <<>> /\ e \in Event /\ e.type = "abortFailed"
         /\ UNCHANGED <<records, queue, running, draining, due, ctx, owner, runOpen,
                        stopAll, commands, pi, life, used>>
         /\ \A d \in Made : /\ SameRequest(delivery'[d], delivery[d])
                            /\ delivery'[d].result = delivery[d].result
                            /\ delivery'[d] = delivery[d] \/ d = e.run
<1> DEFINE e == Head(events[s])
           r == e.run
<1>1. /\ events[s] # <<>> /\ e.type = "abortFailed"
      /\ events' = [events EXCEPT ![s] = Tail(@)]
      /\ UNCHANGED <<records, queue, running, draining, due, ctx, owner, runOpen,
                     stopAll, commands, pi, life, used>>
  BY DEF HandleAbortFailed, Receives, contextVars
<1>2. e \in Event
  BY <1>1, IInvShapes, HeadTailProperties DEF Shapes
<1>3. \/ r \in records /\ delivery' = [delivery EXCEPT ![r].status = "running"]
      \/ delivery' = delivery
  BY DEF HandleAbortFailed
<1> HIDE DEF r, e
<1>4. CASE delivery' = delivery
  BY <1>1, <1>2, <1>4 DEF Made, SameRequest, e
<1>5. CASE r \in records /\ delivery' = [delivery EXCEPT ![r].status = "running"]
  <2>1. r \in Made /\ r \in Deliveries /\ delivery[r] \in Delivery
    BY <1>5, RecordsAreMade, MadeRecord
  <2>2. delivery \in [Deliveries -> Delivery \cup {Unmade}]
    BY DEF IInv, Coord, Coordinated, Shape
  <2>3. /\ delivery'[r] = [delivery[r] EXCEPT !.status = "running"]
        /\ \A d \in Deliveries : d # r => delivery'[d] = delivery[d]
    BY <1>5, <2>1, <2>2
  <2>4. /\ SameRequest(delivery'[r], delivery[r]) /\ delivery'[r].status = "running"
        /\ delivery'[r].result = delivery[r].result
    BY <2>1, <2>3, Rewritten
  <2>5. Made' = Made
    BY <2>1, <2>3, <2>4 DEF Made
  <2>6. \A d \in Made : /\ SameRequest(delivery'[d], delivery[d])
                        /\ delivery'[d].result = delivery[d].result
                        /\ delivery'[d] = delivery[d] \/ d = r
    BY <2>3, <2>4 DEF Made, SameRequest
  <2> QED BY <1>1, <1>2, <2>5, <2>6 DEF e, r
<1> QED BY <1>3, <1>4, <1>5

LEMMA HandleAbortFailedStages ==
  ASSUME IInv, Stages, NEW s \in Sessions, HandleAbortFailed(s)
  PROVE  Stages'
<1>1. /\ Origin /\ Shapes /\ events[s] # <<>>
      /\ events' = [events EXCEPT ![s] = Tail(@)]
      /\ UNCHANGED <<running, draining, ctx, runOpen, commands, pi>>
  BY AbortFailedDoes, SameOrigin, IInvShapes
<1> SUFFICES ASSUME NEW u \in Sessions PROVE Stage(u)'
  BY DEF Stages
<1>2. ctx'[u] \in Unborn =>
        \A d \in Made' : delivery'[d].source # u /\ delivery'[d].target # u
  BY <1>1, BornStay
<1>3. ctx[s] \notin Offline
  BY <1>1 DEF Stages, Stage
<1> QED BY <1>1, <1>2, <1>3 DEF Stages, Stage, Shapes, Unborn, Offline

LEMMA InterruptedStages ==
  ASSUME IInv, Stages, NEW s \in Sessions, Crash(s) \/ Stop(s) \/ NamingFails(s)
  PROVE  Stages'
<1>1. Interrupted(s) /\ Shapes
  BY IInvShapes DEF Crash, Stop, NamingFails
<1>2. Origin /\ running' = [running EXCEPT ![s] = NoDelivery]
  BY <1>1, InterruptedDoes, SameOrigin
<1>3. \/ ctx' = [ctx EXCEPT ![s] = "crashed"]
      \/ ctx' = [ctx EXCEPT ![s] = "stopping"]
  BY DEF Crash, Stop, NamingFails
<1>4. ctx[s] \in Up
  BY DEF Crash, Stop, NamingFails, Listening, Up, IInv, Named
<1>5. (Gone(s) /\ DropDrain(s)) \/ UNCHANGED <<draining, runOpen, commands, events, pi>>
  BY DEF Crash, Stop, NamingFails, piVars
<1> SUFFICES ASSUME NEW u \in Sessions PROVE Stage(u)'
  BY DEF Stages
<1>6. ctx'[u] \in Unborn => ctx[u] \in Unborn
  BY <1>1, <1>3, <1>4 DEF Shapes, Unborn, Up
<1>7. ctx'[u] \in Unborn =>
        \A e \in Made' : delivery'[e].source # u /\ delivery'[e].target # u
  BY <1>2, <1>6, BornStay
<1> QED BY <1>1, <1>2, <1>3, <1>4, <1>5, <1>7
        DEF Stages, Stage, Shapes, Unborn, Up, Offline, Gone, DropDrain

LEMMA InitStages == Init => Stages
BY DEF Init, Stages, Stage, Unborn, Offline, Made, Unmade

LEMMA StepStages == IInv /\ Stages /\ [Next]_vars => Stages'
<1> SUFFICES ASSUME IInv, Stages, [Next]_vars PROVE Stages'
  OBVIOUS
<1>1. ASSUME NEW s \in Sessions, NEW t \in Sessions,
             Send(s, t) \/ Spawn(s, t) \/ Cancel(s, t)
      PROVE  Stages'
  BY <1>1, SendStages, QuietStages, CancelStages
<1>2. CASE BeginStopAll \/ EndStopAll
  BY <1>2 DEF BeginStopAll, EndStopAll, Stages, Stage, Made, coordinatorVars, piVars
<1>3. ASSUME NEW s \in Sessions, Continue(s) PROVE Stages'
  BY <1>3, DrainStages, QuietStages, LaunchFailsStages, SpawnDoneStages,
     SpawnNamedStages DEF Continue
<1>4. ASSUME NEW s \in Sessions, Pi(s) \/ PiStartsOwnRun(s) PROVE Stages'
  BY <1>4, QuietStages DEF Pi
<1>5. ASSUME NEW s \in Sessions, Handle(s) PROVE Stages'
  BY <1>5, QuietStages, HandleSettledStages, HandleRejectedStages,
     HandleAbortFailedStages DEF Handle
<1>6. ASSUME NEW s \in Sessions, Control(s) PROVE Stages'
  BY <1>6, QuietStages, InterruptedStages DEF Control
<1>7. CASE UNCHANGED vars
  BY <1>7 DEF vars, Stages, Stage, Made, coordinatorVars, contextVars, piVars
<1> QED BY <1>1, <1>2, <1>3, <1>4, <1>5, <1>6, <1>7 DEF Next, Agent

-----------------------------------------------------------------------------
(* Channels as sequences                                                   *)

LEMMA AppendIn ==
  ASSUME NEW S, NEW q \in Seq(S), NEW x \in S
  PROVE  /\ Append(q, x) \in Seq(S)
         /\ DOMAIN Append(q, x) = DOMAIN q \cup {Len(q) + 1}
         /\ \A i \in DOMAIN q : /\ i \in Nat /\ i < Len(q) + 1
                                /\ Append(q, x)[i] = q[i]
         /\ Append(q, x)[Len(q) + 1] = x
         /\ Len(q) + 1 \in Nat \ {0} /\ Len(q) + 1 \notin DOMAIN q
OBVIOUS

LEMMA TailIn ==
  ASSUME NEW S, NEW q \in Seq(S), q # <<>>
  PROVE  /\ Tail(q) \in Seq(S) /\ Head(q) = q[1] /\ 1 \in DOMAIN q /\ q[1] \in S
         /\ \A i \in DOMAIN Tail(q) : /\ i \in Nat \ {0} /\ i + 1 \in DOMAIN q
                                      /\ Tail(q)[i] = q[i + 1]
         /\ \A i \in DOMAIN q : i \in Nat \ {0} /\ (i # 1 => i - 1 \in DOMAIN Tail(q))
OBVIOUS

LEMMA ConcatIn ==
  ASSUME NEW S, NEW q \in Seq(S), NEW x \in S, NEW y \in S
  PROVE  /\ q \o <<x>> = Append(q, x)
         /\ q \o <<x, y>> = Append(Append(q, x), y)
OBVIOUS

-----------------------------------------------------------------------------
(* Aborts on their way                                                     *)

AbortsIn(cm) == {i \in DOMAIN cm : cm[i].type = "abort" /\ cm[i].run # NoDelivery}
FailedIn(ev) == {i \in DOMAIN ev : ev[i].type = "abortFailed"}

\* The deliveries to s that are cancelled.
Revoked(s) == {d \in Made : delivery[d].status = "cancelled" /\ delivery[d].target = s}

\* Each abort on its way to Pi, and each failure of one on its way back, is of
\* another delivery, one that is cancelled.
Flight(cm, ev, R) ==
  /\ \A i \in AbortsIn(cm) : cm[i].run \in R
  /\ \A i \in FailedIn(ev) : ev[i].run \in R
  /\ \A i, j \in AbortsIn(cm) : cm[i].run = cm[j].run => i = j
  /\ \A i, j \in FailedIn(ev) : ev[i].run = ev[j].run => i = j
  /\ \A i \in AbortsIn(cm), j \in FailedIn(ev) : cm[i].run # ev[j].run
Flights == \A s \in Sessions : Flight(commands[s], events[s], Revoked(s))

LEMMA FlightMore ==
  ASSUME NEW cm, NEW ev, NEW R, NEW R2, Flight(cm, ev, R), R \subseteq R2
  PROVE  Flight(cm, ev, R2)
BY DEF Flight

LEMMA FlightEmpty == \A R : Flight(<<>>, <<>>, R)
BY DEF Flight, AbortsIn, FailedIn

LEMMA FlightCommand ==
  ASSUME NEW cm \in Seq(Command), NEW ev, NEW R, NEW c \in Command, Flight(cm, ev, R),
         ~(c.type = "abort" /\ c.run # NoDelivery)
  PROVE  Flight(Append(cm, c), ev, R)
<1>1. /\ AbortsIn(Append(cm, c)) = AbortsIn(cm)
      /\ \A i \in AbortsIn(cm) : Append(cm, c)[i] = cm[i]
  BY AppendIn DEF AbortsIn
<1> QED BY <1>1 DEF Flight

LEMMA FlightAbort ==
  ASSUME NEW cm \in Seq(Command), NEW ev, NEW R, NEW R2, NEW c \in Command,
         Flight(cm, ev, R), R \subseteq R2, c.run \in R2 \ R
  PROVE  Flight(Append(cm, c), ev, R2)
<1>1. /\ AbortsIn(Append(cm, c)) \subseteq AbortsIn(cm) \cup {Len(cm) + 1}
      /\ \A i \in AbortsIn(cm) : Append(cm, c)[i] = cm[i]
      /\ Append(cm, c)[Len(cm) + 1] = c
  BY AppendIn DEF AbortsIn
<1> DEFINE cm2 == Append(cm, c)
           n == Len(cm) + 1
<1>2. /\ \A i \in AbortsIn(cm2) : i = n \/ i \in AbortsIn(cm)
      /\ \A i \in AbortsIn(cm) : cm2[i] = cm[i]
      /\ cm2[n] = c
  BY <1>1
<1> HIDE DEF cm2, n
<1>3. \A i \in AbortsIn(cm) : cm[i].run # c.run
  BY DEF Flight
<1>4. \A i \in AbortsIn(cm2) : cm2[i].run \in R2
  BY <1>2 DEF Flight
<1>5. \A i, j \in AbortsIn(cm2) : cm2[i].run = cm2[j].run => i = j
  BY <1>2, <1>3 DEF Flight
<1>6. \A i \in AbortsIn(cm2), j \in FailedIn(ev) : cm2[i].run # ev[j].run
  BY <1>2 DEF Flight
<1>7. Flight(cm2, ev, R2)
  BY <1>4, <1>5, <1>6 DEF Flight
<1> QED BY <1>7 DEF cm2

LEMMA FlightTake ==
  ASSUME NEW cm \in Seq(Command), NEW ev, NEW R, Flight(cm, ev, R), cm # <<>>
  PROVE  Flight(Tail(cm), ev, R)
<1> DEFINE rest == Tail(cm)
<1>1. \A i \in AbortsIn(rest) : i \in Nat /\ i + 1 \in AbortsIn(cm) /\ rest[i] = cm[i + 1]
  BY TailIn DEF AbortsIn
<1> HIDE DEF rest
<1>2. ASSUME NEW i \in AbortsIn(rest), NEW j \in AbortsIn(rest), rest[i].run = rest[j].run
      PROVE  i = j
  <2>1. /\ i + 1 \in AbortsIn(cm) /\ j + 1 \in AbortsIn(cm) /\ i \in Nat /\ j \in Nat
        /\ cm[i + 1].run = cm[j + 1].run
    BY <1>1, <1>2
  <2>2. i + 1 = j + 1
    BY <2>1 DEF Flight
  <2> QED BY <2>1, <2>2
<1>3. ASSUME NEW i \in AbortsIn(rest)
      PROVE  /\ rest[i].run \in R
             /\ \A j \in FailedIn(ev) : ev[j].run # rest[i].run
  <2>1. i + 1 \in AbortsIn(cm) /\ rest[i].run = cm[i + 1].run
    BY <1>1
  <2> QED BY <2>1 DEF Flight
<1>4. Flight(rest, ev, R)
  BY <1>2, <1>3 DEF Flight
<1> QED BY <1>4 DEF rest

LEMMA FlightFail ==
  ASSUME NEW cm \in Seq(Command), NEW ev \in Seq(Event), NEW R, NEW e \in Event,
         Flight(cm, ev, R), cm # <<>>, Head(cm).type = "abort",
         Head(cm).run # NoDelivery, e.run = Head(cm).run
  PROVE  Flight(Tail(cm), Append(ev, e), R)
<1> DEFINE cm2 == Tail(cm)
           ev2 == Append(ev, e)
           n == Len(ev) + 1
<1>1. \A i \in AbortsIn(cm2) : i + 1 \in AbortsIn(cm) /\ cm2[i] = cm[i + 1] /\ i + 1 # 1
  BY TailIn DEF AbortsIn
<1>2. 1 \in AbortsIn(cm) /\ cm[1].run = e.run
  BY TailIn DEF AbortsIn
<1>3. /\ \A i \in FailedIn(ev2) : i = n \/ i \in FailedIn(ev)
      /\ \A i \in FailedIn(ev) : ev2[i] = ev[i]
      /\ ev2[n] = e
  BY AppendIn DEF FailedIn
<1>4. Flight(cm2, ev, R)
  BY FlightTake
<1> HIDE DEF cm2, ev2, n
<1>5. ASSUME NEW i \in AbortsIn(cm2) PROVE cm2[i].run # e.run
  BY <1>1, <1>2 DEF Flight
<1>6. \A i \in FailedIn(ev) : ev[i].run # e.run /\ e.run \in R
  BY <1>2 DEF Flight
<1>7. e.run \in R
  BY <1>2 DEF Flight
<1>8. \A i \in FailedIn(ev2) : ev2[i].run \in R
  BY <1>3, <1>7 DEF Flight
<1>9. \A i, j \in FailedIn(ev2) : ev2[i].run = ev2[j].run => i = j
  BY <1>3, <1>6 DEF Flight
<1>10. \A i \in AbortsIn(cm2), j \in FailedIn(ev2) : cm2[i].run # ev2[j].run
  BY <1>3, <1>4, <1>5 DEF Flight
<1>11. Flight(cm2, ev2, R)
  BY <1>4, <1>8, <1>9, <1>10 DEF Flight
<1> QED BY <1>11 DEF cm2, ev2

LEMMA FlightEvent ==
  ASSUME NEW cm, NEW ev \in Seq(Event), NEW R, NEW e \in Event, Flight(cm, ev, R),
         e.type # "abortFailed"
  PROVE  Flight(cm, Append(ev, e), R)
<1>1. /\ FailedIn(Append(ev, e)) = FailedIn(ev)
      /\ \A i \in FailedIn(ev) : Append(ev, e)[i] = ev[i]
  BY AppendIn DEF FailedIn
<1> QED BY <1>1 DEF Flight

LEMMA FlightRead ==
  ASSUME NEW cm, NEW ev \in Seq(Event), NEW R, Flight(cm, ev, R), ev # <<>>
  PROVE  Flight(cm, Tail(ev), R)
<1> DEFINE rest == Tail(ev)
<1>1. \A i \in FailedIn(rest) : i \in Nat /\ i + 1 \in FailedIn(ev) /\ rest[i] = ev[i + 1]
  BY TailIn DEF FailedIn
<1> HIDE DEF rest
<1>2. ASSUME NEW i \in FailedIn(rest), NEW j \in FailedIn(rest), rest[i].run = rest[j].run
      PROVE  i = j
  <2>1. /\ i + 1 \in FailedIn(ev) /\ j + 1 \in FailedIn(ev) /\ i \in Nat /\ j \in Nat
        /\ ev[i + 1].run = ev[j + 1].run
    BY <1>1, <1>2
  <2>2. i + 1 = j + 1
    BY <2>1 DEF Flight
  <2> QED BY <2>1, <2>2
<1>3. ASSUME NEW i \in FailedIn(rest)
      PROVE  /\ rest[i].run \in R
             /\ \A j \in AbortsIn(cm) : cm[j].run # rest[i].run
  <2>1. i + 1 \in FailedIn(ev) /\ rest[i].run = ev[i + 1].run
    BY <1>1
  <2> QED BY <2>1 DEF Flight
<1>4. Flight(cm, rest, R)
  BY <1>2, <1>3 DEF Flight
<1> QED BY <1>4 DEF rest

\* Once a failure is handled nothing else on its way is of that delivery.
LEMMA FlightRevive ==
  ASSUME NEW cm, NEW ev \in Seq(Event), NEW R, Flight(cm, ev, R), ev # <<>>,
         Head(ev).type = "abortFailed"
  PROVE  Flight(cm, Tail(ev), R \ {Head(ev).run})
<1> DEFINE ev2 == Tail(ev)
<1>1. \A i \in FailedIn(ev2) : i + 1 \in FailedIn(ev) /\ ev2[i] = ev[i + 1] /\ i + 1 # 1
  BY TailIn DEF FailedIn
<1>2. 1 \in FailedIn(ev) /\ ev[1] = Head(ev)
  BY TailIn DEF FailedIn
<1>3. Flight(cm, ev2, R)
  BY FlightRead
<1> HIDE DEF ev2
<1>4. \A i \in FailedIn(ev2) : ev2[i].run # Head(ev).run
  BY <1>1, <1>2 DEF Flight
<1>5. \A i \in AbortsIn(cm) : cm[i].run # Head(ev).run
  BY <1>2 DEF Flight
<1>6. Flight(cm, ev2, R \ {Head(ev).run})
  BY <1>3, <1>4, <1>5 DEF Flight
<1> QED BY <1>6 DEF ev2

-----------------------------------------------------------------------------
(* Every step keeps what is on its way of another, cancelled delivery      *)

Revokes == \A s \in Sessions : Revoked(s) \subseteq Revoked(s)'

LEMMA RevokedStay ==
  ASSUME \A d \in Made :
           /\ d \in Made' /\ SameRequest(delivery'[d], delivery[d])
           /\ delivery[d].status = "cancelled" => delivery'[d].status = "cancelled"
  PROVE  Revokes
BY DEF Revokes, Revoked, SameRequest

LEMMA SameRevokes == delivery' = delivery => Revokes
BY DEF Revokes, Revoked, Made

LEMMA SubmitRevokes ==
  ASSUME IInv, NEW t \in Sessions, Submission(t)
  PROVE  Revokes
<1>1. \A d \in Made : d \in Made' /\ delivery'[d] = delivery[d]
  BY SubmitDoes DEF Submission
<1> QED BY <1>1, RevokedStay DEF SameRequest

LEMMA SettledRevokes ==
  ASSUME IInv, NEW s \in Sessions, NEW result \in Run \cup {NoDelivery},
         NEW outcome \in Final, Settled(s, result, outcome)
  PROVE  Revokes
BY SettledDoes, RevokedStay

LEMMA FailDrainRevokes ==
  ASSUME IInv, NEW s \in Sessions, FailDrain(s)
  PROVE  Revokes
<1>1. NoDelivery \in Run \cup {NoDelivery} /\ "failed" \in Final
  BY DEF Final
<1> QED BY <1>1, SettledRevokes, SameRevokes DEF FailDrain, EndDrain

\* Steps that send and answer nothing.
LEMMA SilentFlights ==
  ASSUME IInv, Flights, NEW s \in Sessions, NEW t \in Sessions,
         \/ Send(s, t) \/ Spawn(s, t) \/ SpawnDone(t) \/ SpawnNamed(t)
         \/ SpawnFails(t) \/ DrainNothing(s) \/ LaunchFails(s) \/ Activate(s)
         \/ Stop(s) \/ NamingFails(s) \/ Hibernate(s) \/ StopFails(s) \/ BeginStopAll \/ EndStopAll
         \/ UNCHANGED vars
  PROVE  Flights'
<1>1. UNCHANGED <<commands, events>>
  BY DEF Send, Spawn, SpawnDone, SpawnNamed, SpawnFails, DrainNothing, LaunchFails,
         Activate, Stop, NamingFails, Hibernate, StopFails, BeginStopAll, EndStopAll,
         piVars, vars
<1>2. Revokes
  <2>1. CASE Send(s, t)
    BY <2>1, Submissions, SubmitRevokes
  <2>2. CASE SpawnDone(t) \/ SpawnNamed(t)
    BY <2>2, Submissions, SubmitRevokes, SameRevokes DEF coordinatorVars
  <2>3. CASE LaunchFails(s)
    BY <2>3, FailDrainRevokes DEF LaunchFails
  <2>4. CASE Stop(s) \/ NamingFails(s)
    <3>1. Interrupted(s)
      BY <2>4 DEF Stop, NamingFails
    <3> QED BY <3>1, InterruptedDoes, RevokedStay DEF Active
  <2>5. CASE \/ Spawn(s, t) \/ SpawnFails(t) \/ DrainNothing(s) \/ Activate(s)
             \/ Hibernate(s) \/ StopFails(s) \/ BeginStopAll \/ EndStopAll
             \/ UNCHANGED vars
    <3>1. delivery' = delivery
      BY <2>5 DEF Spawn, SpawnFails, DrainNothing, Activate, Hibernate, StopFails,
                  BeginStopAll, EndStopAll, coordinatorVars, vars
    <3> QED BY <3>1, SameRevokes
  <2> QED BY <2>1, <2>2, <2>3, <2>4, <2>5
<1> QED BY <1>1, <1>2, FlightMore DEF Flights, Revokes

\* The Runtime of s is gone, and what was on its way with it.
LEMMA GoneFlights ==
  ASSUME IInv, Flights, NEW s \in Sessions, Crash(s) \/ StopDone(s)
  PROVE  Flights'
<1>1. Gone(s) /\ Shapes
  BY IInvShapes DEF Crash, StopDone
<1>2. Revokes
  <2>1. CASE Crash(s)
    <3>1. Interrupted(s)
      BY <2>1 DEF Crash
    <3> QED BY <3>1, InterruptedDoes, RevokedStay DEF Active
  <2>2. CASE StopDone(s)
    BY <2>2, SameRevokes DEF StopDone
  <2> QED BY <2>1, <2>2
<1> SUFFICES ASSUME NEW u \in Sessions
             PROVE  Flight(commands'[u], events'[u], Revoked(u)')
  BY DEF Flights
<1>3. CASE u = s
  BY <1>1, <1>3, FlightEmpty DEF Gone, Shapes
<1>4. CASE u # s
  <2>1. commands'[u] = commands[u] /\ events'[u] = events[u]
    BY <1>1, <1>4 DEF Gone, Shapes
  <2> QED BY <1>2, <2>1, FlightMore DEF Flights, Revokes
<1> QED BY <1>3, <1>4

\* A step of s that leaves the channels of all others alone.
LEMMA LocalFlights ==
  ASSUME Shapes, Flights, Revokes, NEW s \in Sessions, NEW cm, NEW ev,
         commands' = [commands EXCEPT ![s] = cm],
         events' = [events EXCEPT ![s] = ev],
         Flight(cm, ev, Revoked(s)) \/ Flight(cm, ev, Revoked(s)')
  PROVE  Flights'
<1> SUFFICES ASSUME NEW u \in Sessions
             PROVE  Flight(commands'[u], events'[u], Revoked(u)')
  BY DEF Flights
<1>1. CASE u = s
  <2>1. commands'[s] = cm /\ events'[s] = ev
    BY DEF Shapes
  <2> QED BY <1>1, <2>1, FlightMore DEF Revokes
<1>2. CASE u # s
  <2>1. commands'[u] = commands[u] /\ events'[u] = events[u]
    BY <1>2 DEF Shapes
  <2> QED BY <2>1, FlightMore DEF Flights, Revokes
<1> QED BY <1>1, <1>2

LEMMA PromptIsCommand ==
  ASSUME NEW r \in Run \cup {NoDelivery}
  PROVE  [type |-> "prompt", run |-> r, told |-> FALSE] \in Command
BY DEF Command

LEMMA EventIsEvent ==
  ASSUME NEW r \in Run \cup {NoDelivery}
  PROVE  /\ Started(r) \in Event /\ Started(r).type = "start"
         /\ Accepted(r) \in Event /\ Accepted(r).type = "accepted"
         /\ Rejected(r) \in Event /\ Rejected(r).type = "rejected"
         /\ Started(r).run = r /\ Accepted(r).run = r /\ Rejected(r).run = r
         /\ \A outcome \in {"completed", "failed", "cancelled"} :
              /\ Ended(r, outcome) \in Event /\ Ended(r, outcome).type = "settled"
              /\ Ended(r, outcome).run = r
         /\ \A told \in BOOLEAN :
              /\ AbortFailed(r, told) \in Event /\ AbortFailed(r, told).run = r
              /\ AbortFailed(r, told).type = "abortFailed"
BY DEF Started, Accepted, Rejected, Ended, AbortFailed, Event

\* A prompt or an abort of the user is sent.
LEMMA PromptFlights ==
  ASSUME IInv, Flights, NEW s \in Sessions, NEW c \in Command, Revokes,
         commands' = [commands EXCEPT ![s] = Append(@, c)], events' = events,
         ~(c.type = "abort" /\ c.run # NoDelivery)
  PROVE  Flights'
<1>1. Shapes
  BY IInvShapes
<1>2. Flight(Append(commands[s], c), events[s], Revoked(s))
  BY <1>1, FlightCommand DEF Shapes, Flights
<1>3. /\ commands' = [commands EXCEPT ![s] = Append(commands[s], c)]
      /\ events' = [events EXCEPT ![s] = events[s]]
  BY <1>1 DEF Shapes
<1> QED BY <1>1, <1>2, <1>3, LocalFlights

LEMMA HandOverFlights ==
  ASSUME IInv, Flights, NEW s \in Sessions, NEW d \in Run \cup {NoDelivery},
         Revokes, HandOver(s, d), events' = events
  PROVE  Flights'
<1> DEFINE c == [type |-> "prompt", run |-> d, told |-> FALSE]
<1>1. c \in Command /\ c.type = "prompt"
  BY PromptIsCommand
<1>2. commands' = [commands EXCEPT ![s] = Append(@, c)]
  BY DEF HandOver
<1> HIDE DEF c
<1> QED BY <1>1, <1>2, PromptFlights

LEMMA SendingFlights ==
  ASSUME IInv, Flights, NEW s \in Sessions,
         UserPrompt(s) \/ UserAbort(s) \/ LaunchDone(s) \/ Drain(s)
  PROVE  Flights'
<1>0. Shapes
  BY IInvShapes
<1>1. CASE UserPrompt(s)
  <2> DEFINE c == [type |-> "prompt", run |-> OwnRun, told |-> FALSE]
  <2>1. c \in Command /\ c.type = "prompt"
    BY PromptIsCommand DEF Run
  <2>2. /\ commands' = [commands EXCEPT ![s] = Append(@, c)]
        /\ events' = events /\ delivery' = delivery
    BY <1>1 DEF UserPrompt, coordinatorVars
  <2> HIDE DEF c
  <2> QED BY <2>1, <2>2, PromptFlights, SameRevokes
<1>2. CASE UserAbort(s)
  <2> DEFINE c == [type |-> "abort", run |-> NoDelivery, told |-> FALSE]
  <2>1. c \in Command /\ c.run = NoDelivery
    BY DEF Command
  <2>2. /\ commands' = [commands EXCEPT ![s] = Append(@, c)]
        /\ events' = events /\ delivery' = delivery
    BY <1>2 DEF UserAbort, coordinatorVars
  <2> HIDE DEF c
  <2> QED BY <2>1, <2>2, PromptFlights, SameRevokes
<1>3. CASE LaunchDone(s)
  <2>1. HandOver(s, draining[s]) /\ events' = events /\ delivery' = delivery
    BY <1>3 DEF LaunchDone, coordinatorVars
  <2>2. draining[s] \in Run \cup {NoDelivery}
    BY <1>0 DEF Shapes, Run
  <2> QED BY <2>1, <2>2, SameRevokes, HandOverFlights
<1>4. CASE Drain(s)
  <2>1. Revokes
    BY <1>4, DrainDoes, RevokedStay
  <2>2. /\ events' = events
        /\ commands' = commands \/ HandOver(s, Head(queue[s]))
    BY <1>4 DEF Drain
  <2>3. Head(queue[s]) \in Run \cup {NoDelivery}
    <3>1. queue[s] # <<>> /\ queue[s] \in Seq(Deliveries)
      BY <1>0, <1>4 DEF Drain, CanDrain, Shapes
    <3> QED BY <3>1, HeadTailProperties DEF Run
  <2>4. CASE commands' = commands
    BY <2>1, <2>2, <2>4, FlightMore DEF Flights, Revokes
  <2> QED BY <2>1, <2>2, <2>3, <2>4, HandOverFlights
<1> QED BY <1>1, <1>2, <1>3, <1>4

\* The abort of a cancel is the only one of its delivery: that was active.
LEMMA CancelFlights ==
  ASSUME IInv, Flights, NEW src \in Sessions, NEW t \in Sessions, Cancel(src, t)
  PROVE  Flights'
<1> DEFINE r == running[t]
           c == [type |-> "abort", run |-> r, told |-> r \in notify]
<1>1. Shapes /\ events' = events
  BY IInvShapes, CancelDoes
<1>2. Revokes
  BY CancelDoes, RevokedStay
<1>3. CASE commands' = commands
  BY <1>1, <1>2, <1>3, FlightMore DEF Flights, Revokes
<1>4. CASE /\ r \in Made /\ delivery[r].status \in Active
           /\ delivery'[r].status = "cancelled"
           /\ commands' = [commands EXCEPT ![t] = Append(@, c)]
  <2>1. r # NoDelivery /\ r \in Run
    BY <1>4 DEF Made, Deliveries, NoDelivery, Run
  <2>2. c \in Command /\ c.run = r
    BY <2>1 DEF Command
  <2>3. delivery[r].target = t
    BY <2>1, RunningIsHere
  <2>4. r \in Made' /\ delivery'[r].target = t
    BY <1>4, <2>3, CancelDoes DEF SameRequest
  <2>5. r \in Revoked(t)' \ Revoked(t)
    BY <1>4, <2>4 DEF Revoked, Active
  <2> HIDE DEF c, r
  <2>6. Flight(Append(commands[t], c), events[t], Revoked(t)')
    BY <1>1, <1>2, <2>2, <2>5, FlightAbort DEF Shapes, Flights, Revokes
  <2>7. /\ commands' = [commands EXCEPT ![t] = Append(commands[t], c)]
        /\ events' = [events EXCEPT ![t] = events[t]]
    BY <1>1, <1>4 DEF Shapes
  <2> QED BY <1>1, <1>2, <2>6, <2>7, LocalFlights
<1> QED BY <1>3, <1>4, CancelDoes

\* Pi takes a command and answers.
LEMMA PiFlights ==
  ASSUME IInv, Flights, NEW s \in Sessions,
         PiTakesPrompt(s) \/ PiTakesAbort(s) \/ PiSettles(s) \/ PiStartsOwnRun(s)
  PROVE  Flights'
<1> DEFINE cm == commands[s]
           ev == events[s]
<1>1. /\ Shapes /\ cm \in Seq(Command) /\ ev \in Seq(Event)
      /\ Flight(cm, ev, Revoked(s)) /\ pi[s] \in Run \cup {NoDelivery}
  BY IInvShapes DEF Shapes, Flights
<1>2. Revokes
  <2>1. delivery' = delivery
    BY DEF PiTakesPrompt, PiTakesAbort, PiSettles, PiStartsOwnRun, coordinatorVars
  <2> QED BY <2>1, SameRevokes
<1>3. CASE PiTakesPrompt(s)
  <2> DEFINE r == Head(cm).run
  <2>1. /\ cm # <<>> /\ commands' = [commands EXCEPT ![s] = Tail(cm)]
        /\ \/ events' = [events EXCEPT ![s] = ev \o <<Started(r), Accepted(r)>>]
           \/ events' = [events EXCEPT ![s] = ev \o <<Rejected(r)>>]
    BY <1>1, <1>3 DEF PiTakesPrompt, Takes, Emits, Shapes
  <2>2. r \in Run \cup {NoDelivery}
    <3>1. Head(cm) \in Command
      BY <1>1, <2>1, HeadTailProperties
    <3> QED BY <3>1 DEF Command
  <2> HIDE DEF r, cm, ev
  <2>3. Flight(Tail(cm), ev, Revoked(s))
    BY <1>1, <2>1, FlightTake
  <2>4. /\ Started(r) \in Event /\ Started(r).type # "abortFailed"
        /\ Accepted(r) \in Event /\ Accepted(r).type # "abortFailed"
        /\ Rejected(r) \in Event /\ Rejected(r).type # "abortFailed"
    BY <2>2, EventIsEvent
  <2>5. /\ ev \o <<Started(r), Accepted(r)>> = Append(Append(ev, Started(r)), Accepted(r))
        /\ ev \o <<Rejected(r)>> = Append(ev, Rejected(r))
        /\ Append(ev, Started(r)) \in Seq(Event)
    BY <1>1, <2>4, ConcatIn, AppendIn
  <2>6. /\ Flight(Tail(cm), Append(ev, Rejected(r)), Revoked(s))
        /\ Flight(Tail(cm), Append(ev, Started(r)), Revoked(s))
    BY <1>1, <2>3, <2>4, FlightEvent
  <2>7. Flight(Tail(cm), Append(Append(ev, Started(r)), Accepted(r)), Revoked(s))
    BY <2>4, <2>5, <2>6, FlightEvent
  <2> QED BY <1>1, <1>2, <2>1, <2>5, <2>6, <2>7, LocalFlights
<1>4. CASE PiTakesAbort(s)
  <2> DEFINE c == Head(cm)
  <2>1. /\ cm # <<>> /\ commands' = [commands EXCEPT ![s] = Tail(cm)]
        /\ c.type = "abort"
        /\ \/ events' = [events EXCEPT ![s] = ev \o <<Ended(pi[s], "cancelled")>>]
           \/ events' = [events EXCEPT ![s] = ev]
           \/ /\ c.run # NoDelivery
              /\ events' = [events EXCEPT ![s] = ev \o <<AbortFailed(c.run, c.told)>>]
    BY <1>1, <1>4 DEF PiTakesAbort, Takes, Emits, Shapes
  <2>2. c.run \in Run \cup {NoDelivery} /\ c.told \in BOOLEAN
    <3>1. Head(cm) \in Command
      BY <1>1, <2>1, HeadTailProperties
    <3> QED BY <3>1 DEF Command
  <2>3. /\ Ended(pi[s], "cancelled") \in Event
        /\ Ended(pi[s], "cancelled").type # "abortFailed"
        /\ AbortFailed(c.run, c.told) \in Event
        /\ AbortFailed(c.run, c.told).run = c.run
    <3>1. "cancelled" \in {"completed", "failed", "cancelled"}
      OBVIOUS
    <3> HIDE DEF c
    <3>2. /\ Ended(pi[s], "cancelled") \in Event
          /\ Ended(pi[s], "cancelled").type = "settled"
      BY <1>1, <3>1, EventIsEvent
    <3>3. /\ AbortFailed(c.run, c.told) \in Event
          /\ AbortFailed(c.run, c.told).run = c.run
      BY <2>2, EventIsEvent
    <3> QED BY <3>2, <3>3
  <2>4. Flight(Tail(cm), ev, Revoked(s))
    BY <1>1, <2>1, FlightTake
  <2> DEFINE ended == Ended(pi[s], "cancelled")
             failed == AbortFailed(c.run, c.told)
  <2> HIDE DEF cm, ev, ended, failed
  <2>5. Flight(Tail(cm), ev \o <<ended>>, Revoked(s))
    <3>1. ended \in Event /\ ended.type # "abortFailed" /\ ev \o <<ended>> = Append(ev, ended)
      BY <1>1, <2>3, ConcatIn DEF ended
    <3> QED BY <1>1, <2>4, <3>1, FlightEvent
  <2>6. c.run # NoDelivery => Flight(Tail(cm), ev \o <<failed>>, Revoked(s))
    <3>1. failed \in Event /\ failed.run = c.run /\ ev \o <<failed>> = Append(ev, failed)
      BY <1>1, <2>3, ConcatIn DEF failed
    <3>2. c.run # NoDelivery => Flight(Tail(cm), Append(ev, failed), Revoked(s))
      BY <1>1, <2>1, <3>1, FlightFail
    <3> QED BY <3>1, <3>2
  <2> HIDE DEF c
  <2> USE DEF ended, failed
  <2> QED BY <1>1, <1>2, <2>1, <2>4, <2>5, <2>6, LocalFlights
<1>5. CASE PiSettles(s) \/ PiStartsOwnRun(s)
  <2>1. /\ commands' = [commands EXCEPT ![s] = cm]
        /\ \/ events' = [events EXCEPT ![s] = ev \o <<Ended(pi[s], "completed")>>]
           \/ events' = [events EXCEPT ![s] = ev \o <<Started(OwnRun)>>]
    BY <1>1, <1>5 DEF PiSettles, PiStartsOwnRun, Emits, Shapes
  <2> DEFINE ended == Ended(pi[s], "completed")
             started == Started(OwnRun)
  <2>2. /\ ended \in Event /\ ended.type # "abortFailed"
        /\ started \in Event /\ started.type # "abortFailed"
    <3>1. "completed" \in {"completed", "failed", "cancelled"} /\ OwnRun \in Run \cup {NoDelivery}
      BY DEF Run
    <3>2. ended \in Event /\ ended.type = "settled"
      BY <1>1, <3>1, EventIsEvent
    <3>3. started \in Event /\ started.type = "start"
      BY <3>1, EventIsEvent
    <3> QED BY <3>2, <3>3
  <2> HIDE DEF cm, ev, ended, started
  <2>3. /\ Flight(cm, ev \o <<ended>>, Revoked(s))
        /\ Flight(cm, ev \o <<started>>, Revoked(s))
    <3>1. ev \o <<ended>> = Append(ev, ended) /\ ev \o <<started>> = Append(ev, started)
      BY <1>1, <2>2, ConcatIn
    <3> QED BY <1>1, <2>2, <3>1, FlightEvent
  <2> USE DEF ended, started
  <2> QED BY <1>1, <1>2, <2>1, <2>3, LocalFlights
<1> QED BY <1>3, <1>4, <1>5

\* The Kernel handles an event.
LEMMA HandleFlights ==
  ASSUME IInv, Flights, NEW s \in Sessions,
         \/ HandleStart(s) \/ HandleSettled(s) \/ HandleAccepted(s)
         \/ HandleRejected(s)
  PROVE  Flights'
<1>1. /\ Shapes /\ events[s] # <<>> /\ commands' = commands
      /\ events' = [events EXCEPT ![s] = Tail(@)]
  BY IInvShapes
     DEF HandleStart, HandleSettled, HandleAccepted, HandleRejected, Receives
<1>2. Revokes
  <2>1. CASE HandleStart(s) \/ HandleAccepted(s)
    <3>1. delivery' = delivery
      BY <2>1 DEF HandleStart, HandleAccepted, EndDrain, coordinatorVars
    <3> QED BY <3>1, SameRevokes
  <2>2. CASE HandleSettled(s)
    <3> DEFINE e == Head(events[s])
    <3>1. e \in Event
      BY <1>1, HeadTailProperties DEF Shapes
    <3>2. e.run \in Run \cup {NoDelivery} /\ e.outcome \in Final
      BY <3>1 DEF Event, Final
    <3>3. Settled(s, e.run, e.outcome) \/ delivery' = delivery
      BY <2>2 DEF HandleSettled, coordinatorVars
    <3> HIDE DEF e
    <3> QED BY <3>2, <3>3, SettledRevokes, SameRevokes
  <2>3. CASE HandleRejected(s)
    <3>1. FailDrain(s) \/ delivery' = delivery
      BY <2>3 DEF HandleRejected, coordinatorVars
    <3> QED BY <3>1, FailDrainRevokes, SameRevokes
  <2> QED BY <2>1, <2>2, <2>3
<1>3. Flight(commands[s], Tail(events[s]), Revoked(s))
  BY <1>1, FlightRead DEF Shapes, Flights
<1>4. /\ commands' = [commands EXCEPT ![s] = commands[s]]
      /\ events' = [events EXCEPT ![s] = Tail(events[s])]
  BY <1>1 DEF Shapes
<1> QED BY <1>1, <1>2, <1>3, <1>4, LocalFlights

\* The delivery that is revived is revoked no more, and nothing of it is left.
LEMMA ReviveFlights ==
  ASSUME IInv, Flights, NEW s \in Sessions, HandleAbortFailed(s)
  PROVE  Flights'
<1> DEFINE r == Head(events[s]).run
<1>1. /\ Shapes /\ events[s] # <<>> /\ commands' = commands
      /\ events' = [events EXCEPT ![s] = Tail(@)]
      /\ Head(events[s]).type = "abortFailed"
      /\ Made' = Made
      /\ \A d \in Made : /\ SameRequest(delivery'[d], delivery[d])
                         /\ delivery'[d] = delivery[d] \/ d = r
  BY IInvShapes, AbortFailedDoes
<1>2. /\ Flight(commands[s], Tail(events[s]), Revoked(s) \ {r})
      /\ r \in Revoked(s)
  <2>1. events[s] \in Seq(Event) /\ Flight(commands[s], events[s], Revoked(s))
    BY <1>1 DEF Shapes, Flights
  <2>2. 1 \in FailedIn(events[s]) /\ events[s][1].run = r
    BY <1>1, <2>1, TailIn DEF FailedIn
  <2>3. r \in Revoked(s)
    BY <2>1, <2>2 DEF Flight
  <2> QED BY <1>1, <2>1, <2>3, FlightRevive
<1> HIDE DEF r
<1>3. \A u \in Sessions : Revoked(u) \ {r} \subseteq Revoked(u)'
  BY <1>1 DEF Revoked, SameRequest
<1>4. \A u \in Sessions : u # s => Revoked(u) \subseteq Revoked(u)'
  BY <1>2, <1>3 DEF Revoked
<1> SUFFICES ASSUME NEW u \in Sessions
             PROVE  Flight(commands'[u], events'[u], Revoked(u)')
  BY DEF Flights
<1>5. CASE u = s
  <2>1. commands'[u] = commands[s] /\ events'[u] = Tail(events[s])
    BY <1>1, <1>5 DEF Shapes
  <2> QED BY <1>2, <1>3, <1>5, <2>1, FlightMore
<1>6. CASE u # s
  <2>1. commands'[u] = commands[u] /\ events'[u] = events[u]
    BY <1>1, <1>6 DEF Shapes
  <2> QED BY <1>4, <1>6, <2>1, FlightMore DEF Flights
<1> QED BY <1>5, <1>6

LEMMA InitFlights == Init => Flights
<1> SUFFICES ASSUME Init PROVE Flights
  OBVIOUS
<1>1. \A s \in Sessions : commands[s] = <<>> /\ events[s] = <<>>
  BY DEF Init
<1> QED BY <1>1, FlightEmpty DEF Flights

LEMMA StepFlights == IInv /\ Flights /\ [Next]_vars => Flights'
<1> SUFFICES ASSUME IInv, Flights, [Next]_vars PROVE Flights'
  OBVIOUS
<1>1. ASSUME NEW s \in Sessions, NEW t \in Sessions,
             Send(s, t) \/ Spawn(s, t) \/ Cancel(s, t)
      PROVE  Flights'
  BY <1>1, SilentFlights, CancelFlights
<1>2. CASE BeginStopAll \/ EndStopAll \/ UNCHANGED vars
  <2>1. UNCHANGED <<delivery, commands, events>>
    BY <1>2 DEF BeginStopAll, EndStopAll, vars, coordinatorVars, piVars
  <2> QED BY <2>1, SameRevokes, FlightMore DEF Flights, Revokes
<1>3. ASSUME NEW s \in Sessions, Continue(s) PROVE Flights'
  BY <1>3, SilentFlights, SendingFlights DEF Continue
<1>4. ASSUME NEW s \in Sessions, Pi(s) \/ PiStartsOwnRun(s) PROVE Flights'
  BY <1>4, PiFlights DEF Pi
<1>5. ASSUME NEW s \in Sessions, Handle(s) PROVE Flights'
  BY <1>5, HandleFlights, ReviveFlights DEF Handle
<1>6. ASSUME NEW s \in Sessions, Control(s) PROVE Flights'
  BY <1>6, SilentFlights, SendingFlights, GoneFlights DEF Control
<1> QED BY <1>1, <1>2, <1>3, <1>4, <1>5, <1>6 DEF Next, Agent

-----------------------------------------------------------------------------
(* One turn at a time                                                      *)

\* q2 is q without its first entry; with x behind its last one.
Dropped(q, q2) ==
  /\ 1 \in DOMAIN q /\ DOMAIN q \subseteq Nat /\ DOMAIN q2 \subseteq Nat \ {0}
  /\ \A i \in DOMAIN q2 : i + 1 \in DOMAIN q /\ i + 1 # 1 /\ q2[i] = q[i + 1]
  /\ \A i \in DOMAIN q : i = 1 \/ \E k \in DOMAIN q2 : i = k + 1
Added(q, q2, x, n) ==
  /\ DOMAIN q2 = DOMAIN q \cup {n} /\ n \in Nat /\ n \notin DOMAIN q
  /\ \A i \in DOMAIN q : i \in Nat /\ i < n /\ q2[i] = q[i]
  /\ q2[n] = x

PromptsIn(cm) == {i \in DOMAIN cm : cm[i].type = "prompt"}
EndsIn(ev) == {i \in DOMAIN ev : ev[i].type \in {"settled", "rejected"}}
Busy(cm, ev, p) == PromptsIn(cm) # {} \/ p # NoDelivery \/ EndsIn(ev) # {}

\* A Session has one run at a time: a prompt on its way to Pi, a run, or the end
\* of one on its way back.
OneTurn(cm, ev, p) ==
  /\ \A i, j \in PromptsIn(cm) : i = j
  /\ \A i, j \in EndsIn(ev) : i = j
  /\ PromptsIn(cm) # {} => p = NoDelivery /\ EndsIn(ev) = {}
  /\ p # NoDelivery => EndsIn(ev) = {}
  /\ \A i \in PromptsIn(cm) : cm[i].run # NoDelivery

\* What was accepted runs, or its end follows.
AcceptedRuns(ev, p) ==
  \A i \in DOMAIN ev : ev[i].type = "accepted" =>
    p # NoDelivery \/ \E j \in DOMAIN ev : i < j /\ ev[j].type = "settled"

\* An abort of a delivery comes behind the prompt of it, or while it runs.
AbortsFollow(cm, p) ==
  /\ \A i \in PromptsIn(cm), j \in AbortsIn(cm) : i < j => cm[j].run = cm[i].run
  /\ p # NoDelivery => \A j \in AbortsIn(cm) : cm[j].run = p

\* The run is that of the delivery the target works on while the Kernel waits
\* for one, and the user's while it does not.
Mine(r, ro, ru) == IF ro THEN r = ru ELSE r = OwnRun /\ ru = NoDelivery
TurnIsMine(cm, ev, p, ro, ru) ==
  /\ \A i \in PromptsIn(cm) : Mine(cm[i].run, ro, ru)
  /\ p # NoDelivery => Mine(p, ro, ru)
  /\ \A i \in EndsIn(ev) : Mine(ev[i].run, ro, ru)
StillHanded(cm, ev, ro, ru, dr) ==
  ro /\ (PromptsIn(cm) # {} \/ \E i \in DOMAIN ev : ev[i].type = "rejected") => dr = ru

Line(cm, ev, p, c, ro, ru, dr) ==
  /\ OneTurn(cm, ev, p) /\ AcceptedRuns(ev, p) /\ AbortsFollow(cm, p)
  /\ Busy(cm, ev, p) => c \in {"running", "stopping", "crashed"}
  /\ c = "ready" => ru = NoDelivery /\ ~ro
  /\ c = "running" => TurnIsMine(cm, ev, p, ro, ru) /\ StillHanded(cm, ev, ro, ru, dr)

LineOf(s) ==
  Line(commands[s], events[s], pi[s], ctx[s], runOpen[s], running[s], draining[s])
Lines == \A s \in Sessions : LineOf(s)

LEMMA TailDrops ==
  ASSUME NEW S, NEW q \in Seq(S), q # <<>>
  PROVE  Dropped(q, Tail(q)) /\ Head(q) = q[1]
<1> DEFINE q2 == Tail(q)
<1>1. /\ q2 \in Seq(S) /\ DOMAIN q = 1..Len(q) /\ DOMAIN q2 = 1..(Len(q) - 1)
      /\ Len(q) \in Nat \ {0} /\ Head(q) = q[1]
      /\ \A i \in 1..(Len(q) - 1) : q2[i] = q[i + 1]
  OBVIOUS
<1> HIDE DEF q2
<1>2. ASSUME NEW i \in DOMAIN q, i # 1 PROVE \E k \in DOMAIN q2 : i = k + 1
  <2>1. i - 1 \in DOMAIN q2 /\ i = (i - 1) + 1
    BY <1>1, <1>2
  <2> QED BY <2>1
<1>3. Dropped(q, q2)
  BY <1>1, <1>2 DEF Dropped
<1> QED BY <1>1, <1>3 DEF q2

LEMMA AppendAdds ==
  ASSUME NEW S, NEW q \in Seq(S), NEW x \in S
  PROVE  Added(q, Append(q, x), x, Len(q) + 1)
BY AppendIn DEF Added

\* What the parts of a channel become.
LEMMA AddedParts ==
  ASSUME NEW q, NEW q2, NEW x, NEW n, Added(q, q2, x, n)
  PROVE  /\ PromptsIn(q2) = PromptsIn(q) \cup (IF x.type = "prompt" THEN {n} ELSE {})
         /\ EndsIn(q2) = EndsIn(q) \cup (IF x.type \in {"settled", "rejected"} THEN {n} ELSE {})
         /\ AbortsIn(q2) = AbortsIn(q)
              \cup (IF x.type = "abort" /\ x.run # NoDelivery THEN {n} ELSE {})
         /\ PromptsIn(q) \subseteq DOMAIN q /\ EndsIn(q) \subseteq DOMAIN q
         /\ AbortsIn(q) \subseteq DOMAIN q
BY DEF Added, PromptsIn, EndsIn, AbortsIn

LEMMA DroppedParts ==
  ASSUME NEW q, NEW q2, Dropped(q, q2)
  PROVE  /\ \A i \in PromptsIn(q2) : i + 1 \in PromptsIn(q) /\ q2[i] = q[i + 1]
         /\ \A i \in EndsIn(q2) : i + 1 \in EndsIn(q) /\ q2[i] = q[i + 1]
         /\ \A i \in AbortsIn(q2) : i + 1 \in AbortsIn(q) /\ q2[i] = q[i + 1]
         /\ PromptsIn(q2) \subseteq Nat /\ EndsIn(q2) \subseteq Nat
         /\ AbortsIn(q2) \subseteq Nat
         /\ \A i \in DOMAIN q2 : i \in Nat /\ i + 1 # 1
BY DEF Dropped, PromptsIn, EndsIn, AbortsIn

\* A prompt is sent to a Session that has no run.
LEMMA LinePrompt ==
  ASSUME NEW cm, NEW ev, NEW p, NEW c, NEW ro, NEW ru, NEW dr, NEW cm2, NEW x, NEW n,
         NEW ro2, NEW ru2, NEW dr2,
         Line(cm, ev, p, c, ro, ru, dr), ~Busy(cm, ev, p),
         Added(cm, cm2, x, n), x.type = "prompt", x.run # NoDelivery,
         Mine(x.run, ro2, ru2), ro2 => dr2 = ru2
  PROVE  Line(cm2, ev, p, "running", ro2, ru2, dr2)
<1>1. /\ PromptsIn(cm) = {} /\ p = NoDelivery /\ EndsIn(ev) = {}
      /\ \A i \in DOMAIN ev : ev[i].type # "accepted" /\ ev[i].type # "rejected"
  BY DEF Busy, Line, AcceptedRuns, EndsIn
<1>2. /\ PromptsIn(cm2) = {n} /\ AbortsIn(cm2) = AbortsIn(cm) /\ cm2[n] = x
      /\ \A j \in AbortsIn(cm) : j < n /\ j \in Nat /\ n \in Nat
  <2>1. PromptsIn(cm2) = {n} /\ AbortsIn(cm2) = AbortsIn(cm)
    BY <1>1, AddedParts
  <2>2. AbortsIn(cm) \subseteq DOMAIN cm
    BY AddedParts
  <2>3. cm2[n] = x /\ n \in Nat /\ \A j \in DOMAIN cm : j \in Nat /\ j < n
    BY DEF Added
  <2> QED BY <2>1, <2>2, <2>3
<1>3. OneTurn(cm2, ev, p)
  BY <1>1, <1>2 DEF OneTurn
<1>4. AcceptedRuns(ev, p)
  BY <1>1 DEF AcceptedRuns
<1>5. AbortsFollow(cm2, p)
  BY <1>1, <1>2 DEF AbortsFollow
<1>6. TurnIsMine(cm2, ev, p, ro2, ru2) /\ StillHanded(cm2, ev, ro2, ru2, dr2)
  BY <1>1, <1>2 DEF TurnIsMine, StillHanded
<1> QED BY <1>3, <1>4, <1>5, <1>6 DEF Line

\* An abort is sent; of a delivery only while the target works on it.
LEMMA LineAbort ==
  ASSUME NEW cm, NEW ev, NEW p, NEW c, NEW ro, NEW ru, NEW dr, NEW cm2, NEW x, NEW n,
         Line(cm, ev, p, c, ro, ru, dr),
         Added(cm, cm2, x, n), x.type = "abort",
         x.run # NoDelivery => x.run = ru /\ c = "running"
  PROVE  Line(cm2, ev, p, c, ro, ru, dr)
<1>1. /\ PromptsIn(cm2) = PromptsIn(cm)
      /\ AbortsIn(cm2) = AbortsIn(cm) \/ (AbortsIn(cm2) = AbortsIn(cm) \cup {n}
                                          /\ x.run # NoDelivery)
      /\ \A i \in PromptsIn(cm) \cup AbortsIn(cm) : cm2[i] = cm[i] /\ i # n
      /\ cm2[n] = x
  <2>1. /\ PromptsIn(cm2) = PromptsIn(cm)
        /\ AbortsIn(cm2) = AbortsIn(cm) \/ (AbortsIn(cm2) = AbortsIn(cm) \cup {n}
                                            /\ x.run # NoDelivery)
        /\ PromptsIn(cm) \cup AbortsIn(cm) \subseteq DOMAIN cm
    BY AddedParts
  <2>2. cm2[n] = x /\ n \notin DOMAIN cm /\ \A i \in DOMAIN cm : cm2[i] = cm[i]
    BY DEF Added
  <2> QED BY <2>1, <2>2
<1>2. x.run # NoDelivery =>
        /\ \A i \in PromptsIn(cm) : cm[i].run = x.run
        /\ p # NoDelivery => p = x.run
  BY DEF Line, TurnIsMine, Mine
<1>3. AbortsFollow(cm, p)
  BY DEF Line
<1>4. AbortsFollow(cm2, p)
  BY <1>1, <1>2, <1>3 DEF AbortsFollow
<1>5. /\ OneTurn(cm2, ev, p) <=> OneTurn(cm, ev, p)
      /\ Busy(cm2, ev, p) <=> Busy(cm, ev, p)
      /\ TurnIsMine(cm2, ev, p, ro, ru) <=> TurnIsMine(cm, ev, p, ro, ru)
      /\ StillHanded(cm2, ev, ro, ru, dr) <=> StillHanded(cm, ev, ro, ru, dr)
  BY <1>1 DEF OneTurn, Busy, TurnIsMine, StillHanded
<1> QED BY <1>4, <1>5 DEF Line

\* Pi takes a prompt: it runs nothing, and it accepts or refuses.
LEMMA LinePromptTaken ==
  ASSUME NEW cm, NEW ev, NEW p, NEW c, NEW ro, NEW ru, NEW dr, NEW cm2,
         Line(cm, ev, p, c, ro, ru, dr), Dropped(cm, cm2), cm[1].type = "prompt"
  PROVE  /\ p = NoDelivery /\ PromptsIn(cm2) = {} /\ EndsIn(ev) = {}
         /\ cm[1].run # NoDelivery
         /\ \A j \in AbortsIn(cm2) : cm2[j].run = cm[1].run
         /\ c = "running" => Mine(cm[1].run, ro, ru) /\ (ro => dr = ru)
         /\ c \in {"running", "stopping", "crashed"}
         /\ \A i \in DOMAIN ev : ev[i].type # "accepted" /\ ev[i].type # "rejected"
<1>1. 1 \in PromptsIn(cm)
  BY DEF Dropped, PromptsIn
<1>2. /\ p = NoDelivery /\ EndsIn(ev) = {} /\ cm[1].run # NoDelivery
      /\ \A i \in PromptsIn(cm) : i = 1
  BY <1>1 DEF Line, OneTurn
<1>3. PromptsIn(cm2) = {}
  BY <1>2, DroppedParts DEF PromptsIn
<1>4. ASSUME NEW j \in AbortsIn(cm2) PROVE cm2[j].run = cm[1].run
  <2>1. j + 1 \in AbortsIn(cm) /\ cm2[j] = cm[j + 1] /\ j \in Nat /\ j + 1 # 1
    BY DroppedParts DEF AbortsIn
  <2>2. 1 < j + 1
    BY <2>1
  <2>3. \A i \in PromptsIn(cm), k \in AbortsIn(cm) : i < k => cm[k].run = cm[i].run
    BY DEF Line, AbortsFollow
  <2> QED BY <1>1, <2>1, <2>2, <2>3
<1>5. c \in {"running", "stopping", "crashed"}
  BY <1>1 DEF Line, Busy
<1>6. c = "running" => Mine(cm[1].run, ro, ru) /\ (ro => dr = ru)
  BY <1>1 DEF Line, TurnIsMine, StillHanded
<1>7. \A i \in DOMAIN ev : ev[i].type # "accepted" /\ ev[i].type # "rejected"
  BY <1>2 DEF Line, AcceptedRuns, EndsIn
<1> QED BY <1>2, <1>3, <1>4, <1>5, <1>6, <1>7

LEMMA LineAccept ==
  ASSUME NEW cm, NEW ev, NEW p, NEW c, NEW ro, NEW ru, NEW dr, NEW cm2,
         NEW ev1, NEW ev2, NEW x, NEW y, NEW n, NEW m,
         Line(cm, ev, p, c, ro, ru, dr), Dropped(cm, cm2), cm[1].type = "prompt",
         Added(ev, ev1, x, n), x.type = "start",
         Added(ev1, ev2, y, m), y.type = "accepted"
  PROVE  Line(cm2, ev2, cm[1].run, c, ro, ru, dr)
<1> DEFINE r == cm[1].run
<1>1. /\ p = NoDelivery /\ PromptsIn(cm2) = {} /\ EndsIn(ev) = {} /\ r # NoDelivery
      /\ \A j \in AbortsIn(cm2) : cm2[j].run = r
      /\ c = "running" => Mine(r, ro, ru) /\ (ro => dr = ru)
      /\ c \in {"running", "stopping", "crashed"}
  BY LinePromptTaken
<1>2. EndsIn(ev2) = {}
  BY <1>1, AddedParts
<1> HIDE DEF r
<1>3. OneTurn(cm2, ev2, r) /\ AcceptedRuns(ev2, r) /\ AbortsFollow(cm2, r)
  BY <1>1, <1>2 DEF OneTurn, AcceptedRuns, AbortsFollow
<1>4. c = "running" => TurnIsMine(cm2, ev2, r, ro, ru) /\ StillHanded(cm2, ev2, ro, ru, dr)
  BY <1>1, <1>2 DEF TurnIsMine, StillHanded
<1>5. Line(cm2, ev2, r, c, ro, ru, dr)
  BY <1>1, <1>3, <1>4 DEF Line
<1> QED BY <1>5 DEF r

LEMMA LineReject ==
  ASSUME NEW cm, NEW ev, NEW p, NEW c, NEW ro, NEW ru, NEW dr, NEW cm2,
         NEW ev2, NEW x, NEW n,
         Line(cm, ev, p, c, ro, ru, dr), Dropped(cm, cm2), cm[1].type = "prompt",
         Added(ev, ev2, x, n), x.type = "rejected", x.run = cm[1].run
  PROVE  Line(cm2, ev2, p, c, ro, ru, dr)
<1>1. /\ p = NoDelivery /\ PromptsIn(cm2) = {} /\ EndsIn(ev) = {}
      /\ c = "running" => Mine(x.run, ro, ru) /\ (ro => dr = ru)
      /\ c \in {"running", "stopping", "crashed"}
      /\ \A i \in DOMAIN ev : ev[i].type # "accepted" /\ ev[i].type # "rejected"
  BY LinePromptTaken
<1>2. EndsIn(ev2) = {n} /\ ev2[n] = x
      /\ \A i \in DOMAIN ev2 : ev2[i].type # "accepted"
  BY <1>1, AddedParts DEF Added
<1>3. OneTurn(cm2, ev2, p) /\ AcceptedRuns(ev2, p) /\ AbortsFollow(cm2, p)
  BY <1>1, <1>2 DEF OneTurn, AcceptedRuns, AbortsFollow
<1>4. c = "running" => TurnIsMine(cm2, ev2, p, ro, ru) /\ StillHanded(cm2, ev2, ro, ru, dr)
  BY <1>1, <1>2 DEF TurnIsMine, StillHanded
<1> QED BY <1>1, <1>3, <1>4 DEF Line

\* A run ends, by itself or by an abort.
LEMMA LineEnd ==
  ASSUME NEW cm, NEW ev, NEW p, NEW c, NEW ro, NEW ru, NEW dr, NEW cm2,
         NEW ev2, NEW x, NEW n,
         Line(cm, ev, p, c, ro, ru, dr), p # NoDelivery,
         cm2 = cm \/ Dropped(cm, cm2),
         Added(ev, ev2, x, n), x.type = "settled", x.run = p
  PROVE  Line(cm2, ev2, NoDelivery, c, ro, ru, dr)
<1>1. PromptsIn(cm) = {} /\ EndsIn(ev) = {}
  BY DEF Line, OneTurn
<1>2. PromptsIn(cm2) = {}
  BY <1>1, DroppedParts DEF PromptsIn
<1>3. /\ EndsIn(ev2) = {n} /\ ev2[n] = x /\ n \in DOMAIN ev2
      /\ \A i \in DOMAIN ev2 : i = n \/ i < n
      /\ \A i \in DOMAIN ev2 : ev2[i].type # "rejected"
  <2>1. EndsIn(ev2) = {n} /\ ev2[n] = x
    BY <1>1, AddedParts DEF Added
  <2>2. \A i \in DOMAIN ev2 : ev2[i].type = "rejected" => i = n
    BY <2>1 DEF EndsIn
  <2> QED BY <2>1, <2>2 DEF Added
<1>4. OneTurn(cm2, ev2, NoDelivery) /\ AbortsFollow(cm2, NoDelivery)
  BY <1>2, <1>3 DEF OneTurn, AbortsFollow
<1>5. AcceptedRuns(ev2, NoDelivery)
  BY <1>3 DEF AcceptedRuns
<1>6. c \in {"running", "stopping", "crashed"} /\ (c = "running" => Mine(p, ro, ru))
  BY DEF Line, Busy, TurnIsMine
<1>7. c = "running" =>
        TurnIsMine(cm2, ev2, NoDelivery, ro, ru) /\ StillHanded(cm2, ev2, ro, ru, dr)
  BY <1>2, <1>3, <1>6 DEF TurnIsMine, StillHanded
<1> QED BY <1>4, <1>5, <1>6, <1>7 DEF Line

\* An abort is taken.
LEMMA LineTake ==
  ASSUME NEW cm, NEW ev, NEW p, NEW c, NEW ro, NEW ru, NEW dr, NEW cm2,
         Line(cm, ev, p, c, ro, ru, dr), Dropped(cm, cm2), cm[1].type # "prompt"
  PROVE  Line(cm2, ev, p, c, ro, ru, dr)
<1>1. /\ \A i \in PromptsIn(cm2) : i \in Nat /\ i + 1 \in PromptsIn(cm) /\ cm2[i] = cm[i + 1]
      /\ \A i \in AbortsIn(cm2) : i \in Nat /\ i + 1 \in AbortsIn(cm) /\ cm2[i] = cm[i + 1]
  BY DroppedParts
<1>2. OneTurn(cm2, ev, p)
  <2>1. ASSUME NEW i \in PromptsIn(cm2), NEW j \in PromptsIn(cm2) PROVE i = j
    <3>1. i + 1 = j + 1 /\ i \in Nat /\ j \in Nat
      BY <1>1 DEF Line, OneTurn
    <3> QED BY <3>1
  <2>2. PromptsIn(cm2) # {} => PromptsIn(cm) # {}
    BY <1>1
  <2>3. \A i \in PromptsIn(cm2) : cm2[i].run # NoDelivery
    BY <1>1 DEF Line, OneTurn
  <2> QED BY <2>1, <2>2, <2>3 DEF Line, OneTurn
<1>3. AbortsFollow(cm2, p)
  <2>1. ASSUME NEW i \in PromptsIn(cm2), NEW j \in AbortsIn(cm2), i < j
        PROVE  cm2[j].run = cm2[i].run
    <3>1. /\ i + 1 \in PromptsIn(cm) /\ j + 1 \in AbortsIn(cm)
          /\ cm2[i] = cm[i + 1] /\ cm2[j] = cm[j + 1] /\ i \in Nat /\ j \in Nat
      BY <1>1
    <3>2. i + 1 < j + 1
      BY <2>1, <3>1
    <3> QED BY <3>1, <3>2 DEF Line, AbortsFollow
  <2>2. p # NoDelivery => \A j \in AbortsIn(cm2) : cm2[j].run = p
    BY <1>1 DEF Line, AbortsFollow
  <2> QED BY <2>1, <2>2 DEF AbortsFollow
<1>4. Busy(cm2, ev, p) => Busy(cm, ev, p)
  BY <1>1 DEF Busy
<1>5. TurnIsMine(cm, ev, p, ro, ru) => TurnIsMine(cm2, ev, p, ro, ru)
  BY <1>1 DEF TurnIsMine
<1>6. StillHanded(cm, ev, ro, ru, dr) => StillHanded(cm2, ev, ro, ru, dr)
  BY <1>1 DEF StillHanded
<1> QED BY <1>2, <1>3, <1>4, <1>5, <1>6 DEF Line

\* An event that ends or accepts nothing is sent.
LEMMA LineNote ==
  ASSUME NEW cm, NEW ev, NEW p, NEW c, NEW ro, NEW ru, NEW dr, NEW ev2, NEW x, NEW n,
         Line(cm, ev, p, c, ro, ru, dr),
         Added(ev, ev2, x, n), x.type \notin {"settled", "rejected", "accepted"}
  PROVE  Line(cm, ev2, p, c, ro, ru, dr)
<1>1. /\ EndsIn(ev2) = EndsIn(ev)
      /\ \A i \in EndsIn(ev) : ev2[i] = ev[i]
  BY AddedParts DEF Added
<1>2. /\ \A i \in DOMAIN ev2 : ev2[i].type \in {"accepted", "rejected"} =>
           i \in DOMAIN ev /\ ev[i] = ev2[i]
      /\ \A i \in DOMAIN ev : i \in DOMAIN ev2 /\ ev2[i] = ev[i]
  BY DEF Added
<1>3. OneTurn(cm, ev2, p) /\ (Busy(cm, ev2, p) <=> Busy(cm, ev, p))
  BY <1>1 DEF Line, OneTurn, Busy
<1>4. AcceptedRuns(ev2, p)
  BY <1>2 DEF Line, AcceptedRuns
<1>5. TurnIsMine(cm, ev, p, ro, ru) => TurnIsMine(cm, ev2, p, ro, ru)
  BY <1>1 DEF TurnIsMine
<1>6. StillHanded(cm, ev, ro, ru, dr) => StillHanded(cm, ev2, ro, ru, dr)
  BY <1>2 DEF StillHanded
<1> QED BY <1>3, <1>4, <1>5, <1>6 DEF Line

\* The Kernel reads an event that ends nothing.
LEMMA LineRead ==
  ASSUME NEW cm, NEW ev, NEW p, NEW c, NEW ro, NEW ru, NEW dr, NEW ev2,
         Line(cm, ev, p, c, ro, ru, dr), Dropped(ev, ev2),
         ev[1].type \notin {"settled", "rejected"}
  PROVE  Line(cm, ev2, p, c, ro, ru, dr)
<1>1. \A i \in EndsIn(ev2) : i \in Nat /\ i + 1 \in EndsIn(ev) /\ ev2[i] = ev[i + 1]
  BY DroppedParts
<1>2. OneTurn(cm, ev2, p)
  <2>1. ASSUME NEW i \in EndsIn(ev2), NEW j \in EndsIn(ev2) PROVE i = j
    <3>1. i + 1 = j + 1 /\ i \in Nat /\ j \in Nat
      BY <1>1 DEF Line, OneTurn
    <3> QED BY <3>1
  <2>2. EndsIn(ev2) # {} => EndsIn(ev) # {}
    BY <1>1
  <2> QED BY <2>1, <2>2 DEF Line, OneTurn
<1>3. AcceptedRuns(ev2, p)
  <2> SUFFICES ASSUME NEW i \in DOMAIN ev2, ev2[i].type = "accepted", p = NoDelivery
               PROVE  \E j \in DOMAIN ev2 : i < j /\ ev2[j].type = "settled"
    BY DEF AcceptedRuns
  <2>1. i + 1 \in DOMAIN ev /\ ev[i + 1].type = "accepted" /\ i \in Nat
    BY DEF Dropped
  <2>2. PICK k \in DOMAIN ev : i + 1 < k /\ ev[k].type = "settled"
    BY <2>1 DEF Line, AcceptedRuns
  <2>3. k # 1
    BY <2>2
  <2>4. PICK j \in DOMAIN ev2 : k = j + 1
    BY <2>3 DEF Dropped
  <2>5. j \in Nat /\ ev2[j] = ev[k]
    BY <2>4 DEF Dropped
  <2> QED BY <2>1, <2>2, <2>4, <2>5
<1>4. Busy(cm, ev2, p) => Busy(cm, ev, p)
  BY <1>1 DEF Busy
<1>5. TurnIsMine(cm, ev, p, ro, ru) => TurnIsMine(cm, ev2, p, ro, ru)
  BY <1>1 DEF TurnIsMine
<1>6. StillHanded(cm, ev, ro, ru, dr) => StillHanded(cm, ev2, ro, ru, dr)
  BY DEF StillHanded, Dropped
<1> QED BY <1>2, <1>3, <1>4, <1>5, <1>6 DEF Line

\* The Kernel reads the end of a run: nothing is left of it.
LEMMA LineOver ==
  ASSUME NEW cm, NEW ev, NEW p, NEW c, NEW ro, NEW ru, NEW dr, NEW ev2,
         Line(cm, ev, p, c, ro, ru, dr), Dropped(ev, ev2),
         ev[1].type \in {"settled", "rejected"}
  PROVE  /\ c \in {"running", "stopping", "crashed"}
         /\ c = "running" => Mine(ev[1].run, ro, ru)
         /\ c = "running" /\ ev[1].type = "rejected" /\ ro => dr = ru
         /\ \A c2, ro2, ru2, dr2 : (c2 = "ready" => ru2 = NoDelivery /\ ~ro2) =>
              Line(cm, ev2, p, c2, ro2, ru2, dr2)
<1>1. 1 \in EndsIn(ev) /\ 1 \in DOMAIN ev
  BY DEF Dropped, EndsIn
<1>2. PromptsIn(cm) = {} /\ p = NoDelivery /\ \A i \in EndsIn(ev) : i = 1
  BY <1>1 DEF Line, OneTurn
<1>3. EndsIn(ev2) = {}
  BY <1>2, DroppedParts DEF EndsIn
<1>4. ASSUME NEW i \in DOMAIN ev2, ev2[i].type = "accepted" PROVE FALSE
  <2>1. i + 1 \in DOMAIN ev /\ ev[i + 1].type = "accepted" /\ i \in Nat
    BY <1>4 DEF Dropped
  <2>2. PICK k \in DOMAIN ev : i + 1 < k /\ ev[k].type = "settled"
    BY <1>2, <2>1 DEF Line, AcceptedRuns
  <2>3. k \in EndsIn(ev)
    BY <2>2 DEF EndsIn
  <2>4. k = 1
    BY <1>2, <2>3
  <2> QED BY <2>1, <2>2, <2>4
<1>5. OneTurn(cm, ev2, p) /\ AcceptedRuns(ev2, p) /\ AbortsFollow(cm, p) /\ ~Busy(cm, ev2, p)
  BY <1>2, <1>3, <1>4 DEF OneTurn, AcceptedRuns, AbortsFollow, Busy
<1>6. \A ro2, ru2, dr2 : /\ TurnIsMine(cm, ev2, p, ro2, ru2)
                         /\ StillHanded(cm, ev2, ro2, ru2, dr2)
  BY <1>2, <1>3 DEF TurnIsMine, StillHanded, EndsIn
<1>7. \A c2, ro2, ru2, dr2 : (c2 = "ready" => ru2 = NoDelivery /\ ~ro2) =>
        Line(cm, ev2, p, c2, ro2, ru2, dr2)
  BY <1>5, <1>6 DEF Line
<1>8. c \in {"running", "stopping", "crashed"}
  BY <1>1 DEF Line, Busy
<1>9. c = "running" => Mine(ev[1].run, ro, ru)
  BY <1>1 DEF Line, TurnIsMine
<1>10. c = "running" /\ ev[1].type = "rejected" /\ ro => dr = ru
  BY <1>1 DEF Line, StillHanded
<1> QED BY <1>7, <1>8, <1>9, <1>10

\* The Kernel reads that a prompt was accepted: the drain is over.
LEMMA LineAccepted ==
  ASSUME NEW cm, NEW ev, NEW p, NEW c, NEW ro, NEW ru, NEW dr, NEW ev2, NEW dr2,
         Line(cm, ev, p, c, ro, ru, dr), Dropped(ev, ev2), ev[1].type = "accepted"
  PROVE  Line(cm, ev2, p, c, ro, ru, dr2)
<1>1. Line(cm, ev2, p, c, ro, ru, dr)
  BY LineRead
<1>2. p # NoDelivery \/ \E j \in DOMAIN ev : j \in EndsIn(ev) /\ ev[j].type = "settled"
  BY DEF Dropped, Line, AcceptedRuns, EndsIn
<1>3. PromptsIn(cm) = {} /\ \A i \in DOMAIN ev : ev[i].type # "rejected"
  BY <1>2 DEF Line, OneTurn, EndsIn
<1>4. \A i \in DOMAIN ev2 : ev2[i].type # "rejected"
  BY <1>3 DEF Dropped
<1>5. StillHanded(cm, ev2, ro, ru, dr2)
  BY <1>3, <1>4 DEF StillHanded
<1> QED BY <1>1, <1>5 DEF Line

\* Nothing is on its way and nothing runs.
LEMMA LineEmpty ==
  ASSUME NEW c, NEW ro, NEW ru, NEW dr, c = "ready" => ru = NoDelivery /\ ~ro
  PROVE  Line(<<>>, <<>>, NoDelivery, c, ro, ru, dr)
BY DEF Line, OneTurn, AcceptedRuns, AbortsFollow, Busy, PromptsIn, EndsIn, AbortsIn,
       TurnIsMine, StillHanded

\* A context that stops or crashed, or one that starts.
LEMMA LineLeaves ==
  ASSUME NEW cm, NEW ev, NEW p, NEW c, NEW ro, NEW ru, NEW dr,
         NEW c2 \in {"stopping", "crashed"}, NEW ru2, NEW dr2,
         Line(cm, ev, p, c, ro, ru, dr)
  PROVE  Line(cm, ev, p, c2, ro, ru2, dr2)
BY DEF Line

LEMMA LineStarts ==
  ASSUME NEW cm, NEW ev, NEW p, NEW ro, NEW ru, NEW dr,
         Line(cm, ev, p, "ready", ro, ru, dr)
  PROVE  Line(cm, ev, p, "running", ro, ru, dr)
<1>1. PromptsIn(cm) = {} /\ p = NoDelivery /\ EndsIn(ev) = {}
  BY DEF Line, Busy
<1>2. TurnIsMine(cm, ev, p, ro, ru) /\ StillHanded(cm, ev, ro, ru, dr)
  BY <1>1 DEF TurnIsMine, StillHanded, EndsIn
<1> QED BY <1>2 DEF Line

-----------------------------------------------------------------------------
(* Every step but the start of a run of Pi's own keeps the lines           *)

Elsewhere(s) ==
  \A u \in Sessions \ {s} :
    /\ commands'[u] = commands[u] /\ events'[u] = events[u] /\ pi'[u] = pi[u]
    /\ ctx'[u] = ctx[u] /\ runOpen'[u] = runOpen[u]
    /\ running'[u] = running[u] /\ draining'[u] = draining[u]

LEMMA LocalLines ==
  ASSUME Lines, NEW s \in Sessions, Elsewhere(s), LineOf(s)'
  PROVE  Lines'
BY DEF Lines, LineOf, Elsewhere

LEMMA StillLines ==
  ASSUME Lines, UNCHANGED <<commands, events, pi, ctx, runOpen, running, draining>>
  PROVE  Lines'
BY DEF Lines, LineOf

\* The steps of a Session whose channel is empty, or is emptied.
LEMMA EmptyLines ==
  ASSUME IInv, Stages, Lines, NEW src \in Sessions, NEW s \in Sessions,
         \/ Spawn(src, s) \/ SpawnFails(s) \/ SpawnDone(s) \/ Activate(s)
         \/ LaunchFails(s) \/ Crash(s) \/ StopDone(s)
  PROVE  Lines'
<1>1. Shapes /\ Stage(s)
  BY IInvShapes DEF Stages
<1>2. ctx[s] \in Unborn => running[s] = NoDelivery
  BY <1>1, RunningIsHere DEF Stage
<1>3. /\ \/ running' = [running EXCEPT ![s] = NoDelivery]
         \/ running' = running
      /\ \/ draining' = [draining EXCEPT ![s] = NoDelivery]
         \/ draining' = draining
  <2>1. CASE SpawnDone(s)
    BY <2>1, Submissions, SubmitDoes DEF Submission, coordinatorVars
  <2>2. CASE LaunchFails(s)
    <3>1. FailDrain(s)
      BY <2>2 DEF LaunchFails
    <3>2. ASSUME Settled(s, NoDelivery, "failed")
          PROVE  running' = [running EXCEPT ![s] = NoDelivery]
      BY <3>2 DEF Settled
    <3> QED BY <3>1, <3>2, FailDrainDoes DEF EndDrain
  <2>3. CASE Crash(s)
    BY <2>3 DEF Crash, Interrupted, DropDrain
  <2>4. CASE Spawn(src, s) \/ SpawnFails(s) \/ Activate(s) \/ StopDone(s)
    BY <2>4 DEF Spawn, SpawnFails, Activate, StopDone, DropDrain, coordinatorVars
  <2> QED BY <2>1, <2>2, <2>3, <2>4
<1>4. /\ \E c \in {"absent", "none", "spawning", "ready", "crashed", "stopping"} :
           /\ ctx' = [ctx EXCEPT ![s] = c]
           /\ c = "ready" => ctx[s] \in {"spawning", "none"} /\ runOpen' = runOpen
                             /\ running' = running
      /\ \/ ctx[s] \in Offline /\ UNCHANGED <<commands, events, pi, runOpen>>
         \/ Gone(s)
  <2>1. CASE SpawnDone(s)
    <3>1. running' = running
      BY <2>1, Submissions, SubmitDoes DEF Submission, coordinatorVars
    <3>2. /\ ctx[s] = "spawning" /\ ctx' = [ctx EXCEPT ![s] = "ready"]
          /\ UNCHANGED <<commands, events, pi, runOpen>>
      BY <2>1 DEF SpawnDone, piVars
    <3> QED BY <3>1, <3>2 DEF Offline, Unborn
  <2>2. CASE Activate(s)
    BY <2>2 DEF Activate, coordinatorVars, piVars, Offline
  <2>3. CASE Spawn(src, s) \/ SpawnFails(s) \/ LaunchFails(s)
    BY <2>3 DEF Spawn, SpawnFails, LaunchFails, piVars, Offline, Unborn
  <2>4. CASE Crash(s) \/ StopDone(s)
    BY <2>4 DEF Crash, StopDone
  <2> QED BY <2>1, <2>2, <2>3, <2>4
<1>5. commands'[s] = <<>> /\ events'[s] = <<>> /\ pi'[s] = NoDelivery
  BY <1>1, <1>4 DEF Stage, Shapes, Gone
<1>6. ctx'[s] = "ready" => running'[s] = NoDelivery /\ ~runOpen'[s]
  BY <1>1, <1>2, <1>4 DEF Stage, Shapes, Offline, Unborn
<1>7. Elsewhere(s)
  BY <1>1, <1>3, <1>4 DEF Elsewhere, Shapes, Gone
<1> QED BY <1>5, <1>6, <1>7, LineEmpty, LocalLines DEF LineOf

\* A Runtime is stopped, or did not stop.
LEMMA LeavingLines ==
  ASSUME IInv, Lines, NEW s \in Sessions,
         Stop(s) \/ NamingFails(s) \/ Hibernate(s) \/ StopFails(s)
  PROVE  Lines'
<1>1. Shapes /\ LineOf(s)
  BY IInvShapes DEF Lines
<1>2. /\ UNCHANGED <<commands, events, pi, runOpen, draining>>
      /\ \/ running' = running
         \/ running' = [running EXCEPT ![s] = NoDelivery]
      /\ \/ ctx' = [ctx EXCEPT ![s] = "stopping"]
         \/ ctx' = [ctx EXCEPT ![s] = "crashed"]
  BY DEF Stop, NamingFails, Hibernate, StopFails, Interrupted, piVars, coordinatorVars
<1>3. ctx'[s] \in {"stopping", "crashed"}
  BY <1>1, <1>2 DEF Shapes
<1>4. Elsewhere(s)
  BY <1>1, <1>2 DEF Elsewhere, Shapes
<1> QED BY <1>1, <1>2, <1>3, <1>4, LineLeaves, LocalLines DEF LineOf

\* A prompt goes to a Session that is free.
LEMMA FreeLine ==
  ASSUME NEW s \in Sessions, LineOf(s), ctx[s] \in {"ready", "launching"}
  PROVE  ~Busy(commands[s], events[s], pi[s])
BY DEF LineOf, Line

LEMMA PromptedLines ==
  ASSUME IInv, Lines, NEW s \in Sessions, NEW r \in Run,
         ctx[s] \in {"ready", "launching"},
         commands' = [commands EXCEPT ![s] =
           Append(@, [type |-> "prompt", run |-> r, told |-> FALSE])],
         ctx' = [ctx EXCEPT ![s] = "running"],
         UNCHANGED <<events, pi>>,
         Elsewhere(s), Mine(r, runOpen'[s], running'[s]),
         runOpen'[s] => draining'[s] = running'[s]
  PROVE  Lines'
<1> DEFINE x == [type |-> "prompt", run |-> r, told |-> FALSE]
           cm2 == Append(commands[s], x)
           n == Len(commands[s]) + 1
<1>1. Shapes /\ LineOf(s)
  BY IInvShapes DEF Lines
<1>2. x \in Command /\ x.type = "prompt" /\ x.run = r /\ r # NoDelivery
  BY DEF Command, Run, Deliveries, NoDelivery, OwnRun
<1> HIDE DEF x
<1>3. Added(commands[s], cm2, x, n)
  BY <1>1, <1>2, AppendAdds DEF Shapes
<1>4. commands'[s] = cm2 /\ ctx'[s] = "running" /\ events'[s] = events[s] /\ pi'[s] = pi[s]
  BY <1>1 DEF Shapes, x
<1>5. ~Busy(commands[s], events[s], pi[s])
  BY <1>1, FreeLine
<1> HIDE DEF cm2, n
<1>6. Line(cm2, events[s], pi[s], "running", runOpen'[s], running'[s], draining'[s])
  BY <1>1, <1>2, <1>3, <1>5, LinePrompt DEF LineOf
<1>7. LineOf(s)'
  BY <1>4, <1>6 DEF LineOf
<1> QED BY <1>7, LocalLines

LEMMA PromptLines ==
  ASSUME IInv, Stages, Lines, NEW s \in Sessions, Drain(s) \/ LaunchDone(s) \/ UserPrompt(s)
  PROVE  Lines'
<1>1. Shapes /\ LineOf(s) /\ Stage(s)
  BY IInvShapes DEF Lines, Stages
<1>2. CASE UserPrompt(s)
  <2>1. /\ ctx[s] = "ready" /\ ctx' = [ctx EXCEPT ![s] = "running"]
        /\ commands' = [commands EXCEPT ![s] =
             Append(@, [type |-> "prompt", run |-> OwnRun, told |-> FALSE])]
        /\ UNCHANGED <<events, pi, runOpen, running, draining>>
    BY <1>2 DEF UserPrompt, Promptable, coordinatorVars
  <2>2. Elsewhere(s)
    BY <1>1, <2>1 DEF Elsewhere, Shapes
  <2>3. running[s] = NoDelivery /\ ~runOpen[s]
    BY <1>1, <2>1 DEF LineOf, Line
  <2>4. OwnRun \in Run
    BY DEF Run
  <2> QED BY <2>1, <2>2, <2>3, <2>4, PromptedLines DEF Mine
<1>3. CASE LaunchDone(s)
  <2> DEFINE r == draining[s]
  <2>1. /\ ctx[s] = "launching" /\ ctx' = [ctx EXCEPT ![s] = "running"]
        /\ runOpen' = [runOpen EXCEPT ![s] = TRUE]
        /\ commands' = [commands EXCEPT ![s] =
             Append(@, [type |-> "prompt", run |-> r, told |-> FALSE])]
        /\ UNCHANGED <<events, pi, running, draining>>
    BY <1>3 DEF LaunchDone, HandOver, coordinatorVars
  <2>2. Elsewhere(s)
    BY <1>1, <2>1 DEF Elsewhere, Shapes
  <2>3. running[s] = r /\ r # NoDelivery /\ r \in Run /\ runOpen'[s] = TRUE
    BY <1>1, <2>1 DEF Stage, Shapes, Run
  <2> HIDE DEF r
  <2>4. Mine(r, runOpen'[s], running'[s]) /\ draining'[s] = running'[s]
    BY <2>1, <2>3 DEF Mine, r
  <2> QED BY <2>1, <2>2, <2>3, <2>4, PromptedLines
<1>4. CASE Drain(s)
  <2>1. PICK d \in Made : /\ d = Head(queue[s])
                          /\ running' = [running EXCEPT ![s] = d]
                          /\ draining' = [draining EXCEPT ![s] = d]
    BY <1>4, DrainDoes
  <2>2. /\ UNCHANGED <<events, pi>> /\ ctx[s] \in {"none", "ready"}
        /\ \/ /\ ctx[s] = "none" /\ ctx' = [ctx EXCEPT ![s] = "launching"]
              /\ UNCHANGED <<runOpen, commands>>
           \/ ctx[s] # "none" /\ HandOver(s, d)
    BY <1>4, <2>1 DEF Drain, CanDrain, Ready
  <2>3. Elsewhere(s)
    BY <1>1, <2>1, <2>2 DEF Elsewhere, Shapes, HandOver
  <2>4. CASE ctx[s] = "none"
    <3>1. /\ commands'[s] = <<>> /\ events'[s] = <<>> /\ pi'[s] = NoDelivery
          /\ ctx'[s] = "launching"
      BY <1>1, <2>2, <2>4 DEF Stage, Shapes, Offline
    <3> QED BY <2>3, <3>1, LineEmpty, LocalLines DEF LineOf
  <2>5. CASE ctx[s] = "ready"
    <3>1. /\ ctx' = [ctx EXCEPT ![s] = "running"]
          /\ runOpen' = [runOpen EXCEPT ![s] = TRUE]
          /\ commands' = [commands EXCEPT ![s] =
               Append(@, [type |-> "prompt", run |-> d, told |-> FALSE])]
      BY <2>2, <2>5 DEF HandOver
    <3>2. runOpen'[s] = TRUE /\ running'[s] = d /\ draining'[s] = d
      BY <1>1, <2>1, <3>1 DEF Shapes
    <3>3. d \in Run /\ Mine(d, runOpen'[s], running'[s])
      BY <3>2 DEF Made, Run, Mine
    <3> QED BY <2>2, <2>3, <2>5, <3>1, <3>2, <3>3, PromptedLines
  <2> QED BY <2>2, <2>4, <2>5
<1> QED BY <1>2, <1>3, <1>4

\* A cancel aborts only what its target works on.
LEMMA AbortLines ==
  ASSUME IInv, Stages, Lines, NEW src \in Sessions, NEW s \in Sessions,
         Cancel(src, s) \/ UserAbort(s)
  PROVE  Lines'
<1>1. Shapes /\ LineOf(s) /\ Stage(s)
  BY IInvShapes DEF Lines, Stages
<1>2. UNCHANGED <<events, pi, ctx, runOpen, running, draining>>
  BY CancelDoes DEF UserAbort, contextVars, coordinatorVars
<1>3. \/ commands' = commands
      \/ \E x \in Command :
           /\ x.type = "abort"
           /\ x.run # NoDelivery => x.run = running[s] /\ ctx[s] = "running"
           /\ commands' = [commands EXCEPT ![s] = Append(@, x)]
  <2>1. CASE UserAbort(s)
    <3> DEFINE x == [type |-> "abort", run |-> NoDelivery, told |-> FALSE]
    <3>1. x \in Command /\ x.type = "abort" /\ x.run = NoDelivery
      BY DEF Command
    <3>2. commands' = [commands EXCEPT ![s] = Append(@, x)]
      BY <2>1 DEF UserAbort
    <3> QED BY <3>1, <3>2
  <2>2. CASE Cancel(src, s) /\ commands' # commands
    <3> DEFINE x == [type |-> "abort", run |-> running[s],
                     told |-> running[s] \in notify]
    <3>1. /\ running[s] \in Made
          /\ ctx[s] \notin {"absent", "spawning", "none", "launching"}
          /\ commands' = [commands EXCEPT ![s] = Append(@, x)]
      BY <2>2, CancelDoes
    <3>2. running[s] # NoDelivery /\ running[s] \in Run
      BY <3>1 DEF Made, Deliveries, NoDelivery, Run
    <3>3. ctx[s] = "running"
      BY <1>1, <3>1, <3>2 DEF Stage, LineOf, Line, Shapes, Status
    <3>4. x \in Command /\ x.type = "abort" /\ x.run = running[s]
      BY <3>2 DEF Command
    <3> QED BY <3>1, <3>3, <3>4
  <2> QED BY <2>1, <2>2
<1>4. CASE commands' = commands
  BY <1>2, <1>4, StillLines
<1>5. ASSUME NEW x \in Command, x.type = "abort",
             x.run # NoDelivery => x.run = running[s] /\ ctx[s] = "running",
             commands' = [commands EXCEPT ![s] = Append(@, x)]
      PROVE  Lines'
  <2> DEFINE cm2 == Append(commands[s], x)
             n == Len(commands[s]) + 1
  <2>1. Added(commands[s], cm2, x, n)
    BY <1>1, AppendAdds DEF Shapes
  <2>2. commands'[s] = cm2
    BY <1>1, <1>5 DEF Shapes
  <2>3. Elsewhere(s)
    BY <1>1, <1>2, <1>5 DEF Elsewhere, Shapes
  <2> HIDE DEF cm2, n
  <2>4. LineOf(s)'
    BY <1>1, <1>2, <1>5, <2>1, <2>2, LineAbort DEF LineOf
  <2> QED BY <2>3, <2>4, LocalLines
<1> QED BY <1>3, <1>4, <1>5

\* Pi takes a prompt.
LEMMA PiPromptLines ==
  ASSUME IInv, Lines, NEW s \in Sessions, PiTakesPrompt(s)
  PROVE  Lines'
<1> DEFINE cm == commands[s]
           ev == events[s]
           cm2 == Tail(cm)
           r == Head(cm).run
           x == Started(r)
           y == Accepted(r)
           z == Rejected(r)
           ev1 == Append(ev, x)
           ev2 == Append(ev1, y)
           ev3 == Append(ev, z)
<1>1. /\ Shapes /\ cm \in Seq(Command) /\ ev \in Seq(Event) /\ LineOf(s)
      /\ UNCHANGED <<ctx, runOpen, running, draining>>
  BY IInvShapes DEF Shapes, Lines, PiTakesPrompt, contextVars, coordinatorVars
<1>2. /\ cm # <<>> /\ Head(cm).type = "prompt" /\ commands' = [commands EXCEPT ![s] = cm2]
      /\ \/ /\ pi[s] = NoDelivery /\ pi' = [pi EXCEPT ![s] = r]
            /\ events' = [events EXCEPT ![s] = ev \o <<x, y>>]
         \/ /\ pi' = pi
            /\ events' = [events EXCEPT ![s] = ev \o <<z>>]
  BY <1>1 DEF PiTakesPrompt, Takes, Emits, Shapes
<1>3. Dropped(cm, cm2) /\ Head(cm) = cm[1] /\ Head(cm) \in Command
  BY <1>1, <1>2, TailDrops, HeadTailProperties
<1>4. r \in Run \cup {NoDelivery}
  BY <1>3 DEF Command
<1>5. /\ x \in Event /\ x.type = "start" /\ y \in Event /\ y.type = "accepted"
      /\ z \in Event /\ z.type = "rejected" /\ z.run = r
  <2> HIDE DEF r
  <2> QED BY <1>4, EventIsEvent
<1>6. cm[1].type = "prompt" /\ r = cm[1].run
  BY <1>2, <1>3
<1> HIDE DEF cm, ev, cm2, r, x, y, z
<1>7. ev \o <<x, y>> = ev2 /\ ev \o <<z>> = ev3 /\ ev1 \in Seq(Event)
  BY <1>1, <1>5, ConcatIn, AppendIn
<1>8. /\ Added(ev, ev1, x, Len(ev) + 1) /\ Added(ev1, ev2, y, Len(ev1) + 1)
      /\ Added(ev, ev3, z, Len(ev) + 1)
  BY <1>1, <1>5, <1>7, AppendAdds
<1>9. Line(cm, ev, pi[s], ctx[s], runOpen[s], running[s], draining[s])
  BY <1>1 DEF LineOf, cm, ev
<1> HIDE DEF ev1, ev2, ev3
<1>10. Elsewhere(s)
  BY <1>1, <1>2 DEF Elsewhere, Shapes
<1>11. commands'[s] = cm2
  BY <1>1, <1>2 DEF Shapes
<1>12. CASE pi' = [pi EXCEPT ![s] = r] /\ events' = [events EXCEPT ![s] = ev \o <<x, y>>]
  <2>1. pi'[s] = r /\ events'[s] = ev2
    BY <1>1, <1>7, <1>12 DEF Shapes
  <2>2. Line(cm2, ev2, r, ctx[s], runOpen[s], running[s], draining[s])
    BY <1>3, <1>5, <1>6, <1>8, <1>9, LineAccept
  <2> QED BY <1>1, <1>10, <1>11, <2>1, <2>2, LocalLines DEF LineOf
<1>13. CASE pi' = pi /\ events' = [events EXCEPT ![s] = ev \o <<z>>]
  <2>1. pi'[s] = pi[s] /\ events'[s] = ev3
    BY <1>1, <1>7, <1>13 DEF Shapes
  <2>2. Line(cm2, ev3, pi[s], ctx[s], runOpen[s], running[s], draining[s])
    BY <1>3, <1>5, <1>6, <1>8, <1>9, LineReject
  <2> QED BY <1>1, <1>10, <1>11, <2>1, <2>2, LocalLines DEF LineOf
<1> QED BY <1>2, <1>12, <1>13

\* Pi takes an abort, or ends its run.
LEMMA PiEndLines ==
  ASSUME IInv, Lines, NEW s \in Sessions, PiTakesAbort(s) \/ PiSettles(s)
  PROVE  Lines'
<1> DEFINE cm == commands[s]
           ev == events[s]
           cm2 == IF PiTakesAbort(s) THEN Tail(cm) ELSE cm
           Ends(x) == /\ x \in Event /\ x.type = "settled" /\ x.run = pi[s]
                      /\ pi[s] # NoDelivery
                      /\ pi' = [pi EXCEPT ![s] = NoDelivery]
           Fails(x) == /\ x \in Event /\ x.type = "abortFailed" /\ PiTakesAbort(s)
                       /\ pi' = pi
<1>1. /\ Shapes /\ cm \in Seq(Command) /\ ev \in Seq(Event) /\ LineOf(s)
      /\ UNCHANGED <<ctx, runOpen, running, draining>> /\ pi[s] \in Run \cup {NoDelivery}
  BY IInvShapes DEF Shapes, Lines, PiTakesAbort, PiSettles, contextVars, coordinatorVars
<1>2. PiTakesAbort(s) => /\ cm # <<>> /\ Head(cm).type = "abort"
                         /\ commands' = [commands EXCEPT ![s] = Tail(cm)]
  BY <1>1 DEF PiTakesAbort, Takes, Shapes
<1>3. /\ PiTakesAbort(s) => Dropped(cm, cm2) /\ cm[1].type = "abort"
      /\ ~PiTakesAbort(s) => cm2 = cm
  BY <1>1, <1>2, TailDrops
<1>4. commands'[s] = cm2 /\ \A u \in Sessions : u # s => commands'[u] = commands[u]
  <2>1. CASE PiTakesAbort(s)
    BY <1>1, <1>2, <2>1 DEF Shapes
  <2>2. CASE ~PiTakesAbort(s)
    <3>1. commands' = commands
      BY <2>2 DEF PiSettles
    <3> QED BY <2>2, <3>1
  <2> QED BY <2>1, <2>2
<1>5. \A o \in {"completed", "cancelled"} :
        /\ Ended(pi[s], o) \in Event /\ Ended(pi[s], o).type = "settled"
        /\ Ended(pi[s], o).run = pi[s]
  BY <1>1, EventIsEvent
<1>6. \/ \E x : Ends(x) /\ events' = [events EXCEPT ![s] = ev \o <<x>>]
      \/ /\ pi' = pi /\ PiTakesAbort(s)
         /\ \/ events' = events
            \/ \E x : Fails(x) /\ events' = [events EXCEPT ![s] = ev \o <<x>>]
  <2>1. CASE PiSettles(s)
    <3> DEFINE x == Ended(pi[s], "completed")
    <3>1. /\ pi[s] # NoDelivery /\ pi' = [pi EXCEPT ![s] = NoDelivery]
          /\ events' = [events EXCEPT ![s] = ev \o <<x>>]
      BY <1>1, <2>1 DEF PiSettles, Emits, Shapes
    <3>2. x \in Event /\ x.type = "settled" /\ x.run = pi[s]
      BY <1>5
    <3> HIDE DEF x
    <3> QED BY <3>1, <3>2
  <2>2. CASE PiTakesAbort(s)
    <3> DEFINE x == Ended(pi[s], "cancelled")
               c == Head(cm)
               y == AbortFailed(c.run, c.told)
    <3>1. x \in Event /\ x.type = "settled" /\ x.run = pi[s]
      BY <1>5
    <3>2. c \in Command
      BY <1>1, <1>2, <2>2, HeadTailProperties
    <3>3. c.run \in Run \cup {NoDelivery} /\ c.told \in BOOLEAN
      BY <3>2 DEF Command
    <3> HIDE DEF c
    <3>4. y \in Event /\ y.type = "abortFailed"
      BY <3>3, EventIsEvent
    <3>5. \/ /\ pi[s] # NoDelivery /\ pi' = [pi EXCEPT ![s] = NoDelivery]
             /\ events' = [events EXCEPT ![s] = ev \o <<x>>]
          \/ pi' = pi /\ events' = events
          \/ pi' = pi /\ events' = [events EXCEPT ![s] = ev \o <<y>>]
      BY <1>1, <2>2 DEF PiTakesAbort, Emits, Shapes, c
    <3> HIDE DEF x, y
    <3> QED BY <2>2, <3>1, <3>4, <3>5
  <2> QED BY <2>1, <2>2
<1>7. Line(cm, ev, pi[s], ctx[s], runOpen[s], running[s], draining[s])
  BY <1>1 DEF LineOf
<1> HIDE DEF cm2
<1>8. ASSUME NEW x, Ends(x), events' = [events EXCEPT ![s] = ev \o <<x>>]
      PROVE  Lines'
  <2> DEFINE ev2 == Append(ev, x)
  <2>1. ev \o <<x>> = ev2 /\ Added(ev, ev2, x, Len(ev) + 1)
    BY <1>1, <1>8, ConcatIn, AppendAdds
  <2>2. events'[s] = ev2 /\ pi'[s] = NoDelivery
    BY <1>1, <1>8, <2>1 DEF Shapes
  <2>3. Elsewhere(s)
    BY <1>1, <1>4, <1>8 DEF Elsewhere, Shapes
  <2> HIDE DEF ev2
  <2>4. Line(cm2, ev2, NoDelivery, ctx[s], runOpen[s], running[s], draining[s])
    <3>1. cm2 = cm \/ Dropped(cm, cm2)
      BY <1>3
    <3>2. x.type = "settled" /\ x.run = pi[s] /\ pi[s] # NoDelivery
      BY <1>8
    <3> HIDE DEF cm, ev
    <3> QED BY <1>7, <2>1, <3>1, <3>2, LineEnd
  <2> QED BY <1>1, <1>4, <2>2, <2>3, <2>4, LocalLines DEF LineOf
<1>9. CASE pi' = pi /\ PiTakesAbort(s) /\ events' = events
  <2>1. Line(cm2, ev, pi[s], ctx[s], runOpen[s], running[s], draining[s])
    BY <1>3, <1>7, <1>9, LineTake
  <2>2. Elsewhere(s)
    BY <1>1, <1>4, <1>9 DEF Elsewhere, Shapes
  <2> QED BY <1>1, <1>4, <1>9, <2>1, <2>2, LocalLines DEF LineOf
<1>10. ASSUME NEW x, Fails(x), events' = [events EXCEPT ![s] = ev \o <<x>>]
       PROVE  Lines'
  <2> DEFINE ev2 == Append(ev, x)
  <2>1. ev \o <<x>> = ev2 /\ Added(ev, ev2, x, Len(ev) + 1)
    BY <1>1, <1>10, ConcatIn, AppendAdds
  <2>2. events'[s] = ev2 /\ pi' = pi
    BY <1>1, <1>10, <2>1 DEF Shapes
  <2>3. Elsewhere(s)
    BY <1>1, <1>4, <1>10 DEF Elsewhere, Shapes
  <2>4. Line(cm2, ev, pi[s], ctx[s], runOpen[s], running[s], draining[s])
    BY <1>3, <1>7, <1>10, LineTake
  <2> HIDE DEF ev2
  <2>5. Line(cm2, ev2, pi[s], ctx[s], runOpen[s], running[s], draining[s])
    BY <1>10, <2>1, <2>4, LineNote
  <2> QED BY <1>1, <1>4, <2>2, <2>3, <2>5, LocalLines DEF LineOf
<1> QED BY <1>6, <1>8, <1>9, <1>10

\* The Kernel handles what ends nothing.
LEMMA ReadLines ==
  ASSUME IInv, Lines, NEW s \in Sessions,
         HandleStart(s) \/ HandleAccepted(s) \/ HandleAbortFailed(s)
  PROVE  Lines'
<1> DEFINE ev == events[s]
           ev2 == Tail(ev)
<1>1. /\ Shapes /\ ev \in Seq(Event) /\ LineOf(s) /\ ev # <<>>
      /\ events' = [events EXCEPT ![s] = ev2]
      /\ UNCHANGED <<commands, pi, runOpen, running>>
  BY IInvShapes DEF Shapes, Lines, HandleStart, HandleAccepted, HandleAbortFailed,
     Receives, EndDrain, contextVars, coordinatorVars
<1>2. Dropped(ev, ev2) /\ Head(ev) = ev[1] /\ events'[s] = ev2
  BY <1>1, TailDrops DEF Shapes
<1>3. Line(commands[s], ev, pi[s], ctx[s], runOpen[s], running[s], draining[s])
  BY <1>1 DEF LineOf
<1>4. CASE HandleAccepted(s)
  <2>1. /\ ev[1].type = "accepted" /\ ctx' = ctx
        /\ \/ draining' = draining
           \/ draining' = [draining EXCEPT ![s] = NoDelivery]
    BY <1>2, <1>4 DEF HandleAccepted, Receives, EndDrain, contextVars, coordinatorVars
  <2>2. Elsewhere(s)
    BY <1>1, <2>1 DEF Elsewhere, Shapes
  <2> HIDE DEF ev, ev2
  <2>3. Line(commands[s], ev2, pi[s], ctx[s], runOpen[s], running[s], draining'[s])
    BY <1>2, <1>3, <2>1, LineAccepted
  <2> QED BY <1>1, <1>2, <2>1, <2>2, <2>3, LocalLines DEF LineOf
<1>5. CASE HandleStart(s) \/ HandleAbortFailed(s)
  <2>1. /\ ev[1].type \in {"start", "abortFailed"} /\ draining' = draining
        /\ \/ ctx' = ctx
           \/ ctx[s] \in {"ready", "running"} /\ ctx' = [ctx EXCEPT ![s] = "running"]
    BY <1>2, <1>5 DEF HandleStart, HandleAbortFailed, Receives, Listening,
       contextVars, coordinatorVars
  <2>2. Elsewhere(s)
    BY <1>1, <2>1 DEF Elsewhere, Shapes
  <2> HIDE DEF ev, ev2
  <2>3. Line(commands[s], ev2, pi[s], ctx[s], runOpen[s], running[s], draining[s])
    BY <1>2, <1>3, <2>1, LineRead
  <2>4. Line(commands[s], ev2, pi[s], ctx'[s], runOpen[s], running[s], draining[s])
    BY <1>1, <2>1, <2>3, LineStarts DEF Shapes
  <2> QED BY <1>1, <1>2, <2>1, <2>2, <2>4, LocalLines DEF LineOf
<1> QED BY <1>4, <1>5

\* The Kernel handles the end of a run.
LEMMA OverLines ==
  ASSUME IInv, Lines, NEW s \in Sessions, HandleSettled(s) \/ HandleRejected(s)
  PROVE  Lines'
<1> DEFINE ev == events[s]
           ev2 == Tail(ev)
           e == Head(ev)
           c == ctx[s]
           ro == runOpen[s]
           ru == running[s]
<1>1. /\ Shapes /\ ev \in Seq(Event) /\ LineOf(s) /\ ev # <<>>
      /\ events' = [events EXCEPT ![s] = ev2]
      /\ UNCHANGED <<commands, pi>> /\ e.type \in {"settled", "rejected"}
      /\ HandleSettled(s) <=> e.type = "settled"
  BY IInvShapes DEF Shapes, Lines, HandleSettled, HandleRejected, Receives
<1>2. Dropped(ev, ev2) /\ e = ev[1] /\ events'[s] = ev2 /\ e \in Event
  BY <1>1, TailDrops, HeadTailProperties DEF Shapes
<1>3. e.run \in Run \cup {NoDelivery} /\ e.outcome \in Final
  BY <1>2 DEF Event, Final
<1>4. ru \in Deliveries \cup {NoDelivery} /\ ro \in BOOLEAN
  BY <1>1 DEF Shapes
<1>5. /\ c \in {"running", "stopping", "crashed"}
      /\ c = "running" => Mine(e.run, ro, ru)
      /\ c = "running" /\ e.type = "rejected" /\ ro => draining[s] = ru
      /\ \A c2, ro2, ru2, dr2 : (c2 = "ready" => ru2 = NoDelivery /\ ~ro2) =>
           Line(commands[s], ev2, pi[s], c2, ro2, ru2, dr2)
  <2>1. Line(commands[s], ev, pi[s], c, ro, ru, draining[s])
    BY <1>1 DEF LineOf
  <2> HIDE DEF ev2, ev, e, c, ro, ru
  <2> QED BY <1>1, <1>2, <2>1, LineOver
<1> HIDE DEF e, ev, ev2
<1>6. /\ \/ ctx' = ctx
         \/ ctx' = [ctx EXCEPT ![s] = "ready"]
      /\ \/ runOpen' = runOpen
         \/ runOpen' = [runOpen EXCEPT ![s] = FALSE]
      /\ \/ running' = running
         \/ running' = [running EXCEPT ![s] = NoDelivery]
      /\ \/ draining' = draining
         \/ draining' = [draining EXCEPT ![s] = NoDelivery]
      /\ ctx'[s] = "ready" => running'[s] = NoDelivery /\ ~runOpen'[s]
  <2>1. CASE HandleSettled(s)
    <3>1. CASE /\ Listening(s) /\ ro /\ ctx' = [ctx EXCEPT ![s] = "ready"]
               /\ runOpen' = [runOpen EXCEPT ![s] = FALSE]
               /\ Settled(s, e.run, e.outcome) /\ UNCHANGED draining
      <4>1. running' = [running EXCEPT ![s] = NoDelivery]
        BY <3>1 DEF Settled
      <4> QED BY <1>1, <3>1, <4>1 DEF Shapes
    <3>2. CASE /\ Listening(s) /\ ~ro /\ ctx' = [ctx EXCEPT ![s] = "ready"]
               /\ UNCHANGED <<runOpen, running, draining>>
      <4>1. c = "running"
        BY <1>5, <3>2 DEF Listening
      <4>2. ru = NoDelivery
        BY <1>5, <3>2, <4>1 DEF Mine
      <4> QED BY <3>2, <4>2
    <3>3. CASE UNCHANGED <<ctx, runOpen, running, draining>>
      BY <1>5, <3>3
    <3> QED BY <2>1, <3>1, <3>2, <3>3 DEF HandleSettled, coordinatorVars, e, ev
  <2>2. CASE HandleRejected(s)
    <3>1. /\ ctx' = IF c = "running" THEN [ctx EXCEPT ![s] = "ready"] ELSE ctx
          /\ \/ /\ e.run # OwnRun /\ runOpen' = [runOpen EXCEPT ![s] = FALSE]
                /\ FailDrain(s)
             \/ /\ e.run = OwnRun /\ UNCHANGED <<runOpen, running, draining>>
      BY <2>2 DEF HandleRejected, coordinatorVars, e, ev
    <3>2. CASE e.run = OwnRun
      <4>1. UNCHANGED <<runOpen, running, draining>>
        BY <3>1, <3>2
      <4>2. c = "running" => ~ro /\ ru = NoDelivery
        BY <1>4, <1>5, <3>2 DEF Mine, OwnRun, NoDelivery, Deliveries
      <4> QED BY <1>5, <3>1, <4>1, <4>2
    <3>3. CASE e.run # OwnRun
      <4>1. runOpen' = [runOpen EXCEPT ![s] = FALSE] /\ FailDrain(s)
        BY <3>1, <3>3
      <4>2. /\ draining' = [draining EXCEPT ![s] = NoDelivery]
            /\ \/ running' = [running EXCEPT ![s] = NoDelivery]
               \/ ru # draining[s] /\ running' = running
        BY <4>1, FailDrainDoes DEF Settled, EndDrain
      <4>3. c = "running" => ru = draining[s]
        <5> SUFFICES ASSUME c = "running" PROVE ru = draining[s]
          OBVIOUS
        <5>1. ro
          BY <1>5, <3>3 DEF Mine
        <5>2. e.type = "rejected"
          BY <1>1, <2>2 DEF HandleRejected, Receives, e, ev
        <5> QED BY <1>5, <5>1, <5>2
      <4> QED BY <1>1, <1>5, <3>1, <4>1, <4>2, <4>3 DEF Shapes
    <3> QED BY <3>2, <3>3
  <2> QED BY <2>1, <2>2
<1>7. Elsewhere(s)
  BY <1>1, <1>6 DEF Elsewhere, Shapes
<1>8. Line(commands[s], ev2, pi[s], ctx'[s], runOpen'[s], running'[s], draining'[s])
  BY <1>5, <1>6
<1> QED BY <1>1, <1>2, <1>7, <1>8, LocalLines DEF LineOf

LEMMA InitLines == Init => Lines
<1> SUFFICES ASSUME Init, NEW s \in Sessions PROVE LineOf(s)
  BY DEF Lines
<1>1. /\ commands[s] = <<>> /\ events[s] = <<>> /\ pi[s] = NoDelivery
      /\ ctx[s] # "ready"
  BY DEF Init
<1> QED BY <1>1, LineEmpty DEF LineOf

\* Pi has started no run of its own, as it does for the report of a background task.
NoOwn == used["own"] = 0

LEMMA StepLines ==
  ASSUME IInv, Stages, Lines, [Next]_vars, NoOwn'
  PROVE  Lines'
<1>1. ASSUME NEW s \in Sessions, NEW t \in Sessions, Send(s, t) \/ SpawnNamed(t)
      PROVE  Lines'
  <2>1. UNCHANGED <<commands, events, pi, ctx, runOpen>>
    BY <1>1 DEF Send, SpawnNamed, contextVars, piVars
  <2>2. UNCHANGED <<running, draining>>
    BY <1>1, Submissions, SubmitDoes DEF Submission, coordinatorVars
  <2> QED BY <2>1, <2>2, StillLines
<1>2. ASSUME NEW s \in Sessions, NEW t \in Sessions, Spawn(s, t) \/ Cancel(s, t)
      PROVE  Lines'
  BY <1>2, EmptyLines, AbortLines
<1>3. CASE BeginStopAll \/ EndStopAll \/ UNCHANGED vars
  BY <1>3, StillLines DEF BeginStopAll, EndStopAll, vars, coordinatorVars, contextVars, piVars
<1>4. ASSUME NEW s \in Sessions, DrainNothing(s) PROVE Lines'
  BY <1>4, StillLines DEF DrainNothing, contextVars, piVars
<1>5. ASSUME NEW s \in Sessions, Continue(s) PROVE Lines'
  BY <1>1, <1>4, <1>5, PromptLines, EmptyLines DEF Continue
<1>6. ASSUME NEW s \in Sessions, Pi(s) PROVE Lines'
  BY <1>6, PiPromptLines, PiEndLines DEF Pi
<1>7. ASSUME NEW s \in Sessions, PiStartsOwnRun(s) PROVE FALSE
  <2>1. used \in [OutsideEvent -> Nat] /\ "own" \in OutsideEvent
    BY IInvShapes DEF Shapes, OutsideEvent, Disturbance
  <2> QED BY <1>7, <2>1 DEF PiStartsOwnRun, Happens, NoOwn
<1>8. ASSUME NEW s \in Sessions, Handle(s) PROVE Lines'
  BY <1>8, ReadLines, OverLines DEF Handle
<1>9. ASSUME NEW s \in Sessions, Control(s) PROVE Lines'
  BY <1>9, EmptyLines, LeavingLines, PromptLines, AbortLines DEF Control
<1> QED BY <1>1, <1>2, <1>3, <1>5, <1>6, <1>7, <1>8, <1>9 DEF Next, Agent

\* What has happened has happened.
LEMMA UsedGrows ==
  ASSUME IInv, [Next]_vars, NEW k \in OutsideEvent, used'[k] = 0
  PROVE  used[k] = 0
<1>1. used \in [OutsideEvent -> Nat]
  BY IInvShapes DEF Shapes
<1>2. ASSUME NEW j \in OutsideEvent, Happens(j) PROVE used[k] = 0
  BY <1>1, <1>2 DEF Happens
<1> DEFINE Goal == used[k] = 0
<1>3. used' = used => Goal
  OBVIOUS
<1>4. \A j \in OutsideEvent : Happens(j) => Goal
  BY <1>2
<1> HIDE DEF Goal
<1>5. ASSUME NEW s \in Sessions, NEW t \in Sessions,
             Send(s, t) \/ Spawn(s, t) \/ Cancel(s, t)
      PROVE  Goal
  <2>1. Cancel(s, t) => used' = used
    BY CancelDoes
  <2>2. Send(s, t) \/ Spawn(s, t) => Happens("send")
    BY DEF Send, Spawn
  <2> QED BY <1>3, <1>4, <1>5, <2>1, <2>2 DEF OutsideEvent
<1>6. ASSUME BeginStopAll \/ EndStopAll \/ UNCHANGED vars PROVE Goal
  BY <1>3, <1>4, <1>6 DEF BeginStopAll, EndStopAll, vars, OutsideEvent, Disturbance
<1>7. ASSUME NEW s \in Sessions, Continue(s) PROVE Goal
  BY <1>3, <1>4, <1>7 DEF Continue, Drain, DrainNothing, LaunchDone, LaunchFails,
     SpawnDone, SpawnFails, SpawnNamed, OutsideEvent, Disturbance
<1>8. ASSUME NEW s \in Sessions, Pi(s) \/ PiStartsOwnRun(s) PROVE Goal
  BY <1>3, <1>4, <1>8 DEF Pi, PiTakesPrompt, PiTakesAbort, PiSettles, PiStartsOwnRun,
     OutsideEvent, Disturbance
<1>9. ASSUME NEW s \in Sessions, Handle(s) PROVE Goal
  BY <1>3, <1>4, <1>9 DEF Handle, HandleStart, HandleSettled, HandleAccepted,
     HandleRejected, HandleAbortFailed, OutsideEvent, Disturbance
<1>10. ASSUME NEW s \in Sessions, Control(s) PROVE Goal
  <2>1. \/ Happens("user") \/ Happens("crash") \/ Happens("stop")
        \/ Happens("hibernate") \/ Happens("stopFault") \/ Happens("launchFault")
        \/ used' = used
    BY <1>10 DEF Control, Activate, UserPrompt, UserAbort, Crash, Stop, NamingFails,
       Hibernate, StopDone, StopFails
  <2> QED BY <1>3, <1>4, <2>1 DEF OutsideEvent, Disturbance
<1>11. Goal
  BY <1>5, <1>6, <1>7, <1>8, <1>9, <1>10 DEF Next, Agent
<1> QED BY <1>11 DEF Goal

-----------------------------------------------------------------------------
(* What a step does to the deliveries as a whole                           *)

\* What a Session works on takes an answer: that of the run that ended, or none.
TakesAnswer(d) ==
  \E s \in Sessions :
    /\ d = running[s]
    /\ \/ delivery'[d].result = NoDelivery
       \/ /\ events[s] # <<>> /\ Head(events[s]).type = "settled"
          /\ ctx[s] \in {"ready", "running"} /\ runOpen[s]
          /\ delivery'[d].result = Head(events[s]).run

\* What is made and queued: nothing, a request of an agent, or a completion.
Makes ==
  \/ /\ Made' = Made /\ notify' \subseteq notify
     /\ \A u \in Sessions : Range(queue'[u]) \subseteq Range(queue[u])
  \/ \E n \in Deliveries \ Made : \E item :
       /\ Made' = Made \cup {n} /\ delivery'[n] = item /\ Request(item)
       /\ item.since = life[item.source] /\ LookedAt(item)
       /\ item.stranded = (ctx'[item.target] = "stopping")
       /\ notify' \subseteq notify \cup {n} /\ life' = life
       /\ queue' = [queue EXCEPT ![item.target] = Append(@, n)] /\ item.target \in due'
  \/ \E n \in Deliveries \ Made, d \in notify :
       /\ Made' = Made \cup {n} /\ delivery'[n] = Completion(d)
       /\ notify' \subseteq notify /\ life' = life
       /\ queue' = [queue EXCEPT ![delivery[d].source] = Append(@, n)]
       /\ delivery[d].source \in due'

\* A Session starts another life: what it sent before reports to it no more.
Lives ==
  \/ life' = life
  \/ \E s \in Sessions :
       /\ life' = [life EXCEPT ![s] = @ + 1]
       /\ Made' = Made /\ \A d \in notify' : delivery[d].source # s

Evolves ==
  /\ \A d \in Made : /\ d \in Made' /\ SameRequest(delivery'[d], delivery[d])
                     /\ delivery'[d].result = delivery[d].result \/ TakesAnswer(d)
  /\ Makes /\ Lives

\* Only a delivery that is made enters a queue.
LEMMA QueuesShrink ==
  ASSUME IInv, NEW src \in Sessions, NEW t \in Sessions,
         Cancel(src, t) \/ Drain(t) \/ Interrupted(t)
  PROVE  \A u \in Sessions : Range(queue'[u]) \subseteq Range(queue[u])
<1>1. /\ queue \in [Sessions -> Seq(Deliveries)]
      /\ \A u \in Sessions : IsInjective(queue[u])
  BY DEF IInv, Coord, Coordinated, Shape, QueuesAgree
<1>2. ASSUME NEW rest, queue' = [queue EXCEPT ![t] = rest],
             Range(rest) \subseteq Range(queue[t])
      PROVE  \A u \in Sessions : Range(queue'[u]) \subseteq Range(queue[u])
  <2>1. \A u \in Sessions : queue'[u] = IF u = t THEN rest ELSE queue[u]
    BY <1>1, <1>2
  <2> QED BY <1>2, <2>1
<1>3. CASE Cancel(src, t)
  <2>1. PICK chosen : queue' = [queue EXCEPT ![t] = Without(@, chosen)]
    BY <1>3 DEF Cancel
  <2> DEFINE rest == Without(queue[t], chosen)
  <2>2. Range(rest) = Range(queue[t]) \ chosen
    BY <1>1, WithoutQueue
  <2>3. queue' = [queue EXCEPT ![t] = rest]
    BY <2>1
  <2> HIDE DEF rest
  <2> QED BY <1>2, <2>2, <2>3
<1>4. CASE Drain(t)
  <2>1. queue[t] # <<>> /\ queue' = [queue EXCEPT ![t] = Tail(queue[t])]
    BY <1>4 DEF Drain, CanDrain
  <2>2. Range(Tail(queue[t])) = Range(queue[t]) \ {Head(queue[t])}
    BY <1>1, <2>1, TailQueue
  <2> QED BY <1>2, <2>1, <2>2
<1>5. CASE Interrupted(t)
  BY <1>2, <1>5, EmptyQueue DEF Interrupted
<1> QED BY <1>3, <1>4, <1>5

LEMMA StillEvolves == UNCHANGED <<delivery, notify, queue, life>> => Evolves
BY DEF Evolves, Makes, Lives, Made, SameRequest

LEMMA SubmitEvolves ==
  ASSUME IInv, NEW t \in Sessions, Submission(t), life' = life
  PROVE  Evolves
<1>1. PICK item : /\ Request(item) /\ Submit(item) /\ item.target = t
                  /\ item.since = life[item.source] /\ LookedAt(item)
                  /\ item.stranded = (ctx'[t] = "stopping")
  BY DEF Submission
<1>2. PICK n \in Deliveries \ Made :
        /\ Made' = Made \cup {n}
        /\ \A d \in Made : delivery'[d] = delivery[d]
        /\ delivery'[n] = item /\ notify' \subseteq notify \cup {n}
        /\ queue' = [queue EXCEPT ![item.target] = Append(@, n)] /\ item.target \in due'
  BY <1>1, SubmitDoes
<1>3. Makes
  BY <1>1, <1>2 DEF Makes
<1> QED BY <1>2, <1>3 DEF Evolves, Lives, SameRequest

LEMMA SettledEvolves ==
  ASSUME IInv, NEW s \in Sessions, NEW result \in Run \cup {NoDelivery},
         NEW outcome \in Final, Settled(s, result, outcome), life' = life,
         \/ result = NoDelivery
         \/ /\ events[s] # <<>> /\ Head(events[s]).type = "settled"
            /\ ctx[s] \in {"ready", "running"} /\ runOpen[s]
            /\ result = Head(events[s]).run
  PROVE  Evolves
<1>1. /\ notify' \subseteq notify
      /\ \A d \in Made :
           /\ d \in Made' /\ SameRequest(delivery'[d], delivery[d])
           /\ \/ delivery'[d] = delivery[d]
              \/ d = running[s] /\ delivery'[d].result = result
      /\ \/ Made' = Made /\ queue' = queue
         \/ \E n \in Deliveries \ Made, d \in notify :
              /\ Made' = Made \cup {n} /\ delivery'[n] = Completion(d)
              /\ queue' = [queue EXCEPT ![delivery[d].source] = Append(@, n)]
              /\ delivery[d].source \in due'
  BY SettledDoes
<1>2. Makes
  BY <1>1 DEF Makes
<1>3. \A d \in Made : delivery'[d].result = delivery[d].result \/ TakesAnswer(d)
  BY <1>1 DEF TakesAnswer
<1> QED BY <1>1, <1>2, <1>3 DEF Evolves, Lives

LEMMA FailDrainEvolves ==
  ASSUME IInv, NEW s \in Sessions, FailDrain(s), life' = life
  PROVE  Evolves
<1>1. NoDelivery \in Run \cup {NoDelivery} /\ "failed" \in Final
  BY DEF Final
<1>2. EndDrain(s) => UNCHANGED <<delivery, notify, queue, life>>
  BY DEF EndDrain
<1> QED BY <1>1, <1>2, FailDrainDoes, SettledEvolves, StillEvolves

LEMMA StepEvolves ==
  ASSUME IInv, [Next]_vars
  PROVE  Evolves \/ \E s \in Sessions : HandleAbortFailed(s)
<1>0. Shapes
  BY IInvShapes
<1>1. ASSUME NEW src \in Sessions, NEW t \in Sessions, Send(src, t) PROVE Evolves
  <2>1. life' = life
    BY <1>1 DEF Send
  <2> QED BY <1>1, <2>1, Submissions, SubmitEvolves
<1>2. ASSUME NEW src \in Sessions, NEW t \in Sessions, Spawn(src, t) PROVE Evolves
  BY <1>2, StillEvolves DEF Spawn, coordinatorVars
<1>3. ASSUME NEW src \in Sessions, NEW t \in Sessions, Cancel(src, t) PROVE Evolves
  <2>1. life' = life
    BY <1>3 DEF Cancel
  <2> QED BY <1>3, <2>1, CancelDoes, QueuesShrink DEF Evolves, Makes, Lives
<1>4. CASE BeginStopAll \/ EndStopAll \/ UNCHANGED vars
  BY <1>4, StillEvolves DEF BeginStopAll, EndStopAll, vars, coordinatorVars
<1>5. ASSUME NEW s \in Sessions, Continue(s) PROVE Evolves
  <2>1. CASE Drain(s)
    <3>1. UNCHANGED <<notify, life>>
      BY <2>1 DEF Drain
    <3>2. Made' = Made /\ \A d \in Made : /\ SameRequest(delivery'[d], delivery[d])
                                          /\ delivery'[d].result = delivery[d].result
      BY <2>1, DrainDoes
    <3>3. \A u \in Sessions : Range(queue'[u]) \subseteq Range(queue[u])
      BY <2>1, QueuesShrink
    <3> QED BY <3>1, <3>2, <3>3 DEF Evolves, Makes, Lives
  <2>2. CASE DrainNothing(s) \/ LaunchDone(s) \/ SpawnFails(s)
    BY <2>2, StillEvolves DEF DrainNothing, LaunchDone, SpawnFails, coordinatorVars
  <2>3. CASE LaunchFails(s)
    BY <2>3, FailDrainEvolves DEF LaunchFails
  <2>4. CASE SpawnDone(s) \/ SpawnNamed(s)
    <3>1. life' = life
      BY <2>4 DEF SpawnDone, SpawnNamed
    <3> QED BY <2>4, <3>1, Submissions, SubmitEvolves, StillEvolves DEF coordinatorVars
  <2> QED BY <1>5, <2>1, <2>2, <2>3, <2>4 DEF Continue
<1>6. ASSUME NEW s \in Sessions, Pi(s) \/ PiStartsOwnRun(s) PROVE Evolves
  BY <1>6, StillEvolves DEF Pi, PiTakesPrompt, PiTakesAbort, PiSettles, PiStartsOwnRun,
     coordinatorVars
<1>7. ASSUME NEW s \in Sessions, HandleStart(s) \/ HandleAccepted(s) PROVE Evolves
  BY <1>7, StillEvolves DEF HandleStart, HandleAccepted, EndDrain, coordinatorVars
<1>8. ASSUME NEW s \in Sessions, HandleSettled(s) PROVE Evolves
  <2> DEFINE e == Head(events[s])
  <2>1. /\ life' = life /\ events[s] # <<>> /\ e.type = "settled"
        /\ \/ /\ ctx[s] \in {"ready", "running"} /\ runOpen[s]
              /\ Settled(s, e.run, e.outcome)
           \/ UNCHANGED <<delivery, notify, queue, life>>
    BY <1>8 DEF HandleSettled, Receives, Listening, coordinatorVars
  <2>2. e \in Event
    BY <1>0, <2>1, HeadTailProperties DEF Shapes
  <2>3. e.run \in Run \cup {NoDelivery} /\ e.outcome \in Final
    BY <2>2 DEF Event, Final
  <2> QED BY <2>1, <2>3, SettledEvolves, StillEvolves
<1>9. ASSUME NEW s \in Sessions, HandleRejected(s) PROVE Evolves
  BY <1>9, FailDrainEvolves, StillEvolves DEF HandleRejected, coordinatorVars
<1>10. ASSUME NEW s \in Sessions, Interrupted(s) PROVE Evolves
  <2>1. \A u \in Sessions : Range(queue'[u]) \subseteq Range(queue[u])
    BY <1>10, QueuesShrink
  <2> QED BY <1>10, <2>1, InterruptedDoes DEF Evolves, Makes, Lives
<1>11. ASSUME NEW s \in Sessions, Control(s) PROVE Evolves
  <2>1. Interrupted(s) \/ UNCHANGED <<delivery, notify, queue, life>>
    BY <1>11 DEF Control, Activate, UserPrompt, UserAbort, Crash, Stop, NamingFails,
       Hibernate, StopDone, StopFails, coordinatorVars
  <2> QED BY <1>10, <2>1, StillEvolves
<1> QED BY <1>1, <1>2, <1>3, <1>4, <1>5, <1>6, <1>7, <1>8, <1>9, <1>11
        DEF Next, Agent, Handle

-----------------------------------------------------------------------------
(* What holds until Pi starts a run of its own                             *)

LEMMA InitResults == Init => ResultIsOwn
BY DEF Init, ResultIsOwn, Made, Unmade

LEMMA StepResults ==
  ASSUME IInv, Lines, ResultIsOwn, [Next]_vars
  PROVE  ResultIsOwn'
<1>1. CASE Evolves
  <2> SUFFICES ASSUME NEW d \in Made' PROVE delivery'[d].result \in {NoDelivery, d}
    BY DEF ResultIsOwn
  <2>1. CASE d \in Made
    <3>1. CASE TakesAnswer(d)
      <4> SUFFICES ASSUME NEW s \in Sessions, d = running[s], events[s] # <<>>,
                          Head(events[s]).type = "settled",
                          ctx[s] \in {"ready", "running"}, runOpen[s],
                          delivery'[d].result = Head(events[s]).run
                   PROVE  delivery'[d].result = d
        BY <3>1 DEF TakesAnswer
      <4>1. LineOf(s) /\ events[s] \in Seq(Event)
        BY IInvShapes DEF Lines, Shapes
      <4>2. 1 \in EndsIn(events[s]) /\ Head(events[s]) = events[s][1]
        BY <4>1, TailIn DEF EndsIn
      <4>3. ctx[s] = "running"
        BY <4>1, <4>2 DEF LineOf, Line, Busy
      <4>4. Mine(events[s][1].run, runOpen[s], running[s])
        BY <4>1, <4>2, <4>3 DEF LineOf, Line, TurnIsMine
      <4> QED BY <4>2, <4>4 DEF Mine
    <3>2. CASE delivery'[d].result = delivery[d].result
      BY <2>1, <3>2 DEF ResultIsOwn
    <3> QED BY <1>1, <2>1, <3>1, <3>2 DEF Evolves
  <2>2. CASE d \notin Made
    <3>1. \A x : Completion(x).result = NoDelivery
      BY DEF Completion
    <3>2. Request(delivery'[d]) \/ \E x : delivery'[d] = Completion(x)
      BY <1>1, <2>2 DEF Evolves, Makes
    <3> QED BY <3>1, <3>2 DEF Request
  <2> QED BY <2>1, <2>2
<1>2. ASSUME NEW s \in Sessions, HandleAbortFailed(s) PROVE ResultIsOwn'
  BY <1>2, AbortFailedDoes DEF ResultIsOwn
<1> QED BY <1>1, <1>2, StepEvolves

LEMMA LinesMeanTurns == Lines => BusyGetsNoPrompt
<1> SUFFICES ASSUME Lines, NEW s \in Sessions
             PROVE  Cardinality(Prompts(s)) + (IF pi[s] = NoDelivery THEN 0 ELSE 1) <= 1
  BY DEF BusyGetsNoPrompt
<1>1. /\ \A i, j \in Prompts(s) : i = j
      /\ Prompts(s) # {} => pi[s] = NoDelivery
  BY DEF Lines, LineOf, Line, OneTurn, PromptsIn, Prompts
<1>2. CASE Prompts(s) = {}
  BY <1>2, FS_EmptySet
<1>3. CASE Prompts(s) # {}
  <2>1. PICK i : Prompts(s) = {i}
    BY <1>1, <1>3
  <2>2. Cardinality({i}) = 1
    BY FS_Singleton
  <2> QED BY <1>1, <1>3, <2>1, <2>2
<1> QED BY <1>2, <1>3

LEMMA LinesMeanAborts == IInv /\ Lines /\ Flights => AbortHitsItsRun
<1> SUFFICES ASSUME IInv, Lines, Flights, NEW s \in Sessions,
                    commands[s] # <<>>, Head(commands[s]).type = "abort",
                    Head(commands[s]).run # NoDelivery, pi[s] # NoDelivery
             PROVE  /\ pi[s] = Head(commands[s]).run
                    /\ delivery[pi[s]].status = "cancelled"
  BY DEF AbortHitsItsRun
<1>1. commands[s] \in Seq(Command)
  BY IInvShapes DEF Shapes
<1>2. 1 \in AbortsIn(commands[s]) /\ Head(commands[s]) = commands[s][1]
  BY <1>1, TailIn DEF AbortsIn
<1>3. commands[s][1].run = pi[s]
  BY <1>2 DEF Lines, LineOf, Line, AbortsFollow
<1>4. commands[s][1].run \in Revoked(s)
  BY <1>2 DEF Flights, Flight
<1> QED BY <1>2, <1>3, <1>4 DEF Revoked

OwnTurns == NoOwn => Lines /\ ResultIsOwn

\* Until Pi starts a run of its own, the coordinator's books follow Pi: a prompt is
\* on its way to an idle Pi only, the answers of a turn come behind its start, and
\* an abort follows the run it was meant for (session-collaboration.ts, cancel and drain;
\* native-agent-extension.ts, abortTask).
THEOREM TurnsHold == Spec => [](IInv /\ Stages /\ Flights /\ OwnTurns)
<1> DEFINE Whole == IInv /\ Stages /\ Flights /\ OwnTurns
<1>1. Init => Whole
  BY InitHolds, InitStages, InitFlights, InitLines, InitResults DEF OwnTurns
<1>2. Whole /\ [Next]_vars => Whole'
  <2> SUFFICES ASSUME Whole, [Next]_vars PROVE Whole'
    OBVIOUS
  <2>1. IInv' /\ Stages' /\ Flights'
    BY StepHolds, StepStages, StepFlights
  <2>2. ASSUME NoOwn' PROVE Lines' /\ ResultIsOwn'
    <3>1. "own" \in OutsideEvent
      BY DEF OutsideEvent, Disturbance
    <3>2. NoOwn
      BY <2>2, <3>1, UsedGrows DEF NoOwn
    <3>3. Lines /\ ResultIsOwn
      BY <3>2 DEF OwnTurns
    <3> QED BY <2>2, <3>3, StepLines, StepResults
  <2> QED BY <2>1, <2>2 DEF OwnTurns
<1> QED BY <1>1, <1>2, PTL DEF Spec

\* The answer kept for a delivery is the answer of its own run, never that of
\* another turn that ended in the target while the delivery was marked running,
\* as long as Pi has started no run of its own.
THEOREM AnswersItsRun == Spec => [](NoOwn => ResultIsOwn)
<1>1. OwnTurns => (NoOwn => ResultIsOwn)
  BY DEF OwnTurns
<1> QED BY <1>1, TurnsHold, PTL

\* Neither collaboration nor the user sends a prompt to a Pi that has another on its
\* way or in work, until Pi starts a run of its own: drain and requireRuntime go by
\* the status of the context, which is running from before a prompt is sent until the
\* end of its run has been read.
THEOREM PromptsWhenFree == Spec => [](NoOwn => BusyGetsNoPrompt)
<1>1. OwnTurns => (NoOwn => BusyGetsNoPrompt)
  BY LinesMeanTurns DEF OwnTurns
<1> QED BY <1>1, TurnsHold, PTL

\* An abort that cancel sent never hits another run than the one it cancels, though
\* Pi reads it later than it was sent, until Pi starts a run of its own.
THEOREM AbortsItsRun == Spec => [](NoOwn => AbortHitsItsRun)
<1>1. IInv /\ Flights /\ OwnTurns => (NoOwn => AbortHitsItsRun)
  BY LinesMeanAborts DEF OwnTurns
<1> QED BY <1>1, TurnsHold, PTL

-----------------------------------------------------------------------------
(* Channels that carry no more than some commands and events               *)

PromptOf(r) == [type |-> "prompt", run |-> r, told |-> FALSE]
AbortOf(r, told) == [type |-> "abort", run |-> r, told |-> told]

\* Whatever a step sends to Pi is among C, and whatever Pi sends is among F.
Admits(C, F) ==
  /\ \A r \in Deliveries : PromptOf(r) \in C
  /\ (\E s \in Sessions : UserPrompt(s)) => PromptOf(OwnRun) \in C
  /\ \A r \in Run \cup {NoDelivery}, told \in BOOLEAN : AbortOf(r, told) \in C
  /\ \A r \in Run \cup {NoDelivery} :
       /\ Started(r) \in F /\ Accepted(r) \in F
       /\ \A outcome \in {"completed", "cancelled"} : Ended(r, outcome) \in F
       /\ Happens("abortFault") => \A told \in BOOLEAN : AbortFailed(r, told) \in F
  /\ \A s \in Sessions :
       PiTakesPrompt(s) /\ (pi[s] # NoDelivery \/ Happens("reject"))
         => Rejected(Head(commands[s]).run) \in F

LEMMA SentStay ==
  ASSUME NEW C, commands \in [Sessions -> Seq(C)], NEW s \in Sessions, NEW c \in C,
         commands' = [commands EXCEPT ![s] = Append(@, c)]
  PROVE  commands' \in [Sessions -> Seq(C)]
<1>1. Append(commands[s], c) \in Seq(C)
  BY AppendProperties
<1> QED BY <1>1

LEMMA CommandsStay ==
  ASSUME IInv, Stages, [Next]_vars, NEW C, NEW F, Admits(C, F),
         commands \in [Sessions -> Seq(C)]
  PROVE  commands' \in [Sessions -> Seq(C)]
<1> DEFINE Stay == commands' \in [Sessions -> Seq(C)]
<1>0. Shapes
  BY IInvShapes
<1>1. ASSUME NEW s \in Sessions, NEW r \in Deliveries, HandOver(s, r) PROVE Stay
  <2>1. PromptOf(r) \in C /\ commands' = [commands EXCEPT ![s] = Append(@, PromptOf(r))]
    BY <1>1 DEF Admits, HandOver, PromptOf
  <2> QED BY <2>1, SentStay
<1>2. ASSUME NEW s \in Sessions, commands[s] # <<>>,
             commands' = [commands EXCEPT ![s] = Tail(@)]
      PROVE  Stay
  <2>1. Tail(commands[s]) \in Seq(C)
    BY <1>2, HeadTailProperties
  <2> QED BY <1>2, <2>1
<1>3. ASSUME NEW s \in Sessions, Gone(s) PROVE Stay
  <2>1. <<>> \in Seq(C)
    OBVIOUS
  <2> QED BY <1>3, <2>1 DEF Gone
<1>4. ASSUME NEW src \in Sessions, NEW t \in Sessions,
             Send(src, t) \/ Spawn(src, t) \/ Cancel(src, t)
      PROVE  Stay
  <2>1. CASE Cancel(src, t) /\ commands' # commands
    <3> DEFINE c == AbortOf(running[t], running[t] \in notify)
    <3>1. c \in C
      <4>1. (running[t] \in notify) \in BOOLEAN /\ running[t] \in Run \cup {NoDelivery}
        BY <1>0 DEF Shapes, Run
      <4> QED BY <4>1 DEF Admits
    <3>2. commands' = [commands EXCEPT ![t] = Append(@, c)]
      BY <2>1, CancelDoes DEF AbortOf
    <3> QED BY <3>1, <3>2, SentStay
  <2> QED BY <1>4, <2>1 DEF Send, Spawn, piVars
<1>5. CASE BeginStopAll \/ EndStopAll \/ UNCHANGED vars
  BY <1>5 DEF BeginStopAll, EndStopAll, vars, piVars
<1>6. ASSUME NEW s \in Sessions, Continue(s) PROVE Stay
  <2>1. CASE Drain(s)
    <3>1. commands' = commands \/ HandOver(s, Head(queue[s]))
      BY <2>1 DEF Drain
    <3>2. Head(queue[s]) \in Deliveries
      BY <2>1, DrainDoes DEF Made
    <3> QED BY <1>1, <3>1, <3>2
  <2>2. CASE LaunchDone(s)
    <3>1. HandOver(s, draining[s]) /\ ctx[s] = "launching"
      BY <2>2 DEF LaunchDone
    <3>2. draining[s] \in Deliveries
      BY <1>0, <3>1 DEF Stages, Stage, Shapes
    <3> QED BY <1>1, <3>1, <3>2
  <2> QED BY <1>6, <2>1, <2>2
          DEF Continue, DrainNothing, LaunchFails, SpawnDone, SpawnFails, SpawnNamed, piVars
<1>7. ASSUME NEW s \in Sessions, Pi(s) \/ PiStartsOwnRun(s) PROVE Stay
  BY <1>2, <1>7 DEF Pi, PiTakesPrompt, PiTakesAbort, Takes, PiSettles, PiStartsOwnRun
<1>8. ASSUME NEW s \in Sessions, Handle(s) PROVE Stay
  BY <1>8 DEF Handle, HandleStart, HandleSettled, HandleAccepted, HandleRejected,
     HandleAbortFailed
<1>9. ASSUME NEW s \in Sessions, Control(s) PROVE Stay
  <2>1. CASE UserPrompt(s)
    <3>1. PromptOf(OwnRun) \in C /\ commands' = [commands EXCEPT ![s] = Append(@, PromptOf(OwnRun))]
      BY <2>1 DEF Admits, UserPrompt, PromptOf
    <3> QED BY <3>1, SentStay
  <2>2. CASE UserAbort(s)
    <3>1. NoDelivery \in Run \cup {NoDelivery} /\ FALSE \in BOOLEAN
      OBVIOUS
    <3>2. AbortOf(NoDelivery, FALSE) \in C
      BY <3>1 DEF Admits
    <3>3. commands' = [commands EXCEPT ![s] = Append(@, AbortOf(NoDelivery, FALSE))]
      BY <2>2 DEF UserAbort, AbortOf
    <3> QED BY <3>2, <3>3, SentStay
  <2> QED BY <1>3, <1>9, <2>1, <2>2
          DEF Control, Activate, Crash, Stop, NamingFails, Hibernate, StopDone,
              StopFails, piVars
<1>10. Stay
  BY <1>4, <1>5, <1>6, <1>7, <1>8, <1>9 DEF Next, Agent
<1> QED BY <1>10

LEMMA EventsStay ==
  ASSUME IInv, [Next]_vars, NEW C, NEW F, Admits(C, F),
         events \in [Sessions -> Seq(F)]
  PROVE  events' \in [Sessions -> Seq(F)]
<1> DEFINE Stay == events' \in [Sessions -> Seq(F)]
<1>0. Shapes
  BY IInvShapes
<1>1. ASSUME NEW s \in Sessions, NEW messages \in Seq(F), Emits(s, messages) PROVE Stay
  <2>1. events[s] \o messages \in Seq(F)
    BY ConcatProperties
  <2> QED BY <1>1, <2>1 DEF Emits
<1>2. ASSUME NEW s \in Sessions, NEW type, Receives(s, type) PROVE Stay
  <2>1. events[s] # <<>> /\ Tail(events[s]) \in Seq(F)
    BY <1>2, HeadTailProperties DEF Receives
  <2> QED BY <1>2, <2>1 DEF Receives
<1>3. ASSUME NEW s \in Sessions, Gone(s) PROVE Stay
  <2>1. <<>> \in Seq(F)
    OBVIOUS
  <2> QED BY <1>3, <2>1 DEF Gone
<1>4. ASSUME NEW s \in Sessions, PiTakesPrompt(s) PROVE Stay
  <2> DEFINE r == Head(commands[s]).run
  <2>1. /\ commands[s] \in Seq(Command) /\ commands[s] # <<>>
        /\ \/ Emits(s, <<Started(r), Accepted(r)>>)
           \/ Emits(s, <<Rejected(r)>>) /\ (pi[s] # NoDelivery \/ Happens("reject"))
    BY <1>0, <1>4 DEF PiTakesPrompt, Takes, Shapes
  <2>2. Head(commands[s]) \in Command
    BY <2>1, HeadTailProperties
  <2>3. r \in Run \cup {NoDelivery}
    BY <2>2 DEF Command
  <2>4. pi[s] # NoDelivery \/ Happens("reject") => Rejected(r) \in F
    BY <1>4 DEF Admits
  <2> HIDE DEF r
  <2>5. <<Started(r), Accepted(r)>> \in Seq(F)
    BY <2>3 DEF Admits
  <2>6. Rejected(r) \in F => <<Rejected(r)>> \in Seq(F)
    OBVIOUS
  <2> QED BY <1>1, <2>1, <2>4, <2>5, <2>6
<1>5. ASSUME NEW s \in Sessions, PiTakesAbort(s) PROVE Stay
  <2> DEFINE c == Head(commands[s])
  <2>1. /\ commands[s] \in Seq(Command) /\ commands[s] # <<>>
        /\ \/ Emits(s, <<Ended(pi[s], "cancelled")>>)
           \/ events' = events
           \/ Emits(s, <<AbortFailed(c.run, c.told)>>) /\ Happens("abortFault")
        /\ pi[s] \in Run \cup {NoDelivery}
    BY <1>0, <1>5 DEF PiTakesAbort, Takes, Shapes
  <2>2. c \in Command
    BY <2>1, HeadTailProperties
  <2>3. c.run \in Run \cup {NoDelivery} /\ c.told \in BOOLEAN
    BY <2>2 DEF Command
  <2> HIDE DEF c
  <2>4. Ended(pi[s], "cancelled") \in F
    BY <2>1 DEF Admits
  <2>5. Happens("abortFault") => AbortFailed(c.run, c.told) \in F
    BY <2>3 DEF Admits
  <2>6. \A x \in F : <<x>> \in Seq(F)
    OBVIOUS
  <2> QED BY <1>1, <2>1, <2>4, <2>5, <2>6
<1>6. ASSUME NEW s \in Sessions, PiSettles(s) \/ PiStartsOwnRun(s) PROVE Stay
  <2>1. pi[s] \in Run \cup {NoDelivery} /\ OwnRun \in Run \cup {NoDelivery}
    BY <1>0 DEF Shapes, Run
  <2>2. Ended(pi[s], "completed") \in F /\ Started(OwnRun) \in F
    BY <2>1 DEF Admits
  <2>3. <<Ended(pi[s], "completed")>> \in Seq(F) /\ <<Started(OwnRun)>> \in Seq(F)
    BY <2>2
  <2> QED BY <1>1, <1>6, <2>3 DEF PiSettles, PiStartsOwnRun
<1>7. ASSUME NEW src \in Sessions, NEW t \in Sessions,
             Send(src, t) \/ Spawn(src, t) \/ Cancel(src, t)
      PROVE  Stay
  BY <1>7 DEF Send, Spawn, Cancel, piVars
<1>8. CASE BeginStopAll \/ EndStopAll \/ UNCHANGED vars
  BY <1>8 DEF BeginStopAll, EndStopAll, vars, piVars
<1>9. ASSUME NEW s \in Sessions, Continue(s) PROVE Stay
  BY <1>9 DEF Continue, Drain, DrainNothing, LaunchDone, LaunchFails, SpawnDone,
     SpawnFails, SpawnNamed, piVars
<1>10. ASSUME NEW s \in Sessions, Handle(s) PROVE Stay
  BY <1>2, <1>10 DEF Handle, HandleStart, HandleSettled, HandleAccepted, HandleRejected,
     HandleAbortFailed
<1>11. ASSUME NEW s \in Sessions, Control(s) PROVE Stay
  BY <1>3, <1>11 DEF Control, Activate, UserPrompt, UserAbort, Crash, Stop, NamingFails,
     Hibernate, StopDone, StopFails, piVars
<1>12. Stay
  BY <1>4, <1>5, <1>6, <1>7, <1>8, <1>9, <1>10, <1>11 DEF Next, Agent, Pi
<1> QED BY <1>12

-----------------------------------------------------------------------------
(* What holds until an abort fails                                         *)

\* No abort that cancel sent has failed.
NoAbortFault == used["abortFault"] = 0

CalmEvent == {e \in Event : e.type # "abortFailed"}

\* Whoever is still to be told is in the life in which its request was recorded.
Loyal == \A d \in notify : delivery[d].since = life[delivery[d].source]

Calm == events \in [Sessions -> Seq(CalmEvent)] /\ Loyal /\ StoppedSenderIsLeftAlone

LEMMA InitCalm == Init => Calm
BY DEF Init, Calm, Loyal, StoppedSenderIsLeftAlone, Made, Unmade

\* Events that no fault has touched stay so.
LEMMA FaultNeedsEvent ==
  ASSUME IInv, NEW k \in OutsideEvent, used'[k] = 0
  PROVE  ~Happens(k)
<1>1. used \in [OutsideEvent -> Nat]
  BY IInvShapes DEF Shapes
<1> QED BY <1>1 DEF Happens

LEMMA NoAbortFails ==
  ASSUME events \in [Sessions -> Seq(CalmEvent)], NEW s \in Sessions
  PROVE  ~HandleAbortFailed(s)
<1> SUFFICES ASSUME HandleAbortFailed(s) PROVE FALSE
  OBVIOUS
<1>1. events[s] # <<>> /\ Head(events[s]).type = "abortFailed"
  BY DEF HandleAbortFailed, Receives
<1>2. Head(events[s]) \in CalmEvent
  BY <1>1, HeadTailProperties
<1> QED BY <1>1, <1>2 DEF CalmEvent

LEMMA CalmAdmits ==
  ASSUME IInv, [Next]_vars, NoAbortFault'
  PROVE  Admits(Command, CalmEvent)
<1>1. ~Happens("abortFault")
  BY FaultNeedsEvent DEF NoAbortFault, OutsideEvent, Disturbance
<1>2. \A r \in Run : PromptOf(r) \in Command
  BY DEF PromptOf, Command
<1>3. \A r \in Run \cup {NoDelivery}, told \in BOOLEAN : AbortOf(r, told) \in Command
  BY DEF AbortOf, Command
<1>4. ASSUME NEW r \in Run \cup {NoDelivery}
      PROVE  /\ Started(r) \in CalmEvent /\ Accepted(r) \in CalmEvent
             /\ Rejected(r) \in CalmEvent
             /\ \A outcome \in {"completed", "cancelled"} : Ended(r, outcome) \in CalmEvent
  BY EventIsEvent DEF CalmEvent
<1>5. ASSUME NEW s \in Sessions, PiTakesPrompt(s)
      PROVE  Head(commands[s]).run \in Run \cup {NoDelivery}
  <2>1. commands[s] \in Seq(Command) /\ commands[s] # <<>>
    BY <1>5, IInvShapes DEF PiTakesPrompt, Takes, Shapes
  <2>2. Head(commands[s]) \in Command
    BY <2>1, HeadTailProperties
  <2> QED BY <2>2 DEF Command
<1> QED BY <1>1, <1>2, <1>3, <1>4, <1>5 DEF Admits, Run

LEMMA StepCalm ==
  ASSUME IInv, Stages, Calm, [Next]_vars, NoAbortFault'
  PROVE  Calm'
<1>1. events' \in [Sessions -> Seq(CalmEvent)]
  BY CalmAdmits, EventsStay DEF Calm
<1>2. Evolves
  BY StepEvolves, NoAbortFails DEF Calm
<1>3. notify \subseteq Made
  BY NotifyIsMade
<1>4. \A d \in Made : /\ d \in Made' /\ SameRequest(delivery'[d], delivery[d])
                      /\ delivery[d].source \in Sessions
  BY <1>2, MadeRecord DEF Evolves
<1>5. life \in [Sessions -> Nat]
  BY IInvShapes DEF Shapes
<1>6. Loyal'
  <2> SUFFICES ASSUME NEW d \in notify' PROVE delivery'[d].since = life'[delivery'[d].source]
    BY DEF Loyal
  <2>1. CASE d \in notify
    <3>1. /\ delivery'[d].since = delivery[d].since
          /\ delivery'[d].source = delivery[d].source
          /\ delivery[d].since = life[delivery[d].source]
          /\ delivery[d].source \in Sessions
      BY <1>3, <1>4, <2>1 DEF SameRequest, Calm, Loyal
    <3> QED BY <1>2, <1>5, <3>1 DEF Evolves, Lives
  <2>2. CASE d \notin notify
    <3> QED BY <1>2, <2>2 DEF Evolves, Makes
  <2> QED BY <2>1, <2>2
<1>7. StoppedSenderIsLeftAlone'
  <2> SUFFICES ASSUME NEW c \in Made', delivery'[c].kind = "completion"
               PROVE  LET d == delivery'[c].about IN
                      \/ delivery'[c].life = delivery'[d].life
                      \/ /\ delivery'[d].since # delivery'[d].life
                         /\ delivery'[c].life = delivery'[d].since
    BY DEF StoppedSenderIsLeftAlone, Overlooked
  <2>1. CASE c \in Made
    <3> DEFINE d == delivery[c].about
    <3>1. /\ delivery[c].kind = "completion" /\ delivery'[c].life = delivery[c].life
          /\ delivery'[c].about = d
      BY <1>4, <2>1 DEF SameRequest
    <3>2. d \in Made
      BY <2>1, <3>1, IInvImplies DEF ReportedOnce
    <3>3. delivery'[d].life = delivery[d].life /\ delivery'[d].since = delivery[d].since
      BY <1>4, <3>2 DEF SameRequest
    <3>4. \/ delivery[c].life = delivery[d].life
          \/ delivery[d].since # delivery[d].life /\ delivery[c].life = delivery[d].since
      BY <2>1, <3>1 DEF Calm, StoppedSenderIsLeftAlone, Overlooked
    <3> QED BY <3>1, <3>3, <3>4
  <2>2. CASE c \notin Made
    <3>1. PICK d \in notify : delivery'[c] = Completion(d)
      BY <1>2, <2>2 DEF Evolves, Makes, Request
    <3>2. delivery'[c].about = d /\ delivery'[c].life = life[delivery[d].source]
      BY <3>1 DEF Completion
    <3>3. /\ delivery'[d].life = delivery[d].life /\ delivery'[d].since = delivery[d].since
          /\ delivery[d].since = life[delivery[d].source]
      BY <1>3, <1>4 DEF SameRequest, Calm, Loyal
    <3> QED BY <3>2, <3>3
  <2> QED BY <2>1, <2>2
<1> QED BY <1>1, <1>6, <1>7 DEF Calm

\* Until an abort fails, nothing on its way to the coordinator can put back a
\* notification: the channels carry no failed abort, and no Session is to be told of
\* a delivery if it was stopped after the coordinator recorded it
\* (session-collaboration.ts, interrupted, and the catch in cancel).  A stop before
\* the recording, while a spawn of that Session awaits a title or a model, takes
\* nothing out of notify and is not claimed here.
THEOREM CalmHolds == Spec => [](IInv /\ Stages /\ (NoAbortFault => Calm))
<1> DEFINE Whole == IInv /\ Stages /\ (NoAbortFault => Calm)
<1>1. Init => Whole
  BY InitHolds, InitStages, InitCalm
<1>2. Whole /\ [Next]_vars => Whole'
  <2> SUFFICES ASSUME Whole, [Next]_vars PROVE Whole'
    OBVIOUS
  <2>1. IInv' /\ Stages'
    BY StepHolds, StepStages
  <2>2. ASSUME NoAbortFault' PROVE Calm'
    <3>1. NoAbortFault
      BY <2>2, UsedGrows DEF NoAbortFault, OutsideEvent, Disturbance
    <3> QED BY <2>2, <3>1, StepCalm
  <2> QED BY <2>1, <2>2
<1> QED BY <1>1, <1>2, PTL DEF Spec

\* A Session whose context was stopped gets no completion of what the coordinator
\* had recorded for it before, so none of that starts it again, until an abort
\* fails.  The hole that the property names stays: a spawn that awaits a title or a
\* model records its task after its last look at the owner, and the completion of
\* that task may start an owner that was stopped in between.
THEOREM StoppedStayStopped == Spec => [](NoAbortFault => StoppedSenderIsLeftAlone)
<1>1. (NoAbortFault => Calm) => (NoAbortFault => StoppedSenderIsLeftAlone)
  BY DEF Calm
<1> QED BY <1>1, CalmHolds, PTL

-----------------------------------------------------------------------------
(* Who looks for its next delivery                                         *)

\* No abort fails, nobody hibernates, nothing stops everything, and either the
\* user asks for nothing or Pi runs and refuses nothing of its own accord.
Undisturbed ==
  /\ NoAbortFault /\ used["hibernate"] = 0 /\ used["stopAll"] = 0
  /\ used["user"] = 0 \/ (NoOwn /\ used["reject"] = 0)

\* No failed abort, and no refusal of a prompt of the user.
PlainEvent == {e \in CalmEvent : e.type = "rejected" => e.run # OwnRun}
PlainCommand == {c \in Command : c.type = "prompt" => c.run # OwnRun}
Plain ==
  /\ events \in [Sessions -> Seq(PlainEvent)]
  /\ used["user"] = 0 => commands \in [Sessions -> Seq(PlainCommand)]

\* What waits for a Session that is stopping is the task of a spawn that awaited a
\* title or a model, or the completion of such a task, recorded since the stop began;
\* and it is to be told of no other.
Settling ==
  \A s \in Sessions : ctx[s] = "stopping" =>
    Stranded(s) /\ \A d \in notify : delivery[d].source = s => Overlooked(d)

\* The life that a spawn under way has seen is over once its source is stopping.
Dated ==
  \A t \in Sessions : naming[t] # Nobody =>
    /\ naming[t].life <= life[naming[t].source]
    /\ ctx[naming[t].source] = "stopping" => naming[t].life < life[naming[t].source]

Awake == Plain /\ Settling /\ Dated /\ ~stopAll /\ NoLostWakeup

\* A Session that could take a delivery if it had one.
Open(s) ==
  draining[s] = NoDelivery /\ running[s] = NoDelivery /\ ctx[s] \in {"none", "ready"}

\* One that becomes so is about to look, unless it stopped, was just spawned, or
\* a prompt of its user was refused.
Opens ==
  \A u \in Sessions : Open(u)' /\ u \notin due' =>
    \/ Open(u)
    \/ ctx[u] \in {"stopping", "spawning"}
    \/ HandleRejected(u) /\ Head(events[u]).run = OwnRun

LEMMA StillOpens == UNCHANGED <<draining, running, ctx>> => Opens
BY DEF Opens, Open

LEMMA FailDrainOpens ==
  ASSUME IInv, NEW s \in Sessions, FailDrain(s)
  PROVE  /\ s \in due' \/ running'[s] # NoDelivery
         /\ \A u \in Sessions : u # s => /\ draining'[u] = draining[u]
                                         /\ running'[u] = running[u]
<1>1. Shapes
  BY IInvShapes
<1>2. draining' = [draining EXCEPT ![s] = NoDelivery]
  BY FailDrainDoes DEF EndDrain
<1>3. CASE Settled(s, NoDelivery, "failed")
  <2>1. NoDelivery \in Run \cup {NoDelivery} /\ "failed" \in Final
    BY DEF Final
  <2>2. running' = [running EXCEPT ![s] = NoDelivery] /\ s \in due'
    BY <1>3, <2>1, SettledDoes
  <2> QED BY <1>1, <1>2, <2>2 DEF Shapes
<1>4. CASE EndDrain(s)
  BY <1>1, <1>2, <1>4 DEF EndDrain, Shapes
<1> QED BY <1>3, <1>4, FailDrainDoes

LEMMA StepOpens ==
  ASSUME IInv, Stages, [Next]_vars
  PROVE  Opens
<1>0. Shapes
  BY IInvShapes
<1>1. ASSUME NEW src \in Sessions, NEW t \in Sessions,
             Send(src, t) \/ Spawn(src, t) \/ Cancel(src, t)
      PROVE  Opens
  <2>1. CASE Send(src, t) \/ Cancel(src, t)
    <3>1. UNCHANGED <<draining, running>>
      BY <2>1, Submissions, SubmitDoes, CancelDoes DEF Submission
    <3>2. UNCHANGED ctx
      BY <2>1 DEF Send, Cancel, contextVars
    <3> QED BY <3>1, <3>2, StillOpens
  <2>2. CASE Spawn(src, t)
    BY <1>0, <2>2 DEF Spawn, Opens, Open, coordinatorVars, Shapes
  <2> QED BY <1>1, <2>1, <2>2
<1>2. CASE BeginStopAll \/ EndStopAll \/ UNCHANGED vars
  BY <1>2, StillOpens
     DEF BeginStopAll, EndStopAll, vars, coordinatorVars, contextVars
<1>3. ASSUME NEW s \in Sessions, Continue(s) PROVE Opens
  <2>1. CASE Drain(s)
    <3>1. PICK d \in Made : /\ running' = [running EXCEPT ![s] = d]
                            /\ draining' = [draining EXCEPT ![s] = d]
      BY <2>1, DrainDoes
    <3>2. d # NoDelivery /\ \A u \in Sessions : u # s => ctx'[u] = ctx[u]
      BY <1>0, <2>1 DEF Drain, HandOver, Shapes, Made, Deliveries, NoDelivery
    <3> QED BY <1>0, <3>1, <3>2 DEF Opens, Open, Shapes
  <2>2. CASE DrainNothing(s)
    BY <2>2, StillOpens DEF DrainNothing, contextVars
  <2>3. CASE LaunchDone(s)
    BY <1>0, <2>3 DEF LaunchDone, HandOver, Opens, Open, coordinatorVars, Shapes
  <2>4. CASE LaunchFails(s)
    <3>1. FailDrain(s) /\ ctx' = [ctx EXCEPT ![s] = "none"]
      BY <2>4 DEF LaunchFails
    <3> QED BY <1>0, <3>1, FailDrainOpens DEF Opens, Open, Shapes
  <2>5. CASE SpawnDone(s)
    <3>1. ctx' = [ctx EXCEPT ![s] = "ready"] /\ ctx[s] = "spawning"
      BY <2>5 DEF SpawnDone
    <3>2. UNCHANGED <<draining, running>>
      BY <2>5, Submissions, SubmitDoes DEF Submission, coordinatorVars
    <3> QED BY <1>0, <3>1, <3>2 DEF Opens, Open, Shapes
  <2>6. CASE SpawnFails(s)
    BY <1>0, <2>6 DEF SpawnFails, Opens, Open, coordinatorVars, Shapes
  <2>7. CASE SpawnNamed(s)
    <3>1. UNCHANGED <<draining, running>>
      BY <2>7, Submissions, SubmitDoes DEF Submission, coordinatorVars
    <3>2. UNCHANGED ctx
      BY <2>7 DEF SpawnNamed
    <3> QED BY <3>1, <3>2, StillOpens
  <2> QED BY <1>3, <2>1, <2>2, <2>3, <2>4, <2>5, <2>6, <2>7 DEF Continue
<1>4. ASSUME NEW s \in Sessions, Pi(s) \/ PiStartsOwnRun(s) PROVE Opens
  BY <1>4, StillOpens DEF Pi, PiTakesPrompt, PiTakesAbort, PiSettles, PiStartsOwnRun,
     coordinatorVars, contextVars
<1>5. ASSUME NEW s \in Sessions, Handle(s) PROVE Opens
  <2>1. CASE HandleStart(s)
    BY <1>0, <2>1 DEF HandleStart, Opens, Open, coordinatorVars, Shapes
  <2>2. CASE HandleSettled(s)
    <3> DEFINE e == Head(events[s])
    <3>1. CASE /\ ctx' = [ctx EXCEPT ![s] = "ready"]
               /\ Settled(s, e.run, e.outcome) /\ UNCHANGED draining
      <4>1. events[s] # <<>> /\ events[s] \in Seq(Event)
        BY <1>0, <2>2 DEF HandleSettled, Receives, Shapes
      <4>2. e \in Event
        BY <4>1, HeadTailProperties
      <4>3. e.run \in Run \cup {NoDelivery} /\ e.outcome \in Final
        BY <4>2 DEF Event, Final
      <4> HIDE DEF e
      <4>4. running' = [running EXCEPT ![s] = NoDelivery] /\ s \in due'
        BY <3>1, <4>3, SettledDoes
      <4> QED BY <1>0, <3>1, <4>4 DEF Opens, Open, Shapes
    <3>2. CASE /\ ctx' = [ctx EXCEPT ![s] = "ready"] /\ due' = Wake({s})
               /\ UNCHANGED <<running, draining>>
      BY <1>0, <3>2 DEF Opens, Open, Shapes, Wake
    <3>3. CASE UNCHANGED <<draining, running, ctx>>
      BY <3>3, StillOpens
    <3> QED BY <2>2, <3>1, <3>2, <3>3 DEF HandleSettled, coordinatorVars
  <2>3. CASE HandleAccepted(s)
    BY <1>0, <2>3 DEF HandleAccepted, EndDrain, Opens, Open, coordinatorVars,
       contextVars, Shapes
  <2>4. CASE HandleRejected(s)
    <3>1. ctx' = [ctx EXCEPT ![s] = "ready"] \/ ctx' = ctx
      BY <2>4 DEF HandleRejected
    <3>2. CASE FailDrain(s)
      BY <1>0, <3>1, <3>2, FailDrainOpens DEF Opens, Open, Shapes
    <3>3. CASE Head(events[s]).run = OwnRun /\ UNCHANGED <<draining, running>>
      BY <1>0, <2>4, <3>1, <3>3 DEF Opens, Open, Shapes
    <3> QED BY <2>4, <3>2, <3>3 DEF HandleRejected, coordinatorVars
  <2>5. CASE HandleAbortFailed(s)
    BY <2>5, AbortFailedDoes, StillOpens
  <2> QED BY <1>5, <2>1, <2>2, <2>3, <2>4, <2>5 DEF Handle
<1>6. ASSUME NEW s \in Sessions, Control(s) PROVE Opens
  <2>1. CASE Activate(s) \/ UserPrompt(s) \/ UserAbort(s) \/ Hibernate(s) \/ StopFails(s)
    BY <1>0, <2>1 DEF Activate, UserPrompt, UserAbort, Hibernate, StopFails, Opens, Open,
       coordinatorVars, contextVars, Shapes
  <2>2. CASE Crash(s) \/ Stop(s) \/ NamingFails(s)
    BY <1>0, <2>2 DEF Crash, Stop, NamingFails, Interrupted, DropDrain, Opens, Open, Shapes
  <2>3. CASE StopDone(s)
    BY <1>0, <2>3 DEF StopDone, DropDrain, Opens, Open, Shapes
  <2> QED BY <1>6, <2>1, <2>2, <2>3 DEF Control
<1> QED BY <1>1, <1>2, <1>3, <1>4, <1>5, <1>6 DEF Next, Agent

\* A scheduled drain stays scheduled until it is made.
LEMMA StepDue ==
  ASSUME IInv, [Next]_vars, NEW u \in due
  PROVE  u \in due' \/ Drain(u) \/ DrainNothing(u)
<1> DEFINE StillDue == due \subseteq due'
<1>0. u \in Sessions /\ Shapes
  BY IInvShapes DEF Shapes
<1>1. ASSUME NEW s \in Sessions, FailDrain(s) \/ EndDrain(s) \/ DropDrain(s) PROVE StillDue
  <2>1. NoDelivery \in Run \cup {NoDelivery} /\ "failed" \in Final
    BY DEF Final
  <2>2. EndDrain(s) \/ DropDrain(s) => StillDue
    BY DEF EndDrain, DropDrain
  <2> QED BY <1>1, <2>1, <2>2, FailDrainDoes, SettledDoes
<1>2. ASSUME NEW src \in Sessions, NEW t \in Sessions,
             Send(src, t) \/ Spawn(src, t) \/ Cancel(src, t)
      PROVE  StillDue
  <2>1. CASE Send(src, t)
    BY <2>1, Submissions, SubmitDoes DEF Submission
  <2>2. CASE Cancel(src, t)
    <3>1. due' = due
      BY <2>2 DEF Cancel
    <3> QED BY <3>1
  <2> QED BY <1>2, <2>1, <2>2 DEF Spawn, coordinatorVars
<1>3. CASE BeginStopAll \/ EndStopAll \/ UNCHANGED vars
  BY <1>3 DEF BeginStopAll, EndStopAll, vars, coordinatorVars
<1>4. ASSUME NEW s \in Sessions, Continue(s)
      PROVE  StillDue \/ ((Drain(s) \/ DrainNothing(s)) /\ due' = due \ {s})
  <2>1. CASE SpawnDone(s) \/ SpawnNamed(s)
    BY <2>1, Submissions, SubmitDoes DEF Submission, coordinatorVars
  <2>2. CASE LaunchFails(s)
    BY <1>1, <2>2 DEF LaunchFails
  <2> QED BY <1>4, <2>1, <2>2
          DEF Continue, Drain, DrainNothing, LaunchDone, SpawnFails, coordinatorVars
<1>5. ASSUME NEW s \in Sessions, Pi(s) \/ PiStartsOwnRun(s) PROVE StillDue
  BY <1>5 DEF Pi, PiTakesPrompt, PiTakesAbort, PiSettles, PiStartsOwnRun, coordinatorVars
<1>6. ASSUME NEW s \in Sessions, HandleSettled(s) PROVE StillDue
  <2> DEFINE e == Head(events[s])
  <2>1. events[s] # <<>> /\ events[s] \in Seq(Event)
    BY <1>0, <1>6 DEF HandleSettled, Receives, Shapes
  <2>2. e \in Event
    BY <2>1, HeadTailProperties
  <2>3. e.run \in Run \cup {NoDelivery} /\ e.outcome \in Final
    BY <2>2 DEF Event, Final
  <2>4. Settled(s, e.run, e.outcome) \/ due' = Wake({s}) \/ due' = due
    BY <1>6 DEF HandleSettled, coordinatorVars
  <2> HIDE DEF e
  <2> QED BY <2>3, <2>4, SettledDoes DEF Wake
<1>7. ASSUME NEW s \in Sessions, Handle(s) PROVE StillDue
  <2>1. HandleSettled(s) \/ FailDrain(s) \/ EndDrain(s) \/ due' = due
    BY <1>7 DEF Handle, HandleStart, HandleAccepted, HandleRejected, HandleAbortFailed,
       coordinatorVars
  <2> QED BY <1>1, <1>6, <2>1
<1>8. ASSUME NEW s \in Sessions, Control(s) PROVE StillDue
  <2>1. DropDrain(s) \/ due' = due
    BY <1>8 DEF Control, Activate, UserPrompt, UserAbort, Crash, Stop, NamingFails,
       Hibernate, StopDone, StopFails, coordinatorVars
  <2> QED BY <1>1, <2>1
<1>9. ASSUME NEW s \in Sessions, Continue(s)
      PROVE  u \in due' \/ Drain(u) \/ DrainNothing(u)
  BY <1>4, <1>9
<1> QED BY <1>2, <1>3, <1>5, <1>7, <1>8, <1>9 DEF Next, Agent

\* Only a stop, a spawn that fails, or hibernation makes a Session stop.
LEMMA StepStops ==
  ASSUME IInv, [Next]_vars, NEW u \in Sessions, ctx'[u] = "stopping"
  PROVE  ctx[u] = "stopping" \/ Interrupted(u) \/ Hibernate(u)
<1> DEFINE Goal == ctx[u] = "stopping" \/ Interrupted(u) \/ Hibernate(u)
<1>0. Shapes
  BY IInvShapes
<1>1. ctx' = ctx => Goal
  OBVIOUS
<1>2. ASSUME NEW s \in Sessions, NEW c, c # "stopping", ctx' = [ctx EXCEPT ![s] = c]
      PROVE  Goal
  BY <1>0, <1>2 DEF Shapes
<1>3. ASSUME NEW s \in Sessions, Crash(s) \/ Stop(s) \/ NamingFails(s) \/ Hibernate(s)
      PROVE  Goal
  BY <1>0, <1>3 DEF Crash, Stop, NamingFails, Hibernate, Shapes
<1> HIDE DEF Goal
<1>4. ASSUME NEW src \in Sessions, NEW t \in Sessions,
             Send(src, t) \/ Spawn(src, t) \/ Cancel(src, t)
      PROVE  Goal
  BY <1>1, <1>2, <1>4 DEF Send, Spawn, Cancel, contextVars
<1>5. ASSUME BeginStopAll \/ EndStopAll \/ UNCHANGED vars PROVE Goal
  BY <1>1, <1>5 DEF BeginStopAll, EndStopAll, vars, contextVars
<1>6. ASSUME NEW s \in Sessions, Continue(s) PROVE Goal
  BY <1>1, <1>2, <1>6 DEF Continue, Drain, DrainNothing, LaunchDone, LaunchFails,
     SpawnDone, SpawnFails, SpawnNamed, HandOver, contextVars
<1>7. ASSUME NEW s \in Sessions, Pi(s) \/ PiStartsOwnRun(s) PROVE Goal
  BY <1>1, <1>7 DEF Pi, PiTakesPrompt, PiTakesAbort, PiSettles, PiStartsOwnRun, contextVars
<1>8. ASSUME NEW s \in Sessions, Handle(s) PROVE Goal
  BY <1>1, <1>2, <1>8 DEF Handle, HandleStart, HandleSettled, HandleAccepted,
     HandleRejected, HandleAbortFailed, contextVars
<1>9. ASSUME NEW s \in Sessions, Control(s) PROVE Goal
  BY <1>1, <1>2, <1>3, <1>9 DEF Control, Activate, UserPrompt, UserAbort, StopDone,
     StopFails, contextVars
<1>10. Goal
  BY <1>4, <1>5, <1>6, <1>7, <1>8, <1>9 DEF Next, Agent
<1> QED BY <1>10 DEF Goal

\* What an entry of a queue becomes in a step that makes deliveries as it should.
LEMMA StepQueue ==
  ASSUME IInv, Evolves, NEW u \in Sessions, NEW d \in Range(queue'[u])
  PROVE  \/ d \in Range(queue[u]) /\ delivery'[d].stranded = delivery[d].stranded
         \/ /\ u \in due'
            /\ \/ ctx'[u] = "stopping" => delivery'[d].stranded
               \/ \E e \in notify :
                    /\ delivery[e].source = u
                    /\ Overlooked(e) /\ ctx[u] = "stopping" => delivery'[d].stranded
<1>1. /\ queue \in [Sessions -> Seq(Deliveries)]
      /\ \A s \in Sessions : IsInjective(queue[s]) /\ Range(queue[s]) \subseteq Made
  BY MadeIsMade DEF IInv, Coord, Coordinated, Shape, QueuesAgree
<1>2. \A e \in Made : delivery'[e].stranded = delivery[e].stranded
  BY DEF Evolves, SameRequest
<1>3. ASSUME d \in Range(queue[u])
      PROVE  d \in Range(queue[u]) /\ delivery'[d].stranded = delivery[d].stranded
  BY <1>1, <1>2, <1>3
<1>4. ASSUME NEW v \in Sessions, NEW n \in Deliveries \ Made,
             queue' = [queue EXCEPT ![v] = Append(@, n)], d \notin Range(queue[u])
      PROVE  d = n /\ u = v
  <2>1. queue'[u] = IF u = v THEN Append(queue[u], n) ELSE queue[u]
    BY <1>1, <1>4
  <2>2. Range(Append(queue[u], n)) = Range(queue[u]) \cup {n}
    BY <1>1, <1>4, AppendQueue
  <2> QED BY <1>4, <2>1, <2>2
<1>5. CASE Range(queue'[u]) \subseteq Range(queue[u])
  BY <1>3, <1>5
<1>6. ASSUME NEW n \in Deliveries \ Made, NEW item, Request(item), delivery'[n] = item,
             item.stranded = (ctx'[item.target] = "stopping"), item.target \in due',
             queue' = [queue EXCEPT ![item.target] = Append(@, n)],
             d \notin Range(queue[u])
      PROVE  u \in due' /\ delivery'[d].stranded = (ctx'[u] = "stopping")
  <2>1. item.target \in Sessions
    BY <1>6 DEF Request, Delivery
  <2>2. d = n /\ u = item.target
    BY <1>4, <1>6, <2>1
  <2> QED BY <1>6, <2>2
<1>7. ASSUME NEW n \in Deliveries \ Made, NEW e \in notify, delivery'[n] = Completion(e),
             queue' = [queue EXCEPT ![delivery[e].source] = Append(@, n)],
             delivery[e].source \in due', d \notin Range(queue[u])
      PROVE  /\ u \in due' /\ delivery[e].source = u
             /\ Overlooked(e) /\ ctx[u] = "stopping" => delivery'[d].stranded
  <2>1. delivery[e].source \in Sessions
    BY NotifyIsMade, MadeRecord
  <2>2. d = n /\ u = delivery[e].source
    BY <1>4, <1>7, <2>1
  <2>3. Completion(e).stranded = (Overlooked(e) /\ ctx[delivery[e].source] = "stopping")
    BY DEF Completion
  <2>4. ASSUME Overlooked(e), ctx[u] = "stopping"
        PROVE  delivery'[d].stranded
    <3>1. Overlooked(e) /\ ctx[delivery[e].source] = "stopping"
      BY <2>2, <2>4
    <3>2. Completion(e).stranded
      BY ONLY <2>3, <3>1, Zenon
    <3> QED BY ONLY <1>7, <2>2, <3>2, Zenon
  <2>5. u \in due' /\ delivery[e].source = u
    BY ONLY <1>7, <2>2, Zenon
  <2> QED BY ONLY <2>4, <2>5, Zenon
<1> QED BY <1>3, <1>5, <1>6, <1>7 DEF Evolves, Makes

\* Without hibernation a Session that begins to stop begins another life.
LEMMA StepStopsLife ==
  ASSUME IInv, [Next]_vars, used'["hibernate"] = 0,
         NEW u \in Sessions, ctx'[u] = "stopping"
  PROVE  ctx[u] = "stopping" \/ Interrupted(u)
<1>1. ~Happens("hibernate")
  BY FaultNeedsEvent DEF OutsideEvent, Disturbance
<1> QED BY <1>1, StepStops DEF Hibernate

LEMMA StepDated ==
  ASSUME IInv, Evolves, Dated, [Next]_vars, used'["hibernate"] = 0
  PROVE  Dated'
<1>0. /\ Upkeep /\ naming \in [Sessions -> Naming \cup {Nobody}]
      /\ life \in [Sessions -> Nat] /\ owner \in [Sessions -> Sessions]
  BY UpkeepIsDone DEF IInv, Named, HistoryTypes, ContextTypes
<1>1. \A u \in Sessions : life'[u] = life[u] \/ life'[u] = life[u] + 1
  BY <1>0 DEF Evolves, Lives
<1>2. ASSUME NEW u \in Sessions, Interrupted(u) PROVE life'[u] = life[u] + 1
  BY <1>0, <1>2 DEF Interrupted
<1> SUFFICES ASSUME NEW t \in Sessions, naming'[t] # Nobody
             PROVE  LET n == naming'[t] IN
                    /\ n.life <= life'[n.source]
                    /\ ctx'[n.source] = "stopping" => n.life < life'[n.source]
  BY DEF Dated
<1>3. CASE naming'[t] = naming[t]
  <2> DEFINE boss == naming[t].source
  <2>1. /\ boss \in Sessions /\ naming[t].life \in Nat
        /\ naming[t].life <= life[boss]
        /\ ctx[boss] = "stopping" => naming[t].life < life[boss]
    BY <1>0, <1>3 DEF Dated, Naming
  <2> HIDE DEF boss
  <2>2. life[boss] \in Nat /\ (life'[boss] = life[boss] \/ life'[boss] = life[boss] + 1)
    BY <1>0, <1>1, <2>1
  <2>3. ctx'[boss] = "stopping" =>
          ctx[boss] = "stopping" \/ life'[boss] = life[boss] + 1
    BY <1>2, <2>1, StepStopsLife
  <2>4. naming[t].life <= life'[boss]
    BY <2>1, <2>2
  <2>5. ctx'[boss] = "stopping" => naming[t].life < life'[boss]
    BY <2>1, <2>2, <2>3
  <2> QED BY <1>3, <2>4, <2>5 DEF boss
<1>4. ASSUME NEW u \in Sessions, SpawnDone(u), naming'[t] # naming[t]
      PROVE  /\ naming'[t].life = life'[naming'[t].source]
             /\ naming'[t].life \in Nat /\ ctx'[naming'[t].source] # "stopping"
  <2>1. /\ u = t /\ life' = life /\ ctx' = [ctx EXCEPT ![t] = "ready"]
        /\ naming'[t] = [source |-> owner[t], life |-> life[owner[t]]]
        /\ ctx[owner[t]] # "stopping" /\ owner[t] \in Sessions
    BY <1>0, <1>4 DEF SpawnDone, OwnerWaits
  <2>2. ctx'[owner[t]] # "stopping"
    BY <2>1, IInvShapes DEF Shapes
  <2> QED BY <1>0, <2>1, <2>2
<1> QED BY <1>0, <1>3, <1>4 DEF Upkeep

LEMMA StepTold ==
  ASSUME IInv, Evolves, Settling, Dated, [Next]_vars,
         NEW s \in Sessions, ctx[s] = "stopping",
         NEW d \in notify', delivery'[d].source = s
  PROVE  delivery'[d].since # delivery'[d].life
<1>1. CASE d \in notify
  <2>1. d \in Made /\ SameRequest(delivery'[d], delivery[d])
    BY <1>1, NotifyIsMade DEF Evolves
  <2>2. Overlooked(d)
    BY <1>1, <2>1 DEF Settling, SameRequest
  <2> QED BY <2>1, <2>2 DEF SameRequest, Overlooked
<1>2. CASE d \notin notify
  <2>1. PICK item : /\ delivery'[d] = item /\ item.since = life[item.source]
                    /\ LookedAt(item)
    BY <1>2 DEF Evolves, Makes
  <2>2. PICK u \in Sessions :
          naming[u] # Nobody /\ naming[u].source = s /\ naming[u].life = item.life
    BY <2>1 DEF LookedAt
  <2>3. naming[u].life < life[s] /\ naming[u] \in Naming /\ life[s] \in Nat
    BY <2>2 DEF Dated, IInv, Named, HistoryTypes
  <2>4. item.life # item.since
    BY <2>1, <2>2, <2>3 DEF Naming
  <2> QED BY <2>1, <2>4
<1> QED BY <1>1, <1>2

LEMMA StepSettling ==
  ASSUME IInv, Calm, Settling, Dated, [Next]_vars, used'["hibernate"] = 0
  PROVE  Settling'
<1> SUFFICES ASSUME NEW s \in Sessions, ctx'[s] = "stopping"
             PROVE  /\ Stranded(s)'
                    /\ \A d \in notify' : delivery'[d].source = s =>
                         delivery'[d].since # delivery'[d].life
  BY DEF Settling, Overlooked
<1>1. CASE Interrupted(s)
  <2>1. queue'[s] = <<>>
    BY <1>1, InterruptedDoes, IInvShapes DEF Shapes
  <2>2. \A d \in notify' : delivery'[d].source # s
    BY <1>1, InterruptedDoes, NotifyIsMade DEF SameRequest
  <2> QED BY <2>1, <2>2, EmptyQueue DEF Stranded
<1>2. CASE ctx[s] = "stopping"
  <2>1. /\ \A d \in Range(queue[s]) : delivery[d].stranded
        /\ \A d \in notify : delivery[d].source = s => Overlooked(d)
    BY <1>2 DEF Settling, Stranded
  <2>2. Evolves
    BY StepEvolves, NoAbortFails DEF Calm
  <2>3. ASSUME NEW d \in Range(queue'[s]) PROVE delivery'[d].stranded
    BY <1>2, <2>1, <2>2, StepQueue
  <2>4. \A d \in notify' : delivery'[d].source = s =>
          delivery'[d].since # delivery'[d].life
    BY <1>2, <2>2, StepTold
  <2> QED BY <2>3, <2>4 DEF Stranded
<1> QED BY <1>1, <1>2, StepStopsLife

\* What waits in time waited before, or its target is about to look.
LEMMA StepQueues ==
  ASSUME IInv, Evolves, NEW u \in Sessions, ~Stranded(u)'
  PROVE  ~Stranded(u) \/ u \in due'
<1>1. PICK d \in Range(queue'[u]) : ~delivery'[d].stranded
  BY DEF Stranded
<1>2. d \in Range(queue[u]) /\ delivery'[d].stranded = delivery[d].stranded
        => ~Stranded(u)
  BY <1>1 DEF Stranded
<1> QED BY <1>1, <1>2, StepQueue

LEMMA StepPlain ==
  ASSUME IInv, Stages, Plain, OwnTurns, [Next]_vars, Undisturbed'
  PROVE  Plain'
<1>0. used \in [OutsideEvent -> Nat] /\ Shapes
  BY IInvShapes DEF Shapes
<1>1. /\ used["user"] # 0 => used'["user"] # 0
      /\ NoOwn' => NoOwn
  <2>1. "user" \in OutsideEvent /\ "own" \in OutsideEvent
    BY DEF OutsideEvent, Disturbance
  <2> QED BY <2>1, UsedGrows DEF NoOwn
<1>2. ~Happens("abortFault")
  BY FaultNeedsEvent DEF Undisturbed, NoAbortFault, OutsideEvent, Disturbance
<1>3. /\ \A r \in Deliveries : PromptOf(r) \in PlainCommand
      /\ \A r \in Run \cup {NoDelivery}, told \in BOOLEAN : AbortOf(r, told) \in PlainCommand
      /\ \A r \in Run : PromptOf(r) \in Command
  BY DEF PromptOf, AbortOf, PlainCommand, Command, Run, Deliveries, OwnRun
<1>4. ASSUME NEW r \in Run \cup {NoDelivery}
      PROVE  /\ Started(r) \in PlainEvent /\ Accepted(r) \in PlainEvent
             /\ \A outcome \in {"completed", "cancelled"} : Ended(r, outcome) \in PlainEvent
             /\ r # OwnRun => Rejected(r) \in PlainEvent
  BY EventIsEvent DEF PlainEvent, CalmEvent
<1>5. ASSUME NEW s \in Sessions, PiTakesPrompt(s)
      PROVE  /\ commands[s] # <<>> /\ Head(commands[s]).type = "prompt"
             /\ Head(commands[s]).run \in Run \cup {NoDelivery}
  <2>1. /\ commands[s] \in Seq(Command) /\ commands[s] # <<>>
        /\ Head(commands[s]).type = "prompt"
    BY <1>0, <1>5 DEF PiTakesPrompt, Takes, Shapes
  <2>2. Head(commands[s]) \in Command
    BY <2>1, HeadTailProperties
  <2> QED BY <2>1, <2>2 DEF Command
<1>6. CASE used'["user"] = 0
  <2>1. used["user"] = 0
    BY <1>1, <1>6
  <2>2. ~Happens("user")
    BY <1>6, FaultNeedsEvent DEF OutsideEvent, Disturbance
  <2>3. commands \in [Sessions -> Seq(PlainCommand)] /\ events \in [Sessions -> Seq(PlainEvent)]
    BY <2>1 DEF Plain
  <2>4. ASSUME NEW s \in Sessions, PiTakesPrompt(s)
        PROVE  Rejected(Head(commands[s]).run) \in PlainEvent
    <3>1. Head(commands[s]) \in PlainCommand
      BY <1>5, <2>3, <2>4, HeadTailProperties
    <3>2. Head(commands[s]).run # OwnRun
      BY <1>5, <2>4, <3>1 DEF PlainCommand
    <3> QED BY <1>4, <1>5, <2>4, <3>2
  <2>5. \A s \in Sessions : ~UserPrompt(s)
    BY <2>2 DEF UserPrompt
  <2>6. Admits(PlainCommand, PlainEvent)
    BY <1>2, <1>3, <1>4, <2>4, <2>5 DEF Admits
  <2> QED BY <2>3, <2>6, CommandsStay, EventsStay DEF Plain
<1>7. CASE used'["user"] # 0
  <2>1. NoOwn' /\ used'["reject"] = 0
    BY <1>7 DEF Undisturbed
  <2>2. ~Happens("reject")
    BY <2>1, FaultNeedsEvent DEF OutsideEvent, Disturbance
  <2>3. Lines
    BY <1>1, <2>1 DEF OwnTurns
  <2>4. ASSUME NEW s \in Sessions, PiTakesPrompt(s) PROVE pi[s] = NoDelivery
    <3>1. commands[s] \in Seq(Command) /\ commands[s] # <<>>
          /\ Head(commands[s]).type = "prompt"
      BY <1>0, <1>5, <2>4 DEF Shapes
    <3>2. 1 \in PromptsIn(commands[s])
      BY <3>1, TailIn DEF PromptsIn
    <3> QED BY <2>3, <3>2 DEF Lines, LineOf, Line, OneTurn
  <2>5. Admits(Command, PlainEvent)
    BY <1>2, <1>3, <1>4, <2>2, <2>4 DEF Admits, PlainCommand, Run
  <2> QED BY <1>7, <2>5, EventsStay DEF Plain
<1> QED BY <1>6, <1>7

LEMMA StepStopsAll ==
  ASSUME IInv, [Next]_vars, ~stopAll, ~BeginStopAll
  PROVE  ~stopAll'
<1>1. ASSUME NEW src \in Sessions, NEW t \in Sessions,
             Send(src, t) \/ Spawn(src, t) \/ Cancel(src, t)
      PROVE  stopAll' = stopAll
  BY <1>1 DEF Send, Spawn, Cancel, contextVars
<1>2. EndStopAll \/ UNCHANGED vars => ~stopAll'
  BY DEF EndStopAll, vars, contextVars
<1>3. ASSUME NEW s \in Sessions, Continue(s) PROVE stopAll' = stopAll
  BY <1>3 DEF Continue, Drain, DrainNothing, LaunchDone, LaunchFails, SpawnDone,
     SpawnFails, SpawnNamed, contextVars
<1>4. ASSUME NEW s \in Sessions, Pi(s) \/ PiStartsOwnRun(s) PROVE stopAll' = stopAll
  BY <1>4 DEF Pi, PiTakesPrompt, PiTakesAbort, PiSettles, PiStartsOwnRun, contextVars
<1>5. ASSUME NEW s \in Sessions, Handle(s) PROVE stopAll' = stopAll
  BY <1>5 DEF Handle, HandleStart, HandleSettled, HandleAccepted, HandleRejected,
     HandleAbortFailed, contextVars
<1>6. ASSUME NEW s \in Sessions, Control(s) PROVE stopAll' = stopAll
  BY <1>6 DEF Control, Activate, UserPrompt, UserAbort, Crash, Stop, NamingFails,
     Hibernate, StopDone, StopFails, contextVars
<1> QED BY <1>1, <1>2, <1>3, <1>4, <1>5, <1>6 DEF Next, Agent

LEMMA StepAwake ==
  ASSUME IInv, Stages, OwnTurns, Calm, Awake, [Next]_vars, Undisturbed'
  PROVE  Awake'
<1>1. Plain' /\ Settling' /\ Dated'
  <2>1. Evolves
    BY StepEvolves, NoAbortFails DEF Calm
  <2> QED BY <2>1, StepPlain, StepSettling, StepDated DEF Awake, Undisturbed
<1>2. ~stopAll'
  <2>1. ~Happens("stopAll")
    BY FaultNeedsEvent DEF Undisturbed, OutsideEvent, Disturbance
  <2>2. ~BeginStopAll
    BY <2>1 DEF BeginStopAll
  <2> QED BY <2>2, StepStopsAll DEF Awake
<1>3. NoLostWakeup'
  <2> SUFFICES ASSUME NEW u \in Sessions, CanDrain(u)', u \notin due', ~Stranded(u)'
               PROVE  FALSE
    BY DEF NoLostWakeup
  <2>1. Open(u)'
    BY DEF CanDrain, Ready, Open
  <2>2. Evolves
    BY StepEvolves, NoAbortFails DEF Calm
  <2>3. ~Stranded(u) /\ queue[u] # <<>>
    <3>1. ~Stranded(u)
      BY <2>2, StepQueues
    <3> QED BY <3>1, EmptyQueue DEF Stranded
  <2>4. ctx[u] # "stopping"
    BY <2>3 DEF Awake, Settling
  <2>5. ctx[u] # "spawning"
    <3> SUFFICES ASSUME ctx[u] = "spawning" PROVE FALSE
      OBVIOUS
    <3>1. queue[u] \in Seq(Deliveries) /\ QueuesAgree(delivery, queue)
      BY DEF IInv, Coord, Coordinated, Shape
    <3>2. Head(queue[u]) \in Range(queue[u])
      BY <2>3, <3>1, TailQueue DEF QueuesAgree
    <3>3. Head(queue[u]) \in Made /\ delivery[Head(queue[u])].target = u
      BY <3>1, <3>2, MadeIsMade DEF QueuesAgree
    <3> QED BY <3>3 DEF Stages, Stage, Unborn
  <2>6. ~(HandleRejected(u) /\ Head(events[u]).run = OwnRun)
    <3> SUFFICES ASSUME HandleRejected(u), Head(events[u]).run = OwnRun PROVE FALSE
      OBVIOUS
    <3>1. events[u] # <<>> /\ Head(events[u]).type = "rejected" /\ events[u] \in Seq(PlainEvent)
      BY DEF HandleRejected, Receives, Awake, Plain
    <3>2. Head(events[u]) \in PlainEvent
      BY <3>1, HeadTailProperties
    <3> QED BY <3>1, <3>2 DEF PlainEvent
  <2>7. Open(u)
    BY <2>1, <2>4, <2>5, <2>6, StepOpens DEF Opens
  <2>8. CanDrain(u)
    BY <2>3, <2>7 DEF Open, CanDrain, Ready, Awake
  <2>9. u \in due
    BY <2>3, <2>8 DEF Awake, NoLostWakeup
  <2>10. ~DrainNothing(u)
    BY <2>8 DEF DrainNothing
  <2>11. ~Drain(u)
    <3> SUFFICES ASSUME Drain(u) PROVE FALSE
      OBVIOUS
    <3>1. PICK d \in Made : draining' = [draining EXCEPT ![u] = d]
      BY DrainDoes
    <3>2. draining'[u] # NoDelivery
      BY <3>1, IInvShapes DEF Shapes, Made, Deliveries, NoDelivery
    <3> QED BY <2>1, <3>2 DEF Open
  <2> QED BY <2>9, <2>10, <2>11, StepDue
<1> QED BY <1>1, <1>2, <1>3 DEF Awake

LEMMA InitAwake == Init => Awake
BY DEF Init, Awake, Plain, Settling, Dated, NoLostWakeup, CanDrain

\* The coordinator looks at a queue whenever its Session becomes able to take the
\* next delivery, so long as no abort failed, nobody hibernated, nothing stopped
\* everything, and the user asked for nothing, or Pi neither ran nor refused of its
\* own accord.  What a spawn records for a Session while that is being stopped is
\* excepted: its drain finds the Session stopping and none follows (Stranded).
THEOREM AwakeHolds ==
  Spec => [](/\ IInv /\ Stages /\ Flights /\ OwnTurns /\ (NoAbortFault => Calm)
             /\ (Undisturbed => Awake))
<1> DEFINE Whole == IInv /\ Stages /\ (NoAbortFault => Calm)
           Turns == IInv /\ Stages /\ Flights /\ OwnTurns
           Wakes == Undisturbed => Awake
<1>1. Init => Wakes
  BY InitAwake
<1>2. Whole /\ Turns /\ Wakes /\ [Next]_vars => Wakes'
  <2> SUFFICES ASSUME Whole, Turns, Wakes, [Next]_vars, Undisturbed' PROVE Awake'
    OBVIOUS
  <2>1. /\ "abortFault" \in OutsideEvent /\ "hibernate" \in OutsideEvent
        /\ "stopAll" \in OutsideEvent /\ "user" \in OutsideEvent
        /\ "own" \in OutsideEvent /\ "reject" \in OutsideEvent
    BY DEF OutsideEvent, Disturbance
  <2>2. Undisturbed
    BY <2>1, UsedGrows DEF Undisturbed, NoAbortFault, NoOwn
  <2> QED BY <2>2, StepAwake DEF Undisturbed
<1>3. Spec => []Whole /\ []Turns
  BY CalmHolds, TurnsHold, PTL
<1> QED BY <1>1, <1>2, <1>3, PTL DEF Spec

\* Under the same premises no wake-up is lost: a Session that is free and has queued
\* something that was recorded in time is about to drain, though drain is only
\* called by the events that may free a Session and never by a timer.
THEOREM WakesUp == Spec => [](Undisturbed => NoLostWakeup)
<1>1. (Undisturbed => Awake) => (Undisturbed => NoLostWakeup)
  BY DEF Awake
<1> QED BY <1>1, AwakeHolds, PTL
=============================================================================
