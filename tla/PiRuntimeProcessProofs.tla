------------------------ MODULE PiRuntimeProcessProofs ------------------------
(***************************************************************************)
(* What Main and the child guarantee about the Pi process, for every       *)
(* number of Runtimes and session files, limit of starts and of pending    *)
(* requests, and whatever happens outside.  The first part is about the    *)
(* child alone, whatever requests Main sends, and about how requests and   *)
(* answers move through the two channels.  In the second IInv is about     *)
(* Main and the child alone; AInv adds what is on its way between them,    *)
(* and that the books of both agree.                                       *)
(***************************************************************************)
EXTENDS PiRuntimeProcess, SequenceTheorems, FiniteSetTheorems, TLAPS

-----------------------------------------------------------------------------
(* The child                                                               *)

USE NamesAreDistinct, LimitsAreNatural

Busy == {"creating", "discarding", "cancelling"}

\* Where a Session is: a start in progress has a handle and holds no driver; a
\* driver has a handle and somebody who disposes it, or a published file; what
\* is stopped, published or has a handle is known to the server.
Nested == handles \subseteq served /\ held \subseteq driver /\ driver \subseteq handles
WellPlaced(r) ==
  /\ cStart[r] \in Busy <=> cphase[r] = "starting"
  /\ cphase[r] = "starting" => r \in handles /\ r \notin held
  /\ cphase[r] = "running" => r \in held
  /\ cStop[r] = "disposing" => cphase[r] = "stopping" /\ r \in held
  /\ cStop[r] # "no" => r \in served
  /\ r \in driver => r \in held \/ published[r] # NoFile \/ cStart[r] = "discarding"
  /\ cStart[r] = "discarding" => r \in driver
  /\ cStart[r] \in {"creating", "discarding"} => published[r] = NoFile
  /\ published[r] # NoFile => r \in driver
FilesDiffer ==
  \A r, s \in Runtimes : published[r] # NoFile /\ published[r] = published[s] => r = s
ChildInv == Nested /\ (\A r \in Runtimes : WellPlaced(r)) /\ FilesDiffer

-----------------------------------------------------------------------------
(* Types                                                                   *)

LEMMA MessageTypes ==
  ASSUME NEW r \in Runtimes, NEW ok \in BOOLEAN
  PROVE  /\ Response(<<r, "start">>, ok) \in Message
         /\ Response(<<r, "stop">>, ok) \in Message
         /\ Response(<<r, "call">>, ok) \in Message
         /\ ExitEvent(r) \in Message
<1>1. <<r, "start">> \in Call /\ <<r, "stop">> \in Call /\ <<r, "call">> \in Call
  BY DEF Call
<1> QED BY <1>1 DEF Response, ExitEvent, Message

LEMMA PostsType ==
  ASSUME NEW m \in Message, messages \in Seq(Message), Posts(<<m>>)
  PROVE  messages' \in Seq(Message)
<1>1. <<m>> \in Seq(Message)
  OBVIOUS
<1> QED BY <1>1, ConcatProperties DEF Posts

LEMMA PostsTwoType ==
  ASSUME NEW m \in Message, NEW n \in Message, messages \in Seq(Message),
         Posts(<<m, n>>)
  PROVE  messages' \in Seq(Message)
<1>1. <<m, n>> \in Seq(Message)
  OBVIOUS
<1> QED BY <1>1, ConcatProperties DEF Posts

LEMMA ReceivesType ==
  ASSUME NEW c, requests \in Seq(Call), Receives(c)
  PROVE  requests' \in Seq(Call)
BY HeadTailProperties DEF Receives

LEMMA HappensType ==
  ASSUME NEW k \in OutsideEvent, used \in [OutsideEvent -> Nat], Happens(k)
  PROVE  used' \in [OutsideEvent -> Nat]
BY DEF Happens

LEMMA StopCalledType ==
  ASSUME NEW S, cStop \in [Runtimes -> {"no", "waiting", "disposing"}]
  PROVE  StopCalled(S) \in [Runtimes -> {"no", "waiting", "disposing"}]
BY DEF StopCalled

\* The type of every variable of the child after each of its steps.
LEMMA BootType ==
  ASSUME ChildTypeOK, Boot PROVE ChildTypeOK'
<1>1. Ready \in Message
  BY DEF Ready, Message, Call
<1>2. messages' \in Seq(Message)
  BY <1>1, PostsType DEF ChildTypeOK, Boot
<1> QED BY <1>2 DEF ChildTypeOK, Boot, hostVars, servedVars

LEMMA TakeStartType ==
  ASSUME NEW r \in Runtimes, ChildTypeOK, TakeStart(r) PROVE ChildTypeOK'
<1>1. Response(<<r, "start">>, FALSE) \in Message
  BY MessageTypes
<1>2. messages' \in Seq(Message)
  BY <1>1, PostsType DEF ChildTypeOK, TakeStart
<1>3. requests' \in Seq(Call)
  BY ReceivesType DEF ChildTypeOK, TakeStart
<1> QED BY <1>2, <1>3 DEF ChildTypeOK, TakeStart, hostVars, Phase

LEMMA TakeCallType ==
  ASSUME NEW r \in Runtimes, ChildTypeOK, TakeCall(r) PROVE ChildTypeOK'
<1>1. Response(<<r, "call">>, r \in served /\ cphase[r] = "running") \in Message
  BY MessageTypes
<1>2. messages' \in Seq(Message)
  BY <1>1, PostsType DEF ChildTypeOK, TakeCall
<1>3. requests' \in Seq(Call)
  BY ReceivesType DEF ChildTypeOK, TakeCall
<1> QED BY <1>2, <1>3 DEF ChildTypeOK, TakeCall, hostVars, servedVars

LEMMA TakeStopType ==
  ASSUME NEW r \in Runtimes, ChildTypeOK, TakeStop(r) PROVE ChildTypeOK'
<1>1. Response(<<r, "stop">>, FALSE) \in Message
  BY MessageTypes
<1>2. messages' \in Seq(Message)
  BY <1>1, PostsType DEF ChildTypeOK, TakeStop
<1>3. requests' \in Seq(Call)
  BY ReceivesType DEF ChildTypeOK, TakeStop
<1>4. cStop' \in [Runtimes -> {"no", "waiting", "disposing"}]
  BY StopCalledType DEF ChildTypeOK, TakeStop
<1> QED BY <1>2, <1>3, <1>4 DEF ChildTypeOK, TakeStop, hostVars

LEMMA TakeDisposeType ==
  ASSUME ChildTypeOK, TakeDispose PROVE ChildTypeOK'
<1>1. requests' \in Seq(Call)
  BY ReceivesType DEF ChildTypeOK, TakeDispose
<1>2. cStop' \in [Runtimes -> {"no", "waiting", "disposing"}]
  BY StopCalledType DEF ChildTypeOK, TakeDispose
<1> QED BY <1>1, <1>2 DEF ChildTypeOK, TakeDispose

LEMMA ShutdownType ==
  ASSUME NEW r \in Runtimes, ChildTypeOK, ShutdownRequested(r) PROVE ChildTypeOK'
<1>1. used' \in [OutsideEvent -> Nat]
  BY HappensType DEF ChildTypeOK, ShutdownRequested, OutsideEvent
<1>2. cStop' \in [Runtimes -> {"no", "waiting", "disposing"}]
  BY StopCalledType DEF ChildTypeOK, ShutdownRequested
<1> QED BY <1>1, <1>2 DEF ChildTypeOK, ShutdownRequested, hostVars

LEMMA StartFailsType ==
  ASSUME NEW r \in Runtimes, ChildTypeOK, StartFails(r)
  PROVE  /\ cphase' \in [Runtimes -> Phase]
         /\ cStart' \in [Runtimes -> {"no", "creating", "discarding", "cancelling", "over"}]
         /\ messages' \in Seq(Message)
<1>1. ExitEvent(r) \in Message /\ Response(<<r, "start">>, FALSE) \in Message
  BY MessageTypes
<1>2. messages' \in Seq(Message)
  BY <1>1, PostsTwoType DEF ChildTypeOK, StartFails
<1> QED BY <1>2 DEF ChildTypeOK, StartFails, Phase

LEMMA CreateFailsType ==
  ASSUME NEW r \in Runtimes, ChildTypeOK, CreateFails(r) PROVE ChildTypeOK'
<1>1. used' \in [OutsideEvent -> Nat]
  BY HappensType DEF ChildTypeOK, CreateFails, OutsideEvent
<1>2. StartFails(r)
  BY DEF CreateFails
<1> QED BY <1>1, <1>2, StartFailsType DEF ChildTypeOK, CreateFails, hostVars

LEMMA CreateDoneType ==
  ASSUME NEW r \in Runtimes, NEW f \in Files, ChildTypeOK, CreateDone(r, f)
  PROVE  ChildTypeOK'
<1>1. Response(<<r, "start">>, TRUE) \in Message
  BY MessageTypes
<1>2. messages' \in Seq(Message)
  BY <1>1, PostsType DEF ChildTypeOK, CreateDone
<1>3. cphase' \in [Runtimes -> Phase]
  BY DEF ChildTypeOK, CreateDone, Phase
<1>4. published' \in [Runtimes -> Files \cup {NoFile}]
  <2>1. published' = published \/ published' = [published EXCEPT ![r] = f]
    BY DEF CreateDone
  <2> QED BY <2>1 DEF ChildTypeOK
<1>5. /\ cStart' \in [Runtimes -> {"no", "creating", "discarding", "cancelling", "over"}]
      /\ held' \in SUBSET Runtimes /\ driver' \in SUBSET Runtimes
  BY DEF ChildTypeOK, CreateDone
<1> QED BY <1>2, <1>3, <1>4, <1>5 DEF ChildTypeOK, CreateDone, hostVars

LEMMA DiscardEndsType ==
  ASSUME NEW r \in Runtimes, ChildTypeOK, DiscardEnds(r) PROVE ChildTypeOK'
<1>1. used' \in [OutsideEvent -> Nat]
  BY HappensType DEF ChildTypeOK, DiscardEnds, OutsideEvent
<1>2. StartFails(r)
  BY DEF DiscardEnds
<1> QED BY <1>1, <1>2, StartFailsType DEF ChildTypeOK, DiscardEnds, hostVars

LEMMA CancelEndsType ==
  ASSUME NEW r \in Runtimes, ChildTypeOK, CancelEnds(r) PROVE ChildTypeOK'
<1>1. used' \in [OutsideEvent -> Nat]
  BY HappensType DEF ChildTypeOK, CancelEnds, OutsideEvent
<1>2. StartFails(r)
  BY DEF CancelEnds
<1> QED BY <1>1, <1>2, StartFailsType DEF ChildTypeOK, CancelEnds, hostVars, Unregister

LEMMA StopSettlesType ==
  ASSUME NEW r \in Runtimes, NEW ok \in BOOLEAN, ChildTypeOK, StopSettles(r, ok)
  PROVE  /\ cStop' \in [Runtimes -> {"no", "waiting", "disposing"}]
         /\ asked' \in SUBSET Runtimes /\ disposing' \in SUBSET Runtimes
         /\ failed' \in BOOLEAN /\ served' \in SUBSET Runtimes
         /\ messages' \in Seq(Message)
<1>1. Response(<<r, "stop">>, ok) \in Message
  BY MessageTypes
<1>2. messages' \in Seq(Message)
  BY <1>1, PostsType DEF ChildTypeOK, StopSettles
<1> QED BY <1>2 DEF ChildTypeOK, StopSettles

LEMMA StopResumesType ==
  ASSUME NEW r \in Runtimes, ChildTypeOK, StopResumes(r) PROVE ChildTypeOK'
<1>1. CASE r \in held
  BY <1>1 DEF ChildTypeOK, StopResumes, Phase
<1>2. CASE r \notin held
  <2>1. PICK ok \in BOOLEAN : StopSettles(r, ok)
    BY <1>2 DEF StopResumes
  <2> QED BY <1>2, <2>1, StopSettlesType DEF ChildTypeOK, StopResumes, Phase
<1> QED BY <1>1, <1>2

LEMMA StopEndsType ==
  ASSUME NEW r \in Runtimes, ChildTypeOK, StopEnds(r) PROVE ChildTypeOK'
<1>1. PICK ok \in BOOLEAN : StopSettles(r, ok)
  BY DEF StopEnds
<1>2. used' \in [OutsideEvent -> Nat]
  BY HappensType DEF ChildTypeOK, StopEnds, OutsideEvent
<1> QED BY <1>1, <1>2, StopSettlesType DEF ChildTypeOK, StopEnds, Unregister, Phase

LEMMA SwitchesFileType ==
  ASSUME NEW r \in Runtimes, NEW f \in Files, ChildTypeOK, SwitchesFile(r, f)
  PROVE  ChildTypeOK'
<1>1. used' \in [OutsideEvent -> Nat]
  BY HappensType DEF ChildTypeOK, SwitchesFile, OutsideEvent
<1> QED BY <1>1 DEF ChildTypeOK, SwitchesFile, hostVars

LEMMA LeavesType ==
  ASSUME NEW b \in BOOLEAN, ChildTypeOK, Leaves(b), messages' \in Seq(Message),
         used' \in [OutsideEvent -> Nat]
  PROVE  ChildTypeOK'
<1>1. requests' \in Seq(Call)
  BY DEF Leaves
<1>2. /\ cphase' \in [Runtimes -> Phase]
      /\ published' \in [Runtimes -> Files \cup {NoFile}]
      /\ cStart' \in [Runtimes -> {"no", "creating", "discarding", "cancelling", "over"}]
      /\ cStop' \in [Runtimes -> {"no", "waiting", "disposing"}]
  BY DEF Leaves, Phase
<1> QED BY <1>1, <1>2 DEF ChildTypeOK, Leaves

LEMMA HostDisposedType ==
  ASSUME ChildTypeOK, HostDisposed PROVE ChildTypeOK'
<1>1. (~failed /\ Empty) \in BOOLEAN
  OBVIOUS
<1>2. Response(<<Host, "dispose">>, ~failed /\ Empty) \in Message
  BY <1>1 DEF Response, Message, Call
<1>3. messages' \in Seq(Message)
  BY <1>2, PostsType DEF ChildTypeOK, HostDisposed
<1> QED BY <1>1, <1>3, LeavesType DEF HostDisposed, ChildTypeOK

LEMMA ChildTypes ==
  ASSUME ChildTypeOK, Child \/ Outside PROVE ChildTypeOK'
<1>1. CASE Boot \/ TakeDispose \/ HostDisposed
  BY <1>1, BootType, TakeDisposeType, HostDisposedType
<1>2. ASSUME NEW r \in Runtimes,
             \/ TakeStart(r) \/ TakeCall(r) \/ TakeStop(r) \/ CreateFails(r)
             \/ DiscardEnds(r) \/ CancelEnds(r) \/ StopResumes(r) \/ StopEnds(r)
             \/ ShutdownRequested(r)
      PROVE  ChildTypeOK'
  BY <1>2, TakeStartType, TakeCallType, TakeStopType, CreateFailsType,
     DiscardEndsType, CancelEndsType, StopResumesType, StopEndsType, ShutdownType
<1>3. ASSUME NEW r \in Runtimes, NEW f \in Files,
             CreateDone(r, f) \/ SwitchesFile(r, f)
      PROVE  ChildTypeOK'
  BY <1>3, CreateDoneType, SwitchesFileType
<1> QED BY <1>1, <1>2, <1>3 DEF Child, Outside
-----------------------------------------------------------------------------
(* The invariant of the child                                              *)

\* Everything the invariant speaks of.
invVars == <<served, handles, cphase, driver, held, published, cStart, cStop>>

LEMMA NothingChanges ==
  ASSUME ChildInv, UNCHANGED invVars PROVE ChildInv'
BY DEF ChildInv, Nested, WellPlaced, FilesDiffer, invVars

LEMMA TakeStartInv ==
  ASSUME NEW r \in Runtimes, ChildTypeOK, ChildInv, TakeStart(r) PROVE ChildInv'
<1>1. CASE r \notin served /\ hostStatus = "running"
  BY <1>1 DEF ChildTypeOK, ChildInv, Nested, WellPlaced, FilesDiffer, TakeStart, Busy
<1>2. CASE r \in served \/ hostStatus # "running"
  BY <1>2, NothingChanges DEF TakeStart, invVars
<1> QED BY <1>1, <1>2 DEF TakeStart

LEMMA StopCalledInv ==
  ASSUME NEW S \in SUBSET served, ChildTypeOK, ChildInv, cStop' = StopCalled(S),
         UNCHANGED <<served, handles, cphase, driver, held, published, cStart>>
  PROVE  ChildInv'
BY DEF ChildTypeOK, ChildInv, Nested, WellPlaced, FilesDiffer, StopCalled, Busy

LEMMA StopsAreCalled ==
  ASSUME ChildTypeOK, ChildInv,
         TakeDispose \/ \E r \in Runtimes : TakeStop(r) \/ ShutdownRequested(r)
  PROVE  ChildInv'
<1>1. CASE TakeDispose
  BY <1>1, StopCalledInv DEF TakeDispose, ChildInv, Nested, WellPlaced, FilesDiffer
<1>2. ASSUME NEW r \in Runtimes, TakeStop(r) PROVE ChildInv'
  <2>1. CASE r \in served
    BY <1>2, <2>1, StopCalledInv DEF TakeStop
  <2>2. CASE r \notin served
    BY <1>2, <2>2, NothingChanges DEF TakeStop, invVars
  <2> QED BY <2>1, <2>2
<1>3. ASSUME NEW r \in Runtimes, ShutdownRequested(r) PROVE ChildInv'
  <2>1. r \in served
    BY <1>3 DEF ShutdownRequested, ChildInv, Nested, WellPlaced, FilesDiffer, Busy
  <2> QED BY <1>3, <2>1, StopCalledInv DEF ShutdownRequested
<1> QED BY <1>1, <1>2, <1>3

LEMMA CreateFailsInv ==
  ASSUME NEW r \in Runtimes, ChildTypeOK, ChildInv, CreateFails(r) PROVE ChildInv'
BY DEF ChildTypeOK, ChildInv, Nested, WellPlaced, FilesDiffer, CreateFails, StartFails, Busy

LEMMA CreateDoneInv ==
  ASSUME NEW r \in Runtimes, NEW f \in Files, ChildTypeOK, ChildInv, CreateDone(r, f)
  PROVE  ChildInv'
<1>1. CASE ~MayPublish(r, f)
  BY <1>1 DEF ChildTypeOK, ChildInv, Nested, WellPlaced, FilesDiffer, CreateDone, Busy
<1>2. CASE MayPublish(r, f) /\ r \in cancelled
  <2>1. FilesDiffer'
    BY <1>2 DEF ChildTypeOK, ChildInv, FilesDiffer, CreateDone, MayPublish, Owner
  <2>2. /\ driver' = driver \cup {r} /\ cStart[r] = "creating" /\ f # NoFile
        /\ published' = [published EXCEPT ![r] = f]
        /\ cStart' = [cStart EXCEPT ![r] = "cancelling"]
        /\ UNCHANGED <<served, handles, cphase, held, cStop>>
    BY <1>2 DEF CreateDone
  <2>3. Nested'
    BY <2>2 DEF ChildInv, Nested, WellPlaced, Busy
  <2>4. ASSUME NEW q \in Runtimes PROVE WellPlaced(q)'
    BY <2>2 DEF ChildTypeOK, ChildInv, WellPlaced, Busy
  <2> QED BY <2>1, <2>3, <2>4 DEF ChildInv
<1>3. CASE MayPublish(r, f) /\ r \notin cancelled
  BY <1>3 DEF ChildTypeOK, ChildInv, Nested, WellPlaced, FilesDiffer, CreateDone, Busy, MayPublish, Owner
<1> QED BY <1>1, <1>2, <1>3

LEMMA DiscardEndsInv ==
  ASSUME NEW r \in Runtimes, ChildTypeOK, ChildInv, DiscardEnds(r) PROVE ChildInv'
BY DEF ChildTypeOK, ChildInv, Nested, WellPlaced, FilesDiffer, DiscardEnds, StartFails, Busy

LEMMA CancelEndsInv ==
  ASSUME NEW r \in Runtimes, ChildTypeOK, ChildInv, CancelEnds(r) PROVE ChildInv'
<1>1. CASE Unregister(r)
  BY <1>1 DEF ChildTypeOK, ChildInv, Nested, WellPlaced, FilesDiffer, CancelEnds, StartFails, Unregister, Busy
<1>2. CASE UNCHANGED <<driver, published, handles>>
  BY <1>2 DEF ChildTypeOK, ChildInv, Nested, WellPlaced, FilesDiffer, CancelEnds, StartFails, Busy
<1> QED BY <1>1, <1>2 DEF CancelEnds

\* What the end of a stop takes from the server has no handle any more.
LEMMA StopSettlesServes ==
  ASSUME NEW r \in Runtimes, NEW ok \in BOOLEAN, ChildTypeOK, ChildInv,
         StopSettles(r, ok)
  PROVE  /\ cStop' = [cStop EXCEPT ![r] = "no"]
         /\ served \ {r} \subseteq served' /\ served' \subseteq served
         /\ ~ok => served' = served
BY DEF ChildTypeOK, StopSettles

LEMMA StopResumesInv ==
  ASSUME NEW r \in Runtimes, ChildTypeOK, ChildInv, StopResumes(r) PROVE ChildInv'
<1>1. CASE r \in held
  BY <1>1 DEF ChildTypeOK, ChildInv, Nested, WellPlaced, FilesDiffer, StopResumes, Resumable, Busy
<1>2. CASE r \notin held /\ published[r] = NoFile
  <2>1. StopSettles(r, TRUE)
    BY <1>2 DEF StopResumes
  <2>2. r \notin driver
    BY <1>2 DEF ChildInv, Nested, WellPlaced, FilesDiffer, StopResumes, Resumable, Busy
  <2>3. /\ cStop' = [cStop EXCEPT ![r] = "no"] /\ cphase[r] # "starting"
        /\ served \ {r} \subseteq served' /\ served' \subseteq served
        /\ cphase' = [cphase EXCEPT ![r] = "stopped"] /\ handles' = handles \ {r}
        /\ UNCHANGED <<driver, held, published, cStart>>
    BY <1>2, <2>1, StopSettlesServes DEF StopResumes, Resumable
  <2>4. Nested' /\ FilesDiffer'
    BY <1>2, <2>2, <2>3 DEF ChildInv, Nested, FilesDiffer
  <2>5. ASSUME NEW q \in Runtimes PROVE WellPlaced(q)'
    BY <1>2, <2>2, <2>3 DEF ChildTypeOK, ChildInv, Nested, WellPlaced, Busy
  <2> QED BY <2>4, <2>5 DEF ChildInv
<1>3. CASE r \notin held /\ published[r] # NoFile
  <2>1. StopSettles(r, FALSE)
    BY <1>3 DEF StopResumes
  <2>2. /\ cStop' = [cStop EXCEPT ![r] = "no"] /\ served' = served
        /\ UNCHANGED <<handles, cphase, driver, held, published, cStart>>
    BY <1>3, <2>1, StopSettlesServes DEF StopResumes
  <2>3. Nested' /\ FilesDiffer'
    BY <2>2 DEF ChildInv, Nested, FilesDiffer
  <2>4. ASSUME NEW q \in Runtimes PROVE WellPlaced(q)'
    BY <2>2 DEF ChildTypeOK, ChildInv, Nested, WellPlaced, Busy
  <2> QED BY <2>3, <2>4 DEF ChildInv
<1> QED BY <1>1, <1>2, <1>3

LEMMA StopEndsInv ==
  ASSUME NEW r \in Runtimes, ChildTypeOK, ChildInv, StopEnds(r) PROVE ChildInv'
<1>1. CASE Unregister(r) /\ held' = held \ {r} /\ StopSettles(r, TRUE)
           /\ cphase' = [cphase EXCEPT ![r] = "stopped"]
  <2>1. /\ cStop' = [cStop EXCEPT ![r] = "no"] /\ cphase[r] = "stopping"
        /\ served \ {r} \subseteq served' /\ served' \subseteq served
        /\ cphase' = [cphase EXCEPT ![r] = "stopped"] /\ handles' = handles \ {r}
        /\ driver' = driver \ {r} /\ held' = held \ {r}
        /\ published' = [published EXCEPT ![r] = NoFile]
        /\ UNCHANGED cStart
    BY <1>1, StopSettlesServes DEF StopEnds, Unregister, ChildInv, WellPlaced
  <2>2. Nested' /\ FilesDiffer'
    BY <2>1 DEF ChildTypeOK, ChildInv, Nested, FilesDiffer
  <2>3. ASSUME NEW q \in Runtimes PROVE WellPlaced(q)'
    BY <2>1 DEF ChildTypeOK, ChildInv, Nested, WellPlaced, Busy
  <2> QED BY <2>2, <2>3 DEF ChildInv
<1>2. CASE StopSettles(r, FALSE) /\ cphase' = [cphase EXCEPT ![r] = "crashed"]
           /\ UNCHANGED <<driver, published, handles, held>>
  <2>1. /\ cStop' = [cStop EXCEPT ![r] = "no"] /\ cphase[r] = "stopping"
        /\ served' = served /\ cphase' = [cphase EXCEPT ![r] = "crashed"]
        /\ UNCHANGED <<handles, driver, held, published, cStart>>
    BY <1>2, StopSettlesServes DEF StopEnds, ChildInv, WellPlaced
  <2>2. Nested' /\ FilesDiffer'
    BY <2>1 DEF ChildInv, Nested, FilesDiffer
  <2>3. ASSUME NEW q \in Runtimes PROVE WellPlaced(q)'
    BY <2>1 DEF ChildTypeOK, ChildInv, Nested, WellPlaced, Busy
  <2> QED BY <2>2, <2>3 DEF ChildInv
<1> QED BY <1>1, <1>2 DEF StopEnds

LEMMA SwitchesFileInv ==
  ASSUME NEW r \in Runtimes, NEW f \in Files, ChildTypeOK, ChildInv,
         SwitchesFile(r, f)
  PROVE  ChildInv'
BY DEF ChildTypeOK, ChildInv, Nested, WellPlaced, FilesDiffer, SwitchesFile, Owner, Busy

LEMMA LeavesInv ==
  ASSUME NEW b, Leaves(b) PROVE ChildInv'
BY DEF ChildInv, Nested, WellPlaced, FilesDiffer, Leaves, Busy

\* The invariant holds again after every step of the child.
LEMMA ChildKeepsInv ==
  ASSUME ChildTypeOK, ChildInv, Child \/ Outside PROVE ChildInv'
<1>1. CASE Boot \/ TakeDispose \/ HostDisposed
  BY <1>1, NothingChanges, StopsAreCalled, LeavesInv
     DEF Boot, HostDisposed, invVars, servedVars
<1>2. ASSUME NEW r \in Runtimes,
             TakeStart(r) \/ TakeCall(r) \/ TakeStop(r) \/ ShutdownRequested(r)
      PROVE  ChildInv'
  BY <1>2, TakeStartInv, StopsAreCalled, NothingChanges
     DEF TakeCall, invVars, servedVars
<1>3. ASSUME NEW r \in Runtimes,
             CreateFails(r) \/ DiscardEnds(r) \/ CancelEnds(r) \/ StopResumes(r) \/ StopEnds(r)
      PROVE  ChildInv'
  BY <1>3, CreateFailsInv, DiscardEndsInv, CancelEndsInv, StopResumesInv, StopEndsInv
<1>4. ASSUME NEW r \in Runtimes, NEW f \in Files,
             CreateDone(r, f) \/ SwitchesFile(r, f)
      PROVE  ChildInv'
  BY <1>4, CreateDoneInv, SwitchesFileInv
<1> QED BY <1>1, <1>2, <1>3, <1>4 DEF Child, Outside

\* A child that exits with code 0 has disposed every Session.
LEMMA ExitIsClean ==
  ASSUME ChildTypeOK, ChildInv, Child \/ Outside, child' = "gone", clean', child # "gone"
  PROVE  driver = {}
<1>1. HostDisposed
  BY DEF Child, Outside, Boot, TakeStart, TakeCall, TakeStop, TakeDispose,
         ShutdownRequested, CreateFails, CreateDone, DiscardEnds, CancelEnds,
         StopResumes, StopEnds, SwitchesFile
<1>2. Empty
  BY <1>1 DEF HostDisposed, Leaves
<1> QED BY <1>2 DEF Empty, ChildInv, Nested, WellPlaced, FilesDiffer

-----------------------------------------------------------------------------
(* The channels                                                            *)

Has(s, C) == \E i \in 1 .. Len(s) : s[i] \in C
Once(s, C) == \A i, j \in 1 .. Len(s) : s[i] \in C /\ s[j] \in C => i = j

\* A request to start or stop is on its way, worked on, or answered.
AnswersTo(c) == {Response(c, TRUE), Response(c, FALSE)}
Works(c) == IF c[2] = "start" THEN cStart[c[1]] \in Busy ELSE c[1] \in asked
Outstanding(c) == Has(requests, {c}) \/ Works(c) \/ Has(messages, AnswersTo(c))
Single(c) ==
  /\ Once(requests, {c}) /\ Once(messages, AnswersTo(c))
  /\ ~(Has(requests, {c}) /\ (Works(c) \/ Has(messages, AnswersTo(c))))
  /\ ~(Works(c) /\ Has(messages, AnswersTo(c)))
Moved(c) == Single(c)' /\ (Outstanding(c)' => Outstanding(c))

\* The failure of a start is told right after the exit of its Runtime.
ExitFirst(r) ==
  \A i \in 1 .. Len(messages) : messages[i] = ExitEvent(r) =>
    i < Len(messages) /\ messages[i + 1] = Response(<<r, "start">>, FALSE)

\* An exit message that tells of no Runtime's exit: there is none.
OddExits == {m \in Message : m.type = "exit"} \ {ExitEvent(r) : r \in Runtimes}

\* Only a living process knows Sessions, and none reads what a dead one was sent.
Down ==
  /\ child # "up" => FreshChild
  /\ child = "gone" => requests = <<>>

\* Nothing of a Runtime is left in the child; so it is when its stop succeeded.
Released(r) == r \notin driver \cup handles \cup served
StopOk(r) == Has(messages, {Response(<<r, "stop">>, TRUE)}) => Released(r)

LEMMA TailHas ==
  ASSUME NEW S, NEW s \in Seq(S), s # <<>>, NEW C
  PROVE  /\ Has(Tail(s), C) => Has(s, C)
         /\ Once(s, C) => Once(Tail(s), C)
         /\ Once(s, C) /\ Head(s) \in C => ~Has(Tail(s), C)
<1>1. /\ Len(s) \in Nat /\ Len(s) >= 1 /\ Len(Tail(s)) = Len(s) - 1 /\ Head(s) = s[1]
      /\ \A i \in 1 .. Len(Tail(s)) : Tail(s)[i] = s[i + 1]
  BY HeadTailProperties, EmptySeq
<1>2. \A i \in 1 .. Len(Tail(s)) : i + 1 \in 1 .. Len(s) /\ i + 1 # 1
  BY <1>1
<1>3. 1 \in 1 .. Len(s)
  BY <1>1
<1>4. Has(Tail(s), C) => Has(s, C)
  BY <1>1, <1>2 DEF Has
<1>5. Once(s, C) => Once(Tail(s), C)
  <2> SUFFICES ASSUME Once(s, C), NEW i \in 1 .. Len(Tail(s)), NEW j \in 1 .. Len(Tail(s)),
                      Tail(s)[i] \in C, Tail(s)[j] \in C
               PROVE  i = j
    BY DEF Once
  <2>1. i + 1 = j + 1
    BY <1>1, <1>2 DEF Once
  <2> QED BY <2>1
<1>6. Once(s, C) /\ Head(s) \in C => ~Has(Tail(s), C)
  BY <1>1, <1>2, <1>3 DEF Has, Once
<1> QED BY <1>4, <1>5, <1>6

LEMMA AppendHas ==
  ASSUME NEW S, NEW s \in Seq(S), NEW x \in S, NEW C
  PROVE  /\ Has(Append(s, x), C) <=> Has(s, C) \/ x \in C
         /\ Once(s, C) /\ ~(x \in C /\ Has(s, C)) => Once(Append(s, x), C)
<1>1. /\ Len(s) \in Nat /\ Len(Append(s, x)) = Len(s) + 1
      /\ \A i \in 1 .. Len(s) : Append(s, x)[i] = s[i]
      /\ Append(s, x)[Len(s) + 1] = x
  BY AppendProperties
<1>2. /\ \A i \in 1 .. Len(Append(s, x)) : i \in 1 .. Len(s) \/ i = Len(s) + 1
      /\ \A i \in 1 .. Len(s) : i \in 1 .. Len(Append(s, x))
      /\ Len(s) + 1 \in 1 .. Len(Append(s, x))
  BY <1>1
<1>3. Has(Append(s, x), C) <=> Has(s, C) \/ x \in C
  BY <1>1, <1>2 DEF Has
<1>4. Once(s, C) /\ ~(x \in C /\ Has(s, C)) => Once(Append(s, x), C)
  BY <1>1, <1>2 DEF Has, Once
<1> QED BY <1>3, <1>4

LEMMA PostsAppends ==
  ASSUME messages \in Seq(Message), NEW m \in Message
  PROVE  /\ Posts(<<m>>) => messages' = Append(messages, m)
         /\ \A n \in Message : Posts(<<m, n>>) => messages' = Append(Append(messages, m), n)
<1>1. messages \o <<m>> = Append(messages, m)
  OBVIOUS
<1>2. ASSUME NEW n \in Message
      PROVE  messages \o <<m, n>> = Append(Append(messages, m), n)
  OBVIOUS
<1> QED BY <1>1, <1>2 DEF Posts

LEMMA AnswersAre ==
  ASSUME NEW r, NEW k
  PROVE  /\ Ready \notin AnswersTo(<<r, k>>)
         /\ \A q : ExitEvent(q) \notin AnswersTo(<<r, k>>)
         /\ \A d, ok : Response(d, ok) \in AnswersTo(<<r, k>>) => d = <<r, k>>
BY DEF AnswersTo, Response, ExitEvent, Ready

LEMMA WorksIs ==
  ASSUME NEW r
  PROVE  /\ Works(<<r, "start">>) <=> cStart[r] \in Busy
         /\ Works(<<r, "stop">>) <=> r \in asked
BY DEF Works

\* A step that neither takes nor answers anything.
LEMMA MovedByNone ==
  ASSUME NEW c, Single(c), UNCHANGED <<requests, messages>>, Works(c)' => Works(c)
  PROVE  Moved(c)
BY DEF Moved, Single, Outstanding

\* The next request is taken, and worked on or answered at once.
LEMMA MovedByTaking ==
  ASSUME ChildTypeOK, NEW r, NEW k, Single(<<r, k>>), NEW d, Receives(d),
         Works(<<r, k>>)' => Works(<<r, k>>) \/ d = <<r, k>>,
         messages' = messages \/ \E m \in Message :
           /\ Posts(<<m>>)
           /\ m \in AnswersTo(<<r, k>>) => d = <<r, k>> /\ (Works(<<r, k>>)' => Works(<<r, k>>))
  PROVE  Moved(<<r, k>>)
<1> DEFINE c == <<r, k>>  A == AnswersTo(<<r, k>>)
<1>1. /\ requests \in Seq(Call) /\ messages \in Seq(Message)
      /\ requests # <<>> /\ requests' = Tail(requests) /\ Head(requests) = d
  BY DEF ChildTypeOK, Receives
<1>2. /\ Has(requests', {c}) => Has(requests, {c})
      /\ Once(requests, {c}) => Once(requests', {c})
      /\ Once(requests, {c}) /\ d = c => ~Has(requests', {c})
  BY <1>1, TailHas
<1>3. d = c => Has(requests, {c})
  <2>1. 1 \in 1 .. Len(requests) /\ requests[1] = d
    BY <1>1, EmptySeq, HeadTailProperties
  <2> QED BY <2>1 DEF Has
<1>4. CASE messages' = messages
  BY <1>2, <1>3, <1>4 DEF Moved, Single, Outstanding
<1>5. ASSUME NEW m \in Message, Posts(<<m>>), m \in A => d = c /\ (Works(c)' => Works(c))
      PROVE  Moved(c)
  <2>1. messages' = Append(messages, m)
    BY <1>1, <1>5, PostsAppends
  <2>2. /\ Has(messages', A) <=> Has(messages, A) \/ m \in A
        /\ Once(messages, A) /\ ~(m \in A /\ Has(messages, A)) => Once(messages', A)
    BY <1>1, <2>1, AppendHas
  <2> HIDE DEF A, c
  <2>3. /\ Once(requests, {c}) /\ Once(messages, A)
        /\ ~(Has(requests, {c}) /\ (Works(c) \/ Has(messages, A)))
        /\ ~(Works(c) /\ Has(messages, A)) /\ (Works(c)' => Works(c) \/ d = c)
    BY DEF A, c, Single
  <2>4. /\ Once(requests', {c}) /\ Once(messages', A)
        /\ ~(Has(requests', {c}) /\ (Works(c)' \/ Has(messages', A)))
        /\ ~(Works(c)' /\ Has(messages', A))
        /\ (Has(requests', {c}) \/ Works(c)' \/ Has(messages', A)
              => Has(requests, {c}) \/ Works(c) \/ Has(messages, A))
    BY <1>2, <1>3, <1>5, <2>2, <2>3
  <2>5. A' = A
    BY DEF A, AnswersTo
  <2> QED BY <2>4, <2>5 DEF Moved, Single, Outstanding, A, c
<1> QED BY <1>4, <1>5

\* A step that answers what was worked on.
LEMMA MovedByAnswer ==
  ASSUME ChildTypeOK, NEW r, NEW k, Single(<<r, k>>), UNCHANGED requests,
         Works(<<r, k>>)' => Works(<<r, k>>),
         NEW m \in Message, m \in AnswersTo(<<r, k>>) => Works(<<r, k>>) /\ ~Works(<<r, k>>)',
         Posts(<<m>>) \/ \E e \in Message : Posts(<<e, m>>) /\ e \notin AnswersTo(<<r, k>>)
  PROVE  Moved(<<r, k>>)
<1> DEFINE c == <<r, k>>  A == AnswersTo(<<r, k>>)
<1>1. messages \in Seq(Message)
  BY DEF ChildTypeOK
<1>2. /\ Has(messages', A) <=> Has(messages, A) \/ m \in A
      /\ Once(messages, A) /\ ~(m \in A /\ Has(messages, A)) => Once(messages', A)
  <2>1. CASE Posts(<<m>>)
    <3>1. messages' = Append(messages, m)
      BY <1>1, <2>1, PostsAppends
    <3> QED BY <1>1, <3>1, AppendHas
  <2>2. ASSUME NEW e \in Message, Posts(<<e, m>>), e \notin A
        PROVE  /\ Has(messages', A) <=> Has(messages, A) \/ m \in A
               /\ Once(messages, A) /\ ~(m \in A /\ Has(messages, A)) => Once(messages', A)
    <3> DEFINE s == Append(messages, e)
    <3>1. messages' = Append(s, m)
      BY <1>1, <2>2, PostsAppends
    <3>2. /\ s \in Seq(Message)
          /\ Has(s, A) <=> Has(messages, A)
          /\ Once(messages, A) => Once(s, A)
      BY <1>1, <2>2, AppendHas, AppendProperties
    <3> HIDE DEF s, A
    <3>3. /\ Has(messages', A) <=> Has(s, A) \/ m \in A
          /\ Once(s, A) /\ ~(m \in A /\ Has(s, A)) => Once(messages', A)
      BY <3>1, <3>2, AppendHas
    <3> QED BY <3>2, <3>3
  <2> QED BY <2>1, <2>2
<1> HIDE DEF A, c
<1>3. /\ Once(requests, {c}) /\ Once(messages, A) /\ requests' = requests
      /\ ~(Has(requests, {c}) /\ (Works(c) \/ Has(messages, A)))
      /\ ~(Works(c) /\ Has(messages, A)) /\ (Works(c)' => Works(c))
      /\ m \in A => Works(c) /\ ~Works(c)'
  BY DEF A, c, Single
<1>4. /\ Once(requests', {c}) /\ Once(messages', A)
      /\ ~(Has(requests', {c}) /\ (Works(c)' \/ Has(messages', A)))
      /\ ~(Works(c)' /\ Has(messages', A))
      /\ (Has(requests', {c}) \/ Works(c)' \/ Has(messages', A)
            => Has(requests, {c}) \/ Works(c) \/ Has(messages, A))
  BY <1>2, <1>3
<1>5. A' = A
  BY DEF A, AnswersTo
<1> QED BY <1>4, <1>5 DEF Moved, Single, Outstanding, A, c

LEMMA TakenMoves ==
  ASSUME ChildTypeOK, NEW r \in Runtimes, NEW k \in {"start", "stop"}, Single(<<r, k>>),
         NEW q \in Runtimes,
         TakeDispose \/ TakeStart(q) \/ TakeStop(q) \/ TakeCall(q)
  PROVE  Moved(<<r, k>>)
<1>1. CASE TakeDispose
  <2>1. UNCHANGED <<cStart, asked, messages>> /\ Receives(<<Host, "dispose">>)
    BY <1>1 DEF TakeDispose
  <2>2. Works(<<r, k>>)' => Works(<<r, k>>)
    BY <2>1 DEF Works
  <2> QED BY <2>1, <2>2, MovedByTaking
<1>2. CASE TakeStart(q)
  <2>1. Receives(<<q, "start">>) /\ asked' = asked
    BY <1>2 DEF TakeStart
  <2>2. CASE cStart' = [cStart EXCEPT ![q] = "creating"] /\ UNCHANGED messages
    <3>1. Works(<<r, k>>)' => Works(<<r, k>>) \/ <<q, "start">> = <<r, k>>
      <4>1. CASE k = "start"
        BY <2>2, <4>1 DEF Works, ChildTypeOK
      <4>2. CASE k = "stop"
        BY <2>1, <4>2 DEF Works
      <4> QED BY <4>1, <4>2
    <3> QED BY <2>1, <2>2, <3>1, MovedByTaking
  <2>3. CASE Posts(<<Response(<<q, "start">>, FALSE)>>) /\ UNCHANGED cStart
    <3>1. Works(<<r, k>>)' => Works(<<r, k>>)
      BY <2>1, <2>3 DEF Works
    <3> QED BY <2>1, <2>3, <3>1, AnswersAre, MessageTypes, MovedByTaking
  <2> QED BY <1>2, <2>2, <2>3 DEF TakeStart
<1>3. CASE TakeStop(q)
  <2>1. Receives(<<q, "stop">>) /\ cStart' = cStart
    BY <1>3 DEF TakeStop
  <2>2. CASE asked' = asked \cup {q} /\ UNCHANGED messages
    <3>1. Works(<<r, k>>)' => Works(<<r, k>>) \/ <<q, "stop">> = <<r, k>>
      BY <2>1, <2>2 DEF Works
    <3> QED BY <2>1, <2>2, <3>1, MovedByTaking
  <2>3. CASE Posts(<<Response(<<q, "stop">>, FALSE)>>) /\ UNCHANGED asked
    <3>1. Works(<<r, k>>)' => Works(<<r, k>>)
      BY <2>1, <2>3 DEF Works
    <3> QED BY <2>1, <2>3, <3>1, AnswersAre, MessageTypes, MovedByTaking
  <2> QED BY <1>3, <2>2, <2>3 DEF TakeStop
<1>4. CASE TakeCall(q)
  <2>1. Receives(<<q, "call">>) /\ UNCHANGED <<cStart, asked>>
    BY <1>4 DEF TakeCall, servedVars
  <2>2. PICK ok \in BOOLEAN : Posts(<<Response(<<q, "call">>, ok)>>)
    BY <1>4 DEF TakeCall
  <2>3. Works(<<r, k>>)' => Works(<<r, k>>)
    BY <2>1 DEF Works
  <2> QED BY <2>1, <2>2, <2>3, AnswersAre, MessageTypes, MovedByTaking
<1> QED BY <1>1, <1>2, <1>3, <1>4

LEMMA FailureMoves ==
  ASSUME ChildTypeOK, NEW r \in Runtimes, NEW k \in {"start", "stop"}, Single(<<r, k>>),
         NEW q \in Runtimes, StartFails(q), cStart[q] \in Busy, UNCHANGED <<requests, asked>>
  PROVE  Moved(<<r, k>>)
<1> DEFINE m == Response(<<q, "start">>, FALSE)  e == ExitEvent(q)
<1>1. m \in Message /\ e \in Message
  BY MessageTypes
<1>2. Posts(<<e, m>>) /\ e \notin AnswersTo(<<r, k>>)
      /\ (m \in AnswersTo(<<r, k>>) => <<r, k>> = <<q, "start">>)
  BY AnswersAre DEF StartFails
<1>3. cStart' = [cStart EXCEPT ![q] = "over"]
  BY DEF StartFails
<1>4. /\ Works(<<r, k>>)' => Works(<<r, k>>)
      /\ <<r, k>> = <<q, "start">> => Works(<<r, k>>) /\ ~Works(<<r, k>>)'
  <2>1. CASE k = "start"
    BY <1>3, <2>1 DEF Works, ChildTypeOK, Busy
  <2>2. CASE k = "stop"
    BY <2>2 DEF Works
  <2> QED BY <2>1, <2>2
<1> HIDE DEF m, e
<1> QED BY <1>1, <1>2, <1>4, MovedByAnswer

LEMMA SettlingMoves ==
  ASSUME ChildTypeOK, NEW r \in Runtimes, NEW k \in {"start", "stop"}, Single(<<r, k>>),
         NEW q \in Runtimes, NEW ok \in BOOLEAN, StopSettles(q, ok),
         UNCHANGED <<requests, cStart>>
  PROVE  Moved(<<r, k>>)
<1>1. asked' = asked \ {q}
  BY DEF StopSettles
<1>2. Works(<<r, k>>)' => Works(<<r, k>>)
  BY <1>1 DEF Works
<1>3. CASE q \in asked /\ Posts(<<Response(<<q, "stop">>, ok)>>)
  <2>1. <<r, k>> = <<q, "stop">> => Works(<<r, k>>) /\ ~Works(<<r, k>>)'
    BY <1>1, <1>3 DEF Works
  <2> DEFINE m == Response(<<q, "stop">>, ok)
  <2>2. m \in Message /\ Posts(<<m>>) /\ (m \in AnswersTo(<<r, k>>) => <<r, k>> = <<q, "stop">>)
    BY <1>3, AnswersAre, MessageTypes
  <2> HIDE DEF m
  <2> QED BY <1>2, <2>1, <2>2, MovedByAnswer
<1>4. CASE UNCHANGED messages
  BY <1>2, <1>4, MovedByNone
<1> QED BY <1>3, <1>4 DEF StopSettles

LEMMA OtherMoves ==
  ASSUME ChildTypeOK, NEW r \in Runtimes, NEW k \in {"start", "stop"}, Single(<<r, k>>),
         NEW q \in Runtimes, NEW f,
         Boot \/ HostDisposed \/ CreateDone(q, f) \/ ShutdownRequested(q) \/ SwitchesFile(q, f)
  PROVE  Moved(<<r, k>>)
<1>1. CASE Boot
  <2>1. Ready \in Message
    BY DEF Ready, Message, Call
  <2>2. Works(<<r, k>>)' => Works(<<r, k>>)
    BY <1>1 DEF Boot, servedVars, Works
  <2> QED BY <1>1, <2>1, <2>2, AnswersAre, MovedByAnswer DEF Boot
<1>2. CASE HostDisposed
  <2>1. requests' = <<>> /\ asked' = {} /\ cStart' = [p \in Runtimes |-> "no"]
    BY <1>2 DEF HostDisposed, Leaves
  <2>2. ~Works(<<r, k>>)' /\ ~Has(requests', {<<r, k>>}) /\ Once(requests', {<<r, k>>})
    BY <2>1 DEF Works, Busy, Has, Once
  <2>3. PICK ok \in BOOLEAN : Posts(<<Response(<<Host, "dispose">>, ok)>>)
    BY <1>2 DEF HostDisposed, Empty, ChildTypeOK
  <2> DEFINE m == Response(<<Host, "dispose">>, ok)  A == AnswersTo(<<r, k>>)
  <2>4. m \in Message /\ m \notin A
    <3>1. <<Host, "dispose">> \in Call
      BY DEF Call
    <3> QED BY <3>1, AnswersAre DEF Response, Message
  <2> HIDE DEF m
  <2>5. messages' = Append(messages, m)
    BY <2>3, <2>4, PostsAppends DEF m, ChildTypeOK
  <2>6. /\ Has(messages', A) <=> Has(messages, A)
        /\ Once(messages, A) => Once(messages', A)
    BY <2>4, <2>5, AppendHas DEF ChildTypeOK
  <2>7. A' = A
    BY DEF AnswersTo
  <2> HIDE DEF A
  <2> QED BY <2>2, <2>6, <2>7 DEF Moved, Single, Outstanding, A
<1>3. CASE CreateDone(q, f)
  <2>1. UNCHANGED <<requests, asked>> /\ cStart[q] = "creating"
    BY <1>3 DEF CreateDone
  <2>2. CASE UNCHANGED messages /\ cStart' \in {[cStart EXCEPT ![q] = "discarding"],
                                                [cStart EXCEPT ![q] = "cancelling"]}
    <3>1. Works(<<r, k>>)' => Works(<<r, k>>)
      <4>1. CASE k = "start"
        BY <2>1, <2>2, <4>1 DEF Works, ChildTypeOK, Busy
      <4>2. CASE k = "stop"
        BY <2>1, <4>2 DEF Works
      <4> QED BY <4>1, <4>2
    <3> QED BY <2>1, <2>2, <3>1, MovedByNone
  <2>3. CASE Posts(<<Response(<<q, "start">>, TRUE)>>) /\ cStart' = [cStart EXCEPT ![q] = "over"]
    <3> DEFINE m == Response(<<q, "start">>, TRUE)
    <3>1. m \in Message /\ Posts(<<m>>) /\ (m \in AnswersTo(<<r, k>>) => <<r, k>> = <<q, "start">>)
      BY <2>3, AnswersAre, MessageTypes
    <3>2. /\ Works(<<r, k>>)' => Works(<<r, k>>)
          /\ <<r, k>> = <<q, "start">> => Works(<<r, k>>) /\ ~Works(<<r, k>>)'
      <4>1. CASE k = "start"
        BY <2>1, <2>3, <4>1 DEF Works, ChildTypeOK, Busy
      <4>2. CASE k = "stop"
        BY <2>1, <4>2 DEF Works
      <4> QED BY <4>1, <4>2
    <3> HIDE DEF m
    <3> QED BY <2>1, <3>1, <3>2, MovedByAnswer
  <2> QED BY <1>3, <2>2, <2>3 DEF CreateDone
<1>4. CASE ShutdownRequested(q) \/ SwitchesFile(q, f)
  <2>1. UNCHANGED <<requests, messages, cStart, asked>>
    BY <1>4 DEF ShutdownRequested, SwitchesFile
  <2> QED BY <2>1, MovedByNone DEF Works
<1> QED BY <1>1, <1>2, <1>3, <1>4

\* Whatever the child does, a request stays in one place, and none comes of nothing.
LEMMA ChildMoves ==
  ASSUME ChildTypeOK, NEW r \in Runtimes, NEW k \in {"start", "stop"}, Single(<<r, k>>),
         Child \/ Outside
  PROVE  Moved(<<r, k>>)
<1>1. ASSUME NEW q \in Runtimes, TakeDispose \/ TakeStart(q) \/ TakeStop(q) \/ TakeCall(q)
      PROVE  Moved(<<r, k>>)
  BY <1>1, TakenMoves
<1>2. ASSUME NEW q \in Runtimes, CreateFails(q) \/ DiscardEnds(q) \/ CancelEnds(q)
      PROVE  Moved(<<r, k>>)
  <2>1. StartFails(q) /\ cStart[q] \in Busy /\ UNCHANGED <<requests, asked>>
    BY <1>2 DEF CreateFails, DiscardEnds, CancelEnds, Busy
  <2> QED BY <2>1, FailureMoves
<1>3. ASSUME NEW q \in Runtimes, StopResumes(q) \/ StopEnds(q) PROVE Moved(<<r, k>>)
  <2>1. CASE \E ok \in BOOLEAN : StopSettles(q, ok)
    BY <1>3, <2>1, SettlingMoves DEF StopResumes, StopEnds
  <2>2. CASE UNCHANGED <<asked, messages>>
    <3>1. UNCHANGED <<requests, cStart>>
      BY <1>3 DEF StopResumes, StopEnds
    <3> QED BY <2>2, <3>1, MovedByNone DEF Works
  <2>3. (\E ok \in BOOLEAN : StopSettles(q, ok)) \/ UNCHANGED <<asked, messages>>
    BY <1>3 DEF StopResumes, StopEnds
  <2> QED BY <2>1, <2>2, <2>3
<1>4. ASSUME NEW q \in Runtimes, NEW f,
             CreateDone(q, f) \/ ShutdownRequested(q) \/ SwitchesFile(q, f)
      PROVE  Moved(<<r, k>>)
  BY <1>4, OtherMoves
<1> QED BY <1>1, <1>2, <1>3, <1>4, OtherMoves DEF Child, Outside

\* What the child posts in a step.
LEMMA Posted ==
  ASSUME ChildTypeOK, Child \/ Outside
  PROVE  \/ messages' = messages
         \/ \E m \in Message : Posts(<<m>>) /\ m.type # "exit"
         \/ \E q \in Runtimes : Posts(<<ExitEvent(q), Response(<<q, "start">>, FALSE)>>)
<1>1. CASE Boot \/ HostDisposed
  <2>1. Boot => Posts(<<Ready>>)
    BY DEF Boot
  <2>2. HostDisposed => \E ok \in BOOLEAN : Posts(<<Response(<<Host, "dispose">>, ok)>>)
    BY DEF HostDisposed, Empty, ChildTypeOK
  <2>3. <<Host, "dispose">> \in Call
    BY DEF Call
  <2>4. Ready \in Message /\ Ready.type # "exit"
    BY <2>3 DEF Ready, Message
  <2>5. \A ok \in BOOLEAN : Response(<<Host, "dispose">>, ok) \in Message
                           /\ Response(<<Host, "dispose">>, ok).type # "exit"
    BY <2>3 DEF Response, Message
  <2> QED BY <1>1, <2>1, <2>2, <2>4, <2>5
<1>2. ASSUME NEW q \in Runtimes, TakeStart(q) \/ TakeStop(q) \/ TakeCall(q)
      PROVE  messages' = messages \/ \E m \in Message : Posts(<<m>>) /\ m.type # "exit"
  <2>1. PICK m : messages' = messages \/ (Posts(<<m>>) /\ \E k \in {"start", "stop", "call"},
                                            ok \in BOOLEAN : m = Response(<<q, k>>, ok))
    BY <1>2 DEF TakeStart, TakeStop, TakeCall
  <2>2. CASE \E k \in {"start", "stop", "call"}, ok \in BOOLEAN : m = Response(<<q, k>>, ok)
    <3>1. m \in Message /\ m.type # "exit"
      BY <2>2 DEF Message, Call, Response
    <3> QED BY <2>1, <3>1
  <2> QED BY <2>1, <2>2
<1>3. ASSUME NEW q \in Runtimes, CreateFails(q) \/ DiscardEnds(q) \/ CancelEnds(q)
      PROVE  Posts(<<ExitEvent(q), Response(<<q, "start">>, FALSE)>>)
  BY <1>3 DEF CreateFails, DiscardEnds, CancelEnds, StartFails
<1>4. ASSUME NEW q \in Runtimes, NEW f, StopResumes(q) \/ StopEnds(q) \/ CreateDone(q, f)
      PROVE  messages' = messages \/ \E m \in Message : Posts(<<m>>) /\ m.type # "exit"
  <2>1. PICK m : messages' = messages \/ (Posts(<<m>>) /\ \E k \in {"start", "stop"},
                                            ok \in BOOLEAN : m = Response(<<q, k>>, ok))
    BY <1>4 DEF StopResumes, StopEnds, StopSettles, CreateDone
  <2>2. CASE \E k \in {"start", "stop"}, ok \in BOOLEAN : m = Response(<<q, k>>, ok)
    <3>1. m \in Message /\ m.type # "exit"
      BY <2>2 DEF Message, Call, Response
    <3> QED BY <2>1, <3>1
  <2> QED BY <2>1, <2>2
<1>5. ASSUME NEW q \in Runtimes, NEW f,
             TakeDispose \/ ShutdownRequested(q) \/ SwitchesFile(q, f)
      PROVE  messages' = messages
  BY <1>5 DEF TakeDispose, ShutdownRequested, SwitchesFile
<1>6. TakeDispose => messages' = messages
  BY DEF TakeDispose
<1> QED BY <1>1, <1>2, <1>3, <1>4, <1>5, <1>6 DEF Child, Outside

\* What Main reads next stays, and exits stay in front of the failures they announce.
LEMMA HeadStays ==
  ASSUME ChildTypeOK, Child \/ Outside, messages # <<>>
  PROVE  messages' # <<>> /\ Head(messages') = Head(messages)
<1>1. messages \in Seq(Message)
  BY DEF ChildTypeOK
<1>2. ASSUME NEW s \in Seq(Message), s # <<>>, NEW m \in Message
      PROVE  /\ Append(s, m) \in Seq(Message) /\ Append(s, m) # <<>>
             /\ Head(Append(s, m)) = Head(s)
  BY <1>2, AppendProperties, HeadTailProperties, EmptySeq
<1>3. CASE messages' = messages
  BY <1>3
<1>4. ASSUME NEW m \in Message, Posts(<<m>>)
      PROVE  messages' # <<>> /\ Head(messages') = Head(messages)
  BY <1>1, <1>2, <1>4, PostsAppends
<1>5. ASSUME NEW q \in Runtimes, Posts(<<ExitEvent(q), Response(<<q, "start">>, FALSE)>>)
      PROVE  messages' # <<>> /\ Head(messages') = Head(messages)
  <2> DEFINE m == ExitEvent(q)  n == Response(<<q, "start">>, FALSE)  s == Append(messages, m)
  <2>1. m \in Message /\ n \in Message /\ Posts(<<m, n>>)
    BY <1>5, MessageTypes
  <2> HIDE DEF m, n
  <2>2. messages' = Append(s, n)
    BY <1>1, <2>1, PostsAppends
  <2>3. s \in Seq(Message) /\ s # <<>> /\ Head(s) = Head(messages)
    BY <1>1, <1>2, <2>1
  <2> HIDE DEF s
  <2> QED BY <1>2, <2>1, <2>2, <2>3
<1> QED BY <1>3, <1>4, <1>5, Posted

LEMMA ExitFirstAppend ==
  ASSUME NEW s \in Seq(Message), NEW m \in Message, NEW exit, m # exit, NEW answer,
         NEW t, t = Append(s, m), NEW i \in 1 .. Len(t), t[i] = exit,
         i \in 1 .. Len(s) /\ s[i] = exit => i < Len(s) /\ s[i + 1] = answer
  PROVE  i < Len(t) /\ t[i + 1] = answer
<1>1. /\ Len(s) \in Nat /\ Len(t) = Len(s) + 1 /\ \A j \in 1 .. Len(s) : t[j] = s[j]
      /\ t[Len(s) + 1] = m
  BY AppendProperties
<1>2. i \in 1 .. Len(s)
  <2>1. i # Len(s) + 1
    BY <1>1
  <2> QED BY <1>1, <2>1
<1>3. s[i] = exit
  BY <1>1, <1>2
<1>4. i < Len(s) /\ i + 1 \in 1 .. Len(s) /\ s[i + 1] = answer
  BY <1>1, <1>2, <1>3
<1> QED BY <1>1, <1>4

LEMMA ExitFirstKept ==
  ASSUME ChildTypeOK, NEW r \in Runtimes, ExitFirst(r), Child \/ Outside
  PROVE  ExitFirst(r)'
<1>1. messages \in Seq(Message)
  BY DEF ChildTypeOK
<1>2. CASE messages' = messages
  BY <1>2 DEF ExitFirst, ExitEvent, Response
<1>3. ASSUME NEW m \in Message, Posts(<<m>>), m.type # "exit" PROVE ExitFirst(r)'
  <2>1. messages' = Append(messages, m)
    BY <1>1, <1>3, PostsAppends
  <2>2. m # ExitEvent(r)
    BY <1>3 DEF ExitEvent
  <2> DEFINE exit == ExitEvent(r)  answer == Response(<<r, "start">>, FALSE)
  <2>3. \A i \in 1 .. Len(messages) : messages[i] = exit =>
          i < Len(messages) /\ messages[i + 1] = answer
    BY DEF ExitFirst
  <2> HIDE DEF exit, answer
  <2>4. \A i \in 1 .. Len(messages') : messages'[i] = exit =>
          i < Len(messages') /\ messages'[i + 1] = answer
    BY <1>1, <1>3, <2>1, <2>2, <2>3, ExitFirstAppend DEF exit
  <2> QED BY <2>4 DEF ExitFirst, ExitEvent, Response, exit, answer
<1>4. ASSUME NEW q \in Runtimes, Posts(<<ExitEvent(q), Response(<<q, "start">>, FALSE)>>)
      PROVE  ExitFirst(r)'
  <2> DEFINE m == ExitEvent(q)  n == Response(<<q, "start">>, FALSE)  s == Append(messages, m)
             answer == Response(<<r, "start">>, FALSE)
  <2>1. /\ m \in Message /\ n \in Message /\ Posts(<<m, n>>) /\ n # ExitEvent(r)
        /\ (m = ExitEvent(r) => n = answer)
    BY <1>4, MessageTypes DEF ExitEvent, Response
  <2> HIDE DEF m, n
  <2>2. messages' = Append(s, n) /\ s \in Seq(Message)
    BY <1>1, <2>1, PostsAppends, AppendProperties
  <2>3. /\ Len(messages) \in Nat /\ Len(s) = Len(messages) + 1
        /\ \A j \in 1 .. Len(messages) : s[j] = messages[j]
        /\ s[Len(messages) + 1] = m
    BY <1>1, <2>1, AppendProperties
  <2> HIDE DEF s
  <2>4. /\ Len(messages') = Len(s) + 1 /\ \A j \in 1 .. Len(s) : messages'[j] = s[j]
        /\ messages'[Len(s) + 1] = n
    BY <2>1, <2>2, AppendProperties
  <2>5. ASSUME NEW i \in 1 .. Len(messages'), messages'[i] = ExitEvent(r)
        PROVE  i < Len(messages') /\ messages'[i + 1] = answer
    <3>1. CASE i \in 1 .. Len(messages)
      <4>1. messages[i] = ExitEvent(r)
        BY <2>3, <2>4, <2>5, <3>1
      <4>2. i < Len(messages) /\ messages[i + 1] = answer
        BY <3>1, <4>1 DEF ExitFirst
      <4> HIDE DEF answer
      <4> QED BY <2>3, <2>4, <3>1, <4>2
    <3>2. CASE i = Len(messages) + 1
      <4>1. m = ExitEvent(r)
        BY <2>3, <2>4, <2>5, <3>2
      <4> HIDE DEF answer
      <4> QED BY <2>1, <2>3, <2>4, <3>2, <4>1
    <3>3. CASE i = Len(messages) + 2
      BY <2>1, <2>3, <2>4, <2>5, <3>3
    <3>4. i \in 1 .. Len(messages) \/ i = Len(messages) + 1 \/ i = Len(messages) + 2
      BY <2>3, <2>4
    <3> QED BY <3>1, <3>2, <3>3, <3>4
  <2> QED BY <2>5 DEF ExitFirst, ExitEvent, Response
<1> QED BY <1>2, <1>3, <1>4, Posted

LEMMA DownKept == ASSUME Down, Child \/ Outside PROVE Down'
<1>1. CASE Boot
  BY <1>1 DEF Boot, Down
<1>2. CASE HostDisposed
  BY <1>2 DEF HostDisposed, Leaves, Down, FreshChild
<1>3. ASSUME NEW q \in Runtimes, NEW f,
             \/ TakeDispose \/ TakeStart(q) \/ TakeStop(q) \/ TakeCall(q) \/ CreateFails(q)
             \/ DiscardEnds(q) \/ CancelEnds(q) \/ StopResumes(q) \/ StopEnds(q)
             \/ CreateDone(q, f) \/ ShutdownRequested(q) \/ SwitchesFile(q, f)
      PROVE  Down'
  <2>1. child' = "up"
    BY <1>3 DEF TakeDispose, TakeStart, TakeStop, TakeCall, CreateFails, DiscardEnds,
                CancelEnds, StopResumes, StopEnds, CreateDone, ShutdownRequested,
                SwitchesFile, Receives, ChildIdle
  <2> QED BY <2>1 DEF Down
<1>4. TakeDispose => Down'
  BY DEF TakeDispose, Receives, ChildIdle, Down
<1> QED BY <1>1, <1>2, <1>3, <1>4 DEF Child, Outside

\* Nothing of a Runtime comes back, but by a new start.
LEMMA ReleasedKept ==
  ASSUME ChildTypeOK, NEW r \in Runtimes, Released(r), ~Outstanding(<<r, "start">>),
         Child \/ Outside
  PROVE  Released(r)'
<1>1. ~Has(requests, {<<r, "start">>}) /\ cStart[r] \notin Busy
  BY WorksIs DEF Outstanding
<1>2. ASSUME NEW q \in Runtimes, TakeStart(q) PROVE Released(r)'
  <2>1. <<q, "start">> # <<r, "start">>
    <3>1. requests # <<>> /\ Head(requests) = <<q, "start">>
      BY <1>2 DEF TakeStart, Receives
    <3>2. 1 \in 1 .. Len(requests) /\ requests[1] = <<q, "start">>
      BY <3>1, EmptySeq, HeadTailProperties DEF ChildTypeOK
    <3> QED BY <1>1, <3>2 DEF Has
  <2> QED BY <1>2, <2>1 DEF TakeStart, Released
<1>3. ASSUME NEW q \in Runtimes, NEW f, CreateDone(q, f) PROVE Released(r)'
  BY <1>1, <1>3 DEF CreateDone, Released, Busy
<1>4. CASE HostDisposed \/ Boot \/ TakeDispose
  BY <1>4 DEF HostDisposed, Leaves, Boot, TakeDispose, servedVars, Released
<1>5. ASSUME NEW q \in Runtimes, NEW f,
             \/ TakeStop(q) \/ TakeCall(q) \/ CreateFails(q) \/ DiscardEnds(q)
             \/ CancelEnds(q) \/ StopResumes(q) \/ StopEnds(q)
             \/ ShutdownRequested(q) \/ SwitchesFile(q, f)
      PROVE  Released(r)'
  <2>1. driver' \subseteq driver /\ handles' \subseteq handles /\ served' \subseteq served
    BY <1>5 DEF TakeStop, TakeCall, CreateFails, DiscardEnds, CancelEnds, StopResumes,
                StopEnds, ShutdownRequested, SwitchesFile, servedVars, Unregister, StopSettles
  <2> QED BY <2>1 DEF Released
<1> QED BY <1>2, <1>3, <1>4, <1>5 DEF Child, Outside

\* A stop that succeeds leaves nothing of its Runtime.
LEMMA SettledIsReleased ==
  ASSUME ChildTypeOK, ChildInv, NEW r \in Runtimes, r \in asked,
         StopSettles(r, TRUE), StopResumes(r) \/ StopEnds(r)
  PROVE  Released(r)'
<1>1. r \notin served'
  BY DEF StopSettles
<1>2. r \notin driver' /\ r \notin handles'
  <2>1. CASE StopEnds(r) /\ Unregister(r)
    BY <2>1 DEF Unregister
  <2>2. CASE StopResumes(r) /\ r \notin held /\ published[r] = NoFile
    BY <2>2 DEF StopResumes, Resumable, ChildInv, WellPlaced, Busy
  <2>3. served' # served
    BY <1>1 DEF ChildInv, Nested, WellPlaced, StopResumes, StopEnds, Resumable
  <2> QED BY <2>1, <2>2, <2>3 DEF StopResumes, StopEnds, StopSettles
<1> QED BY <1>1, <1>2 DEF Released

\* Messages of another kind bring no message of this kind.
LEMMA PostsOthers ==
  ASSUME messages \in Seq(Message), NEW S, NEW e \in Message, NEW m \in Message \ S,
         Posts(<<m>>) \/ (Posts(<<e, m>>) /\ e \notin S)
  PROVE  Has(messages', S) => Has(messages, S)
<1>1. CASE Posts(<<m>>)
  <2>1. messages' = Append(messages, m)
    BY <1>1, PostsAppends
  <2> QED BY <2>1, AppendHas
<1>2. CASE Posts(<<e, m>>) /\ e \notin S
  <2> DEFINE s == Append(messages, e)
  <2>1. messages' = Append(s, m)
    BY <1>2, PostsAppends
  <2>2. s \in Seq(Message) /\ (Has(s, S) <=> Has(messages, S))
    BY <1>2, AppendHas, AppendProperties
  <2> HIDE DEF s
  <2> QED BY <2>1, <2>2, AppendHas
<1> QED BY <1>1, <1>2

LEMMA StopOkComes ==
  ASSUME ChildTypeOK, ChildInv, NEW r \in Runtimes, Child \/ Outside,
         Has(messages', {Response(<<r, "stop">>, TRUE)})
  PROVE  Has(messages, {Response(<<r, "stop">>, TRUE)}) \/ Released(r)'
<1> DEFINE S == {Response(<<r, "stop">>, TRUE)}
<1>0. messages \in Seq(Message)
  BY DEF ChildTypeOK
<1>1. CASE Boot \/ HostDisposed
  <2>1. <<Host, "dispose">> \in Call
    BY DEF Call
  <2>2. Boot => Posts(<<Ready>>) /\ Ready \in Message \ S
    BY <2>1 DEF Boot, Ready, Response, Message
  <2>3. HostDisposed => \E ok \in BOOLEAN : Posts(<<Response(<<Host, "dispose">>, ok)>>)
    BY DEF HostDisposed, Empty, ChildTypeOK
  <2>4. \A ok \in BOOLEAN : Response(<<Host, "dispose">>, ok) \in Message \ S
    BY <2>1 DEF Response, Message
  <2> QED BY <1>0, <1>1, <2>2, <2>3, <2>4, PostsOthers
<1>2. ASSUME NEW q \in Runtimes, NEW f,
             \/ TakeStart(q) \/ TakeCall(q) \/ TakeStop(q) \/ CreateFails(q) \/ CreateDone(q, f)
             \/ DiscardEnds(q) \/ CancelEnds(q)
      PROVE  Has(messages, S)
  <2> DEFINE m(k, ok) == Response(<<q, k>>, ok)  e == ExitEvent(q)
  <2>1. /\ e \in Message \ S
        /\ \A ok \in BOOLEAN : m("start", ok) \in Message \ S /\ m("call", ok) \in Message \ S
        /\ m("stop", FALSE) \in Message \ S
    BY MessageTypes DEF ExitEvent, Response
  <2>2. \/ messages' = messages
        \/ \E ok \in BOOLEAN : Posts(<<m("start", ok)>>) \/ Posts(<<m("call", ok)>>)
        \/ Posts(<<m("stop", FALSE)>>) \/ Posts(<<e, m("start", FALSE)>>)
    BY <1>2 DEF TakeStart, TakeCall, TakeStop, CreateFails, CreateDone, DiscardEnds, CancelEnds,
                StartFails
  <2> HIDE DEF e, m, S
  <2> QED BY <1>0, <2>1, <2>2, PostsOthers DEF S
<1>3. ASSUME NEW q \in Runtimes, NEW f,
             TakeDispose \/ ShutdownRequested(q) \/ SwitchesFile(q, f)
      PROVE  Has(messages, S)
  BY <1>3 DEF TakeDispose, ShutdownRequested, SwitchesFile
<1>4. ASSUME NEW q \in Runtimes, StopResumes(q) \/ StopEnds(q)
      PROVE  Has(messages, S) \/ Released(r)'
  <2>1. CASE messages' = messages
    BY <2>1
  <2>2. ASSUME NEW ok \in BOOLEAN, StopSettles(q, ok), q \in asked,
               Posts(<<Response(<<q, "stop">>, ok)>>)
        PROVE  Has(messages, S) \/ Released(r)'
    <3> DEFINE m == Response(<<q, "stop">>, ok)
    <3>1. CASE m \in S
      <4>1. q = r /\ ok = TRUE
        BY <3>1 DEF Response
      <4> QED BY <1>4, <2>2, <4>1, SettledIsReleased
    <3>2. CASE m \notin S
      <4>1. m \in Message \ S
        BY <3>2, MessageTypes
      <4> HIDE DEF m, S
      <4> QED BY <1>0, <2>2, <4>1, PostsOthers DEF m, S
    <3> QED BY <3>1, <3>2
  <2>3. \/ messages' = messages
        \/ \E ok \in BOOLEAN : StopSettles(q, ok) /\ q \in asked
                               /\ Posts(<<Response(<<q, "stop">>, ok)>>)
    BY <1>4 DEF StopResumes, StopEnds, StopSettles
  <2> QED BY <2>1, <2>2, <2>3
<1>5. TakeDispose => Has(messages, S)
  BY DEF TakeDispose
<1> QED BY <1>1, <1>2, <1>3, <1>4, <1>5 DEF Child, Outside

\* While no start is outstanding the answer to a stop stays true.
LEMMA StopOkKept ==
  ASSUME ChildTypeOK, ChildInv, NEW r \in Runtimes, StopOk(r),
         Has(messages, {Response(<<r, "stop">>, TRUE)}) => ~Outstanding(<<r, "start">>),
         Child \/ Outside
  PROVE  StopOk(r)'
<1> SUFFICES ASSUME Has(messages', {Response(<<r, "stop">>, TRUE)}) PROVE Released(r)'
  BY DEF StopOk, Response
<1> QED BY StopOkComes, ReleasedKept DEF StopOk
LEMMA NoOddExits ==
  ASSUME ChildTypeOK, ~Has(messages, OddExits), Child \/ Outside
  PROVE  ~Has(messages', OddExits)
<1>1. messages \in Seq(Message)
  BY DEF ChildTypeOK
<1>2. CASE messages' = messages
  BY <1>2
<1>3. ASSUME NEW m \in Message, Posts(<<m>>), m.type # "exit"
      PROVE  ~Has(messages', OddExits)
  <2>1. m \in Message \ OddExits
    BY <1>3 DEF OddExits
  <2> QED BY <1>1, <1>3, <2>1, PostsOthers
<1>4. ASSUME NEW q \in Runtimes, Posts(<<ExitEvent(q), Response(<<q, "start">>, FALSE)>>)
      PROVE  ~Has(messages', OddExits)
  <2> DEFINE e == ExitEvent(q)  m == Response(<<q, "start">>, FALSE)
  <2>1. e \in Message /\ m \in Message
    BY MessageTypes
  <2>2. e \notin OddExits /\ m.type # "exit"
    BY DEF OddExits, Response
  <2>3. m \in Message \ OddExits
    BY <2>1, <2>2 DEF OddExits
  <2>4. Posts(<<e, m>>)
    BY <1>4
  <2> HIDE DEF e, m
  <2> QED BY <1>1, <2>1, <2>2, <2>3, <2>4, PostsOthers
<1> QED BY <1>2, <1>3, <1>4, Posted

-----------------------------------------------------------------------------
(* Main, and the two together                                              *)

USE StartsArePositive, PendingIsPositive

\* The starts that count are those within the window, and the limit held.
TimeInv ==
  /\ starts \subseteq spawned /\ spawned \subseteq (0 .. clock) \X (1 .. generation)
  /\ IsFiniteSet(spawned)
  /\ \A s \in spawned : clock - s[1] < Window => s \in starts
  /\ StartLimit

\* Where a Runtime is in Main: who awaits an answer asked for it on the live
\* process, and what runs is registered with that process.
InMain(r) ==
  /\ startStep[r] = "request" <=> <<r, "start">> \in pending
  /\ stopStep[r] = "request" <=> <<r, "stop">> \in pending
  /\ startStep[r] \in {"acquire", "request"} <=> phase[r] = "starting"
  /\ stopStep[r] = "request" => phase[r] = "stopping"
  /\ phase[r] = "new" => startStep[r] = "no"
  /\ startStep[r] \in {"no", "acquire"} => r \notin registered
  /\ startStep[r] = "request" => record[r] = current /\ r \in registered
  /\ startStep[r] = "acquire" => current # 0 \/ ready = "failed"
  /\ phase[r] \in {"running", "stopping"} =>
       current # 0 /\ record[r] = current /\ r \in registered

\* Requests, a dispose that waits and a living child need the process record.
ProcessInv ==
  /\ pending # {} => current # 0
  /\ dispose = "ready" => current # 0 \/ ready = "failed"
  /\ child \in {"booting", "up"} => current # 0
  /\ dispose = "over" => current = 0

MainInv == (\A r \in Runtimes : InMain(r)) /\ ProcessInv

IInv == TypeOK /\ IsFiniteSet(pending) /\ TimeInv /\ MainInv /\ ChildInv

-----------------------------------------------------------------------------
(* Types                                                                   *)

LEMMA AsksType ==
  ASSUME NEW c \in Call, pending \in SUBSET Call, requests \in Seq(Call),
         IsFiniteSet(pending), Cardinality(pending) <= MaxPending,
         Asks(c) \/ Refuses(c), signal \in {"none", "term", "kill"}
  PROVE  /\ pending' \in SUBSET Call /\ requests' \in Seq(Call)
         /\ IsFiniteSet(pending') /\ Cardinality(pending') <= MaxPending
         /\ signal' \in {"none", "term", "kill"}
<1>1. CASE Asks(c)
  <2>1. Cardinality(pending) \in Nat
    BY FS_CardinalityType
  <2>2. IsFiniteSet(pending \cup {c})
        /\ Cardinality(pending \cup {c}) <= Cardinality(pending) + 1
    <3>1. /\ IsFiniteSet(pending \cup {c})
          /\ Cardinality(pending \cup {c}) =
               IF c \in pending THEN Cardinality(pending) ELSE Cardinality(pending) + 1
      BY FS_AddElement
    <3> QED BY <2>1, <3>1
  <2>3. IsFiniteSet(pending') /\ Cardinality(pending') <= MaxPending
    <3>1. pending' = pending \cup {c} /\ ~(Cardinality(pending) >= MaxPending)
      BY <1>1 DEF Asks, Full
    <3>2. Cardinality(pending \cup {c}) \in Nat
      BY <2>2, FS_CardinalityType
    <3> QED BY <2>1, <2>2, <3>1, <3>2
  <2>4. requests' \in Seq(Call)
    BY <1>1, AppendProperties DEF Asks
  <2> QED BY <1>1, <2>3, <2>4 DEF Asks
<1>2. CASE Refuses(c)
  BY <1>2 DEF Refuses
<1> QED BY <1>1, <1>2

LEMMA ReadsType ==
  ASSUME NEW type, messages \in Seq(Message), Reads(type)
  PROVE  messages' \in Seq(Message) /\ Head(messages) \in Message
         /\ Head(messages).type = type
BY HeadTailProperties DEF Reads

\* Main touches the child only through the channels.
LEMMA ChannelsType ==
  ASSUME ChildTypeOK, UNCHANGED childVars, requests' \in Seq(Call),
         messages' \in Seq(Message), used' \in [OutsideEvent -> Nat]
  PROVE  ChildTypeOK'
BY DEF ChildTypeOK, childVars, hostVars, servedVars

LEMMA StartType ==
  ASSUME NEW r \in Runtimes, TypeOK, Start(r) PROVE TypeOK'
<1>1. CASE /\ Accepts /\ Acquires(r) /\ phase' = [phase EXCEPT ![r] = "starting"]
           /\ UNCHANGED told
  <2>1. CASE current # 0
    <3>1. /\ startStep' = [startStep EXCEPT ![r] = "acquire"]
          /\ UNCHANGED <<processVars, childVars, messages, pending, dispose, record,
                         registered, stopStep, requests, used, told>>
      BY <1>1, <2>1 DEF Start, Acquires, TypeOK
    <3>2. ChildTypeOK'
      BY <3>1 DEF TypeOK, ChildTypeOK, childVars, hostVars, servedVars
    <3>3. /\ phase' \in [Runtimes -> Phase]
          /\ startStep' \in [Runtimes -> {"no", "acquire", "request", "ok", "failed"}]
      BY <1>1, <3>1 DEF TypeOK, Phase
    <3> QED BY <3>1, <3>2, <3>3 DEF TypeOK, processVars
  <2>2. CASE current = 0
    <3>1. /\ generation' = generation + 1 /\ current' = generation + 1
          /\ starts' = Recent \cup {<<clock, generation + 1>>}
          /\ spawned' = spawned \cup {<<clock, generation + 1>>}
          /\ ready' = "waiting" /\ signal' = "none"
          /\ startStep' = [startStep EXCEPT ![r] = "acquire"]
          /\ UNCHANGED <<pending, dispose, record, registered, stopStep, clock>>
      BY <1>1, <2>2 DEF Start, Acquires
    <3>2. starts' \in SUBSET (Nat \X (1 .. generation'))
          /\ spawned' \in SUBSET (Nat \X (1 .. generation'))
      BY <3>1 DEF TypeOK, Recent
    <3>3. record' \in [Runtimes -> 0 .. generation'] /\ generation' \in Nat
          /\ current' \in {0, generation'}
      BY <3>1 DEF TypeOK
    <3>4. ChildTypeOK'
      <4>1. /\ child' = "booting" /\ clean' = FALSE /\ messages' = <<>>
            /\ UNCHANGED <<hostVars, servedVars, requests, used>>
        BY <1>1, <2>2 DEF Start, Acquires
      <4>2. messages' \in Seq(Message)
        BY <4>1
      <4> QED BY <4>1, <4>2 DEF TypeOK, ChildTypeOK, hostVars, servedVars
    <3>5. /\ phase' \in [Runtimes -> Phase] /\ told' \in [Runtimes -> Nat]
          /\ startStep' \in [Runtimes -> {"no", "acquire", "request", "ok", "failed"}]
      BY <1>1, <3>1 DEF TypeOK, Phase
    <3> QED BY <3>1, <3>2, <3>3, <3>4, <3>5 DEF TypeOK
  <2> QED BY <2>1, <2>2
<1>2. CASE /\ phase' = [phase EXCEPT ![r] = "crashed"] /\ AcquireRefused(r)
           /\ told' = [told EXCEPT ![r] = @ + 1]
  <2>1. ChildTypeOK'
    BY <1>2 DEF TypeOK, ChildTypeOK, Start, AcquireRefused, childVars, hostVars, servedVars
  <2>2. starts' \in SUBSET (Nat \X (1 .. generation))
    BY <1>2 DEF TypeOK, AcquireRefused, Recent
  <2>3. /\ phase' \in [Runtimes -> Phase] /\ told' \in [Runtimes -> Nat]
        /\ startStep' \in [Runtimes -> {"no", "acquire", "request", "ok", "failed"}]
    BY <1>2 DEF TypeOK, Phase, AcquireRefused
  <2> QED BY <1>2, <2>1, <2>2, <2>3 DEF TypeOK, Start, AcquireRefused
<1> QED BY <1>1, <1>2 DEF Start

LEMMA AcquireDoneType ==
  ASSUME NEW r \in Runtimes, TypeOK, IsFiniteSet(pending), AcquireDone(r)
  PROVE  TypeOK' /\ IsFiniteSet(pending')
<1>1. <<r, "start">> \in Call
  BY DEF Call
<1>2. /\ pending' \in SUBSET Call /\ requests' \in Seq(Call)
      /\ IsFiniteSet(pending') /\ Cardinality(pending') <= MaxPending
      /\ signal' \in {"none", "term", "kill"}
  <2>1. CASE UNCHANGED <<pending, requests, signal>>
    BY <2>1 DEF TypeOK, ChildTypeOK
  <2>2. CASE Asks(<<r, "start">>) \/ Refuses(<<r, "start">>)
    BY <1>1, <2>2, AsksType DEF TypeOK, ChildTypeOK
  <2> QED BY <2>1, <2>2 DEF AcquireDone
<1>3. ChildTypeOK'
  BY <1>2, ChannelsType DEF TypeOK, ChildTypeOK, AcquireDone
<1>4. /\ phase' \in [Runtimes -> Phase] /\ told' \in [Runtimes -> Nat]
      /\ startStep' \in [Runtimes -> {"no", "acquire", "request", "ok", "failed"}]
  BY DEF TypeOK, AcquireDone, Phase
<1>5. registered' \in SUBSET Runtimes /\ record' \in [Runtimes -> 0 .. generation]
  BY DEF TypeOK, AcquireDone
<1> QED BY <1>2, <1>3, <1>4, <1>5 DEF TypeOK, AcquireDone

LEMMA ExitHandledType ==
  ASSUME TypeOK, IsFiniteSet(pending), ExitHandled
  PROVE  TypeOK' /\ IsFiniteSet(pending')
<1>1. pending' = {} /\ Cardinality(pending') = 0 /\ IsFiniteSet(pending')
  BY FS_EmptySet DEF ExitHandled, Rejected
<1>2. ChildTypeOK'
  <2>1. messages' \in Seq(Message)
    BY DEF ExitHandled
  <2> QED BY <2>1, ChannelsType DEF TypeOK, ChildTypeOK, ExitHandled
<1>3. phase' \in [Runtimes -> Phase]
  BY DEF TypeOK, ExitHandled, PhaseAfterExit, Phase
<1>4. told' \in [Runtimes -> Nat]
  BY DEF TypeOK, ExitHandled
<1>5. /\ startStep' \in [Runtimes -> {"no", "acquire", "request", "ok", "failed"}]
      /\ stopStep' \in [Runtimes -> {"no", "start", "request"}]
  BY DEF TypeOK, ExitHandled
<1> QED BY <1>1, <1>2, <1>3, <1>4, <1>5 DEF TypeOK, ExitHandled

LEMMA HandleReadyType ==
  ASSUME TypeOK, HandleReady PROVE TypeOK'
<1>1. messages' \in Seq(Message)
  BY ReadsType DEF TypeOK, ChildTypeOK, HandleReady
<1>2. requests' \in Seq(Call) /\ used' \in [OutsideEvent -> Nat]
  BY DEF TypeOK, ChildTypeOK, HandleReady
<1>3. ChildTypeOK'
  BY <1>1, <1>2, ChannelsType DEF TypeOK, HandleReady
<1> QED BY <1>3 DEF TypeOK, HandleReady, runtimeVars

LEMMA HandleExitEventType ==
  ASSUME TypeOK, HandleExitEvent PROVE TypeOK'
<1>1. messages' \in Seq(Message)
  BY ReadsType DEF TypeOK, ChildTypeOK, HandleExitEvent
<1>2. told' \in [Runtimes -> Nat]
  BY DEF TypeOK, HandleExitEvent
<1>3. requests' \in Seq(Call) /\ used' \in [OutsideEvent -> Nat]
  BY DEF TypeOK, ChildTypeOK, HandleExitEvent
<1>4. ChildTypeOK'
  BY <1>1, <1>3, ChannelsType DEF TypeOK, HandleExitEvent
<1> QED BY <1>2, <1>4 DEF TypeOK, HandleExitEvent, processVars

LEMMA HandleResponseType ==
  ASSUME TypeOK, IsFiniteSet(pending), HandleResponse
  PROVE  TypeOK' /\ IsFiniteSet(pending')
<1> DEFINE m == Head(messages)  c == m.call
<1>1. messages' \in Seq(Message) /\ m \in Message
  BY ReadsType DEF TypeOK, ChildTypeOK, HandleResponse
<1>2. pending' = pending \ {c}
  BY DEF HandleResponse
<1>3. IsFiniteSet(pending') /\ Cardinality(pending') <= MaxPending /\ pending' \in SUBSET Call
  <2>1. IsFiniteSet(pending') /\ Cardinality(pending') <= Cardinality(pending)
    BY <1>2, FS_Subset
  <2>2. Cardinality(pending') \in Nat /\ Cardinality(pending) \in Nat
    BY <2>1, FS_CardinalityType
  <2> QED BY <1>2, <2>1, <2>2 DEF TypeOK
<1>4. /\ phase' \in [Runtimes -> Phase] /\ registered' \in SUBSET Runtimes
      /\ startStep' \in [Runtimes -> {"no", "acquire", "request", "ok", "failed"}]
      /\ stopStep' \in [Runtimes -> {"no", "start", "request"}]
  <2>1. CASE UNCHANGED <<startStep, stopStep, phase, registered>>
    BY <2>1 DEF TypeOK
  <2>2. CASE StartAnswered(c[1], m.ok)
    BY <2>2 DEF StartAnswered, TypeOK, Phase
  <2>3. CASE StopAnswered(c[1], m.ok)
    BY <2>3 DEF StopAnswered, TypeOK, Phase, AfterStop, RegisteredAfter
  <2> QED BY <2>1, <2>2, <2>3 DEF HandleResponse
<1>5. requests' \in Seq(Call) /\ used' \in [OutsideEvent -> Nat]
  BY DEF TypeOK, ChildTypeOK, HandleResponse
<1>6. ChildTypeOK'
  BY <1>1, <1>5, ChannelsType DEF TypeOK, HandleResponse
<1> HIDE DEF m, c
<1> QED BY <1>3, <1>4, <1>6 DEF TypeOK, HandleResponse, processVars

LEMMA StopProceedsType ==
  ASSUME NEW r \in Runtimes, TypeOK, IsFiniteSet(pending), StopProceeds(r)
  PROVE  /\ pending' \in SUBSET Call /\ requests' \in Seq(Call)
         /\ IsFiniteSet(pending') /\ Cardinality(pending') <= MaxPending
         /\ signal' \in {"none", "term", "kill"}
         /\ phase' \in [Runtimes -> Phase]
         /\ stopStep' \in [Runtimes -> {"no", "start", "request"}]
<1>1. <<r, "stop">> \in Call
  BY DEF Call
<1>2. /\ phase' \in [Runtimes -> Phase]
      /\ stopStep' \in [Runtimes -> {"no", "start", "request"}]
  BY DEF StopProceeds, TypeOK, Phase
<1>3. CASE UNCHANGED <<pending, requests, signal>>
  BY <1>2, <1>3 DEF TypeOK, ChildTypeOK
<1>4. CASE Asks(<<r, "stop">>) \/ Refuses(<<r, "stop">>)
  BY <1>1, <1>2, <1>4, AsksType DEF TypeOK, ChildTypeOK
<1> QED BY <1>3, <1>4 DEF StopProceeds

LEMMA StopType ==
  ASSUME NEW r \in Runtimes, TypeOK, IsFiniteSet(pending), Stop(r) \/ StopAfterStart(r)
  PROVE  TypeOK' /\ IsFiniteSet(pending')
<1>1. CASE StopProceeds(r)
  <2>1. used' \in [OutsideEvent -> Nat]
    BY HappensType DEF TypeOK, ChildTypeOK, Stop, StopAfterStart, OutsideEvent
  <2>2. /\ pending' \in SUBSET Call /\ requests' \in Seq(Call)
        /\ IsFiniteSet(pending') /\ Cardinality(pending') <= MaxPending
        /\ signal' \in {"none", "term", "kill"}
        /\ phase' \in [Runtimes -> Phase]
        /\ stopStep' \in [Runtimes -> {"no", "start", "request"}]
    BY <1>1, StopProceedsType
  <2>3. UNCHANGED <<generation, current, ready, starts, clock, spawned, dispose,
                    record, registered, startStep, told, childVars, messages>>
    BY DEF Stop, StopAfterStart
  <2>4. ChildTypeOK'
    BY <2>1, <2>2, <2>3, ChannelsType DEF TypeOK, ChildTypeOK
  <2> QED BY <2>2, <2>3, <2>4 DEF TypeOK
<1>2. CASE Stop(r) /\ stopStep' = [stopStep EXCEPT ![r] = "start"]
           /\ UNCHANGED <<phase, pending, requests, signal>>
  <2>1. used' \in [OutsideEvent -> Nat]
    BY <1>2, HappensType DEF TypeOK, ChildTypeOK, Stop, OutsideEvent
  <2>2. ChildTypeOK'
    BY <1>2, <2>1, ChannelsType DEF TypeOK, ChildTypeOK, Stop
  <2> QED BY <1>2, <2>2 DEF TypeOK, Stop
<1> QED BY <1>1, <1>2 DEF Stop, StopAfterStart

LEMMA CallRuntimeType ==
  ASSUME NEW r \in Runtimes, TypeOK, IsFiniteSet(pending), CallRuntime(r)
  PROVE  TypeOK' /\ IsFiniteSet(pending')
<1>1. <<r, "call">> \in Call
  BY DEF Call
<1>2. used' \in [OutsideEvent -> Nat]
  BY HappensType DEF TypeOK, ChildTypeOK, CallRuntime, OutsideEvent
<1>3. Asks(<<r, "call">>) \/ Refuses(<<r, "call">>)
  BY DEF CallRuntime
<1>4. /\ pending' \in SUBSET Call /\ requests' \in Seq(Call)
      /\ IsFiniteSet(pending') /\ Cardinality(pending') <= MaxPending
      /\ signal' \in {"none", "term", "kill"}
  BY <1>1, <1>3, AsksType DEF TypeOK, ChildTypeOK
<1>5. ChildTypeOK'
  BY <1>2, <1>4, ChannelsType DEF TypeOK, ChildTypeOK, CallRuntime
<1> QED BY <1>4, <1>5 DEF TypeOK, CallRuntime, runtimeVars

LEMMA DisposeProceedsType ==
  ASSUME TypeOK, IsFiniteSet(pending), DisposeProceeds
  PROVE  TypeOK' /\ IsFiniteSet(pending')
<1>1. <<Host, "dispose">> \in Call
  BY DEF Call
<1>2. /\ pending' \in SUBSET Call /\ requests' \in Seq(Call)
      /\ IsFiniteSet(pending') /\ Cardinality(pending') <= MaxPending
      /\ signal' \in {"none", "term", "kill"}
  <2>1. CASE Asks(<<Host, "dispose">>) \/ Refuses(<<Host, "dispose">>)
    BY <1>1, <2>1, AsksType DEF TypeOK, ChildTypeOK
  <2>2. CASE UNCHANGED <<pending, requests, signal>>
    BY <2>2 DEF TypeOK, ChildTypeOK
  <2> QED BY <2>1, <2>2 DEF DisposeProceeds
<1>3. ChildTypeOK'
  BY <1>2, ChannelsType DEF TypeOK, ChildTypeOK, DisposeProceeds
<1> QED BY <1>2, <1>3 DEF TypeOK, DisposeProceeds, runtimeVars

LEMMA TimersType ==
  ASSUME TypeOK, Tick \/ ReadyTimeout \/ DisposeTimeout \/ Dispose PROVE TypeOK'
<1>1. /\ requests' \in Seq(Call) /\ messages' \in Seq(Message)
      /\ used' \in [OutsideEvent -> Nat]
  BY DEF TypeOK, ChildTypeOK, Tick, ReadyTimeout, DisposeTimeout, Dispose
<1>2. ChildTypeOK'
  BY <1>1, ChannelsType DEF TypeOK, Tick, ReadyTimeout, DisposeTimeout, Dispose
<1> QED BY <1>2 DEF TypeOK, Tick, ReadyTimeout, DisposeTimeout, Dispose, Stronger,
                    processVars, runtimeVars

LEMMA ChildDiesType ==
  ASSUME TypeOK, ChildDies PROVE TypeOK'
<1>1. used' \in [OutsideEvent -> Nat]
  BY HappensType DEF TypeOK, ChildTypeOK, ChildDies, OutsideEvent
<1>2. ChildTypeOK'
  BY <1>1, LeavesType DEF TypeOK, ChildTypeOK, ChildDies
<1> QED BY <1>2 DEF TypeOK, ChildDies, mainVars, processVars, runtimeVars

\* Types hold again after every step.
LEMMA TypesKept ==
  ASSUME TypeOK, IsFiniteSet(pending), [Next]_vars
  PROVE  TypeOK' /\ IsFiniteSet(pending')
<1>1. CASE Tick \/ ReadyTimeout \/ DisposeTimeout \/ Dispose
  BY <1>1, TimersType DEF Tick, ReadyTimeout, DisposeTimeout, Dispose
<1>2. CASE HandleReady \/ HandleExitEvent \/ ChildDies
  BY <1>2, HandleReadyType, HandleExitEventType, ChildDiesType
     DEF HandleReady, HandleExitEvent, ChildDies, mainVars
<1>3. CASE HandleResponse \/ ExitHandled \/ DisposeProceeds
  BY <1>3, HandleResponseType, ExitHandledType, DisposeProceedsType
<1>4. ASSUME NEW r \in Runtimes, AcquireDone(r) \/ StopAfterStart(r) \/ Stop(r) \/ CallRuntime(r)
      PROVE  TypeOK' /\ IsFiniteSet(pending')
  BY <1>4, AcquireDoneType, StopType, CallRuntimeType
<1>5. ASSUME NEW r \in Runtimes, Start(r) PROVE TypeOK' /\ IsFiniteSet(pending')
  BY <1>5, StartType DEF Start
<1>6. CASE (Child \/ Outside) /\ UNCHANGED mainVars
  BY <1>6, ChildTypes DEF TypeOK, mainVars, processVars, runtimeVars
<1>7. CASE UNCHANGED vars
  BY <1>7 DEF vars, TypeOK, ChildTypeOK, mainVars, processVars, runtimeVars,
              childVars, hostVars, servedVars
<1> QED BY <1>1, <1>2, <1>3, <1>4, <1>5, <1>6, <1>7 DEF Next, Main, Kernel
-----------------------------------------------------------------------------
(* Starts of the process                                                   *)

InWindow(S, t) == {s \in S : t - Window < s[1] /\ s[1] <= t}
Spawns ==
  /\ Cardinality(Recent) < MaxStarts
  /\ generation' = generation + 1
  /\ starts' = Recent \cup {<<clock, generation + 1>>}
  /\ spawned' = spawned \cup {<<clock, generation + 1>>}
  /\ UNCHANGED clock

\* What a step can do to the starts that count.
LEMMA TimeSteps ==
  ASSUME [Next]_vars
  PROVE  \/ UNCHANGED <<clock, generation, starts, spawned>>
         \/ clock' = clock + 1 /\ UNCHANGED <<generation, starts, spawned>>
         \/ starts' = Recent /\ UNCHANGED <<clock, generation, spawned>>
         \/ Spawns
<1>1. CASE UNCHANGED vars \/ ChildDies \/ ((Child \/ Outside) /\ UNCHANGED mainVars)
  BY <1>1 DEF vars, ChildDies, mainVars, processVars
<1>2. CASE \/ HandleReady \/ HandleExitEvent \/ HandleResponse \/ ExitHandled
           \/ DisposeProceeds \/ DisposeTimeout \/ ReadyTimeout \/ Dispose
  BY <1>2 DEF HandleReady, HandleExitEvent, HandleResponse, ExitHandled,
              DisposeProceeds, DisposeTimeout, ReadyTimeout, Dispose, processVars
<1>3. ASSUME NEW r \in Runtimes,
             AcquireDone(r) \/ StopAfterStart(r) \/ Stop(r) \/ CallRuntime(r)
      PROVE  UNCHANGED <<clock, generation, starts, spawned>>
  BY <1>3 DEF AcquireDone, StopAfterStart, Stop, CallRuntime
<1>4. CASE Tick
  BY <1>4 DEF Tick
<1>5. ASSUME NEW r \in Runtimes, Start(r)
      PROVE  \/ UNCHANGED <<clock, generation, starts, spawned>>
             \/ starts' = Recent /\ UNCHANGED <<clock, generation, spawned>>
             \/ Spawns
  BY <1>5 DEF Start, Acquires, AcquireRefused, Spawns, processVars
<1> QED BY <1>1, <1>2, <1>3, <1>4, <1>5 DEF Next, Main, Kernel

\* A window of time holds no more starts after a step than the limit: the new
\* start is counted with those of its window, which all still count.
LEMMA TimeKept ==
  ASSUME TypeOK, TimeInv, [Next]_vars PROVE TimeInv'
<1> USE DEF InWindow
<1>1. \A t \in 0 .. clock : IsFiniteSet(InWindow(spawned, t))
                            /\ Cardinality(InWindow(spawned, t)) <= MaxStarts
  <2>1. \A t \in 0 .. clock : InWindow(spawned, t) \subseteq spawned
    OBVIOUS
  <2>2. \A t \in 0 .. clock : IsFiniteSet(InWindow(spawned, t))
    BY <2>1, FS_Subset DEF TimeInv
  <2> QED BY <2>2 DEF TimeInv, StartLimit
<1>2. clock \in Nat /\ generation \in Nat /\ Window \in Nat /\ MaxStarts \in Nat
  BY DEF TypeOK
<1>3. \A s \in spawned : s[1] \in 0 .. clock
  BY DEF TimeInv
<1>4. CASE UNCHANGED <<clock, generation, starts, spawned>>
  BY <1>4 DEF TimeInv, StartLimit
<1>5. CASE clock' = clock + 1 /\ UNCHANGED <<generation, starts, spawned>>
  <2>1. \A s \in spawned : clock' - s[1] < Window => s \in starts
    BY <1>2, <1>3, <1>5 DEF TimeInv
  <2>2. ASSUME NEW t \in 0 .. clock' PROVE Cardinality(InWindow(spawned, t)) <= MaxStarts
    <3>1. CASE t \in 0 .. clock
      BY <1>1, <3>1
    <3>2. CASE t = clock + 1
      <4>1. InWindow(spawned, t) \subseteq InWindow(spawned, clock)
        BY <1>2, <1>3, <3>2
      <4>2. clock \in 0 .. clock
        BY <1>2
      <4>3. IsFiniteSet(InWindow(spawned, clock))
            /\ Cardinality(InWindow(spawned, clock)) <= MaxStarts
        BY <1>1, <4>2
      <4>4. IsFiniteSet(InWindow(spawned, t))
            /\ Cardinality(InWindow(spawned, t)) <= Cardinality(InWindow(spawned, clock))
        BY <4>1, <4>3, FS_Subset
      <4>5. Cardinality(InWindow(spawned, t)) \in Nat
            /\ Cardinality(InWindow(spawned, clock)) \in Nat
        BY <4>3, <4>4, FS_CardinalityType
      <4> QED BY <1>2, <4>3, <4>4, <4>5
    <3> QED BY <1>2, <1>5, <3>1, <3>2
  <2>3. spawned \subseteq (0 .. clock') \X (1 .. generation)
    BY <1>2, <1>5 DEF TimeInv
  <2> QED BY <1>5, <2>1, <2>2, <2>3 DEF TimeInv, StartLimit
<1>6. CASE starts' = Recent /\ UNCHANGED <<clock, generation, spawned>>
  BY <1>6 DEF TimeInv, StartLimit, Recent
<1>7. CASE Spawns
  <2> DEFINE new == <<clock, generation + 1>>
  <2>1. new \in (0 .. clock') \X (1 .. generation') /\ new[1] = clock
    BY <1>2, <1>7 DEF Spawns
  <2>2. spawned' \subseteq (0 .. clock') \X (1 .. generation') /\ starts' \subseteq spawned'
    BY <1>2, <1>7, <2>1 DEF Spawns, TimeInv, Recent
  <2>3. IsFiniteSet(spawned')
    BY <1>7, FS_AddElement DEF Spawns, TimeInv
  <2>4. \A s \in spawned' : clock' - s[1] < Window => s \in starts'
    BY <1>2, <1>7 DEF Spawns, TimeInv, Recent
  <2>5. ASSUME NEW t \in 0 .. clock PROVE Cardinality(InWindow(spawned', t)) <= MaxStarts
    <3>1. CASE t < clock
      <4>1. InWindow(spawned', t) = InWindow(spawned, t)
        BY <1>2, <1>7, <2>1, <3>1 DEF Spawns
      <4> QED BY <1>1, <4>1
    <3>2. CASE t = clock
      <4>1. InWindow(spawned', t) \subseteq Recent \cup {new}
        BY <1>2, <1>3, <1>7, <3>2 DEF Spawns, TimeInv, Recent
      <4>2. IsFiniteSet(Recent)
        <5>1. Recent \subseteq spawned
          BY DEF Recent, TimeInv
        <5> QED BY <5>1, FS_Subset DEF TimeInv
      <4>3. IsFiniteSet(Recent \cup {new})
            /\ Cardinality(Recent \cup {new}) =
                 IF new \in Recent THEN Cardinality(Recent) ELSE Cardinality(Recent) + 1
        BY <4>2, FS_AddElement
      <4>4. IsFiniteSet(InWindow(spawned', t))
            /\ Cardinality(InWindow(spawned', t)) <= Cardinality(Recent \cup {new})
        BY <4>1, <4>3, FS_Subset
      <4>5. Cardinality(InWindow(spawned', t)) \in Nat /\ Cardinality(Recent) \in Nat
        BY <4>2, <4>4, FS_CardinalityType
      <4>6. Cardinality(Recent) < MaxStarts
        BY <1>7 DEF Spawns
      <4> HIDE DEF new, InWindow
      <4> QED BY <1>2, <4>3, <4>4, <4>5, <4>6
    <3> QED BY <1>2, <3>1, <3>2
  <2>6. clock' = clock
    BY <1>7 DEF Spawns
  <2> QED BY <2>2, <2>3, <2>4, <2>5, <2>6 DEF TimeInv, StartLimit
<1> QED BY <1>4, <1>5, <1>6, <1>7, TimeSteps
-----------------------------------------------------------------------------
(* Where the Runtimes are                                                  *)

\* Steps that move no Runtime and neither end nor begin a process.
LEMMA MainStays ==
  ASSUME MainInv,
         UNCHANGED <<startStep, stopStep, phase, record, registered, current>>,
         \A r \in Runtimes : /\ <<r, "start">> \in pending' <=> <<r, "start">> \in pending
                             /\ <<r, "stop">> \in pending' <=> <<r, "stop">> \in pending,
         pending' # {} => current # 0,
         current = 0 => ready' = ready,
         dispose' = "ready" => dispose = "ready" \/ current # 0,
         dispose' = "over" => dispose = "over" \/ current = 0,
         child' \in {"booting", "up"} => child \in {"booting", "up"}
  PROVE  MainInv'
<1>1. ASSUME NEW r \in Runtimes PROVE InMain(r)'
  BY DEF MainInv, InMain
<1>2. ProcessInv'
  BY DEF MainInv, ProcessInv
<1> QED BY <1>1, <1>2 DEF MainInv

LEMMA StartMain ==
  ASSUME NEW r \in Runtimes, TypeOK, MainInv, Start(r) PROVE MainInv'
<1>1. /\ phase[r] = "new" /\ MainIdle
      /\ UNCHANGED <<pending, dispose, record, registered, stopStep>>
  BY DEF Start
<1>2. startStep[r] \notin {"acquire", "request"} /\ stopStep[r] # "request"
  BY <1>1 DEF MainInv, InMain
<1>3. CASE Accepts /\ phase' = [phase EXCEPT ![r] = "starting"] /\ Acquires(r)
  <2>1. startStep' = [startStep EXCEPT ![r] = "acquire"]
    BY <1>3 DEF Acquires
  <2>2. current' # 0 /\ (current # 0 => current' = current)
    BY <1>3 DEF Acquires, processVars, TypeOK
  <2>3. current = 0 => pending = {}
    BY DEF MainInv, ProcessInv
  <2>4. ASSUME NEW q \in Runtimes PROVE InMain(q)'
    <3>1. InMain(q) /\ InMain(r)
      BY DEF MainInv
    <3>2. CASE q = r
      <4>1. startStep'[q] = "acquire" /\ phase'[q] = "starting"
        BY <1>3, <2>1, <3>2 DEF TypeOK
      <4>2. startStep[r] = "no"
        BY <1>1, <1>2, <3>1 DEF InMain
      <4> QED BY <1>1, <1>2, <2>2, <3>1, <3>2, <4>1, <4>2 DEF InMain
    <3>3. CASE q # r
      <4>1. startStep'[q] = startStep[q] /\ phase'[q] = phase[q]
        BY <1>3, <2>1, <3>3 DEF TypeOK
      <4> QED BY <1>1, <2>2, <2>3, <3>1, <4>1 DEF InMain
    <3> QED BY <3>2, <3>3
  <2>5. ProcessInv'
    BY <1>1, <1>3, <2>2, <2>3 DEF MainInv, ProcessInv, Accepts
  <2> QED BY <2>4, <2>5 DEF MainInv
<1>4. CASE phase' = [phase EXCEPT ![r] = "crashed"] /\ AcquireRefused(r)
  <2>1. startStep' = [startStep EXCEPT ![r] = "failed"]
        /\ UNCHANGED <<current, ready, child>>
    BY <1>4 DEF AcquireRefused, childVars
  <2>2. ASSUME NEW q \in Runtimes PROVE InMain(q)'
    <3>1. InMain(q)
      BY DEF MainInv
    <3>2. q = r => startStep'[q] = "failed" /\ phase'[q] = "crashed"
      BY <1>4, <2>1 DEF TypeOK
    <3>3. q # r => startStep'[q] = startStep[q] /\ phase'[q] = phase[q]
      BY <1>4, <2>1 DEF TypeOK
    <3> QED BY <1>1, <1>2, <2>1, <3>1, <3>2, <3>3 DEF InMain
  <2>3. ProcessInv'
    BY <1>1, <2>1 DEF MainInv, ProcessInv
  <2> QED BY <2>2, <2>3 DEF MainInv
<1> QED BY <1>3, <1>4 DEF Start

LEMMA AcquireDoneMain ==
  ASSUME NEW r \in Runtimes, TypeOK, MainInv, AcquireDone(r) PROVE MainInv'
<1>1. startStep[r] = "acquire" /\ ready # "waiting" /\ InMain(r)
  BY DEF AcquireDone, WokenStarts, MainInv
<1>2. /\ phase[r] = "starting" /\ r \notin registered
      /\ <<r, "start">> \notin pending /\ <<r, "stop">> \notin pending
      /\ stopStep[r] # "request" /\ (ready = "ready" => current # 0)
  BY <1>1 DEF InMain
<1>3. UNCHANGED <<current, ready, dispose, stopStep, child>>
  BY DEF AcquireDone, childVars
<1>4. /\ pending' \in {pending, pending \cup {<<r, "start">>}}
      /\ pending' # pending => current # 0
  BY <1>2 DEF AcquireDone, Asks, Refuses
<1>5. /\ \A q \in Runtimes \ {r} :
           /\ startStep'[q] = startStep[q] /\ phase'[q] = phase[q]
           /\ record'[q] = record[q] /\ (q \in registered' <=> q \in registered)
  BY DEF AcquireDone, TypeOK
<1>6. \A q \in Runtimes \ {r} : InMain(q)'
  <2>1. ASSUME NEW q \in Runtimes \ {r} PROVE InMain(q)'
    <3>1. InMain(q) /\ stopStep'[q] = stopStep[q]
      BY <1>3 DEF MainInv
    <3>2. /\ <<q, "start">> \in pending' <=> <<q, "start">> \in pending
          /\ <<q, "stop">> \in pending' <=> <<q, "stop">> \in pending
      BY <1>4
    <3> QED BY <1>3, <1>5, <3>1, <3>2 DEF InMain
  <2> QED BY <2>1
<1>7. InMain(r)'
  <2>1. CASE startStep'[r] = "failed" /\ phase'[r] = "crashed" /\ pending' = pending
    BY <1>1, <1>2, <1>3, <2>1 DEF InMain
  <2>2. CASE /\ Asks(<<r, "start">>) /\ startStep'[r] = "request" /\ phase'[r] = phase[r]
             /\ record'[r] = current /\ r \in registered' /\ current # 0
    <3>1. <<r, "start">> \in pending' /\ <<r, "stop">> \notin pending'
      BY <1>2, <2>2 DEF Asks
    <3> QED BY <1>1, <1>2, <1>3, <2>2, <3>1 DEF InMain
  <2> QED BY <1>2, <2>1, <2>2 DEF AcquireDone, Refuses, TypeOK
<1>8. ProcessInv'
  BY <1>3, <1>4 DEF MainInv, ProcessInv
<1> QED BY <1>6, <1>7, <1>8 DEF MainInv

LEMMA ExitHandledMain ==
  ASSUME TypeOK, MainInv, ExitHandled PROVE MainInv'
<1>1. /\ pending' = {} /\ registered' = {} /\ current' = 0
      /\ ready' = (IF ready = "waiting" THEN "failed" ELSE ready)
      /\ dispose' = (IF dispose \in {"no", "ready"} THEN dispose ELSE "over")
      /\ UNCHANGED <<record, child>> /\ MainIdle /\ child = "gone"
  BY DEF ExitHandled, Rejected, childVars
<1>2. ASSUME NEW r \in Runtimes PROVE InMain(r)'
  <2>1. InMain(r)
    BY DEF MainInv
  <2>2. startStep'[r] = IF startStep[r] = "request" THEN "failed" ELSE startStep[r]
    BY <2>1 DEF ExitHandled, Rejected, InMain
  <2>3. stopStep'[r] = IF stopStep[r] = "request" THEN "no" ELSE stopStep[r]
    BY <2>1 DEF ExitHandled, Rejected, InMain
  <2>4. /\ phase'[r] = "starting" <=> phase[r] = "starting" /\ r \notin registered
        /\ phase'[r] \in {"new", "starting", "stopped", "crashed"}
        /\ phase'[r] = "new" => phase[r] = "new"
    BY <2>1 DEF ExitHandled, PhaseAfterExit, ToldOfExit, Rejected, InMain, TypeOK, Phase
  <2>5. startStep[r] = "acquire" => ready' = "failed"
    BY <1>1 DEF MainIdle, WokenStarts
  <2> QED BY <1>1, <2>1, <2>2, <2>3, <2>4, <2>5 DEF InMain
<1>3. dispose' = "ready" => ready' = "failed"
  BY <1>1 DEF MainIdle, DisposeWoken
<1>4. ProcessInv'
  BY <1>1, <1>3 DEF ProcessInv
<1> QED BY <1>2, <1>4 DEF MainInv

LEMMA HandleResponseMain ==
  ASSUME TypeOK, MainInv, HandleResponse PROVE MainInv'
<1> DEFINE m == Head(messages)  c == m.call
<1>1. c \in Call
  <2>1. m \in Message
    BY ReadsType DEF TypeOK, ChildTypeOK, HandleResponse
  <2> QED BY <2>1 DEF Message
<1>2. /\ pending' = pending \ {c} /\ current # 0
      /\ UNCHANGED <<current, ready, dispose, record, child>>
  BY DEF HandleResponse, Reads, processVars, childVars
<1>3. ProcessInv'
  BY <1>2 DEF MainInv, ProcessInv
<1>4. CASE /\ c \notin pending \/ c[2] \in {"call", "dispose"}
           /\ UNCHANGED <<startStep, stopStep, phase, registered>>
  <2>1. \A q \in Runtimes : \A k \in {"start", "stop"} :
          <<q, k>> \in pending' <=> <<q, k>> \in pending
    BY <1>2, <1>4
  <2> QED BY <1>2, <1>3, <1>4, <2>1 DEF MainInv, InMain
<1>5. CASE c \in pending /\ c[2] = "start" /\ StartAnswered(c[1], m.ok)
  <2>1. PICK r \in Runtimes : c = <<r, "start">>
    BY <1>1, <1>5 DEF Call
  <2>2. InMain(r) /\ startStep[r] = "request"
    BY <1>5, <2>1 DEF MainInv, InMain
  <2>3. /\ startStep' = [startStep EXCEPT ![r] = IF m.ok THEN "ok" ELSE "failed"]
        /\ phase' = [phase EXCEPT ![r] = IF m.ok THEN "running" ELSE "crashed"]
        /\ UNCHANGED <<registered, stopStep>>
    <3> HIDE DEF m, c
    <3>1. c[1] = r
      BY <2>1
    <3> QED BY <1>5, <3>1 DEF StartAnswered
  <2>4. startStep'[r] \in {"ok", "failed"} /\ phase'[r] \in {"running", "crashed"}
    BY <2>1, <2>3 DEF TypeOK
  <2>5. <<r, "start">> \notin pending' /\ <<r, "stop">> \notin pending'
        /\ stopStep[r] # "request"
    BY <1>2, <2>1, <2>2 DEF InMain
  <2>6. InMain(r)'
    <3> HIDE DEF m, c
    <3> QED BY <1>2, <2>2, <2>3, <2>4, <2>5 DEF InMain
  <2>7. ASSUME NEW q \in Runtimes, q # r PROVE InMain(q)'
    <3>1. startStep'[q] = startStep[q] /\ phase'[q] = phase[q]
      BY <2>3, <2>7 DEF TypeOK
    <3>2. InMain(q) /\ pending' = pending \ {<<r, "start">>}
      BY <1>2, <2>1 DEF MainInv
    <3> HIDE DEF m, c
    <3>3. /\ <<q, "start">> \in pending' <=> <<q, "start">> \in pending
          /\ <<q, "stop">> \in pending' <=> <<q, "stop">> \in pending
      BY <2>7, <3>2
    <3> QED BY <1>2, <2>3, <2>7, <3>1, <3>2, <3>3 DEF InMain
  <2> HIDE DEF m, c
  <2>8. \A q \in Runtimes : InMain(q)'
    BY <2>6, <2>7
  <2> QED BY <1>3, <2>8 DEF MainInv
<1>6. CASE c \in pending /\ c[2] = "stop" /\ StopAnswered(c[1], m.ok)
  <2>1. PICK r \in Runtimes : c = <<r, "stop">>
    BY <1>1, <1>6 DEF Call
  <2>2. InMain(r) /\ stopStep[r] = "request" /\ phase[r] = "stopping"
    BY <1>6, <2>1 DEF MainInv, InMain
  <2>3. /\ stopStep' = [stopStep EXCEPT ![r] = "no"]
        /\ phase' = [phase EXCEPT ![r] = IF m.ok THEN "stopped" ELSE "crashed"]
        /\ registered' \in {registered, registered \ {r}}
        /\ UNCHANGED startStep
    <3> HIDE DEF m, c
    <3>1. c[1] = r
      BY <2>1
    <3> QED BY <1>6, <3>1 DEF StopAnswered, AfterStop, RegisteredAfter
  <2>4. stopStep'[r] = "no" /\ phase'[r] \in {"stopped", "crashed"}
    BY <2>1, <2>3 DEF TypeOK
  <2>5. <<r, "start">> \notin pending' /\ <<r, "stop">> \notin pending'
        /\ startStep[r] \notin {"acquire", "request"}
    BY <1>2, <2>1, <2>2 DEF InMain
  <2>6. InMain(r)'
    <3> HIDE DEF m, c
    <3> QED BY <1>2, <2>2, <2>3, <2>4, <2>5 DEF InMain
  <2>7. ASSUME NEW q \in Runtimes, q # r PROVE InMain(q)'
    <3>1. /\ stopStep'[q] = stopStep[q] /\ phase'[q] = phase[q]
          /\ q \in registered' <=> q \in registered
      BY <2>3, <2>7 DEF TypeOK
    <3>2. InMain(q) /\ pending' = pending \ {<<r, "stop">>}
      BY <1>2, <2>1 DEF MainInv
    <3> HIDE DEF m, c
    <3>3. /\ <<q, "start">> \in pending' <=> <<q, "start">> \in pending
          /\ <<q, "stop">> \in pending' <=> <<q, "stop">> \in pending
      BY <2>7, <3>2
    <3> QED BY <1>2, <2>3, <2>7, <3>1, <3>2, <3>3 DEF InMain
  <2> HIDE DEF m, c
  <2>8. \A q \in Runtimes : InMain(q)'
    BY <2>6, <2>7
  <2> QED BY <1>3, <2>8 DEF MainInv
<1> QED BY <1>4, <1>5, <1>6 DEF HandleResponse

LEMMA StopMain ==
  ASSUME NEW r \in Runtimes, TypeOK, MainInv, Stop(r) \/ StopAfterStart(r)
  PROVE  MainInv'
<1>1. /\ stopStep[r] # "request" /\ InMain(r)
      /\ UNCHANGED <<current, ready, dispose, record, registered, startStep, child>>
  BY DEF Stop, StopAfterStart, WokenStops, MainInv, childVars
<1>2. CASE stopStep' = [stopStep EXCEPT ![r] = "start"] /\ UNCHANGED <<phase, pending>>
  <2>1. ASSUME NEW q \in Runtimes PROVE InMain(q)'
    <3>1. stopStep'[q] = "request" <=> stopStep[q] = "request"
      BY <1>1, <1>2 DEF TypeOK
    <3> QED BY <1>1, <1>2, <3>1 DEF MainInv, InMain
  <2>2. ProcessInv'
    BY <1>1, <1>2 DEF MainInv, ProcessInv
  <2> QED BY <2>1, <2>2 DEF MainInv
<1>3. CASE StopProceeds(r) /\ phase[r] # "starting"
  <2>1. startStep[r] \notin {"acquire", "request"} /\ <<r, "start">> \notin pending
        /\ <<r, "stop">> \notin pending
    BY <1>1, <1>3 DEF InMain
  <2>2. /\ pending' \in {pending, pending \cup {<<r, "stop">>}}
        /\ pending' # pending => current # 0
    BY <1>3 DEF StopProceeds, Asks, Refuses, Exited
  <2>3. ASSUME NEW q \in Runtimes, q # r PROVE InMain(q)'
    <3>1. stopStep'[q] = stopStep[q] /\ phase'[q] = phase[q]
      BY <1>3, <2>3 DEF TypeOK, StopProceeds
    <3>2. InMain(q)
      BY DEF MainInv
    <3>3. /\ <<q, "start">> \in pending' <=> <<q, "start">> \in pending
          /\ <<q, "stop">> \in pending' <=> <<q, "stop">> \in pending
      BY <2>2, <2>3
    <3> QED BY <1>1, <3>1, <3>2, <3>3 DEF InMain
  <2>4. ASSUME stopStep'[r] = "no", phase'[r] \in {"stopped", "crashed"}, pending' = pending
        PROVE  InMain(r)'
    BY <1>1, <2>1, <2>4 DEF InMain
  <2>5. ASSUME stopStep'[r] = "request", phase'[r] = "stopping",
               pending' = pending \cup {<<r, "stop">>}, ~Exited(r), r \in registered
        PROVE  InMain(r)'
    <3>1. <<r, "stop">> \in pending' /\ <<r, "start">> \notin pending'
      BY <2>1, <2>5
    <3> QED BY <1>1, <2>1, <2>5, <3>1 DEF InMain, Exited
  <2>6. InMain(r)'
    BY <1>3, <2>4, <2>5 DEF StopProceeds, Asks, Refuses, TypeOK
  <2>7. ProcessInv'
    BY <1>1, <2>2 DEF MainInv, ProcessInv
  <2> QED BY <2>3, <2>6, <2>7 DEF MainInv
<1>4. StopAfterStart(r) => phase[r] # "starting"
  BY <1>1 DEF StopAfterStart, WokenStops, InMain
<1> QED BY <1>2, <1>3, <1>4 DEF Stop, StopAfterStart, StartIsAwaited

LEMMA OtherMain ==
  ASSUME TypeOK, MainInv,
         \/ Tick \/ ReadyTimeout \/ HandleReady \/ HandleExitEvent
         \/ Dispose \/ DisposeProceeds \/ DisposeTimeout \/ ChildDies
         \/ \E r \in Runtimes : CallRuntime(r)
         \/ (Child \/ Outside) /\ UNCHANGED mainVars
  PROVE  MainInv'
<1>1. CASE Tick \/ ReadyTimeout \/ HandleReady \/ HandleExitEvent \/ Dispose \/ DisposeTimeout
  <2>1. UNCHANGED <<startStep, stopStep, phase, record, registered, current, pending, child>>
    BY <1>1 DEF Tick, ReadyTimeout, HandleReady, HandleExitEvent, Dispose, DisposeTimeout,
                runtimeVars, processVars, childVars
  <2>2. /\ current = 0 => ready' = ready
        /\ dispose' = "ready" => dispose = "ready" \/ current # 0
        /\ dispose' = "over" => dispose = "over" \/ current = 0
    BY <1>1 DEF Tick, ReadyTimeout, HandleReady, HandleExitEvent, Dispose, DisposeTimeout,
                Reads, processVars
  <2>3. pending' # {} => current # 0
    BY <2>1 DEF MainInv, ProcessInv
  <2> QED BY <2>1, <2>2, <2>3, MainStays
<1>2. CASE DisposeProceeds \/ \E r \in Runtimes : CallRuntime(r)
  <2>1. /\ UNCHANGED <<startStep, stopStep, phase, record, registered, current, ready, child>>
        /\ \/ dispose' \notin {"ready", "over"} \/ dispose' = dispose
           \/ dispose' = "over" /\ current = 0
    BY <1>2 DEF DisposeProceeds, CallRuntime, runtimeVars, childVars
  <2>2. \/ pending' = pending
        \/ \E c \in {<<Host, "dispose">>} \cup {<<r, "call">> : r \in Runtimes} :
             pending' = pending \cup {c}
    BY <1>2 DEF DisposeProceeds, CallRuntime, Asks, Refuses
  <2>3. \A r \in Runtimes : /\ <<r, "start">> \in pending' <=> <<r, "start">> \in pending
                            /\ <<r, "stop">> \in pending' <=> <<r, "stop">> \in pending
    BY <2>2
  <2>4. pending' # {} => current # 0
    <3>1. pending' = pending \/ current # 0
      BY <1>2 DEF DisposeProceeds, CallRuntime, DisposeWoken, Exited, MainInv, ProcessInv
    <3> QED BY <2>1, <3>1 DEF MainInv, ProcessInv
  <2> QED BY <2>1, <2>3, <2>4, MainStays
<1>3. CASE ChildDies \/ ((Child \/ Outside) /\ UNCHANGED mainVars)
  <2>1. UNCHANGED <<startStep, stopStep, phase, record, registered, current, pending,
                    ready, dispose>>
    BY <1>3 DEF ChildDies, mainVars, processVars, runtimeVars
  <2>2. child' \in {"booting", "up"} => child \in {"booting", "up"}
    BY <1>3 DEF ChildDies, Leaves, Child, Outside, Boot, TakeStart, TakeCall, TakeStop,
                TakeDispose, ShutdownRequested, CreateFails, CreateDone, DiscardEnds,
                CancelEnds, StopResumes, StopEnds, SwitchesFile, HostDisposed
  <2>3. pending' # {} => current # 0
    BY <2>1 DEF MainInv, ProcessInv
  <2> QED BY <2>1, <2>2, <2>3, MainStays
<1> QED BY <1>1, <1>2, <1>3

LEMMA MainKept ==
  ASSUME TypeOK, MainInv, [Next]_vars PROVE MainInv'
<1>1. CASE UNCHANGED vars
  BY <1>1 DEF vars, mainVars, processVars, runtimeVars, childVars, MainInv, InMain, ProcessInv
<1>2. ASSUME NEW r \in Runtimes,
             Start(r) \/ AcquireDone(r) \/ Stop(r) \/ StopAfterStart(r)
      PROVE  MainInv'
  BY <1>2, StartMain, AcquireDoneMain, StopMain
<1>3. CASE HandleResponse \/ ExitHandled
  BY <1>3, HandleResponseMain, ExitHandledMain
<1> QED BY <1>1, <1>2, <1>3, OtherMain DEF Next, Main, Kernel

-----------------------------------------------------------------------------
(* The invariant                                                           *)

\* Main reaches into the child only by ending it.
LEMMA ChildKept ==
  ASSUME TypeOK, ChildInv, [Next]_vars PROVE ChildInv'
<1>1. CASE (Child \/ Outside) /\ UNCHANGED mainVars
  BY <1>1, ChildKeepsInv DEF TypeOK
<1>2. CASE ChildDies
  BY <1>2, LeavesInv DEF ChildDies
<1>3. ASSUME NEW r \in Runtimes, Start(r) PROVE ChildInv'
  <2>1. UNCHANGED servedVars
    BY <1>3 DEF Start, Acquires, AcquireRefused, childVars
  <2> QED BY <2>1, NothingChanges DEF invVars, servedVars
<1>4. ASSUME \/ UNCHANGED vars
             \/ Main \/ Tick \/ Dispose
             \/ \E r \in Runtimes : Stop(r) \/ CallRuntime(r)
      PROVE  ChildInv'
  <2>1. UNCHANGED childVars
    BY <1>4 DEF vars, Main, HandleReady, HandleExitEvent, HandleResponse, ExitHandled,
                DisposeProceeds, DisposeTimeout, ReadyTimeout, AcquireDone, StopAfterStart,
                Tick, Dispose, Stop, CallRuntime
  <2> QED BY <2>1, NothingChanges DEF invVars, childVars, servedVars
<1> QED BY <1>1, <1>2, <1>3, <1>4 DEF Next, Kernel

LEMMA InitInv == Init => IInv
<1> SUFFICES ASSUME Init PROVE IInv
  OBVIOUS
<1>1. Cardinality(pending) = 0 /\ IsFiniteSet(pending) /\ IsFiniteSet(spawned)
  BY FS_EmptySet DEF Init
<1>2. ChildTypeOK
  <2>1. requests \in Seq(Call) /\ messages \in Seq(Message)
    BY DEF Init
  <2> QED BY <2>1 DEF Init, ChildTypeOK, FreshChild, Phase
<1>3. TypeOK
  BY <1>1, <1>2 DEF Init, TypeOK, Phase
<1>4. TimeInv
  <2>1. \A t \in 0 .. clock : InWindow(spawned, t) = {}
    BY DEF Init, InWindow
  <2>2. Cardinality({}) = 0
    BY FS_EmptySet
  <2> QED BY <1>1, <2>1, <2>2 DEF TimeInv, StartLimit, InWindow, Init
<1>5. MainInv
  BY DEF Init, MainInv, InMain, ProcessInv
<1>6. ChildInv
  BY DEF Init, FreshChild, ChildInv, Nested, WellPlaced, FilesDiffer, Busy
<1> QED BY <1>1, <1>3, <1>4, <1>5, <1>6 DEF IInv

LEMMA StepInv == IInv /\ [Next]_vars => IInv'
BY TypesKept, TimeKept, MainKept, ChildKept DEF IInv

LEMMA SpecInv == Spec => []IInv
BY InitInv, StepInv, PTL DEF Spec

-----------------------------------------------------------------------------
(* What is on the way between Main and the child                           *)

\* A request that is anywhere on its way is pending, and in one place only.
Channels(c) == Single(c) /\ (Outstanding(c) => c \in pending)

\* Registered is who has its record on the live process, until it is stopped.
Registry(r) ==
  /\ r \in registered => record[r] = current /\ current # 0
  /\ record[r] = current /\ current # 0 /\ r \notin registered => phase[r] = "stopped"

\* What the listeners of a Runtime have heard, with the state of its start.
Failing(r) == messages # <<>> /\ Head(messages) = Response(<<r, "start">>, FALSE)
Tellings(r) ==
  /\ startStep[r] \in {"no", "acquire"} => told[r] = 0
  /\ startStep[r] = "request" => told[r] = 0 \/ Failing(r)
  /\ startStep[r] = "ok" =>
       /\ told[r] \in {0, 1} /\ (r \in registered => told[r] = 0)
       /\ phase[r] = "crashed" /\ r \notin registered => told[r] = 1

StopHolds(r) == phase[r] = "stopped" /\ record[r] = current /\ current # 0 => Released(r)

Sent ==
  /\ Down /\ ~Has(messages, OddExits)
  /\ \A r \in Runtimes :
       Channels(<<r, "start">>) /\ Channels(<<r, "stop">>) /\ ExitFirst(r) /\ StopOk(r)
Books(r) == Registry(r) /\ Tellings(r) /\ StopHolds(r)

AInv == IInv /\ Sent /\ \A r \in Runtimes : Books(r)

LEMMA StartIsOut ==
  ASSUME MainInv, Sent, NEW r \in Runtimes, Outstanding(<<r, "start">>)
  PROVE  startStep[r] = "request" /\ phase[r] = "starting" /\ stopStep[r] # "request"
BY DEF MainInv, InMain, Sent, Channels

LEMMA StopIsOut ==
  ASSUME MainInv, Sent, NEW r \in Runtimes, Outstanding(<<r, "stop">>)
  PROVE  /\ stopStep[r] = "request" /\ phase[r] = "stopping"
         /\ startStep[r] \notin {"acquire", "request"} /\ ~Outstanding(<<r, "start">>)
BY DEF MainInv, InMain, Sent, Channels

LEMMA StopWasAnswered ==
  ASSUME NEW r, Has(messages, {Response(<<r, "stop">>, TRUE)})
  PROVE  Outstanding(<<r, "stop">>)
BY DEF Has, Outstanding, AnswersTo

\* The next message is read.
LEMMA ReadChannels ==
  ASSUME messages \in Seq(Message), NEW c, Single(c), messages # <<>>,
         messages' = Tail(messages), UNCHANGED <<requests, cStart, asked>>
  PROVE  /\ Single(c)' /\ (Outstanding(c)' => Outstanding(c))
         /\ Head(messages) \in AnswersTo(c) => ~Outstanding(c)'
<1> DEFINE A == AnswersTo(c)
<1>1. /\ Has(messages', A) => Has(messages, A)
      /\ Once(messages, A) => Once(messages', A)
      /\ Once(messages, A) /\ Head(messages) \in A => ~Has(messages', A)
  BY TailHas
<1>2. Head(messages) \in A => Has(messages, A)
  <2>1. 1 \in 1 .. Len(messages) /\ Head(messages) = messages[1]
    BY EmptySeq, HeadTailProperties
  <2> QED BY <2>1 DEF Has
<1>3. A' = A /\ (Works(c)' <=> Works(c))
  BY DEF AnswersTo, Works
<1> HIDE DEF A
<1> QED BY <1>1, <1>2, <1>3 DEF Single, Outstanding, A

\* Main asks for something that was not asked for before.
LEMMA AskChannels ==
  ASSUME requests \in Seq(Call), NEW d \in Call,
         Asks(d) \/ Refuses(d) \/ UNCHANGED <<pending, requests>>,
         UNCHANGED <<messages, cStart, asked>>,
         NEW c, Channels(c), c = d => c \notin pending
  PROVE  Channels(c)'
<1> DEFINE A == AnswersTo(c)
<1>1. A' = A /\ (Works(c)' <=> Works(c))
  BY DEF AnswersTo, Works
<1>2. CASE UNCHANGED <<pending, requests>>
  BY <1>1, <1>2 DEF Channels, Single, Outstanding
<1>3. CASE requests' = Append(requests, d) /\ pending' = pending \cup {d}
  <2>1. /\ Has(requests', {c}) <=> Has(requests, {c}) \/ d \in {c}
        /\ Once(requests, {c}) /\ ~(d \in {c} /\ Has(requests, {c})) => Once(requests', {c})
    BY <1>3, AppendHas
  <2> HIDE DEF A
  <2> QED BY <1>1, <1>3, <2>1 DEF Channels, Single, Outstanding, A
<1>4. CASE requests' = requests /\ pending' = pending \cup {d}
  BY <1>1, <1>4 DEF Channels, Single, Outstanding
<1> QED BY <1>2, <1>3, <1>4 DEF Asks, Refuses

LEMMA ChildSent ==
  ASSUME IInv, Sent, Child \/ Outside, UNCHANGED mainVars PROVE Sent'
<1>1. ChildTypeOK /\ ChildInv /\ MainInv /\ pending' = pending
  BY DEF IInv, TypeOK, mainVars
<1>2. Down'
  BY DownKept DEF Sent
<1>3. ASSUME NEW r \in Runtimes, NEW k \in {"start", "stop"}, Channels(<<r, k>>)
      PROVE  Channels(<<r, k>>)'
  BY <1>1, <1>3, ChildMoves DEF Channels, Moved
<1>4. ASSUME NEW r \in Runtimes PROVE ExitFirst(r)'
  BY <1>1, ExitFirstKept DEF Sent
<1>5. ASSUME NEW r \in Runtimes PROVE StopOk(r)'
  BY <1>1, StopWasAnswered, StopIsOut, StopOkKept DEF Sent
<1>6. ~Has(messages', OddExits)
  BY <1>1, NoOddExits DEF Sent
<1> QED BY <1>2, <1>3, <1>4, <1>5, <1>6 DEF Sent, OddExits

\* Neither a request nor a message moves, nor what the child knows.
LEMMA StillSent ==
  ASSUME Sent, UNCHANGED <<childVars, requests, messages, pending>> PROVE Sent'
<1>1. Down'
  BY DEF Sent, Down, FreshChild, childVars, hostVars, servedVars
<1>2. ASSUME NEW r \in Runtimes, NEW k \in {"start", "stop"}, Channels(<<r, k>>)
      PROVE  Channels(<<r, k>>)'
  BY <1>2 DEF Channels, Single, Outstanding, Works, AnswersTo, childVars, servedVars
<1>3. ASSUME NEW r \in Runtimes PROVE ExitFirst(r)' /\ StopOk(r)'
  BY DEF Sent, ExitFirst, StopOk, Released, childVars, servedVars
<1> QED BY <1>1, <1>2, <1>3 DEF Sent

\* The process is gone: what it had not read is lost, what it said is not.
LEMMA DiesSent == ASSUME IInv, Sent, ChildDies PROVE Sent'
<1>1. requests' = <<>> /\ messages' = messages /\ pending' = pending
  BY DEF ChildDies, Leaves, mainVars
<1>2. Down'
  BY DEF ChildDies, Leaves, Down, FreshChild
<1>3. ASSUME NEW r \in Runtimes, NEW k \in {"start", "stop"}, Channels(<<r, k>>)
      PROVE  Channels(<<r, k>>)'
  <2>1. ~Works(<<r, k>>)'
    BY DEF ChildDies, Leaves, Works, Busy
  <2>2. ~Has(requests', {<<r, k>>}) /\ Once(requests', {<<r, k>>})
    BY <1>1 DEF Has, Once
  <2> QED BY <1>1, <1>3, <2>1, <2>2 DEF Channels, Single, Outstanding, AnswersTo
<1>4. ASSUME NEW r \in Runtimes PROVE ExitFirst(r)' /\ StopOk(r)'
  <2>1. Released(r)'
    BY DEF ChildDies, Leaves, Released
  <2> QED BY <1>1, <2>1 DEF Sent, ExitFirst, StopOk
<1>5. ~Has(messages', OddExits)
  BY <1>1 DEF Sent
<1> QED BY <1>2, <1>3, <1>4, <1>5 DEF Sent

\* What the process said is forgotten, and nothing waits in the other direction.
LEMMA NothingSent ==
  ASSUME messages' = <<>>, UNCHANGED <<hostVars, servedVars, requests>>, FreshChild,
         child' = "gone" => requests = <<>>,
         \A r \in Runtimes : \A k \in {"start", "stop"} : ~Has(requests, {<<r, k>>})
  PROVE  Sent'
<1>1. Down'
  BY DEF Down, FreshChild, hostVars, servedVars
<1>2. ASSUME NEW r \in Runtimes, NEW k \in {"start", "stop"} PROVE Channels(<<r, k>>)'
  <2>1. ~Works(<<r, k>>)'
    BY DEF FreshChild, Works, Busy, servedVars
  <2>2. \A C : ~Has(<<>>, C) /\ Once(<<>>, C)
    BY DEF Has, Once
  <2>3. ~Has(requests, {<<r, k>>}) /\ Once(requests, {<<r, k>>})
    BY DEF Has, Once
  <2> QED BY <2>1, <2>2, <2>3 DEF Channels, Single, Outstanding
<1>3. ASSUME NEW r \in Runtimes PROVE ExitFirst(r)' /\ StopOk(r)'
  BY DEF ExitFirst, StopOk, Has
<1>4. ~Has(messages', OddExits)
  BY DEF Has
<1> QED BY <1>1, <1>2, <1>3, <1>4 DEF Sent

LEMMA ExitSent == ASSUME IInv, Sent, ExitHandled PROVE Sent'
<1>1. child = "gone" /\ requests = <<>> /\ FreshChild
  BY DEF ExitHandled, Sent, Down
<1>2. \A C : ~Has(requests, C)
  BY <1>1 DEF Has
<1> QED BY <1>1, <1>2, NothingSent DEF ExitHandled, childVars

\* A new process has heard of nothing.
LEMMA StartSent == ASSUME IInv, Sent, NEW r \in Runtimes, Start(r) PROVE Sent'
<1>1. CASE UNCHANGED <<childVars, messages>>
  BY <1>1, StillSent DEF Start
<1>2. CASE /\ current = 0 /\ child' = "booting" /\ messages' = <<>>
           /\ UNCHANGED <<hostVars, servedVars, requests>>
  <2>1. child # "up" /\ pending = {}
    BY <1>2 DEF IInv, MainInv, ProcessInv
  <2>2. FreshChild
    BY <2>1 DEF Sent, Down
  <2>3. \A q \in Runtimes : \A k \in {"start", "stop"} : ~Has(requests, {<<q, k>>})
    BY <2>1 DEF Sent, Channels, Outstanding
  <2> QED BY <1>2, <2>2, <2>3, NothingSent
<1> QED BY <1>1, <1>2 DEF Start, Acquires, AcquireRefused

LEMMA AskSent ==
  ASSUME IInv, Sent, NEW d \in Call,
         (Asks(d) /\ current # 0) \/ Refuses(d) \/ UNCHANGED <<pending, requests>>,
         d[2] \in {"start", "stop"} => d \notin pending,
         UNCHANGED <<childVars, messages>>
  PROVE  Sent'
<1>1. requests \in Seq(Call) /\ UNCHANGED <<cStart, asked>>
  BY DEF IInv, TypeOK, ChildTypeOK, childVars, servedVars
<1>2. ASSUME NEW r \in Runtimes, NEW k \in {"start", "stop"}, Channels(<<r, k>>)
      PROVE  Channels(<<r, k>>)'
  BY <1>1, <1>2, AskChannels
<1>3. child = "gone" => requests' = requests
  BY DEF Asks, Refuses
<1>4. Down'
  BY <1>3 DEF Sent, Down, FreshChild, childVars, hostVars, servedVars
<1>5. ASSUME NEW r \in Runtimes PROVE ExitFirst(r)' /\ StopOk(r)'
  BY DEF Sent, ExitFirst, StopOk, Released, childVars, servedVars
<1> QED BY <1>2, <1>4, <1>5 DEF Sent

\* A message that is read leaves the others in their order.
LEMMA ReadOrder ==
  ASSUME messages \in Seq(Message), messages # <<>>, messages' = Tail(messages),
         NEW r, ExitFirst(r)
  PROVE  /\ ExitFirst(r)'
         /\ Head(messages) = ExitEvent(r) => Failing(r)'
<1> DEFINE exit == ExitEvent(r)  answer == Response(<<r, "start">>, FALSE)
<1>1. /\ Len(messages) \in Nat /\ Len(messages) >= 1 /\ Head(messages) = messages[1]
      /\ Len(messages') = Len(messages) - 1 /\ messages' \in Seq(Message)
      /\ \A i \in 1 .. Len(messages') : messages'[i] = messages[i + 1]
  BY HeadTailProperties, EmptySeq
<1>2. \A i \in 1 .. Len(messages) : messages[i] = exit =>
        i < Len(messages) /\ messages[i + 1] = answer
  BY DEF ExitFirst
<1> HIDE DEF exit, answer
<1>3. ASSUME NEW i \in 1 .. Len(messages'), messages'[i] = exit
      PROVE  i < Len(messages') /\ messages'[i + 1] = answer
  <2>1. i + 1 \in 1 .. Len(messages) /\ messages[i + 1] = exit
    BY <1>1, <1>3
  <2>2. i + 1 < Len(messages) /\ messages[(i + 1) + 1] = answer
    BY <1>2, <2>1
  <2>3. i + 1 \in 1 .. Len(messages')
    BY <1>1, <2>2
  <2> QED BY <1>1, <2>2, <2>3
<1>4. ASSUME Head(messages) = exit PROVE messages' # <<>> /\ Head(messages') = answer
  <2>1. 1 < Len(messages) /\ messages[1 + 1] = answer
    BY <1>1, <1>2, <1>4
  <2>2. 1 \in 1 .. Len(messages')
    BY <1>1, <2>1
  <2>3. messages'[1] = answer
    BY <1>1, <2>1, <2>2
  <2>4. messages' # <<>>
    <3>1. Len(messages') # 0
      BY <1>1, <2>2
    <3>2. Len(<<>>) = 0
      BY EmptySeq
    <3> QED BY <3>1, <3>2
  <2> QED BY <1>1, <2>3, <2>4, HeadTailProperties
<1>5. \A i \in 1 .. Len(messages') : messages'[i] = exit =>
        i < Len(messages') /\ messages'[i + 1] = answer
  BY <1>3
<1>6. ExitFirst(r)'
  BY <1>5 DEF ExitFirst, exit, answer, ExitEvent, Response
<1>7. Head(messages) = ExitEvent(r) => Failing(r)'
  BY <1>4 DEF Failing, exit, answer, ExitEvent, Response
<1> QED BY <1>6, <1>7

LEMMA ReadSent ==
  ASSUME IInv, Sent, HandleReady \/ HandleExitEvent \/ HandleResponse PROVE Sent'
<1>1. /\ messages \in Seq(Message) /\ messages # <<>> /\ messages' = Tail(messages)
      /\ UNCHANGED <<childVars, requests>>
  BY DEF IInv, TypeOK, ChildTypeOK, HandleReady, HandleExitEvent, HandleResponse, Reads
<1>2. Down'
  BY <1>1 DEF Sent, Down, FreshChild, childVars, hostVars, servedVars
<1>3. \/ pending' = pending
      \/ /\ Head(messages).type = "response" /\ pending' = pending \ {Head(messages).call}
  BY DEF HandleReady, HandleExitEvent, HandleResponse, Reads
<1>4. ASSUME NEW r \in Runtimes, NEW k \in {"start", "stop"}, Channels(<<r, k>>)
      PROVE  Channels(<<r, k>>)'
  <2> DEFINE c == <<r, k>>
  <2>1. /\ Single(c)' /\ (Outstanding(c)' => Outstanding(c))
        /\ Head(messages) \in AnswersTo(c) => ~Outstanding(c)'
    BY <1>1, <1>4, ReadChannels DEF Channels, childVars, servedVars
  <2>2. Head(messages).type = "response" /\ Head(messages).call = c
          => Head(messages) \in AnswersTo(c)
    <3>1. Head(messages) \in Message
      BY <1>1, HeadTailProperties
    <3> QED BY <3>1 DEF Message, AnswersTo, Response
  <2> HIDE DEF c
  <2> QED BY <1>3, <1>4, <2>1, <2>2 DEF Channels, c
<1>5. ASSUME NEW r \in Runtimes PROVE ExitFirst(r)' /\ StopOk(r)'
  <2>1. Has(messages', {Response(<<r, "stop">>, TRUE)})
          => Has(messages, {Response(<<r, "stop">>, TRUE)})
    BY <1>1, TailHas
  <2>2. ExitFirst(r)'
    BY <1>1, ReadOrder DEF Sent
  <2> QED BY <1>1, <2>1, <2>2 DEF Sent, StopOk, Released, Response, childVars, servedVars
<1>6. ~Has(messages', OddExits)
  BY <1>1, TailHas DEF Sent
<1> QED BY <1>2, <1>4, <1>5, <1>6 DEF Sent

\* The channels are kept by every step.
LEMMA SentKept == ASSUME IInv, Sent, [Next]_vars PROVE Sent'
<1>1. CASE UNCHANGED vars \/ Tick \/ ReadyTimeout \/ Dispose \/ DisposeTimeout
  <2>1. UNCHANGED <<childVars, requests, messages, pending>>
    BY <1>1 DEF vars, mainVars, Tick, ReadyTimeout, Dispose, DisposeTimeout
  <2> QED BY <2>1, StillSent
<1>2. CASE HandleReady \/ HandleExitEvent \/ HandleResponse
  BY <1>2, ReadSent
<1>3. CASE ExitHandled \/ ChildDies
  BY <1>3, ExitSent, DiesSent
<1>4. CASE (Child \/ Outside) /\ UNCHANGED mainVars
  BY <1>4, ChildSent
<1>5. CASE DisposeProceeds
  <2>1. <<Host, "dispose">> \in Call /\ UNCHANGED <<childVars, messages>>
    BY <1>5 DEF DisposeProceeds, Call
  <2>2. \/ UNCHANGED <<pending, requests>>
        \/ Asks(<<Host, "dispose">>) /\ current # 0
        \/ Refuses(<<Host, "dispose">>)
    BY <1>5 DEF DisposeProceeds, DisposeWoken, IInv, MainInv, ProcessInv
  <2> QED BY <2>1, <2>2, AskSent
<1>6. ASSUME NEW r \in Runtimes, Start(r) \/ AcquireDone(r) \/ Stop(r) \/ StopAfterStart(r)
                                 \/ CallRuntime(r)
      PROVE  Sent'
  <2>1. <<r, "start">> \in Call /\ <<r, "stop">> \in Call /\ <<r, "call">> \in Call
    BY DEF Call
  <2>2. InMain(r)
    BY DEF IInv, MainInv
  <2>3. CASE AcquireDone(r)
    <3>1. startStep[r] = "acquire" /\ UNCHANGED <<childVars, messages>>
      BY <2>3 DEF AcquireDone, WokenStarts
    <3>2. <<r, "start">> \notin pending
      BY <2>2, <3>1 DEF InMain
    <3>3. \/ UNCHANGED <<pending, requests>>
          \/ Asks(<<r, "start">>) /\ current # 0
          \/ Refuses(<<r, "start">>)
      BY <2>2, <2>3, <3>1 DEF AcquireDone, InMain
    <3> QED BY <2>1, <3>1, <3>2, <3>3, AskSent
  <2>4. CASE Stop(r) \/ StopAfterStart(r)
    <3>1. stopStep[r] # "request" /\ UNCHANGED <<childVars, messages>>
      BY <2>4 DEF Stop, StopAfterStart, WokenStops
    <3>2. <<r, "stop">> \notin pending
      BY <2>2, <3>1 DEF InMain
    <3>3. \/ UNCHANGED <<pending, requests>>
          \/ Asks(<<r, "stop">>) /\ current # 0
          \/ Refuses(<<r, "stop">>)
      BY <2>4 DEF Stop, StopAfterStart, StopProceeds, Exited
    <3> QED BY <2>1, <3>1, <3>2, <3>3, AskSent
  <2>5. CASE CallRuntime(r)
    <3>1. /\ UNCHANGED <<childVars, messages>> /\ <<r, "call">>[2] = "call"
          /\ (Asks(<<r, "call">>) /\ current # 0) \/ Refuses(<<r, "call">>)
      BY <2>5 DEF CallRuntime, Exited
    <3> QED BY <2>1, <3>1, AskSent
  <2> QED BY <1>6, <2>3, <2>4, <2>5, StartSent
<1> QED BY <1>1, <1>2, <1>3, <1>4, <1>5, <1>6 DEF Next, Main, Kernel

\* The books of Main know nothing more or less of a Runtime.
Stays(r) ==
  /\ startStep'[r] = startStep[r] /\ phase'[r] = phase[r]
  /\ r \in registered' <=> r \in registered

\* What the answer that is read does to a Runtime.
LEMMA AnswerDoes ==
  ASSUME TypeOK, MainInv, HandleResponse, NEW r \in Runtimes
  PROVE  \/ Stays(r) /\ (startStep[r] = "request" => ~Failing(r))
         \/ /\ Head(messages) = Response(<<r, "start">>, TRUE) /\ startStep[r] = "request"
            /\ startStep'[r] = "ok" /\ phase'[r] = "running"
            /\ r \in registered' <=> r \in registered
         \/ /\ startStep[r] = "request" /\ startStep'[r] = "failed" /\ phase'[r] = "crashed"
            /\ r \in registered' <=> r \in registered
         \/ /\ Head(messages) = Response(<<r, "stop">>, TRUE) /\ phase[r] = "stopping"
            /\ startStep'[r] = startStep[r] /\ phase'[r] = "stopped" /\ r \notin registered'
         \/ /\ phase[r] = "stopping"
            /\ startStep'[r] = startStep[r] /\ phase'[r] = "crashed"
            /\ r \in registered' <=> r \in registered
<1> DEFINE m == Head(messages)  c == m.call
<1>1. m \in Message /\ m.type = "response" /\ c \in Call /\ m.ok \in BOOLEAN
  <2>1. m \in Message /\ m.type = "response"
    BY ReadsType DEF TypeOK, ChildTypeOK, HandleResponse
  <2> QED BY <2>1 DEF Message
<1>2. m = Response(c, m.ok)
  BY <1>1 DEF Message, Response
<1>3. /\ startStep[r] = "request" <=> <<r, "start">> \in pending
      /\ <<r, "stop">> \in pending => phase[r] = "stopping"
  BY DEF MainInv, InMain
<1>4. CASE /\ c \notin pending \/ c[2] \in {"call", "dispose"}
           /\ UNCHANGED <<startStep, stopStep, phase, registered>>
  <2>1. Failing(r) => c = <<r, "start">>
    BY DEF Failing, Response
  <2> HIDE DEF m, c
  <2>2. Stays(r)
    BY <1>4 DEF Stays
  <2>3. startStep[r] = "request" => ~Failing(r)
    BY <1>3, <1>4, <2>1
  <2> QED BY <2>2, <2>3
<1>5. CASE c \in pending /\ c[2] = "start" /\ StartAnswered(c[1], m.ok)
  <2>1. PICK q \in Runtimes : c = <<q, "start">>
    BY <1>1, <1>5 DEF Call
  <2>2. c[1] = q
    BY <2>1
  <2>3. /\ startStep' = [startStep EXCEPT ![q] = IF m.ok THEN "ok" ELSE "failed"]
        /\ phase' = [phase EXCEPT ![q] = IF m.ok THEN "running" ELSE "crashed"]
        /\ registered' = registered
    <3> HIDE DEF m, c
    <3> QED BY <1>5, <2>2 DEF StartAnswered
  <2>4. CASE q # r
    <3>1. startStep'[r] = startStep[r] /\ phase'[r] = phase[r]
      BY <2>3, <2>4 DEF TypeOK
    <3>2. ~Failing(r)
      BY <2>1, <2>4 DEF Failing, Response
    <3> QED BY <2>3, <3>1, <3>2 DEF Stays
  <2>5. CASE q = r /\ m.ok
    <3>1. startStep'[r] = "ok" /\ phase'[r] = "running"
      BY <2>3, <2>5 DEF TypeOK
    <3>2. m = Response(<<r, "start">>, TRUE)
      BY <1>1, <1>2, <2>1, <2>5
    <3> QED BY <1>3, <1>5, <2>1, <2>3, <2>5, <3>1, <3>2
  <2>6. CASE q = r /\ ~m.ok
    <3>1. startStep'[r] = "failed" /\ phase'[r] = "crashed"
      BY <2>3, <2>6 DEF TypeOK
    <3> QED BY <1>3, <1>5, <2>1, <2>3, <2>6, <3>1
  <2> QED BY <2>4, <2>5, <2>6
<1>6. CASE c \in pending /\ c[2] = "stop" /\ StopAnswered(c[1], m.ok)
  <2>1. PICK q \in Runtimes : c = <<q, "stop">>
    BY <1>1, <1>6 DEF Call
  <2>2. c[1] = q
    BY <2>1
  <2>3. /\ startStep' = startStep
        /\ phase' = [phase EXCEPT ![q] = IF m.ok THEN "stopped" ELSE "crashed"]
        /\ registered' = IF m.ok THEN registered \ {q} ELSE registered
    <3> HIDE DEF m, c
    <3> QED BY <1>6, <2>2 DEF StopAnswered, AfterStop, RegisteredAfter
  <2>4. CASE q # r
    <3>1. phase'[r] = phase[r] /\ (r \in registered' <=> r \in registered)
      BY <2>3, <2>4 DEF TypeOK
    <3>2. ~Failing(r)
      BY <2>1 DEF Failing, Response
    <3> QED BY <2>3, <3>1, <3>2 DEF Stays
  <2>5. CASE q = r /\ m.ok
    <3>1. phase'[r] = "stopped" /\ r \notin registered'
      BY <2>3, <2>5 DEF TypeOK
    <3>2. m = Response(<<r, "stop">>, TRUE)
      BY <1>1, <1>2, <2>1, <2>5
    <3> QED BY <1>3, <1>6, <2>1, <2>3, <2>5, <3>1, <3>2
  <2>6. CASE q = r /\ ~m.ok
    <3>1. phase'[r] = "crashed"
      BY <2>3, <2>6 DEF TypeOK
    <3> QED BY <1>3, <1>6, <2>1, <2>3, <2>6, <3>1
  <2> QED BY <2>4, <2>5, <2>6
<1> QED BY <1>4, <1>5, <1>6 DEF HandleResponse

\* Who is registered: a Runtime whose start got as far as the live process, as
\* long as nothing has stopped it.
LEMMA RegistryKept ==
  ASSUME IInv, NEW r \in Runtimes, Registry(r), [Next]_vars PROVE Registry(r)'
<1>1. TypeOK /\ MainInv /\ InMain(r)
  BY DEF IInv, MainInv
<1>2. ASSUME UNCHANGED <<record, registered, current, phase>> PROVE Registry(r)'
  BY <1>2 DEF Registry
<1>3. CASE \/ UNCHANGED vars \/ HandleReady \/ HandleExitEvent \/ DisposeProceeds
           \/ DisposeTimeout \/ ReadyTimeout \/ Tick \/ Dispose \/ ChildDies
           \/ (Child \/ Outside) /\ UNCHANGED mainVars
  BY <1>2, <1>3 DEF vars, mainVars, processVars, runtimeVars, HandleReady, HandleExitEvent,
     DisposeProceeds, DisposeTimeout, ReadyTimeout, Tick, Dispose, ChildDies
<1>4. CASE ExitHandled
  BY <1>4 DEF ExitHandled, Registry
<1>5. CASE HandleResponse
  <2>1. UNCHANGED <<record, current>>
    BY <1>5 DEF HandleResponse, processVars
  <2>2. /\ r \in registered' => r \in registered
        /\ phase'[r] = "stopped" \/ (r \in registered' <=> r \in registered)
        /\ phase'[r] = "stopped" \/ phase'[r] = phase[r]
           \/ startStep[r] = "request" \/ phase[r] = "stopping"
    BY <1>1, <1>5, AnswerDoes DEF Stays
  <2>3. startStep[r] = "request" \/ phase[r] = "stopping" => r \in registered
    BY <1>1 DEF InMain
  <2> QED BY <2>1, <2>2, <2>3 DEF Registry
<1>6. ASSUME NEW q \in Runtimes, Start(q) PROVE Registry(r)'
  <2>1. UNCHANGED <<record, registered>> /\ phase[q] = "new"
        /\ (phase'[r] = phase[r] \/ (q = r /\ phase[r] = "new"))
    BY <1>1, <1>6 DEF Start, TypeOK
  <2>2. CASE current' = current
    BY <2>1, <2>2 DEF Registry
  <2>3. CASE current = 0 /\ current' = generation + 1
    <3>1. record[r] # generation + 1
      BY <1>1 DEF TypeOK
    <3> QED BY <2>1, <2>3, <3>1 DEF Registry
  <2> QED BY <1>6, <2>2, <2>3 DEF Start, Acquires, AcquireRefused, processVars
<1>7. ASSUME NEW q \in Runtimes, AcquireDone(q) PROVE Registry(r)'
  <2>1. current' = current
    BY <1>7 DEF AcquireDone
  <2>2. CASE q # r
    <3>1. /\ record'[r] = record[r] /\ phase'[r] = phase[r]
          /\ r \in registered' <=> r \in registered
      BY <1>1, <1>7, <2>2 DEF AcquireDone, TypeOK
    <3> QED BY <2>1, <3>1 DEF Registry
  <2>3. CASE q = r
    <3>1. startStep[r] = "acquire" /\ phase[r] = "starting" /\ r \notin registered
          /\ (ready = "ready" => current # 0)
      BY <1>1, <1>7, <2>3 DEF AcquireDone, WokenStarts, InMain
    <3>2. CASE UNCHANGED <<record, registered>>
      BY <2>1, <3>1, <3>2 DEF Registry
    <3>3. CASE ready = "ready" /\ record'[r] = current /\ r \in registered'
      BY <2>1, <3>1, <3>3 DEF Registry
    <3> QED BY <1>1, <1>7, <2>3, <3>2, <3>3 DEF AcquireDone, TypeOK
  <2> QED BY <2>2, <2>3
<1>8. ASSUME NEW q \in Runtimes, Stop(q) \/ StopAfterStart(q) PROVE Registry(r)'
  <2>1. UNCHANGED <<record, registered, current>>
    BY <1>8 DEF Stop, StopAfterStart
  <2>2. phase'[r] \in {phase[r], "stopped"} \/ (~Exited(r) /\ r \in registered)
    BY <1>1, <1>8 DEF Stop, StopAfterStart, StopProceeds, TypeOK
  <2> QED BY <2>1, <2>2 DEF Registry
<1>9. ASSUME NEW q \in Runtimes, CallRuntime(q) PROVE Registry(r)'
  BY <1>2, <1>9 DEF CallRuntime, runtimeVars
<1> QED BY <1>3, <1>4, <1>5, <1>6, <1>7, <1>8, <1>9 DEF Next, Main, Kernel

\* A Runtime that Main has stopped is gone from the child that it lived in.
LEMMA StopHoldsKept ==
  ASSUME IInv, Sent, NEW r \in Runtimes, Registry(r), StopHolds(r), [Next]_vars
  PROVE  StopHolds(r)'
<1>1. TypeOK /\ MainInv /\ InMain(r)
  BY DEF IInv, MainInv
<1>2. ASSUME UNCHANGED <<record, current, servedVars>>, phase'[r] = "stopped" => phase[r] = "stopped"
      PROVE  StopHolds(r)'
  BY <1>2 DEF StopHolds, Released, servedVars
<1>3. CASE \/ UNCHANGED vars \/ HandleReady \/ HandleExitEvent \/ DisposeProceeds
           \/ DisposeTimeout \/ ReadyTimeout \/ Tick \/ Dispose
  BY <1>2, <1>3 DEF vars, mainVars, processVars, runtimeVars, childVars, HandleReady,
     HandleExitEvent, DisposeProceeds, DisposeTimeout, ReadyTimeout, Tick, Dispose
<1>4. CASE (Child \/ Outside) /\ UNCHANGED mainVars
  <2>1. UNCHANGED <<phase, record, current>>
    BY <1>4 DEF mainVars, processVars, runtimeVars
  <2>2. phase[r] = "stopped" => ~Outstanding(<<r, "start">>)
    BY <1>1, StartIsOut
  <2> QED BY <1>1, <1>4, <2>1, <2>2, ReleasedKept DEF TypeOK, StopHolds
<1>5. CASE ChildDies
  BY <1>5 DEF ChildDies, Leaves, StopHolds, Released
<1>6. CASE ExitHandled
  BY <1>6 DEF ExitHandled, StopHolds
<1>7. CASE HandleResponse
  <2>1. UNCHANGED <<record, current, servedVars>>
    BY <1>7 DEF HandleResponse, processVars, childVars
  <2>2. CASE Head(messages) = Response(<<r, "stop">>, TRUE)
    <3>1. messages \in Seq(Message) /\ messages # <<>>
      BY <1>7 DEF HandleResponse, Reads, IInv, TypeOK, ChildTypeOK
    <3>2. 1 \in 1 .. Len(messages) /\ Head(messages) = messages[1]
      BY <3>1, EmptySeq, HeadTailProperties
    <3>3. Has(messages, {Response(<<r, "stop">>, TRUE)})
      BY <2>2, <3>2 DEF Has
    <3>4. Released(r)
      BY <3>3 DEF Sent, StopOk
    <3> QED BY <2>1, <3>4 DEF StopHolds, Released, servedVars
  <2>3. CASE Head(messages) # Response(<<r, "stop">>, TRUE)
    <3>1. phase'[r] = "stopped" => phase[r] = "stopped"
      BY <1>1, <1>7, <2>3, AnswerDoes DEF Stays
    <3> QED BY <1>2, <2>1, <3>1
  <2> QED BY <2>2, <2>3
<1>8. ASSUME NEW q \in Runtimes, Start(q) PROVE StopHolds(r)'
  <2>1. UNCHANGED <<record, servedVars>> /\ (phase'[r] = "stopped" => phase[r] = "stopped")
    BY <1>1, <1>8 DEF Start, Acquires, AcquireRefused, childVars, TypeOK
  <2>2. CASE current' = current
    BY <1>2, <2>1, <2>2
  <2>3. CASE current' = generation + 1
    <3>1. record[r] # generation + 1
      BY <1>1 DEF TypeOK
    <3> QED BY <2>1, <2>3, <3>1 DEF StopHolds
  <2> QED BY <1>8, <2>2, <2>3 DEF Start, Acquires, AcquireRefused, processVars
<1>9. ASSUME NEW q \in Runtimes, AcquireDone(q) PROVE StopHolds(r)'
  <2>1. UNCHANGED <<current, servedVars>>
    BY <1>9 DEF AcquireDone, childVars
  <2>2. CASE q # r
    <3>1. record'[r] = record[r] /\ phase'[r] = phase[r]
      BY <1>1, <1>9, <2>2 DEF AcquireDone, TypeOK
    <3> QED BY <2>1, <3>1 DEF StopHolds, Released, servedVars
  <2>3. CASE q = r
    <3>1. phase[r] = "starting"
      BY <1>1, <1>9, <2>3 DEF AcquireDone, WokenStarts, InMain
    <3>2. phase'[r] # "stopped"
      BY <1>1, <1>9, <2>3, <3>1 DEF AcquireDone, TypeOK
    <3> QED BY <3>2 DEF StopHolds
  <2> QED BY <2>2, <2>3
<1>10. ASSUME NEW q \in Runtimes, Stop(q) \/ StopAfterStart(q) PROVE StopHolds(r)'
  <2>1. UNCHANGED <<record, current, servedVars>>
    BY <1>10 DEF Stop, StopAfterStart, childVars
  <2>2. phase'[r] = "stopped" => phase[r] = "stopped" \/ Exited(r) \/ r \notin registered
    BY <1>1, <1>10 DEF Stop, StopAfterStart, StopProceeds, TypeOK
  <2> QED BY <2>1, <2>2 DEF StopHolds, Registry, Exited, Released, servedVars
<1>11. ASSUME NEW q \in Runtimes, CallRuntime(q) PROVE StopHolds(r)'
  BY <1>2, <1>11 DEF CallRuntime, runtimeVars, childVars
<1> QED BY <1>3, <1>4, <1>5, <1>6, <1>7, <1>8, <1>9, <1>10, <1>11 DEF Next, Main, Kernel

\* The exit of the process: whoever is registered hears of it, and had not.
LEMMA ExitTells ==
  ASSUME IInv, NEW r \in Runtimes, Tellings(r), ExitHandled PROVE Tellings(r)'
<1>1. TypeOK /\ InMain(r)
  BY DEF IInv, MainInv
<1>2. /\ registered' = {}
      /\ told'[r] = IF ToldOfExit(r) THEN told[r] + 1 ELSE told[r]
      /\ startStep'[r] = IF startStep[r] = "request" THEN "failed" ELSE startStep[r]
  BY <1>1 DEF ExitHandled, Rejected, InMain
<1>3. ToldOfExit(r) => r \in registered
  BY DEF ToldOfExit
<1>4. phase'[r] = "crashed" => ToldOfExit(r) \/ (phase[r] = "crashed" /\ r \notin registered)
  BY <1>1 DEF ExitHandled, PhaseAfterExit, ToldOfExit
<1>5. startStep'[r] # "request"
  BY <1>2
<1>6. startStep'[r] \in {"no", "acquire"} => told'[r] = 0
  BY <1>1, <1>2, <1>3 DEF Tellings, InMain
<1>7. ASSUME startStep'[r] = "ok"
      PROVE  told'[r] \in {0, 1} /\ (phase'[r] = "crashed" => told'[r] = 1)
  <2>1. startStep[r] = "ok"
    BY <1>2, <1>7
  <2> QED BY <1>2, <1>3, <1>4, <2>1 DEF Tellings
<1> QED BY <1>2, <1>5, <1>6, <1>7 DEF Tellings

\* An exit event of the child tells of a start that is just failing.
LEMMA EventTells ==
  ASSUME IInv, Sent, NEW r \in Runtimes, Tellings(r), HandleExitEvent
  PROVE  Tellings(r)'
<1>1. TypeOK /\ MainInv /\ UNCHANGED <<startStep, phase, registered>>
  BY DEF HandleExitEvent, IInv
<1>2. /\ messages \in Seq(Message) /\ messages # <<>> /\ messages' = Tail(messages)
      /\ Head(messages).type = "exit" /\ Head(messages) \in Message
  BY <1>1, ReadsType DEF HandleExitEvent, Reads, TypeOK, ChildTypeOK
<1>3. ~Failing(r)
  BY <1>2 DEF Failing, Response
<1>4. PICK q \in Runtimes : Head(messages) = ExitEvent(q)
  <2>1. 1 \in 1 .. Len(messages) /\ Head(messages) = messages[1]
    BY <1>2, EmptySeq, HeadTailProperties
  <2>2. Head(messages) \notin OddExits
    BY <2>1 DEF Sent, Has
  <2> QED BY <1>2, <2>2 DEF OddExits
<1>5. told' = IF q \in registered THEN [told EXCEPT ![q] = @ + 1] ELSE told
  <2>1. Head(messages).call[1] = q
    BY <1>4 DEF ExitEvent
  <2> QED BY <2>1 DEF HandleExitEvent
<1>6. CASE told'[r] = told[r]
  BY <1>1, <1>3, <1>6 DEF Tellings
<1>7. CASE q = r
  <2>1. Failing(r)'
    BY <1>2, <1>4, <1>7, ReadOrder DEF Sent
  <2>2. startStep[r] = "request"
    <3> DEFINE answer == Response(<<r, "start">>, FALSE)
    <3>1. /\ 1 \in 1 .. Len(messages) /\ Head(messages) = messages[1]
          /\ Len(messages) \in Nat
      BY <1>2, EmptySeq, HeadTailProperties
    <3>2. 1 < Len(messages) /\ messages[1 + 1] = answer
      BY <1>4, <1>7, <3>1 DEF Sent, ExitFirst
    <3>3. answer \in AnswersTo(<<r, "start">>)
      BY DEF AnswersTo
    <3> HIDE DEF answer
    <3>4. Has(messages, AnswersTo(<<r, "start">>))
      BY <3>1, <3>2, <3>3 DEF Has
    <3> QED BY <1>1, <3>4, StartIsOut DEF Outstanding
  <2> QED BY <1>1, <2>1, <2>2 DEF Tellings
<1>8. CASE q # r
  BY <1>1, <1>5, <1>6, <1>8 DEF TypeOK
<1> QED BY <1>7, <1>8

\* What the listeners of a Runtime hear.
LEMMA TellingsKept ==
  ASSUME IInv, Sent, NEW r \in Runtimes, Tellings(r), [Next]_vars PROVE Tellings(r)'
<1>1. TypeOK /\ MainInv /\ InMain(r)
  BY DEF IInv, MainInv
<1>2. ASSUME Stays(r), told'[r] = told[r],
             startStep[r] = "request" => ~Failing(r) \/ Failing(r)'
      PROVE  Tellings(r)'
  BY <1>2 DEF Tellings, Stays
<1>3. ASSUME UNCHANGED <<startStep, phase, registered, told, messages>> PROVE Tellings(r)'
  BY <1>3 DEF Tellings, Failing, Response
<1>4. CASE \/ UNCHANGED vars \/ DisposeProceeds \/ DisposeTimeout \/ ReadyTimeout
           \/ Tick \/ Dispose \/ ChildDies
  BY <1>3, <1>4 DEF vars, mainVars, runtimeVars, DisposeProceeds, DisposeTimeout,
     ReadyTimeout, Tick, Dispose, ChildDies
<1>5. CASE (Child \/ Outside) /\ UNCHANGED mainVars
  <2>1. Stays(r) /\ told'[r] = told[r]
    BY <1>5 DEF mainVars, runtimeVars, Stays
  <2>2. Failing(r) => Failing(r)'
    BY <1>1, <1>5, HeadStays DEF TypeOK, Failing, Response
  <2> QED BY <1>2, <2>1, <2>2
<1>6. CASE HandleReady
  <2>1. Stays(r) /\ told'[r] = told[r]
    BY <1>6 DEF HandleReady, runtimeVars, Stays
  <2>2. ~Failing(r)
    BY <1>6 DEF HandleReady, Reads, Failing, Response
  <2> QED BY <1>2, <2>1, <2>2
<1>7. CASE HandleResponse
  <2>1. told' = told
    BY <1>7 DEF HandleResponse
  <2>2. CASE Stays(r) /\ (startStep[r] = "request" => ~Failing(r))
    BY <1>2, <2>1, <2>2
  <2>3. CASE /\ Head(messages) = Response(<<r, "start">>, TRUE) /\ startStep[r] = "request"
             /\ startStep'[r] = "ok" /\ phase'[r] = "running"
    <3>1. ~Failing(r)
      BY <2>3 DEF Failing, Response
    <3> QED BY <2>1, <2>3, <3>1 DEF Tellings
  <2>4. CASE startStep'[r] = "failed"
    BY <2>4 DEF Tellings
  <2>5. CASE /\ phase[r] = "stopping" /\ startStep'[r] = startStep[r]
             /\ \/ phase'[r] = "stopped" /\ r \notin registered'
                \/ phase'[r] = "crashed" /\ (r \in registered' <=> r \in registered)
    <3>1. r \in registered /\ startStep[r] # "request"
      BY <1>1, <2>5 DEF InMain
    <3> QED BY <2>1, <2>5, <3>1 DEF Tellings
  <2> QED BY <1>1, <1>7, <2>2, <2>3, <2>4, <2>5, AnswerDoes
<1>8. ASSUME NEW q \in Runtimes, Start(q) PROVE Tellings(r)'
  <2>1. phase[q] = "new" /\ registered' = registered
    BY <1>8 DEF Start
  <2>2. CASE q # r
    <3>1. Stays(r) /\ told'[r] = told[r]
      BY <1>1, <1>8, <2>1, <2>2 DEF Start, Acquires, AcquireRefused, TypeOK, Stays
    <3>2. messages' = messages \/ current = 0
      BY <1>8 DEF Start, Acquires, AcquireRefused
    <3>3. startStep[r] = "request" => messages' = messages
      BY <1>1, <3>2 DEF MainInv, InMain, ProcessInv
    <3> QED BY <1>2, <3>1, <3>3 DEF Failing, Response
  <2>3. CASE q = r
    <3>1. startStep[r] = "no"
      BY <1>1, <2>1, <2>3 DEF InMain
    <3>2. \/ startStep'[r] = "acquire" /\ told'[r] = told[r]
          \/ startStep'[r] = "failed"
      BY <1>1, <1>8, <2>3 DEF Start, Acquires, AcquireRefused, TypeOK
    <3> QED BY <3>1, <3>2 DEF Tellings
  <2> QED BY <2>2, <2>3
<1>9. ASSUME NEW q \in Runtimes, AcquireDone(q) PROVE Tellings(r)'
  <2>1. messages' = messages
    BY <1>9 DEF AcquireDone
  <2>2. CASE q # r
    <3>1. Stays(r) /\ told'[r] = told[r]
      BY <1>1, <1>9, <2>2 DEF AcquireDone, TypeOK, Stays
    <3> QED BY <1>2, <2>1, <3>1 DEF Failing, Response
  <2>3. CASE q = r
    <3>1. startStep[r] = "acquire"
      BY <1>9, <2>3 DEF AcquireDone, WokenStarts
    <3>2. \/ startStep'[r] = "request" /\ told'[r] = told[r]
          \/ startStep'[r] = "failed"
      BY <1>1, <1>9, <2>3 DEF AcquireDone, TypeOK
    <3> QED BY <3>1, <3>2 DEF Tellings
  <2> QED BY <2>2, <2>3
<1>10. ASSUME NEW q \in Runtimes, Stop(q) \/ StopAfterStart(q) PROVE Tellings(r)'
  <2>1. UNCHANGED <<startStep, registered, told, messages>>
    BY <1>10 DEF Stop, StopAfterStart
  <2>2. phase'[r] = "crashed" => phase[r] = "crashed" \/ r \in registered
    BY <1>1, <1>10 DEF Stop, StopAfterStart, StopProceeds, TypeOK
  <2> QED BY <2>1, <2>2 DEF Tellings, Failing, Response
<1>11. ASSUME NEW q \in Runtimes, CallRuntime(q) PROVE Tellings(r)'
  BY <1>3, <1>11 DEF CallRuntime, runtimeVars
<1> QED BY <1>4, <1>5, <1>6, <1>7, <1>8, <1>9, <1>10, <1>11, ExitTells, EventTells
        DEF Next, Main, Kernel

-----------------------------------------------------------------------------
(* The invariant, with what is on the way                                  *)

LEMMA InitBooks == Init => AInv
<1> SUFFICES ASSUME Init PROVE AInv
  OBVIOUS
<1>1. IInv
  BY InitInv
<1>2. FreshChild /\ messages = <<>> /\ requests = <<>>
  BY DEF Init
<1>3. \A C : ~Has(<<>>, C) /\ Once(<<>>, C)
  BY EmptySeq DEF Has, Once
<1>4. ASSUME NEW r \in Runtimes, NEW k \in {"start", "stop"} PROVE Channels(<<r, k>>)
  <2>1. ~Works(<<r, k>>)
    BY <1>2 DEF FreshChild, Works, Busy
  <2> QED BY <1>2, <1>3, <2>1 DEF Channels, Single, Outstanding
<1>5. ASSUME NEW r \in Runtimes PROVE ExitFirst(r) /\ StopOk(r)
  BY <1>2, EmptySeq DEF ExitFirst, StopOk, Has
<1>6. Sent
  BY <1>2, <1>3, <1>4, <1>5 DEF Sent, Down
<1>7. ASSUME NEW r \in Runtimes PROVE Books(r)
  BY DEF Init, Books, Registry, Tellings, StopHolds
<1> QED BY <1>1, <1>6, <1>7 DEF AInv

LEMMA StepBooks == AInv /\ [Next]_vars => AInv'
<1> SUFFICES ASSUME AInv, [Next]_vars PROVE AInv'
  OBVIOUS
<1>1. IInv /\ Sent /\ \A r \in Runtimes : Registry(r) /\ Tellings(r) /\ StopHolds(r)
  BY DEF AInv, Books
<1>2. IInv' /\ Sent'
  BY <1>1, StepInv, SentKept
<1>3. ASSUME NEW r \in Runtimes PROVE Books(r)'
  BY <1>1, RegistryKept, TellingsKept, StopHoldsKept DEF Books
<1> QED BY <1>2, <1>3 DEF AInv

-----------------------------------------------------------------------------
(* Theorems                                                                *)

\* The types of Main and the child hold, and never are more requests
\* unanswered than MAX_PENDING_REQUESTS.
THEOREM TypesHold == Spec => []TypeOK
<1>1. IInv => TypeOK
  BY DEF IInv
<1> QED BY <1>1, SpecInv, PTL

\* No window of time sees more starts of the process than allowed, however
\* often the process fails and Sessions are started.
THEOREM StartLimitHolds == Spec => []StartLimit
<1>1. IInv => StartLimit
  BY DEF IInv, TimeInv
<1> QED BY <1>1, SpecInv, PTL

\* Nobody waits for an answer that cannot come: what waits is pending, and
\* what is pending is rejected when the process exits.
THEOREM AwaitedIsPendingHolds == Spec => []AwaitedIsPending
<1>1. IInv => AwaitedIsPending
  BY DEF IInv, MainInv, InMain, ProcessInv, AwaitedIsPending
<1> QED BY <1>1, SpecInv, PTL

\* No Runtime counts as running or stopping on a process that is gone.
THEOREM NoneOutlivesProcessHolds == Spec => []NoneOutlivesProcess
<1>1. IInv => NoneOutlivesProcess
  BY DEF IInv, MainInv, InMain, NoneOutlivesProcess
<1> QED BY <1>1, SpecInv, PTL

\* After dispose() there is no process, and none will be.
THEOREM DisposedIsGoneHolds == Spec => []DisposedIsGone
<1>1. IInv => DisposedIsGone
  BY DEF IInv, MainInv, ProcessInv, DisposedIsGone, TypeOK, ChildTypeOK
<1> QED BY <1>1, SpecInv, PTL

\* A session file has one owner, and the Session of that owner lives, whatever
\* starts, stops, switches and failures overlap.
THEOREM OneOwnerHolds == Spec => []OneOwner
<1>1. IInv => OneOwner
  <2> SUFFICES ASSUME IInv, NEW r \in Runtimes, published[r] # NoFile
               PROVE  r \in driver /\ Owner(published[r]) = {r}
    BY DEF OneOwner
  <2>1. WellPlaced(r) /\ FilesDiffer
    BY DEF IInv, ChildInv
  <2> QED BY <2>1 DEF WellPlaced, FilesDiffer, Owner
<1> QED BY <1>1, SpecInv, PTL

\* The child exits with code 0 only when every Session was disposed.
THEOREM CleanExitHolds == Spec => CleanExit
<1>1. IInv /\ [Next]_vars => [child' = "gone" /\ clean' /\ child # "gone" => driver = {}]_vars
  <2> SUFFICES ASSUME IInv, Next, child' = "gone", clean', child # "gone"
               PROVE  driver = {}
    OBVIOUS
  <2>1. CASE (Child \/ Outside) /\ UNCHANGED mainVars
    BY <2>1, ExitIsClean DEF IInv, TypeOK
  <2>2. CASE ChildDies
    BY <2>2 DEF ChildDies, Leaves
  <2>3. CASE Main \/ Kernel
    <3>1. UNCHANGED childVars \/ child' = "booting"
      BY <2>3 DEF Main, Kernel, HandleReady, HandleExitEvent, HandleResponse, ExitHandled,
                  DisposeProceeds, DisposeTimeout, ReadyTimeout, AcquireDone,
                  StopAfterStart, Tick, Dispose, Stop, CallRuntime, Start, Acquires,
                  AcquireRefused
    <3> QED BY <3>1 DEF childVars
  <2> QED BY <2>1, <2>2, <2>3 DEF Next
<1> QED BY <1>1, SpecInv, PTL DEF Spec, CleanExit
\* What is on its way between Main and the child is in one place, and the books
\* of every Runtime agree with the child, whatever overtakes what.
THEOREM BooksHold == Spec => []AInv
BY InitBooks, StepBooks, PTL DEF Spec

\* handleProcessExit and the exit event of the child never both report the end
\* of a Runtime that was running, and one of them does when its process is gone.
THEOREM ToldOnceHolds == Spec => []ToldOnce
<1>1. AInv => ToldOnce
  <2> SUFFICES ASSUME AInv, NEW r \in Runtimes, startStep[r] = "ok"
               PROVE  /\ told[r] <= 1
                      /\ phase[r] = "crashed" /\ (record[r] # current \/ current = 0)
                           => told[r] = 1
    BY DEF ToldOnce
  <2>1. Registry(r) /\ Tellings(r)
    BY DEF AInv, Books
  <2> QED BY <2>1 DEF Registry, Tellings
<1> QED BY <1>1, BooksHold, PTL

\* When stopRuntime says that a Runtime is stopped, the child that it lived in
\* has disposed its Session and forgotten its handle, even if the stop came
\* while the Session was being created.
THEOREM StoppedIsReleasedHolds == Spec => []StoppedIsReleased
<1>1. AInv => StoppedIsReleased
  BY DEF AInv, Books, StopHolds, Released, StoppedIsReleased
<1> QED BY <1>1, BooksHold, PTL
=============================================================================
