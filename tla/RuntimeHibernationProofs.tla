----------------------- MODULE RuntimeHibernationProofs -----------------------
(***************************************************************************)
(* What hibernation promises, for any set of contexts and identities and   *)
(* any number of outside events.  In what order a sweep tries the contexts *)
(* does not matter: nothing here is assumed of candidates and uses.        *)
(***************************************************************************)
EXTENDS RuntimeHibernation, SequenceTheorems, TLAPS

USE NamesAreNew

LeaseCall == {"prepare", "commit", "release", "stop"}
Call == LeaseCall \cup {"prompt"}
Answers == {"ok", "no"}
Told == Answers \cup {"began", "settled", "refused"}
Stages == {"none", "prepare", "commit", "release", "stop"}
Preparing == {"first", "second", "partial", "previous"}

MainTypes ==
  /\ status \in [Contexts -> {"ready", "running", "stopping", "gone", "crashed"}]
  /\ foreground \in Contexts \cup {NoContext}
  /\ activating \in Contexts \cup {NoContext}
  /\ attempt \in [context : {attempt.context}, id : AnyId, stage : Stages, left : Nat]

ChannelTypes ==
  /\ inbox \in [Contexts -> Seq(Call)]
  /\ outbox \in [Contexts -> Seq(Told)]
  /\ used \in [Event -> Nat]

ChildTypes ==
  /\ alive \in [Contexts -> BOOLEAN]
  /\ run \in [Contexts -> BOOLEAN]
  /\ waiter \in [Contexts -> BOOLEAN]
  /\ lease \in [Contexts -> [phase : {"none", "preparing", "prepared", "committed"},
                             id : AnyId]]
  /\ command \in [Contexts -> [stage : Asking \cup {"none"}, id : AnyId,
                               native : BOOLEAN, slow : BOOLEAN]]
  /\ active \in [Contexts -> [phase : {"none", "prepared", "committed"}, id : AnyId,
                              native : BOOLEAN]]
  /\ operation \in [Contexts -> SUBSET Provider]
  /\ fence \in [Contexts -> [Provider -> AnyId]]

Types == MainTypes /\ ChannelTypes /\ ChildTypes

\* Activation and stop exclude each other, and who is in the foreground or
\* becomes it was not stopped.
Gate ==
  /\ ForegroundStays
  /\ activating # NoContext => status[activating] \notin {"stopping", "gone"}
  /\ attempt.stage = "stop" => activating = NoContext /\ attempt.context # foreground
  /\ \A c \in Contexts :
       status[c] = "stopping" <=> attempt.stage = "stop" /\ attempt.context = c
  /\ attempt.stage = "none" <=> attempt = NoAttempt
  /\ attempt.stage # "none" => attempt.id \in Ids

-----------------------------------------------------------------------------
(* Types                                                                   *)

Child(c) ==
  \/ TakePrompt(c) \/ TakePrepare(c) \/ TakeCommit(c) \/ TakeRelease(c) \/ TakeStop(c)
  \/ SubagentsReply(c) \/ SubagentsSilent(c) \/ WaiterTimesOut(c) \/ RunSettles(c)
  \/ \E p \in Provider : OperationBegins(c, p) \/ OperationEnds(c, p)

Main(c) ==
  \/ Prompt(c) \/ HearOfRun(c) \/ ActivateBegins(c)
  \/ PrepareFailed(c) \/ Prepared(c) \/ CommitFailed(c) \/ Committed(c)
  \/ Stopped(c) \/ StopFailed(c) \/ Released(c)

LEMMA NextIs ==
  Next <=> \/ ActivateEnds \/ SweepBegins \/ TryNext \/ Crash
           \/ \E c \in Contexts : Main(c) \/ Child(c)
BY DEF Next, Main, Child

LEMMA TailIn ==
  ASSUME NEW T, NEW s \in Seq(T), s # <<>> PROVE Tail(s) \in Seq(T) /\ Head(s) \in T
BY HeadTailProperties

LEMMA CountType ==
  ASSUME NEW k \in Event, used \in [Event -> Nat], Happens(k)
  PROVE  used' \in [Event -> Nat] /\ \A e \in Event : used'[e] >= used[e]
BY DEF Happens

LEMMA SendsType ==
  ASSUME NEW c, NEW call \in Call, inbox \in [Contexts -> Seq(Call)], Sends(c, call)
  PROVE  inbox' \in [Contexts -> Seq(Call)]
<1>1. CASE c \in Contexts
  BY <1>1, AppendProperties DEF Sends
<1>2. CASE c \notin Contexts
  BY <1>2 DEF Sends
<1> QED BY <1>1, <1>2

LEMMA SaysType ==
  ASSUME NEW c \in Contexts, NEW what \in Told, outbox \in [Contexts -> Seq(Told)],
         Says(c, what)
  PROVE  outbox' \in [Contexts -> Seq(Told)]
BY AppendProperties DEF Says

LEMMA TakesType ==
  ASSUME NEW c \in Contexts, NEW call, inbox \in [Contexts -> Seq(Call)], Takes(c, call)
  PROVE  inbox' \in [Contexts -> Seq(Call)] /\ call \in Call
BY TailIn DEF Takes

LEMMA AnswerType ==
  ASSUME NEW c \in Contexts, NEW stage, NEW says, outbox \in [Contexts -> Seq(Told)],
         Answer(c, stage, says)
  PROVE  outbox' \in [Contexts -> Seq(Told)]
BY TailIn DEF Answer

LEMMA TurnsType ==
  ASSUME MainTypes, NEW s \in Stages, Stage(s) \/ \E n \in Nat : Turns(s, n)
  PROVE  /\ attempt' \in [context : {attempt'.context}, id : AnyId, stage : Stages,
                          left : Nat]
         /\ attempt'.context = attempt.context /\ attempt'.id = attempt.id
         /\ attempt'.stage = s
BY DEF MainTypes, Turns, Stage

LEMMA ReleaseType ==
  ASSUME Types, NEW c \in Contexts, NEW n \in Nat, ReleaseFrom(c, n)
  PROVE  /\ attempt' \in [context : {attempt'.context}, id : AnyId, stage : Stages,
                          left : Nat]
         /\ attempt'.context = attempt.context /\ attempt'.id = attempt.id
         /\ attempt'.stage = "release"
         /\ inbox' \in [Contexts -> Seq(Call)]
BY TurnsType, SendsType
   DEF Types, ChannelTypes, ReleaseFrom, Stages, Call, LeaseCall

LEMMA StageType ==
  ASSUME Types, NEW c \in Contexts, NEW s \in LeaseCall, Stage(s), Sends(c, s)
  PROVE  /\ attempt' \in [context : {attempt'.context}, id : AnyId, stage : Stages,
                          left : Nat]
         /\ attempt'.context = attempt.context /\ attempt'.id = attempt.id
         /\ attempt'.stage = s
         /\ inbox' \in [Contexts -> Seq(Call)]
BY TurnsType, SendsType DEF Types, ChannelTypes, Stages, Call, LeaseCall

LEMMA MainTypesKept ==
  ASSUME Types, NEW c \in Contexts, Main(c) PROVE Types'
<1> USE DEF Types, MainTypes, ChannelTypes
<1>1. CASE Prompt(c)
  BY <1>1, CountType, SendsType DEF Prompt, childVars, ChildTypes, Event, Call
<1>2. CASE HearOfRun(c)
  BY <1>2, TailIn DEF HearOfRun, childVars, ChildTypes
<1>3. CASE ActivateBegins(c)
  BY <1>3, CountType DEF ActivateBegins, childVars, ChildTypes, Event
<1>4. CASE PrepareFailed(c)
  BY <1>4, AnswerType DEF PrepareFailed, childVars, ChildTypes, NoAttempt, AnyId, Stages
<1>5. CASE Prepared(c)
  <2>1. /\ attempt' \in [context : {attempt'.context}, id : AnyId, stage : Stages, left : Nat]
        /\ inbox' \in [Contexts -> Seq(Call)]
    BY <1>5, ReleaseType, StageType DEF Prepared, LeaseCall
  <2> QED BY <1>5, <2>1, AnswerType DEF Prepared, childVars, ChildTypes
<1>6. CASE CommitFailed(c)
  <2>1. /\ attempt' \in [context : {attempt'.context}, id : AnyId, stage : Stages, left : Nat]
        /\ inbox' \in [Contexts -> Seq(Call)]
    BY <1>6, ReleaseType DEF CommitFailed
  <2> QED BY <1>6, <2>1, AnswerType DEF CommitFailed, childVars, ChildTypes
<1>7. CASE Committed(c)
  <2>1. /\ attempt' \in [context : {attempt'.context}, id : AnyId, stage : Stages, left : Nat]
        /\ inbox' \in [Contexts -> Seq(Call)]
    BY <1>7, ReleaseType, StageType DEF Committed, LeaseCall
  <2> QED BY <1>7, <2>1, AnswerType DEF Committed, childVars, ChildTypes
<1>8. CASE Stopped(c)
  BY <1>8, AnswerType DEF Stopped, childVars, ChildTypes, NoAttempt, AnyId, Stages
<1>9. CASE StopFailed(c)
  BY <1>9, AnswerType DEF StopFailed, childVars, ChildTypes, NoAttempt, AnyId, Stages
<1>10. CASE Released(c)
  <2>1. /\ attempt' \in [context : {attempt'.context}, id : AnyId, stage : Stages, left : Nat]
        /\ inbox' \in [Contexts -> Seq(Call)]
    <3>1. CASE attempt.left > 0 /\ ReleaseFrom(c, attempt.left - 1)
      <4>1. attempt.left - 1 \in Nat
        BY <3>1
      <4> QED BY <3>1, <4>1, ReleaseType
    <3>2. CASE attempt' = NoAttempt /\ UNCHANGED inbox
      BY <3>2 DEF NoAttempt, AnyId, Stages
    <3> QED BY <1>10, <3>1, <3>2 DEF Released
  <2>2. outbox' \in [Contexts -> Seq(Told)]
    BY <1>10, AnswerType DEF Released
  <2> QED BY <1>10, <2>1, <2>2 DEF Released, childVars, ChildTypes
<1> QED BY <1>1, <1>2, <1>3, <1>4, <1>5, <1>6, <1>7, <1>8, <1>9, <1>10 DEF Main

LEMMA SweepTypesKept ==
  ASSUME Types, ActivateEnds \/ SweepBegins \/ TryNext \/ Crash PROVE Types'
<1> USE DEF Types, MainTypes, ChannelTypes
<1>1. CASE ActivateEnds
  BY <1>1 DEF ActivateEnds, childVars, ChildTypes
<1>2. CASE SweepBegins
  BY <1>2 DEF SweepBegins, childVars, ChildTypes
<1>3. CASE TryNext
  <2>1. UNCHANGED <<status, foreground, activating, outbox, childVars, used>>
    BY <1>3 DEF TryNext
  <2>2. CASE UNCHANGED <<attempt, inbox>>
    BY <2>1, <2>2 DEF childVars, ChildTypes
  <2>3. CASE \E x : /\ Ids \ InUse(x) # {}
                    /\ attempt' = [context |-> x, id |-> CHOOSE i \in Ids : i \notin InUse(x),
                                   stage |-> "prepare", left |-> 0]
                    /\ Sends(x, "prepare")
    BY <2>1, <2>3, SendsType DEF childVars, ChildTypes, Call, LeaseCall, Stages, AnyId
  <2> QED BY <1>3, <2>2, <2>3 DEF TryNext
<1>4. CASE Crash
  <2>1. ChildTypes'
    BY <1>4 DEF Crash, Gone, ChildTypes, NoLease, NoCommand, NothingHeld, AnyId
  <2>2. ChannelTypes'
    BY <1>4, CountType DEF Crash, Event
  <2>3. MainTypes'
    BY <1>4 DEF Crash, NoAttempt, AnyId, Stages
  <2> QED BY <2>1, <2>2, <2>3
<1> QED BY <1>1, <1>2, <1>3, <1>4

\* What an answer of pi-subagents, or its silence, does to the command at work.
Leaves(c, cmd, act, f) ==
  /\ command' = [command EXCEPT ![c] = cmd]
  /\ active' = [active EXCEPT ![c] = act]
  /\ fence' = f
NobodyTold == UNCHANGED <<lease, waiter, outbox>>

RetriesFirst(c, ok, silent, f) ==
  /\ command[c].stage = "first" /\ ~ok
  /\ Leaves(c, [command[c] EXCEPT !.stage = "second", !.slow = silent], active[c], f)
  /\ NobodyTold
TurnsPartial(c, ok, f) ==
  /\ command[c].stage \in {"first", "second"} /\ ok /\ ~command[c].native
  /\ Leaves(c, [command[c] EXCEPT !.stage = "partial"], active[c], f)
  /\ NobodyTold
HasPrepared(c, ok, f) ==
  /\ command[c].stage \in {"first", "second"} /\ ok /\ command[c].native
  /\ Leaves(c, NoCommand,
            [phase |-> "prepared", id |-> command[c].id, native |-> TRUE], f)
  /\ Over(c, TRUE, "prepared")
HasGivenUp(c, ok, f) ==
  /\ command[c].stage = "second" /\ ~ok
  /\ Leaves(c, NoCommand, active[c], Reopened(c, f))
  /\ Over(c, FALSE, "none")
HasRolledBack(c, ok, f) ==
  /\ command[c].stage = "partial"
  /\ Leaves(c, NoCommand,
            IF ok THEN NothingHeld
            ELSE [phase |-> "prepared", id |-> command[c].id, native |-> FALSE], f)
  /\ Over(c, FALSE, "none")
HasReleasedPrevious(c, ok, f) ==
  /\ command[c].stage = "previous"
  /\ Leaves(c, NoCommand,
            IF ok THEN NothingHeld ELSE [active[c] EXCEPT !.native = FALSE], f)
  /\ Over(c, FALSE, "none")
HasCommitted(c, ok, f) ==
  /\ command[c].stage = "commit"
  /\ LET both == ok /\ command[c].native
     IN  /\ Leaves(c, NoCommand,
                   IF both THEN [active[c] EXCEPT !.phase = "committed"] ELSE active[c], f)
         /\ Over(c, both, IF both THEN "committed" ELSE lease[c].phase)
HasReleased(c, ok, f) ==
  /\ command[c].stage = "release"
  /\ Leaves(c, NoCommand,
            IF ok THEN NothingHeld ELSE [active[c] EXCEPT !.native = FALSE], f)
  /\ Over(c, ok, IF ok THEN "none" ELSE lease[c].phase)

Outcome(c, ok, silent, f) ==
  \/ RetriesFirst(c, ok, silent, f) \/ TurnsPartial(c, ok, f) \/ HasPrepared(c, ok, f)
  \/ HasGivenUp(c, ok, f) \/ HasRolledBack(c, ok, f) \/ HasReleasedPrevious(c, ok, f)
  \/ HasCommitted(c, ok, f) \/ HasReleased(c, ok, f)

LEMMA GoesOnIs ==
  ASSUME ChildTypes, NEW c \in Contexts, Busy(c), NEW ok \in BOOLEAN, NEW silent, NEW f,
         GoesOn(c, ok, silent, f)
  PROVE  Outcome(c, ok, silent, f)
<1> USE DEF GoesOn, Leaves, NobodyTold
<1>0. /\ command[c].stage \in Asking /\ command[c].native \in BOOLEAN
      /\ active = [active EXCEPT ![c] = active[c]]
  BY DEF ChildTypes, Busy
<1>1. CASE command[c].stage = "first" /\ ~ok
  <2>1. /\ command' = [command EXCEPT ![c].stage = "second", ![c].slow = silent]
        /\ fence' = f /\ UNCHANGED <<active, lease, waiter, outbox>>
    BY <1>1
  <2>2. command' = [command EXCEPT ![c] = [command[c] EXCEPT !.stage = "second", !.slow = silent]]
    BY <2>1 DEF ChildTypes
  <2> QED BY <1>0, <1>1, <2>1, <2>2 DEF Outcome, RetriesFirst
<1>2. CASE command[c].stage \in {"first", "second"} /\ (ok \/ command[c].stage = "second")
  <2>1. PrepareEnds(c, ok, f)
    BY <1>2
  <2>2. CASE ok /\ command[c].native
    BY <1>2, <2>1, <2>2 DEF Outcome, HasPrepared, PrepareEnds, Keeps, Over
  <2>3. CASE ok /\ ~command[c].native
    BY <1>0, <1>2, <2>1, <2>3 DEF Outcome, TurnsPartial, PrepareEnds
  <2>4. CASE ~ok
    BY <1>0, <1>2, <2>1, <2>4 DEF Outcome, HasGivenUp, PrepareEnds, Over
  <2> QED BY <1>0, <2>2, <2>3, <2>4
<1>3. CASE command[c].stage = "partial"
  BY <1>3 DEF Outcome, HasRolledBack, Keeps, Over
<1>4. CASE command[c].stage = "previous"
  BY <1>4 DEF Outcome, HasReleasedPrevious, Keeps, Over
<1>5. CASE command[c].stage = "commit"
  BY <1>5 DEF Outcome, HasCommitted, Keeps, Over
<1>6. CASE command[c].stage = "release"
  BY <1>6 DEF Outcome, HasReleased, Keeps, Over
<1> QED BY <1>0, <1>1, <1>2, <1>3, <1>4, <1>5, <1>6 DEF Asking

Replies(c, ok, silent, f) ==
  /\ Busy(c)
  /\ Outcome(c, ok, silent, f)
  /\ \/ f = fence /\ ~ok
     \/ SubagentsAccept(c) /\ f = [fence EXCEPT ![c][Subagents] = SubagentsAfter(c)]
  /\ silent => ~ok
  /\ ~ok /\ ~silent => ~SubagentsAccept(c)
  /\ IF silent THEN Happens("silence") ELSE UNCHANGED used
  /\ UNCHANGED <<mainVars, inbox, alive, run, operation>>

LEMMA SubagentsIs ==
  ASSUME ChildTypes, NEW c \in Contexts, SubagentsReply(c) \/ SubagentsSilent(c)
  PROVE  \E ok, silent \in BOOLEAN : \E f : Replies(c, ok, silent, f)
<1>1. CASE SubagentsReply(c)
  <2>1. CASE SubagentsAccept(c)
    <3> DEFINE f == [fence EXCEPT ![c][Subagents] = SubagentsAfter(c)]
    <3>1. GoesOn(c, TRUE, FALSE, f)
      <4>1. SubagentsAccept(c) = TRUE
        BY <2>1 DEF SubagentsAccept
      <4> QED BY <1>1, <4>1 DEF SubagentsReply
    <3>2. Outcome(c, TRUE, FALSE, f)
      BY <1>1, <3>1, GoesOnIs DEF SubagentsReply
    <3> QED BY <1>1, <2>1, <3>2 DEF Replies, SubagentsReply
  <2>2. CASE ~SubagentsAccept(c)
    <3>1. GoesOn(c, FALSE, FALSE, fence)
      <4>1. SubagentsAccept(c) = FALSE
        BY <2>2 DEF SubagentsAccept
      <4> QED BY <1>1, <4>1 DEF SubagentsReply
    <3>2. Outcome(c, FALSE, FALSE, fence)
      BY <1>1, <3>1, GoesOnIs DEF SubagentsReply
    <3> QED BY <1>1, <2>2, <3>2 DEF Replies, SubagentsReply
  <2> QED BY <2>1, <2>2
<1>2. CASE SubagentsSilent(c)
  <2>1. PICK acts \in {FALSE, SubagentsAccept(c)} :
          GoesOn(c, FALSE, TRUE,
                 IF acts THEN [fence EXCEPT ![c][Subagents] = SubagentsAfter(c)] ELSE fence)
    BY <1>2 DEF SubagentsSilent
  <2> DEFINE f == IF acts THEN [fence EXCEPT ![c][Subagents] = SubagentsAfter(c)] ELSE fence
  <2>2. Outcome(c, FALSE, TRUE, f)
    BY <1>2, <2>1, GoesOnIs DEF SubagentsSilent
  <2>3. \/ f = fence
        \/ SubagentsAccept(c) /\ f = [fence EXCEPT ![c][Subagents] = SubagentsAfter(c)]
    OBVIOUS
  <2> QED BY <1>2, <2>2, <2>3 DEF Replies, SubagentsSilent
<1> QED BY <1>1, <1>2

LEMMA OverType ==
  ASSUME Types, NEW c \in Contexts, NEW ok,
         NEW phase \in {"none", "preparing", "prepared", "committed"}, Over(c, ok, phase)
  PROVE  /\ command' \in [Contexts -> [stage : Asking \cup {"none"}, id : AnyId,
                                       native : BOOLEAN, slow : BOOLEAN]]
         /\ waiter' \in [Contexts -> BOOLEAN]
         /\ lease' \in [Contexts -> [phase : {"none", "preparing", "prepared", "committed"},
                                     id : AnyId]]
         /\ outbox' \in [Contexts -> Seq(Told)]
<1> USE DEF Types, ChannelTypes, ChildTypes, Over
<1>1. command' \in [Contexts -> [stage : Asking \cup {"none"}, id : AnyId,
                                 native : BOOLEAN, slow : BOOLEAN]]
  BY DEF NoCommand, AnyId
<1>2. waiter' \in [Contexts -> BOOLEAN]
  OBVIOUS
<1>3. lease' \in [Contexts -> [phase : {"none", "preparing", "prepared", "committed"},
                               id : AnyId]]
  <2> DEFINE Lease == [phase : {"none", "preparing", "prepared", "committed"}, id : AnyId]
  <2>1. lease[c] \in Lease /\ lease \in [Contexts -> Lease]
    OBVIOUS
  <2>2. NoLease \in Lease /\ [lease[c] EXCEPT !.phase = phase] \in Lease
    BY <2>1 DEF NoLease, AnyId
  <2> HIDE DEF Lease
  <2>3. lease' \in [Contexts -> Lease]
    BY <2>1, <2>2
  <2> QED BY <2>3 DEF Lease
<1>4. outbox' \in [Contexts -> Seq(Told)]
  BY SaysType DEF Told, Answers
<1> QED BY <1>1, <1>2, <1>3, <1>4

LEMMA SubagentsTypesKept ==
  ASSUME Types, NEW c \in Contexts, NEW ok \in BOOLEAN, NEW silent \in BOOLEAN, NEW f,
         Replies(c, ok, silent, f)
  PROVE  Types'
<1> DEFINE Command == [stage : Asking \cup {"none"}, id : AnyId,
                       native : BOOLEAN, slow : BOOLEAN]
           Active == [phase : {"none", "prepared", "committed"}, id : AnyId,
                      native : BOOLEAN]
<1>1. f \in [Contexts -> [Provider -> AnyId]]
  <2>1. SubagentsAfter(c) \in AnyId
    BY DEF SubagentsAfter, Target, Types, ChildTypes, AnyId
  <2>2. fence \in [Contexts -> [Provider -> AnyId]]
    BY DEF Types, ChildTypes
  <2> QED BY <2>1, <2>2 DEF Replies, Provider
<1>2. Reopened(c, f) \in [Contexts -> [Provider -> AnyId]]
  BY <1>1 DEF Reopened, AnyId, Provider
<1>3. /\ MainTypes' /\ inbox' \in [Contexts -> Seq(Call)] /\ used' \in [Event -> Nat]
      /\ alive' \in [Contexts -> BOOLEAN] /\ run' \in [Contexts -> BOOLEAN]
      /\ operation' \in [Contexts -> SUBSET Provider]
  <2>1. used' \in [Event -> Nat]
    BY CountType DEF Replies, Types, ChannelTypes, Event
  <2> QED BY <2>1 DEF Replies, Types, MainTypes, ChannelTypes, ChildTypes, mainVars
<1>4. command[c] \in Command /\ active[c] \in Active /\ command[c].stage # "none"
      /\ lease[c].phase \in {"none", "preparing", "prepared", "committed"}
  BY DEF Types, ChildTypes, Replies, Busy
<1>5. /\ command' \in [Contexts -> Command] /\ waiter' \in [Contexts -> BOOLEAN]
      /\ lease' \in [Contexts -> [phase : {"none", "preparing", "prepared", "committed"},
                                     id : AnyId]]
      /\ outbox' \in [Contexts -> Seq(Told)]
  <2>1. CASE NobodyTold
    <3>1. CASE RetriesFirst(c, ok, silent, f)
      BY <1>4, <2>1, <3>1 DEF NobodyTold, RetriesFirst, Leaves, Types, ChildTypes,
         ChannelTypes, Asking
    <3>2. CASE TurnsPartial(c, ok, f)
      BY <1>4, <2>1, <3>2 DEF NobodyTold, TurnsPartial, Leaves, Types, ChildTypes,
         ChannelTypes, Asking
    <3>3. CASE \E says, phase : Over(c, says, phase)
      BY <2>1, <3>3 DEF NobodyTold, Over, Types, ChildTypes, ChannelTypes, NoCommand, AnyId
    <3> QED BY <3>1, <3>2, <3>3 DEF Replies, Outcome, HasPrepared, HasGivenUp,
          HasRolledBack, HasReleasedPrevious, HasCommitted, HasReleased
  <2>2. CASE \E says : \E phase \in {"none", "preparing", "prepared", "committed"} :
               Over(c, says, phase)
    BY <2>2, OverType
  <2>3. CASE HasCommitted(c, ok, f)
    BY <1>4, <2>2, <2>3 DEF HasCommitted
  <2>4. CASE HasReleased(c, ok, f)
    BY <1>4, <2>2, <2>4 DEF HasReleased
  <2> QED BY <2>1, <2>2, <2>3, <2>4 DEF Replies, Outcome, RetriesFirst, TurnsPartial,
          HasPrepared, HasGivenUp, HasRolledBack, HasReleasedPrevious
<1>6. active' \in [Contexts -> Active]
  <2>1. \E act \in Active : active' = [active EXCEPT ![c] = act]
    <3>1. NothingHeld \in Active
      BY DEF NothingHeld, AnyId
    <3>2. /\ [active[c] EXCEPT !.native = FALSE] \in Active
          /\ [active[c] EXCEPT !.phase = "committed"] \in Active
      BY <1>4
    <3>3. \A n \in BOOLEAN : [phase |-> "prepared", id |-> command[c].id, native |-> n] \in Active
      BY <1>4
    <3> HIDE DEF Active
    <3> QED BY <1>4, <3>1, <3>2, <3>3
         DEF Replies, Outcome, RetriesFirst, TurnsPartial, HasPrepared, HasGivenUp,
             HasRolledBack, HasReleasedPrevious, HasCommitted, HasReleased, Leaves
  <2> QED BY <2>1 DEF Types, ChildTypes
<1>7. fence' \in [Contexts -> [Provider -> AnyId]]
  BY <1>1, <1>2
     DEF Replies, Outcome, RetriesFirst, TurnsPartial, HasPrepared, HasGivenUp,
         HasRolledBack, HasReleasedPrevious, HasCommitted, HasReleased, Leaves
<1> QED BY <1>3, <1>5, <1>6, <1>7 DEF Types, ChannelTypes, ChildTypes

\* What a Runtime does with a lease call: it fails, or asks the Extension.
Records(c) ==
  /\ command[c] \in [stage : Asking \cup {"none"}, id : AnyId, native : BOOLEAN,
                     slow : BOOLEAN]
  /\ waiter[c] \in BOOLEAN
  /\ lease[c] \in [phase : {"none", "preparing", "prepared", "committed"}, id : AnyId]
  /\ active[c] \in [phase : {"none", "prepared", "committed"}, id : AnyId,
                    native : BOOLEAN]
  /\ operation[c] \in SUBSET Provider
  /\ fence[c] \in [Provider -> AnyId]
  /\ attempt.id \in AnyId

LEMMA RecordsTyped == ASSUME Types, NEW c \in Contexts PROVE Records(c)
BY DEF Records, Types, MainTypes, ChildTypes

LEMMA FenceType ==
  ASSUME Types, NEW c \in Contexts, NEW i \in AnyId, NativeFence(c, i) \/ UNCHANGED fence
  PROVE  fence' \in [Contexts -> [Provider -> AnyId]]
<1>1. fence \in [Contexts -> [Provider -> AnyId]]
  BY DEF Types, ChildTypes
<1> QED BY <1>1 DEF NativeFence, Provider

LEMMA AsksType ==
  ASSUME Types, NEW c \in Contexts, NEW stage \in Asking, NEW i \in AnyId,
         NEW native \in BOOLEAN, Asks(c, stage, i, native) \/ Fails(c)
  PROVE  /\ command' \in [Contexts -> [stage : Asking \cup {"none"}, id : AnyId,
                                       native : BOOLEAN, slow : BOOLEAN]]
         /\ waiter' \in [Contexts -> BOOLEAN]
         /\ outbox' \in [Contexts -> Seq(Told)]
<1>1. CASE Asks(c, stage, i, native)
  BY <1>1 DEF Asks, Types, ChildTypes, ChannelTypes
<1>2. CASE Fails(c)
  BY <1>2, SaysType DEF Fails, Types, ChildTypes, ChannelTypes, Told, Answers
<1> QED BY <1>1, <1>2

LEMMA TakesTypesKept ==
  ASSUME Types, NEW c \in Contexts, TakePrepare(c) \/ TakeCommit(c) \/ TakeRelease(c)
  PROVE  Types'
<1>0. Records(c)
  BY RecordsTyped
<1>1. NoId \in AnyId /\ NativeAccepts(c) \in BOOLEAN
  BY DEF AnyId, NativeAccepts
<1>2. inbox' \in [Contexts -> Seq(Call)] /\ UNCHANGED <<mainVars, alive, run, active,
                                                        operation, used>>
  BY TakesType DEF TakePrepare, TakeCommit, TakeRelease, Types, ChannelTypes
<1>3. CASE TakePrepare(c)
  <2>1. lease' \in [Contexts -> [phase : {"none", "preparing", "prepared", "committed"},
                                 id : AnyId]]
    <3>1. \/ UNCHANGED lease
          \/ lease' = [lease EXCEPT ![c] = [phase |-> "preparing", id |-> attempt.id]]
      BY <1>3 DEF TakePrepare
    <3>2. [phase |-> "preparing", id |-> attempt.id] \in
            [phase : {"none", "preparing", "prepared", "committed"}, id : AnyId]
      BY <1>0 DEF Records
    <3> QED BY <3>1, <3>2 DEF Types, ChildTypes
  <2>2. fence' \in [Contexts -> [Provider -> AnyId]]
    <3>1. NativeFence(c, NoId) \/ NativeFence(c, attempt.id) \/ UNCHANGED fence
      BY <1>3 DEF TakePrepare
    <3> QED BY <1>0, <1>1, <3>1, FenceType DEF Records
  <2>3. \E stage \in Asking, native \in BOOLEAN :
          Fails(c) \/ Asks(c, stage, attempt.id, native)
    <3>1. CASE Fails(c) \/ Asks(c, "previous", attempt.id, FALSE)
      BY <3>1 DEF Asking
    <3>2. CASE Asks(c, "first", attempt.id, NativeAccepts(c))
      BY <1>1, <3>2 DEF Asking
    <3> QED BY <1>3, <3>1, <3>2 DEF TakePrepare
  <2>4. /\ command' \in [Contexts -> [stage : Asking \cup {"none"}, id : AnyId,
                                      native : BOOLEAN, slow : BOOLEAN]]
        /\ waiter' \in [Contexts -> BOOLEAN]
        /\ outbox' \in [Contexts -> Seq(Told)]
    BY <1>0, <2>3, AsksType DEF Records
  <2> QED BY <1>2, <2>1, <2>2, <2>4
          DEF Types, MainTypes, ChannelTypes, ChildTypes, mainVars
<1>4. CASE TakeCommit(c)
  <2>1. \E native \in BOOLEAN : Fails(c) \/ Asks(c, "commit", attempt.id, native)
    <3>1. (~active[c].native \/ fence[c][Native] = attempt.id) \in BOOLEAN
      OBVIOUS
    <3> QED BY <1>4, <3>1 DEF TakeCommit
  <2>2. /\ command' \in [Contexts -> [stage : Asking \cup {"none"}, id : AnyId,
                                      native : BOOLEAN, slow : BOOLEAN]]
        /\ waiter' \in [Contexts -> BOOLEAN]
        /\ outbox' \in [Contexts -> Seq(Told)]
    BY <1>0, <2>1, AsksType DEF Records, Asking
  <2> QED BY <1>2, <1>4, <2>2
          DEF Types, MainTypes, ChannelTypes, ChildTypes, mainVars, TakeCommit
<1>5. CASE TakeRelease(c)
  <2>1. Fails(c) \/ Asks(c, "release", attempt.id, active[c].native)
    BY <1>5 DEF TakeRelease
  <2>2. /\ command' \in [Contexts -> [stage : Asking \cup {"none"}, id : AnyId,
                                      native : BOOLEAN, slow : BOOLEAN]]
        /\ waiter' \in [Contexts -> BOOLEAN]
        /\ outbox' \in [Contexts -> Seq(Told)]
    BY <1>0, <2>1, AsksType DEF Records, Asking
  <2>3. fence' \in [Contexts -> [Provider -> AnyId]]
    BY <1>1, <1>5, FenceType DEF TakeRelease
  <2> QED BY <1>2, <1>5, <2>2, <2>3
          DEF Types, MainTypes, ChannelTypes, ChildTypes, mainVars, TakeRelease
<1> QED BY <1>3, <1>4, <1>5

LEMMA GoneType ==
  ASSUME NEW cs, ChildTypes, Gone(cs) PROVE ChildTypes'
BY DEF ChildTypes, Gone, NoLease, NoCommand, NothingHeld, AnyId

LEMMA ChildTypesKept ==
  ASSUME Types, NEW c \in Contexts, Child(c) PROVE Types'
<1>1. CASE TakePrompt(c)
  <2>1. inbox' \in [Contexts -> Seq(Call)] /\ outbox' \in [Contexts -> Seq(Told)]
    BY <1>1, TakesType, SaysType DEF TakePrompt, Types, ChannelTypes, Told
  <2> QED BY <1>1, <2>1
          DEF TakePrompt, Types, MainTypes, ChannelTypes, ChildTypes, mainVars
<1>2. CASE TakePrepare(c) \/ TakeCommit(c) \/ TakeRelease(c)
  BY <1>2, TakesTypesKept
<1>3. CASE TakeStop(c)
  <2>1. inbox' \in [Contexts -> Seq(Call)] /\ outbox' \in [Contexts -> Seq(Told)]
    BY <1>3, TakesType, SaysType DEF TakeStop, Types, ChannelTypes, Told, Answers
  <2>2. used' \in [Event -> Nat] /\ MainTypes'
    BY <1>3, CountType DEF TakeStop, Types, ChannelTypes, MainTypes, mainVars, Event
  <2>3. ChildTypes'
    BY <1>3, GoneType DEF TakeStop, Types, ChildTypes
  <2> QED BY <2>1, <2>2, <2>3 DEF Types, ChannelTypes
<1>4. CASE SubagentsReply(c) \/ SubagentsSilent(c)
  BY <1>4, SubagentsIs, SubagentsTypesKept DEF Types
<1>5. CASE WaiterTimesOut(c)
  <2>1. outbox' \in [Contexts -> Seq(Told)]
    BY <1>5, SaysType DEF WaiterTimesOut, Types, ChannelTypes, Told, Answers
  <2> QED BY <1>5, <2>1
          DEF WaiterTimesOut, GivenUp, Types, MainTypes, ChannelTypes, ChildTypes, mainVars,
              NoLease, AnyId
<1>6. CASE RunSettles(c)
  <2>1. outbox' \in [Contexts -> Seq(Told)]
    BY <1>6, SaysType DEF RunSettles, Types, ChannelTypes, Told
  <2> QED BY <1>6, <2>1
          DEF RunSettles, Types, MainTypes, ChannelTypes, ChildTypes, mainVars
<1>7. ASSUME NEW p \in Provider, OperationBegins(c, p) PROVE Types'
  BY <1>7, CountType
     DEF OperationBegins, Types, MainTypes, ChannelTypes, ChildTypes, mainVars, Event
<1>8. ASSUME NEW p \in Provider, OperationEnds(c, p) PROVE Types'
  <2>1. outbox' \in [Contexts -> Seq(Told)]
    BY <1>8, SaysType DEF OperationEnds, Types, ChannelTypes, Told
  <2> QED BY <1>8, <2>1
          DEF OperationEnds, Types, MainTypes, ChannelTypes, ChildTypes, mainVars
<1> QED BY <1>1, <1>2, <1>3, <1>4, <1>5, <1>6, <1>7, <1>8 DEF Child

LEMMA TypesKept == ASSUME Types, [Next]_vars PROVE Types'
<1>1. CASE UNCHANGED vars
  BY <1>1 DEF vars, mainVars, childVars, Types, MainTypes, ChannelTypes, ChildTypes
<1> QED BY <1>1, NextIs, MainTypesKept, ChildTypesKept, SweepTypesKept

LEMMA InitTypes == Init => Types
<1> SUFFICES ASSUME Init PROVE Types
  OBVIOUS
<1>1. MainTypes
  BY DEF Init, MainTypes, NoAttempt, AnyId, Stages
<1>2. ChannelTypes
  BY DEF Init, ChannelTypes
<1>3. ChildTypes
  BY DEF Init, ChildTypes, NoLease, NoCommand, NothingHeld, AnyId
<1> QED BY <1>1, <1>2, <1>3 DEF Types

-----------------------------------------------------------------------------
(* Activation and stop exclude each other                                  *)

LEMMA InitGate == Init => Gate
BY DEF Init, Gate, ForegroundStays, NoAttempt

LEMMA GateKeptByMain ==
  ASSUME Types, Gate, NEW c \in Contexts, Main(c) PROVE Gate'
<1> USE DEF Types, MainTypes, Gate, ForegroundStays
<1>1. CASE Prompt(c) \/ HearOfRun(c)
  BY <1>1 DEF Prompt, HearOfRun
<1>2. CASE ActivateBegins(c)
  BY <1>2 DEF ActivateBegins, GateFree
<1>3. CASE PrepareFailed(c)
  BY <1>3 DEF PrepareFailed, Answer, NoAttempt
<1>4. CASE Prepared(c)
  BY <1>4, ReleaseType, StageType DEF Prepared, Answer, LeaseCall, NoAttempt
<1>5. CASE CommitFailed(c)
  BY <1>5, ReleaseType DEF CommitFailed, Answer, NoAttempt
<1>6. CASE Committed(c)
  <2>1. CASE GateFree /\ Eligible(c) /\ status' = [status EXCEPT ![c] = "stopping"]
             /\ Stage("stop") /\ Sends(c, "stop")
    BY <1>6, <2>1, StageType
       DEF Committed, Answer, GateFree, Eligible, Blocked, LeaseCall, NoAttempt
  <2>2. CASE (\E n \in Nat : ReleaseFrom(c, n)) /\ UNCHANGED status
    BY <1>6, <2>2, ReleaseType DEF Committed, Answer, NoAttempt
  <2> QED BY <1>6, <2>1, <2>2 DEF Committed
<1>7. CASE Stopped(c)
  BY <1>7 DEF Stopped, Answer, NoAttempt
<1>8. CASE StopFailed(c)
  BY <1>8 DEF StopFailed, Answer, NoAttempt
<1>9. CASE Released(c)
  <2>1. CASE attempt.left > 0 /\ ReleaseFrom(c, attempt.left - 1)
    <3>1. attempt.left - 1 \in Nat
      BY <2>1
    <3> QED BY <1>9, <2>1, <3>1, ReleaseType DEF Released, Answer, NoAttempt
  <2>2. CASE attempt' = NoAttempt
    BY <1>9, <2>2 DEF Released, Answer, NoAttempt
  <2> QED BY <1>9, <2>1, <2>2 DEF Released
<1> QED BY <1>1, <1>2, <1>3, <1>4, <1>5, <1>6, <1>7, <1>8, <1>9 DEF Main

LEMMA GateKept == ASSUME Types, Gate, [Next]_vars PROVE Gate'
<1> USE DEF Types, MainTypes, Gate, ForegroundStays
<1>1. CASE ActivateEnds
  BY <1>1 DEF ActivateEnds
<1>2. CASE SweepBegins
  BY <1>2 DEF SweepBegins
<1>3. CASE TryNext
  BY <1>3 DEF TryNext, NoAttempt, InUse
<1>4. CASE Crash
  BY <1>4 DEF Crash, NoAttempt, Managed
<1>5. ASSUME NEW c \in Contexts, Child(c) PROVE Gate'
  <2>1. UNCHANGED mainVars
    BY <1>5, SubagentsIs
       DEF Child, TakePrompt, TakePrepare, TakeCommit, TakeRelease, TakeStop, Replies,
           WaiterTimesOut, RunSettles, OperationBegins, OperationEnds
  <2> QED BY <2>1 DEF mainVars
<1>6. CASE UNCHANGED vars
  BY <1>6 DEF vars, mainVars
<1> QED BY <1>1, <1>2, <1>3, <1>4, <1>5, <1>6, GateKeptByMain, NextIs

-----------------------------------------------------------------------------
(* Fences                                                                  *)

\* Where the identity of the native fence is recorded, by the stage of the
\* command at work; and nothing is fenced over an operation in progress.
Known(c) ==
  /\ ~Busy(c) => ~command[c].native
  /\ active[c].phase = "none" => ~active[c].native
  /\ command[c].stage \in {"first", "second", "partial"} => active[c].phase = "none"
  /\ command[c].stage \in {"partial", "previous", "release"} => fence[c][Native] = NoId
  /\ command[c].stage \in {"first", "second"} =>
       fence[c][Native] = IF command[c].native THEN command[c].id ELSE NoId
  /\ command[c].stage \in {"none", "commit"} /\ fence[c][Native] # NoId =>
       active[c].id = fence[c][Native] /\ active[c].native
  /\ \A p \in operation[c] : fence[c][p] = NoId

LEMMA KnownSuffices ==
  ASSUME Types, \A c \in Contexts : Known(c) PROVE NativeFenceIsKnown
BY DEF NativeFenceIsKnown, Known, Types, ChildTypes, Asking

LEMMA KnownFrame ==
  ASSUME NEW c, Known(c), command'[c] = command[c], active'[c] = active[c],
         fence'[c] = fence[c], operation'[c] \subseteq operation[c]
  PROVE  Known(c)'
BY DEF Known, Busy

LEMMA NativeFenceAt ==
  ASSUME Types, NEW c \in Contexts, NEW i \in AnyId, NativeFence(c, i)
  PROVE  /\ fence'[c][Native] = i /\ fence'[c][Subagents] = fence[c][Subagents]
         /\ \A d \in Contexts \ {c} : fence'[d] = fence[d]
<1>1. fence \in [Contexts -> [Provider -> AnyId]]
  BY DEF Types, ChildTypes
<1> QED BY <1>1 DEF NativeFence, Provider, Native, Subagents

LEMMA KnownKeptByTakes ==
  ASSUME Types, NEW c \in Contexts, Known(c),
         TakePrepare(c) \/ TakeCommit(c) \/ TakeRelease(c)
  PROVE  Known(c)'
<1>0. Records(c)
  BY RecordsTyped
<1> USE DEF Known, Busy
<1>1. CASE TakePrepare(c)
  <2>1. CASE ~MayPrepare(c)
    BY <1>1, <2>1, KnownFrame DEF TakePrepare, Fails
  <2>2. CASE MayPrepare(c) /\ active[c].phase # "none"
    <3>1. /\ command'[c].stage = "previous" /\ ~command'[c].native
          /\ UNCHANGED <<active, operation>>
      BY <1>1, <2>2 DEF TakePrepare, Asks, Types, ChildTypes
    <3>2. fence'[c][Native] = NoId /\ fence'[c][Subagents] = fence[c][Subagents]
      <4>1. CASE active[c].native
        BY <1>1, <2>2, <4>1, NativeFenceAt DEF TakePrepare, AnyId
      <4>2. CASE ~active[c].native
        BY <1>1, <2>2, <4>2 DEF TakePrepare, MayPrepare
      <4> QED BY <4>1, <4>2
    <3> QED BY <1>0, <2>2, <3>1, <3>2 DEF Records, Provider
  <2>3. CASE MayPrepare(c) /\ active[c].phase = "none"
    <3>1. /\ command'[c].stage = "first" /\ command'[c].native = NativeAccepts(c)
          /\ command'[c].id = attempt.id
          /\ UNCHANGED <<active, operation>>
      BY <1>1, <2>3 DEF TakePrepare, Asks, Types, ChildTypes
    <3>2. CASE NativeAccepts(c)
      <4>1. fence'[c][Native] = attempt.id /\ fence'[c][Subagents] = fence[c][Subagents]
        BY <1>0, <1>1, <2>3, <3>2, NativeFenceAt DEF TakePrepare, Records
      <4> QED BY <1>0, <2>3, <3>1, <3>2, <4>1 DEF Records, Provider, NativeAccepts
    <3>3. CASE ~NativeAccepts(c)
      <4>1. UNCHANGED fence
        BY <1>1, <2>3, <3>3 DEF TakePrepare
      <4>2. fence[c][Native] = NoId
        BY <2>3 DEF MayPrepare
      <4> QED BY <1>0, <2>3, <3>1, <3>3, <4>1, <4>2 DEF Records
    <3> QED BY <3>2, <3>3
  <2> QED BY <2>1, <2>2, <2>3
<1>2. CASE TakeCommit(c)
  <2>1. CASE UNCHANGED command
    BY <1>2, <2>1, KnownFrame DEF TakeCommit
  <2>2. CASE ~Busy(c) /\ Asks(c, "commit", attempt.id,
                            ~active[c].native \/ fence[c][Native] = attempt.id)
    <3>1. command'[c].stage = "commit" /\ UNCHANGED <<active, fence, operation>>
      BY <1>2, <2>2 DEF TakeCommit, Asks, Types, ChildTypes
    <3> QED BY <2>2, <3>1
  <2> QED BY <1>2, <2>1, <2>2 DEF TakeCommit, Fails
<1>3. CASE TakeRelease(c)
  <2>1. CASE UNCHANGED <<command, fence>>
    BY <1>3, <2>1, KnownFrame DEF TakeRelease
  <2>2. CASE /\ Holds(c) /\ ~Busy(c) /\ Matches(c)
             /\ Asks(c, "release", attempt.id, active[c].native)
             /\ IF active[c].native THEN NativeFence(c, NoId) ELSE UNCHANGED fence
    <3>1. command'[c].stage = "release" /\ UNCHANGED <<active, operation>>
      BY <1>3, <2>2 DEF TakeRelease, Asks, Types, ChildTypes
    <3>2. fence'[c][Native] = NoId /\ fence'[c][Subagents] = fence[c][Subagents]
      <4>1. CASE active[c].native
        BY <2>2, <4>1, NativeFenceAt DEF AnyId
      <4>2. CASE ~active[c].native
        BY <2>2, <4>2
      <4> QED BY <4>1, <4>2
    <3> QED BY <1>0, <2>2, <3>1, <3>2 DEF Records, Provider
  <2> QED BY <1>3, <2>1, <2>2 DEF TakeRelease, Fails
<1> QED BY <1>1, <1>2, <1>3

\* The fences once pi-subagents has answered, or has not.
LEMMA RepliedFence ==
  ASSUME Types, NEW c \in Contexts, NEW ok \in BOOLEAN, NEW silent \in BOOLEAN, NEW f,
         Replies(c, ok, silent, f)
  PROVE  /\ f[c][Native] = fence[c][Native]
         /\ f[c][Subagents] \in {fence[c][Subagents], SubagentsAfter(c)}
         /\ ok => SubagentsAccept(c) /\ f[c][Subagents] = SubagentsAfter(c)
         /\ f[c][Subagents] # fence[c][Subagents] => SubagentsAccept(c)
         /\ \A d \in Contexts \ {c} : f[d] = fence[d]
         /\ f \in [Contexts -> [Provider -> AnyId]]
<1>1. fence \in [Contexts -> [Provider -> AnyId]] /\ SubagentsAfter(c) \in AnyId
  BY DEF Types, ChildTypes, SubagentsAfter, Target, AnyId
<1>2. \/ f = fence /\ ~ok
      \/ SubagentsAccept(c) /\ f = [fence EXCEPT ![c][Subagents] = SubagentsAfter(c)]
  BY DEF Replies
<1>3. CASE f = fence /\ ~ok
  BY <1>1, <1>3
<1>4. CASE SubagentsAccept(c) /\ f = [fence EXCEPT ![c][Subagents] = SubagentsAfter(c)]
  BY <1>1, <1>4 DEF Provider, Native, Subagents
<1> QED BY <1>2, <1>3, <1>4

LEMMA KnownKeptByReplies ==
  ASSUME Types, NEW c \in Contexts, Known(c), NEW ok \in BOOLEAN, NEW silent \in BOOLEAN,
         NEW f, Replies(c, ok, silent, f)
  PROVE  Known(c)'
<1>0. Records(c)
  BY RecordsTyped
<1>1. /\ f[c][Native] = fence[c][Native]
      /\ f[c][Subagents] \in {fence[c][Subagents], SubagentsAfter(c)}
      /\ f[c][Subagents] # fence[c][Subagents] => SubagentsAccept(c)
      /\ f \in [Contexts -> [Provider -> AnyId]]
  BY RepliedFence
<1>2. operation' = operation /\ Busy(c)
  BY DEF Replies
<1>3. \A p \in operation[c] : f[c][p] = NoId
  <2>1. Subagents \in operation[c] => f[c][Subagents] = NoId
    <3>1. Subagents \in operation[c] => fence[c][Subagents] = NoId
      BY DEF Known
    <3> QED BY <1>1, <3>1 DEF SubagentsAccept, SubagentsAfter, Target
  <2> QED BY <1>0, <1>1, <2>1 DEF Known, Records, Provider
<1>4. CASE RetriesFirst(c, ok, silent, f)
  BY <1>0, <1>1, <1>2, <1>3, <1>4
     DEF RetriesFirst, Leaves, Known, Busy, Types, ChildTypes, Asking
<1>5. CASE TurnsPartial(c, ok, f)
  BY <1>0, <1>1, <1>2, <1>3, <1>5
     DEF TurnsPartial, Leaves, Known, Busy, Types, ChildTypes, Asking
<1>6. ASSUME command'[c] = NoCommand,
             \A p \in operation[c] : fence'[c][p] = NoId,
             fence'[c][Native] # NoId =>
               active'[c].id = fence'[c][Native] /\ active'[c].native,
             active'[c].phase = "none" => ~active'[c].native
      PROVE  Known(c)'
  BY <1>2, <1>6 DEF Known, Busy, NoCommand
<1>7. CASE HasPrepared(c, ok, f)
  <2>1. /\ command'[c] = NoCommand /\ fence' = f
        /\ active'[c] = [phase |-> "prepared", id |-> command[c].id, native |-> TRUE]
    BY <1>7 DEF HasPrepared, Leaves, Types, ChildTypes
  <2> QED BY <1>1, <1>3, <1>6, <1>7, <2>1 DEF HasPrepared, Known
<1>8. CASE HasGivenUp(c, ok, f)
  <2>1. /\ command'[c] = NoCommand /\ fence' = Reopened(c, f)
        /\ active'[c] = active[c] /\ active[c].phase = "none"
    BY <1>8 DEF HasGivenUp, Leaves, Types, ChildTypes, Known
  <2>2. Reopened(c, f)[c][Native] = NoId /\ Reopened(c, f)[c][Subagents] = f[c][Subagents]
    BY <1>1, <1>8 DEF Reopened, HasGivenUp, Known, Provider, Native, Subagents
  <2>3. \A p \in operation[c] : fence'[c][p] = NoId
    BY <1>0, <1>3, <2>1, <2>2 DEF Records, Provider
  <2>4. ~active[c].native
    BY <2>1 DEF Known
  <2> QED BY <1>6, <2>1, <2>2, <2>3, <2>4
<1>9. CASE HasRolledBack(c, ok, f) \/ HasReleasedPrevious(c, ok, f) \/ HasReleased(c, ok, f)
  <2>1. \E act \in {NothingHeld, [active[c] EXCEPT !.native = FALSE],
                    [phase |-> "prepared", id |-> command[c].id, native |-> FALSE]} :
          Leaves(c, NoCommand, act, f)
    BY <1>9 DEF HasRolledBack, HasReleasedPrevious, HasReleased
  <2>2. command'[c] = NoCommand /\ fence' = f /\ ~active'[c].native
    BY <1>0, <2>1 DEF Leaves, Types, ChildTypes, NothingHeld, Records
  <2>3. fence[c][Native] = NoId
    BY <1>9 DEF HasRolledBack, HasReleasedPrevious, HasReleased, Known
  <2> QED BY <1>1, <1>3, <1>6, <2>2, <2>3
<1>10. CASE HasCommitted(c, ok, f)
  <2>1. /\ command'[c] = NoCommand /\ fence' = f
        /\ active'[c].native = active[c].native /\ active'[c].id = active[c].id
        /\ active'[c].phase = "none" => active[c].phase = "none"
    BY <1>0, <1>10 DEF HasCommitted, Leaves, Types, ChildTypes, Records
  <2> QED BY <1>1, <1>3, <1>6, <1>10, <2>1 DEF Known, HasCommitted
<1> QED BY <1>4, <1>5, <1>7, <1>8, <1>9, <1>10 DEF Replies, Outcome

\* What a step at one context leaves alone at another.
SameChild(d) ==
  /\ alive'[d] = alive[d] /\ run'[d] = run[d] /\ lease'[d] = lease[d]
  /\ waiter'[d] = waiter[d] /\ command'[d] = command[d] /\ active'[d] = active[d]
  /\ operation'[d] = operation[d] /\ fence'[d] = fence[d]
Same(d) ==
  /\ SameChild(d)
  /\ status'[d] = status[d] /\ inbox'[d] = inbox[d] /\ outbox'[d] = outbox[d]
Grows == \A e \in Event : used'[e] >= used[e]

LEMMA UnchangedGrows == ASSUME Types, UNCHANGED used PROVE Grows
BY DEF Types, ChannelTypes, Grows

LEMMA HappensGrows == ASSUME Types, NEW e \in Event, Happens(e) PROVE Grows
BY CountType DEF Types, ChannelTypes, Grows

LEMMA RepliesElsewhere ==
  ASSUME Types, NEW c \in Contexts, NEW d \in Contexts \ {c}, NEW ok \in BOOLEAN,
         NEW silent \in BOOLEAN, NEW f, Replies(c, ok, silent, f)
  PROVE  Same(d) /\ Grows
<1>1. f[d] = fence[d] /\ f \in [Contexts -> [Provider -> AnyId]]
  BY RepliedFence
<1>2. Grows
  BY UnchangedGrows, HappensGrows DEF Replies, Event
<1>3. /\ UNCHANGED <<status, inbox, alive, run, operation>>
  BY DEF Replies, mainVars
<1>4. PICK cmd, act : \E g \in {f, Reopened(c, f)} : Leaves(c, cmd, act, g)
  BY DEF Replies, Outcome, RetriesFirst, TurnsPartial, HasPrepared, HasGivenUp,
         HasRolledBack, HasReleasedPrevious, HasCommitted, HasReleased
<1>5. command'[d] = command[d] /\ active'[d] = active[d]
  BY <1>4 DEF Leaves, Types, ChildTypes
<1>6. fence'[d] = fence[d]
  BY <1>1, <1>4 DEF Leaves, Reopened
<1>7. NobodyTold \/ \E says, phase : Over(c, says, phase)
  BY DEF Replies, Outcome, RetriesFirst, TurnsPartial, HasPrepared, HasGivenUp,
         HasRolledBack, HasReleasedPrevious, HasCommitted, HasReleased
<1>8. lease'[d] = lease[d] /\ waiter'[d] = waiter[d] /\ outbox'[d] = outbox[d]
  BY <1>7 DEF NobodyTold, Over, Says, Types, ChildTypes, ChannelTypes
<1> QED BY <1>2, <1>3, <1>5, <1>6, <1>8 DEF Same, SameChild

LEMMA GoneAt ==
  ASSUME NEW cs, Gone(cs), Types, NEW d \in Contexts
  PROVE  IF d \in cs
         THEN /\ ~alive'[d] /\ ~run'[d] /\ lease'[d] = NoLease /\ ~waiter'[d]
              /\ command'[d] = NoCommand /\ active'[d] = NothingHeld
              /\ operation'[d] = {} /\ fence'[d] = [p \in Provider |-> NoId]
         ELSE SameChild(d)
BY DEF Gone, SameChild, Types, ChildTypes

LEMMA ChildElsewhere ==
  ASSUME Types, NEW c \in Contexts, NEW d \in Contexts \ {c}, Child(c)
  PROVE  Same(d) /\ Grows /\ UNCHANGED mainVars
<1> USE DEF Same, SameChild, Types, ChildTypes, ChannelTypes
<1>1. CASE TakePrompt(c)
  BY <1>1, UnchangedGrows DEF TakePrompt, Takes, Says, mainVars
<1>2. CASE TakePrepare(c)
  <2>1. fence'[d] = fence[d]
    <3>1. NativeFence(c, NoId) \/ NativeFence(c, attempt.id) \/ UNCHANGED fence
      BY <1>2 DEF TakePrepare
    <3>2. NoId \in AnyId /\ attempt.id \in AnyId
      BY RecordsTyped DEF Records, AnyId
    <3> QED BY <3>1, <3>2, NativeFenceAt
  <2>2. command'[d] = command[d] /\ waiter'[d] = waiter[d] /\ outbox'[d] = outbox[d]
    BY <1>2 DEF TakePrepare, Asks, Fails, Says
  <2> QED BY <1>2, <2>1, <2>2, UnchangedGrows DEF TakePrepare, Takes, mainVars
<1>3. CASE TakeCommit(c)
  <2>2. command'[d] = command[d] /\ waiter'[d] = waiter[d] /\ outbox'[d] = outbox[d]
    BY <1>3 DEF TakeCommit, Asks, Fails, Says
  <2> QED BY <1>3, <2>2, UnchangedGrows DEF TakeCommit, Takes, mainVars
<1>4. CASE TakeRelease(c)
  <2>1. fence'[d] = fence[d]
    BY <1>4 DEF TakeRelease, NativeFence
  <2>2. command'[d] = command[d] /\ waiter'[d] = waiter[d] /\ outbox'[d] = outbox[d]
    BY <1>4 DEF TakeRelease, Asks, Fails, Says
  <2> QED BY <1>4, <2>1, <2>2, UnchangedGrows DEF TakeRelease, Takes, mainVars
<1>5. CASE TakeStop(c)
  <2>1. SameChild(d)
    <3>1. CASE Gone({c})
      BY <3>1, GoneAt
    <3>2. CASE /\ alive' = [alive EXCEPT ![c] = FALSE]
               /\ UNCHANGED <<run, lease, waiter, command, active, operation, fence>>
      BY <3>2
    <3> QED BY <1>5, <3>1, <3>2 DEF TakeStop
  <2>2. Grows
    BY <1>5, UnchangedGrows, HappensGrows DEF TakeStop, Event
  <2> QED BY <1>5, <2>1, <2>2 DEF TakeStop, Takes, Says, mainVars
<1>6. CASE SubagentsReply(c) \/ SubagentsSilent(c)
  <2>1. UNCHANGED mainVars
    BY <1>6 DEF SubagentsReply, SubagentsSilent
  <2> QED BY <1>6, <2>1, SubagentsIs, RepliesElsewhere
<1>7. CASE WaiterTimesOut(c)
  BY <1>7, UnchangedGrows DEF WaiterTimesOut, GivenUp, Says, mainVars
<1>8. CASE RunSettles(c)
  BY <1>8, UnchangedGrows DEF RunSettles, Says, mainVars
<1>9. ASSUME NEW p \in Provider, OperationBegins(c, p)
      PROVE  Same(d) /\ Grows /\ UNCHANGED mainVars
  <2>1. Grows
    BY <1>9, HappensGrows DEF OperationBegins, Event
  <2> QED BY <1>9, <2>1 DEF OperationBegins, mainVars
<1>10. ASSUME NEW p \in Provider, OperationEnds(c, p)
       PROVE  Same(d) /\ Grows /\ UNCHANGED mainVars
  BY <1>10, UnchangedGrows DEF OperationEnds, Says, mainVars
<1> QED BY <1>1, <1>2, <1>3, <1>4, <1>5, <1>6, <1>7, <1>8, <1>9, <1>10 DEF Child

\* The steps of Main leave the Runtimes alone.
LEMMA MainLeavesChild ==
  ASSUME \/ ActivateEnds \/ SweepBegins \/ TryNext \/ \E c \in Contexts : Main(c)
  PROVE  UNCHANGED childVars
BY DEF ActivateEnds, SweepBegins, TryNext, Main, Prompt, HearOfRun, ActivateBegins,
       PrepareFailed, Prepared, CommitFailed, Committed, Stopped, StopFailed, Released

LEMMA KnownOnceGone ==
  ASSUME NEW cs, Gone(cs), Types, NEW d \in Contexts, Known(d) PROVE Known(d)'
<1>1. CASE d \in cs
  <2>1. /\ command'[d] = NoCommand /\ active'[d] = NothingHeld
        /\ operation'[d] = {} /\ fence'[d] = [p \in Provider |-> NoId]
    BY <1>1, GoneAt
  <2> QED BY <2>1 DEF Known, Busy, NoCommand, NothingHeld, Provider
<1>2. CASE d \notin cs
  BY <1>2, GoneAt, KnownFrame DEF SameChild
<1> QED BY <1>1, <1>2

LEMMA KnownKept ==
  ASSUME Types, NEW d \in Contexts, Known(d), [Next]_vars PROVE Known(d)'
<1>1. CASE UNCHANGED childVars
  BY <1>1, KnownFrame DEF childVars
<1>2. CASE Crash
  BY <1>2, KnownOnceGone DEF Crash
<1>3. ASSUME NEW c \in Contexts, Child(c), c # d PROVE Known(d)'
  BY <1>3, ChildElsewhere, KnownFrame DEF Same, SameChild
<1>4. CASE Child(d)
  <2>1. CASE \/ TakePrompt(d) \/ WaiterTimesOut(d) \/ RunSettles(d)
             \/ \E p \in Provider : OperationEnds(d, p)
    <3>1. operation'[d] \subseteq operation[d]
      BY <2>1 DEF TakePrompt, WaiterTimesOut, RunSettles, OperationEnds, Types, ChildTypes
    <3> QED BY <2>1, <3>1, KnownFrame DEF TakePrompt, WaiterTimesOut, RunSettles, OperationEnds
  <2>2. CASE TakePrepare(d) \/ TakeCommit(d) \/ TakeRelease(d)
    BY <2>2, KnownKeptByTakes
  <2>3. CASE TakeStop(d)
    BY <2>3, KnownOnceGone, KnownFrame DEF TakeStop
  <2>4. CASE SubagentsReply(d) \/ SubagentsSilent(d)
    BY <2>4, SubagentsIs, KnownKeptByReplies DEF Types
  <2>5. ASSUME NEW p \in Provider, OperationBegins(d, p) PROVE Known(d)'
    BY <2>5 DEF OperationBegins, Known, Busy, Types, ChildTypes
  <2> QED BY <1>4, <2>1, <2>2, <2>3, <2>4, <2>5 DEF Child
<1> QED BY <1>1, <1>2, <1>3, <1>4, MainLeavesChild, NextIs DEF vars

-----------------------------------------------------------------------------
(* Exchange of calls and answers                                           *)

Lacks(s, S) == \A k \in DOMAIN s : s[k] \notin S
AtMostOne(s, S) == \A j, k \in DOMAIN s : s[j] \in S /\ s[k] \in S => j = k

LEMMA AppendKeeps ==
  ASSUME NEW T, NEW s \in Seq(T), NEW e \in T, NEW S
  PROVE  /\ Lacks(Append(s, e), S) <=> Lacks(s, S) /\ e \notin S
         /\ AtMostOne(s, S) /\ (Lacks(s, S) \/ e \notin S) => AtMostOne(Append(s, e), S)
<1>1. /\ Append(s, e) \in Seq(T) /\ Len(Append(s, e)) = Len(s) + 1
      /\ \A k \in 1 .. Len(s) : Append(s, e)[k] = s[k]
      /\ Append(s, e)[Len(s) + 1] = e
      /\ DOMAIN s = 1 .. Len(s) /\ DOMAIN Append(s, e) = 1 .. Len(s) + 1
      /\ Len(s) \in Nat
  BY AppendProperties, LenProperties
<1>2. \A k : k \in DOMAIN Append(s, e) <=> k \in DOMAIN s \/ k = Len(s) + 1
  BY <1>1
<1>3. Len(s) + 1 \notin DOMAIN s
  BY <1>1
<1>4. Lacks(Append(s, e), S) <=> Lacks(s, S) /\ e \notin S
  BY <1>1, <1>2 DEF Lacks
<1>5. ASSUME AtMostOne(s, S), Lacks(s, S) \/ e \notin S
      PROVE  AtMostOne(Append(s, e), S)
  BY <1>1, <1>2, <1>3, <1>5 DEF Lacks, AtMostOne
<1> QED BY <1>4, <1>5

LEMMA TailKeeps ==
  ASSUME NEW T, NEW s \in Seq(T), s # <<>>, NEW S
  PROVE  /\ Lacks(s, S) <=> Lacks(Tail(s), S) /\ Head(s) \notin S
         /\ AtMostOne(s, S) => AtMostOne(Tail(s), S)
         /\ AtMostOne(s, S) /\ Head(s) \in S => Lacks(Tail(s), S)
<1>1. /\ Tail(s) \in Seq(T) /\ Len(Tail(s)) = Len(s) - 1
      /\ \A k \in 1 .. Len(Tail(s)) : Tail(s)[k] = s[k + 1]
      /\ Head(s) = s[1] /\ Len(s) \in Nat /\ Len(s) >= 1
      /\ DOMAIN s = 1 .. Len(s) /\ DOMAIN Tail(s) = 1 .. Len(s) - 1
  BY HeadTailProperties, LenProperties, EmptySeq
<1>2. \A k \in DOMAIN Tail(s) : k + 1 \in DOMAIN s /\ k + 1 # 1 /\ Tail(s)[k] = s[k + 1]
  BY <1>1
<1>3. \A k \in DOMAIN s : k = 1 \/ (k - 1 \in DOMAIN Tail(s) /\ s[k] = Tail(s)[k - 1])
  BY <1>1
<1>4. 1 \in DOMAIN s
  BY <1>1
<1>5. Lacks(s, S) <=> Lacks(Tail(s), S) /\ Head(s) \notin S
  BY <1>1, <1>2, <1>3, <1>4 DEF Lacks
<1>6. AtMostOne(s, S) => AtMostOne(Tail(s), S)
  <2> SUFFICES ASSUME AtMostOne(s, S), NEW j \in DOMAIN Tail(s), NEW k \in DOMAIN Tail(s),
                      Tail(s)[j] \in S, Tail(s)[k] \in S
               PROVE  j = k
    BY DEF AtMostOne
  <2>1. j + 1 = k + 1
    BY <1>2 DEF AtMostOne
  <2> QED BY <1>1, <2>1
<1>7. AtMostOne(s, S) /\ Head(s) \in S => Lacks(Tail(s), S)
  BY <1>1, <1>2, <1>4 DEF AtMostOne, Lacks
<1> QED BY <1>5, <1>6, <1>7

LEMMA EmptyLacks == \A S : Lacks(<<>>, S) /\ AtMostOne(<<>>, S)
BY DEF Lacks, AtMostOne

\* Nothing of an attempt is on its way to or from the Runtime.
Quiet(c) == Lacks(inbox[c], LeaseCall) /\ ~waiter[c] /\ Lacks(outbox[c], Answers)

\* Of the call an attempt awaits there is one thing: the call itself, a
\* command with a waiter, or the answer.  A waiting Runtime has the lease that
\* goes with the command.
Exchange(c) ==
  /\ AtMostOne(inbox[c], LeaseCall) /\ AtMostOne(outbox[c], Answers)
  /\ ~Lacks(inbox[c], LeaseCall) => ~waiter[c] /\ Lacks(outbox[c], Answers)
  /\ Lacks(inbox[c], LeaseCall \ {attempt.stage})
  /\ waiter[c] =>
       /\ Lacks(outbox[c], Answers)
       /\ command[c].id = attempt.id /\ lease[c].id = attempt.id
       /\ \/ /\ attempt.stage = "prepare" /\ command[c].stage \in Preparing
             /\ lease[c].phase = "preparing"
          \/ /\ attempt.stage \in {"commit", "release"}
             /\ command[c].stage = attempt.stage
             /\ lease[c].phase \in {"prepared", "committed"}
  /\ ~Quiet(c) => attempt.context = c
  /\ lease[c].phase = "preparing" => waiter[c]
  /\ command[c].slow => command[c].stage \in {"second", "partial"} /\ used["silence"] > 0

LEMMA LacksLess ==
  ASSUME NEW s, NEW S, NEW T \in SUBSET S, Lacks(s, S) PROVE Lacks(s, T)
BY DEF Lacks

LEMMA TakesCall ==
  ASSUME Types, NEW c \in Contexts, Exchange(c), NEW x \in LeaseCall, Takes(c, x)
  PROVE  /\ attempt.context = c /\ attempt.stage = x
         /\ ~waiter[c] /\ Lacks(outbox[c], Answers)
         /\ Lacks(inbox'[c], LeaseCall) /\ AtMostOne(inbox'[c], LeaseCall)
<1>1. inbox[c] \in Seq(Call) /\ inbox[c] # <<>> /\ Head(inbox[c]) = x
      /\ inbox'[c] = Tail(inbox[c])
  BY DEF Takes, Types, ChannelTypes
<1>2. ~Lacks(inbox[c], LeaseCall)
  BY <1>1, TailKeeps
<1>3. attempt.stage = x
  BY <1>1, TailKeeps DEF Exchange
<1> QED BY <1>1, <1>2, <1>3, TailKeeps DEF Exchange, Quiet

LEMMA QuietElsewhere ==
  ASSUME NEW d \in Contexts, Exchange(d), attempt.context # d PROVE Quiet(d)
BY DEF Exchange

LEMMA GetsAnswer ==
  ASSUME Types, NEW c \in Contexts, \A e \in Contexts : Exchange(e), NEW x \in Answers,
         NEW stage, Answer(c, stage, x)
  PROVE  /\ attempt.context = c /\ attempt.stage = stage /\ ~Lacks(outbox[c], Answers)
         /\ Lacks(inbox[c], LeaseCall) /\ ~waiter[c]
         /\ Lacks(outbox'[c], Answers) /\ AtMostOne(outbox'[c], Answers)
         /\ \A d \in Contexts \ {c} : outbox'[d] = outbox[d] /\ Quiet(d)
<1>1. outbox[c] \in Seq(Told) /\ outbox[c] # <<>> /\ Head(outbox[c]) = x
      /\ outbox'[c] = Tail(outbox[c]) /\ \A d \in Contexts \ {c} : outbox'[d] = outbox[d]
  BY DEF Answer, Types, ChannelTypes
<1>2. ~Lacks(outbox[c], Answers)
  BY <1>1, TailKeeps
<1>3. attempt.context = c /\ attempt.stage = stage
  BY DEF Answer
<1>4. /\ Lacks(inbox[c], LeaseCall) /\ ~waiter[c] /\ AtMostOne(outbox[c], Answers)
  BY <1>2 DEF Exchange
<1>5. Lacks(outbox'[c], Answers) /\ AtMostOne(outbox'[c], Answers)
  BY <1>1, <1>4, TailKeeps
<1>6. \A d \in Contexts \ {c} : Quiet(d)
  BY <1>3, QuietElsewhere
<1> QED BY <1>1, <1>2, <1>3, <1>4, <1>5, <1>6

LEMMA SendsCall ==
  ASSUME Types, NEW c \in Contexts, NEW x \in LeaseCall, Sends(c, x),
         Lacks(inbox[c], LeaseCall)
  PROVE  /\ AtMostOne(inbox'[c], LeaseCall) /\ ~Lacks(inbox'[c], LeaseCall)
         /\ Lacks(inbox'[c], LeaseCall \ {x})
         /\ Lacks(inbox[c], {"prompt"}) => Lacks(inbox'[c], {"prompt"})
         /\ \A d \in Contexts \ {c} : inbox'[d] = inbox[d]
<1>1. inbox[c] \in Seq(Call) /\ inbox'[c] = Append(inbox[c], x) /\ x \in Call
      /\ \A d \in Contexts \ {c} : inbox'[d] = inbox[d]
  BY DEF Sends, Types, ChannelTypes, Call
<1>2. AtMostOne(inbox'[c], LeaseCall)
  <2>1. AtMostOne(inbox[c], LeaseCall)
    BY DEF Lacks, AtMostOne
  <2> QED BY <1>1, <2>1, AppendKeeps
<1>3. Lacks(inbox'[c], LeaseCall \ {x})
  <2>1. Lacks(inbox[c], LeaseCall \ {x})
    BY LacksLess
  <2> QED BY <1>1, <2>1, AppendKeeps
<1>4. ~Lacks(inbox'[c], LeaseCall)
  BY <1>1, AppendKeeps
<1>5. Lacks(inbox[c], {"prompt"}) => Lacks(inbox'[c], {"prompt"})
  BY <1>1, AppendKeeps DEF LeaseCall
<1> QED BY <1>1, <1>2, <1>3, <1>4, <1>5

LEMMA SaysAnswer ==
  ASSUME Types, NEW c \in Contexts, NEW x \in Answers, Says(c, x),
         Lacks(outbox[c], Answers)
  PROVE  /\ AtMostOne(outbox'[c], Answers)
         /\ \A d \in Contexts \ {c} : outbox'[d] = outbox[d]
<1>1. outbox[c] \in Seq(Told) /\ outbox'[c] = Append(outbox[c], x) /\ x \in Told
      /\ \A d \in Contexts \ {c} : outbox'[d] = outbox[d]
  BY DEF Says, Types, ChannelTypes, Told
<1>2. AtMostOne(outbox[c], Answers)
  BY DEF Lacks, AtMostOne
<1> QED BY <1>1, <1>2, AppendKeeps

LEMMA SaysEvent ==
  ASSUME Types, NEW c \in Contexts, NEW x \in Told \ Answers, Says(c, x)
  PROVE  /\ AtMostOne(outbox[c], Answers) => AtMostOne(outbox'[c], Answers)
         /\ Lacks(outbox'[c], Answers) <=> Lacks(outbox[c], Answers)
         /\ Lacks(outbox'[c], {"ok"}) <=> Lacks(outbox[c], {"ok"})
<1>1. outbox[c] \in Seq(Told) /\ outbox'[c] = Append(outbox[c], x) /\ x \in Told
  BY DEF Says, Types, ChannelTypes
<1> QED BY <1>1, AppendKeeps DEF Told, Answers

LEMMA ExchangeFrame ==
  ASSUME NEW d, Exchange(d), Grows, Types, Types',
         inbox'[d] = inbox[d], outbox'[d] = outbox[d], waiter'[d] = waiter[d],
         command'[d] = command[d], lease'[d] = lease[d],
         UNCHANGED attempt \/ Quiet(d)
  PROVE  Exchange(d)'
<1>1. used["silence"] > 0 => used'["silence"] > 0
  BY DEF Grows, Types, ChannelTypes, Event
<1>2. UNCHANGED attempt \/ Lacks(inbox[d], LeaseCall \ {attempt'.stage})
  BY LacksLess DEF Quiet
<1> QED BY <1>1, <1>2 DEF Exchange, Quiet

\* The steps of Main.
LEMMA ExchangeKeptByMain ==
  ASSUME Types, Types', Gate, \A e \in Contexts : Exchange(e), NEW c \in Contexts, Main(c),
         NEW d \in Contexts
  PROVE  Exchange(d)'
<1>1. UNCHANGED childVars
  BY MainLeavesChild
<1>2. waiter'[d] = waiter[d] /\ command'[d] = command[d] /\ lease'[d] = lease[d]
  BY <1>1 DEF childVars
<1>3. Exchange(d) /\ Exchange(c)
  OBVIOUS
<1>4. CASE Prompt(c)
  <2>1. Grows /\ attempt' = attempt /\ outbox' = outbox
    BY <1>4, HappensGrows DEF Prompt, Event
  <2>2. CASE d = c
    <3>1. inbox[c] \in Seq(Call) /\ inbox'[c] = Append(inbox[c], "prompt")
      BY <1>4 DEF Prompt, Sends, Types, ChannelTypes
    <3>2. /\ AtMostOne(inbox'[c], LeaseCall)
          /\ Lacks(inbox'[c], LeaseCall) <=> Lacks(inbox[c], LeaseCall)
          /\ Lacks(inbox'[c], LeaseCall \ {attempt.stage})
      <4>1. "prompt" \in Call /\ "prompt" \notin LeaseCall
        BY DEF Call, LeaseCall
      <4> QED BY <1>3, <3>1, <4>1, AppendKeeps DEF Exchange
    <3>3. used["silence"] > 0 => used'["silence"] > 0
      BY <2>1 DEF Grows, Types, ChannelTypes, Event
    <3> QED BY <1>2, <2>1, <2>2, <3>2, <3>3 DEF Exchange, Quiet
  <2>3. CASE d # c
    <3>1. inbox'[d] = inbox[d]
      BY <1>4, <2>3 DEF Prompt, Sends, Types, ChannelTypes
    <3> QED BY <1>2, <2>1, <3>1, ExchangeFrame
  <2> QED BY <2>2, <2>3
<1>5. CASE HearOfRun(c)
  <2>1. Grows /\ attempt' = attempt /\ inbox' = inbox /\ used' = used
    BY <1>5, UnchangedGrows DEF HearOfRun
  <2>2. CASE d = c
    <3>1. /\ outbox[c] \in Seq(Told) /\ outbox[c] # <<>>
          /\ outbox'[c] = Tail(outbox[c]) /\ Head(outbox[c]) \notin Answers
      BY <1>5 DEF HearOfRun, Types, ChannelTypes, Answers
    <3>2. /\ AtMostOne(outbox'[c], Answers)
          /\ Lacks(outbox'[c], Answers) <=> Lacks(outbox[c], Answers)
      BY <1>3, <3>1, TailKeeps DEF Exchange
    <3> QED BY <1>2, <2>1, <2>2, <3>2 DEF Exchange, Quiet
  <2>3. CASE d # c
    <3>1. outbox'[d] = outbox[d]
      BY <1>5, <2>3 DEF HearOfRun, Types, ChannelTypes
    <3> QED BY <1>2, <2>1, <3>1, ExchangeFrame
  <2> QED BY <2>2, <2>3
<1>6. CASE ActivateBegins(c)
  BY <1>2, <1>6, HappensGrows, ExchangeFrame DEF ActivateBegins, Event
<1>7. CASE PrepareFailed(c) \/ Prepared(c) \/ CommitFailed(c) \/ Committed(c)
           \/ Stopped(c) \/ StopFailed(c) \/ Released(c)
  <2>1. \E stage, x : x \in Answers /\ Answer(c, stage, x)
    BY <1>7 DEF PrepareFailed, Prepared, CommitFailed, Committed, Stopped, StopFailed,
                Released, Answers
  <2>2. /\ attempt.context = c /\ Lacks(inbox[c], LeaseCall) /\ ~waiter[c]
        /\ Lacks(outbox'[c], Answers) /\ AtMostOne(outbox'[c], Answers)
        /\ \A e \in Contexts \ {c} : outbox'[e] = outbox[e] /\ Quiet(e)
    BY <1>3, <2>1, GetsAnswer
  <2>3. Grows /\ used' = used
    BY <1>7, UnchangedGrows DEF PrepareFailed, Prepared, CommitFailed, Committed, Stopped,
                                StopFailed, Released
  <2>4. \/ inbox' = inbox
        \/ \E x \in LeaseCall : /\ Sends(c, x) /\ attempt'.stage = x
                                /\ attempt'.context = attempt.context
    <3>1. CASE \E n \in Nat : ReleaseFrom(c, n)
      BY <3>1, ReleaseType DEF ReleaseFrom, LeaseCall
    <3>2. CASE \E x \in LeaseCall : Stage(x) /\ Sends(c, x)
      BY <3>2, StageType
    <3>3. attempt.left > 0 => attempt.left - 1 \in Nat
      BY DEF Types, MainTypes
    <3> QED BY <1>7, <3>1, <3>2, <3>3
            DEF PrepareFailed, Prepared, CommitFailed, Committed, Stopped, StopFailed,
                Released, LeaseCall
  <2>5. CASE d = c
    <3>1. CASE inbox' = inbox
      <4>1. Lacks(inbox[c], LeaseCall \ {attempt'.stage}) /\ AtMostOne(inbox[c], LeaseCall)
        BY <1>3, <2>2, LacksLess DEF Exchange
      <4> QED BY <1>2, <1>3, <2>2, <2>3, <2>5, <3>1, <4>1 DEF Exchange, Quiet
    <3>2. ASSUME NEW x \in LeaseCall, Sends(c, x), attempt'.stage = x,
                 attempt'.context = attempt.context
          PROVE  Exchange(d)'
      <4>1. /\ AtMostOne(inbox'[c], LeaseCall)
            /\ Lacks(inbox'[c], LeaseCall \ {x})
        BY <2>2, <3>2, SendsCall
      <4> QED BY <1>2, <1>3, <2>2, <2>3, <2>5, <3>2, <4>1 DEF Exchange, Quiet
    <3> QED BY <2>4, <3>1, <3>2
  <2>6. CASE d # c
    <3>1. inbox'[d] = inbox[d] /\ outbox'[d] = outbox[d] /\ Quiet(d)
      BY <2>2, <2>4, <2>6 DEF Sends, Types, ChannelTypes
    <3> QED BY <1>2, <2>3, <3>1, ExchangeFrame
  <2> QED BY <2>5, <2>6
<1> QED BY <1>4, <1>5, <1>6, <1>7 DEF Main

LEMMA NoAttemptQuiet ==
  ASSUME Gate, attempt = NoAttempt, NEW d \in Contexts, Exchange(d) PROVE Quiet(d)
BY QuietElsewhere DEF NoAttempt

LEMMA ExchangeKeptBySweep ==
  ASSUME Types, Types', Gate, ActivateEnds \/ SweepBegins \/ TryNext, NEW d \in Contexts,
         Exchange(d)
  PROVE  Exchange(d)'
<1>1. UNCHANGED <<childVars, used, outbox>> /\ Grows
  BY MainLeavesChild, UnchangedGrows DEF ActivateEnds, SweepBegins, TryNext
<1>2. waiter'[d] = waiter[d] /\ command'[d] = command[d] /\ lease'[d] = lease[d]
  BY <1>1 DEF childVars
<1>3. CASE ActivateEnds \/ SweepBegins
  BY <1>1, <1>2, <1>3, ExchangeFrame DEF ActivateEnds, SweepBegins
<1>4. CASE TryNext
  <2>1. Quiet(d)
    BY <1>4, NoAttemptQuiet DEF TryNext
  <2>2. CASE inbox'[d] = inbox[d]
    BY <1>1, <1>2, <2>1, <2>2, ExchangeFrame
  <2>3. CASE attempt'.context = d /\ attempt'.stage = "prepare" /\ Sends(d, "prepare")
    <3>1. /\ AtMostOne(inbox'[d], LeaseCall)
          /\ Lacks(inbox'[d], LeaseCall \ {"prepare"})
      BY <2>1, <2>3, SendsCall DEF Quiet, LeaseCall
    <3> QED BY <1>1, <1>2, <2>1, <2>3, <3>1 DEF Exchange, Quiet
  <2>4. \/ UNCHANGED inbox
        \/ \E x : /\ attempt'.context = x /\ attempt'.stage = "prepare"
                  /\ Sends(x, "prepare")
    BY <1>4 DEF TryNext
  <2>5. \/ inbox'[d] = inbox[d]
        \/ attempt'.context = d /\ attempt'.stage = "prepare" /\ Sends(d, "prepare")
    BY <2>4 DEF Sends, Types, ChannelTypes
  <2> QED BY <2>2, <2>3, <2>5
<1> QED BY <1>3, <1>4

\* The steps of a Runtime.
LEMMA ExchangeKeptByTakes ==
  ASSUME Types, NEW c \in Contexts, Exchange(c),
         TakePrepare(c) \/ TakeCommit(c) \/ TakeRelease(c) \/ TakeStop(c)
  PROVE  Exchange(c)'
<1>1. /\ attempt.context = c /\ ~waiter[c] /\ Lacks(outbox[c], Answers)
      /\ Lacks(inbox'[c], LeaseCall) /\ AtMostOne(inbox'[c], LeaseCall)
      /\ attempt' = attempt
  BY TakesCall DEF TakePrepare, TakeCommit, TakeRelease, TakeStop, LeaseCall, mainVars
<1>2. lease[c].phase # "preparing"
  BY <1>1 DEF Exchange
<1>3. Lacks(inbox'[c], LeaseCall \ {attempt'.stage})
  BY <1>1, LacksLess
<1>4. used'["silence"] = used["silence"]
  BY DEF TakePrepare, TakeCommit, TakeRelease, TakeStop, Happens, Types, ChannelTypes, Event
\* The call is refused, or there is nothing left to refuse it.
<1>5. ASSUME ~waiter'[c], AtMostOne(outbox'[c], Answers), lease'[c].phase # "preparing",
             command'[c] = command[c] \/ command'[c] = NoCommand
      PROVE  Exchange(c)'
  BY <1>1, <1>3, <1>4, <1>5 DEF Exchange, Quiet, NoCommand
\* The Extension is asked.
<1>6. ASSUME NEW stage, NEW native, Asks(c, stage, attempt.id, native),
             lease'[c].id = attempt.id,
             \/ attempt.stage = "prepare" /\ stage \in Preparing /\ lease'[c].phase = "preparing"
             \/ /\ attempt.stage \in {"commit", "release"} /\ stage = attempt.stage
                /\ lease'[c].phase \in {"prepared", "committed"}
      PROVE  Exchange(c)'
  <2>1. /\ command'[c].stage = stage /\ command'[c].id = attempt.id /\ ~command'[c].slow
        /\ waiter'[c] /\ outbox' = outbox
    BY <1>6 DEF Asks, Types, ChildTypes
  <2> QED BY <1>1, <1>3, <1>6, <2>1 DEF Exchange, Quiet
<1>7. ASSUME Fails(c), UNCHANGED lease PROVE Exchange(c)'
  BY <1>1, <1>2, <1>5, <1>7, SaysAnswer DEF Fails, Answers
<1>8. CASE TakePrepare(c)
  <2>1. attempt.stage = "prepare"
    BY <1>8, TakesCall DEF TakePrepare, LeaseCall
  <2>2. CASE Fails(c) /\ UNCHANGED lease
    BY <1>7, <2>2
  <2>3. CASE /\ lease' = [lease EXCEPT ![c] = [phase |-> "preparing", id |-> attempt.id]]
             /\ \E stage \in Preparing : \E native : Asks(c, stage, attempt.id, native)
    <3>1. lease'[c].id = attempt.id /\ lease'[c].phase = "preparing"
      BY <2>3 DEF Types, ChildTypes
    <3> QED BY <1>6, <2>1, <2>3, <3>1
  <2> QED BY <1>8, <2>2, <2>3 DEF TakePrepare, Preparing
<1>9. CASE TakeCommit(c)
  <2>1. attempt.stage = "commit" /\ UNCHANGED lease
    BY <1>9, TakesCall DEF TakeCommit, LeaseCall
  <2> QED BY <1>6, <1>7, <1>9, <2>1 DEF TakeCommit, Holds
<1>10. CASE TakeRelease(c)
  <2>1. attempt.stage = "release" /\ UNCHANGED lease
    BY <1>10, TakesCall DEF TakeRelease, LeaseCall
  <2> QED BY <1>6, <1>7, <1>10, <2>1 DEF TakeRelease, Holds
<1>11. CASE TakeStop(c)
  <2>1. AtMostOne(outbox'[c], Answers)
    BY <1>1, <1>11, SaysAnswer DEF TakeStop, Answers
  <2>2. CASE Gone({c})
    BY <1>5, <2>1, <2>2, GoneAt DEF NoLease
  <2>3. CASE UNCHANGED <<lease, waiter, command>>
    BY <1>1, <1>2, <1>5, <2>1, <2>3
  <2> QED BY <1>11, <2>2, <2>3 DEF TakeStop
<1> QED BY <1>8, <1>9, <1>10, <1>11

LEMMA ExchangeKeptByReplies ==
  ASSUME Types, NEW c \in Contexts, Exchange(c), NEW ok \in BOOLEAN, NEW silent \in BOOLEAN,
         NEW f, Replies(c, ok, silent, f)
  PROVE  Exchange(c)'
<1>0. Records(c)
  BY RecordsTyped
<1>1. inbox' = inbox /\ attempt' = attempt
  BY DEF Replies, mainVars
<1>2. /\ used["silence"] > 0 => used'["silence"] > 0
      /\ silent => used'["silence"] > 0
  BY DEF Replies, Happens, Types, ChannelTypes, Event
<1>3. CASE RetriesFirst(c, ok, silent, f)
  <2>1. /\ command'[c] = [command[c] EXCEPT !.stage = "second", !.slow = silent]
        /\ lease' = lease /\ waiter' = waiter /\ outbox' = outbox
        /\ command[c].stage = "first"
    BY <1>3 DEF RetriesFirst, Leaves, NobodyTold, Types, ChildTypes
  <2>2. command'[c].stage = "second" /\ command'[c].slow = silent
        /\ command'[c].id = command[c].id
    BY <1>0, <2>1 DEF Records
  <2> QED BY <1>1, <1>2, <2>1, <2>2 DEF Exchange, Quiet, Preparing
<1>4. CASE TurnsPartial(c, ok, f)
  <2>1. /\ command'[c] = [command[c] EXCEPT !.stage = "partial"]
        /\ lease' = lease /\ waiter' = waiter /\ outbox' = outbox
        /\ command[c].stage \in {"first", "second"}
    BY <1>4 DEF TurnsPartial, Leaves, NobodyTold, Types, ChildTypes
  <2>2. command'[c].stage = "partial" /\ command'[c].slow = command[c].slow
        /\ command'[c].id = command[c].id
    BY <1>0, <2>1 DEF Records
  <2> QED BY <1>1, <1>2, <2>1, <2>2 DEF Exchange, Quiet, Preparing
<1>5. ASSUME NEW says, NEW phase, Over(c, says, phase),
             waiter[c] => phase \in {"none", "prepared", "committed"}
      PROVE  Exchange(c)'
  <2>1. command'[c] = NoCommand /\ ~waiter'[c]
    BY <1>5 DEF Over, Types, ChildTypes
  <2>2. CASE waiter[c]
    <3>1. AtMostOne(outbox'[c], Answers)
      <4>1. \E x \in Answers : Says(c, x)
        BY <1>5, <2>2 DEF Over, Answers
      <4> QED BY <2>2, <4>1, SaysAnswer DEF Exchange
    <3>2. lease'[c].phase # "preparing"
      BY <1>0, <1>5, <2>2 DEF Over, Types, ChildTypes, NoLease, Records
    <3> QED BY <1>1, <1>2, <2>1, <2>2, <3>1, <3>2 DEF Exchange, Quiet, NoCommand
  <2>3. CASE ~waiter[c]
    <3>1. outbox' = outbox /\ lease' = lease
      BY <1>5, <2>3 DEF Over
    <3> QED BY <1>1, <1>2, <2>1, <2>3, <3>1 DEF Exchange, Quiet, NoCommand
  <2> QED BY <2>2, <2>3
<1>6. CASE \E says : \E phase \in {"none", "prepared", "committed"} : Over(c, says, phase)
  BY <1>5, <1>6
<1>7. CASE HasCommitted(c, ok, f) \/ HasReleased(c, ok, f)
  <2>1. waiter[c] => lease[c].phase \in {"prepared", "committed"}
    BY <1>7 DEF HasCommitted, HasReleased, Exchange, Preparing
  <2>2. \E says : \E phase \in {"none", "committed", lease[c].phase} : Over(c, says, phase)
    BY <1>7 DEF HasCommitted, HasReleased
  <2> QED BY <1>5, <2>1, <2>2
<1> QED BY <1>3, <1>4, <1>6, <1>7
        DEF Replies, Outcome, HasPrepared, HasGivenUp, HasRolledBack, HasReleasedPrevious

LEMMA ExchangeKeptByChild ==
  ASSUME Types, Types', NEW c \in Contexts, Exchange(c), Child(c) PROVE Exchange(c)'
<1>1. CASE TakePrepare(c) \/ TakeCommit(c) \/ TakeRelease(c) \/ TakeStop(c)
  BY <1>1, ExchangeKeptByTakes
<1>2. CASE SubagentsReply(c) \/ SubagentsSilent(c)
  BY <1>2, SubagentsIs, ExchangeKeptByReplies DEF Types
<1>3. CASE TakePrompt(c)
  <2>1. inbox[c] \in Seq(Call) /\ inbox[c] # <<>> /\ Head(inbox[c]) = "prompt"
        /\ inbox'[c] = Tail(inbox[c])
    BY <1>3 DEF TakePrompt, Takes, Types, ChannelTypes
  <2>2. /\ AtMostOne(inbox'[c], LeaseCall)
        /\ Lacks(inbox'[c], LeaseCall) <=> Lacks(inbox[c], LeaseCall)
        /\ Lacks(inbox'[c], LeaseCall \ {attempt.stage})
    BY <2>1, TailKeeps DEF Exchange, LeaseCall
  <2>3. /\ AtMostOne(outbox'[c], Answers)
        /\ Lacks(outbox'[c], Answers) <=> Lacks(outbox[c], Answers)
    BY <1>3, SaysEvent DEF TakePrompt, Told, Answers, Exchange
  <2>4. UNCHANGED <<attempt, waiter, command, lease, used>>
    BY <1>3 DEF TakePrompt, mainVars
  <2> QED BY <2>2, <2>3, <2>4 DEF Exchange, Quiet
<1>4. CASE WaiterTimesOut(c)
  <2>1. /\ waiter[c] /\ ~waiter'[c] /\ lease'[c] = NoLease /\ Says(c, "no")
        /\ UNCHANGED <<attempt, inbox, command, used>>
    BY <1>4 DEF WaiterTimesOut, GivenUp, Types, ChildTypes, mainVars
  <2>2. AtMostOne(outbox'[c], Answers)
    BY <2>1, SaysAnswer DEF Exchange, Answers
  <2> QED BY <2>1, <2>2 DEF Exchange, Quiet, NoLease
<1>5. CASE RunSettles(c) \/ \E p \in Provider : OperationBegins(c, p) \/ OperationEnds(c, p)
  <2>1. UNCHANGED <<attempt, inbox, waiter, command, lease>>
    BY <1>5 DEF RunSettles, OperationBegins, OperationEnds, mainVars
  <2>2. used'["silence"] = used["silence"]
    BY <1>5 DEF RunSettles, OperationBegins, OperationEnds, Happens, Types, ChannelTypes, Event
  <2>3. outbox' = outbox \/ Says(c, "began") \/ Says(c, "settled")
    BY <1>5 DEF RunSettles, OperationBegins, OperationEnds
  <2>4. /\ AtMostOne(outbox'[c], Answers)
        /\ Lacks(outbox'[c], Answers) <=> Lacks(outbox[c], Answers)
    BY <2>3, SaysEvent DEF Told, Answers, Exchange
  <2> QED BY <2>1, <2>2, <2>4 DEF Exchange, Quiet
<1> QED BY <1>1, <1>2, <1>3, <1>4, <1>5 DEF Child

LEMMA ExchangeKept ==
  ASSUME Types, Gate, \A e \in Contexts : Exchange(e), [Next]_vars, NEW d \in Contexts
  PROVE  Exchange(d)'
<1>0. Types'
  BY TypesKept
<1>1. ASSUME NEW c \in Contexts, Main(c) PROVE Exchange(d)'
  BY <1>0, <1>1, ExchangeKeptByMain
<1>2. CASE ActivateEnds \/ SweepBegins \/ TryNext
  BY <1>0, <1>2, ExchangeKeptBySweep
<1>3. CASE Crash
  <2>1. /\ inbox'[d] = <<>> /\ outbox'[d] = <<>> /\ lease'[d] = NoLease /\ ~waiter'[d]
        /\ command'[d] = NoCommand
    BY <1>3, GoneAt DEF Crash
  <2> QED BY <2>1, EmptyLacks DEF Exchange, Quiet, NoLease, NoCommand
<1>4. ASSUME NEW c \in Contexts, Child(c) PROVE Exchange(d)'
  <2>1. CASE c = d
    BY <1>0, <1>4, <2>1, ExchangeKeptByChild
  <2>2. CASE c # d
    <3>1. Same(d) /\ Grows /\ UNCHANGED attempt
      BY <1>4, <2>2, ChildElsewhere DEF mainVars
    <3> QED BY <1>0, <3>1, ExchangeFrame DEF Same, SameChild
  <2> QED BY <2>1, <2>2
<1>5. CASE UNCHANGED vars
  <2>1. Grows
    BY <1>5, UnchangedGrows DEF vars
  <2> QED BY <1>0, <1>5, <2>1, ExchangeFrame DEF vars, mainVars, childVars
<1> QED BY <1>1, <1>2, <1>3, <1>4, <1>5, NextIs

-----------------------------------------------------------------------------
(* Who has ended does nothing more                                         *)

Ended(c) ==
  /\ status[c] \in {"gone", "crashed"} => ~alive[c]
  /\ attempt.stage = "stop" /\ ~Lacks(outbox[c], Answers) => ~alive[c]

\* The steps by which an attempt goes on.
AnswerStep(c) ==
  \/ PrepareFailed(c) \/ Prepared(c) \/ CommitFailed(c) \/ Committed(c)
  \/ Stopped(c) \/ StopFailed(c) \/ Released(c)

LEMMA MainIs ==
  ASSUME NEW c, Main(c)
  PROVE  Prompt(c) \/ HearOfRun(c) \/ ActivateBegins(c) \/ AnswerStep(c)
BY DEF Main, AnswerStep

LEMMA AnswerStepIs ==
  ASSUME Types, \A e \in Contexts : Exchange(e), NEW c \in Contexts, AnswerStep(c)
  PROVE  /\ \E stage : \E x \in Answers : Answer(c, stage, x)
         /\ attempt.context = c /\ Lacks(inbox[c], LeaseCall) /\ ~waiter[c]
         /\ ~Lacks(outbox[c], Answers)
         /\ \A d \in Contexts : Lacks(outbox'[d], Answers)
         /\ \A d \in Contexts \ {c} : outbox'[d] = outbox[d] /\ Quiet(d)
         /\ UNCHANGED childVars /\ UNCHANGED used
         /\ \A d \in Contexts \ {c} : status'[d] = status[d]
<1>1. \E stage : \E x \in Answers : Answer(c, stage, x)
  BY DEF AnswerStep, PrepareFailed, Prepared, CommitFailed, Committed, Stopped, StopFailed,
         Released, Answers
<1>2. /\ attempt.context = c /\ Lacks(inbox[c], LeaseCall) /\ ~waiter[c]
      /\ ~Lacks(outbox[c], Answers) /\ Lacks(outbox'[c], Answers)
      /\ \A d \in Contexts \ {c} : outbox'[d] = outbox[d] /\ Quiet(d)
  BY <1>1, GetsAnswer
<1>3. UNCHANGED childVars /\ UNCHANGED used
  BY DEF AnswerStep, PrepareFailed, Prepared, CommitFailed, Committed, Stopped, StopFailed,
         Released
<1>4. \A d \in Contexts \ {c} : status'[d] = status[d]
  BY DEF AnswerStep, PrepareFailed, Prepared, CommitFailed, Committed, Stopped, StopFailed,
         Released, Types, MainTypes
<1> QED BY <1>1, <1>2, <1>3, <1>4 DEF Quiet

\* What Main hears of a run is no answer.
LEMMA HearsEvent ==
  ASSUME Types, NEW c \in Contexts, HearOfRun(c), NEW d \in Contexts, NEW S,
         Head(outbox[c]) \notin S
  PROVE  Lacks(outbox'[d], S) <=> Lacks(outbox[d], S)
<1>1. CASE d = c
  <2>1. outbox[c] \in Seq(Told) /\ outbox[c] # <<>> /\ outbox'[c] = Tail(outbox[c])
    BY DEF HearOfRun, Types, ChannelTypes
  <2> QED BY <1>1, <2>1, TailKeeps
<1>2. CASE d # c
  BY <1>2 DEF HearOfRun, Types, ChannelTypes
<1> QED BY <1>1, <1>2

\* What a step of a Runtime adds to what it told Main.
LEMMA ChildSays ==
  ASSUME Types, NEW c \in Contexts, Child(c)
  PROVE  UNCHANGED outbox \/ \E x \in Told : Says(c, x)
<1> USE DEF Told, Answers
<1>1. CASE TakePrompt(c) \/ RunSettles(c) \/ WaiterTimesOut(c) \/ TakeStop(c)
           \/ TakePrepare(c) \/ TakeCommit(c) \/ TakeRelease(c)
  BY <1>1 DEF TakePrompt, RunSettles, WaiterTimesOut, TakeStop, TakePrepare, TakeCommit,
              TakeRelease, Fails, Asks
<1>2. CASE \E p \in Provider : OperationBegins(c, p) \/ OperationEnds(c, p)
  BY <1>2 DEF OperationBegins, OperationEnds
<1>3. CASE SubagentsReply(c) \/ SubagentsSilent(c)
  <2>1. NobodyTold \/ \E says, phase : Over(c, says, phase)
    BY <1>3, SubagentsIs
       DEF Types, Replies, Outcome, RetriesFirst, TurnsPartial, HasPrepared, HasGivenUp,
           HasRolledBack, HasReleasedPrevious, HasCommitted, HasReleased
  <2> QED BY <2>1 DEF NobodyTold, Over
<1> QED BY <1>1, <1>2, <1>3 DEF Child

\* An answer is the end of a command that is waited for, or of a call.
LEMMA ChildAnswers ==
  ASSUME Types, NEW c \in Contexts, Exchange(c), Child(c),
         NEW x \in Answers, Says(c, x)
  PROVE  TakeStop(c) \/ attempt.stage \in {"prepare", "commit", "release"}
<1>1. CASE TakePrepare(c) \/ TakeCommit(c) \/ TakeRelease(c)
  BY <1>1, TakesCall DEF TakePrepare, TakeCommit, TakeRelease, LeaseCall
<1>2. CASE waiter[c]
  BY <1>2 DEF Exchange
<1>3. CASE ~waiter[c] /\ (SubagentsReply(c) \/ SubagentsSilent(c))
  <2>1. outbox' = outbox
    <3>1. NobodyTold \/ \E says, phase : Over(c, says, phase)
      BY <1>3, SubagentsIs
         DEF Types, Replies, Outcome, RetriesFirst, TurnsPartial, HasPrepared, HasGivenUp,
             HasRolledBack, HasReleasedPrevious, HasCommitted, HasReleased
    <3> QED BY <1>3, <3>1 DEF NobodyTold, Over
  <2>2. outbox[c] \in Seq(Told) /\ x \in Told /\ outbox'[c] = Append(outbox[c], x)
    BY DEF Says, Types, ChannelTypes, Told
  <2>3. Len(outbox'[c]) = Len(outbox[c]) + 1 /\ Len(outbox[c]) \in Nat
    BY <2>2, AppendProperties, LenProperties
  <2> QED BY <2>1, <2>3
<1>4. CASE TakePrompt(c) \/ RunSettles(c)
           \/ \E p \in Provider : OperationBegins(c, p) \/ OperationEnds(c, p)
  <2>1. outbox' = outbox \/ \E y \in Told \ Answers : Says(c, y)
    BY <1>4 DEF TakePrompt, RunSettles, OperationBegins, OperationEnds, Told, Answers
  <2>2. outbox[c] \in Seq(Told) /\ x \in Told /\ outbox'[c] = Append(outbox[c], x)
    BY DEF Says, Types, ChannelTypes, Told
  <2>3. /\ Len(outbox'[c]) = Len(outbox[c]) + 1 /\ Len(outbox[c]) \in Nat
        /\ outbox'[c][Len(outbox[c]) + 1] = x
    BY <2>2, AppendProperties, LenProperties
  <2>4. ASSUME NEW y \in Told \ Answers, Says(c, y) PROVE FALSE
    <3>1. outbox'[c] = Append(outbox[c], y)
      BY <2>4 DEF Says, Types, ChannelTypes
    <3>2. outbox'[c][Len(outbox[c]) + 1] = y
      BY <2>2, <3>1, AppendProperties
    <3> QED BY <2>3, <2>4, <3>2
  <2> QED BY <2>1, <2>3, <2>4
<1>5. CASE WaiterTimesOut(c)
  BY <1>2, <1>5 DEF WaiterTimesOut
<1> QED BY <1>1, <1>2, <1>3, <1>4, <1>5 DEF Child

LEMMA EndedKept ==
  ASSUME Types, Types', \A e \in Contexts : Exchange(e), [Next]_vars, NEW d \in Contexts,
         \A e \in Contexts : Ended(e)
  PROVE  Ended(d)'
<1>1. ASSUME NEW c \in Contexts, Main(c) PROVE Ended(d)'
  <2>1. alive' = alive
    BY <1>1, MainLeavesChild DEF childVars
  <2>2. CASE Prompt(c) \/ ActivateBegins(c)
    BY <2>1, <2>2 DEF Prompt, ActivateBegins, Ended, Types, MainTypes
  <2>3. CASE HearOfRun(c)
    <3>1. Lacks(outbox'[d], Answers) <=> Lacks(outbox[d], Answers)
      BY <2>3, HearsEvent DEF HearOfRun, Answers
    <3>2. status'[d] \in {"gone", "crashed"} => status'[d] = status[d]
      BY <2>3 DEF HearOfRun, Types, MainTypes
    <3> QED BY <2>1, <2>3, <3>1, <3>2 DEF HearOfRun, Ended
  <2>4. CASE AnswerStep(c)
    <3>1. /\ Lacks(outbox'[d], Answers) /\ ~Lacks(outbox[c], Answers)
          /\ d # c => status'[d] = status[d]
      BY <2>4, AnswerStepIs
    <3>2. status'[c] \in {"gone", "crashed"} =>
            status'[c] = status[c] \/ attempt.stage = "stop"
      BY <2>4 DEF AnswerStep, PrepareFailed, Prepared, CommitFailed, Committed, Stopped,
                  StopFailed, Released, Types, MainTypes, Answer
    <3> QED BY <2>1, <3>1, <3>2 DEF Ended
  <2> QED BY <1>1, <2>2, <2>3, <2>4, MainIs
<1>2. CASE ActivateEnds \/ SweepBegins \/ TryNext
  <2>1. alive' = alive /\ outbox' = outbox /\ status' = status
    BY <1>2, MainLeavesChild DEF childVars, ActivateEnds, SweepBegins, TryNext
  <2>2. attempt' = attempt \/ attempt'.stage = "prepare"
    BY <1>2 DEF ActivateEnds, SweepBegins, TryNext
  <2> QED BY <2>1, <2>2 DEF Ended
<1>3. CASE Crash
  BY <1>3, GoneAt DEF Crash, Ended
<1>4. ASSUME NEW c \in Contexts, Child(c), c # d PROVE Ended(d)'
  BY <1>4, ChildElsewhere DEF Same, SameChild, Ended, mainVars
<1>5. CASE Child(d)
  <2>1. UNCHANGED <<status, attempt>>
    BY <1>5, SubagentsIs
       DEF Child, TakePrompt, TakePrepare, TakeCommit, TakeRelease, TakeStop, Types, Replies,
           WaiterTimesOut, RunSettles, OperationBegins, OperationEnds, mainVars
  <2>2. alive'[d] => alive[d] /\ ~TakeStop(d)
    <3>1. CASE TakeStop(d)
      <4>1. CASE Gone({d})
        BY <4>1, GoneAt
      <4>2. CASE alive' = [alive EXCEPT ![d] = FALSE]
        BY <4>2 DEF Types, ChildTypes
      <4> QED BY <3>1, <4>1, <4>2 DEF TakeStop
    <3>2. CASE alive' = alive /\ ~TakeStop(d)
      BY <3>2
    <3>3. alive' = alive \/ TakeStop(d)
      BY <1>5, SubagentsIs
         DEF Child, TakePrompt, TakePrepare, TakeCommit, TakeRelease, Types, Replies,
             WaiterTimesOut, RunSettles, OperationBegins, OperationEnds
    <3> QED BY <3>1, <3>2, <3>3
  <2>3. CASE UNCHANGED outbox
    BY <2>1, <2>2, <2>3 DEF Ended
  <2>4. ASSUME NEW x \in Told \ Answers, Says(d, x) PROVE Ended(d)'
    BY <2>1, <2>2, <2>4, SaysEvent DEF Ended
  <2>5. ASSUME NEW x \in Answers, Says(d, x) PROVE Ended(d)'
    BY <1>5, <2>1, <2>2, <2>5, ChildAnswers DEF Ended
  <2> QED BY <1>5, <2>3, <2>4, <2>5, ChildSays
<1>6. CASE UNCHANGED vars
  BY <1>6 DEF vars, mainVars, childVars, Ended
<1> QED BY <1>1, <1>2, <1>3, <1>4, <1>5, <1>6, NextIs

-----------------------------------------------------------------------------
(* Leases                                                                  *)

\* As long as pi-subagents was never silent, a Runtime has a lease only for
\* the attempt at work on it, and the Extension and the provider have it too.
\* An attempt that has heard of its release is rid of the lease.
Leased(c) ==
  /\ Busy(c) => waiter[c]
  /\ lease[c].phase # "none" =>
       /\ attempt.context = c /\ lease[c].id = attempt.id
       /\ attempt.stage = "prepare" => waiter[c] \/ ~Lacks(outbox[c], {"ok"})
  /\ lease[c].phase \in {"prepared", "committed"} =>
       /\ active[c].phase # "none" /\ active[c].id = lease[c].id
       /\ fence[c][Subagents] = lease[c].id
LeaseEnds(c) ==
  /\ ~Lacks(outbox[c], {"ok"}) => lease[c].phase = "none"
  /\ used["silence"] = 0 /\ ~Lacks(outbox[c], Answers) => lease[c].phase = "none"
Leases(c) ==
  /\ used["silence"] = 0 /\ alive[c] => Leased(c)
  /\ attempt.stage = "release" /\ alive[c] => LeaseEnds(c)

LEMMA LeasesSuffice ==
  ASSUME Types, \A c \in Contexts : Exchange(c) /\ Leases(c) PROVE NoLeaseLeftBehind
<1> SUFFICES ASSUME NEW c \in Contexts, Refuses(c), alive[c], attempt.context # c
             PROVE  lease[c].phase # "preparing" /\ used["silence"] > 0
  BY DEF NoLeaseLeftBehind
<1>1. lease[c].phase # "preparing"
  BY QuietElsewhere DEF Exchange, Quiet
<1>2. used["silence"] # 0
  BY DEF Leases, Leased, Refuses
<1>3. used["silence"] \in Nat
  BY DEF Types, ChannelTypes, Event
<1> QED BY <1>1, <1>2, <1>3

LEMMA SilenceGrows ==
  ASSUME Types, Grows, used'["silence"] = 0 PROVE used["silence"] = 0
BY DEF Types, ChannelTypes, Grows, Event

LEMMA LeasesFrame ==
  ASSUME Types, NEW d \in Contexts, Leases(d), SameChild(d), Grows, UNCHANGED attempt,
         Lacks(outbox'[d], Answers) <=> Lacks(outbox[d], Answers),
         Lacks(outbox'[d], {"ok"}) <=> Lacks(outbox[d], {"ok"})
  PROVE  Leases(d)'
BY SilenceGrows DEF Leases, Leased, LeaseEnds, SameChild, Busy

LEMMA QuietLacks ==
  ASSUME NEW s, Lacks(s, Answers) PROVE Lacks(s, {"ok"}) /\ Lacks(s, {"no"})
BY DEF Lacks, Answers

LEMMA SameChildIs == ASSUME UNCHANGED childVars, NEW d PROVE SameChild(d)
BY DEF childVars, SameChild

LEMMA RefusalOnly ==
  ASSUME Types, NEW c \in Contexts, Exchange(c), NEW stage, Answer(c, stage, "no")
  PROVE  Lacks(outbox[c], {"ok"})
<1>1. outbox[c] \in Seq(Told) /\ outbox[c] # <<>> /\ Head(outbox[c]) = "no"
  BY DEF Answer, Types, ChannelTypes
<1>2. Lacks(Tail(outbox[c]), Answers)
  BY <1>1, TailKeeps DEF Exchange, Answers
<1>3. Lacks(Tail(outbox[c]), {"ok"})
  BY <1>2, QuietLacks
<1> QED BY <1>1, <1>3, TailKeeps

LEMMA LeasesKeptByAnswers ==
  ASSUME Types, \A e \in Contexts : Exchange(e) /\ Ended(e), NEW c \in Contexts,
         AnswerStep(c), NEW d \in Contexts, Leases(d)
  PROVE  Leases(d)'
<1>1. /\ attempt.context = c /\ ~waiter[c] /\ ~Lacks(outbox[c], Answers)
      /\ Lacks(outbox'[d], Answers) /\ UNCHANGED childVars /\ UNCHANGED used
      /\ d # c => outbox'[d] = outbox[d] /\ Quiet(d)
  BY AnswerStepIs
<1>2. SameChild(d)
  BY <1>1, SameChildIs
<1>3. Lacks(outbox'[d], {"ok"})
  BY <1>1, QuietLacks
<1>4. LeaseEnds(d)'
  BY <1>1, <1>3 DEF LeaseEnds
<1>5. CASE d # c
  BY <1>1, <1>2, <1>4, <1>5 DEF Leases, Leased, SameChild, Busy
<1>6. ASSUME d = c, used["silence"] = 0, alive[d] PROVE Leased(d)'
  <2>1. Leased(d) /\ lease[d].phase # "preparing"
    BY <1>1, <1>6 DEF Leases, Exchange
  <2>2. CASE lease[d].phase = "none"
    BY <1>2, <2>1, <2>2 DEF Leased, SameChild, Busy
  <2>3. CASE lease[d].phase # "none"
    <3>1. /\ ~PrepareFailed(c) /\ ~Stopped(c) /\ ~StopFailed(c) /\ ~Released(c)
      <4>1. ~PrepareFailed(c)
        BY <1>1, <1>6, <2>1, <2>3, RefusalOnly DEF PrepareFailed, Answer, Leased
      <4>2. ~Stopped(c) /\ ~StopFailed(c)
        BY <1>1, <1>6 DEF Stopped, StopFailed, Answer, Ended
      <4>3. ~Released(c)
        BY <1>1, <1>6, <2>3 DEF Released, Answer, Leases, LeaseEnds
      <4> QED BY <4>1, <4>2, <4>3
    <3>2. /\ attempt'.context = attempt.context /\ attempt'.id = attempt.id
          /\ attempt'.stage # "prepare"
      BY <3>1, StageType, ReleaseType
         DEF AnswerStep, Prepared, CommitFailed, Committed, LeaseCall
    <3> QED BY <1>2, <2>1, <3>2 DEF Leased, SameChild, Busy
  <2> QED BY <2>2, <2>3
<1> QED BY <1>1, <1>2, <1>4, <1>5, <1>6 DEF Leases, SameChild

LEMMA LeasesKeptByMain ==
  ASSUME Types, Types', \A e \in Contexts : Exchange(e) /\ Ended(e), NEW c \in Contexts,
         Main(c), NEW d \in Contexts, Leases(d)
  PROVE  Leases(d)'
<1>1. SameChild(d)
  BY MainLeavesChild, SameChildIs
<1>2. CASE Prompt(c) \/ ActivateBegins(c)
  <2>1. Grows /\ UNCHANGED <<attempt, outbox>>
    BY <1>2, HappensGrows DEF Prompt, ActivateBegins, Event
  <2> QED BY <1>1, <2>1, LeasesFrame
<1>3. CASE HearOfRun(c)
  <2>1. Grows /\ UNCHANGED attempt
    BY <1>3, UnchangedGrows DEF HearOfRun
  <2>2. Head(outbox[c]) \notin Answers /\ Head(outbox[c]) \notin {"ok"}
    BY <1>3 DEF HearOfRun, Answers
  <2> QED BY <1>1, <1>3, <2>1, <2>2, HearsEvent, LeasesFrame
<1>4. CASE AnswerStep(c)
  BY <1>4, LeasesKeptByAnswers
<1> QED BY <1>2, <1>3, <1>4, MainIs

LEMMA LeasesKeptBySweep ==
  ASSUME Types, Types', Gate, ActivateEnds \/ SweepBegins \/ TryNext, NEW d \in Contexts,
         Exchange(d), Leases(d)
  PROVE  Leases(d)'
<1>1. SameChild(d) /\ Grows /\ UNCHANGED <<outbox, used>>
  BY MainLeavesChild, SameChildIs, UnchangedGrows DEF ActivateEnds, SweepBegins, TryNext
<1>2. CASE UNCHANGED attempt
  BY <1>1, <1>2, LeasesFrame
<1>3. CASE attempt = NoAttempt /\ attempt'.stage = "prepare"
  BY <1>1, <1>3 DEF Leases, Leased, NoAttempt, SameChild, Busy
<1> QED BY <1>2, <1>3 DEF ActivateEnds, SweepBegins, TryNext

\* The Extension's lease answers to the identity of the Runtime's.
LEMMA LeasedHolds ==
  ASSUME NEW c \in Contexts, Types, Leased(c), Exchange(c), ~waiter[c],
         lease[c].phase # "none"
  PROVE  Holds(c) /\ Matches(c) /\ ~Busy(c)
BY DEF Leased, Exchange, Holds, Matches, Types, ChildTypes

LEMMA LeasesKeptByTakes ==
  ASSUME Types, NEW c \in Contexts, Exchange(c), Leases(c),
         TakePrepare(c) \/ TakeCommit(c) \/ TakeRelease(c)
  PROVE  Leases(c)'
<1>1. /\ attempt.context = c /\ ~waiter[c] /\ Lacks(outbox[c], Answers)
      /\ UNCHANGED <<attempt, alive, active, used>>
  BY TakesCall DEF TakePrepare, TakeCommit, TakeRelease, LeaseCall, mainVars
<1>2. Lacks(outbox[c], {"ok"})
  BY <1>1, QuietLacks
<1>3. CASE TakePrepare(c)
  <2>1. attempt.stage = "prepare"
    BY <1>3, TakesCall DEF TakePrepare, LeaseCall
  <2>2. ASSUME used["silence"] = 0, alive[c] PROVE Leased(c)'
    <3>1. lease[c].phase = "none" /\ ~Busy(c)
      BY <1>1, <1>2, <2>1, <2>2 DEF Leases, Leased
    <3>2. CASE Fails(c) /\ UNCHANGED lease
      BY <1>3, <3>1, <3>2 DEF Leased, Fails, Busy
    <3>3. CASE /\ lease' = [lease EXCEPT ![c] = [phase |-> "preparing", id |-> attempt.id]]
               /\ \E stage, native : Asks(c, stage, attempt.id, native)
      <4>1. /\ lease'[c].phase = "preparing" /\ lease'[c].id = attempt.id
            /\ waiter'[c]
        BY <3>3 DEF Asks, Types, ChildTypes
      <4> QED BY <1>1, <4>1 DEF Leased
    <3> QED BY <1>3, <3>2, <3>3 DEF TakePrepare
  <2> QED BY <1>1, <2>1, <2>2 DEF Leases
<1>4. CASE TakeCommit(c)
  <2>1. attempt.stage = "commit" /\ UNCHANGED <<lease, fence>>
    BY <1>4, TakesCall DEF TakeCommit, LeaseCall
  <2>2. (\E stage, i, native : Asks(c, stage, i, native)) \/ UNCHANGED <<command, waiter>>
    BY <1>4 DEF TakeCommit, Fails
  <2>3. waiter'[c] \/ UNCHANGED <<command, waiter>>
    BY <2>2 DEF Asks, Types, ChildTypes
  <2> QED BY <1>1, <2>1, <2>3 DEF Leases, Leased, Busy
<1>5. CASE TakeRelease(c)
  <2>1. attempt.stage = "release" /\ UNCHANGED lease
    BY <1>5, TakesCall DEF TakeRelease, LeaseCall
  <2>2. CASE Fails(c) /\ UNCHANGED fence /\ ~(Holds(c) /\ ~Busy(c) /\ Matches(c))
    <3>1. used["silence"] = 0 /\ alive[c] => lease[c].phase = "none"
      BY <1>1, <2>2, LeasedHolds DEF Leases
    <3>2. Lacks(outbox'[c], {"ok"})
      <4>1. outbox[c] \in Seq(Told) /\ outbox'[c] = Append(outbox[c], "no") /\ "no" \in Told
        BY <2>2 DEF Fails, Says, Types, ChannelTypes, Told, Answers
      <4> QED BY <1>2, <4>1, AppendKeeps
    <3> QED BY <1>1, <2>1, <2>2, <3>1, <3>2 DEF Leases, Leased, LeaseEnds, Fails, Busy
  <2>3. CASE /\ Asks(c, "release", attempt.id, active[c].native)
             /\ IF active[c].native THEN NativeFence(c, NoId) ELSE UNCHANGED fence
    <3>1. waiter'[c] /\ UNCHANGED outbox
      BY <2>3 DEF Asks, Types, ChildTypes
    <3>2. fence'[c][Subagents] = fence[c][Subagents]
      BY <2>3, NativeFenceAt DEF AnyId
    <3> QED BY <1>1, <1>2, <2>1, <3>1, <3>2 DEF Leases, Leased, LeaseEnds
  <2> QED BY <1>5, <2>2, <2>3 DEF TakeRelease
<1> QED BY <1>3, <1>4, <1>5

\* An answer joins what was said before.
LEMMA SaysAlso ==
  ASSUME Types, NEW c \in Contexts, NEW x \in Told, Says(c, x), NEW S
  PROVE  Lacks(outbox'[c], S) <=> Lacks(outbox[c], S) /\ x \notin S
<1>1. outbox[c] \in Seq(Told) /\ outbox'[c] = Append(outbox[c], x)
  BY DEF Says, Types, ChannelTypes
<1> QED BY <1>1, AppendKeeps

LEMMA OverAt ==
  ASSUME Types, NEW c \in Contexts, NEW ok \in BOOLEAN, NEW phase, Over(c, ok, phase)
  PROVE  /\ command'[c] = NoCommand /\ ~waiter'[c]
         /\ ~waiter[c] => outbox' = outbox /\ lease' = lease
         /\ waiter[c] =>
              /\ ok => Says(c, "ok")
              /\ ~ok => Says(c, "no")
              /\ phase = "none" => lease'[c] = NoLease
              /\ phase # "none" => lease'[c].phase = phase /\ lease'[c].id = lease[c].id
BY DEF Over, Types, ChildTypes

LEMMA SubagentsAfterIs ==
  ASSUME NEW c
  PROVE  /\ command[c].stage \in {"first", "second", "commit"} =>
              SubagentsAfter(c) = command[c].id
         /\ command[c].stage \in {"partial", "previous", "release"} =>
              SubagentsAfter(c) = NoId
<1>1. CASE command[c].stage \in {"first", "second"}
  BY <1>1 DEF SubagentsAfter
<1>2. CASE command[c].stage = "commit"
  BY <1>2 DEF SubagentsAfter, Target
<1>3. CASE command[c].stage \in {"partial", "previous", "release"}
  BY <1>3 DEF SubagentsAfter
<1> QED BY <1>1, <1>2, <1>3

LEMMA LeasesKeptByReplies ==
  ASSUME Types, NEW c \in Contexts, Exchange(c), Leases(c), NEW ok \in BOOLEAN,
         NEW silent \in BOOLEAN, NEW f, Replies(c, ok, silent, f)
  PROVE  Leases(c)'
<1>0. Records(c) /\ Busy(c)
  BY RecordsTyped DEF Replies
<1>1. UNCHANGED <<attempt, alive, run>>
  BY DEF Replies, mainVars
<1>2. used'["silence"] = 0 => used["silence"] = 0 /\ ~silent
  BY DEF Replies, Happens, Types, ChannelTypes, Event
<1>3. CASE NobodyTold
  <2>1. command'[c].stage # "none" => waiter'[c] = waiter[c]
    BY <1>3 DEF NobodyTold
  <2>2. CASE attempt.stage = "prepare" /\ waiter[c]
    <3>1. lease[c].phase = "preparing" /\ Lacks(outbox[c], Answers)
      BY <2>2 DEF Exchange
    <3> QED BY <1>0, <1>1, <1>2, <1>3, <2>2, <3>1 DEF Leases, Leased, NobodyTold
  <2>3. CASE waiter[c] /\ attempt.stage # "prepare"
    <3>1. command[c].stage \in {"commit", "release"}
      BY <2>3 DEF Exchange
    <3>2. \E says, phase : Over(c, says, phase)
      BY <3>1 DEF Replies, Outcome, RetriesFirst, TurnsPartial, HasPrepared, HasGivenUp,
           HasRolledBack, HasReleasedPrevious, HasCommitted, HasReleased
    <3>3. ~waiter'[c]
      BY <3>2 DEF Over, Types, ChildTypes
    <3> QED BY <1>3, <2>3, <3>3 DEF NobodyTold
  <2>4. CASE ~waiter[c]
    BY <1>0, <1>1, <1>2, <1>3, <2>4 DEF Leases, Leased, LeaseEnds, NobodyTold
  <2> QED BY <2>2, <2>3, <2>4
<1>4. CASE ~waiter[c] /\ \E says \in BOOLEAN : \E phase : Over(c, says, phase)
  <2>1. outbox' = outbox /\ lease' = lease
    BY <1>4, OverAt
  <2> QED BY <1>0, <1>1, <1>2, <1>4, <2>1 DEF Leases, Leased, LeaseEnds
<1>5. CASE waiter[c] /\ HasPrepared(c, ok, f)
  <2>1. /\ attempt.context = c /\ attempt.stage = "prepare" /\ command[c].id = attempt.id
        /\ lease[c].id = attempt.id
    BY <1>5 DEF Exchange, Quiet, HasPrepared
  <2>2. /\ command'[c] = NoCommand /\ Says(c, "ok")
        /\ lease'[c].phase = "prepared" /\ lease'[c].id = lease[c].id
    <3>1. Over(c, TRUE, "prepared")
      BY <1>5 DEF HasPrepared
    <3>2. TRUE \in BOOLEAN /\ "prepared" # "none"
      OBVIOUS
    <3> QED BY <1>5, <3>1, <3>2, OverAt
  <2>3. ~Lacks(outbox'[c], {"ok"})
    BY <2>2, SaysAlso DEF Told, Answers
  <2>4. /\ active'[c] = [phase |-> "prepared", id |-> command[c].id, native |-> TRUE]
        /\ fence' = f /\ ok /\ command[c].stage \in {"first", "second"}
    BY <1>5 DEF HasPrepared, Leaves, Types, ChildTypes
  <2>5. fence'[c][Subagents] = command[c].id
    <3>1. f[c][Subagents] = SubagentsAfter(c)
      BY <2>4, RepliedFence
    <3>2. SubagentsAfter(c) = command[c].id
      BY <2>4, SubagentsAfterIs
    <3>3. fence'[c] = f[c]
      BY <2>4
    <3> QED BY <3>1, <3>2, <3>3
  <2> QED BY <1>1, <2>1, <2>2, <2>3, <2>4, <2>5 DEF Leases, Leased, Busy, NoCommand
<1>6. CASE waiter[c] /\ (\/ HasGivenUp(c, ok, f) \/ HasRolledBack(c, ok, f)
                         \/ HasReleasedPrevious(c, ok, f))
  <2>1. attempt.stage = "prepare"
    BY <1>6 DEF Exchange, HasGivenUp, HasRolledBack, HasReleasedPrevious
  <2>2. command'[c] = NoCommand /\ lease'[c] = NoLease
    BY <1>6, OverAt DEF HasGivenUp, HasRolledBack, HasReleasedPrevious
  <2> QED BY <1>1, <2>1, <2>2 DEF Leases, Leased, Busy, NoCommand, NoLease
<1>7. CASE waiter[c] /\ HasCommitted(c, ok, f)
  <2>1. /\ attempt.context = c /\ attempt.stage = "commit" /\ command[c].id = attempt.id
        /\ lease[c].id = attempt.id /\ lease[c].phase \in {"prepared", "committed"}
    BY <1>7 DEF Exchange, Quiet, HasCommitted, Preparing
  <2>2. /\ command'[c] = NoCommand /\ lease'[c].id = lease[c].id
        /\ lease'[c].phase \in {"prepared", "committed"}
    <3>1. \E both \in BOOLEAN : \E phase \in {"prepared", "committed"} : Over(c, both, phase)
      BY <1>0, <1>7, <2>1 DEF HasCommitted, Records
    <3> QED BY <1>7, <3>1, OverAt
  <2>3. /\ active'[c].id = active[c].id
        /\ active[c].phase # "none" => active'[c].phase # "none"
    BY <1>0, <1>7 DEF HasCommitted, Leaves, Types, ChildTypes, Records
  <2>4. fence'[c][Subagents] \in {fence[c][Subagents], command[c].id}
    BY <1>7, RepliedFence DEF HasCommitted, Leaves, SubagentsAfter, Target
  <2> QED BY <1>1, <1>2, <2>1, <2>2, <2>3, <2>4 DEF Leases, Leased, Busy, NoCommand
<1>8. CASE waiter[c] /\ HasReleased(c, ok, f)
  <2>1. /\ attempt.context = c /\ attempt.stage = "release" /\ command[c].id = attempt.id
        /\ lease[c].id = attempt.id /\ lease[c].phase \in {"prepared", "committed"}
        /\ Lacks(outbox[c], Answers)
    BY <1>8 DEF Exchange, Quiet, HasReleased, Preparing
  <2>2. CASE ok
    <3>1. command'[c] = NoCommand /\ lease'[c] = NoLease
      BY <1>8, <2>2, OverAt DEF HasReleased
    <3> QED BY <1>1, <3>1 DEF Leases, Leased, LeaseEnds, Busy, NoCommand, NoLease
  <2>3. CASE ~ok
    <3>1. used'["silence"] = 0 /\ alive[c] => FALSE
      BY <1>2, <1>8, <2>1, <2>3
         DEF Replies, SubagentsAccept, Target, HasReleased, Leases, Leased
    <3>2. Says(c, "no")
      BY <1>8, <2>3, OverAt DEF HasReleased
    <3>3. Lacks(outbox'[c], {"ok"})
      BY <2>1, <3>2, QuietLacks, SaysAlso DEF Told, Answers
    <3> QED BY <1>1, <3>1, <3>3 DEF Leases, LeaseEnds
  <2> QED BY <2>2, <2>3
<1>9. HasCommitted(c, ok, f) => \E says \in BOOLEAN : \E phase : Over(c, says, phase)
  BY <1>0 DEF HasCommitted, Records
<1> QED BY <1>3, <1>4, <1>5, <1>6, <1>7, <1>8, <1>9
        DEF Replies, Outcome, RetriesFirst, TurnsPartial, HasPrepared, HasGivenUp,
            HasRolledBack, HasReleasedPrevious, HasReleased

LEMMA LeasesKeptByChild ==
  ASSUME Types, Types', NEW c \in Contexts, Exchange(c), Leases(c), Child(c)
  PROVE  Leases(c)'
<1>1. CASE TakePrepare(c) \/ TakeCommit(c) \/ TakeRelease(c)
  BY <1>1, LeasesKeptByTakes
<1>2. CASE SubagentsReply(c) \/ SubagentsSilent(c)
  BY <1>2, SubagentsIs, LeasesKeptByReplies DEF Types
<1>3. CASE TakeStop(c)
  <2>1. ~alive'[c]
    <3>1. CASE Gone({c})
      BY <3>1, GoneAt
    <3>2. CASE alive' = [alive EXCEPT ![c] = FALSE]
      BY <3>2 DEF Types, ChildTypes
    <3> QED BY <1>3, <3>1, <3>2 DEF TakeStop
  <2> QED BY <2>1 DEF Leases
<1>4. CASE WaiterTimesOut(c)
  <2>1. /\ waiter[c] /\ command[c].slow /\ lease'[c] = NoLease /\ UNCHANGED used
        /\ UNCHANGED attempt
    BY <1>4 DEF WaiterTimesOut, GivenUp, Types, ChildTypes, mainVars
  <2>2. used'["silence"] # 0
    BY <2>1 DEF Exchange
  <2> QED BY <2>1, <2>2 DEF Leases, LeaseEnds, NoLease
<1>5. CASE \/ TakePrompt(c) \/ RunSettles(c)
           \/ \E p \in Provider : OperationBegins(c, p) \/ OperationEnds(c, p)
  <2>1. /\ UNCHANGED <<attempt, alive, waiter, command, lease, active, fence>>
        /\ used'["silence"] = used["silence"]
    BY <1>5
       DEF TakePrompt, RunSettles, OperationBegins, OperationEnds, mainVars, Happens, Types,
           ChannelTypes, Event
  <2>2. outbox' = outbox \/ \E y \in Told \ Answers : Says(c, y)
    BY <1>5 DEF TakePrompt, RunSettles, OperationBegins, OperationEnds, Told, Answers
  <2>3. /\ Lacks(outbox'[c], Answers) <=> Lacks(outbox[c], Answers)
        /\ Lacks(outbox'[c], {"ok"}) <=> Lacks(outbox[c], {"ok"})
    BY <2>2, SaysEvent
  <2> QED BY <2>1, <2>3 DEF Leases, Leased, LeaseEnds, Busy
<1> QED BY <1>1, <1>2, <1>3, <1>4, <1>5 DEF Child

LEMMA LeasesKept ==
  ASSUME Types, Gate, \A e \in Contexts : Exchange(e) /\ Ended(e), [Next]_vars,
         NEW d \in Contexts, Leases(d)
  PROVE  Leases(d)'
<1>0. Types'
  BY TypesKept
<1>1. ASSUME NEW c \in Contexts, Main(c) PROVE Leases(d)'
  BY <1>0, <1>1, LeasesKeptByMain
<1>2. CASE ActivateEnds \/ SweepBegins \/ TryNext
  BY <1>0, <1>2, LeasesKeptBySweep
<1>3. CASE Crash
  <2>1. ~alive'[d]
    BY <1>3, GoneAt DEF Crash
  <2> QED BY <2>1 DEF Leases
<1>4. CASE Child(d)
  BY <1>0, <1>4, LeasesKeptByChild
<1>5. ASSUME NEW c \in Contexts, Child(c), c # d PROVE Leases(d)'
  <2>1. Same(d) /\ Grows /\ UNCHANGED attempt
    BY <1>5, ChildElsewhere DEF mainVars
  <2> QED BY <2>1, LeasesFrame DEF Same
<1>6. CASE UNCHANGED vars
  <2>1. SameChild(d) /\ Grows /\ UNCHANGED <<attempt, outbox>>
    BY <1>6, UnchangedGrows DEF vars, childVars, mainVars, SameChild
  <2> QED BY <2>1, LeasesFrame
<1> QED BY <1>1, <1>2, <1>3, <1>4, <1>5, <1>6, NextIs

-----------------------------------------------------------------------------
(* What hibernation stops                                                  *)

\* From the moment the Runtime says that it prepared, until it is stopped, all
\* its providers are fenced and the lease of the Extension says so.
NearStop(c) ==
  /\ attempt.context = c /\ alive[c]
  /\ \/ attempt.stage \in {"commit", "stop"}
     \/ attempt.stage = "prepare" /\ ~Lacks(outbox[c], {"ok"})
Fenced(c) ==
  /\ Busy(c) => waiter[c]
  /\ \A p \in Provider : fence[c][p] = attempt.id
  /\ active[c].native /\ active[c].phase # "none" /\ active[c].id = attempt.id
ToStop(c) == NearStop(c) => Fenced(c)

LEMMA ToStopFrame ==
  ASSUME NEW d, ToStop(d), SameChild(d), UNCHANGED attempt,
         Lacks(outbox'[d], {"ok"}) <=> Lacks(outbox[d], {"ok"})
  PROVE  ToStop(d)'
BY DEF ToStop, NearStop, Fenced, SameChild, Busy

\* How an answer changes the attempt.
LEMMA AnswerGoesOn ==
  ASSUME Types, NEW c \in Contexts, AnswerStep(c)
  PROVE  \/ attempt' = NoAttempt
         \/ /\ attempt'.context = attempt.context /\ attempt'.id = attempt.id
            /\ \/ attempt'.stage = "release"
               \/ attempt'.stage = "commit" /\ Answer(c, "prepare", "ok")
               \/ attempt'.stage = "stop" /\ Answer(c, "commit", "ok") /\ Eligible(c)
<1>1. CASE PrepareFailed(c) \/ Stopped(c) \/ StopFailed(c)
  BY <1>1 DEF PrepareFailed, Stopped, StopFailed
<1>2. CASE Prepared(c)
  BY <1>2, StageType, ReleaseType DEF Prepared, LeaseCall
<1>3. CASE CommitFailed(c)
  BY <1>3, ReleaseType DEF CommitFailed
<1>4. CASE Committed(c)
  BY <1>4, StageType, ReleaseType DEF Committed, LeaseCall
<1>5. CASE Released(c)
  <2>1. attempt.left > 0 => attempt.left - 1 \in Nat
    BY DEF Types, MainTypes
  <2> QED BY <1>5, <2>1, ReleaseType DEF Released
<1> QED BY <1>1, <1>2, <1>3, <1>4, <1>5 DEF AnswerStep

LEMMA HasAnswer ==
  ASSUME Types, NEW c \in Contexts, NEW stage, NEW x, Answer(c, stage, x)
  PROVE  /\ outbox[c] \in Seq(Told) /\ outbox[c] # <<>> /\ Head(outbox[c]) = x
         /\ outbox'[c] = Tail(outbox[c]) /\ attempt.stage = stage
         /\ ~Lacks(outbox[c], {x})
<1>1. /\ outbox[c] \in Seq(Told) /\ outbox[c] # <<>> /\ Head(outbox[c]) = x
      /\ outbox'[c] = Tail(outbox[c]) /\ attempt.stage = stage
  BY DEF Answer, Types, ChannelTypes
<1> QED BY <1>1, TailKeeps

LEMMA ToStopKeptByMain ==
  ASSUME Types, \A e \in Contexts : Exchange(e), NEW c \in Contexts, Main(c),
         NEW d \in Contexts, ToStop(d)
  PROVE  ToStop(d)'
<1>1. SameChild(d)
  BY MainLeavesChild, SameChildIs
<1>2. CASE Prompt(c) \/ ActivateBegins(c)
  BY <1>1, <1>2, ToStopFrame DEF Prompt, ActivateBegins
<1>3. CASE HearOfRun(c)
  <2>1. Head(outbox[c]) \notin {"ok"} /\ UNCHANGED attempt
    BY <1>3 DEF HearOfRun
  <2> QED BY <1>1, <1>3, <2>1, HearsEvent, ToStopFrame
<1>4. CASE AnswerStep(c)
  <2>1. attempt.context = c
    BY <1>4, AnswerStepIs
  <2>2. CASE attempt' = NoAttempt
    BY <2>2 DEF ToStop, NearStop, NoAttempt
  <2>3. ASSUME attempt'.context = attempt.context, attempt'.id = attempt.id,
               attempt'.stage = "release"
        PROVE  ToStop(d)'
    BY <2>3 DEF ToStop, NearStop
  <2>4. ASSUME attempt'.context = attempt.context, attempt'.id = attempt.id,
               NEW stage \in {"prepare", "commit"}, Answer(c, stage, "ok")
        PROVE  ToStop(d)'
    <3>1. attempt.stage = stage /\ ~Lacks(outbox[c], {"ok"})
      BY <2>4, HasAnswer
    <3>2. NearStop(d)' => NearStop(d)
      BY <1>1, <2>1, <2>4, <3>1 DEF NearStop, SameChild
    <3> QED BY <1>1, <2>4, <3>2 DEF ToStop, Fenced, SameChild, Busy
  <2> QED BY <1>4, <2>2, <2>3, <2>4, AnswerGoesOn
<1> QED BY <1>2, <1>3, <1>4, MainIs

LEMMA ToStopKeptBySweep ==
  ASSUME Types, Gate, ActivateEnds \/ SweepBegins \/ TryNext, NEW d \in Contexts,
         Exchange(d), ToStop(d)
  PROVE  ToStop(d)'
<1>1. SameChild(d) /\ UNCHANGED outbox
  BY MainLeavesChild, SameChildIs DEF ActivateEnds, SweepBegins, TryNext
<1>2. CASE UNCHANGED attempt
  BY <1>1, <1>2, ToStopFrame
<1>3. CASE attempt = NoAttempt /\ attempt'.stage = "prepare"
  <2>1. Lacks(outbox[d], {"ok"})
    BY <1>3, NoAttemptQuiet, QuietLacks DEF Quiet
  <2> QED BY <1>1, <1>3, <2>1 DEF ToStop, NearStop
<1> QED BY <1>2, <1>3 DEF ActivateEnds, SweepBegins, TryNext

LEMMA ToStopKeptByReplies ==
  ASSUME Types, NEW c \in Contexts, Known(c), Exchange(c), ToStop(c),
         NEW ok \in BOOLEAN, NEW silent \in BOOLEAN, NEW f, Replies(c, ok, silent, f)
  PROVE  ToStop(c)'
<1>0. Records(c) /\ Busy(c) /\ UNCHANGED <<attempt, alive>>
  BY RecordsTyped DEF Replies, mainVars
<1>1. /\ f[c][Native] = fence[c][Native]
      /\ f[c][Subagents] \in {fence[c][Subagents], SubagentsAfter(c)}
      /\ ok => f[c][Subagents] = SubagentsAfter(c)
  BY RepliedFence
\* A commit answered or not.
<1>2. CASE NearStop(c)
  <2>1. waiter[c] /\ Fenced(c)
    BY <1>0, <1>2 DEF ToStop, Fenced
  <2>2. attempt.stage = "commit" /\ command[c].stage = "commit" /\ command[c].id = attempt.id
    BY <1>2, <2>1, QuietLacks DEF NearStop, Exchange
  <2>3. HasCommitted(c, ok, f)
    BY <2>2 DEF Replies, Outcome, RetriesFirst, TurnsPartial, HasPrepared, HasGivenUp,
                HasRolledBack, HasReleasedPrevious, HasReleased
  <2>4. /\ command'[c] = NoCommand /\ fence' = f
        /\ active'[c].native = active[c].native /\ active'[c].id = active[c].id
        /\ active[c].phase # "none" => active'[c].phase # "none"
    BY <1>0, <2>3 DEF HasCommitted, Leaves, Types, ChildTypes, Records
  <2>5. f[c][Subagents] = attempt.id
    <3>1. SubagentsAfter(c) = attempt.id
      BY <2>2, SubagentsAfterIs
    <3> QED BY <1>1, <2>1, <3>1 DEF Fenced, Provider
  <2>6. \A p \in Provider : fence'[c][p] = attempt.id
    BY <1>1, <2>1, <2>4, <2>5 DEF Fenced, Provider
  <2> QED BY <1>0, <2>1, <2>4, <2>6 DEF ToStop, Fenced, Busy, NoCommand
\* A prepare answered.
<1>3. CASE ~NearStop(c) /\ NearStop(c)'
  <2>1. /\ attempt.context = c /\ attempt.stage = "prepare" /\ Lacks(outbox[c], {"ok"})
        /\ ~Lacks(outbox'[c], {"ok"})
    BY <1>0, <1>3 DEF NearStop
  <2>2. ~NobodyTold
    BY <2>1 DEF NobodyTold
  <2>3. ASSUME NEW phase, Over(c, FALSE, phase) PROVE FALSE
    <3>1. outbox' = outbox \/ Says(c, "no")
      BY <2>3, OverAt
    <3>2. "no" \in Told /\ "no" \notin {"ok"}
      BY DEF Told, Answers
    <3> QED BY <2>1, <3>1, <3>2, SaysAlso
  <2>4. ASSUME NEW says \in BOOLEAN, NEW phase, Over(c, says, phase) PROVE waiter[c]
    BY <2>1, <2>4, OverAt
  <2>5. ASSUME HasCommitted(c, ok, f) \/ HasReleased(c, ok, f) PROVE FALSE
    <3>1. \E says \in BOOLEAN : \E phase : Over(c, says, phase)
      BY <1>0, <2>5 DEF HasCommitted, HasReleased, Records
    <3>2. waiter[c]
      BY <2>4, <3>1
    <3> QED BY <2>1, <2>5, <3>2 DEF Exchange, Preparing, HasCommitted, HasReleased
  <2>6. HasPrepared(c, ok, f)
    BY <2>2, <2>3, <2>5
       DEF Replies, Outcome, RetriesFirst, TurnsPartial, HasGivenUp, HasRolledBack,
           HasReleasedPrevious
  <2>7. waiter[c]
    <3>1. Over(c, TRUE, "prepared") /\ TRUE \in BOOLEAN
      BY <2>6 DEF HasPrepared
    <3> QED BY <2>4, <3>1
  <2>8. /\ command[c].id = attempt.id /\ fence' = f /\ command'[c] = NoCommand /\ ok
        /\ command[c].native /\ command[c].stage \in {"first", "second"}
        /\ active'[c] = [phase |-> "prepared", id |-> command[c].id, native |-> TRUE]
    BY <2>6, <2>7 DEF HasPrepared, Leaves, Exchange, Types, ChildTypes
  <2>9. fence'[c][Native] = attempt.id
    BY <1>1, <2>8 DEF Known
  <2>10. fence'[c][Subagents] = attempt.id
    <3>1. SubagentsAfter(c) = attempt.id
      BY <2>8, SubagentsAfterIs
    <3> QED BY <1>1, <2>8, <3>1
  <2> QED BY <1>0, <2>8, <2>9, <2>10 DEF ToStop, Fenced, Provider, Busy, NoCommand
<1> QED BY <1>2, <1>3 DEF ToStop

LEMMA ToStopKeptByChild ==
  ASSUME Types, NEW c \in Contexts, Known(c), Exchange(c), ToStop(c), Child(c)
  PROVE  ToStop(c)'
<1>1. CASE TakePrepare(c) \/ TakeRelease(c)
  <2>1. /\ attempt.stage \in {"prepare", "release"} /\ Lacks(outbox[c], {"ok"})
        /\ UNCHANGED attempt
    BY <1>1, TakesCall, QuietLacks DEF TakePrepare, TakeRelease, LeaseCall, mainVars
  <2>2. UNCHANGED outbox \/ Says(c, "no")
    BY <1>1 DEF TakePrepare, TakeRelease, Fails, Asks
  <2>3. Lacks(outbox'[c], {"ok"})
    BY <2>1, <2>2, SaysAlso DEF Told, Answers
  <2> QED BY <2>1, <2>3 DEF ToStop, NearStop
<1>2. CASE TakeCommit(c)
  <2>1. /\ attempt.stage = "commit"
        /\ UNCHANGED <<attempt, alive, lease, active, fence>>
    BY <1>2, TakesCall DEF TakeCommit, LeaseCall, mainVars
  <2>2. NearStop(c)' => NearStop(c)
    BY <2>1 DEF NearStop
  <2>3. UNCHANGED <<command, waiter>> \/ waiter'[c]
    BY <1>2 DEF TakeCommit, Fails, Asks, Types, ChildTypes
  <2> QED BY <2>1, <2>2, <2>3 DEF ToStop, Fenced, Busy
<1>3. CASE TakeStop(c)
  <2>1. ~alive'[c]
    <3>1. CASE Gone({c})
      BY <3>1, GoneAt
    <3>2. CASE alive' = [alive EXCEPT ![c] = FALSE]
      BY <3>2 DEF Types, ChildTypes
    <3> QED BY <1>3, <3>1, <3>2 DEF TakeStop
  <2> QED BY <2>1 DEF ToStop, NearStop
<1>4. CASE WaiterTimesOut(c)
  <2>1. /\ waiter[c] /\ command[c].slow /\ Says(c, "no") /\ UNCHANGED attempt
    BY <1>4 DEF WaiterTimesOut, mainVars
  <2>2. attempt.stage = "prepare" /\ Lacks(outbox[c], {"ok"})
    BY <2>1, QuietLacks DEF Exchange
  <2>3. Lacks(outbox'[c], {"ok"})
    BY <2>1, <2>2, SaysAlso DEF Told, Answers
  <2> QED BY <2>1, <2>2, <2>3 DEF ToStop, NearStop
<1>5. CASE SubagentsReply(c) \/ SubagentsSilent(c)
  BY <1>5, SubagentsIs, ToStopKeptByReplies DEF Types
<1>6. CASE \/ TakePrompt(c) \/ RunSettles(c)
           \/ \E p \in Provider : OperationBegins(c, p) \/ OperationEnds(c, p)
  <2>1. UNCHANGED <<attempt, alive, waiter, command, active, fence>>
    BY <1>6 DEF TakePrompt, RunSettles, OperationBegins, OperationEnds, mainVars
  <2>2. outbox' = outbox \/ \E y \in Told \ Answers : Says(c, y)
    BY <1>6 DEF TakePrompt, RunSettles, OperationBegins, OperationEnds, Told, Answers
  <2>3. Lacks(outbox'[c], {"ok"}) <=> Lacks(outbox[c], {"ok"})
    BY <2>2, SaysEvent
  <2> QED BY <2>1, <2>3 DEF ToStop, NearStop, Fenced, Busy
<1> QED BY <1>1, <1>2, <1>3, <1>4, <1>5, <1>6 DEF Child

LEMMA ToStopKept ==
  ASSUME Types, Gate, \A e \in Contexts : Exchange(e), [Next]_vars,
         NEW d \in Contexts, Known(d), ToStop(d)
  PROVE  ToStop(d)'
<1>1. ASSUME NEW c \in Contexts, Main(c) PROVE ToStop(d)'
  BY <1>1, ToStopKeptByMain
<1>2. CASE ActivateEnds \/ SweepBegins \/ TryNext
  BY <1>2, ToStopKeptBySweep
<1>3. CASE Crash
  <2>1. ~alive'[d]
    BY <1>3, GoneAt DEF Crash
  <2> QED BY <2>1 DEF ToStop, NearStop
<1>4. CASE Child(d)
  BY <1>4, ToStopKeptByChild
<1>5. ASSUME NEW c \in Contexts, Child(c), c # d PROVE ToStop(d)'
  <2>1. Same(d) /\ UNCHANGED attempt
    BY <1>5, ChildElsewhere DEF mainVars
  <2> QED BY <2>1, ToStopFrame DEF Same
<1>6. CASE UNCHANGED vars
  BY <1>6, SameChildIs, ToStopFrame DEF vars, mainVars
<1> QED BY <1>1, <1>2, <1>3, <1>4, <1>5, <1>6, NextIs

-----------------------------------------------------------------------------
(* Runs                                                                    *)

\* Main is yet to hear that Pi began a run.
Pending(s) ==
  \E k \in DOMAIN s : s[k] = "began" /\ \A j \in DOMAIN s : j > k => s[j] # "settled"
\* No run began after the Runtime said that it prepared.
NoneAfterOk(s) ==
  \A j, k \in DOMAIN s : j < k /\ s[j] = "ok" => s[k] # "began"

LEMMA AppendTold ==
  ASSUME NEW s \in Seq(Told), NEW e \in Told
  PROVE  /\ Pending(s) /\ e # "settled" => Pending(Append(s, e))
         /\ e = "began" => Pending(Append(s, e))
         /\ NoneAfterOk(s) /\ (e # "began" \/ Lacks(s, {"ok"})) => NoneAfterOk(Append(s, e))
<1> DEFINE t == Append(s, e)
<1>1. /\ \A k \in 1 .. Len(s) : t[k] = s[k]
      /\ t[Len(s) + 1] = e
      /\ DOMAIN s = 1 .. Len(s) /\ DOMAIN t = 1 .. Len(s) + 1
      /\ Len(s) \in Nat
  BY AppendProperties, LenProperties
<1> HIDE DEF t
<1>2. \A k : k \in DOMAIN t <=> k \in DOMAIN s \/ k = Len(s) + 1
  BY <1>1
<1>3. ASSUME Pending(s), e # "settled" PROVE Pending(t)
  <2>1. PICK k \in DOMAIN s : s[k] = "began" /\ \A j \in DOMAIN s : j > k => s[j] # "settled"
    BY <1>3 DEF Pending
  <2>2. k \in DOMAIN t /\ t[k] = "began"
    BY <1>1, <2>1
  <2>3. \A j \in DOMAIN t : j > k => t[j] # "settled"
    BY <1>1, <1>2, <1>3, <2>1
  <2> QED BY <2>2, <2>3 DEF Pending
<1>4. ASSUME e = "began" PROVE Pending(t)
  <2>1. Len(s) + 1 \in DOMAIN t /\ t[Len(s) + 1] = "began"
    BY <1>1, <1>4
  <2>2. \A j \in DOMAIN t : ~(j > Len(s) + 1)
    BY <1>1
  <2> QED BY <2>1, <2>2 DEF Pending
<1>5. ASSUME NoneAfterOk(s), e # "began" \/ Lacks(s, {"ok"}) PROVE NoneAfterOk(t)
  <2> SUFFICES ASSUME NEW j \in DOMAIN t, NEW k \in DOMAIN t, j < k, t[j] = "ok",
                      t[k] = "began"
               PROVE  FALSE
    BY DEF NoneAfterOk
  <2>1. j \in DOMAIN s /\ s[j] = "ok"
    BY <1>1
  <2>2. CASE k \in DOMAIN s
    BY <1>1, <1>5, <2>1, <2>2 DEF NoneAfterOk
  <2>3. CASE k = Len(s) + 1
    BY <1>1, <1>5, <2>1, <2>3 DEF Lacks
  <2> QED BY <1>2, <2>2, <2>3
<1> QED BY <1>3, <1>4, <1>5 DEF t

LEMMA TailTold ==
  ASSUME NEW s \in Seq(Told), s # <<>>
  PROVE  /\ Pending(s) => \/ Pending(Tail(s))
                          \/ Head(s) = "began" /\ Lacks(Tail(s), {"settled"})
         /\ NoneAfterOk(s) => NoneAfterOk(Tail(s))
         /\ NoneAfterOk(s) /\ Head(s) = "ok" => Lacks(Tail(s), {"began"})
<1> DEFINE t == Tail(s)
<1>1. /\ Len(t) = Len(s) - 1
      /\ \A k \in 1 .. Len(t) : t[k] = s[k + 1]
      /\ Head(s) = s[1] /\ Len(s) \in Nat /\ Len(s) >= 1
      /\ DOMAIN s = 1 .. Len(s) /\ DOMAIN t = 1 .. Len(s) - 1
  BY HeadTailProperties, LenProperties, EmptySeq
<1> HIDE DEF t
<1>2. \A k \in DOMAIN t : /\ k + 1 \in DOMAIN s /\ k + 1 > 1 /\ t[k] = s[k + 1]
                          /\ k \in Nat
  BY <1>1
<1>3. ASSUME Pending(s)
      PROVE  Pending(t) \/ (Head(s) = "began" /\ Lacks(t, {"settled"}))
  <2>1. PICK k \in DOMAIN s : s[k] = "began" /\ \A j \in DOMAIN s : j > k => s[j] # "settled"
    BY <1>3 DEF Pending
  <2>2. CASE k = 1
    BY <1>1, <1>2, <2>1, <2>2 DEF Lacks
  <2>3. CASE k # 1
    <3>1. k - 1 \in DOMAIN t /\ t[k - 1] = "began"
      BY <1>1, <2>1, <2>3
    <3>2. \A j \in DOMAIN t : j > k - 1 => t[j] # "settled"
      BY <1>1, <1>2, <2>1
    <3> QED BY <3>1, <3>2 DEF Pending
  <2> QED BY <2>2, <2>3
<1>4. ASSUME NoneAfterOk(s) PROVE NoneAfterOk(t)
  <2> SUFFICES ASSUME NEW j \in DOMAIN t, NEW k \in DOMAIN t, j < k, t[j] = "ok",
                      t[k] = "began"
               PROVE  FALSE
    BY DEF NoneAfterOk
  <2>1. j + 1 \in DOMAIN s /\ k + 1 \in DOMAIN s /\ j + 1 < k + 1 /\ s[j + 1] = "ok"
        /\ s[k + 1] = "began"
    BY <1>2
  <2> QED BY <1>4, <2>1 DEF NoneAfterOk
<1>5. ASSUME NoneAfterOk(s), Head(s) = "ok" PROVE Lacks(t, {"began"})
  <2> SUFFICES ASSUME NEW k \in DOMAIN t, t[k] = "began" PROVE FALSE
    BY DEF Lacks
  <2>1. 1 \in DOMAIN s /\ s[1] = "ok" /\ 1 < k + 1 /\ k + 1 \in DOMAIN s
        /\ s[k + 1] = "began"
    BY <1>1, <1>2, <1>5
  <2> QED BY <1>5, <2>1 DEF NoneAfterOk
<1> QED BY <1>3, <1>4, <1>5 DEF t

\* Without prompts Main knows of every run, or is about to hear of it: so what
\* it looks at a second time before the stop is not in a run.
RunIsTold(c) ==
  /\ Lacks(inbox[c], {"prompt"}) /\ Lacks(outbox[c], {"refused"})
  /\ run[c] => \/ Pending(outbox[c])
               \/ Lacks(outbox[c], {"settled"}) /\ status[c] # "ready"
NoRunToStop(c) ==
  /\ attempt.stage = "commit" => Lacks(outbox[c], {"began"})
  /\ attempt.stage = "stop" => ~run[c]
  /\ attempt.stage = "prepare" => NoneAfterOk(outbox[c])
Runs(c) ==
  used["prompt"] = 0 /\ alive[c] =>
    RunIsTold(c) /\ (attempt.context = c => NoRunToStop(c))

LEMMA PromptsGrow ==
  ASSUME Types, Grows, used'["prompt"] = 0 PROVE used["prompt"] = 0
BY DEF Types, ChannelTypes, Grows, Event

LEMMA RunsFrame ==
  ASSUME Types, NEW d \in Contexts, Runs(d), SameChild(d), Grows, UNCHANGED attempt,
         status'[d] = status[d], inbox'[d] = inbox[d], outbox'[d] = outbox[d]
  PROVE  Runs(d)'
BY PromptsGrow DEF Runs, RunIsTold, NoRunToStop, SameChild

LEMMA LackingOk ==
  /\ \A s : Lacks(s, {"ok"}) => NoneAfterOk(s)
  /\ \A s : Lacks(s, {"began"}) => ~Pending(s)
BY DEF Lacks, NoneAfterOk, Pending

LEMMA RunsKeptByHearing ==
  ASSUME Types, NEW c \in Contexts, HearOfRun(c), Runs(c) PROVE Runs(c)'
<1>1. /\ outbox[c] \in Seq(Told) /\ outbox[c] # <<>> /\ outbox'[c] = Tail(outbox[c])
      /\ Head(outbox[c]) \in {"began", "settled", "refused"}
      /\ UNCHANGED <<attempt, inbox, run, alive, used>>
  BY DEF HearOfRun, Types, ChannelTypes, childVars
<1>2. \A S : Lacks(outbox[c], S) => Lacks(outbox'[c], S) /\ Head(outbox[c]) \notin S
  BY <1>1, TailKeeps
<1>3. /\ status'[c] = IF status[c] \notin {"ready", "running"} THEN status[c]
                      ELSE IF Head(outbox[c]) = "began" THEN "running" ELSE "ready"
  BY DEF HearOfRun, Types, MainTypes
<1>4. NoneAfterOk(outbox[c]) => NoneAfterOk(outbox'[c])
  BY <1>1, TailTold
<1>5. ASSUME RunIsTold(c) PROVE RunIsTold(c)'
  <2>1. Lacks(inbox'[c], {"prompt"}) /\ Lacks(outbox'[c], {"refused"})
        /\ Head(outbox[c]) # "refused"
    BY <1>1, <1>2, <1>5 DEF RunIsTold
  <2>2. ASSUME run[c], Pending(outbox[c])
        PROVE  \/ Pending(outbox'[c])
               \/ Lacks(outbox'[c], {"settled"}) /\ status'[c] # "ready"
    BY <1>1, <1>3, <2>2, TailTold
  <2>3. ASSUME run[c], Lacks(outbox[c], {"settled"}), status[c] # "ready"
        PROVE  Lacks(outbox'[c], {"settled"}) /\ status'[c] # "ready"
    BY <1>1, <1>2, <1>3, <2>1, <2>3
  <2> QED BY <1>1, <1>5, <2>1, <2>2, <2>3 DEF RunIsTold
<1>6. NoRunToStop(c) => NoRunToStop(c)'
  BY <1>1, <1>2, <1>4 DEF NoRunToStop
<1> QED BY <1>1, <1>5, <1>6 DEF Runs

LEMMA RunsKeptByAnswers ==
  ASSUME Types, \A e \in Contexts : Exchange(e), NEW c \in Contexts, AnswerStep(c),
         NEW d \in Contexts, Ended(d), Runs(d)
  PROVE  Runs(d)'
<1>1. /\ attempt.context = c
      /\ d # c => outbox'[d] = outbox[d] /\ status'[d] = status[d]
      /\ UNCHANGED childVars /\ UNCHANGED used
  BY AnswerStepIs
<1>2. PICK stage, x : x \in Answers /\ Answer(c, stage, x)
  BY AnswerStepIs
<1>3. alive' = alive /\ run' = run
  BY <1>1 DEF childVars
<1>4. /\ outbox[c] \in Seq(Told) /\ outbox[c] # <<>> /\ Head(outbox[c]) = x
      /\ outbox'[c] = Tail(outbox[c])
  BY <1>2, HasAnswer
<1>5. \A S : Lacks(outbox[c], S) => Lacks(outbox'[c], S)
  BY <1>4, TailKeeps
<1>6. Lacks(inbox[d], {"prompt"}) => Lacks(inbox'[d], {"prompt"})
  <2>1. \/ inbox' = inbox
        \/ \E y \in LeaseCall : Sends(c, y)
    BY DEF AnswerStep, PrepareFailed, Prepared, CommitFailed, Committed, Stopped,
           StopFailed, Released, ReleaseFrom, LeaseCall
  <2>2. ASSUME NEW y \in LeaseCall, Sends(c, y), d = c
        PROVE  Lacks(inbox[d], {"prompt"}) => Lacks(inbox'[d], {"prompt"})
    <3>1. inbox[c] \in Seq(Call) /\ inbox'[c] = Append(inbox[c], y) /\ y \in Call
          /\ y \notin {"prompt"}
      BY <2>2 DEF Sends, Types, ChannelTypes, Call, LeaseCall
    <3> QED BY <2>2, <3>1, AppendKeeps
  <2>3. ASSUME NEW y, Sends(c, y), d # c PROVE inbox'[d] = inbox[d]
    BY <2>3 DEF Sends, Types, ChannelTypes
  <2> QED BY <2>1, <2>2, <2>3
<1>7. status'[d] = "ready" => status[d] = "ready"
  BY <1>1 DEF AnswerStep, PrepareFailed, Prepared, CommitFailed, Committed, Stopped,
              StopFailed, Released, Types, MainTypes
<1>8. ASSUME RunIsTold(d) PROVE RunIsTold(d)'
  <2>1. CASE d = c
    <3>1. Pending(outbox[c]) => Pending(outbox'[c])
      BY <1>2, <1>4, TailTold DEF Answers
    <3> QED BY <1>3, <1>5, <1>6, <1>7, <1>8, <2>1, <3>1 DEF RunIsTold
  <2>2. CASE d # c
    BY <1>1, <1>3, <1>6, <1>7, <1>8, <2>2 DEF RunIsTold
  <2> QED BY <2>1, <2>2
<1>9. ASSUME used["prompt"] = 0, alive[d], attempt'.context = d PROVE NoRunToStop(d)'
  <2>1. /\ d = c /\ attempt'.context = attempt.context
        /\ \/ attempt'.stage = "release"
           \/ attempt'.stage = "commit" /\ Answer(c, "prepare", "ok")
           \/ attempt'.stage = "stop" /\ Answer(c, "commit", "ok") /\ Eligible(c)
    BY <1>1, <1>9, AnswerGoesOn DEF NoAttempt
  <2>2. RunIsTold(c) /\ NoRunToStop(c)
    BY <1>1, <1>9, <2>1 DEF Runs
  <2>3. CASE attempt'.stage = "release"
    BY <2>3 DEF NoRunToStop
  <2>4. CASE attempt'.stage = "commit" /\ Answer(c, "prepare", "ok")
    <3>1. attempt.stage = "prepare" /\ Head(outbox[c]) = "ok"
      BY <2>4, HasAnswer
    <3>2. Lacks(outbox'[c], {"began"})
      BY <1>4, <2>2, <3>1, TailTold DEF NoRunToStop
    <3> QED BY <2>1, <2>4, <3>2 DEF NoRunToStop
  <2>5. CASE attempt'.stage = "stop" /\ Answer(c, "commit", "ok") /\ Eligible(c)
    <3>1. attempt.stage = "commit"
      BY <2>5, HasAnswer
    <3>2. ~Pending(outbox[c])
      BY <2>2, <3>1, LackingOk DEF NoRunToStop
    <3>3. status[c] = "ready"
      BY <1>9, <2>1, <2>5 DEF Eligible, Managed, Blocked, Ended, Types, MainTypes
    <3>4. ~run[c]
      BY <2>2, <3>2, <3>3 DEF RunIsTold
    <3> QED BY <1>3, <2>1, <2>5, <3>4 DEF NoRunToStop
  <2> QED BY <2>1, <2>3, <2>4, <2>5
<1> QED BY <1>1, <1>3, <1>8, <1>9 DEF Runs

LEMMA RunsKeptByMain ==
  ASSUME Types, Types', \A e \in Contexts : Exchange(e), NEW c \in Contexts, Main(c),
         NEW d \in Contexts, Ended(d), Runs(d)
  PROVE  Runs(d)'
<1>1. SameChild(d)
  BY MainLeavesChild, SameChildIs
<1>2. CASE Prompt(c)
  <2>1. used'["prompt"] # 0
    BY <1>2 DEF Prompt, Happens, Types, ChannelTypes, Event
  <2> QED BY <2>1 DEF Runs
<1>3. CASE ActivateBegins(c)
  <2>1. Grows /\ UNCHANGED <<attempt, status, inbox, outbox>>
    BY <1>3, HappensGrows DEF ActivateBegins, Event
  <2> QED BY <1>1, <2>1, RunsFrame
<1>4. CASE HearOfRun(c)
  <2>1. CASE d = c
    BY <1>4, <2>1, RunsKeptByHearing
  <2>2. CASE d # c
    <3>1. /\ Grows /\ UNCHANGED <<attempt, inbox>>
          /\ status'[d] = status[d] /\ outbox'[d] = outbox[d]
      BY <1>4, <2>2, UnchangedGrows DEF HearOfRun, Types, MainTypes, ChannelTypes
    <3> QED BY <1>1, <3>1, RunsFrame
  <2> QED BY <2>1, <2>2
<1>5. CASE AnswerStep(c)
  BY <1>5, RunsKeptByAnswers
<1> QED BY <1>2, <1>3, <1>4, <1>5, MainIs

LEMMA RunsKeptBySweep ==
  ASSUME Types, Gate, ActivateEnds \/ SweepBegins \/ TryNext, NEW d \in Contexts,
         Exchange(d), Runs(d)
  PROVE  Runs(d)'
<1>1. SameChild(d) /\ Grows /\ UNCHANGED <<status, outbox, used>>
  BY MainLeavesChild, SameChildIs, UnchangedGrows DEF ActivateEnds, SweepBegins, TryNext
<1>2. CASE UNCHANGED <<attempt, inbox>>
  BY <1>1, <1>2, RunsFrame
<1>3. CASE TryNext /\ ~UNCHANGED <<attempt, inbox>>
  <2>1. /\ attempt = NoAttempt /\ attempt'.stage = "prepare"
        /\ \E x : Sends(x, "prepare")
    BY <1>3 DEF TryNext
  <2>2. NoneAfterOk(outbox[d])
    BY <2>1, NoAttemptQuiet, QuietLacks, LackingOk DEF Quiet
  <2>3. Lacks(inbox[d], {"prompt"}) => Lacks(inbox'[d], {"prompt"})
    <3>1. CASE Sends(d, "prepare")
      <4>1. inbox[d] \in Seq(Call) /\ inbox'[d] = Append(inbox[d], "prepare")
            /\ "prepare" \in Call
        BY <3>1 DEF Sends, Types, ChannelTypes, Call, LeaseCall
      <4> QED BY <4>1, AppendKeeps
    <3>2. CASE inbox'[d] = inbox[d]
      BY <3>2
    <3>3. inbox'[d] = inbox[d] \/ Sends(d, "prepare")
      BY <2>1 DEF Sends, Types, ChannelTypes
    <3> QED BY <3>1, <3>2, <3>3
  <2> QED BY <1>1, <2>1, <2>2, <2>3 DEF Runs, RunIsTold, NoRunToStop, SameChild
<1> QED BY <1>2, <1>3 DEF ActivateEnds, SweepBegins, TryNext

\* An answer leaves what is known of runs.
LEMMA RunsOnceAnswered ==
  ASSUME Types, NEW c \in Contexts, Runs(c), Grows,
         UNCHANGED outbox \/ \E x \in Answers : Says(c, x),
         UNCHANGED <<status, attempt>>, run'[c] = run[c],
         Lacks(inbox[c], {"prompt"}) => Lacks(inbox'[c], {"prompt"}),
         alive'[c] => alive[c]
  PROVE  Runs(c)'
<1>1. CASE UNCHANGED outbox
  BY <1>1, PromptsGrow DEF Runs, RunIsTold, NoRunToStop
<1>2. ASSUME NEW x \in Answers, Says(c, x) PROVE Runs(c)'
  <2>1. outbox[c] \in Seq(Told) /\ outbox'[c] = Append(outbox[c], x) /\ x \in Told
        /\ x \notin {"began", "settled", "refused"}
    BY <1>2 DEF Says, Types, ChannelTypes, Told, Answers
  <2>2. /\ Pending(outbox[c]) => Pending(outbox'[c])
        /\ NoneAfterOk(outbox[c]) => NoneAfterOk(outbox'[c])
    BY <2>1, AppendTold
  <2>3. \A S \in {{"began"}, {"settled"}, {"refused"}} :
          Lacks(outbox[c], S) => Lacks(outbox'[c], S)
    BY <2>1, AppendKeeps
  <2> QED BY <2>2, <2>3, PromptsGrow DEF Runs, RunIsTold, NoRunToStop
<1> QED BY <1>1, <1>2

LEMMA RunsKeptByBegin ==
  ASSUME Types, Gate, NEW c \in Contexts, NEW p \in Provider, Known(c), ToStop(c), Runs(c),
         OperationEnds(c, p), Says(c, "began")
  PROVE  Runs(c)'
<1>1. /\ UNCHANGED <<status, attempt, inbox, alive, used>> /\ p \in operation[c]
  BY DEF OperationEnds, mainVars
<1>2. ~NearStop(c)
  <2>1. fence[c][p] = NoId
    BY <1>1 DEF Known
  <2>2. Fenced(c) => fence[c][p] = attempt.id
    BY DEF Fenced
  <2>3. NearStop(c) => attempt.id \in Ids
    BY DEF NearStop, Gate
  <2> QED BY <2>1, <2>2, <2>3 DEF ToStop
<1>3. outbox[c] \in Seq(Told) /\ outbox'[c] = Append(outbox[c], "began") /\ "began" \in Told
  BY DEF Says, Types, ChannelTypes, Told
<1>4. Pending(outbox'[c])
  BY <1>3, AppendTold
<1>5. Lacks(outbox[c], {"refused"}) => Lacks(outbox'[c], {"refused"})
  BY <1>3, AppendKeeps
<1>6. ASSUME attempt.context = c, NoRunToStop(c), alive[c] PROVE NoRunToStop(c)'
  <2>1. /\ attempt.stage \notin {"commit", "stop"}
        /\ attempt.stage = "prepare" => Lacks(outbox[c], {"ok"})
    BY <1>2, <1>6 DEF NearStop
  <2>2. attempt.stage = "prepare" => NoneAfterOk(outbox'[c])
    BY <1>3, <1>6, <2>1, AppendTold DEF NoRunToStop
  <2> QED BY <1>1, <2>1, <2>2 DEF NoRunToStop
<1> QED BY <1>1, <1>4, <1>5, <1>6 DEF Runs, RunIsTold

LEMMA RunsKeptByChild ==
  ASSUME Types, Gate, NEW c \in Contexts, Known(c), Exchange(c), ToStop(c), Runs(c), Child(c)
  PROVE  Runs(c)'
<1>1. CASE TakePrompt(c)
  <2>1. inbox[c] \in Seq(Call) /\ inbox[c] # <<>> /\ Head(inbox[c]) = "prompt"
    BY <1>1 DEF TakePrompt, Takes, Types, ChannelTypes
  <2>2. ~Lacks(inbox[c], {"prompt"})
    BY <2>1, TailKeeps
  <2> QED BY <1>1, <2>2 DEF Runs, RunIsTold, TakePrompt
<1>2. CASE TakePrepare(c) \/ TakeCommit(c) \/ TakeRelease(c)
  <2>1. inbox[c] \in Seq(Call) /\ inbox[c] # <<>> /\ inbox'[c] = Tail(inbox[c])
    BY <1>2 DEF TakePrepare, TakeCommit, TakeRelease, Takes, Types, ChannelTypes
  <2>2. Lacks(inbox[c], {"prompt"}) => Lacks(inbox'[c], {"prompt"})
    BY <2>1, TailKeeps
  <2>3. UNCHANGED outbox \/ \E x \in Answers : Says(c, x)
    BY <1>2 DEF TakePrepare, TakeCommit, TakeRelease, Fails, Asks, Answers
  <2>4. Grows /\ UNCHANGED <<status, attempt, run, alive>>
    BY <1>2, UnchangedGrows DEF TakePrepare, TakeCommit, TakeRelease, mainVars
  <2> QED BY <2>2, <2>3, <2>4, RunsOnceAnswered
<1>3. CASE TakeStop(c)
  <2>1. ~alive'[c]
    <3>1. CASE Gone({c})
      BY <3>1, GoneAt
    <3>2. CASE alive' = [alive EXCEPT ![c] = FALSE]
      BY <3>2 DEF Types, ChildTypes
    <3> QED BY <1>3, <3>1, <3>2 DEF TakeStop
  <2> QED BY <2>1 DEF Runs
<1>4. CASE SubagentsReply(c) \/ SubagentsSilent(c)
  <2>1. PICK ok, silent \in BOOLEAN : \E f : Replies(c, ok, silent, f)
    BY <1>4, SubagentsIs DEF Types
  <2>2. PICK f : Replies(c, ok, silent, f)
    BY <2>1
  <2>3. NobodyTold \/ \E says, phase : Over(c, says, phase)
    BY <2>2 DEF Replies, Outcome, RetriesFirst, TurnsPartial, HasPrepared, HasGivenUp,
                HasRolledBack, HasReleasedPrevious, HasCommitted, HasReleased
  <2>4. UNCHANGED outbox \/ \E x \in Answers : Says(c, x)
    BY <2>3 DEF NobodyTold, Over, Answers
  <2>5. Grows /\ UNCHANGED <<status, attempt, inbox, run, alive>>
    BY <2>2, UnchangedGrows, HappensGrows DEF Replies, Event, mainVars
  <2> QED BY <2>4, <2>5, RunsOnceAnswered
<1>5. CASE WaiterTimesOut(c)
  <2>1. Says(c, "no") /\ UNCHANGED <<status, attempt, inbox, run, alive, used>>
    BY <1>5 DEF WaiterTimesOut, mainVars
  <2> QED BY <2>1, UnchangedGrows, RunsOnceAnswered DEF Answers
<1>6. CASE RunSettles(c)
  <2>1. /\ outbox[c] \in Seq(Told) /\ outbox'[c] = Append(outbox[c], "settled")
        /\ "settled" \in Told /\ ~run'[c]
        /\ UNCHANGED <<status, attempt, inbox, alive, used>>
    BY <1>6 DEF RunSettles, Says, Types, ChannelTypes, ChildTypes, Told, mainVars
  <2>2. /\ Lacks(outbox[c], {"refused"}) => Lacks(outbox'[c], {"refused"})
        /\ Lacks(outbox[c], {"began"}) => Lacks(outbox'[c], {"began"})
        /\ NoneAfterOk(outbox[c]) => NoneAfterOk(outbox'[c])
    BY <2>1, AppendKeeps, AppendTold
  <2> QED BY <2>1, <2>2 DEF Runs, RunIsTold, NoRunToStop
<1>7. ASSUME NEW p \in Provider, OperationBegins(c, p) PROVE Runs(c)'
  BY <1>7, HappensGrows, RunsOnceAnswered DEF OperationBegins, Event, mainVars
<1>8. ASSUME NEW p \in Provider, OperationEnds(c, p) PROVE Runs(c)'
  <2>1. CASE UNCHANGED <<run, outbox>>
    BY <1>8, <2>1, UnchangedGrows, RunsOnceAnswered DEF OperationEnds, mainVars
  <2>2. CASE Says(c, "began")
    BY <1>8, <2>2, RunsKeptByBegin
  <2> QED BY <1>8, <2>1, <2>2 DEF OperationEnds
<1> QED BY <1>1, <1>2, <1>3, <1>4, <1>5, <1>6, <1>7, <1>8 DEF Child

LEMMA RunsKept ==
  ASSUME Types, Gate, \A e \in Contexts : Exchange(e), [Next]_vars,
         NEW d \in Contexts, Known(d), Ended(d), ToStop(d), Runs(d)
  PROVE  Runs(d)'
<1>0. Types'
  BY TypesKept
<1>1. ASSUME NEW c \in Contexts, Main(c) PROVE Runs(d)'
  BY <1>0, <1>1, RunsKeptByMain
<1>2. CASE ActivateEnds \/ SweepBegins \/ TryNext
  BY <1>2, RunsKeptBySweep
<1>3. CASE Crash
  <2>1. ~alive'[d]
    BY <1>3, GoneAt DEF Crash
  <2> QED BY <2>1 DEF Runs
<1>4. CASE Child(d)
  BY <1>4, RunsKeptByChild
<1>5. ASSUME NEW c \in Contexts, Child(c), c # d PROVE Runs(d)'
  <2>1. Same(d) /\ Grows /\ UNCHANGED attempt
    BY <1>5, ChildElsewhere DEF mainVars
  <2> QED BY <2>1, RunsFrame DEF Same
<1>6. CASE UNCHANGED vars
  <2>1. Grows /\ UNCHANGED <<attempt, status, inbox, outbox, childVars>>
    BY <1>6, UnchangedGrows DEF vars, mainVars
  <2> QED BY <2>1, SameChildIs, RunsFrame
<1> QED BY <1>1, <1>2, <1>3, <1>4, <1>5, <1>6, NextIs

-----------------------------------------------------------------------------
(* The inductive invariant                                                 *)

OfContext(c) == Known(c) /\ Exchange(c) /\ Ended(c) /\ Leases(c) /\ ToStop(c) /\ Runs(c)
IInv == Types /\ Gate /\ \A c \in Contexts : OfContext(c)

LEMMA InitIInv == Init => IInv
<1> SUFFICES ASSUME Init PROVE IInv
  OBVIOUS
<1>1. Types /\ Gate
  BY InitTypes, InitGate
<1>2. ASSUME NEW c \in Contexts PROVE OfContext(c)
  <2>1. /\ inbox[c] = <<>> /\ outbox[c] = <<>> /\ status[c] = "ready" /\ ~run[c]
        /\ ~waiter[c] /\ lease[c] = NoLease /\ command[c] = NoCommand
        /\ active[c] = NothingHeld /\ operation[c] = {}
        /\ fence[c] = [p \in Provider |-> NoId] /\ attempt = NoAttempt
    BY DEF Init
  <2>2. Known(c)
    BY <2>1 DEF Known, Busy, NoCommand, NothingHeld, Provider
  <2>3. Exchange(c)
    BY <2>1, EmptyLacks DEF Exchange, Quiet, NoLease, NoCommand
  <2>4. Ended(c)
    BY <2>1 DEF Ended, NoAttempt
  <2>5. Leases(c)
    BY <2>1 DEF Leases, Leased, Busy, NoCommand, NoLease, NoAttempt
  <2>6. ToStop(c)
    BY <2>1 DEF ToStop, NearStop, NoAttempt
  <2>7. Runs(c)
    BY <2>1, EmptyLacks DEF Runs, RunIsTold, NoAttempt
  <2> QED BY <2>2, <2>3, <2>4, <2>5, <2>6, <2>7 DEF OfContext
<1> QED BY <1>1, <1>2 DEF IInv

LEMMA IInvKept == IInv /\ [Next]_vars => IInv'
<1> SUFFICES ASSUME IInv, [Next]_vars PROVE IInv'
  OBVIOUS
<1>1. /\ Types /\ Gate
      /\ \A c \in Contexts : /\ Known(c) /\ Exchange(c) /\ Ended(c) /\ Leases(c)
                             /\ ToStop(c) /\ Runs(c)
  BY DEF IInv, OfContext
<1>2. Types' /\ Gate'
  BY <1>1, TypesKept, GateKept
<1>3. ASSUME NEW c \in Contexts PROVE OfContext(c)'
  <2>1. Known(c)'
    BY <1>1, KnownKept
  <2>2. Exchange(c)'
    BY <1>1, ExchangeKept
  <2>3. Ended(c)'
    BY <1>1, <1>2, EndedKept
  <2>4. Leases(c)'
    BY <1>1, LeasesKept
  <2>5. ToStop(c)'
    BY <1>1, ToStopKept
  <2>6. Runs(c)'
    BY <1>1, RunsKept
  <2> QED BY <2>1, <2>2, <2>3, <2>4, <2>5, <2>6 DEF OfContext
<1> QED BY <1>2, <1>3 DEF IInv

-----------------------------------------------------------------------------
(* What hibernation promises                                               *)

\* The invariant the others rest on holds in every state: of a lease call
\* there is one thing on its way, and a Runtime's lease, the Extension's and
\* the fences agree on whose it is.
THEOREM HibernationInvariant == Spec => []IInv
BY InitIInv, IInvKept, PTL DEF Spec

\* Activation persists a Session as the active one only while no stop is on
\* its way, and hibernation stops none that is or is about to be: the context
\* in the foreground is never being stopped, nor gone.
THEOREM ForegroundIsKept == Spec => []ForegroundStays
<1>1. IInv => ForegroundStays
  BY DEF IInv, Gate
<1> QED BY <1>1, HibernationInvariant, PTL

\* A closed fence of the native agents can always be opened: the Extension has
\* a lease, or works on a command, with that identity and that provider.
THEOREM FencesAreKnown == Spec => []NativeFenceIsKnown
<1>1. IInv => NativeFenceIsKnown
  BY KnownSuffices DEF IInv, OfContext
<1> QED BY <1>1, HibernationInvariant, PTL

\* A Runtime no attempt works on refuses prompts only when pi-subagents has
\* been silent, and then under a lease it did prepare.
THEOREM NoLeaseIsLeft == Spec => []NoLeaseLeftBehind
<1>1. IInv => NoLeaseLeftBehind
  BY LeasesSuffice DEF IInv, OfContext
<1> QED BY <1>1, HibernationInvariant, PTL

\* What hibernation stops has no operation in progress and every fence closed
\* by this attempt; and Pi is in a run only if somebody sent a prompt.
THEOREM HibernatesOnlyIdle == Spec => []HibernatesIdle
<1>1. ASSUME IInv, NEW c \in Contexts, attempt.stage = "stop", attempt.context = c, alive[c]
      PROVE  /\ operation[c] = {}
             /\ \A p \in Provider : fence[c][p] = attempt.id
             /\ run[c] => used["prompt"] > 0
  <2>1. \A p \in Provider : fence[c][p] = attempt.id
    BY <1>1 DEF IInv, OfContext, ToStop, NearStop, Fenced
  <2>2. attempt.id # NoId
    BY <1>1 DEF IInv, Gate
  <2>3. \A p \in operation[c] : fence[c][p] = NoId
    BY <1>1 DEF IInv, OfContext, Known
  <2>4. operation[c] \subseteq Provider /\ used["prompt"] \in Nat
    BY <1>1 DEF IInv, Types, ChildTypes, ChannelTypes, Event
  <2>5. run[c] => used["prompt"] # 0
    BY <1>1 DEF IInv, OfContext, Runs, NoRunToStop
  <2> QED BY <2>1, <2>2, <2>3, <2>4, <2>5
<1>2. IInv => HibernatesIdle
  BY <1>1 DEF HibernatesIdle
<1> QED BY <1>2, HibernationInvariant, PTL
=============================================================================
