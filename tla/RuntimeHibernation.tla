-------------------------- MODULE RuntimeHibernation --------------------------
(***************************************************************************)
(* Automatic hibernation of idle background Sessions.                      *)
(*                                                                         *)
(* Main (runtime-hibernation.ts, on the contexts and the launch gate of    *)
(* the Kernel) sweeps: for a context it asks the Runtime to prepare a      *)
(* lease, checks again, commits it, checks again under the launch gate and *)
(* stops the Runtime; whenever it turns back it releases the lease.        *)
(*                                                                         *)
(* In the child each Runtime keeps the lease Main holds (shared-pi-host.ts)*)
(* and passes the command to the quiescence Extension, which asks every    *)
(* provider to close its fence.  Native agents are the repository's own    *)
(* provider and answer at once; pi-subagents is an outside package that    *)
(* may answer late or not at all.                                          *)
(***************************************************************************)
EXTENDS Naturals, Sequences, FiniteSets

CONSTANTS
  Contexts,   \* managed contexts, each with a persisted Session
  Ids,        \* attempt identities (attempt id and token)
  Limit       \* bound on how often each outside event happens

NoContext == "no context"
NoId == "no id"
Event == {"prompt", "operation", "silence", "stopFault", "crash", "activate"}

ASSUME NamesAreNew == NoContext \notin Contexts /\ NoId \notin Ids
ASSUME LimitsAreNatural == Limit \in [Event -> Nat]

VARIABLES
  status,      \* Kernel's Runtime status of each context
  foreground,  \* the active context
  uses,        \* contexts by lastWarmUseAt, the most recent one last
  activating,  \* context whose activation holds the launch gate
  candidates,  \* contexts this sweep still has to try
  attempt,     \* the attempt in progress
  inbox,       \* Main -> child calls of each Runtime
  outbox,      \* child -> Main answers and events of each Runtime
  alive,       \* SharedPiRuntime has phase "running"
  run,         \* Pi is in a run
  lease,       \* hibernateLease of each SharedPiRuntime
  waiter,      \* it waits for the Extension's answer
  command,     \* lease command the Extension works on
  active,      \* activeLease of the Extension
  operation,   \* providers with an operation in progress
  fence,       \* identity each provider is fenced with
  used         \* how often each outside event has happened

mainVars == <<status, foreground, uses, activating, candidates, attempt>>
childVars == <<alive, run, lease, waiter, command, active, operation, fence>>
vars == <<mainVars, inbox, outbox, childVars, used>>

Native == "native agents"
Subagents == "pi-subagents"
Provider == {Native, Subagents}

AnyId == Ids \cup {NoId}
Asking == {"first", "second", "partial", "previous", "commit", "release"}
Orders == {s \in [1 .. Cardinality(Contexts) -> Contexts] :
             \A i, j \in 1 .. Cardinality(Contexts) : s[i] = s[j] => i = j}
NoCommand == [stage |-> "none", id |-> NoId, native |-> FALSE, slow |-> FALSE]
NoLease == [phase |-> "none", id |-> NoId]
NothingHeld == [phase |-> "none", id |-> NoId, native |-> FALSE]
NoAttempt == [context |-> NoContext, id |-> NoId, stage |-> "none", left |-> 0]

-----------------------------------------------------------------------------
(* Main: the contexts                                                      *)

Managed(c) == status[c] # "gone"
Touch(c) == uses' = Append(SelectSeq(uses, LAMBDA d : d # c), c)

Happens(k) == used[k] < Limit[k] /\ used' = [used EXCEPT ![k] = @ + 1]

Sends(c, call) == inbox' = [inbox EXCEPT ![c] = Append(@, call)]

\* WorkbenchKernel.prompt, or the prompt of a collaboration delivery.
Prompt(c) ==
  /\ Happens("prompt")
  /\ status[c] = "ready"
  /\ status' = [status EXCEPT ![c] = "running"]
  /\ Touch(c)
  /\ Sends(c, "prompt")
  /\ UNCHANGED <<foreground, activating, candidates, attempt, outbox, childVars>>

\* A refused prompt makes the context ready again, like the end of a run; a
\* run Pi begins by itself makes it running.
HearOfRun(c) ==
  /\ outbox[c] # <<>> /\ Head(outbox[c]) \in {"began", "settled", "refused"}
  /\ outbox' = [outbox EXCEPT ![c] = Tail(@)]
  /\ status' = [status EXCEPT ![c] =
       IF @ \notin {"ready", "running"} THEN @
       ELSE IF Head(outbox[c]) = "began" THEN "running" ELSE "ready"]
  /\ UNCHANGED <<foreground, uses, activating, candidates, attempt, inbox,
                 childVars, used>>

\* Mutant: the launch gate is not looked at.
GateIgnored == TRUE
GateFree == activating = NoContext /\ attempt.stage # "stop"

\* Activation of a warm context holds the launch gate until the Session is
\* persisted as the active one; it does not look at the context again.
ActivateBegins(c) ==
  /\ Happens("activate")
  /\ GateFree /\ c # foreground
  /\ status[c] \in {"ready", "running"}
  /\ activating' = c
  /\ UNCHANGED <<status, foreground, uses, candidates, attempt, inbox, outbox,
                 childVars>>

ActivateEnds ==
  /\ activating # NoContext
  /\ activating' = NoContext
  /\ foreground' = activating
  /\ Touch(activating)
  /\ UNCHANGED <<status, candidates, attempt, inbox, outbox, childVars, used>>

-----------------------------------------------------------------------------
(* Main: the sweep                                                         *)

\* blockReason, for what this model has: the contexts are persisted, and a
\* prompt of a delivery makes its context running.
Blocked(c) == c = foreground \/ status[c] \in {"running", "stopping"}
\* Mutant: work is not looked at again.
NotForeground(c) == Managed(c) /\ c # foreground
Eligible(c) == Managed(c) /\ ~Blocked(c)

Spared(cs) == SelectSeq(uses, LAMBDA c : c \in cs)

\* runSweep: the most recently used context stays warm; of the others those
\* that passed the grace period, and they are the oldest, are tried in order.
SweepBegins ==
  /\ attempt = NoAttempt /\ candidates = <<>>
  /\ LET idle == Spared({c \in Contexts : c # foreground /\ status[c] = "ready"})
     IN  \E n \in 1 .. Len(idle) - 1 : candidates' = SubSeq(idle, 1, n)
  /\ UNCHANGED <<status, foreground, uses, activating, attempt, inbox, outbox,
                 childVars, used>>

\* A new identity differs from every one its Runtime still knows.
InUse(c) == {lease[c].id, command[c].id, active[c].id} \cup {fence[c][p] : p \in Provider}

Stage(s) == attempt' = [attempt EXCEPT !.stage = s]
Turns(s, n) == attempt' = [attempt EXCEPT !.stage = s, !.left = n]

\* tryHibernate up to its first await.
TryNext ==
  /\ attempt = NoAttempt /\ candidates # <<>>
  /\ candidates' = Tail(candidates)
  /\ LET c == Head(candidates)
     IN  IF Eligible(c) /\ status[c] # "crashed"
         THEN /\ Ids \ InUse(c) # {}
              /\ attempt' = [context |-> c, id |-> CHOOSE i \in Ids : i \notin InUse(c),
                             stage |-> "prepare", left |-> 0]
              /\ Sends(c, "prepare")
         ELSE UNCHANGED <<attempt, inbox>>
  /\ UNCHANGED <<status, foreground, uses, activating, outbox, childVars, used>>

\* The answer of the lease call the attempt awaits.
Answer(c, stage, says) ==
  /\ attempt.context = c /\ attempt.stage = stage
  /\ outbox[c] # <<>> /\ Head(outbox[c]) = says
  /\ outbox' = [outbox EXCEPT ![c] = Tail(@)]

\* A release that fails is tried again; where the code rolls back inside the
\* try block, the catch block tries as often once more.
\* Mutant: it is tried without end.
ReleaseForever(c, n) == Turns("release", 3) /\ Sends(c, "release")
ReleaseFrom(c, n) == Turns("release", n) /\ Sends(c, "release")

PrepareFailed(c) ==
  /\ Answer(c, "prepare", "no")
  /\ attempt' = NoAttempt
  /\ UNCHANGED <<status, foreground, uses, activating, candidates, inbox, childVars,
                 used>>

Prepared(c) ==
  /\ Answer(c, "prepare", "ok")
  /\ IF Eligible(c) THEN Stage("commit") /\ Sends(c, "commit") ELSE ReleaseFrom(c, 3)
  /\ UNCHANGED <<status, foreground, uses, activating, candidates, childVars, used>>

CommitFailed(c) ==
  /\ Answer(c, "commit", "no")
  /\ ReleaseFrom(c, 3)
  /\ UNCHANGED <<status, foreground, uses, activating, candidates, childVars, used>>

\* The gate is free: stop, if the context is still eligible.
Committed(c) ==
  /\ Answer(c, "commit", "ok")
  /\ \/ /\ GateFree /\ Eligible(c)
        /\ status' = [status EXCEPT ![c] = "stopping"]
        /\ Stage("stop") /\ Sends(c, "stop")
     \/ /\ GateFree /\ ~Eligible(c)
        /\ ReleaseFrom(c, 3)
        /\ UNCHANGED status
     \/ /\ ~GateFree
        /\ ReleaseFrom(c, 1)
        /\ UNCHANGED status
  /\ UNCHANGED <<foreground, uses, activating, candidates, childVars, used>>

Stopped(c) ==
  /\ Answer(c, "stop", "ok")
  /\ status' = [status EXCEPT ![c] = "gone"]
  /\ foreground' = IF foreground = c THEN NoContext ELSE foreground
  /\ attempt' = NoAttempt
  /\ UNCHANGED <<uses, activating, candidates, inbox, childVars, used>>

\* A stop that failed keeps the context; its Runtime, no longer running, takes
\* no release.
StopFailed(c) ==
  /\ Answer(c, "stop", "no")
  /\ status' = [status EXCEPT ![c] = "crashed"]
  /\ attempt' = NoAttempt
  /\ UNCHANGED <<foreground, uses, activating, candidates, inbox, childVars, used>>

Released(c) ==
  /\ \/ Answer(c, "release", "ok") /\ attempt' = NoAttempt /\ UNCHANGED inbox
     \/ /\ Answer(c, "release", "no")
        /\ IF attempt.left > 0 THEN ReleaseFrom(c, attempt.left - 1)
           ELSE attempt' = NoAttempt /\ UNCHANGED inbox
  /\ UNCHANGED <<status, foreground, uses, activating, candidates, childVars, used>>

-----------------------------------------------------------------------------
(* The child: the Runtime's side of a lease command                        *)

Takes(c, call) ==
  /\ inbox[c] # <<>> /\ Head(inbox[c]) = call
  /\ inbox' = [inbox EXCEPT ![c] = Tail(@)]
Says(c, what) == outbox' = [outbox EXCEPT ![c] = Append(@, what)]

\* SharedPiRuntime.send: a mutating command is refused under a lease.
Refuses(c) == lease[c].phase # "none"

TakePrompt(c) ==
  /\ Takes(c, "prompt")
  /\ IF Refuses(c) THEN Says(c, "refused") /\ UNCHANGED run
     ELSE run' = [run EXCEPT ![c] = TRUE] /\ UNCHANGED outbox
  /\ UNCHANGED <<mainVars, alive, lease, waiter, command, active, operation,
                 fence, used>>

\* The Extension takes one command at a time.
Busy(c) == command[c].stage # "none"

Asks(c, stage, i, native) ==
  /\ command' = [command EXCEPT ![c] =
       [stage |-> stage, id |-> i, native |-> native, slow |-> FALSE]]
  /\ waiter' = [waiter EXCEPT ![c] = TRUE]
  /\ UNCHANGED outbox

Fails(c) == Says(c, "no") /\ UNCHANGED <<command, waiter>>

NativeFence(c, i) == fence' = [fence EXCEPT ![c][Native] = i]
NativeAccepts(c) == Native \notin operation[c] /\ fence[c][Native] = NoId

\* A Runtime that has a lease, or native tasks at work, prepares none.
\* Mutant: nor does one whose Extension has a lease.
MayPrepareAnew(c) ==
  /\ lease[c].phase = "none" /\ Native \notin operation[c]
  /\ ~Busy(c) /\ ~run[c] /\ active[c].phase = "none"
MayPrepare(c) ==
  /\ lease[c].phase = "none" /\ Native \notin operation[c]
  /\ ~Busy(c) /\ ~run[c]

\* prepareHibernation and prepareLease.  What a lease of an earlier attempt
\* still fences is released first, and then Main has to come again.
TakePrepare(c) ==
  /\ Takes(c, "prepare")
  /\ \/ /\ ~MayPrepare(c)
        /\ Fails(c)
        /\ UNCHANGED <<lease, fence>>
     \/ /\ MayPrepare(c) /\ active[c].phase # "none"
        /\ lease' = [lease EXCEPT ![c] = [phase |-> "preparing", id |-> attempt.id]]
        /\ IF active[c].native THEN NativeFence(c, NoId) ELSE UNCHANGED fence
        /\ Asks(c, "previous", attempt.id, FALSE)
     \/ /\ MayPrepare(c) /\ active[c].phase = "none"
        /\ lease' = [lease EXCEPT ![c] = [phase |-> "preparing", id |-> attempt.id]]
        /\ IF NativeAccepts(c) THEN NativeFence(c, attempt.id) ELSE UNCHANGED fence
        /\ Asks(c, "first", attempt.id, NativeAccepts(c))
  /\ UNCHANGED <<mainVars, alive, run, active, operation, used>>

\* The Extension's lease is the one Main means.
Matches(c) == active[c].phase # "none" /\ active[c].id = attempt.id
Holds(c) == lease[c].phase \in {"prepared", "committed"} /\ lease[c].id = attempt.id

TakeCommit(c) ==
  /\ Takes(c, "commit")
  /\ IF Holds(c) /\ ~Busy(c) /\ Matches(c)
     THEN Asks(c, "commit", attempt.id,
              ~active[c].native \/ fence[c][Native] = attempt.id)
     ELSE Fails(c)
  /\ UNCHANGED <<mainVars, alive, run, lease, active, operation, fence, used>>

\* What is released stays released, should another provider fail.
TakeRelease(c) ==
  /\ Takes(c, "release")
  /\ IF Holds(c) /\ ~Busy(c) /\ Matches(c)
     THEN /\ Asks(c, "release", attempt.id, active[c].native)
          /\ IF active[c].native THEN NativeFence(c, NoId) ELSE UNCHANGED fence
     ELSE Fails(c) /\ UNCHANGED fence
  /\ UNCHANGED <<mainVars, alive, run, lease, active, operation, used>>

-----------------------------------------------------------------------------
(* The child: the Extension and the outside provider                       *)

NotDone == UNCHANGED <<command, waiter, outbox>>

\* The command is over.  A waiter whose time is up hears nothing.
Over(c, ok, phase) ==
  /\ command' = [command EXCEPT ![c] = NoCommand]
  /\ waiter' = [waiter EXCEPT ![c] = FALSE]
  /\ IF waiter[c]
     THEN /\ Says(c, IF ok THEN "ok" ELSE "no")
          /\ lease' = [lease EXCEPT ![c] =
               IF phase = "none" THEN NoLease ELSE [@ EXCEPT !.phase = phase]]
     ELSE UNCHANGED <<outbox, lease>>

Keeps(c, a) == active' = [active EXCEPT ![c] = a]

\* A provider accepts a prepare when it is idle and not fenced, the rest when
\* it is fenced with that very identity.
Target(c) == IF command[c].stage = "previous" THEN active[c].id ELSE command[c].id
SubagentsAccept(c) ==
  IF command[c].stage \in {"first", "second"}
  THEN Subagents \notin operation[c] /\ fence[c][Subagents] = NoId
  ELSE fence[c][Subagents] = Target(c)
SubagentsAfter(c) ==
  CASE command[c].stage \in {"first", "second"} -> command[c].id
    [] command[c].stage = "commit" -> Target(c)
    [] OTHER -> NoId

\* Owners that accepted are released again, the native one at once.
\* Mutant: the native one is not.
LeftClosed(c, opened) == opened
Reopened(c, opened) ==
  IF command[c].native THEN [opened EXCEPT ![c][Native] = NoId] ELSE opened

\* prepareLease after its providers: all or nothing.
PrepareEnds(c, ok, opened) ==
  LET i == command[c].id
      native == command[c].native
  IN  CASE ok /\ native ->
             /\ Keeps(c, [phase |-> "prepared", id |-> i, native |-> TRUE])
             /\ fence' = opened
             /\ Over(c, TRUE, "prepared")
        [] ok /\ ~native ->
             /\ command' = [command EXCEPT ![c].stage = "partial"]
             /\ fence' = opened
             /\ UNCHANGED <<active, lease, waiter, outbox>>
        [] ~ok ->
             /\ fence' = Reopened(c, opened)
             /\ Over(c, FALSE, "none")
             /\ UNCHANGED active

\* What the Extension does with the answer of pi-subagents, or without one:
\* opened are the fences by then.
GoesOn(c, ok, silent, opened) ==
  LET i == command[c].id
  IN  CASE command[c].stage = "first" /\ ~ok ->
             /\ command' = [command EXCEPT ![c].stage = "second", ![c].slow = silent]
             /\ fence' = opened
             /\ UNCHANGED <<active, lease, waiter, outbox>>
        [] command[c].stage \in {"first", "second"} /\ (ok \/ command[c].stage = "second") ->
             PrepareEnds(c, ok, opened)
        [] command[c].stage = "partial" ->
             /\ Keeps(c, IF ok THEN NothingHeld
                          ELSE [phase |-> "prepared", id |-> i, native |-> FALSE])
             /\ fence' = opened
             /\ Over(c, FALSE, "none")
        [] command[c].stage = "previous" ->
             /\ Keeps(c, IF ok THEN NothingHeld ELSE [active[c] EXCEPT !.native = FALSE])
             /\ fence' = opened
             /\ Over(c, FALSE, "none")
        [] command[c].stage = "commit" ->
             LET both == ok /\ command[c].native
             IN  /\ Keeps(c, IF both THEN [active[c] EXCEPT !.phase = "committed"] ELSE active[c])
                 /\ fence' = opened
                 /\ Over(c, both, IF both THEN "committed" ELSE lease[c].phase)
        [] command[c].stage = "release" ->
             /\ Keeps(c, IF ok THEN NothingHeld ELSE [active[c] EXCEPT !.native = FALSE])
             /\ fence' = opened
             /\ Over(c, ok, IF ok THEN "none" ELSE lease[c].phase)

SubagentsReply(c) ==
  /\ Busy(c)
  /\ GoesOn(c, SubagentsAccept(c), FALSE,
            IF SubagentsAccept(c) THEN [fence EXCEPT ![c][Subagents] = SubagentsAfter(c)]
            ELSE fence)
  /\ UNCHANGED <<mainVars, inbox, alive, run, operation, used>>

\* No reply within the time the Extension waits.  The provider may have acted.
SubagentsSilent(c) ==
  /\ Happens("silence")
  /\ Busy(c)
  /\ \E acts \in {FALSE, SubagentsAccept(c)} :
       GoesOn(c, FALSE, TRUE,
              IF acts THEN [fence EXCEPT ![c][Subagents] = SubagentsAfter(c)] ELSE fence)
  /\ UNCHANGED <<mainVars, inbox, alive, run, operation>>

\* The Runtime's lease once a prepare is given up.  Mutant: it stays.
StillPreparing(c) == lease
GivenUp(c) == [lease EXCEPT ![c] = NoLease]

\* The Runtime waits 8 s, the Extension 4 s for each identity it tries at
\* pi-subagents: only a prepare whose first try met silence lasts that long.
WaiterTimesOut(c) ==
  /\ waiter[c] /\ command[c].slow
  /\ waiter' = [waiter EXCEPT ![c] = FALSE]
  /\ lease' = GivenUp(c)
  /\ Says(c, "no")
  /\ UNCHANGED <<mainVars, inbox, alive, run, command, active, operation, fence, used>>

-----------------------------------------------------------------------------
(* The child: what Pi and its Extensions do by themselves                  *)

\* NativeAgentLease.begin, and the same fence in pi-subagents.
OperationBegins(c, p) ==
  /\ Happens("operation")
  /\ alive[c] /\ p \notin operation[c] /\ fence[c][p] = NoId
  /\ operation' = [operation EXCEPT ![c] = @ \cup {p}]
  /\ UNCHANGED <<mainVars, inbox, outbox, alive, run, lease, waiter, command,
                 active, fence>>

\* The result of an operation may put Pi in a run of its own.
OperationEnds(c, p) ==
  /\ p \in operation[c]
  /\ operation' = [operation EXCEPT ![c] = @ \ {p}]
  /\ \/ UNCHANGED <<run, outbox>>
     \/ /\ ~run[c]
        /\ run' = [run EXCEPT ![c] = TRUE]
        /\ Says(c, "began")
  /\ UNCHANGED <<mainVars, inbox, alive, lease, waiter, command, active, fence, used>>

RunSettles(c) ==
  /\ run[c]
  /\ run' = [run EXCEPT ![c] = FALSE]
  /\ Says(c, "settled")
  /\ UNCHANGED <<mainVars, inbox, alive, lease, waiter, command, active,
                 operation, fence, used>>

\* What the end of a Runtime leaves of it.
Gone(cs) ==
  /\ alive' = [c \in Contexts |-> alive[c] /\ c \notin cs]
  /\ run' = [c \in Contexts |-> run[c] /\ c \notin cs]
  /\ lease' = [c \in Contexts |-> IF c \in cs THEN NoLease ELSE lease[c]]
  /\ waiter' = [c \in Contexts |-> waiter[c] /\ c \notin cs]
  /\ command' = [c \in Contexts |-> IF c \in cs THEN NoCommand ELSE command[c]]
  /\ active' = [c \in Contexts |-> IF c \in cs THEN NothingHeld ELSE active[c]]
  /\ operation' = [c \in Contexts |-> IF c \in cs THEN {} ELSE operation[c]]
  /\ fence' = [c \in Contexts |->
                 IF c \in cs THEN [p \in Provider |-> NoId] ELSE fence[c]]

TakeStop(c) ==
  /\ Takes(c, "stop")
  /\ \/ Gone({c}) /\ Says(c, "ok") /\ UNCHANGED used
     \/ /\ Happens("stopFault")
        /\ alive' = [alive EXCEPT ![c] = FALSE]
        /\ Says(c, "no")
        /\ UNCHANGED <<run, lease, waiter, command, active, operation, fence>>
  /\ UNCHANGED mainVars

\* The shared process exits: every context that Main holds has crashed, and
\* the call an attempt awaits is rejected, which ends the attempt: a stop it
\* awaits has succeeded, and a release of what the process held is no call.
Crash ==
  /\ Happens("crash")
  /\ \E c \in Contexts : alive[c]
  /\ Gone(Contexts)
  /\ inbox' = [c \in Contexts |-> <<>>]
  /\ outbox' = [c \in Contexts |-> <<>>]
  /\ status' = [c \in Contexts |->
                  IF ~Managed(c) \/ (attempt.stage = "stop" /\ attempt.context = c)
                  THEN "gone" ELSE "crashed"]
  /\ attempt' = NoAttempt
  /\ UNCHANGED <<foreground, uses, activating, candidates>>

-----------------------------------------------------------------------------
\* The contexts differ by nothing but the time of their last use.
Init ==
  /\ status = [c \in Contexts |-> "ready"]
  /\ foreground \in Contexts \cup {NoContext}
  /\ uses = CHOOSE s \in Orders : TRUE
  /\ activating = NoContext
  /\ candidates = <<>>
  /\ attempt = NoAttempt
  /\ inbox = [c \in Contexts |-> <<>>]
  /\ outbox = [c \in Contexts |-> <<>>]
  /\ alive = [c \in Contexts |-> TRUE]
  /\ run = [c \in Contexts |-> FALSE]
  /\ lease = [c \in Contexts |-> NoLease]
  /\ waiter = [c \in Contexts |-> FALSE]
  /\ command = [c \in Contexts |-> NoCommand]
  /\ active = [c \in Contexts |-> NothingHeld]
  /\ operation = [c \in Contexts |-> {}]
  /\ fence = [c \in Contexts |-> [p \in Provider |-> NoId]]
  /\ used = [k \in Event |-> 0]

Next ==
  \/ ActivateEnds \/ SweepBegins \/ TryNext \/ Crash
  \/ \E c \in Contexts :
       \/ Prompt(c) \/ HearOfRun(c) \/ ActivateBegins(c)
       \/ PrepareFailed(c) \/ Prepared(c) \/ CommitFailed(c) \/ Committed(c)
       \/ Stopped(c) \/ StopFailed(c) \/ Released(c)
       \/ TakePrompt(c) \/ TakePrepare(c) \/ TakeCommit(c) \/ TakeRelease(c)
       \/ TakeStop(c)
       \/ SubagentsReply(c) \/ SubagentsSilent(c) \/ WaiterTimesOut(c)
       \/ RunSettles(c)
       \/ \E p \in Provider : OperationBegins(c, p) \/ OperationEnds(c, p)

Spec == Init /\ [][Next]_vars

\* Promises, messages and timers are served, runs of Pi end, and the sweep
\* timer of host-application.ts ticks.
Fairness ==
  /\ WF_vars(ActivateEnds) /\ WF_vars(SweepBegins) /\ WF_vars(TryNext)
  /\ \A c \in Contexts :
       /\ WF_vars(HearOfRun(c))
       /\ WF_vars(PrepareFailed(c) \/ Prepared(c) \/ CommitFailed(c) \/ Committed(c)
                  \/ Stopped(c) \/ StopFailed(c) \/ Released(c))
       /\ WF_vars(TakePrompt(c) \/ TakePrepare(c) \/ TakeCommit(c)
                  \/ TakeRelease(c) \/ TakeStop(c))
       /\ WF_vars(SubagentsReply(c) \/ SubagentsSilent(c))
       /\ WF_vars(RunSettles(c))

FairSpec == Spec /\ Fairness

-----------------------------------------------------------------------------
(* Properties                                                              *)

\* What hibernation stops does nothing and can begin nothing: no provider has
\* an operation and each is fenced with the attempt's identity until the
\* Runtime is gone, and Pi is idle.  Main's second look and the fences cover
\* for each other: a run of Pi's own may begin after the core was found idle
\* and before pi-subagents is fenced.  One hole is left: a prompt the fence
\* refuses makes the context ready (workbench-kernel.ts:2705) though such a run
\* goes on.
HibernatesIdle ==
  \A c \in Contexts :
    attempt.stage = "stop" /\ attempt.context = c /\ alive[c] =>
      /\ operation[c] = {}
      /\ \A p \in Provider : fence[c][p] = attempt.id
      /\ run[c] => used["prompt"] > 0

\* The context in the foreground is never being stopped by hibernation, nor
\* stopped: activation and stop exclude each other by the launch gate.
ForegroundStays ==
  foreground # NoContext => status[foreground] \notin {"stopping", "gone"}

\* A fence of the native agents can be opened again: the Extension holds a
\* lease with that identity that names the provider, or is at work on it.
NativeFenceIsKnown ==
  \A c \in Contexts :
    fence[c][Native] # NoId =>
      \/ active[c].id = fence[c][Native] /\ active[c].native
      \/ command[c].id = fence[c][Native] /\ command[c].native

\* While no attempt is at work on a Runtime, it refuses prompts only under a
\* lease whose release pi-subagents left unfinished, never for a prepare that
\* Main has given up.
NoLeaseLeftBehind ==
  \A c \in Contexts :
    Refuses(c) /\ alive[c] /\ attempt.context # c =>
      lease[c].phase # "preparing" /\ used["silence"] > 0

\* A sweep ends, whatever the providers do.
SweepEnds == (candidates # <<>> \/ attempt # NoAttempt) ~>
             (candidates = <<>> /\ attempt = NoAttempt)

\* A fence the Runtime knows nothing of, from a prepare Main gave up, opens if
\* sweeps go on trying that Runtime.
Forgotten(c) == lease[c].phase = "none" /\ fence[c][Native] # NoId
ForgottenFenceOpens ==
  \A c \in Contexts :
    []<>(attempt.context = c) => [](Forgotten(c) => <>~Forgotten(c))

\* index.ts:337, "A failed rollback keeps the exact prior lease so a later
\* sweep can retry restoration", and runtime-hibernation.ts:292, "a later sweep
\* retries".
LaterSweepRestores ==
  \A c \in Contexts : []<>(attempt.context = c) => [](Refuses(c) => <>~Refuses(c))
=============================================================================
