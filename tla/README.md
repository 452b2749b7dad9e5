# Pi GUI: specifications, model checking and proofs

TLA+ specifications of Pi GUI's concurrent core, translated from the TypeScript
under `src/src` (paths below are relative to `src/src` unless they start with
`docs` or `extensions`). TLC checks small instances; TLAPS proves theorems for
every value of the constants. `PROJECT.json` maps each definition to the lines
it models and lists runs, mutants, findings, hazards and theorems.

## 1. The system

```
 Renderer (React)  --typed IPC / SSE+HTTP / SSH-->  Workbench Kernel (Main or Host)
   revision barrier  <--events, snapshots--          forwarder, RuntimeContext per Session
                                                     SessionCollaboration
                                                         |  PiRuntimeProcessHost
                                                         |  Node IPC, both ways
                                                     Pi child process (one for all Sessions)
                                                       SharedPiHost / AgentSession / extensions
```

| Component | State it keeps | Operations | Interacts with | Hard behaviour |
|---|---|---|---|---|
| Kernel state delivery: `main/kernel/kernel-event-forwarder.ts`, `renderer/src/kernel/kernel-revision-barrier.ts` | batch and timer; applied revision, current state, queued patches, frame, waiters | publish, flush, handle event, adopt snapshot, frame, wait for an acknowledgement, resync, dispose | Kernel emits, transport carries, React shows | lost batches, snapshots racing events, hidden windows, queue cap, timers |
| Session collaboration: `main/subagent/session-collaboration.ts`, `main/kernel/session-collaboration-runtime.ts` | deliveries, queues, the running delivery, who is to be told, drains in progress | send, spawn, cancel, drain, deliver, settled, interrupted, stop | Kernel event handlers, Pi over an ordered channel | awaits between check and use, crash and stop in the middle, microtasks, re-entrancy |
| Workbench Kernel: `main/kernel/workbench-kernel.ts` | contexts, launch gate, selection, provisional Sessions | activate, prompt, abort, stop, archive, fork, project change | everything | serialization of launches against stop, provisional commit |
| Pi Runtime process: `main/runtime/pi-runtime-process-host.ts`, `pi-runtime-host-server.ts` | process record, pending requests, start times, phase per Session | acquire, request, start, stop, exit, dispose | child process by Node IPC | start limit, exit with work in flight, readiness timer |
| Runtime hibernation: `main/kernel/runtime-hibernation.ts`, `main/runtime/native-agent-lease.ts`, `runtime-quiescence.ts` | sweep in flight, lease tokens | sweep, prepare, commit, release | Kernel gate, child bridge | work that arrives between the checks, failed release |
| Shared Pi host, quiescence extension: `main/runtime/shared-pi-host.ts`, `extensions/pi-gui-runtime-quiescence` | Sessions in the child, lease provider | start, stop, prepare/commit/release | Pi SDK | dispose against start, partial prepares |
| Native subagents: `main/subagent/native-subagent-runtime.ts`, `main/runtime/native-agent-extension.ts` | tasks of each Session object, their drivers, the one lease | start, continue, stop, abort, report, dispose | model, Main, hibernation | nested waits, stop against report, continue against dispose |
| Restart continuation: `main/project/project-store.ts`, parts of `workbench-kernel.ts` and `main/host/host-application.ts` | candidates on disk, bound to a boot; candidates the Kernel holds | capture, store, load, recover, claim, complete | Kernel launch, shutdown of the host | crash between claim and send, failing writes, Sessions launched meanwhile |
| Desktop gateway, Windows session, Web gateway, WSL pipe | devices, the one controller, connections | pair, open stream, command, reconnect | Renderer of another machine | one controller, stale commands |
| Git, attachments, project store, providers, notifications | files and caches | reads and fenced mutations | file system, git | stale snapshots; mostly I/O |

What makes each correct, in a sentence. *State delivery*: the Renderer shows a
prefix of the Kernel's history that only grows, and a mutation that is reported
settled is in it. *Collaboration*: each delivery is handed over at most once,
to a free target, gets the result of its own run or is explicitly cancelled,
failed or interrupted, and its sender hears of it at most once. *Process*: no
more starts than allowed, no request left pending by an exit. *Hibernation*: no
busy Session is stopped, and no Session stays closed to work. *Native
subagents*: every task at work has an owner that lives and holds the lease, and
what stops tasks never waits for itself. *Launches*: the foreground and the keys
never refer to a context that is gone, what shows ready lives, and a stop of
everything leaves no Runtime behind; at most one context per Session, which the
code does not keep. *Restart continuation*: sent at most once, by the
next boot, and not over what the user has asked for since.
*Gateway*: only the current controller's commands run.

## 2. Modules

| Module | Role |
|---|---|
| `KernelReplica` | abstract: a published history and a shown prefix that only advances |
| `KernelStateSync` | forwarder, transport, snapshots, revision barrier; refines `KernelReplica` |
| `KernelStateSyncProofs` | its invariants, action property and refinement, proved |
| `SessionCollaboration` | coordinator, Kernel side, channels to Pi, composed in one module |
| `SessionCollaborationBooks` | the coordinator's operations as relations between values, with a lemma on what each keeps |
| `SessionCollaborationProofs` | bookkeeping, at-most-once report, no replay; and, with named premises, whose answer, prompt and abort, and no lost wake-up, proved |
| `SharedPiHost` | the Pi child: server, host, publication of Sessions under their files |
| `PiRuntimeProcess` | Main's owner of that child and its Session handles, composed with `SharedPiHost` (EXTENDS) |
| `PiRuntimeProcessProofs` | of both: types, start limit, pending requests, ownership of files, clean exit, told once, stopped is released, proved |
| `RuntimeHibernation` | sweep of Main, lease of each Runtime, quiescence Extension and its providers |
| `RuntimeHibernationProofs` | the invariants of hibernation, proved |
| `NativeSubagents` | tasks of a Session, nested, with the lease that fences them |
| `NativeSubagentsProofs` | lease, ownership, quiet aborts and that nobody waits for itself, proved |
| `RestartContinuation` | shutdown, stored candidates, startup and launch over several boots |
| `RestartContinuationProofs` | continued once, claimable, not overtaken, proved |
| `WorkbenchLaunch` | contexts of the Kernel: launch gate, foreground and background launch, stops, exits, stop of everything |
| `WorkbenchLaunchProofs` | selection, exits heard, nothing left by a stop of everything, proved |
| `MC...` | instances for TLC: bounds of the outside events, symmetry |

### KernelStateSync

The mutation that takes the Kernel to revision `r` is the number `r`: a full
state of revision `r` contains `1..r`, a patch adds `{r}`, and `view` is the set
the shown state contains, so that "the right state" is `view = 1..applied`.

| Variable | Code |
|---|---|
| `revision`, `outbox`, `timer` | `stateRevision` of the Kernel; `pending` and `timer` of the forwarder |
| `channel`, `inbox` | messages in transit; the rest of the message `handleEvent` works on |
| `fetch` | the snapshot request of start-up and the one of `resync()`, with the number of messages ahead of the reply |
| `applied`, `view`, `pending`, `frame`, `waiters`, `disposed` | `appliedRevision`, `currentState`, `pendingPatches`, `frameHandle`, `waiters`, `disposed` |

`EmitState`/`EmitPatch`/`EmitDomain`/`FlushTimer` are the Kernel and forwarder;
`AnswerFetch` is `getSnapshot`; `Receive`/`HandleNext` are `handleEvent` (a
batch is handled without anything in between); `Frame` is `flushPatches`;
`FetchArrives`/`FetchFails` end a request; `ReceiveAck`/`WaitTimeout` are
`waitForAck` and its timer; `Dispose` is `dispose`. A failed snapshot request
and the 2 s limit on it are one fault, `FetchFails`. `Ordered` says whether a
snapshot reply shares the channel of the events (Electron IPC, WSL pipe) or may
overtake or trail them (SSE with separate HTTP replies: Web remote and Windows
client).

### SessionCollaboration

| Variable | Code |
|---|---|
| `delivery`, `records` | every `AgentDelivery` ever made; the ids in the Map `records` |
| `queue`, `running`, `notify`, `draining` | the fields of that name |
| `due` | Sessions with a drain scheduled by `queueMicrotask` |
| `ctx`, `owner`, `naming` | status of the `RuntimeContext`; for whom a spawn is made; the spawn that awaits a title or a model for its new Session |
| `runOpen`, `stopAll` | `collaborationRunStartIndex` is set; `stopAllRequested` |
| `commands`, `events`, `pi` | the two ordered channels of a Session and the run Pi is in |
| `life`, `used` | how often each Session was interrupted (history); bounds on outside events. The fields `life`, `since` and `stranded` of a delivery are history too |

The Kernel is one event loop, so a handler together with the continuations it
runs is one action, and scheduled drains run before the next event (`Idle`).
The awaits are where actions end: `Spawn`/`SpawnDone`/`SpawnFails`,
`SpawnDone`/`SpawnNamed`/`NamingFails`,
`Drain`/`LaunchDone`/`LaunchFails`, `Drain`/`HandleAccepted`/`HandleRejected`,
`Cancel`/`HandleAbortFailed`, `Stop`/`StopDone`/`StopFails`,
`BeginStopAll`/`EndStopAll`. The `Pi...` actions are the child: it reads commands
and writes events in order, refuses a prompt while it streams, and may start a
run of its own when a background task reports. Messages carry which run they
belong to only to state properties: the model, as the code, decides by
`runOpen` and `running`.

A spawn looks at its owner for the last time in `SpawnDone`. It then sends its new
Session a title and a model, if it was given any, and awaits each answer
(`session-collaboration-runtime.ts:180` and `:188`); `SpawnNamed` records the task
behind them and `NamingFails` is the `catch`. The two awaits look at nothing and are
one. It may end at any time, also while the new Session is being stopped: what a
Runtime answers before it exits is still delivered. A crash of the new Session
rejects the pending request, so the `catch` stops its context (`Crash`).

Abstractions: the kinds `task` and `message` are one; an answer that contains an
error is not told from one that does not; of texts, titles and models only the wait
is kept.
Stop-all has a fixed order at its end: a launch that it refused has failed
before admission opens again.

### SharedPiHost and PiRuntimeProcess

The child (`pi-runtime-host-server.ts`, `shared-pi-host.ts`):

| Variable | Code |
|---|---|
| `child`, `clean` | the process, and whether it left with exit code 0 |
| `hostStatus`, `disposing`, `failed` | `status` of the `SharedPiHost`; what its `dispose()` awaits and whether one of it failed |
| `served`, `handles` | the Runtimes the server knows; those the host knows |
| `cphase`, `held`, `driver` | `phase` and `driver` of each `SharedPiRuntime`; whether that Session object lives, held or not |
| `published` | the Runtime that owns a canonical session file |
| `cStart`, `cStop`, `cancelled`, `asked` | where `start()` and `stop()` are; `stopRequested`; Main awaits that stop |
| `requests`, `messages` | the two directions of Node IPC |

Main (`pi-runtime-process-host.ts`):

| Variable | Code |
|---|---|
| `generation`, `current`, `ready`, `signal` | the process record in `current`, its readiness promise, the signal it was sent |
| `starts`, `clock`, `spawned` | `startTimes`; time; every start ever made (history) |
| `pending`, `dispose` | requests without an answer; progress of `dispose()` |
| `phase`, `record`, `registered` | `phase` of each `PiProcessRuntime`, its process, whether the process knows it |
| `startStep`, `stopStep`, `told` | where `start()` and `stop()` are; how often its listeners heard `process-exit` |

Both sides are event loops: what a settled promise resumes runs before the next
event (`MainIdle`, `ChildIdle`). `CreateDone` decides between publishing,
discarding (the file has an owner, the host disposes) and cancelling (a stop came
meanwhile); each of the three disposes differ in who holds the driver, which is
what `OneOwner` and `CleanExit` depend on. A Runtime handle is used for one start, as the
Kernel makes a new one for every launch.

### RuntimeHibernation

| Variable | Code |
|---|---|
| `status`, `foreground`, `uses`, `activating` | Runtime status of each context; the active one; order of `lastWarmUseAt`; who holds the launch gate |
| `candidates`, `attempt` | rest of the sweep; the one attempt in progress, its identity and await |
| `inbox`, `outbox` | the calls and answers of each Runtime, in order |
| `alive`, `run`, `lease`, `waiter` | `phase`, a run of Pi, `hibernateLease` and the pending Extension command of a `SharedPiRuntime` |
| `command`, `active` | the lease command the Extension works on; its `activeLease` |
| `operation`, `fence` | per provider: an operation in progress; the identity it is fenced with |

Main looks at the context four times (candidate, after prepare, after commit,
behind the gate), and the fences of the providers cover what may change between
the looks. Notes on the translation:

- A release that fails is tried twice, and where it is called inside the `try`
  block the `catch` block tries twice more: at most four calls.
- The Runtime waits 8 s for the Extension, which waits 4 s for each identity it
  tries at pi-subagents: only a prepare whose first try met silence can last that
  long (`slow`).
- pi-subagents is outside the repository. It may act without replying; whether
  it had accepted is unknown to the Extension, as in the code.
- A new identity differs from every one the Runtime still knows; the code draws
  random ones.
- An attempt on a crashed context ends at its first check and changes nothing;
  it is folded into `TryNext`.
- The host's check for activity and the fence of the native agents are one step
  (`TakePrepare`), so nothing begins between the two; and the native lease does not
  hear the prepare that is broadcast for pi-subagents. What could happen in that very
  narrow window is not modelled.

### NativeSubagents

| Variable | Code |
|---|---|
| `owner` | the `NativeSubagentRuntime` in whose `tasks` a task is |
| `stage`, `abort` | where `run()` of a task is, idle while `completion` is null; `abortRequested` |
| `driver`, `run` | the Session objects that live; what the model of each works on |
| `asked` | `start()` and `continueTask()` that await the agent's definition |
| `aborting`, `waits` | progress of `abortTask()`; the tasks `abortAll()` awaits |
| `dispose` | progress of `dispose()` of a Session object |
| `leases`, `fenced` | `operations` and `identity` of the `NativeAgentLease` all of them share |
| `continues`, `strays` | bound on continues; history for the hole in `WorkIsOwned` |

A node is the Session or a task: both own tasks, run a model, are aborted and
disposed in the same way. `AskStart`/`StartDone` and `AskContinue`/`ContinueDone`
are the two sides of the await in `start()` and `continueTask()`; `Created` to
`TaskCloses` follow `run()` and its completion; `AbortProceeds` is `abortTask()`
after `session.abort()`, `DisposeProceeds`, `TaskCloses`, `RootSettles` and
`RootCloses` are `dispose()`. A report that comes while the owner is in a run
joins that run. A second stop of a task joins the first.

### RestartContinuation

| Variable | Code |
|---|---|
| `file`, `auto` | the `RestartContinuationFile`, `bootId` null being 0; the stored setting `autoContinueInterruptedTasks` |
| `phase`, `boot` | where the process is; its `restartContinuationBootId`, numbered by the loads |
| `held`, `todo` | `restartContinuations` of the Kernel; the rest of the loop in `resumeInterruptedSessions()` |
| `launch` | `launchOperation`, with the candidate it works for |
| `runs`, `captured` | the Runtime of each Session; what `stopKernel()` keeps until it stores it |
| `sent`, `overtaken`, `background` | history: prompts sent for a candidate; candidates whose Session ran in this boot while they were held or claimed; those of them whose Session an agent had launched |

`Load` is the start of the host up to the Kernel, `Visit` one turn of the recovery
loop, `Claim` to `Complete` the stations of `launch()` between its awaits, which
a foreground launch by the user (`Open`) passes as well. `Shutdown`, `Stopped` and
`Store` are `stopKernel()`. Every write may fail and leave the file as it was; a
startup or shutdown that throws ends the process, which is `Crash`. The user
cannot act before recovery is over, as the handlers of the IPC are registered
after it; agents can, because a resumed Session may already send to another.
`Deliver` is such a message, which launches its target in the background without a claim.

### WorkbenchLaunch

| Variable | Code |
|---|---|
| `managed`, `keyed`, `active` | `contexts`, `contextBySessionKey`, `activeContext` |
| `shown` | the Session `currentState` names when no context is active |
| `gate` | `launchOperation`: which operation holds it, where it is, its Session, its context, the context to return to |
| `bg` | `collaborationLaunches`: where the background launch of a Session is, its context |
| `closing`, `stopAll`, `stopper` | `shutdownRequested`, `stopAllRequested`, progress of `stop()` |
| `status`, `requested`, `committing`, `names`, `file` | fields of a `RuntimeContext`: status in its state, `stopRequested`, `launchCommitting`, Session its state names, Session file it was created for |
| `runtime`, `stops` | its Runtime as Main knows it; the calls of `stopContext` that await its stop, each with the `wasActive` it read before |
| `interrupted` | history: for which Session `coordinator.interrupted` was called at the end of which context |

The operations of the user and hibernation pass one gate; the launch for a
delivery (`launchCollaborationContext`) does not, and `stop()` ends all of them. Each
is cut at its awaits: `Activate` to `Validated`, `Reload` to `ReloadStops`, the stop
(`StopCalled`, `StopSettles`), then `Trusted` or `Replaces`, which create the context,
and `Started`, `Answered`, `Ready` or `LaunchFails` and `CleanedUp`. The background
launch is `Deliver`, `BgTrusted`, `BgStarted`, `BgReady` or `BgRaises` and `BgOver`;
`stop()` is `StopBegins` to `StopEnds`. A promise that has settled resumes before
the next event: those continuations are `Continue`, the rest is `Event`, which needs
`Calm`. Of the dozen awaits of a launch between `start` and the commit those that
look at the same things are one. Any await may fail, a Runtime may exit in any of
them, alone or with all others, and a stop may fail.

A context keeps the state that was on screen when it was created until its launch
commits, so `names` is at first the Session of before; `InterruptsItsOwn` is about
that. The child refuses a second Runtime for a file (`MayStart`), which is `OneOwner`
of `SharedPiHost`.

## 3. Runs, bounds and results

| Run | Result | Instance |
|---|---|---|
| `delivery_safety` | holds, 834,019 states | 3 revisions, batch of 3, queue of 2, one acknowledgement, one lost message, one failed fetch, one broken patch, unordered replies |
| `delivery_remote` | violated | unordered replies, nothing lost |
| `delivery_live` | holds, 522,046 states | ordered replies, batch and queue of 2 and 1, one loss, one failed fetch, one acknowledgement, frames not forced |
| `collab_safety` | holds, 539,011 states | two Sessions, two requests, room for 2 records, one disturbance of any kind but the user's, and a failing stop |
| `collab_quiet` | holds, 223,276 states | one Session and one to be spawned, two requests, one disturbance among user, failed launch, crash and stop |
| `process_safety` | holds, 523,327 states | two Runtimes, two files, one start per window of 2, two pending requests, clock to 2, one outside event of each kind; symmetry of Runtimes and of files |
| `process_live` | holds, 15,027 states | one Runtime, one file, one pending request, the same outside events and a second stop |
| `native_tasks` | holds, 79,857 states | two tasks, at most two continues; nothing else is bounded |
| `hibernation` | holds, 200,092 states | two contexts, three identities, one prompt, operation, activation, failing stop and crash, two silences |
| `launch` | holds, 952,715 states | three contexts, each created at most once, for two Sessions; nothing else is bounded; symmetry of both |
| `launch_interrupt` | violated | the same instance, without symmetry |
| `restart` | holds, 103,321 states | two Sessions, three boots; nothing else is bounded; symmetry of Sessions |

Why these bounds reach the interesting cases. Three revisions make a hole with
something before and behind it; a batch of 3 is flushed by size, by timer and by
a domain event; a queue of 1 or 2 overflows. Two Sessions can each be sender and
target of the other, a completion of the first delivery can queue behind a
second one, and room for 2 records makes eviction and the full table happen
within the four deliveries that two requests and their completions can make;
`MaxDeliveries`, which bounds the message ids, is no smaller than that. Two
Runtimes compete for one file, for the one start of a window and for the last
pending request; a clock to 2 lets a window of 2 pass, so that a second process
is started after a crash. Two contexts are the least a sweep touches, as one
stays warm; with two silences both the first and the second identity can go
unanswered, and with three identities an attempt can follow on one that left
a lease and one that left a fence. Two tasks of a Session are siblings or nested,
and two continues can be asked for one task; prompts, stops, aborts, fallbacks,
fences, disposals and crashes come without limit. Three boots are a shutdown, the
boot that continues and one more that must leave the file alone; of two Sessions
one can launch the other in the background. Three contexts are two for one Session
and one of another to be in the foreground before, or to be launched beside them. `Limit` bounds how often each outside event
happens, `Budget` how many kinds of disturbance a run combines; the theorems about
the collaboration hold for every combination. Deadlock is not
checked: the bounded environment runs out of events, and an idle application
stops. The symmetric runs state no liveness.

What each property says is written above it in the module. The mutants in
`PROJECT.json` are defined beside the operator they change, and each breaks its
property under the run's configuration.

### What the violations show

Two runs are expected to fail:

1. `delivery_remote`: the queue overflows and a recovery starts; the snapshot is
   taken, then one more patch arrives before the snapshot does. It is ahead of
   the queue, so `queuePatch` asks for a recovery, which joins the one in flight,
   and drops it. If the Kernel then stays quiet the window stays one revision
   behind. With ordered replies this cannot happen (`delivery_live`).
2. `launch_interrupt`: a foreground launch starts from the state on screen. If its
   Runtime ends before the commit, `coordinator.interrupted` is called with the
   Session that was active before, whose deliveries are interrupted although its
   Runtime works.

Four more properties that the code does not keep are stated in the modules and
are outside the runs; TLC shows each with the configuration named
(`tlc -config X.cfg M`):

3. `CancelledIsNotHanded` (`SessionCollaborationCancel.cfg`,
   `MCSessionCollaboration`): a cancel during a background launch does not reach the
   run, and the hand-over does not look at the delivery's status again
   (`main/kernel/session-collaboration-runtime.ts:295`).
4. `LaterSweepRestores` (`RuntimeHibernationRelease.cfg`, `MCRuntimeHibernation`):
   pi-subagents does not answer a release; the Runtime keeps its `hibernateLease`,
   answers every later prepare with `fenced` before the Extension, which alone could
   finish the release, hears of it, and refuses prompts until it is stopped. A comment
   (`extensions/pi-gui-runtime-quiescence/src/index.ts:337`) says that the lease is
   kept "so a later sweep can retry restoration".
5. `ReadyIsReused` (`WorkbenchLaunchReuse.cfg`, `MCWorkbenchLaunch`): a Session is
   activated while it is launched in the background. `activateSession` looks for a
   context under the key before it awaits the trust, and whoever registers later takes
   the key. The child refuses one of the two Runtimes, and the context that is ready
   may be the one without the key: it cannot be found again, and the next activation
   meets the crashed one.
6. `StoppedSenderIsNeverTold` (`SessionCollaborationSpawn.cfg`,
   `MCSessionCollaboration`): the owner of a spawn is looked at once behind the launch
   (`main/kernel/session-collaboration-runtime.ts:174`), and the task is recorded behind
   the awaits of a title and a model. An owner stopped in between is interrupted before
   the delivery and its entry in `notify` exist. The task runs, its completion is queued
   for the owner, and the drain starts the owner's Runtime again; a comment
   (`main/subagent/session-collaboration.ts:117`) says "Do not restart the source or
   report work owned by a stopped target". No fault is needed for it.

The last one is why three properties of `collab_quiet` name a hole, each as narrow as
TLC and the proofs allow. `StoppedSenderIsLeftAlone` lets a completion be about a
delivery whose source was stopped between the last look at it and the recording
(`Overlooked`), and every later stop still counts. `NoLostWakeup` and `EachConcludes`
leave out what was recorded too late for the drain to take it (`stranded`): the task of
a spawn whose new Session was being stopped at that moment, and the completion for an
overlooked owner that was being stopped. Nobody hands it over until something else
wakes that Session.

`collab_quiet` leaves out runs Pi starts by itself, refused prompts and failing
aborts. With them its properties do not hold, for the code as for the model: the
first `agent_settled` closes a delivery with the answer of another run; a refused
user prompt frees the Session without a drain; and the failure path of a cancel
restores a notification that a stop of the sender removed. Those events are all
in `collab_safety`, which checks the bookkeeping. The theorems of section 4 say which
event ends which of the properties, and that nothing else does. Deliveries queued behind a
launch survive a stop of everything. A cancelled delivery can still be handed
over in `collab_quiet`; no property of that run excludes it.

`HibernatesIdle` says "Pi is idle" only if no prompt was sent: a prompt that the
fence refuses makes the context ready (`main/kernel/workbench-kernel.ts:2705`)
although a run Pi began by itself goes on, and the attempt that commits next stops it.

`WorkIsOwned` leaves one hole, which `strays` names exactly: `continueTask` looks
at `disposed` only before it awaits the definition, so a continue of Main that
meets a disposal or a change of the session file launches a task that no Session
object owns. `QuietWhileAborting` leaves one as well: after a switch to a
fallback model the task is prompted again although it was stopped meanwhile.

`NotOvertaken` leaves one hole, which `background` names: when recovery passed a
candidate over, an agent can still launch its Session. `launchCollaborationContext`
makes no claim, so the candidate stays held, and if the Session is stopped and
opened again in the same boot it is told to continue what it was doing before the
restart, over the work it has done since.

No property is stated about a start that an extension of its own Session cancels
and whose dispose fails: the Session stays published while the Runtime no longer
holds its driver, and a stop goes to `releaseUnpublishedRuntime`, which throws for
a published Runtime.

### Fairness

`KernelStateSync`: weak fairness of the forwarder's timer, the transport, the
handling of a received message, the answers to snapshot requests and the waiters'
timers. Browsers stop animation frames of hidden windows, so `Frame` is fair only
in `VisibleSpec`; in `HiddenSpec` its fairness is a premise of
`VisibleWindowCatchesUp`, with that of snapshot requests which succeed, and
`WaiterSettles` goes without. Losses, faults and new mutations are never forced.
`SessionCollaboration`: weak fairness of the Kernel's own continuations and
handlers, of a stop that was begun, of Pi reading its commands, and of the end of
a run of Pi (a model answers or its request fails). Nothing the user or an agent
does is fair. Fairness is stated once for all of a Session's continuations, handlers
and stops together, and once for all steps of its Pi: the event loop serves what is
ready, and which of it comes first is left open. `EachConcludes` excepts a target whose
Runtime crashed: it stays crashed until a user resumes it, and what is queued for it
waits, also the completion for an owner that crashed while it spawned (`OwnerWaits`,
as the code, accepts it). It excepts what is stranded, as above.
`PiRuntimeProcess`: Main handles what it received and its timers fire; a process
sent SIGKILL dies. The child may hang: that it goes on is no fairness of the
specification but the premise `ChildWorks` of the second part of `CallsEnd`, that
starts and stops end; that a dispose ends, and `FailureIsTold`, hold without it. `RuntimeHibernation`: promises, messages and
timers are served, runs of Pi end, and the sweep timer ticks; work, prompts and
activations are never forced. `ForgottenFenceOpens` has the premise that sweeps
keep trying that context: a user may keep it in the foreground forever.
`RestartContinuation` and `WorkbenchLaunch` state safety only. `NativeSubagents` states no fairness: that
nobody waits for himself is the invariant `NobodyWaitsForever`, by which some step
of the child has its guards true (`CanGoOn`) whenever a task is at work or an abort
or a disposal is under way; `EveryHandlerReturns` says that those guards are the
whole of what the steps need.

## 4. Proofs

`KernelStateSyncProofs` proves, for all values of the constants under the named
assumptions (`BoundsAreNatural`, `BatchHoldsTwo`, `PendingIsPositive`,
`OrderedIsBoolean`): `TypesHold`, `ViewIsAlwaysPrefix`, `SettledIsShown`,
`NeverRegresses`, `DomainEventsAreBarriers` and `DeliveryImplementsReplica`.
`Waiters` may be any set. The type invariants, `NoRegress` and, below, `DisposedIsGone` and
`AwaitedIsPending` are proved and left out of the runs.

The argument. `ViewIsPrefix` is not inductive: a frame adds the queued patches
to the shown set, so the queue must lie ahead of the applied revision
(`PendingIsAhead`) and have no hole (checked by the code, `RunFrom`). That an
acknowledged mutation is shown needs that a resolved wait has been applied
(`SettledMeansApplied`) and that `applied` never falls. So the invariant is

    IInv == TypeOK /\ ViewIsPrefix /\ PendingIsAhead /\ SettledMeansApplied

and `Inductive` shows `Spec => []IInv`. The types grow with `revision`; the lemma
`RevisionGrows` takes them across a step that publishes. The Kernel's and the
Renderer's variables have lemmas of their own, and each action of `Next` has one
step. `NoRegress` follows from the effect of the steps that move `applied`.
`DomainEventIsBarrier` has its own invariant: `Fenced(channel, outbox)` is
inductive together with the types, because no revision known anywhere exceeds
`revision` and a domain event is sent only behind a flush. The refinement maps `published`,
`shown` and `contents` to `revision`, `applied` and `view`: a publication is `Publish`, a step that moves `applied` is `Advance`
(its set is the prefix, by the invariant), and every other step stutters.

`SessionCollaborationProofs` proves, for any set of Sessions and any bounds under
`BoundIsPositive` and `CapacityIsPositive`: `TypesHold`, `BooksAreKept`,
`ReportsOnce` and `ReplaysNothing`, all from `Inductive`, `Spec => []IInv`.

The argument. A handler of the coordinator often concludes one delivery and
enqueues another in the same step (a settlement and its completion notice), so
its effect is not one assignment. `SessionCollaborationBooks` states each
operation as a relation between values (`Concludes`, `Enqueues`, `Releases`,
`Interrupts`, `Drains`, `Cancels`, `Revives`) and proves that each keeps
`Coordinated`, the relation that says the books are in order; a handler is then
followed through its intermediate values. `Coordinated` strengthens `BooksAgree`
and `ReportedOnce` with what makes them inductive:

- only made deliveries are remembered, at most `Capacity` of them;
- whoever is in `notify` asked to be told, is a message and not a notice, and its
  delivery is still open;
- a delivery that was reported is final and no target works on it.

The rest of `IInv` is types and `Named`: a spawn that awaits a title or a model has a
new Session that is up and an owner that was there, so its record is well-formed
whenever the await ends. A request is recorded by `Send` or behind a spawn; `Submission`
is what both do, and `LookedAt` says when its source was looked at.

The last part is what a failed abort needs. It puts a cancelled delivery back to
running, so "final" would not be stable but for the check that the target still
works on it. The channels of a Session say "told" only of deliveries whose sender
asked (`SaidCommand`, `SaidEvent`), so the abort's failure adds no other to
`notify`. `ReplaysNothing` follows from the relation `Forward`, which every step
satisfies. That a cancel removes exactly the chosen ids from a queue (`Without`)
is an induction over the queue's length; it is done by minimal counterexample,
`LeastNat`, as the induction theorems of the library cannot be instantiated.

The safety properties of `collab_quiet` are proved with the events they do not
survive as premises. A premise is about the past only, through the history counters
`used`: the property holds in every state before the first such event, whatever else
happened in any number and combination.

| Theorem | Property | Holds until |
|---|---|---|
| `AnswersItsRun` | `ResultIsOwn` | Pi starts a run of its own (`NoOwn`) |
| `PromptsWhenFree` | `BusyGetsNoPrompt` | the same |
| `AbortsItsRun` | `AbortHitsItsRun` | the same |
| `StoppedStayStopped` | `StoppedSenderIsLeftAlone`, with its hole | an abort of a cancel fails (`NoAbortFault`) |
| `WakesUp` | `NoLostWakeup`, with its hole | `Undisturbed` ends: an abort fails, a Session hibernates, everything is stopped, or both the user did something and Pi ran or refused of its own accord |

No premise can be left out: with two requests and the event in question allowed once
(a failed abort together with one stop), TLC finds each property violated. The
invariants behind them:

- `Stages` ties the status of a context to `running`, `draining` and its channels: a
  Session without a Runtime has empty channels, and one being launched has in hand the
  delivery it is launched for.
- `Flights`: each abort on its way to Pi, and each report that one failed on its way
  back, names a cancelled delivery of that target, and no two name the same.
- `Lines`, for every Session, is about one turn. `OneTurn`: at most one prompt, and none
  while Pi runs or the end of a run is unread. `AcceptedRuns`: an acceptance belongs to
  a run that goes on, or whose end is behind it. `AbortsFollow`: an abort comes behind
  the prompt of its run or while it runs. `TurnIsMine`: in a context that runs, this
  turn is that of `running` if `runOpen`, and the user's if not, so the end that
  `settled` reads is its own. `StillHanded`: until the prompt is taken, its drain is
  not over. `OwnTurns` is `NoOwn => Lines /\ ResultIsOwn`, inductive with the first two.
- `Evolves` abstracts every step but a failed abort to what it does to the table: a
  delivery is new, keeps its result, or takes that of the end being read
  (`TakesAnswer`). `ResultIsOwn` and the lives in `Calm` are kept because of it,
  without a case for each action.
- `Calm`: no failed abort is on its way, whoever is to be told of a delivery is in the
  life in which it was recorded (`Loyal`), and a completion belongs to that life, which
  is the one that asked unless the stop came while a spawn awaited a title or a model
  (`StoppedSenderIsLeftAlone`). A stop begins a new life and empties `notify` of that
  Session; only a failed abort puts an entry back.
- `Awake`: what is queued for a stopping Session is stranded, it is to be told only of
  overlooked deliveries (`Settling`), and no refused prompt of the user is unread. For
  that a spawn under way must know an earlier life of an owner that is being stopped
  (`Dated`). `Opens` says that a Session that becomes able
  to take a delivery is in `due`, unless a stop, a spawn or such a refusal just ended;
  after a stop or a spawn its queue is empty or stranded.

`PiRuntimeProcessProofs` proves, for any sets of Runtimes
and files and any bounds under `NamesAreDistinct`, `LimitsAreNatural`,
`StartsArePositive` and `PendingIsPositive`: `TypesHold`, `StartLimitHolds`,
`AwaitedIsPendingHolds`, `NoneOutlivesProcessHolds`, `DisposedIsGoneHolds`,
`OneOwnerHolds` and `CleanExitHolds`, from `Spec => []IInv` with

    IInv == TypeOK /\ IsFiniteSet(pending) /\ TimeInv /\ MainInv /\ ChildInv

- `TimeInv` is the sliding window. The code forgets a start when it leaves the
  window, so `starts` must be exactly the starts of the window that ends now;
  then each window that ended earlier is as full as it was, and the one that ends
  now grows only by a spawn, which the guard allows.
- `MainInv` places every Runtime: `InMain(r)` ties its phase to where its start
  and stop are, to its pending requests and to the record it belongs to. The
  exit of the process and an answer touch several of these at once, and only
  together are they inductive.
- `ChildInv` is `Nested` (held within driver, published and served within what
  is known), `WellPlaced` (where a start is says who holds its driver) and
  `FilesDiffer`, from which `OneOwner`: two Sessions may be created for one file,
  and only the check at the publication keeps them apart. `CleanExit` needs that
  a driver that is not held is still published or its start not over, so the
  host's count of what is left sees it.
- `pending` is finite because a request is added only below `MaxPending`; the
  cardinality in the bound means nothing without it.

`ToldOnceHolds` and `StoppedIsReleasedHolds` relate what Main believes to what the
child did, so they need what is between the two. They follow from `BooksHold`,
`Spec => []AInv`, with `AInv == IInv /\ Sent /\ \A r : Books(r)`:

- `Sent` is about the channels. A request to start or stop a Runtime is in one
  place, on its way, worked on or answered, and only while Main counts it as
  pending (`Channels`); the exit event of a failed start is directly followed by
  its answer (`ExitFirst`), and there is no other exit event (`OddExits`); an
  answer that a stop succeeded is on its way only while the child knows nothing of
  that Runtime (`StopOk`); a process that is not up knows nothing (`Down`).
- `Books` is about Main. `Registry`: registered is who has its record on the live
  process, until a stop succeeded. `Tellings`: what the listeners have heard, by
  where the start is: of a started Runtime nothing while it is registered, and once
  when it crashed with its process.
  `StopHolds`: `StoppedIsReleased`, with what the child knows as `Released`.

The delicate step is a start that fails in the child: Main reads its exit event
and tells the listeners before it reads the answer. `ExitFirst` says that the
answer comes next, so the telling belongs to a start that is about to fail and
never to a Runtime that runs. For `StopHolds` the delicate step is a start that the
child takes after the stop: `Channels` and `InMain` exclude one for a Runtime
that Main calls stopped.

`RuntimeHibernationProofs` proves, for any set of contexts and identities and any
bounds, from `NamesAreNew` alone: `ForegroundIsKept`, `FencesAreKnown`,
`NoLeaseIsLeft` and `HibernatesOnlyIdle`, from `HibernationInvariant`,
`Spec => []IInv`, with `IInv == Types /\ Gate /\ \A c : OfContext(c)`. Nothing is
assumed of the order in which a sweep tries the contexts. The parts:

- `Gate`: activation and the stop of an attempt exclude each other, and who is in
  the foreground, or becomes it, was not stopped; this alone gives
  `ForegroundStays`.
- `Exchange(c)`: of the calls of a lease at most one thing is on its way, a call,
  a command that Main's Runtime awaits, or an answer, and only to the context and
  for the stage of the attempt. Most other steps rest on it, as it tells which
  answer Main is reading.
- `Known(c)`: where the Extension is in a command says what the fence of the native
  agents is and whose lease names it; an operation runs only behind an open fence.
- `Ended(c)`: a Runtime that counts as gone, or whose stop was answered, is dead.
- `Leases(c)`: unless pi-subagents was silent once, a lease belongs to the attempt
  or is about to be taken back, and after a release nothing of it is left.
- `ToStop(c)`: from the moment the Runtime says that it prepared, every provider is
  fenced with the identity of this attempt, and the Extension's lease says so.
- `Runs(c)`: Main hears that a run began before it hears the grant that was
  given behind it, so its second look sees the run, unless a prompt was sent.

`NativeSubagentsProofs` proves for any finite set of tasks, from `NamesAreNew` and
`TasksAreFinite`: `LeaseCounts`, `WorkHasOwner`, `ModelsStayQuiet` and
`NoneWaitsForItself`. The first,
`Spec => []LeaseCountsWork`, follows from `Spec => []IInv` with

    IInv == Types /\ LeaseCountsWork /\ \A t \in Tasks : Placed(t)

The count alone is not inductive: the end of a task takes one lease back, so only
a task at work may end, a start must find a task that does nothing, and a rejected
prompt must find its task at work. `Placed` says just that: a driver is disposed
only by a task that closes, a prompt that may be rejected belongs to a task that
works, and nobody's task is idle. `CountKept` is the step: what changes the count
adds or removes one task of a finite set.

`WorkHasOwner` and `ModelsStayQuiet` follow from `OwnersInvariant`, `Spec => []OInv`:

    OInv == IInv /\ Living /\ CallsLive /\ Aborting /\ RootEnds /\ WorkIsOwned
                 /\ \A n \in Node : RunLives(n)

A task may start under a node only by a call of a run of that node, and that call
may await a definition meanwhile. So ownership needs that such a run is still
there when the await ends (`CallsLive`) and belongs to a living Session object
that is not past its abort (`RunLives`); that a node disposes only after what it
awaited has ended (`Aborting`: it awaits tasks of its own that work); and that a
task has a Session object exactly while it works (`Living`). What still begins
under a Session that closes is a stray (`RootEnds`), the hole `WorkIsOwned` names.

`NoneWaitsForItself` states `NobodyWaitsForever`, from

    GInv == OInv /\ NoCycle /\ Asked /\ StartsFit /\ Disposing

Tasks wait for the tasks they own, so waiting ends if ownership has no cycle: a
task is owned by a node that runs, and who owns one is not free to be taken
(`NoCycle`, by a rank that every start renews). The lowest task at work then waits
for no task, only for its model, whose calls can be answered: an answer to a start
needs a task nobody has, and there are as many as starts (`StartsFit`). A task that
closes is under disposal (`Disposing`), so it does not wait for anybody to begin it.

`RestartContinuationProofs` proves, for any set of Sessions and any number of boots
(`MaxBootsIsNatural`): `ContinuesOnce`, `HeldIsClaimableHolds` and
`NothingOvertaken`, from `Spec => []IInv` with

    IInv == Types /\ PhaseInv /\ HeldIsClaimable /\ HeldInv /\ LaunchInv /\ StaleInv

The argument follows a candidate through its places. A file that no boot has taken
belongs to the last one, as every boot binds it or deletes it before anything else;
so what is loaded is of the boot before (`HeldInv`) and was never prompted. A claim
moves a candidate from `held` to the launch, and `LaunchInv` says that it is in one
of the two places only: it cannot be claimed again, and the one prompt of `Started`
is its first. `StaleInv` says that what is held or claimed has not been overtaken,
but for the background; this holds because a Session with a held candidate gets a
Runtime in the foreground only from the launch that claims it.

`WorkbenchLaunchProofs` proves for any sets of contexts and Sessions, from
`NoneIsNoName` alone: `SelectionHolds`, `ReadyIsLiveHolds` and
`StopReachesAllHolds`, from `InvariantHolds`, `Spec => []IInv`, with

    IInv == TypeOK /\ SelectionIsManaged /\ ReadyIsLive
            /\ GateInv /\ BgInv /\ StopsInv /\ StopperInv /\ RuntimeInv

Each of the three properties is about what was read before an await and is used
after it, so the invariant says who may change it meanwhile:

- `GateInv`: the context under launch is in the foreground and is not being stopped,
  and the one to return to stays managed. So `Ready` finds a Runtime that is gone
  only if its context is already crashed, which `isStartActive` sees.
- `BgInv`: a context launched in the background is in nobody else's hands: it is not
  in the foreground, not the one under launch or to return to, and not yet ready.
- `StopsInv`: whoever awaits the stop of a context is at that await, so there are at most
  three, and whoever was told that the context is in the foreground is among them
  as long as it is. From this follow `NoneNotedAtGate`, that no launch and no switch
  moves the foreground while a stop that will clear it is awaited, and
  `NoneStoppedAtGate`. This is what the launch gate is for; the launch that passes
  by it is harmless here only because it never touches the foreground.
- `StopperInv`: once `stop()` has taken its list, each managed context is still on it,
  being stopped, or crashed. It is kept because nothing launches any more: the gate is
  idle and closed, and a background launch looks at `stopAllRequested` after its trust.
- `RuntimeInv`: a Runtime that may live belongs to a managed context, and a context that
  was never created is nowhere.

`StopReachesAll` is then the last step of `stop()`: its list is empty. Every action
has a lemma that it keeps `IInv`.

Only model-checked: liveness (`VisibleWindowCatchesUp`, `WaiterSettles`, `EachConcludes`,
`CallsEnd`, `FailureIsTold`, `SweepEnds`,
`ForgottenFenceOpens`), which the prover cannot treat under fairness; and
`EveryHandlerReturns`, which is about ENABLED.

## 5. Not modelled

See the notes in `PROJECT.json`. In short: the components listed there as
`not_modelled`; and in the modelled ones

- delivery: paging of old conversation, reconnection of the Web stream, dispose
  of the forwarder;
- collaboration: provisional Sessions, extension activities, and a foreground
  launch that meets a background launch, which is in `WorkbenchLaunch`. Crashes are per Session although all
  Sessions share one process, which allows more behaviours, except the crash of
  all at once;
- process: the output backlog limit of the server, malformed messages and a
  disconnected parent (each kills the child, as a crash does), replacement of the
  Session inside a Runtime other than its file, and extension commands of a user;
- hibernation: hibernation by the user, busy reasons that need a dialog, a
  compaction or a provisional Session, `session_start` while a lease is held,
  which the fences exclude, and the diagnostic query;
- launches: new and provisional Sessions, fork, archive, a change of project, the spawn
  for an agent, the claim of a restart continuation (its own module), naming and
  compaction. What an operation of the user does to a ready context other than stop
  it (prompt, abort, settings) changes none of the variables;
- native subagents: the records of the tasks and what `restore()` makes of them,
  `TaskWait`, `TaskList` and transcripts, which change nothing; the limit of the
  depth, which only takes behaviours away; a disposal of a task's Session that
  fails, and a record that cannot be written when a task ends; the other uses of
  the lease, which hold it during one tool call;
- restart continuation: which running Sessions wait for an answer, are compacted or
  are provisional (any subset of those that run is captured), the order of recovery
  and the foreground selection it restores, a candidate whose Session id does not
  match its launch, a file that cannot be read (startup fails), and a change of
  environment, which is refused while a Session works.

## 6. Plan

Done: state delivery, collaboration, the Pi process, hibernation, native subagents,
restart continuation and the launches of the Kernel, checked and proved. Next:

1. Provisional Sessions, fork and archive in `WorkbenchLaunch`.
2. Hibernation composed with `SessionCollaboration`'s queue, to state that a
   completion is not stranded.
3. The desktop gateway's controller.
