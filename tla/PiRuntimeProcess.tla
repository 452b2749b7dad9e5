--------------------------- MODULE PiRuntimeProcess ---------------------------
(***************************************************************************)
(* Main's side of the one Pi Runtime process (pi-runtime-process-host.ts), *)
(* composed with the child (SharedPiHost).  PiRuntimeProcessHost spawns    *)
(* the process when a Runtime needs it, counts the starts of a window,     *)
(* matches answers to pending requests and tells every Runtime of an exit. *)
(* PiProcessRuntime is the handle of one Session: start, stop and calls.   *)
(*                                                                         *)
(* Main is an event loop as well: what awaits readiness or a start goes on *)
(* before the next event (MainIdle).                                       *)
(***************************************************************************)
EXTENDS SharedPiHost

CONSTANTS
  MaxStarts,    \* process starts allowed per window (3)
  Window,       \* length of the window (2 minutes)
  MaxPending,   \* unanswered requests before the child is given up (1024)
  MaxTime       \* bound on the clock

ASSUME StartsArePositive == MaxStarts \in Nat \ {0} /\ Window \in Nat \ {0}
ASSUME PendingIsPositive == MaxPending \in Nat \ {0} /\ MaxTime \in Nat

VARIABLES
  generation,   \* processes spawned so far
  current,      \* generation of the live process record, 0 for none
  ready,        \* the ready promise of the newest record
  starts,       \* times of the starts that count, with their generation
  clock,        \* Date.now()
  signal,       \* strongest signal sent to the process
  pending,      \* requests without an answer
  dispose,      \* where dispose() is
  phase,        \* phase of each PiProcessRuntime
  record,       \* generation of the record it started on, 0 for none
  registered,   \* Runtimes in the runtimes Map of their live record
  startStep,    \* where its start() is
  stopStep,     \* where its stop() is
  told,         \* how often its listeners got a process-exit
  spawned       \* history: every start, with its time

processVars == <<generation, current, ready, starts, clock, signal, spawned>>
runtimeVars == <<phase, record, registered, startStep, stopStep, told>>
mainVars == <<processVars, pending, dispose, runtimeVars>>
vars == <<mainVars, childVars, requests, messages, used>>

TypeOK ==
  /\ ChildTypeOK
  /\ generation \in Nat /\ current \in {0, generation}
  /\ ready \in {"waiting", "ready", "failed"}
  /\ clock \in Nat
  /\ starts \in SUBSET (Nat \X (1..generation))
  /\ spawned \in SUBSET (Nat \X (1..generation))
  /\ signal \in {"none", "term", "kill"}
  /\ pending \in SUBSET Call /\ Cardinality(pending) <= MaxPending
  /\ dispose \in {"no", "ready", "gone", "exit", "term", "kill", "over"}
  /\ phase \in [Runtimes -> Phase]
  /\ record \in [Runtimes -> 0..generation]
  /\ registered \in SUBSET Runtimes
  /\ startStep \in [Runtimes -> {"no", "acquire", "request", "ok", "failed"}]
  /\ stopStep \in [Runtimes -> {"no", "start", "request"}]
  /\ told \in [Runtimes -> Nat]

Init ==
  /\ child = "none" /\ clean = FALSE /\ FreshChild
  /\ requests = <<>> /\ messages = <<>>
  /\ used = [k \in OutsideEvent |-> 0]
  /\ generation = 0 /\ current = 0 /\ ready = "failed"
  /\ starts = {} /\ clock = 0 /\ signal = "none" /\ spawned = {}
  /\ pending = {} /\ dispose = "no"
  /\ phase = [r \in Runtimes |-> "new"]
  /\ record = [r \in Runtimes |-> 0]
  /\ registered = {}
  /\ startStep = [r \in Runtimes |-> "no"]
  /\ stopStep = [r \in Runtimes |-> "no"]
  /\ told = [r \in Runtimes |-> 0]

-----------------------------------------------------------------------------
(* Requests                                                                *)

Stronger(s) == IF signal = "kill" THEN "kill" ELSE s
Exited(r) == record[r] # current \/ current = 0

Full == Cardinality(pending) >= MaxPending

\* request() that is pending afterwards.
Asks(c) ==
  /\ ~Full
  /\ pending' = pending \cup {c}
  /\ requests' = IF child = "gone" THEN requests ELSE Append(requests, c)
  /\ UNCHANGED signal

\* request() that fails at once: too many are pending, which is taken for a
\* dead child, or its channel is closed.
Refuses(c) ==
  /\ \/ Full /\ signal' = "kill"
     \/ ~Full /\ child = "gone" /\ UNCHANGED signal
  /\ UNCHANGED <<pending, requests>>

-----------------------------------------------------------------------------
(* Process                                                                 *)

\* What awaits readiness, or the start of its own Runtime, can go on.
WokenStarts == {r \in Runtimes : startStep[r] = "acquire" /\ ready # "waiting"}
WokenStops ==
  {r \in Runtimes : stopStep[r] = "start" /\ startStep[r] \in {"ok", "failed"}}
DisposeWoken == dispose = "ready" /\ ready # "waiting"
MainIdle == WokenStarts = {} /\ WokenStops = {} /\ ~DisposeWoken

\* Time matters once a start counts.
Tick ==
  /\ MainIdle /\ clock < MaxTime /\ starts # {}
  /\ clock' = clock + 1
  /\ UNCHANGED <<generation, current, ready, starts, signal, spawned, pending,
                 dispose, runtimeVars, childVars, requests, messages, used>>

\* The starts still within the window.  Mutant: the oldest is forgotten early.
RecentEarly == {s \in starts : clock - s[1] < Window - 1}
Recent == {s \in starts : clock - s[1] < Window}

Accepts == dispose = "no"

\* acquire() up to its await: the live process, or a new one if few enough
\* were started lately.
Acquires(r) ==
  \/ /\ current # 0
     /\ startStep' = [startStep EXCEPT ![r] = "acquire"]
     /\ UNCHANGED <<processVars, childVars, messages>>
  \/ /\ current = 0 /\ Cardinality(Recent) < MaxStarts
     /\ generation' = generation + 1
     /\ current' = generation + 1
     /\ starts' = Recent \cup {<<clock, generation + 1>>}
     /\ spawned' = spawned \cup {<<clock, generation + 1>>}
     /\ ready' = "waiting" /\ signal' = "none"
     /\ child' = "booting" /\ clean' = FALSE /\ messages' = <<>>
     /\ startStep' = [startStep EXCEPT ![r] = "acquire"]
     /\ UNCHANGED <<clock, hostVars, servedVars>>

AcquireRefused(r) ==
  /\ \/ ~Accepts /\ UNCHANGED starts
     \/ /\ Accepts /\ current = 0
        /\ Cardinality(Recent) >= MaxStarts
        /\ starts' = Recent
  /\ startStep' = [startStep EXCEPT ![r] = "failed"]
  /\ UNCHANGED <<generation, current, ready, clock, signal, spawned, childVars,
                 messages>>

\* start(): a Runtime that gets no process has crashed, and says so.
Start(r) ==
  /\ MainIdle /\ phase[r] = "new"
  /\ \/ /\ Accepts
        /\ phase' = [phase EXCEPT ![r] = "starting"]
        /\ Acquires(r)
        /\ UNCHANGED told
     \/ /\ phase' = [phase EXCEPT ![r] = "crashed"]
        /\ told' = [told EXCEPT ![r] = @ + 1]
        /\ AcquireRefused(r)
  /\ UNCHANGED <<pending, dispose, record, registered, stopStep, requests, used>>

\* startRuntime after acquire(): the process never got ready, or the Session
\* is registered and its start requested.
AcquireDone(r) ==
  /\ ~DisposeWoken /\ r \in WokenStarts
  /\ \/ /\ ready = "failed"
        /\ startStep' = [startStep EXCEPT ![r] = "failed"]
        /\ phase' = [phase EXCEPT ![r] = "crashed"]
        /\ told' = [told EXCEPT ![r] = @ + 1]
        /\ UNCHANGED <<record, registered, pending, requests, signal>>
     \/ /\ ready = "ready"
        /\ record' = [record EXCEPT ![r] = current]
        /\ registered' = registered \cup {r}
        /\ UNCHANGED told
        /\ \/ /\ Asks(<<r, "start">>)
              /\ startStep' = [startStep EXCEPT ![r] = "request"]
              /\ UNCHANGED phase
           \/ /\ Refuses(<<r, "start">>)
              /\ startStep' = [startStep EXCEPT ![r] = "failed"]
              /\ phase' = [phase EXCEPT ![r] = "crashed"]
  /\ UNCHANGED <<generation, current, ready, starts, clock, spawned, dispose,
                 stopStep, childVars, messages, used>>

\* The readiness timer: the promise fails and the process is killed.
ReadyTimeout ==
  /\ MainIdle /\ current # 0 /\ ready = "waiting"
  /\ ready' = "failed" /\ signal' = "kill"
  /\ UNCHANGED <<generation, current, starts, clock, spawned, pending, dispose,
                 runtimeVars, childVars, requests, messages, used>>

\* A process that got a signal dies, and one may die of itself.
ChildDies ==
  /\ child \in {"booting", "up"}
  /\ \/ signal # "none" /\ UNCHANGED used
     \/ signal = "none" /\ Happens("crash")
  /\ Leaves(FALSE)
  /\ UNCHANGED <<mainVars, messages>>

\* What onExit does to a Runtime: handleProcessExit and the rejected requests.
\* Mutants: a Runtime that is only starting is not told; only who awaits an
\* answer is.
ToldEarly(r) == r \in registered /\ phase[r] \notin {"new", "starting", "stopped"}
ToldIfAwaiting(r) == r \in registered /\ \E k \in {"start", "stop"} : <<r, k>> \in pending
ToldOfExit(r) == r \in registered /\ phase[r] \notin {"new", "stopped"}
\* Mutant: the requests of the dead process stay.
RejectedNone == {}
Rejected == pending
PhaseAfterExit(r) ==
  IF <<r, "stop">> \in Rejected THEN "stopped"
  ELSE IF ToldOfExit(r) THEN "crashed" ELSE phase[r]

\* onExit.
ExitHandled ==
  /\ MainIdle /\ child = "gone" /\ current # 0
  /\ current' = 0
  /\ ready' = IF ready = "waiting" THEN "failed" ELSE ready
  /\ pending' = pending \ Rejected
  /\ messages' = <<>>
  /\ registered' = {}
  /\ told' = [r \in Runtimes |-> IF ToldOfExit(r) THEN told[r] + 1 ELSE told[r]]
  /\ phase' = [r \in Runtimes |-> PhaseAfterExit(r)]
  /\ startStep' = [r \in Runtimes |->
       IF <<r, "start">> \in Rejected THEN "failed" ELSE startStep[r]]
  /\ stopStep' = [r \in Runtimes |->
       IF <<r, "stop">> \in Rejected THEN "no" ELSE stopStep[r]]
  /\ dispose' = IF dispose \in {"no", "ready"} THEN dispose ELSE "over"
  /\ UNCHANGED <<generation, starts, clock, signal, spawned, record, childVars,
                 requests, used>>

-----------------------------------------------------------------------------
(* Messages of the child                                                   *)

Reads(type) ==
  /\ MainIdle /\ current # 0 /\ messages # <<>> /\ Head(messages).type = type
  /\ messages' = Tail(messages)

HandleReady ==
  /\ Reads("ready")
  /\ ready' = IF ready = "waiting" THEN "ready" ELSE ready
  /\ UNCHANGED <<generation, current, starts, clock, signal, spawned, pending,
                 dispose, runtimeVars, childVars, requests, used>>

\* A process-exit event of one Runtime inside the child.
HandleExitEvent ==
  /\ Reads("exit")
  /\ LET r == Head(messages).call[1] IN
     told' = IF r \in registered THEN [told EXCEPT ![r] = @ + 1] ELSE told
  /\ UNCHANGED <<processVars, pending, dispose, phase, record, registered,
                 startStep, stopStep, childVars, requests, used>>

\* startRuntime, after its request.
StartAnswered(r, ok) ==
  /\ startStep' = [startStep EXCEPT ![r] = IF ok THEN "ok" ELSE "failed"]
  /\ phase' = [phase EXCEPT ![r] = IF ok THEN "running" ELSE "crashed"]
  /\ UNCHANGED <<registered, stopStep>>

\* stopRuntime, after its request.  Mutants: what could not be stopped counts
\* as stopped, or is not told of an exit any more.
AlwaysStopped(ok) == "stopped"
AfterStop(ok) == IF ok THEN "stopped" ELSE "crashed"
NoLongerRegistered(r, ok) == registered \ {r}
RegisteredAfter(r, ok) == IF ok THEN registered \ {r} ELSE registered
StopAnswered(r, ok) ==
  /\ stopStep' = [stopStep EXCEPT ![r] = "no"]
  /\ phase' = [phase EXCEPT ![r] = AfterStop(ok)]
  /\ registered' = RegisteredAfter(r, ok)
  /\ UNCHANGED startStep

HandleResponse ==
  /\ Reads("response")
  /\ LET m == Head(messages)  c == m.call  r == c[1] IN
     /\ pending' = pending \ {c}
     /\ \/ c \notin pending /\ UNCHANGED <<startStep, stopStep, phase, registered>>
        \/ /\ c \in pending
           /\ \/ c[2] = "start" /\ StartAnswered(r, m.ok)
              \/ c[2] = "stop" /\ StopAnswered(r, m.ok)
              \/ /\ c[2] \in {"call", "dispose"}
                 /\ UNCHANGED <<startStep, stopStep, phase, registered>>
  /\ UNCHANGED <<processVars, dispose, record, told, childVars, requests, used>>

-----------------------------------------------------------------------------
(* Stop, calls and dispose                                                 *)

\* stopRuntime once no start is awaited: nothing to stop, or a request.
StopProceeds(r) ==
  \/ /\ (Exited(r) \/ r \notin registered)
     /\ phase' = [phase EXCEPT ![r] = "stopped"]
     /\ stopStep' = [stopStep EXCEPT ![r] = "no"]
     /\ UNCHANGED <<pending, requests, signal>>
  \/ /\ ~Exited(r) /\ r \in registered
     /\ \/ /\ Asks(<<r, "stop">>)
           /\ stopStep' = [stopStep EXCEPT ![r] = "request"]
           /\ phase' = [phase EXCEPT ![r] = "stopping"]
        \/ /\ Refuses(<<r, "stop">>)
           /\ stopStep' = [stopStep EXCEPT ![r] = "no"]
           /\ phase' = [phase EXCEPT ![r] = "crashed"]

\* stop().  Mutant: a start in progress is not awaited.
StartIsAwaitedNever(r) == FALSE
StartIsAwaited(r) == phase[r] = "starting"
Stop(r) ==
  /\ MainIdle /\ phase[r] # "stopped" /\ stopStep[r] = "no"
  /\ Happens("stop")
  /\ \/ /\ StartIsAwaited(r)
        /\ stopStep' = [stopStep EXCEPT ![r] = "start"]
        /\ UNCHANGED <<phase, pending, requests, signal>>
     \/ ~StartIsAwaited(r) /\ StopProceeds(r)
  /\ UNCHANGED <<generation, current, ready, starts, clock, spawned, dispose,
                 record, registered, startStep, told, childVars, messages>>

StopAfterStart(r) ==
  /\ ~DisposeWoken /\ r \in WokenStops
  /\ StopProceeds(r)
  /\ UNCHANGED <<generation, current, ready, starts, clock, spawned, dispose,
                 record, registered, startStep, told, childVars, messages, used>>

\* Any other request of a running Runtime.
CallRuntime(r) ==
  /\ MainIdle /\ phase[r] = "running" /\ ~Exited(r)
  /\ <<r, "call">> \notin pending
  /\ Happens("call")
  /\ (Asks(<<r, "call">>) \/ Refuses(<<r, "call">>))
  /\ UNCHANGED <<generation, current, ready, starts, clock, spawned, dispose,
                 runtimeVars, childVars, messages>>

\* dispose() up to its await of readiness.
Dispose ==
  /\ MainIdle /\ dispose = "no"
  /\ dispose' = IF current = 0 THEN "over" ELSE "ready"
  /\ UNCHANGED <<processVars, pending, runtimeVars, childVars, requests,
                 messages, used>>

\* It asks the ready process to dispose, or waits for the failed one to exit.
DisposeProceeds ==
  /\ DisposeWoken
  /\ \/ /\ ready = "ready"
        /\ dispose' = "exit"
        /\ (Asks(<<Host, "dispose">>) \/ Refuses(<<Host, "dispose">>))
     \/ /\ ready = "failed"
        /\ dispose' = IF current = 0 THEN "over" ELSE "gone"
        /\ UNCHANGED <<pending, requests, signal>>
  /\ UNCHANGED <<generation, current, ready, starts, clock, spawned,
                 runtimeVars, childVars, messages, used>>

\* The process did not exit in time: SIGTERM, and after the grace SIGKILL.
Escalates == dispose \in {"exit", "term"}
DisposeTimeout ==
  /\ MainIdle /\ Escalates
  /\ \/ dispose = "exit" /\ dispose' = "term" /\ signal' = Stronger("term")
     \/ dispose = "term" /\ dispose' = "kill" /\ signal' = "kill"
  /\ UNCHANGED <<generation, current, ready, starts, clock, spawned, pending,
                 runtimeVars, childVars, requests, messages, used>>

-----------------------------------------------------------------------------
Main ==
  \/ HandleReady \/ HandleExitEvent \/ HandleResponse \/ ExitHandled
  \/ DisposeProceeds \/ DisposeTimeout \/ ReadyTimeout
  \/ \E r \in Runtimes : AcquireDone(r) \/ StopAfterStart(r)
Kernel ==
  \/ Tick \/ Dispose
  \/ \E r \in Runtimes : Start(r) \/ Stop(r) \/ CallRuntime(r)

Next == Main \/ Kernel \/ ChildDies \/ ((Child \/ Outside) /\ UNCHANGED mainVars)

Spec == Init /\ [][Next]_vars

\* Timers fire, Main handles what it got, and a killed process dies.  A child
\* that works also goes on; one may hang instead.
FairSpec ==
  Spec /\ WF_vars(Main) /\ WF_vars(signal = "kill" /\ ChildDies)
ChildWorks == WF_vars(Child /\ UNCHANGED mainVars)

-----------------------------------------------------------------------------
(* Properties                                                              *)

\* No window of time, wherever it begins, sees more starts of the process than
\* allowed: a child that keeps failing is not started in a loop.
StartLimit ==
  \A t \in 0..clock :
    Cardinality({s \in spawned : t - Window < s[1] /\ s[1] <= t}) <= MaxStarts

\* Every start and stop of a Runtime that waits for the child has its request
\* pending in the live process: none waits for an answer that cannot come.
AwaitedIsPending ==
  /\ \A r \in Runtimes :
       /\ startStep[r] = "request" <=> <<r, "start">> \in pending
       /\ stopStep[r] = "request" <=> <<r, "stop">> \in pending
  /\ pending # {} => current # 0

\* No Runtime counts as running or being stopped on a process that is gone.
NoneOutlivesProcess ==
  \A r \in Runtimes : phase[r] \in {"running", "stopping"} =>
    current # 0 /\ record[r] = current /\ r \in registered

\* When Main has stopped a Runtime, the living child has disposed its Session
\* and forgotten its handle, whatever became of its start.
StoppedIsReleased ==
  \A r \in Runtimes :
    phase[r] = "stopped" /\ record[r] = current /\ current # 0 =>
      r \notin driver \cup handles \cup served

\* "Published atomically by canonical session file": a file has one owner, and
\* its Session lives.
OneOwner ==
  \A r \in Runtimes : published[r] # NoFile =>
    r \in driver /\ Owner(published[r]) = {r}

\* The listeners of a Runtime that was running hear of its end at most once,
\* and have heard once it is crashed by the exit of its process.
ToldOnce ==
  \A r \in Runtimes : startStep[r] = "ok" =>
    /\ told[r] <= 1
    /\ phase[r] = "crashed" /\ (record[r] # current \/ current = 0) => told[r] = 1

\* After dispose() no process is left and none can be started.
DisposedIsGone == dispose = "over" => current = 0 /\ child \in {"none", "gone"}

\* The child exits with code 0 only when no Session is left undisposed in it.
CleanExit == [][child' = "gone" /\ clean' /\ child # "gone" => driver = {}]_vars

\* What was called ends: dispose() though the child may hang at any point, for
\* the readiness timer and the escalation to SIGKILL see to it; starts and
\* stops if the child works, crashes, exits or is killed.
CallsEnd ==
  /\ dispose # "no" ~> dispose = "over"
  /\ ChildWorks =>
       \A r \in Runtimes :
         /\ startStep[r] \in {"acquire", "request"} ~> startStep[r] \in {"ok", "failed"}
         /\ stopStep[r] # "no" ~> stopStep[r] = "no"

\* A start that failed, for whatever reason, is told to the listeners in the
\* end, unless somebody stops the Runtime.
FailureIsTold ==
  \A r \in Runtimes :
    startStep[r] = "failed" ~> (told[r] >= 1 \/ phase[r] = "stopped")
=============================================================================
