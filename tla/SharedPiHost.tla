----------------------------- MODULE SharedPiHost -----------------------------
(***************************************************************************)
(* The Pi child process: its server (pi-runtime-host-server.ts) takes      *)
(* requests from Main in order, and the host (shared-pi-host.ts) creates,  *)
(* publishes and disposes one Pi Session driver per Runtime.  A driver is  *)
(* published under its session file, which at most one Runtime may own.    *)
(*                                                                         *)
(* One event loop: a handler and the continuations it settles are done     *)
(* before the next message or timer.  Creating and disposing a driver are  *)
(* the long awaits.                                                        *)
(***************************************************************************)
EXTENDS Integers, Sequences, FiniteSets

CONSTANTS
  Runtimes,   \* Runtime handles, each used for one start
  Files,      \* session files
  Limit       \* bound on how often each outside event happens

NoFile == "none"
Host == "host"
OutsideEvent ==
  {"call", "stop", "crash", "disposeFault", "createFault", "shutdown", "switch"}

ASSUME NamesAreDistinct == NoFile \notin Files /\ Host \notin Runtimes
ASSUME LimitsAreNatural == Limit \in [OutsideEvent -> Nat]

VARIABLES
  child,        \* the operating system process
  clean,        \* it left with exit code 0
  hostStatus,   \* status of the SharedPiHost
  disposing,    \* handles whose stop the dispose of the host awaits
  failed,       \* one of those stops failed
  served,       \* Runtimes the server knows
  handles,      \* Runtimes the host knows
  cphase,       \* phase of each SharedPiRuntime
  driver,       \* the Session object of each Runtime lives
  held,         \* the Runtime has it as its driver
  published,    \* session file each Runtime owns
  cStart,       \* where the start of each Runtime is
  cStop,        \* where its stop is
  cancelled,    \* stopRequested
  asked,        \* Main's stop request awaits that stop
  requests,     \* Main -> child channel
  messages,     \* child -> Main channel
  used          \* how often each outside event has happened

hostVars == <<hostStatus, disposing, failed>>
servedVars == <<served, handles, cphase, driver, held, published, cStart,
                cStop, cancelled, asked>>
childVars == <<child, clean, hostVars, servedVars>>

Phase == {"new", "starting", "running", "stopping", "stopped", "crashed"}
Call == (Runtimes \X {"start", "stop", "call"}) \cup {<<Host, "dispose">>}
Message == [type : {"ready", "response", "exit"}, call : Call, ok : BOOLEAN]

ChildTypeOK ==
  /\ child \in {"none", "booting", "up", "gone"} /\ clean \in BOOLEAN
  /\ hostStatus \in {"running", "disposing", "disposed"}
  /\ disposing \in SUBSET Runtimes /\ failed \in BOOLEAN
  /\ served \in SUBSET Runtimes /\ handles \in SUBSET Runtimes
  /\ cphase \in [Runtimes -> Phase]
  /\ driver \in SUBSET Runtimes /\ held \in SUBSET Runtimes
  /\ published \in [Runtimes -> Files \cup {NoFile}]
  /\ cStart \in [Runtimes -> {"no", "creating", "discarding", "cancelling", "over"}]
  /\ cStop \in [Runtimes -> {"no", "waiting", "disposing"}]
  /\ cancelled \in SUBSET Runtimes /\ asked \in SUBSET Runtimes
  /\ requests \in Seq(Call) /\ messages \in Seq(Message)
  /\ used \in [OutsideEvent -> Nat]

Happens(k) ==
  /\ used[k] < Limit[k]
  /\ used' = [used EXCEPT ![k] = @ + 1]

-----------------------------------------------------------------------------
(* The server                                                              *)

Response(c, ok) == [type |-> "response", call |-> c, ok |-> ok]
ExitEvent(r) == [type |-> "exit", call |-> <<r, "start">>, ok |-> FALSE]
Ready == [type |-> "ready", call |-> <<Host, "dispose">>, ok |-> TRUE]

Posts(ms) == messages' = messages \o ms

\* A stop whose await is over goes on before the next event.
Resumable(r) == cStop[r] = "waiting" /\ cphase[r] # "starting"
HostEnds == hostStatus = "disposing" /\ disposing = {}
ChildIdle == child = "up" /\ ~HostEnds /\ \A r \in Runtimes : ~Resumable(r)

Receives(c) ==
  /\ ChildIdle /\ requests # <<>> /\ Head(requests) = c
  /\ requests' = Tail(requests)

\* servePiRuntimeHost: the first message says that the process is ready.
Boot ==
  /\ child = "booting"
  /\ child' = "up"
  /\ Posts(<<Ready>>)
  /\ UNCHANGED <<clean, hostVars, servedVars, requests, used>>

\* startRuntime: a host that disposes creates no Runtime.
TakeStart(r) ==
  /\ Receives(<<r, "start">>)
  /\ \/ /\ r \notin served /\ hostStatus = "running"
        /\ served' = served \cup {r}
        /\ handles' = handles \cup {r}
        /\ cphase' = [cphase EXCEPT ![r] = "starting"]
        /\ cStart' = [cStart EXCEPT ![r] = "creating"]
        /\ UNCHANGED messages
     \/ /\ (r \in served \/ hostStatus # "running")
        /\ Posts(<<Response(<<r, "start">>, FALSE)>>)
        /\ UNCHANGED <<served, handles, cphase, cStart>>
  /\ UNCHANGED <<child, clean, hostVars, driver, held, published, cStop,
                 cancelled, asked, used>>

\* callRuntime for anything but stop: it needs the running driver.
TakeCall(r) ==
  /\ Receives(<<r, "call">>)
  /\ Posts(<<Response(<<r, "call">>, r \in served /\ cphase[r] = "running")>>)
  /\ UNCHANGED <<child, clean, hostVars, servedVars, used>>

\* stop() for a set of Runtimes: one that is being stopped already is joined.
\* Mutant: the stop does not wait for a start.
StopNow(S) == [r \in Runtimes |-> IF r \in S THEN "disposing" ELSE cStop[r]]
StopCalled(S) ==
  [r \in Runtimes |-> IF r \in S /\ cStop[r] = "no" THEN "waiting" ELSE cStop[r]]

TakeStop(r) ==
  /\ Receives(<<r, "stop">>)
  /\ \/ /\ r \in served
        /\ cStop' = StopCalled({r})
        /\ cancelled' = cancelled \cup {r}
        /\ asked' = asked \cup {r}
        /\ UNCHANGED messages
     \/ /\ r \notin served
        /\ Posts(<<Response(<<r, "stop">>, FALSE)>>)
        /\ UNCHANGED <<cStop, cancelled, asked>>
  /\ UNCHANGED <<child, clean, hostVars, served, handles, cphase, driver, held,
                 published, cStart, used>>

\* disposeHost: every handle is stopped.
TakeDispose ==
  /\ Receives(<<Host, "dispose">>)
  /\ hostStatus' = "disposing"
  /\ disposing' = handles
  /\ cStop' = StopCalled(handles)
  /\ cancelled' = cancelled \cup handles
  /\ UNCHANGED <<child, clean, failed, served, handles, cphase, driver, held,
                 published, cStart, asked, messages, used>>

\* An extension asks for the shutdown of its Session, which it can do as soon
\* as it is loaded, during the start.
ShutdownRequested(r) ==
  /\ ChildIdle /\ (cStart[r] = "creating" \/ cphase[r] = "running")
  /\ Happens("shutdown")
  /\ cStop' = StopCalled({r})
  /\ cancelled' = cancelled \cup {r}
  /\ UNCHANGED <<child, clean, hostVars, served, handles, cphase, driver, held,
                 published, cStart, asked, requests, messages>>

-----------------------------------------------------------------------------
(* Start of a Runtime                                                      *)

Owner(f) == {r \in Runtimes : published[r] = f}

\* The start of r is over without a driver: Main hears of it as an exit event
\* and as the answer to its request.
StartFails(r) ==
  /\ cphase' = [cphase EXCEPT ![r] = "crashed"]
  /\ cStart' = [cStart EXCEPT ![r] = "over"]
  /\ Posts(<<ExitEvent(r), Response(<<r, "start">>, FALSE)>>)

\* createSession fails, having cleaned up.
CreateFails(r) ==
  /\ ChildIdle /\ cStart[r] = "creating"
  /\ Happens("createFault")
  /\ StartFails(r)
  /\ UNCHANGED <<child, clean, hostVars, served, handles, driver, held,
                 published, cStop, cancelled, asked, requests>>

\* The file of the new Session has an owner, or the host disposes: it is not
\* published.  Mutant: the owner is not looked at.
MayPublishTaken(r, f) == hostStatus = "running"
MayPublish(r, f) == hostStatus = "running" /\ Owner(f) \subseteq {r}

\* The Session was created: it is published and runs, or a stop that came
\* meanwhile cancels it.
CreateDone(r, f) ==
  /\ ChildIdle /\ cStart[r] = "creating"
  /\ driver' = driver \cup {r}
  /\ \/ /\ ~MayPublish(r, f)
        /\ cStart' = [cStart EXCEPT ![r] = "discarding"]
        /\ UNCHANGED <<cphase, held, published, messages>>
     \/ /\ MayPublish(r, f)
        /\ published' = [published EXCEPT ![r] = f]
        /\ \/ /\ r \in cancelled
              /\ cStart' = [cStart EXCEPT ![r] = "cancelling"]
              /\ UNCHANGED <<cphase, held, messages>>
           \/ /\ r \notin cancelled
              /\ cStart' = [cStart EXCEPT ![r] = "over"]
              /\ cphase' = [cphase EXCEPT ![r] = "running"]
              /\ held' = held \cup {r}
              /\ Posts(<<Response(<<r, "start">>, TRUE)>>)
  /\ UNCHANGED <<child, clean, hostVars, served, handles, cStop, cancelled,
                 asked, requests, used>>

\* The driver that was not published is disposed.  If that fails the Runtime
\* keeps it for its stop.
DiscardEnds(r) ==
  /\ ChildIdle /\ cStart[r] = "discarding"
  /\ \/ /\ driver' = driver \ {r}
        /\ UNCHANGED <<held, used>>
     \/ /\ Happens("disposeFault")
        /\ held' = held \cup {r}
        /\ UNCHANGED driver
  /\ StartFails(r)
  /\ UNCHANGED <<child, clean, hostVars, served, handles, published, cStop,
                 cancelled, asked, requests>>

\* stopRuntime of the host, once the driver is disposed.
Unregister(r) ==
  /\ driver' = driver \ {r}
  /\ published' = [published EXCEPT ![r] = NoFile]
  /\ handles' = handles \ {r}

\* The cancelled start disposes its driver, which it does not hold.
CancelEnds(r) ==
  /\ ChildIdle /\ cStart[r] = "cancelling"
  /\ \/ Unregister(r) /\ UNCHANGED used
     \/ Happens("disposeFault") /\ UNCHANGED <<driver, published, handles>>
  /\ StartFails(r)
  /\ UNCHANGED <<child, clean, hostVars, served, held, cStop, cancelled,
                 asked, requests>>

-----------------------------------------------------------------------------
(* Stop of a Runtime and end of the process                                *)

\* The promise of stop() settles for whoever awaits it.
StopSettles(r, ok) ==
  /\ cStop' = [cStop EXCEPT ![r] = "no"]
  /\ asked' = asked \ {r}
  /\ disposing' = disposing \ {r}
  /\ failed' = (failed \/ (r \in disposing /\ ~ok))
  /\ \/ /\ r \in asked
        /\ served' = IF ok THEN served \ {r} ELSE served
        /\ Posts(<<Response(<<r, "stop">>, ok)>>)
     \/ r \notin asked /\ UNCHANGED <<served, messages>>

\* stopRuntime after the await of the start: without a driver the handle is
\* released, which a published Runtime refuses.
StopResumes(r) ==
  /\ child = "up" /\ Resumable(r)
  /\ \/ /\ r \in held
        /\ cphase' = [cphase EXCEPT ![r] = "stopping"]
        /\ cStop' = [cStop EXCEPT ![r] = "disposing"]
        /\ UNCHANGED <<asked, disposing, failed, served, messages, handles>>
     \/ /\ r \notin held /\ published[r] = NoFile
        /\ cphase' = [cphase EXCEPT ![r] = "stopped"]
        /\ handles' = handles \ {r}
        /\ StopSettles(r, TRUE)
     \/ /\ r \notin held /\ published[r] # NoFile
        /\ StopSettles(r, FALSE)
        /\ UNCHANGED <<cphase, handles>>
  /\ UNCHANGED <<child, clean, hostStatus, driver, held, published, cStart,
                 cancelled, requests, used>>

\* The driver is disposed, or fails to: then the stop can be tried again.
StopEnds(r) ==
  /\ ChildIdle /\ cStop[r] = "disposing"
  /\ \/ /\ Unregister(r)
        /\ held' = held \ {r}
        /\ cphase' = [cphase EXCEPT ![r] = "stopped"]
        /\ StopSettles(r, TRUE)
        /\ UNCHANGED used
     \/ /\ Happens("disposeFault")
        /\ cphase' = [cphase EXCEPT ![r] = "crashed"]
        /\ StopSettles(r, FALSE)
        /\ UNCHANGED <<driver, published, handles, held>>
  /\ UNCHANGED <<child, clean, hostStatus, cStart, cancelled, requests>>

\* replaceIdentity: the running Session goes on in another file.
SwitchesFile(r, f) ==
  /\ ChildIdle /\ r \in held /\ cphase[r] = "running"
  /\ published[r] \notin {f, NoFile}
  /\ Happens("switch")
  /\ Owner(f) = {}
  /\ published' = [published EXCEPT ![r] = f]
  /\ UNCHANGED <<child, clean, hostVars, served, handles, cphase, driver, held,
                 cStart, cStop, cancelled, asked, requests, messages>>

FreshChild ==
  /\ hostStatus = "running" /\ disposing = {} /\ failed = FALSE
  /\ served = {} /\ handles = {} /\ driver = {} /\ held = {}
  /\ cancelled = {} /\ asked = {}
  /\ cphase = [r \in Runtimes |-> "new"]
  /\ published = [r \in Runtimes |-> NoFile]
  /\ cStart = [r \in Runtimes |-> "no"]
  /\ cStop = [r \in Runtimes |-> "no"]

\* The process is gone, and with it its memory and what it had not read.
Leaves(cleanly) ==
  /\ child' = "gone" /\ clean' = cleanly
  /\ hostStatus' = "running" /\ disposing' = {} /\ failed' = FALSE
  /\ served' = {} /\ handles' = {} /\ driver' = {} /\ held' = {}
  /\ cancelled' = {} /\ asked' = {}
  /\ cphase' = [r \in Runtimes |-> "new"]
  /\ published' = [r \in Runtimes |-> NoFile]
  /\ cStart' = [r \in Runtimes |-> "no"]
  /\ cStop' = [r \in Runtimes |-> "no"]
  /\ requests' = <<>>

\* Nothing is left of the Sessions.
Empty == handles = {} /\ \A r \in Runtimes : published[r] = NoFile

\* disposeHost and the exit of the server that follows the answer.
HostDisposed ==
  /\ child = "up" /\ HostEnds /\ \A r \in Runtimes : ~Resumable(r)
  /\ Posts(<<Response(<<Host, "dispose">>, ~failed /\ Empty)>>)
  /\ Leaves(~failed /\ Empty)
  /\ UNCHANGED used

Child ==
  \/ Boot \/ TakeDispose \/ HostDisposed
  \/ \E r \in Runtimes :
       \/ TakeStart(r) \/ TakeCall(r) \/ TakeStop(r) \/ CreateFails(r)
       \/ \E f \in Files : CreateDone(r, f)
       \/ DiscardEnds(r) \/ CancelEnds(r) \/ StopResumes(r) \/ StopEnds(r)
Outside ==
  \E r \in Runtimes : ShutdownRequested(r) \/ \E f \in Files : SwitchesFile(r, f)
=============================================================================
