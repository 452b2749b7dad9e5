--------------------------- MODULE WorkbenchLaunch ---------------------------
(***************************************************************************)
(* The RuntimeContexts of the Workbench Kernel: which exist, which one the *)
(* key of a Session gives, which one is in the foreground, and what starts *)
(* and stops them.  The operations of the user and hibernation pass one    *)
(* gate (launchOperation); a delivery launches its target in the           *)
(* background, past the gate (session-collaboration-runtime.ts); stop()    *)
(* ends everything at shutdown.                                            *)
(*                                                                         *)
(* An operation is cut at its awaits, one action per part.  Awaits between *)
(* which nothing changes and that look at the same things afterwards are   *)
(* one.  A Session is its file; all are registered in one Project.         *)
(***************************************************************************)
EXTENDS FiniteSets

CONSTANTS
  Contexts,   \* RuntimeContexts, each created at most once
  Files       \* Session files

None == "none"
ASSUME NoneIsNoName == None \notin Contexts \cup Files

VARIABLES
  closing,      \* shutdownRequested
  stopAll,      \* stopAllRequested
  stopper,      \* where stop() is
  gate,         \* launchOperation: where the operation that holds it is
  bg,           \* collaborationLaunches: the background launch of each Session
  managed,      \* contexts
  keyed,        \* contextBySessionKey
  active,       \* activeContext
  shown,        \* Session the Kernel's state names when no context is active
  file,         \* Session file the Runtime of a context was created for
  status,       \* runtime.status in its state; "ready" stands for "running" too
  requested,    \* its stopRequested
  committing,   \* its launchCommitting
  names,        \* Session its state names
  runtime,      \* its Runtime, as Main knows it
  stops,        \* stopContext calls that await the Runtime, with their wasActive
  interrupted   \* history: Sessions interrupted by the end of which context

opVars == <<closing, stopAll, stopper, gate, bg>>
selVars == <<managed, keyed, active, shown>>
ctxVars == <<file, status, requested, committing, names, runtime, stops>>
vars == <<opVars, selVars, ctxVars, interrupted>>

Caller == {"gate", "background", "stopAll"}
NoLaunch == [op |-> "none", pc |-> "idle", file |-> None, ctx |-> None, prev |-> None]
Idle == [pc |-> "idle", ctx |-> None]

StopperStates ==
  [pc : {"idle", "committing", "launch", "each", "one"},
   todo : SUBSET Contexts, ctx : Contexts \cup {None}]
GateStates ==
  [op : {"none", "activate", "reload", "hibernate"},
   pc : {"idle", "persist", "validate", "trust", "stop", "start", "ask",
         "commit", "cleanup"},
   file : Files \cup {None}, ctx : Contexts \cup {None},
   prev : Contexts \cup {None}]
BgStates ==
  [pc : {"idle", "trust", "start", "ask", "stop"}, ctx : Contexts \cup {None}]

TypeOK ==
  /\ closing \in BOOLEAN /\ stopAll \in BOOLEAN
  /\ stopper \in StopperStates /\ gate \in GateStates
  /\ bg \in [Files -> BgStates]
  /\ managed \in SUBSET Contexts
  /\ keyed \in [Files -> Contexts \cup {None}]
  /\ active \in Contexts \cup {None} /\ shown \in Files \cup {None}
  /\ file \in [Contexts -> Files \cup {None}]
  /\ status \in [Contexts ->
       {"none", "starting", "ready", "stopping", "stopped", "crashed"}]
  /\ requested \in [Contexts -> BOOLEAN] /\ committing \in [Contexts -> BOOLEAN]
  /\ names \in [Contexts -> Files \cup {None}]
  /\ runtime \in [Contexts -> {"new", "starting", "live", "gone"}]
  /\ stops \in [Contexts -> SUBSET (Caller \X BOOLEAN)]
  /\ interrupted \in SUBSET (Contexts \X Files)

Init ==
  /\ closing = FALSE /\ stopAll = FALSE
  /\ stopper = [pc |-> "idle", todo |-> {}, ctx |-> None]
  /\ gate = NoLaunch
  /\ bg = [f \in Files |-> Idle]
  /\ managed = {} /\ keyed = [f \in Files |-> None]
  /\ active = None /\ shown = None
  /\ file = [c \in Contexts |-> None]
  /\ status = [c \in Contexts |-> "none"]
  /\ requested = [c \in Contexts |-> FALSE]
  /\ committing = [c \in Contexts |-> FALSE]
  /\ names = [c \in Contexts |-> None]
  /\ runtime = [c \in Contexts |-> "new"]
  /\ stops = [c \in Contexts |-> {}]
  /\ interrupted = {}

\* The Session in the Kernel's state: that of the active context.
Shown == IF active = None THEN shown ELSE names[active]

\* The contexts the end of whose Runtime is news (deliverContextEvent).
Stopping(c) == stopAll \/ requested[c] \/ status[c] = "stopping"

-----------------------------------------------------------------------------
(* Stop of a context                                                       *)

\* stopContext up to its await: the deliveries of the Session are interrupted.
StopCalled(c, who, hibernating) ==
  /\ c \in managed
  /\ requested' = [requested EXCEPT ![c] = TRUE]
  /\ status' = [status EXCEPT ![c] = "stopping"]
  /\ stops' = [stops EXCEPT ![c] = @ \cup {<<who, active = c>>}]
  /\ interrupted' = IF hibernating \/ names[c] = None THEN interrupted
                    ELSE interrupted \cup {<<c, names[c]>>}

Awaits(who, c) == \E wasActive \in BOOLEAN : <<who, wasActive>> \in stops[c]

\* The keys without those of c.
Unkeyed(c) == [f \in Files |-> IF keyed[f] = c THEN None ELSE keyed[f]]

\* retireContext.  Whether c was active was read before the await.
\* Mutant: the keys are left.
GivesForeground(c) ==
  \/ /\ \E who \in Caller : <<who, TRUE>> \in stops[c]
     /\ active' = None /\ shown' = names[c]
  \/ /\ \A who \in Caller : <<who, TRUE>> \notin stops[c]
     /\ UNCHANGED <<active, shown>>
RetiredKeyed(c) ==
  managed' = managed \ {c} /\ GivesForeground(c) /\ UNCHANGED keyed
Retired(c) ==
  managed' = managed \ {c} /\ GivesForeground(c) /\ keyed' = Unkeyed(c)

\* The Runtime's stop waits for its start and is shared by all who called it.
\* One that fails leaves the context, to be stopped again.
StopSettles(c) ==
  /\ stops[c] # {} /\ runtime[c] # "starting"
  /\ stops' = [stops EXCEPT ![c] = {}]
  /\ \/ /\ runtime' = [runtime EXCEPT ![c] = "gone"]
        /\ status' = [status EXCEPT ![c] = "stopped"]
        /\ Retired(c)
        /\ UNCHANGED requested
     \/ /\ runtime[c] = "live"
        /\ requested' = [requested EXCEPT ![c] = FALSE]
        /\ status' = [status EXCEPT ![c] = "crashed"]
        /\ UNCHANGED <<runtime, selVars>>
  /\ UNCHANGED <<opVars, file, committing, names, interrupted>>

\* The Runtimes of S have ended by themselves: their process, the start or the
\* Session of one.
Exits(S) ==
  LET heard == {c \in S \cap managed : ~Stopping(c)} IN
  /\ S # {}
  /\ runtime' = [c \in Contexts |-> IF c \in S THEN "gone" ELSE runtime[c]]
  /\ status' = [c \in Contexts |-> IF c \in heard THEN "crashed" ELSE status[c]]
  /\ interrupted' = interrupted \cup
       {p \in Contexts \X Files : p[1] \in heard /\ p[2] = names[p[1]]}
  /\ UNCHANGED <<opVars, selVars, file, requested, committing, names, stops>>

-----------------------------------------------------------------------------
(* Operations behind the gate                                              *)

Free == gate.pc = "idle" /\ ~closing /\ ~stopAll
Goes(pc) == gate' = [gate EXCEPT !.pc = pc]
Launches(op, pc, f, c) ==
  gate' = [op |-> op, pc |-> pc, file |-> f, ctx |-> c, prev |-> None]

\* findHealthyManagedSessionContext: the context of the Session to switch to.
Healthy(c, f) ==
  /\ c \in managed /\ ~stopAll /\ ~requested[c] /\ ~committing[c]
  /\ status[c] = "ready" /\ names[c] = f

\* activateSession, beginLaunch included.
Activate(f) ==
  /\ Free
  /\ IF Healthy(keyed[f], f) THEN Launches("activate", "persist", f, keyed[f])
     ELSE Launches("activate", "validate", f, None)
  /\ UNCHANGED <<closing, stopAll, stopper, bg, selVars, ctxVars, interrupted>>

\* activateHealthyManagedSession, after its await.
Switches ==
  /\ gate.pc = "persist"
  /\ gate' = NoLaunch
  /\ \/ ~stopAll /\ active' = gate.ctx
     \/ UNCHANGED active
  /\ UNCHANGED <<closing, stopAll, stopper, bg, managed, keyed, shown, ctxVars,
                 interrupted>>

\* The pointer is valid: the context the key gives is stopped, whatever it does.
Validated ==
  LET c == keyed[gate.file] IN
  /\ gate.pc = "validate" /\ gate.op = "activate" /\ ~stopAll
  /\ \/ /\ StopCalled(c, "gate", FALSE)
        /\ gate' = [gate EXCEPT !.pc = "stop", !.ctx = c]
     \/ /\ c \notin managed
        /\ Goes("trust")
        /\ UNCHANGED <<requested, status, stops, interrupted>>
  /\ UNCHANGED <<closing, stopAll, stopper, bg, selVars, file, committing,
                 names, runtime>>

\* reloadSession: validation and trust are awaited before the stop, and what
\* was checked is checked again.
ReloadTarget(c, f) == active = c /\ status[c] = "ready" /\ names[c] = f
Reload(c, f) ==
  /\ Free /\ ReloadTarget(c, f)
  /\ Launches("reload", "validate", f, c)
  /\ UNCHANGED <<closing, stopAll, stopper, bg, selVars, ctxVars, interrupted>>
ReloadStops ==
  /\ gate.pc = "validate" /\ gate.op = "reload" /\ ~stopAll
  /\ ReloadTarget(gate.ctx, gate.file)
  /\ StopCalled(gate.ctx, "gate", FALSE)
  /\ Goes("stop")
  /\ UNCHANGED <<closing, stopAll, stopper, bg, selVars, file, committing,
                 names, runtime>>

\* The stop of hibernation (blockReason): by hand of the context the key gives,
\* by the sweep of a ready one.
Hibernate(c, f) ==
  /\ Free
  /\ keyed[f] = c \/ (names[c] = f /\ status[c] = "ready")
  /\ c # active /\ f # Shown /\ names[c] # None
  /\ status[c] \in {"ready", "crashed"} /\ ~committing[c] /\ ~requested[c]
  /\ StopCalled(c, "gate", TRUE)
  /\ Launches("hibernate", "stop", f, c)
  /\ UNCHANGED <<closing, stopAll, stopper, bg, selVars, file, committing,
                 names, runtime>>

\* An await fails, stop() came meanwhile, or the target has changed.
GivesUp ==
  /\ gate.pc \in {"validate", "trust"}
  /\ gate' = NoLaunch
  /\ UNCHANGED <<closing, stopAll, stopper, bg, selVars, ctxVars, interrupted>>

\* launch, up to the start of the Runtime.  The state of the new context is
\* the one on screen: it names the Session that was active until it is ready.
Create(c) ==
  /\ runtime[c] = "new"
  /\ managed' = managed \cup {c}
  /\ keyed' = [keyed EXCEPT ![gate.file] = c]
  /\ active' = c
  /\ names' = [names EXCEPT ![c] = Shown]
  /\ file' = [file EXCEPT ![c] = gate.file]
  /\ status' = [status EXCEPT ![c] = "starting"]
  /\ runtime' = [runtime EXCEPT ![c] = "starting"]
  /\ gate' = [gate EXCEPT !.pc = "start", !.ctx = c, !.prev = active]
  /\ UNCHANGED <<closing, stopAll, stopper, bg, shown, requested, committing,
                 stops, interrupted>>

Trusted(c) == gate.pc = "trust" /\ ~stopAll /\ Create(c)

GateResumes == gate.pc = "stop" /\ ~Awaits("gate", gate.ctx)
\* The stop is over; one that failed left the context.
Replaces(c) ==
  /\ GateResumes /\ gate.op = "reload" /\ gate.ctx \notin managed /\ ~stopAll
  /\ Create(c)
StopOver ==
  /\ GateResumes
  /\ \/ /\ gate.op = "activate" /\ gate.ctx \notin managed /\ ~stopAll
        /\ Goes("trust")
     \/ /\ gate.op = "hibernate" \/ gate.ctx \in managed \/ stopAll
        /\ gate' = NoLaunch
  /\ UNCHANGED <<closing, stopAll, stopper, bg, selVars, ctxVars, interrupted>>

-----------------------------------------------------------------------------
(* launch, from the start of the Runtime                                   *)

\* isStartActive.  Mutant: a crash is not looked at.
StartCrashed(c) ==
  /\ active = c /\ ~stopAll /\ ~requested[c]
  /\ status[c] \notin {"stopping", "stopped"}
StartActive(c) == StartCrashed(c) /\ status[c] # "crashed"

\* The child takes one Runtime per Session file (SharedPiHost, OneOwner).
MayStart(c) == \A d \in Contexts : runtime[d] = "live" => file[d] # file[c]
Starts(c) ==
  /\ runtime[c] = "starting" /\ MayStart(c)
  /\ runtime' = [runtime EXCEPT ![c] = "live"]

Started ==
  /\ gate.pc = "start" /\ Starts(gate.ctx)
  /\ IF StartActive(gate.ctx) THEN Goes("ask") ELSE gate' = NoLaunch
  /\ UNCHANGED <<closing, stopAll, stopper, bg, selVars, file, status,
                 requested, committing, names, stops, interrupted>>

\* State, messages, commands, entries, models and transcript have come.
Answered ==
  /\ gate.pc = "ask" /\ StartActive(gate.ctx)
  /\ Goes("commit")
  /\ committing' = [committing EXCEPT ![gate.ctx] = TRUE]
  /\ UNCHANGED <<closing, stopAll, stopper, bg, selVars, file, status,
                 requested, names, runtime, stops, interrupted>>

\* The pointer and its metadata are stored: the context is ready.
Ready ==
  /\ gate.pc = "commit" /\ StartActive(gate.ctx)
  /\ gate' = NoLaunch
  /\ committing' = [committing EXCEPT ![gate.ctx] = FALSE]
  /\ names' = [names EXCEPT ![gate.ctx] = gate.file]
  /\ status' = [status EXCEPT ![gate.ctx] = "ready"]
  /\ keyed' = [keyed EXCEPT ![gate.file] = gate.ctx]
  /\ UNCHANGED <<closing, stopAll, stopper, bg, managed, active, shown, file,
                 requested, runtime, stops, interrupted>>

StartRejected == gate.pc = "start" /\ runtime[gate.ctx] = "gone"
\* The catch of launch: a start that was cancelled leaves its context as it is.
LaunchFails ==
  /\ gate.pc \in {"ask", "commit"} \/ StartRejected
  /\ committing' = [committing EXCEPT ![gate.ctx] = FALSE]
  /\ IF StartActive(gate.ctx) THEN Goes("cleanup") ELSE gate' = NoLaunch
  /\ UNCHANGED <<closing, stopAll, stopper, bg, selVars, file, status,
                 requested, names, runtime, stops, interrupted>>

\* cleanupFailedLaunch and the return to the context of before.
CleanedUp ==
  LET c == gate.ctx
      before == gate.prev \in managed \ {c} IN
  /\ gate.pc = "cleanup"
  /\ gate' = NoLaunch
  /\ \/ /\ runtime' = [runtime EXCEPT ![c] = "gone"]
        /\ managed' = managed \ {c}
        /\ keyed' = Unkeyed(c)
        /\ active' = IF before THEN gate.prev ELSE None
        /\ shown' = IF before THEN shown ELSE names[c]
        /\ UNCHANGED <<status, requested>>
     \/ /\ runtime[c] = "live"
        /\ requested' = [requested EXCEPT ![c] = FALSE]
        /\ status' = [status EXCEPT ![c] = "crashed"]
        /\ active' = IF before THEN gate.prev ELSE c
        /\ UNCHANGED <<runtime, managed, keyed, shown>>
  /\ UNCHANGED <<closing, stopAll, stopper, bg, file, committing, names, stops,
                 interrupted>>

-----------------------------------------------------------------------------
(* Background launch of the target of a delivery                           *)

BgGoes(f, pc) == bg' = [bg EXCEPT ![f].pc = pc]

\* deliverCollaborationMessage: no context has the Session.
Deliver(f) ==
  /\ bg[f].pc = "idle" /\ ~stopAll
  /\ \A c \in managed : names[c] # f
  /\ BgGoes(f, "trust")
  /\ UNCHANGED <<closing, stopAll, stopper, gate, selVars, ctxVars, interrupted>>

\* launchCollaborationContext after the await of the trust.  registerContext
\* takes the key, whoever has it.  Mutant: stop() is not looked at again.
BgTrustedAlways(f, c) ==
  /\ bg[f].pc = "trust" /\ runtime[c] = "new"
  /\ managed' = managed \cup {c}
  /\ keyed' = [keyed EXCEPT ![f] = c]
  /\ file' = [file EXCEPT ![c] = f]
  /\ status' = [status EXCEPT ![c] = "starting"]
  /\ committing' = [committing EXCEPT ![c] = TRUE]
  /\ runtime' = [runtime EXCEPT ![c] = "starting"]
  /\ bg' = [bg EXCEPT ![f] = [pc |-> "start", ctx |-> c]]
  /\ UNCHANGED <<closing, stopAll, stopper, gate, active, shown, requested,
                 names, stops, interrupted>>
BgTrusted(f, c) == ~stopAll /\ BgTrustedAlways(f, c)
BgRefused(f) ==
  /\ bg[f].pc = "trust"
  /\ bg' = [bg EXCEPT ![f] = Idle]
  /\ UNCHANGED <<closing, stopAll, stopper, gate, selVars, ctxVars, interrupted>>

\* assertOwned, then what an error does: a context that is still there is
\* stopped.
Owned(c) ==
  ~stopAll /\ c \in managed /\ ~requested[c] /\ status[c] # "crashed"
BgFails(f) ==
  LET c == bg[f].ctx IN
  /\ committing' = [committing EXCEPT ![c] = FALSE]
  /\ \/ StopCalled(c, "background", FALSE) /\ BgGoes(f, "stop")
     \/ /\ c \notin managed
        /\ bg' = [bg EXCEPT ![f] = Idle]
        /\ UNCHANGED <<requested, status, stops, interrupted>>
  /\ UNCHANGED <<closing, stopAll, stopper, gate, selVars, file, names>>

BgStarted(f) ==
  /\ bg[f].pc = "start" /\ Starts(bg[f].ctx)
  /\ \/ /\ Owned(bg[f].ctx)
        /\ BgGoes(f, "ask")
        /\ UNCHANGED <<closing, stopAll, stopper, gate, selVars, file, status,
                       requested, committing, names, stops, interrupted>>
     \/ ~Owned(bg[f].ctx) /\ BgFails(f)

BgRejected(f) == bg[f].pc = "start" /\ runtime[bg[f].ctx] = "gone"
BgRaises(f) ==
  /\ bg[f].pc = "ask" \/ BgRejected(f)
  /\ BgFails(f)
  /\ UNCHANGED runtime

\* The projection is complete: the context is ready and has the key.
BgReady(f) ==
  LET c == bg[f].ctx IN
  /\ bg[f].pc = "ask" /\ runtime[c] = "live" /\ Owned(c)
  /\ names' = [names EXCEPT ![c] = f]
  /\ status' = [status EXCEPT ![c] = "ready"]
  /\ keyed' = [keyed EXCEPT ![f] = c]
  /\ committing' = [committing EXCEPT ![c] = FALSE]
  /\ bg' = [bg EXCEPT ![f] = Idle]
  /\ UNCHANGED <<closing, stopAll, stopper, gate, managed, active, shown, file,
                 requested, runtime, stops, interrupted>>

BgResumes(f) == bg[f].pc = "stop" /\ ~Awaits("background", bg[f].ctx)
BgOver(f) ==
  /\ BgResumes(f)
  /\ bg' = [bg EXCEPT ![f] = Idle]
  /\ UNCHANGED <<closing, stopAll, stopper, gate, selVars, ctxVars, interrupted>>

-----------------------------------------------------------------------------
(* stop()                                                                  *)

StopperGoes(pc) == stopper' = [stopper EXCEPT !.pc = pc]

\* stopKernel closes the gate for good.  A launch that commits is let finish.
StopBegins ==
  /\ stopper.pc = "idle"
  /\ closing' = TRUE
  /\ IF active # None /\ committing[active]
       THEN StopperGoes("committing") /\ UNCHANGED stopAll
       ELSE StopperGoes("launch") /\ stopAll' = TRUE
  /\ UNCHANGED <<gate, bg, selVars, ctxVars, interrupted>>

StopGoesOn ==
  /\ stopper.pc = "committing" /\ gate.pc = "idle"
  /\ stopAll' = TRUE
  /\ StopperGoes("launch")
  /\ UNCHANGED <<closing, gate, bg, selVars, ctxVars, interrupted>>

\* waitForLaunchToSettle, then the snapshot.
StopSnapshot ==
  /\ stopper.pc = "launch" /\ gate.pc = "idle"
  /\ stopper' = [stopper EXCEPT !.pc = "each", !.todo = managed]
  /\ UNCHANGED <<closing, stopAll, gate, bg, selVars, ctxVars, interrupted>>

StopEach(c) ==
  /\ stopper.pc = "each" /\ c \in stopper.todo
  /\ \/ /\ StopCalled(c, "stopAll", FALSE)
        /\ stopper' = [pc |-> "one", todo |-> stopper.todo \ {c}, ctx |-> c]
     \/ /\ c \notin managed
        /\ stopper' = [stopper EXCEPT !.todo = @ \ {c}]
        /\ UNCHANGED <<requested, status, stops, interrupted>>
  /\ UNCHANGED <<closing, stopAll, gate, bg, selVars, file, committing, names,
                 runtime>>

StopResumes == stopper.pc = "one" /\ ~Awaits("stopAll", stopper.ctx)
StopNext ==
  /\ StopResumes
  /\ StopperGoes("each")
  /\ UNCHANGED <<closing, stopAll, gate, bg, selVars, ctxVars, interrupted>>

StopEnds ==
  /\ stopper.pc = "each" /\ stopper.todo = {}
  /\ stopAll' = FALSE
  /\ StopperGoes("idle")
  /\ UNCHANGED <<closing, gate, bg, selVars, ctxVars, interrupted>>

-----------------------------------------------------------------------------
\* Continuations of awaits that are over: they run before the next event.
Continue ==
  \/ StopOver \/ \E c \in Contexts : Replaces(c)
  \/ StartRejected /\ LaunchFails
  \/ \E f \in Files : BgOver(f) \/ (BgRejected(f) /\ BgRaises(f))
  \/ StopGoesOn \/ StopSnapshot \/ StopNext \/ StopEnds
  \/ \E c \in Contexts : StopEach(c)

Calm ==
  /\ ~GateResumes /\ ~StartRejected
  /\ \A f \in Files : ~BgResumes(f) /\ ~BgRejected(f)
  /\ ~StopResumes /\ stopper.pc # "each"
  /\ gate.pc = "idle" => stopper.pc \notin {"committing", "launch"}

Event ==
  \/ \E f \in Files :
       \/ Activate(f) \/ Deliver(f) \/ BgRefused(f) \/ BgStarted(f)
       \/ BgReady(f) \/ BgRaises(f)
       \/ \E c \in Contexts : Reload(c, f) \/ Hibernate(c, f) \/ BgTrusted(f, c)
  \/ \E c \in Contexts :
       \/ Trusted(c) \/ StopSettles(c)
       \/ runtime[c] \in {"starting", "live"} /\ Exits({c})
  \/ Exits({c \in Contexts : runtime[c] \in {"starting", "live"}})
  \/ Switches \/ Validated \/ ReloadStops \/ GivesUp
  \/ Started \/ Answered \/ Ready \/ LaunchFails \/ CleanedUp
  \/ StopBegins

Next == Continue \/ (Calm /\ Event)

Spec == Init /\ [][Next]_vars

-----------------------------------------------------------------------------
(* Properties                                                              *)

\* The foreground and the keys never refer to a context that is gone, though
\* they are set and cleared after awaits by what was read before them; and no
\* stop takes the foreground from another context than its own.
SelectionIsManaged ==
  /\ active \in managed \cup {None}
  /\ \A f \in Files : keyed[f] \in managed \cup {None}
  /\ \A c \in Contexts, who \in Caller :
       <<who, TRUE>> \in stops[c] => active \in {c, None}

\* A context that shows ready has a live Runtime, unless everything is being
\* stopped: no exit is missed between the awaits of a launch.
ReadyIsLive ==
  \A c \in managed : status[c] = "ready" /\ ~stopAll => runtime[c] = "live"

\* When stop() ends, every Runtime that may live belongs to a managed context
\* whose stop has failed or is still awaited: none was launched past it, and
\* none is forgotten.
StopReachesAll ==
  [][stopper.pc # "idle" /\ stopper'.pc = "idle" =>
       /\ \A c \in Contexts : runtime[c] \in {"starting", "live"} => c \in managed
       /\ \A c \in managed : status[c] = "crashed" \/ stops[c] # {}]_vars

\* A submission starts "the one Runtime of exactly this Session" or reuses it:
\* when nothing is being launched, a ready context is the one its key gives.
ReadyIsReused ==
  gate.pc = "idle" /\ (\A f \in Files : bg[f].pc = "idle") =>
    \A c \in managed : status[c] = "ready" => keyed[file[c]] = c

\* "An exception that can be attributed to one Runtime" concerns only its own
\* Session: the end of a context interrupts no other.
InterruptsItsOwn == \A p \in interrupted : p[2] = file[p[1]]
=============================================================================
