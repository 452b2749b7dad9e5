---------------------------- MODULE NativeSubagents ----------------------------
(***************************************************************************)
(* Background tasks of one Session in the Pi child.  Each Session object   *)
(* (driver) owns tasks (native-subagent-runtime.ts); a task at work has a  *)
(* Session object of its own, which may own tasks in turn.  A task works   *)
(* until its prompt and all its descendants are done; then its driver is   *)
(* disposed and its report starts a run of the owner.  The limit on the    *)
(* depth only takes behaviours away and is left out, as are the records    *)
(* of the tasks, which nothing but the display reads.                      *)
(*                                                                         *)
(* The child is one event loop: what a settled promise resumes goes on     *)
(* before the next event (Idle).  The long awaits are the read of the      *)
(* agent's definition, the creation of a driver, runs of the model and the *)
(* switch to another model.                                                *)
(***************************************************************************)
EXTENDS Naturals, FiniteSets

CONSTANTS
  Tasks,      \* task identities
  Continues   \* bound on how often tasks are continued

Root == "root"        \* the Session itself
Former == "former"    \* owner of what the Session knew under its former file
Nobody == "nobody"
Node == Tasks \cup {Root}

ASSUME NamesAreNew == Tasks \cap {Root, Former, Nobody} = {}
ASSUME TasksAreFinite == IsFiniteSet(Tasks)
ASSUME ContinuesIsNatural == Continues \in Nat

VARIABLES
  owner,      \* the node each task belongs to
  stage,      \* where its run is: creating, working, switching, closing, or idle
              \* when completion is null
  abort,      \* abortRequested of the tasks at work
  driver,     \* nodes whose Session object lives
  run,        \* what the model of each node works on: a user's prompt, the task's
              \* prompt, the note of a task that ended, or no
  asked,      \* calls that await the agent's definition
  aborting,   \* where abortTask() of each node is: no, abort, all
  waits,      \* tasks its abortAll() awaits
  dispose,    \* where dispose() of its driver is: no, abort, settle, closing
  leases,     \* NativeAgentLease.operations
  fenced,     \* NativeAgentLease.identity is set
  continues,  \* how often tasks have been continued
  strays      \* tasks Main continued too late for the Session to own them

taskVars == <<owner, stage, abort>>
nodeVars == <<driver, run, asked, aborting, waits, dispose>>
leaseVars == <<leases, fenced>>
past == <<continues, strays>>
vars == <<taskVars, nodeVars, leaseVars, past>>

AtWork == {t \in Tasks : stage[t] # "idle"}
\* The tasks of the Map of node n that are at work.
WorkOf(n) == {t \in AtWork : owner[t] = n}
\* parent(): the Session that a task of n persists to and reports to.
SessionOf(n) == IF n = Former THEN Root ELSE n
Unused == {t \in Tasks : owner[t] = Nobody}
\* Tool calls that keep the run of n from ending.
CallsOf(n) == {c \in asked : c = <<"start", n>> \/ (c[1] = "tool" /\ owner[c[2]] = n)}

-----------------------------------------------------------------------------
(* Aborts and disposals that wait for nothing                              *)

\* session.abort() of a node without a run returns at once.
\* Mutant: a run is not waited for.
AbortAtOnce(n) == aborting[n] = "abort"
AbortResumes(n) == aborting[n] = "abort" /\ run[n] = "no"
DisposeResumes(n) == dispose[n] = "abort" /\ run[n] = "no"
Idle == \A n \in Node : ~AbortResumes(n) /\ ~DisposeResumes(n)

\* stopTask() for each of S: it awaits their completion, and aborts the driver
\* of those that have one; an abort under way is joined.
Stops(S) ==
  abort' = [t \in Tasks |-> abort[t] \/ t \in S]
AbortCalled(S) ==
  [n \in Node |-> IF n \in S /\ n \in driver /\ aborting[n] = "no" THEN "abort"
                  ELSE aborting[n]]

\* abortTask() and then abortAll().
AbortProceeds(n) ==
  /\ AbortResumes(n)
  /\ Stops(WorkOf(n))
  /\ waits' = [waits EXCEPT ![n] = WorkOf(n)]
  /\ aborting' = [AbortCalled(WorkOf(n)) EXCEPT ![n] =
                    IF WorkOf(n) = {} THEN "no" ELSE "all"]
  /\ UNCHANGED <<owner, stage, driver, run, asked, dispose, leaseVars, past>>

\* NativeSubagentRuntime.dispose() up to waitForSettled().
DisposeProceeds(n) ==
  /\ DisposeResumes(n)
  /\ Stops(WorkOf(n))
  /\ aborting' = AbortCalled(WorkOf(n))
  /\ dispose' = [dispose EXCEPT ![n] = "settle"]
  /\ UNCHANGED <<owner, stage, driver, run, asked, waits, leaseVars, past>>

-----------------------------------------------------------------------------
(* Launch                                                                  *)

\* The model of n is at work and not being aborted.
Calls(n) ==
  /\ Idle /\ n \in driver /\ run[n] # "no"
  /\ aborting[n] # "abort" /\ dispose[n] = "no"

\* Commands of Main reach the Session.
RootServes == Idle /\ Root \in driver /\ dispose[Root] = "no"

\* The Task tool: start() up to its await.
AskStart(n) ==
  /\ Calls(n)
  /\ <<"start", n>> \notin asked
  /\ Cardinality({c \in asked : c[1] = "start"}) < Cardinality(Unused)
  /\ asked' = asked \cup {<<"start", n>>}
  /\ UNCHANGED <<taskVars, driver, run, aborting, waits, dispose, leaseVars, past>>

\* continueTask() up to its await, by the tool or by a command of Main.
AskContinue(t) ==
  /\ Idle /\ stage[t] = "idle" /\ continues < Continues
  /\ \E by \in {"tool", "control"} :
       /\ IF by = "tool" THEN Calls(owner[t])
          ELSE owner[t] = Root /\ RootServes /\ ~fenced
       /\ <<by, t>> \notin asked
       /\ asked' = asked \cup {<<by, t>>}
  /\ continues' = continues + 1
  /\ UNCHANGED <<taskVars, driver, run, aborting, waits, dispose, leaseVars, strays>>

\* launch(): refused by the fence, ended by a record that cannot be written,
\* or the task is at work.
NoTask(t) == UNCHANGED <<stage, abort, leases>>
\* Mutant: the fence is awaited.
TakesWork(t) ==
  /\ ~fenced
  /\ stage' = [stage EXCEPT ![t] = "creating"]
  /\ abort' = [abort EXCEPT ![t] = FALSE]
  /\ leases' = leases + 1
Launches(t) == NoTask(t) \/ TakesWork(t)

StartDone(n) ==
  /\ Idle /\ <<"start", n>> \in asked
  /\ asked' = asked \ {<<"start", n>>}
  /\ LET t == CHOOSE u \in Tasks : u \in Unused
     IN  t \in Unused /\ owner' = [owner EXCEPT ![t] = n] /\ Launches(t)
  /\ UNCHANGED <<driver, run, aborting, waits, dispose, fenced, past>>

\* The task may have been continued during the await; a Session that is gone
\* cannot write the record.  Mutant: the task is not looked at again.
NotLookedAt(t) == SessionOf(owner[t]) \in driver
StillIdle(t) == stage[t] = "idle" /\ SessionOf(owner[t]) \in driver
ContinueDone(t, by) ==
  /\ Idle /\ <<by, t>> \in asked
  /\ asked' = asked \ {<<by, t>>}
  /\ \/ /\ StillIdle(t) /\ Launches(t)
        /\ strays' = IF /\ stage'[t] # "idle"
                        /\ owner[t] = Former \/ dispose[SessionOf(owner[t])] = "closing"
                     THEN strays \cup {t} ELSE strays
     \/ ~StillIdle(t) /\ NoTask(t) /\ UNCHANGED strays
  /\ UNCHANGED <<owner, driver, run, aborting, waits, dispose, fenced, continues>>

-----------------------------------------------------------------------------
(* The run of a task                                                       *)

\* The run is over, and the finally clause disposes the driver.
Closes(t) ==
  /\ stage' = [stage EXCEPT ![t] = "closing"]
  /\ dispose' = [dispose EXCEPT ![t] = "abort"]

\* createChild() is done: if nobody asked for a stop meanwhile the task is
\* prompted.
Created(t) ==
  /\ Idle /\ stage[t] = "creating"
  /\ driver' = driver \cup {t}
  /\ LET goesOn == ~abort[t] /\ SessionOf(owner[t]) \in driver
     IN  /\ stage' = [stage EXCEPT ![t] = IF goesOn THEN "working" ELSE "closing"]
                /\ run' = [run EXCEPT ![t] = IF goesOn THEN "prompt" ELSE "no"]
         /\ dispose' = [dispose EXCEPT ![t] = IF goesOn THEN "no" ELSE "abort"]
  /\ UNCHANGED <<owner, abort, asked, aborting, waits, leaseVars, past>>

\* What follows the run: completion is null, the lease is released, who waits
\* goes on, and the owner is told unless it is aborting or disposed.
MayTell(n) ==
  n \in driver /\ dispose[n] \notin {"settle", "closing"} /\ aborting[n] # "all"
Finishes(t) ==
  LET s == SessionOf(owner[t])
  IN  /\ stage' = [stage EXCEPT ![t] = "idle"]
      /\ abort' = [abort EXCEPT ![t] = FALSE]
      /\ leases' = leases - 1
      /\ waits' = [n \in Node |-> waits[n] \ {t}]
      /\ aborting' = [n \in Node |->
           IF aborting[n] = "all" /\ waits[n] = {t} THEN "no" ELSE aborting[n]]
      /\ run' = IF MayTell(s) /\ run[s] = "no" THEN [run EXCEPT ![s] = "note"] ELSE run

CreateFails(t) ==
  /\ Idle /\ stage[t] = "creating"
  /\ Finishes(t)
  /\ UNCHANGED <<owner, driver, asked, dispose, fenced, past>>

\* A run of the model ends, once its tool calls have returned.
RunEnds(n) ==
  /\ Idle /\ run[n] # "no" /\ CallsOf(n) = {}
  /\ run' = [run EXCEPT ![n] = "no"]
  /\ UNCHANGED <<taskVars, driver, asked, aborting, waits, dispose, leaseVars, past>>

\* runTask() returns when the task, its own tasks and their reports are done.
\* Mutant: it waits for the lease, which the task itself holds.
LeaseIsFree(t) == leases = 0
Settled(t) == WorkOf(t) = {} /\ run[t] = "no"
WorkEnds(t) ==
  /\ Idle /\ stage[t] = "working" /\ Settled(t)
  /\ Closes(t)
  /\ UNCHANGED <<owner, abort, driver, run, asked, aborting, waits, leaseVars, past>>

\* The prompt itself is rejected, whatever the task has started by then.
PromptIsRejected(t) == run[t] = "prompt" /\ CallsOf(t) = {}
PromptRejected(t) ==
  /\ Idle /\ PromptIsRejected(t)
  /\ run' = [run EXCEPT ![t] = "no"]
  /\ Closes(t)
  /\ UNCHANGED <<owner, abort, driver, asked, aborting, waits, leaseVars, past>>

\* The attempt failed in either way: another model, if nobody asked for a stop.
FallsBack(t) ==
  /\ Idle /\ stage[t] = "working" /\ ~abort[t]
  /\ PromptIsRejected(t) \/ Settled(t)
  /\ run' = [run EXCEPT ![t] = "no"]
  /\ stage' = [stage EXCEPT ![t] = "switching"]
  /\ UNCHANGED <<owner, abort, driver, asked, aborting, waits, dispose,
                 leaseVars, past>>

\* switchTaskModel() is done, and the task is prompted again, asked to stop or
\* not; a report that came meanwhile keeps Pi from it.
SwitchDone(t) ==
  /\ Idle /\ stage[t] = "switching"
  /\ \/ /\ run[t] = "no"
        /\ stage' = [stage EXCEPT ![t] = "working"]
        /\ run' = [run EXCEPT ![t] = "prompt"]
        /\ UNCHANGED dispose
     \/ /\ run[t] # "no"
        /\ Closes(t)
        /\ UNCHANGED run
  /\ UNCHANGED <<owner, abort, driver, asked, aborting, waits, leaseVars, past>>

\* The driver of a task is disposed when all its own tasks are over.
\* Mutant: they are not waited for.
RunOver(n) == run[n] = "no"
NoActivity(n) == WorkOf(n) = {} /\ run[n] = "no"
TaskCloses(t) ==
  /\ Idle /\ dispose[t] = "settle" /\ NoActivity(t)
  /\ driver' = driver \ {t}
  /\ dispose' = [dispose EXCEPT ![t] = "no"]
  /\ Finishes(t)
  /\ UNCHANGED <<owner, asked, fenced, past>>

-----------------------------------------------------------------------------
(* Stops, and the Session itself                                           *)

\* stopTask() by TaskStop or a command of Main, and the limits on time and turns.
StopTask(t) ==
  /\ Idle /\ t \in AtWork /\ aborting[t] = "no"
  /\ owner[t] # Former \/ stage[t] = "working"
  /\ Stops({t})
  /\ aborting' = AbortCalled({t})
  /\ UNCHANGED <<owner, stage, driver, run, asked, waits, dispose,
                 leaseVars, past>>

Prompt ==
  /\ RootServes /\ run[Root] = "no" /\ ~fenced
  /\ run' = [run EXCEPT ![Root] = "user"]
  /\ UNCHANGED <<taskVars, driver, asked, aborting, waits, dispose, leaseVars, past>>

\* The abort command.
Abort ==
  /\ RootServes /\ aborting[Root] = "no"
  /\ aborting' = [aborting EXCEPT ![Root] = "abort"]
  /\ UNCHANGED <<taskVars, driver, run, asked, waits, dispose, leaseVars, past>>

\* Hibernation fences the Session, and opens it again.
MayFence == leases = 0
Fence ==
  /\ RootServes /\ MayFence /\ ~fenced /\ run[Root] = "no"
  /\ fenced' = TRUE
  /\ UNCHANGED <<taskVars, nodeVars, leases, past>>

Unfence ==
  /\ RootServes /\ fenced
  /\ fenced' = FALSE
  /\ UNCHANGED <<taskVars, nodeVars, leases, past>>

\* The Session goes on in another file, which must know none of its tasks.
Replace ==
  /\ RootServes /\ run[Root] = "no" /\ leases = 0 /\ WorkOf(Root) = {}
  /\ owner' = [t \in Tasks |-> IF owner[t] = Root THEN Former ELSE owner[t]]
  /\ UNCHANGED <<stage, abort, nodeVars, leaseVars, past>>

Dispose ==
  /\ RootServes
  /\ dispose' = [dispose EXCEPT ![Root] = "abort"]
  /\ UNCHANGED <<taskVars, driver, run, asked, aborting, waits, leaseVars, past>>

\* The tasks have settled; the Session object ends after a last await.
RootSettles ==
  /\ Idle /\ dispose[Root] = "settle" /\ NoActivity(Root)
  /\ dispose' = [dispose EXCEPT ![Root] = "closing"]
  /\ UNCHANGED <<taskVars, driver, run, asked, aborting, waits, leaseVars, past>>

RootCloses ==
  /\ Idle /\ dispose[Root] = "closing"
  /\ driver' = driver \ {Root}
  /\ dispose' = [dispose EXCEPT ![Root] = "no"]
  /\ fenced' = FALSE
  /\ UNCHANGED <<taskVars, run, asked, aborting, waits, leases, past>>

\* The process dies with all Session objects; what they recorded remains.
Crash ==
  /\ Idle /\ driver # {}
  /\ stage' = [t \in Tasks |-> "idle"]
  /\ abort' = [t \in Tasks |-> FALSE]
  /\ driver' = {} /\ asked' = {}
  /\ run' = [n \in Node |-> "no"]
  /\ aborting' = [n \in Node |-> "no"]
  /\ waits' = [n \in Node |-> {}]
  /\ dispose' = [n \in Node |-> "no"]
  /\ leases' = 0 /\ fenced' = FALSE
  /\ UNCHANGED <<owner, past>>

\* The Session is started again, once nothing is left of its last life.
Restart ==
  /\ driver = {} /\ AtWork = {} /\ asked = {}
  /\ driver' = {Root}
  /\ UNCHANGED <<owner, stage, abort, run, asked, aborting, waits, dispose,
                 leaseVars, past>>

-----------------------------------------------------------------------------
Init ==
  /\ owner = [t \in Tasks |-> Nobody]
  /\ stage = [t \in Tasks |-> "idle"] /\ abort = [t \in Tasks |-> FALSE]
  /\ driver = {Root}
  /\ run = [n \in Node |-> "no"]
  /\ asked = {}
  /\ aborting = [n \in Node |-> "no"] /\ waits = [n \in Node |-> {}]
  /\ dispose = [n \in Node |-> "no"]
  /\ leases = 0 /\ fenced = FALSE
  /\ continues = 0 /\ strays = {}

\* What the child does by itself: promises are settled and runs of a model end.
Answers ==
  \/ \E n \in Node : StartDone(n)
  \/ \E t \in Tasks, by \in {"tool", "control"} : ContinueDone(t, by)
Runs(t) ==
  \/ Created(t) \/ CreateFails(t) \/ WorkEnds(t) \/ PromptRejected(t) \/ FallsBack(t)
  \/ SwitchDone(t) \/ TaskCloses(t)
GoesOn ==
  \/ Answers \/ RootSettles \/ RootCloses
  \/ \E n \in Node : AbortProceeds(n) \/ DisposeProceeds(n) \/ RunEnds(n)
  \/ \E t \in Tasks : Runs(t)

\* What models, the user, Main and the operating system may ask of it.
Next ==
  \/ GoesOn
  \/ Prompt \/ Abort \/ Fence \/ Unfence \/ Replace \/ Dispose \/ Crash \/ Restart
  \/ \E n \in Node : AskStart(n)
  \/ \E t \in Tasks : AskContinue(t) \/ StopTask(t)

Spec == Init /\ [][Next]_vars

-----------------------------------------------------------------------------
(* Properties                                                              *)

\* Whatever works is owned by a Session object that lives and, unless it is the
\* Session itself, is at work: no task outlives its owner, and everything can
\* be stopped from above.  One hole is left: a continue of Main that awaits the
\* definition while the Session is disposed or replaced launches its task in
\* nobody's Map, as only the first look at disposed comes before the await.
WorkIsOwned ==
  \A t \in AtWork :
    \/ owner[t] \in AtWork \cap driver
    \/ owner[t] = Root /\ Root \in driver
    \/ t \in strays

\* "A running child task must block the hibernation of its parent Runtime": the
\* one lease of the Session counts exactly the tasks at work, at any depth, so
\* none works behind the fence and none keeps it from closing for good.
LeaseCountsWork == leases = Cardinality(AtWork) /\ (fenced => AtWork = {})

\* Once abortTask() stops the tasks of a node, the node's own model neither goes
\* on nor starts again, or it could launch others that nobody stops; but for a
\* new prompt of the user, and the prompt that follows a switch of models.
QuietWhileAborting ==
  [][\A n \in Node :
       aborting'[n] = "all" /\ run'[n] \in {"prompt", "note"} =>
         (n \in Tasks /\ stage[n] = "switching") \/ (aborting[n] = "all" /\ run[n] = run'[n])]_vars

\* The child has a step to make by itself: what the guards of GoesOn come to.
CanGoOn ==
  \/ ~Idle \/ dispose[Root] = "closing"
  \/ \E n \in Node : \/ run[n] # "no" /\ CallsOf(n) = {}
                     \/ <<"start", n>> \in asked /\ Unused # {}
                     \/ dispose[n] = "settle" /\ NoActivity(n)
  \/ \E t \in Tasks : \/ <<"tool", t>> \in asked \/ <<"control", t>> \in asked
                      \/ stage[t] \in {"creating", "switching"}
                      \/ stage[t] = "working" /\ Settled(t)

\* While a task is at work, or an abort or a disposal is under way, the child has
\* a step to make by itself, whatever the user does: who waits for tasks to end
\* never waits for itself, for its own owner or for the lease it holds.
NobodyWaitsForever ==
  (AtWork # {} \/ \E n \in Node : aborting[n] # "no" \/ dispose[n] # "no") => CanGoOn

\* A call that awaits a definition can always be answered, and an abort, a disposal
\* or a stage always be left, whatever the fence, a lost Session object or a second
\* call did meanwhile: where the guards allow a step the whole handler can be run.
EveryHandlerReturns == CanGoOn <=> ENABLED GoesOn
=============================================================================
