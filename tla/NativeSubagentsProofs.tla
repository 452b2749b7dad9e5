------------------------- MODULE NativeSubagentsProofs -------------------------
(***************************************************************************)
(* The lease of a Session counts the tasks at work, work belongs to who can*)
(* still stop it, and what is being aborted starts nothing: for any finite *)
(* set of tasks, however they nest and whatever stops, aborts or kills.    *)
(***************************************************************************)
EXTENDS NativeSubagents, FiniteSetTheorems, WellFoundedInduction, TLAPS

USE NamesAreNew, TasksAreFinite

Stage == {"idle", "creating", "working", "switching", "closing"}

Types ==
  /\ owner \in [Tasks -> Node \cup {Former, Nobody}]
  /\ stage \in [Tasks -> Stage]
  /\ driver \in SUBSET Node
  /\ run \in [Node -> {"no", "user", "prompt", "note"}]
  /\ dispose \in [Node -> {"no", "abort", "settle", "closing"}]
  /\ fenced \in BOOLEAN

\* Nobody's task does nothing, a driver is disposed only by a task that closes,
\* and a prompt that may be rejected belongs to a task that works.
Placed(t) ==
  /\ owner[t] = Nobody => stage[t] = "idle"
  /\ dispose[t] # "no" => stage[t] = "closing"
  /\ run[t] = "prompt" => stage[t] = "working"

IInv == Types /\ LeaseCountsWork /\ \A t \in Tasks : Placed(t)

Same == AtWork' = AtWork /\ leases' = leases
Begins(t) ==
  t \in Tasks \ AtWork /\ ~fenced /\ AtWork' = AtWork \cup {t} /\ leases' = leases + 1
Finished(t) == t \in AtWork /\ AtWork' = AtWork \ {t} /\ leases' = leases - 1

-----------------------------------------------------------------------------
(* What a step does to the count                                           *)

LEMMA LeasesCount == LeaseCountsWork => leases \in Nat /\ (leases = 0 => AtWork = {})
<1>1. IsFiniteSet(AtWork)
  BY FS_Subset DEF AtWork
<1> QED BY <1>1, FS_CardinalityType, FS_EmptySet DEF LeaseCountsWork

LEMMA CountKept ==
  ASSUME LeaseCountsWork, fenced' => fenced,
         Same \/ \E t \in Tasks : Begins(t) \/ Finished(t)
  PROVE  LeaseCountsWork'
<1>1. IsFiniteSet(AtWork)
  BY FS_Subset DEF AtWork
<1>2. leases \in Nat /\ leases = Cardinality(AtWork) /\ (fenced => AtWork = {})
  BY LeasesCount DEF LeaseCountsWork
<1>3. CASE Same
  BY <1>2, <1>3 DEF Same, LeaseCountsWork
<1>4. ASSUME NEW t \in Tasks, Begins(t) PROVE LeaseCountsWork'
  <2>1. Cardinality(AtWork \cup {t}) = Cardinality(AtWork) + 1
    BY <1>1, <1>4, FS_AddElement DEF Begins
  <2> QED BY <1>2, <1>4, <2>1 DEF Begins, LeaseCountsWork
<1>5. ASSUME NEW t \in Tasks, Finished(t) PROVE LeaseCountsWork'
  <2>1. Cardinality(AtWork \ {t}) = Cardinality(AtWork) - 1
    BY <1>1, <1>5, FS_RemoveElement DEF Finished
  <2> QED BY <1>2, <1>5, <2>1 DEF Finished, LeaseCountsWork
<1> QED BY <1>3, <1>4, <1>5

-----------------------------------------------------------------------------
(* One lemma for each kind of step                                         *)

\* Steps that leave the tasks where they are.
Rests ==
  /\ stage' = stage /\ leases' = leases
  /\ \A t \in Tasks : owner[t] = Nobody \/ owner'[t] # Nobody
  /\ \A t \in Tasks : owner'[t] = Nobody => owner[t] = Nobody
  /\ \A t \in Tasks : run'[t] = "prompt" => run[t] = "prompt"
  /\ \A t \in Tasks : dispose'[t] # "no" => dispose[t] # "no"

LEMMA RestsKeeps ==
  ASSUME IInv, Rests, Types', fenced' => fenced
  PROVE  IInv'
<1>1. Same
  BY DEF Rests, Same, AtWork
<1>2. LeaseCountsWork'
  BY <1>1, CountKept DEF IInv
<1>3. ASSUME NEW t \in Tasks PROVE Placed(t)'
  BY DEF IInv, Rests, Placed
<1> QED BY <1>2, <1>3 DEF IInv

LEMMA ProceedsKeeps ==
  ASSUME IInv, NEW n \in Node, AbortProceeds(n) \/ DisposeProceeds(n)
  PROVE  IInv'
<1>1. CASE AbortProceeds(n)
  BY <1>1, RestsKeeps DEF AbortProceeds, Rests, IInv, Types, leaseVars
<1>2. CASE DisposeProceeds(n)
  <2>1. dispose[n] = "abort"
    BY <1>2 DEF DisposeProceeds, DisposeResumes
  <2>2. Types' /\ Rests
    BY <1>2, <2>1 DEF DisposeProceeds, Rests, IInv, Types, leaseVars
  <2> QED BY <1>2, <2>2, RestsKeeps DEF DisposeProceeds, leaseVars
<1> QED BY <1>1, <1>2

LEMMA AsksKeeps ==
  ASSUME IInv, (\E n \in Node : AskStart(n)) \/ (\E t \in Tasks : AskContinue(t) \/ StopTask(t))
  PROVE  IInv'
<1>1. /\ UNCHANGED <<owner, stage, driver, run, dispose, leaseVars>>
  BY DEF AskStart, AskContinue, StopTask, taskVars, leaseVars
<1> QED BY <1>1, RestsKeeps DEF Rests, IInv, Types, leaseVars

LEMMA RestingStepsKeep ==
  ASSUME IInv,
         \/ Prompt \/ Abort \/ Unfence \/ Replace \/ Dispose \/ Restart
         \/ RootSettles \/ RootCloses \/ \E n \in Node : RunEnds(n)
  PROVE  IInv'
<1> USE DEF taskVars, nodeVars, leaseVars
<1>1. ASSUME Prompt \/ Abort \/ Unfence \/ Restart PROVE IInv'
  <2>1. UNCHANGED <<owner, stage, leases, dispose>> /\ (fenced' => fenced)
    BY <1>1 DEF Prompt, Abort, Unfence, Restart, IInv, Types
  <2>3. \A t \in Tasks : run'[t] = "prompt" => run[t] = "prompt"
    BY <1>1 DEF Prompt, Abort, Unfence, Restart, IInv, Types, Node
  <2>4. Rests
    BY <2>1, <2>3 DEF Rests
  <2>2. Types'
    BY <1>1 DEF Prompt, Abort, Unfence, Restart, IInv, Types, Node
  <2> QED BY <2>1, <2>2, <2>4, RestsKeeps
<1>2. CASE Replace
  <2>1. Rests /\ (fenced' => fenced)
    BY <1>2 DEF Replace, Rests, IInv, Types, Nobody, Former
  <2>2. Types'
    BY <1>2 DEF Replace, IInv, Types
  <2> QED BY <2>1, <2>2, RestsKeeps
<1>3. ASSUME Dispose \/ RootSettles \/ RootCloses PROVE IInv'
  <2>1. UNCHANGED <<owner, stage, leases, run>> /\ (fenced' => fenced)
    BY <1>3 DEF Dispose, RootSettles, RootCloses
  <2>3. \A t \in Tasks : dispose'[t] # "no" => dispose[t] # "no"
    BY <1>3 DEF Dispose, RootSettles, RootCloses, IInv, Types, Node
  <2>4. Rests
    BY <2>1, <2>3 DEF Rests
  <2>2. Types'
    BY <1>3 DEF Dispose, RootSettles, RootCloses, IInv, Types, Node
  <2> QED BY <2>1, <2>2, <2>4, RestsKeeps
<1>4. ASSUME NEW n \in Node, RunEnds(n) PROVE IInv'
  <2>1. Rests /\ Types' /\ (fenced' => fenced)
    BY <1>4 DEF RunEnds, Rests, IInv, Types
  <2> QED BY <2>1, RestsKeeps
<1> QED BY <1>1, <1>2, <1>3, <1>4

LEMMA FenceKeeps == ASSUME IInv, Fence PROVE IInv'
<1>1. AtWork = {}
  BY LeasesCount DEF IInv, Fence, MayFence
<1>2. LeaseCountsWork'
  BY <1>1 DEF IInv, LeaseCountsWork, Fence, AtWork, taskVars
<1> QED BY <1>2 DEF IInv, Types, Placed, Fence, taskVars, nodeVars

-----------------------------------------------------------------------------
(* Steps of one task                                                       *)

\* Nothing happens to u but the end of its run or a note.
Untouched(u) ==
  /\ owner'[u] = owner[u] /\ stage'[u] = stage[u] /\ dispose'[u] = dispose[u]
  /\ run'[u] = "prompt" => run[u] = "prompt"

LEMMA OneTaskKeeps ==
  ASSUME IInv, Types', fenced' => fenced, NEW t \in Tasks,
         Same \/ Begins(t) \/ Finished(t), Placed(t)', \A u \in Tasks \ {t} : Untouched(u)
  PROVE  IInv'
<1>1. LeaseCountsWork'
  BY CountKept DEF IInv
<1>2. ASSUME NEW u \in Tasks \ {t} PROVE Placed(u)'
  BY DEF IInv, Placed, Untouched
<1> QED BY <1>1, <1>2 DEF IInv

\* Steps of a task that goes on.
LEMMA OnwardsKeeps ==
  ASSUME IInv, NEW t \in Tasks,
         Created(t) \/ WorkEnds(t) \/ PromptRejected(t) \/ FallsBack(t) \/ SwitchDone(t)
  PROVE  IInv'
<1> USE DEF leaseVars
<1>1. stage[t] # "idle" /\ owner[t] # Nobody /\ fenced' = fenced /\ leases' = leases
  BY DEF IInv, Placed, Created, WorkEnds, PromptRejected, PromptIsRejected, FallsBack,
         SwitchDone
<1>2. Types'
  BY DEF IInv, Types, Stage, Node, Created, WorkEnds, PromptRejected, FallsBack,
         SwitchDone, Closes
<1>3. /\ \A u \in Tasks \ {t} : Untouched(u)
      /\ owner' = owner /\ stage'[t] # "idle"
  BY DEF IInv, Types, Untouched, Created, WorkEnds, PromptRejected, FallsBack,
         SwitchDone, Closes, Node
<1>4. Same
  BY <1>1, <1>3 DEF Same, AtWork, Untouched
<1>5. Placed(t)'
  <2>1. CASE Created(t)
    BY <2>1, <1>1, <1>3 DEF IInv, Types, Placed, Created, Node
  <2>2. CASE WorkEnds(t)
    BY <2>2, <1>1, <1>3 DEF IInv, Types, Placed, WorkEnds, Settled, Closes, Node
  <2>3. CASE PromptRejected(t)
    BY <2>3, <1>1, <1>3 DEF IInv, Types, Placed, PromptRejected, Closes, Node
  <2>4. CASE FallsBack(t)
    BY <2>4, <1>1, <1>3 DEF IInv, Types, Placed, FallsBack, Node
  <2>5. CASE SwitchDone(t)
    BY <2>5, <1>1, <1>3 DEF IInv, Types, Placed, SwitchDone, Closes, Node
  <2> QED BY <2>1, <2>2, <2>3, <2>4, <2>5
<1> QED BY <1>1, <1>2, <1>3, <1>4, <1>5, OneTaskKeeps

LEMMA LaunchKeeps ==
  ASSUME IInv, NEW t \in Tasks, stage[t] = "idle", Launches(t),
         owner' \in [Tasks -> Node \cup {Former, Nobody}], owner'[t] # Nobody,
         \A u \in Tasks \ {t} : owner'[u] = owner[u],
         UNCHANGED <<driver, run, dispose, fenced>>
  PROVE  IInv'
<1>1. CASE NoTask(t)
  <2>1. Rests /\ Types'
    BY <1>1 DEF NoTask, Rests, IInv, Types, Placed
  <2> QED BY <2>1, RestsKeeps
<1>2. CASE ~NoTask(t)
  <2>1. stage' = [stage EXCEPT ![t] = "creating"] /\ leases' = leases + 1 /\ ~fenced
    BY <1>2 DEF Launches, TakesWork
  <2>2. Types'
    BY <2>1 DEF IInv, Types, Stage
  <2>3. Begins(t)
    BY <2>1 DEF Begins, AtWork, IInv, Types
  <2>4. Placed(t)'
    BY <2>1 DEF IInv, Types, Placed
  <2>5. \A u \in Tasks \ {t} : Untouched(u)
    BY <2>1 DEF Untouched, IInv, Types
  <2> QED BY <2>2, <2>3, <2>4, <2>5, OneTaskKeeps
<1> QED BY <1>1, <1>2

LEMMA AnswersKeep == ASSUME IInv, Answers PROVE IInv'
<1>1. ASSUME NEW n \in Node, StartDone(n) PROVE IInv'
  <2>1. PICK t \in Tasks : /\ owner[t] = Nobody /\ owner' = [owner EXCEPT ![t] = n]
                           /\ Launches(t)
    BY <1>1 DEF StartDone, Unused
  <2>2. stage[t] = "idle" /\ n # Nobody
    BY <2>1 DEF IInv, Placed, Node, Root, Nobody
  <2>3. /\ owner' \in [Tasks -> Node \cup {Former, Nobody}] /\ owner'[t] # Nobody
        /\ \A u \in Tasks \ {t} : owner'[u] = owner[u]
    BY <2>1, <2>2 DEF IInv, Types
  <2>4. UNCHANGED <<driver, run, dispose, fenced>>
    BY <1>1 DEF StartDone
  <2> QED BY <2>1, <2>2, <2>3, <2>4, LaunchKeeps
<1>2. ASSUME NEW t \in Tasks, NEW by \in {"tool", "control"}, ContinueDone(t, by)
      PROVE  IInv'
  <2>1. UNCHANGED <<owner, driver, run, dispose, fenced>>
    BY <1>2 DEF ContinueDone
  <2>2. owner \in [Tasks -> Node \cup {Former, Nobody}]
    BY DEF IInv, Types
  <2>3. CASE StillIdle(t) /\ Launches(t)
    <3>1. owner[t] # Nobody
      BY <2>3 DEF StillIdle, SessionOf, IInv, Types, Node, Root, Former, Nobody
    <3> QED BY <2>1, <2>2, <2>3, <3>1, LaunchKeeps DEF StillIdle
  <2>4. CASE NoTask(t)
    BY <2>1, <2>4, RestsKeeps DEF NoTask, Rests, IInv, Types
  <2> QED BY <1>2, <2>3, <2>4 DEF ContinueDone
<1> QED BY <1>1, <1>2 DEF Answers

\* The end of a task, for whichever reason.
LEMMA FinishesKeeps ==
  ASSUME IInv, NEW t \in Tasks, stage[t] # "idle", run[t] # "prompt", Finishes(t),
         driver' \in SUBSET Node, dispose' \in [Node -> {"no", "abort", "settle", "closing"}],
         dispose'[t] = "no", \A u \in Tasks \ {t} : dispose'[u] = dispose[u],
         UNCHANGED <<owner, fenced>>
  PROVE  IInv'
<1>1. \A n \in Node : run'[n] = "prompt" => run[n] = "prompt"
  BY DEF Finishes, IInv, Types
<1>2. Types'
  BY DEF Finishes, IInv, Types, Stage
<1>3. Finished(t)
  BY DEF Finished, Finishes, AtWork, IInv, Types
<1>4. Placed(t)'
  BY <1>1 DEF Placed, Finishes, IInv, Types, Node
<1>5. \A u \in Tasks \ {t} : Untouched(u)
  BY <1>1 DEF Untouched, Finishes, IInv, Types, Node
<1> QED BY <1>2, <1>3, <1>4, <1>5, OneTaskKeeps

LEMMA EndsKeep == ASSUME IInv, NEW t \in Tasks, CreateFails(t) \/ TaskCloses(t) PROVE IInv'
<1>1. CASE CreateFails(t)
  <2>1. stage[t] = "creating" /\ dispose[t] = "no" /\ run[t] # "prompt"
    BY <1>1 DEF CreateFails, IInv, Placed
  <2> QED BY <1>1, <2>1, FinishesKeeps DEF CreateFails, IInv, Types
<1>2. CASE TaskCloses(t)
  <2>1. stage[t] = "closing" /\ run[t] # "prompt" /\ t \in Node
    BY <1>2 DEF TaskCloses, IInv, Placed, Node
  <2>2. dispose' = [dispose EXCEPT ![t] = "no"] /\ driver' \in SUBSET Node
    BY <1>2 DEF TaskCloses, IInv, Types
  <2>3. /\ dispose' \in [Node -> {"no", "abort", "settle", "closing"}]
        /\ dispose'[t] = "no" /\ \A u \in Tasks \ {t} : dispose'[u] = dispose[u]
    BY <2>1, <2>2 DEF IInv, Types, Node
  <2> QED BY <1>2, <2>1, <2>2, <2>3, FinishesKeeps DEF TaskCloses
<1> QED BY <1>1, <1>2

LEMMA CrashKeeps == ASSUME IInv, Crash PROVE IInv'
<1>1. AtWork' = {}
  BY DEF Crash, AtWork
<1>2. LeaseCountsWork'
  BY <1>1, FS_EmptySet DEF Crash, LeaseCountsWork
<1>3. Types'
  BY DEF Crash, IInv, Types, Stage, past
<1>4. \A t \in Tasks : Placed(t)'
  BY DEF Crash, Placed, Node
<1> QED BY <1>2, <1>3, <1>4 DEF IInv

-----------------------------------------------------------------------------
LEMMA InitHolds == Init => IInv
<1> SUFFICES ASSUME Init PROVE IInv
  OBVIOUS
<1>1. AtWork = {}
  BY DEF Init, AtWork
<1>2. LeaseCountsWork
  BY <1>1, FS_EmptySet DEF Init, LeaseCountsWork
<1>3. Types
  BY DEF Init, Types, Stage, Node
<1>4. \A t \in Tasks : Placed(t)
  BY DEF Init, Placed, Node
<1> QED BY <1>2, <1>3, <1>4 DEF IInv

LEMMA StepKeeps == IInv /\ [Next]_vars => IInv'
<1> SUFFICES ASSUME IInv, [Next]_vars PROVE IInv'
  OBVIOUS
<1>1. CASE UNCHANGED vars
  BY <1>1, RestsKeeps DEF vars, taskVars, nodeVars, leaseVars, Rests, IInv, Types
<1>2. CASE GoesOn
  <2>1. CASE \E n \in Node : AbortProceeds(n) \/ DisposeProceeds(n)
    BY <2>1, ProceedsKeeps
  <2>2. CASE \E t \in Tasks : Runs(t)
    BY <2>2, OnwardsKeeps, EndsKeep DEF Runs
  <2> QED BY <1>2, <2>1, <2>2, AnswersKeep, RestingStepsKeep DEF GoesOn
<1> QED BY <1>1, <1>2, RestingStepsKeep, FenceKeeps, AsksKeeps, CrashKeeps DEF Next

\* Everything below follows from this: the types, the count, and where the open
\* disposals and prompts are (NativeSubagentRuntime in native-subagent-runtime.ts).
THEOREM Inductive == Spec => []IInv
BY InitHolds, StepKeeps, PTL DEF Spec

\* The one lease of the Session counts exactly its tasks at work, and the fence
\* of hibernation stands before none (NativeAgentLease).
THEOREM LeaseCounts == Spec => []LeaseCountsWork
<1>1. IInv => LeaseCountsWork
  BY DEF IInv
<1> QED BY Inductive, <1>1, PTL

-----------------------------------------------------------------------------
(* Who owns what works                                                     *)

\* A task has a Session object from its creation to the end of its disposal.
Living == \A t \in Tasks : t \in driver <=> stage[t] \in {"working", "switching", "closing"}

\* A model works for a Session object that lives and still aborts, if at all.
RunLives(n) == run[n] # "no" => n \in driver /\ dispose[n] \notin {"settle", "closing"}

\* Who awaits a definition is a call of a run that cannot end, or Main.
CallsLive ==
  /\ \A n \in Node : <<"start", n>> \in asked => run[n] # "no"
  /\ \A t \in Tasks : <<"tool", t>> \in asked => owner[t] \in Node /\ run[owner[t]] # "no"
  /\ \A t \in Tasks : <<"control", t>> \in asked => owner[t] \in {Root, Former}

\* abortAll() awaits tasks of its node that work.
Aborting ==
  /\ aborting \in [Node -> {"no", "abort", "all"}] /\ waits \in [Node -> SUBSET Tasks]
  /\ \A n \in Node : aborting[n] # "no" => n \in driver
  /\ \A n \in Node : aborting[n] = "all" => waits[n] # {} /\ waits[n] \subseteq WorkOf(n)

\* What begins under a Session that closes is a stray.
RootEnds == dispose[Root] = "closing" => aborting[Root] = "no" /\ WorkOf(Root) \subseteq strays

OInv ==
  /\ IInv /\ Living /\ CallsLive /\ Aborting /\ RootEnds /\ WorkIsOwned
  /\ \A n \in Node : RunLives(n)

LEMMA NodesAre == Root \in Node /\ Root \notin Tasks /\ Tasks \subseteq Node
                  /\ Former \notin Node /\ Nobody \notin Node /\ Nobody # Former
BY DEF Node, Root, Former, Nobody

\* The steps that give a task work, move it on, or leave it.
LEMMA NextIs ==
  ASSUME [Next]_vars
  PROVE  \/ \E n \in Node : \/ AbortProceeds(n) \/ DisposeProceeds(n) \/ RunEnds(n)
                            \/ StartDone(n) \/ AskStart(n)
         \/ \E t \in Tasks : \/ Created(t) \/ CreateFails(t) \/ WorkEnds(t)
                             \/ PromptRejected(t) \/ FallsBack(t) \/ SwitchDone(t)
                             \/ TaskCloses(t) \/ AskContinue(t) \/ StopTask(t)
                             \/ \E by \in {"tool", "control"} : ContinueDone(t, by)
         \/ RootSettles \/ RootCloses \/ Prompt \/ Abort \/ Fence \/ Unfence \/ Replace
         \/ Dispose \/ Crash \/ Restart \/ UNCHANGED vars
BY DEF Next, GoesOn, Answers, Runs

\* A launch takes a task that rests.
LEMMA StartIs ==
  ASSUME IInv, NEW n \in Node, StartDone(n)
  PROVE  \E t \in Tasks : /\ owner[t] = Nobody /\ owner' = [owner EXCEPT ![t] = n]
                          /\ stage[t] = "idle" /\ Launches(t)
BY DEF StartDone, Unused, IInv, Placed

LEMMA LaunchIs ==
  ASSUME IInv, NEW t \in Tasks, Launches(t)
  PROVE  /\ \A u \in Tasks \ {t} : stage'[u] = stage[u]
         /\ stage'[t] \in {stage[t], "creating"}
BY DEF Launches, TakesWork, NoTask, IInv, Types

LEMMA FinishIs ==
  ASSUME IInv, NEW t \in Tasks, Finishes(t)
  PROVE  /\ \A u \in Tasks \ {t} : stage'[u] = stage[u]
         /\ stage'[t] = "idle"
BY DEF Finishes, IInv, Types

LEMMA LivingKept == ASSUME IInv, Living, [Next]_vars PROVE Living'
<1> USE DEF IInv, Types, Living
<1>1. CASE UNCHANGED <<stage, driver>>
  BY <1>1
<1>2. ASSUME NEW n \in Node, StartDone(n) PROVE Living'
  BY <1>2, StartIs, LaunchIs DEF StartDone
<1>3. ASSUME NEW t \in Tasks, NEW by, ContinueDone(t, by) PROVE Living'
  BY <1>3, LaunchIs DEF ContinueDone, StillIdle, NoTask
<1>4. ASSUME NEW t \in Tasks, Created(t) PROVE Living'
  BY <1>4 DEF Created
<1>5. ASSUME NEW t \in Tasks, CreateFails(t) PROVE Living'
  BY <1>5, FinishIs DEF CreateFails
<1>6. ASSUME NEW t \in Tasks,
             WorkEnds(t) \/ PromptRejected(t) \/ FallsBack(t) \/ SwitchDone(t)
      PROVE  Living'
  <2>1. stage[t] \in {"working", "switching"} /\ UNCHANGED driver
    BY <1>6 DEF WorkEnds, PromptRejected, PromptIsRejected, FallsBack, SwitchDone, Placed
  <2>2. \E s \in {"working", "switching", "closing"} : stage' = [stage EXCEPT ![t] = s]
    BY <1>6 DEF WorkEnds, PromptRejected, FallsBack, SwitchDone, Closes
  <2> QED BY <2>1, <2>2
<1>7. ASSUME NEW t \in Tasks, TaskCloses(t) PROVE Living'
  BY <1>7, FinishIs DEF TaskCloses
<1>8. CASE RootCloses
  BY <1>8, NodesAre DEF RootCloses, taskVars
<1>9. CASE Crash
  BY <1>9 DEF Crash
<1>10. CASE Restart
  BY <1>10, NodesAre DEF Restart
<1>11. CASE \/ \E n \in Node : AbortProceeds(n) \/ DisposeProceeds(n) \/ RunEnds(n) \/ AskStart(n)
            \/ \E t \in Tasks : AskContinue(t) \/ StopTask(t)
            \/ RootSettles \/ Prompt \/ Abort \/ Fence \/ Unfence \/ Replace \/ Dispose
            \/ UNCHANGED vars
  BY <1>1, <1>11
     DEF AbortProceeds, DisposeProceeds, RunEnds, AskStart, AskContinue, StopTask,
         RootSettles, Prompt, Abort, Fence, Unfence, Replace, Dispose, taskVars, nodeVars, vars
<1> QED BY <1>2, <1>3, <1>4, <1>5, <1>6, <1>7, <1>8, <1>9, <1>10, <1>11, NextIs

\* The end of a task starts a run of a Session object that is told of it.
LEMMA FinishTells ==
  ASSUME IInv, NEW t \in Tasks, Finishes(t), NEW n \in Node
  PROVE  run'[n] = run[n] \/ (run'[n] = "note" /\ run[n] = "no" /\ MayTell(n))
BY DEF Finishes, IInv, Types

LEMMA RunLivesKept ==
  ASSUME IInv, Living, [Next]_vars, NEW m \in Node, RunLives(m)
  PROVE  RunLives(m)'
<1> USE DEF IInv, Types, RunLives
<1>1. CASE UNCHANGED <<run, driver, dispose>>
  BY <1>1
<1>2. ASSUME NEW n \in Node, DisposeProceeds(n) \/ RunEnds(n) PROVE RunLives(m)'
  BY <1>2 DEF DisposeProceeds, DisposeResumes, RunEnds
<1>3. ASSUME NEW t \in Tasks, Created(t) PROVE RunLives(m)'
  BY <1>3, NodesAre DEF Created, Living
<1>4. ASSUME NEW t \in Tasks, CreateFails(t) PROVE RunLives(m)'
  BY <1>4, FinishTells DEF CreateFails, MayTell
<1>5. ASSUME NEW t \in Tasks, TaskCloses(t) PROVE RunLives(m)'
  BY <1>5, FinishTells, NodesAre DEF TaskCloses, MayTell, NoActivity
<1>6. ASSUME NEW t \in Tasks, WorkEnds(t) \/ PromptRejected(t) \/ FallsBack(t)
      PROVE  RunLives(m)'
  BY <1>6, NodesAre DEF WorkEnds, PromptRejected, FallsBack, Closes
<1>7. ASSUME NEW t \in Tasks, SwitchDone(t) PROVE RunLives(m)'
  <2>1. t \in driver /\ dispose[t] = "no" /\ UNCHANGED driver
    BY <1>7 DEF SwitchDone, Living, Placed
  <2> QED BY <1>7, <2>1, NodesAre DEF SwitchDone, Closes
<1>8. CASE RootSettles \/ RootCloses \/ Prompt \/ Dispose
  BY <1>8, NodesAre DEF RootSettles, NoActivity, RootCloses, Prompt, Dispose, RootServes
<1>9. CASE Crash
  BY <1>9 DEF Crash
<1>10. CASE Restart
  BY <1>10 DEF Restart
<1>11. CASE \/ \E n \in Node : AbortProceeds(n) \/ StartDone(n) \/ AskStart(n)
            \/ \E t \in Tasks : AskContinue(t) \/ StopTask(t)
                                \/ \E by \in {"tool", "control"} : ContinueDone(t, by)
            \/ Abort \/ Fence \/ Unfence \/ Replace \/ UNCHANGED vars
  BY <1>1, <1>11
     DEF AbortProceeds, StartDone, AskStart, AskContinue, StopTask, ContinueDone, Abort,
         Fence, Unfence, Replace, taskVars, nodeVars, vars
<1> QED BY <1>2, <1>3, <1>4, <1>5, <1>6, <1>7, <1>8, <1>9, <1>10, <1>11, NextIs

\* A run with a call is not over.
LEMMA NoCalls ==
  ASSUME NEW n, CallsOf(n) = {}
  PROVE  <<"start", n>> \notin asked /\ \A t : owner[t] = n => <<"tool", t>> \notin asked
<1>1. <<"start", n>> \notin asked
  BY DEF CallsOf
<1>2. ASSUME NEW t, owner[t] = n, <<"tool", t>> \in asked PROVE FALSE
  <2>1. <<"tool", t>>[1] = "tool" /\ <<"tool", t>>[2] = t
    OBVIOUS
  <2>2. <<"tool", t>> \in CallsOf(n)
    BY <1>2, <2>1 DEF CallsOf
  <2> QED BY <2>2
<1> QED BY <1>1, <1>2

\* Steps that end no run with a call, and move no task with one.
LEMMA CallsFrame ==
  ASSUME CallsLive, UNCHANGED asked,
         \A t \in Tasks : owner'[t] = owner[t] \/ owner[t] = Nobody,
         \A n \in Node : run'[n] = "no" =>
           run[n] = "no" \/ (<<"start", n>> \notin asked
                             /\ \A t \in Tasks : owner[t] = n => <<"tool", t>> \notin asked)
  PROVE  CallsLive'
BY NodesAre DEF CallsLive

LEMMA CallsKeptByNodes ==
  ASSUME IInv, CallsLive, \A n \in Node : RunLives(n), NEW n \in Node,
         \/ AbortProceeds(n) \/ DisposeProceeds(n) \/ RunEnds(n)
         \/ StartDone(n) \/ AskStart(n)
  PROVE  CallsLive'
<1> USE DEF IInv, Types
<1>1. CASE AbortProceeds(n) \/ DisposeProceeds(n)
  BY <1>1, CallsFrame DEF AbortProceeds, DisposeProceeds
<1>2. CASE RunEnds(n)
  BY <1>2, NoCalls, CallsFrame DEF RunEnds, taskVars
<1>3. CASE AskStart(n)
  BY <1>3 DEF AskStart, Calls, CallsLive, taskVars
<1>4. CASE StartDone(n)
  <2>1. PICK t \in Tasks : owner[t] = Nobody /\ owner' = [owner EXCEPT ![t] = n]
    BY <1>4, StartIs
  <2>2. <<"tool", t>> \notin asked /\ <<"control", t>> \notin asked
    BY <2>1, NodesAre DEF CallsLive, Root, Nobody
  <2> QED BY <1>4, <2>1, <2>2, NodesAre DEF StartDone, CallsLive
<1> QED BY <1>1, <1>2, <1>3, <1>4

LEMMA CallsKept ==
  ASSUME IInv, Living, CallsLive, \A n \in Node : RunLives(n), [Next]_vars PROVE CallsLive'
<1> USE DEF IInv, Types
<1>1. ASSUME NEW n \in Node, \/ AbortProceeds(n) \/ DisposeProceeds(n) \/ RunEnds(n)
                             \/ StartDone(n) \/ AskStart(n)
      PROVE  CallsLive'
  BY <1>1, CallsKeptByNodes
<1>2. ASSUME NEW t \in Tasks, AskContinue(t) PROVE CallsLive'
  <2>1. PICK by \in {"tool", "control"} :
               /\ IF by = "tool" THEN Calls(owner[t])
                  ELSE owner[t] = Root /\ RootServes /\ ~fenced
               /\ asked' = asked \cup {<<by, t>>}
    BY <1>2 DEF AskContinue
  <2>2. UNCHANGED <<owner, run>>
    BY <1>2 DEF AskContinue, taskVars
  <2> QED BY <2>1, <2>2 DEF CallsLive, Calls
<1>3. ASSUME NEW t \in Tasks, NEW by, ContinueDone(t, by) PROVE CallsLive'
  BY <1>3 DEF ContinueDone, CallsLive
<1>4. ASSUME NEW t \in Tasks, CreateFails(t) \/ TaskCloses(t) PROVE CallsLive'
  <2>1. UNCHANGED <<owner, asked>> /\ \A n \in Node : run'[n] = "no" => run[n] = "no"
    BY <1>4, FinishTells DEF CreateFails, TaskCloses
  <2> QED BY <2>1, CallsFrame
<1>5. ASSUME NEW t \in Tasks, Created(t) PROVE CallsLive'
  <2>1. run[t] = "no"
    BY <1>5, NodesAre DEF Created, Living, RunLives
  <2> QED BY <1>5, <2>1, CallsFrame, NodesAre DEF Created
<1>6. ASSUME NEW t \in Tasks, WorkEnds(t) \/ PromptRejected(t) \/ FallsBack(t) \/ SwitchDone(t)
      PROVE  CallsLive'
  <2>1. CASE WorkEnds(t)
    BY <1>6, <2>1, CallsFrame DEF WorkEnds
  <2>2. CASE SwitchDone(t)
    BY <1>6, <2>2, CallsFrame, NodesAre DEF SwitchDone
  <2>3. CASE PromptRejected(t) \/ FallsBack(t)
    <3>1. run[t] = "no" \/ CallsOf(t) = {}
      BY <2>3 DEF PromptRejected, FallsBack, PromptIsRejected, Settled
    <3>2. UNCHANGED <<owner, asked>> /\ run' = [run EXCEPT ![t] = "no"]
      BY <2>3 DEF PromptRejected, FallsBack
    <3>3. ASSUME NEW n \in Node, run'[n] = "no"
          PROVE  run[n] = "no" \/ (<<"start", n>> \notin asked
                             /\ \A u \in Tasks : owner[u] = n => <<"tool", u>> \notin asked)
      BY <3>1, <3>2, <3>3, NoCalls
    <3> QED BY <3>2, <3>3, CallsFrame
  <2> QED BY <1>6, <2>1, <2>2, <2>3
<1>7. CASE Replace
  <2>1. run[Root] = "no" /\ UNCHANGED <<asked, run>>
        /\ owner' = [t \in Tasks |-> IF owner[t] = Root THEN Former ELSE owner[t]]
    BY <1>7 DEF Replace, nodeVars
  <2> QED BY <2>1, NodesAre DEF CallsLive
<1>8. CASE Crash
  BY <1>8 DEF Crash, CallsLive
<1>9. CASE Prompt
  BY <1>9, CallsFrame, NodesAre DEF Prompt, taskVars
<1>10. CASE \/ \E t \in Tasks : StopTask(t)
            \/ RootSettles \/ RootCloses \/ Abort \/ Fence \/ Unfence
            \/ Dispose \/ Restart \/ UNCHANGED vars
  <2>1. UNCHANGED <<owner, asked, run>>
    BY <1>10 DEF StopTask, RootSettles, RootCloses, Abort, Fence, Unfence, Dispose, Restart,
                 taskVars, nodeVars, vars
  <2> QED BY <2>1, CallsFrame
<1> QED BY <1>1, <1>2, <1>3, <1>4, <1>5, <1>6, <1>7, <1>8, <1>9, <1>10, NextIs

\* Steps that move no task at work.
Moves ==
  \E t \in Tasks : Created(t) \/ WorkEnds(t) \/ PromptRejected(t) \/ FallsBack(t) \/ SwitchDone(t)

LEMMA MovesIs ==
  ASSUME IInv, Moves
  PROVE  /\ AtWork' = AtWork /\ driver \subseteq driver'
         /\ UNCHANGED <<owner, aborting, waits, strays, asked>>
         /\ dispose'[Root] = dispose[Root]
<1>1. /\ driver \subseteq driver' /\ UNCHANGED <<owner, aborting, waits, strays, asked>>
  BY DEF Moves, Created, WorkEnds, PromptRejected, FallsBack, SwitchDone, past
<1>2. PICK t \in Tasks :
        Created(t) \/ WorkEnds(t) \/ PromptRejected(t) \/ FallsBack(t) \/ SwitchDone(t)
  BY DEF Moves
<1>3. /\ stage[t] # "idle"
      /\ \E s \in {"working", "switching", "closing"} : stage' = [stage EXCEPT ![t] = s]
      /\ dispose' = dispose \/ \E d : dispose' = [dispose EXCEPT ![t] = d]
  BY <1>2 DEF IInv, Placed, Created, WorkEnds, PromptRejected, PromptIsRejected, FallsBack,
              SwitchDone, Closes
<1>4. AtWork' = AtWork
  BY <1>3 DEF AtWork, IInv, Types
<1>5. dispose'[Root] = dispose[Root]
  BY <1>3, NodesAre DEF IInv, Types
<1> QED BY <1>1, <1>4, <1>5

\* A launch adds at most its task to those at work.
LEMMA StartsIs ==
  ASSUME IInv, NEW n \in Node, StartDone(n)
  PROVE  \E t \in Tasks \ AtWork :
           /\ AtWork \subseteq AtWork' /\ AtWork' \subseteq AtWork \cup {t}
           /\ owner[t] = Nobody /\ owner'[t] = n
           /\ \A u \in Tasks \ {t} : owner'[u] = owner[u]
           /\ UNCHANGED <<driver, dispose, aborting, waits, strays>>
<1>1. PICK t \in Tasks : /\ owner[t] = Nobody /\ owner' = [owner EXCEPT ![t] = n]
                         /\ stage[t] = "idle" /\ Launches(t)
  BY StartIs
<1>2. AtWork \subseteq AtWork' /\ AtWork' \subseteq AtWork \cup {t}
  BY <1>1, LaunchIs DEF AtWork
<1>3. UNCHANGED <<driver, dispose, aborting, waits, strays>>
  BY DEF StartDone, past
<1> QED BY <1>1, <1>2, <1>3 DEF AtWork, IInv, Types

LEMMA ContinueIs ==
  ASSUME IInv, NEW t \in Tasks, NEW by, ContinueDone(t, by)
  PROVE  /\ AtWork \subseteq AtWork' /\ AtWork' \subseteq AtWork \cup {t}
         /\ strays \subseteq strays'
         /\ t \in AtWork' \ AtWork =>
              /\ SessionOf(owner[t]) \in driver
              /\ owner[t] = Former \/ dispose[SessionOf(owner[t])] = "closing" => t \in strays'
         /\ UNCHANGED <<owner, driver, dispose, aborting, waits>>
<1>1. UNCHANGED <<owner, driver, dispose, aborting, waits>>
  BY DEF ContinueDone
<1>2. CASE ~StillIdle(t) /\ NoTask(t) /\ UNCHANGED strays
  BY <1>1, <1>2 DEF NoTask, AtWork
<1>3. CASE /\ StillIdle(t) /\ Launches(t)
           /\ strays' = IF /\ stage'[t] # "idle"
                           /\ owner[t] = Former \/ dispose[SessionOf(owner[t])] = "closing"
                        THEN strays \cup {t} ELSE strays
  BY <1>1, <1>3, LaunchIs DEF AtWork, StillIdle
<1> QED BY <1>2, <1>3 DEF ContinueDone

LEMMA EndsIs ==
  ASSUME IInv, NEW t \in Tasks, CreateFails(t) \/ TaskCloses(t)
  PROVE  /\ t \in AtWork /\ AtWork' = AtWork \ {t} /\ UNCHANGED <<owner, strays>>
         /\ driver' = IF TaskCloses(t) THEN driver \ {t} ELSE driver
         /\ dispose'[Root] = dispose[Root]
         /\ waits' = [n \in Node |-> waits[n] \ {t}]
         /\ aborting' = [n \in Node |->
              IF aborting[n] = "all" /\ waits[n] = {t} THEN "no" ELSE aborting[n]]
<1>1. Finishes(t)
  BY DEF CreateFails, TaskCloses
<1>2. stage[t] # "idle"
  BY DEF CreateFails, TaskCloses, IInv, Placed
<1>3. AtWork' = AtWork \ {t} /\ t \in AtWork
  BY <1>1, <1>2, FinishIs DEF AtWork
<1>4. /\ UNCHANGED <<owner, strays>> /\ dispose'[Root] = dispose[Root]
      /\ driver' = IF TaskCloses(t) THEN driver \ {t} ELSE driver
  BY NodesAre DEF CreateFails, TaskCloses, past, IInv, Types, Living
<1> QED BY <1>1, <1>3, <1>4 DEF Finishes

LEMMA AbortingFrame ==
  ASSUME Aborting, UNCHANGED <<aborting, waits>>, driver \subseteq driver',
         \A n \in Node : WorkOf(n) \subseteq WorkOf(n)'
  PROVE  Aborting'
BY DEF Aborting

\* A stop takes part in what is under way, or begins an abort.
LEMMA AbortCalledIs ==
  ASSUME NEW S, Aborting, NEW n \in Node
  PROVE  \/ AbortCalled(S)[n] = aborting[n]
         \/ AbortCalled(S)[n] = "abort" /\ n \in driver /\ n \in S
BY DEF AbortCalled

\* Who neither runs nor has tasks at work is not being aborted.
LEMMA NoAbort ==
  ASSUME Aborting, Idle, NEW n \in Node, NoActivity(n) PROVE aborting[n] = "no"
BY DEF Aborting, Idle, AbortResumes, NoActivity

LEMMA AbortingKept ==
  ASSUME IInv, Living, Aborting, RootEnds, \A n \in Node : RunLives(n), [Next]_vars
  PROVE  Aborting'
<1>1. ASSUME NEW n \in Node, AbortProceeds(n) PROVE Aborting'
  <2>1. /\ UNCHANGED <<owner, stage, driver>> /\ n \in driver
        /\ waits' = [waits EXCEPT ![n] = WorkOf(n)]
        /\ aborting' = [AbortCalled(WorkOf(n)) EXCEPT ![n] =
                          IF WorkOf(n) = {} THEN "no" ELSE "all"]
    BY <1>1 DEF AbortProceeds, AbortResumes, Aborting
  <2>2. \A m : WorkOf(m)' = WorkOf(m)
    BY <2>1 DEF WorkOf, AtWork
  <2>3. /\ \A m \in Node \ {n} : /\ aborting'[m] = AbortCalled(WorkOf(n))[m]
                                 /\ waits'[m] = waits[m]
        /\ aborting'[n] = IF WorkOf(n) = {} THEN "no" ELSE "all"
        /\ waits'[n] = WorkOf(n)
    BY <2>1 DEF AbortCalled, Aborting
  <2>4. \A m \in Node \ {n} : aborting'[m] = aborting[m] \/ (aborting'[m] = "abort" /\ m \in driver)
    BY <2>3, AbortCalledIs
  <2>5. /\ aborting' \in [Node -> {"no", "abort", "all"}] /\ waits' \in [Node -> SUBSET Tasks]
    <3>1. WorkOf(n) \in SUBSET Tasks
      BY DEF WorkOf, AtWork
    <3>2. AbortCalled(WorkOf(n)) \in [Node -> {"no", "abort", "all"}]
      BY DEF AbortCalled, Aborting
    <3> QED BY <2>1, <3>1, <3>2 DEF Aborting
  <2> QED BY <2>1, <2>2, <2>3, <2>4, <2>5 DEF Aborting
<1>2. ASSUME NEW S, aborting' = AbortCalled(S), UNCHANGED <<owner, stage, driver, waits>>
      PROVE  Aborting'
  <2>1. \A m : WorkOf(m)' = WorkOf(m)
    BY <1>2 DEF WorkOf, AtWork
  <2>2. aborting' \in [Node -> {"no", "abort", "all"}]
    BY <1>2 DEF AbortCalled, Aborting
  <2> QED BY <1>2, <2>1, <2>2, AbortCalledIs DEF Aborting
<1>3. CASE (\E n \in Node : DisposeProceeds(n)) \/ (\E t \in Tasks : StopTask(t))
  BY <1>2, <1>3 DEF DisposeProceeds, StopTask
<1>4. ASSUME NEW n \in Node, StartDone(n) PROVE Aborting'
  <2>1. PICK t \in Tasks \ AtWork :
           /\ AtWork \subseteq AtWork' /\ \A u \in Tasks \ {t} : owner'[u] = owner[u]
           /\ UNCHANGED <<driver, aborting, waits>>
    BY <1>4, StartsIs
  <2>2. \A m : WorkOf(m) \subseteq WorkOf(m)'
    BY <2>1 DEF WorkOf, AtWork
  <2> QED BY <2>1, <2>2, AbortingFrame
<1>5. ASSUME NEW t \in Tasks, NEW by, ContinueDone(t, by) PROVE Aborting'
  BY <1>5, ContinueIs, AbortingFrame DEF WorkOf
<1>6. CASE Moves
  BY <1>6, MovesIs, AbortingFrame DEF WorkOf
<1>7. ASSUME NEW t \in Tasks, CreateFails(t) \/ TaskCloses(t) PROVE Aborting'
  <2>1. /\ \A n : WorkOf(n)' = WorkOf(n) \ {t}
        /\ waits' = [n \in Node |-> waits[n] \ {t}]
        /\ aborting' = [n \in Node |->
             IF aborting[n] = "all" /\ waits[n] = {t} THEN "no" ELSE aborting[n]]
        /\ driver' = IF TaskCloses(t) THEN driver \ {t} ELSE driver
    BY <1>7, EndsIs DEF WorkOf
  <2>2. TaskCloses(t) => aborting[t] = "no"
    BY NoAbort, NodesAre DEF TaskCloses
  <2>3. /\ aborting' \in [Node -> {"no", "abort", "all"}] /\ waits' \in [Node -> SUBSET Tasks]
    BY <2>1 DEF Aborting
  <2>4. ASSUME NEW n \in Node, aborting'[n] # "no" PROVE n \in driver'
    BY <2>1, <2>2, <2>4 DEF Aborting
  <2>5. ASSUME NEW n \in Node, aborting'[n] = "all"
        PROVE  waits'[n] # {} /\ waits'[n] \subseteq WorkOf(n)'
    BY <2>1, <2>5 DEF Aborting
  <2> QED BY <2>3, <2>4, <2>5 DEF Aborting
<1>8. CASE Replace
  <2>1. AtWork = {} /\ UNCHANGED <<stage, aborting, waits, driver>>
    BY <1>8, LeasesCount DEF IInv, Replace, nodeVars
  <2>2. \A n \in Node : WorkOf(n) = {}
    BY <2>1 DEF WorkOf
  <2> QED BY <2>1, <2>2 DEF Aborting
<1>9. CASE RootCloses
  <2>1. /\ aborting[Root] = "no" /\ driver' = driver \ {Root}
        /\ UNCHANGED <<owner, stage, aborting, waits>>
    BY <1>9 DEF RootCloses, RootEnds, taskVars
  <2>2. \A m : WorkOf(m)' = WorkOf(m)
    BY <2>1 DEF WorkOf, AtWork
  <2> QED BY <2>1, <2>2 DEF Aborting
<1>10. CASE Abort
  <2>1. /\ Root \in driver /\ aborting' = [aborting EXCEPT ![Root] = "abort"]
        /\ UNCHANGED <<owner, stage, driver, waits>>
    BY <1>10 DEF Abort, RootServes, taskVars
  <2>2. \A m : WorkOf(m)' = WorkOf(m)
    BY <2>1 DEF WorkOf, AtWork
  <2> QED BY <2>1, <2>2 DEF Aborting
<1>11. CASE Crash
  BY <1>11 DEF Crash, Aborting
<1>12. CASE Restart
  <2>1. UNCHANGED <<owner, stage, aborting, waits>> /\ driver = {}
    BY <1>12 DEF Restart
  <2>2. \A m : WorkOf(m)' = WorkOf(m)
    BY <2>1 DEF WorkOf, AtWork
  <2> QED BY <2>1, <2>2, AbortingFrame
<1>13. CASE \/ \E n \in Node : RunEnds(n) \/ AskStart(n)
            \/ \E t \in Tasks : AskContinue(t)
            \/ RootSettles \/ Prompt \/ Fence \/ Unfence \/ Dispose \/ UNCHANGED vars
  <2>1. UNCHANGED <<owner, stage, driver, aborting, waits>>
    BY <1>13 DEF RunEnds, AskStart, AskContinue, RootSettles, Prompt, Fence, Unfence, Dispose,
                 taskVars, nodeVars, vars
  <2>2. \A m : WorkOf(m)' = WorkOf(m)
    BY <2>1 DEF WorkOf, AtWork
  <2> QED BY <2>1, <2>2, AbortingFrame
<1> QED BY <1>1, <1>3, <1>4, <1>5, <1>6, <1>7, <1>8, <1>9, <1>10, <1>11, <1>12, <1>13, NextIs
        DEF Moves

\* What a Session that closes may not have asked for any more.
LEMMA NoRootCalls ==
  ASSUME CallsLive, \A n \in Node : RunLives(n), dispose[Root] = "closing"
  PROVE  /\ <<"start", Root>> \notin asked
         /\ \A t \in Tasks : <<"tool", t>> \in asked => owner[t] # Root
BY NodesAre DEF CallsLive, RunLives

LEMMA RootEndsKept ==
  ASSUME IInv, Living, CallsLive, Aborting, RootEnds, \A n \in Node : RunLives(n), [Next]_vars
  PROVE  RootEnds'
<1>1. ASSUME dispose'[Root] = "closing" => dispose[Root] = "closing",
             aborting'[Root] \in {aborting[Root], "no"},
             WorkOf(Root)' \subseteq WorkOf(Root) \cup strays', strays \subseteq strays'
      PROVE  RootEnds'
  BY <1>1 DEF RootEnds
<1>2. ASSUME NEW n \in Node, AbortProceeds(n) PROVE RootEnds'
  <2>1. UNCHANGED <<owner, stage, dispose, strays>>
    BY <1>2 DEF AbortProceeds, past
  <2>2. aborting[n] = "abort" /\ Root \notin WorkOf(n)
    BY <1>2, NodesAre DEF AbortProceeds, AbortResumes, WorkOf, AtWork
  <2>3. n # Root => aborting'[Root] = AbortCalled(WorkOf(n))[Root]
    BY <1>2, NodesAre DEF AbortProceeds, AbortCalled
  <2>4. n # Root => aborting'[Root] = aborting[Root]
    BY <2>2, <2>3, AbortCalledIs, NodesAre
  <2>5. WorkOf(Root)' = WorkOf(Root)
    BY <2>1 DEF WorkOf, AtWork
  <2> QED BY <2>1, <2>2, <2>4, <2>5 DEF RootEnds
<1>3. ASSUME (\E n \in Node : DisposeProceeds(n)) \/ (\E t \in Tasks : StopTask(t))
      PROVE  RootEnds'
  <2>1. UNCHANGED <<owner, stage, strays>>
    BY <1>3 DEF DisposeProceeds, StopTask, past
  <2>5. dispose'[Root] = "closing" => dispose[Root] = "closing"
    <3>1. dispose' = dispose \/ \E n \in Node : dispose' = [dispose EXCEPT ![n] = "settle"]
      BY <1>3 DEF DisposeProceeds, StopTask
    <3> QED BY <3>1, NodesAre DEF IInv, Types
  <2>2. \E S \in SUBSET Tasks : aborting' = AbortCalled(S)
    BY <1>3 DEF DisposeProceeds, StopTask, WorkOf, AtWork
  <2>3. aborting'[Root] = aborting[Root]
    BY <2>2, AbortCalledIs, NodesAre
  <2>4. WorkOf(Root)' = WorkOf(Root)
    BY <2>1 DEF WorkOf, AtWork
  <2> QED BY <1>1, <2>1, <2>3, <2>4, <2>5
<1>4. ASSUME NEW n \in Node, StartDone(n) PROVE RootEnds'
  <2>1. PICK t \in Tasks \ AtWork :
           /\ AtWork' \subseteq AtWork \cup {t} /\ owner'[t] = n
           /\ \A u \in Tasks \ {t} : owner'[u] = owner[u]
           /\ UNCHANGED <<dispose, aborting, strays>>
    BY <1>4, StartsIs
  <2>2. dispose[Root] = "closing" => n # Root
    BY <1>4, NoRootCalls DEF StartDone
  <2>3. n # Root => WorkOf(Root)' \subseteq WorkOf(Root)
    BY <2>1 DEF WorkOf, AtWork
  <2> QED BY <2>1, <2>2, <2>3 DEF RootEnds
<1>5. ASSUME NEW t \in Tasks, NEW by, ContinueDone(t, by) PROVE RootEnds'
  <2>1. /\ AtWork' \subseteq AtWork \cup {t}
        /\ strays \subseteq strays'
        /\ t \in AtWork' \ AtWork =>
             (owner[t] = Former \/ dispose[SessionOf(owner[t])] = "closing" => t \in strays')
        /\ UNCHANGED <<owner, dispose, aborting>>
    BY <1>5, ContinueIs
  <2>2. owner[t] = Root => SessionOf(owner[t]) = Root
    BY DEF SessionOf, Root, Former
  <2> QED BY <2>1, <2>2 DEF RootEnds, WorkOf, AtWork
<1>6. CASE Moves
  BY <1>1, <1>6, MovesIs DEF WorkOf
<1>7. ASSUME NEW t \in Tasks, CreateFails(t) \/ TaskCloses(t) PROVE RootEnds'
  BY <1>1, <1>7, EndsIs, NodesAre DEF WorkOf
<1>8. CASE RootSettles
  <2>1. aborting[Root] = "no" /\ WorkOf(Root) = {}
    BY <1>8, NoAbort, NodesAre DEF RootSettles, NoActivity
  <2>2. UNCHANGED <<owner, stage, aborting>>
    BY <1>8 DEF RootSettles, taskVars
  <2> QED BY <2>1, <2>2 DEF RootEnds, WorkOf, AtWork
<1>9. CASE RootCloses \/ Dispose \/ Abort \/ Replace \/ Crash
  <2>1. dispose'[Root] # "closing"
    BY <1>9, NodesAre
       DEF RootCloses, Dispose, Abort, Replace, Crash, RootServes, IInv, Types, nodeVars
  <2> QED BY <2>1 DEF RootEnds
<1>10. CASE \/ \E n \in Node : RunEnds(n) \/ AskStart(n)
            \/ \E t \in Tasks : AskContinue(t)
            \/ Prompt \/ Fence \/ Unfence \/ Restart \/ UNCHANGED vars
  <2>1. UNCHANGED <<owner, stage, aborting, dispose, strays>>
    BY <1>10 DEF RunEnds, AskStart, AskContinue, Prompt, Fence, Unfence, Restart, taskVars,
                 nodeVars, vars, past
  <2> QED BY <2>1 DEF RootEnds, WorkOf, AtWork
<1> QED BY <1>2, <1>3, <1>4, <1>5, <1>6, <1>7, <1>8, <1>9, <1>10, NextIs DEF Moves

\* Where a task at work finds its owner.
Owned(t) ==
  \/ owner[t] \in AtWork \cap driver
  \/ owner[t] = Root /\ Root \in driver
  \/ t \in strays

\* A Session object that calls is the Session itself or that of a task at work.
LEMMA CallerOwns ==
  ASSUME Living, NEW n \in Node, n \in driver
  PROVE  n \in AtWork \cap driver \/ n = Root
BY DEF Living, AtWork, Node

LEMMA OwnedFrame ==
  ASSUME WorkIsOwned, AtWork \cap driver \subseteq AtWork' \cap driver',
         Root \in driver => Root \in driver', strays \subseteq strays',
         \A t \in AtWork' : t \in AtWork /\ owner'[t] = owner[t]
  PROVE  WorkIsOwned'
BY DEF WorkIsOwned

LEMMA OwnedByNew ==
  ASSUME IInv, Living, CallsLive, \A n \in Node : RunLives(n), WorkIsOwned,
         NEW n \in Node, StartDone(n)
  PROVE  WorkIsOwned'
<1>1. PICK t \in Tasks \ AtWork :
         /\ AtWork \subseteq AtWork' /\ AtWork' \subseteq AtWork \cup {t}
         /\ owner'[t] = n /\ \A u \in Tasks \ {t} : owner'[u] = owner[u]
         /\ UNCHANGED <<driver, strays>>
  BY StartsIs
<1>2. n \in driver
  BY DEF StartDone, CallsLive, RunLives
<1>3. n \in AtWork \cap driver \/ n = Root
  BY <1>2, CallerOwns
<1>4. ASSUME NEW u \in AtWork PROVE Owned(u)'
  BY <1>1 DEF WorkIsOwned, Owned, AtWork
<1>5. Owned(t)'
  BY <1>1, <1>2, <1>3 DEF Owned
<1>6. \A u \in AtWork' : Owned(u)'
  BY <1>1, <1>4, <1>5
<1> QED BY <1>6 DEF WorkIsOwned, Owned

LEMMA OwnedByContinue ==
  ASSUME IInv, Living, CallsLive, \A n \in Node : RunLives(n), WorkIsOwned,
         NEW t \in Tasks, NEW by \in {"tool", "control"}, ContinueDone(t, by)
  PROVE  WorkIsOwned'
<1>1. /\ AtWork \subseteq AtWork' /\ AtWork' \subseteq AtWork \cup {t}
      /\ strays \subseteq strays' /\ UNCHANGED <<owner, driver>>
      /\ t \in AtWork' \ AtWork =>
           /\ SessionOf(owner[t]) \in driver
           /\ (owner[t] = Former \/ dispose[SessionOf(owner[t])] = "closing" => t \in strays')
  BY ContinueIs
<1>2. ASSUME NEW u \in AtWork PROVE Owned(u)'
  BY <1>1 DEF WorkIsOwned, Owned
<1>3. ASSUME t \in AtWork' \ AtWork PROVE Owned(t)'
  <2>1. <<by, t>> \in asked
    BY DEF ContinueDone
  <2>2. CASE by = "tool"
    <3>1. owner[t] \in Node /\ owner[t] \in driver
      BY <2>1, <2>2 DEF CallsLive, RunLives
    <3>2. owner[t] \in AtWork \cap driver \/ owner[t] = Root
      BY <3>1, CallerOwns
    <3> QED BY <1>1, <3>1, <3>2 DEF Owned
  <2>3. CASE by = "control"
    <3>1. owner[t] = Root \/ owner[t] = Former
      BY <2>1, <2>3 DEF CallsLive
    <3>2. owner[t] = Root => SessionOf(owner[t]) = Root
      BY DEF SessionOf, Root, Former
    <3> QED BY <1>1, <1>3, <3>1, <3>2 DEF Owned
  <2> QED BY <2>2, <2>3
<1>4. \A u \in AtWork' : Owned(u)'
  BY <1>1, <1>2, <1>3
<1> QED BY <1>4 DEF WorkIsOwned, Owned

LEMMA OwnedKept ==
  ASSUME IInv, Living, CallsLive, RootEnds, \A n \in Node : RunLives(n), WorkIsOwned, [Next]_vars
  PROVE  WorkIsOwned'
<1>1. ASSUME NEW n \in Node, StartDone(n) PROVE WorkIsOwned'
  BY <1>1, OwnedByNew
<1>2. ASSUME NEW t \in Tasks, NEW by \in {"tool", "control"}, ContinueDone(t, by)
      PROVE  WorkIsOwned'
  BY <1>2, OwnedByContinue
<1>3. CASE Moves
  BY <1>3, MovesIs, OwnedFrame
<1>4. ASSUME NEW t \in Tasks, CreateFails(t) \/ TaskCloses(t) PROVE WorkIsOwned'
  <2>1. /\ t \in AtWork /\ AtWork' = AtWork \ {t} /\ UNCHANGED <<owner, strays>>
        /\ driver' = IF TaskCloses(t) THEN driver \ {t} ELSE driver
    BY <1>4, EndsIs
  <2>2. ~\E u \in AtWork : owner[u] = t /\ t \in driver
    BY <1>4 DEF CreateFails, TaskCloses, NoActivity, WorkOf, Living
  <2>3. ASSUME NEW u \in AtWork' PROVE Owned(u)'
    BY <2>1, <2>2, NodesAre DEF WorkIsOwned, Owned
  <2> QED BY <2>3 DEF WorkIsOwned, Owned
<1>5. CASE RootCloses
  <2>1. /\ dispose[Root] = "closing" /\ driver' = driver \ {Root}
        /\ UNCHANGED <<owner, stage, strays>>
    BY <1>5 DEF RootCloses, taskVars, past
  <2>2. AtWork' = AtWork
    BY <2>1 DEF AtWork
  <2>3. ASSUME NEW u \in AtWork PROVE Owned(u)'
    BY <2>1, <2>2, NodesAre DEF WorkIsOwned, Owned, RootEnds, WorkOf, AtWork
  <2> QED BY <2>2, <2>3 DEF WorkIsOwned, Owned
<1>6. CASE Replace \/ Crash
  <2>1. AtWork' = {}
    BY <1>6, LeasesCount DEF Replace, Crash, IInv, AtWork
  <2> QED BY <2>1 DEF WorkIsOwned
<1>7. CASE Restart
  BY <1>7, OwnedFrame DEF Restart, past, AtWork
<1>8. CASE \/ \E n \in Node : AbortProceeds(n) \/ DisposeProceeds(n) \/ RunEnds(n) \/ AskStart(n)
           \/ \E t \in Tasks : AskContinue(t) \/ StopTask(t)
           \/ RootSettles \/ Prompt \/ Abort \/ Fence \/ Unfence \/ Dispose \/ UNCHANGED vars
  <2>1. UNCHANGED <<owner, stage, driver, strays>>
    BY <1>8 DEF AbortProceeds, DisposeProceeds, RunEnds, AskStart, AskContinue, StopTask,
                RootSettles, Prompt, Abort, Fence, Unfence, Dispose, taskVars, nodeVars,
                past, vars
  <2>2. AtWork' = AtWork
    BY <2>1 DEF AtWork
  <2> QED BY <2>1, <2>2, OwnedFrame
<1> QED BY <1>1, <1>2, <1>3, <1>4, <1>5, <1>6, <1>7, <1>8, NextIs DEF Moves

LEMMA OwnersBegin == Init => OInv
<1> SUFFICES ASSUME Init PROVE OInv
  OBVIOUS
<1>1. AtWork = {}
  BY DEF Init, AtWork
<1>2. Living /\ CallsLive /\ \A n \in Node : RunLives(n)
  BY NodesAre DEF Init, Living, CallsLive, RunLives
<1>3. Aborting /\ RootEnds
  BY NodesAre DEF Init, Aborting, RootEnds
<1>4. WorkIsOwned
  BY <1>1 DEF WorkIsOwned
<1> QED BY InitHolds, <1>2, <1>3, <1>4 DEF OInv

LEMMA OwnersStay == OInv /\ [Next]_vars => OInv'
<1> SUFFICES ASSUME OInv, [Next]_vars PROVE OInv'
  OBVIOUS
<1>1. /\ IInv /\ Living /\ CallsLive /\ Aborting /\ RootEnds /\ WorkIsOwned
      /\ \A n \in Node : RunLives(n)
  BY DEF OInv
<1>2. IInv' /\ Living'
  BY <1>1, StepKeeps, LivingKept
<1>3. \A n \in Node : RunLives(n)'
  BY <1>1, RunLivesKept
<1>4. CallsLive' /\ Aborting'
  BY <1>1, CallsKept, AbortingKept
<1>5. RootEnds' /\ WorkIsOwned'
  BY <1>1, RootEndsKept, OwnedKept
<1> QED BY <1>2, <1>3, <1>4, <1>5 DEF OInv

-----------------------------------------------------------------------------
(* What is being aborted starts nothing                                    *)

Quiet(n) ==
  aborting'[n] = "all" /\ run'[n] \in {"prompt", "note"} =>
    (n \in Tasks /\ stage[n] = "switching") \/ (aborting[n] = "all" /\ run[n] = run'[n])

\* Steps that bring no abort to its tasks, and start no run that could matter.
LEMMA QuietFrame ==
  ASSUME NEW n, aborting'[n] = "all" => aborting[n] = "all",
         run'[n] = run[n] \/ run'[n] \notin {"prompt", "note"} \/ aborting[n] # "all"
  PROVE  Quiet(n)
BY DEF Quiet

LEMMA QuietStep == ASSUME OInv, [Next]_vars, NEW n \in Node PROVE Quiet(n)
<1> USE DEF IInv, Types
<1>0. IInv /\ Living /\ Aborting
  BY DEF OInv
<1>1. ASSUME NEW m \in Node, AbortProceeds(m) PROVE Quiet(n)
  <2>1. run' = run /\ run[m] = "no"
    BY <1>1 DEF AbortProceeds, AbortResumes
  <2>2. n # m => aborting'[n] = AbortCalled(WorkOf(m))[n]
    BY <1>1 DEF AbortProceeds, AbortCalled
  <2>3. n # m => (aborting'[n] = "all" => aborting[n] = "all")
    BY <1>0, <2>2, AbortCalledIs
  <2> QED BY <2>1, <2>3 DEF Quiet
<1>2. CASE (\E m \in Node : DisposeProceeds(m)) \/ (\E t \in Tasks : StopTask(t))
  <2>1. run' = run /\ \E S : aborting' = AbortCalled(S)
    BY <1>2 DEF DisposeProceeds, StopTask, nodeVars
  <2>2. aborting'[n] = "all" => aborting[n] = "all"
    BY <1>0, <2>1, AbortCalledIs
  <2> QED BY <2>1, <2>2, QuietFrame
<1>3. ASSUME NEW t \in Tasks, CreateFails(t) \/ TaskCloses(t) PROVE Quiet(n)
  <2>1. Finishes(t)
    BY <1>3 DEF CreateFails, TaskCloses
  <2>2. aborting'[n] = "all" => aborting[n] = "all"
    BY <2>1 DEF Finishes
  <2>3. run'[n] = run[n] \/ aborting[n] # "all"
    BY <1>0, <2>1, FinishTells DEF MayTell
  <2> QED BY <2>2, <2>3, QuietFrame
<1>4. ASSUME NEW t \in Tasks, Created(t) PROVE Quiet(n)
  <2>1. aborting' = aborting /\ aborting[t] = "no"
    BY <1>0, <1>4, NodesAre DEF Created, Living, Aborting
  <2>2. n # t => run'[n] = run[n]
    BY <1>0, <1>4 DEF Created
  <2> QED BY <2>1, <2>2, QuietFrame
<1>5. ASSUME NEW t \in Tasks, SwitchDone(t) PROVE Quiet(n)
  <2>1. aborting' = aborting /\ stage[t] = "switching"
    BY <1>5 DEF SwitchDone
  <2>2. n # t => run'[n] = run[n]
    BY <1>0, <1>5 DEF SwitchDone
  <2> QED BY <2>1, <2>2 DEF Quiet
<1>6. CASE Prompt \/ (\E m \in Node : RunEnds(m)) \/ (\E t \in Tasks : PromptRejected(t) \/ FallsBack(t))
  <2>1. aborting' = aborting
    BY <1>6 DEF Prompt, RunEnds, PromptRejected, FallsBack
  <2>2. run'[n] = run[n] \/ run'[n] \notin {"prompt", "note"}
    BY <1>0, <1>6, NodesAre DEF Prompt, RunEnds, PromptRejected, FallsBack
  <2> QED BY <2>1, <2>2, QuietFrame
<1>7. CASE Abort
  <2>1. run' = run /\ (aborting'[n] = "all" => aborting[n] = "all")
    BY <1>0, <1>7, NodesAre DEF Abort, Aborting
  <2> QED BY <2>1, QuietFrame
<1>8. CASE Crash
  BY <1>8, QuietFrame DEF Crash
<1>9. CASE \/ \E m \in Node : StartDone(m) \/ AskStart(m)
           \/ \E t \in Tasks : \/ AskContinue(t) \/ WorkEnds(t)
                               \/ \E by \in {"tool", "control"} : ContinueDone(t, by)
           \/ RootSettles \/ RootCloses \/ Fence \/ Unfence \/ Replace \/ Dispose \/ Restart
           \/ UNCHANGED vars
  <2>1. UNCHANGED <<run, aborting>>
    BY <1>9 DEF StartDone, AskStart, AskContinue, WorkEnds, ContinueDone, RootSettles,
                RootCloses, Fence, Unfence, Replace, Dispose, Restart, nodeVars, vars
  <2> QED BY <2>1, QuietFrame
<1> QED BY <1>1, <1>2, <1>3, <1>4, <1>5, <1>6, <1>7, <1>8, <1>9, NextIs

-----------------------------------------------------------------------------
\* What the two theorems below rest on: a Session object lives exactly while its
\* task is at work with it, and nothing runs, awaits or aborts under one that is gone
\* (launch(), abortTask(), dispose() in native-subagent-runtime.ts).
THEOREM OwnersInvariant == Spec => []OInv
BY OwnersBegin, OwnersStay, PTL DEF Spec

\* No task outlives its owner: at any depth what works belongs to a Session object
\* that lives and is at work itself, or Main's continue came too late for the
\* Session to own it (continueTask(), runTask() and dispose()).
THEOREM WorkHasOwner == Spec => []WorkIsOwned
<1>1. OInv => WorkIsOwned
  BY DEF OInv
<1> QED BY OwnersInvariant, <1>1, PTL

\* While abortTask() waits for the tasks of a node, neither a report of theirs nor
\* a prompt starts the node's model again, but for the end of a switch of models
\* (abortTask(), abortAll() and the report in launch()).
THEOREM ModelsStayQuiet == Spec => QuietWhileAborting
<1>1. OInv /\ [Next]_vars =>
        [\A n \in Node :
           aborting'[n] = "all" /\ run'[n] \in {"prompt", "note"} =>
             (n \in Tasks /\ stage[n] = "switching")
             \/ (aborting[n] = "all" /\ run[n] = run'[n])]_vars
  BY QuietStep DEF Quiet
<1> QED BY OwnersInvariant, <1>1, PTL DEF Spec, QuietWhileAborting

-----------------------------------------------------------------------------
(* Nobody waits for itself                                                 *)

\* Ownership is a forest: tasks rank below the task that owns them, and who owns a
\* task is owned itself.
Below(rank) == \A t \in Tasks : owner[t] \in Tasks => rank[t] < rank[owner[t]]
NoCycle ==
  /\ \E rank \in [Tasks -> Nat] : Below(rank)
  /\ \A t \in Tasks : owner[t] \in Tasks => owner[owner[t]] # Nobody

\* Every start that awaits its definition finds a task of its own.
Starts == {c \in asked : c[1] = "start"}
Asked == asked \subseteq ({"start"} \X Node) \cup ({"tool", "control"} \X Tasks)
StartsFit == Cardinality(Starts) <= Cardinality(Unused)

\* A task that closes is under disposal, and only the Session closes by an await.
Disposing ==
  \A t \in Tasks : dispose[t] # "closing" /\ (stage[t] = "closing" => dispose[t] # "no")

GInv == OInv /\ NoCycle /\ Asked /\ StartsFit /\ Disposing

\* The steps that give tasks to owners.
LEMMA OwnerIs ==
  ASSUME [Next]_vars
  PROVE  owner' = owner \/ Replace \/ \E n \in Node : StartDone(n)
BY DEF Next, GoesOn, Answers, Runs, AbortProceeds, DisposeProceeds, RunEnds, AskStart,
       Created, CreateFails, WorkEnds, PromptRejected, FallsBack, SwitchDone, TaskCloses,
       AskContinue, StopTask, ContinueDone, RootSettles, RootCloses, Prompt, Abort, Fence,
       Unfence, Dispose, Crash, Restart, vars, taskVars

LEMMA NoCycleKept ==
  ASSUME IInv, Living, CallsLive, \A n \in Node : RunLives(n), NoCycle, [Next]_vars
  PROVE  NoCycle'
<1> USE DEF IInv, Types
<1>1. PICK rank \in [Tasks -> Nat] : Below(rank)
  BY DEF NoCycle
<1>2. CASE owner' = owner
  BY <1>2 DEF NoCycle, Below
<1>3. CASE Replace
  <2>1. owner' = [t \in Tasks |-> IF owner[t] = Root THEN Former ELSE owner[t]]
    BY <1>3 DEF Replace
  <2>2. \A t \in Tasks : owner'[t] \in Tasks => owner'[t] = owner[t]
    BY <2>1, NodesAre
  <2>3. Below(rank)'
    BY <1>1, <2>2 DEF Below
  <2>4. \A t \in Tasks : owner'[t] = Nobody => owner[t] = Nobody
    BY <2>1, NodesAre
  <2> QED BY <2>2, <2>3, <2>4 DEF NoCycle
<1>4. ASSUME NEW n \in Node, StartDone(n) PROVE NoCycle'
  <2>1. PICK t \in Tasks : owner[t] = Nobody /\ owner' = [owner EXCEPT ![t] = n]
    BY <1>4, StartIs
  <2>2. n \in Tasks => owner[n] # Nobody
    BY <1>4 DEF StartDone, CallsLive, RunLives, Living, Placed
  <2>3. n # t /\ \A u \in Tasks : owner[u] # t
    BY <2>1, <2>2, NodesAre DEF NoCycle
  <2> DEFINE lower == [u \in Tasks |-> IF u = t THEN 0 ELSE rank[u] + 1]
  <2>4. lower \in [Tasks -> Nat]
    OBVIOUS
  <2>5. ASSUME NEW u \in Tasks, owner'[u] \in Tasks PROVE lower[u] < lower[owner'[u]]
    <3>1. CASE u = t
      BY <2>1, <2>3, <2>5, <3>1
    <3>2. CASE u # t
      <4>1. owner'[u] = owner[u] /\ owner[u] # t /\ rank[u] < rank[owner[u]]
        BY <1>1, <2>1, <2>3, <2>5, <3>2 DEF Below
      <4> QED BY <2>5, <3>2, <4>1
    <3> QED BY <3>1, <3>2
  <2>6. Below(lower)'
    BY <2>5 DEF Below
  <2>7. \A u \in Tasks : owner'[u] \in Tasks => owner'[owner'[u]] # Nobody
    BY <2>1, <2>2, <2>3, NodesAre DEF NoCycle
  <2> QED BY <2>4, <2>6, <2>7 DEF NoCycle
<1> QED BY <1>2, <1>3, <1>4, OwnerIs

\* Calls that come and calls that go.
LEMMA AskedIs ==
  ASSUME [Next]_vars
  PROVE  \/ asked' \subseteq asked
         \/ \E n \in Node : AskStart(n)
         \/ \E t \in Tasks, by \in {"tool", "control"} : asked' = asked \cup {<<by, t>>} /\ owner' = owner
BY DEF Next, GoesOn, Answers, Runs, AbortProceeds, DisposeProceeds, RunEnds, StartDone,
       Created, CreateFails, WorkEnds, PromptRejected, FallsBack, SwitchDone, TaskCloses,
       AskContinue, StopTask, ContinueDone, RootSettles, RootCloses, Prompt, Abort, Fence,
       Unfence, Replace, Dispose, Crash, Restart, vars, taskVars, nodeVars

LEMMA AskedKept == ASSUME Asked, [Next]_vars PROVE Asked'
<1>1. CASE asked' \subseteq asked
  BY <1>1 DEF Asked
<1>2. ASSUME NEW n \in Node, AskStart(n) PROVE Asked'
  BY <1>2 DEF AskStart, Asked
<1>3. ASSUME NEW t \in Tasks, NEW by \in {"tool", "control"}, asked' = asked \cup {<<by, t>>}
      PROVE  Asked'
  BY <1>3 DEF Asked
<1> QED BY <1>1, <1>2, <1>3, AskedIs

LEMMA CallsAreFinite == ASSUME Asked PROVE IsFiniteSet(Starts) /\ IsFiniteSet(Unused)
<1>1. IsFiniteSet(Node)
  BY FS_AddElement DEF Node
<1>2. IsFiniteSet({"start"} \X Node)
  BY <1>1, FS_Singleton, FS_Product
<1>3. Starts \subseteq {"start"} \X Node
  BY DEF Starts, Asked
<1> QED BY <1>2, <1>3, FS_Subset DEF Unused

LEMMA StartsFitKept == ASSUME IInv, Asked, StartsFit, [Next]_vars PROVE StartsFit'
<1> USE DEF IInv, Types
<1>1. /\ IsFiniteSet(Starts) /\ IsFiniteSet(Unused)
      /\ Cardinality(Starts) \in Nat /\ Cardinality(Unused) \in Nat
  BY CallsAreFinite, FS_CardinalityType
<1>2. ASSUME Starts' \subseteq Starts, Unused' = Unused PROVE StartsFit'
  <2>1. Cardinality(Starts') <= Cardinality(Starts) /\ Cardinality(Starts') \in Nat
    BY <1>1, <1>2, FS_Subset, FS_CardinalityType
  <2> QED BY <1>1, <1>2, <2>1 DEF StartsFit
<1>3. ASSUME NEW n \in Node, StartDone(n) PROVE StartsFit'
  <2>1. PICK t \in Tasks : owner[t] = Nobody /\ owner' = [owner EXCEPT ![t] = n]
    BY <1>3, StartIs
  <2>2. Unused' = Unused \ {t} /\ t \in Unused
    BY <2>1, NodesAre DEF Unused
  <2>3. Starts' = Starts \ {<<"start", n>>} /\ <<"start", n>> \in Starts
    BY <1>3 DEF StartDone, Starts
  <2>4. Cardinality(Unused') = Cardinality(Unused) - 1
    BY <1>1, <2>2, FS_RemoveElement
  <2>5. PICK c \in Starts : Starts' = Starts \ {c}
    BY <2>3
  <2>6. Cardinality(Starts') = Cardinality(Starts) - 1
    BY <1>1, <2>5, FS_RemoveElement
  <2> QED BY <1>1, <2>4, <2>6 DEF StartsFit
<1>4. ASSUME NEW n \in Node, AskStart(n) PROVE StartsFit'
  <2>1. /\ Starts' = Starts \cup {<<"start", n>>} /\ <<"start", n>> \notin Starts
        /\ Cardinality(Starts) < Cardinality(Unused) /\ Unused' = Unused
    BY <1>4 DEF AskStart, Starts, Unused, taskVars
  <2>2. PICK c : c \notin Starts /\ Starts' = Starts \cup {c}
    BY <2>1
  <2>3. Cardinality(Starts') = Cardinality(Starts) + 1
    BY <1>1, <2>2, FS_AddElement
  <2> QED BY <1>1, <2>1, <2>3 DEF StartsFit
<1>5. ASSUME NEW t \in Tasks, NEW by \in {"tool", "control"},
             asked' = asked \cup {<<by, t>>}, owner' = owner
      PROVE  StartsFit'
  <2>1. Starts' = Starts /\ Unused' = Unused
    BY <1>5 DEF Starts, Unused
  <2> QED BY <1>2, <2>1
<1>6. ASSUME asked' \subseteq asked, owner' = owner PROVE StartsFit'
  BY <1>2, <1>6 DEF Starts, Unused
<1>7. CASE Replace
  <2>1. /\ asked' = asked
        /\ owner' = [t \in Tasks |-> IF owner[t] = Root THEN Former ELSE owner[t]]
    BY <1>7 DEF Replace, nodeVars
  <2>2. Starts' = Starts /\ Unused' = Unused
    BY <2>1, NodesAre DEF Starts, Unused
  <2> QED BY <1>2, <2>2
<1> QED BY <1>3, <1>4, <1>5, <1>6, <1>7, AskedIs, OwnerIs

LEMMA DisposingKept ==
  ASSUME IInv, Disposing, [Next]_vars PROVE Disposing'
<1> USE DEF IInv, Types, Disposing
<1>1. ASSUME NEW n \in Node, DisposeProceeds(n) PROVE Disposing'
  BY <1>1 DEF DisposeProceeds
<1>2. ASSUME NEW n \in Node, StartDone(n) PROVE Disposing'
  BY <1>2, StartIs, LaunchIs DEF StartDone
<1>3. ASSUME NEW t \in Tasks, NEW by, ContinueDone(t, by) PROVE Disposing'
  BY <1>3, LaunchIs DEF ContinueDone, NoTask
<1>4. ASSUME NEW t \in Tasks, Created(t) PROVE Disposing'
  BY <1>4, NodesAre DEF Created
<1>5. ASSUME NEW t \in Tasks, WorkEnds(t) \/ PromptRejected(t) PROVE Disposing'
  BY <1>5, NodesAre DEF WorkEnds, PromptRejected, Closes
<1>6. ASSUME NEW t \in Tasks, FallsBack(t) \/ SwitchDone(t) PROVE Disposing'
  BY <1>6, NodesAre DEF FallsBack, SwitchDone, Closes
<1>7. ASSUME NEW t \in Tasks, CreateFails(t) \/ TaskCloses(t) PROVE Disposing'
  BY <1>7, FinishIs, NodesAre DEF CreateFails, TaskCloses
<1>8. CASE RootSettles \/ RootCloses \/ Dispose
  BY <1>8, NodesAre DEF RootSettles, RootCloses, Dispose, taskVars
<1>9. CASE Crash
  BY <1>9, NodesAre DEF Crash
<1>10. CASE \/ \E n \in Node : AbortProceeds(n) \/ RunEnds(n) \/ AskStart(n)
            \/ \E t \in Tasks : AskContinue(t) \/ StopTask(t)
            \/ Prompt \/ Abort \/ Fence \/ Unfence \/ Replace \/ Restart \/ UNCHANGED vars
  <2>1. UNCHANGED <<stage, dispose>>
    BY <1>10 DEF AbortProceeds, RunEnds, AskStart, AskContinue, StopTask, Prompt, Abort, Fence,
                 Unfence, Replace, Restart, taskVars, nodeVars, vars
  <2> QED BY <2>1
<1> QED BY <1>1, <1>2, <1>3, <1>4, <1>5, <1>6, <1>7, <1>8, <1>9, <1>10, NextIs

LEMMA ForestBegins == Init => GInv
<1> SUFFICES ASSUME Init PROVE GInv
  OBVIOUS
<1>1. Asked /\ Starts = {} /\ Disposing
  BY NodesAre DEF Init, Asked, Starts, Disposing
<1>2. NoCycle
  <2>1. \A t \in Tasks : owner[t] \notin Tasks
    BY NodesAre DEF Init, Nobody
  <2>2. Below([t \in Tasks |-> 0])
    BY <2>1 DEF Below
  <2> QED BY <2>1, <2>2 DEF NoCycle
<1>3. StartsFit
  BY <1>1, FS_EmptySet, CallsAreFinite, FS_CardinalityType DEF StartsFit
<1> QED BY <1>1, <1>2, <1>3, OwnersBegin DEF GInv

LEMMA ForestStays == GInv /\ [Next]_vars => GInv'
BY OwnersStay, NoCycleKept, AskedKept, StartsFitKept, DisposingKept DEF GInv, OInv

\* Of a set of tasks there is one whose own tasks are not among them.
LEMMA LowestTask ==
  ASSUME NoCycle, AtWork # {}
  PROVE  \E t \in AtWork : WorkOf(t) = {}
<1>1. PICK rank \in [Tasks -> Nat] : Below(rank)
  BY DEF NoCycle
<1> DEFINE ranks == {rank[t] : t \in AtWork}
<1>2. ranks \subseteq Nat /\ ranks # {}
  BY DEF AtWork
<1>3. PICK r \in ranks : \A q \in ranks : ~(<<q, r>> \in OpToRel(<, Nat))
  BY <1>2, NatLessThanWellFounded, WFMin
<1>4. PICK t \in AtWork : r = rank[t]
  BY <1>3
<1>5. ASSUME NEW u \in WorkOf(t) PROVE FALSE
  <2>1. u \in AtWork /\ u \in Tasks /\ t \in Tasks /\ rank[u] < rank[t]
    BY <1>1, <1>4, <1>5 DEF WorkOf, AtWork, Below
  <2>2. <<rank[u], r>> \in OpToRel(<, Nat)
    BY <1>4, <2>1 DEF OpToRel
  <2> QED BY <1>3, <2>1, <2>2
<1> QED BY <1>4, <1>5

\* A model at work has its run to end or its calls to answer.
LEMMA CallsAnswered ==
  ASSUME Asked, StartsFit, NEW n \in Node, run[n] # "no" PROVE CanGoOn
<1>1. CASE CallsOf(n) = {}
  BY <1>1 DEF CanGoOn
<1>2. ASSUME NEW c \in CallsOf(n), c[1] = "tool" PROVE CanGoOn
  <2>1. c \in asked /\ c[2] \in Tasks /\ c = <<"tool", c[2]>>
    BY <1>2 DEF CallsOf, Asked
  <2> QED BY <2>1 DEF CanGoOn
<1>3. ASSUME <<"start", n>> \in asked PROVE CanGoOn
  <2>1. Starts # {}
    BY <1>3 DEF Starts
  <2>2. Unused # {}
    BY <2>1, CallsAreFinite, FS_EmptySet, FS_CardinalityType DEF StartsFit
  <2> QED BY <1>3, <2>2 DEF CanGoOn
<1> QED BY <1>1, <1>2, <1>3 DEF CallsOf

LEMMA SomebodyGoesOn == GInv => NobodyWaitsForever
<1> SUFFICES ASSUME GInv, ~CanGoOn,
                    AtWork # {} \/ \E n \in Node : aborting[n] # "no" \/ dispose[n] # "no"
             PROVE  FALSE
  BY DEF NobodyWaitsForever
<1> USE DEF GInv, OInv
<1>1. \A n \in Node : run[n] = "no"
  BY CallsAnswered
<1>2. \A n \in Node : aborting[n] # "abort" /\ dispose[n] # "abort"
  BY <1>1 DEF CanGoOn, Idle, AbortResumes, DisposeResumes
<1>3. ASSUME NEW t \in AtWork, WorkOf(t) = {} PROVE FALSE
  <2>1. t \in Tasks /\ t \in Node /\ stage[t] \in Stage \ {"idle"}
    BY NodesAre DEF AtWork, IInv, Types
  <2>2. stage[t] = "closing"
    BY <1>1, <1>3, <2>1 DEF CanGoOn, Settled, Stage
  <2>3. dispose[t] = "settle"
    BY <1>2, <2>1, <2>2 DEF Disposing, IInv, Types
  <2> QED BY <1>1, <1>3, <2>1, <2>3 DEF CanGoOn, NoActivity
<1>4. AtWork = {}
  BY <1>3, LowestTask
<1>5. \A n \in Node : WorkOf(n) = {} /\ aborting[n] = "no"
  BY <1>2, <1>4 DEF WorkOf, Aborting
<1>6. \A t \in Tasks : dispose[t] = "no"
  BY <1>4 DEF IInv, Placed, AtWork
<1>7. dispose[Root] \notin {"settle", "closing"}
  BY <1>1, <1>5, NodesAre DEF CanGoOn, NoActivity
<1>8. \A n \in Node : dispose[n] = "no"
  BY <1>2, <1>6, <1>7, NodesAre DEF IInv, Types, Node
<1> QED BY <1>4, <1>5, <1>8

\* While tasks work, or an abort or a disposal is under way, the child has a step of
\* its own to make, however deep tasks nest and whoever waits for whom: by the
\* forest of owners there is always one that waits for no task, and by the count
\* of starts no call waits for an identity (runTask(), abortAll(), waitForSettled()).
THEOREM NoneWaitsForItself == Spec => []NobodyWaitsForever
<1>1. Spec => []GInv
  BY ForestBegins, ForestStays, PTL DEF Spec
<1> QED BY <1>1, SomebodyGoesOn, PTL
=============================================================================
