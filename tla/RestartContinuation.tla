-------------------------- MODULE RestartContinuation --------------------------
(***************************************************************************)
(* Work that an orderly shutdown interrupts is continued at the next start *)
(* (workbench-kernel.ts, project-store.ts, host-application.ts): what runs *)
(* is captured and stored, the next boot binds the file to itself, claims  *)
(* each candidate durably, starts its Session and prompts it once.         *)
(*                                                                         *)
(* The store queues its operations and replaces the file by a rename, so   *)
(* each one takes effect at once or not at all.  A process that exits      *)
(* because its startup or its shutdown failed has crashed.                 *)
(***************************************************************************)
EXTENDS Naturals, FiniteSets

CONSTANTS
  Sessions,   \* persisted Sessions
  MaxBoots    \* bound on the starts of the GUI

ASSUME MaxBootsIsNatural == MaxBoots \in Nat

\* A candidate: the boot whose shutdown captured it, and its Session.
Candidate == (1..MaxBoots) \X Sessions
Fresh == 0            \* bootId null

VARIABLES
  file,       \* the RestartContinuationFile; without candidates there is none
  auto,       \* autoContinueInterruptedTasks, which is stored as well
  phase,      \* off, recovering, serving, stopping, storing
  boot,       \* how many boots have loaded the file; the bootId of this one
  held,       \* restartContinuations of the Kernel
  todo,       \* candidates that resumeInterruptedSessions has still to visit
  launch,     \* launchOperation: the candidate it claimed, or <<Fresh, session>>
  runs,       \* Runtime of each Session: none, ready, running
  captured,   \* what the shutdown captured
  sent,       \* how often each candidate was prompted
  overtaken,  \* held candidates whose Session has run in this boot
  background  \* those whose Session an agent had launched

kernelVars == <<held, todo, launch, runs, captured>>
past == <<sent, overtaken, background>>
vars == <<file, auto, phase, boot, kernelVars, past>>

NoFile == [boot |-> Fresh, pending |-> {}, claimed |-> {}]
\* writeRestartContinuationState().
Written(pending, claimed, id) ==
  IF pending \cup claimed = {} THEN NoFile
  ELSE [boot |-> id, pending |-> pending, claimed |-> claimed]
\* completeRestartContinuation(): a file of another boot is left alone.
Completes(c) ==
  \/ file.boot = boot /\ file' = Written(file.pending \ {c}, file.claimed \ {c}, boot)
  \/ UNCHANGED file

Free == [at |-> "free"]
Launch(at, c) == [at |-> at, of |-> c]
LaunchesAt(at) == launch.at = at
HeldOf(s) == {c \in held : c[2] = s}
\* Candidates of s that may still be prompted; s begins to run for another reason.
Waiting(s) ==
  HeldOf(s) \cup {c \in Candidate : c[2] = s /\ launch = Launch("start", c)}
Overtakes(s) == overtaken' = overtaken \cup Waiting(s)
Up == phase \in {"recovering", "serving"}

-----------------------------------------------------------------------------
(* Startup                                                                 *)

\* loadRestartContinuations(): only the boot that follows the shutdown takes the
\* file, and what was claimed is dropped.  Mutants: any boot takes it, and it is
\* not bound when nothing is dropped.
Pending == file.pending
Mine == IF file.boot = Fresh THEN file.pending ELSE {}
Rebound(id) == IF file.claimed = {} /\ Mine # {} THEN file ELSE Written(Mine, {}, id)
Bound(id) == Written(Mine, {}, id)

Load ==
  /\ phase = "off" /\ boot < MaxBoots
  /\ boot' = boot + 1
  /\ held' = IF auto THEN Mine ELSE {}
  /\ file' = IF auto THEN Bound(boot') ELSE NoFile
  /\ todo' = held'
  /\ phase' = "recovering"
  /\ UNCHANGED <<auto, launch, runs, captured, past>>

\* resumeInterruptedSessions(): a Session that is not registered is discarded, one
\* whose Project needs a decision on trust is passed over, the others are launched.
Discard(c) ==
  /\ Completes(c)
  /\ held' = held \ (IF file.boot = boot /\ c \notin file'.pending THEN {c} ELSE {})
  /\ UNCHANGED launch
Resume(c) ==
  /\ launch' = Launch("claim", c)
  /\ UNCHANGED <<file, held>>
PassOver == UNCHANGED <<file, held, launch>>

Visit(c) ==
  /\ phase = "recovering" /\ LaunchesAt("free") /\ c \in todo
  /\ Discard(c) \/ Resume(c) \/ PassOver
  /\ todo' = todo \ {c}
  /\ UNCHANGED <<auto, phase, boot, runs, captured, past>>

Recovered ==
  /\ phase = "recovering" /\ LaunchesAt("free") /\ todo = {}
  /\ phase' = "serving"
  /\ UNCHANGED <<file, auto, boot, kernelVars, past>>

-----------------------------------------------------------------------------
(* Launch of a Session in the foreground                                   *)

\* activateSession() of a Session without a Runtime; trust is decided by now.
Open(s) ==
  /\ phase = "serving" /\ LaunchesAt("free") /\ runs[s] = "none"
  /\ \/ \E c \in HeldOf(s) : launch' = Launch("claim", c)
     \/ HeldOf(s) = {} /\ launch' = Launch("start", <<Fresh, s>>)
  /\ UNCHANGED <<file, auto, phase, boot, held, todo, runs, captured, past>>

\* claimRestartContinuation() fails or refuses, and the launch with it.  Mutant:
\* the Session is opened without its candidate.
OpensAnyway(c) == Launch("start", <<Fresh, c[2]>>)
Refused(c) == Free

Claim ==
  /\ LaunchesAt("claim")
  /\ LET c == launch.of
     IN  \/ /\ file.boot = boot /\ c \in file.pending
            /\ file' = Written(file.pending \ {c}, file.claimed \cup {c}, boot)
            /\ held' = held \ {c}
            /\ launch' = Launch("start", c)
         \/ /\ launch' = Refused(c)
            /\ UNCHANGED <<file, held>>
  /\ UNCHANGED <<auto, phase, boot, todo, runs, captured, past>>

\* The Runtime has started, which the child refuses while another one has the file.
\* A continued Session is prompted in the same step, unless the Kernel stops.
Started ==
  /\ LaunchesAt("start")
  /\ LET c == launch.of
     IN  /\ runs[c[2]] = "none"
         /\ \/ /\ c[1] = Fresh
               /\ runs' = [runs EXCEPT ![c[2]] = "ready"]
               /\ launch' = Free
               /\ UNCHANGED sent
            \/ /\ c[1] # Fresh /\ Up
               /\ runs' = [runs EXCEPT ![c[2]] = "running"]
               /\ sent' = [sent EXCEPT ![c] = @ + 1]
               /\ launch' = Launch("sending", c)
  /\ UNCHANGED <<file, auto, phase, boot, held, todo, captured, overtaken, background>>

\* The start failed and the Runtime is stopped: nothing is tried again.
StartFails ==
  /\ LaunchesAt("start")
  /\ launch' = IF launch.of[1] = Fresh THEN Free ELSE Launch("complete", launch.of)
  /\ UNCHANGED <<file, auto, phase, boot, held, todo, runs, captured, past>>

\* Pi takes the prompt, or refuses it and the Runtime is stopped.
Answered ==
  /\ LaunchesAt("sending")
  /\ \/ UNCHANGED runs
     \/ runs' = [runs EXCEPT ![launch.of[2]] = "none"]
  /\ launch' = Launch("complete", launch.of)
  /\ UNCHANGED <<file, auto, phase, boot, held, todo, captured, past>>

Complete ==
  /\ LaunchesAt("complete")
  /\ Completes(launch.of)
  /\ launch' = Free
  /\ UNCHANGED <<auto, phase, boot, held, todo, runs, captured, past>>

-----------------------------------------------------------------------------
(* Sessions at work                                                        *)

Prompt(s) ==
  /\ phase = "serving" /\ runs[s] = "ready"
  /\ runs' = [runs EXCEPT ![s] = "running"]
  /\ Overtakes(s)
  /\ UNCHANGED <<file, auto, phase, boot, held, todo, launch, captured, sent, background>>

\* A message of another Session, which launches s in the background if need be.
Deliver(s) ==
  /\ Up /\ runs[s] \in {"none", "ready"}
  /\ \E t \in Sessions \ {s} : runs[t] = "running"
  /\ runs' = [runs EXCEPT ![s] = "running"]
  /\ Overtakes(s)
  /\ background' = IF runs[s] = "none" THEN background \cup Waiting(s) ELSE background
  /\ UNCHANGED <<file, auto, phase, boot, held, todo, launch, captured, sent>>

Settles(s) ==
  /\ runs[s] = "running"
  /\ runs' = [runs EXCEPT ![s] = "ready"]
  /\ UNCHANGED <<file, auto, phase, boot, held, todo, launch, captured, past>>

\* A stop, a hibernation or a crash of the Runtime.
Stops(s) ==
  /\ runs[s] # "none"
  /\ runs' = [runs EXCEPT ![s] = "none"]
  /\ UNCHANGED <<file, auto, phase, boot, held, todo, launch, captured, past>>

SaveGeneral ==
  /\ phase = "serving"
  /\ auto' = ~auto
  /\ UNCHANGED <<file, phase, boot, kernelVars, past>>

-----------------------------------------------------------------------------
(* Shutdown                                                                *)

\* Sessions that captureRestartContinuations() may take: those that run, but for
\* one that is being launched.  Which of them wait for an answer, are compacted or
\* are being stopped, and are left out for that, is not modelled.
Capturable ==
  {s \in Sessions : runs[s] = "running"
                      /\ ~(LaunchesAt("sending") /\ launch.of[2] = s)}

Shutdown ==
  /\ phase = "serving"
  /\ \E S \in SUBSET Capturable : captured' = IF auto THEN {boot} \X S ELSE {}
  /\ phase' = "stopping"
  /\ UNCHANGED <<file, auto, boot, held, todo, launch, runs, past>>

\* stop() waits for a launch under way.
Stopped ==
  /\ phase = "stopping" /\ LaunchesAt("free")
  /\ runs' = [s \in Sessions |-> "none"]
  /\ phase' = "storing"
  /\ UNCHANGED <<file, auto, boot, held, todo, launch, captured, past>>

\* The process ends, with the Kernel's memory.
Ends ==
  /\ phase' = "off"
  /\ held' = {} /\ todo' = {} /\ captured' = {}
  /\ launch' = Free
  /\ runs' = [s \in Sessions |-> "none"]
  /\ UNCHANGED <<auto, boot, past>>

\* replaceRestartContinuations(), whose failure is only logged.
Store ==
  /\ phase = "storing"
  /\ file' \in {Written(captured, {}, Fresh), file}
  /\ Ends

Crash ==
  /\ phase # "off"
  /\ UNCHANGED file
  /\ Ends

-----------------------------------------------------------------------------
Init ==
  /\ file = NoFile /\ auto = TRUE
  /\ phase = "off" /\ boot = 0
  /\ held = {} /\ todo = {} /\ captured = {}
  /\ launch = Free
  /\ runs = [s \in Sessions |-> "none"]
  /\ sent = [c \in Candidate |-> 0] /\ overtaken = {} /\ background = {}

Next ==
  \/ Load \/ Recovered \/ Claim \/ Started \/ StartFails \/ Answered \/ Complete
  \/ SaveGeneral \/ Shutdown \/ Stopped \/ Store \/ Crash
  \/ \E c \in Candidate : Visit(c)
  \/ \E s \in Sessions : Open(s) \/ Prompt(s) \/ Deliver(s) \/ Settles(s) \/ Stops(s)

Spec == Init /\ [][Next]_vars

-----------------------------------------------------------------------------
(* Properties                                                              *)

\* Interrupted work is continued at most once, and only by the boot that follows
\* the shutdown, whatever write fails and wherever the process dies.
ContinuedOnce ==
  [][\A c \in Candidate :
       sent'[c] # sent[c] => sent[c] = 0 /\ boot = c[1] + 1]_vars

\* What the Kernel still holds is pending in this boot's file: a Session with a
\* candidate is opened only through the claim, and would be locked out without it.
HeldIsClaimable ==
  \A c \in held : file.boot = boot /\ c \in file.pending

\* A Session is not told to go on once the user has made it do something else in
\* this boot.  One hole is left: an agent may launch a Session whose candidate was
\* passed over, and no claim is made there; a later launch continues stale work.
NotOvertaken ==
  [][\A c \in Candidate :
       sent'[c] # sent[c] => c \notin overtaken \ background]_vars
=============================================================================
