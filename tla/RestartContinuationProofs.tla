----------------------- MODULE RestartContinuationProofs -----------------------
(***************************************************************************)
(* Interrupted work is continued at most once, by the next boot, never     *)
(* without the claim, for any number of Sessions and boots.                *)
(***************************************************************************)
EXTENDS RestartContinuation, TLAPS

USE MaxBootsIsNatural DEF Fresh

Target == Candidate \cup ({Fresh} \X Sessions)

Types ==
  /\ file \in [boot : Nat, pending : SUBSET Candidate, claimed : SUBSET Candidate]
  /\ phase \in {"off", "recovering", "serving", "stopping", "storing"}
  /\ boot \in 0..MaxBoots
  /\ held \subseteq Candidate /\ overtaken \subseteq Candidate
  /\ launch \in {Free} \cup [at : {"claim", "start", "sending", "complete"}, of : Target]
  /\ runs \in [Sessions -> {"none", "ready", "running"}]
  /\ sent \in [Candidate -> Nat]

\* Nothing is left of a boot that is off, and a file not yet bound to a boot is
\* what the last one captured.
PhaseInv ==
  /\ phase # "off" => boot > 0
  /\ phase = "off" => /\ held = {} /\ captured = {} /\ launch = Free
                      /\ \A s \in Sessions : runs[s] = "none"
  /\ phase # "recovering" => todo = {}
  /\ captured \subseteq {boot} \X Sessions
  /\ file.pending # {} /\ file.boot = Fresh =>
       phase = "off" /\ \A c \in file.pending : c[1] = boot

\* What may still be prompted was captured by the boot before and was not prompted.
HeldInv ==
  /\ todo \subseteq held
  /\ \A c \in held : c[1] + 1 = boot /\ sent[c] = 0
  /\ \A c \in Candidate : sent[c] # 0 \/ c \in overtaken => c[1] < boot

LaunchInv ==
  launch # Free =>
    /\ launch.at = "claim" => launch.of \in held \ todo
    /\ launch.at # "claim" => launch.of \notin held
    /\ launch.at = "start" =>
         IF launch.of[1] = Fresh THEN HeldOf(launch.of[2]) = {}
         ELSE launch.of[1] + 1 = boot /\ sent[launch.of] = 0

\* What may be prompted has not run in this boot, or was launched in the background.
Claimed == {c \in Candidate : launch = Launch("start", c)}
StaleInv ==
  \A c \in held \cup Claimed :
    runs[c[2]] # "none" \/ c \in overtaken => c \in background

IInv == Types /\ PhaseInv /\ HeldIsClaimable /\ HeldInv /\ LaunchInv /\ StaleInv

-----------------------------------------------------------------------------
LEMMA Candidates ==
  /\ \A c \in Candidate : /\ c[1] \in 1..MaxBoots /\ c[2] \in Sessions /\ c = <<c[1], c[2]>>
  /\ \A c \in Target : /\ c[1] \in 0..MaxBoots /\ c[2] \in Sessions /\ c = <<c[1], c[2]>>
                       /\ c[1] # Fresh => c \in Candidate
BY DEF Candidate, Target

LEMMA LaunchForms ==
  \A a, c : /\ Launch(a, c) # Free /\ Launch(a, c).at = a /\ Launch(a, c).of = c
            /\ \A b, d : Launch(a, c) = Launch(b, d) <=> a = b /\ c = d
BY DEF Launch, Free

\* The launch under way, when there is one.
LEMMA LaunchOf ==
  ASSUME Types, NEW a \in {"claim", "start", "sending", "complete"}, LaunchesAt(a)
  PROVE  launch # Free /\ launch.of \in Target /\ launch = Launch(a, launch.of)
BY DEF Types, LaunchesAt, Launch, Free

-----------------------------------------------------------------------------
\* Sessions at work.
LEMMA WorkKeeps ==
  ASSUME IInv, NEW s \in Sessions, Prompt(s) \/ Deliver(s) \/ Settles(s) \/ Stops(s)
  PROVE  IInv'
<1>1. /\ UNCHANGED <<file, phase, boot, held, todo, launch, captured, sent>>
      /\ phase # "off" \/ runs'[s] = "none"
      /\ overtaken' = overtaken \/ overtaken' = overtaken \cup Waiting(s)
  BY DEF Prompt, Deliver, Settles, Stops, Overtakes, past, Up, IInv, PhaseInv
<1>2. Waiting(s) = {c \in held \cup Claimed : c[2] = s}
  BY LaunchForms DEF Waiting, HeldOf, Claimed
<1>3. \A c \in Waiting(s) : c \in Candidate /\ c[1] < boot
  BY <1>2, LaunchForms, Candidates DEF IInv, Types, HeldInv, LaunchInv, Claimed
<1>4. /\ runs' \in [Sessions -> {"none", "ready", "running"}]
      /\ overtaken' \subseteq Candidate
      /\ phase = "off" => \A t \in Sessions : runs'[t] = "none"
  BY <1>1, <1>3 DEF Prompt, Deliver, Settles, Stops, Up, IInv, Types, PhaseInv
<1>5. StaleInv'
  <2> SUFFICES ASSUME NEW c \in held \cup Claimed, runs'[c[2]] # "none" \/ c \in overtaken'
               PROVE  c \in background'
    BY <1>1 DEF StaleInv, Claimed
  <2>1. background \subseteq background' /\ c[2] \in Sessions
    BY Candidates DEF Prompt, Deliver, Settles, Stops, past, IInv, Types, Claimed
  <2>2. CASE c[2] # s \/ Settles(s) \/ Stops(s)
    <3>1. runs'[c[2]] # "none" => runs[c[2]] # "none"
      BY <2>1, <2>2 DEF Prompt, Deliver, Settles, Stops, IInv, Types
    <3>2. c \in overtaken' => c \in overtaken
      BY <1>1, <1>2, <2>2 DEF Settles, Stops, past
    <3> QED BY <2>1, <3>1, <3>2 DEF IInv, StaleInv
  <2>3. CASE c[2] = s /\ (Prompt(s) \/ Deliver(s))
    <3>1. CASE runs[s] # "none"
      BY <2>1, <2>3, <3>1 DEF IInv, StaleInv
    <3>2. CASE runs[s] = "none"
      BY <1>2, <2>3, <3>2 DEF Prompt, Deliver
    <3> QED BY <3>1, <3>2
  <2> QED BY <2>2, <2>3
<1>6. HeldInv'
  BY <1>1, <1>3 DEF IInv, HeldInv
<1> QED BY <1>1, <1>4, <1>5, <1>6 DEF IInv, Types, PhaseInv, HeldIsClaimable, LaunchInv, HeldOf

-----------------------------------------------------------------------------
\* Startup.
LEMMA LoadKeeps == ASSUME IInv, Load PROVE IInv'
<1>1. /\ boot' = boot + 1 /\ boot \in Nat /\ boot' \in 0..MaxBoots
      /\ phase = "off" /\ phase' = "recovering" /\ launch' = Free
      /\ todo' = held' /\ captured' = {}
      /\ UNCHANGED <<runs, sent, overtaken, background>>
  BY DEF Load, past, IInv, Types, PhaseInv
<1>2. /\ Mine \in SUBSET Candidate /\ \A c \in Mine : c[1] = boot
  BY DEF Mine, IInv, Types, PhaseInv
<1>3. \/ held' = Mine /\ file' = Written(Mine, {}, boot')
      \/ held' = {} /\ file' = NoFile
  BY DEF Load, Bound
<1>4. /\ file' \in [boot : Nat, pending : SUBSET Candidate, claimed : SUBSET Candidate]
      /\ file'.pending = held' /\ (held' # {} => file'.boot = boot')
      /\ held' \in SUBSET Candidate
  <2>1. CASE held' = Mine /\ file' = Written(Mine, {}, boot')
    <3>1. boot' \in Nat
      BY <1>1
    <3> QED BY <1>2, <2>1, <3>1 DEF Written, NoFile
  <2>2. CASE held' = {} /\ file' = NoFile
    BY <2>2 DEF NoFile
  <2> QED BY <1>3, <2>1, <2>2
<1>5. \A c \in held' : c[1] = boot /\ c \in Candidate
  BY <1>2, <1>3
<1>6. Types'
  BY <1>1, <1>4 DEF IInv, Types
<1>7. PhaseInv'
  BY <1>1, <1>4 DEF PhaseInv
<1>8. HeldInv' /\ HeldIsClaimable'
  BY <1>1, <1>4, <1>5, Candidates DEF IInv, Types, HeldInv, HeldIsClaimable
<1>9. StaleInv'
  <2>1. Claimed' = {}
    BY <1>1, LaunchForms DEF Claimed
  <2>2. \A c \in held' : runs'[c[2]] = "none" /\ c \notin overtaken'
    BY <1>1, <1>5, Candidates DEF IInv, PhaseInv, HeldInv
  <2> QED BY <2>1, <2>2 DEF StaleInv
<1> QED BY <1>1, <1>6, <1>7, <1>8, <1>9 DEF IInv, LaunchInv

\* The file after completeRestartContinuation() of c, which is not held then.
LEMMA CompletesFile ==
  ASSUME IInv, phase # "off", NEW c, Completes(c), NEW H \in SUBSET held,
         c \notin H \/ file'.pending = file.pending
  PROVE  /\ file' \in [boot : Nat, pending : SUBSET Candidate, claimed : SUBSET Candidate]
         /\ \A h \in H : file'.boot = boot /\ h \in file'.pending
         /\ file'.pending # {} => file'.boot # Fresh
<1>1. CASE file' = file
  BY <1>1 DEF IInv, Types, HeldIsClaimable, PhaseInv
<1>2. CASE file.boot = boot /\ file' = Written(file.pending \ {c}, file.claimed \ {c}, boot)
  <2>1. /\ file.pending \ {c} \in SUBSET Candidate /\ file.claimed \ {c} \in SUBSET Candidate
        /\ boot \in Nat /\ boot # Fresh
    BY DEF IInv, Types, PhaseInv
  <2>2. /\ file' \in [boot : Nat, pending : SUBSET Candidate, claimed : SUBSET Candidate]
        /\ file'.pending = file.pending \ {c}
        /\ file'.pending # {} => file'.boot = boot
    BY <1>2, <2>1 DEF Written, NoFile
  <2>3. \A h \in H : h \in file'.pending
    BY <2>2 DEF IInv, HeldIsClaimable
  <2> QED BY <2>1, <2>2, <2>3
<1> QED BY <1>1, <1>2 DEF Completes

LEMMA VisitKeeps == ASSUME IInv, NEW c \in Candidate, Visit(c) PROVE IInv'
<1>1. /\ phase = "recovering" /\ launch = Free /\ c \in todo /\ c \in held
      /\ todo' = todo \ {c}
      /\ UNCHANGED <<phase, boot, runs, captured, sent, overtaken, background>>
  BY LaunchForms DEF Visit, past, LaunchesAt, Free, IInv, Types, HeldInv
<1>2. CASE Discard(c)
  <2>1. c \notin held' \/ file'.pending = file.pending
    <3>1. file' = file \/ c \notin file'.pending
      BY <1>2 DEF Discard, Completes, Written, NoFile
    <3> QED BY <1>1, <1>2, <3>1 DEF Discard, IInv, HeldIsClaimable
  <2>2. launch' = Free /\ Claimed' = {}
    BY <1>1, <1>2, LaunchForms DEF Discard, Claimed
  <2>3. /\ launch' = Free /\ Claimed' = {} /\ held' \in SUBSET held
        /\ todo' \subseteq held' /\ Completes(c)
        /\ c \notin held' \/ file'.pending = file.pending
    BY <1>1, <1>2, <2>1, <2>2 DEF Discard, IInv, HeldInv
  <2>4. /\ file' \in [boot : Nat, pending : SUBSET Candidate, claimed : SUBSET Candidate]
        /\ \A h \in held' : file'.boot = boot /\ h \in file'.pending
        /\ file'.pending # {} => file'.boot # Fresh
    BY <1>1, <2>3, CompletesFile
  <2>5. Types' /\ PhaseInv'
    BY <1>1, <2>3, <2>4 DEF IInv, Types, PhaseInv
  <2>6. HeldInv' /\ HeldIsClaimable'
    BY <1>1, <2>3, <2>4 DEF IInv, HeldInv, HeldIsClaimable
  <2>7. StaleInv'
    BY <1>1, <2>3 DEF IInv, StaleInv
  <2> QED BY <2>3, <2>5, <2>6, <2>7 DEF IInv, LaunchInv
<1>3. CASE Resume(c) \/ PassOver
  <2>1. UNCHANGED <<file, held>> /\ (launch' = Free \/ launch' = Launch("claim", c))
    BY <1>1, <1>3 DEF Resume, PassOver
  <2>2. Types'
    BY <1>1, <2>1 DEF IInv, Types, Launch, Target
  <2>3. PhaseInv' /\ HeldInv' /\ HeldIsClaimable'
    BY <1>1, <2>1 DEF IInv, PhaseInv, HeldInv, HeldIsClaimable
  <2>4. LaunchInv'
    BY <1>1, <2>1, LaunchForms DEF LaunchInv
  <2>5. Claimed' = {}
    BY <2>1, LaunchForms DEF Claimed
  <2>6. StaleInv'
    BY <1>1, <2>1, <2>5 DEF IInv, StaleInv
  <2> QED BY <2>2, <2>3, <2>4, <2>6 DEF IInv
<1> QED BY <1>2, <1>3 DEF Visit

-----------------------------------------------------------------------------
\* Steps of a launch that do not touch the file.
LEMMA OpenKeeps == ASSUME IInv, NEW s \in Sessions, Open(s) PROVE IInv'
<1>1. /\ UNCHANGED <<file, phase, boot, held, todo, runs, captured, sent, overtaken,
                     background>>
      /\ launch = Free /\ phase = "serving" /\ todo = {}
  BY LaunchForms DEF Open, past, LaunchesAt, Free, IInv, Types, PhaseInv
<1>2. \/ \E c \in HeldOf(s) : launch' = Launch("claim", c)
      \/ HeldOf(s) = {} /\ launch' = Launch("start", <<Fresh, s>>)
  BY DEF Open
<1>3. Types'
  BY <1>1, <1>2 DEF IInv, Types, Launch, Target, HeldOf
<1>4. <<Fresh, s>> \notin Candidate
  BY DEF Candidate
<1>5. LaunchInv' /\ Claimed' = {}
  BY <1>1, <1>2, <1>4, LaunchForms DEF LaunchInv, HeldOf, Claimed, IInv, Types
<1> QED BY <1>1, <1>3, <1>5
     DEF IInv, PhaseInv, HeldInv, HeldIsClaimable, StaleInv

\* The launch goes on to a stage in which it will prompt nobody.
LEMMA LaunchEndsKeeps ==
  ASSUME IInv, phase # "off",
         UNCHANGED <<file, phase, boot, held, todo, captured, sent, overtaken, background>>,
         runs' = runs \/ \E s \in Sessions : runs' = [runs EXCEPT ![s] = "none"],
         \/ launch' = Free
         \/ \E c \in Target \ held : launch' = Launch("complete", c)
  PROVE  IInv'
<1>1. /\ runs' \in [Sessions -> {"none", "ready", "running"}]
      /\ \A s \in Sessions : runs'[s] # "none" => runs[s] # "none"
  BY DEF IInv, Types
<1>2. Types'
  BY <1>1 DEF IInv, Types, Launch
<1>3. Claimed' = {} /\ LaunchInv'
  BY LaunchForms DEF Claimed, LaunchInv
<1>4. StaleInv'
  BY <1>1, <1>3, Candidates DEF IInv, StaleInv, Types
<1> QED BY <1>1, <1>2, <1>3, <1>4 DEF IInv, PhaseInv, HeldInv, HeldIsClaimable

LEMMA EndKeeps == ASSUME IInv, StartFails \/ Answered PROVE IInv'
<1>1. PICK a \in {"start", "sending"} : LaunchesAt(a)
  BY DEF StartFails, Answered
<1>2. launch # Free /\ launch.of \in Target \ held /\ launch.of[2] \in Sessions
  BY <1>1, LaunchOf, Candidates, LaunchForms DEF IInv, LaunchInv
<1>3. phase # "off"
  BY <1>2 DEF IInv, PhaseInv
<1> QED BY <1>2, <1>3, LaunchEndsKeeps DEF StartFails, Answered, past

LEMMA CompleteKeeps == ASSUME IInv, Complete PROVE IInv'
<1>1. LaunchesAt("complete") /\ launch # Free /\ launch.of \notin held /\ phase # "off"
  BY LaunchOf DEF Complete, IInv, LaunchInv, LaunchesAt, PhaseInv
<1>2. /\ launch' = Free /\ Completes(launch.of)
      /\ UNCHANGED <<phase, boot, held, todo, runs, captured, sent, overtaken, background>>
  BY DEF Complete, past
<1>3. /\ file' \in [boot : Nat, pending : SUBSET Candidate, claimed : SUBSET Candidate]
      /\ \A h \in held : file'.boot = boot /\ h \in file'.pending
      /\ file'.pending # {} => file'.boot # Fresh
  BY <1>1, <1>2, CompletesFile
<1>4. Types' /\ PhaseInv'
  BY <1>1, <1>2, <1>3 DEF IInv, Types, PhaseInv
<1>5. Claimed' = {}
  BY <1>2, LaunchForms DEF Claimed
<1> QED BY <1>2, <1>3, <1>4, <1>5
     DEF IInv, HeldInv, HeldIsClaimable, LaunchInv, StaleInv

LEMMA ClaimKeeps == ASSUME IInv, Claim PROVE IInv'
<1> DEFINE c == launch.of
<1>1. /\ launch # Free /\ launch = Launch("claim", c) /\ c \in held \ todo
      /\ phase # "off"
  BY LaunchOf DEF Claim, LaunchesAt, IInv, LaunchInv, PhaseInv
<1>2. UNCHANGED <<phase, boot, todo, runs, captured, sent, overtaken, background>>
  BY DEF Claim, past
<1>3. CASE launch' = Free /\ UNCHANGED <<file, held>>
  BY <1>1, <1>2, <1>3, LaunchEndsKeeps
<1>4. ASSUME c \in file.pending, file.boot = boot,
             file' = Written(file.pending \ {c}, file.claimed \cup {c}, boot),
             held' = held \ {c}, launch' = Launch("start", c)
      PROVE  IInv'
  <2>1. c \in Candidate /\ c[1] # Fresh /\ boot # Fresh /\ boot \in Nat
    BY <1>1, Candidates DEF IInv, Types, PhaseInv
  <2>2. /\ file' = [boot |-> boot, pending |-> file.pending \ {c},
                    claimed |-> file.claimed \cup {c}]
    BY <1>4 DEF Written
  <2>3. /\ file'.boot = boot /\ file'.pending = file.pending \ {c}
        /\ file' \in [boot : Nat, pending : SUBSET Candidate, claimed : SUBSET Candidate]
    BY <2>1, <2>2 DEF IInv, Types
  <2>4. launch' \in [at : {"claim", "start", "sending", "complete"}, of : Target]
    BY <1>4, <2>1 DEF Launch, Target
  <2>5. Types' /\ PhaseInv'
    <3>1. Types'
      BY <1>2, <1>4, <2>3, <2>4 DEF IInv, Types
    <3>2. PhaseInv'
      BY <1>1, <1>2, <2>1, <2>3 DEF IInv, PhaseInv
    <3> QED BY <3>1, <3>2
  <2>6. HeldInv' /\ HeldIsClaimable'
    BY <1>1, <1>2, <1>4, <2>3 DEF IInv, HeldInv, HeldIsClaimable
  <2>7. LaunchInv'
    BY <1>1, <1>2, <1>4, <2>1, LaunchForms DEF IInv, LaunchInv, HeldInv
  <2>8. Claimed' = {c}
    BY <1>4, <2>1, LaunchForms DEF Claimed
  <2>9. StaleInv'
    BY <1>1, <1>2, <1>4, <2>8 DEF IInv, StaleInv
  <2> QED BY <2>5, <2>6, <2>7, <2>9 DEF IInv
<1> QED BY <1>3, <1>4 DEF Claim, Refused

LEMMA StartedKeeps == ASSUME IInv, Started PROVE IInv'
<1> DEFINE c == launch.of
<1>1. /\ launch # Free /\ launch = Launch("start", c) /\ c \in Target /\ c \notin held
      /\ phase # "off" /\ c[2] \in Sessions /\ runs[c[2]] = "none"
  BY LaunchOf, Candidates, LaunchForms DEF Started, LaunchesAt, IInv, LaunchInv, PhaseInv
<1>2. UNCHANGED <<file, phase, boot, held, todo, captured, overtaken, background>>
  BY DEF Started
<1>3. HeldOf(c[2]) = {}
  <2>1. CASE c[1] = Fresh
    BY <1>1, <2>1, LaunchForms DEF IInv, LaunchInv
  <2>2. CASE c[1] # Fresh
    <3>1. c[1] + 1 = boot
      BY <1>1, <2>2, LaunchForms DEF IInv, LaunchInv
    <3>2. \A h \in held : h[1] + 1 = boot /\ h[1] \in Nat /\ h = <<h[1], h[2]>>
      BY Candidates DEF IInv, Types, HeldInv
    <3>3. c = <<c[1], c[2]>> /\ c[1] \in Nat
      BY <1>1, Candidates
    <3> QED BY <1>1, <3>1, <3>2, <3>3 DEF HeldOf
  <2> QED BY <2>1, <2>2
<1>4. \A h \in held : h[2] # c[2]
  BY <1>3 DEF HeldOf
<1>5. CASE c[1] = Fresh /\ runs' = [runs EXCEPT ![c[2]] = "ready"] /\ launch' = Free
           /\ UNCHANGED sent
  <2>1. Types'
    BY <1>1, <1>2, <1>5 DEF IInv, Types
  <2>2. Claimed' = {} /\ LaunchInv'
    BY <1>5, LaunchForms DEF Claimed, LaunchInv
  <2>3. StaleInv'
    BY <1>1, <1>2, <1>4, <1>5, <2>2, Candidates DEF IInv, Types, StaleInv
  <2> QED BY <1>1, <1>2, <1>5, <2>1, <2>2, <2>3
       DEF IInv, PhaseInv, HeldInv, HeldIsClaimable
<1>6. CASE c[1] # Fresh /\ runs' = [runs EXCEPT ![c[2]] = "running"]
           /\ sent' = [sent EXCEPT ![c] = @ + 1] /\ launch' = Launch("sending", c)
  <2>1. c \in Candidate /\ c[1] + 1 = boot /\ c[1] \in Nat
    BY <1>1, <1>6, Candidates, LaunchForms DEF IInv, LaunchInv
  <2>2. Types'
    BY <1>1, <1>2, <1>6, <2>1 DEF IInv, Types, Launch
  <2>3. LaunchInv' /\ Claimed' = {}
    BY <1>1, <1>2, <1>6, LaunchForms DEF LaunchInv, Claimed
  <2>4. HeldInv'
    BY <1>1, <1>2, <1>6, <2>1, Candidates DEF IInv, Types, HeldInv
  <2>5. StaleInv'
    BY <1>1, <1>2, <1>4, <1>6, <2>3, Candidates DEF IInv, Types, StaleInv
  <2> QED BY <1>1, <1>2, <2>2, <2>3, <2>4, <2>5 DEF IInv, PhaseInv, HeldIsClaimable
<1> QED BY <1>5, <1>6 DEF Started

-----------------------------------------------------------------------------
\* Steps between the phases.
LEMMA PhaseKeeps == ASSUME IInv, Recovered \/ SaveGeneral \/ Shutdown \/ Stopped PROVE IInv'
<1>1. /\ UNCHANGED <<file, boot, held, todo, launch, sent, overtaken, background>>
      /\ phase # "off" /\ phase' \in {"serving", "stopping", "storing"} /\ todo = {}
      /\ captured' \subseteq {boot} \X Sessions
  BY DEF Recovered, SaveGeneral, Shutdown, Capturable, Stopped, kernelVars, past, IInv,
         PhaseInv
<1>2. /\ runs' \in [Sessions -> {"none", "ready", "running"}]
      /\ \A s \in Sessions : runs'[s] # "none" => runs[s] # "none"
  BY DEF Recovered, SaveGeneral, Shutdown, Stopped, kernelVars, IInv, Types
<1>3. Types' /\ PhaseInv'
  BY <1>1, <1>2 DEF IInv, Types, PhaseInv
<1>4. HeldInv' /\ HeldIsClaimable' /\ LaunchInv'
  BY <1>1 DEF IInv, HeldInv, HeldIsClaimable, LaunchInv, HeldOf
<1>5. StaleInv'
  BY <1>1, <1>2, Candidates DEF IInv, Types, StaleInv, Claimed
<1> QED BY <1>3, <1>4, <1>5 DEF IInv

LEMMA EndsKeep == ASSUME IInv, Store \/ Crash PROVE IInv'
<1>1. /\ phase # "off" /\ phase' = "off" /\ held' = {} /\ todo' = {} /\ captured' = {}
      /\ launch' = Free /\ runs' = [s \in Sessions |-> "none"]
      /\ UNCHANGED <<boot, sent, overtaken>>
  BY DEF Store, Crash, Ends, past
<1>2. captured \in SUBSET Candidate /\ (\A c \in captured : c[1] = boot) /\ boot \in Nat
  BY <1>1 DEF IInv, Types, PhaseInv, Candidate
<1>3. file' = file \/ file' = Written(captured, {}, Fresh)
  BY DEF Store, Crash
<1>4. file' \in [boot : Nat, pending : SUBSET Candidate, claimed : SUBSET Candidate]
  BY <1>2, <1>3 DEF IInv, Types, Written, NoFile
<1>5. file'.pending # {} /\ file'.boot = Fresh => \A c \in file'.pending : c[1] = boot
  BY <1>1, <1>2, <1>3 DEF IInv, PhaseInv, Written, NoFile
<1>6. Types' /\ PhaseInv'
  BY <1>1, <1>4, <1>5 DEF IInv, Types, PhaseInv
<1>7. Claimed' = {}
  BY <1>1, LaunchForms DEF Claimed
<1> QED BY <1>1, <1>6, <1>7
     DEF IInv, HeldInv, HeldIsClaimable, LaunchInv, StaleInv

-----------------------------------------------------------------------------
LEMMA InitHolds == Init => IInv
<1> SUFFICES ASSUME Init PROVE IInv
  OBVIOUS
<1>1. Types /\ PhaseInv
  BY DEF Init, Types, PhaseInv, NoFile
<1>2. Claimed = {}
  BY LaunchForms DEF Init, Claimed
<1> QED BY <1>1, <1>2
     DEF Init, IInv, HeldInv, HeldIsClaimable, LaunchInv, StaleInv

LEMMA StepKeeps == IInv /\ [Next]_vars => IInv'
<1> SUFFICES ASSUME IInv, [Next]_vars PROVE IInv'
  OBVIOUS
<1>1. CASE UNCHANGED vars
  BY <1>1 DEF vars, kernelVars, past, IInv, Types, PhaseInv, HeldInv, HeldIsClaimable,
              LaunchInv, HeldOf, StaleInv, Claimed
<1> QED BY <1>1, LoadKeeps, VisitKeeps, OpenKeeps, ClaimKeeps, StartedKeeps, EndKeeps,
           CompleteKeeps, WorkKeeps, PhaseKeeps, EndsKeep DEF Next

\* Everything below follows from this: a file that no boot has taken holds what the
\* last one captured, what is held is claimable, and what is claimed or held was
\* not prompted before (ProjectStore and WorkbenchKernel.launch).
THEOREM Inductive == Spec => []IInv
BY InitHolds, StepKeeps, PTL DEF Spec

\* No Session is locked out by a candidate that cannot be claimed any more.
THEOREM HeldIsClaimableHolds == Spec => []HeldIsClaimable
<1>1. IInv => HeldIsClaimable
  BY DEF IInv
<1> QED BY Inductive, <1>1, PTL

\* A prompt is sent only by Started.
LEMMA PromptsOf ==
  ASSUME IInv, [Next]_vars, NEW c \in Candidate, sent'[c] # sent[c]
  PROVE  launch = Launch("start", c)
<1>1. Started
  BY DEF Next, vars, past, kernelVars, Load, Visit, Recovered, Open, Claim, StartFails,
         Answered, Complete, Prompt, Deliver, Settles, Stops, SaveGeneral, Shutdown,
         Stopped, Store, Crash, Ends
<1>2. c = launch.of
  BY <1>1 DEF Started, IInv, Types
<1> QED BY <1>1, <1>2, LaunchOf DEF Started, IInv

\* Interrupted work is continued at most once and by the next boot only, through
\* any failing write, crash and restart.
THEOREM ContinuesOnce == Spec => ContinuedOnce
<1>1. ASSUME IInv, [Next]_vars, NEW c \in Candidate, sent'[c] # sent[c]
      PROVE  sent[c] = 0 /\ boot = c[1] + 1
  BY <1>1, PromptsOf, LaunchForms, Candidates DEF IInv, LaunchInv
<1>2. IInv /\ [Next]_vars =>
        [\A c \in Candidate : sent'[c] # sent[c] => sent[c] = 0 /\ boot = c[1] + 1]_vars
  BY <1>1
<1> QED BY Inductive, <1>2, PTL DEF Spec, ContinuedOnce

\* Nothing is continued that the user has moved on from in this boot.
THEOREM NothingOvertaken == Spec => NotOvertaken
<1>1. ASSUME IInv, [Next]_vars, NEW c \in Candidate, sent'[c] # sent[c]
      PROVE  c \notin overtaken \ background
  BY <1>1, PromptsOf DEF IInv, StaleInv, Claimed
<1>2. IInv /\ [Next]_vars =>
        [\A c \in Candidate : sent'[c] # sent[c] => c \notin overtaken \ background]_vars
  BY <1>1
<1> QED BY Inductive, <1>2, PTL DEF Spec, NotOvertaken
=============================================================================
