------------------------ MODULE WorkbenchLaunchProofs ------------------------
(***************************************************************************)
(* What WorkbenchLaunch keeps for every number of contexts and Sessions.   *)
(***************************************************************************)
EXTENDS WorkbenchLaunch, TLAPS

Launching == gate.pc \in {"start", "ask", "commit", "cleanup"}

\* The context that is launched, and the one to return to, stay managed; an
\* exit of the new Runtime is on the record.
GateInv ==
  /\ Launching =>
       /\ gate.ctx \in managed /\ active = gate.ctx
       /\ gate.prev \in managed \cup {None} /\ gate.prev # gate.ctx
       /\ ~requested[gate.ctx]
       /\ status[gate.ctx] \in {"starting", "crashed"}
       /\ runtime[gate.ctx] = "gone" => status[gate.ctx] = "crashed" \/ stopAll
       /\ gate.pc = "start" => runtime[gate.ctx] \in {"starting", "gone"}
       /\ gate.pc # "start" => runtime[gate.ctx] \in {"live", "gone"}
  /\ gate.pc = "persist" => gate.ctx \in managed /\ gate.prev = None

\* A context that is launched in the background is nobody else's.
BgInv ==
  \A f \in Files : bg[f].pc \in {"start", "ask", "stop"} =>
    /\ bg[f].ctx \in Contexts /\ file[bg[f].ctx] = f
    /\ runtime[bg[f].ctx] # "new" /\ status[bg[f].ctx] # "ready"
    /\ active # bg[f].ctx
    /\ Launching \/ gate.pc = "persist" => bg[f].ctx \notin {gate.ctx, gate.prev}

\* Who awaits a stop is where it awaits it, and has noted the foreground.
StopsInv ==
  \A c \in Contexts :
    /\ stops[c] # {} => c \in managed /\ requested[c] /\ status[c] = "stopping"
    /\ c \in managed /\ requested[c] => stops[c] # {}
    /\ \A w \in BOOLEAN :
         /\ <<"gate", w>> \in stops[c] => gate.pc = "stop" /\ gate.ctx = c
         /\ <<"stopAll", w>> \in stops[c] => stopper.pc = "one" /\ stopper.ctx = c
         /\ <<"background", w>> \in stops[c] =>
              ~w /\ \E f \in Files : bg[f].pc = "stop" /\ bg[f].ctx = c
    /\ stops[c] # {} /\ active = c => \E who \in Caller : <<who, TRUE>> \in stops[c]

\* stop() has dealt with every context or still has it to do.
StopperInv ==
  /\ stopAll <=> stopper.pc \in {"launch", "each", "one"}
  /\ stopper.pc \in {"each", "one"} =>
       /\ gate.pc = "idle"
       /\ \A c \in managed :
            c \in stopper.todo \/ stops[c] # {} \/ status[c] = "crashed"

RuntimeInv ==
  \A c \in Contexts :
    /\ runtime[c] \in {"starting", "live"} => c \in managed
    /\ runtime[c] = "new" => c \notin managed /\ ~requested[c]

IInv ==
  /\ TypeOK /\ SelectionIsManaged /\ ReadyIsLive
  /\ GateInv /\ BgInv /\ StopsInv /\ StopperInv /\ RuntimeInv
-----------------------------------------------------------------------------
(* What the steps share                                                    *)

\* The Session on screen is one or none.
LEMMA ShownType == TypeOK => Shown \in Files \cup {None}
  BY DEF TypeOK, Shown

\* stopContext notes who waits, and whether the context was in the foreground.
Noted(c, who) ==
  /\ c \in managed
  /\ requested' = [requested EXCEPT ![c] = TRUE]
  /\ status' = [status EXCEPT ![c] = "stopping"]
  /\ stops' \in [Contexts -> SUBSET (Caller \X BOOLEAN)]
  /\ interrupted' \in SUBSET (Contexts \X Files)
  /\ \A d \in Contexts \ {c} : stops'[d] = stops[d]
  /\ stops'[c] # {}
  /\ <<who, TRUE>> \in stops'[c] <=> <<who, TRUE>> \in stops[c] \/ active = c
  /\ <<who, FALSE>> \in stops'[c] <=> <<who, FALSE>> \in stops[c] \/ active # c
  /\ \A v \in Caller \ {who}, w \in BOOLEAN :
       <<v, w>> \in stops'[c] <=> <<v, w>> \in stops[c]

LEMMA StopCalledNotes ==
  ASSUME TypeOK, NEW c \in Contexts, NEW who \in Caller,
         StopCalled(c, who, TRUE) \/ StopCalled(c, who, FALSE)
  PROVE  Noted(c, who)
<1>. DEFINE note == <<who, active = c>>
<1>1. (active = c) \in BOOLEAN /\ note \in Caller \X BOOLEAN
  OBVIOUS
<1>2. /\ c \in managed
      /\ requested' = [requested EXCEPT ![c] = TRUE]
      /\ status' = [status EXCEPT ![c] = "stopping"]
      /\ stops' = [stops EXCEPT ![c] = @ \cup {note}]
      /\ \/ interrupted' = interrupted
         \/ names[c] # None /\ interrupted' = interrupted \cup {<<c, names[c]>>}
  BY DEF StopCalled
<1>3. interrupted' \in SUBSET (Contexts \X Files)
  BY <1>2 DEF TypeOK
<1>4. /\ stops'[c] = stops[c] \cup {note}
      /\ \A d \in Contexts \ {c} : stops'[d] = stops[d]
      /\ stops' \in [Contexts -> SUBSET (Caller \X BOOLEAN)]
  <2>. HIDE DEF note
  <2>. QED  BY <1>1, <1>2 DEF TypeOK
<1>5. /\ <<who, TRUE>> = note <=> active = c
      /\ <<who, FALSE>> = note <=> active # c
      /\ \A v \in Caller \ {who}, w \in BOOLEAN : <<v, w>> # note
  <2>1. CASE active = c
    <3>1. note = <<who, TRUE>>
      BY <2>1, Zenon
    <3>. QED  BY <2>1, <3>1
  <2>2. CASE active # c
    <3>1. note = <<who, FALSE>>
      BY <2>2, Zenon
    <3>. QED  BY <2>2, <3>1
  <2>. QED  BY <2>1, <2>2
<1>. HIDE DEF note
<1>. QED  BY <1>2, <1>3, <1>4, <1>5 DEF Noted

\* A move of the operation behind the gate, or of a background launch, leaves
\* what it is about.
LEMMA GoesTypes ==
  ASSUME TypeOK, NEW pc \in {"trust", "stop", "start", "ask", "commit", "cleanup"},
         Goes(pc)
  PROVE  /\ gate' \in GateStates /\ gate'.pc = pc
         /\ gate'.op = gate.op /\ gate'.file = gate.file
         /\ gate'.ctx = gate.ctx /\ gate'.prev = gate.prev
  BY DEF TypeOK, GateStates, Goes

LEMMA NoLaunchTypes == NoLaunch \in GateStates
  BY DEF NoLaunch, GateStates

LEMMA LaunchesTypes ==
  ASSUME NEW op \in {"activate", "reload", "hibernate"},
         NEW pc \in {"persist", "validate", "stop"},
         NEW f \in Files, NEW c \in Contexts \cup {None}, Launches(op, pc, f, c)
  PROVE  gate' \in GateStates
  BY DEF Launches, GateStates

LEMMA BgGoesTypes ==
  ASSUME TypeOK, NEW f \in Files, NEW pc \in {"trust", "ask", "stop"}, BgGoes(f, pc)
  PROVE  /\ bg' \in [Files -> BgStates]
         /\ bg'[f].pc = pc /\ bg'[f].ctx = bg[f].ctx
         /\ \A g \in Files \ {f} : bg'[g] = bg[g]
<1>1. bg \in [Files -> BgStates] /\ bg[f] \in BgStates
  BY DEF TypeOK
<1>2. bg' = [bg EXCEPT ![f] = [bg[f] EXCEPT !.pc = pc]]
  BY DEF BgGoes
<1>3. /\ [bg[f] EXCEPT !.pc = pc] \in BgStates
      /\ [bg[f] EXCEPT !.pc = pc].pc = pc
      /\ [bg[f] EXCEPT !.pc = pc].ctx = bg[f].ctx
  BY <1>1 DEF BgStates
<1>. QED  BY <1>1, <1>2, <1>3

LEMMA StopperGoesTypes ==
  ASSUME TypeOK, NEW pc \in {"idle", "committing", "launch", "each"}, StopperGoes(pc)
  PROVE  /\ stopper' \in StopperStates /\ stopper'.pc = pc
         /\ stopper'.todo = stopper.todo /\ stopper'.ctx = stopper.ctx
  BY DEF TypeOK, StopperStates, StopperGoes

\* A context that was never created is nowhere.
LEMMA NewIsNowhere ==
  ASSUME IInv, NEW c \in Contexts, runtime[c] = "new"
  PROVE  /\ c \notin managed /\ ~requested[c] /\ stops[c] = {}
         /\ active # c /\ \A f \in Files : keyed[f] # c
<1>1. c \notin managed /\ ~requested[c]
  BY DEF IInv, RuntimeInv
<1>2. stops[c] = {}
  BY <1>1 DEF IInv, StopsInv
<1>3. active # c /\ \A f \in Files : keyed[f] # c
  BY <1>1, NoneIsNoName DEF IInv, SelectionIsManaged
<1>. QED  BY <1>1, <1>2, <1>3

\* No operation changes the foreground while a stop that noted it is awaited:
\* neither a launch, nor a switch, nor the await of a trust.
LEMMA NoneNotedAtGate ==
  ASSUME IInv, gate.pc \in {"persist", "trust", "start", "ask", "commit", "cleanup"}
  PROVE  \A c \in Contexts, who \in Caller : <<who, TRUE>> \notin stops[c]
  BY DEF IInv, TypeOK, StopsInv, StopperInv, Caller, GateStates, StopperStates

\* The context of a launch, the one to return to and the one to switch to are
\* not being stopped.
LEMMA NoneStoppedAtGate ==
  ASSUME IInv, Launching \/ gate.pc = "persist", NEW c \in {gate.ctx, gate.prev} \cap Contexts
  PROVE  stops[c] = {}
<1>1. ASSUME NEW p \in stops[c] PROVE FALSE
  <2>1. PICK who \in Caller, w \in BOOLEAN : p = <<who, w>>
    BY <1>1 DEF IInv, TypeOK
  <2>2. who # "gate"
    BY <2>1, <1>1 DEF IInv, StopsInv, Launching
  <2>3. who # "stopAll"
    BY <2>1, <1>1 DEF IInv, StopsInv, StopperInv, Launching
  <2>4. who # "background"
    <3>1. ASSUME who = "background" PROVE \E f \in Files : bg[f].pc = "stop" /\ bg[f].ctx = c
      BY <2>1, <1>1, <3>1 DEF IInv, StopsInv
    <3>. QED  BY <3>1 DEF IInv, BgInv
  <2>. QED  BY <2>2, <2>3, <2>4 DEF Caller
<1>. QED  BY <1>1

\* A call of stopContext takes nothing from the selection and leaves its
\* context for stop() to find dealt with.
LEMMA NotedSelection ==
  ASSUME IInv, NEW c \in Contexts, NEW who \in Caller,
         Noted(c, who), UNCHANGED selVars
  PROVE  /\ SelectionIsManaged'
         /\ \A d \in Contexts : stops[d] # {} \/ status[d] = "crashed"
              => stops'[d] # {} \/ status'[d] = "crashed"
<1>1. TypeOK /\ SelectionIsManaged
  BY DEF IInv
<1>2. ASSUME NEW d \in Contexts, NEW v \in Caller, <<v, TRUE>> \in stops'[d]
      PROVE  active \in {d, None}
  <2>1. CASE <<v, TRUE>> \in stops[d]
    BY <1>1, <2>1 DEF SelectionIsManaged
  <2>2. CASE <<v, TRUE>> \notin stops[d]
    <3>1. d = c /\ v = who /\ active = c
      BY <1>1, <1>2, <2>2 DEF Noted
    <3>. QED  BY <3>1
  <2>. QED  BY <2>1, <2>2
<1>3. SelectionIsManaged'
  BY <1>1, <1>2 DEF SelectionIsManaged, selVars
<1>4. ASSUME NEW d \in Contexts, stops[d] # {} \/ status[d] = "crashed"
      PROVE  stops'[d] # {} \/ status'[d] = "crashed"
  <2>1. CASE d = c
    BY <1>1, <2>1 DEF Noted
  <2>2. CASE d # c
    <3>1. stops'[d] = stops[d] /\ status'[d] = status[d]
      BY <1>1, <2>2 DEF Noted, TypeOK
    <3>. QED  BY <1>4, <3>1
  <2>. QED  BY <2>1, <2>2
<1>. QED  BY <1>3, <1>4

\* It leaves the books of the stops right if who calls it goes on to wait.
LEMMA NotedStops ==
  ASSUME IInv, NEW c \in Contexts, NEW who \in Caller,
         Noted(c, who), UNCHANGED selVars,
         \A d \in Contexts, w \in BOOLEAN :
           /\ <<"gate", w>> \in stops'[d] => gate'.pc = "stop" /\ gate'.ctx = d
           /\ <<"stopAll", w>> \in stops'[d] => stopper'.pc = "one" /\ stopper'.ctx = d
           /\ <<"background", w>> \in stops'[d] =>
                ~w /\ \E f \in Files : bg'[f].pc = "stop" /\ bg'[f].ctx = d
  PROVE  StopsInv'
<1>1. TypeOK /\ StopsInv
  BY DEF IInv
<1>2. ASSUME NEW d \in Contexts
      PROVE  /\ stops'[d] # {} => d \in managed' /\ requested'[d] /\ status'[d] = "stopping"
             /\ d \in managed' /\ requested'[d] => stops'[d] # {}
             /\ stops'[d] # {} /\ active' = d
                  => \E v \in Caller : <<v, TRUE>> \in stops'[d]
  <2>1. CASE d = c
    <3>1. c \in managed' /\ requested'[c] /\ status'[c] = "stopping" /\ stops'[c] # {}
      BY <1>1 DEF Noted, TypeOK, selVars
    <3>2. active' = c => <<who, TRUE>> \in stops'[c]
      BY <1>1 DEF Noted, selVars
    <3>. QED  BY <2>1, <3>1, <3>2
  <2>2. CASE d # c
    <3>1. stops'[d] = stops[d] /\ requested'[d] = requested[d] /\ status'[d] = status[d]
      BY <1>1, <2>2 DEF Noted, TypeOK
    <3>. QED  BY <1>1, <3>1 DEF StopsInv, selVars
  <2>. QED  BY <2>1, <2>2
<1>. QED  BY <1>2 DEF StopsInv

\* A background launch that fails, its Runtime started just now or not.
LEMMA BgFailsKeeps ==
  ASSUME IInv, NEW f \in Files, bg[f].pc \in {"start", "ask"}, BgFails(f),
         UNCHANGED runtime \/ Starts(bg[f].ctx)
  PROVE  IInv'
<1>. DEFINE c == bg[f].ctx
<1>1. /\ TypeOK /\ c \in Contexts /\ active # c /\ file[c] = f
      /\ bg[f] \in BgStates
  BY DEF IInv, BgInv, TypeOK
<1>2. /\ UNCHANGED <<closing, stopAll, stopper, gate, selVars, file, names>>
      /\ committing' = [committing EXCEPT ![c] = FALSE]
  BY DEF BgFails
<1>3. \/ Noted(c, "background") /\ BgGoes(f, "stop")
      \/ /\ c \notin managed /\ bg' = [bg EXCEPT ![f] = Idle]
         /\ UNCHANGED <<requested, status, stops, interrupted>>
  BY <1>1, StopCalledNotes DEF BgFails, Caller
<1>4. /\ runtime' \in [Contexts -> {"new", "starting", "live", "gone"}]
      /\ \A d \in Contexts \ {c} : runtime'[d] = runtime[d]
      /\ runtime'[c] = runtime[c] \/ (runtime[c] = "starting" /\ runtime'[c] = "live")
  BY <1>1 DEF TypeOK, Starts
<1>. HIDE DEF c
<1>5. RuntimeInv' /\ (\A d \in Contexts : runtime[d] = "live" => runtime'[d] = "live")
  <2>1. \A d \in Contexts \ {c} : requested'[d] = requested[d]
    BY <1>1, <1>3 DEF Noted, TypeOK, Caller
  <2>2. runtime'[c] # "new"
    BY <1>1, <1>4 DEF IInv, BgInv, c
  <2>. QED  BY <1>1, <1>2, <1>4, <2>1, <2>2 DEF IInv, TypeOK, RuntimeInv, selVars
<1>6. CASE Noted(c, "background") /\ BgGoes(f, "stop")
  <2>1. /\ bg' \in [Files -> BgStates] /\ bg'[f].pc = "stop" /\ bg'[f].ctx = c
        /\ \A g \in Files \ {f} : bg'[g] = bg[g]
    BY <1>1, <1>6, BgGoesTypes DEF c
  <2>2. /\ requested' = [requested EXCEPT ![c] = TRUE]
        /\ status' = [status EXCEPT ![c] = "stopping"]
        /\ \A d \in Contexts \ {c} : stops'[d] = stops[d]
        /\ \A v \in Caller \ {"background"}, w \in BOOLEAN :
             <<v, w>> \in stops'[c] <=> <<v, w>> \in stops[c]
        /\ <<"background", TRUE>> \notin stops'[c]
    <3>1. <<"background", TRUE>> \notin stops[c]
      BY <1>1 DEF IInv, StopsInv
    <3>. QED  BY <1>1, <1>6, <3>1 DEF Noted, Caller
  <2>3. TypeOK'
    BY <1>1, <1>2, <1>4, <1>6, <2>1, <2>2 DEF Noted, TypeOK, selVars, Caller
  <2>4. /\ SelectionIsManaged'
        /\ \A d \in Contexts : stops[d] # {} \/ status[d] = "crashed"
             => stops'[d] # {} \/ status'[d] = "crashed"
    BY <1>1, <1>2, <1>6, NotedSelection DEF Caller
  <2>5. ReadyIsLive'
    BY <1>1, <1>2, <1>5, <2>2 DEF IInv, ReadyIsLive, TypeOK, selVars
  <2>6. GateInv'
    <3>1. Launching \/ gate.pc = "persist" => c \notin {gate.ctx, gate.prev}
      BY <1>1 DEF IInv, BgInv, c
    <3>. QED  BY <1>1, <1>2, <1>4, <2>2, <3>1 DEF IInv, TypeOK, GateInv, Launching, selVars
  <2>7. BgInv'
    <3>1. ASSUME NEW g \in Files, bg'[g].pc \in {"start", "ask", "stop"}
          PROVE  bg[g].pc \in {"start", "ask", "stop"} /\ bg'[g].ctx = bg[g].ctx
      BY <2>1, <3>1 DEF c
    <3>. QED  BY <1>1, <1>2, <1>4, <2>2, <3>1 DEF IInv, TypeOK, BgInv, Launching, selVars
  <2>8. StopsInv'
    <3>1. ASSUME NEW d \in Contexts, NEW w \in BOOLEAN
          PROVE  /\ <<"gate", w>> \in stops'[d] => gate'.pc = "stop" /\ gate'.ctx = d
                 /\ <<"stopAll", w>> \in stops'[d]
                      => stopper'.pc = "one" /\ stopper'.ctx = d
                 /\ <<"background", w>> \in stops'[d] =>
                      ~w /\ \E g \in Files : bg'[g].pc = "stop" /\ bg'[g].ctx = d
      <4>1. CASE d = c
        BY <1>2, <2>1, <2>2, <4>1 DEF IInv, StopsInv, Caller
      <4>2. CASE d # c
        <5>1. stops'[d] = stops[d]
          BY <2>2, <4>2
        <5>2. ASSUME NEW g \in Files, bg[g].pc = "stop" PROVE bg'[g] = bg[g]
          BY <2>1, <5>2
        <5>3. <<"background", w>> \in stops[d] =>
                ~w /\ \E g \in Files : bg[g].pc = "stop" /\ bg[g].ctx = d
          BY DEF IInv, StopsInv
        <5>4. <<"background", w>> \in stops'[d] =>
                ~w /\ \E g \in Files : bg'[g].pc = "stop" /\ bg'[g].ctx = d
          BY <5>1, <5>2, <5>3
        <5>. QED  BY <1>2, <5>1, <5>4 DEF IInv, StopsInv
      <4>. QED  BY <4>1, <4>2
    <3>. QED  BY <1>1, <1>2, <1>6, <3>1, NotedStops DEF Caller
  <2>9. StopperInv'
    BY <1>1, <1>2, <2>4 DEF IInv, TypeOK, StopperInv, selVars
  <2>. QED  BY <1>5, <2>3, <2>4, <2>5, <2>6, <2>7, <2>8, <2>9 DEF IInv
<1>7. CASE /\ c \notin managed /\ bg' = [bg EXCEPT ![f] = Idle]
           /\ UNCHANGED <<requested, status, stops, interrupted>>
  <2>1. /\ bg' \in [Files -> BgStates] /\ bg'[f].pc = "idle"
        /\ \A g \in Files \ {f} : bg'[g] = bg[g]
    BY <1>1, <1>7 DEF TypeOK, BgStates, Idle
  <2>2. TypeOK' /\ SelectionIsManaged' /\ ReadyIsLive'
    <3>1. TypeOK'
      BY <1>1, <1>2, <1>4, <1>7, <2>1 DEF TypeOK, selVars
    <3>2. SelectionIsManaged'
      BY <1>2, <1>7 DEF IInv, SelectionIsManaged, selVars
    <3>3. ReadyIsLive'
      BY <1>1, <1>2, <1>5, <1>7 DEF IInv, TypeOK, ReadyIsLive, selVars
    <3>. QED  BY <3>1, <3>2, <3>3
  <2>3. GateInv'
    <3>1. Launching \/ gate.pc = "persist" => c # gate.ctx
      BY <1>1 DEF IInv, BgInv, c
    <3>. QED  BY <1>1, <1>2, <1>4, <1>7, <3>1 DEF IInv, TypeOK, GateInv, Launching, selVars
  <2>4. BgInv'
    <3>1. ASSUME NEW g \in Files, bg'[g].pc \in {"start", "ask", "stop"}
          PROVE  bg[g].pc \in {"start", "ask", "stop"} /\ bg'[g] = bg[g]
      BY <2>1, <3>1
    <3>. QED  BY <1>1, <1>2, <1>4, <1>7, <3>1 DEF IInv, TypeOK, BgInv, Launching, selVars
  <2>5. StopsInv'
    <3>1. ASSUME NEW g \in Files, bg[g].pc = "stop" PROVE bg'[g] = bg[g]
      BY <2>1, <3>1
    <3>2. ASSUME NEW d \in Contexts, NEW w \in BOOLEAN, <<"background", w>> \in stops[d]
          PROVE  ~w /\ \E g \in Files : bg'[g].pc = "stop" /\ bg'[g].ctx = d
      <4>1. ~w /\ \E g \in Files : bg[g].pc = "stop" /\ bg[g].ctx = d
        BY <3>2 DEF IInv, StopsInv
      <4>. QED  BY <4>1, <3>1
    <3>. QED  BY <1>2, <1>7, <3>2 DEF IInv, StopsInv, selVars
  <2>6. StopperInv'
    BY <1>2, <1>7 DEF IInv, StopperInv, selVars
  <2>. QED  BY <1>5, <2>2, <2>3, <2>4, <2>5, <2>6 DEF IInv
<1>. QED  BY <1>3, <1>6, <1>7

\* What the operation behind the gate awaits before it launches concerns no
\* other part.
LEMMA GateWaitsKeeps ==
  ASSUME IInv, gate' \in GateStates, gate'.pc \in {"trust", "idle"},
         gate.pc \in {"validate", "stop"},
         \A d \in Contexts, w \in BOOLEAN : <<"gate", w>> \notin stops[d] \/ gate.pc = "validate",
         UNCHANGED <<closing, stopAll, stopper, bg, selVars, ctxVars, interrupted>>
  PROVE  IInv'
<1>1. TypeOK'
  BY DEF IInv, TypeOK, selVars, ctxVars
<1>2. SelectionIsManaged' /\ ReadyIsLive' /\ RuntimeInv'
  BY DEF IInv, SelectionIsManaged, ReadyIsLive, RuntimeInv, selVars, ctxVars
<1>3. GateInv' /\ BgInv'
  BY DEF IInv, GateInv, BgInv, Launching, selVars, ctxVars
<1>4. StopsInv'
  BY DEF IInv, StopsInv, selVars, ctxVars
<1>5. StopperInv'
  BY DEF IInv, StopperInv, selVars, ctxVars
<1>. QED  BY <1>1, <1>2, <1>3, <1>4, <1>5 DEF IInv

\* The operation behind the gate stops a context and waits for it.
LEMMA GateStopKeeps ==
  ASSUME IInv, NEW c \in Contexts, gate.pc \in {"validate", "idle"}, ~stopAll,
         StopCalled(c, "gate", TRUE) \/ StopCalled(c, "gate", FALSE),
         gate' \in GateStates, gate'.pc = "stop", gate'.ctx = c,
         UNCHANGED <<closing, stopAll, stopper, bg, selVars, file, committing, names,
                     runtime>>
  PROVE  IInv'
<1>1. TypeOK /\ Noted(c, "gate")
  BY StopCalledNotes DEF IInv, Caller
<1>2. TypeOK'
  BY <1>1 DEF Noted, TypeOK, selVars
<1>3. SelectionIsManaged'
  BY <1>1, NotedSelection DEF Caller
<1>4. StopsInv'
  <2>1. ASSUME NEW d \in Contexts, NEW w \in BOOLEAN
        PROVE  /\ <<"gate", w>> \in stops'[d] => gate'.pc = "stop" /\ gate'.ctx = d
               /\ <<"stopAll", w>> \in stops'[d] => stopper'.pc = "one" /\ stopper'.ctx = d
               /\ <<"background", w>> \in stops'[d] =>
                    ~w /\ \E g \in Files : bg'[g].pc = "stop" /\ bg'[g].ctx = d
    <3>1. CASE d = c
      <4>1. /\ <<"stopAll", w>> \in stops'[c] => <<"stopAll", w>> \in stops[c]
            /\ <<"background", w>> \in stops'[c] => <<"background", w>> \in stops[c]
        BY <1>1 DEF Noted, Caller
      <4>2. /\ <<"stopAll", w>> \in stops[c] => stopper.pc = "one" /\ stopper.ctx = c
            /\ <<"background", w>> \in stops[c] =>
                 ~w /\ \E g \in Files : bg[g].pc = "stop" /\ bg[g].ctx = c
        BY DEF IInv, StopsInv
      <4>. QED  BY <3>1, <4>1, <4>2
    <3>2. CASE d # c
      <4>1. stops'[d] = stops[d]
        BY <1>1, <3>2 DEF Noted
      <4>. QED  BY <4>1 DEF IInv, StopsInv
    <3>. QED  BY <3>1, <3>2
  <2>. QED  BY <1>1, <2>1, NotedStops DEF Caller
<1>5. ReadyIsLive' /\ GateInv' /\ RuntimeInv'
  BY <1>1 DEF Noted, IInv, TypeOK, ReadyIsLive, GateInv, Launching, RuntimeInv, selVars
<1>6. BgInv'
  BY <1>1 DEF Noted, IInv, TypeOK, BgInv, Launching, selVars
<1>7. StopperInv'
  BY DEF IInv, StopperInv
<1>. QED  BY <1>2, <1>3, <1>4, <1>5, <1>6, <1>7 DEF IInv

-----------------------------------------------------------------------------
(* The actions                                                             *)

LEMMA ActivateKeeps ==
  ASSUME IInv, NEW f \in Files, Activate(f)
  PROVE  IInv'
<1>1. TypeOK'
  BY NoneIsNoName DEF IInv, TypeOK, GateStates, BgStates, StopperStates,
     Activate, Free, Healthy, Launches, NoLaunch, opVars, selVars, ctxVars
<1>2. SelectionIsManaged'
  BY NoneIsNoName DEF IInv, TypeOK, SelectionIsManaged, Activate, Free,
     Healthy, Launches, NoLaunch, opVars, selVars, ctxVars
<1>3. ReadyIsLive'
  BY NoneIsNoName DEF IInv, TypeOK, ReadyIsLive, Activate, Free, Healthy,
     Launches, NoLaunch, opVars, selVars, ctxVars
<1>4. GateInv'
  BY NoneIsNoName DEF IInv, TypeOK, GateInv, Launching, Activate, Free,
     Healthy, Launches, NoLaunch, opVars, selVars, ctxVars
<1>5. BgInv'
  BY NoneIsNoName DEF IInv, TypeOK, BgInv, Launching, Activate, Free,
     Healthy, Launches, NoLaunch, opVars, selVars, ctxVars
<1>6. StopsInv'
  BY NoneIsNoName DEF IInv, TypeOK, StopsInv, Activate, Free, Healthy,
     Launches, NoLaunch, opVars, selVars, ctxVars
<1>7. StopperInv'
  BY NoneIsNoName DEF IInv, TypeOK, StopperInv, Activate, Free, Healthy,
     Launches, NoLaunch, opVars, selVars, ctxVars
<1>8. RuntimeInv'
  BY NoneIsNoName DEF IInv, TypeOK, RuntimeInv, Activate, Free, Healthy,
     Launches, NoLaunch, opVars, selVars, ctxVars
<1>. QED  BY <1>1, <1>2, <1>3, <1>4, <1>5, <1>6, <1>7, <1>8 DEF IInv

LEMMA SwitchesKeeps ==
  ASSUME IInv, Switches
  PROVE  IInv'
<1>1. TypeOK'
  BY NoneIsNoName DEF IInv, TypeOK, GateStates, BgStates, StopperStates,
     Switches, NoLaunch, opVars, selVars, ctxVars
<1>2. SelectionIsManaged'
  <2>1. \A c \in Contexts, who \in Caller : <<who, TRUE>> \notin stops[c]
    BY NoneNotedAtGate DEF Switches
  <2>. QED  BY <2>1 DEF IInv, SelectionIsManaged, GateInv, Switches, ctxVars
<1>3. ReadyIsLive'
  BY NoneIsNoName DEF IInv, TypeOK, ReadyIsLive, Switches, NoLaunch,
     opVars, selVars, ctxVars
<1>4. GateInv'
  BY NoneIsNoName DEF IInv, TypeOK, GateInv, Launching, Switches,
     NoLaunch, opVars, selVars, ctxVars
<1>5. BgInv'
  BY NoneIsNoName DEF IInv, TypeOK, BgInv, Launching, Switches, NoLaunch,
     opVars, selVars, ctxVars
<1>6. StopsInv'
  <2>1. active' = gate.ctx => gate.ctx \in Contexts /\ stops[gate.ctx] = {}
    BY NoneStoppedAtGate DEF IInv, TypeOK, GateInv, Switches
  <2>2. UNCHANGED <<stopper, bg, managed, requested, status, stops>> /\ gate.pc = "persist"
    BY DEF Switches, ctxVars
  <2>3. ASSUME NEW c \in Contexts, stops[c] # {}, active' = c
        PROVE  \E who \in Caller : <<who, TRUE>> \in stops[c]
    BY <2>1, <2>3 DEF IInv, StopsInv, Switches
  <2>. QED  BY <2>2, <2>3 DEF IInv, StopsInv
<1>7. StopperInv'
  BY NoneIsNoName DEF IInv, TypeOK, StopperInv, Switches, NoLaunch,
     opVars, selVars, ctxVars
<1>8. RuntimeInv'
  BY NoneIsNoName DEF IInv, TypeOK, RuntimeInv, Switches, NoLaunch,
     opVars, selVars, ctxVars
<1>. QED  BY <1>1, <1>2, <1>3, <1>4, <1>5, <1>6, <1>7, <1>8 DEF IInv

LEMMA ValidatedKeeps ==
  ASSUME IInv, Validated
  PROVE  IInv'
<1>. DEFINE c == keyed[gate.file]
<1>1. /\ TypeOK /\ gate.pc = "validate" /\ ~stopAll
      /\ UNCHANGED <<closing, stopAll, stopper, bg, selVars, file, committing, names,
                     runtime>>
  BY DEF IInv, Validated
<1>2. CASE c \in managed /\ StopCalled(c, "gate", FALSE)
           /\ gate' = [gate EXCEPT !.pc = "stop", !.ctx = c]
  <2>1. c \in Contexts /\ gate' \in GateStates /\ gate'.pc = "stop" /\ gate'.ctx = c
    BY <1>1, <1>2 DEF TypeOK, GateStates
  <2>. QED  BY <1>1, <1>2, <2>1, GateStopKeeps
<1>3. CASE c \notin managed /\ Goes("trust")
           /\ UNCHANGED <<requested, status, stops, interrupted>>
  <2>1. gate' \in GateStates /\ gate'.pc = "trust"
    BY <1>1, <1>3, GoesTypes
  <2>. QED  BY <1>1, <1>3, <2>1, GateWaitsKeeps DEF ctxVars, opVars
<1>. QED  BY <1>2, <1>3 DEF Validated, StopCalled

LEMMA ReloadKeeps ==
  ASSUME IInv, NEW c \in Contexts, NEW f \in Files, Reload(c, f)
  PROVE  IInv'
<1>1. TypeOK'
  BY NoneIsNoName DEF IInv, TypeOK, GateStates, BgStates, StopperStates,
     Reload, Free, ReloadTarget, Launches, opVars, selVars, ctxVars
<1>2. SelectionIsManaged'
  BY NoneIsNoName DEF IInv, TypeOK, SelectionIsManaged, Reload, Free,
     ReloadTarget, Launches, opVars, selVars, ctxVars
<1>3. ReadyIsLive'
  BY NoneIsNoName DEF IInv, TypeOK, ReadyIsLive, Reload, Free,
     ReloadTarget, Launches, opVars, selVars, ctxVars
<1>4. GateInv'
  BY NoneIsNoName DEF IInv, TypeOK, GateInv, Launching, Reload, Free,
     ReloadTarget, Launches, opVars, selVars, ctxVars
<1>5. BgInv'
  BY NoneIsNoName DEF IInv, TypeOK, BgInv, Launching, Reload, Free,
     ReloadTarget, Launches, opVars, selVars, ctxVars
<1>6. StopsInv'
  BY NoneIsNoName DEF IInv, TypeOK, StopsInv, Reload, Free, ReloadTarget,
     Launches, opVars, selVars, ctxVars
<1>7. StopperInv'
  BY NoneIsNoName DEF IInv, TypeOK, StopperInv, Reload, Free,
     ReloadTarget, Launches, opVars, selVars, ctxVars
<1>8. RuntimeInv'
  BY NoneIsNoName DEF IInv, TypeOK, RuntimeInv, Reload, Free,
     ReloadTarget, Launches, opVars, selVars, ctxVars
<1>. QED  BY <1>1, <1>2, <1>3, <1>4, <1>5, <1>6, <1>7, <1>8 DEF IInv

LEMMA ReloadStopsKeeps ==
  ASSUME IInv, ReloadStops
  PROVE  IInv'
<1>1. /\ TypeOK /\ gate.pc = "validate" /\ ~stopAll
      /\ StopCalled(gate.ctx, "gate", FALSE) /\ Goes("stop")
      /\ UNCHANGED <<closing, stopAll, stopper, bg, selVars, file, committing, names,
                     runtime>>
  BY DEF IInv, ReloadStops
<1>2. gate.ctx \in Contexts
  BY <1>1 DEF TypeOK, StopCalled
<1>3. gate' \in GateStates /\ gate'.pc = "stop" /\ gate'.ctx = gate.ctx
  BY <1>1, GoesTypes
<1>. QED  BY <1>1, <1>2, <1>3, GateStopKeeps

LEMMA HibernateKeeps ==
  ASSUME IInv, NEW c \in Contexts, NEW f \in Files, Hibernate(c, f)
  PROVE  IInv'
<1>1. /\ TypeOK /\ gate.pc = "idle" /\ ~stopAll /\ StopCalled(c, "gate", TRUE)
      /\ UNCHANGED <<closing, stopAll, stopper, bg, selVars, file, committing, names,
                     runtime>>
  BY DEF IInv, Hibernate, Free
<1>2. gate' \in GateStates /\ gate'.pc = "stop" /\ gate'.ctx = c
  BY DEF Hibernate, Launches, GateStates
<1>. QED  BY <1>1, <1>2, GateStopKeeps

LEMMA GivesUpKeeps ==
  ASSUME IInv, GivesUp
  PROVE  IInv'
<1>1. TypeOK'
  BY NoneIsNoName DEF IInv, TypeOK, GateStates, BgStates, StopperStates,
     GivesUp, NoLaunch, opVars, selVars, ctxVars
<1>2. SelectionIsManaged'
  BY NoneIsNoName DEF IInv, TypeOK, SelectionIsManaged, GivesUp, NoLaunch,
     opVars, selVars, ctxVars
<1>3. ReadyIsLive'
  BY NoneIsNoName DEF IInv, TypeOK, ReadyIsLive, GivesUp, NoLaunch,
     opVars, selVars, ctxVars
<1>4. GateInv'
  BY NoneIsNoName DEF IInv, TypeOK, GateInv, Launching, GivesUp, NoLaunch,
     opVars, selVars, ctxVars
<1>5. BgInv'
  BY NoneIsNoName DEF IInv, TypeOK, BgInv, Launching, GivesUp, NoLaunch,
     opVars, selVars, ctxVars
<1>6. StopsInv'
  BY NoneIsNoName DEF IInv, TypeOK, StopsInv, GivesUp, NoLaunch, opVars,
     selVars, ctxVars
<1>7. StopperInv'
  BY NoneIsNoName DEF IInv, TypeOK, StopperInv, GivesUp, NoLaunch, opVars,
     selVars, ctxVars
<1>8. RuntimeInv'
  BY NoneIsNoName DEF IInv, TypeOK, RuntimeInv, GivesUp, NoLaunch, opVars,
     selVars, ctxVars
<1>. QED  BY <1>1, <1>2, <1>3, <1>4, <1>5, <1>6, <1>7, <1>8 DEF IInv

LEMMA TrustedKeeps ==
  ASSUME IInv, NEW c \in Contexts, Trusted(c)
  PROVE  IInv'
<1>1. TypeOK'
  BY NoneIsNoName DEF IInv, TypeOK, GateStates, BgStates, StopperStates,
     Trusted, Create, Shown, opVars, selVars, ctxVars
<1>2. SelectionIsManaged'
  <2>1. \A d \in Contexts, who \in Caller : <<who, TRUE>> \notin stops[d]
    BY NoneNotedAtGate DEF Trusted
  <2>2. /\ managed' = managed \cup {c} /\ active' = c
        /\ keyed' = [keyed EXCEPT ![gate.file] = c] /\ UNCHANGED stops
    BY DEF Trusted, Create
  <2>. QED  BY <2>1, <2>2 DEF IInv, TypeOK, SelectionIsManaged
<1>3. ReadyIsLive'
  BY NoneIsNoName DEF IInv, TypeOK, ReadyIsLive, Trusted, Create, Shown,
     opVars, selVars, ctxVars
<1>4. GateInv'
  BY NoneIsNoName DEF IInv, TypeOK, SelectionIsManaged, ReadyIsLive,
     GateInv, Launching, BgInv, StopsInv, StopperInv, RuntimeInv, Caller,
     Trusted, Create, Shown, opVars, selVars, ctxVars
<1>5. BgInv'
  BY NoneIsNoName DEF IInv, TypeOK, BgInv, Launching, Trusted, Create,
     Shown, opVars, selVars, ctxVars
<1>6. StopsInv'
  BY NoneIsNoName DEF IInv, TypeOK, SelectionIsManaged, ReadyIsLive,
     GateInv, Launching, BgInv, StopsInv, StopperInv, RuntimeInv, Caller,
     Trusted, Create, Shown, opVars, selVars, ctxVars
<1>7. StopperInv'
  BY NoneIsNoName DEF IInv, TypeOK, StopperInv, Trusted, Create, Shown,
     opVars, selVars, ctxVars
<1>8. RuntimeInv'
  BY NoneIsNoName DEF IInv, TypeOK, RuntimeInv, Trusted, Create, Shown,
     opVars, selVars, ctxVars
<1>. QED  BY <1>1, <1>2, <1>3, <1>4, <1>5, <1>6, <1>7, <1>8 DEF IInv

LEMMA ReplacesKeeps ==
  ASSUME IInv, NEW c \in Contexts, Replaces(c)
  PROVE  IInv'
<1>1. TypeOK'
  BY NoneIsNoName DEF IInv, TypeOK, GateStates, BgStates, StopperStates,
     Replaces, Create, Shown, GateResumes, Awaits, opVars, selVars,
     ctxVars
<1>2. SelectionIsManaged'
  <2>1. \A d \in Contexts, who \in Caller : <<who, TRUE>> \notin stops[d]
    <3>1. gate.pc = "stop" /\ \A d \in Contexts : <<"gate", TRUE>> \notin stops[d]
      BY DEF IInv, StopsInv, Replaces, GateResumes, Awaits
    <3>. QED  BY <3>1 DEF IInv, StopsInv, StopperInv, Caller
  <2>2. /\ managed' = managed \cup {c} /\ active' = c
        /\ keyed' = [keyed EXCEPT ![gate.file] = c] /\ UNCHANGED stops
    BY DEF Replaces, Create
  <2>. QED  BY <2>1, <2>2 DEF IInv, TypeOK, SelectionIsManaged
<1>3. ReadyIsLive'
  BY NoneIsNoName DEF IInv, TypeOK, ReadyIsLive, Replaces, Create, Shown,
     GateResumes, Awaits, opVars, selVars, ctxVars
<1>4. GateInv'
  BY NoneIsNoName DEF IInv, TypeOK, SelectionIsManaged, ReadyIsLive,
     GateInv, Launching, BgInv, StopsInv, StopperInv, RuntimeInv, Caller,
     Replaces, Create, Shown, GateResumes, Awaits, opVars, selVars,
     ctxVars
<1>5. BgInv'
  BY NoneIsNoName DEF IInv, TypeOK, BgInv, Launching, Replaces, Create,
     Shown, GateResumes, Awaits, opVars, selVars, ctxVars
<1>6. StopsInv'
  BY NoneIsNoName DEF IInv, TypeOK, SelectionIsManaged, ReadyIsLive,
     GateInv, Launching, BgInv, StopsInv, StopperInv, RuntimeInv, Caller,
     Replaces, Create, Shown, GateResumes, Awaits, opVars, selVars,
     ctxVars
<1>7. StopperInv'
  BY NoneIsNoName DEF IInv, TypeOK, StopperInv, Replaces, Create, Shown,
     GateResumes, Awaits, opVars, selVars, ctxVars
<1>8. RuntimeInv'
  BY NoneIsNoName DEF IInv, TypeOK, RuntimeInv, Replaces, Create, Shown,
     GateResumes, Awaits, opVars, selVars, ctxVars
<1>. QED  BY <1>1, <1>2, <1>3, <1>4, <1>5, <1>6, <1>7, <1>8 DEF IInv

LEMMA StopOverKeeps ==
  ASSUME IInv, StopOver
  PROVE  IInv'
<1>1. /\ TypeOK /\ gate.pc = "stop" /\ ~Awaits("gate", gate.ctx)
      /\ UNCHANGED <<closing, stopAll, stopper, bg, selVars, ctxVars, interrupted>>
      /\ Goes("trust") \/ gate' = NoLaunch
  BY DEF IInv, StopOver, GateResumes
<1>2. gate' \in GateStates /\ gate'.pc \in {"trust", "idle"}
  BY <1>1, GoesTypes, NoLaunchTypes DEF NoLaunch
<1>3. stopper.pc \notin {"each", "one"} \/ gate'.pc = "idle"
  BY <1>1 DEF IInv, StopperInv
<1>4. \A d \in Contexts, w \in BOOLEAN : <<"gate", w>> \notin stops[d]
  BY <1>1 DEF IInv, StopsInv, Awaits
<1>. QED  BY <1>1, <1>2, <1>3, <1>4, GateWaitsKeeps

LEMMA StartedKeeps ==
  ASSUME IInv, Started
  PROVE  IInv'
<1>1. TypeOK'
  <2>1. gate' \in GateStates
    BY GoesTypes, NoLaunchTypes DEF IInv, Started
  <2>. QED  BY <2>1 DEF IInv, TypeOK, Started, Starts, selVars
<1>2. SelectionIsManaged'
  BY NoneIsNoName DEF IInv, TypeOK, SelectionIsManaged, Started, Starts,
     StartActive, StartCrashed, Goes, NoLaunch, opVars, selVars, ctxVars
<1>3. ReadyIsLive'
  BY NoneIsNoName DEF IInv, TypeOK, ReadyIsLive, Started, Starts,
     StartActive, StartCrashed, Goes, NoLaunch, opVars, selVars, ctxVars
<1>4. GateInv'
  BY NoneIsNoName DEF IInv, TypeOK, GateInv, Launching, GateStates,
     BgStates, StopperStates, Started, Starts, StartActive, StartCrashed,
     Goes, NoLaunch, opVars, selVars, ctxVars
<1>5. BgInv'
  BY NoneIsNoName DEF IInv, TypeOK, BgInv, Launching, GateStates,
     BgStates, StopperStates, Started, Starts, StartActive, StartCrashed,
     Goes, NoLaunch, opVars, selVars, ctxVars
<1>6. StopsInv'
  BY NoneIsNoName DEF IInv, TypeOK, SelectionIsManaged, ReadyIsLive,
     GateInv, Launching, BgInv, StopsInv, StopperInv, RuntimeInv, Caller,
     Started, Starts, StartActive, StartCrashed, Goes, NoLaunch, opVars,
     selVars, ctxVars
<1>7. StopperInv'
  BY NoneIsNoName DEF IInv, TypeOK, StopperInv, Started, Starts,
     StartActive, StartCrashed, Goes, NoLaunch, opVars, selVars, ctxVars
<1>8. RuntimeInv'
  BY NoneIsNoName DEF IInv, TypeOK, RuntimeInv, Started, Starts,
     StartActive, StartCrashed, Goes, NoLaunch, opVars, selVars, ctxVars
<1>. QED  BY <1>1, <1>2, <1>3, <1>4, <1>5, <1>6, <1>7, <1>8 DEF IInv

LEMMA AnsweredKeeps ==
  ASSUME IInv, Answered
  PROVE  IInv'
<1>1. TypeOK'
  BY NoneIsNoName DEF IInv, TypeOK, GateStates, BgStates, StopperStates,
     Answered, StartActive, StartCrashed, Goes, opVars, selVars, ctxVars
<1>2. SelectionIsManaged'
  BY NoneIsNoName DEF IInv, TypeOK, SelectionIsManaged, Answered,
     StartActive, StartCrashed, Goes, opVars, selVars, ctxVars
<1>3. ReadyIsLive'
  BY NoneIsNoName DEF IInv, TypeOK, ReadyIsLive, Answered, StartActive,
     StartCrashed, Goes, opVars, selVars, ctxVars
<1>4. GateInv'
  BY NoneIsNoName DEF IInv, TypeOK, GateInv, Launching, Answered,
     StartActive, StartCrashed, Goes, opVars, selVars, ctxVars
<1>5. BgInv'
  BY NoneIsNoName DEF IInv, TypeOK, BgInv, Launching, Answered,
     StartActive, StartCrashed, Goes, opVars, selVars, ctxVars
<1>6. StopsInv'
  BY NoneIsNoName DEF IInv, TypeOK, StopsInv, Answered, StartActive,
     StartCrashed, Goes, opVars, selVars, ctxVars
<1>7. StopperInv'
  BY NoneIsNoName DEF IInv, TypeOK, StopperInv, Answered, StartActive,
     StartCrashed, Goes, opVars, selVars, ctxVars
<1>8. RuntimeInv'
  BY NoneIsNoName DEF IInv, TypeOK, RuntimeInv, Answered, StartActive,
     StartCrashed, Goes, opVars, selVars, ctxVars
<1>. QED  BY <1>1, <1>2, <1>3, <1>4, <1>5, <1>6, <1>7, <1>8 DEF IInv

LEMMA ReadyKeeps ==
  ASSUME IInv, Ready
  PROVE  IInv'
<1>1. TypeOK'
  BY NoneIsNoName DEF IInv, TypeOK, GateStates, BgStates, StopperStates,
     Ready, StartActive, StartCrashed, NoLaunch, opVars, selVars, ctxVars
<1>2. SelectionIsManaged'
  BY NoneIsNoName DEF IInv, TypeOK, SelectionIsManaged, Ready,
     StartActive, StartCrashed, NoLaunch, opVars, selVars, ctxVars
<1>3. ReadyIsLive'
  BY NoneIsNoName DEF IInv, TypeOK, SelectionIsManaged, ReadyIsLive,
     GateInv, Launching, BgInv, StopsInv, StopperInv, RuntimeInv, Caller,
     Ready, StartActive, StartCrashed, NoLaunch, opVars, selVars, ctxVars
<1>4. GateInv'
  BY NoneIsNoName DEF IInv, TypeOK, GateInv, Launching, Ready,
     StartActive, StartCrashed, NoLaunch, opVars, selVars, ctxVars
<1>5. BgInv'
  BY NoneIsNoName DEF IInv, TypeOK, BgInv, Launching, Ready, StartActive,
     StartCrashed, NoLaunch, opVars, selVars, ctxVars
<1>6. StopsInv'
  BY NoneIsNoName DEF IInv, TypeOK, SelectionIsManaged, ReadyIsLive,
     GateInv, Launching, BgInv, StopsInv, StopperInv, RuntimeInv, Caller,
     Ready, StartActive, StartCrashed, NoLaunch, opVars, selVars, ctxVars
<1>7. StopperInv'
  BY NoneIsNoName DEF IInv, TypeOK, StopperInv, Ready, StartActive,
     StartCrashed, NoLaunch, opVars, selVars, ctxVars
<1>8. RuntimeInv'
  BY NoneIsNoName DEF IInv, TypeOK, RuntimeInv, Ready, StartActive,
     StartCrashed, NoLaunch, opVars, selVars, ctxVars
<1>. QED  BY <1>1, <1>2, <1>3, <1>4, <1>5, <1>6, <1>7, <1>8 DEF IInv

LEMMA LaunchFailsKeeps ==
  ASSUME IInv, LaunchFails
  PROVE  IInv'
<1>1. TypeOK'
  <2>1. gate' \in GateStates
    BY GoesTypes, NoLaunchTypes DEF IInv, LaunchFails
  <2>. QED  BY <2>1 DEF IInv, TypeOK, LaunchFails, selVars
<1>2. SelectionIsManaged'
  BY NoneIsNoName DEF IInv, TypeOK, SelectionIsManaged, LaunchFails,
     StartRejected, StartActive, StartCrashed, Goes, NoLaunch, opVars,
     selVars, ctxVars
<1>3. ReadyIsLive'
  BY NoneIsNoName DEF IInv, TypeOK, ReadyIsLive, LaunchFails,
     StartRejected, StartActive, StartCrashed, Goes, NoLaunch, opVars,
     selVars, ctxVars
<1>4. GateInv'
  BY NoneIsNoName DEF IInv, TypeOK, GateInv, Launching, GateStates,
     BgStates, StopperStates, LaunchFails, StartRejected, StartActive,
     StartCrashed, Goes, NoLaunch, opVars, selVars, ctxVars
<1>5. BgInv'
  BY NoneIsNoName DEF IInv, TypeOK, BgInv, Launching, GateStates,
     BgStates, StopperStates, LaunchFails, StartRejected, StartActive,
     StartCrashed, Goes, NoLaunch, opVars, selVars, ctxVars
<1>6. StopsInv'
  BY NoneIsNoName DEF IInv, TypeOK, SelectionIsManaged, ReadyIsLive,
     GateInv, Launching, BgInv, StopsInv, StopperInv, RuntimeInv, Caller,
     LaunchFails, StartRejected, StartActive, StartCrashed, Goes,
     NoLaunch, opVars, selVars, ctxVars
<1>7. StopperInv'
  BY NoneIsNoName DEF IInv, TypeOK, StopperInv, LaunchFails,
     StartRejected, StartActive, StartCrashed, Goes, NoLaunch, opVars,
     selVars, ctxVars
<1>8. RuntimeInv'
  BY NoneIsNoName DEF IInv, TypeOK, RuntimeInv, LaunchFails,
     StartRejected, StartActive, StartCrashed, Goes, NoLaunch, opVars,
     selVars, ctxVars
<1>. QED  BY <1>1, <1>2, <1>3, <1>4, <1>5, <1>6, <1>7, <1>8 DEF IInv

LEMMA CleanedUpKeeps ==
  ASSUME IInv, CleanedUp
  PROVE  IInv'
<1>1. TypeOK'
  <2>1. gate' \in GateStates
    BY NoLaunchTypes DEF CleanedUp
  <2>2. gate.ctx \in Contexts /\ gate.prev \in Contexts \cup {None} /\ TypeOK
    BY DEF IInv, TypeOK, GateStates, GateInv, Launching, CleanedUp
  <2>3. /\ keyed' \in [Files -> Contexts \cup {None}]
        /\ active' \in Contexts \cup {None} /\ shown' \in Files \cup {None}
    BY <2>2 DEF TypeOK, Unkeyed, CleanedUp
  <2>4. /\ status' \in [Contexts ->
              {"none", "starting", "ready", "stopping", "stopped", "crashed"}]
        /\ requested' \in [Contexts -> BOOLEAN]
        /\ runtime' \in [Contexts -> {"new", "starting", "live", "gone"}]
        /\ managed' \in SUBSET Contexts
    BY <2>2 DEF TypeOK, CleanedUp
  <2>. QED  BY <2>1, <2>2, <2>3, <2>4 DEF TypeOK, CleanedUp
<1>2. SelectionIsManaged'
  BY NoneIsNoName DEF IInv, TypeOK, SelectionIsManaged, ReadyIsLive,
     GateInv, Launching, BgInv, StopsInv, StopperInv, RuntimeInv, Caller,
     CleanedUp, Unkeyed, NoLaunch, opVars, selVars, ctxVars
<1>3. ReadyIsLive'
  BY NoneIsNoName DEF IInv, TypeOK, ReadyIsLive, CleanedUp, Unkeyed,
     NoLaunch, opVars, selVars, ctxVars
<1>4. GateInv'
  BY NoneIsNoName DEF IInv, TypeOK, GateInv, Launching, CleanedUp,
     Unkeyed, NoLaunch, opVars, selVars, ctxVars
<1>5. BgInv'
  BY NoneIsNoName DEF IInv, TypeOK, BgInv, Launching, CleanedUp, Unkeyed,
     NoLaunch, opVars, selVars, ctxVars
<1>6. StopsInv'
  <2>1. /\ TypeOK /\ gate.ctx \in Contexts /\ stops[gate.ctx] = {}
        /\ gate.prev \in Contexts => stops[gate.prev] = {}
    BY NoneStoppedAtGate DEF IInv, TypeOK, GateInv, Launching, CleanedUp
  <2>2. \A d \in Contexts \ {gate.ctx} : status'[d] = status[d] /\ requested'[d] = requested[d]
    BY <2>1 DEF TypeOK, CleanedUp
  <2>3. /\ managed' = managed \ {gate.ctx} \/ (managed' = managed /\ ~requested'[gate.ctx])
        /\ UNCHANGED <<stopper, bg, stops>> /\ gate.pc = "cleanup"
    BY <2>1 DEF TypeOK, CleanedUp
  <2>4. active' \in {None, gate.prev, gate.ctx}
    BY DEF CleanedUp
  <2>5. ASSUME NEW d \in Contexts, stops[d] # {}
        PROVE  d \notin {gate.ctx, gate.prev} /\ active' # d
    BY <2>1, <2>4, <2>5, NoneIsNoName
  <2>6. ASSUME NEW d \in Contexts
        PROVE  /\ stops'[d] # {} => d \in managed' /\ requested'[d] /\ status'[d] = "stopping"
               /\ d \in managed' /\ requested'[d] => stops'[d] # {}
    BY <2>2, <2>3, <2>5 DEF IInv, StopsInv
  <2>7. ASSUME NEW d \in Contexts, NEW w \in BOOLEAN PROVE <<"gate", w>> \notin stops[d]
    BY <2>3 DEF IInv, StopsInv
  <2>. QED  BY <2>3, <2>5, <2>6, <2>7 DEF IInv, StopsInv
<1>7. StopperInv'
  BY NoneIsNoName DEF IInv, TypeOK, StopperInv, CleanedUp, Unkeyed,
     NoLaunch, opVars, selVars, ctxVars
<1>8. RuntimeInv'
  BY NoneIsNoName DEF IInv, TypeOK, RuntimeInv, CleanedUp, Unkeyed,
     NoLaunch, opVars, selVars, ctxVars
<1>. QED  BY <1>1, <1>2, <1>3, <1>4, <1>5, <1>6, <1>7, <1>8 DEF IInv

LEMMA DeliverKeeps ==
  ASSUME IInv, NEW f \in Files, Deliver(f)
  PROVE  IInv'
<1>1. TypeOK'
  BY NoneIsNoName DEF IInv, TypeOK, GateStates, BgStates, StopperStates,
     Deliver, BgGoes, opVars, selVars, ctxVars
<1>2. SelectionIsManaged'
  BY NoneIsNoName DEF IInv, TypeOK, SelectionIsManaged, Deliver, BgGoes,
     opVars, selVars, ctxVars
<1>3. ReadyIsLive'
  BY NoneIsNoName DEF IInv, TypeOK, ReadyIsLive, Deliver, BgGoes, opVars,
     selVars, ctxVars
<1>4. GateInv'
  BY NoneIsNoName DEF IInv, TypeOK, GateInv, Launching, Deliver, BgGoes,
     opVars, selVars, ctxVars
<1>5. BgInv'
  BY NoneIsNoName DEF IInv, TypeOK, BgInv, Launching, Deliver, BgGoes,
     opVars, selVars, ctxVars
<1>6. StopsInv'
  BY NoneIsNoName DEF IInv, TypeOK, StopsInv, Deliver, BgGoes, opVars,
     selVars, ctxVars
<1>7. StopperInv'
  BY NoneIsNoName DEF IInv, TypeOK, StopperInv, Deliver, BgGoes, opVars,
     selVars, ctxVars
<1>8. RuntimeInv'
  BY NoneIsNoName DEF IInv, TypeOK, RuntimeInv, Deliver, BgGoes, opVars,
     selVars, ctxVars
<1>. QED  BY <1>1, <1>2, <1>3, <1>4, <1>5, <1>6, <1>7, <1>8 DEF IInv

LEMMA BgTrustedKeeps ==
  ASSUME IInv, NEW f \in Files, NEW c \in Contexts, BgTrusted(f, c)
  PROVE  IInv'
<1>1. TypeOK'
  BY NoneIsNoName DEF IInv, TypeOK, GateStates, BgStates, StopperStates,
     BgTrusted, BgTrustedAlways, opVars, selVars, ctxVars
<1>2. SelectionIsManaged'
  BY NoneIsNoName DEF IInv, TypeOK, SelectionIsManaged, BgTrusted,
     BgTrustedAlways, opVars, selVars, ctxVars
<1>3. ReadyIsLive'
  BY NoneIsNoName DEF IInv, TypeOK, ReadyIsLive, BgTrusted,
     BgTrustedAlways, opVars, selVars, ctxVars
<1>4. GateInv'
  BY NoneIsNoName DEF IInv, TypeOK, GateInv, Launching, BgTrusted,
     BgTrustedAlways, opVars, selVars, ctxVars
<1>5. BgInv'
  <2>1. /\ TypeOK /\ active # c /\ c \notin managed /\ runtime[c] = "new"
    BY NewIsNowhere DEF IInv, BgTrusted, BgTrustedAlways
  <2>2. /\ bg' = [bg EXCEPT ![f] = [pc |-> "start", ctx |-> c]]
        /\ file' = [file EXCEPT ![c] = f] /\ status' = [status EXCEPT ![c] = "starting"]
        /\ runtime' = [runtime EXCEPT ![c] = "starting"]
        /\ UNCHANGED <<gate, active>>
    BY DEF BgTrusted, BgTrustedAlways
  <2>3. Launching \/ gate.pc = "persist" => c \notin {gate.ctx, gate.prev}
    BY <2>1, NoneIsNoName DEF IInv, GateInv, Launching
  <2>4. bg'[f] = [pc |-> "start", ctx |-> c] /\ \A g \in Files \ {f} : bg'[g] = bg[g]
    BY <2>1, <2>2 DEF TypeOK
  <2>5. ASSUME NEW g \in Files \ {f}, bg[g].pc \in {"start", "ask", "stop"}
        PROVE  bg[g].ctx # c
    BY <2>1, <2>5 DEF IInv, BgInv
  <2>6. file'[c] = f /\ status'[c] = "starting" /\ runtime'[c] = "starting"
    BY <2>1, <2>2 DEF TypeOK
  <2>. QED  BY <2>1, <2>2, <2>3, <2>4, <2>5, <2>6 DEF IInv, TypeOK, BgInv, Launching
<1>6. StopsInv'
  BY NoneIsNoName DEF IInv, TypeOK, SelectionIsManaged, ReadyIsLive,
     GateInv, Launching, BgInv, StopsInv, StopperInv, RuntimeInv, Caller,
     BgTrusted, BgTrustedAlways, opVars, selVars, ctxVars
<1>7. StopperInv'
  BY NoneIsNoName DEF IInv, TypeOK, StopperInv, BgTrusted,
     BgTrustedAlways, opVars, selVars, ctxVars
<1>8. RuntimeInv'
  BY NoneIsNoName DEF IInv, TypeOK, RuntimeInv, BgTrusted,
     BgTrustedAlways, opVars, selVars, ctxVars
<1>. QED  BY <1>1, <1>2, <1>3, <1>4, <1>5, <1>6, <1>7, <1>8 DEF IInv

LEMMA BgRefusedKeeps ==
  ASSUME IInv, NEW f \in Files, BgRefused(f)
  PROVE  IInv'
<1>1. TypeOK'
  BY NoneIsNoName DEF IInv, TypeOK, GateStates, BgStates, StopperStates,
     BgRefused, Idle, opVars, selVars, ctxVars
<1>2. SelectionIsManaged'
  BY NoneIsNoName DEF IInv, TypeOK, SelectionIsManaged, BgRefused, Idle,
     opVars, selVars, ctxVars
<1>3. ReadyIsLive'
  BY NoneIsNoName DEF IInv, TypeOK, ReadyIsLive, BgRefused, Idle, opVars,
     selVars, ctxVars
<1>4. GateInv'
  BY NoneIsNoName DEF IInv, TypeOK, GateInv, Launching, BgRefused, Idle,
     opVars, selVars, ctxVars
<1>5. BgInv'
  BY NoneIsNoName DEF IInv, TypeOK, BgInv, Launching, BgRefused, Idle,
     opVars, selVars, ctxVars
<1>6. StopsInv'
  BY NoneIsNoName DEF IInv, TypeOK, StopsInv, BgRefused, Idle, opVars,
     selVars, ctxVars
<1>7. StopperInv'
  BY NoneIsNoName DEF IInv, TypeOK, StopperInv, BgRefused, Idle, opVars,
     selVars, ctxVars
<1>8. RuntimeInv'
  BY NoneIsNoName DEF IInv, TypeOK, RuntimeInv, BgRefused, Idle, opVars,
     selVars, ctxVars
<1>. QED  BY <1>1, <1>2, <1>3, <1>4, <1>5, <1>6, <1>7, <1>8 DEF IInv

LEMMA BgStartedKeeps ==
  ASSUME IInv, NEW f \in Files, BgStarted(f)
  PROVE  IInv'
<1>1. TypeOK /\ bg[f].pc = "start" /\ Starts(bg[f].ctx) /\ bg[f].ctx \in Contexts
  BY DEF IInv, BgInv, BgStarted
<1>2. CASE Owned(bg[f].ctx) /\ BgGoes(f, "ask")
           /\ UNCHANGED <<closing, stopAll, stopper, gate, selVars, file, status, requested,
                          committing, names, stops, interrupted>>
  <2>. DEFINE c == bg[f].ctx
  <2>1. /\ bg' \in [Files -> BgStates] /\ bg'[f].pc = "ask" /\ bg'[f].ctx = c
        /\ \A g \in Files \ {f} : bg'[g] = bg[g]
    BY <1>1, <1>2, BgGoesTypes
  <2>2. /\ runtime' = [runtime EXCEPT ![c] = "live"] /\ runtime[c] = "starting" /\ c \in managed
        /\ c \in Contexts
    BY <1>1, <1>2 DEF Starts, Owned
  <2>. HIDE DEF c
  <2>3. TypeOK' /\ SelectionIsManaged' /\ ReadyIsLive'
    BY <1>1, <1>2, <2>1, <2>2 DEF IInv, TypeOK, SelectionIsManaged, ReadyIsLive, selVars
  <2>4. GateInv'
    <3>1. Launching \/ gate.pc = "persist" => c # gate.ctx
      BY <1>1 DEF IInv, BgInv, c
    <3>. QED  BY <1>1, <1>2, <2>2, <3>1 DEF IInv, TypeOK, GateInv, Launching, selVars
  <2>5. BgInv'
    <3>1. ASSUME NEW g \in Files, bg'[g].pc \in {"start", "ask", "stop"}
          PROVE  bg[g].pc \in {"start", "ask", "stop"} /\ bg'[g].ctx = bg[g].ctx
      BY <1>1, <2>1, <3>1 DEF c
    <3>. QED  BY <1>1, <1>2, <2>2, <3>1 DEF IInv, TypeOK, BgInv, Launching, selVars
  <2>6. StopsInv'
    <3>1. ASSUME NEW g \in Files, bg[g].pc = "stop" PROVE bg'[g] = bg[g]
      BY <1>1, <2>1, <3>1
    <3>2. ASSUME NEW d \in Contexts, NEW w \in BOOLEAN, <<"background", w>> \in stops[d]
          PROVE  ~w /\ \E g \in Files : bg'[g].pc = "stop" /\ bg'[g].ctx = d
      <4>1. ~w /\ \E g \in Files : bg[g].pc = "stop" /\ bg[g].ctx = d
        BY <3>2 DEF IInv, StopsInv
      <4>. QED  BY <4>1, <3>1
    <3>. QED  BY <1>2, <3>2 DEF IInv, StopsInv, selVars
  <2>7. StopperInv' /\ RuntimeInv'
    BY <1>1, <1>2, <2>2 DEF IInv, TypeOK, StopperInv, RuntimeInv, selVars
  <2>. QED  BY <2>3, <2>4, <2>5, <2>6, <2>7 DEF IInv
<1>3. CASE BgFails(f)
  BY <1>1, <1>3, BgFailsKeeps
<1>. QED  BY <1>2, <1>3 DEF BgStarted

LEMMA BgRaisesKeeps ==
  ASSUME IInv, NEW f \in Files, BgRaises(f)
  PROVE  IInv'
  BY BgFailsKeeps DEF BgRaises, BgRejected

LEMMA BgReadyKeeps ==
  ASSUME IInv, NEW f \in Files, BgReady(f)
  PROVE  IInv'
<1>1. TypeOK'
  BY NoneIsNoName DEF IInv, TypeOK, GateStates, BgStates, StopperStates,
     BgReady, Owned, Idle, opVars, selVars, ctxVars
<1>2. SelectionIsManaged'
  BY NoneIsNoName DEF IInv, TypeOK, SelectionIsManaged, BgReady, Owned,
     Idle, opVars, selVars, ctxVars
<1>3. ReadyIsLive'
  BY NoneIsNoName DEF IInv, TypeOK, ReadyIsLive, BgReady, Owned, Idle,
     opVars, selVars, ctxVars
<1>4. GateInv'
  BY NoneIsNoName DEF IInv, TypeOK, SelectionIsManaged, ReadyIsLive,
     GateInv, Launching, BgInv, StopsInv, StopperInv, RuntimeInv, Caller,
     BgReady, Owned, Idle, opVars, selVars, ctxVars
<1>5. BgInv'
  BY NoneIsNoName DEF IInv, TypeOK, BgInv, Launching, BgReady, Owned,
     Idle, opVars, selVars, ctxVars
<1>6. StopsInv'
  BY NoneIsNoName DEF IInv, TypeOK, SelectionIsManaged, ReadyIsLive,
     GateInv, Launching, BgInv, StopsInv, StopperInv, RuntimeInv, Caller,
     BgReady, Owned, Idle, opVars, selVars, ctxVars
<1>7. StopperInv'
  BY NoneIsNoName DEF IInv, TypeOK, StopperInv, BgReady, Owned, Idle,
     opVars, selVars, ctxVars
<1>8. RuntimeInv'
  BY NoneIsNoName DEF IInv, TypeOK, RuntimeInv, BgReady, Owned, Idle,
     opVars, selVars, ctxVars
<1>. QED  BY <1>1, <1>2, <1>3, <1>4, <1>5, <1>6, <1>7, <1>8 DEF IInv

LEMMA BgOverKeeps ==
  ASSUME IInv, NEW f \in Files, BgOver(f)
  PROVE  IInv'
<1>1. TypeOK'
  BY NoneIsNoName DEF IInv, TypeOK, GateStates, BgStates, StopperStates,
     BgOver, BgResumes, Awaits, Idle, opVars, selVars, ctxVars
<1>2. SelectionIsManaged'
  BY NoneIsNoName DEF IInv, TypeOK, SelectionIsManaged, BgOver, BgResumes,
     Awaits, Idle, opVars, selVars, ctxVars
<1>3. ReadyIsLive'
  BY NoneIsNoName DEF IInv, TypeOK, ReadyIsLive, BgOver, BgResumes,
     Awaits, Idle, opVars, selVars, ctxVars
<1>4. GateInv'
  BY NoneIsNoName DEF IInv, TypeOK, GateInv, Launching, BgOver, BgResumes,
     Awaits, Idle, opVars, selVars, ctxVars
<1>5. BgInv'
  BY NoneIsNoName DEF IInv, TypeOK, BgInv, Launching, BgOver, BgResumes,
     Awaits, Idle, opVars, selVars, ctxVars
<1>6. StopsInv'
  <2>1. /\ TypeOK /\ bg[f].pc = "stop" /\ bg' = [bg EXCEPT ![f] = Idle]
        /\ \A w \in BOOLEAN : <<"background", w>> \notin stops[bg[f].ctx]
        /\ UNCHANGED <<stopper, gate, managed, active, requested, status, stops>>
    BY DEF IInv, BgOver, BgResumes, Awaits, selVars, ctxVars
  <2>2. ASSUME NEW d \in Contexts, NEW w \in BOOLEAN, <<"background", w>> \in stops[d]
        PROVE  ~w /\ \E g \in Files : bg'[g].pc = "stop" /\ bg'[g].ctx = d
    <3>1. ~w /\ \E g \in Files : bg[g].pc = "stop" /\ bg[g].ctx = d
      BY <2>2 DEF IInv, StopsInv
    <3>2. PICK g \in Files : bg[g].pc = "stop" /\ bg[g].ctx = d
      BY <3>1
    <3>3. g # f
      BY <2>1, <2>2, <3>2
    <3>4. bg'[g] = bg[g]
      BY <2>1, <3>3 DEF TypeOK
    <3>. QED  BY <3>1, <3>2, <3>4
  <2>. QED  BY <2>1, <2>2 DEF IInv, StopsInv
<1>7. StopperInv'
  BY NoneIsNoName DEF IInv, TypeOK, StopperInv, BgOver, BgResumes, Awaits,
     Idle, opVars, selVars, ctxVars
<1>8. RuntimeInv'
  BY NoneIsNoName DEF IInv, TypeOK, RuntimeInv, BgOver, BgResumes, Awaits,
     Idle, opVars, selVars, ctxVars
<1>. QED  BY <1>1, <1>2, <1>3, <1>4, <1>5, <1>6, <1>7, <1>8 DEF IInv

LEMMA StopBeginsKeeps ==
  ASSUME IInv, StopBegins
  PROVE  IInv'
<1>1. TypeOK'
  <2>1. stopper' \in StopperStates
    BY StopperGoesTypes DEF IInv, StopBegins
  <2>. QED  BY <2>1 DEF IInv, TypeOK, StopBegins, selVars, ctxVars
<1>2. SelectionIsManaged'
  BY NoneIsNoName DEF IInv, TypeOK, SelectionIsManaged, StopBegins,
     StopperGoes, opVars, selVars, ctxVars
<1>3. ReadyIsLive'
  BY NoneIsNoName DEF IInv, TypeOK, ReadyIsLive, StopBegins, StopperGoes,
     opVars, selVars, ctxVars
<1>4. GateInv'
  BY NoneIsNoName DEF IInv, TypeOK, GateInv, Launching, StopBegins,
     StopperGoes, opVars, selVars, ctxVars
<1>5. BgInv'
  BY NoneIsNoName DEF IInv, TypeOK, BgInv, Launching, StopBegins,
     StopperGoes, opVars, selVars, ctxVars
<1>6. StopsInv'
  BY NoneIsNoName DEF IInv, TypeOK, StopsInv, StopBegins, StopperGoes,
     opVars, selVars, ctxVars
<1>7. StopperInv'
  BY NoneIsNoName DEF IInv, TypeOK, StopperInv, GateStates, BgStates,
     StopperStates, StopBegins, StopperGoes, opVars, selVars, ctxVars
<1>8. RuntimeInv'
  BY NoneIsNoName DEF IInv, TypeOK, RuntimeInv, StopBegins, StopperGoes,
     opVars, selVars, ctxVars
<1>. QED  BY <1>1, <1>2, <1>3, <1>4, <1>5, <1>6, <1>7, <1>8 DEF IInv

LEMMA StopGoesOnKeeps ==
  ASSUME IInv, StopGoesOn
  PROVE  IInv'
<1>1. TypeOK'
  BY NoneIsNoName DEF IInv, TypeOK, GateStates, BgStates, StopperStates,
     StopGoesOn, StopperGoes, opVars, selVars, ctxVars
<1>2. SelectionIsManaged'
  BY NoneIsNoName DEF IInv, TypeOK, SelectionIsManaged, StopGoesOn,
     StopperGoes, opVars, selVars, ctxVars
<1>3. ReadyIsLive'
  BY NoneIsNoName DEF IInv, TypeOK, ReadyIsLive, StopGoesOn, StopperGoes,
     opVars, selVars, ctxVars
<1>4. GateInv'
  BY NoneIsNoName DEF IInv, TypeOK, GateInv, Launching, StopGoesOn,
     StopperGoes, opVars, selVars, ctxVars
<1>5. BgInv'
  BY NoneIsNoName DEF IInv, TypeOK, BgInv, Launching, StopGoesOn,
     StopperGoes, opVars, selVars, ctxVars
<1>6. StopsInv'
  BY NoneIsNoName DEF IInv, TypeOK, StopsInv, StopGoesOn, StopperGoes,
     opVars, selVars, ctxVars
<1>7. StopperInv'
  BY NoneIsNoName DEF IInv, TypeOK, StopperInv, StopGoesOn, StopperGoes,
     opVars, selVars, ctxVars
<1>8. RuntimeInv'
  BY NoneIsNoName DEF IInv, TypeOK, RuntimeInv, StopGoesOn, StopperGoes,
     opVars, selVars, ctxVars
<1>. QED  BY <1>1, <1>2, <1>3, <1>4, <1>5, <1>6, <1>7, <1>8 DEF IInv

LEMMA StopSnapshotKeeps ==
  ASSUME IInv, StopSnapshot
  PROVE  IInv'
<1>1. TypeOK'
  BY NoneIsNoName DEF IInv, TypeOK, GateStates, BgStates, StopperStates,
     StopSnapshot, opVars, selVars, ctxVars
<1>2. SelectionIsManaged'
  BY NoneIsNoName DEF IInv, TypeOK, SelectionIsManaged, StopSnapshot,
     opVars, selVars, ctxVars
<1>3. ReadyIsLive'
  BY NoneIsNoName DEF IInv, TypeOK, ReadyIsLive, StopSnapshot, opVars,
     selVars, ctxVars
<1>4. GateInv'
  BY NoneIsNoName DEF IInv, TypeOK, GateInv, Launching, StopSnapshot,
     opVars, selVars, ctxVars
<1>5. BgInv'
  BY NoneIsNoName DEF IInv, TypeOK, BgInv, Launching, StopSnapshot,
     opVars, selVars, ctxVars
<1>6. StopsInv'
  BY NoneIsNoName DEF IInv, TypeOK, StopsInv, StopSnapshot, opVars,
     selVars, ctxVars
<1>7. StopperInv'
  BY NoneIsNoName DEF IInv, TypeOK, StopperInv, StopSnapshot, opVars,
     selVars, ctxVars
<1>8. RuntimeInv'
  BY NoneIsNoName DEF IInv, TypeOK, RuntimeInv, StopSnapshot, opVars,
     selVars, ctxVars
<1>. QED  BY <1>1, <1>2, <1>3, <1>4, <1>5, <1>6, <1>7, <1>8 DEF IInv

LEMMA StopEachKeeps ==
  ASSUME IInv, NEW c \in Contexts, StopEach(c)
  PROVE  IInv'
<1>1. /\ TypeOK /\ stopper.pc = "each" /\ c \in stopper.todo /\ gate.pc = "idle" /\ stopAll
      /\ UNCHANGED <<closing, stopAll, gate, bg, selVars, file, committing, names, runtime>>
  BY DEF IInv, StopperInv, StopEach
<1>2. CASE Noted(c, "stopAll")
           /\ stopper' = [pc |-> "one", todo |-> stopper.todo \ {c}, ctx |-> c]
  <2>1. stopper' \in StopperStates /\ stopper'.pc = "one" /\ stopper'.ctx = c
    BY <1>1, <1>2 DEF TypeOK, StopperStates
  <2>2. TypeOK'
    BY <1>1, <1>2, <2>1 DEF Noted, TypeOK, selVars
  <2>3. /\ SelectionIsManaged'
        /\ \A d \in Contexts : stops[d] # {} \/ status[d] = "crashed"
             => stops'[d] # {} \/ status'[d] = "crashed"
    BY <1>1, <1>2, NotedSelection DEF Caller
  <2>4. StopsInv'
    <3>1. ASSUME NEW d \in Contexts, NEW w \in BOOLEAN
          PROVE  /\ <<"gate", w>> \in stops'[d] => gate'.pc = "stop" /\ gate'.ctx = d
                 /\ <<"stopAll", w>> \in stops'[d]
                      => stopper'.pc = "one" /\ stopper'.ctx = d
                 /\ <<"background", w>> \in stops'[d] =>
                      ~w /\ \E g \in Files : bg'[g].pc = "stop" /\ bg'[g].ctx = d
      <4>1. CASE d = c
        <5>1. /\ <<"gate", w>> \in stops'[c] => <<"gate", w>> \in stops[c]
              /\ <<"background", w>> \in stops'[c] => <<"background", w>> \in stops[c]
          BY <1>2 DEF Noted, Caller
        <5>2. /\ <<"gate", w>> \in stops[c] => gate.pc = "stop" /\ gate.ctx = c
              /\ <<"background", w>> \in stops[c] =>
                   ~w /\ \E g \in Files : bg[g].pc = "stop" /\ bg[g].ctx = c
          BY DEF IInv, StopsInv
        <5>. QED  BY <1>1, <2>1, <4>1, <5>1, <5>2
      <4>2. CASE d # c
        <5>1. stops'[d] = stops[d]
          BY <1>2, <4>2 DEF Noted
        <5>. QED  BY <1>1, <5>1 DEF IInv, StopsInv
      <4>. QED  BY <4>1, <4>2
    <3>. QED  BY <1>1, <1>2, <3>1, NotedStops DEF Caller
  <2>5. ReadyIsLive' /\ GateInv' /\ BgInv'
    BY <1>1, <1>2 DEF Noted, IInv, TypeOK, ReadyIsLive, GateInv, Launching, BgInv, selVars
  <2>6. StopperInv'
    <3>1. stopper'.todo = stopper.todo \ {c} /\ stops'[c] # {}
      BY <1>2 DEF Noted
    <3>. QED  BY <1>1, <2>1, <2>3, <3>1 DEF IInv, TypeOK, StopperInv, selVars
  <2>7. RuntimeInv'
    BY <1>1, <1>2 DEF Noted, IInv, TypeOK, RuntimeInv, selVars
  <2>. QED  BY <2>2, <2>3, <2>4, <2>5, <2>6, <2>7 DEF IInv
<1>3. CASE /\ c \notin managed /\ stopper' = [stopper EXCEPT !.todo = @ \ {c}]
           /\ UNCHANGED <<requested, status, stops, interrupted>>
  <2>1. /\ stopper' \in StopperStates /\ stopper'.pc = "each"
        /\ stopper'.todo = stopper.todo \ {c}
    BY <1>1, <1>3 DEF TypeOK, StopperStates
  <2>2. TypeOK' /\ SelectionIsManaged' /\ ReadyIsLive'
    BY <1>1, <1>3, <2>1 DEF IInv, TypeOK, SelectionIsManaged, ReadyIsLive, selVars
  <2>3. GateInv' /\ BgInv' /\ RuntimeInv'
    BY <1>1, <1>3 DEF IInv, TypeOK, GateInv, Launching, BgInv, RuntimeInv, selVars
  <2>4. StopsInv'
    BY <1>1, <1>3, <2>1 DEF IInv, StopsInv, selVars
  <2>5. StopperInv'
    BY <1>1, <1>3, <2>1 DEF IInv, StopperInv, selVars
  <2>. QED  BY <2>2, <2>3, <2>4, <2>5 DEF IInv
<1>. QED  BY <1>1, <1>2, <1>3, StopCalledNotes DEF StopEach, Caller

LEMMA StopNextKeeps ==
  ASSUME IInv, StopNext
  PROVE  IInv'
<1>1. TypeOK'
  <2>1. stopper' \in StopperStates
    BY StopperGoesTypes DEF IInv, StopNext
  <2>. QED  BY <2>1 DEF IInv, TypeOK, StopNext, selVars, ctxVars
<1>2. SelectionIsManaged'
  BY NoneIsNoName DEF IInv, TypeOK, SelectionIsManaged, StopNext,
     StopResumes, Awaits, StopperGoes, opVars, selVars, ctxVars
<1>3. ReadyIsLive'
  BY NoneIsNoName DEF IInv, TypeOK, ReadyIsLive, StopNext, StopResumes,
     Awaits, StopperGoes, opVars, selVars, ctxVars
<1>4. GateInv'
  BY NoneIsNoName DEF IInv, TypeOK, GateInv, Launching, StopNext,
     StopResumes, Awaits, StopperGoes, opVars, selVars, ctxVars
<1>5. BgInv'
  BY NoneIsNoName DEF IInv, TypeOK, BgInv, Launching, StopNext,
     StopResumes, Awaits, StopperGoes, opVars, selVars, ctxVars
<1>6. StopsInv'
  <2>1. /\ stopper.pc = "one" /\ \A w \in BOOLEAN : <<"stopAll", w>> \notin stops[stopper.ctx]
        /\ UNCHANGED <<bg, gate, managed, active, requested, status, stops>>
    BY DEF StopNext, StopResumes, Awaits, selVars, ctxVars
  <2>2. ASSUME NEW d \in Contexts, NEW w \in BOOLEAN
        PROVE  <<"stopAll", w>> \notin stops[d]
    BY <2>1 DEF IInv, StopsInv
  <2>. QED  BY <2>1, <2>2 DEF IInv, StopsInv
<1>7. StopperInv'
  BY NoneIsNoName DEF IInv, TypeOK, StopperInv, StopNext, StopResumes,
     Awaits, StopperGoes, opVars, selVars, ctxVars
<1>8. RuntimeInv'
  BY NoneIsNoName DEF IInv, TypeOK, RuntimeInv, StopNext, StopResumes,
     Awaits, StopperGoes, opVars, selVars, ctxVars
<1>. QED  BY <1>1, <1>2, <1>3, <1>4, <1>5, <1>6, <1>7, <1>8 DEF IInv

LEMMA StopEndsKeeps ==
  ASSUME IInv, StopEnds
  PROVE  IInv'
<1>1. TypeOK'
  <2>1. stopper' \in StopperStates
    BY StopperGoesTypes DEF IInv, StopEnds
  <2>. QED  BY <2>1 DEF IInv, TypeOK, StopEnds, selVars, ctxVars
<1>2. SelectionIsManaged'
  BY NoneIsNoName DEF IInv, TypeOK, SelectionIsManaged, StopEnds,
     StopperGoes, opVars, selVars, ctxVars
<1>3. ReadyIsLive'
  BY NoneIsNoName DEF IInv, TypeOK, SelectionIsManaged, ReadyIsLive,
     GateInv, Launching, BgInv, StopsInv, StopperInv, RuntimeInv, Caller,
     StopEnds, StopperGoes, opVars, selVars, ctxVars
<1>4. GateInv'
  BY NoneIsNoName DEF IInv, TypeOK, SelectionIsManaged, ReadyIsLive,
     GateInv, Launching, BgInv, StopsInv, StopperInv, RuntimeInv, Caller,
     StopEnds, StopperGoes, opVars, selVars, ctxVars
<1>5. BgInv'
  BY NoneIsNoName DEF IInv, TypeOK, BgInv, Launching, StopEnds,
     StopperGoes, opVars, selVars, ctxVars
<1>6. StopsInv'
  <2>1. stopper.pc = "each" /\ UNCHANGED <<bg, gate, managed, active, requested, status, stops>>
    BY DEF StopEnds, selVars, ctxVars
  <2>2. ASSUME NEW d \in Contexts, NEW w \in BOOLEAN
        PROVE  <<"stopAll", w>> \notin stops[d]
    BY <2>1 DEF IInv, StopsInv
  <2>. QED  BY <2>1, <2>2 DEF IInv, StopsInv
<1>7. StopperInv'
  BY NoneIsNoName DEF IInv, TypeOK, StopperInv, StopEnds, StopperGoes,
     opVars, selVars, ctxVars
<1>8. RuntimeInv'
  BY NoneIsNoName DEF IInv, TypeOK, RuntimeInv, StopEnds, StopperGoes,
     opVars, selVars, ctxVars
<1>. QED  BY <1>1, <1>2, <1>3, <1>4, <1>5, <1>6, <1>7, <1>8 DEF IInv

LEMMA StopSettlesKeeps ==
  ASSUME IInv, NEW c \in Contexts, StopSettles(c)
  PROVE  IInv'
<1>1. TypeOK'
  <2>1. /\ TypeOK /\ stops' = [stops EXCEPT ![c] = {}]
        /\ UNCHANGED <<opVars, file, committing, names, interrupted>>
    BY DEF IInv, StopSettles
  <2>2. /\ managed' \in SUBSET Contexts /\ keyed' \in [Files -> Contexts \cup {None}]
        /\ active' \in Contexts \cup {None} /\ shown' \in Files \cup {None}
    <3>1. CASE Retired(c)
      <4>1. /\ managed' = managed \ {c}
            /\ keyed' = [f \in Files |-> IF keyed[f] = c THEN None ELSE keyed[f]]
        BY <3>1 DEF Retired, Unkeyed
      <4>2. (active' = None /\ shown' = names[c]) \/ (active' = active /\ shown' = shown)
        BY <3>1 DEF Retired, GivesForeground
      <4>. QED  BY <2>1, <4>1, <4>2 DEF TypeOK
    <3>2. CASE UNCHANGED selVars
      BY <2>1, <3>2 DEF TypeOK, selVars
    <3>. QED  BY <3>1, <3>2 DEF StopSettles
  <2>3. /\ runtime' \in [Contexts -> {"new", "starting", "live", "gone"}]
        /\ status' \in [Contexts ->
              {"none", "starting", "ready", "stopping", "stopped", "crashed"}]
        /\ requested' \in [Contexts -> BOOLEAN]
    BY <2>1 DEF TypeOK, StopSettles
  <2>. QED  BY <2>1, <2>2, <2>3 DEF TypeOK, opVars
<1>2. SelectionIsManaged'
  BY NoneIsNoName DEF IInv, TypeOK, SelectionIsManaged, ReadyIsLive,
     GateInv, Launching, BgInv, StopsInv, StopperInv, RuntimeInv, Caller,
     StopSettles, Retired, GivesForeground, Unkeyed, Caller, opVars,
     selVars, ctxVars
<1>3. ReadyIsLive'
  BY NoneIsNoName DEF IInv, TypeOK, ReadyIsLive, StopSettles, Retired,
     GivesForeground, Unkeyed, Caller, opVars, selVars, ctxVars
<1>4. GateInv'
  <2>1. Launching \/ gate.pc = "persist" => c # gate.ctx /\ c # gate.prev
    BY NoneStoppedAtGate DEF StopSettles
  <2>2. /\ active = c => active' \in {c, None}
        /\ active # c => active' \in {active, None}
    BY DEF StopSettles, Retired, GivesForeground, selVars
  <2>3. Launching => active' = active
    <3>1. Launching => \A who \in Caller : <<who, TRUE>> \notin stops[c]
      BY NoneNotedAtGate DEF Launching
    <3>. QED  BY <3>1 DEF StopSettles, Retired, GivesForeground, selVars
  <2>4. managed' \in {managed, managed \ {c}} /\ UNCHANGED <<gate, stopAll>>
    BY DEF StopSettles, Retired, selVars, opVars
  <2>5. \A d \in Contexts \ {c} :
          status'[d] = status[d] /\ runtime'[d] = runtime[d] /\ requested'[d] = requested[d]
    BY DEF IInv, TypeOK, StopSettles
  <2>. QED  BY <2>1, <2>3, <2>4, <2>5 DEF IInv, TypeOK, GateInv, Launching
<1>5. BgInv'
  BY NoneIsNoName DEF IInv, TypeOK, BgInv, Launching, StopSettles,
     Retired, GivesForeground, Unkeyed, Caller, opVars, selVars, ctxVars
<1>6. StopsInv'
  BY NoneIsNoName DEF IInv, TypeOK, StopsInv, StopSettles, Retired,
     GivesForeground, Unkeyed, Caller, opVars, selVars, ctxVars
<1>7. StopperInv'
  BY NoneIsNoName DEF IInv, TypeOK, StopperInv, StopSettles, Retired,
     GivesForeground, Unkeyed, Caller, opVars, selVars, ctxVars
<1>8. RuntimeInv'
  BY NoneIsNoName DEF IInv, TypeOK, RuntimeInv, StopSettles, Retired,
     GivesForeground, Unkeyed, Caller, opVars, selVars, ctxVars
<1>. QED  BY <1>1, <1>2, <1>3, <1>4, <1>5, <1>6, <1>7, <1>8 DEF IInv

LEMMA ExitsKeeps ==
  ASSUME IInv, NEW S \in SUBSET Contexts, \A c \in S : runtime[c] \in {"starting", "live"}, Exits(S)
  PROVE  IInv'
<1>1. TypeOK'
  BY NoneIsNoName DEF IInv, TypeOK, Exits, Stopping, opVars, selVars,
     ctxVars
<1>2. SelectionIsManaged'
  BY NoneIsNoName DEF IInv, TypeOK, SelectionIsManaged, Exits, Stopping,
     opVars, selVars, ctxVars
<1>3. ReadyIsLive'
  BY NoneIsNoName DEF IInv, TypeOK, SelectionIsManaged, ReadyIsLive,
     GateInv, Launching, BgInv, StopsInv, StopperInv, RuntimeInv, Caller,
     Exits, Stopping, opVars, selVars, ctxVars
<1>4. GateInv'
  BY NoneIsNoName DEF IInv, TypeOK, GateInv, Launching, Exits, Stopping,
     opVars, selVars, ctxVars
<1>5. BgInv'
  BY NoneIsNoName DEF IInv, TypeOK, BgInv, Launching, Exits, Stopping,
     opVars, selVars, ctxVars
<1>6. StopsInv'
  BY NoneIsNoName DEF IInv, TypeOK, SelectionIsManaged, ReadyIsLive,
     GateInv, Launching, BgInv, StopsInv, StopperInv, RuntimeInv, Caller,
     Exits, Stopping, opVars, selVars, ctxVars
<1>7. StopperInv'
  BY NoneIsNoName DEF IInv, TypeOK, StopperInv, Exits, Stopping, opVars,
     selVars, ctxVars
<1>8. RuntimeInv'
  BY NoneIsNoName DEF IInv, TypeOK, RuntimeInv, Exits, Stopping, opVars,
     selVars, ctxVars
<1>. QED  BY <1>1, <1>2, <1>3, <1>4, <1>5, <1>6, <1>7, <1>8 DEF IInv

-----------------------------------------------------------------------------
(* The theorems                                                            *)

LEMMA InitHolds == Init => IInv
<1>. SUFFICES ASSUME Init PROVE IInv
  OBVIOUS
<1>1. TypeOK
  BY DEF Init, TypeOK, GateStates, BgStates, StopperStates, NoLaunch, Idle
<1>2. SelectionIsManaged /\ ReadyIsLive /\ RuntimeInv
  BY DEF Init, SelectionIsManaged, ReadyIsLive, RuntimeInv
<1>3. GateInv /\ BgInv /\ StopsInv /\ StopperInv
  BY DEF Init, GateInv, Launching, BgInv, StopsInv, StopperInv, NoLaunch, Idle
<1>. QED  BY <1>1, <1>2, <1>3 DEF IInv

LEMMA StutterKeeps == IInv /\ UNCHANGED vars => IInv'
<1>. SUFFICES ASSUME IInv, UNCHANGED vars PROVE IInv'
  OBVIOUS
<1>1. TypeOK' /\ SelectionIsManaged' /\ ReadyIsLive' /\ RuntimeInv'
  BY DEF IInv, TypeOK, SelectionIsManaged, ReadyIsLive, RuntimeInv, vars, opVars, selVars, ctxVars
<1>2. GateInv' /\ BgInv' /\ StopperInv'
  BY DEF IInv, GateInv, Launching, BgInv, StopperInv, vars, opVars, selVars, ctxVars
<1>3. StopsInv'
  <2>1. UNCHANGED <<stopper, bg, gate, managed, active, requested, status, stops>>
    BY DEF vars, opVars, selVars, ctxVars
  <2>2. StopsInv
    BY DEF IInv
  <2>3. ASSUME NEW d \in Contexts, NEW w \in BOOLEAN, <<"background", w>> \in stops[d]
        PROVE  ~w /\ \E g \in Files : bg'[g].pc = "stop" /\ bg'[g].ctx = d
    <3>1. ~w /\ \E g \in Files : bg[g].pc = "stop" /\ bg[g].ctx = d
      BY <2>2, <2>3 DEF StopsInv
    <3>. QED  BY <2>1, <3>1
  <2>. QED  BY <2>1, <2>2, <2>3 DEF StopsInv
<1>. QED  BY <1>1, <1>2, <1>3 DEF IInv

LEMMA NextKeeps == IInv /\ Next => IInv'
<1>. SUFFICES ASSUME IInv, Next PROVE IInv'
  OBVIOUS
<1>1. CASE Continue
  BY <1>1, StopOverKeeps, ReplacesKeeps, LaunchFailsKeeps, BgOverKeeps, BgRaisesKeeps,
     StopGoesOnKeeps, StopSnapshotKeeps, StopNextKeeps, StopEndsKeeps, StopEachKeeps
     DEF Continue
<1>2. CASE \E f \in Files :
             \/ Activate(f) \/ Deliver(f) \/ BgRefused(f) \/ BgStarted(f)
             \/ BgReady(f) \/ BgRaises(f)
             \/ \E c \in Contexts : Reload(c, f) \/ Hibernate(c, f) \/ BgTrusted(f, c)
  BY <1>2, ActivateKeeps, DeliverKeeps, BgRefusedKeeps, BgStartedKeeps, BgReadyKeeps,
     BgRaisesKeeps, ReloadKeeps, HibernateKeeps, BgTrustedKeeps
<1>3. CASE \E c \in Contexts :
             \/ Trusted(c) \/ StopSettles(c)
             \/ runtime[c] \in {"starting", "live"} /\ Exits({c})
  <2>1. PICK c \in Contexts :
             \/ Trusted(c) \/ StopSettles(c)
             \/ runtime[c] \in {"starting", "live"} /\ Exits({c})
    BY <1>3
  <2>2. CASE runtime[c] \in {"starting", "live"} /\ Exits({c})
    BY <2>2, ExitsKeeps
  <2>. QED  BY <2>1, <2>2, TrustedKeeps, StopSettlesKeeps
<1>4. CASE Exits({c \in Contexts : runtime[c] \in {"starting", "live"}})
  BY <1>4, ExitsKeeps
<1>5. CASE \/ Switches \/ Validated \/ ReloadStops \/ GivesUp
           \/ Started \/ Answered \/ Ready \/ LaunchFails \/ CleanedUp
           \/ StopBegins
  BY <1>5, SwitchesKeeps, ValidatedKeeps, ReloadStopsKeeps, GivesUpKeeps, StartedKeeps,
     AnsweredKeeps, ReadyKeeps, LaunchFailsKeeps, CleanedUpKeeps, StopBeginsKeeps
<1>. QED  BY <1>1, <1>2, <1>3, <1>4, <1>5 DEF Next, Event

\* The invariant of the launches: what each await may count on when it is over.
THEOREM InvariantHolds == Spec => []IInv
<1>1. Init => IInv
  BY InitHolds
<1>2. IInv /\ [Next]_vars => IInv'
  BY NextKeeps, StutterKeeps
<1>. QED  BY <1>1, <1>2, PTL DEF Spec

\* The foreground and the keys refer to managed contexts only, and no stop
\* takes the foreground from another context (retireContext, switchContext).
THEOREM SelectionHolds == Spec => []SelectionIsManaged
<1>1. IInv => SelectionIsManaged
  BY DEF IInv
<1>. QED  BY <1>1, InvariantHolds, PTL

\* No exit of a Runtime is missed between the awaits of a launch
\* (isStartActive, assertOwned).
THEOREM ReadyIsLiveHolds == Spec => []ReadyIsLive
<1>1. IInv => ReadyIsLive
  BY DEF IInv
<1>. QED  BY <1>1, InvariantHolds, PTL

\* stop() leaves no Runtime that is not managed and none it has not called to
\* stop, whatever was being launched when it began.
THEOREM StopReachesAllHolds == Spec => StopReachesAll
<1>. DEFINE Reached ==
       /\ \A c \in Contexts : runtime[c] \in {"starting", "live"} => c \in managed
       /\ \A c \in managed : status[c] = "crashed" \/ stops[c] # {}
     Ended == stopper.pc # "idle" /\ stopper'.pc = "idle"
<1>1. IInv /\ Next /\ Ended => StopEnds
  <2>. SUFFICES ASSUME IInv, Next, Ended, ~StopEnds PROVE FALSE
    OBVIOUS
  <2>1. CASE UNCHANGED stopper
    BY <2>1
  <2>2. CASE StopGoesOn \/ StopSnapshot \/ StopNext \/ \E c \in Contexts : StopEach(c)
    <3>1. TypeOK
      BY DEF IInv
    <3>2. CASE StopGoesOn \/ StopNext
      <4>1. stopper'.pc \in {"launch", "each"}
        BY <3>1, <3>2, StopperGoesTypes DEF StopGoesOn, StopNext
      <4>. QED  BY <4>1
    <3>3. CASE StopSnapshot
      BY <3>1, <3>3 DEF TypeOK, StopperStates, StopSnapshot
    <3>4. CASE \E c \in Contexts : StopEach(c)
      <4>1. PICK c \in Contexts : StopEach(c)
        BY <3>4
      <4>2. \/ stopper' = [pc |-> "one", todo |-> stopper.todo \ {c}, ctx |-> c]
            \/ stopper.pc = "each" /\ stopper' = [stopper EXCEPT !.todo = @ \ {c}]
        BY <4>1 DEF StopEach
      <4>. QED  BY <3>1, <4>2 DEF TypeOK, StopperStates
    <3>. QED  BY <2>2, <3>2, <3>3, <3>4
  <2>3. CASE StopBegins
    BY <2>3 DEF StopBegins
  <2>. QED
    BY <2>1, <2>2, <2>3 DEF Next, Continue, Event, StopOver, Replaces, LaunchFails, BgOver,
       BgRaises, BgFails, Activate, Deliver, BgRefused, BgStarted, BgReady, Reload, BgTrusted,
       BgTrustedAlways, Hibernate, Trusted, Create, StopSettles, Exits, Switches, Validated,
       ReloadStops, GivesUp, Started, Answered, Ready, CleanedUp, opVars
<1>2. IInv /\ StopEnds => Reached
  BY DEF IInv, StopperInv, RuntimeInv, StopEnds
<1>3. IInv /\ Next => (Ended => Reached)
  BY <1>1, <1>2
<1>4. IInv /\ [Next]_vars => [Ended => Reached]_vars
  BY <1>3
<1>. QED  BY <1>4, InvariantHolds, PTL DEF Spec, StopReachesAll
=============================================================================
