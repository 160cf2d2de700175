-------------------------- MODULE ExplorationProofs ---------------------------
(***************************************************************************)
(* The exploration flights, for any number of commands and any number of   *)
(* changes to the repository.                                              *)
(*                                                                         *)
(* Two explorers never work at once because a command is released only by  *)
(* its own generation.  What a flight does has moments at which its        *)
(* snapshot's commit and configuration were in place on both sides of it:  *)
(* one before the sync, which the snapshot was taken from, and one after   *)
(* the last query, which the fence compares.  They need not be the same    *)
(* moment: a repository taken away and back stands between them.           *)
(***************************************************************************)
EXTENDS Exploration, TLAPS

(* How a call is made does not matter to the types of what it leaves.      *)
LEMMA CallTypes ==
  ASSUME BoundedTypeOK, NEW w \in Callers, CallSteps(w) \/ ProcessSteps(w)
  PROVE  BoundedTypeOK'
<1> USE DEF BoundedTypeOK, Calls, Ops
<1>1. call[w] \in Calls
  OBVIOUS
<1>2. \A c \in Calls, e \in {"none", "cancelled", "launch_failed", "timeout"} : Finished(c, e) \in Calls
  BY DEF Finished, NoCall
<1>3. \A c \in Calls, e \in {"cancelled", "timeout"} : Killed(c, e) \subseteq Calls
  <2> SUFFICES ASSUME NEW c \in Calls, NEW e \in {"cancelled", "timeout"}
               PROVE  Killed(c, e) \subseteq Calls
    OBVIOUS
  <2>1. \A held \in BOOLEAN :
          [c EXCEPT !.pc = "join", !.error = e, !.running = FALSE, !.piped = held,
                    !.late = FALSE, !.rc = IF c.running THEN "other" ELSE @] \in Calls
    OBVIOUS
  <2>2. c.piped \in BOOLEAN
    OBVIOUS
  <2> HIDE DEF Calls
  <2> QED
    BY <2>1, <2>2 DEF Killed
<1>4. StopReason(w) # "none" => StopReason(w) \in {"cancelled", "timeout"}
  BY DEF StopReason
<1>5. CASE CheckCancel(w)
  BY <1>5, <1>1, <1>2 DEF CheckCancel
<1>6. CASE Launch(w)
  BY <1>6, <1>1, <1>2 DEF Launch
<1>7. CASE WaitForExit(w)
  BY <1>7, <1>1, <1>3, <1>4 DEF WaitForExit
<1>8. CASE WaitForDrains(w)
  BY <1>8, <1>1, <1>2, <1>3, <1>4 DEF WaitForDrains
<1>9. CASE JoinDrains(w)
  BY <1>9, <1>1, <1>2 DEF JoinDrains
<1>10. CASE ProcessExits(w)
  <2>1. PICK rc \in {"zero", "other"} : call' = [call EXCEPT ![w].running = FALSE, ![w].rc = rc]
    BY <1>10 DEF ProcessExits
  <2>2. [call[w] EXCEPT !.running = FALSE, !.rc = rc] \in Calls
    BY <1>1
  <2> QED
    BY <1>10, <2>1, <2>2 DEF ProcessExits
<1>11. CASE PipesClose(w)
  BY <1>11, <1>1 DEF PipesClose
<1>12. CASE DeadlinePasses(w)
  BY <1>12, <1>1 DEF DeadlinePasses
<1> QED
  BY <1>5, <1>6, <1>7, <1>8, <1>9, <1>10, <1>11, <1>12 DEF CallSteps, ProcessSteps

(* A step of the fence leaves a fence, and a call that is none, new or as  *)
(* it was.                                                                 *)
LEMMA FenceTypes ==
  ASSUME FenceTypeOK, NEW w \in Callers, FenceSteps(w)
  PROVE  FenceTypeOK'
<1> USE DEF FenceTypeOK, Unchanged, At, Goto
<1>a. fence[w] \in Fences /\ call[w] \in Calls /\ head \in Readings /\ config \in Readings /\ 0 \in Readings
  BY DEF BoundedTypeOK, Readings
<1>b. \A op \in Ops : Calling(op) \in Calls
  BY DEF Calling, Calls, NoCall
<1>c. NoCall \in Calls
  BY DEF Calls, Ops, NoCall
<1>d. NoFence \in Fences /\ NoSnapshot \in Snapshots
  BY DEF NoFence, Fences, NoSnapshot, Snapshots, Readings
<1>e. \A s \in {"unavailable", "stale"}, r \in Readings : Refused(w, s, r) \in Fences
  BY <1>d DEF Refused, NoFence, Fences, Snapshots, Readings
<1>f. \A v \in BOOLEAN : Judged(w, v) \in Fences
  BY <1>a, <1>d DEF Judged, NoFence, Fences
<1>g. \A r \in Readings :
        /\ [fence[w] EXCEPT !.pc = "head_now", !.later = r] \in Fences
        /\ [fence[w] EXCEPT !.pc = "config_after", !.later = r] \in Fences
        /\ [fence[w] EXCEPT !.pc = "config_before", !.head = r] \in Fences
        /\ [fence[w] EXCEPT !.pc = "status", !.config = r] \in Fences
  BY <1>a DEF Fences
<1>h. /\ [fence[w] EXCEPT !.pc = "sync", !.said = "none"] \in Fences
      /\ [fence[w] EXCEPT !.pc = "head_after", !.said = "none"] \in Fences
      /\ [fence[w] EXCEPT !.pc = "config_now", !.said = "none"] \in Fences
      /\ [fence[w] EXCEPT !.pc = "head_before"] \in Fences
      /\ [fence[w] EXCEPT !.pc = "post"] \in Fences
  BY <1>a DEF Fences
<1>i. [NoFence EXCEPT !.pc = "head_before", !.attempt = 1] \in Fences
  <2>1. \A n \in Fences : [n EXCEPT !.pc = "head_before", !.attempt = 1] \in Fences
    <3>1. 1 \in 0..1
      OBVIOUS
    <3> QED
      BY <3>1, Zenon DEF Fences
  <2> QED
    BY <1>d, <2>1
<1>j. \A r \in Readings :
        [NoFence EXCEPT !.pc = "done",
           !.snapshot = [status |-> "available", head |-> fence[w].later, config |-> r]] \in Fences
  <2>1. \A r \in Readings :
          [status |-> "available", head |-> fence[w].later, config |-> r] \in Snapshots
    BY <1>a DEF Fences, Snapshots
  <2>2. \A n \in Fences, s \in Snapshots :
          [n EXCEPT !.pc = "done", !.snapshot = s] \in Fences
    BY DEF Fences
  <2> QED
    BY <1>d, <2>1, <2>2
<1>l. ASSUME NEW f \in Fences, Goto(w, f), Unchanged,
             UNCHANGED call \/ \E d \in Calls : call' = [call EXCEPT ![w] = d]
      PROVE  FenceTypeOK'
  <2>1. fence' \in [Callers -> Fences] /\ call' \in [Callers -> Calls]
    BY <1>l DEF BoundedTypeOK
  <2> QED
    BY <1>l, <2>1 DEF BoundedTypeOK
<1> USE DEF BoundedTypeOK
<1>1. CASE FindEngine(w)
  BY <1>1, <1>a, <1>e, <1>h DEF FindEngine
<1>2. CASE ReadHeadBefore(w)
  <2>1. PICK h \in {head, 0} : Goto(w, [fence[w] EXCEPT !.pc = "config_before", !.head = h])
    BY <1>2 DEF ReadHeadBefore
  <2> HIDE DEF Goto, Unchanged, FenceTypeOK
  <2>2. [fence[w] EXCEPT !.pc = "config_before", !.head = h] \in Fences
    BY <1>a, <1>g, <2>1
  <2> QED
    BY <1>2, <1>l, <2>1, <2>2 DEF ReadHeadBefore
<1>3. CASE ReadConfigBefore(w)
  <2> HIDE DEF Goto, Unchanged, FenceTypeOK
  <2>1. PICK c \in {config, 0} :
          IF c = 0 \/ fence[w].head = 0
          THEN Goto(w, Refused(w, "unavailable", c)) /\ UNCHANGED call
          ELSE /\ Goto(w, [fence[w] EXCEPT !.pc = "status", !.config = c])
               /\ call' = [call EXCEPT ![w] = Calling("status")]
    BY <1>3 DEF ReadConfigBefore
  <2>2. /\ Refused(w, "unavailable", c) \in Fences /\ Calling("status") \in Calls
        /\ [fence[w] EXCEPT !.pc = "status", !.config = c] \in Fences
    BY <1>a, <1>b, <1>e, <1>g, <2>1 DEF Ops
  <2> QED
    BY <1>3, <1>l, <2>1, <2>2 DEF ReadConfigBefore
<1>k. fence[w].config \in Readings
  BY <1>a DEF Fences
<1>4. CASE SyncIndex(w)
  BY <1>4, <1>a, <1>b, <1>c, <1>e, <1>h, <1>k DEF SyncIndex, Ops
<1>5. CASE StatusAfterSync(w)
  BY <1>5, <1>a, <1>b, <1>c, <1>e, <1>h, <1>k DEF StatusAfterSync, Ops
<1>6. CASE AcceptStatus(w)
  <2>1. \E r \in Fences : fence' = [fence EXCEPT ![w] = r]
    BY <1>6, <1>e, <1>h, <1>k DEF AcceptStatus
  <2> QED
    BY <1>6, <2>1, <1>c DEF AcceptStatus
<1>7. CASE ReadHeadAfter(w)
  <2>1. PICK h \in {head, 0} : Goto(w, [fence[w] EXCEPT !.pc = "config_after", !.later = h])
    BY <1>7 DEF ReadHeadAfter
  <2> HIDE DEF Goto, Unchanged, FenceTypeOK
  <2>2. [fence[w] EXCEPT !.pc = "config_after", !.later = h] \in Fences
    BY <1>a, <1>g, <2>1
  <2> QED
    BY <1>7, <1>l, <2>1, <2>2 DEF ReadHeadAfter
<1>8. CASE CompareFences(w)
  <2> DEFINE kept(c) ==
        Commit(fence[w].head) = Commit(fence[w].later) /\ Digest(fence[w].config) = Digest(c)
  <2>1. PICK c \in {config, 0} :
          fence' = [fence EXCEPT ![w] =
            CASE c = 0 -> Refused(w, "unavailable", c)
              [] c # 0 /\ kept(c) ->
                   [NoFence EXCEPT !.pc = "done",
                      !.snapshot = [status |-> "available", head |-> fence[w].later, config |-> c]]
              [] c # 0 /\ ~kept(c) /\ fence[w].attempt = 0 ->
                   [NoFence EXCEPT !.pc = "head_before", !.attempt = 1]
              [] c # 0 /\ ~kept(c) /\ fence[w].attempt = 1 -> Refused(w, "stale", c)]
    BY <1>8 DEF CompareFences
  <2> HIDE DEF kept
  <2>2. fence[w].attempt \in {0, 1} /\ c \in Readings
    BY <1>a DEF Fences
  <2>3. \E r \in Fences : fence' = [fence EXCEPT ![w] = r]
    BY <2>1, <2>2, <1>e, <1>i, <1>j
  <2> QED
    BY <1>8, <2>3 DEF CompareFences
<1>9. CASE Recheck(w)
  BY <1>9, <1>a, <1>c, <1>f, <1>h DEF Recheck
<1>10. CASE ReadConfigNow(w)
  <2>1. PICK c \in {config, 0} : Goto(w, [fence[w] EXCEPT !.pc = "head_now", !.later = c])
    BY <1>10 DEF ReadConfigNow
  <2> HIDE DEF Goto, Unchanged, FenceTypeOK
  <2>2. [fence[w] EXCEPT !.pc = "head_now", !.later = c] \in Fences
    BY <1>a, <1>g, <2>1
  <2> QED
    BY <1>10, <1>l, <2>1, <2>2 DEF ReadConfigNow
<1>11. CASE CompareNow(w)
  BY <1>11, <1>a, <1>f DEF CompareNow
<1> QED
  BY <1>1, <1>2, <1>3, <1>4, <1>5, <1>6, <1>7, <1>8, <1>9, <1>10, <1>11 DEF FenceSteps

-------------------------------------------------------------------------------
(* The generation can still be counted up by the cancellation.             *)
TypeInv == TypeOK /\ (~shuttingDown => generation <= MaxFlights)

PCs == {"none", "factory", "publish", "post", "queued", "release", "ended"} \cup AtProvider

(* A flight that begins, or is let go.                                     *)
LEMMA NewFlights ==
  ASSUME NEW pc \in PCs
  PROVE  /\ [NoFlight EXCEPT !.pc = pc] \in Flights
         /\ \A ask \in Asks : [NoFlight EXCEPT !.pc = pc, !.ask = ask] \in Flights
<1>1. NoFlight \in Flights
  BY DEF NoFlight, Flights, Asks, Readings
<1>2. \A g \in Flights : [g EXCEPT !.pc = pc] \in Flights
  BY DEF Flights, PCs
<1>3. \A g \in Flights, ask \in Asks : [g EXCEPT !.pc = pc, !.ask = ask] \in Flights
  BY DEF Flights, PCs
<1> QED
  BY <1>1, <1>2, <1>3

(* A flight that goes on.                                                  *)
LEMMA FlightTypes ==
  ASSUME NEW f \in Flights, NEW pc \in PCs
  PROVE  /\ [f EXCEPT !.pc = pc] \in Flights
         /\ \A r \in {"none", "available", "unavailable", "stale", "error"} :
              [f EXCEPT !.pc = pc, !.result = r, !.callback = "on_result"] \in Flights
         /\ \A n \in [head : Readings, config : Readings] :
              [f EXCEPT !.pc = pc, !.since = n] \in Flights
         /\ \A b \in SUBSET Builds :
              /\ [f EXCEPT !.answers = @ \cup b] \in Flights
              /\ [f EXCEPT !.pc = pc, !.answers = @ \cup b] \in Flights
<1>1. [f EXCEPT !.pc = pc] \in Flights
  BY DEF Flights, PCs
<1>2. \A r \in {"none", "available", "unavailable", "stale", "error"} :
        [f EXCEPT !.pc = pc, !.result = r, !.callback = "on_result"] \in Flights
  BY DEF Flights, PCs
<1>3. ASSUME NEW b \in SUBSET Builds
      PROVE  /\ [f EXCEPT !.answers = @ \cup b] \in Flights
             /\ [f EXCEPT !.pc = pc, !.answers = @ \cup b] \in Flights
  <2>1. f.answers \cup b \in SUBSET Builds
    BY DEF Flights
  <2> QED
    BY <2>1 DEF Flights, PCs
<1>4. \A n \in [head : Readings, config : Readings] :
        [f EXCEPT !.pc = pc, !.since = n] \in Flights
  BY DEF Flights, PCs
<1> QED
  BY <1>1, <1>2, <1>3, <1>4

(* What a command keeps of calls and fences.                               *)
LEMMA ResetTypes ==
  /\ NoCall \in Calls /\ NoFence \in Fences
  /\ \A op \in Ops : Calling(op) \in Calls
  /\ \A f \in Fences :
       /\ [f EXCEPT !.pc = "engine"] \in Fences
       /\ [f EXCEPT !.pc = "recheck", !.said = "none"] \in Fences
       /\ [f EXCEPT !.pc = "done", !.valid = FALSE] \in Fences
       /\ \A s \in {"rejected", "fresh", "pending"} : [f EXCEPT !.said = s] \in Fences
  /\ \A c \in Calls : [c EXCEPT !.worked = TRUE] \in Calls
<1>1. NoCall \in Calls
  BY DEF NoCall, Calls, Ops
<1>2. NoFence \in Fences
  BY DEF NoFence, Fences, NoSnapshot, Snapshots, Readings
<1>3. \A op \in Ops : Calling(op) \in Calls
  BY DEF Calling, Calls, NoCall
<1>4. \A f \in Fences :
       /\ [f EXCEPT !.pc = "engine"] \in Fences
       /\ [f EXCEPT !.pc = "recheck", !.said = "none"] \in Fences
       /\ [f EXCEPT !.pc = "done", !.valid = FALSE] \in Fences
       /\ \A s \in {"rejected", "fresh", "pending"} : [f EXCEPT !.said = s] \in Fences
  BY DEF Fences
<1>5. \A c \in Calls : [c EXCEPT !.worked = TRUE] \in Calls
  BY DEF Calls
<1> QED
  BY <1>1, <1>2, <1>3, <1>4, <1>5

(* The observatory opens with everything of its kind.                      *)
LEMMA InitTypes == Init => TypeInv
<1> SUFFICES ASSUME Init PROVE TypeInv
  OBVIOUS
<1>1. flight \in [Callers -> Flights]
  <2>1. NoFlight \in Flights
    BY DEF NoFlight, Flights, Asks, Readings
  <2> QED
    BY <2>1 DEF Init
<1>2. BoundedTypeOK /\ fence \in [Callers -> Fences]
  BY ResetTypes DEF Init, FenceInit, BoundedInit, BoundedTypeOK
<1>3. 1 \in Versions /\ changes \in 0..MaxChanges
  BY MaxChangesAssumption DEF Init, FenceInit, Versions
<1>4. index \in Builds
  BY <1>3 DEF Init, FenceInit, Builds
<1>5. FenceTypeOK
  BY <1>2, <1>3, <1>4 DEF Init, FenceInit, FenceTypeOK
<1>6. generation \in 0..(MaxFlights + 1) /\ generation <= MaxFlights
  BY CallersAssumption DEF Init
<1>7. ui \in UIs
  BY DEF Init, UIStates, UIs
<1> QED
  BY <1>1, <1>5, <1>6, <1>7 DEF Init, TypeInv, TypeOK

(* How the UI thread goes on.                                              *)
LEMMA UITypes ==
  ASSUME ui \in UIs, NEW s \in UIStates, NEW w \in Callers \cup {0}, NEW q \in BOOLEAN
  PROVE  /\ [ui EXCEPT !.state = s] \in UIs
         /\ [ui EXCEPT !.state = s, !.flight = w] \in UIs
         /\ [ui EXCEPT !.state = s, !.quiet = q] \in UIs
BY DEF UIs

(* The coordinator's own part.                                             *)
Coordinates ==
  /\ busy \in BOOLEAN /\ shuttingDown \in BOOLEAN /\ providerDone \in BOOLEAN
  /\ active \in Callers \cup {0}
  /\ generation \in 0..(MaxFlights + 1)
  /\ ~shuttingDown => generation <= MaxFlights

(* The parts that steps disturb one by one.                                *)
LEMMA TypeParts ==
  TypeInv <=> FenceTypeOK /\ Coordinates /\ flight \in [Callers -> Flights] /\ ui \in UIs
BY DEF TypeInv, TypeOK, Coordinates

(* Letting go of a flight.                                                 *)
LEMMA LetGoTypes ==
  ASSUME TypeInv, NEW w \in Callers, NEW pc \in PCs, LetGo(w, pc), UNCHANGED Elsewhere
  PROVE  flight' \in [Callers -> Flights] /\ FenceTypeOK'
<1>1. flight \in [Callers -> Flights] /\ fence \in [Callers -> Fences] /\ FenceTypeOK
  BY DEF TypeInv, TypeOK, FenceTypeOK
<1>2. [NoFlight EXCEPT !.pc = pc] \in Flights /\ NoFence \in Fences
  BY NewFlights, ResetTypes
<1>3. flight' \in [Callers -> Flights] /\ fence' \in [Callers -> Fences]
  BY <1>1, <1>2 DEF LetGo
<1> QED
  BY <1>1, <1>3 DEF Elsewhere, bvars, FenceTypeOK, BoundedTypeOK

(* A step of others leaves the fence and its calls alone.                  *)
LEMMA FenceRests ==
  ASSUME FenceTypeOK, UNCHANGED <<head, config, tree, index, changes, seen, fence, call, cancelEvent>>
  PROVE  FenceTypeOK'
BY DEF FenceTypeOK, BoundedTypeOK

(* The user, and what the UI thread does for the flights.                  *)
LEMMA InterfaceTypes == TypeInv /\ Interface => TypeInv'
<1> SUFFICES ASSUME TypeInv, Interface PROVE TypeInv'
  OBVIOUS
<1>a. FenceTypeOK /\ Coordinates /\ flight \in [Callers -> Flights] /\ ui \in UIs
  BY TypeParts
<1>b. Callers = 1..MaxFlights /\ MaxFlights \in Nat
  BY CallersAssumption
<1>c. ASSUME UNCHANGED fvars PROVE FenceTypeOK'
  BY <1>a, <1>c, FenceRests DEF fvars, bvars
<1>1. CASE Start
  <2>1. PICK ask \in Asks :
          flight' = [flight EXCEPT ![generation + 1] = [NoFlight EXCEPT !.pc = "factory", !.ask = ask]]
    BY <1>1 DEF Start
  <2>2. [NoFlight EXCEPT !.pc = "factory", !.ask = ask] \in Flights
    BY NewFlights DEF PCs
  <2>3. flight' \in [Callers -> Flights]
    BY <1>a, <2>1, <2>2
  <2>4. Coordinates'
    <3>1. generation' = generation + 1 /\ generation <= MaxFlights /\ generation \in 0..(MaxFlights + 1)
          /\ (~shuttingDown' => generation < MaxFlights)
      BY <1>1, <1>a DEF Start, Coordinates
    <3>2. generation' \in 0..(MaxFlights + 1) /\ (~shuttingDown' => generation' <= MaxFlights)
      BY <3>1, <1>b
    <3> QED
      BY <1>1, <1>a, <3>2 DEF Start, Coordinates
  <2> QED
    BY <1>1, <1>a, <1>c, <2>3, <2>4 DEF Start, TypeInv, TypeOK, Coordinates
<1>2. CASE Cancel
  <2>1. ui' \in UIs
    BY <1>2, <1>a, UITypes DEF Cancel, UIStates, Coordinates
  <2>2. Coordinates'
    <3>1. generation' = generation + 1 /\ generation <= MaxFlights /\ generation \in 0..(MaxFlights + 1)
          /\ (~shuttingDown' => generation < MaxFlights)
      BY <1>2, <1>a DEF Cancel, Coordinates
    <3>2. generation' \in 0..(MaxFlights + 1) /\ (~shuttingDown' => generation' <= MaxFlights)
      BY <3>1, <1>b
    <3> QED
      BY <1>2, <1>a, <3>2 DEF Cancel, Coordinates
  <2> QED
    BY <1>2, <1>a, <1>c, <2>1, <2>2 DEF Cancel, TypeInv, TypeOK, Coordinates
<1>3. CASE CancelExplorer
  <2>1. ui' \in UIs
    BY <1>3, <1>a, UITypes DEF CancelExplorer, UIStates
  <2>2. cancelEvent' \in [Callers -> BOOLEAN]
    BY <1>3, <1>a DEF CancelExplorer, FenceTypeOK, BoundedTypeOK
  <2>3. FenceTypeOK'
    BY <1>3, <1>a, <2>2 DEF CancelExplorer, FenceTypeOK, BoundedTypeOK
  <2>4. Coordinates'
    BY <1>3, <1>a DEF CancelExplorer, coordinator, Coordinates
  <2> QED
    BY <1>3, <1>a, <2>1, <2>3, <2>4 DEF CancelExplorer, TypeInv, TypeOK, Coordinates
<1>4. CASE WaitForProvider \/ Close
  <2>1. ui' \in UIs
    BY <1>4, <1>a, UITypes DEF WaitForProvider, Close, UIStates, Coordinates
  <2>2. Coordinates'
    BY <1>4, <1>a DEF WaitForProvider, Close, coordinator, Coordinates
  <2> QED
    BY <1>4, <1>a, <1>c, <2>1, <2>2 DEF WaitForProvider, Close, TypeInv, TypeOK, Coordinates
<1>5. ASSUME NEW w \in Callers, DeliverIfCurrent(w) PROVE TypeInv'
  <2>1. ui' \in UIs
    BY <1>5, <1>a, UITypes DEF DeliverIfCurrent, UIStates
  <2>2. Coordinates'
    BY <1>5, <1>a DEF DeliverIfCurrent, coordinator, Coordinates
  <2>3. flight' \in [Callers -> Flights] /\ FenceTypeOK'
    <3>1. CASE LetGo(w, "ended")
      BY <1>5, <3>1, LetGoTypes DEF DeliverIfCurrent, PCs
    <3>2. CASE UNCHANGED <<flight, fence>>
      BY <1>5, <1>a, <3>2, FenceRests DEF DeliverIfCurrent, Elsewhere, bvars
    <3> QED
      BY <1>5, <3>1, <3>2 DEF DeliverIfCurrent
  <2> QED
    BY <2>1, <2>2, <2>3 DEF TypeInv, TypeOK, Coordinates
<1>6. ASSUME NEW w \in Callers, CallbackEnds(w) PROVE TypeInv'
  <2>1. ui' \in UIs
    BY <1>6, <1>a, UITypes DEF CallbackEnds, UIStates
  <2>2. Coordinates'
    BY <1>6, <1>a DEF CallbackEnds, Released, Coordinates
  <2>3. flight' \in [Callers -> Flights] /\ FenceTypeOK'
    BY <1>6, LetGoTypes DEF CallbackEnds, PCs
  <2> QED
    BY <2>1, <2>2, <2>3 DEF TypeInv, TypeOK, Coordinates
<1> QED
  BY <1>1, <1>2, <1>3, <1>4, <1>5, <1>6 DEF Interface

-------------------------------------------------------------------------------
(* The worker, step by step: what it makes of its flight and of its calls. *)
LEMMA WorkerTypes ==
  ASSUME TypeInv, NEW w \in Callers, Worker(w)
  PROVE  TypeInv'
<1>a. FenceTypeOK /\ Coordinates /\ flight \in [Callers -> Flights] /\ ui \in UIs
      /\ flight[w] \in Flights
  BY TypeParts
<1>b. /\ fence \in [Callers -> Fences] /\ call \in [Callers -> Calls] /\ fence[w] \in Fences
      /\ call[w] \in Calls /\ cancelEvent \in [Callers -> BOOLEAN] /\ index \in Builds
  BY <1>a DEF FenceTypeOK, BoundedTypeOK
<1>c. ASSUME fence' \in [Callers -> Fences], call' \in [Callers -> Calls],
             cancelEvent' \in [Callers -> BOOLEAN], UNCHANGED <<head, config, tree, index, changes, seen>>
      PROVE  FenceTypeOK'
  BY <1>a, <1>c DEF FenceTypeOK, BoundedTypeOK
<1>d. ASSUME flight' \in [Callers -> Flights], Coordinates', FenceTypeOK', UNCHANGED ui PROVE TypeInv'
  BY <1>a, <1>d DEF TypeInv, TypeOK, Coordinates
<1>e. ASSUME UNCHANGED coordinator PROVE Coordinates'
  BY <1>a, <1>e DEF coordinator, Coordinates
<1>f. \A pc \in PCs : MoveTo(w, pc) => flight' \in [Callers -> Flights]
  BY <1>a, FlightTypes DEF MoveTo
<1>g. \A r \in {"none", "available", "unavailable", "stale", "error"} : Returns(w, r) =>
        flight' \in [Callers -> Flights] /\ call' \in [Callers -> Calls] /\ fence' \in [Callers -> Fences]
  <2> SUFFICES ASSUME NEW r \in {"none", "available", "unavailable", "stale", "error"}, Returns(w, r)
               PROVE  flight' \in [Callers -> Flights] /\ call' \in [Callers -> Calls]
                      /\ fence' \in [Callers -> Fences]
    OBVIOUS
  <2>1. [flight[w] EXCEPT !.pc = "finally", !.result = r, !.callback = "on_result"] \in Flights
    BY <1>a, FlightTypes DEF PCs, AtProvider
  <2>2. flight' = [flight EXCEPT ![w] =
                     [flight[w] EXCEPT !.pc = "finally", !.result = r, !.callback = "on_result"]]
    BY DEF Returns
  <2>3. flight' \in [Callers -> Flights]
    BY <1>a, <2>1, <2>2
  <2> QED
    BY <1>b, <2>3, ResetTypes DEF Returns
<1>h. \A pc \in PCs, op \in Ops : Asking(w, pc, op) =>
        flight' \in [Callers -> Flights] /\ call' \in [Callers -> Calls] /\ fence' \in [Callers -> Fences]
  BY <1>b, <1>f, ResetTypes DEF Asking
<1>i. ASSUME \/ /\ fence' = [fence EXCEPT ![w].pc = "recheck", ![w].said = "none"]
                /\ call' = [call EXCEPT ![w] = Calling("status")]
             \/ /\ fence' = [fence EXCEPT ![w].pc = "done", ![w].valid = FALSE]
                /\ (call' = [call EXCEPT ![w] = NoCall] \/ UNCHANGED call)
      PROVE  fence' \in [Callers -> Fences] /\ call' \in [Callers -> Calls]
  <2>1. [fence[w] EXCEPT !.pc = "recheck", !.said = "none"] \in Fences
        /\ [fence[w] EXCEPT !.pc = "done", !.valid = FALSE] \in Fences
        /\ Calling("status") \in Calls /\ NoCall \in Calls
    BY <1>b, ResetTypes DEF Ops
  <2> QED
    BY <1>b, <1>i, <2>1
<1>j. ASSUME UNCHANGED Elsewhere, fence' \in [Callers -> Fences] PROVE FenceTypeOK'
  BY <1>b, <1>c, <1>j DEF Elsewhere, bvars
<1> USE DEF Others
<1>1. CASE CallSteps(w) /\ Others /\ UNCHANGED <<head, config, tree, index, changes, seen, fence>>
  <2>1. BoundedTypeOK'
    BY <1>1, <1>a, CallTypes DEF FenceTypeOK
  <2> QED
    BY <1>1, <1>a, <1>d, <1>e, <2>1 DEF FenceTypeOK
<1>2. CASE FenceSteps(w) /\ Others
  BY <1>2, <1>a, <1>d, <1>e, FenceTypes
<1>3. CASE MakeExplorer(w)
  <2>1. flight' \in [Callers -> Flights]
    BY <1>3, <1>f DEF MakeExplorer, PCs, AtProvider
  <2> QED
    BY <1>3, <1>a, <1>d, <1>e, <2>1, FenceRests DEF MakeExplorer, fvars, bvars
<1>4. CASE Publish(w)
  <2>1. flight' \in [Callers -> Flights]
    <3>1. [head |-> head, config |-> config] \in [head : Readings, config : Readings]
      BY <1>a DEF FenceTypeOK, Readings
    <3>2. [flight[w] EXCEPT !.pc = "preparing", !.since = [head |-> head, config |-> config]]
            \in Flights
      BY <1>a, <3>1, FlightTypes DEF PCs, AtProvider
    <3> QED
      BY <1>4, <1>a, <1>f, <3>2 DEF Publish, PCs, AtProvider
  <2>2. fence' \in [Callers -> Fences] /\ cancelEvent' \in [Callers -> BOOLEAN]
    BY <1>4, <1>b, ResetTypes DEF Publish
  <2>3. FenceTypeOK'
    BY <1>4, <1>b, <1>c, <2>2 DEF Publish
  <2>4. Coordinates'
    BY <1>4, <1>a DEF Publish, Coordinates
  <2> QED
    BY <1>4, <1>d, <2>1, <2>3, <2>4 DEF Publish
<1>5. CASE AbandonPrepared(w)
  <2>1. flight' \in [Callers -> Flights]
    BY <1>5, <1>f DEF AbandonPrepared, PCs, AtProvider
  <2>2. FenceTypeOK'
    BY <1>5, <1>b, <1>c DEF AbandonPrepared
  <2> QED
    BY <1>5, <1>d, <1>e, <2>1, <2>2 DEF AbandonPrepared
<1>6. CASE Explore(w)
  <2>1. fence[w].snapshot.status \in {"none", "available", "unavailable", "stale"}
    BY <1>b DEF Fences, Snapshots
  <2>2. \/ \E r \in {"none", "unavailable", "stale", "error"} : Returns(w, r)
        \/ Asking(w, "querying", "explore") \/ Asking(w, "affecting", "affected")
    BY <1>6, <2>1 DEF Explore
  <2>3. flight' \in [Callers -> Flights] /\ call' \in [Callers -> Calls] /\ fence' \in [Callers -> Fences]
    BY <2>2, <1>g, <1>h DEF PCs, AtProvider, Ops
  <2> QED
    BY <1>6, <1>b, <1>c, <1>d, <1>e, <2>3 DEF Explore, coordinator
<1>7. CASE QueryAnswered(w)
  <2>1. flight' \in [Callers -> Flights] /\ call' \in [Callers -> Calls] /\ fence' \in [Callers -> Fences]
    <3>1. CASE Returns(w, "error")
      BY <3>1, <1>g
    <3>2. CASE Asking(w, "affecting", "affected")
      BY <3>2, <1>h DEF PCs, AtProvider, Ops
    <3>3. CASE Revalidate(w)
      BY <3>3, <1>f, <1>i DEF Revalidate, PCs, AtProvider
    <3> QED
      BY <1>7, <3>1, <3>2, <3>3 DEF QueryAnswered
  <2> QED
    BY <1>7, <1>b, <1>c, <1>d, <1>e, <2>1 DEF QueryAnswered, coordinator
<1>8. CASE AffectedAnswered(w)
  <2>1. flight' \in [Callers -> Flights] /\ call' \in [Callers -> Calls] /\ fence' \in [Callers -> Fences]
    <3>1. CASE Returns(w, "error")
      BY <3>1, <1>g
    <3>2. CASE MoveTo(w, "dependents") /\ call' = [call EXCEPT ![w] = NoCall] /\ UNCHANGED fence
      BY <3>2, <1>b, <1>f, ResetTypes DEF PCs, AtProvider
    <3> QED
      BY <1>8, <3>1, <3>2 DEF AffectedAnswered
  <2> QED
    BY <1>8, <1>b, <1>c, <1>d, <1>e, <2>1 DEF AffectedAnswered, coordinator
<1>9. CASE ReadDependents(w)
  <2>1. PICK read \in {{index}, {}} :
          flight' = [flight EXCEPT ![w].pc = "revalidating", ![w].answers = @ \cup read]
    BY <1>9 DEF ReadDependents
  <2>2. [flight[w] EXCEPT !.pc = "revalidating", !.answers = @ \cup read] \in Flights
    BY <1>a, <1>b, FlightTypes DEF PCs, AtProvider
  <2>3. flight' \in [Callers -> Flights]
    BY <1>a, <2>1, <2>2
  <2>4. fence' \in [Callers -> Fences] /\ call' \in [Callers -> Calls]
    BY <1>9, <1>i DEF ReadDependents
  <2> QED
    BY <1>9, <1>b, <1>c, <1>d, <1>e, <2>3, <2>4 DEF ReadDependents, coordinator
<1>10. CASE Conclude(w)
  <2>1. flight' \in [Callers -> Flights] /\ call' \in [Callers -> Calls] /\ fence' \in [Callers -> Fences]
    BY <1>10, <1>g DEF Conclude
  <2> QED
    BY <1>10, <1>b, <1>c, <1>d, <1>e, <2>1 DEF Conclude, coordinator
<1>11. CASE Finally(w)
  <2>1. flight' \in [Callers -> Flights] /\ FenceTypeOK'
    <3>1. CASE LetGo(w, "ended")
      BY <1>11, <3>1, LetGoTypes DEF Finally, PCs
    <3>2. CASE MoveTo(w, "post") /\ UNCHANGED fence
      BY <1>11, <1>b, <1>f, <1>j, <3>2 DEF Finally, PCs
    <3> QED
      BY <1>11, <3>1, <3>2 DEF Finally
  <2>2. Coordinates'
    BY <1>11, <1>a DEF Finally, Coordinates
  <2> QED
    BY <1>11, <1>d, <2>1, <2>2 DEF Finally
<1>12. CASE Post(w) \/ PostFails(w)
  <2>1. flight' \in [Callers -> Flights] /\ FenceTypeOK'
    <3>1. CASE LetGo(w, "release")
      BY <1>12, <3>1, LetGoTypes DEF Post, PostFails, PCs
    <3>2. CASE MoveTo(w, "queued") /\ UNCHANGED fence
      BY <1>12, <1>b, <1>f, <1>j, <3>2 DEF Post, PostFails, PCs
    <3> QED
      BY <1>12, <3>1, <3>2 DEF Post, PostFails
  <2> QED
    BY <1>12, <1>d, <1>e, <2>1 DEF Post, PostFails
<1>13. CASE ReleaseIfCurrent(w)
  <2>1. flight' \in [Callers -> Flights]
    BY <1>13, <1>f DEF ReleaseIfCurrent, PCs
  <2>2. Coordinates'
    BY <1>13, <1>a DEF ReleaseIfCurrent, Released, Coordinates
  <2> QED
    BY <1>13, <1>a, <1>d, <2>1, <2>2, FenceRests DEF ReleaseIfCurrent, fvars, bvars
<1> QED
  BY <1>1, <1>2, <1>3, <1>4, <1>5, <1>6, <1>7, <1>8, <1>9, <1>10, <1>11, <1>12, <1>13 DEF Worker

(* A change is the newest moment, and leaves what older ones put in place. *)
LEMMA ChangeMoves ==
  ASSUME FenceTypeOK, NEW h \in BOOLEAN, NEW c \in BOOLEAN, NEW t \in BOOLEAN, Change(h, c, t)
  PROVE  /\ changes + 1 \in 0..MaxChanges /\ changes + 2 \in Versions
         /\ seen' \in [head : [Versions -> Versions], config : [Versions -> Versions]]
         /\ \A m \in Versions : m <= changes + 1 =>
              seen'.head[m] = seen.head[m] /\ seen'.config[m] = seen.config[m]
<1> DEFINE now == changes + 2
<1>1. changes + 1 \in 0..MaxChanges /\ now \in Versions /\ changes \in Nat
  BY MaxChangesAssumption DEF Change, FenceTypeOK, Versions
<1>2. PICK x \in 1..now, y \in 1..now :
        seen' = [seen EXCEPT !.head[now] = x, !.config[now] = y]
  <2> DEFINE commits == IF h THEN (1..now) \ {Commit(head)} ELSE {now}
             digests == IF c THEN (1..now) \ {Digest(config)} ELSE {now}
  <2>1. \E x \in commits, y \in digests : seen' = [seen EXCEPT !.head[now] = x, !.config[now] = y]
    BY Zenon DEF Change
  <2>2. now \in 1..now
    BY <1>1
  <2>3. commits \subseteq 1..now /\ digests \subseteq 1..now
    BY <2>2
  <2> HIDE DEF commits, digests
  <2> QED
    BY <2>1, <2>3
<1>3. x \in Versions /\ y \in Versions
  BY <1>1, <1>2, MaxChangesAssumption DEF Versions
<1>4. /\ seen.head \in [Versions -> Versions] /\ seen.config \in [Versions -> Versions]
      /\ seen' = [head |-> [seen.head EXCEPT ![now] = x], config |-> [seen.config EXCEPT ![now] = y]]
  BY <1>2 DEF FenceTypeOK
<1>5. \A m \in Versions : m <= changes + 1 => m # now
  BY <1>1 DEF Versions
<1> HIDE DEF now
<1>6. /\ [seen.head EXCEPT ![now] = x] \in [Versions -> Versions]
      /\ [seen.config EXCEPT ![now] = y] \in [Versions -> Versions]
      /\ \A m \in Versions : m # now => /\ [seen.head EXCEPT ![now] = x][m] = seen.head[m]
                                       /\ [seen.config EXCEPT ![now] = y][m] = seen.config[m]
  BY <1>3, <1>4
<1>7. /\ seen' \in [head : [Versions -> Versions], config : [Versions -> Versions]]
      /\ \A m \in Versions : m <= changes + 1 =>
           seen'.head[m] = seen.head[m] /\ seen'.config[m] = seen.config[m]
  BY <1>4, <1>5, <1>6
<1> QED
  BY <1>1, <1>7 DEF now

(* The engine, the clock, and everyone else.                               *)
LEMMA OutsideTypes ==
  ASSUME TypeInv, Environment \/ \E w \in Callers : Engine(w)
  PROVE  TypeInv'
<1>a. FenceTypeOK /\ Coordinates /\ flight \in [Callers -> Flights] /\ ui \in UIs
  BY TypeParts
<1>b. /\ fence \in [Callers -> Fences] /\ call \in [Callers -> Calls]
      /\ cancelEvent \in [Callers -> BOOLEAN] /\ BoundedTypeOK
      /\ head \in Versions /\ config \in Versions /\ tree \in Versions
      /\ index \in Builds /\ changes \in 0..MaxChanges
  BY <1>a DEF FenceTypeOK, BoundedTypeOK
<1>c. ASSUME FenceTypeOK', flight' \in [Callers -> Flights], UNCHANGED <<coordinator, ui>> PROVE TypeInv'
  BY <1>a, <1>c DEF coordinator, Coordinates, TypeInv, TypeOK
<1>d. Current \in Builds
  BY <1>b DEF Current, Builds
<1>1. CASE RepositoryMoves /\ Others
  <2>1. PICK h \in BOOLEAN, c \in BOOLEAN, t \in BOOLEAN : Change(h, c, t)
    BY <1>1 DEF RepositoryMoves
  <2>2. changes < MaxChanges /\ changes + 1 \in 0..MaxChanges /\ changes + 2 \in Versions
    BY <2>1, <1>a, ChangeMoves DEF Change
  <2>3. FenceTypeOK'
    <3>1. seen' \in [head : [Versions -> Versions], config : [Versions -> Versions]]
      BY <2>1, <1>a, ChangeMoves
    <3>2. /\ changes' = changes + 1 /\ head' \in {head, changes + 2}
          /\ config' \in {config, changes + 2} /\ tree' \in {tree, changes + 2}
          /\ UNCHANGED <<index, fence, call, cancelEvent>>
      BY <2>1 DEF Change, bvars
    <3> QED
      BY <2>2, <3>1, <3>2, <1>b DEF FenceTypeOK, BoundedTypeOK
  <2> QED
    BY <1>1, <1>a, <1>c, <2>3 DEF Others
<1>2. CASE AnotherProcessSyncs /\ Others
  <2>1. index' \in Builds /\ UNCHANGED <<head, config, tree, changes, seen, fence, call, cancelEvent>>
    BY <1>2, <1>d DEF AnotherProcessSyncs, bvars
  <2>2. FenceTypeOK'
    BY <1>a, <2>1 DEF FenceTypeOK, BoundedTypeOK
  <2> QED
    BY <1>2, <1>a, <1>c, <2>2 DEF Others
<1>3. ASSUME NEW w \in Callers, Engine(w) PROVE TypeInv'
  <2>a. call[w] \in Calls /\ fence[w] \in Fences /\ flight[w] \in Flights
    BY <1>a, <1>b
  <2>1. CASE ProcessSteps(w) /\ Others /\ UNCHANGED <<head, config, tree, index, changes, seen, fence>>
    BY <2>1, <1>a, <1>b, <1>c, CallTypes DEF Others, FenceTypeOK
  <2>2. CASE EngineStatus(w) /\ Others
    <3>1. PICK s \in {"rejected", "fresh", "pending"} : fence' = [fence EXCEPT ![w].said = s]
      BY <2>2 DEF EngineStatus, StatusAnswers
    <3>2. fence' \in [Callers -> Fences] /\ call' \in [Callers -> Calls]
      BY <2>2, <2>a, <3>1, <1>b, ResetTypes DEF EngineStatus
    <3> QED
      BY <2>2, <3>2, <1>a, <1>b, <1>c DEF EngineStatus, Others, FenceTypeOK, BoundedTypeOK
  <2>3. CASE EngineSync(w) /\ Others
    <3>1. call' \in [Callers -> Calls]
      BY <2>3, <2>a, <1>b, ResetTypes DEF EngineSync
    <3> QED
      BY <2>3, <3>1, <1>a, <1>b, <1>c, <1>d DEF EngineSync, Others, FenceTypeOK, BoundedTypeOK
  <2>4. CASE EngineQuery(w)
    <3>1. [flight[w] EXCEPT !.answers = @ \cup {index}] \in Flights
      BY <2>a, <1>b, FlightTypes DEF PCs
    <3>2. call' \in [Callers -> Calls] /\ flight' \in [Callers -> Flights]
      BY <2>4, <2>a, <3>1, <1>a, <1>b, ResetTypes DEF EngineQuery
    <3> QED
      BY <2>4, <3>2, <1>a, <1>b, <1>c DEF EngineQuery, FenceTypeOK, BoundedTypeOK
  <2> QED
    BY <1>3, <2>1, <2>2, <2>3, <2>4 DEF Engine
<1> QED
  BY <1>1, <1>2, <1>3 DEF Environment

(* Every step keeps the kinds.                                             *)
LEMMA StepTypes == TypeInv /\ [Next]_vars => TypeInv'
<1> SUFFICES ASSUME TypeInv, [Next]_vars PROVE TypeInv'
  OBVIOUS
<1>1. CASE Next
  BY <1>1, InterfaceTypes, WorkerTypes, OutsideTypes DEF Next
<1>2. CASE UNCHANGED vars
  <2>1. UNCHANGED <<coordinator, flight, ui, fvars>>
    BY <1>2 DEF vars
  <2>2. FenceTypeOK'
    BY <2>1, FenceRests DEF fvars, bvars, TypeInv, TypeOK
  <2> QED
    BY <2>1, <2>2 DEF coordinator, TypeInv, TypeOK
<1> QED
  BY <1>1, <1>2

(* Type correctness of the observatory, its fence and its calls.           *)
THEOREM TypeCorrect == Spec => []TypeOK
<1>1. TypeInv => TypeOK
  BY DEF TypeInv
<1> QED
  BY <1>1, InitTypes, StepTypes, PTL DEF Spec

-------------------------------------------------------------------------------
(***************************************************************************)
(* One flight at a time                                                    *)
(***************************************************************************)
(* Where a command still has to come to its provider's end, and where it   *)
(* holds the observatory.                                                  *)
Ahead == {"factory", "publish"} \cup AtProvider
Holding == Ahead \cup {"post", "queued"}

FlightInv ==
  /\ \A v, w \in Callers : flight[v].pc \in Holding /\ flight[w].pc \in Holding => v = w
  /\ ~shuttingDown => \A w \in Callers : flight[w].pc \in Holding => busy /\ generation = w
  /\ providerDone => \A w \in Callers : flight[w].pc \notin Ahead
  /\ ui.state = "callback" =>
       /\ ~shuttingDown /\ busy /\ generation = ui.flight
       /\ ui.flight \in Callers /\ flight[ui.flight].pc = "queued"
  /\ ui.state \in {"cancelling", "waiting", "exiting", "closed"} => shuttingDown
  /\ ui.quiet => shuttingDown /\ providerDone

(* A worker on its way to its provider's end changes nothing of that.      *)
LEMMA WorkerMoves ==
  ASSUME TypeInv, FlightInv, TypeInv', NEW w \in Callers, NEW pc \in Ahead,
         flight[w].pc \in Ahead, flight'[w].pc = pc,
         \A v \in Callers \ {w} : flight'[v] = flight[v],
         UNCHANGED <<busy, shuttingDown, generation, providerDone, ui>>
  PROVE  FlightInv'
<1>1. \A v \in Callers : flight'[v].pc \in Holding <=> flight[v].pc \in Holding
  BY DEF Holding
<1>2. \A v \in Callers : flight'[v].pc \in Ahead <=> flight[v].pc \in Ahead
  OBVIOUS
<1>3. \A v \in Callers : flight[v].pc = "queued" => flight'[v].pc = "queued"
  BY DEF Ahead, AtProvider
<1> QED
  BY <1>1, <1>2, <1>3 DEF FlightInv

(* The UI thread starts a flight only when none holds the observatory.     *)
LEMMA InterfaceFlights ==
  ASSUME TypeInv, FlightInv, TypeInv', Interface
  PROVE  FlightInv'
<1>a. flight \in [Callers -> Flights] /\ ui \in UIs /\ Callers = 1..MaxFlights /\ MaxFlights \in Nat
      /\ generation \in 0..(MaxFlights + 1)
  BY CallersAssumption DEF TypeInv, TypeOK
<1>1. CASE Start
  <2>1. \A v \in Callers : flight[v].pc \notin Holding
    BY <1>1 DEF Start, FlightInv
  <2>2. generation + 1 \in Callers
    BY <1>1, <1>a DEF Start
  <2>3. \A v \in Callers : v # generation + 1 => flight'[v] = flight[v]
    BY <1>1, <1>a DEF Start
  <2>4. \A v \in Callers : flight'[v].pc \in Holding => v = generation + 1
    BY <2>1, <2>3
  <2>5. generation' = generation + 1 /\ busy' = TRUE /\ ~providerDone' /\ ~shuttingDown' /\ ui' = ui
        /\ ui.state = "open" /\ ~ui.quiet
    BY <1>1 DEF Start, FlightInv
  <2> QED
    BY <2>4, <2>5 DEF FlightInv
<1>2. CASE Cancel
  <2>1. ui'.state = "cancelling" /\ ui'.quiet = ui.quiet /\ shuttingDown' /\ UNCHANGED <<flight, providerDone>>
    BY <1>2, <1>a DEF Cancel, UIs
  <2> QED
    BY <2>1 DEF FlightInv
<1>3. CASE CancelExplorer
  <2>1. ui'.state = "waiting" /\ ui'.quiet = ui.quiet /\ shuttingDown /\ UNCHANGED <<flight, coordinator>>
    BY <1>3, <1>a DEF CancelExplorer, UIs, FlightInv
  <2> QED
    BY <2>1 DEF FlightInv, coordinator
<1>4. CASE WaitForProvider
  <2>a. PICK quiet \in {providerDone, FALSE} : ui' = [ui EXCEPT !.state = "exiting", !.quiet = quiet]
    BY <1>4 DEF WaitForProvider
  <2>b. ui'.state = "exiting" /\ ui'.quiet = quiet
    BY <2>a, <1>a DEF UIs
  <2>c. quiet => providerDone
    BY <2>a, Zenon
  <2>1. ui'.state = "exiting" /\ (ui'.quiet => providerDone) /\ shuttingDown /\ UNCHANGED <<flight, coordinator>>
    BY <1>4, <2>b, <2>c DEF WaitForProvider, FlightInv
  <2> QED
    BY <2>1 DEF FlightInv, coordinator
<1>5. CASE Close
  <2>1. ui'.state = "closed" /\ ui'.quiet = ui.quiet /\ shuttingDown /\ UNCHANGED <<flight, coordinator>>
    BY <1>5, <1>a DEF Close, UIs, FlightInv
  <2> QED
    BY <2>1 DEF FlightInv, coordinator
<1>6. ASSUME NEW w \in Callers, DeliverIfCurrent(w) PROVE FlightInv'
  <2>1. CASE IsCurrent(w)
    <3>1. ui'.state = "callback" /\ ui'.flight = w /\ ui'.quiet = ui.quiet /\ UNCHANGED <<flight, coordinator>>
          /\ flight[w].pc = "queued" /\ ~shuttingDown /\ generation = w
      BY <1>6, <2>1, <1>a DEF DeliverIfCurrent, UIs, IsCurrent
    <3>2. busy
      BY <3>1 DEF FlightInv, Holding
    <3> QED
      BY <3>1, <3>2 DEF FlightInv, coordinator
  <2>2. CASE ~IsCurrent(w)
    <3>1. /\ UNCHANGED <<ui, coordinator>> /\ flight[w].pc = "queued" /\ ui.state # "callback"
          /\ flight' = [flight EXCEPT ![w] = [NoFlight EXCEPT !.pc = "ended"]]
      BY <1>6, <2>2 DEF DeliverIfCurrent, LetGo
    <3>2. flight'[w].pc = "ended" /\ \A v \in Callers \ {w} : flight'[v] = flight[v]
      BY <3>1, <1>a DEF NoFlight
    <3> QED
      BY <3>1, <3>2 DEF FlightInv, coordinator, Holding, Ahead, AtProvider
  <2> QED
    BY <2>1, <2>2
<1>7. ASSUME NEW w \in Callers, CallbackEnds(w) PROVE FlightInv'
  <2>1. /\ ui.flight = w /\ ui'.state = "open" /\ ui'.quiet = ui.quiet
        /\ UNCHANGED <<shuttingDown, generation, providerDone>> /\ ~shuttingDown /\ flight[w].pc = "queued"
    BY <1>7, <1>a DEF CallbackEnds, UIs, FlightInv
  <2>2. flight'[w].pc \in {"ended", "release"} /\ \A v \in Callers \ {w} : flight'[v] = flight[v]
    BY <1>7, <1>a DEF CallbackEnds, LetGo, NoFlight
  <2>3. \A v \in Callers : flight'[v].pc \notin Holding
    BY <2>1, <2>2 DEF FlightInv, Holding, Ahead, AtProvider
  <2> QED
    BY <2>1, <2>3 DEF FlightInv, Holding
<1> QED
  BY <1>1, <1>2, <1>3, <1>4, <1>5, <1>6, <1>7 DEF Interface

(* A worker passes its provider's end once, and then lets go.              *)
LEMMA WorkerFlights ==
  ASSUME TypeInv, FlightInv, TypeInv', NEW w \in Callers, Worker(w)
  PROVE  FlightInv'
<1>a. flight \in [Callers -> Flights] /\ flight' \in [Callers -> Flights]
  BY DEF TypeInv, TypeOK
<1>b. ASSUME UNCHANGED <<coordinator, flight, ui>> PROVE FlightInv'
  BY <1>b DEF FlightInv, coordinator
<1>c. ASSUME NEW pc \in Ahead, flight[w].pc \in Ahead, UNCHANGED <<busy, shuttingDown, generation, providerDone, ui>>,
             \/ MoveTo(w, pc)
             \/ \E r \in {"none", "available", "unavailable", "stale", "error"} : pc = "finally" /\ Returns(w, r)
             \/ \E read \in SUBSET Builds :
                  flight' = [flight EXCEPT ![w].pc = pc, ![w].answers = @ \cup read]
      PROVE  FlightInv'
  <2>1. flight'[w].pc = pc /\ \A v \in Callers \ {w} : flight'[v] = flight[v]
    <3>1. CASE MoveTo(w, pc)
      BY <3>1, <1>a DEF MoveTo, Flights
    <3>2. ASSUME NEW r \in {"none", "available", "unavailable", "stale", "error"}, pc = "finally", Returns(w, r)
          PROVE  flight'[w].pc = pc /\ \A v \in Callers \ {w} : flight'[v] = flight[v]
      BY <3>2, <1>a DEF Returns, Flights
    <3>3. ASSUME NEW read \in SUBSET Builds,
                 flight' = [flight EXCEPT ![w].pc = pc, ![w].answers = @ \cup read]
          PROVE  flight'[w].pc = pc /\ \A v \in Callers \ {w} : flight'[v] = flight[v]
      BY <3>3, <1>a DEF Flights
    <3> QED
      BY <1>c, <3>1, <3>2, <3>3
  <2> QED
    BY <1>c, <2>1, WorkerMoves
<1>d. ASSUME NEW pc \in {"ended", "release"}, LetGo(w, pc) \/ MoveTo(w, pc)
      PROVE  flight'[w].pc = pc /\ \A v \in Callers \ {w} : flight'[v] = flight[v]
  <2>1. CASE LetGo(w, pc)
    BY <2>1, <1>a DEF LetGo, NoFlight
  <2>2. CASE MoveTo(w, pc)
    BY <2>2, <1>a DEF MoveTo, Flights
  <2> QED
    BY <1>d, <2>1, <2>2
<1> USE DEF coordinator
<1>1. CASE \/ CallSteps(w) /\ Others /\ UNCHANGED <<head, config, tree, index, changes, seen, fence>>
           \/ FenceSteps(w) /\ Others
  BY <1>1, <1>b DEF Others
<1>2. CASE MakeExplorer(w) \/ Publish(w) \/ AbandonPrepared(w)
  <2>1. CASE MakeExplorer(w) \/ AbandonPrepared(w)
    BY <2>1, <1>c DEF MakeExplorer, AbandonPrepared, Ahead, AtProvider
  <2>2. CASE Publish(w)
    <3>1. \/ MoveTo(w, "finally")
          \/ flight' = [flight EXCEPT ![w].pc = "preparing",
                                      ![w].since = [head |-> head, config |-> config]]
      BY <2>2 DEF Publish
    <3>2. flight'[w].pc \in {"finally", "preparing"} /\ \A v \in Callers \ {w} : flight'[v] = flight[v]
      BY <3>1, <1>a DEF MoveTo, Flights
    <3> QED
      BY <2>2, <3>2, WorkerMoves DEF Publish, Ahead, AtProvider
  <2> QED
    BY <1>2, <2>1, <2>2
<1>3. CASE Explore(w)
  <2>0. fence[w].snapshot.status \in {"none", "available", "unavailable", "stale"}
    BY DEF TypeInv, TypeOK, FenceTypeOK, Fences, Snapshots
  <2>1. \/ \E r \in {"none", "available", "unavailable", "stale", "error"} : Returns(w, r)
        \/ MoveTo(w, "querying") \/ MoveTo(w, "affecting")
    BY <1>3, <2>0 DEF Explore, Asking
  <2> QED
    BY <1>3, <2>1, <1>c DEF Explore, Ahead, AtProvider
<1>4. CASE QueryAnswered(w) \/ AffectedAnswered(w) \/ Conclude(w)
  <2>1. \/ \E r \in {"none", "available", "unavailable", "stale", "error"} : Returns(w, r)
        \/ MoveTo(w, "affecting") \/ MoveTo(w, "revalidating") \/ MoveTo(w, "dependents")
    BY <1>4 DEF QueryAnswered, AffectedAnswered, Conclude, Asking, Revalidate
  <2> QED
    BY <1>4, <2>1, <1>c DEF QueryAnswered, AffectedAnswered, Conclude, Ahead, AtProvider
<1>5. CASE ReadDependents(w)
  <2>1. \E read \in SUBSET Builds :
          flight' = [flight EXCEPT ![w].pc = "revalidating", ![w].answers = @ \cup read]
    BY <1>5 DEF ReadDependents, TypeInv, TypeOK, FenceTypeOK
  <2> QED
    BY <1>5, <2>1, <1>c DEF ReadDependents, Ahead, AtProvider
<1>6. CASE Finally(w)
  <2>1. /\ flight[w].pc \in Ahead /\ flight'[w].pc \in {"ended", "post"} /\ shuttingDown' = shuttingDown
        /\ \A v \in Callers \ {w} : flight'[v] = flight[v]
    BY <1>6, <1>a DEF Finally, LetGo, MoveTo, NoFlight, Ahead, AtProvider, Flights
  <2>2. \A v \in Callers : flight'[v].pc \in Holding => flight[v].pc \in Holding
    BY <2>1 DEF Holding
  <2>3. \A v \in Callers : flight'[v].pc \notin Ahead
    BY <2>1 DEF FlightInv, Holding, Ahead, AtProvider
  <2>4. ui.state # "callback" \/ flight[ui.flight].pc = "queued"
    BY DEF FlightInv
  <2>5. \A v \in Callers : flight[v].pc = "queued" => v = w \/ flight'[v].pc = "queued"
    BY <2>1
  <2>6. flight[w].pc # "queued"
    BY <1>6 DEF Finally
  <2> QED
    BY <1>6, <2>2, <2>3, <2>4, <2>5, <2>6 DEF Finally, FlightInv
<1>7. CASE Post(w) \/ PostFails(w)
  <2>1. /\ flight[w].pc \in {"post", "queued"} /\ flight'[w].pc \in {"queued", "release"}
        /\ flight[w].pc = "queued" => ui.state = "closed"
        /\ \A v \in Callers \ {w} : flight'[v] = flight[v]
    BY <1>7, <1>a, <1>d DEF Post, PostFails, MoveTo, Flights
  <2>2. \A v \in Callers : flight'[v].pc \in Holding => flight[v].pc \in Holding
    BY <2>1 DEF Holding
  <2>3. \A v \in Callers : flight'[v].pc \in Ahead => flight[v].pc \in Ahead
    BY <2>1 DEF Ahead, AtProvider
  <2>4. ui.state = "callback" => flight'[ui.flight].pc = "queued"
    BY <2>1 DEF FlightInv
  <2> QED
    BY <1>7, <2>2, <2>3, <2>4 DEF Post, PostFails, FlightInv
<1>8. CASE ReleaseIfCurrent(w)
  <2>1. /\ flight[w].pc = "release" /\ flight'[w].pc = "ended"
        /\ \A v \in Callers \ {w} : flight'[v] = flight[v]
    BY <1>8, <1>d DEF ReleaseIfCurrent
  <2>2. \A v \in Callers : flight'[v].pc \in Holding => flight[v].pc \in Holding /\ v # w
    BY <2>1 DEF Holding, Ahead, AtProvider
  <2>3. \A v \in Callers : flight'[v].pc \in Ahead => flight[v].pc \in Ahead
    BY <2>1 DEF Ahead, AtProvider
  <2>4. ui.state = "callback" => flight'[ui.flight].pc = "queued" /\ ui.flight # w
    BY <2>1 DEF FlightInv
  <2>5. (~shuttingDown /\ \E v \in Callers \ {w} : flight[v].pc \in Holding) => busy' = busy
    BY <1>8 DEF ReleaseIfCurrent, Released, FlightInv
  <2> QED
    BY <1>8, <2>2, <2>3, <2>4, <2>5 DEF ReleaseIfCurrent, FlightInv, Holding
<1> QED
  BY <1>1, <1>2, <1>3, <1>4, <1>5, <1>6, <1>7, <1>8 DEF Worker

(* Nobody else has a hand in the flights: an answer does not move one.     *)
LEMMA OutsideFlights ==
  ASSUME TypeInv, FlightInv, Environment \/ \E w \in Callers : Engine(w)
  PROVE  FlightInv'
<1>a. ASSUME UNCHANGED <<coordinator, flight, ui>> PROVE FlightInv'
  BY <1>a DEF FlightInv, coordinator
<1>1. CASE Environment
  BY <1>1, <1>a DEF Environment, Others
<1>2. ASSUME NEW w \in Callers, Engine(w) PROVE FlightInv'
  <2>1. CASE EngineQuery(w)
    <3>1. \A v \in Callers : flight'[v].pc = flight[v].pc
      BY <2>1 DEF EngineQuery, TypeInv, TypeOK, Flights
    <3> QED
      BY <2>1, <3>1 DEF EngineQuery, FlightInv, coordinator
  <2> QED
    BY <1>2, <1>a, <2>1 DEF Engine, Others
<1> QED
  BY <1>1, <1>2

(* The invariant holds when the observatory opens.                         *)
LEMMA InitFlights == Init => FlightInv
BY DEF Init, FlightInv, NoFlight, Holding, Ahead, AtProvider

(* Every step keeps the invariant.                                         *)
LEMMA StepFlights == TypeInv /\ FlightInv /\ [Next]_vars => FlightInv'
<1> SUFFICES ASSUME TypeInv, FlightInv, [Next]_vars PROVE FlightInv'
  OBVIOUS
<1>1. TypeInv'
  BY StepTypes
<1>2. CASE Next
  BY <1>1, <1>2, InterfaceFlights, WorkerFlights, OutsideFlights DEF Next
<1>3. CASE UNCHANGED vars
  BY <1>3 DEF vars, coordinator, FlightInv
<1> QED
  BY <1>2, <1>3

(* One flight at a time, whatever is cancelled and however often a flight  *)
(* is released.                                                            *)
THEOREM OneFlightAtATime == Spec => []OneFlight
<1>1. FlightInv => OneFlight
  BY DEF FlightInv, OneFlight, Holding, Ahead
<1> QED
  BY <1>1, InitTypes, StepTypes, InitFlights, StepFlights, PTL DEF Spec

-------------------------------------------------------------------------------
(***************************************************************************)
(* The answers are of the snapshot                                         *)
(***************************************************************************)
Preparing ==
  {"engine", "head_before", "config_before", "status", "sync", "post", "head_after", "config_after"}
Rechecking == {"recheck", "config_now", "head_now"}
Querying == {"querying", "affecting", "dependents"}
Asked == Querying \cup {"revalidating"}
Over == {"finally", "post", "queued"}

(* A flight, its fence and its call are at places that go together.        *)
InStep(fl, fe, c) ==
  /\ fe.pc \in Preparing => fl.pc = "preparing"
  /\ fe.pc \in Rechecking => fl.pc = "revalidating"
  /\ fe.pc = "sync" => c.op = "sync"
  /\ c.op \in {"explore", "affected"} => fl.pc \in {"querying", "affecting"}
  /\ fl.pc \in Querying => fe.pc = "done" /\ ~fe.valid
  /\ fl.pc \in Asked => fe.snapshot.status = "available"
  /\ fe.valid => fe.pc = "done" /\ fl.pc \in {"revalidating"} \cup Over
  /\ fl.pc \notin Asked \cup Over => fl.answers = {} /\ fl.result = "none"
  /\ fl.result = "available" => fl.pc \in Over
  /\ c.running => c.pc = "wait"
  /\ c.pc \notin {"idle", "done"} =>
       fe.pc \in {"status", "sync", "post", "recheck"} \/ fl.pc \in {"querying", "affecting"}
  /\ fl.pc \notin {"preparing"} \cup Asked \cup Over =>
       fe.head = 0 /\ fe.config = 0 /\ fe.snapshot.status # "available"

(* What a fence has read is no later than the repository; once the sync    *)
(* has worked, and from then on, no later than the index.                  *)
Within(fe, c) ==
  /\ fe.head <= head /\ fe.config <= config
  /\ fe.pc \in {"status", "sync", "post", "head_after", "config_after"} => fe.head # 0 /\ fe.config # 0
  /\ \/ fe.pc \in {"post", "head_after", "config_after"}
     \/ fe.pc = "sync" /\ (c.worked \/ c.rc = "zero")
     => fe.head <= index.head /\ fe.config <= index.config

(* All of it is read in the flight, and what an available snapshot names   *)
(* was in place between its beginning and the moment of the index.         *)
Since(fl, fe) ==
  /\ fl.since.head <= head /\ fl.since.config <= config
  /\ fe.head # 0 => fl.since.head <= fe.head
  /\ fe.config # 0 => fl.since.config <= fe.config
  /\ fe.pc = "config_after" => fe.later <= head
  /\ fe.pc = "head_now" => fe.later <= config
  /\ fe.snapshot.status = "available" =>
       /\ fe.snapshot.head <= head /\ fe.snapshot.config <= config
       /\ InPlace(seen.head, fe.snapshot.head, fl.since.head, index.head)
       /\ InPlace(seen.config, fe.snapshot.config, fl.since.config, index.config)

(* An answer's index is one of the past, later than a moment of what the   *)
(* snapshot names, and earlier than another once the revalidation held.    *)
Of(fl, fe) ==
  /\ \A b \in fl.answers :
       /\ fe.snapshot.status = "available"
       /\ b.head <= index.head /\ b.config <= index.config
       /\ InPlace(seen.head, fe.snapshot.head, fl.since.head, b.head)
       /\ InPlace(seen.config, fe.snapshot.config, fl.since.config, b.config)
  /\ fe.pc = "head_now" /\ fe.later # 0 => \A b \in fl.answers : b.config <= fe.later
  /\ fe.valid \/ fl.result = "available" =>
       \A b \in fl.answers :
         /\ InPlace(seen.head, fe.snapshot.head, b.head, head)
         /\ InPlace(seen.config, fe.snapshot.config, b.config, config)

(* Commits and configurations are numbered in time, and the index is of    *)
(* some moment before now.                                                 *)
Bounds ==
  /\ index.head <= head /\ index.config <= config
  /\ head <= changes + 1 /\ config <= changes + 1

AnswerInv ==
  /\ Bounds
  /\ \A w \in Callers :
       /\ InStep(flight[w], fence[w], call[w]) /\ Within(fence[w], call[w])
       /\ Since(flight[w], fence[w]) /\ Of(flight[w], fence[w])

(* Later moments come, and past ones keep what they put in place.          *)
Advance ==
  /\ head <= head' /\ config <= config'
  /\ index.head <= index'.head /\ index.config <= index'.config
  /\ \A m \in Versions : m <= head => seen'.head[m] = seen.head[m]
  /\ \A m \in Versions : m <= config => seen'.config[m] = seen.config[m]

(* What was in place up to some moment was so up to any later one.         *)
LEMMA InPlaceStays ==
  ASSUME NEW of, NEW kept, NEW m \in Readings, NEW from \in Nat, NEW to \in Nat,
         NEW later \in Nat, NEW now \in Nat, InPlace(of, m, from, to),
         to <= later, to <= now, m <= now,
         \A n \in Versions : n <= now => kept[n] = of[n]
  PROVE  InPlace(kept, m, from, later)
<1>1. Versions \subseteq Nat /\ m # 0 /\ m \in Versions
  BY MaxChangesAssumption DEF Versions, Readings, InPlace
<1>2. PICK n \in Versions : from <= n /\ n <= to /\ of[n] = of[m]
  BY DEF InPlace
<1>3. n <= later /\ n <= now
  BY <1>1, <1>2
<1>4. kept[n] = kept[m]
  BY <1>1, <1>2, <1>3
<1> QED
  BY <1>1, <1>2, <1>3, <1>4 DEF InPlace

(* The numbers the invariant compares are natural numbers.                 *)
LEMMA Numbers ==
  ASSUME TypeInv
  PROVE  /\ head \in Nat /\ config \in Nat /\ changes \in Nat
         /\ index.head \in Nat /\ index.config \in Nat
         /\ \A w \in Callers :
              /\ fence[w].head \in Nat /\ fence[w].config \in Nat /\ fence[w].later \in Nat
              /\ fence[w].snapshot.head \in Nat /\ fence[w].snapshot.config \in Nat
              /\ flight[w].since.head \in Nat /\ flight[w].since.config \in Nat
              /\ \A b \in flight[w].answers : b.head \in Nat /\ b.config \in Nat
<1>1. Versions \subseteq Nat /\ Readings \subseteq Nat /\ 0..MaxChanges \subseteq Nat
  BY MaxChangesAssumption DEF Versions, Readings
<1>2. \A b \in Builds : b.head \in Nat /\ b.config \in Nat
  BY <1>1 DEF Builds
<1>3. FenceTypeOK /\ flight \in [Callers -> Flights]
  BY DEF TypeInv, TypeOK
<1>4. ASSUME NEW w \in Callers
      PROVE  /\ fence[w].head \in Nat /\ fence[w].config \in Nat /\ fence[w].later \in Nat
             /\ fence[w].snapshot.head \in Nat /\ fence[w].snapshot.config \in Nat
             /\ flight[w].since.head \in Nat /\ flight[w].since.config \in Nat
             /\ \A b \in flight[w].answers : b.head \in Nat /\ b.config \in Nat
  <2>1. fence[w] \in Fences /\ flight[w] \in Flights
    BY <1>3 DEF FenceTypeOK
  <2>2. /\ fence[w].snapshot \in Snapshots /\ flight[w].answers \subseteq Builds
        /\ flight[w].since \in [head : Readings, config : Readings]
    BY <2>1 DEF Fences, Flights
  <2>3. fence[w].head \in Nat /\ fence[w].config \in Nat /\ fence[w].later \in Nat
    BY <2>1, <1>1 DEF Fences
  <2> QED
    BY <2>2, <2>3, <1>1, <1>2 DEF Snapshots
<1> QED
  BY <1>1, <1>2, <1>3, <1>4 DEF FenceTypeOK

(* What a flight that rests has keeps, while the repository and the index  *)
(* go on.                                                                  *)
LEMMA Rests ==
  ASSUME TypeInv, TypeInv', AnswerInv, Advance, NEW v \in Callers,
         flight'[v] = flight[v], fence'[v] = fence[v], call'[v] = call[v]
  PROVE  /\ InStep(flight[v], fence[v], call[v])'
         /\ Within(fence[v], call[v])'
         /\ Since(flight[v], fence[v])'
         /\ Of(flight[v], fence[v])'
<1> DEFINE s == fence[v].snapshot
           f == flight[v]
<1>a. /\ InStep(flight[v], fence[v], call[v]) /\ Within(fence[v], call[v])
      /\ Since(flight[v], fence[v]) /\ Of(flight[v], fence[v])
  BY DEF AnswerInv
<1>b. /\ head \in Nat /\ config \in Nat /\ head' \in Nat /\ config' \in Nat
      /\ index.head \in Nat /\ index.config \in Nat /\ index'.head \in Nat /\ index'.config \in Nat
      /\ fence[v].head \in Nat /\ fence[v].config \in Nat /\ fence[v].later \in Nat
      /\ s.head \in Nat /\ s.config \in Nat /\ f.since.head \in Nat /\ f.since.config \in Nat
      /\ \A b \in f.answers : b.head \in Nat /\ b.config \in Nat
  <2>1. head' \in Versions /\ config' \in Versions /\ index' \in Builds
    BY DEF TypeInv, TypeOK, FenceTypeOK
  <2>2. Versions \subseteq Nat
    BY MaxChangesAssumption DEF Versions
  <2> QED
    BY <2>1, <2>2, Numbers DEF Builds
<1>c. s.head \in Readings /\ s.config \in Readings
  BY DEF TypeInv, TypeOK, FenceTypeOK, Fences, Snapshots
<1>d. index.head <= head /\ index.config <= config
  BY DEF AnswerInv, Bounds
<1>e. ASSUME s.head <= head, NEW from \in Nat, NEW to \in Nat, NEW later \in Nat,
             InPlace(seen.head, s.head, from, to), to <= head, to <= later
      PROVE  InPlace(seen'.head, s.head, from, later)
  <2>1. \A n \in Versions : n <= head => seen'.head[n] = seen.head[n]
    BY DEF Advance
  <2> HIDE DEF s, f
  <2>2. s.head \in Readings /\ head \in Nat
    BY <1>b, <1>c
  <2> QED
    BY <1>e, <2>1, <2>2, InPlaceStays
<1>f. ASSUME s.config <= config, NEW from \in Nat, NEW to \in Nat, NEW later \in Nat,
             InPlace(seen.config, s.config, from, to), to <= config, to <= later
      PROVE  InPlace(seen'.config, s.config, from, later)
  <2>1. \A n \in Versions : n <= config => seen'.config[n] = seen.config[n]
    BY DEF Advance
  <2> HIDE DEF s, f
  <2>2. s.config \in Readings /\ config \in Nat
    BY <1>b, <1>c
  <2> QED
    BY <1>f, <2>1, <2>2, InPlaceStays
<1>1. InStep(flight[v], fence[v], call[v])'
  BY <1>a DEF InStep
<1>2. Within(fence[v], call[v])'
  BY <1>a, <1>b DEF Within, Advance
<1>3. Since(flight[v], fence[v])'
  <2>1. /\ f.since.head <= head' /\ f.since.config <= config'
        /\ fence[v].pc = "config_after" => fence[v].later <= head'
        /\ fence[v].pc = "head_now" => fence[v].later <= config'
    BY <1>a, <1>b DEF Since, Advance
  <2>2. ASSUME s.status = "available"
        PROVE  /\ s.head <= head' /\ s.config <= config'
               /\ InPlace(seen'.head, s.head, f.since.head, index'.head)
               /\ InPlace(seen'.config, s.config, f.since.config, index'.config)
    <3>1. /\ s.head <= head /\ s.config <= config
          /\ InPlace(seen.head, s.head, f.since.head, index.head)
          /\ InPlace(seen.config, s.config, f.since.config, index.config)
      BY <1>a, <2>2 DEF Since
    <3>2. head <= head' /\ config <= config' /\ index.head <= index'.head /\ index.config <= index'.config
      BY DEF Advance
    <3>3. InPlace(seen'.head, s.head, f.since.head, index'.head)
      BY <1>b, <1>d, <1>e, <3>1, <3>2
    <3>4. InPlace(seen'.config, s.config, f.since.config, index'.config)
      BY <1>b, <1>d, <1>f, <3>1, <3>2
    <3> QED
      BY <1>b, <3>1, <3>2, <3>3, <3>4
  <2> QED
    BY <1>a, <2>1, <2>2 DEF Since
<1>4. Of(flight[v], fence[v])'
  <2>1. ASSUME NEW b \in f.answers
        PROVE  /\ s.status = "available" /\ b.head <= index'.head /\ b.config <= index'.config
               /\ InPlace(seen'.head, s.head, f.since.head, b.head)
               /\ InPlace(seen'.config, s.config, f.since.config, b.config)
               /\ fence[v].valid \/ f.result = "available" =>
                    /\ InPlace(seen'.head, s.head, b.head, head')
                    /\ InPlace(seen'.config, s.config, b.config, config')
    <3>1. /\ s.status = "available" /\ b.head <= index.head /\ b.config <= index.config
          /\ InPlace(seen.head, s.head, f.since.head, b.head)
          /\ InPlace(seen.config, s.config, f.since.config, b.config)
      BY <1>a DEF Of
    <3>2. s.head <= head /\ s.config <= config
      BY <1>a, <3>1 DEF Since
    <3>3. /\ head <= head' /\ config <= config' /\ index.head <= index'.head /\ index.config <= index'.config
          /\ b.head \in Nat /\ b.config \in Nat
      BY <1>b DEF Advance
    <3>4. b.head <= head /\ b.config <= config /\ b.head <= index'.head /\ b.config <= index'.config
      BY <1>b, <1>d, <3>1, <3>3
    <3>5. InPlace(seen'.head, s.head, f.since.head, b.head)
      BY <1>b, <1>e, <3>1, <3>2, <3>3, <3>4
    <3>6. InPlace(seen'.config, s.config, f.since.config, b.config)
      BY <1>b, <1>f, <3>1, <3>2, <3>3, <3>4
    <3>7. ASSUME fence[v].valid \/ f.result = "available"
          PROVE  InPlace(seen'.head, s.head, b.head, head') /\ InPlace(seen'.config, s.config, b.config, config')
      <4>1. InPlace(seen.head, s.head, b.head, head) /\ InPlace(seen.config, s.config, b.config, config)
        BY <1>a, <3>7 DEF Of
      <4>2. InPlace(seen'.head, s.head, b.head, head')
        BY <1>b, <1>e, <3>2, <3>3, <4>1
      <4>3. InPlace(seen'.config, s.config, b.config, config')
        BY <1>b, <1>f, <3>2, <3>3, <4>1
      <4> QED
        BY <4>2, <4>3
    <3> QED
      BY <3>1, <3>4, <3>5, <3>6, <3>7
  <2>2. fence[v].pc = "head_now" /\ fence[v].later # 0 => \A b \in f.answers : b.config <= fence[v].later
    BY <1>a DEF Of
  <2> QED
    BY <2>1, <2>2 DEF Of
<1> QED
  BY <1>1, <1>2, <1>3, <1>4

(* So a step of one worker is looked at in that worker alone.              *)
LEMMA OneMoves ==
  ASSUME TypeInv, TypeInv', AnswerInv, Advance, Bounds', NEW w \in Callers,
         \A v \in Callers \ {w} :
           flight'[v] = flight[v] /\ fence'[v] = fence[v] /\ call'[v] = call[v],
         InStep(flight[w], fence[w], call[w])',
         Within(fence[w], call[w])',
         Since(flight[w], fence[w])',
         Of(flight[w], fence[w])'
  PROVE  AnswerInv'
<1>1. ASSUME NEW v \in Callers, v # w
      PROVE  /\ InStep(flight[v], fence[v], call[v])'
             /\ Within(fence[v], call[v])'
             /\ Since(flight[v], fence[v])'
             /\ Of(flight[v], fence[v])'
  BY <1>1, Rests
<1>2. \A v \in Callers :
        /\ InStep(flight[v], fence[v], call[v])' /\ Within(fence[v], call[v])'
        /\ Since(flight[v], fence[v])' /\ Of(flight[v], fence[v])'
  BY <1>1
<1> QED
  BY <1>2 DEF AnswerInv

(* Without a change of the repository or the index there is no advance to  *)
(* account for.                                                            *)
LEMMA StandStill ==
  ASSUME TypeInv, AnswerInv, UNCHANGED <<head, config, index, changes, seen>>
  PROVE  Advance /\ Bounds'
BY Numbers DEF Advance, AnswerInv, Bounds

(* While nothing else moves, readings that stand or are dropped are still  *)
(* readings of the flight.                                                 *)
LEMMA SinceStays ==
  ASSUME TypeInv, AnswerInv, NEW w \in Callers, UNCHANGED <<head, config, index, changes, seen>>,
         flight'[w].since = flight[w].since,
         fence'[w].head \in {fence[w].head, 0}, fence'[w].config \in {fence[w].config, 0},
         fence'[w].snapshot = fence[w].snapshot \/ fence'[w].snapshot.status # "available",
         \/ fence'[w].pc \notin {"config_after", "head_now"}
         \/ fence'[w].pc = fence[w].pc /\ fence'[w].later = fence[w].later
  PROVE  Since(flight[w], fence[w])'
<1>1. Since(flight[w], fence[w])
  BY DEF AnswerInv
<1> QED
  BY <1>1 DEF Since

(* How a call is made: it stays what it is for, is a success only of a     *)
(* process that worked, and runs only while it is waited for.              *)
LEMMA CallMoves ==
  ASSUME TypeInv, AnswerInv, NEW w \in Callers, CallSteps(w) \/ ProcessSteps(w)
  PROVE  /\ call'[w].op = call[w].op
         /\ call'[w].worked \/ call'[w].rc = "zero" => call[w].worked \/ call[w].rc = "zero"
         /\ call'[w].running => call'[w].pc = "wait"
         /\ call'[w].pc \notin {"idle", "done"} => call[w].pc \notin {"idle", "done"}
         /\ \A v \in Callers \ {w} : call'[v] = call[v]
<1>a. call \in [Callers -> Calls] /\ call[w] \in Calls
  BY DEF TypeInv, TypeOK, FenceTypeOK, BoundedTypeOK
<1>b. call[w].running => call[w].pc = "wait"
  BY DEF AnswerInv, InStep
<1> DEFINE Moves(d) ==
      /\ d.op = call[w].op
      /\ d.worked \/ d.rc = "zero" => call[w].worked \/ call[w].rc = "zero"
      /\ d.running => d.pc = "wait"
      /\ d.pc \notin {"idle", "done"} => call[w].pc \notin {"idle", "done"}
<1>c. \A e : Moves(Finished(call[w], e))
  BY <1>a DEF Finished, NoCall, Calls
<1>d. ASSUME NEW e, call[w].pc \in {"wait", "drain"}
      PROVE  \A d \in Killed(call[w], e) : Moves(d)
  <2>1. SUFFICES ASSUME NEW d \in Killed(call[w], e) PROVE Moves(d)
    OBVIOUS
  <2>2. PICK held \in {FALSE, call[w].piped} :
          d = [call[w] EXCEPT !.pc = "join", !.error = e, !.running = FALSE, !.piped = held,
                 !.late = FALSE, !.rc = IF call[w].running THEN "other" ELSE call[w].rc]
    BY <2>1 DEF Killed
  <2>3. /\ d.op = call[w].op /\ d.worked = call[w].worked /\ d.running = FALSE /\ d.pc = "join"
        /\ d.rc = IF call[w].running THEN "other" ELSE call[w].rc
    BY <2>2, <1>a DEF Calls
  <2>4. d.rc = "zero" => call[w].rc = "zero"
    BY <2>3
  <2> QED
    BY <2>3, <2>4, <1>d
<1>1. CASE CheckCancel(w) \/ Launch(w)
  <2>1. Moves(call'[w])
    <3>1. \/ call' = [call EXCEPT ![w] = Finished(@, "cancelled")] \/ call' = [call EXCEPT ![w] = Finished(@, "launch_failed")]
          \/ call'[w] = [call[w] EXCEPT !.pc = "spawn"] /\ call[w].pc = "check"
          \/ call'[w] = [call[w] EXCEPT !.pc = "wait", !.running = TRUE, !.piped = TRUE] /\ call[w].pc = "spawn"
      BY <1>1, <1>a DEF CheckCancel, Launch
    <3>2. ASSUME call'[w] = [call[w] EXCEPT !.pc = "spawn"], call[w].pc = "check" PROVE Moves(call'[w])
      BY <3>2, <1>a, <1>b DEF Calls
    <3>3. ASSUME call'[w] = [call[w] EXCEPT !.pc = "wait", !.running = TRUE, !.piped = TRUE], call[w].pc = "spawn"
          PROVE  Moves(call'[w])
      BY <3>3, <1>a DEF Calls
    <3>4. \A e : call' = [call EXCEPT ![w] = Finished(@, e)] => Moves(call'[w])
      BY <1>a, <1>c
    <3> QED
      BY <3>1, <3>2, <3>3, <3>4
  <2> QED
    BY <1>1, <1>a, <2>1 DEF CheckCancel, Launch
<1>2. CASE WaitForExit(w) \/ WaitForDrains(w)
  <2>1. \/ \E d \in Killed(call[w], StopReason(w)) : call' = [call EXCEPT ![w] = d]
        \/ call' = [call EXCEPT ![w] = Finished(@, "none")]
        \/ call' = [call EXCEPT ![w].pc = "drain"] /\ ~call[w].running
    BY <1>2 DEF WaitForExit, WaitForDrains
  <2>2. call[w].pc \in {"wait", "drain"}
    BY <1>2 DEF WaitForExit, WaitForDrains
  <2>3. Moves(call'[w])
    <3>1. ASSUME call' = [call EXCEPT ![w].pc = "drain"], ~call[w].running PROVE Moves(call'[w])
      BY <3>1, <2>2, <1>a DEF Calls
    <3> QED
      BY <2>1, <2>2, <3>1, <1>a, <1>c, <1>d
  <2> QED
    BY <2>1, <2>3, <1>a
<1>3. CASE JoinDrains(w)
  BY <1>3, <1>a, <1>c DEF JoinDrains
<1>4. CASE ProcessExits(w)
  <2>1. PICK rc \in {"zero", "other"} :
          (rc = "zero" => call[w].worked) /\ call' = [call EXCEPT ![w].running = FALSE, ![w].rc = rc]
    BY <1>4 DEF ProcessExits
  <2>2. /\ call'[w].op = call[w].op /\ call'[w].worked = call[w].worked /\ call'[w].rc = rc
        /\ call'[w].running = FALSE /\ call'[w].pc = call[w].pc
    BY <2>1, <1>a DEF Calls
  <2> QED
    BY <2>1, <2>2, <1>a
<1>5. CASE PipesClose(w) \/ DeadlinePasses(w)
  <2>1. /\ call'[w].op = call[w].op /\ call'[w].worked = call[w].worked /\ call'[w].rc = call[w].rc
        /\ call'[w].running = call[w].running /\ call'[w].pc = call[w].pc
    BY <1>5, <1>a DEF PipesClose, DeadlinePasses, Calls
  <2> QED
    BY <1>5, <2>1, <1>a, <1>b DEF PipesClose, DeadlinePasses
<1> QED
  BY <1>1, <1>2, <1>3, <1>4, <1>5 DEF CallSteps, ProcessSteps

(* Making a call keeps the invariant.                                      *)
LEMMA CallAnswers ==
  ASSUME TypeInv, TypeInv', AnswerInv, NEW w \in Callers, CallSteps(w) \/ ProcessSteps(w),
         Others, UNCHANGED <<head, config, tree, index, changes, seen, fence>>
  PROVE  AnswerInv'
<1>a. /\ InStep(flight[w], fence[w], call[w]) /\ Within(fence[w], call[w])
      /\ Since(flight[w], fence[w]) /\ Of(flight[w], fence[w])
  BY DEF AnswerInv
<1>b. flight' = flight
  BY DEF Others
<1>1. InStep(flight[w], fence[w], call[w])'
  BY <1>a, <1>b, CallMoves DEF InStep
<1>2. Within(fence[w], call[w])'
  BY <1>a, CallMoves DEF Within
<1>3. Of(flight[w], fence[w])'
  BY <1>a, <1>b DEF Of
<1>4. \A v \in Callers \ {w} :
        flight'[v] = flight[v] /\ fence'[v] = fence[v] /\ call'[v] = call[v]
  BY <1>b, CallMoves
<1>5. Since(flight[w], fence[w])'
  BY <1>b, SinceStays
<1> QED
  BY <1>1, <1>2, <1>3, <1>4, <1>5, OneMoves, StandStill

(* The engine builds the index from the repository as it stands, so an     *)
(* index only gets later.                                                  *)
LEMMA Rebuilt ==
  ASSUME TypeInv, AnswerInv, index' = Current, UNCHANGED <<head, config, changes, seen>>
  PROVE  Advance /\ Bounds' /\ index'.head = head /\ index'.config = config
<1>1. index'.head = head /\ index'.config = config
  BY DEF Current
<1>2. head \in Nat /\ config \in Nat /\ index.head \in Nat /\ index.config \in Nat
  BY Numbers
<1> QED
  BY <1>1, <1>2 DEF Advance, AnswerInv, Bounds

(* Commits, edits and syncs of others keep the invariant.                  *)
LEMMA EnvironmentAnswers ==
  ASSUME TypeInv, TypeInv', AnswerInv, Environment
  PROVE  AnswerInv'
<1>1. UNCHANGED <<flight, fence, call>>
  BY DEF Environment, Others, RepositoryMoves, Change, AnotherProcessSyncs, bvars
<1>2. Advance /\ Bounds'
  <2>1. CASE RepositoryMoves
    <3>1. PICK h \in BOOLEAN, c \in BOOLEAN, t \in BOOLEAN : Change(h, c, t)
      BY <2>1 DEF RepositoryMoves
    <3>2. /\ head' \in {head, changes + 2} /\ config' \in {config, changes + 2}
          /\ index' = index /\ changes' = changes + 1
      BY <3>1 DEF Change
    <3>3. /\ head \in Nat /\ config \in Nat /\ index.head \in Nat /\ index.config \in Nat
          /\ changes \in Nat /\ head <= changes + 1 /\ config <= changes + 1
          /\ index.head <= head /\ index.config <= config
      BY Numbers DEF AnswerInv, Bounds
    <3>4. Bounds'
      BY <3>2, <3>3 DEF Bounds
    <3>5. /\ \A m \in Versions : m <= head => seen'.head[m] = seen.head[m]
          /\ \A m \in Versions : m <= config => seen'.config[m] = seen.config[m]
      <4>1. \A m \in Versions : m <= changes + 1 =>
              seen'.head[m] = seen.head[m] /\ seen'.config[m] = seen.config[m]
        BY <3>1, ChangeMoves DEF TypeInv, TypeOK
      <4>2. Versions \subseteq Nat
        BY MaxChangesAssumption DEF Versions
      <4>3. \A m \in Versions : m <= head \/ m <= config => m <= changes + 1
        BY <3>3, <4>2
      <4> QED
        BY <4>1, <4>3
    <3>6. /\ head <= head' /\ config <= config'
          /\ index.head <= index'.head /\ index.config <= index'.config
      BY <3>2, <3>3
    <3> QED
      BY <3>4, <3>5, <3>6 DEF Advance
  <2>2. CASE AnotherProcessSyncs
    BY <2>2, Rebuilt DEF AnotherProcessSyncs
  <2> QED
    BY <2>1, <2>2 DEF Environment
<1>3. ASSUME NEW v \in Callers
      PROVE  /\ InStep(flight[v], fence[v], call[v])'
             /\ Within(fence[v], call[v])'
             /\ Since(flight[v], fence[v])'
             /\ Of(flight[v], fence[v])'
  BY <1>1, <1>2, Rests
<1>4. \A v \in Callers :
        /\ InStep(flight[v], fence[v], call[v])' /\ Within(fence[v], call[v])'
        /\ Since(flight[v], fence[v])' /\ Of(flight[v], fence[v])'
  BY <1>3
<1> QED
  BY <1>2, <1>4 DEF AnswerInv

(* What the engine does for a call: a status says something, a sync brings *)
(* the index up to what the fence has read, an answer is of the index.     *)
LEMMA EngineAnswers ==
  ASSUME TypeInv, TypeInv', AnswerInv, NEW w \in Callers, Engine(w)
  PROVE  AnswerInv'
<1>a. /\ InStep(flight[w], fence[w], call[w]) /\ Within(fence[w], call[w])
      /\ Since(flight[w], fence[w]) /\ Of(flight[w], fence[w])
  BY DEF AnswerInv
<1>b. /\ flight \in [Callers -> Flights] /\ fence \in [Callers -> Fences] /\ call \in [Callers -> Calls]
      /\ flight[w] \in Flights /\ fence[w] \in Fences /\ call[w] \in Calls
  BY DEF TypeInv, TypeOK, FenceTypeOK, BoundedTypeOK
<1>c. ASSUME call' = [call EXCEPT ![w].worked = TRUE]
      PROVE  /\ call'[w].op = call[w].op /\ call'[w].pc = call[w].pc /\ call'[w].running = call[w].running
             /\ \A v \in Callers \ {w} : call'[v] = call[v]
  BY <1>b, <1>c DEF Calls
<1>1. CASE ProcessSteps(w) /\ Others /\ UNCHANGED <<head, config, tree, index, changes, seen, fence>>
  BY <1>1, CallAnswers
<1>2. CASE EngineStatus(w) /\ Others
  <2>1. PICK s \in StatusAnswers : fence' = [fence EXCEPT ![w].said = s]
    BY <1>2 DEF EngineStatus
  <2>2. /\ fence'[w].pc = fence[w].pc /\ fence'[w].head = fence[w].head /\ fence'[w].config = fence[w].config
        /\ fence'[w].later = fence[w].later /\ fence'[w].snapshot = fence[w].snapshot
        /\ fence'[w].valid = fence[w].valid /\ \A v \in Callers \ {w} : fence'[v] = fence[v]
    BY <2>1, <1>b DEF Fences
  <2>3. call[w].op = "status" /\ flight' = flight /\ UNCHANGED <<head, config, index, changes, seen>>
    BY <1>2 DEF EngineStatus, Working, Others
  <2>4. InStep(flight[w], fence[w], call[w])'
    BY <1>2, <1>a, <1>c, <2>2, <2>3 DEF EngineStatus, InStep
  <2>5. Within(fence[w], call[w])'
    BY <1>a, <2>2, <2>3 DEF Within, InStep
  <2>6. Of(flight[w], fence[w])'
    BY <1>a, <2>2, <2>3 DEF Of
  <2>7. Since(flight[w], fence[w])'
    BY <2>2, <2>3, SinceStays
  <2> QED
    BY <1>2, <1>c, <2>2, <2>3, <2>4, <2>5, <2>6, <2>7, OneMoves, StandStill DEF EngineStatus
<1>3. CASE EngineSync(w) /\ Others
  <2>1. /\ Advance /\ Bounds' /\ index'.head = head /\ index'.config = config
        /\ flight' = flight /\ fence' = fence /\ UNCHANGED <<head, config, seen>>
    BY <1>3, Rebuilt DEF EngineSync, Others
  <2>2. /\ InStep(flight[w], fence[w], call[w])'
        /\ Of(flight[w], fence[w])'
    <3>1. InStep(flight[w], fence[w], call[w])'
      BY <1>3, <1>a, <1>c, <2>1 DEF EngineSync, InStep
    <3>2. /\ index.head \in Nat /\ index.config \in Nat /\ index.head <= index'.head /\ index.config <= index'.config
          /\ head \in Nat /\ config \in Nat /\ \A b \in flight[w].answers : b.head \in Nat /\ b.config \in Nat
      BY <2>1, Numbers DEF Advance
    <3>3. Of(flight[w], fence[w])'
      BY <1>a, <2>1, <3>2 DEF Of
    <3> QED
      BY <3>1, <3>3
  <2>3. Within(fence[w], call[w])'
    <3>1. /\ index.head \in Nat /\ index.config \in Nat /\ index.head <= head /\ index.config <= config
          /\ head \in Nat /\ config \in Nat
      BY Numbers DEF AnswerInv, Bounds
    <3> QED
      BY <1>a, <2>1, <3>1 DEF Within
  <2>4. Since(flight[w], fence[w])'
    <3> DEFINE f == flight[w]
               s == fence[w].snapshot
    <3>1. /\ s.head \in Readings /\ s.config \in Readings /\ f.since.head \in Nat /\ f.since.config \in Nat
          /\ index.head \in Nat /\ index.config \in Nat /\ head \in Nat /\ config \in Nat
          /\ index.head <= head /\ index.config <= config
      BY <1>b, Numbers DEF Fences, Snapshots, AnswerInv, Bounds
    <3>2. ASSUME s.status = "available"
          PROVE  InPlace(seen.head, s.head, f.since.head, head)
      <4>1. InPlace(seen.head, s.head, f.since.head, index.head) /\ s.head <= head
        BY <1>a, <3>2 DEF Since
      <4> HIDE DEF f, s
      <4> QED
        BY <3>1, <4>1, InPlaceStays
    <3>3. ASSUME s.status = "available"
          PROVE  InPlace(seen.config, s.config, f.since.config, config)
      <4>1. InPlace(seen.config, s.config, f.since.config, index.config) /\ s.config <= config
        BY <1>a, <3>3 DEF Since
      <4> HIDE DEF f, s
      <4> QED
        BY <3>1, <4>1, InPlaceStays
    <3> QED
      BY <1>a, <2>1, <3>2, <3>3 DEF Since
  <2> QED
    BY <1>3, <1>c, <2>1, <2>2, <2>3, <2>4, OneMoves DEF EngineSync
<1>4. CASE EngineQuery(w)
  <2>1. /\ flight'[w].pc = flight[w].pc /\ flight'[w].result = flight[w].result
        /\ flight'[w].answers = flight[w].answers \cup {index}
        /\ flight'[w].since = flight[w].since
        /\ \A v \in Callers \ {w} : flight'[v] = flight[v]
    BY <1>4, <1>b DEF EngineQuery, Flights
  <2>2. /\ flight[w].pc \in {"querying", "affecting"} /\ fence' = fence
        /\ UNCHANGED <<head, config, index, changes, seen>>
    BY <1>4, <1>a DEF EngineQuery, Working, InStep
  <2>7. Since(flight[w], fence[w])'
    BY <2>1, <2>2, SinceStays
  <2>3. /\ fence[w].pc = "done" /\ ~fence[w].valid /\ fence[w].snapshot.status = "available"
        /\ flight[w].result # "available"
    BY <1>a, <2>2 DEF InStep, Querying, Asked, Over
  <2>4. InStep(flight[w], fence[w], call[w])'
    BY <1>4, <1>a, <1>c, <2>1, <2>2 DEF EngineQuery, InStep, Querying, Asked, Over
  <2>5. Within(fence[w], call[w])'
    BY <1>a, <2>2, <2>3 DEF Within
  <2>6. Of(flight[w], fence[w])'
    <3>1. index.head \in Nat /\ index.config \in Nat
      BY Numbers
    <3>2. \A b \in flight'[w].answers : b \in flight[w].answers \/ b = index
      BY <2>1
    <3>3. /\ InPlace(seen.head, fence[w].snapshot.head, flight[w].since.head, index.head)
          /\ InPlace(seen.config, fence[w].snapshot.config, flight[w].since.config, index.config)
      BY <1>a, <2>3 DEF Since
    <3>4. \A b \in flight'[w].answers :
            /\ fence[w].snapshot.status = "available"
            /\ b.head <= index.head /\ b.config <= index.config
            /\ InPlace(seen.head, fence[w].snapshot.head, flight[w].since.head, b.head)
            /\ InPlace(seen.config, fence[w].snapshot.config, flight[w].since.config, b.config)
      BY <1>a, <2>3, <3>1, <3>2, <3>3 DEF Of
    <3> QED
      BY <2>1, <2>2, <2>3, <3>4 DEF Of
  <2> QED
    BY <1>4, <1>c, <2>1, <2>2, <2>4, <2>5, <2>6, <2>7, OneMoves, StandStill DEF EngineQuery
<1> QED
  BY <1>1, <1>2, <1>3, <1>4 DEF Engine

(* While a snapshot is prepared there are no answers to lose.              *)
LEMMA PreparingMoves ==
  ASSUME TypeInv, TypeInv', AnswerInv, NEW w \in Callers, flight[w].pc = "preparing", flight' = flight,
         UNCHANGED <<head, config, index, changes, seen>>,
         \A v \in Callers \ {w} : fence'[v] = fence[v] /\ call'[v] = call[v],
         fence'[w].pc \in Preparing \cup {"done"}, ~fence'[w].valid,
         fence'[w].pc = "sync" => call'[w].op = "sync",
         call'[w].op \notin {"explore", "affected"},
         call'[w].running => call'[w].pc = "wait",
         call'[w].pc \notin {"idle", "done"} => fence'[w].pc \in {"status", "sync", "post"},
         Within(fence[w], call[w])', Since(flight[w], fence[w])'
  PROVE  AnswerInv'
<1>a. InStep(flight[w], fence[w], call[w])
  BY DEF AnswerInv
<1>b. flight[w].answers = {} /\ flight[w].result = "none"
  BY <1>a DEF InStep, Asked, Querying, Over
<1>1. InStep(flight[w], fence[w], call[w])'
  BY <1>b DEF InStep, Preparing, Rechecking, Asked, Querying, Over
<1>2. Of(flight[w], fence[w])'
  BY <1>b DEF Of
<1> QED
  BY <1>1, <1>2, OneMoves, StandStill

(* The fence's way to a snapshot keeps the invariant.                      *)
LEMMA PrepareAnswers ==
  ASSUME TypeInv, TypeInv', AnswerInv, NEW w \in Callers, Others,
         \/ FindEngine(w) \/ ReadHeadBefore(w) \/ ReadConfigBefore(w) \/ SyncIndex(w)
         \/ StatusAfterSync(w) \/ AcceptStatus(w) \/ ReadHeadAfter(w) \/ CompareFences(w)
  PROVE  AnswerInv'
<1>a. /\ InStep(flight[w], fence[w], call[w]) /\ Within(fence[w], call[w])
      /\ Since(flight[w], fence[w])
  BY DEF AnswerInv
<1>b. /\ fence \in [Callers -> Fences] /\ call \in [Callers -> Calls]
      /\ fence[w] \in Fences /\ call[w] \in Calls
  BY DEF TypeInv, TypeOK, FenceTypeOK, BoundedTypeOK
<1>c. /\ head \in Nat /\ config \in Nat /\ index.head \in Nat /\ index.config \in Nat
      /\ fence[w].head \in Nat /\ fence[w].config \in Nat /\ fence[w].later \in Nat
      /\ index.head <= head /\ index.config <= config
  BY Numbers DEF AnswerInv, Bounds
<1>d. flight[w].pc = "preparing" /\ flight' = flight /\ fence[w].pc \in Preparing /\ ~fence[w].valid
      /\ call[w].op \notin {"explore", "affected"} /\ (call[w].running => call[w].pc = "wait")
  BY <1>a DEF FindEngine, ReadHeadBefore, ReadConfigBefore, SyncIndex, StatusAfterSync, AcceptStatus,
              ReadHeadAfter, CompareFences, At, InStep, Preparing, Others
<1>e. UNCHANGED <<head, config, index, changes, seen>>
  BY DEF FindEngine, ReadHeadBefore, ReadConfigBefore, SyncIndex, StatusAfterSync, AcceptStatus,
         ReadHeadAfter, CompareFences, Unchanged
<1>f. ASSUME NEW f, Goto(w, f) PROVE fence'[w] = f /\ \A v \in Callers \ {w} : fence'[v] = fence[v]
  BY <1>f, <1>b DEF Goto
<1>g. ASSUME NEW c, call' = [call EXCEPT ![w] = c]
      PROVE  call'[w] = c /\ \A v \in Callers \ {w} : call'[v] = call[v]
  BY <1>g, <1>b
<1>k. ASSUME fence'[w].head \in {fence[w].head, 0}, fence'[w].config \in {fence[w].config, 0},
             fence'[w].snapshot = fence[w].snapshot \/ fence'[w].snapshot.status # "available",
             fence'[w].pc \notin {"config_after", "head_now"}
      PROVE  Since(flight[w], fence[w])'
  BY <1>d, <1>e, <1>k, SinceStays
<1>h. ASSUME NEW s \in {"unavailable", "stale"}, NEW r, Goto(w, Refused(w, s, r)),
             \/ call' = call /\ call[w].pc \in {"idle", "done"}
             \/ call' = [call EXCEPT ![w] = NoCall]
      PROVE  AnswerInv'
  <2>1. /\ fence'[w].pc = "done" /\ ~fence'[w].valid /\ fence'[w].head = 0 /\ fence'[w].config = 0
        /\ fence'[w].snapshot.status = s
    BY <1>h, <1>b DEF Goto, Refused, NoFence
  <2>2. /\ call'[w].pc \in {"idle", "done"} /\ call'[w].op \notin {"explore", "affected"}
        /\ ~call'[w].running
        /\ \A v \in Callers \ {w} : call'[v] = call[v]
    BY <1>h, <1>g, <1>d DEF NoCall
  <2>3. Within(fence[w], call[w])'
    BY <2>1, <1>c, <1>e DEF Within
  <2>4. Since(flight[w], fence[w])'
    BY <2>1, <1>k
  <2> QED
    BY <1>d, <1>e, <1>f, <1>h, <2>1, <2>2, <2>3, <2>4, PreparingMoves
<1>i. ASSUME NEW f \in Fences, Goto(w, f), f.pc \in Preparing \cup {"done"}, ~f.valid,
             \/ /\ call' = call /\ f.pc # "sync"
                /\ call[w].pc \in {"idle", "done"}
             \/ /\ call' = [call EXCEPT ![w] = NoCall] /\ f.pc # "sync"
             \/ call' = [call EXCEPT ![w] = Calling("status")] /\ f.pc \in {"status", "post"}
             \/ call' = [call EXCEPT ![w] = Calling("sync")] /\ f.pc = "sync",
             Within(fence[w], call[w])', Since(flight[w], fence[w])'
      PROVE  AnswerInv'
  <2>1. fence'[w] = f /\ \A v \in Callers \ {w} : fence'[v] = fence[v]
    BY <1>i, <1>f
  <2>2. /\ f.pc = "sync" => call'[w].op = "sync"
        /\ call'[w].op \notin {"explore", "affected"}
        /\ call'[w].running => call'[w].pc = "wait"
        /\ call'[w].pc \notin {"idle", "done"} => f.pc \in {"status", "sync", "post"}
        /\ \A v \in Callers \ {w} : call'[v] = call[v]
    <3>1. \/ call'[w] = call[w] /\ f.pc # "sync" /\ call[w].pc \in {"idle", "done"}
          \/ call'[w] = NoCall /\ f.pc # "sync"
          \/ call'[w] = Calling("status") /\ f.pc \in {"status", "post"}
          \/ call'[w] = Calling("sync") /\ f.pc = "sync"
      BY <1>i, <1>b
    <3>2. \A v \in Callers \ {w} : call'[v] = call[v]
      BY <1>i, <1>b
    <3>3. NoCall.op = "none" /\ NoCall.pc = "idle" /\ ~NoCall.running
      BY DEF NoCall
    <3>4. \A op \in {"status", "sync"} :
            Calling(op).op = op /\ Calling(op).pc = "check" /\ ~Calling(op).running
      BY DEF Calling, NoCall
    <3> QED
      BY <3>1, <3>2, <3>3, <3>4, <1>d
  <2> QED
    BY <1>d, <1>e, <1>i, <2>1, <2>2, PreparingMoves
<1>j. fence[w].pc \notin {"status", "sync", "post"} => call[w].pc \in {"idle", "done"}
  BY <1>a, <1>d DEF InStep, Preparing
<1>1. CASE FindEngine(w)
  <2>1. CASE \E c : Goto(w, Refused(w, "unavailable", c))
    BY <2>1, <1>1, <1>h, <1>j DEF FindEngine, At
  <2>2. CASE Goto(w, [fence[w] EXCEPT !.pc = "head_before"])
    <3>1. [fence[w] EXCEPT !.pc = "head_before"] \in Fences
      BY <1>b DEF Fences
    <3>2. Within(fence[w], call[w])'
      BY <2>2, <1>1, <1>a, <1>b, <1>e, <1>f DEF FindEngine, Within, Fences, At
    <3>3. Since(flight[w], fence[w])'
      BY <2>2, <1>b, <1>f, <1>k DEF Fences
    <3> QED
      BY <2>2, <3>1, <3>2, <3>3, <1>1, <1>b, <1>d, <1>i, <1>j DEF FindEngine, At, Preparing, Fences
  <2> QED
    BY <1>1, <2>1, <2>2 DEF FindEngine
<1>2. CASE ReadHeadBefore(w)
  <2>1. PICK h \in {head, 0} : Goto(w, [fence[w] EXCEPT !.pc = "config_before", !.head = h])
    BY <1>2 DEF ReadHeadBefore
  <2>2. h \in Readings
    BY <2>1 DEF Readings, TypeInv, TypeOK, FenceTypeOK
  <2>3. [fence[w] EXCEPT !.pc = "config_before", !.head = h] \in Fences
    BY <2>2, <1>b DEF Fences
  <2>4. /\ fence'[w].pc = "config_before" /\ fence'[w].head = h /\ fence'[w].config = fence[w].config
        /\ fence'[w].snapshot = fence[w].snapshot
    BY <2>1, <1>b DEF Goto, Fences
  <2>5. h \in Nat /\ h <= head
    BY <1>c, <2>1
  <2>6. Within(fence[w], call[w])'
    BY <1>a, <1>e, <2>4, <2>5 DEF Within
  <2>7. ~[fence[w] EXCEPT !.pc = "config_before", !.head = h].valid
    BY <1>b, <1>d DEF Fences
  <2>8. [fence[w] EXCEPT !.pc = "config_before", !.head = h].pc = "config_before"
    BY <1>b DEF Fences
  <2>9. call' = call /\ call[w].pc \in {"idle", "done"}
    BY <1>2, <1>j DEF ReadHeadBefore, At
  <2>10. Since(flight[w], fence[w])'
    BY <1>a, <1>c, <1>d, <1>e, <2>1, <2>4 DEF Since
  <2> QED
    BY <2>1, <2>3, <2>6, <2>7, <2>8, <2>9, <2>10, <1>i DEF Preparing
<1>3. CASE ReadConfigBefore(w)
  <2>1. PICK c \in {config, 0} :
          IF c = 0 \/ fence[w].head = 0
          THEN Goto(w, Refused(w, "unavailable", c)) /\ UNCHANGED call
          ELSE /\ Goto(w, [fence[w] EXCEPT !.pc = "status", !.config = c])
               /\ call' = [call EXCEPT ![w] = Calling("status")]
    BY <1>3 DEF ReadConfigBefore
  <2>2. CASE c = 0 \/ fence[w].head = 0
    BY <2>1, <2>2, <1>3, <1>h, <1>j DEF ReadConfigBefore, At
  <2>3. CASE ~(c = 0 \/ fence[w].head = 0)
    <3>1. [fence[w] EXCEPT !.pc = "status", !.config = c] \in Fences
      BY <2>1, <1>b DEF Fences, Readings, TypeInv, TypeOK, FenceTypeOK
    <3>2. /\ fence'[w].pc = "status" /\ fence'[w].head = fence[w].head /\ fence'[w].config = c
          /\ fence'[w].snapshot = fence[w].snapshot
      <4>1. Goto(w, [fence[w] EXCEPT !.pc = "status", !.config = c])
        BY <2>1, <2>3
      <4> QED
        BY <4>1, <1>b DEF Goto, Fences
    <3>3. c \in Nat /\ c <= config /\ c # 0 /\ fence[w].head # 0
      BY <2>1, <2>3, <1>c
    <3>4. Within(fence[w], call[w])'
      BY <1>a, <1>e, <3>2, <3>3 DEF Within
    <3>5. ~[fence[w] EXCEPT !.pc = "status", !.config = c].valid
      BY <1>b, <1>d DEF Fences
    <3>6. [fence[w] EXCEPT !.pc = "status", !.config = c].pc = "status"
      BY <1>b DEF Fences
    <3>7. Since(flight[w], fence[w])'
      BY <1>a, <1>c, <1>d, <1>e, <2>1, <3>2 DEF Since
    <3> QED
      BY <2>1, <2>3, <3>1, <3>4, <3>5, <3>6, <3>7, <1>i DEF Preparing
  <2> QED
    BY <2>2, <2>3
<1>4. CASE SyncIndex(w)
  <2>1. CASE Goto(w, Refused(w, "unavailable", fence[w].config)) /\ call' = [call EXCEPT ![w] = NoCall]
    BY <2>1, <1>h
  <2>2. CASE /\ Goto(w, [fence[w] EXCEPT !.pc = "sync", !.said = "none"])
             /\ call' = [call EXCEPT ![w] = Calling("sync")]
    <3>1. [fence[w] EXCEPT !.pc = "sync", !.said = "none"] \in Fences
      BY <1>b DEF Fences
    <3>2. /\ fence'[w].pc = "sync" /\ fence'[w].head = fence[w].head /\ fence'[w].config = fence[w].config
          /\ fence'[w].snapshot = fence[w].snapshot
      BY <2>2, <1>b DEF Goto, Fences
    <3>3. ~call'[w].worked /\ call'[w].rc # "zero"
      BY <2>2, <1>b DEF Calling, NoCall
    <3>4. Within(fence[w], call[w])'
      BY <1>4, <1>a, <1>e, <3>2, <3>3 DEF SyncIndex, At, Within
    <3>5. ~[fence[w] EXCEPT !.pc = "sync", !.said = "none"].valid
      BY <1>b, <1>d DEF Fences
    <3>6. [fence[w] EXCEPT !.pc = "sync", !.said = "none"].pc = "sync"
      BY <1>b DEF Fences
    <3>7. Since(flight[w], fence[w])'
      BY <3>2, <1>k
    <3> QED
      BY <2>2, <3>1, <3>4, <3>5, <3>6, <3>7, <1>i DEF Preparing
  <2> QED
    BY <1>4, <2>1, <2>2 DEF SyncIndex
<1>5. CASE StatusAfterSync(w)
  <2>1. CASE Goto(w, Refused(w, "unavailable", fence[w].config)) /\ call' = [call EXCEPT ![w] = NoCall]
    BY <2>1, <1>h
  <2>2. CASE /\ Succeeded(call[w]) /\ Goto(w, [fence[w] EXCEPT !.pc = "post"])
             /\ call' = [call EXCEPT ![w] = Calling("status")]
    <3>1. [fence[w] EXCEPT !.pc = "post"] \in Fences
      BY <1>b DEF Fences
    <3>2. /\ fence'[w].pc = "post" /\ fence'[w].head = fence[w].head /\ fence'[w].config = fence[w].config
          /\ fence'[w].snapshot = fence[w].snapshot
      BY <2>2, <1>b DEF Goto, Fences
    <3>3. fence[w].head <= index.head /\ fence[w].config <= index.config
      BY <1>5, <2>2, <1>a DEF StatusAfterSync, At, Within, Succeeded
    <3>4. Within(fence[w], call[w])'
      BY <1>5, <1>a, <1>e, <3>2, <3>3 DEF StatusAfterSync, At, Within
    <3>5. ~[fence[w] EXCEPT !.pc = "post"].valid /\ [fence[w] EXCEPT !.pc = "post"].pc = "post"
      BY <1>b, <1>d DEF Fences
    <3>6. Since(flight[w], fence[w])'
      BY <3>2, <1>k
    <3> QED
      BY <2>2, <3>1, <3>4, <3>5, <3>6, <1>i DEF Preparing
  <2> QED
    BY <1>5, <2>1, <2>2 DEF StatusAfterSync
<1>6. CASE AcceptStatus(w)
  <2>1. call' = [call EXCEPT ![w] = NoCall]
    BY <1>6 DEF AcceptStatus
  <2>2. CASE \E s \in {"unavailable", "stale"} : Goto(w, Refused(w, s, fence[w].config))
    BY <2>1, <2>2, <1>h
  <2>3. CASE Goto(w, [fence[w] EXCEPT !.pc = "head_after", !.said = "none"])
    <3>1. [fence[w] EXCEPT !.pc = "head_after", !.said = "none"] \in Fences
      BY <1>b DEF Fences
    <3>2. /\ fence'[w].pc = "head_after" /\ fence'[w].head = fence[w].head
          /\ fence'[w].config = fence[w].config /\ fence'[w].snapshot = fence[w].snapshot
      BY <2>3, <1>b DEF Goto, Fences
    <3>3. Within(fence[w], call[w])'
      BY <1>6, <1>a, <1>e, <3>2 DEF AcceptStatus, At, Within
    <3>4. ~[fence[w] EXCEPT !.pc = "head_after", !.said = "none"].valid
          /\ [fence[w] EXCEPT !.pc = "head_after", !.said = "none"].pc = "head_after"
      BY <1>b, <1>d DEF Fences
    <3>5. Since(flight[w], fence[w])'
      BY <3>2, <1>k
    <3> QED
      BY <2>1, <2>3, <3>1, <3>3, <3>4, <3>5, <1>i DEF Preparing
  <2> QED
    BY <1>6, <2>2, <2>3 DEF AcceptStatus
<1>7. CASE ReadHeadAfter(w)
  <2>1. PICK h \in {head, 0} : Goto(w, [fence[w] EXCEPT !.pc = "config_after", !.later = h])
    BY <1>7 DEF ReadHeadAfter
  <2>2. [fence[w] EXCEPT !.pc = "config_after", !.later = h] \in Fences
    BY <2>1, <1>b DEF Fences, Readings, TypeInv, TypeOK, FenceTypeOK
  <2>3. /\ fence'[w].pc = "config_after" /\ fence'[w].head = fence[w].head
        /\ fence'[w].config = fence[w].config /\ fence'[w].snapshot = fence[w].snapshot
        /\ fence'[w].later = h
    BY <2>1, <1>b DEF Goto, Fences
  <2>4. Within(fence[w], call[w])'
    BY <1>7, <1>a, <1>e, <2>3 DEF ReadHeadAfter, At, Within
  <2>5. ~[fence[w] EXCEPT !.pc = "config_after", !.later = h].valid
        /\ [fence[w] EXCEPT !.pc = "config_after", !.later = h].pc = "config_after"
    BY <1>b, <1>d DEF Fences
  <2>6. call' = call /\ call[w].pc \in {"idle", "done"}
    BY <1>7, <1>j DEF ReadHeadAfter, At
  <2>7. Since(flight[w], fence[w])'
    BY <1>a, <1>c, <1>d, <1>e, <2>1, <2>3 DEF Since
  <2> QED
    BY <2>1, <2>2, <2>4, <2>5, <2>6, <2>7, <1>i DEF Preparing
<1>8. CASE CompareFences(w)
  <2>0. call' = call /\ call[w].pc \in {"idle", "done"} /\ fence[w].pc = "config_after"
    BY <1>8, <1>j DEF CompareFences, At
  <2> DEFINE kept(c) ==
        Commit(fence[w].head) = Commit(fence[w].later) /\ Digest(fence[w].config) = Digest(c)
  <2>1. PICK c \in {config, 0} :
          Goto(w,
            CASE c = 0 -> Refused(w, "unavailable", c)
              [] c # 0 /\ kept(c) ->
                   [NoFence EXCEPT !.pc = "done",
                      !.snapshot = [status |-> "available", head |-> fence[w].later, config |-> c]]
              [] c # 0 /\ ~kept(c) /\ fence[w].attempt = 0 ->
                   [NoFence EXCEPT !.pc = "head_before", !.attempt = 1]
              [] c # 0 /\ ~kept(c) /\ fence[w].attempt = 1 -> Refused(w, "stale", c))
    BY <1>8 DEF CompareFences
  <2> HIDE DEF kept
  <2>2. fence[w].attempt \in {0, 1}
    BY <1>b DEF Fences
  <2>3. CASE \E s \in {"unavailable", "stale"} : Goto(w, Refused(w, s, c))
    BY <2>0, <2>3, <1>h
  <2>4. CASE Goto(w, [NoFence EXCEPT !.pc = "head_before", !.attempt = 1])
    <3>1. /\ fence'[w].pc = "head_before" /\ fence'[w].head = 0 /\ fence'[w].config = 0
          /\ fence'[w].snapshot.status = "none" /\ ~fence'[w].valid
      BY <2>4, <1>b DEF Goto, NoFence, NoSnapshot
    <3>2. Within(fence[w], call[w])'
      BY <3>1, <1>c, <1>e DEF Within
    <3>3. Since(flight[w], fence[w])'
      BY <3>1, <1>k
    <3> QED
      BY <2>0, <2>4, <3>1, <3>2, <3>3, <1>d, <1>e, <1>f, PreparingMoves DEF Preparing
  <2>5. CASE /\ c # 0 /\ kept(c)
             /\ Goto(w, [NoFence EXCEPT !.pc = "done",
                           !.snapshot = [status |-> "available", head |-> fence[w].later, config |-> c]])
    <3>1. /\ fence'[w].pc = "done" /\ fence'[w].head = 0 /\ fence'[w].config = 0 /\ ~fence'[w].valid
          /\ fence'[w].snapshot = [status |-> "available", head |-> fence[w].later, config |-> c]
      BY <2>5, <1>b DEF Goto, NoFence
    <3>2. /\ fence[w].head # 0 /\ fence[w].config # 0
          /\ fence[w].head <= index.head /\ fence[w].config <= index.config
      BY <1>a, <2>0 DEF Within
    <3>3. Within(fence[w], call[w])'
      BY <3>1, <1>c, <1>e DEF Within
    <3>4. /\ seen.head[fence[w].head] = Commit(fence[w].later)
          /\ seen.config[fence[w].config] = seen.config[c]
      BY <2>5, <3>2 DEF kept, Commit, Digest
    <3>5. fence[w].head \in Versions /\ fence[w].config \in Versions
      BY <1>b, <3>2 DEF Fences, Readings
    <3>6. fence[w].later # 0 /\ seen.head[fence[w].later] = seen.head[fence[w].head]
      <4>1. seen.head[fence[w].head] \in Versions
        BY <3>5 DEF TypeInv, TypeOK, FenceTypeOK
      <4>2. 0 \notin Versions
        BY MaxChangesAssumption DEF Versions
      <4> QED
        BY <3>4, <4>1, <4>2 DEF Commit
    <3>7. InPlace(seen.head, fence[w].later, flight[w].since.head, index.head)
      <4>1. flight[w].since.head <= fence[w].head
        BY <1>a, <3>2 DEF Since
      <4> QED
        BY <3>2, <3>5, <3>6, <4>1 DEF InPlace
    <3>8. InPlace(seen.config, c, flight[w].since.config, index.config)
      <4>1. flight[w].since.config <= fence[w].config
        BY <1>a, <3>2 DEF Since
      <4> QED
        BY <2>5, <3>2, <3>4, <3>5, <4>1 DEF InPlace
    <3>9. Since(flight[w], fence[w])'
      <4>1. fence[w].later <= head /\ c <= config
        BY <1>a, <1>c, <2>0, <2>1, <2>5 DEF Since
      <4> QED
        BY <1>a, <1>d, <1>e, <3>1, <3>7, <3>8, <4>1 DEF Since
    <3> QED
      BY <2>0, <2>5, <3>1, <3>3, <3>9, <1>d, <1>e, <1>f, PreparingMoves
  <2> QED
    BY <2>1, <2>2, <2>3, <2>4, <2>5
<1> QED
  BY <1>1, <1>2, <1>3, <1>4, <1>5, <1>6, <1>7, <1>8

(* While a snapshot is looked at again its answers stand, and nothing      *)
(* calls the engine for more.                                              *)
LEMMA RecheckingMoves ==
  ASSUME TypeInv, TypeInv', AnswerInv, NEW w \in Callers, flight[w].pc = "revalidating", flight' = flight,
         UNCHANGED <<head, config, index, changes, seen>>,
         \A v \in Callers \ {w} : fence'[v] = fence[v] /\ call'[v] = call[v],
         fence'[w].pc \in Rechecking \cup {"done"}, fence'[w].valid => fence'[w].pc = "done",
         fence'[w].snapshot = fence[w].snapshot,
         fence'[w].head \in {fence[w].head, 0}, fence'[w].config \in {fence[w].config, 0},
         call'[w].op \notin {"explore", "affected"}, ~call'[w].running, call'[w].pc \in {"idle", "done"},
         fence'[w].pc = "head_now" => fence'[w].later <= config,
         fence'[w].pc = "head_now" /\ fence'[w].later # 0 => \A b \in flight[w].answers : b.config <= fence'[w].later,
         fence'[w].valid => \A b \in flight[w].answers :
                              /\ InPlace(seen.head, fence[w].snapshot.head, b.head, head)
                              /\ InPlace(seen.config, fence[w].snapshot.config, b.config, config)
  PROVE  AnswerInv'
<1>a. /\ InStep(flight[w], fence[w], call[w]) /\ Within(fence[w], call[w])
      /\ Since(flight[w], fence[w]) /\ Of(flight[w], fence[w])
  BY DEF AnswerInv
<1>b. fence[w].snapshot.status = "available" /\ flight[w].result # "available"
  BY <1>a DEF InStep, Asked, Querying, Over
<1>1. InStep(flight[w], fence[w], call[w])'
  BY <1>b DEF InStep, Preparing, Rechecking, Asked, Querying, Over
<1>2. Within(fence[w], call[w])'
  <2>1. fence'[w].head <= head /\ fence'[w].config <= config
    BY <1>a, Numbers DEF Within
  <2> QED
    BY <1>a, <1>b, <2>1 DEF Within, Rechecking
<1>3. Of(flight[w], fence[w])'
  BY <1>a, <1>b DEF Of
<1>4. Since(flight[w], fence[w])'
  BY <1>a DEF Since, Rechecking
<1> QED
  BY <1>1, <1>2, <1>3, <1>4, OneMoves, StandStill

(* The revalidation reads the configuration and HEAD after the last        *)
(* answer: equal to the snapshot's, they leave the answers no room.        *)
LEMMA RecheckAnswers ==
  ASSUME TypeInv, TypeInv', AnswerInv, NEW w \in Callers, Others,
         Recheck(w) \/ ReadConfigNow(w) \/ CompareNow(w)
  PROVE  AnswerInv'
<1>a. /\ InStep(flight[w], fence[w], call[w]) /\ Within(fence[w], call[w])
      /\ Since(flight[w], fence[w]) /\ Of(flight[w], fence[w])
  BY DEF AnswerInv
<1>b. /\ fence \in [Callers -> Fences] /\ call \in [Callers -> Calls]
      /\ fence[w] \in Fences /\ call[w] \in Calls
  BY DEF TypeInv, TypeOK, FenceTypeOK, BoundedTypeOK
<1>c. /\ flight[w].pc = "revalidating" /\ flight' = flight /\ ~fence[w].valid
      /\ call[w].op \notin {"explore", "affected"} /\ (call[w].running => call[w].pc = "wait")
      /\ fence[w].snapshot.status = "available"
  BY <1>a DEF Recheck, ReadConfigNow, CompareNow, At, InStep, Rechecking, Others, Asked
<1>d. UNCHANGED <<head, config, index, changes, seen>>
  BY DEF Recheck, ReadConfigNow, CompareNow, Unchanged
<1>e. /\ head \in Nat /\ config \in Nat /\ index.head \in Nat /\ index.config \in Nat
      /\ index.head <= head /\ index.config <= config
      /\ fence[w].snapshot.head \in Nat /\ fence[w].snapshot.config \in Nat /\ fence[w].later \in Nat
      /\ \A b \in flight[w].answers : b.head \in Nat /\ b.config \in Nat
  BY Numbers DEF AnswerInv, Bounds
<1>f. ASSUME NEW v \in BOOLEAN, Goto(w, Judged(w, v))
      PROVE  /\ fence'[w].pc = "done" /\ fence'[w].valid = v /\ fence'[w].snapshot = fence[w].snapshot
             /\ fence'[w].head = 0 /\ fence'[w].config = 0
             /\ \A u \in Callers \ {w} : fence'[u] = fence[u]
  BY <1>f, <1>b DEF Goto, Judged, NoFence
<1>1. CASE Recheck(w)
  <2>1. call' = [call EXCEPT ![w] = NoCall]
    BY <1>1 DEF Recheck
  <2>2. /\ call'[w].op = "none" /\ ~call'[w].running /\ call'[w].pc = "idle"
        /\ \A v \in Callers \ {w} : call'[v] = call[v]
    BY <2>1, <1>b DEF NoCall
  <2>3. CASE Goto(w, Judged(w, FALSE))
    <3>1. /\ fence'[w].pc = "done" /\ ~fence'[w].valid /\ fence'[w].snapshot = fence[w].snapshot
          /\ fence'[w].head = 0 /\ fence'[w].config = 0
          /\ \A u \in Callers \ {w} : fence'[u] = fence[u]
      BY <2>3, <1>f
    <3> QED
      BY <2>2, <3>1, <1>c, <1>d, RecheckingMoves
  <2>4. CASE Goto(w, [fence[w] EXCEPT !.pc = "config_now", !.said = "none"])
    <3>1. /\ fence'[w].pc = "config_now" /\ fence'[w].valid = fence[w].valid
          /\ fence'[w].snapshot = fence[w].snapshot
          /\ fence'[w].head = fence[w].head /\ fence'[w].config = fence[w].config
          /\ \A u \in Callers \ {w} : fence'[u] = fence[u]
      BY <2>4, <1>b DEF Goto, Fences
    <3> QED
      BY <2>2, <3>1, <1>c, <1>d, RecheckingMoves DEF Rechecking
  <2> QED
    BY <1>1, <2>3, <2>4 DEF Recheck
<1>g. ASSUME fence[w].pc \in {"config_now", "head_now"}, call' = call
      PROVE  ~call'[w].running /\ call'[w].pc \in {"idle", "done"} /\ call'[w].op \notin {"explore", "affected"}
  BY <1>a, <1>c, <1>g DEF InStep
<1>2. CASE ReadConfigNow(w)
  <2>1. PICK c \in {config, 0} : Goto(w, [fence[w] EXCEPT !.pc = "head_now", !.later = c])
    BY <1>2 DEF ReadConfigNow
  <2>2. /\ fence'[w].pc = "head_now" /\ fence'[w].valid = fence[w].valid
        /\ fence'[w].snapshot = fence[w].snapshot /\ fence'[w].later = c
        /\ fence'[w].head = fence[w].head /\ fence'[w].config = fence[w].config
        /\ \A u \in Callers \ {w} : fence'[u] = fence[u]
    BY <2>1, <1>b DEF Goto, Fences
  <2>3. \A b \in flight[w].answers : b.config <= config
    BY <1>a, <1>e DEF Of
  <2>4. c # 0 => \A b \in flight[w].answers : b.config <= c
    BY <2>1, <2>3
  <2>5. call' = call /\ fence[w].pc = "config_now"
    BY <1>2 DEF ReadConfigNow, At
  <2>6. c <= config
    BY <1>e, <2>1
  <2> QED
    BY <2>2, <2>4, <2>5, <2>6, <1>c, <1>d, <1>g, RecheckingMoves DEF Rechecking
<1>3. CASE CompareNow(w)
  <2> DEFINE s == fence[w].snapshot
             held(h) == Commit(h) = Commit(s.head) /\ Digest(fence[w].later) = Digest(s.config)
  <2>1. PICK h \in {head, 0} : Goto(w, Judged(w, held(h)))
    BY <1>3 DEF CompareNow
  <2>2. /\ fence'[w].pc = "done" /\ fence'[w].valid = held(h) /\ fence'[w].snapshot = s
        /\ fence'[w].head = 0 /\ fence'[w].config = 0
        /\ \A u \in Callers \ {w} : fence'[u] = fence[u]
    BY <2>1, <1>f
  <2>3. call' = call /\ fence[w].pc = "head_now"
    BY <1>3 DEF CompareNow, At
  <2>4. ASSUME held(h), NEW b \in flight[w].answers
        PROVE  InPlace(seen.head, s.head, b.head, head) /\ InPlace(seen.config, s.config, b.config, config)
    <3>1. s.head # 0 /\ s.config # 0 /\ s.head \in Versions /\ s.config \in Versions
      <4>1. s.head # 0 /\ s.config # 0
        BY <1>a, <1>c DEF Since, InPlace
      <4>2. s \in Snapshots
        BY <1>b DEF Fences
      <4> QED
        BY <4>1, <4>2 DEF Snapshots, Readings
    <3>2. seen.head[s.head] \in Versions /\ seen.config[s.config] \in Versions /\ 0 \notin Versions
      <4>1. seen.head \in [Versions -> Versions] /\ seen.config \in [Versions -> Versions]
        BY DEF TypeInv, TypeOK, FenceTypeOK
      <4>2. 0 \notin Versions
        BY MaxChangesAssumption DEF Versions
      <4> QED
        BY <3>1, <4>1, <4>2
    <3>3. h = head /\ seen.head[head] = seen.head[s.head] /\ head \in Versions
      <4>1. h # 0
        BY <2>4, <3>1, <3>2 DEF Commit
      <4> QED
        BY <2>1, <2>4, <3>1, <4>1 DEF Commit, TypeInv, TypeOK, FenceTypeOK
    <3>4. fence[w].later # 0 /\ seen.config[fence[w].later] = seen.config[s.config]
      BY <2>4, <3>1, <3>2 DEF Digest
    <3>5. fence[w].later \in Versions /\ fence[w].later <= config /\ b.config <= fence[w].later
      BY <1>a, <1>b, <2>3, <3>4 DEF Fences, Readings, Since, Of
    <3>6. b.head <= head
      <4>1. b.head <= index.head
        BY <1>a DEF Of
      <4> QED
        BY <1>e, <4>1
    <3>7. InPlace(seen.head, s.head, b.head, head)
      BY <1>e, <3>1, <3>3, <3>6 DEF InPlace
    <3>8. InPlace(seen.config, s.config, b.config, config)
      BY <3>1, <3>4, <3>5 DEF InPlace
    <3> QED
      BY <3>7, <3>8
  <2> HIDE DEF held
  <2>5. fence'[w].valid => \A b \in flight[w].answers :
          /\ InPlace(seen.head, fence[w].snapshot.head, b.head, head)
          /\ InPlace(seen.config, fence[w].snapshot.config, b.config, config)
    BY <2>2, <2>4
  <2> QED
    BY <2>2, <2>3, <2>5, <1>c, <1>d, <1>g, RecheckingMoves
<1> QED
  BY <1>1, <1>2, <1>3

(* A flight on which nothing is at work goes on without an answer more.    *)
LEMMA QuietMoves ==
  ASSUME TypeInv, TypeInv', AnswerInv, NEW w \in Callers,
         UNCHANGED <<head, config, index, changes, seen, fence, call>>,
         \A v \in Callers \ {w} : flight'[v] = flight[v],
         flight[w].pc \notin Asked,
         flight[w].pc = "preparing" => fence[w].pc = "done",
         flight'[w].pc \in {"factory", "publish", "ended"} \cup Over,
         flight[w].pc \in {"preparing"} \cup Over => flight'[w].pc \in Over,
         \/ /\ flight'[w].answers = flight[w].answers /\ flight'[w].result = flight[w].result
            /\ flight'[w].since = flight[w].since
         \/ /\ flight'[w].answers = {} /\ flight'[w].result = "none" /\ flight'[w].pc \notin Over
            /\ flight'[w].since.head = 0 /\ flight'[w].since.config = 0
  PROVE  AnswerInv'
<1>a. /\ InStep(flight[w], fence[w], call[w]) /\ Within(fence[w], call[w])
      /\ Since(flight[w], fence[w]) /\ Of(flight[w], fence[w])
  BY DEF AnswerInv
<1>1. InStep(flight[w], fence[w], call[w])'
  <2>1. /\ fence[w].pc \notin Preparing /\ fence[w].pc \notin Rechecking
        /\ call[w].op \notin {"explore", "affected"}
        /\ call[w].pc \in {"idle", "done"}
    BY <1>a DEF InStep, Preparing, Rechecking, Asked, Querying
  <2>2. fence[w].valid => flight'[w].pc \in Over
    BY <1>a DEF InStep, Asked
  <2>3. flight'[w].pc \notin Over => flight'[w].answers = {} /\ flight'[w].result = "none"
    BY <1>a DEF InStep, Asked
  <2>4. flight'[w].pc \notin Asked
    BY DEF Asked, Querying, Over
  <2> QED
    BY <1>a, <2>1, <2>2, <2>3, <2>4 DEF InStep, Preparing, Rechecking, Asked, Querying
<1>2. Within(fence[w], call[w])'
  BY <1>a DEF Within
<1>3. Of(flight[w], fence[w])'
  BY <1>a DEF Of
<1>4. Since(flight[w], fence[w])'
  <2>1. CASE flight'[w].since = flight[w].since
    BY <2>1, <1>a DEF Since
  <2>2. CASE /\ flight'[w].pc \notin Over
             /\ flight'[w].since.head = 0 /\ flight'[w].since.config = 0
    <3>1. fence[w].head = 0 /\ fence[w].config = 0 /\ fence[w].snapshot.status # "available"
      BY <2>2, <1>a DEF InStep
    <3>2. 0 <= head /\ 0 <= config
      BY Numbers
    <3> QED
      BY <2>2, <1>a, <3>1, <3>2 DEF Since
  <2> QED
    BY <2>1, <2>2
<1> QED
  BY <1>1, <1>2, <1>3, <1>4, OneMoves, StandStill

(* A flight that is let go keeps nothing.                                  *)
LEMMA LetGoMoves ==
  ASSUME TypeInv, TypeInv', AnswerInv, NEW w \in Callers, NEW pc \in {"ended", "release"}, LetGo(w, pc),
         UNCHANGED Elsewhere, flight[w].pc \in Over
  PROVE  AnswerInv'
<1>a. InStep(flight[w], fence[w], call[w])
  BY DEF AnswerInv
<1>b. UNCHANGED <<head, config, index, changes, seen, call>>
  BY DEF Elsewhere, bvars
<1>1. /\ flight'[w].pc = pc /\ flight'[w].answers = {} /\ flight'[w].result = "none"
      /\ flight'[w].since = [head |-> 0, config |-> 0]
      /\ fence'[w].pc = "idle" /\ ~fence'[w].valid /\ fence'[w].head = 0 /\ fence'[w].config = 0
      /\ fence'[w].snapshot.status = "none"
      /\ \A v \in Callers \ {w} : flight'[v] = flight[v] /\ fence'[v] = fence[v]
  <2>1. flight \in [Callers -> Flights] /\ fence \in [Callers -> Fences]
    BY DEF TypeInv, TypeOK, FenceTypeOK
  <2> QED
    BY <2>1 DEF LetGo, NoFlight, NoFence, NoSnapshot
<1>2. InStep(flight[w], fence[w], call[w])'
  <2>1. call[w].op \notin {"explore", "affected"} /\ call[w].pc \in {"idle", "done"} /\ ~call[w].running
    BY <1>a DEF InStep, Preparing, Rechecking, Over
  <2> QED
    BY <1>1, <1>b, <2>1 DEF InStep, Preparing, Rechecking, Asked, Querying, Over
<1>3. Within(fence[w], call[w])'
  BY <1>1, <1>b, Numbers DEF Within
<1>4. Of(flight[w], fence[w])'
  BY <1>1 DEF Of
<1>5. Since(flight[w], fence[w])'
  BY <1>1, <1>b, Numbers DEF Since
<1> QED
  BY <1>1, <1>2, <1>3, <1>4, <1>5, <1>b, OneMoves, StandStill

(* The user's commands and the UI thread's deliveries keep the invariant.  *)
LEMMA InterfaceAnswers ==
  ASSUME TypeInv, TypeInv', FlightInv, AnswerInv, Interface
  PROVE  AnswerInv'
<1>a. flight \in [Callers -> Flights]
  BY DEF TypeInv, TypeOK
<1>1. CASE Cancel \/ CancelExplorer \/ WaitForProvider \/ Close
  <2>1. UNCHANGED <<head, config, index, changes, seen, flight, fence, call>>
    BY <1>1 DEF Cancel, CancelExplorer, WaitForProvider, Close, fvars, bvars
  <2> QED
    BY <2>1 DEF AnswerInv, Bounds, Within, Since, Of, InStep
<1>2. CASE Start
  <2>1. generation + 1 \in Callers
    BY <1>2, CallersAssumption DEF Start, TypeInv, TypeOK
  <2>2. flight[generation + 1].pc \notin Holding
    BY <1>2, <2>1 DEF Start, FlightInv
  <2>3. /\ flight'[generation + 1].pc = "factory" /\ flight'[generation + 1].answers = {}
        /\ flight'[generation + 1].result = "none"
        /\ flight'[generation + 1].since = [head |-> 0, config |-> 0]
        /\ \A v \in Callers \ {generation + 1} : flight'[v] = flight[v]
    BY <1>2, <1>a, <2>1 DEF Start, NoFlight
  <2>4. UNCHANGED <<head, config, index, changes, seen, fence, call>>
    BY <1>2 DEF Start, fvars, bvars
  <2>5. flight[generation + 1].pc \notin Asked /\ flight[generation + 1].pc # "preparing"
        /\ flight[generation + 1].pc \notin Over
    BY <2>2 DEF Holding, Ahead, AtProvider, Asked, Querying, Over
  <2> QED
    BY <2>1, <2>3, <2>4, <2>5, QuietMoves DEF Over
<1>3. ASSUME NEW w \in Callers, DeliverIfCurrent(w) PROVE AnswerInv'
  <2>1. CASE IsCurrent(w)
    <3>1. UNCHANGED <<head, config, index, changes, seen, flight, fence, call>>
      BY <1>3, <2>1 DEF DeliverIfCurrent, Elsewhere, bvars
    <3> QED
      BY <3>1 DEF AnswerInv, Bounds, Within, Since, Of, InStep
  <2>2. CASE ~IsCurrent(w)
    BY <1>3, <2>2, LetGoMoves DEF DeliverIfCurrent, Over
  <2> QED
    BY <2>1, <2>2
<1>4. ASSUME NEW w \in Callers, CallbackEnds(w) PROVE AnswerInv'
  <2>1. flight[w].pc = "queued"
    BY <1>4 DEF CallbackEnds, FlightInv
  <2>2. LetGo(w, "ended") \/ LetGo(w, "release")
    BY <1>4 DEF CallbackEnds
  <2>3. UNCHANGED Elsewhere
    BY <1>4 DEF CallbackEnds, Elsewhere
  <2> QED
    BY <2>1, <2>2, <2>3, LetGoMoves DEF Over
<1> QED
  BY <1>1, <1>2, <1>3, <1>4 DEF Interface

(* explore returns: "available" only what the revalidation held.           *)
LEMMA ReturnMoves ==
  ASSUME TypeInv, TypeInv', AnswerInv, NEW w \in Callers, NEW r, Returns(w, r),
         UNCHANGED <<head, config, index, changes, seen>>,
         flight[w].pc \in Asked \cup {"preparing"}, fence[w].pc = "done",
         r = "available" => fence[w].valid
  PROVE  AnswerInv'
<1>a. /\ InStep(flight[w], fence[w], call[w]) /\ Within(fence[w], call[w])
      /\ Since(flight[w], fence[w]) /\ Of(flight[w], fence[w])
  BY DEF AnswerInv
<1>1. /\ flight'[w].pc = "finally" /\ flight'[w].result = r /\ flight'[w].answers = flight[w].answers
      /\ flight'[w].since = flight[w].since
      /\ fence' = fence /\ call'[w].op = "none" /\ call'[w].pc = "idle" /\ ~call'[w].running
      /\ \A v \in Callers \ {w} : flight'[v] = flight[v] /\ call'[v] = call[v]
  <2>1. flight \in [Callers -> Flights] /\ call \in [Callers -> Calls]
    BY DEF TypeInv, TypeOK, FenceTypeOK, BoundedTypeOK
  <2>2. /\ flight' = [flight EXCEPT ![w].pc = "finally", ![w].result = r, ![w].callback = "on_result"]
        /\ call' = [call EXCEPT ![w] = NoCall] /\ fence' = fence
    BY DEF Returns
  <2>3. /\ flight'[w].pc = "finally" /\ flight'[w].result = r /\ flight'[w].answers = flight[w].answers
        /\ flight'[w].since = flight[w].since
        /\ \A v \in Callers \ {w} : flight'[v] = flight[v]
    BY <2>1, <2>2 DEF Flights
  <2> QED
    BY <2>1, <2>2, <2>3 DEF NoCall
<1>2. InStep(flight[w], fence[w], call[w])'
  BY <1>a, <1>1 DEF InStep, Preparing, Rechecking, Asked, Querying, Over
<1>3. Within(fence[w], call[w])'
  BY <1>a, <1>1 DEF Within
<1>4. Of(flight[w], fence[w])'
  BY <1>a, <1>1 DEF Of
<1>5. Since(flight[w], fence[w])'
  BY <1>1, SinceStays
<1> QED
  BY <1>1, <1>2, <1>3, <1>4, <1>5, OneMoves, StandStill

(* A query is asked of an available snapshot.                              *)
LEMMA AskMoves ==
  ASSUME TypeInv, TypeInv', AnswerInv, NEW w \in Callers,
         NEW pc \in {"querying", "affecting"}, NEW op \in {"explore", "affected"}, Asking(w, pc, op),
         UNCHANGED <<head, config, index, changes, seen>>,
         flight[w].pc \in {"preparing", "querying"}, fence[w].pc = "done",
         fence[w].snapshot.status = "available"
  PROVE  AnswerInv'
<1>a. /\ InStep(flight[w], fence[w], call[w]) /\ Within(fence[w], call[w])
      /\ Since(flight[w], fence[w]) /\ Of(flight[w], fence[w])
  BY DEF AnswerInv
<1>1. /\ flight'[w].pc = pc /\ flight'[w].answers = flight[w].answers
      /\ flight'[w].result = flight[w].result /\ flight'[w].since = flight[w].since /\ fence' = fence
      /\ ~call'[w].running
      /\ \A v \in Callers \ {w} : flight'[v] = flight[v] /\ call'[v] = call[v]
  <2>1. flight \in [Callers -> Flights] /\ call \in [Callers -> Calls]
    BY DEF TypeInv, TypeOK, FenceTypeOK, BoundedTypeOK
  <2>2. flight' = [flight EXCEPT ![w].pc = pc] /\ call' = [call EXCEPT ![w] = Calling(op)] /\ fence' = fence
    BY DEF Asking, MoveTo
  <2>3. /\ flight'[w].pc = pc /\ flight'[w].result = flight[w].result
        /\ flight'[w].since = flight[w].since
        /\ flight'[w].answers = flight[w].answers /\ \A v \in Callers \ {w} : flight'[v] = flight[v]
    BY <2>1, <2>2 DEF Flights
  <2> QED
    BY <2>1, <2>2, <2>3 DEF Calling, NoCall
<1>2. InStep(flight[w], fence[w], call[w])'
  BY <1>a, <1>1 DEF InStep, Preparing, Rechecking, Asked, Querying, Over
<1>3. Within(fence[w], call[w])'
  BY <1>a, <1>1 DEF Within
<1>4. Of(flight[w], fence[w])'
  BY <1>a, <1>1 DEF Of, InStep, Asked, Querying, Over
<1>5. Since(flight[w], fence[w])'
  BY <1>1, SinceStays
<1> QED
  BY <1>1, <1>2, <1>3, <1>4, <1>5, OneMoves, StandStill

(* After the queries: the dependents, which read the index as it stands,   *)
(* and the revalidation.                                                   *)
LEMMA AfterMoves ==
  ASSUME TypeInv, TypeInv', AnswerInv, NEW w \in Callers, NEW read \in {{index}, {}},
         UNCHANGED <<head, config, index, changes, seen>>, flight[w].pc \in Querying,
         flight'[w].pc \in {"dependents", "revalidating"},
         flight'[w].answers = flight[w].answers \cup read, flight'[w].result = flight[w].result,
         flight'[w].since = flight[w].since,
         \A v \in Callers \ {w} : flight'[v] = flight[v] /\ fence'[v] = fence[v] /\ call'[v] = call[v],
         \/ fence'[w] = fence[w] /\ call'[w].pc \in {"idle", "done"}
         \/ /\ fence' = [fence EXCEPT ![w].pc = "recheck", ![w].said = "none"]
            /\ flight'[w].pc = "revalidating"
         \/ /\ fence' = [fence EXCEPT ![w].pc = "done", ![w].valid = FALSE]
            /\ call'[w].pc \in {"idle", "done"},
         ~call'[w].running, call'[w].op \notin {"explore", "affected"}
  PROVE  AnswerInv'
<1>a. /\ InStep(flight[w], fence[w], call[w]) /\ Within(fence[w], call[w])
      /\ Since(flight[w], fence[w]) /\ Of(flight[w], fence[w])
  BY DEF AnswerInv
<1>b. /\ fence[w].pc = "done" /\ ~fence[w].valid /\ fence[w].snapshot.status = "available"
      /\ flight[w].result # "available"
  BY <1>a DEF InStep, Asked, Querying, Over
<1>1. /\ fence'[w].snapshot = fence[w].snapshot /\ fence'[w].head = fence[w].head
      /\ fence'[w].config = fence[w].config /\ ~fence'[w].valid
      /\ fence'[w].pc \in {"done", "recheck"}
      /\ fence'[w].pc = "recheck" => flight'[w].pc = "revalidating"
      /\ fence'[w].pc = "done" => call'[w].pc \in {"idle", "done"}
      /\ flight'[w].pc = "dependents" => fence'[w].pc = "done"
  <2>1. fence \in [Callers -> Fences]
    BY DEF TypeInv, TypeOK, FenceTypeOK
  <2>2. CASE fence'[w] = fence[w] /\ call'[w].pc \in {"idle", "done"}
    BY <2>2, <1>b
  <2>3. CASE /\ fence' = [fence EXCEPT ![w].pc = "recheck", ![w].said = "none"]
             /\ flight'[w].pc = "revalidating"
    BY <2>1, <2>3, <1>b DEF Fences
  <2>4. CASE /\ fence' = [fence EXCEPT ![w].pc = "done", ![w].valid = FALSE]
             /\ call'[w].pc \in {"idle", "done"}
    BY <2>1, <2>4, <1>b DEF Fences
  <2> QED
    BY <2>2, <2>3, <2>4
<1>2. InStep(flight[w], fence[w], call[w])'
  BY <1>a, <1>b, <1>1 DEF InStep, Preparing, Rechecking, Asked, Querying, Over
<1>3. Within(fence[w], call[w])'
  BY <1>a, <1>b, <1>1 DEF Within
<1>4. Of(flight[w], fence[w])'
  <2>1. \A b \in flight'[w].answers : b \in flight[w].answers \/ b = index
    OBVIOUS
  <2>2. index.head \in Nat /\ index.config \in Nat
    BY Numbers
  <2>3. /\ InPlace(seen.head, fence[w].snapshot.head, flight[w].since.head, index.head)
        /\ InPlace(seen.config, fence[w].snapshot.config, flight[w].since.config, index.config)
    BY <1>a, <1>b DEF Since
  <2>4. \A b \in flight'[w].answers :
          /\ fence[w].snapshot.status = "available"
          /\ b.head <= index.head /\ b.config <= index.config
          /\ InPlace(seen.head, fence[w].snapshot.head, flight[w].since.head, b.head)
          /\ InPlace(seen.config, fence[w].snapshot.config, flight[w].since.config, b.config)
    BY <1>a, <1>b, <2>1, <2>2, <2>3 DEF Of
  <2> QED
    BY <1>b, <1>1, <2>4 DEF Of
<1>5. Since(flight[w], fence[w])'
  BY <1>1, SinceStays
<1> QED
  BY <1>2, <1>3, <1>4, <1>5, OneMoves, StandStill

(* The worker's own steps keep the invariant.                              *)
LEMMA WorkerAnswers ==
  ASSUME TypeInv, TypeInv', FlightInv, AnswerInv, NEW w \in Callers, Worker(w)
  PROVE  AnswerInv'
<1>a. /\ InStep(flight[w], fence[w], call[w]) /\ Within(fence[w], call[w])
      /\ Since(flight[w], fence[w]) /\ Of(flight[w], fence[w])
  BY DEF AnswerInv
<1>b. /\ flight \in [Callers -> Flights] /\ fence \in [Callers -> Fences] /\ call \in [Callers -> Calls]
      /\ flight[w] \in Flights
  BY DEF TypeInv, TypeOK, FenceTypeOK, BoundedTypeOK
<1>c. ASSUME NEW pc, MoveTo(w, pc)
      PROVE  /\ flight'[w].pc = pc /\ flight'[w].answers = flight[w].answers
             /\ flight'[w].since = flight[w].since
             /\ flight'[w].result = flight[w].result /\ \A v \in Callers \ {w} : flight'[v] = flight[v]
  BY <1>b, <1>c DEF MoveTo, Flights
<1>1. CASE CallSteps(w) /\ Others /\ UNCHANGED <<head, config, tree, index, changes, seen, fence>>
  BY <1>1, CallAnswers
<1>2. CASE FenceSteps(w) /\ Others
  BY <1>2, PrepareAnswers, RecheckAnswers DEF FenceSteps
<1>3. CASE MakeExplorer(w)
  <2>1. /\ flight'[w].pc \in {"publish", "finally"} /\ flight[w].pc = "factory"
        /\ flight'[w].answers = flight[w].answers /\ flight'[w].since = flight[w].since
        /\ flight'[w].result = flight[w].result /\ \A v \in Callers \ {w} : flight'[v] = flight[v]
    BY <1>3, <1>c DEF MakeExplorer
  <2>2. UNCHANGED <<head, config, index, changes, seen, fence, call>>
    BY <1>3 DEF MakeExplorer, fvars, bvars
  <2> QED
    BY <2>1, <2>2, QuietMoves DEF Asked, Querying, Over
<1>4. CASE Publish(w)
  <2>1. CASE shuttingDown
    <3>1. MoveTo(w, "finally") /\ flight[w].pc = "publish" /\ UNCHANGED <<head, config, index, changes, seen, fence, call>>
      BY <1>4, <2>1 DEF Publish
    <3> QED
      BY <3>1, <1>c, QuietMoves DEF Asked, Querying, Over
  <2>2. CASE ~shuttingDown
    <3>1. /\ fence' = [fence EXCEPT ![w].pc = "engine"]
          /\ flight' = [flight EXCEPT ![w].pc = "preparing",
                                      ![w].since = [head |-> head, config |-> config]]
          /\ UNCHANGED <<head, config, index, changes, seen, call>> /\ flight[w].pc = "publish"
      BY <1>4, <2>2 DEF Publish
    <3>2. /\ fence'[w].pc = "engine" /\ fence'[w].head = fence[w].head /\ fence'[w].config = fence[w].config
          /\ fence'[w].snapshot = fence[w].snapshot /\ fence'[w].valid = fence[w].valid
          /\ \A v \in Callers \ {w} : fence'[v] = fence[v]
      BY <1>b, <3>1 DEF Fences
    <3>3. /\ flight'[w].pc = "preparing" /\ flight'[w].answers = {} /\ flight'[w].result = "none"
          /\ flight'[w].since = [head |-> head, config |-> config]
          /\ \A v \in Callers \ {w} : flight'[v] = flight[v]
      <4>1. flight[w].answers = {} /\ flight[w].result = "none"
        BY <1>a, <3>1 DEF InStep, Asked, Querying, Over
      <4> QED
        BY <1>b, <3>1, <4>1 DEF Flights
    <3>4. call[w].op \notin {"explore", "affected"} /\ call[w].pc \in {"idle", "done"} /\ ~fence[w].valid
      BY <1>a, <3>1 DEF InStep, Preparing, Rechecking, Over
    <3>5. InStep(flight[w], fence[w], call[w])'
      BY <1>a, <3>1, <3>2, <3>3, <3>4 DEF InStep, Preparing, Rechecking, Asked, Querying, Over
    <3>6. Within(fence[w], call[w])'
      BY <1>a, <3>1, <3>2 DEF Within
    <3>7. Of(flight[w], fence[w])'
      BY <3>3 DEF Of
    <3>8. Since(flight[w], fence[w])'
      <4>1. fence[w].head = 0 /\ fence[w].config = 0 /\ fence[w].snapshot.status # "available"
        BY <1>a, <3>1 DEF InStep, Asked, Querying, Over
      <4>2. flight'[w].since.head <= head' /\ flight'[w].since.config <= config'
        <5>1. /\ flight'[w].since.head = head /\ flight'[w].since.config = config
              /\ head' = head /\ config' = config
          <6>1. flight'[w].since = [head |-> head, config |-> config]
            BY <3>3
          <6>2. head' = head /\ config' = config
            BY <3>1
          <6> QED
            BY <6>1, <6>2
        <5>2. head \in Nat /\ config \in Nat
          BY Numbers
        <5> QED
          BY <5>1, <5>2
      <4>3. /\ fence'[w].pc = "engine" /\ fence'[w].head = 0 /\ fence'[w].config = 0
            /\ fence'[w].snapshot.status # "available"
        BY <3>2, <4>1
      <4> QED
        BY <4>2, <4>3 DEF Since
    <3> QED
      BY <3>1, <3>2, <3>3, <3>5, <3>6, <3>7, <3>8, OneMoves, StandStill
  <2> QED
    BY <2>1, <2>2
<1>5. CASE AbandonPrepared(w)
  <2>1. /\ MoveTo(w, "finally") /\ flight[w].pc = "preparing" /\ fence[w].pc = "done"
        /\ UNCHANGED <<head, config, index, changes, seen, fence, call>>
    BY <1>5 DEF AbandonPrepared
  <2> QED
    BY <2>1, <1>c, QuietMoves DEF Asked, Querying, Over
<1>6. CASE Explore(w)
  <2>1. /\ flight[w].pc = "preparing" /\ fence[w].pc = "done" /\ UNCHANGED <<head, config, index, changes, seen>>
    BY <1>6 DEF Explore
  <2>2. \/ \E r : r # "available" /\ Returns(w, r)
        \/ /\ fence[w].snapshot.status = "available"
           /\ Asking(w, "querying", "explore") \/ Asking(w, "affecting", "affected")
    BY <1>6 DEF Explore
  <2> QED
    BY <2>1, <2>2, ReturnMoves, AskMoves
<1>7. CASE QueryAnswered(w)
  <2>1. /\ flight[w].pc = "querying" /\ call[w].pc = "done" /\ UNCHANGED <<head, config, index, changes, seen>>
        /\ fence[w].pc = "done" /\ fence[w].snapshot.status = "available"
    BY <1>7, <1>a DEF QueryAnswered, InStep, Asked, Querying
  <2>2. Returns(w, "error") \/ Asking(w, "affecting", "affected") \/ Revalidate(w)
    BY <1>7 DEF QueryAnswered
  <2>3. CASE Revalidate(w)
    <3>1. /\ flight'[w].pc = "revalidating" /\ flight'[w].answers = flight[w].answers \cup {}
          /\ flight'[w].result = flight[w].result /\ flight'[w].since = flight[w].since
          /\ \A v \in Callers \ {w} : flight'[v] = flight[v]
      BY <2>3, <1>c DEF Revalidate
    <3>2. /\ call'[w].pc \in {"check", "idle"} /\ ~call'[w].running /\ call'[w].op \in {"status", "none"}
          /\ \A v \in Callers \ {w} : fence'[v] = fence[v] /\ call'[v] = call[v]
      <4>1. \A v \in Callers \ {w} : fence'[v] = fence[v] /\ call'[v] = call[v]
        BY <2>3, <1>b DEF Revalidate
      <4>2. call'[w] = Calling("status") \/ call'[w] = NoCall
        BY <2>3, <1>b DEF Revalidate
      <4> QED
        <5>1. NoCall.pc = "idle" /\ ~NoCall.running /\ NoCall.op = "none"
          BY DEF NoCall
        <5>2. Calling("status").pc = "check" /\ ~Calling("status").running /\ Calling("status").op = "status"
          BY DEF Calling, NoCall
        <5> QED
          BY <4>1, <4>2, <5>1, <5>2
    <3>3. \/ fence' = [fence EXCEPT ![w].pc = "recheck", ![w].said = "none"]
          \/ /\ fence' = [fence EXCEPT ![w].pc = "done", ![w].valid = FALSE]
             /\ call'[w].pc = "idle"
      BY <2>3, <1>b DEF Revalidate, NoCall
    <3> QED
      BY <2>1, <3>1, <3>2, <3>3, AfterMoves DEF Querying
  <2> QED
    BY <2>1, <2>2, <2>3, ReturnMoves, AskMoves DEF Asked, Querying
<1>8. CASE AffectedAnswered(w)
  <2>1. /\ flight[w].pc = "affecting" /\ UNCHANGED <<head, config, index, changes, seen>>
        /\ fence[w].pc = "done"
    BY <1>8, <1>a DEF AffectedAnswered, InStep, Querying
  <2>2. CASE Returns(w, "error")
    BY <2>1, <2>2, ReturnMoves DEF Asked, Querying
  <2>3. CASE MoveTo(w, "dependents") /\ call' = [call EXCEPT ![w] = NoCall] /\ UNCHANGED fence
    <3>1. /\ flight'[w].pc = "dependents" /\ flight'[w].answers = flight[w].answers \cup {}
          /\ flight'[w].result = flight[w].result /\ flight'[w].since = flight[w].since
          /\ \A v \in Callers \ {w} : flight'[v] = flight[v]
      BY <2>3, <1>c
    <3>2. /\ call'[w].pc = "idle" /\ ~call'[w].running /\ call'[w].op = "none"
          /\ fence' = fence /\ \A v \in Callers \ {w} : call'[v] = call[v]
      BY <2>3, <1>b DEF NoCall
    <3> QED
      BY <2>1, <3>1, <3>2, AfterMoves DEF Querying
  <2> QED
    BY <1>8, <2>2, <2>3 DEF AffectedAnswered
<1>9. CASE ReadDependents(w)
  <2>1. PICK read \in {{index}, {}} :
          flight' = [flight EXCEPT ![w].pc = "revalidating", ![w].answers = @ \cup read]
    BY <1>9 DEF ReadDependents
  <2>2. /\ flight'[w].pc = "revalidating" /\ flight'[w].answers = flight[w].answers \cup read
        /\ flight'[w].result = flight[w].result /\ flight'[w].since = flight[w].since
        /\ \A v \in Callers \ {w} : flight'[v] = flight[v]
    BY <2>1, <1>b DEF Flights
  <2>3. /\ flight[w].pc = "dependents" /\ UNCHANGED <<head, config, index, changes, seen>>
        /\ call[w].pc \in {"idle", "done"} /\ ~call[w].running /\ call[w].op \notin {"explore", "affected"}
    BY <1>9, <1>a DEF ReadDependents, InStep, Querying
  <2>4. \/ /\ fence' = [fence EXCEPT ![w].pc = "recheck", ![w].said = "none"]
           /\ call' = [call EXCEPT ![w] = Calling("status")]
        \/ fence' = [fence EXCEPT ![w].pc = "done", ![w].valid = FALSE] /\ call' = call
    BY <1>9 DEF ReadDependents
  <2>5. /\ ~call'[w].running /\ call'[w].op \notin {"explore", "affected"}
        /\ \A v \in Callers \ {w} : fence'[v] = fence[v] /\ call'[v] = call[v]
    BY <2>3, <2>4, <1>b DEF Calling, NoCall
  <2> QED
    BY <2>2, <2>3, <2>4, <2>5, AfterMoves DEF Querying
<1>10. CASE Conclude(w)
  <2>1. /\ flight[w].pc = "revalidating" /\ fence[w].pc = "done" /\ UNCHANGED <<head, config, index, changes, seen>>
        /\ \E r : (r = "available" => fence[w].valid) /\ Returns(w, r)
    BY <1>10 DEF Conclude
  <2> QED
    BY <2>1, ReturnMoves DEF Asked
<1>11. CASE Finally(w)
  <2>1. flight[w].pc = "finally" /\ UNCHANGED Elsewhere
    BY <1>11 DEF Finally, Elsewhere
  <2>2. LetGo(w, "ended") \/ (MoveTo(w, "post") /\ UNCHANGED fence)
    BY <1>11 DEF Finally
  <2> QED
    BY <2>1, <2>2, <1>c, LetGoMoves, QuietMoves DEF Elsewhere, bvars, Asked, Querying, Over
<1>12. CASE Post(w) \/ PostFails(w)
  <2>1. flight[w].pc \in {"post", "queued"} /\ UNCHANGED Elsewhere
    BY <1>12 DEF Post, PostFails, Elsewhere
  <2>2. LetGo(w, "release") \/ (MoveTo(w, "queued") /\ UNCHANGED fence)
    BY <1>12 DEF Post, PostFails
  <2> QED
    BY <2>1, <2>2, <1>c, LetGoMoves, QuietMoves DEF Elsewhere, bvars, Asked, Querying, Over
<1>13. CASE ReleaseIfCurrent(w)
  <2>1. /\ flight[w].pc = "release" /\ MoveTo(w, "ended")
        /\ UNCHANGED <<head, config, index, changes, seen, fence, call>>
    BY <1>13 DEF ReleaseIfCurrent, fvars, bvars
  <2> QED
    BY <2>1, <1>c, QuietMoves DEF Asked, Querying, Over
<1> QED
  BY <1>1, <1>2, <1>3, <1>4, <1>5, <1>6, <1>7, <1>8, <1>9, <1>10, <1>11, <1>12, <1>13 DEF Worker

(* The invariant holds when the observatory opens.                         *)
LEMMA InitAnswers == Init => AnswerInv
BY DEF Init, FenceInit, BoundedInit, NoFlight, NoFence, NoSnapshot, NoCall, AnswerInv, Bounds, InStep,
       Within, Since, Of, Preparing, Rechecking, Asked, Querying, Over

(* Every step keeps the invariant.                                         *)
LEMMA StepAnswers == TypeInv /\ FlightInv /\ AnswerInv /\ [Next]_vars => AnswerInv'
<1> SUFFICES ASSUME TypeInv, FlightInv, AnswerInv, [Next]_vars PROVE AnswerInv'
  OBVIOUS
<1>1. TypeInv'
  BY StepTypes
<1>2. CASE Next
  BY <1>1, <1>2, InterfaceAnswers, EnvironmentAnswers, WorkerAnswers, EngineAnswers DEF Next
<1>3. CASE UNCHANGED vars
  <2>1. UNCHANGED <<head, config, index, changes, seen, flight, fence, call>>
    BY <1>3 DEF vars, fvars, bvars
  <2> QED
    BY <2>1 DEF AnswerInv, Bounds, Within, Since, Of, InStep
<1> QED
  BY <1>2, <1>3

(* An available result shown was answered from indexes built between two   *)
(* moments of the flight at which the snapshot's commit was checked out,   *)
(* and two at which its configuration was in place, whatever went, came    *)
(* back and was synced meanwhile.                                          *)
THEOREM AnswersHoldTheSnapshot == Spec => []AnswersAreOfTheSnapshot
<1>1. FlightInv /\ AnswerInv => AnswersAreOfTheSnapshot
  <2> SUFFICES ASSUME FlightInv, AnswerInv, ui.state = "callback"
               PROVE  LET f == flight[ui.flight]
                          s == fence[ui.flight].snapshot
                      IN  f.callback = "on_result" /\ f.result = "available" =>
                            \A b \in f.answers :
                              /\ InPlace(seen.head, s.head, f.since.head, b.head)
                              /\ InPlace(seen.head, s.head, b.head, head)
                              /\ InPlace(seen.config, s.config, f.since.config, b.config)
                              /\ InPlace(seen.config, s.config, b.config, config)
    BY DEF AnswersAreOfTheSnapshot
  <2>1. ui.flight \in Callers
    BY DEF FlightInv
  <2> QED
    BY <2>1 DEF AnswerInv, Of
<1> QED
  BY <1>1, InitTypes, StepTypes, InitFlights, StepFlights, InitAnswers, StepAnswers, PTL DEF Spec

(* A shutdown that waited the provider out leaves no engine process.       *)
THEOREM QuietMeansQuiet == Spec => []QuietAfterWait
<1>1. TypeInv /\ FlightInv /\ AnswerInv => QuietAfterWait
  <2> SUFFICES ASSUME TypeInv, FlightInv, AnswerInv, ui.quiet, NEW w \in Callers
               PROVE  ~call[w].running /\ flight[w].pc \in {"none", "post", "queued", "release", "ended"}
    BY DEF QuietAfterWait
  <2>1. flight[w].pc \notin Ahead
    BY DEF FlightInv
  <2>2. flight[w].pc \in PCs
    BY DEF TypeInv, TypeOK, Flights, PCs
  <2>3. flight[w].pc \in {"none", "post", "queued", "release", "ended"}
    BY <2>1, <2>2 DEF Ahead, PCs
  <2>4. InStep(flight[w], fence[w], call[w])
    BY DEF AnswerInv
  <2>5. ~call[w].running
    BY <2>3, <2>4 DEF InStep, Preparing, Rechecking
  <2> QED
    BY <2>3, <2>5
<1> QED
  BY <1>1, InitTypes, StepTypes, InitFlights, StepFlights, InitAnswers, StepAnswers, PTL DEF Spec

-------------------------------------------------------------------------------
(***************************************************************************)
(* The end of a flight                                                     *)
(***************************************************************************)
(* The places a worker, the fence it prepares or revalidates behind, and   *)
(* the call it makes have still to come to.  A first attempt of the fence  *)
(* has the seven places of a second before it.                             *)
FlightWork(pc) ==
  CASE pc = "factory" -> 11      [] pc = "publish" -> 10   [] pc = "preparing" -> 9
    [] pc = "querying" -> 8      [] pc = "affecting" -> 7  [] pc = "dependents" -> 6
    [] pc = "revalidating" -> 5  [] pc = "finally" -> 4    [] pc = "post" -> 3
    [] pc = "queued" -> 2        [] pc = "release" -> 1    [] pc \in {"none", "ended"} -> 0
FencePlace(pc) ==
  CASE pc = "engine" -> 18       [] pc = "head_before" -> 10  [] pc = "config_before" -> 9
    [] pc = "status" -> 8        [] pc = "sync" -> 7          [] pc = "post" -> 6
    [] pc = "head_after" -> 5    [] pc = "config_after" -> 4  [] pc = "recheck" -> 3
    [] pc = "config_now" -> 2    [] pc = "head_now" -> 1      [] pc \in {"idle", "done"} -> 0
FenceWork(f) ==
  FencePlace(f.pc) + IF f.attempt = 0 /\ f.pc \in Preparing \ {"engine"} THEN 7 ELSE 0
CallWork(pc) ==
  CASE pc = "check" -> 5 [] pc = "spawn" -> 4 [] pc = "wait" -> 3
    [] pc = "drain" -> 2 [] pc = "join" -> 1  [] pc \in {"idle", "done"} -> 0

WorkLeft(w) == 120 * FlightWork(flight[w].pc) + 6 * FenceWork(fence[w]) + CallWork(call[w].pc)

(* Those numbers, place by place.                                          *)
LEMMA WorkIs ==
  /\ FlightWork("factory") = 11 /\ FlightWork("publish") = 10 /\ FlightWork("preparing") = 9
  /\ FlightWork("querying") = 8 /\ FlightWork("affecting") = 7 /\ FlightWork("dependents") = 6
  /\ FlightWork("revalidating") = 5 /\ FlightWork("finally") = 4 /\ FlightWork("post") = 3
  /\ FlightWork("queued") = 2 /\ FlightWork("release") = 1
  /\ FlightWork("none") = 0 /\ FlightWork("ended") = 0
  /\ CallWork("check") = 5 /\ CallWork("spawn") = 4 /\ CallWork("wait") = 3
  /\ CallWork("drain") = 2 /\ CallWork("join") = 1
  /\ CallWork("idle") = 0 /\ CallWork("done") = 0
BY DEF FlightWork, CallWork

(* And of the fence.                                                       *)
LEMMA FenceWorkIs ==
  /\ FencePlace("engine") = 18 /\ FencePlace("head_before") = 10
  /\ FencePlace("config_before") = 9 /\ FencePlace("status") = 8 /\ FencePlace("sync") = 7
  /\ FencePlace("post") = 6 /\ FencePlace("head_after") = 5 /\ FencePlace("config_after") = 4
  /\ FencePlace("recheck") = 3 /\ FencePlace("config_now") = 2 /\ FencePlace("head_now") = 1
  /\ FencePlace("idle") = 0 /\ FencePlace("done") = 0
BY DEF FencePlace

(* All of it is a number, and a small one.                                 *)
LEMMA WorkIsBounded ==
  /\ \A f \in Flights : FlightWork(f.pc) \in 0..11
  /\ \A f \in Fences : FenceWork(f) \in 0..18
  /\ \A c \in Calls : CallWork(c.pc) \in 0..5
<1>1. ASSUME NEW f \in Flights PROVE FlightWork(f.pc) \in 0..11
  <2>1. f.pc \in {"none", "factory", "publish", "post", "queued", "release", "ended"} \cup AtProvider
    BY DEF Flights
  <2> QED
    BY <2>1, WorkIs DEF AtProvider
<1>2. ASSUME NEW f \in Fences PROVE FenceWork(f) \in 0..18
  <2>1. f.pc \in Preparing \cup Rechecking \cup {"idle", "done"} /\ f.attempt \in {0, 1}
    BY DEF Fences, Preparing, Rechecking
  <2>2. FencePlace(f.pc) \in 0..18 /\ (f.pc \in Preparing \ {"engine"} => FencePlace(f.pc) \in 4..10)
    BY <2>1, FenceWorkIs DEF Preparing, Rechecking
  <2> QED
    BY <2>2 DEF FenceWork
<1>3. ASSUME NEW c \in Calls PROVE CallWork(c.pc) \in 0..5
  <2>1. c.pc \in {"idle", "check", "spawn", "wait", "drain", "join", "done"}
    BY DEF Calls
  <2> QED
    BY <2>1, WorkIs
<1> QED
  BY <1>1, <1>2, <1>3

(* A place further on in the flight outweighs what is new to its fence and *)
(* its call, one in the fence what is new to the call.                     *)
LEMMA OnwardIsLess ==
  ASSUME TypeInv, TypeInv', NEW w \in Callers,
         \/ FlightWork(flight'[w].pc) < FlightWork(flight[w].pc)
         \/ /\ flight'[w].pc = flight[w].pc
            /\ \/ FenceWork(fence'[w]) < FenceWork(fence[w])
               \/ fence'[w] = fence[w] /\ CallWork(call'[w].pc) < CallWork(call[w].pc)
  PROVE  WorkLeft(w)' < WorkLeft(w)
<1> DEFINE a == FlightWork(flight[w].pc)
           b == FenceWork(fence[w])
           c == CallWork(call[w].pc)
           d == FlightWork(flight'[w].pc)
           e == FenceWork(fence'[w])
           f == CallWork(call'[w].pc)
<1>1. /\ flight[w] \in Flights /\ fence[w] \in Fences /\ call[w] \in Calls
      /\ flight'[w] \in Flights /\ fence'[w] \in Fences /\ call'[w] \in Calls
  BY DEF TypeInv, TypeOK, FenceTypeOK, BoundedTypeOK
<1>2. a \in 0..11 /\ b \in 0..18 /\ c \in 0..5 /\ d \in 0..11 /\ e \in 0..18 /\ f \in 0..5
  BY <1>1, WorkIsBounded
<1>3. d < a \/ (d = a /\ (e < b \/ (e = b /\ f < c)))
  OBVIOUS
<1>4. WorkLeft(w) = 120 * a + 6 * b + c /\ WorkLeft(w)' = 120 * d + 6 * e + f
  BY DEF WorkLeft
<1> HIDE DEF a, b, c, d, e, f
<1>5. 120 * d + 6 * e + f < 120 * a + 6 * b + c
  BY <1>2, <1>3
<1> QED
  BY <1>4, <1>5

(* Every step of a worker thread brings the end of its flight nearer.      *)
LEMMA WorkerAdvances ==
  ASSUME TypeInv, TypeInv', NEW w \in Callers, Worker(w)
  PROVE  WorkLeft(w)' < WorkLeft(w)
<1> DEFINE Less == WorkLeft(w)' < WorkLeft(w)
<1> SUFFICES Less
  OBVIOUS
<1>a. /\ flight \in [Callers -> Flights] /\ fence \in [Callers -> Fences]
      /\ call \in [Callers -> Calls]
      /\ flight[w] \in Flights /\ fence[w] \in Fences /\ call[w] \in Calls
  BY DEF TypeInv, TypeOK, FenceTypeOK, BoundedTypeOK
<1>b. ASSUME NEW pc \in PCs, MoveTo(w, pc) \/ LetGo(w, pc),
             FlightWork(pc) < FlightWork(flight[w].pc)
      PROVE  Less
  <2>1. flight'[w].pc = pc
    BY <1>a, <1>b DEF MoveTo, LetGo, NoFlight, Flights
  <2> QED
    BY <1>b, <2>1, OnwardIsLess
<1>c. ASSUME NEW r, Returns(w, r), 4 < FlightWork(flight[w].pc) PROVE Less
  <2>1. flight'[w].pc = "finally"
    BY <1>a, <1>c DEF Returns, Flights
  <2> QED
    BY <1>c, <2>1, OnwardIsLess, WorkIs
<1>d. ASSUME Others, FenceWork(fence'[w]) < FenceWork(fence[w]) PROVE Less
  BY <1>d, OnwardIsLess DEF Others
<1>e. /\ \A s, c : Goto(w, Refused(w, s, c)) => fence'[w].pc = "done"
      /\ \A v : Goto(w, Judged(w, v)) => fence'[w].pc = "done"
  <2>1. /\ \A s, c : Refused(w, s, c).pc = "done"
        /\ \A v : Judged(w, v).pc = "done"
    BY Zenon DEF Refused, Judged, NoFence
  <2>2. \A f : Goto(w, f) => fence'[w] = f
    BY <1>a DEF Goto
  <2> QED
    BY <2>1, <2>2
<1>f. \A f : Goto(w, f) => fence'[w] = f
  BY <1>a DEF Goto
<1> HIDE DEF Less
<1>1. CASE CallSteps(w) /\ Others /\ UNCHANGED <<head, config, tree, index, changes, seen, fence>>
  <2>1. \A x : Finished(call[w], x).pc = "done"
    BY DEF Finished, NoCall
  <2>2. ASSUME NEW x, NEW d \in Killed(call[w], x) PROVE d.pc = "join"
    BY <2>2, <1>a DEF Killed, Calls
  <2>3. CallWork(call'[w].pc) < CallWork(call[w].pc)
    <3>1. CASE CheckCancel(w)
      BY <3>1, <1>a, <2>1, WorkIs DEF CheckCancel, Calls
    <3>2. CASE Launch(w)
      BY <3>2, <1>a, <2>1, WorkIs DEF Launch, Calls
    <3>3. CASE WaitForExit(w)
      <4>1. call[w].pc = "wait" /\ call'[w].pc \in {"drain", "join"}
        BY <3>3, <1>a, <2>2 DEF WaitForExit, Calls
      <4> QED
        BY <4>1, WorkIs
    <3>4. CASE WaitForDrains(w)
      <4>1. call[w].pc = "drain" /\ call'[w].pc \in {"done", "join"}
        BY <3>4, <1>a, <2>1, <2>2 DEF WaitForDrains
      <4> QED
        BY <4>1, WorkIs
    <3>5. CASE JoinDrains(w)
      BY <3>5, <1>a, <2>1, WorkIs DEF JoinDrains
    <3> QED
      BY <1>1, <3>1, <3>2, <3>3, <3>4, <3>5 DEF CallSteps
  <2> QED
    BY <1>1, <2>3, OnwardIsLess DEF Others, Less
<1>2. CASE FenceSteps(w) /\ Others
  <2>0. fence[w].attempt \in {0, 1}
    BY <1>a DEF Fences
  <2> USE DEF At
  <2>1. CASE FindEngine(w)
    <3>1. \/ Goto(w, [fence[w] EXCEPT !.pc = "head_before"])
          \/ \E s, r : Goto(w, Refused(w, s, r))
      BY <2>1 DEF FindEngine
    <3>2. \/ fence'[w].pc = "head_before" /\ fence'[w].attempt = fence[w].attempt
          \/ fence'[w].pc = "done"
      BY <3>1, <1>a, <1>e DEF Goto, Fences
    <3>3. FenceWork(fence'[w]) < FenceWork(fence[w])
      BY <2>0, <2>1, <3>2, FenceWorkIs DEF FenceWork, Preparing, FindEngine
    <3> QED
      BY <1>2, <3>3, <1>d
  <2>2. CASE ReadHeadBefore(w)
    <3>1. \E h : Goto(w, [fence[w] EXCEPT !.pc = "config_before", !.head = h])
      BY <2>2, Zenon DEF ReadHeadBefore
    <3>2. fence'[w].pc = "config_before" /\ fence'[w].attempt = fence[w].attempt
      BY <3>1, <1>a DEF Goto, Fences
    <3>3. FenceWork(fence'[w]) < FenceWork(fence[w])
      BY <2>0, <2>2, <3>2, FenceWorkIs DEF FenceWork, Preparing, ReadHeadBefore
    <3> QED
      BY <1>2, <3>3, <1>d
  <2>3. CASE ReadConfigBefore(w)
    <3>1. \/ \E c : Goto(w, [fence[w] EXCEPT !.pc = "status", !.config = c])
          \/ \E s, r : Goto(w, Refused(w, s, r))
      BY <2>3, Zenon DEF ReadConfigBefore
    <3>2. \/ fence'[w].pc = "status" /\ fence'[w].attempt = fence[w].attempt
          \/ fence'[w].pc = "done"
      <4>1. ASSUME NEW c, Goto(w, [fence[w] EXCEPT !.pc = "status", !.config = c])
            PROVE  fence'[w].pc = "status" /\ fence'[w].attempt = fence[w].attempt
        BY <4>1, <1>a DEF Goto, Fences
      <4>2. CASE \E s, r : Goto(w, Refused(w, s, r))
        BY <4>2, <1>e
      <4> QED
        BY <3>1, <4>1, <4>2, Zenon
    <3>3. FenceWork(fence'[w]) < FenceWork(fence[w])
      BY <2>0, <2>3, <3>2, FenceWorkIs DEF FenceWork, Preparing, ReadConfigBefore
    <3> QED
      BY <1>2, <3>3, <1>d
  <2>4. CASE SyncIndex(w)
    <3>1. \/ Goto(w, [fence[w] EXCEPT !.pc = "sync", !.said = "none"])
          \/ \E s, r : Goto(w, Refused(w, s, r))
      BY <2>4 DEF SyncIndex
    <3>2. \/ fence'[w].pc = "sync" /\ fence'[w].attempt = fence[w].attempt
          \/ fence'[w].pc = "done"
      <4>1. CASE Goto(w, [fence[w] EXCEPT !.pc = "sync", !.said = "none"])
        BY <4>1, <1>a DEF Goto, Fences
      <4>2. CASE \E s, r : Goto(w, Refused(w, s, r))
        BY <4>2, <1>e
      <4> QED
        BY <3>1, <4>1, <4>2
    <3>3. FenceWork(fence'[w]) < FenceWork(fence[w])
      BY <2>0, <2>4, <3>2, FenceWorkIs DEF FenceWork, Preparing, SyncIndex
    <3> QED
      BY <1>2, <3>3, <1>d
  <2>5. CASE StatusAfterSync(w)
    <3>1. \/ Goto(w, [fence[w] EXCEPT !.pc = "post"])
          \/ \E s, r : Goto(w, Refused(w, s, r))
      BY <2>5 DEF StatusAfterSync
    <3>2. \/ fence'[w].pc = "post" /\ fence'[w].attempt = fence[w].attempt
          \/ fence'[w].pc = "done"
      BY <3>1, <1>a, <1>e DEF Goto, Fences
    <3>3. FenceWork(fence'[w]) < FenceWork(fence[w])
      BY <2>0, <2>5, <3>2, FenceWorkIs DEF FenceWork, Preparing, StatusAfterSync
    <3> QED
      BY <1>2, <3>3, <1>d
  <2>6. CASE AcceptStatus(w)
    <3>1. \/ Goto(w, [fence[w] EXCEPT !.pc = "head_after", !.said = "none"])
          \/ \E s, r : Goto(w, Refused(w, s, r))
      BY <2>6 DEF AcceptStatus
    <3>2. \/ fence'[w].pc = "head_after" /\ fence'[w].attempt = fence[w].attempt
          \/ fence'[w].pc = "done"
      <4>1. CASE Goto(w, [fence[w] EXCEPT !.pc = "head_after", !.said = "none"])
        BY <4>1, <1>a DEF Goto, Fences
      <4>2. CASE \E s, r : Goto(w, Refused(w, s, r))
        BY <4>2, <1>e
      <4> QED
        BY <3>1, <4>1, <4>2
    <3>3. FenceWork(fence'[w]) < FenceWork(fence[w])
      BY <2>0, <2>6, <3>2, FenceWorkIs DEF FenceWork, Preparing, AcceptStatus
    <3> QED
      BY <1>2, <3>3, <1>d
  <2>7. CASE ReadHeadAfter(w)
    <3>1. \E h : Goto(w, [fence[w] EXCEPT !.pc = "config_after", !.later = h])
      BY <2>7, Zenon DEF ReadHeadAfter
    <3>2. fence'[w].pc = "config_after" /\ fence'[w].attempt = fence[w].attempt
      BY <3>1, <1>a DEF Goto, Fences
    <3>3. FenceWork(fence'[w]) < FenceWork(fence[w])
      BY <2>0, <2>7, <3>2, FenceWorkIs DEF FenceWork, Preparing, ReadHeadAfter
    <3> QED
      BY <1>2, <3>3, <1>d
  <2>8. CASE CompareFences(w)
    <3> DEFINE Fenced(h, c) ==
                 [NoFence EXCEPT !.pc = "done",
                    !.snapshot = [status |-> "available", head |-> h, config |-> c]]
               Again == [NoFence EXCEPT !.pc = "head_before", !.attempt = 1]
           kept(c) ==
             Commit(fence[w].head) = Commit(fence[w].later) /\ Digest(fence[w].config) = Digest(c)
    <3>a. PICK c \in {config, 0} :
            Goto(w,
              CASE c = 0 -> Refused(w, "unavailable", c)
                [] c # 0 /\ kept(c) -> Fenced(fence[w].later, c)
                [] c # 0 /\ ~kept(c) /\ fence[w].attempt = 0 -> Again
                [] c # 0 /\ ~kept(c) /\ fence[w].attempt = 1 -> Refused(w, "stale", c))
      BY <2>8, Zenon DEF CompareFences
    <3>b. /\ \A h, r : Fenced(h, r).pc = "done"
          /\ Again.pc = "head_before" /\ Again.attempt = 1
      BY Zenon DEF NoFence
    <3> HIDE DEF Fenced, Again, kept
    <3>1. \/ \E s, r : Goto(w, Refused(w, s, r))
          \/ \E h, r : Goto(w, Fenced(h, r))
          \/ fence[w].attempt = 0 /\ Goto(w, Again)
      BY <2>0, <3>a
    <3>2. \/ fence'[w].pc = "done"
          \/ fence[w].attempt = 0 /\ fence'[w].pc = "head_before" /\ fence'[w].attempt = 1
      BY <3>1, <3>b, <1>e, <1>f
    <3>3. FenceWork(fence'[w]) < FenceWork(fence[w])
      BY <2>0, <2>8, <3>2, FenceWorkIs DEF FenceWork, Preparing, CompareFences
    <3> QED
      BY <1>2, <3>3, <1>d
  <2>9. CASE Recheck(w)
    <3>1. \/ Goto(w, [fence[w] EXCEPT !.pc = "config_now", !.said = "none"])
          \/ \E v : Goto(w, Judged(w, v))
      BY <2>9 DEF Recheck
    <3>2. \/ fence'[w].pc = "config_now" /\ fence'[w].attempt = fence[w].attempt
          \/ fence'[w].pc = "done"
      <4>1. CASE Goto(w, [fence[w] EXCEPT !.pc = "config_now", !.said = "none"])
        BY <4>1, <1>a DEF Goto, Fences
      <4>2. CASE \E v : Goto(w, Judged(w, v))
        BY <4>2, <1>e
      <4> QED
        BY <3>1, <4>1, <4>2
    <3>3. FenceWork(fence'[w]) < FenceWork(fence[w])
      BY <2>0, <2>9, <3>2, FenceWorkIs DEF FenceWork, Preparing, Recheck
    <3> QED
      BY <1>2, <3>3, <1>d
  <2>10. CASE ReadConfigNow(w)
    <3>1. \E c : Goto(w, [fence[w] EXCEPT !.pc = "head_now", !.later = c])
      BY <2>10, Zenon DEF ReadConfigNow
    <3>2. fence'[w].pc = "head_now" /\ fence'[w].attempt = fence[w].attempt
      BY <3>1, <1>a DEF Goto, Fences
    <3>3. FenceWork(fence'[w]) < FenceWork(fence[w])
      BY <2>0, <2>10, <3>2, FenceWorkIs DEF FenceWork, Preparing, ReadConfigNow
    <3> QED
      BY <1>2, <3>3, <1>d
  <2>11. CASE CompareNow(w)
    <3>1. \E v : Goto(w, Judged(w, v))
      BY <2>11 DEF CompareNow
    <3>2. fence'[w].pc = "done"
      BY <3>1, <1>a, <1>e
    <3>3. FenceWork(fence'[w]) < FenceWork(fence[w])
      BY <2>0, <2>11, <3>2, FenceWorkIs DEF FenceWork, Preparing, CompareNow
    <3> QED
      BY <1>2, <3>3, <1>d
  <2> QED
    BY <1>2, <2>1, <2>2, <2>3, <2>4, <2>5, <2>6, <2>7, <2>8, <2>9, <2>10, <2>11 DEF FenceSteps
<1>3. CASE MakeExplorer(w)
  BY <1>3, <1>b, WorkIs DEF MakeExplorer, PCs, AtProvider
<1>4. CASE Publish(w)
  <2>1. CASE MoveTo(w, "finally")
    BY <1>4, <2>1, <1>b, WorkIs DEF Publish, PCs, AtProvider
  <2>2. CASE flight' = [flight EXCEPT ![w].pc = "preparing",
                                     ![w].since = [head |-> head, config |-> config]]
    <3>1. flight'[w].pc = "preparing" /\ flight[w].pc = "publish"
      BY <1>4, <2>2, <1>a DEF Publish, Flights
    <3> QED
      BY <3>1, WorkIs, OnwardIsLess DEF Less
  <2> QED
    BY <1>4, <2>1, <2>2 DEF Publish
<1>5. CASE AbandonPrepared(w)
  BY <1>5, <1>b, WorkIs DEF AbandonPrepared, PCs, AtProvider
<1>6. CASE Explore(w)
  <2>1. \/ \E r : Returns(w, r)
        \/ MoveTo(w, "querying") \/ MoveTo(w, "affecting")
    BY <1>6 DEF Explore, Asking
  <2> QED
    BY <1>6, <2>1, <1>b, <1>c, WorkIs DEF Explore, PCs, AtProvider
<1>7. CASE QueryAnswered(w)
  <2>1. \/ \E r : Returns(w, r)
        \/ MoveTo(w, "affecting") \/ MoveTo(w, "revalidating")
    BY <1>7 DEF QueryAnswered, Asking, Revalidate
  <2> QED
    BY <1>7, <2>1, <1>b, <1>c, WorkIs DEF QueryAnswered, PCs, AtProvider
<1>8. CASE AffectedAnswered(w)
  BY <1>8, <1>b, <1>c, WorkIs DEF AffectedAnswered, PCs, AtProvider
<1>9. CASE ReadDependents(w)
  <2>1. flight'[w].pc = "revalidating" /\ flight[w].pc = "dependents"
    BY <1>9, <1>a DEF ReadDependents, Flights
  <2> QED
    BY <2>1, OnwardIsLess, WorkIs DEF Less
<1>10. CASE Conclude(w)
  BY <1>10, <1>c, WorkIs DEF Conclude
<1>11. CASE Finally(w)
  BY <1>11, <1>b, WorkIs DEF Finally, PCs
<1>12. CASE Post(w) \/ PostFails(w)
  BY <1>12, <1>b, WorkIs DEF Post, PostFails, PCs
<1>13. CASE ReleaseIfCurrent(w)
  BY <1>13, <1>b, WorkIs DEF ReleaseIfCurrent, PCs
<1> QED
  BY <1>1, <1>2, <1>3, <1>4, <1>5, <1>6, <1>7, <1>8, <1>9, <1>10, <1>11, <1>12, <1>13 DEF Worker

(* A worker thread touches no other's flight, fence or call.               *)
LEMMA WorkersKeepApart ==
  ASSUME TypeInv, NEW v \in Callers, Worker(v), NEW w \in Callers \ {v}
  PROVE  flight'[w] = flight[w] /\ fence'[w] = fence[w] /\ call'[w] = call[w]
<1> DEFINE Apart == flight'[w] = flight[w] /\ fence'[w] = fence[w] /\ call'[w] = call[w]
<1> SUFFICES Apart
  OBVIOUS
<1>a. /\ flight \in [Callers -> Flights] /\ fence \in [Callers -> Fences]
      /\ call \in [Callers -> Calls]
  BY DEF TypeInv, TypeOK, FenceTypeOK, BoundedTypeOK
<1>b. /\ \A pc : MoveTo(v, pc) => flight'[w] = flight[w]
      /\ \A pc : LetGo(v, pc) => flight'[w] = flight[w] /\ fence'[w] = fence[w]
      /\ \A r : Returns(v, r) => Apart
      /\ \A pc, op : Asking(v, pc, op) => Apart
      /\ Revalidate(v) => Apart
      /\ \A f : Goto(v, f) => fence'[w] = fence[w]
  <2>1. \A pc : MoveTo(v, pc) => flight'[w] = flight[w]
    BY <1>a DEF MoveTo
  <2>2. \A pc : LetGo(v, pc) => flight'[w] = flight[w] /\ fence'[w] = fence[w]
    BY <1>a DEF LetGo
  <2>3. \A r : Returns(v, r) => Apart
    BY <1>a DEF Returns
  <2>4. \A pc, op : Asking(v, pc, op) => Apart
    BY <1>a DEF Asking, MoveTo
  <2>5. Revalidate(v) => Apart
    BY <1>a DEF Revalidate, MoveTo
  <2>6. \A f : Goto(v, f) => fence'[w] = fence[w]
    BY <1>a DEF Goto
  <2> QED
    BY <2>1, <2>2, <2>3, <2>4, <2>5, <2>6
<1>1. CASE CallSteps(v) /\ Others /\ UNCHANGED <<head, config, tree, index, changes, seen, fence>>
  <2>1. call'[w] = call[w]
    BY <1>1, <1>a DEF CallSteps, CheckCancel, Launch, WaitForExit, WaitForDrains, JoinDrains
  <2> QED
    BY <1>1, <2>1 DEF Others
<1>2. CASE FenceSteps(v) /\ Others
  <2>1. \E f : Goto(v, f)
    BY <1>2 DEF FenceSteps, FindEngine, ReadHeadBefore, ReadConfigBefore, SyncIndex,
                StatusAfterSync, AcceptStatus, ReadHeadAfter, CompareFences, Recheck,
                ReadConfigNow, CompareNow
  <2>2. UNCHANGED call \/ \E c : call' = [call EXCEPT ![v] = c]
    BY <1>2 DEF FenceSteps, FindEngine, ReadHeadBefore, ReadConfigBefore, SyncIndex,
                StatusAfterSync, AcceptStatus, ReadHeadAfter, CompareFences, Recheck,
                ReadConfigNow, CompareNow
  <2> QED
    BY <1>2, <1>a, <1>b, <2>1, <2>2 DEF Others
<1>3. CASE MakeExplorer(v) \/ AbandonPrepared(v) \/ ReleaseIfCurrent(v)
  BY <1>3, <1>b DEF MakeExplorer, AbandonPrepared, ReleaseIfCurrent, fvars, bvars
<1>4. CASE Publish(v)
  BY <1>4, <1>a, <1>b DEF Publish
<1>5. CASE Explore(v) \/ QueryAnswered(v) \/ Conclude(v)
  BY <1>5, <1>b DEF Explore, QueryAnswered, Conclude
<1>6. CASE AffectedAnswered(v)
  BY <1>6, <1>a, <1>b DEF AffectedAnswered
<1>7. CASE ReadDependents(v)
  BY <1>7, <1>a DEF ReadDependents
<1>8. CASE Finally(v) \/ Post(v) \/ PostFails(v)
  BY <1>8, <1>b DEF Finally, Post, PostFails, Elsewhere, bvars
<1> QED
  BY <1>1, <1>2, <1>3, <1>4, <1>5, <1>6, <1>7, <1>8 DEF Worker

(* Nobody puts a flight back: the engine, the clock, the repository and    *)
(* the UI thread leave it where it is or let it go.                        *)
LEMMA NobodyDelays ==
  ASSUME TypeInv, TypeInv', FlightInv, NEW w \in Callers,
         Interface \/ Environment \/ \E v \in Callers : Engine(v)
  PROVE  \/ WorkLeft(w)' <= WorkLeft(w)
         \/ Start /\ w = generation'
<1>a. /\ flight \in [Callers -> Flights] /\ fence \in [Callers -> Fences]
      /\ call \in [Callers -> Calls] /\ generation \in Nat
      /\ flight[w] \in Flights /\ fence[w] \in Fences /\ call[w] \in Calls
      /\ flight'[w] \in Flights /\ fence'[w] \in Fences /\ call'[w] \in Calls
  BY CallersAssumption DEF TypeInv, TypeOK, FenceTypeOK, BoundedTypeOK
<1>b. WorkLeft(w) \in Nat
  BY <1>a, WorkIsBounded DEF WorkLeft
<1>c. ASSUME flight'[w].pc = flight[w].pc, fence'[w].pc = fence[w].pc,
             fence'[w].attempt = fence[w].attempt, call'[w].pc = call[w].pc
      PROVE  WorkLeft(w)' <= WorkLeft(w)
  <2>1. WorkLeft(w)' = WorkLeft(w)
    BY <1>c DEF WorkLeft, FenceWork
  <2> QED
    BY <1>b, <2>1
<1>d. WorkLeft(w)' \in Nat
  BY <1>a, WorkIsBounded DEF WorkLeft
<1>1. CASE Environment
  BY <1>1, <1>c DEF Environment, Others, RepositoryMoves, Change, AnotherProcessSyncs, bvars
<1>2. ASSUME NEW v \in Callers, Engine(v) PROVE WorkLeft(w)' <= WorkLeft(w)
  <2>1. CASE ProcessSteps(v) /\ Others /\ UNCHANGED <<head, config, tree, index, changes, seen, fence>>
    <3>1. call'[w].pc = call[w].pc
      BY <2>1, <1>a DEF ProcessSteps, ProcessExits, PipesClose, DeadlinePasses, Calls
    <3> QED
      BY <2>1, <3>1, <1>c DEF Others
  <2>2. CASE (EngineStatus(v) \/ EngineSync(v)) /\ Others
    <3>1. call'[w].pc = call[w].pc
      BY <2>2, <1>a DEF EngineStatus, EngineSync, Calls
    <3>2. fence'[w].pc = fence[w].pc /\ fence'[w].attempt = fence[w].attempt
      BY <2>2, <1>a DEF EngineStatus, EngineSync, Fences
    <3> QED
      BY <2>2, <3>1, <3>2, <1>c DEF Others
  <2>3. CASE EngineQuery(v)
    <3>1. call'[w].pc = call[w].pc /\ flight'[w].pc = flight[w].pc
      BY <2>3, <1>a DEF EngineQuery, Calls, Flights
    <3> QED
      BY <2>3, <3>1, <1>c DEF EngineQuery
  <2> QED
    BY <1>2, <2>1, <2>2, <2>3 DEF Engine
<1>3. CASE Start
  <2>1. UNCHANGED <<fence, call>> /\ generation' = generation + 1
        /\ (w # generation + 1 => flight'[w] = flight[w])
    BY <1>3, <1>a DEF Start, fvars, bvars
  <2> QED
    BY <1>3, <2>1, <1>c
<1>4. CASE Cancel \/ CancelExplorer \/ WaitForProvider \/ Close
  BY <1>4, <1>c DEF Cancel, CancelExplorer, WaitForProvider, Close, fvars, bvars
<1>5. ASSUME NEW v \in Callers, DeliverIfCurrent(v) \/ CallbackEnds(v)
      PROVE  WorkLeft(w)' <= WorkLeft(w)
  <2>1. flight[v].pc = "queued"
    BY <1>5 DEF DeliverIfCurrent, CallbackEnds, FlightInv
  <2>2. \/ UNCHANGED <<flight, fence, call>>
        \/ \E pc \in {"ended", "release"} : LetGo(v, pc) /\ UNCHANGED call
    BY <1>5 DEF DeliverIfCurrent, CallbackEnds, Elsewhere, bvars
  <2>3. CASE UNCHANGED <<flight, fence, call>>
    BY <2>3, <1>c
  <2>4. ASSUME NEW pc \in {"ended", "release"}, LetGo(v, pc), UNCHANGED call
        PROVE  WorkLeft(w)' <= WorkLeft(w)
    <3>1. CASE v = w
      <4>1. flight'[w].pc = pc
        BY <2>4, <3>1, <1>a DEF LetGo, NoFlight
      <4>2. WorkLeft(w)' < WorkLeft(w)
        BY <2>1, <3>1, <4>1, OnwardIsLess, WorkIs
      <4> QED
        BY <4>2, <1>b, <1>d
    <3>2. CASE v # w
      <4>1. flight'[w] = flight[w] /\ fence'[w] = fence[w]
        BY <2>4, <3>2, <1>a DEF LetGo
      <4> QED
        BY <2>4, <4>1, <1>c
    <3> QED
      BY <3>1, <3>2
  <2> QED
    BY <2>2, <2>3, <2>4
<1> QED
  BY <1>1, <1>2, <1>3, <1>4, <1>5 DEF Interface

(* The work of a flight is set when its command is accepted, and nothing   *)
(* adds to it: each step of its worker thread takes some away, whatever    *)
(* the engine answers or fails to, and whatever becomes of the repository, *)
(* the index and the observatory.  The fence tries twice and no more.  So  *)
(* a worker thread that is scheduled, and stopped by the deadline where it *)
(* would wait, comes to its end; that it does is BusyEnds.                 *)
THEOREM WorkRunsOut ==
  Spec => /\ [](\A w \in Callers : WorkLeft(w) \in 0..1433)
          /\ [][\A w \in Callers :
                  \/ WorkLeft(w)' < WorkLeft(w)
                  \/ WorkLeft(w)' <= WorkLeft(w) /\ ~Worker(w)
                  \/ Start /\ w = generation']_vars
<1>1. ASSUME TypeInv, NEW w \in Callers PROVE WorkLeft(w) \in 0..1433
  <2>1. flight[w] \in Flights /\ fence[w] \in Fences /\ call[w] \in Calls
    BY <1>1 DEF TypeInv, TypeOK, FenceTypeOK, BoundedTypeOK
  <2>2. /\ FlightWork(flight[w].pc) \in 0..11 /\ FenceWork(fence[w]) \in 0..18
        /\ CallWork(call[w].pc) \in 0..5
    BY <2>1, WorkIsBounded
  <2> DEFINE a == FlightWork(flight[w].pc)
             b == FenceWork(fence[w])
             c == CallWork(call[w].pc)
  <2>3. a \in 0..11 /\ b \in 0..18 /\ c \in 0..5 /\ WorkLeft(w) = 120 * a + 6 * b + c
    BY <2>2 DEF WorkLeft
  <2> HIDE DEF a, b, c
  <2> QED
    BY <2>3
<1>2. ASSUME TypeInv, TypeInv', FlightInv, Next, NEW w \in Callers
      PROVE  \/ WorkLeft(w)' < WorkLeft(w)
             \/ WorkLeft(w)' <= WorkLeft(w) /\ ~Worker(w)
             \/ Start /\ w = generation'
  <2>1. CASE Worker(w)
    BY <1>2, <2>1, WorkerAdvances
  <2>2. ASSUME NEW v \in Callers, Worker(v), v # w, ~Worker(w)
        PROVE  WorkLeft(w)' <= WorkLeft(w)
    <3>1. WorkLeft(w)' = WorkLeft(w)
      BY <1>2, <2>2, WorkersKeepApart DEF WorkLeft
    <3>2. WorkLeft(w) \in 0..1433
      BY <1>1, <1>2
    <3> HIDE DEF WorkLeft
    <3> QED
      BY <3>1, <3>2
  <2>3. CASE ~Worker(w) /\ (Interface \/ Environment \/ \E v \in Callers : Engine(v))
    BY <1>2, <2>3, NobodyDelays
  <2> QED
    BY <1>2, <2>1, <2>2, <2>3 DEF Next
<1>3. TypeInv /\ TypeInv' /\ FlightInv /\ [Next]_vars =>
        [\A w \in Callers :
           \/ WorkLeft(w)' < WorkLeft(w)
           \/ WorkLeft(w)' <= WorkLeft(w) /\ ~Worker(w)
           \/ Start /\ w = generation']_vars
  BY <1>2
<1>4. TypeInv => \A w \in Callers : WorkLeft(w) \in 0..1433
  BY <1>1, Zenon
<1> QED
  BY <1>3, <1>4, InitTypes, StepTypes, InitFlights, StepFlights, PTL DEF Spec
===============================================================================
