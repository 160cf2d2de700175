----------------------------- MODULE Exploration ------------------------------
(***************************************************************************)
(* Exploration flights of the terminal observatory: the coordinator runs   *)
(* one command at a time in a worker thread that owns a fresh explorer,    *)
(* the explorer queries the engine behind the graph fence, and the result  *)
(* is handed back to the UI thread, which may have cancelled everything or *)
(* be gone by then.  A flight's number is the generation it was accepted   *)
(* under and the name of its worker thread.                                *)
(*                                                                         *)
(* The query text, the bounds of the output and the recall of lessons that *)
(* precedes a query do not change the course of a flight.                  *)
(***************************************************************************)
EXTENDS GraphFence

CONSTANT MaxFlights  \* bound: commands accepted

ASSUME CallersAssumption == MaxFlights \in Nat /\ Callers = 1..MaxFlights

VARIABLES
  busy, shuttingDown, active, generation, providerDone,  \* the coordinator
  flight,   \* Callers -> the worker thread of a command
  ui        \* the UI thread

coordinator == <<busy, shuttingDown, active, generation, providerDone>>
vars == <<coordinator, flight, ui, fvars>>

Asks == SUBSET {"query", "files"}

(* Where a worker holds an explorer that may be at work.                   *)
AtProvider == {"preparing", "querying", "affecting", "dependents", "revalidating", "finally"}

Flights ==
  [pc : {"none", "factory", "publish", "post", "queued", "release", "ended"} \cup AtProvider,
   ask : Asks, since : [head : Readings, config : Readings], answers : SUBSET Builds,
   callback : {"on_error", "on_result"},
   result : {"none", "available", "unavailable", "stale", "error"}]

UIStates == {"open", "callback", "cancelling", "waiting", "exiting", "closed"}
UIs == [state : UIStates, flight : Callers \cup {0}, quiet : BOOLEAN]

(* Every variable holds a value of its kind; the generation counts one     *)
(* more than the flights once the app is shutting down, and a provider     *)
(* that has not ended is one somebody started.                             *)
TypeOK ==
  /\ FenceTypeOK
  /\ busy \in BOOLEAN /\ shuttingDown \in BOOLEAN /\ providerDone \in BOOLEAN
  /\ active \in Callers \cup {0}
  /\ generation \in 0..(MaxFlights + 1)
  /\ flight \in [Callers -> Flights]
  /\ ui \in UIs

NoFlight ==
  [pc |-> "none", ask |-> {}, since |-> [head |-> 0, config |-> 0], answers |-> {},
   callback |-> "on_error", result |-> "none"]

Init ==
  /\ FenceInit
  /\ busy = FALSE /\ shuttingDown = FALSE /\ active = 0 /\ generation = 0
  /\ providerDone = TRUE
  /\ flight = [w \in Callers |-> NoFlight]
  /\ ui = [state |-> "open", flight |-> 0, quiet |-> FALSE]

-----------------------------------------------------------------------------
(* The UI thread                                                           *)

(* Mutant of Start: the event is left set from the flight before.          *)
StartKeepsDone ==
  /\ ui.state = "open"
  /\ ~busy /\ ~shuttingDown /\ generation < MaxFlights
  /\ busy' = TRUE
  /\ generation' = generation + 1
  /\ \E ask \in Asks :
       flight' = [flight EXCEPT ![generation + 1] = [NoFlight EXCEPT !.pc = "factory", !.ask = ask]]
  /\ UNCHANGED <<shuttingDown, active, providerDone, ui, fvars>>

(* Mutant of Start: a command under way is not waited for.                 *)
StartWhileBusy ==
  /\ ui.state = "open"
  /\ ~shuttingDown /\ generation < MaxFlights
  /\ busy' = TRUE
  /\ generation' = generation + 1
  /\ providerDone' = FALSE
  /\ \E ask \in Asks :
       flight' = [flight EXCEPT ![generation + 1] = [NoFlight EXCEPT !.pc = "factory", !.ask = ask]]
  /\ UNCHANGED <<shuttingDown, active, ui, fvars>>

(* A command while one is under way, or after cancel, is refused.          *)
Start ==
  /\ ui.state = "open"
  /\ ~busy /\ ~shuttingDown /\ generation < MaxFlights
  /\ busy' = TRUE
  /\ generation' = generation + 1
  /\ providerDone' = FALSE
  /\ \E ask \in Asks :
       flight' = [flight EXCEPT ![generation + 1] = [NoFlight EXCEPT !.pc = "factory", !.ask = ask]]
  /\ UNCHANGED <<shuttingDown, active, ui, fvars>>

(* cancel, under the lock; the explorer is cancelled after it.             *)
Cancel ==
  /\ ui.state = "open" /\ ~shuttingDown
  /\ shuttingDown' = TRUE
  /\ generation' = generation + 1
  /\ busy' = FALSE
  /\ ui' = [ui EXCEPT !.state = "cancelling", !.flight = active]
  /\ UNCHANGED <<active, providerDone, flight, fvars>>

CancelExplorer ==
  /\ ui.state = "cancelling"
  /\ cancelEvent' = IF ui.flight = 0 THEN cancelEvent
                    ELSE [cancelEvent EXCEPT ![ui.flight] = TRUE]
  /\ ui' = [ui EXCEPT !.state = "waiting", !.flight = 0]
  /\ UNCHANGED <<coordinator, flight, head, config, tree, index, changes, seen, fence, call>>

(* provider_done.wait(1.5), whose answer exit does not look at.            *)
WaitForProvider ==
  /\ ui.state = "waiting"
  /\ \E quiet \in {providerDone, FALSE} :
       ui' = [ui EXCEPT !.state = "exiting", !.quiet = quiet]
  /\ UNCHANGED <<coordinator, flight, fvars>>

Close ==
  /\ ui.state = "exiting"
  /\ ui' = [ui EXCEPT !.state = "closed"]
  /\ UNCHANGED <<coordinator, flight, fvars>>

(* The callback is over or will never run: the thread drops what it held.  *)
LetGo(w, pc) ==
  /\ flight' = [flight EXCEPT ![w] = [NoFlight EXCEPT !.pc = pc]]
  /\ fence' = [fence EXCEPT ![w] = NoFence]

Elsewhere == <<head, config, tree, index, changes, seen, bvars>>

IsCurrent(w) == ~shuttingDown /\ generation = w

(* Run on the UI thread while the worker waits for it.                     *)
DeliverIfCurrent(w) ==
  /\ ui.state \in {"open", "exiting"} /\ flight[w].pc = "queued"
  /\ IF IsCurrent(w)
     THEN ui' = [ui EXCEPT !.state = "callback", !.flight = w] /\ UNCHANGED <<flight, fence>>
     ELSE LetGo(w, "ended") /\ UNCHANGED ui
  /\ UNCHANGED <<coordinator, Elsewhere>>

Released(w) == IF generation = w THEN FALSE ELSE busy

(* The command is released whatever the callback did; a RuntimeError it    *)
(* raises reaches the worker, which releases once more.                    *)
CallbackEnds(w) ==
  /\ ui.state = "callback" /\ ui.flight = w
  /\ busy' = Released(w)
  /\ LetGo(w, "ended") \/ LetGo(w, "release")
  /\ ui' = [ui EXCEPT !.state = "open", !.flight = 0]
  /\ UNCHANGED <<shuttingDown, active, generation, providerDone, Elsewhere>>

-----------------------------------------------------------------------------
(* A worker: _run up to the queries                                        *)

MoveTo(w, pc) == flight' = [flight EXCEPT ![w].pc = pc]

MakeExplorer(w) ==
  /\ flight[w].pc = "factory"
  /\ MoveTo(w, "publish") \/ MoveTo(w, "finally")
  /\ UNCHANGED <<coordinator, ui, fvars>>

(* The explorer becomes the one cancel sees, or sees that cancel was there.*)
Publish(w) ==
  /\ flight[w].pc = "publish"
  /\ active' = w
  /\ IF shuttingDown
     THEN /\ cancelEvent' = [cancelEvent EXCEPT ![w] = TRUE]
          /\ MoveTo(w, "finally") /\ UNCHANGED fence
     ELSE /\ fence' = [fence EXCEPT ![w].pc = "engine"]
          /\ flight' = [flight EXCEPT ![w].pc = "preparing",
                                      ![w].since = [head |-> head, config |-> config]]
          /\ UNCHANGED cancelEvent
  /\ UNCHANGED <<busy, shuttingDown, generation, providerDone, ui,
                 head, config, tree, index, changes, seen, call>>

(* The direct path looks for a shutdown between prepare and explore; the   *)
(* path that recalls lessons first does not.                               *)
AbandonPrepared(w) ==
  /\ flight[w].pc = "preparing" /\ fence[w].pc = "done" /\ shuttingDown
  /\ cancelEvent' = [cancelEvent EXCEPT ![w] = TRUE]
  /\ MoveTo(w, "finally")
  /\ UNCHANGED <<coordinator, ui, head, config, tree, index, changes, seen, fence, call>>

-----------------------------------------------------------------------------
(* CodeGraphExplorer.explore                                               *)

Returns(w, result) ==
  /\ flight' = [flight EXCEPT ![w].pc = "finally", ![w].result = result,
                              ![w].callback = "on_result"]
  /\ call' = [call EXCEPT ![w] = NoCall]
  /\ UNCHANGED fence

Asking(w, pc, op) ==
  /\ MoveTo(w, pc)
  /\ call' = [call EXCEPT ![w] = Calling(op)]
  /\ UNCHANGED fence

(* An unavailable snapshot, nothing to ask, no engine: no query is made.   *)
Explore(w) ==
  /\ flight[w].pc = "preparing" /\ fence[w].pc = "done"
  /\ LET ask == flight[w].ask
         status == fence[w].snapshot.status
     IN  IF status # "available" THEN Returns(w, status)
         ELSE IF ask = {} THEN Returns(w, "error")
         ELSE \/ Returns(w, "unavailable")
              \/ IF "query" \in ask THEN Asking(w, "querying", "explore")
                 ELSE Asking(w, "affecting", "affected")
  /\ UNCHANGED <<coordinator, ui, head, config, tree, index, changes, seen, cancelEvent>>

(* The engine reads the index as it stands when it gets to it.             *)
EngineQuery(w) ==
  /\ Working(w, "explore") \/ Working(w, "affected")
  /\ flight' = [flight EXCEPT ![w].answers = @ \cup {index}]
  /\ call' = [call EXCEPT ![w].worked = TRUE]
  /\ UNCHANGED <<coordinator, ui, head, config, tree, index, changes, seen, fence, cancelEvent>>

(* Revalidation begins with a status of its own, if the engine is there.   *)
Revalidate(w) ==
  /\ MoveTo(w, "revalidating")
  /\ \/ /\ fence' = [fence EXCEPT ![w].pc = "recheck", ![w].said = "none"]
        /\ call' = [call EXCEPT ![w] = Calling("status")]
     \/ /\ fence' = [fence EXCEPT ![w].pc = "done", ![w].valid = FALSE]
        /\ call' = [call EXCEPT ![w] = NoCall]

QueryAnswered(w) ==
  /\ flight[w].pc = "querying" /\ call[w].pc = "done"
  /\ IF ~Succeeded(call[w]) THEN Returns(w, "error")
     ELSE IF "files" \in flight[w].ask THEN Asking(w, "affecting", "affected")
     ELSE Revalidate(w)
  /\ UNCHANGED <<coordinator, ui, head, config, tree, index, changes, seen, cancelEvent>>

AffectedAnswered(w) ==
  /\ flight[w].pc = "affecting" /\ call[w].pc = "done"
  /\ IF ~Succeeded(call[w]) THEN Returns(w, "error")
     ELSE /\ MoveTo(w, "dependents")
          /\ call' = [call EXCEPT ![w] = NoCall] /\ UNCHANGED fence
  /\ UNCHANGED <<coordinator, ui, head, config, tree, index, changes, seen, cancelEvent>>

(* dependent_files_result reads the index database itself; when it cannot, *)
(* the result carries a warning instead.                                   *)
ReadDependents(w) ==
  /\ flight[w].pc = "dependents"
  /\ \E read \in {{index}, {}} :
       flight' = [flight EXCEPT ![w].pc = "revalidating", ![w].answers = @ \cup read]
  /\ \/ /\ fence' = [fence EXCEPT ![w].pc = "recheck", ![w].said = "none"]
        /\ call' = [call EXCEPT ![w] = Calling("status")]
     \/ /\ fence' = [fence EXCEPT ![w].pc = "done", ![w].valid = FALSE]
        /\ UNCHANGED call
  /\ UNCHANGED <<coordinator, ui, head, config, tree, index, changes, seen, cancelEvent>>

Conclude(w) ==
  /\ flight[w].pc = "revalidating" /\ fence[w].pc = "done"
  /\ Returns(w, IF fence[w].valid THEN "available" ELSE "stale")
  /\ UNCHANGED <<coordinator, ui, head, config, tree, index, changes, seen, cancelEvent>>

-----------------------------------------------------------------------------
(* A worker: the end of _run                                               *)

Finally(w) ==
  /\ flight[w].pc = "finally"
  /\ active' = 0
  /\ providerDone' = TRUE
  /\ IF shuttingDown THEN LetGo(w, "ended") ELSE MoveTo(w, "post") /\ UNCHANGED fence
  /\ UNCHANGED <<busy, shuttingDown, generation, ui, Elsewhere>>

(* call_from_thread; there may be no loop any more to run it.              *)
Post(w) ==
  /\ flight[w].pc = "post"
  /\ IF ui.state = "closed" THEN LetGo(w, "release")
     ELSE MoveTo(w, "queued") /\ UNCHANGED fence
  /\ UNCHANGED <<coordinator, ui, Elsewhere>>

PostFails(w) ==
  /\ flight[w].pc = "queued" /\ ui.state = "closed"
  /\ LetGo(w, "release")
  /\ UNCHANGED <<coordinator, ui, Elsewhere>>

ReleaseIfCurrent(w) ==
  /\ flight[w].pc = "release"
  /\ busy' = Released(w)
  /\ MoveTo(w, "ended")
  /\ UNCHANGED <<shuttingDown, active, generation, providerDone, ui, fvars>>

-----------------------------------------------------------------------------

Others == UNCHANGED <<coordinator, flight, ui>>

(* What the worker thread of a flight does next.                           *)
Worker(w) ==
  \/ CallSteps(w) /\ Others /\ UNCHANGED <<head, config, tree, index, changes, seen, fence>>
  \/ FenceSteps(w) /\ Others
  \/ MakeExplorer(w) \/ Publish(w) \/ AbandonPrepared(w) \/ Explore(w)
  \/ QueryAnswered(w) \/ AffectedAnswered(w) \/ ReadDependents(w) \/ Conclude(w)
  \/ Finally(w) \/ Post(w) \/ PostFails(w) \/ ReleaseIfCurrent(w)

Deadline(w) ==
  DeadlinePasses(w) /\ Others /\ UNCHANGED <<head, config, tree, index, changes, seen, fence>>

Engine(w) ==
  \/ ProcessSteps(w) /\ Others /\ UNCHANGED <<head, config, tree, index, changes, seen, fence>>
  \/ (EngineStatus(w) \/ EngineSync(w)) /\ Others
  \/ EngineQuery(w)

Interface ==
  \/ Start \/ Cancel \/ CancelExplorer \/ WaitForProvider \/ Close
  \/ \E w \in Callers : DeliverIfCurrent(w) \/ CallbackEnds(w)

Environment == (RepositoryMoves \/ AnotherProcessSyncs) /\ Others

Next ==
  \/ Interface
  \/ Environment
  \/ \E w \in Callers : Worker(w) \/ Engine(w)

(* Threads are scheduled, the clock runs, and the UI thread goes on with   *)
(* what it began: a queued delivery, a callback, a cancellation.  Nothing  *)
(* is assumed of the engine, of other processes or of the user.            *)
Fairness ==
  /\ \A w \in Callers :
       /\ WF_vars(Worker(w)) /\ WF_vars(Deadline(w))
       /\ WF_vars(DeliverIfCurrent(w)) /\ WF_vars(CallbackEnds(w))
  /\ WF_vars(CancelExplorer)

Spec == Init /\ [][Next]_vars /\ Fairness

-----------------------------------------------------------------------------
(* One flight at a time: a second explorer never gets to work while the    *)
(* first has not let go, however often a flight is released; and a screen  *)
(* is handed the outcome of the newest command, while the observatory      *)
(* still waits for it, and nothing once it is shutting down.               *)
OneFlight ==
  /\ \A v, w \in Callers :
       flight[v].pc \in AtProvider /\ flight[w].pc \in AtProvider => v = w
  /\ ui.state = "callback" => ~shuttingDown /\ busy /\ generation = ui.flight

(* What moment m put in place, if m is one, one of those in between did.   *)
InPlace(of, m, from, to) ==
  m # 0 /\ \E n \in Versions : from <= n /\ n <= to /\ of[n] = of[m]

(* A result shown as available was answered, query by query, from indexes  *)
(* built while what its snapshot names was in place, or between two times  *)
(* of the same flight at which it was: nothing from before the flight,     *)
(* nothing from after the commit or the configuration had gone for good.   *)
(* The fence compares commits and bytes, so what went and came back it     *)
(* cannot tell from what stayed.                                           *)
AnswersAreOfTheSnapshot ==
  ui.state = "callback" =>
    LET f == flight[ui.flight]
        s == fence[ui.flight].snapshot
    IN  f.callback = "on_result" /\ f.result = "available" =>
          \A b \in f.answers :
            /\ InPlace(seen.head, s.head, f.since.head, b.head)
            /\ InPlace(seen.head, s.head, b.head, head)
            /\ InPlace(seen.config, s.config, f.since.config, b.config)
            /\ InPlace(seen.config, s.config, b.config, config)

(* When exit's wait ended because the provider was done, no engine process *)
(* is running and none will be started.                                    *)
QuietAfterWait ==
  ui.quiet => \A w \in Callers :
    ~call[w].running /\ flight[w].pc \in {"none", "post", "queued", "release", "ended"}

(* The observatory takes commands again after each, even from an engine    *)
(* that hangs or leaves a descendant holding its output.                   *)
BusyEnds == busy ~> ~busy
=============================================================================
