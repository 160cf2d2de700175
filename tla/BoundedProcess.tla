---------------------------- MODULE BoundedProcess ----------------------------
(***************************************************************************)
(* run_bounded: one shell-free provider call under one deadline, two       *)
(* drained pipes and a cancel event that another thread may set at any     *)
(* moment.  The call's own thread polls the process, then waits for the    *)
(* pipes to close; whatever stops it, it kills the process group and joins *)
(* the drains for a grace period only, because a descendant that left the  *)
(* group may hold a pipe for ever.  On POSIX; the Windows job object of    *)
(* the same function is not modelled.                                      *)
(***************************************************************************)
EXTENDS Naturals

CONSTANT Callers  \* the threads that call it, each with a cancel event

VARIABLES
  call,         \* Callers -> the call being made
  cancelEvent   \* Callers -> the event is set

bvars == <<call, cancelEvent>>

Ops == {"none", "status", "sync", "explore", "affected"}

Calls ==
  [pc: {"idle", "check", "spawn", "wait", "drain", "join", "done"}, op: Ops,
   running: BOOLEAN, piped: BOOLEAN, late: BOOLEAN, worked: BOOLEAN,
   rc: {"none", "zero", "other"},
   error: {"none", "cancelled", "launch_failed", "timeout"}]

BoundedTypeOK ==
  /\ call \in [Callers -> Calls]
  /\ cancelEvent \in [Callers -> BOOLEAN]

NoCall ==
  [pc |-> "idle", op |-> "none", running |-> FALSE, piped |-> FALSE,
   late |-> FALSE, worked |-> FALSE, rc |-> "none", error |-> "none"]

BoundedInit ==
  /\ call = [w \in Callers |-> NoCall]
  /\ cancelEvent = [w \in Callers |-> FALSE]

(* The call w makes next.                                                  *)
Calling(op) == [NoCall EXCEPT !.pc = "check", !.op = op]

(* What is returned: the return code, known or not, and the error.         *)
Finished(c, error) ==
  [NoCall EXCEPT !.pc = "done", !.op = c.op, !.rc = c.rc, !.error = error]

(* The call came back with the whole output of a process that ended well.  *)
Succeeded(c) == c.pc = "done" /\ c.error = "none" /\ c.rc = "zero"

-----------------------------------------------------------------------------
(* Lines of run_bounded                                                    *)

(* An event that is already set: nothing is launched.                      *)
CheckCancel(w) ==
  /\ call[w].pc = "check"
  /\ call' = [call EXCEPT ![w] =
       IF cancelEvent[w] THEN Finished(@, "cancelled")
       ELSE [@ EXCEPT !.pc = "spawn"]]
  /\ UNCHANGED cancelEvent

(* Popen: the process is the leader of a session and group of its own.     *)
Launch(w) ==
  /\ call[w].pc = "spawn"
  /\ \/ call' = [call EXCEPT ![w].pc = "wait", ![w].running = TRUE, ![w].piped = TRUE]
     \/ call' = [call EXCEPT ![w] = Finished(@, "launch_failed")]
  /\ UNCHANGED cancelEvent

(* Why a loop is left before what it waits for happened; cancellation is   *)
(* looked at before the clock.                                             *)
StopReason(w) ==
  IF cancelEvent[w] THEN "cancelled" ELSE IF call[w].late THEN "timeout" ELSE "none"

(* Killing the group ends the process and closes the pipes, unless a       *)
(* descendant that made a session of its own holds one.                    *)
Killed(c, reason) ==
  {[c EXCEPT !.pc = "join", !.error = reason, !.running = FALSE, !.piped = held,
             !.late = FALSE, !.rc = IF c.running THEN "other" ELSE @] :
    held \in {FALSE, c.piped}}

(* The first loop: until the process has ended.                            *)
WaitForExit(w) ==
  /\ call[w].pc = "wait"
  /\ \/ ~call[w].running /\ call' = [call EXCEPT ![w].pc = "drain"]
     \/ /\ call[w].running
        /\ StopReason(w) # "none"
        /\ \E c \in Killed(call[w], StopReason(w)) : call' = [call EXCEPT ![w] = c]
  /\ UNCHANGED cancelEvent

(* Mutant of WaitForDrains: the drains are joined without a deadline.      *)
WaitForDrainsForEver(w) ==
  /\ call[w].pc = "drain"
  /\ ~call[w].piped /\ call' = [call EXCEPT ![w] = Finished(@, "none")]
  /\ UNCHANGED cancelEvent

(* The second loop: until both drains have read the end of their pipe.  A  *)
(* process that has ended may still be reported cancelled or late here.    *)
WaitForDrains(w) ==
  /\ call[w].pc = "drain"
  /\ \/ ~call[w].piped /\ call' = [call EXCEPT ![w] = Finished(@, "none")]
     \/ /\ call[w].piped
        /\ StopReason(w) # "none"
        /\ \E c \in Killed(call[w], StopReason(w)) : call' = [call EXCEPT ![w] = c]
  /\ UNCHANGED cancelEvent

(* _join_until: for the pipes to close or the grace period to end.         *)
JoinDrains(w) ==
  /\ call[w].pc = "join"
  /\ call' = [call EXCEPT ![w] = Finished(@, @.error)]
  /\ UNCHANGED cancelEvent

-----------------------------------------------------------------------------
(* The process, its descendants and the clock                              *)

(* It ends well only after doing what it was asked.                        *)
ProcessExits(w) ==
  /\ call[w].running
  /\ \E rc \in {"zero", "other"} :
       /\ rc = "zero" => call[w].worked
       /\ call' = [call EXCEPT ![w].running = FALSE, ![w].rc = rc]
  /\ UNCHANGED cancelEvent

PipesClose(w) ==
  /\ call[w].piped /\ ~call[w].running
  /\ call' = [call EXCEPT ![w].piped = FALSE]
  /\ UNCHANGED cancelEvent

DeadlinePasses(w) ==
  /\ call[w].pc \in {"spawn", "wait", "drain"} /\ ~call[w].late
  /\ call' = [call EXCEPT ![w].late = TRUE]
  /\ UNCHANGED cancelEvent

CallSteps(w) ==
  CheckCancel(w) \/ Launch(w) \/ WaitForExit(w) \/ WaitForDrains(w) \/ JoinDrains(w)

ProcessSteps(w) == ProcessExits(w) \/ PipesClose(w) \/ DeadlinePasses(w)
=============================================================================
