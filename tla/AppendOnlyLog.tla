----------------------------- MODULE AppendOnlyLog ----------------------------
(***************************************************************************)
(* What the ledger promises: every operation takes effect whole or not at  *)
(* all, on the log as it is at that moment, and nothing but damage from    *)
(* outside ever changes what has been written.                             *)
(***************************************************************************)
EXTENDS LedgerOps

VARIABLE log

Init == log \in {Empty, Old}

Perform(o) ==
  /\ Accepts(log, o, Undamaged(log, Sources) /\ Sourced(log, log["lessons"]))
  /\ log' = [t \in Tables |-> IF t \in Touched(o.kind)
                              THEN Append(log[t], Content(Named(log, o))) ELSE log[t]]

(* Somebody edits a row of the file behind the program's back.             *)
Damage(t, i) == log' = [log EXCEPT ![t][i].says = Garbled]

Next ==
  \/ \E o \in Ops : Perform(o)
  \/ \E t \in Tables : \E i \in DOMAIN log[t] : Damage(t, i)

Spec == Init /\ [][Next]_log
===============================================================================
