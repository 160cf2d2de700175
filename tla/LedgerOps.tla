------------------------------- MODULE LedgerOps ------------------------------
(***************************************************************************)
(* What the ledger records, seen as a log for each table: the operations   *)
(* of the store that add to it, when each is accepted and what it adds.    *)
(* A content says of which assessment it is; the rows an operation writes  *)
(* to one table (a manifest, the errors of a measurement, the facts of a   *)
(* promotion) are one row here, and every assessment has a guidance        *)
(* packet.                                                                 *)
(***************************************************************************)
EXTENDS Integers, Sequences

CONSTANTS
  Names,    \* the numbers of the assessments commands may name
  Triggers  \* the trigger keys of promotions

ASSUME NamesAssumption == Names \subseteq Nat

(* The hash-chained tables, in the order validate_chain takes them, and    *)
(* the two kept beside them.                                               *)
Chained ==
  <<"assessments", "sanctions", "guardrails", "outcomes", "predictions",
    "errors", "snapshots", "facts", "lessons">>
Chains == {Chained[i] : i \in DOMAIN Chained}
Tables == Chains \cup {"packets", "search"}

Garbled == "garbled"  \* what damage leaves of a content
ASSUME TriggersAssumption == Garbled \notin Triggers

Op(kind, a, says) == [kind |-> kind, of |-> a, says |-> says]

(* Which tables an operation writes to, in which order.                    *)
Writes(kind) ==
  CASE kind = "assess"      -> <<"assessments", "packets", "predictions">>
    [] kind = "sanction"    -> <<"sanctions">>
    [] kind = "verify"      -> <<"guardrails">>
    [] kind = "outcome"     -> <<"outcomes">>
    [] kind = "measure"     -> <<"errors", "snapshots">>
    [] kind = "promote"     -> <<"snapshots", "facts">>
    [] kind = "materialize" -> <<"lessons", "search">>

Touched(kind) == {Writes(kind)[i] : i \in DOMAIN Writes(kind)}

(* What may be asked for.  An assessment is not named: it gets its number. *)
Ops ==
  {Op("assess", 0, "row")}
    \cup {Op("verify", a, d) : a \in Names, d \in {"proceed", "halt"}}
    \cup {Op("promote", 0, k) : k \in Triggers}
    \cup {Op(k, a, "row") : k \in {"sanction", "outcome", "measure", "materialize"},
                            a \in Names}

(* _next_assessment_row_id, taken within the transaction.                  *)
Named(log, o) ==
  IF o.kind = "assess" THEN [o EXCEPT !.of = Len(log["assessments"]) + 1] ELSE o

Content(o) == [of |-> o.of, says |-> o.says]

Has(log, t, a) == \E i \in DOMAIN log[t] : log[t][i].of = a

(* latest_guardrails lets the assessment proceed.                          *)
Standing(log, a) ==
  \E i \in DOMAIN log["guardrails"] :
    /\ log["guardrails"][i].of = a /\ log["guardrails"][i].says = "proceed"
    /\ \A j \in DOMAIN log["guardrails"] : j > i => log["guardrails"][j].of # a

(* Every lesson still has its source: a closed assessment that stands.     *)
Sourced(log, lessons) ==
  \A i \in DOMAIN lessons :
    Has(log, "outcomes", lessons[i].of) /\ Standing(log, lessons[i].of)

Undamaged(log, ts) == \A t \in ts : \A i \in DOMAIN log[t] : log[t][i].says # Garbled

(* What a lesson is learned from.                                          *)
Sources == {"assessments", "packets", "outcomes", "guardrails", "lessons"}

(* Each operation reads within its transaction what it rests on.  lawful:  *)
(* the chains a lesson is learned from are valid.                          *)
Accepts(log, o, lawful) ==
  CASE o.kind \in {"assess", "sanction"} -> TRUE
    [] o.kind = "verify"      -> Has(log, "assessments", o.of)
    [] o.kind = "outcome"     -> Has(log, "assessments", o.of) /\ ~Has(log, "outcomes", o.of)
    [] o.kind = "measure"     -> Has(log, "assessments", o.of) /\ ~Has(log, "errors", o.of)
    [] o.kind = "promote"     -> \A i \in DOMAIN log["snapshots"] :
                                   log["snapshots"][i].says # o.says
    [] o.kind = "materialize" -> /\ lawful
                                 /\ Standing(log, o.of)
                                 /\ ~Has(log, "lessons", o.of)
                                 /\ Has(log, "outcomes", o.of)

(* The ledger as an older version of the program left it: one assessment,  *)
(* verified and completed.                                                 *)
Empty == [t \in Tables |-> <<>>]
Old ==
  [Empty EXCEPT !["assessments"] = <<Content(Op("assess", 1, "row"))>>,
                !["packets"] = <<Content(Op("assess", 1, "row"))>>,
                !["predictions"] = <<Content(Op("assess", 1, "row"))>>,
                !["guardrails"] = <<Content(Op("verify", 1, "proceed"))>>,
                !["outcomes"] = <<Content(Op("outcome", 1, "row"))>>]
===============================================================================
