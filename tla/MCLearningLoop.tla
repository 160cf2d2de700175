---------------------------- MODULE MCLearningLoop ----------------------------
(***************************************************************************)
(* Two commands on two assessments: a1 asked a human, a2 is its controlled *)
(* reassessment.                                                           *)
(***************************************************************************)
EXTENDS LearningLoop, TLC

CONSTANTS p1, p2, a1, a2, labelled, bare

Symmetry == Permutations(Commands)

MCOrigin == [a \in Assessments |-> IF a = a2 THEN a1 ELSE None]
MCRequired == [a \in Assessments |-> {}]
MCLabelled == [d \in Details |-> IF d = labelled THEN {"risk"} ELSE {}]

(* A clean edit, one whose control did not run, and one with a file that   *)
(* cannot be parsed next to one that can.                                  *)
Clean ==
  [head |-> "same", unexpected |-> FALSE, broad |-> FALSE, files |-> {"py_within"},
   approved |-> "coarse", newly |-> FALSE, contract |-> FALSE, risky |-> {},
   preview_missing |-> FALSE, passed |-> Checks, failed |-> {}]
MCOffered ==
  {Clean, [Clean EXCEPT !.passed = {}],
   [Clean EXCEPT !.files = {"py_within", "py_unparsable"}]}

Ask(op, a, status, detail, source) ==
  [op |-> op, asm |-> a, status |-> status, detail |-> detail, source |-> source]

(* Everything is asked of a2, enough of a1 for two assessments to be       *)
(* calibrated on.                                                          *)
MCAsked ==
  {Ask("verify", a, "skipped", bare, "host") : a \in Assessments}
    \cup {Ask("promote", a1, "skipped", bare, "host")}
    \cup {Ask("record", a2, "completed", labelled, "agent"),
          Ask("record", a2, "skipped", labelled, "host")}
    \cup {Ask("learn", a2, "skipped", bare, "host")}
    \cup {Ask("finalize", a, "completed", labelled, "host") : a \in Assessments}
===============================================================================
