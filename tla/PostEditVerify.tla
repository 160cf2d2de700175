---------------------------- MODULE PostEditVerify ----------------------------
(***************************************************************************)
(* The post-edit check as a function of what it is given: the tier and the *)
(* classification git_change_verifier derives from the changed files, and  *)
(* the decision post_assessment_guardrails takes on them.  A change kind   *)
(* is kept as its relation to the kind that was assessed.                  *)
(***************************************************************************)
EXTENDS Naturals, FiniteSets

CONSTANT Checks  \* the checks a binding or a sanction may require

(* From the mildest to the most severe.                                    *)
DECISION_RANK ==
  [proceed |-> 0, inspect_first |-> 1, test_first |-> 2, revise_safer |-> 3,
   ask_human |-> 4, reject |-> 5]
Decisions == DOMAIN DECISION_RANK

(***************************************************************************)
(* What one changed file contributes.  Python is parsed; another language  *)
(* goes through the graph, when the graph is fresh.                        *)
(***************************************************************************)
Python == {"py_unparsable", "py_cosmetic", "py_within", "py_worse"}
Graph == {"graph_unresolved", "graph_within", "graph_worse",
          "semantic_within", "semantic_worse"}
FileResults == Python \cup Graph \cup {"graph_absent", "not_code"}

Semantic == {"semantic_within", "semantic_worse"}
Worse == {"py_worse", "graph_worse", "semantic_worse"}
Unproven == {"py_unparsable", "graph_unresolved"}

(* reclassification_attempted: some file was analysed.                     *)
Attempted(files) == files \cap (Python \cup Graph) # {}

(* actual_structure_tier: the most informative tier that was used.         *)
Tier(files) ==
  IF files \cap Semantic # {} THEN "codegraph_semantic"
  ELSE IF files \cap Graph # {} THEN "codegraph_structural"
  ELSE IF files \cap Python # {} THEN "python_ast"
  ELSE "unavailable"

(* actual_max_change_kind against the one assessed.  A file that could not *)
(* be classified makes the whole diff UNKNOWN, whatever the others show.   *)
Kind(files) ==
  IF files \cap Unproven # {} \/ ~Attempted(files) THEN "UNKNOWN"
  ELSE IF files \cap Worse # {} THEN "worse" ELSE "within"

-------------------------------------------------------------------------------
(***************************************************************************)
(* The evidence of one verify, next to what the assessment approved.  The  *)
(* risky entries are those that were triggered and forbid, or want a       *)
(* necessity nobody recorded; a reassessment entry adds nothing, since     *)
(* verify triggers only signals that have a rule of their own.             *)
(***************************************************************************)
Evidence ==
  [head: {"same", "moved", "unknown"}, unexpected: BOOLEAN, broad: BOOLEAN,
   files: SUBSET FileResults, approved: {"codegraph_semantic", "coarse"},
   newly: BOOLEAN, contract: BOOLEAN,
   risky: SUBSET {"forbidden", "avoid"}, preview_missing: BOOLEAN, passed: SUBSET Checks, failed: SUBSET Checks]

ClassificationFailed(e) == Kind(e.files) = "UNKNOWN" /\ Attempted(e.files)
Mismatch(e) == Kind(e.files) = "worse"
ScopeDrift(e) == e.unexpected \/ e.broad \/ Mismatch(e)

(* The rules that fired, each with the decision it asks for.               *)
Candidates(e, required) ==
  {"proceed"}
    \cup (IF \/ e.head # "same" \/ e.unexpected \/ ClassificationFailed(e) \/ e.newly
             \/ /\ e.approved = "codegraph_semantic"
                /\ Tier(e.files) # "codegraph_semantic"
             \/ e.preview_missing
          THEN {"inspect_first"} ELSE {})
    \cup (IF required \subseteq e.passed \cup e.failed THEN {} ELSE {"test_first"})
    \cup (IF \/ e.broad \/ Mismatch(e) \/ e.contract \/ "avoid" \in e.risky
             \/ e.failed # {}
          THEN {"ask_human"} ELSE {})
    \cup (IF "forbidden" \in e.risky THEN {"reject"} ELSE {})

(* evaluate: the most severe decision wins.                                *)
PreCommit(e, required) ==
  CHOOSE d \in Candidates(e, required) :
    \A o \in Candidates(e, required) : DECISION_RANK[o] <= DECISION_RANK[d]

(* What verify withdraws a sanction on: the edit left the approved         *)
(* envelope, or could not be shown to have stayed in it.                   *)
Drift(e) == ScopeDrift(e) \/ e.head # "same" \/ ClassificationFailed(e)
===============================================================================
