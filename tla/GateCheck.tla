------------------------------- MODULE GateCheck -------------------------------
(***************************************************************************)
(* The gate a host asks before an edit (gate_check_adapter.decide).  It is *)
(* a reader: it probes the graph, reads HEAD, the newest restriction, the  *)
(* newest rows and the worktree one after another, with no transaction,    *)
(* while an assessment adds its row, HEAD moves and files are edited.      *)
(* Checks do not write, so one at a time is enough.                        *)
(***************************************************************************)
EXTENDS Integers, Sequences, FiniteSets

CONSTANTS
  Changes,   \* the edits an agent may try
  FilesOf,   \* the files each touches
  After,     \* After[c][f][w]: what c makes of version w of f
  Versions,  \* the versions of a file's text
  Commits,   \* the commits HEAD may be at
  RowKinds,  \* the outcomes of an assessment
  Limit,     \* _QUERY_LIMIT
  MaxRows,   \* bound: assessments
  MaxMoves   \* bound: faults, and moves of HEAD or of a file

Files == UNION {FilesOf[c] : c \in Changes}

(* What the gate reads of a row: its decision, and whether a proceed still *)
(* requires confirmation, its replay metadata is valid, and a reject may   *)
(* be overridden and has a risk summary.                                   *)
Kinds ==
  [decision: {"proceed", "revise_safer", "inspect_first", "test_first", "ask_human", "reject"},
   confirm: BOOLEAN, replay: BOOLEAN, overridable: BOOLEAN]

ASSUME ChangesAssumption ==
  \A c \in Changes : FilesOf[c] # {} /\ DOMAIN After[c] = FilesOf[c]
ASSUME KindsAssumption == RowKinds \subseteq Kinds
ASSUME NumbersAssumption ==
  Versions # {} /\ Limit \in Nat \ {0} /\ MaxRows \in Nat /\ MaxMoves \in Nat

VARIABLES
  head,       \* the commit HEAD is at
  worktree,   \* the version of every file
  rows,       \* the assessments table, oldest first
  assessing,  \* the assessment under way, if any
  pc,         \* where the check is
  check,      \* what it was asked and has read
  answer,     \* what it answered
  moves       \* faults and moves so far

vars == <<head, worktree, rows, assessing, pc, check, answer, moves>>

None == <<>>
(* _binding: every file with the text the edit gives it.                   *)
Binding(c, fs, w) == [f \in fs |-> After[c][f][w[f]]]
Texts == UNION {{After[c][f][v] : v \in Versions, f \in FilesOf[c]} : c \in Changes}
Bindings == {None} \cup UNION {[fs -> Texts] : fs \in SUBSET Files}

Rows == [commit: Commits, files: SUBSET Files, binding: Bindings, kind: RowKinds]
Assessments == [commit: Commits, change: Changes, binding: Bindings, bound: BOOLEAN]
Checks == [change: Changes, targets: SUBSET Files, impact: {"high", "low", "unknown"},
           head: Commits, pending: Nat, seen: Nat, attempted: Bindings,
           began: Nat, commit: Commits, intended: Bindings, disturbed: BOOLEAN]

(* ALLOWED_PERMISSION_TIERS: GateDecision raises on any other pair.        *)
Allowed ==
  ({"allow"} \X {"pass", "fail_open", "consulted"})
    \cup ({"ask"} \X {"consulted_review", "consulted_reject_review"})
    \cup ({"deny"} \X {"must_consult", "candidate_unverifiable", "candidate_unbound",
                       "candidate_mismatch", "candidate_incomplete", "consulted_revise",
                       "consulted_prerequisite", "consulted_review",
                       "consulted_review_unavailable"})

(* ALLOWED_RISK_DECISIONS: the decisions each answer may rest on.          *)
Explained ==
  {<<"allow", "consulted", "proceed">>, <<"deny", "consulted_revise", "revise_safer">>,
   <<"deny", "consulted_prerequisite", "inspect_first">>,
   <<"deny", "consulted_prerequisite", "test_first">>,
   <<"ask", "consulted_review", "ask_human">>, <<"ask", "consulted_review", "proceed">>,
   <<"ask", "consulted_reject_review", "reject">>, <<"deny", "consulted_review", "reject">>,
   <<"deny", "consulted_review_unavailable", "ask_human">>,
   <<"deny", "consulted_review_unavailable", "proceed">>}

-------------------------------------------------------------------------------
(* A row that restricts the commit: any hold, or a proceed still to be     *)
(* confirmed.                                                              *)
Restrictive(i, h) ==
  /\ rows[i].commit = h
  /\ rows[i].kind.decision # "proceed" \/ rows[i].kind.confirm

Newest(s) == IF s = {} THEN 0 ELSE CHOOSE i \in s : \A j \in s : j <= i

(* Mutant of Pending: a proceed never restricts.                           *)
PendingDecisions(h) ==
  Newest({i \in DOMAIN rows : rows[i].commit = h /\ rows[i].kind.decision # "proceed"})

(* _query_pending_restriction                                              *)
Pending(h) == Newest({i \in DOMAIN rows : Restrictive(i, h)})

(* Mutant of PathMatches: rows from before the restriction count.          *)
PathMatchesAnyAge(k) ==
  {i \in (k.seen - Limit + 1)..k.seen \cap DOMAIN rows :
     rows[i].commit = k.head /\ k.targets \subseteq rows[i].files}

(* The rows of _query_assessments that cover every target at the HEAD read,*)
(* none older than the pending restriction.                                *)
PathMatches(k) ==
  {i \in (k.seen - Limit + 1)..k.seen \cap DOMAIN rows :
     i >= k.pending /\ rows[i].commit = k.head /\ k.targets \subseteq rows[i].files}

(* Mutant of Matched: any exact row.                                       *)
MatchedAny(k, attempted) ==
  LET exact == {i \in PathMatches(k) :
                  attempted # None /\ rows[i].binding = attempted} IN
  IF exact # {} THEN CHOOSE i \in exact : \A j \in exact : i <= j
  ELSE Newest(PathMatches(k))

(* _matched_row: the newest exact row, or else the newest of the files.    *)
Matched(k, attempted) ==
  LET exact == {i \in PathMatches(k) :
                  attempted # None /\ rows[i].binding = attempted} IN
  IF exact # {} THEN Newest(exact) ELSE Newest(PathMatches(k))

ReturnCandidate(tier, i) == [permission |-> "deny", tier |-> tier, row |-> i]
Continue(tier, i) == [permission |-> "allow", tier |-> tier, row |-> i]
RequestHuman(tier, i) == [permission |-> "ask", tier |-> tier, row |-> i]

(* What an exact row answers; consult: no human is there to approve.       *)
Exact(i, consult) ==
  LET kind == rows[i].kind IN
  CASE kind.decision = "revise_safer" -> ReturnCandidate("consulted_revise", i)
    [] kind.decision \in {"inspect_first", "test_first"} -> ReturnCandidate("consulted_prerequisite", i)
    [] kind.decision = "reject" ->
         IF ~consult /\ kind.replay /\ kind.overridable
         THEN RequestHuman("consulted_reject_review", i) ELSE ReturnCandidate("consulted_review", i)
    [] kind.decision = "ask_human" \/ (kind.decision = "proceed" /\ kind.confirm) ->
         IF consult \/ ~kind.replay
         THEN ReturnCandidate("consulted_review_unavailable", i) ELSE RequestHuman("consulted_review", i)
    [] OTHER -> Continue("consulted", i)

(* The rows and the bytes compared.                                        *)
Compare(k, attempted, consult) ==
  LET i == Matched(k, attempted) IN
  IF i = 0 THEN ReturnCandidate("must_consult", 0)
  ELSE LET expected == rows[i].binding IN
    IF expected = None THEN ReturnCandidate("candidate_unbound", 0)
    ELSE IF attempted = None THEN ReturnCandidate("candidate_unverifiable", 0)
    ELSE IF DOMAIN attempted # DOMAIN expected THEN ReturnCandidate("candidate_incomplete", 0)
    ELSE IF attempted # expected THEN ReturnCandidate("candidate_mismatch", 0)
    ELSE Exact(i, consult)

-------------------------------------------------------------------------------
NoAnswer == [permission |-> "none", tier |-> "none", row |-> 0]

(* The states, and the contract of the answers: permission and tier are    *)
(* one of the pairs GateDecision admits, and the row they rest on has a    *)
(* decision that the pair may be explained by.                             *)
TypeOK ==
  /\ head \in Commits
  /\ worktree \in [Files -> Versions]
  /\ rows \in Seq(Rows)
  /\ assessing \in Assessments \cup {None}
  /\ pc \in {"idle", "head", "pending", "rows", "bind", "done", "over"}
  /\ check \in Checks \cup {None}
  /\ pc \notin {"idle", "over"} => check \in Checks
  /\ answer # NoAnswer =>
       /\ <<answer.permission, answer.tier>> \in Allowed
       /\ answer.row # 0 =>
            <<answer.permission, answer.tier, rows[answer.row].kind.decision>> \in Explained
  /\ moves \in 0..MaxMoves

(* Versions are names: any one can be the first.                           *)
Init ==
  /\ head \in Commits
  /\ worktree = [f \in Files |-> CHOOSE v \in Versions : TRUE]
  /\ rows = <<>>
  /\ assessing = None
  /\ pc = "idle"
  /\ check = None
  /\ answer = NoAnswer
  /\ moves = 0

(* A fault, or a move of what the check reads, spoils the check under way. *)
Disturb ==
  /\ moves < MaxMoves
  /\ moves' = moves + 1
  /\ check' = IF pc \in {"idle", "done", "over"} THEN check ELSE [check EXCEPT !.disturbed = TRUE]

-------------------------------------------------------------------------------
(***************************************************************************)
(* assess, as far as it writes what the gate reads                         *)
(***************************************************************************)
Assess(c) ==
  /\ assessing = None
  /\ Len(rows) < MaxRows
  /\ assessing' = [commit |-> head, change |-> c, binding |-> None, bound |-> FALSE]
  /\ UNCHANGED <<head, worktree, rows, pc, check, answer, moves>>

(* The candidate bound to the worktree, or not materializable.             *)
BindCandidate ==
  /\ assessing # None
  /\ ~assessing.bound
  /\ \E b \in {Binding(assessing.change, FilesOf[assessing.change], worktree), None} :
       assessing' = [assessing EXCEPT !.binding = b, !.bound = TRUE]
  /\ UNCHANGED <<head, worktree, rows, pc, check, answer, moves>>

Persist ==
  /\ assessing # None
  /\ assessing.bound
  /\ \E kind \in RowKinds :
       rows' = Append(rows, [commit |-> assessing.commit, files |-> FilesOf[assessing.change],
                             binding |-> assessing.binding, kind |-> kind])
  /\ assessing' = None
  /\ UNCHANGED <<head, worktree, pc, check, answer, moves>>

-------------------------------------------------------------------------------
(***************************************************************************)
(* decide                                                                  *)
(***************************************************************************)
Answer(a) == pc' = "done" /\ answer' = a

(* The host asks about an edit of some files of a change; the graph is     *)
(* probed.  apply-candidate asks as if the impact were high                *)
(* (require_exact_match).  One check is followed: it leaves nothing behind.*)
Ask(c, fs) ==
  /\ pc = "idle"
  /\ \E impact \in {"high", "low", "unknown"} :
       check' = [change |-> c, targets |-> fs, impact |-> impact,
                 head |-> head, pending |-> 0, seen |-> 0, attempted |-> None,
                 began |-> Len(rows), commit |-> head,
                 intended |-> Binding(c, fs, worktree), disturbed |-> FALSE]
  /\ pc' = "head"
  /\ UNCHANGED <<head, worktree, rows, assessing, answer, moves>>

Consults(k) == k.impact = "high"

(* Nothing known against the edit.                                         *)
Unconsulted(k) == Continue(IF k.impact = "unknown" THEN "fail_open" ELSE "pass", 0)

(* Not an edit, or a patch that cannot be parsed.                          *)
AskUntargeted ==
  /\ pc = "idle"
  /\ \E a \in {Continue("pass", 0), ReturnCandidate("candidate_unverifiable", 0)} :
       answer' = a
  /\ pc' = "over"
  /\ UNCHANGED <<head, worktree, rows, assessing, check, moves>>

ReadHead ==
  /\ pc = "head"
  /\ check' = [check EXCEPT !.head = head]
  /\ pc' = IF Consults(check) THEN "rows" ELSE "pending"
  /\ UNCHANGED <<head, worktree, rows, assessing, answer, moves>>

(* No repository root or no HEAD.                                          *)
HeadFails ==
  /\ pc = "head"
  /\ Disturb
  /\ \E a \in {Continue("fail_open", 0),
               IF Consults(check) THEN Continue("fail_open", 0) ELSE Unconsulted(check)} :
       Answer(a)
  /\ UNCHANGED <<head, worktree, rows, assessing>>

QueryPending ==
  /\ pc = "pending"
  /\ check' = [check EXCEPT !.pending = Pending(check.head)]
  /\ IF Pending(check.head) = 0 THEN Answer(Unconsulted(check))
     ELSE pc' = "rows" /\ UNCHANGED answer
  /\ UNCHANGED <<head, worktree, rows, assessing, moves>>

QueryRows ==
  /\ pc = "rows"
  /\ check' = [check EXCEPT !.seen = Len(rows)]
  /\ pc' = "bind"
  /\ UNCHANGED <<head, worktree, rows, assessing, answer, moves>>

(* The ledger cannot be read.                                              *)
StoreFails ==
  /\ pc \in {"pending", "rows"}
  /\ Disturb
  /\ Answer(Continue("fail_open", 0))
  /\ UNCHANGED <<head, worktree, rows, assessing>>

Decide ==
  /\ pc = "bind"
  /\ LET attempted == Binding(check.change, check.targets, worktree) IN
     /\ check' = [check EXCEPT !.attempted = attempted]
     /\ \E consult \in BOOLEAN : Answer(Compare(check, attempted, consult))
  /\ UNCHANGED <<head, worktree, rows, assessing, moves>>

(* The edit does not fit the worktree: there are no bytes to compare.      *)
DecideUnmaterialized ==
  /\ pc = "bind"
  /\ Disturb
  /\ \E consult \in BOOLEAN : Answer(Compare(check, None, consult))
  /\ UNCHANGED <<head, worktree, rows, assessing>>

-------------------------------------------------------------------------------
MoveHead(h) ==
  /\ Disturb
  /\ h # head
  /\ head' = h
  /\ UNCHANGED <<worktree, rows, assessing, pc, answer>>

EditFile(f, v) ==
  /\ Disturb
  /\ v # worktree[f]
  /\ worktree' = [worktree EXCEPT ![f] = v]
  /\ UNCHANGED <<head, rows, assessing, pc, answer>>

Next ==
  \/ \E c \in Changes : Assess(c)
  \/ BindCandidate \/ Persist
  \/ \E c \in Changes : \E fs \in (SUBSET FilesOf[c]) \ {{}} : Ask(c, fs)
  \/ AskUntargeted
  \/ ReadHead \/ HeadFails \/ QueryPending \/ QueryRows \/ StoreFails
  \/ Decide \/ DecideUnmaterialized
  \/ \E h \in Commits : MoveHead(h)
  \/ \E f \in Files, v \in Versions : EditFile(f, v)

Spec == Init /\ [][Next]_vars

-------------------------------------------------------------------------------
(***************************************************************************)
(* Properties                                                              *)
(***************************************************************************)
(* The newest of the first n rows about the very bytes asked about.        *)
Word(n) ==
  Newest({i \in 1..n : rows[i].commit = check.commit /\ rows[i].binding = check.intended})

Quiet == pc = "done" /\ ~check.disturbed
Held(i) == i # 0 /\ Restrictive(i, check.commit)
Cleared(i) == i # 0 /\ ~Restrictive(i, check.commit)

(* A hold on exact bytes stands: while the newest word on them is          *)
(* restrictive, the gate does not let them through, whatever other rows    *)
(* are added meanwhile, however many, and whatever the graph says.         *)
ExactHoldStands ==
  Quiet /\ (\A n \in check.began..Len(rows) : Held(Word(n))) => answer.permission # "allow"

(* An older approval is not shadowed: where consultation is required, the  *)
(* edit whose newest word is a clean proceed among the rows the gate reads *)
(* is let through, whatever newer candidates the files have.               *)
ExactProceedIsHeard ==
  Quiet /\ Consults(check)
    /\ (\A n \in check.began..Len(rows) : Cleared(Word(n)) /\ Word(n) > Len(rows) - Limit)
  => answer.permission = "allow"

(* The newest word on the exact bytes decides, either way.                 *)
ExactWordDecides == ExactHoldStands /\ ExactProceedIsHeard

(* Once anything is restricted at this commit, an edit no graph vouches    *)
(* for passes only by an exact proceed newer than the restriction.         *)
RestrictionCloses ==
  Quiet /\ ~Consults(check) /\ answer.permission = "allow" =>
    \A i \in 1..check.began :
      Restrictive(i, check.commit) => answer.tier = "consulted" /\ answer.row > i

(* Whatever moved meanwhile, an authorized edit is what was assessed: the  *)
(* bytes it makes of the worktree the gate read, a proceed that needs no   *)
(* confirmation at the HEAD it read, and no newer word among its rows.     *)
AllowedAsAssessed ==
  pc = "done" /\ answer.tier = "consulted" =>
    /\ rows[answer.row].commit = check.head
    /\ rows[answer.row].binding = check.attempted
    /\ ~Restrictive(answer.row, check.head)
    /\ \A i \in (answer.row + 1)..check.seen :
         ~ (rows[i].commit = check.head /\ rows[i].binding = check.attempted)
===============================================================================
