---------------------------- MODULE GateCheckProofs ----------------------------
(***************************************************************************)
(* For any edits, ledger and window: what the gate lets through is what    *)
(* was assessed, whatever moves between its reads.  And while nothing but  *)
(* the ledger moves, the newest word on the bytes decides and a            *)
(* restriction of the commit is not passed by.                             *)
(***************************************************************************)
EXTENDS GateCheck, WellFoundedInduction, TLAPS

(* A set of rows has a newest one.                                         *)
LEMMA NewestIsLast ==
  ASSUME NEW n \in Nat, NEW S, S \subseteq 1..n, S # {}
  PROVE  Newest(S) \in S /\ Newest(S) \in Nat /\ \A j \in S : j <= Newest(S)
<1> DEFINE T == {n - i : i \in S}
<1>1. T \subseteq Nat /\ T # {}
  <2>1. \A i \in S : n - i \in Nat
    OBVIOUS
  <2>2. PICK i \in S : TRUE
    OBVIOUS
  <2>3. n - i \in T
    OBVIOUS
  <2> QED
    BY <2>1, <2>3
<1>2. PICK x \in T : \A y \in T : ~ (<<y, x>> \in OpToRel(<, Nat))
  <2> HIDE DEF T
  <2> QED
    BY <1>1, WFMin, NatLessThanWellFounded
<1>3. \A y \in T : ~ (y < x)
  BY <1>1, <1>2 DEF OpToRel
<1>4. PICK i \in S : x = n - i
  OBVIOUS
<1>5. \A j \in S : j <= i
  <2> SUFFICES ASSUME NEW j \in S PROVE j <= i
    OBVIOUS
  <2>1. n - j \in T
    OBVIOUS
  <2>2. ~ (n - j < n - i)
    BY <1>3, <1>4, <2>1
  <2>3. i \in Int /\ j \in Int
    OBVIOUS
  <2> QED
    BY <2>2, <2>3
<1>6. Newest(S) = CHOOSE k \in S : \A j \in S : j <= k
  BY DEF Newest
<1>7. Newest(S) \in S /\ \A j \in S : j <= Newest(S)
  BY <1>5, <1>6
<1>8. \A j \in S : j \in Nat
  OBVIOUS
<1> QED
  BY <1>7, <1>8

-------------------------------------------------------------------------------
(* A bound row is bound to the text of every file of its scope.            *)
Whole(r) == r.binding # None => DOMAIN r.binding = r.files

LedgerInv ==
  /\ head \in Commits
  /\ worktree \in [Files -> Versions]
  /\ rows \in Seq(Rows)
  /\ \A i \in DOMAIN rows : Whole(rows[i])
  /\ assessing \in Assessments \cup {None}
  /\ assessing # None /\ assessing.binding # None =>
       DOMAIN assessing.binding = FilesOf[assessing.change]

CheckInv ==
  /\ pc \in {"idle", "head", "pending", "rows", "bind", "done", "over"}
  /\ check \in Checks \cup {None}
  /\ pc \notin {"idle", "over"} =>
       /\ check \in Checks
       /\ check.targets \subseteq FilesOf[check.change]
       /\ check.seen <= Len(rows)
  /\ moves \in 0..MaxMoves

Permitted(a) ==
  /\ <<a.permission, a.tier>> \in Allowed
  /\ a.row # 0 => /\ a.row \in DOMAIN rows
                  /\ <<a.permission, a.tier, rows[a.row].kind.decision>> \in Explained

(* What authorizes: the last clause is AllowedAsAssessed.                  *)
Authorized(a, k, attempted) ==
  a.tier = "consulted" =>
    /\ a.row \in DOMAIN rows
    /\ rows[a.row].commit = k.head
    /\ rows[a.row].binding = attempted
    /\ ~Restrictive(a.row, k.head)
    /\ \A i \in (a.row + 1)..k.seen :
         ~ (rows[i].commit = k.head /\ rows[i].binding = attempted)

AnswerInv ==
  /\ answer # NoAnswer => Permitted(answer)
  /\ pc = "done" => Authorized(answer, check, check.attempted)

IInv == LedgerInv /\ CheckInv /\ AnswerInv

-------------------------------------------------------------------------------
(* A binding covers the files it was made for.                             *)
LEMMA BindingTyped ==
  ASSUME NEW c \in Changes, NEW fs \in SUBSET FilesOf[c], worktree \in [Files -> Versions]
  PROVE  /\ Binding(c, fs, worktree) \in Bindings
         /\ DOMAIN Binding(c, fs, worktree) = fs
<1>1. fs \in SUBSET Files
  BY DEF Files
<1>2. \A f \in fs : After[c][f][worktree[f]] \in Texts
  BY <1>1 DEF Texts
<1>3. Binding(c, fs, worktree) \in [fs -> Texts]
  BY <1>2 DEF Binding
<1> QED
  BY <1>1, <1>3 DEF Bindings

(* A row of the ledger is one.                                             *)
LEMMA RowTyped ==
  ASSUME LedgerInv, NEW i \in DOMAIN rows
  PROVE  rows[i] \in Rows /\ rows[i].kind \in RowKinds
<1>1. rows \in Seq(Rows)
  BY DEF LedgerInv
<1>2. rows[i] \in Rows
  BY <1>1
<1> QED
  BY <1>2 DEF Rows

(* The row that is matched is the newest exact one the gate could read, if *)
(* there is one.                                                           *)
LEMMA MatchedRow ==
  ASSUME LedgerInv, NEW k \in Checks, k.seen <= Len(rows), NEW attempted,
         Matched(k, attempted) # 0
  PROVE  /\ Matched(k, attempted) \in DOMAIN rows
         /\ Matched(k, attempted) \in PathMatches(k)
         /\ attempted # None =>
              \A i \in PathMatches(k) :
                rows[i].binding = attempted =>
                  i <= Matched(k, attempted)
                    /\ rows[Matched(k, attempted)].binding = attempted
<1> DEFINE paths == PathMatches(k)
           exact == {i \in paths : attempted # None /\ rows[i].binding = attempted}
<1>1. Len(rows) \in Nat /\ DOMAIN rows = 1..Len(rows)
  BY DEF LedgerInv
<1>2. paths \subseteq 1..Len(rows)
  BY <1>1 DEF PathMatches
<1>3. Matched(k, attempted) = IF exact # {} THEN Newest(exact) ELSE Newest(paths)
  BY DEF Matched
<1>4. CASE exact # {}
  <2>1. exact \subseteq 1..Len(rows)
    BY <1>2
  <2> HIDE DEF exact
  <2>2. Newest(exact) \in exact /\ \A j \in exact : j <= Newest(exact)
    BY <1>1, <1>4, <2>1, NewestIsLast
  <2> QED
    BY <1>1, <1>2, <1>3, <1>4, <2>2 DEF exact
<1>5. CASE exact = {}
  <2>1. paths # {}
    BY <1>3, <1>5 DEF Newest
  <2> HIDE DEF paths
  <2>2. Newest(paths) \in paths
    BY <1>1, <1>2, <2>1, NewestIsLast
  <2> QED
    BY <1>1, <1>2, <1>3, <1>5, <2>2 DEF paths
<1> QED
  BY <1>4, <1>5

(* What an exact row answers may be answered, and only a clean proceed     *)
(* authorizes.                                                             *)
LEMMA ExactAnswers ==
  ASSUME LedgerInv, NEW i \in DOMAIN rows, NEW consult \in BOOLEAN
  PROVE  /\ Permitted(Exact(i, consult))
         /\ Exact(i, consult).row = i
         /\ Exact(i, consult).tier = "consulted" =>
              rows[i].kind.decision = "proceed" /\ ~rows[i].kind.confirm
<1> DEFINE kind == rows[i].kind
<1> USE DEF Permitted, Allowed, Explained
<1>1. kind.decision \in {"proceed", "revise_safer", "inspect_first", "test_first",
                          "ask_human", "reject"}
  <2>1. kind \in RowKinds
    BY RowTyped
  <2> HIDE DEF kind
  <2> QED
    BY <2>1, KindsAssumption DEF Kinds
<1>2. i # 0
  BY DEF LedgerInv
<1>3. CASE kind.decision = "revise_safer"
  <2>1. Exact(i, consult) = ReturnCandidate("consulted_revise", i)
    BY <1>3 DEF Exact
  <2> QED
    BY <1>2, <1>3, <2>1 DEF ReturnCandidate
<1>4. CASE kind.decision \in {"inspect_first", "test_first"}
  <2>1. Exact(i, consult) = ReturnCandidate("consulted_prerequisite", i)
    BY <1>4 DEF Exact
  <2> QED
    BY <1>2, <1>4, <2>1 DEF ReturnCandidate
<1>5. CASE kind.decision = "reject"
  <2>1. Exact(i, consult) \in {RequestHuman("consulted_reject_review", i),
                               ReturnCandidate("consulted_review", i)}
    BY <1>5 DEF Exact
  <2> QED
    BY <1>2, <1>5, <2>1 DEF ReturnCandidate, RequestHuman
<1>6. CASE kind.decision = "ask_human" \/ (kind.decision = "proceed" /\ kind.confirm)
  <2>1. Exact(i, consult) \in {RequestHuman("consulted_review", i),
                               ReturnCandidate("consulted_review_unavailable", i)}
    BY <1>6 DEF Exact
  <2> QED
    BY <1>2, <1>6, <2>1 DEF ReturnCandidate, RequestHuman
<1>7. CASE kind.decision = "proceed" /\ ~kind.confirm
  <2>1. Exact(i, consult) = Continue("consulted", i)
    BY <1>7 DEF Exact
  <2> QED
    BY <1>2, <1>7, <2>1 DEF Continue
<1> QED
  BY <1>1, <1>3, <1>4, <1>5, <1>6, <1>7

(* Whatever rows and bytes are compared, the answer is one the contract    *)
(* admits, and an authorization is exact.                                  *)
LEMMA CompareAnswers ==
  ASSUME LedgerInv, NEW k \in Checks, k.seen <= Len(rows), NEW attempted,
         attempted # None => DOMAIN attempted = k.targets,
         NEW consult \in BOOLEAN
  PROVE  /\ Permitted(Compare(k, attempted, consult))
         /\ Authorized(Compare(k, attempted, consult), k, attempted)
<1> DEFINE m == Matched(k, attempted)
           expected == rows[m].binding
<1>1. CASE m = 0 \/ expected = None \/ attempted = None
             \/ DOMAIN attempted # DOMAIN expected \/ attempted # expected
  <2>1. Compare(k, attempted, consult) \in
          {ReturnCandidate(t, 0) : t \in {"must_consult", "candidate_unbound",
             "candidate_unverifiable", "candidate_incomplete", "candidate_mismatch"}}
    BY <1>1 DEF Compare
  <2> QED
    BY <2>1 DEF ReturnCandidate, Permitted, Authorized, Allowed
<1>2. CASE m # 0 /\ expected # None /\ attempted # None /\ attempted = expected
  <2>1. Compare(k, attempted, consult) = Exact(m, consult)
    BY <1>2 DEF Compare
  <2>2. /\ m \in DOMAIN rows /\ m \in PathMatches(k)
        /\ \A i \in PathMatches(k) : rows[i].binding = attempted => i <= m
    BY <1>2, MatchedRow
  <2> HIDE DEF m
  <2>3. /\ Permitted(Exact(m, consult)) /\ Exact(m, consult).row = m
        /\ Exact(m, consult).tier = "consulted" =>
             rows[m].kind.decision = "proceed" /\ ~rows[m].kind.confirm
    BY <2>2, ExactAnswers
  <2>4. Authorized(Exact(m, consult), k, attempted)
    <3> SUFFICES ASSUME Exact(m, consult).tier = "consulted"
                 PROVE  Authorized(Exact(m, consult), k, attempted)
      BY DEF Authorized
    <3>1. rows[m].commit = k.head /\ ~Restrictive(m, k.head)
      BY <2>2, <2>3 DEF PathMatches, Restrictive
    <3>2. ASSUME NEW i \in (m + 1)..k.seen,
                 rows[i].commit = k.head, rows[i].binding = attempted
          PROVE  FALSE
      <4>1. /\ Len(rows) \in Nat /\ DOMAIN rows = 1..Len(rows)
            /\ k.seen \in Nat /\ k.pending \in Nat /\ Limit \in Nat
            /\ m \in (k.seen - Limit + 1)..k.seen /\ m >= k.pending /\ m \in 1..Len(rows)
        BY <2>2, NumbersAssumption DEF PathMatches, LedgerInv, Checks
      <4>2. i \in DOMAIN rows /\ i \in (k.seen - Limit + 1)..k.seen /\ i >= k.pending /\ ~ (i <= m)
        BY <3>2, <4>1
      <4>3. k.targets \subseteq rows[i].files
        BY <1>2, <3>2, <4>2 DEF LedgerInv, Whole
      <4>4. i \in PathMatches(k)
        BY <3>2, <4>2, <4>3 DEF PathMatches
      <4> QED
        BY <2>2, <3>2, <4>2, <4>4
    <3> QED
      BY <1>2, <2>2, <2>3, <3>1, <3>2 DEF Authorized
  <2> QED
    BY <2>1, <2>3, <2>4
<1> QED
  BY <1>1, <1>2

(* Nothing is authorized without bytes to compare.                         *)
LEMMA NoneUnauthorized ==
  ASSUME LedgerInv, NEW k \in Checks, NEW consult \in BOOLEAN
  PROVE  Compare(k, None, consult).tier # "consulted"
<1>1. Compare(k, None, consult) \in
        {ReturnCandidate(t, 0) : t \in {"must_consult", "candidate_unbound",
                                        "candidate_unverifiable"}}
  BY DEF Compare
<1> QED
  BY <1>1 DEF ReturnCandidate

-------------------------------------------------------------------------------
(* The invariant holds before anything is asked.                           *)
LEMMA InitRight == Init => IInv
<1> SUFFICES ASSUME Init PROVE IInv
  OBVIOUS
<1>1. LedgerInv
  <2>1. worktree \in [Files -> Versions]
    BY NumbersAssumption DEF Init
  <2>2. rows = <<>> /\ rows \in Seq(Rows) /\ DOMAIN rows = {}
    BY DEF Init
  <2> QED
    BY <2>1, <2>2 DEF Init, LedgerInv
<1>2. CheckInv
  BY NumbersAssumption DEF Init, CheckInv
<1>3. AnswerInv
  BY DEF Init, AnswerInv
<1> QED
  BY <1>1, <1>2, <1>3 DEF IInv

(* The check and its answer, while the ledger keeps its rows.              *)
LEMMA ReadUnchanged ==
  ASSUME IInv, UNCHANGED <<rows, pc, check, answer, moves>>
  PROVE  CheckInv' /\ AnswerInv'
BY DEF IInv, CheckInv, AnswerInv, Permitted, Authorized, Restrictive

(* A new row changes nothing of what was read.                             *)
LEMMA RowAdded ==
  ASSUME IInv, NEW r \in Rows, Whole(r), rows' = Append(rows, r),
         UNCHANGED <<head, worktree, pc, check, answer, moves>>, assessing' = None
  PROVE  IInv'
<1>1. /\ rows \in Seq(Rows) /\ rows' \in Seq(Rows)
      /\ Len(rows) \in Nat /\ Len(rows') = Len(rows) + 1
      /\ DOMAIN rows = 1..Len(rows) /\ DOMAIN rows' = 1..(Len(rows) + 1)
      /\ \A i \in DOMAIN rows : rows'[i] = rows[i]
      /\ rows'[Len(rows) + 1] = r
  BY DEF IInv, LedgerInv
<1>2. LedgerInv'
  BY <1>1 DEF IInv, LedgerInv, Whole
<1>3. CheckInv'
  BY <1>1 DEF IInv, CheckInv, Checks
<1>4. Permitted(answer) => Permitted(answer)'
  <2> SUFFICES ASSUME Permitted(answer) PROVE Permitted(answer)'
    OBVIOUS
  <2>1. answer' = answer
    OBVIOUS
  <2>2. CASE answer.row = 0
    BY <2>1, <2>2 DEF Permitted
  <2>3. CASE answer.row # 0
    <3>1. answer.row \in DOMAIN rows /\ rows'[answer.row] = rows[answer.row]
            /\ answer.row \in DOMAIN rows'
      BY <1>1, <2>3 DEF Permitted
    <3> QED
      BY <2>1, <2>3, <3>1 DEF Permitted
  <2> QED
    BY <2>2, <2>3
<1>5. pc = "done" => Authorized(answer, check, check.attempted)'
  <2> SUFFICES ASSUME pc = "done", answer.tier = "consulted"
               PROVE  Authorized(answer, check, check.attempted)'
    BY DEF Authorized
  <2>1. Authorized(answer, check, check.attempted)
    BY DEF IInv, AnswerInv
  <2>2. answer.row \in DOMAIN rows /\ check.seen <= Len(rows) /\ check.seen \in Nat
    BY <2>1 DEF Authorized, IInv, CheckInv, Checks
  <2>3. (answer.row + 1)..check.seen \subseteq DOMAIN rows
    BY <1>1, <2>2
  <2> QED
    BY <1>1, <2>1, <2>2, <2>3 DEF Authorized, Restrictive
<1> QED
  BY <1>2, <1>3, <1>4, <1>5 DEF IInv, AnswerInv

(* An assessment only appends its row.                                     *)
LEMMA AssessRight == IInv /\ ((\E c \in Changes : Assess(c)) \/ BindCandidate \/ Persist) => IInv'
<1> SUFFICES ASSUME IInv, (\E c \in Changes : Assess(c)) \/ BindCandidate \/ Persist
             PROVE  IInv'
  OBVIOUS
<1> USE DEF IInv
<1>1. ASSUME NEW c \in Changes, Assess(c) PROVE IInv'
  <2> DEFINE a == [commit |-> head, change |-> c, binding |-> None, bound |-> FALSE]
  <2>1. a \in Assessments /\ a.binding = None
    BY DEF LedgerInv, Assessments, Bindings
  <2> HIDE DEF a
  <2>2. assessing' = a
    BY <1>1 DEF Assess, a
  <2>3. UNCHANGED <<head, worktree, rows, pc, check, answer, moves>>
    BY <1>1 DEF Assess
  <2>4. LedgerInv'
    BY <2>1, <2>2, <2>3 DEF LedgerInv
  <2> QED
    BY <2>3, <2>4, ReadUnchanged
<1>2. CASE BindCandidate
  <2>1. PICK b \in {Binding(assessing.change, FilesOf[assessing.change], worktree), None} :
          assessing' = [assessing EXCEPT !.binding = b, !.bound = TRUE]
    BY <1>2 DEF BindCandidate
  <2>2. assessing \in Assessments /\ assessing.change \in Changes
    BY <1>2 DEF BindCandidate, LedgerInv, Assessments
  <2>3. b \in Bindings /\ (b # None => DOMAIN b = FilesOf[assessing.change])
    BY <2>2, BindingTyped DEF LedgerInv, Bindings
  <2>4. assessing' \in Assessments /\ assessing'.binding = b
          /\ assessing'.change = assessing.change
    BY <2>1, <2>2, <2>3 DEF Assessments
  <2>5. UNCHANGED <<head, worktree, rows, pc, check, answer, moves>>
    BY <1>2 DEF BindCandidate
  <2>6. LedgerInv'
    BY <2>3, <2>4, <2>5 DEF LedgerInv
  <2> QED
    BY <2>5, <2>6, ReadUnchanged
<1>3. CASE Persist
  <2>1. PICK kind \in RowKinds :
          rows' = Append(rows, [commit |-> assessing.commit, files |-> FilesOf[assessing.change],
                                binding |-> assessing.binding, kind |-> kind])
    BY <1>3 DEF Persist
  <2> DEFINE r == [commit |-> assessing.commit, files |-> FilesOf[assessing.change],
                   binding |-> assessing.binding, kind |-> kind]
  <2>2. assessing \in Assessments /\ assessing # None
    BY <1>3 DEF Persist, LedgerInv
  <2>3. r \in Rows /\ Whole(r)
    <3>1. FilesOf[assessing.change] \in SUBSET Files
      BY <2>2 DEF Assessments, Files
    <3> QED
      BY <2>2, <3>1 DEF Rows, Assessments, LedgerInv, Whole
  <2> HIDE DEF r
  <2>4. rows' = Append(rows, r)
    BY <2>1 DEF r
  <2> QED
    BY <1>3, <2>3, <2>4, RowAdded DEF Persist
<1> QED
  BY <1>1, <1>2, <1>3

(* A fault or a move leaves the check typed.                               *)
LEMMA Disturbed ==
  ASSUME CheckInv, Disturb, pc' \in {pc, "done"}, pc' = "done" => pc \notin {"idle", "over"},
         UNCHANGED rows
  PROVE  /\ CheckInv'
         /\ check \in Checks /\ check' \in Checks =>
              check'.head = check.head /\ check'.seen = check.seen
                /\ check'.attempted = check.attempted
         /\ pc \notin {"idle", "done", "over"} => check' \in Checks
<1>1. moves' \in 0..MaxMoves
  BY NumbersAssumption DEF CheckInv, Disturb
<1>2. CASE pc \in {"idle", "done", "over"}
  <2>1. check' = check
    BY <1>2 DEF Disturb
  <2> QED
    BY <1>1, <1>2, <2>1 DEF CheckInv
<1>3. CASE pc \notin {"idle", "done", "over"}
  <2>1. check \in Checks /\ check' = [check EXCEPT !.disturbed = TRUE]
    BY <1>3 DEF Disturb, CheckInv
  <2>2. check' \in Checks /\ check'.targets = check.targets /\ check'.change = check.change
          /\ check'.head = check.head /\ check'.seen = check.seen
          /\ check'.attempted = check.attempted
    BY <2>1 DEF Checks
  <2> QED
    BY <1>1, <1>3, <2>1, <2>2 DEF CheckInv
<1> QED
  BY <1>2, <1>3

(* An answer with no row behind it.                                        *)
LEMMA Unfounded ==
  ASSUME NEW a, a \in {Continue("fail_open", 0), Continue("pass", 0),
                       ReturnCandidate("candidate_unverifiable", 0)}
  PROVE  Permitted(a) /\ a.tier # "consulted"
BY DEF Continue, ReturnCandidate, Permitted, Allowed

(* HEAD and the files are read into the check, not referred to.            *)
LEMMA MoveRight ==
  ASSUME IInv, Disturb, head' \in Commits, worktree' \in [Files -> Versions],
         UNCHANGED <<rows, assessing, pc, answer>>
  PROVE  IInv'
<1>1. LedgerInv'
  BY DEF IInv, LedgerInv
<1>2. CheckInv'
  BY Disturbed DEF IInv
<1>3. AnswerInv'
  <2>1. answer # NoAnswer => Permitted(answer)'
    BY DEF IInv, AnswerInv, Permitted
  <2>2. pc = "done" => check' = check
    BY DEF Disturb
  <2> QED
    BY <2>1, <2>2 DEF IInv, AnswerInv, Authorized, Restrictive
<1> QED
  BY <1>1, <1>2, <1>3 DEF IInv

(* A check starts with nothing read.                                       *)
LEMMA AskRight ==
  ASSUME IInv, (\E c \in Changes : \E fs \in (SUBSET FilesOf[c]) \ {{}} : Ask(c, fs)) \/ AskUntargeted
  PROVE  IInv'
<1>1. LedgerInv'
  BY DEF IInv, LedgerInv, Ask, AskUntargeted
<1>2. ASSUME NEW c \in Changes, NEW fs \in (SUBSET FilesOf[c]) \ {{}}, Ask(c, fs)
      PROVE  CheckInv' /\ AnswerInv'
  <2>1. PICK impact \in {"high", "low", "unknown"} :
          check' = [change |-> c, targets |-> fs, impact |-> impact,
                    head |-> head, pending |-> 0, seen |-> 0, attempted |-> None,
                    began |-> Len(rows), commit |-> head,
                    intended |-> Binding(c, fs, worktree), disturbed |-> FALSE]
    BY <1>2 DEF Ask
  <2>2. /\ Binding(c, fs, worktree) \in Bindings /\ None \in Bindings
        /\ fs \in SUBSET Files /\ Len(rows) \in Nat /\ head \in Commits
    BY BindingTyped DEF IInv, LedgerInv, Bindings, Files
  <2>3. check' \in Checks /\ check'.targets = fs /\ check'.change = c /\ check'.seen = 0
    BY <2>1, <2>2 DEF Checks
  <2>4. pc' = "head" /\ UNCHANGED <<rows, answer, moves>> /\ pc = "idle"
    BY <1>2 DEF Ask
  <2> QED
    BY <2>2, <2>3, <2>4 DEF IInv, CheckInv, AnswerInv, Permitted
<1>3. CASE AskUntargeted
  <2>1. UNCHANGED <<rows, check, moves>> /\ pc' = "over"
    BY <1>3 DEF AskUntargeted
  <2>2. Permitted(answer')
    BY <1>3, Unfounded DEF AskUntargeted
  <2>3. Permitted(answer)'
    BY <2>1, <2>2 DEF Permitted
  <2> QED
    BY <1>1, <2>1, <2>3 DEF IInv, CheckInv, AnswerInv
<1> QED
  BY <1>1, <1>2, <1>3 DEF IInv

(* A read leaves the answer open, or passes where nothing is known.        *)
LEMMA ReadRight == IInv /\ (ReadHead \/ QueryPending \/ QueryRows) => IInv'
<1> SUFFICES ASSUME IInv, ReadHead \/ QueryPending \/ QueryRows PROVE IInv'
  OBVIOUS
<1>1. LedgerInv'
  BY DEF IInv, LedgerInv, ReadHead, QueryPending, QueryRows
<1>2. check \in Checks /\ check.targets \subseteq FilesOf[check.change]
        /\ head \in Commits /\ Len(rows) \in Nat /\ check.seen <= Len(rows)
        /\ UNCHANGED <<rows, moves>>
  BY DEF IInv, CheckInv, LedgerInv, ReadHead, QueryPending, QueryRows
<1>3. CASE ReadHead
  <2>1. check' = [check EXCEPT !.head = head] /\ pc' \in {"rows", "pending"}
          /\ answer' = answer /\ pc = "head"
    BY <1>3 DEF ReadHead
  <2>2. check' \in Checks /\ check'.targets = check.targets /\ check'.change = check.change
          /\ check'.seen = check.seen
    BY <1>2, <2>1 DEF Checks
  <2> QED
    BY <1>1, <1>2, <2>1, <2>2 DEF IInv, CheckInv, AnswerInv, Permitted
<1>4. CASE QueryRows
  <2>1. check' = [check EXCEPT !.seen = Len(rows)] /\ pc' = "bind"
          /\ answer' = answer /\ pc = "rows"
    BY <1>4 DEF QueryRows
  <2>2. check' \in Checks /\ check'.targets = check.targets /\ check'.change = check.change
          /\ check'.seen = Len(rows)
    BY <1>2, <2>1 DEF Checks
  <2> QED
    BY <1>1, <1>2, <2>1, <2>2 DEF IInv, CheckInv, AnswerInv, Permitted
<1>5. CASE QueryPending
  <2>1. check' = [check EXCEPT !.pending = Pending(check.head)] /\ pc = "pending"
    BY <1>5 DEF QueryPending
  <2>2. Pending(check.head) \in Nat
    <3> DEFINE S == {i \in DOMAIN rows : Restrictive(i, check.head)}
    <3>1. S \subseteq 1..Len(rows)
      BY DEF IInv, LedgerInv
    <3> HIDE DEF S
    <3>2. Newest(S) \in Nat
      <4>1. CASE S = {}
        BY <4>1 DEF Newest
      <4>2. CASE S # {}
        BY <1>2, <3>1, <4>2, NewestIsLast
      <4> QED
        BY <4>1, <4>2
    <3> QED
      BY <3>2 DEF Pending, S
  <2>3. check' \in Checks /\ check'.targets = check.targets /\ check'.change = check.change
          /\ check'.seen = check.seen
    BY <1>2, <2>1, <2>2 DEF Checks
  <2>4. CASE pc' = "rows" /\ UNCHANGED answer
    BY <1>1, <1>2, <2>1, <2>3, <2>4 DEF IInv, CheckInv, AnswerInv, Permitted
  <2>5. CASE Answer(Unconsulted(check))
    <3>1. Permitted(Unconsulted(check)) /\ Unconsulted(check).tier # "consulted"
      BY Unfounded DEF Unconsulted
    <3>2. answer' = Unconsulted(check) /\ pc' = "done"
      BY <2>5 DEF Answer
    <3>3. Permitted(answer)' /\ answer'.tier # "consulted"
      BY <1>2, <3>1, <3>2 DEF Permitted
    <3> QED
      BY <1>1, <1>2, <2>3, <3>2, <3>3 DEF IInv, CheckInv, AnswerInv, Authorized
  <2> QED
    BY <1>5, <2>4, <2>5 DEF QueryPending
<1> QED
  BY <1>3, <1>4, <1>5

(* What fails open authorizes nothing.                                     *)
LEMMA FaultRight == IInv /\ (HeadFails \/ StoreFails) => IInv'
<1> SUFFICES ASSUME IInv, HeadFails \/ StoreFails PROVE IInv'
  OBVIOUS
<1>1. /\ Disturb /\ UNCHANGED <<head, worktree, rows, assessing>>
      /\ pc' = "done" /\ pc \in {"head", "pending", "rows"}
  BY DEF HeadFails, StoreFails, Answer
<1>2. Permitted(answer') /\ answer'.tier # "consulted"
  BY Unfounded DEF HeadFails, StoreFails, Answer, Unconsulted
<1>3. LedgerInv'
  BY <1>1 DEF IInv, LedgerInv
<1>4. CheckInv'
  BY <1>1, Disturbed DEF IInv
<1>5. AnswerInv'
  BY <1>1, <1>2 DEF AnswerInv, Permitted, Authorized
<1> QED
  BY <1>3, <1>4, <1>5 DEF IInv

(* The decision is the comparison of what was read.                        *)
LEMMA DecideRight == IInv /\ (Decide \/ DecideUnmaterialized) => IInv'
<1> SUFFICES ASSUME IInv, Decide \/ DecideUnmaterialized PROVE IInv'
  OBVIOUS
<1>1. /\ check \in Checks /\ check.targets \subseteq FilesOf[check.change]
      /\ check.change \in Changes /\ check.seen <= Len(rows)
      /\ UNCHANGED <<head, worktree, rows, assessing>> /\ pc' = "done" /\ pc = "bind"
  BY DEF IInv, CheckInv, Decide, DecideUnmaterialized, Answer, Checks
<1>2. LedgerInv'
  BY <1>1 DEF IInv, LedgerInv
<1>3. CASE Decide
  <2> DEFINE attempted == Binding(check.change, check.targets, worktree)
  <2>1. attempted \in Bindings /\ DOMAIN attempted = check.targets
    BY <1>1, BindingTyped DEF IInv, LedgerInv
  <2> HIDE DEF attempted
  <2>2. check' = [check EXCEPT !.attempted = attempted] /\ UNCHANGED moves
    BY <1>3 DEF Decide, attempted
  <2>3. PICK consult \in BOOLEAN : answer' = Compare(check, attempted, consult)
    BY <1>3 DEF Decide, Answer, attempted
  <2>4. /\ check' \in Checks /\ check'.targets = check.targets /\ check'.change = check.change
        /\ check'.seen = check.seen /\ check'.head = check.head /\ check'.attempted = attempted
    BY <1>1, <2>1, <2>2 DEF Checks
  <2>5. Permitted(answer') /\ Authorized(answer', check, attempted)
    BY <1>1, <2>1, <2>3, CompareAnswers DEF IInv
  <2>6. CheckInv'
    BY <1>1, <2>2, <2>4 DEF IInv, CheckInv
  <2>7. AnswerInv'
    BY <1>1, <2>4, <2>5 DEF AnswerInv, Permitted, Authorized, Restrictive
  <2> QED
    BY <1>2, <2>6, <2>7 DEF IInv
<1>4. CASE DecideUnmaterialized
  <2>1. Disturb
    BY <1>4 DEF DecideUnmaterialized
  <2>2. PICK consult \in BOOLEAN : answer' = Compare(check, None, consult)
    BY <1>4 DEF DecideUnmaterialized, Answer
  <2>3. answer'.tier # "consulted" /\ Permitted(answer')
    BY <1>1, <2>2, CompareAnswers, NoneUnauthorized DEF IInv
  <2>4. CheckInv'
    BY <1>1, <2>1, Disturbed DEF IInv
  <2>5. AnswerInv'
    BY <1>1, <2>3 DEF AnswerInv, Permitted, Authorized
  <2> QED
    BY <1>2, <2>4, <2>5 DEF IInv
<1> QED
  BY <1>3, <1>4

(* Every step preserves the invariant.                                     *)
LEMMA NextRight == IInv /\ [Next]_vars => IInv'
<1> SUFFICES ASSUME IInv, [Next]_vars PROVE IInv'
  OBVIOUS
<1>1. ASSUME NEW h \in Commits, MoveHead(h) PROVE IInv'
  BY <1>1, MoveRight DEF MoveHead, IInv, LedgerInv
<1>2. ASSUME NEW f \in Files, NEW v \in Versions, EditFile(f, v) PROVE IInv'
  <2>1. worktree' \in [Files -> Versions] /\ head' \in Commits
    BY <1>2 DEF EditFile, IInv, LedgerInv
  <2> QED
    BY <1>2, <2>1, MoveRight DEF EditFile
<1>3. CASE UNCHANGED vars
  <2>1. LedgerInv'
    BY <1>3 DEF vars, IInv, LedgerInv
  <2> QED
    BY <1>3, <2>1, ReadUnchanged DEF vars, IInv
<1> QED
  BY <1>1, <1>2, <1>3, AssessRight, AskRight, ReadRight, FaultRight, DecideRight DEF Next

(* The invariant is as strong as the two properties.                       *)
LEMMA InvRight == IInv => TypeOK /\ AllowedAsAssessed
<1> SUFFICES ASSUME IInv PROVE TypeOK /\ AllowedAsAssessed
  OBVIOUS
<1>1. TypeOK
  BY DEF IInv, LedgerInv, CheckInv, AnswerInv, Permitted, TypeOK
<1>2. AllowedAsAssessed
  BY DEF IInv, AnswerInv, Authorized, AllowedAsAssessed
<1> QED
  BY <1>1, <1>2

(* Every answer of the gate is one its contract allows, resting on a       *)
(* decision the contract names for it.                                     *)
THEOREM TypeCorrect == Spec => []TypeOK
BY InitRight, NextRight, InvRight, PTL DEF Spec

(* What the gate authorizes is the newest word on exactly those bytes.     *)
THEOREM AuthorizedAsAssessed == Spec => []AllowedAsAssessed
BY InitRight, NextRight, InvRight, PTL DEF Spec

-------------------------------------------------------------------------------
(* What an undisturbed check goes by.  HEAD and the files are where they   *)
(* were when it was asked, and every row there was then is among those it  *)
(* reads.  Where it consults the restriction, that is no older than any    *)
(* row that restricted the commit then.                                    *)
Reading == pc \in {"head", "pending", "rows", "bind"} /\ ~check.disturbed

ReadingInv ==
  Reading =>
    /\ head = check.commit
    /\ check.head = check.commit
    /\ check.targets # {}
    /\ check.intended = Binding(check.change, check.targets, worktree)
    /\ Consults(check) => pc # "pending" /\ check.pending = 0
    /\ pc = "bind" => check.began <= check.seen
    /\ pc \in {"rows", "bind"} /\ ~Consults(check) =>
         \A i \in 1..check.began : Restrictive(i, check.commit) => i <= check.pending

(* With it, what the answers keep of what was read.                        *)
WordInv ==
  /\ Reading \/ Quiet => check.began <= Len(rows)
  /\ ReadingInv
  /\ ExactWordDecides
  /\ RestrictionCloses

(* The row that is the newest of a set is its newest.                      *)
LEMMA NewestIs ==
  ASSUME NEW n \in Nat, NEW S, S \subseteq 1..n, NEW i \in S, \A j \in S : j <= i
  PROVE  Newest(S) = i
<1>1. Newest(S) \in S /\ Newest(S) \in Nat /\ i <= Newest(S) /\ Newest(S) <= i
  BY NewestIsLast
<1> QED
  BY <1>1

(* The newest of a set of rows is one of them, or there is none.           *)
LEMMA NewestOrNone ==
  ASSUME NEW n \in Nat, NEW S, S \subseteq 1..n
  PROVE  /\ Newest(S) \in Nat
         /\ Newest(S) # 0 => Newest(S) \in S
         /\ \A j \in S : j <= Newest(S)
<1>1. CASE S = {}
  BY <1>1 DEF Newest
<1>2. CASE S # {}
  BY <1>2, NewestIsLast
<1> QED
  BY <1>1, <1>2

(* The newest word on the bytes asked about is a row about them.           *)
LEMMA WordIsSaid ==
  ASSUME NEW n \in Nat, Word(n) # 0
  PROVE  /\ Word(n) \in 1..n
         /\ rows[Word(n)].commit = check.commit
         /\ rows[Word(n)].binding = check.intended
         /\ \A j \in 1..n :
              rows[j].commit = check.commit /\ rows[j].binding = check.intended => j <= Word(n)
<1> DEFINE S == {i \in 1..n : rows[i].commit = check.commit /\ rows[i].binding = check.intended}
<1>1. Word(n) = Newest(S) /\ S \subseteq 1..n
  BY DEF Word
<1>2. Newest(S) \in S /\ \A j \in S : j <= Newest(S)
  <2> HIDE DEF S
  <2> QED
    BY <1>1, NewestOrNone
<1> QED
  BY <1>1, <1>2

(* A row about them with none after it is the newest word.                 *)
LEMMA LastWord ==
  ASSUME NEW n \in Nat, NEW i \in 1..n,
         rows[i].commit = check.commit, rows[i].binding = check.intended,
         \A j \in (i + 1)..n :
           ~ (rows[j].commit = check.commit /\ rows[j].binding = check.intended)
  PROVE  Word(n) = i
<1> DEFINE S == {j \in 1..n : rows[j].commit = check.commit /\ rows[j].binding = check.intended}
<1>1. S \subseteq 1..n /\ i \in S
  OBVIOUS
<1>2. \A j \in S : j <= i
  OBVIOUS
<1>3. Newest(S) = i
  <2> HIDE DEF S
  <2> QED
    BY <1>1, <1>2, NewestIs
<1> QED
  BY <1>3 DEF Word

(* A new row leaves the words on the earlier ones alone.                   *)
LEMMA WordKept ==
  ASSUME NEW m \in Nat, \A i \in 1..m : rows'[i] = rows[i], UNCHANGED check,
         NEW n \in 0..m
  PROVE  Word(n)' = Word(n) /\ Word(n) \in 0..n
           /\ Held(Word(n))' = Held(Word(n)) /\ Cleared(Word(n))' = Cleared(Word(n))
<1> DEFINE S == {i \in 1..n : rows[i].commit = check.commit /\ rows[i].binding = check.intended}
           T == {i \in 1..n : rows'[i].commit = check'.commit /\ rows'[i].binding = check'.intended}
<1>1. n \in Nat /\ \A i \in 1..n : rows'[i] = rows[i]
  OBVIOUS
<1>2. S = T
  BY <1>1
<1>3. Word(n) = Newest(S) /\ Word(n)' = Newest(T)
  BY DEF Word, Newest
<1>4. Word(n) = 0 \/ Word(n) \in 1..n
  BY <1>1, WordIsSaid
<1> HIDE DEF S, T
<1>5. Word(n)' = Word(n) /\ Word(n) \in 0..n
  BY <1>1, <1>2, <1>3, <1>4
<1> QED
  BY <1>1, <1>5 DEF Held, Cleared, Restrictive

-------------------------------------------------------------------------------
(* A step that reads and answers nothing, and adds no row, leaves the      *)
(* words where they are.                                                   *)
LEMMA NothingRead ==
  ASSUME WordInv, UNCHANGED <<rows, pc, check, answer>>,
         Reading => UNCHANGED <<head, worktree>>
  PROVE  WordInv'
<1>1. /\ \A n : Word(n)' = Word(n)
      /\ \A i : Held(i)' = Held(i) /\ Cleared(i)' = Cleared(i)
      /\ Reading' = Reading /\ Quiet' = Quiet
      /\ Consults(check') = Consults(check)
  BY DEF Word, Newest, Held, Cleared, Restrictive, Reading, Quiet, Consults
<1>2. ReadingInv'
  BY <1>1 DEF WordInv, ReadingInv, Reading, Consults, Restrictive, Binding
<1>3. ExactHoldStands' /\ ExactProceedIsHeard'
  BY <1>1 DEF WordInv, ExactWordDecides, ExactHoldStands, ExactProceedIsHeard
<1>4. RestrictionCloses'
  BY <1>1 DEF WordInv, RestrictionCloses, Restrictive
<1> QED
  BY <1>1, <1>2, <1>3, <1>4 DEF WordInv, ExactWordDecides

(* A check that starts has all of it before it.                            *)
LEMMA AskReads ==
  ASSUME IInv, NEW c \in Changes, NEW fs \in (SUBSET FilesOf[c]) \ {{}}, Ask(c, fs)
  PROVE  WordInv'
<1>1. PICK impact \in {"high", "low", "unknown"} :
        check' = [change |-> c, targets |-> fs, impact |-> impact,
                  head |-> head, pending |-> 0, seen |-> 0, attempted |-> None,
                  began |-> Len(rows), commit |-> head,
                  intended |-> Binding(c, fs, worktree), disturbed |-> FALSE]
  BY DEF Ask
<1>2. pc' = "head" /\ UNCHANGED <<head, worktree, rows, answer, moves>> /\ Len(rows) \in Nat
  BY DEF Ask, IInv, LedgerInv
<1>3. /\ check'.head = head /\ check'.commit = head /\ check'.targets = fs /\ check'.change = c
      /\ check'.pending = 0 /\ check'.began = Len(rows)
      /\ check'.intended = Binding(c, fs, worktree)
  BY <1>1
<1>4. ReadingInv'
  <2>1. check'.intended = Binding(check.change, check.targets, worktree)'
    BY <1>2, <1>3 DEF Binding
  <2> QED
    BY <1>2, <1>3, <2>1 DEF ReadingInv
<1>5. ExactWordDecides' /\ RestrictionCloses'
  BY <1>2 DEF ExactWordDecides, ExactHoldStands, ExactProceedIsHeard, RestrictionCloses, Quiet
<1> QED
  BY <1>2, <1>3, <1>4, <1>5 DEF WordInv

(* A disturbed check promises nothing about the words, and a move after it *)
(* changes neither its rows nor its answer.                                *)
LEMMA DisturbReads ==
  ASSUME IInv, WordInv, Disturb, UNCHANGED rows,
         pc' \in {pc, "done"}, pc' = pc => UNCHANGED answer,
         pc' = "done" /\ pc # "done" => pc \in {"head", "pending", "rows", "bind"}
  PROVE  WordInv'
<1>1. CASE pc \in {"head", "pending", "rows", "bind"}
  <2>1. check \in Checks /\ check' = [check EXCEPT !.disturbed = TRUE]
    BY <1>1 DEF IInv, CheckInv, Disturb
  <2>2. check'.disturbed = TRUE
    BY <2>1 DEF Checks
  <2> QED
    BY <2>2 DEF WordInv, ReadingInv, Reading, Quiet, ExactWordDecides, ExactHoldStands,
                ExactProceedIsHeard, RestrictionCloses
<1>2. CASE pc = "done"
  <2>1. UNCHANGED <<rows, check, pc, answer>>
    BY <1>2 DEF Disturb
  <2> QED
    BY <1>2, <2>1, NothingRead DEF Reading
<1>3. CASE pc \in {"idle", "over"}
  BY <1>3 DEF WordInv, ReadingInv, Reading, Quiet, ExactWordDecides, ExactHoldStands,
              ExactProceedIsHeard, RestrictionCloses
<1> QED
  BY <1>1, <1>2, <1>3 DEF IInv, CheckInv

(* A row that is added while the gate reads is one more it may read, and   *)
(* one more that may take back the word.                                   *)
LEMMA RowReads ==
  ASSUME IInv, WordInv, NEW r \in Rows, rows' = Append(rows, r),
         UNCHANGED <<head, worktree, pc, check, answer>>
  PROVE  WordInv'
<1>1. /\ Len(rows) \in Nat /\ Len(rows') = Len(rows) + 1
      /\ \A i \in 1..Len(rows) : rows'[i] = rows[i]
  BY DEF IInv, LedgerInv
<1>2. Reading \/ Quiet => check.began \in 0..Len(rows)
  BY <1>1 DEF WordInv, IInv, CheckInv, Reading, Quiet, Checks
<1>3. Reading' = Reading /\ Quiet' = Quiet
  BY DEF Reading, Quiet
<1>4. ReadingInv'
  BY <1>1, <1>2, <1>3 DEF WordInv, ReadingInv, Reading, Restrictive, Consults, Binding
<1>5. \A n \in 0..Len(rows) : /\ Word(n)' = Word(n) /\ Word(n) \in 0..n
                              /\ Held(Word(n))' = Held(Word(n))
                              /\ Cleared(Word(n))' = Cleared(Word(n))
  BY <1>1, WordKept
<1>6. ASSUME Quiet, \A n \in check.began..Len(rows') : Held(Word(n))'
      PROVE  answer.permission # "allow"
  <2>1. \A n \in check.began..Len(rows) : Held(Word(n))
    BY <1>1, <1>2, <1>5, <1>6
  <2> QED
    BY <1>6, <2>1 DEF WordInv, ExactWordDecides, ExactHoldStands
<1>7. ASSUME Quiet, Consults(check),
             \A n \in check.began..Len(rows') :
               Cleared(Word(n))' /\ Word(n)' > Len(rows') - Limit
      PROVE  answer.permission = "allow"
  <2>1. \A n \in check.began..Len(rows) : Cleared(Word(n)) /\ Word(n) > Len(rows) - Limit
    <3> SUFFICES ASSUME NEW n \in check.began..Len(rows)
                 PROVE  Cleared(Word(n)) /\ Word(n) > Len(rows) - Limit
      OBVIOUS
    <3>1. n \in 0..Len(rows) /\ n \in check.began..Len(rows')
      BY <1>1, <1>2, <1>7
    <3>2. Cleared(Word(n)) /\ Word(n) > Len(rows') - Limit /\ Word(n) \in Nat
      BY <1>5, <1>7, <3>1
    <3> QED
      BY <1>1, <3>2, NumbersAssumption
  <2> QED
    BY <1>7, <2>1 DEF WordInv, ExactWordDecides, ExactProceedIsHeard
<1>8. ExactHoldStands'
  BY <1>3, <1>6 DEF ExactHoldStands
<1>9. ExactProceedIsHeard'
  BY <1>3, <1>7 DEF ExactProceedIsHeard, Consults
<1>10. RestrictionCloses'
  BY <1>1, <1>2, <1>3 DEF WordInv, RestrictionCloses, Restrictive, Consults
<1> QED
  BY <1>1, <1>2, <1>3, <1>4, <1>8, <1>9, <1>10 DEF WordInv, ExactWordDecides

(* The reads find what was there when the check began.                     *)
LEMMA ReadReads ==
  ASSUME IInv, WordInv, ReadHead \/ QueryRows
  PROVE  WordInv'
<1>1. check \in Checks /\ UNCHANGED <<head, worktree, rows, answer>> /\ Len(rows) \in Nat
  BY DEF IInv, CheckInv, LedgerInv, ReadHead, QueryRows
<1>2. ExactWordDecides' /\ RestrictionCloses'
  BY DEF ReadHead, QueryRows, ExactWordDecides, ExactHoldStands, ExactProceedIsHeard,
         RestrictionCloses, Quiet
<1>3. CASE ReadHead
  <2>1. /\ check' = [check EXCEPT !.head = head] /\ pc = "head"
        /\ pc' = IF Consults(check) THEN "rows" ELSE "pending"
    BY <1>3 DEF ReadHead
  <2>2. /\ check'.head = head /\ check'.commit = check.commit /\ check'.targets = check.targets
        /\ check'.change = check.change /\ check'.intended = check.intended
        /\ check'.impact = check.impact /\ check'.pending = check.pending
        /\ check'.began = check.began /\ check'.disturbed = check.disturbed
    BY <1>1, <2>1 DEF Checks
  <2>3. ReadingInv'
    BY <1>1, <2>1, <2>2 DEF WordInv, ReadingInv, Reading, Consults, Binding
  <2> QED
    BY <1>1, <1>2, <2>1, <2>2, <2>3 DEF WordInv, Reading, Quiet
<1>4. CASE QueryRows
  <2>1. check' = [check EXCEPT !.seen = Len(rows)] /\ pc = "rows" /\ pc' = "bind"
    BY <1>4 DEF QueryRows
  <2>2. /\ check'.head = check.head /\ check'.commit = check.commit
        /\ check'.targets = check.targets
        /\ check'.change = check.change /\ check'.intended = check.intended
        /\ check'.impact = check.impact /\ check'.pending = check.pending
        /\ check'.began = check.began /\ check'.disturbed = check.disturbed
        /\ check'.seen = Len(rows)
    BY <1>1, <2>1 DEF Checks
  <2>3. ReadingInv'
    BY <1>1, <2>1, <2>2 DEF WordInv, ReadingInv, Reading, Consults, Binding, Restrictive
  <2> QED
    BY <1>1, <1>2, <2>1, <2>2, <2>3 DEF WordInv, Reading, Quiet
<1> QED
  BY <1>3, <1>4

(* Where nothing restricts the commit there is no hold on any bytes, and   *)
(* where something does, the restriction read is as new as any before.     *)
LEMMA PendingReads ==
  ASSUME IInv, WordInv, QueryPending
  PROVE  WordInv'
<1> DEFINE S == {i \in DOMAIN rows : Restrictive(i, check.head)}
<1>1. /\ check \in Checks /\ UNCHANGED <<head, worktree, rows>>
      /\ Len(rows) \in Nat /\ DOMAIN rows = 1..Len(rows)
      /\ check' = [check EXCEPT !.pending = Pending(check.head)] /\ pc = "pending"
  BY DEF IInv, CheckInv, LedgerInv, QueryPending
<1>2. Pending(check.head) \in Nat /\ \A i \in S : i <= Pending(check.head)
  <2>1. Pending(check.head) = Newest(S) /\ S \subseteq 1..Len(rows)
    BY <1>1 DEF Pending
  <2> HIDE DEF S
  <2> QED
    BY <1>1, <2>1, NewestOrNone
<1>3. /\ check'.head = check.head /\ check'.commit = check.commit
      /\ check'.targets = check.targets
      /\ check'.change = check.change /\ check'.intended = check.intended
      /\ check'.impact = check.impact /\ check'.pending = Pending(check.head)
      /\ check'.began = check.began /\ check'.disturbed = check.disturbed
  BY <1>1 DEF Checks
<1>4. check.began \in Nat
  BY <1>1 DEF Checks
<1>5. CASE pc' = "rows"
  <2>1. Reading' => \A i \in 1..check.began :
                      Restrictive(i, check.commit) => i <= Pending(check.head)
    BY <1>1, <1>2, <1>3, <1>4, <1>5 DEF WordInv, ReadingInv, Reading, Quiet
  <2>2. ReadingInv'
    BY <1>1, <1>3, <1>5, <2>1 DEF WordInv, ReadingInv, Reading, Consults, Binding, Restrictive
  <2> QED
    BY <1>1, <1>3, <1>5, <2>2 DEF WordInv, Reading, Quiet, ExactWordDecides, ExactHoldStands,
                                  ExactProceedIsHeard, RestrictionCloses
<1>6. CASE Pending(check.head) = 0 /\ pc' = "done"
  <2>1. \A i \in 1..Len(rows) : ~Restrictive(i, check.head)
    <3> SUFFICES ASSUME NEW i \in 1..Len(rows), Restrictive(i, check.head) PROVE FALSE
      OBVIOUS
    <3>1. i <= 0
      BY <1>1, <1>2, <1>6
    <3> QED
      BY <1>1, <3>1
  <2>2. ASSUME Quiet' PROVE ExactWordDecides' /\ RestrictionCloses'
    <3>1. /\ Reading /\ check.head = check.commit /\ check.began <= Len(rows)
          /\ ~Consults(check)
      BY <1>1, <1>3, <2>2 DEF Quiet, Reading, WordInv, ReadingInv
    <3>2. ~Consults(check')
      BY <1>3, <3>1 DEF Consults
    <3>3. ~Held(Word(Len(rows)))'
      <4> DEFINE W == {i \in 1..Len(rows) : /\ rows'[i].commit = check'.commit
                                            /\ rows'[i].binding = check'.intended}
      <4>1. Word(Len(rows))' = Newest(W) /\ W \subseteq 1..Len(rows)
        BY <1>1 DEF Word, Newest
      <4>2. Newest(W) = 0 \/ Newest(W) \in 1..Len(rows)
        <5> HIDE DEF W
        <5> QED
          BY <1>1, <4>1, NewestOrNone
      <4> HIDE DEF W
      <4> QED
        BY <1>1, <1>3, <2>1, <3>1, <4>1, <4>2 DEF Held, Restrictive
    <3>4. Len(rows) \in check'.began..Len(rows')
      BY <1>1, <1>3, <1>4, <3>1
    <3>5. ExactWordDecides'
      BY <1>1, <3>2, <3>3, <3>4 DEF ExactWordDecides, ExactHoldStands, ExactProceedIsHeard, Consults
    <3>6. \A i \in 1..check.began : ~Restrictive(i, check.commit)
      BY <1>1, <1>4, <2>1, <3>1
    <3> QED
      BY <1>1, <1>3, <3>5, <3>6 DEF RestrictionCloses, Restrictive
  <2>3. ~Reading'
    BY <1>6 DEF Reading
  <2>4. ReadingInv' /\ (Quiet' => check'.began <= Len(rows'))
    BY <1>1, <1>3, <2>3 DEF ReadingInv, WordInv, Quiet, Reading
  <2> QED
    BY <2>2, <2>3, <2>4 DEF WordInv, ExactWordDecides, ExactHoldStands, ExactProceedIsHeard,
                            RestrictionCloses
<1> QED
  BY <1>5, <1>6 DEF QueryPending, Answer

(* Only an exact row lets an edit through a comparison.                    *)
LEMMA OnlyExactAllows ==
  ASSUME LedgerInv, NEW k \in Checks, k.seen <= Len(rows), NEW attempted, NEW consult \in BOOLEAN,
         Compare(k, attempted, consult).permission = "allow"
  PROVE  /\ Compare(k, attempted, consult).tier = "consulted"
         /\ Compare(k, attempted, consult).row \in PathMatches(k)
<1> DEFINE m == Matched(k, attempted)
           expected == rows[m].binding
<1>1. CASE m = 0 \/ expected = None \/ attempted = None
             \/ DOMAIN attempted # DOMAIN expected \/ attempted # expected
  <2>1. Compare(k, attempted, consult) \in
          {ReturnCandidate(t, 0) : t \in {"must_consult", "candidate_unbound",
             "candidate_unverifiable", "candidate_incomplete", "candidate_mismatch"}}
    BY <1>1 DEF Compare
  <2> QED
    BY <2>1 DEF ReturnCandidate
<1>2. CASE m # 0 /\ expected # None /\ attempted # None /\ attempted = expected
  <2>1. Compare(k, attempted, consult) = Exact(m, consult)
    BY <1>2 DEF Compare
  <2>2. m \in DOMAIN rows /\ m \in PathMatches(k)
    BY <1>2, MatchedRow
  <2> HIDE DEF m
  <2>3. Exact(m, consult).row = m
    BY <2>2, ExactAnswers
  <2>4. Exact(m, consult).permission = "allow" => Exact(m, consult).tier = "consulted"
    BY DEF Exact, ReturnCandidate, RequestHuman, Continue
  <2> QED
    BY <2>1, <2>2, <2>3, <2>4
<1> QED
  BY <1>1, <1>2

(* A clean proceed among the rows read, the newest about these bytes, is   *)
(* the row that is matched, and lets the edit through.                     *)
LEMMA CleanWordAllows ==
  ASSUME LedgerInv, NEW k \in Checks, k.seen <= Len(rows), k.pending = 0,
         NEW attempted, attempted # None, DOMAIN attempted = k.targets,
         NEW consult \in BOOLEAN,
         NEW i \in 1..k.seen, i > k.seen - Limit,
         rows[i].commit = k.head, rows[i].binding = attempted, ~Restrictive(i, k.head),
         \A j \in 1..k.seen : rows[j].commit = k.head /\ rows[j].binding = attempted => j <= i
  PROVE  Compare(k, attempted, consult).permission = "allow"
<1> DEFINE paths == PathMatches(k)
           exact == {j \in paths : attempted # None /\ rows[j].binding = attempted}
<1>1. /\ Len(rows) \in Nat /\ DOMAIN rows = 1..Len(rows) /\ k.seen \in Nat /\ Limit \in Nat
  BY NumbersAssumption DEF LedgerInv, Checks
<1>2. i \in DOMAIN rows /\ i \in Nat /\ i # 0 /\ i \in (k.seen - Limit + 1)..k.seen
  BY <1>1
<1>3. k.targets \subseteq rows[i].files
  BY <1>2 DEF LedgerInv, Whole
<1>4. i \in paths
  BY <1>2, <1>3 DEF PathMatches
<1>5. exact \subseteq 1..k.seen /\ i \in exact /\ \A j \in exact : j <= i
  BY <1>1, <1>4 DEF PathMatches
<1>6. Matched(k, attempted) = Newest(exact)
  BY <1>5 DEF Matched
<1>7. Newest(exact) = i
  <2> HIDE DEF exact
  <2> QED
    BY <1>1, <1>5, NewestIs
<1>8. Compare(k, attempted, consult) = Exact(i, consult)
  BY <1>2, <1>6, <1>7 DEF Compare
<1>9. rows[i].kind.decision = "proceed" /\ ~rows[i].kind.confirm
  BY DEF Restrictive
<1>10. Exact(i, consult) = Continue("consulted", i)
  BY <1>9 DEF Exact
<1> QED
  BY <1>8, <1>10 DEF Continue

(* The comparison follows the newest word.                                 *)
LEMMA DecideReads ==
  ASSUME IInv, WordInv, Decide
  PROVE  WordInv'
<1> DEFINE attempted == Binding(check.change, check.targets, worktree)
<1>1. /\ check \in Checks /\ check.targets \subseteq FilesOf[check.change]
      /\ check.change \in Changes /\ check.seen <= Len(rows)
      /\ UNCHANGED <<head, worktree, rows>> /\ pc' = "done" /\ pc = "bind"
      /\ Len(rows) \in Nat /\ DOMAIN rows = 1..Len(rows) /\ check.seen \in Nat
      /\ check.began \in Nat /\ check.pending \in Nat
  BY DEF IInv, CheckInv, LedgerInv, Decide, Answer, Checks
<1>2. attempted \in Bindings /\ DOMAIN attempted = check.targets
  BY <1>1, BindingTyped DEF IInv, LedgerInv
<1>3. ~Reading' /\ ReadingInv'
  BY <1>1 DEF Reading, ReadingInv
<1>4. PICK consult \in BOOLEAN : answer' = Compare(check, attempted, consult)
  BY DEF Decide, Answer
<1>5. check' = [check EXCEPT !.attempted = attempted]
  BY DEF Decide
<1> HIDE DEF attempted
<1>6. /\ check'.commit = check.commit /\ check'.intended = check.intended
      /\ check'.impact = check.impact /\ check'.began = check.began
      /\ check'.disturbed = check.disturbed
  BY <1>1, <1>5 DEF Checks
<1>7. CASE ~Quiet'
  BY <1>3, <1>7 DEF WordInv, ExactWordDecides, ExactHoldStands, ExactProceedIsHeard,
                    RestrictionCloses
<1>8. CASE Quiet'
  <2>1. /\ Reading /\ check.head = check.commit /\ check.targets # {}
        /\ check.intended = attempted
        /\ check.began <= check.seen
        /\ Consults(check) => check.pending = 0
        /\ ~Consults(check) => \A i \in 1..check.began :
                                 Restrictive(i, check.commit) => i <= check.pending
    BY <1>1, <1>6, <1>8 DEF Quiet, Reading, WordInv, ReadingInv, attempted
  <2>2. attempted # None
    BY <1>2, <2>1 DEF None
  <2>3. /\ \A n : Word(n)' = Word(n)
        /\ \A i : Held(i)' = Held(i) /\ Cleared(i)' = Cleared(i)
        /\ Consults(check') = Consults(check)
    BY <1>1, <1>6 DEF Word, Newest, Held, Cleared, Restrictive, Consults
  <2>4. check.seen \in check.began..Len(rows)
    BY <1>1, <2>1
  <2>5. ASSUME answer'.permission = "allow"
        PROVE  /\ answer'.tier = "consulted" /\ answer'.row >= check.pending
               /\ answer'.row \in 1..check.seen
               /\ ~Restrictive(answer'.row, check.commit)
               /\ Word(check.seen) = answer'.row
    <3>1. answer'.tier = "consulted" /\ answer'.row \in PathMatches(check)
      BY <1>1, <1>4, <2>5, OnlyExactAllows DEF IInv
    <3>2. Authorized(answer', check, attempted)
      BY <1>1, <1>2, <1>4, CompareAnswers DEF IInv
    <3>3. answer'.row \in 1..check.seen /\ answer'.row >= check.pending
      BY <1>1, <3>1, NumbersAssumption DEF PathMatches
    <3>4. /\ rows[answer'.row].commit = check.commit /\ rows[answer'.row].binding = check.intended
          /\ ~Restrictive(answer'.row, check.commit)
          /\ \A j \in (answer'.row + 1)..check.seen :
               ~ (rows[j].commit = check.commit /\ rows[j].binding = check.intended)
      BY <2>1, <3>1, <3>2 DEF Authorized
    <3>5. Word(check.seen) = answer'.row
      BY <1>1, <3>3, <3>4, LastWord
    <3> QED
      BY <3>1, <3>3, <3>4, <3>5
  <2>6. ExactHoldStands'
    <3>1. answer'.permission = "allow" => ~Held(Word(check.seen))
      BY <2>5 DEF Held
    <3> QED
      BY <1>1, <1>6, <2>3, <2>4, <3>1 DEF ExactHoldStands
  <2>7. ExactProceedIsHeard'
    <3> SUFFICES ASSUME Consults(check),
                        \A n \in check.began..Len(rows) :
                          Cleared(Word(n)) /\ Word(n) > Len(rows) - Limit
                 PROVE  answer'.permission = "allow"
      BY <1>1, <1>6, <2>3 DEF ExactProceedIsHeard
    <3> DEFINE i == Word(check.seen)
    <3>1. i # 0 /\ ~Restrictive(i, check.commit) /\ i > Len(rows) - Limit
      BY <2>4 DEF Cleared
    <3>2. /\ i \in 1..check.seen /\ rows[i].commit = check.commit /\ rows[i].binding = attempted
          /\ \A j \in 1..check.seen :
               rows[j].commit = check.commit /\ rows[j].binding = attempted => j <= i
      BY <1>1, <2>1, <3>1, WordIsSaid
    <3> HIDE DEF i
    <3>3. i > check.seen - Limit
      BY <1>1, <3>1, <3>2, NumbersAssumption
    <3> QED
      BY <1>1, <1>2, <1>4, <2>1, <2>2, <3>1, <3>2, <3>3, CleanWordAllows DEF IInv
  <2>8. RestrictionCloses'
    <3> SUFFICES ASSUME ~Consults(check), answer'.permission = "allow",
                        NEW i \in 1..check.began, Restrictive(i, check.commit)
                 PROVE  answer'.tier = "consulted" /\ answer'.row > i
      BY <1>1, <1>6, <2>3 DEF RestrictionCloses, Restrictive
    <3>1. i <= check.pending /\ i # answer'.row /\ answer'.row >= check.pending
            /\ answer'.row \in Nat /\ i \in Nat /\ answer'.tier = "consulted"
      BY <1>1, <2>1, <2>5
    <3> QED
      BY <1>1, <3>1
  <2> QED
    BY <1>1, <1>3, <1>6, <2>1, <2>4, <2>6, <2>7, <2>8 DEF WordInv, ExactWordDecides
<1> QED
  BY <1>7, <1>8

(* Nothing was asked at first.                                             *)
LEMMA InitReads == Init => WordInv
BY DEF Init, WordInv, ReadingInv, Reading, Quiet, ExactWordDecides, ExactHoldStands,
       ExactProceedIsHeard, RestrictionCloses

(* Every step keeps what the check goes by.                                *)
LEMMA NextReads == IInv /\ WordInv /\ [Next]_vars => WordInv'
<1> SUFFICES ASSUME IInv, WordInv, [Next]_vars PROVE WordInv'
  OBVIOUS
<1>1. CASE (\E c \in Changes : Assess(c)) \/ BindCandidate \/ UNCHANGED vars
  BY <1>1, NothingRead DEF Assess, BindCandidate, vars
<1>2. CASE Persist
  <2>1. PICK kind \in RowKinds :
          rows' = Append(rows, [commit |-> assessing.commit, files |-> FilesOf[assessing.change],
                                binding |-> assessing.binding, kind |-> kind])
    BY <1>2 DEF Persist
  <2> DEFINE r == [commit |-> assessing.commit, files |-> FilesOf[assessing.change],
                   binding |-> assessing.binding, kind |-> kind]
  <2>2. assessing \in Assessments
    BY <1>2 DEF Persist, IInv, LedgerInv
  <2>3. FilesOf[assessing.change] \in SUBSET Files
    BY <2>2 DEF Assessments, Files
  <2>4. r \in Rows
    BY <2>2, <2>3 DEF Rows, Assessments
  <2> HIDE DEF r
  <2>5. rows' = Append(rows, r)
    BY <2>1 DEF r
  <2> QED
    BY <1>2, <2>4, <2>5, RowReads DEF Persist
<1>3. ASSUME NEW c \in Changes, NEW fs \in (SUBSET FilesOf[c]) \ {{}}, Ask(c, fs) PROVE WordInv'
  BY <1>3, AskReads
<1>4. CASE AskUntargeted
  BY <1>4 DEF AskUntargeted, WordInv, ReadingInv, Reading, Quiet, ExactWordDecides,
              ExactHoldStands, ExactProceedIsHeard, RestrictionCloses
<1>5. CASE HeadFails \/ StoreFails \/ DecideUnmaterialized
  BY <1>5, DisturbReads DEF HeadFails, StoreFails, DecideUnmaterialized, Answer
<1>6. CASE (\E h \in Commits : MoveHead(h)) \/ (\E f \in Files, v \in Versions : EditFile(f, v))
  BY <1>6, DisturbReads DEF MoveHead, EditFile
<1> QED
  BY <1>1, <1>2, <1>3, <1>4, <1>5, <1>6, ReadReads, PendingReads, DecideReads DEF Next

(* The newest word on the exact bytes decides, whatever rows are added     *)
(* while the gate reads.                                                   *)
THEOREM NewestWordDecides == Spec => []ExactWordDecides
<1>1. IInv /\ WordInv /\ [Next]_vars => IInv' /\ WordInv'
  BY NextRight, NextReads
<1>2. IInv /\ WordInv => ExactWordDecides
  BY DEF WordInv
<1> QED
  BY <1>1, <1>2, InitRight, InitReads, PTL DEF Spec

(* Under a restriction an edit no graph vouches for passes only by an      *)
(* exact, newer proceed.                                                   *)
THEOREM RestrictionsClose == Spec => []RestrictionCloses
<1>1. IInv /\ WordInv /\ [Next]_vars => IInv' /\ WordInv'
  BY NextRight, NextReads
<1>2. IInv /\ WordInv => RestrictionCloses
  BY DEF WordInv
<1> QED
  BY <1>1, <1>2, InitRight, InitReads, PTL DEF Spec
===============================================================================
