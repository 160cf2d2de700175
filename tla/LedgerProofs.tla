----------------------------- MODULE LedgerProofs -----------------------------
(***************************************************************************)
(* The ledger's log and its audit, for any number of processes,            *)
(* assessments, calls and edits from outside.                              *)
(*                                                                         *)
(* Every row is hashed over what was once written, never over what an edit *)
(* left, so an audit finds the edit wherever it comes to it; and migrated  *)
(* rows, rows of writers under way and rows of writers that died are all   *)
(* hashed as they read.  Edits are never undone, which is why an audit     *)
(* that reads one table after the other still finds each.                  *)
(*                                                                         *)
(* A transaction's tables are the committed ones with the rows it has come *)
(* to (Written), so a commit adds all of them to the log at once, and what *)
(* the operation rests on still holds then: nobody else has written since  *)
(* it looked.                                                              *)
(***************************************************************************)
EXTENDS Ledger, TLAPS

(* What may be written to a table.                                         *)
Sayings(t) ==
  IF t = "guardrails" THEN {"proceed", "halt"}
  ELSE {"row"} \cup {k \in Triggers : t \in {"snapshots", "facts"}}

Fields == {"of", "says", "new", "version", "prev", "hash"}

Hashed(r, s) == RowHash(r.prev, Canonical(r.of, s, r.new, r.version))

(* A row is hashed over the row before it and over something that may be   *)
(* written to its table, which it still says unless somebody edited it.    *)
RowOK(t, rows, i) ==
  LET r == rows[i]
  IN  /\ DOMAIN r = Fields
      /\ r.of \in Nat /\ r.version \in 0..2
      /\ r.prev = PrevHash(rows, i)
      /\ \E s \in Sayings(t) : r.says \in {s, Garbled} /\ r.hash = Hashed(r, s)

(* The rows of a table, whatever they are.                                 *)
IsRows(rows) == \E S : rows \in Seq(S)

(* A table of chained rows.                                                *)
Sound(t, rows) == IsRows(rows) /\ \A i \in DOMAIN rows : RowOK(t, rows, i)

(* What a lesson rests on, whatever the verification says by now.          *)
Backed(tables, a) ==
  /\ Has(tables, "outcomes", a)
  /\ \E i \in DOMAIN tables["guardrails"] :
       /\ tables["guardrails"][i].of = a
       /\ \A j \in DOMAIN tables["guardrails"] : j > i => tables["guardrails"][j].of # a

(* The tables, each row of them and what they rest on each other for.      *)
Stored(tables) ==
  /\ tables = [t \in Tables |-> tables[t]]
  /\ \A t \in Tables : Sound(t, tables[t])
  /\ \A j \in DOMAIN tables["packets"] : tables["packets"][j].of = j
  /\ \A i \in DOMAIN tables["lessons"] : Backed(tables, tables["lessons"][i].of)

Marred(rows) == \E i \in DOMAIN rows : rows[i].says = Garbled

-------------------------------------------------------------------------------
(***************************************************************************)
(* One table                                                               *)
(***************************************************************************)
(* The tables by name.                                                     *)
LEMMA TableNames ==
  /\ Chains = {"assessments", "sanctions", "guardrails", "outcomes", "predictions",
               "errors", "snapshots", "facts", "lessons"}
  /\ Tables = Chains \cup {"packets", "search"}
  /\ Len(Chained) = 9 /\ DOMAIN Chained = 1..9
  /\ \A k \in 1..9 : Chained[k] \in Chains
  /\ \A k \in 1..9 : Chained[k] = "lessons" <=> k = 9
  /\ \A k \in 1..9 : Chained[k] = "assessments" <=> k = 1
  /\ \A t \in Chains : \E k \in 1..9 : Chained[k] = t
<1>1. DOMAIN Chained = 1..9 /\ Len(Chained) = 9
  BY DEF Chained
<1>2. 1..9 = {1, 2, 3, 4, 5, 6, 7, 8, 9}
  OBVIOUS
<1>3. Chains = {"assessments", "sanctions", "guardrails", "outcomes", "predictions",
               "errors", "snapshots", "facts", "lessons"}
  BY <1>1, <1>2 DEF Chains, Chained
<1>4. \A k \in 1..9 :
        /\ Chained[k] = "lessons" <=> k = 9
        /\ Chained[k] = "assessments" <=> k = 1
  BY <1>2 DEF Chained
<1> QED
  BY <1>1, <1>3, <1>4 DEF Tables, Chains

(* Nothing written says what damage leaves.                                *)
LEMMA NothingSaysGarbled == \A t \in Tables : Garbled \notin Sayings(t)
BY TriggersAssumption DEF Sayings, Garbled

(* Appending to a table.                                                   *)
LEMMA Appended ==
  ASSUME NEW rows, IsRows(rows), NEW r
  PROVE  /\ IsRows(Append(rows, r))
         /\ Len(rows) \in Nat /\ DOMAIN rows = 1..Len(rows)
         /\ Len(Append(rows, r)) = Len(rows) + 1
         /\ DOMAIN Append(rows, r) = 1..(Len(rows) + 1)
         /\ Append(rows, r)[Len(rows) + 1] = r
         /\ \A i \in 1..Len(rows) : Append(rows, r)[i] = rows[i]
<1>1. PICK S : rows \in Seq(S)
  BY DEF IsRows
<1>2. rows \in Seq(S \cup {r}) /\ r \in S \cup {r}
  BY <1>1
<1>3. Append(rows, r) \in Seq(S \cup {r})
  BY <1>2
<1> QED
  BY <1>2, <1>3 DEF IsRows

(* A table of as many rows.                                                *)
LEMMA Reshaped ==
  ASSUME NEW rows, IsRows(rows), NEW new, new = [i \in DOMAIN rows |-> new[i]]
  PROVE  IsRows(new) /\ Len(new) = Len(rows)
<1>1. PICK S : rows \in Seq(S)
  BY DEF IsRows
<1>2. DOMAIN rows = 1..Len(rows) /\ Len(rows) \in Nat
  BY <1>1
<1>3. new \in [1..Len(rows) -> {new[i] : i \in 1..Len(rows)}]
  BY <1>2
<1>4. new \in Seq({new[i] : i \in 1..Len(rows)})
  BY <1>2, <1>3
<1>5. Len(new) \in Nat /\ DOMAIN new = 1..Len(new) /\ DOMAIN new = 1..Len(rows)
  BY <1>3, <1>4
<1>6. Len(new) = Len(rows)
  <2>1. \A m, n \in Nat : 1..m = 1..n => m = n
    <3>1. \A m, n \in Nat : 1..m = 1..n /\ m < n => n \in 1..m
      OBVIOUS
    <3>2. \A m, n \in Nat : 1..m = 1..n => ~(m < n) /\ ~(n < m)
      BY <3>1
    <3> QED
      BY <3>2
  <2> QED
    BY <2>1, <1>2, <1>5
<1> QED
  BY <1>4, <1>6 DEF IsRows

(* A new row is hashed over what it says.                                  *)
LEMMA NewRowSound ==
  ASSUME NEW t \in Tables, NEW rows, Sound(t, rows), NEW c, c.of \in Nat, c.says \in Sayings(t)
  PROVE  /\ Sound(t, Append(rows, NewRow(rows, c)))
         /\ NewRow(rows, c).of = c.of /\ NewRow(rows, c).says = c.says
<1> DEFINE r == NewRow(rows, c)
           new == Append(rows, r)
           n == Len(rows)
<1>1. /\ IsRows(new) /\ n \in Nat /\ DOMAIN rows = 1..n
      /\ DOMAIN new = 1..(n + 1) /\ new[n + 1] = r
      /\ \A i \in 1..n : new[i] = rows[i]
  BY Appended DEF Sound
<1>2. /\ DOMAIN r = Fields /\ r.of = c.of /\ r.says = c.says /\ r.version = 2
      /\ r.prev = LastHash(rows) /\ r.hash = Hashed(r, c.says)
  BY DEF NewRow, Row, Fields, Hashed
<1> HIDE DEF r, new
<1>3. LastHash(rows) = PrevHash(new, n + 1)
  <2>1. CASE rows = <<>>
    BY <2>1, <1>1 DEF LastHash, PrevHash
  <2>2. CASE rows # <<>>
    <3>1. n # 0
      BY <1>1, <2>2 DEF Sound, IsRows
    <3> QED
      BY <3>1, <1>1, <2>2 DEF LastHash, PrevHash
  <2> QED
    BY <2>1, <2>2
<1>4. ASSUME NEW i \in DOMAIN new PROVE RowOK(t, new, i)
  <2>1. CASE i = n + 1
    BY <2>1, <1>1, <1>2, <1>3 DEF RowOK
  <2>2. CASE i \in 1..n
    <3>1. RowOK(t, rows, i) /\ new[i] = rows[i]
      BY <2>2, <1>1 DEF Sound
    <3>2. PrevHash(new, i) = PrevHash(rows, i)
      BY <2>2, <1>1 DEF PrevHash
    <3> QED
      BY <3>1, <3>2 DEF RowOK
  <2> QED
    BY <2>1, <2>2, <1>1
<1>5. Sound(t, new)
  BY <1>1, <1>4 DEF Sound
<1> QED
  BY <1>2, <1>5 DEF r, new

(* What an edit from outside leaves of a table.                            *)
Edited(rows, k) == [rows EXCEPT ![k].says = Garbled]

(* A row edited from outside is still hashed over what it once said.       *)
LEMMA EditSound ==
  ASSUME NEW t \in Tables, NEW rows, Sound(t, rows), NEW k \in DOMAIN rows,
         NEW new, new = Edited(rows, k)
  PROVE  /\ Sound(t, new)
         /\ DOMAIN new = DOMAIN rows /\ Len(new) = Len(rows)
         /\ \A i \in DOMAIN rows : new[i].of = rows[i].of /\ new[i].version = rows[i].version
         /\ new[k].says = Garbled
         /\ \A i \in DOMAIN rows \ {k} : new[i] = rows[i]
<1>1. /\ DOMAIN new = DOMAIN rows
      /\ \A i \in DOMAIN rows \ {k} : new[i] = rows[i]
      /\ new[k] = [rows[k] EXCEPT !.says = Garbled]
      /\ new = [i \in DOMAIN rows |-> new[i]]
  BY DEF Sound, Edited
<1>2. DOMAIN rows[k] = Fields
  BY DEF Sound, RowOK
<1>3. /\ DOMAIN new[k] = Fields /\ new[k].says = Garbled
      /\ new[k].of = rows[k].of /\ new[k].version = rows[k].version
      /\ new[k].new = rows[k].new /\ new[k].prev = rows[k].prev /\ new[k].hash = rows[k].hash
  BY <1>1, <1>2 DEF Fields
<1>4. IsRows(new) /\ Len(new) = Len(rows)
  BY <1>1, Reshaped DEF Sound
<1>5. \A i \in DOMAIN rows : PrevHash(new, i) = PrevHash(rows, i)
  <2>1. PICK S : rows \in Seq(S)
    BY DEF Sound, IsRows
  <2>2. \A i \in DOMAIN rows : i # 1 => i - 1 \in DOMAIN rows
    BY <2>1
  <2>3. \A i \in DOMAIN rows : new[i].hash = rows[i].hash
    BY <1>1, <1>3
  <2> QED
    BY <2>2, <2>3 DEF PrevHash
<1>6. ASSUME NEW i \in DOMAIN new PROVE RowOK(t, new, i)
  <2>1. RowOK(t, rows, i)
    BY <1>1 DEF Sound
  <2>2. PrevHash(new, i) = PrevHash(rows, i)
    BY <1>1, <1>5
  <2>3. CASE i = k
    BY <2>1, <2>2, <2>3, <1>3 DEF RowOK, Hashed
  <2>4. CASE i # k
    <3>1. new[i] = rows[i]
      BY <2>4, <1>1
    <3> QED
      BY <3>1, <2>1, <2>2 DEF RowOK
  <2> QED
    BY <2>3, <2>4
<1> QED
  BY <1>1, <1>3, <1>4, <1>6 DEF Sound

(* A table given the default of an added column.                           *)
Backfill(rows, column) == [i \in DOMAIN rows |-> Backfilled(rows[i], column)]

(* The defaults of an added column say of an old row nothing its hash was  *)
(* not taken over.                                                         *)
LEMMA BackfillSound ==
  ASSUME NEW t \in Tables, NEW rows, Sound(t, rows), NEW column,
         \A i \in DOMAIN rows : rows[i].version # 2,
         NEW new, new = Backfill(rows, column)
  PROVE  /\ Sound(t, new)
         /\ DOMAIN new = DOMAIN rows
         /\ \A i \in DOMAIN rows :
              /\ new[i].of = rows[i].of /\ new[i].says = rows[i].says
              /\ new[i].version # 2
<1>1. DOMAIN new = DOMAIN rows /\ new = [i \in DOMAIN rows |-> new[i]]
  BY DEF Backfill
<1>2. ASSUME NEW i \in DOMAIN rows
      PROVE  /\ DOMAIN new[i] = Fields /\ new[i].says = rows[i].says
             /\ new[i].of = rows[i].of /\ new[i].prev = rows[i].prev
             /\ new[i].hash = rows[i].hash
             /\ new[i].version \in 0..1
  <2>1. DOMAIN rows[i] = Fields /\ rows[i].version \in 0..1
    BY DEF Sound, RowOK
  <2>2. new[i] = Backfilled(rows[i], column)
    BY DEF Backfill
  <2> QED
    BY <2>1, <2>2 DEF Backfilled, Fields
<1>3. IsRows(new) /\ Len(new) = Len(rows)
  BY <1>1, Reshaped DEF Sound
<1>4. \A i \in DOMAIN rows : PrevHash(new, i) = PrevHash(rows, i)
  <2>1. PICK S : rows \in Seq(S)
    BY DEF Sound, IsRows
  <2>2. \A i \in DOMAIN rows : i # 1 => i - 1 \in DOMAIN rows
    BY <2>1
  <2> QED
    BY <2>2, <1>2 DEF PrevHash
<1>5. ASSUME NEW i \in DOMAIN new PROVE RowOK(t, new, i)
  <2>1. RowOK(t, rows, i) /\ rows[i].version # 2 /\ new[i].version # 2
    BY <1>1, <1>2 DEF Sound
  <2>2. \A s : Hashed(new[i], s) = Hashed(rows[i], s)
    BY <2>1, <1>1, <1>2 DEF Hashed, Canonical
  <2> QED
    BY <2>1, <2>2, <1>1, <1>2, <1>4 DEF RowOK
<1> QED
  BY <1>1, <1>2, <1>3, <1>5 DEF Sound

(* Chained rows nobody edited are valid...                                 *)
LEMMA UnmarredValid ==
  ASSUME NEW t \in Tables, NEW rows, Sound(t, rows), ~Marred(rows)
  PROVE  Valid(rows)
<1>1. ASSUME NEW i \in DOMAIN rows
      PROVE  /\ rows[i].prev = PrevHash(rows, i)
             /\ rows[i].hash = RowHash(PrevHash(rows, i),
                  Canonical(rows[i].of, rows[i].says, rows[i].new, rows[i].version))
  <2>1. RowOK(t, rows, i) /\ rows[i].says # Garbled
    BY DEF Sound, Marred
  <2> QED
    BY <2>1 DEF RowOK, Hashed
<1> QED
  BY <1>1 DEF Valid

(* ...and rows somebody edited are not.                                    *)
LEMMA MarredInvalid ==
  ASSUME NEW t \in Tables, NEW rows, Sound(t, rows), Marred(rows)
  PROVE  ~Valid(rows)
<1>1. PICK i \in DOMAIN rows : rows[i].says = Garbled
  BY DEF Marred
<1>2. PICK s \in Sayings(t) : rows[i].hash = Hashed(rows[i], s)
  BY DEF Sound, RowOK
<1>3. s # Garbled
  BY NothingSaysGarbled
<1>4. Hashed(rows[i], s) # Hashed(rows[i], Garbled)
  BY <1>3 DEF Hashed, RowHash, Canonical
<1>5. SUFFICES ASSUME Valid(rows) PROVE FALSE
  OBVIOUS
<1>6. rows[i].hash = Hashed(rows[i], Garbled)
  BY <1>1, <1>5 DEF Valid, Hashed
<1> QED
  BY <1>2, <1>4, <1>6
-------------------------------------------------------------------------------
(***************************************************************************)
(* All the tables                                                          *)
(***************************************************************************)
(* What later rows keep of earlier ones: which assessment they are of, and *)
(* what they say unless somebody edited it.                                *)
Follows(old, new) ==
  \A i \in DOMAIN old :
    /\ i \in DOMAIN new
    /\ new[i].of = old[i].of
    /\ new[i].says \in {old[i].says, Garbled}
Later(old, new) == \A t \in Tables : Follows(old[t], new[t])

(* As many rows, each of the assessment it was of.                         *)
Alike(old, new) ==
  \A t \in Tables :
    /\ DOMAIN new[t] = DOMAIN old[t]
    /\ \A i \in DOMAIN old[t] : new[t][i].of = old[t][i].of

(* Tables whose rows are all of the assessments they were of are stored as *)
(* before if each is sound.                                                *)
LEMMA AlikeStored ==
  ASSUME NEW old, NEW new, Stored(old), Alike(old, new),
         new = [t \in Tables |-> new[t]], \A t \in Tables : Sound(t, new[t])
  PROVE  Stored(new)
<1>1. ASSUME NEW a, Backed(old, a) PROVE Backed(new, a)
  <2>1. /\ DOMAIN new["outcomes"] = DOMAIN old["outcomes"]
        /\ \A i \in DOMAIN old["outcomes"] : new["outcomes"][i].of = old["outcomes"][i].of
        /\ DOMAIN new["guardrails"] = DOMAIN old["guardrails"]
        /\ \A i \in DOMAIN old["guardrails"] : new["guardrails"][i].of = old["guardrails"][i].of
    BY TableNames DEF Alike
  <2>2. Has(new, "outcomes", a)
    BY <1>1, <2>1 DEF Backed, Has
  <2>3. PICK i \in DOMAIN old["guardrails"] :
          /\ old["guardrails"][i].of = a
          /\ \A j \in DOMAIN old["guardrails"] : j > i => old["guardrails"][j].of # a
    BY <1>1 DEF Backed
  <2>4. /\ i \in DOMAIN new["guardrails"] /\ new["guardrails"][i].of = a
        /\ \A j \in DOMAIN new["guardrails"] : j > i => new["guardrails"][j].of # a
    BY <2>1, <2>3
  <2> QED
    BY <2>2, <2>4 DEF Backed
<1>2. \A j \in DOMAIN new["packets"] : new["packets"][j].of = j
  BY TableNames DEF Alike, Stored
<1>3. \A i \in DOMAIN new["lessons"] : Backed(new, new["lessons"][i].of)
  BY <1>1, TableNames DEF Alike, Stored
<1> QED
  BY <1>2, <1>3 DEF Stored

(* The tables after an edit from outside...                                *)
WithEdit(tables, t, k) == [tables EXCEPT ![t] = Edited(tables[t], k)]

(* An edit leaves the tables stored.                                       *)
LEMMA DamageStored ==
  ASSUME NEW old, Stored(old), NEW t \in Tables, NEW k \in DOMAIN old[t],
         NEW new, new = WithEdit(old, t, k)
  PROVE  /\ Stored(new) /\ Later(old, new) /\ Alike(old, new)
         /\ \A u \in Tables :
              /\ Len(new[u]) = Len(old[u])
              /\ \A i \in DOMAIN old[u] : new[u][i].version = old[u][i].version
<1> DEFINE rows == Edited(old[t], k)
<1>1. Sound(t, old[t]) /\ DOMAIN old = Tables
  BY DEF Stored
<1>2. /\ Sound(t, rows) /\ DOMAIN rows = DOMAIN old[t] /\ Len(rows) = Len(old[t])
      /\ \A i \in DOMAIN old[t] :
           rows[i].of = old[t][i].of /\ rows[i].version = old[t][i].version
      /\ rows[k].says = Garbled
      /\ \A i \in DOMAIN old[t] \ {k} : rows[i] = old[t][i]
  BY <1>1, EditSound
<1>3. new = [old EXCEPT ![t] = rows]
  BY DEF WithEdit
<1> HIDE DEF rows
<1>4. /\ new = [u \in Tables |-> new[u]]
      /\ new[t] = rows
      /\ \A u \in Tables : u # t => new[u] = old[u]
  BY <1>1, <1>3
<1>5. \A u \in Tables : Sound(u, new[u])
  BY <1>2, <1>4 DEF Stored
<1>6. Alike(old, new)
  BY <1>2, <1>4 DEF Alike
<1>7. Later(old, new)
  <2>1. \A i \in DOMAIN old[t] : rows[i].says \in {old[t][i].says, Garbled}
    BY <1>2
  <2>2. Follows(old[t], new[t])
    BY <1>2, <1>4, <2>1 DEF Follows
  <2>3. \A u \in Tables : u # t => Follows(old[u], new[u])
    BY <1>4 DEF Follows
  <2> QED
    BY <2>2, <2>3 DEF Later
<1>8. \A u \in Tables :
        /\ Len(new[u]) = Len(old[u])
        /\ \A i \in DOMAIN old[u] : new[u][i].version = old[u][i].version
  BY <1>2, <1>4
<1> QED
  BY <1>4, <1>5, <1>6, <1>7, <1>8, AlikeStored

(* ...and once they have an added column.                                  *)
WithColumn(tables, t, column) == [tables EXCEPT ![t] = Backfill(tables[t], column)]

(* A column added to rows of an older version leaves them stored, and says *)
(* nothing else of them.                                                   *)
LEMMA BackfillStored ==
  ASSUME NEW old, Stored(old), NEW t \in Tables, NEW column,
         \A i \in DOMAIN old[t] : old[t][i].version # 2,
         NEW new,
         new = WithColumn(old, t, column)
  PROVE  /\ Stored(new) /\ Later(old, new) /\ Alike(old, new)
         /\ \A i \in DOMAIN new[t] : new[t][i].version # 2
         /\ \A u \in Tables : u # t => new[u] = old[u]
         /\ \A i \in DOMAIN old[t] : new[t][i].says = old[t][i].says
<1> DEFINE rows == Backfill(old[t], column)
<1>1. Sound(t, old[t]) /\ DOMAIN old = Tables
  BY DEF Stored
<1>2. /\ Sound(t, rows) /\ DOMAIN rows = DOMAIN old[t]
      /\ \A i \in DOMAIN old[t] :
           /\ rows[i].of = old[t][i].of /\ rows[i].says = old[t][i].says
           /\ rows[i].version # 2
  BY <1>1, BackfillSound
<1>3. new = [old EXCEPT ![t] = rows]
  BY DEF WithColumn
<1> HIDE DEF rows
<1>4. /\ new = [u \in Tables |-> new[u]]
      /\ new[t] = rows
      /\ \A u \in Tables : u # t => new[u] = old[u]
  BY <1>1, <1>3
<1>5. \A u \in Tables : Sound(u, new[u])
  BY <1>2, <1>4 DEF Stored
<1>6. Alike(old, new)
  BY <1>2, <1>4 DEF Alike
<1>7. Later(old, new)
  BY <1>2, <1>4 DEF Later, Follows
<1>8. Stored(new)
  BY <1>4, <1>5, <1>6, AlikeStored
<1> QED
  BY <1>2, <1>4, <1>6, <1>7, <1>8
-------------------------------------------------------------------------------
(***************************************************************************)
(* What an operation writes                                                *)
(***************************************************************************)
Kinds == {"assess", "sanction", "verify", "outcome", "measure", "promote", "materialize"}

(* An operation whose transaction has looked at what it rests on.          *)
Accepted(tables, o) ==
  \/ o = Op("assess", Len(tables["assessments"]) + 1, "row")
  \/ o \in Ops /\ o.kind # "assess" /\ Accepts(tables, o, Lawful(tables))

(* The tables once it has written to the first n - 1 it writes to.         *)
Written(tables, o, n) ==
  [t \in Tables |->
     IF \E k \in DOMAIN Writes(o.kind) : k < n /\ Writes(o.kind)[k] = t
     THEN Append(tables[t], NewRow(tables[t], Content(o))) ELSE tables[t]]

(* No operation writes to a table twice.                                   *)
LEMMA WritesOnce ==
  ASSUME NEW kind \in Kinds
  PROVE  /\ Len(Writes(kind)) \in 1..3 /\ DOMAIN Writes(kind) = 1..Len(Writes(kind))
         /\ \A i \in DOMAIN Writes(kind) : Writes(kind)[i] \in Tables
         /\ \A i, j \in DOMAIN Writes(kind) : Writes(kind)[i] = Writes(kind)[j] => i = j
         /\ Touched(kind) = {Writes(kind)[i] : i \in DOMAIN Writes(kind)}
<1>1. /\ Writes("assess") = <<"assessments", "packets", "predictions">>
      /\ Writes("sanction") = <<"sanctions">>
      /\ Writes("verify") = <<"guardrails">>
      /\ Writes("outcome") = <<"outcomes">>
      /\ Writes("measure") = <<"errors", "snapshots">>
      /\ Writes("promote") = <<"snapshots", "facts">>
      /\ Writes("materialize") = <<"lessons", "search">>
  BY DEF Writes
<1> QED
  BY <1>1, TableNames DEF Kinds, Touched
(* What each operation may say, of which assessment.                       *)
LEMMA OpsShape ==
  ASSUME NEW o \in Ops
  PROVE  /\ o.of \in Nat
         /\ \/ o = Op("assess", 0, "row")
            \/ o.kind = "verify" /\ o.says \in {"proceed", "halt"}
            \/ o.kind = "promote" /\ o.says \in Triggers
            \/ o.kind \in {"sanction", "outcome", "measure", "materialize"} /\ o.says = "row"
BY NamesAssumption DEF Ops, Op

(* What an operation under way writes may be written there.                *)
LEMMA AcceptedShape ==
  ASSUME NEW tables, Stored(tables), NEW o, Accepted(tables, o)
  PROVE  /\ o.kind \in Kinds /\ o.of \in Nat
         /\ Content(o).of = o.of /\ Content(o).says = o.says
         /\ \A k \in DOMAIN Writes(o.kind) : o.says \in Sayings(Writes(o.kind)[k])
<1>1. CASE o = Op("assess", Len(tables["assessments"]) + 1, "row")
  <2>1. o.kind = "assess" /\ o.of = Len(tables["assessments"]) + 1 /\ o.says = "row"
    BY <1>1 DEF Op
  <2>2. Len(tables["assessments"]) \in Nat
    BY TableNames, Appended DEF Stored, Sound
  <2>3. Writes("assess") = <<"assessments", "packets", "predictions">>
    BY DEF Writes
  <2> QED
    BY <2>1, <2>2, <2>3 DEF Kinds, Content, Sayings
<1>2. CASE o \in Ops /\ o.kind # "assess"
  <2>1. /\ o.of \in Nat
        /\ \/ o.kind = "verify" /\ o.says \in {"proceed", "halt"}
           \/ o.kind = "promote" /\ o.says \in Triggers
           \/ o.kind \in {"sanction", "outcome", "measure", "materialize"} /\ o.says = "row"
    BY <1>2, OpsShape DEF Op
  <2>2. /\ Writes("sanction") = <<"sanctions">>
        /\ Writes("verify") = <<"guardrails">>
        /\ Writes("outcome") = <<"outcomes">>
        /\ Writes("measure") = <<"errors", "snapshots">>
        /\ Writes("promote") = <<"snapshots", "facts">>
        /\ Writes("materialize") = <<"lessons", "search">>
    BY DEF Writes
  <2>3. /\ Sayings("guardrails") = {"proceed", "halt"}
        /\ \A t : t # "guardrails" => "row" \in Sayings(t)
        /\ \A k \in Triggers : k \in Sayings("snapshots") /\ k \in Sayings("facts")
    BY DEF Sayings
  <2>4. \A k \in DOMAIN Writes(o.kind) : o.says \in Sayings(Writes(o.kind)[k])
    <3>1. CASE o.kind = "verify"
      BY <3>1, <2>1, <2>2, <2>3
    <3>2. CASE o.kind = "promote"
      BY <3>2, <2>1, <2>2, <2>3
    <3>3. CASE o.kind \in {"sanction", "outcome", "measure", "materialize"}
      BY <3>3, <2>1, <2>2, <2>3
    <3> QED
      BY <2>1, <3>1, <3>2, <3>3
  <2> QED
    BY <2>1, <2>4 DEF Kinds, Content
<1> QED
  BY <1>1, <1>2 DEF Accepted

(* Verified and closed at some time, an assessment stays so when rows are  *)
(* added: a newer verification is then the last.                           *)
LEMMA BackedGrows ==
  ASSUME NEW old, NEW new, NEW a, Backed(old, a),
         IsRows(old["guardrails"]),
         \A i \in DOMAIN old["outcomes"] :
           i \in DOMAIN new["outcomes"] /\ new["outcomes"][i] = old["outcomes"][i],
         NEW r,
         new["guardrails"] = old["guardrails"] \/ new["guardrails"] = Append(old["guardrails"], r)
  PROVE  Backed(new, a)
<1> DEFINE g == old["guardrails"]
           h == new["guardrails"]
<1>1. Has(new, "outcomes", a)
  BY DEF Backed, Has
<1>2. PICK i \in DOMAIN g : g[i].of = a /\ \A j \in DOMAIN g : j > i => g[j].of # a
  BY DEF Backed
<1>3. CASE h = g
  BY <1>1, <1>2, <1>3 DEF Backed
<1>4. CASE h = Append(g, r)
  <2>1. /\ Len(g) \in Nat /\ DOMAIN g = 1..Len(g) /\ DOMAIN h = 1..(Len(g) + 1)
        /\ h[Len(g) + 1] = r /\ \A j \in 1..Len(g) : h[j] = g[j]
    BY <1>4, Appended
  <2> HIDE DEF g, h
  <2>2. CASE r.of = a
    <3>1. /\ Len(g) + 1 \in DOMAIN h /\ h[Len(g) + 1].of = a
          /\ \A j \in DOMAIN h : j > Len(g) + 1 => h[j].of # a
      BY <2>1, <2>2
    <3> QED
      BY <3>1, <1>1 DEF Backed, h
  <2>3. CASE r.of # a
    <3>1. /\ i \in DOMAIN h /\ h[i].of = a
          /\ \A j \in DOMAIN h : j > i => h[j].of # a
      BY <2>1, <2>3, <1>2
    <3> QED
      BY <3>1, <1>1 DEF Backed, h
  <2> QED
    BY <2>2, <2>3
<1> QED
  BY <1>3, <1>4

(* Somebody who may learn a lesson learns it from a closed assessment that *)
(* was verified.                                                           *)
LEMMA StandingBacked ==
  ASSUME NEW tables, NEW a, Standing(tables, a), Has(tables, "outcomes", a)
  PROVE  Backed(tables, a)
BY DEF Standing, Backed
(* Before its first row, after each, and after its last.                   *)
LEMMA WrittenSteps ==
  ASSUME NEW tables, tables = [t \in Tables |-> tables[t]], NEW o, o.kind \in Kinds
  PROVE  /\ Written(tables, o, 1) = tables
         /\ \A n \in DOMAIN Writes(o.kind) :
              LET t == Writes(o.kind)[n]
                  w == Written(tables, o, n)
              IN  Written(tables, o, n + 1) =
                    [w EXCEPT ![t] = Append(w[t], NewRow(w[t], Content(o)))]
         /\ \A t \in Tables :
              Written(tables, o, Len(Writes(o.kind)) + 1)[t] =
                IF t \in Touched(o.kind)
                THEN Append(tables[t], NewRow(tables[t], Content(o))) ELSE tables[t]
<1> DEFINE W == Writes(o.kind)
           add(t) == Append(tables[t], NewRow(tables[t], Content(o)))
<1>1. /\ Len(W) \in 1..3 /\ DOMAIN W = 1..Len(W)
      /\ \A i \in DOMAIN W : W[i] \in Tables
      /\ \A i, j \in DOMAIN W : W[i] = W[j] => i = j
      /\ Touched(o.kind) = {W[i] : i \in DOMAIN W}
  BY WritesOnce
<1>2. \A n : \A t \in Tables :
        Written(tables, o, n)[t] =
          IF \E k \in DOMAIN W : k < n /\ W[k] = t THEN add(t) ELSE tables[t]
  BY DEF Written
<1>3. \A n : Written(tables, o, n) = [t \in Tables |-> Written(tables, o, n)[t]]
  BY DEF Written
<1> HIDE DEF W, add
<1>4. Written(tables, o, 1) = tables
  <2>1. \A t \in Tables : Written(tables, o, 1)[t] = tables[t]
    BY <1>1, <1>2
  <2> QED
    BY <2>1, <1>3
<1>5. ASSUME NEW n \in DOMAIN W
      PROVE  LET w == Written(tables, o, n)
             IN  Written(tables, o, n + 1) =
                   [w EXCEPT ![W[n]] = Append(w[W[n]], NewRow(w[W[n]], Content(o)))]
  <2> DEFINE w == Written(tables, o, n)
             v == Written(tables, o, n + 1)
  <2>1. w[W[n]] = tables[W[n]]
    BY <1>1, <1>2
  <2>2. v[W[n]] = add(W[n])
    BY <1>1, <1>2
  <2>3. \A t \in Tables : t # W[n] => v[t] = w[t]
    BY <1>1, <1>2
  <2>4. v = [t \in Tables |-> v[t]] /\ w = [t \in Tables |-> w[t]] /\ W[n] \in Tables
    BY <1>1, <1>3
  <2> HIDE DEF v, w
  <2>5. v = [w EXCEPT ![W[n]] = add(W[n])]
    BY <2>2, <2>3, <2>4
  <2> QED
    BY <2>1, <2>5 DEF v, w, add
<1>6. ASSUME NEW t \in Tables
      PROVE  Written(tables, o, Len(W) + 1)[t] = IF t \in Touched(o.kind) THEN add(t) ELSE tables[t]
  BY <1>1, <1>2
<1> QED
  BY <1>4, <1>5, <1>6 DEF W, add

(* An assessment and its packet are written together and of the same       *)
(* number; a lesson is written of what stands.                             *)
LEMMA AcceptedTouches ==
  ASSUME NEW tables, NEW o, Accepted(tables, o)
  PROVE  /\ "assessments" \in Touched(o.kind) <=> "packets" \in Touched(o.kind)
         /\ "packets" \in Touched(o.kind) => o.of = Len(tables["assessments"]) + 1
         /\ "lessons" \in Touched(o.kind) =>
              Standing(tables, o.of) /\ Has(tables, "outcomes", o.of)
<1>1. /\ Touched("assess") = {"assessments", "packets", "predictions"}
      /\ Touched("sanction") = {"sanctions"}
      /\ Touched("verify") = {"guardrails"}
      /\ Touched("outcome") = {"outcomes"}
      /\ Touched("measure") = {"errors", "snapshots"}
      /\ Touched("promote") = {"snapshots", "facts"}
      /\ Touched("materialize") = {"lessons", "search"}
  <2>1. /\ Writes("assess") = <<"assessments", "packets", "predictions">>
        /\ Writes("sanction") = <<"sanctions">>
        /\ Writes("verify") = <<"guardrails">>
        /\ Writes("outcome") = <<"outcomes">>
        /\ Writes("measure") = <<"errors", "snapshots">>
        /\ Writes("promote") = <<"snapshots", "facts">>
        /\ Writes("materialize") = <<"lessons", "search">>
    BY DEF Writes
  <2> QED
    BY <2>1 DEF Touched
<1>2. CASE o = Op("assess", Len(tables["assessments"]) + 1, "row")
  <2>1. o.kind = "assess" /\ o.of = Len(tables["assessments"]) + 1
    BY <1>2 DEF Op
  <2> QED
    BY <2>1, <1>1
<1>3. CASE o \in Ops /\ o.kind # "assess" /\ Accepts(tables, o, Lawful(tables))
  <2>1. o.kind \in {"sanction", "verify", "outcome", "measure", "promote", "materialize"}
    BY <1>3, OpsShape DEF Op
  <2>2. o.kind = "materialize" => Standing(tables, o.of) /\ Has(tables, "outcomes", o.of)
    BY <1>3 DEF Accepts
  <2> QED
    BY <2>1, <2>2, <1>1
<1> QED
  BY <1>2, <1>3 DEF Accepted

(* What an operation leaves when it has written all its rows.              *)
LEMMA WrittenStored ==
  ASSUME NEW old, Stored(old), Len(old["assessments"]) = Len(old["packets"]),
         NEW o, Accepted(old, o),
         NEW new, new = Written(old, o, Len(Writes(o.kind)) + 1)
  PROVE  Stored(new) /\ Later(old, new) /\ Len(new["assessments"]) = Len(new["packets"])
<1> DEFINE c == Content(o)
           add(t) == Append(old[t], NewRow(old[t], c))
<1>1. /\ o.kind \in Kinds /\ o.of \in Nat /\ c.of = o.of /\ c.says = o.says
      /\ \A k \in DOMAIN Writes(o.kind) : o.says \in Sayings(Writes(o.kind)[k])
  BY AcceptedShape
<1>2. old = [t \in Tables |-> old[t]] /\ \A t \in Tables : Sound(t, old[t])
  BY DEF Stored
<1>3. \A t \in Tables : new[t] = IF t \in Touched(o.kind) THEN add(t) ELSE old[t]
  BY <1>1, <1>2, WrittenSteps
<1>4. new = [t \in Tables |-> new[t]]
  BY DEF Written
<1>5. /\ Touched(o.kind) \subseteq Tables
      /\ \A t \in Touched(o.kind) : c.says \in Sayings(t)
  BY <1>1, WritesOnce
<1> HIDE DEF c
<1>6. \A t \in Touched(o.kind) :
        /\ Sound(t, add(t))
        /\ NewRow(old[t], c).of = c.of /\ NewRow(old[t], c).says = c.says
  BY <1>1, <1>2, <1>5, NewRowSound
<1>7. \A t \in Tables :
        /\ IsRows(old[t]) /\ Len(old[t]) \in Nat /\ DOMAIN old[t] = 1..Len(old[t])
        /\ Len(add(t)) = Len(old[t]) + 1 /\ DOMAIN add(t) = 1..(Len(old[t]) + 1)
        /\ add(t)[Len(old[t]) + 1] = NewRow(old[t], c)
        /\ \A i \in 1..Len(old[t]) : add(t)[i] = old[t][i]
  BY <1>2, Appended DEF Sound
<1> HIDE DEF add
<1>8. \A t \in Tables : Sound(t, new[t])
  BY <1>2, <1>3, <1>6
<1>9. \A t \in Tables : \A i \in DOMAIN old[t] : i \in DOMAIN new[t] /\ new[t][i] = old[t][i]
  BY <1>3, <1>7
<1>10. Later(old, new)
  BY <1>9 DEF Later, Follows
<1>11. /\ "assessments" \in Touched(o.kind) <=> "packets" \in Touched(o.kind)
       /\ "packets" \in Touched(o.kind) => o.of = Len(old["assessments"]) + 1
       /\ "lessons" \in Touched(o.kind) => Standing(old, o.of) /\ Has(old, "outcomes", o.of)
  BY AcceptedTouches
<1>12. ASSUME NEW t \in Tables
       PROVE  /\ t \in Touched(o.kind) =>
                   /\ Len(new[t]) = Len(old[t]) + 1
                   /\ \A i \in DOMAIN new[t] : i \notin DOMAIN old[t] => i = Len(old[t]) + 1
                   /\ new[t][Len(old[t]) + 1] = NewRow(old[t], c)
              /\ t \notin Touched(o.kind) => new[t] = old[t]
  <2>1. CASE t \in Touched(o.kind)
    <3>1. new[t] = add(t)
      BY <2>1, <1>3
    <3> QED
      BY <2>1, <3>1, <1>7
  <2>2. CASE t \notin Touched(o.kind)
    BY <2>2, <1>3
  <2> QED
    BY <2>1, <2>2
<1>13. /\ "packets" \in Tables /\ "lessons" \in Tables /\ "assessments" \in Tables
       /\ "guardrails" \in Tables /\ "outcomes" \in Tables
  BY TableNames
<1>14. Len(new["assessments"]) = Len(new["packets"])
  BY <1>12, <1>11, <1>13
<1>15. ASSUME NEW j \in DOMAIN new["packets"] PROVE new["packets"][j].of = j
  <2>1. CASE j \in DOMAIN old["packets"]
    <3>1. new["packets"][j] = old["packets"][j]
      BY <2>1, <1>9, TableNames
    <3> QED
      BY <2>1, <3>1 DEF Stored
  <2>2. CASE j \notin DOMAIN old["packets"]
    <3>1. "packets" \in Touched(o.kind) /\ j = Len(old["packets"]) + 1
      BY <2>2, <1>12, <1>13
    <3>2. new["packets"][j] = NewRow(old["packets"], c)
      BY <3>1, <1>12, <1>13
    <3> QED
      BY <3>1, <3>2, <1>1, <1>6, <1>11
  <2> QED
    BY <2>1, <2>2
<1>16. ASSUME NEW a, Backed(old, a) PROVE Backed(new, a)
  <2>1. \/ new["guardrails"] = old["guardrails"]
        \/ new["guardrails"] = Append(old["guardrails"], NewRow(old["guardrails"], c))
    BY <1>3, <1>13 DEF add
  <2>2. \A i \in DOMAIN old["outcomes"] :
          i \in DOMAIN new["outcomes"] /\ new["outcomes"][i] = old["outcomes"][i]
    BY <1>9, TableNames
  <2>3. IsRows(old["guardrails"])
    BY <1>7, <1>13
  <2> QED
    BY <1>16, <2>1, <2>2, <2>3, BackedGrows
<1>17. ASSUME NEW i \in DOMAIN new["lessons"] PROVE Backed(new, new["lessons"][i].of)
  <2>1. CASE i \in DOMAIN old["lessons"]
    <3>1. new["lessons"][i] = old["lessons"][i]
      BY <2>1, <1>9, TableNames
    <3>2. Backed(old, old["lessons"][i].of)
      BY <2>1 DEF Stored
    <3> QED
      BY <3>1, <3>2, <1>16
  <2>2. CASE i \notin DOMAIN old["lessons"]
    <3>1. "lessons" \in Touched(o.kind) /\ i = Len(old["lessons"]) + 1
      BY <2>2, <1>12, <1>13
    <3>2. new["lessons"][i] = NewRow(old["lessons"], c)
      BY <3>1, <1>12, <1>13
    <3>3. new["lessons"][i].of = o.of
      BY <3>1, <3>2, <1>1, <1>6
    <3>4. Backed(old, o.of)
      BY <3>1, <1>11, StandingBacked
    <3> QED
      BY <3>3, <3>4, <1>16
  <2> QED
    BY <2>1, <2>2
<1>18. Stored(new)
  BY <1>4, <1>8, <1>15, <1>17 DEF Stored
<1> QED
  BY <1>10, <1>14, <1>18
-------------------------------------------------------------------------------
(***************************************************************************)
(* What an audit finds of one table                                        *)
(***************************************************************************)
(* Whatever it calls invalid somebody edited, or the packet beside it.     *)
LEMMA InvalidMarred ==
  ASSUME NEW tables, Stored(tables), Len(tables["assessments"]) = Len(tables["packets"]),
         NEW t \in Chains, ~TableValid(tables, t)
  PROVE  Marred(tables[t]) \/ Marred(tables["packets"])
<1>1. SUFFICES ASSUME ~Marred(tables[t]), ~Marred(tables["packets"]) PROVE FALSE
  OBVIOUS
<1>2. /\ "packets" \in Tables /\ "assessments" \in Tables /\ t \in Tables
  BY TableNames
<1>3. \A u \in Tables : Sound(u, tables[u])
  BY DEF Stored
<1>4. Valid(tables[t])
  BY <1>1, <1>2, <1>3, UnmarredValid
<1>5. t = "assessments" /\ ~PacketsMatch(tables)
  BY <1>4 DEF TableValid
<1>6. PICK i \in DOMAIN tables["assessments"] :
        \A j \in DOMAIN tables["packets"] :
          ~ /\ tables["packets"][j].of = i
            /\ tables["packets"][j].says = tables["assessments"][i].says
  BY <1>5 DEF PacketsMatch
<1>7. DOMAIN tables["assessments"] = DOMAIN tables["packets"]
  BY <1>2, <1>3, Appended DEF Sound
<1>8. tables["packets"][i].of = i
  BY <1>7 DEF Stored
<1>9. \A u \in {"assessments", "packets"} : tables[u][i].says = "row"
  <2>1. Sayings("assessments") = {"row"} /\ Sayings("packets") = {"row"}
    BY DEF Sayings
  <2>2. RowOK("assessments", tables["assessments"], i) /\ RowOK("packets", tables["packets"], i)
    BY <1>2, <1>3, <1>7 DEF Sound
  <2>3. tables["assessments"][i].says # Garbled /\ tables["packets"][i].says # Garbled
    BY <1>1, <1>5, <1>7 DEF Marred
  <2>4. /\ tables["assessments"][i].says \in {"row", Garbled}
        /\ tables["packets"][i].says \in {"row", Garbled}
    BY <2>1, <2>2 DEF RowOK
  <2> QED
    BY <2>3, <2>4
<1> QED
  BY <1>6, <1>7, <1>8, <1>9

(* Whatever somebody edited it calls invalid, a packet with its assessment.*)
LEMMA MarredFound ==
  ASSUME NEW tables, Stored(tables), Len(tables["assessments"]) = Len(tables["packets"]),
         NEW t \in Chains, TableValid(tables, t)
  PROVE  ~Marred(tables[t]) /\ (t = "assessments" => ~Marred(tables["packets"]))
<1>1. /\ "packets" \in Tables /\ "assessments" \in Tables /\ t \in Tables
  BY TableNames
<1>2. \A u \in Tables : Sound(u, tables[u])
  BY DEF Stored
<1>3. ~Marred(tables[t])
  BY <1>1, <1>2, MarredInvalid DEF TableValid
<1>4. ASSUME t = "assessments", Marred(tables["packets"]) PROVE FALSE
  <2>1. PICK j \in DOMAIN tables["packets"] : tables["packets"][j].says = Garbled
    BY <1>4 DEF Marred
  <2>2. j \in DOMAIN tables["assessments"]
    BY <1>1, <1>2, Appended DEF Sound
  <2>3. PICK k \in DOMAIN tables["packets"] :
          /\ tables["packets"][k].of = j
          /\ tables["packets"][k].says = tables["assessments"][j].says
    BY <1>4, <2>2 DEF TableValid, PacketsMatch
  <2>4. k = j
    BY <2>3 DEF Stored
  <2> QED
    BY <2>1, <2>2, <2>3, <2>4, <1>3, <1>4 DEF Marred
<1> QED
  BY <1>3, <1>4

(* What materialize_learning_context finds in order nobody edited.         *)
LEMMA LawfulUndamaged ==
  ASSUME NEW tables, Stored(tables), Len(tables["assessments"]) = Len(tables["packets"]),
         Lawful(tables)
  PROVE  Undamaged(tables, Sources) /\ Sourced(tables, tables["lessons"])
<1>1. \A t \in {"assessments", "outcomes", "guardrails", "lessons"} :
        t \in Chains /\ TableValid(tables, t)
  BY TableNames DEF Lawful
<1>2. \A t \in {"assessments", "outcomes", "guardrails", "lessons"} : ~Marred(tables[t])
  BY <1>1, MarredFound
<1>3. ~Marred(tables["packets"])
  BY <1>1, MarredFound
<1> QED
  BY <1>2, <1>3 DEF Undamaged, Sources, Marred, Lawful

(* Of a lesson that was learned and is without a source now, verification  *)
(* was withdrawn or somebody edited it.                                    *)
LEMMA UnsourcedTold ==
  ASSUME NEW tables, Stored(tables), NEW lessons, ~Sourced(tables, lessons),
         \A l \in DOMAIN lessons : Has(tables, "lessons", lessons[l].of)
  PROVE  \/ Marred(tables["guardrails"])
         \/ \E i \in DOMAIN tables["lessons"], j \in DOMAIN tables["guardrails"] :
              /\ tables["guardrails"][j].of = tables["lessons"][i].of
              /\ tables["guardrails"][j].says = "halt"
<1>1. PICK l \in DOMAIN lessons :
        ~(Has(tables, "outcomes", lessons[l].of) /\ Standing(tables, lessons[l].of))
  BY DEF Sourced
<1>2. PICK i \in DOMAIN tables["lessons"] : tables["lessons"][i].of = lessons[l].of
  BY DEF Has
<1>3. Backed(tables, lessons[l].of)
  BY <1>2 DEF Stored
<1>4. PICK j \in DOMAIN tables["guardrails"] :
        /\ tables["guardrails"][j].of = lessons[l].of
        /\ \A k \in DOMAIN tables["guardrails"] : k > j => tables["guardrails"][k].of # lessons[l].of
  BY <1>3 DEF Backed
<1>5. tables["guardrails"][j].says # "proceed"
  BY <1>1, <1>3, <1>4 DEF Backed, Standing
<1>6. tables["guardrails"][j].says \in {"proceed", "halt", Garbled}
  <2>1. RowOK("guardrails", tables["guardrails"], j)
    BY TableNames DEF Stored, Sound
  <2>2. Sayings("guardrails") = {"proceed", "halt"}
    BY DEF Sayings
  <2> QED
    BY <2>1, <2>2 DEF RowOK
<1> QED
  BY <1>2, <1>4, <1>5, <1>6 DEF Marred
-------------------------------------------------------------------------------
(***************************************************************************)
(* The inductive invariant                                                 *)
(***************************************************************************)
Holds(p) == pc[p] \in {"check", "insert", "commit"}

(* Where a process is, and what it has come to.                            *)
Placed(p) ==
  /\ pc[p] \in {"opening", "adding"} => at[p] \in 1..(columns + 1)
  /\ pc[p] = "adding" => at[p] \in 1..3
  /\ pc[p] \notin {"closed", "opening", "adding"} => columns = 3
  /\ pc[p] \in {"idle", "begin", "check"} => at[p] = 1
  /\ pc[p] \in {"begin", "check"} => op[p] \in Ops
  /\ pc[p] = "audit" => at[p] \in 1..9

(* One process at a time writes, and on a schema that is complete.         *)
Control ==
  /\ columns \in 0..3
  /\ pc \in [Procs -> Places] /\ at \in [Procs -> Nat]
  /\ DOMAIN op = Procs /\ DOMAIN seen = Procs /\ DOMAIN hurt = Procs
  /\ lock \in Procs \cup {None} /\ (lock = None => work = disk)
  /\ \A p \in Procs : Holds(p) <=> lock = p
  /\ \A p \in Procs : Placed(p)

(* A transaction sees the committed rows and its own.                      *)
Sees(p) ==
  /\ pc[p] = "check" => work = disk
  /\ pc[p] \in {"insert", "commit"} => Accepted(disk, op[p])
  /\ pc[p] = "insert" => at[p] \in DOMAIN Writes(op[p].kind) /\ work = Written(disk, op[p], at[p])
  /\ pc[p] = "commit" => work = Written(disk, op[p], Len(Writes(op[p].kind)) + 1)

(* The committed rows.  While a column is missing, rows of its table are   *)
(* of an older version.                                                    *)
Rows ==
  /\ Stored(disk)
  /\ Len(disk["assessments"]) = Len(disk["packets"])
  /\ columns < 3 => \A t \in Migrated : \A i \in DOMAIN disk[t] : disk[t][i].version # 2

(* An audit begun on a damaged ledger has an edited row still before it.   *)
Audited(p) ==
  /\ hurt[p] => pc[p] \in {"audit", "invalid"}
  /\ pc[p] = "audit" /\ hurt[p] =>
       \/ \E k \in at[p]..9 : Marred(disk[Chained[k]])
       \/ at[p] = 1 /\ Marred(disk["packets"])
  /\ pc[p] = "sources" => \A l \in DOMAIN seen[p] : Has(disk, "lessons", seen[p][l].of)
  /\ pc[p] = "invalid" => Damaged \/ Withdrawn

IInv == Control /\ Rows /\ (\A p \in Procs : Sees(p)) /\ \A p \in Procs : Audited(p)

Step(p) ==
  \/ Open(p) \/ SeeColumn(p) \/ AddColumn(p)
  \/ Call(p) \/ Begin(p) \/ Check(p) \/ Insert(p) \/ Commit(p)
  \/ Audit(p) \/ AuditTable(p) \/ AuditSources(p) \/ Answered(p)
  \/ Busy(p) \/ Fail(p) \/ Die(p)

(* A process moves nobody else.                                            *)
LEMMA Others ==
  ASSUME Control, NEW q \in Procs, Step(q), NEW p \in Procs, p # q
  PROVE  /\ pc'[p] = pc[p] /\ op'[p] = op[p] /\ at'[p] = at[p]
         /\ seen'[p] = seen[p] /\ hurt'[p] = hurt[p]
<1> USE DEF Control, Goto, Turn, Done
<1>1. CASE Open(q)
  BY <1>1 DEF Open
<1>2. CASE SeeColumn(q)
  BY <1>2 DEF SeeColumn
<1>3. CASE AddColumn(q)
  BY <1>3 DEF AddColumn
<1>4. CASE Call(q)
  BY <1>4 DEF Call
<1>5. CASE Begin(q)
  BY <1>5 DEF Begin
<1>6. CASE Check(q)
  BY <1>6 DEF Check, Leave
<1>7. CASE Insert(q)
  BY <1>7 DEF Insert
<1>8. CASE Commit(q)
  BY <1>8 DEF Commit, Leave
<1>9. CASE Audit(q)
  BY <1>9 DEF Audit
<1>10. CASE AuditTable(q)
  BY <1>10 DEF AuditTable
<1>11. CASE AuditSources(q)
  BY <1>11 DEF AuditSources
<1>12. CASE Answered(q)
  BY <1>12 DEF Answered
<1>13. CASE Busy(q)
  BY <1>13 DEF Busy
<1>14. CASE Fail(q)
  BY <1>14 DEF Fail, Leave
<1>15. CASE Die(q)
  BY <1>15 DEF Die, Leave
<1> QED
  BY <1>1, <1>2, <1>3, <1>4, <1>5, <1>6, <1>7, <1>8, <1>9, <1>10, <1>11, <1>12,
     <1>13, <1>14, <1>15 DEF Step
(* The columns added to old tables.                                        *)
LEMMA AddedIs ==
  /\ Len(Added) = 3
  /\ Added[1] = [table |-> "outcomes", column |-> "new"]
  /\ Added[2] = [table |-> "outcomes", column |-> "version"]
  /\ Added[3] = [table |-> "predictions", column |-> "version"]
  /\ Migrated = {"outcomes", "predictions"}
<1>1. DOMAIN Added = {1, 2, 3} /\ Len(Added) = 3
  BY DEF Added
<1> QED
  BY <1>1 DEF Added, Migrated

(* It goes where its step sends it, and takes and leaves the lock.         *)
LEMMA Itself ==
  ASSUME Control, NEW q \in Procs, Step(q)
  PROVE  /\ pc' \in [Procs -> Places] /\ at' \in [Procs -> Nat]
         /\ DOMAIN op' = Procs /\ DOMAIN seen' = Procs /\ DOMAIN hurt' = Procs
         /\ columns' \in 0..3 /\ columns' >= columns
         /\ Placed(q)'
         /\ Holds(q)' <=> lock' = q
         /\ \/ lock' = lock
            \/ lock = q /\ lock' = None
            \/ lock = None /\ lock' = q
         /\ lock' = None => work' = disk'
<1>0. /\ pc \in [Procs -> Places] /\ at \in [Procs -> Nat]
      /\ DOMAIN op = Procs /\ DOMAIN seen = Procs /\ DOMAIN hurt = Procs
      /\ columns \in 0..3 /\ Placed(q) /\ (Holds(q) <=> lock = q)
      /\ lock \in Procs \cup {None} /\ (lock = None => work = disk)
  BY DEF Control
<1> USE <1>0, NoneAssumption DEF Placed, Holds, Goto, Turn, Done, Places
<1>1. CASE Open(q)
  BY <1>1 DEF Open
<1>2. CASE SeeColumn(q)
  BY <1>2, AddedIs DEF SeeColumn
<1>3. CASE AddColumn(q)
  BY <1>3, AddedIs DEF AddColumn
<1>4. CASE Call(q)
  BY <1>4 DEF Call
<1>5. CASE Begin(q)
  BY <1>5 DEF Begin
<1>6. CASE Check(q)
  BY <1>6 DEF Check, Leave
<1>7. CASE Insert(q)
  BY <1>7 DEF Insert
<1>8. CASE Commit(q)
  BY <1>8 DEF Commit, Leave
<1>9. CASE Audit(q)
  BY <1>9 DEF Audit
<1>10. CASE AuditTable(q)
  BY <1>10, TableNames DEF AuditTable
<1>11. CASE AuditSources(q)
  BY <1>11 DEF AuditSources
<1>12. CASE Answered(q)
  BY <1>12 DEF Answered
<1>13. CASE Busy(q)
  BY <1>13 DEF Busy
<1>14. CASE Fail(q)
  BY <1>14 DEF Fail, Leave
<1>15. CASE Die(q)
  BY <1>15 DEF Die, Leave
<1> QED
  BY Step(q), <1>1, <1>2, <1>3, <1>4, <1>5, <1>6, <1>7, <1>8, <1>9, <1>10, <1>11, <1>12,
     <1>13, <1>14, <1>15 DEF Step

(* Nobody else is moved, and nobody writes while another does.             *)
LEMMA ControlStep ==
  ASSUME Control, [Next]_vars
  PROVE  Control'
<1>1. CASE UNCHANGED vars
  BY <1>1 DEF Control, Placed, Holds, vars
<1>2. ASSUME NEW t, NEW i, Damage(t, i)
      PROVE  Control'
  BY <1>2 DEF Control, Placed, Holds, Damage, locals
<1>3. ASSUME NEW q \in Procs, Step(q)
      PROVE  Control'
  <2>1. /\ pc' \in [Procs -> Places] /\ at' \in [Procs -> Nat]
        /\ DOMAIN op' = Procs /\ DOMAIN seen' = Procs /\ DOMAIN hurt' = Procs
        /\ columns' \in 0..3 /\ columns' >= columns
        /\ Placed(q)' /\ (Holds(q)' <=> lock' = q)
        /\ \/ lock' = lock
           \/ lock = q /\ lock' = None
           \/ lock = None /\ lock' = q
        /\ lock' = None => work' = disk'
    BY <1>3, Itself
  <2>2. lock' \in Procs \cup {None}
    BY <2>1 DEF Control
  <2>3. ASSUME NEW p \in Procs PROVE Placed(p)'
    <3>1. CASE p = q
      BY <2>1, <3>1
    <3>2. CASE p # q
      <4>1. pc'[p] = pc[p] /\ op'[p] = op[p] /\ at'[p] = at[p]
        BY <1>3, <3>2, Others
      <4>2. Placed(p) /\ columns \in 0..3 /\ at[p] \in Nat
        BY DEF Control
      <4> QED
        BY <2>1, <4>1, <4>2 DEF Placed
    <3> QED
      BY <3>1, <3>2
  <2>4. ASSUME NEW p \in Procs PROVE Holds(p)' <=> lock' = p
    <3>1. CASE p = q
      BY <2>1, <3>1
    <3>2. CASE p # q
      <4>1. pc'[p] = pc[p]
        BY <1>3, <3>2, Others
      <4>2. Holds(p) <=> lock = p
        BY DEF Control
      <4>3. lock' = p <=> lock = p
        BY <2>1, <3>2, NoneAssumption
      <4> QED
        BY <4>1, <4>2, <4>3 DEF Holds
    <3> QED
      BY <3>1, <3>2
  <2> QED
    BY <2>1, <2>2, <2>3, <2>4 DEF Control
<1> QED
  BY <1>1, <1>2, <1>3 DEF Next, Step

(* What a writer's transaction sees nobody else changes.                   *)
LEMMA Undisturbed ==
  ASSUME Control, NEW q \in Procs, Step(q), NEW p \in Procs, p # q, lock = p
  PROVE  disk' = disk /\ work' = work
<1>1. /\ columns = 3 /\ pc[q] \notin {"check", "insert", "commit"}
      /\ pc[q] = "adding" => at[q] \in 1..3
      /\ lock # None /\ lock # q
  BY NoneAssumption DEF Control, Placed, Holds
<1> USE <1>1
<1>2. CASE Open(q)
  BY <1>2 DEF Open
<1>3. CASE SeeColumn(q)
  BY <1>3 DEF SeeColumn
<1>4. CASE AddColumn(q)
  BY <1>4 DEF AddColumn
<1>5. CASE Call(q)
  BY <1>5 DEF Call
<1>6. CASE Begin(q)
  BY <1>6 DEF Begin
<1>7. CASE Check(q)
  BY <1>7 DEF Check, Leave
<1>8. CASE Insert(q)
  BY <1>8 DEF Insert
<1>9. CASE Commit(q)
  BY <1>9 DEF Commit, Leave
<1>10. CASE Audit(q)
  BY <1>10 DEF Audit
<1>11. CASE AuditTable(q)
  BY <1>11 DEF AuditTable
<1>12. CASE AuditSources(q)
  BY <1>12 DEF AuditSources
<1>13. CASE Answered(q)
  BY <1>13 DEF Answered
<1>14. CASE Busy(q)
  BY <1>14 DEF Busy
<1>15. CASE Fail(q)
  BY <1>15 DEF Fail, Leave
<1>16. CASE Die(q)
  BY <1>16 DEF Die, Leave
<1> QED
  BY Step(q), <1>2, <1>3, <1>4, <1>5, <1>6, <1>7, <1>8, <1>9, <1>10, <1>11,
     <1>12, <1>13, <1>14, <1>15, <1>16 DEF Step

(* A transaction that has looked at what it rests on inserts its rows one  *)
(* after the other.                                                        *)
LEMMA SeesStep ==
  ASSUME Control, Rows, \A p \in Procs : Sees(p), [Next]_vars, NEW p \in Procs
  PROVE  Sees(p)'
<1>1. CASE UNCHANGED vars
  BY <1>1 DEF Sees, vars
<1>2. ASSUME NEW t, NEW i, Damage(t, i)
      PROVE  Sees(p)'
  <2>1. ~Holds(p) /\ pc' = pc
    BY <1>2, NoneAssumption DEF Control, Damage
  <2> QED
    BY <2>1 DEF Sees, Holds
<1>3. ASSUME NEW q \in Procs, Step(q), p # q
      PROVE  Sees(p)'
  <2>1. pc'[p] = pc[p] /\ op'[p] = op[p] /\ at'[p] = at[p]
    BY <1>3, Others
  <2>2. CASE Holds(p)
    <3>1. lock = p
      BY <2>2 DEF Control
    <3>2. disk' = disk /\ work' = work
      BY <1>3, <3>1, Undisturbed
    <3> QED
      BY <2>1, <3>2 DEF Sees
  <2>3. CASE ~Holds(p)
    BY <2>1, <2>3 DEF Sees, Holds
  <2> QED
    BY <2>2, <2>3
<1>4. CASE Begin(p)
  <2>1. pc'[p] = "check" /\ work' = disk'
    BY <1>4 DEF Begin, Goto, Control
  <2> QED
    BY <2>1 DEF Sees
<1>5. CASE Check(p)
  <2>1. work = disk /\ op[p] \in Ops /\ at[p] = 1 /\ pc \in [Procs -> Places] /\ DOMAIN op = Procs
    BY <1>5 DEF Check, Control, Sees, Placed
  <2>2. CASE Accepts(work, op[p], Lawful(work))
    <3>1. /\ op'[p] = Named(disk, op[p]) /\ pc'[p] = "insert" /\ disk' = disk /\ work' = work
          /\ at' = at
      BY <1>5, <2>1, <2>2 DEF Check, Goto
    <3>2. Accepted(disk, op'[p])
      <4>1. CASE op[p].kind = "assess"
        <5>1. op[p] = Op("assess", 0, "row")
          BY <2>1, <4>1, OpsShape
        <5>2. op'[p] = [op[p] EXCEPT !.of = Len(disk["assessments"]) + 1]
          BY <3>1, <4>1 DEF Named
        <5>3. op'[p] = Op("assess", Len(disk["assessments"]) + 1, "row")
          BY <5>1, <5>2 DEF Op
        <5> QED
          BY <5>3 DEF Accepted
      <4>2. CASE op[p].kind # "assess"
        BY <2>1, <2>2, <3>1, <4>2 DEF Named, Accepted
      <4> QED
        BY <4>1, <4>2
    <3>3. op'[p].kind \in Kinds
      BY <3>2, AcceptedShape DEF Rows
    <3>4. 1 \in DOMAIN Writes(op'[p].kind)
      BY <3>3, WritesOnce
    <3>5. Written(disk, op'[p], 1) = disk
      BY <3>3, WrittenSteps DEF Rows, Stored
    <3> QED
      BY <2>1, <3>1, <3>2, <3>4, <3>5 DEF Sees
  <2>3. CASE ~Accepts(work, op[p], Lawful(work))
    <3>1. pc'[p] = "idle"
      BY <1>5, <2>1, <2>3 DEF Check, Goto
    <3> QED
      BY <3>1 DEF Sees
  <2> QED
    BY <2>2, <2>3
<1>6. CASE Insert(p)
  <2> DEFINE W == Writes(op[p].kind)
             n == at[p]
  <2>1. /\ Accepted(disk, op[p]) /\ n \in DOMAIN W /\ work = Written(disk, op[p], n)
        /\ pc \in [Procs -> Places] /\ at \in [Procs -> Nat]
    BY <1>6 DEF Insert, Sees, Control
  <2>2. op[p].kind \in Kinds
    BY <2>1, AcceptedShape DEF Rows
  <2>3. Len(W) \in 1..3 /\ DOMAIN W = 1..Len(W)
    BY <2>2, WritesOnce
  <2>4. /\ disk' = disk /\ op' = op /\ at'[p] = n + 1
        /\ pc'[p] = IF n = Len(W) THEN "commit" ELSE "insert"
        /\ work' = [work EXCEPT ![W[n]] =
                      Append(work[W[n]], NewRow(work[W[n]], Content(op[p])))]
    BY <1>6, <2>1 DEF Insert, Goto, Turn
  <2>5. work' = Written(disk, op[p], n + 1)
    <3>1. disk = [t \in Tables |-> disk[t]]
      BY DEF Rows, Stored
    <3>2. \A k \in DOMAIN W :
            LET t == W[k]
                w == Written(disk, op[p], k)
            IN  Written(disk, op[p], k + 1) =
                  [w EXCEPT ![t] = Append(w[t], NewRow(w[t], Content(op[p])))]
      BY <2>2, <3>1, WrittenSteps
    <3> QED
      BY <2>1, <2>4, <3>2
  <2> HIDE DEF W, n
  <2>6. CASE n = Len(W)
    BY <2>1, <2>4, <2>5, <2>6 DEF Sees, W, n
  <2>7. CASE n # Len(W)
    <3>1. n + 1 \in DOMAIN W
      BY <2>1, <2>3, <2>7
    <3> QED
      BY <2>1, <2>4, <2>5, <2>7, <3>1 DEF Sees, W, n
  <2> QED
    BY <2>6, <2>7
<1>7. ASSUME Step(p), ~Begin(p), ~Check(p), ~Insert(p)
      PROVE  Sees(p)'
  <2>1. pc'[p] \notin {"check", "insert", "commit"}
    <3>1. pc \in [Procs -> Places]
      BY DEF Control
    <3> QED
      BY <1>7, <3>1, Zenon DEF Step, Open, SeeColumn, AddColumn, Call, Commit, Audit, AuditTable,
         AuditSources, Answered, Busy, Fail, Die, Goto
  <2> QED
    BY <2>1 DEF Sees
<1> QED
  BY <1>1, <1>2, <1>3, <1>4, <1>5, <1>6, <1>7 DEF Next, Step

(* Rows stay as they were but for what somebody edited, and the rows of an *)
(* operation are added whole.                                              *)
LEMMA RowsStep ==
  ASSUME Control, Rows, \A p \in Procs : Sees(p), [Next]_vars
  PROVE  Rows' /\ Later(disk, disk')
<1>0. Later(disk, disk)
  BY DEF Later, Follows
<1>1. CASE disk' = disk /\ columns' = columns
  BY <1>0, <1>1 DEF Rows
<1>2. ASSUME NEW t \in Chains \cup {"packets"}, NEW k \in DOMAIN disk[t], Damage(t, k)
      PROVE  Rows' /\ Later(disk, disk')
  <2>1. disk' = WithEdit(disk, t, k) /\ columns' = columns
    BY <1>2 DEF Damage, WithEdit, Edited
  <2>2. t \in Tables
    BY TableNames
  <2>3. /\ Stored(disk') /\ Later(disk, disk') /\ Alike(disk, disk')
        /\ \A u \in Tables :
             /\ Len(disk'[u]) = Len(disk[u])
             /\ \A i \in DOMAIN disk[u] : disk'[u][i].version = disk[u][i].version
    BY <2>1, <2>2, DamageStored DEF Rows
  <2>4. Len(disk'["assessments"]) = Len(disk'["packets"])
    BY <2>3, TableNames DEF Rows
  <2>5. \A u \in Migrated : u \in Tables /\ DOMAIN disk'[u] = DOMAIN disk[u]
    BY <2>3, TableNames, AddedIs DEF Alike
  <2>6. columns' < 3 => \A u \in Migrated : \A i \in DOMAIN disk'[u] : disk'[u][i].version # 2
    BY <2>1, <2>3, <2>5 DEF Rows
  <2> QED
    BY <2>3, <2>4, <2>6 DEF Rows
<1>3. ASSUME NEW q \in Procs, AddColumn(q), columns < at[q]
      PROVE  Rows' /\ Later(disk, disk')
  <2> DEFINE t == Added[at[q]].table
             c == Added[at[q]].column
  <2>1. columns < 3 /\ columns' = columns + 1 /\ at[q] \in 1..3 /\ at[q] = columns + 1
    BY <1>3 DEF AddColumn, Control, Placed
  <2>2. disk' = WithColumn(disk, t, c)
    BY <1>3, <2>1 DEF AddColumn, WithColumn, Backfill
  <2>3. t \in Migrated /\ t \in Tables /\ t # "assessments" /\ t # "packets"
        /\ Migrated \subseteq Tables
    BY <2>1, AddedIs, TableNames
  <2>4. \A u \in Migrated : \A i \in DOMAIN disk[u] : disk[u][i].version # 2
    BY <2>1 DEF Rows
  <2> HIDE DEF t, c
  <2>5. /\ Stored(disk') /\ Later(disk, disk')
        /\ \A i \in DOMAIN disk'[t] : disk'[t][i].version # 2
        /\ \A u \in Tables : u # t => disk'[u] = disk[u]
    BY <2>2, <2>3, <2>4, BackfillStored DEF Rows
  <2>6. Len(disk'["assessments"]) = Len(disk'["packets"])
    BY <2>3, <2>5, TableNames DEF Rows
  <2>7. \A u \in Migrated : \A i \in DOMAIN disk'[u] : disk'[u][i].version # 2
    BY <2>3, <2>4, <2>5
  <2> QED
    BY <2>5, <2>6, <2>7 DEF Rows
<1>4. ASSUME NEW q \in Procs, Commit(q)
      PROVE  Rows' /\ Later(disk, disk')
  <2>1. /\ Accepted(disk, op[q]) /\ disk' = Written(disk, op[q], Len(Writes(op[q].kind)) + 1)
        /\ columns' = columns
    BY <1>4 DEF Commit, Leave, Sees
  <2>2. columns = 3
    BY <1>4 DEF Commit, Control, Placed
  <2>3. /\ Stored(disk') /\ Later(disk, disk')
        /\ Len(disk'["assessments"]) = Len(disk'["packets"])
    BY <2>1, WrittenStored DEF Rows
  <2> QED
    BY <2>1, <2>2, <2>3 DEF Rows
<1>5. ASSUME NEW q \in Procs, Step(q), ~Commit(q), ~(AddColumn(q) /\ columns < at[q])
      PROVE  disk' = disk /\ columns' = columns
  <2>0. columns \in 0..3 /\ at[q] \in Nat
    BY DEF Control
  <2> QED
    BY <1>5, <2>0 DEF Step, Open, SeeColumn, AddColumn, Call, Begin, Check, Insert, Audit,
       AuditTable, AuditSources, Answered, Busy, Fail, Die, Leave
<1>6. CASE UNCHANGED vars
  BY <1>1, <1>6 DEF vars
<1> QED
  BY <1>1, <1>2, <1>3, <1>4, <1>5, <1>6 DEF Next, Step

(* What an audit has found of rows is so of later ones.                    *)
LEMMA FoundStays ==
  ASSUME Later(disk, disk')
  PROVE  /\ \A t \in Tables : Marred(disk[t]) => Marred(disk[t])'
         /\ \A a : Has(disk, "lessons", a) => Has(disk, "lessons", a)'
         /\ Damaged \/ Withdrawn => (Damaged \/ Withdrawn)'
<1>1. \A t \in Tables : Marred(disk[t]) => Marred(disk[t])'
  BY DEF Later, Follows, Marred
<1>2. \A a : Has(disk, "lessons", a) => Has(disk, "lessons", a)'
  BY TableNames DEF Later, Follows, Has
<1>3. Damaged <=> \E t \in Chains \cup {"packets"} : Marred(disk[t])
  BY DEF Damaged, Undamaged, Marred
<1>4. Damaged' <=> \E t \in Chains \cup {"packets"} : Marred(disk[t])'
  BY DEF Damaged, Undamaged, Marred
<1>5. Damaged => Damaged'
  BY <1>1, <1>3, <1>4 DEF Tables
<1>6. ASSUME Withdrawn PROVE Damaged' \/ Withdrawn'
  <2>1. PICK i \in DOMAIN disk["lessons"], j \in DOMAIN disk["guardrails"] :
          /\ disk["guardrails"][j].of = disk["lessons"][i].of
          /\ disk["guardrails"][j].says = "halt"
    BY <1>6 DEF Withdrawn
  <2>2. /\ i \in DOMAIN disk'["lessons"] /\ disk'["lessons"][i].of = disk["lessons"][i].of
        /\ j \in DOMAIN disk'["guardrails"] /\ disk'["guardrails"][j].of = disk["guardrails"][j].of
        /\ disk'["guardrails"][j].says \in {disk["guardrails"][j].says, Garbled}
    BY <2>1, TableNames DEF Later, Follows
  <2>3. CASE disk'["guardrails"][j].says = "halt"
    BY <2>1, <2>2, <2>3 DEF Withdrawn
  <2>4. CASE disk'["guardrails"][j].says = Garbled
    <3>1. Marred(disk["guardrails"])'
      BY <2>2, <2>4 DEF Marred
    <3> QED
      BY <3>1, <1>4, TableNames
  <2> QED
    BY <2>1, <2>2, <2>3, <2>4
<1> QED
  BY <1>1, <1>2, <1>5, <1>6

(* Where an audit stands still it keeps what it has found.                 *)
LEMMA AuditedStays ==
  ASSUME Control, Later(disk, disk'), NEW p \in Procs, Audited(p),
         pc'[p] = pc[p], at'[p] = at[p], seen'[p] = seen[p], hurt'[p] = hurt[p]
  PROVE  Audited(p)'
<1>1. /\ \A t \in Tables : Marred(disk[t]) => Marred(disk[t])'
      /\ \A a : Has(disk, "lessons", a) => Has(disk, "lessons", a)'
      /\ Damaged \/ Withdrawn => (Damaged \/ Withdrawn)'
  BY FoundStays
<1>2. (hurt[p] => pc[p] \in {"audit", "invalid"})'
  BY DEF Audited
<1>3. ASSUME pc'[p] = "audit", hurt'[p]
      PROVE  \/ \E k \in at'[p]..9 : Marred(disk'[Chained[k]])
             \/ at'[p] = 1 /\ Marred(disk'["packets"])
  <2>0. pc[p] = "audit" /\ hurt[p]
    BY <1>3
  <2>1. CASE \E k \in at[p]..9 : Marred(disk[Chained[k]])
    <3>1. PICK k \in at[p]..9 : Marred(disk[Chained[k]])
      BY <2>1
    <3>2. k \in 1..9
      BY <2>0 DEF Control, Placed
    <3>3. Marred(disk'[Chained[k]])
      BY <1>1, <3>1, <3>2, TableNames
    <3> QED
      BY <3>3
  <2>2. CASE at[p] = 1 /\ Marred(disk["packets"])
    BY <2>2, <1>1, TableNames
  <2> QED
    BY <2>0, <2>1, <2>2 DEF Audited
<1>4. ASSUME pc'[p] = "sources", NEW l \in DOMAIN seen'[p]
      PROVE  Has(disk', "lessons", seen'[p][l].of)
  BY <1>1, <1>4 DEF Audited
<1>5. pc'[p] = "invalid" => (Damaged \/ Withdrawn)'
  BY <1>1 DEF Audited
<1> QED
  BY <1>2, <1>3, <1>4, <1>5 DEF Audited

(* An audit goes on past a table only when nobody has edited it.           *)
LEMMA AuditedStep ==
  ASSUME Control, Rows, Later(disk, disk'), [Next]_vars, NEW p \in Procs, Audited(p)
  PROVE  Audited(p)'
<1>0. /\ pc \in [Procs -> Places] /\ at \in [Procs -> Nat]
      /\ DOMAIN hurt = Procs /\ DOMAIN seen = Procs /\ Placed(p)
  BY DEF Control
<1>1. CASE UNCHANGED vars
  BY <1>1, AuditedStays DEF vars
<1>2. ASSUME NEW t, NEW i, Damage(t, i)
      PROVE  Audited(p)'
  BY <1>2, AuditedStays DEF Damage, locals
<1>3. ASSUME NEW q \in Procs, Step(q), p # q
      PROVE  Audited(p)'
  <2>1. pc'[p] = pc[p] /\ at'[p] = at[p] /\ seen'[p] = seen[p] /\ hurt'[p] = hurt[p]
    BY <1>3, Others
  <2> QED
    BY <2>1, AuditedStays
<1>4. CASE Audit(p)
  <2>1. pc'[p] = "audit" /\ at'[p] = 1 /\ disk' = disk
    BY <1>0, <1>4 DEF Audit, Goto, Placed
  <2>2. hurt'[p] = Damaged
    BY <1>0, <1>4, Zenon DEF Audit
  <2>3. ASSUME Damaged
        PROVE  (\E k \in 1..9 : Marred(disk[Chained[k]])) \/ Marred(disk["packets"])
    <3>1. PICK t \in Chains \cup {"packets"} : Marred(disk[t])
      BY <2>3 DEF Damaged, Undamaged, Marred
    <3> QED
      BY <3>1, TableNames
  <2> QED
    BY <2>1, <2>2, <2>3 DEF Audited
<1>5. CASE AuditTable(p)
  <2> DEFINE n == at[p]
             t == Chained[n]
  <2>1. /\ n \in 1..9 /\ t \in Chains /\ t \in Tables
        /\ t = "lessons" <=> n = 9
        /\ t = "assessments" <=> n = 1
    BY <1>0, <1>5, TableNames DEF AuditTable, Placed
  <2>2. disk' = disk /\ hurt' = hurt /\ pc[p] = "audit"
    BY <1>5 DEF AuditTable
  <2>3. ASSUME hurt[p]
        PROVE  \/ \E k \in n..9 : Marred(disk[Chained[k]])
               \/ n = 1 /\ Marred(disk["packets"])
    BY <2>2, <2>3 DEF Audited
  <2> HIDE DEF n, t
  <2>4. CASE ~TableValid(disk, t)
    <3>1. pc'[p] = "invalid"
      BY <1>0, <1>5, <2>4 DEF AuditTable, Goto, t, n
    <3>2. Marred(disk[t]) \/ Marred(disk["packets"])
      BY <2>1, <2>4, InvalidMarred DEF Rows
    <3>3. Damaged'
      BY <2>1, <2>2, <3>2 DEF Damaged, Undamaged, Marred
    <3> QED
      BY <3>1, <3>3 DEF Audited
  <2>5. CASE TableValid(disk, t)
    <3>1. ~Marred(disk[t]) /\ (n = 1 => ~Marred(disk["packets"]))
      BY <2>1, <2>5, MarredFound DEF Rows
    <3>2. ASSUME hurt[p] PROVE \E k \in (n + 1)..9 : Marred(disk[Chained[k]])
      <4>1. PICK k \in n..9 : Marred(disk[Chained[k]])
        BY <2>3, <3>1, <3>2
      <4>2. k # n
        BY <3>1, <4>1 DEF t
      <4> QED
        BY <2>1, <4>1, <4>2
    <3>3. CASE t # "lessons"
      <4>1. pc'[p] = "audit" /\ at'[p] = n + 1
        BY <1>0, <1>5, <2>2, <2>5, <3>3 DEF AuditTable, Turn, t, n
      <4> QED
        BY <2>2, <3>2, <4>1 DEF Audited
    <3>4. CASE t = "lessons"
      <4>1. pc'[p] = "sources" /\ seen'[p] = disk["lessons"]
        BY <1>0, <1>5, <2>5, <3>4 DEF AuditTable, Goto, t, n
      <4>2. ~hurt[p]
        BY <2>1, <3>2, <3>4
      <4>3. \A l \in DOMAIN disk["lessons"] : Has(disk, "lessons", disk["lessons"][l].of)
        BY DEF Has
      <4> QED
        BY <2>2, <4>1, <4>2, <4>3 DEF Audited
    <3> QED
      BY <3>3, <3>4
  <2> QED
    BY <2>4, <2>5
<1>6. CASE AuditSources(p)
  <2>1. /\ pc[p] = "sources" /\ disk' = disk /\ hurt' = hurt
        /\ pc'[p] = IF Sourced(disk, seen[p]) THEN "valid" ELSE "invalid"
    BY <1>0, <1>6 DEF AuditSources, Goto
  <2>2. ~hurt[p]
    BY <2>1 DEF Audited
  <2>3. ASSUME ~Sourced(disk, seen[p]) PROVE Damaged \/ Withdrawn
    <3>1. \A l \in DOMAIN seen[p] : Has(disk, "lessons", seen[p][l].of)
      BY <2>1 DEF Audited
    <3>2. \/ Marred(disk["guardrails"])
          \/ \E i \in DOMAIN disk["lessons"], j \in DOMAIN disk["guardrails"] :
               /\ disk["guardrails"][j].of = disk["lessons"][i].of
               /\ disk["guardrails"][j].says = "halt"
      BY <2>3, <3>1, UnsourcedTold DEF Rows
    <3> QED
      BY <3>2, TableNames DEF Damaged, Undamaged, Marred, Withdrawn
  <2>4. (Damaged \/ Withdrawn) => (Damaged \/ Withdrawn)'
    BY FoundStays
  <2> QED
    BY <2>1, <2>2, <2>3, <2>4 DEF Audited
<1>7. ASSUME Step(p), ~Audit(p), ~AuditTable(p), ~AuditSources(p)
      PROVE  Audited(p)'
  <2>1. pc'[p] \notin {"audit", "sources", "invalid"}
    BY <1>0, <1>7, Zenon DEF Step, Open, SeeColumn, AddColumn, Call, Begin, Check, Insert, Commit,
       Answered, Busy, Fail, Die, Goto
  <2>2. ~hurt'[p]
    <3>1. CASE hurt' = hurt /\ pc[p] \notin {"audit", "invalid"}
      BY <3>1 DEF Audited
    <3>2. CASE hurt' = [hurt EXCEPT ![p] = FALSE]
      BY <1>0, <3>2
    <3>3. hurt' = [hurt EXCEPT ![p] = FALSE] \/ (hurt' = hurt /\ pc[p] \notin {"audit", "invalid"})
      BY <1>7 DEF Step, Open, SeeColumn, AddColumn, Call, Begin, Check, Insert, Commit,
         Answered, Busy, Fail, Die, Leave, Done
    <3> QED
      BY <3>1, <3>2, <3>3
  <2> QED
    BY <2>1, <2>2 DEF Audited
<1> QED
  BY <1>1, <1>2, <1>3, <1>4, <1>5, <1>6, <1>7 DEF Next, Step

-------------------------------------------------------------------------------
(***************************************************************************)
(* The theorems                                                            *)
(***************************************************************************)
(* The old ledger's tables have a row each or none.                        *)
LEMMA OldTables ==
  /\ \A t \in {"assessments", "packets", "predictions", "outcomes"} :
       Old[t] = <<[of |-> 1, says |-> "row"]>>
  /\ Old["guardrails"] = <<[of |-> 1, says |-> "proceed"]>>
  /\ \A t \in {"sanctions", "errors", "snapshots", "facts", "lessons", "search"} : Old[t] = <<>>
BY TableNames DEF Old, Empty, Content, Op

(* The first row of a table, of an older version or of this one.           *)
LEMMA SingleSound ==
  ASSUME NEW t \in Tables, NEW c, c.of \in Nat, c.says \in Sayings(t)
  PROVE  /\ Sound(t, <<OldRow(c)>>) /\ OldRow(c).of = c.of /\ OldRow(c).version # 2
         /\ Sound(t, <<NewRow(<<>>, c)>>) /\ NewRow(<<>>, c).of = c.of
<1>1. ASSUME NEW r, DOMAIN r = Fields, r.of = c.of, r.says = c.says, r.version \in 0..2,
             r.prev = <<>>, r.hash = Hashed(r, c.says)
      PROVE  Sound(t, <<r>>)
  <2>1. <<r>> \in Seq({r}) /\ DOMAIN <<r>> = {1} /\ <<r>>[1] = r
    OBVIOUS
  <2>2. PrevHash(<<r>>, 1) = <<>>
    BY DEF PrevHash, Genesis
  <2>3. RowOK(t, <<r>>, 1)
    BY <1>1, <2>1, <2>2 DEF RowOK
  <2> QED
    BY <2>1, <2>3 DEF Sound, IsRows
<1>2. /\ DOMAIN OldRow(c) = Fields /\ OldRow(c).of = c.of /\ OldRow(c).says = c.says
      /\ OldRow(c).version = 0 /\ OldRow(c).prev = <<>>
      /\ OldRow(c).hash = Hashed(OldRow(c), c.says)
  BY DEF OldRow, Row, Fields, Hashed, Canonical, Genesis
<1>3. LastHash(<<>>) = <<>>
  BY DEF LastHash, Genesis
<1>4. /\ DOMAIN NewRow(<<>>, c) = Fields /\ NewRow(<<>>, c).of = c.of
      /\ NewRow(<<>>, c).says = c.says /\ NewRow(<<>>, c).version = 2
      /\ NewRow(<<>>, c).prev = <<>>
      /\ NewRow(<<>>, c).hash = Hashed(NewRow(<<>>, c), c.says)
  BY <1>3 DEF NewRow, Row, Fields, Hashed
<1> QED
  BY <1>1, <1>2, <1>4

(* A new ledger and one of an older version satisfy the invariant.         *)
LEMMA InitHolds == Init => IInv
<1> SUFFICES ASSUME Init PROVE IInv
  OBVIOUS
<1>1. CASE disk = Empty /\ columns = Len(Added)
  <2>1. disk = [t \in Tables |-> disk[t]] /\ \A t \in Tables : disk[t] = <<>>
    BY <1>1 DEF Empty
  <2>2. \A t \in Tables : Sound(t, disk[t])
    <3>1. \A t : Sound(t, <<>>)
      BY DEF Sound, IsRows
    <3> QED
      BY <2>1, <3>1
  <2>3. Rows
    BY <1>1, <2>1, <2>2, AddedIs, TableNames DEF Rows, Stored
  <2>4. columns = 3
    BY <1>1, AddedIs
  <2> QED
    BY <2>3, <2>4, NoneAssumption DEF Init, IInv, Control, Placed, Holds, Places, Sees, Audited
<1>2. CASE disk = OldDisk /\ columns = 0
  <2>1. disk = [t \in Tables |-> disk[t]]
    BY <1>2 DEF OldDisk
  <2>2. /\ \A t \in {"predictions", "outcomes"} : disk[t] = <<OldRow([of |-> 1, says |-> "row"])>>
        /\ \A t \in {"assessments", "packets"} :
             disk[t] = <<NewRow(<<>>, [of |-> 1, says |-> "row"])>>
        /\ disk["guardrails"] = <<NewRow(<<>>, [of |-> 1, says |-> "proceed"])>>
        /\ \A t \in {"sanctions", "errors", "snapshots", "facts", "lessons", "search"} :
             disk[t] = <<>>
    <3>1. \A t \in Tables :
            disk[t] = [i \in DOMAIN Old[t] |-> IF t \in Migrated THEN OldRow(Old[t][i])
                                               ELSE NewRow(<<>>, Old[t][i])]
      BY <1>2 DEF OldDisk
    <3> QED
      BY <3>1, OldTables, TableNames, AddedIs
  <2> DEFINE row == [of |-> 1, says |-> "row"]
             go == [of |-> 1, says |-> "proceed"]
  <2>3. /\ row.of = 1 /\ go.of = 1 /\ go.says \in Sayings("guardrails")
        /\ \A t : t # "guardrails" => row.says \in Sayings(t)
    BY DEF Sayings
  <2> HIDE DEF row, go
  <2>4. /\ \A t \in {"predictions", "outcomes"} :
             Sound(t, <<OldRow(row)>>) /\ OldRow(row).version # 2
        /\ \A t \in {"assessments", "packets"} : Sound(t, <<NewRow(<<>>, row)>>)
        /\ Sound("guardrails", <<NewRow(<<>>, go)>>)
        /\ NewRow(<<>>, row).of = 1
        /\ \A t : Sound(t, <<>>)
    <3>1. \A t : Sound(t, <<>>)
      BY DEF Sound, IsRows
    <3>2. \A t \in Tables : t # "guardrails" =>
            /\ Sound(t, <<OldRow(row)>>) /\ OldRow(row).version # 2
            /\ Sound(t, <<NewRow(<<>>, row)>>) /\ NewRow(<<>>, row).of = 1
      BY <2>3, SingleSound
    <3>3. "guardrails" \in Tables
      BY TableNames
    <3>4. Sound("guardrails", <<NewRow(<<>>, go)>>)
      <4>1. go.of \in Nat /\ go.says \in Sayings("guardrails")
        BY <2>3
      <4> QED
        BY <3>3, <4>1, SingleSound, Zenon
    <3> QED
      BY <3>1, <3>2, <3>4, TableNames
  <2>5. \A t \in Tables : Sound(t, disk[t])
    BY <2>2, <2>4, TableNames DEF row, go
  <2>6. Stored(disk)
    <3>1. \A j \in DOMAIN disk["packets"] : disk["packets"][j].of = j
      BY <2>2, <2>4 DEF row
    <3>2. disk["lessons"] = <<>>
      BY <2>2
    <3>3. \A i \in DOMAIN disk["lessons"] : Backed(disk, disk["lessons"][i].of)
      BY <3>2
    <3> QED
      BY <2>1, <2>5, <3>1, <3>3 DEF Stored
  <2>7. Len(disk["assessments"]) = Len(disk["packets"])
    BY <2>2
  <2>8. \A t \in Migrated : \A i \in DOMAIN disk[t] : disk[t][i].version # 2
    BY <2>2, <2>4, AddedIs DEF row
  <2>9. Rows
    BY <2>6, <2>7, <2>8 DEF Rows
  <2> QED
    BY <1>2, <2>9, NoneAssumption DEF Init, IInv, Control, Placed, Holds, Places, Sees, Audited
<1> QED
  BY <1>1, <1>2 DEF Init

(* Every step preserves the invariant.                                     *)
LEMMA StepHolds == IInv /\ [Next]_vars => IInv'
<1> SUFFICES ASSUME IInv, [Next]_vars PROVE IInv'
  OBVIOUS
<1>1. Control /\ Rows /\ (\A p \in Procs : Sees(p)) /\ \A p \in Procs : Audited(p)
  BY DEF IInv
<1>2. Control'
  BY <1>1, ControlStep
<1>3. Rows' /\ Later(disk, disk')
  BY <1>1, RowsStep
<1>4. \A p \in Procs : Sees(p)'
  BY <1>1, SeesStep
<1>5. \A p \in Procs : Audited(p)'
  BY <1>1, <1>3, AuditedStep
<1> QED
  BY <1>2, <1>3, <1>4, <1>5 DEF IInv

(* Rows are hashed as they once were written, whoever writes, fails, dies  *)
(* or migrates them.                                                       *)
THEOREM RowsHold == Spec => []IInv
BY InitHolds, StepHolds, PTL DEF Spec

(* validate_chain finds what was edited before it began, though it reads   *)
(* one table after the other while others write; and what it calls invalid *)
(* was edited, or has a lesson whose verification was withdrawn.           *)
THEOREM AuditsAreTrue == Spec => []AuditIsTrue
<1>1. IInv => AuditIsTrue
  BY DEF IInv, Audited, AuditIsTrue
<1> QED
  BY <1>1, RowsHold, PTL

-------------------------------------------------------------------------------
(***************************************************************************)
(* Refinement.  The log is what the committed rows say; a commit performs  *)
(* the operation, and nothing else but an edit changes what they say.      *)
(***************************************************************************)
(* What the rows of a table say, and of which assessments.                 *)
Said(rows) == [i \in DOMAIN rows |-> Content(rows[i])]

(* The contents of the tables are what the rows of each say.               *)
LEMMA ContentsSaid ==
  ASSUME NEW tables
  PROVE  /\ Contents(tables) = [t \in Tables |-> Said(tables[t])]
         /\ DOMAIN Contents(tables) = Tables
         /\ \A t \in Tables : Contents(tables)[t] = Said(tables[t])
         /\ \A rows : DOMAIN Said(rows) = DOMAIN rows
         /\ \A rows : \A i \in DOMAIN rows :
              Said(rows)[i].of = rows[i].of /\ Said(rows)[i].says = rows[i].says
BY DEF Contents, Said, Content

(* A table with one more row says one thing more.                          *)
LEMMA SaidAppended ==
  ASSUME NEW rows, IsRows(rows), NEW r
  PROVE  Said(Append(rows, r)) = Append(Said(rows), Content(r))
<1> DEFINE s == Said(rows)
           n == Len(rows)
           a == Said(Append(rows, r))
           b == Append(s, Content(r))
<1>1. /\ n \in Nat /\ DOMAIN rows = 1..n
      /\ DOMAIN Append(rows, r) = 1..(n + 1) /\ Append(rows, r)[n + 1] = r
      /\ \A i \in 1..n : Append(rows, r)[i] = rows[i]
  BY Appended
<1>2. s = [i \in DOMAIN rows |-> s[i]]
  BY DEF Said
<1>3. IsRows(s) /\ Len(s) = n
  BY <1>2, Reshaped
<1> HIDE DEF s
<1>4. /\ IsRows(b) /\ DOMAIN b = 1..(n + 1) /\ b[n + 1] = Content(r)
      /\ \A i \in 1..n : b[i] = s[i]
  BY <1>3, Appended
<1>5. b = [i \in 1..(n + 1) |-> b[i]]
  <2>1. PICK S : b \in Seq(S)
    BY <1>4 DEF IsRows
  <2> HIDE DEF b
  <2>2. b \in [1..Len(b) -> S]
    BY <2>1
  <2> QED
    BY <1>4, <2>2
<1>6. a = [i \in 1..(n + 1) |-> a[i]]
  BY <1>1 DEF Said
<1>7. \A i \in 1..(n + 1) : a[i] = b[i]
  <2>1. \A i \in 1..(n + 1) : a[i] = Content(Append(rows, r)[i])
    BY <1>1 DEF Said
  <2>2. \A i \in 1..n : s[i] = Content(rows[i])
    BY <1>1 DEF Said, s
  <2>3. ASSUME NEW i \in 1..(n + 1) PROVE a[i] = b[i]
    <3>1. CASE i = n + 1
      BY <1>1, <1>4, <2>1, <3>1
    <3>2. CASE i # n + 1
      <4>1. i \in 1..n
        BY <1>1, <3>2
      <4> QED
        BY <1>1, <1>4, <2>1, <2>2, <4>1
    <3> QED
      BY <3>1, <3>2
  <2> QED
    BY <2>3
<1> HIDE DEF a, b
<1>8. a = b
  BY <1>5, <1>6, <1>7
<1> QED
  BY <1>8 DEF a, b, s

(* The abstract log is of the same operations.                             *)
LEMMA SameOperations ==
  /\ Log!Tables = Tables /\ Log!Ops = Ops /\ Log!Sources = Sources
  /\ Log!Empty = Empty /\ Log!Old = Old /\ Log!Garbled = Garbled
  /\ \A kind : Log!Touched(kind) = Touched(kind)
  /\ \A o : Log!Content(o) = Content(o)
  /\ \A log, o : Log!Named(log, o) = Named(log, o)
  /\ \A log, o, l : Log!Accepts(log, o, l) <=> Accepts(log, o, l)
  /\ \A log, ts : Log!Undamaged(log, ts) <=> Undamaged(log, ts)
  /\ \A log, lessons : Log!Sourced(log, lessons) <=> Sourced(log, lessons)
<1>1. Log!Tables = Tables
  BY DEF Log!Tables, Log!Chains, Log!Chained, Tables, Chains, Chained
<1>2. Log!Ops = Ops
  BY DEF Log!Ops, Log!Op, Ops, Op
<1>3. \A o : Log!Content(o) = Content(o)
  BY DEF Log!Content, Content
<1>4. Log!Sources = Sources /\ Log!Garbled = Garbled
  BY DEF Log!Sources, Sources, Log!Garbled, Garbled
<1>5. Log!Empty = Empty
  BY <1>1 DEF Log!Empty, Empty
<1>6. \A kind, a, says : Log!Op(kind, a, says) = Op(kind, a, says)
  BY DEF Log!Op, Op
<1>7. Log!Old = Old
  BY <1>3, <1>5, <1>6 DEF Log!Old, Old
<1>8. \A kind : Log!Touched(kind) = Touched(kind)
  BY DEF Log!Touched, Touched, Log!Writes, Writes
<1>9. \A log, o : Log!Named(log, o) = Named(log, o)
  BY DEF Log!Named, Named
<1>10. \A log, a : Log!Standing(log, a) <=> Standing(log, a)
  BY DEF Log!Standing, Standing
<1>11. \A log, t, a : Log!Has(log, t, a) <=> Has(log, t, a)
  BY DEF Log!Has, Has
<1>12. \A log, o, l : Log!Accepts(log, o, l) <=> Accepts(log, o, l)
  BY <1>10, <1>11 DEF Log!Accepts, Accepts
<1>13. \A log, ts : Log!Undamaged(log, ts) <=> Undamaged(log, ts)
  BY <1>4 DEF Log!Undamaged, Undamaged
<1>14. \A log, lessons : Log!Sourced(log, lessons) <=> Sourced(log, lessons)
  BY <1>10, <1>11 DEF Log!Sourced, Sourced
<1> QED
  BY <1>1, <1>2, <1>3, <1>4, <1>5, <1>7, <1>8, <1>9, <1>12, <1>13, <1>14

(* What an operation rests on it finds in the log as in the tables.        *)
LEMMA AcceptedAbstractly ==
  ASSUME NEW tables, Stored(tables), Len(tables["assessments"]) = Len(tables["packets"]),
         NEW o \in Ops, Accepts(tables, o, Lawful(tables)),
         NEW log, log = Contents(tables)
  PROVE  Accepts(log, o, Undamaged(log, Sources) /\ Sourced(log, log["lessons"]))
<1>1. \A t \in Tables :
        /\ DOMAIN log[t] = DOMAIN tables[t]
        /\ \A i \in DOMAIN tables[t] :
             log[t][i].of = tables[t][i].of /\ log[t][i].says = tables[t][i].says
  BY ContentsSaid
<1>2. Sources \subseteq Tables /\ \A t \in {"assessments", "outcomes", "guardrails", "lessons",
                                           "errors", "snapshots"} : t \in Tables
  BY TableNames DEF Sources
<1>3. \A a : \A t \in Tables : Has(log, t, a) <=> Has(tables, t, a)
  BY <1>1 DEF Has
<1>4. \A a : Standing(log, a) <=> Standing(tables, a)
  BY <1>1, <1>2 DEF Standing
<1>5. ASSUME Lawful(tables)
      PROVE  Undamaged(log, Sources) /\ Sourced(log, log["lessons"])
  <2>1. Undamaged(tables, Sources) /\ Sourced(tables, tables["lessons"])
    BY <1>5, LawfulUndamaged
  <2>2. Undamaged(log, Sources)
    BY <1>1, <1>2, <2>1 DEF Undamaged
  <2>3. Sourced(log, log["lessons"])
    BY <1>1, <1>2, <1>3, <1>4, <2>1 DEF Sourced
  <2> QED
    BY <2>2, <2>3
<1>6. CASE o.kind \in {"assess", "sanction"}
  BY <1>6 DEF Accepts
<1>7. CASE o.kind = "verify"
  BY <1>2, <1>3, <1>7 DEF Accepts
<1>8. CASE o.kind = "outcome"
  BY <1>2, <1>3, <1>8 DEF Accepts
<1>9. CASE o.kind = "measure"
  BY <1>2, <1>3, <1>9 DEF Accepts
<1>10. CASE o.kind = "promote"
  BY <1>1, <1>2, <1>10 DEF Accepts
<1>11. CASE o.kind = "materialize"
  <2>1. /\ Lawful(tables) /\ Standing(tables, o.of)
        /\ ~Has(tables, "lessons", o.of) /\ Has(tables, "outcomes", o.of)
    BY <1>11 DEF Accepts
  <2> QED
    BY <1>2, <1>3, <1>4, <1>5, <1>11, <2>1 DEF Accepts
<1> QED
  BY OpsShape, <1>6, <1>7, <1>8, <1>9, <1>10, <1>11 DEF Op

(* A commit performs the operation on the log as it then is.               *)
LEMMA CommitRefines ==
  ASSUME IInv, NEW p \in Procs, Commit(p)
  PROVE  \E o \in Log!Ops : Log!Perform(o)
<1> DEFINE c == op[p]
           log == Contents(disk)
           o == IF c.kind = "assess" THEN Op("assess", 0, "row") ELSE c
<1>1. /\ Accepted(disk, c)
      /\ disk' = Written(disk, c, Len(Writes(c.kind)) + 1)
  BY DEF Commit, Leave, IInv, Sees
<1>2. /\ Stored(disk) /\ Len(disk["assessments"]) = Len(disk["packets"])
      /\ disk = [t \in Tables |-> disk[t]]
  BY DEF IInv, Rows, Stored
<1>3. c.kind \in Kinds
  BY <1>1, <1>2, AcceptedShape
<1>4. \A t \in Tables : disk'[t] = IF t \in Touched(c.kind)
                                   THEN Append(disk[t], NewRow(disk[t], Content(c))) ELSE disk[t]
  BY <1>1, <1>2, <1>3, WrittenSteps
<1>5. \A t \in Tables : IsRows(disk[t])
  BY <1>2 DEF Stored, Sound
<1>6. \A rows : Content(NewRow(rows, Content(c))) = Content(c)
  BY DEF NewRow, Row, Content
<1>7. log' = [t \in Tables |-> IF t \in Touched(c.kind) THEN Append(log[t], Content(c)) ELSE log[t]]
  <2>1. log' = [t \in Tables |-> Said(disk'[t])]
    BY ContentsSaid
  <2>2. ASSUME NEW t \in Tables
        PROVE  Said(disk'[t]) = IF t \in Touched(c.kind) THEN Append(log[t], Content(c)) ELSE log[t]
    <3>1. log[t] = Said(disk[t])
      BY ContentsSaid
    <3>2. Said(Append(disk[t], NewRow(disk[t], Content(c)))) = Append(Said(disk[t]), Content(c))
      BY <1>5, <1>6, SaidAppended
    <3> HIDE DEF log, c
    <3> QED
      BY <1>4, <3>1, <3>2
  <2> HIDE DEF log, c
  <2> QED
    BY <2>1, <2>2
<1>8. /\ o \in Ops /\ o.kind = c.kind /\ Content(Named(log, o)) = Content(c)
      /\ Accepts(log, o, Undamaged(log, Sources) /\ Sourced(log, log["lessons"]))
  <2>1. CASE c = Op("assess", Len(disk["assessments"]) + 1, "row")
    <3>1. c.kind = "assess" /\ o = Op("assess", 0, "row")
      BY <2>1 DEF Op
    <3>2. o \in Ops
      BY <3>1 DEF Ops
    <3>3. Len(log["assessments"]) = Len(disk["assessments"])
      <4>1. log["assessments"] = Said(disk["assessments"]) /\ IsRows(disk["assessments"])
        BY <1>5, ContentsSaid, TableNames
      <4>2. Said(disk["assessments"]) =
              [i \in DOMAIN disk["assessments"] |-> Said(disk["assessments"])[i]]
        BY DEF Said
      <4> QED
        BY <4>1, <4>2, Reshaped
    <3>4. Named(log, o) = c
      BY <2>1, <3>1, <3>3 DEF Named, Op
    <3>5. o.kind = "assess"
      BY <3>1 DEF Op
    <3> QED
      BY <3>1, <3>2, <3>4, <3>5 DEF Accepts
  <2>2. CASE c \in Ops /\ c.kind # "assess" /\ Accepts(disk, c, Lawful(disk))
    <3>1. o = c
      BY <2>2
    <3>2. Accepts(log, c, Undamaged(log, Sources) /\ Sourced(log, log["lessons"]))
      BY <1>2, <2>2, AcceptedAbstractly
    <3> QED
      BY <2>2, <3>1, <3>2 DEF Named
  <2> QED
    BY <1>1, <2>1, <2>2 DEF Accepted
<1> HIDE DEF c, o, log
<1>9. Log!Perform(o)
  BY <1>7, <1>8, SameOperations DEF Log!Perform, log
<1> QED
  BY <1>8, <1>9, SameOperations

(* An edit of a row is an edit of what it says.                            *)
LEMMA DamageRefines ==
  ASSUME IInv, NEW t \in Chains \cup {"packets"}, NEW k \in DOMAIN disk[t], Damage(t, k)
  PROVE  \E u \in Log!Tables : \E i \in DOMAIN Contents(disk)[u] : Log!Damage(u, i)
<1> DEFINE log == Contents(disk)
<1>1. /\ t \in Tables /\ Sound(t, disk[t]) /\ disk = [u \in Tables |-> disk[u]]
  BY TableNames DEF IInv, Rows, Stored
<1>2. disk' = WithEdit(disk, t, k)
  BY DEF Damage, WithEdit, Edited
<1>3. disk'[t] = Edited(disk[t], k) /\ \A u \in Tables : u # t => disk'[u] = disk[u]
  BY <1>1, <1>2 DEF WithEdit
<1>4. Said(disk'[t]) = [Said(disk[t]) EXCEPT ![k].says = Garbled]
  <2> DEFINE rows == disk[t]
             new == Edited(rows, k)
  <2>1. /\ DOMAIN new = DOMAIN rows
        /\ \A i \in DOMAIN rows : new[i].of = rows[i].of
        /\ new[k].says = Garbled
        /\ \A i \in DOMAIN rows \ {k} : new[i] = rows[i]
    BY <1>1, EditSound
  <2>2. /\ Said(new) = [i \in DOMAIN rows |-> Content(new[i])]
        /\ Said(rows) = [i \in DOMAIN rows |-> Content(rows[i])]
    BY <2>1 DEF Said
  <2> HIDE DEF new, rows
  <2>3. Content(new[k]) = [Content(rows[k]) EXCEPT !.says = Garbled]
    BY <2>1 DEF Content, rows
  <2>4. \A i \in DOMAIN rows \ {k} : Content(new[i]) = Content(rows[i])
    BY <2>1
  <2>5. Said(new) = [Said(rows) EXCEPT ![k] = [Content(rows[k]) EXCEPT !.says = Garbled]]
    BY <2>2, <2>3, <2>4 DEF rows
  <2>6. Said(rows)[k] = Content(rows[k])
    BY <2>2 DEF rows
  <2> QED
    BY <1>3, <2>5, <2>6 DEF new, rows
<1>5. /\ log = [u \in Tables |-> Said(disk[u])] /\ log' = [u \in Tables |-> Said(disk'[u])]
      /\ log[t] = Said(disk[t]) /\ k \in DOMAIN log[t]
  BY <1>1, ContentsSaid
<1>6. log' = [log EXCEPT ![t] = [Said(disk[t]) EXCEPT ![k].says = Garbled]]
  <2> HIDE DEF log
  <2> QED
    BY <1>1, <1>3, <1>4, <1>5
<1>7. Log!Damage(t, k)
  BY <1>5, <1>6, SameOperations DEF Log!Damage, log
<1> QED
  BY <1>1, <1>5, <1>7, SameOperations DEF log

(* A default added to old rows changes nothing they say.                   *)
LEMMA AddColumnRefines ==
  ASSUME IInv, NEW p \in Procs, AddColumn(p)
  PROVE  Contents(disk)' = Contents(disk)
<1>1. CASE disk' = disk
  BY <1>1
<1>2. CASE columns < at[p]
  <2> DEFINE t == Added[at[p]].table
             c == Added[at[p]].column
  <2>1. columns < 3 /\ at[p] \in 1..3
    BY <1>2 DEF AddColumn, IInv, Control, Placed
  <2>2. disk' = WithColumn(disk, t, c)
    BY <1>2, <2>1 DEF AddColumn, WithColumn, Backfill, IInv, Control
  <2>3. t \in Migrated /\ t \in Tables
    BY <2>1, AddedIs, TableNames
  <2>4. \A i \in DOMAIN disk[t] : disk[t][i].version # 2
    BY <2>1, <2>3 DEF IInv, Rows
  <2> HIDE DEF t, c
  <2>5. Stored(disk)
    BY DEF IInv, Rows
  <2>6. /\ Alike(disk, disk')
        /\ \A u \in Tables : u # t => disk'[u] = disk[u]
        /\ \A i \in DOMAIN disk[t] : disk'[t][i].says = disk[t][i].says
    BY <2>2, <2>3, <2>4, <2>5, BackfillStored
  <2>7. ASSUME NEW u \in Tables PROVE Said(disk'[u]) = Said(disk[u])
    <3>1. DOMAIN disk'[u] = DOMAIN disk[u]
      BY <2>6 DEF Alike
    <3>2. \A i \in DOMAIN disk[u] : Content(disk'[u][i]) = Content(disk[u][i])
      <4>1. \A i \in DOMAIN disk[u] : disk'[u][i].of = disk[u][i].of
        BY <2>6 DEF Alike
      <4>2. \A i \in DOMAIN disk[u] : disk'[u][i].says = disk[u][i].says
        BY <2>6
      <4> QED
        BY <4>1, <4>2 DEF Content
    <3> QED
      BY <3>1, <3>2 DEF Said
  <2>8. /\ Contents(disk) = [u \in Tables |-> Said(disk[u])]
        /\ Contents(disk)' = [u \in Tables |-> Said(disk'[u])]
    BY ContentsSaid
  <2> QED
    BY <2>7, <2>8
<1>3. disk' = disk \/ columns < at[p]
  <2>1. columns \in 0..3 /\ at[p] \in Nat
    BY DEF IInv, Control
  <2> QED
    BY <2>1 DEF AddColumn
<1> QED
  BY <1>1, <1>2, <1>3

(* Every step performs an operation, edits a row or changes nothing.       *)
LEMMA StepRefines ==
  ASSUME IInv, [Next]_vars
  PROVE  [Log!Next]_(Contents(disk))
<1>1. CASE UNCHANGED vars
  <2>1. disk' = disk
    BY <1>1 DEF vars
  <2> QED
    BY <2>1
<1>2. ASSUME NEW t \in Chains \cup {"packets"}, NEW k \in DOMAIN disk[t], Damage(t, k)
      PROVE  Log!Next
  BY <1>2, DamageRefines DEF Log!Next
<1>3. ASSUME NEW p \in Procs, Commit(p)
      PROVE  Log!Next
  BY <1>3, CommitRefines DEF Log!Next
<1>4. ASSUME NEW p \in Procs, AddColumn(p)
      PROVE  Contents(disk)' = Contents(disk)
  BY <1>4, AddColumnRefines
<1>5. ASSUME NEW p \in Procs, Step(p), ~Commit(p), ~AddColumn(p)
      PROVE  Contents(disk)' = Contents(disk)
  <2>1. disk' = disk
    BY <1>5 DEF Step, Open, SeeColumn, Call, Begin, Check, Insert, Audit,
       AuditTable, AuditSources, Answered, Busy, Fail, Die, Leave
  <2> QED
    BY <2>1
<1> QED
  BY <1>1, <1>2, <1>3, <1>4, <1>5 DEF Next, Step

(* An empty or an old ledger is an empty or an old log.                    *)
LEMMA InitRefines == Init => Log!Init
<1> SUFFICES ASSUME Init PROVE Contents(disk) \in {Empty, Old}
  BY SameOperations DEF Log!Init
<1>1. CASE disk = Empty
  <2>1. \A t \in Tables : Said(disk[t]) = <<>>
    BY <1>1 DEF Empty, Said
  <2> QED
    BY <2>1, ContentsSaid DEF Empty
<1>2. CASE disk = OldDisk
  <2>1. ASSUME NEW t \in Tables PROVE Said(disk[t]) = Old[t]
    <3>1. disk[t] = [i \in DOMAIN Old[t] |-> IF t \in Migrated THEN OldRow(Old[t][i])
                                             ELSE NewRow(<<>>, Old[t][i])]
      BY <1>2 DEF OldDisk
    <3>2. \A c : Content(OldRow(c)) = Content(c) /\ Content(NewRow(<<>>, c)) = Content(c)
      BY DEF OldRow, NewRow, Row, Content
    <3>3. Said(disk[t]) = [i \in DOMAIN Old[t] |-> Content(Old[t][i])]
      BY <3>1, <3>2 DEF Said
    <3>4. \A s : Content([of |-> 1, says |-> s]) = [of |-> 1, says |-> s]
      BY DEF Content
    <3>5. CASE Old[t] = <<>>
      BY <3>3, <3>5
    <3>6. CASE \E s : Old[t] = <<[of |-> 1, says |-> s]>>
      BY <3>3, <3>4, <3>6
    <3>7. Old[t] = <<>> \/ \E s : Old[t] = <<[of |-> 1, says |-> s]>>
      <4>1. CASE t \in {"assessments", "packets", "predictions", "outcomes"}
        BY <4>1, OldTables
      <4>2. CASE t = "guardrails"
        BY <4>2, OldTables
      <4>3. CASE t \in {"sanctions", "errors", "snapshots", "facts", "lessons", "search"}
        BY <4>3, OldTables
      <4> QED
        BY <4>1, <4>2, <4>3, TableNames
    <3> QED
      BY <3>5, <3>6, <3>7
  <2>2. Old = [t \in Tables |-> Old[t]]
    BY DEF Old, Empty
  <2> QED
    BY <2>1, <2>2, ContentsSaid
<1> QED
  BY <1>1, <1>2 DEF Init

(* However processes open, write, fail and die at once, each operation     *)
(* takes effect whole or not at all, on the log as it is at that moment,   *)
(* and nothing but an edit from outside changes what was written.          *)
THEOREM TheLogIsKept == Spec => KeepsLog
BY InitRefines, StepRefines, RowsHold, PTL DEF Spec, KeepsLog, Log!Spec
===============================================================================
