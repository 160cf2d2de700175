------------------------------- MODULE HashChain ------------------------------
(***************************************************************************)
(* The rows of one append-only table.  A row stores the hash of the row    *)
(* before it and its own, taken over that hash and a canonical rendering   *)
(* of its columns.  Rendering depends on the version the row was written   *)
(* with: the columns added since (new) are left out of an older row's.     *)
(*                                                                         *)
(* A hash is the pair of what it is taken over: equal hashes are hashes of *)
(* equal texts, as one expects of SHA-256.                                 *)
(***************************************************************************)
EXTENDS Integers, Sequences

Genesis == <<>>

RowHash(prev, text) == <<prev, text>>

(* The _..._canonical functions, and their legacy forms.                   *)
Canonical(of, says, new, version) ==
  IF version = 2 THEN <<of, says, new>> ELSE <<of, says>>

(* _last_..._hash                                                          *)
LastHash(rows) == IF rows = <<>> THEN Genesis ELSE rows[Len(rows)].hash

Row(c, new, version, hashedAs, prev) ==
  [of |-> c.of, says |-> c.says, new |-> new, version |-> version, prev |-> prev,
   hash |-> RowHash(prev, Canonical(c.of, c.says, new, hashedAs))]

(* A new row is of the present version, and says so.                       *)
NewRow(rows, c) == Row(c, "set", 2, 2, LastHash(rows))

(* A first row of the time before there were versions.                     *)
OldRow(c) == Row(c, "absent", 0, 1, Genesis)

(* What the validation of row i carries along.                             *)
PrevHash(rows, i) == IF i = 1 THEN Genesis ELSE rows[i - 1].hash

(* _validate_..._chain                                                     *)
Valid(rows) ==
  \A i \in DOMAIN rows :
    LET r == rows[i]
        prev == PrevHash(rows, i)
    IN /\ r.prev = prev
       /\ r.hash = RowHash(prev, Canonical(r.of, r.says, r.new, r.version))
===============================================================================
