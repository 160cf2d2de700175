-------------------------------- MODULE Ledger --------------------------------
(***************************************************************************)
(* The ledger's one SQLite file, written and audited by any number of      *)
(* processes.  A process opens it, adding the columns an older version of  *)
(* the program did not have, and then calls the operations of the store: a *)
(* write takes the one write lock, checks what it rests on within its      *)
(* transaction, inserts row by row and commits; an audit reads one table   *)
(* after the other outside of any transaction.  A statement may fail and   *)
(* a process may die anywhere.                                             *)
(***************************************************************************)
EXTENDS LedgerOps, HashChain

CONSTANTS
  Procs,     \* the processes
  None,      \* no process
  MaxCalls,  \* bound: calls
  MaxDamage  \* bound: rows edited from outside

ASSUME NoneAssumption == None \notin Procs
ASSUME BoundsAssumption == MaxCalls \in Nat /\ MaxDamage \in Nat

VARIABLES
  disk,     \* the committed rows of every table
  columns,  \* how many of the added columns the schema has
  lock,     \* who is in a write transaction
  work,     \* the tables as that transaction sees them
  pc,       \* where each process is
  op,       \* the operation it performs
  at,       \* the column, table or row it has come to
  seen,     \* the lessons an audit has read
  hurt,     \* whether an audit began on a damaged ledger
  calls, damage  \* how many there have been

vars == <<disk, columns, lock, work, pc, op, at, seen, hurt, calls, damage>>
locals == <<op, at, seen, hurt>>

(* The columns _migrate_schema adds to tables an old ledger has rows in.   *)
Added ==
  <<[table |-> "outcomes", column |-> "new"], [table |-> "outcomes", column |-> "version"],
    [table |-> "predictions", column |-> "version"]>>

NoOp == Op("none", 0, "row")
Places ==
  {"closed", "opening", "adding", "idle", "begin", "check", "insert", "commit",
   "audit", "sources", "valid", "invalid"}

Contents(tables) ==
  [t \in Tables |-> [i \in DOMAIN tables[t] |-> [of |-> tables[t][i].of,
                                                 says |-> tables[t][i].says]]]

(* Every chained row of the old ledger is the first of its table.          *)
Migrated == {Added[i].table : i \in DOMAIN Added}
OldDisk ==
  [t \in Tables |->
     [i \in DOMAIN Old[t] |-> IF t \in Migrated THEN OldRow(Old[t][i])
                              ELSE NewRow(<<>>, Old[t][i])]]

Init ==
  /\ \/ disk = Empty /\ columns = Len(Added)
     \/ disk = OldDisk /\ columns = 0
  /\ lock = None /\ work = disk
  /\ pc = [p \in Procs |-> "closed"]
  /\ op = [p \in Procs |-> NoOp]
  /\ at = [p \in Procs |-> 1]
  /\ seen = [p \in Procs |-> <<>>]
  /\ hurt = [p \in Procs |-> FALSE]
  /\ calls = 0 /\ damage = 0

Goto(p, where) == pc' = [pc EXCEPT ![p] = where]
Turn(p, n) == at' = [at EXCEPT ![p] = n]

-------------------------------------------------------------------------------
(***************************************************************************)
(* Opening: _create_schema and _migrate_schema                             *)
(***************************************************************************)
Open(p) ==
  /\ pc[p] = "closed"
  /\ Goto(p, "opening") /\ Turn(p, 1)
  /\ UNCHANGED <<disk, columns, lock, work, op, seen, hurt, calls, damage>>

(* _ensure_column looks whether the table has the column...                *)
SeeColumn(p) ==
  /\ pc[p] = "opening"
  /\ \/ at[p] > Len(Added) /\ Goto(p, "idle") /\ Turn(p, 1)
     \/ at[p] <= columns /\ UNCHANGED pc /\ Turn(p, at[p] + 1)
     \/ at[p] \in (columns + 1)..Len(Added) /\ Goto(p, "adding") /\ UNCHANGED at
  /\ UNCHANGED <<disk, columns, lock, work, op, seen, hurt, calls, damage>>

(* Mutant of Backfilled: old rows are given the present version.           *)
BackfilledAnew(r, column) ==
  IF column = "new" THEN [r EXCEPT !.new = "unset"] ELSE [r EXCEPT !.version = 2]

(* The defaults: rows already there are of the first version.              *)
Backfilled(r, column) ==
  IF column = "new" THEN [r EXCEPT !.new = "unset"] ELSE [r EXCEPT !.version = 1]

(* ...and adds it, which fails if somebody else has meanwhile.             *)
AddColumn(p) ==
  LET c == Added[at[p]] IN
  /\ pc[p] = "adding"
  /\ IF columns >= at[p]
     THEN Goto(p, "closed") /\ UNCHANGED <<disk, columns, work>>
     ELSE /\ disk' = [disk EXCEPT ![c.table] =
                        [i \in DOMAIN @ |-> Backfilled(@[i], c.column)]]
          /\ work' = disk'
          /\ columns' = at[p]
          /\ Goto(p, "opening")
  /\ UNCHANGED <<lock, op, at, seen, hurt, calls, damage>>

-------------------------------------------------------------------------------
(***************************************************************************)
(* Writing                                                                 *)
(***************************************************************************)
Call(p) ==
  /\ pc[p] = "idle" /\ calls < MaxCalls
  /\ \E o \in Ops : op' = [op EXCEPT ![p] = o]
  /\ Goto(p, "begin")
  /\ calls' = calls + 1
  /\ UNCHANGED <<disk, columns, lock, work, at, seen, hurt, damage>>

(* BEGIN IMMEDIATE                                                         *)
Begin(p) ==
  /\ pc[p] = "begin" /\ lock = None
  /\ lock' = p /\ work' = disk
  /\ Goto(p, "check")
  /\ UNCHANGED <<disk, columns, op, at, seen, hurt, calls, damage>>

Done(p) ==
  /\ op' = [op EXCEPT ![p] = NoOp]
  /\ Turn(p, 1)
  /\ seen' = [seen EXCEPT ![p] = <<>>]
  /\ hurt' = [hurt EXCEPT ![p] = FALSE]

(* Leaving a transaction, with what it leaves behind.                      *)
Leave(p, tables) ==
  /\ disk' = tables /\ work' = tables
  /\ lock' = None
  /\ Done(p)

(* Packets are not chained, but the assessment's row repeats its packet.   *)
PacketsMatch(tables) ==
  \A i \in DOMAIN tables["assessments"] :
    \E j \in DOMAIN tables["packets"] :
      /\ tables["packets"][j].of = i
      /\ tables["packets"][j].says = tables["assessments"][i].says

TableValid(tables, t) == Valid(tables[t]) /\ (t = "assessments" => PacketsMatch(tables))

(* The four chains materialize_learning_context asks for.                  *)
Lawful(tables) ==
  /\ \A t \in {"assessments", "outcomes", "guardrails", "lessons"} : TableValid(tables, t)
  /\ Sourced(tables, tables["lessons"])

(* The checks of the operation, on what its transaction sees.              *)
Check(p) ==
  /\ pc[p] = "check"
  /\ IF Accepts(work, op[p], Lawful(work))
     THEN /\ op' = [op EXCEPT ![p] = Named(work, @)]
          /\ Goto(p, "insert")
          /\ UNCHANGED <<disk, lock, work, at, seen, hurt>>
     ELSE Leave(p, disk) /\ Goto(p, "idle")
  /\ UNCHANGED <<columns, calls, damage>>

(* Mutant of Insert: the row is written at once.                           *)
InsertUnbuffered(p) ==
  LET tables == Writes(op[p].kind) IN
  /\ pc[p] = "insert"
  /\ work' = [work EXCEPT ![tables[at[p]]] = Append(@, NewRow(@, Content(op[p])))]
  /\ disk' = work'
  /\ Turn(p, at[p] + 1)
  /\ Goto(p, IF at[p] = Len(tables) THEN "commit" ELSE "insert")
  /\ UNCHANGED <<columns, lock, op, seen, hurt, calls, damage>>

Insert(p) ==
  LET tables == Writes(op[p].kind) IN
  /\ pc[p] = "insert"
  /\ work' = [work EXCEPT ![tables[at[p]]] = Append(@, NewRow(@, Content(op[p])))]
  /\ Turn(p, at[p] + 1)
  /\ Goto(p, IF at[p] = Len(tables) THEN "commit" ELSE "insert")
  /\ UNCHANGED <<disk, columns, lock, op, seen, hurt, calls, damage>>

Commit(p) ==
  /\ pc[p] = "commit"
  /\ Leave(p, work)
  /\ Goto(p, "idle")
  /\ UNCHANGED <<columns, calls, damage>>

-------------------------------------------------------------------------------
(***************************************************************************)
(* validate_chain                                                          *)
(***************************************************************************)
Damaged == ~Undamaged(disk, Chains \cup {"packets"})

Audit(p) ==
  /\ pc[p] = "idle" /\ calls < MaxCalls
  /\ hurt' = [hurt EXCEPT ![p] = Damaged]
  /\ Goto(p, "audit")
  /\ calls' = calls + 1
  /\ UNCHANGED <<disk, columns, lock, work, op, at, seen, damage>>

(* One chain after the other, each in one statement.                       *)
AuditTable(p) ==
  LET t == Chained[at[p]] IN
  /\ pc[p] = "audit"
  /\ \/ ~TableValid(disk, t) /\ Goto(p, "invalid") /\ UNCHANGED <<at, seen>>
     \/ /\ TableValid(disk, t) /\ t # "lessons"
        /\ Turn(p, at[p] + 1) /\ UNCHANGED <<pc, seen>>
     \/ /\ TableValid(disk, t) /\ t = "lessons"
        /\ seen' = [seen EXCEPT ![p] = disk[t]]
        /\ Goto(p, "sources") /\ UNCHANGED at
  /\ UNCHANGED <<disk, columns, lock, work, op, hurt, calls, damage>>

(* The lessons were read in one statement, their sources in another.       *)
AuditSources(p) ==
  /\ pc[p] = "sources"
  /\ Goto(p, IF Sourced(disk, seen[p]) THEN "valid" ELSE "invalid")
  /\ UNCHANGED <<disk, columns, lock, work, op, at, seen, hurt, calls, damage>>

Answered(p) ==
  /\ pc[p] \in {"valid", "invalid"}
  /\ Done(p) /\ Goto(p, "idle")
  /\ UNCHANGED <<disk, columns, lock, work, calls, damage>>

-------------------------------------------------------------------------------
(***************************************************************************)
(* Faults                                                                  *)
(***************************************************************************)
(* BEGIN IMMEDIATE waits five seconds for the lock and no longer.          *)
Busy(p) ==
  /\ pc[p] = "begin" /\ lock # None
  /\ Done(p) /\ Goto(p, "idle")
  /\ UNCHANGED <<disk, columns, lock, work, calls, damage>>

(* A statement fails: rollback.                                            *)
Fail(p) ==
  /\ pc[p] \in {"insert", "commit"}
  /\ Leave(p, disk)
  /\ Goto(p, "idle")
  /\ UNCHANGED <<columns, calls, damage>>

(* SQLite forgets the transaction of a process that is gone.               *)
Die(p) ==
  /\ pc[p] # "closed"
  /\ IF lock = p THEN Leave(p, disk) ELSE Done(p) /\ UNCHANGED <<disk, lock, work>>
  /\ Goto(p, "closed")
  /\ UNCHANGED <<columns, calls, damage>>

(* Somebody edits a row with another program.                              *)
Damage(t, i) ==
  /\ damage < MaxDamage /\ lock = None
  /\ disk' = [disk EXCEPT ![t][i].says = Garbled]
  /\ work' = disk'
  /\ damage' = damage + 1
  /\ UNCHANGED <<columns, lock, pc, locals, calls>>

Next ==
  \/ \E p \in Procs :
       \/ Open(p) \/ SeeColumn(p) \/ AddColumn(p)
       \/ Call(p) \/ Begin(p) \/ Check(p) \/ Insert(p) \/ Commit(p)
       \/ Audit(p) \/ AuditTable(p) \/ AuditSources(p) \/ Answered(p)
       \/ Busy(p) \/ Fail(p) \/ Die(p)
  \/ \E t \in Chains \cup {"packets"} : \E i \in DOMAIN disk[t] : Damage(t, i)

Spec == Init /\ [][Next]_vars

-------------------------------------------------------------------------------
(***************************************************************************)
(* Properties                                                              *)
(***************************************************************************)
(* Whatever processes open, write and die at once, every operation is one  *)
(* step of an append-only log, accepted on the log as it then is; opening  *)
(* changes nothing.                                                        *)
Log == INSTANCE AppendOnlyLog WITH log <- Contents(disk)
KeepsLog == Log!Spec

(* A verification has withdrawn what a lesson was learned from.            *)
Withdrawn ==
  \E i \in DOMAIN disk["lessons"], j \in DOMAIN disk["guardrails"] :
    /\ disk["guardrails"][j].of = disk["lessons"][i].of
    /\ disk["guardrails"][j].says = "halt"

(* An audit finds damage done before it began, also while others write;    *)
(* and what it calls invalid was damaged or has a lesson whose             *)
(* verification was withdrawn: migrated rows, rows written meanwhile and   *)
(* dead writers are never taken for damage.                                *)
AuditIsTrue ==
  \A p \in Procs :
    /\ pc[p] = "valid" => ~hurt[p]
    /\ pc[p] = "invalid" => Damaged \/ Withdrawn

(* db.py: validate_chain() "fails if any stored content was mutated"; of a *)
(* ledger nobody touched it does not.                                      *)
UntouchedIsValid == \A p \in Procs : pc[p] = "invalid" => Damaged
===============================================================================
