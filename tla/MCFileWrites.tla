----------------------------- MODULE MCFileWrites ------------------------------
(***************************************************************************)
(* The two places where the program itself writes files of the user: the   *)
(* application of a candidate, here of three files, one created, one       *)
(* rewritten, one deleted, and the setup of the graph engine, which puts   *)
(* codegraph.json back.  They share no state, so a behaviour is that of    *)
(* the one that is its subject while the other rests.                      *)
(***************************************************************************)
EXTENDS ReplaceTransaction, GraphSetup

VARIABLE subject

MCDeletions == {3}
MCCreations == {1}
MCContested == {2, 3}

SetupRests ==
  /\ overriding = "none" /\ onPath = "other" /\ managed = "none" /\ head = 1 /\ tree = 1
  /\ config = "mine" /\ index = Build("own") /\ edits = 0 /\ commands = 0 /\ cmd = NoCommand

FileWritesInit ==
  /\ Init
  /\ \/ subject = "candidate" /\ SetupRests
     \/ subject = "setup" /\ SetupInit

FileWritesNext ==
  /\ UNCHANGED subject
  /\ \/ subject = "candidate" /\ Next /\ UNCHANGED svars
     \/ subject = "setup" /\ SetupNext /\ UNCHANGED vars

FileWritesSpec == FileWritesInit /\ [][FileWritesNext]_<<vars, svars, subject>>
===============================================================================
