------------------------------ MODULE MCGateCheck ------------------------------
(* Instances of GateCheck: one change edits two files where they stand (the *)
(* host's Edit and apply_patch), the other writes one of them whole (Write).*)
EXTENDS GateCheck, TLC

MCFilesOf == ("c1" :> {"f", "g"}) @@ ("c2" :> {"f"})
MCAfter ==
  ("c1" :> ("f" :> (0 :> "f1" @@ 1 :> "f1moved") @@ "g" :> (0 :> "g1" @@ 1 :> "g1moved")))
    @@ ("c2" :> ("f" :> (0 :> "f2" @@ 1 :> "f2")))

Kind(decision, confirm, replay, overridable) ==
  [decision |-> decision, confirm |-> confirm, replay |-> replay, overridable |-> overridable]

(* A clean proceed, a hold a human may lift, and one nobody can.            *)
MCKinds ==
  {Kind("proceed", FALSE, FALSE, FALSE), Kind("proceed", TRUE, TRUE, FALSE),
   Kind("ask_human", FALSE, FALSE, FALSE)}
MCSymmetry == Permutations(Commits)
===============================================================================
