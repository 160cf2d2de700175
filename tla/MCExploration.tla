---------------------------- MODULE MCExploration -----------------------------
(***************************************************************************)
(* As many commands as there are flights, one after the other.             *)
(***************************************************************************)
EXTENDS Exploration

MCCallers == 1..MaxFlights
===============================================================================
