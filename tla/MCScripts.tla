----------------------------- MODULE MCScripts -----------------------------
(* Instances of Scripts for TLC.                                           *)
EXTENDS Scripts

CONSTANTS termA, termB, purse, chest

\* Terminals only differ by what they run; nothing checked here is a liveness property.
Alike == Permutations(Terminals)
=============================================================================
