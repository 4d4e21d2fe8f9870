----------------------------- MODULE MCLandingApp ---------------------------
(* Instances of LandingApp for TLC.                                        *)
EXTENDS LandingApp, ClientData

CONSTANTS paneA, paneB

\* Slots only hold handlers; nothing checked here is a liveness property.
Alike == Permutations(Slots)
=============================================================================
