----------------------------- MODULE LandingApp -----------------------------
(***************************************************************************)
(* The landing app: the page a visitor loads is the try page, one of the   *)
(* animated illustrations, or the deck of slides.                          *)
(***************************************************************************)
EXTENDS TryPage, Illustrations

VARIABLE route

siteVars == <<vars, showVars, route>>

LandingInit ==
  /\ Init /\ ShowInit
  /\ route \in {"try", "show"}
  /\ route = "try" => scene = "none"

LandingNext ==
  /\ \/ route = "try" /\ Next /\ UNCHANGED showVars
     \/ route = "show" /\ ShowNext /\ UNCHANGED vars
  /\ UNCHANGED route

LandingSpec == LandingInit /\ [][LandingNext]_siteVars
=============================================================================
