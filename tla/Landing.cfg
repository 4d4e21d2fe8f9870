\* The try page with two overlapping handlers and one thing done outside it,
\* and the illustrations with up to three effects and three presses.
SPECIFICATION LandingSpec
CONSTANTS
  paneA = paneA
  paneB = paneB
  Slots = {paneA, paneB}
  Handlers = {"withdraw", "deposit", "upgrade", "generate", "add", "secure"}
  MaxRuns = 2
  MaxNonce = 3
  MaxElsewhere = 1
  MaxEffects = 3
  MaxPresses = 3
SYMMETRY Alike
INVARIANTS
  PageTypeOK
  CalmProofsAccepted
  PageKeepsRecord
  LockMatchesRun
  OneLoopPerSection
  StoryIsTrue
  LoopsStopSoon
PROPERTIES
  OutcomesAreTrue
CHECK_DEADLOCK FALSE
