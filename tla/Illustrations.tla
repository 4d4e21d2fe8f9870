--------------------------- MODULE Illustrations ---------------------------
(***************************************************************************)
(* The animated illustrations of the landing app and the deck of slides    *)
(* that shows one of them.  An illustration is a loop of beats: write to   *)
(* the page, wait for a timer or an animation, look whether to stop.  A    *)
(* React effect starts the loop and its cleanup tells it to stop, but the  *)
(* loop only notices at its next check, and a new effect may have been set *)
(* up by then.  The sections give each effect a flag of its own; the       *)
(* panels and the slide share one ref between all effects of a component.  *)
(***************************************************************************)
EXTENDS Naturals, SequencesExt

CONSTANTS
  MaxEffects,   \* bound: effects set up by a component
  MaxPresses    \* bound: keys pressed, slides and dots clicked

ASSUME ShowAssumption == {MaxEffects, MaxPresses} \subseteq Nat

VARIABLES
  scene,     \* the component that is mounted
  effects,   \* [stopped, started] of each effect set up, the last one current
  cancel,    \* cancelRef.current
  loops,     \* the loops that have not ended
  screen,    \* what the illustration shows
  overlapped, \* two loops have been under way at once
  deck       \* the slides: current, vis, timers, and the bound's counter

showVars == <<scene, effects, cancel, loops, screen, overlapped, deck>>

Sections == {"limit", "drain", "require", "notBefore", "recipient"}
Panels   == {"hero", "guardPanel"}
Slide    == "whyTrana"

-----------------------------------------------------------------------------
(* Scripts.  before: the code looks whether to stop between the writes of  *)
(* the beat and its wait; after: it looks when the wait is over.           *)

Beat(set)  == [set |-> set, before |-> FALSE, after |-> TRUE]
Blind(set) == [set |-> set, before |-> FALSE, after |-> FALSE]
Wary(set)  == [set |-> set, before |-> TRUE, after |-> TRUE]

\* needs: the transaction shown needs a passkey; tick: the check mark.
Fresh(needs) == [needs |-> needs, blocked |-> FALSE, asking |-> FALSE,
                 tick |-> FALSE, done |-> FALSE]
Still  == <<>>
Blocks == [blocked |-> TRUE]
Asks   == [asking |-> TRUE]
Passes == [blocked |-> FALSE, tick |-> TRUE]
Done   == [done |-> TRUE]

\* Mutant of Refused: the check mark's offset is left alone.
RefusedWithoutTick ==
  <<Beat(Still), Blind(Blocks), Wary(Still), Beat(Asks), Beat([blocked |-> FALSE]),
    Beat([asking |-> FALSE]), Blind(Still)>>

\* Towards the gate, stopped there, challenged, let through.
Refused == <<Beat(Still), Blind(Blocks), Wary(Still), Beat(Asks), Beat(Passes),
             Beat([asking |-> FALSE]), Blind(Still)>>

\* Mutant of DrainRun: no look at the flag after the window has filled.
DrainRunUnchecked == <<Beat(Fresh(TRUE)), Beat(Still), Blind(Still), Blind(Still)>>
                     \o Refused \o <<Blind(Done)>>

RequireRun == <<Beat(Fresh(TRUE)), Beat(Still)>> \o Refused \o <<Blind(Done)>>

DrainRun == <<Beat(Fresh(TRUE)), Beat(Still), Blind(Still), Wary(Still)>>
            \o Refused \o <<Blind(Done)>>

LimitRun == <<Beat(Fresh(FALSE)), Beat(Still), Beat(Still), Beat(Still),
              Blind([tick |-> TRUE]), Beat(Done)>>
            \o <<Beat(Fresh(TRUE)), Beat(Still)>> \o Refused \o <<Blind(Done)>>

NotBeforeRun == <<Beat(Fresh(TRUE)), Beat(Still)>> \o Refused \o <<Beat(Done)>>
                \o <<Blind(Still), Beat([needs |-> FALSE]),
                     Beat([tick |-> FALSE, done |-> FALSE]), Beat(Still),
                     Beat([tick |-> TRUE]), Blind(Still), Blind(Done)>>

RecipientRun == <<Beat(Fresh(TRUE)), Beat(Still), Beat(Blocks), Beat(Asks),
                  Beat([blocked |-> FALSE, tick |-> TRUE, done |-> TRUE,
                        asking |-> FALSE]),
                  Blind(Still), Blind(Still)>>

HeroCycle == <<Beat(Fresh(TRUE)), Beat(Still), Beat(Still), Beat(Asks),
               Beat([asking |-> FALSE, tick |-> TRUE]), Beat(Done),
               Beat(Still), Blind(Still)>>

GuardPanelCycle == HeroCycle

\* As the panel's, with one beat for vault::withdraw.
SlideCycle == SubSeq(HeroCycle, 1, 6) \o <<Blind(Still)>>

Script == [limit |-> LimitRun, drain |-> DrainRun, require |-> RequireRun,
           notBefore |-> NotBeforeRun, recipient |-> RecipientRun,
           hero |-> HeroCycle, guardPanel |-> GuardPanelCycle, whyTrana |-> SlideCycle]

-----------------------------------------------------------------------------

Effect  == Len(effects)
Mounted == scene # "none" /\ Effect > 0 /\ ~effects[Effect].stopped

\* A section's loop asks the flag of its own effect, the others the shared ref.
Stopped(l) == IF scene \in Sections THEN effects[l.effect].stopped ELSE cancel

\* at = 0: the loop still waits for the import of animejs.
AtWork(ls) == {i \in DOMAIN ls : ls[i].at > 0 /\ ~Stopped(ls[i])}
Begun(ls)  == Cardinality({i \in DOMAIN ls : ls[i].at > 0})

\* What a beat does not write stays on the page.
Drawn(set, page) == [f \in DOMAIN page |-> IF f \in DOMAIN set THEN set[f] ELSE page[f]]

Writes(l, k) == [l EXCEPT !.at = k, !.late = IF Stopped(l) THEN @ + 1 ELSE @]

\* After beat k, with the loop's own check when the script starts again.
Continues(i, k) ==
  LET l    == loops[i]
      beat == Script[scene][k]
  IN IF k = 1 /\ Stopped(l)
     THEN loops' = RemoveAt(loops, i) /\ UNCHANGED screen
     ELSE /\ screen' = Drawn(beat.set, screen)
          /\ loops' = IF beat.before /\ Stopped(l) THEN RemoveAt(loops, i)
                      ELSE [loops EXCEPT ![i] = Writes(l, k)]

\* The wait of loop i is over.
PlaysOn(i) ==
  LET l == loops[i]
  IN /\ IF l.at > 0 /\ Script[scene][l.at].after /\ Stopped(l)
        THEN loops' = RemoveAt(loops, i) /\ UNCHANGED screen
        ELSE Continues(i, (l.at % Len(Script[scene])) + 1)
     /\ overlapped' = (overlapped \/ Begun(loops') > 1)
     /\ UNCHANGED <<scene, effects, cancel, deck>>

\* A loop begins: at once in a panel, after an import in a section.
Begins(ls, at) == Append(ls, [effect |-> Len(effects'), at |-> at, late |-> 0])

SetUpSection ==
  /\ effects' = Append(effects, [stopped |-> FALSE, started |-> FALSE])
  /\ UNCHANGED <<cancel, loops, screen, overlapped>>

SetUpPanel ==
  /\ effects' = Append(effects, [stopped |-> FALSE, started |-> TRUE])
  /\ cancel' = FALSE
  /\ loops' = Begins(loops, 1)
  /\ screen' = Fresh(TRUE)
  /\ overlapped' = (overlapped \/ Begun(loops') > 1)

SetUp == IF scene \in Sections THEN SetUpSection ELSE SetUpPanel

\* Mutant of Fires: started is not looked at.
FiresAgain(e) == ~effects[e].stopped

Fires(e) == ~effects[e].stopped /\ ~effects[e].started

\* The observer calls back: on entry into view, once per effect.
Intersects ==
  /\ scene \in Sections
  /\ \E e \in DOMAIN effects :
       /\ Fires(e)
       /\ effects' = [effects EXCEPT ![e].started = TRUE]
       /\ loops' = Append(loops, [effect |-> e, at |-> 0, late |-> 0])
  /\ UNCHANGED <<scene, cancel, screen, overlapped, deck>>

\* The sections' cleanup, and the panels'.
CleanUpSection == effects' = [effects EXCEPT ![Effect].stopped = TRUE] /\ UNCHANGED cancel
CleanUpPanel   == effects' = [effects EXCEPT ![Effect].stopped = TRUE] /\ cancel' = TRUE
CleanUp == IF scene \in Sections THEN CleanUpSection ELSE CleanUpPanel

\* The component goes away; nothing sets its effect up again.
Unmounts ==
  /\ Mounted
  /\ CleanUp
  /\ UNCHANGED <<scene, loops, screen, overlapped>>

\* React sets the effect up again: in development at every mount.
Reruns ==
  /\ scene \in Sections \cup Panels
  /\ Effect \in 1..(MaxEffects - 1) /\ effects[Effect].stopped
  /\ SetUp
  /\ UNCHANGED <<scene, deck>>

-----------------------------------------------------------------------------
(* The deck.                                                               *)

Total     == 13
WhySlide  == 4

\* go: the target is fixed at the press, the change comes 120 ms later.
GoesTo(next) ==
  IF next \notin 0..(Total - 1) THEN UNCHANGED deck
  ELSE deck' = [deck EXCEPT !.vis = FALSE, !.timers = Append(@, next),
                            !.presses = @ + 1]

Presses ==
  /\ deck.presses < MaxPresses
  /\ \/ GoesTo(deck.current + 1)
     \/ deck.current > 0 /\ GoesTo(deck.current - 1)
     \/ \E dot \in {0, WhySlide, Total - 1} : GoesTo(dot)
  /\ UNCHANGED <<scene, effects, cancel, loops, screen, overlapped>>

\* The slide's component appears with state of its own, or goes: the loops of
\* one that is gone write to nothing that is shown and are not followed.
Turned(next) ==
  IF next = WhySlide
  THEN scene' = Slide /\ UNCHANGED <<effects, cancel, loops, screen, overlapped>>
  ELSE /\ scene' = "none" /\ effects' = <<>> /\ cancel' = FALSE
       /\ loops' = <<>> /\ screen' = Fresh(TRUE) /\ overlapped' = FALSE

TimerFires ==
  /\ deck.timers # <<>>
  /\ deck' = [deck EXCEPT !.current = Head(deck.timers), !.vis = TRUE,
                          !.timers = Tail(@)]
  /\ IF deck'.current = deck.current
     THEN UNCHANGED <<scene, effects, cancel, loops, screen, overlapped>>
     ELSE Turned(deck'.current)

\* useInView: the effect runs again each time the answer changes.
ComesIntoView ==
  /\ scene = Slide /\ ~Mounted /\ Effect < MaxEffects
  /\ SetUpPanel
  /\ UNCHANGED <<scene, deck>>

GoesOutOfView ==
  /\ scene = Slide /\ Mounted
  /\ CleanUpPanel
  /\ screen' = Fresh(TRUE)
  /\ UNCHANGED <<scene, loops, overlapped, deck>>

-----------------------------------------------------------------------------

ShowInit ==
  /\ scene \in Sections \cup Panels \cup {"none"}
  /\ effects = IF scene = "none" THEN <<>>
               ELSE <<[stopped |-> FALSE, started |-> scene \in Panels]>>
  /\ loops = IF scene \in Panels THEN <<[effect |-> 1, at |-> 1, late |-> 0]>> ELSE <<>>
  /\ cancel = FALSE /\ overlapped = FALSE
  /\ screen = Fresh(TRUE)
  /\ deck = [current |-> 0, vis |-> TRUE, timers |-> <<>>, presses |-> 0]

ShowNext ==
  \/ \E i \in DOMAIN loops : PlaysOn(i)
  \/ Intersects
  \/ scene \in Sections \cup Panels /\ Unmounts /\ UNCHANGED deck
  \/ Reruns
  \/ scene \in {"none", Slide} /\ Presses
  \/ scene \in {"none", Slide} /\ TimerFires
  \/ ComesIntoView
  \/ GoesOutOfView

-----------------------------------------------------------------------------
(* Properties.                                                             *)

\* However often its effect is set up and cleaned up, and however late the
\* old loops notice, a section has one loop at work: the flag belongs to the
\* effect and the observer starts an effect's loop once (LimitSection.tsx:24).
OneLoopPerSection == scene \in Sections => Cardinality(AtWork(loops)) <= 1

\* As long as a single loop has written to it, an illustration never shows a
\* transaction that needs a passkey as executed without the check mark, nor
\* as executed while the passkey is still asked for.
StoryIsTrue ==
  ~overlapped => (screen.needs /\ screen.done => screen.tick) /\ ~(screen.asking /\ screen.done)

\* A loop told to stop writes to the page once more at most.
LoopsStopSoon == \A i \in DOMAIN loops : loops[i].late <= 1
=============================================================================
