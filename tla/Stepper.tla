------------------------------ MODULE Stepper ------------------------------
(***************************************************************************)
(* The stepper of the web interface: steps 1..n are shown one after the    *)
(* other, active counts those that are done, and active + 1 is the one     *)
(* being worked on.  What is drawn is derived from active alone.           *)
(*                                                                         *)
(* A stepper p has: steps, a sequence of [icon]; orientation and           *)
(* responsive; variant; state ("none", "loading" or "error"); keepError    *)
(* and expand.                                                             *)
(***************************************************************************)
EXTENDS Integers, Sequences

\* StepperProvider: the ways the form moves.
InitialStep == 0
NextStep(active) == active + 1
PrevStep(active) == active - 1
ResetSteps == InitialStep

\* Mutant: the last step is looked for one place too far.
IsLastStep_Len(p, active) == active = Len(p.steps)

\* useStepper: what the buttons of a step are told.
IsLastStep(p, active) == active = Len(p.steps) - 1
IsDisabledStep(active) == active = 0

\* A narrow window, as useMediaQuery tells it, turns a responsive stepper.
Orientation(p, narrow) == IF narrow /\ p.responsive THEN "vertical" ELSE p.orientation

-----------------------------------------------------------------------------
\* Mutant: a step is done once it is being worked on.
Place_Eager(p, active, i) ==
  [completed |-> i - 1 <= active, current |-> i - 1 = active]

\* VerticalContent, whatever the orientation: what each step is told of its place.
Place(p, active, i) ==
  [completed |-> i - 1 < active, current |-> i - 1 = active]

\* Step
HasVisited(p, active, i) == Place(p, active, i).current \/ Place(p, active, i).completed

\* The steps whose fields are there to fill in.  HorizontalContent shows those of the
\* active step below the row of steps; VerticalStep opens them within the step.
HorizontalContent(p, active) ==
  IF active > Len(p.steps) THEN {} ELSE {i \in DOMAIN p.steps : i = active + 1}

VerticalContent(p, active) ==
  {i \in DOMAIN p.steps : Place(p, active, i).current \/ p.expand}

Content(p, narrow, active) ==
  IF Orientation(p, narrow) = "vertical" THEN VerticalContent(p, active)
  ELSE HorizontalContent(p, active)

\* StepIcon: the first that applies.  Only a horizontal step can keep the error it had.
Icon(p, narrow, active, i) ==
  LET place == Place(p, active, i)
      kept == p.state = "error" /\ p.keepError /\ Orientation(p, narrow) = "horizontal"
  IN CASE place.completed -> IF kept THEN "X" ELSE "check"
       [] ~place.completed /\ place.current /\ p.state = "error" -> "X"
       [] ~place.completed /\ place.current /\ p.state = "loading" -> "spinner"
       [] OTHER -> IF p.steps[i].icon THEN "icon" ELSE "number"

\* StepButtonContainer: a button in the shape of a circle, which lines go without.
Button(p, narrow, active, i) ==
  IF p.variant = "line" THEN {}
  ELSE {[current |-> Place(p, active, i).current, active |-> Place(p, active, i).completed,
         invalid |-> p.state = "error" /\ HasVisited(p, active, i),
         loading |-> p.state = "loading" /\ HasVisited(p, active, i), icon |-> Icon(p, narrow, active, i)]}

\* StepLabel
Label(p, active, i) ==
  [current |-> Place(p, active, i).current, faded |-> ~HasVisited(p, active, i)]

\* HorizontalStep and VerticalStep: how one step is drawn.
Drawn(p, narrow, active, i) ==
  LET place == Place(p, active, i) IN
    [active |-> place.completed \/ (p.variant = "line" /\ place.current),
     disabled |-> Orientation(p, narrow) = "horizontal" /\ ~HasVisited(p, active, i),
     invalid |-> p.state = "error",
     button |-> Button(p, narrow, active, i),
     label |-> Label(p, active, i)]
=============================================================================
