------------------------------ MODULE GpioLines ------------------------------
(***************************************************************************)
(* What the callers of a GPIO driver rely on (struct gpio_chip: set,       *)
(* set_multiple, direction_input, direction_output).  A line is an input,  *)
(* or drives a level.  A request names lines and the state each is to      *)
(* take; it may take effect on each of them at any moment until it         *)
(* returns, in one move, and leaves every other line alone.                *)
(***************************************************************************)
EXTENDS Integers

CONSTANT Line

VARIABLES st,           \* the state of each line
          want,         \* the state last requested, at first the state found
          busy          \* the lines of the requests in progress

LineState == {"in", "low", "high"}
Level(v) == IF v THEN "high" ELSE "low"

Init ==
    /\ st \in [Line -> LineState]
    /\ want = st
    /\ busy = {}

Request ==
    /\ busy \subseteq busy' /\ busy' \subseteq Line
    /\ want' \in [Line -> LineState]
    /\ \A l \in Line : want'[l] # want[l] => l \in busy' \ busy
    /\ UNCHANGED st

\* Some lines of requests in progress move, and some requests return.
Serve ==
    /\ busy' \subseteq busy
    /\ st' \in [Line -> LineState]
    /\ \A l \in Line :
          /\ st'[l] # st[l] => l \in busy /\ st'[l] = want[l]
          /\ l \in busy \ busy' => st'[l] = want[l]
    /\ UNCHANGED want

\* The weaker promise of a driver that changes direction and level one after
\* the other: until the request returns, its lines may be in any state.
ServeWithGlitch ==
    /\ busy' \subseteq busy
    /\ st' \in [Line -> LineState]
    /\ \A l \in Line :
          /\ st'[l] # st[l] => l \in busy
          /\ l \in busy \ busy' => st'[l] = want[l]
    /\ UNCHANGED want

Spec == Init /\ [][Request \/ Serve]_<<st, want, busy>>
GlitchSpec == Init /\ [][Request \/ ServeWithGlitch]_<<st, want, busy>>
==============================================================================
