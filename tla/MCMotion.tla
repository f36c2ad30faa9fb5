------------------------------ MODULE MCMotion ------------------------------
(***************************************************************************)
(* Instances of Motion for TLC: an encoder of ten ticks, with fewer and    *)
(* with more steps to a revolution than ticks, as the motor's 16384 ticks  *)
(* are between 200 and 51200 steps; and an axis of four bits.              *)
(***************************************************************************)
EXTENDS Motion, TLC

Frac(n, d) == [n |-> n, d |-> d]

Automating(resolutions, steps, revolutions, reports, speeds, accelerations) ==
  [resolutions |-> resolutions, steps |-> steps, revolutions |-> revolutions,
   reports |-> reports, speeds |-> speeds, accelerations |-> accelerations]

\* More than three ticks to a step; a reported position that rounds to a full turn.
Fine == Automating({3}, {-1, 2}, {}, {Frac(-1, 100)}, {}, {})
\* Microsteps that change, from more than three ticks to a step to less than two.
Rescaled == Automating({3, 7}, {1, 2}, {}, {}, {}, {})
\* Five steps to a tick; targets that round to a full turn, share a tick or do not fit.
Coarse == Automating({50}, {-1, 1, 51}, {Frac(99, 100)}, {}, {}, {})
\* Speeds and accelerations around the motor's limits, and halves.
Ramps == Automating({3, 50}, {}, {}, {},
                    {-2501, 0, 1, 7, 149, 150, 151, 2501},
                    {-1, 0, 1, 4, 5, 7, 999, 1000, 16666, 16667})

MCAutomations == {Fine, Rescaled, Coarse, Ramps}

\* One target away and one back.
Returning == Automating({3}, {0, 2}, {}, {}, {}, {})
ReturningOnly == {Returning}
=============================================================================
