-------------------------- MODULE MCCoupledWindow --------------------------
(* A small instance of CoupledWindow for TLC.                                *)
EXTENDS CoupledWindow

\* Numbers with two significant bits.
MCDurations == {1, 2, 3, 4, 6, 8, 12, 16}

\* An estimate that shortens the steps and one that lets them grow.
MCStables == {2, 8}
MCLimits == {3, 8}

\* Not divisible by most of the steps.
MCAmounts == {5}
MCRegimes == {1, 2}
=============================================================================
