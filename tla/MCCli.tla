-------------------------------- MODULE MCCli --------------------------------
(* Intervals for model checking Cli: of either sign, zero, two of which one *)
(* does not divide the other, and two whose quotient is beyond MaxChan.     *)
EXTENDS Cli

MCDurations == {-1, 0, 1, 2, 3}
=============================================================================
