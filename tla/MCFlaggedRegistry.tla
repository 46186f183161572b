------------------------- MODULE MCFlaggedRegistry -------------------------
(***************************************************************************)
(* Values of the constants for the run of FlaggedRegistry.                 *)
(***************************************************************************)
EXTENDS FlaggedRegistry, TLC

CONSTANTS a1, a2

MCSymmetry == Permutations(Address)

=============================================================================
