-------------------------- MODULE MCAlertLifecycle --------------------------
(***************************************************************************)
(* Values of the constants for the runs of AlertLifecycle.                 *)
(***************************************************************************)
EXTENDS AlertLifecycle, TLC

CONSTANTS ann, vic, a1, a2, acc1, acc2, r1, r2, r3

MCRoleOf == (ann :> "investigator") @@ (vic :> "viewer")

\* Every constant below is a set of interchangeable model values.
MCSymmetry ==
    Permutations(AlertId) \cup Permutations(AccountId)
      \cup Permutations(Request)

=============================================================================
