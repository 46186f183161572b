--------------------------- MODULE MCPersistence ---------------------------
(***************************************************************************)
(* Values of the constants for the runs of Persistence.                    *)
(***************************************************************************)
EXTENDS Persistence, TLC

CONSTANTS ann, a1, acc1, acc2, r1, r2, r3

MCRoleOfAnn == (ann :> "investigator")

\* Numbers that print and parse back to themselves.
MCExact == [x \in Score \cup Confidence |-> x]

\* Numbers in units of the last place: 57 is printed in a form that parses
\* to its neighbour 58.
MCDrifting == [x \in Score \cup Confidence |-> IF x = 57 THEN 58 ELSE x]

MCSymmetry == Permutations(AccountId) \cup Permutations(Request)

=============================================================================
