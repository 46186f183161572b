----------------------------- MODULE Selection -----------------------------
(***************************************************************************)
(* The iterator adaptors the crates run over their vectors: filter, which  *)
(* keeps what it selects in its order, and sum.                            *)
(***************************************************************************)
EXTENDS Integers, Sequences, FiniteSets, SequencesExt

IsAscending(s) == \A i, j \in DOMAIN s : i < j => s[i] < s[j]

\* The members of a finite set of numbers, the smallest first.
Ascending(S) ==
    CHOOSE s \in [1..Cardinality(S) -> S] : IsAscending(s) /\ ToSet(s) = S

\* Where s holds a member of S.
Positions(s, S) == {i \in DOMAIN s : s[i] \in S}

\* Iterator::filter
Select(s, S) ==
    LET kept == Ascending(Positions(s, S))
    IN  [k \in DOMAIN kept |-> s[kept[k]]]

\* The sums of the first 0, 1, ... Len(terms) terms.
PartialSums(terms) ==
    LET sum[n \in 0..Len(terms)] ==
          IF n = 0 THEN 0 ELSE sum[n - 1] + terms[n]
    IN  sum

\* Iterator::sum
Total(terms) == PartialSums(terms)[Len(terms)]

=============================================================================
