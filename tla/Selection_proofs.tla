-------------------------- MODULE Selection_proofs --------------------------
(***************************************************************************)
(* What filter and sum return, for every sequence; and the induction those *)
(* facts rest on.                                                          *)
(***************************************************************************)
EXTENDS Selection, FiniteSetTheorems, SequenceTheorems,
        WellFoundedInduction, TLAPS

-----------------------------------------------------------------------------
(* Induction: the theorems of the library take a predicate; this takes the *)
(* set of the numbers for which it holds.                                  *)

LEMMA NatSetInduction ==
    ASSUME NEW S, 0 \in S, \A n \in Nat : n \in S => n + 1 \in S
    PROVE  Nat \subseteq S
<1>. DEFINE Less == {p \in Nat \X Nat : p[1] < p[2]}
            Left == Nat \ S
<1>1. SUFFICES ASSUME Left # {}
               PROVE  FALSE
  OBVIOUS
<1>2. IsWellFoundedOn(Less, Nat)
  BY NatLessThanWellFounded DEF OpToRel
<1>3. PICK n \in Left : \A m \in Left : <<m, n>> \notin Less
  <2>1. Left \subseteq Nat
    OBVIOUS
  <2>. HIDE DEF Left, Less
  <2>. QED BY <1>1, <1>2, <2>1, WFMin
<1>4. n # 0 /\ n - 1 \in Nat
  BY <1>3
<1>5. n - 1 \in Left
  <2>1. n - 1 \in S => (n - 1) + 1 \in S
    BY <1>4
  <2>. QED BY <1>3, <1>4, <2>1
<1>6. <<n - 1, n>> \in Less
  BY <1>3, <1>4
<1>. QED BY <1>3, <1>5, <1>6

\* What a recursive function computes from its value at 0 and its step: a
\* function that satisfies the two exists on 0..m.
Chain(g, D, first, step, m) ==
    /\ g \in [0..m -> D]
    /\ g[0] = first
    /\ \A i \in 1..m : g[i] = step[<<i, g[i - 1]>>]

LEMMA ChainExists ==
    ASSUME NEW D, NEW first \in D, NEW step, NEW m \in Nat,
           \A i \in 1..m, d \in D : step[<<i, d>>] \in D
    PROVE  \E g : Chain(g, D, first, step, m)
<1>. DEFINE Reaches(n, g) == Chain(g, D, first, step, n)
            Long == {n \in Nat : n <= m => \E g : Reaches(n, g)}
<1>1. 0 \in Long
  <2>. DEFINE g == [i \in 0..0 |-> first]
  <2>1. g \in [0..0 -> D] /\ g[0] = first
    OBVIOUS
  <2>2. \A i \in 1..0 : FALSE
    OBVIOUS
  <2>3. Reaches(0, g)
    BY <2>1, <2>2 DEF Chain
  <2>. QED BY <2>3
<1>2. ASSUME NEW n \in Nat, n \in Long
      PROVE  n + 1 \in Long
  <2>1. SUFFICES ASSUME n + 1 <= m
                 PROVE  \E h : Reaches(n + 1, h)
    OBVIOUS
  <2>2. PICK g : Reaches(n, g)
    BY <1>2, <2>1
  <2>. DEFINE last == step[<<n + 1, g[n]>>]
              h == [i \in 0..(n + 1) |-> IF i = n + 1 THEN last ELSE g[i]]
  <2>3. g \in [0..n -> D] /\ g[0] = first
        /\ \A i \in 1..n : g[i] = step[<<i, g[i - 1]>>]
    BY <2>2 DEF Chain
  <2>4. g[n] \in D /\ n + 1 \in 1..m
    BY <2>1, <2>3
  <2>5. last \in D
    BY <2>4
  <2>. HIDE DEF last
  <2>6. h \in [0..(n + 1) -> D]
    BY <2>3, <2>5
  <2>7. h[0] = first
    BY <2>3
  <2>8. ASSUME NEW i \in 1..(n + 1)
        PROVE  h[i] = step[<<i, h[i - 1]>>]
    <3>1. i - 1 \in 0..(n + 1) /\ i - 1 # n + 1 /\ h[i - 1] = g[i - 1]
      OBVIOUS
    <3>2. CASE i = n + 1
      BY <3>1, <3>2 DEF last
    <3>3. CASE i # n + 1
      BY <2>3, <3>1, <3>3
    <3>. QED BY <3>2, <3>3
  <2>. HIDE DEF h
  <2>9. Reaches(n + 1, h)
    BY <2>6, <2>7, <2>8 DEF Chain
  <2>. QED BY <2>9
<1>3. m \in Long
  <2>. HIDE DEF Long
  <2>. QED BY <1>1, <1>2, NatSetInduction
<1>. QED BY <1>3

\* Induction up to a bound.
LEMMA BoundedInduction ==
    ASSUME NEW m \in Nat, NEW S, 0 \in S,
           \A n \in 0..(m - 1) : n \in S => n + 1 \in S
    PROVE  \A n \in 0..m : n \in S
<1>. DEFINE Good == {n \in Nat : n <= m => n \in S}
<1>1. 0 \in Good
  OBVIOUS
<1>2. ASSUME NEW n \in Nat, n \in Good
      PROVE  n + 1 \in Good
  <2>1. SUFFICES ASSUME n + 1 <= m
                 PROVE  n + 1 \in S
    OBVIOUS
  <2>2. n \in 0..(m - 1) /\ n \in S
    BY <1>2, <2>1
  <2>. QED BY <2>2
<1>3. Nat \subseteq Good
  <2>. HIDE DEF Good
  <2>. QED BY <1>1, <1>2, NatSetInduction
<1>. QED BY <1>3

-----------------------------------------------------------------------------
(* Sets of numbers in ascending order *)

LEMMA SubsetOfInterval ==
    ASSUME NEW n \in Nat, NEW S \in SUBSET (1..n)
    PROVE  IsFiniteSet(S) /\ Cardinality(S) \in Nat
<1>1. IsFiniteSet(1..n)
  BY FS_Interval
<1>2. IsFiniteSet(S)
  BY <1>1, FS_Subset
<1>. QED BY <1>2, FS_CardinalityType

LEMMA AscendingExists ==
    ASSUME NEW n \in Nat, NEW S \in SUBSET (1..n)
    PROVE  \E s \in [1..Cardinality(S) -> S] : IsAscending(s) /\ ToSet(s) = S
<1>. DEFINE Listed(R) == \E s \in [1..Cardinality(R) -> R] :
                           IsAscending(s) /\ ToSet(s) = R
            Good == {m \in Nat : \A R \in SUBSET (1..m) : Listed(R)}
<1>1. 0 \in Good
  <2>1. SUFFICES ASSUME NEW R \in SUBSET (1..0)
                 PROVE  Listed(R)
    OBVIOUS
  <2>2. R = {} /\ Cardinality(R) = 0
    <3>1. R = {}
      OBVIOUS
    <3>. QED BY <3>1, FS_EmptySet
  <2>3. << >> \in [1..0 -> {}] /\ IsAscending(<< >>) /\ ToSet(<< >>) = {}
    BY DEF IsAscending, ToSet
  <2>. QED BY <2>2, <2>3
<1>2. ASSUME NEW m \in Nat, m \in Good
      PROVE  m + 1 \in Good
  <2>1. SUFFICES ASSUME NEW R \in SUBSET (1..(m + 1))
                 PROVE  Listed(R)
    BY DEF Good
  <2>2. CASE m + 1 \notin R
    <3>1. R \in SUBSET (1..m)
      BY <2>2
    <3>. QED BY <1>2, <3>1
  <2>3. CASE m + 1 \in R
    <3>. DEFINE Q == R \ {m + 1}
                k == Cardinality(Q)
    <3>1. Q \in SUBSET (1..m)
      OBVIOUS
    <3>2. IsFiniteSet(Q) /\ k \in Nat
      BY <3>1, SubsetOfInterval
    <3>3. Cardinality(R) = k + 1
      <4>1. R = Q \cup {m + 1} /\ m + 1 \notin Q
        BY <2>3
      <4>. HIDE DEF Q
      <4>. QED BY <3>2, <4>1, FS_AddElement
    <3>4. PICK s \in [1..k -> Q] : IsAscending(s) /\ ToSet(s) = Q
      BY <1>2, <3>1
    <3>. DEFINE t == [i \in 1..(k + 1) |-> IF i = k + 1 THEN m + 1 ELSE s[i]]
    <3>5. \A i \in 1..k : s[i] \in Q
      BY <3>4
    <3>. HIDE DEF k
    <3>6. \A i \in 1..(k + 1) : i # k + 1 => i \in 1..k
      BY <3>2
    <3>7. t \in [1..(k + 1) -> R]
      BY <2>3, <3>2, <3>5, <3>6
    <3>8. IsAscending(t)
      <4>1. SUFFICES ASSUME NEW i \in 1..(k + 1), NEW j \in 1..(k + 1), i < j
                     PROVE  t[i] < t[j]
        BY DEF IsAscending
      <4>2. i \in 1..k /\ i # k + 1 /\ t[i] = s[i]
        BY <3>2, <4>1
      <4>3. s[i] \in 1..m
        BY <3>1, <3>5, <4>2
      <4>4. CASE j = k + 1
        BY <3>2, <4>2, <4>3, <4>4
      <4>5. CASE j # k + 1
        <5>1. j \in 1..k /\ t[j] = s[j]
          BY <3>6, <4>5
        <5>2. DOMAIN s = 1..k
          BY <3>4
        <5>. QED BY <3>4, <4>1, <4>2, <5>1, <5>2 DEF IsAscending
      <4>. QED BY <4>4, <4>5
    <3>9. ToSet(t) = R
      <4>1. DOMAIN t = 1..(k + 1) /\ DOMAIN s = 1..k
        BY <3>4
      <4>2. \A x \in R : \E i \in 1..(k + 1) : t[i] = x
        <5>1. SUFFICES ASSUME NEW x \in R
                       PROVE  \E i \in 1..(k + 1) : t[i] = x
          OBVIOUS
        <5>2. CASE x = m + 1
          BY <3>2, <5>2
        <5>3. CASE x # m + 1
          <6>1. x \in ToSet(s)
            BY <3>4, <5>3
          <6>2. PICK i \in 1..k : s[i] = x
            BY <4>1, <6>1 DEF ToSet
          <6>3. i \in 1..(k + 1) /\ i # k + 1
            BY <3>2
          <6>. QED BY <6>2, <6>3
        <5>. QED BY <5>2, <5>3
      <4>3. \A i \in 1..(k + 1) : t[i] \in R
        BY <3>7
      <4>. HIDE DEF t, Q
      <4>. QED BY <4>1, <4>2, <4>3 DEF ToSet
    <3>. HIDE DEF t
    <3>. QED BY <3>3, <3>7, <3>8, <3>9
  <2>. QED BY <2>2, <2>3
<1>3. n \in Good
  <2>. HIDE DEF Good
  <2>. QED BY <1>1, <1>2, NatSetInduction
<1>. QED BY <1>3

LEMMA AscendingDef ==
    ASSUME NEW n \in Nat, NEW S \in SUBSET (1..n)
    PROVE  /\ Ascending(S) \in [1..Cardinality(S) -> S]
           /\ Ascending(S) \in Seq(S)
           /\ Len(Ascending(S)) = Cardinality(S)
           /\ DOMAIN Ascending(S) = 1..Cardinality(S)
           /\ IsAscending(Ascending(S))
           /\ ToSet(Ascending(S)) = S
<1>. DEFINE s == Ascending(S)
<1>1. s \in [1..Cardinality(S) -> S] /\ IsAscending(s) /\ ToSet(s) = S
  BY AscendingExists DEF Ascending
<1>2. Cardinality(S) \in Nat
  BY SubsetOfInterval
<1>. HIDE DEF s
<1>3. s \in Seq(S) /\ Len(s) = Cardinality(S)
  BY <1>1, <1>2
<1>. QED BY <1>1, <1>3 DEF s

\* There is one way to list a set of numbers in ascending order.
LEMMA AscendingUnique ==
    ASSUME NEW n \in Nat, NEW s \in [1..n -> Int], NEW t \in [1..n -> Int],
           IsAscending(s), IsAscending(t), ToSet(s) = ToSet(t)
    PROVE  s = t
<1>. DEFINE Agree == {k \in Nat : \A i \in 1..n : i <= k => s[i] = t[i]}
<1>1. 0 \in Agree
  OBVIOUS
<1>2. ASSUME NEW k \in Nat, k \in Agree
      PROVE  k + 1 \in Agree
  <2>1. SUFFICES ASSUME k + 1 \in 1..n
                 PROVE  s[k + 1] = t[k + 1]
    BY <1>2
  <2>2. PICK i \in 1..n : s[i] = t[k + 1]
    <3>1. t[k + 1] \in ToSet(s)
      BY <2>1 DEF ToSet
    <3>. QED BY <3>1 DEF ToSet
  <2>3. PICK j \in 1..n : t[j] = s[k + 1]
    <3>1. s[k + 1] \in ToSet(t)
      BY <2>1 DEF ToSet
    <3>. QED BY <3>1 DEF ToSet
  <2>4. \A a, b \in 1..n : a < b => s[a] < s[b] /\ t[a] < t[b]
    BY DEF IsAscending
  <2>5. \A a \in 1..n : s[a] \in Int /\ t[a] \in Int
    OBVIOUS
  <2>6. k + 1 <= i
    <3>1. SUFFICES ASSUME i <= k
                   PROVE  FALSE
      OBVIOUS
    <3>2. t[i] = t[k + 1]
      BY <1>2, <2>2, <3>1
    <3>3. t[i] < t[k + 1]
      BY <2>1, <2>4, <3>1
    <3>. QED BY <2>1, <2>5, <3>2, <3>3
  <2>7. k + 1 <= j
    <3>1. SUFFICES ASSUME j <= k
                   PROVE  FALSE
      OBVIOUS
    <3>2. s[j] = s[k + 1]
      BY <1>2, <2>3, <3>1
    <3>3. s[j] < s[k + 1]
      BY <2>1, <2>4, <3>1
    <3>. QED BY <2>1, <2>5, <3>2, <3>3
  <2>8. s[k + 1] <= t[k + 1]
    BY <2>1, <2>2, <2>4, <2>5, <2>6
  <2>9. t[k + 1] <= s[k + 1]
    BY <2>1, <2>3, <2>4, <2>5, <2>7
  <2>. QED BY <2>1, <2>5, <2>8, <2>9
<1>3. n \in Agree
  <2>. HIDE DEF Agree
  <2>. QED BY <1>1, <1>2, NatSetInduction
<1>. QED BY <1>3

LEMMA AscendingAppend ==
    ASSUME NEW n \in Nat, NEW S \in SUBSET (1..n)
    PROVE  Ascending(S \cup {n + 1}) = Append(Ascending(S), n + 1)
<1>. DEFINE R == S \cup {n + 1}
            k == Cardinality(S)
            s == Ascending(S)
            t == Append(s, n + 1)
            u == Ascending(R)
<1>1. R \in SUBSET (1..(n + 1)) /\ n + 1 \notin S /\ R \subseteq Int
  OBVIOUS
<1>2. IsFiniteSet(S) /\ k \in Nat
  BY SubsetOfInterval
<1>3. Cardinality(R) = k + 1
  BY <1>1, <1>2, FS_AddElement
<1>4. /\ s \in Seq(S) /\ Len(s) = k /\ DOMAIN s = 1..k
      /\ IsAscending(s) /\ ToSet(s) = S
  BY AscendingDef
<1>5. u \in [1..(k + 1) -> R] /\ IsAscending(u) /\ ToSet(u) = R
  <2>1. n + 1 \in Nat
    OBVIOUS
  <2>. HIDE DEF R, k
  <2>2. /\ Ascending(R) \in [1..Cardinality(R) -> R]
        /\ IsAscending(Ascending(R)) /\ ToSet(Ascending(R)) = R
    BY <1>1, <2>1, AscendingDef
  <2>. QED BY <1>3, <2>2
<1>. HIDE DEF u, s, k
<1>6. /\ t \in [1..(k + 1) -> R] /\ DOMAIN t = 1..(k + 1)
      /\ t[k + 1] = n + 1
      /\ \A i \in 1..k : t[i] = s[i] /\ s[i] \in S
  <2>1. \A i \in 1..k : s[i] \in S
    BY <1>4
  <2>2. s \in Seq(R) /\ n + 1 \in R
    BY <1>2, <1>4, <2>1
  <2>. HIDE DEF R
  <2>3. t \in Seq(R) /\ Len(t) = k + 1 /\ t[k + 1] = n + 1
        /\ \A i \in 1..k : t[i] = s[i]
    BY <1>2, <1>4, <2>2
  <2>. HIDE DEF t
  <2>4. t \in [1..(k + 1) -> R] /\ DOMAIN t = 1..(k + 1)
    BY <1>2, <2>3
  <2>. QED BY <1>2, <2>1, <2>3, <2>4
<1>. HIDE DEF t
<1>7. IsAscending(t)
  <2>1. SUFFICES ASSUME NEW i \in 1..(k + 1), NEW j \in 1..(k + 1), i < j
                 PROVE  t[i] < t[j]
    BY <1>6 DEF IsAscending
  <2>2. i \in 1..k /\ t[i] = s[i] /\ s[i] \in S
    BY <1>2, <1>6, <2>1
  <2>3. CASE j = k + 1
    <3>1. s[i] \in 1..n /\ t[j] = n + 1
      BY <1>6, <2>2, <2>3
    <3>. QED BY <2>2, <3>1
  <2>4. CASE j # k + 1
    <3>1. j \in 1..k /\ t[j] = s[j]
      BY <1>2, <1>6, <2>4
    <3>. QED BY <1>4, <2>1, <2>2, <3>1 DEF IsAscending
  <2>. QED BY <2>3, <2>4
<1>8. ToSet(t) = R
  <2>1. \A i \in 1..(k + 1) : t[i] \in R
    BY <1>6
  <2>2. ASSUME NEW x \in S
        PROVE  \E i \in 1..(k + 1) : t[i] = x
    <3>1. PICK i \in 1..k : s[i] = x
      BY <1>4 DEF ToSet
    <3>2. i \in 1..(k + 1)
      BY <1>2
    <3>. QED BY <1>6, <3>1, <3>2
  <2>3. k + 1 \in 1..(k + 1)
    BY <1>2
  <2>4. \A x \in R : \E i \in 1..(k + 1) : t[i] = x
    BY <1>6, <2>2, <2>3
  <2>. HIDE DEF R
  <2>. QED BY <1>6, <2>1, <2>4 DEF ToSet
<1>9. t \in [1..(k + 1) -> Int] /\ u \in [1..(k + 1) -> Int]
  <2>. HIDE DEF R
  <2>. QED BY <1>1, <1>5, <1>6
<1>. QED
  <2>. HIDE DEF R
  <2>1. k + 1 \in Nat
    BY <1>2
  <2>2. u = t
    BY <1>5, <1>7, <1>8, <1>9, <2>1, AscendingUnique
  <2>. QED BY <2>2 DEF u, t, s, R

-----------------------------------------------------------------------------
(* filter *)

LEMMA PositionsDef ==
    ASSUME NEW X, NEW s \in Seq(X), NEW S
    PROVE  /\ Positions(s, S) \in SUBSET (1..Len(s))
           /\ IsFiniteSet(Positions(s, S))
           /\ Cardinality(Positions(s, S)) \in Nat
<1>1. Positions(s, S) \in SUBSET (1..Len(s)) /\ Len(s) \in Nat
  BY DEF Positions
<1>. QED BY <1>1, SubsetOfInterval

\* Where in s the elements that filter keeps were.
KeptAt(kept, s, S) ==
    /\ kept \in [1..Len(Select(s, S)) -> Positions(s, S)]
    /\ IsAscending(kept)
    /\ ToSet(kept) = Positions(s, S)
    /\ \A k \in 1..Len(Select(s, S)) : Select(s, S)[k] = s[kept[k]]

\* Filter keeps what it selects, and its order.
LEMMA SelectDef ==
    ASSUME NEW X, NEW s \in Seq(X), NEW S
    PROVE  /\ Select(s, S) \in Seq(X \cap S)
           /\ Select(s, S) \in Seq(X)
           /\ Len(Select(s, S)) = Cardinality(Positions(s, S))
           /\ \E kept : KeptAt(kept, s, S)
<1>. DEFINE P == Positions(s, S)
            kept == Ascending(P)
            k == Cardinality(P)
            t == Select(s, S)
<1>1. P \in SUBSET (1..Len(s)) /\ k \in Nat /\ Len(s) \in Nat
  BY PositionsDef
<1>. HIDE DEF P
<1>2. /\ kept \in [1..k -> P] /\ DOMAIN kept = 1..k
      /\ IsAscending(kept) /\ ToSet(kept) = P
  BY <1>1, AscendingDef
<1>. HIDE DEF kept
<1>3. t = [i \in 1..k |-> s[kept[i]]]
  BY <1>2 DEF Select, kept, P
<1>4. \A i \in 1..k : s[kept[i]] \in X \cap S
  <2>1. \A i \in P : s[i] \in X \cap S
    BY DEF P, Positions
  <2>. QED BY <1>2, <2>1
<1>5. t \in Seq(X \cap S) /\ t \in Seq(X) /\ Len(t) = k
  <2>. HIDE DEF t, k
  <2>. QED BY <1>1, <1>3, <1>4
<1>6. \A i \in 1..k : t[i] = s[kept[i]]
  BY <1>3
<1>7. KeptAt(kept, s, S)
  <2>. HIDE DEF t
  <2>. QED BY <1>2, <1>5, <1>6 DEF KeptAt, P, t
<1>. QED BY <1>5, <1>7 DEF P

LEMMA SelectEmpty ==
    ASSUME NEW S
    PROVE  Select(<< >>, S) = << >>
<1>1. Positions(<< >>, S) = {}
  BY DEF Positions
<1>2. Cardinality(Positions(<< >>, S)) = 0
  BY <1>1, FS_EmptySet
<1>3. Len(Select(<< >>, S)) = 0 /\ Select(<< >>, S) \in Seq(S)
  <2>1. << >> \in Seq(S)
    OBVIOUS
  <2>2. Select(<< >>, S) \in Seq(S) /\ Len(Select(<< >>, S)) = 0
    BY <1>2, <2>1, SelectDef
  <2>. QED BY <2>2
<1>. QED BY <1>3

LEMMA SelectAppend ==
    ASSUME NEW X, NEW s \in Seq(X), NEW x \in X, NEW S
    PROVE  Select(Append(s, x), S)
             = IF x \in S THEN Append(Select(s, S), x) ELSE Select(s, S)
<1>. DEFINE u == Append(s, x)
            n == Len(s)
            P == Positions(s, S)
            Q == Positions(u, S)
            kept == Ascending(P)
            k == Cardinality(P)
<1>1. /\ u \in Seq(X) /\ n \in Nat /\ DOMAIN s = 1..n
      /\ DOMAIN u = 1..(n + 1) /\ u[n + 1] = x
      /\ \A i \in 1..n : u[i] = s[i]
  OBVIOUS
<1>. HIDE DEF u, n
<1>2. P \in SUBSET (1..n) /\ k \in Nat
  BY PositionsDef DEF n
<1>3. \A i \in 1..(n + 1) : i = n + 1 \/ i \in 1..n
  BY <1>1
<1>4. Q = IF x \in S THEN P \cup {n + 1} ELSE P
  BY <1>1, <1>3 DEF Positions
<1>. HIDE DEF P, Q
<1>5. /\ kept \in [1..k -> P] /\ kept \in Seq(P) /\ Len(kept) = k
      /\ DOMAIN kept = 1..k
  BY <1>1, <1>2, AscendingDef
<1>6. Select(s, S) = [i \in 1..k |-> s[kept[i]]]
  BY <1>5 DEF Select, P
<1>7. \A i \in 1..k : kept[i] \in 1..n /\ s[kept[i]] \in X
  <2>. HIDE DEF kept, k
  <2>1. \A i \in 1..k : kept[i] \in 1..n
    BY <1>2, <1>5
  <2>2. \A i \in 1..n : s[i] \in X
    BY DEF n
  <2>. QED BY <2>1, <2>2
<1>8. CASE x \notin S
  <2>1. Select(u, S) = [i \in 1..k |-> u[kept[i]]]
    BY <1>4, <1>5, <1>8 DEF Select, Q
  <2>2. \A i \in 1..k : u[kept[i]] = s[kept[i]]
    BY <1>1, <1>7
  <2>. QED BY <1>6, <1>8, <2>1, <2>2 DEF u
<1>9. CASE x \in S
  <2>1. Ascending(Q) = Append(kept, n + 1)
    BY <1>1, <1>2, <1>4, <1>9, AscendingAppend
  <2>. HIDE DEF kept, k
  <2>2. DOMAIN Append(kept, n + 1) = 1..(k + 1)
        /\ Append(kept, n + 1)[k + 1] = n + 1
        /\ \A i \in 1..k : Append(kept, n + 1)[i] = kept[i]
    BY <1>2, <1>5
  <2>3. Select(u, S)
          = [i \in 1..(k + 1) |-> u[Append(kept, n + 1)[i]]]
    BY <2>1, <2>2 DEF Select, Q
  <2>4. \A i \in 1..(k + 1) :
          u[Append(kept, n + 1)[i]] = IF i = k + 1 THEN x ELSE s[kept[i]]
    <3>1. \A i \in 1..(k + 1) : i = k + 1 \/ i \in 1..k
      BY <1>2
    <3>2. \A i \in 1..k : i # k + 1 /\ u[kept[i]] = s[kept[i]]
      BY <1>1, <1>2, <1>7
    <3>3. ASSUME NEW i \in 1..(k + 1)
          PROVE  u[Append(kept, n + 1)[i]] = IF i = k + 1 THEN x ELSE s[kept[i]]
      <4>1. CASE i = k + 1
        BY <1>1, <2>2, <4>1
      <4>2. CASE i \in 1..k
        <5>1. Append(kept, n + 1)[i] = kept[i]
          BY <2>2, <4>2
        <5>2. i # k + 1 /\ u[kept[i]] = s[kept[i]]
          BY <3>2, <4>2
        <5>. QED BY <5>1, <5>2
      <4>. QED BY <3>1, <4>1, <4>2
    <3>. QED BY <3>3
  <2>. DEFINE t == [i \in 1..k |-> s[kept[i]]]
              v == [i \in 1..(k + 1) |-> IF i = k + 1 THEN x ELSE s[kept[i]]]
  <2>5. t \in Seq(X) /\ Len(t) = k
    BY <1>2, <1>7
  <2>6. v \in Seq(X) /\ Len(v) = k + 1 /\ v[k + 1] = x
        /\ \A i \in 1..k : v[i] = t[i]
    BY <1>2, <1>7
  <2>7. Select(u, S) = v
    BY <2>3, <2>4
  <2>. HIDE DEF t, v
  <2>8. v = Append(t, x)
    <3>1. Append(t, x) \in Seq(X) /\ Len(Append(t, x)) = k + 1
          /\ Append(t, x)[k + 1] = x /\ \A i \in 1..k : Append(t, x)[i] = t[i]
      BY <1>2, <2>5
    <3>2. \A i \in 1..(k + 1) : v[i] = Append(t, x)[i]
      BY <1>2, <2>6, <3>1
    <3>. QED BY <2>6, <3>1, <3>2
  <2>. QED BY <1>6, <1>9, <2>7, <2>8 DEF u, t
<1>. QED BY <1>8, <1>9

-----------------------------------------------------------------------------
(* Counting: what one sequence holds, another holds too *)

\* The members of W in s occur in u, each at a place of its own.
Places(f, s, u, W) ==
    /\ f \in [Positions(s, W) -> Positions(u, W)]
    /\ \A i, j \in Positions(s, W) : f[i] = f[j] => i = j
    /\ \A i \in Positions(s, W) : u[f[i]] = s[i]

Within(s, u, W) == \E f : Places(f, s, u, W)

LEMMA WithinCount ==
    ASSUME NEW X, NEW s \in Seq(X), NEW u \in Seq(X), NEW W, Within(s, u, W)
    PROVE  /\ Cardinality(Positions(s, W)) <= Cardinality(Positions(u, W))
           /\ ToSet(s) \cap W \subseteq ToSet(u)
<1>1. PICK f : Places(f, s, u, W)
  BY DEF Within
<1>2. IsFiniteSet(Positions(s, W)) /\ IsFiniteSet(Positions(u, W))
  BY PositionsDef
<1>3. f \in Injection(Positions(s, W), Positions(u, W))
  BY <1>1 DEF Places, Injection, IsInjective
<1>4. Cardinality(Positions(s, W)) <= Cardinality(Positions(u, W))
  BY <1>2, <1>3, FS_Injection
<1>5. ToSet(s) \cap W \subseteq ToSet(u)
  <2>1. SUFFICES ASSUME NEW i \in DOMAIN s, s[i] \in W
                 PROVE  s[i] \in ToSet(u)
    BY DEF ToSet
  <2>2. i \in Positions(s, W)
    BY <2>1 DEF Positions
  <2>3. f[i] \in Positions(u, W) /\ u[f[i]] = s[i]
    BY <1>1, <2>2 DEF Places
  <2>4. f[i] \in DOMAIN u
    BY <2>3 DEF Positions
  <2>. QED BY <2>3, <2>4 DEF ToSet
<1>. QED BY <1>4, <1>5

LEMMA WithinNarrow ==
    ASSUME NEW s, NEW u, NEW W, NEW V, Within(s, u, W),
           \A i \in DOMAIN s : s[i] \in V => s[i] \in W
    PROVE  Within(s, u, V)
<1>1. PICK f : Places(f, s, u, W)
  BY DEF Within
<1>. DEFINE g == [i \in Positions(s, V) |-> f[i]]
<1>2. Positions(s, V) \subseteq Positions(s, W)
  BY DEF Positions
<1>3. \A i \in Positions(s, V) : f[i] \in Positions(u, V)
  <2>1. SUFFICES ASSUME NEW i \in Positions(s, V)
                 PROVE  f[i] \in Positions(u, V)
    OBVIOUS
  <2>2. f[i] \in Positions(u, W) /\ u[f[i]] = s[i]
    BY <1>1, <1>2 DEF Places
  <2>. QED BY <2>2 DEF Positions
<1>4. Places(g, s, u, V)
  BY <1>1, <1>2, <1>3 DEF Places
<1>. QED BY <1>4 DEF Within

LEMMA WithinTransitive ==
    ASSUME NEW s, NEW u, NEW v, NEW W, Within(s, u, W), Within(u, v, W)
    PROVE  Within(s, v, W)
<1>1. PICK f : Places(f, s, u, W)
  BY DEF Within
<1>2. PICK g : Places(g, u, v, W)
  BY DEF Within
<1>. DEFINE h == [i \in Positions(s, W) |-> g[f[i]]]
<1>3. \A i \in Positions(s, W) : f[i] \in Positions(u, W) /\ u[f[i]] = s[i]
  BY <1>1 DEF Places
<1>4. h \in [Positions(s, W) -> Positions(v, W)]
  BY <1>2, <1>3 DEF Places
<1>5. \A i \in Positions(s, W) : v[h[i]] = s[i]
  BY <1>2, <1>3 DEF Places
<1>6. ASSUME NEW i \in Positions(s, W), NEW j \in Positions(s, W), h[i] = h[j]
      PROVE  i = j
  <2>1. f[i] = f[j]
    BY <1>2, <1>3, <1>6 DEF Places
  <2>. QED BY <1>1, <2>1 DEF Places
<1>. HIDE DEF h
<1>7. Places(h, s, v, W)
  BY <1>4, <1>5, <1>6 DEF Places
<1>. QED BY <1>7 DEF Within

\* A map of places that no two share, given outright.
LEMMA WithinBy ==
    ASSUME NEW s, NEW u, NEW W, NEW f,
           \A i \in DOMAIN s : f[i] \in DOMAIN u /\ u[f[i]] = s[i],
           \A i, j \in DOMAIN s : f[i] = f[j] => i = j
    PROVE  Within(s, u, W)
<1>. DEFINE g == [i \in Positions(s, W) |-> f[i]]
<1>1. Places(g, s, u, W)
  BY DEF Places, Positions
<1>. QED BY <1>1 DEF Within

LEMMA AppendWithin ==
    ASSUME NEW X, NEW s \in Seq(X), NEW x \in X, NEW W
    PROVE  Within(s, s, W) /\ Within(s, Append(s, x), W)
<1>. DEFINE f == [i \in DOMAIN s |-> i]
<1>1. \A i \in DOMAIN s : i \in DOMAIN Append(s, x) /\ Append(s, x)[i] = s[i]
  OBVIOUS
<1>2. /\ \A i \in DOMAIN s : f[i] \in DOMAIN s /\ s[f[i]] = s[i]
      /\ \A i \in DOMAIN s :
           f[i] \in DOMAIN Append(s, x) /\ Append(s, x)[f[i]] = s[i]
      /\ \A i, j \in DOMAIN s : f[i] = f[j] => i = j
  BY <1>1
<1>. HIDE DEF f
<1>3. Within(s, s, W)
  BY <1>2, WithinBy
<1>4. Within(s, Append(s, x), W)
  BY <1>2, WithinBy
<1>. QED BY <1>3, <1>4

LEMMA SubSeqDef ==
    ASSUME NEW X, NEW s \in Seq(X), NEW a \in Nat, NEW b \in 0..Len(s)
    PROVE  /\ SubSeq(s, a + 1, b) \in Seq(X)
           /\ Len(SubSeq(s, a + 1, b)) = (IF a + 1 <= b THEN b - a ELSE 0)
           /\ \A i \in 1..(b - a) : SubSeq(s, a + 1, b)[i] = s[i + a]
<1>. DEFINE t == SubSeq(s, a + 1, b)
<1>1. \A i \in (a + 1)..b : s[i] \in X
  OBVIOUS
<1>2. a + 1 \in Int /\ b \in Int /\ b - (a + 1) + 1 = b - a
      /\ \A i \in 1..(b - a) : (a + 1) + i - 1 = i + a
  OBVIOUS
<1>3. /\ t \in Seq(X)
      /\ Len(t) = (IF a + 1 <= b THEN b - (a + 1) + 1 ELSE 0)
      /\ \A i \in 1..(b - (a + 1) + 1) : t[i] = s[(a + 1) + i - 1]
  BY <1>1, <1>2, SubSeqProperties
<1>. HIDE DEF t
<1>4. /\ t \in Seq(X)
      /\ Len(t) = (IF a + 1 <= b THEN b - a ELSE 0)
      /\ \A i \in 1..(b - a) : t[i] = s[i + a]
  BY <1>2, <1>3
<1>. QED BY <1>4 DEF t

LEMMA SubSeqWithin ==
    ASSUME NEW X, NEW s \in Seq(X), NEW a \in Nat, NEW b \in 0..Len(s), NEW W
    PROVE  Within(SubSeq(s, a + 1, b), s, W)
<1>. DEFINE t == SubSeq(s, a + 1, b)
            f == [i \in DOMAIN t |-> i + a]
<1>1. \A i \in DOMAIN t : i \in Nat /\ i + a \in DOMAIN s /\ t[i] = s[i + a]
  <2>1. /\ t \in Seq(X)
        /\ Len(t) = (IF a + 1 <= b THEN b - a ELSE 0)
        /\ \A i \in 1..(b - a) : t[i] = s[i + a]
    BY SubSeqDef
  <2>2. Len(s) \in Nat /\ DOMAIN s = 1..Len(s)
    OBVIOUS
  <2>. HIDE DEF t
  <2>3. DOMAIN t = 1..Len(t)
    BY <2>1
  <2>. QED BY <2>1, <2>2, <2>3
<1>. HIDE DEF t
<1>2. /\ \A i \in DOMAIN t : f[i] \in DOMAIN s /\ s[f[i]] = t[i]
      /\ \A i, j \in DOMAIN t : f[i] = f[j] => i = j
  <2>1. \A i \in DOMAIN t : f[i] = i + a
    OBVIOUS
  <2>2. \A i, j \in DOMAIN t : i + a = j + a => i = j
    BY <1>1
  <2>. HIDE DEF f
  <2>. QED BY <1>1, <2>1, <2>2
<1>. HIDE DEF f
<1>3. Within(t, s, W)
  BY <1>2, WithinBy
<1>. QED BY <1>3 DEF t

\* What filter returns occurs in what it is given...
LEMMA SelectWithin ==
    ASSUME NEW X, NEW s \in Seq(X), NEW S, NEW W
    PROVE  Within(Select(s, S), s, W)
<1>. DEFINE t == Select(s, S)
            n == Len(t)
<1>0. t \in Seq(X)
  BY SelectDef
<1>k. PICK kept : KeptAt(kept, s, S)
  BY SelectDef
<1>1. /\ kept \in [1..n -> Positions(s, S)]
      /\ IsAscending(kept)
      /\ \A k \in 1..n : t[k] = s[kept[k]]
  BY <1>k DEF KeptAt
<1>. HIDE DEF t
<1>2. DOMAIN t = 1..n /\ DOMAIN kept = 1..n /\ n \in Nat
  BY <1>0, <1>1
<1>. HIDE DEF n
<1>3. Positions(s, S) \subseteq DOMAIN s /\ Positions(s, S) \subseteq Int
  BY DEF Positions
<1>4. \A i \in DOMAIN t : kept[i] \in DOMAIN s /\ s[kept[i]] = t[i]
  BY <1>1, <1>2, <1>3
<1>5. ASSUME NEW i \in DOMAIN t, NEW j \in DOMAIN t, kept[i] = kept[j]
      PROVE  i = j
  <2>1. kept[i] \in Int /\ kept[j] \in Int
    BY <1>1, <1>2, <1>3
  <2>2. ~(i < j) /\ ~(j < i)
    BY <1>1, <1>2, <1>5, <2>1 DEF IsAscending
  <2>. QED BY <1>2, <2>2
<1>6. Within(t, s, W)
  BY <1>4, <1>5, WithinBy
<1>. QED BY <1>6 DEF t

\* ... and loses nothing of what it selects.
LEMMA WithinSelect ==
    ASSUME NEW X, NEW s \in Seq(X), NEW S
    PROVE  Within(s, Select(s, S), S)
<1>. DEFINE t == Select(s, S)
            P == Positions(s, S)
            n == Len(t)
<1>0. t \in Seq(X \cap S)
  BY SelectDef
<1>k. PICK kept : KeptAt(kept, s, S)
  BY SelectDef
<1>1. /\ kept \in [1..n -> P]
      /\ ToSet(kept) = P
      /\ \A k \in 1..n : t[k] = s[kept[k]]
  BY <1>k DEF KeptAt
<1>. DEFINE f == [i \in P |-> CHOOSE k \in 1..n : kept[k] = i]
<1>. HIDE DEF t
<1>2. DOMAIN t = 1..n /\ DOMAIN kept = 1..n
      /\ \A k \in 1..n : t[k] \in S
  BY <1>0, <1>1
<1>. HIDE DEF n, P
<1>3. \A i \in P : f[i] \in 1..n /\ kept[f[i]] = i
  <2>1. SUFFICES ASSUME NEW i \in P
                 PROVE  \E k \in 1..n : kept[k] = i
    OBVIOUS
  <2>. QED BY <1>1, <1>2 DEF ToSet
<1>4. f \in [P -> Positions(t, S)]
  <2>1. \A i \in P : f[i] \in Positions(t, S)
    BY <1>2, <1>3 DEF Positions
  <2>. QED BY <2>1
<1>. HIDE DEF f
<1>5. Places(f, s, t, S)
  BY <1>1, <1>3, <1>4 DEF Places, P
<1>. QED BY <1>5 DEF Within, t

LEMMA FilterWithin ==
    ASSUME NEW X, NEW s \in Seq(X), NEW u \in Seq(X), NEW S, NEW W,
           Within(s, u, S)
    PROVE  Within(Select(s, S), Select(u, S), W)
<1>1. Within(Select(s, S), s, S)
  BY SelectWithin
<1>2. Within(u, Select(u, S), S)
  BY WithinSelect
<1>3. Within(Select(s, S), Select(u, S), S)
  <2>1. Within(Select(s, S), u, S)
    BY <1>1, WithinTransitive
  <2>. QED BY <1>2, <2>1, WithinTransitive
<1>4. \A i \in DOMAIN Select(s, S) : Select(s, S)[i] \in S
  <2>1. Select(s, S) \in Seq(X \cap S)
    BY SelectDef
  <2>. QED BY <2>1
<1>. QED BY <1>3, <1>4, WithinNarrow

-----------------------------------------------------------------------------
(* sum *)

LEMMA PartialSumsDef ==
    ASSUME NEW terms \in Seq(Int)
    PROVE  /\ PartialSums(terms) \in [0..Len(terms) -> Int]
           /\ PartialSums(terms)[0] = 0
           /\ \A n \in 1..Len(terms) :
                PartialSums(terms)[n] = PartialSums(terms)[n - 1] + terms[n]
<1>. DEFINE m == Len(terms)
            step == [x \in Nat \X Int |-> x[2] + terms[x[1]]]
            Sums(g) == g = [n \in 0..m |->
                              IF n = 0 THEN 0 ELSE g[n - 1] + terms[n]]
            f == CHOOSE g : Sums(g)
<1>1. m \in Nat /\ \A i \in 1..m : terms[i] \in Int
  OBVIOUS
<1>. HIDE DEF m
<1>2. \A i \in 1..m, d \in Int : step[<<i, d>>] = d + terms[i]
  BY <1>1
<1>. HIDE DEF step
<1>c. PICK g : Chain(g, Int, 0, step, m)
  <2>1. ASSUME NEW i \in 1..m, NEW d \in Int
        PROVE  step[<<i, d>>] \in Int
    <3>1. step[<<i, d>>] = d + terms[i] /\ terms[i] \in Int
      BY <1>1, <1>2
    <3>. QED BY <3>1
  <2>2. \A i \in 1..m, d \in Int : step[<<i, d>>] \in Int
    BY <2>1
  <2>3. 0 \in Int
    OBVIOUS
  <2>. QED BY <1>1, <2>2, <2>3, ChainExists
<1>3. /\ g \in [0..m -> Int] /\ g[0] = 0
      /\ \A i \in 1..m : g[i] = step[<<i, g[i - 1]>>]
  BY <1>c DEF Chain
<1>4. \A i \in 1..m : g[i - 1] \in Int /\ g[i] = g[i - 1] + terms[i]
  <2>1. \A i \in 1..m : i - 1 \in 0..m
    BY <1>1
  <2>. QED BY <1>2, <1>3, <2>1
<1>5. Sums(g)
  <2>1. \A n \in 0..m : g[n] = IF n = 0 THEN 0 ELSE g[n - 1] + terms[n]
    BY <1>1, <1>3, <1>4
  <2>. QED BY <1>3, <2>1
<1>6. PartialSums(terms) = f
  BY DEF PartialSums, m
<1>7. Sums(f)
  <2>. HIDE DEF Sums
  <2>. QED BY <1>5
<1>. HIDE DEF f
<1>8. DOMAIN f = 0..m /\ f[0] = 0
      /\ \A n \in 1..m : f[n] = f[n - 1] + terms[n]
  <2>1. 0 \in 0..m /\ \A n \in 1..m : n \in 0..m /\ n # 0
    BY <1>1
  <2>. QED BY <1>7, <2>1
<1>9. \A n \in 0..m : f[n] \in Int
  <2>. DEFINE Good == {n \in Nat : n <= m => f[n] \in Int}
  <2>1. 0 \in Good
    BY <1>8
  <2>2. ASSUME NEW n \in Nat, n \in Good
        PROVE  n + 1 \in Good
    <3>1. SUFFICES ASSUME n + 1 <= m
                   PROVE  f[n + 1] \in Int
      OBVIOUS
    <3>2. n + 1 \in 1..m /\ (n + 1) - 1 = n /\ f[n] \in Int
      BY <1>1, <2>2, <3>1
    <3>3. f[n + 1] = f[n] + terms[n + 1]
      BY <1>8, <3>2
    <3>. QED BY <1>1, <3>2, <3>3
  <2>3. Nat \subseteq Good
    <3>. HIDE DEF Good
    <3>. QED BY <2>1, <2>2, NatSetInduction
  <2>. QED BY <1>1, <2>3
<1>10. f \in [0..m -> Int]
  BY <1>7, <1>9
<1>. QED BY <1>6, <1>8, <1>10 DEF m

\* A sum does not depend on the order of two neighbours.
LEMMA TotalSwap ==
    ASSUME NEW s \in Seq(Int), NEW u \in Seq(Int), Len(u) = Len(s),
           NEW i \in 1..(Len(s) - 1), u[i] = s[i + 1], u[i + 1] = s[i],
           \A j \in 1..Len(s) : j # i /\ j # i + 1 => u[j] = s[j]
    PROVE  Total(s) = Total(u)
<1>. DEFINE m == Len(s)
            p == PartialSums(s)
            q == PartialSums(u)
            Same == {n \in Nat : n <= m /\ n # i => p[n] = q[n]}
<1>1. m \in Nat /\ \A j \in 1..m : s[j] \in Int /\ u[j] \in Int
  OBVIOUS
<1>2. /\ p \in [0..m -> Int] /\ p[0] = 0 /\ q \in [0..m -> Int] /\ q[0] = 0
      /\ \A n \in 1..m : p[n] = p[n - 1] + s[n] /\ q[n] = q[n - 1] + u[n]
  BY PartialSumsDef
<1>3. i \in Nat /\ 1 <= i /\ i + 1 <= m
  BY <1>1
<1>4. \A j \in 1..m : j # i /\ j # i + 1 => u[j] = s[j]
  OBVIOUS
<1>5. \A n \in 0..m : p[n] \in Int /\ q[n] \in Int
  BY <1>2
<1>. HIDE DEF m, p, q
<1>6. 0 \in Same
  BY <1>2
<1>7. ASSUME NEW n \in Nat, n \in Same
      PROVE  n + 1 \in Same
  <2>1. SUFFICES ASSUME n + 1 <= m, n + 1 # i
                 PROVE  p[n + 1] = q[n + 1]
    OBVIOUS
  <2>2. n + 1 \in 1..m /\ (n + 1) - 1 = n /\ n \in 0..m
    BY <1>1, <2>1
  <2>3. p[n + 1] = p[n] + s[n + 1] /\ q[n + 1] = q[n] + u[n + 1]
    BY <1>2, <2>2
  <2>4. CASE n # i
    <3>1. p[n] = q[n]
      BY <1>1, <1>7, <2>1, <2>4
    <3>2. n + 1 # i + 1
      BY <1>3, <2>4
    <3>. QED BY <1>4, <2>1, <2>2, <2>3, <3>1, <3>2
  <2>5. CASE n = i
    <3>1. i - 1 \in Nat /\ i - 1 \in 0..m /\ i \in 1..m
      BY <1>1, <1>3
    <3>2. p[n] = p[i - 1] + s[i] /\ q[n] = q[i - 1] + u[i]
      BY <1>2, <2>5, <3>1
    <3>3. \A j \in 0..(i - 1) : p[j] = q[j]
      <4>. DEFINE Low == {j \in Nat : j < i => p[j] = q[j]}
      <4>1. 0 \in Low
        BY <1>2
      <4>2. ASSUME NEW j \in Nat, j \in Low
            PROVE  j + 1 \in Low
        <5>1. SUFFICES ASSUME j + 1 < i
                       PROVE  p[j + 1] = q[j + 1]
          OBVIOUS
        <5>2. j + 1 \in 1..m /\ (j + 1) - 1 = j /\ p[j] = q[j]
          <6>1. m \in Nat /\ i \in Nat /\ i + 1 <= m
            BY <1>1, <1>3
          <6>2. j < i /\ j + 1 \in 1..m /\ (j + 1) - 1 = j
            BY <5>1, <6>1
          <6>. QED BY <4>2, <6>2
        <5>3. p[j + 1] = p[j] + s[j + 1] /\ q[j + 1] = q[j] + u[j + 1]
          BY <1>2, <5>2
        <5>4. u[j + 1] = s[j + 1]
          BY <1>3, <1>4, <5>1, <5>2
        <5>. QED BY <5>2, <5>3, <5>4
      <4>3. Nat \subseteq Low
        <5>. HIDE DEF Low
        <5>. QED BY <4>1, <4>2, NatSetInduction
      <4>. QED BY <1>3, <4>3
    <3>4. p[i - 1] = q[i - 1] /\ p[i - 1] \in Int
      BY <1>5, <3>1, <3>3
    <3>5. s[i] \in Int /\ s[i + 1] \in Int
      BY <1>1, <1>3
    <3>. QED BY <2>3, <2>5, <3>2, <3>4, <3>5
  <2>. QED BY <2>4, <2>5
<1>8. m \in Same
  <2>. HIDE DEF Same
  <2>. QED BY <1>1, <1>6, <1>7, NatSetInduction
<1>9. p[m] = q[m]
  BY <1>1, <1>3, <1>8
<1>. QED BY <1>9 DEF Total, m, p, q

\* Larger terms, and more of them, have a larger sum.
LEMMA TotalGrows ==
    ASSUME NEW s \in Seq(Nat), NEW u \in Seq(Nat), Len(s) <= Len(u),
           \A i \in 1..Len(s) : s[i] <= u[i]
    PROVE  Total(s) \in Nat /\ Total(u) \in Nat /\ Total(s) <= Total(u)
<1>. DEFINE m == Len(s)
            k == Len(u)
            p == PartialSums(s)
            q == PartialSums(u)
<1>1. /\ m \in Nat /\ k \in Nat /\ m <= k
      /\ \A i \in 1..m : s[i] \in Nat /\ s[i] <= u[i]
      /\ \A i \in 1..k : u[i] \in Nat
  OBVIOUS
<1>2. s \in Seq(Int) /\ u \in Seq(Int)
  OBVIOUS
<1>3. /\ p[0] = 0 /\ \A n \in 1..m : p[n] = p[n - 1] + s[n]
      /\ q[0] = 0 /\ \A n \in 1..k : q[n] = q[n - 1] + u[n]
  BY <1>2, PartialSumsDef
<1>. HIDE DEF m, k, p, q
<1>4. \A n \in 0..m : p[n] \in Nat /\ q[n] \in Nat /\ p[n] <= q[n]
  <2>. DEFINE Good == {n \in 0..m : p[n] \in Nat /\ q[n] \in Nat /\ p[n] <= q[n]}
  <2>1. 0 \in Good
    BY <1>1, <1>3
  <2>2. ASSUME NEW n \in 0..(m - 1), n \in Good
        PROVE  n + 1 \in Good
    <3>1. /\ n + 1 \in 1..m /\ n + 1 \in 1..k /\ n + 1 \in 0..m
          /\ (n + 1) - 1 = n
      BY <1>1
    <3>2. p[n + 1] = p[n] + s[n + 1] /\ q[n + 1] = q[n] + u[n + 1]
      BY <1>3, <3>1
    <3>3. /\ s[n + 1] \in Nat /\ u[n + 1] \in Nat /\ s[n + 1] <= u[n + 1]
          /\ p[n] \in Nat /\ q[n] \in Nat /\ p[n] <= q[n]
      BY <1>1, <2>2, <3>1
    <3>4. /\ p[n + 1] \in Nat /\ q[n + 1] \in Nat
          /\ p[n + 1] <= q[n + 1]
      <4>. DEFINE a == p[n]
                  b == q[n]
                  c == s[n + 1]
                  d == u[n + 1]
      <4>1. a \in Nat /\ b \in Nat /\ c \in Nat /\ d \in Nat /\ a <= b /\ c <= d
        BY <3>3
      <4>. HIDE DEF a, b, c, d
      <4>2. a + c \in Nat /\ b + d \in Nat /\ a + c <= b + d
        BY <4>1
      <4>. QED BY <3>2, <4>2 DEF a, b, c, d
    <3>. QED BY <3>1, <3>4
  <2>3. \A n \in 0..m : n \in Good
    <3>. HIDE DEF Good
    <3>. QED BY <1>1, <2>1, <2>2, BoundedInduction
  <2>. QED BY <2>3
<1>5. \A n \in 0..k : n >= m => q[n] \in Nat /\ q[m] <= q[n]
  <2>. DEFINE Good == {n \in 0..k : n >= m => q[n] \in Nat /\ q[m] <= q[n]}
  <2>0. m \in 0..m /\ q[m] \in Nat
    BY <1>1, <1>4
  <2>1. 0 \in Good
    <3>1. 0 >= m => m = 0
      BY <1>1
    <3>. QED BY <1>1, <2>0, <3>1
  <2>2. ASSUME NEW n \in 0..(k - 1), n \in Good
        PROVE  n + 1 \in Good
    <3>1. n + 1 \in 1..k /\ n + 1 \in 0..k /\ (n + 1) - 1 = n
      BY <1>1
    <3>2. q[n + 1] = q[n] + u[n + 1] /\ u[n + 1] \in Nat
      BY <1>1, <1>3, <3>1
    <3>3. n + 1 = m \/ (n + 1 >= m => n >= m)
      BY <1>1
    <3>4. CASE n + 1 = m
      BY <2>0, <3>1, <3>4
    <3>5. CASE n >= m
      BY <2>0, <2>2, <3>1, <3>2, <3>5
    <3>6. CASE ~(n + 1 >= m)
      BY <3>1, <3>6
    <3>. QED BY <3>3, <3>4, <3>5, <3>6
  <2>3. \A n \in 0..k : n \in Good
    <3>. HIDE DEF Good
    <3>. QED BY <1>1, <2>1, <2>2, BoundedInduction
  <2>. QED BY <2>3
<1>6. p[m] \in Nat /\ q[k] \in Nat /\ p[m] <= q[k]
  <2>1. p[m] \in Nat /\ q[m] \in Nat /\ p[m] <= q[m]
    BY <1>1, <1>4
  <2>2. q[k] \in Nat /\ q[m] <= q[k]
    BY <1>1, <1>5
  <2>. QED BY <2>1, <2>2
<1>. QED BY <1>6 DEF Total, m, k, p, q

-----------------------------------------------------------------------------
(* Greatest elements *)

LEMMA MaxExists ==
    ASSUME NEW S \in SUBSET Int, IsFiniteSet(S), S # {}
    PROVE  \E x \in S : \A y \in S : x >= y
<1>. DEFINE Good == {n \in Nat : \A R \in SUBSET Int :
                       IsFiniteSet(R) /\ Cardinality(R) = n + 1 =>
                         \E x \in R : \A y \in R : x >= y}
<1>1. ASSUME NEW R \in SUBSET Int, IsFiniteSet(R), NEW n \in Nat,
             Cardinality(R) = n + 1
      PROVE  \E x \in R : IsFiniteSet(R \ {x}) /\ Cardinality(R \ {x}) = n
  <2>1. R # {}
    BY <1>1, FS_EmptySet
  <2>2. PICK x \in R : TRUE
    BY <2>1
  <2>3. IsFiniteSet(R \ {x}) /\ Cardinality(R \ {x}) = Cardinality(R) - 1
    BY <1>1, FS_RemoveElement
  <2>4. Cardinality(R \ {x}) = n
    BY <1>1, <2>3
  <2>. QED BY <2>3, <2>4
<1>2. 0 \in Good
  <2>1. SUFFICES ASSUME NEW R \in SUBSET Int, IsFiniteSet(R), Cardinality(R) = 1
                 PROVE  \E x \in R : \A y \in R : x >= y
    OBVIOUS
  <2>2. PICK x \in R : IsFiniteSet(R \ {x}) /\ Cardinality(R \ {x}) = 0
    BY <1>1, <2>1
  <2>3. R \ {x} = {}
    BY <2>2, FS_EmptySet
  <2>4. \A y \in R : y = x
    BY <2>3
  <2>. QED BY <2>4
<1>3. ASSUME NEW n \in Nat, n \in Good
      PROVE  n + 1 \in Good
  <2>1. SUFFICES ASSUME NEW R \in SUBSET Int, IsFiniteSet(R),
                        Cardinality(R) = (n + 1) + 1
                 PROVE  \E x \in R : \A y \in R : x >= y
    OBVIOUS
  <2>2. PICK z \in R : IsFiniteSet(R \ {z}) /\ Cardinality(R \ {z}) = n + 1
    BY <1>1, <2>1
  <2>3. PICK x \in R \ {z} : \A y \in R \ {z} : x >= y
    BY <1>3, <2>2
  <2>4. CASE x >= z
    BY <2>3, <2>4
  <2>5. CASE z >= x
    <3>1. \A y \in R \ {z} : z >= y
      BY <2>3, <2>5
    <3>. QED BY <3>1
  <2>. QED BY <2>4, <2>5
<1>4. PICK n \in Nat : Cardinality(S) = n + 1
  <2>1. Cardinality(S) \in Nat /\ Cardinality(S) # 0
    BY FS_CardinalityType, FS_EmptySet
  <2>2. Cardinality(S) - 1 \in Nat /\ Cardinality(S) = (Cardinality(S) - 1) + 1
    BY <2>1
  <2>. QED BY <2>2
<1>5. n \in Good
  <2>. HIDE DEF Good
  <2>. QED BY <1>2, <1>3, NatSetInduction
<1>. QED BY <1>4, <1>5

=============================================================================
