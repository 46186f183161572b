---------------------- MODULE RulesOverHistory_proofs ----------------------
(***************************************************************************)
(* What a growing history changes in the rules of one transaction, for     *)
(* every history and every configuration.                                  *)
(***************************************************************************)
EXTENDS RulesOverHistory, RulesEngine_proofs

RulesType == tx \in Evaluated /\ history \in Seq(Recorded)

LEMMA RulesTypeInvariant == RulesSpec => []RulesType
<1>1. RulesInit => RulesType
  BY DEF RulesInit, RulesType
<1>2. RulesType /\ [RulesNext]_historyVars => RulesType'
  BY DEF RulesType, RulesNext, Record, historyVars
<1>. QED BY <1>1, <1>2, PTL DEF RulesSpec

LEMMA RecordedNumbers ==
    ASSUME RulesType
    PROVE  /\ tx.timestamp \in Int /\ tx.amount \in Int
           /\ \A h \in Recorded : h.timestamp \in Int /\ h.amount \in Int
BY RecordAssumption DEF RulesType

-----------------------------------------------------------------------------
(* The order of the history *)

\* Exchanging two neighbours of the history, and so any rearrangement of it,
\* changes no trigger: RulesEngine::evaluate may be handed the history in
\* whatever order concurrent requests recorded it.
THEOREM RulesIgnoreOrder == RulesSpec => []OrderIrrelevant
<1>1. RulesType => OrderIrrelevant
  <2>1. SUFFICES ASSUME RulesType, NEW i \in 1..(Len(history) - 1)
                 PROVE  evaluate(tx, Swapped(history, i), Flagged) = triggered
    BY DEF OrderIrrelevant, Swapped
  <2>. DEFINE s == history
              u == Swapped(history, i)
  <2>2. s \in Seq(Recorded)
    BY <2>1 DEF RulesType
  <2>3. /\ u \in Seq(Recorded)
        /\ Within(s, u, UpTo(tx, Recorded)) /\ Within(u, s, UpTo(tx, Recorded))
    BY <2>2, SwapWithin
  <2>4. unusual_asset_movement(tx, u) = unusual_asset_movement(tx, s)
    BY <2>1, <2>2, RecordedNumbers, UnusualSwapped
  <2>. HIDE DEF s, u
  <2>5. repeated_transaction(tx, u) = repeated_transaction(tx, s)
    <3>1. /\ repeated_transaction(tx, u) \subseteq repeated_transaction(tx, s)
          /\ repeated_transaction(tx, s) \subseteq repeated_transaction(tx, u)
      BY <2>2, <2>3, RepeatedGrows
    <3>. QED BY <3>1
  <2>6. abnormal_frequency(tx, u) = abnormal_frequency(tx, s)
    <3>1. /\ abnormal_frequency(tx, u) \subseteq abnormal_frequency(tx, s)
          /\ abnormal_frequency(tx, s) \subseteq abnormal_frequency(tx, u)
      BY <2>2, <2>3, FrequencyGrows
    <3>. QED BY <3>1
  <2>7. round_trip_wash_trading(tx, u) = round_trip_wash_trading(tx, s)
    <3>1. /\ round_trip_wash_trading(tx, u)
               \subseteq round_trip_wash_trading(tx, s)
          /\ round_trip_wash_trading(tx, s)
               \subseteq round_trip_wash_trading(tx, u)
      BY <2>2, <2>3, RoundTripGrows
    <3>. QED BY <3>1
  <2>8. cross_asset_rapid_conversion(tx, u) = cross_asset_rapid_conversion(tx, s)
    <3>1. /\ cross_asset_rapid_conversion(tx, u)
               \subseteq cross_asset_rapid_conversion(tx, s)
          /\ cross_asset_rapid_conversion(tx, s)
               \subseteq cross_asset_rapid_conversion(tx, u)
      BY <2>2, <2>3, CrossAssetGrows
    <3>. QED BY <3>1
  <2>9. new_account_high_value_outflow(tx, u)
          = new_account_high_value_outflow(tx, s)
    <3>1. /\ new_account_high_value_outflow(tx, u)
               \subseteq new_account_high_value_outflow(tx, s)
          /\ new_account_high_value_outflow(tx, s)
               \subseteq new_account_high_value_outflow(tx, u)
      BY <2>1, <2>2, <2>3, RecordedNumbers, NewAccountShrinks
    <3>. QED BY <3>1
  <2>10. dormant_account_reactivation(tx, u) = dormant_account_reactivation(tx, s)
    BY <2>1, <2>2, <2>3, RecordedNumbers, DormantSame
  <2>11. evaluate(tx, u, Flagged) = evaluate(tx, s, Flagged)
    BY <2>4, <2>5, <2>6, <2>7, <2>8, <2>9, <2>10 DEF evaluate
  <2>. QED BY <2>11 DEF triggered, s, u
<1>. QED BY <1>1, RulesTypeInvariant, PTL

-----------------------------------------------------------------------------
(* What happens after the transaction *)

\* What an account does after a transaction does not change how the rules
\* judge it, unusual_asset_movement apart: RuleContext.within_window and the
\* earlier-than comparisons keep later history out.
THEOREM LateEvaluationAgrees == RulesSpec => []LaterTransactionsIgnored
<1>1. RulesType => LaterTransactionsIgnored
  <2>1. SUFFICES ASSUME RulesType,
                        NEW id, id # "unusual_asset_movement"
                 PROVE  id \in RuleIds(triggered)
                          <=> id \in RuleIds(evaluate(tx,
                                       Select(history, UpTo(tx, Recorded)),
                                       Flagged))
    BY DEF LaterTransactionsIgnored, UpTo
  <2>. DEFINE s == history
              u == Select(history, UpTo(tx, Recorded))
  <2>2. s \in Seq(Recorded)
    BY <2>1 DEF RulesType
  <2>3. /\ u \in Seq(Recorded)
        /\ Within(s, u, UpTo(tx, Recorded)) /\ Within(u, s, UpTo(tx, Recorded))
    BY <2>2, SelectDef, SelectWithin, WithinSelect
  <2>. HIDE DEF s, u
  <2>4. Judged(tx, s, id) <=> Judged(tx, u, id)
    <3>1. /\ repeated_transaction(tx, u) \subseteq repeated_transaction(tx, s)
          /\ repeated_transaction(tx, s) \subseteq repeated_transaction(tx, u)
      BY <2>2, <2>3, RepeatedGrows
    <3>2. /\ abnormal_frequency(tx, u) \subseteq abnormal_frequency(tx, s)
          /\ abnormal_frequency(tx, s) \subseteq abnormal_frequency(tx, u)
      BY <2>2, <2>3, FrequencyGrows
    <3>3. /\ round_trip_wash_trading(tx, u)
               \subseteq round_trip_wash_trading(tx, s)
          /\ round_trip_wash_trading(tx, s)
               \subseteq round_trip_wash_trading(tx, u)
      BY <2>2, <2>3, RoundTripGrows
    <3>4. /\ cross_asset_rapid_conversion(tx, u)
               \subseteq cross_asset_rapid_conversion(tx, s)
          /\ cross_asset_rapid_conversion(tx, s)
               \subseteq cross_asset_rapid_conversion(tx, u)
      BY <2>2, <2>3, CrossAssetGrows
    <3>5. /\ new_account_high_value_outflow(tx, u)
               \subseteq new_account_high_value_outflow(tx, s)
          /\ new_account_high_value_outflow(tx, s)
               \subseteq new_account_high_value_outflow(tx, u)
      BY <2>1, <2>2, <2>3, RecordedNumbers, NewAccountShrinks
    <3>6. dormant_account_reactivation(tx, u) = dormant_account_reactivation(tx, s)
      BY <2>1, <2>2, <2>3, RecordedNumbers, DormantSame
    <3>. QED BY <2>1, <3>1, <3>2, <3>3, <3>4, <3>5, <3>6 DEF Judged
  <2>. QED BY <2>4, IdsOfTriggered DEF triggered, s, u
<1>. QED BY <1>1, RulesTypeInvariant, PTL

-----------------------------------------------------------------------------
(* One more transaction *)

\* A transaction recorded in between keeps every windowed trigger, and makes
\* no account new: an evaluation that has missed a concurrent transaction
\* may say too little about a window, never too much.
THEOREM MoreHistoryOnlyAdds == RulesSpec => MoreHistoryConfirms
<1>. DEFINE Confirms ==
              /\ RuleIds(triggered) \cap Windowed \subseteq RuleIds(triggered)'
              /\ "new_account_high_value_outflow" \in RuleIds(triggered)' =>
                   "new_account_high_value_outflow" \in RuleIds(triggered)
<1>1. RulesType /\ [RulesNext]_historyVars => [Confirms]_historyVars
  <2>1. SUFFICES ASSUME RulesType, NEW h \in Recorded, Record(h)
                 PROVE  Confirms
    BY DEF RulesNext
  <2>. DEFINE s == history
              u == Append(history, h)
  <2>2. /\ triggered = evaluate(tx, s, Flagged)
        /\ RuleIds(triggered)' = RuleIds(evaluate(tx, u, Flagged))
    BY <2>1 DEF triggered, Record
  <2>3. /\ s \in Seq(Recorded) /\ u \in Seq(Recorded)
        /\ Within(s, u, UpTo(tx, Recorded))
    BY <2>1, AppendWithin DEF RulesType
  <2>. HIDE DEF s, u
  <2>4. RuleIds(evaluate(tx, s, Flagged)) \cap Windowed
          \subseteq RuleIds(evaluate(tx, u, Flagged))
    BY <2>3, WindowedGrow
  <2>5. ASSUME "new_account_high_value_outflow"
                 \in RuleIds(evaluate(tx, u, Flagged))
        PROVE  "new_account_high_value_outflow"
                 \in RuleIds(evaluate(tx, s, Flagged))
    <3>. DEFINE id == "new_account_high_value_outflow"
    <3>1. new_account_high_value_outflow(tx, u)
            \subseteq new_account_high_value_outflow(tx, s)
      BY <2>1, <2>3, RecordedNumbers, NewAccountShrinks
    <3>2. Judged(tx, u, id)
      BY <2>5, IdsOfTriggered DEF JudgedAlone
    <3>3. Judged(tx, s, id)
      BY <3>1, <3>2 DEF Judged
    <3>. QED BY <3>3, IdsOfTriggered
  <2>. QED BY <2>2, <2>4, <2>5
<1>. QED BY <1>1, RulesTypeInvariant, PTL DEF RulesSpec, MoreHistoryConfirms

-----------------------------------------------------------------------------
(* Dormancy *)

\* dormant_account_reactivation looks for the latest earlier payment and
\* truncates the gap to seconds; it fires exactly when the account had paid
\* before, but not within the gap.
THEOREM DormancyIsSilence == RulesSpec => []SilentThenActive
<1>1. RulesType => SilentThenActive
  <2>1. SUFFICES ASSUME RulesType
                 PROVE  SilentThenActive
    OBVIOUS
  <2>. DEFINE gap == config.dormant_reactivation_gap_secs
              sent == Outgoing(tx, history)
              prior == {history[i].timestamp : i \in sent}
              recent == {i \in sent : tx.timestamp - history[i].timestamp
                                        < TicksPerSecond * gap}
              large == tx.amount >= config.dormant_reactivation_min_amount
              gone == num_seconds(tx.timestamp - Max(prior)) >= gap
  <2>2. gap \in Nat /\ TicksPerSecond \in Nat
    BY ConfigAssumption, TicksAssumption DEF RulesConfig
  <2>3. /\ tx.timestamp \in Int
        /\ \A i \in sent : /\ history[i].timestamp \in Int
                           /\ history[i].timestamp < tx.timestamp
    BY <2>1, RecordedNumbers DEF Outgoing, RulesType
  <2>4. prior \in SUBSET Int /\ IsFiniteSet(prior) /\ (prior # {} <=> sent # {})
    <3>1. IsFiniteSet(sent)
      <4>1. DOMAIN history = 1..Len(history) /\ Len(history) \in Nat
        BY <2>1 DEF RulesType
      <4>2. IsFiniteSet(1..Len(history))
        BY <4>1, FS_Interval
      <4>3. sent \subseteq 1..Len(history)
        BY <4>1 DEF Outgoing
      <4>. HIDE DEF sent
      <4>. QED BY <4>2, <4>3, FS_Subset
    <3>. DEFINE f == [i \in sent |-> history[i].timestamp]
    <3>2. prior = {f[i] : i \in sent}
      OBVIOUS
    <3>3. IsFiniteSet({f[i] : i \in sent})
      <4>. HIDE DEF f, sent
      <4>. QED BY <3>1, ImageIsFinite
    <3>. QED BY <2>3, <3>2, <3>3
  <2>5. ASSUME prior # {}
        PROVE  gone <=> recent = {}
    <3>1. Max(prior) \in prior /\ \A y \in prior : Max(prior) >= y
      <4>. HIDE DEF prior
      <4>. QED BY <2>4, <2>5, MaxDef
    <3>. DEFINE m == Max(prior)
                least == TicksPerSecond * gap
    <3>2. m \in Int /\ tx.timestamp - m \in Nat
      BY <2>3, <3>1
    <3>3. gone <=> tx.timestamp - m >= least
      <4>. HIDE DEF m, gap
      <4>1. num_seconds(tx.timestamp - m) >= gap
              <=> tx.timestamp - m >= TicksPerSecond * gap
        BY <2>2, <3>2, SecondsPassed
      <4>. QED BY <4>1 DEF m
    <3>4. least \in Int
      BY <2>2
    <3>5. PICK k \in sent : history[k].timestamp = m
      BY <3>1
    <3>6. \A i \in sent : history[i].timestamp \in Int /\ history[i].timestamp <= m
      BY <2>3, <3>1
    <3>. HIDE DEF m, least, gone
    <3>7. (tx.timestamp - m >= least)
            <=> \A i \in sent : ~(tx.timestamp - history[i].timestamp < least)
      <4>. HIDE DEF sent
      <4>. QED BY <2>3, <3>2, <3>4, <3>5, <3>6
    <3>. QED BY <3>3, <3>7 DEF least
  <2>6. "dormant_account_reactivation" \in RuleIds(triggered)
          <=> dormant_account_reactivation(tx, history) # {}
    BY IdsOfTriggered DEF triggered, Judged, JudgedAlone
  <2>7. dormant_account_reactivation(tx, history) # {}
          <=> large /\ prior # {} /\ gone
    BY DEF dormant_account_reactivation, Triggers
  <2>8. "dormant_account_reactivation" \in RuleIds(triggered)
          <=> large /\ sent # {} /\ recent = {}
    <3>. HIDE DEF large, prior, sent, recent, gone
    <3>. QED BY <2>4, <2>5, <2>6, <2>7
  <2>. QED BY <2>8 DEF SilentThenActive, Outgoing
<1>. QED BY <1>1, RulesTypeInvariant, PTL

-----------------------------------------------------------------------------
(* The score *)

Weights == {weight_for(s) : s \in Severity}

LEMMA WeightsDef == /\ Weights = {1, 3, 6, 12}
                    /\ \A s \in Severity : weight_for(s) \in Weights
<1>1. /\ weight_for("low") = 1 /\ weight_for("medium") = 3
      /\ weight_for("high") = 6 /\ weight_for("critical") = 12
  BY DEF weight_for
<1>. QED BY <1>1 DEF Weights, Severity

\* What the rules hand to the scoring: at most ten triggers.
Scored(triggers) ==
    /\ IsFiniteSet(triggers)
    /\ Cardinality(triggers) <= 10
    /\ \A t \in triggers : t.severity \in Severity

\* The triggers heavier than a weight, and those at least as heavy.
Heavier(triggers, w) == {t \in triggers : weight_for(t.severity) > w}
AsHeavy(triggers, w) == {t \in triggers : weight_for(t.severity) >= w}

LEMMA PartsAreCounted ==
    ASSUME NEW T, Scored(T), NEW w
    PROVE  /\ Cardinality(T) \in Nat
           /\ IsFiniteSet(Heavier(T, w)) /\ Cardinality(Heavier(T, w)) \in Nat
           /\ IsFiniteSet(AsHeavy(T, w)) /\ Cardinality(AsHeavy(T, w)) \in Nat
<1>1. IsFiniteSet(T)
  BY DEF Scored
<1>2. Heavier(T, w) \in SUBSET T /\ AsHeavy(T, w) \in SUBSET T
  BY DEF Heavier, AsHeavy
<1>3. IsFiniteSet(Heavier(T, w)) /\ IsFiniteSet(AsHeavy(T, w))
  BY <1>1, <1>2, FS_Subset
<1>. QED BY <1>1, <1>3, FS_CardinalityType

\* The weight at a rank: the choice is of a weight that some trigger has.
AtRank(T, rank, w) ==
    /\ w \in Weights
    /\ Cardinality(Heavier(T, w)) < rank
    /\ rank <= Cardinality(AsHeavy(T, w))

LEMMA WeightAtRankDef ==
    ASSUME NEW T, Scored(T), NEW rank \in 1..Cardinality(T)
    PROVE  AtRank(T, rank, WeightAtRank(T, rank))
<1>1. \A t \in T : weight_for(t.severity) \in {1, 3, 6, 12}
  BY WeightsDef DEF Scored
<1>2. /\ Heavier(T, 12) = {}
      /\ Heavier(T, 6) = AsHeavy(T, 12)
      /\ Heavier(T, 3) = AsHeavy(T, 6)
      /\ Heavier(T, 1) = AsHeavy(T, 3)
      /\ AsHeavy(T, 1) = T
  BY <1>1 DEF Heavier, AsHeavy
<1>3. /\ Cardinality(Heavier(T, 12)) = 0
      /\ \A w : Cardinality(AsHeavy(T, w)) \in Nat
      /\ rank \in Nat /\ 0 < rank
  <2>1. Cardinality(T) \in Nat
    BY PartsAreCounted
  <2>. QED BY <1>2, <2>1, PartsAreCounted, FS_EmptySet
<1>4. \E w : AtRank(T, rank, w)
  <2>1. CASE rank <= Cardinality(AsHeavy(T, 12))
    <3>1. AtRank(T, rank, 12)
      BY <1>3, <2>1, WeightsDef DEF AtRank
    <3>. QED BY <3>1
  <2>2. CASE /\ ~(rank <= Cardinality(AsHeavy(T, 12)))
             /\ rank <= Cardinality(AsHeavy(T, 6))
    <3>1. AtRank(T, rank, 6)
      BY <1>2, <1>3, <2>2, WeightsDef DEF AtRank
    <3>. QED BY <3>1
  <2>3. CASE /\ ~(rank <= Cardinality(AsHeavy(T, 6)))
             /\ rank <= Cardinality(AsHeavy(T, 3))
    <3>1. AtRank(T, rank, 3)
      BY <1>2, <1>3, <2>3, WeightsDef DEF AtRank
    <3>. QED BY <3>1
  <2>4. CASE ~(rank <= Cardinality(AsHeavy(T, 3)))
    <3>1. AtRank(T, rank, 1)
      BY <1>2, <1>3, <2>4, WeightsDef DEF AtRank
    <3>. QED BY <3>1
  <2>. QED BY <2>1, <2>2, <2>3, <2>4
<1>5. WeightAtRank(T, rank)
        = CHOOSE w \in Weights : /\ Cardinality(Heavier(T, w)) < rank
                                 /\ rank <= Cardinality(AsHeavy(T, w))
  BY DEF WeightAtRank, Weights, Heavier, AsHeavy
<1>. DEFINE Fits(w) == /\ Cardinality(Heavier(T, w)) < rank
                       /\ rank <= Cardinality(AsHeavy(T, w))
            chosen == CHOOSE w \in Weights : Fits(w)
<1>6. \E w \in Weights : Fits(w)
  BY <1>4 DEF AtRank
<1>7. chosen \in Weights /\ Fits(chosen)
  <2>. HIDE DEF Fits
  <2>. QED BY <1>6
<1>. QED BY <1>5, <1>7 DEF AtRank

\* More triggers, heavier ranks: the weight at a rank never falls.
LEMMA WeightAtRankGrows ==
    ASSUME NEW A, NEW B, Scored(A), Scored(B), A \subseteq B,
           NEW rank \in 1..Cardinality(A)
    PROVE  /\ rank \in 1..Cardinality(B)
           /\ WeightAtRank(A, rank) \in Nat /\ WeightAtRank(B, rank) \in Nat
           /\ WeightAtRank(A, rank) <= WeightAtRank(B, rank)
<1>. DEFINE a == WeightAtRank(A, rank)
            b == WeightAtRank(B, rank)
<1>1. rank \in 1..Cardinality(B)
  <2>1. IsFiniteSet(B) /\ A \in SUBSET B
    BY DEF Scored
  <2>2. Cardinality(A) <= Cardinality(B)
    BY <2>1, FS_Subset
  <2>. QED BY <2>2, PartsAreCounted
<1>2. AtRank(A, rank, a) /\ AtRank(B, rank, b)
  BY <1>1, WeightAtRankDef
<1>. HIDE DEF a, b
<1>3. a \in Nat /\ b \in Nat
  BY <1>2, WeightsDef DEF AtRank
<1>4. ASSUME b < a
      PROVE  FALSE
  <2>1. AsHeavy(A, a) \in SUBSET Heavier(B, b)
    <3>1. \A t \in A : weight_for(t.severity) \in Nat
      BY WeightsDef DEF Scored
    <3>. QED BY <1>3, <1>4, <3>1 DEF AsHeavy, Heavier
  <2>2. Cardinality(AsHeavy(A, a)) <= Cardinality(Heavier(B, b))
    BY <2>1, PartsAreCounted, FS_Subset
  <2>3. /\ rank <= Cardinality(AsHeavy(A, a))
        /\ Cardinality(Heavier(B, b)) < rank
    BY <1>2 DEF AtRank
  <2>4. /\ Cardinality(AsHeavy(A, a)) \in Nat
        /\ Cardinality(Heavier(B, b)) \in Nat /\ rank \in Nat
    BY PartsAreCounted
  <2>. QED BY <2>2, <2>3, <2>4
<1>5. a <= b
  BY <1>3, <1>4
<1>. QED BY <1>1, <1>3, <1>5 DEF a, b

LEMMA DiscountedDef ==
    ASSUME NEW T, Scored(T)
    PROVE  /\ Discounted(T) \in Seq(Nat)
           /\ Len(Discounted(T)) = Cardinality(T)
           /\ \A rank \in 1..Cardinality(T) :
                /\ Discounted(T)[rank]
                     = WeightAtRank(T, rank) * InverseSqrt[rank]
                /\ InverseSqrt[rank] \in Nat
<1>1. Cardinality(T) \in Nat /\ Cardinality(T) <= 10
  BY PartsAreCounted DEF Scored
<1>2. \A rank \in 1..10 : InverseSqrt[rank] \in Nat
  BY DEF InverseSqrt
<1>3. \A rank \in 1..Cardinality(T) :
        InverseSqrt[rank] \in Nat /\ WeightAtRank(T, rank) \in Nat
  BY <1>1, <1>2, WeightAtRankGrows
<1>4. \A rank \in 1..Cardinality(T) :
        WeightAtRank(T, rank) * InverseSqrt[rank] \in Nat
  <2>1. \A x, y \in Nat : x * y \in Nat
    OBVIOUS
  <2>. QED BY <1>3, <2>1
<1>. QED BY <1>1, <1>3, <1>4 DEF Discounted

\* The score and its severity grow with the set of triggers.
LEMMA ScoreGrows ==
    ASSUME NEW A, NEW B, Scored(A), Scored(B), A \subseteq B
    PROVE  /\ compute_score(A) \in Int /\ compute_score(B) \in Int
           /\ compute_score(A) <= compute_score(B)
<1>. DEFINE s == Discounted(A)
            u == Discounted(B)
<1>1. s \in Seq(Nat) /\ u \in Seq(Nat)
  BY DiscountedDef
<1>2. Len(s) <= Len(u)
  <2>1. IsFiniteSet(B) /\ A \in SUBSET B
    BY DEF Scored
  <2>. QED BY <2>1, FS_Subset, DiscountedDef
<1>3. ASSUME NEW rank \in 1..Len(s)
      PROVE  s[rank] <= u[rank]
  <2>1. /\ rank \in 1..Cardinality(A) /\ rank \in 1..Cardinality(B)
        /\ WeightAtRank(A, rank) \in Nat /\ WeightAtRank(B, rank) \in Nat
        /\ WeightAtRank(A, rank) <= WeightAtRank(B, rank)
    BY DiscountedDef, WeightAtRankGrows
  <2>2. /\ s[rank] = WeightAtRank(A, rank) * InverseSqrt[rank]
        /\ u[rank] = WeightAtRank(B, rank) * InverseSqrt[rank]
        /\ InverseSqrt[rank] \in Nat
    BY <2>1, DiscountedDef
  <2>3. \A x, y, z \in Nat : x <= y => x * z <= y * z
    OBVIOUS
  <2>. HIDE DEF s, u
  <2>. QED BY <2>1, <2>2, <2>3
<1>4. Total(s) \in Nat /\ Total(u) \in Nat /\ Total(s) <= Total(u)
  <2>. HIDE DEF s, u
  <2>. QED BY <1>1, <1>2, <1>3, TotalGrows
<1>. DEFINE x == (Total(s) * 25) \div 9
            y == (Total(u) * 25) \div 9
<1>5. x \in Int /\ y \in Int /\ x <= y
  <2>1. \A p, q \in Nat : p <= q => (p * 25) \div 9 <= (q * 25) \div 9
    OBVIOUS
  <2>2. \A p \in Nat : (p * 25) \div 9 \in Int
    OBVIOUS
  <2>. HIDE DEF s, u
  <2>. QED BY <1>4, <2>1, <2>2
<1>6. /\ compute_score(A) = IF x < 100 * Scale THEN x ELSE 100 * Scale
      /\ compute_score(B) = IF y < 100 * Scale THEN y ELSE 100 * Scale
  BY DEF compute_score
<1>7. 100 * Scale \in Int
  BY DEF Scale
<1>. HIDE DEF x, y
<1>. QED BY <1>5, <1>6, <1>7

LEMMA SeverityGrows ==
    ASSUME NEW A, NEW B, Scored(A), Scored(B), A \subseteq B
    PROVE  SeverityRank(A) <= SeverityRank(B)
<1>. DEFINE a == compute_score(A)
            b == compute_score(B)
<1>1. a \in Int /\ b \in Int /\ a <= b
  BY ScoreGrows
<1>2. /\ weight_for("low") = 1 /\ weight_for("medium") = 3
      /\ weight_for("high") = 6 /\ weight_for("critical") = 12
  BY DEF weight_for
<1>. HIDE DEF a, b
<1>3. \A x \in Int : weight_for(severity_for_score(x)) =
        IF x >= 75 * Scale THEN 12 ELSE IF x >= 45 * Scale THEN 6
        ELSE IF x >= 20 * Scale THEN 3 ELSE 1
  BY <1>2 DEF severity_for_score
<1>4. weight_for(severity_for_score(a)) <= weight_for(severity_for_score(b))
  BY <1>1, <1>3 DEF Scale
<1>. QED BY <1>4 DEF SeverityRank, a, b

-----------------------------------------------------------------------------
(* The triggers of an evaluation are scored *)

\* What a rule yields: at most one trigger, of a severity the score knows.
Yields(triggers) ==
    triggers = {} \/ \E t : triggers = {t} /\ t.severity \in Severity

LEMMA OneMore ==
    ASSUME NEW S, NEW n \in Nat, IsFiniteSet(S), Cardinality(S) <= n,
           NEW T, Yields(T)
    PROVE  IsFiniteSet(S \cup T) /\ Cardinality(S \cup T) <= n + 1
<1>1. Cardinality(S) \in Nat /\ Cardinality(S) <= n + 1
  <2>1. Cardinality(S) \in Nat
    BY FS_CardinalityType
  <2>. QED BY <2>1
<1>2. CASE T = {}
  <2>1. S \cup T = S
    BY <1>2
  <2>. QED BY <1>1, <2>1
<1>3. CASE T # {}
  <2>1. PICK t : T = {t}
    BY <1>3 DEF Yields
  <2>2. /\ IsFiniteSet(S \cup {t})
        /\ Cardinality(S \cup {t})
             = IF t \in S THEN Cardinality(S) ELSE Cardinality(S) + 1
    BY FS_AddElement
  <2>3. Cardinality(S \cup {t}) <= n + 1
    BY <1>1, <2>2
  <2>. QED BY <2>1, <2>2, <2>3
<1>. QED BY <1>2, <1>3

LEMMA TriggersYield ==
    ASSUME NEW fires, NEW id, NEW severity \in Severity
    PROVE  Yields(Triggers(fires, id, severity))
<1>1. Trigger(id, severity).severity = severity
  BY DEF Trigger
<1>. QED BY <1>1 DEF Yields, Triggers

LEMMA EvaluationIsScored ==
    ASSUME NEW t, NEW past, NEW flagged
    PROVE  Scored(evaluate(t, past, flagged))
<1>. DEFINE r1 == large_transfer(t)
            r2 == repeated_transaction(t, past)
            r3 == abnormal_frequency(t, past)
            r4 == flagged_account_interaction(t, flagged)
            r5 == unusual_asset_movement(t, past)
            r6 == configurable_threshold(t)
            r7 == dormant_account_reactivation(t, past)
            r8 == round_trip_wash_trading(t, past)
            r9 == new_account_high_value_outflow(t, past)
            r10 == cross_asset_rapid_conversion(t, past)
            all == evaluate(t, past, flagged)
<1>0. /\ "low" \in Severity /\ "medium" \in Severity
      /\ "high" \in Severity /\ "critical" \in Severity
  BY DEF Severity
<1>1. /\ Yields(r1) /\ Yields(r2) /\ Yields(r3) /\ Yields(r4) /\ Yields(r5)
      /\ Yields(r6) /\ Yields(r7) /\ Yields(r8) /\ Yields(r9) /\ Yields(r10)
  <2>1. Yields(r1)
    <3>1. (IF t.amount > 10 * config.large_transfer_threshold
           THEN "critical" ELSE "high") \in Severity
      BY <1>0
    <3>. QED BY <3>1, TriggersYield DEF large_transfer
  <2>2. Yields(r2)
    BY <1>0, TriggersYield DEF repeated_transaction
  <2>3. Yields(r3)
    BY <1>0, TriggersYield DEF abnormal_frequency
  <2>4. Yields(r4)
    BY <1>0, TriggersYield DEF flagged_account_interaction
  <2>5. Yields(r5)
    BY <1>0, TriggersYield DEF unusual_asset_movement
  <2>6. Yields(r6)
    BY <1>0, TriggersYield DEF configurable_threshold
  <2>7. Yields(r7)
    BY <1>0, TriggersYield DEF dormant_account_reactivation
  <2>8. Yields(r8)
    BY <1>0, TriggersYield DEF round_trip_wash_trading
  <2>9. Yields(r9)
    BY <1>0, TriggersYield DEF new_account_high_value_outflow
  <2>10. Yields(r10)
    BY <1>0, TriggersYield DEF cross_asset_rapid_conversion
  <2>. HIDE DEF r1, r2, r3, r4, r5, r6, r7, r8, r9, r10
  <2>. QED BY <2>1, <2>2, <2>3, <2>4, <2>5, <2>6, <2>7, <2>8, <2>9, <2>10
<1>2. all = {} \cup r1 \cup r2 \cup r3 \cup r4 \cup r5
              \cup r6 \cup r7 \cup r8 \cup r9 \cup r10
  <2>1. all = UNION {r1, r2, r3, r4, r5, r6, r7, r8, r9, r10}
    BY DEF evaluate
  <2>. HIDE DEF all, r1, r2, r3, r4, r5, r6, r7, r8, r9, r10
  <2>. QED BY <2>1
<1>. HIDE DEF all, r1, r2, r3, r4, r5, r6, r7, r8, r9, r10
<1>. DEFINE Few(S, n) == IsFiniteSet(S) /\ Cardinality(S) <= n
<1>3. Few(all, 10)
  <2>0. Few({}, 0)
    BY FS_EmptySet
  <2>1. ASSUME NEW S, NEW n \in Nat, Few(S, n), NEW T, Yields(T)
        PROVE  Few(S \cup T, n + 1)
    BY <2>1, OneMore
  <2>. HIDE DEF Few
  <2>2. Few({} \cup r1, 0 + 1)
    BY <1>1, <2>0, <2>1
  <2>3. Few({} \cup r1 \cup r2, 0 + 1 + 1)
    BY <1>1, <2>2, <2>1
  <2>4. Few({} \cup r1 \cup r2 \cup r3, 0 + 1 + 1 + 1)
    BY <1>1, <2>3, <2>1
  <2>5. Few({} \cup r1 \cup r2 \cup r3 \cup r4, 3 + 1)
    BY <1>1, <2>4, <2>1
  <2>6. Few({} \cup r1 \cup r2 \cup r3 \cup r4 \cup r5, 4 + 1)
    BY <1>1, <2>5, <2>1
  <2>7. Few({} \cup r1 \cup r2 \cup r3 \cup r4 \cup r5 \cup r6, 5 + 1)
    BY <1>1, <2>6, <2>1
  <2>8. Few({} \cup r1 \cup r2 \cup r3 \cup r4 \cup r5 \cup r6 \cup r7, 6 + 1)
    BY <1>1, <2>7, <2>1
  <2>9. Few({} \cup r1 \cup r2 \cup r3 \cup r4 \cup r5 \cup r6 \cup r7
               \cup r8, 7 + 1)
    BY <1>1, <2>8, <2>1
  <2>10. Few({} \cup r1 \cup r2 \cup r3 \cup r4 \cup r5 \cup r6 \cup r7
                \cup r8 \cup r9, 8 + 1)
    BY <1>1, <2>9, <2>1
  <2>11. Few(all, 9 + 1)
    BY <1>1, <1>2, <2>10, <2>1
  <2>. QED BY <2>11
<1>4. \A x \in all : x.severity \in Severity
  <2>1. ASSUME NEW T, Yields(T)
        PROVE  \A x \in T : x.severity \in Severity
    BY <2>1 DEF Yields
  <2>. QED BY <1>1, <1>2, <2>1
<1>. QED BY <1>3, <1>4 DEF Scored, all

\* A trigger that joins others raises the score of the alert, or leaves it,
\* and never lowers its severity: compute_score discounts the weights by
\* their rank and stops at 100, severity_for_score cuts the result in bands.
THEOREM MoreTriggersScoreMore == RulesSpec => ScoreGrowsWithTriggers
<1>. DEFINE Grows == \A before \in {triggered}, after \in {triggered'} :
                       before \subseteq after =>
                         /\ compute_score(before) <= compute_score(after)
                         /\ SeverityRank(before) <= SeverityRank(after)
<1>1. RulesType /\ [RulesNext]_historyVars => [Grows]_historyVars
  <2>1. SUFFICES ASSUME NEW h \in Recorded, Record(h),
                        triggered \subseteq triggered'
                 PROVE  /\ compute_score(triggered) <= compute_score(triggered')
                        /\ SeverityRank(triggered) <= SeverityRank(triggered')
    BY DEF RulesNext
  <2>2. triggered' = evaluate(tx, Append(history, h), Flagged)
    BY <2>1 DEF triggered, Record
  <2>3. Scored(triggered) /\ Scored(triggered')
    BY <2>2, EvaluationIsScored DEF triggered
  <2>. QED BY <2>1, <2>3, ScoreGrows, SeverityGrows
<1>. QED BY <1>1, RulesTypeInvariant, PTL DEF RulesSpec, ScoreGrowsWithTriggers

=============================================================================
