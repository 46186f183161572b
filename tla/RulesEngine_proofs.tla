------------------------- MODULE RulesEngine_proofs -------------------------
(***************************************************************************)
(* How the rules depend on the history they are given: what a longer, a    *)
(* shorter or a rearranged one can change.                                 *)
(***************************************************************************)
EXTENDS RulesEngine, Selection_proofs

-----------------------------------------------------------------------------
(* Numbers and finite sets *)

\* A whole number of seconds has passed exactly when its ticks have.
LEMMA SecondsPassed ==
    ASSUME NEW ticks \in Nat, NEW secs \in Nat
    PROVE  num_seconds(ticks) >= secs <=> ticks >= TicksPerSecond * secs
<1>. DEFINE k == TicksPerSecond
            q == ticks \div k
            r == ticks % k
<1>1. k \in Nat /\ k > 0
  BY TicksAssumption
<1>. HIDE DEF k
<1>2. q \in Int /\ r \in Int /\ ticks = k * q + r /\ 0 <= r /\ r < k
  BY <1>1
<1>. HIDE DEF q, r
<1>3. ASSUME q >= secs
      PROVE  ticks >= k * secs
  <2>1. q - secs \in Nat
    BY <1>2, <1>3
  <2>2. k * q = k * secs + k * (q - secs) /\ k * (q - secs) >= 0
    BY <1>1, <1>2, <2>1
  <2>. QED BY <1>1, <1>2, <2>2
<1>4. ASSUME ~(q >= secs)
      PROVE  ~(ticks >= k * secs)
  <2>1. secs - q - 1 \in Nat
    BY <1>2, <1>4
  <2>2. k * secs = k * q + k + k * (secs - q - 1) /\ k * (secs - q - 1) >= 0
    BY <1>1, <1>2, <2>1
  <2>. QED BY <1>1, <1>2, <2>2
<1>. QED BY <1>3, <1>4 DEF num_seconds, q, k

LEMMA ImageIsFinite ==
    ASSUME NEW f, NEW S, IsFiniteSet(S)
    PROVE  IsFiniteSet({f[x] : x \in S})
<1>. DEFINE T == {f[x] : x \in S}
            g == [x \in S |-> f[x]]
<1>1. g \in Surjection(S, T)
  BY DEF Surjection
<1>. HIDE DEF g, T
<1>2. IsFiniteSet(T)
  BY <1>1, FS_Surjection
<1>. QED BY <1>2 DEF T

LEMMA MaxDef ==
    ASSUME NEW S \in SUBSET Int, IsFiniteSet(S), S # {}
    PROVE  Max(S) \in S /\ \A y \in S : Max(S) >= y
BY MaxExists DEF Max

-----------------------------------------------------------------------------
(* The rules on two histories *)

\* The transactions of X that are no later than tx: no rule but
\* unusual_asset_movement looks at others.
UpTo(tx, X) == {h \in X : h.timestamp <= tx.timestamp}

InWindow(tx, X, secs) ==
    {h \in UpTo(tx, X) : num_seconds(tx.timestamp - h.timestamp) <= secs}

LEMMA WindowPositions ==
    ASSUME NEW tx, NEW X, NEW s \in Seq(X), NEW secs
    PROVE  within_window(s, tx.timestamp, secs)
             = Positions(s, InWindow(tx, X, secs))
BY DEF within_window, Positions, InWindow, UpTo

\* What is no later than tx in one history is in the other: then a pattern
\* that a windowed rule finds in the first, it finds in the second.
LEMMA RepeatedGrows ==
    ASSUME NEW tx, NEW X, NEW s \in Seq(X), NEW u \in Seq(X),
           Within(s, u, UpTo(tx, X))
    PROVE  repeated_transaction(tx, s) \subseteq repeated_transaction(tx, u)
<1>. DEFINE secs == config.repeated_tx_window_secs
            W == {h \in InWindow(tx, X, secs) :
                    h.destination_account = tx.destination_account}
            matching(v) == {i \in within_window(v, tx.timestamp, secs) :
                              v[i].destination_account = tx.destination_account}
<1>1. matching(s) = Positions(s, W) /\ matching(u) = Positions(u, W)
  BY WindowPositions DEF Positions
<1>2. Within(s, u, W)
  <2>1. \A i \in DOMAIN s : s[i] \in W => s[i] \in UpTo(tx, X)
    BY DEF InWindow
  <2>. HIDE DEF W
  <2>. QED BY <2>1, WithinNarrow
<1>. HIDE DEF W
<1>3. Cardinality(Positions(s, W)) <= Cardinality(Positions(u, W))
      /\ Cardinality(Positions(s, W)) \in Nat
      /\ Cardinality(Positions(u, W)) \in Nat
  BY <1>2, WithinCount, PositionsDef
<1>4. Cardinality(matching(s)) <= Cardinality(matching(u))
      /\ Cardinality(matching(s)) \in Nat /\ Cardinality(matching(u)) \in Nat
  BY <1>1, <1>3
<1>5. config.repeated_tx_count_threshold \in Nat
  BY ConfigAssumption DEF RulesConfig
<1>. HIDE DEF matching
<1>6. Cardinality(matching(s)) + 1 >= config.repeated_tx_count_threshold =>
        Cardinality(matching(u)) + 1 >= config.repeated_tx_count_threshold
  BY <1>4, <1>5
<1>. QED BY <1>6 DEF repeated_transaction, Triggers, matching

LEMMA FrequencyGrows ==
    ASSUME NEW tx, NEW X, NEW s \in Seq(X), NEW u \in Seq(X),
           Within(s, u, UpTo(tx, X))
    PROVE  abnormal_frequency(tx, s) \subseteq abnormal_frequency(tx, u)
<1>. DEFINE secs == config.frequency_window_secs
            W == InWindow(tx, X, secs)
            window(v) == within_window(v, tx.timestamp, secs)
<1>1. window(s) = Positions(s, W) /\ window(u) = Positions(u, W)
  BY WindowPositions
<1>2. Within(s, u, W)
  <2>1. \A i \in DOMAIN s : s[i] \in W => s[i] \in UpTo(tx, X)
    BY DEF InWindow
  <2>. HIDE DEF W
  <2>. QED BY <2>1, WithinNarrow
<1>. HIDE DEF W
<1>3. Cardinality(Positions(s, W)) <= Cardinality(Positions(u, W))
      /\ Cardinality(Positions(s, W)) \in Nat
      /\ Cardinality(Positions(u, W)) \in Nat
  BY <1>2, WithinCount, PositionsDef
<1>4. config.frequency_count_threshold \in Nat
  BY ConfigAssumption DEF RulesConfig
<1>. HIDE DEF window
<1>5. Cardinality(window(s)) + 1 >= config.frequency_count_threshold =>
        Cardinality(window(u)) + 1 >= config.frequency_count_threshold
  BY <1>1, <1>3, <1>4
<1>. QED BY <1>5 DEF abnormal_frequency, Triggers, window

LEMMA RoundTripGrows ==
    ASSUME NEW tx, NEW X, NEW s \in Seq(X), NEW u \in Seq(X),
           Within(s, u, UpTo(tx, X))
    PROVE  round_trip_wash_trading(tx, s)
             \subseteq round_trip_wash_trading(tx, u)
<1>. DEFINE secs == config.wash_trading_window_secs
            Back(h) == /\ h.source_account = tx.destination_account
                       /\ h.destination_account = tx.source_account
                       /\ h.timestamp < tx.timestamp
            found(v) == \E i \in within_window(v, tx.timestamp, secs) : Back(v[i])
<1>1. ToSet(s) \cap UpTo(tx, X) \subseteq ToSet(u)
  BY WithinCount
<1>2. found(s) => found(u)
  <2>1. SUFFICES ASSUME NEW i \in within_window(s, tx.timestamp, secs),
                        Back(s[i])
                 PROVE  found(u)
    OBVIOUS
  <2>2. i \in DOMAIN s /\ s[i] \in InWindow(tx, X, secs)
    BY WindowPositions DEF Positions
  <2>3. s[i] \in ToSet(s) /\ s[i] \in UpTo(tx, X)
    BY <2>2 DEF ToSet, InWindow
  <2>4. PICK j \in DOMAIN u : u[j] = s[i]
    BY <1>1, <2>3 DEF ToSet
  <2>5. j \in within_window(u, tx.timestamp, secs)
    BY <2>2, <2>4, WindowPositions DEF Positions
  <2>. QED BY <2>1, <2>4, <2>5
<1>. QED BY <1>2 DEF round_trip_wash_trading, Triggers

LEMMA CrossAssetGrows ==
    ASSUME NEW tx, NEW X, NEW s \in Seq(X), NEW u \in Seq(X),
           Within(s, u, UpTo(tx, X))
    PROVE  cross_asset_rapid_conversion(tx, s)
             \subseteq cross_asset_rapid_conversion(tx, u)
<1>. DEFINE secs == config.cross_asset_conversion_window_secs
            window(v) == within_window(v, tx.timestamp, secs)
            assets(v) == {v[i].asset : i \in window(v)} \cup {tx.asset}
<1>1. ToSet(s) \cap UpTo(tx, X) \subseteq ToSet(u)
  BY WithinCount
<1>2. assets(s) \subseteq assets(u)
  <2>1. SUFFICES ASSUME NEW i \in window(s)
                 PROVE  \E j \in window(u) : u[j].asset = s[i].asset
    OBVIOUS
  <2>2. i \in DOMAIN s /\ s[i] \in InWindow(tx, X, secs)
    BY WindowPositions DEF Positions
  <2>3. s[i] \in ToSet(s) /\ s[i] \in UpTo(tx, X)
    BY <2>2 DEF ToSet, InWindow
  <2>4. PICK j \in DOMAIN u : u[j] = s[i]
    BY <1>1, <2>3 DEF ToSet
  <2>5. j \in window(u)
    BY <2>2, <2>4, WindowPositions DEF Positions
  <2>. QED BY <2>4, <2>5
<1>3. IsFiniteSet(assets(u))
  <2>1. IsFiniteSet(window(u))
    BY WindowPositions, PositionsDef
  <2>. DEFINE f == [i \in window(u) |-> u[i].asset]
  <2>2. IsFiniteSet({f[i] : i \in window(u)})
    <3>. HIDE DEF f, window
    <3>. QED BY <2>1, ImageIsFinite
  <2>3. {f[i] : i \in window(u)} = {u[i].asset : i \in window(u)}
    OBVIOUS
  <2>4. IsFiniteSet({tx.asset})
    BY FS_Singleton
  <2>. QED BY <2>2, <2>3, <2>4, FS_Union
<1>. HIDE DEF assets
<1>4. Cardinality(assets(s)) <= Cardinality(assets(u))
      /\ Cardinality(assets(s)) \in Nat /\ Cardinality(assets(u)) \in Nat
  BY <1>2, <1>3, FS_Subset, FS_CardinalityType
<1>5. config.cross_asset_conversion_count_threshold \in Nat
  BY ConfigAssumption DEF RulesConfig
<1>6. Cardinality(assets(s)) >= config.cross_asset_conversion_count_threshold =>
        Cardinality(assets(u)) >= config.cross_asset_conversion_count_threshold
  BY <1>4, <1>5
<1>. QED BY <1>6 DEF cross_asset_rapid_conversion, Triggers, assets

\* An account that is new to the longer history is new to the shorter.
LEMMA NewAccountShrinks ==
    ASSUME NEW tx, NEW X, \A h \in X : h.timestamp \in Int,
           tx.timestamp \in Int,
           NEW s \in Seq(X), NEW u \in Seq(X), Within(s, u, UpTo(tx, X))
    PROVE  new_account_high_value_outflow(tx, u)
             \subseteq new_account_high_value_outflow(tx, s)
<1>. DEFINE W == {h \in X : /\ h.source_account = tx.source_account
                            /\ h.timestamp < tx.timestamp}
<1>1. Outgoing(tx, s) = Positions(s, W) /\ Outgoing(tx, u) = Positions(u, W)
  BY DEF Outgoing, Positions
<1>2. Within(s, u, W)
  <2>1. \A i \in DOMAIN s : s[i] \in W => s[i] \in UpTo(tx, X)
    BY DEF UpTo
  <2>. HIDE DEF W
  <2>. QED BY <2>1, WithinNarrow
<1>. HIDE DEF W
<1>3. Cardinality(Positions(s, W)) <= Cardinality(Positions(u, W))
      /\ Cardinality(Positions(s, W)) \in Nat
      /\ Cardinality(Positions(u, W)) \in Nat
  BY <1>2, WithinCount, PositionsDef
<1>4. config.new_account_history_threshold \in Nat
  BY ConfigAssumption DEF RulesConfig
<1>5. Cardinality(Outgoing(tx, u)) <= config.new_account_history_threshold =>
        Cardinality(Outgoing(tx, s)) <= config.new_account_history_threshold
  BY <1>1, <1>3, <1>4
<1>. QED BY <1>5 DEF new_account_high_value_outflow, Triggers

\* Dormancy depends on which transactions the history holds, and no more.
LEMMA DormantSame ==
    ASSUME NEW tx, NEW X, \A h \in X : h.timestamp \in Int,
           tx.timestamp \in Int,
           NEW s \in Seq(X), NEW u \in Seq(X),
           Within(s, u, UpTo(tx, X)), Within(u, s, UpTo(tx, X))
    PROVE  dormant_account_reactivation(tx, s)
             = dormant_account_reactivation(tx, u)
<1>. DEFINE prior(v) == {v[i].timestamp : i \in Outgoing(tx, v)}
<1>1. ASSUME NEW v \in Seq(X), NEW w \in Seq(X), Within(v, w, UpTo(tx, X))
      PROVE  prior(v) \subseteq prior(w)
  <2>1. SUFFICES ASSUME NEW i \in Outgoing(tx, v)
                 PROVE  \E j \in Outgoing(tx, w) : w[j].timestamp = v[i].timestamp
    OBVIOUS
  <2>2. i \in DOMAIN v /\ v[i] \in ToSet(v) /\ v[i] \in UpTo(tx, X)
    BY DEF Outgoing, ToSet, UpTo
  <2>3. v[i] \in ToSet(w)
    BY <1>1, <2>2, WithinCount
  <2>4. PICK j \in DOMAIN w : w[j] = v[i]
    BY <2>3 DEF ToSet
  <2>5. j \in Outgoing(tx, w)
    BY <2>4 DEF Outgoing
  <2>. QED BY <2>4, <2>5
<1>2. prior(s) = prior(u)
  <2>1. prior(s) \subseteq prior(u) /\ prior(u) \subseteq prior(s)
    BY <1>1
  <2>. QED BY <2>1
<1>. HIDE DEF prior
<1>. QED BY <1>2 DEF dormant_account_reactivation, prior

-----------------------------------------------------------------------------
(* What a rule answers *)

\* The rules that look at the history.
Judged(tx, history, id) ==
    \/ id = "repeated_transaction" /\ repeated_transaction(tx, history) # {}
    \/ id = "abnormal_frequency" /\ abnormal_frequency(tx, history) # {}
    \/ id = "unusual_asset_movement" /\ unusual_asset_movement(tx, history) # {}
    \/ /\ id = "dormant_account_reactivation"
       /\ dormant_account_reactivation(tx, history) # {}
    \/ /\ id = "round_trip_wash_trading"
       /\ round_trip_wash_trading(tx, history) # {}
    \/ /\ id = "new_account_high_value_outflow"
       /\ new_account_high_value_outflow(tx, history) # {}
    \/ /\ id = "cross_asset_rapid_conversion"
       /\ cross_asset_rapid_conversion(tx, history) # {}

\* The others.
JudgedAlone(tx, flagged, id) ==
    \/ id = "large_transfer" /\ large_transfer(tx) # {}
    \/ /\ id = "flagged_account_interaction"
       /\ flagged_account_interaction(tx, flagged) # {}
    \/ id = "configurable_threshold" /\ configurable_threshold(tx) # {}

\* A rule yields nothing, or one trigger that bears its name.
Names(id, triggers) ==
    triggers = {} \/ \E severity : triggers = {Trigger(id, severity)}

LEMMA NamesId ==
    ASSUME NEW id, NEW triggers, Names(id, triggers), NEW x
    PROVE  x \in RuleIds(triggers) <=> x = id /\ triggers # {}
<1>1. CASE triggers = {}
  BY <1>1 DEF RuleIds
<1>2. CASE triggers # {}
  <2>1. PICK severity : triggers = {Trigger(id, severity)}
    BY <1>2 DEF Names
  <2>. QED BY <2>1 DEF RuleIds, Trigger
<1>. QED BY <1>1, <1>2

\* A rule is among the triggered ones when it yields a trigger.
LEMMA IdsOfTriggered ==
    ASSUME NEW tx, NEW history, NEW flagged, NEW id
    PROVE  id \in RuleIds(evaluate(tx, history, flagged))
             <=> Judged(tx, history, id) \/ JudgedAlone(tx, flagged, id)
<1>1. id \in RuleIds(large_transfer(tx))
        <=> id = "large_transfer" /\ large_transfer(tx) # {}
  <2>1. Names("large_transfer", large_transfer(tx))
    BY DEF Names, Triggers, large_transfer
  <2>. QED BY <2>1, NamesId
<1>2. id \in RuleIds(repeated_transaction(tx, history))
        <=> id = "repeated_transaction" /\ repeated_transaction(tx, history) # {}
  <2>1. Names("repeated_transaction", repeated_transaction(tx, history))
    BY DEF Names, Triggers, repeated_transaction
  <2>. QED BY <2>1, NamesId
<1>3. id \in RuleIds(abnormal_frequency(tx, history))
        <=> id = "abnormal_frequency" /\ abnormal_frequency(tx, history) # {}
  <2>1. Names("abnormal_frequency", abnormal_frequency(tx, history))
    BY DEF Names, Triggers, abnormal_frequency
  <2>. QED BY <2>1, NamesId
<1>4. id \in RuleIds(flagged_account_interaction(tx, flagged))
        <=> /\ id = "flagged_account_interaction"
            /\ flagged_account_interaction(tx, flagged) # {}
  <2>1. Names("flagged_account_interaction", flagged_account_interaction(tx, flagged))
    BY DEF Names, Triggers, flagged_account_interaction
  <2>. QED BY <2>1, NamesId
<1>5. id \in RuleIds(unusual_asset_movement(tx, history))
        <=> /\ id = "unusual_asset_movement"
            /\ unusual_asset_movement(tx, history) # {}
  <2>1. Names("unusual_asset_movement", unusual_asset_movement(tx, history))
    BY DEF Names, Triggers, unusual_asset_movement
  <2>. QED BY <2>1, NamesId
<1>6. id \in RuleIds(configurable_threshold(tx))
        <=> id = "configurable_threshold" /\ configurable_threshold(tx) # {}
  <2>1. Names("configurable_threshold", configurable_threshold(tx))
    BY DEF Names, Triggers, configurable_threshold
  <2>. QED BY <2>1, NamesId
<1>7. id \in RuleIds(dormant_account_reactivation(tx, history))
        <=> /\ id = "dormant_account_reactivation"
            /\ dormant_account_reactivation(tx, history) # {}
  <2>1. Names("dormant_account_reactivation", dormant_account_reactivation(tx, history))
    BY DEF Names, Triggers, dormant_account_reactivation
  <2>. QED BY <2>1, NamesId
<1>8. id \in RuleIds(round_trip_wash_trading(tx, history))
        <=> /\ id = "round_trip_wash_trading"
            /\ round_trip_wash_trading(tx, history) # {}
  <2>1. Names("round_trip_wash_trading", round_trip_wash_trading(tx, history))
    BY DEF Names, Triggers, round_trip_wash_trading
  <2>. QED BY <2>1, NamesId
<1>9. id \in RuleIds(new_account_high_value_outflow(tx, history))
        <=> /\ id = "new_account_high_value_outflow"
            /\ new_account_high_value_outflow(tx, history) # {}
  <2>1. Names("new_account_high_value_outflow", new_account_high_value_outflow(tx, history))
    BY DEF Names, Triggers, new_account_high_value_outflow
  <2>. QED BY <2>1, NamesId
<1>10. id \in RuleIds(cross_asset_rapid_conversion(tx, history))
        <=> /\ id = "cross_asset_rapid_conversion"
            /\ cross_asset_rapid_conversion(tx, history) # {}
  <2>1. Names("cross_asset_rapid_conversion", cross_asset_rapid_conversion(tx, history))
    BY DEF Names, Triggers, cross_asset_rapid_conversion
  <2>. QED BY <2>1, NamesId
<1>11. id \in RuleIds(evaluate(tx, history, flagged)) <=>
         \E r \in {large_transfer(tx),
                   repeated_transaction(tx, history),
                   abnormal_frequency(tx, history),
                   flagged_account_interaction(tx, flagged),
                   unusual_asset_movement(tx, history),
                   configurable_threshold(tx),
                   dormant_account_reactivation(tx, history),
                   round_trip_wash_trading(tx, history),
                   new_account_high_value_outflow(tx, history),
                   cross_asset_rapid_conversion(tx, history)} :
           id \in RuleIds(r)
  BY DEF evaluate, RuleIds
<1>. QED
  BY <1>1, <1>2, <1>3, <1>4, <1>5, <1>6, <1>7, <1>8, <1>9, <1>10, <1>11
     DEF Judged, JudgedAlone

\* What a windowed rule finds in one history, it finds in another that holds
\* as much.
LEMMA WindowedGrow ==
    ASSUME NEW tx, NEW X, NEW s \in Seq(X), NEW u \in Seq(X),
           Within(s, u, UpTo(tx, X)), NEW flagged, NEW snapshot
    PROVE  RuleIds(evaluate(tx, s, flagged)) \cap Windowed
             \subseteq RuleIds(evaluate(tx, u, snapshot))
<1>1. SUFFICES ASSUME NEW id \in Windowed,
                      id \in RuleIds(evaluate(tx, s, flagged))
               PROVE  id \in RuleIds(evaluate(tx, u, snapshot))
  OBVIOUS
<1>2. /\ repeated_transaction(tx, s) \subseteq repeated_transaction(tx, u)
      /\ abnormal_frequency(tx, s) \subseteq abnormal_frequency(tx, u)
      /\ round_trip_wash_trading(tx, s) \subseteq round_trip_wash_trading(tx, u)
      /\ cross_asset_rapid_conversion(tx, s)
           \subseteq cross_asset_rapid_conversion(tx, u)
  BY RepeatedGrows, FrequencyGrows, RoundTripGrows, CrossAssetGrows
<1>3. Judged(tx, s, id)
  BY <1>1, IdsOfTriggered DEF Windowed, JudgedAlone
<1>4. Judged(tx, u, id)
  BY <1>1, <1>2, <1>3 DEF Judged, Windowed
<1>. QED BY <1>4, IdsOfTriggered

-----------------------------------------------------------------------------
(* Two neighbours of the history in the other order *)

Swapped(s, i) == [s EXCEPT ![i] = s[i + 1], ![i + 1] = s[i]]

LEMMA SwapWithin ==
    ASSUME NEW X, NEW s \in Seq(X), NEW i \in 1..(Len(s) - 1), NEW W
    PROVE  /\ Swapped(s, i) \in Seq(X)
           /\ Len(Swapped(s, i)) = Len(s)
           /\ Within(s, Swapped(s, i), W)
           /\ Within(Swapped(s, i), s, W)
<1>. DEFINE u == Swapped(s, i)
            f == [j \in DOMAIN s |->
                    IF j = i THEN i + 1 ELSE IF j = i + 1 THEN i ELSE j]
<1>1. i \in Nat /\ Len(s) \in Nat /\ DOMAIN s = 1..Len(s)
      /\ i \in DOMAIN s /\ i + 1 \in DOMAIN s /\ i # i + 1
  OBVIOUS
<1>2. /\ DOMAIN u = DOMAIN s
      /\ u[i] = s[i + 1] /\ u[i + 1] = s[i]
      /\ \A j \in DOMAIN s : j # i /\ j # i + 1 => u[j] = s[j]
  BY <1>1 DEF Swapped
<1>3. u \in Seq(X) /\ Len(u) = Len(s)
  BY <1>1 DEF Swapped
<1>. HIDE DEF u
<1>4. /\ \A j \in DOMAIN s : f[j] \in DOMAIN s /\ u[f[j]] = s[j]
                             /\ s[f[j]] = u[j]
      /\ \A j, k \in DOMAIN s : f[j] = f[k] => j = k
  BY <1>1, <1>2
<1>. HIDE DEF f
<1>5. Within(s, u, W)
  BY <1>2, <1>4, WithinBy
<1>6. Within(u, s, W)
  <2>1. /\ \A j \in DOMAIN u : f[j] \in DOMAIN s /\ s[f[j]] = u[j]
        /\ \A j, k \in DOMAIN u : f[j] = f[k] => j = k
    BY <1>2, <1>4
  <2>. QED BY <2>1, WithinBy
<1>. QED BY <1>3, <1>5, <1>6 DEF u

\* The average amount in the asset is the same in either order.
LEMMA UnusualSwapped ==
    ASSUME NEW tx, NEW X, \A h \in X : h.amount \in Int,
           NEW s \in Seq(X), NEW i \in 1..(Len(s) - 1)
    PROVE  unusual_asset_movement(tx, Swapped(s, i))
             = unusual_asset_movement(tx, s)
<1>. DEFINE u == Swapped(s, i)
            W == {h \in X : h.asset = tx.asset}
            same(v) == {j \in DOMAIN v : v[j].asset = tx.asset}
            amounts(v) == [j \in DOMAIN v |->
                             IF j \in same(v) THEN v[j].amount ELSE 0]
<1>1. u \in Seq(X) /\ Len(u) = Len(s) /\ Within(s, u, W) /\ Within(u, s, W)
  BY SwapWithin
<1>2. /\ i \in Nat /\ Len(s) \in Nat /\ DOMAIN s = 1..Len(s) /\ DOMAIN u = DOMAIN s
      /\ i \in DOMAIN s /\ i + 1 \in DOMAIN s
      /\ u[i] = s[i + 1] /\ u[i + 1] = s[i]
      /\ \A j \in DOMAIN s : j # i /\ j # i + 1 => u[j] = s[j]
  BY DEF Swapped
<1>. HIDE DEF u
<1>3. same(s) = Positions(s, W) /\ same(u) = Positions(u, W)
  BY <1>1 DEF Positions
<1>4. Cardinality(same(s)) = Cardinality(same(u))
  <2>. HIDE DEF W
  <2>1. /\ Cardinality(Positions(s, W)) <= Cardinality(Positions(u, W))
        /\ Cardinality(Positions(u, W)) <= Cardinality(Positions(s, W))
        /\ Cardinality(Positions(s, W)) \in Nat
        /\ Cardinality(Positions(u, W)) \in Nat
    BY <1>1, WithinCount, PositionsDef
  <2>. HIDE DEF same
  <2>2. Cardinality(Positions(s, W)) = Cardinality(Positions(u, W))
    BY <2>1
  <2>. QED BY <1>3, <2>2
<1>5. /\ amounts(s) \in Seq(Int) /\ Len(amounts(s)) = Len(s)
      /\ amounts(u) \in Seq(Int) /\ Len(amounts(u)) = Len(s)
  <2>1. ASSUME NEW v \in Seq(X)
        PROVE  amounts(v) \in Seq(Int) /\ Len(amounts(v)) = Len(v)
    OBVIOUS
  <2>. HIDE DEF amounts
  <2>. QED BY <1>1, <2>1
<1>6. /\ amounts(u)[i] = amounts(s)[i + 1]
      /\ amounts(u)[i + 1] = amounts(s)[i]
      /\ \A j \in 1..Len(s) :
           j # i /\ j # i + 1 => amounts(u)[j] = amounts(s)[j]
  BY <1>2
<1>. HIDE DEF amounts
<1>7. i \in 1..(Len(amounts(s)) - 1)
  BY <1>5
<1>8. Total(amounts(s)) = Total(amounts(u))
  BY <1>5, <1>6, <1>7, TotalSwap
<1>. DEFINE fires(count, total) ==
              /\ count >= config.unusual_asset_min_history
              /\ total > 0
              /\ tx.amount * count
                   >= config.unusual_asset_movement_multiplier * total
<1>9. ASSUME NEW v
      PROVE  unusual_asset_movement(tx, v)
               = Triggers(fires(Cardinality(same(v)), Total(amounts(v))),
                          "unusual_asset_movement", "medium")
  BY DEF unusual_asset_movement, amounts
<1>. HIDE DEF same, fires
<1>10. fires(Cardinality(same(s)), Total(amounts(s)))
         <=> fires(Cardinality(same(u)), Total(amounts(u)))
  BY <1>4, <1>8
<1>. QED BY <1>9, <1>10 DEF Triggers, u

=============================================================================
