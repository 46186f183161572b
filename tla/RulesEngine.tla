---------------------------- MODULE RulesEngine ----------------------------
(***************************************************************************)
(* crates/rules_engine: the ten default rules, each a function of the      *)
(* transaction, the context (history of its source account, flagged        *)
(* accounts) and the configuration.  A rule yields the set of triggers it  *)
(* adds, empty or one; the wording of a trigger and its evidence are left  *)
(* out.                                                                    *)
(*                                                                         *)
(* Amounts are integers (the code parses them to f64), time is counted in  *)
(* ticks of 1/TicksPerSecond s, and num_seconds truncates as chrono does.  *)
(***************************************************************************)
EXTENDS Selection

CONSTANTS
    TicksPerSecond,
    NoAccount,   \* destination_account is None
    config       \* RulesConfig: a record of thresholds and windows

ASSUME TicksAssumption == TicksPerSecond \in Nat \ {0}

RulesConfig ==
    [large_transfer_threshold : Nat,
     repeated_tx_window_secs : Nat,
     repeated_tx_count_threshold : Nat,
     frequency_window_secs : Nat,
     frequency_count_threshold : Nat,
     unusual_asset_movement_multiplier : Nat,
     unusual_asset_min_history : Nat,
     custom_thresholds : SUBSET Nat,
     dormant_reactivation_gap_secs : Nat,
     dormant_reactivation_min_amount : Nat,
     wash_trading_window_secs : Nat,
     new_account_history_threshold : Nat,
     new_account_outflow_threshold : Nat,
     cross_asset_conversion_window_secs : Nat,
     cross_asset_conversion_count_threshold : Nat]

ASSUME ConfigAssumption == config \in RulesConfig

num_seconds(ticks) == ticks \div TicksPerSecond

\* Mutant: transactions later than the one evaluated are in its window too.
within_window_both_sides(history, at, window_secs) ==
    {i \in DOMAIN history :
       num_seconds(IF history[i].timestamp <= at
                   THEN at - history[i].timestamp
                   ELSE history[i].timestamp - at) <= window_secs}

\* RuleContext.within_window: where in the history they are.
within_window(history, at, window_secs) ==
    {i \in DOMAIN history :
       /\ history[i].timestamp <= at
       /\ num_seconds(at - history[i].timestamp) <= window_secs}

Trigger(id, severity) == [rule_id |-> id, severity |-> severity]

Triggers(fires, id, severity) == IF fires THEN {Trigger(id, severity)} ELSE {}

\* Earlier payments of the account, the ones it sent.
Outgoing(tx, history) ==
    {i \in DOMAIN history : /\ history[i].source_account = tx.source_account
                            /\ history[i].timestamp < tx.timestamp}

-----------------------------------------------------------------------------
(* The rules *)

large_transfer(tx) ==
    Triggers(tx.amount > config.large_transfer_threshold, "large_transfer",
             IF tx.amount > 10 * config.large_transfer_threshold
             THEN "critical" ELSE "high")

repeated_transaction(tx, history) ==
    LET window == within_window(history, tx.timestamp,
                                config.repeated_tx_window_secs)
        matching == {i \in window : history[i].destination_account
                                      = tx.destination_account}
    IN  Triggers(Cardinality(matching) + 1
                   >= config.repeated_tx_count_threshold,
                 "repeated_transaction", "medium")

abnormal_frequency(tx, history) ==
    LET window == within_window(history, tx.timestamp,
                                config.frequency_window_secs)
    IN  Triggers(Cardinality(window) + 1 >= config.frequency_count_threshold,
                 "abnormal_frequency", "medium")

flagged_account_interaction(tx, flagged) ==
    Triggers({tx.source_account, tx.destination_account} \cap flagged # {},
             "flagged_account_interaction", "high")

\* amount / avg >= multiplier, with avg the average over the history in the
\* same asset, if that is long enough and not all zero.
unusual_asset_movement(tx, history) ==
    LET same_asset == {i \in DOMAIN history : history[i].asset = tx.asset}
        count == Cardinality(same_asset)
        total == Total([i \in DOMAIN history |->
                          IF i \in same_asset THEN history[i].amount ELSE 0])
    IN  Triggers(/\ count >= config.unusual_asset_min_history
                 /\ total > 0
                 /\ tx.amount * count
                      >= config.unusual_asset_movement_multiplier * total,
                 "unusual_asset_movement", "medium")

configurable_threshold(tx) ==
    Triggers(\E threshold \in config.custom_thresholds : tx.amount > threshold,
             "configurable_threshold", "low")

\* Mutant: the gap is measured from the first payment of the history, as if
\* it were handed over most recent first.
dormant_since_first(tx, history) ==
    LET prior == Outgoing(tx, history)
    IN  Triggers(/\ tx.amount >= config.dormant_reactivation_min_amount
                 /\ prior # {}
                 /\ num_seconds(tx.timestamp - history[Min(prior)].timestamp)
                      >= config.dormant_reactivation_gap_secs,
                 "dormant_account_reactivation", "high")

dormant_account_reactivation(tx, history) ==
    LET prior == {history[i].timestamp : i \in Outgoing(tx, history)}
    IN  Triggers(/\ tx.amount >= config.dormant_reactivation_min_amount
                 /\ prior # {}
                 /\ num_seconds(tx.timestamp - Max(prior))
                      >= config.dormant_reactivation_gap_secs,
                 "dormant_account_reactivation", "high")

round_trip_wash_trading(tx, history) ==
    LET window == within_window(history, tx.timestamp,
                                config.wash_trading_window_secs)
    IN  Triggers(/\ tx.destination_account # NoAccount
                 /\ \E i \in window :
                      /\ history[i].source_account = tx.destination_account
                      /\ history[i].destination_account = tx.source_account
                      /\ history[i].timestamp < tx.timestamp,
                 "round_trip_wash_trading", "high")

\* Mutant: the rule asks for exactly the threshold of earlier payments.
new_account_exactly(tx, history) ==
    Triggers(/\ tx.destination_account # NoAccount
             /\ tx.amount >= config.new_account_outflow_threshold
             /\ Cardinality(Outgoing(tx, history))
                  = config.new_account_history_threshold,
             "new_account_high_value_outflow", "medium")

new_account_high_value_outflow(tx, history) ==
    Triggers(/\ tx.destination_account # NoAccount
             /\ tx.amount >= config.new_account_outflow_threshold
             /\ Cardinality(Outgoing(tx, history))
                  <= config.new_account_history_threshold,
             "new_account_high_value_outflow", "medium")

cross_asset_rapid_conversion(tx, history) ==
    LET window == within_window(history, tx.timestamp,
                                config.cross_asset_conversion_window_secs)
        assets == {history[i].asset : i \in window} \cup {tx.asset}
    IN  Triggers(Cardinality(assets)
                   >= config.cross_asset_conversion_count_threshold,
                 "cross_asset_rapid_conversion", "medium")

\* RulesEngine::evaluate with the default rules.  (Sorting by rule id makes
\* the result independent of the order of the rules: it is a set here.)
evaluate(tx, history, flagged) ==
    UNION {large_transfer(tx),
           repeated_transaction(tx, history),
           abnormal_frequency(tx, history),
           flagged_account_interaction(tx, flagged),
           unusual_asset_movement(tx, history),
           configurable_threshold(tx),
           dormant_account_reactivation(tx, history),
           round_trip_wash_trading(tx, history),
           new_account_high_value_outflow(tx, history),
           cross_asset_rapid_conversion(tx, history)}

RuleIds(triggers) == {t.rule_id : t \in triggers}

\* The rules that look for a pattern in a window before the transaction.
Windowed ==
    {"repeated_transaction", "abnormal_frequency", "round_trip_wash_trading",
     "cross_asset_rapid_conversion"}

=============================================================================
