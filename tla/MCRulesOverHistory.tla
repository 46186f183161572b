------------------------ MODULE MCRulesOverHistory ------------------------
(***************************************************************************)
(* Values of the constants for the run of RulesOverHistory: account A pays *)
(* B or nobody at tick 100, and the history holds payments in both         *)
(* directions, before, at and after that moment, in and out of a window.   *)
(***************************************************************************)
EXTENDS RulesOverHistory

MCConfig ==
    [large_transfer_threshold |-> 50,
     repeated_tx_window_secs |-> 1,
     repeated_tx_count_threshold |-> 2,
     frequency_window_secs |-> 1,
     frequency_count_threshold |-> 3,
     unusual_asset_movement_multiplier |-> 5,
     unusual_asset_min_history |-> 2,
     custom_thresholds |-> {30},
     dormant_reactivation_gap_secs |-> 10,
     dormant_reactivation_min_amount |-> 20,
     wash_trading_window_secs |-> 1,
     new_account_history_threshold |-> 1,
     new_account_outflow_threshold |-> 40,
     cross_asset_conversion_window_secs |-> 1,
     cross_asset_conversion_count_threshold |-> 2]

Payment(src, dst, asset, amount, timestamp) ==
    [source_account |-> src, destination_account |-> dst, asset |-> asset,
     amount |-> amount, timestamp |-> timestamp]

MCEvaluated ==
    {Payment("A", "B", "XLM", amount, 100) : amount \in {5, 45, 600}}
      \cup {Payment("A", NoAccount, "XLM", 60, 100)}

\* Ticks are half seconds: 97 is a second and a half before, which counts as
\* one second, and 79 is a tick past the gap of ten seconds.
MCRecorded ==
    {Payment(p[1], p[2], asset, 8, timestamp) :
        p \in {<<"A", "B">>, <<"B", "A">>},
        asset \in {"XLM", "USDC"}, timestamp \in {79, 97, 100, 102}}
      \cup {Payment("A", NoAccount, "XLM", 8, timestamp) :
               timestamp \in {79, 97, 100, 102}}

=============================================================================
