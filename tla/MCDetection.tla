---------------------------- MODULE MCDetection ----------------------------
(***************************************************************************)
(* Values of the constants for the run of Detection: small windows, and    *)
(* thresholds that two transactions reach.                                 *)
(***************************************************************************)
EXTENDS Detection

CONSTANTS r1, r2, r3

MCConfig ==
    [large_transfer_threshold |-> 50,
     repeated_tx_window_secs |-> 2,
     repeated_tx_count_threshold |-> 2,
     frequency_window_secs |-> 2,
     frequency_count_threshold |-> 3,
     unusual_asset_movement_multiplier |-> 5,
     unusual_asset_min_history |-> 2,
     custom_thresholds |-> {},
     dormant_reactivation_gap_secs |-> 10,
     dormant_reactivation_min_amount |-> 20,
     wash_trading_window_secs |-> 2,
     new_account_history_threshold |-> 1,
     new_account_outflow_threshold |-> 40,
     cross_asset_conversion_window_secs |-> 2,
     cross_asset_conversion_count_threshold |-> 2]

Payment(hash, src, dst, asset, timestamp) ==
    [tx_hash |-> hash, source_account |-> src, destination_account |-> dst,
     asset |-> asset, amount |-> 8, timestamp |-> timestamp]

\* Two payments from A to B, one back, and one of A to itself.
MCTransaction ==
    {Payment("h1", "A", "B", "XLM", 1), Payment("h2", "A", "B", "USDC", 2),
     Payment("h3", "B", "A", "XLM", 3), Payment("h4", "A", "A", "XLM", 3)}

MCSymmetry == Permutations(Request)

=============================================================================
