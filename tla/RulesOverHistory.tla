-------------------------- MODULE RulesOverHistory --------------------------
(***************************************************************************)
(* The rules and the score of one transaction while the history of its     *)
(* account grows: what run_evaluation would answer for it at each moment.  *)
(***************************************************************************)
EXTENDS RulesEngine, Scoring

CONSTANTS
    Evaluated,   \* the transactions that may be evaluated
    Recorded,    \* the transactions the history may hold
    Flagged,     \* the flagged accounts
    MaxHistory   \* bound: transactions in the history

\* Every timestamp parses and every amount is a number: no NaN among them.
ASSUME RecordAssumption ==
    \A t \in Evaluated \cup Recorded : t.timestamp \in Int /\ t.amount \in Int

VARIABLES
    tx,          \* the transaction evaluated
    history      \* RuleContext.account_history

historyVars == <<tx, history>>

RulesInit == tx \in Evaluated /\ history = << >>

Record(h) ==
    /\ Len(history) < MaxHistory
    /\ history' = Append(history, h)
    /\ UNCHANGED tx

RulesNext == \E h \in Recorded : Record(h)

RulesSpec == RulesInit /\ [][RulesNext]_historyVars

triggered == evaluate(tx, history, Flagged)

-----------------------------------------------------------------------------
(* Properties *)

\* An evaluation that runs before a concurrent transaction is recorded may
\* miss a windowed trigger, but never reports one that the full history
\* would not confirm; and an account that is no longer new stays so.
MoreHistoryConfirms ==
    [][/\ RuleIds(triggered) \cap Windowed \subseteq RuleIds(triggered)'
       /\ "new_account_high_value_outflow" \in RuleIds(triggered)' =>
            "new_account_high_value_outflow" \in RuleIds(triggered)]_historyVars

\* The rules do not depend on the order of the history: it is handed to them
\* oldest first, where context.rs:14 asks for most recent first, and
\* concurrent requests are recorded in any order.
OrderIrrelevant ==
    \A i \in 1..(Len(history) - 1) :
      LET swapped == [history EXCEPT ![i] = history[i + 1],
                                     ![i + 1] = history[i]]
      IN  evaluate(tx, swapped, Flagged) = triggered

\* A transaction evaluated late is judged as it would have been in time: what
\* happened after it changes no rule but unusual_asset_movement, whose
\* average is taken over the whole history.
LaterTransactionsIgnored ==
    LET earlier == Select(history,
                          {h \in Recorded : h.timestamp <= tx.timestamp})
    IN  RuleIds(triggered) \ {"unusual_asset_movement"}
          = RuleIds(evaluate(tx, earlier, Flagged)) \ {"unusual_asset_movement"}

\* Dormancy, said without the latest earlier payment the code looks for: the
\* account has paid before, and never within the gap before this payment.
SilentThenActive ==
    LET sent == {i \in DOMAIN history :
                   /\ history[i].source_account = tx.source_account
                   /\ history[i].timestamp < tx.timestamp}
        recent == {i \in sent :
                     tx.timestamp - history[i].timestamp
                       < TicksPerSecond * config.dormant_reactivation_gap_secs}
    IN  "dormant_account_reactivation" \in RuleIds(triggered) <=>
          /\ tx.amount >= config.dormant_reactivation_min_amount
          /\ sent # {}
          /\ recent = {}

\* The severity of the alert, as a number that grows with it.
SeverityRank(triggers) ==
    weight_for(severity_for_score(compute_score(triggers)))

\* One more trigger never lowers the score, however the weights are ranked
\* and discounted, nor the severity of the alert.
ScoreGrowsWithTriggers ==
    [][\A before \in {triggered}, after \in {triggered'} :
         before \subseteq after =>
           /\ compute_score(before) <= compute_score(after)
           /\ SeverityRank(before) <= SeverityRank(after)]_historyVars

=============================================================================
