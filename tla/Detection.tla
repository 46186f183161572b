----------------------------- MODULE Detection -----------------------------
(***************************************************************************)
(* crates/api: the transaction handlers over AppState.  A request reads    *)
(* the history of the account, then the flagged accounts, runs the rules   *)
(* on what it read, creates an alert if any triggered, and (when it is the *)
(* POST of a transaction) records the transaction last.  Every store has a *)
(* lock of its own, so requests interleave between these steps.            *)
(*                                                                         *)
(* What the alert goes through afterwards is AlertLifecycle; here an alert *)
(* is what created it, and its accounts may become flagged at any time.    *)
(***************************************************************************)
EXTENDS RulesEngine

CONSTANTS
    Request,      \* HTTP requests; each is served once
    Account,
    Transaction,  \* transactions that clients post
    MaxHistory    \* MAX_HISTORY_PER_ACCOUNT

ASSUME MaxHistoryAssumption == MaxHistory \in Nat \ {0}

VARIABLES
    transactions,      \* AppState.transactions: the known ones
    tx_history,        \* AppState.tx_history
    flagged_accounts,  \* AppState.flagged_accounts
    alerts,            \* the alerts created, each with the request that did
    metrics,           \* the counters of GET /metrics these handlers bump
    recorded,          \* history: all transactions in the order of recording
    req                \* control state and locals of each request's task

stores == <<transactions, tx_history, flagged_accounts, alerts, metrics,
            recorded>>
vars == <<stores, req>>

Hash == {t.tx_hash : t \in Transaction}
NoTransaction == [tx_hash |-> "none"]

\* `tx_history` and the flagged accounts know the parties of a transaction.
ASSUME TransactionAssumption ==
    /\ NoTransaction \notin Transaction
    /\ \A t \in Transaction :
         /\ t.source_account \in Account
         /\ t.destination_account \in Account \cup {NoAccount}

\* What a request has read and found so far.  `seen` and `flags` (history)
\* are how much was recorded, and what was flagged, when it arrived.
Task(pc, tx, posted) ==
    [pc |-> pc, tx |-> tx, posted |-> posted, history |-> << >>, rules |-> {},
     seen |-> Len(recorded), flags |-> flagged_accounts]

Idle == [pc |-> "idle"]
Rejected == [pc |-> "rejected"]

TypeOK ==
    /\ transactions \in [Hash -> Transaction \cup {NoTransaction}]
    /\ tx_history \in [Account -> Seq(Transaction)]
    /\ \A a \in Account : Len(tx_history[a]) <= MaxHistory
    /\ flagged_accounts \subseteq Account
    /\ \A alert \in alerts : alert.by \in Request /\ alert.tx \in Transaction
    /\ metrics \in [transactions_ingested_total : Nat,
                    alerts_created_total : Nat]
    /\ recorded \in Seq(Transaction)
    /\ \A r \in Request :
         req[r].pc \in {"idle", "rejected", "read_history", "evaluate",
                        "create_alert", "insert", "push", "answered"}

Init ==
    /\ transactions = [h \in Hash |-> NoTransaction]
    /\ tx_history = [a \in Account |-> << >>]
    /\ flagged_accounts = {}
    /\ alerts = {}
    /\ metrics = [transactions_ingested_total |-> 0, alerts_created_total |-> 0]
    /\ recorded = << >>
    /\ req = [r \in Request |-> Idle]

At(r, label) == req[r].pc = label

-----------------------------------------------------------------------------
(* record_transaction *)

\* Mutant: a full history takes no new transaction.
push_bounded_full(history, tx) ==
    IF Len(history) < MaxHistory THEN Append(history, tx) ELSE history

\* The oldest transactions beyond the bound are drained.
push_bounded(history, tx) ==
    LET entry == Append(history, tx)
        excess == IF Len(entry) > MaxHistory THEN Len(entry) - MaxHistory ELSE 0
    IN  SubSeq(entry, excess + 1, Len(entry))

\* The accounts a transaction is filed under, a payment to oneself once.
Parties(tx) == {tx.source_account, tx.destination_account} \ {NoAccount}

Involving(log, account) ==
    Select(log, {t \in Transaction : account \in Parties(t)})

\* A history without the transaction itself.
Others(history, tx) ==
    Select(history, {t \in Transaction : t.tx_hash # tx.tx_hash})

-----------------------------------------------------------------------------
(* The handlers *)

\* ingest_and_evaluate
PostTransaction(r, tx) ==
    /\ At(r, "idle")
    /\ req' = [req EXCEPT ![r] = Task("read_history", tx, TRUE)]
    /\ UNCHANGED stores

\* evaluate_transaction: the stored transaction is looked up by hash.
EvaluateTransaction(r, hash) ==
    /\ At(r, "idle")
    /\ transactions[hash] # NoTransaction
    /\ req' = [req EXCEPT ![r] =
                 Task("read_history", transactions[hash], FALSE)]
    /\ UNCHANGED stores

\* No transaction has this hash (404).
TransactionNotFound(r, hash) ==
    /\ At(r, "idle")
    /\ transactions[hash] = NoTransaction
    /\ req' = [req EXCEPT ![r] = Rejected]
    /\ UNCHANGED stores

\* Mutant: the transaction itself stays in its history.
ReadHistoryUnfiltered(r) ==
    /\ At(r, "read_history")
    /\ req' = [req EXCEPT
                 ![r].pc = "evaluate",
                 ![r].history = tx_history[req[r].tx.source_account]]
    /\ UNCHANGED stores

\* run_evaluation: the history of the source account, without the
\* transaction itself.
ReadHistory(r) ==
    /\ At(r, "read_history")
    /\ LET tx == req[r].tx
       IN  req' = [req EXCEPT
                     ![r].pc = "evaluate",
                     ![r].history = Others(tx_history[tx.source_account], tx)]
    /\ UNCHANGED stores

\* Where a request goes when its evaluation, and the alert if any, is done.
AfterEvaluation(r) == IF req[r].posted THEN "insert" ELSE "answered"

\* Mutant: the flagged accounts are those of the moment the server started.
EvaluateWithoutFlags(r) ==
    /\ At(r, "evaluate")
    /\ LET rules == evaluate(req[r].tx, req[r].history, {})
       IN  req' = [req EXCEPT
                     ![r].rules = RuleIds(rules),
                     ![r].history = << >>,
                     ![r].pc = IF rules # {} THEN "create_alert"
                               ELSE AfterEvaluation(r)]
    /\ UNCHANGED stores

\* run_evaluation: snapshot the flagged accounts and run the rules.
Evaluate(r) ==
    /\ At(r, "evaluate")
    /\ LET rules == evaluate(req[r].tx, req[r].history, flagged_accounts)
       IN  req' = [req EXCEPT
                     ![r].rules = RuleIds(rules),
                     ![r].history = << >>,
                     ![r].pc = IF rules # {} THEN "create_alert"
                               ELSE AfterEvaluation(r)]
    /\ UNCHANGED stores

\* run_evaluation: some rule triggered, an alert is counted and created.
CreateAlert(r) ==
    /\ At(r, "create_alert")
    /\ alerts' = alerts \cup {[by |-> r, tx |-> req[r].tx]}
    /\ metrics' = [metrics EXCEPT !.alerts_created_total = @ + 1]
    /\ req' = [req EXCEPT ![r].pc = AfterEvaluation(r)]
    /\ UNCHANGED <<transactions, tx_history, flagged_accounts, recorded>>

\* Mutant: only a transaction that raised an alert is kept for look-up.
InsertSuspicious(r) ==
    /\ At(r, "insert")
    /\ transactions' = IF req[r].rules # {}
                       THEN [transactions EXCEPT
                               ![req[r].tx.tx_hash] = req[r].tx]
                       ELSE transactions
    /\ req' = [req EXCEPT ![r].pc = "push"]
    /\ UNCHANGED <<tx_history, flagged_accounts, alerts, metrics, recorded>>

\* record_transaction, first lock: the transaction by its hash, replacing
\* one posted before under the same hash.
InsertTransaction(r) ==
    /\ At(r, "insert")
    /\ transactions' = [transactions EXCEPT ![req[r].tx.tx_hash] = req[r].tx]
    /\ req' = [req EXCEPT ![r].pc = "push"]
    /\ UNCHANGED <<tx_history, flagged_accounts, alerts, metrics, recorded>>

\* Mutant: a transaction posted again is filed once and not counted again.
PushOnce(r) ==
    /\ At(r, "push")
    /\ LET tx == req[r].tx
       IN  IF tx \in ToSet(recorded)
           THEN UNCHANGED <<tx_history, metrics, recorded>>
           ELSE /\ tx_history' = [a \in Account |->
                     IF a \in Parties(tx)
                     THEN push_bounded(tx_history[a], tx) ELSE tx_history[a]]
                /\ recorded' = Append(recorded, tx)
                /\ metrics' =
                     [metrics EXCEPT !.transactions_ingested_total = @ + 1]
    /\ req' = [req EXCEPT ![r].pc = "answered"]
    /\ UNCHANGED <<transactions, flagged_accounts, alerts>>

\* Mutant: a payment is filed under its source account only.
PushHistoryOfSource(r) ==
    /\ At(r, "push")
    /\ LET tx == req[r].tx
       IN  /\ tx_history' = [tx_history EXCEPT ![tx.source_account] =
                                push_bounded(@, tx)]
           /\ recorded' = Append(recorded, tx)
    /\ metrics' = [metrics EXCEPT !.transactions_ingested_total = @ + 1]
    /\ req' = [req EXCEPT ![r].pc = "answered"]
    /\ UNCHANGED <<transactions, flagged_accounts, alerts>>

\* record_transaction, second lock: the history of both parties; then the
\* counter, and the answer.
PushHistory(r) ==
    /\ At(r, "push")
    /\ LET tx == req[r].tx
       IN  /\ tx_history' = [a \in Account |->
                IF a \in Parties(tx) THEN push_bounded(tx_history[a], tx)
                ELSE tx_history[a]]
           /\ recorded' = Append(recorded, tx)
    /\ metrics' = [metrics EXCEPT !.transactions_ingested_total = @ + 1]
    /\ req' = [req EXCEPT ![r].pc = "answered"]
    /\ UNCHANGED <<transactions, flagged_accounts, alerts>>

\* submit_decision confirms an alert: its accounts become flagged.
FlagAccounts(alert) ==
    /\ flagged_accounts' = flagged_accounts \cup Parties(alert.tx)
    /\ UNCHANGED <<transactions, tx_history, alerts, metrics, recorded, req>>

-----------------------------------------------------------------------------
Next ==
    \/ \E r \in Request :
         \/ \E tx \in Transaction : PostTransaction(r, tx)
         \/ \E hash \in Hash :
              EvaluateTransaction(r, hash) \/ TransactionNotFound(r, hash)
         \/ ReadHistory(r)
         \/ Evaluate(r)
         \/ CreateAlert(r)
         \/ InsertTransaction(r)
         \/ PushHistory(r)
    \/ \E alert \in alerts : FlagAccounts(alert)

Spec == Init /\ [][Next]_vars

-----------------------------------------------------------------------------
(* Properties *)

Answered(r) == At(r, "answered")

Quiescent == \A r \in Request : req[r].pc \in {"idle", "rejected", "answered"}

\* The history of every account is the latest of what was recorded for it,
\* in the order of recording, whichever requests recorded it: the two sides
\* of a payment are never filed in a different order.
HistoryIsRecent ==
    \A a \in Account :
      LET all == Involving(recorded, a)
          excess == IF Len(all) > MaxHistory THEN Len(all) - MaxHistory ELSE 0
      IN  tx_history[a] = SubSeq(all, excess + 1, Len(all))

\* A transaction that counts in the history of an account can be looked up
\* by its hash, at every moment between the two locks that record it.
HistoryCanBeLookedUp ==
    \A a \in Account : \A t \in ToSet(tx_history[a]) :
      transactions[t.tx_hash] # NoTransaction

\* An account flagged before a request arrived is caught by it: the rule
\* triggers, and an alert is created.
FlaggedAccountsCaught ==
    \A r \in Request :
      Answered(r) /\ Parties(req[r].tx) \cap req[r].flags # {} =>
        /\ "flagged_account_interaction" \in req[r].rules
        /\ [by |-> r, tx |-> req[r].tx] \in alerts

\* What the windowed rules say of a transaction when the transactions in
\* log, other than itself, have been recorded.
WindowedRules(tx, log) ==
    Windowed \cap RuleIds(evaluate(tx,
                 Others(Involving(log, tx.source_account), tx), {}))

\* Every transaction answered before a request arrived counts in it: a
\* pattern complete at that moment is caught, unless the history has
\* overflowed since.  (Requests in flight together may miss each other.)
AnsweredTransactionsCount ==
    \A r \in Request :
      /\ Answered(r)
      /\ Len(Involving(recorded, req[r].tx.source_account)) <= MaxHistory
      => WindowedRules(req[r].tx, SubSeq(recorded, 1, req[r].seen))
           \subseteq req[r].rules

\* No windowed trigger without the transactions that justify it, all of them
\* other than the one evaluated, however often that is evaluated again.
TriggersJustified ==
    \A r \in Request :
      Answered(r) =>
        req[r].rules \cap Windowed \subseteq WindowedRules(req[r].tx, recorded)

\* With no request in flight, every POST that was answered has been recorded
\* and counted once, and every alert is counted.
IngestionAccounted ==
    Quiescent =>
      /\ Len(recorded) = Cardinality({r \in Request : Answered(r)
                                                      /\ req[r].posted})
      /\ metrics.transactions_ingested_total = Len(recorded)
      /\ metrics.alerts_created_total = Cardinality(alerts)

=============================================================================
