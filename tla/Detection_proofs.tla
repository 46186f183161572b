--------------------------- MODULE Detection_proofs ---------------------------
(***************************************************************************)
(* What the transaction handlers guarantee for any number of requests,     *)
(* accounts and transactions, any configuration of the rules and any bound *)
(* on the histories.                                                       *)
(***************************************************************************)
EXTENDS Detection, RulesEngine_proofs

Label ==
    {"read_history", "evaluate", "create_alert", "insert", "push", "answered"}

Active(s) ==
    /\ DOMAIN s = {"pc", "tx", "posted", "history", "rules", "seen", "flags"}
    /\ s.pc \in Label
    /\ s.tx \in Transaction

DetectionType ==
    /\ transactions \in [Hash -> Transaction \cup {NoTransaction}]
    /\ tx_history \in [Account -> Seq(Transaction)]
    /\ metrics \in [transactions_ingested_total : Nat,
                    alerts_created_total : Nat]
    /\ recorded \in Seq(Transaction)
    /\ DOMAIN req = Request
    /\ \A r \in Request : req[r] \in {Idle, Rejected} \/ Active(req[r])

-----------------------------------------------------------------------------
(* Steps *)

\* What a step does to the request it serves: it arrives, is refused, or
\* goes from one label to a later one with the same transaction and flags.
Arrives(r, tx, posted) ==
    /\ At(r, "idle")
    /\ tx \in Transaction
    /\ req' = [req EXCEPT ![r] = Task("read_history", tx, posted)]
    /\ UNCHANGED stores

Refused(r) ==
    At(r, "idle") /\ req' = [req EXCEPT ![r] = Rejected] /\ UNCHANGED stores

Moved(r, label) ==
    /\ Active(req[r]) /\ Active(req'[r])
    /\ req'[r].pc = label
    /\ req'[r].tx = req[r].tx
    /\ req'[r].posted = req[r].posted
    /\ req'[r].flags = req[r].flags
    /\ req'[r].seen = req[r].seen
    /\ DOMAIN req' = Request
    /\ \A q \in Request \ {r} : req'[q] = req[q]

\* What the rules found is kept from the evaluation on.
RulesKept(r) == req'[r].rules = req[r].rules

LEMMA ActiveAt ==
    ASSUME DetectionType, NEW r \in Request, req[r].pc \in Label
    PROVE  Active(req[r])
BY DEF DetectionType, Label, Idle, Rejected

LEMMA DetectionSteps ==
    ASSUME DetectionType, Next
    PROVE  \/ \E r \in Request :
              \/ \E tx \in Transaction, p \in BOOLEAN : Arrives(r, tx, p)
              \/ Refused(r)
              \/ ReadHistory(r) /\ Moved(r, "evaluate")
              \/ /\ Evaluate(r)
                 /\ Moved(r, "create_alert") \/ Moved(r, AfterEvaluation(r))
                 /\ req'[r].rules =
                      RuleIds(evaluate(req[r].tx, req[r].history,
                                       flagged_accounts))
                 /\ evaluate(req[r].tx, req[r].history, flagged_accounts) # {}
                      => Moved(r, "create_alert")
              \/ CreateAlert(r) /\ Moved(r, AfterEvaluation(r)) /\ RulesKept(r)
              \/ InsertTransaction(r) /\ Moved(r, "push") /\ RulesKept(r)
              \/ PushHistory(r) /\ Moved(r, "answered") /\ RulesKept(r)
           \/ \E alert \in alerts : FlagAccounts(alert)
<1>. USE DEF DetectionType
<1>1. ASSUME NEW r \in Request, NEW tx \in Transaction, PostTransaction(r, tx)
      PROVE  Arrives(r, tx, TRUE)
  BY <1>1 DEF PostTransaction, Arrives
<1>2. ASSUME NEW r \in Request, NEW h \in Hash, EvaluateTransaction(r, h)
      PROVE  \E tx \in Transaction : Arrives(r, tx, FALSE)
  BY <1>2 DEF EvaluateTransaction, Arrives
<1>3. ASSUME NEW r \in Request, NEW h \in Hash, TransactionNotFound(r, h)
      PROVE  Refused(r)
  BY <1>3 DEF TransactionNotFound, Refused
<1>4. ASSUME NEW r \in Request, NEW label \in Label, NEW h, NEW rules,
             Active(req[r]),
             req' = [req EXCEPT ![r] = [req[r] EXCEPT !.pc = label, !.history = h,
                                                      !.rules = rules]]
      PROVE  Moved(r, label) /\ req'[r].rules = rules
  BY <1>4 DEF Moved, Active
<1>5. ASSUME NEW r \in Request, NEW label \in Label, Active(req[r]),
             req' = [req EXCEPT ![r].pc = label]
      PROVE  Moved(r, label) /\ RulesKept(r)
  BY <1>5 DEF Moved, Active, RulesKept
<1>6. ASSUME NEW r \in Request, ReadHistory(r)
      PROVE  Moved(r, "evaluate")
  <2>1. Active(req[r])
    BY <1>6, ActiveAt DEF ReadHistory, At, Label
  <2>2. PICK h : req' = [req EXCEPT ![r] = [req[r] EXCEPT !.pc = "evaluate",
                                                         !.history = h]]
    BY <1>6 DEF ReadHistory
  <2>. QED BY <2>1, <2>2 DEF Moved, Active, Label
<1>7. ASSUME NEW r \in Request, Evaluate(r)
      PROVE  /\ Moved(r, "create_alert") \/ Moved(r, AfterEvaluation(r))
             /\ req'[r].rules =
                  RuleIds(evaluate(req[r].tx, req[r].history, flagged_accounts))
             /\ evaluate(req[r].tx, req[r].history, flagged_accounts) # {}
                  => Moved(r, "create_alert")
  <2>. DEFINE rules == evaluate(req[r].tx, req[r].history, flagged_accounts)
              label == IF rules # {} THEN "create_alert" ELSE AfterEvaluation(r)
              ids == RuleIds(rules)
  <2>1. Active(req[r]) /\ label \in Label
    BY <1>7, ActiveAt DEF Evaluate, At, Label, AfterEvaluation
  <2>2. req' = [req EXCEPT ![r] = [req[r] EXCEPT !.pc = label, !.history = << >>,
                                                 !.rules = ids]]
    BY <1>7 DEF Evaluate
  <2>3. Moved(r, label) /\ req'[r].rules = ids
    <3>. HIDE DEF label, ids
    <3>. QED BY <1>4, <2>1, <2>2
  <2>. QED BY <2>3
<1>8. ASSUME NEW r \in Request, CreateAlert(r)
      PROVE  Moved(r, AfterEvaluation(r)) /\ RulesKept(r)
  <2>1. Active(req[r])
    BY <1>8, ActiveAt DEF CreateAlert, At, Label
  <2>2. AfterEvaluation(r) \in Label
    BY DEF AfterEvaluation, Label
  <2>. QED BY <1>5, <1>8, <2>1, <2>2 DEF CreateAlert
<1>9. ASSUME NEW r \in Request, InsertTransaction(r)
      PROVE  Moved(r, "push") /\ RulesKept(r)
  <2>1. Active(req[r]) /\ "push" \in Label
    BY <1>9, ActiveAt DEF InsertTransaction, At, Label
  <2>. QED BY <1>5, <1>9, <2>1 DEF InsertTransaction
<1>10. ASSUME NEW r \in Request, PushHistory(r)
       PROVE  Moved(r, "answered") /\ RulesKept(r)
  <2>1. Active(req[r]) /\ "answered" \in Label
    BY <1>10, ActiveAt DEF PushHistory, At, Label
  <2>. QED BY <1>5, <1>10, <2>1 DEF PushHistory
<1>. QED BY <1>1, <1>2, <1>3, <1>6, <1>7, <1>8, <1>9, <1>10 DEF Next

\* What filing a transaction does to a history.
LEMMA PushBounded ==
    ASSUME NEW history \in Seq(Transaction), NEW tx \in Transaction
    PROVE  /\ push_bounded(history, tx) \in Seq(Transaction)
           /\ Len(push_bounded(history, tx)) <= MaxHistory
           /\ ToSet(push_bounded(history, tx)) \subseteq ToSet(history) \cup {tx}
<1>. DEFINE entry == Append(history, tx)
            excess == IF Len(entry) > MaxHistory
                      THEN Len(entry) - MaxHistory ELSE 0
            new == SubSeq(entry, excess + 1, Len(entry))
<1>. USE MaxHistoryAssumption
<1>1. entry \in Seq(Transaction) /\ Len(entry) = Len(history) + 1
      /\ \A i \in 1..Len(entry) : entry[i] \in ToSet(history) \cup {tx}
  BY DEF ToSet
<1>. HIDE DEF entry
<1>2. excess \in Nat /\ excess <= Len(entry) /\ Len(entry) - excess <= MaxHistory
  BY <1>1
<1>. HIDE DEF excess
<1>3. new \in Seq(Transaction) /\ Len(new) = Len(entry) - excess
      /\ \A i \in 1..Len(new) : new[i] = entry[i + excess]
  BY <1>1, <1>2
<1>4. \A i \in 1..Len(new) : new[i] \in ToSet(history) \cup {tx}
  BY <1>1, <1>2, <1>3
<1>5. ToSet(new) \subseteq ToSet(history) \cup {tx}
  <2>. HIDE DEF new
  <2>. QED BY <1>3, <1>4 DEF ToSet
<1>. QED BY <1>2, <1>3, <1>5 DEF push_bounded, entry, excess

-----------------------------------------------------------------------------
(* Types, and what can be looked up *)

\* Between the two locks of record_transaction the transaction is known.
InsertedIsKnown ==
    \A r \in Request :
      At(r, "push") => transactions[req[r].tx.tx_hash] # NoTransaction

HistoryBounded == \A a \in Account : Len(tx_history[a]) <= MaxHistory

FlagsAreAccounts ==
    /\ flagged_accounts \subseteq Account
    /\ \A alert \in alerts : alert.by \in Request /\ alert.tx \in Transaction

DInv ==
    /\ DetectionType
    /\ HistoryBounded
    /\ FlagsAreAccounts
    /\ InsertedIsKnown
    /\ HistoryCanBeLookedUp

LEMMA DetectionStart == Init => DInv
<1> SUFFICES ASSUME Init PROVE DInv
  OBVIOUS
<1>1. DetectionType
  BY DEF Init, DetectionType
<1>2. HistoryBounded /\ HistoryCanBeLookedUp
  BY MaxHistoryAssumption DEF Init, HistoryBounded, HistoryCanBeLookedUp, ToSet
<1>3. InsertedIsKnown /\ FlagsAreAccounts
  BY DEF Init, InsertedIsKnown, FlagsAreAccounts, Idle, At
<1>. QED BY <1>1, <1>2, <1>3 DEF DInv

LEMMA KnownStays ==
    ASSUME DetectionType, NEW r \in Request, InsertTransaction(r),
           Active(req[r])
    PROVE  /\ transactions' \in [Hash -> Transaction \cup {NoTransaction}]
           /\ transactions'[req[r].tx.tx_hash] # NoTransaction
           /\ \A h \in Hash : transactions[h] # NoTransaction
                => transactions'[h] # NoTransaction
<1>1. req[r].tx \in Transaction /\ req[r].tx.tx_hash \in Hash
      /\ req[r].tx # NoTransaction
  BY TransactionAssumption DEF Active, Hash
<1>2. transactions' = [transactions EXCEPT ![req[r].tx.tx_hash] = req[r].tx]
  BY DEF InsertTransaction
<1>. QED BY <1>1, <1>2 DEF DetectionType

LEMMA DetectionStep == DInv /\ [Next]_vars => DInv'
<1> SUFFICES ASSUME DInv, [Next]_vars PROVE DInv'
  OBVIOUS
<1>. USE DEF DInv
<1>0. \A t \in Transaction : t.tx_hash \in Hash
  BY DEF Hash
<1>1. ASSUME NEW r \in Request,
             \/ \E tx \in Transaction, p \in BOOLEAN : Arrives(r, tx, p)
             \/ Refused(r)
      PROVE  DInv'
  <2>1. UNCHANGED stores
        /\ \E s : /\ req' = [req EXCEPT ![r] = s]
                 /\ s.pc # "push" /\ (s = Rejected \/ Active(s))
    <3>1. CASE Refused(r)
      BY <1>1, <3>1 DEF Refused, Rejected
    <3>2. ASSUME NEW tx \in Transaction, NEW p \in BOOLEAN, Arrives(r, tx, p)
          PROVE  UNCHANGED stores
                 /\ \E s : /\ req' = [req EXCEPT ![r] = s]
                          /\ s.pc # "push" /\ (s = Rejected \/ Active(s))
      <4>. DEFINE s == Task("read_history", tx, p)
      <4>1. s.pc # "push" /\ Active(s)
        BY DEF Task, Active, Label
      <4>. HIDE DEF s
      <4>. QED BY <3>2, <4>1 DEF Arrives, s
    <3>. QED BY <1>1, <3>1, <3>2
  <2>2. PICK s : /\ req' = [req EXCEPT ![r] = s]
                 /\ s.pc # "push" /\ (s = Rejected \/ Active(s))
    BY <2>1
  <2>3. DOMAIN req' = Request
        /\ \A q \in Request : req'[q] = IF q = r THEN s ELSE req[q]
    BY <2>2 DEF DetectionType
  <2>4. DetectionType'
    BY <2>1, <2>2, <2>3 DEF stores, DetectionType
  <2>5. InsertedIsKnown'
    BY <2>1, <2>2, <2>3 DEF stores, InsertedIsKnown, At
  <2>. QED BY <2>1, <2>4, <2>5
           DEF stores, HistoryBounded, FlagsAreAccounts, HistoryCanBeLookedUp
<1>2. ASSUME NEW r \in Request, NEW label, Moved(r, label)
      PROVE  /\ DOMAIN req' = Request
             /\ \A q \in Request : req'[q] \in {Idle, Rejected} \/ Active(req'[q])
             /\ \A q \in Request \ {r} : req'[q] = req[q]
  BY <1>2 DEF Moved, DetectionType
<1>3. ASSUME NEW r \in Request, NEW label, Moved(r, label), label # "push",
             UNCHANGED <<transactions, tx_history, flagged_accounts, recorded>>,
             metrics' \in [transactions_ingested_total : Nat,
                           alerts_created_total : Nat],
             FlagsAreAccounts'
      PROVE  DInv'
  <2>1. DetectionType'
    BY <1>2, <1>3 DEF DetectionType
  <2>2. InsertedIsKnown'
    BY <1>2, <1>3 DEF InsertedIsKnown, At, Moved
  <2>. QED BY <1>3, <2>1, <2>2 DEF HistoryBounded, HistoryCanBeLookedUp
<1>4. ASSUME NEW r \in Request, ReadHistory(r), Moved(r, "evaluate")
      PROVE  DInv'
  BY <1>3, <1>4 DEF ReadHistory, stores, DetectionType, FlagsAreAccounts
<1>5. ASSUME NEW r \in Request, Evaluate(r),
             Moved(r, "create_alert") \/ Moved(r, AfterEvaluation(r))
      PROVE  DInv'
  BY <1>3, <1>5 DEF Evaluate, stores, DetectionType, FlagsAreAccounts,
                    AfterEvaluation
<1>6. ASSUME NEW r \in Request, CreateAlert(r), Moved(r, AfterEvaluation(r))
      PROVE  DInv'
  <2>1. metrics' \in [transactions_ingested_total : Nat,
                      alerts_created_total : Nat]
    BY <1>6 DEF CreateAlert, DetectionType
  <2>2. FlagsAreAccounts'
    BY <1>6 DEF CreateAlert, FlagsAreAccounts, Moved, Active
  <2>3. AfterEvaluation(r) # "push"
    BY DEF AfterEvaluation
  <2>. QED BY <1>3, <1>6, <2>1, <2>2, <2>3 DEF CreateAlert
<1>7. ASSUME NEW r \in Request, InsertTransaction(r), Moved(r, "push")
      PROVE  DInv'
  <2>1. /\ transactions' \in [Hash -> Transaction \cup {NoTransaction}]
        /\ transactions'[req[r].tx.tx_hash] # NoTransaction
        /\ \A h \in Hash : transactions[h] # NoTransaction
             => transactions'[h] # NoTransaction
    BY <1>7, KnownStays DEF Moved
  <2>2. UNCHANGED <<tx_history, flagged_accounts, alerts, metrics, recorded>>
    BY <1>7 DEF InsertTransaction
  <2>3. DetectionType' /\ HistoryBounded' /\ FlagsAreAccounts'
    BY <1>2, <1>7, <2>1, <2>2 DEF DetectionType, HistoryBounded, FlagsAreAccounts
  <2>4. InsertedIsKnown'
    <3> SUFFICES ASSUME NEW q \in Request, req'[q].pc = "push"
                 PROVE  transactions'[req'[q].tx.tx_hash] # NoTransaction
      BY DEF InsertedIsKnown, At
    <3>1. CASE q = r
      BY <1>7, <2>1, <3>1 DEF Moved
    <3>2. CASE q # r
      <4>1. req'[q] = req[q] /\ Active(req[q])
        BY <1>2, <1>7, <3>2, ActiveAt DEF Label
      <4>. QED BY <1>0, <2>1, <4>1 DEF InsertedIsKnown, At, Active
    <3>. QED BY <3>1, <3>2
  <2>5. HistoryCanBeLookedUp'
    <3> SUFFICES ASSUME NEW a \in Account, NEW t \in ToSet(tx_history[a])
                 PROVE  transactions'[t.tx_hash] # NoTransaction
      BY <2>2 DEF HistoryCanBeLookedUp
    <3>1. t \in Transaction
      BY DEF ToSet, DetectionType
    <3>. QED BY <1>0, <2>1, <3>1 DEF HistoryCanBeLookedUp
  <2>. QED BY <2>3, <2>4, <2>5
<1>8. ASSUME NEW r \in Request, PushHistory(r), Moved(r, "answered")
      PROVE  DInv'
  <2>. DEFINE tx == req[r].tx
  <2>1. /\ tx_history' = [a \in Account |->
              IF a \in Parties(tx) THEN push_bounded(tx_history[a], tx)
              ELSE tx_history[a]]
        /\ recorded' = Append(recorded, tx)
        /\ metrics' = [metrics EXCEPT !.transactions_ingested_total = @ + 1]
        /\ UNCHANGED <<transactions, flagged_accounts, alerts>>
        /\ At(r, "push")
    BY <1>8 DEF PushHistory
  <2>2. tx \in Transaction
    BY <1>8 DEF Moved, Active
  <2>. HIDE DEF tx
  <2>3. \A a \in Account :
          /\ tx_history'[a] \in Seq(Transaction)
          /\ Len(tx_history'[a]) <= MaxHistory
          /\ ToSet(tx_history'[a]) \subseteq ToSet(tx_history[a]) \cup {tx}
    <3> SUFFICES ASSUME NEW a \in Account
                 PROVE  /\ tx_history'[a] \in Seq(Transaction)
                        /\ Len(tx_history'[a]) <= MaxHistory
                        /\ ToSet(tx_history'[a])
                             \subseteq ToSet(tx_history[a]) \cup {tx}
      OBVIOUS
    <3>1. tx_history[a] \in Seq(Transaction) /\ Len(tx_history[a]) <= MaxHistory
      BY DEF DetectionType, HistoryBounded
    <3>2. CASE a \in Parties(tx)
      <4>1. tx_history'[a] = push_bounded(tx_history[a], tx)
        BY <2>1, <3>2
      <4>. QED BY <2>2, <3>1, <4>1, PushBounded
    <3>3. CASE a \notin Parties(tx)
      BY <2>1, <3>1, <3>3
    <3>. QED BY <3>2, <3>3
  <2>4. DetectionType'
    <3>1. tx_history' \in [Account -> Seq(Transaction)]
      BY <2>1, <2>3
    <3>2. recorded' \in Seq(Transaction)
      BY <2>1, <2>2 DEF DetectionType
    <3>3. metrics' \in [transactions_ingested_total : Nat,
                        alerts_created_total : Nat]
      BY <2>1 DEF DetectionType
    <3>. QED BY <1>2, <1>8, <2>1, <3>1, <3>2, <3>3 DEF DetectionType
  <2>5. HistoryBounded' /\ FlagsAreAccounts'
    BY <2>1, <2>3 DEF HistoryBounded, FlagsAreAccounts
  <2>6. InsertedIsKnown'
    BY <1>2, <1>8, <2>1 DEF InsertedIsKnown, At, Moved
  <2>7. HistoryCanBeLookedUp'
    <3>1. transactions[tx.tx_hash] # NoTransaction
      BY <2>1 DEF InsertedIsKnown, tx
    <3>. QED BY <2>1, <2>3, <3>1 DEF HistoryCanBeLookedUp
  <2>. QED BY <2>4, <2>5, <2>6, <2>7
<1>9. ASSUME NEW alert \in alerts, FlagAccounts(alert)
      PROVE  DInv'
  <2>1. Parties(alert.tx) \subseteq Account
    BY TransactionAssumption DEF FlagsAreAccounts, Parties
  <2>. QED BY <1>9, <2>1
       DEF FlagAccounts, DetectionType, HistoryBounded, FlagsAreAccounts,
           InsertedIsKnown, HistoryCanBeLookedUp, At
<1>10. CASE UNCHANGED vars
  BY <1>10 DEF vars, stores, DetectionType, HistoryBounded, FlagsAreAccounts,
               InsertedIsKnown, HistoryCanBeLookedUp, At
<1>. QED BY <1>1, <1>4, <1>5, <1>6, <1>7, <1>8, <1>9, <1>10, DetectionSteps

LEMMA DetectionInvariant == Spec => []DInv
BY DetectionStart, DetectionStep, PTL DEF Spec

\* The stores and the requests keep their types, and no history is longer
\* than its bound, whatever requests interleave.
THEOREM DetectionTypeCorrect == Spec => []TypeOK
<1>1. DInv => TypeOK
  BY DEF DInv, DetectionType, HistoryBounded, FlagsAreAccounts, TypeOK, Active,
         Label, Idle, Rejected
<1>. QED BY <1>1, DetectionInvariant, PTL

\* Every transaction in a history is known by its hash, because the lock
\* that files it comes after the one that stores it (InsertedIsKnown).
THEOREM FiledIsKnown == Spec => []HistoryCanBeLookedUp
<1>1. DInv => HistoryCanBeLookedUp
  BY DEF DInv
<1>. QED BY <1>1, DetectionInvariant, PTL

-----------------------------------------------------------------------------
(* Flagged accounts *)

Evaluated == {"create_alert", "insert", "push", "answered"}

LEMMA FlagTriggers ==
    ASSUME NEW tx, NEW history, NEW flagged, Parties(tx) \cap flagged # {}
    PROVE  /\ evaluate(tx, history, flagged) # {}
           /\ "flagged_account_interaction"
                \in RuleIds(evaluate(tx, history, flagged))
<1>1. flagged_account_interaction(tx, flagged)
        = {Trigger("flagged_account_interaction", "high")}
  BY DEF flagged_account_interaction, Triggers, Parties
<1>2. Trigger("flagged_account_interaction", "high")
        \in evaluate(tx, history, flagged)
  BY <1>1 DEF evaluate
<1>. QED BY <1>2 DEF RuleIds, Trigger

\* Flags are never removed, so what was flagged when a request arrived still
\* is when it takes its snapshot of them; what it finds then leads to an
\* alert before it records anything.
FlagsWatched ==
    \A r \in Request :
      req[r].pc \in Label =>
        /\ req[r].flags \subseteq flagged_accounts
        /\ req[r].pc \in Evaluated /\ Parties(req[r].tx) \cap req[r].flags # {}
             => /\ "flagged_account_interaction" \in req[r].rules
                /\ req[r].pc # "create_alert" =>
                     [by |-> r, tx |-> req[r].tx] \in alerts

LEMMA FlagsStayWatched ==
    ASSUME DInv, FlagsWatched, [Next]_vars
    PROVE  FlagsWatched'
<1>0. DetectionType
  BY DEF DInv
<1>. USE DEF FlagsWatched
<1>1. flagged_accounts \subseteq flagged_accounts' /\ alerts \subseteq alerts'
  BY DEF Next, vars, stores, PostTransaction, EvaluateTransaction,
         TransactionNotFound, ReadHistory, Evaluate, CreateAlert,
         InsertTransaction, PushHistory, FlagAccounts
<1>2. ASSUME NEW r \in Request, NEW s, req' = [req EXCEPT ![r] = s],
             s.pc \notin Evaluated, s.pc \in Label => s.flags = flagged_accounts
      PROVE  FlagsWatched'
  <2>1. \A q \in Request : req'[q] = IF q = r THEN s ELSE req[q]
    BY <1>0, <1>2 DEF DetectionType
  <2>. QED BY <1>1, <1>2, <2>1
<1>3. ASSUME NEW r \in Request, NEW label, Moved(r, label),
             label \in Evaluated /\ Parties(req[r].tx) \cap req[r].flags # {}
               => /\ "flagged_account_interaction" \in req'[r].rules
                  /\ label # "create_alert" =>
                       [by |-> r, tx |-> req[r].tx] \in alerts'
      PROVE  FlagsWatched'
  <2>1. req[r].flags \subseteq flagged_accounts
    BY <1>3 DEF Moved, Active
  <2>2. \A q \in Request \ {r} : req'[q] = req[q]
    BY <1>3 DEF Moved
  <2>. QED BY <1>1, <1>3, <2>1, <2>2 DEF Moved
<1>4. ASSUME NEW r \in Request, NEW tx \in Transaction, NEW p \in BOOLEAN,
             Arrives(r, tx, p)
      PROVE  FlagsWatched'
  <2>. DEFINE s == Task("read_history", tx, p)
  <2>1. s.pc \notin Evaluated /\ s.flags = flagged_accounts
    BY DEF Task, Evaluated
  <2>. HIDE DEF s
  <2>. QED BY <1>2, <1>4, <2>1 DEF Arrives, s
<1>5. ASSUME NEW r \in Request, Refused(r)
      PROVE  FlagsWatched'
  <2>1. Rejected.pc \notin Evaluated /\ Rejected.pc \notin Label
    BY DEF Rejected, Evaluated, Label
  <2>. QED BY <1>2, <1>5, <2>1 DEF Refused
<1>6. ASSUME NEW r \in Request, ReadHistory(r), Moved(r, "evaluate")
      PROVE  FlagsWatched'
  BY <1>3, <1>6 DEF Evaluated
<1>7. ASSUME NEW r \in Request, Evaluate(r),
             Moved(r, "create_alert") \/ Moved(r, AfterEvaluation(r)),
             req'[r].rules = RuleIds(evaluate(req[r].tx, req[r].history,
                                              flagged_accounts)),
             evaluate(req[r].tx, req[r].history, flagged_accounts) # {}
               => Moved(r, "create_alert")
      PROVE  FlagsWatched'
  <2>1. Active(req[r])
    BY <1>7 DEF Moved
  <2>2. CASE Parties(req[r].tx) \cap req[r].flags # {}
    <3>1. Parties(req[r].tx) \cap flagged_accounts # {}
      BY <2>1, <2>2 DEF Active
    <3>2. Moved(r, "create_alert")
          /\ "flagged_account_interaction" \in req'[r].rules
      BY <1>7, <3>1, FlagTriggers
    <3>. QED BY <1>3, <3>2
  <2>3. CASE Parties(req[r].tx) \cap req[r].flags = {}
    BY <1>3, <1>7, <2>3
  <2>. QED BY <2>2, <2>3
<1>8. ASSUME NEW r \in Request, CreateAlert(r), Moved(r, AfterEvaluation(r)),
             RulesKept(r)
      PROVE  FlagsWatched'
  <2>1. req[r].pc = "create_alert" /\ "create_alert" \in Evaluated \cap Label
        /\ [by |-> r, tx |-> req[r].tx] \in alerts'
    BY <1>8 DEF CreateAlert, At, Evaluated, Label
  <2>. QED BY <1>3, <1>8, <2>1 DEF RulesKept
<1>9. ASSUME NEW r \in Request, NEW label, Moved(r, label), RulesKept(r),
             req[r].pc \in {"insert", "push"}
      PROVE  FlagsWatched'
  <2>1. req[r].pc \in Evaluated \cap Label /\ req[r].pc # "create_alert"
    BY <1>9 DEF Evaluated, Label
  <2>. QED BY <1>1, <1>3, <1>9, <2>1 DEF RulesKept
<1>10. ASSUME UNCHANGED req
       PROVE  FlagsWatched'
  BY <1>1, <1>10
<1>11. CASE UNCHANGED vars
  BY <1>10, <1>11 DEF vars
<1>12. CASE \E alert \in alerts : FlagAccounts(alert)
  BY <1>10, <1>12 DEF FlagAccounts
<1>. QED BY <1>0, <1>4, <1>5, <1>6, <1>7, <1>8, <1>9, <1>11, <1>12,
            DetectionSteps DEF InsertTransaction, PushHistory, At

\* A payment from or to an account that was flagged when the request arrived
\* triggers the rule and has an alert when the request is answered.
THEOREM FlaggedAreCaught == Spec => []FlaggedAccountsCaught
<1>1. Init => FlagsWatched
  BY DEF Init, FlagsWatched, Idle, Label
<1>2. DInv /\ FlagsWatched /\ [Next]_vars => FlagsWatched'
  BY FlagsStayWatched
<1>3. FlagsWatched => FlaggedAccountsCaught
  BY DEF FlagsWatched, FlaggedAccountsCaught, Answered, At, Label, Evaluated
<1>. QED BY <1>1, <1>2, <1>3, DetectionInvariant, PTL DEF Spec

-----------------------------------------------------------------------------
(* Counting *)

\* The POSTs that were answered.
Posted == {r \in Request : At(r, "answered") /\ req[r].posted}

\* Recorded transactions and created alerts are counted at every moment; only
\* a POST gets to record, and an alert's request is past its creation.
Counted ==
    /\ IsFiniteSet(Posted)
    /\ Len(recorded) = Cardinality(Posted)
    /\ metrics.transactions_ingested_total = Len(recorded)
    /\ IsFiniteSet(alerts)
    /\ metrics.alerts_created_total = Cardinality(alerts)
    /\ \A r \in Request : req[r].pc \in {"insert", "push"} => req[r].posted
    /\ \A alert \in alerts :
         req[alert.by].pc \in {"insert", "push", "answered"}

LEMMA CountsStay ==
    ASSUME DInv, Counted, [Next]_vars
    PROVE  Counted'
<1>0. DetectionType /\ FlagsAreAccounts
  BY DEF DInv
<1>. USE DEF Counted
<1>1. ASSUME NEW r \in Request, NEW s, req' = [req EXCEPT ![r] = s],
             At(r, "idle"), UNCHANGED stores,
             s.pc \notin {"insert", "push", "answered"}
      PROVE  Counted'
  <2>1. \A q \in Request : req'[q] = IF q = r THEN s ELSE req[q]
    BY <1>0, <1>1 DEF DetectionType
  <2>2. Posted' = Posted
    BY <1>1, <2>1 DEF Posted, At
  <2>3. \A alert \in alerts : alert.by # r /\ alert.by \in Request
    BY <1>0, <1>1 DEF At, FlagsAreAccounts
  <2>. QED BY <1>1, <2>1, <2>2, <2>3 DEF stores
<1>2. ASSUME NEW r \in Request, NEW label, Moved(r, label),
             label = "answered" => ~req[r].posted,
             req[r].pc # "answered",
             label \in {"insert", "push"} => req[r].posted,
             UNCHANGED recorded,
             metrics'.transactions_ingested_total
               = metrics.transactions_ingested_total,
             IsFiniteSet(alerts'),
             metrics'.alerts_created_total = Cardinality(alerts'),
             \A alert \in alerts' :
               \/ alert.by = r /\ label \in {"insert", "push", "answered"}
               \/ alert \in alerts /\ alert.by # r
      PROVE  Counted'
  <2>1. Posted' = Posted
    BY <1>2 DEF Posted, At, Moved
  <2>2. \A alert \in alerts' :
          req'[alert.by].pc \in {"insert", "push", "answered"}
    BY <1>0, <1>2 DEF Moved, FlagsAreAccounts
  <2>3. \A q \in Request : req'[q].pc \in {"insert", "push"} => req'[q].posted
    BY <1>2 DEF Moved
  <2>. QED BY <1>2, <2>1, <2>2, <2>3
<1>3. ASSUME NEW r \in Request, NEW tx \in Transaction, NEW p \in BOOLEAN,
             Arrives(r, tx, p)
      PROVE  Counted'
  <2>. DEFINE s == Task("read_history", tx, p)
  <2>1. s.pc \notin {"insert", "push", "answered"}
    BY DEF Task
  <2>. HIDE DEF s
  <2>. QED BY <1>1, <1>3, <2>1 DEF Arrives, s
<1>4. ASSUME NEW r \in Request, Refused(r)
      PROVE  Counted'
  BY <1>1, <1>4 DEF Refused, Rejected
<1>5. ASSUME NEW r \in Request,
             \/ ReadHistory(r) /\ Moved(r, "evaluate")
             \/ Evaluate(r) /\ Moved(r, "create_alert")
             \/ Evaluate(r) /\ Moved(r, AfterEvaluation(r))
      PROVE  Counted'
  <2>1. UNCHANGED stores /\ req[r].pc \in {"read_history", "evaluate"}
    BY <1>5 DEF ReadHistory, Evaluate, At
  <2>2. \A alert \in alerts : alert.by # r
    BY <2>1
  <2>3. CASE Moved(r, "evaluate") \/ Moved(r, "create_alert")
    BY <1>2, <2>1, <2>2, <2>3 DEF stores
  <2>4. CASE Moved(r, AfterEvaluation(r))
    <3>1. (AfterEvaluation(r) = "answered" /\ ~req[r].posted)
          \/ (AfterEvaluation(r) = "insert" /\ req[r].posted)
      BY DEF AfterEvaluation
    <3>. QED BY <1>2, <2>1, <2>2, <2>4, <3>1 DEF stores
  <2>. QED BY <1>5, <2>3, <2>4
<1>6. ASSUME NEW r \in Request, CreateAlert(r), Moved(r, AfterEvaluation(r))
      PROVE  Counted'
  <2>. DEFINE alert == [by |-> r, tx |-> req[r].tx]
  <2>1. /\ req[r].pc = "create_alert" /\ UNCHANGED recorded
        /\ alerts' = alerts \cup {alert}
        /\ metrics' = [metrics EXCEPT !.alerts_created_total = @ + 1]
    BY <1>6 DEF CreateAlert, At
  <2>2. \A old \in alerts : old.by # r
    BY <2>1
  <2>3. alert \notin alerts /\ alert.by = r
    BY <2>2
  <2>. HIDE DEF alert
  <2>4. IsFiniteSet(alerts') /\ Cardinality(alerts') = Cardinality(alerts) + 1
    BY <2>1, <2>3, FS_AddElement
  <2>5. metrics'.alerts_created_total = metrics.alerts_created_total + 1
        /\ metrics'.transactions_ingested_total
             = metrics.transactions_ingested_total
    BY <1>0, <2>1 DEF DetectionType
  <2>6. (AfterEvaluation(r) = "answered" /\ ~req[r].posted)
        \/ (AfterEvaluation(r) = "insert" /\ req[r].posted)
    BY DEF AfterEvaluation
  <2>7. ASSUME NEW label, Moved(r, label), label # "push",
               label = "answered" => ~req[r].posted,
               label = "insert" => req[r].posted,
               label \in {"insert", "answered"}
        PROVE  Counted'
    <3>1. \A x \in alerts' :
            \/ x.by = r /\ label \in {"insert", "push", "answered"}
            \/ x \in alerts /\ x.by # r
      BY <2>1, <2>2, <2>3, <2>7
    <3>. QED BY <1>2, <2>1, <2>4, <2>5, <2>7, <3>1
  <2>. QED BY <1>6, <2>6, <2>7
<1>7. ASSUME NEW r \in Request, InsertTransaction(r), Moved(r, "push")
      PROVE  Counted'
  <2>1. req[r].pc = "insert" /\ UNCHANGED <<recorded, metrics, alerts>>
    BY <1>7 DEF InsertTransaction, At
  <2>2. Posted' = Posted
    BY <1>7, <2>1 DEF Posted, At, Moved
  <2>3. \A q \in Request : req'[q].pc \in {"insert", "push"} => req'[q].posted
    BY <1>7, <2>1 DEF Moved
  <2>4. \A alert \in alerts :
          req'[alert.by].pc \in {"insert", "push", "answered"}
    BY <1>0, <1>7 DEF Moved, FlagsAreAccounts
  <2>. QED BY <2>1, <2>2, <2>3, <2>4
<1>8. ASSUME NEW r \in Request, PushHistory(r), Moved(r, "answered")
      PROVE  Counted'
  <2>1. /\ req[r].pc = "push" /\ UNCHANGED alerts
        /\ recorded' = Append(recorded, req[r].tx)
        /\ metrics' = [metrics EXCEPT !.transactions_ingested_total = @ + 1]
    BY <1>8 DEF PushHistory, At
  <2>2. Posted' = Posted \cup {r} /\ r \notin Posted
    BY <1>8, <2>1 DEF Posted, At, Moved
  <2>3. IsFiniteSet(Posted') /\ Cardinality(Posted') = Cardinality(Posted) + 1
    BY <2>2, FS_AddElement
  <2>4. Len(recorded') = Len(recorded) + 1
    BY <1>0, <2>1 DEF DetectionType
  <2>5. metrics'.transactions_ingested_total
          = metrics.transactions_ingested_total + 1
        /\ metrics'.alerts_created_total = metrics.alerts_created_total
    BY <1>0, <2>1 DEF DetectionType
  <2>6. \A q \in Request : req'[q].pc \in {"insert", "push"} => req'[q].posted
    BY <1>8 DEF Moved
  <2>7. \A alert \in alerts :
          req'[alert.by].pc \in {"insert", "push", "answered"}
    BY <1>0, <1>8 DEF Moved, FlagsAreAccounts
  <2>. QED BY <2>1, <2>3, <2>4, <2>5, <2>6, <2>7
<1>9. CASE \E alert \in alerts : FlagAccounts(alert)
  BY <1>9 DEF FlagAccounts, Posted, At
<1>10. CASE UNCHANGED vars
  BY <1>10 DEF vars, stores, Posted, At
<1>11. CASE Next
  <2>. HIDE DEF Counted
  <2>1. CASE \E alert \in alerts : FlagAccounts(alert)
    BY <1>9, <2>1
  <2>2. ASSUME NEW r \in Request,
               \/ Refused(r)
               \/ ReadHistory(r) /\ Moved(r, "evaluate")
               \/ Evaluate(r) /\ Moved(r, "create_alert")
               \/ Evaluate(r) /\ Moved(r, AfterEvaluation(r))
               \/ CreateAlert(r) /\ Moved(r, AfterEvaluation(r))
               \/ InsertTransaction(r) /\ Moved(r, "push")
               \/ PushHistory(r) /\ Moved(r, "answered")
        PROVE  Counted'
    BY <1>4, <1>5, <1>6, <1>7, <1>8, <2>2
  <2>. QED BY <1>0, <1>3, <1>11, <2>1, <2>2, DetectionSteps
<1>. QED BY <1>10, <1>11

\* Every POST that was answered has been recorded and counted once, and every
\* alert is counted: no increment and no push is lost between requests.
THEOREM AccountsAreRight == Spec => []IngestionAccounted
<1>1. Init => Counted
  <2> SUFFICES ASSUME Init PROVE Counted
    OBVIOUS
  <2>1. Posted = {} /\ alerts = {} /\ recorded = << >>
    BY DEF Init, Posted, At, Idle
  <2>. QED BY <2>1, FS_EmptySet DEF Init, Counted, Idle
<1>2. DInv /\ Counted /\ [Next]_vars => Counted'
  BY CountsStay
<1>3. Counted => IngestionAccounted
  BY DEF Counted, Posted, IngestionAccounted, Answered
<1>. QED BY <1>1, <1>2, <1>3, DetectionInvariant, PTL DEF Spec

-----------------------------------------------------------------------------
(* The histories *)

\* How many of n transactions a full history has no room for.
Excess(n) == IF n > MaxHistory THEN n - MaxHistory ELSE 0

\* The latest MaxHistory transactions of a log.
Latest(log) == SubSeq(log, Excess(Len(log)) + 1, Len(log))

LEMMA ExcessDef ==
    ASSUME NEW n \in Nat
    PROVE  /\ Excess(n) \in 0..n
           /\ Excess(n + 1 - Excess(n)) + Excess(n) = Excess(n + 1)
BY MaxHistoryAssumption DEF Excess

LEMMA LatestDef ==
    ASSUME NEW log \in Seq(Transaction)
    PROVE  /\ Latest(log) \in Seq(Transaction)
           /\ Len(Latest(log)) = Len(log) - Excess(Len(log))
           /\ \A i \in 1..(Len(log) - Excess(Len(log))) :
                Latest(log)[i] = log[i + Excess(Len(log))]
<1>. DEFINE n == Len(log)
            e == Excess(n)
<1>1. n \in Nat /\ n \in 0..Len(log)
  OBVIOUS
<1>2. e \in Nat /\ e <= n
  <2>. HIDE DEF n
  <2>. QED BY <1>1, ExcessDef
<1>3. /\ Latest(log) \in Seq(Transaction)
      /\ Len(Latest(log)) = (IF e + 1 <= n THEN n - e ELSE 0)
      /\ \A i \in 1..(n - e) : Latest(log)[i] = log[i + e]
  <2>1. Latest(log) = SubSeq(log, e + 1, n)
    BY DEF Latest
  <2>. HIDE DEF e, n
  <2>. QED BY <1>1, <1>2, <2>1, SubSeqDef
<1>. HIDE DEF e, n
<1>4. Len(Latest(log)) = n - e
  BY <1>1, <1>2, <1>3
<1>. QED BY <1>3, <1>4 DEF e, n

\* Filing one more transaction under a full history drops the oldest.
LEMMA PushLatest ==
    ASSUME NEW log \in Seq(Transaction), NEW tx \in Transaction
    PROVE  push_bounded(Latest(log), tx) = Latest(Append(log, tx))
<1>. DEFINE n == Len(log)
            longer == Append(log, tx)
            entry == Append(Latest(log), tx)
            new == push_bounded(Latest(log), tx)
            a == Excess(n)
            b == Excess(n + 1)
            c == Excess(n + 1 - a)
<1>1. /\ n \in Nat /\ longer \in Seq(Transaction) /\ Len(longer) = n + 1
      /\ longer[n + 1] = tx /\ \A i \in 1..n : longer[i] = log[i]
  OBVIOUS
<1>2. /\ Latest(log) \in Seq(Transaction)
      /\ Len(Latest(log)) = n - a
      /\ \A i \in 1..(n - a) : Latest(log)[i] = log[i + a]
  BY LatestDef
<1>3. /\ Latest(longer) \in Seq(Transaction)
      /\ Len(Latest(longer)) = n + 1 - b
      /\ \A i \in 1..(n + 1 - b) : Latest(longer)[i] = longer[i + b]
  <2>. HIDE DEF n, longer
  <2>1. /\ Latest(longer) \in Seq(Transaction)
        /\ Len(Latest(longer)) = Len(longer) - Excess(Len(longer))
        /\ \A i \in 1..(Len(longer) - Excess(Len(longer))) :
             Latest(longer)[i] = longer[i + Excess(Len(longer))]
    <3>1. longer \in Seq(Transaction)
      BY <1>1
    <3>. QED BY <3>1, LatestDef
  <2>2. Len(longer) = n + 1 /\ n \in Nat /\ n + 1 \in Nat
    BY <1>1
  <2>3. Excess(Len(longer)) = b
    BY <2>2, Zenon
  <2>4. b \in Int
    BY <2>2, ExcessDef
  <2>. HIDE DEF b
  <2>. QED BY <2>1, <2>2, <2>3, <2>4
<1>4. /\ a \in 0..n /\ b \in 0..(n + 1) /\ c \in 0..(n + 1 - a) /\ c + a = b
      /\ n + 1 - a \in Nat
  <2>. HIDE DEF n
  <2>1. n \in Nat
    BY <1>1
  <2>2. a \in 0..n /\ Excess(n + 1 - a) + a = b
    BY <2>1, ExcessDef
  <2>3. n + 1 \in Nat /\ n + 1 - a \in Nat
    BY <2>1, <2>2
  <2>4. b \in 0..(n + 1) /\ c \in 0..(n + 1 - a)
    BY <2>3, ExcessDef
  <2>. QED BY <2>2, <2>3, <2>4
<1>5. /\ entry \in Seq(Transaction) /\ Len(entry) = n - a + 1
      /\ entry[n - a + 1] = tx
      /\ \A i \in 1..(n - a) : entry[i] = log[i + a]
  <2>. DEFINE kept == Latest(log)
  <2>. HIDE DEF kept, n, a
  <2>1. /\ Append(kept, tx) \in Seq(Transaction)
        /\ Len(Append(kept, tx)) = Len(kept) + 1
        /\ Append(kept, tx)[Len(kept) + 1] = tx
        /\ \A i \in 1..Len(kept) : Append(kept, tx)[i] = kept[i]
    BY <1>2 DEF kept
  <2>. QED BY <1>2, <2>1 DEF kept
<1>6. new = SubSeq(entry, c + 1, Len(entry))
  <2>. HIDE DEF entry, n, a
  <2>1. Len(entry) = n + 1 - a
    BY <1>1, <1>4, <1>5
  <2>. QED BY <2>1 DEF push_bounded, entry, Excess
<1>. HIDE DEF a, b, c, entry, longer, n, new
<1>7. /\ new \in Seq(Transaction)
      /\ Len(new) = (IF c + 1 <= Len(entry) THEN Len(entry) - c ELSE 0)
      /\ \A i \in 1..(Len(entry) - c) : new[i] = entry[i + c]
  <2>1. c \in Nat /\ Len(entry) \in 0..Len(entry)
    BY <1>1, <1>4, <1>5
  <2>. QED BY <1>5, <1>6, <2>1, SubSeqDef
<1>8. Len(new) = n + 1 - b
  BY <1>1, <1>4, <1>5, <1>7
<1>9. \A i \in 1..Len(new) : new[i] = Latest(longer)[i]
  <2> SUFFICES ASSUME NEW i \in 1..Len(new)
               PROVE  new[i] = Latest(longer)[i]
    OBVIOUS
  <2>1. i \in Nat /\ i \in 1..(n + 1 - b) /\ i \in 1..(Len(entry) - c)
    <3>1. n \in Nat /\ a \in Int /\ b \in Int /\ c \in Int /\ c + a = b
      BY <1>1, <1>4
    <3>2. Len(entry) = n - a + 1
      BY <1>5
    <3>3. n + 1 - b = Len(entry) - c
      BY <3>1, <3>2
    <3>4. i \in 1..(n + 1 - b)
      BY <1>8, Zenon
    <3>5. i \in Nat
      BY <3>1, <3>4
    <3>. QED BY <3>3, <3>4, <3>5, Zenon
  <2>2. new[i] = entry[i + c]
    BY <1>7, <2>1
  <2>3. i + c \in 1..(n - a + 1) /\ (i + c) + a = i + b
    BY <1>1, <1>4, <2>1
  <2>4. entry[i + c] = longer[i + b]
    <3>1. CASE i + c = n - a + 1
      <4>1. i + b = n + 1
        BY <1>1, <1>4, <2>3, <3>1
      <4>2. entry[i + c] = tx
        BY <1>5, <3>1
      <4>. QED BY <1>1, <4>1, <4>2
    <3>2. CASE i + c \in 1..(n - a)
      <4>1. i + b \in 1..n
        BY <1>1, <1>4, <2>3, <3>2
      <4>. QED BY <1>1, <1>5, <2>3, <3>2, <4>1
    <3>. QED BY <1>1, <1>4, <2>3, <3>1, <3>2
  <2>. QED BY <1>3, <2>1, <2>2, <2>4
<1>10. new = Latest(longer)
  BY <1>3, <1>7, <1>8, <1>9, SeqEqual
<1>. QED BY <1>10 DEF longer, new

LEMMA InvolvingRecorded ==
    ASSUME NEW log \in Seq(Transaction), NEW tx \in Transaction, NEW a
    PROVE  /\ Involving(log, a) \in Seq(Transaction)
           /\ Involving(Append(log, tx), a)
                = IF a \in Parties(tx) THEN Append(Involving(log, a), tx)
                  ELSE Involving(log, a)
<1>. DEFINE S == {t \in Transaction : a \in Parties(t)}
<1>1. tx \in S <=> a \in Parties(tx)
  OBVIOUS
<1>. HIDE DEF S
<1>2. Select(log, S) \in Seq(Transaction)
  BY SelectDef
<1>3. Select(Append(log, tx), S)
        = IF tx \in S THEN Append(Select(log, S), tx) ELSE Select(log, S)
  BY SelectAppend
<1>. QED BY <1>1, <1>2, <1>3 DEF Involving, S

Recent == \A a \in Account : tx_history[a] = Latest(Involving(recorded, a))

LEMMA RecentStays ==
    ASSUME DInv, Recent, [Next]_vars
    PROVE  Recent'
<1>1. recorded \in Seq(Transaction) /\ DetectionType
  BY DEF DInv, DetectionType
<1>2. CASE UNCHANGED <<tx_history, recorded>>
  BY <1>2 DEF Recent
<1>3. ASSUME NEW r \in Request, PushHistory(r), Moved(r, "answered")
      PROVE  Recent'
  <2>. DEFINE tx == req[r].tx
  <2>1. tx \in Transaction
    BY <1>3 DEF Moved, Active
  <2>2. /\ tx_history' = [a \in Account |->
              IF a \in Parties(tx) THEN push_bounded(tx_history[a], tx)
              ELSE tx_history[a]]
        /\ recorded' = Append(recorded, tx)
    BY <1>3 DEF PushHistory
  <2>. HIDE DEF tx
  <2>3. SUFFICES ASSUME NEW a \in Account
                 PROVE  tx_history'[a] = Latest(Involving(recorded', a))
    BY DEF Recent
  <2>4. tx_history[a] = Latest(Involving(recorded, a))
    BY DEF Recent
  <2>5. /\ Involving(recorded, a) \in Seq(Transaction)
        /\ Involving(recorded', a)
             = IF a \in Parties(tx) THEN Append(Involving(recorded, a), tx)
               ELSE Involving(recorded, a)
    BY <1>1, <2>1, <2>2, InvolvingRecorded
  <2>6. CASE a \in Parties(tx)
    <3>1. tx_history'[a] = push_bounded(Latest(Involving(recorded, a)), tx)
      BY <2>2, <2>4, <2>6
    <3>. QED BY <2>1, <2>5, <2>6, <3>1, PushLatest
  <2>7. CASE a \notin Parties(tx)
    BY <2>2, <2>4, <2>5, <2>7
  <2>. QED BY <2>6, <2>7
<1>4. CASE UNCHANGED vars
  BY <1>2, <1>4 DEF vars, stores
<1>5. CASE Next
  <2>1. \/ UNCHANGED <<tx_history, recorded>>
        \/ \E r \in Request : PushHistory(r) /\ Moved(r, "answered")
    BY <1>1, <1>5, DetectionSteps
       DEF Arrives, Refused, ReadHistory, Evaluate, CreateAlert,
           InsertTransaction, FlagAccounts, stores
  <2>. QED BY <1>2, <1>3, <2>1
<1>. QED BY <1>4, <1>5

LEMMA RecentInvariant == Spec => []Recent
<1>1. Init => Recent
  <2> SUFFICES ASSUME Init PROVE Recent
    OBVIOUS
  <2>1. recorded = << >> /\ \A a \in Account : tx_history[a] = << >>
    BY DEF Init
  <2>2. ASSUME NEW a
        PROVE  Latest(Involving(<< >>, a)) = << >>
    <3>1. Involving(<< >>, a) = << >>
      BY SelectEmpty DEF Involving
    <3>. DEFINE log == << >>
    <3>2. log \in Seq(Transaction) /\ Len(log) = 0
      OBVIOUS
    <3>. HIDE DEF log
    <3>3. Excess(0) = 0
      BY MaxHistoryAssumption DEF Excess
    <3>4. /\ Latest(log) \in Seq(Transaction)
          /\ Len(Latest(log)) = Len(log) - Excess(Len(log))
      BY <3>2, LatestDef
    <3>5. Latest(log) = << >>
      BY <3>2, <3>3, <3>4
    <3>. QED BY <3>1, <3>5 DEF log
  <2>. QED BY <2>1, <2>2 DEF Recent
<1>2. DInv /\ Recent /\ [Next]_vars => Recent'
  BY RecentStays
<1>. QED BY <1>1, <1>2, DetectionInvariant, PTL DEF Spec

\* Whichever requests record, in whatever order they get the locks, the
\* history of an account is the latest of what was recorded for it:
\* push_bounded drops the oldest, and a payment is filed under both its
\* parties at once.
THEOREM HistoryKept == Spec => []HistoryIsRecent
<1>1. Recent => HistoryIsRecent
  BY DEF Recent, Latest, Excess, HistoryIsRecent
<1>. QED BY <1>1, RecentInvariant, PTL

-----------------------------------------------------------------------------
(* What an evaluation sees of what was recorded *)

\* The history a log gives a transaction.
HistoryOf(log, tx) == Others(Involving(log, tx.source_account), tx)

LEMMA HistoryOfType ==
    ASSUME NEW log \in Seq(Transaction), NEW tx
    PROVE  HistoryOf(log, tx) \in Seq(Transaction)
BY SelectDef DEF HistoryOf, Others, Involving

LEMMA OthersWithin ==
    ASSUME NEW log \in Seq(Transaction), NEW longer \in Seq(Transaction), NEW tx,
           Within(log, longer, Transaction)
    PROVE  Within(Others(log, tx), Others(longer, tx), Transaction)
<1>. DEFINE S == {t \in Transaction : t.tx_hash # tx.tx_hash}
<1>1. \A i \in DOMAIN log : log[i] \in S => log[i] \in Transaction
  OBVIOUS
<1>. HIDE DEF S
<1>2. Within(log, longer, S)
  BY <1>1, WithinNarrow
<1>3. Within(Select(log, S), Select(longer, S), Transaction)
  BY <1>2, FilterWithin
<1>. QED BY <1>3 DEF Others, S

LEMMA InvolvingWithin ==
    ASSUME NEW log \in Seq(Transaction), NEW longer \in Seq(Transaction), NEW a,
           Within(log, longer, Transaction)
    PROVE  Within(Involving(log, a), Involving(longer, a), Transaction)
<1>. DEFINE S == {t \in Transaction : a \in Parties(t)}
<1>1. \A i \in DOMAIN log : log[i] \in S => log[i] \in Transaction
  OBVIOUS
<1>. HIDE DEF S
<1>2. Within(log, longer, S)
  BY <1>1, WithinNarrow
<1>3. Within(Select(log, S), Select(longer, S), Transaction)
  BY <1>2, FilterWithin
<1>. QED BY <1>3 DEF Involving, S

LEMMA HistoryOfWithin ==
    ASSUME NEW log \in Seq(Transaction), NEW longer \in Seq(Transaction), NEW tx,
           Within(log, longer, Transaction)
    PROVE  Within(HistoryOf(log, tx), HistoryOf(longer, tx), Transaction)
<1>. DEFINE a == tx.source_account
<1>1. Within(Involving(log, a), Involving(longer, a), Transaction)
  BY InvolvingWithin
<1>2. /\ Involving(log, a) \in Seq(Transaction)
      /\ Involving(longer, a) \in Seq(Transaction)
  BY SelectDef DEF Involving
<1>. QED BY <1>1, <1>2, OthersWithin DEF HistoryOf

\* A history within another triggers no windowed rule that the other does not.
LEMMA WindowedWithin ==
    ASSUME NEW tx, NEW s \in Seq(Transaction), NEW u \in Seq(Transaction),
           Within(s, u, Transaction), NEW flagged, NEW snapshot
    PROVE  Windowed \cap RuleIds(evaluate(tx, s, flagged))
             \subseteq RuleIds(evaluate(tx, u, snapshot))
<1>1. \A i \in DOMAIN s : s[i] \in UpTo(tx, Transaction) => s[i] \in Transaction
  OBVIOUS
<1>2. Within(s, u, UpTo(tx, Transaction))
  BY <1>1, WithinNarrow
<1>. QED BY <1>2, WindowedGrow

LEMMA WindowedRulesGrow ==
    ASSUME NEW tx, NEW log \in Seq(Transaction), NEW longer \in Seq(Transaction),
           Within(log, longer, Transaction)
    PROVE  WindowedRules(tx, log) \subseteq WindowedRules(tx, longer)
<1>1. /\ HistoryOf(log, tx) \in Seq(Transaction)
      /\ HistoryOf(longer, tx) \in Seq(Transaction)
      /\ Within(HistoryOf(log, tx), HistoryOf(longer, tx), Transaction)
  BY HistoryOfType, HistoryOfWithin
<1>2. Windowed \cap RuleIds(evaluate(tx, HistoryOf(log, tx), {}))
        \subseteq RuleIds(evaluate(tx, HistoryOf(longer, tx), {}))
  BY <1>1, WindowedWithin
<1>. QED BY <1>2 DEF WindowedRules, HistoryOf

\* The history of the account of tx has not overflowed.
Fits(log, tx) == Len(Involving(log, tx.source_account)) <= MaxHistory

\* A request (in state s) has read no more than was recorded and, unless the
\* history has overflowed, no less than was when it arrived; its windowed
\* rules follow.
Informed(s, log) ==
    LET past == SubSeq(log, 1, s.seen)
    IN  /\ s.seen \in 0..Len(log)
        /\ s.pc = "evaluate" =>
             /\ s.history \in Seq(Transaction)
             /\ Within(s.history, HistoryOf(log, s.tx), Transaction)
             /\ Fits(log, s.tx) =>
                  Within(HistoryOf(past, s.tx), s.history, Transaction)
        /\ s.pc \in Evaluated =>
             /\ s.rules \cap Windowed \subseteq WindowedRules(s.tx, log)
             /\ Fits(log, s.tx) => WindowedRules(s.tx, past) \subseteq s.rules

EvaluationsInformed ==
    \A r \in Request : req[r].pc \in Label => Informed(req[r], recorded)

\* One more transaction is recorded.
LEMMA InformedStays ==
    ASSUME NEW s, NEW log \in Seq(Transaction), NEW t \in Transaction,
           Informed(s, log)
    PROVE  Informed(s, Append(log, t))
<1>. DEFINE longer == Append(log, t)
            past == SubSeq(log, 1, s.seen)
<1>1. /\ longer \in Seq(Transaction) /\ Len(log) \in Nat
      /\ Len(longer) = Len(log) + 1
      /\ \A i \in 1..Len(log) : longer[i] = log[i]
      /\ s.seen \in 0..Len(log) /\ s.seen \in 0..Len(longer)
  BY DEF Informed
<1>2. Within(log, longer, Transaction)
  BY AppendWithin
<1>3. SubSeq(longer, 1, s.seen) = past
  <2>. DEFINE n == s.seen
              before == SubSeq(log, 0 + 1, n)
              after == SubSeq(longer, 0 + 1, n)
  <2>. HIDE DEF longer, n
  <2>1. n \in 0..Len(log) /\ n \in 0..Len(longer) /\ 0 \in Nat
    BY <1>1 DEF n
  <2>2. /\ before \in Seq(Transaction)
        /\ Len(before) = (IF 0 + 1 <= n THEN n - 0 ELSE 0)
        /\ \A i \in 1..(n - 0) : before[i] = log[i + 0]
    BY <2>1, SubSeqDef
  <2>3. /\ after \in Seq(Transaction)
        /\ Len(after) = (IF 0 + 1 <= n THEN n - 0 ELSE 0)
        /\ \A i \in 1..(n - 0) : after[i] = longer[i + 0]
    <3>1. longer \in Seq(Transaction)
      BY <1>1
    <3>. QED BY <2>1, <3>1, SubSeqDef
  <2>4. Len(before) = n /\ Len(after) = n /\ n \in Nat
    BY <1>1, <2>1, <2>2, <2>3
  <2>5. \A i \in 1..Len(after) : after[i] = before[i]
    <3>1. \A i \in 1..n : i + 0 = i /\ i \in 1..Len(log) /\ i \in 1..(n - 0)
      BY <1>1, <2>1
    <3>. HIDE DEF before, after
    <3>. QED BY <1>1, <2>2, <2>3, <2>4, <3>1
  <2>6. after = before
    <3>. HIDE DEF before, after
    <3>. QED BY <2>2, <2>3, <2>4, <2>5, SeqEqual
  <2>7. 0 + 1 = 1
    OBVIOUS
  <2>. QED BY <2>6, <2>7 DEF n
<1>4. Fits(longer, s.tx) => Fits(log, s.tx)
  <2>. DEFINE a == s.tx.source_account
  <2>1. /\ Involving(log, a) \in Seq(Transaction)
        /\ Involving(longer, a)
             = IF a \in Parties(t) THEN Append(Involving(log, a), t)
               ELSE Involving(log, a)
    BY InvolvingRecorded
  <2>. DEFINE short == Involving(log, a)
  <2>. HIDE DEF short, longer
  <2>2. Len(short) \in Nat /\ Len(Append(short, t)) = Len(short) + 1
    BY <2>1 DEF short
  <2>3. Len(Involving(longer, a)) \in {Len(short), Len(short) + 1}
    BY <2>1, <2>2 DEF short
  <2>4. Len(Involving(longer, a)) <= MaxHistory => Len(short) <= MaxHistory
    BY <2>2, <2>3, MaxHistoryAssumption
  <2>. QED BY <2>4 DEF Fits, short
<1>5. WindowedRules(s.tx, log) \subseteq WindowedRules(s.tx, longer)
  BY <1>1, <1>2, WindowedRulesGrow
<1>6. s.pc = "evaluate" => Within(s.history, HistoryOf(longer, s.tx), Transaction)
  <2>1. SUFFICES ASSUME s.pc = "evaluate"
                 PROVE  Within(s.history, HistoryOf(longer, s.tx), Transaction)
    OBVIOUS
  <2>2. Within(s.history, HistoryOf(log, s.tx), Transaction)
    BY <2>1 DEF Informed
  <2>3. Within(HistoryOf(log, s.tx), HistoryOf(longer, s.tx), Transaction)
    BY <1>1, <1>2, HistoryOfWithin
  <2>. QED BY <2>2, <2>3, WithinTransitive
<1>. HIDE DEF longer
<1>7. Informed(s, longer)
  BY <1>1, <1>3, <1>4, <1>5, <1>6 DEF Informed
<1>. QED BY <1>7 DEF longer

\* The request goes on with what it has found.
LEMMA InformedGoesOn ==
    ASSUME NEW s, NEW z, NEW log, Informed(s, log), s.pc \in Evaluated,
           z.pc \in Evaluated, z.tx = s.tx, z.seen = s.seen, z.rules = s.rules
    PROVE  Informed(z, log)
BY DEF Informed, Evaluated

LEMMA HistoryRead ==
    ASSUME DInv, Recent, EvaluationsInformed,
           NEW r \in Request, ReadHistory(r), Moved(r, "evaluate")
    PROVE  Informed(req'[r], recorded)
<1>. DEFINE s == req[r]
            tx == s.tx
            a == tx.source_account
            all == Involving(recorded, a)
            past == SubSeq(recorded, 1, s.seen)
            history == Others(tx_history[a], tx)
<1>1. /\ Active(s) /\ tx \in Transaction /\ DetectionType
      /\ recorded \in Seq(Transaction) /\ Len(recorded) \in Nat
  BY DEF Moved, Active, DInv, DetectionType
<1>2. a \in Account /\ tx_history[a] \in Seq(Transaction)
      /\ tx_history[a] = Latest(all)
  BY <1>1, TransactionAssumption DEF Recent, DetectionType
<1>3. s.pc \in Label /\ Informed(s, recorded)
  BY <1>1 DEF EvaluationsInformed, Active
<1>4. /\ req'[r].pc = "evaluate" /\ req'[r].tx = tx /\ req'[r].seen = s.seen
      /\ req'[r].history = history
  <2>1. req' = [req EXCEPT ![r] = [s EXCEPT !.pc = "evaluate",
                                            !.history = history]]
    BY DEF ReadHistory
  <2>. HIDE DEF history
  <2>. QED BY <1>1, <2>1 DEF Moved, Active, DetectionType
<1>5. /\ HistoryOf(recorded, tx) = Others(all, tx)
      /\ all \in Seq(Transaction) /\ Len(all) \in Nat
  <2>1. all \in Seq(Transaction)
    BY <1>1, SelectDef DEF Involving
  <2>. QED BY <2>1 DEF HistoryOf
<1>6. history \in Seq(Transaction)
  BY <1>2, SelectDef DEF Others
<1>7. s.seen \in 0..Len(recorded)
  BY <1>3 DEF Informed
<1>. HIDE DEF all
<1>8. Within(history, Others(all, tx), Transaction)
  <2>1. Excess(Len(all)) \in Nat /\ Len(all) \in 0..Len(all)
    BY <1>5, ExcessDef
  <2>2. Within(Latest(all), all, Transaction)
    BY <1>5, <2>1, SubSeqWithin DEF Latest
  <2>. QED BY <1>2, <1>5, <2>2, OthersWithin
<1>9. ASSUME Fits(recorded, tx)
      PROVE  Within(HistoryOf(past, tx), history, Transaction)
  <2>1. Excess(Len(all)) = 0
    BY <1>5, <1>9, MaxHistoryAssumption DEF Fits, Excess, all
  <2>2. Latest(all) = all
    <3>1. /\ Latest(all) \in Seq(Transaction)
          /\ Len(Latest(all)) = Len(all) - Excess(Len(all))
          /\ \A i \in 1..(Len(all) - Excess(Len(all))) :
               Latest(all)[i] = all[i + Excess(Len(all))]
      BY <1>5, LatestDef
    <3>2. Len(Latest(all)) = Len(all)
          /\ \A i \in 1..Len(Latest(all)) : Latest(all)[i] = all[i]
      BY <1>5, <2>1, <3>1
    <3>. QED BY <1>5, <3>1, <3>2, SeqEqual
  <2>3. history = HistoryOf(recorded, tx)
    BY <1>2, <1>5, <2>2
  <2>4. past = SubSeq(recorded, 0 + 1, s.seen)
    <3>1. 0 + 1 = 1
      OBVIOUS
    <3>. QED BY <3>1
  <2>5. past \in Seq(Transaction) /\ Within(past, recorded, Transaction)
    <3>. DEFINE n == s.seen
    <3>1. n \in 0..Len(recorded) /\ 0 \in Nat
      BY <1>7
    <3>. HIDE DEF n
    <3>2. /\ SubSeq(recorded, 0 + 1, n) \in Seq(Transaction)
          /\ Within(SubSeq(recorded, 0 + 1, n), recorded, Transaction)
      BY <1>1, <3>1, SubSeqDef, SubSeqWithin
    <3>. HIDE DEF past
    <3>. QED BY <2>4, <3>2 DEF n
  <2>. HIDE DEF past, history
  <2>6. Within(HistoryOf(past, tx), HistoryOf(recorded, tx), Transaction)
    BY <1>1, <2>5, HistoryOfWithin
  <2>. QED BY <2>3, <2>6
<1>10. "evaluate" \notin Evaluated
  BY DEF Evaluated
<1>. HIDE DEF history
<1>. QED BY <1>4, <1>5, <1>6, <1>7, <1>8, <1>9, <1>10 DEF Informed

LEMMA RulesFound ==
    ASSUME DInv, EvaluationsInformed, NEW r \in Request, Evaluate(r),
           NEW label \in Evaluated, Moved(r, label),
           req'[r].rules = RuleIds(evaluate(req[r].tx, req[r].history,
                                            flagged_accounts))
    PROVE  Informed(req'[r], recorded)
<1>. DEFINE s == req[r]
            tx == s.tx
            past == SubSeq(recorded, 1, s.seen)
            found == RuleIds(evaluate(tx, s.history, flagged_accounts))
<1>1. /\ s.pc = "evaluate" /\ Informed(s, recorded)
      /\ recorded \in Seq(Transaction)
  BY DEF Evaluate, At, Moved, Active, EvaluationsInformed, DInv, DetectionType
<1>2. /\ s.seen \in 0..Len(recorded)
      /\ s.history \in Seq(Transaction)
      /\ Within(s.history, HistoryOf(recorded, tx), Transaction)
      /\ Fits(recorded, tx) =>
           Within(HistoryOf(past, tx), s.history, Transaction)
  BY <1>1 DEF Informed
<1>3. HistoryOf(recorded, tx) \in Seq(Transaction)
  BY <1>1, HistoryOfType
<1>4. found \cap Windowed \subseteq WindowedRules(tx, recorded)
  <2>1. Windowed \cap found
          \subseteq RuleIds(evaluate(tx, HistoryOf(recorded, tx), {}))
    BY <1>2, <1>3, WindowedWithin
  <2>. QED BY <2>1 DEF WindowedRules, HistoryOf
<1>5. ASSUME Fits(recorded, tx)
      PROVE  WindowedRules(tx, past) \subseteq found
  <2>1. past \in Seq(Transaction)
    <3>1. s.seen \in 0..Len(recorded) /\ 0 \in Nat /\ 0 + 1 = 1
      BY <1>2
    <3>2. SubSeq(recorded, 0 + 1, s.seen) \in Seq(Transaction)
      BY <1>1, <3>1, SubSeqDef
    <3>. QED BY <3>1, <3>2
  <2>. HIDE DEF past
  <2>2. HistoryOf(past, tx) \in Seq(Transaction)
    BY <2>1, HistoryOfType
  <2>3. Windowed \cap RuleIds(evaluate(tx, HistoryOf(past, tx), {}))
          \subseteq found
    BY <1>2, <1>5, <2>2, WindowedWithin
  <2>. QED BY <2>3 DEF WindowedRules, HistoryOf
<1>6. label # "evaluate"
  BY DEF Evaluated
<1>7. /\ req'[r].pc = label /\ req'[r].tx = tx /\ req'[r].seen = s.seen
      /\ req'[r].rules = found
  BY DEF Moved
<1>. HIDE DEF found
<1>. QED BY <1>2, <1>4, <1>5, <1>6, <1>7 DEF Informed

LEMMA EvaluationsStayInformed ==
    ASSUME DInv, Recent, EvaluationsInformed, [Next]_vars
    PROVE  EvaluationsInformed'
<1>0. DetectionType /\ recorded \in Seq(Transaction)
  BY DEF DInv, DetectionType
<1>1. SUFFICES ASSUME Next
               PROVE  EvaluationsInformed'
  BY DEF vars, stores, EvaluationsInformed
<1>2. ASSUME NEW r \in Request, NEW z, req' = [req EXCEPT ![r] = z],
             UNCHANGED stores, z.pc \in Label => Informed(z, recorded)
      PROVE  EvaluationsInformed'
  <2>1. \A q \in Request : req'[q] = IF q = r THEN z ELSE req[q]
    BY <1>0, <1>2 DEF DetectionType
  <2>. QED BY <1>2, <2>1 DEF EvaluationsInformed, stores
<1>3. ASSUME NEW r \in Request, NEW label, Moved(r, label), UNCHANGED recorded,
             Informed(req'[r], recorded)
      PROVE  EvaluationsInformed'
  BY <1>3 DEF EvaluationsInformed, Moved
<1>4. ASSUME NEW r \in Request, NEW tx \in Transaction, NEW p \in BOOLEAN,
             Arrives(r, tx, p)
      PROVE  EvaluationsInformed'
  <2>. DEFINE z == Task("read_history", tx, p)
  <2>1. z.seen = Len(recorded) /\ z.pc = "read_history"
    BY DEF Task
  <2>2. Informed(z, recorded)
    BY <1>0, <2>1 DEF Informed, Evaluated
  <2>. HIDE DEF z
  <2>. QED BY <1>2, <1>4, <2>2 DEF Arrives, z
<1>5. ASSUME NEW r \in Request, Refused(r)
      PROVE  EvaluationsInformed'
  BY <1>2, <1>5 DEF Refused, Rejected, Label
<1>6. ASSUME NEW r \in Request, ReadHistory(r), Moved(r, "evaluate")
      PROVE  EvaluationsInformed'
  BY <1>3, <1>6, HistoryRead DEF ReadHistory, stores
<1>7. ASSUME NEW r \in Request, NEW label \in Evaluated, Evaluate(r),
             Moved(r, label),
             req'[r].rules = RuleIds(evaluate(req[r].tx, req[r].history,
                                              flagged_accounts))
      PROVE  EvaluationsInformed'
  BY <1>3, <1>7, RulesFound DEF Evaluate, stores
<1>8. ASSUME NEW r \in Request, NEW label \in Evaluated, Moved(r, label),
             RulesKept(r), req[r].pc \in Evaluated
      PROVE  Informed(req'[r], recorded)
  <2>1. Informed(req[r], recorded)
    BY <1>8 DEF Moved, Active, EvaluationsInformed
  <2>. QED BY <1>8, <2>1, InformedGoesOn DEF Moved, RulesKept
<1>9. ASSUME NEW r \in Request, NEW label \in Evaluated, Moved(r, label),
             RulesKept(r), CreateAlert(r) \/ InsertTransaction(r)
      PROVE  EvaluationsInformed'
  <2>1. req[r].pc \in Evaluated /\ UNCHANGED recorded
    BY <1>9 DEF CreateAlert, InsertTransaction, At, Evaluated
  <2>. QED BY <1>3, <1>8, <1>9, <2>1
<1>10. ASSUME NEW r \in Request, PushHistory(r), Moved(r, "answered"),
              RulesKept(r)
       PROVE  EvaluationsInformed'
  <2>1. /\ req[r].pc \in Evaluated /\ "answered" \in Evaluated
        /\ recorded' = Append(recorded, req[r].tx)
        /\ req[r].tx \in Transaction
    BY <1>10 DEF PushHistory, At, Evaluated, Moved, Active
  <2>2. Informed(req'[r], recorded)
    BY <1>8, <1>10, <2>1
  <2>3. \A q \in Request : req'[q].pc \in Label => Informed(req'[q], recorded)
    BY <1>10, <2>2 DEF Moved, EvaluationsInformed
  <2>4. \A q \in Request : req'[q].pc \in Label => Informed(req'[q], recorded')
    BY <1>0, <2>1, <2>3, InformedStays
  <2>. QED BY <2>4 DEF EvaluationsInformed
<1>11. CASE \E alert \in alerts : FlagAccounts(alert)
  BY <1>11 DEF FlagAccounts, EvaluationsInformed
<1>12. /\ {"create_alert", "push", "answered"} \subseteq Evaluated
       /\ \A r \in Request : AfterEvaluation(r) \in Evaluated
  BY DEF Evaluated, AfterEvaluation
<1>. HIDE DEF EvaluationsInformed
<1>13. ASSUME NEW r \in Request,
              \/ Refused(r)
              \/ ReadHistory(r) /\ Moved(r, "evaluate")
              \/ /\ Evaluate(r)
                 /\ Moved(r, "create_alert") \/ Moved(r, AfterEvaluation(r))
                 /\ req'[r].rules =
                      RuleIds(evaluate(req[r].tx, req[r].history,
                                       flagged_accounts))
              \/ CreateAlert(r) /\ Moved(r, AfterEvaluation(r)) /\ RulesKept(r)
              \/ InsertTransaction(r) /\ Moved(r, "push") /\ RulesKept(r)
              \/ PushHistory(r) /\ Moved(r, "answered") /\ RulesKept(r)
       PROVE  EvaluationsInformed'
  BY <1>5, <1>6, <1>7, <1>9, <1>10, <1>12, <1>13
<1>. QED BY <1>0, <1>1, <1>4, <1>11, <1>13, DetectionSteps

LEMMA InformedInvariant == Spec => []EvaluationsInformed
<1>1. Init => EvaluationsInformed
  BY DEF Init, EvaluationsInformed, Idle, Label
<1>2. DInv /\ Recent /\ EvaluationsInformed /\ [Next]_vars
        => EvaluationsInformed'
  BY EvaluationsStayInformed
<1>. QED BY <1>1, <1>2, DetectionInvariant, RecentInvariant, PTL DEF Spec

\* No windowed trigger is invented: the history that run_evaluation copied
\* is part of what was recorded, the transaction itself left out, and what
\* is recorded meanwhile only confirms it.
THEOREM NoTriggerInvented == Spec => []TriggersJustified
<1>1. EvaluationsInformed => TriggersJustified
  BY DEF EvaluationsInformed, Informed, TriggersJustified, Answered, At, Label,
         Evaluated
<1>. QED BY <1>1, InformedInvariant, PTL

\* What was recorded before a request arrived is not missed: unless the
\* history of the account has overflowed, a pattern it completes triggers.
THEOREM NoTriggerMissed == Spec => []AnsweredTransactionsCount
<1>1. EvaluationsInformed => AnsweredTransactionsCount
  BY DEF EvaluationsInformed, Informed, Fits, AnsweredTransactionsCount,
         Answered, At, Label, Evaluated
<1>. QED BY <1>1, InformedInvariant, PTL

===============================================================================
