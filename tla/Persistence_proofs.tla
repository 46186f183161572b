-------------------------- MODULE Persistence_proofs --------------------------
(***************************************************************************)
(* The hash chain, for logs of every length; and what the alert handlers   *)
(* promise about it, about decisions, flags and recommendations, for any   *)
(* number of requests, alerts, accounts, investigators and scores.  Then   *)
(* what they have recorded and still owe: they implement AuditTrail, every *)
(* event is recorded exactly once, the status changes of an alert balance, *)
(* and the counters agree with the log.                                    *)
(*                                                                         *)
(* Then what survives crashes and restarts, for any number of crashes,     *)
(* failing saves and failing loads: the audit log in memory and on disk is *)
(* a chain that grows and, when scores survive their printed form,         *)
(* verifies.                                                               *)
(***************************************************************************)
EXTENDS Persistence, FiniteSetTheorems, TLAPS

-----------------------------------------------------------------------------
(* The hash chain *)

\* Well-formed constants: the events that carry a score, advice, a person or
\* a status are events.
LEMMA EventsAreEvents ==
    /\ \A s \in Score : AlertCreated(s) \in AuditEventKind
    /\ RulesTriggered \in AuditEventKind
    /\ AiContextSent \in AuditEventKind
    /\ \A x \in Advice : AiRecommendationReceived(x) \in AuditEventKind
    /\ \A w \in InvestigatorId, d \in InvestigationStatus :
         InvestigatorDecision(w, d) \in AuditEventKind
    /\ \A f, t \in InvestigationStatus : StatusChanged(f, t) \in AuditEventKind
<1>1. \A s \in Score : AlertCreated(s) \in AuditEventKind
  BY DEF AuditEventKind
<1>2. RulesTriggered \in AuditEventKind /\ AiContextSent \in AuditEventKind
  BY DEF AuditEventKind
<1>3. \A x \in Advice : AiRecommendationReceived(x) \in AuditEventKind
  BY DEF AuditEventKind
<1>4. \A w \in InvestigatorId, d \in InvestigationStatus :
         InvestigatorDecision(w, d) \in AuditEventKind
  BY DEF AuditEventKind
<1>5. \A f, t \in InvestigationStatus : StatusChanged(f, t) \in AuditEventKind
  BY DEF AuditEventKind
<1>. QED BY <1>1, <1>2, <1>3, <1>4, <1>5

LEMMA FallbackIsAdvice == Fallback \in Advice
BY ConfidenceAssumption DEF Fallback, Advice

\* append keeps the log a sequence of records (audit/src/lib.rs, append).
LEMMA NextRecordType ==
    ASSUME NEW log \in Seq(AuditRecord),
           NEW a \in AlertId, NEW e \in AuditEventKind
    PROVE  NextRecord(log, a, e) \in AuditRecord
<1> DEFINE prev == ExpectedPrev(log, Len(log) + 1)
<1>1. prev \in Hash
  <2>1. CASE log = << >>
    BY <2>1 DEF ExpectedPrev, GENESIS_HASH, Hash
  <2>2. CASE log # << >>
    <3>1. Len(log) \in DOMAIN log /\ Len(log) + 1 # 1
      BY <2>2
    <3>2. log[Len(log)] \in AuditRecord
      BY <3>1
    <3>. QED BY <3>1, <3>2 DEF ExpectedPrev, AuditRecord
  <2>. QED BY <2>1, <2>2
<1>2. compute_hash(prev, a, e) \in Hash
  BY <1>1 DEF compute_hash, Hash, Content
<1>. QED BY <1>1, <1>2 DEF NextRecord, AuditRecord

\* Appending to an intact log gives an intact log (append computes the hash
\* from the hash of the last record, both under one lock).
LEMMA AppendKeepsIntact ==
    ASSUME NEW log \in Seq(AuditRecord),
           NEW a \in AlertId, NEW e \in AuditEventKind,
           verify_integrity(log)
    PROVE  verify_integrity(Append(log, NextRecord(log, a, e)))
<1> DEFINE rec == NextRecord(log, a, e)
           new == Append(log, rec)
<1>1. rec \in AuditRecord
  BY NextRecordType
<1>2. DOMAIN new = 1..(Len(log) + 1)
  BY <1>1
<1>3. ASSUME NEW i \in DOMAIN new
      PROVE  ~ChainBroken(new, i) /\ ~HashMismatch(new, i)
  <2>1. CASE i \in DOMAIN log
    <3>1. new[i] = log[i] /\ (i # 1 => new[i - 1] = log[i - 1])
      BY <1>1, <1>2, <2>1
    <3>2. ~ChainBroken(log, i) /\ ~HashMismatch(log, i)
      BY <2>1 DEF verify_integrity
    <3>. QED BY <3>1, <3>2 DEF ChainBroken, HashMismatch, ExpectedPrev
  <2>2. CASE i = Len(log) + 1
    <3>1. new[i] = rec /\ (i # 1 => new[i - 1] = log[i - 1])
      BY <1>1, <2>2
    <3>2. rec.prev_hash = ExpectedPrev(log, i)
          /\ rec.this_hash = compute_hash(rec.prev_hash, rec.alert_id, rec.event)
      BY <2>2 DEF NextRecord
    <3>3. ExpectedPrev(new, i) = ExpectedPrev(log, i)
      BY <3>1 DEF ExpectedPrev
    <3>. QED BY <3>1, <3>2, <3>3 DEF ChainBroken, HashMismatch
  <2>. QED BY <1>2, <2>1, <2>2
<1>. QED BY <1>3 DEF verify_integrity

\* The hash of an intact record is never the hash before it: hashing adds a
\* record to what is hashed.
LEMMA HashMoves ==
    ASSUME NEW log \in Seq(AuditRecord), NEW i \in DOMAIN log,
           ~HashMismatch(log, i)
    PROVE  log[i].this_hash # log[i].prev_hash
<1>1. log[i] \in AuditRecord
  OBVIOUS
<1>2. Len(log[i].this_hash) = Len(log[i].prev_hash) + 1
  BY <1>1 DEF HashMismatch, compute_hash, AuditRecord, Hash, Content
<1>. QED BY <1>1, <1>2 DEF AuditRecord, Hash

\* verify_integrity notices a record whose event was altered, whichever
\* record and whatever the new event.
THEOREM AlterationDetected ==
    ASSUME NEW log \in Seq(AuditRecord), verify_integrity(log),
           NEW bad \in Altered(log)
    PROVE  ~verify_integrity(bad)
<1>1. PICK i \in DOMAIN log, e \in AuditEventKind :
         bad = [log EXCEPT ![i].event = e] /\ bad # log
  BY DEF Altered
<1>2. log[i] \in AuditRecord /\ DOMAIN bad = DOMAIN log
  BY <1>1
<1>3. bad[i] = [log[i] EXCEPT !.event = e]
  BY <1>1
<1>4. e # log[i].event
  <2>1. SUFFICES ASSUME e = log[i].event PROVE FALSE
    OBVIOUS
  <2>2. [log[i] EXCEPT !.event = e] = log[i]
    BY <1>2, <2>1 DEF AuditRecord
  <2>3. bad = log
    BY <1>1, <2>2
  <2>. QED BY <1>1, <2>3
<1>5. log[i].this_hash
        = compute_hash(log[i].prev_hash, log[i].alert_id, log[i].event)
  BY DEF verify_integrity, HashMismatch
<1>6. compute_hash(log[i].prev_hash, log[i].alert_id, e) # log[i].this_hash
  BY <1>2, <1>4, <1>5 DEF compute_hash, AuditRecord, Hash, Content
<1>7. HashMismatch(bad, i)
  BY <1>2, <1>3, <1>6 DEF HashMismatch, AuditRecord
<1>. QED BY <1>2, <1>7 DEF verify_integrity

\* verify_integrity notices two neighbouring records that changed places.
THEOREM ReorderingDetected ==
    ASSUME NEW log \in Seq(AuditRecord), verify_integrity(log),
           NEW bad \in Reordered(log)
    PROVE  ~verify_integrity(bad)
<1>1. PICK i \in 1..(Len(log) - 1) :
         bad = [log EXCEPT ![i] = log[i + 1], ![i + 1] = log[i]]
  BY DEF Reordered
<1>2. i \in DOMAIN log /\ i + 1 \in DOMAIN log /\ i + 1 # i /\ i + 1 # 1
  OBVIOUS
<1>3. DOMAIN bad = DOMAIN log /\ bad[i] = log[i + 1]
  BY <1>1, <1>2
<1>4. (i # 1 => i - 1 \in DOMAIN log /\ bad[i - 1] = log[i - 1])
  BY <1>1, <1>2
<1>5. ~ChainBroken(log, i) /\ ~ChainBroken(log, i + 1) /\ ~HashMismatch(log, i)
  BY <1>2 DEF verify_integrity
<1>6. log[i + 1].prev_hash = log[i].this_hash
  BY <1>2, <1>5 DEF ChainBroken, ExpectedPrev
<1>7. log[i].this_hash # log[i].prev_hash
  BY <1>2, <1>5, HashMoves
<1>8. ExpectedPrev(bad, i) = log[i].prev_hash
  BY <1>4, <1>5 DEF ChainBroken, ExpectedPrev
<1>9. ChainBroken(bad, i)
  BY <1>3, <1>6, <1>7, <1>8 DEF ChainBroken
<1>. QED BY <1>2, <1>3, <1>9 DEF verify_integrity

\* verify_integrity notices a record removed from before the tail.
THEOREM RemovalDetected ==
    ASSUME NEW log \in Seq(AuditRecord), verify_integrity(log),
           NEW bad \in Removed(log)
    PROVE  ~verify_integrity(bad)
<1>1. PICK i \in 1..(Len(log) - 1) :
         bad = SubSeq(log, 1, i - 1) \o SubSeq(log, i + 1, Len(log))
  BY DEF Removed
<1>2. i \in DOMAIN log /\ i + 1 \in DOMAIN log /\ i + 1 # 1
  OBVIOUS
<1> DEFINE front == SubSeq(log, 1, i - 1)
           back  == SubSeq(log, i + 1, Len(log))
<1>3. front \in Seq(AuditRecord) /\ back \in Seq(AuditRecord)
      /\ Len(front) = i - 1 /\ Len(back) = Len(log) - i
  BY <1>2
<1>4. \A j \in 1..(i - 1) : front[j] = log[j]
  BY <1>2
<1>5. back[1] = log[i + 1]
  BY <1>2
<1>6. i \in DOMAIN bad /\ bad[i] = log[i + 1]
  BY <1>1, <1>3, <1>5
<1>7. i # 1 => bad[i - 1] = log[i - 1]
  <2>1. SUFFICES ASSUME i # 1 PROVE bad[i - 1] = log[i - 1]
    OBVIOUS
  <2>2. i - 1 \in 1..Len(front)
    BY <1>2, <1>3, <2>1
  <2>3. bad[i - 1] = front[i - 1]
    BY <1>1, <1>3, <2>2
  <2>. QED BY <1>3, <1>4, <2>2, <2>3
<1>8. ~ChainBroken(log, i) /\ ~ChainBroken(log, i + 1) /\ ~HashMismatch(log, i)
  BY <1>2 DEF verify_integrity
<1>9. log[i + 1].prev_hash = log[i].this_hash
  BY <1>2, <1>8 DEF ChainBroken, ExpectedPrev
<1>10. log[i].this_hash # log[i].prev_hash
  BY <1>2, <1>8, HashMoves
<1>11. ExpectedPrev(bad, i) = log[i].prev_hash
  BY <1>7, <1>8 DEF ChainBroken, ExpectedPrev
<1>12. ChainBroken(bad, i)
  BY <1>6, <1>9, <1>10, <1>11 DEF ChainBroken
<1>. QED BY <1>6, <1>12 DEF verify_integrity

-----------------------------------------------------------------------------
(* The stage of a request and its locals *)

\* The program counter of a request tells which handler serves it, and so
\* which locals its task carries.
LEMMA StageOfPc ==
    ASSUME TypeOK, NEW r \in Request
    PROVE  /\ req[r].pc \in {"log_created", "log_rules", "created"}
                => req[r] \in Creating
           /\ req[r].pc \in {"log_decision", "log_status", "flag", "decided"}
                => req[r] \in Deciding
           /\ req[r].pc \in {"log_sent", "investigate", "log_received",
                             "store", "advised", "dropped"}
                => req[r] \in Advising
<1>1. req[r] \in Stage
  BY DEF TypeOK
<1>. QED BY <1>1 DEF Stage, Idle, Rejected, Creating, Deciding, Advising

\* A step that replaces the stage of one request by a stage keeps req typed.
LEMMA ReqType ==
    ASSUME TypeOK, NEW r \in Request, NEW s \in Stage
    PROVE  [req EXCEPT ![r] = s] \in [Request -> Stage]
  BY DEF TypeOK

\* Every request past its first step names an alert that exists: handlers
\* look the alert up, or insert it, before anything else, and no code
\* removes an alert.
AlertsOfRequestsExist ==
    \A r \in Request :
      ~At(r, "idle") /\ ~At(r, "rejected") => Exists(req[r].alert_id)

TInv == TypeOK /\ AlertsOfRequestsExist

\* append keeps the audit log of the handlers a sequence of records.
LEMMA AppendType ==
    ASSUME TypeOK, NEW a \in AlertId, NEW e \in AuditEventKind, append(a, e)
    PROVE  records' \in Seq(AuditRecord)
<1>1. records \in Seq(AuditRecord)
  BY DEF TypeOK
<1>2. NextRecord(records, a, e) \in AuditRecord
  BY <1>1, NextRecordType
<1>. QED BY <1>1, <1>2 DEF append

\* The empty stores of a server that has just started are well typed.
LEMMA InitType == Init => TInv
<1> SUFFICES ASSUME Init PROVE TInv
  OBVIOUS
<1> USE DEF Init, AuditInit
<1>1. records \in Seq(AuditRecord)
  OBVIOUS
<1>2. alerts \in [AlertId -> Alert \cup {NoAlert}]
  OBVIOUS
<1>3. flagged_accounts \subseteq AccountId
  OBVIOUS
<1>4. ai_recommendations \in
        [AlertId -> AiRecommendation \cup {NoRecommendation}]
  OBVIOUS
<1>5. metrics \in Metrics
  BY DEF NoMetrics, Metrics
<1>6. req \in [Request -> Stage]
  BY DEF Stage
<1>7. AlertsOfRequestsExist
  BY DEF AlertsOfRequestsExist, At, Idle
<1>. QED BY <1>1, <1>2, <1>3, <1>4, <1>5, <1>6, <1>7 DEF TInv, TypeOK

\* The steps that only append an event and go to the next label.
LEMMA LogStepType ==
    ASSUME TInv, NEW r \in Request, NEW e \in AuditEventKind, NEW label,
           req[r].alert_id \in AlertId,
           append(req[r].alert_id, e),
           [req[r] EXCEPT !.pc = label] \in Creating \cup Deciding \cup Advising,
           ~At(r, "idle"), ~At(r, "rejected"),
           Goto(r, label), UNCHANGED appVars
    PROVE  TInv'
<1>1. records' \in Seq(AuditRecord)
  BY AppendType DEF TInv
<1>2. req' = [req EXCEPT ![r] = [req[r] EXCEPT !.pc = label]]
  BY DEF Goto
<1>3. [req[r] EXCEPT !.pc = label] \in Stage
  BY DEF Stage
<1>4. req' \in [Request -> Stage]
  BY <1>2, <1>3, ReqType DEF TInv
<1>5. TypeOK'
  BY <1>1, <1>4 DEF TInv, TypeOK, appVars
<1>6. AlertsOfRequestsExist'
  <2> SUFFICES ASSUME NEW q \in Request, ~At(q, "idle")', ~At(q, "rejected")'
               PROVE  Exists(req[q].alert_id)'
    BY DEF AlertsOfRequestsExist
  <2>1. req'[q].alert_id = req[q].alert_id
    <3>1. CASE q = r
      BY <1>2, <3>1 DEF TInv, TypeOK, Creating, Deciding, Advising
    <3>2. CASE q # r
      BY <1>2, <3>2 DEF TInv, TypeOK
    <3>. QED BY <3>1, <3>2
  <2>2. ~At(q, "idle") /\ ~At(q, "rejected")
    <3>1. CASE q = r
      BY <3>1
    <3>2. CASE q # r
      BY <1>2, <3>2 DEF TInv, TypeOK, At
    <3>. QED BY <3>1, <3>2
  <2>. QED BY <2>1, <2>2 DEF TInv, AlertsOfRequestsExist, Exists, appVars
<1>. QED BY <1>5, <1>6 DEF TInv

\* The first step of a handler: request r enters stage s, which names an
\* existing alert, and alerts are added or keep existing.
LEMMA ArrivalType ==
    ASSUME TInv, NEW r \in Request, NEW s \in Stage,
           req' = [req EXCEPT ![r] = s],
           s.pc \notin {"idle", "rejected"} =>
             s.alert_id \in AlertId /\ alerts'[s.alert_id] # NoAlert,
           \A a \in AlertId : Exists(a) => alerts'[a] # NoAlert
    PROVE  req' \in [Request -> Stage] /\ AlertsOfRequestsExist'
<1>1. req' \in [Request -> Stage]
  BY ReqType DEF TInv
<1>2. AlertsOfRequestsExist'
  <2> SUFFICES ASSUME NEW q \in Request, ~At(q, "idle")', ~At(q, "rejected")'
               PROVE  Exists(req[q].alert_id)'
    BY DEF AlertsOfRequestsExist
  <2>1. CASE q = r
    BY <2>1 DEF TInv, TypeOK, At, Exists
  <2>2. CASE q # r
    <3>1. req'[q] = req[q]
      BY <2>2 DEF TInv, TypeOK
    <3>2. ~At(q, "idle") /\ ~At(q, "rejected")
      BY <3>1 DEF At
    <3>3. Exists(req[q].alert_id) /\ req[q].alert_id \in AlertId
      <4>1. req[q] \in Creating \cup Deciding \cup Advising
        BY <3>2 DEF TInv, TypeOK, Stage, At, Idle, Rejected
      <4>. QED BY <3>2, <4>1 DEF TInv, AlertsOfRequestsExist, Creating,
                                 Deciding, Advising
    <3>. QED BY <3>1, <3>3 DEF Exists
  <2>. QED BY <2>1, <2>2
<1>. QED BY <1>1, <1>2

\* One step of any request keeps the types and the alerts requests name.
LEMMA StepType ==
    TInv /\ [Next]_vars => TInv'
<1> SUFFICES ASSUME TInv, [Next]_vars PROVE TInv'
  OBVIOUS
<1> USE EventsAreEvents, StageOfPc DEF TInv
<1>1. ASSUME NEW r \in Request, NEW a \in AlertId, NEW src \in AccountId,
             NEW dst \in AccountId \cup {NoAccount}, NEW score \in Score,
             InsertAlert(r, a, src, dst, score)
      PROVE  TInv'
  <2> DEFINE s == [pc |-> "log_created", alert_id |-> a,
                   anomaly_score |-> score]
             new == [status |-> "open", source_account |-> src,
                     destination_account |-> dst]
  <2>1. s \in Stage /\ new \in Alert
    BY DEF Stage, Creating, Alert, InvestigationStatus
  <2>2. alerts' = [alerts EXCEPT ![a] = new]
        /\ req' = [req EXCEPT ![r] = s]
        /\ metrics' \in Metrics
    BY <1>1 DEF InsertAlert, TypeOK, Metrics
  <2>3. new # NoAlert
    BY DEF NoAlert
  <2>4. \A b \in AlertId : Exists(b) \/ b = a => alerts'[b] # NoAlert
    BY <2>2, <2>3 DEF Exists, TypeOK
  <2>5. req' \in [Request -> Stage] /\ AlertsOfRequestsExist'
    BY <2>1, <2>2, <2>4, ArrivalType
  <2>. QED BY <1>1, <2>1, <2>2, <2>5 DEF InsertAlert, TypeOK
<1>2. ASSUME NEW r \in Request, Reject(r)
      PROVE  TInv'
  <2>1. req' = [req EXCEPT ![r] = Rejected] /\ Rejected \in Stage
        /\ UNCHANGED <<records, appVars>>
    BY <1>2 DEF Reject, Stage
  <2>2. \A a \in AlertId : Exists(a) => alerts'[a] # NoAlert
    BY <2>1 DEF Exists, appVars
  <2>3. Rejected.pc \in {"idle", "rejected"}
    BY DEF Rejected
  <2>4. req' \in [Request -> Stage] /\ AlertsOfRequestsExist'
    BY <2>1, <2>2, <2>3, ArrivalType
  <2>. QED BY <2>1, <2>4 DEF TypeOK, appVars
<1>3. ASSUME NEW r \in Request, NEW who \in InvestigatorId, NEW a \in AlertId,
             NEW decision \in Decision, WriteDecision(r, who, a, decision)
      PROVE  TInv'
  <2> DEFINE s == [pc |-> "log_decision", alert_id |-> a, who |-> who,
                   from |-> alerts[a].status, decision |-> decision]
  <2>1. alerts[a] \in Alert /\ decision \in InvestigationStatus
    BY <1>3, DecisionAssumption DEF WriteDecision, Exists, TypeOK
  <2>2. s \in Stage
    BY <2>1 DEF Stage, Deciding, Alert
  <2>3. alerts' = [alerts EXCEPT ![a].status = decision]
        /\ req' = [req EXCEPT ![r] = s]
        /\ UNCHANGED <<records, flagged_accounts, ai_recommendations, metrics>>
    BY <1>3 DEF WriteDecision
  <2>4. alerts'[a] \in Alert /\ \A b \in AlertId \ {a} : alerts'[b] = alerts[b]
    BY <2>1, <2>3 DEF TypeOK, Alert
  <2>5. NoAlert \notin Alert
    BY DEF NoAlert, Alert, InvestigationStatus
  <2>6. \A b \in AlertId : Exists(b) \/ b = a => alerts'[b] # NoAlert
    BY <2>4, <2>5 DEF Exists
  <2>7. req' \in [Request -> Stage] /\ AlertsOfRequestsExist'
    BY <2>2, <2>3, <2>6, ArrivalType
  <2>8. alerts' \in [AlertId -> Alert \cup {NoAlert}]
    BY <2>3, <2>4 DEF TypeOK
  <2>. QED BY <2>3, <2>7, <2>8 DEF TypeOK
<1>4. ASSUME NEW r \in Request, NEW a \in AlertId, LookUpAlert(r, a)
      PROVE  TInv'
  <2> DEFINE s == [pc |-> "log_sent", alert_id |-> a, advice |-> Fallback]
  <2>1. s \in Stage
    BY FallbackIsAdvice DEF Stage, Advising
  <2>2. req' = [req EXCEPT ![r] = s] /\ Exists(a)
        /\ UNCHANGED <<records, appVars>>
    BY <1>4 DEF LookUpAlert
  <2>3. \A b \in AlertId : Exists(b) => alerts'[b] # NoAlert
    BY <2>2 DEF Exists, appVars
  <2>4. req' \in [Request -> Stage] /\ AlertsOfRequestsExist'
    BY <2>1, <2>2, <2>3, ArrivalType
  <2>. QED BY <2>2, <2>4 DEF TypeOK, appVars
<1>5. ASSUME NEW r \in Request, LogAlertCreated(r)
      PROVE  TInv'
  <2>1. req[r] \in Creating /\ ~At(r, "idle") /\ ~At(r, "rejected")
    BY <1>5 DEF LogAlertCreated, At
  <2>2. [req[r] EXCEPT !.pc = "log_rules"] \in Creating
    BY <2>1 DEF Creating
  <2>. QED BY <1>5, <2>1, <2>2, LogStepType DEF LogAlertCreated, Creating
<1>6. ASSUME NEW r \in Request, LogRulesTriggered(r)
      PROVE  TInv'
  <2>1. req[r] \in Creating /\ ~At(r, "idle") /\ ~At(r, "rejected")
    BY <1>6 DEF LogRulesTriggered, At
  <2>2. [req[r] EXCEPT !.pc = "created"] \in Creating
    BY <2>1 DEF Creating
  <2>. QED BY <1>6, <2>1, <2>2, LogStepType DEF LogRulesTriggered, Creating
<1>7. ASSUME NEW r \in Request, LogDecision(r)
      PROVE  TInv'
  <2>1. req[r] \in Deciding /\ ~At(r, "idle") /\ ~At(r, "rejected")
    BY <1>7 DEF LogDecision, At
  <2>2. [req[r] EXCEPT !.pc = "log_status"] \in Deciding
    BY <2>1 DEF Deciding
  <2>. QED BY <1>7, <2>1, <2>2, LogStepType DEF LogDecision, Deciding
<1>8. ASSUME NEW r \in Request, LogStatus(r)
      PROVE  TInv'
  <2>1. req[r] \in Deciding /\ ~At(r, "idle") /\ ~At(r, "rejected")
    BY <1>8 DEF LogStatus, At
  <2>2. [req[r] EXCEPT !.pc = "flag"] \in Deciding
    BY <2>1 DEF Deciding
  <2>. QED BY <1>8, <2>1, <2>2, LogStepType DEF LogStatus, Deciding
<1>9. ASSUME NEW r \in Request, Flag(r)
      PROVE  TInv'
  <2>1. req[r] \in Deciding /\ ~At(r, "idle") /\ ~At(r, "rejected")
    BY <1>9 DEF Flag, At
  <2>2. [req[r] EXCEPT !.pc = "decided"] \in Stage
    BY <2>1 DEF Deciding, Stage
  <2>3. alerts[req[r].alert_id] \in Alert
    BY <2>1 DEF AlertsOfRequestsExist, Exists, TypeOK, Deciding
  <2>4. AccountsOf(req[r].alert_id) \subseteq AccountId
    BY <2>3 DEF AccountsOf, Alert
  <2>5. flagged_accounts' \subseteq AccountId
    BY <1>9, <2>4 DEF Flag, TypeOK
  <2>6. req' = [req EXCEPT ![r] = [req[r] EXCEPT !.pc = "decided"]]
        /\ metrics' \in Metrics
        /\ UNCHANGED <<records, alerts, ai_recommendations>>
    <3>1. req' = [req EXCEPT ![r] = [req[r] EXCEPT !.pc = "decided"]]
          /\ UNCHANGED <<records, alerts, ai_recommendations>>
      BY <1>9 DEF Flag, Goto
    <3>2. metrics' = [metrics EXCEPT !.investigator_decisions_total = @ + 1]
      BY <1>9 DEF Flag
    <3>3. metrics' \in Metrics
      BY <3>2 DEF TypeOK, Metrics
    <3>. QED BY <3>1, <3>3
  <2>7. \A b \in AlertId : Exists(b) => alerts'[b] # NoAlert
    BY <2>6 DEF Exists
  <2>8. [req[r] EXCEPT !.pc = "decided"].alert_id = req[r].alert_id
        /\ req[r].alert_id \in AlertId /\ Exists(req[r].alert_id)
    BY <2>1 DEF Deciding, AlertsOfRequestsExist
  <2>9. req' \in [Request -> Stage] /\ AlertsOfRequestsExist'
    BY <2>2, <2>6, <2>7, <2>8, ArrivalType
  <2>. QED BY <2>5, <2>6, <2>9 DEF TypeOK

<1>10. ASSUME NEW r \in Request, LogContextSent(r)
       PROVE  TInv'
  <2>1. req[r] \in Advising /\ ~At(r, "idle") /\ ~At(r, "rejected")
    BY <1>10 DEF LogContextSent, At
  <2>2. [req[r] EXCEPT !.pc = "investigate"] \in Advising
    BY <2>1 DEF Advising
  <2>. QED BY <1>10, <2>1, <2>2, LogStepType DEF LogContextSent, Advising
<1>11. ASSUME NEW r \in Request, NEW advice \in Advice,
              AdvisorAnswers(r, advice)
       PROVE  TInv'
  <2> DEFINE s == [req[r] EXCEPT !.pc = "log_received",
                                 !.advice = advice]
  <2>1. req[r] \in Advising /\ ~At(r, "idle") /\ ~At(r, "rejected")
    BY <1>11 DEF AdvisorAnswers, At
  <2>2. s \in Stage /\ s.alert_id = req[r].alert_id
        /\ req[r].alert_id \in AlertId
    BY <2>1 DEF Advising, Stage
  <2>3. req' = [req EXCEPT ![r] = s]
    BY <1>11 DEF AdvisorAnswers
  <2>4. metrics' \in Metrics
        /\ UNCHANGED <<records, alerts, flagged_accounts, ai_recommendations>>
    <3> DEFINE total == metrics.ai_recommendations_total + 1
               fallback == IF advice.model_available
                           THEN metrics.ai_fallback_total
                           ELSE metrics.ai_fallback_total + 1
    <3>1. metrics \in Metrics
      BY DEF TypeOK
    <3>2. total \in Nat /\ fallback \in Nat
      BY <3>1 DEF Metrics
    <3>3. metrics' = [metrics EXCEPT !.ai_recommendations_total = total,
                                     !.ai_fallback_total = fallback]
          /\ UNCHANGED <<records, alerts, flagged_accounts,
                         ai_recommendations>>
      BY <1>11 DEF AdvisorAnswers
    <3> HIDE DEF total, fallback
    <3>. QED BY <3>1, <3>2, <3>3 DEF Metrics
  <2>5. \A b \in AlertId : Exists(b) => alerts'[b] # NoAlert
    BY <2>4 DEF Exists
  <2>6. alerts'[req[r].alert_id] # NoAlert
    BY <2>1, <2>2, <2>5 DEF AlertsOfRequestsExist
  <2>7. req' \in [Request -> Stage] /\ AlertsOfRequestsExist'
    BY <2>2, <2>3, <2>5, <2>6, ArrivalType
  <2>. QED BY <2>4, <2>7 DEF TypeOK
<1>12. ASSUME NEW r \in Request, ClientDisconnects(r)
       PROVE  TInv'
  <2> DEFINE s == [req[r] EXCEPT !.pc = "dropped"]
  <2>1. req[r] \in Advising /\ ~At(r, "idle") /\ ~At(r, "rejected")
    BY <1>12 DEF ClientDisconnects, At
  <2>2. s \in Stage /\ s.alert_id = req[r].alert_id
        /\ req[r].alert_id \in AlertId
    BY <2>1 DEF Advising, Stage
  <2>3. req' = [req EXCEPT ![r] = s] /\ UNCHANGED <<records, appVars>>
    BY <1>12 DEF ClientDisconnects, Goto
  <2>4. \A b \in AlertId : Exists(b) => alerts'[b] # NoAlert
    BY <2>3 DEF Exists, appVars
  <2>5. alerts'[req[r].alert_id] # NoAlert
    BY <2>1, <2>2, <2>4 DEF AlertsOfRequestsExist
  <2>6. req' \in [Request -> Stage] /\ AlertsOfRequestsExist'
    BY <2>2, <2>3, <2>4, <2>5, ArrivalType
  <2>. QED BY <2>3, <2>6 DEF TypeOK, appVars
<1>13. ASSUME NEW r \in Request, LogReceived(r)
       PROVE  TInv'
  <2>1. req[r] \in Advising /\ ~At(r, "idle") /\ ~At(r, "rejected")
    BY <1>13 DEF LogReceived, At
  <2>2. [req[r] EXCEPT !.pc = "store"] \in Advising
    BY <2>1 DEF Advising
  <2>. QED BY <1>13, <2>1, <2>2, LogStepType DEF LogReceived, Advising
<1>14. ASSUME NEW r \in Request, StoreRecommendation(r)
       PROVE  TInv'
  <2> DEFINE s == [req[r] EXCEPT !.pc = "advised"]
  <2>1. req[r] \in Advising /\ ~At(r, "idle") /\ ~At(r, "rejected")
    BY <1>14 DEF StoreRecommendation, At
  <2>2. s \in Stage /\ s.alert_id = req[r].alert_id
        /\ req[r].alert_id \in AlertId /\ req[r].advice \in Advice
    BY <2>1 DEF Advising, Stage
  <2>3. req' = [req EXCEPT ![r] = s]
        /\ UNCHANGED <<records, alerts, flagged_accounts, metrics>>
    BY <1>14 DEF StoreRecommendation, Goto
  <2>4. \A b \in AlertId : Exists(b) => alerts'[b] # NoAlert
    BY <2>3 DEF Exists
  <2>5. alerts'[req[r].alert_id] # NoAlert
    BY <2>1, <2>2, <2>4 DEF AlertsOfRequestsExist
  <2>6. req' \in [Request -> Stage] /\ AlertsOfRequestsExist'
    BY <2>2, <2>3, <2>4, <2>5, ArrivalType
  <2>7. ai_recommendations' \in
          [AlertId -> AiRecommendation \cup {NoRecommendation}]
    BY <1>14, <2>2 DEF StoreRecommendation, TypeOK, AiRecommendation
  <2>. QED BY <2>3, <2>6, <2>7 DEF TypeOK
<1>15. CASE UNCHANGED vars
  BY <1>15 DEF vars, appVars, TypeOK, AlertsOfRequestsExist, At, Exists
<1>. QED
  BY <1>1, <1>2, <1>3, <1>4, <1>5, <1>6, <1>7, <1>8, <1>9, <1>10, <1>11,
     <1>12, <1>13, <1>14, <1>15 DEF Next, Arrive, Advance

\* TInv holds at every moment of every run of the handlers.
LEMMA TypeInvariant == Spec => []TInv
  BY InitType, StepType, PTL DEF Spec

\* The alert store, the audit log, the flagged accounts, the stored
\* recommendations, the counters and the locals of every handler keep their
\* types, whatever requests arrive and however their steps interleave.
THEOREM TypeCorrect == Spec => []TypeOK
<1>1. TInv => TypeOK
  BY DEF TInv
<1>. QED BY <1>1, TypeInvariant, PTL

-----------------------------------------------------------------------------
(* The audit log *)

\* Every step of every handler leaves the log alone or appends one
\* well-formed record to it.
LEMMA StepRecords ==
    ASSUME TInv, [Next]_vars
    PROVE  \/ UNCHANGED records
           \/ \E a \in AlertId, e \in AuditEventKind : append(a, e)
<1> USE EventsAreEvents, StageOfPc DEF TInv
<1> SUFFICES ASSUME ~UNCHANGED records
             PROVE  \E a \in AlertId, e \in AuditEventKind : append(a, e)
  OBVIOUS
<1>1. PICK r \in Request :
        \/ LogAlertCreated(r) \/ LogRulesTriggered(r)
        \/ LogDecision(r) \/ LogStatus(r)
        \/ LogContextSent(r) \/ LogReceived(r)
  BY DEF Next, Arrive, Advance, vars, InsertAlert, Reject, WriteDecision,
         LookUpAlert, Flag, AdvisorAnswers, ClientDisconnects,
         StoreRecommendation
<1>2. CASE LogAlertCreated(r)
  BY <1>2 DEF LogAlertCreated, At, Creating
<1>3. CASE LogRulesTriggered(r)
  BY <1>3 DEF LogRulesTriggered, At, Creating
<1>4. CASE LogDecision(r)
  BY <1>4 DEF LogDecision, At, Deciding
<1>5. CASE LogStatus(r)
  BY <1>5 DEF LogStatus, At, Deciding
<1>6. CASE LogContextSent(r)
  BY <1>6 DEF LogContextSent, At, Advising
<1>7. CASE LogReceived(r)
  BY <1>7 DEF LogReceived, At, Advising
<1>. QED BY <1>1, <1>2, <1>3, <1>4, <1>5, <1>6, <1>7

\* verify_integrity never reports a log that only append has written, however
\* many handlers append to it at once.
THEOREM ChainIntact == Spec => []AuditChainIntact
<1>1. Init => AuditChainIntact
  BY DEF Init, AuditInit, AuditChainIntact, verify_integrity
<1>2. TInv /\ AuditChainIntact /\ [Next]_vars => AuditChainIntact'
  <2> SUFFICES ASSUME TInv, AuditChainIntact, [Next]_vars
               PROVE  AuditChainIntact'
    OBVIOUS
  <2>1. CASE UNCHANGED records
    BY <2>1 DEF AuditChainIntact
  <2>2. ASSUME NEW a \in AlertId, NEW e \in AuditEventKind, append(a, e)
        PROVE  AuditChainIntact'
    <3>1. records \in Seq(AuditRecord) /\ verify_integrity(records)
      BY DEF TInv, TypeOK, AuditChainIntact
    <3>. QED BY <2>2, <3>1, AppendKeepsIntact DEF append, AuditChainIntact
  <2>. QED BY <2>1, <2>2, StepRecords
<1>. QED BY <1>1, <1>2, TypeInvariant, PTL DEF Spec

\* No handler removes or rewrites a record.
THEOREM AppendOnly == Spec => AuditAppendOnly
<1>1. TInv /\ [Next]_vars =>
        [/\ Len(records') >= Len(records)
         /\ SubSeq(records', 1, Len(records)) = records]_vars
  <2> SUFFICES ASSUME TInv, [Next]_vars
               PROVE  /\ Len(records') >= Len(records)
                      /\ SubSeq(records', 1, Len(records)) = records
    OBVIOUS
  <2>1. records \in Seq(AuditRecord)
    BY DEF TInv, TypeOK
  <2>2. CASE UNCHANGED records
    BY <2>1, <2>2
  <2>3. ASSUME NEW a \in AlertId, NEW e \in AuditEventKind, append(a, e)
        PROVE  /\ Len(records') >= Len(records)
               /\ SubSeq(records', 1, Len(records)) = records
    <3>1. NextRecord(records, a, e) \in AuditRecord
      BY <2>1, NextRecordType
    <3>. QED BY <2>1, <2>3, <3>1 DEF append
  <2>. QED BY <2>2, <2>3, StepRecords
<1>. QED BY <1>1, TypeInvariant, PTL DEF Spec, AuditAppendOnly

\* Whatever the handlers have recorded, an altered, reordered or removed
\* record before the tail is noticed.
THEOREM TamperingIsEvident == Spec => []TamperEvident
<1>1. TInv /\ AuditChainIntact => TamperEvident
  BY AlterationDetected, ReorderingDetected, RemovalDetected
     DEF TInv, TypeOK, AuditChainIntact, TamperEvident, Tampered
<1>. QED BY <1>1, TypeInvariant, ChainIntact, PTL

-----------------------------------------------------------------------------
(* What one step of the handlers can change *)

\* A record, once appended, is found at every later moment, at its index.
LEMMA RecordsStay ==
    ASSUME TInv, [Next]_vars, NEW a, NEW e
    PROVE  Records(a, e) \subseteq Records(a, e)'
<1>1. records \in Seq(AuditRecord)
  BY DEF TInv, TypeOK
<1>2. CASE UNCHANGED records
  BY <1>2 DEF Records
<1>3. ASSUME NEW b \in AlertId, NEW f \in AuditEventKind, append(b, f)
      PROVE  Records(a, e) \subseteq Records(a, e)'
  <2>1. NextRecord(records, b, f) \in AuditRecord
    BY <1>1, NextRecordType
  <2>2. \A i \in DOMAIN records :
          i \in DOMAIN records' /\ records'[i] = records[i]
    BY <1>1, <1>3, <2>1 DEF append
  <2>. QED BY <2>2 DEF Records
<1>. QED BY <1>2, <1>3, StepRecords

\* append adds its record behind every other.
LEMMA AppendAdds ==
    ASSUME TInv, NEW a \in AlertId, NEW e \in AuditEventKind, append(a, e)
    PROVE  /\ Len(records) + 1 \in Records(a, e)'
           /\ \A i \in DOMAIN records : i < Len(records) + 1
<1>1. records \in Seq(AuditRecord)
  BY DEF TInv, TypeOK
<1>2. NextRecord(records, a, e) \in AuditRecord
  BY <1>1, NextRecordType
<1>3. Len(records) + 1 \in DOMAIN records'
      /\ records'[Len(records) + 1] = NextRecord(records, a, e)
  BY <1>1, <1>2 DEF append
<1>4. NextRecord(records, a, e).alert_id = a
      /\ NextRecord(records, a, e).event = e
  BY DEF NextRecord
<1>5. \A i \in DOMAIN records : i < Len(records) + 1
  BY <1>1
<1>. QED BY <1>3, <1>4, <1>5 DEF Records

\* A step serves one request: every other keeps its stage.
LEMMA OthersStay ==
    ASSUME TInv, [Next]_vars, NEW q \in Request, req'[q] # req[q]
    PROVE  Arrive(q) \/ Advance(q) \/ ClientDisconnects(q)
<1>1. ~UNCHANGED vars
  BY DEF vars
<1>2. PICK r \in Request : Arrive(r) \/ Advance(r) \/ ClientDisconnects(r)
  BY <1>1 DEF Next
<1>3. \E s : req' = [req EXCEPT ![r] = s]
  BY <1>2 DEF Arrive, Advance, InsertAlert, Reject, WriteDecision, LookUpAlert,
       LogAlertCreated, LogRulesTriggered, LogDecision, LogStatus, Flag,
       LogContextSent, AdvisorAnswers, LogReceived, StoreRecommendation,
       ClientDisconnects, Goto
<1>4. q = r
  BY <1>3 DEF TInv, TypeOK
<1>. QED BY <1>2, <1>4

\* The task of q, with locals of the given kind, goes on to label and keeps
\* its locals.
Went(q, Kind, label) ==
    /\ req[q] \in Kind
    /\ req'[q] = [req[q] EXCEPT !.pc = label]
    /\ req'[q].pc = label

\* The advisor has answered q: its task goes on with the answer.
WentOn(q, advice) ==
    /\ req[q] \in Advising
    /\ req'[q] = [req[q] EXCEPT !.pc = "log_received",
                                !.advice = advice]
    /\ req'[q].pc = "log_received"

\* Where a request goes in one step of its own.
LEMMA Moves ==
    ASSUME TInv, [Next]_vars, NEW q \in Request, req'[q] # req[q]
    PROVE  \/ Arrive(q) /\ req'[q].pc \in {"log_created", "rejected",
                                          "log_decision", "log_sent"}
           \/ \E advice \in Advice :
                AdvisorAnswers(q, advice) /\ WentOn(q, advice)
           \/ LogAlertCreated(q) /\ Went(q, Creating, "log_rules")
           \/ LogRulesTriggered(q) /\ Went(q, Creating, "created")
           \/ LogDecision(q) /\ Went(q, Deciding, "log_status")
           \/ LogStatus(q) /\ Went(q, Deciding, "flag")
           \/ Flag(q) /\ Went(q, Deciding, "decided")
           \/ LogContextSent(q) /\ Went(q, Advising, "investigate")
           \/ LogReceived(q) /\ Went(q, Advising, "store")
           \/ StoreRecommendation(q) /\ Went(q, Advising, "advised")
           \/ ClientDisconnects(q) /\ Went(q, Advising, "dropped")
<1>1. CASE Arrive(q)
  <2>1. req \in [Request -> Stage]
    BY DEF TInv, TypeOK
  <2>2. ASSUME NEW a \in AlertId, NEW src \in AccountId,
               NEW dst \in AccountId \cup {NoAccount}, NEW score \in Score,
               InsertAlert(q, a, src, dst, score)
        PROVE  req'[q].pc = "log_created"
    BY <2>1, <2>2 DEF InsertAlert
  <2>3. ASSUME Reject(q) PROVE req'[q].pc = "rejected"
    BY <2>1, <2>3 DEF Reject, Rejected
  <2>4. ASSUME NEW who \in InvestigatorId, NEW a \in AlertId,
               NEW decision \in Decision, WriteDecision(q, who, a, decision)
        PROVE  req'[q].pc = "log_decision"
    BY <2>1, <2>4 DEF WriteDecision
  <2>5. ASSUME NEW a \in AlertId, LookUpAlert(q, a)
        PROVE  req'[q].pc = "log_sent"
    BY <2>1, <2>5 DEF LookUpAlert
  <2>. QED BY <1>1, <2>2, <2>3, <2>4, <2>5 DEF Arrive
<1>2. ASSUME NEW advice \in Advice, AdvisorAnswers(q, advice)
      PROVE  WentOn(q, advice)
  <2>1. req[q] \in Advising
    BY <1>2, StageOfPc DEF AdvisorAnswers, At, TInv
  <2>2. req'[q] = [req[q] EXCEPT !.pc = "log_received",
                                 !.advice = advice]
    BY <1>2 DEF AdvisorAnswers, TInv, TypeOK
  <2>. QED BY <2>1, <2>2 DEF WentOn, Advising
<1>3. ASSUME NEW label, Goto(q, label)
      PROVE  /\ req[q] \in Creating => Went(q, Creating, label)
             /\ req[q] \in Deciding => Went(q, Deciding, label)
             /\ req[q] \in Advising => Went(q, Advising, label)
  <2>1. req'[q] = [req[q] EXCEPT !.pc = label]
    BY <1>3 DEF Goto, TInv, TypeOK
  <2>. QED BY <2>1 DEF Went, Creating, Deciding, Advising
<1>4. CASE LogAlertCreated(q)
  <2>1. req[q] \in Creating
    BY <1>4, StageOfPc DEF LogAlertCreated, At, TInv
  <2>. QED BY <1>4, <1>3, <2>1 DEF LogAlertCreated
<1>5. CASE LogRulesTriggered(q)
  <2>1. req[q] \in Creating
    BY <1>5, StageOfPc DEF LogRulesTriggered, At, TInv
  <2>. QED BY <1>5, <1>3, <2>1 DEF LogRulesTriggered
<1>6. CASE LogDecision(q)
  <2>1. req[q] \in Deciding
    BY <1>6, StageOfPc DEF LogDecision, At, TInv
  <2>. QED BY <1>6, <1>3, <2>1 DEF LogDecision
<1>7. CASE LogStatus(q)
  <2>1. req[q] \in Deciding
    BY <1>7, StageOfPc DEF LogStatus, At, TInv
  <2>. QED BY <1>7, <1>3, <2>1 DEF LogStatus
<1>8. CASE Flag(q)
  <2>1. req[q] \in Deciding
    BY <1>8, StageOfPc DEF Flag, At, TInv
  <2>. QED BY <1>8, <1>3, <2>1 DEF Flag
<1>9. CASE LogContextSent(q)
  <2>1. req[q] \in Advising
    BY <1>9, StageOfPc DEF LogContextSent, At, TInv
  <2>. QED BY <1>9, <1>3, <2>1 DEF LogContextSent
<1>10. CASE LogReceived(q)
  <2>1. req[q] \in Advising
    BY <1>10, StageOfPc DEF LogReceived, At, TInv
  <2>. QED BY <1>10, <1>3, <2>1 DEF LogReceived
<1>11. CASE StoreRecommendation(q)
  <2>1. req[q] \in Advising
    BY <1>11, StageOfPc DEF StoreRecommendation, At, TInv
  <2>. QED BY <1>11, <1>3, <2>1 DEF StoreRecommendation
<1>12. CASE ClientDisconnects(q)
  <2>1. req[q] \in Advising
    BY <1>12, StageOfPc DEF ClientDisconnects, At, TInv
  <2>. QED BY <1>12, <1>3, <2>1 DEF ClientDisconnects
<1>. QED
  BY <1>1, <1>2, <1>4, <1>5, <1>6, <1>7, <1>8, <1>9, <1>10, <1>11, <1>12,
     OthersStay DEF Advance

\* A step changes an alert only by creating it or by deciding on it.
LEMMA AlertSteps ==
    ASSUME TInv, [Next]_vars, NEW a \in AlertId, alerts'[a] # alerts[a]
    PROVE  \/ ~Exists(a) /\ alerts'[a].status = "open"
           \/ /\ Exists(a)
              /\ \E r \in Request, who \in InvestigatorId, d \in Decision :
                   WriteDecision(r, who, a, d)
<1>1. ~UNCHANGED alerts
  OBVIOUS
<1>2. PICK r \in Request :
        \/ \E b \in AlertId, src \in AccountId,
              dst \in AccountId \cup {NoAccount}, score \in Score :
             InsertAlert(r, b, src, dst, score)
        \/ \E who \in InvestigatorId, b \in AlertId, d \in Decision :
             WriteDecision(r, who, b, d)
  BY <1>1 DEF Next, Arrive, Advance, vars, appVars, Reject, LookUpAlert,
       LogAlertCreated, LogRulesTriggered, LogDecision, LogStatus, Flag,
       LogContextSent, AdvisorAnswers, LogReceived, StoreRecommendation,
       ClientDisconnects
<1>3. ASSUME NEW b \in AlertId, NEW src \in AccountId,
             NEW dst \in AccountId \cup {NoAccount}, NEW score \in Score,
             InsertAlert(r, b, src, dst, score)
      PROVE  ~Exists(a) /\ alerts'[a].status = "open"
  BY <1>3 DEF InsertAlert, TInv, TypeOK
<1>4. ASSUME NEW who \in InvestigatorId, NEW b \in AlertId, NEW d \in Decision,
             WriteDecision(r, who, b, d)
      PROVE  Exists(a) /\ WriteDecision(r, who, a, d)
  <2>1. a = b
    BY <1>4 DEF WriteDecision, TInv, TypeOK
  <2>. QED BY <1>4, <2>1 DEF WriteDecision
<1>. QED BY <1>2, <1>3, <1>4

-----------------------------------------------------------------------------
(* The AI never decides *)

\* Decision s of who on alert a is recorded, or about to be by the request
\* that wrote the status.
Accounted(a, who, s) ==
    \/ Records(a, InvestigatorDecision(who, s)) # {}
    \/ \E r \in Request :
         /\ At(r, "log_decision")
         /\ req[r].alert_id = a
         /\ req[r].who = who
         /\ req[r].decision = s

\* A decision that is accounted for stays so: the request that owes the
\* record appends it before anything else.
LEMMA AccountedStays ==
    ASSUME TInv, [Next]_vars, NEW a, NEW who, NEW s, Accounted(a, who, s)
    PROVE  Accounted(a, who, s)'
<1>1. CASE Records(a, InvestigatorDecision(who, s)) # {}
  BY <1>1, RecordsStay DEF Accounted
<1>2. ASSUME NEW r \in Request, At(r, "log_decision"), req[r].alert_id = a,
             req[r].who = who, req[r].decision = s
      PROVE  Accounted(a, who, s)'
  <2>1. CASE req'[r] = req[r]
    BY <1>2, <2>1 DEF Accounted, At
  <2>2. CASE req'[r] # req[r]
    <3>1. LogDecision(r) /\ req[r] \in Deciding
      BY <1>2, <2>2, Moves DEF Went, Arrive, At, InsertAlert, Reject,
         WriteDecision, LookUpAlert, AdvisorAnswers, LogAlertCreated,
         LogRulesTriggered, LogStatus, Flag, LogContextSent, LogReceived,
         StoreRecommendation, ClientDisconnects
    <3>2. a \in AlertId /\ InvestigatorDecision(who, s) \in AuditEventKind
      BY <1>2, <3>1, EventsAreEvents DEF Deciding
    <3>3. append(a, InvestigatorDecision(who, s))
      BY <1>2, <3>1 DEF LogDecision
    <3>. QED BY <3>2, <3>3, AppendAdds DEF Accounted
  <2>. QED BY <2>1, <2>2
<1>. QED BY <1>1, <1>2 DEF Accounted

\* A status is written by a request that then owes its record.
LEMMA HumanDecisionStays ==
    TInv /\ StatusIsAHumanDecision /\ [Next]_vars => StatusIsAHumanDecision'
<1> SUFFICES ASSUME TInv, StatusIsAHumanDecision, [Next]_vars,
                    NEW a \in AlertId,
                    alerts'[a].status \in InvestigationStatus \ {"open"}
             PROVE  \E who \in InvestigatorId :
                      /\ can_decide(RoleOf[who])
                      /\ Accounted(a, who, alerts[a].status)'
  BY DEF StatusIsAHumanDecision, Accounted
<1>1. CASE alerts'[a] = alerts[a]
  <2>1. PICK who \in InvestigatorId :
          can_decide(RoleOf[who]) /\ Accounted(a, who, alerts[a].status)
    BY <1>1 DEF StatusIsAHumanDecision, Accounted
  <2>. DEFINE s == alerts[a].status
  <2>2. \A x : Accounted(a, who, x) => Accounted(a, who, x)'
    BY AccountedStays
  <2>. QED BY <1>1, <2>1, <2>2 DEF Accounted
<1>2. CASE alerts'[a] # alerts[a]
  <2>1. PICK r \in Request, who \in InvestigatorId, d \in Decision :
          WriteDecision(r, who, a, d)
    BY <1>2, AlertSteps
  <2>2. alerts'[a].status = d
    BY <2>1 DEF WriteDecision, TInv, TypeOK, Exists, Alert
  <2>3. req'[r].pc = "log_decision" /\ req'[r].alert_id = a
        /\ req'[r].who = who /\ req'[r].decision = d
    BY <2>1 DEF WriteDecision, TInv, TypeOK
  <2>4. can_decide(RoleOf[who])
    BY <2>1 DEF WriteDecision
  <2>. QED BY <2>2, <2>3, <2>4 DEF Accounted, At
<1>. QED BY <1>1, <1>2

\* docs/human-in-the-loop.md:3: no status but the initial one is ever reached
\* without a decision of an investigator who may decide, which is in the log
\* or about to be appended.
THEOREM OnlyHumansDecide == Spec => []StatusIsAHumanDecision
<1>1. Init => StatusIsAHumanDecision
  BY DEF Init, StatusIsAHumanDecision, NoAlert, InvestigationStatus
<1>. QED BY <1>1, HumanDecisionStays, TypeInvariant, PTL DEF Spec

-----------------------------------------------------------------------------
(* Flagged accounts *)

\* No step changes the accounts of an alert, or removes a flag.
LEMMA AccountsAndFlagsStay ==
    ASSUME TInv, [Next]_vars
    PROVE  /\ flagged_accounts \subseteq flagged_accounts'
           /\ \A a \in AlertId : Exists(a) =>
                Exists(a)' /\ AccountsOf(a)' = AccountsOf(a)
<1>1. flagged_accounts \subseteq flagged_accounts'
  BY DEF Next, Arrive, Advance, vars, appVars, InsertAlert, Reject,
       WriteDecision, LookUpAlert, LogAlertCreated, LogRulesTriggered,
       LogDecision, LogStatus, Flag, LogContextSent, AdvisorAnswers,
       LogReceived, StoreRecommendation, ClientDisconnects
<1>2. ASSUME NEW a \in AlertId, Exists(a)
      PROVE  Exists(a)' /\ AccountsOf(a)' = AccountsOf(a)
  <2>1. CASE alerts'[a] = alerts[a]
    BY <1>2, <2>1 DEF Exists, AccountsOf
  <2>2. CASE alerts'[a] # alerts[a]
    <3>1. PICK r \in Request, who \in InvestigatorId, d \in Decision :
            WriteDecision(r, who, a, d)
      BY <1>2, <2>2, AlertSteps
    <3>2. alerts[a] \in Alert /\ d \in InvestigationStatus
      BY <1>2, DecisionAssumption DEF TInv, TypeOK, Exists
    <3>3. alerts'[a] = [alerts[a] EXCEPT !.status = d]
      BY <3>1 DEF WriteDecision, TInv, TypeOK
    <3>4. /\ alerts'[a].source_account = alerts[a].source_account
          /\ alerts'[a].destination_account = alerts[a].destination_account
          /\ alerts'[a] \in Alert
      BY <3>2, <3>3 DEF Alert
    <3>5. NoAlert \notin Alert
      BY DEF NoAlert, Alert, InvestigationStatus
    <3>. QED BY <3>4, <3>5 DEF Exists, AccountsOf
  <2>. QED BY <2>1, <2>2
<1>. QED BY <1>1, <1>2

\* Once a confirmation has been answered, both accounts of its alert are in
\* the set the flagged-account rule consults, whatever other decisions race
\* with it.
THEOREM ConfirmationsFlag == Spec => []ConfirmedAccountsFlagged
<1>1. Init => ConfirmedAccountsFlagged
  BY DEF Init, ConfirmedAccountsFlagged, At, Idle
<1>2. TInv /\ ConfirmedAccountsFlagged /\ [Next]_vars
        => ConfirmedAccountsFlagged'
  <2> SUFFICES ASSUME TInv, ConfirmedAccountsFlagged, [Next]_vars,
                      NEW r \in Request, At(r, "decided")',
                      req'[r].decision = "confirmed_suspicious"
               PROVE  AccountsOf(req[r].alert_id)' \subseteq flagged_accounts'
    BY DEF ConfirmedAccountsFlagged
  <2>1. CASE req'[r] = req[r]
    <3>1. At(r, "decided") /\ req[r].decision = "confirmed_suspicious"
      BY <2>1 DEF At
    <3>2. req[r].alert_id \in AlertId
      BY <3>1, StageOfPc DEF At, TInv, Deciding
    <3>3. Exists(req[r].alert_id)
      BY <3>1 DEF At, TInv, AlertsOfRequestsExist
    <3>4. AccountsOf(req[r].alert_id) \subseteq flagged_accounts
      BY <3>1 DEF ConfirmedAccountsFlagged
    <3>. QED BY <2>1, <3>2, <3>3, <3>4, AccountsAndFlagsStay DEF AccountsOf
  <2>2. CASE req'[r] # req[r]
    <3>1. req'[r].pc = "decided"
      BY DEF At
    <3>2. Flag(r) /\ Went(r, Deciding, "decided")
      BY <2>2, <3>1, Moves DEF Went, WentOn
    <3>3. req'[r].decision = req[r].decision
          /\ req'[r].alert_id = req[r].alert_id
      BY <3>2 DEF Went, Deciding
    <3>. QED BY <3>2, <3>3 DEF Flag, AccountsOf
  <2>. QED BY <2>1, <2>2
<1>. QED BY <1>1, <1>2, TypeInvariant, PTL DEF Spec

\* A request whose decision has been appended finds it in the log.
DecisionsLogged ==
    \A r \in Request :
      req[r].pc \in {"log_status", "flag", "decided"} =>
        Records(req[r].alert_id,
                InvestigatorDecision(req[r].who, req[r].decision)) # {}

\* The record of a decision is there before its request goes on.
LEMMA DecisionsLoggedInvariant == Spec => []DecisionsLogged
<1>1. Init => DecisionsLogged
  BY DEF Init, DecisionsLogged, Idle
<1>2. TInv /\ DecisionsLogged /\ [Next]_vars => DecisionsLogged'
  <2> SUFFICES ASSUME TInv, DecisionsLogged, [Next]_vars, NEW r \in Request,
                      req'[r].pc \in {"log_status", "flag", "decided"}
               PROVE  Records(req[r].alert_id, InvestigatorDecision(
                                req[r].who, req[r].decision))' # {}
    BY DEF DecisionsLogged
  <2>. DEFINE event == InvestigatorDecision(req[r].who, req[r].decision)
  <2>1. CASE req'[r] = req[r]
    <3>1. Records(req[r].alert_id, event) # {}
      BY <2>1 DEF DecisionsLogged
    <3>2. \A a, e : Records(a, e) \subseteq Records(a, e)'
      BY RecordsStay
    <3>. QED BY <2>1, <3>1, <3>2 DEF Records
  <2>2. CASE req'[r] # req[r]
    <3>1. \/ LogDecision(r) /\ Went(r, Deciding, "log_status")
          \/ LogStatus(r) /\ Went(r, Deciding, "flag")
          \/ Flag(r) /\ Went(r, Deciding, "decided")
      BY <2>2, Moves DEF Went, WentOn
    <3>2. /\ req[r] \in Deciding
          /\ req'[r].alert_id = req[r].alert_id
          /\ req'[r].who = req[r].who
          /\ req'[r].decision = req[r].decision
      BY <3>1 DEF Went, Deciding
    <3>3. req[r].alert_id \in AlertId /\ event \in AuditEventKind
      BY <3>2, EventsAreEvents DEF Deciding
    <3>4. ASSUME NEW a, NEW e, a = req[r].alert_id, e = event
          PROVE  Records(a, e)' # {}
      <4>1. CASE LogDecision(r)
        BY <3>3, <3>4, <4>1, AppendAdds DEF LogDecision
      <4>2. CASE LogStatus(r) \/ Flag(r)
        <5>1. Records(a, e) # {}
          BY <3>4, <4>2 DEF DecisionsLogged, LogStatus, Flag, At
        <5>. QED BY <5>1, RecordsStay
      <4>. QED BY <3>1, <4>1, <4>2
    <3>. QED BY <3>2, <3>4 DEF Records
  <2>. QED BY <2>1, <2>2
<1>. QED BY <1>1, <1>2, TypeInvariant, PTL DEF Spec

\* An account is flagged only after a confirmation of one of its alerts has
\* been recorded, by an investigator the record names.
THEOREM FlagsHaveARecord == Spec => []FlagsAreAudited
<1>1. Init => FlagsAreAudited
  BY DEF Init, FlagsAreAudited
<1>2. TInv /\ DecisionsLogged /\ FlagsAreAudited /\ [Next]_vars
        => FlagsAreAudited'
  <2> SUFFICES ASSUME TInv, DecisionsLogged, FlagsAreAudited, [Next]_vars,
                      NEW account \in flagged_accounts'
               PROVE  \E a \in AlertId, who \in InvestigatorId :
                        /\ Exists(a)'
                        /\ account \in AccountsOf(a)'
                        /\ Records(a, InvestigatorDecision(who,
                                        "confirmed_suspicious"))' # {}
    BY DEF FlagsAreAudited
  <2>1. \A a, e : Records(a, e) # {} => Records(a, e)' # {}
    BY RecordsStay
  <2>2. CASE account \in flagged_accounts
    BY <2>1, <2>2, AccountsAndFlagsStay DEF FlagsAreAudited
  <2>3. CASE account \notin flagged_accounts
    <3>1. PICK r \in Request : Flag(r)
      BY <2>3 DEF Next, Arrive, Advance, vars, appVars, InsertAlert, Reject,
           WriteDecision, LookUpAlert, LogAlertCreated, LogRulesTriggered,
           LogDecision, LogStatus, LogContextSent, AdvisorAnswers,
           LogReceived, StoreRecommendation, ClientDisconnects
    <3>2. /\ req[r].decision = "confirmed_suspicious"
          /\ account \in AccountsOf(req[r].alert_id)
      BY <2>3, <3>1 DEF Flag
    <3>3. req[r] \in Deciding /\ Exists(req[r].alert_id)
      BY <3>1, StageOfPc DEF Flag, At, TInv, AlertsOfRequestsExist
    <3>4. req[r].alert_id \in AlertId /\ req[r].who \in InvestigatorId
      BY <3>3 DEF Deciding
    <3>5. Records(req[r].alert_id, InvestigatorDecision(req[r].who,
                    "confirmed_suspicious")) # {}
      BY <3>1, <3>2 DEF DecisionsLogged, Flag, At
    <3>6. PICK a \in AlertId, who \in InvestigatorId :
            a = req[r].alert_id /\ who = req[r].who
      BY <3>4
    <3>. QED BY <2>1, <3>2, <3>3, <3>5, <3>6, AccountsAndFlagsStay
  <2>. QED BY <2>2, <2>3
<1>. QED BY <1>1, <1>2, TypeInvariant, DecisionsLoggedInvariant, PTL DEF Spec

-----------------------------------------------------------------------------
(* Recommendations *)

\* The records of a consultation of a: what was sent, and behind it the
\* advice given.
Consulted(a, advice) ==
    \E i \in Records(a, AiContextSent),
       j \in Records(a, AiRecommendationReceived(advice)) : i < j

\* A consultation has recorded what it sent before the advisor sees it, and
\* the answer before it stores the recommendation.
AdviceLogged ==
    \A r \in Request :
      /\ req[r].pc \in {"investigate", "log_received", "store"} =>
           Records(req[r].alert_id, AiContextSent) # {}
      /\ At(r, "store") => Consulted(req[r].alert_id, req[r].advice)

\* A consultation that is recorded stays recorded.
LEMMA ConsultedStays ==
    ASSUME TInv, [Next]_vars
    PROVE  \A a, b : Consulted(a, b) => Consulted(a, b)'
<1>1. \A a, e : Records(a, e) \subseteq Records(a, e)'
  BY RecordsStay
<1>. QED BY <1>1 DEF Consulted

\* AdviceLogged holds throughout, whatever else happens during the await.
LEMMA AdviceLoggedInvariant == Spec => []AdviceLogged
<1>1. Init => AdviceLogged
  BY DEF Init, AdviceLogged, Idle, At
<1>2. TInv /\ AdviceLogged /\ [Next]_vars => AdviceLogged'
  <2> SUFFICES ASSUME TInv, AdviceLogged, [Next]_vars, NEW r \in Request,
                      NEW a, NEW b, a = req'[r].alert_id,
                      b = req'[r].advice
               PROVE  /\ req'[r].pc \in {"investigate", "log_received", "store"}
                           => Records(a, AiContextSent)' # {}
                      /\ req'[r].pc = "store" => Consulted(a, b)'
    BY DEF AdviceLogged, At
  <2>1. \A e : Records(a, e) # {} => Records(a, e)' # {}
    BY RecordsStay
  <2>2. Consulted(a, b) => Consulted(a, b)'
    BY ConsultedStays
  <2>3. CASE req'[r] = req[r]
    BY <2>1, <2>2, <2>3 DEF AdviceLogged, At
  <2>4. CASE req'[r] # req[r]
    <3>1. CASE LogContextSent(r) /\ Went(r, Advising, "investigate")
      <4>1. a = req[r].alert_id /\ a \in AlertId
        BY <3>1 DEF Went, Advising
      <4>2. append(a, AiContextSent) /\ AiContextSent \in AuditEventKind
        BY <3>1, <4>1, EventsAreEvents DEF LogContextSent
      <4>. QED BY <3>1, <4>1, <4>2, AppendAdds DEF Went
    <3>2. ASSUME NEW advice \in Advice, AdvisorAnswers(r, advice),
                 WentOn(r, advice)
          PROVE  req'[r].pc = "log_received" /\ Records(a, AiContextSent)' # {}
      <4>1. a = req[r].alert_id
        BY <3>2 DEF WentOn, Advising
      <4>. QED BY <2>1, <3>2, <4>1 DEF AdviceLogged, AdvisorAnswers, At, WentOn
    <3>3. CASE LogReceived(r) /\ Went(r, Advising, "store")
      <4>1. /\ a = req[r].alert_id /\ a \in AlertId
            /\ b = req[r].advice /\ b \in Advice
        BY <3>3 DEF Went, Advising
      <4>2. append(a, AiRecommendationReceived(b))
            /\ AiRecommendationReceived(b) \in AuditEventKind
        BY <3>3, <4>1, EventsAreEvents DEF LogReceived
      <4>3. PICK i \in Records(a, AiContextSent) : TRUE
        BY <3>3, <4>1 DEF AdviceLogged, LogReceived, At
      <4>4. i \in DOMAIN records /\ i \in Records(a, AiContextSent)'
        BY <4>3, RecordsStay DEF Records
      <4>5. /\ Len(records) + 1 \in Records(a, AiRecommendationReceived(b))'
            /\ i < Len(records) + 1
        BY <4>1, <4>2, <4>4, AppendAdds
      <4>6. Consulted(a, b)'
        BY <4>4, <4>5 DEF Consulted
      <4>. QED BY <4>4, <4>6
    <3>. QED BY <2>4, <3>1, <3>2, <3>3, Moves DEF Went
  <2>. QED BY <2>3, <2>4
<1>. QED BY <1>1, <1>2, TypeInvariant, PTL DEF Spec

\* Whatever consultations of one alert finish in whatever order, the stored
\* recommendation is one whose context and answer are in the audit log.
THEOREM AdviceHasARecord == Spec => []RecommendationAudited
<1>1. Init => RecommendationAudited
  BY DEF Init, RecommendationAudited
<1>2. TInv /\ AdviceLogged /\ RecommendationAudited /\ [Next]_vars
        => RecommendationAudited'
  <2> SUFFICES ASSUME TInv, AdviceLogged, RecommendationAudited, [Next]_vars,
                      NEW a \in AlertId,
                      ai_recommendations'[a] # NoRecommendation
               PROVE  Consulted(a, ai_recommendations[a].advice)'
    BY DEF RecommendationAudited, Consulted
  <2>1. \A b : Consulted(a, b) => Consulted(a, b)'
    BY ConsultedStays
  <2>2. CASE ai_recommendations'[a] = ai_recommendations[a]
    <3>1. Consulted(a, ai_recommendations[a].advice)
      BY <2>2 DEF RecommendationAudited, Consulted
    <3>. QED BY <2>1, <2>2, <3>1 DEF Consulted
  <2>3. CASE ai_recommendations'[a] # ai_recommendations[a]
    <3>1. PICK r \in Request : StoreRecommendation(r)
      BY <2>3 DEF Next, Arrive, Advance, vars, appVars, InsertAlert, Reject,
           WriteDecision, LookUpAlert, LogAlertCreated, LogRulesTriggered,
           LogDecision, LogStatus, Flag, LogContextSent, AdvisorAnswers,
           LogReceived, ClientDisconnects
    <3>2. /\ a = req[r].alert_id
          /\ ai_recommendations'[a].advice = req[r].advice
      BY <2>3, <3>1 DEF StoreRecommendation, TInv, TypeOK
    <3>3. Consulted(a, req[r].advice)
      BY <3>1, <3>2 DEF AdviceLogged, StoreRecommendation
    <3>. QED BY <2>1, <3>2, <3>3 DEF Consulted
  <2>. QED BY <2>2, <2>3
<1>. QED BY <1>1, <1>2, TypeInvariant, AdviceLoggedInvariant, PTL DEF Spec

-----------------------------------------------------------------------------
(* What AuditTrail sees of the state *)

TrailStatus == [a \in AlertId |-> alerts[a].status]
TrailLog == [i \in DOMAIN records |-> <<records[i].alert_id, records[i].event>>]

\* The entries a request at stage q owes.
EventsOwed(q) ==
    LET Changed == StatusChanged(q.from, q.decision)
    IN  CASE q.pc = "log_created" ->
               <<AlertCreated(q.anomaly_score), RulesTriggered>>
          [] q.pc = "log_rules" -> <<RulesTriggered>>
          [] q.pc = "log_decision" ->
               <<InvestigatorDecision(q.who, q.decision), Changed>>
          [] q.pc = "log_status" -> <<Changed>>
          [] q.pc = "log_sent" -> <<AiContextSent>>
          [] q.pc = "log_received" ->
               <<AiRecommendationReceived(q.advice)>>
          [] OTHER -> << >>

EntriesOwed(q) == [i \in DOMAIN EventsOwed(q) |-> <<q.alert_id, EventsOwed(q)[i]>>]

LEMMA OwedIsEntriesOwed == Owed = [r \in Request |-> EntriesOwed(req[r])]
BY DEF Owed, OwedEvents, EntriesOwed, EventsOwed

LEMMA TrailInit == Init => Trail!Init
<1> SUFFICES ASSUME Init PROVE Trail!Init
  OBVIOUS
<1>1. TrailStatus = [a \in AlertId |-> "none"]
  BY DEF Init, TrailStatus, NoAlert
<1>2. Owed = [r \in Request |-> << >>]
  BY OwedIsEntriesOwed DEF Init, EntriesOwed, EventsOwed, Idle
<1>3. TrailLog = << >>
  BY DEF Init, AuditInit, TrailLog
<1>. QED BY <1>1, <1>2, <1>3 DEF Trail!Init, TrailStatus, TrailLog

LEMMA TwoEntries ==
    ASSUME NEW a, NEW x, NEW y
    PROVE  /\ [i \in DOMAIN <<x, y>> |-> <<a, <<x, y>>[i]>>]
                = <<<<a, x>>, <<a, y>>>>
           /\ [i \in DOMAIN <<x>> |-> <<a, <<x>>[i]>>] = <<<<a, x>>>>
           /\ [i \in DOMAIN << >> |-> <<a, << >>[i]>>] = << >>
OBVIOUS

LEMMA HeadsAndTails ==
    ASSUME NEW x, NEW y
    PROVE  /\ Head(<<x, y>>) = x /\ Tail(<<x, y>>) = <<y>>
           /\ Head(<<x>>) = x /\ Tail(<<x>>) = << >>
           /\ <<x>> # << >> /\ <<x, y>> # << >>
OBVIOUS

-----------------------------------------------------------------------------
(* What a step of a handler looks like from there *)

LEMMA OwedAfter ==
    ASSUME TInv, NEW r \in Request, NEW q, req' = [req EXCEPT ![r] = q]
    PROVE  /\ Owed[r] = EntriesOwed(req[r])
           /\ Owed' = [Owed EXCEPT ![r] = EntriesOwed(q)]
<1>1. Owed = [p \in Request |-> EntriesOwed(req[p])]
  BY OwedIsEntriesOwed
<1>2. Owed' = [p \in Request |-> EntriesOwed(req'[p])]
  BY DEF Owed, OwedEvents, EntriesOwed, EventsOwed
<1>3. req \in [Request -> Stage]
  BY DEF TInv, TypeOK
<1>. QED BY <1>1, <1>2, <1>3

LEMMA LogAfter ==
    ASSUME TInv
    PROVE  /\ UNCHANGED records => UNCHANGED TrailLog
           /\ \A a \in AlertId, e \in AuditEventKind :
                append(a, e) => TrailLog' = Append(TrailLog, <<a, e>>)
<1>1. UNCHANGED records => UNCHANGED TrailLog
  BY DEF TrailLog
<1>2. ASSUME NEW a \in AlertId, NEW e \in AuditEventKind, append(a, e)
      PROVE  TrailLog' = Append(TrailLog, <<a, e>>)
  <2>1. records \in Seq(AuditRecord)
    BY DEF TInv, TypeOK
  <2>2. PICK rec \in AuditRecord :
          /\ records' = Append(records, rec)
          /\ rec.alert_id = a /\ rec.event = e
    <3>1. NextRecord(records, a, e) \in AuditRecord
      BY <2>1, NextRecordType
    <3>2. NextRecord(records, a, e).alert_id = a
          /\ NextRecord(records, a, e).event = e
      BY DEF NextRecord
    <3>. QED BY <1>2, <3>1, <3>2 DEF append
  <2>3. /\ Len(records) \in Nat /\ DOMAIN records = 1..Len(records)
        /\ DOMAIN records' = 1..(Len(records) + 1)
        /\ \A i \in 1..Len(records) : records'[i] = records[i]
        /\ records'[Len(records) + 1] = rec
    BY <2>1, <2>2
  <2>4. TrailLog = [i \in 1..Len(records) |->
                      <<records[i].alert_id, records[i].event>>]
    BY <2>3 DEF TrailLog
  <2>5. TrailLog' = [i \in 1..(Len(records) + 1) |->
                       <<records'[i].alert_id, records'[i].event>>]
    BY <2>3 DEF TrailLog
  <2>. DEFINE Pair == {<<x.alert_id, x.event>> : x \in AuditRecord}
  <2>6. TrailLog \in Seq(Pair) /\ Len(TrailLog) = Len(records)
    <3>1. \A i \in 1..Len(records) : records[i] \in AuditRecord
      BY <2>1
    <3>. QED BY <2>3, <2>4, <3>1
  <2>7. Append(TrailLog, <<a, e>>)
          = [i \in 1..(Len(records) + 1) |->
               IF i = Len(records) + 1 THEN <<a, e>> ELSE TrailLog[i]]
    BY <2>3, <2>6
  <2>8. \A i \in 1..(Len(records) + 1) :
          <<records'[i].alert_id, records'[i].event>>
            = IF i = Len(records) + 1 THEN <<a, e>> ELSE TrailLog[i]
    BY <2>2, <2>3, <2>4
  <2>. QED BY <2>5, <2>7, <2>8
<1>. QED BY <1>1, <1>2

LEMMA StatusAfter ==
    ASSUME TInv
    PROVE  /\ UNCHANGED alerts => UNCHANGED TrailStatus
           /\ \A a \in AlertId, alert \in Alert :
                alerts' = [alerts EXCEPT ![a] = alert]
                  => TrailStatus' = [TrailStatus EXCEPT ![a] = alert.status]
<1>1. alerts \in [AlertId -> Alert \cup {NoAlert}]
  BY DEF TInv, TypeOK
<1>. QED BY <1>1 DEF TrailStatus

\* A step that appends what the request owes next.
RecordStep(r) ==
    /\ Owed[r] # << >>
    /\ TrailLog' = Append(TrailLog, Head(Owed[r]))
    /\ Owed' = [Owed EXCEPT ![r] = Tail(@)]
    /\ UNCHANGED TrailStatus

\* A step after which a request that owed nothing owes the events es.
OweStep(r, a, es) ==
    /\ Owed[r] = << >>
    /\ Owed' = [Owed EXCEPT ![r] = [i \in DOMAIN es |-> <<a, es[i]>>]]
    /\ UNCHANGED TrailLog

\* The three tasks that record: each stage owes first what it appends.
LEMMA Recordings ==
    ASSUME TInv, NEW r \in Request,
           \/ LogAlertCreated(r) \/ LogRulesTriggered(r) \/ LogDecision(r)
           \/ LogStatus(r) \/ LogContextSent(r) \/ LogReceived(r)
    PROVE  RecordStep(r)
<1>. DEFINE a == req[r].alert_id
<1>1. ASSUME NEW label, NEW e \in AuditEventKind, NEW rest,
             a \in AlertId, append(a, e), Goto(r, label), UNCHANGED alerts,
             EntriesOwed(req[r]) # << >>,
             Head(EntriesOwed(req[r])) = <<a, e>>,
             Tail(EntriesOwed(req[r])) = rest,
             EntriesOwed([req[r] EXCEPT !.pc = label]) = rest
      PROVE  RecordStep(r)
  <2>1. req' = [req EXCEPT ![r] = [req[r] EXCEPT !.pc = label]]
    BY <1>1 DEF Goto, TInv, TypeOK
  <2>2. Owed[r] = EntriesOwed(req[r]) /\ Owed' = [Owed EXCEPT ![r] = rest]
    BY <1>1, <2>1, OwedAfter
  <2>3. TrailLog' = Append(TrailLog, <<a, e>>) /\ UNCHANGED TrailStatus
    BY <1>1, LogAfter, StatusAfter
  <2>. QED BY <1>1, <2>2, <2>3 DEF RecordStep
<1>2. CASE LogAlertCreated(r)
  <2>1. req[r] \in Creating /\ req[r].pc = "log_created"
    BY <1>2, StageOfPc DEF LogAlertCreated, At, TInv
  <2>. DEFINE e == AlertCreated(req[r].anomaly_score)
  <2>2. EntriesOwed(req[r]) = <<<<a, e>>, <<a, RulesTriggered>>>>
    BY <2>1, TwoEntries DEF EntriesOwed, EventsOwed
  <2>3. EntriesOwed([req[r] EXCEPT !.pc = "log_rules"])
          = <<<<a, RulesTriggered>>>>
    BY <2>1, TwoEntries DEF EntriesOwed, EventsOwed, Creating
  <2>4. a \in AlertId /\ e \in AuditEventKind
    BY <2>1, EventsAreEvents DEF Creating
  <2>. HIDE DEF a, e
  <2>5. EntriesOwed(req[r]) # << >> /\ Head(EntriesOwed(req[r])) = <<a, e>>
        /\ Tail(EntriesOwed(req[r])) = <<<<a, RulesTriggered>>>>
    BY <2>2, HeadsAndTails
  <2>. USE DEF a, e
  <2>6. append(a, e) /\ Goto(r, "log_rules") /\ UNCHANGED alerts
    BY <1>2 DEF LogAlertCreated, appVars
  <2>. QED BY <1>1, <2>3, <2>4, <2>5, <2>6
<1>3. CASE LogRulesTriggered(r)
  <2>1. req[r] \in Creating /\ req[r].pc = "log_rules"
    BY <1>3, StageOfPc DEF LogRulesTriggered, At, TInv
  <2>2. EntriesOwed(req[r]) = <<<<a, RulesTriggered>>>>
    BY <2>1, TwoEntries DEF EntriesOwed, EventsOwed
  <2>3. EntriesOwed([req[r] EXCEPT !.pc = "created"]) = << >>
    BY <2>1, TwoEntries DEF EntriesOwed, EventsOwed, Creating
  <2>4. a \in AlertId /\ RulesTriggered \in AuditEventKind
    BY <2>1, EventsAreEvents DEF Creating
  <2>5. append(a, RulesTriggered) /\ Goto(r, "created") /\ UNCHANGED alerts
    BY <1>3 DEF LogRulesTriggered, appVars
  <2>. QED BY <1>1, <2>2, <2>3, <2>4, <2>5, HeadsAndTails
<1>4. CASE LogDecision(r)
  <2>1. req[r] \in Deciding /\ req[r].pc = "log_decision"
    BY <1>4, StageOfPc DEF LogDecision, At, TInv
  <2>. DEFINE e == InvestigatorDecision(req[r].who, req[r].decision)
              f == StatusChanged(req[r].from, req[r].decision)
  <2>2. EntriesOwed(req[r]) = <<<<a, e>>, <<a, f>>>>
    BY <2>1, TwoEntries DEF EntriesOwed, EventsOwed
  <2>3. EntriesOwed([req[r] EXCEPT !.pc = "log_status"]) = <<<<a, f>>>>
    BY <2>1, TwoEntries DEF EntriesOwed, EventsOwed, Deciding
  <2>4. a \in AlertId /\ e \in AuditEventKind
    BY <2>1, EventsAreEvents DEF Deciding
  <2>. HIDE DEF a, e, f
  <2>5. EntriesOwed(req[r]) # << >> /\ Head(EntriesOwed(req[r])) = <<a, e>>
        /\ Tail(EntriesOwed(req[r])) = <<<<a, f>>>>
    BY <2>2, HeadsAndTails
  <2>. USE DEF a, e, f
  <2>6. append(a, e) /\ Goto(r, "log_status") /\ UNCHANGED alerts
    BY <1>4 DEF LogDecision, appVars
  <2>. QED BY <1>1, <2>3, <2>4, <2>5, <2>6
<1>5. CASE LogStatus(r)
  <2>1. req[r] \in Deciding /\ req[r].pc = "log_status"
    BY <1>5, StageOfPc DEF LogStatus, At, TInv
  <2>. DEFINE f == StatusChanged(req[r].from, req[r].decision)
  <2>2. EntriesOwed(req[r]) = <<<<a, f>>>>
    BY <2>1, TwoEntries DEF EntriesOwed, EventsOwed
  <2>3. EntriesOwed([req[r] EXCEPT !.pc = "flag"]) = << >>
    BY <2>1, TwoEntries DEF EntriesOwed, EventsOwed, Deciding
  <2>4. a \in AlertId /\ f \in AuditEventKind
    BY <2>1, EventsAreEvents DEF Deciding
  <2>5. append(a, f) /\ Goto(r, "flag") /\ UNCHANGED alerts
    BY <1>5 DEF LogStatus, appVars
  <2>. QED BY <1>1, <2>2, <2>3, <2>4, <2>5, HeadsAndTails
<1>6. CASE LogContextSent(r)
  <2>1. req[r] \in Advising /\ req[r].pc = "log_sent"
    BY <1>6, StageOfPc DEF LogContextSent, At, TInv
  <2>2. EntriesOwed(req[r]) = <<<<a, AiContextSent>>>>
    BY <2>1, TwoEntries DEF EntriesOwed, EventsOwed
  <2>3. EntriesOwed([req[r] EXCEPT !.pc = "investigate"]) = << >>
    BY <2>1, TwoEntries DEF EntriesOwed, EventsOwed, Advising
  <2>4. a \in AlertId /\ AiContextSent \in AuditEventKind
    BY <2>1, EventsAreEvents DEF Advising
  <2>5. append(a, AiContextSent) /\ Goto(r, "investigate")
        /\ UNCHANGED alerts
    BY <1>6 DEF LogContextSent, appVars
  <2>. QED BY <1>1, <2>2, <2>3, <2>4, <2>5, HeadsAndTails
<1>7. CASE LogReceived(r)
  <2>1. req[r] \in Advising /\ req[r].pc = "log_received"
    BY <1>7, StageOfPc DEF LogReceived, At, TInv
  <2>. DEFINE e == AiRecommendationReceived(req[r].advice)
  <2>2. EntriesOwed(req[r]) = <<<<a, e>>>>
    BY <2>1, TwoEntries DEF EntriesOwed, EventsOwed
  <2>3. EntriesOwed([req[r] EXCEPT !.pc = "store"]) = << >>
    BY <2>1, TwoEntries DEF EntriesOwed, EventsOwed, Advising
  <2>4. a \in AlertId /\ e \in AuditEventKind
    BY <2>1, EventsAreEvents DEF Advising
  <2>5. append(a, e) /\ Goto(r, "store") /\ UNCHANGED alerts
    BY <1>7 DEF LogReceived, appVars
  <2>. QED BY <1>1, <2>2, <2>3, <2>4, <2>5, HeadsAndTails
<1>. QED BY <1>2, <1>3, <1>4, <1>5, <1>6, <1>7

\* The steps that make a record due.
LEMMA Openings ==
    ASSUME TInv, NEW r \in Request, NEW a \in AlertId, NEW src \in AccountId,
           NEW dst \in AccountId \cup {NoAccount}, NEW score \in Score,
           InsertAlert(r, a, src, dst, score)
    PROVE  /\ OweStep(r, a, <<AlertCreated(score), RulesTriggered>>)
           /\ TrailStatus[a] = "none"
           /\ TrailStatus' = [TrailStatus EXCEPT ![a] = "open"]
<1>. DEFINE q == [pc |-> "log_created", alert_id |-> a, anomaly_score |-> score]
            alert == [status |-> "open", source_account |-> src,
                      destination_account |-> dst]
            es == <<AlertCreated(score), RulesTriggered>>
<1>1. Owed[r] = << >> /\ Owed' = [Owed EXCEPT ![r] = EntriesOwed(q)]
  <2>1. Owed[r] = EntriesOwed(req[r])
        /\ Owed' = [Owed EXCEPT ![r] = EntriesOwed(q)]
    BY OwedAfter DEF InsertAlert
  <2>2. EntriesOwed(req[r]) = << >>
    BY DEF InsertAlert, At, EntriesOwed, EventsOwed
  <2>. QED BY <2>1, <2>2
<1>2. EntriesOwed(q) = [i \in DOMAIN es |-> <<a, es[i]>>]
  BY DEF EntriesOwed, EventsOwed
<1>3. UNCHANGED TrailLog
  BY LogAfter DEF InsertAlert
<1>4. alert \in Alert /\ alerts' = [alerts EXCEPT ![a] = alert]
  BY DEF InsertAlert, Alert, InvestigationStatus
<1>5. TrailStatus[a] = "none"
  BY DEF InsertAlert, Exists, TrailStatus, NoAlert
<1>. QED BY <1>1, <1>2, <1>3, <1>4, <1>5, StatusAfter DEF OweStep

LEMMA Decisions ==
    ASSUME TInv, NEW r \in Request, NEW who \in InvestigatorId,
           NEW a \in AlertId, NEW d \in Decision, WriteDecision(r, who, a, d)
    PROVE  /\ OweStep(r, a, DecisionEventsOf(who, TrailStatus[a], d))
           /\ can_decide(RoleOf[who])
           /\ TrailStatus[a] # "none"
           /\ TrailStatus' = [TrailStatus EXCEPT ![a] = d]
<1>. DEFINE q == [pc |-> "log_decision", alert_id |-> a, who |-> who,
                  from |-> alerts[a].status, decision |-> d]
            es == DecisionEventsOf(who, TrailStatus[a], d)
<1>1. alerts[a] \in Alert /\ TrailStatus[a] = alerts[a].status
      /\ d \in InvestigationStatus
  BY DecisionAssumption DEF WriteDecision, Exists, TInv, TypeOK, TrailStatus
<1>2. Owed[r] = << >> /\ Owed' = [Owed EXCEPT ![r] = EntriesOwed(q)]
  <2>1. Owed[r] = EntriesOwed(req[r])
        /\ Owed' = [Owed EXCEPT ![r] = EntriesOwed(q)]
    BY OwedAfter DEF WriteDecision
  <2>2. EntriesOwed(req[r]) = << >>
    BY DEF WriteDecision, At, EntriesOwed, EventsOwed
  <2>. QED BY <2>1, <2>2
<1>3. EntriesOwed(q) = [i \in DOMAIN es |-> <<a, es[i]>>]
  BY <1>1 DEF EntriesOwed, EventsOwed, DecisionEventsOf
<1>4. UNCHANGED TrailLog
  BY LogAfter DEF WriteDecision
<1>5. TrailStatus[a] # "none"
  BY <1>1 DEF Alert, InvestigationStatus
<1>6. TrailStatus' = [TrailStatus EXCEPT ![a] = d]
  <2>1. alerts' = [alerts EXCEPT ![a] = [alerts[a] EXCEPT !.status = d]]
    BY DEF WriteDecision
  <2>2. [alerts[a] EXCEPT !.status = d] \in Alert
        /\ [alerts[a] EXCEPT !.status = d].status = d
    BY <1>1 DEF Alert
  <2>. QED BY <2>1, <2>2, StatusAfter
<1>. QED BY <1>2, <1>3, <1>4, <1>5, <1>6 DEF OweStep, WriteDecision

LEMMA LookUps ==
    ASSUME TInv, NEW r \in Request, NEW a \in AlertId, LookUpAlert(r, a)
    PROVE  /\ OweStep(r, a, <<AiContextSent>>)
           /\ TrailStatus[a] # "none" /\ UNCHANGED TrailStatus
<1>. DEFINE q == [pc |-> "log_sent", alert_id |-> a, advice |-> Fallback]
<1>1. Owed[r] = EntriesOwed(req[r])
      /\ Owed' = [Owed EXCEPT ![r] = EntriesOwed(q)]
  BY OwedAfter DEF LookUpAlert
<1>2. EntriesOwed(req[r]) = << >>
  BY DEF LookUpAlert, At, EntriesOwed, EventsOwed
<1>3. EntriesOwed(q) = [i \in DOMAIN <<AiContextSent>> |->
                          <<a, <<AiContextSent>>[i]>>]
  BY DEF EntriesOwed, EventsOwed
<1>4. UNCHANGED TrailLog /\ UNCHANGED TrailStatus
  BY LogAfter, StatusAfter DEF LookUpAlert, appVars
<1>5. TrailStatus[a] # "none"
  <2>1. alerts[a] \in Alert
    BY DEF LookUpAlert, Exists, TInv, TypeOK
  <2>. QED BY <2>1 DEF TrailStatus, Alert, InvestigationStatus
<1>. QED BY <1>1, <1>2, <1>3, <1>4, <1>5 DEF OweStep

LEMMA AdvisorsAnswers ==
    ASSUME TInv, NEW r \in Request, NEW b \in Advice, AdvisorAnswers(r, b)
    PROVE  LET a == req[r].alert_id
           IN  /\ a \in AlertId
               /\ OweStep(r, a, <<AiRecommendationReceived(b)>>)
               /\ TrailStatus[a] # "none" /\ UNCHANGED TrailStatus
<1>. DEFINE a == req[r].alert_id
            e == AiRecommendationReceived(b)
            q == [req[r] EXCEPT !.pc = "log_received", !.advice = b]
<1>1. req[r] \in Advising /\ req[r].pc = "investigate" /\ a \in AlertId
  BY StageOfPc DEF AdvisorAnswers, At, TInv, Advising
<1>2. req' = [req EXCEPT ![r] = q]
  BY DEF AdvisorAnswers
<1>3. Owed[r] = EntriesOwed(req[r])
      /\ Owed' = [Owed EXCEPT ![r] = EntriesOwed(q)]
  BY <1>2, OwedAfter
<1>4. EntriesOwed(req[r]) = << >>
  BY <1>1 DEF EntriesOwed, EventsOwed
<1>5. EntriesOwed(q) = [i \in DOMAIN <<e>> |-> <<a, <<e>>[i]>>]
  BY <1>1 DEF EntriesOwed, EventsOwed, Advising
<1>6. UNCHANGED TrailLog /\ UNCHANGED TrailStatus
  BY LogAfter, StatusAfter DEF AdvisorAnswers
<1>7. TrailStatus[a] # "none"
  <2>1. alerts[a] \in Alert
    BY <1>1 DEF TInv, AlertsOfRequestsExist, Exists, TypeOK, At
  <2>. QED BY <1>1, <2>1 DEF TrailStatus, Alert, InvestigationStatus
<1>. QED BY <1>1, <1>3, <1>4, <1>5, <1>6, <1>7 DEF OweStep

\* The steps that AuditTrail does not see.
LEMMA Hidden ==
    ASSUME TInv, NEW r \in Request,
           Reject(r) \/ Flag(r) \/ StoreRecommendation(r) \/ ClientDisconnects(r)
    PROVE  UNCHANGED <<TrailStatus, Owed, TrailLog>>
<1>1. UNCHANGED <<alerts, records>>
  BY DEF Reject, Flag, StoreRecommendation, ClientDisconnects, appVars
<1>2. PICK q : /\ req' = [req EXCEPT ![r] = q]
               /\ EntriesOwed(req[r]) = << >> /\ EntriesOwed(q) = << >>
  <2>1. CASE Reject(r)
    <3>1. EntriesOwed(req[r]) = << >> /\ EntriesOwed(Rejected) = << >>
      BY <2>1 DEF Reject, At, Rejected, EntriesOwed, EventsOwed
    <3>. QED BY <2>1, <3>1 DEF Reject
  <2>2. ASSUME NEW from, NEW label, At(r, from), Goto(r, label),
               from \in {"flag", "store", "investigate"},
               label \in {"decided", "advised", "dropped"}
        PROVE  \E q : /\ req' = [req EXCEPT ![r] = q]
                      /\ EntriesOwed(req[r]) = << >> /\ EntriesOwed(q) = << >>
    <3>. DEFINE q == [req[r] EXCEPT !.pc = label]
    <3>1. req[r] \in Deciding \cup Advising
      BY <2>2, StageOfPc DEF At, TInv
    <3>2. req' = [req EXCEPT ![r] = q] /\ q.pc = label
      BY <2>2, <3>1 DEF Goto, Deciding, Advising
    <3>3. EntriesOwed(req[r]) = << >>
      BY <2>2 DEF At, EntriesOwed, EventsOwed
    <3>4. EntriesOwed(q) = << >>
      <4>. HIDE DEF q
      <4>. QED BY <2>2, <3>2 DEF EntriesOwed, EventsOwed
    <3>. QED BY <3>2, <3>3, <3>4
  <2>3. CASE Flag(r)
    BY <2>2, <2>3 DEF Flag
  <2>4. CASE StoreRecommendation(r)
    BY <2>2, <2>4 DEF StoreRecommendation
  <2>5. CASE ClientDisconnects(r)
    BY <2>2, <2>5 DEF ClientDisconnects
  <2>. QED BY <2>1, <2>3, <2>4, <2>5
<1>3. Owed' = Owed
  <2>1. Owed[r] = << >> /\ Owed' = [Owed EXCEPT ![r] = << >>]
    BY <1>2, OwedAfter
  <2>2. DOMAIN Owed = Request /\ Owed = [p \in DOMAIN Owed |-> Owed[p]]
    BY DEF Owed
  <2>. QED BY <2>1, <2>2
<1>. QED BY <1>1, <1>3, LogAfter, StatusAfter

-----------------------------------------------------------------------------
(* Every step of a handler is a step of AuditTrail, or one it cannot see.  *)

LEMMA AdviceStep ==
    ASSUME NEW r \in Request, NEW a \in AlertId, NEW es,
           es \in {<<AiContextSent>>}
                    \cup {<<AiRecommendationReceived(x)>> : x \in Advice},
           OweStep(r, a, es), TrailStatus[a] # "none", UNCHANGED TrailStatus
    PROVE  Trail!Next
<1>1. Trail!Consult(r, a)
  BY DEF Trail!Consult, Trail!Owe, Trail!Entries, OweStep, TrailStatus, TrailLog
<1>. QED BY <1>1 DEF Trail!Next

LEMMA TrailStep == TInv /\ [Next]_vars => [Trail!Next]_(Trail!vars)
<1> SUFFICES ASSUME TInv, [Next]_vars
             PROVE  Trail!Next \/ UNCHANGED <<TrailStatus, Owed, TrailLog>>
  BY DEF Trail!vars, TrailStatus, TrailLog
<1>1. ASSUME NEW r \in Request, Arrive(r)
      PROVE  Trail!Next \/ UNCHANGED <<TrailStatus, Owed, TrailLog>>
  <2>1. ASSUME NEW a \in AlertId, NEW src \in AccountId,
               NEW dst \in AccountId \cup {NoAccount}, NEW score \in Score,
               InsertAlert(r, a, src, dst, score)
        PROVE  Trail!Next
    <3>1. /\ OweStep(r, a, <<AlertCreated(score), RulesTriggered>>)
          /\ TrailStatus[a] = "none"
          /\ TrailStatus' = [TrailStatus EXCEPT ![a] = "open"]
      BY <2>1, Openings
    <3>. DEFINE es == <<AlertCreated(score), RulesTriggered>>
    <3>2. es \in {<<AlertCreated(s), RulesTriggered>> : s \in Score}
      OBVIOUS
    <3>. HIDE DEF es
    <3>3. Trail!Owe(r, a, es)
      BY <3>1 DEF Trail!Owe, Trail!Entries, OweStep, TrailLog, es
    <3>4. Trail!Open(r, a)
      BY <3>1, <3>2, <3>3 DEF Trail!Open, TrailStatus
    <3>. QED BY <3>4 DEF Trail!Next
  <2>2. ASSUME NEW who \in InvestigatorId, NEW a \in AlertId,
               NEW d \in Decision, WriteDecision(r, who, a, d)
        PROVE  Trail!Next
    <3>1. /\ OweStep(r, a, DecisionEventsOf(who, TrailStatus[a], d))
          /\ can_decide(RoleOf[who])
          /\ TrailStatus[a] # "none"
          /\ TrailStatus' = [TrailStatus EXCEPT ![a] = d]
      BY <2>2, Decisions
    <3>2. Trail!Decide(r, a, who, d)
      BY <3>1
      DEF Trail!Decide, Trail!Owe, Trail!Entries, OweStep, TrailStatus, TrailLog
    <3>. QED BY <3>2 DEF Trail!Next
  <2>3. ASSUME NEW a \in AlertId, LookUpAlert(r, a)
        PROVE  Trail!Next
    BY <2>3, LookUps, AdviceStep
  <2>4. CASE Reject(r)
    BY <2>4, Hidden
  <2>. QED BY <1>1, <2>1, <2>2, <2>3, <2>4 DEF Arrive
<1>2. ASSUME NEW r \in Request, Advance(r)
      PROVE  Trail!Next \/ UNCHANGED <<TrailStatus, Owed, TrailLog>>
  <2>1. CASE \/ LogAlertCreated(r) \/ LogRulesTriggered(r) \/ LogDecision(r)
             \/ LogStatus(r) \/ LogContextSent(r) \/ LogReceived(r)
    <3>1. RecordStep(r)
      BY <2>1, Recordings
    <3>2. Trail!Record(r)
      BY <3>1 DEF Trail!Record, RecordStep, TrailStatus, TrailLog
    <3>. QED BY <3>2 DEF Trail!Next
  <2>2. ASSUME NEW b \in Advice, AdvisorAnswers(r, b)
        PROVE  Trail!Next
    BY <2>2, AdvisorsAnswers, AdviceStep
  <2>3. CASE Flag(r) \/ StoreRecommendation(r)
    BY <2>3, Hidden
  <2>. QED BY <1>2, <2>1, <2>2, <2>3 DEF Advance
<1>3. ASSUME NEW r \in Request, ClientDisconnects(r)
      PROVE  UNCHANGED <<TrailStatus, Owed, TrailLog>>
  BY <1>3, Hidden
<1>4. CASE UNCHANGED vars
  BY <1>4 DEF vars, appVars, TrailStatus, TrailLog, Owed, OwedEvents
<1>. QED BY <1>1, <1>2, <1>3, <1>4 DEF Next

\* The handlers, with their locks, their interleavings and their hash chain,
\* implement AuditTrail (without its fairness): a status changes only
\* together with the entries that explain it becoming due, and the log takes
\* exactly the entries that are due, in their order, one per append.
THEOREM HandlersImplementTrail ==
    Spec => Trail!Init /\ [][Trail!Next]_(Trail!vars)
<1>1. Init => Trail!Init
  BY TrailInit
<1>2. TInv /\ [Next]_vars => [Trail!Next]_(Trail!vars)
  BY TrailStep
<1>3. Spec => []TInv
  BY TypeInvariant
<1>. QED BY <1>1, <1>2, <1>3, PTL DEF Spec

-----------------------------------------------------------------------------
(* What a step logs *)

LEMMA StageOfLabel ==
    ASSUME NEW s \in Stage
    PROVE  /\ s.pc \in {"log_created", "log_rules"} => s \in Creating
           /\ s.pc \in {"log_decision", "log_status", "flag"} => s \in Deciding
           /\ s.pc \in {"log_sent", "investigate", "log_received", "store"}
                => s \in Advising
BY DEF Stage, Idle, Rejected, Creating, Deciding, Advising

LEMMA LoggedAt ==
    ASSUME NEW s
    PROVE  /\ s.pc \in {"idle", "rejected", "log_created", "log_decision",
                        "log_sent"} => LoggedBy(s) = {}
           /\ s.pc = "log_rules" =>
                LoggedBy(s) = {<<s.alert_id, AlertCreated(s.anomaly_score)>>}
           /\ s.pc = "created" =>
                LoggedBy(s) = {<<s.alert_id, AlertCreated(s.anomaly_score)>>,
                               <<s.alert_id, RulesTriggered>>}
           /\ s.pc = "log_status" =>
                LoggedBy(s) =
                  {<<s.alert_id, InvestigatorDecision(s.who, s.decision)>>}
           /\ s.pc \in {"flag", "decided"} =>
                LoggedBy(s) =
                  {<<s.alert_id, InvestigatorDecision(s.who, s.decision)>>,
                   <<s.alert_id, StatusChanged(s.from, s.decision)>>}
           /\ s.pc \in {"investigate", "log_received", "dropped"} =>
                LoggedBy(s) = {<<s.alert_id, AiContextSent>>}
           /\ s.pc \in {"store", "advised"} =>
                LoggedBy(s) =
                  {<<s.alert_id, AiContextSent>>,
                   <<s.alert_id, AiRecommendationReceived(s.advice)>>}
BY DEF LoggedBy

\* A handler's step appends nothing, and no request has logged more or less
\* than before; or it appends one record, and exactly the request it serves
\* has logged exactly that, for the first time.
NothingLogged ==
    /\ UNCHANGED records
    /\ \A q \in Request : LoggedBy(req'[q]) = LoggedBy(req[q])

OneLogged(r, a, e) ==
    /\ append(a, e)
    /\ <<a, e>> \notin LoggedBy(req[r])
    /\ LoggedBy(req'[r]) = LoggedBy(req[r]) \cup {<<a, e>>}
    /\ \A q \in Request \ {r} : req'[q] = req[q]

LEMMA LoggingStep ==
    ASSUME req \in [Request -> Stage], Next
    PROVE  \/ NothingLogged
           \/ \E r \in Request, a \in AlertId, e \in AuditEventKind :
                OneLogged(r, a, e)
<1>1. PICK r \in Request : Arrive(r) \/ Advance(r) \/ ClientDisconnects(r)
  BY DEF Next
<1>2. req[r] \in Stage
  OBVIOUS
<1>3. ASSUME NEW s, req' = [req EXCEPT ![r] = s], UNCHANGED records,
             LoggedBy(s) = LoggedBy(req[r])
      PROVE  NothingLogged
  BY <1>3 DEF NothingLogged
<1>4. ASSUME NEW s, req' = [req EXCEPT ![r] = s], NEW a \in AlertId,
             NEW e \in AuditEventKind, append(a, e),
             <<a, e>> \notin LoggedBy(req[r]),
             LoggedBy(s) = LoggedBy(req[r]) \cup {<<a, e>>}
      PROVE  OneLogged(r, a, e)
  BY <1>4 DEF OneLogged
<1>5. CASE Arrive(r)
  <2>1. At(r, "idle") /\ UNCHANGED records
    BY <1>5 DEF Arrive, InsertAlert, Reject, WriteDecision, LookUpAlert, appVars
  <2>2. PICK s : req' = [req EXCEPT ![r] = s]
                 /\ s.pc \in {"rejected", "log_created", "log_decision",
                              "log_sent"}
    BY <1>5 DEF Arrive, InsertAlert, Reject, WriteDecision, LookUpAlert,
                Rejected
  <2>3. LoggedBy(s) = {} /\ LoggedBy(req[r]) = {}
    BY <2>1, <2>2, LoggedAt DEF At
  <2>. QED BY <1>3, <2>1, <2>2, <2>3
<1>6. ASSUME NEW label, Goto(r, label)
      PROVE  req' = [req EXCEPT ![r] = [req[r] EXCEPT !.pc = label]]
  BY <1>6 DEF Goto
<1>7. CASE LogAlertCreated(r)
  <2>. DEFINE s == [req[r] EXCEPT !.pc = "log_rules"]
              e == AlertCreated(req[r].anomaly_score)
  <2>1. req[r] \in Creating /\ req[r].pc = "log_created"
    BY <1>2, <1>7, StageOfLabel DEF LogAlertCreated, At
  <2>2. s.pc = "log_rules" /\ s.alert_id = req[r].alert_id
        /\ s.anomaly_score = req[r].anomaly_score
        /\ req[r].alert_id \in AlertId /\ req[r].anomaly_score \in Score
    BY <2>1 DEF Creating
  <2>3. e \in AuditEventKind
    BY <2>2, EventsAreEvents
  <2>4. LoggedBy(req[r]) = {} /\ LoggedBy(s) = {<<req[r].alert_id, e>>}
    BY <2>1, <2>2, LoggedAt
  <2>5. req' = [req EXCEPT ![r] = s] /\ append(req[r].alert_id, e)
    BY <1>6, <1>7 DEF LogAlertCreated
  <2>. HIDE DEF s, e
  <2>. QED BY <1>4, <2>2, <2>3, <2>4, <2>5
<1>8. CASE LogRulesTriggered(r)
  <2>. DEFINE s == [req[r] EXCEPT !.pc = "created"]
              e == RulesTriggered
  <2>1. req[r] \in Creating /\ req[r].pc = "log_rules"
    BY <1>2, <1>8, StageOfLabel DEF LogRulesTriggered, At
  <2>2. s.pc = "created" /\ s.alert_id = req[r].alert_id
        /\ s.anomaly_score = req[r].anomaly_score
        /\ req[r].alert_id \in AlertId
    BY <2>1 DEF Creating
  <2>3. e \in AuditEventKind /\ e # AlertCreated(req[r].anomaly_score)
    BY EventsAreEvents DEF AlertCreated, RulesTriggered
  <2>4. <<req[r].alert_id, e>> \notin LoggedBy(req[r])
        /\ LoggedBy(s) = LoggedBy(req[r]) \cup {<<req[r].alert_id, e>>}
    <3>1. LoggedBy(req[r]) =
            {<<req[r].alert_id, AlertCreated(req[r].anomaly_score)>>}
      BY <2>1, LoggedAt
    <3>2. LoggedBy(s) = {<<s.alert_id, AlertCreated(s.anomaly_score)>>,
                         <<s.alert_id, RulesTriggered>>}
      BY <2>2, LoggedAt
    <3>. HIDE DEF s
    <3>3. LoggedBy(s) =
            {<<req[r].alert_id, AlertCreated(req[r].anomaly_score)>>,
             <<req[r].alert_id, e>>}
      BY <2>2, <3>2
    <3>. QED BY <2>3, <3>1, <3>3
  <2>5. req' = [req EXCEPT ![r] = s] /\ append(req[r].alert_id, e)
    BY <1>6, <1>8 DEF LogRulesTriggered
  <2>. HIDE DEF s, e
  <2>. QED BY <1>4, <2>2, <2>3, <2>4, <2>5
<1>9. CASE LogDecision(r)
  <2>. DEFINE s == [req[r] EXCEPT !.pc = "log_status"]
              e == InvestigatorDecision(req[r].who, req[r].decision)
  <2>1. req[r] \in Deciding /\ req[r].pc = "log_decision"
    BY <1>2, <1>9, StageOfLabel DEF LogDecision, At
  <2>2. s.pc = "log_status" /\ s.alert_id = req[r].alert_id
        /\ s.who = req[r].who /\ s.decision = req[r].decision
        /\ req[r].alert_id \in AlertId /\ req[r].who \in InvestigatorId
        /\ req[r].decision \in InvestigationStatus
    BY <2>1 DEF Deciding
  <2>3. e \in AuditEventKind
    BY <2>2, EventsAreEvents
  <2>4. LoggedBy(req[r]) = {} /\ LoggedBy(s) = {<<req[r].alert_id, e>>}
    BY <2>1, <2>2, LoggedAt
  <2>5. req' = [req EXCEPT ![r] = s] /\ append(req[r].alert_id, e)
    BY <1>6, <1>9 DEF LogDecision
  <2>. HIDE DEF s, e
  <2>. QED BY <1>4, <2>2, <2>3, <2>4, <2>5
<1>10. CASE LogStatus(r)
  <2>. DEFINE s == [req[r] EXCEPT !.pc = "flag"]
              e == StatusChanged(req[r].from, req[r].decision)
  <2>1. req[r] \in Deciding /\ req[r].pc = "log_status"
    BY <1>2, <1>10, StageOfLabel DEF LogStatus, At
  <2>2. s.pc = "flag" /\ s.alert_id = req[r].alert_id /\ s.who = req[r].who
        /\ s.from = req[r].from /\ s.decision = req[r].decision
        /\ req[r].alert_id \in AlertId /\ req[r].from \in InvestigationStatus
        /\ req[r].decision \in InvestigationStatus
    BY <2>1 DEF Deciding
  <2>3. e \in AuditEventKind
        /\ e # InvestigatorDecision(req[r].who, req[r].decision)
    BY <2>2, EventsAreEvents DEF StatusChanged, InvestigatorDecision
  <2>4. <<req[r].alert_id, e>> \notin LoggedBy(req[r])
        /\ LoggedBy(s) = LoggedBy(req[r]) \cup {<<req[r].alert_id, e>>}
    <3>1. LoggedBy(req[r]) =
            {<<req[r].alert_id,
               InvestigatorDecision(req[r].who, req[r].decision)>>}
      BY <2>1, LoggedAt
    <3>2. LoggedBy(s) =
            {<<s.alert_id, InvestigatorDecision(s.who, s.decision)>>,
             <<s.alert_id, StatusChanged(s.from, s.decision)>>}
      BY <2>2, LoggedAt
    <3>. HIDE DEF s
    <3>3. LoggedBy(s) =
            {<<req[r].alert_id,
               InvestigatorDecision(req[r].who, req[r].decision)>>,
             <<req[r].alert_id, e>>}
      BY <2>2, <3>2
    <3>. QED BY <2>3, <3>1, <3>3
  <2>5. req' = [req EXCEPT ![r] = s] /\ append(req[r].alert_id, e)
    BY <1>6, <1>10 DEF LogStatus
  <2>. HIDE DEF s, e
  <2>. QED BY <1>4, <2>2, <2>3, <2>4, <2>5
<1>11. CASE Flag(r)
  <2>. DEFINE s == [req[r] EXCEPT !.pc = "decided"]
  <2>1. req[r] \in Deciding /\ req[r].pc = "flag"
    BY <1>2, <1>11, StageOfLabel DEF Flag, At
  <2>2. s.pc = "decided" /\ s.alert_id = req[r].alert_id /\ s.who = req[r].who
        /\ s.from = req[r].from /\ s.decision = req[r].decision
    BY <2>1 DEF Deciding
  <2>3. LoggedBy(s) = LoggedBy(req[r])
    <3>. HIDE DEF s
    <3>1. LoggedBy(s) =
            {<<s.alert_id, InvestigatorDecision(s.who, s.decision)>>,
             <<s.alert_id, StatusChanged(s.from, s.decision)>>}
      BY <2>2, LoggedAt
    <3>2. LoggedBy(req[r]) =
            {<<req[r].alert_id,
               InvestigatorDecision(req[r].who, req[r].decision)>>,
             <<req[r].alert_id,
               StatusChanged(req[r].from, req[r].decision)>>}
      BY <2>1, LoggedAt
    <3>. QED BY <2>2, <3>1, <3>2
  <2>4. req' = [req EXCEPT ![r] = s] /\ UNCHANGED records
    BY <1>6, <1>11 DEF Flag
  <2>. HIDE DEF s
  <2>. QED BY <1>3, <2>3, <2>4
<1>12. CASE LogContextSent(r)
  <2>. DEFINE s == [req[r] EXCEPT !.pc = "investigate"]
              e == AiContextSent
  <2>1. req[r] \in Advising /\ req[r].pc = "log_sent"
    BY <1>2, <1>12, StageOfLabel DEF LogContextSent, At
  <2>2. s.pc = "investigate" /\ s.alert_id = req[r].alert_id
        /\ req[r].alert_id \in AlertId
    BY <2>1 DEF Advising
  <2>3. e \in AuditEventKind
    BY EventsAreEvents
  <2>4. LoggedBy(req[r]) = {} /\ LoggedBy(s) = {<<req[r].alert_id, e>>}
    BY <2>1, <2>2, LoggedAt
  <2>5. req' = [req EXCEPT ![r] = s] /\ append(req[r].alert_id, e)
    BY <1>6, <1>12 DEF LogContextSent
  <2>. HIDE DEF s, e
  <2>. QED BY <1>4, <2>2, <2>3, <2>4, <2>5
<1>13. ASSUME NEW b \in Advice, AdvisorAnswers(r, b)
       PROVE  NothingLogged
  <2>. DEFINE s == [req[r] EXCEPT !.pc = "log_received",
                                  !.advice = b]
  <2>1. req[r] \in Advising /\ req[r].pc = "investigate"
    BY <1>2, <1>13, StageOfLabel DEF AdvisorAnswers, At
  <2>2. s.pc = "log_received" /\ s.alert_id = req[r].alert_id
    BY <2>1 DEF Advising
  <2>3. LoggedBy(s) = LoggedBy(req[r])
    BY <2>1, <2>2, LoggedAt
  <2>4. req' = [req EXCEPT ![r] = s] /\ UNCHANGED records
    BY <1>13 DEF AdvisorAnswers
  <2>. HIDE DEF s
  <2>. QED BY <1>3, <2>3, <2>4
<1>14. CASE ClientDisconnects(r)
  <2>. DEFINE s == [req[r] EXCEPT !.pc = "dropped"]
  <2>1. req[r] \in Advising /\ req[r].pc = "investigate"
    BY <1>2, <1>14, StageOfLabel DEF ClientDisconnects, At
  <2>2. s.pc = "dropped" /\ s.alert_id = req[r].alert_id
    BY <2>1 DEF Advising
  <2>3. LoggedBy(s) = LoggedBy(req[r])
    BY <2>1, <2>2, LoggedAt
  <2>4. req' = [req EXCEPT ![r] = s] /\ UNCHANGED records
    BY <1>6, <1>14 DEF ClientDisconnects
  <2>. HIDE DEF s
  <2>. QED BY <1>3, <2>3, <2>4
<1>15. CASE LogReceived(r)
  <2>. DEFINE s == [req[r] EXCEPT !.pc = "store"]
              e == AiRecommendationReceived(req[r].advice)
  <2>1. req[r] \in Advising /\ req[r].pc = "log_received"
    BY <1>2, <1>15, StageOfLabel DEF LogReceived, At
  <2>2. s.pc = "store" /\ s.alert_id = req[r].alert_id
        /\ s.advice = req[r].advice
        /\ req[r].alert_id \in AlertId /\ req[r].advice \in Advice
    BY <2>1 DEF Advising
  <2>3. e \in AuditEventKind /\ e # AiContextSent
    BY <2>2, EventsAreEvents DEF AiRecommendationReceived, AiContextSent
  <2>4. <<req[r].alert_id, e>> \notin LoggedBy(req[r])
        /\ LoggedBy(s) = LoggedBy(req[r]) \cup {<<req[r].alert_id, e>>}
    <3>1. LoggedBy(req[r]) = {<<req[r].alert_id, AiContextSent>>}
      BY <2>1, LoggedAt
    <3>2. LoggedBy(s) =
            {<<s.alert_id, AiContextSent>>,
             <<s.alert_id, AiRecommendationReceived(s.advice)>>}
      BY <2>2, LoggedAt
    <3>. HIDE DEF s
    <3>3. LoggedBy(s) =
            {<<req[r].alert_id, AiContextSent>>, <<req[r].alert_id, e>>}
      BY <2>2, <3>2
    <3>. QED BY <2>3, <3>1, <3>3
  <2>5. req' = [req EXCEPT ![r] = s] /\ append(req[r].alert_id, e)
    BY <1>6, <1>15 DEF LogReceived
  <2>. HIDE DEF s, e
  <2>. QED BY <1>4, <2>2, <2>3, <2>4, <2>5
<1>16. CASE StoreRecommendation(r)
  <2>. DEFINE s == [req[r] EXCEPT !.pc = "advised"]
  <2>1. req[r] \in Advising /\ req[r].pc = "store"
    BY <1>2, <1>16, StageOfLabel DEF StoreRecommendation, At
  <2>2. s.pc = "advised" /\ s.alert_id = req[r].alert_id
        /\ s.advice = req[r].advice
    BY <2>1 DEF Advising
  <2>3. LoggedBy(s) = LoggedBy(req[r])
    BY <2>1, <2>2, LoggedAt
  <2>4. req' = [req EXCEPT ![r] = s] /\ UNCHANGED records
    BY <1>6, <1>16 DEF StoreRecommendation
  <2>. HIDE DEF s
  <2>. QED BY <1>3, <2>3, <2>4
<1>. QED BY <1>1, <1>5, <1>7, <1>8, <1>9, <1>10, <1>11, <1>12, <1>13, <1>14,
            <1>15, <1>16 DEF Advance

-----------------------------------------------------------------------------
(* Exactly once *)

LEMMA LoggedType ==
    ASSUME NEW s \in Stage
    PROVE  LoggedBy(s) \subseteq Content
<1>. USE EventsAreEvents, LoggedAt DEF Content
<1>1. CASE s \in Creating
  BY <1>1 DEF Creating
<1>2. CASE s \in Deciding
  BY <1>2 DEF Deciding
<1>3. CASE s \in Advising
  BY <1>3 DEF Advising
<1>4. CASE s \in {Idle, Rejected}
  BY <1>4 DEF Idle, Rejected
<1>. QED BY <1>1, <1>2, <1>3, <1>4 DEF Stage

\* The requests that have logged the content `c`.
Loggers(c) == {r \in Request : c \in LoggedBy(req[r])}

\* Each content is in the log as often as requests have logged it.
LoggedOnce ==
    \A c \in Content :
      /\ IsFiniteSet(Loggers(c))
      /\ Cardinality(Records(c[1], c[2])) = Cardinality(Loggers(c))

LEMMA RecordsFinite ==
    ASSUME records \in Seq(AuditRecord), NEW a, NEW e
    PROVE  IsFiniteSet(Records(a, e)) /\ Len(records) + 1 \notin Records(a, e)
<1>1. Records(a, e) \subseteq 1..Len(records) /\ Len(records) \in Nat
  BY DEF Records
<1>2. IsFiniteSet(1..Len(records))
  BY <1>1, FS_Interval
<1>. QED BY <1>1, <1>2, FS_Subset

LEMMA AppendOne ==
    ASSUME records \in Seq(AuditRecord), NEW a \in AlertId,
           NEW e \in AuditEventKind, append(a, e)
    PROVE  /\ Records(a, e)' = Records(a, e) \cup {Len(records) + 1}
           /\ \A b, f : <<b, f>> # <<a, e>> => Records(b, f)' = Records(b, f)
<1>1. NextRecord(records, a, e) \in AuditRecord
      /\ NextRecord(records, a, e).alert_id = a
      /\ NextRecord(records, a, e).event = e
  BY NextRecordType DEF NextRecord
<1>2. DOMAIN records = 1..Len(records) /\ Len(records) \in Nat
      /\ DOMAIN records' = 1..(Len(records) + 1)
      /\ records'[Len(records) + 1] = NextRecord(records, a, e)
      /\ \A i \in 1..Len(records) : records'[i] = records[i]
  BY <1>1 DEF append
<1>3. DOMAIN records' = DOMAIN records \cup {Len(records) + 1}
      /\ Len(records) + 1 \notin DOMAIN records
  BY <1>2
<1>. QED BY <1>1, <1>2, <1>3 DEF Records

LEMMA LoggingOnce ==
    ASSUME TInv, LoggedOnce, [Next]_vars
    PROVE  LoggedOnce'
<1>1. records \in Seq(AuditRecord) /\ req \in [Request -> Stage]
  BY DEF TInv, TypeOK
<1>2. CASE NothingLogged
  <2>1. \A c \in Content : Loggers(c)' = Loggers(c)
    BY <1>2 DEF NothingLogged, Loggers
  <2>2. \A a, e : Records(a, e)' = Records(a, e)
    BY <1>2 DEF NothingLogged, Records
  <2>. QED BY <2>1, <2>2 DEF LoggedOnce
<1>3. ASSUME NEW r \in Request, NEW a \in AlertId, NEW e \in AuditEventKind,
             OneLogged(r, a, e)
      PROVE  LoggedOnce'
  <2> SUFFICES ASSUME NEW c \in Content
               PROVE  /\ IsFiniteSet(Loggers(c)')
                      /\ Cardinality(Records(c[1], c[2])') =
                           Cardinality(Loggers(c)')
    BY DEF LoggedOnce
  <2>1. c = <<c[1], c[2]>>
    BY DEF Content
  <2>2. IsFiniteSet(Loggers(c))
        /\ Cardinality(Records(c[1], c[2])) = Cardinality(Loggers(c))
    BY DEF LoggedOnce
  <2>3. CASE c = <<a, e>>
    <3>1. Loggers(c)' = Loggers(c) \cup {r} /\ r \notin Loggers(c)
      BY <1>3, <2>3 DEF OneLogged, Loggers
    <3>2. Records(a, e)' = Records(a, e) \cup {Len(records) + 1}
      BY <1>1, <1>3, AppendOne DEF OneLogged
    <3>3. IsFiniteSet(Records(a, e)) /\ Len(records) + 1 \notin Records(a, e)
      BY <1>1, RecordsFinite
    <3>4. Cardinality(Records(a, e)') = Cardinality(Records(a, e)) + 1
      BY <3>2, <3>3, FS_AddElement
    <3>5. IsFiniteSet(Loggers(c)')
          /\ Cardinality(Loggers(c)') = Cardinality(Loggers(c)) + 1
      BY <2>2, <3>1, FS_AddElement
    <3>. QED BY <2>2, <2>3, <3>4, <3>5
  <2>4. CASE c # <<a, e>>
    <3>1. Loggers(c)' = Loggers(c)
      BY <1>3, <2>4 DEF OneLogged, Loggers
    <3>2. Records(c[1], c[2])' = Records(c[1], c[2])
      BY <1>1, <1>3, <2>1, <2>4, AppendOne DEF OneLogged
    <3>. QED BY <2>2, <3>1, <3>2
  <2>. QED BY <2>3, <2>4
<1>4. CASE UNCHANGED vars
  <2>1. NothingLogged
    BY <1>4 DEF vars, NothingLogged
  <2>. QED BY <1>2, <2>1
<1>. QED BY <1>1, <1>2, <1>3, <1>4, LoggingStep

\* The log holds exactly what the requests have logged, each event once:
\* an answered request is completely recorded, none is recorded twice, and
\* no record comes from nowhere, however many requests interleave.
THEOREM RecordedExactlyOnce == Spec => []AuditExactlyOnce
<1>1. Init => LoggedOnce
  <2> SUFFICES ASSUME Init, NEW c \in Content
               PROVE  Loggers(c) = {} /\ Records(c[1], c[2]) = {}
    BY FS_EmptySet DEF LoggedOnce
  <2>1. \A r \in Request : LoggedBy(req[r]) = {}
    BY LoggedAt DEF Init, Idle
  <2>. QED BY <2>1 DEF Loggers, Records, Init, AuditInit
<1>2. TInv /\ LoggedOnce /\ [Next]_vars => LoggedOnce'
  BY LoggingOnce
<1>3. TInv /\ LoggedOnce => AuditExactlyOnce
  <2> SUFFICES ASSUME TInv, LoggedOnce PROVE AuditExactlyOnce
    OBVIOUS
  <2>1. {<<records[i].alert_id, records[i].event>> : i \in DOMAIN records}
          \subseteq Content
    <3>1. \A i \in DOMAIN records : records[i] \in AuditRecord
      BY DEF TInv, TypeOK
    <3>. QED BY <3>1 DEF AuditRecord, Content
  <2>2. \A r \in Request : Logged(r) \subseteq Content
    BY LoggedType DEF Logged, TInv, TypeOK
  <2>3. \A c : {r \in Request : c \in Logged(r)} = Loggers(c)
    BY DEF Logged, Loggers
  <2>. QED BY <2>1, <2>2, <2>3 DEF AuditExactlyOnce, LoggedOnce
<1>. QED BY <1>1, <1>2, <1>3, TypeInvariant, PTL DEF Spec

-----------------------------------------------------------------------------
(* Status changes, recorded or owed, balance *)

Owing == {"log_decision", "log_status"}

OwedFrom(a, s) ==
    {r \in Request : req[r].pc \in Owing /\ req[r].alert_id = a
                     /\ req[r].from = s}
OwedTo(a, s) ==
    {r \in Request : req[r].pc \in Owing /\ req[r].alert_id = a
                     /\ req[r].decision = s}

Change(i, a) ==
    records[i].alert_id = a /\ records[i].event.event_type = "status_changed"

RecordedFrom(a, s) ==
    {i \in DOMAIN records : Change(i, a) /\ records[i].event.from = s}
RecordedTo(a, s) ==
    {i \in DOMAIN records : Change(i, a) /\ records[i].event.to = s}

One(condition) == IF condition THEN 1 ELSE 0

\* How often an alert left, and entered, a status.
Left(a, s) == Cardinality(RecordedFrom(a, s)) + Cardinality(OwedFrom(a, s))
Entered(a, s) == Cardinality(RecordedTo(a, s)) + Cardinality(OwedTo(a, s))

\* An alert that does not exist has no history.
Balanced(a, s) ==
    /\ IsFiniteSet(OwedFrom(a, s)) /\ IsFiniteSet(OwedTo(a, s))
    /\ ~Exists(a) => /\ RecordedFrom(a, s) = {} /\ RecordedTo(a, s) = {}
                     /\ OwedFrom(a, s) = {} /\ OwedTo(a, s) = {}
    /\ Exists(a) => Left(a, s) + One(alerts[a].status = s)
                      = Entered(a, s) + One(s = "open")

FlowBalanced == \A a \in AlertId, s \in InvestigationStatus : Balanced(a, s)

\* No change is recorded, or none is owed more or less.
SameRecorded ==
    \A a, s : RecordedFrom(a, s)' = RecordedFrom(a, s)
              /\ RecordedTo(a, s)' = RecordedTo(a, s)
SameOwed ==
    \A a, s : OwedFrom(a, s)' = OwedFrom(a, s) /\ OwedTo(a, s)' = OwedTo(a, s)

LEMMA OtherRecord ==
    ASSUME records \in Seq(AuditRecord), NEW b \in AlertId,
           NEW e \in AuditEventKind, append(b, e)
    PROVE  /\ e.event_type # "status_changed" => SameRecorded
           /\ e.event_type = "status_changed" =>
                \A a, s :
                  /\ RecordedFrom(a, s)' =
                       IF a = b /\ e.from = s
                       THEN RecordedFrom(a, s) \cup {Len(records) + 1}
                       ELSE RecordedFrom(a, s)
                  /\ RecordedTo(a, s)' =
                       IF a = b /\ e.to = s
                       THEN RecordedTo(a, s) \cup {Len(records) + 1}
                       ELSE RecordedTo(a, s)
<1>1. NextRecord(records, b, e) \in AuditRecord
      /\ NextRecord(records, b, e).alert_id = b
      /\ NextRecord(records, b, e).event = e
  BY NextRecordType DEF NextRecord
<1>2. DOMAIN records = 1..Len(records) /\ Len(records) \in Nat
      /\ DOMAIN records' = 1..(Len(records) + 1)
      /\ records'[Len(records) + 1] = NextRecord(records, b, e)
      /\ \A i \in 1..Len(records) : records'[i] = records[i]
  BY <1>1 DEF append
<1>3. DOMAIN records' = DOMAIN records \cup {Len(records) + 1}
      /\ Len(records) + 1 \notin DOMAIN records
  BY <1>2
<1>4. \A a, s :
        /\ RecordedFrom(a, s)' =
             IF a = b /\ e.event_type = "status_changed" /\ e.from = s
             THEN RecordedFrom(a, s) \cup {Len(records) + 1}
             ELSE RecordedFrom(a, s)
        /\ RecordedTo(a, s)' =
             IF a = b /\ e.event_type = "status_changed" /\ e.to = s
             THEN RecordedTo(a, s) \cup {Len(records) + 1}
             ELSE RecordedTo(a, s)
  BY <1>1, <1>2, <1>3 DEF RecordedFrom, RecordedTo, Change
<1>. QED BY <1>4 DEF SameRecorded

LEMMA RecordedFinite ==
    ASSUME records \in Seq(AuditRecord), NEW a, NEW s
    PROVE  /\ IsFiniteSet(RecordedFrom(a, s)) /\ IsFiniteSet(RecordedTo(a, s))
           /\ Len(records) + 1 \notin RecordedFrom(a, s)
           /\ Len(records) + 1 \notin RecordedTo(a, s)
<1>1. RecordedFrom(a, s) \subseteq 1..Len(records)
      /\ RecordedTo(a, s) \subseteq 1..Len(records) /\ Len(records) \in Nat
  BY DEF RecordedFrom, RecordedTo
<1>2. IsFiniteSet(1..Len(records))
  BY <1>1, FS_Interval
<1>. QED BY <1>1, <1>2, FS_Subset

\* What a step does to the balance: nothing; it creates an alert; it writes a
\* status and owes the record; or it appends the record it owed.
Quiet == SameRecorded /\ SameOwed /\ UNCHANGED alerts

Creates(a) ==
    /\ SameRecorded /\ SameOwed
    /\ ~Exists(a) /\ Exists(a)' /\ alerts'[a].status = "open"
    /\ \A b \in AlertId \ {a} : alerts'[b] = alerts[b]

Writes(r, a, d) ==
    /\ SameRecorded
    /\ Exists(a) /\ Exists(a)' /\ alerts'[a].status = d
    /\ \A b \in AlertId \ {a} : alerts'[b] = alerts[b]
    /\ req[r].pc \notin Owing
    /\ \A b, s :
         /\ OwedFrom(b, s)' = IF b = a /\ s = alerts[a].status
                              THEN OwedFrom(b, s) \cup {r} ELSE OwedFrom(b, s)
         /\ OwedTo(b, s)' = IF b = a /\ s = d
                            THEN OwedTo(b, s) \cup {r} ELSE OwedTo(b, s)

Settles(r, a, f, d) ==
    /\ UNCHANGED alerts /\ Exists(a)
    /\ r \in OwedFrom(a, f) /\ r \in OwedTo(a, d)
    /\ \A b, s :
         /\ OwedFrom(b, s)' = IF b = a /\ s = f
                              THEN OwedFrom(b, s) \ {r} ELSE OwedFrom(b, s)
         /\ OwedTo(b, s)' = IF b = a /\ s = d
                            THEN OwedTo(b, s) \ {r} ELSE OwedTo(b, s)
         /\ RecordedFrom(b, s)' =
              IF b = a /\ s = f THEN RecordedFrom(b, s) \cup {Len(records) + 1}
              ELSE RecordedFrom(b, s)
         /\ RecordedTo(b, s)' =
              IF b = a /\ s = d THEN RecordedTo(b, s) \cup {Len(records) + 1}
              ELSE RecordedTo(b, s)

LEMMA FlowSteps ==
    ASSUME TInv, [Next]_vars
    PROVE  \/ Quiet
           \/ \E a \in AlertId : Creates(a)
           \/ \E r \in Request, a \in AlertId, d \in InvestigationStatus :
                Writes(r, a, d)
           \/ \E r \in Request, a \in AlertId, f, d \in InvestigationStatus :
                Settles(r, a, f, d)
<1>. DEFINE Goal == \/ Quiet
                    \/ \E a \in AlertId : Creates(a)
                    \/ \E r \in Request, a \in AlertId,
                          d \in InvestigationStatus : Writes(r, a, d)
                    \/ \E r \in Request, a \in AlertId,
                          f, d \in InvestigationStatus : Settles(r, a, f, d)
<1>0. /\ records \in Seq(AuditRecord) /\ req \in [Request -> Stage]
      /\ alerts \in [AlertId -> Alert \cup {NoAlert}]
  BY DEF TInv, TypeOK
<1>1. ASSUME UNCHANGED records
      PROVE  SameRecorded
  BY <1>1 DEF SameRecorded, RecordedFrom, RecordedTo, Change
<1>2. ASSUME NEW r \in Request, NEW s, req' = [req EXCEPT ![r] = s],
             req[r].pc \notin Owing, s.pc \notin Owing
      PROVE  SameOwed
  <2>1. \A q \in Request : req'[q] = IF q = r THEN s ELSE req[q]
    BY <1>0, <1>2
  <2>. QED BY <1>2, <2>1 DEF SameOwed, OwedFrom, OwedTo
<1>3. ASSUME NEW r \in Request, Arrive(r)
      PROVE  Goal
  <2>0. req[r].pc \notin Owing
    BY <1>3 DEF Arrive, InsertAlert, Reject, WriteDecision, LookUpAlert, At,
                Owing
  <2>1. ASSUME NEW a \in AlertId, NEW src \in AccountId,
               NEW dst \in AccountId \cup {NoAccount}, NEW score \in Score,
               InsertAlert(r, a, src, dst, score)
        PROVE  Goal
    <3>. DEFINE s == [pc |-> "log_created", alert_id |-> a,
                      anomaly_score |-> score]
                new == [status |-> "open", source_account |-> src,
                        destination_account |-> dst]
    <3>1. s.pc \notin Owing /\ new.status = "open" /\ new # NoAlert
      BY DEF Owing, NoAlert
    <3>2. ~Exists(a) /\ alerts' = [alerts EXCEPT ![a] = new]
          /\ req' = [req EXCEPT ![r] = s] /\ UNCHANGED records
      BY <2>1 DEF InsertAlert
    <3>. HIDE DEF s, new
    <3>3. SameRecorded /\ SameOwed
      BY <1>1, <1>2, <2>0, <3>1, <3>2
    <3>4. Creates(a)
      BY <1>0, <3>1, <3>2, <3>3 DEF Creates, Exists
    <3>. QED BY <3>4
  <2>2. CASE Reject(r)
    <3>1. Rejected.pc \notin Owing
      BY DEF Rejected, Owing
    <3>. QED BY <1>1, <1>2, <2>0, <2>2, <3>1 DEF Reject, appVars, Quiet
  <2>3. ASSUME NEW who \in InvestigatorId, NEW a \in AlertId,
               NEW d \in Decision, WriteDecision(r, who, a, d)
        PROVE  Goal
    <3>. DEFINE s == [pc |-> "log_decision", alert_id |-> a, who |-> who,
                      from |-> alerts[a].status, decision |-> d]
    <3>1. s.pc \in Owing /\ s.alert_id = a /\ s.from = alerts[a].status
          /\ s.decision = d
      BY DEF Owing
    <3>2. Exists(a) /\ alerts' = [alerts EXCEPT ![a].status = d]
          /\ req' = [req EXCEPT ![r] = s] /\ UNCHANGED records
      BY <2>3 DEF WriteDecision
    <3>. HIDE DEF s
    <3>3. alerts[a] \in Alert /\ d \in InvestigationStatus
      BY <1>0, <3>2, DecisionAssumption DEF Exists
    <3>4. Exists(a)' /\ alerts'[a].status = d
          /\ \A b \in AlertId \ {a} : alerts'[b] = alerts[b]
      <4>1. [alerts[a] EXCEPT !.status = d] # NoAlert
            /\ [alerts[a] EXCEPT !.status = d].status = d
        BY <3>3 DEF Alert, NoAlert
      <4>. QED BY <1>0, <3>2, <4>1 DEF Exists
    <3>5. \A q \in Request : req'[q] = IF q = r THEN s ELSE req[q]
      BY <1>0, <3>2
    <3>6. Writes(r, a, d)
      BY <1>1, <2>0, <3>1, <3>2, <3>4, <3>5 DEF Writes, OwedFrom, OwedTo
    <3>. QED BY <3>3, <3>6
  <2>4. ASSUME NEW a \in AlertId, LookUpAlert(r, a)
        PROVE  Goal
    <3>. DEFINE s == [pc |-> "log_sent", alert_id |-> a, advice |-> Fallback]
    <3>1. s.pc \notin Owing
      BY DEF Owing
    <3>2. req' = [req EXCEPT ![r] = s] /\ UNCHANGED <<records, alerts>>
      BY <2>4 DEF LookUpAlert, appVars
    <3>. HIDE DEF s
    <3>. QED BY <1>1, <1>2, <2>0, <3>1, <3>2 DEF Quiet
  <2>. QED BY <1>3, <2>1, <2>2, <2>3, <2>4 DEF Arrive
<1>4. ASSUME NEW r \in Request, NEW label, Goto(r, label), req[r] \in Stage,
             req[r].pc \notin {"idle", "rejected"}
      PROVE  \A q \in Request :
               req'[q] = IF q = r THEN [req[r] EXCEPT !.pc = label] ELSE req[q]
  BY <1>0, <1>4 DEF Goto
<1>5. ASSUME NEW r \in Request, NEW label, Goto(r, label),
             req[r].pc \notin Owing, req[r].pc \notin {"idle", "rejected"},
             label \notin Owing
      PROVE  SameOwed
  <2>1. req' = [req EXCEPT ![r] = [req[r] EXCEPT !.pc = label]]
    BY <1>5 DEF Goto
  <2>2. [req[r] EXCEPT !.pc = label].pc = label
    BY <1>0, <1>5 DEF Stage, Idle, Rejected, Creating, Deciding, Advising
  <2>. QED BY <1>2, <1>5, <2>1, <2>2
<1>6. ASSUME NEW r \in Request, NEW e \in AuditEventKind, NEW label,
             append(req[r].alert_id, e), Goto(r, label), UNCHANGED appVars,
             req[r] \in Creating \cup Advising,
             e.event_type # "status_changed",
             label \notin Owing
      PROVE  Goal
  <2>1. req[r].alert_id \in AlertId /\ req[r].pc \notin Owing
        /\ req[r].pc \notin {"idle", "rejected"}
    BY <1>6 DEF Creating, Advising, Owing
  <2>2. SameOwed
    BY <1>5, <1>6, <2>1
  <2>3. SameRecorded
    BY <1>0, <1>6, <2>1, OtherRecord
  <2>. QED BY <1>6, <2>2, <2>3 DEF Quiet, appVars
<1>7. ASSUME NEW r \in Request, Advance(r) \/ ClientDisconnects(r)
      PROVE  Goal
  <2>. USE EventsAreEvents
  <2>0. req[r] \in Stage
    BY <1>0
  <2>1. CASE LogAlertCreated(r)
    <3>1. req[r] \in Creating /\ req[r].anomaly_score \in Score
      BY <2>0, <2>1, StageOfLabel DEF LogAlertCreated, At, Creating
    <3>. QED BY <1>6, <2>1, <3>1 DEF LogAlertCreated, AlertCreated, Owing
  <2>2. CASE LogRulesTriggered(r)
    <3>1. req[r] \in Creating
      BY <2>0, <2>2, StageOfLabel DEF LogRulesTriggered, At
    <3>. QED BY <1>6, <2>2, <3>1 DEF LogRulesTriggered, RulesTriggered, Owing
  <2>3. CASE LogDecision(r)
    <3>. DEFINE s == [req[r] EXCEPT !.pc = "log_status"]
                e == InvestigatorDecision(req[r].who, req[r].decision)
    <3>1. req[r] \in Deciding /\ req[r].pc = "log_decision"
      BY <2>0, <2>3, StageOfLabel DEF LogDecision, At
    <3>2. s.pc \in Owing /\ req[r].pc \in Owing /\ s.alert_id = req[r].alert_id
          /\ s.from = req[r].from /\ s.decision = req[r].decision
          /\ req[r].alert_id \in AlertId /\ e \in AuditEventKind
      BY <3>1 DEF Deciding, Owing
    <3>3. \A q \in Request : req'[q] = IF q = r THEN s ELSE req[q]
      BY <1>4, <2>0, <2>3, <3>1 DEF LogDecision
    <3>4. append(req[r].alert_id, e) /\ UNCHANGED alerts
          /\ e.event_type # "status_changed"
      BY <2>3 DEF LogDecision, appVars, InvestigatorDecision
    <3>. HIDE DEF s, e
    <3>5. SameOwed
      BY <3>2, <3>3 DEF SameOwed, OwedFrom, OwedTo
    <3>6. SameRecorded
      BY <1>0, <3>2, <3>4, OtherRecord
    <3>. QED BY <3>4, <3>5, <3>6 DEF Quiet
  <2>4. CASE LogStatus(r)
    <3>. DEFINE s == [req[r] EXCEPT !.pc = "flag"]
                a == req[r].alert_id
                f == req[r].from
                d == req[r].decision
                e == StatusChanged(f, d)
    <3>1. req[r] \in Deciding /\ req[r].pc = "log_status"
      BY <2>0, <2>4, StageOfLabel DEF LogStatus, At
    <3>2. s.pc \notin Owing /\ req[r].pc \in Owing
          /\ a \in AlertId /\ f \in InvestigationStatus
          /\ d \in InvestigationStatus /\ e \in AuditEventKind
      BY <3>1 DEF Deciding, Owing
    <3>3. \A q \in Request : req'[q] = IF q = r THEN s ELSE req[q]
      BY <1>4, <2>0, <2>4, <3>1 DEF LogStatus
    <3>4. append(a, e) /\ UNCHANGED alerts
          /\ e.event_type = "status_changed" /\ e.from = f /\ e.to = d
      BY <2>4 DEF LogStatus, appVars, StatusChanged
    <3>5. Exists(a)
      BY <3>1 DEF TInv, AlertsOfRequestsExist, At
    <3>. HIDE DEF s, e
    <3>6. r \in OwedFrom(a, f) /\ r \in OwedTo(a, d)
      BY <3>2 DEF OwedFrom, OwedTo
    <3>7. \A b, x :
            /\ OwedFrom(b, x)' = IF b = a /\ x = f
                                 THEN OwedFrom(b, x) \ {r} ELSE OwedFrom(b, x)
            /\ OwedTo(b, x)' = IF b = a /\ x = d
                               THEN OwedTo(b, x) \ {r} ELSE OwedTo(b, x)
      BY <3>2, <3>3 DEF OwedFrom, OwedTo
    <3>8. \A b, x :
            /\ RecordedFrom(b, x)' =
                 IF b = a /\ x = f
                 THEN RecordedFrom(b, x) \cup {Len(records) + 1}
                 ELSE RecordedFrom(b, x)
            /\ RecordedTo(b, x)' =
                 IF b = a /\ x = d
                 THEN RecordedTo(b, x) \cup {Len(records) + 1}
                 ELSE RecordedTo(b, x)
      BY <1>0, <3>2, <3>4, OtherRecord
    <3>9. Settles(r, a, f, d)
      BY <3>4, <3>5, <3>6, <3>7, <3>8 DEF Settles
    <3>. QED BY <3>2, <3>9
  <2>5. CASE Flag(r) \/ StoreRecommendation(r) \/ ClientDisconnects(r)
    <3>1. PICK label : Goto(r, label) /\ label \notin Owing
      BY <2>5 DEF Flag, StoreRecommendation, ClientDisconnects, Owing
    <3>2. req[r].pc \notin Owing /\ req[r].pc \notin {"idle", "rejected"}
          /\ UNCHANGED <<records, alerts>>
      BY <2>5 DEF Flag, StoreRecommendation, ClientDisconnects, At, Owing,
                  appVars
    <3>. QED BY <1>1, <1>5, <3>1, <3>2 DEF Quiet
  <2>6. CASE LogContextSent(r)
    <3>1. req[r] \in Advising
      BY <2>0, <2>6, StageOfLabel DEF LogContextSent, At
    <3>. QED BY <1>6, <2>6, <3>1 DEF LogContextSent, AiContextSent, Owing
  <2>7. ASSUME NEW b \in Advice, AdvisorAnswers(r, b)
        PROVE  Goal
    <3>. DEFINE s == [req[r] EXCEPT !.pc = "log_received",
                                    !.advice = b]
    <3>1. req[r] \in Advising /\ req[r].pc = "investigate"
      BY <2>0, <2>7, StageOfLabel DEF AdvisorAnswers, At
    <3>2. s.pc \notin Owing /\ req[r].pc \notin Owing
      BY <3>1 DEF Advising, Owing
    <3>3. req' = [req EXCEPT ![r] = s] /\ UNCHANGED <<records, alerts>>
      BY <2>7 DEF AdvisorAnswers
    <3>. HIDE DEF s
    <3>. QED BY <1>1, <1>2, <3>2, <3>3 DEF Quiet
  <2>8. CASE LogReceived(r)
    <3>1. req[r] \in Advising /\ req[r].advice \in Advice
      BY <2>0, <2>8, StageOfLabel DEF LogReceived, At, Advising
    <3>. QED BY <1>6, <2>8, <3>1 DEF LogReceived, AiRecommendationReceived,
                                     Owing
  <2>. QED BY <1>7, <2>1, <2>2, <2>3, <2>4, <2>5, <2>6, <2>7, <2>8 DEF Advance
<1>8. CASE UNCHANGED vars
  BY <1>8 DEF vars, appVars, Quiet, SameRecorded, SameOwed, RecordedFrom,
              RecordedTo, OwedFrom, OwedTo, Change
<1>. QED BY <1>3, <1>7, <1>8 DEF Next

LEMMA AddOne ==
    ASSUME NEW S, NEW x, IsFiniteSet(S)
    PROVE  /\ Cardinality(S) \in Nat
           /\ IsFiniteSet(S \cup {x}) /\ IsFiniteSet(S \ {x})
           /\ x \notin S => Cardinality(S \cup {x}) = Cardinality(S) + 1
           /\ x \in S => Cardinality(S \ {x}) = Cardinality(S) - 1
BY FS_AddElement, FS_RemoveElement, FS_CardinalityType

LEMMA BalanceStays ==
    ASSUME TInv, FlowBalanced, [Next]_vars
    PROVE  FlowBalanced'
<1>. USE DEF FlowBalanced
<1>0. records \in Seq(AuditRecord)
      /\ alerts \in [AlertId -> Alert \cup {NoAlert}]
      /\ req \in [Request -> Stage]
  BY DEF TInv, TypeOK
<1>1. CASE Quiet
  BY <1>1 DEF Quiet, SameRecorded, SameOwed, Balanced, Exists, Left, Entered
<1>2. ASSUME NEW a \in AlertId, Creates(a)
      PROVE  FlowBalanced'
  <2> SUFFICES ASSUME NEW b \in AlertId, NEW s \in InvestigationStatus
               PROVE  Balanced(b, s)'
    OBVIOUS
  <2>1. RecordedFrom(b, s)' = RecordedFrom(b, s)
        /\ RecordedTo(b, s)' = RecordedTo(b, s)
        /\ OwedFrom(b, s)' = OwedFrom(b, s) /\ OwedTo(b, s)' = OwedTo(b, s)
    BY <1>2 DEF Creates, SameRecorded, SameOwed
  <2>2. Balanced(b, s)
    OBVIOUS
  <2>3. CASE b = a
    <3>1. RecordedFrom(b, s)' = {} /\ RecordedTo(b, s)' = {}
          /\ OwedFrom(b, s)' = {} /\ OwedTo(b, s)' = {}
      BY <1>2, <2>1, <2>2, <2>3 DEF Balanced, Creates
    <3>2. Exists(b)' /\ alerts'[b].status = "open"
      BY <1>2, <2>3 DEF Creates
    <3>. QED BY <3>1, <3>2, FS_EmptySet DEF Balanced, Left, Entered, One
  <2>4. CASE b # a
    <3>1. alerts'[b] = alerts[b]
      BY <1>2, <2>4 DEF Creates
    <3>. QED BY <2>1, <2>2, <3>1 DEF Balanced, Exists, Left, Entered
  <2>. QED BY <2>3, <2>4
<1>3. ASSUME NEW r \in Request, NEW a \in AlertId, NEW d \in InvestigationStatus,
             Writes(r, a, d)
      PROVE  FlowBalanced'
  <2> SUFFICES ASSUME NEW b \in AlertId, NEW s \in InvestigationStatus
               PROVE  Balanced(b, s)'
    OBVIOUS
  <2>1. RecordedFrom(b, s)' = RecordedFrom(b, s)
        /\ RecordedTo(b, s)' = RecordedTo(b, s)
    BY <1>3 DEF Writes, SameRecorded
  <2>2. Balanced(b, s) /\ IsFiniteSet(RecordedFrom(b, s))
        /\ IsFiniteSet(RecordedTo(b, s))
    BY <1>0, RecordedFinite
  <2>3. CASE b # a
    <3>1. alerts'[b] = alerts[b]
          /\ OwedFrom(b, s)' = OwedFrom(b, s) /\ OwedTo(b, s)' = OwedTo(b, s)
      BY <1>3, <2>3 DEF Writes
    <3>. QED BY <2>1, <2>2, <3>1 DEF Balanced, Exists, Left, Entered
  <2>4. CASE b = a
    <3>. DEFINE f == alerts[a].status
    <3>1. Exists(a) /\ Exists(a)' /\ alerts'[a].status = d
          /\ OwedFrom(b, s)' = (IF s = f THEN OwedFrom(b, s) \cup {r}
                                ELSE OwedFrom(b, s))
          /\ OwedTo(b, s)' = (IF s = d THEN OwedTo(b, s) \cup {r}
                              ELSE OwedTo(b, s))
      BY <1>3, <2>4 DEF Writes
    <3>2. r \notin OwedFrom(b, s) /\ r \notin OwedTo(b, s)
      BY <1>3 DEF Writes, OwedFrom, OwedTo
    <3>3. IsFiniteSet(OwedFrom(b, s)) /\ IsFiniteSet(OwedTo(b, s))
      BY <2>2 DEF Balanced
    <3>. HIDE DEF f
    <3>4. /\ IsFiniteSet(OwedFrom(b, s)') /\ IsFiniteSet(OwedTo(b, s)')
          /\ Cardinality(OwedFrom(b, s)')
               = Cardinality(OwedFrom(b, s)) + One(s = f)
          /\ Cardinality(OwedTo(b, s)') = Cardinality(OwedTo(b, s)) + One(s = d)
          /\ Cardinality(OwedFrom(b, s)) \in Nat
          /\ Cardinality(OwedTo(b, s)) \in Nat
      <4>1. IsFiniteSet(OwedFrom(b, s) \cup {r})
            /\ Cardinality(OwedFrom(b, s) \cup {r})
                 = Cardinality(OwedFrom(b, s)) + 1
            /\ Cardinality(OwedFrom(b, s)) \in Nat
        BY <3>2, <3>3, AddOne
      <4>2. IsFiniteSet(OwedTo(b, s) \cup {r})
            /\ Cardinality(OwedTo(b, s) \cup {r})
                 = Cardinality(OwedTo(b, s)) + 1
            /\ Cardinality(OwedTo(b, s)) \in Nat
        BY <3>2, <3>3, AddOne
      <4>. QED BY <3>1, <3>3, <4>1, <4>2 DEF One
    <3>5. Cardinality(RecordedFrom(b, s)) \in Nat
          /\ Cardinality(RecordedTo(b, s)) \in Nat
      BY <2>2, AddOne
    <3>6. Left(b, s) + One(s = f) = Entered(b, s) + One(s = "open")
      BY <2>2, <2>4, <3>1 DEF Balanced, f, One
    <3>7. Left(b, s)' + One(s = d) = Entered(b, s)' + One(s = "open")
      BY <2>1, <3>4, <3>5, <3>6 DEF Left, Entered, One
    <3>. QED BY <2>4, <3>1, <3>4, <3>7 DEF Balanced, One
  <2>. QED BY <2>3, <2>4
<1>4. ASSUME NEW r \in Request, NEW a \in AlertId, NEW f \in InvestigationStatus,
             NEW d \in InvestigationStatus, Settles(r, a, f, d)
      PROVE  FlowBalanced'
  <2> SUFFICES ASSUME NEW b \in AlertId, NEW s \in InvestigationStatus
               PROVE  Balanced(b, s)'
    OBVIOUS
  <2>1. Balanced(b, s) /\ IsFiniteSet(RecordedFrom(b, s))
        /\ IsFiniteSet(RecordedTo(b, s))
        /\ Len(records) + 1 \notin RecordedFrom(b, s)
        /\ Len(records) + 1 \notin RecordedTo(b, s)
    BY <1>0, RecordedFinite
  <2>2. alerts' = alerts /\ Exists(a)
    BY <1>4 DEF Settles
  <2>3. CASE b # a
    <3>1. OwedFrom(b, s)' = OwedFrom(b, s) /\ OwedTo(b, s)' = OwedTo(b, s)
          /\ RecordedFrom(b, s)' = RecordedFrom(b, s)
          /\ RecordedTo(b, s)' = RecordedTo(b, s)
      BY <1>4, <2>3 DEF Settles
    <3>. QED BY <2>1, <2>2, <3>1 DEF Balanced, Exists, Left, Entered
  <2>4. CASE b = a
    <3>1. IsFiniteSet(OwedFrom(b, s)) /\ IsFiniteSet(OwedTo(b, s))
      BY <2>1 DEF Balanced
    <3>2. /\ OwedFrom(b, s)' = (IF s = f THEN OwedFrom(b, s) \ {r}
                                ELSE OwedFrom(b, s))
          /\ RecordedFrom(b, s)' =
               (IF s = f THEN RecordedFrom(b, s) \cup {Len(records) + 1}
                ELSE RecordedFrom(b, s))
          /\ s = f => r \in OwedFrom(b, s)
      BY <1>4, <2>4 DEF Settles
    <3>3. /\ OwedTo(b, s)' = (IF s = d THEN OwedTo(b, s) \ {r}
                              ELSE OwedTo(b, s))
          /\ RecordedTo(b, s)' =
               (IF s = d THEN RecordedTo(b, s) \cup {Len(records) + 1}
                ELSE RecordedTo(b, s))
          /\ s = d => r \in OwedTo(b, s)
      BY <1>4, <2>4 DEF Settles
    <3>4. Cardinality(RecordedFrom(b, s)) \in Nat
          /\ Cardinality(RecordedTo(b, s)) \in Nat
          /\ Cardinality(OwedFrom(b, s)) \in Nat
          /\ Cardinality(OwedTo(b, s)) \in Nat
      BY <2>1, <3>1, AddOne
    <3>5. IsFiniteSet(OwedFrom(b, s)') /\ Left(b, s)' = Left(b, s)
      <4>1. CASE s = f
        <5>1. Cardinality(RecordedFrom(b, s) \cup {Len(records) + 1})
                = Cardinality(RecordedFrom(b, s)) + 1
          BY <2>1, AddOne
        <5>2. IsFiniteSet(OwedFrom(b, s) \ {r})
              /\ Cardinality(OwedFrom(b, s) \ {r})
                   = Cardinality(OwedFrom(b, s)) - 1
          BY <3>1, <3>2, <4>1, AddOne
        <5>. QED BY <3>2, <3>4, <4>1, <5>1, <5>2 DEF Left
      <4>2. CASE s # f
        BY <3>1, <3>2, <4>2 DEF Left
      <4>. QED BY <4>1, <4>2
    <3>6. IsFiniteSet(OwedTo(b, s)') /\ Entered(b, s)' = Entered(b, s)
      <4>1. CASE s = d
        <5>1. Cardinality(RecordedTo(b, s) \cup {Len(records) + 1})
                = Cardinality(RecordedTo(b, s)) + 1
          BY <2>1, AddOne
        <5>2. IsFiniteSet(OwedTo(b, s) \ {r})
              /\ Cardinality(OwedTo(b, s) \ {r})
                   = Cardinality(OwedTo(b, s)) - 1
          BY <3>1, <3>3, <4>1, AddOne
        <5>. QED BY <3>3, <3>4, <4>1, <5>1, <5>2 DEF Entered
      <4>2. CASE s # d
        BY <3>1, <3>3, <4>2 DEF Entered
      <4>. QED BY <4>1, <4>2
    <3>. QED BY <2>1, <2>2, <2>4, <3>5, <3>6 DEF Balanced, Exists
  <2>. QED BY <2>3, <2>4
<1>. QED BY <1>1, <1>2, <1>3, <1>4, FlowSteps

\* However decisions race, no status change is lost and none is recorded with
\* a wrong `from`: recorded and owed changes lead from "open" to the status.
THEOREM StatusChangesBalance == Spec => []StatusFlowConserved
<1>1. Init => FlowBalanced
  <2> SUFFICES ASSUME Init, NEW a \in AlertId, NEW s \in InvestigationStatus
               PROVE  Balanced(a, s)
    BY DEF FlowBalanced
  <2>1. RecordedFrom(a, s) = {} /\ RecordedTo(a, s) = {}
    BY DEF Init, AuditInit, RecordedFrom, RecordedTo
  <2>2. OwedFrom(a, s) = {} /\ OwedTo(a, s) = {}
    BY DEF Init, OwedFrom, OwedTo, Owing, Idle
  <2>3. ~Exists(a)
    BY DEF Init, Exists
  <2>. QED BY <2>1, <2>2, <2>3, FS_EmptySet DEF Balanced
<1>2. TInv /\ FlowBalanced /\ [Next]_vars => FlowBalanced'
  BY BalanceStays
<1>3. FlowBalanced => StatusFlowConserved
  <2> SUFFICES ASSUME FlowBalanced PROVE StatusFlowConserved
    OBVIOUS
  <2>. DEFINE Changes(a) == {i \in OfType("status_changed") :
                               records[i].alert_id = a}
              Owes(r, a) == /\ req[r].pc \in {"log_decision", "log_status"}
                            /\ req[r].alert_id = a
  <2>1. \A a, s : {i \in Changes(a) : records[i].event.from = s}
                   = RecordedFrom(a, s)
                 /\ {i \in Changes(a) : records[i].event.to = s}
                      = RecordedTo(a, s)
    BY DEF OfType, RecordedFrom, RecordedTo, Change
  <2>2. \A a, s : {r \in Request : Owes(r, a) /\ req[r].from = s}
                   = OwedFrom(a, s)
                 /\ {r \in Request : Owes(r, a) /\ req[r].decision = s}
                      = OwedTo(a, s)
    BY DEF OwedFrom, OwedTo, Owing
  <2>. QED BY <2>1, <2>2
           DEF FlowBalanced, Balanced, Left, Entered, One, StatusFlowConserved
<1>. QED BY <1>1, <1>2, <1>3, TypeInvariant, PTL DEF Spec

-----------------------------------------------------------------------------
(* The counters, what they count, and what is still on its way *)

CreationEvents == {AlertCreated(s) : s \in Score}
VerdictEvents ==
    {InvestigatorDecision(w, d) :
       w \in InvestigatorId, d \in InvestigationStatus}
AnswerEvents == {AiRecommendationReceived(x) : x \in Advice}
FallbackEvents == {e \in AnswerEvents : ~e.model_available}

\* The stages between the counting of an event and its record, or between its
\* record and the counting.
CreationDue == {s \in Creating : s.pc = "log_created"}
CountingDue == {s \in Deciding : s.pc \in {"log_status", "flag"}}
AnswerDue == {s \in Advising : s.pc = "log_received"}
FallbackDue == {s \in AnswerDue : ~s.advice.model_available}

Logs(E) == {i \in DOMAIN records : records[i].event \in E}
Waits(S) == {r \in Request : req[r] \in S}
Known == {a \in AlertId : Exists(a)}

CountersAccounted ==
    /\ IsFiniteSet(Waits(CreationDue)) /\ IsFiniteSet(Waits(CountingDue))
    /\ IsFiniteSet(Waits(AnswerDue)) /\ IsFiniteSet(Waits(FallbackDue))
    /\ IsFiniteSet(Known)
    /\ metrics.alerts_created_total = Cardinality(Known)
    /\ metrics.alerts_created_total
         = Cardinality(Logs(CreationEvents)) + Cardinality(Waits(CreationDue))
    /\ metrics.investigator_decisions_total + Cardinality(Waits(CountingDue))
         = Cardinality(Logs(VerdictEvents))
    /\ metrics.ai_recommendations_total
         = Cardinality(Logs(AnswerEvents)) + Cardinality(Waits(AnswerDue))
    /\ metrics.ai_fallback_total
         = Cardinality(Logs(FallbackEvents)) + Cardinality(Waits(FallbackDue))

LEMMA Toggle ==
    ASSUME NEW A, IsFiniteSet(A), NEW x, NEW B,
           B = A \cup {x} \/ B = A \ {x}
    PROVE  /\ IsFiniteSet(B)
           /\ Cardinality(A) \in Nat /\ Cardinality(B) \in Nat
           /\ Cardinality(B) + One(x \in A) = Cardinality(A) + One(x \in B)
<1>1. Cardinality(A) \in Nat /\ IsFiniteSet(B)
  BY AddOne
<1>2. Cardinality(B) \in Nat
  BY <1>1, FS_CardinalityType
<1>3. CASE (x \in A) <=> (x \in B)
  <2>1. A = B
    BY <1>3
  <2>. QED BY <1>1, <1>2, <2>1 DEF One
<1>4. CASE x \in A /\ x \notin B
  <2>1. B = A \ {x}
    BY <1>4
  <2>2. Cardinality(B) = Cardinality(A) - 1
    BY <1>4, <2>1, AddOne
  <2>3. One(x \in A) = 1 /\ One(x \in B) = 0
    BY <1>4 DEF One
  <2>. QED BY <1>1, <1>2, <2>2, <2>3
<1>5. CASE x \notin A /\ x \in B
  <2>1. B = A \cup {x}
    BY <1>5
  <2>2. Cardinality(B) = Cardinality(A) + 1
    BY <1>5, <2>1, AddOne
  <2>3. One(x \in A) = 0 /\ One(x \in B) = 1
    BY <1>5 DEF One
  <2>. QED BY <1>1, <1>2, <2>2, <2>3
<1>. QED BY <1>3, <1>4, <1>5

LEMMA WaitsMove ==
    ASSUME req \in [Request -> Stage], NEW r \in Request, NEW s,
           req' = [req EXCEPT ![r] = s], NEW S, IsFiniteSet(Waits(S))
    PROVE  /\ IsFiniteSet(Waits(S)')
           /\ Cardinality(Waits(S)) \in Nat /\ Cardinality(Waits(S)') \in Nat
           /\ Cardinality(Waits(S)') + One(req[r] \in S)
                = Cardinality(Waits(S)) + One(s \in S)
<1>1. Waits(S)' = Waits(S) \cup {r} \/ Waits(S)' = Waits(S) \ {r}
  BY DEF Waits
<1>2. (r \in Waits(S) <=> req[r] \in S) /\ (r \in Waits(S)' <=> s \in S)
  BY DEF Waits
<1>3. One(r \in Waits(S)) = One(req[r] \in S)
      /\ One(r \in Waits(S)') = One(s \in S)
  BY <1>2 DEF One
<1>. QED BY <1>1, <1>3, Toggle

LEMMA LogsFinite ==
    ASSUME records \in Seq(AuditRecord), NEW E
    PROVE  /\ IsFiniteSet(Logs(E)) /\ Cardinality(Logs(E)) \in Nat
           /\ Len(records) + 1 \notin Logs(E)
<1>1. Logs(E) \subseteq 1..Len(records) /\ Len(records) \in Nat
  BY DEF Logs
<1>2. IsFiniteSet(1..Len(records))
  BY <1>1, FS_Interval
<1>3. IsFiniteSet(Logs(E))
  BY <1>1, <1>2, FS_Subset
<1>. QED BY <1>1, <1>3, FS_CardinalityType

LEMMA LogsGrow ==
    ASSUME records \in Seq(AuditRecord), NEW a \in AlertId,
           NEW e \in AuditEventKind, append(a, e), NEW E
    PROVE  /\ Cardinality(Logs(E)) \in Nat
           /\ Cardinality(Logs(E)') = Cardinality(Logs(E)) + One(e \in E)
<1>1. NextRecord(records, a, e) \in AuditRecord
      /\ NextRecord(records, a, e).event = e
  BY NextRecordType DEF NextRecord
<1>2. DOMAIN records = 1..Len(records) /\ Len(records) \in Nat
      /\ DOMAIN records' = 1..(Len(records) + 1)
      /\ records'[Len(records) + 1] = NextRecord(records, a, e)
      /\ \A i \in 1..Len(records) : records'[i] = records[i]
  BY <1>1 DEF append
<1>3. DOMAIN records' = DOMAIN records \cup {Len(records) + 1}
      /\ Len(records) + 1 \notin DOMAIN records
  BY <1>2
<1>4. Logs(E)' = IF e \in E THEN Logs(E) \cup {Len(records) + 1} ELSE Logs(E)
  BY <1>1, <1>2, <1>3 DEF Logs
<1>5. IsFiniteSet(Logs(E)) /\ Cardinality(Logs(E)) \in Nat
      /\ Len(records) + 1 \notin Logs(E)
  BY LogsFinite
<1>6. Cardinality(Logs(E) \cup {Len(records) + 1}) = Cardinality(Logs(E)) + 1
  BY <1>5, AddOne
<1>7. CASE e \in E
  BY <1>4, <1>5, <1>6, <1>7 DEF One
<1>8. CASE e \notin E
  BY <1>4, <1>5, <1>8 DEF One
<1>. QED BY <1>7, <1>8

\* One step of request r to the stage s that leaves the log alone, or appends
\* the event e.  The counters that keep pace with it stay accounted for.
LEMMA CountersMove ==
    ASSUME TInv, CountersAccounted, NEW r \in Request, NEW s,
           req' = [req EXCEPT ![r] = s],
           NEW e, NEW appends \in BOOLEAN,
           IF appends
           THEN e \in AuditEventKind /\ \E a \in AlertId : append(a, e)
           ELSE UNCHANGED records,
           IsFiniteSet(Known'),
           metrics \in Metrics, metrics' \in Metrics,
           metrics'.alerts_created_total = Cardinality(Known'),
           metrics'.alerts_created_total + One(req[r] \in CreationDue)
             = metrics.alerts_created_total + One(s \in CreationDue)
                 + One(appends /\ e \in CreationEvents),
           metrics.investigator_decisions_total + One(req[r] \in CountingDue)
             + One(appends /\ e \in VerdictEvents)
             = metrics'.investigator_decisions_total + One(s \in CountingDue),
           metrics'.ai_recommendations_total + One(req[r] \in AnswerDue)
             = metrics.ai_recommendations_total + One(s \in AnswerDue)
                 + One(appends /\ e \in AnswerEvents),
           metrics'.ai_fallback_total + One(req[r] \in FallbackDue)
             = metrics.ai_fallback_total + One(s \in FallbackDue)
                 + One(appends /\ e \in FallbackEvents)
    PROVE  CountersAccounted'
<1>1. records \in Seq(AuditRecord) /\ req \in [Request -> Stage]
  BY DEF TInv, TypeOK
<1>2. ASSUME NEW E
      PROVE  /\ Cardinality(Logs(E)) \in Nat
             /\ Cardinality(Logs(E)')
                  = Cardinality(Logs(E)) + One(appends /\ e \in E)
  <2>1. CASE appends
    <3>1. One(appends /\ e \in E) = One(e \in E)
      BY <2>1 DEF One
    <3>2. e \in AuditEventKind /\ \E a \in AlertId : append(a, e)
      BY <2>1
    <3>. QED BY <1>1, <3>1, <3>2, LogsGrow
  <2>2. CASE ~appends
    <3>1. One(appends /\ e \in E) = 0
      BY <2>2 DEF One
    <3>2. Logs(E)' = Logs(E)
      BY <2>2 DEF Logs
    <3>3. Cardinality(Logs(E)) \in Nat
      BY <1>1, LogsFinite
    <3>. QED BY <3>1, <3>2, <3>3
  <2>. QED BY <2>1, <2>2
<1>3. ASSUME NEW S, IsFiniteSet(Waits(S))
      PROVE  /\ IsFiniteSet(Waits(S)')
             /\ Cardinality(Waits(S)) \in Nat /\ Cardinality(Waits(S)') \in Nat
             /\ Cardinality(Waits(S)') + One(req[r] \in S)
                  = Cardinality(Waits(S)) + One(s \in S)
  BY <1>1, <1>3, WaitsMove
<1>4. \A b : One(b) \in {0, 1}
  BY DEF One
<1>5. metrics.alerts_created_total \in Nat
      /\ metrics.investigator_decisions_total \in Nat
      /\ metrics.ai_recommendations_total \in Nat
      /\ metrics.ai_fallback_total \in Nat
      /\ metrics'.alerts_created_total \in Nat
      /\ metrics'.investigator_decisions_total \in Nat
      /\ metrics'.ai_recommendations_total \in Nat
      /\ metrics'.ai_fallback_total \in Nat
  BY DEF Metrics
<1>6. IsFiniteSet(Waits(CreationDue)')
      /\ metrics'.alerts_created_total
           = Cardinality(Logs(CreationEvents)')
               + Cardinality(Waits(CreationDue)')
  <2>1. IsFiniteSet(Waits(CreationDue))
        /\ metrics.alerts_created_total
             = Cardinality(Logs(CreationEvents))
                 + Cardinality(Waits(CreationDue))
    BY DEF CountersAccounted
  <2>2. Cardinality(Logs(CreationEvents)) \in Nat
        /\ Cardinality(Logs(CreationEvents)')
             = Cardinality(Logs(CreationEvents))
                 + One(appends /\ e \in CreationEvents)
    BY <1>2
  <2>3. IsFiniteSet(Waits(CreationDue)')
        /\ Cardinality(Waits(CreationDue)) \in Nat
        /\ Cardinality(Waits(CreationDue)') \in Nat
        /\ Cardinality(Waits(CreationDue)') + One(req[r] \in CreationDue)
             = Cardinality(Waits(CreationDue)) + One(s \in CreationDue)
    BY <1>3, <2>1
  <2>. QED BY <1>4, <1>5, <2>1, <2>2, <2>3
<1>7. IsFiniteSet(Waits(CountingDue)')
      /\ metrics'.investigator_decisions_total
           + Cardinality(Waits(CountingDue)')
           = Cardinality(Logs(VerdictEvents)')
  <2>1. IsFiniteSet(Waits(CountingDue))
        /\ metrics.investigator_decisions_total
             + Cardinality(Waits(CountingDue))
             = Cardinality(Logs(VerdictEvents))
    BY DEF CountersAccounted
  <2>2. Cardinality(Logs(VerdictEvents)) \in Nat
        /\ Cardinality(Logs(VerdictEvents)')
             = Cardinality(Logs(VerdictEvents))
                 + One(appends /\ e \in VerdictEvents)
    BY <1>2
  <2>3. IsFiniteSet(Waits(CountingDue)')
        /\ Cardinality(Waits(CountingDue)) \in Nat
        /\ Cardinality(Waits(CountingDue)') \in Nat
        /\ Cardinality(Waits(CountingDue)') + One(req[r] \in CountingDue)
             = Cardinality(Waits(CountingDue)) + One(s \in CountingDue)
    BY <1>3, <2>1
  <2>. QED BY <1>4, <1>5, <2>1, <2>2, <2>3
<1>8. IsFiniteSet(Waits(AnswerDue)')
      /\ metrics'.ai_recommendations_total
           = Cardinality(Logs(AnswerEvents)') + Cardinality(Waits(AnswerDue)')
  <2>1. IsFiniteSet(Waits(AnswerDue))
        /\ metrics.ai_recommendations_total
             = Cardinality(Logs(AnswerEvents)) + Cardinality(Waits(AnswerDue))
    BY DEF CountersAccounted
  <2>2. Cardinality(Logs(AnswerEvents)) \in Nat
        /\ Cardinality(Logs(AnswerEvents)')
             = Cardinality(Logs(AnswerEvents))
                 + One(appends /\ e \in AnswerEvents)
    BY <1>2
  <2>3. IsFiniteSet(Waits(AnswerDue)')
        /\ Cardinality(Waits(AnswerDue)) \in Nat
        /\ Cardinality(Waits(AnswerDue)') \in Nat
        /\ Cardinality(Waits(AnswerDue)') + One(req[r] \in AnswerDue)
             = Cardinality(Waits(AnswerDue)) + One(s \in AnswerDue)
    BY <1>3, <2>1
  <2>. QED BY <1>4, <1>5, <2>1, <2>2, <2>3
<1>9. IsFiniteSet(Waits(FallbackDue)')
      /\ metrics'.ai_fallback_total
           = Cardinality(Logs(FallbackEvents)')
               + Cardinality(Waits(FallbackDue)')
  <2>1. IsFiniteSet(Waits(FallbackDue))
        /\ metrics.ai_fallback_total
             = Cardinality(Logs(FallbackEvents))
                 + Cardinality(Waits(FallbackDue))
    BY DEF CountersAccounted
  <2>2. Cardinality(Logs(FallbackEvents)) \in Nat
        /\ Cardinality(Logs(FallbackEvents)')
             = Cardinality(Logs(FallbackEvents))
                 + One(appends /\ e \in FallbackEvents)
    BY <1>2
  <2>3. IsFiniteSet(Waits(FallbackDue)')
        /\ Cardinality(Waits(FallbackDue)) \in Nat
        /\ Cardinality(Waits(FallbackDue)') \in Nat
        /\ Cardinality(Waits(FallbackDue)') + One(req[r] \in FallbackDue)
             = Cardinality(Waits(FallbackDue)) + One(s \in FallbackDue)
    BY <1>3, <2>1
  <2>. QED BY <1>4, <1>5, <2>1, <2>2, <2>3
<1>. QED BY <1>6, <1>7, <1>8, <1>9 DEF CountersAccounted

LEMMA DueAt ==
    ASSUME NEW s \in Stage
    PROVE  /\ s \in CreationDue <=> s.pc = "log_created"
           /\ s \in CountingDue <=> s.pc \in {"log_status", "flag"}
           /\ s \in AnswerDue <=> s.pc = "log_received"
           /\ s \in FallbackDue
                <=> s.pc = "log_received" /\ ~s.advice.model_available
BY StageOfLabel DEF CreationDue, CountingDue, AnswerDue, FallbackDue

LEMMA KindOfEvent ==
    ASSUME NEW e \in AuditEventKind
    PROVE  /\ e \in CreationEvents <=> e.event_type = "alert_created"
           /\ e \in VerdictEvents <=> e.event_type = "investigator_decision"
           /\ e \in AnswerEvents <=> e.event_type = "ai_recommendation_received"
           /\ e \in FallbackEvents
                <=> e.event_type = "ai_recommendation_received"
                      /\ ~e.model_available
BY DEF AuditEventKind, CreationEvents, VerdictEvents, AnswerEvents,
       FallbackEvents, AlertCreated, RulesTriggered, AiContextSent,
       AiRecommendationReceived, InvestigatorDecision, StatusChanged

LEMMA CountersStay ==
    ASSUME TInv, TInv', CountersAccounted, [Next]_vars
    PROVE  CountersAccounted'
<1>1. req \in [Request -> Stage] /\ req' \in [Request -> Stage]
      /\ records \in Seq(AuditRecord)
      /\ metrics \in Metrics /\ metrics' \in Metrics
      /\ alerts \in [AlertId -> Alert \cup {NoAlert}]
  BY DEF TInv, TypeOK
<1>2. IsFiniteSet(Known) /\ metrics.alerts_created_total = Cardinality(Known)
      /\ Cardinality(Known) \in Nat
  BY FS_CardinalityType DEF CountersAccounted
<1>3. CASE UNCHANGED vars
  BY <1>3 DEF vars, appVars, CountersAccounted, Logs, Waits, Known, Exists
<1>4. ASSUME NEW r \in Request,
             Arrive(r) \/ Advance(r) \/ ClientDisconnects(r)
      PROVE  CountersAccounted'
  <2>. DEFINE q == req[r]
              s == req'[r]
  <2>1. q \in Stage /\ s \in Stage
    BY <1>1
  <2>2. req' = [req EXCEPT ![r] = s]
    <3>1. \A x \in Request \ {r} : req'[x] = req[x]
      BY <1>1, <1>4 DEF Arrive, Advance, InsertAlert, Reject, WriteDecision,
           LookUpAlert, LogAlertCreated, LogRulesTriggered, LogDecision,
           LogStatus, Flag, LogContextSent, AdvisorAnswers, LogReceived,
           StoreRecommendation, ClientDisconnects, Goto
    <3>. QED BY <1>1, <3>1
  <2>3. /\ q \in CreationDue <=> q.pc = "log_created"
        /\ q \in CountingDue <=> q.pc \in {"log_status", "flag"}
        /\ q \in AnswerDue <=> q.pc = "log_received"
        /\ q \in FallbackDue
             <=> q.pc = "log_received" /\ ~q.advice.model_available
        /\ s \in CreationDue <=> s.pc = "log_created"
        /\ s \in CountingDue <=> s.pc \in {"log_status", "flag"}
        /\ s \in AnswerDue <=> s.pc = "log_received"
        /\ s \in FallbackDue
             <=> s.pc = "log_received" /\ ~s.advice.model_available
    BY <2>1, DueAt
  <2>4. metrics.alerts_created_total \in Nat
        /\ metrics.investigator_decisions_total \in Nat
        /\ metrics.ai_recommendations_total \in Nat
        /\ metrics.ai_fallback_total \in Nat
    BY <1>1 DEF Metrics
  <2>5. ASSUME UNCHANGED alerts
        PROVE  Known' = Known
    BY <2>5 DEF Known, Exists
  \* An append that moves no counter.
  <2>6. ASSUME NEW e \in AuditEventKind, NEW a \in AlertId, append(a, e),
               UNCHANGED appVars,
               One(q \in CreationDue) = One(s \in CreationDue)
                                          + One(e \in CreationEvents),
               One(q \in CountingDue) + One(e \in VerdictEvents)
                 = One(s \in CountingDue),
               One(q \in AnswerDue) = One(s \in AnswerDue)
                                        + One(e \in AnswerEvents),
               One(q \in FallbackDue) = One(s \in FallbackDue)
                                          + One(e \in FallbackEvents)
        PROVE  CountersAccounted'
    <3>1. Known' = Known /\ metrics' = metrics
      BY <2>5, <2>6 DEF appVars
    <3>2. /\ One(TRUE /\ e \in CreationEvents) = One(e \in CreationEvents)
          /\ One(TRUE /\ e \in VerdictEvents) = One(e \in VerdictEvents)
          /\ One(TRUE /\ e \in AnswerEvents) = One(e \in AnswerEvents)
          /\ One(TRUE /\ e \in FallbackEvents) = One(e \in FallbackEvents)
      BY DEF One
    <3>3. \A b : One(b) \in {0, 1}
      BY DEF One
    <3>. HIDE DEF q, s
    <3>4. /\ metrics'.alerts_created_total + One(q \in CreationDue)
               = metrics.alerts_created_total + One(s \in CreationDue)
                   + One(TRUE /\ e \in CreationEvents)
          /\ metrics.investigator_decisions_total + One(q \in CountingDue)
               + One(TRUE /\ e \in VerdictEvents)
               = metrics'.investigator_decisions_total + One(s \in CountingDue)
          /\ metrics'.ai_recommendations_total + One(q \in AnswerDue)
               = metrics.ai_recommendations_total + One(s \in AnswerDue)
                   + One(TRUE /\ e \in AnswerEvents)
          /\ metrics'.ai_fallback_total + One(q \in FallbackDue)
               = metrics.ai_fallback_total + One(s \in FallbackDue)
                   + One(TRUE /\ e \in FallbackEvents)
      BY <2>4, <2>6, <3>1, <3>2, <3>3
    <3>5. IF TRUE THEN e \in AuditEventKind /\ \E b \in AlertId : append(b, e)
          ELSE UNCHANGED records
      BY <2>6
    <3>6. IsFiniteSet(Known')
          /\ metrics'.alerts_created_total = Cardinality(Known')
      BY <1>2, <3>1
    <3>. QED BY <1>1, <2>2, <3>4, <3>5, <3>6, CountersMove DEF q
  \* A step that appends nothing.
  <2>7. ASSUME UNCHANGED records, IsFiniteSet(Known'),
               metrics'.alerts_created_total = Cardinality(Known'),
               metrics'.alerts_created_total + One(q \in CreationDue)
                 = metrics.alerts_created_total + One(s \in CreationDue),
               metrics.investigator_decisions_total + One(q \in CountingDue)
                 = metrics'.investigator_decisions_total
                     + One(s \in CountingDue),
               metrics'.ai_recommendations_total + One(q \in AnswerDue)
                 = metrics.ai_recommendations_total + One(s \in AnswerDue),
               metrics'.ai_fallback_total + One(q \in FallbackDue)
                 = metrics.ai_fallback_total + One(s \in FallbackDue)
        PROVE  CountersAccounted'
    <3>. DEFINE e == RulesTriggered
    <3>. HIDE DEF q, s, e
    <3>1. /\ One(FALSE /\ e \in CreationEvents) = 0
          /\ One(FALSE /\ e \in VerdictEvents) = 0
          /\ One(FALSE /\ e \in AnswerEvents) = 0
          /\ One(FALSE /\ e \in FallbackEvents) = 0
          /\ \A b : One(b) \in {0, 1}
      BY DEF One
    <3>2. metrics'.alerts_created_total \in Nat
          /\ metrics'.investigator_decisions_total \in Nat
          /\ metrics'.ai_recommendations_total \in Nat
          /\ metrics'.ai_fallback_total \in Nat
      BY <1>1 DEF Metrics
    <3>3. /\ metrics'.alerts_created_total + One(q \in CreationDue)
               = metrics.alerts_created_total + One(s \in CreationDue)
                   + One(FALSE /\ e \in CreationEvents)
          /\ metrics.investigator_decisions_total + One(q \in CountingDue)
               + One(FALSE /\ e \in VerdictEvents)
               = metrics'.investigator_decisions_total + One(s \in CountingDue)
          /\ metrics'.ai_recommendations_total + One(q \in AnswerDue)
               = metrics.ai_recommendations_total + One(s \in AnswerDue)
                   + One(FALSE /\ e \in AnswerEvents)
          /\ metrics'.ai_fallback_total + One(q \in FallbackDue)
               = metrics.ai_fallback_total + One(s \in FallbackDue)
                   + One(FALSE /\ e \in FallbackEvents)
      BY <2>4, <2>7, <3>1, <3>2
    <3>4. IF FALSE THEN e \in AuditEventKind /\ \E b \in AlertId : append(b, e)
          ELSE UNCHANGED records
      BY <2>7
    <3>. QED BY <1>1, <2>2, <2>7, <3>3, <3>4, CountersMove DEF q
  <2>8. CASE LogAlertCreated(r)
    <3>. DEFINE e == AlertCreated(req[r].anomaly_score)
    <3>1. q \in Creating /\ q.pc = "log_created" /\ s.pc = "log_rules"
      BY <1>1, <2>1, <2>8, StageOfLabel DEF LogAlertCreated, At, Goto, Creating
    <3>2. e \in AuditEventKind /\ e.event_type = "alert_created"
      BY <3>1, EventsAreEvents DEF Creating, AlertCreated
    <3>3. q.alert_id \in AlertId /\ append(q.alert_id, e) /\ UNCHANGED appVars
      BY <2>8, <3>1 DEF LogAlertCreated, Creating
    <3>4. /\ e \in CreationEvents <=> e.event_type = "alert_created"
          /\ e \in VerdictEvents <=> e.event_type = "investigator_decision"
          /\ e \in AnswerEvents
                <=> e.event_type = "ai_recommendation_received"
          /\ e \in FallbackEvents
                <=> e.event_type = "ai_recommendation_received"
                      /\ ~e.model_available
      BY <3>2, KindOfEvent
    <3>. HIDE DEF q, s, e
    <3>. QED BY <2>3, <2>6, <3>1, <3>2, <3>3, <3>4 DEF One
  <2>9. CASE LogRulesTriggered(r)
    <3>. DEFINE e == RulesTriggered
    <3>1. q \in Creating /\ q.pc = "log_rules" /\ s.pc = "created"
      BY <1>1, <2>1, <2>9, StageOfLabel
         DEF LogRulesTriggered, At, Goto, Creating
    <3>2. e \in AuditEventKind /\ e.event_type = "rules_triggered"
      BY <3>1, EventsAreEvents DEF Creating, RulesTriggered
    <3>3. q.alert_id \in AlertId /\ append(q.alert_id, e) /\ UNCHANGED appVars
      BY <2>9, <3>1 DEF LogRulesTriggered, Creating
    <3>4. /\ e \in CreationEvents <=> e.event_type = "alert_created"
          /\ e \in VerdictEvents <=> e.event_type = "investigator_decision"
          /\ e \in AnswerEvents
                <=> e.event_type = "ai_recommendation_received"
          /\ e \in FallbackEvents
                <=> e.event_type = "ai_recommendation_received"
                      /\ ~e.model_available
      BY <3>2, KindOfEvent
    <3>. HIDE DEF q, s, e
    <3>. QED BY <2>3, <2>6, <3>1, <3>2, <3>3, <3>4 DEF One
  <2>10. CASE LogDecision(r)
    <3>. DEFINE e == InvestigatorDecision(req[r].who, req[r].decision)
    <3>1. q \in Deciding /\ q.pc = "log_decision" /\ s.pc = "log_status"
      BY <1>1, <2>1, <2>10, StageOfLabel DEF LogDecision, At, Goto, Deciding
    <3>2. e \in AuditEventKind /\ e.event_type = "investigator_decision"
      BY <3>1, EventsAreEvents DEF Deciding, InvestigatorDecision
    <3>3. q.alert_id \in AlertId /\ append(q.alert_id, e) /\ UNCHANGED appVars
      BY <2>10, <3>1 DEF LogDecision, Deciding
    <3>4. /\ e \in CreationEvents <=> e.event_type = "alert_created"
          /\ e \in VerdictEvents <=> e.event_type = "investigator_decision"
          /\ e \in AnswerEvents
                <=> e.event_type = "ai_recommendation_received"
          /\ e \in FallbackEvents
                <=> e.event_type = "ai_recommendation_received"
                      /\ ~e.model_available
      BY <3>2, KindOfEvent
    <3>. HIDE DEF q, s, e
    <3>. QED BY <2>3, <2>6, <3>1, <3>2, <3>3, <3>4 DEF One
  <2>11. CASE LogStatus(r)
    <3>. DEFINE e == StatusChanged(req[r].from, req[r].decision)
    <3>1. q \in Deciding /\ q.pc = "log_status" /\ s.pc = "flag"
      BY <1>1, <2>1, <2>11, StageOfLabel DEF LogStatus, At, Goto, Deciding
    <3>2. e \in AuditEventKind /\ e.event_type = "status_changed"
      BY <3>1, EventsAreEvents DEF Deciding, StatusChanged
    <3>3. q.alert_id \in AlertId /\ append(q.alert_id, e) /\ UNCHANGED appVars
      BY <2>11, <3>1 DEF LogStatus, Deciding
    <3>4. /\ e \in CreationEvents <=> e.event_type = "alert_created"
          /\ e \in VerdictEvents <=> e.event_type = "investigator_decision"
          /\ e \in AnswerEvents
                <=> e.event_type = "ai_recommendation_received"
          /\ e \in FallbackEvents
                <=> e.event_type = "ai_recommendation_received"
                      /\ ~e.model_available
      BY <3>2, KindOfEvent
    <3>. HIDE DEF q, s, e
    <3>. QED BY <2>3, <2>6, <3>1, <3>2, <3>3, <3>4 DEF One
  <2>12. CASE LogContextSent(r)
    <3>. DEFINE e == AiContextSent
    <3>1. q \in Advising /\ q.pc = "log_sent" /\ s.pc = "investigate"
      BY <1>1, <2>1, <2>12, StageOfLabel DEF LogContextSent, At, Goto, Advising
    <3>2. e \in AuditEventKind /\ e.event_type = "ai_context_sent"
      BY <3>1, EventsAreEvents DEF Advising, AiContextSent
    <3>3. q.alert_id \in AlertId /\ append(q.alert_id, e) /\ UNCHANGED appVars
      BY <2>12, <3>1 DEF LogContextSent, Advising
    <3>4. /\ e \in CreationEvents <=> e.event_type = "alert_created"
          /\ e \in VerdictEvents <=> e.event_type = "investigator_decision"
          /\ e \in AnswerEvents
                <=> e.event_type = "ai_recommendation_received"
          /\ e \in FallbackEvents
                <=> e.event_type = "ai_recommendation_received"
                      /\ ~e.model_available
      BY <3>2, KindOfEvent
    <3>. HIDE DEF q, s, e
    <3>. QED BY <2>3, <2>6, <3>1, <3>2, <3>3, <3>4 DEF One
  <2>13. CASE LogReceived(r)
    <3>. DEFINE e == AiRecommendationReceived(req[r].advice)
    <3>1. q \in Advising /\ q.pc = "log_received" /\ s.pc = "store"
      BY <1>1, <2>1, <2>13, StageOfLabel DEF LogReceived, At, Goto, Advising
    <3>2. e \in AuditEventKind /\ e.event_type = "ai_recommendation_received"
      BY <3>1, EventsAreEvents DEF Advising, AiRecommendationReceived
    <3>3. q.alert_id \in AlertId /\ append(q.alert_id, e) /\ UNCHANGED appVars
      BY <2>13, <3>1 DEF LogReceived, Advising
    <3>4. /\ e \in CreationEvents <=> e.event_type = "alert_created"
          /\ e \in VerdictEvents <=> e.event_type = "investigator_decision"
          /\ e \in AnswerEvents
                <=> e.event_type = "ai_recommendation_received"
          /\ e \in FallbackEvents
                <=> e.event_type = "ai_recommendation_received"
                      /\ ~e.model_available
      BY <3>2, KindOfEvent
    <3>5. e.model_available = q.advice.model_available
      BY DEF AiRecommendationReceived
    <3>. HIDE DEF q, s, e
    <3>. QED BY <2>3, <2>6, <3>1, <3>2, <3>3, <3>4, <3>5 DEF One
  <2>14. ASSUME UNCHANGED <<records, alerts, metrics>>,
                q.pc \notin {"log_created", "log_status", "flag",
                             "log_received"},
                s.pc \notin {"log_created", "log_status", "flag",
                             "log_received"}
         PROVE  CountersAccounted'
    <3>1. Known' = Known
      BY <2>5, <2>14
    <3>. HIDE DEF q, s
    <3>. QED BY <1>2, <2>3, <2>4, <2>7, <2>14, <3>1 DEF One
  <2>15. CASE StoreRecommendation(r) \/ ClientDisconnects(r)
    <3>1. q.pc \in {"store", "investigate"} /\ s.pc \in {"advised", "dropped"}
      BY <1>1, <2>1, <2>15, StageOfLabel
         DEF StoreRecommendation, ClientDisconnects, At, Goto, Advising
    <3>2. UNCHANGED <<records, alerts, metrics>>
      BY <2>15 DEF StoreRecommendation, ClientDisconnects, appVars
    <3>. QED BY <2>14, <3>1, <3>2
  <2>16. CASE Flag(r)
    <3>1. q.pc = "flag" /\ s.pc = "decided"
      BY <1>1, <2>1, <2>16, StageOfLabel DEF Flag, At, Goto, Deciding
    <3>2. UNCHANGED <<records, alerts>>
          /\ metrics' = [metrics EXCEPT !.investigator_decisions_total = @ + 1]
      BY <2>16 DEF Flag
    <3>3. /\ metrics'.alerts_created_total = metrics.alerts_created_total
          /\ metrics'.investigator_decisions_total
               = metrics.investigator_decisions_total + 1
          /\ metrics'.ai_recommendations_total
               = metrics.ai_recommendations_total
          /\ metrics'.ai_fallback_total = metrics.ai_fallback_total
      BY <1>1, <3>2 DEF Metrics
    <3>4. Known' = Known
      BY <2>5, <3>2
    <3>. HIDE DEF q, s
    <3>. QED BY <1>2, <2>3, <2>4, <2>7, <3>1, <3>2, <3>3, <3>4 DEF One
  <2>17. ASSUME NEW b \in Advice, AdvisorAnswers(r, b)
         PROVE  CountersAccounted'
    <3>1. q.pc = "investigate" /\ s.pc = "log_received"
          /\ s.advice = b
      BY <1>1, <2>1, <2>17, StageOfLabel DEF AdvisorAnswers, At, Advising
    <3>2. UNCHANGED <<records, alerts>>
          /\ metrics' = [metrics EXCEPT
                           !.ai_recommendations_total = @ + 1,
                           !.ai_fallback_total =
                              IF b.model_available THEN @ ELSE @ + 1]
      BY <2>17 DEF AdvisorAnswers
    <3>3. /\ metrics'.alerts_created_total = metrics.alerts_created_total
          /\ metrics'.investigator_decisions_total
               = metrics.investigator_decisions_total
          /\ metrics'.ai_recommendations_total
               = metrics.ai_recommendations_total + 1
          /\ metrics'.ai_fallback_total
               = metrics.ai_fallback_total + (IF b.model_available THEN 0 ELSE 1)
      BY <1>1, <2>4, <3>2 DEF Metrics
    <3>4. Known' = Known
      BY <2>5, <3>2
    <3>. HIDE DEF q, s
    <3>. QED BY <1>2, <2>3, <2>4, <2>7, <3>1, <3>2, <3>3, <3>4 DEF One
  <2>18. ASSUME NEW a \in AlertId, NEW src \in AccountId,
                NEW dst \in AccountId \cup {NoAccount}, NEW score \in Score,
                InsertAlert(r, a, src, dst, score)
         PROVE  CountersAccounted'
    <3>1. q.pc = "idle" /\ s.pc = "log_created"
      BY <1>1, <2>18 DEF InsertAlert, At
    <3>2. UNCHANGED records
          /\ metrics' = [metrics EXCEPT !.alerts_created_total = @ + 1]
      BY <2>18 DEF InsertAlert
    <3>3. /\ metrics'.alerts_created_total = metrics.alerts_created_total + 1
          /\ metrics'.investigator_decisions_total
               = metrics.investigator_decisions_total
          /\ metrics'.ai_recommendations_total
               = metrics.ai_recommendations_total
          /\ metrics'.ai_fallback_total = metrics.ai_fallback_total
      BY <1>1, <3>2 DEF Metrics
    <3>4. Known' = Known \cup {a} /\ a \notin Known
      BY <1>1, <2>18 DEF InsertAlert, Known, Exists, NoAlert
    <3>5. IsFiniteSet(Known') /\ Cardinality(Known') = Cardinality(Known) + 1
      BY <1>2, <3>4, AddOne
    <3>. HIDE DEF q, s
    <3>. QED BY <1>2, <2>3, <2>4, <2>7, <3>1, <3>2, <3>3, <3>5 DEF One
  <2>19. ASSUME NEW who \in InvestigatorId, NEW a \in AlertId,
                NEW decision \in Decision, WriteDecision(r, who, a, decision)
         PROVE  CountersAccounted'
    <3>1. q.pc = "idle" /\ s.pc = "log_decision"
      BY <1>1, <2>19 DEF WriteDecision, At
    <3>2. UNCHANGED <<records, metrics>>
      BY <2>19 DEF WriteDecision
    <3>3. Exists(a) /\ alerts' = [alerts EXCEPT ![a].status = decision]
          /\ decision # "none"
      BY <2>19, DecisionAssumption DEF WriteDecision, InvestigationStatus
    <3>4. Exists(a)'
      BY <1>1, <3>3 DEF Exists, NoAlert, Alert
    <3>5. Known' = Known
      BY <1>1, <3>3, <3>4 DEF Known, Exists
    <3>. HIDE DEF q, s
    <3>. QED BY <1>2, <2>3, <2>4, <2>7, <3>1, <3>2, <3>5 DEF One
  <2>20. CASE Reject(r) \/ \E a \in AlertId : LookUpAlert(r, a)
    <3>1. q.pc = "idle" /\ s.pc \in {"rejected", "log_sent"}
      BY <1>1, <2>20 DEF Reject, LookUpAlert, At, Rejected
    <3>2. UNCHANGED <<records, alerts, metrics>>
      BY <2>20 DEF Reject, LookUpAlert, appVars
    <3>. QED BY <2>14, <3>1, <3>2
  <2>. HIDE DEF q, s
  <2>21. CASE Arrive(r)
    BY <2>18, <2>19, <2>20, <2>21 DEF Arrive
  <2>22. CASE Advance(r) \/ ClientDisconnects(r)
    BY <2>8, <2>9, <2>10, <2>11, <2>12, <2>13, <2>15, <2>16, <2>17, <2>22
       DEF Advance
  <2>. QED BY <1>4, <2>21, <2>22
<1>. QED BY <1>3, <1>4 DEF Next

\* With no request in flight, the counters of GET /metrics agree with the
\* alert map and with the audit log, for any number of requests: what is
\* counted and not yet recorded, or recorded and not yet counted, is owed by a
\* request that is still moving.
THEOREM CountersAreRight == Spec => []MetricsMatchAudit
<1>1. Init => CountersAccounted
  <2> SUFFICES ASSUME Init PROVE CountersAccounted
    OBVIOUS
  <2>1. Waits(CreationDue) = {} /\ Waits(CountingDue) = {}
        /\ Waits(AnswerDue) = {} /\ Waits(FallbackDue) = {}
    BY DEF Init, Idle, Waits, CreationDue, CountingDue, AnswerDue,
           FallbackDue, Creating, Deciding, Advising
  <2>2. Known = {}
    BY DEF Init, Known, Exists
  <2>3. \A E : Logs(E) = {}
    BY DEF Init, AuditInit, Logs
  <2>4. metrics = NoMetrics
    BY DEF Init
  <2>. QED BY <2>1, <2>2, <2>3, <2>4, FS_EmptySet
           DEF CountersAccounted, NoMetrics
<1>2. TInv /\ TInv' /\ CountersAccounted /\ [Next]_vars => CountersAccounted'
  BY CountersStay
<1>3. TInv /\ CountersAccounted => MetricsMatchAudit
  <2> SUFFICES ASSUME TInv, CountersAccounted, Quiescent
               PROVE  MetricsMatchAudit
    BY DEF MetricsMatchAudit
  <2>1. \A r \in Request :
          req[r].pc \notin {"log_created", "log_status", "flag", "log_received"}
    BY DEF Quiescent, At, Finished
  <2>2. Waits(CreationDue) = {} /\ Waits(CountingDue) = {}
        /\ Waits(AnswerDue) = {} /\ Waits(FallbackDue) = {}
    BY <2>1 DEF Waits, CreationDue, CountingDue, AnswerDue, FallbackDue
  <2>3. \A i \in DOMAIN records : records[i].event \in AuditEventKind
    <3>1. \A i \in DOMAIN records : records[i] \in AuditRecord
      BY DEF TInv, TypeOK
    <3>. QED BY <3>1 DEF AuditRecord
  <2>4. OfType("alert_created") = Logs(CreationEvents)
    BY <2>3, KindOfEvent DEF OfType, Logs
  <2>5. OfType("investigator_decision") = Logs(VerdictEvents)
    BY <2>3, KindOfEvent DEF OfType, Logs
  <2>6. OfType("ai_recommendation_received") = Logs(AnswerEvents)
    BY <2>3, KindOfEvent DEF OfType, Logs
  <2>7. {i \in OfType("ai_recommendation_received") :
            ~records[i].event.model_available} = Logs(FallbackEvents)
    BY <2>3, KindOfEvent DEF OfType, Logs
  <2>8. \A E : Cardinality(Logs(E)) \in Nat
    BY LogsFinite DEF TInv, TypeOK
  <2>9. metrics.investigator_decisions_total \in Nat
    BY DEF TInv, TypeOK, Metrics
  <2>10. Cardinality({}) = 0
    BY FS_EmptySet
  <2>11. /\ metrics.alerts_created_total = Cardinality(Known)
         /\ metrics.alerts_created_total = Cardinality(Logs(CreationEvents))
         /\ metrics.investigator_decisions_total
              = Cardinality(Logs(VerdictEvents))
         /\ metrics.ai_recommendations_total = Cardinality(Logs(AnswerEvents))
         /\ metrics.ai_fallback_total = Cardinality(Logs(FallbackEvents))
    BY <2>2, <2>8, <2>9, <2>10 DEF CountersAccounted
  <2>. QED BY <2>4, <2>5, <2>6, <2>7, <2>11 DEF MetricsMatchAudit, Known
<1>. QED BY <1>1, <1>2, <1>3, TypeInvariant, PTL DEF Spec

-----------------------------------------------------------------------------
(* The handlers, as far as the snapshots depend on them.  After a crash a  *)
(* request may have been answered for an alert that is gone, so the        *)
(* invariant of the handlers alone (TInv) is not one here.                 *)

CoreType ==
    /\ records \in Seq(AuditRecord)
    /\ alerts \in [AlertId -> Alert \cup {NoAlert}]
    /\ req \in [Request -> Stage]

\* A step of a task that has arrived goes to another label of its handler.
LEMMA GotoType ==
    ASSUME CoreType, NEW r \in Request, NEW label, Goto(r, label),
           \/ req[r] \in Creating /\ label \in {"log_rules", "created"}
           \/ req[r] \in Deciding /\ label \in {"log_status", "flag", "decided"}
           \/ req[r] \in Advising
                /\ label \in {"investigate", "store", "advised", "dropped"}
    PROVE  req' \in [Request -> Stage]
<1>1. [req[r] EXCEPT !.pc = label] \in Stage
  BY DEF Stage, Creating, Deciding, Advising
<1>2. req' = [req EXCEPT ![r] = [req[r] EXCEPT !.pc = label]]
  BY DEF Goto
<1>. QED BY <1>1, <1>2 DEF CoreType

\* A handler's step keeps these types, and leaves the log alone or appends
\* one record to it.
LEMMA HandlerStep ==
    ASSUME CoreType, Next
    PROVE  /\ alerts' \in [AlertId -> Alert \cup {NoAlert}]
           /\ req' \in [Request -> Stage]
           /\ \/ UNCHANGED records
              \/ \E a \in AlertId, e \in AuditEventKind : append(a, e)
<1>. DEFINE Goal ==
       /\ alerts' \in [AlertId -> Alert \cup {NoAlert}]
       /\ req' \in [Request -> Stage]
       /\ \/ UNCHANGED records
          \/ \E a \in AlertId, e \in AuditEventKind : append(a, e)
<1>. USE DEF CoreType
<1>1. ASSUME NEW r \in Request, Arrive(r)
      PROVE  Goal
  <2>1. ASSUME NEW a \in AlertId, NEW src \in AccountId,
               NEW dst \in AccountId \cup {NoAccount}, NEW score \in Score,
               InsertAlert(r, a, src, dst, score)
        PROVE  Goal
    <3>. DEFINE s == [pc |-> "log_created", alert_id |-> a,
                      anomaly_score |-> score]
                new == [status |-> "open", source_account |-> src,
                        destination_account |-> dst]
    <3>1. s \in Stage /\ new \in Alert
      BY DEF Stage, Creating, Alert, InvestigationStatus
    <3>2. alerts' = [alerts EXCEPT ![a] = new]
          /\ req' = [req EXCEPT ![r] = s] /\ UNCHANGED records
      BY <2>1 DEF InsertAlert
    <3>. HIDE DEF s, new
    <3>. QED BY <3>1, <3>2
  <2>2. CASE Reject(r)
    BY <2>2 DEF Reject, Stage, appVars
  <2>3. ASSUME NEW who \in InvestigatorId, NEW a \in AlertId,
               NEW d \in Decision, WriteDecision(r, who, a, d)
        PROVE  Goal
    <3>. DEFINE s == [pc |-> "log_decision", alert_id |-> a, who |-> who,
                      from |-> alerts[a].status, decision |-> d]
                new == [alerts[a] EXCEPT !.status = d]
    <3>1. alerts[a] \in Alert /\ d \in InvestigationStatus
      BY <2>3, DecisionAssumption DEF WriteDecision, Exists
    <3>2. s \in Stage /\ new \in Alert
      BY <3>1 DEF Stage, Deciding, Alert
    <3>3. alerts' = [alerts EXCEPT ![a] = new]
          /\ req' = [req EXCEPT ![r] = s] /\ UNCHANGED records
      BY <2>3 DEF WriteDecision
    <3>. HIDE DEF s, new
    <3>. QED BY <3>2, <3>3
  <2>4. ASSUME NEW a \in AlertId, LookUpAlert(r, a)
        PROVE  Goal
    BY <2>4, FallbackIsAdvice DEF LookUpAlert, Stage, Advising, appVars
  <2>. QED BY <1>1, <2>1, <2>2, <2>3, <2>4 DEF Arrive
<1>2. ASSUME NEW r \in Request, Advance(r) \/ ClientDisconnects(r)
      PROVE  Goal
  <2>. USE StageOfLabel, EventsAreEvents DEF At
  <2>1. CASE LogAlertCreated(r)
    <3>1. req[r] \in Creating
      BY <2>1 DEF LogAlertCreated
    <3>2. req' \in [Request -> Stage]
      BY <2>1, <3>1, GotoType DEF LogAlertCreated
    <3>. QED BY <2>1, <3>1, <3>2 DEF LogAlertCreated, Creating, appVars
  <2>2. CASE LogRulesTriggered(r)
    <3>1. req[r] \in Creating
      BY <2>2 DEF LogRulesTriggered
    <3>2. req' \in [Request -> Stage]
      BY <2>2, <3>1, GotoType DEF LogRulesTriggered
    <3>. QED BY <2>2, <3>1, <3>2 DEF LogRulesTriggered, Creating, appVars
  <2>3. CASE LogDecision(r)
    <3>1. req[r] \in Deciding
      BY <2>3 DEF LogDecision
    <3>2. req' \in [Request -> Stage]
      BY <2>3, <3>1, GotoType DEF LogDecision
    <3>. QED BY <2>3, <3>1, <3>2 DEF LogDecision, Deciding, appVars
  <2>4. CASE LogStatus(r)
    <3>1. req[r] \in Deciding
      BY <2>4 DEF LogStatus
    <3>2. req' \in [Request -> Stage]
      BY <2>4, <3>1, GotoType DEF LogStatus
    <3>. QED BY <2>4, <3>1, <3>2 DEF LogStatus, Deciding, appVars
  <2>5. CASE Flag(r)
    <3>1. req[r] \in Deciding
      BY <2>5 DEF Flag
    <3>2. req' \in [Request -> Stage]
      BY <2>5, <3>1, GotoType DEF Flag
    <3>. QED BY <2>5, <3>2 DEF Flag
  <2>6. CASE LogContextSent(r)
    <3>1. req[r] \in Advising
      BY <2>6 DEF LogContextSent
    <3>2. req' \in [Request -> Stage]
      BY <2>6, <3>1, GotoType DEF LogContextSent
    <3>. QED BY <2>6, <3>1, <3>2 DEF LogContextSent, Advising, appVars
  <2>7. ASSUME NEW b \in Advice, AdvisorAnswers(r, b)
        PROVE  Goal
    <3>. DEFINE s == [req[r] EXCEPT !.pc = "log_received",
                                    !.advice = b]
    <3>1. req[r] \in Advising
      BY <2>7 DEF AdvisorAnswers
    <3>2. s \in Stage
      BY <3>1 DEF Advising, Stage
    <3>3. req' = [req EXCEPT ![r] = s] /\ UNCHANGED <<records, alerts>>
      BY <2>7 DEF AdvisorAnswers
    <3>. HIDE DEF s
    <3>. QED BY <3>2, <3>3
  <2>8. CASE LogReceived(r)
    <3>1. req[r] \in Advising
      BY <2>8 DEF LogReceived
    <3>2. req' \in [Request -> Stage]
      BY <2>8, <3>1, GotoType DEF LogReceived
    <3>. QED BY <2>8, <3>1, <3>2 DEF LogReceived, Advising, appVars
  <2>9. CASE StoreRecommendation(r)
    <3>1. req[r] \in Advising
      BY <2>9 DEF StoreRecommendation
    <3>2. req' \in [Request -> Stage]
      BY <2>9, <3>1, GotoType DEF StoreRecommendation
    <3>. QED BY <2>9, <3>2 DEF StoreRecommendation
  <2>10. CASE ClientDisconnects(r)
    <3>1. req[r] \in Advising
      BY <2>10 DEF ClientDisconnects
    <3>2. req' \in [Request -> Stage]
      BY <2>10, <3>1, GotoType DEF ClientDisconnects
    <3>. QED BY <2>10, <3>2 DEF ClientDisconnects, appVars
  <2>. QED BY <1>2, <2>1, <2>2, <2>3, <2>4, <2>5, <2>6, <2>7, <2>8, <2>9,
              <2>10 DEF Advance
<1>. QED BY <1>1, <1>2 DEF Next

-----------------------------------------------------------------------------
(* The types of the snapshot task and of its files *)

AlertMap == [AlertId -> Alert \cup {NoAlert}]

Copy == AlertMap \cup Seq(AuditRecord)

SnapshotTask ==
    [turn : {1, 2}, step : {"copy", "write", "rename"}, copy : Copy,
     answered : SUBSET Request, serving : SUBSET Request, ok : BOOLEAN]

File == {Absent} \cup [state : {"complete"}, data : Copy]

AuditOnDisk == disk["audit"].state = "complete"

\* The copy of the audit log is on its way to disk.
SavingAudit == snapshot.turn = 2 /\ snapshot.step # "copy"

PersistType ==
    /\ CoreType
    /\ up \in BOOLEAN
    /\ load_errors \in Nat
    /\ snapshot \in SnapshotTask
    /\ snapshot.turn = 1 /\ snapshot.step # "copy" => snapshot.copy \in AlertMap
    /\ SavingAudit => snapshot.copy \in Seq(AuditRecord)
    /\ disk \in [Store -> File]
    /\ disk["alerts"].state = "complete" => disk["alerts"].data \in AlertMap
    /\ AuditOnDisk => disk["audit"].data \in Seq(AuditRecord)

\* Between a crash and the next start nothing is in memory.
DownIsEmpty == ~up => records = << >> /\ snapshot = Sleeping

\* Every score and every confidence survives being printed and parsed.
NumbersRoundTrip == \A x \in Score \cup Confidence : Reparse[x] = x

\* Reading a log back changes nothing but the numbers in its events.
LEMMA ReparsedLog ==
    ASSUME NEW log \in Seq(AuditRecord)
    PROVE  /\ Reparsed(log) \in Seq(AuditRecord)
           /\ Len(Reparsed(log)) = Len(log)
           /\ \A i \in 1..Len(log) : Reparsed(log)[i].this_hash = log[i].this_hash
           /\ NumbersRoundTrip => Reparsed(log) = log
<1>1. ASSUME NEW e \in AuditEventKind
      PROVE  /\ ReparsedEvent(e) \in AuditEventKind
             /\ NumbersRoundTrip => ReparsedEvent(e) = e
  <2>1. CASE \E s \in Score : e = AlertCreated(s)
    <3>1. PICK s \in Score : e = AlertCreated(s)
      BY <2>1
    <3>2. ReparsedEvent(e) = AlertCreated(Reparse[s])
      BY <3>1 DEF ReparsedEvent, AlertCreated
    <3>3. Reparse[s] \in Score
      BY ReparseAssumption
    <3>4. NumbersRoundTrip => Reparse[s] = s
      BY DEF NumbersRoundTrip
    <3>. QED BY <3>1, <3>2, <3>3, <3>4, EventsAreEvents
  <2>2. CASE \E x \in Advice : e = AiRecommendationReceived(x)
    <3>1. PICK x \in Advice : e = AiRecommendationReceived(x)
      BY <2>2
    <3>2. x.confidence \in Confidence /\ x.model_available \in BOOLEAN
      BY DEF Advice
    <3>. DEFINE y == [confidence |-> Reparse[x.confidence],
                      model_available |-> x.model_available]
    <3>3. ReparsedEvent(e) = AiRecommendationReceived(y)
      BY <3>1 DEF ReparsedEvent, AiRecommendationReceived
    <3>4. y \in Advice
      BY <3>2, ReparseAssumption DEF Advice
    <3>5. NumbersRoundTrip => AiRecommendationReceived(y) = e
      BY <3>1, <3>2 DEF NumbersRoundTrip, AiRecommendationReceived
    <3>. HIDE DEF y
    <3>. QED BY <3>3, <3>4, <3>5, EventsAreEvents
  <2>3. CASE e.event_type \notin {"alert_created",
                                 "ai_recommendation_received"}
    BY <2>3 DEF ReparsedEvent
  <2>4. \/ e.event_type \notin {"alert_created", "ai_recommendation_received"}
        \/ \E s \in Score : e = AlertCreated(s)
        \/ \E x \in Advice : e = AiRecommendationReceived(x)
    BY DEF AuditEventKind, RulesTriggered, AiContextSent,
           InvestigatorDecision, StatusChanged
  <2>. QED BY <2>1, <2>2, <2>3, <2>4
<1>2. \A i \in 1..Len(log) : log[i] \in AuditRecord
  OBVIOUS
<1>3. ASSUME NEW i \in 1..Len(log)
      PROVE  LET rec == [log[i] EXCEPT !.event = ReparsedEvent(@)]
             IN  /\ rec \in AuditRecord
                 /\ rec.this_hash = log[i].this_hash
                 /\ NumbersRoundTrip => rec = log[i]
  <2>1. log[i] \in AuditRecord /\ log[i].event \in AuditEventKind
    BY <1>2 DEF AuditRecord
  <2>. DEFINE e == ReparsedEvent(log[i].event)
  <2>2. e \in AuditEventKind
        /\ (NumbersRoundTrip => e = log[i].event)
    BY <1>1, <2>1
  <2>. HIDE DEF e
  <2>3. /\ [log[i] EXCEPT !.event = e] \in AuditRecord
        /\ [log[i] EXCEPT !.event = e].this_hash = log[i].this_hash
        /\ e = log[i].event => [log[i] EXCEPT !.event = e] = log[i]
    BY <2>1, <2>2 DEF AuditRecord
  <2>. QED BY <2>2, <2>3 DEF e
<1>4. DOMAIN log = 1..Len(log)
      /\ Reparsed(log) = [i \in 1..Len(log) |->
                            [log[i] EXCEPT !.event = ReparsedEvent(@)]]
  BY DEF Reparsed
<1>5. Reparsed(log) \in Seq(AuditRecord) /\ Len(Reparsed(log)) = Len(log)
  BY <1>3, <1>4
<1>6. \A i \in 1..Len(log) : Reparsed(log)[i].this_hash = log[i].this_hash
  BY <1>3, <1>4
<1>7. NumbersRoundTrip => Reparsed(log) = log
  BY <1>3, <1>4
<1>. QED BY <1>5, <1>6, <1>7

PersistTypes == PersistType /\ DownIsEmpty

LEMMA PersistStart == PersistInit => PersistTypes
<1> SUFFICES ASSUME PersistInit PROVE PersistTypes
  OBVIOUS
<1>. USE DEF PersistInit, Init, AuditInit
<1>1. CoreType
  BY DEF CoreType, Stage
<1>2. snapshot \in SnapshotTask /\ snapshot.step = "copy" /\ up = TRUE
      /\ load_errors \in Nat
  BY DEF Sleeping, SnapshotTask, Copy, Nothing
<1>3. disk \in [Store -> File] /\ disk["alerts"] = Absent /\ disk["audit"] = Absent
  BY DEF Store, File
<1>4. Absent.state # "complete"
  BY DEF Absent
<1>. QED BY <1>1, <1>2, <1>3, <1>4
     DEF PersistTypes, PersistType, DownIsEmpty, SavingAudit, AuditOnDisk

\* Every step is one of the handlers', which the snapshots do not see, or
\* one of the snapshot task, a crash or a restart.
LEMMA PersistStepType == PersistTypes /\ [PersistNext]_allVars => PersistTypes'
<1> SUFFICES ASSUME PersistTypes, [PersistNext]_allVars PROVE PersistTypes'
  OBVIOUS
<1>. USE DEF PersistTypes, PersistType
<1>0. snapshot = [turn |-> snapshot.turn, step |-> snapshot.step,
                  copy |-> snapshot.copy, answered |-> snapshot.answered,
                  serving |-> snapshot.serving, ok |-> snapshot.ok]
      /\ snapshot.turn \in {1, 2} /\ snapshot.copy \in Copy
      /\ snapshot.answered \subseteq Request /\ snapshot.serving \subseteq Request
      /\ snapshot.ok \in BOOLEAN
      /\ snapshot.step \in {"copy", "write", "rename"}
  BY DEF SnapshotTask
<1>1. CASE Serve
  <2>1. up = TRUE /\ Next /\ UNCHANGED persistVars
    BY <1>1 DEF Serve
  <2>2. alerts' \in [AlertId -> Alert \cup {NoAlert}] /\ req' \in [Request -> Stage]
        /\ \/ UNCHANGED records
           \/ \E a \in AlertId, e \in AuditEventKind : append(a, e)
    BY <2>1, HandlerStep
  <2>3. records' \in Seq(AuditRecord)
    BY <2>2, NextRecordType DEF append, CoreType
  <2>. QED BY <2>1, <2>2, <2>3
       DEF CoreType, persistVars, historyVars, DownIsEmpty, SavingAudit,
           AuditOnDisk, Store
<1>2. CASE CopyStore
  <2>. DEFINE c == Contents(Order[snapshot.turn])
              first == snapshot.turn = 1
              an == IF first THEN Answered ELSE snapshot.answered
              se == IF first THEN Serving ELSE snapshot.serving
              ok == IF first THEN TRUE ELSE snapshot.ok
  <2>1. (snapshot.turn = 1 => c \in AlertMap)
        /\ (snapshot.turn = 2 => c \in Seq(AuditRecord)) /\ c \in Copy
    BY <1>0 DEF Contents, Order, Copy, AlertMap, CoreType
  <2>2. an \subseteq Request /\ se \subseteq Request /\ ok \in BOOLEAN
    BY <1>0 DEF Answered, Serving
  <2>3. snapshot' = [turn |-> snapshot.turn, step |-> "write", copy |-> c,
                     answered |-> an, serving |-> se, ok |-> ok]
        /\ up = TRUE
        /\ UNCHANGED <<vars, up, disk, historyVars>>
    BY <1>0, <1>2 DEF CopyStore
  <2>. HIDE DEF c, an, se, ok
  <2>4. snapshot' \in SnapshotTask /\ snapshot'.turn = snapshot.turn
        /\ snapshot'.copy = c
    BY <1>0, <2>1, <2>2, <2>3 DEF SnapshotTask
  <2>. QED BY <2>1, <2>3, <2>4
       DEF CoreType, vars, appVars, historyVars, DownIsEmpty, SavingAudit,
           AuditOnDisk
<1>3. CASE WriteTemporary
  <2>1. snapshot' = [snapshot EXCEPT !.step = "rename"] /\ up = TRUE
        /\ snapshot.step = "write" /\ UNCHANGED <<vars, up, disk, historyVars>>
    BY <1>3 DEF WriteTemporary
  <2>2. snapshot' \in SnapshotTask /\ snapshot'.turn = snapshot.turn
        /\ snapshot'.copy = snapshot.copy
    BY <1>0, <2>1 DEF SnapshotTask
  <2>. QED BY <2>1, <2>2
       DEF CoreType, vars, appVars, historyVars, DownIsEmpty, SavingAudit,
           AuditOnDisk
<1>4. ASSUME NEW b \in BOOLEAN, NextTurn(b)
      PROVE  snapshot' \in SnapshotTask /\ snapshot'.step = "copy"
  <2>1. snapshot' = [turn |-> 3 - snapshot.turn, step |-> "copy", copy |-> Nothing,
                     answered |-> snapshot.answered, serving |-> snapshot.serving,
                     ok |-> snapshot.ok /\ b]
    BY <1>0, <1>4 DEF NextTurn
  <2>2. 3 - snapshot.turn \in {1, 2} /\ Nothing \in Copy
        /\ (snapshot.ok /\ b) \in BOOLEAN
    BY <1>0 DEF Copy, Nothing
  <2>. QED BY <1>0, <2>1, <2>2 DEF SnapshotTask
<1>5. CASE Rename
  <2>. DEFINE s == Order[snapshot.turn]
  <2>1. /\ disk' = [disk EXCEPT ![s] = Complete(snapshot.copy)]
        /\ snapshot' \in SnapshotTask /\ snapshot'.step = "copy"
        /\ up = TRUE /\ snapshot.step # "copy"
        /\ UNCHANGED <<vars, up, load_errors>>
    <3>1. NextTurn(TRUE)
      BY <1>5 DEF Rename
    <3>2. snapshot' \in SnapshotTask /\ snapshot'.step = "copy"
      BY <1>4, <3>1
    <3>. QED BY <1>5, <3>2 DEF Rename
  <2>2. Complete(snapshot.copy) \in File
        /\ Complete(snapshot.copy).data = snapshot.copy
    BY <1>0 DEF Complete, File
  <2>3. (snapshot.turn = 1 /\ s = "alerts" /\ snapshot.copy \in AlertMap)
        \/ (snapshot.turn = 2 /\ s = "audit" /\ snapshot.copy \in Seq(AuditRecord))
    BY <1>0, <2>1 DEF Order, SavingAudit
  <2>4. disk' \in [Store -> File]
        /\ disk'[s] = Complete(snapshot.copy)
        /\ \A x \in Store \ {s} : disk'[x] = disk[x]
    <3>1. s \in Store
      BY <2>3 DEF Store
    <3>. HIDE DEF s
    <3>. QED BY <2>1, <2>2, <3>1
  <2>5. disk'["alerts"].state = "complete" => disk'["alerts"].data \in AlertMap
    BY <2>2, <2>3, <2>4 DEF Store
  <2>6. disk'["audit"].state = "complete"
          => disk'["audit"].data \in Seq(AuditRecord)
    BY <2>2, <2>3, <2>4 DEF Store, AuditOnDisk
  <2>. QED BY <2>1, <2>4, <2>5, <2>6
       DEF CoreType, vars, appVars, DownIsEmpty, SavingAudit, AuditOnDisk
<1>6. CASE SaveFails
  <2>1. /\ snapshot' \in SnapshotTask /\ snapshot'.step = "copy" /\ up = TRUE
        /\ UNCHANGED <<vars, up, disk, historyVars>>
    BY <1>4, <1>6 DEF SaveFails
  <2>. QED BY <2>1
       DEF CoreType, vars, appVars, historyVars, DownIsEmpty, SavingAudit,
           AuditOnDisk
<1>7. CASE Crash
  <2>1. /\ records' = << >> /\ alerts' = [a \in AlertId |-> NoAlert]
        /\ req' = [r \in Request |-> IF r \in Serving THEN Rejected ELSE req[r]]
        /\ snapshot' = Sleeping /\ up' = FALSE
        /\ UNCHANGED <<disk, load_errors>>
    BY <1>7 DEF Crash
  <2>2. CoreType'
    BY <2>1 DEF CoreType, Stage
  <2>3. snapshot' \in SnapshotTask /\ snapshot'.step = "copy"
    BY <2>1 DEF Sleeping, SnapshotTask, Copy, Nothing
  <2>. QED BY <2>1, <2>2, <2>3 DEF DownIsEmpty, SavingAudit, AuditOnDisk
<1>8. CASE Restart
  <2>1. PICK failed \in SUBSET {s \in Store : disk[s].state = "complete"} :
          LET Loads(s) == disk[s].state = "complete" /\ s \notin failed
          IN  /\ load_errors' = load_errors + Cardinality(failed)
              /\ alerts' = IF Loads("alerts")
                           THEN disk["alerts"].data ELSE alerts
              /\ records' = IF Loads("audit")
                            THEN Reparsed(disk["audit"].data) ELSE records
    BY <1>8, Zenon DEF Restart
  <2>2. up' = TRUE /\ UNCHANGED <<req, disk, snapshot>> /\ ~up
    BY <1>8 DEF Restart
  <2>3. load_errors' \in Nat
    <3>1. IsFiniteSet(Store)
      <4>1. IsFiniteSet({"alerts"}) /\ IsFiniteSet({"audit"})
        BY FS_Singleton
      <4>2. Store = {"alerts"} \cup {"audit"}
        BY DEF Store
      <4>. QED BY <4>1, <4>2, FS_Union
    <3>2. IsFiniteSet(failed)
      BY <3>1, FS_Subset
    <3>. QED BY <2>1, <3>2, FS_CardinalityType
  <2>4. alerts' \in AlertMap /\ records' \in Seq(AuditRecord)
    BY <2>1, ReparsedLog DEF CoreType, AlertMap, AuditOnDisk
  <2>. QED BY <2>2, <2>3, <2>4
       DEF CoreType, AlertMap, DownIsEmpty, SavingAudit, AuditOnDisk
<1>9. CASE UNCHANGED allVars
  BY <1>9 DEF allVars, vars, appVars, persistVars, historyVars, CoreType,
              DownIsEmpty, SavingAudit, AuditOnDisk
<1>. QED BY <1>1, <1>2, <1>3, <1>5, <1>6, <1>7, <1>8, <1>9 DEF PersistNext

LEMMA PersistTyped == PersistSpec => []PersistTypes
BY PersistStart, PersistStepType, PTL DEF PersistSpec

-----------------------------------------------------------------------------
(* What a step means for the audit log in memory, its copy and its file *)

SameFile == disk'["audit"] = disk["audit"]

\* Nothing, or a record appended; a copy under way stays what it is.
LogGrows ==
    /\ UNCHANGED records \/ \E a \in AlertId, e \in AuditEventKind : append(a, e)
    /\ SavingAudit' => SavingAudit /\ snapshot'.copy = snapshot.copy
    /\ SameFile /\ UNCHANGED <<up, load_errors>>

LogCopied ==
    /\ up /\ up' /\ SavingAudit' /\ snapshot'.copy = records
    /\ SameFile /\ UNCHANGED <<records, load_errors>>

LogSaved ==
    /\ up /\ up' /\ SavingAudit /\ ~SavingAudit'
    /\ disk'["audit"] = Complete(snapshot.copy)
    /\ UNCHANGED <<records, load_errors>>

LogLost ==
    /\ ~up' /\ ~SavingAudit'
    /\ records' = << >>
    /\ SameFile /\ UNCHANGED load_errors

LogRestored ==
    /\ ~up /\ up' /\ ~SavingAudit'
    /\ records = << >>
    /\ \/ AuditOnDisk /\ records' = Reparsed(disk["audit"].data)
       \/ UNCHANGED records /\ (AuditOnDisk => load_errors' # 0)
    /\ SameFile /\ (load_errors' = 0 => load_errors = 0)

LEMMA LogSteps ==
    ASSUME PersistTypes, [PersistNext]_allVars
    PROVE  LogGrows \/ LogCopied \/ LogSaved \/ LogLost \/ LogRestored
<1>. USE DEF PersistTypes, PersistType
<1>0. snapshot.turn \in {1, 2} /\ DOMAIN snapshot =
        {"turn", "step", "copy", "answered", "serving", "ok"}
  BY DEF SnapshotTask
<1>1. CASE Serve
  <2>1. UNCHANGED records \/ \E a \in AlertId, e \in AuditEventKind : append(a, e)
    BY <1>1, HandlerStep DEF Serve
  <2>. QED BY <1>1, <2>1
       DEF Serve, LogGrows, SavingAudit, SameFile, persistVars, historyVars
<1>2. CASE CopyStore
  <2>1. /\ snapshot'.turn = snapshot.turn /\ snapshot'.step = "write"
        /\ snapshot'.copy = Contents(Order[snapshot.turn])
        /\ up /\ UNCHANGED <<records, up, disk, load_errors>>
    BY <1>0, <1>2 DEF CopyStore, vars, historyVars
  <2>2. CASE snapshot.turn = 1
    BY <2>1, <2>2 DEF LogGrows, SavingAudit, SameFile
  <2>3. CASE snapshot.turn = 2
    BY <2>1, <2>3 DEF LogCopied, SavingAudit, SameFile, Contents, Order
  <2>. QED BY <1>0, <2>2, <2>3
<1>3. CASE WriteTemporary
  <2>1. /\ snapshot'.turn = snapshot.turn /\ snapshot.step = "write"
        /\ snapshot'.copy = snapshot.copy
        /\ UNCHANGED <<records, up, disk, load_errors>>
    BY <1>0, <1>3 DEF WriteTemporary, vars, historyVars
  <2>. QED BY <2>1 DEF LogGrows, SavingAudit, SameFile
<1>4. CASE Rename
  <2>1. /\ snapshot'.step = "copy" /\ snapshot.step = "rename" /\ up
        /\ disk' = [disk EXCEPT ![Order[snapshot.turn]] = Complete(snapshot.copy)]
        /\ UNCHANGED <<records, up, load_errors>>
    BY <1>0, <1>4 DEF Rename, NextTurn, vars
  <2>2. CASE snapshot.turn = 1
    BY <2>1, <2>2 DEF LogGrows, SavingAudit, SameFile, Order, Store
  <2>3. CASE snapshot.turn = 2
    BY <2>1, <2>3 DEF LogSaved, SavingAudit, Order, Store
  <2>. QED BY <1>0, <2>2, <2>3
<1>5. CASE SaveFails
  <2>1. snapshot'.step = "copy" /\ UNCHANGED <<records, up, disk, load_errors>>
    BY <1>0, <1>5 DEF SaveFails, NextTurn, vars, historyVars
  <2>. QED BY <2>1 DEF LogGrows, SavingAudit, SameFile
<1>6. CASE Crash
  <2>1. /\ records' = << >> /\ snapshot' = Sleeping /\ ~up'
        /\ UNCHANGED <<disk, load_errors>>
    BY <1>6 DEF Crash
  <2>. QED BY <2>1 DEF LogLost, SavingAudit, SameFile, Sleeping
<1>7. CASE Restart
  <2>1. PICK failed \in SUBSET {s \in Store : disk[s].state = "complete"} :
          LET Loads(s) == disk[s].state = "complete" /\ s \notin failed
          IN  /\ load_errors' = load_errors + Cardinality(failed)
              /\ records' = IF Loads("audit")
                            THEN Reparsed(disk["audit"].data) ELSE records
    BY <1>7, Zenon DEF Restart
  <2>2. ~up /\ up' /\ UNCHANGED <<disk, snapshot>>
    BY <1>7 DEF Restart
  <2>3. ~SavingAudit' /\ records = << >>
    BY <2>2 DEF DownIsEmpty, SavingAudit, Sleeping
  <2>4. load_errors' = 0 => load_errors = 0 /\ failed = {}
    <3>1. IsFiniteSet({"alerts"}) /\ IsFiniteSet({"audit"})
      BY FS_Singleton
    <3>2. Store = {"alerts"} \cup {"audit"}
      BY DEF Store
    <3>3. IsFiniteSet(failed)
      BY <3>1, <3>2, FS_Union, FS_Subset
    <3>4. Cardinality(failed) \in Nat
          /\ (Cardinality(failed) = 0 <=> failed = {})
      BY <3>3, FS_CardinalityType, FS_EmptySet
    <3>. QED BY <2>1, <3>4
  <2>. QED BY <2>1, <2>2, <2>3, <2>4 DEF LogRestored, AuditOnDisk, SameFile
<1>8. CASE UNCHANGED allVars
  BY <1>8 DEF allVars, vars, persistVars, historyVars, LogGrows, SavingAudit,
              SameFile
<1>. QED BY <1>1, <1>2, <1>3, <1>4, <1>5, <1>6, <1>7, <1>8 DEF PersistNext

-----------------------------------------------------------------------------
(* The chain on disk grows *)

LEMMA ExtendsByHash ==
    ASSUME NEW log \in Seq(AuditRecord), NEW older \in Seq(AuditRecord)
    PROVE  Extends(log, older) <=>
             /\ Len(older) <= Len(log)
             /\ \A i \in 1..Len(older) : log[i].this_hash = older[i].this_hash
<1>1. /\ Chain(log) = [i \in 1..Len(log) |-> log[i].this_hash]
      /\ Chain(older) = [i \in 1..Len(older) |-> older[i].this_hash]
  BY DEF Chain
<1>2. \A i \in 1..Len(log) : log[i].this_hash \in Hash
  <2>1. \A i \in 1..Len(log) : log[i] \in AuditRecord
    OBVIOUS
  <2>2. \A rec \in AuditRecord : rec.this_hash \in Hash
    BY DEF AuditRecord
  <2>. QED BY <2>1, <2>2
<1>3. Chain(log) \in Seq(Hash) /\ Len(Chain(log)) = Len(log)
  <2>. HIDE DEF Hash
  <2>. QED BY <1>1, <1>2
<1>4. ASSUME Len(older) <= Len(log)
      PROVE  SubSeq(Chain(log), 1, Len(older))
               = [i \in 1..Len(older) |-> log[i].this_hash]
  <2>1. Len(older) \in Nat /\ 1..Len(older) \subseteq 1..Len(log)
    BY <1>4
  <2>2. SubSeq(Chain(log), 1, Len(older))
          = [i \in 1..Len(older) |-> Chain(log)[i]]
    BY <1>3, <1>4, <2>1
  <2>. QED BY <1>1, <2>1, <2>2
<1>5. CASE Len(older) <= Len(log)
  <2>1. [i \in 1..Len(older) |-> log[i].this_hash]
            = [i \in 1..Len(older) |-> older[i].this_hash]
          <=> \A i \in 1..Len(older) : log[i].this_hash = older[i].this_hash
    OBVIOUS
  <2>. QED BY <1>1, <1>4, <1>5, <2>1 DEF Extends
<1>. QED BY <1>5 DEF Extends

LEMMA ExtendsOrder ==
    ASSUME NEW x \in Seq(AuditRecord), NEW y \in Seq(AuditRecord),
           NEW z \in Seq(AuditRecord)
    PROVE  /\ Extends(x, x)
           /\ Extends(x, y) /\ Extends(y, z) => Extends(x, z)
           /\ \A rec \in AuditRecord : Extends(Append(x, rec), x)
           /\ Extends(Reparsed(x), x)
<1>1. Extends(x, x)
  BY ExtendsByHash
<1>2. Extends(x, y) /\ Extends(y, z) => Extends(x, z)
  BY ExtendsByHash
<1>3. ASSUME NEW rec \in AuditRecord
      PROVE  Extends(Append(x, rec), x)
  <2>1. /\ Append(x, rec) \in Seq(AuditRecord) /\ Len(x) <= Len(Append(x, rec))
        /\ \A i \in 1..Len(x) : Append(x, rec)[i] = x[i]
    OBVIOUS
  <2>. QED BY <2>1, ExtendsByHash
<1>4. Extends(Reparsed(x), x)
  BY ReparsedLog, ExtendsByHash
<1>. QED BY <1>1, <1>2, <1>3, <1>4

\* As long as every file loads, memory extends the copy under way, and both
\* extend the file: nothing that is saved is older than what it replaces.
MemoryAhead ==
    load_errors = 0 =>
      /\ up /\ AuditOnDisk => Extends(records, disk["audit"].data)
      /\ SavingAudit =>
           /\ Extends(records, snapshot.copy)
           /\ AuditOnDisk => Extends(snapshot.copy, disk["audit"].data)

LEMMA MemoryStaysAhead ==
    ASSUME PersistTypes, PersistTypes', MemoryAhead, [PersistNext]_allVars
    PROVE  /\ MemoryAhead'
           /\ load_errors' = 0 /\ AuditOnDisk =>
                /\ disk'["audit"].state = "complete"
                /\ Extends(disk'["audit"].data, disk["audit"].data)
<1>. USE DEF PersistTypes, PersistType, CoreType
<1>1. CASE LogGrows
  <2>1. records \in Seq(AuditRecord) /\ records' \in Seq(AuditRecord)
    OBVIOUS
  <2>2. Extends(records', records)
    BY <1>1, <2>1, ExtendsOrder, NextRecordType DEF LogGrows, append
  <2>3. UNCHANGED <<up, load_errors>> /\ SameFile
        /\ (SavingAudit' => SavingAudit /\ snapshot'.copy = snapshot.copy)
    BY <1>1 DEF LogGrows
  <2>4. MemoryAhead'
    BY <2>1, <2>2, <2>3, ExtendsOrder DEF MemoryAhead, SameFile, AuditOnDisk
  <2>. QED BY <2>3, <2>4, ExtendsOrder DEF SameFile, AuditOnDisk
<1>2. CASE LogCopied
  <2>1. MemoryAhead'
    BY <1>2, ExtendsOrder DEF LogCopied, MemoryAhead, SameFile, AuditOnDisk
  <2>. QED BY <1>2, <2>1, ExtendsOrder DEF LogCopied, SameFile, AuditOnDisk
<1>3. CASE LogSaved
  <2>1. disk'["audit"].state = "complete" /\ disk'["audit"].data = snapshot.copy
    BY <1>3 DEF LogSaved, Complete
  <2>. QED BY <1>3, <2>1 DEF LogSaved, MemoryAhead, AuditOnDisk
<1>4. CASE LogLost
  <2>1. MemoryAhead'
    BY <1>4 DEF LogLost, MemoryAhead
  <2>. QED BY <1>4, <2>1, ExtendsOrder DEF LogLost, SameFile, AuditOnDisk
<1>5. CASE LogRestored
  <2>1. MemoryAhead'
    BY <1>5, ExtendsOrder DEF LogRestored, MemoryAhead, SameFile, AuditOnDisk
  <2>. QED BY <1>5, <2>1, ExtendsOrder DEF LogRestored, SameFile, AuditOnDisk
<1>. QED BY <1>1, <1>2, <1>3, <1>4, <1>5, LogSteps

LEMMA MemoryAheadInvariant == PersistSpec => []MemoryAhead
<1>1. PersistInit => MemoryAhead
  BY DEF PersistInit, MemoryAhead, AuditOnDisk, SavingAudit, Sleeping, Absent, Store
<1>2. PersistTypes /\ PersistTypes' /\ MemoryAhead /\ [PersistNext]_allVars
        => MemoryAhead'
  BY MemoryStaysAhead
<1>. QED BY <1>1, <1>2, PersistTyped, PTL DEF PersistSpec

\* As long as every existing file loads, the chain in the audit file only
\* grows, however often saves fail and the process crashes.
THEOREM SavedChainGrows == PersistSpec => DiskAuditGrows
<1>1. PersistTypes /\ PersistTypes' /\ MemoryAhead /\ [PersistNext]_allVars
        => [/\ load_errors' = 0
            /\ disk["audit"].state = "complete"
            => /\ disk'["audit"].state = "complete"
               /\ Extends(disk'["audit"].data, disk["audit"].data)]_allVars
  BY MemoryStaysAhead DEF AuditOnDisk
<1>. QED BY <1>1, PersistTyped, MemoryAheadInvariant, PTL
     DEF PersistSpec, DiskAuditGrows

-----------------------------------------------------------------------------
(* The audit log verifies after a restart *)

\* The log verifies in memory, on its way to disk, and on disk.
IntactEverywhere ==
    /\ verify_integrity(records)
    /\ SavingAudit => verify_integrity(snapshot.copy)
    /\ AuditOnDisk => verify_integrity(disk["audit"].data)

LEMMA StaysIntact ==
    ASSUME PersistTypes, IntactEverywhere, NumbersRoundTrip,
           [PersistNext]_allVars
    PROVE  IntactEverywhere'
<1>. USE DEF IntactEverywhere
<1>1. records \in Seq(AuditRecord)
      /\ (AuditOnDisk => disk["audit"].data \in Seq(AuditRecord))
  BY DEF PersistTypes, PersistType, CoreType
<1>2. CASE LogGrows
  <2>1. verify_integrity(records')
    BY <1>1, <1>2, AppendKeepsIntact DEF LogGrows, append
  <2>. QED BY <1>2, <2>1 DEF LogGrows, SameFile, AuditOnDisk
<1>3. CASE LogCopied
  BY <1>3 DEF LogCopied, SameFile, AuditOnDisk
<1>4. CASE LogSaved
  <2>1. disk'["audit"].data = snapshot.copy
    BY <1>4 DEF LogSaved, Complete
  <2>. QED BY <1>4, <2>1 DEF LogSaved
<1>5. CASE LogLost
  <2>1. verify_integrity(<< >>)
    BY DEF verify_integrity
  <2>. QED BY <1>5, <2>1 DEF LogLost, SameFile, AuditOnDisk
<1>6. CASE LogRestored
  <2>1. AuditOnDisk => Reparsed(disk["audit"].data) = disk["audit"].data
    BY <1>1, ReparsedLog
  <2>. QED BY <1>6, <2>1 DEF LogRestored, SameFile, AuditOnDisk
<1>. QED BY <1>2, <1>3, <1>4, <1>5, <1>6, LogSteps

\* When scores survive their printed form, an audit log nobody tampered with
\* verifies whatever sequence of saves, crashes, restarts and failing loads
\* it went through.  (The premise is what the run persistence_drift lacks.)
THEOREM RestoredLogVerifies ==
    NumbersRoundTrip => (PersistSpec => []UntamperedLogVerifies)
<1>1. PersistInit => IntactEverywhere
  BY DEF PersistInit, Init, AuditInit, IntactEverywhere, verify_integrity,
         SavingAudit, Sleeping, AuditOnDisk, Absent, Store
<1>2. NumbersRoundTrip /\ PersistTypes /\ IntactEverywhere /\ [PersistNext]_allVars
        => IntactEverywhere'
  BY StaysIntact
<1>3. IntactEverywhere => UntamperedLogVerifies
  BY DEF IntactEverywhere, UntamperedLogVerifies
<1>4. CASE NumbersRoundTrip
  <2>1. PersistTypes /\ IntactEverywhere /\ [PersistNext]_allVars
          => IntactEverywhere'
    BY <1>2, <1>4
  <2>. QED BY <1>1, <2>1, <1>3, PersistTyped, PTL DEF PersistSpec
<1>. QED BY <1>4

-----------------------------------------------------------------------------
(* What was durable stays *)

\* The log holds what a request at stage `s` has logged.
Holds(log, s) ==
    \A c \in LoggedBy(s) :
      \E i \in DOMAIN log : log[i].alert_id = c[1] /\ log[i].event = c[2]

Done == {r \in Request : Finished(r)}

\* What the requests since the last crash have logged is in memory; what the
\* requests answered before the cycle have logged is in its copy; and what
\* is durable is in memory, in the copy that is about to replace the file,
\* and in the file.
DurableHeld ==
    /\ durable \subseteq Done
    /\ past \subseteq Done
    /\ snapshot.answered \subseteq Done \ past
    /\ \A r \in Request \ past : Holds(records, req[r])
    /\ SavingAudit => \A r \in snapshot.answered : Holds(snapshot.copy, req[r])
    /\ load_errors = 0 =>
         \A r \in durable :
           /\ up => Holds(records, req[r])
           /\ SavingAudit => Holds(snapshot.copy, req[r])
           /\ AuditOnDisk /\ Holds(disk["audit"].data, req[r])

LEMMA FinishedStays ==
    ASSUME req \in [Request -> Stage], Next, NEW q \in Request, Finished(q)
    PROVE  req'[q] = req[q]
<1>1. PICK r \in Request : Arrive(r) \/ Advance(r) \/ ClientDisconnects(r)
  BY DEF Next
<1>2. \E s : req' = [req EXCEPT ![r] = s]
  BY <1>1 DEF Arrive, Advance, InsertAlert, Reject, WriteDecision, LookUpAlert,
       LogAlertCreated, LogRulesTriggered, LogDecision, LogStatus, Flag,
       LogContextSent, AdvisorAnswers, LogReceived, StoreRecommendation,
       ClientDisconnects, Goto
<1>3. ~Finished(r)
  BY <1>1 DEF Arrive, Advance, InsertAlert, Reject, WriteDecision, LookUpAlert,
       LogAlertCreated, LogRulesTriggered, LogDecision, LogStatus, Flag,
       LogContextSent, AdvisorAnswers, LogReceived, StoreRecommendation,
       ClientDisconnects, At, Finished
<1>. QED BY <1>2, <1>3

LEMMA HoldsAppend ==
    ASSUME NEW log \in Seq(AuditRecord), NEW a \in AlertId,
           NEW e \in AuditEventKind, NEW s
    PROVE  LET new == Append(log, NextRecord(log, a, e))
           IN  /\ Holds(log, s) => Holds(new, s)
               /\ \A old : Holds(log, old)
                    /\ LoggedBy(s) = LoggedBy(old) \cup {<<a, e>>}
                    => Holds(new, s)
<1>. DEFINE rec == NextRecord(log, a, e)
            new == Append(log, rec)
<1>1. rec \in AuditRecord /\ rec.alert_id = a /\ rec.event = e
  BY NextRecordType DEF NextRecord
<1>. HIDE DEF rec
<1>2. /\ \A i \in DOMAIN log : i \in DOMAIN new /\ new[i] = log[i]
      /\ Len(log) + 1 \in DOMAIN new /\ new[Len(log) + 1] = rec
  BY <1>1
<1>. HIDE DEF new
<1>3. Holds(log, s) => Holds(new, s)
  BY <1>2 DEF Holds
<1>4. ASSUME NEW old, Holds(log, old),
             LoggedBy(s) = LoggedBy(old) \cup {<<a, e>>}
      PROVE  Holds(new, s)
  BY <1>1, <1>2, <1>4 DEF Holds
<1>. QED BY <1>3, <1>4 DEF new, rec

\* What serving does to one request.
LEMMA ServeHolds ==
    ASSUME CoreType, Next, NEW q \in Request, Holds(records, req[q])
    PROVE  Holds(records', req'[q])
<1>1. records \in Seq(AuditRecord) /\ req \in [Request -> Stage]
  BY DEF CoreType
<1>2. CASE NothingLogged
  BY <1>2 DEF NothingLogged, Holds
<1>3. ASSUME NEW r \in Request, NEW a \in AlertId, NEW e \in AuditEventKind,
             OneLogged(r, a, e)
      PROVE  Holds(records', req'[q])
  <2>1. records' = Append(records, NextRecord(records, a, e))
    BY <1>3 DEF OneLogged, append
  <2>2. CASE q = r
    BY <1>1, <1>3, <2>1, <2>2, HoldsAppend DEF OneLogged
  <2>3. CASE q # r
    BY <1>1, <1>3, <2>1, <2>3, HoldsAppend DEF OneLogged
  <2>. QED BY <2>2, <2>3
<1>. QED BY <1>1, <1>2, <1>3, LoggingStep

LEMMA DurableStaysHeld ==
    ASSUME PersistTypes, DurableHeld, NumbersRoundTrip, [PersistNext]_allVars
    PROVE  DurableHeld'
<1>. USE DEF DurableHeld
<1>0. CoreType /\ load_errors \in Nat /\ snapshot.turn \in {1, 2}
      /\ DOMAIN snapshot = {"turn", "step", "copy", "answered", "serving", "ok"}
      /\ (AuditOnDisk => disk["audit"].data \in Seq(AuditRecord))
      /\ disk \in [Store -> File]
  BY DEF PersistTypes, PersistType, SnapshotTask
<1>1. CASE Serve
  <2>1. Next /\ UNCHANGED persistVars
    BY <1>1 DEF Serve
  <2>2. \A r \in Done : req'[r] = req[r] /\ r \in Done'
    BY <1>0, <2>1, FinishedStays DEF Done, Finished, CoreType
  <2>3. \A r \in Request : Holds(records, req[r]) => Holds(records', req'[r])
    BY <1>0, <2>1, ServeHolds
  <2>4. \A r \in durable : r \in Request
    BY DEF Done
  <2>. QED BY <2>1, <2>2, <2>3, <2>4
       DEF persistVars, historyVars, SavingAudit, AuditOnDisk
<1>2. CASE CopyStore
  <2>1. /\ snapshot'.turn = snapshot.turn /\ snapshot'.step = "write"
        /\ snapshot'.copy = Contents(Order[snapshot.turn])
        /\ snapshot'.answered =
             IF snapshot.turn = 1 THEN Answered ELSE snapshot.answered
        /\ up /\ UNCHANGED <<records, req, up, disk, durable, past, load_errors>>
    BY <1>0, <1>2 DEF CopyStore, vars, historyVars
  <2>2. Answered \subseteq Done \ past
    BY DEF Answered, Done
  <2>3. Done' = Done
    BY <2>1 DEF Done, Finished
  <2>4. SavingAudit' => snapshot.turn = 2 /\ snapshot'.copy = records
    BY <2>1 DEF SavingAudit, Contents, Order
  <2>5. \A r \in snapshot.answered : Holds(records, req[r])
    BY DEF Done
  <2>. QED BY <2>1, <2>2, <2>3, <2>4, <2>5 DEF AuditOnDisk
<1>3. CASE WriteTemporary
  <2>1. /\ snapshot'.turn = snapshot.turn /\ snapshot.step = "write"
        /\ snapshot'.copy = snapshot.copy
        /\ snapshot'.answered = snapshot.answered
        /\ UNCHANGED <<records, req, up, disk, durable, past, load_errors>>
    BY <1>0, <1>3 DEF WriteTemporary, vars, historyVars
  <2>2. Done' = Done
    BY <2>1 DEF Done, Finished
  <2>. QED BY <2>1, <2>2 DEF SavingAudit, AuditOnDisk
<1>4. CASE Rename
  <2>1. /\ snapshot'.step = "copy" /\ snapshot.step = "rename" /\ up
        /\ disk' = [disk EXCEPT ![Order[snapshot.turn]] = Complete(snapshot.copy)]
        /\ snapshot'.answered = snapshot.answered
        /\ durable' = IF snapshot.turn = 2 /\ snapshot.ok
                      THEN durable \cup snapshot.answered ELSE durable
        /\ UNCHANGED <<records, req, up, past, load_errors>>
    BY <1>0, <1>4 DEF Rename, NextTurn, vars
  <2>2. Done' = Done /\ ~SavingAudit'
    BY <2>1 DEF Done, Finished, SavingAudit
  <2>3. CASE snapshot.turn = 1
    <3>1. disk'["audit"] = disk["audit"] /\ durable' = durable
      BY <2>1, <2>3 DEF Order, Store
    <3>. QED BY <2>1, <2>2, <3>1 DEF AuditOnDisk
  <2>4. CASE snapshot.turn = 2
    <3>1. disk'["audit"].state = "complete" /\ disk'["audit"].data = snapshot.copy
          /\ SavingAudit
      BY <1>0, <2>1, <2>4 DEF Order, Store, Complete, SavingAudit
    <3>2. \A r \in snapshot.answered : Holds(records, req[r])
      BY DEF Done
    <3>. QED BY <2>1, <2>2, <3>1, <3>2 DEF AuditOnDisk
  <2>. QED BY <1>0, <2>3, <2>4
<1>5. CASE SaveFails
  <2>1. /\ snapshot'.step = "copy" /\ snapshot'.answered = snapshot.answered
        /\ UNCHANGED <<records, req, up, disk, durable, past, load_errors>>
    BY <1>0, <1>5 DEF SaveFails, NextTurn, vars, historyVars
  <2>2. Done' = Done /\ ~SavingAudit'
    BY <2>1 DEF Done, Finished, SavingAudit
  <2>. QED BY <2>1, <2>2 DEF AuditOnDisk
<1>6. CASE Crash
  <2>1. /\ req' = [r \in Request |-> IF r \in Serving THEN Rejected ELSE req[r]]
        /\ snapshot' = Sleeping /\ ~up' /\ past' = {r \in Request : Finished(r)}
        /\ UNCHANGED <<disk, durable, load_errors>>
    BY <1>6 DEF Crash
  <2>2. \A r \in Done : req'[r] = req[r] /\ r \in Done'
    BY <2>1 DEF Done, Serving, Finished
  <2>3. past' = Done /\ snapshot'.answered = {} /\ ~SavingAudit'
    BY <2>1 DEF Done, Sleeping, SavingAudit
  <2>4. \A r \in Request \ Done : Holds(records', req'[r])
    <3>1. \A r \in Request \ Done : req'[r].pc \in {"idle", "rejected"}
      BY <2>1 DEF Done, Serving, Rejected, At
    <3>. QED BY <3>1, LoggedAt DEF Holds
  <2>. QED BY <2>1, <2>2, <2>3, <2>4 DEF AuditOnDisk
<1>7. CASE Restart
  <2>1. PICK failed \in SUBSET {s \in Store : disk[s].state = "complete"} :
          LET Loads(s) == disk[s].state = "complete" /\ s \notin failed
          IN  /\ load_errors' = load_errors + Cardinality(failed)
              /\ records' = IF Loads("audit")
                            THEN Reparsed(disk["audit"].data) ELSE records
    BY <1>7, Zenon DEF Restart
  <2>2. ~up /\ up' /\ UNCHANGED <<req, disk, snapshot, durable, past>>
    BY <1>7 DEF Restart
  <2>3. ~SavingAudit' /\ records = << >> /\ Done' = Done
    BY <2>2 DEF PersistTypes, DownIsEmpty, SavingAudit, Sleeping, Done, Finished
  <2>4. \A r \in Request \ past : Holds(records', req[r])
    BY <2>3 DEF Holds
  <2>5. load_errors' = 0 => load_errors = 0 /\ failed = {}
    <3>1. IsFiniteSet({"alerts"}) /\ IsFiniteSet({"audit"})
      BY FS_Singleton
    <3>2. Store = {"alerts"} \cup {"audit"}
      BY DEF Store
    <3>3. IsFiniteSet(failed)
      BY <3>1, <3>2, FS_Union, FS_Subset
    <3>4. Cardinality(failed) \in Nat
          /\ (Cardinality(failed) = 0 <=> failed = {})
      BY <3>3, FS_CardinalityType, FS_EmptySet
    <3>. QED BY <1>0, <2>1, <3>4
  <2>6. load_errors' = 0 /\ AuditOnDisk => records' = disk["audit"].data
    BY <1>0, <2>1, <2>5, ReparsedLog DEF AuditOnDisk
  <2>. QED BY <2>2, <2>3, <2>4, <2>5, <2>6 DEF AuditOnDisk
<1>8. CASE UNCHANGED allVars
  BY <1>8 DEF allVars, vars, persistVars, historyVars, SavingAudit, AuditOnDisk,
              Done, Finished
<1>. QED BY <1>1, <1>2, <1>3, <1>4, <1>5, <1>6, <1>7, <1>8 DEF PersistNext

\* Once a cycle that began after a request was answered has completed, the
\* records of that request survive every later crash and every later save,
\* successful or not, as long as files load and scores survive their printed
\* form.
THEOREM DurableStays ==
    NumbersRoundTrip => (PersistSpec => []DurableRequestsStayRecorded)
<1>1. PersistInit => DurableHeld
  <2> SUFFICES ASSUME PersistInit PROVE DurableHeld
    OBVIOUS
  <2>1. \A r \in Request : req[r] = Idle
    BY DEF PersistInit, Init
  <2>2. \A r \in Request : Holds(records, req[r])
    BY <2>1, LoggedAt DEF Idle, Holds
  <2>. QED BY <2>2 DEF PersistInit, DurableHeld, SavingAudit, Sleeping
<1>2. NumbersRoundTrip /\ PersistTypes /\ DurableHeld /\ [PersistNext]_allVars
        => DurableHeld'
  BY DurableStaysHeld
<1>3. DurableHeld => DurableRequestsStayRecorded
  <2> SUFFICES ASSUME DurableHeld, up, load_errors = 0,
                      NEW r \in durable, NEW c \in Logged(r)
               PROVE  Records(c[1], c[2]) # {}
    BY DEF DurableRequestsStayRecorded
  <2>. QED BY DEF DurableHeld, Holds, Records, Logged
<1>4. CASE NumbersRoundTrip
  <2>1. PersistTypes /\ DurableHeld /\ [PersistNext]_allVars => DurableHeld'
    BY <1>2, <1>4
  <2>. QED BY <1>1, <2>1, <1>3, PersistTyped, PTL DEF PersistSpec
<1>. QED BY <1>4

-----------------------------------------------------------------------------
(* The two files of a cycle fit together, in the first run *)

\* r has written, or is writing, decision s on alert a.
Decides(r, a, s) ==
    /\ req[r].pc \in {"log_decision", "log_status", "flag", "decided"}
    /\ req[r].alert_id = a
    /\ req[r].decision = s

DecidedIn(log, a, s) ==
    \E i \in DOMAIN log :
      /\ log[i].alert_id = a
      /\ log[i].event.event_type = "investigator_decision"
      /\ log[i].event.decision = s

\* Every status in `map` has its decision in `log`, or was written by a
\* request in flight when the cycle began.
Explained(map, log) ==
    \A a \in AlertId :
      map[a].status \in InvestigationStatus \ {"open"} =>
        \/ DecidedIn(log, a, map[a].status)
        \/ \E r \in snapshot.serving : Decides(r, a, map[a].status)

\* What the cycle has got to, as long as every save of it has succeeded: the
\* alerts it copied, then saved, against the log in memory; then against its
\* copy of the log; then against the file of the log.
CycleExplained ==
    /\ snapshot.turn = 1 /\ snapshot.step # "copy" =>
         Explained(snapshot.copy, records)
    /\ snapshot.turn = 2 /\ snapshot.step = "copy" /\ snapshot.ok =>
         Explained(disk["alerts"].data, records)
    /\ SavingAudit /\ snapshot.ok =>
         Explained(disk["alerts"].data, snapshot.copy)
    /\ snapshot.turn = 1 /\ snapshot.step = "copy" /\ snapshot.ok =>
         Explained(disk["alerts"].data, disk["audit"].data)

\* Before the first crash the handlers keep their own invariants.
FirstRun ==
    /\ crashes \in Nat
    /\ crashes = 0 =>
         up /\ TInv /\ StatusIsAHumanDecision /\ CycleExplained

\* A step of the handlers undoes no explanation.
LEMMA ExplainedStays ==
    ASSUME TInv, [Next]_vars
    PROVE  /\ \A a, s : \A r \in Request : Decides(r, a, s) => Decides(r, a, s)'
           /\ \A a, s : DecidedIn(records, a, s) => DecidedIn(records', a, s)
<1>1. ASSUME NEW a, NEW s, NEW r \in Request, Decides(r, a, s)
      PROVE  Decides(r, a, s)'
  <2>1. CASE req'[r] = req[r]
    BY <1>1, <2>1 DEF Decides
  <2>2. CASE req'[r] # req[r]
    <3>1. \E label \in {"log_status", "flag", "decided"} :
            Went(r, Deciding, label)
      BY <1>1, <2>2, Moves DEF Decides, Arrive, At, InsertAlert, Reject,
         WriteDecision, LookUpAlert, AdvisorAnswers, LogAlertCreated,
         LogRulesTriggered, LogContextSent, LogReceived,
         StoreRecommendation, ClientDisconnects
    <3>. QED BY <1>1, <3>1 DEF Decides, Went, Deciding
  <2>. QED BY <2>1, <2>2
<1>2. ASSUME NEW a, NEW s, DecidedIn(records, a, s)
      PROVE  DecidedIn(records', a, s)
  <2>1. PICK i \in DOMAIN records :
          /\ records[i].alert_id = a
          /\ records[i].event.event_type = "investigator_decision"
          /\ records[i].event.decision = s
    BY <1>2 DEF DecidedIn
  <2>2. i \in Records(a, records[i].event)
    BY <2>1 DEF Records
  <2>3. \A e : Records(a, e) \subseteq Records(a, e)'
    BY RecordsStay
  <2>4. i \in DOMAIN records' /\ records'[i].alert_id = a
        /\ records'[i].event = records[i].event
    <3>. DEFINE e == records[i].event
    <3>1. \A x : i \in Records(a, x) =>
                   i \in DOMAIN records' /\ records'[i].alert_id = a
                   /\ records'[i].event = x
      BY <2>3 DEF Records
    <3>. QED BY <2>2, <3>1
  <2>. QED BY <2>1, <2>4 DEF DecidedIn
<1>. QED BY <1>1, <1>2

LEMMA FirstRunStays ==
    ASSUME PersistTypes, FirstRun, [PersistNext]_allVars
    PROVE  FirstRun'
<1>. USE DEF FirstRun
<1>0. snapshot.turn \in {1, 2} /\ snapshot.serving \subseteq Request
      /\ snapshot.ok \in BOOLEAN /\ snapshot.step \in {"copy", "write", "rename"}
      /\ DOMAIN snapshot =
           {"turn", "step", "copy", "answered", "serving", "ok"}
  BY DEF PersistTypes, PersistType, SnapshotTask
<1>1. CASE Crash
  <2>1. crashes' = crashes + 1
    BY <1>1 DEF Crash
  <2>2. crashes' \in Nat /\ crashes' # 0
    BY <2>1
  <2>. QED BY <2>2
<1>2. ASSUME UNCHANGED <<vars, up, crashes>>,
             crashes = 0 /\ CycleExplained => CycleExplained'
      PROVE  FirstRun'
  <2>1. TInv' <=> TInv
    BY <1>2 DEF vars, appVars, TInv, TypeOK, AlertsOfRequestsExist, At, Exists
  <2>2. StatusIsAHumanDecision' <=> StatusIsAHumanDecision
    BY <1>2 DEF vars, appVars, StatusIsAHumanDecision, At, Records
  <2>. QED BY <1>2, <2>1, <2>2
<1>3. CASE Serve
  <2>1. Next /\ UNCHANGED <<up, disk, snapshot, crashes>>
    BY <1>3 DEF Serve, persistVars, historyVars
  <2> SUFFICES ASSUME crashes = 0
               PROVE  up' /\ TInv' /\ StatusIsAHumanDecision' /\ CycleExplained'
    BY <2>1
  <2>2. TInv' /\ StatusIsAHumanDecision'
    BY <2>1, StepType, HumanDecisionStays
  <2>3. snapshot' = snapshot /\ disk' = disk /\ up'
    BY <2>1
  <2>4. \A map : Explained(map, records) =>
          \A a \in AlertId :
            map[a].status \in InvestigationStatus \ {"open"} =>
              \/ DecidedIn(records', a, map[a].status)
              \/ \E r \in snapshot.serving : Decides(r, a, map[a].status)'
    BY <1>0, <2>1, ExplainedStays DEF Explained
  <2>. DEFINE map == disk["alerts"].data
  <2>6. Explained(snapshot.copy, records) => Explained(snapshot.copy, records)'
    BY <2>3, <2>4 DEF Explained, Decides
  <2>7. Explained(map, records) => Explained(map, records)'
    BY <2>3, <2>4 DEF Explained, Decides
  <2>8. \A r \in snapshot.serving : \A a, s : Decides(r, a, s) =>
          /\ req'[r].pc \in {"log_decision", "log_status", "flag", "decided"}
          /\ req'[r].alert_id = a /\ req'[r].decision = s
    BY <1>0, <2>1, ExplainedStays DEF Decides
  <2>9. /\ Explained(map, snapshot.copy) => Explained(map, snapshot.copy)'
        /\ Explained(map, disk["audit"].data)
             => Explained(map, disk["audit"].data)'
    <3>1. Explained(map, snapshot.copy) => Explained(map, snapshot.copy)'
      BY <2>3, <2>8 DEF Explained, Decides
    <3>2. Explained(map, disk["audit"].data)
            => Explained(map, disk["audit"].data)'
      BY <2>3, <2>8 DEF Explained, Decides
    <3>. QED BY <3>1, <3>2
  <2>10. CycleExplained'
    BY <2>3, <2>6, <2>7, <2>9 DEF CycleExplained, SavingAudit
  <2>. QED BY <2>2, <2>3, <2>10
<1>4. CASE CopyStore
  <2>0. UNCHANGED <<vars, up, crashes>> /\ UNCHANGED <<vars, disk>>
        /\ snapshot.step = "copy"
    BY <1>4 DEF CopyStore, historyVars
  <2>1. /\ snapshot'.turn = snapshot.turn /\ snapshot'.step = "write"
        /\ snapshot'.copy = Contents(Order[snapshot.turn])
        /\ UNCHANGED <<vars, disk>> /\ snapshot.step = "copy"
        /\ snapshot.turn = 1 => snapshot'.serving = Serving
        /\ snapshot.turn = 2 => /\ snapshot'.serving = snapshot.serving
                                /\ snapshot'.ok = snapshot.ok
    <3>. DEFINE se == IF snapshot.turn = 1 THEN Serving ELSE snapshot.serving
                ok == IF snapshot.turn = 1 THEN TRUE ELSE snapshot.ok
                an == IF snapshot.turn = 1 THEN Answered ELSE snapshot.answered
                c == Contents(Order[snapshot.turn])
    <3>1. snapshot' = [snapshot EXCEPT !.step = "write", !.copy = c,
                         !.answered = an, !.serving = se, !.ok = ok]
      BY <1>4 DEF CopyStore
    <3>2. snapshot.turn = 2 => se = snapshot.serving /\ ok = snapshot.ok
      OBVIOUS
    <3>3. snapshot.turn = 1 => se = Serving
      OBVIOUS
    <3>. HIDE DEF se, ok, an, c
    <3>4. snapshot'.turn = snapshot.turn /\ snapshot'.step = "write"
          /\ snapshot'.copy = c /\ snapshot'.serving = se /\ snapshot'.ok = ok
      BY <1>0, <3>1
    <3>. QED BY <2>0, <3>2, <3>3, <3>4 DEF c
  <2> SUFFICES ASSUME crashes = 0, CycleExplained PROVE CycleExplained'
    BY <1>2, <2>0
  <2>2. CASE snapshot.turn = 1
    <3>1. snapshot'.copy = alerts /\ alerts' = alerts /\ records' = records
          /\ req' = req
      BY <2>1, <2>2 DEF Contents, Order, vars, appVars
    <3>2. ASSUME NEW a \in AlertId,
                 alerts[a].status \in InvestigationStatus \ {"open"}
          PROVE  \/ DecidedIn(records, a, alerts[a].status)
                 \/ \E r \in Serving : Decides(r, a, alerts[a].status)
      <4>1. PICK who \in InvestigatorId :
              \/ Records(a, InvestigatorDecision(who, alerts[a].status)) # {}
              \/ \E r \in Request :
                   /\ At(r, "log_decision")
                   /\ req[r].alert_id = a
                   /\ req[r].who = who
                   /\ req[r].decision = alerts[a].status
        BY <3>2 DEF StatusIsAHumanDecision
      <4>2. Records(a, InvestigatorDecision(who, alerts[a].status)) # {}
              => DecidedIn(records, a, alerts[a].status)
        BY DEF Records, DecidedIn, InvestigatorDecision
      <4>3. \A r \in Request : At(r, "log_decision") => r \in Serving
        BY DEF Serving, At, Finished
      <4>. QED BY <4>1, <4>2, <4>3 DEF Decides, At
    <3>3. Explained(snapshot.copy, records)'
      BY <2>1, <2>2, <3>1, <3>2 DEF Explained, Decides, DecidedIn
    <3>. QED BY <2>1, <2>2, <3>3 DEF CycleExplained, SavingAudit
  <2>3. CASE snapshot.turn = 2
    <3>1. snapshot'.copy = records /\ req' = req /\ disk' = disk
      BY <2>1, <2>3 DEF Contents, Order, vars
    <3>2. snapshot.ok => Explained(disk["alerts"].data, records)
      BY <2>1, <2>3 DEF CycleExplained
    <3>3. snapshot.ok => Explained(disk["alerts"].data, snapshot.copy)'
      BY <2>1, <2>3, <3>1, <3>2 DEF Explained, Decides
    <3>. QED BY <2>1, <2>3, <3>3 DEF CycleExplained, SavingAudit
  <2>. QED BY <1>0, <2>2, <2>3
<1>5. CASE WriteTemporary
  <2>1. /\ snapshot'.turn = snapshot.turn /\ snapshot'.step = "rename"
        /\ snapshot'.copy = snapshot.copy /\ snapshot'.ok = snapshot.ok
        /\ snapshot'.serving = snapshot.serving /\ snapshot.step = "write"
        /\ UNCHANGED <<vars, up, disk, crashes>>
    BY <1>0, <1>5 DEF WriteTemporary, historyVars
  <2>2. CycleExplained => CycleExplained'
    BY <2>1 DEF CycleExplained, SavingAudit, Explained, Decides, vars
  <2>. QED BY <1>2, <2>1, <2>2
<1>6. CASE Rename
  <2>1. /\ snapshot'.turn = 3 - snapshot.turn /\ snapshot'.step = "copy"
        /\ snapshot'.ok = snapshot.ok /\ snapshot'.serving = snapshot.serving
        /\ snapshot.step = "rename"
        /\ disk' = [disk EXCEPT ![Order[snapshot.turn]]
                                  = Complete(snapshot.copy)]
        /\ UNCHANGED <<vars, up, crashes>>
    BY <1>0, <1>6 DEF Rename, NextTurn
  <2>2. disk \in [Store -> File] /\ Complete(snapshot.copy).data = snapshot.copy
    BY DEF PersistTypes, PersistType, Complete
  <2> SUFFICES ASSUME crashes = 0, CycleExplained PROVE CycleExplained'
    BY <1>2, <2>1
  <2>3. records' = records /\ req' = req
    BY <2>1 DEF vars
  <2>4. CASE snapshot.turn = 1
    <3>1. disk'["alerts"].data = snapshot.copy
      BY <2>1, <2>2, <2>4 DEF Order, Store
    <3>2. Explained(snapshot.copy, records)
      BY <2>1, <2>4 DEF CycleExplained
    <3>3. Explained(disk["alerts"].data, records)'
      BY <2>1, <2>3, <3>1, <3>2 DEF Explained, Decides
    <3>. QED BY <2>1, <2>4, <3>3 DEF CycleExplained, SavingAudit
  <2>5. CASE snapshot.turn = 2
    <3>1. disk'["audit"].data = snapshot.copy
          /\ disk'["alerts"] = disk["alerts"]
      BY <2>1, <2>2, <2>5 DEF Order, Store
    <3>2. snapshot.ok => Explained(disk["alerts"].data, snapshot.copy)
      BY <2>1, <2>5 DEF CycleExplained, SavingAudit
    <3>3. snapshot.ok
            => Explained(disk["alerts"].data, disk["audit"].data)'
      BY <2>1, <2>3, <3>1, <3>2 DEF Explained, Decides
    <3>. QED BY <2>1, <2>5, <3>3 DEF CycleExplained, SavingAudit
  <2>. QED BY <1>0, <2>4, <2>5
<1>7. CASE SaveFails
  <2>1. snapshot'.step = "copy" /\ snapshot'.ok = FALSE
        /\ UNCHANGED <<vars, up, crashes>>
    BY <1>0, <1>7 DEF SaveFails, NextTurn, historyVars
  <2>2. CycleExplained'
    BY <2>1 DEF CycleExplained, SavingAudit
  <2>. QED BY <1>2, <2>1, <2>2
<1>8. CASE Restart
  <2>1. ~up /\ crashes' = crashes
    BY <1>8 DEF Restart
  <2>. QED BY <2>1
<1>9. CASE UNCHANGED allVars
  <2>1. UNCHANGED <<vars, up, crashes>> /\ UNCHANGED <<snapshot, disk>>
    BY <1>9 DEF allVars, persistVars, historyVars
  <2>2. CycleExplained => CycleExplained'
    BY <2>1 DEF CycleExplained, SavingAudit, Explained, Decides, vars
  <2>. QED BY <1>2, <2>1, <2>2
<1>. QED BY <1>1, <1>3, <1>4, <1>5, <1>6, <1>7, <1>8, <1>9 DEF PersistNext
\* Before the first crash, however handlers and the snapshot task interleave
\* and saves fail: after a cycle whose saves all succeeded, every decided status
\* in the alerts file has its decision in the audit file, unless the request
\* that wrote it was in flight when the cycle began.
THEOREM SavedPairFits == PersistSpec => []SnapshotPairExplained
<1>1. PersistInit => FirstRun
  <2> SUFFICES ASSUME PersistInit PROVE FirstRun
    OBVIOUS
  <2>1. Init /\ crashes = 0 /\ up /\ snapshot = Sleeping
    BY DEF PersistInit
  <2>2. TInv
    BY <2>1, InitType
  <2>3. StatusIsAHumanDecision
    BY <2>1 DEF Init, StatusIsAHumanDecision, NoAlert, InvestigationStatus
  <2>4. CycleExplained
    BY <2>1 DEF CycleExplained, SavingAudit, Sleeping
  <2>. QED BY <2>1, <2>2, <2>3, <2>4 DEF FirstRun
<1>2. PersistTypes /\ FirstRun /\ [PersistNext]_allVars => FirstRun'
  BY FirstRunStays
<1>3. FirstRun => SnapshotPairExplained
  BY DEF FirstRun, CycleExplained, Explained, Decides, DecidedIn,
         SnapshotPairExplained
<1>. QED BY <1>1, <1>2, <1>3, PersistTyped, PTL DEF PersistSpec

-----------------------------------------------------------------------------
(* All types *)

AppType ==
    /\ flagged_accounts \subseteq AccountId
    /\ ai_recommendations \in
         [AlertId -> AiRecommendation \cup {NoRecommendation}]
    /\ metrics \in Metrics

InDecision(s) == s.pc \in {"log_decision", "log_status", "flag"}

\* A decision in progress finds its alert when it flags the accounts: alerts
\* go only in a crash, and a crash takes the requests in progress with it.
DecisionsFindAlert ==
    \A r \in Request : InDecision(req[r]) => Exists(req[r].alert_id)

NobodyDecides == \A r \in Request : ~InDecision(req[r])

LEMMA AlertsStay ==
    ASSUME CoreType, Next
    PROVE  \A a \in AlertId : Exists(a) => Exists(a)'
<1>1. ASSUME NEW r \in Request, NEW a \in AlertId, NEW src \in AccountId,
             NEW dst \in AccountId \cup {NoAccount}, NEW score \in Score,
             InsertAlert(r, a, src, dst, score)
      PROVE  \A b \in AlertId : Exists(b) => Exists(b)'
  BY <1>1 DEF InsertAlert, Exists, CoreType
<1>2. ASSUME NEW r \in Request, NEW who \in InvestigatorId, NEW a \in AlertId,
             NEW decision \in Decision, WriteDecision(r, who, a, decision)
      PROVE  \A b \in AlertId : Exists(b) => Exists(b)'
  <2>1. alerts[a] \in Alert /\ decision \in InvestigationStatus
    BY <1>2, DecisionAssumption DEF WriteDecision, Exists, CoreType
  <2>2. alerts' = [alerts EXCEPT ![a] = [alerts[a] EXCEPT !.status = decision]]
    BY <1>2 DEF WriteDecision
  <2>3. [alerts[a] EXCEPT !.status = decision] \in Alert
    BY <2>1 DEF Alert
  <2>4. NoAlert \notin Alert
    BY DEF NoAlert, Alert, InvestigationStatus
  <2>. QED BY <2>2, <2>3, <2>4 DEF Exists, CoreType
<1>3. ASSUME UNCHANGED alerts
      PROVE  \A b \in AlertId : Exists(b) => Exists(b)'
  BY <1>3 DEF Exists
<1>4. PICK r \in Request : Arrive(r) \/ Advance(r) \/ ClientDisconnects(r)
  BY DEF Next
<1>5. CASE Arrive(r)
  BY <1>1, <1>2, <1>3, <1>5 DEF Arrive, Reject, LookUpAlert, appVars
<1>6. CASE Advance(r) \/ ClientDisconnects(r)
  BY <1>3, <1>6 DEF Advance, ClientDisconnects, LogAlertCreated,
     LogRulesTriggered, LogDecision, LogStatus, Flag, LogContextSent,
     AdvisorAnswers, LogReceived, StoreRecommendation, appVars
<1>. QED BY <1>4, <1>5, <1>6

LEMMA DecisionsKeepAlert ==
    ASSUME CoreType, DecisionsFindAlert, Next
    PROVE  DecisionsFindAlert'
<1>. USE DEF CoreType
<1>1. ASSUME NEW r \in Request, NEW s, req' = [req EXCEPT ![r] = s],
             InDecision(s) =>
               s.alert_id \in AlertId /\ Exists(s.alert_id)
      PROVE  DecisionsFindAlert'
  <2>1. \A q \in Request : req'[q] = IF q = r THEN s ELSE req[q]
    BY <1>1
  <2>2. \A q \in Request : InDecision(req'[q]) =>
          req'[q].alert_id \in AlertId /\ Exists(req'[q].alert_id)
    BY <1>1, <2>1, StageOfLabel DEF DecisionsFindAlert, InDecision, Deciding
  <2>3. \A q \in Request : InDecision(req'[q]) => alerts'[req'[q].alert_id] # NoAlert
    BY <2>2, AlertsStay DEF Exists
  <2>. QED BY <2>3 DEF DecisionsFindAlert, Exists
<1>2. PICK r \in Request : Arrive(r) \/ Advance(r) \/ ClientDisconnects(r)
  BY DEF Next
<1>3. ASSUME NEW who \in InvestigatorId, NEW a \in AlertId,
             NEW d \in Decision, WriteDecision(r, who, a, d)
      PROVE  DecisionsFindAlert'
  <2>. DEFINE s == [pc |-> "log_decision", alert_id |-> a, who |-> who,
                    from |-> alerts[a].status, decision |-> d]
  <2>1. s.alert_id = a /\ Exists(a) /\ req' = [req EXCEPT ![r] = s]
    BY <1>3 DEF WriteDecision
  <2>. HIDE DEF s
  <2>. QED BY <1>1, <2>1
<1>4. ASSUME NEW s, req' = [req EXCEPT ![r] = s], ~InDecision(s)
      PROVE  DecisionsFindAlert'
  BY <1>1, <1>4
<1>5. CASE Arrive(r)
  BY <1>3, <1>4, <1>5 DEF Arrive, InsertAlert, Reject, LookUpAlert, Rejected,
                          InDecision
<1>6. CASE LogDecision(r) \/ LogStatus(r)
  <2>1. PICK label : req' = [req EXCEPT ![r] = [req[r] EXCEPT !.pc = label]]
    BY <1>6 DEF LogDecision, LogStatus, Goto
  <2>2. InDecision(req[r]) /\ req[r] \in Deciding
    BY <1>6, StageOfLabel DEF LogDecision, LogStatus, At, InDecision
  <2>. DEFINE s == [req[r] EXCEPT !.pc = label]
  <2>3. s.alert_id = req[r].alert_id /\ req[r].alert_id \in AlertId
    BY <2>2 DEF Deciding
  <2>. HIDE DEF s
  <2>. QED BY <1>1, <2>1, <2>2, <2>3 DEF DecisionsFindAlert, s
<1>7. ASSUME NEW label \in {"log_rules", "created", "decided", "investigate",
                            "store", "advised", "dropped"},
             Goto(r, label), req[r] \in Creating \cup Deciding \cup Advising
      PROVE  DecisionsFindAlert'
  <2>. DEFINE s == [req[r] EXCEPT !.pc = label]
  <2>1. req' = [req EXCEPT ![r] = s]
    BY <1>7 DEF Goto
  <2>2. s.pc = label
    BY <1>7 DEF Creating, Deciding, Advising
  <2>. HIDE DEF s
  <2>. QED BY <1>4, <1>7, <2>1, <2>2 DEF InDecision
<1>8. ASSUME NEW advice \in Advice, AdvisorAnswers(r, advice)
      PROVE  DecisionsFindAlert'
  <2>. DEFINE s == [req[r] EXCEPT !.pc = "log_received",
                                  !.advice = advice]
  <2>1. req' = [req EXCEPT ![r] = s] /\ req[r] \in Advising
    BY <1>8, StageOfLabel DEF AdvisorAnswers, At
  <2>2. s.pc = "log_received"
    BY <2>1 DEF Advising
  <2>. HIDE DEF s
  <2>. QED BY <1>4, <2>1, <2>2 DEF InDecision
<1>9. CASE LogAlertCreated(r) \/ LogRulesTriggered(r) \/ Flag(r)
           \/ LogContextSent(r) \/ LogReceived(r) \/ StoreRecommendation(r)
           \/ ClientDisconnects(r)
  <2>1. req[r] \in Creating \cup Deciding \cup Advising
    BY <1>9, StageOfLabel DEF LogAlertCreated, LogRulesTriggered, Flag,
       LogContextSent, LogReceived, StoreRecommendation, ClientDisconnects, At
  <2>2. \E label \in {"log_rules", "created", "decided", "investigate",
                      "store", "advised", "dropped"} : Goto(r, label)
    BY <1>9 DEF LogAlertCreated, LogRulesTriggered, Flag,
       LogContextSent, LogReceived, StoreRecommendation, ClientDisconnects
  <2>. QED BY <1>7, <2>1, <2>2
<1>. QED BY <1>2, <1>5, <1>6, <1>8, <1>9 DEF Advance

LEMMA AppTypeStays ==
    ASSUME CoreType, DecisionsFindAlert, AppType, Next
    PROVE  AppType'
<1>. USE DEF AppType, CoreType
<1>1. PICK r \in Request : Arrive(r) \/ Advance(r) \/ ClientDisconnects(r)
  BY DEF Next
<1>2. CASE UNCHANGED <<flagged_accounts, ai_recommendations, metrics>>
  BY <1>2
<1>3. CASE Arrive(r)
  <2>1. ASSUME NEW a \in AlertId, NEW src \in AccountId,
               NEW dst \in AccountId \cup {NoAccount}, NEW score \in Score,
               InsertAlert(r, a, src, dst, score)
        PROVE  AppType'
    BY <2>1 DEF InsertAlert, Metrics
  <2>. QED BY <1>2, <1>3, <2>1 DEF Arrive, Reject, WriteDecision, LookUpAlert,
                                   appVars
<1>4. CASE Flag(r)
  <2>1. req[r] \in Deciding /\ Exists(req[r].alert_id)
    BY <1>4, StageOfLabel DEF Flag, At, DecisionsFindAlert, InDecision
  <2>2. alerts[req[r].alert_id] \in Alert
    BY <2>1 DEF Exists, Deciding
  <2>3. AccountsOf(req[r].alert_id) \subseteq AccountId
    BY <2>2 DEF AccountsOf, Alert
  <2>4. flagged_accounts' \subseteq AccountId
    BY <1>4, <2>3 DEF Flag
  <2>5. metrics' \in Metrics /\ UNCHANGED ai_recommendations
    BY <1>4 DEF Flag, Metrics
  <2>. QED BY <2>4, <2>5
<1>5. ASSUME NEW advice \in Advice, AdvisorAnswers(r, advice)
      PROVE  AppType'
  <2>. DEFINE total == metrics.ai_recommendations_total + 1
              fallback == IF advice.model_available
                          THEN metrics.ai_fallback_total
                          ELSE metrics.ai_fallback_total + 1
  <2>1. total \in Nat /\ fallback \in Nat
    BY DEF Metrics
  <2>2. /\ metrics' = [metrics EXCEPT !.ai_recommendations_total = total,
                                      !.ai_fallback_total = fallback]
        /\ UNCHANGED <<flagged_accounts, ai_recommendations>>
    BY <1>5 DEF AdvisorAnswers
  <2>. HIDE DEF total, fallback
  <2>3. metrics' \in Metrics
    BY <2>1, <2>2 DEF Metrics
  <2>. QED BY <2>2, <2>3
<1>6. CASE StoreRecommendation(r)
  <2>1. req[r] \in Advising
    BY <1>6, StageOfLabel DEF StoreRecommendation, At
  <2>2. req[r].alert_id \in AlertId /\ req[r].advice \in Advice
    BY <2>1 DEF Advising
  <2>3. ai_recommendations'
          \in [AlertId -> AiRecommendation \cup {NoRecommendation}]
    BY <1>6, <2>2 DEF StoreRecommendation, AiRecommendation
  <2>. QED BY <1>6, <2>3 DEF StoreRecommendation
<1>7. CASE LogAlertCreated(r) \/ LogRulesTriggered(r) \/ LogDecision(r)
           \/ LogStatus(r) \/ LogContextSent(r) \/ LogReceived(r)
           \/ ClientDisconnects(r)
  BY <1>2, <1>7 DEF LogAlertCreated, LogRulesTriggered, LogDecision, LogStatus,
     LogContextSent, LogReceived, ClientDisconnects, appVars
<1>. QED BY <1>1, <1>3, <1>4, <1>5, <1>6, <1>7 DEF Advance

HistoryType ==
    /\ durable \subseteq Request
    /\ past \subseteq Request
    /\ crashes \in 0..MaxCrashes
    /\ load_errors \in 0..MaxLoadErrors

AllTypes ==
    /\ AppType
    /\ DecisionsFindAlert
    /\ ~up => NobodyDecides
    /\ HistoryType

LEMMA AllTypesStay ==
    ASSUME PersistTypes, AllTypes, [PersistNext]_allVars
    PROVE  AllTypes'
<1>. USE DEF AllTypes
<1>0. CoreType /\ load_errors \in Nat /\ snapshot.answered \subseteq Request
      /\ disk \in [Store -> File]
  BY DEF PersistTypes, PersistType, SnapshotTask
<1>1. CASE Serve
  <2>1. up = TRUE /\ Next /\ UNCHANGED persistVars
    BY <1>1, <1>0 DEF Serve, PersistTypes, PersistType
  <2>2. AppType' /\ DecisionsFindAlert'
    BY <1>0, <2>1, AppTypeStays, DecisionsKeepAlert
  <2>. QED BY <2>1, <2>2 DEF persistVars, historyVars, HistoryType
<1>2. ASSUME UNCHANGED <<vars, up>>, HistoryType'
      PROVE  AllTypes'
  BY <1>2 DEF vars, appVars, AppType, DecisionsFindAlert, NobodyDecides, Exists
<1>3. CASE CopyStore \/ WriteTemporary \/ SaveFails
  BY <1>2, <1>3 DEF CopyStore, WriteTemporary, SaveFails, historyVars, HistoryType
<1>4. CASE Rename
  BY <1>0, <1>2, <1>4 DEF Rename, HistoryType
<1>5. CASE Crash
  <2>1. AppType'
    BY <1>5 DEF Crash, AppType, NoMetrics, Metrics
  <2>2. \A r \in Request : ~InDecision(req'[r])
    <3>1. ASSUME NEW r \in Request
          PROVE  ~InDecision(IF r \in Serving THEN Rejected ELSE req[r])
      BY DEF Serving, At, Finished, InDecision, Rejected
    <3>. QED BY <1>5, <3>1 DEF Crash
  <2>3. HistoryType'
    BY <1>5, BoundsAssumption DEF Crash, HistoryType
  <2>. QED BY <2>1, <2>2, <2>3 DEF DecisionsFindAlert, NobodyDecides
<1>6. CASE Restart
  <2>1. PICK failed \in SUBSET {s \in Store : disk[s].state = "complete"} :
          /\ load_errors + Cardinality(failed) <= MaxLoadErrors
          /\ load_errors' = load_errors + Cardinality(failed)
    BY <1>6 DEF Restart
  <2>2. /\ up' = TRUE /\ ~up
        /\ UNCHANGED <<flagged_accounts, ai_recommendations, metrics, req,
                       disk, snapshot, durable, past, crashes>>
    BY <1>6 DEF Restart
  <2>3. load_errors' \in Nat
    BY PersistStepType DEF PersistTypes, PersistType
  <2>4. HistoryType'
    BY <2>1, <2>2, <2>3, BoundsAssumption DEF HistoryType
  <2>5. \A r \in Request : ~InDecision(req'[r])
    BY <2>2 DEF NobodyDecides
  <2>. QED BY <2>2, <2>4, <2>5 DEF AppType, DecisionsFindAlert
<1>7. CASE UNCHANGED allVars
  BY <1>2, <1>7 DEF allVars, persistVars, historyVars, HistoryType
<1>. QED BY <1>1, <1>3, <1>4, <1>5, <1>6, <1>7 DEF PersistNext

\* Every store, file and task keeps its type across saves, crashes and
\* restarts; in particular a decision in progress never flags the accounts of
\* an alert that is gone.
THEOREM PersistTypeCorrect == PersistSpec => []PersistTypeOK
<1>1. PersistInit => AllTypes
  <2> SUFFICES ASSUME PersistInit PROVE AllTypes
    OBVIOUS
  <2>1. AppType
    BY DEF PersistInit, Init, AppType, NoMetrics, Metrics
  <2>2. DecisionsFindAlert
    BY DEF PersistInit, Init, DecisionsFindAlert, InDecision, Idle
  <2>3. up = TRUE /\ HistoryType
    BY BoundsAssumption DEF PersistInit, HistoryType
  <2>. QED BY <2>1, <2>2, <2>3 DEF AllTypes
<1>2. PersistTypes /\ AllTypes /\ [PersistNext]_allVars => AllTypes'
  BY AllTypesStay
<1>3. PersistTypes /\ AllTypes => PersistTypeOK
  <2> SUFFICES ASSUME PersistTypes, AllTypes PROVE PersistTypeOK
    OBVIOUS
  <2>1. TypeOK /\ up \in BOOLEAN
    BY DEF PersistTypes, PersistType, CoreType, AllTypes, AppType, TypeOK
  <2>2. DOMAIN disk = Store
        /\ \A s \in Store :
             \/ disk[s] \in {Absent, Torn}
             \/ disk[s].state = "complete" /\ disk[s].data \in FileType(s)
    BY DEF PersistTypes, PersistType, File, AuditOnDisk, FileType, Store,
           AlertMap, Absent
  <2>3. /\ snapshot.turn \in {1, 2}
        /\ snapshot.step \in {"copy", "write", "rename"}
        /\ snapshot.answered \subseteq Request
        /\ snapshot.serving \subseteq Request
        /\ snapshot.ok \in BOOLEAN
    BY DEF PersistTypes, PersistType, SnapshotTask
  <2>. QED BY <2>1, <2>2, <2>3 DEF AllTypes, HistoryType, PersistTypeOK
<1>. QED BY <1>1, <1>2, <1>3, PersistTyped, PTL DEF PersistSpec

=============================================================================
