--------------------------- MODULE AlertLifecycle ---------------------------
(***************************************************************************)
(* crates/alerts (AlertManager) and the API handlers that drive it, over   *)
(* the audit log.                                                          *)
(*                                                                         *)
(* Each HTTP request is served by its own task.  The handlers share the    *)
(* alert map, the audit log, the flagged-account set and the stored AI     *)
(* recommendations, each behind a lock of its own that is released between *)
(* two uses; a handler is therefore a sequence of atomic steps, one per    *)
(* lock acquisition, and the steps of different requests interleave.       *)
(***************************************************************************)
EXTENDS AuditLog, FiniteSets

CONSTANTS
    Request,    \* HTTP requests; each is served once
    AccountId,  \* Stellar accounts
    RoleOf,     \* AuthRegistry: the role of each authenticated investigator
    Decision    \* the statuses clients submit

ASSUME RoleOfAssumption == RoleOf \in [InvestigatorId -> Role]
ASSUME DecisionAssumption == Decision \subseteq InvestigationStatus

NoAlert == [status |-> "none"]
NoAccount == "no_account"            \* destination_account is None
NoRecommendation == [by |-> "none"]

ASSUME NoAccountAssumption == NoAccount \notin AccountId

VARIABLES
    alerts,              \* AlertManager.alerts
    flagged_accounts,    \* AppState.flagged_accounts
    ai_recommendations,  \* AppState.ai_recommendations
    metrics,             \* AppState.metrics, the counters these handlers bump
    req                  \* control state and locals of each request's task

appVars == <<alerts, flagged_accounts, ai_recommendations, metrics>>
vars == <<records, appVars, req>>

-----------------------------------------------------------------------------
(* Types *)

Alert ==
    [status : InvestigationStatus,
     source_account : AccountId,
     destination_account : AccountId \cup {NoAccount}]

AiRecommendation == [by : Request, advice : Advice]

\* FallbackAdvisor's answer.
Fallback == [confidence |-> 0, model_available |-> FALSE]

Metrics ==
    [alerts_created_total : Nat, investigator_decisions_total : Nat,
     ai_recommendations_total : Nat, ai_fallback_total : Nat]

NoMetrics ==
    [alerts_created_total |-> 0, investigator_decisions_total |-> 0,
     ai_recommendations_total |-> 0, ai_fallback_total |-> 0]

\* The stages of a request's task: before its first step, the three
\* handlers with the locals they carry across steps, and an error response.
Idle == [pc |-> "idle"]
Rejected == [pc |-> "rejected"]
Creating ==
    [pc : {"log_created", "log_rules", "created"},
     alert_id : AlertId, anomaly_score : Score]
Deciding ==
    [pc : {"log_decision", "log_status", "flag", "decided"},
     alert_id : AlertId, who : InvestigatorId,
     from : InvestigationStatus, decision : InvestigationStatus]
Advising ==
    [pc : {"log_sent", "investigate", "log_received", "store", "advised",
           "dropped"},
     alert_id : AlertId, advice : Advice]

Stage == {Idle, Rejected} \cup Creating \cup Deciding \cup Advising

TypeOK ==
    /\ records \in Seq(AuditRecord)
    /\ alerts \in [AlertId -> Alert \cup {NoAlert}]
    /\ flagged_accounts \subseteq AccountId
    /\ ai_recommendations \in
         [AlertId -> AiRecommendation \cup {NoRecommendation}]
    /\ metrics \in Metrics
    /\ req \in [Request -> Stage]

Exists(a) == alerts[a] # NoAlert

Init ==
    /\ AuditInit
    /\ alerts = [a \in AlertId |-> NoAlert]
    /\ flagged_accounts = {}
    /\ ai_recommendations = [a \in AlertId |-> NoRecommendation]
    /\ metrics = NoMetrics
    /\ req = [r \in Request |-> Idle]

At(r, label) == req[r].pc = label

Goto(r, label) == req' = [req EXCEPT ![r].pc = label]

-----------------------------------------------------------------------------
(* create_alert, as run_evaluation calls it when a rule triggered: insert  *)
(* the alert, then record AlertCreated, then RulesTriggered.  The identity *)
(* is a fresh Uuid, so no existing alert is replaced.  Whether a rule      *)
(* triggered, and the score, are inputs here.                              *)

InsertAlert(r, a, src, dst, score) ==
    /\ At(r, "idle")
    /\ ~Exists(a)
    /\ alerts' = [alerts EXCEPT ![a] =
                    [status |-> "open", source_account |-> src,
                     destination_account |-> dst]]
    /\ req' = [req EXCEPT ![r] =
                 [pc |-> "log_created", alert_id |-> a,
                  anomaly_score |-> score]]
    /\ metrics' = [metrics EXCEPT !.alerts_created_total = @ + 1]
    /\ UNCHANGED <<records, flagged_accounts, ai_recommendations>>

LogAlertCreated(r) ==
    /\ At(r, "log_created")
    /\ append(req[r].alert_id, AlertCreated(req[r].anomaly_score))
    /\ Goto(r, "log_rules")
    /\ UNCHANGED appVars

LogRulesTriggered(r) ==
    /\ At(r, "log_rules")
    /\ append(req[r].alert_id, RulesTriggered)
    /\ Goto(r, "created")
    /\ UNCHANGED appVars

-----------------------------------------------------------------------------
(* submit_decision: the role check, then apply_investigator_decision, then *)
(* the flagged accounts.                                                   *)

\* An unknown token (401), a role that may not decide (403), an alert that
\* does not exist (404): an error response, and nothing changes.
Reject(r) ==
    /\ At(r, "idle")
    /\ req' = [req EXCEPT ![r] = Rejected]
    /\ UNCHANGED <<records, appVars>>

\* validate_transition(from, to) always returns Ok: any status may follow
\* any other.
validate_transition(from, to) == TRUE

\* Mutant: the previous status is read before the write lock is taken, so
\* another decision may slip in between; any status it replaced can be seen.
WriteDecisionStaleFrom(r, who, a, decision) ==
    /\ At(r, "idle")
    /\ can_decide(RoleOf[who])
    /\ Exists(a)
    /\ alerts' = [alerts EXCEPT ![a].status = decision]
    /\ \E from \in {alerts[a].status} \cup
                    {req[q].from : q \in {q \in Request :
                        At(q, "log_decision") /\ req[q].alert_id = a}} :
         req' = [req EXCEPT ![r] =
                   [pc |-> "log_decision", alert_id |-> a, who |-> who,
                    from |-> from, decision |-> decision]]
    /\ UNCHANGED <<records, flagged_accounts, ai_recommendations, metrics>>

\* Mutant: a decision that leaves the status as it is skips the audit log.
WriteDecisionQuietly(r, who, a, decision) ==
    /\ At(r, "idle")
    /\ can_decide(RoleOf[who])
    /\ Exists(a)
    /\ alerts' = [alerts EXCEPT ![a].status = decision]
    /\ req' = [req EXCEPT ![r] =
                 [pc |-> "flag", alert_id |-> a, who |-> who,
                  from |-> alerts[a].status, decision |-> decision]]
    /\ UNCHANGED <<records, flagged_accounts, ai_recommendations, metrics>>

\* Under the write lock: read the previous status, write the new one, clone.
WriteDecision(r, who, a, decision) ==
    /\ At(r, "idle")
    /\ can_decide(RoleOf[who])
    /\ Exists(a)
    /\ validate_transition(alerts[a].status, decision)
    /\ alerts' = [alerts EXCEPT ![a].status = decision]
    /\ req' = [req EXCEPT ![r] =
                 [pc |-> "log_decision", alert_id |-> a, who |-> who,
                  from |-> alerts[a].status, decision |-> decision]]
    /\ UNCHANGED <<records, flagged_accounts, ai_recommendations, metrics>>

LogDecision(r) ==
    /\ At(r, "log_decision")
    /\ append(req[r].alert_id,
              InvestigatorDecision(req[r].who, req[r].decision))
    /\ Goto(r, "log_status")
    /\ UNCHANGED appVars

LogStatus(r) ==
    /\ At(r, "log_status")
    /\ append(req[r].alert_id,
              StatusChanged(req[r].from, req[r].decision))
    /\ Goto(r, "flag")
    /\ UNCHANGED appVars

AccountsOf(a) ==
    {alerts[a].source_account, alerts[a].destination_account} \ {NoAccount}

\* Mutant: only the source account of a confirmed alert is flagged.
FlagSourceOnly(r) ==
    /\ At(r, "flag")
    /\ flagged_accounts' =
         IF req[r].decision = "confirmed_suspicious"
         THEN flagged_accounts \cup {alerts[req[r].alert_id].source_account}
         ELSE flagged_accounts
    /\ metrics' = [metrics EXCEPT !.investigator_decisions_total = @ + 1]
    /\ Goto(r, "decided")
    /\ UNCHANGED <<records, alerts, ai_recommendations>>

\* Mutant: the absent destination of a payment is flagged like an account.
FlagUnfiltered(r) ==
    /\ At(r, "flag")
    /\ flagged_accounts' =
         IF req[r].decision = "confirmed_suspicious"
         THEN flagged_accounts
                \cup {alerts[req[r].alert_id].source_account,
                      alerts[req[r].alert_id].destination_account}
         ELSE flagged_accounts
    /\ metrics' = [metrics EXCEPT !.investigator_decisions_total = @ + 1]
    /\ Goto(r, "decided")
    /\ UNCHANGED <<records, alerts, ai_recommendations>>

\* Mutant: the status is re-read from the shared map instead of taken from
\* the clone made under the lock.
FlagByCurrentStatus(r) ==
    /\ At(r, "flag")
    /\ flagged_accounts' =
         IF alerts[req[r].alert_id].status = "confirmed_suspicious"
         THEN flagged_accounts \cup AccountsOf(req[r].alert_id)
         ELSE flagged_accounts
    /\ metrics' = [metrics EXCEPT !.investigator_decisions_total = @ + 1]
    /\ Goto(r, "decided")
    /\ UNCHANGED <<records, alerts, ai_recommendations>>

\* Mutant: the handler keeps a lock while it waits for the flag lock that
\* another decision holds.
FlagWaits(r) ==
    /\ At(r, "flag")
    /\ \A q \in Request \ {r} : ~At(q, "flag")
    /\ Goto(r, "decided")
    /\ UNCHANGED <<records, appVars>>

Flag(r) ==
    /\ At(r, "flag")
    /\ flagged_accounts' =
         IF req[r].decision = "confirmed_suspicious"
         THEN flagged_accounts \cup AccountsOf(req[r].alert_id)
         ELSE flagged_accounts
    /\ metrics' = [metrics EXCEPT !.investigator_decisions_total = @ + 1]
    /\ Goto(r, "decided")
    /\ UNCHANGED <<records, alerts, ai_recommendations>>

-----------------------------------------------------------------------------
(* get_ai_investigation: look the alert up, record AiContextSent, await    *)
(* the advisor, record AiRecommendationReceived, store the recommendation. *)
(* No lock is held across the await.                                       *)

LookUpAlert(r, a) ==
    /\ At(r, "idle")
    /\ Exists(a)
    /\ req' = [req EXCEPT ![r] =
                 [pc |-> "log_sent", alert_id |-> a, advice |-> Fallback]]
    /\ UNCHANGED <<records, appVars>>

LogContextSent(r) ==
    /\ At(r, "log_sent")
    /\ append(req[r].alert_id, AiContextSent)
    /\ Goto(r, "investigate")
    /\ UNCHANGED appVars

\* Mutant: only an answer of the model counts towards the total.
AdvisorAnswersUncounted(r, advice) ==
    /\ At(r, "investigate")
    /\ advice.model_available \/ advice = Fallback
    /\ metrics' =
         [metrics EXCEPT
            !.ai_recommendations_total =
               IF advice.model_available THEN @ + 1 ELSE @,
            !.ai_fallback_total =
               IF advice.model_available THEN @ ELSE @ + 1]
    /\ req' = [req EXCEPT ![r].pc = "log_received", ![r].advice = advice]
    /\ UNCHANGED <<records, alerts, flagged_accounts, ai_recommendations>>

\* AdvisorService::investigate always answers: the model's response, or the
\* fallback (model_available = false) when the model call fails or times out.
AdvisorAnswers(r, advice) ==
    /\ At(r, "investigate")
    /\ advice.model_available \/ advice = Fallback
    /\ metrics' =
         [metrics EXCEPT
            !.ai_recommendations_total = @ + 1,
            !.ai_fallback_total =
               IF advice.model_available THEN @ ELSE @ + 1]
    /\ req' = [req EXCEPT ![r].pc = "log_received", ![r].advice = advice]
    /\ UNCHANGED <<records, alerts, flagged_accounts, ai_recommendations>>

\* The client closes the connection during the await: the server drops the
\* handler's future and nothing after the await runs.  (A panic of the
\* sanitiser, see Advisor, ends the handler here in the same way.)
ClientDisconnects(r) ==
    /\ At(r, "investigate")
    /\ Goto(r, "dropped")
    /\ UNCHANGED <<records, appVars>>

\* Mutant: the recommendation is stored before it is recorded.
LogReceivedAfterStore(r) ==
    /\ At(r, "log_received")
    /\ ai_recommendations' =
         [ai_recommendations EXCEPT ![req[r].alert_id] =
            [by |-> r, advice |-> req[r].advice]]
    /\ Goto(r, "store")
    /\ UNCHANGED <<records, alerts, flagged_accounts, metrics>>

LogReceived(r) ==
    /\ At(r, "log_received")
    /\ append(req[r].alert_id, AiRecommendationReceived(req[r].advice))
    /\ Goto(r, "store")
    /\ UNCHANGED appVars

\* Mutant: a confident recommendation closes the alert by itself.
StoreAndApply(r) ==
    /\ At(r, "store")
    /\ ai_recommendations' =
         [ai_recommendations EXCEPT ![req[r].alert_id] =
            [by |-> r, advice |-> req[r].advice]]
    /\ alerts' = IF req[r].advice.model_available
                 THEN [alerts EXCEPT ![req[r].alert_id].status = "dismissed"]
                 ELSE alerts
    /\ Goto(r, "advised")
    /\ UNCHANGED <<records, flagged_accounts, metrics>>

StoreRecommendation(r) ==
    /\ At(r, "store")
    /\ ai_recommendations' =
         [ai_recommendations EXCEPT ![req[r].alert_id] =
            [by |-> r, advice |-> req[r].advice]]
    /\ Goto(r, "advised")
    /\ UNCHANGED <<records, alerts, flagged_accounts, metrics>>

-----------------------------------------------------------------------------
(* A request arrives: the first step of its handler. *)
Arrive(r) ==
    \/ \E a \in AlertId, src \in AccountId,
          dst \in AccountId \cup {NoAccount}, score \in Score :
         InsertAlert(r, a, src, dst, score)
    \/ Reject(r)
    \/ \E who \in InvestigatorId, a \in AlertId, decision \in Decision :
         WriteDecision(r, who, a, decision)
    \/ \E a \in AlertId : LookUpAlert(r, a)

(* A request that has been accepted moves on. *)
Advance(r) ==
    \/ LogAlertCreated(r)
    \/ LogRulesTriggered(r)
    \/ LogDecision(r)
    \/ LogStatus(r)
    \/ Flag(r)
    \/ LogContextSent(r)
    \/ \E advice \in Advice : AdvisorAnswers(r, advice)
    \/ LogReceived(r)
    \/ StoreRecommendation(r)

Next == \E r \in Request : Arrive(r) \/ Advance(r) \/ ClientDisconnects(r)

Spec == Init /\ [][Next]_vars

\* The runtime keeps polling a task until it finishes, no lock is held
\* across an await, and the advisor's call has a timeout: an accepted request
\* always gets to its next step.  No request has to arrive.
Fairness == \A r \in Request : WF_vars(Advance(r))

FairSpec == Spec /\ Fairness

-----------------------------------------------------------------------------
(* Properties *)

Finished(r) ==
    req[r].pc \in {"created", "decided", "advised", "dropped", "rejected"}

Quiescent == \A r \in Request : At(r, "idle") \/ Finished(r)

Records(a, event) ==
    {i \in DOMAIN records :
        records[i].alert_id = a /\ records[i].event = event}

OfType(type) == {i \in DOMAIN records : records[i].event.event_type = type}

\* The audit log the handlers build together passes verify_integrity at
\* every moment, however their appends interleave.
AuditChainIntact == verify_integrity(records)

\* Whatever the handlers recorded, verify_integrity notices a record that is
\* altered, swapped with its neighbour, or removed from before the tail
\* (audit/src/lib.rs, the comment on verify_integrity).
TamperEvident == \A log \in Tampered(records) : ~verify_integrity(log)

\* No step of any handler removes or rewrites a record: the log only grows
\* at its end.
AuditAppendOnly ==
    [][/\ Len(records') >= Len(records)
       /\ SubSeq(records', 1, Len(records)) = records]_vars

\* What a request has put into the audit log when it reaches the stage `q`.
LoggedBy(q) ==
    LET Of(events) == {<<q.alert_id, e>> : e \in events}
        Decided == InvestigatorDecision(q.who, q.decision)
        Received == AiRecommendationReceived(q.advice)
    IN  CASE q.pc = "log_rules" -> Of({AlertCreated(q.anomaly_score)})
          [] q.pc = "created" ->
               Of({AlertCreated(q.anomaly_score), RulesTriggered})
          [] q.pc = "log_status" -> Of({Decided})
          [] q.pc \in {"flag", "decided"} ->
               Of({Decided, StatusChanged(q.from, q.decision)})
          [] q.pc \in {"investigate", "log_received", "dropped"} ->
               Of({AiContextSent})
          [] q.pc \in {"store", "advised"} -> Of({AiContextSent, Received})
          [] OTHER -> {}

Logged(r) == LoggedBy(req[r])

\* Every event a request causes is in the audit log exactly once: the log
\* holds what the requests have logged, no more and no less, so an answered
\* request is completely recorded and no record comes from nowhere.
AuditExactlyOnce ==
    LET contents == {<<records[i].alert_id, records[i].event>> :
                        i \in DOMAIN records}
    IN  \A c \in contents \cup UNION {Logged(r) : r \in Request} :
          Cardinality(Records(c[1], c[2]))
            = Cardinality({r \in Request : c \in Logged(r)})

\* The status changes of an alert, recorded or still owed by a request that
\* has written the status, form a trail from "open" to the current status:
\* every status is left as often as it is entered.  Decisions that race may
\* be recorded out of order, but none is lost and none has a wrong `from`.
StatusFlowConserved ==
    LET Owes(r, a) == /\ req[r].pc \in {"log_decision", "log_status"}
                      /\ req[r].alert_id = a
        Changes(a) == {i \in OfType("status_changed") :
                          records[i].alert_id = a}
        Left(a, s) ==
            Cardinality({i \in Changes(a) : records[i].event.from = s})
            + Cardinality({r \in Request : Owes(r, a) /\ req[r].from = s})
            + (IF alerts[a].status = s THEN 1 ELSE 0)
        Entered(a, s) ==
            Cardinality({i \in Changes(a) : records[i].event.to = s})
            + Cardinality({r \in Request : Owes(r, a) /\ req[r].decision = s})
            + (IF s = "open" THEN 1 ELSE 0)
    IN  \A a \in AlertId, s \in InvestigationStatus :
          Exists(a) => Left(a, s) = Entered(a, s)

\* A status other than the initial "open" is the decision of someone whose
\* role may decide, and that decision is in the audit log or about to be
\* appended by the request that wrote the status (the AI never decides).
StatusIsAHumanDecision ==
    \A a \in AlertId :
      alerts[a].status \in InvestigationStatus \ {"open"} =>
        \E who \in InvestigatorId :
          /\ can_decide(RoleOf[who])
          /\ \/ Records(a, InvestigatorDecision(who, alerts[a].status)) # {}
             \/ \E r \in Request :
                  /\ At(r, "log_decision")
                  /\ req[r].alert_id = a
                  /\ req[r].who = who
                  /\ req[r].decision = alerts[a].status

\* Once a confirmation has been answered, both accounts of its alert are in
\* the set the flagged-account rule consults, and stay there.
ConfirmedAccountsFlagged ==
    \A r \in Request :
      At(r, "decided") /\ req[r].decision = "confirmed_suspicious" =>
        AccountsOf(req[r].alert_id) \subseteq flagged_accounts

\* An account is flagged only after a confirmation of one of its alerts has
\* been recorded.
FlagsAreAudited ==
    \A account \in flagged_accounts :
      \E a \in AlertId, who \in InvestigatorId :
        /\ Exists(a)
        /\ account \in AccountsOf(a)
        /\ Records(a, InvestigatorDecision(who, "confirmed_suspicious")) # {}

\* A stored recommendation can be traced in the audit log: what was sent to
\* the advisor for that alert, and later the answer, with its confidence
\* and whether a model gave it.
RecommendationAudited ==
    \A a \in AlertId :
      LET rec == ai_recommendations[a]
      IN  rec # NoRecommendation =>
            \E i \in Records(a, AiContextSent),
               j \in Records(a, AiRecommendationReceived(rec.advice)) : i < j

\* With no request in flight, the counters of GET /metrics agree with the
\* alert map and with the audit log.
MetricsMatchAudit ==
    Quiescent =>
      /\ metrics.alerts_created_total
           = Cardinality({a \in AlertId : Exists(a)})
      /\ metrics.alerts_created_total = Cardinality(OfType("alert_created"))
      /\ metrics.investigator_decisions_total
           = Cardinality(OfType("investigator_decision"))
      /\ metrics.ai_recommendations_total
           = Cardinality(OfType("ai_recommendation_received"))
      /\ metrics.ai_fallback_total
           = Cardinality({i \in OfType("ai_recommendation_received") :
                             ~records[i].event.model_available})

\* Every request that has been accepted is answered or dropped by its client.
RequestsFinish ==
    \A r \in Request : ~At(r, "idle") ~> Finished(r)

\* docs/audit-model.md:18: the records of an alert are enough to reconstruct
\* what happened to it, in order.  With no request in flight, the last status
\* change recorded for an alert is its status.
AuditReplaysStatus ==
    Quiescent =>
      \A a \in AlertId :
        LET changes == SelectSeq(for_alert(records, a),
                         LAMBDA r : r.event.event_type = "status_changed")
        IN  changes # << >> =>
              changes[Len(changes)].event.to = alerts[a].status

-----------------------------------------------------------------------------
(* The handlers implement AuditTrail.  An entry is owed from the step that *)
(* makes it due (the locked write, the look-up, the advisor's answer) to   *)
(* the step that appends it.                                               *)

OwedEvents(r) ==
    LET q == req[r]
        Changed == StatusChanged(q.from, q.decision)
    IN  CASE q.pc = "log_created" ->
               <<AlertCreated(q.anomaly_score), RulesTriggered>>
          [] q.pc = "log_rules" -> <<RulesTriggered>>
          [] q.pc = "log_decision" ->
               <<InvestigatorDecision(q.who, q.decision), Changed>>
          [] q.pc = "log_status" -> <<Changed>>
          [] q.pc = "log_sent" -> <<AiContextSent>>
          [] q.pc = "log_received" ->
               <<AiRecommendationReceived(q.advice)>>
          [] OTHER -> << >>

Owed ==
    [r \in Request |->
       [i \in DOMAIN OwedEvents(r) |->
          <<req[r].alert_id, OwedEvents(r)[i]>>]]

DecisionEventsOf(who, old, new) ==
    <<InvestigatorDecision(who, new), StatusChanged(old, new)>>

Trail == INSTANCE AuditTrail WITH
    Origin <- Request,
    Subject <- AlertId,
    Person <- InvestigatorId,
    Authorised <- {who \in InvestigatorId : can_decide(RoleOf[who])},
    Outcome <- Decision,
    OpeningEvents <- {<<AlertCreated(s), RulesTriggered>> : s \in Score},
    DecisionEvents <- DecisionEventsOf,
    AdviceEvents <- {<<AiContextSent>>}
                      \cup {<<AiRecommendationReceived(x)>> : x \in Advice},
    status <- [a \in AlertId |-> alerts[a].status],
    owed <- Owed,
    log <- [i \in DOMAIN records |-> <<records[i].alert_id, records[i].event>>]

\* The interleaved handlers, locks and hash chain implement AuditTrail: each
\* handler step is one of its steps or changes nothing it can see, and every
\* entry a handler owes is recorded in the end.
ImplementsAuditTrail == Trail!Spec

=============================================================================
