------------------------------ MODULE AuditLog ------------------------------
(***************************************************************************)
(* crates/audit: the append-only, hash-chained audit log.                  *)
(*                                                                         *)
(* `records` is the vector behind AuditLog's RwLock.  append holds the     *)
(* write lock from the read of the last record's hash to the push, so it   *)
(* is one step; the callers that append take one such step per record.     *)
(*                                                                         *)
(* SHA-256 is abstracted to a collision-free hash: the hash of a record is *)
(* the term built from its predecessor's hash and its own content.  The    *)
(* fields no property tells apart (record_id, tx_hash, timestamp, notes,   *)
(* the wording of context_summary) are left out of the content.            *)
(***************************************************************************)
EXTENDS Naturals, Sequences, Common

CONSTANTS
    AlertId,         \* alert identifiers (Uuid)
    InvestigatorId,  \* identities the API's tokens stand for
    Score,           \* anomaly scores
    Confidence       \* confidences of recommendations

ASSUME ConfidenceAssumption == 0 \in Confidence

VARIABLE records

-----------------------------------------------------------------------------
(* AuditEventKind *)

\* What the log keeps of a recommendation.
Advice == [confidence : Confidence, model_available : BOOLEAN]

AlertCreated(score) ==
    [event_type |-> "alert_created", anomaly_score |-> score]
RulesTriggered == [event_type |-> "rules_triggered"]
AiContextSent == [event_type |-> "ai_context_sent"]
AiRecommendationReceived(advice) ==
    [event_type |-> "ai_recommendation_received",
     confidence |-> advice.confidence,
     model_available |-> advice.model_available]
InvestigatorDecision(who, decision) ==
    [event_type |-> "investigator_decision",
     investigator_id |-> who, decision |-> decision]
StatusChanged(from, to) ==
    [event_type |-> "status_changed", from |-> from, to |-> to]

AuditEventKind ==
    {AlertCreated(s) : s \in Score}
      \cup {RulesTriggered, AiContextSent}
      \cup {AiRecommendationReceived(x) : x \in Advice}
      \cup {InvestigatorDecision(w, d) :
              w \in InvestigatorId, d \in InvestigationStatus}
      \cup {StatusChanged(f, t) :
              f \in InvestigationStatus, t \in InvestigationStatus}

-----------------------------------------------------------------------------
(* The hash chain *)

Content == AlertId \X AuditEventKind

Hash == Seq(Content)

GENESIS_HASH == << >>

compute_hash(prev_hash, alert_id, event) ==
    Append(prev_hash, <<alert_id, event>>)

AuditRecord ==
    [alert_id : AlertId, event : AuditEventKind,
     prev_hash : Hash, this_hash : Hash]

\* The hash the record at position i must chain to.
ExpectedPrev(log, i) ==
    IF i = 1 THEN GENESIS_HASH ELSE log[i - 1].this_hash

ChainBroken(log, i) == log[i].prev_hash # ExpectedPrev(log, i)

HashMismatch(log, i) ==
    log[i].this_hash
      # compute_hash(log[i].prev_hash, log[i].alert_id, log[i].event)

\* Mutant: only the links are checked, never the content.
verify_links_only(log) == \A i \in DOMAIN log : ~ChainBroken(log, i)

\* verify_integrity returns Ok: no index has a broken link or a wrong hash.
\* (The index of the first failure is reporting, and is left out.)
verify_integrity(log) ==
    \A i \in DOMAIN log : ~ChainBroken(log, i) /\ ~HashMismatch(log, i)

-----------------------------------------------------------------------------
(* Operations *)

AuditInit == records = << >>

NextRecord(log, alert_id, event) ==
    LET prev_hash == ExpectedPrev(log, Len(log) + 1)
    IN  [alert_id  |-> alert_id,
         event     |-> event,
         prev_hash |-> prev_hash,
         this_hash |-> compute_hash(prev_hash, alert_id, event)]

\* Mutant: two appenders read the tail before either takes the write lock,
\* so the second one chains to the record before the last.
append_stale(alert_id, event) ==
    \/ records' = Append(records, NextRecord(records, alert_id, event))
    \/ /\ records # << >>
       /\ LET stale == SubSeq(records, 1, Len(records) - 1)
          IN  records' = Append(records, NextRecord(stale, alert_id, event))

\* Mutant: a bounded log that drops its oldest record.
append_evict(alert_id, event) ==
    LET grown == Append(records, NextRecord(records, alert_id, event))
    IN  records' = IF Len(grown) > 3 THEN Tail(grown) ELSE grown

append(alert_id, event) ==
    records' = Append(records, NextRecord(records, alert_id, event))

for_alert(log, alert_id) ==
    SelectSeq(log, LAMBDA r : r.alert_id = alert_id)

-----------------------------------------------------------------------------
(* Tampering with a log at rest, as verify_integrity's comment lists it:   *)
(* a record altered (its hashes left as they were), two neighbours         *)
(* swapped, or a record removed from before the tail.                      *)

Altered(log) ==
    {[log EXCEPT ![i].event = e] :
        i \in DOMAIN log, e \in AuditEventKind} \ {log}

Reordered(log) ==
    {[log EXCEPT ![i] = log[i + 1], ![i + 1] = log[i]] :
        i \in 1..(Len(log) - 1)}

Removed(log) ==
    {SubSeq(log, 1, i - 1) \o SubSeq(log, i + 1, Len(log)) :
        i \in 1..(Len(log) - 1)}

Tampered(log) == Altered(log) \cup Reordered(log) \cup Removed(log)

=============================================================================
