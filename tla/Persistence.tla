---------------------------- MODULE Persistence ----------------------------
(***************************************************************************)
(* crates/api/src/persistence.rs over crates/storage, composed with the    *)
(* handlers of AlertLifecycle: the periodic snapshot of alerts and audit   *)
(* records to two JSON files, the crash of the process, and the restore at *)
(* the next start.                                                         *)
(*                                                                         *)
(* The snapshot task runs beside the handlers; it copies each store under  *)
(* that store's lock and writes the copy with no lock held.  The 30 s      *)
(* sleep between two cycles is arbitrary delay.                            *)
(***************************************************************************)
EXTENDS AlertLifecycle

CONSTANTS
    Reparse,        \* what parsing the printed form of a number returns
    MaxCrashes,     \* bound: crashes of the process
    MaxLoadErrors   \* bound: snapshot files that exist and fail to load

ASSUME ReparseAssumption ==
    \A S \in {Score, Confidence} : \A x \in S : Reparse[x] \in S
ASSUME BoundsAssumption == MaxCrashes \in Nat /\ MaxLoadErrors \in Nat

VARIABLES
    up,           \* the process is running and serving
    disk,         \* the two snapshot files
    snapshot,     \* control state and locals of the snapshot task
    durable,      \* history: requests answered before a completed cycle began
    past,         \* history: requests answered before the last crash
    crashes,      \* history: crashes so far
    load_errors   \* history: files that failed to load so far

historyVars == <<durable, past, crashes, load_errors>>
persistVars == <<up, disk, snapshot, historyVars>>
allVars == <<vars, persistVars>>

-----------------------------------------------------------------------------
(* JsonFileStore: a file is absent, holds a complete snapshot, or is torn. *)

Absent == [state |-> "absent"]
Torn == [state |-> "torn"]
Complete(data) == [state |-> "complete", data |-> data]

Store == {"alerts", "audit"}

\* Mutant: the audit log is copied before the alerts.
OrderSwapped == <<"audit", "alerts">>

\* The order in which a cycle snapshots the stores.
Order == <<"alerts", "audit">>

\* Mutant: each store is saved under the other's path.
ContentsSwapped(store) == IF store = "audit" THEN alerts ELSE records

Contents(store) == IF store = "alerts" THEN alerts ELSE records

Nothing == << >>

\* The task between two cycles.  `answered` and `serving` (history) are the
\* requests answered and in flight when the cycle began, `ok` says whether
\* every save of the cycle so far has succeeded.
Sleeping ==
    [turn |-> 1, step |-> "copy", copy |-> Nothing,
     answered |-> {}, serving |-> {}, ok |-> FALSE]

\* What a file holds that is complete.
FileType(store) ==
    IF store = "alerts" THEN [AlertId -> Alert \cup {NoAlert}]
    ELSE Seq(AuditRecord)

PersistTypeOK ==
    /\ TypeOK
    /\ up \in BOOLEAN
    /\ DOMAIN disk = Store
    /\ \A s \in Store :
         \/ disk[s] \in {Absent, Torn}
         \/ disk[s].state = "complete" /\ disk[s].data \in FileType(s)
    /\ snapshot.turn \in {1, 2}
    /\ snapshot.step \in {"copy", "write", "rename"}
    /\ snapshot.answered \subseteq Request
    /\ snapshot.serving \subseteq Request
    /\ snapshot.ok \in BOOLEAN
    /\ durable \subseteq Request
    /\ past \subseteq Request
    /\ crashes \in 0..MaxCrashes
    /\ load_errors \in 0..MaxLoadErrors

PersistInit ==
    /\ Init
    /\ up = TRUE
    /\ disk = [s \in Store |-> Absent]
    /\ snapshot = Sleeping
    /\ durable = {}
    /\ past = {}
    /\ crashes = 0
    /\ load_errors = 0

-----------------------------------------------------------------------------
(* spawn_periodic_snapshot *)

Answered == {r \in Request : Finished(r)} \ past
Serving == {r \in Request : ~At(r, "idle") /\ ~Finished(r)}

\* alerts.list() or audit.all(): the copy of one store, under its lock.
CopyStore ==
    /\ up
    /\ snapshot.step = "copy"
    /\ LET first == snapshot.turn = 1
       IN  snapshot' =
             [snapshot EXCEPT
                !.step = "write",
                !.copy = Contents(Order[snapshot.turn]),
                !.answered = IF first THEN Answered ELSE @,
                !.serving = IF first THEN Serving ELSE @,
                !.ok = IF first THEN TRUE ELSE @]
    /\ UNCHANGED <<vars, up, disk, historyVars>>

\* Mutant: the snapshot file is written in place.
WriteInPlace ==
    /\ up
    /\ snapshot.step = "write"
    /\ snapshot' = [snapshot EXCEPT !.step = "rename"]
    /\ disk' = [disk EXCEPT ![Order[snapshot.turn]] = Torn]
    /\ UNCHANGED <<vars, up, historyVars>>

\* save: the temporary file is written; nothing ever reads it but rename.
WriteTemporary ==
    /\ up
    /\ snapshot.step = "write"
    /\ snapshot' = [snapshot EXCEPT !.step = "rename"]
    /\ UNCHANGED <<vars, up, disk, historyVars>>

\* After the last store the task sleeps; `ok` keeps the cycle's result.
NextTurn(ok) ==
    snapshot' = [snapshot EXCEPT !.turn = 3 - @, !.step = "copy",
                                 !.copy = Nothing, !.ok = @ /\ ok]

\* save: the temporary file replaces the snapshot.
Rename ==
    /\ up
    /\ snapshot.step = "rename"
    /\ disk' = [disk EXCEPT ![Order[snapshot.turn]] = Complete(snapshot.copy)]
    /\ NextTurn(TRUE)
    /\ durable' = IF snapshot.turn = 2 /\ snapshot.ok
                  THEN durable \cup snapshot.answered
                  ELSE durable
    /\ UNCHANGED <<vars, up, past, crashes, load_errors>>

\* save returns an error (directory, write or rename): it is logged, and the
\* task goes on to the next store.
SaveFails ==
    /\ up
    /\ snapshot.step \in {"write", "rename"}
    /\ NextTurn(FALSE)
    /\ UNCHANGED <<vars, up, disk, historyVars>>

-----------------------------------------------------------------------------
(* Crash and restart *)

\* The process dies: everything in memory is gone, and the requests it was
\* serving get no answer.
Crash ==
    /\ up
    /\ crashes < MaxCrashes
    /\ up' = FALSE
    /\ crashes' = crashes + 1
    /\ records' = << >>
    /\ alerts' = [a \in AlertId |-> NoAlert]
    /\ flagged_accounts' = {}
    /\ ai_recommendations' = [a \in AlertId |-> NoRecommendation]
    /\ metrics' = NoMetrics
    /\ req' = [r \in Request |-> IF r \in Serving THEN Rejected ELSE req[r]]
    /\ snapshot' = Sleeping
    /\ past' = {r \in Request : Finished(r)}
    /\ UNCHANGED <<disk, durable, load_errors>>

\* Reading a record back from JSON: a score and a confidence, which are f64,
\* pass through the printed form; the hashes are strings and come back as
\* they were.
ReparsedEvent(event) ==
    CASE event.event_type = "alert_created" ->
           [event EXCEPT !.anomaly_score = Reparse[@]]
      [] event.event_type = "ai_recommendation_received" ->
           [event EXCEPT !.confidence = Reparse[@]]
      [] OTHER -> event

Reparsed(log) ==
    [i \in DOMAIN log |-> [log[i] EXCEPT !.event = ReparsedEvent(@)]]

\* Mutant: the audit log of the last run is ignored at start.
RestartForgetful ==
    /\ ~up
    /\ up' = TRUE
    /\ alerts' = IF disk["alerts"].state = "complete"
                 THEN disk["alerts"].data ELSE alerts
    /\ UNCHANGED <<records, flagged_accounts, ai_recommendations, metrics, req,
                   disk, snapshot, historyVars>>

\* Mutant: the first record of the file is skipped on restore.
RestartRechained ==
    /\ ~up
    /\ up' = TRUE
    /\ records' = IF disk["audit"].state = "complete"
                     /\ Len(disk["audit"].data) > 1
                  THEN Tail(disk["audit"].data) ELSE records
    /\ UNCHANGED <<alerts, flagged_accounts, ai_recommendations, metrics, req,
                   disk, snapshot, historyVars>>

\* main: restore_on_startup, then the snapshot task, then serving.  A file
\* that fails to load (an I/O or parse error) is treated like a missing one:
\* the store starts empty.  The outcome of verify_integrity is only logged.
Restart ==
    /\ ~up
    /\ up' = TRUE
    /\ \E failed \in SUBSET {s \in Store : disk[s].state = "complete"} :
         LET Loads(s) == disk[s].state = "complete" /\ s \notin failed
         IN  /\ load_errors + Cardinality(failed) <= MaxLoadErrors
             /\ load_errors' = load_errors + Cardinality(failed)
             /\ alerts' = IF Loads("alerts")
                          THEN disk["alerts"].data ELSE alerts
             /\ records' = IF Loads("audit")
                           THEN Reparsed(disk["audit"].data) ELSE records
    /\ UNCHANGED <<flagged_accounts, ai_recommendations, metrics, req,
                   disk, snapshot, durable, past, crashes>>

-----------------------------------------------------------------------------
Serve == up /\ Next /\ UNCHANGED persistVars

PersistNext ==
    \/ Serve
    \/ CopyStore
    \/ WriteTemporary
    \/ Rename
    \/ SaveFails
    \/ Crash
    \/ Restart

PersistSpec == PersistInit /\ [][PersistNext]_allVars

-----------------------------------------------------------------------------
(* Properties *)

\* The hashes of a log, which survive the round trip through JSON unchanged.
Chain(log) == [i \in DOMAIN log |-> log[i].this_hash]

Extends(log, older) ==
    /\ Len(older) <= Len(log)
    /\ SubSeq(Chain(log), 1, Len(older)) = Chain(older)

\* As long as every existing file loads, no snapshot ever loses audit
\* records an earlier one had put on disk: across saves that fail, crashes
\* in the middle of a save (storage/src/json_file.rs:9-13) and restarts, the
\* chain on disk only grows.
DiskAuditGrows ==
    [][/\ load_errors' = 0
       /\ disk["audit"].state = "complete"
       => /\ disk'["audit"].state = "complete"
          /\ Extends(disk'["audit"].data, disk["audit"].data)]_allVars

\* Once a snapshot cycle that began after a request was answered has
\* completed, the audit records of that request are never lost again, as
\* long as every existing file loads.
DurableRequestsStayRecorded ==
    up /\ load_errors = 0 =>
      \A r \in durable : \A c \in Logged(r) : Records(c[1], c[2]) # {}

\* The two files of a completed cycle fit together: a status other than
\* "open" in the alerts file has its decision in the audit file, unless the
\* request that wrote it was in flight when the cycle began.  (Before the
\* first crash: a crash between the two saves of a cycle leaves files that
\* do not fit, and the next run carries what it restored from them along.)
SnapshotPairExplained ==
    LET cycleDone == snapshot.turn = 1 /\ snapshot.step = "copy" /\ snapshot.ok
        decidedOnDisk(a, s) ==
            \E i \in DOMAIN disk["audit"].data :
              /\ disk["audit"].data[i].alert_id = a
              /\ disk["audit"].data[i].event.event_type
                   = "investigator_decision"
              /\ disk["audit"].data[i].event.decision = s
        wasServed(a, s) ==
            \E r \in snapshot.serving :
              /\ req[r].pc \in {"log_decision", "log_status", "flag",
                                "decided"}
              /\ req[r].alert_id = a
              /\ req[r].decision = s
    IN  cycleDone /\ crashes = 0 =>
          \A a \in AlertId :
            LET s == disk["alerts"].data[a].status
            IN  s \in InvestigationStatus \ {"open"} =>
                  decidedOnDisk(a, s) \/ wasServed(a, s)

\* An audit log that nobody tampered with passes verify_integrity, before
\* and after a restart (audit/src/lib.rs:168-170: a mismatch means a record
\* was altered, reordered, or removed).
UntamperedLogVerifies == verify_integrity(records)

\* docs/human-in-the-loop.md:33: confirming an alert adds its accounts to
\* the flagged set, so future transactions touching them are caught.  The
\* accounts of an alert whose confirmation was answered and has been saved
\* are in the set whenever the server runs.
ConfirmedAlertsFlagged ==
    up => \A r \in durable :
            LET a == req[r].alert_id
            IN  /\ At(r, "decided")
                /\ req[r].decision = "confirmed_suspicious"
                /\ alerts[a].status = "confirmed_suspicious"
                => AccountsOf(a) \subseteq flagged_accounts

=============================================================================
