----------------------------- MODULE AuditTrail -----------------------------
(***************************************************************************)
(* What alerts and their audit log promise together, with no locks,        *)
(* handlers or hashes: a status changes in one step, that step fixes the   *)
(* audit events the change owes, and the owed events enter the log one at  *)
(* a time, each exactly once and in the order they are owed.  Consulting   *)
(* the AI owes audit events and touches no status.                         *)
(*                                                                         *)
(* AlertLifecycle implements this specification.                           *)
(***************************************************************************)
EXTENDS Sequences, Common

CONSTANTS
    Origin,          \* what makes a change: the requests
    Subject,         \* what has a status: the alerts
    Person,          \* who may be named in a decision
    Authorised,      \* those of them who may decide
    Outcome,         \* the statuses they may choose
    OpeningEvents,   \* the events an alert may open with: a set of sequences
    DecisionEvents(_, _, _),  \* the events of: person, old status, new status
    AdviceEvents     \* the events consulting the AI may owe: sequences

VARIABLES
    status,  \* the status of each subject, "none" before it is opened
    owed,    \* for each origin, the entries it still has to record
    log      \* the entries recorded

vars == <<status, owed, log>>

\* The entries of the events es about subject a.
Entries(a, es) == [i \in DOMAIN es |-> <<a, es[i]>>]

Init ==
    /\ status = [a \in Subject |-> "none"]
    /\ owed = [r \in Origin |-> << >>]
    /\ log = << >>

Owe(r, a, es) ==
    /\ owed[r] = << >>
    /\ owed' = [owed EXCEPT ![r] = Entries(a, es)]
    /\ UNCHANGED log

Open(r, a) ==
    /\ status[a] = "none"
    /\ status' = [status EXCEPT ![a] = "open"]
    /\ \E es \in OpeningEvents : Owe(r, a, es)

Decide(r, a, who, new) ==
    /\ status[a] # "none"
    /\ who \in Authorised
    /\ status' = [status EXCEPT ![a] = new]
    /\ Owe(r, a, DecisionEvents(who, status[a], new))

Consult(r, a) ==
    /\ status[a] # "none"
    /\ UNCHANGED status
    /\ \E es \in AdviceEvents : Owe(r, a, es)

Record(r) ==
    /\ owed[r] # << >>
    /\ log' = Append(log, Head(owed[r]))
    /\ owed' = [owed EXCEPT ![r] = Tail(@)]
    /\ UNCHANGED status

Next ==
    \E r \in Origin :
      \/ \E a \in Subject :
           \/ Open(r, a)
           \/ \E who \in Person, new \in Outcome : Decide(r, a, who, new)
           \/ Consult(r, a)
      \/ Record(r)

\* Everything owed is recorded in the end.
Spec == Init /\ [][Next]_vars /\ \A r \in Origin : WF_vars(Record(r))

=============================================================================
