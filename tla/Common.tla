------------------------------- MODULE Common -------------------------------
(***************************************************************************)
(* Shared types of crates/common: the status of an alert and the roles     *)
(* that authorise a decision.                                              *)
(***************************************************************************)

InvestigationStatus ==
    {"open", "under_investigation", "escalated", "dismissed",
     "confirmed_suspicious"}

Role == {"viewer", "investigator", "admin"}

can_decide(role) == role \in {"investigator", "admin"}

=============================================================================
