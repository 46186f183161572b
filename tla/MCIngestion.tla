---------------------------- MODULE MCIngestion ----------------------------
(***************************************************************************)
(* Values of the constants for the runs of Ingestion.                      *)
(***************************************************************************)
EXTENDS Ingestion

\* The second operation has a timestamp that does not parse.
MCNormalizable == 1..LedgerLength \ {2}

=============================================================================
