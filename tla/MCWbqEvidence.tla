--------------------------- MODULE MCWbqEvidence ---------------------------
(* An instance of WbqEvidence for TLC. *)
EXTENDS WbqEvidence, TLC

=============================================================================
