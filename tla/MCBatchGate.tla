----------------------------- MODULE MCBatchGate -----------------------------
(* BatchGate for TLC. *)
EXTENDS BatchGate
=============================================================================
