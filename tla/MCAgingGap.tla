----------------------------- MODULE MCAgingGap -----------------------------
(* Small instances of AgingGap. *)
EXTENDS AgingGap, TLC
=============================================================================
