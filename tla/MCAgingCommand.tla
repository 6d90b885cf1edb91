--------------------------- MODULE MCAgingCommand ---------------------------
(* Small instances of AgingCommand. *)
EXTENDS AgingCommand, TLC

\* The PNs are interchangeable in every state property.
Scans == Permutations(PNs)
=============================================================================
