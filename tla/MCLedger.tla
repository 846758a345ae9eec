------------------------------ MODULE MCLedger ------------------------------
(* Values of Ledger's constants for TLC.                                   *)
EXTENDS Ledger

\* The transition rule of the outcome ledger: a provisional record comes first
\* or not at all, a final one comes last.
MCAllowed(existing, r) ==
    \/ existing = {}
    \/ (\A e \in existing : e.val = "provisional") /\ r.val = "final"
=============================================================================
