----------------------------- MODULE MCExporter -----------------------------
(***************************************************************************)
(* Three exporters of a run with a payload file.                           *)
(***************************************************************************)
EXTENDS Exporter

CONSTANTS e1, e2, e3, p1

\* A receipt that lacks its manifest.
Damaged == {p1}
=============================================================================
