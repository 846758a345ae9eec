------------------------------ MODULE MCHistory ------------------------------
(***************************************************************************)
(* Two receipts of one file each; receipt a is promoted from the start,    *)
(* and may get a second file, which its manifest does not list.            *)
(***************************************************************************)
EXTENDS History

CONSTANTS k1, k2

MCReceiptOf ==
    [p \in Path |-> CASE p \in {"a/receipt.json", "a/more"} -> "a"
                      [] p = "b/receipt.json" -> "b"
                      [] OTHER -> None]

\* Receipt a offers a sample; b offers another one, and exposes the first.
MCBatchOf ==
    [d \in Receipt |->
       [valid |-> TRUE,
        samples |-> {[key |-> IF d = "a" THEN k1 ELSE k2, blind |-> TRUE]},
        amended |-> IF d = "b" THEN {k1} ELSE {}]]

Promoted ==
    [p \in Path |-> IF p = Registry THEN <<>>
                    ELSE IF ReceiptOf[p] = "a" /\ p \notin Unlisted THEN "bound" ELSE None]
=============================================================================
