----------------------------- MODULE DurableLog -----------------------------
(***************************************************************************)
(* What a ledger promises its users: one log that only grows, by entries   *)
(* admitted against everything before them, of which a prefix is on stable *)
(* storage and is never lost.                                              *)
(***************************************************************************)
EXTENDS Naturals, Sequences, SequencesExt

CONSTANTS
    Entry,          \* what a complete line may hold
    Mark,           \* the entry of a line that is not a record
    Restorable,     \* may an operator put an earlier state back?
    Admit(_, _)     \* may this entry follow this set of entries?

VARIABLES
    log,            \* the entries, oldest first
    durable         \* how many of them are on stable storage

Init == log = <<>> /\ durable = 0

\* An entry takes effect at the end of the log.
Grow ==
    /\ \E e \in Entry :
         /\ e = Mark \/ Admit(ToSet(log) \ {Mark}, e)
         /\ log' = Append(log, e)
    /\ UNCHANGED durable

\* Everything written so far reaches stable storage.
Harden == durable' = Len(log) /\ UNCHANGED log

\* A power failure takes entries that had not.
Lose ==
    \E n \in durable .. Len(log) :
        log' = SubSeq(log, 1, n) /\ durable' = n

\* An operator goes back to an earlier state.
Restore ==
    /\ Restorable
    /\ \E n \in 0 .. Len(log) :
         /\ log' = SubSeq(log, 1, n)
         /\ durable' \in 0 .. n

Next == Grow \/ Harden \/ Lose \/ Restore

Spec == Init /\ [][Next]_<<log, durable>>
=============================================================================
