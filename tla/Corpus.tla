------------------------------- MODULE Corpus -------------------------------
(***************************************************************************)
(* The published calibration corpus (src/hanish/receipts.py): which of the *)
(* samples that validated receipts offer may be counted, given the         *)
(* registry of exclusions and the amendments that came with the receipts.  *)
(*                                                                         *)
(* A key is the pair of repository and forecast.  A line of the registry   *)
(* is the key it excludes, or Broken if it is no valid exclusion record.   *)
(* A batch is what one provider loads: whether its validation succeeds,    *)
(* its samples and the keys its amendments expose; batches is a function   *)
(* from providers to what they load.                                       *)
(***************************************************************************)
EXTENDS Naturals, Sequences, SequencesExt

CONSTANTS
    Key,            \* forecast coordinates
    Broken,         \* a line that is not a valid exclusion record
    Refused         \* the corpus fails closed: nobody sees a sample

Registries == Seq(Key \cup {Broken})

\* _load_exclusion_bytes accepts the registry.
ValidRegistry(lines) == Broken \notin ToSet(lines)

\* ExclusionRegistry.excludes
Excludes(lines, key) == key \in ToSet(lines)

\* Mutated form: the prior lines may come back in another order.
OnlyAppendsSomewhere(prior, current) ==
    /\ ValidRegistry(prior)
    /\ ToSet(prior) \subseteq ToSet(current)
    /\ ValidRegistry(current)

\* validate_exclusion_prefix.
OnlyAppends(prior, current) ==
    /\ ValidRegistry(prior)
    /\ IsPrefix(prior, current)
    /\ ValidRegistry(current)

\* A sample as the corpus sees it: where it comes from, and what it says.
Offers(batches) == UNION {{<<i, s>> : s \in batches[i].samples} : i \in DOMAIN batches}
Exposed(batches) == UNION {batches[i].amended : i \in DOMAIN batches}

\* Every input validates, and no two samples are about one forecast.
Coherent(lines, batches) ==
    /\ ValidRegistry(lines)
    /\ \A i \in DOMAIN batches : batches[i].valid
    /\ \A x, y \in Offers(batches) : x[2].key = y[2].key => x = y

\* iter_eligible_calibration_samples: every check of registry and batches comes
\* before the first sample is handed out.
Eligible(lines, batches) ==
    IF ~Coherent(lines, batches) THEN Refused
    ELSE {x[2] : x \in {y \in Offers(batches) :
                          /\ y[2].blind
                          /\ y[2].key \notin Exposed(batches)
                          /\ ~Excludes(lines, y[2].key)}}
=============================================================================
