----------------------------- MODULE MCSubstrate -----------------------------
(***************************************************************************)
(* One forecast about a CI verdict, the observations and seals of one run. *)
(***************************************************************************)
EXTENDS Substrate, TLC

CONSTANTS f1, f2, p1, p2

MCTerms ==
    [f \in Forecast |->
       [subject |-> "commit", created |-> 1, horizon |-> 3, accepts |-> {"valid"},
        observable |-> IF f = f1 THEN "ci.green" ELSE "ci.duration",
        holds |-> {"green"}, blind |-> f = f1]]

\* A forecast that was never blind: no amendments, nothing eligible.
ExposedTerms == [f \in Forecast |-> [MCTerms[f] EXCEPT !.blind = FALSE]]

\* Both forecasts wait for the same observable.
TwoGreenTerms == [f \in Forecast |-> [MCTerms[f] EXCEPT !.observable = "ci.green"]]

Obs(id, seq, arrived, value) ==
    [kind |-> "observation", source |-> "ci", id |-> id, subject |-> "commit",
     observable |-> "ci.green", epoch |-> "run", seq |-> seq, arrived |-> arrived,
     value |-> value, validity |-> "valid"]

SealOf(source, final) ==
    [kind |-> "seal", source |-> source, epoch |-> "run", subject |-> "commit",
     final |-> final, complete |-> TRUE, sealed |-> 4]

MCSources == [o \in {"ci.green", "ci.duration"} |-> {"ci"}]
MCInformative == {"ci.green"}

\* Two admissible observations, which disagree; a seal over both, and one that says
\* that there were none.
TwoObs == {Obs("a", 1, 2, "red"), Obs("b", 2, 3, "green")}
TwoSeal == {SealOf("ci", 2)}
SilentSeal == {SealOf("ci", 0)}
\* One identity, two payloads.
ClashingObs == {Obs("a", 1, 2, "red"), Obs("a", 1, 2, "green")}
OneObs == {Obs("a", 1, 2, "red")}
OneSeal == {SealOf("ci", 1)}
\* Two that came too late for the forecast, in one slot, and one in time in the next;
\* the stream sealed with one slot, with two, or with three.
LateObs == {Obs("c", 1, 5, "green"), Obs("d", 1, 5, "red"), Obs("b", 2, 3, "green")}
AnySeal == {SealOf("ci", final) : final \in 1 .. 3}

MCSymmetry == Permutations(Proc)
=============================================================================
