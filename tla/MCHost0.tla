------------------------------- MODULE MCHost0 -------------------------------
(***************************************************************************)
(* A plan of two legs, and the reports of two attempts at it.              *)
(***************************************************************************)
EXTENDS Host0, TLC

MCPlanLegs == [current |-> <<"test", "package">>, former |-> <<"test", "docs">>]

Artifact(plan) == [identity |-> "attempt 2", plan |-> plan, created |-> 1]
MCForecasts == {Artifact("current"), Artifact("former")}

Steps(install, gate) ==
    [checkout |-> "success", setup |-> "success", install |-> install, gate |-> gate]
Report(leg, steps) ==
    [identity |-> "attempt 2", plan |-> "current", leg |-> leg, steps |-> steps,
     whole |-> TRUE, created |-> 2]

Good == Report("test", Steps("success", "success"))

\* What either leg may say, and one report for each thing wrong with a report.
MCReports ==
    {Report("test", Steps("success", gate)) : gate \in {"success", "failure", "cancelled"}}
    \cup {Report("package", Steps("success", gate)) : gate \in {"success", "failure"}}
    \cup {Report("package", Steps("failure", "skipped")),
          [Good EXCEPT !.identity = "attempt 1"],
          [Good EXCEPT !.plan = "former"],
          [Good EXCEPT !.plan = "former", !.leg = "docs"],
          [Good EXCEPT !.whole = FALSE],
          [Good EXCEPT !.created = 4]}

\* What two legs that ran may say: two executions of the aggregator read these.
MCAnswers ==
    {Report(leg, Steps("success", gate)) :
       leg \in {"test", "package"}, gate \in {"success", "failure"}}

MCSymmetry == Permutations(Path)
MCRunSymmetry == Permutations(Run)
=============================================================================
