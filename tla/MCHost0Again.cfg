CONSTANTS
    Run = {r1, r2}
    Path = {u1, u2, u3}
    Leg = {"test", "package", "docs"}
    PlanLegs <- MCPlanLegs
    RepositoryPlan = "current"
    Forecasts <- MCForecasts
    Reports <- MCAnswers
    AtTimes = {3, 4}
    Window = 2
    None = None
    Malformed = Malformed
    Faults = {"crash"}
SPECIFICATION Spec
SYMMETRY MCRunSymmetry
INVARIANT ReceiptsAgree
CHECK_DEADLOCK FALSE
