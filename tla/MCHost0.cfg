CONSTANTS
    Run = {r1}
    Path = {u1, u2, u3}
    Leg = {"test", "package", "docs"}
    PlanLegs <- MCPlanLegs
    RepositoryPlan = "current"
    Forecasts <- MCForecasts
    Reports <- MCReports
    AtTimes = {1, 3, 4}
    Window = 2
    None = None
    Malformed = Malformed
    Faults = {"crash", "io"}
SPECIFICATION Spec
SYMMETRY MCSymmetry
INVARIANTS TypeOK SealHonest VerdictJustified AbsenceIsLateness ReceiptTrue
CHECK_DEADLOCK FALSE
