CONSTANTS
    p1 = p1
    p2 = p2
    f1 = f1
    f2 = f2
    None = None
    Proc = {p1, p2}
    Forecast = {f1}
    Terms <- MCTerms
    Observation <- ClashingObs
    Seal = {}
    Sources <- MCSources
    Informative <- MCInformative
    AtTimes = {3, 4}
    Resets = {FALSE, TRUE}
    Rebuilds = {FALSE, TRUE}
    Faults = {"io","crash"}
SPECIFICATION Spec
INVARIANTS
    TypeOK
    ExposedNeverEligible
    OutcomesGrounded
    SilenceRecorded
PROPERTIES
    ImplementsScoreboard
    ImplementsLogs
    ClosedWhenOver
SYMMETRY MCSymmetry
