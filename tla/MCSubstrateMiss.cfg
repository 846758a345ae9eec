CONSTANTS
    p1 = p1
    p2 = p2
    f1 = f1
    f2 = f2
    None = None
    Proc = {p1, p2}
    Forecast = {f1}
    Terms <- ExposedTerms
    Observation <- LateObs
    Seal <- AnySeal
    Sources <- MCSources
    Informative <- MCInformative
    AtTimes = {4}
    Resets = {FALSE}
    Rebuilds = {FALSE, TRUE}
    Faults = {}
SPECIFICATION Spec
INVARIANTS FirstValidTerminal MissJustified OutcomesGrounded
SYMMETRY MCSymmetry
