CONSTANTS
    p1 = p1
    p2 = p2
    f1 = f1
    f2 = f2
    None = None
    Proc = {p1}
    Forecast = {f1}
    Terms <- MCTerms
    Observation <- OneObs
    Seal <- OneSeal
    Sources <- MCSources
    Informative <- MCInformative
    AtTimes = {4}
    Resets = {FALSE}
    Rebuilds = {FALSE}
    Faults = {"io"}
SPECIFICATION Spec
INVARIANT MissJustified
