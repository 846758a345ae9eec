CONSTANTS
    Proc = {p1, p2}
    Key = {k1}
    Val = {"provisional", "final"}
    Junk = Junk
    None = None
    Ops = {"unique", "compare"}
    Faults = {"power", "alien", "replace"}
    Allowed <- MCAllowed
    MaxLines = 3
SPECIFICATION FairSpec
INVARIANTS TypeOK FreshMeansPrefix EveryLineAdmitted AppendedIsDurable
PROPERTIES ImplementsDurableLog AppendReturns
