\* Two processes: a file cut back in place is grown again by the other one.
CONSTANTS
    Proc = {p1, p2}
    Key = {k1}
    Val = {"provisional", "final"}
    Junk = Junk
    None = None
    Ops = {"append"}
    Faults = {"truncate"}
    Allowed <- MCAllowed
    MaxLines = 3
SPECIFICATION Spec
INVARIANTS FreshMeansPrefix
