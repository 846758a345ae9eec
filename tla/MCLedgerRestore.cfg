\* One process, whose file is cut back in place between its calls.
CONSTANTS
    Proc = {p1}
    Key = {k1, k2}
    Val = {"provisional", "final"}
    Junk = Junk
    None = None
    Ops = {"append", "unique", "compare"}
    Faults = {"power", "truncate"}
    Allowed <- MCAllowed
    MaxLines = 3
SPECIFICATION Spec
INVARIANTS FreshMeansPrefix
