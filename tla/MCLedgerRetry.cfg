\* A retry of a record that another process wrote but could not fsync.
CONSTANTS
    Proc = {p1, p2}
    Key = {k1}
    Val = {"provisional", "final"}
    Junk = Junk
    None = None
    Ops = {"unique"}
    Faults = {"power"}
    Allowed <- MCAllowed
    MaxLines = 2
SPECIFICATION Spec
INVARIANTS AcceptedIsDurable
