CONSTANTS
    e1 = e1
    e2 = e2
    e3 = e3
    p1 = p1
    Exporter = {e1, e2, e3}
    Payload = {p1}
    Manifest = Manifest
    Other = Other
    OtherFiles <- Damaged
    None = None
    Faults = {"io", "crash"}
SPECIFICATION FairSpec
INVARIANTS TypeOK PartialOnlyIfRetracted NoLitter EndedMeansThere
PROPERTIES OnlyOwnRemoved ReturnedStays ImplementsReceipt ExportEnds
CHECK_DEADLOCK FALSE
