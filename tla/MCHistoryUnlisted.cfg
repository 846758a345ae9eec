CONSTANTS
    k1 = k1
    k2 = k2
    Path = {"exclusions", "a/receipt.json", "b/receipt.json", "a/more"}
    Registry = "exclusions"
    Receipt = {"a", "b"}
    ReceiptOf <- MCReceiptOf
    Unlisted = {"a/more"}
    BatchOf <- MCBatchOf
    RootTree <- Promoted
    Key = {k1, k2}
    Broken = Broken
    None = None
    Refused = Refused
    MaxCommits = 4
    MaxChecks = 2
    MaxLines = 2
SPECIFICATION Spec
INVARIANTS TypeOK AcceptedRangeKeeps PromotedForGood NeverReadmitted
CHECK_DEADLOCK FALSE
