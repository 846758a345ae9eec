CONSTANTS
    k1 = k1
    k2 = k2
    Path = {"exclusions", "a/receipt.json", "b/receipt.json"}
    Registry = "exclusions"
    Receipt = {"a", "b"}
    ReceiptOf <- MCReceiptOf
    Unlisted = {}
    BatchOf <- MCBatchOf
    RootTree <- Promoted
    Key = {k1, k2}
    Broken = Broken
    None = None
    Refused = Refused
    MaxCommits = 3
    MaxChecks = 3
    MaxLines = 1
SPECIFICATION Spec
INVARIANT AcceptedHeadsKeep
CHECK_DEADLOCK FALSE
