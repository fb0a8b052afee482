\* Every definition of the instance, every struct of it, any one loss.
SPECIFICATION Spec
CONSTANTS
    Definitions <- MCDefinitions
    Values = {"one", "two"}
    MaxItems = 1
INVARIANTS
    RoundTrip
    LossIsNoticedOrLocal
