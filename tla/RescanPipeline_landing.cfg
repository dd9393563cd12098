SPECIFICATION FairSpec
CONSTANTS
    Registry <- MCRegistry
    Setups <- MCSetups
    Handles = {h1}
    Loops = {l1}
    Batches = {b1}
    None = None
    MaxFaults = 1
    MaxTriggers = 1
    MaxEdits = 1
INVARIANTS
    StaleIsReplaced
    TurnedOnIsScanned
PROPERTIES
    ComesToRest
