SPECIFICATION CliSpec
CONSTANTS
    Runs = {r1, r2}
    o1 = o1
    g1 = g1
    g2 = g2
    OsvCells <- MCOsvCells
    GemCells <- MCGemCells
    Trees <- MCTrees
    None = None
    ExportLags = FALSE
    Excused = {"doubled", "deleted", "crossed"}
    MaxVersion = 2
    MaxHead = 2
    MaxStarts = 2
    MaxFetches = 2
    MaxFaults = 1
INVARIANTS
    StampsAreTrue
    AnswersAreRead
PROPERTIES
    RegistryKeepsNewest
CHECK_DEADLOCK FALSE

SYMMETRY MCSymmetry
CONSTRAINT MCPromised
