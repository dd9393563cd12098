----------------------------- MODULE MCCliCache -----------------------------
EXTENDS CliCache, TLC
CONSTANTS o1, g1, g2
MCOsvCells == {o1}
MCGemCells == {g1, g2}
\* A tree of one ecosystem, and one that holds a second.
MCTrees == {{o1, g1}, {o1, g1, g2}}
\* Nothing is promised once it is excused, and an excuse is not taken back.
MCPromised == Promised
MCSymmetry == Permutations(Runs)
=============================================================================
