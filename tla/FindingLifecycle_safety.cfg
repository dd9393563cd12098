CONSTANTS
  Manifests = {m1, m2}
  Advisories = {a}
  Order <- MCOrder
  Grade <- MCGrade
  Slots = {k1}
  MaxChanges = 2
  MaxFaults = 1
  MayBeEmpty = TRUE
  MidScan = FALSE
  Legacy = TRUE
SPECIFICATION Spec
SYMMETRY MCSymmetry
INVARIANTS TruthAfterScan SettledOnItsEvidence NewEpisodesAreSingle
PROPERTIES UnreadCopiesStay DisabledKeepsFindings
