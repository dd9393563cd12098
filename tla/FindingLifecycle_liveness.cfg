CONSTANTS
  Manifests = {m1}
  Advisories = {a}
  Order <- MCOrder
  Grade <- MCGrade
  Slots = {k1, k2}
  MaxChanges = 1
  MaxFaults = 1
  MayBeEmpty = FALSE
  MidScan = TRUE
  Legacy = FALSE
SPECIFICATION FairSpec
PROPERTIES PortalConverges
