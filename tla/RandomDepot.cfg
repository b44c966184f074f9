SPECIFICATION Spec
CONSTANTS
  Files <- MCFiles
  Places <- MCPlaces
  Km <- MCKm
  NumPoints = {4}
  NumClusters = {3}
  Densities = {6, 12}
  Limits <- MCLimits
  Radian = 57
  Wrap = 8
  Memory = 6
\* the draws may be in vain
CHECK_DEADLOCK FALSE
INVARIANT RandomDepotWithinLimits
