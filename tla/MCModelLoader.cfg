CONSTANTS
  Slots = 2
  Ratios <- MCRatios
  Splits <- MCSplits
  MaxLoads = 3

SPECIFICATION Spec

INVARIANTS
  TypeOK
  HandlesOwnResources

\* A behaviour ends once MaxLoads calls have been made and every handle freed.
CHECK_DEADLOCK FALSE
