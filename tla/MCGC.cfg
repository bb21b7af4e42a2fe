SPECIFICATION FairSpec
CONSTANTS
  Object = {a, b, c}
  DefaultsAreObjects = FALSE
INVARIANTS CollectorInv NothingElseKept
PROPERTIES ReachableKept CollectionEnds
