\* Two slots, three recipes that compete for three resources, a map of two.
CONSTANTS
  Resource <- MCResource
  Recipe <- CoreRecipes
  NoRecipe = NoRecipe
  MAX_RESOURCES = 2
  MAX_SEQUENCES = 2
  MAX_TRACKS = 2
  UINT32_MAX = 6
  DT = 1
SPECIFICATION Spec
INVARIANTS
  TypeOK
  WellFormed
  OwnershipIsLive
  WorkHoldsItsClaims
  TimeoutsDominate
  ObserversAreCurrent
  VerdictIsTrue
PROPERTIES
  NoTheft
  EndIsFinal
  LifecycleSpec
