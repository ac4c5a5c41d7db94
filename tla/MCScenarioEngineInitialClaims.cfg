\* The claims of an initial phase: what the documentation says of phase entry.
CONSTANTS
  Resource <- MCResource
  Recipe <- EagerRecipes
  NoRecipe = NoRecipe
  MAX_RESOURCES = 3
  MAX_SEQUENCES = 1
  MAX_TRACKS = 2
  UINT32_MAX = 6
  DT = 1
SPECIFICATION Spec
INVARIANTS
  ClaimedAtPhaseEntry
