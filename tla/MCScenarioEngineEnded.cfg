\* What a scenario owns after its completion rule has ended it.
CONSTANTS
  Resource <- MCResource
  Recipe <- RacingRecipes
  NoRecipe = NoRecipe
  MAX_RESOURCES = 3
  MAX_SEQUENCES = 1
  MAX_TRACKS = 2
  UINT32_MAX = 6
  DT = 1
SPECIFICATION Spec
INVARIANTS
  EndedHoldsNothing
