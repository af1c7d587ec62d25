SPECIFICATION Spec
CONSTANTS
  mashing = mashing
  boiling = boiling
  low = low
  high = high
  Kinds = {mashing, boiling}
  NrParameters = 2
  Words = {low, high}
  Empty = Empty
  Star = Star
  Default = Default
  Refused <- MCRefused
  Recipes <- MCRecipes
  MaxSteps = 4
  MaxCommands = 4
  MaxQueue = 2
INVARIANTS TypeOK OnlyActiveRuns SavedIsCurrent PlainStepsRestored
PROPERTY DropMovesOne
