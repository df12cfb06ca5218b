SPECIFICATION ViewSpec
CONSTANTS
  Id = {1, 2, 3}
  Scores = {0, 1}
  Dates = {0, 1}
  Nobody = Nobody
INVARIANTS OrderIrrelevant
PROPERTIES KeepsChoice
