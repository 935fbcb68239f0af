SPECIFICATION Spec
CONSTANTS
  Prompt = {p, q, r}
  NoText = NoText
  MaxHistory = 2
  RestoreWhileOpen = TRUE
  MaxChildren = 2
INVARIANTS
  RestoresWhatWasSaved
SYMMETRY Symmetry
