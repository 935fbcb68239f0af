SPECIFICATION Spec
CONSTANTS
  Prompt = {p, q, r}
  NoText = NoText
  MaxHistory = 2
  RestoreWhileOpen = FALSE
  MaxChildren = 3
INVARIANTS
  RestoresWhatWasSaved
  EditorIsCurrent
SYMMETRY Symmetry
