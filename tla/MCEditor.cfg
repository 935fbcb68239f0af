SPECIFICATION Spec
CONSTANTS
  Prompts = {p}
  NoText = NoText
  Blank = Blank
  Takes = {t, u}
  NoNotes = NoNotes
  PointerX <- MCPointerX
  MaxPending = 2
  Editors = {e, f}
  Factory = {Pop}
  Knobs = {j, k}
  NoPreset = NoPreset
  MaxNumber = 2
INVARIANTS
  RegenerationSound
  DiffIsCurrent
  HoverWithinAPixel
  LoneEditorMatchesFiles
PROPERTY
  SaveKeepsOthers
SYMMETRY Symmetry
