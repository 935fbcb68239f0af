SPECIFICATION Spec
CONSTANTS
  Bars = 4
  Arrangements <- MCArrangements
  HumanDraw <- MCHumanDraw
  VelocityDraw = {50}
INVARIANTS
  DetectsWhatWasVoiced
  NotesSurvive
  ExportKeepsNotes
CHECK_DEADLOCK FALSE
