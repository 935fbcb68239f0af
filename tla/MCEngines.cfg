\* One call of an engine ends: there is no deadlock to look for.
SPECIFICATION Spec
CHECK_DEADLOCK FALSE
INVARIANT ParallelsOnlyAtTheEdge
INVARIANT ModulationSound
INVARIANT ReharmonizationSound
INVARIANT EnsemblePlaysTheChords
INVARIANT ArrangesThePiece
INVARIANT PromptBecomesPiece
INVARIANT PlanSound
