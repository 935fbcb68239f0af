--------------------------- MODULE MCPluginState ---------------------------
(* Three prompts and a history of two, so that prompts fall out of it and  *)
(* come back; up to three editor states pile up in a project.              *)
(* The prompts are interchangeable.                                        *)
EXTENDS PluginState, TLC

Symmetry == Permutations(Prompt)

=============================================================================
