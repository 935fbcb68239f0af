----------------------------- MODULE MCEditor -----------------------------
(***************************************************************************)
(* The editor's three parts that share no variable: the prompt, the roll   *)
(* and the diff; the tooltip; the presets.  A behaviour follows one of     *)
(* them.                                                                   *)
(***************************************************************************)
EXTENDS Editor, Presets, TLC

VARIABLE focus

vars == <<focus, hoverVars, editorVars, presetVars>>

(* Left of the roll, the keyboard's last column, both sides of a bar line, *)
(* and right of the roll.  Takes and editors are interchangeable.          *)
MCPointerX == {-60, 49, 334, 335, 700}
Symmetry == Permutations(Takes) \cup Permutations(Editors)

(* The edges of the areas, of bars and of rows, and pixels around them.    *)
HoverX == 45..55 \cup 330..340 \cup {0, 199, 200, 201, 618, 619}
HoverY == 18..33 \cup 207..219 \cup {0}

Init ==
  /\ HoverInit /\ EditorInit /\ PresetsInit
  /\ focus \in {"editor", "tooltip", "presets"}

EditorStep == focus = "editor" /\ EditorNext /\ UNCHANGED <<focus, hoverVars, presetVars>>

TooltipStep ==
  /\ focus = "tooltip"
  /\ mouseExit \/ \E x \in HoverX, y \in HoverY : mouseMove(x, y)
  /\ UNCHANGED <<focus, editorVars, presetVars>>

PresetsStep == focus = "presets" /\ PresetsNext /\ UNCHANGED <<focus, hoverVars, editorVars>>

Next == EditorStep \/ TooltipStep \/ PresetsStep

Spec == Init /\ [][Next]_vars

=============================================================================
