------------------------------ MODULE Editor ------------------------------
(***************************************************************************)
(* The plug-in's editor at work (PluginEditor.cpp) with its piano roll     *)
(* (PianoRollComponent.cpp): the prompt, the selection of bars, the        *)
(* regeneration of a region and the diff of what it changed.               *)
(*                                                                         *)
(* All handlers run on the Message Thread, but juce::TextEditor posts its  *)
(* change and return messages, so that clicks may come between a change of *)
(* the text and its handler.  Notes are takes: what one answer of the      *)
(* engine holds.  The engine is the IEngineBridge, whose answers are a     *)
(* choice; the bridge of this build refuses every call.  The history and   *)
(* the saved state are PluginState's, but for the prompt that a new editor *)
(* finds.                                                                  *)
(***************************************************************************)
EXTENDS PianoRoll, Sequences

CONSTANTS
  Prompts,     \* prompts with a visible character
  NoText,      \* the empty prompt box
  Blank,       \* a prompt of white space
  Takes,       \* what an engine's answer may hold
  NoNotes,     \* the notes of a file that cannot be parsed, or none
  PointerX,    \* columns, seen from the roll, where the mouse may be
  MaxPending   \* bound: messages posted and not handled

ASSUME EditorAssumption ==
  /\ NoText \notin Prompts /\ Blank \notin Prompts /\ NoText # Blank
  /\ NoNotes \notin Takes
  /\ PointerX \subseteq Int /\ MaxPending \in Nat \ {0}

VARIABLES
  roll,        \* PianoRollComponent: notes_, the selection, the drag and the diff
  edit,        \* the editor: prompt, diff and what the buttons allow
  pending,     \* messages the prompt box has posted
  pressed,     \* a mouse button is held down on the roll
  sent,        \* the last request to the engine
  lastPrompt   \* the prompt of the saved state

editorVars == <<roll, edit, pending, pressed, sent, lastPrompt>>

Texts == Prompts \cup {NoText, Blank}
HasText(t) == t \in Prompts
NoRequest == [prompt |-> NoText, barStart |-> -1, barEnd |-> -1]

NewRoll ==
  [notes |-> NoNotes, selectedBarStart |-> -1, selectedBarEnd |-> -1,
   isDragging |-> FALSE, isDragExport |-> FALSE, dragStartTick |-> 0,
   diffMode |-> FALSE, before |-> NoNotes, after |-> NoNotes]

(* The constructor and loadState.                                          *)
NewEdit(prompt) ==
  [text |-> prompt, diffBefore |-> NoNotes, diffMode |-> FALSE,
   generate |-> prompt # NoText, regen |-> FALSE, diff |-> FALSE]

EditorInit ==
  /\ roll = NewRoll /\ edit = NewEdit(NoText) /\ pending = <<>>
  /\ pressed = FALSE /\ sent = NoRequest /\ lastPrompt = NoText

Reopen ==
  /\ roll' = NewRoll /\ edit' = NewEdit(lastPrompt) /\ pending' = <<>>
  /\ pressed' = FALSE /\ sent' = NoRequest
  /\ UNCHANGED lastPrompt

-----------------------------------------------------------------------------
(* The roll.                                                               *)
hasSelection(r) == r.selectedBarStart >= 0 /\ r.selectedBarEnd > r.selectedBarStart

clearSelection(r) ==
  [r EXCEPT !.selectedBarStart = -1, !.selectedBarEnd = -1,
            !.isDragging = FALSE, !.isDragExport = FALSE]

showDiff(r, before, after) ==
  [r EXCEPT !.before = before, !.after = after, !.diffMode = TRUE]

clearDiff(r) ==
  [r EXCEPT !.before = NoNotes, !.after = NoNotes, !.diffMode = FALSE]

Select(r, tick1, tick2) ==
  [r EXCEPT !.selectedBarStart = IF BarAt(tick1) <= BarAt(tick2) THEN BarAt(tick1) ELSE BarAt(tick2),
            !.selectedBarEnd = IF BarAt(tick1) <= BarAt(tick2) THEN BarAt(tick2) ELSE BarAt(tick1)]

(* Down in the header, whose left end lies over the keyboard, or in the    *)
(* grid; or on the keyboard.                                               *)
mouseDown(x, y) ==
  /\ ~pressed /\ InRoll(x, y)
  /\ roll' = IF InKeyboard(x, y)
             THEN [roll EXCEPT !.isDragExport = TRUE, !.isDragging = FALSE]
             ELSE Select([roll EXCEPT !.isDragging = TRUE, !.isDragExport = FALSE,
                                      !.dragStartTick = xToTick(x)],
                         xToTick(x), xToTick(x))
  /\ pressed' = TRUE
  /\ UNCHANGED <<edit, pending, sent, lastPrompt>>

(* From the keyboard the notes are dragged out once the mouse has moved    *)
(* far enough; what the file holds is MtePipeline's startSMFExport.        *)
mouseDragExport ==
  /\ pressed /\ roll.isDragExport
  /\ roll' = [roll EXCEPT !.isDragExport = FALSE, !.isDragging = FALSE]
  /\ UNCHANGED <<edit, pending, pressed, sent, lastPrompt>>

mouseDragSelect(x) ==
  /\ pressed /\ roll.isDragging /\ ~roll.isDragExport
  /\ roll' = Select(roll, roll.dragStartTick, xToTick(x))
  /\ UNCHANGED <<edit, pending, pressed, sent, lastPrompt>>

canRegen(r, text) == hasSelection(r) /\ HasText(text)

(* Mutant: the editor is not told.                                         *)
mouseUpSilent ==
  /\ pressed
  /\ roll' = [roll EXCEPT !.isDragging = FALSE, !.isDragExport = FALSE]
  /\ pressed' = FALSE
  /\ UNCHANGED <<edit, pending, sent, lastPrompt>>

mouseUp ==
  /\ pressed
  /\ roll' = [roll EXCEPT !.isDragging = FALSE, !.isDragExport = FALSE]
  /\ pressed' = FALSE
  /\ edit' = [edit EXCEPT !.regen = canRegen(roll, edit.text)]
  /\ UNCHANGED <<pending, sent, lastPrompt>>

-----------------------------------------------------------------------------
(* The prompt box.  Typing and picking from the history set the text and   *)
(* post a message; so does the return key.                                 *)
SetText(t) ==
  /\ edit.text # t /\ Len(pending) < MaxPending
  /\ edit' = [edit EXCEPT !.text = t]
  /\ pending' = Append(pending, "text")
  /\ UNCHANGED <<roll, pressed, sent, lastPrompt>>

PressReturn ==
  /\ Len(pending) < MaxPending
  /\ pending' = Append(pending, "return")
  /\ UNCHANGED <<roll, edit, pressed, sent, lastPrompt>>

Handle(message) == pending # <<>> /\ Head(pending) = message

textEditorTextChanged ==
  /\ Handle("text") /\ pending' = Tail(pending)
  /\ edit' = [edit EXCEPT !.generate = HasText(edit.text),
                          !.regen = canRegen(roll, edit.text)]
  /\ UNCHANGED <<roll, pressed, sent, lastPrompt>>

(* The prompt is generated, saved, and the editor's diff is over.  The     *)
(* roll is not told.                                                       *)
Generated ==
  /\ lastPrompt' = edit.text
  /\ edit' = [edit EXCEPT !.generate = TRUE, !.diffBefore = NoNotes,
                          !.diffMode = FALSE, !.diff = FALSE]

(* Return with shift begins a line.                                        *)
ReturnBeginsLine ==
  /\ Handle("return")
  /\ pending' = Append(Tail(pending), "text")
  /\ edit' = [edit EXCEPT !.text = IF @ = NoText THEN Blank ELSE @]
  /\ UNCHANGED <<roll, pressed, sent, lastPrompt>>

ReturnGenerates ==
  /\ Handle("return") /\ pending' = Tail(pending)
  /\ IF HasText(edit.text) THEN Generated ELSE UNCHANGED <<edit, lastPrompt>>
  /\ UNCHANGED <<roll, pressed, sent>>

ClickGenerate ==
  /\ ~pressed /\ edit.generate /\ HasText(edit.text)
  /\ Generated
  /\ UNCHANGED <<roll, pending, pressed, sent>>

SelectWorkflow ==
  /\ lastPrompt' = edit.text
  /\ UNCHANGED <<roll, edit, pending, pressed, sent>>

-----------------------------------------------------------------------------
(* The regeneration of the selected bars.                                  *)
Request ==
  [prompt |-> edit.text, barStart |-> roll.selectedBarStart, barEnd |-> roll.selectedBarEnd]

(* Mutant: the button is taken for the check.                              *)
CanRegenerateTrusting == ~pressed /\ edit.regen

CanRegenerate == ~pressed /\ edit.regen /\ hasSelection(roll) /\ HasText(edit.text)

(* Mutant: the roll goes on comparing with the notes of the diff before.   *)
RegeneratedStale(notes) ==
  /\ roll' = clearSelection([roll EXCEPT !.notes = notes, !.diffMode = TRUE])
  /\ edit' = [edit EXCEPT !.diffBefore = roll.notes, !.diffMode = TRUE, !.diff = TRUE,
                          !.regen = FALSE, !.generate = TRUE]

Regenerated(notes) ==
  /\ roll' = clearSelection(showDiff([roll EXCEPT !.notes = notes], roll.notes, notes))
  /\ edit' = [edit EXCEPT !.diffBefore = roll.notes, !.diffMode = TRUE, !.diff = TRUE,
                          !.regen = FALSE, !.generate = TRUE]

onRegenerate(notes) ==
  /\ CanRegenerate
  /\ sent' = Request
  /\ Regenerated(notes)
  /\ UNCHANGED <<pending, pressed, lastPrompt>>

(* The engine fails or answers without a file.                             *)
onRegenerateFails ==
  /\ CanRegenerate
  /\ sent' = Request
  /\ edit' = [edit EXCEPT !.diffBefore = NoNotes, !.diffMode = FALSE, !.diff = FALSE,
                          !.regen = canRegen(roll, edit.text), !.generate = TRUE]
  /\ UNCHANGED <<roll, pending, pressed, lastPrompt>>

onDiffToggle ==
  /\ ~pressed /\ edit.diff
  /\ edit' = [edit EXCEPT !.diffMode = ~@]
  /\ roll' = IF edit.diffMode THEN clearDiff(roll)
             ELSE showDiff(roll, edit.diffBefore, roll.notes)
  /\ UNCHANGED <<pending, pressed, sent, lastPrompt>>

-----------------------------------------------------------------------------
EditorNext ==
  \/ Reopen
  \/ \E x \in PointerX :
       \/ \E y \in {0, RollHeight - 1} : mouseDown(x, y)
       \/ mouseDragSelect(x)
  \/ mouseDragExport \/ mouseUp
  \/ \E t \in Texts : SetText(t)
  \/ PressReturn \/ textEditorTextChanged \/ ReturnBeginsLine \/ ReturnGenerates
  \/ ClickGenerate \/ SelectWorkflow
  \/ \E notes \in Takes \cup {NoNotes} : onRegenerate(notes)
  \/ onRegenerateFails \/ onDiffToggle

EditorSpec == EditorInit /\ [][EditorNext]_editorVars

-----------------------------------------------------------------------------
(* Once the posted messages are handled and the mouse is up, Regenerate is *)
(* offered exactly when there is something to regenerate and a prompt to   *)
(* do it with, and a prompt can be generated: no order of typing,          *)
(* dragging, generating and regenerating leaves a button behind.           *)
ButtonsFollow ==
  pending = <<>> /\ ~pressed =>
    /\ edit.regen = canRegen(roll, edit.text)
    /\ HasText(edit.text) => edit.generate

(* A request names a prompt and two bars of the roll in their order, also  *)
(* when the button was pressed before a change of the prompt was handled.  *)
RequestsWellFormed ==
  sent # NoRequest =>
    /\ HasText(sent.prompt)
    /\ 0 <= sent.barStart /\ sent.barStart < sent.barEnd /\ sent.barEnd <= LastBar

(* What the editor offers it can do, and what it asks the engine for makes *)
(* sense.                                                                  *)
RegenerationSound == ButtonsFollow /\ RequestsWellFormed

(* A diff is drawn against the notes the roll holds, and as long as the    *)
(* user can switch it, it is drawn when the editor says so and from the    *)
(* notes the editor kept.                                                  *)
DiffIsCurrent ==
  /\ roll.diffMode => roll.after = roll.notes
  /\ edit.diff =>
       /\ roll.diffMode = edit.diffMode
       /\ roll.diffMode => roll.before = edit.diffBefore

=============================================================================
