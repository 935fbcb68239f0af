---------------------------- MODULE Editor_proofs ----------------------------
(***************************************************************************)
(* Proofs about the editor and its piano roll: for every set of prompts,   *)
(* of takes and of mouse columns, for any number of posted messages, and   *)
(* for the tooltip at every pixel of the roll.  About the presets: for     *)
(* any number of editors in the host, of factory presets, of settings and  *)
(* of numbered user presets; writes and removals of files may fail, and    *)
(* what is said of an editor that has the directory to itself is said      *)
(* until one of them does.                                                 *)
(* And about the process the editor's prompts need at the other end, the   *)
(* life of the ACE process: for any number of processes on the address, of *)
(* clients and of starts, with signals, crashes and failures of every      *)
(* system call at any moment.                                              *)
(***************************************************************************)
EXTENDS Editor, Presets, AceServer, FiniteSetTheorems, TLAPS

-----------------------------------------------------------------------------
(* The tooltip.                                                            *)

(* The pixel's row is drawn where yToNote says, and the clamp is not met.  *)
LEMMA RowOfPixel ==
  ASSUME NEW y \in kHeaderHeight..(RollHeight - 1)
  PROVE  y - noteToY(yToNote(y)) \in 1..kWhiteKeyHeight
BY DEF kHeaderHeight, RollHeight, noteToY, yToNote, clamp, Quotient, lowNote,
   highNote, kWhiteKeyHeight

(* The tick of a pixel is drawn in its column or in the one before.        *)
LEMMA ColumnOfPixel ==
  ASSUME NEW x \in kKeyboardWidth..(RollWidth - 1)
  PROVE  x - tickToX(xToTick(x)) \in {0, 1}
BY DEF kKeyboardWidth, RollWidth, tickToX, xToTick, Quotient, GridWidth,
   startTick, endTick

(* mouseMove at any pixel: the note and the tick that the tooltip names    *)
(* are drawn at the pointer, to a pixel.                                   *)
THEOREM TooltipIsExact == HoverSpec => []HoverWithinAPixel
<1>1. HoverInit => HoverWithinAPixel
    BY DEF HoverInit, NoHover, HoverWithinAPixel
<1>2. ASSUME HoverWithinAPixel, NEW x \in Int, NEW y \in Int, mouseMove(x, y)
      PROVE  HoverWithinAPixel'
  <2>1. /\ mousePos'[1] = x /\ mousePos'[2] = y
        /\ hover'.note = IF InHeader(x, y) THEN -1 ELSE yToNote(y)
        /\ hover'.tick = IF InGrid(x, y) THEN xToTick(x) ELSE -1
        /\ hover'.shown = ~InHeader(x, y)
      BY <1>2 DEF mouseMove
  <2>2. InRoll(x, y)
      BY <1>2 DEF mouseMove
  <2>3. ~InHeader(x, y) => y \in kHeaderHeight..(RollHeight - 1)
      BY <2>2 DEF InHeader, InRoll, kHeaderHeight, RollHeight
  <2>4. InGrid(x, y) => x \in kKeyboardWidth..(RollWidth - 1)
      BY DEF InGrid, InRoll, kKeyboardWidth, RollWidth
  <2> QED BY <2>1, <2>3, <2>4, RowOfPixel, ColumnOfPixel DEF HoverWithinAPixel
<1>3. ASSUME HoverWithinAPixel, mouseExit PROVE HoverWithinAPixel'
    BY <1>3 DEF mouseExit, NoHover, HoverWithinAPixel
<1>4. ASSUME HoverWithinAPixel, UNCHANGED hoverVars PROVE HoverWithinAPixel'
    BY <1>4 DEF hoverVars, HoverWithinAPixel
<1>5. HoverWithinAPixel /\ [mouseExit \/ \E x, y \in Int : mouseMove(x, y)]_hoverVars
        => HoverWithinAPixel'
    BY <1>2, <1>3, <1>4
<1> QED BY <1>1, <1>5, PTL DEF HoverSpec

-----------------------------------------------------------------------------
(* The editor: the parts of the inductive invariant.                       *)

Notes == Takes \cup {NoNotes}

Rolls ==
  [notes : Notes, selectedBarStart : -1..LastBar, selectedBarEnd : -1..LastBar,
   isDragging : BOOLEAN, isDragExport : BOOLEAN, dragStartTick : Int,
   diffMode : BOOLEAN, before : Notes, after : Notes]

Edits ==
  [text : Texts, diffBefore : Notes, diffMode : BOOLEAN,
   generate : BOOLEAN, regen : BOOLEAN, diff : BOOLEAN]

EditorTypeOK ==
  /\ roll \in Rolls /\ edit \in Edits
  /\ pending \in Seq({"text", "return"})
  /\ pressed \in BOOLEAN /\ lastPrompt \in Texts

(* A change of the text has been posted and not handled.                   *)
TextPosted == \E i \in 1..Len(pending) : pending[i] = "text"

(* The buttons lag behind only while a change of the text is posted or, in *)
(* the case of Regenerate, while the mouse is down.                        *)
ButtonsCurrent ==
  ~TextPosted =>
    /\ ~pressed => (edit.regen <=> canRegen(roll, edit.text))
    /\ HasText(edit.text) => edit.generate

EditorInv ==
  EditorTypeOK /\ ButtonsCurrent /\ RequestsWellFormed /\ DiffIsCurrent

-----------------------------------------------------------------------------
(* Wherever the mouse is, a bar of the roll is selected.                   *)
LEMMA BarIsOnRoll ==
  ASSUME NEW tick \in Int
  PROVE  BarAt(tick) \in 0..LastBar
BY DEF BarAt, LastBar, clamp, Quotient, ticksPerBar, ppq, endTick

(* The roll has bars, the last of them at its end.                         *)
LEMMA BarsType == LastBar \in Nat
BY DEF LastBar, ticksPerBar, ppq, endTick

(* The tick of a column, inside the roll or not, is an integer.            *)
LEMMA TickType ==
  ASSUME NEW x \in Int
  PROVE  xToTick(x) \in Int
BY DEF xToTick, Quotient, startTick, endTick, GridWidth, RollWidth, kKeyboardWidth

(* Selecting from one tick to another keeps the roll's fields.             *)
LEMMA SelectType ==
  ASSUME NEW r \in Rolls, NEW tick1 \in Int, NEW tick2 \in Int
  PROVE  Select(r, tick1, tick2) \in Rolls
<1>1. \A b \in 0..LastBar : b \in -1..LastBar
    BY BarsType
<1>2. BarAt(tick1) \in -1..LastBar /\ BarAt(tick2) \in -1..LastBar
    BY <1>1, BarIsOnRoll
<1> QED BY <1>2 DEF Select, Rolls

(* Handling the first message leaves the others posted.                    *)
LEMMA Handled ==
  ASSUME NEW s \in Seq({"text", "return"}), s # <<>>, Head(s) = "return",
         \E i \in 1..Len(s) : s[i] = "text"
  PROVE  \E i \in 1..Len(Tail(s)) : Tail(s)[i] = "text"
<1>1. PICK i \in 1..Len(s) : s[i] = "text"
    OBVIOUS
<1>2. i # 1 /\ i - 1 \in 1..Len(Tail(s)) /\ Tail(s)[i - 1] = s[i]
    BY <1>1
<1> QED BY <1>1, <1>2

(* A posted message joins the ones before it.                              *)
LEMMA Posted ==
  ASSUME NEW s \in Seq({"text", "return"})
  PROVE  /\ Append(s, "text") \in Seq({"text", "return"})
         /\ \E i \in 1..Len(Append(s, "text")) : Append(s, "text")[i] = "text"
         /\ Append(s, "return") \in Seq({"text", "return"})
         /\ (\E i \in 1..Len(s) : s[i] = "text") =>
              \E i \in 1..Len(Append(s, "return")) : Append(s, "return")[i] = "text"
<1>1. Append(s, "text")[Len(s) + 1] = "text" /\ Len(Append(s, "text")) = Len(s) + 1
    OBVIOUS
<1>2. \A i \in 1..Len(s) : Append(s, "return")[i] = s[i]
    OBVIOUS
<1> QED BY <1>1, <1>2

(* The constructor: nothing is selected, and a prompt can be generated.    *)
LEMMA NewEditor ==
  ASSUME NEW prompt \in Texts
  PROVE  /\ NewRoll \in Rolls /\ NewEdit(prompt) \in Edits
         /\ ~canRegen(NewRoll, prompt) /\ ~NewEdit(prompt).regen
         /\ NewEdit(prompt).text = prompt
         /\ HasText(prompt) => NewEdit(prompt).generate
<1>1. NewRoll \in Rolls
    BY BarsType DEF NewRoll, Rolls, Notes
<1>2. NewEdit(prompt) \in Edits
  <2>1. (prompt # NoText) \in BOOLEAN
      OBVIOUS
  <2> QED BY <2>1 DEF NewEdit, Edits, Notes
<1>3. ~canRegen(NewRoll, prompt)
    BY DEF canRegen, hasSelection, NewRoll
<1>4. ~NewEdit(prompt).regen /\ NewEdit(prompt).text = prompt
    BY DEF NewEdit
<1>5. HasText(prompt) => NewEdit(prompt).generate
    BY EditorAssumption DEF HasText, NewEdit
<1> QED BY <1>1, <1>2, <1>3, <1>4, <1>5

(* A new editor satisfies the invariant.                                   *)
LEMMA InitEditorInv == EditorInit => EditorInv
<1> SUFFICES ASSUME EditorInit PROVE EditorInv
    OBVIOUS
<1>1. EditorTypeOK
  <2>1. pressed \in BOOLEAN
      BY Zenon DEF EditorInit
  <2>2. roll \in Rolls /\ edit \in Edits /\ lastPrompt \in Texts
      BY NewEditor DEF EditorInit, Texts
  <2>3. pending \in Seq({"text", "return"})
      BY DEF EditorInit
  <2> QED BY <2>1, <2>2, <2>3 DEF EditorTypeOK
<1>2. ButtonsCurrent
    BY NewEditor DEF EditorInit, ButtonsCurrent, Texts
<1>3. RequestsWellFormed /\ DiffIsCurrent
    BY DEF EditorInit, RequestsWellFormed, DiffIsCurrent, NewRoll, NewEdit
<1> QED BY <1>1, <1>2, <1>3 DEF EditorInv

(* Every handler of the Message Thread preserves it.                       *)
LEMMA StepEditorInv == EditorInv /\ [EditorNext]_editorVars => EditorInv'
<1> SUFFICES ASSUME EditorInv, [EditorNext]_editorVars PROVE EditorInv'
    OBVIOUS
<1> USE EditorAssumption DEF EditorInv, Rolls, Edits, Notes
<1>1. ASSUME UNCHANGED editorVars PROVE EditorInv'
    BY <1>1 DEF editorVars, EditorTypeOK, ButtonsCurrent, TextPosted, RequestsWellFormed,
       DiffIsCurrent, hasSelection, canRegen
<1>2. ASSUME Reopen PROVE EditorInv'
  <2>1. EditorTypeOK'
    <3> HIDE DEF Rolls, Edits
    <3>1. pressed' \in BOOLEAN
        BY <1>2, Zenon DEF Reopen
    <3>2. roll' \in Rolls /\ edit' \in Edits /\ lastPrompt' \in Texts
        BY <1>2, NewEditor DEF Reopen, EditorTypeOK
    <3>3. pending' \in Seq({"text", "return"})
        BY <1>2 DEF Reopen
    <3> QED BY <3>1, <3>2, <3>3 DEF EditorTypeOK
  <2>2. ButtonsCurrent'
    <3>1. ~edit'.regen /\ ~canRegen(NewRoll, edit'.text)
          /\ (HasText(edit'.text) => edit'.generate)
        BY <1>2, NewEditor DEF Reopen, EditorTypeOK
    <3> QED BY <1>2, <3>1 DEF Reopen, ButtonsCurrent
  <2>3. RequestsWellFormed' /\ DiffIsCurrent'
      BY <1>2 DEF Reopen, RequestsWellFormed, DiffIsCurrent, NewRoll, NewEdit
  <2> QED BY <2>1, <2>2, <2>3
<1>3. ASSUME NEW x \in PointerX, NEW y \in Int, mouseDown(x, y) PROVE EditorInv'
  <2>1. xToTick(x) \in Int
      BY TickType
  <2>2. EditorTypeOK'
    <3>1. roll' \in Rolls
      <4>1. CASE InKeyboard(x, y)
          BY <1>3, <4>1 DEF mouseDown, EditorTypeOK
      <4>2. CASE ~InKeyboard(x, y)
        <5> DEFINE r == [roll EXCEPT !.isDragging = TRUE, !.isDragExport = FALSE,
                                     !.dragStartTick = xToTick(x)]
        <5>1. r \in Rolls
            BY <2>1 DEF EditorTypeOK
        <5>2. roll' = Select(r, xToTick(x), xToTick(x))
            BY <1>3, <4>2 DEF mouseDown
        <5> QED BY <2>1, <5>1, <5>2, SelectType
      <4> QED BY <4>1, <4>2
    <3> QED BY <1>3, <3>1 DEF mouseDown, EditorTypeOK
  <2>3. pressed' /\ ButtonsCurrent'
      BY <1>3 DEF mouseDown, ButtonsCurrent, TextPosted
  <2>4. RequestsWellFormed' /\ DiffIsCurrent'
      BY <1>3 DEF mouseDown, Select, EditorTypeOK, RequestsWellFormed, DiffIsCurrent
  <2> QED BY <2>2, <2>3, <2>4
<1>4. ASSUME NEW x \in PointerX, mouseDragSelect(x) PROVE EditorInv'
  <2>1. xToTick(x) \in Int /\ roll.dragStartTick \in Int
      BY TickType DEF EditorTypeOK
  <2>2. EditorTypeOK'
    <3>1. roll' \in Rolls
        BY <1>4, <2>1, SelectType DEF mouseDragSelect, EditorTypeOK
    <3> QED BY <1>4, <3>1 DEF mouseDragSelect, EditorTypeOK
  <2>3. ButtonsCurrent'
      BY <1>4 DEF mouseDragSelect, ButtonsCurrent, TextPosted
  <2>4. RequestsWellFormed' /\ DiffIsCurrent'
      BY <1>4 DEF mouseDragSelect, Select, EditorTypeOK, RequestsWellFormed, DiffIsCurrent
  <2> QED BY <2>2, <2>3, <2>4
<1>5. ASSUME mouseDragExport PROVE EditorInv'
  <2>1. EditorTypeOK'
      BY <1>5 DEF mouseDragExport, EditorTypeOK
  <2>2. ButtonsCurrent'
      BY <1>5 DEF mouseDragExport, ButtonsCurrent, TextPosted
  <2>3. RequestsWellFormed' /\ DiffIsCurrent'
      BY <1>5 DEF mouseDragExport, EditorTypeOK, RequestsWellFormed, DiffIsCurrent
  <2> QED BY <2>1, <2>2, <2>3
<1>6. ASSUME mouseUp PROVE EditorInv'
  <2>1. EditorTypeOK'
      BY <1>6 DEF mouseUp, EditorTypeOK, canRegen, hasSelection, HasText
  <2>2. ButtonsCurrent'
      BY <1>6 DEF mouseUp, EditorTypeOK, ButtonsCurrent, TextPosted, canRegen,
         hasSelection, HasText
  <2>3. RequestsWellFormed' /\ DiffIsCurrent'
      BY <1>6 DEF mouseUp, EditorTypeOK, RequestsWellFormed, DiffIsCurrent
  <2> QED BY <2>1, <2>2, <2>3
<1>7. ASSUME NEW t \in Texts, SetText(t) PROVE EditorInv'
  <2>1. EditorTypeOK' /\ TextPosted'
      BY <1>7, Posted DEF SetText, EditorTypeOK, TextPosted
  <2>2. ButtonsCurrent'
      BY <2>1 DEF ButtonsCurrent
  <2>3. RequestsWellFormed' /\ DiffIsCurrent'
      BY <1>7 DEF SetText, EditorTypeOK, RequestsWellFormed, DiffIsCurrent
  <2> QED BY <2>1, <2>2, <2>3
<1>8. ASSUME PressReturn PROVE EditorInv'
  <2>1. EditorTypeOK' /\ (TextPosted => TextPosted')
      BY <1>8, Posted DEF PressReturn, EditorTypeOK, TextPosted
  <2>2. ButtonsCurrent'
      BY <1>8, <2>1 DEF PressReturn, ButtonsCurrent, canRegen, hasSelection
  <2>3. RequestsWellFormed' /\ DiffIsCurrent'
      BY <1>8 DEF PressReturn, RequestsWellFormed, DiffIsCurrent
  <2> QED BY <2>1, <2>2, <2>3
<1>9. ASSUME textEditorTextChanged PROVE EditorInv'
  <2>1. EditorTypeOK'
    <3>1. HasText(edit.text) \in BOOLEAN /\ canRegen(roll, edit.text) \in BOOLEAN
        BY DEF HasText, canRegen, hasSelection
    <3>2. edit' \in Edits
        BY <1>9, <3>1 DEF textEditorTextChanged, EditorTypeOK, Edits
    <3> QED BY <1>9, <3>2 DEF textEditorTextChanged, Handle, EditorTypeOK
  <2>2. ButtonsCurrent'
      BY <1>9 DEF textEditorTextChanged, EditorTypeOK, ButtonsCurrent, canRegen,
         hasSelection, HasText
  <2>3. RequestsWellFormed' /\ DiffIsCurrent'
      BY <1>9 DEF textEditorTextChanged, EditorTypeOK, RequestsWellFormed, DiffIsCurrent
  <2> QED BY <2>1, <2>2, <2>3
<1>10. ASSUME ReturnBeginsLine PROVE EditorInv'
  <2>1. Tail(pending) \in Seq({"text", "return"})
      BY <1>10 DEF ReturnBeginsLine, Handle, EditorTypeOK
  <2>2. EditorTypeOK' /\ TextPosted'
      BY <1>10, <2>1, Posted, ZenonT(60) DEF ReturnBeginsLine, EditorTypeOK, TextPosted, Texts
  <2>3. ButtonsCurrent'
      BY <2>2 DEF ButtonsCurrent
  <2>4. RequestsWellFormed' /\ DiffIsCurrent'
      BY <1>10 DEF ReturnBeginsLine, EditorTypeOK, RequestsWellFormed, DiffIsCurrent
  <2> QED BY <2>2, <2>3, <2>4
<1>11. ASSUME ReturnGenerates PROVE EditorInv'
  <2>1. Tail(pending) \in Seq({"text", "return"}) /\ (TextPosted => TextPosted')
      BY <1>11, Handled, SMTT(40) DEF ReturnGenerates, Handle, EditorTypeOK, TextPosted
  <2>2. EditorTypeOK'
      BY <1>11, <2>1, ZenonT(60) DEF ReturnGenerates, Generated, EditorTypeOK
  <2>3. ButtonsCurrent'
      BY <1>11, <2>1, ZenonT(60) DEF ReturnGenerates, Generated, EditorTypeOK, ButtonsCurrent,
         canRegen, hasSelection, HasText
  <2>4. RequestsWellFormed' /\ DiffIsCurrent'
      BY <1>11 DEF ReturnGenerates, Generated, EditorTypeOK, RequestsWellFormed, DiffIsCurrent
  <2> QED BY <2>2, <2>3, <2>4
<1>12. ASSUME ClickGenerate PROVE EditorInv'
  <2>1. EditorTypeOK'
      BY <1>12 DEF ClickGenerate, Generated, EditorTypeOK
  <2>2. ButtonsCurrent'
      BY <1>12 DEF ClickGenerate, Generated, EditorTypeOK, ButtonsCurrent, TextPosted,
         canRegen, hasSelection, HasText
  <2>3. RequestsWellFormed' /\ DiffIsCurrent'
      BY <1>12 DEF ClickGenerate, Generated, EditorTypeOK, RequestsWellFormed, DiffIsCurrent
  <2> QED BY <2>1, <2>2, <2>3
<1>13. ASSUME SelectWorkflow PROVE EditorInv'
  <2>1. EditorTypeOK' /\ RequestsWellFormed' /\ DiffIsCurrent'
      BY <1>13 DEF SelectWorkflow, EditorTypeOK, RequestsWellFormed, DiffIsCurrent
  <2>2. ButtonsCurrent'
      BY <1>13 DEF SelectWorkflow, ButtonsCurrent, TextPosted, canRegen, hasSelection
  <2> QED BY <2>1, <2>2
<1>14. ASSUME NEW notes \in Takes \cup {NoNotes}, onRegenerate(notes) PROVE EditorInv'
  <2>1. EditorTypeOK'
    <3>1. -1 \in -1..LastBar
        BY BarsType
    <3>2. roll' \in Rolls
        BY <1>14, <3>1 DEF onRegenerate, Regenerated, clearSelection, showDiff, EditorTypeOK
    <3>3. edit' \in Edits
        BY <1>14 DEF onRegenerate, Regenerated, EditorTypeOK
    <3> QED BY <1>14, <3>2, <3>3 DEF onRegenerate, EditorTypeOK
  <2>2. ButtonsCurrent'
      BY <1>14 DEF onRegenerate, CanRegenerate, Regenerated, clearSelection, showDiff,
         EditorTypeOK, ButtonsCurrent, canRegen, hasSelection
  <2>3. RequestsWellFormed'
      BY <1>14 DEF onRegenerate, CanRegenerate, Request, EditorTypeOK, hasSelection,
         RequestsWellFormed, LastBar, endTick, ticksPerBar, ppq
  <2>4. DiffIsCurrent'
      BY <1>14 DEF onRegenerate, Regenerated, clearSelection, showDiff, EditorTypeOK,
         DiffIsCurrent
  <2> QED BY <2>1, <2>2, <2>3, <2>4
<1>15. ASSUME onRegenerateFails PROVE EditorInv'
  <2>1. EditorTypeOK'
      BY <1>15, ZenonT(60) DEF onRegenerateFails, EditorTypeOK, canRegen, hasSelection, HasText
  <2>2. ButtonsCurrent'
      BY <1>15 DEF onRegenerateFails, EditorTypeOK, ButtonsCurrent, canRegen,
         hasSelection, HasText
  <2>3. RequestsWellFormed'
      BY <1>15 DEF onRegenerateFails, CanRegenerate, Request, EditorTypeOK, hasSelection,
         RequestsWellFormed, LastBar, endTick, ticksPerBar, ppq
  <2>4. DiffIsCurrent'
      BY <1>15 DEF onRegenerateFails, EditorTypeOK, DiffIsCurrent
  <2> QED BY <2>1, <2>2, <2>3, <2>4
<1>16. ASSUME onDiffToggle PROVE EditorInv'
  <2>1. EditorTypeOK'
      BY <1>16 DEF onDiffToggle, showDiff, clearDiff, EditorTypeOK
  <2>2. ButtonsCurrent'
      BY <1>16 DEF onDiffToggle, showDiff, clearDiff, EditorTypeOK, ButtonsCurrent,
         TextPosted, canRegen, hasSelection, HasText
  <2>3. RequestsWellFormed'
      BY <1>16 DEF onDiffToggle, RequestsWellFormed
  <2>4. DiffIsCurrent'
      BY <1>16 DEF onDiffToggle, showDiff, clearDiff, EditorTypeOK, DiffIsCurrent
  <2> QED BY <2>1, <2>2, <2>3, <2>4
<1> QED
    BY <1>1, <1>2, <1>3, <1>4, <1>5, <1>6, <1>7, <1>8, <1>9, <1>10, <1>11, <1>12,
       <1>13, <1>14, <1>15, <1>16
    DEF EditorNext, RollHeight

(* The invariant holds whenever the Message Thread is between two messages.*)
LEMMA EditorInvariance == EditorSpec => []EditorInv
BY InitEditorInv, StepEditorInv, PTL DEF EditorSpec

-----------------------------------------------------------------------------
(* What the editor offers it can do, and onRegenerate asks the engine for  *)
(* a prompt and for bars of the roll, however clicks and posted messages   *)
(* of the prompt box are interleaved.                                      *)
THEOREM RegenerationIsSound == EditorSpec => []RegenerationSound
<1>1. EditorInv => ButtonsFollow
  <2> SUFFICES ASSUME EditorInv, pending = <<>>, ~pressed
               PROVE  /\ edit.regen = canRegen(roll, edit.text)
                      /\ HasText(edit.text) => edit.generate
      BY DEF ButtonsFollow
  <2>1. ~TextPosted
      BY DEF TextPosted
  <2>2. edit.regen \in BOOLEAN /\ canRegen(roll, edit.text) \in BOOLEAN
      BY DEF EditorInv, EditorTypeOK, Edits, canRegen, hasSelection, HasText
  <2> QED BY <2>1, <2>2 DEF EditorInv, ButtonsCurrent
<1>2. EditorInv => RegenerationSound
    BY <1>1 DEF EditorInv, RegenerationSound
<1> QED BY <1>2, EditorInvariance, PTL

(* The diff of the roll belongs to its notes and follows the editor's      *)
(* button, through regenerations, failures and new generations.            *)
THEOREM DiffStaysCurrent == EditorSpec => []DiffIsCurrent
<1>1. EditorInv => DiffIsCurrent
    BY DEF EditorInv
<1> QED BY <1>1, EditorInvariance, PTL

-----------------------------------------------------------------------------
(* The presets.  The parts of their inductive invariant.                   *)

Names == Factory \cup Numbers

PresetsTypeOK ==
  /\ files \in [Numbers -> Settings \cup {NoPreset}]
  /\ presets \in [Editors -> [Names -> Settings \cup {NoPreset}] \cup {Closed}]
  /\ selector \in [Editors -> Names \cup {NoPreset}]
  /\ raw \in [Editors -> Settings]
  /\ own \in BOOLEAN /\ deleted \subseteq Editors

(* While the directory belongs to one editor, no other one is open.        *)
OwnIsAlone == own => \A e, f \in Open : e = f

(* Without a deletion the user's presets are numbered from 1 without gaps. *)
Contiguous ==
  \A e \in Open \ deleted : \E k \in 0..MaxNumber : UserPresets(e) = 1..k

PresetsInv ==
  PresetsTypeOK /\ OwnIsAlone /\ LoneEditorMatchesFiles /\ Contiguous

-----------------------------------------------------------------------------
(* A list of presets is never the closed one: its domain is not empty.     *)
LEMMA ListIsOpen ==
  ASSUME NEW list \in [Names -> Settings \cup {NoPreset}]
  PROVE  list # Closed
<1>1. 1 \in DOMAIN list
    BY PresetsAssumption DEF Names, Numbers
<1>2. 1 \notin DOMAIN Closed
    BY DEF Closed
<1> QED BY <1>1, <1>2

(* The factory presets are all there is in a new list.                     *)
LEMMA FactoryList ==
  /\ createFactoryPresets \in [Names -> Settings \cup {NoPreset}]
  /\ \A n \in Numbers : createFactoryPresets[n] = NoPreset
BY PresetsAssumption DEF createFactoryPresets, Names, Numbers, Settings

(* Counting: after 1..k, onSavePreset's number is k + 1.                   *)
LEMMA NextNumber ==
  ASSUME NEW e, NEW k \in Nat, UserPresets(e) = 1..k
  PROVE  NewNumber(e) = k + 1
<1>1. Cardinality(1..k) = k
    BY FS_Interval
<1> QED BY <1>1 DEF NewNumber

(* The host starts without an editor.                                      *)
LEMMA InitPresetsInv == PresetsInit => PresetsInv
<1> SUFFICES ASSUME PresetsInit PROVE PresetsInv
    OBVIOUS
<1>1. Default \in Settings
    BY PresetsAssumption DEF Default, Settings
<1>2. Open = {}
    BY DEF PresetsInit, Open
<1>3. own \in BOOLEAN
    BY Zenon DEF PresetsInit
<1>4. PresetsTypeOK
    BY <1>1, <1>3 DEF PresetsInit, PresetsTypeOK
<1>5. OwnIsAlone /\ LoneEditorMatchesFiles /\ Contiguous
    BY <1>2 DEF OwnIsAlone, LoneEditorMatchesFiles, Contiguous
<1> QED BY <1>4, <1>5 DEF PresetsInv

(* Every handler of every editor preserves the invariant.                  *)
LEMMA StepPresetsInv == PresetsInv /\ [PresetsNext]_presetVars => PresetsInv'
<1> SUFFICES ASSUME PresetsInv, [PresetsNext]_presetVars PROVE PresetsInv'
    OBVIOUS
<1> USE PresetsAssumption DEF PresetsInv
<1>1. ASSUME UNCHANGED presetVars PROVE PresetsInv'
    BY <1>1 DEF presetVars, PresetsTypeOK, OwnIsAlone, LoneEditorMatchesFiles,
       Contiguous, Open, UserPresets, hasPreset
<1>2. ASSUME NEW e \in Editors, OpenPresets(e) PROVE PresetsInv'
  <2>1. PresetsTypeOK'
    <3>1. own' \in BOOLEAN
        BY <1>2, Zenon DEF OpenPresets
    <3> QED BY <1>2, <3>1, FactoryList DEF OpenPresets, PresetsTypeOK
  <2>2. Open' = Open \cup {e} /\ presets'[e] = createFactoryPresets
      BY <1>2, FactoryList, ListIsOpen DEF OpenPresets, PresetsTypeOK, Open
  <2>3. own' => Open' = {e}
      BY <1>2, <2>2 DEF OpenPresets
  <2>4. OwnIsAlone' /\ LoneEditorMatchesFiles'
      BY <1>2, <2>2, <2>3, FactoryList
      DEF OpenPresets, OwnIsAlone, LoneEditorMatchesFiles
  <2>5. Contiguous'
    <3>1. UserPresets(e)' = 1..0
        BY <2>2, FactoryList DEF UserPresets, hasPreset
    <3>2. ASSUME NEW f \in Editors, f # e PROVE UserPresets(f)' = UserPresets(f)
        BY <1>2, <3>2 DEF OpenPresets, PresetsTypeOK, UserPresets, hasPreset
    <3>3. ASSUME NEW f \in Open' \ deleted'
          PROVE  \E k \in 0..MaxNumber : UserPresets(f)' = 1..k
      <4>1. CASE f = e
          BY <3>1, <4>1 DEF UserPresets, hasPreset
      <4>2. CASE f # e
          BY <1>2, <2>2, <3>2, <4>2 DEF OpenPresets, Contiguous, Open
      <4> QED BY <4>1, <4>2
    <3> QED BY <3>3 DEF Contiguous
  <2> QED BY <2>1, <2>4, <2>5
<1>3. ASSUME NEW e \in Editors, OpenCrashes(e) PROVE PresetsInv'
  <2>1. Default \in Settings
      BY DEF Default, Settings
  <2>2. Open' = {}
      BY <1>3 DEF OpenCrashes, Open
  <2>3. own' \in BOOLEAN
      BY <1>3, Zenon DEF OpenCrashes
  <2>4. PresetsTypeOK'
      BY <1>3, <2>1, <2>3 DEF OpenCrashes, PresetsTypeOK
  <2> QED BY <2>2, <2>4 DEF OwnIsAlone, LoneEditorMatchesFiles, Contiguous
<1>4. ASSUME NEW e \in Editors, ClosePresets(e) PROVE PresetsInv'
  <2>1. own' \in BOOLEAN
      BY <1>4, Zenon DEF ClosePresets
  <2>2. PresetsTypeOK'
      BY <1>4, <2>1 DEF ClosePresets, PresetsTypeOK
  <2>3. Open' = Open \ {e}
      BY <1>4 DEF ClosePresets, PresetsTypeOK, Open
  <2>4. \A f \in Open' : presets'[f] = presets[f]
      BY <1>4, <2>3 DEF ClosePresets, PresetsTypeOK, Open
  <2>5. OwnIsAlone' /\ LoneEditorMatchesFiles'
      BY <1>4, <2>3, <2>4 DEF ClosePresets, OwnIsAlone, LoneEditorMatchesFiles
  <2>6. Contiguous'
      BY <1>4, <2>3, <2>4 DEF ClosePresets, Contiguous, UserPresets, hasPreset
  <2> QED BY <2>2, <2>5, <2>6
<1>5. ASSUME NEW e \in Editors, NEW s \in Knobs, TurnKnobs(e, s) PROVE PresetsInv'
    BY <1>5 DEF TurnKnobs, PresetsTypeOK, Settings, OwnIsAlone,
       LoneEditorMatchesFiles, Contiguous, Open, UserPresets, hasPreset
<1>6. ASSUME NEW e \in Editors, NEW name \in Names, onPresetSelected(e, name)
      PROVE  PresetsInv'
  <2>1. presets[e] \in [Names -> Settings \cup {NoPreset}]
      BY <1>6 DEF onPresetSelected, Open, PresetsTypeOK
  <2>2. presets[e][name] \in Settings
      BY <1>6, <2>1 DEF onPresetSelected, hasPreset
  <2>3. PresetsTypeOK'
      BY <1>6, <2>2 DEF onPresetSelected, PresetsTypeOK
  <2> QED
      BY <1>6, <2>3 DEF onPresetSelected, OwnIsAlone, LoneEditorMatchesFiles,
         Contiguous, Open, UserPresets, hasPreset
<1>7. ASSUME NEW e \in Editors, NEW ok \in BOOLEAN, onSavePreset(e, ok)
      PROVE  PresetsInv'
  <2> DEFINE n == NewNumber(e)
  <2>1. /\ e \in Open /\ n \in Numbers /\ n \in Names
        /\ files' = IF ok THEN [files EXCEPT ![n] = raw[e]] ELSE files
        /\ presets' = [presets EXCEPT ![e] = [presets[e] EXCEPT ![n] = raw[e]]]
        /\ selector' = [selector EXCEPT ![e] = NoPreset]
        /\ own' = (own /\ ok) /\ UNCHANGED <<raw, deleted>>
      BY <1>7 DEF onSavePreset, Names
  <2> HIDE DEF n
  <2>2. /\ presets[e] \in [Names -> Settings \cup {NoPreset}]
        /\ raw[e] \in Settings /\ raw[e] # NoPreset
      BY <2>1 DEF Open, PresetsTypeOK, Settings
  <2>3. presets'[e] \in [Names -> Settings \cup {NoPreset}]
      BY <2>1, <2>2 DEF PresetsTypeOK
  <2>4. Open' = Open
      BY <2>1, <2>2, <2>3, ListIsOpen DEF Open, PresetsTypeOK
  <2>5. PresetsTypeOK'
    <3>1. own' \in BOOLEAN
        BY <2>1, Zenon
    <3>2. files' \in [Numbers -> Settings \cup {NoPreset}]
        BY <2>1, <2>2 DEF PresetsTypeOK
    <3> QED BY <2>1, <2>2, <3>1, <3>2 DEF PresetsTypeOK
  <2>6. OwnIsAlone'
      BY <2>1, <2>4 DEF OwnIsAlone
  <2>7. LoneEditorMatchesFiles'
    <3> SUFFICES ASSUME own' PROVE \A m \in Numbers : presets'[e][m] = files'[m]
        BY <2>1, <2>4, ZenonT(60) DEF LoneEditorMatchesFiles, OwnIsAlone
    <3> QED BY <2>1, <2>2 DEF LoneEditorMatchesFiles, PresetsTypeOK, Names
  <2>8. Contiguous'
    <3>1. ASSUME NEW f \in Open, f # e PROVE UserPresets(f)' = UserPresets(f)
        BY <2>1, <3>1 DEF PresetsTypeOK, UserPresets, hasPreset, Open
    <3>2. UserPresets(e)' = UserPresets(e) \cup {n}
        BY <2>1, <2>2 DEF PresetsTypeOK, UserPresets, hasPreset, Names
    <3>3. ASSUME e \notin deleted
          PROVE  \E k \in 0..MaxNumber : UserPresets(e)' = 1..k
      <4>1. PICK k \in 0..MaxNumber : UserPresets(e) = 1..k
          BY <2>1, <3>3 DEF Contiguous
      <4>2. n = k + 1
          BY <4>1, NextNumber DEF n
      <4>3. n \in 0..MaxNumber /\ UserPresets(e)' = 1..n
          BY <2>1, <3>2, <4>1, <4>2 DEF Numbers
      <4> QED BY <4>3
    <3> QED BY <2>1, <2>4, <3>1, <3>3 DEF Contiguous
  <2> QED BY <2>5, <2>6, <2>7, <2>8
<1>8. ASSUME NEW e \in Editors, NEW ok \in BOOLEAN, onDeletePreset(e, ok)
      PROVE  PresetsInv'
  <2> DEFINE n == selector[e]
  <2>1. /\ e \in Open /\ n \in Numbers /\ n \in Names
        /\ files' = IF ok THEN [files EXCEPT ![n] = NoPreset] ELSE files
        /\ presets' = [presets EXCEPT ![e] = [presets[e] EXCEPT ![n] = NoPreset]]
        /\ selector' = [selector EXCEPT ![e] = NoPreset]
        /\ own' = (own /\ ok) /\ deleted' = deleted \cup {e} /\ raw' = raw
      BY <1>8 DEF onDeletePreset, deletePreset, Names
  <2> HIDE DEF n
  <2>2. presets[e] \in [Names -> Settings \cup {NoPreset}]
      BY <2>1 DEF Open, PresetsTypeOK
  <2>3. presets'[e] \in [Names -> Settings \cup {NoPreset}]
      BY <2>1, <2>2 DEF PresetsTypeOK
  <2>4. Open' = Open
      BY <2>1, <2>2, <2>3, ListIsOpen DEF Open, PresetsTypeOK
  <2>5. PresetsTypeOK'
    <3>1. own' \in BOOLEAN
        BY <2>1, Zenon
    <3>2. files' \in [Numbers -> Settings \cup {NoPreset}]
        BY <2>1 DEF PresetsTypeOK
    <3> QED BY <2>1, <2>2, <3>1, <3>2 DEF PresetsTypeOK
  <2>6. OwnIsAlone'
      BY <2>1, <2>4 DEF OwnIsAlone
  <2>7. LoneEditorMatchesFiles'
    <3> SUFFICES ASSUME own' PROVE \A m \in Numbers : presets'[e][m] = files'[m]
        BY <2>1, <2>4, ZenonT(60) DEF LoneEditorMatchesFiles, OwnIsAlone
    <3> QED BY <2>1, <2>2 DEF LoneEditorMatchesFiles, PresetsTypeOK, Names
  <2>8. Contiguous'
    <3>1. ASSUME NEW f \in Open, f # e PROVE UserPresets(f)' = UserPresets(f)
        BY <2>1, <3>1 DEF PresetsTypeOK, UserPresets, hasPreset, Open
    <3> QED BY <2>1, <2>4, <3>1 DEF Contiguous
  <2> QED BY <2>5, <2>6, <2>7, <2>8
<1> QED
    BY <1>1, <1>2, <1>3, <1>4, <1>5, <1>6, <1>7, <1>8 DEF PresetsNext, Names

(* The invariant holds at every moment of the host.                        *)
LEMMA PresetsInvariance == PresetsSpec => []PresetsInv
BY InitPresetsInv, StepPresetsInv, PTL DEF PresetsSpec

-----------------------------------------------------------------------------
(* The list of an editor that has the directory to itself is what the      *)
(* files hold, after any sequence of savePreset and deletePreset that      *)
(* could write and remove their files.                                     *)
THEOREM ListMatchesFiles == PresetsSpec => []LoneEditorMatchesFiles
<1>1. PresetsInv => LoneEditorMatchesFiles
    BY DEF PresetsInv
<1> QED BY <1>1, PresetsInvariance, PTL

(* onSavePreset numbers a preset by the count of user presets: up to the   *)
(* editor's first deletion it overwrites neither an entry of its list nor  *)
(* the file of one, and no file of a directory that it has to itself.      *)
THEOREM SavesKeepOtherPresets == PresetsSpec => SaveKeepsOthers
<1> DEFINE Kept ==
      \A e \in Open :
        presets'[e] \notin {presets[e], Closed} /\ e \notin deleted' =>
          \A n \in Numbers :
            /\ hasPreset(e, n) => presets'[e][n] = presets[e][n] /\ files'[n] = files[n]
            /\ own' /\ files[n] # NoPreset => files'[n] = files[n]
<1>1. ASSUME PresetsInv, PresetsNext PROVE Kept
  <2> SUFFICES ASSUME NEW e \in Open, presets'[e] # Closed, e \notin deleted',
                      presets'[e] # presets[e], NEW n \in Numbers
               PROVE  /\ hasPreset(e, n) =>
                           presets'[e][n] = presets[e][n] /\ files'[n] = files[n]
                      /\ own' /\ files[n] # NoPreset => files'[n] = files[n]
      OBVIOUS
  <2>1. PICK ok \in BOOLEAN : onSavePreset(e, ok)
      BY <1>1 DEF PresetsInv, PresetsTypeOK, PresetsNext, OpenPresets, OpenCrashes,
         ClosePresets, TurnKnobs, onPresetSelected, onSavePreset, onDeletePreset,
         deletePreset, Open
  <2>2. PICK k \in 0..MaxNumber : UserPresets(e) = 1..k
      BY <1>1, <2>1 DEF PresetsInv, Contiguous, onSavePreset
  <2>3. NewNumber(e) = k + 1
      BY <2>2, NextNumber
  <2>4. ASSUME hasPreset(e, n) PROVE n # NewNumber(e)
      BY <2>2, <2>3, <2>4 DEF UserPresets
  <2>5. ASSUME own', files[n] # NoPreset PROVE n # NewNumber(e)
    <3>1. own
        BY <2>1, <2>5 DEF onSavePreset
    <3>2. hasPreset(e, n)
        BY <1>1, <2>5, <3>1 DEF PresetsInv, LoneEditorMatchesFiles, hasPreset
    <3> QED BY <2>4, <3>2
  <2>6. presets'[e] = [presets[e] EXCEPT ![NewNumber(e)] = raw[e]]
      BY <1>1, <2>1 DEF onSavePreset, Open, PresetsInv, PresetsTypeOK
  <2>7. presets[e] \in [Names -> Settings \cup {NoPreset}]
      BY <1>1 DEF Open, PresetsInv, PresetsTypeOK
  <2>8. n # NewNumber(e) => files'[n] = files[n]
      BY <1>1, <2>1 DEF onSavePreset, PresetsInv, PresetsTypeOK
  <2> QED BY <2>4, <2>5, <2>6, <2>7, <2>8 DEF Names
<1>2. PresetsInv /\ [PresetsNext]_presetVars => [Kept]_presetVars
    BY <1>1
<1> QED BY <1>2, PresetsInvariance, PTL DEF PresetsSpec, SaveKeepsOthers

-----------------------------------------------------------------------------
(* The ACE process.                                                        *)
-----------------------------------------------------------------------------
(* The parts of the inductive invariant.                                   *)

(* The two goroutines of Serve agree: once the server is being stopped it  *)
(* accepts nothing any more, and it has stopped only without RPCs.         *)
ShutdownOrder ==
  \A p \in Proc : main[p] = "serving" =>
    /\ acc[p] # "none" /\ stp[p] # "none"
    /\ Stopped(p) => acc[p] # "accepting"
    /\ stp[p] = "returned" => inflight[p] = {}

(* A socket file is left behind only by a process that crashed (and may    *)
(* have been started again since), never by one that stopped listening.    *)
SocketOwner ==
  \A p \in Proc : sock = p =>
    \/ main[p] \in {"crashed", "remove", "failed"}
    \/ main[p] = "serving" /\ acc[p] \in {"start", "accepting"}

(* Without an overlap at most one process runs, and the socket is its own  *)
(* from the moment it has removed the old one.                             *)
Lone ==
  ~overlapped =>
    /\ \A p, q \in Proc : Running(p) /\ Running(q) => p = q
    /\ \A p \in Proc :
         /\ main[p] = "listen" => sock = NoSock
         /\ main[p] = "serving" /\ acc[p] \in {"start", "accepting"} => sock = p

(* Why a process has failed.                                               *)
FailureExplained ==
  \A p \in Proc : main[p] = "failed" =>
    overlapped \/ p \in blocked \/ serve_err[p]

AceInv ==
  TypeOK /\ ShutdownOrder /\ SocketOwner /\ Lone /\ FailureExplained /\ NoRpcCut

-----------------------------------------------------------------------------
(* Before the first start the invariant holds.                             *)
LEMMA InitAceInv == Init => AceInv
<1> SUFFICES ASSUME Init PROVE AceInv
    OBVIOUS
<1>1. TypeOK
  <2>1. overlapped \in BOOLEAN /\ cancelled \in [Proc -> BOOLEAN]
        /\ serve_err \in [Proc -> BOOLEAN]
      BY Zenon DEF Init
  <2> QED BY <2>1 DEF Init, TypeOK, Over
<1>2. ShutdownOrder /\ SocketOwner /\ FailureExplained /\ NoRpcCut
    BY AceAssumption DEF Init, ShutdownOrder, SocketOwner, FailureExplained, NoRpcCut
<1>3. Lone
    BY DEF Init, Lone, Running, Over
<1> QED BY <1>1, <1>2, <1>3 DEF AceInv

(* Every step of every process and of every client preserves it.           *)
LEMMA StepAceInv == AceInv /\ [Next]_vars => AceInv'
<1> SUFFICES ASSUME AceInv, [Next]_vars PROVE AceInv'
    OBVIOUS
<1> USE AceAssumption DEF AceInv, TypeOK, Over, ShutdownOrder, SocketOwner,
      Lone, Running, Stopped, FailureExplained, NoRpcCut
<1>1. ASSUME UNCHANGED vars PROVE AceInv'
    BY <1>1 DEF vars
<1>2. ASSUME NEW p \in Proc, Start(p) PROVE AceInv'
  <2>1. overlapped' \in BOOLEAN
      BY <1>2, Zenon DEF Start
  <2>2. ~overlapped' => ~overlapped /\ \A q \in Proc : ~Running(q)
      BY <1>2 DEF Start
  <2>3. TypeOK'
      BY <1>2, <2>1 DEF Start
  <2>4. Lone'
      BY <1>2, <2>2 DEF Start
  <2>5. (ShutdownOrder /\ SocketOwner /\ FailureExplained /\ NoRpcCut)'
      BY <1>2 DEF Start
  <2> QED BY <2>3, <2>4, <2>5
<1>3. ASSUME NEW p \in Proc, RemoveStale(p) PROVE AceInv'
    BY <1>3 DEF RemoveStale
<1>4. ASSUME NEW p \in Proc, RemoveFails(p) PROVE AceInv'
    BY <1>4 DEF RemoveFails
<1>5. ASSUME NEW p \in Proc, Listen(p) PROVE AceInv'
    BY <1>5 DEF Listen
<1>6. ASSUME NEW p \in Proc, ListenFails(p) PROVE AceInv'
    BY <1>6 DEF ListenFails
<1>7. ASSUME NEW p \in Proc, ServeBegins(p) PROVE AceInv'
    BY <1>7 DEF ServeBegins
<1>8. ASSUME NEW p \in Proc, ServeTooLate(p) PROVE AceInv'
    BY <1>8 DEF ServeTooLate
<1>9. ASSUME NEW p \in Proc, AcceptFails(p) PROVE AceInv'
    BY <1>9 DEF AcceptFails, Accepting
<1>10. ASSUME NEW p \in Proc, Signal(p) PROVE AceInv'
    BY <1>10 DEF Signal
<1>11. ASSUME NEW p \in Proc, GracefulStop(p) PROVE AceInv'
    BY <1>11 DEF GracefulStop
<1>12. ASSUME NEW p \in Proc, Drained(p) PROVE AceInv'
    BY <1>12 DEF Drained
<1>13. ASSUME NEW p \in Proc, Exit(p) PROVE AceInv'
    BY <1>13 DEF Exit
<1>14. ASSUME NEW p \in Proc, Crash(p) PROVE AceInv'
    BY <1>14 DEF Crash
<1>15. ASSUME NEW c \in Client, Begin(c) PROVE AceInv'
    BY <1>15 DEF Begin, Accepting
<1>16. ASSUME NEW c \in Client, Finish(c) PROVE AceInv'
    BY <1>16 DEF Finish
<1> QED
    BY <1>1, <1>2, <1>3, <1>4, <1>5, <1>6, <1>7, <1>8, <1>9, <1>10, <1>11,
       <1>12, <1>13, <1>14, <1>15, <1>16
    DEF Next, Boot, Work

(* The invariant holds at every moment.                                    *)
LEMMA AceInvariance == Spec => []AceInv
BY InitAceInv, StepAceInv, PTL DEF Spec

-----------------------------------------------------------------------------
(* The variables keep their shapes, and only a serving process has RPCs.   *)
THEOREM AceTypeCorrect == Spec => []TypeOK
<1>1. AceInv => TypeOK
    BY DEF AceInv
<1> QED BY <1>1, AceInvariance, PTL

(* No exit of Serve cuts an RPC short, whichever of its two goroutines     *)
(* returns first and whether a signal or an accept error stopped it.       *)
THEOREM ShutdownDrains == Spec => []NoRpcCut
<1>1. AceInv => NoRpcCut
    BY DEF AceInv
<1> QED BY <1>1, AceInvariance, PTL

(* As long as processes only follow one another, whoever accepts owns the  *)
(* socket path: listening after the removal of a stale socket suffices.    *)
THEOREM LoneServerReached == Spec => []LoneServerIsReachable
<1>1. AceInv => LoneServerIsReachable
    BY DEF AceInv, Lone, LoneServerIsReachable, ServingIsReachable, Accepting
<1> QED BY <1>1, AceInvariance, PTL

(* A socket that was left behind makes no start of main fail, and clean    *)
(* exits of all processes leave no socket file.                            *)
THEOREM RestartAlwaysRecovers == Spec => []RestartRecovers
<1>1. AceInv => RestartRecovers
    BY DEF AceInv, TypeOK, SocketOwner, FailureExplained, RestartRecovers
<1> QED BY <1>1, AceInvariance, PTL

=============================================================================
