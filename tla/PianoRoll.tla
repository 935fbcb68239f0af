----------------------------- MODULE PianoRoll -----------------------------
(***************************************************************************)
(* The piano roll's geometry and its tooltip (PianoRollComponent.cpp):     *)
(* which bar, tick and note a pixel stands for, and where they are drawn.  *)
(* The component has the size that PluginEditor's resized leaves it and    *)
(* the ranges of PianoRollComponent.hpp, which nothing changes.            *)
(***************************************************************************)
EXTENDS Integers, FiniteSets

kKeyboardWidth == 50
kHeaderHeight == 20
kWhiteKeyHeight == 12
RollWidth == 620
RollHeight == 220
startTick == 0
endTick == 3840
ppq == 480
lowNote == 36
highNote == 84

(* C++ division rounds towards zero.                                       *)
Quotient(a, b) == IF a >= 0 THEN a \div b ELSE -((-a) \div b)
clamp(v, lo, hi) == IF v < lo THEN lo ELSE IF v > hi THEN hi ELSE v

GridWidth == RollWidth - kKeyboardWidth
InRoll(x, y) == x \in 0..(RollWidth - 1) /\ y \in 0..(RollHeight - 1)
InHeader(x, y) == InRoll(x, y) /\ y < kHeaderHeight
InKeyboard(x, y) == InRoll(x, y) /\ y >= kHeaderHeight /\ x < kKeyboardWidth
InGrid(x, y) == InRoll(x, y) /\ y >= kHeaderHeight /\ x >= kKeyboardWidth

noteToY(note) == RollHeight - (note - lowNote + 1) * kWhiteKeyHeight
tickToX(tick) ==
  kKeyboardWidth + Quotient((tick - startTick) * GridWidth, endTick - startTick)

(* Mutant: the row of a pixel is rounded up.                               *)
yToNoteUp(y) ==
  clamp(lowNote + Quotient(RollHeight - y + kWhiteKeyHeight - 1, kWhiteKeyHeight),
        lowNote, highNote)

yToNote(y) == clamp(lowNote + Quotient(RollHeight - y, kWhiteKeyHeight), lowNote, highNote)
xToTick(x) == startTick + Quotient((x - kKeyboardWidth) * (endTick - startTick), GridWidth)

(* Bars are counted from 0; the tick at the end begins one more.           *)
ticksPerBar == ppq * 4
LastBar == endTick \div ticksPerBar
BarAt(tick) == clamp(Quotient(tick, ticksPerBar), 0, LastBar)

-----------------------------------------------------------------------------
VARIABLES mousePos, hover

hoverVars == <<mousePos, hover>>
NoHover == [note |-> -1, tick |-> -1, shown |-> FALSE]
Outside == <<-1, -1>>

HoverInit == mousePos = Outside /\ hover = NoHover

mouseMove(x, y) ==
  /\ InRoll(x, y)
  /\ mousePos' = <<x, y>>
  /\ hover' = [note |-> IF InHeader(x, y) THEN -1 ELSE yToNote(y),
               tick |-> IF InGrid(x, y) THEN xToTick(x) ELSE -1,
               shown |-> ~InHeader(x, y)]

mouseExit ==
  /\ mousePos # Outside
  /\ hover' = NoHover /\ mousePos' = Outside

HoverSpec ==
  HoverInit /\ [][mouseExit \/ \E x, y \in Int : mouseMove(x, y)]_hoverVars

-----------------------------------------------------------------------------
(* The tooltip names the note and the tick that are drawn at the pointer,  *)
(* to a pixel: a row belongs to the note above at its topmost pixel, and a *)
(* tick is drawn at most a pixel to the left.                              *)
HoverWithinAPixel ==
  hover.shown =>
    /\ mousePos[2] - noteToY(hover.note) \in 1..kWhiteKeyHeight
    /\ hover.tick # -1 => mousePos[1] - tickToX(hover.tick) \in {0, 1}

=============================================================================
