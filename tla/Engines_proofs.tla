--------------------------- MODULE Engines_proofs ---------------------------
(***************************************************************************)
(* Theorems about the theory engines, for every request, and about the     *)
(* planners, for every prompt and every blueprint.                         *)
(***************************************************************************)
EXTENDS Counterpoint, Modulation, Reharmonize, Planning, SequenceTheorems, FiniteSetTheorems,
        WellFoundedInduction, TLAPS

-----------------------------------------------------------------------------
(* CounterpointEngine.                                                     *)
VoiceNotes == Seq([on : Int, off : Int, note : kMinMidi..kMaxMidi])

(* The inductive invariant: the voice stays in its register and ends with  *)
(* its last slot.                                                          *)
CounterpointInv ==
  /\ call \in CounterpointCalls
  /\ step \in {"counterpoint", "done"}
  /\ out \in VoiceNotes
  /\ step = "counterpoint" /\ call.bass # <<>> => Len(out) < PerSlot * Slots
  /\ ParallelsOnlyAtTheEdge

(* The interval of a note some semitones lower or higher.                  *)
LEMMA IntervalBelow ==
  ASSUME NEW q \in Int, NEW j \in 0..11
  PROVE  (q - j) % 12 = IF (q % 12) >= j THEN (q % 12) - j ELSE (q % 12) - j + 12
OBVIOUS

LEMMA IntervalAbove ==
  ASSUME NEW q \in Int, NEW j \in 0..11
  PROVE  (q + j) % 12 = IF (q % 12) + j < 12 THEN (q % 12) + j ELSE (q % 12) + j - 12
OBVIOUS

(* How far contrary motion must be able to go to avoid the interval ic.    *)
Reach(ic) == IF ic = 0 THEN 6 ELSE 4

(* Consonances lie so close that a few semitones down, or up, always hold  *)
(* one other than ic.                                                      *)
LEMMA ConsonanceBelow ==
  ASSUME NEW bass \in Int, NEW ic \in {0, 7}, NEW prev \in kMinMidi..kMaxMidi,
         prev >= kMinMidi + Reach(ic)
  PROVE  \E d \in kMinMidi..kMaxMidi :
           d < prev /\ (d - bass) % 12 \in kConsonantIntervals \ {ic}
<1> DEFINE q == prev - bass
           m == q % 12
           Down(j) == IF m >= j THEN m - j ELSE m - j + 12
<1>1. q \in Int /\ m \in 0..11 /\ prev \in 60..84
  BY DEF kMinMidi, kMaxMidi
<1>2. \A j \in 0..11 : (q - j) % 12 = Down(j)
  BY <1>1, IntervalBelow
<1> HIDE DEF m, q
<1>3. CASE ic = 0
  <2>1. \/ Down(1) \in {3, 4, 7, 8, 9} \/ Down(2) \in {3, 4, 7, 8, 9}
        \/ Down(3) \in {3, 4, 7, 8, 9} \/ Down(4) \in {3, 4, 7, 8, 9}
        \/ Down(5) \in {3, 4, 7, 8, 9} \/ Down(6) \in {3, 4, 7, 8, 9}
    BY <1>1
  <2>2. PICK j \in 1..6 : Down(j) \in {3, 4, 7, 8, 9}
    BY <2>1
  <2>3. (q - j) % 12 \in kConsonantIntervals \ {0}
    BY <1>2, <2>2 DEF kConsonantIntervals
  <2>4. prev - j \in kMinMidi..kMaxMidi /\ prev - j < prev /\ (prev - j) - bass = q - j
    BY <1>1, <1>3 DEF Reach, kMinMidi, kMaxMidi, q
  <2> QED BY <1>3, <2>3, <2>4
<1>4. CASE ic = 7
  <2>1. \/ Down(1) \in {0, 3, 4, 8, 9} \/ Down(2) \in {0, 3, 4, 8, 9}
        \/ Down(3) \in {0, 3, 4, 8, 9} \/ Down(4) \in {0, 3, 4, 8, 9}
    BY <1>1
  <2>2. PICK j \in 1..4 : Down(j) \in {0, 3, 4, 8, 9}
    BY <2>1
  <2>3. (q - j) % 12 \in kConsonantIntervals \ {7}
    BY <1>2, <2>2 DEF kConsonantIntervals
  <2>4. prev - j \in kMinMidi..kMaxMidi /\ prev - j < prev /\ (prev - j) - bass = q - j
    BY <1>1, <1>4 DEF Reach, kMinMidi, kMaxMidi, q
  <2> QED BY <1>4, <2>3, <2>4
<1> QED BY <1>3, <1>4

LEMMA ConsonanceAbove ==
  ASSUME NEW bass \in Int, NEW ic \in {0, 7}, NEW prev \in kMinMidi..kMaxMidi,
         prev <= kMaxMidi - Reach(ic)
  PROVE  \E d \in kMinMidi..kMaxMidi :
           d > prev /\ (d - bass) % 12 \in kConsonantIntervals \ {ic}
<1> DEFINE q == prev - bass
           m == q % 12
           Up(j) == IF m + j < 12 THEN m + j ELSE m + j - 12
<1>1. q \in Int /\ m \in 0..11 /\ prev \in 60..84
  BY DEF kMinMidi, kMaxMidi
<1>2. \A j \in 0..11 : (q + j) % 12 = Up(j)
  BY <1>1, IntervalAbove
<1> HIDE DEF m, q
<1>3. CASE ic = 0
  <2>1. \/ Up(1) \in {3, 4, 7, 8, 9} \/ Up(2) \in {3, 4, 7, 8, 9}
        \/ Up(3) \in {3, 4, 7, 8, 9} \/ Up(4) \in {3, 4, 7, 8, 9}
        \/ Up(5) \in {3, 4, 7, 8, 9} \/ Up(6) \in {3, 4, 7, 8, 9}
    BY <1>1
  <2>2. PICK j \in 1..6 : Up(j) \in {3, 4, 7, 8, 9}
    BY <2>1
  <2>3. (q + j) % 12 \in kConsonantIntervals \ {0}
    BY <1>2, <2>2 DEF kConsonantIntervals
  <2>4. prev + j \in kMinMidi..kMaxMidi /\ prev + j > prev /\ (prev + j) - bass = q + j
    BY <1>1, <1>3 DEF Reach, kMinMidi, kMaxMidi, q
  <2> QED BY <1>3, <2>3, <2>4
<1>4. CASE ic = 7
  <2>1. \/ Up(1) \in {0, 3, 4, 8, 9} \/ Up(2) \in {0, 3, 4, 8, 9}
        \/ Up(3) \in {0, 3, 4, 8, 9} \/ Up(4) \in {0, 3, 4, 8, 9}
    BY <1>1
  <2>2. PICK j \in 1..4 : Up(j) \in {0, 3, 4, 8, 9}
    BY <2>1
  <2>3. (q + j) % 12 \in kConsonantIntervals \ {7}
    BY <1>2, <2>2 DEF kConsonantIntervals
  <2>4. prev + j \in kMinMidi..kMaxMidi /\ prev + j > prev /\ (prev + j) - bass = q + j
    BY <1>1, <1>4 DEF Reach, kMinMidi, kMaxMidi, q
  <2> QED BY <1>4, <2>3, <2>4
<1> QED BY <1>3, <1>4

(* The sets the next note is drawn from lie in the register and are not    *)
(* empty.                                                                  *)
LEMMA DrawnInRegister ==
  ASSUME NEW b \in Int, NEW C \in SUBSET (kMinMidi..kMaxMidi)
  PROVE  Drawn(C, b) \in SUBSET (kMinMidi..kMaxMidi)
BY DEF Drawn, Octave, kMinMidi, kMaxMidi

LEMMA SlotFacts ==
  ASSUME CounterpointInv, step = "counterpoint", call.bass # <<>>
  PROVE  /\ PerSlot \in {1, 2} /\ Slots \in Nat \ {0}
         /\ Slot \in 1..Slots
         /\ call.bass \in Seq(Int) /\ call.cf \in Seq(Int)
         /\ Bass(Slot) \in Int
         /\ slot_ticks \in Int
         /\ Len(out) \in Nat
<1>1. PerSlot \in {1, 2} /\ call.bass \in Seq(Int) /\ call.cf \in Seq(Int)
      /\ call.bars \in Int /\ call.ppq \in Int
  BY DEF CounterpointInv, CounterpointCalls, PerSlot
<1>2. Len(out) \in Nat /\ Len(out) < PerSlot * Slots
  BY DEF CounterpointInv, VoiceNotes
<1>3. Slots \in Nat \ {0}
  BY <1>1 DEF Slots
<1>4. Slot \in 1..Slots
  BY <1>1, <1>2, <1>3 DEF Slot
<1>5. Bass(Slot) \in Int
  BY <1>1, <1>3, <1>4 DEF Bass, Slots
<1>6. slot_ticks \in Int
  BY <1>1, <1>3 DEF slot_ticks
<1> QED BY <1>1, <1>2, <1>3, <1>4, <1>5, <1>6

LEMMA CandidatesInRegister ==
  ASSUME CounterpointInv, step = "counterpoint", call.bass # <<>>
  PROVE  /\ Strong(Slot) \in SUBSET (kMinMidi..kMaxMidi)
         /\ Weak(Slot) \in SUBSET (kMinMidi..kMaxMidi)
<1> DEFINE valid == valid_midi_notes(Bass(Slot))
<1>1. valid \in SUBSET (kMinMidi..kMaxMidi)
  BY DEF valid_midi_notes
<1>2. filter_first_species(valid, Bass(Slot), Slot, Slots, PrevNote, PrevIc, call.cf)
        \in SUBSET valid
  <2> HIDE DEF valid
  <2> QED BY DEF filter_first_species
<1>3. Strong(Slot) \in SUBSET (kMinMidi..kMaxMidi)
  <2> DEFINE kept == filter_first_species(valid, Bass(Slot), Slot, Slots, PrevNote, PrevIc, call.cf)
  <2>1. Strong(Slot) = Drawn(kept, Bass(Slot))
    BY DEF Strong
  <2>2. kept \in SUBSET (kMinMidi..kMaxMidi)
    BY <1>1, <1>2
  <2> HIDE DEF kept
  <2> QED BY <2>1, <2>2, SlotFacts, DrawnInRegister
<1>4. ASSUME NEW dir \in {1, -1}
      PROVE  /\ Passing(PrevNote, Bass(Slot), dir) \in SUBSET (kMinMidi..kMaxMidi)
             /\ Drawn(valid, Bass(Slot)) \in SUBSET (kMinMidi..kMaxMidi)
  <2>1. Passing(PrevNote, Bass(Slot), dir) \in SUBSET (kMinMidi..kMaxMidi)
    BY Zenon DEF Passing
  <2> HIDE DEF valid
  <2> QED BY <1>1, <2>1, SlotFacts, DrawnInRegister
<1>5. Weak(Slot) \in SUBSET (kMinMidi..kMaxMidi)
  BY <1>4 DEF Weak
<1> QED BY <1>3, <1>5

(* What the rules of the first species promise of a note they let through: *)
(* it makes a parallel only if no consonant note of the register moves     *)
(* against the cantus firmus without one.                                  *)
LEMMA FilterAvoidsParallels ==
  ASSUME NEW bass \in Int, NEW i \in Nat, i > 1, NEW n \in Nat, i # n,
         NEW prev \in Nat, NEW prev_ic \in Int, NEW cf \in Seq(Int),
         NEW c \in Drawn(filter_first_species(valid_midi_notes(bass), bass, i, n, prev, prev_ic, cf),
                         bass),
         Parallel(prev_ic, interval_class(c, bass)),
         NEW d \in kMinMidi..kMaxMidi,
         (d - bass) % 12 \in kConsonantIntervals \ {prev_ic},
         \/ i > Len(cf) \/ cf[i] = cf[i - 1]
         \/ cf[i] > cf[i - 1] /\ d < prev
         \/ cf[i] < cf[i - 1] /\ d > prev
  PROVE  FALSE
<1> DEFINE valid == valid_midi_notes(bass)
           cf_dir == IF i <= Len(cf) /\ i > 1 THEN cf_direction(cf[i - 1], cf[i]) ELSE 0
           filtered == {x \in valid :
                          /\ ~Parallel(prev_ic, interval_class(x, bass))
                          /\ cf_dir # 0 => cf_direction(prev, x) = -cf_dir}
<1>1. filter_first_species(valid, bass, i, n, prev, prev_ic, cf)
        = IF filtered = {} THEN valid ELSE filtered
  BY DEF filter_first_species
<1>2. d \in valid
  BY DEF valid_midi_notes, is_consonant, interval_class
<1>3. ~Parallel(prev_ic, interval_class(d, bass))
  BY DEF Parallel, interval_class
<1>4. cf_dir # 0 => cf_direction(prev, d) = -cf_dir
  <2>1. SUFFICES ASSUME cf_dir # 0 PROVE cf_direction(prev, d) = -cf_dir
    OBVIOUS
  <2>2. i \in DOMAIN cf /\ i - 1 \in DOMAIN cf /\ i <= Len(cf) /\ Len(cf) \in Nat
    <3>1. Len(cf) \in Nat /\ DOMAIN cf = 1..Len(cf)
      OBVIOUS
    <3>2. i <= Len(cf)
      BY <2>1
    <3> QED BY <3>1, <3>2
  <2>3. cf[i] \in Int /\ cf[i - 1] \in Int
    BY <2>2
  <2>4. d \in Int /\ cf[i] # cf[i - 1]
    BY <2>1, <2>3 DEF cf_direction, kMinMidi, kMaxMidi
  <2>5. \/ cf[i] > cf[i - 1] /\ d < prev
        \/ cf[i] < cf[i - 1] /\ d > prev
    BY <2>2, <2>4
  <2> QED BY <2>2, <2>3, <2>4, <2>5, SMTT(40) DEF cf_direction
<1>5. d \in filtered
  BY <1>2, <1>3, <1>4
<1> HIDE DEF valid, cf_dir
<1>6. c \in filtered
  BY <1>1, <1>5 DEF Drawn, valid
<1> QED BY <1>6

(* A strong inner note makes a parallel only next to the edge.             *)
LEMMA ParallelInside ==
  ASSUME NEW bass \in Int, NEW i \in Nat, i > 1, NEW n \in Nat, i # n,
         NEW prev \in kMinMidi..kMaxMidi, NEW ic \in Int, NEW cf \in Seq(Int),
         NEW c \in Drawn(filter_first_species(valid_midi_notes(bass), bass, i, n, prev, ic, cf),
                         bass),
         Parallel(ic, interval_class(c, bass))
  PROVE  /\ i <= Len(cf)
         /\ \/ cf[i] > cf[i - 1] /\ prev < kMinMidi + Reach(ic)
            \/ cf[i] < cf[i - 1] /\ prev > kMaxMidi - Reach(ic)
<1>1. ic \in {0, 7} /\ prev \in Nat /\ Reach(ic) \in Int
  BY DEF Parallel, Reach, kMinMidi, kMaxMidi
<1> DEFINE Other(d) == (d - bass) % 12 \in kConsonantIntervals \ {ic}
           Against(d) == \/ i > Len(cf) \/ cf[i] = cf[i - 1]
                         \/ cf[i] > cf[i - 1] /\ d < prev
                         \/ cf[i] < cf[i - 1] /\ d > prev
<1>2. \A d \in kMinMidi..kMaxMidi : ~(Other(d) /\ Against(d))
  BY <1>1, FilterAvoidsParallels
<1>3. \E d \in kMinMidi..kMaxMidi : Other(d)
  <2>1. kMaxMidi \in kMinMidi..kMaxMidi /\ kMaxMidi >= kMinMidi + Reach(ic)
    BY <1>1 DEF Reach, kMinMidi, kMaxMidi
  <2> QED BY <1>1, <2>1, ConsonanceBelow
<1>4. i <= Len(cf) /\ cf[i] # cf[i - 1]
  BY <1>2, <1>3
<1>5. cf[i] \in Int /\ cf[i - 1] \in Int
  <2>1. i \in DOMAIN cf /\ i - 1 \in DOMAIN cf
    BY <1>4
  <2> QED BY <2>1
<1>6. prev >= kMinMidi + Reach(ic) => \E d \in kMinMidi..kMaxMidi : d < prev /\ Other(d)
  BY <1>1, ConsonanceBelow
<1>7. prev <= kMaxMidi - Reach(ic) => \E d \in kMinMidi..kMaxMidi : d > prev /\ Other(d)
  BY <1>1, ConsonanceAbove
<1>8. cf[i] > cf[i - 1] => ~(prev >= kMinMidi + Reach(ic))
  BY <1>2, <1>6, Zenon
<1>9. cf[i] < cf[i - 1] => ~(prev <= kMaxMidi - Reach(ic))
  BY <1>2, <1>7, Zenon
<1>10. prev \in Int /\ kMinMidi + Reach(ic) \in Int /\ kMaxMidi - Reach(ic) \in Int
  BY <1>1 DEF kMinMidi, kMaxMidi
<1> HIDE DEF Other, Against
<1> QED BY <1>4, <1>5, <1>8, <1>9, <1>10, SMTT(40)

(* A strong note of the last slot is an octave.                            *)
LEMMA LastIsOctave ==
  ASSUME NEW bass \in Int, NEW n \in Nat, NEW prev, NEW ic, NEW cf,
         NEW c \in Drawn(filter_first_species(valid_midi_notes(bass), bass, n, n, prev, ic, cf),
                         bass)
  PROVE  interval_class(c, bass) = 0
<1> DEFINE valid == valid_midi_notes(bass)
           perfect == {x \in valid : interval_class(x, bass) = 0}
           d == 60 + ((bass - 60) % 12)
<1>1. filter_first_species(valid, bass, n, n, prev, ic, cf)
        = IF perfect = {} THEN valid ELSE perfect
  BY DEF filter_first_species
<1>2. d \in 60..84 /\ (d - bass) % 12 = 0
  OBVIOUS
<1>3. d \in perfect
  <2> HIDE DEF d
  <2> QED BY <1>2 DEF valid_midi_notes, is_consonant, interval_class, kConsonantIntervals,
          kMinMidi, kMaxMidi
<1> HIDE DEF valid, d
<1>4. c \in perfect
  BY <1>1, <1>3 DEF Drawn, valid
<1> QED BY <1>4

(* Over the same bass a passing note makes a parallel only where none is   *)
(* left in the direction that was drawn.                                   *)
LEMMA PassingAtTheEdge ==
  ASSUME NEW bass \in Int, NEW prev \in kMinMidi..kMaxMidi, NEW dir \in {1, -1},
         NEW c \in IF Passing(prev, bass, dir) = {} THEN Drawn(valid_midi_notes(bass), bass)
                   ELSE Passing(prev, bass, dir),
         Parallel(interval_class(prev, bass), interval_class(c, bass))
  PROVE  prev = kMaxMidi \/ prev <= kMinMidi + 2
<1> DEFINE q == prev - bass
           m == q % 12
           P == Passing(prev, bass, dir)
<1>1. prev \in 60..84 /\ q \in Int /\ m \in {0, 7}
  BY DEF Parallel, interval_class, kMinMidi, kMaxMidi
<1>down. \A j \in 0..11 : (q - j) % 12 = IF m >= j THEN m - j ELSE m - j + 12
  BY <1>1, IntervalBelow
<1>up. \A j \in 0..11 : (q + j) % 12 = IF m + j < 12 THEN m + j ELSE m + j - 12
  BY <1>1, IntervalAbove
<1>2. \A p : p \in P <=>
        /\ \E s \in 1..3 : p = prev + dir * s
        /\ p \in 60..84
        /\ (p - bass) % 12 \in {0, 1, 2, 3, 4, 5, 7, 8, 9}
  BY DEF Passing, is_consonant, interval_class, kConsonantIntervals, kMinMidi, kMaxMidi
<1>3. P = {}
  <2> SUFFICES ASSUME P # {} PROVE FALSE
    OBVIOUS
  <2>1. c \in P
    OBVIOUS
  <2>2. PICK s \in 1..3 : c = prev + dir * s
    BY <1>2, <2>1
  <2>3. (c - bass) % 12 = m
    BY DEF Parallel, interval_class
  <2>4. CASE dir = 1
    <3>1. c - bass = q + s
      BY <1>1, <2>2, <2>4
    <3> HIDE DEF q, m
    <3> QED BY <1>1, <1>up, <2>3, <3>1
  <2>5. CASE dir = -1
    <3>1. c - bass = q - s
      BY <1>1, <2>2, <2>5
    <3> HIDE DEF q, m
    <3> QED BY <1>1, <1>down, <2>3, <3>1
  <2> QED BY <2>4, <2>5
<1>4. CASE dir = 1
  <2>1. (prev + 1) - bass = q + 1 /\ \E s \in 1..3 : prev + 1 = prev + dir * s
    BY <1>1, <1>4
  <2> HIDE DEF q, m, P
  <2>2. (q + 1) % 12 \in {1, 8}
    BY <1>1, <1>up
  <2>3. prev + 1 \notin P
    BY <1>3
  <2>4. prev + 1 \notin 60..84
    BY ONLY <1>2, <2>1, <2>2, <2>3
  <2> QED BY <1>1, <2>4 DEF kMaxMidi
<1>5. CASE dir = -1
  <2>1. CASE m = 0
    <3>1. (prev - 3) - bass = q - 3 /\ \E s \in 1..3 : prev - 3 = prev + dir * s
      BY <1>1, <1>5
    <3> HIDE DEF q, m, P
    <3>2. (q - 3) % 12 = 9
      BY <1>down, <2>1
    <3>3. prev - 3 \notin P
      BY <1>3
    <3>4. prev - 3 \notin 60..84
      BY ONLY <1>2, <3>1, <3>2, <3>3
    <3> QED BY <1>1, <3>4 DEF kMinMidi
  <2>2. CASE m = 7
    <3>1. (prev - 2) - bass = q - 2 /\ \E s \in 1..3 : prev - 2 = prev + dir * s
      BY <1>1, <1>5
    <3> HIDE DEF q, m, P
    <3>2. (q - 2) % 12 = 5
      BY <1>down, <2>2
    <3>3. prev - 2 \notin P
      BY <1>3
    <3>4. prev - 2 \notin 60..84
      BY ONLY <1>2, <3>1, <3>2, <3>3
    <3> QED BY <1>1, <3>4 DEF kMinMidi
  <2> QED BY <1>1, <2>1, <2>2
<1> QED BY <1>4, <1>5

(* The k-th note of the voice, as ParallelsOnlyAtTheEdge has it.           *)
AtTheEdge(voice, k) ==
  LET i == (k - 1) \div PerSlot + 1
      prev == voice[k - 1].note
      ic(j) == interval_class(voice[j].note, BassOf(j))
      reach == IF ic(k) = 0 THEN 6 ELSE 4
  IN Parallel(ic(k - 1), ic(k)) =>
       IF PerSlot = 2 /\ k % 2 = 0
       THEN prev = kMaxMidi \/ prev <= kMinMidi + 2
       ELSE \/ i = Slots /\ ic(k) = 0
            \/ /\ i < Slots /\ i <= Len(call.cf)
               /\ \/ call.cf[i] > call.cf[i - 1] /\ prev < kMinMidi + reach
                  \/ call.cf[i] < call.cf[i - 1] /\ prev > kMaxMidi - reach

LEMMA EdgeOfVoice ==
  ASSUME IsVoice
  PROVE  ParallelsOnlyAtTheEdge <=> \A k \in 2..Len(out) : AtTheEdge(out, k)
BY Zenon DEF ParallelsOnlyAtTheEdge, AtTheEdge, Ic

(* The note that is emitted next, and the one before it.                   *)
LEMMA NextNoteFacts ==
  ASSUME CounterpointInv, step = "counterpoint", call.bass # <<>>, Len(out) > 0, NEW note
  PROVE  /\ (Len(out) + 1 - 1) \div PerSlot + 1 = Slot
         /\ BassOf(Len(out) + 1) = Bass(Slot)
         /\ Append(out, note)[Len(out) + 1] = note
         /\ Append(out, note)[Len(out) + 1 - 1].note = PrevNote
         /\ PrevNote \in kMinMidi..kMaxMidi
         /\ PrevIc = interval_class(PrevNote, BassOf(Len(out) + 1 - 1))
         /\ PrevIc \in Int
<1> DEFINE k == Len(out) + 1
           voice == Append(out, note)
<1>1. /\ PerSlot \in {1, 2} /\ Slots \in Nat /\ Slot \in 1..Slots /\ Len(out) \in Nat
      /\ call.bass \in Seq(Int) /\ Bass(Slot) \in Int
  BY SlotFacts
<1>2. out \in VoiceNotes
  BY DEF CounterpointInv
<1>3. (k - 1) \div PerSlot + 1 = Slot /\ BassOf(k) = Bass(Slot)
  BY <1>1 DEF Slot, BassOf
<1>4. voice[k] = note /\ voice[k - 1] = out[Len(out)]
  BY <1>1, <1>2, SMTT(40) DEF VoiceNotes
<1>5. /\ PrevNote = voice[k - 1].note
      /\ PrevNote \in kMinMidi..kMaxMidi
  <2>1. PrevNote = out[Len(out)].note
    BY <1>1, <1>2 DEF PrevNote, Last, VoiceNotes
  <2>2. out[Len(out)] \in [on : Int, off : Int, note : kMinMidi..kMaxMidi]
    <3> DEFINE R == [on : Int, off : Int, note : kMinMidi..kMaxMidi]
    <3>1. out \in Seq(R) /\ Len(out) \in Nat /\ Len(out) > 0
      BY <1>1, <1>2 DEF VoiceNotes
    <3> HIDE DEF R
    <3>2. out[Len(out)] \in R
      BY ONLY <3>1
    <3> QED BY <3>2 DEF R
  <2> QED BY <1>4, <2>1, <2>2
<1>6. PrevIc = interval_class(PrevNote, BassOf(k - 1))
  BY <1>1, <1>2 DEF PrevIc, VoiceNotes, BassOf
<1>7. BassOf(k - 1) \in Int
  <2>1. (k - 2) \div PerSlot + 1 \in 1..Slots
    BY <1>1, <1>3 DEF Slot
  <2> QED BY <1>1, <2>1, SMTT(40) DEF BassOf, Bass, Slots
<1>8. PrevIc \in Int
  BY <1>5, <1>6, <1>7 DEF interval_class, kMinMidi, kMaxMidi
<1> QED BY <1>3, <1>4, <1>5, <1>6, <1>8

(* A strong note keeps the promise.                                        *)
LEMMA StrongNoteAtTheEdge ==
  ASSUME CounterpointInv, step = "counterpoint", call.bass # <<>>,
         Len(out) % PerSlot = 0, Len(out) > 0,
         NEW note, note.note \in Strong(Slot)
  PROVE  AtTheEdge(Append(out, note), Len(out) + 1)
<1> DEFINE k == Len(out) + 1
           voice == Append(out, note)
           bass == Bass(Slot)
           i == Slot
           n == Slots
           prev == PrevNote
           ic == PrevIc
           cf == call.cf
           x == note.note
           new == interval_class(x, bass)
<1>1. /\ (k - 1) \div PerSlot + 1 = i /\ BassOf(k) = bass /\ voice[k] = note
      /\ voice[k - 1].note = prev /\ prev \in kMinMidi..kMaxMidi
      /\ ic = interval_class(prev, BassOf(k - 1)) /\ ic \in Int
  BY NextNoteFacts
<1>2. /\ PerSlot \in {1, 2} /\ n \in Nat /\ i \in 1..n /\ Len(out) \in Nat
      /\ cf \in Seq(Int) /\ bass \in Int
  BY SlotFacts
<1>3. i > 1 /\ ~(PerSlot = 2 /\ k % 2 = 0)
  BY <1>2 DEF Slot
<1>4. x \in Drawn(filter_first_species(valid_midi_notes(bass), bass, i, n, prev, ic, cf), bass)
  BY DEF Strong
<1>5. SUFFICES ASSUME Parallel(ic, new)
               PROVE  \/ i = n /\ new = 0
                      \/ /\ i < n /\ i <= Len(cf)
                         /\ \/ cf[i] > cf[i - 1] /\ prev < kMinMidi + (IF new = 0 THEN 6 ELSE 4)
                            \/ cf[i] < cf[i - 1] /\ prev > kMaxMidi - (IF new = 0 THEN 6 ELSE 4)
  BY <1>1, <1>3, Zenon DEF AtTheEdge
<1> HIDE DEF k, voice, bass, i, n, prev, ic, cf, x
<1>6. CASE i = n
  <2>1. new = 0
    BY <1>2, <1>4, <1>6, LastIsOctave
  <2> QED BY <1>6, <2>1
<1>7. CASE i # n
  <2>1. i \in Nat
    BY <1>2
  <2>2. /\ i <= Len(cf)
        /\ \/ cf[i] > cf[i - 1] /\ prev < kMinMidi + Reach(ic)
           \/ cf[i] < cf[i - 1] /\ prev > kMaxMidi - Reach(ic)
    BY <1>1, <1>2, <1>3, <1>4, <1>5, <1>7, <2>1, ParallelInside
  <2>3. ic = new
    BY <1>5 DEF Parallel
  <2>4. i < n
    BY <1>2, <1>7
  <2> HIDE DEF new
  <2> QED BY <2>2, <2>3, <2>4, Zenon DEF Reach
<1> QED BY <1>6, <1>7

(* And so does a passing note.                                             *)
LEMMA WeakNoteAtTheEdge ==
  ASSUME CounterpointInv, step = "counterpoint", call.bass # <<>>,
         PerSlot = 2, Len(out) % 2 = 1, Len(out) > 0,
         NEW note, note.note \in Weak(Slot)
  PROVE  AtTheEdge(Append(out, note), Len(out) + 1)
<1> DEFINE k == Len(out) + 1
           voice == Append(out, note)
           bass == Bass(Slot)
           prev == PrevNote
           x == note.note
<1>1. /\ BassOf(k) = bass /\ voice[k] = note
      /\ voice[k - 1].note = prev /\ prev \in kMinMidi..kMaxMidi
  BY NextNoteFacts
<1>2. Len(out) \in Nat /\ bass \in Int
  BY SlotFacts
<1>3. k % 2 = 0 /\ BassOf(k - 1) = bass
  BY <1>2 DEF Slot, BassOf
<1>4. PICK dir \in {1, -1} :
        x \in IF Passing(prev, bass, dir) = {} THEN Drawn(valid_midi_notes(bass), bass)
              ELSE Passing(prev, bass, dir)
  BY Zenon DEF Weak
<1>5. SUFFICES ASSUME Parallel(interval_class(prev, bass), interval_class(x, bass))
               PROVE  prev = kMaxMidi \/ prev <= kMinMidi + 2
  BY <1>1, <1>3, Zenon DEF AtTheEdge
<1> HIDE DEF bass, prev, x
<1> QED BY <1>1, <1>2, <1>4, <1>5, PassingAtTheEdge

(* A note of the register with no new parallel elsewhere keeps the         *)
(* invariant.                                                              *)
LEMMA EmittedNoteKeepsInv ==
  ASSUME CounterpointInv, step = "counterpoint", call.bass # <<>>,
         NEW note \in [on : Int, off : Int, note : kMinMidi..kMaxMidi],
         Len(out) > 0 => AtTheEdge(Append(out, note), Len(out) + 1),
         out' = Append(out, note), call' = call,
         step' = IF Len(out) + 1 = PerSlot * Slots THEN "done" ELSE step
  PROVE  CounterpointInv'
<1> DEFINE R == [on : Int, off : Int, note : kMinMidi..kMaxMidi]
<1>1. out \in Seq(R) /\ note \in R /\ Len(out) \in Nat
  BY DEF CounterpointInv, VoiceNotes
<1>2. /\ PerSlot \in {1, 2} /\ Slots \in Nat
      /\ Len(out) < PerSlot * Slots
  BY SlotFacts DEF CounterpointInv
<1>3. PerSlot' = PerSlot /\ Slots' = Slots
  BY DEF PerSlot, Slots
<1>4. out' \in VoiceNotes' /\ Len(out') = Len(out) + 1
  <2> HIDE DEF R
  <2>1. Append(out, note) \in Seq(R) /\ Len(Append(out, note)) = Len(out) + 1
    BY ONLY <1>1
  <2> QED BY <2>1 DEF R, VoiceNotes, kMinMidi, kMaxMidi
<1>5. IsVoice /\ IsVoice'
  BY DEF CounterpointInv, CounterpointCalls, IsVoice
<1>6. \A k \in 2..Len(out) : AtTheEdge(out, k)
  BY <1>5, EdgeOfVoice DEF CounterpointInv
<1>7. ASSUME NEW k \in 2..(Len(out) + 1)
      PROVE  AtTheEdge(Append(out, note), k)
  <2>1. CASE k = Len(out) + 1
    BY <1>1, <2>1
  <2>2. CASE k \in 2..Len(out)
    <3>1. Append(out, note)[k] = out[k] /\ Append(out, note)[k - 1] = out[k - 1]
      <4> HIDE DEF R
      <4> QED BY ONLY <1>1, <2>2
    <3>2. AtTheEdge(out, k)
      BY <1>6, <2>2
    <3> QED BY <3>1, <3>2, Zenon DEF AtTheEdge
  <2> QED BY <1>1, <2>1, <2>2
<1>8. ASSUME NEW k \in 2..Len(out')
      PROVE  AtTheEdge(out, k)'
  <2>1. AtTheEdge(Append(out, note), k)
    BY <1>1, <1>4, <1>7
  <2> QED BY <2>1, <1>3, Zenon DEF AtTheEdge, BassOf, Bass
<1>9. ParallelsOnlyAtTheEdge'
  <2>1. (ParallelsOnlyAtTheEdge <=> \A k \in 2..Len(out) : AtTheEdge(out, k))'
    BY <1>5, EdgeOfVoice DEF ParallelsOnlyAtTheEdge, AtTheEdge, Ic
  <2> QED BY <1>8, <2>1
<1>10. (step = "counterpoint" /\ call.bass # <<>> => Len(out) < PerSlot * Slots)'
  <2>1. CASE Len(out) + 1 = PerSlot * Slots
    BY <2>1
  <2>2. CASE Len(out) + 1 # PerSlot * Slots
    BY <1>1, <1>2, <1>3, <1>4, <2>2
  <2> QED BY <2>1, <2>2
<1> QED BY <1>4, <1>9, <1>10 DEF CounterpointInv, CounterpointCalls

(* A step that leaves the call and the voice alone.                        *)
LEMMA CounterpointUnchanged ==
  ASSUME CounterpointInv, call' = call, out' = out, step' \in {step, "done"}
  PROVE  CounterpointInv'
<1>1. PerSlot' = PerSlot /\ Slots' = Slots /\ (IsVoice <=> IsVoice')
  BY DEF PerSlot, Slots, IsVoice
<1>2. \A k : BassOf(k)' = BassOf(k) /\ Ic(k)' = Ic(k)
  BY <1>1 DEF BassOf, Bass, Ic
<1>3. ParallelsOnlyAtTheEdge'
  <2>1. ParallelsOnlyAtTheEdge
    BY DEF CounterpointInv
  <2> QED BY <2>1, <1>1, <1>2, SMTT(40) DEF ParallelsOnlyAtTheEdge
<1> QED BY <1>1, <1>3 DEF CounterpointInv

LEMMA CounterpointStep ==
  ASSUME CounterpointInv, [CounterpointNext]_vars
  PROVE  CounterpointInv'
<1>1. CASE NoVoice
  BY <1>1, CounterpointUnchanged DEF NoVoice
<1>2. CASE FirstSpecies
  <2>1. PICK c \in Strong(Slot) :
          out' = Append(out, Note((Slot - 1) * slot_ticks,
                                  (Slot - 1) * slot_ticks + slot_ticks - 5, c))
    BY <1>2, Zenon DEF FirstSpecies, Emit
  <2> DEFINE note == Note((Slot - 1) * slot_ticks, (Slot - 1) * slot_ticks + slot_ticks - 5, c)
  <2>2. /\ step = "counterpoint" /\ call.bass # <<>> /\ call' = call
        /\ step' = IF Slot = Slots THEN "done" ELSE step
        /\ PerSlot = 1
    BY <1>2 DEF FirstSpecies, PerSlot
  <2>3. Slot \in 1..Slots /\ slot_ticks \in Int /\ Len(out) \in Nat /\ Slots \in Nat
    BY <2>2, SlotFacts
  <2>4. note \in [on : Int, off : Int, note : kMinMidi..kMaxMidi] /\ note.note = c
    BY <2>1, <2>2, <2>3, CandidatesInRegister DEF Note
  <2>5. Slot = Len(out) + 1 /\ Len(out) % PerSlot = 0
    BY <2>2, <2>3 DEF Slot
  <2> HIDE DEF note
  <2>6. Len(out) > 0 => AtTheEdge(Append(out, note), Len(out) + 1)
    BY <2>1, <2>2, <2>4, <2>5, StrongNoteAtTheEdge
  <2>7. step' = IF Len(out) + 1 = PerSlot * Slots THEN "done" ELSE step
    BY <2>2, <2>3, <2>5
  <2> QED BY <2>1, <2>2, <2>4, <2>6, <2>7, EmittedNoteKeepsInv DEF note
<1>3. CASE SecondSpecies
  <2> DEFINE sub == Len(out) % 2
             sub_slot == slot_ticks \div 2
             tick == (Slot - 1) * slot_ticks + sub * sub_slot
  <2>1. PICK c \in IF sub = 0 THEN Strong(Slot) ELSE Weak(Slot) :
          out' = Append(out, Note(tick, tick + sub_slot - 5, c))
    BY <1>3, Zenon DEF SecondSpecies, Emit
  <2> DEFINE note == Note(tick, tick + sub_slot - 5, c)
  <2>2. /\ step = "counterpoint" /\ call.bass # <<>> /\ call' = call
        /\ step' = IF Slot = Slots /\ sub = 1 THEN "done" ELSE step
        /\ PerSlot = 2
    BY <1>3 DEF SecondSpecies, PerSlot
  <2>3. Slot \in 1..Slots /\ slot_ticks \in Int /\ Len(out) \in Nat /\ Slots \in Nat
    BY <2>2, SlotFacts
  <2>4. note \in [on : Int, off : Int, note : kMinMidi..kMaxMidi] /\ note.note = c
    <3>1. sub \in {0, 1} /\ sub_slot \in Int
      BY <2>3
    <3>2. tick \in Int
      BY <2>3, <3>1
    <3>3. c \in kMinMidi..kMaxMidi
      BY <2>1, <2>2, CandidatesInRegister
    <3> HIDE DEF sub, sub_slot, tick
    <3> QED BY <3>1, <3>2, <3>3 DEF Note
  <2>5. Len(out) = 2 * (Slot - 1) + sub /\ sub \in {0, 1}
    BY <2>2, <2>3 DEF Slot
  <2> HIDE DEF note
  <2>6. Len(out) > 0 => AtTheEdge(Append(out, note), Len(out) + 1)
    <3>1. CASE sub = 0
      BY <2>1, <2>2, <2>4, <3>1, StrongNoteAtTheEdge
    <3>2. CASE sub = 1
      <4>1. Len(out) % 2 = 1 /\ Len(out) > 0
        BY <2>3, <2>5, <3>2
      <4>2. c \in Weak(Slot)
        BY <2>1, <3>2
      <4> QED BY <2>2, <2>4, <4>1, <4>2, WeakNoteAtTheEdge
    <3> QED BY <2>5, <3>1, <3>2
  <2>7. step' = IF Len(out) + 1 = PerSlot * Slots THEN "done" ELSE step
    <3> HIDE DEF sub
    <3> QED BY <2>2, <2>3, <2>5
  <2> QED BY <2>1, <2>2, <2>4, <2>6, <2>7, EmittedNoteKeepsInv DEF note
<1>4. CASE UNCHANGED vars
  BY <1>4, CounterpointUnchanged DEF vars
<1> QED BY <1>1, <1>2, <1>3, <1>4 DEF CounterpointNext

(* CounterpointEngine.generate, whatever the bass and the cantus firmus:   *)
(* octaves and fifths move in parallel with the bass only into the last    *)
(* octave and next to the ends of the register.                            *)
THEOREM CounterpointSound == CounterpointSpec => []ParallelsOnlyAtTheEdge
<1>1. Start(CounterpointCalls) => CounterpointInv
  <2> SUFFICES ASSUME Start(CounterpointCalls) PROVE CounterpointInv
    OBVIOUS
  <2>1. call \in CounterpointCalls /\ out = <<>> /\ step = "counterpoint"
    BY DEF Start, CounterpointCalls
  <2>2. call.bass # <<>> => 0 < PerSlot * Slots
    <3>1. call.bass \in Seq(Int)
      BY <2>1 DEF CounterpointCalls
    <3>2. call.bass # <<>> => Slots \in Nat \ {0}
      BY <3>1 DEF Slots
    <3>3. PerSlot \in {1, 2}
      BY DEF PerSlot
    <3> QED BY <3>2, <3>3
  <2>3. out \in VoiceNotes /\ Len(out) = 0
    BY <2>1 DEF VoiceNotes
  <2>4. ParallelsOnlyAtTheEdge
    BY <2>3 DEF ParallelsOnlyAtTheEdge
  <2> QED BY <2>1, <2>2, <2>3, <2>4 DEF CounterpointInv
<1>2. CounterpointInv /\ [CounterpointNext]_vars => CounterpointInv'
  BY CounterpointStep
<1>3. CounterpointInv => ParallelsOnlyAtTheEdge
  BY DEF CounterpointInv
<1> QED BY <1>1, <1>2, <1>3, PTL DEF CounterpointSpec

-----------------------------------------------------------------------------
(* ModulationEngine.                                                       *)

(* A set of natural numbers that is not empty has a least element; Min,    *)
(* and with it SelectInSeq, is that one.                                   *)
LEMMA MinOfNat ==
  ASSUME NEW T, T \subseteq Nat, T # {}
  PROVE  Min(T) \in T /\ \A m \in T : Min(T) <= m
<1>1. PICK x \in T : \A y \in T : ~(<<y, x>> \in OpToRel(<, Nat))
    BY NatLessThanWellFounded, WFMin
<1>2. \A y \in T : ~(y < x)
    BY <1>1 DEF OpToRel
<1>3. x \in T /\ \A y \in T : x <= y
    BY <1>2
<1> QED BY <1>3 DEF Min

(* Hence a set that has 0 and with each number up to k the next one has    *)
(* all of them.                                                            *)
LEMMA UpTo ==
  ASSUME NEW k \in Nat, NEW T, 0 \in T,
         \A n \in 1..k : n - 1 \in T => n \in T
  PROVE  0..k \subseteq T
<1> SUFFICES ASSUME NEW m \in 0..k, m \notin T PROVE FALSE
    OBVIOUS
<1> DEFINE U == (0..k) \ T
<1>1. U \subseteq Nat /\ U # {}
    OBVIOUS
<1> HIDE DEF U
<1>2. PICK n \in U : \A i \in U : n <= i
    BY <1>1, MinOfNat
<1> USE DEF U
<1>3. n \in 1..k /\ n - 1 \in 0..k /\ n - 1 \notin U
    BY <1>2
<1> QED BY <1>2, <1>3

(* The third and the fifth of the chords the scales are harmonized with.   *)
Triadic == {"maj", "min", "dim", "aug"}
Third(q) == IF q \in {"maj", "aug"} THEN 4 ELSE 3
Fifth(q) == IF q = "dim" THEN 6 ELSE IF q = "aug" THEN 8 ELSE 7

LEMMA TriadTones ==
  ASSUME NEW p \in Int, NEW q \in Triadic
  PROVE  PitchClasses(Chord(p, q)) = {p % 12, (p + Third(q)) % 12, (p + Fifth(q)) % 12}
<1> DEFINE offsets == IF q = "aug" THEN {0, 4, 8} ELSE Range(offsets_for(q))
<1>1. offsets = {0, Third(q), Fifth(q)}
  <2>1. CASE q = "aug"
    BY <2>1 DEF Third, Fifth
  <2>2. CASE q = "maj"
    BY <2>2 DEF Third, Fifth, offsets_for, Range
  <2>3. CASE q = "min"
    BY <2>3 DEF Third, Fifth, offsets_for, Range
  <2>4. CASE q = "dim"
    BY <2>4 DEF Third, Fifth, offsets_for, Range
  <2> QED BY <2>1, <2>2, <2>3, <2>4 DEF Triadic
<1>2. PitchClasses(Chord(p, q)) = {(p + o) % 12 : o \in offsets}
  BY DEF PitchClasses, Chord
<1>3. Third(q) \in Int /\ Fifth(q) \in Int
  BY DEF Third, Fifth
<1> HIDE DEF offsets
<1> QED BY <1>1, <1>2, <1>3

(* So the root and the tones of such a chord tell its quality.             *)
LEMMA TonesTellQuality ==
  ASSUME NEW p \in 0..11, NEW q1 \in Triadic, NEW q2 \in Triadic,
         PitchClasses(Chord(p, q1)) = PitchClasses(Chord(p, q2))
  PROVE  q1 = q2
<1>1. {p % 12, (p + Third(q1)) % 12, (p + Fifth(q1)) % 12}
      = {p % 12, (p + Third(q2)) % 12, (p + Fifth(q2)) % 12}
  <2>1. p \in Int
    OBVIOUS
  <2>2. /\ PitchClasses(Chord(p, q1)) = {p % 12, (p + Third(q1)) % 12, (p + Fifth(q1)) % 12}
        /\ PitchClasses(Chord(p, q2)) = {p % 12, (p + Third(q2)) % 12, (p + Fifth(q2)) % 12}
    BY <2>1, TriadTones, Zenon
  <2> QED BY <2>2
<1>2. ASSUME NEW q \in Triadic
      PROVE  /\ Third(q) \in {3, 4} /\ Fifth(q) \in {6, 7, 8}
             /\ q = "maj" <=> Third(q) = 4 /\ Fifth(q) = 7
             /\ q = "min" <=> Third(q) = 3 /\ Fifth(q) = 7
             /\ q = "dim" <=> Third(q) = 3 /\ Fifth(q) = 6
             /\ q = "aug" <=> Third(q) = 4 /\ Fifth(q) = 8
  BY DEF Triadic, Third, Fifth
<1>3. Third(q1) = Third(q2) /\ Fifth(q1) = Fifth(q2)
  <2> DEFINE a1 == Third(q1)
             b1 == Fifth(q1)
             a2 == Third(q2)
             b2 == Fifth(q2)
  <2>1. a1 \in {3, 4} /\ b1 \in {6, 7, 8} /\ a2 \in {3, 4} /\ b2 \in {6, 7, 8}
    BY <1>2
  <2>2. (p + a1) % 12 \in {p, (p + a2) % 12, (p + b2) % 12}
        /\ (p + b1) % 12 \in {p, (p + a2) % 12, (p + b2) % 12}
    <3>1. p % 12 = p
      OBVIOUS
    <3> QED BY <1>1, <3>1, Zenon
  <2> HIDE DEF a1, b1, a2, b2
  <2>3. a1 = a2 /\ b1 = b2
    BY <2>1, <2>2
  <2> QED BY <2>3 DEF a1, b1, a2, b2
<1> QED BY <1>2, <1>3 DEF Triadic

(* The chords on the degrees of a scale are its stacked thirds: what the   *)
(* tables of scales and of qualities say agrees.                           *)
LEMMA DegreeTones ==
  ASSUME NEW scale \in SpelledScales, NEW d \in 1..7
  PROVE  LET s == kScales[scale]
             q == qualities_for_scale(scale)[d]
         IN /\ Len(s) = 7 /\ DOMAIN s = 1..7 /\ \A i \in 1..7 : s[i] \in 0..11
            /\ q \in Triadic
            /\ (s[d] + Third(q)) % 12 = s[((d + 1) % 7) + 1]
            /\ (s[d] + Fifth(q)) % 12 = s[((d + 3) % 7) + 1]
<1>1. d \in {1, 2, 3, 4, 5, 6, 7}
  OBVIOUS
<1>2. CASE scale = "major"
  <2>1. kScales[scale] = <<0, 2, 4, 5, 7, 9, 11>>
        /\ qualities_for_scale(scale) = <<"maj", "min", "min", "maj", "maj", "min", "dim">>
    BY <1>2 DEF kScales, qualities_for_scale
  <2>2. \A i \in {1, 2, 3, 4, 5, 6, 7} : kScales[scale][i] \in 0..11
    BY <2>1
  <2>3. qualities_for_scale(scale)[d] \in Triadic
    BY <1>1, <2>1 DEF Triadic
  <2>4. \A i \in {1, 2, 3, 4, 5, 6, 7} :
          LET q == qualities_for_scale(scale)[i]
          IN /\ (kScales[scale][i] + Third(q)) % 12 = kScales[scale][((i + 1) % 7) + 1]
             /\ (kScales[scale][i] + Fifth(q)) % 12 = kScales[scale][((i + 3) % 7) + 1]
    <3>1. \A i \in {1, 2, 3, 4, 5, 6, 7} :
            /\ Third(qualities_for_scale(scale)[i]) = <<4, 3, 3, 4, 4, 3, 3>>[i]
            /\ Fifth(qualities_for_scale(scale)[i]) = <<7, 7, 7, 7, 7, 7, 6>>[i]
      BY <2>1 DEF Third, Fifth
    <3>2. \A i \in {1, 2, 3, 4, 5, 6, 7} :
            /\ (kScales[scale][i] + <<4, 3, 3, 4, 4, 3, 3>>[i]) % 12
               = kScales[scale][((i + 1) % 7) + 1]
            /\ (kScales[scale][i] + <<7, 7, 7, 7, 7, 7, 6>>[i]) % 12
               = kScales[scale][((i + 3) % 7) + 1]
      BY <2>1
    <3> QED BY <3>1, <3>2
  <2>5. Len(kScales[scale]) = 7 /\ DOMAIN kScales[scale] = 1..7
    BY <2>1
  <2> QED BY <1>1, <2>2, <2>3, <2>4, <2>5
<1>3. CASE scale = "minor"
  <2>1. kScales[scale] = <<0, 2, 3, 5, 7, 8, 10>>
        /\ qualities_for_scale(scale) = <<"min", "dim", "maj", "min", "min", "maj", "maj">>
    BY <1>3 DEF kScales, qualities_for_scale
  <2>2. \A i \in {1, 2, 3, 4, 5, 6, 7} : kScales[scale][i] \in 0..11
    BY <2>1
  <2>3. qualities_for_scale(scale)[d] \in Triadic
    BY <1>1, <2>1 DEF Triadic
  <2>4. \A i \in {1, 2, 3, 4, 5, 6, 7} :
          LET q == qualities_for_scale(scale)[i]
          IN /\ (kScales[scale][i] + Third(q)) % 12 = kScales[scale][((i + 1) % 7) + 1]
             /\ (kScales[scale][i] + Fifth(q)) % 12 = kScales[scale][((i + 3) % 7) + 1]
    BY <2>1 DEF Third, Fifth
  <2>5. Len(kScales[scale]) = 7 /\ DOMAIN kScales[scale] = 1..7
    BY <2>1
  <2> QED BY <1>1, <2>2, <2>3, <2>4, <2>5
<1>4. CASE scale = "harmonic_minor"
  <2>1. kScales[scale] = <<0, 2, 3, 5, 7, 8, 11>>
        /\ qualities_for_scale(scale) = <<"min", "dim", "aug", "min", "maj", "maj", "dim">>
    BY <1>4 DEF kScales, qualities_for_scale
  <2>2. \A i \in {1, 2, 3, 4, 5, 6, 7} : kScales[scale][i] \in 0..11
    BY <2>1
  <2>3. qualities_for_scale(scale)[d] \in Triadic
    BY <1>1, <2>1 DEF Triadic
  <2>4. \A i \in {1, 2, 3, 4, 5, 6, 7} :
          LET q == qualities_for_scale(scale)[i]
          IN /\ (kScales[scale][i] + Third(q)) % 12 = kScales[scale][((i + 1) % 7) + 1]
             /\ (kScales[scale][i] + Fifth(q)) % 12 = kScales[scale][((i + 3) % 7) + 1]
    BY <2>1 DEF Third, Fifth
  <2>5. Len(kScales[scale]) = 7 /\ DOMAIN kScales[scale] = 1..7
    BY <2>1
  <2> QED BY <1>1, <2>2, <2>3, <2>4, <2>5
<1>5. CASE scale = "melodic_minor"
  <2>1. kScales[scale] = <<0, 2, 3, 5, 7, 9, 11>>
        /\ qualities_for_scale(scale) = <<"min", "min", "aug", "maj", "maj", "dim", "dim">>
    BY <1>5 DEF kScales, qualities_for_scale
  <2>2. \A i \in {1, 2, 3, 4, 5, 6, 7} : kScales[scale][i] \in 0..11
    BY <2>1
  <2>3. qualities_for_scale(scale)[d] \in Triadic
    BY <1>1, <2>1 DEF Triadic
  <2>4. \A i \in {1, 2, 3, 4, 5, 6, 7} :
          LET q == qualities_for_scale(scale)[i]
          IN /\ (kScales[scale][i] + Third(q)) % 12 = kScales[scale][((i + 1) % 7) + 1]
             /\ (kScales[scale][i] + Fifth(q)) % 12 = kScales[scale][((i + 3) % 7) + 1]
    BY <2>1 DEF Third, Fifth
  <2>5. Len(kScales[scale]) = 7 /\ DOMAIN kScales[scale] = 1..7
    BY <2>1
  <2> QED BY <1>1, <2>2, <2>3, <2>4, <2>5
<1> QED BY <1>2, <1>3, <1>4, <1>5 DEF SpelledScales

LEMMA RootPc ==
  ASSUME NEW key \in kKeyNames
  PROVE  parse_root_pc(key) = key_table[key] /\ key_table[key] \in 0..11
BY DEF parse_root_pc, key_table, kKeyNames

(* A triad on a degree of a key as the property has it.                    *)
SpelledKeys == [key : kKeyNames, scale : SpelledScales]
ScaleOf(k) == [i \in 1..7 |-> (kScales[k.scale][i] + key_table[k.key]) % 12]
ThirdsOn(s, d) == {s[d], s[((d + 1) % 7) + 1], s[((d + 3) % 7) + 1]}
TriadsOf(k) == {<<ScaleOf(k)[d], ThirdsOn(ScaleOf(k), d)>> : d \in 1..7}

LEMMA DiatonicChord ==
  ASSUME NEW k \in SpelledKeys, NEW d \in 1..7
  PROVE  LET cs == diatonic_chords(k.key, k.scale)
         IN /\ DOMAIN cs = 1..7 /\ Len(cs) = 7
            /\ cs[d].root_pc = ScaleOf(k)[d] /\ cs[d].root_pc \in 0..11
            /\ cs[d].quality \in Triadic
            /\ cs[d] = Chord(cs[d].root_pc, cs[d].quality)
            /\ PitchClasses(cs[d]) = ThirdsOn(ScaleOf(k), d)
<1> DEFINE s == kScales[k.scale]
           q == qualities_for_scale(k.scale)[d]
           r == key_table[k.key]
           cs == diatonic_chords(k.key, k.scale)
           p == (s[d] + r) % 12
<1>1. k.scale \in SpelledScales /\ k.key \in kKeyNames
  BY DEF SpelledKeys
<1>2. /\ Len(s) = 7 /\ DOMAIN s = 1..7 /\ \A i \in 1..7 : s[i] \in 0..11
      /\ q \in Triadic
      /\ (s[d] + Third(q)) % 12 = s[((d + 1) % 7) + 1]
      /\ (s[d] + Fifth(q)) % 12 = s[((d + 3) % 7) + 1]
  BY <1>1, DegreeTones
<1>3. r \in 0..11 /\ parse_root_pc(k.key) = r
  BY <1>1, RootPc
<1>4. intervals_of(k.scale) = s
  BY <1>1 DEF intervals_of, kScales, SpelledScales
<1>5. cs = [i \in 1..7 |-> Chord((parse_root_pc(k.key) + s[i]) % 12,
                                 qualities_for_scale(k.scale)[i])]
  <2>1. s # <<>>
    BY <1>2
  <2> HIDE DEF s
  <2> QED BY <1>2, <1>4, <2>1 DEF diatonic_chords
<1>6. s[d] \in 0..11 /\ s[((d + 1) % 7) + 1] \in 0..11 /\ s[((d + 3) % 7) + 1] \in 0..11
  <2>1. d \in 1..7 /\ ((d + 1) % 7) + 1 \in 1..7 /\ ((d + 3) % 7) + 1 \in 1..7
    OBVIOUS
  <2> HIDE DEF s
  <2> QED BY <1>2, <2>1
<1>7. cs[d] = Chord(p, q) /\ DOMAIN cs = 1..7 /\ Len(cs) = 7
  <2> HIDE DEF s, q, cs
  <2>1. (parse_root_pc(k.key) + s[d]) % 12 = p
    BY <1>3, <1>6
  <2>2. cs[d] = Chord((parse_root_pc(k.key) + s[d]) % 12, q)
    BY <1>5 DEF q
  <2>3. DOMAIN cs = 1..7 /\ Len(cs) = 7
    BY <1>5
  <2> QED BY <2>1, <2>2, <2>3
<1>8. p \in 0..11 /\ p = ScaleOf(k)[d]
  <2>1. p \in 0..11
    BY <1>3, <1>6
  <2> QED BY <2>1 DEF ScaleOf
<1>9. PitchClasses(Chord(p, q)) = ThirdsOn(ScaleOf(k), d)
  <2>1. PitchClasses(Chord(p, q)) = {p % 12, (p + Third(q)) % 12, (p + Fifth(q)) % 12}
    <3>1. p \in Int
      BY <1>8
    <3> HIDE DEF p, q
    <3> QED BY <1>2, <3>1, TriadTones
  <2> DEFINE d3 == ((d + 1) % 7) + 1
             d5 == ((d + 3) % 7) + 1
  <2>2. ScaleOf(k)[d] = p /\ ScaleOf(k)[d3] = (s[d3] + r) % 12
        /\ ScaleOf(k)[d5] = (s[d5] + r) % 12
    <3>1. d \in 1..7 /\ d3 \in 1..7 /\ d5 \in 1..7
      OBVIOUS
    <3> HIDE DEF d3, d5
    <3> QED BY <3>1 DEF ScaleOf
  <2>3. Third(q) \in Int /\ Fifth(q) \in Int
    BY DEF Third, Fifth
  <2>4. (p + Third(q)) % 12 = (s[d3] + r) % 12 /\ (p + Fifth(q)) % 12 = (s[d5] + r) % 12
    <3> DEFINE x == s[d]
               t == Third(q)
               f == Fifth(q)
               y == s[d3]
               z == s[d5]
    <3>1. x \in 0..11 /\ y = (x + t) % 12 /\ z = (x + f) % 12 /\ t \in Int /\ f \in Int /\ r \in 0..11
      BY <1>2, <1>3, <1>6, <2>3
    <3>2. p = (x + r) % 12
      OBVIOUS
    <3> HIDE DEF x, t, f, y, z, r, p
    <3>3. (p + t) % 12 = (y + r) % 12 /\ (p + f) % 12 = (z + r) % 12
      BY <3>1, <3>2
    <3> QED BY <3>3 DEF t, f, y, z, x
  <2>5. p % 12 = p
    BY <1>8
  <2> HIDE DEF p, q, r, s, d3, d5
  <2>6. ThirdsOn(ScaleOf(k), d) = {ScaleOf(k)[d], ScaleOf(k)[d3], ScaleOf(k)[d5]}
    BY DEF ThirdsOn, d3, d5
  <2> QED BY <2>1, <2>2, <2>4, <2>5, <2>6
<1> HIDE DEF s, q, r, p, cs
<1>10. cs[d].root_pc = p /\ cs[d].quality = q
  BY <1>7 DEF Chord
<1> QED BY <1>2, <1>7, <1>8, <1>9, <1>10 DEF cs

(* The name of such a chord is read back as the chord.                     *)
LEMMA ChordNameReadBack ==
  ASSUME NEW p \in 0..11, NEW q \in Triadic
  PROVE  /\ parse_chord_name(chord_name(p, q)) = Chord(p, q)
         /\ chord_name(p, q) # None
<1> DEFINE n == pc_name_sharp(p)
           names == <<"C", "C#", "D", "D#", "E", "F", "F#", "G", "G#", "A", "A#", "B">>
<1>1. parse_root_pc(n) = p
  <2>1. p % 12 = p
    OBVIOUS
  <2>2. n = names[p + 1]
    BY <2>1 DEF pc_name_sharp
  <2>3. p \in {0, 1, 2, 3, 4, 5, 6, 7, 8, 9, 10, 11}
    OBVIOUS
  <2> HIDE DEF n
  <2>4. n \in kKeyNames /\ key_table[n] = p
    BY <2>2, <2>3 DEF key_table, kKeyNames
  <2> QED BY <2>4, RootPc
<1>2. chord_name(p, q) = <<n, quality_suffix(q)>>
  BY DEF chord_name
<1>3. (CASE quality_suffix(q) = "" -> "maj" [] quality_suffix(q) = "m" -> "min"
         [] OTHER -> quality_suffix(q)) = q
  BY DEF Triadic, quality_suffix
<1> HIDE DEF n
<1>4. parse_chord_name(<<n, quality_suffix(q)>>)
      = Chord(parse_root_pc(n),
              CASE quality_suffix(q) = "" -> "maj" [] quality_suffix(q) = "m" -> "min"
                [] OTHER -> quality_suffix(q))
  <2> DEFINE name == <<n, quality_suffix(q)>>
  <2>1. name[1] = n /\ name[2] = quality_suffix(q)
    OBVIOUS
  <2> HIDE DEF name
  <2>2. parse_chord_name(name)
        = Chord(parse_root_pc(n),
              CASE quality_suffix(q) = "" -> "maj" [] quality_suffix(q) = "m" -> "min"
                [] OTHER -> quality_suffix(q))
    BY <2>1, Zenon DEF parse_chord_name
  <2> QED BY <2>2 DEF name
<1>5. <<n, quality_suffix(q)>> # None
  BY DEF None
<1>6. parse_chord_name(<<n, quality_suffix(q)>>) = Chord(p, q)
  BY <1>1, <1>3, <1>4, Zenon
<1> QED BY <1>2, <1>5, <1>6, Zenon

(* When the keys have a triad in common, find_pivot_chord names one.       *)
LEMMA PivotIsShared ==
  ASSUME NEW from \in SpelledKeys, NEW to \in SpelledKeys,
         TriadsOf(from) \cap TriadsOf(to) # {}
  PROVE  /\ find_pivot_chord(from, to) # None
         /\ <<parse_chord_name(find_pivot_chord(from, to)).root_pc,
              PitchClasses(parse_chord_name(find_pivot_chord(from, to)))>>
              \in TriadsOf(from) \cap TriadsOf(to)
<1> DEFINE fc == diatonic_chords(from.key, from.scale)
           tc == diatonic_chords(to.key, to.scale)
           v == IF Len(tc) >= 5 THEN tc[5].root_pc ELSE -1
           Strongest == {i \in 1..Len(fc) : Contains(tc, fc[i]) /\ fc[i].root_pc = v}
           Shared == {i \in 1..Len(fc) : Contains(tc, fc[i])}
           strongest == SelectInSeq(fc, LAMBDA c : Contains(tc, c) /\ c.root_pc = v)
           shared == SelectInSeq(fc, LAMBDA c : Contains(tc, c))
           Name(c) == chord_name(c.root_pc, c.quality)
<1>1. Len(fc) = 7 /\ Len(tc) = 7
  BY DiatonicChord
<1>2. Shared # {}
  <2>1. PICK d1 \in 1..7, d2 \in 1..7 :
          <<ScaleOf(from)[d1], ThirdsOn(ScaleOf(from), d1)>>
          = <<ScaleOf(to)[d2], ThirdsOn(ScaleOf(to), d2)>>
    BY DEF TriadsOf
  <2>2. /\ fc[d1].root_pc = ScaleOf(from)[d1] /\ fc[d1].root_pc \in 0..11
        /\ fc[d1].quality \in Triadic
        /\ fc[d1] = Chord(fc[d1].root_pc, fc[d1].quality)
        /\ PitchClasses(fc[d1]) = ThirdsOn(ScaleOf(from), d1)
    BY DiatonicChord
  <2>3. /\ tc[d2].root_pc = ScaleOf(to)[d2]
        /\ tc[d2].quality \in Triadic
        /\ tc[d2] = Chord(tc[d2].root_pc, tc[d2].quality)
        /\ PitchClasses(tc[d2]) = ThirdsOn(ScaleOf(to), d2)
    BY DiatonicChord
  <2>4. fc[d1].root_pc = tc[d2].root_pc /\ PitchClasses(fc[d1]) = PitchClasses(tc[d2])
    <3> HIDE DEF fc, tc
    <3> QED BY <2>1, <2>2, <2>3
  <2> HIDE DEF fc, tc
  <2>5. fc[d1].quality = tc[d2].quality
    BY <2>2, <2>3, <2>4, TonesTellQuality
  <2>6. fc[d1] = tc[d2]
    BY <2>2, <2>3, <2>4, <2>5
  <2>7. Contains(tc, fc[d1]) /\ d1 \in 1..Len(fc)
    BY <1>1, <2>6 DEF Contains
  <2> QED BY <2>7
<1>3. /\ strongest = IF Strongest # {} THEN Min(Strongest) ELSE 0
      /\ shared = IF Shared # {} THEN Min(Shared) ELSE 0
  <2> HIDE DEF fc, tc, v
  <2> QED BY DEF SelectInSeq
<1>4. /\ Strongest # {} => strongest \in Strongest
      /\ Strongest = {} => strongest = 0
      /\ shared \in Shared
  <2>1. Strongest \subseteq Nat /\ Shared \subseteq Nat
    OBVIOUS
  <2> HIDE DEF Strongest, Shared, strongest, shared
  <2> QED BY <1>2, <1>3, <2>1, MinOfNat
<1>5. \E x \in Shared : find_pivot_chord(from, to) = Name(fc[x])
  <2>1. CASE Strongest # {}
    <3>1. strongest \in Shared /\ strongest # 0
      <4> HIDE DEF strongest, fc, tc, v
      <4> QED BY <1>4, <2>1
    <3>2. find_pivot_chord(from, to) = Name(fc[strongest])
      BY <3>1, Zenon DEF find_pivot_chord
    <3> HIDE DEF strongest, Shared, fc
    <3> QED BY <3>1, <3>2
  <2>2. CASE Strongest = {}
    <3>1. shared \in Shared /\ shared # 0 /\ strongest = 0
      <4> HIDE DEF strongest, shared, fc, tc, v
      <4> QED BY <1>4, <2>2
    <3>2. find_pivot_chord(from, to) = Name(fc[shared])
      BY <3>1, Zenon DEF find_pivot_chord
    <3> HIDE DEF shared, Shared, fc
    <3> QED BY <3>1, <3>2
  <2> QED BY <2>1, <2>2
<1>6. PICK x \in Shared : find_pivot_chord(from, to) = Name(fc[x])
  BY <1>5
<1>7. x \in 1..7 /\ Contains(tc, fc[x])
  <2> HIDE DEF fc, tc
  <2> QED BY <1>1, <1>6
<1>8. PICK y \in 1..7 : tc[y] = fc[x]
  <2> HIDE DEF fc, tc
  <2> QED BY <1>1, <1>7 DEF Contains
<1>9. /\ fc[x].root_pc = ScaleOf(from)[x] /\ fc[x].root_pc \in 0..11
      /\ fc[x].quality \in Triadic
      /\ fc[x] = Chord(fc[x].root_pc, fc[x].quality)
      /\ PitchClasses(fc[x]) = ThirdsOn(ScaleOf(from), x)
  BY <1>7, DiatonicChord
<1>10. /\ tc[y].root_pc = ScaleOf(to)[y]
       /\ PitchClasses(tc[y]) = ThirdsOn(ScaleOf(to), y)
  BY <1>8, DiatonicChord
<1> HIDE DEF fc, tc, Shared
<1>11. /\ parse_chord_name(Name(fc[x])) = fc[x]
       /\ Name(fc[x]) # None
  BY <1>9, ChordNameReadBack
<1>12. /\ <<fc[x].root_pc, PitchClasses(fc[x])>> \in TriadsOf(from)
       /\ <<tc[y].root_pc, PitchClasses(tc[y])>> \in TriadsOf(to)
  BY <1>7, <1>8, <1>9, <1>10 DEF TriadsOf
<1> QED BY <1>6, <1>8, <1>11, <1>12

(* The inductive invariant: an answer is what the code returns.            *)
ModulationAnswer ==
  IF call.engine = "modulate" THEN generate_modulation(call.from, call.to, call.bars)
  ELSE closely_related_keys(call.from.key, call.from.scale)

ModulationInv ==
  /\ call \in ModulationCalls
  /\ \/ step = call.engine /\ out = <<>>
     \/ step = "done" /\ out = ModulationAnswer

LEMMA AnswerStartsWithPivot ==
  ASSUME ModulationInv, call.engine = "modulate", out # <<>>,
         find_pivot_chord(call.from, call.to) # None
  PROVE  out[1] = parse_chord_name(find_pivot_chord(call.from, call.to))
<1> DEFINE p == parse_chord_name(find_pivot_chord(call.from, call.to))
           rest == IF /\ Len(intervals_for(call.to.scale, parse_root_pc(call.to.key))) >= 5
                      /\ call.bars - Len(<<p>>) > 0
                   THEN Cadence(call.to, call.bars - Len(<<p>>)) ELSE <<>>
<1>1. out = generate_modulation(call.from, call.to, call.bars)
  BY DEF ModulationInv, ModulationAnswer
<1>2. out = <<p>> \o rest
  <2>1. ~(call.bars <= 0)
    BY <1>1, Zenon DEF generate_modulation
  <2> QED BY <1>1, <2>1, Zenon DEF generate_modulation
<1> QED BY <1>2

LEMMA PivotFromInv == ModulationInv => PivotBelongsToBoth
<1> SUFFICES ASSUME ModulationInv, call.engine = "modulate", out # <<>>,
                    {call.from.scale, call.to.scale} \subseteq SpelledScales,
                    TriadsOf(call.from) \cap TriadsOf(call.to) # {}
             PROVE  <<out[1].root_pc, PitchClasses(out[1])>>
                      \in TriadsOf(call.from) \cap TriadsOf(call.to)
  BY Zenon DEF PivotBelongsToBoth, TriadsOf, ThirdsOn, ScaleOf
<1>1. call.from \in SpelledKeys /\ call.to \in SpelledKeys
  BY DEF ModulationInv, ModulationCalls, SpelledKeys
<1>2. /\ find_pivot_chord(call.from, call.to) # None
      /\ <<parse_chord_name(find_pivot_chord(call.from, call.to)).root_pc,
           PitchClasses(parse_chord_name(find_pivot_chord(call.from, call.to)))>>
           \in TriadsOf(call.from) \cap TriadsOf(call.to)
  BY <1>1, PivotIsShared, Zenon
<1>3. out[1] = parse_chord_name(find_pivot_chord(call.from, call.to))
  BY <1>2, AnswerStartsWithPivot
<1> QED BY <1>2, <1>3, Zenon

(* The scales of seven degrees start on their tonic.                       *)
LEMMA SevenDegrees ==
  ASSUME NEW scale, Len(intervals_of(scale)) = 7
  PROVE  /\ DOMAIN intervals_of(scale) = 1..7
         /\ intervals_of(scale)[1] = 0
         /\ intervals_of(scale)[5] \in 0..11
<1>1. scale \in DOMAIN kScales
  BY DEF intervals_of
<1>2. scale \in {"major", "minor", "harmonic_minor", "melodic_minor", "pentatonic_major",
                 "pentatonic_minor", "blues", "ionian", "dorian", "phrygian", "lydian",
                 "mixolydian", "aeolian", "locrian"}
  BY <1>1 DEF kScales
<1>3. intervals_of(scale) = kScales[scale]
  BY <1>1 DEF intervals_of
<1>4. Len(kScales[scale]) = 7
  BY <1>3
<1>5. DOMAIN kScales[scale] = 1..7 /\ kScales[scale][1] = 0 /\ kScales[scale][5] \in 0..11
  BY <1>2, <1>4 DEF kScales
<1> QED BY <1>3, <1>5

LEMMA MinMaxOfTwo ==
  ASSUME NEW a \in Int, NEW b \in Int
  PROVE  /\ Min({a, b}) = IF a <= b THEN a ELSE b
         /\ Max({a, b}) = IF a >= b THEN a ELSE b
<1>1. \A x \in {a, b} : (\A y \in {a, b} : x =< y) <=> x = IF a <= b THEN a ELSE b
  OBVIOUS
<1>2. \A x \in {a, b} : (\A y \in {a, b} : x >= y) <=> x = IF a >= b THEN a ELSE b
  OBVIOUS
<1> QED BY <1>1, <1>2 DEF Min, Max

(* The cadence takes the bars that are left, three at most, and ends on    *)
(* the dominant and the tonic when it takes all three.                     *)
LEMMA CadenceCloses ==
  ASSUME NEW to \in [key : kKeyNames, scale : STRING], NEW n \in Int, n > 0
  PROVE  LET c == Cadence(to, n)
         IN /\ n <= 3 => Len(c) = n
            /\ n > 3 => Len(c) = 3
            /\ \E S : c \in Seq(S)
            /\ n >= 3 /\ Len(intervals_of(to.scale)) = 7 =>
                 /\ c[3].root_pc = parse_root_pc(to.key)
                 /\ c[2].root_pc = (parse_root_pc(to.key) + intervals_of(to.scale)[5]) % 12
<1> DEFINE degree == intervals_for(to.scale, parse_root_pc(to.key))
           q == qualities_for_scale(to.scale)
           v_q == IF to.scale \in {"major", "harmonic_minor"} /\ n > 1 THEN "7" ELSE q[5]
           whole == <<Chord(degree[2], q[2]), Chord(degree[5], v_q), Chord(degree[1], q[1])>>
           m == IF n <= 3 THEN n ELSE 3
<1>1. Cadence(to, n) = SubSeq(whole, 1, m)
  <2>1. Min({n, 3}) = m
    BY MinMaxOfTwo
  <2> QED BY <2>1, Zenon DEF Cadence
<1>2. /\ Len(SubSeq(whole, 1, m)) = m
      /\ SubSeq(whole, 1, m) \in Seq({whole[1], whole[2], whole[3]})
      /\ \A i \in 1..m : SubSeq(whole, 1, m)[i] = whole[i]
  <2>1. m \in 1..3
    OBVIOUS
  <2> HIDE DEF m, degree, q, v_q
  <2> QED BY <2>1
<1>3. ASSUME n >= 3, Len(intervals_of(to.scale)) = 7
      PROVE  /\ whole[3].root_pc = parse_root_pc(to.key)
             /\ whole[2].root_pc = (parse_root_pc(to.key) + intervals_of(to.scale)[5]) % 12
  <2>1. parse_root_pc(to.key) \in 0..11
    BY RootPc
  <2>2. /\ degree[1] = (0 + parse_root_pc(to.key)) % 12
        /\ degree[5] = (intervals_of(to.scale)[5] + parse_root_pc(to.key)) % 12
    BY <1>3, SevenDegrees DEF intervals_for
  <2>3. degree[1] = parse_root_pc(to.key)
        /\ degree[5] = (parse_root_pc(to.key) + intervals_of(to.scale)[5]) % 12
    <3> HIDE DEF degree
    <3> QED BY <1>3, <2>1, <2>2, SevenDegrees
  <2> HIDE DEF degree, q, v_q
  <2> QED BY <2>3 DEF Chord
<1>4. n >= 3 => m = 3
  OBVIOUS
<1>5. m \in 1..3
  OBVIOUS
<1>6. m = IF n <= 3 THEN n ELSE 3
  OBVIOUS
<1> HIDE DEF m, whole
<1> DEFINE c == Cadence(to, n)
<1>7. Len(c) = m /\ c \in Seq({whole[1], whole[2], whole[3]})
      /\ \A i \in 1..m : c[i] = whole[i]
  BY <1>1, <1>2, Zenon
<1> HIDE DEF c
<1>8. \E S : c \in Seq(S)
  BY <1>7
<1>9. n >= 3 => c[3] = whole[3] /\ c[2] = whole[2]
  BY <1>4, <1>7
<1>10. /\ n <= 3 => Len(c) = n
       /\ n > 3 => Len(c) = 3
  BY <1>6, <1>7
<1> QED BY <1>3, <1>8, <1>9, <1>10, Zenon DEF c

(* A pivot, if any, and a cadence after it.                                *)
FitsAfter(S, first, n, c, m, bars) ==
  /\ first \in Seq(S) /\ n \in {0, 1} /\ Len(first) = n
  /\ c \in Seq(S) /\ m \in Nat /\ Len(c) = m
  /\ bars \in Int /\ m <= bars - n /\ (bars - n >= 3 => m = 3)

LEMMA PivotAndCadence ==
  ASSUME NEW S, NEW first, NEW n, NEW c, NEW m, NEW bars,
         FitsAfter(S, first, n, c, m, bars)
  PROVE  /\ Len(first \o c) <= bars
         /\ bars >= 4 =>
              /\ Len(first \o c) >= 3
              /\ (first \o c)[Len(first \o c)] = c[3]
              /\ (first \o c)[Len(first \o c) - 1] = c[2]
<1>0. /\ first \in Seq(S) /\ n \in Nat /\ n <= 1 /\ Len(first) = n
      /\ c \in Seq(S) /\ m \in Nat /\ Len(c) = m
      /\ bars \in Int /\ m <= bars - n /\ (bars - n >= 3 => m = 3)
  BY DEF FitsAfter
<1>1. Len(first \o c) = n + m
  BY <1>0
<1>2. ASSUME bars >= 4
      PROVE  /\ m = 3
             /\ (first \o c)[n + 3] = c[3]
             /\ (first \o c)[n + 2] = c[2]
  <2>1. m = 3
    BY <1>0, <1>2
  <2>2. \A i \in 1..Len(c) : (first \o c)[Len(first) + i] = c[i]
    BY <1>0
  <2>3. 3 \in 1..Len(c) /\ 2 \in 1..Len(c)
    BY <1>0, <2>1
  <2> QED BY <1>0, <2>1, <2>2, <2>3
<1> QED BY <1>0, <1>1, <1>2

LEMMA ArrivesFromInv == ModulationInv => ModulationArrives
<1> SUFFICES ASSUME ModulationInv, call.engine = "modulate", step = "done",
                    Len(intervals_of(call.to.scale)) = 7
             PROVE  LET tonic == parse_root_pc(call.to.key)
                        n == Len(out)
                    IN /\ n <= Max({call.bars, 0})
                       /\ call.bars >= 4 =>
                            /\ n >= 3
                            /\ out[n].root_pc = tonic
                            /\ out[n - 1].root_pc = (tonic + intervals_of(call.to.scale)[5]) % 12
  BY Zenon DEF ModulationArrives
<1> DEFINE pivot == find_pivot_chord(call.from, call.to)
           first == IF pivot = None THEN <<>> ELSE <<parse_chord_name(pivot)>>
           left == call.bars - Len(first)
           c == Cadence(call.to, left)
           degrees == Len(intervals_for(call.to.scale, parse_root_pc(call.to.key)))
<1>1. call.bars \in Int /\ call.to \in [key : kKeyNames, scale : STRING]
  BY DEF ModulationInv, ModulationCalls
<1>2. out = IF call.bars <= 0 THEN <<>>
            ELSE first \o (IF degrees >= 5 /\ left > 0 THEN c ELSE <<>>)
  <2>1. out = generate_modulation(call.from, call.to, call.bars)
    <3>1. step = call.engine \/ out = ModulationAnswer
      BY DEF ModulationInv
    <3>2. step # call.engine
      OBVIOUS
    <3>3. ModulationAnswer = generate_modulation(call.from, call.to, call.bars)
      BY Zenon DEF ModulationAnswer
    <3> QED BY <3>1, <3>2, <3>3
  <2> QED BY <2>1, Zenon DEF generate_modulation
<1>3. degrees = 7
  BY SevenDegrees DEF intervals_for
<1> DEFINE p == parse_chord_name(pivot)
<1>4. \E n \in {0, 1} : Len(first) = n /\ first \in Seq({p})
  <2> HIDE DEF pivot, p
  <2>1. first = <<>> \/ first = <<p>>
    BY DEF p
  <2> HIDE DEF first
  <2>2. Len(<<>>) = 0 /\ Len(<<p>>) = 1 /\ <<>> \in Seq({p}) /\ <<p>> \in Seq({p})
    OBVIOUS
  <2> QED BY <2>1, <2>2
<1> HIDE DEF first, p
<1>4b. PICK n \in {0, 1} : Len(first) = n /\ first \in Seq({p})
  BY <1>4
<1>5. left \in Int /\ left = call.bars - n
  BY <1>1, <1>4b
<1>6. Max({call.bars, 0}) = IF call.bars >= 0 THEN call.bars ELSE 0
  <2> DEFINE b == call.bars
  <2>1. b \in Int
    BY <1>1
  <2> HIDE DEF b
  <2>2. Max({b, 0}) = IF b >= 0 THEN b ELSE 0
    <3>1. 0 \in Int
      OBVIOUS
    <3> QED BY ONLY <2>1, <3>1, MinMaxOfTwo, Zenon
  <2> QED BY <2>2 DEF b
<1>7. left > 0 =>
        /\ left <= 3 => Len(c) = left
        /\ left > 3 => Len(c) = 3
        /\ \E S : c \in Seq(S)
        /\ left >= 3 =>
             /\ c[3].root_pc = parse_root_pc(call.to.key)
             /\ c[2].root_pc = (parse_root_pc(call.to.key) + intervals_of(call.to.scale)[5]) % 12
  <2> HIDE DEF left
  <2> QED BY <1>1, <1>5, CadenceCloses
<1> HIDE DEF c, degrees, left
<1>8. CASE call.bars <= 0
  BY <1>1, <1>2, <1>6, <1>8
<1>9. CASE call.bars > 0 /\ ~(left > 0)
  <2>1. out = first \o <<>>
    BY <1>1, <1>2, <1>9
  <2>2. Len(out) = n
    BY <1>4b, <2>1
  <2>3. n = 1 /\ call.bars = 1
    BY <1>1, <1>5, <1>9
  <2> QED BY <1>1, <1>6, <2>2, <2>3
<1>10. CASE call.bars > 0 /\ left > 0
  <2>1. out = first \o c
    BY <1>1, <1>2, <1>3, <1>10
  <2>2. PICK S : c \in Seq(S)
    BY <1>7, <1>10
  <2>3. first \in Seq(S \cup {p}) /\ c \in Seq(S \cup {p})
    BY <1>4b, <2>2
  <2>4. /\ Len(out) <= call.bars
        /\ call.bars >= 4 =>
             /\ Len(out) >= 3
             /\ out[Len(out)] = c[3]
             /\ out[Len(out) - 1] = c[2]
    <3> DEFINE bars == call.bars
               T == S \cup {p}
               m == Len(c)
    <3>1. /\ bars \in Int /\ left \in Int /\ left = bars - n /\ left > 0
          /\ left <= 3 => m = left
          /\ left > 3 => m = 3
      BY <1>1, <1>5, <1>7, <1>10, Zenon
    <3>2. /\ first \in Seq(T) /\ c \in Seq(T) /\ out = first \o c
          /\ Len(first) = n /\ Len(c) = m
      BY <1>4b, <2>1, <2>3, Zenon
    <3> HIDE DEF bars, T, m
    <3>3. m \in Nat /\ m <= bars - n /\ (bars - n >= 3 => m = 3)
      BY <3>1
    <3>4. FitsAfter(T, first, n, c, m, bars)
      BY <3>1, <3>2, <3>3, Zenon DEF FitsAfter
    <3>5. /\ Len(first \o c) <= bars
          /\ bars >= 4 =>
               /\ Len(first \o c) >= 3
               /\ (first \o c)[Len(first \o c)] = c[3]
               /\ (first \o c)[Len(first \o c) - 1] = c[2]
      BY ONLY <3>4, PivotAndCadence, ZenonT(60)
    <3> QED BY <3>2, <3>5, Zenon DEF bars
  <2>5. call.bars >= 4 =>
          /\ out[Len(out)].root_pc = parse_root_pc(call.to.key)
          /\ out[Len(out) - 1].root_pc
             = (parse_root_pc(call.to.key) + intervals_of(call.to.scale)[5]) % 12
    <3>1. call.bars >= 4 => left >= 3
      BY <1>1, <1>5
    <3> QED BY <1>7, <1>10, <2>4, <3>1, Zenon
  <2>6. Max({call.bars, 0}) = call.bars
    BY <1>1, <1>6, <1>10
  <2> QED BY <2>4, <2>5, <2>6, Zenon
<1> QED BY <1>1, <1>5, <1>8, <1>9, <1>10

(* The keys around the circle of fifths: the notes of the major key with a *)
(* sharps, or -a flats, and of its relative minor.                         *)
Fifths(a) == {(7 * j) % 12 : j \in (a - 1)..(a + 5)}

LEMMA SevenFifths ==
  ASSUME NEW a \in Int
  PROVE  Fifths(a) = {(7 * (a - 1)) % 12, (7 * a) % 12, (7 * (a + 1)) % 12, (7 * (a + 2)) % 12,
                      (7 * (a + 3)) % 12, (7 * (a + 4)) % 12, (7 * (a + 5)) % 12}
<1>1. (a - 1)..(a + 5) = {a - 1, a, a + 1, a + 2, a + 3, a + 4, a + 5}
  OBVIOUS
<1>2. Fifths(a) = {(7 * j) % 12 : j \in {a - 1, a, a + 1, a + 2, a + 3, a + 4, a + 5}}
  BY <1>1, Zenon DEF Fifths
<1> QED BY <1>2

(* Where the root of a key lies on the circle of fifths.                   *)
RootOf(key) == IF key = "Cb" THEN 11 ELSE key_table[key]

LEMMA MajorOnCircle ==
  ASSUME NEW key, NEW a \in Int, RootOf(key) \in 0..11, RootOf(key) = (7 * a) % 12
  PROVE  NotesOf(key, "major") = Fifths(a)
<1> DEFINE r == RootOf(key)
           s == kScales["major"]
<1>1. s = <<0, 2, 4, 5, 7, 9, 11>>
  BY DEF kScales
<1>2. NotesOf(key, "major") = {(s[i] + r) % 12 : i \in 1..7}
  BY Zenon DEF NotesOf, RootOf
<1>3. 1..7 = {1, 2, 3, 4, 5, 6, 7}
  OBVIOUS
<1>4. NotesOf(key, "major") = {(0 + r) % 12, (2 + r) % 12, (4 + r) % 12, (5 + r) % 12,
                               (7 + r) % 12, (9 + r) % 12, (11 + r) % 12}
  <2> HIDE DEF r, s
  <2>1. NotesOf(key, "major") = {(s[i] + r) % 12 : i \in {1, 2, 3, 4, 5, 6, 7}}
    BY <1>2, <1>3, Zenon
  <2>2. /\ s[1] = 0 /\ s[2] = 2 /\ s[3] = 4 /\ s[4] = 5 /\ s[5] = 7 /\ s[6] = 9 /\ s[7] = 11
    BY <1>1
  <2> QED BY <2>1, <2>2
<1>5. /\ (0 + r) % 12 = (7 * a) % 12 /\ (2 + r) % 12 = (7 * (a + 2)) % 12
      /\ (4 + r) % 12 = (7 * (a + 4)) % 12 /\ (5 + r) % 12 = (7 * (a - 1)) % 12
      /\ (7 + r) % 12 = (7 * (a + 1)) % 12 /\ (9 + r) % 12 = (7 * (a + 3)) % 12
      /\ (11 + r) % 12 = (7 * (a + 5)) % 12
  <2> HIDE DEF r
  <2>1. r \in 0..11 /\ r = (7 * a) % 12
    BY DEF r
  <2> QED BY <2>1
<1> HIDE DEF r
<1> QED BY <1>4, <1>5, SevenFifths, ZenonT(60)

LEMMA MinorOnCircle ==
  ASSUME NEW key, NEW a \in Int, RootOf(key) \in 0..11, RootOf(key) = (7 * a + 9) % 12
  PROVE  NotesOf(key, "minor") = Fifths(a)
<1> DEFINE r == RootOf(key)
           s == kScales["minor"]
<1>1. s = <<0, 2, 3, 5, 7, 8, 10>>
  BY DEF kScales
<1>2. NotesOf(key, "minor") = {(s[i] + r) % 12 : i \in 1..7}
  BY Zenon DEF NotesOf, RootOf
<1>3. 1..7 = {1, 2, 3, 4, 5, 6, 7}
  OBVIOUS
<1>4. NotesOf(key, "minor") = {(0 + r) % 12, (2 + r) % 12, (3 + r) % 12, (5 + r) % 12,
                               (7 + r) % 12, (8 + r) % 12, (10 + r) % 12}
  <2> HIDE DEF r, s
  <2>1. NotesOf(key, "minor") = {(s[i] + r) % 12 : i \in {1, 2, 3, 4, 5, 6, 7}}
    BY <1>2, <1>3, Zenon
  <2>2. /\ s[1] = 0 /\ s[2] = 2 /\ s[3] = 3 /\ s[4] = 5 /\ s[5] = 7 /\ s[6] = 8 /\ s[7] = 10
    BY <1>1
  <2> QED BY <2>1, <2>2
<1>5. /\ (0 + r) % 12 = (7 * (a + 3)) % 12 /\ (2 + r) % 12 = (7 * (a + 5)) % 12
      /\ (3 + r) % 12 = (7 * a) % 12 /\ (5 + r) % 12 = (7 * (a + 2)) % 12
      /\ (7 + r) % 12 = (7 * (a + 4)) % 12 /\ (8 + r) % 12 = (7 * (a - 1)) % 12
      /\ (10 + r) % 12 = (7 * (a + 1)) % 12
  <2> HIDE DEF r
  <2>1. r \in 0..11 /\ r = (7 * a + 9) % 12
    BY DEF r
  <2> QED BY <2>1
<1> HIDE DEF r
<1> QED BY <1>4, <1>5, SevenFifths, ZenonT(60)

(* Neighbours on the circle have six notes in common.                      *)
LEMMA NeighboursShareSix ==
  ASSUME NEW a \in Int, NEW b \in Int, Near(a, b)
  PROVE  Cardinality(Fifths(a) \cap Fifths(b)) >= 6
<1> DEFINE lo == (IF a >= b THEN a ELSE b) - 1
           J == lo..(lo + 5)
           f == [j \in J |-> (7 * j) % 12]
           T == {(7 * j) % 12 : j \in J}
<1>1. lo \in Int /\ IsFiniteSet(J) /\ Cardinality(J) = 6
  <2>1. lo \in Int
    OBVIOUS
  <2> HIDE DEF lo
  <2> QED BY <2>1, FS_Interval
<1>2. f \in Bijection(J, T)
  <2> HIDE DEF lo
  <2>1. \A j1, j2 \in J : (7 * j1) % 12 = (7 * j2) % 12 => j1 = j2
    BY <1>1
  <2> QED BY <2>1 DEF Bijection, Injection, Surjection, IsInjective
<1>3. IsFiniteSet(T) /\ Cardinality(T) = 6
  <2> HIDE DEF f, J, T
  <2> QED BY <1>1, <1>2, FS_Bijection DEF ExistsBijection
<1>4. T \subseteq Fifths(a) \cap Fifths(b)
  <2>1. a - b \in -1..1
    BY DEF Near
  <2>2. J \subseteq (a - 1)..(a + 5) /\ J \subseteq (b - 1)..(b + 5)
    BY <2>1
  <2> HIDE DEF J
  <2> QED BY <2>2 DEF Fifths
<1>5. IsFiniteSet(Fifths(a) \cap Fifths(b))
  <2>1. \A j \in Int : (7 * j) % 12 \in 0..11
    OBVIOUS
  <2>2. Fifths(a) \cap Fifths(b) \subseteq 0..11
    <3>1. ASSUME NEW x \in Fifths(a) PROVE x \in 0..11
      <4>1. PICK j \in (a - 1)..(a + 5) : x = (7 * j) % 12
        BY DEF Fifths
      <4> QED BY <2>1, <4>1
    <3> QED BY <3>1
  <2>3. IsFiniteSet(0..11)
    <3>1. 0 \in Int /\ 11 \in Int
      OBVIOUS
    <3> QED BY ONLY <3>1, FS_Interval, Zenon
  <2> QED BY <2>2, <2>3, FS_Subset
<1> HIDE DEF T
<1>6. Cardinality(T) <= Cardinality(Fifths(a) \cap Fifths(b))
  BY <1>4, <1>5, FS_Subset
<1>7. Cardinality(Fifths(a) \cap Fifths(b)) \in Nat
  BY <1>5, FS_CardinalityType
<1> QED BY <1>3, <1>6, <1>7

(* The table of keys: the major key with a sharps lies at a, and its       *)
(* relative minor, spelt in flats where the major key is, with it.         *)
LEMMA TableOfKeys ==
  ASSUME NEW k \in 1..15
  PROVE  LET name == all_major_keys[k][2]
             a == all_major_keys[k][1]
         IN /\ a = k - 8
            /\ major_key_accidentals(name) = a
            /\ RootOf(name) \in 0..11 /\ RootOf(name) = (7 * a) % 12
            /\ name \in {"Cb", "Gb", "Db", "Ab", "Eb", "Bb", "F"} <=> a < 0
<1> DEFINE name == all_major_keys[k][2]
           a == all_major_keys[k][1]
           I == {i \in 1..Len(all_major_keys) : all_major_keys[i][2] = name}
<1>1. k \in {1, 2, 3, 4, 5, 6, 7, 8, 9, 10, 11, 12, 13, 14, 15}
  OBVIOUS
<1>2. Len(all_major_keys) = 15
  BY DEF all_major_keys
<1>3. a = k - 8
  BY <1>1 DEF all_major_keys
<1>4. \A i \in {1, 2, 3, 4, 5, 6, 7, 8, 9, 10, 11, 12, 13, 14, 15} :
        all_major_keys[i][2] = name => i = k
  BY <1>1 DEF all_major_keys
<1>5. I = {k}
  <2> HIDE DEF name
  <2>1. \A i \in 1..15 : all_major_keys[i][2] = name => i = k
    BY <1>4
  <2>2. all_major_keys[k][2] = name
    BY DEF name
  <2> QED BY <1>2, <2>1, <2>2
<1>6. Min(I) = k
  <2> HIDE DEF I
  <2>1. I \subseteq Nat /\ I # {}
    BY <1>5
  <2> QED BY <1>5, <2>1, MinOfNat
<1>7. SelectInSeq(all_major_keys, LAMBDA x : x[2] = name) = k
  <2>1. SelectInSeq(all_major_keys, LAMBDA x : x[2] = name) = IF I # {} THEN Min(I) ELSE 0
    BY Zenon DEF SelectInSeq
  <2> HIDE DEF I
  <2> QED BY <1>5, <1>6, <2>1
<1>8. major_key_accidentals(name) = a
  <2>1. k # 0
    OBVIOUS
  <2> QED BY <1>7, <2>1, Zenon DEF major_key_accidentals
<1>9. RootOf(name) = (7 * (k - 8)) % 12 /\ RootOf(name) \in 0..11
  <2>1. (7 * (k - 8)) % 12 = <<11, 6, 1, 8, 3, 10, 5, 0, 7, 2, 9, 4, 11, 6, 1>>[k]
    BY <1>1
  <2>2. name = <<"Cb", "Gb", "Db", "Ab", "Eb", "Bb", "F", "C", "G", "D", "A", "E", "B",
                 "F#", "C#">>[k]
    BY <1>1 DEF all_major_keys
  <2> HIDE DEF name
  <2>3. RootOf(name) = <<11, 6, 1, 8, 3, 10, 5, 0, 7, 2, 9, 4, 11, 6, 1>>[k]
    BY <1>1, <2>2 DEF RootOf, key_table, kKeyNames
  <2>4. (7 * (k - 8)) % 12 \in 0..11
    OBVIOUS
  <2> QED BY <2>1, <2>3, <2>4, Zenon
<1>10. name \in {"Cb", "Gb", "Db", "Ab", "Eb", "Bb", "F"} <=> k < 8
  BY <1>1 DEF all_major_keys
<1> HIDE DEF name, a
<1> QED BY <1>3, <1>8, <1>9, <1>10 DEF name, a

LEMMA RelativeMinorOnCircle ==
  ASSUME NEW k \in 1..15
  PROVE  LET minor == relative_minor_of(all_major_keys[k][2])
         IN RootOf(minor) \in 0..11 /\ RootOf(minor) = (7 * (k - 8) + 9) % 12
<1> DEFINE name == all_major_keys[k][2]
           minor == relative_minor_of(name)
<1>1. major_key_accidentals(name) = k - 8
  BY TableOfKeys
<1>2. CASE k < 8
  <2>1. minor = flat_relatives[name]
    BY <1>1, <1>2 DEF relative_minor_of
  <2>2. k \in {1, 2, 3, 4, 5, 6, 7}
    BY <1>2
  <2>3. name = <<"Cb", "Gb", "Db", "Ab", "Eb", "Bb", "F">>[k]
    BY <2>2 DEF all_major_keys
  <2>4. minor = <<"Ab", "Eb", "Bb", "F", "C", "G", "D">>[k]
    BY <2>1, <2>2, <2>3 DEF flat_relatives
  <2> QED BY <2>2, <2>4 DEF RootOf, key_table, kKeyNames
<1>3. CASE k >= 8
  <2>1. minor = pc_name_sharp(parse_root_pc(name) + 9)
    BY <1>1, <1>3 DEF relative_minor_of
  <2>2. k \in {8, 9, 10, 11, 12, 13, 14, 15}
    BY <1>3
  <2>3. name \in kKeyNames /\ key_table[name] = (7 * (k - 8)) % 12
    BY <2>2 DEF all_major_keys, key_table, kKeyNames
  <2>4. parse_root_pc(name) = (7 * (k - 8)) % 12
    BY <2>3, RootPc
  <2>5. minor = <<"C", "C#", "D", "D#", "E", "F", "F#", "G", "G#", "A", "A#", "B">>
                  [((7 * (k - 8) + 9) % 12) + 1]
    <3> DEFINE r == parse_root_pc(name)
    <3>1. (r + 9) % 12 = (7 * (k - 8) + 9) % 12
      BY <2>2, <2>4
    <3> HIDE DEF r
    <3> QED BY <2>1, <3>1 DEF pc_name_sharp, r
  <2>6. (7 * (k - 8) + 9) % 12 \in 0..11
    BY <2>2
  <2> DEFINE p == (7 * (k - 8) + 9) % 12
  <2>7. p \in {0, 1, 2, 3, 4, 5, 6, 7, 8, 9, 10, 11}
    BY <2>6
  <2> HIDE DEF p, minor
  <2>8. minor = <<"C", "C#", "D", "D#", "E", "F", "F#", "G", "G#", "A", "A#", "B">>[p + 1]
    BY <2>5 DEF p
  <2>9. RootOf(minor) = p
    BY <2>7, <2>8 DEF RootOf, key_table, kKeyNames
  <2> QED BY <2>6, <2>9 DEF p, minor
<1> QED BY <1>2, <1>3

(* A key that is not beyond the property lies on the circle where its      *)
(* accidentals say.                                                        *)
LEMMA KeyOnCircle ==
  ASSUME NEW key \in kKeyNames, NEW scale \in {"major", "minor"},
         scale = "minor" => key \notin {"C", "F", "G"},
         scale = "major" => key \notin {"D#", "G#", "A#"}
  PROVE  /\ key_accidentals(key, scale) \in -7..7
         /\ NotesOf(key, scale) = Fifths(key_accidentals(key, scale))
<1> DEFINE names == <<"Cb", "Gb", "Db", "Ab", "Eb", "Bb", "F", "C", "G", "D", "A", "E", "B",
                      "F#", "C#">>
<1>1. ASSUME NEW k \in 1..15
      PROVE  /\ all_major_keys[k][2] = names[k]
             /\ major_key_accidentals(names[k]) = k - 8
             /\ k - 8 \in -7..7
             /\ RootOf(names[k]) \in 0..11 /\ RootOf(names[k]) = (7 * (k - 8)) % 12
  <2>1. k \in {1, 2, 3, 4, 5, 6, 7, 8, 9, 10, 11, 12, 13, 14, 15}
    OBVIOUS
  <2>2. all_major_keys[k][2] = names[k] /\ all_major_keys[k][1] = k - 8
    BY <2>1 DEF all_major_keys
  <2> HIDE DEF names
  <2> QED BY <2>2, TableOfKeys, SMTT(40)
<1>2. RootOf(key) = key_table[key] /\ RootOf(key) \in 0..11
  <2>1. key # "Cb"
    BY DEF kKeyNames
  <2> QED BY <2>1, RootPc DEF RootOf
<1>3. CASE scale = "major"
  <2>1. \E k \in 1..15 : names[k] = key
    <3>1. key \in {"Db", "Ab", "Eb", "Bb", "F", "C", "G", "D", "A", "E", "B", "F#", "C#", "Gb"}
      BY <1>3 DEF kKeyNames
    <3>2. /\ names[2] = "Gb" /\ names[3] = "Db" /\ names[4] = "Ab" /\ names[5] = "Eb"
          /\ names[6] = "Bb" /\ names[7] = "F" /\ names[8] = "C" /\ names[9] = "G"
          /\ names[10] = "D" /\ names[11] = "A" /\ names[12] = "E" /\ names[13] = "B"
          /\ names[14] = "F#" /\ names[15] = "C#"
      OBVIOUS
    <3> HIDE DEF names
    <3> QED BY <3>1, <3>2
  <2>2. PICK k \in 1..15 : names[k] = key
    BY <2>1
  <2>3. key_accidentals(key, scale) = major_key_accidentals(key)
    BY <1>3 DEF key_accidentals, MinorScales
  <2> HIDE DEF names
  <2>4. /\ major_key_accidentals(key) = k - 8 /\ k - 8 \in -7..7
        /\ RootOf(key) \in 0..11 /\ RootOf(key) = (7 * (k - 8)) % 12
    BY <1>1, <2>2
  <2>5. NotesOf(key, "major") = Fifths(k - 8)
    BY <2>4, MajorOnCircle
  <2> QED BY <1>3, <2>3, <2>4, <2>5
<1>4. CASE scale = "minor"
  <2> DEFINE relative == pc_name_sharp(parse_root_pc(key) + 3)
  <2>1. \E k \in 1..15 : names[k] = relative /\ key_table[key] = (7 * (k - 8) + 9) % 12
    <3> DEFINE sharps == <<"C", "C#", "D", "D#", "E", "F", "F#", "G", "G#", "A", "A#", "B">>
               r == parse_root_pc(key)
    <3>1. r = key_table[key]
      BY RootPc
    <3>2. key_table[key] \in {1, 2, 3, 4, 6, 8, 9, 10, 11}
      BY <1>4 DEF key_table, kKeyNames
    <3>3. relative = sharps[((r + 3) % 12) + 1]
      BY DEF pc_name_sharp
    <3> DEFINE Fits(k) == k \in 1..15 /\ names[k] = relative /\ r = (7 * (k - 8) + 9) % 12
    <3>4. r = 1 => Fits(12)
      BY <3>3
    <3>5. r = 2 => Fits(7)
      BY <3>3
    <3>6. r = 3 => Fits(14)
      BY <3>3
    <3>7. r = 4 => Fits(9)
      BY <3>3
    <3>8. r = 6 => Fits(11)
      BY <3>3
    <3>9. r = 8 => Fits(13)
      BY <3>3
    <3>10. r = 9 => Fits(8)
      BY <3>3
    <3>11. r = 10 => Fits(15)
      BY <3>3
    <3>12. r = 11 => Fits(10)
      BY <3>3
    <3> HIDE DEF r
    <3>13. \E k \in {7, 8, 9, 10, 11, 12, 13, 14, 15} : Fits(k)
      <4> HIDE DEF Fits
      <4> QED BY <3>1, <3>2, <3>4, <3>5, <3>6, <3>7, <3>8, <3>9, <3>10, <3>11, <3>12
    <3> QED BY <3>1, <3>13, Zenon
  <2>2. PICK k \in 1..15 : names[k] = relative /\ key_table[key] = (7 * (k - 8) + 9) % 12
    BY <2>1
  <2>3. key_accidentals(key, scale) = major_key_accidentals(relative)
    BY <1>4 DEF key_accidentals, MinorScales
  <2> HIDE DEF names, relative
  <2>4. major_key_accidentals(relative) = k - 8 /\ k - 8 \in -7..7
    BY <1>1, <2>2
  <2>5. NotesOf(key, "minor") = Fifths(k - 8)
    BY <1>2, <2>2, <2>4, MinorOnCircle
  <2> QED BY <1>4, <2>3, <2>4, <2>5
<1> QED BY <1>3, <1>4

-----------------------------------------------------------------------------
(* The loop of closely_related_keys up to the n-th key of the table.       *)
TableWalk(f, n, acc) ==
  f = [k \in 0..n |->
         IF k = 0 THEN <<>>
         ELSE IF Near(all_major_keys[k][1], acc)
              THEN f[k - 1] \o <<all_major_keys[k][2], relative_minor_of(all_major_keys[k][2])>>
              ELSE f[k - 1]]

LEMMA TableWalkExists ==
  ASSUME NEW len \in Nat, NEW acc
  PROVE  \E f : TableWalk(f, len, acc)
<1> DEFINE T == {n \in 0..len : \E f : TableWalk(f, n, acc)}
           Two(k) == <<all_major_keys[k][2], relative_minor_of(all_major_keys[k][2])>>
<1>1. 0 \in T
  <2>1. TableWalk([i \in 0..0 |-> <<>>], 0, acc)
      BY DEF TableWalk
  <2> QED BY <2>1
<1>2. ASSUME NEW n \in 1..len, n - 1 \in T PROVE n \in T
  <2>1. PICK f : TableWalk(f, n - 1, acc)
      BY <1>2
  <2> DEFINE g == [i \in 0..n |->
                     IF i < n THEN f[i]
                     ELSE IF Near(all_major_keys[i][1], acc) THEN f[i - 1] \o Two(i)
                          ELSE f[i - 1]]
  <2>2. TableWalk(g, n, acc)
    <3> HIDE DEF Two
    <3>1. \A i \in 0..(n - 1) :
            f[i] = IF i = 0 THEN <<>>
                   ELSE IF Near(all_major_keys[i][1], acc) THEN f[i - 1] \o Two(i)
                        ELSE f[i - 1]
        BY <2>1 DEF TableWalk, Two
    <3>2. \A i \in 0..n : i # 0 => g[i - 1] = f[i - 1]
        OBVIOUS
    <3>3. \A i \in 0..n :
            g[i] = IF i = 0 THEN <<>>
                   ELSE IF Near(all_major_keys[i][1], acc) THEN g[i - 1] \o Two(i)
                        ELSE g[i - 1]
        BY <3>1, <3>2
    <3> QED BY <3>3 DEF TableWalk, Two
  <2> QED BY <2>2
<1> HIDE DEF T
<1>3. len \in T
    BY <1>1, <1>2, UpTo
<1> QED BY <1>3 DEF T

(* What the loop has collected: keys of the table next to the one asked    *)
(* about, and the relative minor after each.                               *)
TableNames == kKeyNames \cup {"Cb"}

Collected(s, acc) ==
  /\ s \in Seq(TableNames) /\ Len(s) % 2 = 0
  /\ \A i \in 1..Len(s) :
       \E k \in 1..15 :
         /\ Near(k - 8, acc)
         /\ i % 2 = 1 => s[i] = all_major_keys[k][2]
         /\ i % 2 = 0 => s[i] = relative_minor_of(all_major_keys[k][2])

LEMMA NamesOfTable ==
  ASSUME NEW k \in 1..15
  PROVE  /\ all_major_keys[k][1] = k - 8
         /\ all_major_keys[k][2] \in TableNames
         /\ relative_minor_of(all_major_keys[k][2]) \in TableNames
<1> DEFINE name == all_major_keys[k][2]
<1>1. k \in {1, 2, 3, 4, 5, 6, 7, 8, 9, 10, 11, 12, 13, 14, 15}
  OBVIOUS
<1>2. all_major_keys[k][1] = k - 8
  BY <1>1 DEF all_major_keys
<1>3. name \in TableNames
  BY <1>1 DEF all_major_keys, TableNames, kKeyNames
<1>4. /\ k - 8 < 0 => name \in {"Cb", "Gb", "Db", "Ab", "Eb", "Bb", "F"}
      /\ k - 8 >= 0 => name \in kKeyNames
  BY <1>1 DEF all_major_keys, kKeyNames
<1>5. k - 8 < 0 => flat_relatives[name] \in TableNames
  <2> HIDE DEF name
  <2> QED BY <1>4 DEF flat_relatives, TableNames, kKeyNames
<1>6. major_key_accidentals(name) = k - 8
  BY TableOfKeys
<1>7. k - 8 >= 0 => pc_name_sharp(parse_root_pc(name) + 9) \in TableNames
  <2> DEFINE names == <<"C", "C#", "D", "D#", "E", "F", "F#", "G", "G#", "A", "A#", "B">>
             r == parse_root_pc(name)
             p == (r + 9) % 12
  <2> SUFFICES ASSUME k - 8 >= 0 PROVE names[p + 1] \in TableNames
    BY DEF pc_name_sharp
  <2>1. r \in 0..11
    BY <1>4, RootPc
  <2> HIDE DEF r
  <2>2. p \in {0, 1, 2, 3, 4, 5, 6, 7, 8, 9, 10, 11}
    BY <2>1
  <2> HIDE DEF p
  <2> QED BY <2>2 DEF TableNames, kKeyNames
<1> HIDE DEF name
<1>8. relative_minor_of(name) \in TableNames
  BY <1>5, <1>6, <1>7 DEF relative_minor_of
<1> QED BY <1>2, <1>3, <1>8 DEF name

Joined(S, s, c, t) ==
  /\ t \in Seq(S) /\ Len(t) = Len(s) + Len(c)
  /\ \A i \in 1..Len(s) : t[i] = s[i]
  /\ \A i \in 1..Len(c) : t[Len(s) + i] = c[i]

LEMMA Concatenated ==
  ASSUME NEW S, NEW s \in Seq(S), NEW c \in Seq(S)
  PROVE  Joined(S, s, c, s \o c)
BY DEF Joined

LEMMA AppendTwo ==
  ASSUME NEW S, NEW s \in Seq(S), NEW x \in S, NEW y \in S
  PROVE  /\ s \o <<x, y>> \in Seq(S) /\ Len(s \o <<x, y>>) = Len(s) + 2
         /\ \A i \in 1..Len(s) : (s \o <<x, y>>)[i] = s[i]
         /\ (s \o <<x, y>>)[Len(s) + 1] = x /\ (s \o <<x, y>>)[Len(s) + 2] = y
<1> SUFFICES ASSUME NEW c \in Seq(S), Len(c) = 2, c[1] = x, c[2] = y
             PROVE  /\ s \o c \in Seq(S) /\ Len(s \o c) = Len(s) + 2
                    /\ \A i \in 1..Len(s) : (s \o c)[i] = s[i]
                    /\ (s \o c)[Len(s) + 1] = x /\ (s \o c)[Len(s) + 2] = y
  <2>1. <<x, y>> \in Seq(S) /\ Len(<<x, y>>) = 2 /\ <<x, y>>[1] = x /\ <<x, y>>[2] = y
    OBVIOUS
  <2> QED BY <2>1, Zenon
<1>1. Joined(S, s, c, s \o c)
  BY Concatenated
<1>2. /\ s \o c \in Seq(S) /\ Len(s \o c) = Len(s) + 2
      /\ \A i \in 1..Len(s) : (s \o c)[i] = s[i]
      /\ \A i \in 1..Len(c) : (s \o c)[Len(s) + i] = c[i]
  BY <1>1, Zenon DEF Joined
<1>3. 1 \in 1..Len(c) /\ 2 \in 1..Len(c)
  OBVIOUS
<1>4. (s \o c)[Len(s) + 1] = x /\ (s \o c)[Len(s) + 2] = y
  BY <1>2, <1>3, Zenon
<1> QED BY <1>2, <1>4, Zenon

LEMMA RelatedKeysCollected ==
  ASSUME NEW key, NEW scale
  PROVE  Collected(closely_related_keys(key, scale), key_accidentals(key, scale))
<1> DEFINE acc == key_accidentals(key, scale)
           Two(k) == <<all_major_keys[k][2], relative_minor_of(all_major_keys[k][2])>>
<1>1. Len(all_major_keys) = 15
  BY DEF all_major_keys
<1>2. PICK r : TableWalk(r, 15, acc) /\ closely_related_keys(key, scale) = r[15]
  <2> DEFINE f == CHOOSE f : TableWalk(f, 15, acc)
  <2>1. TableWalk(f, 15, acc)
    BY TableWalkExists, Zenon
  <2>2. closely_related_keys(key, scale) = f[15]
    BY <1>1, Zenon DEF closely_related_keys, TableWalk
  <2> QED BY <2>1, <2>2, Zenon
<1>3. /\ r[0] = <<>>
      /\ \A k \in 1..15 :
           /\ Near(all_major_keys[k][1], acc) => r[k] = r[k - 1] \o Two(k)
           /\ ~Near(all_major_keys[k][1], acc) => r[k] = r[k - 1]
  <2> HIDE DEF Two, acc
  <2>1. \A k \in 0..15 :
          r[k] = IF k = 0 THEN <<>>
                 ELSE IF Near(all_major_keys[k][1], acc) THEN r[k - 1] \o Two(k)
                      ELSE r[k - 1]
    BY <1>2, Zenon DEF TableWalk, Two
  <2>2. 0 \in 0..15 /\ \A k \in 1..15 : k \in 0..15 /\ k # 0
    OBVIOUS
  <2> QED BY <2>1, <2>2, Zenon
<1> DEFINE T == {n \in 0..15 : Collected(r[n], acc)}
<1>4. 0 \in T
  <2>1. Collected(<<>>, acc)
    BY DEF Collected
  <2> QED BY <1>3, <2>1, SMTT(40)
<1>5. ASSUME NEW n \in 1..15, n - 1 \in T PROVE n \in T
  <2>1. Collected(r[n - 1], acc)
    BY <1>5
  <2>2. CASE ~Near(all_major_keys[n][1], acc)
    <3>1. r[n] = r[n - 1]
      BY <1>3, <2>2
    <3> QED BY <2>1, <3>1
  <2>3. CASE Near(all_major_keys[n][1], acc)
    <3> DEFINE s == r[n - 1]
               x == all_major_keys[n][2]
               y == relative_minor_of(x)
    <3>1. r[n] = s \o <<x, y>>
      BY <1>3, <2>3
    <3>2. x \in TableNames /\ y \in TableNames /\ Near(n - 8, acc)
      BY <2>3, NamesOfTable
    <3> HIDE DEF s, x, y, acc
    <3>3. s \in Seq(TableNames) /\ Len(s) % 2 = 0
      BY <2>1 DEF Collected, s
    <3> DEFINE t == s \o <<x, y>>
    <3>4. /\ t \in Seq(TableNames) /\ Len(t) = Len(s) + 2
          /\ \A i \in 1..Len(s) : t[i] = s[i]
          /\ t[Len(s) + 1] = x /\ t[Len(s) + 2] = y
      BY <3>2, <3>3, AppendTwo
    <3>5. Len(t) % 2 = 0 /\ (Len(s) + 1) % 2 = 1 /\ (Len(s) + 2) % 2 = 0
      BY <3>3, <3>4
    <3> HIDE DEF t
    <3>6. ASSUME NEW i \in 1..Len(t)
          PROVE  \E k \in 1..15 :
                   /\ Near(k - 8, acc)
                   /\ i % 2 = 1 => t[i] = all_major_keys[k][2]
                   /\ i % 2 = 0 => t[i] = relative_minor_of(all_major_keys[k][2])
      <4>1. CASE i \in 1..Len(s)
        <5>1. PICK k \in 1..15 :
                /\ Near(k - 8, acc)
                /\ i % 2 = 1 => s[i] = all_major_keys[k][2]
                /\ i % 2 = 0 => s[i] = relative_minor_of(all_major_keys[k][2])
          BY <2>1, <4>1, Zenon DEF Collected, s
        <5>2. t[i] = s[i]
          BY <3>4, <4>1
        <5> QED BY <5>1, <5>2, Zenon
      <4>2. CASE i = Len(s) + 1
        <5>1. t[i] = x /\ i % 2 = 1 /\ i % 2 # 0
          BY <3>4, <3>5, <4>2
        <5> QED BY <3>2, <5>1, Zenon DEF x
      <4>3. CASE i = Len(s) + 2
        BY <3>2, <3>4, <3>5, <4>3 DEF x, y
      <4>4. i \in 1..Len(s) \/ i = Len(s) + 1 \/ i = Len(s) + 2
        BY <3>3, <3>4
      <4> QED BY <4>1, <4>2, <4>3, <4>4
    <3>7. Collected(t, acc)
      BY <3>4, <3>5, <3>6, Zenon DEF Collected
    <3>8. n \in 0..15
      OBVIOUS
    <3> QED BY <3>1, <3>7, <3>8, Zenon DEF t
  <2> QED BY <2>2, <2>3
<1> HIDE DEF T
<1>6. 15 \in T
  BY <1>4, <1>5, UpTo
<1> QED BY <1>2, <1>6 DEF T

LEMMA RelatedFromInv == ModulationInv => RelatedKeysShareSixNotes
<1> DEFINE key == call.from.key
           scale == call.from.scale
           acc == key_accidentals(key, scale)
           Scale(i) == IF i % 2 = 1 THEN "major" ELSE "minor"
<1> SUFFICES ASSUME ModulationInv, call.engine = "related",
                    scale = "minor" => key \notin {"C", "F", "G"},
                    scale = "major" => key \notin {"D#", "G#", "A#"},
                    NEW i \in DOMAIN out
             PROVE  /\ Cardinality(NotesOf(out[i], Scale(i)) \cap NotesOf(key, scale)) >= 6
                    /\ i % 2 = 1 => are_closely_related(key, scale, out[i], Scale(i))
  BY Zenon DEF RelatedKeysShareSixNotes
<1>1. key \in kKeyNames /\ scale \in {"major", "minor"}
  BY DEF ModulationInv, ModulationCalls
<1>2. acc \in -7..7 /\ NotesOf(key, scale) = Fifths(acc)
  <2> HIDE DEF key, scale
  <2> QED BY <1>1, KeyOnCircle
<1>3. out = closely_related_keys(key, scale)
  <2>1. out # <<>>
    OBVIOUS
  <2>2. ModulationAnswer = closely_related_keys(key, scale)
    BY DEF ModulationAnswer
  <2> QED BY <2>1, <2>2, Zenon DEF ModulationInv
<1>4. Collected(out, acc)
  BY <1>3, RelatedKeysCollected, Zenon
<1> HIDE DEF acc, key, scale
<1>5. i \in 1..Len(out) /\ i \in Int
  BY <1>4 DEF Collected
<1>6. PICK k \in 1..15 :
        /\ Near(k - 8, acc)
        /\ i % 2 = 1 => out[i] = all_major_keys[k][2]
        /\ i % 2 = 0 => out[i] = relative_minor_of(all_major_keys[k][2])
  BY <1>4, <1>5, Zenon DEF Collected
<1> DEFINE a == k - 8
<1>7. a \in Int /\ acc \in Int /\ Near(a, acc) /\ Near(acc, a)
  <2>1. a \in Int /\ acc \in Int
    BY <1>2
  <2> QED BY <1>6, <2>1 DEF Near
<1>8. NotesOf(out[i], Scale(i)) = Fifths(a)
  <2>1. CASE i % 2 = 1
    <3>1. RootOf(out[i]) \in 0..11 /\ RootOf(out[i]) = (7 * a) % 12
      BY <1>6, <2>1, TableOfKeys
    <3> HIDE DEF a
    <3>2. NotesOf(out[i], "major") = Fifths(a)
      BY <1>7, <3>1, MajorOnCircle
    <3> QED BY <2>1, <3>2
  <2>2. CASE i % 2 = 0
    <3>1. RootOf(out[i]) \in 0..11 /\ RootOf(out[i]) = (7 * a + 9) % 12
      BY <1>6, <2>2, RelativeMinorOnCircle
    <3> HIDE DEF a
    <3>2. NotesOf(out[i], "minor") = Fifths(a)
      BY <1>7, <3>1, MinorOnCircle
    <3> QED BY <2>2, <3>2
  <2>3. i % 2 = 1 \/ i % 2 = 0
    BY <1>5
  <2> QED BY <2>1, <2>2, <2>3
<1>9. Cardinality(Fifths(a) \cap Fifths(acc)) >= 6
  <2> HIDE DEF a
  <2> QED BY <1>7, NeighboursShareSix
<1>10. ASSUME i % 2 = 1
       PROVE  are_closely_related(key, scale, out[i], Scale(i))
  <2>1. major_key_accidentals(out[i]) = a
    BY <1>6, <1>10, TableOfKeys
  <2>2. key_accidentals(out[i], "major") = a
    BY <2>1 DEF key_accidentals, MinorScales
  <2>3. Scale(i) = "major"
    BY <1>10
  <2> HIDE DEF a
  <2> QED BY <1>7, <2>2, <2>3 DEF are_closely_related, acc
<1> HIDE DEF a
<1> QED BY <1>2, <1>8, <1>9, <1>10

LEMMA ModulationStep == ModulationInv /\ [ModulationNext]_vars => ModulationInv'
<1> SUFFICES ASSUME ModulationInv, [ModulationNext]_vars PROVE ModulationInv'
  OBVIOUS
<1>1. call \in ModulationCalls /\ call.engine \in {"modulate", "related"}
  BY DEF ModulationInv, ModulationCalls
<1>2. CASE Modulate
  <2>1. step = "modulate" /\ call' = call /\ step' = "done"
        /\ out' = generate_modulation(call.from, call.to, call.bars)
    BY <1>2 DEF Modulate
  <2>2. call.engine = "modulate"
    BY <2>1 DEF ModulationInv
  <2>3. out' = ModulationAnswer
    BY <2>1, <2>2, Zenon DEF ModulationAnswer
  <2>4. ModulationAnswer' = ModulationAnswer
    BY <2>1, Zenon DEF ModulationAnswer
  <2> QED BY <1>1, <2>1, <2>3, <2>4, Zenon DEF ModulationInv
<1>3. CASE RelatedKeys
  <2>1. step = "related" /\ call' = call /\ step' = "done"
        /\ out' = closely_related_keys(call.from.key, call.from.scale)
    BY <1>3 DEF RelatedKeys
  <2>2. call.engine # "modulate"
    BY <2>1 DEF ModulationInv
  <2>3. out' = ModulationAnswer
    BY <2>1, <2>2, Zenon DEF ModulationAnswer
  <2>4. ModulationAnswer' = ModulationAnswer
    BY <2>1, Zenon DEF ModulationAnswer
  <2> QED BY <1>1, <2>1, <2>3, <2>4, Zenon DEF ModulationInv
<1>4. CASE UNCHANGED vars
  <2>1. call' = call /\ out' = out /\ step' = step
    BY <1>4 DEF vars
  <2>2. ModulationAnswer' = ModulationAnswer
    BY <2>1, Zenon DEF ModulationAnswer
  <2> QED BY <2>1, <2>2, Zenon DEF ModulationInv
<1> QED BY <1>2, <1>3, <1>4 DEF ModulationNext

(* ModulationEngine, whatever the keys and the bars: it leaves through a   *)
(* chord of both keys and arrives, and the keys closely_related_keys names *)
(* share six notes with the key they are asked for.                        *)
THEOREM ModulationEngineSound == ModulationSpec => []ModulationSound
<1>1. Start(ModulationCalls) => ModulationInv
  BY DEF Start, ModulationInv
<1>2. ModulationInv /\ [ModulationNext]_vars => ModulationInv'
  BY ModulationStep
<1>3. ModulationInv => ModulationSound
  BY PivotFromInv, ArrivesFromInv, RelatedFromInv DEF ModulationSound
<1> QED BY <1>1, <1>2, <1>3, PTL DEF ModulationSpec

-----------------------------------------------------------------------------
(* ReharmonizeEngine.                                                      *)
kSymbols == kRoots \X kSuffixes
kQualities == kSuffixes \ {"", "m"}
RootNamed(name) == parse_chord_name(name).root_pc

(* A name that cannot be read has a root, too.                             *)
LEMMA RootInOctave ==
  ASSUME NEW key
  PROVE  parse_root_pc(key) \in 0..11
<1>1. CASE key \in kKeyNames
  BY <1>1, RootPc
<1>2. CASE key \notin kKeyNames
  BY <1>2 DEF parse_root_pc, key_table
<1> QED BY <1>1, <1>2

LEMMA NameRead ==
  ASSUME NEW name \in kSymbols
  PROVE  /\ RootNamed(name) = parse_root_pc(name[1]) /\ RootNamed(name) \in 0..11
         /\ parse_chord_name(name).quality \in kQualities
<1>1. name[2] \in kSuffixes
  BY DEF kSymbols
<1> DEFINE s == name[2]
           q == CASE s = "" -> "maj" [] s = "m" -> "min" [] OTHER -> s
<1>2. q \in kQualities
  <2> HIDE DEF s
  <2> QED BY <1>1 DEF kQualities, kSuffixes, s
<1>3. parse_chord_name(name) = Chord(parse_root_pc(name[1]), q)
  BY Zenon DEF parse_chord_name
<1> HIDE DEF q
<1>4. parse_chord_name(name).root_pc = parse_root_pc(name[1])
      /\ parse_chord_name(name).quality = q
  BY <1>3 DEF Chord
<1> QED BY <1>2, <1>4, RootInOctave DEF RootNamed

(* The root of a chord is read back from its name, and the suffix is one   *)
(* that quality_suffix knows.                                              *)
LEMMA NameWritten ==
  ASSUME NEW p \in 0..11, NEW q \in kQualities
  PROVE  chord_name(p, q) \in kSymbols /\ RootNamed(chord_name(p, q)) = p
<1> DEFINE n == pc_name_sharp(p)
           names == <<"C", "C#", "D", "D#", "E", "F", "F#", "G", "G#", "A", "A#", "B">>
           s == quality_suffix(q)
<1>1. n \in kKeyNames /\ key_table[n] = p
  <2>1. p % 12 = p
    OBVIOUS
  <2>2. n = names[p + 1]
    BY <2>1 DEF pc_name_sharp
  <2>3. p \in {0, 1, 2, 3, 4, 5, 6, 7, 8, 9, 10, 11}
    OBVIOUS
  <2> HIDE DEF n
  <2> QED BY <2>2, <2>3 DEF key_table, kKeyNames
<1>2. n \in kRoots /\ s \in kSuffixes
  <2>1. s \in kSuffixes
    BY DEF quality_suffix, kQualities, kSuffixes
  <2> HIDE DEF n, s
  <2> QED BY <1>1, <2>1 DEF kRoots
<1>3. chord_name(p, q) = <<n, s>>
  BY DEF chord_name
<1> HIDE DEF n, s
<1>4. <<n, s>> \in kSymbols /\ <<n, s>>[1] = n
  BY <1>2 DEF kSymbols
<1>5. chord_name(p, q) \in kSymbols /\ chord_name(p, q)[1] = n
  BY <1>3, <1>4, Zenon
<1>6. RootNamed(chord_name(p, q)) = parse_root_pc(n)
  BY <1>5, NameRead
<1> QED BY <1>1, <1>5, <1>6, RootPc

(* The scales of the table.                                                *)
LEMMA ScaleTable ==
  ASSUME NEW scale
  PROVE  LET s == kScales[scale]
         IN scale \in DOMAIN kScales =>
              /\ Len(s) \in 5..7 /\ DOMAIN s = 1..Len(s)
              /\ \A i \in 1..Len(s) : s[i] \in 0..11
<1> SUFFICES ASSUME scale \in DOMAIN kScales
             PROVE  LET s == kScales[scale]
                    IN /\ Len(s) \in 5..7 /\ DOMAIN s = 1..Len(s)
                       /\ \A i \in 1..Len(s) : s[i] \in 0..11
  OBVIOUS
<1>1. scale \in {"major", "minor", "harmonic_minor", "melodic_minor", "pentatonic_major",
                 "pentatonic_minor", "blues", "ionian", "dorian", "phrygian", "lydian",
                 "mixolydian", "aeolian", "locrian"}
  BY DEF kScales
<1>2. CASE scale = "major"
  BY <1>2 DEF kScales
<1>3. CASE scale = "minor"
  BY <1>3 DEF kScales
<1>4. CASE scale = "harmonic_minor"
  BY <1>4 DEF kScales
<1>5. CASE scale = "melodic_minor"
  BY <1>5 DEF kScales
<1>6. CASE scale = "pentatonic_major"
  BY <1>6 DEF kScales
<1>7. CASE scale = "pentatonic_minor"
  BY <1>7 DEF kScales
<1>8. CASE scale = "blues"
  BY <1>8 DEF kScales
<1>9. CASE scale = "ionian"
  BY <1>9 DEF kScales
<1>10. CASE scale = "dorian"
  BY <1>10 DEF kScales
<1>11. CASE scale = "phrygian"
  BY <1>11 DEF kScales
<1>12. CASE scale = "lydian"
  BY <1>12 DEF kScales
<1>13. CASE scale = "mixolydian"
  BY <1>13 DEF kScales
<1>14. CASE scale = "aeolian"
  BY <1>14 DEF kScales
<1>15. CASE scale = "locrian"
  BY <1>15 DEF kScales
<1> QED BY <1>1, <1>2, <1>3, <1>4, <1>5, <1>6, <1>7, <1>8, <1>9, <1>10, <1>11, <1>12, <1>13, <1>14, <1>15

(* Where there is a sixth degree it is not the second one.                 *)
LEMMA SixthIsNotSecond ==
  ASSUME NEW scale \in DOMAIN kScales, Len(kScales[scale]) >= 6
  PROVE  kScales[scale][2] \in 1..3 /\ kScales[scale][6] \in 8..10
<1>1. scale \in {"major", "minor", "harmonic_minor", "melodic_minor", "pentatonic_major",
                 "pentatonic_minor", "blues", "ionian", "dorian", "phrygian", "lydian",
                 "mixolydian", "aeolian", "locrian"}
  BY DEF kScales
<1>2. CASE scale \in {"major", "ionian"}
  BY <1>2 DEF kScales
<1>3. CASE scale \in {"minor", "aeolian"}
  BY <1>3 DEF kScales
<1>4. CASE scale \in {"harmonic_minor", "melodic_minor"}
  BY <1>4 DEF kScales
<1>5. CASE scale \in {"pentatonic_major", "pentatonic_minor"}
  <2>1. Len(kScales[scale]) = 5
    BY <1>5 DEF kScales
  <2> QED BY <2>1
<1>6. CASE scale \in {"blues", "locrian"}
  BY <1>6 DEF kScales
<1>7. CASE scale \in {"dorian", "phrygian"}
  BY <1>7 DEF kScales
<1>8. CASE scale \in {"lydian", "mixolydian"}
  BY <1>8 DEF kScales
<1> QED BY <1>1, <1>2, <1>3, <1>4, <1>5, <1>6, <1>7, <1>8

(* The chords on the degrees, whatever key and scale are asked for.        *)
LEMMA DegreeChords ==
  ASSUME NEW key, NEW scale
  PROVE  LET cs == diatonic_chords(key, scale)
         IN /\ Len(cs) \in 5..7 /\ DOMAIN cs = 1..Len(cs)
            /\ \A i \in 1..Len(cs) : cs[i].root_pc \in 0..11 /\ cs[i].quality \in kQualities
            /\ \E base \in DOMAIN kScales :
                 /\ Len(cs) = Len(kScales[base])
                 /\ \A i \in 1..Len(cs) :
                      cs[i].root_pc = (parse_root_pc(key) + kScales[base][i]) % 12
<1> DEFINE own == intervals_of(scale)
           s == IF own = <<>> THEN intervals_of("major") ELSE own
           cs == diatonic_chords(key, scale)
           r == parse_root_pc(key)
           qs == qualities_for_scale(scale)
<1>1. /\ Len(s) \in 5..7 /\ DOMAIN s = 1..Len(s) /\ \A i \in 1..Len(s) : s[i] \in 0..11
      /\ \E base \in DOMAIN kScales : s = kScales[base]
  <2>1. ASSUME scale \in DOMAIN kScales
        PROVE  /\ Len(kScales[scale]) \in 5..7
               /\ DOMAIN kScales[scale] = 1..Len(kScales[scale])
               /\ \A i \in 1..Len(kScales[scale]) : kScales[scale][i] \in 0..11
    BY <2>1, ScaleTable
  <2>2. "major" \in DOMAIN kScales
    BY DEF kScales
  <2>3. CASE scale \in DOMAIN kScales
    <3>1. own = kScales[scale]
      BY <2>3, Zenon DEF intervals_of
    <3>2. own # <<>>
      <4>1. Len(kScales[scale]) # 0
        BY <2>1, <2>3
      <4> DEFINE t == kScales[scale]
      <4> HIDE DEF t
      <4>2. t # <<>>
        BY <4>1 DEF t
      <4> QED BY <3>1, <4>2 DEF t
    <3> QED BY <2>1, <2>3, <3>1, <3>2
  <2>4. CASE scale \notin DOMAIN kScales
    <3>1. own = <<>>
      BY <2>4 DEF intervals_of
    <3>2. s = kScales["major"]
      BY <2>2, <3>1 DEF intervals_of
    <3>3. /\ Len(kScales["major"]) \in 5..7
          /\ DOMAIN kScales["major"] = 1..Len(kScales["major"])
          /\ \A i \in 1..Len(kScales["major"]) : kScales["major"][i] \in 0..11
      BY <2>2, ScaleTable
    <3> QED BY <2>2, <3>2, <3>3
  <2> QED BY <2>3, <2>4
<1>2. \A i \in 1..7 : qs[i] \in kQualities
  <2>1. \/ qs = <<"min", "dim", "maj", "min", "min", "maj", "maj">>
        \/ qs = <<"min", "dim", "aug", "min", "maj", "maj", "dim">>
        \/ qs = <<"min", "min", "aug", "maj", "maj", "dim", "dim">>
        \/ qs = <<"maj", "min", "min", "maj", "maj", "min", "dim">>
    BY Zenon DEF qualities_for_scale
  <2>2. {"maj", "min", "dim", "aug"} \subseteq kQualities
    BY DEF kQualities, kSuffixes
  <2> HIDE DEF qs
  <2>3. \A i \in 1..7 : qs[i] \in {"maj", "min", "dim", "aug"}
    BY <2>1
  <2> QED BY <2>2, <2>3
<1>3. cs = [i \in DOMAIN s |-> Chord((r + s[i]) % 12, qs[i])]
  BY Zenon DEF diatonic_chords
<1>4. r \in 0..11
  BY RootInOctave
<1> HIDE DEF own, s, cs, r, qs
<1>5. DOMAIN cs = 1..Len(s) /\ Len(cs) = Len(s)
  BY <1>1, <1>3
<1>6. ASSUME NEW i \in 1..Len(s)
      PROVE  /\ cs[i].root_pc = (r + s[i]) % 12 /\ cs[i].quality = qs[i]
             /\ (r + s[i]) % 12 \in 0..11 /\ qs[i] \in kQualities
  <2>1. cs[i] = Chord((r + s[i]) % 12, qs[i])
    BY <1>1, <1>3
  <2>2. s[i] \in 0..11 /\ i \in 1..7
    BY <1>1
  <2>3. (r + s[i]) % 12 \in 0..11
    <3> DEFINE x == s[i]
    <3>1. x \in 0..11
      BY <2>2
    <3> HIDE DEF x
    <3>2. (r + x) % 12 \in 0..11
      BY <1>4, <3>1
    <3> QED BY <3>2 DEF x
  <2>4. cs[i].root_pc = (r + s[i]) % 12 /\ cs[i].quality = qs[i]
    BY <2>1 DEF Chord
  <2> QED BY <1>2, <2>2, <2>3, <2>4
<1> QED BY <1>1, <1>5, <1>6 DEF cs, r

(* find_degree finds a degree where there is one.                          *)
LEMMA DegreeFound ==
  ASSUME NEW key, NEW scale, NEW pc
  PROVE  LET cs == diatonic_chords(key, scale)
             d == find_degree(pc, key, scale)
         IN /\ d \in -1..6
            /\ d >= 0 => d + 1 \in 1..Len(cs) /\ cs[d + 1].root_pc = pc
            /\ (\E i \in 1..Len(cs) : cs[i].root_pc = pc) => d >= 0
<1> DEFINE cs == diatonic_chords(key, scale)
           I == {i \in 1..Len(cs) : cs[i].root_pc = pc}
           d == find_degree(pc, key, scale)
<1>1. Len(cs) \in 5..7
  BY DegreeChords
<1>2. d = (IF I # {} THEN Min(I) ELSE 0) - 1
  BY Zenon DEF find_degree, SelectInSeq
<1>3. I \subseteq 1..Len(cs) /\ I \subseteq Nat
  BY <1>1
<1> HIDE DEF d
<1>4. CASE I = {}
  <2>1. d = -1
    BY <1>2, <1>4
  <2>2. ~\E i \in 1..Len(cs) : cs[i].root_pc = pc
    BY <1>4
  <2> HIDE DEF cs, I
  <2> QED BY <2>1, <2>2 DEF d, cs
<1>5. CASE I # {}
  <2>1. Min(I) \in I
    BY <1>3, <1>5, MinOfNat
  <2>2. d = Min(I) - 1
    BY <1>2, <1>5
  <2>3. Min(I) \in 1..Len(cs) /\ cs[Min(I)].root_pc = pc
    BY <2>1
  <2> HIDE DEF I, cs
  <2>4. d + 1 = Min(I)
    BY <1>1, <2>2, <2>3
  <2>5. d \in 0..6
    BY <1>1, <2>2, <2>3
  <2> QED BY <2>3, <2>4, <2>5 DEF d, cs
<1> QED BY <1>4, <1>5 DEF d

-----------------------------------------------------------------------------
(* What a chord may become, as the property has it.                        *)
Tonic == parse_root_pc(call.key)
II == Diatonics[2].root_pc
V == Diatonics[5].root_pc
Substitute == IF V = (Tonic + 7) % 12 THEN (V + 6) % 12 ELSE (Tonic + 1) % 12
Stands(new, old) ==
  \/ new = old
  \/ call.style = "jazz" /\ new = (II + 7) % 12
  \/ call.style = "jazz" /\ old = V /\ new = Substitute
Leads(new, next) ==
  \/ call.style = "jazz" /\ new = II
  \/ call.style = "chromatic" /\ (new - next) % 12 \in {1, 11}

(* Names that take the place of chord i: one that stands for it, and       *)
(* before it one at most that leads to it.                                 *)
Answers(names, i) ==
  /\ names \in Seq(kSymbols) /\ Len(names) \in {1, 2}
  /\ Stands(RootNamed(names[Len(names)]), Original(i).root_pc)
  /\ Len(names) = 2 => Leads(RootNamed(names[1]), RootNamed(names[2]))

LEMMA CallFacts ==
  ASSUME call \in ReharmonizeCalls
  PROVE  /\ call.engine = "reharmonize"
         /\ call.style \in {"simple", "jazz", "modal", "chromatic", "pedal"}
         /\ call.chords \in Seq(kSymbols) /\ call.bars \in Int
BY DEF ReharmonizeCalls, ChordSymbols, kSymbols

LEMMA OriginalRead ==
  ASSUME call \in ReharmonizeCalls, NEW i \in 1..Len(call.chords)
  PROVE  Original(i).root_pc \in 0..11 /\ Original(i).quality \in kQualities
<1> DEFINE name == call.chords[i]
<1>1. name \in kSymbols
  BY CallFacts
<1>2. Original(i) = parse_chord_name(name)
  BY DEF Original
<1> HIDE DEF name
<1> QED BY <1>1, <1>2, NameRead DEF RootNamed

(* The degrees the jazz style is about.                                    *)
LEMMA JazzDegrees ==
  /\ Tonic \in 0..11 /\ II \in 0..11 /\ V \in 0..11
  /\ Substitute = (Tonic + 1) % 12 /\ Substitute \in 0..11
  /\ Len(Diatonics) \in 5..7
  /\ Len(Diatonics) >= 6 => Diatonics[6].root_pc # II
<1>1. Tonic \in 0..11
  BY RootInOctave DEF Tonic
<1>2. Len(Diatonics) \in 5..7 /\ \A i \in 1..Len(Diatonics) : Diatonics[i].root_pc \in 0..11
  BY DegreeChords DEF Diatonics
<1>3. II \in 0..11 /\ V \in 0..11
  BY <1>2 DEF II, V
<1>4. Substitute = (Tonic + 1) % 12 /\ Substitute \in 0..11
  BY <1>1, <1>3 DEF Substitute
<1>5. ASSUME Len(Diatonics) >= 6 PROVE Diatonics[6].root_pc # II
  <2>1. PICK base \in DOMAIN kScales :
          /\ Len(Diatonics) = Len(kScales[base])
          /\ \A i \in 1..Len(Diatonics) :
               Diatonics[i].root_pc = (Tonic + kScales[base][i]) % 12
    <3> DEFINE Degrees(cs) ==
                 \E base \in DOMAIN kScales :
                   /\ Len(cs) = Len(kScales[base])
                   /\ \A i \in 1..Len(cs) :
                        cs[i].root_pc = (parse_root_pc(call.key) + kScales[base][i]) % 12
    <3>1. Degrees(diatonic_chords(call.key, call.scale))
      BY DegreeChords
    <3> QED BY <3>1, Zenon DEF Diatonics, Tonic
  <2> DEFINE x == kScales[base][2]
             y == kScales[base][6]
             six == Diatonics[6].root_pc
  <2>2. x \in 1..3 /\ y \in 8..10
    BY <1>5, <2>1, SixthIsNotSecond
  <2>3. 2 \in 1..Len(Diatonics) /\ 6 \in 1..Len(Diatonics)
    BY <1>2, <1>5
  <2>4. II = (Tonic + x) % 12 /\ six = (Tonic + y) % 12
    BY <2>1, <2>3, Zenon DEF II
  <2> HIDE DEF x, y, six
  <2>5. six # II
    BY <1>1, <2>2, <2>4
  <2> QED BY <2>5 DEF six
<1> QED BY <1>1, <1>2, <1>3, <1>4, <1>5

(* One chord on the same root answers.                                     *)
LEMMA SameRootAnswers ==
  ASSUME NEW i, Original(i).root_pc \in 0..11, NEW q \in kQualities
  PROVE  Answers(<<chord_name(Original(i).root_pc, q)>>, i)
<1> DEFINE name == chord_name(Original(i).root_pc, q)
           names == <<name>>
<1>1. name \in kSymbols /\ RootNamed(name) = Original(i).root_pc
  BY NameWritten
<1> HIDE DEF name
<1>2. names \in Seq(kSymbols) /\ Len(names) = 1 /\ names[1] = name
  BY <1>1
<1>3. names[Len(names)] = name
  BY <1>2
<1>4. Stands(RootNamed(names[Len(names)]), Original(i).root_pc)
  BY <1>1, <1>3 DEF Stands
<1> HIDE DEF names
<1>5. Answers(names, i)
  BY <1>2, <1>4 DEF Answers
<1> QED BY <1>5 DEF names, name

(* Two chords answer if the first leads and the second stands.             *)
LEMMA TwoChordsAnswer ==
  ASSUME NEW i, NEW names \in Seq(kSymbols), Len(names) = 2,
         Leads(RootNamed(names[1]), RootNamed(names[2])),
         Stands(RootNamed(names[2]), Original(i).root_pc)
  PROVE  Answers(names, i)
BY DEF Answers

LEMMA SimpleAnswers ==
  ASSUME call \in ReharmonizeCalls, NEW i \in 1..Len(call.chords), NEW names \in simple_reharm(i)
  PROVE  Answers(names, i)
<1> DEFINE c == Original(i)
           opts == <<{"maj", "maj7"}, {"min", "m7"}, {"min", "m7"}, {"maj", "maj7"},
                     {"7", "maj7"}, {"min", "m7"}, {"dim", "m7b5"}>>
           d == Degree(c.root_pc)
           Q == IF d >= 0 THEN opts[d + 1] ELSE {c.quality}
<1>1. simple_reharm(i) = {<<chord_name(c.root_pc, q)>> : q \in Q}
  BY Zenon DEF simple_reharm
<1>2. d \in -1..6
  BY DegreeFound DEF Degree
<1>3. \A k \in 1..7 : opts[k] \subseteq kQualities
  <2> DEFINE A == {"maj", "maj7"}
             B == {"min", "m7"}
             C == {"7", "maj7"}
             D == {"dim", "m7b5"}
  <2>1. A \subseteq kQualities /\ B \subseteq kQualities /\ C \subseteq kQualities
        /\ D \subseteq kQualities
    BY DEF kQualities, kSuffixes
  <2>2. opts = <<A, B, B, A, C, B, D>>
    OBVIOUS
  <2> HIDE DEF A, B, C, D, opts
  <2>3. \A k \in 1..7 : opts[k] \in {A, B, C, D}
    BY <2>2
  <2> QED BY <2>1, <2>3
<1> HIDE DEF opts, d
<1>4. Q \subseteq kQualities
  BY <1>2, <1>3, OriginalRead
<1> HIDE DEF Q
<1>5. PICK q \in Q : names = <<chord_name(c.root_pc, q)>>
  BY <1>1
<1> QED BY <1>4, <1>5, OriginalRead, SameRootAnswers

LEMMA ModalAnswers ==
  ASSUME call \in ReharmonizeCalls, NEW i \in 1..Len(call.chords), NEW names \in modal_reharm(i)
  PROVE  Answers(names, i)
<1> DEFINE c == Original(i)
           found == SelectInSeq(kModes, LAMBDA m : m = call.scale)
           mode == IF found = 0 THEN 0 ELSE found - 1
           d == Degree(c.root_pc)
           q == IF d >= 0 THEN kMajorRow[((mode + d) % 7) + 1] ELSE c.quality
           I == {k \in 1..Len(kModes) : kModes[k] = call.scale}
<1>1. modal_reharm(i) = {<<chord_name(c.root_pc, q)>>}
  BY Zenon DEF modal_reharm
<1>2. d \in -1..6
  BY DegreeFound DEF Degree
<1>3. mode \in Nat
  <2>1. found = IF I # {} THEN Min(I) ELSE 0
    BY Zenon DEF SelectInSeq
  <2>2. I \subseteq Nat \ {0}
    BY DEF kModes
  <2> HIDE DEF I, found
  <2>3. I # {} => Min(I) \in I
    BY <2>2, MinOfNat
  <2>4. I # {} => Min(I) \in Nat \ {0}
    BY <2>2, <2>3
  <2>5. found \in Nat
    BY <2>1, <2>4
  <2> QED BY <2>5
<1>4. \A k \in 0..6 : kMajorRow[k + 1] \in kQualities
  <2>1. {"maj", "min", "dim"} \subseteq kQualities
    BY DEF kQualities, kSuffixes
  <2>2. \A k \in 0..6 : kMajorRow[k + 1] \in {"maj", "min", "dim"}
    BY DEF kMajorRow
  <2> QED BY <2>1, <2>2
<1> HIDE DEF mode, d
<1>5. q \in kQualities
  <2>1. CASE d >= 0
    <3>1. (mode + d) % 7 \in 0..6
      BY <1>2, <1>3, <2>1
    <3>2. kMajorRow[((mode + d) % 7) + 1] \in kQualities
      BY <1>4, <3>1
    <3> QED BY <2>1, <3>2
  <2>2. CASE ~(d >= 0)
    BY <2>2, OriginalRead
  <2> QED BY <2>1, <2>2
<1> HIDE DEF q
<1> QED BY <1>1, <1>5, OriginalRead, SameRootAnswers

(* The note above the tonic stands for the chord on the fifth degree.      *)
LEMMA JazzAnswers ==
  ASSUME call \in ReharmonizeCalls, call.style = "jazz",
         NEW i \in 1..Len(call.chords), NEW names \in jazz_reharm(i)
  PROVE  Answers(names, i)
<1> DEFINE c == Original(i)
           d == Degree(c.root_pc)
           next_is_target == /\ i < Len(call.chords)
                             /\ \E t \in {1, 6} \cap DOMAIN Diatonics :
                                  Diatonics[t].root_pc = Original(i + 1).root_pc
           jz_quality == CASE c.quality = "maj" -> IF d = 4 THEN "7" ELSE "maj7"
                           [] c.quality = "min" -> "m7"
                           [] c.quality = "dim" -> "m7b5"
                           [] OTHER -> c.quality
           r == parse_root_pc(call.key)
           pcs == {(r + 1) % 12, c.root_pc}
           ii == Diatonics[2].root_pc
<1>1. jazz_reharm(i) = IF d = 4 /\ next_is_target
                       THEN {<<chord_name(ii, "m7"), chord_name(pc, "7")>> : pc \in pcs}
                       ELSE {<<chord_name(c.root_pc, jz_quality)>>}
  BY Zenon DEF jazz_reharm
<1>2. jz_quality \in kQualities
  <2>1. {"7", "maj7", "m7", "m7b5"} \subseteq kQualities
    BY DEF kQualities, kSuffixes
  <2>2. c.quality \in kQualities
    BY OriginalRead
  <2> HIDE DEF c, d
  <2> QED BY <2>1, <2>2
<1>3. r \in 0..11 /\ c.root_pc \in 0..11
  BY RootInOctave, OriginalRead
<1>4. ii = II /\ r = Tonic
  BY DEF II, Tonic
<1>5. d = 4 => c.root_pc = V
  <2>1. d = 4 => d + 1 = 5
    OBVIOUS
  <2> QED BY <2>1, DegreeFound DEF Degree, Diatonics, V
<1> HIDE DEF d, ii, r, jz_quality, next_is_target
<1>6. CASE d = 4 /\ next_is_target
  <2>1. PICK pc \in pcs : names = <<chord_name(ii, "m7"), chord_name(pc, "7")>>
    BY <1>1, <1>6
  <2>2. pc \in 0..11 /\ (pc = c.root_pc \/ pc = Substitute)
    <3>1. pc = (r + 1) % 12 \/ pc = c.root_pc
      OBVIOUS
    <3>2. (r + 1) % 12 = Substitute /\ Substitute \in 0..11
      BY <1>4, JazzDegrees
    <3> QED BY <1>3, <3>1, <3>2
  <2>3. Leads(ii, pc) /\ Stands(pc, c.root_pc)
    BY <1>4, <1>5, <1>6, <2>2 DEF Leads, Stands
  <2>4. "m7" \in kQualities /\ "7" \in kQualities
    BY DEF kQualities, kSuffixes
  <2> DEFINE first == chord_name(ii, "m7")
             last == chord_name(pc, "7")
  <2>5. first \in kSymbols /\ RootNamed(first) = ii /\ last \in kSymbols /\ RootNamed(last) = pc
    BY <1>4, <2>2, <2>4, JazzDegrees, NameWritten
  <2>6. names = <<first, last>>
    BY <2>1
  <2> HIDE DEF first, last
  <2>7. names \in Seq(kSymbols) /\ Len(names) = 2 /\ names[1] = first /\ names[2] = last
    BY <2>5, <2>6
  <2> QED BY <2>3, <2>5, <2>7, TwoChordsAnswer
<1>7. CASE ~(d = 4 /\ next_is_target)
  <2>1. names = <<chord_name(c.root_pc, jz_quality)>>
    BY <1>1, <1>7
  <2> QED BY <1>2, <1>3, <2>1, SameRootAnswers
<1> QED BY <1>6, <1>7

LEMMA PairJoined ==
  ASSUME NEW x \in kSymbols, NEW y \in kSymbols
  PROVE  LET t == <<x>> \o <<y>>
         IN t \in Seq(kSymbols) /\ Len(t) = 2 /\ t[1] = x /\ t[2] = y
OBVIOUS

LEMMA ChromaticAnswers ==
  ASSUME call \in ReharmonizeCalls, call.style = "chromatic",
         NEW i \in 1..Len(call.chords), NEW names \in chromatic_reharm(i)
  PROVE  Answers(names, i)
<1> DEFINE c == Original(i)
           before == {<<>>} \cup (IF i = 1 THEN {} ELSE
                       {<<chord_name((c.root_pc + dir + 12) % 12, q)>> :
                          dir \in {1, -1}, q \in {"dim", "7"}})
           colours == CASE Degree(c.root_pc) = 4 /\ i > 1 -> {"7", "dim7"}
                        [] OTHER ->
                           CASE c.quality = "maj" -> {"maj", "maj7", "aug"}
                             [] c.quality = "min" -> {"min", "m7", "dim"}
                             [] c.quality = "dim" -> {"dim", "dim7"}
                             [] OTHER -> {c.quality}
<1>1. chromatic_reharm(i) = {b \o <<chord_name(c.root_pc, q)>> : b \in before, q \in colours}
  BY DEF chromatic_reharm
<1>2. c.root_pc \in 0..11 /\ c.quality \in kQualities
  BY OriginalRead
<1>3. colours \subseteq kQualities
  <2>1. {"7", "dim7", "maj", "maj7", "aug", "min", "m7", "dim"} \subseteq kQualities
    BY DEF kQualities, kSuffixes
  <2> HIDE DEF c
  <2> QED BY <1>2, <2>1
<1> HIDE DEF colours, c
<1>4. PICK b \in before, q \in colours : names = b \o <<chord_name(c.root_pc, q)>>
  <2> HIDE DEF before
  <2> QED BY <1>1
<1> DEFINE last == chord_name(c.root_pc, q)
<1>5. CASE b = <<>>
  <2>1. q \in kQualities /\ last \in kSymbols
    BY <1>2, <1>3, NameWritten
  <2> HIDE DEF last
  <2>2. names = <<last>>
    BY <1>4, <1>5, <2>1 DEF last
  <2> QED BY <1>2, <2>1, <2>2, SameRootAnswers DEF c, last
<1>6. CASE b # <<>>
  <2>1. PICK dir \in {1, -1}, q1 \in {"dim", "7"} :
          b = <<chord_name((c.root_pc + dir + 12) % 12, q1)>>
    BY <1>4, <1>6
  <2> DEFINE p == (c.root_pc + dir + 12) % 12
             first == chord_name(p, q1)
  <2>2. p \in 0..11 /\ (p - c.root_pc) % 12 \in {1, 11}
    <3> DEFINE o == c.root_pc
    <3>1. o \in 0..11
      BY <1>2
    <3> HIDE DEF o
    <3>2. (o + dir + 12) % 12 \in 0..11 /\ (((o + dir + 12) % 12) - o) % 12 \in {1, 11}
      BY <3>1
    <3> QED BY <3>2 DEF o
  <2>3. q \in kQualities /\ q1 \in kQualities
    <3>1. {"dim", "7"} \subseteq kQualities
      BY DEF kQualities, kSuffixes
    <3> QED BY <1>3, <2>1, <3>1
  <2>4. Leads(p, c.root_pc) /\ Stands(c.root_pc, c.root_pc)
    BY <2>2 DEF Leads, Stands
  <2> HIDE DEF p
  <2>5. first \in kSymbols /\ RootNamed(first) = p /\ last \in kSymbols /\ RootNamed(last) = c.root_pc
    BY ONLY <1>2, <1>3, <2>2, <2>3, NameWritten, SMTT(40)
  <2> HIDE DEF first, last
  <2>6. names = <<first>> \o <<last>>
    BY <1>4, <2>1 DEF first, last, p
  <2>7. names \in Seq(kSymbols) /\ Len(names) = 2 /\ names[1] = first /\ names[2] = last
    BY <2>5, <2>6, PairJoined
  <2>8. RootNamed(names[1]) = p /\ RootNamed(names[2]) = Original(i).root_pc
    <3>1. RootNamed(names[1]) = p /\ RootNamed(names[2]) = c.root_pc
      BY <2>5, <2>7
    <3> QED BY <3>1 DEF c
  <2>9. Leads(p, Original(i).root_pc) /\ Stands(Original(i).root_pc, Original(i).root_pc)
    BY <2>4 DEF c
  <2> QED BY <2>7, <2>8, <2>9, TwoChordsAnswer
<1> QED BY <1>5, <1>6

(* Of the pedal style every chord has the root of a degree.                *)
LEMMA PedalAnswers ==
  ASSUME call \in ReharmonizeCalls, NEW i, NEW names \in pedal_reharm(i)
  PROVE  /\ names \in Seq(kSymbols) /\ Len(names) = 1
         /\ find_degree(RootNamed(names[1]), call.key, call.scale) >= 0
<1>1. /\ DOMAIN Diatonics = 1..Len(Diatonics)
      /\ \A k \in 1..Len(Diatonics) :
           Diatonics[k].root_pc \in 0..11 /\ Diatonics[k].quality \in kQualities
  BY DegreeChords DEF Diatonics
<1>2. PICK k \in 1..Len(Diatonics), q \in kQualities :
        names = <<chord_name(Diatonics[k].root_pc, q)>>
  <2>1. {"7", "maj7", "m7"} \subseteq kQualities
    BY DEF kQualities, kSuffixes
  <2>2. \/ \E c \in Range(Diatonics), q \in {"7", "maj7", "m7"} : names = <<chord_name(c.root_pc, q)>>
        \/ \E c \in Range(Diatonics) : names = <<chord_name(c.root_pc, c.quality)>>
    BY DEF pedal_reharm
  <2>3. ASSUME NEW c \in Range(Diatonics)
        PROVE  \E k \in 1..Len(Diatonics) : c = Diatonics[k]
    BY <1>1 DEF Range
  <2> QED BY <1>1, <2>1, <2>2, <2>3
<1> DEFINE p == Diatonics[k].root_pc
           name == chord_name(p, q)
<1>3. p \in 0..11
  BY <1>1
<1>4. name \in kSymbols /\ RootNamed(name) = p
  BY <1>3, NameWritten
<1>5. find_degree(p, call.key, call.scale) >= 0
  BY DegreeFound DEF Diatonics
<1> HIDE DEF name, p
<1>6. names = <<name>>
  BY <1>2 DEF name, p
<1> QED BY <1>4, <1>5, <1>6

-----------------------------------------------------------------------------
(* The new progression after k chords of the old one: an embedding f of    *)
(* those, the last on the last.                                            *)
Before(f, i) == IF i = 1 THEN 0 ELSE f[i - 1]
Placed(f, names, i) ==
  /\ Stands(RootNamed(names[f[i]]), Original(i).root_pc)
  /\ Before(f, i) < f[i] /\ f[i] - Before(f, i) <= 2
  /\ f[i] - Before(f, i) = 2 => Leads(RootNamed(names[f[i] - 1]), RootNamed(names[f[i]]))
Embeds(f, names, k) ==
  /\ f \in [1..k -> 1..Len(names)]
  /\ Len(names) = IF k = 0 THEN 0 ELSE f[k]
  /\ \A i \in 1..k : Placed(f, names, i)
Rebuilt(names, k) == \E f : Embeds(f, names, k)

LEMMA OneMoreChord ==
  ASSUME NEW names \in Seq(kSymbols), NEW k \in Nat, Rebuilt(names, k),
         NEW new, Answers(new, k + 1)
  PROVE  names \o new \in Seq(kSymbols) /\ Rebuilt(names \o new, k + 1)
<1> DEFINE m == Len(names)
           l == Len(new)
           all == names \o new
<1>1. PICK f : Embeds(f, names, k)
  BY DEF Rebuilt
<1>2. f \in [1..k -> 1..m] /\ m = (IF k = 0 THEN 0 ELSE f[k]) /\ m \in Nat
  BY <1>1 DEF Embeds
<1>3. new \in Seq(kSymbols) /\ l \in {1, 2}
  BY DEF Answers
<1>4. /\ all \in Seq(kSymbols) /\ Len(all) = m + l
      /\ \A i \in 1..m : all[i] = names[i]
      /\ \A i \in 1..l : all[m + i] = new[i]
  BY <1>3
<1> DEFINE g == [i \in 1..(k + 1) |-> IF i = k + 1 THEN m + l ELSE f[i]]
<1> HIDE DEF m, l, all
<1>5. g \in [1..(k + 1) -> 1..(m + l)]
  BY <1>2, <1>3
<1>6. g[k + 1] = m + l /\ \A i \in 1..k : g[i] = f[i] /\ g[i] \in 1..m
  BY <1>2
<1> HIDE DEF g
<1>7. ASSUME NEW i \in 1..k PROVE Placed(g, all, i)
  <2>1. Placed(f, names, i)
    BY <1>1 DEF Embeds
  <2>2. f[i] \in 1..m /\ all[f[i]] = names[f[i]] /\ g[i] = f[i]
    BY <1>2, <1>4, <1>6
  <2>3. Before(f, i) \in 0..m /\ Before(g, i) = Before(f, i)
    BY <1>2, <1>6 DEF Before
  <2>4. f[i] - Before(f, i) = 2 => all[f[i] - 1] = names[f[i] - 1]
    <3>1. f[i] - Before(f, i) = 2 => f[i] - 1 \in 1..m
      BY <1>2, <2>2, <2>3
    <3> QED BY <1>4, <3>1
  <2> QED BY <2>1, <2>2, <2>3, <2>4 DEF Placed
<1>8. Placed(g, all, k + 1)
  <2>1. Before(g, k + 1) = m
    BY <1>2, <1>6 DEF Before
  <2>2. all[m + l] = new[l]
    BY <1>3, <1>4
  <2>3. l = 2 => all[m + l - 1] = new[1]
    BY <1>2, <1>4
  <2>4. Stands(RootNamed(new[l]), Original(k + 1).root_pc)
        /\ (l = 2 => Leads(RootNamed(new[1]), RootNamed(new[2])))
    BY DEF Answers, l
  <2>5. g[k + 1] - Before(g, k + 1) = l /\ Before(g, k + 1) < g[k + 1]
    BY <1>2, <1>3, <1>6, <2>1
  <2>6. Stands(RootNamed(all[g[k + 1]]), Original(k + 1).root_pc)
    BY <1>6, <2>2, <2>4
  <2>7. ASSUME g[k + 1] - Before(g, k + 1) = 2
        PROVE  Leads(RootNamed(all[g[k + 1] - 1]), RootNamed(all[g[k + 1]]))
    <3>1. l = 2
      BY <2>5, <2>7
    <3>2. all[g[k + 1]] = new[2] /\ all[g[k + 1] - 1] = new[1]
      BY <1>2, <1>6, <2>2, <2>3, <3>1
    <3>3. Leads(RootNamed(new[1]), RootNamed(new[2]))
      BY <2>4, <3>1
    <3> QED BY <3>2, <3>3, Zenon
  <2>8. Before(g, k + 1) < g[k + 1] /\ g[k + 1] - Before(g, k + 1) <= 2
    BY <1>3, <2>5
  <2> QED BY <2>6, <2>7, <2>8 DEF Placed
<1>9. Embeds(g, all, k + 1)
  <2>1. \A i \in 1..(k + 1) : Placed(g, all, i)
    BY <1>7, <1>8
  <2> QED BY <1>4, <1>5, <1>6, <2>1 DEF Embeds
<1> QED BY <1>4, <1>9 DEF Rebuilt, all

(* Chords that stay as they are.                                           *)
LEMMA KeptIsRebuilt ==
  ASSUME call \in ReharmonizeCalls
  PROVE  Rebuilt(call.chords, Len(call.chords))
<1> DEFINE n == Len(call.chords)
           f == [i \in 1..n |-> i]
<1>1. n \in Nat
  BY CallFacts
<1>2. ASSUME NEW i \in 1..n PROVE Placed(f, call.chords, i)
  <2>1. f[i] = i /\ Before(f, i) = i - 1
    BY <1>1 DEF Before
  <2>2. RootNamed(call.chords[i]) = Original(i).root_pc
    BY DEF RootNamed, Original
  <2> HIDE DEF f, n
  <2>3. i \in Int
    BY <1>1
  <2>4. f[i] - Before(f, i) = 1 /\ Before(f, i) < f[i]
    BY <2>1, <2>3
  <2> QED BY <2>1, <2>2, <2>4 DEF Placed, Stands
<1>3. f \in [1..n -> 1..n] /\ n = (IF n = 0 THEN 0 ELSE f[n])
  BY <1>1
<1> HIDE DEF f
<1>4. Embeds(f, call.chords, n)
  BY <1>2, <1>3 DEF Embeds
<1> QED BY <1>4 DEF Rebuilt

(* The turnaround of the jazz style: the dominant of ii may stand for any  *)
(* chord, and it takes the place of no ii that leads to a chord.           *)
LEMMA TurnaroundKeeps ==
  ASSUME call \in ReharmonizeCalls, call.style = "jazz",
         NEW names \in Seq(kSymbols), NEW k \in Nat, Rebuilt(names, k)
  PROVE  Turnaround(names) \in Seq(kSymbols) /\ Rebuilt(Turnaround(names), k)
<1> DEFINE D(n) == Diatonics[n].root_pc
           Root(j) == parse_chord_name(names[j]).root_pc
           IsTurn(j) == /\ Root(j) = parse_root_pc(call.key) /\ Root(j + 1) = D(6)
                        /\ Root(j + 2) = D(2) /\ Root(j + 3) = D(5)
           Turns(j) == Len(Diatonics) >= 6 /\ j > 1 /\ j + 2 <= Len(names) /\ IsTurn(j - 1)
           VI == chord_name((D(2) + 7) % 12, "7")
           t == Turnaround(names)
           m == Len(names)
<1>1. t = [j \in DOMAIN names |-> IF Turns(j) THEN VI ELSE names[j]]
  BY Zenon DEF Turnaround
<1>2. D(2) = II /\ II \in 0..11 /\ (Len(Diatonics) >= 6 => D(6) # II)
  BY JazzDegrees DEF II
<1>3. VI \in kSymbols /\ RootNamed(VI) = (II + 7) % 12
  <2>1. (II + 7) % 12 \in 0..11
    BY <1>2
  <2>2. "7" \in kQualities
    BY DEF kQualities, kSuffixes
  <2>3. chord_name((II + 7) % 12, "7") \in kSymbols
        /\ RootNamed(chord_name((II + 7) % 12, "7")) = (II + 7) % 12
    BY <2>1, <2>2, NameWritten
  <2> QED BY <1>2, <2>3
<1>4. ASSUME NEW j \in 1..m, Turns(j) PROVE RootNamed(names[j]) # II
  <2>1. Root((j - 1) + 1) = D(6)
    BY <1>4
  <2>2. (j - 1) + 1 = j
    BY <1>4
  <2>3. RootNamed(names[j]) = D(6)
    BY <2>1, <2>2 DEF RootNamed
  <2>4. Len(Diatonics) >= 6
    BY <1>4
  <2> QED BY <1>2, <2>3, <2>4
<1> HIDE DEF VI, Turns, t
<1>5. /\ t \in Seq(kSymbols) /\ Len(t) = m
      /\ \A j \in 1..m : \/ RootNamed(t[j]) = RootNamed(names[j])
                         \/ RootNamed(t[j]) = (II + 7) % 12 /\ RootNamed(names[j]) # II
  <2>1. DOMAIN names = 1..m /\ m \in Nat /\ \A j \in 1..m : names[j] \in kSymbols
    OBVIOUS
  <2> HIDE DEF m
  <2>2. t \in [1..m -> kSymbols]
    BY <1>1, <1>3, <2>1
  <2>3. t \in Seq(kSymbols) /\ Len(t) = m
    BY <2>1, <2>2
  <2>4. ASSUME NEW j \in 1..m
        PROVE  \/ RootNamed(t[j]) = RootNamed(names[j])
               \/ RootNamed(t[j]) = (II + 7) % 12 /\ RootNamed(names[j]) # II
    <3>1. t[j] = IF Turns(j) THEN VI ELSE names[j]
      BY <1>1, <2>1
    <3>2. CASE Turns(j)
      BY <1>3, <1>4, <3>1, <3>2
    <3>3. CASE ~Turns(j)
      BY <3>1, <3>3
    <3> QED BY <3>2, <3>3
  <2> QED BY <2>3, <2>4
<1>6. PICK f : Embeds(f, names, k)
  BY DEF Rebuilt
<1>7. f \in [1..k -> 1..m] /\ m \in Nat
  BY <1>6 DEF Embeds
<1> HIDE DEF m
<1>8. ASSUME NEW i \in 1..k PROVE Placed(f, t, i)
  <2>1. Placed(f, names, i)
    BY <1>6 DEF Embeds
  <2>2. f[i] \in 1..m /\ Before(f, i) \in 0..m
    BY <1>7 DEF Before
  <2>3. Stands(RootNamed(t[f[i]]), Original(i).root_pc)
    BY <1>5, <2>1, <2>2 DEF Placed, Stands
  <2>4. ASSUME f[i] - Before(f, i) = 2
        PROVE  Leads(RootNamed(t[f[i] - 1]), RootNamed(t[f[i]]))
    <3>1. f[i] - 1 \in 1..m
      BY <1>7, <2>2, <2>4
    <3>2. Leads(RootNamed(names[f[i] - 1]), RootNamed(names[f[i]]))
      BY <2>1, <2>4 DEF Placed
    <3>3. RootNamed(names[f[i] - 1]) = II
      BY <3>2 DEF Leads
    <3>4. RootNamed(t[f[i] - 1]) = II
      BY <1>5, <3>1, <3>3
    <3> QED BY <3>4 DEF Leads
  <2> QED BY <2>1, <2>3, <2>4 DEF Placed
<1>9. Embeds(f, t, k)
  BY <1>5, <1>6, <1>8 DEF Embeds, m
<1> QED BY <1>5, <1>9 DEF Rebuilt, t

-----------------------------------------------------------------------------
(* The voicings of n chords.                                               *)
TicksPerChord(n, bars) == kTicksPerBar * Max({1, bars \div Max({1, n})})

Voiced(chords, names, bars) ==
  /\ chords \in Seq([root_pc : Int, quality : kQualities, start : Int, length : Int,
                     pcs : SUBSET Int])
  /\ Len(chords) = Len(names)
  /\ \A i \in 1..Len(names) :
       /\ chords[i].root_pc = RootNamed(names[i])
       /\ chords[i].start = (i - 1) * TicksPerChord(Len(names), bars)
       /\ chords[i].length = TicksPerChord(Len(names), bars)

LEMMA MaxWithOne ==
  ASSUME NEW b \in Int
  PROVE  Max({1, b}) = IF b >= 1 THEN b ELSE 1
<1>1. \A x \in {1, b} : (\A y \in {1, b} : x >= y) <=> x = IF b >= 1 THEN b ELSE 1
  OBVIOUS
<1>2. (IF b >= 1 THEN b ELSE 1) \in {1, b}
  OBVIOUS
<1> QED BY <1>1, <1>2 DEF Max

LEMMA ChordsAreVoiced ==
  ASSUME NEW names \in Seq(kSymbols), NEW bars \in Int
  PROVE  Voiced(generate_voicings(names, bars), names, bars)
<1> DEFINE n == Len(names)
           t == TicksPerChord(n, bars)
           C(i) == parse_chord_name(names[i])
           P(i) == {(C(i).root_pc + o) % 12 : o \in Range(offsets_for(C(i).quality))}
           v == generate_voicings(names, bars)
           one(i) == [root_pc |-> C(i).root_pc, quality |-> C(i).quality,
                      start |-> (i - 1) * t, length |-> t, pcs |-> P(i)]
<1>1. v = [i \in DOMAIN names |-> one(i)]
  BY Zenon DEF generate_voicings, TicksPerChord
<1>2. n \in Nat /\ DOMAIN names = 1..n
  OBVIOUS
<1>3. t \in Int
  <2>1. Max({1, n}) \in Nat \ {0}
    <3> HIDE DEF n
    <3>1. n \in Int
      BY <1>2
    <3>2. Max({1, n}) = IF n >= 1 THEN n ELSE 1
      BY <3>1, MaxWithOne
    <3> QED BY <3>1, <3>2
  <2>2. Max({1, bars \div Max({1, n})}) \in Int
    <3> DEFINE k == Max({1, n})
    <3> HIDE DEF k
    <3>1. bars \div k \in Int
      BY <2>1 DEF k
    <3> DEFINE j == bars \div k
    <3> HIDE DEF j
    <3>2. Max({1, j}) = IF j >= 1 THEN j ELSE 1
      BY <3>1, MaxWithOne DEF j
    <3> QED BY <3>1, <3>2 DEF j, k
  <2> HIDE DEF n
  <2> QED BY <2>2 DEF TicksPerChord, kTicksPerBar, kPpq
<1>4. ASSUME NEW i \in 1..n
      PROVE  one(i) \in [root_pc : Int, quality : kQualities, start : Int, length : Int,
                         pcs : SUBSET Int]
  <2>1. names[i] \in kSymbols
    OBVIOUS
  <2>2. C(i).root_pc \in 0..11 /\ C(i).quality \in kQualities
    BY <2>1, NameRead DEF RootNamed
  <2>3. P(i) \subseteq Int
    <3>1. \A o \in Range(offsets_for(C(i).quality)) : o \in Int
      <4> DEFINE q == C(i).quality
      <4> HIDE DEF q
      <4>1. \A o \in Range(offsets_for(q)) : o \in Int
        BY DEF offsets_for, Range
      <4> QED BY <4>1 DEF q
    <3> DEFINE R == Range(offsets_for(C(i).quality))
               c == C(i).root_pc
    <3> HIDE DEF R, c
    <3>2. \A o \in R : (c + o) % 12 \in Int
      BY <2>2, <3>1, SMTT(40) DEF c, R
    <3> QED BY <3>2 DEF c, R
  <2>4. (i - 1) * t \in Int
    <3> HIDE DEF t
    <3> QED BY <1>2, <1>3
  <2> HIDE DEF C, P, t
  <2> QED BY <1>3, <2>2, <2>3, <2>4
<1> HIDE DEF n, t, C, P, v
<1>5. /\ v \in Seq([root_pc : Int, quality : kQualities, start : Int, length : Int,
                    pcs : SUBSET Int])
      /\ Len(v) = n
  <2> DEFINE S == [root_pc : Int, quality : kQualities, start : Int, length : Int,
                   pcs : SUBSET Int]
  <2>1. v \in [1..n -> S]
    BY <1>1, <1>2, <1>4
  <2> HIDE DEF S
  <2>2. v \in Seq(S) /\ Len(v) = n
    BY <1>2, <2>1
  <2> QED BY <2>2 DEF S
<1>6. ASSUME NEW i \in 1..n
      PROVE  /\ v[i].root_pc = C(i).root_pc
             /\ v[i].start = (i - 1) * t /\ v[i].length = t
  BY <1>1, <1>2
<1> QED BY <1>5, <1>6 DEF Voiced, RootNamed, C, n, t, v

(* Equal shares of whole bars.                                             *)
LEMMA SharesFit ==
  ASSUME NEW n \in Nat \ {0}, NEW bars \in Int
  PROVE  LET t == TicksPerChord(n, bars)
         IN /\ t \in Int
            /\ \A i \in Int : (i - 1) * t + t = ((i + 1) - 1) * t
            /\ n <= bars => n * t <= bars * kTicksPerBar /\ n * t > (bars - n) * kTicksPerBar
<1> DEFINE k == bars \div n
           h == IF k >= 1 THEN k ELSE 1
           t == TicksPerChord(n, bars)
<1>1. k \in Int /\ bars = n * k + (bars % n) /\ bars % n \in 0..(n - 1)
  OBVIOUS
<1> DEFINE e == bars % n
<1> HIDE DEF k, e
<1>2. Max({1, n}) = n
  BY MaxWithOne
<1>3. Max({1, k}) = h
  BY <1>1, MaxWithOne
<1>4. t = 1920 * h /\ h \in Int
  <2>1. TicksPerChord(n, bars) = kTicksPerBar * Max({1, bars \div n})
    BY <1>2, Zenon DEF TicksPerChord
  <2>2. t = kTicksPerBar * h
    BY <1>3, <2>1, Zenon DEF k
  <2>3. kTicksPerBar = 1920
    BY DEF kTicksPerBar, kPpq
  <2>4. h \in Int
    BY <1>1
  <2> HIDE DEF t, h
  <2> QED BY <2>2, <2>3, <2>4
<1> HIDE DEF t
<1>5. \A i \in Int : (i - 1) * t + t = ((i + 1) - 1) * t
  <2>1. t \in Int
    BY <1>4
  <2> QED BY <2>1
<1>6. ASSUME n <= bars
      PROVE  n * t <= bars * 1920 /\ n * t > (bars - n) * 1920
  <2>1. k >= 1
    <3>1. SUFFICES ASSUME k <= 0 PROVE FALSE
      BY <1>1
    <3>2. n * k <= 0
      BY <1>1, <3>1
    <3>3. bars <= e /\ e < n
      BY <1>1, <3>2 DEF e
    <3> QED BY <1>1, <1>6, <3>3 DEF e
  <2>2. h = k
    BY <2>1
  <2> HIDE DEF h
  <2> DEFINE a == n * k
  <2>3. n * t = 1920 * a /\ a \in Int
    BY <1>1, <1>4, <2>2
  <2>4. bars = a + e /\ e \in 0..(n - 1)
    BY <1>1 DEF e
  <2> HIDE DEF a
  <2>5. 1920 * a <= bars * 1920 /\ 1920 * a > (bars - n) * 1920
    BY <2>3, <2>4
  <2> QED BY <2>3, <2>5
<1> QED BY <1>4, <1>5, <1>6 DEF t, kTicksPerBar, kPpq

-----------------------------------------------------------------------------
(* The inductive invariant: what is rebuilt so far, and the property.      *)
Rebuilding == call.bars >= 1 /\ call.melody # <<>>
OnDegrees(names) ==
  \A j \in 1..Len(names) : find_degree(RootNamed(names[j]), call.key, call.scale) >= 0
Carried(names, k) ==
  IF call.style = "pedal" /\ Rebuilding THEN Len(names) = k /\ OnDegrees(names)
  ELSE Rebuilt(names, k)

ReharmonizeInv ==
  /\ call \in ReharmonizeCalls
  /\ step \in {"reharmonize", "voicings", "done"}
  /\ step # "done" => out \in Seq(kSymbols)
  /\ step = "reharmonize" => at \in 0..Len(call.chords) /\ Carried(out, at)
  /\ step = "voicings" => Carried(out, Len(call.chords))
  /\ step = "done" => \E names \in Seq(kSymbols) :
                        Carried(names, Len(call.chords)) /\ Voiced(out, names, call.bars)

(* The voicings of a progression that is rebuilt are what the property     *)
(* asks for.                                                               *)
LEMMA RecognisableWhenVoiced ==
  ASSUME call \in ReharmonizeCalls, NEW names \in Seq(kSymbols),
         Carried(names, Len(call.chords)), Voiced(out, names, call.bars)
  PROVE  ProgressionRecognisable
<1> DEFINE n == Len(call.chords)
           m == Len(out)
<1>1. n \in Nat /\ m \in Nat /\ m = Len(names)
      /\ \A j \in 1..m : out[j].root_pc = RootNamed(names[j])
  BY CallFacts, SMTT(40) DEF Voiced
<1>2. CASE call.style = "pedal" /\ Rebuilding
  <2>1. m = n /\ \A j \in 1..m : find_degree(out[j].root_pc, call.key, call.scale) >= 0
    <3>1. m = n
      BY <1>1, <1>2 DEF Carried
    <3>2. ASSUME NEW j \in 1..m PROVE find_degree(out[j].root_pc, call.key, call.scale) >= 0
      <4>1. find_degree(RootNamed(names[j]), call.key, call.scale) >= 0
        BY <1>1, <1>2 DEF Carried, OnDegrees
      <4> QED BY <1>1, <4>1
    <3> QED BY <3>1, <3>2
  <2> QED BY <1>2, <2>1 DEF ProgressionRecognisable, Rebuilding
<1>3. CASE ~(call.style = "pedal" /\ Rebuilding)
  <2>1. PICK f : Embeds(f, names, n)
    BY <1>3 DEF Carried, Rebuilt
  <2>2. f \in [1..n -> 1..m] /\ m = (IF n = 0 THEN 0 ELSE f[n])
        /\ \A i \in 1..n : Placed(f, names, i)
    BY <1>1, <2>1 DEF Embeds
  <2> HIDE DEF n, m
  <2>3. ASSUME NEW i \in 1..n
        PROVE  /\ Stands(out[f[i]].root_pc, Original(i).root_pc)
               /\ f[i] - Before(f, i) <= 2
               /\ Before(f, i) < f[i]
               /\ f[i] - Before(f, i) = 2 => Leads(out[f[i] - 1].root_pc, out[f[i]].root_pc)
    <3>1. f[i] \in 1..m /\ Before(f, i) \in 0..m /\ Placed(f, names, i)
      BY <1>1, <2>2 DEF Before
    <3>2. out[f[i]].root_pc = RootNamed(names[f[i]])
      BY <1>1, <3>1
    <3>3. f[i] - Before(f, i) = 2 => out[f[i] - 1].root_pc = RootNamed(names[f[i] - 1])
      <4>1. f[i] - Before(f, i) = 2 => f[i] - 1 \in 1..m
        BY <1>1, <3>1
      <4> QED BY <1>1, <4>1
    <3> QED BY <3>1, <3>2, <3>3 DEF Placed
  <2>4. f \in Embeddings(n, m)
    <3>1. ASSUME NEW i \in 1..(n - 1) PROVE f[i] < f[i + 1]
      <4>1. i + 1 \in 1..n /\ Before(f, i + 1) = f[i]
        BY <1>1 DEF Before
      <4> QED BY <2>3, <4>1
    <3> QED BY <2>2, <3>1 DEF Embeddings
  <2>5. n > 0 => f[1] <= 2 /\ f[n] = m
    <3>1. n > 0 => 1 \in 1..n /\ Before(f, 1) = 0
      BY <1>1 DEF Before
    <3>2. n > 0 => f[1] \in 1..m
      BY <2>2, <3>1
    <3> QED BY <1>1, <2>2, <2>3, <3>1, <3>2
  <2>6. \A i \in 1..n :
          LET prev == IF i = 1 THEN 0 ELSE f[i - 1]
          IN /\ Stands(out[f[i]].root_pc, Original(i).root_pc)
             /\ f[i] - prev <= 2
             /\ f[i] - prev = 2 => Leads(out[f[i] - 1].root_pc, out[f[i]].root_pc)
    BY <2>3, Zenon DEF Before
  <2> QED BY <1>3, <2>4, <2>5, <2>6, Zenon
         DEF ProgressionRecognisable, Stands, Leads, Tonic, II, V, Substitute, Rebuilding, n, m
<1> QED BY <1>2, <1>3

LEMMA BarsFilledWhenVoiced ==
  ASSUME call \in ReharmonizeCalls, NEW names \in Seq(kSymbols), Voiced(out, names, call.bars)
  PROVE  VoicingsFillTheBars
<1> DEFINE n == Len(out)
           t == TicksPerChord(n, call.bars)
<1>1. n \in Nat /\ DOMAIN out = 1..n /\ call.bars \in Int
      /\ \A i \in 1..n : out[i].start = (i - 1) * t /\ out[i].length = t
  <2>1. call.bars \in Int
    BY CallFacts
  <2> HIDE DEF t
  <2>2. names \in Seq(kSymbols) /\ Len(out) = Len(names) /\ t = TicksPerChord(Len(names), call.bars)
    BY Zenon DEF Voiced, t
  <2> QED BY <2>1, <2>2, SMTT(40) DEF Voiced
<1>2. CASE n = 0
  <2>1. out = <<>>
    BY <1>2 DEF Voiced
  <2> QED BY <1>1, <1>2, <2>1 DEF VoicingsFillTheBars
<1>3. CASE n # 0
  <2>1. /\ t \in Int
        /\ \A i \in Int : (i - 1) * t + t = ((i + 1) - 1) * t
        /\ n <= call.bars => n * t <= call.bars * kTicksPerBar
                             /\ n * t > (call.bars - n) * kTicksPerBar
    <3>1. n \in Nat \ {0}
      BY <1>1, <1>3
    <3> HIDE DEF n
    <3> QED BY <1>1, <3>1, SharesFit
  <2> HIDE DEF n, t
  <2>2. ASSUME NEW i \in 1..n
        PROVE  out[i].start = (IF i = 1 THEN 0 ELSE out[i - 1].start + out[i - 1].length)
    <3>1. CASE i = 1
      <4>1. (i - 1) * t = 0
        BY <2>1, <3>1
      <4> QED BY <1>1, <3>1, <4>1
    <3>2. CASE i # 1
      <4>1. i - 1 \in 1..n /\ i - 1 \in Int /\ (i - 1) + 1 = i
        BY <1>1, <3>2
      <4>2. ((i - 1) - 1) * t + t = (((i - 1) + 1) - 1) * t
        BY <2>1, <4>1
      <4> QED BY <1>1, <3>2, <4>1, <4>2
    <3> QED BY <3>1, <3>2
  <2>3. Last(out).start + Last(out).length = n * t
    <3>1. Last(out) = out[n]
      BY DEF Last, n
    <3>2. n \in 1..n /\ n \in Int
      BY <1>1, <1>3
    <3>3. (n - 1) * t + t = ((n + 1) - 1) * t /\ (n + 1) - 1 = n
      BY <2>1, <3>2
    <3> QED BY <1>1, <3>1, <3>2, <3>3
  <2> QED BY <1>1, <2>1, <2>2, <2>3 DEF VoicingsFillTheBars, n
<1> QED BY <1>2, <1>3

LEMMA SoundFromInv == ReharmonizeInv => ReharmonizationSound
<1> SUFFICES ASSUME ReharmonizeInv PROVE ReharmonizationSound
  OBVIOUS
<1>1. CASE step = "done"
  <2>1. PICK names \in Seq(kSymbols) :
          Carried(names, Len(call.chords)) /\ Voiced(out, names, call.bars)
    BY <1>1 DEF ReharmonizeInv
  <2>2. call \in ReharmonizeCalls
    BY DEF ReharmonizeInv
  <2> QED BY <2>1, <2>2, RecognisableWhenVoiced, BarsFilledWhenVoiced DEF ReharmonizationSound
<1>2. CASE step # "done"
  BY <1>2 DEF ReharmonizationSound, ProgressionRecognisable, VoicingsFillTheBars, Reharmonized
<1> QED BY <1>1, <1>2

(* One more chord of the old progression.                                  *)
LEMMA ChordRewritten ==
  ASSUME ReharmonizeInv, Rebuilding, step = "reharmonize", at < Len(call.chords),
         NEW names \in Replacements(at + 1)
  PROVE  /\ at + 1 \in 0..Len(call.chords)
         /\ out \o names \in Seq(kSymbols) /\ Carried(out \o names, at + 1)
<1>1. /\ call \in ReharmonizeCalls /\ out \in Seq(kSymbols)
      /\ at \in 0..Len(call.chords) /\ Carried(out, at)
  BY DEF ReharmonizeInv
<1>2. at + 1 \in 1..Len(call.chords) /\ at \in Nat
  <2>1. Len(call.chords) \in Nat
    BY <1>1, CallFacts
  <2> QED BY <1>1, <2>1
<1>3. CASE call.style = "pedal"
  <2>1. names \in pedal_reharm(at + 1)
    BY <1>3 DEF Replacements
  <2>2. /\ names \in Seq(kSymbols) /\ Len(names) = 1
        /\ find_degree(RootNamed(names[1]), call.key, call.scale) >= 0
    BY <1>1, <2>1, PedalAnswers
  <2>3. Len(out) = at /\ OnDegrees(out)
    BY <1>1, <1>3 DEF Carried
  <2> DEFINE all == out \o names
  <2>4. /\ all \in Seq(kSymbols) /\ Len(all) = at + 1 /\ all[at + 1] = names[1]
        /\ \A j \in 1..at : all[j] = out[j]
    <3>1. /\ all \in Seq(kSymbols) /\ Len(all) = Len(out) + 1
          /\ \A j \in 1..Len(out) : all[j] = out[j]
          /\ all[Len(out) + 1] = names[1]
      <4>1. Joined(kSymbols, out, names, all)
        BY <1>1, <2>2, Concatenated
      <4> HIDE DEF all
      <4>2. 1 \in 1..Len(names)
        BY <2>2
      <4> QED BY <2>2, <4>1, <4>2 DEF Joined
    <3> HIDE DEF all
    <3> QED BY <2>3, <3>1
  <2> HIDE DEF all
  <2>5. OnDegrees(all)
    <3> SUFFICES ASSUME NEW j \in 1..(at + 1)
                 PROVE  find_degree(RootNamed(all[j]), call.key, call.scale) >= 0
      BY <2>4 DEF OnDegrees
    <3>1. CASE j = at + 1
      BY <2>2, <2>4, <3>1
    <3>2. CASE j # at + 1
      <4>1. j \in 1..Len(out) /\ all[j] = out[j]
        BY <1>2, <2>3, <2>4, <3>2
      <4> QED BY <2>3, <4>1 DEF OnDegrees
    <3> QED BY <3>1, <3>2
  <2> QED BY <1>2, <1>3, <2>4, <2>5 DEF Carried, all
<1>4. CASE call.style # "pedal"
  <2>1. \/ names \in simple_reharm(at + 1)
        \/ call.style = "jazz" /\ names \in jazz_reharm(at + 1)
        \/ names \in modal_reharm(at + 1)
        \/ call.style = "chromatic" /\ names \in chromatic_reharm(at + 1)
    BY <1>1, <1>4, CallFacts DEF Replacements
  <2>2. Answers(names, at + 1)
    BY <1>1, <1>2, <2>1, SimpleAnswers, JazzAnswers, ModalAnswers, ChromaticAnswers
  <2>3. Rebuilt(out, at)
    BY <1>1, <1>4 DEF Carried
  <2>4. out \o names \in Seq(kSymbols) /\ Rebuilt(out \o names, at + 1)
    BY <1>1, <1>2, <2>2, <2>3, OneMoreChord
  <2> QED BY <1>2, <1>4, <2>4 DEF Carried
<1> QED BY <1>3, <1>4

(* What was carried over depends on the request alone.                     *)
LEMMA CarriedAlong ==
  ASSUME call' = call
  PROVE  \A names, k : Carried(names, k)' <=> Carried(names, k)
BY DEF Carried, Rebuilt, Embeds, Placed, Stands, Leads, Tonic, II, V, Substitute, Diatonics,
       Original, Rebuilding, OnDegrees

LEMMA ReharmonizeStep == ReharmonizeInv /\ [ReharmonizeNext]_vars => ReharmonizeInv'
<1> SUFFICES ASSUME ReharmonizeInv, [ReharmonizeNext]_vars PROVE ReharmonizeInv'
  OBVIOUS
<1>1. call \in ReharmonizeCalls
  BY DEF ReharmonizeInv
<1>2. CASE KeepChords
  <2>1. /\ step' = "voicings" /\ call' = call /\ out' = call.chords
        /\ call.chords \in Seq(kSymbols) /\ ~Rebuilding
    BY <1>1, <1>2, CallFacts DEF KeepChords, Rebuilding
  <2>2. Carried(out', Len(call.chords))
    BY <1>1, <2>1, KeptIsRebuilt DEF Carried
  <2>3. Carried(out, Len(call.chords))'
    BY <2>1, <2>2, CarriedAlong
  <2> QED BY <1>1, <2>1, <2>3 DEF ReharmonizeInv
<1>3. CASE ReharmonizeChord
  <2>1. PICK names \in Replacements(at + 1) : out' = out \o names
    BY <1>3 DEF ReharmonizeChord
  <2>2. /\ step = "reharmonize" /\ step' = step /\ call' = call /\ at' = at + 1
        /\ Rebuilding /\ at < Len(call.chords)
    BY <1>3 DEF ReharmonizeChord, Rebuilding
  <2>3. at' \in 0..Len(call.chords) /\ out' \in Seq(kSymbols) /\ Carried(out', at')
    BY <2>1, <2>2, ChordRewritten
  <2>4. Carried(out, at)'
    BY <2>2, <2>3, CarriedAlong
  <2> QED BY <1>1, <2>2, <2>3, <2>4 DEF ReharmonizeInv
<1>4. CASE ReharmonizeEnd
  <2>1. /\ step = "reharmonize" /\ step' = "voicings" /\ call' = call
        /\ Rebuilding /\ at = Len(call.chords)
        /\ out' = IF call.style = "jazz" THEN Turnaround(out) ELSE out
    BY <1>4 DEF ReharmonizeEnd, Rebuilding
  <2>2. out \in Seq(kSymbols) /\ Carried(out, Len(call.chords)) /\ Len(call.chords) \in Nat
    BY <1>1, <2>1, CallFacts DEF ReharmonizeInv
  <2>3. out' \in Seq(kSymbols) /\ Carried(out', Len(call.chords))
    <3>1. CASE call.style = "jazz"
      <4>1. Rebuilt(out, Len(call.chords))
        BY <2>2, <3>1 DEF Carried
      <4>2. out' \in Seq(kSymbols) /\ Rebuilt(out', Len(call.chords))
        BY <1>1, <2>1, <2>2, <3>1, <4>1, TurnaroundKeeps
      <4> QED BY <3>1, <4>2 DEF Carried
    <3>2. CASE call.style # "jazz"
      BY <2>1, <2>2, <3>2
    <3> QED BY <3>1, <3>2
  <2>4. Carried(out, Len(call.chords))'
    BY <2>1, <2>3, CarriedAlong
  <2> QED BY <1>1, <2>1, <2>3, <2>4 DEF ReharmonizeInv
<1>5. CASE Voicings
  <2>1. /\ step = "voicings" /\ step' = "done" /\ call' = call
        /\ out' = generate_voicings(out, call.bars)
    BY <1>5 DEF Voicings
  <2>2. out \in Seq(kSymbols) /\ Carried(out, Len(call.chords)) /\ call.bars \in Int
    BY <1>1, <2>1, CallFacts DEF ReharmonizeInv
  <2>3. Voiced(out', out, call.bars)
    BY <2>1, <2>2, ChordsAreVoiced
  <2>4. PICK names \in Seq(kSymbols) : names = out
    BY <2>2
  <2>5. Carried(names, Len(call.chords)) /\ Voiced(out', names, call'.bars)
    BY <2>1, <2>2, <2>3, <2>4
  <2>6. Carried(names, Len(call.chords))'
    BY <2>1, <2>5, CarriedAlong
  <2> QED BY <1>1, <2>1, <2>5, <2>6 DEF ReharmonizeInv
<1>6. CASE UNCHANGED vars
  <2>1. call' = call /\ out' = out /\ at' = at /\ step' = step
    BY <1>6 DEF vars
  <2>2. Carried(out, at) => Carried(out, at)'
    BY <2>1, CarriedAlong
  <2>3. Carried(out, Len(call.chords)) => Carried(out, Len(call.chords))'
    BY <2>1, CarriedAlong
  <2>4. ASSUME step = "done"
        PROVE  (\E names \in Seq(kSymbols) :
                  Carried(names, Len(call.chords)) /\ Voiced(out, names, call.bars))'
    <3>1. PICK names \in Seq(kSymbols) :
            Carried(names, Len(call.chords)) /\ Voiced(out, names, call.bars)
      BY <2>4 DEF ReharmonizeInv
    <3>2. Carried(names, Len(call.chords))'
      BY <2>1, <3>1, CarriedAlong
    <3>3. Voiced(out', names, call'.bars)
      BY <2>1, <3>1
    <3> QED BY <3>2, <3>3
  <2> QED BY <2>1, <2>2, <2>3, <2>4 DEF ReharmonizeInv
<1> QED BY <1>2, <1>3, <1>4, <1>5, <1>6 DEF ReharmonizeNext

(* What a style makes of a progression, of any length and in any key, is   *)
(* still that progression, and its voicings fill the bars.                 *)
THEOREM ReharmonizationStaysSound == ReharmonizeSpec => []ReharmonizationSound
<1>1. Start(ReharmonizeCalls) => ReharmonizeInv
  <2> SUFFICES ASSUME Start(ReharmonizeCalls) PROVE ReharmonizeInv
    OBVIOUS
  <2>1. call \in ReharmonizeCalls /\ out = <<>> /\ at = 0 /\ step = "reharmonize"
    BY CallFacts DEF Start
  <2>2. out \in Seq(kSymbols) /\ Len(out) = 0 /\ Len(call.chords) \in Nat
    BY <2>1, CallFacts
  <2>3. Rebuilt(out, 0)
    <3> DEFINE f == [i \in 1..0 |-> 0]
    <3>1. Embeds(f, out, 0)
      BY <2>2 DEF Embeds
    <3> QED BY <3>1 DEF Rebuilt
  <2>4. OnDegrees(out)
    BY <2>2 DEF OnDegrees
  <2>5. Carried(out, at)
    BY <2>1, <2>2, <2>3, <2>4 DEF Carried
  <2> QED BY <2>1, <2>2, <2>5 DEF ReharmonizeInv
<1>2. ReharmonizeInv /\ [ReharmonizeNext]_vars => ReharmonizeInv'
  BY ReharmonizeStep
<1>3. ReharmonizeInv => ReharmonizationSound
  BY SoundFromInv
<1> QED BY <1>1, <1>2, <1>3, PTL DEF ReharmonizeSpec

-----------------------------------------------------------------------------
(* The planners.                                                           *)

(* What a loop that takes entries of a table has after n of them: those    *)
(* with an index in S, in their order.                                     *)
TakenUpTo(s, n, table, S, E) ==
  /\ s \in Seq(E)
  /\ \E g \in [1..Len(s) -> 1..n] :
       /\ \A j \in 1..Len(s) : g[j] \in S /\ s[j] = table[g[j]]
       /\ \A i, j \in 1..Len(s) : i < j => g[i] < g[j]
       /\ \A k \in 1..n : k \in S => \E j \in 1..Len(s) : g[j] = k

TakenWalk(f, n, table, S) ==
  f = [k \in 0..n |->
         IF k = 0 THEN <<>>
         ELSE IF k \in S THEN Append(f[k - 1], table[k]) ELSE f[k - 1]]

LEMMA TakenWalkExists ==
  ASSUME NEW len \in Nat, NEW table, NEW S
  PROVE  \E f : TakenWalk(f, len, table, S)
<1> DEFINE T == {n \in 0..len : \E f : TakenWalk(f, n, table, S)}
<1>1. 0 \in T
  <2>1. TakenWalk([i \in 0..0 |-> <<>>], 0, table, S)
      BY DEF TakenWalk
  <2> QED BY <2>1
<1>2. ASSUME NEW n \in 1..len, n - 1 \in T PROVE n \in T
  <2>1. PICK f : TakenWalk(f, n - 1, table, S)
      BY <1>2
  <2> DEFINE g == [i \in 0..n |->
                     IF i < n THEN f[i]
                     ELSE IF i \in S THEN Append(f[i - 1], table[i]) ELSE f[i - 1]]
  <2>2. TakenWalk(g, n, table, S)
    <3>1. \A i \in 0..(n - 1) :
            f[i] = IF i = 0 THEN <<>>
                   ELSE IF i \in S THEN Append(f[i - 1], table[i]) ELSE f[i - 1]
        BY <2>1 DEF TakenWalk
    <3>2. \A i \in 0..n : i # 0 => g[i - 1] = f[i - 1]
        OBVIOUS
    <3>3. \A i \in 0..n :
            g[i] = IF i = 0 THEN <<>>
                   ELSE IF i \in S THEN Append(g[i - 1], table[i]) ELSE g[i - 1]
        BY <3>1, <3>2
    <3> QED BY <3>3 DEF TakenWalk
  <2> QED BY <2>2
<1> HIDE DEF T
<1>3. len \in T
    BY <1>1, <1>2, UpTo
<1> QED BY <1>3 DEF T

LEMMA AppendOne ==
  ASSUME NEW E, NEW s \in Seq(E), NEW x \in E
  PROVE  /\ Append(s, x) \in Seq(E) /\ Len(Append(s, x)) = Len(s) + 1
         /\ \A i \in 1..Len(s) : Append(s, x)[i] = s[i]
         /\ Append(s, x)[Len(s) + 1] = x
OBVIOUS

LEMMA TakesOneMore ==
  ASSUME NEW E, NEW s, NEW n \in Nat, NEW table, NEW S,
         TakenUpTo(s, n, table, S, E), table[n + 1] \in E, n + 1 \in S
  PROVE  TakenUpTo(Append(s, table[n + 1]), n + 1, table, S, E)
<1> DEFINE x == table[n + 1]
           t == Append(s, x)
<1>1. s \in Seq(E) /\ x \in E
  BY DEF TakenUpTo
<1>2. PICK g \in [1..Len(s) -> 1..n] :
        /\ \A j \in 1..Len(s) : g[j] \in S /\ s[j] = table[g[j]]
        /\ \A i, j \in 1..Len(s) : i < j => g[i] < g[j]
        /\ \A k \in 1..n : k \in S => \E j \in 1..Len(s) : g[j] = k
  BY DEF TakenUpTo
<1> DEFINE h == [j \in 1..(Len(s) + 1) |-> IF j <= Len(s) THEN g[j] ELSE n + 1]
<1> HIDE DEF x
<1>3. /\ t \in Seq(E) /\ Len(t) = Len(s) + 1
      /\ \A i \in 1..Len(s) : t[i] = s[i]
      /\ t[Len(s) + 1] = x
  BY <1>1, AppendOne
<1> HIDE DEF t
<1>4. Len(s) \in Nat
  BY <1>1
<1> DEFINE m == Len(s)
<1>5. /\ h \in [1..(m + 1) -> 1..(n + 1)]
      /\ \A j \in 1..m : h[j] = g[j] /\ h[j] \in 1..n
      /\ h[m + 1] = n + 1
  <2>1. m \in Nat /\ g \in [1..m -> 1..n]
    BY <1>4
  <2> HIDE DEF m
  <2> QED BY <2>1 DEF m
<1> HIDE DEF m
<1>6. \A j \in 1..(m + 1) : h[j] \in S /\ t[j] = table[h[j]]
  <2> HIDE DEF h
  <2> SUFFICES ASSUME NEW j \in 1..(m + 1) PROVE h[j] \in S /\ t[j] = table[h[j]]
    OBVIOUS
  <2>1. CASE j \in 1..m
    BY <1>2, <1>3, <1>5, <2>1, Zenon DEF m
  <2>2. CASE j = m + 1
    BY <1>3, <1>5, <2>2, Zenon DEF m, x
  <2> QED BY <1>4, <2>1, <2>2 DEF m
<1>7. \A i, j \in 1..(m + 1) : i < j => h[i] < h[j]
  <2> HIDE DEF h
  <2> SUFFICES ASSUME NEW i \in 1..(m + 1), NEW j \in 1..(m + 1), i < j PROVE h[i] < h[j]
    OBVIOUS
  <2>1. i \in 1..m /\ m \in Nat
    BY <1>4 DEF m
  <2>2. CASE j \in 1..m
    <3>1. g[i] < g[j]
      BY <1>2, <2>1, <2>2, Zenon DEF m
    <3> QED BY <1>5, <2>1, <2>2, <3>1
  <2>3. CASE j = m + 1
    BY <1>5, <2>1, <2>3
  <2> QED BY <2>1, <2>2, <2>3
<1>8. \A k \in 1..(n + 1) : k \in S => \E j \in 1..(m + 1) : h[j] = k
  <2> HIDE DEF h
  <2> SUFFICES ASSUME NEW k \in 1..(n + 1), k \in S PROVE \E j \in 1..(m + 1) : h[j] = k
    OBVIOUS
  <2>0. m \in Nat
    BY <1>4 DEF m
  <2>1. CASE k \in 1..n
    <3>1. PICK j \in 1..m : g[j] = k
      BY <1>2, <2>1, Zenon DEF m
    <3>2. j \in 1..(m + 1)
      BY <2>0, <3>1
    <3> QED BY <1>5, <3>1, <3>2
  <2>2. CASE k = n + 1
    <3>1. m + 1 \in 1..(m + 1)
      BY <2>0
    <3> QED BY <1>5, <2>2, <3>1, Zenon
  <2> QED BY <2>1, <2>2
<1>9. Len(t) = m + 1
  BY <1>3 DEF m
<1> HIDE DEF h
<1>10. TakenUpTo(t, n + 1, table, S, E)
  <2>1. /\ h \in [1..Len(t) -> 1..(n + 1)]
        /\ \A j \in 1..Len(t) : h[j] \in S /\ t[j] = table[h[j]]
        /\ \A i, j \in 1..Len(t) : i < j => h[i] < h[j]
        /\ \A k \in 1..(n + 1) : k \in S => \E j \in 1..Len(t) : h[j] = k
    BY <1>5, <1>6, <1>7, <1>8, <1>9, Zenon
  <2> QED BY <1>3, <2>1, Zenon DEF TakenUpTo
<1> QED BY <1>10 DEF t, x

LEMMA LeavesOneOut ==
  ASSUME NEW E, NEW s, NEW n \in Nat, NEW table, NEW S,
         TakenUpTo(s, n, table, S, E), n + 1 \notin S
  PROVE  TakenUpTo(s, n + 1, table, S, E)
<1>2. PICK g \in [1..Len(s) -> 1..n] :
        /\ \A j \in 1..Len(s) : g[j] \in S /\ s[j] = table[g[j]]
        /\ \A i, j \in 1..Len(s) : i < j => g[i] < g[j]
        /\ \A k \in 1..n : k \in S => \E j \in 1..Len(s) : g[j] = k
  BY DEF TakenUpTo
<1>3. g \in [1..Len(s) -> 1..(n + 1)]
  OBVIOUS
<1>4. \A k \in 1..(n + 1) : k \in S => \E j \in 1..Len(s) : g[j] = k
  <2>1. \A k \in 1..(n + 1) : k \in S => k \in 1..n
    OBVIOUS
  <2> QED BY <1>2, <2>1, Zenon
<1> QED BY <1>2, <1>3, <1>4, Zenon DEF TakenUpTo

(* Taken is such a loop.                                                   *)
LEMMA TakenInOrder ==
  ASSUME NEW E, NEW table \in Seq(E), NEW S
  PROVE  TakenUpTo(Taken(table, S), Len(table), table, S, E)
<1> DEFINE f == CHOOSE f : TakenWalk(f, Len(table), table, S)
<1>0. Len(table) \in Nat
  OBVIOUS
<1>1. TakenWalk(f, Len(table), table, S)
  BY <1>0, TakenWalkExists, Zenon
<1>2. Taken(table, S) = f[Len(table)]
  BY Zenon DEF Taken, TakenWalk
<1> HIDE DEF f
<1>3. /\ f[0] = <<>>
      /\ \A k \in 1..Len(table) :
           /\ k \in S => f[k] = Append(f[k - 1], table[k])
           /\ k \notin S => f[k] = f[k - 1]
  <2>1. \A k \in 0..Len(table) :
          f[k] = IF k = 0 THEN <<>>
                 ELSE IF k \in S THEN Append(f[k - 1], table[k]) ELSE f[k - 1]
    BY <1>1, Zenon DEF TakenWalk
  <2>2. 0 \in 0..Len(table) /\ \A k \in 1..Len(table) : k \in 0..Len(table) /\ k # 0
    BY <1>0
  <2> QED BY <2>1, <2>2, Zenon
<1> DEFINE T == {n \in 0..Len(table) : TakenUpTo(f[n], n, table, S, E)}
<1>4. 0 \in T
  <2>1. TakenUpTo(<<>>, 0, table, S, E)
    <3>1. [j \in 1..0 |-> 0] \in [1..Len(<<>>) -> 1..0]
      OBVIOUS
    <3>2. Len(<<>>) = 0 /\ 1..0 = {} /\ <<>> \in Seq(E)
      OBVIOUS
    <3> QED BY <3>1, <3>2 DEF TakenUpTo
  <2> QED BY <1>0, <1>3, <2>1
<1>5. ASSUME NEW n \in 1..Len(table), n - 1 \in T PROVE n \in T
  <2>1. n - 1 \in Nat /\ TakenUpTo(f[n - 1], n - 1, table, S, E) /\ (n - 1) + 1 = n
        /\ table[n] \in E
    BY <1>5
  <2> DEFINE p == n - 1
  <2>2. p \in Nat /\ TakenUpTo(f[p], p, table, S, E) /\ p + 1 = n /\ table[p + 1] \in E
    BY <2>1
  <2>3. /\ n \in S => f[n] = Append(f[p], table[n])
        /\ n \notin S => f[n] = f[p]
    BY <1>3
  <2> HIDE DEF p
  <2>4. TakenUpTo(f[n], n, table, S, E)
    <3>1. CASE n \in S
      <4>1. TakenUpTo(Append(f[p], table[p + 1]), p + 1, table, S, E)
        BY <2>2, <3>1, TakesOneMore
      <4> QED BY <2>2, <2>3, <3>1, <4>1
    <3>2. CASE n \notin S
      <4>1. TakenUpTo(f[p], p + 1, table, S, E)
        BY <2>2, <3>2, LeavesOneOut
      <4> QED BY <2>2, <2>3, <3>2, <4>1
    <3> QED BY <3>1, <3>2
  <2> QED BY <1>0, <2>4
<1> HIDE DEF T
<1>6. Len(table) \in T
  <2> DEFINE len == Len(table)
  <2>1. len \in Nat /\ 0 \in T /\ \A n \in 1..len : n - 1 \in T => n \in T
    BY <1>0, <1>4, <1>5, Zenon
  <2> HIDE DEF len
  <2>2. 0..len \subseteq T /\ len \in 0..len
    BY <2>1, UpTo
  <2> QED BY <2>2 DEF len
<1> QED BY <1>2, <1>6 DEF T

-----------------------------------------------------------------------------
(* What the interpreter reads out of a prompt.                             *)
LEMMA FirstInBounds ==
  ASSUME NEW numbers, NEW S, NEW default
  PROVE  FirstIn(numbers, S, default) \in S \cup {default}
<1> DEFINE I == {i \in 1..Len(numbers) : numbers[i] \in S}
           k == SelectInSeq(numbers, LAMBDA n : n \in S)
<1>1. k = IF I # {} THEN Min(I) ELSE 0
  BY Zenon DEF SelectInSeq
<1>2. FirstIn(numbers, S, default) = IF k = 0 THEN default ELSE numbers[k]
  BY Zenon DEF FirstIn
<1> HIDE DEF k
<1>3. CASE I = {}
  BY <1>1, <1>2, <1>3
<1>4. CASE I # {}
  <2>1. I \subseteq Nat
    OBVIOUS
  <2> HIDE DEF I
  <2>2. k \in I
    BY <1>1, <1>4, <2>1, MinOfNat
  <2> USE DEF I
  <2>3. numbers[k] \in S
    BY <2>2
  <2> QED BY <1>2, <2>3
<1> QED BY <1>3, <1>4

LEMMA PairOf ==
  ASSUME NEW A, NEW B, NEW a \in A, NEW b \in B, NEW ks, ks = <<a, b>>
  PROVE  ks[1] \in A /\ ks[2] \in B
OBVIOUS

LEMMA KeyIsKnown ==
  ASSUME NEW p \in AnyPhrase \cup {NoKey}, detect_key_and_scale(p)[1] # "E#"
  PROVE  /\ detect_key_and_scale(p)[1] \in kKeyNames
         /\ detect_key_and_scale(p)[2] \in {"major", "minor"}
<1> DEFINE ks == detect_key_and_scale(p)
           letters == {"C", "D", "E", "F", "G", "A", "B"}
           spelled == p.tail \in {"minor", "major"}
<1>1. CASE p = NoKey
  <2>1. p.form = "" /\ p.tail = "" /\ p.acc = ""
    BY <1>1 DEF NoKey, KeyPhrase
  <2>2. ks = <<"C", "major">>
    BY <2>1, Zenon DEF detect_key_and_scale
  <2>3. "C" \in kKeyNames
    BY DEF kKeyNames
  <2> QED BY <2>2, <2>3, PairOf
<1>2. CASE p \in AnyPhrase
  <2>1. p.letter \in letters /\ p.acc \in {"", "#", "b"} /\ p.tail \in {"", "m", "minor", "major"}
        /\ letters \subseteq kKeyNames
    BY <1>2 DEF AnyPhrase, kKeyNames
  <2>2. CASE p.form = "key of"
    <3>1. ks = <<p.letter, "major">>
      BY <2>2, Zenon DEF detect_key_and_scale
    <3>2. p.letter \in kKeyNames
      BY <2>1
    <3> HIDE DEF ks
    <3>3. ks[1] \in kKeyNames /\ ks[2] \in {"major", "minor"}
      BY <3>1, <3>2, PairOf
    <3> QED BY <3>3 DEF ks
  <2>3. CASE p.form # "key of" /\ spelled /\ BeforeTail(p) # "#"
    <3>1. ks = <<BeforeTail(p), p.tail>>
      BY <2>3, Zenon DEF detect_key_and_scale
    <3>2. BeforeTail(p) \in letters
      BY <2>1, <2>3 DEF BeforeTail
    <3> HIDE DEF ks
    <3>3. BeforeTail(p) \in kKeyNames /\ p.tail \in {"major", "minor"}
      BY <2>1, <2>3, <3>2
    <3>4. ks[1] \in kKeyNames /\ ks[2] \in {"major", "minor"}
      BY ONLY <3>1, <3>3, PairOf
    <3> QED BY <3>4 DEF ks
  <2>4. CASE p.form # "key of" /\ spelled /\ BeforeTail(p) = "#" /\ Written(p) \in kAccidentals
    <3>1. ks = <<Written(p), p.tail>>
      BY <2>4, Zenon DEF detect_key_and_scale
    <3>2. ks[1] # "E#"
      OBVIOUS
    <3> HIDE DEF ks
    <3>3. ks[1] = Written(p)
      BY <3>1
    <3>4. Written(p) # "E#"
      BY <3>2, <3>3
    <3>5. Written(p) \in kKeyNames
      BY <2>4, <3>4 DEF kAccidentals, kKeyNames
    <3>6. p.tail \in {"major", "minor"}
      BY <2>4
    <3>7. ks[1] \in kKeyNames /\ ks[2] \in {"major", "minor"}
      BY ONLY <3>1, <3>5, <3>6, PairOf
    <3> QED BY <3>7 DEF ks
  <2>5. CASE /\ p.form # "key of"
             /\ ~(spelled /\ BeforeTail(p) # "#")
             /\ ~(spelled /\ BeforeTail(p) = "#" /\ Written(p) \in kAccidentals)
    <3>1. ks = IF p.form = "in"
               THEN <<p.letter, IF p.tail = "m" /\ p.acc = "" THEN "minor" ELSE "major">>
               ELSE <<"C", "major">>
      BY <2>5, Zenon DEF detect_key_and_scale
    <3>2. CASE p.form = "in"
      <4>1. PICK scale \in {"major", "minor"} : ks = <<p.letter, scale>>
        BY <3>1, <3>2, Zenon
      <4> HIDE DEF ks
      <4>2. p.letter \in kKeyNames
        BY <2>1
      <4>3. ks[1] \in kKeyNames /\ ks[2] \in {"major", "minor"}
        BY ONLY <4>1, <4>2, PairOf
      <4> QED BY <4>3 DEF ks
    <3>3. CASE p.form # "in"
      <4>1. ks = <<"C", "major">>
        BY <3>1, <3>3, Zenon
      <4>2. "C" \in kKeyNames
        BY DEF kKeyNames
      <4> QED BY <4>1, <4>2, PairOf
    <3> QED BY <3>2, <3>3
  <2> QED BY <2>2, <2>3, <2>4, <2>5
<1> QED BY <1>1, <1>2

(* The forms of a piece.                                                   *)
PlannedSection == [name : SectionNames, bars : 1..256, energy : 1..3]

LEMMA MemberOfSequence ==
  \A T, s : s \in Seq(T) => \A k \in DOMAIN s : s[k] \in T
OBVIOUS

LEMMA SectionTable ==
  /\ Len(kSections) = 5 /\ kSections \in Seq(PlannedSection)
  /\ \A k \in 1..5 : kSections[k] \in PlannedSection
  /\ \A name \in SectionNames : \E k \in 1..5 : kSections[k].name = name
<1>0. 1..5 = {1, 2, 3, 4, 5}
  OBVIOUS
<1>1. Len(kSections) = 5
  BY DEF kSections
<1>2. /\ kSections[1] = [name |-> "intro", bars |-> 2, energy |-> 1]
      /\ kSections[2] = [name |-> "verse", bars |-> 4, energy |-> 2]
      /\ kSections[3] = [name |-> "chorus", bars |-> 4, energy |-> 3]
      /\ kSections[4] = [name |-> "bridge", bars |-> 4, energy |-> 2]
      /\ kSections[5] = [name |-> "outro", bars |-> 2, energy |-> 1]
  BY DEF kSections, Section, Low, Mid, High
<1>3. \A k \in {1, 2, 3, 4, 5} : kSections[k] \in PlannedSection
  BY <1>2 DEF PlannedSection, SectionNames
<1>4. kSections \in Seq(PlannedSection)
  BY <1>0, <1>1, <1>3 DEF kSections
<1>5. \A name \in SectionNames : \E k \in {1, 2, 3, 4, 5} : kSections[k].name = name
  <2>1. /\ kSections[1].name = "intro" /\ kSections[2].name = "verse"
        /\ kSections[3].name = "chorus" /\ kSections[4].name = "bridge"
        /\ kSections[5].name = "outro"
    BY <1>2
  <2> QED BY <2>1, Zenon DEF SectionNames
<1> QED BY <1>0, <1>1, <1>3, <1>4, <1>5

(* A search finds the name if anything has it.                             *)
NamedAt(parts, name) == SelectInSeq(parts, LAMBDA p : p.name = name)

LEMMA NamedFound ==
  ASSUME NEW parts, NEW name, NEW i \in 1..Len(parts), parts[i].name = name
  PROVE  NamedAt(parts, name) # 0
<1> DEFINE I == {k \in 1..Len(parts) : parts[k].name = name}
<1>1. NamedAt(parts, name) = IF I # {} THEN Min(I) ELSE 0
  BY Zenon DEF NamedAt, SelectInSeq
<1>2. I \subseteq Nat /\ i \in I
  OBVIOUS
<1>3. \A k \in I : k # 0
  OBVIOUS
<1> HIDE DEF I
<1>4. Min(I) \in I
  BY <1>2, MinOfNat
<1> QED BY <1>1, <1>2, <1>3, <1>4

AnyPart == [name : SectionNames, before : Nat, after : Nat]

LEMMA SectionBars ==
  ASSUME NEW parts, NEW k, NEW default \in 1..256
  PROVE  extract_bars_for_section(parts, k, default) \in 1..256
<1>1. \A X : FirstIn(X, 1..256, default) \in 1..256
  BY FirstInBounds
<1> QED BY <1>1, ZenonT(60) DEF extract_bars_for_section

LEMMA NamedSections ==
  ASSUME NEW parts \in Seq(AnyPart), NEW numbers, NEW energy, parts # <<>>
  PROVE  /\ build_sections(parts, numbers, energy) \in Seq(PlannedSection)
         /\ \A i \in DOMAIN parts : \E j \in DOMAIN build_sections(parts, numbers, energy) :
              build_sections(parts, numbers, energy)[j].name = parts[i].name
<1> DEFINE Named(s) == SelectInSeq(parts, LAMBDA p : p.name = s.name)
           S == {k \in DOMAIN kSections : Named(kSections[k]) # 0}
           named == Taken(kSections, S)
           sections == [k \in DOMAIN named |->
               [named[k] EXCEPT
                  !.bars = extract_bars_for_section(parts, Named(named[k]), named[k].bars)]]
<1>1. build_sections(parts, numbers, energy) = sections
  BY Zenon DEF build_sections
<1>2. TakenUpTo(named, 5, kSections, S, PlannedSection)
  BY SectionTable, TakenInOrder, Zenon
<1> HIDE DEF named
<1>3. PICK g \in [1..Len(named) -> 1..5] :
        /\ \A j \in 1..Len(named) : named[j] = kSections[g[j]]
        /\ \A k \in 1..5 : k \in S => \E j \in 1..Len(named) : g[j] = k
  BY <1>2, Zenon DEF TakenUpTo
<1>4. named \in Seq(PlannedSection)
  BY <1>2, Zenon DEF TakenUpTo
<1>5. sections \in Seq(PlannedSection)
  <2>1. \A k \in DOMAIN named : sections[k] \in PlannedSection
    <3> SUFFICES ASSUME NEW k \in DOMAIN named PROVE sections[k] \in PlannedSection
      OBVIOUS
    <3> DEFINE bars == extract_bars_for_section(parts, Named(named[k]), named[k].bars)
    <3>1. named[k] \in PlannedSection
      BY <1>4, MemberOfSequence, Zenon
    <3>2. bars \in 1..256
      <4>1. named[k].bars \in 1..256
        BY ONLY <3>1 DEF PlannedSection
      <4> QED BY <4>1, SectionBars, Zenon
    <3>3. sections[k] = [named[k] EXCEPT !.bars = bars]
      BY Zenon
    <3> HIDE DEF bars, sections
    <3> QED BY <3>1, <3>2, <3>3, SMTT(40) DEF PlannedSection
  <2>2. DOMAIN named = 1..Len(named) /\ Len(named) \in Nat
    BY <1>4
  <2>3. sections = [k \in 1..Len(named) |-> sections[k]]
    BY <2>2, Zenon
  <2> HIDE DEF sections
  <2> QED BY <2>1, <2>2, <2>3
<1>6. \A i \in DOMAIN parts : \E j \in DOMAIN sections : sections[j].name = parts[i].name
  <2> SUFFICES ASSUME NEW i \in DOMAIN parts
               PROVE  \E j \in DOMAIN sections : sections[j].name = parts[i].name
    OBVIOUS
  <2>1. parts[i].name \in SectionNames /\ i \in 1..Len(parts)
    <3> HIDE DEF sections
    <3>1. parts[i] \in AnyPart /\ i \in 1..Len(parts)
      OBVIOUS
    <3> QED BY <3>1 DEF AnyPart
  <2>2. PICK k \in 1..5 : kSections[k].name = parts[i].name
    BY <2>1, SectionTable
  <2>3. Named(kSections[k]) # 0
    <3> DEFINE name == kSections[k].name
    <3> HIDE DEF name
    <3>1. parts[i].name = name
      BY <2>2 DEF name
    <3>2. NamedAt(parts, name) # 0
      BY ONLY <2>1, <3>1, NamedFound
    <3> QED BY <3>2, Zenon DEF name, NamedAt
  <2>4. k \in S
    <3>1. DOMAIN kSections = 1..5
      BY SectionTable
    <3> QED BY <2>3, <3>1
  <2>5. PICK j \in 1..Len(named) : g[j] = k
    BY <1>3, <2>4, Zenon
  <2>6. named[j] = kSections[k] /\ named[j] \in PlannedSection /\ j \in DOMAIN named
    BY <1>3, <1>4, <2>5
  <2>7. sections[j].name = named[j].name
    <3> DEFINE bars == extract_bars_for_section(parts, Named(named[j]), named[j].bars)
    <3>1. sections[j] = [named[j] EXCEPT !.bars = bars]
      BY <2>6, Zenon
    <3> HIDE DEF bars, sections
    <3> QED BY <2>6, <3>1 DEF PlannedSection
  <2>8. j \in DOMAIN sections
    BY <2>6, Zenon
  <2> QED BY <2>2, <2>6, <2>7, <2>8, Zenon
<1> QED BY <1>1, <1>5, <1>6, ZenonT(60)

LEMMA FormOfPiece ==
  ASSUME NEW numbers, NEW energy \in 1..3
  PROVE  /\ build_sections(<<>>, numbers, energy) \in Seq(PlannedSection)
         /\ build_sections(<<>>, numbers, energy) # <<>>
<1> DEFINE bars == extract_total_bars(numbers)
           sections == build_sections(<<>>, numbers, energy)
<1>1. bars \in 1..256 \cup {-1}
  BY FirstInBounds DEF extract_total_bars
<1>2. \A k \in 1..5 : kSections[k] \in PlannedSection
  BY SectionTable
<1> HIDE DEF bars
<1>3. CASE bars < 0 \/ bars >= 12
  <2>1. sections = kWithoutBridge
    BY <1>3 DEF build_sections, bars
  <2>2. kWithoutBridge \in Seq(PlannedSection) /\ kWithoutBridge # <<>>
    BY <1>2 DEF kWithoutBridge
  <2> QED BY <2>1, <2>2
<1>4. CASE bars \in 8..11
  <2>1. ~(bars < 0 \/ bars >= 12)
    BY <1>4
  <2>2. sections = <<kSections[2], kSections[3]>>
    BY <1>4, <2>1, Zenon DEF build_sections, bars
  <2>3. <<kSections[2], kSections[3]>> \in Seq(PlannedSection)
        /\ <<kSections[2], kSections[3]>> # <<>>
    BY <1>2
  <2> QED BY <2>2, <2>3
<1>5. CASE ~(bars < 0 \/ bars >= 12) /\ bars \notin 8..11
  <2>1. sections = <<Section("verse", bars, energy)>>
    BY <1>5, Zenon DEF build_sections, bars
  <2>2. bars \in 1..256
    BY <1>1, <1>5
  <2>3. Section("verse", bars, energy) \in PlannedSection
    BY <2>2 DEF Section, PlannedSection, SectionNames
  <2> DEFINE verse == Section("verse", bars, energy)
  <2> HIDE DEF verse
  <2>4. <<verse>> \in Seq(PlannedSection) /\ <<verse>> # <<>>
    BY <2>3 DEF verse
  <2> QED BY <2>1, <2>4 DEF verse
<1> QED BY <1>3, <1>4, <1>5

(* Whatever the prompt says, there are sections to plan, and each one the  *)
(* prompt names is among them.                                             *)
Covers(sections, parts) ==
  /\ sections \in Seq(PlannedSection) /\ sections # <<>>
  /\ \A i \in DOMAIN parts : \E j \in DOMAIN sections : sections[j].name = parts[i].name

LEMMA SectionsOfPrompt ==
  ASSUME NEW parts \in Seq(AnyPart), NEW numbers, NEW energy \in 1..3
  PROVE  Covers(build_sections(parts, numbers, energy), parts)
<1> DEFINE sections == build_sections(parts, numbers, energy)
<1>1. CASE parts = <<>>
  <2>1. sections \in Seq(PlannedSection) /\ sections # <<>>
    BY <1>1, FormOfPiece
  <2>2. DOMAIN parts = {}
    BY <1>1
  <2> QED BY <2>1, <2>2, Zenon DEF Covers
<1>2. CASE parts # <<>>
  <2>1. /\ sections \in Seq(PlannedSection)
        /\ \A i \in DOMAIN parts : \E j \in DOMAIN sections : sections[j].name = parts[i].name
    BY <1>2, NamedSections
  <2>2. 1 \in DOMAIN parts
    BY <1>2
  <2> HIDE DEF sections
  <2>3. sections # <<>>
    BY <2>1, <2>2
  <2> QED BY <2>1, <2>3, Zenon DEF sections, Covers
<1> QED BY <1>1, <1>2

(* The players the interpreter knows: only the piano comes before the bass, *)
(* and only the drums ask for channel 9.                                   *)
Roles == {"comping", "bass", "drum", "rhythm", "pad", "lead"}
TablePlayer == [name : InstrumentNames, role : Roles, channel : 0..9]

PromptPlayers(players) ==
  /\ players \in Seq(TablePlayer) /\ players # <<>>
  /\ \A i, j \in DOMAIN players :
       players[i].role = "bass" /\ j < i => players[j].role = "comping"
  /\ \A i \in DOMAIN players : players[i].role # "drum" => players[i].channel \in 0..8

LEMMA InstrumentTable ==
  /\ kInstruments \in Seq(TablePlayer) /\ Len(kInstruments) = 8
  /\ \A name \in InstrumentNames : \E k \in 1..8 : kInstruments[k].name = name
  /\ \A k \in 1..8 : kInstruments[k].role = "bass" => k = 2
  /\ kInstruments[1].role = "comping"
  /\ \A k \in 1..8 : kInstruments[k].role # "drum" => kInstruments[k].channel \in 0..8
<1> DEFINE K == {1, 2, 3, 4, 5, 6, 7, 8}
<1>0. 1..8 = K
  OBVIOUS
<1>1. Len(kInstruments) = 8
  BY DEF kInstruments
<1>2. /\ kInstruments[1] = [name |-> "piano", role |-> "comping", channel |-> 0]
      /\ kInstruments[2] = [name |-> "bass", role |-> "bass", channel |-> 1]
      /\ kInstruments[3] = [name |-> "drums", role |-> "drum", channel |-> 9]
      /\ kInstruments[4] = [name |-> "guitar", role |-> "rhythm", channel |-> 2]
      /\ kInstruments[5] = [name |-> "strings", role |-> "pad", channel |-> 3]
      /\ kInstruments[6] = [name |-> "synth", role |-> "pad", channel |-> 4]
      /\ kInstruments[7] = [name |-> "brass", role |-> "lead", channel |-> 5]
      /\ kInstruments[8] = [name |-> "sax", role |-> "lead", channel |-> 6]
  BY DEF kInstruments, Player
<1>3. \A k \in K : kInstruments[k] \in TablePlayer
  BY <1>2 DEF TablePlayer, InstrumentNames, Roles
<1>4. kInstruments \in Seq(TablePlayer)
  <2>1. kInstruments = [k \in 1..8 |-> kInstruments[k]]
    BY DEF kInstruments
  <2> QED BY <1>0, <1>3, <2>1
<1>5. \A name \in InstrumentNames : \E k \in K : kInstruments[k].name = name
  <2>1. /\ kInstruments[1].name = "piano" /\ kInstruments[2].name = "bass"
        /\ kInstruments[3].name = "drums" /\ kInstruments[4].name = "guitar"
        /\ kInstruments[5].name = "strings" /\ kInstruments[6].name = "synth"
        /\ kInstruments[7].name = "brass" /\ kInstruments[8].name = "sax"
    BY <1>2
  <2> QED BY <2>1, Zenon DEF InstrumentNames
<1>6. \A k \in K : kInstruments[k].role = "bass" => k = 2
  BY <1>2
<1>7. \A k \in K : kInstruments[k].role # "drum" => kInstruments[k].channel \in 0..8
  BY <1>2
<1>8. kInstruments[1].role = "comping"
  BY <1>2
<1> QED BY <1>0, <1>1, <1>4, <1>5, <1>6, <1>7, <1>8, Zenon

LEMMA FirstThree ==
  ASSUME NEW E, NEW s \in Seq(E), Len(s) >= 3
  PROVE  /\ SubSeq(s, 1, 3) \in Seq(E) /\ Len(SubSeq(s, 1, 3)) = 3
         /\ \A k \in 1..3 : SubSeq(s, 1, 3)[k] = s[k]
BY SubSeqProperties

LEMMA DefaultPlayers ==
  PromptPlayers(SubSeq(kInstruments, 1, 3))
<1> DEFINE players == SubSeq(kInstruments, 1, 3)
<1>1. players \in Seq(TablePlayer) /\ Len(players) = 3
      /\ \A k \in 1..3 : players[k] = kInstruments[k]
  <2>1. kInstruments \in Seq(TablePlayer) /\ Len(kInstruments) >= 3
    BY InstrumentTable
  <2> QED BY <2>1, FirstThree
<1> HIDE DEF players
<1>2. DOMAIN players = 1..3 /\ players # <<>>
  BY <1>1, SMTT(40)
<1>3. \A i, j \in 1..3 : players[i].role = "bass" /\ j < i => players[j].role = "comping"
  <2> SUFFICES ASSUME NEW i \in 1..3, NEW j \in 1..3, players[i].role = "bass", j < i
               PROVE  players[j].role = "comping"
    OBVIOUS
  <2>1. i \in 1..8 /\ kInstruments[i].role = "bass"
    BY <1>1
  <2>2. i = 2
    BY <2>1, InstrumentTable
  <2>3. j = 1
    BY <2>2
  <2> QED BY <1>1, <2>3, InstrumentTable
<1>4. \A i \in 1..3 : players[i].role # "drum" => players[i].channel \in 0..8
  <2>1. \A i \in 1..3 : i \in 1..8
    OBVIOUS
  <2> QED BY <1>1, <2>1, InstrumentTable, Zenon
<1>5. PromptPlayers(players)
  BY <1>1, <1>2, <1>3, <1>4 DEF PromptPlayers
<1> QED BY <1>5 DEF players

LEMMA NamedPlayers ==
  ASSUME NEW names \in SUBSET InstrumentNames, names # {}
  PROVE  /\ PromptPlayers(detect_instruments(names))
         /\ \A name \in names : \E j \in DOMAIN detect_instruments(names) :
              detect_instruments(names)[j].name = name
<1> DEFINE S == {k \in DOMAIN kInstruments : kInstruments[k].name \in names}
           players == Taken(kInstruments, S)
<1>1. detect_instruments(names) = players
  BY Zenon DEF detect_instruments
<1>2. TakenUpTo(players, 8, kInstruments, S, TablePlayer)
  BY InstrumentTable, TakenInOrder, Zenon
<1> HIDE DEF players
<1>3. PICK g \in [1..Len(players) -> 1..8] :
        /\ \A j \in 1..Len(players) : players[j] = kInstruments[g[j]]
        /\ \A i, j \in 1..Len(players) : i < j => g[i] < g[j]
        /\ \A k \in 1..8 : k \in S => \E j \in 1..Len(players) : g[j] = k
  BY <1>2, Zenon DEF TakenUpTo
<1>4. players \in Seq(TablePlayer) /\ DOMAIN players = 1..Len(players)
  <2>1. players \in Seq(TablePlayer)
    BY <1>2, Zenon DEF TakenUpTo
  <2> QED BY <2>1
<1>5. \A name \in names : \E j \in DOMAIN players : players[j].name = name
  <2> SUFFICES ASSUME NEW name \in names
               PROVE  \E j \in DOMAIN players : players[j].name = name
    OBVIOUS
  <2>1. PICK k \in 1..8 : kInstruments[k].name = name
    BY InstrumentTable
  <2>2. DOMAIN kInstruments = 1..8
    BY InstrumentTable
  <2>3. k \in S
    BY <2>1, <2>2
  <2>4. PICK j \in 1..Len(players) : g[j] = k
    BY <1>3, <2>3
  <2>5. players[j] = kInstruments[k]
    BY <1>3, <2>4
  <2> QED BY <1>4, <2>1, <2>4, <2>5, Zenon
<1>6. players # <<>>
  BY <1>4, <1>5
<1>7. \A i, j \in DOMAIN players :
        players[i].role = "bass" /\ j < i => players[j].role = "comping"
  <2> SUFFICES ASSUME NEW i \in DOMAIN players, NEW j \in DOMAIN players,
                      players[i].role = "bass", j < i
               PROVE  players[j].role = "comping"
    OBVIOUS
  <2>1. g[i] \in 1..8 /\ g[j] \in 1..8 /\ g[j] < g[i]
    BY <1>3, <1>4
  <2>2. g[i] = 2
    BY <1>3, <1>4, <2>1, InstrumentTable
  <2>3. g[j] = 1
    BY <2>1, <2>2
  <2> QED BY <1>3, <1>4, <2>3, InstrumentTable
<1>8. \A i \in DOMAIN players : players[i].role # "drum" => players[i].channel \in 0..8
  BY <1>3, <1>4, InstrumentTable, SMTT(40)
<1> QED BY <1>1, <1>4, <1>5, <1>6, <1>7, <1>8 DEF PromptPlayers

LEMMA PlayersOfPrompt ==
  ASSUME NEW names \in SUBSET InstrumentNames
  PROVE  /\ PromptPlayers(detect_instruments(names))
         /\ \A name \in names : \E j \in DOMAIN detect_instruments(names) :
              detect_instruments(names)[j].name = name
<1>1. CASE names = {}
  <2>1. detect_instruments(names) = SubSeq(kInstruments, 1, 3)
    BY <1>1, Zenon DEF detect_instruments
  <2> QED BY <1>1, <2>1, DefaultPlayers
<1> QED BY <1>1, NamedPlayers

-----------------------------------------------------------------------------
(* What the generator makes of a blueprint, of whichever caller.           *)
Text == STRING \cup SectionNames \cup InstrumentNames \cup Roles
SomeSection == [name : Text, bars : Int, energy : Int]
SomePlayer == [name : Text, role : Text, channel : Int]

Draft(bp) ==
  bp \in [root_key : {bp.root_key}, scale : {bp.scale}, bpm : {bp.bpm}, energy : Int,
          sections : Seq(SomeSection), instruments : Seq(SomePlayer)]

AskedSections(bp) == IF bp.sections = <<>> THEN make_default_sections ELSE bp.sections
AskedPlayers(bp) ==
  IF bp.instruments = <<>> THEN SubSeq(kInstruments, 1, 3) ELSE bp.instruments

Filled(s, energy) ==
  [k \in DOMAIN s |-> [s[k] EXCEPT !.energy = IF @ = 0 THEN energy ELSE @]]

Accepted(bp) ==
  /\ bp.root_key \in DOMAIN key_table /\ bp.scale \in kValidScales /\ bp.bpm \in 40..300
  /\ \A k \in DOMAIN AskedSections(bp) : AskedSections(bp)[k].bars \in 1..256

Blueprint(r, c, b, e, s, i) ==
  [root_key |-> r, scale |-> c, bpm |-> b, energy |-> e, sections |-> s, instruments |-> i]
Rewrite(bp, s, i) == [bp EXCEPT !.sections = s, !.instruments = i]

LEMMA Rewritten ==
  ASSUME NEW r, NEW c, NEW b, NEW e, NEW s, NEW i, NEW s2, NEW i2
  PROVE  Rewrite(Blueprint(r, c, b, e, s, i), s2, i2) = Blueprint(r, c, b, e, s2, i2)
<1> DEFINE bp == Blueprint(r, c, b, e, s, i)
           q == [bp EXCEPT !.sections = s2]
<1>1. q = Blueprint(r, c, b, e, s2, i)
  BY DEF Blueprint
<1>2. Rewrite(bp, s2, i2) = [q EXCEPT !.instruments = i2]
  BY DEF Rewrite, Blueprint
<1> HIDE DEF q
<1>3. [q EXCEPT !.instruments = i2] = Blueprint(r, c, b, e, s2, i2)
  BY <1>1 DEF Blueprint
<1> QED BY <1>2, <1>3, Zenon

LEMMA Generated ==
  ASSUME NEW input, Draft(input)
  PROVE  generate_blueprint(input) =
           IF ~Accepted(input) THEN MusicBlueprint
           ELSE Blueprint(input.root_key, input.scale, input.bpm, input.energy,
                          Filled(AskedSections(input), input.energy),
                          normalize_channels(AskedPlayers(input)))
<1> DEFINE s == AskedSections(input)
           p == AskedPlayers(input)
           Of(x, y) == Blueprint(input.root_key, input.scale, input.bpm, input.energy, x, y)
           bp == Rewrite(input, s, p)
<1>1. generate_blueprint(input) =
        IF ~is_valid(bp) THEN MusicBlueprint
        ELSE Rewrite(bp, Filled(bp.sections, bp.energy), normalize_channels(bp.instruments))
  BY DEF generate_blueprint, Filled, Rewrite, AskedSections, AskedPlayers
<1>2. input = Of(input.sections, input.instruments)
  BY DEF Draft, Blueprint
<1>3. bp = Of(s, p)
  BY <1>2, Rewritten
<1> HIDE DEF bp, s, p
<1>4. /\ bp.root_key = input.root_key /\ bp.scale = input.scale /\ bp.bpm = input.bpm
      /\ bp.energy = input.energy /\ bp.sections = s /\ bp.instruments = p
  BY <1>3 DEF Blueprint
<1>5. is_valid(bp) <=> Accepted(input)
  BY <1>4 DEF is_valid, Accepted, s
<1>6. Rewrite(bp, Filled(bp.sections, bp.energy), normalize_channels(bp.instruments)) =
        Of(Filled(s, input.energy), normalize_channels(p))
  <2> DEFINE f == Filled(s, input.energy)
             n == normalize_channels(p)
  <2>1. Rewrite(bp, f, n) = Of(f, n)
    BY <1>3, Rewritten
  <2> QED BY <1>4, <2>1, Zenon
<1> QED BY <1>1, <1>5, <1>6, Zenon DEF s, p

LEMMA DefaultSections ==
  /\ make_default_sections \in Seq(SomeSection) /\ make_default_sections # <<>>
  /\ \A k \in DOMAIN make_default_sections :
       make_default_sections[k].bars \in 1..256 /\ make_default_sections[k].energy = 0
<1> DEFINE s == kWithoutBridge
<1>1. s \in Seq(PlannedSection) /\ Len(s) = 4 /\ DOMAIN s = 1..4
  BY SectionTable DEF kWithoutBridge
<1>2. make_default_sections = [k \in 1..4 |-> [s[k] EXCEPT !.energy = 0]]
  BY <1>1, Zenon DEF make_default_sections
<1> HIDE DEF s
<1>3. \A k \in 1..4 : /\ [s[k] EXCEPT !.energy = 0] \in SomeSection
                      /\ [s[k] EXCEPT !.energy = 0].bars \in 1..256
                      /\ [s[k] EXCEPT !.energy = 0].energy = 0
  <2> SUFFICES ASSUME NEW k \in 1..4
               PROVE  /\ [s[k] EXCEPT !.energy = 0] \in SomeSection
                      /\ [s[k] EXCEPT !.energy = 0].bars \in 1..256
                      /\ [s[k] EXCEPT !.energy = 0].energy = 0
    OBVIOUS
  <2>1. s[k] \in PlannedSection
    <3>1. s \in Seq(PlannedSection) /\ k \in DOMAIN s
      BY <1>1
    <3> QED BY ONLY <3>1
  <2> QED BY <2>1 DEF PlannedSection, SomeSection, Text
<1> DEFINE d == make_default_sections
<1> HIDE DEF d
<1>4. DOMAIN d = 1..4 /\ \A k \in 1..4 : d[k] = [s[k] EXCEPT !.energy = 0]
  BY <1>2 DEF d
<1>5. d = [k \in 1..4 |-> d[k]]
  BY <1>2, <1>4, Zenon DEF d
<1>6. \A k \in 1..4 : d[k] \in SomeSection /\ d[k].bars \in 1..256 /\ d[k].energy = 0
  BY <1>3, <1>4, ZenonT(60)
<1>7. d \in Seq(SomeSection) /\ d # <<>>
  BY <1>4, <1>5, <1>6
<1> QED BY <1>4, <1>6, <1>7 DEF d

LEMMA PlannedAreSections ==
  ASSUME NEW s \in Seq(PlannedSection)
  PROVE  s \in Seq(SomeSection)
<1>1. PlannedSection \subseteq SomeSection
  <2>1. SectionNames \subseteq Text /\ 1..256 \subseteq Int /\ 1..3 \subseteq Int
    BY DEF Text
  <2> QED BY <2>1 DEF PlannedSection, SomeSection
<1> QED BY <1>1

LEMMA TableArePlayers ==
  ASSUME NEW p \in Seq(TablePlayer)
  PROVE  p \in Seq(SomePlayer)
<1>1. TablePlayer \subseteq SomePlayer
  BY DEF TablePlayer, SomePlayer, Text
<1> QED BY <1>1

(* What a draft asks for: never nothing.                                   *)
LEMMA DraftAsks ==
  ASSUME NEW input, Draft(input)
  PROVE  /\ AskedSections(input) \in Seq(SomeSection) /\ AskedSections(input) # <<>>
         /\ AskedPlayers(input) \in Seq(SomePlayer) /\ AskedPlayers(input) # <<>>
         /\ input.energy \in Int
<1>1. input.sections \in Seq(SomeSection) /\ input.instruments \in Seq(SomePlayer)
      /\ input.energy \in Int
  BY DEF Draft
<1>2. SubSeq(kInstruments, 1, 3) \in Seq(SomePlayer) /\ SubSeq(kInstruments, 1, 3) # <<>>
  BY DefaultPlayers, TableArePlayers, Zenon DEF PromptPlayers
<1>3. AskedSections(input) \in Seq(SomeSection) /\ AskedSections(input) # <<>>
  BY <1>1, DefaultSections, Zenon DEF AskedSections
<1>4. AskedPlayers(input) \in Seq(SomePlayer) /\ AskedPlayers(input) # <<>>
  BY <1>1, <1>2, Zenon DEF AskedPlayers
<1> QED BY <1>1, <1>3, <1>4

LEMMA FilledSections ==
  ASSUME NEW s \in Seq(SomeSection), NEW energy \in Int
  PROVE  /\ Filled(s, energy) \in Seq(SomeSection) /\ Len(Filled(s, energy)) = Len(s)
         /\ DOMAIN Filled(s, energy) = DOMAIN s
         /\ \A k \in DOMAIN s :
              /\ Filled(s, energy)[k].name = s[k].name
              /\ Filled(s, energy)[k].bars = s[k].bars
              /\ Filled(s, energy)[k].energy = IF s[k].energy = 0 THEN energy ELSE s[k].energy
<1> DEFINE f == Filled(s, energy)
           e(k) == IF s[k].energy = 0 THEN energy ELSE s[k].energy
<1>1. DOMAIN s = 1..Len(s) /\ Len(s) \in Nat /\ \A k \in 1..Len(s) : s[k] \in SomeSection
  OBVIOUS
<1>2. f = [k \in 1..Len(s) |-> [s[k] EXCEPT !.energy = e(k)]]
  BY <1>1, Zenon DEF Filled
<1>3. \A k \in 1..Len(s) :
        /\ [s[k] EXCEPT !.energy = e(k)] \in SomeSection
        /\ [s[k] EXCEPT !.energy = e(k)].name = s[k].name
        /\ [s[k] EXCEPT !.energy = e(k)].bars = s[k].bars
        /\ [s[k] EXCEPT !.energy = e(k)].energy = e(k)
  <2> SUFFICES ASSUME NEW k \in 1..Len(s)
               PROVE  /\ [s[k] EXCEPT !.energy = e(k)] \in SomeSection
                      /\ [s[k] EXCEPT !.energy = e(k)].name = s[k].name
                      /\ [s[k] EXCEPT !.energy = e(k)].bars = s[k].bars
                      /\ [s[k] EXCEPT !.energy = e(k)].energy = e(k)
    OBVIOUS
  <2>1. s[k] \in SomeSection
    BY <1>1
  <2>2. e(k) \in Int
    BY <2>1 DEF SomeSection
  <2> HIDE DEF e
  <2> QED BY <2>1, <2>2 DEF SomeSection
<1> HIDE DEF f
<1>4. /\ DOMAIN f = 1..Len(s)
      /\ \A k \in 1..Len(s) : f[k] = [s[k] EXCEPT !.energy = e(k)]
  BY <1>2, Zenon
<1>5. f = [k \in 1..Len(s) |-> f[k]]
  BY <1>2, <1>4, Zenon
<1>6. \A k \in 1..Len(s) : /\ f[k] \in SomeSection
                           /\ f[k].name = s[k].name /\ f[k].bars = s[k].bars
                           /\ f[k].energy = e(k)
  BY <1>3, <1>4, Zenon
<1>7. f \in Seq(SomeSection) /\ Len(f) = Len(s)
  <2> DEFINE n == Len(s)
  <2>1. n \in Nat /\ f = [k \in 1..n |-> f[k]] /\ \A k \in 1..n : f[k] \in SomeSection
    BY <1>1, <1>5, <1>6
  <2> HIDE DEF n
  <2>2. f \in Seq(SomeSection) /\ Len(f) = n
    BY <2>1
  <2> QED BY <2>2 DEF n
<1> QED BY <1>1, <1>4, <1>6, <1>7, Zenon DEF f

-----------------------------------------------------------------------------
(* What a prompt leads to.                                                 *)
LEMMA EnergyOfPrompt ==
  ASSUME NEW levels
  PROVE  detect_energy(levels) \in 1..3
BY DEF detect_energy, Low, Mid, High

LEMMA LiteralPrompt ==
  /\ Draft(MusicBlueprint)
  /\ AskedSections(MusicBlueprint) = make_default_sections
  /\ AskedPlayers(MusicBlueprint) = SubSeq(kInstruments, 1, 3)
  /\ Accepted(MusicBlueprint) /\ MusicBlueprint.energy = 2
<1>1. /\ MusicBlueprint.sections = <<>> /\ MusicBlueprint.instruments = <<>>
      /\ MusicBlueprint.energy = 2 /\ MusicBlueprint.root_key = "C"
      /\ MusicBlueprint.scale = "major" /\ MusicBlueprint.bpm = 120
  BY DEF MusicBlueprint, Mid
<1>2. Draft(MusicBlueprint)
  <2>1. <<>> \in Seq(SomeSection) /\ <<>> \in Seq(SomePlayer)
    OBVIOUS
  <2> QED BY <2>1 DEF Draft, MusicBlueprint, Mid
<1>3. AskedSections(MusicBlueprint) = make_default_sections
      /\ AskedPlayers(MusicBlueprint) = SubSeq(kInstruments, 1, 3)
  BY <1>1, Zenon DEF AskedSections, AskedPlayers
<1>4. Accepted(MusicBlueprint)
  <2>1. "C" \in DOMAIN key_table
    BY DEF key_table, kKeyNames
  <2>2. "major" \in kValidScales /\ 120 \in 40..300
    BY DEF kValidScales
  <2> QED BY <1>1, <1>3, <2>1, <2>2, DefaultSections DEF Accepted
<1> QED BY <1>1, <1>2, <1>3, <1>4

(* What the planners rely on for every prompt.                             *)
FromPrompt(bp) ==
  /\ Draft(bp) /\ PromptPlayers(AskedPlayers(bp))
  /\ \A k \in DOMAIN AskedSections(bp) :
       /\ AskedSections(bp)[k].bars \in 1..256
       /\ Filled(AskedSections(bp), bp.energy)[k].energy \in 1..3

LEMMA LiteralIsFromPrompt == FromPrompt(MusicBlueprint)
<1> DEFINE s == make_default_sections
<1>1. Draft(MusicBlueprint) /\ PromptPlayers(AskedPlayers(MusicBlueprint))
  BY LiteralPrompt, DefaultPlayers
<1>2. /\ AskedSections(MusicBlueprint) = s /\ MusicBlueprint.energy = 2 /\ 2 \in Int
      /\ s \in Seq(SomeSection)
      /\ \A k \in DOMAIN s : s[k].bars \in 1..256 /\ s[k].energy = 0
  BY LiteralPrompt, DefaultSections
<1> HIDE DEF s
<1>3. \A k \in DOMAIN s : Filled(s, 2)[k].energy = IF s[k].energy = 0 THEN 2 ELSE s[k].energy
  BY <1>2, FilledSections
<1>4. \A k \in DOMAIN s : Filled(s, 2)[k].energy \in 1..3
  BY <1>2, <1>3
<1> QED BY <1>1, <1>2, <1>4 DEF FromPrompt

LEMMA PromptPlan ==
  ASSUME NEW p \in AnyPrompt, ~p.literal
  PROVE  /\ FromPrompt(interpret(p))
         /\ ~Refused(p) <=> Accepted(interpret(p))
         /\ \A i \in DOMAIN p.parts : \E j \in DOMAIN AskedSections(interpret(p)) :
              AskedSections(interpret(p))[j].name = p.parts[i].name
         /\ \A name \in p.instruments : \E j \in DOMAIN AskedPlayers(interpret(p)) :
              AskedPlayers(interpret(p))[j].name = name
<1> DEFINE bp == interpret(p)
           ks == detect_key_and_scale(p.key)
           energy == detect_energy(p.energies)
           s == build_sections(p.parts, p.bars, energy)
           i == detect_instruments(p.instruments)
           bpm == detect_bpm(p.bpms)
<1>1. bp = Blueprint(ks[1], ks[2], bpm, energy, s, i)
  BY Zenon DEF interpret, Blueprint
<1>2. p.parts \in Seq(AnyPart) /\ p.instruments \in SUBSET InstrumentNames
      /\ p.key \in AnyPhrase \cup {NoKey}
  BY DEF AnyPrompt, AnyPart
<1>3. energy \in 1..3
  BY EnergyOfPrompt
<1>4. bpm \in 20..300
  BY FirstInBounds DEF detect_bpm
<1>5. ks[1] # "E#" => ks[1] \in kKeyNames /\ ks[2] \in {"major", "minor"}
  BY <1>2, KeyIsKnown
<1>17. Refused(p) <=> bpm < 40 \/ ks[1] = "E#"
  BY Zenon DEF Refused
<1>6. PromptPlayers(i) /\ \A name \in p.instruments : \E j \in DOMAIN i : i[j].name = name
  BY <1>2, PlayersOfPrompt
<1> HIDE DEF energy
<1>7. /\ s \in Seq(PlannedSection) /\ s # <<>>
      /\ \A k \in DOMAIN p.parts : \E j \in DOMAIN s : s[j].name = p.parts[k].name
  <2>1. Covers(s, p.parts)
    BY <1>2, <1>3, SectionsOfPrompt
  <2> HIDE DEF s
  <2> QED BY <2>1, Zenon DEF Covers
<1> HIDE DEF bp, s, i, bpm, ks
<1>8. /\ bp.root_key = ks[1] /\ bp.scale = ks[2] /\ bp.bpm = bpm /\ bp.energy = energy
      /\ bp.sections = s /\ bp.instruments = i
  BY <1>1 DEF Blueprint
<1>9. s \in Seq(SomeSection) /\ i \in Seq(SomePlayer) /\ i # <<>> /\ energy \in Int
  BY <1>3, <1>6, <1>7, PlannedAreSections, TableArePlayers DEF PromptPlayers
<1>10. Draft(bp)
  BY <1>1, <1>8, <1>9 DEF Draft, Blueprint
<1>11. AskedSections(bp) = s /\ AskedPlayers(bp) = i
  BY <1>7, <1>8, <1>9, Zenon DEF AskedSections, AskedPlayers
<1>12. \A k \in DOMAIN s : s[k].bars \in 1..256 /\ s[k].energy \in 1..3
  <2>1. \A k \in DOMAIN s : s[k] \in PlannedSection
    BY <1>7
  <2> QED BY <2>1 DEF PlannedSection
<1>13. \A k \in DOMAIN s : Filled(s, energy)[k].energy \in 1..3
  <2>1. \A k \in DOMAIN s :
          Filled(s, energy)[k].energy = IF s[k].energy = 0 THEN energy ELSE s[k].energy
    BY <1>9, FilledSections
  <2> QED BY <1>12, <2>1
<1>14. FromPrompt(bp)
  BY <1>6, <1>8, <1>10, <1>11, <1>12, <1>13 DEF FromPrompt
<1>15. ASSUME ~Refused(p) PROVE Accepted(bp)
  <2>1. ks[1] \in DOMAIN key_table /\ ks[2] \in kValidScales
    BY <1>5, <1>17, <1>15 DEF key_table, kValidScales
  <2>2. bpm \in 40..300
    BY <1>4, <1>17, <1>15
  <2> QED BY <1>8, <1>11, <1>12, <2>1, <2>2 DEF Accepted
<1>16. ASSUME Refused(p) PROVE ~Accepted(bp)
  <2>1. "E#" \notin DOMAIN key_table
    BY DEF key_table, kKeyNames
  <2>2. bpm < 40 => bpm \notin 40..300
    BY <1>4
  <2> QED BY <1>17, <1>8, <1>16, <2>1, <2>2 DEF Accepted
<1> QED BY <1>6, <1>7, <1>11, <1>14, <1>15, <1>16 DEF bp

-----------------------------------------------------------------------------
(* The timeline.  Sections from a[k] to b[k], with t[k] bars after the     *)
(* k-th.                                                                   *)
Laid(a, b, t, n) ==
  /\ n \in Nat /\ a \in [1..n -> Int] /\ b \in [1..n -> Int]
  /\ \A k \in 1..n : a[k] < b[k]
  /\ n > 0 => a[1] = 0
  /\ \A k \in 1..(n - 1) : t[k] \in {0, 1} /\ a[k + 1] = b[k] + t[k]

LEMMA InOrder ==
  ASSUME NEW a, NEW b, NEW t, NEW n, Laid(a, b, t, n)
  PROVE  \A i, j \in 1..n : i < j => b[i] <= a[j]
<1> DEFINE T == {m \in 0..n : \A i, j \in 1..m : i < j => b[i] <= a[j]}
<1>0. n \in Nat
  BY DEF Laid
<1>1. 0 \in T
  BY <1>0
<1>2. ASSUME NEW m \in 1..n, m - 1 \in T PROVE m \in T
  <2> SUFFICES ASSUME NEW i \in 1..m, NEW j \in 1..m, i < j PROVE b[i] <= a[j]
    BY <1>0
  <2>1. \A x, y \in 1..(m - 1) : x < y => b[x] <= a[y]
    BY <1>2
  <2>2. CASE j < m
    <3>1. i \in 1..(m - 1) /\ j \in 1..(m - 1)
      BY <1>0, <2>2
    <3> QED BY <2>1, <3>1
  <2>3. CASE j = m
    <3> DEFINE l == m - 1
    <3>1. l \in 1..(n - 1) /\ l \in 1..n /\ l + 1 = m /\ i \in 1..l /\ i \in 1..n /\ m \in 1..n
      BY <1>0, <2>3
    <3>2. a[m] = b[l] + t[l] /\ t[l] \in {0, 1} /\ a[l] < b[l]
          /\ a[m] \in Int /\ b[l] \in Int /\ a[l] \in Int /\ b[i] \in Int
      <4>1. t[l] \in {0, 1} /\ a[l + 1] = b[l] + t[l]
        BY <3>1 DEF Laid
      <4>2. a[l] < b[l] /\ a[m] \in Int /\ b[l] \in Int /\ a[l] \in Int /\ b[i] \in Int
        BY <3>1 DEF Laid
      <4> QED BY <3>1, <4>1, <4>2
    <3>3. CASE i = l
      BY <2>3, <3>2, <3>3
    <3>4. CASE i < l
      <4>1. b[i] <= a[l]
        BY <2>1, <3>1, <3>4
      <4> QED BY <2>3, <3>2, <4>1
    <3> QED BY <1>0, <3>1, <3>3, <3>4
  <2> QED BY <2>2, <2>3
<1> HIDE DEF T
<1>3. n \in T
  BY <1>0, <1>1, <1>2, UpTo
<1> QED BY <1>3 DEF T

Owners(a, b, n, bar) == {k \in 1..n : bar \in a[k]..(b[k] - 1)}
Fills(b, t, n, bar) == {k \in 1..(n - 1) : bar \in b[k]..(b[k] + t[k] - 1)}

LEMMA OneOwner ==
  ASSUME NEW a, NEW b, NEW t, NEW n, Laid(a, b, t, n), NEW bar \in Int,
         NEW k \in Owners(a, b, n, bar)
  PROVE  Owners(a, b, n, bar) = {k} /\ Fills(b, t, n, bar) = {}
<1>0. /\ n \in Nat /\ \A i \in 1..n : a[i] \in Int /\ b[i] \in Int /\ a[i] < b[i]
      /\ \A i \in 1..(n - 1) : t[i] \in {0, 1} /\ a[i + 1] = b[i] + t[i]
  BY DEF Laid
<1>1. \A i, j \in 1..n : i < j => b[i] <= a[j]
  BY InOrder
<1>2. k \in 1..n /\ a[k] <= bar /\ bar < b[k]
  BY <1>0 DEF Owners
<1>3. ASSUME NEW i \in Owners(a, b, n, bar) PROVE i = k
  <2>1. i \in 1..n /\ a[i] <= bar /\ bar < b[i]
    BY <1>0 DEF Owners
  <2>2. ~(i < k) /\ ~(k < i)
    BY <1>0, <1>1, <1>2, <2>1
  <2> QED BY <1>2, <2>1, <2>2
<1>4. ASSUME NEW i \in Fills(b, t, n, bar) PROVE FALSE
  <2>1. i \in 1..(n - 1) /\ i \in 1..n /\ i + 1 \in 1..n
    BY <1>0 DEF Fills
  <2>2. b[i] <= bar /\ bar < a[i + 1] /\ a[i + 1] < b[i + 1]
        /\ a[i] \in Int /\ b[i] \in Int /\ a[i + 1] \in Int /\ b[i + 1] \in Int
        /\ a[k] \in Int /\ b[k] \in Int /\ a[i] < b[i]
    <3>1. bar \in b[i]..(b[i] + t[i] - 1)
      BY DEF Fills
    <3> QED BY <1>0, <1>2, <2>1, <3>1
  <2>3. CASE i < k
    <3>1. i + 1 = k \/ i + 1 < k
      BY <1>2, <2>1, <2>3
    <3>2. i + 1 < k => b[i + 1] <= a[k]
      BY <1>1, <1>2, <2>1
    <3> QED BY <1>2, <2>2, <3>1, <3>2
  <2>4. CASE i = k
    BY <1>2, <2>2, <2>4
  <2>5. CASE k < i
    <3>1. b[k] <= a[i]
      BY <1>1, <1>2, <2>1, <2>5
    <3> QED BY <1>2, <2>2, <3>1
  <2> QED BY <1>2, <2>1, <2>3, <2>4, <2>5
<1> QED BY <1>3, <1>4

LEMMA OneFill ==
  ASSUME NEW a, NEW b, NEW t, NEW n, Laid(a, b, t, n), NEW bar \in Int,
         NEW k \in Fills(b, t, n, bar)
  PROVE  Fills(b, t, n, bar) = {k} /\ Owners(a, b, n, bar) = {}
<1>0. /\ n \in Nat /\ \A i \in 1..n : a[i] \in Int /\ b[i] \in Int /\ a[i] < b[i]
      /\ \A i \in 1..(n - 1) : t[i] \in {0, 1} /\ a[i + 1] = b[i] + t[i]
  BY DEF Laid
<1>1. \A i, j \in 1..n : i < j => b[i] <= a[j]
  BY InOrder
<1>2. Owners(a, b, n, bar) = {}
  BY OneOwner, Zenon
<1>3. ASSUME NEW i \in Fills(b, t, n, bar)
      PROVE  /\ i \in 1..(n - 1) /\ i \in 1..n /\ i + 1 \in 1..n
             /\ b[i] <= bar /\ bar < a[i + 1] /\ a[i + 1] < b[i + 1]
             /\ b[i] \in Int /\ a[i + 1] \in Int /\ b[i + 1] \in Int
  <2>1. bar \in b[i]..(b[i] + t[i] - 1) /\ i \in 1..(n - 1)
    BY DEF Fills
  <2> QED BY <1>0, <2>1
<1>4. ASSUME NEW i \in Fills(b, t, n, bar), NEW j \in Fills(b, t, n, bar), i < j PROVE FALSE
  <2>1. /\ i \in 1..n /\ i + 1 \in 1..n /\ j \in 1..n
        /\ bar < a[i + 1] /\ a[i + 1] < b[i + 1] /\ b[j] <= bar
        /\ a[i + 1] \in Int /\ b[i + 1] \in Int /\ b[j] \in Int /\ a[j] \in Int /\ a[j] < b[j]
    BY <1>0, <1>3
  <2>2. i + 1 = j \/ i + 1 < j
    BY <1>4, <2>1
  <2>3. i + 1 < j => b[i + 1] <= a[j]
    BY <1>1, <2>1
  <2> QED BY <2>1, <2>2, <2>3
<1>5. ASSUME NEW i \in Fills(b, t, n, bar) PROVE i = k
  <2>1. ~(i < k) /\ ~(k < i)
    BY <1>4
  <2>2. i \in 1..n /\ k \in 1..n
    BY <1>3
  <2> QED BY <2>1, <2>2
<1> QED BY <1>2, <1>5

(* Every bar of the piece has exactly one owner.                           *)
LEMMA Tiles ==
  ASSUME NEW a, NEW b, NEW t, NEW n, Laid(a, b, t, n), n > 0, NEW bar \in 0..(b[n] - 1)
  PROVE  Cardinality(Owners(a, b, n, bar)) + Cardinality(Fills(b, t, n, bar)) = 1
<1>0. /\ n \in Nat /\ \A i \in 1..n : a[i] \in Int /\ b[i] \in Int /\ a[i] < b[i]
      /\ \A i \in 1..(n - 1) : t[i] \in {0, 1} /\ a[i + 1] = b[i] + t[i]
      /\ a[1] = 0 /\ bar \in Int
  BY DEF Laid
<1> DEFINE K == {k \in 1..n : bar < b[k]}
           k == Min(K)
<1>1. n \in K /\ K \subseteq Nat
  BY <1>0
<1>2. k \in K /\ \A j \in K : k <= j
  <2> HIDE DEF K
  <2> QED BY <1>1, MinOfNat
<1> HIDE DEF k
<1>3. CASE a[k] <= bar
  <2>1. k \in Owners(a, b, n, bar)
    BY <1>0, <1>2, <1>3 DEF Owners
  <2>2. Owners(a, b, n, bar) = {k} /\ Fills(b, t, n, bar) = {}
    BY <1>0, <2>1, OneOwner
  <2>3. Cardinality({k}) = 1 /\ Cardinality({}) = 0
    BY FS_Singleton, FS_EmptySet
  <2> QED BY <2>2, <2>3
<1>4. CASE bar < a[k]
  <2>1. k # 1
    BY <1>0, <1>4
  <2> DEFINE l == k - 1
  <2>2. l \in 1..(n - 1) /\ l \in 1..n /\ l + 1 = k /\ ~(k <= l)
    BY <1>0, <1>2, <2>1
  <2> HIDE DEF l
  <2>3. l \notin K
    BY <1>2, <2>2
  <2>4. b[l] <= bar
    BY <1>0, <2>2, <2>3
  <2>5. bar < b[l] + t[l] /\ t[l] \in {0, 1} /\ b[l] \in Int
    BY <1>0, <1>4, <2>2
  <2>6. l \in Fills(b, t, n, bar)
    BY <1>0, <2>2, <2>4, <2>5 DEF Fills
  <2>7. Fills(b, t, n, bar) = {l} /\ Owners(a, b, n, bar) = {}
    BY <1>0, <2>6, OneFill
  <2>8. Cardinality({l}) = 1 /\ Cardinality({}) = 0
    BY FS_Singleton, FS_EmptySet
  <2> QED BY <2>7, <2>8
<1> QED BY <1>0, <1>2, <1>3, <1>4

StartsWalk(f, n, s) == f = [k \in 1..n |-> start(f, s, k)]

LEMMA StartsWalkExists ==
  ASSUME NEW len \in Nat, NEW s
  PROVE  \E f : StartsWalk(f, len, s)
<1> DEFINE T == {n \in 0..len : \E f : StartsWalk(f, n, s)}
<1>1. 0 \in T
  <2>1. StartsWalk([i \in 1..0 |-> 0], 0, s)
    <3>1. 1..0 = {}
      OBVIOUS
    <3> QED BY <3>1 DEF StartsWalk
  <2> QED BY <2>1
<1>2. ASSUME NEW n \in 1..len, n - 1 \in T PROVE n \in T
  <2>1. PICK f : StartsWalk(f, n - 1, s)
    BY <1>2
  <2> DEFINE g == [i \in 1..n |-> IF i < n THEN f[i] ELSE start(f, s, n)]
  <2>2. \A i \in 1..n : i # 1 => g[i - 1] = f[i - 1]
    OBVIOUS
  <2>3. \A i \in 1..n : start(g, s, i) = start(f, s, i)
    <3> SUFFICES ASSUME NEW i \in 1..n PROVE start(g, s, i) = start(f, s, i)
      OBVIOUS
    <3>1. CASE i = 1
      BY <3>1, Zenon DEF start
    <3>2. CASE i # 1
      <4>1. g[i - 1] = f[i - 1]
        BY <2>2, <3>2
      <4> HIDE DEF g
      <4> QED BY <3>2, <4>1, Zenon DEF start
    <3> QED BY <3>1, <3>2
  <2>4. \A i \in 1..(n - 1) : f[i] = start(f, s, i)
    BY <2>1, Zenon DEF StartsWalk
  <2>5. \A i \in 1..n : g[i] = start(g, s, i)
    <3> SUFFICES ASSUME NEW i \in 1..n PROVE g[i] = start(f, s, i)
      BY <2>3
    <3>1. CASE i = n
      BY <3>1
    <3>2. CASE i < n
      <4>1. i \in 1..(n - 1)
        BY <3>2
      <4> QED BY <2>4, <3>2, <4>1
    <3> QED BY <3>1, <3>2
  <2>6. g = [i \in 1..n |-> start(g, s, i)]
    <3>1. g = [i \in 1..n |-> g[i]]
      OBVIOUS
    <3> HIDE DEF g
    <3> QED BY <2>5, <3>1, Zenon
  <2>7. StartsWalk(g, n, s)
    <3> HIDE DEF g
    <3> QED BY <2>6, Zenon DEF StartsWalk
  <2> HIDE DEF g
  <2> QED BY <2>7
<1> HIDE DEF T
<1>3. len \in T
  BY <1>1, <1>2, UpTo
<1> QED BY <1>3 DEF T

LEMMA FillIsABar ==
  ASSUME NEW prev, NEW next
  PROVE  determine_transition(prev, next) \in {0, 1}
<1> DEFINE names == <<prev.name, next.name>>
           outro == next.name = "outro" \/ names \in {<<"intro", "verse">>, <<"chorus", "verse">>}
           fill == /\ next.name # "outro"
                   /\ names \in {<<"chorus", "bridge">>, <<"bridge", "chorus">>}
           rise == names = <<"verse", "chorus">>
           up == IF next.energy > prev.energy THEN 1 ELSE 0
           differs == IF next.energy # prev.energy THEN 1 ELSE 0
           r == CASE outro -> 0 [] fill -> 1 [] rise -> up [] OTHER -> differs
<1>1. determine_transition(prev, next) = r
  BY Zenon DEF determine_transition
<1>2. up \in {0, 1} /\ differs \in {0, 1}
  OBVIOUS
<1> HIDE DEF outro, fill, rise, up, differs
<1>3. r \in {0, 1}
  BY <1>2
<1> QED BY <1>1, <1>3

(* The timeline is the sections one after the other.                       *)
TimelineOf(tl, s, a, b) ==
  /\ Laid(a, b, tl.transitions, Len(s))
  /\ DOMAIN tl.sections = 1..Len(s) /\ Len(tl.sections) = Len(s)
  /\ \A k \in 1..Len(s) :
       /\ tl.sections[k].start_bar = a[k] /\ tl.sections[k].end_bar = b[k]
       /\ tl.sections[k].name = s[k].name /\ tl.sections[k].energy = s[k].energy
  /\ DOMAIN tl.transitions = 1..(Len(s) - 1)
  /\ tl.sections # <<>> => Len(s) > 0
  /\ Len(s) = 0 => tl.total_bars = 0
  /\ Len(s) > 0 => tl.total_bars = b[Len(s)]

LEMMA BarsAfter ==
  ASSUME NEW x \in Int, NEW y \in 1..256, NEW z \in {0, 1}
  PROVE  x + y \in Int /\ x < x + y /\ x + y + z \in Int
OBVIOUS

LEMMA TimelineIsLaid ==
  ASSUME NEW bp, bp.sections \in Seq(SomeSection),
         \A k \in DOMAIN bp.sections : bp.sections[k].bars \in 1..256
  PROVE  \E a, b : TimelineOf(plan_timeline(bp), bp.sections, a, b)
<1> DEFINE s == bp.sections
           n == Len(s)
           a == CHOOSE f : StartsWalk(f, n, s)
           b == [k \in 1..n |-> a[k] + planned_bars(s[k])]
           planned == [k \in DOMAIN s |->
                    [name |-> s[k].name, bars |-> planned_bars(s[k]), energy |-> s[k].energy,
                     start_bar |-> a[k], end_bar |-> a[k] + planned_bars(s[k])]]
           total == IF s = <<>> THEN 0 ELSE Last(planned).end_bar
           t == [k \in 1..(n - 1) |-> determine_transition(s[k], s[k + 1])]
           tl == plan_timeline(bp)
<1>1. tl = [sections |-> planned, transitions |-> t, total_bars |-> total,
            total_ticks |-> total * 4 * kPpq]
  BY Zenon DEF plan_timeline, StartsWalk
<1>2. n \in Nat /\ DOMAIN s = 1..n /\ \A k \in 1..n : planned_bars(s[k]) \in 1..256
  BY DEF planned_bars
<1>3. n = 0 <=> s = <<>>
  OBVIOUS
<1> HIDE DEF s, n
<1>4. StartsWalk(a, n, s)
  BY <1>2, StartsWalkExists, Zenon
<1> HIDE DEF a
<1>5. \A k \in 1..n : a[k] = start(a, s, k)
  BY <1>4, Zenon DEF StartsWalk
<1>6. n > 0 => a[1] = 0
  <2>1. n > 0 => 1 \in 1..n
    BY <1>2
  <2> QED BY <1>5, <2>1 DEF start
<1>7. \A k \in 1..(n - 1) : t[k] \in {0, 1}
  BY FillIsABar
<1>8. \A k \in 1..(n - 1) : a[k + 1] = a[k] + planned_bars(s[k]) + t[k]
  <2> SUFFICES ASSUME NEW k \in 1..(n - 1) PROVE a[k + 1] = a[k] + planned_bars(s[k]) + t[k]
    OBVIOUS
  <2>1. k + 1 \in 1..n /\ k + 1 # 1 /\ (k + 1) - 1 = k
    BY <1>2
  <2>2. a[k + 1] = start(a, s, k + 1)
    BY <1>5, <2>1
  <2>3. start(a, s, k + 1) = a[k] + planned_bars(s[k]) + determine_transition(s[k], s[k + 1])
    BY <2>1 DEF start
  <2> QED BY <2>2, <2>3
<1> HIDE DEF t
<1>9. \A k \in 1..n : a[k] \in Int
  <2> DEFINE T == {m \in 0..n : m > 0 => a[m] \in Int}
  <2>1. 0 \in T
    BY <1>2
  <2>2. ASSUME NEW m \in 1..n, m - 1 \in T PROVE m \in T
    <3>1. CASE m = 1
      BY <1>2, <1>6, <3>1
    <3>2. CASE m # 1
      <4> DEFINE l == m - 1
      <4>1. l \in 1..(n - 1) /\ l + 1 = m /\ l > 0 /\ l \in 1..n
        BY <1>2, <3>2
      <4>2. a[l] \in Int
        BY <2>2, <4>1
      <4> HIDE DEF l
      <4>3. a[m] = a[l] + planned_bars(s[l]) + t[l] /\ t[l] \in {0, 1} /\ planned_bars(s[l]) \in 1..256
        BY <1>2, <1>7, <1>8, <4>1
      <4>4. a[m] \in Int
        BY <4>2, <4>3, BarsAfter
      <4> QED BY <1>2, <4>4
    <3> QED BY <3>1, <3>2
  <2> HIDE DEF T
  <2>3. 0..n \subseteq T
    BY <1>2, <2>1, <2>2, UpTo
  <2> QED BY <1>2, <2>3 DEF T
<1>10. b \in [1..n -> Int] /\ \A k \in 1..n : b[k] = a[k] + planned_bars(s[k]) /\ a[k] < b[k]
  <2>1. \A k \in 1..n : a[k] + planned_bars(s[k]) \in Int /\ a[k] < a[k] + planned_bars(s[k])
    BY <1>2, <1>9, BarsAfter
  <2> QED BY <2>1
<1>11. a \in [1..n -> Int]
  <2>1. a = [k \in 1..n |-> start(a, s, k)]
    BY <1>4, Zenon DEF StartsWalk
  <2>2. a = [k \in 1..n |-> a[k]]
    BY <1>5, <2>1, Zenon
  <2> QED BY <1>9, <2>2
<1> HIDE DEF b
<1>12. Laid(a, b, t, n)
  <2>1. \A k \in 1..(n - 1) : a[k + 1] = b[k] + t[k]
    <3>1. \A k \in 1..(n - 1) : k \in 1..n
      BY <1>2
    <3> QED BY <1>8, <1>10, <3>1
  <2> QED BY <1>2, <1>6, <1>7, <1>10, <1>11, <2>1 DEF Laid
<1>13. /\ DOMAIN planned = 1..n /\ Len(planned) = n
       /\ \A k \in 1..n :
            /\ planned[k].start_bar = a[k] /\ planned[k].end_bar = b[k]
            /\ planned[k].name = s[k].name /\ planned[k].energy = s[k].energy
  <2>1. planned = [k \in 1..n |->
                    [name |-> s[k].name, bars |-> planned_bars(s[k]), energy |-> s[k].energy,
                     start_bar |-> a[k], end_bar |-> a[k] + planned_bars(s[k])]]
    BY <1>2
  <2> HIDE DEF planned
  <2>2. DOMAIN planned = 1..n /\ Len(planned) = n
    BY <1>2, <2>1
  <2> QED BY <1>10, <2>1, <2>2
<1>14. planned # <<>> => n > 0
  <2>1. n = 0 => planned = <<>>
    BY <1>3
  <2> QED BY <1>2, <2>1
<1> HIDE DEF planned
<1>15. n = 0 => total = 0
  BY <1>3
<1>16. n > 0 => total = b[n]
  <2>1. n > 0 => n \in 1..n /\ total = planned[Len(planned)].end_bar
    BY <1>2, <1>3 DEF Last
  <2> QED BY <1>13, <2>1
<1> HIDE DEF total, tl
<1>17. /\ tl.sections = planned /\ tl.transitions = t /\ tl.total_bars = total
  BY <1>1
<1>18. DOMAIN t = 1..(n - 1)
  BY DEF t
<1>19. TimelineOf(tl, s, a, b)
  BY <1>12, <1>13, <1>14, <1>15, <1>16, <1>17, <1>18 DEF TimelineOf, n
<1>20. \E x, y : TimelineOf(tl, s, x, y)
  BY <1>19, Zenon
<1> QED BY <1>20, Zenon DEF tl, s

(* Who plays on which channel.                                             *)
UsedWalk(f, n, players) ==
  f = [k \in 0..n |->
         IF k = 0 THEN <<>> ELSE Append(f[k - 1], assign_channel(f[k - 1], players[k]))]

LEMMA UsedWalkExists ==
  ASSUME NEW len \in Nat, NEW players
  PROVE  \E f : UsedWalk(f, len, players)
<1> DEFINE T == {n \in 0..len : \E f : UsedWalk(f, n, players)}
<1>1. 0 \in T
  <2>1. UsedWalk([i \in 0..0 |-> <<>>], 0, players)
    BY DEF UsedWalk
  <2> QED BY <2>1
<1>2. ASSUME NEW n \in 1..len, n - 1 \in T PROVE n \in T
  <2>1. PICK f : UsedWalk(f, n - 1, players)
    BY <1>2
  <2> DEFINE Next1(h, i) == Append(h[i - 1], assign_channel(h[i - 1], players[i]))
             g == [i \in 0..n |-> IF i < n THEN f[i] ELSE Next1(f, i)]
  <2>2. UsedWalk(g, n, players)
    <3>1. \A i \in 0..(n - 1) : f[i] = IF i = 0 THEN <<>> ELSE Next1(f, i)
      BY <2>1, Zenon DEF UsedWalk
    <3>2. \A i \in 0..n : i # 0 => g[i - 1] = f[i - 1]
      OBVIOUS
    <3>3. \A i \in 0..n : g[i] = IF i = 0 THEN <<>> ELSE Next1(g, i)
      BY <3>1, <3>2
    <3>4. g = [i \in 0..n |-> g[i]]
      OBVIOUS
    <3> HIDE DEF g
    <3> QED BY <3>3, <3>4, Zenon DEF UsedWalk
  <2> QED BY <2>2
<1> HIDE DEF T
<1>3. len \in T
  BY <1>1, <1>2, UpTo
<1> QED BY <1>3 DEF T

Own(player) == IF player.role = "drum" THEN 9 ELSE player.channel
Free(used, player) == (0..(IF player.role = "drum" THEN 9 ELSE 8)) \ used

(* u gives the players of p their channels, one after the other.           *)
Channels(u, p, n) ==
  /\ n \in Nat /\ u \in [1..n -> Int]
  /\ \A k \in 1..n :
       LET used == {u[j] : j \in 1..(k - 1)}
       IN /\ ~(Own(p[k]) \in used /\ Free(used, p[k]) # {}) => u[k] = Own(p[k])
          /\ Own(p[k]) \in used /\ Free(used, p[k]) # {} => u[k] \in Free(used, p[k])

LEMMA AssignedChannel ==
  ASSUME NEW used, NEW player \in SomePlayer
  PROVE  LET c == assign_channel(used, player)
             taken == Range(used)
         IN /\ c \in Int
            /\ ~(Own(player) \in taken /\ Free(taken, player) # {}) => c = Own(player)
            /\ Own(player) \in taken /\ Free(taken, player) # {} => c \in Free(taken, player)
<1> DEFINE c == assign_channel(used, player)
           free == Free(Range(used), player)
           own == Own(player)
<1>1. c = IF own \in Range(used) /\ free # {} THEN Min(free) ELSE own
  BY Zenon DEF assign_channel, Own, Free
<1>2. free \subseteq Nat
  BY DEF Free
<1>3. own \in Int
  BY DEF Own, SomePlayer
<1> HIDE DEF free, own, c
<1>4. free # {} => Min(free) \in free
  BY <1>2, MinOfNat
<1>5. c \in Int
  <2>1. CASE own \in Range(used) /\ free # {}
    <3>1. c \in free
      BY <1>1, <1>4, <2>1, Zenon
    <3> QED BY <1>2, <3>1
  <2>2. CASE ~(own \in Range(used) /\ free # {})
    BY <1>1, <1>3, <2>2, Zenon
  <2> QED BY <2>1, <2>2
<1> QED BY <1>1, <1>4, <1>5, Zenon DEF free, own, c

LEMMA Normalized ==
  ASSUME NEW p \in Seq(SomePlayer)
  PROVE  \E u : /\ Channels(u, p, Len(p))
                /\ normalize_channels(p) = [k \in 1..Len(p) |-> [p[k] EXCEPT !.channel = u[k]]]
<1> DEFINE n == Len(p)
           f == CHOOSE f : UsedWalk(f, n, p)
           u == [k \in 1..n |-> assign_channel(f[k - 1], p[k])]
<1>1. n \in Nat /\ DOMAIN p = 1..n /\ \A k \in 1..n : p[k] \in SomePlayer
  OBVIOUS
<1>2. normalize_channels(p) = [k \in DOMAIN p |-> [p[k] EXCEPT !.channel = f[n][k]]]
  BY Zenon DEF normalize_channels, UsedWalk
<1> HIDE DEF n
<1>3. UsedWalk(f, n, p)
  BY <1>1, UsedWalkExists, Zenon
<1> HIDE DEF f
<1>4. /\ f[0] = <<>>
      /\ \A k \in 1..n : f[k] = Append(f[k - 1], assign_channel(f[k - 1], p[k]))
  <2>1. \A k \in 0..n :
          f[k] = IF k = 0 THEN <<>> ELSE Append(f[k - 1], assign_channel(f[k - 1], p[k]))
    BY <1>3, Zenon DEF UsedWalk
  <2>2. 0 \in 0..n /\ \A k \in 1..n : k \in 0..n /\ k # 0
    BY <1>1
  <2> QED BY <2>1, <2>2, Zenon
<1>5. u \in [1..n -> Int]
  <2>1. \A k \in 1..n : assign_channel(f[k - 1], p[k]) \in Int
    BY <1>1, AssignedChannel, Zenon
  <2> QED BY <2>1
<1>6. \A k \in 1..n : u[k] = assign_channel(f[k - 1], p[k])
  BY Zenon
<1> HIDE DEF u
<1> DEFINE T == {k \in 0..n : /\ f[k] \in Seq(Int) /\ Len(f[k]) = k
                              /\ \A j \in 1..k : f[k][j] = u[j]}
<1>7. 0 \in T
  <2>1. f[0] = <<>> /\ <<>> \in Seq(Int) /\ Len(<<>>) = 0 /\ 1..0 = {} /\ 0 \in 0..n
    BY <1>1, <1>4
  <2> QED BY <2>1
<1>8. ASSUME NEW k \in 1..n, k - 1 \in T PROVE k \in T
  <2> DEFINE q == f[k - 1]
             l == k - 1
  <2>1. q \in Seq(Int) /\ Len(q) = l /\ \A j \in 1..l : q[j] = u[j]
    BY <1>8
  <2>2. f[k] = Append(q, u[k]) /\ u[k] \in Int
    BY <1>4, <1>5, <1>6
  <2>3. l \in Nat /\ l + 1 = k
    BY <1>1
  <2> HIDE DEF q, l
  <2>4. /\ Append(q, u[k]) \in Seq(Int) /\ Len(Append(q, u[k])) = l + 1
        /\ \A i \in 1..l : Append(q, u[k])[i] = q[i]
        /\ Append(q, u[k])[l + 1] = u[k]
    <3>1. /\ Append(q, u[k]) \in Seq(Int) /\ Len(Append(q, u[k])) = Len(q) + 1
          /\ \A i \in 1..Len(q) : Append(q, u[k])[i] = q[i]
          /\ Append(q, u[k])[Len(q) + 1] = u[k]
      BY <2>1, <2>2, AppendOne
    <3> QED BY <2>1, <3>1, Zenon
  <2>5. f[k] \in Seq(Int) /\ Len(f[k]) = k
    BY <2>2, <2>3, <2>4
  <2>6. \A j \in 1..k : f[k][j] = u[j]
    <3> SUFFICES ASSUME NEW j \in 1..k PROVE f[k][j] = u[j]
      OBVIOUS
    <3>1. CASE j \in 1..l
      BY <2>1, <2>2, <2>4, <3>1, Zenon
    <3>2. CASE j = k
      BY <2>2, <2>3, <2>4, <3>2, Zenon
    <3>3. j \in 1..l \/ j = k
      BY <2>3
    <3> QED BY <3>1, <3>2, <3>3
  <2>7. k \in 0..n
    BY <1>1
  <2> QED BY <2>5, <2>6, <2>7
<1> HIDE DEF T
<1>9. 0..n \subseteq T
  BY <1>1, <1>7, <1>8, UpTo
<1>10. \A k \in 0..n : Range(f[k]) = {u[j] : j \in 1..k} /\ \A j \in 1..k : f[k][j] = u[j]
  <2> SUFFICES ASSUME NEW k \in 0..n
               PROVE  Range(f[k]) = {u[j] : j \in 1..k} /\ \A j \in 1..k : f[k][j] = u[j]
    OBVIOUS
  <2>1. f[k] \in Seq(Int) /\ Len(f[k]) = k /\ \A j \in 1..k : f[k][j] = u[j]
    BY <1>9 DEF T
  <2>2. DOMAIN f[k] = 1..k
    BY <2>1
  <2> QED BY <2>1, <2>2 DEF Range
<1>11. Channels(u, p, n)
  <2> SUFFICES ASSUME NEW k \in 1..n
               PROVE  LET used == {u[j] : j \in 1..(k - 1)}
                      IN /\ ~(Own(p[k]) \in used /\ Free(used, p[k]) # {}) => u[k] = Own(p[k])
                         /\ Own(p[k]) \in used /\ Free(used, p[k]) # {} =>
                              u[k] \in Free(used, p[k])
    BY <1>1, <1>5, Zenon DEF Channels
  <2> DEFINE used == {u[j] : j \in 1..(k - 1)}
  <2>1. Range(f[k - 1]) = used
    <3>1. k - 1 \in 0..n
      BY <1>1
    <3> QED BY <1>10, <3>1, Zenon
  <2> HIDE DEF used
  <2>2. /\ ~(Own(p[k]) \in used /\ Free(used, p[k]) # {}) => u[k] = Own(p[k])
        /\ Own(p[k]) \in used /\ Free(used, p[k]) # {} => u[k] \in Free(used, p[k])
    BY <1>1, <1>6, <2>1, AssignedChannel, Zenon
  <2> QED BY <2>2 DEF used
<1>12. normalize_channels(p) = [k \in 1..n |-> [p[k] EXCEPT !.channel = u[k]]]
  <2>1. n \in 0..n
    BY <1>1
  <2>2. \A k \in 1..n : f[n][k] = u[k]
    BY <1>10, <2>1, Zenon
  <2> QED BY <1>1, <1>2, <2>2
<1> QED BY <1>11, <1>12, Zenon DEF n

(* The hypotheses of ChannelsApart.                                        *)
Roomy(p) ==
  /\ Cardinality({k \in DOMAIN p : p[k].role # "drum"}) <= 9
  /\ Cardinality({k \in DOMAIN p : p[k].role = "drum"}) <= 1
  /\ \A k \in DOMAIN p : p[k].role # "drum" => p[k].channel \in 0..8

LEMMA OneDrummer ==
  ASSUME NEW D, IsFiniteSet(D), Cardinality(D) <= 1, NEW i \in D, NEW j \in D
  PROVE  i = j
<1> SUFFICES ASSUME i # j PROVE FALSE
  OBVIOUS
<1>1. IsFiniteSet({i}) /\ Cardinality({i}) = 1
  BY FS_Singleton
<1>2. Cardinality({i} \cup {j}) = 2
  <2> DEFINE S == {i}
  <2>1. j \notin S
    OBVIOUS
  <2> HIDE DEF S
  <2>2. Cardinality(S \cup {j}) = Cardinality(S) + 1
    BY <1>1, <2>1, FS_AddElement DEF S
  <2> QED BY <1>1, <2>2 DEF S
<1>3. {i} \cup {j} \in SUBSET D
  OBVIOUS
<1>4. Cardinality({i} \cup {j}) <= Cardinality(D) /\ Cardinality(D) \in Nat
  BY <1>3, FS_Subset, FS_CardinalityType
<1> QED BY <1>2, <1>4

(* Nine channels cannot all be in use by fewer than nine players.          *)
InUse(u, J) == \A c \in 0..8 : \E j \in J : u[j] = c

LEMMA ChannelLeft ==
  ASSUME NEW S, IsFiniteSet(S), Cardinality(S) <= 9, NEW k \in S, NEW J \in SUBSET (S \ {k}),
         NEW u, InUse(u, J)
  PROVE  FALSE
<1>1. IsFiniteSet(S \ {k}) /\ Cardinality(S \ {k}) = Cardinality(S) - 1
  BY FS_RemoveElement
<1>2. IsFiniteSet(J) /\ Cardinality(J) <= Cardinality(S \ {k}) /\ Cardinality(J) \in Nat
      /\ Cardinality(S) \in Nat
  BY <1>1, FS_Subset, FS_CardinalityType
<1>3. IsFiniteSet(0..8) /\ Cardinality(0..8) = 9
  <2>1. /\ IsFiniteSet(0..8)
        /\ Cardinality(0..8) = IF 0 > 8 THEN 0 ELSE 8 - 0 + 1
    <3>1. 0 \in Int /\ 8 \in Int
      OBVIOUS
    <3> QED BY ONLY <3>1, FS_Interval, Zenon
  <2> QED BY <2>1
<1>4. Cardinality(J) < Cardinality(0..8)
  BY <1>1, <1>2, <1>3
<1> DEFINE w == [c \in 0..8 |-> CHOOSE j \in J : u[j] = c]
<1>5. \A c \in 0..8 : w[c] \in J /\ u[w[c]] = c
  BY Zenon DEF InUse
<1>6. w \in [0..8 -> J]
  BY <1>5
<1> HIDE DEF w
<1>7. \E x, y \in 0..8 : x # y /\ w[x] = w[y]
  BY <1>2, <1>3, <1>4, <1>6, FS_PigeonHole
<1> QED BY <1>5, <1>7

LEMMA Apart ==
  ASSUME NEW p \in Seq(SomePlayer), NEW u, Channels(u, p, Len(p)), Roomy(p)
  PROVE  /\ \A k \in 1..Len(p) : p[k].role = "drum" <=> u[k] = 9
         /\ \A j, k \in 1..Len(p) : j # k => u[j] # u[k]
<1> DEFINE n == Len(p)
           Drum(k) == p[k].role = "drum"
           D == {k \in DOMAIN p : Drum(k)}
           S == {k \in DOMAIN p : p[k].role # "drum"}
           T == {m \in 0..n :
                   /\ \A k \in 1..m : /\ Drum(k) => u[k] = 9
                                      /\ ~Drum(k) => u[k] \in 0..8
                   /\ \A j, k \in 1..m : j # k => u[j] # u[k]}
<1>1. n \in Nat /\ DOMAIN p = 1..n
  OBVIOUS
<1>2. IsFiniteSet(D) /\ Cardinality(D) <= 1 /\ IsFiniteSet(S) /\ Cardinality(S) <= 9
  <2>1. IsFiniteSet(1..n)
    BY <1>1, FS_Interval
  <2>2. D \in SUBSET (1..n) /\ S \in SUBSET (1..n)
    BY <1>1
  <2>3. IsFiniteSet(D) /\ IsFiniteSet(S)
    BY <2>1, <2>2, FS_Subset, Zenon
  <2> QED BY <2>3 DEF Roomy
<1>3. \A k \in 1..n : ~Drum(k) => p[k].channel \in 0..8
  BY <1>1 DEF Roomy
<1>4. \A i, j \in 1..n : Drum(i) /\ Drum(j) => i = j
  <2> SUFFICES ASSUME NEW i \in 1..n, NEW j \in 1..n, Drum(i), Drum(j) PROVE i = j
    OBVIOUS
  <2>1. i \in D /\ j \in D
    BY <1>1
  <2> HIDE DEF D
  <2> QED BY <1>2, <2>1, OneDrummer
<1>5. 0 \in T
  BY <1>1
<1>6. ASSUME NEW k \in 1..n, k - 1 \in T PROVE k \in T
  <2> DEFINE used == {u[j] : j \in 1..(k - 1)}
  <2>1. /\ \A j \in 1..(k - 1) : /\ Drum(j) => u[j] = 9
                                 /\ ~Drum(j) => u[j] \in 0..8
        /\ \A i, j \in 1..(k - 1) : i # j => u[i] # u[j]
    BY <1>6
  <2>2. /\ ~(Own(p[k]) \in used /\ Free(used, p[k]) # {}) => u[k] = Own(p[k])
        /\ Own(p[k]) \in used /\ Free(used, p[k]) # {} => u[k] \in Free(used, p[k])
    BY Zenon DEF Channels
  <2>3. \A j \in 1..(k - 1) : j \in 1..n /\ j # k
    BY <1>1
  <2>4. /\ Drum(k) => u[k] = 9
        /\ ~Drum(k) => u[k] \in 0..8
        /\ u[k] \notin used
    <3>1. CASE Drum(k)
      <4>1. Own(p[k]) = 9
        BY <3>1 DEF Own
      <4>2. 9 \notin used
        <5>1. \A j \in 1..(k - 1) : ~Drum(j)
          BY <1>4, <2>3, <3>1
        <5>2. \A j \in 1..(k - 1) : u[j] \in 0..8
          BY <2>1, <5>1
        <5> QED BY <5>2
      <4> QED BY <2>2, <3>1, <4>1, <4>2
    <3>2. CASE ~Drum(k)
      <4>1. Own(p[k]) = p[k].channel /\ p[k].channel \in 0..8
            /\ Free(used, p[k]) = (0..8) \ used
        BY <1>3, <3>2 DEF Own, Free
      <4>2. Free(used, p[k]) # {}
        <5> SUFFICES ASSUME Free(used, p[k]) = {} PROVE FALSE
          OBVIOUS
        <5> DEFINE J == {j \in 1..(k - 1) : ~Drum(j)}
        <5>1. \A c \in 0..8 : c \in used
          BY <4>1
        <5>2. \A c \in 0..8 : \E j \in J : u[j] = c
          <6> SUFFICES ASSUME NEW c \in 0..8 PROVE \E j \in J : u[j] = c
            OBVIOUS
          <6>1. PICK j \in 1..(k - 1) : u[j] = c
            BY <5>1
          <6>2. ~Drum(j)
            BY <2>1, <6>1
          <6> QED BY <6>1, <6>2
        <5>3. J \in SUBSET (S \ {k}) /\ k \in S
          BY <1>1, <2>3, <3>2
        <5> HIDE DEF J, S
        <5>4. InUse(u, J)
          BY <5>2, Zenon DEF InUse
        <5> QED BY ONLY <1>2, <5>3, <5>4, ChannelLeft
      <4> HIDE DEF used
      <4>3. CASE Own(p[k]) \in used
        BY <2>2, <3>2, <4>1, <4>2, <4>3
      <4>4. CASE Own(p[k]) \notin used
        BY <2>2, <3>2, <4>1, <4>4
      <4> QED BY <4>3, <4>4
    <3> QED BY <3>1, <3>2
  <2>5. \A j \in 1..(k - 1) : u[j] # u[k]
    BY <2>4
  <2>6. \A j \in 1..k : j = k \/ j \in 1..(k - 1)
    BY <1>1
  <2>7. \A j \in 1..k : /\ Drum(j) => u[j] = 9
                        /\ ~Drum(j) => u[j] \in 0..8
    BY <2>1, <2>4, <2>6, Zenon
  <2>8. \A i, j \in 1..k : i # j => u[i] # u[j]
    BY <2>1, <2>5, <2>6, Zenon
  <2>9. k \in 0..n
    BY <1>1
  <2> QED BY <2>7, <2>8, <2>9
<1> HIDE DEF T
<1>7. 0..n \subseteq T /\ n \in 0..n
  <2>1. n \in Nat /\ 0 \in T /\ \A k \in 1..n : k - 1 \in T => k \in T
    BY <1>1, <1>5, <1>6, Zenon
  <2> HIDE DEF n
  <2> QED BY <2>1, UpTo
<1>8. /\ \A k \in 1..n : /\ Drum(k) => u[k] = 9
                         /\ ~Drum(k) => u[k] \in 0..8
      /\ \A j, k \in 1..n : j # k => u[j] # u[k]
  BY <1>7 DEF T
<1> QED BY <1>8

-----------------------------------------------------------------------------
(* The arrangement.                                                        *)
LEMMA RolesAtEnergy ==
  ASSUME NEW e \in 1..3
  PROVE  /\ role_plays_at_energy("drum", e) /\ role_plays_at_energy("comping", e)
         /\ role_plays_at_energy("bass", e) => e # 1
         /\ role_plays_at_energy("lead", e) => e = 3
<1>1. role_plays_at_energy("drum", e)
  BY DEF role_plays_at_energy
<1>2. role_plays_at_energy("comping", e)
  BY DEF role_plays_at_energy
<1>3. role_plays_at_energy("bass", e) => e # 1
  BY DEF role_plays_at_energy, Mid
<1>4. role_plays_at_energy("lead", e) => e = 3
  BY DEF role_plays_at_energy, High
<1> QED BY <1>1, <1>2, <1>3, <1>4

BassAfterPiano(bp) ==
  /\ DOMAIN bp.instruments \subseteq Nat
  /\ \A i, j \in DOMAIN bp.instruments :
       bp.instruments[i].role = "bass" /\ j < i => bp.instruments[j].role = "comping"

(* Who may be playing, and who may have entered.                           *)
PlaysWell(playing, bp, energy) ==
  /\ playing \subseteq DOMAIN bp.instruments
  /\ \A i \in DOMAIN bp.instruments : bp.instruments[i].role = "drum" => i \in playing
  /\ \A i \in playing : bp.instruments[i].role = "bass" => energy # Low

EntersWell(entered, bp, energy) ==
  \A i \in entered : bp.instruments[i].role = "lead" => energy = High

LEMMA IdealPlays ==
  ASSUME NEW bp, NEW e \in 1..3
  PROVE  /\ PlaysWell(target_indices(bp, e), bp, e) /\ EntersWell(target_indices(bp, e), bp, e)
         /\ \A i \in DOMAIN bp.instruments :
              bp.instruments[i].role = "comping" => i \in target_indices(bp, e)
<1> DEFINE Role(i) == bp.instruments[i].role
<1>1. /\ target_indices(bp, e) \subseteq DOMAIN bp.instruments
      /\ \A i \in DOMAIN bp.instruments :
           i \in target_indices(bp, e) <=> role_plays_at_energy(Role(i), e)
  BY Zenon DEF target_indices
<1>2. \A i \in DOMAIN bp.instruments :
        /\ Role(i) = "drum" => i \in target_indices(bp, e)
        /\ Role(i) = "comping" => i \in target_indices(bp, e)
  BY <1>1, RolesAtEnergy
<1>3. \A i \in target_indices(bp, e) :
        /\ Role(i) = "bass" => e # 1
        /\ Role(i) = "lead" => e = 3
  BY <1>1, RolesAtEnergy
<1> QED BY <1>1, <1>2, <1>3 DEF PlaysWell, EntersWell, Low, High

LEMMA SomeoneEnters ==
  ASSUME NEW bp, BassAfterPiano(bp), NEW e \in 1..3, NEW prev \in 1..3, NEW active,
         PlaysWell(active, bp, prev), e > prev
  PROVE  LET next == AddOne(active, target_indices(bp, e))
         IN  PlaysWell(next, bp, e) /\ EntersWell(next \ active, bp, e)
<1> DEFINE ideal == target_indices(bp, e)
           next == AddOne(active, ideal)
<1>1. PlaysWell(ideal, bp, e) /\ EntersWell(ideal, bp, e) /\ e # Low
  BY IdealPlays DEF Low
<1>2. ideal \subseteq Nat
  BY <1>1 DEF PlaysWell, BassAfterPiano
<1> HIDE DEF ideal
<1>3. active \subseteq next /\ next \ active \subseteq ideal
  <2>1. CASE ideal \subseteq active
    BY <2>1 DEF AddOne
  <2>2. CASE ~(ideal \subseteq active)
    <3>1. next = active \cup {Min(ideal \ active)}
      BY <2>2, Zenon DEF AddOne
    <3>2. ideal \ active # {} /\ ideal \ active \subseteq Nat
      BY <1>2, <2>2
    <3>3. Min(ideal \ active) \in ideal \ active
      BY <3>2, MinOfNat
    <3> QED BY <3>1, <3>3
  <2> QED BY <2>1, <2>2
<1> HIDE DEF next
<1>4. PlaysWell(next, bp, e) /\ EntersWell(next \ active, bp, e)
  BY <1>1, <1>3 DEF PlaysWell, EntersWell
<1> QED BY <1>4 DEF next, ideal

(* The one who leaves when the energy falls to low is the bass: whoever    *)
(* comes before it may stay.                                               *)
LEMMA SomeoneLeaves ==
  ASSUME NEW bp, BassAfterPiano(bp), NEW e \in 1..3, NEW prev \in 1..3, NEW active,
         PlaysWell(active, bp, prev)
  PROVE  LET next == RemoveOne(active, target_indices(bp, e))
         IN  PlaysWell(next, bp, e) /\ EntersWell(next \ active, bp, e)
<1> DEFINE ideal == target_indices(bp, e)
           next == RemoveOne(active, ideal)
           Role(i) == bp.instruments[i].role
           m == Min(active \ ideal)
<1>1. /\ PlaysWell(ideal, bp, e)
      /\ \A i \in DOMAIN bp.instruments : Role(i) = "comping" => i \in ideal
  BY IdealPlays
<1>2. active \subseteq Nat /\ active \subseteq DOMAIN bp.instruments
  BY DEF PlaysWell, BassAfterPiano
<1> HIDE DEF ideal
<1>3. CASE active \subseteq ideal
  <2>1. next = active
    BY <1>3, Zenon DEF RemoveOne
  <2> HIDE DEF next
  <2>2. PlaysWell(next, bp, e) /\ EntersWell(next \ active, bp, e)
    BY <1>1, <1>3, <2>1 DEF PlaysWell, EntersWell
  <2> QED BY <2>2 DEF next, ideal
<1>4. CASE ~(active \subseteq ideal)
  <2>1. next = active \ {m}
    BY <1>4, Zenon DEF RemoveOne
  <2>2. m \in active \ ideal /\ \A i \in active \ ideal : m <= i
    <3>1. active \ ideal # {} /\ active \ ideal \subseteq Nat
      BY <1>2, <1>4
    <3> QED BY <3>1, MinOfNat
  <2> HIDE DEF next, m
  <2>3. \A i \in next : Role(i) = "bass" => e # Low
    <3> SUFFICES ASSUME NEW i \in next, Role(i) = "bass", e = Low PROVE FALSE
      OBVIOUS
    <3>1. i \in active /\ i # m /\ i \notin ideal
      BY <1>1, <2>1 DEF PlaysWell
    <3>2. m <= i /\ m \in Nat /\ i \in Nat
      BY <1>2, <2>2, <3>1
    <3>3. m < i
      BY <3>1, <3>2
    <3>4. Role(m) = "comping"
      BY <1>2, <2>2, <3>1, <3>3 DEF BassAfterPiano
    <3> QED BY <1>1, <1>2, <2>2, <3>4
  <2>4. \A i \in DOMAIN bp.instruments : Role(i) = "drum" => i \in next
    BY <1>1, <2>1, <2>2 DEF PlaysWell
  <2>5. next \subseteq DOMAIN bp.instruments /\ next \ active = {}
    BY <1>2, <2>1
  <2>6. PlaysWell(next, bp, e) /\ EntersWell(next \ active, bp, e)
    BY <2>3, <2>4, <2>5 DEF PlaysWell, EntersWell
  <2> QED BY <2>6 DEF next, ideal
<1> QED BY <1>3, <1>4

LEMMA NextSection ==
  ASSUME NEW bp, BassAfterPiano(bp), NEW e \in 1..3, NEW prev \in 1..3, NEW active,
         PlaysWell(active, bp, prev)
  PROVE  LET next == next_active(active, target_indices(bp, e), e - prev)
         IN  PlaysWell(next, bp, e) /\ EntersWell(next \ active, bp, e)
<1> DEFINE ideal == target_indices(bp, e)
           change == e - prev
           next == next_active(active, ideal, change)
<1>1. change \in Int /\ (change > 0 <=> e > prev)
  OBVIOUS
<1> HIDE DEF change
<1>2. CASE change > 0
  <2>1. next = AddOne(active, ideal)
    BY <1>1, <1>2 DEF next_active
  <2> QED BY <1>1, <1>2, <2>1, SomeoneEnters, Zenon DEF change
<1>3. CASE change < 0
  <2>1. next = RemoveOne(active, ideal)
    BY <1>1, <1>3 DEF next_active
  <2> QED BY <2>1, SomeoneLeaves, Zenon DEF change
<1>4. CASE change = 0
  <2>1. next = ideal
    BY <1>4 DEF next_active
  <2>2. PlaysWell(ideal, bp, e) /\ EntersWell(ideal \ active, bp, e)
    BY IdealPlays DEF EntersWell
  <2> QED BY <2>1, <2>2, Zenon DEF change
<1> QED BY <1>1, <1>2, <1>3, <1>4

-----------------------------------------------------------------------------
(* The blueprint a call starts from, and the one that is planned.          *)
Given(c) == IF c.engine = "prompt" THEN interpret(c.prompt) ELSE c.blueprint
Ready(c) == generate_blueprint(Given(c))

LEMMA CallParts ==
  ASSUME NEW c \in PlanningCalls
  PROVE  /\ c.engine \in {"prompt", "blueprint"} /\ c.args \in AnyArguments
         /\ c.engine = "prompt" => c.prompt \in AnyPrompt
         /\ c.engine = "blueprint" => c.blueprint \in AnyBlueprint
BY DEF PlanningCalls

LEMMA InterpretedPrompt ==
  ASSUME NEW p \in AnyPrompt
  PROVE  FromPrompt(interpret(p))
<1>1. CASE p.literal
  <2>1. interpret(p) = MusicBlueprint
    BY <1>1, Zenon DEF interpret
  <2> QED BY <2>1, LiteralIsFromPrompt
<1>2. CASE ~p.literal
  BY <1>2, PromptPlan
<1> QED BY <1>1, <1>2

LEMMA WiderSequence ==
  ASSUME NEW A, NEW B, A \subseteq B, NEW s \in Seq(A)
  PROVE  s \in Seq(B)
OBVIOUS

LEMMA GivenIsDraft ==
  ASSUME NEW c \in PlanningCalls
  PROVE  Draft(Given(c)) /\ (c.engine = "prompt" => FromPrompt(Given(c)))
<1>1. CASE c.engine = "prompt"
  <2>1. Given(c) = interpret(c.prompt) /\ c.prompt \in AnyPrompt
    BY <1>1, CallParts DEF Given
  <2> QED BY <2>1, InterpretedPrompt DEF FromPrompt
<1>2. CASE c.engine = "blueprint"
  <2> DEFINE bp == c.blueprint
  <2>1. Given(c) = bp /\ bp \in AnyBlueprint
    BY <1>2, CallParts DEF Given
  <2> HIDE DEF bp
  <2>2. /\ bp.energy \in Int /\ bp.sections \in Seq([name : STRING, bars : Int, energy : Int])
        /\ bp.instruments \in Seq([name : STRING, role : STRING, channel : Int])
        /\ bp = Blueprint(bp.root_key, bp.scale, bp.bpm, bp.energy, bp.sections, bp.instruments)
    BY <2>1 DEF AnyBlueprint, Blueprint
  <2>3. /\ [name : STRING, bars : Int, energy : Int] \subseteq SomeSection
        /\ [name : STRING, role : STRING, channel : Int] \subseteq SomePlayer
    BY DEF SomeSection, SomePlayer, Text
  <2>4. bp.sections \in Seq(SomeSection) /\ bp.instruments \in Seq(SomePlayer)
    BY ONLY <2>2, <2>3, WiderSequence, ZenonT(60)
  <2>5. Draft(bp)
    BY <2>2, <2>4 DEF Draft, Blueprint
  <2> QED BY <1>2, <2>1, <2>5
<1> QED BY <1>1, <1>2, CallParts

(* Refused or completed.                                                   *)
LEMMA ReadyCases ==
  ASSUME NEW c \in PlanningCalls
  PROVE  \/ /\ ~Accepted(Given(c)) /\ Ready(c) = MusicBlueprint
            /\ Ready(c).sections = <<>> /\ Ready(c).instruments = <<>>
         \/ /\ Accepted(Given(c))
            /\ Ready(c).sections = Filled(AskedSections(Given(c)), Given(c).energy)
            /\ Ready(c).instruments = normalize_channels(AskedPlayers(Given(c)))
            /\ Ready(c).root_key = Given(c).root_key /\ Ready(c).scale = Given(c).scale
            /\ Ready(c).bpm = Given(c).bpm
<1> DEFINE g == Given(c)
           f == Filled(AskedSections(g), g.energy)
           i == normalize_channels(AskedPlayers(g))
<1>1. Ready(c) = IF ~Accepted(g) THEN MusicBlueprint
                 ELSE Blueprint(g.root_key, g.scale, g.bpm, g.energy, f, i)
  BY GivenIsDraft, Generated, Zenon DEF Ready
<1> HIDE DEF g, f, i
<1>2. CASE ~Accepted(g)
  <2>1. Ready(c) = MusicBlueprint
    BY <1>1, <1>2, Zenon
  <2> QED BY <1>2, <2>1 DEF MusicBlueprint, g
<1>3. CASE Accepted(g)
  <2>1. Ready(c) = Blueprint(g.root_key, g.scale, g.bpm, g.energy, f, i)
    BY <1>1, <1>3, Zenon
  <2>2. /\ Ready(c).sections = f /\ Ready(c).instruments = i /\ Ready(c).root_key = g.root_key
        /\ Ready(c).scale = g.scale /\ Ready(c).bpm = g.bpm
    BY <2>1 DEF Blueprint
  <2> QED BY <1>3, <2>2 DEF f, i, g
<1> QED BY <1>2, <1>3

LEMMA ReadySections ==
  ASSUME NEW c \in PlanningCalls
  PROVE  /\ Ready(c).sections \in Seq(SomeSection)
         /\ \A k \in DOMAIN Ready(c).sections : Ready(c).sections[k].bars \in 1..256
         /\ c.engine = "prompt" =>
              \A k \in DOMAIN Ready(c).sections : Ready(c).sections[k].energy \in 1..3
<1> DEFINE g == Given(c)
           s == AskedSections(g)
           f == Filled(s, g.energy)
<1>1. CASE Ready(c).sections = <<>>
  BY <1>1
<1>2. CASE Accepted(g) /\ Ready(c).sections = f
  <2>1. s \in Seq(SomeSection) /\ g.energy \in Int
    BY GivenIsDraft, DraftAsks
  <2>2. \A k \in DOMAIN s : s[k].bars \in 1..256
    BY <1>2 DEF Accepted
  <2>3. /\ f \in Seq(SomeSection) /\ DOMAIN f = DOMAIN s
        /\ \A k \in DOMAIN s : f[k].bars = s[k].bars
    BY <2>1, FilledSections
  <2>4. c.engine = "prompt" => \A k \in DOMAIN s : f[k].energy \in 1..3
    BY GivenIsDraft DEF FromPrompt
  <2> HIDE DEF f, s
  <2> QED BY <1>2, <2>2, <2>3, <2>4, ZenonT(60)
<1> QED BY <1>1, <1>2, ReadyCases

(* The channels change, the players do not.                                *)
LEMMA NormalizedPlayers ==
  ASSUME NEW p \in Seq(SomePlayer), NEW u, Channels(u, p, Len(p)),
         NEW q, q = [k \in 1..Len(p) |-> [p[k] EXCEPT !.channel = u[k]]]
  PROVE  /\ DOMAIN q = DOMAIN p /\ DOMAIN q = 1..Len(p)
         /\ \A k \in DOMAIN p : /\ q[k].name = p[k].name /\ q[k].role = p[k].role
                                /\ q[k].channel = u[k]
<1>1. DOMAIN p = 1..Len(p) /\ DOMAIN q = 1..Len(p)
  OBVIOUS
<1>2. \A k \in 1..Len(p) : p[k] \in SomePlayer /\ q[k] = [p[k] EXCEPT !.channel = u[k]]
  OBVIOUS
<1>3. \A k \in 1..Len(p) : /\ q[k].name = p[k].name /\ q[k].role = p[k].role
                           /\ q[k].channel = u[k]
  BY <1>2 DEF SomePlayer
<1> QED BY <1>1, <1>3

LEMMA ReadyPlayers ==
  ASSUME NEW c \in PlanningCalls, c.engine = "prompt"
  PROVE  BassAfterPiano(Ready(c))
<1> DEFINE p == AskedPlayers(Given(c))
           q == Ready(c).instruments
<1>1. CASE q = <<>>
  <2>1. DOMAIN q = {}
    BY <1>1
  <2> QED BY <2>1 DEF BassAfterPiano
<1>2. CASE q = normalize_channels(p)
  <2>1. p \in Seq(SomePlayer) /\ PromptPlayers(p)
    BY GivenIsDraft, DraftAsks DEF FromPrompt
  <2> HIDE DEF p
  <2>2. PICK u : /\ Channels(u, p, Len(p))
                 /\ q = [k \in 1..Len(p) |-> [p[k] EXCEPT !.channel = u[k]]]
    BY <1>2, <2>1, Normalized
  <2> HIDE DEF q
  <2>3. /\ DOMAIN q = DOMAIN p /\ DOMAIN q = 1..Len(p)
        /\ \A k \in DOMAIN p : q[k].role = p[k].role
    BY <2>1, <2>2, NormalizedPlayers
  <2>4. DOMAIN q \subseteq Nat
    BY <2>1, <2>3
  <2>5. \A i, j \in DOMAIN q : q[i].role = "bass" /\ j < i => q[j].role = "comping"
    BY <2>1, <2>3 DEF PromptPlayers
  <2> QED BY <2>4, <2>5 DEF q, BassAfterPiano
<1> QED BY <1>1, <1>2, ReadyCases

-----------------------------------------------------------------------------
(* The invariant of the planners: what each step has made of the call.     *)
Arranged(arrangement, bp, sections) ==
  \A k \in 1..Len(arrangement) :
    /\ PlaysWell(arrangement[k], bp, sections[k].energy)
    /\ EntersWell(IF k = 1 THEN arrangement[k] ELSE arrangement[k] \ arrangement[k - 1],
                  bp, sections[k].energy)

Resolved(c, tl) ==
  [key |-> IF c.args.key = "" THEN Ready(c).root_key ELSE c.args.key,
   scale |-> IF c.args.scale = "" THEN Ready(c).scale ELSE c.args.scale,
   bpm |-> IF c.args.bpm = 120 THEN Ready(c).bpm ELSE c.args.bpm,
   bars |-> IF c.args.bars = 4 THEN tl.total_bars ELSE c.args.bars]

PlanInv ==
  /\ call \in PlanningCalls
  /\ step \in {"prompt", "blueprint", "generate", "timeline", "arrangement", "done"}
  /\ step \in {"prompt", "blueprint"} => step = call.engine
  /\ step \in {"prompt", "blueprint", "generate", "timeline"} => at = 0
  /\ step = "generate" => out.blueprint = Given(call)
  /\ step \in {"timeline", "arrangement", "done"} => out.blueprint = Ready(call)
  /\ step \in {"arrangement", "done"} =>
       /\ out.timeline = plan_timeline(Ready(call))
       /\ at \in 0..Len(out.timeline.sections)
       /\ call.engine = "prompt" =>
            /\ out.arrangement \in Seq(SUBSET Nat) /\ Len(out.arrangement) = at
            /\ Arranged(out.arrangement, Ready(call), out.timeline.sections)
  /\ step = "arrangement" =>
       out = [blueprint |-> out.blueprint, timeline |-> out.timeline,
              arrangement |-> out.arrangement]
  /\ step = "done" => /\ at = Len(out.timeline.sections)
                      /\ out.resolved = Resolved(call, out.timeline)

LEMMA PlanInvInit ==
  ASSUME Start(PlanningCalls)
  PROVE  PlanInv
<1>1. call \in PlanningCalls /\ at = 0 /\ step = call.engine
  BY DEF Start
<1>2. call.engine \in {"prompt", "blueprint"}
  BY <1>1, CallParts
<1> QED BY <1>1, <1>2 DEF PlanInv

LEMMA InterpretInv ==
  ASSUME PlanInv, Interpret
  PROVE  PlanInv'
<1>1. /\ call' = call /\ at' = 0 /\ step' = "generate" /\ call \in PlanningCalls
      /\ call.engine = "prompt" /\ out'.blueprint = interpret(call.prompt)
  BY DEF PlanInv, Interpret
<1>2. out'.blueprint = Given(call)
  BY <1>1, Zenon DEF Given
<1> QED BY <1>1, <1>2 DEF PlanInv

LEMMA TakeBlueprintInv ==
  ASSUME PlanInv, TakeBlueprint
  PROVE  PlanInv'
<1>1. /\ call' = call /\ at' = 0 /\ step' = "generate" /\ call \in PlanningCalls
      /\ call.engine = "blueprint" /\ out'.blueprint = call.blueprint
  BY DEF PlanInv, TakeBlueprint
<1>2. out'.blueprint = Given(call)
  BY <1>1 DEF Given
<1> QED BY <1>1, <1>2 DEF PlanInv

LEMMA GenerateInv ==
  ASSUME PlanInv, Generate
  PROVE  PlanInv'
<1>1. /\ call' = call /\ at' = 0 /\ step' = "timeline" /\ call \in PlanningCalls
      /\ out'.blueprint = Ready(call)
  BY DEF PlanInv, Generate, Ready
<1> QED BY <1>1 DEF PlanInv

LEMMA PlanTimelineInv ==
  ASSUME PlanInv, PlanTimeline
  PROVE  PlanInv'
<1> DEFINE bp == Ready(call)
           tl == plan_timeline(bp)
<1>1. /\ call' = call /\ at' = 0 /\ step' = "arrangement" /\ call \in PlanningCalls
      /\ out' = [blueprint |-> bp, timeline |-> tl, arrangement |-> <<>>]
  BY DEF PlanInv, PlanTimeline
<1> HIDE DEF bp, tl
<1>2. out'.blueprint = bp /\ out'.timeline = tl /\ out'.arrangement = <<>>
  BY <1>1
<1>3. PICK a, b : TimelineOf(tl, bp.sections, a, b)
  BY <1>1, ReadySections, TimelineIsLaid DEF tl, bp
<1>4. Len(tl.sections) \in Nat
  BY <1>3 DEF TimelineOf, Laid
<1>5. <<>> \in Seq(SUBSET Nat) /\ Len(<<>>) = 0 /\ Arranged(<<>>, bp, tl.sections)
  BY DEF Arranged
<1>6. out' = [blueprint |-> out'.blueprint, timeline |-> out'.timeline,
              arrangement |-> out'.arrangement]
  BY <1>1, <1>2, Zenon
<1> QED BY <1>1, <1>2, <1>4, <1>5, <1>6 DEF PlanInv, bp, tl

LEMMA ResolveInv ==
  ASSUME PlanInv, Resolve
  PROVE  PlanInv'
<1> DEFINE bp == Ready(call)
           tl == plan_timeline(bp)
           arr == out.arrangement
           res == Resolved(call, tl)
<1>1. /\ call' = call /\ at' = at /\ step' = "done" /\ call \in PlanningCalls
      /\ out.timeline = tl /\ out.blueprint = bp /\ at \in 0..Len(tl.sections)
      /\ at = Len(tl.sections)
      /\ call.engine = "prompt" =>
           /\ arr \in Seq(SUBSET Nat) /\ Len(arr) = at /\ Arranged(arr, bp, tl.sections)
  BY DEF PlanInv, Resolve
<1>2. out' = [blueprint |-> out.blueprint, timeline |-> out.timeline,
              arrangement |-> out.arrangement, resolved |-> Resolved(call, out.timeline)]
  <2>1. out.blueprint = Ready(call)
    BY <1>1
  <2> QED BY <2>1 DEF Resolve, Resolved
<1>3. /\ out'.blueprint = bp /\ out'.timeline = tl /\ out'.arrangement = arr
      /\ out'.resolved = res
  <2> DEFINE r == Resolved(call, out.timeline)
  <2> HIDE DEF r
  <2>1. /\ out'.blueprint = out.blueprint /\ out'.timeline = out.timeline
        /\ out'.arrangement = out.arrangement /\ out'.resolved = r
    BY <1>2 DEF r
  <2> QED BY <1>1, <2>1 DEF r
<1> HIDE DEF bp, tl, res, arr
<1> QED BY <1>1, <1>3 DEF PlanInv, bp, tl, res

LEMMA TimelineEnergies ==
  ASSUME NEW c \in PlanningCalls
  PROVE  /\ Len(plan_timeline(Ready(c)).sections) \in Nat
         /\ c.engine = "prompt" =>
              \A k \in 1..Len(plan_timeline(Ready(c)).sections) :
                plan_timeline(Ready(c)).sections[k].energy \in 1..3
<1> DEFINE bp == Ready(c)
           s == bp.sections
           tl == plan_timeline(bp)
<1>1. PICK a, b : TimelineOf(tl, s, a, b)
  BY ReadySections, TimelineIsLaid
<1>2. DOMAIN s = 1..Len(s)
  BY ReadySections
<1>3. c.engine = "prompt" => \A k \in DOMAIN s : s[k].energy \in 1..3
  BY ReadySections
<1> HIDE DEF s, tl
<1> QED BY <1>1, <1>2, <1>3 DEF TimelineOf, Laid, s, tl

LEMMA OneMoreArranged ==
  ASSUME NEW bp, BassAfterPiano(bp), NEW s, NEW arr \in Seq(SUBSET Nat), NEW k \in Nat,
         Len(arr) = k, Arranged(arr, bp, s), \A i \in 1..(k + 1) : s[i].energy \in 1..3,
         NEW next,
         next = next_active(IF k = 0 THEN {} ELSE arr[k], target_indices(bp, s[k + 1].energy),
                            IF k = 0 THEN 0 ELSE s[k + 1].energy - s[k].energy)
  PROVE  /\ Append(arr, next) \in Seq(SUBSET Nat) /\ Len(Append(arr, next)) = k + 1
         /\ Arranged(Append(arr, next), bp, s)
<1> DEFINE e == s[k + 1].energy
           more == Append(arr, next)
<1>0. e \in 1..3
  OBVIOUS
<1>1. PlaysWell(next, bp, e) /\ EntersWell(IF k = 0 THEN next ELSE next \ arr[k], bp, e)
  <2>1. CASE k = 0
    <3>1. next = target_indices(bp, e)
      BY <2>1 DEF next_active
    <3> QED BY <1>0, <2>1, <3>1, IdealPlays
  <2>2. CASE k # 0
    <3> DEFINE prev == s[k].energy
    <3>1. prev \in 1..3 /\ k \in 1..k
      BY <2>2
    <3>2. PlaysWell(arr[k], bp, prev)
      BY <3>1 DEF Arranged
    <3>3. next = next_active(arr[k], target_indices(bp, e), e - prev)
      BY <2>2, Zenon
    <3> HIDE DEF e, prev
    <3>4. PlaysWell(next, bp, e) /\ EntersWell(next \ arr[k], bp, e)
      BY <1>0, <3>1, <3>2, <3>3, NextSection, Zenon
    <3> QED BY <2>2, <3>4
  <2> QED BY <2>1, <2>2
<1>2. next \in SUBSET Nat
  BY <1>1 DEF PlaysWell, BassAfterPiano
<1>3. /\ more \in Seq(SUBSET Nat) /\ Len(more) = k + 1
      /\ \A i \in 1..k : more[i] = arr[i]
      /\ more[k + 1] = next
  <2>1. /\ more \in Seq(SUBSET Nat) /\ Len(more) = Len(arr) + 1
        /\ \A i \in 1..Len(arr) : more[i] = arr[i]
        /\ more[Len(arr) + 1] = next
    BY <1>2, AppendOne
  <2> QED BY <2>1, Zenon
<1> HIDE DEF more
<1>4. Arranged(more, bp, s)
  <2> SUFFICES ASSUME NEW i \in 1..(k + 1)
               PROVE  /\ PlaysWell(more[i], bp, s[i].energy)
                      /\ EntersWell(IF i = 1 THEN more[i] ELSE more[i] \ more[i - 1],
                                    bp, s[i].energy)
    BY <1>3 DEF Arranged
  <2>1. CASE i \in 1..k
    <3>1. more[i] = arr[i] /\ (i # 1 => more[i - 1] = arr[i - 1])
      <4>1. i # 1 => i - 1 \in 1..k
        BY <2>1
      <4> QED BY <1>3, <2>1, <4>1
    <3>2. /\ PlaysWell(arr[i], bp, s[i].energy)
          /\ EntersWell(IF i = 1 THEN arr[i] ELSE arr[i] \ arr[i - 1], bp, s[i].energy)
      BY <2>1 DEF Arranged
    <3>3. CASE i = 1
      BY <3>1, <3>2, <3>3
    <3>4. CASE i # 1
      BY <3>1, <3>2, <3>4
    <3> QED BY <3>3, <3>4
  <2>2. CASE i = k + 1
    <3>1. more[i] = next /\ (i = 1 <=> k = 0) /\ (i # 1 => i - 1 = k /\ more[i - 1] = arr[k])
      <4>1. i - 1 = k /\ (i = 1 <=> k = 0) /\ (i # 1 => k \in 1..k)
        BY <2>2
      <4> QED BY <1>3, <2>2, <4>1
    <3>2. PlaysWell(more[i], bp, s[i].energy)
      BY <1>1, <2>2, <3>1
    <3>3. CASE k = 0
      BY <1>1, <2>2, <3>1, <3>2, <3>3
    <3>4. CASE k # 0
      BY <1>1, <2>2, <3>1, <3>2, <3>4
    <3> QED BY <3>3, <3>4
  <2> QED BY <2>1, <2>2
<1> QED BY <1>3, <1>4 DEF more

LEMMA PlanSectionInv ==
  ASSUME PlanInv, PlanSection
  PROVE  PlanInv'
<1> DEFINE bp == Ready(call)
           tl == plan_timeline(bp)
           s == tl.sections
           arr == out.arrangement
           ideal == target_indices(bp, s[at + 1].energy)
           change == IF at = 0 THEN 0 ELSE s[at + 1].energy - s[at].energy
           active == IF at = 0 THEN {} ELSE arr[at]
           next == next_active(active, ideal, change)
           more == Append(arr, next)
<1>1. /\ call' = call /\ at' = at + 1 /\ step' = "arrangement" /\ call \in PlanningCalls
      /\ out.timeline = tl /\ out.blueprint = bp /\ at \in 0..Len(s) /\ at < Len(s)
      /\ out = [blueprint |-> out.blueprint, timeline |-> out.timeline, arrangement |-> arr]
      /\ call.engine = "prompt" =>
           arr \in Seq(SUBSET Nat) /\ Len(arr) = at /\ Arranged(arr, bp, s)
  BY DEF PlanInv, PlanSection
<1>2. out' = [out EXCEPT !.arrangement = more]
  BY <1>1 DEF PlanSection
<1>3. Len(s) \in Nat /\ (call.engine = "prompt" => \A k \in 1..Len(s) : s[k].energy \in 1..3)
  BY <1>1, TimelineEnergies
<1>4. call.engine = "prompt" =>
        more \in Seq(SUBSET Nat) /\ Len(more) = at + 1 /\ Arranged(more, bp, s)
  <2> SUFFICES ASSUME call.engine = "prompt"
               PROVE  more \in Seq(SUBSET Nat) /\ Len(more) = at + 1 /\ Arranged(more, bp, s)
    OBVIOUS
  <2>1. BassAfterPiano(bp)
    BY <1>1, ReadyPlayers
  <2>2. \A i \in 1..(at + 1) : s[i].energy \in 1..3
    BY <1>1, <1>3
  <2>3. at \in Nat
    BY <1>1, <1>3
  <2>4. next = next_active(IF at = 0 THEN {} ELSE arr[at],
                           target_indices(bp, s[at + 1].energy),
                           IF at = 0 THEN 0 ELSE s[at + 1].energy - s[at].energy)
    BY Zenon
  <2>5. arr \in Seq(SUBSET Nat) /\ Len(arr) = at /\ Arranged(arr, bp, s)
    BY <1>1
  <2> HIDE DEF bp, s, arr, next
  <2> QED BY ONLY <2>1, <2>2, <2>3, <2>4, <2>5, OneMoreArranged
<1> HIDE DEF bp, tl, arr, more
<1>5. /\ out'.blueprint = bp /\ out'.timeline = tl /\ out'.arrangement = more
      /\ out' = [blueprint |-> bp, timeline |-> tl, arrangement |-> more]
  BY <1>1, <1>2
<1>6. at + 1 \in 0..Len(s)
  BY <1>1, <1>3
<1>7. out' = [blueprint |-> out'.blueprint, timeline |-> out'.timeline,
              arrangement |-> out'.arrangement]
  BY <1>5, Zenon
<1> QED BY <1>1, <1>4, <1>5, <1>6, <1>7 DEF PlanInv, bp, tl

LEMMA PlanInvStep ==
  ASSUME PlanInv, [PlanningNext]_vars
  PROVE  PlanInv'
<1>1. CASE UNCHANGED vars
  BY <1>1 DEF PlanInv, vars
<1>2. CASE PlanningNext
  BY <1>2, InterpretInv, TakeBlueprintInv, GenerateInv, PlanTimelineInv, PlanSectionInv,
     ResolveInv DEF PlanningNext
<1> QED BY <1>1, <1>2

LEMMA BarsTileHolds ==
  ASSUME PlanInv
  PROVE  BarsTile
<1> SUFFICES ASSUME Planned PROVE BarsTile
  BY DEF BarsTile
<1> DEFINE s == out.timeline.sections
           t == out.timeline.transitions
           total == out.timeline.total_bars
           ready == Ready(call).sections
           n == Len(ready)
           OwnersOf(bar) == {k \in DOMAIN s : bar \in s[k].start_bar..(s[k].end_bar - 1)}
           FillsOf(bar) == {k \in DOMAIN t : bar \in s[k].end_bar..(s[k].end_bar + t[k] - 1)}
<1>1. call \in PlanningCalls /\ out.timeline = plan_timeline(Ready(call))
  BY DEF PlanInv, Planned
<1>2. PICK a, b : TimelineOf(out.timeline, ready, a, b)
  BY <1>1, ReadySections, TimelineIsLaid
<1> HIDE DEF ready, n, s, t, total
<1>3. /\ Laid(a, b, t, n) /\ n \in Nat
      /\ DOMAIN s = 1..n /\ Len(s) = n /\ DOMAIN t = 1..(n - 1)
      /\ \A k \in 1..n : s[k].start_bar = a[k] /\ s[k].end_bar = b[k]
      /\ s # <<>> => n > 0
      /\ n = 0 => total = 0
      /\ n > 0 => total = b[n]
  BY <1>2, Zenon DEF TimelineOf, Laid, s, t, total, n
<1>4. ASSUME NEW bar \in 0..(total - 1)
      PROVE  Cardinality(OwnersOf(bar)) + Cardinality(FillsOf(bar)) = 1
  <2>1. n > 0
    BY <1>3, <1>4
  <2>2. OwnersOf(bar) = Owners(a, b, n, bar)
    BY <1>3 DEF Owners
  <2>3. FillsOf(bar) = Fills(b, t, n, bar)
    <3>1. \A k \in 1..(n - 1) : k \in 1..n
      BY <1>3
    <3>2. \A k \in 1..(n - 1) : s[k].end_bar = b[k]
      BY <1>3, <3>1
    <3> QED BY <1>3, <3>2 DEF Fills
  <2>4. bar \in 0..(b[n] - 1)
    BY <1>3, <2>1
  <2> HIDE DEF OwnersOf, FillsOf
  <2> QED BY <1>3, <2>1, <2>2, <2>3, <2>4, Tiles
<1>5. ASSUME NEW k \in DOMAIN t PROVE s[k].end_bar <= s[k + 1].start_bar
  <2>1. k \in 1..(n - 1) /\ k \in 1..n /\ k + 1 \in 1..n /\ k < k + 1
    BY <1>3
  <2>2. b[k] <= a[k + 1]
    BY <1>3, <2>1, InOrder
  <2> QED BY <1>3, <2>1, <2>2
<1>6. s # <<>> => Last(s).end_bar = total
  <2>1. n > 0 => n \in 1..n
    BY <1>3
  <2> QED BY <1>3, <2>1 DEF Last
<1>7. /\ \A bar \in 0..(total - 1) : Cardinality(OwnersOf(bar)) + Cardinality(FillsOf(bar)) = 1
      /\ \A k \in DOMAIN t : s[k].end_bar <= s[k + 1].start_bar
      /\ s # <<>> => Last(s).end_bar = total
  BY <1>4, <1>5, <1>6, Zenon
<1> QED BY <1>7, Zenon DEF BarsTile, s, t, total

LEMMA DrumsPlayHolds ==
  ASSUME PlanInv
  PROVE  DrumsPlayBassRests
<1> SUFFICES ASSUME call.engine = "prompt", step = "done" PROVE DrumsPlayBassRests
  BY DEF DrumsPlayBassRests
<1> DEFINE arr == out.arrangement
           s == out.timeline.sections
           bp == Ready(call)
<1>1. /\ out.blueprint = bp /\ arr \in Seq(SUBSET Nat) /\ Arranged(arr, bp, s)
  BY DEF PlanInv
<1>2. DOMAIN arr = 1..Len(arr)
  BY <1>1
<1> HIDE DEF bp, s, arr
<1>3. ASSUME NEW k \in DOMAIN arr
      PROVE  LET playing == arr[k]
                 Role(i) == bp.instruments[i].role
                 energy == s[k].energy
                 entered == IF k = 1 THEN playing ELSE playing \ arr[k - 1]
             IN  /\ \A i \in DOMAIN bp.instruments : Role(i) = "drum" => i \in playing
                 /\ \A i \in playing : Role(i) = "bass" => energy # Low
                 /\ \A i \in entered : Role(i) = "lead" => energy = High
  BY <1>1, <1>2, Zenon DEF Arranged, PlaysWell, EntersWell
<1> QED BY <1>1, <1>3, Zenon DEF DrumsPlayBassRests, arr, s

(* ChannelsApart of the players that are asked for.                        *)
LEMMA ChannelsOfPlan ==
  ASSUME NEW c \in PlanningCalls, Accepted(Given(c)), NEW inst,
         inst = normalize_channels(AskedPlayers(Given(c))),
         Cardinality({k \in DOMAIN inst : inst[k].role # "drum"}) <= 9,
         Cardinality({k \in DOMAIN inst : inst[k].role = "drum"}) <= 1,
         \A k \in DOMAIN AskedPlayers(Given(c)) :
           AskedPlayers(Given(c))[k].role # "drum" => AskedPlayers(Given(c))[k].channel \in 0..8
  PROVE  \A j, k \in DOMAIN inst :
           /\ j # k => inst[j].channel # inst[k].channel
           /\ inst[j].role = "drum" <=> inst[j].channel = 9
<1> DEFINE p == AskedPlayers(Given(c))
<1>1. p \in Seq(SomePlayer)
  BY GivenIsDraft, DraftAsks
<1> HIDE DEF p
<1>2. PICK u : /\ Channels(u, p, Len(p))
               /\ inst = [k \in 1..Len(p) |-> [p[k] EXCEPT !.channel = u[k]]]
  BY <1>1, Normalized DEF p
<1>3. /\ DOMAIN inst = DOMAIN p /\ DOMAIN inst = 1..Len(p)
      /\ \A k \in DOMAIN p : inst[k].role = p[k].role /\ inst[k].channel = u[k]
  BY <1>1, <1>2, NormalizedPlayers
<1>4. Roomy(p)
  <2>1. {k \in DOMAIN inst : inst[k].role # "drum"} = {k \in DOMAIN p : p[k].role # "drum"}
    BY <1>3
  <2>2. {k \in DOMAIN inst : inst[k].role = "drum"} = {k \in DOMAIN p : p[k].role = "drum"}
    BY <1>3
  <2>3. \A k \in DOMAIN p : p[k].role # "drum" => p[k].channel \in 0..8
    BY DEF p
  <2> QED BY <2>1, <2>2, <2>3 DEF Roomy
<1>5. /\ \A k \in 1..Len(p) : p[k].role = "drum" <=> u[k] = 9
      /\ \A j, k \in 1..Len(p) : j # k => u[j] # u[k]
  BY <1>1, <1>2, <1>4, Apart
<1> QED BY <1>3, <1>5

LEMMA ChannelsApartHolds ==
  ASSUME PlanInv
  PROVE  ChannelsApart
<1> DEFINE inst == out.blueprint.instruments
           asked == IF call.engine = "prompt" THEN inst ELSE call.blueprint.instruments
           p == AskedPlayers(Given(call))
<1> SUFFICES ASSUME Planned,
                    Cardinality({k \in DOMAIN inst : inst[k].role # "drum"}) <= 9,
                    Cardinality({k \in DOMAIN inst : inst[k].role = "drum"}) <= 1,
                    \A k \in DOMAIN asked : asked[k].role # "drum" => asked[k].channel \in 0..8
             PROVE  \A j, k \in DOMAIN inst :
                      /\ j # k => inst[j].channel # inst[k].channel
                      /\ inst[j].role = "drum" <=> inst[j].channel = 9
  BY Zenon DEF ChannelsApart
<1>1. call \in PlanningCalls /\ inst = Ready(call).instruments
  BY DEF PlanInv, Planned
<1>2. CASE inst = <<>>
  <2>1. DOMAIN inst = {}
    BY <1>2
  <2> QED BY <2>1
<1>3. CASE Accepted(Given(call)) /\ inst = normalize_channels(p)
  <2>1. \A k \in DOMAIN p : p[k].role # "drum" => p[k].channel \in 0..8
    <3>1. CASE call.engine = "prompt"
      BY <1>1, <3>1, GivenIsDraft DEF FromPrompt, PromptPlayers
    <3>2. CASE call.engine # "prompt"
      <4>1. Given(call) = call.blueprint /\ asked = call.blueprint.instruments
        BY <3>2 DEF Given
      <4>2. CASE asked = <<>>
        <5>1. p = SubSeq(kInstruments, 1, 3)
          BY <4>1, <4>2, Zenon DEF AskedPlayers
        <5> QED BY <5>1, DefaultPlayers DEF PromptPlayers
      <4>3. CASE asked # <<>>
        <5>1. p = asked
          BY <4>1, <4>3, Zenon DEF AskedPlayers
        <5> QED BY <5>1
      <4> QED BY <4>2, <4>3
    <3> QED BY <3>1, <3>2
  <2> HIDE DEF inst
  <2> QED BY <1>1, <1>3, <2>1, ChannelsOfPlan
<1> QED BY <1>1, <1>2, <1>3, ReadyCases

LEMMA PieceHasBars ==
  ASSUME NEW a, NEW b, NEW t, NEW n, Laid(a, b, t, n), n > 0
  PROVE  b[n] \in Int /\ b[n] >= 1
<1>1. n \in 1..n /\ 1 \in 1..n /\ n \in Nat
  BY DEF Laid
<1>2. a[1] = 0 /\ a[1] < b[1] /\ a[n] < b[n] /\ b[1] \in Int /\ a[n] \in Int /\ b[n] \in Int
  BY <1>1 DEF Laid
<1>3. 1 < n => b[1] <= a[n]
  BY <1>1, InOrder
<1> QED BY <1>1, <1>2, <1>3

LEMMA ResolvedFields ==
  ASSUME NEW c, NEW tl
  PROVE  /\ Resolved(c, tl).key = IF c.args.key = "" THEN Ready(c).root_key ELSE c.args.key
         /\ Resolved(c, tl).bars = IF c.args.bars = 4 THEN tl.total_bars ELSE c.args.bars
<1> DEFINE key == IF c.args.key = "" THEN Ready(c).root_key ELSE c.args.key
           scale == IF c.args.scale = "" THEN Ready(c).scale ELSE c.args.scale
           bpm == IF c.args.bpm = 120 THEN Ready(c).bpm ELSE c.args.bpm
           bars == IF c.args.bars = 4 THEN tl.total_bars ELSE c.args.bars
<1>1. Resolved(c, tl) = [key |-> key, scale |-> scale, bpm |-> bpm, bars |-> bars]
  BY Zenon DEF Resolved
<1> HIDE DEF key, scale, bpm, bars
<1>2. Resolved(c, tl).key = key /\ Resolved(c, tl).bars = bars
  BY <1>1
<1> QED BY <1>2 DEF key, bars

(* The sections and players of the default piece.                          *)
LEMMA DefaultNames ==
  /\ Names(make_default_sections) = Names(kWithoutBridge)
  /\ Names(SubSeq(kInstruments, 1, 3)) = {"piano", "bass", "drums"}
<1>1. Names(make_default_sections) = Names(kWithoutBridge)
  <2> DEFINE s == kWithoutBridge
             d == make_default_sections
  <2>1. s \in Seq(PlannedSection) /\ DOMAIN s = 1..4
    BY SectionTable DEF kWithoutBridge
  <2>2. d = [k \in 1..4 |-> [s[k] EXCEPT !.energy = 0]]
    BY <2>1, Zenon DEF make_default_sections
  <2> HIDE DEF s, d
  <2>3. \A k \in DOMAIN s : s[k] \in PlannedSection
    BY ONLY <2>1, SMTT(40)
  <2>4. DOMAIN d = DOMAIN s /\ \A k \in DOMAIN s : d[k].name = s[k].name
    BY <2>1, <2>2, <2>3 DEF PlannedSection
  <2>5. Names(d) = Names(s)
    BY <2>4 DEF Names
  <2> QED BY <2>5 DEF d, s
<1>2. Names(SubSeq(kInstruments, 1, 3)) = {"piano", "bass", "drums"}
  <2> DEFINE q == SubSeq(kInstruments, 1, 3)
  <2>1. /\ DOMAIN q = 1..3
        /\ q[1].name = "piano" /\ q[2].name = "bass" /\ q[3].name = "drums"
    BY DEF kInstruments, Player
  <2> HIDE DEF q
  <2>2. 1..3 = {1, 2, 3}
    OBVIOUS
  <2>3. Names(q) = {"piano", "bass", "drums"}
    BY <2>1, <2>2 DEF Names
  <2> QED BY <2>3 DEF q
<1> QED BY <1>1, <1>2

(* A blueprint that the generator accepts is played as it was asked for.   *)
LEMMA AcceptedIsPlayed ==
  ASSUME PlanInv, step = "done", call.engine = "prompt", Accepted(Given(call))
  PROVE  /\ out.resolved.bars >= 1
         /\ Names(out.timeline.sections) = Names(AskedSections(Given(call)))
         /\ Names(out.blueprint.instruments) = Names(AskedPlayers(Given(call)))
         /\ out.blueprint.root_key = Given(call).root_key
         /\ out.blueprint.scale = Given(call).scale /\ out.blueprint.bpm = Given(call).bpm
         /\ call.args.key = "" => out.resolved.key \in DOMAIN key_table
<1> DEFINE g == Given(call)
           tl == out.timeline
           inst == out.blueprint.instruments
           s == AskedSections(g)
           i == AskedPlayers(g)
           sections == Ready(call).sections
           n == Len(sections)
<1>1. /\ call \in PlanningCalls /\ out.blueprint = Ready(call)
      /\ tl = plan_timeline(Ready(call)) /\ out.resolved = Resolved(call, tl)
  BY DEF PlanInv
<1>2. call.args \in AnyArguments
  BY <1>1, CallParts
<1>3. /\ sections = Filled(s, g.energy)
      /\ inst = normalize_channels(i)
      /\ Ready(call).root_key = g.root_key /\ g.root_key \in DOMAIN key_table
      /\ Ready(call).scale = g.scale /\ Ready(call).bpm = g.bpm
  BY <1>1, ReadyCases DEF Accepted
<1>4. /\ s \in Seq(SomeSection) /\ s # <<>> /\ i \in Seq(SomePlayer) /\ g.energy \in Int
  BY <1>1, GivenIsDraft, DraftAsks
<1>5. PICK a, b : TimelineOf(tl, sections, a, b)
  BY <1>1, ReadySections, TimelineIsLaid
<1> HIDE DEF tl, s, i, g, sections, inst
<1>6. /\ sections \in Seq(SomeSection) /\ Len(sections) = Len(s) /\ DOMAIN sections = DOMAIN s
      /\ \A k \in DOMAIN s : sections[k].name = s[k].name
  BY <1>3, <1>4, FilledSections
<1>7. n > 0 /\ n \in Nat /\ DOMAIN sections = 1..n
  BY <1>4, <1>6
<1> HIDE DEF n
<1>8. /\ Laid(a, b, tl.transitions, n) /\ tl.total_bars = b[n] /\ DOMAIN tl.sections = 1..n
      /\ \A k \in 1..n : tl.sections[k].name = sections[k].name
  BY <1>5, <1>7 DEF TimelineOf, n
<1>9. tl.total_bars \in Int /\ tl.total_bars >= 1
  BY <1>7, <1>8, PieceHasBars
<1>10. out.resolved.bars >= 1
  <2>1. call.args.bars \in Nat \ {0}
    BY <1>2 DEF AnyArguments
  <2>2. out.resolved.bars = IF call.args.bars = 4 THEN tl.total_bars ELSE call.args.bars
    BY <1>1, ResolvedFields, Zenon
  <2> QED BY <1>9, <2>1, <2>2
<1>11. call.args.key = "" => out.resolved.key \in DOMAIN key_table
  <2>1. out.resolved.key = IF call.args.key = "" THEN Ready(call).root_key ELSE call.args.key
    BY <1>1, ResolvedFields, Zenon
  <2> QED BY <1>3, <2>1
<1>12. Names(tl.sections) = Names(s)
  <2>1. DOMAIN tl.sections = DOMAIN s /\ \A k \in DOMAIN s : tl.sections[k].name = s[k].name
    BY <1>6, <1>7, <1>8
  <2> QED BY <2>1 DEF Names
<1>13. Names(inst) = Names(i)
  <2>1. PICK u : /\ Channels(u, i, Len(i))
                 /\ inst = [k \in 1..Len(i) |-> [i[k] EXCEPT !.channel = u[k]]]
    BY <1>3, <1>4, Normalized
  <2>2. DOMAIN inst = DOMAIN i /\ \A k \in DOMAIN i : inst[k].name = i[k].name
    BY <1>4, <2>1, NormalizedPlayers
  <2> QED BY <2>2 DEF Names
<1> QED BY <1>1, <1>3, <1>10, <1>11, <1>12, <1>13 DEF tl, s, i, g, inst

(* Of a blueprint that the generator refuses nothing is left.              *)
LEMMA RefusedIsEmpty ==
  ASSUME PlanInv, step = "done", call.engine = "prompt", ~Accepted(Given(call))
  PROVE  /\ call.args.bars = 4 => out.resolved.bars = 0
         /\ Names(out.timeline.sections) = {} /\ Names(out.blueprint.instruments) = {}
<1> DEFINE tl == out.timeline
           sections == Ready(call).sections
<1>1. /\ call \in PlanningCalls /\ out.blueprint = Ready(call)
      /\ tl = plan_timeline(Ready(call)) /\ out.resolved = Resolved(call, tl)
  BY DEF PlanInv
<1>2. sections = <<>> /\ out.blueprint.instruments = <<>>
  BY <1>1, ReadyCases
<1>3. PICK a, b : TimelineOf(tl, sections, a, b)
  BY <1>1, ReadySections, TimelineIsLaid
<1> HIDE DEF tl, sections
<1>4. DOMAIN tl.sections = 1..0 /\ tl.total_bars = 0
  BY <1>2, <1>3 DEF TimelineOf
<1>5. out.resolved.bars = IF call.args.bars = 4 THEN tl.total_bars ELSE call.args.bars
  BY <1>1, ResolvedFields, Zenon
<1>6. Names(tl.sections) = {}
  BY <1>4 DEF Names
<1>7. Names(<<>>) = {}
  BY DEF Names
<1> QED BY <1>2, <1>4, <1>5, <1>6, <1>7 DEF tl

LEMMA PromptBecomesPieceHolds ==
  ASSUME PlanInv
  PROVE  PromptBecomesPiece
<1> DEFINE p == call.prompt
           bp == out.blueprint
           g == Given(call)
           sections == Names(out.timeline.sections)
           players == Names(bp.instruments)
           Kept == /\ out.resolved.bars >= 1
                   /\ call.args.key = "" => out.resolved.key \in DOMAIN key_table
                   /\ Names(p.parts) \subseteq sections /\ p.instruments \subseteq players
           Lost == /\ call.args.bars = 4 => out.resolved.bars = 0
                   /\ sections = {} /\ players = {}
           Standard ==
             /\ out.resolved.bars >= 1
             /\ bp.root_key = "C" /\ bp.scale = "major" /\ bp.bpm = 120
             /\ sections = Names(kWithoutBridge) /\ players = {"piano", "bass", "drums"}
<1> SUFFICES ASSUME call.engine = "prompt", step = "done"
             PROVE  /\ ~p.literal /\ ~Refused(p) => Kept
                    /\ ~p.literal /\ Refused(p) => Lost
                    /\ p.literal => Standard
  BY Zenon DEF PromptBecomesPiece
<1>1. call \in PlanningCalls
  BY DEF PlanInv
<1>2. p \in AnyPrompt /\ g = interpret(p)
  BY <1>1, CallParts DEF Given
<1>3. ASSUME ~p.literal, ~Refused(p) PROVE Kept
  <2>1. /\ Accepted(g)
        /\ \A k \in DOMAIN p.parts : \E j \in DOMAIN AskedSections(g) :
             AskedSections(g)[j].name = p.parts[k].name
        /\ \A name \in p.instruments : \E j \in DOMAIN AskedPlayers(g) :
             AskedPlayers(g)[j].name = name
    BY <1>2, <1>3, PromptPlan
  <2>2. /\ Names(p.parts) \subseteq Names(AskedSections(g))
        /\ p.instruments \subseteq Names(AskedPlayers(g))
    <3> DEFINE asked == AskedSections(g)
               band == AskedPlayers(g)
    <3> HIDE DEF asked, band
    <3> QED BY <2>1 DEF Names, asked, band
  <2> QED BY <2>1, <2>2, AcceptedIsPlayed, Zenon
<1>4. ASSUME ~p.literal, Refused(p) PROVE Lost
  <2>1. ~Accepted(g)
    BY <1>2, <1>4, PromptPlan
  <2> QED BY <2>1, RefusedIsEmpty, Zenon
<1>5. ASSUME p.literal PROVE Standard
  <2>1. g = MusicBlueprint
    BY <1>2, <1>5, Zenon DEF interpret
  <2>2. /\ Accepted(g) /\ AskedSections(g) = make_default_sections
        /\ AskedPlayers(g) = SubSeq(kInstruments, 1, 3)
    BY <2>1, LiteralPrompt
  <2>3. g.root_key = "C" /\ g.scale = "major" /\ g.bpm = 120
    BY <2>1 DEF MusicBlueprint
  <2> HIDE DEF g
  <2> QED BY <2>2, <2>3, AcceptedIsPlayed, DefaultNames, Zenon DEF g
<1> QED BY <1>3, <1>4, <1>5, Zenon

(* PlanSound: whatever the prompt and whatever the blueprint of another    *)
(* caller, sections and fills tile the piece, the drums play and the bass  *)
(* rests where a prompt leads to, and no two instruments share a channel   *)
(* (BlueprintGenerator, TimelinePlanner and ArrangementPlanner).           *)
THEOREM PlanIsSound == PlanningSpec => []PlanSound
<1>1. Start(PlanningCalls) => PlanInv
  BY PlanInvInit
<1>2. PlanInv /\ [PlanningNext]_vars => PlanInv'
  BY PlanInvStep
<1>3. PlanInv => PlanSound
  BY BarsTileHolds, DrumsPlayHolds, ChannelsApartHolds DEF PlanSound
<1> QED BY <1>1, <1>2, <1>3, PTL DEF PlanningSpec

(* PromptBecomesPiece: what the interpreter makes of a prompt passes the   *)
(* generator, and nothing the prompt names is lost on the way to mte_cli's *)
(* arguments, but for a tempo below 40 and the key E#, of which nothing is *)
(* left; a prompt for literal notes ends as the default piece.             *)
THEOREM PromptAlwaysBecomesPiece == PlanningSpec => []PromptBecomesPiece
<1>1. Start(PlanningCalls) => PlanInv
  BY PlanInvInit
<1>2. PlanInv /\ [PlanningNext]_vars => PlanInv'
  BY PlanInvStep
<1>3. PlanInv => PromptBecomesPiece
  BY PromptBecomesPieceHolds
<1> QED BY <1>1, <1>2, <1>3, PTL DEF PlanningSpec

=============================================================================
