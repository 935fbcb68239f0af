---------------------------- MODULE Counterpoint ----------------------------
(***************************************************************************)
(* CounterpointEngine (engine/cpp/src/theory/counterpoint_engine.cpp): a   *)
(* voice above a bass, a note a slot (first species) or a strong and a     *)
(* passing one (second species).  Each note is drawn from the candidates   *)
(* the rules leave; rules that leave none are dropped.  Velocities are     *)
(* left out.                                                               *)
(***************************************************************************)
EXTENDS EngineCall

kMinMidi == 60
kMaxMidi == 84
kConsonantIntervals == {0, 3, 4, 7, 8, 9}

interval_class(note, bass) == (note - bass) % 12
is_consonant(ic) == ic \in kConsonantIntervals
cf_direction(prev, curr) == IF curr > prev THEN 1 ELSE IF curr < prev THEN -1 ELSE 0

valid_midi_notes(bass) ==
  {n \in kMinMidi..kMaxMidi : is_consonant(interval_class(n, bass))}

(* Without any candidate: the bass an octave up, from kMinMidi on.         *)
Octave(bass) == kMinMidi + ((bass - (kMinMidi % 12) + 12) % 12)
Drawn(candidates, bass) == IF candidates = {} THEN {Octave(bass)} ELSE candidates

Parallel(prev_ic, ic) == prev_ic = ic /\ ic \in {0, 7}

(* Mutant: the filter only looks at the direction.                         *)
filterParallels(candidates, bass, i, n, prev, prev_ic, cf) ==
  LET cf_dir == IF i <= Len(cf) /\ i > 1 THEN cf_direction(cf[i - 1], cf[i]) ELSE 0
      filtered == {c \in candidates : cf_dir # 0 => cf_direction(prev, c) = -cf_dir}
  IN IF filtered = {} THEN candidates ELSE filtered

(* The slots are numbered from 1 here.  The first and the last note make   *)
(* an octave; the others move against the cantus firmus, if it moves and   *)
(* reaches so far, and not in parallel octaves or fifths.                  *)
filter_first_species(candidates, bass, i, n, prev, prev_ic, cf) ==
  LET perfect == {c \in candidates : interval_class(c, bass) = 0}
      cf_dir == IF i <= Len(cf) /\ i > 1 THEN cf_direction(cf[i - 1], cf[i]) ELSE 0
      filtered == {c \in candidates :
                     /\ ~Parallel(prev_ic, interval_class(c, bass))
                     /\ cf_dir # 0 => cf_direction(prev, c) = -cf_dir}
      kept == IF i \in {1, n} THEN perfect ELSE IF prev >= 0 THEN filtered ELSE candidates
  IN IF kept = {} THEN candidates ELSE kept

(* A note up to three semitones from the one before, in a drawn direction. *)
Passing(prev, bass, dir) ==
  LET near == {prev + dir * s : s \in 1..3} \cap (kMinMidi..kMaxMidi)
  IN {p \in near : is_consonant(interval_class(p, bass)) \/ interval_class(p, bass) \in {1, 2, 5}}

Bass(i) == call.bass[i]
Slots == Len(call.bass)
slot_ticks == (call.bars * call.ppq * 4) \div Slots
PerSlot == IF call.species = "first" THEN 1 ELSE 2

(* The note before the next one, and its interval; -1 before the first.    *)
PrevNote == IF out = <<>> THEN -1 ELSE Last(out).note
PrevIc ==
  IF out = <<>> THEN -1
  ELSE interval_class(PrevNote, Bass((Len(out) - 1) \div PerSlot + 1))

Strong(i) ==
  Drawn(filter_first_species(valid_midi_notes(Bass(i)), Bass(i), i, Slots,
                             PrevNote, PrevIc, call.cf), Bass(i))

Weak(i) ==
  UNION {LET p == Passing(PrevNote, Bass(i), dir)
         IN IF p = {} THEN Drawn(valid_midi_notes(Bass(i)), Bass(i)) ELSE p : dir \in {1, -1}}

Slot == Len(out) \div PerSlot + 1
Emit(tick, len, candidates) ==
  \E c \in candidates : out' = Append(out, Note(tick, tick + len - 5, c))

(* CounterpointEngine.generate; without a bass or a cantus firmus there is *)
(* no voice.                                                               *)
NoVoice ==
  /\ step = "counterpoint" /\ (call.bass = <<>> \/ call.cf = <<>>)
  /\ step' = "done"
  /\ UNCHANGED <<call, out, at>>

FirstSpecies ==
  /\ step = "counterpoint" /\ call.species = "first"
  /\ call.bass # <<>> /\ call.cf # <<>>
  /\ Emit((Slot - 1) * slot_ticks, slot_ticks, Strong(Slot))
  /\ step' = IF Slot = Slots THEN "done" ELSE step
  /\ UNCHANGED <<call, at>>

SecondSpecies ==
  /\ step = "counterpoint" /\ call.species = "second"
  /\ call.bass # <<>> /\ call.cf # <<>>
  /\ LET sub == Len(out) % 2
         sub_slot == slot_ticks \div 2
     IN /\ Emit((Slot - 1) * slot_ticks + sub * sub_slot, sub_slot,
                IF sub = 0 THEN Strong(Slot) ELSE Weak(Slot))
        /\ step' = IF Slot = Slots /\ sub = 1 THEN "done" ELSE step
  /\ UNCHANGED <<call, at>>

CounterpointNext == NoVoice \/ FirstSpecies \/ SecondSpecies

(* Any bass and any cantus firmus.                                         *)
CounterpointCalls ==
  [engine : {"counterpoint"}, species : {"first", "second"}, bass : Seq(Int), cf : Seq(Int),
   bars : Int, ppq : Int]

CounterpointSpec == Start(CounterpointCalls) /\ [][CounterpointNext]_vars

-----------------------------------------------------------------------------
IsVoice == call.engine = "counterpoint"
BassOf(k) == Bass((k - 1) \div PerSlot + 1)
Ic(k) == interval_class(out[k].note, BassOf(k))

(* The engine writes parallel octaves or fifths over the bass in three     *)
(* places only, which the notes themselves show: octaves into the last     *)
(* slot, which has to be an octave; a passing note after a note at the top *)
(* of the register or at most two semitones above its lower end, where the *)
(* direction drawn leads out of it; and an inner note after one so near to *)
(* the end of the register that contrary motion finds no other consonance  *)
(* on that side, six semitones for octaves and four for fifths.            *)
ParallelsOnlyAtTheEdge ==
  IsVoice =>
    \A k \in 2..Len(out) :
      LET i == (k - 1) \div PerSlot + 1
          prev == out[k - 1].note
          reach == IF Ic(k) = 0 THEN 6 ELSE 4
      IN Parallel(Ic(k - 1), Ic(k)) =>
           IF PerSlot = 2 /\ k % 2 = 0
           THEN prev = kMaxMidi \/ prev <= kMinMidi + 2
           ELSE \/ i = Slots /\ Ic(k) = 0
                \/ /\ i < Slots /\ i <= Len(call.cf)
                   /\ \/ call.cf[i] > call.cf[i - 1] /\ prev < kMinMidi + reach
                      \/ call.cf[i] < call.cf[i - 1] /\ prev > kMaxMidi - reach

=============================================================================
