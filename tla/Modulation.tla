----------------------------- MODULE Modulation -----------------------------
(***************************************************************************)
(* ModulationEngine (engine/cpp/src/theory/modulation_engine.cpp): the     *)
(* chord two keys share, the chords that lead from one to the other, and   *)
(* the keys a step away on the circle of fifths.                           *)
(***************************************************************************)
EXTENDS EngineCall

(* Sharps, or flats below zero, of the major keys, in the engine's order.  *)
all_major_keys ==
  <<<<-7, "Cb">>, <<-6, "Gb">>, <<-5, "Db">>, <<-4, "Ab">>, <<-3, "Eb">>, <<-2, "Bb">>,
    <<-1, "F">>, <<0, "C">>, <<1, "G">>, <<2, "D">>, <<3, "A">>, <<4, "E">>, <<5, "B">>,
    <<6, "F#">>, <<7, "C#">>>>

major_key_accidentals(key) ==
  LET i == SelectInSeq(all_major_keys, LAMBDA k : k[2] = key)
  IN IF i = 0 THEN 0 ELSE all_major_keys[i][1]

flat_relatives ==
  [Cb |-> "Ab", Gb |-> "Eb", Db |-> "Bb", Ab |-> "F", Eb |-> "C", Bb |-> "G", F |-> "D"]

relative_minor_of(major) ==
  IF major_key_accidentals(major) >= 0 THEN pc_name_sharp(parse_root_pc(major) + 9)
  ELSE flat_relatives[major]

MinorScales == {"minor", "natural_minor", "harmonic_minor", "melodic_minor"}

(* Mutant: the relative major is taken a major third up.                   *)
key_accidentalsThird(key, scale) ==
  IF scale \in MinorScales
  THEN major_key_accidentals(pc_name_sharp(parse_root_pc(key) + 4))
  ELSE major_key_accidentals(key)

(* A minor key has those of its relative major, if that is spelt with a    *)
(* sharp or without accidental.                                            *)
key_accidentals(key, scale) ==
  IF scale \in MinorScales
  THEN major_key_accidentals(pc_name_sharp(parse_root_pc(key) + 3))
  ELSE major_key_accidentals(key)

Near(a, b) == a - b \in -1..1

are_closely_related(key1, scale1, key2, scale2) ==
  Near(key_accidentals(key1, scale1), key_accidentals(key2, scale2))

(* A major key at most a signature away, and its relative minor, in turn.  *)
closely_related_keys(key, scale) ==
  LET result[k \in 0..Len(all_major_keys)] ==
        IF k = 0 THEN <<>>
        ELSE IF Near(all_major_keys[k][1], key_accidentals(key, scale))
             THEN result[k - 1] \o
                    <<all_major_keys[k][2], relative_minor_of(all_major_keys[k][2])>>
             ELSE result[k - 1]
  IN result[Len(all_major_keys)]

-----------------------------------------------------------------------------
None == <<>>

(* Mutant: any common root is taken before a common chord is looked for.   *)
find_pivot_chordByRoot(from, to) ==
  LET fc == diatonic_chords(from.key, from.scale)
      tc == diatonic_chords(to.key, to.scale)
      common == SelectInSeq(tc, LAMBDA c : \E i \in DOMAIN fc : fc[i].root_pc = c.root_pc)
  IN IF common = 0 THEN None ELSE chord_name(tc[common].root_pc, tc[common].quality)

(* A chord of both keys, best the dominant of the target; else the first   *)
(* chord of the target whose root the other key has too.                   *)
find_pivot_chord(from, to) ==
  LET fc == diatonic_chords(from.key, from.scale)
      tc == diatonic_chords(to.key, to.scale)
      v == IF Len(tc) >= 5 THEN tc[5].root_pc ELSE -1
      strongest == SelectInSeq(fc, LAMBDA c : Contains(tc, c) /\ c.root_pc = v)
      shared == SelectInSeq(fc, LAMBDA c : Contains(tc, c))
      common == SelectInSeq(tc, LAMBDA c : \E i \in DOMAIN fc : fc[i].root_pc = c.root_pc)
      Name(c) == chord_name(c.root_pc, c.quality)
  IN CASE strongest # 0 -> Name(fc[strongest])
       [] strongest = 0 /\ shared # 0 -> Name(fc[shared])
       [] strongest = 0 /\ shared = 0 /\ common # 0 -> Name(tc[common])
       [] OTHER -> None

(* Mutant: the tonic is left out.                                          *)
CadenceLate(to, bars_left) ==
  LET degree == intervals_for(to.scale, parse_root_pc(to.key))
      q == qualities_for_scale(to.scale)
  IN <<Chord(degree[2], q[2]), Chord(degree[5], q[5])>>

(* II, V and I of the target, as far as the bars go.  The dominant seventh *)
(* needs a bar after it and a major or harmonic minor target.              *)
Cadence(to, bars_left) ==
  LET degree == intervals_for(to.scale, parse_root_pc(to.key))
      q == qualities_for_scale(to.scale)
      v_q == IF to.scale \in {"major", "harmonic_minor"} /\ bars_left > 1 THEN "7" ELSE q[5]
      whole == <<Chord(degree[2], q[2]), Chord(degree[5], v_q), Chord(degree[1], q[1])>>
  IN SubSeq(whole, 1, Min({bars_left, 3}))

generate_modulation(from, to, bars) ==
  LET pivot == find_pivot_chord(from, to)
      first == IF pivot = None THEN <<>> ELSE <<parse_chord_name(pivot)>>
      bars_left == bars - Len(first)
      degrees == Len(intervals_for(to.scale, parse_root_pc(to.key)))
  IN IF bars <= 0 THEN <<>>
     ELSE first \o (IF degrees >= 5 /\ bars_left > 0 THEN Cadence(to, bars_left) ELSE <<>>)

Modulate ==
  /\ step = "modulate"
  /\ out' = generate_modulation(call.from, call.to, call.bars)
  /\ step' = "done" /\ UNCHANGED <<call, at>>

RelatedKeys ==
  /\ step = "related"
  /\ out' = closely_related_keys(call.from.key, call.from.scale)
  /\ step' = "done" /\ UNCHANGED <<call, at>>

ModulationNext == Modulate \/ RelatedKeys

(* Keys of the table, in any scale for a modulation.                       *)
ModulationCalls ==
  [engine : {"modulate"}, bars : Int,
   from : [key : kKeyNames, scale : STRING], to : [key : kKeyNames, scale : STRING]]
  \cup [engine : {"related"}, from : [key : kKeyNames, scale : {"major", "minor"}]]

ModulationSpec == Start(ModulationCalls) /\ [][ModulationNext]_vars

-----------------------------------------------------------------------------
(* The notes of a key, whatever its spelling.                              *)
NotesOf(key, scale) ==
  {(kScales[scale][i] + (IF key = "Cb" THEN 11 ELSE key_table[key])) % 12 : i \in 1..7}

SpelledScales == {"major", "minor", "harmonic_minor", "melodic_minor"}

(* The chord the modulation starts with belongs to both keys, root and     *)
(* all, whenever some triad does.  The reference stacks thirds on the      *)
(* scales and knows nothing of the tables of qualities.                    *)
PivotBelongsToBoth ==
  LET Thirds(s, d) == {s[d], s[((d + 1) % 7) + 1], s[((d + 3) % 7) + 1]}
      Triads(k) == LET s == [i \in 1..7 |-> (kScales[k.scale][i] + key_table[k.key]) % 12]
                   IN {<<s[d], Thirds(s, d)>> : d \in 1..7}
  IN call.engine = "modulate" /\ out # <<>>
     /\ {call.from.scale, call.to.scale} \subseteq SpelledScales
     /\ Triads(call.from) \cap Triads(call.to) # {}
     => <<out[1].root_pc, PitchClasses(out[1])>> \in Triads(call.from) \cap Triads(call.to)

(* A modulation never takes more bars than it was given, and what the bars *)
(* cut off is its end: with enough of them it closes with the dominant and *)
(* the tonic of the target key.                                            *)
ModulationArrives ==
  call.engine = "modulate" /\ step = "done" /\ Len(intervals_of(call.to.scale)) = 7 =>
    LET tonic == parse_root_pc(call.to.key)
        n == Len(out)
    IN /\ n <= Max({call.bars, 0})
       /\ call.bars >= 4 =>
            /\ n >= 3
            /\ out[n].root_pc = tonic
            /\ out[n - 1].root_pc = (tonic + intervals_of(call.to.scale)[5]) % 12

(* Every key that closely_related_keys names, major and minor in turn,     *)
(* shares six of its seven notes with the key asked about, and the two     *)
(* operations agree.  Major keys without a signature and minor keys whose  *)
(* relative major is only spelt with a flat (of C, F and G) are beyond it. *)
RelatedKeysShareSixNotes ==
  /\ call.engine = "related"
  /\ call.from.scale = "minor" => call.from.key \notin {"C", "F", "G"}
  /\ call.from.scale = "major" => call.from.key \notin {"D#", "G#", "A#"}
  =>
    \A i \in DOMAIN out :
      LET scale == IF i % 2 = 1 THEN "major" ELSE "minor"
      IN /\ Cardinality(NotesOf(out[i], scale) \cap
                        NotesOf(call.from.key, call.from.scale)) >= 6
         /\ i % 2 = 1 => are_closely_related(call.from.key, call.from.scale, out[i], scale)

(* The three of them: a modulation leaves through a chord of both keys and *)
(* arrives, and the keys next to a key are next to it.                     *)
ModulationSound == PivotBelongsToBoth /\ ModulationArrives /\ RelatedKeysShareSixNotes

=============================================================================
