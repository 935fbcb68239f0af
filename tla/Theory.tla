------------------------------- MODULE Theory -------------------------------
(***************************************************************************)
(* What the theory engines (engine/cpp/src/theory) have in common: names   *)
(* of keys and chords, scales, the chords on the degrees of a scale and    *)
(* the tones of a chord.  A name of a chord is a root and a suffix;        *)
(* strings are not taken apart further.                                    *)
(***************************************************************************)
EXTENDS Integers, Sequences, SequencesExt, FiniteSetsExt, TLC

kPpq == 480
kTicksPerBar == 4 * kPpq

-----------------------------------------------------------------------------
(* Names.  A key that is not in the table counts as C.                     *)
kKeyNames ==
  {"C", "C#", "Db", "D", "D#", "Eb", "E", "F", "F#", "Gb", "G", "G#", "Ab", "A", "A#", "Bb", "B"}

key_table ==
  [key \in kKeyNames |->
     CASE key = "C" -> 0 [] key \in {"C#", "Db"} -> 1 [] key = "D" -> 2
       [] key \in {"D#", "Eb"} -> 3 [] key = "E" -> 4 [] key = "F" -> 5
       [] key \in {"F#", "Gb"} -> 6 [] key = "G" -> 7 [] key \in {"G#", "Ab"} -> 8
       [] key = "A" -> 9 [] key \in {"A#", "Bb"} -> 10 [] key = "B" -> 11]

parse_root_pc(key) == IF key \in DOMAIN key_table THEN key_table[key] ELSE 0

pc_name_sharp(pc) ==
  <<"C", "C#", "D", "D#", "E", "F", "F#", "G", "G#", "A", "A#", "B">>[(pc % 12) + 1]

quality_suffix(q) == CASE q = "maj" -> "" [] q = "min" -> "m" [] OTHER -> q

chord_name(pc, q) == <<pc_name_sharp(pc), quality_suffix(q)>>

Chord(pc, q) == [root_pc |-> pc, quality |-> q]

parse_chord_name(name) ==
  Chord(parse_root_pc(name[1]),
        CASE name[2] = "" -> "maj" [] name[2] = "m" -> "min" [] OTHER -> name[2])

-----------------------------------------------------------------------------
(* ScaleProvider, and the triads an engine puts on the degrees of a scale. *)
kScales ==
  [major |-> <<0, 2, 4, 5, 7, 9, 11>>, minor |-> <<0, 2, 3, 5, 7, 8, 10>>,
   harmonic_minor |-> <<0, 2, 3, 5, 7, 8, 11>>, melodic_minor |-> <<0, 2, 3, 5, 7, 9, 11>>,
   pentatonic_major |-> <<0, 2, 4, 7, 9>>, pentatonic_minor |-> <<0, 3, 5, 7, 10>>,
   blues |-> <<0, 3, 5, 6, 7, 10>>, ionian |-> <<0, 2, 4, 5, 7, 9, 11>>,
   dorian |-> <<0, 2, 3, 5, 7, 9, 10>>, phrygian |-> <<0, 1, 3, 5, 7, 8, 10>>,
   lydian |-> <<0, 2, 4, 6, 7, 9, 11>>, mixolydian |-> <<0, 2, 4, 5, 7, 9, 10>>,
   aeolian |-> <<0, 2, 3, 5, 7, 8, 10>>, locrian |-> <<0, 1, 3, 5, 6, 8, 10>>]

intervals_of(scale) == IF scale \in DOMAIN kScales THEN kScales[scale] ELSE <<>>

intervals_for(scale, root) ==
  LET base == intervals_of(scale) IN [i \in DOMAIN base |-> (base[i] + root) % 12]

qualities_for_scale(scale) ==
  CASE scale \in {"minor", "natural_minor"} ->
         <<"min", "dim", "maj", "min", "min", "maj", "maj">>
    [] scale = "harmonic_minor" -> <<"min", "dim", "aug", "min", "maj", "maj", "dim">>
    [] scale = "melodic_minor" -> <<"min", "min", "aug", "maj", "maj", "dim", "dim">>
    [] OTHER -> <<"maj", "min", "min", "maj", "maj", "min", "dim">>

diatonic_chords(key, scale) ==
  LET own == intervals_of(scale)
      intervals == IF own = <<>> THEN intervals_of("major") ELSE own
  IN [i \in DOMAIN intervals |->
        Chord((parse_root_pc(key) + intervals[i]) % 12, qualities_for_scale(scale)[i])]

(* The first degree, from 0, with this root, or -1.                        *)
find_degree(pc, key, scale) ==
  LET chords == diatonic_chords(key, scale)
  IN SelectInSeq(chords, LAMBDA c : c.root_pc = pc) - 1

(* The tones of a chord as ChordEngine and OrchestrationEngine build them. *)
offsets_for(q) ==
  CASE q = "min" -> <<0, 3, 7>>
    [] q = "7" -> <<0, 4, 7, 10>>
    [] q = "m7" -> <<0, 3, 7, 10>>
    [] q = "maj7" -> <<0, 4, 7, 11>>
    [] q = "m7b5" -> <<0, 3, 6, 10>>
    [] q = "dim" -> <<0, 3, 6>>
    [] q = "dim7" -> <<0, 3, 6, 9>>
    [] OTHER -> <<0, 4, 7>>

Note(on, off, note) == [on |-> on, off |-> off, note |-> note]

(* What a chord sounds like, with the augmented one ChordEngine lacks.     *)
PitchClasses(c) ==
  {(c.root_pc + o) % 12 : o \in IF c.quality = "aug" THEN {0, 4, 8} ELSE Range(offsets_for(c.quality))}

=============================================================================
