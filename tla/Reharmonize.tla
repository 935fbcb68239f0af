---------------------------- MODULE Reharmonize ----------------------------
(***************************************************************************)
(* ReharmonizeEngine (engine/cpp/src/theory/reharmonize_engine.cpp): new   *)
(* chords for a progression, in one of five styles, chord by chord, and    *)
(* their voicings by ChordEngine.  Inversions and velocities are left out: *)
(* a voiced chord is its place and its pitch classes.                      *)
(***************************************************************************)
EXTENDS EngineCall

Original(i) == parse_chord_name(call.chords[i])
Degree(pc) == find_degree(pc, call.key, call.scale)
Diatonics == diatonic_chords(call.key, call.scale)

(* What each style puts in the place of chord i: a set of sequences of     *)
(* names, one for every outcome of the draws.                              *)

(* Richer qualities by degree, whatever the scale.                         *)
simple_reharm(i) ==
  LET c == Original(i)
      opts == <<{"maj", "maj7"}, {"min", "m7"}, {"min", "m7"}, {"maj", "maj7"},
                {"7", "maj7"}, {"min", "m7"}, {"dim", "m7b5"}>>
      d == Degree(c.root_pc)
  IN {<<chord_name(c.root_pc, q)>> : q \in IF d >= 0 THEN opts[d + 1] ELSE {c.quality}}

(* A V that goes to I or vi becomes ii-V, sometimes with the tritone       *)
(* substitute; other chords get sevenths.                                  *)
jazz_reharm(i) ==
  LET c == Original(i)
      d == Degree(c.root_pc)
      next_is_target == /\ i < Len(call.chords)
                        /\ \E t \in {1, 6} \cap DOMAIN Diatonics :
                             Diatonics[t].root_pc = Original(i + 1).root_pc
      jz_quality == CASE c.quality = "maj" -> IF d = 4 THEN "7" ELSE "maj7"
                      [] c.quality = "min" -> "m7"
                      [] c.quality = "dim" -> "m7b5"
                      [] OTHER -> c.quality
  IN IF d = 4 /\ next_is_target
     THEN {<<chord_name(Diatonics[2].root_pc, "m7"), chord_name(pc, "7")>> :
             pc \in {(parse_root_pc(call.key) + 1) % 12, c.root_pc}}
     ELSE {<<chord_name(c.root_pc, jz_quality)>>}

(* The mode that is drawn goes unused; the mode is that of the scale, the  *)
(* major one if the scale is none of the seven.                            *)
kModes == <<"ionian", "dorian", "phrygian", "lydian", "mixolydian", "aeolian", "locrian">>
kMajorRow == <<"maj", "min", "min", "maj", "maj", "min", "dim">>

modal_reharm(i) ==
  LET c == Original(i)
      found == SelectInSeq(kModes, LAMBDA m : m = call.scale)
      mode == IF found = 0 THEN 0 ELSE found - 1
      d == Degree(c.root_pc)
  IN {<<chord_name(c.root_pc, IF d >= 0 THEN kMajorRow[((mode + d) % 7) + 1] ELSE c.quality)>>}

(* Mutant: the passing chord takes the place of the chord it leads to.     *)
chromatic_reharmInstead(i) ==
  LET c == Original(i)
  IN {<<chord_name((c.root_pc + dir + 12) % 12, "7")>> : dir \in {1, -1}}

(* Perhaps a chord a semitone off before it, and a coloured quality.       *)
chromatic_reharm(i) ==
  LET c == Original(i)
      before == {<<>>} \cup (IF i = 1 THEN {} ELSE
                  {<<chord_name((c.root_pc + dir + 12) % 12, q)>> :
                     dir \in {1, -1}, q \in {"dim", "7"}})
      colours == CASE Degree(c.root_pc) = 4 /\ i > 1 -> {"7", "dim7"}
                   [] OTHER ->
                      CASE c.quality = "maj" -> {"maj", "maj7", "aug"}
                        [] c.quality = "min" -> {"min", "m7", "dim"}
                        [] c.quality = "dim" -> {"dim", "dim7"}
                        [] OTHER -> {c.quality}
  IN {b \o <<chord_name(c.root_pc, q)>> : b \in before, q \in colours}

pedal_reharm(i) ==
  {<<chord_name(c.root_pc, q)>> :
     c \in Range(Diatonics), q \in {"7", "maj7", "m7"}} \cup
  {<<chord_name(c.root_pc, c.quality)>> : c \in Range(Diatonics)}

Replacements(i) ==
  CASE call.style = "simple" -> simple_reharm(i)
    [] call.style = "jazz" -> jazz_reharm(i)
    [] call.style = "modal" -> modal_reharm(i)
    [] call.style = "chromatic" -> chromatic_reharm(i)
    [] call.style = "pedal" -> pedal_reharm(i)

(* The last pass of the jazz style: the vi of I-vi-ii-V becomes the        *)
(* dominant of ii.                                                         *)
Turnaround(names) ==
  LET Root(k) == parse_chord_name(names[k]).root_pc
      D(n) == Diatonics[n].root_pc
      IsTurn(k) == /\ Root(k) = parse_root_pc(call.key) /\ Root(k + 1) = D(6)
                   /\ Root(k + 2) = D(2) /\ Root(k + 3) = D(5)
  IN [k \in DOMAIN names |->
        IF Len(Diatonics) >= 6 /\ k > 1 /\ k + 2 <= Len(names) /\ IsTurn(k - 1)
        THEN chord_name((D(2) + 7) % 12, "7") ELSE names[k]]

(* Without bars or a melody the chords stay as they were.                  *)
KeepChords ==
  /\ step = "reharmonize" /\ (call.bars < 1 \/ call.melody = <<>>)
  /\ out' = call.chords
  /\ step' = "voicings" /\ UNCHANGED <<call, at>>

ReharmonizeChord ==
  /\ step = "reharmonize" /\ call.bars >= 1 /\ call.melody # <<>>
  /\ at < Len(call.chords)
  /\ \E names \in Replacements(at + 1) : out' = out \o names
  /\ at' = at + 1 /\ UNCHANGED <<call, step>>

ReharmonizeEnd ==
  /\ step = "reharmonize" /\ call.bars >= 1 /\ call.melody # <<>>
  /\ at = Len(call.chords)
  /\ out' = IF call.style = "jazz" THEN Turnaround(out) ELSE out
  /\ step' = "voicings" /\ UNCHANGED <<call, at>>

(* Mutant: the bars are divided by the chords that were asked for.         *)
generate_voicingsOld(names, bars) ==
  LET ticks_per_chord == kTicksPerBar * Max({1, bars \div Max({1, Len(call.chords)})})
  IN [i \in DOMAIN names |->
        LET c == parse_chord_name(names[i])
        IN [root_pc |-> c.root_pc, quality |-> c.quality,
            start |-> (i - 1) * ticks_per_chord, length |-> ticks_per_chord,
            pcs |-> {(c.root_pc + o) % 12 : o \in Range(offsets_for(c.quality))}]]

(* generate_voicings: equal shares of whole bars, at least one each.       *)
generate_voicings(names, bars) ==
  LET ticks_per_chord == kTicksPerBar * Max({1, bars \div Max({1, Len(names)})})
  IN [i \in DOMAIN names |->
        LET c == parse_chord_name(names[i])
        IN [root_pc |-> c.root_pc, quality |-> c.quality,
            start |-> (i - 1) * ticks_per_chord, length |-> ticks_per_chord,
            pcs |-> {(c.root_pc + o) % 12 : o \in Range(offsets_for(c.quality))}]]

Voicings ==
  /\ step = "voicings"
  /\ out' = generate_voicings(out, call.bars)
  /\ step' = "done" /\ UNCHANGED <<call, at>>

ReharmonizeNext == KeepChords \/ ReharmonizeChord \/ ReharmonizeEnd \/ Voicings

(* Chords in any spelling of a root and with a suffix the engine knows, as *)
(* quality_suffix returns a dangling pointer for any other.                *)
kRoots == kKeyNames \cup {"Cb", "E#", "Fb", "B#"}
kSuffixes ==
  {"", "maj", "m", "min", "7", "m7", "maj7", "dim", "dim7", "m7b5", "aug"}
ChordSymbols == Seq(kRoots \X kSuffixes)

(* Any key and any scale, also ones that are not in the tables.            *)
ReharmonizeCalls ==
  [engine : {"reharmonize"}, style : {"simple", "jazz", "modal", "chromatic", "pedal"},
   key : STRING, scale : STRING, chords : ChordSymbols, bars : Int,
   melody : Seq([on : Nat, off : Nat, note : 0..127])]

ReharmonizeSpec == Start(ReharmonizeCalls) /\ [][ReharmonizeNext]_vars

-----------------------------------------------------------------------------
Reharmonized == call.engine = "reharmonize" /\ step = "done"

(* Strictly increasing maps of the original chords to the new ones.        *)
Embeddings(n, m) ==
  {f \in [1..n -> 1..m] : \A i \in 1..(n - 1) : f[i] < f[i + 1]}

(* The progression can be found in what became of it: every chord in its   *)
(* order on its root and before it at most one chord that leads to it.     *)
(* The jazz style may put the dominant of ii in the place of a chord, and  *)
(* its tritone substitute in that of a chord on the fifth degree, if that  *)
(* is a perfect fifth above the tonic.  Where it is not (locrian, the      *)
(* pentatonic scales) the chord that comes there is the one a semitone     *)
(* above the tonic all the same, and is no substitute of the old one.  Of  *)
(* the pedal style only the degrees are kept.                              *)
ProgressionRecognisable ==
  Reharmonized =>
    LET n == Len(call.chords)
        m == Len(out)
        tonic == parse_root_pc(call.key)
        ii == Diatonics[2].root_pc
        v == Diatonics[5].root_pc
        Substitute == IF v = (tonic + 7) % 12 THEN (v + 6) % 12 ELSE (tonic + 1) % 12
        Stands(new, old) ==
          \/ new = old
          \/ call.style = "jazz" /\ new = (ii + 7) % 12
          \/ call.style = "jazz" /\ old = v /\ new = Substitute
        Leads(new, next) ==
          \/ call.style = "jazz" /\ new = ii
          \/ call.style = "chromatic" /\ (new - next) % 12 \in {1, 11}
    IN IF call.style = "pedal" /\ call.bars >= 1 /\ call.melody # <<>>
       THEN m = n /\ \A i \in 1..m : find_degree(out[i].root_pc, call.key, call.scale) >= 0
       ELSE \E f \in Embeddings(n, m) :
              /\ n > 0 => f[1] <= 2 /\ f[n] = m
              /\ \A i \in 1..n :
                   LET prev == IF i = 1 THEN 0 ELSE f[i - 1]
                   IN /\ Stands(out[f[i]].root_pc, Original(i).root_pc)
                      /\ f[i] - prev <= 2
                      /\ f[i] - prev = 2 => Leads(out[f[i] - 1].root_pc, out[f[i]].root_pc)

(* However many chords a style adds, the voicings follow each other        *)
(* without gap or overlap, and they leave the bars of the melody only if   *)
(* there are more chords than bars.                                        *)
VoicingsFillTheBars ==
  Reharmonized =>
    /\ \A i \in DOMAIN out :
         out[i].start = (IF i = 1 THEN 0 ELSE out[i - 1].start + out[i - 1].length)
    /\ out # <<>> /\ Len(out) <= call.bars =>
         LET end == Last(out).start + Last(out).length
         IN end <= call.bars * kTicksPerBar /\ end > (call.bars - Len(out)) * kTicksPerBar

(* What a style makes of a progression is still that progression, and fits *)
(* under the melody.                                                       *)
ReharmonizationSound == ProgressionRecognisable /\ VoicingsFillTheBars

=============================================================================
