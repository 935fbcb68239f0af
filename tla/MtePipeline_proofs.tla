------------------------- MODULE MtePipeline_proofs -------------------------
(***************************************************************************)
(* Theorems about one run of mte_cli, for any number of bars.              *)
(***************************************************************************)
EXTENDS MtePipeline, FiniteSetTheorems, TLAPS

(* How specific the templates are.                                         *)
LEMMA ScoreOfTemplate ==
  ASSUME NEW m, m[2] \in 1..5
  PROVE  Score(m) = IF m[2] \in {1, 2} THEN 2 ELSE 3
<1>1. /\ kTemplates[1].intervals = {4, 7} /\ kTemplates[2].intervals = {3, 7}
      /\ kTemplates[3].intervals = {4, 7, 10} /\ kTemplates[4].intervals = {3, 7, 10}
      /\ kTemplates[5].intervals = {4, 7, 11}
  BY DEF kTemplates
<1>2. ASSUME NEW x \in Int, NEW y \in Int, x # y
      PROVE  Cardinality({x, y}) = 2 /\ IsFiniteSet({x, y})
  <2>1. Cardinality({x}) = 1 /\ IsFiniteSet({x})
    BY FS_Singleton
  <2>2. {x, y} = {x} \cup {y}
    OBVIOUS
  <2> QED BY <1>2, <2>1, <2>2, FS_AddElement
<1>3. ASSUME NEW x \in Int, NEW y \in Int, NEW z \in Int, x # y, x # z, y # z
      PROVE  Cardinality({x, y, z}) = 3
  <2>1. Cardinality({x, y}) = 2 /\ IsFiniteSet({x, y})
    BY <1>2, <1>3
  <2>2. {x, y, z} = {x, y} \cup {z} /\ z \notin {x, y}
    BY <1>3
  <2> QED BY <2>1, <2>2, FS_AddElement
<1>4. /\ Cardinality({4, 7}) = 2 /\ Cardinality({3, 7}) = 2
      /\ Cardinality({4, 7, 10}) = 3 /\ Cardinality({3, 7, 10}) = 3 /\ Cardinality({4, 7, 11}) = 3
  BY <1>2, <1>3
<1>5. m[2] = 1 \/ m[2] = 2 \/ m[2] = 3 \/ m[2] = 4 \/ m[2] = 5
  OBVIOUS
<1> QED BY <1>1, <1>4, <1>5 DEF Score

(* The pitch classes of a voiced chord do not depend on its inversion.     *)
LEMMA InversionKeepsPitchClasses ==
  ASSUME NEW inv \in 0..2
  PROVE  /\ {n % 12 : n \in voicing(Chord(2, "m7"), inv)} = {0, 2, 5, 9}
         /\ {n % 12 : n \in voicing(Chord(7, "7"), inv)} = {2, 5, 7, 11}
         /\ {n % 12 : n \in voicing(Chord(0, "maj7"), inv)} = {0, 4, 7, 11}
<1> DEFINE low(i) == IF i <= inv THEN 12 ELSE 0
<1>1. \A i \in 1..4 : low(i) \in {0, 12}
  OBVIOUS
<1>2. /\ voicing(Chord(2, "m7"), inv) = {50 - low(1), 53 - low(2), 57 - low(3), 60 - low(4)}
      /\ voicing(Chord(7, "7"), inv) = {55 - low(1), 59 - low(2), 62 - low(3), 65 - low(4)}
      /\ voicing(Chord(0, "maj7"), inv) = {48 - low(1), 52 - low(2), 55 - low(3), 59 - low(4)}
  <2>1. /\ offsets_for("m7") = <<0, 3, 7, 10>> /\ offsets_for("7") = <<0, 4, 7, 10>>
        /\ offsets_for("maj7") = <<0, 4, 7, 11>>
    BY DEF offsets_for
  <2>2. DOMAIN <<0, 3, 7, 10>> = {1, 2, 3, 4} /\ DOMAIN <<0, 4, 7, 10>> = {1, 2, 3, 4}
        /\ DOMAIN <<0, 4, 7, 11>> = {1, 2, 3, 4}
    OBVIOUS
  <2> QED BY <2>1, <2>2 DEF voicing, Chord
<1> HIDE DEF low
<1>3. {n % 12 : n \in {50 - low(1), 53 - low(2), 57 - low(3), 60 - low(4)}}
        = {0, 2, 5, 9}
  <2>1. /\ (50 - low(1)) % 12 = 2 /\ (53 - low(2)) % 12 = 5
        /\ (57 - low(3)) % 12 = 9 /\ (60 - low(4)) % 12 = 0
    BY <1>1
  <2> QED BY <2>1, Zenon
<1>4. {n % 12 : n \in {55 - low(1), 59 - low(2), 62 - low(3), 65 - low(4)}}
        = {2, 5, 7, 11}
  <2>1. /\ (55 - low(1)) % 12 = 7 /\ (59 - low(2)) % 12 = 11
        /\ (62 - low(3)) % 12 = 2 /\ (65 - low(4)) % 12 = 5
    BY <1>1
  <2> QED BY <2>1, Zenon
<1>5. {n % 12 : n \in {48 - low(1), 52 - low(2), 55 - low(3), 59 - low(4)}}
        = {0, 4, 7, 11}
  <2>1. /\ (48 - low(1)) % 12 = 0 /\ (52 - low(2)) % 12 = 4
        /\ (55 - low(3)) % 12 = 7 /\ (59 - low(4)) % 12 = 11
    BY <1>1
  <2> QED BY <2>1, Zenon
<1> QED BY <1>2, <1>3, <1>4, <1>5, Zenon

(* The most specific match, where only one is of that size.                *)
LEMMA OnlySpecificMatch ==
  ASSUME NEW notes, NEW best \in Matches({n % 12 : n \in notes}),
         best[2] \in {3, 4, 5},
         \A m \in Matches({n % 12 : n \in notes}) : m[2] \in {3, 4, 5} => m = best
  PROVE  detect_chord(notes) = Chord(best[1], kTemplates[best[2]].name)
<1> DEFINE found == Matches({n % 12 : n \in notes})
           Best(m) == \A n \in found \ {m} : Before(m, n)
<1>1. \A m \in found : m[2] \in 1..5
  BY DEF Matches, kTemplates
<1>2. \A m \in found : Score(m) = IF m[2] \in {1, 2} THEN 2 ELSE 3
  <2> HIDE DEF found
  <2> QED BY <1>1, ScoreOfTemplate
<1>3. \A m \in found \ {best} : Score(m) = 2 /\ Score(best) = 3
  <2>1. best \in found /\ \A m \in found : m[2] \in {3, 4, 5} => m = best
    OBVIOUS
  <2> HIDE DEF found
  <2> QED BY <1>1, <1>2, <2>1
<1> HIDE DEF found
<1>4. best \in found /\ Best(best)
  BY <1>3 DEF Before, found
<1>5. \A m \in found : Best(m) => m = best
  BY <1>3, <1>4 DEF Before
<1>6. (CHOOSE m \in found : Best(m)) = best
  BY <1>4, <1>5, Zenon
<1> QED BY <1>4, <1>6 DEF detect_chord, found

(* The matches among the pitch classes of the three chords.                *)
LEMMA MatchesOfTheChords ==
  /\ \A m \in Matches({0, 2, 5, 9}) : m[2] \in {3, 4, 5} => m = <<2, 4>>
  /\ <<2, 4>> \in Matches({0, 2, 5, 9})
  /\ \A m \in Matches({2, 5, 7, 11}) : m[2] \in {3, 4, 5} => m = <<7, 3>>
  /\ <<7, 3>> \in Matches({2, 5, 7, 11})
  /\ \A m \in Matches({0, 4, 7, 11}) : m[2] \in {3, 4, 5} => m = <<0, 5>>
  /\ <<0, 5>> \in Matches({0, 4, 7, 11})
<1>1. /\ DOMAIN kTemplates = {1, 2, 3, 4, 5}
      /\ kTemplates[3].intervals = {4, 7, 10} /\ kTemplates[4].intervals = {3, 7, 10}
      /\ kTemplates[5].intervals = {4, 7, 11}
  BY DEF kTemplates
<1>2. ASSUME NEW pcs, NEW m \in Matches(pcs), m[2] \in {3, 4, 5}
      PROVE  /\ m = <<m[1], m[2]>> /\ m[1] \in pcs
             /\ \/ m[2] = 3 /\ {4, 7, 10} \subseteq {(pc - m[1] + 12) % 12 : pc \in pcs \ {m[1]}}
                \/ m[2] = 4 /\ {3, 7, 10} \subseteq {(pc - m[1] + 12) % 12 : pc \in pcs \ {m[1]}}
                \/ m[2] = 5 /\ {4, 7, 11} \subseteq {(pc - m[1] + 12) % 12 : pc \in pcs \ {m[1]}}
  <2> DEFINE own == {(pc - m[1] + 12) % 12 : pc \in pcs \ {m[1]}}
  <2>1. m \in pcs \X DOMAIN kTemplates /\ kTemplates[m[2]].intervals \subseteq own
    BY Zenon DEF Matches
  <2> HIDE DEF own
  <2>2. m[2] = 3 \/ m[2] = 4 \/ m[2] = 5
    BY <1>2
  <2>3. \/ m[2] = 3 /\ {4, 7, 10} \subseteq own
        \/ m[2] = 4 /\ {3, 7, 10} \subseteq own
        \/ m[2] = 5 /\ {4, 7, 11} \subseteq own
    BY <1>1, <2>1, <2>2
  <2> QED BY <2>1, <2>3 DEF own
<1>3. \A m \in Matches({0, 2, 5, 9}) : m[2] \in {3, 4, 5} => m = <<2, 4>>
  <2> SUFFICES ASSUME NEW m \in Matches({0, 2, 5, 9}), m[2] \in {3, 4, 5} PROVE m = <<2, 4>>
    OBVIOUS
  <2> QED BY <1>2
<1>4. <<2, 4>> \in Matches({0, 2, 5, 9})
  <2> DEFINE own == {(pc - 2 + 12) % 12 : pc \in {0, 2, 5, 9} \ {2}}
  <2>1. (5 - 2 + 12) % 12 \in own /\ (9 - 2 + 12) % 12 \in own /\ (0 - 2 + 12) % 12 \in own
    OBVIOUS
  <2>2. (5 - 2 + 12) % 12 = 3 /\ (9 - 2 + 12) % 12 = 7 /\ (0 - 2 + 12) % 12 = 10
    OBVIOUS
  <2>3. {3, 7, 10} \subseteq own
    <3> HIDE DEF own
    <3> QED BY <2>1, <2>2
  <2> QED BY <1>1, <2>3 DEF Matches
<1>5. \A m \in Matches({2, 5, 7, 11}) : m[2] \in {3, 4, 5} => m = <<7, 3>>
  <2> SUFFICES ASSUME NEW m \in Matches({2, 5, 7, 11}), m[2] \in {3, 4, 5} PROVE m = <<7, 3>>
    OBVIOUS
  <2> QED BY <1>2
<1>6. <<7, 3>> \in Matches({2, 5, 7, 11})
  <2> DEFINE own == {(pc - 7 + 12) % 12 : pc \in {2, 5, 7, 11} \ {7}}
  <2>1. (11 - 7 + 12) % 12 \in own /\ (2 - 7 + 12) % 12 \in own /\ (5 - 7 + 12) % 12 \in own
    OBVIOUS
  <2>2. (11 - 7 + 12) % 12 = 4 /\ (2 - 7 + 12) % 12 = 7 /\ (5 - 7 + 12) % 12 = 10
    OBVIOUS
  <2>3. {4, 7, 10} \subseteq own
    <3> HIDE DEF own
    <3> QED BY <2>1, <2>2
  <2> QED BY <1>1, <2>3 DEF Matches
<1>7. \A m \in Matches({0, 4, 7, 11}) : m[2] \in {3, 4, 5} => m = <<0, 5>>
  <2> SUFFICES ASSUME NEW m \in Matches({0, 4, 7, 11}), m[2] \in {3, 4, 5} PROVE m = <<0, 5>>
    OBVIOUS
  <2> QED BY <1>2
<1>8. <<0, 5>> \in Matches({0, 4, 7, 11})
  <2> DEFINE own == {(pc - 0 + 12) % 12 : pc \in {0, 4, 7, 11} \ {0}}
  <2>1. (4 - 0 + 12) % 12 \in own /\ (7 - 0 + 12) % 12 \in own /\ (11 - 0 + 12) % 12 \in own
    OBVIOUS
  <2>2. (4 - 0 + 12) % 12 = 4 /\ (7 - 0 + 12) % 12 = 7 /\ (11 - 0 + 12) % 12 = 11
    OBVIOUS
  <2>3. {4, 7, 11} \subseteq own
    <3> HIDE DEF own
    <3> QED BY <2>1, <2>2
  <2> QED BY <1>1, <2>3 DEF Matches
<1> QED BY <1>3, <1>4, <1>5, <1>6, <1>7, <1>8

(* A chord of the progression is recognised in any inversion.              *)
LEMMA DetectChordInverts ==
  ASSUME NEW inv \in 0..2, NEW bar \in Nat \ {0}
  PROVE  detect_chord(voicing(Slot(bar), inv)) = Slot(bar)
<1>1. detect_chord(voicing(Chord(2, "m7"), inv)) = Chord(2, "m7")
  <2> DEFINE notes == voicing(Chord(2, "m7"), inv)
  <2>1. {n % 12 : n \in notes} = {0, 2, 5, 9}
    BY InversionKeepsPitchClasses
  <2> HIDE DEF notes
  <2>2. /\ <<2, 4>> \in Matches({n % 12 : n \in notes})
        /\ \A m \in Matches({n % 12 : n \in notes}) : m[2] \in {3, 4, 5} => m = <<2, 4>>
    BY <2>1, MatchesOfTheChords
  <2> DEFINE best == <<2, 4>>
  <2>3. best[1] = 2 /\ best[2] = 4
    OBVIOUS
  <2> HIDE DEF best
  <2>4. detect_chord(notes) = Chord(2, kTemplates[4].name)
    BY <2>2, <2>3, OnlySpecificMatch DEF best
  <2> QED BY <2>4 DEF notes, kTemplates
<1>2. detect_chord(voicing(Chord(7, "7"), inv)) = Chord(7, "7")
  <2> DEFINE notes == voicing(Chord(7, "7"), inv)
  <2>1. {n % 12 : n \in notes} = {2, 5, 7, 11}
    BY InversionKeepsPitchClasses
  <2> HIDE DEF notes
  <2>2. /\ <<7, 3>> \in Matches({n % 12 : n \in notes})
        /\ \A m \in Matches({n % 12 : n \in notes}) : m[2] \in {3, 4, 5} => m = <<7, 3>>
    BY <2>1, MatchesOfTheChords
  <2> DEFINE best == <<7, 3>>
  <2>3. best[1] = 7 /\ best[2] = 3
    OBVIOUS
  <2> HIDE DEF best
  <2>4. detect_chord(notes) = Chord(7, kTemplates[3].name)
    BY <2>2, <2>3, OnlySpecificMatch DEF best
  <2> QED BY <2>4 DEF notes, kTemplates
<1>3. detect_chord(voicing(Chord(0, "maj7"), inv)) = Chord(0, "maj7")
  <2> DEFINE notes == voicing(Chord(0, "maj7"), inv)
  <2>1. {n % 12 : n \in notes} = {0, 4, 7, 11}
    BY InversionKeepsPitchClasses
  <2> HIDE DEF notes
  <2>2. /\ <<0, 5>> \in Matches({n % 12 : n \in notes})
        /\ \A m \in Matches({n % 12 : n \in notes}) : m[2] \in {3, 4, 5} => m = <<0, 5>>
    BY <2>1, MatchesOfTheChords
  <2> DEFINE best == <<0, 5>>
  <2>3. best[1] = 0 /\ best[2] = 5
    OBVIOUS
  <2> HIDE DEF best
  <2>4. detect_chord(notes) = Chord(0, kTemplates[5].name)
    BY <2>2, <2>3, OnlySpecificMatch DEF best
  <2> QED BY <2>4 DEF notes, kTemplates
<1>4. Slot(bar) \in {Chord(2, "m7"), Chord(7, "7"), Chord(0, "maj7")}
  <2>1. ((bar - 1) % 4) + 1 \in {1, 2, 3, 4}
    OBVIOUS
  <2> QED BY <2>1 DEF Slot, kIIVIPattern
<1> QED BY <1>1, <1>2, <1>3, <1>4

-----------------------------------------------------------------------------
(* The inductive invariant: until the chords are recognised, each bar's    *)
(* notes are a voicing of its chord.                                       *)
PipelineInv ==
  /\ stage \in {"start", "harmony"} => specs = <<>>
  /\ stage = "harmony" =>
       \A bar \in 1..Bars : \E inv \in 0..2 : harmony[bar] = voicing(Slot(bar), inv)
  /\ DetectsWhatWasVoiced

(* mte_cli recognises the chords it voiced, in every inversion that was    *)
(* drawn and for any number of bars.                                       *)
THEOREM DetectionSound == Spec => []DetectsWhatWasVoiced
<1>1. Init => PipelineInv
  BY DEF Init, PipelineInv, DetectsWhatWasVoiced
<1>2. PipelineInv /\ [Next]_vars => PipelineInv'
  <2> SUFFICES ASSUME PipelineInv, [Next]_vars PROVE PipelineInv'
    OBVIOUS
  <2>1. CASE Harmony
    <3>1. PICK inv \in [1..Bars -> 0..2] :
            harmony' = [bar \in 1..Bars |-> voicing(Slot(bar), inv[bar])]
      BY <2>1 DEF Harmony
    <3>2. stage = "start" /\ stage' = "harmony" /\ specs' = specs
      BY <2>1 DEF Harmony
    <3>3. \A bar \in 1..Bars : inv[bar] \in 0..2 /\ harmony'[bar] = voicing(Slot(bar), inv[bar])
      BY <3>1
    <3> QED BY <3>2, <3>3 DEF PipelineInv, DetectsWhatWasVoiced
  <2>2. CASE DetectChords
    <3>1. /\ stage = "harmony" /\ stage' = "chords"
          /\ DOMAIN specs' = 1..Bars
          /\ \A bar \in 1..Bars : /\ specs'[bar].root_pc = detect_chord(harmony[bar]).root_pc
                                  /\ specs'[bar].quality = detect_chord(harmony[bar]).quality
      BY <2>2 DEF DetectChords
    <3>2. ASSUME NEW bar \in 1..Bars
          PROVE  /\ specs'[bar].root_pc = Slot(bar).root_pc
                 /\ specs'[bar].quality = Slot(bar).quality
      <4>1. PICK inv \in 0..2 : harmony[bar] = voicing(Slot(bar), inv)
        BY <3>1 DEF PipelineInv
      <4>2. bar \in Nat \ {0}
        BY MtePipelineAssumption
      <4>3. detect_chord(harmony[bar]) = Slot(bar)
        BY <4>1, <4>2, DetectChordInverts
      <4> QED BY <3>1, <4>3
    <3> QED BY <3>1, <3>2 DEF PipelineInv, DetectsWhatWasVoiced
  <2>3. CASE specs' = specs /\ stage' \notin {"start", "harmony"}
    BY <2>3 DEF PipelineInv, DetectsWhatWasVoiced
  <2>4. CASE UNCHANGED vars
    BY <2>4 DEF vars, PipelineInv, DetectsWhatWasVoiced
  <2>5. CASE \/ GeneratePiano \/ GenerateBass \/ GenerateDrums \/ Humanize \/ BuildTracks
             \/ Render \/ Show \/ startSMFExport
    <3>1. specs' = specs /\ stage' \notin {"start", "harmony"}
      BY <2>5, Zenon DEF GeneratePiano, GenerateBass, GenerateDrums, Humanize, BuildTracks, Render, Show,
                  startSMFExport
    <3> QED BY <2>3, <3>1
  <2> QED BY <2>1, <2>2, <2>4, <2>5 DEF Next
<1>3. PipelineInv => DetectsWhatWasVoiced
  BY DEF PipelineInv
<1> QED BY <1>1, <1>2, <1>3, PTL DEF Spec

-----------------------------------------------------------------------------
(* Variable-length quantities.                                             *)
(* Two and three groups of seven bits, and the largest delta time of a     *)
(* Standard MIDI File.                                                     *)
kTwoGroups == 16384
kThreeGroups == 2097152
kMaxDelta == 268435455

LEMMA GroupsOfDelta ==
  ASSUME NEW v \in Nat, v <= kMaxDelta
  PROVE  /\ v < 128 => Groups(v) = 1
         /\ v >= 128 /\ v < 16384 => Groups(v) = 2
         /\ v >= 16384 /\ v < 2097152 => Groups(v) = 3
         /\ v >= 2097152 => Groups(v) = 4
<1> DEFINE S == {i \in 1..4 : v >= 128^i}
<1>1. 128^1 = 128 /\ 128^2 = 16384 /\ 128^3 = 2097152 /\ 128^4 = 268435456
  OBVIOUS
<1>2. /\ v < 128 => S = {}
      /\ v >= 128 /\ v < 16384 => S = {1}
      /\ v >= 16384 /\ v < 2097152 => S = {1, 2}
      /\ v >= 2097152 => S = {1, 2, 3}
  <2>1. ASSUME NEW i
        PROVE  i \in S <=> \/ i = 1 /\ v >= 128
                           \/ i = 2 /\ v >= 16384
                           \/ i = 3 /\ v >= 2097152
    <3>1. CASE i = 1 BY <3>1
    <3>2. CASE i = 2 BY <3>2
    <3>3. CASE i = 3 BY <3>3
    <3>4. CASE i = 4 BY <3>4 DEF kMaxDelta
    <3>5. i \in 1..4 <=> i = 1 \/ i = 2 \/ i = 3 \/ i = 4
      OBVIOUS
    <3> QED BY <3>1, <3>2, <3>3, <3>4, <3>5
  <2> HIDE DEF S
  <2> QED BY <2>1 DEF kMaxDelta
<1>3. Cardinality({}) = 0 /\ Cardinality({1}) = 1 /\ IsFiniteSet({1})
  BY FS_EmptySet, FS_Singleton
<1>4. Cardinality({1, 2}) = 2 /\ IsFiniteSet({1, 2})
  <2>1. {1, 2} = {1} \cup {2}
    OBVIOUS
  <2> QED BY <1>3, <2>1, FS_AddElement
<1>5. Cardinality({1, 2, 3}) = 3
  <2>1. {1, 2, 3} = {1, 2} \cup {3}
    OBVIOUS
  <2> QED BY <1>4, <2>1, FS_AddElement
<1>6. Groups(v) = 1 + Cardinality(S)
  BY DEF Groups
<1> HIDE DEF S
<1>7. /\ v < 128 => Cardinality(S) = 0
      /\ v >= 128 /\ v < 16384 => Cardinality(S) = 1
      /\ v >= 16384 /\ v < 2097152 => Cardinality(S) = 2
      /\ v >= 2097152 => Cardinality(S) = 3
  BY <1>2, <1>3, <1>4, <1>5
<1>8. v \in Int
  BY DEF kMaxDelta
<1> DEFINE n == Cardinality(S)
<1> HIDE DEF n
<1>9. /\ Groups(v) = 1 + n
      /\ v < 128 => n = 0
      /\ v >= 128 /\ v < 16384 => n = 1
      /\ v >= 16384 /\ v < 2097152 => n = 2
      /\ v >= 2097152 => n = 3
  BY ONLY <1>6, <1>7 DEF n
<1> QED BY ONLY <1>8, <1>9

(* Seven bits a byte, and only the last one below 128.                     *)
LEMMA EncodedBytes ==
  ASSUME NEW v \in Nat, NEW g \in 1..4, Groups(v) = g
  PROVE  /\ encode_vlq(v) \in Seq(Nat) /\ Len(encode_vlq(v)) = g
         /\ \A i \in 1..g :
              LET d == encode_vlq(v)[i] % 128
              IN /\ g - i = 0 => d = v % 128
                 /\ g - i = 1 => d = (v \div 128) % 128
                 /\ g - i = 2 => d = (v \div kTwoGroups) % 128
                 /\ g - i = 3 => d = (v \div kThreeGroups) % 128
         /\ \A i \in 1..g : encode_vlq(v)[i] < 128 <=> i = g
<1> DEFINE Pow(e) == 128^e
           digit(i) == (v \div Pow(g - i)) % 128
           bytes == [i \in 1..g |-> digit(i) + (IF i < g THEN 128 ELSE 0)]
<1>1. encode_vlq(v) = bytes
  BY DEF encode_vlq
<1>2. \A e \in 0..4 : /\ Pow(e) \in Nat \ {0}
                      /\ e = 0 => Pow(e) = 1
                      /\ e = 1 => Pow(e) = 128
                      /\ e = 2 => Pow(e) = kTwoGroups
                      /\ e = 3 => Pow(e) = kThreeGroups
  <2> SUFFICES ASSUME NEW e \in 0..4
               PROVE  /\ Pow(e) \in Nat \ {0}
                      /\ e = 0 => Pow(e) = 1
                      /\ e = 1 => Pow(e) = 128
                      /\ e = 2 => Pow(e) = kTwoGroups
                      /\ e = 3 => Pow(e) = kThreeGroups
    BY Zenon
  <2>1. CASE e = 0 BY <2>1
  <2>2. CASE e = 1 BY <2>2
  <2>3. CASE e = 2 BY <2>3 DEF kTwoGroups
  <2>4. CASE e = 3 BY <2>4 DEF kThreeGroups
  <2>5. CASE e = 4 BY <2>5
  <2> QED BY <2>1, <2>2, <2>3, <2>4, <2>5
<1> HIDE DEF Pow
<1>3. \A i \in 1..g : digit(i) \in 0..127
  <2> SUFFICES ASSUME NEW i \in 1..g PROVE digit(i) \in 0..127
    OBVIOUS
  <2> DEFINE p == Pow(g - i)
  <2>1. p \in Nat \ {0}
    BY <1>2
  <2> HIDE DEF p
  <2>2. v \div p \in Int
    BY <2>1
  <2>3. (v \div p) % 128 \in 0..127
    BY <2>2
  <2> QED BY <2>3 DEF p
<1>4. ASSUME NEW i \in 1..g
      PROVE  /\ g - i = 0 => digit(i) = v % 128
             /\ g - i = 1 => digit(i) = (v \div 128) % 128
             /\ g - i = 2 => digit(i) = (v \div kTwoGroups) % 128
             /\ g - i = 3 => digit(i) = (v \div kThreeGroups) % 128
  <2>1. /\ g - i = 0 => Pow(g - i) = 1
        /\ g - i = 1 => Pow(g - i) = 128
        /\ g - i = 2 => Pow(g - i) = kTwoGroups
        /\ g - i = 3 => Pow(g - i) = kThreeGroups
    BY <1>2
  <2> QED BY <2>1
<1> HIDE DEF digit
<1>5. \A i \in 1..g : bytes[i] \in Nat /\ bytes[i] % 128 = digit(i) /\ (bytes[i] < 128 <=> i = g)
  BY <1>3
<1>6. bytes \in Seq(Nat) /\ Len(bytes) = g
  BY <1>5
<1> HIDE DEF bytes
<1> QED BY <1>1, <1>4, <1>5, <1>6

LEMMA MinOfOne ==
  ASSUME NEW n \in Int
  PROVE  Min({n}) = n
<1>1. n =< n
  OBVIOUS
<1> QED BY <1>1, Zenon DEF Min

(* v is what the low seven bits of g bytes make together.                  *)
LowBits(bytes, g, v) ==
  LET d(i) == bytes[i] % 128
  IN /\ g = 1 => v = d(1)
     /\ g = 2 => v = d(1) * 128 + d(2)
     /\ g = 3 => v = (d(1) * 128 + d(2)) * 128 + d(3)
     /\ g = 4 => v = ((d(1) * 128 + d(2)) * 128 + d(3)) * 128 + d(4)

(* What the reader makes of up to four bytes.                              *)
LEMMA DecodedValue ==
  ASSUME NEW g \in 1..4, NEW bytes \in Seq(Nat), Len(bytes) = g,
         \A i \in 1..g : bytes[i] < 128 <=> i = g
  PROVE  LowBits(bytes, g, decode_vlq(bytes))
<1> DEFINE d(i) == bytes[i] % 128
           Walks(f) == f = [i \in 0..Len(bytes) |->
                              IF i = 0 THEN 0 ELSE f[i - 1] * 128 + (bytes[i] % 128)]
           value == CHOOSE f : Walks(f)
           I == {i \in 1..Len(bytes) : bytes[i] < 128}
<1>1. I = {g}
  OBVIOUS
<1>2. Min(I) = g
  BY <1>1, MinOfOne
<1>3. decode_vlq(bytes) = value[g]
  BY <1>1, <1>2 DEF decode_vlq, SelectInSeq
<1>4. \E f : Walks(f)
  <2> DEFINE w == [i \in 0..g |->
                     IF i = 0 THEN 0 ELSE
                     IF i = 1 THEN d(1) ELSE
                     IF i = 2 THEN d(1) * 128 + d(2) ELSE
                     IF i = 3 THEN (d(1) * 128 + d(2)) * 128 + d(3)
                     ELSE ((d(1) * 128 + d(2)) * 128 + d(3)) * 128 + d(4)]
  <2>1. \A i \in 1..g : d(i) \in Nat
    OBVIOUS
  <2> HIDE DEF d
  <2>2. \A i \in 0..g : w[i] = IF i = 0 THEN 0 ELSE w[i - 1] * 128 + d(i)
    BY <2>1, SMTT(40)
  <2>3. w = [i \in 0..g |-> IF i = 0 THEN 0 ELSE w[i - 1] * 128 + d(i)]
    <3>1. w = [i \in 0..g |-> w[i]]
      OBVIOUS
    <3> HIDE DEF w
    <3> QED BY <2>2, <3>1
  <2> HIDE DEF w
  <2>4. Walks(w)
    BY <2>3 DEF d
  <2> QED BY <2>4
<1>5. Walks(value)
  BY <1>4, Zenon
<1> HIDE DEF value
<1>6. \A i \in 0..g : value[i] = IF i = 0 THEN 0 ELSE value[i - 1] * 128 + d(i)
  BY <1>5, Zenon
<1>7. \A i \in 1..g : d(i) \in Nat
  OBVIOUS
<1>8. /\ value[0] = 0
      /\ \A i \in 1..g : value[i] = value[i - 1] * 128 + d(i)
  <2>1. 0 \in 0..g /\ \A i \in 1..g : i \in 0..g /\ i # 0
    OBVIOUS
  <2> QED BY <1>6, <2>1, ZenonT(60)
<1> HIDE DEF d
<1>9. value[1] = d(1)
  BY <1>7, <1>8
<1>10. g >= 2 => value[2] = d(1) * 128 + d(2)
  <2>1. g >= 2 => value[2] = value[1] * 128 + d(2)
    BY <1>8
  <2> QED BY <1>9, <2>1
<1>11. g >= 3 => value[3] = (d(1) * 128 + d(2)) * 128 + d(3)
  <2>1. g >= 3 => value[3] = value[2] * 128 + d(3)
    BY <1>8
  <2> QED BY <1>10, <2>1
<1>12. g >= 4 => value[4] = ((d(1) * 128 + d(2)) * 128 + d(3)) * 128 + d(4)
  <2>1. g >= 4 => value[4] = value[3] * 128 + d(4)
    BY <1>8
  <2> QED BY <1>11, <2>1
<1> QED BY <1>3, <1>9, <1>10, <1>11, <1>12 DEF d, LowBits

(* A number is the sum of its groups.                                      *)
LEMMA SevenBits ==
  ASSUME NEW v \in Nat, v <= kMaxDelta
  PROVE  /\ v < kThreeGroups =>
              (((v \div kTwoGroups) % 128) * 128 + ((v \div 128) % 128)) * 128 + (v % 128) = v
         /\ ((((v \div kThreeGroups) % 128) * 128 + ((v \div kTwoGroups) % 128)) * 128
              + ((v \div 128) % 128)) * 128 + (v % 128) = v
<1> DEFINE a == v \div 128
           b == v \div kTwoGroups
           c == v \div kThreeGroups
<1>1. a \in Nat /\ v = a * 128 + (v % 128)
  OBVIOUS
<1>2. b \in Nat /\ b = a \div 128
  BY DEF kTwoGroups
<1>3. c \in Nat /\ c = b \div 128
  BY DEF kTwoGroups, kThreeGroups
<1>4. c < 128 /\ (v < kThreeGroups => b < 128)
  BY DEF kTwoGroups, kThreeGroups, kMaxDelta
<1> HIDE DEF a, b, c
<1>5. a = b * 128 + (a % 128) /\ b = c * 128 + (b % 128)
  BY <1>1, <1>2, <1>3
<1>6. c % 128 = c /\ (v < kThreeGroups => b % 128 = b)
  BY <1>2, <1>3, <1>4
<1>7. /\ v < kThreeGroups => ((b % 128) * 128 + (a % 128)) * 128 + (v % 128) = v
      /\ (((c % 128) * 128 + (b % 128)) * 128 + (a % 128)) * 128 + (v % 128) = v
  BY <1>1, <1>2, <1>3, <1>5, <1>6
<1> QED BY <1>7 DEF a, b, c

(* Every delta time the renderer writes is the one the reader gets.        *)
THEOREM DeltaTimesSurvive ==
  \A v \in Nat : v <= kMaxDelta => decode_vlq(encode_vlq(v)) = v
<1> SUFFICES ASSUME NEW v \in Nat, v <= kMaxDelta PROVE decode_vlq(encode_vlq(v)) = v
  OBVIOUS
<1> DEFINE bytes == encode_vlq(v)
           d(i) == bytes[i] % 128
           g == Groups(v)
<1>1. /\ g \in 1..4 /\ v \in Nat
      /\ g = 1 => v < 128
      /\ g = 2 => v < 16384
      /\ g = 3 => v < 2097152
      /\ g = 4 => v < 268435456
  BY GroupsOfDelta DEF kMaxDelta
<1>g. g \in 1..4
  BY <1>1
<1> HIDE DEF g
<1>2. /\ bytes \in Seq(Nat) /\ Len(bytes) = g
      /\ \A i \in 1..g : /\ g - i = 0 => d(i) = v % 128
                         /\ g - i = 1 => d(i) = (v \div 128) % 128
                         /\ g - i = 2 => d(i) = (v \div kTwoGroups) % 128
                         /\ g - i = 3 => d(i) = (v \div kThreeGroups) % 128
      /\ \A i \in 1..g : bytes[i] < 128 <=> i = g
  BY <1>g, EncodedBytes, Zenon DEF g
<1> HIDE DEF bytes
<1> DEFINE w == decode_vlq(bytes)
<1>3. /\ g = 1 => w = d(1)
      /\ g = 2 => w = d(1) * 128 + d(2)
      /\ g = 3 => w = (d(1) * 128 + d(2)) * 128 + d(3)
      /\ g = 4 => w = ((d(1) * 128 + d(2)) * 128 + d(3)) * 128 + d(4)
  <2>1. bytes \in Seq(Nat) /\ Len(bytes) = g /\ \A i \in 1..g : bytes[i] < 128 <=> i = g
    BY <1>2
  <2>2. LowBits(bytes, g, w)
    BY ONLY <1>g, <2>1, DecodedValue, Zenon
  <2> QED BY <2>2 DEF LowBits
<1> HIDE DEF d, w
<1>4. CASE g = 1
  <2>1. d(1) = v % 128
    BY <1>2, <1>4
  <2> QED BY <1>1, <1>3, <1>4, <2>1 DEF bytes, w, kTwoGroups, kThreeGroups
<1>5. CASE g = 2
  <2>1. d(1) = (v \div 128) % 128 /\ d(2) = v % 128
    BY <1>2, <1>5
  <2> QED BY <1>1, <1>3, <1>5, <2>1 DEF bytes, w, kTwoGroups, kThreeGroups
<1>6. CASE g = 3
  <2>1. d(1) = (v \div kTwoGroups) % 128 /\ d(2) = (v \div 128) % 128 /\ d(3) = v % 128
    BY <1>2, <1>6
  <2>2. w = (d(1) * 128 + d(2)) * 128 + d(3) /\ v < kThreeGroups
    BY <1>1, <1>3, <1>6 DEF kThreeGroups
  <2> QED BY <2>1, <2>2, SevenBits DEF bytes, w
<1>7. CASE g = 4
  <2>1. /\ d(1) = (v \div kThreeGroups) % 128 /\ d(2) = (v \div kTwoGroups) % 128
        /\ d(3) = (v \div 128) % 128 /\ d(4) = v % 128
    BY <1>2, <1>7
  <2>2. w = ((d(1) * 128 + d(2)) * 128 + d(3)) * 128 + d(4)
    BY <1>3, <1>7
  <2> QED BY <2>1, <2>2, SevenBits DEF bytes, w
<1> QED BY <1>1, <1>4, <1>5, <1>6, <1>7

=============================================================================
