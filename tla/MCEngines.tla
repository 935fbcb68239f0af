----------------------------- MODULE MCEngines -----------------------------
(***************************************************************************)
(* The theory engines, one call a behaviour, over small sets of requests.  *)
(***************************************************************************)
EXTENDS Counterpoint, Modulation, Reharmonize, OrchestrateWorkflow, Planning

(* Basses with leaps, repeated notes and octaves, long enough for octaves  *)
(* and fifths to follow one another inside; canti firmi that rise, fall,   *)
(* stay and end early.                                                     *)
VoiceRequests ==
  [engine : {"counterpoint"}, species : {"first"},
   bass : {<<>>, <<36>>, <<48, 48, 55>>, <<40, 45, 40>>},
   cf : {<<>>, <<60>>, <<60, 62, 64>>, <<67, 60, 60>>}, bars : {1, 3}, ppq : {480}]
  \cup
  [engine : {"counterpoint"}, species : {"first"}, bass : {<<48, 55, 50, 48>>, <<41, 40, 45, 43, 48>>},
   cf : {<<60, 62, 64, 65, 67>>, <<67, 65, 64, 62, 60>>, <<60, 62>>}, bars : {4}, ppq : {480}]
  \cup
  [engine : {"counterpoint"}, species : {"second"}, bass : {<<36, 43>>, <<38, 41, 43>>},
   cf : {<<>>, <<60, 62, 64>>, <<67, 60>>, <<64, 62, 60>>}, bars : {2}, ppq : {480}]

Keys == {"C", "G", "D", "F", "Bb", "Eb", "F#"}
KeyScales == [key : Keys, scale : {"major", "minor", "harmonic_minor", "melodic_minor"}]

ModulationRequests ==
  [engine : {"modulate"}, from : KeyScales, to : KeyScales, bars : {0, 1, 2, 3, 4, 8}]
RelatedRequests ==
  [engine : {"related"}, from : [key : DOMAIN key_table, scale : {"major", "minor"}]]

Melody == <<Note(0, 480, 72)>>
Turn == <<<<"C", "">>, <<"A", "m">>, <<"D", "m">>, <<"G", "">>>>
ReharmonizeRequests ==
  [engine : {"reharmonize"}, style : {"simple", "jazz", "modal", "chromatic", "pedal"},
   key : {"C", "G"}, scale : {"major", "minor", "dorian"},
   chords : {<<>>, <<<<"C", "">>>>, <<<<"G", "7">>, <<"C", "">>>>},
   bars : {0, 3, 8}, melody : {<<>>, Melody}]
  \cup
  [engine : {"reharmonize"}, style : {"simple", "jazz", "modal", "chromatic"},
   key : {"C"}, scale : {"major"}, chords : {Turn}, bars : {4}, melody : {Melody}]
  \cup
  [engine : {"reharmonize"}, style : {"simple", "jazz", "modal", "chromatic"},
   key : {"C", "no key"}, scale : {"locrian", "pentatonic_major", "blues", "no scale"},
   chords : {<<<<"F#", "">>, <<"C", "m">>>>, <<<<"A", "m">>, <<"C", "">>>>,
             <<<<"G", "">>, <<"C", "">>>>},
   bars : {3}, melody : {Melody}]
  \cup
  [engine : {"reharmonize"}, style : {"jazz"}, key : {"C"},
   scale : {"locrian", "blues", "no scale"},
   chords : {<<<<"C", "">>, <<"G#", "">>, <<"C#", "">>, <<"F#", "dim">>, <<"C", "">>>>,
             <<<<"C", "">>, <<"Bb", "">>, <<"Eb", "">>, <<"G", "7">>, <<"C", "">>>>, Turn},
   bars : {4}, melody : {Melody}]

(* Ranges of an octave, an octave and a half, and less than an octave.     *)
Trio ==
  <<<<Inst("Flute", 0, 60, 72, "melody"), Inst("Oboe", 1, 58, 69, "harmony")>>,
    <<Inst("Horn", 2, 41, 59, "harmony"), Inst("Bass", 3, 28, 39, "bass"),
      Inst("Clarinet", 4, 50, 61, "pad"), Inst("Timpani", 5, 40, 45, "rhythm"),
      Inst("Viola", 6, 50, 66, "countermelody")>>>>

Ensembles ==
  {suggest_ensemble(g, n) : g \in {"jazz", "rock", "orchestra", "pop", "string quartet", "folk"},
                            n \in {0, 3}} \cup {Trio, <<>>, <<<<>>>>}
ChordNames == {<<r, q>> : r \in {"C", "F#", "Bb"}, q \in {"", "m", "7", "dim", "m7b5", "sus4"}}
Progressions == {<<>>} \cup {<<c>> : c \in ChordNames} \cup {<<<<"B", "m7">>, <<"E", "7">>>>}

OrchestrateRequests ==
  [engine : {"orchestrate_chords"}, chords : Progressions, ensemble : Ensembles, bars : {0, 1, 3}]
  \cup [engine : {"orchestrate_full"}, chords : Progressions, ensemble : Ensembles, bars : {0, 3},
        melody : {<<>>, <<Note(0, 480, 24), Note(480, 960, 64), Note(960, 1440, 108)>>}]

(* A chord under a melody note in the first bar, in any order, and a bar   *)
(* of melody alone, of a chord, or of nothing.                             *)
Struck(on, notes) == [k \in DOMAIN notes |-> Note(on, on + 480, notes[k])]
LeftHand(r, q) ==
  [k \in DOMAIN offsets_for(q) |-> 48 + r + offsets_for(q)[k]]
Pieces ==
  {<<>>, Struck(0, <<60>>)} \cup
  {Struck(0, <<72, 49>>) \o Struck(960, <<76>>)} \cup
  {Struck(0, Append(LeftHand(r, q), 76)) \o second :
     r \in 0..11, q \in Range(kTemplates),
     second \in {<<>>, Struck(kTicksPerBar, <<77, 53, 57, 60>>) \o Struck(2400, <<79>>)}}
ArrangeRequests ==
  [engine : {"arrange"}, piano : Pieces, density : {"sparse", "medium", "full"}, bars : {0, 2}]

(* Prompts that name sections and instruments, with and without bars; and  *)
(* prompts that name keys and tempos of all kinds.                         *)
NoArgs == [key |-> "", scale |-> "", bpm |-> 120, bars |-> 4]
Plain == [literal |-> FALSE, key |-> NoKey, bpms |-> <<>>, parts |-> <<>>, bars |-> <<>>,
          energies |-> {}, instruments |-> {}]
Part(name, before, after) == [name |-> name, before |-> before, after |-> after]
PartNames == <<"intro", "verse", "chorus", "bridge", "outro">>
PartLists ==
  {LET chosen == SelectSeq(PartNames, LAMBDA n : n \in S)
   IN [k \in DOMAIN chosen |-> Part(chosen[k], 0, IF k = 1 THEN n1 ELSE 0)] :
     S \in SUBSET Range(PartNames), n1 \in {0, 3, 300}}
  \cup {<<Part("outro", 0, 1), Part("chorus", 2, 0)>>, <<Part("verse", 5, 0), Part("bridge", 0, 0)>>}
Phrases ==
  {KeyPhrase(f, l, a, t) : f \in {"", "in", "key of"}, l \in {"C", "E", "B"},
                           a \in {"", "#", "b"}, t \in {"", "m", "minor", "major"}}
Prompts ==
  {[Plain EXCEPT !.parts = p, !.instruments = i] :
     p \in PartLists, i \in SUBSET (InstrumentNames \ {"synth", "sax"})}
  \cup {[Plain EXCEPT !.parts = p, !.instruments = {"drums", "bass", "synth", "sax"}] : p \in PartLists}
  \cup {[Plain EXCEPT !.bars = b, !.energies = e] :
          b \in {<<1>>, <<5>>, <<8>>, <<0, 12>>, <<300>>}, e \in SUBSET {"high", "low", "mid"}}
  \cup {[Plain EXCEPT !.key = k, !.bpms = b] :
          k \in Phrases \cup {NoKey}, b \in {<<>>, <<40>>, <<30>>, <<500, 90>>, <<301>>}}
  \cup {[Plain EXCEPT !.literal = TRUE, !.parts = p, !.bpms = b, !.key = k, !.instruments = i] :
          p \in {<<>>, <<Part("bridge", 0, 3)>>}, b \in {<<>>, <<30>>, <<90>>},
          k \in {NoKey, KeyPhrase("in", "E", "", "m")}, i \in {{}, {"sax"}}}
Arguments == {NoArgs, [key |-> "G", scale |-> "dorian", bpm |-> 90, bars |-> 7],
              [NoArgs EXCEPT !.bpm = 60]}
(* Blueprints of another caller: channels that are asked for twice.        *)
Blueprints ==
  {[MusicBlueprint EXCEPT !.instruments =
      <<Player("piano", "comping", c[1]), Player("guitar", "rhythm", c[2]),
        Player("drums", "drum", c[3]), Player("sax", "lead", c[4])>>,
      !.sections = s, !.bpm = b] :
     c \in [1..4 -> {0, 1, 2, 9}], s \in {<<>>, <<Section("verse", 257, Mid)>>}, b \in {39, 120}}
PlanRequests ==
  [engine : {"prompt"}, prompt : Prompts, args : {NoArgs}]
  \cup [engine : {"prompt"}, prompt : {Plain}, args : Arguments]
  \cup [engine : {"blueprint"}, blueprint : Blueprints, args : {NoArgs}]

(* The requests this model checks.                                         *)
Requests ==
  VoiceRequests \cup ModulationRequests \cup RelatedRequests \cup ReharmonizeRequests
  \cup OrchestrateRequests \cup ArrangeRequests \cup PlanRequests

(* They are among the calls the theorems are about.                        *)
ASSUME RequestsAreCalls ==
  /\ VoiceRequests \subseteq CounterpointCalls
  /\ ModulationRequests \cup RelatedRequests \subseteq ModulationCalls
  /\ ReharmonizeRequests \subseteq ReharmonizeCalls
  /\ PlanRequests \subseteq PlanningCalls

Init == Start(Requests)

Next == CounterpointNext \/ ModulationNext \/ ReharmonizeNext \/ OrchestrateNext \/ PlanningNext

Spec == Init /\ [][Next]_vars

=============================================================================
