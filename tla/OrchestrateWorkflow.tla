------------------------ MODULE OrchestrateWorkflow ------------------------
(***************************************************************************)
(* The calls of OrchestrationEngine and of OrchestrateWorkflow             *)
(* (engine/cpp/src/theory/orchestrate_workflow.cpp).  The workflow splits  *)
(* a piano piece in melody and harmony, names the chord of every bar, has  *)
(* the engine orchestrate both and then puts the tracks of the strings,    *)
(* guitar, bass and drum engines beside the engine's or in their place.    *)
(* Of such a track only the engine that wrote it is kept.                  *)
(***************************************************************************)
EXTENDS Orchestration

(* Mutant: the note that starts first counts as the melody.                *)
highestFirst(group) == group[1]

(* The first of the highest notes of a group.                              *)
highest(group) ==
  group[SelectInSeq(group, LAMBDA e : \A k \in DOMAIN group : group[k].note <= e.note)]

(* separate_melody_harmony: the notes that start together, by start.       *)
groups(piano) ==
  LET ons == {piano[k].on : k \in DOMAIN piano}
      by_start == SortSeq(SetToSeq(ons), <)
  IN [g \in DOMAIN by_start |-> SelectSeq(piano, LAMBDA e : e.on = by_start[g])]

melody_of(piano) == LET gs == groups(piano) IN [g \in DOMAIN gs |-> highest(gs[g])]

harmony_of(piano) ==
  LET gs == groups(piano)
      Others(group) ==
        RemoveAt(group, SelectInSeq(group, LAMBDA e : e = highest(group)))
  IN FlattenSeq([g \in DOMAIN gs |-> Others(gs[g])])

kTemplates == <<"maj", "min", "7", "m7", "maj7", "dim", "dim7", "m7b5">>

score(pcs, root, quality) ==
  LET tones == {(root + off) % 12 : off \in Range(offsets_for(quality))}
  IN 2 * Cardinality(pcs \cap tones) - Cardinality(tones \ pcs) - Cardinality(pcs \ tones)

(* The first root and template with the best score; C without any note.    *)
detect_chord(pcs) ==
  LET pairs == [k \in 1..96 |-> <<(k - 1) \div 8, kTemplates[((k - 1) % 8) + 1]>>]
      scores == [k \in 1..96 |-> score(pcs, pairs[k][1], pairs[k][2])]
      best == Max(Range(scores))
      found == pairs[SelectInSeq(scores, LAMBDA s : s = best)]
  IN IF pcs = {} THEN <<"C", "">>
     ELSE <<pc_name_sharp(found[1]), IF found[2] = "maj" THEN "" ELSE found[2]>>

BarPitchClasses(events, bar) ==
  {e.note % 12 : e \in {f \in Range(events) : f.on \div kTicksPerBar = bar}}

build_chord_progression(harmony, bars) ==
  IF harmony = <<>> THEN <<<<"C", "">>>>
  ELSE [b \in 1..bars |-> detect_chord(BarPitchClasses(harmony, b - 1))]

(* The ensemble of a density.                                              *)
kFullOrchestra ==
  <<<<Inst("Violin I", 0, 55, 84, "melody"), Inst("Violin II", 1, 55, 84, "countermelody"),
      Inst("Viola", 2, 48, 76, "harmony"), Inst("Cello", 3, 36, 60, "harmony"),
      Inst("Contrabass", 4, 28, 48, "bass")>>,
    <<Inst("Flute", 5, 60, 96, "countermelody"), Inst("Oboe", 6, 58, 87, "fill"),
      Inst("Clarinet", 7, 50, 84, "fill")>>,
    <<Inst("Horn", 8, 41, 77, "harmony"), Inst("Trumpet", 9, 58, 84, "harmony")>>,
    <<Inst("Guitar", 10, 40, 76, "harmony"), Inst("Drums", 9, 35, 81, "rhythm")>>>>

build_ensemble(density) ==
  CASE density = "sparse" -> <<string_quartet, <<>>>>
    [] density = "medium" ->
         <<string_quartet,
           <<Inst("Contrabass", 4, 28, 48, "bass"), Inst("Guitar", 5, 40, 76, "harmony"),
             Inst("Drums", 9, 35, 81, "rhythm")>>>>
    [] OTHER -> kFullOrchestra

-----------------------------------------------------------------------------
(* One call of the engine.                                                 *)
OrchestrateChords ==
  /\ step = "orchestrate_chords"
  /\ out' = orchestrate_chords(call.chords, call.ensemble, call.bars)
  /\ step' = "done" /\ UNCHANGED <<call, at>>

OrchestrateFull ==
  /\ step = "orchestrate_full"
  /\ out' = orchestrate_full(call.melody, call.chords, call.ensemble, call.bars)
  /\ step' = "done" /\ UNCHANGED <<call, at>>

(* The workflow.                                                           *)
ArrangeNothing ==
  /\ step = "arrange" /\ (call.piano = <<>> \/ call.bars < 1)
  /\ step' = "done" /\ UNCHANGED <<call, out, at>>

Distribute ==
  /\ step = "arrange" /\ call.piano # <<>> /\ call.bars >= 1
  /\ out' = orchestrate_full(melody_of(call.piano),
                             build_chord_progression(harmony_of(call.piano), call.bars),
                             build_ensemble(call.density), call.bars)
  /\ step' = "tracks" /\ UNCHANGED <<call, at>>

kGenerated ==
  <<[name |-> "Strings Pad", by |-> "StringsEngine", densities |-> {"medium", "full"}],
    [name |-> "Guitar", by |-> "GuitarEngine", densities |-> {"full"}],
    [name |-> "Bass", by |-> "BassEngine", densities |-> {"sparse", "medium", "full"}],
    [name |-> "Drums", by |-> "DrumEngine", densities |-> {"medium", "full"}]>>

(* Mutant: a track of the same name is kept beside the new one.            *)
set_trackBeside(tracks, track) == Append(tracks, track)

(* track_map[name] = events                                                *)
set_track(tracks, track) ==
  Append(SelectSeq(tracks, LAMBDA t : t.name # track.name), track)

AddTrack ==
  /\ step = "tracks" /\ at < Len(kGenerated)
  /\ LET g == kGenerated[at + 1]
     IN out' = IF call.density \in g.densities
               THEN set_track(out, [name |-> g.name, by |-> g.by, notes |-> <<>>])
               ELSE out
  /\ at' = at + 1 /\ UNCHANGED <<call, step>>

(* The order of the answer.  All names of the ensembles are in it.         *)
kOrder == <<"Violin I", "Violin II", "Flute", "Viola", "Cello", "Contrabass", "Strings Pad",
            "Guitar", "Bass", "Drums", "Horn", "Trumpet", "Oboe", "Clarinet", "Piano">>

Deliver ==
  /\ step = "tracks" /\ at = Len(kGenerated)
  /\ LET Rank(t) == SelectInSeq(kOrder, LAMBDA n : n = t.name)
     IN out' = SortSeq(out, LAMBDA a, b : Rank(a) < Rank(b))
  /\ step' = "done" /\ UNCHANGED <<call, at>>

OrchestrateNext ==
  OrchestrateChords \/ OrchestrateFull \/ ArrangeNothing \/ Distribute \/ AddTrack \/ Deliver

-----------------------------------------------------------------------------
Orchestrated ==
  step = "done" /\ call.engine \in {"orchestrate_chords", "orchestrate_full", "arrange"}
Ensemble == IF call.engine = "arrange" THEN build_ensemble(call.density) ELSE call.ensemble
Players == Range(FlattenSeq(Ensemble))
Chords == IF call.engine = "arrange"
          THEN build_chord_progression(harmony_of(call.piano), call.bars) ELSE call.chords
NotesBy(player) ==
  UNION {Range(out[t].notes) : t \in {k \in DOMAIN out :
           out[k].name = player.name /\ out[k].by = "OrchestrationEngine"}}

(* Whatever is transposed where, each instrument plays only within its     *)
(* range and on its channel, if the range holds an octave.                 *)
InstrumentsInRange ==
  Orchestrated =>
    \A p \in Players : p.hi - p.lo >= 11 =>
      \A n \in NotesBy(p) : n.note \in p.lo..p.hi /\ n.channel = p.channel

(* The instruments that accompany play the chord of the bar they are in:   *)
(* notes of the chord and, for the bass, its root on the first beat; and   *)
(* the harmony doubles no note while other chord tones are left.           *)
BackingPlaysTheChord ==
  Orchestrated /\ Len(Chords) > 0 =>
    LET ChordAt(n) == LET name == Chords[((n.on \div kTicksPerBar) % Len(Chords)) + 1]
                      IN [root |-> key_table[name[1]],
                          pcs |-> {(key_table[name[1]] + off) % 12 :
                                     off \in Range(offsets_for(parse_chord(name).quality))}]
        Harmony == {p \in Players : p.role = "harmony" /\ p.hi - p.lo >= 11}
    IN /\ \A p \in Players, n \in UNION {NotesBy(q) : q \in Players} :
            n \in NotesBy(p) /\ p.hi - p.lo >= 11 =>
              /\ p.role \in {"harmony", "pad", "rhythm", "fill"} => n.note % 12 \in ChordAt(n).pcs
              /\ p.role = "bass" /\ n.on % kTicksPerBar = 0 => n.note % 12 = ChordAt(n).root
       /\ \A p, q \in Harmony :
            p # q => \A m \in NotesBy(p), n \in NotesBy(q) : m.on = n.on => m.note # n.note

(* Every instrument can play its part, and the parts are the chords.       *)
EnsemblePlaysTheChords == InstrumentsInRange /\ BackingPlaysTheChord

(* The arrangement is of the piece: where notes start together, the player *)
(* of the melody plays the pitch class of the highest, and nothing else;   *)
(* every chord the left hand plays completely is the chord of its bar; and *)
(* a track comes once, from the engine that was to write it.               *)
ArrangesThePiece ==
  call.engine = "arrange" /\ step = "done" =>
    LET lead == CHOOSE p \in Players : p.role = "melody"
        Top(on) == Max({e.note : e \in {f \in Range(call.piano) : f.on = on}})
        Complete(pcs) == \E r \in 0..11, q \in Range(kTemplates) :
                           pcs = {(r + off) % 12 : off \in Range(offsets_for(q))}
    IN call.bars >= 1 /\ call.piano # <<>> =>
         /\ {<<n.on, n.note % 12>> : n \in NotesBy(lead)}
              = {<<e.on, Top(e.on) % 12>> : e \in Range(call.piano)}
         /\ \A b \in 1..Len(Chords) :
              LET pcs == BarPitchClasses(harmony_of(call.piano), b - 1)
                  c == parse_chord(Chords[b])
              IN Complete(pcs) =>
                   pcs = {(c.root_pc + off) % 12 : off \in Range(offsets_for(c.quality))}
         /\ \A g \in Range(kGenerated) :
              call.density \in g.densities =>
                {out[k].by : k \in {j \in DOMAIN out : out[j].name = g.name}} = {g.by}
         /\ \A j, k \in DOMAIN out : j # k => out[j].name # out[k].name

=============================================================================
