---------------------------- MODULE MtePipeline ----------------------------
(***************************************************************************)
(* One run of mte_cli (engine/cpp/tools/mte_cli.cpp) from the harmony to   *)
(* the Standard MIDI File, and the plug-in's piano roll that reads it:     *)
(* the chords are voiced, recognised again, played by the engines,         *)
(* humanised, put on tracks, rendered and parsed.                          *)
(*                                                                         *)
(* The engines are pure functions and the tracks do not meet, so a         *)
(* behaviour follows one part: the piano, the bass or the drums.  What     *)
(* std::mt19937_64 draws is a choice; draws of a pass depend on the        *)
(* parity of the bar and of the note, a bound on their number that still   *)
(* lets neighbours in time and pitch draw apart.  The engines draw one     *)
(* velocity for the part.  Keys and scales that mte_cli does not know end  *)
(* it before this.                                                         *)
(***************************************************************************)
EXTENDS Theory

CONSTANTS
  Bars,          \* the number of bars asked for
  Arrangements,  \* roles of the instruments of a prompt, in order
  VelocityDraw,  \* velocities the engines draw
  HumanDraw      \* draws of the humanisation, of timing and of velocity

ASSUME MtePipelineAssumption ==
  /\ Bars \in Nat \ {0}
  /\ VelocityDraw \subseteq 50..100
  /\ HumanDraw \subseteq [jitter : -3..3, delta : -5..5]

VARIABLES
  stage,    \* the step main has reached
  part,     \* the part that is followed
  harmony,  \* the notes of each bar's chord
  specs,    \* the chord specs recognised in them
  events,   \* the part's MidiEvents
  tracks,   \* the parts of the tracks, in order
  smf,      \* the rendered tracks that hold the part
  roll      \* the notes the piano roll shows

vars == <<stage, part, harmony, specs, events, tracks, smf, roll>>

Parts == {"piano", "bass", "drums"}
Flatten(n, Op(_)) == FlattenSeq([i \in 1..n |-> Op(i)])

Init ==
  /\ stage = "start" /\ part \in Parts
  /\ harmony = <<>> /\ specs = <<>> /\ events = <<>>
  /\ tracks = <<>> /\ smf = <<>> /\ roll = <<>>

-----------------------------------------------------------------------------
(* HarmonyEngine: II-V-I-I whatever the key; ChordEngine voices each chord *)
(* around MIDI 48 in one of three inversions, in which the tones below the *)
(* pivot stay an octave lower.                                             *)
kIIVIPattern == <<Chord(2, "m7"), Chord(7, "7"), Chord(0, "maj7"), Chord(0, "maj7")>>

(* Mutant: an inversion rotates by a tone but takes eleven semitones off.  *)
voicingOff(c, inv) ==
  LET offs == offsets_for(c.quality)
  IN {48 + c.root_pc + offs[i] - (IF i <= inv THEN 11 ELSE 0) : i \in DOMAIN offs}

voicing(c, inv) ==
  LET offs == offsets_for(c.quality)
  IN {48 + c.root_pc + offs[i] - (IF i <= inv THEN 12 ELSE 0) : i \in DOMAIN offs}

Slot(bar) == kIIVIPattern[((bar - 1) % 4) + 1]

Harmony ==
  /\ stage = "start"
  /\ \E inv \in [1..Bars -> 0..2] :
       harmony' = [bar \in 1..Bars |-> voicing(Slot(bar), inv[bar])]
  /\ stage' = "harmony"
  /\ UNCHANGED <<part, specs, events, tracks, smf, roll>>

-----------------------------------------------------------------------------
(* mte_cli recognises the chords in the notes: of all roots and templates  *)
(* that fit the most specific one, the first of equals.                    *)
kTemplates ==
  <<[name |-> "maj", intervals |-> {4, 7}], [name |-> "min", intervals |-> {3, 7}],
    [name |-> "7", intervals |-> {4, 7, 10}], [name |-> "m7", intervals |-> {3, 7, 10}],
    [name |-> "maj7", intervals |-> {4, 7, 11}]>>

Matches(pcs) ==
  {m \in pcs \X DOMAIN kTemplates :
     kTemplates[m[2]].intervals \subseteq {(pc - m[1] + 12) % 12 : pc \in pcs \ {m[1]}}}
Score(m) == Cardinality(kTemplates[m[2]].intervals)
Before(m, n) ==
  \/ Score(m) > Score(n)
  \/ Score(m) = Score(n) /\ (m[1] < n[1] \/ (m[1] = n[1] /\ m[2] < n[2]))

detect_chord(notes) ==
  LET found == Matches({n % 12 : n \in notes})
      best == CHOOSE m \in found : \A n \in found \ {m} : Before(m, n)
  IN IF found = {} THEN Chord(0, "maj") ELSE Chord(best[1], kTemplates[best[2]].name)

(* One spec per bar: chords start at different ticks.  The harmony itself  *)
(* is not written to the file.                                             *)
DetectChords ==
  /\ stage = "harmony"
  /\ specs' = [bar \in 1..Bars |->
       LET c == detect_chord(harmony[bar])
       IN [root_pc |-> c.root_pc, quality |-> c.quality,
           start_tick |-> (bar - 1) * kTicksPerBar, duration |-> kTicksPerBar]]
  /\ harmony' = <<>>
  /\ stage' = "chords"
  /\ UNCHANGED <<part, events, tracks, smf, roll>>

-----------------------------------------------------------------------------
make_note(on, off, note, vel, ch) ==
  [on |-> on, off |-> off, note |-> note, vel |-> vel, ch |-> ch]

(* PianoEngine, block chords: root and fifth, then the whole chord an      *)
(* octave higher, up to ten ticks before the next chord.  (Mutant: five.)  *)
PianoBarFive(cs, vel) ==
  LET offs == <<-12, -5>> \o offsets_for(cs.quality)
  IN [i \in DOMAIN offs |->
        make_note(cs.start_tick, cs.start_tick + cs.duration - 5,
                  60 + cs.root_pc + offs[i], vel, 0)]

PianoBar(cs, vel) ==
  LET offs == <<-12, -5>> \o offsets_for(cs.quality)
  IN [i \in DOMAIN offs |->
        make_note(cs.start_tick, cs.start_tick + cs.duration - 10,
                  60 + cs.root_pc + offs[i], vel, 0)]

(* BassEngine: four patterns; the walking one draws two of its notes.      *)
BassBar(cs, draw, vel) ==
  LET root == 24 + cs.root_pc
      fifth == Min({24 + cs.root_pc + 7, 60})
      walk(w) == Min({root + <<0, 2, 3, 7>>[w + 1], 60})
      beat(b, len, note) ==
        make_note(cs.start_tick + b * kPpq, cs.start_tick + b * kPpq + len, note, vel, 0)
      long == kPpq - 10
      short == kPpq \div 2 - 5
  IN CASE draw.pat = "A" -> [b \in 1..4 |-> beat(b - 1, long, root)]
       [] draw.pat = "B" -> <<beat(0, long, root), beat(1, short, fifth),
                              beat(2, long, root), beat(3, long, root)>>
       [] draw.pat = "C" -> <<beat(0, long, root), beat(1, long, walk(draw.w1)),
                              beat(2, long, root), beat(3, long, walk(draw.w3))>>
       [] draw.pat = "D" -> <<beat(0, long, root), beat(1, short, fifth),
                              beat(2, long, root)>>

BassDraws ==
  [pat : {"A", "B", "D"}, w1 : {0}, w3 : {0}] \cup
  [pat : {"C"}, w1 : 0..3, w3 : 0..3]

(* RhythmEngine on eighths: hi-hat throughout, kick and snare in turn.     *)
kKick == 36
kSnare == 38
kClosedHH == 42

RhythmBar(cs, vel) ==
  LET hit(t, note) == make_note(cs.start_tick + t, cs.start_tick + t + 1, note, vel, 9)
      eighth == kPpq \div 2
  IN Flatten(8, LAMBDA i : <<hit((i - 1) * eighth, kClosedHH),
                             hit((i - 1) * eighth, IF i % 2 = 1 THEN kKick ELSE kSnare)>>)

(* DrumEngine: a fill in every fourth bar, else a variation of the beat    *)
(* with ghost notes.                                                       *)
DrumBar(cs, bar, draw, vel) ==
  LET hit(h) == make_note(cs.start_tick + h[1], cs.start_tick + h[1] + 60, h[2], vel, 9)
      fill == <<<<1440, kKick>>, <<1560, kSnare>>, <<1680, kKick>>, <<1800, kSnare>>>>
      beat == Flatten(4, LAMBDA i :
                <<<<(i - 1) * 480, IF i % 2 = 1 THEN kKick ELSE kSnare>>,
                  <<(i - 1) * 480, kClosedHH>>>>)
      extra == CASE draw.variation = 1 -> <<<<1200, kKick>>>>
                 [] draw.variation = 2 -> <<<<720, kSnare>>>>
                 [] OTHER -> <<>>
      ghosts == SetToSortSeq(draw.ghosts, <)
      hits == IF bar % 4 = 0 THEN fill
              ELSE beat \o extra \o [i \in DOMAIN ghosts |-> <<ghosts[i], kSnare>>]
  IN [i \in DOMAIN hits |-> hit(hits[i])]

DrumDraws == [variation : 0..3, ghosts : SUBSET {600, 1560}]

ByTickOn(a, b) == a.on < b.on

(* The engine of the part plays the chords.                                *)
GeneratePiano ==
  /\ stage = "chords" /\ part = "piano"
  /\ \E vel \in VelocityDraw :
       events' = Flatten(Bars, LAMBDA i : PianoBar(specs[i], vel))
  /\ stage' = "part"
  /\ UNCHANGED <<part, harmony, specs, tracks, smf, roll>>

GenerateBass ==
  /\ stage = "chords" /\ part = "bass"
  /\ \E vel \in VelocityDraw, draw \in [0..1 -> BassDraws] :
       events' = Flatten(Bars, LAMBDA i : BassBar(specs[i], draw[i % 2], vel))
  /\ stage' = "part"
  /\ UNCHANGED <<part, harmony, specs, tracks, smf, roll>>

(* The two drum engines are put together, in the order of their ticks.     *)
GenerateDrums ==
  /\ stage = "chords" /\ part = "drums"
  /\ \E vel \in VelocityDraw, draw \in [0..1 -> DrumDraws] :
       events' = SortSeq(Flatten(Bars, LAMBDA i : RhythmBar(specs[i], vel)) \o
                         Flatten(Bars, LAMBDA i : DrumBar(specs[i], i, draw[i % 2], vel)),
                         ByTickOn)
  /\ stage' = "human"
  /\ UNCHANGED <<part, harmony, specs, tracks, smf, roll>>

-----------------------------------------------------------------------------
(* HumanizationEngine.apply with mte_cli's parameters: jitter and velocity *)
(* only, never below tick 0 and never without duration.  The drums are     *)
(* left as they are.                                                       *)
Humanized(ev, draw) ==
  LET on == Max({0, ev.on + draw.jitter})
      off == Max({ev.on + draw.jitter + 1, ev.off + draw.jitter})
  IN [ev EXCEPT !.on = on,
                !.off = IF off <= on THEN on + 1 ELSE off,
                !.vel = Max({1, Min({@ + draw.delta, 127})})]

Class(ev, i) == <<((ev.on \div kTicksPerBar) % 2), i % 2>>

Humanize ==
  /\ stage = "part"
  /\ \E draw \in [(0..1) \X (0..1) -> HumanDraw] :
       events' = [i \in DOMAIN events |-> Humanized(events[i], draw[Class(events[i], i)])]
  /\ stage' = "human"
  /\ UNCHANGED <<part, harmony, specs, tracks, smf, roll>>

-----------------------------------------------------------------------------
(* The tracks.  Without a prompt there is one per part; with one, the      *)
(* first instrument of a fitting role takes a part, and what no instrument *)
(* took is appended.                                                       *)
PlaysPart(role, p) ==
  CASE p = "piano" -> role \in {"piano", "chords", "harmony", "rhythm"}
    [] p = "bass" -> role = "bass"
    [] p = "drums" -> role \in {"drums", "percussion"}

Legacy == <<"piano", "bass", "drums">>

Assigned(roles) ==
  SelectSeq([i \in DOMAIN roles |->
    IF \E p \in Parts : PlaysPart(roles[i], p) /\ \A j \in 1..(i - 1) : ~PlaysPart(roles[j], p)
    THEN CHOOSE p \in Parts : PlaysPart(roles[i], p)
    ELSE "none"], LAMBDA p : p # "none")

TracksFor(roles) ==
  Assigned(roles) \o SelectSeq(Legacy, LAMBDA p : ~Contains(Assigned(roles), p))

BuildTracks ==
  /\ stage = "human"
  /\ \/ tracks' = Legacy
     \/ \E roles \in Arrangements : tracks' = TracksFor(roles)
  /\ stage' = "tracks"
  /\ UNCHANGED <<part, harmony, specs, events, smf, roll>>

-----------------------------------------------------------------------------
(* MidiRenderer.  A delta time is a variable-length quantity: seven bits a *)
(* byte, the highest ones first, all but the last with the eighth bit set. *)
Groups(v) == 1 + Cardinality({i \in 1..4 : v >= 128^i})

encode_vlq(v) ==
  [i \in 1..Groups(v) |->
     ((v \div 128^(Groups(v) - i)) % 128) + (IF i < Groups(v) THEN 128 ELSE 0)]

Wire(tick, is_note_off, ev) ==
  [tick |-> tick, is_note_off |-> is_note_off,
   status |-> (IF is_note_off THEN 128 ELSE 144) + ev.ch, data1 |-> ev.note,
   data2 |-> ev.vel]

(* By tick, at one tick notes that end before notes that begin.            *)
OffFirst(a, b) ==
  \/ a.tick < b.tick
  \/ a.tick = b.tick /\ a.is_note_off /\ ~b.is_note_off

(* std::sort leaves ties in any order: here by pitch, up or down.          *)
WireEvents(up) ==
  SortSeq(Flatten(Len(events), LAMBDA i : <<Wire(events[i].on, FALSE, events[i]),
                                            Wire(events[i].off, TRUE, events[i])>>),
          LAMBDA a, b :
            \/ OffFirst(a, b)
            \/ /\ ~OffFirst(b, a)
               /\ IF up THEN a.data1 < b.data1 ELSE a.data1 > b.data1)

(* A status byte is left out when it is the one before.                    *)
Omitted == 0

build_instrument_track(wire) ==
  [i \in DOMAIN wire |->
     [delta |-> encode_vlq(wire[i].tick - (IF i = 1 THEN 0 ELSE wire[i - 1].tick)),
      status |-> IF i > 1 /\ wire[i].status = wire[i - 1].status THEN Omitted
                 ELSE wire[i].status,
      data1 |-> wire[i].data1, data2 |-> wire[i].data2]]

Render ==
  /\ stage = "tracks"
  /\ \E up \in BOOLEAN :
       smf' = [i \in DOMAIN SelectSeq(tracks, LAMBDA p : p = part) |->
                 build_instrument_track(WireEvents(up))]
  /\ tracks' = <<>>
  /\ stage' = "smf"
  /\ UNCHANGED <<part, harmony, specs, events, roll>>

-----------------------------------------------------------------------------
(* The plug-in.  juce::MidiFile::readFrom turns delta times into ticks and *)
(* restores the status bytes.                                              *)
decode_vlq(bytes) ==
  LET value[i \in 0..Len(bytes)] ==
        IF i = 0 THEN 0 ELSE value[i - 1] * 128 + (bytes[i] % 128)
      last == SelectInSeq(bytes, LAMBDA b : b < 128)
  IN value[last]

readFrom(track) ==
  LET msg[i \in 0..Len(track)] ==
        IF i = 0 THEN [tick |-> 0, status |-> 0]
        ELSE LET m == msg[i - 1]
             IN [tick |-> m.tick + decode_vlq(track[i].delta),
                 status |-> IF track[i].status = Omitted THEN m.status
                            ELSE track[i].status]
  IN [i \in DOMAIN track |->
        msg[i] @@ [note |-> track[i].data1, vel |-> track[i].data2]]

IsNoteOn(m) == m.status \div 16 = 9 /\ m.vel > 0
IsNoteOff(m) == m.status \div 16 = 8 \/ (m.status \div 16 = 9 /\ m.vel = 0)

(* A note ends with the next note-off of its pitch.                        *)
Paired(msgs) ==
  LET Ends(i) == {j \in (i + 1)..Len(msgs) : IsNoteOff(msgs[j]) /\ msgs[j].note = msgs[i].note}
      ons == SelectSeq([i \in DOMAIN msgs |-> i], LAMBDA i : IsNoteOn(msgs[i]))
  IN [k \in DOMAIN ons |->
        LET i == ons[k]
        IN make_note(msgs[i].tick,
                     IF Ends(i) = {} THEN msgs[i].tick + kPpq ELSE msgs[Min(Ends(i))].tick,
                     msgs[i].note, msgs[i].vel, msgs[i].status % 16)]

parseSmfToNotes(track) == Paired(readFrom(track))

Show ==
  /\ stage = "smf"
  /\ roll' = Flatten(Len(smf), LAMBDA i : parseSmfToNotes(smf[i]))
  /\ smf' = <<>>
  /\ stage' = "shown"
  /\ UNCHANGED <<part, harmony, specs, events, tracks>>

(* The roll is dragged out of the plug-in as a file: a track per channel,  *)
(* in which addEvent puts a message behind those of its tick.              *)
Message(tick, status, n, vel) == [tick |-> tick, status |-> status + n.ch, note |-> n.note, vel |-> vel]

(* Mutant: a note-off is stamped with the note's length.                   *)
ChannelTrackLengths(notes) ==
  LET added == Flatten(Len(notes), LAMBDA i :
                 <<Message(notes[i].on, 144, notes[i], notes[i].vel),
                   Message(notes[i].off - notes[i].on, 128, notes[i], 0)>>)
      order == SortSeq([i \in DOMAIN added |-> i],
                 LAMBDA i, j : added[i].tick < added[j].tick
                               \/ (added[i].tick = added[j].tick /\ i < j))
  IN [k \in DOMAIN order |-> added[order[k]]]

ChannelTrack(notes) ==
  LET added == Flatten(Len(notes), LAMBDA i : <<Message(notes[i].on, 144, notes[i], notes[i].vel),
                                                Message(notes[i].off, 128, notes[i], 0)>>)
      order == SortSeq([i \in DOMAIN added |-> i],
                 LAMBDA i, j : added[i].tick < added[j].tick
                               \/ (added[i].tick = added[j].tick /\ i < j))
  IN [k \in DOMAIN order |-> added[order[k]]]

startSMFExport ==
  /\ stage = "shown" /\ roll # <<>>
  /\ smf' = LET channels == SetToSortSeq({roll[i].ch : i \in DOMAIN roll}, <)
            IN [k \in DOMAIN channels |->
                  ChannelTrack(SelectSeq(roll, LAMBDA n : n.ch = channels[k]))]
  /\ stage' = "exported"
  /\ UNCHANGED <<part, harmony, specs, events, tracks, roll>>

Next ==
  \/ Harmony \/ DetectChords
  \/ GeneratePiano \/ GenerateBass \/ GenerateDrums
  \/ Humanize \/ BuildTracks \/ Render \/ Show \/ startSMFExport

Spec == Init /\ [][Next]_vars

-----------------------------------------------------------------------------
(* What an SMF and the piano roll can carry: ticks from 0, seven bits of   *)
(* pitch and velocity, a duration, whatever was drawn.                     *)
TypeOK ==
  \A notes \in {events, roll} : \A i \in DOMAIN notes :
    /\ notes[i].on \in Nat /\ notes[i].off \in Nat /\ notes[i].on < notes[i].off
    /\ notes[i].note \in 0..127 /\ notes[i].vel \in 1..127

(* mte_cli recognises the chords it had voiced, in every inversion, so     *)
(* that bass, piano and drums play the progression of the HarmonyEngine.   *)
DetectsWhatWasVoiced ==
  \A bar \in DOMAIN specs :
    /\ specs[bar].root_pc = Slot(bar).root_pc
    /\ specs[bar].quality = Slot(bar).quality

(* The piano roll shows every note of the part once and nothing else: the  *)
(* jitter never makes a repeated note end another one, and delta times,    *)
(* running status, ties and the assignment to tracks lose nothing.  Of the *)
(* drums, whose two engines hit one drum at one tick with different        *)
(* lengths, this holds for the hits.                                       *)
NotesSurvive ==
  LET Seen(ev) == IF part = "drums" THEN <<ev.on, ev.note, ev.vel, ev.ch>> ELSE ev
      Count(notes, n) == Cardinality({i \in DOMAIN notes : Seen(notes[i]) = n})
  IN stage = "shown" =>
       /\ Len(roll) = Len(events)
       /\ \A i \in DOMAIN events :
            Count(roll, Seen(events[i])) = Count(events, Seen(events[i]))

(* A host that reads the exported file with the plug-in's own pairing of   *)
(* note-ons and note-offs gets the notes of the roll, whatever tracks they *)
(* came from.  Not so the drums, whose hits overlap on one pitch.          *)
ExportKeepsNotes ==
  stage = "exported" /\ part # "drums" =>
    LET read == Flatten(Len(smf), LAMBDA k : Paired(smf[k]))
        Count(notes, n) == Cardinality({i \in DOMAIN notes : notes[i] = n})
    IN /\ Len(read) = Len(roll)
       /\ \A i \in DOMAIN roll : Count(read, roll[i]) = Count(roll, roll[i])

=============================================================================
