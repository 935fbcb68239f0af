--------------------------- MODULE Orchestration ---------------------------
(***************************************************************************)
(* OrchestrationEngine (engine/cpp/src/theory/orchestration_engine.cpp)    *)
(* and OrchestrateWorkflow (orchestrate_workflow.cpp): a melody and chords *)
(* given to the instruments of an ensemble, and a piano piece turned into  *)
(* such an arrangement.  An ensemble is a sequence of sections, a section  *)
(* a sequence of instruments with different names.  Programs, priorities   *)
(* (which nothing reads) and velocities are left out.                      *)
(***************************************************************************)
EXTENDS EngineCall

Inst(name, channel, lo, hi, role) ==
  [name |-> name, channel |-> channel, lo |-> lo, hi |-> hi, role |-> role]

kRoles == <<"melody", "countermelody", "harmony", "bass", "pad", "rhythm", "fill">>
role_priority(r) == SelectInSeq(kRoles, LAMBDA k : k = r)

(* The names of the ensembles, as std::string orders them.                 *)
kNames == <<"Bass", "Bassoon", "Cello", "Clarinet", "Contrabass", "Drums", "Flute", "Guitar",
            "Horn", "Keys", "Oboe", "Piano", "Sax", "Timpani", "Trombone", "Trumpet",
            "Viola", "Violin I", "Violin II">>
NameRank(name) == SelectInSeq(kNames, LAMBDA k : k = name)

sort_instruments(insts) ==
  SortSeq(insts, LAMBDA a, b :
    \/ role_priority(a.role) < role_priority(b.role)
    \/ a.role = b.role /\ NameRank(a.name) < NameRank(b.name))

flatten_ensemble(ensemble) == sort_instruments(FlattenSeq(ensemble))

group_by_role(insts, role) == SelectSeq(insts, LAMBDA i : i.role = role)

(* A symbol is a root and a suffix; a suffix of no known quality stays.    *)
parse_chord(sym) ==
  Chord(parse_root_pc(sym[1]),
        CASE sym[2] \in {"", "M"} -> "maj" [] sym[2] \in {"m", "min"} -> "min"
          [] OTHER -> sym[2])

make_note(on, off, note, channel) == [channel |-> channel] @@ Note(on, off, note)

-----------------------------------------------------------------------------
(* Register.  Up and Down are the loops that move a note by octaves.       *)
Up(n, from) == IF n >= from THEN n ELSE n + 12 * ((from - n + 11) \div 12)
Down(n, to) == IF n <= to THEN n ELSE n - 12 * ((n - to + 11) \div 12)
Centre(inst) == (inst.lo + inst.hi) \div 2
Within(inst) == inst.lo..inst.hi

(* A note of a melody, six semitones off either end if the range allows.   *)
comfortable(n, inst) ==
  LET m == Down(Up(n, inst.lo + 6), inst.hi - 6)
  IN IF m \in Within(inst) THEN m ELSE Centre(inst)

(* The chord's tones around the centre of the range, as far as it reaches. *)
tones_near_centre(chord, inst) ==
  LET Near(off) ==
        LET n == (Centre(inst) \div 12) * 12 + ((chord.root_pc + off) % 12)
            m == IF n < inst.lo THEN n + 12 ELSE n
        IN IF m > inst.hi THEN m - 12 ELSE m
      offsets == offsets_for(chord.quality)
  IN [k \in DOMAIN offsets |-> Near(offsets[k])]

Playable(notes, inst) == SelectSeq(notes, LAMBDA n : n \in Within(inst))

Ascending(S) == SelectSeq([k \in 1..128 |-> k - 1], LAMBDA n : n \in S)

(* The candidate whose turn it is, else the lowest note of the pool moved  *)
(* into the range, or the middle of a range too narrow for that.           *)
pick_note_in_range(pool, inst, chord_index) ==
  LET candidates == Ascending(pool \cap Within(inst))
      first == IF pool = {} THEN 60 ELSE Min(pool)
      fallback == Down(Up(first, inst.lo), inst.hi)
  IN IF candidates # <<>> THEN candidates[(chord_index % Len(candidates)) + 1]
     ELSE IF fallback \in Within(inst) THEN fallback ELSE Centre(inst)

-----------------------------------------------------------------------------
(* The parts of one bar: sequences of <<instrument's name, note>>.         *)

pool_for(chord, targets) ==
  LET lowest == Min({targets[k].lo : k \in DOMAIN targets} \cup {127})
      highest == Max({targets[k].hi : k \in DOMAIN targets} \cup {0})
      octave == ((lowest + highest) \div 2) \div 12
      pool == {(octave + oct) * 12 + ((chord.root_pc + off) % 12) :
                 oct \in -1..2, off \in Range(offsets_for(chord.quality))} \cap (0..127)
  IN IF pool = {} THEN {60, 64, 67} ELSE pool

(* Mutant: the notes that were given out stay in the pool.                 *)
assign_chord_to_harmonyAgain(chord, targets, bar_start, duration) ==
  [k \in DOMAIN targets |->
     <<targets[k].name,
       make_note(bar_start, bar_start + duration,
                 pick_note_in_range(pool_for(chord, targets), targets[k], 0), targets[k].channel)>>]

assign_chord_to_harmony(chord, targets, bar_start, duration) ==
  LET Assign(acc, inst) ==
        LET note == pick_note_in_range(acc.pool, inst, Len(acc.part))
        IN [pool |-> acc.pool \ {note},
            part |-> Append(acc.part, <<inst.name, make_note(bar_start, bar_start + duration,
                                                             note, inst.channel)>>)]
  IN FoldLeft(Assign, [pool |-> pool_for(chord, targets), part |-> <<>>], targets).part

(* Mutant: a fifth beyond the range is not brought down.                   *)
assign_bassHigh(chord, inst, bar_start) ==
  LET root == Up((inst.lo \div 12) * 12 + chord.root_pc, inst.lo + 6)
  IN <<make_note(bar_start, bar_start + 2 * kPpq - 10, root, inst.channel),
       make_note(bar_start + 2 * kPpq, bar_start + 4 * kPpq - 10, root + 7, inst.channel)>>

(* Root and fifth, half a bar each.                                        *)
assign_bass(chord, inst, bar_start) ==
  LET near == Down(Up((inst.lo \div 12) * 12 + chord.root_pc, inst.lo + 6), inst.lo + 18)
      up == IF near < inst.lo THEN near + 12 ELSE near
      root == IF up > inst.hi THEN up - 12 ELSE up
      high == IF root + 7 > inst.hi THEN root - 5 ELSE root + 7
      fifth == IF high < inst.lo THEN high + 12 ELSE high
  IN <<make_note(bar_start, bar_start + 2 * kPpq - 10, root, inst.channel),
       make_note(bar_start + 2 * kPpq, bar_start + 4 * kPpq - 10, fifth, inst.channel)>>

assign_pad(chord, inst, bar_start, duration) ==
  LET notes == Playable(tones_near_centre(chord, inst), inst)
  IN [k \in DOMAIN notes |->
        make_note(bar_start, bar_start + duration, notes[k], inst.channel)]

(* Chord stabs on the second and the fourth beat.                          *)
stabs(chord, inst, bar_start) ==
  LET notes == Playable(tones_near_centre(chord, inst), inst)
      On(beat) == [k \in DOMAIN notes |->
                     make_note(bar_start + beat * kPpq,
                               bar_start + beat * kPpq + (kPpq \div 2) - 5,
                               notes[k], inst.channel)]
  IN On(1) \o On(3)

(* Four chord tones in turn; those out of the range are left out.          *)
countermelody_bar(chord, inst, bar_start) ==
  LET tones == tones_near_centre(chord, inst)
      beats == SelectSeq(<<0, 1, 2, 3>>,
                         LAMBDA b : tones[(b % Len(tones)) + 1] \in Within(inst))
  IN [k \in DOMAIN beats |->
        make_note(bar_start + beats[k] * kPpq, bar_start + beats[k] * kPpq + kPpq - 10,
                  tones[(beats[k] % Len(tones)) + 1], inst.channel)]

(* Without a melody its players hold the chord's root for a beat.          *)
root_bar(chord, inst, bar_start) ==
  <<make_note(bar_start, bar_start + kPpq - 5,
              comfortable((Centre(inst) \div 12) * 12 + chord.root_pc, inst), inst.channel)>>

backing_bar(insts, chord, bar_start) ==
  LET duration == kTicksPerBar - 20
      Each(role, Part(_)) ==
        LET players == group_by_role(insts, role)
        IN FlattenSeq([k \in DOMAIN players |->
             LET part == Part(players[k])
             IN [j \in DOMAIN part |-> <<players[k].name, part[j]>>]])
      Stabs(inst) == stabs(chord, inst, bar_start)
  IN assign_chord_to_harmony(chord, group_by_role(insts, "harmony"), bar_start, duration)
     \o Each("bass", LAMBDA inst : assign_bass(chord, inst, bar_start))
     \o Each("pad", LAMBDA inst : assign_pad(chord, inst, bar_start, duration))
     \o Each("rhythm", Stabs) \o Each("fill", Stabs)

leading_bar(insts, chord, bar_start) ==
  LET Lead(inst) == IF inst.role = "melody" THEN root_bar(chord, inst, bar_start)
                    ELSE countermelody_bar(chord, inst, bar_start)
      players == group_by_role(insts, "melody") \o group_by_role(insts, "countermelody")
  IN FlattenSeq([k \in DOMAIN players |->
       LET part == Lead(players[k]) IN [j \in DOMAIN part |-> <<players[k].name, part[j]>>]])

(* The melody, and a minor third below it, each in its player's register.  *)
melody_parts(insts, melody) ==
  LET Line(inst, below) ==
        [k \in DOMAIN melody |->
           <<inst.name, make_note(melody[k].on, melody[k].off,
                                  comfortable(melody[k].note - below, inst), inst.channel)>>]
      Lines(role, below) ==
        LET players == group_by_role(insts, role)
        IN FlattenSeq([k \in DOMAIN players |-> Line(players[k], below)])
  IN Lines("melody", 0) \o Lines("countermelody", 3)

(* The tracks that have notes, in the order of the instruments.            *)
collect(insts, parts) ==
  LET Own(inst) == SelectSeq(parts, LAMBDA p : p[1] = inst.name)
      Track(inst) == LET own == Own(inst)
                     IN [name |-> inst.name, by |-> "OrchestrationEngine",
                         notes |-> [k \in DOMAIN own |-> own[k][2]]]
      players == SelectSeq(insts, LAMBDA inst : Own(inst) # <<>>)
  IN [k \in DOMAIN players |-> Track(players[k])]

(* The chord of each bar; a short progression starts again.                *)
ChordOfBar(chords, bar) == parse_chord(chords[(bar % Len(chords)) + 1])

orchestrate_chords(chords, ensemble, bars) ==
  LET insts == flatten_ensemble(ensemble)
      Bar(bar) == LET c == ChordOfBar(chords, bar)
                  IN leading_bar(insts, c, bar * kTicksPerBar)
                     \o backing_bar(insts, c, bar * kTicksPerBar)
  IN IF bars < 1 \/ chords = <<>> \/ insts = <<>> THEN <<>>
     ELSE collect(insts, FlattenSeq([b \in 1..bars |-> Bar(b - 1)]))

orchestrate_full(melody, chords, ensemble, bars) ==
  LET insts == flatten_ensemble(ensemble)
      Bar(bar) == backing_bar(insts, ChordOfBar(chords, bar), bar * kTicksPerBar)
  IN IF melody = <<>> \/ chords = <<>> \/ insts = <<>> \/ bars < 1 THEN <<>>
     ELSE collect(insts, melody_parts(insts, melody)
                         \o FlattenSeq([b \in 1..bars |-> Bar(b - 1)]))

-----------------------------------------------------------------------------
(* suggest_ensemble: the ensembles the engine knows.                       *)
string_quartet ==
  <<Inst("Violin I", 0, 55, 84, "melody"), Inst("Violin II", 1, 55, 84, "harmony"),
    Inst("Viola", 2, 48, 76, "harmony"), Inst("Cello", 3, 36, 60, "bass")>>

jazz_combo ==
  <<Inst("Piano", 0, 21, 108, "harmony"), Inst("Bass", 1, 28, 48, "bass"),
    Inst("Drums", 9, 35, 81, "rhythm"), Inst("Guitar", 2, 40, 76, "harmony"),
    Inst("Sax", 3, 49, 84, "melody")>>

rock_band ==
  <<Inst("Guitar", 0, 40, 76, "melody"), Inst("Bass", 1, 28, 48, "bass"),
    Inst("Drums", 9, 35, 81, "rhythm"), Inst("Keys", 2, 36, 96, "harmony")>>

orchestra ==
  <<<<Inst("Violin I", 0, 55, 84, "melody"), Inst("Violin II", 1, 55, 84, "countermelody"),
      Inst("Viola", 2, 48, 76, "harmony"), Inst("Cello", 3, 36, 60, "harmony"),
      Inst("Contrabass", 4, 28, 48, "bass")>>,
    <<Inst("Flute", 5, 60, 96, "countermelody"), Inst("Oboe", 6, 58, 87, "fill"),
      Inst("Clarinet", 7, 50, 84, "fill"), Inst("Bassoon", 8, 34, 66, "fill")>>,
    <<Inst("Horn", 9, 41, 77, "harmony"), Inst("Trumpet", 10, 58, 84, "harmony"),
      Inst("Trombone", 11, 36, 72, "fill")>>,
    <<Inst("Timpani", 12, 28, 55, "rhythm")>>>>

pop_band ==
  <<<<Inst("Piano", 0, 21, 108, "harmony"), Inst("Guitar", 1, 40, 76, "harmony"),
      Inst("Bass", 2, 28, 48, "bass"), Inst("Drums", 9, 35, 81, "rhythm")>>,
    <<Inst("Violin I", 3, 55, 84, "countermelody"), Inst("Cello", 4, 36, 60, "pad")>>>>

(* The first of them in the order of roles and names, in one section.      *)
trim_ensemble(ensemble, max_instruments) ==
  <<SubSeq(flatten_ensemble(ensemble), 1, max_instruments)>>

suggest_ensemble(genre, instrument_count) ==
  LET whole == CASE genre = "jazz" -> <<jazz_combo>>
                 [] genre = "rock" -> <<rock_band>>
                 [] genre = "orchestra" -> orchestra
                 [] genre = "string quartet" -> <<string_quartet>>
                 [] OTHER -> pop_band
  IN IF instrument_count > 0 /\ Len(FlattenSeq(whole)) > instrument_count
     THEN trim_ensemble(whole, instrument_count) ELSE whole

=============================================================================
