------------------------------ MODULE Planning ------------------------------
(***************************************************************************)
(* How mte_cli --prompt plans a piece (engine/cpp/tools/mte_cli.cpp):      *)
(* PromptInterpreter reads a blueprint out of the prompt,                  *)
(* BlueprintGenerator completes and checks it, TimelinePlanner lays the    *)
(* sections out, ArrangementPlanner says who plays where, and the          *)
(* arguments of the command line override the result.                      *)
(*                                                                         *)
(* A prompt is what the interpreter looks for in it:                       *)
(*   literal      it asks for literal notes                                *)
(*   key          the phrase that names the key, see KeyPhrase             *)
(*   bpms         the numbers beside the word bpm, in their order          *)
(*   parts        the sections it names, in their order, each with the     *)
(*                number of bars before and after the name, 0 without one  *)
(*   bars         the numbers before the word bar, in their order          *)
(*   energies     the levels it has a word for                             *)
(*   instruments  the instruments it names                                 *)
(* Genres, emotions, densities and programs, which nothing reads, and the  *)
(* seed are left out.                                                      *)
(***************************************************************************)
EXTENDS EngineCall

Low == 1
Mid == 2
High == 3

-----------------------------------------------------------------------------
(* The interpreter looks for substrings, natural keys first.  A phrase is  *)
(* form (key of, in, or none), letter, accidental and tail (minor, major,  *)
(* m for a minor put next to the letter, or nothing).                      *)
KeyPhrase(form, letter, acc, tail) ==
  [form |-> form, letter |-> letter, acc |-> acc, tail |-> tail]
NoKey == KeyPhrase("", "", "", "")

kAccidentals == {"F#", "C#", "G#", "D#", "A#", "E#", "Bb", "Eb", "Ab", "Db", "Gb"}
Sharp == [C |-> "C#", D |-> "D#", E |-> "E#", F |-> "F#", G |-> "G#", A |-> "A#", B |-> "B#"]
Flat == [C |-> "Cb", D |-> "Db", E |-> "Eb", F |-> "Fb", G |-> "Gb", A |-> "Ab", B |-> "Bb"]
Written(p) ==
  CASE p.acc = "" -> p.letter [] p.acc = "#" -> Sharp[p.letter] [] p.acc = "b" -> Flat[p.letter]

(* The letter just before the tail: of Bb minor it is the flat.            *)
BeforeTail(p) == CASE p.acc = "" -> p.letter [] p.acc = "b" -> "B" [] OTHER -> "#"

detect_key_and_scale(p) ==
  LET spelled == p.tail \in {"minor", "major"}
  IN CASE p.form = "key of" -> <<p.letter, "major">>
       [] p.form # "key of" /\ spelled /\ BeforeTail(p) # "#" -> <<BeforeTail(p), p.tail>>
       [] p.form # "key of" /\ spelled /\ BeforeTail(p) = "#" /\ Written(p) \in kAccidentals ->
            <<Written(p), p.tail>>
       [] OTHER ->
            IF p.form = "in"
            THEN <<p.letter, IF p.tail = "m" /\ p.acc = "" THEN "minor" ELSE "major">>
            ELSE <<"C", "major">>

(* The first number within the bounds.                                     *)
FirstIn(numbers, S, default) ==
  LET k == SelectInSeq(numbers, LAMBDA n : n \in S) IN IF k = 0 THEN default ELSE numbers[k]

detect_bpm(numbers) == FirstIn(numbers, 20..300, 120)
extract_total_bars(numbers) == FirstIn(numbers, 1..256, -1)

(* The number after the name, else the last one before it with the word    *)
(* bar, which may belong to the section named before.                      *)
extract_bars_for_section(parts, k, default) ==
  LET written == SelectSeq(IF k = 1 THEN <<parts[1].before>>
                           ELSE <<parts[k - 1].before, parts[k - 1].after, parts[k].before>>,
                           LAMBDA n : n # 0)
  IN FirstIn(<<parts[k].after>> \o (IF written = <<>> THEN <<>> ELSE <<Last(written)>>),
             1..256, default)

detect_energy(levels) ==
  CASE "high" \in levels -> High
    [] "high" \notin levels /\ "low" \in levels -> Low
    [] OTHER -> Mid

(* The entries of a table that a loop takes, in their order.               *)
Taken(table, S) ==
  LET taken[k \in 0..Len(table)] ==
        IF k = 0 THEN <<>>
        ELSE IF k \in S THEN Append(taken[k - 1], table[k]) ELSE taken[k - 1]
  IN taken[Len(table)]

Section(name, bars, energy) == [name |-> name, bars |-> bars, energy |-> energy]

kSections == <<Section("intro", 2, Low), Section("verse", 4, Mid), Section("chorus", 4, High),
               Section("bridge", 4, Mid), Section("outro", 2, Low)>>
kWithoutBridge == <<kSections[1], kSections[2], kSections[3], kSections[5]>>

(* Named sections come in the order of kSections; without one the bars     *)
(* choose among four forms.                                                *)
build_sections(parts, numbers, energy) ==
  LET Named(s) == SelectInSeq(parts, LAMBDA p : p.name = s.name)
      named == Taken(kSections, {k \in DOMAIN kSections : Named(kSections[k]) # 0})
      bars == extract_total_bars(numbers)
  IN CASE parts # <<>> ->
            [k \in DOMAIN named |->
               [named[k] EXCEPT
                  !.bars = extract_bars_for_section(parts, Named(named[k]), named[k].bars)]]
       [] parts = <<>> /\ (bars < 0 \/ bars >= 12) -> kWithoutBridge
       [] parts = <<>> /\ bars \in 8..11 -> <<kSections[2], kSections[3]>>
       [] OTHER -> <<Section("verse", bars, energy)>>

Player(name, role, channel) == [name |-> name, role |-> role, channel |-> channel]

kInstruments ==
  <<Player("piano", "comping", 0), Player("bass", "bass", 1), Player("drums", "drum", 9),
    Player("guitar", "rhythm", 2), Player("strings", "pad", 3), Player("synth", "pad", 4),
    Player("brass", "lead", 5), Player("sax", "lead", 6)>>

detect_instruments(names) ==
  IF names = {} THEN SubSeq(kInstruments, 1, 3)
  ELSE Taken(kInstruments, {k \in DOMAIN kInstruments : kInstruments[k].name \in names})

MusicBlueprint ==
  [root_key |-> "C", scale |-> "major", bpm |-> 120, energy |-> Mid,
   sections |-> <<>>, instruments |-> <<>>]

interpret(p) ==
  LET ks == detect_key_and_scale(p.key)
      energy == detect_energy(p.energies)
  IN IF p.literal THEN MusicBlueprint
     ELSE [root_key |-> ks[1], scale |-> ks[2], bpm |-> detect_bpm(p.bpms), energy |-> energy,
           sections |-> build_sections(p.parts, p.bars, energy),
           instruments |-> detect_instruments(p.instruments)]

-----------------------------------------------------------------------------
(* BlueprintGenerator.                                                     *)
kValidScales ==
  {"major", "minor", "dorian", "phrygian", "lydian", "mixolydian", "aeolian", "locrian",
   "harmonic_minor", "melodic_minor", "pentatonic_major", "pentatonic_minor", "blues",
   "chromatic"}

make_default_sections ==
  [k \in DOMAIN kWithoutBridge |-> [kWithoutBridge[k] EXCEPT !.energy = 0]]

(* Mutant: slow pieces are refused.                                        *)
is_validFast(bp) ==
  /\ bp.root_key \in DOMAIN key_table /\ bp.scale \in kValidScales
  /\ bp.bpm \in 60..300

is_valid(bp) ==
  /\ bp.root_key \in DOMAIN key_table /\ bp.scale \in kValidScales
  /\ bp.bpm \in 40..300
  /\ \A k \in DOMAIN bp.sections : bp.sections[k].bars \in 1..256

(* Mutant: a channel is only compared with the one before.                 *)
assign_channelLast(used, inst) ==
  IF inst.role = "drum" THEN 9
  ELSE IF used # <<>> /\ Last(used) = inst.channel THEN inst.channel + 1 ELSE inst.channel

(* Drums get channel 9; a channel in use is replaced by the first free one *)
(* below 9, for drums below 10, if there is any.                           *)
assign_channel(used, inst) ==
  LET own == IF inst.role = "drum" THEN 9 ELSE inst.channel
      free == (0..(IF inst.role = "drum" THEN 9 ELSE 8)) \ Range(used)
  IN IF own \in Range(used) /\ free # {} THEN Min(free) ELSE own

normalize_channels(instruments) ==
  LET used[k \in 0..Len(instruments)] ==
        IF k = 0 THEN <<>>
        ELSE Append(used[k - 1], assign_channel(used[k - 1], instruments[k]))
  IN [k \in DOMAIN instruments |->
        [instruments[k] EXCEPT !.channel = used[Len(instruments)][k]]]

(* A blueprint that is not valid is replaced by an empty one.              *)
generate_blueprint(input) ==
  LET bp == [input EXCEPT
               !.sections = IF @ = <<>> THEN make_default_sections ELSE @,
               !.instruments = IF @ = <<>> THEN SubSeq(kInstruments, 1, 3) ELSE @]
  IN IF ~is_valid(bp) THEN MusicBlueprint
     ELSE [bp EXCEPT
             !.sections = [k \in DOMAIN bp.sections |->
                             [bp.sections[k] EXCEPT !.energy = IF @ = 0 THEN bp.energy ELSE @]],
             !.instruments = normalize_channels(bp.instruments)]

-----------------------------------------------------------------------------
(* TimelinePlanner.  A bar of fill between sections of different energy,   *)
(* unless the names say otherwise.                                         *)
determine_transition(prev, next) ==
  LET names == <<prev.name, next.name>>
  IN CASE next.name = "outro" \/ names \in {<<"intro", "verse">>, <<"chorus", "verse">>} -> 0
       [] next.name # "outro" /\ names \in {<<"chorus", "bridge">>, <<"bridge", "chorus">>} -> 1
       [] names = <<"verse", "chorus">> -> IF next.energy > prev.energy THEN 1 ELSE 0
       [] OTHER -> IF next.energy # prev.energy THEN 1 ELSE 0

planned_bars(s) == IF s.bars > 0 THEN s.bars ELSE 4

(* Mutant: a fill does not shift what comes after it.                      *)
startNoFill(starts, sections, k) ==
  IF k = 1 THEN 0 ELSE starts[k - 1] + planned_bars(sections[k - 1])

start(starts, sections, k) ==
  IF k = 1 THEN 0
  ELSE starts[k - 1] + planned_bars(sections[k - 1])
       + determine_transition(sections[k - 1], sections[k])

plan_timeline(bp) ==
  LET s == bp.sections
      starts[k \in 1..Len(s)] == start(starts, s, k)
      planned == [k \in DOMAIN s |->
                    [name |-> s[k].name, bars |-> planned_bars(s[k]), energy |-> s[k].energy,
                     start_bar |-> starts[k], end_bar |-> starts[k] + planned_bars(s[k])]]
      total == IF s = <<>> THEN 0 ELSE Last(planned).end_bar
  IN [sections |-> planned,
      transitions |-> [k \in 1..(Len(s) - 1) |-> determine_transition(s[k], s[k + 1])],
      total_bars |-> total, total_ticks |-> total * 4 * kPpq]

(* ArrangementPlanner.                                                     *)
role_plays_at_energy(role, energy) ==
  CASE role = "lead" -> energy >= High
    [] role \in {"bass", "rhythm"} -> energy >= Mid
    [] OTHER -> TRUE

target_indices(bp, energy) ==
  {i \in DOMAIN bp.instruments : role_plays_at_energy(bp.instruments[i].role, energy)}

AddOne(active, target) ==
  IF target \subseteq active THEN active ELSE active \cup {Min(target \ active)}

(* Mutant: the last one that is too much leaves.                           *)
RemoveOneLast(active, target) ==
  IF active \subseteq target THEN active ELSE active \ {Max(active \ target)}

RemoveOne(active, target) ==
  IF active \subseteq target THEN active ELSE active \ {Min(active \ target)}

(* Who plays in a section, after those who played in the one before.       *)
next_active(active, ideal, change) ==
  CASE change > 0 -> AddOne(active, ideal)
    [] change < 0 -> RemoveOne(active, ideal)
    [] change = 0 -> ideal

-----------------------------------------------------------------------------
(* The steps of mte_cli.  A caller of the generator may also come with a   *)
(* blueprint of its own.                                                   *)
Interpret ==
  /\ step = "prompt"
  /\ out' = [blueprint |-> interpret(call.prompt)]
  /\ step' = "generate" /\ UNCHANGED <<call, at>>

TakeBlueprint ==
  /\ step = "blueprint"
  /\ out' = [blueprint |-> call.blueprint]
  /\ step' = "generate" /\ UNCHANGED <<call, at>>

Generate ==
  /\ step = "generate"
  /\ out' = [blueprint |-> generate_blueprint(out.blueprint)]
  /\ step' = "timeline" /\ UNCHANGED <<call, at>>

PlanTimeline ==
  /\ step = "timeline"
  /\ out' = [blueprint |-> out.blueprint, timeline |-> plan_timeline(out.blueprint),
             arrangement |-> <<>>]
  /\ step' = "arrangement" /\ UNCHANGED <<call, at>>

PlanSection ==
  /\ step = "arrangement" /\ at < Len(out.timeline.sections)
  /\ LET s == out.timeline.sections
         ideal == target_indices(out.blueprint, s[at + 1].energy)
         change == IF at = 0 THEN 0 ELSE s[at + 1].energy - s[at].energy
         active == IF at = 0 THEN {} ELSE out.arrangement[at]
     IN out' = [out EXCEPT !.arrangement = Append(@, next_active(active, ideal, change))]
  /\ at' = at + 1 /\ UNCHANGED <<call, step>>

(* Arguments that have their default value are taken for absent.           *)
Resolve ==
  /\ step = "arrangement" /\ at = Len(out.timeline.sections)
  /\ LET Arg(given, absent, planned) == IF given = absent THEN planned ELSE given
         bp == out.blueprint
     IN out' = [blueprint |-> bp, timeline |-> out.timeline, arrangement |-> out.arrangement,
                resolved |-> [key |-> Arg(call.args.key, "", bp.root_key),
                              scale |-> Arg(call.args.scale, "", bp.scale),
                              bpm |-> Arg(call.args.bpm, 120, bp.bpm),
                              bars |-> Arg(call.args.bars, 4, out.timeline.total_bars)]]
  /\ step' = "done" /\ UNCHANGED <<call, at>>

PlanningNext ==
  Interpret \/ TakeBlueprint \/ Generate \/ PlanTimeline \/ PlanSection \/ Resolve

(* Any prompt, any blueprint of another caller, and arguments as mte_cli   *)
(* takes them.                                                             *)
SectionNames == {"intro", "verse", "chorus", "bridge", "outro"}
InstrumentNames == {"piano", "bass", "drums", "guitar", "strings", "synth", "brass", "sax"}
AnyPhrase ==
  [form : {"", "in", "key of"}, letter : {"C", "D", "E", "F", "G", "A", "B"},
   acc : {"", "#", "b"}, tail : {"", "m", "minor", "major"}]
AnyPrompt ==
  [literal : BOOLEAN, key : AnyPhrase \cup {NoKey}, bpms : Seq(Nat),
   parts : Seq([name : SectionNames, before : Nat, after : Nat]), bars : Seq(Nat),
   energies : SUBSET {"low", "mid", "high"}, instruments : SUBSET InstrumentNames]
AnyBlueprint ==
  [root_key : STRING, scale : STRING, bpm : Int, energy : Int,
   sections : Seq([name : STRING, bars : Int, energy : Int]),
   instruments : Seq([name : STRING, role : STRING, channel : Int])]
AnyArguments == [key : STRING, scale : STRING, bpm : Nat \ {0}, bars : Nat \ {0}]

PlanningCalls ==
  [engine : {"prompt"}, prompt : AnyPrompt, args : AnyArguments]
  \cup [engine : {"blueprint"}, blueprint : AnyBlueprint, args : AnyArguments]

PlanningSpec == Start(PlanningCalls) /\ [][PlanningNext]_vars

-----------------------------------------------------------------------------
Planned == call.engine \in {"prompt", "blueprint"} /\ step = "done"

(* Sections and fills tile the piece: every bar belongs to one section or  *)
(* to the fill between two, in the order of the blueprint, and the piece   *)
(* ends with its last section.                                             *)
BarsTile ==
  Planned =>
    LET s == out.timeline.sections
        t == out.timeline.transitions
        Owners(bar) == {k \in DOMAIN s : bar \in s[k].start_bar..(s[k].end_bar - 1)}
        Fills(bar) == {k \in DOMAIN t : bar \in s[k].end_bar..(s[k].end_bar + t[k] - 1)}
    IN /\ \A bar \in 0..(out.timeline.total_bars - 1) :
            Cardinality(Owners(bar)) + Cardinality(Fills(bar)) = 1
       /\ \A k \in DOMAIN t : s[k].end_bar <= s[k + 1].start_bar
       /\ s # <<>> => Last(s).end_bar = out.timeline.total_bars

Names(list) == {list[k].name : k \in DOMAIN list}

(* What the generator refuses of the tempos and keys that the interpreter  *)
(* reads.                                                                  *)
Refused(p) == detect_bpm(p.bpms) < 40 \/ detect_key_and_scale(p.key)[1] = "E#"

(* What becomes of a prompt between three components that check it apart   *)
(* from each other.  Everything the interpreter accepts passes the         *)
(* generator's checks, so that no section and no instrument the prompt     *)
(* names is lost and mte_cli knows the key, except for a tempo from 20 to  *)
(* 39 and the key E#: of these nothing is left, not one bar.  A prompt for *)
(* literal notes, which the interpreter rejects with an empty blueprint,   *)
(* goes on as a default piece: the generator cannot tell it from a request *)
(* without wishes.                                                         *)
PromptBecomesPiece ==
  call.engine = "prompt" /\ step = "done" =>
    LET p == call.prompt
        bp == out.blueprint
        sections == Names(out.timeline.sections)
        players == Names(bp.instruments)
    IN /\ ~p.literal /\ ~Refused(p) =>
            /\ out.resolved.bars >= 1
            /\ call.args.key = "" => out.resolved.key \in DOMAIN key_table
            /\ Names(p.parts) \subseteq sections /\ p.instruments \subseteq players
       /\ ~p.literal /\ Refused(p) =>
            /\ call.args.bars = 4 => out.resolved.bars = 0
            /\ sections = {} /\ players = {}
       /\ p.literal =>
            /\ out.resolved.bars >= 1
            /\ bp.root_key = "C" /\ bp.scale = "major" /\ bp.bpm = 120
            /\ sections = Names(kWithoutBridge) /\ players = {"piano", "bass", "drums"}

(* Drums always play and the bass drops out where the energy is low, for   *)
(* the instruments and sections that prompts lead to, although from one    *)
(* section to the next only one instrument comes or goes; and nobody       *)
(* enters a section whose energy is too low for his role.                  *)
DrumsPlayBassRests ==
  call.engine = "prompt" /\ step = "done" =>
    \A k \in DOMAIN out.arrangement :
      LET playing == out.arrangement[k]
          Role(i) == out.blueprint.instruments[i].role
          energy == out.timeline.sections[k].energy
          entered == IF k = 1 THEN playing ELSE playing \ out.arrangement[k - 1]
      IN /\ \A i \in DOMAIN out.blueprint.instruments : Role(i) = "drum" => i \in playing
         /\ \A i \in playing : Role(i) = "bass" => energy # Low
         /\ \A i \in entered : Role(i) = "lead" => energy = High

(* Whatever channels a blueprint asks for, no two of its instruments share *)
(* one and the drums are alone on 9, unless another instrument asks for 9  *)
(* or there are more than the channels hold.                               *)
ChannelsApart ==
  Planned =>
    LET inst == out.blueprint.instruments
        asked == IF call.engine = "prompt" THEN inst ELSE call.blueprint.instruments
        fits == /\ Cardinality({k \in DOMAIN inst : inst[k].role # "drum"}) <= 9
                /\ Cardinality({k \in DOMAIN inst : inst[k].role = "drum"}) <= 1
                /\ \A k \in DOMAIN asked : asked[k].role # "drum" => asked[k].channel \in 0..8
    IN fits => \A j, k \in DOMAIN inst :
                 /\ j # k => inst[j].channel # inst[k].channel
                 /\ inst[j].role = "drum" <=> inst[j].channel = 9

(* The plan of a piece: its bars, who plays in them, and on which channel. *)
PlanSound == BarsTile /\ DrumsPlayBassRests /\ ChannelsApart

=============================================================================
