# Verification of IAMidiComposer

TLA+ models of the AI MIDI composer: a VST3 plug-in (JUCE, C++), an AI
Composition Engine (ACE, a Go gRPC server with a SQLite store) and a Music
Theory Engine (MTE, C++, run by the ACE as the command `mte_cli`). The models
are checked with TLC on small instances. The safety of all parts but the
orchestration and the contents of the files `mte_cli` writes is also proved with
TLAPS: for every number of processes, clients and files, every capacity, and
every request to the planners and to the counterpoint, modulation and
reharmonisation engines.

## 1. Inventory

| Component | State | Operations | Interacts with |
|---|---|---|---|
| MIDI FIFO (`plugin/src/engine/MidiFifo.hpp`) | slots, two atomic indices | push, pop, clear, size | Message Thread, Audio Thread, host |
| Processor (`plugin/src/PluginProcessor.cpp`) | the FIFO, parameters, editor state | processBlock, prepareToPlay, releaseResources, enqueueMidiEvents, get/setStateInformation | host, editor, FIFO |
| Editor and piano roll (`plugin/src/PluginEditor.cpp`, `ui/`) | history, selection, diff, button states | onGenerate, onRegenerate, onDiffToggle, load/saveState | processor, presets, bridge |
| Preset manager (`plugin/src/ui/PresetManager.cpp`) | presets in memory, `.preset` files | load, save, delete | editor, disk |
| Engine bridge (`plugin/src/engine/`) | none (stub) | one call per workflow | editor |
| ACE process (`engine/go/main.go`, `internal/server/grpc.go`) | unix socket, two goroutines, signal context | Serve, GracefulStop | signals, clients |
| Composition service (`internal/server/composition.go`) | temporary directory | NewComposition; the other RPCs are stubs | clients, mte_cli, files |
| Workflows (`internal/workflow/`) | temporary directory | the ten workflows of the product, five in code; the repository's `mte_cli` refuses the `--blueprint-json` and `--arrange` they pass (`mte_cli.cpp:91`), so all but W3 need another program in `MTE_CLI_PATH` | mte_cli, dsp_cli, files |
| Store (`internal/store/`) | SQLite file, schema_version | Open, Apply, Create/Get/Update/Delete/List | other processes, callers |
| mte_cli (`engine/cpp/tools/mte_cli.cpp`) | none between runs | parse, plan, generate, render, write | files |
| Prompt interpreter and planners (`engine/cpp/src/theory/prompt_interpreter.cpp`, `blueprint_generator.cpp`, `timeline_planner.cpp`, `arrangement_planner.cpp`) | none between calls; sections and players carried along a piece | interpret, generate, plan | mte_cli |
| Theory engines (`engine/cpp/src/theory/`: harmony, chords, scales, bass, drums, rhythm, piano, guitar, strings, counterpoint, modulation, reharmonisation, orchestration) | none between calls; the note, chord or pool before along a voice | generate, modulate, reharmonise, orchestrate | mte_cli, each other |
| Core (`engine/cpp/include/aimidi/core/`) | bump arena, service registry | allocate, reset, register, resolve | MTE |
| DSP (`engine/cpp/src/dsp/`) | filter memory | analyse | dsp_cli |

What is hard about it:

* **Concurrency without locks**: the FIFO, between the Message Thread and the
  real-time Audio Thread, with `clear` as a second writer of the read index.
* **Concurrency through files**: every RPC runs on its own goroutine with an
  `mte_cli` process of its own; they meet in files named after the seed.
* **Processes that share a resource**: ACE processes share a socket path and a
  database file; each of them may crash at any moment.
* **Partial failure**: killed `mte_cli` processes, full disks, lock time-outs,
  failing statements.
* **Shutdown races**: a signal before, while or after the server starts to
  accept.
* **Long sequences of legal calls**: saving and restoring plug-in state, saving
  and deleting presets, repeated regeneration.
* **State carried along a loop**: the engines choose a note, a chord, a channel
  or a player from what they chose before, fall back when a filter leaves
  nothing, and move pitches by octaves into ranges of any width.
* **Messages posted to oneself**: the prompt box posts its changes, so that a
  click may be handled before the change it follows.

What makes each component correct is listed with the runs (section 4).
`PROJECT.json` lists
every hazard at the line where it bites.

## 2. Modules

| Module | Models | Depends on |
|---|---|---|
| `MidiQueue` | the abstract promise of the FIFO: a bounded first-in first-out queue with atomic accept, take and discard | |
| `MidiFifo` | the ring: push, pop and clear split at shared accesses; the refinement mapping to `MidiQueue` | `MidiQueue` |
| `AudioPath` | the processor around the ring: spans, blocks, life-cycle calls | `MidiFifo` |
| `AudioPath_proofs` | the theorems about the ring and the processor | `AudioPath` |
| `CompositionServer`, `CompositionServer_proofs` | NewComposition calls, their `mte_cli` processes and files; the theorems | |
| `AceServer` | ACE processes, their socket and their shutdown | |
| `Migrator`, `Migrator_proofs` | opening the store: migrations of several processes; the theorems | |
| `PluginState`, `PluginState_proofs` | prompt and history, saved into the host's project and restored; the theorems | |
| `Workflows`, `Workflows_proofs` | the five workflows of the ACE on one WorkflowManager, with their files; the theorems | |
| `MtePipeline`, `MtePipeline_proofs` | a run of `mte_cli` from the harmony to the file, the piano roll that reads it and the file it exports; the theorems | |
| `PianoRoll` | pixels, ticks and notes of the roll; the tooltip | |
| `Editor` | prompt box, selection, regeneration, diff and buttons | `PianoRoll` |
| `Presets` | presets of several editors in one directory | |
| `Editor_proofs` | the theorems about tooltip, editor, presets and the ACE process | `Editor`, `Presets`, `AceServer` |
| `Theory` | pitch classes, scales and chords the engines share | |
| `EngineCall` | the state of one call of an engine: request, answer, position, step | `Theory` |
| `Counterpoint`, `Modulation`, `Reharmonize` | the engines of those names | `EngineCall` |
| `Orchestration` | OrchestrationEngine: the parts of a bar | `EngineCall` |
| `OrchestrateWorkflow` | a piano piece arranged: melody, chords, ensemble, tracks | `Orchestration` |
| `Planning` | from a prompt to blueprint, timeline, arrangement and the parameters of `mte_cli` | `EngineCall` |
| `Engines_proofs` | the theorems about counterpoint, modulation, reharmonisation and the planners | `Counterpoint`, `Modulation`, `Reharmonize`, `Planning` |
| `MC*` | values for TLC; `MCEngines` puts the engines together, `MCEditor` the editor, the tooltip and the presets | the modules of those names |

Definitions that end a group with the comment "Mutant" are plausible mistakes
in the code they stand next to. No specification uses them; they show that a
property is able to fail.

## 3. How the models correspond to the code

**MidiFifo.** `buffer`, `write_pos`, `read_pos` are the fields with those
names. A push is `PushLoad` (the acquire load of the other index and the test),
`PushWrite` (the plain store into the slot) and `PushPublish` (the release
store); a full ring is `PushFull`. A pop is `PopLoad`, `PopCopy`, `PopAdvance`,
or `PopEmpty`; a clear is `ClearLoad` and `ClearStore`. Each side reads its own
index where it uses it, as nobody else writes it meanwhile. The one exception
is `read_pos_`, which clear also writes: pop keeps it in the local `r`, and so
does the model (`c_r`). The acquire/release pairs order the plain slot accesses,
so interleavings of these steps are the executions of the code as long as no
two plain accesses to a slot meet, which is what `NoSlotRace` says. Indices
wrap at `IndexMod`, a multiple of `Capacity` as 2^64 is of a power of two.
`hist` and `taken` are history variables.

That a host never runs processBlock during prepareToPlay or releaseResources is
JUCE's contract, which the comments of `PluginProcessor.cpp` and `MidiFifo.hpp`
rely on. It is the guard `HostInCallback`, marked external.

**AudioPath.** Every event has an identity, the number of its turn, so that
loss, repetition and swapping show. `batch` is the rest of the span that
enqueueMidiEvents walks over; `host` and `num_samples` say which call of the
host is running; `midi` is the host's buffer. `BlockSkip` is the early break of
an empty block, which has already popped. `addEvent` is JUCE's sorted insertion
(external). Channel, note and velocity play no role and are left out.

**CompositionServer.** One client has one call in flight. Steps are split where
another call or process can come in between: removing the old file, opening the
new one, writing it, reading it. A file is an inode with a name; removing the
name does not disturb a process that has the inode open. `mte_cli` is
deterministic, so the file of a request is `Smf(r)`: as many copies of the
request as its length, which keeps truncated and mixed contents apart.
Cancellation kills `mte_cli` (CommandContext) in whatever state it is. `met` is
a history variable: an answer is `alone` when no call with its seed ran beside
its call. On a full disk `mte_cli` notices a failing `write`, not a failing
flush in the stream's destructor, so a short composition may come out empty.

**AceServer.** `acc` and `stp` are the two goroutines of the errgroup, `main`
the rest of Serve and main. `sock` says whose listener the socket path leads
to. The behaviour of grpc-go (Serve after Stop closes the listener and returns
ErrServerStopped; GracefulStop closes the listeners it knows and waits for the
RPCs) and of net (closing a unix listener unlinks its path) is taken from how
Serve relies on it. The history variable `overlapped` tells behaviours in which
processes only follow one another from those in which they meet, and `blocked`
notes the processes that the system refused the removal of the old socket or a
listener where there was none.

**Migrator.** One step per statement. The first writing statement of a
transaction takes SQLite's write lock (`ExecMigration`), a lock held beyond
busy_timeout is `Busy`, every error return is `StatementFails`, a crash rolls
back. The migration's statements are all IF NOT EXISTS. SQLite itself may fail
earlier than the model (a stale snapshot), never succeed where it does not.

**PluginState.** A `juce::ValueTree` refers to a shared node, and which of the
processor's `state_`, the editor's `state_` and the children of `apvts_.state`
are one node decides what a project restores; nodes are numbers, `content` says
what is in them. getStateInformation appends to whatever the parameter tree
holds; setStateInformation takes the first child of the name. `Reload` is a
project closed and opened again. Copying, replacing and finding children are
JUCE's and taken from how the processor uses them.

**Workflows.** `pc` walks through runDSP, runMTE, mergeSMF, the copy to
OutputPath and the return, with one alternative action per error return. A file
is its SMF chunks, cut short if a program fails, is killed or finds the disk
full while it writes (`Partial`). mergeSMF reads the user's file in many reads,
`readHeader` and for each track `readMagic`, `readLength` and `readData`, since
another workflow may write it between any two. The lengths read so far are the
reader's position (`lengths`): in a file with other chunks than they were read
from, it may fall anywhere, and the bytes there are `Torn` (`ChunksAt`).
os.WriteFile is `CopyTruncate` and `CopyWrite`; its one write(2) is taken as a
single step. `quiet` is a history variable: nobody has written the user's file
since the reader took its header. `Answer` runs the deferred removals and notes
which of the call's files exist at that moment. W6's loop is `runMTE`,
`AddVariation`; seeds are of int64 and wrap (`Wrap`). The name of the merged
file holds a time in nanoseconds, which is taken as new at every call.

**MtePipeline.** One action per stage of main: `Harmony` (II-V-I-I in any
inversions), `DetectChords`, the engine of the part, `Humanize`, `BuildTracks`,
`Render`, and `Show` in the plug-in. The engines are pure and tracks do not
meet, so a behaviour follows one part; `startSMFExport` groups the notes of the
roll by channel and sorts them. A variable-length quantity is its bytes,
running status is an omitted status; ticks and pitches are the program's
numbers. What the random generator draws is a choice, for a pass one draw per
parity of bar and note. `std::sort` may leave ties in any order; two orders
stand for them, as events that tie have different pitches or are drum hits.

**Editor, PianoRoll.** All handlers run on the Message Thread; what interleaves
is the queue of messages that `juce::TextEditor` posts to itself (`pending`).
The roll keeps its own copy of the diff, as the code does, next to the
editor's. The engine behind the bridge may answer with any notes, with an
unreadable file or not at all; the stub of this build always fails, which is
`onRegenerateFails`. Coordinates are the program's integers: truncating
division, the clamps, and a roll as wide as the default window.

**Presets.** Each editor has a map of its own; the directory is shared. A write
or a deletion may fail without being noticed. Saving uses the tag `Parameters`
and loading the tag `state`, so that opening an editor above a directory with a
preset dereferences a null pointer: `OpenCrashes`. `own` (one editor at a time,
no write or deletion has failed) and `deleted` (the editors that have deleted a
preset) are history variables.

**The engines.** They are const objects and share nothing, so that a behaviour
of `EngineCall` is one call. A loop that carries state from note to note is one
action per round (`FirstSpecies`, `SecondSpecies`, the styles of the
reharmonisation); one that does not is a function. Draws of the random
generator are choices. Velocities are left out unless something depends on
them. A chord name is a pair of root and suffix. Guitar and strings
deliver tracks of which only the names matter.

**Planning.** The interpreter looks for phrases; a prompt is the record of the
phrases it holds, in the forms the code tells apart (a key with or without
"key of", an accidental, `m`, `minor`; a number of bars before or after the
name of a section; several tempos, of which the first in range counts).
`generate` fills in what is missing, refuses, assigns channels; `plan` lays out
the sections and their fills and lets instruments enter and leave. The
arguments of `mte_cli` override when they differ from their defaults.

## 4. Runs

| Run | Shows |
|---|---|
| `audio_path` | all interleavings of both threads and the host: `NoSlotRace`, `OccupancyExact`, `PopReturnsOldest`, `HeardInOrder`, `EveryEventAccounted`, `NothingFromBeforePrepare`, `RestOfSpanDropped`, that the ring implements `MidiQueue`, that a playing host drains the ring (`PlayingDrains`) and that a block ends unless another span arrives meanwhile (`BlocksEnd`) |
| `server` | a call that no other one with its seed met answers with its own composition, never with what an earlier or a killed call left (`SuccessIsOwnComposition`); every call is answered |
| `server_shared_seed` | *violated*: two calls with one seed share a file (finding 1) |
| `ace` | processes that follow one another or overlap, crashes and signals anywhere: a lone server is reachable, restarts recover unless the system refuses the socket, and a clean exit leaves none (`RestartRecovers`), no RPC is cut, a signalled process ends |
| `migrator` | recorded versions are applied versions after any crash and a returned store has them all (`RecordedIsApplied`); nothing is applied twice; Open returns whoever holds the lock |
| `migrator_race` | *violated*: two first opens race (finding 2) |
| `plugin_state` | restores below a closed editor: a project gives back what was saved, however often (`RestoresWhatWasSaved`); an open editor works on the processor's state with a history that is bounded and free of duplicates (`EditorIsCurrent`) |
| `plugin_state_open_editor` | *violated*: a restore below an open editor (finding 3) |
| `workflows` | two callers, one of them writing the file the other one regenerates, programs that fail or are killed in the middle of their file, full disk: a success leaves its result and nothing else, but W6 takes its results away and leaves parts of failed ones (`SuccessLeavesItsFiles`); a merged file agrees with its header and holds the tracks of one version of the user's file unless that was written meanwhile (`MergeIsConsistent`); every variation is reported with its seed (`EveryVariationReported`), every call returns |
| `mte_pipeline` | chords are recognised as they were voiced (`DetectsWhatWasVoiced`), the piano roll shows every note that was generated and nothing else (`NotesSurvive`), and what is dragged out of it holds those notes again (`ExportKeepsNotes`) |
| `engines` | parallel octaves and fifths are written only into the last octave and next to the ends of the register (`ParallelsOnlyAtTheEdge`); a modulation leaves through a chord of both keys and arrives, near keys share six notes (`ModulationSound`); a reharmonised progression is still recognisable, in every style and scale, and fills the bars (`ReharmonizationSound`); every instrument stays in its range and plays the chord, two of the harmony never the same note (`EnsemblePlaysTheChords`); an arrangement keeps the melody and the chords of the piece (`ArrangesThePiece`); no section or instrument of a prompt is lost, a refused prompt gives an empty piece and one with literal notes the default piece (`PromptBecomesPiece`); bars tile, players and channels fit (`PlanSound`) |
| `editor` | no order of typing, dragging, clicking and regenerating leaves a button or a request behind (`RegenerationSound`); the diff on the screen is that of the notes on the screen (`DiffIsCurrent`); the tooltip is right to a pixel (`HoverWithinAPixel`); presets in memory are those on disk (`LoneEditorMatchesFiles`) for an editor alone, and a save keeps the presets and files of the saver's list, beside other editors too (`SaveKeepsOthers`) |

**Bounds.** The ring has two slots and indices modulo four: six events wrap
the indices, and spans of three are longer than the ring. Sample positions lie
before, at and behind the end of a block of two samples and go back and forth;
blocks of no samples are included. Two clients with two calls each, with seeds
of their own, a shared one and a random one, let a call meet the leftovers of
its predecessor and another call at every step. Two ACE processes with four
starts let a process crash, its successor crash or stop and a third one come
up. Two migrations let a process be overtaken between them, two processes with
three opens each let a restart meet a half-migrated file. A history of two and
three prompts let prompts fall out and come back; up to three editor states
pile up in a project. Workflow calls share nothing but the user's file, so one
call per caller lets every pair of steps on it meet; three variations have a
first, a middle and a last one. Four bars have the whole progression with its
repeated chord, where equal pitches follow each other, and the drummer's fill;
the draws of the humanisation are its extremes. The engines get the shortest
requests in which their cases meet: basses of four and five notes have inner
slots that follow inner slots, so that octaves and fifths can move in parallel
there, and the canti firmi rise, fall, stay and end early; four chords have every relation of neighbours a style looks for;
ensembles include ranges of an octave, of more and of less; the prompts name
every subset of the sections and of six instruments, and all forms of a key.
Pointer columns lie on both sides of the keyboard's edge, of a bar line and
outside; two takes and one prompt suffice as notes and texts are only compared.
Two editors with two preset numbers let them overwrite and delete each other's.
A small `SeedMod` lets the seeds of variations wrap.

**Deadlock** is checked where the model has no end of its own (`AudioPath`).
`PluginState` and `MCEditor` never stop either. The other models bound the number of calls,
starts or opens, or are one run of a program, and stop there.

**Fairness.** Threads and goroutines that can run do run; a started call goes
on to its end; while it plays a host keeps asking for blocks, as hosts do;
handlers and workflows go on, as `mte_cli` and `dsp_cli` terminate or are
killed. Nobody is forced to
enqueue, call, cancel, signal, crash, open or start.

## 5. Findings

1. `server_shared_seed`: the output file of NewComposition depends on the seed
   alone. A second call with the seed removes or truncates the file between the
   first one's `mte_cli` and its ReadFile, and the first answers Success with
   an empty composition, against "Same seed + same prompt = identical MIDI
   output".
2. `migrator_race`: Apply looks at schema_version before its transaction
   begins. Of two processes that open a new file together one fails on the
   primary key; nothing is damaged (`migrator` shows that) and a retry succeeds.
3. `plugin_state_open_editor`: after the host restores below an open editor the
   editor goes on with its own tree, and the next save puts the user's work
   behind the stale child, which is the one the next restore takes.

Other observations are conditions or exceptions in properties that hold:

* Serve removes the socket path without looking whether it is stale; a process
  that runs beside the new one serves where nobody can reach it
  (`LoneServerIsReachable` is about processes that follow one another).
* GenerateVariations defers the removal of each file to its own return, so that
  its response names files that are gone, while the comment at
  `generate_variations.go:78` wants the caller to copy them; what a killed
  `mte_cli` wrote is the only thing that stays (`SuccessLeavesItsFiles` states
  both).
* SmartRegeneration whose base file is written while it is read can answer
  Success with a track that is the bytes of no version of the file: readSMF
  reads a length and then the data, and nothing tells that the file changed in
  between. `workflow_manager.go:20-22` calls all exported methods safe for
  concurrent use. `MergeIsConsistent` says what holds all the same, and what an
  undisturbed call returns.
* On a full disk `mte_cli` can exit with 0 and an empty or cut file, which the
  server and the workflows take for a result (`SuccessIsOwnComposition`,
  `MergeIsConsistent`).
* The two drum engines hit one drum at one tick with different lengths, so that
  the piano roll shows both with the shorter one (`NotesSurvive`,
  `ExportKeepsNotes`).
* Counterpoint writes parallels into the last slot, by passing notes at the ends
  of the register, and inside a voice that is so near to the end of the register
  that contrary motion finds no other consonance, since then all filters are
  taken back (`ParallelsOnlyAtTheEdge`); `test_counterpoint_engine.cpp:57-72`
  expects none for its one request.
* A tempo of 20 to 39 or the key E# passes the interpreter and is refused by
  the generator, and the empty blueprint becomes a piece without bars
  (`PromptBecomesPiece`).
* A request for literal notes is to be rejected (`prompt_interpreter.cpp:439`,
  and `test_prompt_interpreter.cpp:59-63` expects an empty blueprint). The
  generator takes the empty blueprint for one with nothing filled in, and
  `mte_cli` writes the default piece: C major, 120 bpm, piano, bass and drums
  (the third case of `PromptBecomesPiece`). "key of d minor" is read as D major, as the shorter
  phrase is looked for first.
* The minor keys of C, F and G have relative majors that the table of sharps
  does not hold, and count as having no accidentals (`ModulationSound`).
* The jazz style takes the note above the tonic for the tritone substitute of
  V (`reharmonize_engine.cpp:267`). It is one where the fifth degree is a
  perfect fifth; in the locrian mode and the pentatonic scales it is none, and
  `ReharmonizationSound` says that the chord above the tonic comes there all the
  same. `quality_suffix` returns a dangling
  pointer for a suffix it does not know (`reharmonize_engine.cpp:69`), so that
  the model is of chords with the suffixes it knows.
* Instruments with a range below an octave may get the middle of the range
  instead of a note of the chord (`EnsemblePlaysTheChords`).
* After a generation the editor forgets the diff but the roll goes on drawing
  it; `DiffIsCurrent` relates the two as long as the diff button is enabled.
* A selection within one bar is drawn but not offered for regeneration.
* After a deletion the next user preset takes a number that may be in use
  (`SaveKeepsOthers` is about editors that have deleted nothing). Two editors
  drift apart (`LoneEditorMatchesFiles`): opened on an empty directory both
  write "User Preset 1", and the second overwrites the first one's file
  (`PresetManager.cpp:54-55`), which its list does not show; `SaveKeepsOthers`
  promises only the files of the saver's list unless it is alone. A directory
  with a preset ends the next start (`OpenCrashes`).

## 6. Proofs

Every theorem holds for all values of the constants that satisfy the named
ASSUMEs below; where TLC has two clients, slots or migrations, the theorem has
any number. Each proof is an inductive invariant, shown to hold initially and
to be kept by every action, and the properties that follow from it.

**The ring** (`AudioPath_proofs`). `FifoInvariant`: the safety properties are
not inductive, as they say nothing of the positions a thread remembers across
its steps. `FifoInv` adds that positions are the history counts modulo IndexMod
(`FifoPositions`), that the slots between them hold the pending suffix of
`hist` (`FifoContents`), and what each operation in progress has established: a
push that passed the test still has room because others only make more
(`FifoPushing`); a pop still has its event, because clear and pop exclude each
other (`FifoPopping`); the position clear loaded lies between the two indices
(`FifoClearing`). `FifoTypeCorrect`, `FifoRaceFree`, `FifoOccupancy` and
`FifoOrder` follow. The arithmetic is in lemmas on `%`: two positions less than
Capacity apart lie in different slots, and unsigned subtraction gives back a
distance smaller than IndexMod. `FifoRefinesQueue`: an event enters the
abstract queue when the write index is published and leaves it when pop copies
it, one step before the slot is handed back.

**The audio path** (`AudioPath_proofs`). `AudioPathUsesFifo`: every step is a
step of the ring or leaves it alone, hence `AudioPathSafe` and
`AudioPathRefinesQueue`. The properties of what the host hears need more than
the ring: `AudioInv` says that the events of a span are consecutive numbers
above everything accepted before (`SpanNumbers`), which call of the host is
running and what its clear leaves (`HostCalls`), that the messages of a block
are sorted by position and, at one position, by number, come from behind the
last restart and are younger than all that was played (`BlockMessages`), that
what was played is in order (`InOrder`), and that every event that left the
ring went one way (`OneWay`). `NotesStayInOrder`, `NoEventVanishes`,
`RestartIsClean` and `SpanIsCut` follow.

**The composition service** (`CompositionServer_proofs`). `SuccessIsComplete`
is about one call, its invariant about files: an inode has one name at most and
a process writes under no other seed than its own (`InodesApart`), a call that
met nobody finds its file as it left it (`OwnFile`), and `met` notes every
meeting (`MeetingsNoted`). `InodeIsFree`: there are more inodes than names and
open files, by counting.

**The ACE life cycle** (`Editor_proofs`). `AceInv`: a server that is being
stopped accepts nothing and has stopped only without RPCs (`ShutdownOrder`), a
socket file is left behind only by a crash (`SocketOwner`), without an overlap
one process runs and the socket is its own (`Lone`), and every failure has its
reason (`FailureExplained`). `ShutdownDrains`,
`LoneServerReached` and `RestartAlwaysRecovers` follow.

**The migrations** (`Migrator_proofs`). `MigratorInv`: the versions have no
gaps (`NoGaps`), a transaction that has written holds the lock and records what
nobody has recorded (`LockHeld`), the loop of Apply has all earlier versions
behind it (`LoopDone`). `StoreIsMigrated` and the action property
`MigrationsApplyOnce` follow.

**The plug-in's state** (`PluginState_proofs`). `StateInv`: the references that
must be one node are one node (`OneNode`) unless the host restores below an
open editor, which is finding 3; so `RestoredAsSaved` and `EditorStaysCurrent`
assume `~RestoreWhileOpen`, as the run `plugin_state` does, and
`StateTypeCorrect` and the clean histories do not. What `removeAllInstancesOf`
returns is an induction along the history. The library's induction theorems
take an operator, which the provers cannot instantiate; `FirstOf` (a set of
natural numbers has a least element, from `WFMin`) does the same with sets, and
`WalkExists` shows that the recursion defines a function.

**The workflows** (`Workflows_proofs`). The callers share files, so the
invariant is one formula per call about its own variables and temporary files
(`CallInv`: `Stages`, `Produced`, `Tidy`, `BaseInv`, `Variations`), one about
the user's files (`FilesInv`: whole, or empty while os.WriteFile is at work)
and one about the responses given (`Claims`). `OthersUndisturbed`: another
caller's step cannot disturb the first, because the names of temporary files
contain the call. What mergeSMF has read so far comes from versions the file
has had or is torn (`FromVersions`), which later versions do not undo, and while
nobody writes the file the reader's position is that of the next chunk of the
one version it holds. `SuccessIsTidy`,
`MergeKeepsVersions`, `AllVariationsReported` and `WorkflowsTypeCorrect` follow.

**The editor and the presets** (`Editor_proofs`). `TooltipIsExact` is integer
arithmetic at every pixel. For `RegenerationIsSound` the invariant says that
the buttons are right unless a change of the text is posted or the mouse is
down (`ButtonsCurrent`). For `ListMatchesFiles` and `SavesKeepOtherPresets`: a
directory with one editor has no other one open (`OwnIsAlone`), and the list of
an editor that has deleted nothing has numbers without gaps (`Contiguous`), so
that the count leads to a number that is new to it.

**mte_cli** (`MtePipeline_proofs`). `DetectionSound`: until the chords are
recognised each bar holds a voicing of its chord (`PipelineInv`). An inversion
keeps the pitch classes, and among the matches of II, V and I the template with
most notes is unique (`MatchesOfTheChords`, `OnlySpecificMatch`), so that the
order in which `detect_chord` tries roots and templates does not matter. It
holds for any number of bars. `DeltaTimesSurvive`: the piano roll's decoder
undoes the renderer's encoder for every delta the format can hold, by the
number of groups of seven bits.

**Counterpoint** (`Engines_proofs`). `CounterpointSound`, for any bass and
cantus firmus in either species. The invariant keeps the voice in its register
and its length below the last slot (`CounterpointInv`). A filter is taken back
when it leaves nothing, so a strong inner note is parallel to the bass only if
no other consonant note of the register moves against the cantus firmus. But
consonances lie close: six semitones on either side of a note always hold one
that makes no octave, and four one that makes no fifth (`ConsonanceBelow`,
`ConsonanceAbove`), so the note before was nearer than that to the end of the
register (`StrongNoteAtTheEdge`). The last slot is an octave (`LastIsOctave`).
A passing note keeps its interval only where none of the three notes in the
direction drawn lies in the register (`PassingAtTheEdge`,
`WeakNoteAtTheEdge`).

**Modulation.** `ModulationEngineSound`, for all keys of the table and any
number of bars. The answer is a function of the request (`ModulationInv`); the
work is in the lemmas: names of chords are read back as they were written
(`ChordNameReadBack`), the diatonic triads are stacked thirds of the scale
(`DiatonicChord`), the pivot belongs to both keys whatever order the search
takes, and a fifth on the circle changes one of seven notes (`SevenFifths`).

**Reharmonisation.** `ReharmonizationStaysSound`, for progressions of any
length in every style and scale. The property says that there is an embedding of the old
progression into the new one; the invariant (`ReharmonizeInv`) says so of what
has been rebuilt so far (`Rebuilt`), and of the pedal style, which keeps only
degrees, that every chord stands on one (`OnDegrees`). Each style answers a
chord with itself or its substitute, led to by at most one chord
(`SimpleAnswers`, `JazzAnswers`, `ModalAnswers`, `ChromaticAnswers`), which
extends the embedding (`OneMoreChord`). The last pass of the jazz style puts the
dominant of ii where a chord of the progression stands, never on a ii that
leads to one, as in every scale with a sixth degree that is not the second
(`SixthIsNotSecond`, `TurnaroundKeeps`). `SharesFit` is the division of the bars.

**The planners.** `PlanIsSound` and `PromptAlwaysBecomesPiece`, for prompts with
any numbers of bars and tempos in them, blueprints with any sections and
players, and any arguments. Which of its three cases a prompt is in is decided
at the first step: `Refused` is what `is_valid` refuses later (`PromptPlan`).
`PlanInv` says of every step that its result is the
function of the call the code computes, and of the arrangement that the
sections planned so far have players of the blueprint. Loops are recursive
functions, and the lemmas about them go by the least number a set lacks
(`MinOfNat`, `UpTo`): normalize_channels leaves a player its channel or gives it a
free one (`Normalized`), what a loop over a table takes keeps the order of the table
(`TakenInOrder`), and the bars of the timeline tile (`TimelineIsLaid`).

That the calls of the run `engines` are among those of the theorems is
`RequestsAreCalls`, which TLC evaluates.

**Assumptions.** The named ASSUMEs of the modules, which TLC evaluates in the
runs. Beyond the ranges of the bounds they say: sentinels are none of the
values they stand beside (`NoOne`, `NoSock`, `NoPreset`, `NoPath`, `NoText`);
every client has a request; clients and seeds in use are finitely many, as
inodes are; factory presets are not named like user presets; there is a
setting; no file of the user has the name of a temporary file (they lie
in a directory that os.MkdirTemp made, under random numbers of 64 bits); a track that was cut or is torn is no header. That a
host calls processBlock, prepareToPlay and releaseResources one at a time is a
guard of the model (`HostInCallback`).

**Only model-checked.**

* Liveness under fairness (`PlayingDrains`, `BlocksEnd`, the calls, opens and
  processes that end), which is beyond the prover.
* `NotesSurvive` and `ExportKeepsNotes`: they follow a piece through std::sort
  of tracks and events, the pairing of note-ons and note-offs and the grouping
  by channel, that is through SortSeq, SelectSeq and FlattenSeq with operators
  as arguments, which the provers do not see into. Its arithmetic, the delta
  times, is proved.
* `EnsemblePlaysTheChords` and `ArrangesThePiece`: folds over the players, which
  take notes from a pool they share. That two players never double a note holds
  for the ensembles the engine is given here; a large ensemble empties the pool.
* The refutations of section 5.

## 7. Plan

Done: the components of section 2 modelled and checked; the theorems of
section 6, which state every safety invariant and action property of the passing
runs but the four named above. Two steps would be next: to write the event sort of
`MtePipeline` as a function, so that `NotesSurvive` can be proved by an
invariant on the events of one tick, and to bound the ensemble by the pool in
`Orchestration`, which is the hypothesis a theorem about
`EnsemblePlaysTheChords` needs.

## 8. Not modelled

* DSP (`engine/cpp/src/dsp`, `dsp_cli`): floating-point signal processing.
* The keyword tables of genres, moods and styles, the instrument mapper: tables
  over natural language. `InputValidation`, which `mte_cli` does not call.
* Guitar, strings and the other piano styles: generators without state between
  bars; in an arrangement their tracks appear by name.
* Painting, layout and sliders of the editor; lock regions, which are only
  painted.
* The context repository and the arena, which nothing but their tests uses, and
  the service registry, which only `music_theory_module` fills and no program
  reads.
* The plug-in scanner (a directory walk), the stub bridge, the stub RPCs and
  the generated protocol code.
