----------------------------- MODULE AudioPath -----------------------------
(***************************************************************************)
(* The path of MIDI events through the plug-in (PluginProcessor.cpp): the  *)
(* Message Thread's enqueueMidiEvents feeds the ring of MidiFifo, the      *)
(* host's Audio Thread drains it in processBlock, and the host's           *)
(* prepareToPlay and releaseResources clear it.                            *)
(*                                                                         *)
(* Every event has its own identity: the n-th event handed to              *)
(* enqueueMidiEvents is the number n.  SamplePosition[n] is the field      *)
(* sample_position of that event.                                          *)
(***************************************************************************)
EXTENDS MidiFifo, SequencesExt, FiniteSets

CONSTANTS
  MaxBatch,       \* bound: the longest span enqueueMidiEvents is given
  BlockSizes,     \* the values of buffer.getNumSamples()
  SamplePosition  \* sample_position of each event

ASSUME AudioAssumption ==
  /\ IsFiniteSet(Event) /\ Event = 1..Cardinality(Event)
  /\ MaxBatch \in Nat \ {0}
  /\ BlockSizes \subseteq Nat
  /\ SamplePosition \in [Event -> Nat]

VARIABLES
  batch,        \* what is left of the span enqueueMidiEvents walks over
  next_ev,      \* the identity of the next event handed in
  host,         \* where the host is in the life cycle of the processor
  num_samples,  \* num_samples of the running processBlock, or NoBlock
  midi,         \* the host's MidiBuffer of the running block
  played,       \* history: the events of the finished blocks, in order
  lost,         \* history: events popped by a block without samples
  discarded,    \* history: events thrown away by clear
  dropped,      \* history: events of spans cut short by a full ring
  mark          \* history: Len(hist) when prepareToPlay was last entered

hostVars == <<host, num_samples, midi, played, lost, discarded, mark>>
batchVars == <<batch, next_ev, dropped>>
vars == <<fifoVars, hostVars, batchVars>>

NoBlock == -1
Message == [ev : Event, pos : Nat]

Init ==
  /\ FifoInit
  /\ batch = <<>> /\ next_ev = 1 /\ dropped = {}
  /\ host = "stopped" /\ num_samples = NoBlock
  /\ midi = <<>> /\ played = <<>>
  /\ lost = {} /\ discarded = {} /\ mark = 0

-----------------------------------------------------------------------------
(* enqueueMidiEvents, on the Message Thread.                               *)

EnqueueCall(n) ==
  /\ batch = <<>>
  /\ next_ev + n - 1 \in Event
  /\ batch' = [i \in 1..n |-> next_ev + i - 1]
  /\ next_ev' = next_ev + n
  /\ UNCHANGED <<fifoVars, hostVars, dropped>>

EnqueueTest ==
  /\ batch # <<>>
  /\ PushLoad(Head(batch))
  /\ UNCHANGED <<batchVars, hostVars>>

EnqueueWrite ==
  /\ PushWrite
  /\ UNCHANGED <<batchVars, hostVars>>

EnqueuePublish ==
  /\ PushPublish
  /\ batch' = Tail(batch)
  /\ UNCHANGED <<next_ev, dropped, hostVars>>

(* Mutant: continue instead of break on a full ring.                       *)
EnqueueFullContinue ==
  /\ batch # <<>>
  /\ PushFull
  /\ batch' = Tail(batch)
  /\ dropped' = dropped \cup {Head(batch)}
  /\ UNCHANGED <<next_ev, hostVars>>

EnqueueFull ==
  /\ batch # <<>>
  /\ PushFull
  /\ batch' = <<>>
  /\ dropped' = dropped \cup ToSet(batch)
  /\ UNCHANGED <<next_ev, hostVars>>

-----------------------------------------------------------------------------
(* prepareToPlay and releaseResources: both only clear the ring.  The host *)
(* calls them between blocks, and calls processBlock only after            *)
(* prepareToPlay has returned.                                             *)

PrepareCall ==
  /\ host \in {"stopped", "playing"} /\ num_samples = NoBlock
  /\ ClearLoad
  /\ host' = "preparing" /\ mark' = Len(hist)
  /\ UNCHANGED <<num_samples, midi, played, lost, discarded, batchVars>>

ReleaseCall ==
  /\ host = "playing" /\ num_samples = NoBlock
  /\ ClearLoad
  /\ host' = "releasing"
  /\ UNCHANGED <<num_samples, midi, played, lost, discarded, mark, batchVars>>

ClearReturn ==
  /\ ClearStore
  /\ host' = IF host = "preparing" THEN "playing" ELSE "stopped"
  /\ discarded' = discarded \cup {hist[i] : i \in (taken + 1)..taken'}
  /\ UNCHANGED <<num_samples, midi, played, lost, mark, batchVars>>

-----------------------------------------------------------------------------
(* processBlock, on the Audio Thread.                                      *)

BlockCall(n) ==
  /\ host = "playing" /\ num_samples = NoBlock
  /\ num_samples' = n /\ midi' = <<>>
  /\ UNCHANGED <<fifoVars, host, played, lost, discarded, mark, batchVars>>

BlockPop ==
  /\ num_samples # NoBlock
  /\ PopLoad
  /\ UNCHANGED <<hostVars, batchVars>>

BlockCopy ==
  /\ PopCopy
  /\ UNCHANGED <<hostVars, batchVars>>

(* Mutant: a late position wraps around the block.                         *)
ClampWrapping(p) == p % num_samples

Clamp(p) == IF p <= num_samples - 1 THEN p ELSE num_samples - 1

(* juce::MidiBuffer::addEvent keeps the messages sorted by position and    *)
(* puts a new one behind the ones that are at its position.                *)
addEvent(e, p) ==
  InsertAt(midi, 1 + Cardinality({i \in DOMAIN midi : midi[i].pos <= p}),
           [ev |-> e, pos |-> p])

Events(messages) == [i \in DOMAIN messages |-> messages[i].ev]

(* Mutant: an event behind the end of the block is skipped.                *)
BlockDeliverOnlyInside ==
  /\ num_samples > 0
  /\ PopAdvance
  /\ midi' = IF SamplePosition[c_out] < num_samples
             THEN addEvent(c_out, SamplePosition[c_out]) ELSE midi
  /\ UNCHANGED <<host, num_samples, played, lost, discarded, mark, batchVars>>

(* The end of pop and the body of the loop.  A block without samples has   *)
(* already popped the event when it breaks out of the loop.                *)
BlockDeliver ==
  /\ num_samples > 0
  /\ PopAdvance
  /\ midi' = addEvent(c_out, Clamp(SamplePosition[c_out]))
  /\ UNCHANGED <<host, num_samples, played, lost, discarded, mark, batchVars>>

BlockSkip ==
  /\ num_samples = 0
  /\ PopAdvance
  /\ lost' = lost \cup {c_out}
  /\ num_samples' = NoBlock
  /\ UNCHANGED <<host, midi, played, discarded, mark, batchVars>>

(* Mutant: the loop waits for events in a block that has none yet.         *)
BlockReturnSpins ==
  /\ num_samples # NoBlock
  /\ PopEmpty
  /\ IF midi = <<>>
     THEN UNCHANGED <<num_samples, played, midi>>
     ELSE /\ num_samples' = NoBlock
          /\ played' = played \o Events(midi) /\ midi' = <<>>
  /\ UNCHANGED <<host, lost, discarded, mark, batchVars>>

BlockReturn ==
  /\ num_samples # NoBlock
  /\ PopEmpty
  /\ num_samples' = NoBlock
  /\ played' = played \o Events(midi) /\ midi' = <<>>
  /\ UNCHANGED <<host, lost, discarded, mark, batchVars>>

-----------------------------------------------------------------------------
MessageThread ==
  \/ \E n \in 1..MaxBatch : EnqueueCall(n)
  \/ EnqueueTest \/ EnqueueWrite \/ EnqueuePublish \/ EnqueueFull

HostThread == PrepareCall \/ ReleaseCall \/ ClearReturn

BlockStep == BlockPop \/ BlockCopy \/ BlockDeliver \/ BlockSkip \/ BlockReturn
AudioThread == (\E n \in BlockSizes : BlockCall(n)) \/ BlockStep

Next == MessageThread \/ HostThread \/ AudioThread

Spec == Init /\ [][Next]_vars

(* A started call runs to its end, and while it plays the host keeps       *)
(* asking for blocks.  Nobody has to enqueue, to start or to stop.         *)
Fairness ==
  /\ WF_vars(EnqueueTest \/ EnqueueWrite \/ EnqueuePublish \/ EnqueueFull)
  /\ WF_vars(ClearReturn)
  /\ WF_vars(AudioThread)

FairSpec == Spec /\ Fairness

-----------------------------------------------------------------------------
(* The calls in progress, the span and the MidiBuffer keep their shapes.   *)
TypeOK ==
  /\ FifoTypeOK
  /\ batch \in Seq(Event) /\ next_ev \in 1..(Cardinality(Event) + 1)
  /\ host \in {"stopped", "preparing", "playing", "releasing"}
  /\ num_samples \in BlockSizes \cup {NoBlock}
  /\ midi \in Seq(Message) /\ played \in Seq(Event)
  /\ lost \cup discarded \cup dropped \subseteq Event
  /\ mark \in Nat

HeardEvents == played \o Events(midi)

(* Two events whose sample positions do not go backwards reach the host in *)
(* the order they were enqueued, and no event reaches it twice: neither    *)
(* the ring, the clamping of late positions, nor the sorted insertion into *)
(* the MidiBuffer swaps a note-on with its note-off.                       *)
HeardInOrder ==
  \A i, j \in DOMAIN HeardEvents :
    i < j =>
      \/ HeardEvents[i] < HeardEvents[j]
      \/ /\ HeardEvents[j] < HeardEvents[i]
         /\ SamplePosition[HeardEvents[i]] < SamplePosition[HeardEvents[j]]

(* Every event that left the ring went exactly one way: to the host, to    *)
(* the floor of a block without samples, or into a clear.                  *)
EveryEventAccounted ==
  LET heard == ToSet(HeardEvents)
      gone == {hist[i] : i \in 1..taken}
  IN /\ gone = heard \cup lost \cup discarded
     /\ heard \cap lost = {} /\ heard \cap discarded = {}
     /\ lost \cap discarded = {}
     /\ ToSet(hist) \cap dropped = {}

(* When enqueueMidiEvents meets a full ring it gives up on the whole rest  *)
(* of the span, even if the Audio Thread makes room meanwhile: all events  *)
(* handed in behind a dropped one are dropped with it.  So a note-off is   *)
(* never accepted when its note-on, earlier in the span, was not.          *)
RestOfSpanDropped ==
  [][ \A e \in dropped' \ dropped : e..(next_ev - 1) \subseteq dropped' ]_vars

(* After prepareToPlay has returned, no event that was accepted before it  *)
(* was entered is heard: the ring holds nothing from before the restart.   *)
NothingFromBeforePrepare ==
  \A i \in 1..mark : ~ \E j \in DOMAIN midi : midi[j].ev = hist[i]

(* An accepted event does not stay in the ring of a playing host: it is    *)
(* handed out or cleared, whatever the other threads do.                   *)
PlayingDrains ==
  \A n \in Event :
    (Len(hist) >= n /\ host = "playing") ~> (taken >= n \/ host = "stopped")

(* processBlock returns unless the Message Thread keeps feeding it: the    *)
(* draining loop has no bound of its own, so a block that goes on is one   *)
(* during which another span arrives.                                      *)
BlocksEnd ==
  num_samples # NoBlock ~> (num_samples = NoBlock \/ batch # <<>>)

=============================================================================
