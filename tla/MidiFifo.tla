------------------------------ MODULE MidiFifo ------------------------------
(***************************************************************************)
(* The lock-free single-producer single-consumer ring that carries MIDI    *)
(* events from the Message Thread to the Audio Thread                      *)
(* (plugin/src/engine/MidiFifo.hpp).                                       *)
(*                                                                         *)
(* push, pop and clear are split at their accesses to memory the other     *)
(* thread can see: the load of the other side's index, the plain (non      *)
(* atomic) access to the slot, and the release store of the own index.     *)
(* The acquire/release pairs of the code order those accesses, so an       *)
(* interleaving of the steps below is an execution of the code.            *)
(*                                                                         *)
(* Indices are std::size_t: they wrap at IndexMod (2^64 in the build, a    *)
(* small multiple of Capacity in the models), and unsigned subtraction is  *)
(* subtraction modulo IndexMod.                                            *)
(***************************************************************************)
EXTENDS Integers, Sequences

CONSTANTS
  Event,      \* the events the producer may push
  NoEvent,    \* the value-initialised contents of a slot
  Capacity,   \* the template parameter of MidiFifo
  IndexMod    \* number of values of std::size_t

ASSUME CapacityAssumption == Capacity \in Nat \ {0, 1}
ASSUME IndexAssumption ==
  /\ IndexMod \in Nat
  /\ IndexMod > Capacity
  /\ IndexMod % Capacity = 0
ASSUME EventAssumption == NoEvent \notin Event

VARIABLES
  buffer,     \* buffer_, the slots 0 .. Capacity-1
  write_pos,  \* write_pos_, owned by the producer
  read_pos,   \* read_pos_, stored by pop and by clear
  p_pc, p_ev, \* the push in progress and its argument
  c_pc, c_r, c_out,  \* the pop in progress, its local r, its out parameter
  k_pc, k_w,  \* the clear in progress and the write_pos_ it loaded
  hist,       \* history: every event push accepted, in order
  taken       \* history: how many of them pop returned or clear discarded

ringVars == <<buffer, write_pos, read_pos>>
pushVars == <<p_pc, p_ev>>
popVars == <<c_pc, c_r, c_out>>
clearVars == <<k_pc, k_w>>
fifoVars == <<ringVars, pushVars, popVars, clearVars, hist, taken>>

SlotIds == 0..(Capacity - 1)
Indices == 0..(IndexMod - 1)

Slot(i) == i % Capacity                 \* index & (Capacity - 1)
Inc(i) == (i + 1) % IndexMod            \* index + 1 in std::size_t
Dist(w, r) == (w - r) % IndexMod        \* w - r in std::size_t

FifoInit ==
  /\ buffer = [i \in SlotIds |-> NoEvent]
  /\ write_pos = 0 /\ read_pos = 0
  /\ p_pc = "idle" /\ p_ev = NoEvent
  /\ c_pc = "idle" /\ c_r = 0 /\ c_out = NoEvent
  /\ k_pc = "idle" /\ k_w = 0
  /\ hist = <<>> /\ taken = 0

-----------------------------------------------------------------------------
(* push: acquire-load read_pos_, test for full, write the slot, publish.   *)

PushFull ==
  /\ p_pc = "idle"
  /\ Dist(write_pos, read_pos) >= Capacity
  /\ UNCHANGED fifoVars

(* Mutant: the test for a full ring is off by one.                         *)
PushLoadOneTooMany(e) ==
  /\ p_pc = "idle"
  /\ Dist(write_pos, read_pos) <= Capacity
  /\ p_pc' = "write" /\ p_ev' = e
  /\ UNCHANGED <<ringVars, popVars, clearVars, hist, taken>>

PushLoad(e) ==
  /\ p_pc = "idle"
  /\ ~(Dist(write_pos, read_pos) >= Capacity)
  /\ p_pc' = "write" /\ p_ev' = e
  /\ UNCHANGED <<ringVars, popVars, clearVars, hist, taken>>

PushWrite ==
  /\ p_pc = "write"
  /\ buffer' = [buffer EXCEPT ![Slot(write_pos)] = p_ev]
  /\ p_pc' = "publish"
  /\ UNCHANGED <<write_pos, read_pos, p_ev, popVars, clearVars, hist, taken>>

PushPublish ==
  /\ p_pc = "publish"
  /\ write_pos' = Inc(write_pos)
  /\ hist' = Append(hist, p_ev)
  /\ p_pc' = "idle"
  /\ UNCHANGED <<buffer, read_pos, p_ev, popVars, clearVars, taken>>

-----------------------------------------------------------------------------
(* pop: acquire-load write_pos_, test for empty, copy the slot out, store  *)
(* the local r + 1.  The host never runs processBlock while it is inside   *)
(* prepareToPlay or releaseResources, hence k_pc = "idle".                 *)

HostInCallback == k_pc # "idle"

(* Mutant: a ring with one event left counts as empty.                     *)
PopEmptyOneLeft ==
  /\ c_pc = "idle" /\ ~HostInCallback
  /\ Dist(write_pos, read_pos) <= 1
  /\ UNCHANGED fifoVars

PopEmpty ==
  /\ c_pc = "idle" /\ ~HostInCallback
  /\ read_pos = write_pos
  /\ UNCHANGED fifoVars

PopLoad ==
  /\ c_pc = "idle" /\ ~HostInCallback
  /\ read_pos # write_pos
  /\ c_pc' = "copy" /\ c_r' = read_pos
  /\ UNCHANGED <<ringVars, pushVars, c_out, clearVars, hist, taken>>

(* Mutant: pop leaves the out parameter alone.                             *)
PopCopyForgotten ==
  /\ c_pc = "copy"
  /\ c_pc' = "advance"
  /\ UNCHANGED <<ringVars, pushVars, c_r, c_out, clearVars, hist, taken>>

PopCopy ==
  /\ c_pc = "copy"
  /\ c_out' = buffer[Slot(c_r)]
  /\ c_pc' = "advance"
  /\ UNCHANGED <<ringVars, pushVars, c_r, clearVars, hist, taken>>

PopAdvance ==
  /\ c_pc = "advance"
  /\ read_pos' = Inc(c_r)
  /\ taken' = taken + 1
  /\ c_pc' = "idle"
  /\ UNCHANGED <<buffer, write_pos, pushVars, c_r, c_out, clearVars, hist>>

-----------------------------------------------------------------------------
(* clear: acquire-load write_pos_, store it in read_pos_.  Pushes may go   *)
(* on in between.                                                          *)

ClearLoad ==
  /\ k_pc = "idle" /\ c_pc = "idle"
  /\ k_pc' = "store" /\ k_w' = write_pos
  /\ UNCHANGED <<ringVars, pushVars, popVars, hist, taken>>

(* Mutants: clear resets the index instead of catching up with the         *)
(* producer; clear leaves the ring as it is.                               *)
ClearStoreZero ==
  /\ k_pc = "store"
  /\ read_pos' = 0
  /\ taken' = taken + Dist(k_w, read_pos)
  /\ k_pc' = "idle"
  /\ UNCHANGED <<buffer, write_pos, pushVars, popVars, k_w, hist>>

ClearStoreNothing ==
  /\ k_pc = "store"
  /\ k_pc' = "idle"
  /\ UNCHANGED <<ringVars, pushVars, popVars, k_w, hist, taken>>

ClearStore ==
  /\ k_pc = "store"
  /\ read_pos' = k_w
  /\ taken' = taken + Dist(k_w, read_pos)
  /\ k_pc' = "idle"
  /\ UNCHANGED <<buffer, write_pos, pushVars, popVars, k_w, hist>>

-----------------------------------------------------------------------------
Push == PushFull \/ (\E e \in Event : PushLoad(e)) \/ PushWrite \/ PushPublish
Pop == PopLoad \/ PopCopy \/ PopAdvance \/ PopEmpty
Clear == ClearLoad \/ ClearStore

FifoNext == Push \/ Pop \/ Clear
FifoSpec == FifoInit /\ [][FifoNext]_fifoVars

-----------------------------------------------------------------------------
(* The refinement mapping.  An event leaves the abstract queue when pop    *)
(* copies it, one step before the slot is handed back to the producer.     *)
HeadIndex == IF c_pc = "advance" THEN Inc(c_r) ELSE read_pos

RingContents ==
  [i \in 1..Dist(write_pos, HeadIndex) |-> buffer[Slot(HeadIndex + i - 1)]]

Queue == INSTANCE MidiQueue WITH queue <- RingContents, out <- c_out

(* The ring implements the bounded queue of MidiQueue: whatever the two    *)
(* threads and clear do to the indices and slots, the code behaves as an   *)
(* atomic first-in first-out queue that never holds more than Capacity.    *)
ImplementsQueue == Queue!QueueSpec

-----------------------------------------------------------------------------
(* Every variable of the ring keeps its range; indices stay in size_t.     *)
FifoTypeOK ==
  /\ buffer \in [SlotIds -> Event \cup {NoEvent}]
  /\ write_pos \in Indices /\ read_pos \in Indices
  /\ p_pc \in {"idle", "write", "publish"} /\ p_ev \in Event \cup {NoEvent}
  /\ c_pc \in {"idle", "copy", "advance"}
  /\ c_r \in Indices /\ c_out \in Event \cup {NoEvent}
  /\ k_pc \in {"idle", "store"} /\ k_w \in Indices
  /\ hist \in Seq(Event) /\ taken \in Nat

(* The plain write of push and the plain read of pop never touch the same  *)
(* slot at the same time: the code's buffer_ accesses are free of data     *)
(* races although neither side takes a lock.                               *)
NoSlotRace ==
  (p_pc = "write" /\ c_pc = "copy") => Slot(write_pos) # Slot(c_r)

(* size_t subtraction of the two indices is the number of accepted events  *)
(* that have not left the ring, and it never exceeds Capacity, also after  *)
(* the indices wrapped and after a clear that raced with pushes.           *)
OccupancyExact ==
  /\ taken <= Len(hist)
  /\ Dist(write_pos, read_pos) = Len(hist) - taken
  /\ Dist(write_pos, read_pos) <= Capacity

(* What pop hands to the Audio Thread is the oldest accepted event that    *)
(* has not left the ring: nothing is overwritten before it is read,        *)
(* repeated, skipped or reordered.                                         *)
PopReturnsOldest ==
  c_pc = "advance" => taken < Len(hist) /\ c_out = hist[taken + 1]

-----------------------------------------------------------------------------
(* The inductive invariant.  Positions are the history counts modulo       *)
(* IndexMod, the slots between them hold the pending suffix of hist, and   *)
(* each operation in progress keeps what its test established.             *)
FifoPositions ==
  /\ taken <= Len(hist)
  /\ Len(hist) - taken <= Capacity
  /\ write_pos = Len(hist) % IndexMod
  /\ read_pos = taken % IndexMod

FifoContents ==
  \A i \in 1..Len(hist) :
    i > taken => buffer[(i - 1) % Capacity] = hist[i]

FifoPushing ==
  /\ p_pc # "idle" => p_ev \in Event /\ Len(hist) - taken < Capacity
  /\ p_pc = "publish" => buffer[Slot(write_pos)] = p_ev

FifoPopping ==
  /\ c_pc # "idle" => k_pc = "idle" /\ c_r = read_pos /\ taken < Len(hist)
  /\ c_pc = "advance" => c_out = hist[taken + 1]

FifoClearing ==
  k_pc = "store" => \E n \in taken..Len(hist) : k_w = n % IndexMod

FifoInv ==
  /\ FifoTypeOK
  /\ FifoPositions
  /\ FifoContents
  /\ FifoPushing
  /\ FifoPopping
  /\ FifoClearing

=============================================================================
