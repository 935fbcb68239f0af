-------------------------- MODULE AudioPath_proofs --------------------------
(***************************************************************************)
(* Proofs about the audio path, for every capacity of the ring of MidiFifo, *)
(* every width of the index type that the capacity divides, and every set  *)
(* of events.                                                              *)
(*                                                                         *)
(* The first half is about the ring alone.  It counts events instead of    *)
(* indices: Len(hist) events were accepted, taken of them are gone, and the *)
(* two indices are those counts modulo IndexMod.  At most Capacity <       *)
(* IndexMod events are pending, so neither the size_t difference nor the   *)
(* masked slot numbers can confuse two of them.                            *)
(*                                                                         *)
(* The whole audio path drives the ring only through push, pop and clear   *)
(* as MidiFifo describes them, so everything proved of the ring alone      *)
(* holds of the plug-in.  The second half is about what the host hears:    *)
(* events are numbered in the order of enqueueing, so the accepted ones    *)
(* are an increasing sequence, of which the ring hands out a prefix; a     *)
(* block sorts what it got by clamped position and, at one position, by    *)
(* number, and clamping never turns the order of two positions around.     *)
(***************************************************************************)
EXTENDS AudioPath, SequenceTheorems, FiniteSetTheorems, TLAPS

-----------------------------------------------------------------------------
(* The ring.                                                               *)
(* A positive multiple of M is at least M.                                 *)
LEMMA MulMonotone ==
  ASSUME NEW M \in Nat \ {0}, NEW k \in Int, k >= 1
  PROVE  M * k >= M
<1>1. PICK j \in Nat : k = j + 1
  OBVIOUS
<1>2. M * k = M * j + M
  BY <1>1
<1>3. M * j >= 0
  OBVIOUS
<1> QED BY <1>2, <1>3

(* Quotient and remainder of an integer.                                   *)
LEMMA DivMod ==
  ASSUME NEW M \in Nat \ {0}, NEW n \in Int
  PROVE  /\ n % M \in 0..(M - 1)
         /\ n \div M \in Int
         /\ n = M * (n \div M) + (n % M)
OBVIOUS

(* The remainder is the only r below M that fits.                          *)
LEMMA ModUnique ==
  ASSUME NEW M \in Nat \ {0}, NEW q \in Int, NEW r \in 0..(M - 1)
  PROVE  (M * q + r) % M = r
<1> DEFINE x == M * q + r
           d == x \div M
           s == x % M
<1>1. x \in Int /\ d \in Int /\ s \in 0..(M - 1) /\ x = M * d + s
  BY DivMod
<1> HIDE DEF d, s
<1>2. M * (q - d) = s - r /\ M * (d - q) = r - s
  BY <1>1
<1>3. ~(q - d >= 1)
  BY <1>1, <1>2, MulMonotone
<1>4. ~(d - q >= 1)
  BY <1>1, <1>2, MulMonotone
<1>5. q = d
  BY <1>1, <1>3, <1>4
<1>6. s = r
  BY <1>1, <1>2, <1>5
<1> QED BY <1>6 DEF s

(* Incrementing a wrapped index is wrapping the incremented count.         *)
LEMMA ModInc ==
  ASSUME NEW M \in Nat \ {0}, NEW n \in Nat
  PROVE  ((n % M) + 1) % M = (n + 1) % M
<1> DEFINE q == n \div M
           r == n % M
<1>1. q \in Int /\ r \in 0..(M - 1) /\ n = M * q + r
  BY DivMod
<1> HIDE DEF q, r
<1>2. CASE r + 1 < M
  <2>1. (M * q + (r + 1)) % M = r + 1
    BY <1>1, <1>2, ModUnique
  <2>2. (M * 0 + (r + 1)) % M = r + 1
    BY <1>1, <1>2, ModUnique
  <2>3. n + 1 = M * q + (r + 1) /\ r + 1 = M * 0 + (r + 1)
    BY <1>1
  <2> QED BY <2>1, <2>2, <2>3 DEF r
<1>3. CASE r + 1 = M
  <2>1. (M * (q + 1) + 0) % M = 0
    BY <1>1, ModUnique
  <2>2. (M * 1 + 0) % M = 0
    BY <1>1, ModUnique
  <2>3. n + 1 = M * (q + 1) + 0 /\ r + 1 = M * 1 + 0
    BY <1>1, <1>3
  <2> QED BY <2>1, <2>2, <2>3 DEF r
<1> QED BY <1>1, <1>2, <1>3

(* The size_t difference of two wrapped counts less than M apart is their  *)
(* difference: the test (w - r) >= Capacity of push compares what it means *)
(* to compare, also after the indices wrapped.                             *)
LEMMA ModDist ==
  ASSUME NEW M \in Nat \ {0}, NEW n \in Nat, NEW t \in Nat, n - t \in 0..(M - 1)
  PROVE  ((n % M) - (t % M)) % M = n - t
<1> DEFINE a == n \div M
           x == n % M
           b == t \div M
           y == t % M
<1>1. /\ a \in Int /\ x \in 0..(M - 1) /\ n = M * a + x
      /\ b \in Int /\ y \in 0..(M - 1) /\ t = M * b + y
  BY DivMod
<1> HIDE DEF a, b, x, y
<1>2. x - y = M * (b - a) + (n - t)
  BY <1>1
<1>3. PICK d \in 0..(M - 1) : d = n - t
  OBVIOUS
<1>4. (M * (b - a) + d) % M = d
  BY <1>1, ModUnique
<1> QED BY <1>2, <1>3, <1>4 DEF x, y

(* Two counts less than C apart fall on different slots.                   *)
LEMMA ModNeq ==
  ASSUME NEW C \in Nat \ {0}, NEW a \in Nat, NEW b \in Nat, a < b, b < a + C
  PROVE  a % C # b % C
<1> DEFINE p == a \div C
           q == b \div C
<1>1. /\ p \in Int /\ a = C * p + (a % C) /\ a % C \in 0..(C - 1)
      /\ q \in Int /\ b = C * q + (b % C) /\ b % C \in 0..(C - 1)
  BY DivMod
<1> HIDE DEF p, q
<1>2. SUFFICES ASSUME a % C = b % C PROVE FALSE
  OBVIOUS
<1>3. b - a = C * (q - p) /\ a - b = C * (p - q)
  BY <1>1, <1>2
<1>4. CASE q - p >= 1
  BY <1>1, <1>3, <1>4, MulMonotone
<1>5. CASE p - q >= 1
  BY <1>1, <1>3, <1>5, MulMonotone
<1>6. CASE p = q
  BY <1>1, <1>3, <1>6
<1> QED BY <1>1, <1>4, <1>5, <1>6

-----------------------------------------------------------------------------
USE CapacityAssumption, IndexAssumption, EventAssumption

(* Both moduli are positive.                                               *)
LEMMA Moduli == Capacity \in Nat \ {0} /\ IndexMod \in Nat \ {0}
OBVIOUS

(* Dist, the size_t subtraction in push and in clear, is exact.            *)
LEMMA IndexDist ==
  ASSUME NEW n \in Nat, NEW t \in Nat, n - t \in 0..Capacity
  PROVE  Dist(n % IndexMod, t % IndexMod) = n - t
<1>1. n - t \in 0..(IndexMod - 1)
  OBVIOUS
<1> QED BY ONLY <1>1, Moduli, ModDist, n \in Nat, t \in Nat DEF Dist

(* Inc, the w + 1 and r + 1 of push and pop, follows the count.            *)
LEMMA IndexInc ==
  ASSUME NEW n \in Nat
  PROVE  Inc(n % IndexMod) = (n + 1) % IndexMod
BY ONLY Moduli, ModInc, n \in Nat DEF Inc

(* Masking a wrapped index, and an offset from it, gives the slot of the   *)
(* count: this is where Capacity has to divide IndexMod.                   *)
LEMMA IndexSlot ==
  ASSUME NEW n \in Nat, NEW j \in Nat
  PROVE  Slot((n % IndexMod) + j) = (n + j) % Capacity
<1> DEFINE k == IndexMod \div Capacity
           q == n \div IndexMod
           r == n % IndexMod
           p == (r + j) \div Capacity
           s == (r + j) % Capacity
<1>1. k \in Int /\ IndexMod = Capacity * k
  BY Moduli, DivMod
<1>2. q \in Int /\ r \in 0..(IndexMod - 1) /\ n = IndexMod * q + r
  BY Moduli, DivMod
<1>3. p \in Int /\ s \in 0..(Capacity - 1) /\ r + j = Capacity * p + s
  <2>1. r + j \in Int
    BY <1>2
  <2> QED BY <2>1, Moduli, DivMod
<1> HIDE DEF k, q, r, p, s
<1>4. IndexMod * q = Capacity * (k * q)
  BY <1>1, <1>2
<1>5. k * q \in Int
  BY <1>1, <1>2
<1>6. n + j = Capacity * (k * q + p) + s
  BY <1>2, <1>3, <1>4, <1>5
<1>7. (Capacity * (k * q + p) + s) % Capacity = s
  <2>1. k * q + p \in Int
    BY <1>3, <1>5
  <2> QED BY ONLY <1>3, <2>1, Moduli, ModUnique
<1> QED BY <1>6, <1>7 DEF s, r, Slot

(* Events less than Capacity apart use different slots.                    *)
LEMMA SlotNeq ==
  ASSUME NEW a \in Nat, NEW b \in Nat, a < b, b < a + Capacity
  PROVE  a % Capacity # b % Capacity
BY ONLY Moduli, ModNeq, a \in Nat, b \in Nat, a < b, b < a + Capacity

(* What the indices say, in terms of the counts.                           *)
LEMMA IndexFacts ==
  ASSUME FifoTypeOK, FifoPositions
  PROVE  /\ Dist(write_pos, read_pos) = Len(hist) - taken
         /\ Slot(write_pos) = Len(hist) % Capacity
         /\ Slot(read_pos) = taken % Capacity
         /\ Inc(write_pos) = (Len(hist) + 1) % IndexMod
         /\ Inc(read_pos) = (taken + 1) % IndexMod
         /\ read_pos = write_pos <=> taken = Len(hist)
<1> DEFINE L == Len(hist)
<1>1. /\ L \in Nat /\ taken \in Nat /\ L - taken \in 0..Capacity
      /\ write_pos = L % IndexMod /\ read_pos = taken % IndexMod
  BY DEF FifoTypeOK, FifoPositions
<1> HIDE DEF L
<1>2. Dist(write_pos, read_pos) = L - taken
  BY <1>1, IndexDist
<1>3. Slot(write_pos) = L % Capacity /\ Slot(read_pos) = taken % Capacity
  <2>1. /\ Slot((L % IndexMod) + 0) = (L + 0) % Capacity
        /\ Slot((taken % IndexMod) + 0) = (taken + 0) % Capacity
    BY ONLY <1>1, IndexSlot, 0 \in Nat
  <2>2. /\ (L % IndexMod) + 0 = L % IndexMod /\ L + 0 = L
        /\ (taken % IndexMod) + 0 = taken % IndexMod /\ taken + 0 = taken
    BY <1>1, Moduli, DivMod
  <2> QED BY ONLY <1>1, <2>1, <2>2
<1>4. /\ Inc(write_pos) = (L + 1) % IndexMod
      /\ Inc(read_pos) = (taken + 1) % IndexMod
  BY <1>1, IndexInc
<1>5. CASE L = taken
  BY <1>1, <1>2, <1>3, <1>4, <1>5 DEF L
<1>6. CASE L # taken
  <2>1. taken < L /\ L < taken + IndexMod
    BY <1>1, <1>6
  <2>2. taken % IndexMod # L % IndexMod
    BY ONLY <1>1, <2>1, Moduli, ModNeq
  <2> QED BY <1>1, <1>2, <1>3, <1>4, <1>6, <2>2 DEF L
<1> QED BY <1>5, <1>6

(* Remainders are slots and indices.                                       *)
LEMMA SlotsInRange ==
  ASSUME NEW n \in Nat
  PROVE  n % Capacity \in SlotIds /\ n % IndexMod \in Indices
BY DivMod, SMTT(40) DEF SlotIds, Indices

(* The value-initialised ring satisfies the inductive invariant.           *)
THEOREM FifoInitInv == FifoInit => FifoInv
<1> SUFFICES ASSUME FifoInit PROVE FifoInv
  OBVIOUS
<1>1. 0 % IndexMod = 0
  OBVIOUS
<1>2. FifoTypeOK
  BY DEF FifoInit, FifoTypeOK, Indices
<1>3. FifoPositions /\ FifoContents
  BY <1>1 DEF FifoInit, FifoPositions, FifoContents
<1>4. FifoPushing /\ FifoPopping /\ FifoClearing
  BY DEF FifoInit, FifoPushing, FifoPopping, FifoClearing
<1> QED BY <1>2, <1>3, <1>4 DEF FifoInv

(* Every step of push, pop and clear, interleaved in any way, keeps the    *)
(* inductive invariant.                                                    *)
THEOREM FifoStepInv == FifoInv /\ [FifoNext]_fifoVars => FifoInv'
<1> SUFFICES ASSUME FifoInv, [FifoNext]_fifoVars
             PROVE  FifoInv'
  OBVIOUS
<1> USE DEF FifoInv
<1>t. /\ hist \in Seq(Event) /\ Len(hist) \in Nat /\ taken \in Nat
      /\ taken <= Len(hist) /\ Len(hist) - taken <= Capacity
      /\ write_pos = Len(hist) % IndexMod /\ read_pos = taken % IndexMod
  BY DEF FifoTypeOK, FifoPositions
<1>i. /\ Dist(write_pos, read_pos) = Len(hist) - taken
      /\ Slot(write_pos) = Len(hist) % Capacity
      /\ Slot(read_pos) = taken % Capacity
      /\ Inc(write_pos) = (Len(hist) + 1) % IndexMod
      /\ Inc(read_pos) = (taken + 1) % IndexMod
      /\ read_pos = write_pos <=> taken = Len(hist)
  BY IndexFacts
<1>1. CASE UNCHANGED fifoVars
  BY <1>1 DEF fifoVars, ringVars, pushVars, popVars, clearVars, FifoTypeOK,
     FifoPositions, FifoContents, FifoPushing, FifoPopping, FifoClearing, Slot
<1>2. CASE PushFull \/ PopEmpty
  BY <1>1, <1>2 DEF PushFull, PopEmpty
<1>3. ASSUME NEW e \in Event, PushLoad(e) PROVE FifoInv'
  <2> USE <1>3 DEF PushLoad, ringVars, popVars, clearVars
  <2>1. FifoTypeOK'
    BY DEF FifoTypeOK
  <2>2. (FifoPositions /\ FifoContents /\ FifoPopping /\ FifoClearing)'
    BY DEF FifoPositions, FifoContents, FifoPopping, FifoClearing
  <2>3. FifoPushing'
    BY <1>t, <1>i DEF FifoPushing
  <2> QED BY <2>1, <2>2, <2>3
<1>4. CASE PushWrite
  <2> USE <1>4 DEF PushWrite, popVars, clearVars
  <2>0. Slot(write_pos) \in SlotIds /\ p_ev \in Event
    BY <1>t, <1>i, SlotsInRange DEF FifoPushing
  <2>1. FifoTypeOK'
    BY <2>0 DEF FifoTypeOK
  <2>2. (FifoPositions /\ FifoPopping /\ FifoClearing)'
    BY DEF FifoPositions, FifoPopping, FifoClearing
  <2>3. FifoContents'
    <3> SUFFICES ASSUME NEW i \in 1..Len(hist), i > taken
                 PROVE  buffer'[(i - 1) % Capacity] = hist[i]
      BY DEF FifoContents
    <3>1. (i - 1) % Capacity # Len(hist) % Capacity
      <4>1. Len(hist) - taken < Capacity
        BY DEF FifoPushing
      <4>2. i - 1 \in Nat /\ i - 1 < Len(hist) /\ Len(hist) < i - 1 + Capacity
        BY <1>t, <4>1
      <4> QED BY ONLY <1>t, <4>2, SlotNeq
    <3>2. (i - 1) % Capacity \in SlotIds
      <4>1. i - 1 \in Nat
        BY <1>t
      <4> QED BY ONLY <4>1, SlotsInRange
    <3>3. buffer'[(i - 1) % Capacity] = buffer[(i - 1) % Capacity]
      BY <1>i, <3>1, <3>2 DEF FifoTypeOK
    <3> QED BY <3>3 DEF FifoContents
  <2>4. FifoPushing'
    BY <2>0 DEF FifoPushing, FifoTypeOK, Slot
  <2> QED BY <2>1, <2>2, <2>3, <2>4
<1>5. CASE PushPublish
  <2> USE <1>5 DEF PushPublish, popVars, clearVars
  <2>0. /\ p_ev \in Event /\ Len(hist) - taken < Capacity
        /\ buffer[Len(hist) % Capacity] = p_ev
    BY <1>i DEF FifoPushing
  <2>1. /\ hist' \in Seq(Event) /\ Len(hist') = Len(hist) + 1
        /\ \A i \in 1..Len(hist) : hist'[i] = hist[i]
        /\ hist'[Len(hist) + 1] = p_ev
    BY <1>t, <2>0
  <2>2. FifoTypeOK'
    <3>1. Len(hist) + 1 \in Nat
      BY <1>t
    <3>2. write_pos' \in Indices
      BY ONLY <1>i, <3>1, SlotsInRange, PushPublish DEF PushPublish
    <3> QED BY <2>1, <3>2 DEF FifoTypeOK
  <2>3. FifoPositions'
    BY <1>t, <1>i, <2>0, <2>1 DEF FifoPositions
  <2>4. FifoContents'
    <3> SUFFICES ASSUME NEW i \in 1..(Len(hist) + 1), i > taken
                 PROVE  buffer[(i - 1) % Capacity] = hist'[i]
      BY <2>1 DEF FifoContents
    <3>1. CASE i = Len(hist) + 1
      BY <1>t, <2>0, <2>1, <3>1
    <3>2. CASE i \in 1..Len(hist)
      BY <2>1, <3>2 DEF FifoContents
    <3> QED BY <1>t, <3>1, <3>2
  <2>5. FifoPushing'
    BY DEF FifoPushing
  <2>6. FifoPopping'
    BY <1>t, <2>1 DEF FifoPopping
  <2>7. FifoClearing'
    BY <1>t, <2>1 DEF FifoClearing
  <2> QED BY <2>2, <2>3, <2>4, <2>5, <2>6, <2>7
<1>6. CASE PopLoad
  <2> USE <1>6 DEF PopLoad, HostInCallback, ringVars, pushVars, clearVars
  <2>1. FifoTypeOK'
    BY DEF FifoTypeOK
  <2>2. (FifoPositions /\ FifoContents /\ FifoPushing /\ FifoClearing)'
    BY DEF FifoPositions, FifoContents, FifoPushing, FifoClearing, Slot
  <2>3. FifoPopping'
    BY <1>t, <1>i DEF FifoPopping
  <2> QED BY <2>1, <2>2, <2>3
<1>7. CASE PopCopy
  <2> USE <1>7 DEF PopCopy, ringVars, pushVars, clearVars
  <2>0. /\ k_pc = "idle" /\ c_r = read_pos /\ taken + 1 \in 1..Len(hist)
        /\ c_out' = buffer[taken % Capacity]
    BY <1>t, <1>i DEF FifoPopping
  <2>1. c_out' = hist[taken + 1]
    <3>1. taken + 1 > taken /\ (taken + 1) - 1 = taken
      BY <1>t
    <3>2. buffer[((taken + 1) - 1) % Capacity] = hist[taken + 1]
      BY ONLY <2>0, <3>1, FifoContents DEF FifoContents
    <3> QED BY ONLY <2>0, <3>1, <3>2
  <2>2. FifoTypeOK'
    BY <1>t, <2>0, <2>1 DEF FifoTypeOK
  <2>3. (FifoPositions /\ FifoContents /\ FifoPushing /\ FifoClearing)'
    BY DEF FifoPositions, FifoContents, FifoPushing, FifoClearing, Slot
  <2>4. FifoPopping'
    BY <1>t, <2>0, <2>1 DEF FifoPopping
  <2> QED BY <2>2, <2>3, <2>4
<1>8. CASE PopAdvance
  <2> USE <1>8 DEF PopAdvance, pushVars, clearVars
  <2>0. /\ k_pc = "idle" /\ c_r = read_pos /\ taken < Len(hist)
        /\ read_pos' = (taken + 1) % IndexMod
    BY <1>i DEF FifoPopping
  <2>1. FifoTypeOK'
    <3>1. taken + 1 \in Nat
      BY <1>t
    <3>2. read_pos' \in Indices
      BY ONLY <2>0, <3>1, SlotsInRange
    <3> QED BY <1>t, <3>2 DEF FifoTypeOK
  <2>2. FifoPositions'
    BY <1>t, <2>0 DEF FifoPositions
  <2>3. FifoContents'
    BY <1>t DEF FifoContents
  <2>4. FifoPushing'
    BY <1>t DEF FifoPushing, Slot
  <2>5. (FifoPopping /\ FifoClearing)'
    BY <2>0 DEF FifoPopping, FifoClearing
  <2> QED BY <2>1, <2>2, <2>3, <2>4, <2>5
<1>9. CASE ClearLoad
  <2> USE <1>9 DEF ClearLoad, ringVars, pushVars, popVars
  <2>1. FifoTypeOK'
    BY DEF FifoTypeOK
  <2>2. (FifoPositions /\ FifoContents /\ FifoPushing /\ FifoPopping)'
    BY DEF FifoPositions, FifoContents, FifoPushing, FifoPopping, Slot
  <2>3. FifoClearing'
    BY <1>t DEF FifoClearing
  <2> QED BY <2>1, <2>2, <2>3
<1>10. CASE ClearStore
  <2> USE <1>10 DEF ClearStore, pushVars, popVars
  <2>1. PICK n \in taken..Len(hist) : k_w = n % IndexMod
    BY DEF FifoClearing
  <2>2. Dist(k_w, read_pos) = n - taken
    <3>1. n \in Nat /\ n - taken \in 0..Capacity
      BY <1>t, <2>1
    <3> QED BY ONLY <1>t, <2>1, <3>1, IndexDist
  <2>3. taken' = n /\ read_pos' = n % IndexMod /\ n \in Nat
    BY <1>t, <2>1, <2>2
  <2>4. FifoTypeOK'
    BY <2>3 DEF FifoTypeOK
  <2>5. FifoPositions'
    BY <1>t, <2>1, <2>3, SMTT(40) DEF FifoPositions
  <2>6. FifoContents'
    BY <1>t, <2>1, <2>3 DEF FifoContents
  <2>7. FifoPushing'
    BY <1>t, <2>1, <2>3 DEF FifoPushing, Slot
  <2>8. (FifoPopping /\ FifoClearing)'
    BY DEF FifoPopping, FifoClearing
  <2> QED BY <2>4, <2>5, <2>6, <2>7, <2>8
<1> QED
  BY <1>1, <1>2, <1>3, <1>4, <1>5, <1>6, <1>7, <1>8, <1>9, <1>10
     DEF FifoNext, Push, Pop, Clear

(* The inductive invariant holds in every state of the ring.               *)
THEOREM FifoInvariant == FifoSpec => []FifoInv
BY FifoInitInv, FifoStepInv, PTL DEF FifoSpec

(* The variables of the ring keep their ranges; in particular no index     *)
(* leaves size_t.                                                          *)
THEOREM FifoTypeCorrect == FifoSpec => []FifoTypeOK
BY FifoInvariant, PTL DEF FifoInv

(* push never writes the slot that pop is reading: the plain accesses to   *)
(* buffer_ are free of data races for every Capacity.                      *)
THEOREM FifoRaceFree == FifoSpec => []NoSlotRace
<1>1. FifoInv => NoSlotRace
  <2> SUFFICES ASSUME FifoInv, p_pc = "write", c_pc = "copy"
               PROVE  Slot(write_pos) # Slot(c_r)
    BY DEF NoSlotRace
  <2>1. /\ c_r = read_pos /\ taken \in Nat /\ Len(hist) \in Nat
        /\ taken < Len(hist) /\ Len(hist) < taken + Capacity
    BY DEF FifoInv, FifoPopping, FifoPushing, FifoPositions, FifoTypeOK
  <2>2. Slot(write_pos) = Len(hist) % Capacity /\ Slot(read_pos) = taken % Capacity
    BY IndexFacts DEF FifoInv
  <2>3. taken % Capacity # Len(hist) % Capacity
    BY ONLY <2>1, SlotNeq
  <2> QED BY <2>1, <2>2, <2>3
<1> QED BY <1>1, FifoInvariant, PTL

(* The difference of the indices is the number of pending events and never *)
(* exceeds Capacity, after any number of wraps and clears.                 *)
THEOREM FifoOccupancy == FifoSpec => []OccupancyExact
<1>1. FifoInv => OccupancyExact
  BY IndexFacts DEF FifoInv, OccupancyExact, FifoPositions, FifoTypeOK
<1> QED BY <1>1, FifoInvariant, PTL

(* pop returns the oldest pending event.                                   *)
THEOREM FifoOrder == FifoSpec => []PopReturnsOldest
<1>1. FifoInv => PopReturnsOldest
  BY DEF FifoInv, PopReturnsOldest, FifoPopping
<1> QED BY <1>1, FifoInvariant, PTL

-----------------------------------------------------------------------------
(* How many accepted events have left the abstract queue, and the rest.    *)
Gone == IF c_pc = "advance" THEN taken + 1 ELSE taken
Pending == [i \in 1..(Len(hist) - Gone) |-> hist[Gone + i]]

(* Tail, entry by entry.                                                   *)
LEMMA TailIsFunction ==
  ASSUME NEW S, NEW q \in Seq(S), q # <<>>
  PROVE  Tail(q) = [i \in 1..(Len(q) - 1) |-> q[i + 1]]
<1>1. /\ Tail(q) \in Seq(S) /\ Len(Tail(q)) = Len(q) - 1
      /\ \A i \in 1..Len(Tail(q)) : Tail(q)[i] = q[i + 1]
  BY HeadTailProperties
<1>2. Tail(q) \in [1..Len(Tail(q)) -> S]
  BY ONLY <1>1, LenProperties
<1> QED BY <1>1, <1>2

(* The slots between the two indices are the pending part of hist.         *)
LEMMA RingIsPending ==
  FifoInv => /\ RingContents = Pending
             /\ Gone \in Nat /\ Len(hist) \in Nat /\ Gone <= Len(hist)
             /\ hist \in Seq(Event)
<1> SUFFICES ASSUME FifoInv
             PROVE  /\ RingContents = Pending
                    /\ Gone \in Nat /\ Len(hist) \in Nat /\ Gone <= Len(hist)
                    /\ hist \in Seq(Event)
  OBVIOUS
<1>1. /\ Gone \in Nat /\ Len(hist) \in Nat /\ taken \in Nat
      /\ taken <= Gone /\ Gone <= Len(hist) /\ Len(hist) - Gone \in 0..Capacity
      /\ hist \in Seq(Event)
  BY DEF FifoInv, FifoTypeOK, FifoPositions, FifoPopping, Gone
<1>2. HeadIndex = Gone % IndexMod
  <2>1. CASE c_pc = "advance"
    <3>1. c_r = read_pos /\ Inc(read_pos) = (taken + 1) % IndexMod
      BY <2>1, IndexFacts DEF FifoInv, FifoPopping
    <3> QED BY <2>1, <3>1 DEF HeadIndex, Gone
  <2>2. CASE c_pc # "advance"
    BY <2>2 DEF HeadIndex, Gone, FifoInv, FifoPositions
  <2> QED BY <2>1, <2>2
<1>3. Dist(write_pos, HeadIndex) = Len(hist) - Gone
  <2>1. write_pos = Len(hist) % IndexMod
    BY DEF FifoInv, FifoPositions
  <2> QED BY ONLY <1>1, <1>2, <2>1, IndexDist
<1>4. ASSUME NEW i \in 1..(Len(hist) - Gone)
      PROVE  buffer[Slot(HeadIndex + i - 1)] = hist[Gone + i]
  <2>1. /\ Gone + i \in 1..Len(hist) /\ Gone + i > taken /\ i - 1 \in Nat
        /\ (Gone + i) - 1 = Gone + (i - 1)
    BY <1>1
  <2>2. buffer[((Gone + i) - 1) % Capacity] = hist[Gone + i]
    BY ONLY <2>1, FifoInv DEF FifoInv, FifoContents
  <2>3. Slot((Gone % IndexMod) + (i - 1)) = (Gone + (i - 1)) % Capacity
    BY ONLY <1>1, <2>1, IndexSlot
  <2>4. HeadIndex + i - 1 = (Gone % IndexMod) + (i - 1)
    <3>1. Gone % IndexMod \in Int
      BY <1>1, Moduli, DivMod
    <3> QED BY <1>2, <3>1
  <2> QED BY ONLY <2>1, <2>2, <2>3, <2>4
<1> QED BY <1>1, <1>3, <1>4 DEF RingContents, Pending

(* The ring implements the bounded queue of MidiQueue, with pop taking     *)
(* effect when it copies the slot.                                         *)
THEOREM FifoRefinesQueue == FifoSpec => ImplementsQueue
<1>1. FifoInit => Queue!QueueInit
  <2> SUFFICES ASSUME FifoInit PROVE Queue!QueueInit
    OBVIOUS
  <2>1. FifoInv
    BY FifoInitInv
  <2>2. RingContents = Pending
    BY <2>1, RingIsPending
  <2>3. Pending = <<>>
    BY DEF Pending, Gone, FifoInit
  <2> QED BY <2>2, <2>3 DEF Queue!QueueInit, FifoInit
<1>2. FifoInv /\ FifoInv' /\ [FifoNext]_fifoVars => [Queue!QueueNext]_(Queue!queueVars)
  <2> SUFFICES ASSUME FifoInv, FifoInv', [FifoNext]_fifoVars
               PROVE  [Queue!QueueNext]_(Queue!queueVars)
    OBVIOUS
  <2>r. /\ RingContents = Pending /\ RingContents' = Pending'
        /\ Gone \in Nat /\ Len(hist) \in Nat /\ Gone <= Len(hist)
        /\ hist \in Seq(Event)
    <3>1. RingContents = Pending
      BY RingIsPending
    <3>2. (RingContents = Pending)'
      BY RingIsPending, PTL
    <3> QED BY <3>1, <3>2, RingIsPending
  <2>s. ASSUME UNCHANGED <<hist, Gone, c_out>>
        PROVE  UNCHANGED Queue!queueVars
    BY <2>r, <2>s DEF Queue!queueVars, Pending
  <2>1. CASE UNCHANGED fifoVars
    BY <2>1, <2>s DEF fifoVars, popVars, Gone
  <2>2. CASE PushFull \/ PopEmpty
    BY <2>2, <2>s DEF PushFull, PopEmpty, fifoVars, popVars, Gone
  <2>3. CASE (\E e \in Event : PushLoad(e)) \/ PushWrite
    BY <2>3, <2>s DEF PushLoad, PushWrite, popVars, Gone
  <2>4. CASE PushPublish
    <3>1. /\ p_ev \in Event /\ hist' = Append(hist, p_ev) /\ Gone' = Gone
          /\ c_out' = c_out /\ Len(hist) - Gone < Capacity
      BY <2>4, <2>r DEF PushPublish, popVars, Gone, FifoInv, FifoPushing, FifoTypeOK, FifoPositions
    <3>2. Len(Pending) = Len(hist) - Gone /\ Pending \in Seq(Event)
      BY <2>r DEF Pending
    <3>3. Pending' = Append(Pending, p_ev)
      BY <2>r, <3>1, <3>2 DEF Pending
    <3>4. Queue!Accept(p_ev)
      BY <2>r, <3>1, <3>2, <3>3 DEF Queue!Accept
    <3> QED BY <3>1, <3>4 DEF Queue!QueueNext
  <2>5. CASE PopLoad
    BY <2>5, <2>s DEF PopLoad, Gone
  <2>6. CASE PopCopy
    <3>1. /\ hist' = hist /\ Gone = taken /\ Gone' = Gone + 1 /\ taken < Len(hist)
          /\ c_out' = hist[taken + 1]
      BY <2>6, <2>r DEF PopCopy, Gone, FifoInv, FifoPopping
    <3>2. /\ Len(Pending) = Len(hist) - Gone /\ Pending \in Seq(Event)
          /\ Len(Pending) >= 1 /\ \A i \in 1..Len(Pending) : Pending[i] = hist[Gone + i]
      BY <2>r, <3>1 DEF Pending
    <3>3. Pending # <<>> /\ Head(Pending) = hist[taken + 1]
      BY <2>r, <3>1, <3>2
    <3>4. Tail(Pending) = [i \in 1..(Len(Pending) - 1) |-> Pending[i + 1]]
      BY ONLY <3>2, <3>3, TailIsFunction
    <3>5. Pending' = [i \in 1..(Len(Pending) - 1) |-> Pending[i + 1]]
      <4>1. Len(hist) - (Gone + 1) = Len(Pending) - 1
        BY <2>r, <3>2
      <4>2. \A i \in 1..(Len(Pending) - 1) : Pending[i + 1] = hist[(Gone + 1) + i]
        BY <2>r, <3>2
      <4>3. Pending' = [i \in 1..(Len(hist) - (Gone + 1)) |-> hist[(Gone + 1) + i]]
        BY <3>1 DEF Pending
      <4> QED BY <4>1, <4>2, <4>3
    <3> QED BY <2>r, <3>1, <3>3, <3>4, <3>5 DEF Queue!QueueNext, Queue!Take
  <2>7. CASE PopAdvance
    BY <2>7, <2>s DEF PopAdvance, Gone
  <2>8. CASE ClearLoad
    BY <2>8, <2>s DEF ClearLoad, popVars, Gone
  <2>9. CASE ClearStore
    <3>1. PICK n \in taken..Len(hist) : k_w = n % IndexMod
      BY <2>9 DEF ClearStore, FifoInv, FifoClearing
    <3>2. /\ c_pc = "idle" /\ c_pc' = c_pc /\ hist' = hist /\ c_out' = c_out
          /\ Gone = taken /\ taken' = taken + Dist(k_w, read_pos)
          /\ read_pos = taken % IndexMod /\ Len(hist) - taken <= Capacity
      BY <2>9 DEF ClearStore, popVars, FifoInv, FifoTypeOK, FifoPopping, FifoPositions, Gone
    <3>3. n \in Nat /\ n - taken \in 0..Capacity /\ taken \in Nat
      BY <2>r, <3>1, <3>2
    <3>4. Dist(k_w, read_pos) = n - taken
      BY ONLY <3>1, <3>2, <3>3, IndexDist
    <3>5. Gone' = n
      BY <3>2, <3>3, <3>4 DEF Gone
    <3>6. CASE n = taken
      BY <2>s, <3>2, <3>5, <3>6
    <3>7. CASE n > taken
      <4>1. n - taken \in 1..Len(Pending) /\ Pending \in Seq(Event)
            /\ Len(Pending) = Len(hist) - taken
        BY <2>r, <3>1, <3>2, <3>3, <3>7 DEF Pending
      <4>2. Pending' = SubSeq(Pending, (n - taken) + 1, Len(Pending))
        BY <2>r, <3>1, <3>2, <3>3, <3>5, <4>1 DEF Pending
      <4>3. Queue!Discard(n - taken)
        BY <2>r, <3>2, <4>2 DEF Queue!Discard
      <4> QED BY <2>r, <4>1, <4>3 DEF Queue!QueueNext
    <3> QED BY <3>3, <3>6, <3>7
  <2> QED
    BY <2>1, <2>2, <2>3, <2>4, <2>5, <2>6, <2>7, <2>8, <2>9
       DEF FifoNext, Push, Pop, Clear
<1> QED BY <1>1, <1>2, FifoInvariant, PTL DEF FifoSpec, ImplementsQueue, Queue!QueueSpec

-----------------------------------------------------------------------------
(* The whole path.                                                         *)
(* What enqueueMidiEvents still has to push are events, and the next event *)
(* is a number; a push in progress works on the first of them.             *)
SpanOK ==
  /\ batch \in Seq(Event) /\ next_ev \in Nat \ {0}
  /\ p_pc # "idle" => batch # <<>>

(* Events are the numbers up to some bound.                                *)
LEMMA EventNumbers == \E N \in Nat : Event = 1..N
<1>1. Cardinality(Event) \in Nat
  BY AudioAssumption, FS_CardinalityType
<1> QED BY <1>1, AudioAssumption

(* No span is in progress initially.                                       *)
LEMMA SpanInit == Init => SpanOK
BY DEF Init, FifoInit, SpanOK

(* Every step of the three threads keeps SpanOK.                           *)
LEMMA SpanStep == SpanOK /\ [Next]_vars => SpanOK'
<1> SUFFICES ASSUME SpanOK, [Next]_vars PROVE SpanOK'
  OBVIOUS
<1>1. ASSUME NEW n \in 1..MaxBatch, EnqueueCall(n) PROVE SpanOK'
  <2>1. PICK N \in Nat : Event = 1..N
    BY EventNumbers
  <2>2. n \in Nat \ {0} /\ next_ev \in Nat \ {0} /\ next_ev + n - 1 \in 1..N
    BY <1>1, <2>1, AudioAssumption DEF EnqueueCall, SpanOK
  <2>3. \A i \in 1..n : next_ev + i - 1 \in Event
    BY <2>1, <2>2
  <2>4. batch' \in Seq(Event)
    BY <1>1, <2>2, <2>3 DEF EnqueueCall
  <2>5. p_pc' = p_pc /\ p_pc = "idle"
    BY <1>1 DEF EnqueueCall, SpanOK, fifoVars, pushVars
  <2> QED BY <1>1, <2>2, <2>4, <2>5 DEF EnqueueCall, SpanOK
<1>2. CASE EnqueuePublish
  <2>1. batch # <<>> /\ p_pc' = "idle"
    BY <1>2 DEF EnqueuePublish, PushPublish, SpanOK
  <2> QED BY <1>2, <2>1 DEF EnqueuePublish, SpanOK
<1>3. CASE EnqueueFull
  BY <1>3 DEF EnqueueFull, PushFull, fifoVars, pushVars, SpanOK
<1>4. CASE UNCHANGED <<batch, next_ev, p_pc>>
  BY <1>4 DEF SpanOK
<1>5. CASE EnqueueTest \/ EnqueueWrite
  BY <1>5 DEF EnqueueTest, EnqueueWrite, PushWrite, batchVars, SpanOK
<1>6. CASE HostThread
  BY <1>4, <1>6 DEF HostThread, PrepareCall, ReleaseCall, ClearReturn,
     ClearLoad, ClearStore, pushVars, batchVars
<1>7. CASE AudioThread
  <2>1. UNCHANGED batchVars
    BY <1>7 DEF AudioThread, BlockStep, BlockCall, BlockPop, BlockCopy,
       BlockDeliver, BlockSkip, BlockReturn
  <2>2. UNCHANGED pushVars
    BY <1>7 DEF AudioThread, BlockStep, BlockCall, BlockPop, BlockCopy,
       BlockDeliver, BlockSkip, BlockReturn, PopLoad, PopCopy, PopAdvance,
       PopEmpty, fifoVars
  <2> QED BY <1>4, <2>1, <2>2 DEF batchVars, pushVars
<1>8. CASE UNCHANGED vars
  BY <1>4, <1>8 DEF vars, fifoVars, pushVars, batchVars
<1> QED BY <1>1, <1>2, <1>3, <1>5, <1>6, <1>7, <1>8 DEF Next, MessageThread

(* Every step of the plug-in is, for the ring, a step of MidiFifo.         *)
LEMMA StepUsesFifo == SpanOK /\ [Next]_vars => [FifoNext]_fifoVars
<1> SUFFICES ASSUME SpanOK, [Next]_vars PROVE [FifoNext]_fifoVars
  OBVIOUS
<1>1. CASE MessageThread
  <2>1. CASE \E n \in 1..MaxBatch : EnqueueCall(n)
    BY <2>1 DEF EnqueueCall
  <2>2. CASE EnqueueTest
    <3>1. Head(batch) \in Event
      BY <2>2 DEF SpanOK, EnqueueTest
    <3> QED BY <2>2, <3>1 DEF EnqueueTest, FifoNext, Push
  <2>3. CASE EnqueueWrite \/ EnqueuePublish
    BY <2>3 DEF EnqueueWrite, EnqueuePublish, FifoNext, Push
  <2>4. CASE EnqueueFull
    BY <2>4 DEF EnqueueFull, PushFull
  <2> QED BY <1>1, <2>1, <2>2, <2>3, <2>4 DEF MessageThread
<1>2. CASE HostThread
  BY <1>2 DEF HostThread, PrepareCall, ReleaseCall, ClearReturn, FifoNext, Clear
<1>3. CASE AudioThread
  BY <1>3 DEF AudioThread, BlockStep, BlockCall, BlockPop, BlockCopy,
     BlockDeliver, BlockSkip, BlockReturn, FifoNext, Pop
<1>4. CASE UNCHANGED vars
  BY <1>4 DEF vars
<1> QED BY <1>1, <1>2, <1>3, <1>4 DEF Next

(* Every behaviour of the plug-in is, for the ring, a behaviour of         *)
(* MidiFifo: enqueueMidiEvents is its only producer, processBlock its only *)
(* consumer, and the host callbacks only clear it between blocks.          *)
THEOREM AudioPathUsesFifo == Spec => FifoSpec
<1>1. Init => FifoInit
  BY DEF Init
<1> QED BY <1>1, StepUsesFifo, SpanInit, SpanStep, PTL DEF Spec, FifoSpec

(* The ring is free of data races, counts exactly and hands out the oldest *)
(* event while enqueueMidiEvents, processBlock, prepareToPlay and          *)
(* releaseResources run.                                                   *)
THEOREM AudioPathSafe ==
  Spec => [](NoSlotRace /\ OccupancyExact /\ PopReturnsOldest)
BY AudioPathUsesFifo, FifoRaceFree, FifoOccupancy, FifoOrder, PTL

(* Inside the plug-in, too, the ring is the bounded queue of MidiQueue.    *)
THEOREM AudioPathRefinesQueue == Spec => ImplementsQueue
BY AudioPathUsesFifo, FifoRefinesQueue, PTL

-----------------------------------------------------------------------------
(* What is heard.  The parts of the inductive invariant, beside that of    *)
(* the ring (FifoInv).                                                     *)

(* Events are numbered in the order they are handed in: the span holds the *)
(* last ones, and every event before it was either accepted or dropped.    *)
FirstOfSpan == next_ev - Len(batch)

SpanNumbers ==
  /\ batch \in Seq(Event) /\ next_ev \in Nat \ {0} /\ Len(batch) < next_ev
  /\ next_ev - 1 \in Event \cup {0}
  /\ \A i \in 1..Len(batch) : batch[i] = FirstOfSpan + i - 1
  /\ p_pc # "idle" => batch # <<>> /\ p_ev = FirstOfSpan
  /\ dropped \subseteq Event /\ \A e \in dropped : e < FirstOfSpan
  /\ \A i \in 1..Len(hist) : hist[i] < FirstOfSpan /\ hist[i] \notin dropped
  /\ \A i, j \in 1..Len(hist) : i < j => hist[i] < hist[j]

(* The host's calls exclude each other, and prepareToPlay empties the ring *)
(* at least up to where it stood when it was entered.                      *)
HostCalls ==
  /\ host \in {"stopped", "preparing", "playing", "releasing"}
  /\ num_samples \in BlockSizes \cup {NoBlock}
  /\ k_pc = "store" <=> host \in {"preparing", "releasing"}
  /\ num_samples # NoBlock => host = "playing"
  /\ c_pc # "idle" => num_samples # NoBlock
  /\ mark \in 0..Len(hist)
  /\ host = "preparing" => k_w = mark % IndexMod /\ taken <= mark
  /\ host = "playing" => mark <= taken

(* The MidiBuffer of the running block is sorted by clamped position and,  *)
(* at one position, by the order of enqueueing; it holds only events that  *)
(* left the ring since prepareToPlay, all of them after the played ones.   *)
BlockMessages ==
  /\ midi \in Seq(Message) /\ played \in Seq(Event)
  /\ num_samples <= 0 => midi = <<>>
  /\ \A j \in 1..Len(midi) :
       /\ midi[j].pos = Clamp(SamplePosition[midi[j].ev])
       /\ \E i \in (mark + 1)..taken : midi[j].ev = hist[i]
  /\ \A i, j \in 1..Len(midi) : i < j =>
       \/ midi[i].pos < midi[j].pos
       \/ midi[i].pos = midi[j].pos /\ midi[i].ev < midi[j].ev
  /\ \A i \in 1..Len(played), j \in 1..Len(midi) : played[i] < midi[j].ev

InOrder(s) ==
  \A i, j \in 1..Len(s) : i < j =>
    \/ s[i] < s[j]
    \/ s[j] < s[i] /\ SamplePosition[s[i]] < SamplePosition[s[j]]

Heard == {played[i] : i \in 1..Len(played)} \cup {midi[j].ev : j \in 1..Len(midi)}
LeftRing == {hist[i] : i \in 1..taken}

(* Every event that left the ring went one way.                            *)
OneWay ==
  /\ LeftRing = Heard \cup lost \cup discarded
  /\ Heard \cap lost = {} /\ Heard \cap discarded = {} /\ lost \cap discarded = {}

AudioInv == SpanNumbers /\ HostCalls /\ BlockMessages /\ InOrder(played) /\ OneWay

-----------------------------------------------------------------------------
(* What the steps of the ring do to the counts: what was accepted stays,   *)
(* and what is taken was accepted.                                         *)
LEMMA HistoryGrows ==
  ASSUME FifoInv, FifoInv', [FifoNext]_fifoVars
  PROVE  /\ Len(hist) \in Nat /\ Len(hist') \in Nat /\ taken \in Nat /\ taken' \in Nat
         /\ Len(hist) <= Len(hist') /\ taken <= taken' /\ taken' <= Len(hist')
         /\ \A i \in 1..Len(hist) : hist'[i] = hist[i]
<1>1. hist \in Seq(Event) /\ hist' \in Seq(Event) /\ taken \in Nat /\ taken' \in Nat
      /\ taken' <= Len(hist')
    BY DEF FifoInv, FifoTypeOK, FifoPositions
<1>2. Len(hist) <= Len(hist') /\ \A i \in 1..Len(hist) : hist'[i] = hist[i]
  <2>1. CASE hist' = hist
      BY <1>1, <2>1
  <2>2. CASE PushPublish
      BY <1>1, <2>2 DEF PushPublish
  <2> QED
      BY <2>1, <2>2 DEF FifoNext, Push, Pop, Clear, PushFull, PushLoad, PushWrite,
         PopLoad, PopCopy, PopAdvance, PopEmpty, ClearLoad, ClearStore, fifoVars
<1>3. taken <= taken'
  <2>1. CASE taken' = taken
      BY <1>1, <2>1
  <2>2. CASE PopAdvance
      BY <1>1, <2>2 DEF PopAdvance
  <2>3. CASE ClearStore
    <3>1. Dist(k_w, read_pos) \in Nat
        BY IndexAssumption DEF Dist, FifoInv, FifoTypeOK, Indices
    <3> QED BY <1>1, <2>3, <3>1 DEF ClearStore
  <2> QED
      BY <2>1, <2>2, <2>3 DEF FifoNext, Push, Pop, Clear, PushFull, PushLoad, PushWrite,
         PushPublish, PopLoad, PopCopy, PopEmpty, ClearLoad, fifoVars
<1> QED BY <1>1, <1>2, <1>3

(* Inserting into a sequence moves what is behind the place by one.        *)
LEMMA Inserted ==
  ASSUME NEW S, NEW s \in Seq(S), NEW k \in 1..(Len(s) + 1), NEW e \in S
  PROVE  /\ InsertAt(s, k, e) \in Seq(S) /\ Len(InsertAt(s, k, e)) = Len(s) + 1
         /\ \A i \in 1..(Len(s) + 1) :
              InsertAt(s, k, e)[i] = IF i < k THEN s[i] ELSE IF i = k THEN e ELSE s[i - 1]
<1> DEFINE a == SubSeq(s, 1, k - 1)
           b == SubSeq(s, k, Len(s))
<1>1. a \in Seq(S) /\ Len(a) = k - 1 /\ \A i \in 1..(k - 1) : a[i] = s[i]
    OBVIOUS
<1>2. b \in Seq(S) /\ Len(b) = Len(s) - k + 1
      /\ \A i \in 1..(Len(s) - k + 1) : b[i] = s[k + i - 1]
    OBVIOUS
<1> HIDE DEF a, b
<1>3. a \o <<e>> \in Seq(S) /\ Len(a \o <<e>>) = k /\ (a \o <<e>>)[k] = e
      /\ \A i \in 1..(k - 1) : (a \o <<e>>)[i] = s[i]
    BY <1>1, SMTT(40)
<1>4. InsertAt(s, k, e) = (a \o <<e>>) \o b
    BY DEF InsertAt, a, b
<1> DEFINE t == a \o <<e>>
<1> HIDE DEF t
<1>5. /\ t \o b \in Seq(S) /\ Len(t \o b) = Len(s) + 1
      /\ \A i \in 1..(Len(s) + 1) : (t \o b)[i] = IF i <= k THEN t[i] ELSE b[i - k]
    BY <1>2, <1>3 DEF t
<1>6. ASSUME NEW i \in 1..(Len(s) + 1), i > k PROVE b[i - k] = s[i - 1]
  <2>1. Len(s) \in Nat /\ k \in Nat /\ i \in Nat
      OBVIOUS
  <2>2. i - k \in 1..(Len(s) - k + 1) /\ k + (i - k) - 1 = i - 1
      BY <1>6, <2>1
  <2>3. b[i - k] = s[k + (i - k) - 1]
      BY <1>2, <2>2
  <2> QED BY <2>2, <2>3
<1>7. t[k] = e /\ \A i \in 1..(k - 1) : t[i] = s[i]
    BY <1>3 DEF t
<1>8. InsertAt(s, k, e) = t \o b
    BY <1>4 DEF t
<1> DEFINE u == InsertAt(s, k, e)
<1>9. u \in Seq(S) /\ Len(u) = Len(s) + 1
    BY <1>5, <1>8, Zenon
<1>10. ASSUME NEW i \in 1..(Len(s) + 1)
       PROVE  u[i] = IF i < k THEN s[i] ELSE IF i = k THEN e ELSE s[i - 1]
  <2>1. u[i] = IF i <= k THEN t[i] ELSE b[i - k]
      BY <1>5, <1>8, Zenon
  <2> HIDE DEF u
  <2>2. CASE i < k
      BY <1>7, <2>1, <2>2
  <2>3. CASE i = k
      BY <1>7, <2>1, <2>3
  <2>4. CASE i > k
      BY <1>6, <2>1, <2>4
  <2> QED BY <2>2, <2>3, <2>4
<1> QED BY <1>9, <1>10, Zenon

(* There are n numbers up to n.                                            *)
LEMMA CountUpTo ==
  ASSUME NEW n \in Nat
  PROVE  IsFiniteSet(1..n) /\ Cardinality(1..n) = n
BY FS_Interval

(* In a sorted MidiBuffer the messages up to a position come first, so     *)
(* that counting them gives the place of the new one.                      *)
LEMMA CountIsPlace ==
  ASSUME NEW m \in Seq(Message), NEW p \in Nat,
         \A i, j \in 1..Len(m) : i < j => m[i].pos <= m[j].pos
  PROVE  LET c == Cardinality({i \in DOMAIN m : m[i].pos <= p})
         IN /\ c \in 0..Len(m)
            /\ \A i \in 1..Len(m) : i <= c <=> m[i].pos <= p
<1> DEFINE S == {i \in DOMAIN m : m[i].pos <= p}
           c == Cardinality(S)
<1>1. S \subseteq 1..Len(m) /\ \A i \in 1..Len(m) : i \in S <=> m[i].pos <= p
    OBVIOUS
<1>2. \A i \in 1..Len(m) : m[i].pos \in Nat
  <2>1. \A i \in 1..Len(m) : m[i] \in Message
      BY ElementOfSeq
  <2> QED BY <2>1 DEF Message
<1>3. \A x \in S : 1..x \subseteq S
  <2> SUFFICES ASSUME NEW x \in S, NEW y \in 1..x PROVE y \in S
      OBVIOUS
  <2>1. x \in 1..Len(m) /\ y \in 1..Len(m) /\ m[x].pos <= p /\ (y = x \/ y < x)
      BY <1>1
  <2>2. m[y].pos <= m[x].pos
      BY <1>2, <2>1
  <2> QED BY <1>1, <1>2, <2>1, <2>2
<1> HIDE DEF S
<1>4. IsFiniteSet(1..Len(m)) /\ Cardinality(1..Len(m)) = Len(m) /\ Len(m) \in Nat
  <2>1. Len(m) \in Nat
      OBVIOUS
  <2> QED BY <2>1, CountUpTo
<1>5. IsFiniteSet(S) /\ c \in Nat /\ c <= Len(m)
    BY <1>1, <1>4, FS_Subset, FS_CardinalityType, ZenonT(60)
<1>6. \A x \in S : x <= c
  <2> SUFFICES ASSUME NEW x \in S PROVE x <= c
      OBVIOUS
  <2>1. x \in Nat \ {0} /\ 1..x \subseteq S
      BY <1>1, <1>3
  <2>2. Cardinality(1..x) = x
      BY <2>1, CountUpTo
  <2>3. Cardinality(1..x) <= Cardinality(S)
      BY <1>5, <2>1, FS_Subset
  <2> QED BY <2>2, <2>3
<1>7. S = 1..c
  <2>1. S \subseteq 1..c
      BY <1>1, <1>5, <1>6
  <2>2. IsFiniteSet(1..c) /\ Cardinality(1..c) = c
      BY <1>5, CountUpTo
  <2> QED BY <2>1, <2>2, FS_Subset
<1> QED BY <1>1, <1>5, <1>7 DEF S

-----------------------------------------------------------------------------
(* Nothing has been handed in, and nothing is heard.                       *)
LEMMA InitAudioInv == Init => AudioInv
<1> SUFFICES ASSUME Init PROVE AudioInv
    OBVIOUS
<1>1. SpanNumbers
    BY DEF Init, FifoInit, SpanNumbers, FirstOfSpan
<1>2. HostCalls
    BY DEF Init, FifoInit, HostCalls, NoBlock
<1>3. BlockMessages /\ InOrder(played)
    BY DEF Init, FifoInit, BlockMessages, InOrder
<1>4. OneWay
    BY DEF Init, FifoInit, OneWay, LeftRing, Heard
<1> QED BY <1>1, <1>2, <1>3, <1>4 DEF AudioInv

(* The numbering: only enqueueMidiEvents touches it.                       *)
LEMMA StepSpanNumbers ==
  ASSUME FifoInv, SpanNumbers, [Next]_vars
  PROVE  SpanNumbers'
<1>0. PICK N \in Nat : Event = 1..N
    BY EventNumbers
<1>1. /\ hist \in Seq(Event) /\ batch \in Seq(Event) /\ Len(hist) \in Nat
      /\ Len(batch) \in Nat /\ FirstOfSpan \in Nat \ {0} /\ next_ev \in Nat
      /\ \A i \in 1..Len(hist) : hist[i] < FirstOfSpan
      /\ \A i \in 1..Len(hist) : hist[i] \in Nat
    BY <1>0 DEF FifoInv, FifoTypeOK, SpanNumbers, FirstOfSpan
<1>2. ASSUME NEW n \in 1..MaxBatch, EnqueueCall(n) PROVE SpanNumbers'
  <2>1. n \in Nat \ {0} /\ batch = <<>> /\ next_ev + n - 1 \in 1..N
        /\ UNCHANGED <<p_pc, p_ev, hist, dropped>>
      BY <1>0, <1>2, AudioAssumption DEF EnqueueCall, fifoVars, pushVars
  <2>2. \A i \in 1..n : next_ev + i - 1 \in Event
      BY <1>0, <2>1 DEF SpanNumbers
  <2>3. /\ batch' \in Seq(Event) /\ Len(batch') = n /\ next_ev' = next_ev + n
        /\ \A i \in 1..n : batch'[i] = next_ev + i - 1
      BY <1>2, <2>1, <2>2 DEF EnqueueCall
  <2>4. FirstOfSpan' = next_ev /\ FirstOfSpan = next_ev
      BY <2>1, <2>3 DEF FirstOfSpan, SpanNumbers
  <2>5. p_pc = "idle"
      BY <2>1 DEF SpanNumbers
  <2>6. next_ev' - 1 \in Event
      BY <1>0, <2>1, <2>3 DEF SpanNumbers
  <2> QED BY <2>1, <2>3, <2>4, <2>5, <2>6 DEF SpanNumbers
<1>3. CASE EnqueueTest
  <2>1. batch # <<>> /\ p_ev' = Head(batch) /\ UNCHANGED <<hist, batch, next_ev, dropped>>
      BY <1>3 DEF EnqueueTest, PushLoad, batchVars
  <2>2. Head(batch) = FirstOfSpan
      BY <1>1, <2>1 DEF SpanNumbers
  <2> QED BY <2>1, <2>2 DEF SpanNumbers, FirstOfSpan
<1>4. CASE EnqueuePublish
  <2>1. /\ batch # <<>> /\ p_ev = FirstOfSpan /\ p_pc' = "idle"
        /\ hist' = Append(hist, p_ev) /\ batch' = Tail(batch)
        /\ UNCHANGED <<next_ev, dropped, p_ev>>
      BY <1>4 DEF EnqueuePublish, PushPublish, SpanNumbers
  <2>2. /\ batch' \in Seq(Event) /\ Len(batch') = Len(batch) - 1
        /\ \A i \in 1..Len(batch') : batch'[i] = batch[i + 1]
      BY <1>1, <2>1
  <2>3. FirstOfSpan' = FirstOfSpan + 1
    <3>1. next_ev' = next_ev /\ Len(batch') = Len(batch) - 1
        BY <2>1, <2>2
    <3>2. next_ev' - Len(batch') = next_ev - Len(batch) + 1
        BY <1>1, <3>1
    <3> QED BY <3>2 DEF FirstOfSpan
  <2>4. /\ Len(hist') = Len(hist) + 1 /\ hist'[Len(hist) + 1] = FirstOfSpan
        /\ \A i \in 1..Len(hist) : hist'[i] = hist[i]
      BY <1>1, <2>1
  <2>5. \A i \in 1..Len(batch') : batch'[i] = FirstOfSpan' + i - 1
      BY <1>1, <2>2, <2>3 DEF SpanNumbers
  <2>6. \A i \in 1..Len(hist') : hist'[i] < FirstOfSpan' /\ hist'[i] \notin dropped'
      BY <1>1, <2>1, <2>3, <2>4 DEF SpanNumbers
  <2>7. ASSUME NEW i \in 1..Len(hist'), NEW j \in 1..Len(hist'), i < j
        PROVE  hist'[i] < hist'[j]
    <3>1. i \in 1..Len(hist) /\ hist'[i] = hist[i]
        BY <1>1, <2>4, <2>7
    <3>2. CASE j \in 1..Len(hist)
        BY <2>4, <2>7, <3>1, <3>2 DEF SpanNumbers
    <3>3. CASE j = Len(hist) + 1
        BY <1>1, <2>4, <3>1, <3>3
    <3> QED BY <1>1, <2>4, <3>2, <3>3
  <2>8. dropped' \subseteq Event /\ \A e \in dropped' : e < FirstOfSpan'
      BY <1>0, <1>1, <2>1, <2>3 DEF SpanNumbers
  <2>9. next_ev' \in Nat \ {0} /\ Len(batch') < next_ev'
      BY <1>1, <2>1, <2>2 DEF SpanNumbers
  <2> QED BY <2>1, <2>2, <2>5, <2>6, <2>7, <2>8, <2>9 DEF SpanNumbers
<1>5. CASE EnqueueFull
  <2>1. /\ batch # <<>> /\ batch' = <<>> /\ p_pc' = "idle"
        /\ dropped' = dropped \cup {batch[i] : i \in 1..Len(batch)}
        /\ UNCHANGED <<next_ev, hist>>
      BY <1>1, <1>5 DEF EnqueueFull, PushFull, ToSet, fifoVars, pushVars
  <2>2. FirstOfSpan' = next_ev /\ FirstOfSpan < next_ev /\ Len(batch') = 0
      BY <1>1, <2>1 DEF FirstOfSpan, SpanNumbers
  <2>3. \A i \in 1..Len(batch) :
          batch[i] \in Event /\ FirstOfSpan <= batch[i] /\ batch[i] < next_ev
      BY <1>1 DEF SpanNumbers, FirstOfSpan
  <2>4. dropped' \subseteq Event /\ \A e \in dropped' : e < next_ev
    <3>1. dropped \subseteq Event /\ \A e \in dropped : e < FirstOfSpan
        BY DEF SpanNumbers
    <3>2. \A e \in dropped : e < next_ev
        BY <1>0, <1>1, <2>2, <3>1
    <3> QED BY <2>1, <2>3, <3>1, <3>2
  <2>5. \A i \in 1..Len(hist) : hist[i] < next_ev /\ hist[i] \notin dropped'
      BY <1>1, <2>1, <2>2, <2>3 DEF SpanNumbers
  <2> QED BY <2>1, <2>2, <2>4, <2>5 DEF SpanNumbers
<1>6. CASE UNCHANGED <<batch, next_ev, dropped, hist, p_ev>> /\ (p_pc' = "idle" \/ p_pc # "idle")
    BY <1>6 DEF SpanNumbers, FirstOfSpan
<1>7. CASE EnqueueWrite
    BY <1>6, <1>7 DEF EnqueueWrite, PushWrite, batchVars
<1>8. CASE HostThread \/ AudioThread \/ UNCHANGED vars
  <2>1. UNCHANGED batchVars
      BY <1>8 DEF HostThread, PrepareCall, ReleaseCall, ClearReturn, AudioThread, BlockStep,
         BlockCall, BlockPop, BlockCopy, BlockDeliver, BlockSkip, BlockReturn, vars
  <2>2. UNCHANGED <<pushVars, hist>>
      BY <1>8 DEF HostThread, PrepareCall, ReleaseCall, ClearReturn, AudioThread, BlockStep,
         BlockCall, BlockPop, BlockCopy, BlockDeliver, BlockSkip, BlockReturn, vars,
         ClearLoad, ClearStore, PopLoad, PopCopy, PopAdvance, PopEmpty, fifoVars
  <2> QED BY <1>6, <2>1, <2>2 DEF batchVars, pushVars
<1> QED BY <1>2, <1>3, <1>4, <1>5, <1>7, <1>8 DEF Next, MessageThread

(* The host's calls: only prepareToPlay moves the mark, and the clear it   *)
(* ends with takes everything up to the mark out of the ring.              *)
LEMMA StepHostCalls ==
  ASSUME FifoInv, FifoInv', [FifoNext]_fifoVars, HostCalls, [Next]_vars
  PROVE  HostCalls'
<1>1. /\ Len(hist) \in Nat /\ Len(hist') \in Nat /\ taken \in Nat /\ taken' \in Nat
      /\ Len(hist) <= Len(hist') /\ taken <= taken' /\ mark \in 0..Len(hist)
    BY HistoryGrows DEF HostCalls
<1>2. c_pc # "idle" => k_pc = "idle"
    BY DEF FifoInv, FifoPopping
<1>3. CASE UNCHANGED <<hostVars, clearVars, taken, c_pc>>
    BY <1>1, <1>3 DEF hostVars, clearVars, HostCalls
<1>4. CASE MessageThread \/ UNCHANGED vars
  <2>1. UNCHANGED hostVars
      BY <1>4 DEF MessageThread, EnqueueCall, EnqueueTest, EnqueueWrite, EnqueuePublish,
         EnqueueFull, vars
  <2>2. UNCHANGED <<clearVars, taken, popVars>>
      BY <1>4 DEF MessageThread, EnqueueCall, EnqueueTest, EnqueueWrite, EnqueuePublish,
         EnqueueFull, vars, fifoVars, PushFull, PushLoad, PushWrite, PushPublish
  <2> QED BY <1>3, <2>1, <2>2 DEF popVars
<1>5. CASE PrepareCall
  <2>1. /\ k_pc' = "store" /\ k_w' = write_pos /\ host' = "preparing" /\ mark' = Len(hist)
        /\ UNCHANGED <<num_samples, hist, taken, c_pc>> /\ num_samples = NoBlock
        /\ c_pc = "idle"
      BY <1>5 DEF PrepareCall, ClearLoad, popVars
  <2>2. write_pos = Len(hist) % IndexMod /\ taken <= Len(hist)
      BY DEF FifoInv, FifoPositions
  <2> QED BY <1>1, <2>1, <2>2 DEF HostCalls
<1>6. CASE ReleaseCall
    BY <1>1, <1>6 DEF ReleaseCall, ClearLoad, popVars, HostCalls
<1>7. CASE ClearReturn
  <2>1. /\ k_pc = "store" /\ k_pc' = "idle" /\ taken' = taken + Dist(k_w, read_pos)
        /\ host' = (IF host = "preparing" THEN "playing" ELSE "stopped")
        /\ UNCHANGED <<num_samples, mark, hist, c_pc>>
      BY <1>7 DEF ClearReturn, ClearStore, popVars
  <2>2. c_pc = "idle" /\ num_samples = NoBlock
      BY <1>2, <2>1 DEF HostCalls
  <2>3. host = "preparing" => taken' = mark
    <3> SUFFICES ASSUME host = "preparing" PROVE taken' = mark
        OBVIOUS
    <3>1. k_w = mark % IndexMod /\ taken <= mark /\ mark \in Nat
        BY <1>1 DEF HostCalls
    <3>2. read_pos = taken % IndexMod /\ mark - taken \in 0..(IndexMod - 1)
        BY <1>1, <3>1, IndexAssumption, CapacityAssumption DEF FifoInv, FifoPositions
    <3>3. Dist(k_w, read_pos) = mark - taken
      <4>1. mark \in Nat /\ taken \in Nat /\ IndexMod \in Nat \ {0}
          BY <1>1, <3>1, Moduli
      <4> QED BY ONLY <3>1, <3>2, <4>1, ModDist DEF Dist
    <3> QED BY <1>1, <2>1, <3>1, <3>3
  <2> QED BY <1>1, <2>1, <2>2, <2>3 DEF HostCalls
<1>8. ASSUME NEW n \in BlockSizes, BlockCall(n) PROVE HostCalls'
    BY <1>1, <1>8 DEF BlockCall, fifoVars, popVars, clearVars, HostCalls
<1>9. CASE BlockPop
    BY <1>1, <1>9 DEF BlockPop, PopLoad, hostVars, clearVars, HostCalls
<1>10. CASE BlockCopy
    BY <1>1, <1>10 DEF BlockCopy, PopCopy, hostVars, clearVars, HostCalls
<1>11. CASE BlockDeliver \/ BlockSkip
  <2>1. /\ c_pc = "advance" /\ c_pc' = "idle" /\ UNCHANGED <<host, mark, hist, k_pc, k_w>>
        /\ num_samples' \in {num_samples, NoBlock}
      BY <1>11 DEF BlockDeliver, BlockSkip, PopAdvance, clearVars
  <2>2. num_samples # NoBlock /\ host = "playing"
      BY <2>1 DEF HostCalls
  <2> QED BY <1>1, <2>1, <2>2 DEF HostCalls
<1>12. CASE BlockReturn
    BY <1>1, <1>12 DEF BlockReturn, PopEmpty, fifoVars, popVars, clearVars, HostCalls
<1> QED
    BY <1>4, <1>5, <1>6, <1>7, <1>8, <1>9, <1>10, <1>11, <1>12
    DEF Next, HostThread, AudioThread, BlockStep

-----------------------------------------------------------------------------
(* What is heard is what was played and what the block holds.              *)
LEMMA HeardIsBoth ==
  ASSUME played \in Seq(Event), midi \in Seq(Message)
  PROVE  /\ HeardEvents \in Seq(Event)
         /\ Len(HeardEvents) = Len(played) + Len(midi)
         /\ \A i \in 1..Len(played) : HeardEvents[i] = played[i]
         /\ \A j \in 1..Len(midi) : HeardEvents[Len(played) + j] = midi[j].ev
<1> DEFINE e == Events(midi)
<1>1. \A j \in 1..Len(midi) : midi[j] \in Message
    BY ElementOfSeq
<1>2. \A j \in 1..Len(midi) : midi[j].ev \in Event
    BY <1>1 DEF Message
<1>3. e = [j \in 1..Len(midi) |-> midi[j].ev]
    BY DEF Events
<1>4. e \in Seq(Event) /\ Len(e) = Len(midi) /\ \A j \in 1..Len(midi) : e[j] = midi[j].ev
    BY <1>2, <1>3
<1> HIDE DEF e
<1>5. HeardEvents = played \o e
    BY DEF HeardEvents, e
<1>6. /\ played \o e \in Seq(Event) /\ Len(played \o e) = Len(played) + Len(e)
      /\ \A i \in 1..Len(played) : (played \o e)[i] = played[i]
    BY <1>4
<1>7. ASSUME NEW j \in 1..Len(midi) PROVE (played \o e)[Len(played) + j] = midi[j].ev
  <2>1. (played \o e)[Len(played) + j] = e[j]
      BY <1>4
  <2> QED BY <1>4, <2>1
<1> QED BY <1>4, <1>5, <1>6, <1>7

(* The set of what is heard.                                               *)
LEMMA HeardSet ==
  ASSUME played \in Seq(Event), midi \in Seq(Message)
  PROVE  /\ {HeardEvents[i] : i \in 1..Len(HeardEvents)} = Heard
         /\ DOMAIN HeardEvents = 1..Len(HeardEvents)
<1>0. /\ HeardEvents \in Seq(Event) /\ Len(HeardEvents) = Len(played) + Len(midi)
      /\ Len(played) \in Nat /\ Len(midi) \in Nat
      /\ \A i \in 1..Len(played) : HeardEvents[i] = played[i]
      /\ \A j \in 1..Len(midi) : HeardEvents[Len(played) + j] = midi[j].ev
    BY HeardIsBoth
<1>1. ASSUME NEW i \in 1..Len(HeardEvents) PROVE HeardEvents[i] \in Heard
  <2>1. CASE i <= Len(played)
      BY <1>0, <2>1 DEF Heard
  <2>2. CASE i > Len(played)
    <3>1. i - Len(played) \in 1..Len(midi) /\ i = Len(played) + (i - Len(played))
        BY <1>0, <2>2
    <3> QED BY <1>0, <3>1, ZenonT(60) DEF Heard
  <2> QED BY <1>0, <2>1, <2>2
<1>2. ASSUME NEW i \in 1..Len(played)
      PROVE  played[i] \in {HeardEvents[k] : k \in 1..Len(HeardEvents)}
    BY <1>0
<1>3. ASSUME NEW j \in 1..Len(midi)
      PROVE  midi[j].ev \in {HeardEvents[k] : k \in 1..Len(HeardEvents)}
  <2> DEFINE k == Len(played) + j
  <2>1. k \in 1..Len(HeardEvents) /\ HeardEvents[k] = midi[j].ev
      BY <1>0
  <2> HIDE DEF k
  <2> QED BY ONLY <2>1
<1>4. DOMAIN HeardEvents = 1..Len(HeardEvents)
    BY <1>0
<1>5. {HeardEvents[k] : k \in 1..Len(HeardEvents)} \subseteq Heard
    BY ONLY <1>1
<1>6. Heard \subseteq {HeardEvents[k] : k \in 1..Len(HeardEvents)}
    BY ONLY <1>2, <1>3, Zenon DEF Heard
<1> QED BY ONLY <1>4, <1>5, <1>6

(* The order of the positions decides, also after they were clamped.       *)
LEMMA HeardInOrderHolds ==
  ASSUME FifoInv, SpanNumbers, HostCalls, BlockMessages, InOrder(played)
  PROVE  InOrder(HeardEvents)
<1>0. PICK N \in Nat : Event = 1..N
    BY EventNumbers
<1>1. \A j \in 1..Len(midi) : midi[j].ev \in Event /\ midi[j].pos \in Nat
  <2>1. \A j \in 1..Len(midi) : midi[j] \in Message
      BY ElementOfSeq DEF BlockMessages
  <2> QED BY <2>1 DEF Message
<1>2. Len(played) \in Nat /\ Len(midi) \in Nat
    BY DEF BlockMessages
<1>3. /\ Len(HeardEvents) = Len(played) + Len(midi)
      /\ \A i \in 1..Len(played) : HeardEvents[i] = played[i]
      /\ \A j \in 1..Len(midi) : HeardEvents[Len(played) + j] = midi[j].ev
    BY HeardIsBoth DEF BlockMessages
<1>4. ASSUME NEW a \in Event, NEW b \in Event, Clamp(SamplePosition[a]) < Clamp(SamplePosition[b])
      PROVE  SamplePosition[a] < SamplePosition[b]
  <2>1. num_samples \in Int
      BY AudioAssumption DEF HostCalls, NoBlock
  <2> QED BY <1>4, <2>1, AudioAssumption DEF Clamp
<1> SUFFICES ASSUME NEW i \in 1..Len(HeardEvents), NEW j \in 1..Len(HeardEvents), i < j
             PROVE  LET a == HeardEvents[i]
                        b == HeardEvents[j]
                    IN a < b \/ (b < a /\ SamplePosition[a] < SamplePosition[b])
    BY DEF InOrder
<1>5. CASE j <= Len(played)
    BY <1>2, <1>3, <1>5 DEF InOrder
<1>6. CASE i <= Len(played) /\ j > Len(played)
  <2>1. j - Len(played) \in 1..Len(midi) /\ HeardEvents[j] = midi[j - Len(played)].ev
    <3>1. j - Len(played) \in 1..Len(midi) /\ j = Len(played) + (j - Len(played))
        BY <1>2, <1>3, <1>6
    <3> QED BY <1>3, <3>1
  <2>2. i \in 1..Len(played) /\ HeardEvents[i] = played[i]
      BY <1>2, <1>3, <1>6
  <2> QED BY <2>1, <2>2 DEF BlockMessages
<1>7. CASE i > Len(played)
  <2> DEFINE x == i - Len(played)
             y == j - Len(played)
  <2>1. x \in 1..Len(midi) /\ y \in 1..Len(midi) /\ x < y
        /\ i = Len(played) + x /\ j = Len(played) + y
      BY <1>2, <1>3, <1>7
  <2> HIDE DEF x, y
  <2>2. HeardEvents[i] = midi[x].ev /\ HeardEvents[j] = midi[y].ev
      BY <1>3, <2>1
  <2>3. /\ midi[x].ev \in Event /\ midi[y].ev \in Event
        /\ midi[x].pos = Clamp(SamplePosition[midi[x].ev])
        /\ midi[y].pos = Clamp(SamplePosition[midi[y].ev])
      BY <1>1, <2>1 DEF BlockMessages
  <2>4. CASE midi[x].pos < midi[y].pos
    <3>1. SamplePosition[midi[x].ev] < SamplePosition[midi[y].ev]
        BY <1>4, <2>3, <2>4
    <3>2. midi[x].ev # midi[y].ev
      <4>1. SamplePosition[midi[x].ev] \in Nat
          BY <2>3, AudioAssumption
      <4> QED BY <3>1, <4>1
    <3>3. midi[x].ev < midi[y].ev \/ midi[y].ev < midi[x].ev
        BY <1>0, <2>3, <3>2
    <3> QED BY <2>2, <3>1, <3>3
  <2>5. CASE midi[x].ev < midi[y].ev
      BY <2>2, <2>5
  <2> QED BY <2>1, <2>4, <2>5 DEF BlockMessages
<1> QED BY <1>2, <1>3, <1>5, <1>6, <1>7

(* addEvent puts the newest event into its place: the MidiBuffer stays     *)
(* sorted and holds what it held and the new message.                      *)
LEMMA SortedInsert ==
  ASSUME NEW m \in Seq(Message), NEW e \in Event, NEW p \in Nat,
         \A j \in 1..Len(m) : m[j].ev < e,
         \A i, j \in 1..Len(m) : i < j =>
           \/ m[i].pos < m[j].pos
           \/ m[i].pos = m[j].pos /\ m[i].ev < m[j].ev
  PROVE  LET new == [ev |-> e, pos |-> p]
             n == InsertAt(m, 1 + Cardinality({i \in DOMAIN m : m[i].pos <= p}), new)
         IN /\ n \in Seq(Message)
            /\ \A j \in 1..Len(n) : n[j] = new \/ \E i \in 1..Len(m) : n[j] = m[i]
            /\ \E j \in 1..Len(n) : n[j] = new
            /\ \A i \in 1..Len(m) : \E j \in 1..Len(n) : n[j] = m[i]
            /\ \A i, j \in 1..Len(n) : i < j =>
                 \/ n[i].pos < n[j].pos
                 \/ n[i].pos = n[j].pos /\ n[i].ev < n[j].ev
<1> DEFINE new == [ev |-> e, pos |-> p]
           c == Cardinality({i \in DOMAIN m : m[i].pos <= p})
           n == InsertAt(m, 1 + c, new)
<1>1. \A i \in 1..Len(m) : m[i] \in Message
    BY ElementOfSeq
<1>2. \A i \in 1..Len(m) : m[i].pos \in Nat
    BY <1>1 DEF Message
<1>3. Len(m) \in Nat
    OBVIOUS
<1>4. \A i, j \in 1..Len(m) : i < j => m[i].pos <= m[j].pos
    BY <1>2
<1>5. c \in 0..Len(m) /\ \A i \in 1..Len(m) : i <= c <=> m[i].pos <= p
    BY <1>4, CountIsPlace
<1>6. new \in Message /\ new.ev = e /\ new.pos = p
    BY DEF Message
<1> HIDE DEF c, new
<1>7. /\ n \in Seq(Message) /\ Len(n) = Len(m) + 1
      /\ \A i \in 1..(Len(m) + 1) :
           n[i] = IF i < 1 + c THEN m[i] ELSE IF i = 1 + c THEN new ELSE m[i - 1]
  <2> DEFINE k == 1 + c
  <2>1. k \in 1..(Len(m) + 1)
      BY <1>3, <1>5
  <2> HIDE DEF k
  <2>2. /\ InsertAt(m, k, new) \in Seq(Message) /\ Len(InsertAt(m, k, new)) = Len(m) + 1
        /\ \A i \in 1..(Len(m) + 1) :
             InsertAt(m, k, new)[i]
               = IF i < k THEN m[i] ELSE IF i = k THEN new ELSE m[i - 1]
      BY <1>6, <2>1, Inserted
  <2> QED BY <2>2 DEF k
<1> HIDE DEF n
<1>8. \A j \in 1..Len(n) : n[j] = new \/ \E i \in 1..Len(m) : n[j] = m[i]
  <2> SUFFICES ASSUME NEW j \in 1..Len(n), j # 1 + c PROVE \E i \in 1..Len(m) : n[j] = m[i]
      BY <1>7
  <2>1. CASE j < 1 + c
      BY <1>3, <1>5, <1>7, <2>1
  <2>2. CASE j > 1 + c
    <3>1. j - 1 \in 1..Len(m) /\ n[j] = m[j - 1]
        BY <1>3, <1>5, <1>7, <2>2
    <3> QED BY <3>1
  <2> QED BY <1>3, <1>5, <1>7, <2>1, <2>2
<1>9. \E j \in 1..Len(n) : n[j] = new
  <2>1. 1 + c \in 1..Len(n) /\ n[1 + c] = new
      BY <1>3, <1>5, <1>7
  <2> QED BY <2>1
<1>10. ASSUME NEW i \in 1..Len(m) PROVE \E j \in 1..Len(n) : n[j] = m[i]
  <2>1. CASE i <= c
    <3>1. i \in 1..Len(n) /\ n[i] = m[i]
        BY <1>3, <1>5, <1>7, <2>1
    <3> QED BY <3>1
  <2>2. CASE i > c
    <3>1. i + 1 \in 1..Len(n) /\ n[i + 1] = m[(i + 1) - 1] /\ (i + 1) - 1 = i
        BY <1>3, <1>5, <1>7, <2>2
    <3> QED BY <3>1
  <2> QED BY <1>3, <1>5, <2>1, <2>2
<1>11. ASSUME NEW i \in 1..Len(n), NEW j \in 1..Len(n), i < j
       PROVE  \/ n[i].pos < n[j].pos
              \/ n[i].pos = n[j].pos /\ n[i].ev < n[j].ev
  <2>1. CASE j < 1 + c
    <3>1. i \in 1..Len(m) /\ j \in 1..Len(m) /\ n[i] = m[i] /\ n[j] = m[j]
        BY <1>3, <1>5, <1>7, <1>11, <2>1
    <3> QED BY <1>11, <3>1
  <2>2. CASE j = 1 + c
    <3>1. i \in 1..Len(m) /\ i <= c /\ n[i] = m[i] /\ n[j] = new
        BY <1>3, <1>5, <1>7, <1>11, <2>2
    <3>2. m[i].pos <= p /\ m[i].ev < e /\ m[i].pos \in Nat
        BY <1>2, <1>5, <3>1
    <3> QED BY <1>6, <3>1, <3>2
  <2>3. CASE j > 1 + c /\ i < 1 + c
    <3>1. i \in 1..Len(m) /\ j - 1 \in 1..Len(m) /\ i < j - 1 /\ n[i] = m[i] /\ n[j] = m[j - 1]
        BY <1>3, <1>5, <1>7, <1>11, <2>3
    <3> QED BY <3>1
  <2>4. CASE j > 1 + c /\ i = 1 + c
    <3>1. j - 1 \in 1..Len(m) /\ ~(j - 1 <= c) /\ n[i] = new /\ n[j] = m[j - 1]
        BY <1>3, <1>5, <1>7, <1>11, <2>4
    <3>2. p < m[j - 1].pos
        BY <1>2, <1>5, <3>1
    <3> QED BY <1>6, <3>1, <3>2
  <2>5. CASE j > 1 + c /\ i > 1 + c
    <3>1. i - 1 \in 1..Len(m) /\ j - 1 \in 1..Len(m) /\ i - 1 < j - 1
          /\ n[i] = m[i - 1] /\ n[j] = m[j - 1]
        BY <1>3, <1>5, <1>7, <1>11, <2>5
    <3> QED BY <3>1
  <2> QED BY <1>3, <1>5, <1>7, <2>1, <2>2, <2>3, <2>4, <2>5
<1> QED BY <1>7, <1>8, <1>9, <1>10, <1>11 DEF n, c, new

-----------------------------------------------------------------------------
(* The facts about the history that the steps below share: the ring hands  *)
(* out in the order of the numbers, so the next event is above all that    *)
(* have left it, and what has left it stays as it is.                      *)
LEMMA LeavingInOrder ==
  ASSUME FifoInv, FifoInv', [FifoNext]_fifoVars, SpanNumbers
  PROVE  /\ taken \in Nat /\ taken' \in Nat /\ taken <= taken' /\ Len(hist) \in Nat
         /\ taken <= Len(hist)
         /\ \A i \in 1..taken : hist'[i] = hist[i]
         /\ \A i \in 1..Len(hist) : hist[i] \in Event /\ hist[i] \in Int
         /\ \A i \in 1..taken, j \in (taken + 1)..Len(hist) : hist[i] < hist[j]
<1>0. PICK N \in Nat : Event = 1..N
    BY EventNumbers
<1>1. taken <= Len(hist) /\ hist \in Seq(Event) /\ Len(hist) \in Nat
    BY DEF FifoInv, FifoTypeOK, FifoPositions
<1>2. \A i \in 1..Len(hist) : hist[i] \in Event
    BY <1>1, ElementOfSeq
<1>3. taken \in Nat /\ taken' \in Nat /\ taken <= taken'
      /\ \A i \in 1..Len(hist) : hist'[i] = hist[i]
    BY HistoryGrows
<1>4. ASSUME NEW i \in 1..taken, NEW j \in (taken + 1)..Len(hist) PROVE hist[i] < hist[j]
  <2>1. i \in 1..Len(hist) /\ j \in 1..Len(hist) /\ i < j
      BY <1>1, <1>3
  <2> QED BY <2>1 DEF SpanNumbers
<1>5. \A i \in 1..taken : hist'[i] = hist[i]
    BY <1>1, <1>3
<1>6. \A i \in 1..Len(hist) : hist[i] \in Int
    BY <1>0, <1>2
<1> QED BY <1>1, <1>2, <1>3, <1>4, <1>5, <1>6

(* Steps that take nothing out of the ring and leave the block alone       *)
(* change nothing about what is heard.                                     *)
LEMMA QuietStep ==
  ASSUME FifoInv, FifoInv', [FifoNext]_fifoVars, SpanNumbers, HostCalls,
         BlockMessages, InOrder(played), OneWay,
         UNCHANGED <<num_samples, midi, played, lost, discarded, mark, taken>>
  PROVE  BlockMessages' /\ InOrder(played)' /\ OneWay'
<1>1. taken \in Nat /\ mark \in Nat /\ \A i \in 1..taken : hist'[i] = hist[i]
    BY LeavingInOrder DEF HostCalls
<1>2. ASSUME NEW j \in 1..Len(midi)
      PROVE  \E i \in (mark + 1)..taken : midi[j].ev = hist'[i]
  <2>1. PICK i \in (mark + 1)..taken : midi[j].ev = hist[i]
      BY DEF BlockMessages
  <2>2. hist'[i] = hist[i]
      BY <1>1
  <2> QED BY <2>1, <2>2
<1>3. BlockMessages'
    BY <1>2 DEF BlockMessages, Clamp
<1>4. LeftRing' = LeftRing /\ Heard' = Heard
    BY <1>1 DEF LeftRing, Heard
<1> QED BY <1>3, <1>4 DEF InOrder, OneWay

(* Between blocks the MidiBuffer is empty; what clear throws away is above *)
(* everything that left the ring before.                                   *)
LEMMA ClearStep ==
  ASSUME FifoInv, FifoInv', [FifoNext]_fifoVars, SpanNumbers, HostCalls,
         BlockMessages, InOrder(played), OneWay, ClearReturn
  PROVE  BlockMessages' /\ InOrder(played)' /\ OneWay'
<1>1. /\ k_pc = "store" /\ hist' = hist
      /\ discarded' = discarded \cup {hist[i] : i \in (taken + 1)..taken'}
      /\ UNCHANGED <<num_samples, midi, played, lost, mark>>
    BY DEF ClearReturn, ClearStore
<1>2. num_samples = NoBlock /\ midi = <<>>
  <2>1. num_samples = NoBlock
      BY <1>1 DEF HostCalls
  <2> QED BY <2>1 DEF BlockMessages, NoBlock
<1>3. /\ taken \in Nat /\ taken' \in Nat /\ taken <= taken' /\ Len(hist) \in Nat
      /\ taken' <= Len(hist)
      /\ \A i \in 1..Len(hist) : hist[i] \in Int
      /\ \A i \in 1..taken, j \in (taken + 1)..Len(hist) : hist[i] < hist[j]
    BY <1>1, LeavingInOrder, HistoryGrows
<1> DEFINE new == {hist[i] : i \in (taken + 1)..taken'}
<1>4. LeftRing' = LeftRing \cup new
  <2>1. 1..taken' = (1..taken) \cup ((taken + 1)..taken')
      BY <1>3
  <2> QED BY <1>1, <2>1 DEF LeftRing
<1>5. LeftRing \cap new = {}
  <2> SUFFICES ASSUME NEW i \in 1..taken, NEW j \in (taken + 1)..taken', hist[i] = hist[j]
               PROVE  FALSE
      BY DEF LeftRing
  <2>1. i \in 1..Len(hist) /\ j \in (taken + 1)..Len(hist)
      BY <1>3
  <2> QED BY <1>3, <2>1
<1>6. Heard' = Heard
    BY <1>1 DEF Heard
<1>7. OneWay'
  <2> HIDE DEF new
  <2>1. discarded' = discarded \cup new /\ lost' = lost
      BY <1>1 DEF new
  <2> QED BY <1>4, <1>5, <1>6, <2>1 DEF OneWay
<1>8. BlockMessages' /\ InOrder(played)'
    BY <1>1, <1>2 DEF BlockMessages, InOrder
<1> QED BY <1>7, <1>8

(* The loop of processBlock hands over the oldest event of the ring.       *)
LEMMA DeliverStep ==
  ASSUME FifoInv, FifoInv', [FifoNext]_fifoVars, SpanNumbers, HostCalls,
         BlockMessages, InOrder(played), OneWay, BlockDeliver
  PROVE  BlockMessages' /\ InOrder(played)' /\ OneWay'
<1>0. PICK N \in Nat : Event = 1..N
    BY EventNumbers
<1> DEFINE p == Clamp(SamplePosition[c_out])
<1>1. /\ c_pc = "advance" /\ num_samples > 0 /\ taken' = taken + 1 /\ hist' = hist
      /\ midi' = addEvent(c_out, p)
      /\ UNCHANGED <<num_samples, played, lost, discarded, mark>>
    BY DEF BlockDeliver, PopAdvance
<1>2. /\ taken \in Nat /\ Len(hist) \in Nat
      /\ \A i \in 1..Len(hist) : hist[i] \in Event /\ hist[i] \in Int
      /\ \A i \in 1..taken, j \in (taken + 1)..Len(hist) : hist[i] < hist[j]
    BY LeavingInOrder
<1>3. taken + 1 \in (taken + 1)..Len(hist) /\ c_out = hist[taken + 1]
    BY <1>1, <1>2 DEF FifoInv, FifoPopping
<1>4. c_out \in Event /\ \A i \in 1..taken : hist[i] < c_out
    BY <1>2, <1>3
<1>5. mark \in Nat /\ mark <= taken /\ num_samples \in Nat
  <2>1. num_samples # NoBlock /\ num_samples \in BlockSizes
      BY <1>1 DEF HostCalls, NoBlock
  <2> QED BY <2>1, AudioAssumption DEF HostCalls
<1>6. p \in Nat
    BY <1>1, <1>4, <1>5, AudioAssumption DEF Clamp
<1>7. \A x \in LeftRing : x < c_out
    BY <1>4 DEF LeftRing
<1>8. Heard \subseteq LeftRing
    BY DEF OneWay
<1>9. \A j \in 1..Len(midi) : midi[j].ev < c_out
  <2>1. \A j \in 1..Len(midi) : midi[j].ev \in LeftRing
      BY <1>8 DEF Heard
  <2> QED BY <1>7, <2>1
<1>10. \A i \in 1..Len(played) : played[i] < c_out
  <2>1. \A i \in 1..Len(played) : played[i] \in LeftRing
      BY <1>8 DEF Heard
  <2> QED BY <1>7, <2>1
<1> DEFINE new == [ev |-> c_out, pos |-> p]
<1>11. /\ midi' \in Seq(Message)
       /\ \A j \in 1..Len(midi') : midi'[j] = new \/ \E i \in 1..Len(midi) : midi'[j] = midi[i]
       /\ \E j \in 1..Len(midi') : midi'[j] = new
       /\ \A i \in 1..Len(midi) : \E j \in 1..Len(midi') : midi'[j] = midi[i]
       /\ \A i, j \in 1..Len(midi') : i < j =>
            \/ midi'[i].pos < midi'[j].pos
            \/ midi'[i].pos = midi'[j].pos /\ midi'[i].ev < midi'[j].ev
  <2> HIDE DEF p
  <2>1. midi' = InsertAt(midi, 1 + Cardinality({i \in DOMAIN midi : midi[i].pos <= p}), new)
      BY <1>1 DEF addEvent
  <2>2. midi \in Seq(Message) /\ \A i, j \in 1..Len(midi) : i < j =>
            \/ midi[i].pos < midi[j].pos
            \/ midi[i].pos = midi[j].pos /\ midi[i].ev < midi[j].ev
      BY DEF BlockMessages
  <2> DEFINE n == InsertAt(midi, 1 + Cardinality({i \in DOMAIN midi : midi[i].pos <= p}), new)
  <2> DEFINE Grown(m) ==
        /\ m \in Seq(Message)
        /\ \A j \in 1..Len(m) : m[j] = new \/ \E i \in 1..Len(midi) : m[j] = midi[i]
        /\ \E j \in 1..Len(m) : m[j] = new
        /\ \A i \in 1..Len(midi) : \E j \in 1..Len(m) : m[j] = midi[i]
        /\ \A i, j \in 1..Len(m) : i < j =>
             \/ m[i].pos < m[j].pos
             \/ m[i].pos = m[j].pos /\ m[i].ev < m[j].ev
  <2>3. Grown(n)
      BY ONLY <1>4, <1>6, <1>9, <2>2, SortedInsert
  <2> HIDE DEF n, new, Grown
  <2>4. Grown(midi')
      BY <2>1, <2>3 DEF n
  <2> QED BY ONLY <2>4 DEF Grown
<1>12. new.ev = c_out /\ new.pos = p /\ p = Clamp(SamplePosition[c_out])
    OBVIOUS
<1> HIDE DEF p, new
<1>13. Heard' = Heard \cup {c_out}
  <2>1. {midi'[j].ev : j \in 1..Len(midi')} = {midi[j].ev : j \in 1..Len(midi)} \cup {c_out}
    <3>1. ASSUME NEW j \in 1..Len(midi')
          PROVE  midi'[j].ev \in {midi[i].ev : i \in 1..Len(midi)} \cup {c_out}
      <4>1. midi'[j] = new \/ \E i \in 1..Len(midi) : midi'[j] = midi[i]
          BY <1>11, Zenon
      <4>2. CASE midi'[j] = new
          BY ONLY <4>2, <1>12
      <4>3. CASE \E i \in 1..Len(midi) : midi'[j] = midi[i]
          BY ONLY <4>3
      <4> QED BY ONLY <4>1, <4>2, <4>3
    <3>2. ASSUME NEW i \in 1..Len(midi)
          PROVE  midi[i].ev \in {midi'[j].ev : j \in 1..Len(midi')}
      <4>1. PICK j \in 1..Len(midi') : midi'[j] = midi[i]
          BY <1>11
      <4> QED BY <4>1
    <3>3. c_out \in {midi'[j].ev : j \in 1..Len(midi')}
      <4>1. PICK j \in 1..Len(midi') : midi'[j] = new
          BY <1>11
      <4> QED BY <1>12, <4>1
    <3> QED BY <3>1, <3>2, <3>3
  <2> QED BY <1>1, <2>1 DEF Heard
<1>14. LeftRing' = LeftRing \cup {c_out}
  <2>1. 1..(taken + 1) = (1..taken) \cup {taken + 1}
      BY <1>2
  <2> QED BY <1>1, <1>3, <2>1 DEF LeftRing
<1>15. c_out \notin LeftRing
    BY <1>0, <1>4, <1>7
<1>16. OneWay'
    BY <1>1, <1>13, <1>14, <1>15 DEF OneWay
<1>17. ASSUME NEW j \in 1..Len(midi')
       PROVE  /\ midi'[j].pos = Clamp(SamplePosition[midi'[j].ev])
              /\ \E i \in (mark + 1)..(taken + 1) : midi'[j].ev = hist[i]
              /\ \A i \in 1..Len(played) : played[i] < midi'[j].ev
  <2>1. CASE midi'[j] = new
    <3>1. taken + 1 \in (mark + 1)..(taken + 1)
        BY <1>2, <1>5
    <3> QED BY <1>3, <1>10, <1>12, <2>1, <3>1
  <2>2. ASSUME NEW i \in 1..Len(midi), midi'[j] = midi[i] PROVE <1>17!2
    <3>1. PICK k \in (mark + 1)..taken : midi[i].ev = hist[k]
        BY DEF BlockMessages
    <3>2. k \in (mark + 1)..(taken + 1)
        BY <1>2, <1>5
    <3> QED BY <2>2, <3>1, <3>2 DEF BlockMessages
  <2> QED BY <1>11, <2>1, <2>2
<1>18. BlockMessages'
  <2>1. \A x : Clamp(x)' = Clamp(x)
      BY <1>1 DEF Clamp
  <2> QED BY <1>1, <1>5, <1>11, <1>17 DEF BlockMessages, Clamp
<1> QED BY <1>1, <1>16, <1>18 DEF InOrder

(* A block without samples loses the event it popped.                      *)
LEMMA SkipStep ==
  ASSUME FifoInv, FifoInv', [FifoNext]_fifoVars, SpanNumbers, HostCalls,
         BlockMessages, InOrder(played), OneWay, BlockSkip
  PROVE  BlockMessages' /\ InOrder(played)' /\ OneWay'
<1>1. /\ c_pc = "advance" /\ num_samples = 0 /\ taken' = taken + 1 /\ hist' = hist
      /\ lost' = lost \cup {c_out} /\ UNCHANGED <<midi, played, discarded, mark>>
    BY DEF BlockSkip, PopAdvance
<1>2. midi = <<>>
    BY <1>1 DEF BlockMessages
<1>3. /\ taken \in Nat /\ Len(hist) \in Nat /\ \A i \in 1..Len(hist) : hist[i] \in Int
      /\ \A i \in 1..taken, j \in (taken + 1)..Len(hist) : hist[i] < hist[j]
    BY LeavingInOrder
<1>4. taken + 1 \in (taken + 1)..Len(hist) /\ c_out = hist[taken + 1]
    BY <1>1, <1>3 DEF FifoInv, FifoPopping
<1>5. LeftRing' = LeftRing \cup {c_out}
  <2>1. 1..(taken + 1) = (1..taken) \cup {taken + 1}
      BY <1>3
  <2> QED BY <1>1, <1>4, <2>1 DEF LeftRing
<1>6. c_out \notin LeftRing
  <2> SUFFICES ASSUME NEW i \in 1..taken, hist[i] = c_out PROVE FALSE
      BY DEF LeftRing
  <2>1. hist[i] < hist[taken + 1] /\ hist[i] \in Int
      BY <1>3, <1>4
  <2> QED BY <1>4, <2>1
<1>7. Heard' = Heard
    BY <1>1 DEF Heard
<1>8. OneWay'
    BY <1>1, <1>5, <1>6, <1>7 DEF OneWay
<1>9. BlockMessages' /\ InOrder(played)'
    BY <1>1, <1>2 DEF BlockMessages, InOrder
<1> QED BY <1>8, <1>9

(* When processBlock returns, what the block held has been played.         *)
LEMMA ReturnStep ==
  ASSUME FifoInv, FifoInv', [FifoNext]_fifoVars, SpanNumbers, HostCalls,
         BlockMessages, InOrder(played), OneWay, BlockReturn
  PROVE  BlockMessages' /\ InOrder(played)' /\ OneWay'
<1>1. /\ played' = HeardEvents /\ midi' = <<>>
      /\ UNCHANGED <<hist, taken, lost, discarded, mark>>
    BY DEF BlockReturn, PopEmpty, fifoVars, HeardEvents
<1>2. /\ HeardEvents \in Seq(Event) /\ Len(HeardEvents) = Len(played) + Len(midi)
      /\ Len(played) \in Nat /\ Len(midi) \in Nat
      /\ \A i \in 1..Len(played) : HeardEvents[i] = played[i]
      /\ \A j \in 1..Len(midi) : HeardEvents[Len(played) + j] = midi[j].ev
    BY HeardIsBoth DEF BlockMessages
<1>3. {HeardEvents[i] : i \in 1..Len(HeardEvents)} = Heard
    BY HeardSet DEF BlockMessages
<1>4. Heard' = Heard /\ LeftRing' = LeftRing
  <2>1. Heard' = {played'[i] : i \in 1..Len(played')}
      BY <1>1 DEF Heard
  <2>2. Heard' = Heard
      BY <1>1, <1>3, <2>1
  <2> QED BY <1>1, <2>2 DEF LeftRing
<1>5. OneWay'
    BY <1>1, <1>4 DEF OneWay
<1>6. InOrder(played)'
  <2>1. InOrder(HeardEvents)
      BY HeardInOrderHolds
  <2> QED BY <1>1, <2>1 DEF InOrder
<1>7. BlockMessages'
    BY <1>1, <1>2 DEF BlockMessages
<1> QED BY <1>5, <1>6, <1>7

-----------------------------------------------------------------------------
(* Every step keeps the inductive invariant.                               *)
LEMMA StepAudioInv ==
  ASSUME FifoInv, FifoInv', [FifoNext]_fifoVars, AudioInv, [Next]_vars
  PROVE  AudioInv'
<1>0. SpanNumbers /\ HostCalls /\ BlockMessages /\ InOrder(played) /\ OneWay
    BY DEF AudioInv
<1>1. SpanNumbers' /\ HostCalls'
    BY <1>0, StepSpanNumbers, StepHostCalls
<1> SUFFICES BlockMessages' /\ InOrder(played)' /\ OneWay'
    BY <1>1 DEF AudioInv
<1>2. CASE MessageThread \/ UNCHANGED vars
  <2>1. UNCHANGED hostVars
      BY <1>2 DEF MessageThread, EnqueueCall, EnqueueTest, EnqueueWrite, EnqueuePublish,
         EnqueueFull, vars
  <2>2. UNCHANGED taken
      BY <1>2 DEF MessageThread, EnqueueCall, EnqueueTest, EnqueueWrite, EnqueuePublish,
         EnqueueFull, vars, fifoVars, PushFull, PushLoad, PushWrite, PushPublish
  <2> QED BY <2>1, <2>2, <1>0, QuietStep DEF hostVars
<1>3. CASE ReleaseCall
    BY <1>3, <1>0, QuietStep DEF ReleaseCall, ClearLoad
<1>4. CASE BlockPop \/ BlockCopy
    BY <1>4, <1>0, QuietStep DEF BlockPop, BlockCopy, PopLoad, PopCopy, hostVars
<1>5. CASE PrepareCall \/ \E n \in BlockSizes : BlockCall(n)
  <2>1. num_samples = NoBlock /\ midi' = <<>> /\ midi = <<>>
        /\ UNCHANGED <<played, lost, discarded, hist, taken>>
    <3>1. num_samples = NoBlock
        BY <1>5 DEF PrepareCall, BlockCall
    <3>2. midi = <<>>
        BY <1>0, <3>1 DEF BlockMessages, NoBlock
    <3> QED BY <1>5, <3>1, <3>2 DEF PrepareCall, BlockCall, ClearLoad, fifoVars
  <2>2. Heard' = Heard /\ LeftRing' = LeftRing
      BY <2>1 DEF Heard, LeftRing
  <2> QED BY <1>0, <2>1, <2>2 DEF BlockMessages, InOrder, OneWay
<1>6. CASE ClearReturn
    BY <1>6, <1>0, ClearStep
<1>7. CASE BlockDeliver
    BY <1>7, <1>0, DeliverStep
<1>8. CASE BlockSkip
    BY <1>8, <1>0, SkipStep
<1>9. CASE BlockReturn
    BY <1>9, <1>0, ReturnStep
<1> QED
    BY <1>2, <1>3, <1>4, <1>5, <1>6, <1>7, <1>8, <1>9
    DEF Next, HostThread, AudioThread, BlockStep

(* The invariants of the span, of the ring and of what is heard hold in    *)
(* every state of the plug-in.                                             *)
THEOREM AudioInvariant == Spec => [](FifoInv /\ AudioInv)
<1>1. Spec => []FifoInv
    BY AudioPathUsesFifo, FifoInvariant, PTL
<1>2. FifoInv /\ FifoInv' /\ SpanOK /\ AudioInv /\ [Next]_vars => AudioInv'
    BY StepAudioInv, StepUsesFifo
<1>3. Spec => []SpanOK
    BY SpanInit, SpanStep, PTL DEF Spec
<1> QED BY <1>1, <1>2, <1>3, InitAudioInv, PTL DEF Spec

(* The span, the life cycle, the MidiBuffer and the history keep their     *)
(* ranges.                                                                 *)
THEOREM AudioTypeCorrect == Spec => []TypeOK
<1>1. FifoInv /\ AudioInv => TypeOK
  <2> SUFFICES ASSUME FifoInv, AudioInv PROVE TypeOK
      OBVIOUS
  <2>1. next_ev \in 1..(Cardinality(Event) + 1)
    <3>1. Cardinality(Event) \in Nat /\ Event = 1..Cardinality(Event)
        BY AudioAssumption, FS_CardinalityType
    <3> QED BY <3>1 DEF AudioInv, SpanNumbers
  <2>2. lost \cup discarded \cup dropped \subseteq Event
    <3>1. taken <= Len(hist) /\ hist \in Seq(Event) /\ taken \in Nat
        BY DEF FifoInv, FifoTypeOK, FifoPositions
    <3>2. \A i \in 1..taken : hist[i] \in Event
        BY <3>1, ElementOfSeq
    <3> QED BY <3>2 DEF AudioInv, OneWay, LeftRing, SpanNumbers
  <2>3. mark \in Nat
      BY DEF AudioInv, HostCalls
  <2> QED BY <2>1, <2>2, <2>3 DEF FifoInv, AudioInv, SpanNumbers, HostCalls, BlockMessages, TypeOK
<1> QED BY <1>1, AudioInvariant, PTL

(* Neither the ring, the clamping of late positions nor the MidiBuffer     *)
(* swaps or repeats events whose positions do not go backwards.            *)
THEOREM NotesStayInOrder == Spec => []HeardInOrder
<1>1. FifoInv /\ AudioInv => HeardInOrder
  <2> SUFFICES ASSUME FifoInv, AudioInv PROVE HeardInOrder
      OBVIOUS
  <2>1. InOrder(HeardEvents)
      BY HeardInOrderHolds DEF AudioInv
  <2>2. DOMAIN HeardEvents = 1..Len(HeardEvents)
      BY HeardIsBoth DEF AudioInv, BlockMessages
  <2> QED BY <2>1, <2>2 DEF HeardInOrder, InOrder
<1> QED BY <1>1, AudioInvariant, PTL

(* No event is lost without a reason, and none is both heard and thrown    *)
(* away.                                                                   *)
THEOREM NoEventVanishes == Spec => []EveryEventAccounted
<1>1. FifoInv /\ AudioInv => EveryEventAccounted
  <2> SUFFICES ASSUME FifoInv, AudioInv PROVE EveryEventAccounted
      OBVIOUS
  <2>1. ToSet(HeardEvents) = Heard
      BY HeardSet DEF AudioInv, BlockMessages, ToSet
  <2>2. ToSet(hist) \cap dropped = {}
    <3>1. DOMAIN hist = 1..Len(hist)
        BY DEF FifoInv, FifoTypeOK
    <3> QED BY <3>1 DEF AudioInv, SpanNumbers, ToSet
  <2>3. {hist[i] : i \in 1..taken} = LeftRing
      BY DEF LeftRing
  <2> QED BY <2>1, <2>2, <2>3 DEF EveryEventAccounted, AudioInv, OneWay
<1> QED BY <1>1, AudioInvariant, PTL

(* After prepareToPlay has returned, nothing from before it is heard.      *)
THEOREM RestartIsClean == Spec => []NothingFromBeforePrepare
<1>1. FifoInv /\ AudioInv => NothingFromBeforePrepare
  <2> SUFFICES ASSUME FifoInv, AudioInv, NEW i \in 1..mark, NEW j \in 1..Len(midi),
                      midi[j].ev = hist[i]
               PROVE  FALSE
    <3>1. AudioInv => DOMAIN midi = 1..Len(midi)
        BY DEF AudioInv, BlockMessages
    <3> QED BY <3>1 DEF NothingFromBeforePrepare
  <2>1. PICK k \in (mark + 1)..taken : midi[j].ev = hist[k]
      BY DEF AudioInv, BlockMessages
  <2>2. mark \in 0..Len(hist) /\ taken \in Nat /\ taken <= Len(hist) /\ Len(hist) \in Nat
      BY DEF AudioInv, HostCalls, FifoInv, FifoTypeOK, FifoPositions
  <2>3. i \in 1..Len(hist) /\ k \in 1..Len(hist) /\ i < k
      BY <2>1, <2>2
  <2>4. hist[i] < hist[k]
      BY <2>3 DEF AudioInv, SpanNumbers
  <2>5. hist[i] \in Int
    <3>1. PICK N \in Nat : Event = 1..N
        BY EventNumbers
    <3> QED BY <2>3, <3>1 DEF FifoInv, FifoTypeOK
  <2> QED BY <2>1, <2>4, <2>5
<1> QED BY <1>1, AudioInvariant, PTL

(* The whole rest of a span goes when the ring is full.                    *)
THEOREM SpanIsCut == Spec => RestOfSpanDropped
<1>1. ASSUME FifoInv, AudioInv, [Next]_vars
      PROVE  \A e \in dropped' \ dropped : e..(next_ev - 1) \subseteq dropped'
  <2>1. CASE EnqueueFull
    <3> SUFFICES ASSUME NEW e \in dropped' \ dropped, NEW x \in e..(next_ev - 1)
                 PROVE  x \in dropped'
        OBVIOUS
    <3>1. batch \in Seq(Event) /\ Len(batch) \in Nat /\ next_ev \in Nat
          /\ \A i \in 1..Len(batch) : batch[i] = next_ev - Len(batch) + i - 1
        BY <1>1 DEF AudioInv, SpanNumbers, FirstOfSpan
    <3>2. dropped' = dropped \cup {batch[i] : i \in 1..Len(batch)}
        BY <2>1, <3>1 DEF EnqueueFull, ToSet
    <3>3. PICK i \in 1..Len(batch) : e = batch[i]
        BY <3>2
    <3>4. e = next_ev - Len(batch) + i - 1
        BY <3>1, <3>3
    <3> DEFINE k == x - (next_ev - Len(batch)) + 1
    <3>5. k \in 1..Len(batch) /\ x = next_ev - Len(batch) + k - 1
        BY <3>1, <3>3, <3>4
    <3> HIDE DEF k
    <3>6. x = batch[k]
        BY <3>1, <3>5
    <3> QED BY <3>2, <3>5, <3>6
  <2>2. CASE dropped' = dropped
      BY <2>2
  <2>3. EnqueueFull \/ dropped' = dropped
      BY <1>1 DEF Next, MessageThread, EnqueueCall, EnqueueTest, EnqueueWrite, EnqueuePublish,
         HostThread, PrepareCall, ReleaseCall, ClearReturn, AudioThread, BlockStep, BlockCall,
         BlockPop, BlockCopy, BlockDeliver, BlockSkip, BlockReturn, batchVars, vars
  <2> QED BY <2>1, <2>2, <2>3
<1> QED BY <1>1, AudioInvariant, PTL DEF Spec, RestOfSpanDropped

=============================================================================
