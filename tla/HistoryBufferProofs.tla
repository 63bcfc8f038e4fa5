------------------------ MODULE HistoryBufferProofs ------------------------
(***************************************************************************)
(* Proofs about HistoryBuffer for any number of writers and readers, any   *)
(* number of slots of any size and any number of messages and creations.   *)
(***************************************************************************)
EXTENDS HistoryBuffer, TLAPS

-----------------------------------------------------------------------------
(* Where the slots are *)

\* What follows the a-th of equal parts lies before the b-th.
LEMMA PartsInOrder ==
    ASSUME NEW a \in Nat, NEW b \in Nat, NEW d \in Nat, a < b
    PROVE  a * d + d <= b * d
<1>1. PICK c \in Nat : b = a + 1 + c
  <2>1. b - a - 1 \in Nat /\ b = a + 1 + (b - a - 1)
    OBVIOUS
  <2> QED
    BY <2>1
<1>2. b * d = a * d + d + c * d
  BY <1>1
<1>3. c * d >= 0 /\ a * d \in Nat
  BY SMT
<1> QED
  BY <1>2, <1>3

\* No unit belongs to two slots.
LEMMA SlotsApart ==
    ASSUME NEW i \in Nat, NEW j \in Nat,
           NEW k \in 0..SlotUnits, NEW l \in 0..SlotUnits,
           SlotOffset(i) + k = SlotOffset(j) + l
    PROVE  i = j /\ k = l
<1> USE HistoryAssumption
<1> DEFINE d == 1 + SlotUnits
<1>1. /\ d \in Nat /\ i * d \in Nat /\ j * d \in Nat
      /\ i * d + k = j * d + l /\ k < d /\ l < d
  BY DEF SlotOffset
<1>2. i < j => i * d + d <= j * d
  BY <1>1, PartsInOrder
<1>3. j < i => j * d + d <= i * d
  BY <1>1, PartsInOrder
<1> HIDE DEF d
<1>4. i = j
  BY <1>1, <1>2, <1>3
<1> QED
  BY <1>1, <1>4

\* The slots lie in the segment, and behind the header of each there is room
\* for a payload.
LEMMA SlotInside ==
    ASSUME NEW i \in 0..NumSlots-1, NEW k \in 0..SlotUnits
    PROVE  /\ TotalUnits \in Nat /\ SlotOffset(i) \in Nat
           /\ SlotOffset(i) \in 0..TotalUnits-1
           /\ SlotOffset(i) + k \in 0..TotalUnits-1
           /\ SlotUnits < TotalUnits - PayloadOffset(i)
<1> USE HistoryAssumption
<1> DEFINE d == 1 + SlotUnits
<1>1. d \in Nat /\ i * d \in Nat /\ NumSlots * d \in Nat
  OBVIOUS
<1>2. i * d + d <= NumSlots * d
  BY <1>1, PartsInOrder
<1>3. /\ SlotOffset(i) = i * d /\ TotalUnits = NumSlots * d + 1
      /\ PayloadOffset(i) = i * d + 1
  BY DEF SlotOffset, TotalUnits, PayloadOffset
<1>4. k < d /\ SlotUnits < d
  OBVIOUS
<1> HIDE DEF d
<1> QED
  BY <1>1, <1>2, <1>3, <1>4

\* The unit at the start of a slot is the one that begins with a header.
LEMMA HeaderUnit ==
    ASSUME NEW i \in Nat
    PROVE  SlotOffset(i) % (1 + SlotUnits) = 0
BY HistoryAssumption DEF SlotOffset

\* Messages less than num_slots apart are in different slots, and those of the
\* first round in the slots of their numbers.
LEMMA PublishSlotOf ==
    ASSUME NEW m \in Nat
    PROVE  /\ PublishSlot(m) \in 0..NumSlots-1
           /\ m < NumSlots => PublishSlot(m) = m
           /\ \A n \in Nat : m < n /\ n < m + NumSlots => PublishSlot(m) # PublishSlot(n)
<1> USE HistoryAssumption DEF PublishSlot
<1>1. PublishSlot(m) \in 0..NumSlots-1
  OBVIOUS
<1>2. m < NumSlots => PublishSlot(m) = m
  OBVIOUS
<1>3. ASSUME NEW n \in Nat, m < n, n < m + NumSlots
      PROVE  PublishSlot(m) # PublishSlot(n)
  BY <1>3
<1> QED
  BY <1>1, <1>2, <1>3

-----------------------------------------------------------------------------
(* What is where, in whatever state create() has left the buffer *)

Headers == [size : Nat, start : Nat, end : Nat]
Units == Nat \cup Headers

Writing == {"write_size", "write_start", "write_data", "advance"}
Reading == {"read_size", "read_data", "returned"}

WriterLabels == {"out", "py", "fields", "index", "zero", "force", "meta",
                 "acquire", "release", "clear", "dead"} \cup Writing
ReaderLabels == {"out", "py"} \cup Reading

\* The segment has its size, and a SlotHeader at the start of each slot.
MemInv ==
    /\ mem \in [0..TotalUnits-1 -> Units]
    /\ \A i \in 0..NumSlots-1 : mem[SlotOffset(i)] \in Headers

\* The messages begun and published.
HistInv ==
    /\ hist \in Seq(Nat) /\ sent \in Seq(Nat) /\ msgIdx = Len(hist)
    /\ \A j \in 1..Len(hist) : hist[j] \in 1..Len(sent)
    /\ \A m \in 1..Len(sent) : sent[m] <= SlotUnits

\* The other shared variables.
SharedTypes ==
    /\ stored \in 0..2
    /\ holds \subseteq Writers
    /\ \A t, u \in holds : t = u
    /\ health \in {"sound", "making", "spoilt"}

\* The local variables of the threads.
LocalTypes ==
    /\ pc \in [Threads -> WriterLabels \cup ReaderLabels]
    /\ idx \in [Threads -> Nat] /\ size \in [Threads -> Nat]
    /\ pos \in [Threads -> Nat] /\ msg \in [Threads -> Nat]
    /\ got \in [Threads -> Seq(Units)]

\* A writer's copy stays inside the payload of a slot.
WriterInv(t) ==
    /\ pc[t] \in WriterLabels
    /\ pc[t] \notin {"write_data", "advance", "release"} => pos[t] = 0
    /\ size[t] <= SlotUnits
    /\ pc[t] \in Writing =>
          msg[t] \in 1..Len(sent) /\ sent[msg[t]] = size[t] /\ pos[t] <= size[t]

\* A reader's stays inside the segment.
ReaderInv(t) ==
    /\ pc[t] \in ReaderLabels
    /\ pc[t] \notin {"read_data", "returned"} => pos[t] = 0 /\ got[t] = <<>>
    /\ pc[t] \in Reading => idx[t] >= 1
    /\ pc[t] \in {"read_data", "returned"} =>
          /\ pos[t] <= size[t]
          /\ size[t] <= TotalUnits - PayloadOffset(LatestSlot(idx[t]))

TypeInv ==
    /\ MemInv /\ HistInv /\ SharedTypes /\ LocalTypes
    /\ \A t \in Writers : WriterInv(t)
    /\ \A t \in Readers : ReaderInv(t)

\* A store in unit k of slot s leaves the others, and the headers in place.
LEMMA StoreUnit ==
    ASSUME MemInv, NEW s \in 0..NumSlots-1, NEW k \in 0..SlotUnits, NEW v \in Units,
           k = 0 => v \in Headers,
           mem' = [mem EXCEPT ![SlotOffset(s) + k] = v]
    PROVE  /\ MemInv'
           /\ mem'[SlotOffset(s) + k] = v
           /\ \A i \in 0..NumSlots-1, l \in 0..SlotUnits :
                 i # s \/ l # k => mem'[SlotOffset(i) + l] = mem[SlotOffset(i) + l]
<1>1. \A i \in 0..NumSlots-1, l \in 0..SlotUnits :
         /\ SlotOffset(i) \in Nat /\ SlotOffset(i) \in 0..TotalUnits-1
         /\ SlotOffset(i) + l \in 0..TotalUnits-1
         /\ SlotOffset(i) + l = SlotOffset(s) + k => i = s /\ l = k
  BY SlotInside, SlotsApart
<1>2. 0 \in 0..SlotUnits
  BY HistoryAssumption
<1>3. \A i \in 0..NumSlots-1 : SlotOffset(i) + 0 = SlotOffset(i)
  BY <1>1, <1>2
<1>4. mem' \in [0..TotalUnits-1 -> Units] /\ mem'[SlotOffset(s) + k] = v
  BY <1>1 DEF MemInv
<1>5. \A i \in 0..NumSlots-1, l \in 0..SlotUnits :
         i # s \/ l # k => mem'[SlotOffset(i) + l] = mem[SlotOffset(i) + l]
  BY <1>1 DEF MemInv
<1>6. ASSUME NEW i \in 0..NumSlots-1 PROVE mem'[SlotOffset(i)] \in Headers
  <2>1. CASE i # s \/ k # 0
    BY <1>2, <1>3, <1>5, <2>1 DEF MemInv
  <2>2. CASE i = s /\ k = 0
    BY <1>3, <1>4, <2>2
  <2> QED
    BY <2>1, <2>2
<1> QED
  BY <1>4, <1>5, <1>6 DEF MemInv

\* A store of a field leaves the payloads and the headers of the other slots.
LEMMA StoreField ==
    ASSUME MemInv, LocalTypes, NEW t \in Writers, NEW hdr \in Headers, WriteField(t, hdr)
    PROVE  /\ MemInv'
           /\ mem'[SlotOffset(PublishSlot(idx[t]))] = hdr
           /\ \A i \in 0..NumSlots-1 :
                 i # PublishSlot(idx[t]) => mem'[SlotOffset(i)] = mem[SlotOffset(i)]
           /\ \A i \in 0..NumSlots-1, l \in 1..SlotUnits :
                 mem'[SlotOffset(i) + l] = mem[SlotOffset(i) + l]
<1> DEFINE s == PublishSlot(idx[t])
<1>1. s \in 0..NumSlots-1 /\ 0 \in 0..SlotUnits /\ hdr \in Units /\ MemInv
  BY PublishSlotOf, HistoryAssumption DEF LocalTypes, Threads, Units
<1>2. \A i \in 0..NumSlots-1 : SlotOffset(i) + 0 = SlotOffset(i)
  BY <1>1, SlotInside
<1>3. mem' = [mem EXCEPT ![SlotOffset(s) + 0] = hdr]
  BY <1>1, <1>2 DEF WriteField
<1> HIDE DEF s
<1>4. /\ MemInv'
      /\ mem'[SlotOffset(s) + 0] = hdr
      /\ \A i \in 0..NumSlots-1, l \in 0..SlotUnits :
            i # s \/ l # 0 => mem'[SlotOffset(i) + l] = mem[SlotOffset(i) + l]
  BY <1>1, <1>3, StoreUnit
<1>5. \A l \in 1..SlotUnits : l \in 0..SlotUnits /\ l # 0
  BY HistoryAssumption
<1>6. \A i \in 0..NumSlots-1 : i # s => mem'[SlotOffset(i)] = mem[SlotOffset(i)]
  BY <1>1, <1>2, <1>4
<1> QED
  BY <1>1, <1>2, <1>4, <1>5, <1>6 DEF s

\* The slot that get_latest() reads is one of the ring, and its payload ends
\* with it or before the segment does.
LEMMA LatestSlotOf ==
    ASSUME NEW m \in Nat, m >= 1
    PROVE  LatestSlot(m) \in 0..NumSlots-1 /\ LatestSlot(m) = PublishSlot(m - 1)
<1>1. m - 1 \in Nat /\ LatestSlot(m) = PublishSlot(m - 1)
  BY DEF LatestSlot, PublishSlot
<1> QED
  BY <1>1, PublishSlotOf

\* Thread t takes a step: the local variables of the others stay.
Frame(t) ==
    \A u \in Threads \ {t} :
        /\ pc'[u] = pc[u] /\ idx'[u] = idx[u] /\ size'[u] = size[u]
        /\ pos'[u] = pos[u] /\ msg'[u] = msg[u] /\ got'[u] = got[u]

\* What a reader finds in the header of its slot, and in the payload.
LEMMA ReaderLooks ==
    ASSUME TypeInv, NEW t \in Readers, pc[t] \in Reading
    PROVE  LET i == LatestSlot(idx[t])  room == TotalUnits - PayloadOffset(i) IN
           /\ mem[SlotOffset(i)].size \in Nat /\ room \in Nat /\ SlotUnits < room
           /\ pc[t] = "read_data" /\ pos[t] < size[t] =>
                 mem[PayloadOffset(i) + pos[t]] \in Units
<1> DEFINE i == LatestSlot(idx[t])
           room == TotalUnits - PayloadOffset(i)
<1>1. idx[t] \in Nat /\ idx[t] >= 1 /\ pos[t] \in Nat /\ size[t] \in Nat
  BY DEF TypeInv, LocalTypes, ReaderInv, Threads
<1>2. i \in 0..NumSlots-1 /\ 0 \in 0..SlotUnits
  BY <1>1, LatestSlotOf, HistoryAssumption
<1>3. /\ TotalUnits \in Nat /\ SlotOffset(i) \in Nat
      /\ SlotOffset(i) \in 0..TotalUnits-1 /\ SlotUnits < room
  BY <1>2, SlotInside
<1>4. mem[SlotOffset(i)].size \in Nat
  BY <1>2 DEF TypeInv, MemInv, Headers
<1>5. room \in Nat
  BY <1>3, HistoryAssumption DEF PayloadOffset
<1>6. ASSUME pc[t] = "read_data", pos[t] < size[t]
      PROVE  mem[PayloadOffset(i) + pos[t]] \in Units
  <2>1. size[t] <= room
    BY <1>6 DEF TypeInv, ReaderInv
  <2>2. PayloadOffset(i) + pos[t] \in 0..TotalUnits-1
    BY <1>1, <1>3, <1>6, <2>1 DEF PayloadOffset
  <2> QED
    BY <2>2 DEF TypeInv, MemInv
<1> QED
  BY <1>3, <1>4, <1>5, <1>6

\* The end of a call clears the local variables.
LEMMA Forgets ==
    ASSUME LocalTypes, NEW t \in Threads, Forget(t)
    PROVE  /\ idx' \in [Threads -> Nat] /\ size' \in [Threads -> Nat]
           /\ pos' \in [Threads -> Nat] /\ msg' \in [Threads -> Nat]
           /\ pos'[t] = 0 /\ size'[t] = 0
           /\ \A u \in Threads \ {t} : /\ idx'[u] = idx[u] /\ size'[u] = size[u]
                                       /\ pos'[u] = pos[u] /\ msg'[u] = msg[u]
<1>1. idx' \in [Threads -> Nat] /\ \A u \in Threads \ {t} : idx'[u] = idx[u]
  BY DEF Forget, LocalTypes
<1>2. /\ size' \in [Threads -> Nat] /\ size'[t] = 0
      /\ \A u \in Threads \ {t} : size'[u] = size[u]
  BY DEF Forget, LocalTypes
<1>3. /\ pos' \in [Threads -> Nat] /\ pos'[t] = 0
      /\ \A u \in Threads \ {t} : pos'[u] = pos[u]
  BY DEF Forget, LocalTypes
<1>4. msg' \in [Threads -> Nat] /\ \A u \in Threads \ {t} : msg'[u] = msg[u]
  BY DEF Forget, LocalTypes
<1> QED
  BY <1>1, <1>2, <1>3, <1>4

\* A step of create(), of an attachment or of a death.
CreateStep(t) ==
    \/ CreateMagic(t) \/ CreateFields(t) \/ CreateIndex(t) \/ CreateMutex(t)
    \/ CreateMeta(t) \/ Attach(t) \/ Die(t)

\* The local variables keep their types, and a thread leaves those of others.
LEMMA CreateLocals ==
    ASSUME TypeInv, NEW t \in Writers, CreateStep(t)
    PROVE  LocalTypes' /\ Frame(t) /\ WriterInv(t)'
<1> USE DEF Threads, Goto, WriterLabels, ReaderLabels, Writing, Reading
<1>1. LocalTypes /\ WriterInv(t)
  BY DEF TypeInv
<1>2. CASE Die(t)
  <2>1. /\ pc' = [pc EXCEPT ![t] = "dead"] /\ UNCHANGED got /\ Forget(t)
        /\ t \in Threads
    BY <1>2 DEF Die
  <2>2. /\ pc' \in [Threads -> WriterLabels \cup ReaderLabels] /\ pc'[t] = "dead"
        /\ \A u \in Threads \ {t} : pc'[u] = pc[u]
    BY <1>1, <2>1 DEF LocalTypes
  <2>3. LocalTypes' /\ Frame(t)
    BY <1>1, <2>1, <2>2, Forgets DEF LocalTypes, Frame
  <2>4. pos'[t] = 0 /\ size'[t] = 0
    BY <1>1, <2>1, Forgets
  <2> QED
    BY <2>2, <2>3, <2>4, HistoryAssumption DEF WriterInv
<1>3. CASE ~Die(t)
  <2>1. /\ pc[t] \in {"out", "py", "fields", "index", "zero", "force", "meta"}
        /\ \E l \in {"py", "fields", "index", "zero", "force", "meta"} : Goto(t, l)
        /\ UNCHANGED <<idx, size, pos, got, msg>>
    BY <1>3 DEF CreateStep, CreateMagic, CreateFields, CreateIndex, CreateMutex, CreateMeta,
                Attach
  <2> QED
    BY <1>1, <2>1 DEF LocalTypes, Frame, WriterInv
<1> QED
  BY <1>2, <1>3

\* A step of publish() keeps the types of the writer's own variables.
LEMMA PublishLocals ==
    ASSUME TypeInv, NEW t \in Writers, WriterStep(t), ~CreateStep(t)
    PROVE  LocalTypes' /\ Frame(t)
<1> USE DEF Threads, Goto, WriterLabels, ReaderLabels, Writing, Reading, LocalTypes, Frame
<1>1. LocalTypes /\ WriterInv(t) /\ HistInv
  BY DEF TypeInv
<1>2. CASE Publish(t)
  <2>1. PICK n \in Sizes : size' = [size EXCEPT ![t] = n]
    BY <1>2 DEF Publish
  <2>2. n \in Nat
    BY HistoryAssumption
  <2> QED
    BY <1>1, <1>2, <2>1, <2>2 DEF Publish
<1>3. CASE Acquire(t)
  <2>1. msgIdx \in Nat /\ Len(sent) + 1 \in Nat
    BY <1>1 DEF HistInv
  <2>2. /\ idx' = [idx EXCEPT ![t] = msgIdx] /\ UNCHANGED <<size, pos, got>>
        /\ \/ msg' = [msg EXCEPT ![t] = Len(sent) + 1] /\ Goto(t, "write_size")
           \/ UNCHANGED msg /\ Goto(t, "release")
    BY <1>3 DEF Acquire, EnterWith
  <2> QED
    BY <1>1, <2>1, <2>2
<1>4. CASE WriteSize(t) \/ WriteStart(t) \/ WriteEnd(t) \/ Advance(t)
  BY <1>1, <1>4 DEF WriteSize, WriteStart, WriteEnd, Advance
<1>5. CASE WriteData(t)
  BY <1>1, <1>5 DEF WriteData
<1>6. CASE Release(t)
  <2>1. /\ \E l \in {"py", "clear"} : pc' = [pc EXCEPT ![t] = l]
        /\ UNCHANGED got /\ Forget(t)
    BY <1>6 DEF Release
  <2>2. /\ pc' \in [Threads -> WriterLabels \cup ReaderLabels]
        /\ \A u \in Threads \ {t} : pc'[u] = pc[u]
    BY <1>1, <2>1
  <2> QED
    BY <1>1, <2>1, <2>2, Forgets
<1>7. CASE ClearOwner(t)
  BY <1>1, <1>7 DEF ClearOwner
<1> QED
  BY <1>2, <1>3, <1>4, <1>5, <1>6, <1>7 DEF WriterStep, CreateStep

\* So does a step of get_latest().
LEMMA ReaderLocals ==
    ASSUME TypeInv, NEW t \in Readers, ReaderStep(t)
    PROVE  LocalTypes' /\ Frame(t) /\ ReaderInv(t)'
<1> USE DEF Threads, Goto, WriterLabels, ReaderLabels, Writing, Reading, LocalTypes, Frame
<1>1. LocalTypes /\ ReaderInv(t) /\ HistInv
  BY DEF TypeInv
<1>2. CASE Attach(t) \/ ReadEnd(t)
  BY <1>1, <1>2 DEF Attach, ReadEnd, ReaderInv
<1>3. CASE GetLatest(t)
  BY <1>1, <1>3 DEF GetLatest, ReaderInv, HistInv
<1>4. CASE ReadSize(t)
  <2>1. PICK z \in Nat : /\ z <= TotalUnits - PayloadOffset(LatestSlot(idx[t]))
                         /\ size' = [size EXCEPT ![t] = z]
    <3> DEFINE i == LatestSlot(idx[t])
               room == TotalUnits - PayloadOffset(i)
               n == mem[SlotOffset(i)].size
    <3>1. n \in Nat /\ room \in Nat
      BY <1>4, ReaderLooks DEF ReadSize
    <3>2. size' = [size EXCEPT ![t] = IF n < room THEN n ELSE room]
      BY <1>4 DEF ReadSize
    <3> HIDE DEF room, n
    <3>3. (IF n < room THEN n ELSE room) \in Nat /\ (IF n < room THEN n ELSE room) <= room
      BY <3>1
    <3> QED
      BY <3>2, <3>3 DEF room
  <2> QED
    BY <1>1, <1>4, <2>1 DEF ReadSize, ReaderInv
<1>5. CASE ReadData(t)
  <2>1. PICK v \in Units : got' = [got EXCEPT ![t] = Append(got[t], v)]
    BY <1>1, <1>5, ReaderLooks DEF ReadData
  <2> QED
    BY <1>1, <1>5, <2>1 DEF ReadData, ReaderInv
<1>6. CASE Return(t)
  <2>1. /\ pc' = [pc EXCEPT ![t] = "py"] /\ got' = [got EXCEPT ![t] = <<>>]
        /\ Forget(t) /\ t \in Threads
    BY <1>6 DEF Return
  <2>2. /\ pc' \in [Threads -> WriterLabels \cup ReaderLabels] /\ pc'[t] = "py"
        /\ got' \in [Threads -> Seq(Units)] /\ got'[t] = <<>>
        /\ \A u \in Threads \ {t} : pc'[u] = pc[u] /\ got'[u] = got[u]
    BY <1>1, <2>1
  <2>3. LocalTypes' /\ Frame(t)
    BY <1>1, <2>1, <2>2, Forgets
  <2>4. pos'[t] = 0
    BY <1>1, <2>1, Forgets
  <2> QED
    BY <2>2, <2>3, <2>4 DEF ReaderInv
<1> QED
  BY <1>2, <1>3, <1>4, <1>5, <1>6 DEF ReaderStep

\* Messages are begun one after another, and their sizes do not change.
SentGrows ==
    /\ Len(sent') \in Nat /\ Len(sent') >= Len(sent)
    /\ \A m \in 1..Len(sent) : sent'[m] = sent[m]

\* What begins or publishes a message keeps what is known of the others.
LEMMA StepHist ==
    ASSUME TypeInv, NEW t \in Writers, WriterStep(t)
    PROVE  HistInv' /\ SentGrows
<1> USE DEF HistInv, SentGrows
<1>1. HistInv /\ WriterInv(t) /\ size[t] \in Nat
  BY DEF TypeInv, LocalTypes, Threads
<1>2. CASE UNCHANGED <<msgIdx, sent, hist>>
  BY <1>1, <1>2
<1>3. CASE CreateIndex(t)
  BY <1>1, <1>3 DEF CreateIndex
<1>4. CASE Acquire(t) /\ ~UNCHANGED sent
  <2>1. sent' = Append(sent, size[t]) /\ UNCHANGED <<msgIdx, hist>>
    BY <1>4 DEF Acquire, EnterWith
  <2>2. size[t] <= SlotUnits
    BY <1>1 DEF WriterInv
  <2>3. /\ sent' \in Seq(Nat) /\ Len(sent') = Len(sent) + 1
        /\ \A m \in 1..Len(sent) : sent'[m] = sent[m]
        /\ sent'[Len(sent) + 1] = size[t]
    BY <1>1, <2>1
  <2> QED
    BY <1>1, <2>1, <2>2, <2>3
<1>5. CASE Advance(t)
  <2>1. hist' = Append(hist, msg[t]) /\ msgIdx' = msgIdx + 1 /\ sent' = sent
    BY <1>5 DEF Advance
  <2>2. msg[t] \in 1..Len(sent)
    BY <1>1, <1>5 DEF Advance, WriterInv, Writing
  <2>3. /\ hist' \in Seq(Nat) /\ Len(hist') = Len(hist) + 1
        /\ \A j \in 1..Len(hist) : hist'[j] = hist[j]
        /\ hist'[Len(hist) + 1] = msg[t]
    BY <1>1, <2>1, <2>2
  <2> QED
    BY <1>1, <2>1, <2>2, <2>3
<1> QED
  BY <1>2, <1>3, <1>4, <1>5
  DEF WriterStep, CreateMagic, CreateFields, CreateMutex, CreateMeta, Attach, Die, Publish,
      Acquire, EnterWith, WriteSize, WriteStart, WriteData, WriteEnd, Release,
      ClearOwner, shared, ghost

\* The header of the slot being written is one, and stays one with any of its
\* fields stored.
LEMMA SlotHeader ==
    ASSUME TypeInv, NEW t \in Writers
    PROVE  /\ PublishSlot(idx[t]) \in 0..NumSlots-1
           /\ Slot(t) \in Headers
           /\ [Slot(t) EXCEPT !.size = size[t]] \in Headers
           /\ [Slot(t) EXCEPT !.start = StartTime(msg[t])] \in Headers
           /\ [Slot(t) EXCEPT !.end = EndTime(msg[t])] \in Headers
<1>1. /\ idx[t] \in Nat /\ size[t] \in Nat /\ msg[t] \in Nat
      /\ \A i \in 0..NumSlots-1 : mem[SlotOffset(i)] \in Headers
  BY DEF TypeInv, LocalTypes, Threads, MemInv
<1>2. StartTime(msg[t]) \in Nat /\ EndTime(msg[t]) \in Nat
  BY <1>1 DEF StartTime, EndTime
<1>3. PublishSlot(idx[t]) \in 0..NumSlots-1 /\ Slot(t) \in Headers
  BY <1>1, PublishSlotOf DEF Slot
<1> QED
  BY <1>1, <1>2, <1>3 DEF Headers

\* WriteData() stores in the payload of its slot.
LEMMA DataUnit ==
    ASSUME TypeInv, NEW t \in Writers, WriteData(t)
    PROVE  /\ pos[t] + 1 \in 1..SlotUnits /\ pos[t] + 1 \in 0..SlotUnits
           /\ msg[t] \in Units
           /\ mem' = [mem EXCEPT ![SlotOffset(PublishSlot(idx[t])) + (pos[t] + 1)] = msg[t]]
<1> DEFINE s == PublishSlot(idx[t])
<1>1. /\ idx[t] \in Nat /\ size[t] \in Nat /\ msg[t] \in Nat /\ pos[t] \in Nat
      /\ pos[t] < size[t] /\ size[t] <= SlotUnits
  BY DEF TypeInv, LocalTypes, WriterInv, Threads, WriteData
<1>2. s \in 0..NumSlots-1
  BY <1>1, PublishSlotOf
<1> HIDE DEF s
<1>3. SlotOffset(s) \in Nat
  BY <1>2, SlotInside, HistoryAssumption
<1>4. PayloadOffset(s) + pos[t] = SlotOffset(s) + (pos[t] + 1)
  BY <1>1, <1>3 DEF PayloadOffset
<1>5. mem' = [mem EXCEPT ![SlotOffset(s) + (pos[t] + 1)] = msg[t]]
  BY <1>4 DEF WriteData, s
<1> QED
  BY <1>1, <1>5, HistoryAssumption DEF s, Units

\* Whatever is stored, the headers stay where they are.
LEMMA StepMem ==
    ASSUME TypeInv, NEW t \in Writers, WriterStep(t)
    PROVE  MemInv'
<1>1. MemInv /\ LocalTypes
  BY DEF TypeInv
<1>2. CASE UNCHANGED mem
  BY <1>1, <1>2 DEF MemInv
<1>3. CASE CreateMeta(t) /\ ~UNCHANGED mem
  <2>1. /\ 0 \in 0..NumSlots-1 /\ 0 \in 0..SlotUnits
        /\ SlotOffset(0) + 0 = MetaOffset
    BY HistoryAssumption DEF MetaOffset, SlotOffset
  <2>2. TotalUnits \in Nat /\ 2 * MaxMsgs + 2 \in Nat
    BY <2>1, SlotInside, HistoryAssumption
  <2>3. Meta \in Headers /\ Meta \in Units
    BY <2>2 DEF Meta, Headers, Units
  <2>4. mem' = [mem EXCEPT ![SlotOffset(0) + 0] = Meta]
    BY <1>3, <2>1 DEF CreateMeta
  <2> QED
    BY <1>1, <2>1, <2>3, <2>4, StoreUnit
<1>4. CASE WriteSize(t)
  BY <1>1, <1>4, SlotHeader, StoreField DEF WriteSize
<1>5. CASE WriteStart(t)
  BY <1>1, <1>5, SlotHeader, StoreField DEF WriteStart
<1>6. CASE WriteData(t)
  <2>1. PublishSlot(idx[t]) \in 0..NumSlots-1
    BY SlotHeader
  <2>2. pos[t] + 1 # 0
    BY <1>6, DataUnit
  <2> QED
    BY <1>1, <1>6, <2>1, <2>2, DataUnit, StoreUnit
<1>7. CASE WriteEnd(t)
  BY <1>1, <1>7, SlotHeader, StoreField DEF WriteEnd
<1> QED
  BY <1>2, <1>3, <1>4, <1>5, <1>6, <1>7
  DEF WriterStep, CreateMagic, CreateFields, CreateIndex, CreateMutex, Attach, Die, Publish,
      Acquire, EnterWith, Advance, Release, ClearOwner, shared

\* The mutex has one holder, a writer.
LEMMA StepShared ==
    ASSUME TypeInv, NEW t \in Writers, WriterStep(t)
    PROVE  SharedTypes'
<1>1. SharedTypes
  BY DEF TypeInv
<1>2. stored' \in 0..2
  BY <1>1 DEF SharedTypes, WriterStep, CreateMagic, CreateFields, CreateIndex, CreateMutex,
              CreateMeta, Attach, Die, Publish, Acquire, EnterWith, WriteSize, WriteStart,
              WriteData, WriteEnd, Advance, Release, ClearOwner, shared
<1>3. holds' = holds \/ holds' = {} \/ holds' = {t}
  BY DEF WriterStep, CreateMagic, CreateFields, CreateIndex, CreateMutex, CreateMeta,
         Attach, Die, Publish, Acquire, EnterWith, WriteSize, WriteStart, WriteData, WriteEnd,
         Advance, Release, ClearOwner, shared, mutex, L!Acquire, L!Release
<1>4. health' \in {"sound", "making", "spoilt"}
  BY <1>1 DEF SharedTypes, WriterStep, CreateMagic, CreateFields, CreateIndex, CreateMutex,
              CreateMeta, Attach, Die, Publish, Acquire, EnterWith, Meets, WriteSize,
              WriteStart, WriteData, WriteEnd, Advance, Release, ClearOwner, ghost
<1> QED
  BY <1>1, <1>2, <1>3, <1>4 DEF SharedTypes

\* A writer's own step keeps its copy in its slot.
LEMMA PublishCopy ==
    ASSUME TypeInv, NEW t \in Writers, WriterStep(t), ~CreateStep(t)
    PROVE  WriterInv(t)'
<1> USE DEF Threads, Goto, WriterLabels, Writing
<1>1. WriterInv(t) /\ LocalTypes /\ HistInv /\ SlotUnits \in Nat
  BY HistoryAssumption DEF TypeInv
<1>2. CASE Publish(t)
  <2>1. PICK n \in Sizes : n <= SlotUnits /\ size' = [size EXCEPT ![t] = n]
    <3>1. PICK n \in Sizes : /\ n <= (IF stored = 2 THEN SlotUnits ELSE 0)
                             /\ size' = [size EXCEPT ![t] = n]
      BY <1>2 DEF Publish
    <3>2. n <= SlotUnits
      BY <3>1, HistoryAssumption
    <3> QED
      BY <3>1, <3>2
  <2> QED
    BY <1>1, <1>2, <2>1 DEF Publish, WriterInv, LocalTypes
<1>3. CASE Acquire(t)
  <2>1. pc[t] = "acquire" /\ UNCHANGED <<size, pos>>
    BY <1>3 DEF Acquire, EnterWith
  <2>2. CASE stored = 2
    <3>1. /\ pc'[t] = "write_size" /\ msg'[t] = Len(sent) + 1
          /\ sent' = Append(sent, size[t])
      BY <1>1, <1>3, <2>2 DEF Acquire, EnterWith, LocalTypes
    <3>2. Len(sent') = Len(sent) + 1 /\ sent'[Len(sent) + 1] = size[t]
      BY <1>1, <3>1 DEF HistInv, LocalTypes
    <3> QED
      BY <1>1, <2>1, <3>1, <3>2 DEF WriterInv, LocalTypes, HistInv
  <2>3. CASE stored # 2
    BY <1>1, <1>3, <2>1, <2>3 DEF Acquire, EnterWith, WriterInv, LocalTypes
  <2> QED
    BY <2>2, <2>3
<1>4. CASE WriteSize(t) \/ WriteStart(t) \/ WriteEnd(t)
  BY <1>1, <1>4 DEF WriteSize, WriteStart, WriteEnd, WriterInv, LocalTypes, ghost
<1>5. CASE WriteData(t)
  BY <1>1, <1>5 DEF WriteData, WriterInv, LocalTypes, ghost
<1>6. CASE Advance(t)
  BY <1>1, <1>6 DEF Advance, WriterInv, LocalTypes
<1>7. CASE Release(t)
  BY <1>1, <1>7, Forgets DEF Release, WriterInv, LocalTypes
<1>8. CASE ClearOwner(t)
  BY <1>1, <1>8 DEF ClearOwner, WriterInv, LocalTypes, ghost
<1> QED
  BY <1>2, <1>3, <1>4, <1>5, <1>6, <1>7, <1>8 DEF WriterStep, CreateStep

\* A step of any thread keeps the types.
LEMMA StepTypes ==
    ASSUME TypeInv, NEW t \in Threads,
           (t \in Writers /\ WriterStep(t)) \/ (t \in Readers /\ ReaderStep(t))
    PROVE  TypeInv' /\ Frame(t) /\ SentGrows
<1>1. CASE t \in Writers /\ WriterStep(t)
  <2>1. LocalTypes' /\ Frame(t) /\ WriterInv(t)'
    BY <1>1, CreateLocals, PublishLocals, PublishCopy
  <2>2. HistInv' /\ SentGrows /\ MemInv' /\ SharedTypes'
    BY <1>1, StepHist, StepMem, StepShared
  <2>3. ASSUME NEW u \in Writers, u # t PROVE WriterInv(u)'
    <3>1. WriterInv(u) /\ u \in Threads \ {t} /\ Len(sent) \in Nat
      BY <2>3 DEF TypeInv, HistInv, Threads
    <3> QED
      BY <2>1, <2>2, <3>1 DEF WriterInv, Frame, SentGrows
  <2>4. ASSUME NEW u \in Readers PROVE ReaderInv(u)'
    <3>1. ReaderInv(u) /\ u \in Threads \ {t}
      BY <1>1, HistoryAssumption DEF TypeInv, Threads
    <3> QED
      BY <2>1, <3>1 DEF ReaderInv, Frame
  <2> QED
    BY <2>1, <2>2, <2>3, <2>4 DEF TypeInv
<1>2. CASE t \in Readers /\ ReaderStep(t)
  <2>1. LocalTypes' /\ Frame(t) /\ ReaderInv(t)'
    BY <1>2, ReaderLocals
  <2>2. /\ UNCHANGED <<shared, sent, hist>>
        /\ health' = health \/ health' = "spoilt"
    BY <1>2 DEF ReaderStep, Attach, GetLatest, Meets, ReadSize, ReadData, ReadEnd, Return,
                ghost
  <2>3. HistInv' /\ SentGrows /\ MemInv' /\ SharedTypes'
    BY <2>2 DEF TypeInv, HistInv, SentGrows, MemInv, SharedTypes, shared, mutex
  <2>4. ASSUME NEW u \in Writers PROVE WriterInv(u)'
    <3>1. WriterInv(u) /\ u \in Threads \ {t}
      BY <1>2, HistoryAssumption DEF TypeInv, Threads
    <3> QED
      BY <2>1, <2>2, <3>1 DEF WriterInv, Frame
  <2>5. ASSUME NEW u \in Readers, u # t PROVE ReaderInv(u)'
    <3>1. ReaderInv(u) /\ u \in Threads \ {t}
      BY <2>5 DEF TypeInv, Threads
    <3> QED
      BY <2>1, <3>1 DEF ReaderInv, Frame
  <2> QED
    BY <2>1, <2>3, <2>4, <2>5 DEF TypeInv
<1> QED
  BY <1>1, <1>2

-----------------------------------------------------------------------------
(* A create() that runs by itself *)

\* While a create() runs by itself nobody else is at work, and from then on the
\* history is empty and the mutex free; a buffer is sound when none runs.
MakingInv ==
    /\ health = "making" => \E c \in Writers :
          /\ Creating(c)
          /\ \A u \in Threads \ {c} : ~Inside(u)
          /\ pc[c] \in {"zero", "force", "meta"} => hist = <<>>
          /\ pc[c] \in {"force", "meta"} => holds = {}
    /\ health = "sound" => \A u \in Threads : ~Creating(u)

\* A thread that is not creating keeps this, if it does not begin to work
\* beside a create().
LEMMA BesideMaking ==
    ASSUME MakingInv, NEW t \in Threads, Frame(t),
           ~Creating(t), ~Creating(t)',
           health' = "making" => health = "making" /\ ~Inside(t)' /\ UNCHANGED <<hist, holds>>,
           health' = "sound" => health = "sound"
    PROVE  MakingInv'
<1>1. ASSUME health' = "making"
      PROVE  \E c \in Writers :
                /\ Creating(c)'
                /\ \A u \in Threads \ {c} : ~Inside(u)'
                /\ pc'[c] \in {"zero", "force", "meta"} => hist' = <<>>
                /\ pc'[c] \in {"force", "meta"} => holds' = {}
  <2>1. PICK c \in Writers :
          /\ Creating(c)
          /\ \A u \in Threads \ {c} : ~Inside(u)
          /\ pc[c] \in {"zero", "force", "meta"} => hist = <<>>
          /\ pc[c] \in {"force", "meta"} => holds = {}
    BY <1>1 DEF MakingInv
  <2>2. c # t /\ pc'[c] = pc[c]
    BY <2>1 DEF Frame, Threads
  <2>3. \A u \in Threads \ {c} : ~Inside(u)'
    BY <1>1, <2>1 DEF Frame, Inside
  <2> QED
    BY <1>1, <2>1, <2>2, <2>3 DEF Creating
<1>2. ASSUME health' = "sound" PROVE \A u \in Threads : ~Creating(u)'
  BY <1>2 DEF MakingInv, Frame, Creating
<1> QED
  BY <1>1, <1>2 DEF MakingInv

\* A step of create().
LEMMA CreateMaking ==
    ASSUME TypeInv, MakingInv, NEW t \in Writers, Frame(t),
           \/ CreateMagic(t) \/ CreateFields(t) \/ CreateIndex(t) \/ CreateMutex(t)
           \/ CreateMeta(t)
    PROVE  MakingInv'
<1>1. pc \in [Threads -> WriterLabels \cup ReaderLabels] /\ t \in Threads
  BY DEF TypeInv, LocalTypes, Threads
<1>2. CASE CreateMagic(t)
  <2>1. pc'[t] = "fields" /\ health' # "sound"
    BY <1>1, <1>2 DEF CreateMagic, Goto
  <2>2. health' = "making" => \A u \in Threads \ {t} : ~Inside(u)'
    BY <1>2 DEF CreateMagic, Frame, Inside
  <2> QED
    BY <2>1, <2>2 DEF MakingInv, Creating
<1>3. CASE ~CreateMagic(t)
  <2>1. Creating(t) /\ Inside(t)
    BY <1>3 DEF CreateFields, CreateIndex, CreateMutex, CreateMeta, Creating, Inside
  <2>2. health # "sound"
    BY <1>1, <2>1 DEF MakingInv
  <2>3. health = "making" =>
          /\ \A u \in Threads \ {t} : ~Inside(u)'
          /\ pc[t] \in {"zero", "force", "meta"} => hist = <<>>
          /\ pc[t] \in {"force", "meta"} => holds = {}
    BY <1>1, <2>1 DEF MakingInv, Frame, Inside
  <2>4. CASE CreateFields(t) \/ CreateIndex(t) \/ CreateMutex(t)
    <3>1. /\ UNCHANGED health
          /\ Creating(t)'
          /\ pc'[t] \in {"zero", "force", "meta"} =>
                hist' = <<>> \/ (hist' = hist /\ pc[t] \in {"zero", "force"})
          /\ pc'[t] \in {"force", "meta"} => holds' = {}
      BY <1>1, <2>4 DEF CreateFields, CreateIndex, CreateMutex, Goto, ghost, Creating
    <3> QED
      BY <2>2, <2>3, <3>1 DEF MakingInv
  <2>5. CASE CreateMeta(t)
    <3>1. pc'[t] = "py" /\ health' # "making" /\ (health' = "sound" => health = "making")
      BY <1>1, <2>2, <2>5 DEF CreateMeta, Goto
    <3>2. health' = "sound" => \A u \in Threads : ~Creating(u)'
      BY <2>3, <3>1 DEF Creating, Inside
    <3> QED
      BY <3>1, <3>2 DEF MakingInv
  <2> QED
    BY <1>3, <2>4, <2>5
<1> QED
  BY <1>2, <1>3

\* Any other step: one that begins beside a create() spoils it.
LEMMA StepMaking ==
    ASSUME TypeInv, MakingInv, NEW t \in Threads, Frame(t),
           (t \in Writers /\ WriterStep(t)) \/ (t \in Readers /\ ReaderStep(t))
    PROVE  MakingInv'
<1> USE DEF Goto
<1>1. /\ pc \in [Threads -> WriterLabels \cup ReaderLabels]
      /\ health = "making" => \E c \in Threads : Creating(c)
      /\ ~Creating(t) /\ Inside(t) => health # "making"
  BY DEF TypeInv, LocalTypes, MakingInv, Threads
<1>2. CASE Attach(t) \/ Publish(t) \/ ClearOwner(t)
  <2>1. /\ ~Creating(t) /\ ~Creating(t)' /\ ~Inside(t)'
        /\ UNCHANGED <<health, hist, holds>>
    BY <1>1, <1>2 DEF Attach, Publish, ClearOwner, Creating, Inside, shared, mutex, ghost
  <2> QED
    BY <2>1, BesideMaking
<1>3. CASE Acquire(t) \/ GetLatest(t)
  <2>1. ~Creating(t) /\ ~Creating(t)'
    BY <1>1, <1>3 DEF Acquire, EnterWith, GetLatest, Creating
  <2>2. health' # "making" /\ (health' = "sound" => health = "sound")
    BY <1>1, <1>3 DEF Acquire, EnterWith, GetLatest, Meets
  <2> QED
    BY <2>1, <2>2, BesideMaking
<1>4. CASE WriteSize(t) \/ WriteStart(t) \/ WriteData(t) \/ WriteEnd(t) \/ Advance(t)
           \/ Release(t) \/ ReadSize(t) \/ ReadData(t) \/ ReadEnd(t) \/ Return(t)
  <2>1. ~Creating(t) /\ Inside(t) /\ ~Creating(t)' /\ UNCHANGED health
    BY <1>1, <1>4 DEF WriteSize, WriteStart, WriteData, WriteEnd, Advance, Release, ReadSize,
                      ReadData, ReadEnd, Return, Creating, Inside, ghost
  <2> QED
    BY <1>1, <2>1, BesideMaking
<1>5. CASE Die(t)
  <2>1. Inside(t) /\ pc'[t] = "dead" /\ health' = IF Creating(t) THEN "spoilt" ELSE health
    BY <1>1, <1>5 DEF Die
  <2>2. CASE Creating(t)
    BY <2>1, <2>2 DEF MakingInv
  <2>3. CASE ~Creating(t)
    <3>1. ~Creating(t)' /\ UNCHANGED health
      BY <2>1, <2>3 DEF Creating
    <3> QED
      BY <1>1, <2>1, <2>3, <3>1, BesideMaking
  <2> QED
    BY <2>2, <2>3
<1> QED
  BY <1>2, <1>3, <1>4, <1>5, CreateMaking DEF WriterStep, ReaderStep

-----------------------------------------------------------------------------
(* A sound buffer *)

\* Message number m + 1 of the history is in the slot of its number.
Kept(m) == HoldsMessage(PublishSlot(m), hist[m + 1])

\* The slots hold the last num_slots - 1 messages always, and the one before
\* those as long as nobody has begun to replace it.
RingInv ==
    /\ \A m \in 0..msgIdx-1 : m + NumSlots >= msgIdx + 1 => Kept(m)
    /\ holds = {} \/ (\E t \in Writers : pc[t] = "release") =>
          \A m \in 0..msgIdx-1 : m + NumSlots >= msgIdx => Kept(m)

\* The versions of slot i say whether its payload is that of one message.
Tells(i) ==
    LET h == mem[SlotOffset(i)] IN
    h.start < h.end =>
        \E m \in 1..Len(sent) : /\ h.end = EndTime(m)
                                /\ \A k \in 1..sent[m] : mem[SlotOffset(i) + k] = m

\* No end_version is later than the last message begun.
TellsInv ==
    \A i \in 0..NumSlots-1 : i < msgIdx =>
        Tells(i) /\ mem[SlotOffset(i)].end <= EndTime(Len(sent))

\* How far a writer has come with the slot of its message: it holds the mutex,
\* and the slot has no end_version of its message yet.
AtWork(t) ==
    LET s == PublishSlot(idx[t])
        h == mem[SlotOffset(s)]
    IN
    /\ pc[t] \in Writing \cup {"release"} => t \in holds
    /\ pc[t] \in Writing => idx[t] = msgIdx
    /\ pc[t] = "write_start" => h.size = size[t]
    /\ pc[t] = "write_data" =>
          /\ h.size = size[t] /\ h.start = StartTime(msg[t])
          /\ \A k \in 1..pos[t] : mem[SlotOffset(s) + k] = msg[t]
    /\ pc[t] = "advance" => HoldsMessage(s, msg[t])
    /\ pc[t] \in {"write_size", "write_start", "write_data"} /\ s < msgIdx =>
          h.end < StartTime(msg[t])

\* What a reader has copied, unless the writers have gone round the ring.
LooksAt(t) ==
    pc[t] \in Reading =>
        /\ idx[t] <= msgIdx
        /\ pc[t] # "read_size" /\ msgIdx < idx[t] - 1 + NumSlots =>
              /\ size[t] = sent[hist[idx[t]]]
              /\ Len(got[t]) = pos[t]
              /\ \A k \in 1..pos[t] : got[t][k] = hist[idx[t]]
              /\ pc[t] = "returned" => pos[t] = size[t]

SoundInv ==
    /\ RingInv /\ TellsInv
    /\ \A t \in Writers : AtWork(t)
    /\ \A t \in Readers : LooksAt(t)

\* A message stays in a slot of which nothing is overwritten.
LEMMA HoldsStill ==
    ASSUME NEW i, NEW m, HoldsMessage(i, m), sent'[m] = sent[m],
           mem'[SlotOffset(i)] = mem[SlotOffset(i)],
           \A k \in 1..sent[m] : mem'[SlotOffset(i) + k] = mem[SlotOffset(i) + k]
    PROVE  HoldsMessage(i, m)'
BY DEF HoldsMessage

\* Nobody but the holder of the mutex is in the critical section.
LEMMA OthersOut ==
    ASSUME TypeInv, SoundInv, NEW t \in Writers, t \in holds \/ holds = {},
           Frame(t), NEW u \in Writers, u # t
    PROVE  /\ pc[u] \notin Writing \cup {"release"}
           /\ pc'[u] \notin Writing \cup {"release"}
           /\ AtWork(u)'
<1>1. pc[u] \notin Writing \cup {"release"}
  BY DEF TypeInv, SharedTypes, SoundInv, AtWork
<1>2. pc'[u] = pc[u]
  BY DEF Frame, Threads
<1> QED
  BY <1>1, <1>2 DEF AtWork, Writing

\* A thread that leaves the shared variables alone and does not enter the
\* critical section.
LEMMA AloofSound ==
    ASSUME TypeInv, SoundInv, NEW t \in Threads, Frame(t),
           UNCHANGED <<mem, msgIdx, holds, sent, hist>>,
           pc'[t] \notin Writing \cup {"release"},
           t \in Readers => LooksAt(t)'
    PROVE  SoundInv'
<1>1. /\ RingInv /\ TellsInv
      /\ \A u \in Writers : AtWork(u)
      /\ \A u \in Readers : LooksAt(u)
  BY DEF SoundInv
<1>2. \A u \in Writers : pc'[u] = "release" => pc[u] = "release"
  BY DEF Frame, Threads
<1>3. RingInv'
  BY <1>1, <1>2 DEF RingInv, Kept, HoldsMessage
<1>4. TellsInv'
  BY <1>1 DEF TellsInv, Tells
<1>5. ASSUME NEW u \in Writers PROVE AtWork(u)'
  <2>1. CASE u = t
    BY <2>1 DEF AtWork, Writing
  <2>2. CASE u # t
    <3>1. /\ AtWork(u) /\ pc'[u] = pc[u] /\ idx'[u] = idx[u] /\ size'[u] = size[u]
          /\ pos'[u] = pos[u] /\ msg'[u] = msg[u]
      BY <1>1, <2>2 DEF Frame, Threads
    <3> QED
      BY <3>1 DEF AtWork, HoldsMessage
  <2> QED
    BY <2>1, <2>2
<1>6. ASSUME NEW u \in Readers, u # t PROVE LooksAt(u)'
  <2>1. /\ LooksAt(u) /\ pc'[u] = pc[u] /\ idx'[u] = idx[u] /\ size'[u] = size[u]
        /\ pos'[u] = pos[u] /\ got'[u] = got[u]
    BY <1>1, <1>6 DEF Frame, Threads
  <2> QED
    BY <2>1 DEF LooksAt
<1> QED
  BY <1>3, <1>4, <1>5, <1>6 DEF SoundInv

\* So a step of get_latest(): what it copies has not been overwritten, unless
\* the writers have come round to its slot.
LEMMA ReaderSound ==
    ASSUME TypeInv, SoundInv, NEW t \in Readers, Frame(t), ReaderStep(t)
    PROVE  SoundInv'
<1> USE DEF Goto
<1>1. /\ t \in Threads /\ ReaderInv(t) /\ LooksAt(t) /\ RingInv /\ HistInv /\ LocalTypes
      /\ NumSlots \in Nat /\ SlotUnits \in Nat
  BY HistoryAssumption DEF TypeInv, SoundInv, Threads
<1>2. /\ pc \in [Threads -> WriterLabels \cup ReaderLabels]
      /\ idx[t] \in Nat /\ pos[t] \in Nat /\ size[t] \in Nat /\ msgIdx \in Nat
      /\ got[t] \in Seq(Units)
  BY <1>1 DEF LocalTypes, HistInv
<1>3. UNCHANGED <<mem, msgIdx, holds, sent, hist>>
  BY DEF ReaderStep, Attach, GetLatest, ReadSize, ReadData, ReadEnd, Return, shared, mutex,
         ghost
<1>4. pc'[t] \notin Writing \cup {"release"}
  BY <1>1, <1>2 DEF ReaderStep, Attach, GetLatest, ReadSize, ReadData, ReadEnd, Return,
                    ReaderInv, ReaderLabels, Reading, Writing
<1>5. ASSUME pc[t] \in Reading, msgIdx < idx[t] - 1 + NumSlots
      PROVE  /\ HoldsMessage(LatestSlot(idx[t]), hist[idx[t]])
             /\ sent[hist[idx[t]]] \in Nat /\ sent[hist[idx[t]]] <= SlotUnits
  <2>1. idx[t] >= 1 /\ idx[t] <= msgIdx
    BY <1>1, <1>5 DEF ReaderInv, LooksAt
  <2>2. idx[t] - 1 \in 0..msgIdx-1 /\ idx[t] - 1 + NumSlots >= msgIdx + 1
    BY <1>1, <1>2, <1>5, <2>1
  <2>3. Kept(idx[t] - 1)
    BY <1>1, <2>2 DEF RingInv
  <2>4. (idx[t] - 1) + 1 = idx[t]
    BY <1>2
  <2>5. hist[idx[t]] \in 1..Len(sent)
    BY <1>1, <1>2, <2>1 DEF HistInv
  <2>6. sent[hist[idx[t]]] \in Nat /\ sent[hist[idx[t]]] <= SlotUnits
    BY <1>1, <2>5 DEF HistInv
  <2>7. LatestSlot(idx[t]) = PublishSlot(idx[t] - 1)
    BY <1>2, <2>1, LatestSlotOf
  <2> QED
    BY <2>3, <2>4, <2>6, <2>7 DEF Kept
<1>6. LooksAt(t)'
  <2>1. CASE Attach(t) \/ Return(t)
    <3>1. pc'[t] = "py"
      BY <1>1, <1>2, <2>1 DEF Attach, Return
    <3> QED
      BY <3>1 DEF LooksAt, Reading
  <2>2. CASE GetLatest(t)
    BY <1>1, <1>2, <1>3, <2>2 DEF GetLatest, LooksAt, Reading, LocalTypes
  <2>3. CASE ReadSize(t)
    <3> DEFINE i == LatestSlot(idx[t])
               room == TotalUnits - PayloadOffset(i)
               n == mem[SlotOffset(i)].size
    <3>1. /\ pc[t] = "read_size" /\ pc'[t] = "read_data"
          /\ size'[t] = IF n < room THEN n ELSE room
          /\ UNCHANGED <<idx, pos, got>>
      BY <1>1, <1>2, <2>3 DEF ReadSize, LocalTypes
    <3>2. pos[t] = 0 /\ got[t] = <<>> /\ idx[t] <= msgIdx
      BY <1>1, <3>1 DEF ReaderInv, LooksAt, Reading
    <3>3. room \in Nat /\ SlotUnits < room
      BY <3>1, ReaderLooks DEF Reading
    <3>4. msgIdx < idx[t] - 1 + NumSlots => size'[t] = sent[hist[idx[t]]]
      <4> SUFFICES ASSUME msgIdx < idx[t] - 1 + NumSlots
                   PROVE  size'[t] = sent[hist[idx[t]]]
        OBVIOUS
      <4>1. n = sent[hist[idx[t]]] /\ n \in Nat /\ n <= SlotUnits
        BY <1>5, <3>1 DEF Reading, HoldsMessage
      <4> HIDE DEF n, room
      <4> QED
        BY <1>1, <3>1, <3>3, <4>1
    <3> QED
      BY <1>3, <3>1, <3>2, <3>4 DEF LooksAt, Reading
  <2>4. CASE ReadData(t)
    <3> DEFINE i == LatestSlot(idx[t])
               v == mem[PayloadOffset(i) + pos[t]]
    <3>1. /\ pc[t] = "read_data" /\ pc'[t] = "read_data" /\ pos[t] < size[t]
          /\ got'[t] = Append(got[t], v) /\ pos'[t] = pos[t] + 1
          /\ UNCHANGED <<idx, size>>
      BY <1>1, <1>2, <2>4 DEF ReadData, LocalTypes
    <3>2. idx[t] <= msgIdx
      BY <1>1, <3>1 DEF LooksAt, Reading
    <3>3. v \in Units
      BY <3>1, ReaderLooks DEF Reading
    <3>4. ASSUME msgIdx < idx[t] - 1 + NumSlots
          PROVE  /\ size[t] = sent[hist[idx[t]]]
                 /\ Len(got'[t]) = pos'[t]
                 /\ \A k \in 1..pos'[t] : got'[t][k] = hist[idx[t]]
      <4>1. /\ size[t] = sent[hist[idx[t]]] /\ Len(got[t]) = pos[t]
            /\ \A k \in 1..pos[t] : got[t][k] = hist[idx[t]]
        BY <1>1, <3>1, <3>4 DEF LooksAt, Reading
      <4>2. HoldsMessage(i, hist[idx[t]])
        BY <1>5, <3>1, <3>4 DEF Reading
      <4>3. i \in 0..NumSlots-1
        BY <1>1, <1>2, <3>1, LatestSlotOf DEF ReaderInv, Reading
      <4>4. PayloadOffset(i) + pos[t] = SlotOffset(i) + (pos[t] + 1)
        <5>1. SlotOffset(i) \in Nat
          BY <1>1, <4>3, SlotInside
        <5> QED
          BY <1>2, <5>1 DEF PayloadOffset
      <4>5. v = hist[idx[t]]
        BY <1>2, <3>1, <4>1, <4>2, <4>4 DEF HoldsMessage
      <4> HIDE DEF v
      <4>6. /\ Len(got'[t]) = pos[t] + 1 /\ got'[t][pos[t] + 1] = v
            /\ \A k \in 1..pos[t] : got'[t][k] = got[t][k]
        BY <1>2, <3>1, <3>3, <4>1
      <4> QED
        BY <1>2, <3>1, <4>1, <4>5, <4>6
    <3> QED
      BY <1>3, <3>1, <3>2, <3>4 DEF LooksAt, Reading
  <2>5. CASE ReadEnd(t)
    BY <1>1, <1>2, <1>3, <2>5 DEF ReadEnd, LooksAt, Reading
  <2> QED
    BY <2>1, <2>2, <2>3, <2>4, <2>5 DEF ReaderStep
<1> QED
  BY <1>1, <1>3, <1>4, <1>6, AloofSound

\* The start of a message, under the mutex.
LEMMA AcquireSound ==
    ASSUME TypeInv, SoundInv, NEW t \in Writers, Frame(t), SentGrows, Acquire(t)
    PROVE  SoundInv'
<1>1. /\ RingInv /\ TellsInv /\ HistInv /\ LocalTypes /\ MemInv
      /\ \A u \in Writers : AtWork(u)
      /\ \A u \in Readers : LooksAt(u)
      /\ Len(sent) \in Nat /\ msgIdx \in Nat /\ t \in Threads
      /\ \A i \in 0..NumSlots-1 : mem[SlotOffset(i)] \in Headers
  BY DEF SoundInv, TypeInv, HistInv, MemInv, Threads
<1>2. /\ holds = {} /\ holds' = {t} /\ idx'[t] = msgIdx
      /\ UNCHANGED <<mem, msgIdx, hist>>
      /\ \/ pc'[t] = "release"
         \/ /\ pc'[t] = "write_size" /\ msg'[t] = Len(sent) + 1
            /\ Len(sent') = Len(sent) + 1
  BY <1>1 DEF Acquire, EnterWith, L!Acquire, LocalTypes, Goto, HistInv
<1>3. \A j \in 1..Len(hist) : sent'[hist[j]] = sent[hist[j]]
  BY <1>1 DEF SentGrows, HistInv
<1>4. RingInv'
  <2>1. ASSUME NEW m \in 0..msgIdx-1, m + NumSlots >= msgIdx PROVE Kept(m)'
    <3>1. Kept(m) /\ m + 1 \in 1..Len(hist)
      BY <1>1, <1>2, <2>1 DEF RingInv, HistInv
    <3> QED
      BY <1>2, <1>3, <3>1, HoldsStill DEF Kept
  <2>2. \A m \in 0..msgIdx-1 : m + NumSlots >= msgIdx + 1 => m + NumSlots >= msgIdx
    BY <1>1, HistoryAssumption
  <2> QED
    BY <1>2, <2>1, <2>2 DEF RingInv
<1>5. TellsInv'
  <2> SUFFICES ASSUME NEW i \in 0..NumSlots-1, i < msgIdx
               PROVE  Tells(i)' /\ mem[SlotOffset(i)].end <= EndTime(Len(sent'))
    BY <1>2 DEF TellsInv
  <2>1. /\ Tells(i) /\ mem[SlotOffset(i)].end <= EndTime(Len(sent))
        /\ mem[SlotOffset(i)].end \in Nat
    BY <1>1 DEF TellsInv, Headers
  <2>2. Tells(i)'
    BY <1>1, <1>2, <2>1 DEF Tells, SentGrows
  <2>3. mem[SlotOffset(i)].end <= EndTime(Len(sent'))
    BY <1>1, <2>1 DEF SentGrows, EndTime
  <2> QED
    BY <2>2, <2>3
<1>6. AtWork(t)'
  <2>1. ASSUME pc'[t] = "write_size", PublishSlot(msgIdx) < msgIdx
        PROVE  mem[SlotOffset(PublishSlot(msgIdx))].end < StartTime(msg'[t])
    <3>1. PublishSlot(msgIdx) \in 0..NumSlots-1
      BY <1>1, PublishSlotOf
    <3>2. /\ mem[SlotOffset(PublishSlot(msgIdx))].end <= EndTime(Len(sent))
          /\ mem[SlotOffset(PublishSlot(msgIdx))].end \in Nat
      BY <1>1, <2>1, <3>1 DEF TellsInv, Headers
    <3> QED
      BY <1>1, <1>2, <2>1, <3>2 DEF StartTime, EndTime
  <2> QED
    BY <1>2, <2>1 DEF AtWork, Writing
<1>7. ASSUME NEW u \in Writers, u # t PROVE AtWork(u)'
  BY <1>2, <1>7, OthersOut
<1>8. ASSUME NEW u \in Readers PROVE LooksAt(u)'
  <2>1. /\ LooksAt(u) /\ pc'[u] = pc[u] /\ idx'[u] = idx[u] /\ size'[u] = size[u]
        /\ pos'[u] = pos[u] /\ got'[u] = got[u] /\ idx[u] \in Nat
        /\ pc[u] \in Reading => idx[u] >= 1
    BY <1>1, HistoryAssumption DEF Frame, Threads, LocalTypes, TypeInv, ReaderInv
  <2> QED
    BY <1>1, <1>2, <1>3, <2>1 DEF LooksAt, HistInv
<1> QED
  BY <1>4, <1>5, <1>6, <1>7, <1>8 DEF SoundInv

\* A store of a writer in the slot of its message: the slots of the history
\* are others, so that it is left to show what becomes of this slot.
LEMMA StoreSound ==
    ASSUME TypeInv, SoundInv, NEW t \in Writers, Frame(t),
           pc[t] \in Writing, pc'[t] \in Writing, UNCHANGED <<msgIdx, holds, sent, hist>>,
           NEW s \in 0..NumSlots-1, s = PublishSlot(idx[t]),
           \A i \in 0..NumSlots-1 : i # s =>
              /\ mem'[SlotOffset(i)] = mem[SlotOffset(i)]
              /\ \A k \in 1..SlotUnits : mem'[SlotOffset(i) + k] = mem[SlotOffset(i) + k],
           s < msgIdx => Tells(s)' /\ mem'[SlotOffset(s)].end <= EndTime(Len(sent)),
           AtWork(t)'
    PROVE  SoundInv'
<1>1. /\ RingInv /\ TellsInv /\ HistInv /\ AtWork(t)
      /\ \A u \in Readers : LooksAt(u)
      /\ Len(sent) \in Nat /\ msgIdx \in Nat /\ t \in Threads
      /\ NumSlots \in Nat /\ SlotUnits \in Nat
  BY HistoryAssumption DEF SoundInv, TypeInv, HistInv, Threads
<1>2. t \in holds /\ idx[t] = msgIdx
  BY <1>1 DEF AtWork
<1>3. \A u \in Writers : pc'[u] # "release"
  BY <1>2, OthersOut DEF Writing
<1>4. RingInv'
  <2> SUFFICES ASSUME NEW m \in 0..msgIdx-1, m + NumSlots >= msgIdx + 1
               PROVE  Kept(m)'
    BY <1>2, <1>3 DEF RingInv
  <2>1. Kept(m) /\ hist[m + 1] \in 1..Len(sent)
    BY <1>1 DEF RingInv, HistInv
  <2>2. PublishSlot(m) \in 0..NumSlots-1 /\ PublishSlot(m) # s
    BY <1>1, <1>2, PublishSlotOf
  <2>3. \A x \in 1..Len(sent) : sent[x] \in Nat /\ sent[x] <= SlotUnits
    BY <1>1 DEF HistInv
  <2>4. \A k \in 1..sent[hist[m + 1]] : k \in 1..SlotUnits
    BY <1>1, <2>1, <2>3
  <2> QED
    BY <2>1, <2>2, <2>4, HoldsStill DEF Kept
<1>5. TellsInv'
  <2> SUFFICES ASSUME NEW i \in 0..NumSlots-1, i < msgIdx, i # s
               PROVE  Tells(i)' /\ mem'[SlotOffset(i)].end <= EndTime(Len(sent))
    BY DEF TellsInv
  <2>1. Tells(i) /\ mem[SlotOffset(i)].end <= EndTime(Len(sent))
    BY <1>1 DEF TellsInv
  <2>2. \A m \in 1..Len(sent) : \A k \in 1..sent[m] : k \in 1..SlotUnits
    BY <1>1 DEF HistInv
  <2> QED
    BY <2>1, <2>2 DEF Tells
<1>6. ASSUME NEW u \in Writers, u # t PROVE AtWork(u)'
  BY <1>2, <1>6, OthersOut
<1>7. ASSUME NEW u \in Readers PROVE LooksAt(u)'
  <2>1. /\ LooksAt(u) /\ pc'[u] = pc[u] /\ idx'[u] = idx[u] /\ size'[u] = size[u]
        /\ pos'[u] = pos[u] /\ got'[u] = got[u]
    BY <1>1, HistoryAssumption DEF Frame, Threads
  <2> QED
    BY <2>1 DEF LooksAt
<1> QED
  BY <1>4, <1>5, <1>6, <1>7 DEF SoundInv

\* The fields of the header, in their order, and the payload.
LEMMA WriteSound ==
    ASSUME TypeInv, SoundInv, NEW t \in Writers, Frame(t),
           WriteSize(t) \/ WriteStart(t) \/ WriteData(t) \/ WriteEnd(t)
    PROVE  SoundInv'
<1> USE DEF Goto
<1>1. /\ TellsInv /\ HistInv /\ AtWork(t) /\ WriterInv(t) /\ MemInv /\ LocalTypes
      /\ Len(sent) \in Nat /\ msgIdx \in Nat /\ t \in Threads
      /\ NumSlots \in Nat /\ SlotUnits \in Nat
  BY HistoryAssumption DEF SoundInv, TypeInv, HistInv, Threads
<1>2. /\ pc \in [Threads -> WriterLabels \cup ReaderLabels]
      /\ idx[t] \in Nat /\ size[t] \in Nat /\ pos[t] \in Nat /\ msg[t] \in Nat
  BY <1>1 DEF LocalTypes
<1>3. pc[t] \in Writing /\ pc'[t] \in Writing
      /\ UNCHANGED <<msgIdx, holds, sent, hist, idx, size, msg>>
  BY <1>2 DEF WriteSize, WriteStart, WriteData, WriteEnd, Writing, mutex, ghost
<1>4. /\ msg[t] \in 1..Len(sent) /\ sent[msg[t]] = size[t] /\ pos[t] <= size[t]
      /\ t \in holds /\ idx[t] = msgIdx /\ size[t] <= SlotUnits
  BY <1>1, <1>3 DEF WriterInv, AtWork
<1>5. PICK s \in 0..NumSlots-1 : s = PublishSlot(idx[t])
  BY SlotHeader
<1>6. StartTime(msg[t]) < EndTime(msg[t]) /\ EndTime(msg[t]) <= EndTime(Len(sent))
  BY <1>1, <1>2, <1>4 DEF StartTime, EndTime
<1>7. /\ mem[SlotOffset(s)] \in Headers
      /\ s < msgIdx => Tells(s) /\ mem[SlotOffset(s)].end <= EndTime(Len(sent))
      /\ pc[t] \in {"write_size", "write_start", "write_data"} /\ s < msgIdx =>
            mem[SlotOffset(s)].end < StartTime(msg[t])
  BY <1>1, <1>5 DEF MemInv, TellsInv, AtWork
<1>8. \A m \in 1..Len(sent) : \A k \in 1..sent[m] : k \in 1..SlotUnits
  BY <1>1 DEF HistInv
<1>9. ASSUME NEW hdr \in Headers, WriteField(t, hdr)
      PROVE  /\ mem'[SlotOffset(s)] = hdr
             /\ \A k \in 1..SlotUnits : mem'[SlotOffset(s) + k] = mem[SlotOffset(s) + k]
             /\ \A i \in 0..NumSlots-1 : i # s =>
                   /\ mem'[SlotOffset(i)] = mem[SlotOffset(i)]
                   /\ \A k \in 1..SlotUnits : mem'[SlotOffset(i) + k] = mem[SlotOffset(i) + k]
  BY <1>1, <1>5, <1>9, StoreField
<1>10. CASE WriteSize(t)
  <2> DEFINE hdr == [mem[SlotOffset(s)] EXCEPT !.size = size[t]]
  <2>1. /\ hdr \in Headers /\ WriteField(t, hdr)
        /\ pc[t] = "write_size" /\ pc'[t] = "write_start" /\ UNCHANGED pos
    <3>1. hdr = [Slot(t) EXCEPT !.size = size[t]]
      BY <1>5 DEF Slot
    <3> HIDE DEF hdr
    <3> QED
      BY <1>1, <1>2, <1>10, <3>1, SlotHeader DEF WriteSize
  <2>2. /\ hdr.size = size[t] /\ hdr.start = mem[SlotOffset(s)].start
        /\ hdr.end = mem[SlotOffset(s)].end
    BY <1>7 DEF Headers
  <2> HIDE DEF hdr
  <2>3. AtWork(t)'
    BY <1>3, <1>4, <1>5, <1>7, <1>9, <2>1, <2>2 DEF AtWork, Writing
  <2>4. s < msgIdx => Tells(s)' /\ mem'[SlotOffset(s)].end <= EndTime(Len(sent))
    BY <1>3, <1>7, <1>8, <1>9, <2>1, <2>2 DEF Tells
  <2> QED
    BY <1>3, <1>5, <1>9, <2>1, <2>3, <2>4, StoreSound
<1>11. CASE WriteStart(t)
  <2> DEFINE hdr == [mem[SlotOffset(s)] EXCEPT !.start = StartTime(msg[t])]
  <2>1. /\ hdr \in Headers /\ WriteField(t, hdr)
        /\ pc[t] = "write_start" /\ pc'[t] = "write_data" /\ UNCHANGED pos
    <3>1. hdr = [Slot(t) EXCEPT !.start = StartTime(msg[t])]
      BY <1>5 DEF Slot
    <3> HIDE DEF hdr
    <3> QED
      BY <1>1, <1>2, <1>11, <3>1, SlotHeader DEF WriteStart
  <2>2. /\ hdr.size = mem[SlotOffset(s)].size /\ hdr.start = StartTime(msg[t])
        /\ hdr.end = mem[SlotOffset(s)].end /\ hdr.end \in Nat
    BY <1>7 DEF Headers
  <2>3. mem[SlotOffset(s)].size = size[t] /\ pos[t] = 0
    BY <1>1, <1>5, <2>1 DEF AtWork, WriterInv
  <2> HIDE DEF hdr
  <2>4. AtWork(t)'
    BY <1>3, <1>4, <1>5, <1>7, <1>9, <2>1, <2>2, <2>3 DEF AtWork, Writing
  <2>5. StartTime(msg[t]) \in Nat
    BY <1>2 DEF StartTime
  <2>6. s < msgIdx => Tells(s)' /\ mem'[SlotOffset(s)].end <= EndTime(Len(sent))
    BY <1>3, <1>7, <1>9, <2>1, <2>2, <2>5 DEF Tells
  <2> QED
    BY <1>3, <1>5, <1>9, <2>1, <2>4, <2>6, StoreSound
<1>12. CASE WriteEnd(t)
  <2> DEFINE hdr == [mem[SlotOffset(s)] EXCEPT !.end = EndTime(msg[t])]
  <2>1. /\ hdr \in Headers /\ WriteField(t, hdr)
        /\ pc[t] = "write_data" /\ pc'[t] = "advance" /\ UNCHANGED pos /\ pos[t] = size[t]
    <3>1. hdr = [Slot(t) EXCEPT !.end = EndTime(msg[t])]
      BY <1>5 DEF Slot
    <3> HIDE DEF hdr
    <3> QED
      BY <1>1, <1>2, <1>12, <3>1, SlotHeader DEF WriteEnd
  <2>2. /\ hdr.size = mem[SlotOffset(s)].size /\ hdr.start = mem[SlotOffset(s)].start
        /\ hdr.end = EndTime(msg[t])
    BY <1>7 DEF Headers
  <2>3. /\ mem[SlotOffset(s)].size = size[t] /\ mem[SlotOffset(s)].start = StartTime(msg[t])
        /\ \A k \in 1..sent[msg[t]] : mem[SlotOffset(s) + k] = msg[t]
    BY <1>1, <1>4, <1>5, <2>1 DEF AtWork
  <2> HIDE DEF hdr
  <2>4. \A k \in 1..sent[msg[t]] : mem'[SlotOffset(s) + k] = msg[t]
    BY <1>4, <1>8, <1>9, <2>1, <2>3
  <2>5. HoldsMessage(s, msg[t])'
    BY <1>3, <1>4, <1>9, <2>1, <2>2, <2>3, <2>4 DEF HoldsMessage
  <2>6. AtWork(t)'
    BY <1>3, <1>4, <1>5, <2>1, <2>5 DEF AtWork, Writing
  <2>7. Tells(s)' /\ mem'[SlotOffset(s)].end <= EndTime(Len(sent))
    BY <1>3, <1>4, <1>6, <1>9, <2>1, <2>2, <2>4 DEF Tells
  <2> QED
    BY <1>3, <1>5, <1>9, <2>1, <2>6, <2>7, StoreSound
<1>13. CASE WriteData(t)
  <2>1. /\ pc[t] = "write_data" /\ pc'[t] = "write_data" /\ pos'[t] = pos[t] + 1
        /\ pos[t] < size[t]
    BY <1>1, <1>2, <1>13 DEF WriteData, LocalTypes
  <2>2. /\ pos[t] + 1 \in 0..SlotUnits /\ pos[t] + 1 # 0 /\ msg[t] \in Units
        /\ mem' = [mem EXCEPT ![SlotOffset(s) + (pos[t] + 1)] = msg[t]]
    BY <1>2, <1>5, <1>13, DataUnit
  <2>3. /\ mem'[SlotOffset(s) + (pos[t] + 1)] = msg[t]
        /\ \A i \in 0..NumSlots-1, l \in 0..SlotUnits :
              i # s \/ l # pos[t] + 1 => mem'[SlotOffset(i) + l] = mem[SlotOffset(i) + l]
    BY <1>1, <2>2, StoreUnit
  <2>4. \A l \in 1..SlotUnits : l \in 0..SlotUnits /\ l # 0
    BY <1>1
  <2>5. \A i \in 0..NumSlots-1 : mem'[SlotOffset(i)] = mem[SlotOffset(i)]
    <3>1. \A i \in 0..NumSlots-1 : SlotOffset(i) + 0 = SlotOffset(i)
      BY <1>1, SlotInside
    <3>2. 0 \in 0..SlotUnits
      BY <1>1
    <3> QED
      BY <2>2, <2>3, <3>1, <3>2
  <2>6. /\ mem[SlotOffset(s)].size = size[t] /\ mem[SlotOffset(s)].start = StartTime(msg[t])
        /\ \A k \in 1..pos[t] : mem[SlotOffset(s) + k] = msg[t]
    BY <1>1, <1>5, <2>1 DEF AtWork
  <2>7. \A k \in 1..pos'[t] : mem'[SlotOffset(s) + k] = msg[t]
    <3> SUFFICES ASSUME NEW k \in 1..(pos[t] + 1)
                 PROVE  mem'[SlotOffset(s) + k] = msg[t]
      BY <2>1
    <3>1. CASE k = pos[t] + 1
      BY <2>3, <3>1
    <3>2. CASE k # pos[t] + 1
      <4>1. k \in 1..pos[t] /\ k \in 0..SlotUnits
        BY <1>1, <1>2, <2>2, <3>2
      <4> QED
        BY <2>3, <2>6, <3>2, <4>1
    <3> QED
      BY <3>1, <3>2
  <2>8. AtWork(t)'
    BY <1>3, <1>4, <1>5, <1>7, <2>1, <2>5, <2>6, <2>7 DEF AtWork, Writing
  <2>9. s < msgIdx => Tells(s)' /\ mem'[SlotOffset(s)].end <= EndTime(Len(sent))
    <3> SUFFICES ASSUME s < msgIdx
                 PROVE  Tells(s)' /\ mem'[SlotOffset(s)].end <= EndTime(Len(sent))
      OBVIOUS
    <3>1. mem'[SlotOffset(s)].end < mem'[SlotOffset(s)].start
      BY <1>7, <2>1, <2>5, <2>6
    <3>2. mem[SlotOffset(s)].end \in Nat /\ mem[SlotOffset(s)].start \in Nat
      BY <1>7 DEF Headers
    <3> QED
      BY <1>7, <2>5, <3>1, <3>2 DEF Tells
  <2>10. \A i \in 0..NumSlots-1 : i # s =>
           \A k \in 1..SlotUnits : mem'[SlotOffset(i) + k] = mem[SlotOffset(i) + k]
    BY <2>3, <2>4
  <2> QED
    BY <1>3, <1>5, <2>5, <2>8, <2>9, <2>10, StoreSound
<1> QED
  BY <1>10, <1>11, <1>12, <1>13

\* The message is counted: the oldest one gives way to it.
LEMMA AdvanceSound ==
    ASSUME TypeInv, SoundInv, NEW t \in Writers, Frame(t), Advance(t)
    PROVE  SoundInv'
<1>1. /\ RingInv /\ TellsInv /\ HistInv /\ LocalTypes /\ AtWork(t) /\ WriterInv(t)
      /\ \A u \in Readers : LooksAt(u)
      /\ Len(sent) \in Nat /\ msgIdx \in Nat /\ t \in Threads
      /\ NumSlots \in Nat /\ msgIdx = Len(hist)
  BY HistoryAssumption DEF SoundInv, TypeInv, HistInv, Threads
<1>2. /\ pc[t] = "advance" /\ pc'[t] = "release" /\ msgIdx' = msgIdx + 1
      /\ hist' = Append(hist, msg[t]) /\ UNCHANGED <<mem, holds, sent>>
  BY <1>1 DEF Advance, Goto, LocalTypes, mutex
<1>3. /\ t \in holds /\ idx[t] = msgIdx /\ HoldsMessage(PublishSlot(msgIdx), msg[t])
      /\ msg[t] \in 1..Len(sent)
  BY <1>1, <1>2 DEF AtWork, WriterInv, Writing
<1>4. hist'[msgIdx + 1] = msg[t] /\ \A j \in 1..msgIdx : hist'[j] = hist[j]
  BY <1>1, <1>2 DEF HistInv
<1>5. RingInv'
  <2>1. ASSUME NEW m \in 0..msgIdx, m + NumSlots >= msgIdx + 1 PROVE Kept(m)'
    <3>1. CASE m = msgIdx
      BY <1>2, <1>3, <1>4, <3>1 DEF Kept, HoldsMessage
    <3>2. CASE m # msgIdx
      <4>1. m \in 0..msgIdx-1 /\ m + 1 \in 1..msgIdx
        BY <1>1, <3>2
      <4>2. Kept(m)
        BY <1>1, <2>1, <4>1 DEF RingInv
      <4> QED
        BY <1>2, <1>4, <4>1, <4>2 DEF Kept, HoldsMessage
    <3> QED
      BY <3>1, <3>2
  <2>2. \A m \in 0..msgIdx'-1 : m \in 0..msgIdx
    BY <1>1, <1>2
  <2>3. \A m \in 0..msgIdx : m + NumSlots >= msgIdx' => m + NumSlots >= msgIdx + 1
    BY <1>2
  <2>4. \A m \in 0..msgIdx : m + NumSlots >= msgIdx' + 1 => m + NumSlots >= msgIdx + 1
    BY <1>1, <1>2
  <2> QED
    BY <2>1, <2>2, <2>3, <2>4 DEF RingInv
<1>6. TellsInv'
  <2> SUFFICES ASSUME NEW i \in 0..NumSlots-1, i < msgIdx + 1
               PROVE  Tells(i)' /\ mem[SlotOffset(i)].end <= EndTime(Len(sent))
    BY <1>2 DEF TellsInv
  <2>1. CASE i < msgIdx
    BY <1>1, <1>2, <2>1 DEF TellsInv, Tells
  <2>2. CASE i = msgIdx
    <3>1. msgIdx < NumSlots
      BY <1>1, <2>2
    <3>2. PublishSlot(msgIdx) = i
      BY <1>1, <2>2, <3>1, PublishSlotOf
    <3>3. HoldsMessage(i, msg[t])
      BY <1>3, <3>2
    <3>4. EndTime(msg[t]) <= EndTime(Len(sent))
      BY <1>1, <1>3 DEF EndTime
    <3> QED
      BY <1>2, <1>3, <3>3, <3>4 DEF HoldsMessage, Tells
  <2> QED
    BY <1>1, <2>1, <2>2
<1>7. AtWork(t)'
  BY <1>2, <1>3 DEF AtWork, Writing
<1>8. ASSUME NEW u \in Writers, u # t PROVE AtWork(u)'
  BY <1>3, <1>8, OthersOut
<1>9. ASSUME NEW u \in Readers PROVE LooksAt(u)'
  <2>1. /\ LooksAt(u) /\ pc'[u] = pc[u] /\ idx'[u] = idx[u] /\ size'[u] = size[u]
        /\ pos'[u] = pos[u] /\ got'[u] = got[u] /\ idx[u] \in Nat
        /\ pc[u] \in Reading => idx[u] >= 1
    BY <1>1, HistoryAssumption DEF Frame, Threads, LocalTypes, TypeInv, ReaderInv
  <2>2. pc[u] \in Reading => idx[u] <= msgIdx'
    BY <1>1, <1>2, <2>1 DEF LooksAt
  <2>3. pc[u] \in Reading => hist'[idx[u]] = hist[idx[u]]
    BY <1>1, <1>4, <2>1 DEF LooksAt
  <2>4. msgIdx' < idx[u] - 1 + NumSlots => msgIdx < idx[u] - 1 + NumSlots
    BY <1>1, <1>2, <2>1
  <2> QED
    BY <1>2, <2>1, <2>2, <2>3, <2>4 DEF LooksAt
<1> QED
  BY <1>5, <1>6, <1>7, <1>8, <1>9 DEF SoundInv

\* The mutex is given back, or stays locked as release() raises, with all of the
\* history in place.
LEMMA ReleaseSound ==
    ASSUME TypeInv, SoundInv, NEW t \in Writers, Frame(t), Release(t)
    PROVE  SoundInv'
<1>1. /\ RingInv /\ TellsInv /\ LocalTypes /\ AtWork(t)
      /\ \A u \in Readers : LooksAt(u)
      /\ t \in Threads
  BY DEF SoundInv, TypeInv, Threads
<1>2. /\ pc[t] = "release" /\ pc'[t] \in {"py", "clear"}
      /\ t \in holds /\ holds' \in {{}, holds}
      /\ UNCHANGED <<mem, msgIdx, sent, hist>>
  BY <1>1 DEF Release, L!Release, AtWork, Goto, LocalTypes, ghost
<1>3. RingInv'
  BY <1>1, <1>2 DEF RingInv, Kept, HoldsMessage
<1>4. TellsInv'
  BY <1>1, <1>2 DEF TellsInv, Tells
<1>5. AtWork(t)'
  BY <1>2 DEF AtWork, Writing
<1>6. ASSUME NEW u \in Writers, u # t PROVE AtWork(u)'
  BY <1>2, <1>6, OthersOut
<1>7. ASSUME NEW u \in Readers PROVE LooksAt(u)'
  <2>1. /\ LooksAt(u) /\ pc'[u] = pc[u] /\ idx'[u] = idx[u] /\ size'[u] = size[u]
        /\ pos'[u] = pos[u] /\ got'[u] = got[u]
    BY <1>1, HistoryAssumption DEF Frame, Threads
  <2> QED
    BY <1>2, <2>1 DEF LooksAt
<1> QED
  BY <1>3, <1>4, <1>5, <1>6, <1>7 DEF SoundInv

-----------------------------------------------------------------------------
(* The theorems *)

HistoryInv == TypeInv /\ MakingInv /\ (health = "sound" => SoundInv)

\* A buffer that a create() has just made by itself is sound, and so is one
\* that was before the step of a writer or of a reader.
LEMMA StepSound ==
    ASSUME HistoryInv, NEW t \in Threads, Frame(t), SentGrows, TypeInv', MakingInv',
           (t \in Writers /\ WriterStep(t)) \/ (t \in Readers /\ ReaderStep(t)),
           health' = "sound"
    PROVE  SoundInv'
<1>1. /\ TypeInv /\ MakingInv /\ LocalTypes /\ HistInv
      /\ pc \in [Threads -> WriterLabels \cup ReaderLabels]
  BY DEF HistoryInv, TypeInv, LocalTypes
<1>2. CASE health # "sound"
  <2>1. t \in Writers /\ CreateMeta(t) /\ health = "making"
    BY <1>2 DEF WriterStep, ReaderStep, CreateMagic, CreateFields, CreateIndex, CreateMutex,
                CreateMeta, Attach, Die, Publish, Acquire, EnterWith, Meets, WriteSize,
                WriteStart, WriteData, WriteEnd, Advance, Release, ClearOwner, GetLatest,
                ReadSize, ReadData, ReadEnd, Return, ghost
  <2>2. pc[t] = "meta" /\ pc'[t] = "py" /\ UNCHANGED <<msgIdx, holds, hist>>
    BY <1>1, <2>1 DEF CreateMeta, Goto, mutex
  <2>3. hist = <<>> /\ holds = {} /\ \A u \in Threads \ {t} : ~Inside(u)
    BY <1>1, <2>1, <2>2 DEF MakingInv, Creating, Inside
  <2>4. msgIdx' = 0
    BY <1>1, <2>2, <2>3 DEF HistInv
  <2>5. \A u \in Threads : pc'[u] \in {"out", "py", "acquire", "clear", "dead"}
    BY <2>2, <2>3 DEF Frame, Inside
  <2>6. RingInv' /\ TellsInv'
    BY <2>4, HistoryAssumption DEF RingInv, TellsInv
  <2>7. \A u \in Writers : AtWork(u)'
    BY <2>5 DEF AtWork, Writing, Threads
  <2>8. \A u \in Readers : LooksAt(u)'
    BY <2>5 DEF LooksAt, Reading, Threads
  <2> QED
    BY <2>6, <2>7, <2>8 DEF SoundInv
<1>3. CASE health = "sound"
  <2>1. SoundInv /\ ~Creating(t)
    BY <1>1, <1>3 DEF HistoryInv, MakingInv
  <2>2. CASE t \in Readers /\ ReaderStep(t)
    BY <1>1, <2>1, <2>2, ReaderSound
  <2>3. CASE t \in Writers /\ WriterStep(t)
    <3>1. ~(CreateMagic(t) \/ CreateFields(t) \/ CreateIndex(t) \/ CreateMutex(t)
            \/ CreateMeta(t))
      BY <2>1 DEF CreateMagic, CreateFields, CreateIndex, CreateMutex, CreateMeta, Creating
    <3>2. CASE Attach(t) \/ Die(t) \/ Publish(t) \/ ClearOwner(t)
      <4>1. t \notin Readers
        BY <2>3, HistoryAssumption
      <4>2. /\ UNCHANGED <<mem, msgIdx, holds, sent, hist>>
            /\ pc'[t] \notin Writing \cup {"release"}
        BY <1>1, <3>2 DEF Attach, Die, Publish, ClearOwner, Goto, Writing, shared, mutex,
                             ghost
      <4> QED
        BY <1>1, <2>1, <4>1, <4>2, AloofSound
    <3>3. CASE Acquire(t) \/ Advance(t) \/ Release(t)
      BY <1>1, <2>1, <2>3, <3>3, AcquireSound, AdvanceSound, ReleaseSound
    <3>4. CASE WriteSize(t) \/ WriteStart(t) \/ WriteData(t) \/ WriteEnd(t)
      BY <1>1, <2>1, <2>3, <3>4, WriteSound
    <3> QED
      BY <2>3, <3>1, <3>2, <3>3, <3>4 DEF WriterStep
  <2> QED
    BY <2>2, <2>3
<1> QED
  BY <1>2, <1>3

\* The segment as ftruncate() leaves it.
LEMMA InitHistory ==
    ASSUME Init
    PROVE  HistoryInv
<1> USE HistoryAssumption
<1>1. MemInv
  <2>1. mem \in [0..TotalUnits-1 -> Units]
    BY DEF Init, EmptyHeader, Units, Headers
  <2>2. ASSUME NEW i \in 0..NumSlots-1 PROVE mem[SlotOffset(i)] \in Headers
    <3>1. SlotOffset(i) \in 0..TotalUnits-1 /\ i \in Nat
      BY SlotInside
    <3>2. mem[SlotOffset(i)] = EmptyHeader
      BY <3>1, HeaderUnit DEF Init
    <3> QED
      BY <3>2 DEF EmptyHeader, Headers
  <2> QED
    BY <2>1, <2>2 DEF MemInv
<1>2. HistInv /\ SharedTypes
  BY DEF Init, HistInv, SharedTypes, L!Init
<1>3. LocalTypes
  BY DEF Init, LocalTypes, WriterLabels
<1>4. /\ \A t \in Writers : WriterInv(t)
      /\ \A t \in Readers : ReaderInv(t)
  BY DEF Init, WriterInv, ReaderInv, WriterLabels, ReaderLabels, Writing, Reading, Threads
<1>5. MakingInv
  BY DEF Init, MakingInv, Creating
<1>6. RingInv /\ TellsInv
  BY DEF Init, RingInv, TellsInv
<1>7. /\ \A t \in Writers : AtWork(t)
      /\ \A t \in Readers : LooksAt(t)
  BY DEF Init, AtWork, LooksAt, Writing, Reading, Threads
<1> QED
  BY <1>1, <1>2, <1>3, <1>4, <1>5, <1>6, <1>7 DEF HistoryInv, TypeInv, SoundInv

\* The invariant of the buffer.
LEMMA HistoryInvariant == Spec => []HistoryInv
<1>1. HistoryInv /\ [Next]_vars => HistoryInv'
  <2> SUFFICES ASSUME HistoryInv, [Next]_vars PROVE HistoryInv'
    OBVIOUS
  <2>1. ASSUME NEW t \in Threads,
               (t \in Writers /\ WriterStep(t)) \/ (t \in Readers /\ ReaderStep(t))
        PROVE  HistoryInv'
    <3>1. TypeInv' /\ Frame(t) /\ SentGrows
      BY <2>1, StepTypes DEF HistoryInv
    <3>2. MakingInv'
      BY <2>1, <3>1, StepMaking DEF HistoryInv
    <3> QED
      BY <2>1, <3>1, <3>2, StepSound DEF HistoryInv
  <2>2. CASE UNCHANGED vars
    <3>1. UNCHANGED <<stored, mem, msgIdx, holds, pc, idx, size, pos, got, msg, sent, hist,
                      health>>
      BY <2>2 DEF vars, shared, mutex, local, ghost
    <3>2. TypeInv <=> TypeInv'
      BY <3>1 DEF TypeInv, MemInv, HistInv, SharedTypes, LocalTypes, WriterInv, ReaderInv
    <3>3. MakingInv <=> MakingInv'
      BY <3>1 DEF MakingInv, Creating, Inside
    <3>4. RingInv /\ TellsInv <=> RingInv' /\ TellsInv'
      BY <3>1 DEF RingInv, Kept, HoldsMessage, TellsInv, Tells
    <3>5. /\ \A t \in Writers : AtWork(t) <=> AtWork(t)'
          /\ \A t \in Readers : LooksAt(t) <=> LooksAt(t)'
      BY <3>1 DEF AtWork, HoldsMessage, LooksAt
    <3> QED
      BY <3>1, <3>2, <3>3, <3>4, <3>5 DEF HistoryInv, SoundInv
  <2> QED
    BY <2>1, <2>2 DEF Next, Threads
<1> QED
  BY <1>1, InitHistory, PTL DEF Spec

\* In a buffer that no create() has spoilt the slots hold the last num_slots
\* messages, one less while one is being replaced: for any number of writers,
\* whichever of them die and whatever the readers do.
THEOREM HistoryAlwaysIntact == Spec => []HistoryIntact
<1>1. HistoryInv => HistoryIntact
  <2> SUFFICES ASSUME HistoryInv, health = "sound", NEW m \in 0..msgIdx-1,
                      m + NumSlots >= msgIdx + (IF Replacing THEN 1 ELSE 0)
               PROVE  HoldsMessage(PublishSlot(m), hist[m + 1])
    BY DEF HistoryIntact
  <2>1. RingInv /\ msgIdx \in Nat
    BY DEF HistoryInv, SoundInv, TypeInv, HistInv
  <2> QED
    BY <2>1 DEF RingInv, Replacing, Kept
<1> QED
  BY <1>1, HistoryInvariant, PTL

\* get_latest() returns the message that was the latest when it looked, whole
\* and of its size, unless the writers have gone round the ring meanwhile.
THEOREM LatestIsWhole == Spec => []LatestUnlessLapped
<1>1. HistoryInv => LatestUnlessLapped
  <2> SUFFICES ASSUME HistoryInv, health = "sound", NEW t \in Readers,
                      pc[t] = "returned", msgIdx < idx[t] - 1 + NumSlots
               PROVE  got[t] = Payload(hist[idx[t]])
    BY DEF LatestUnlessLapped
  <2>1. /\ LooksAt(t) /\ got[t] \in Seq(Units)
    BY DEF HistoryInv, SoundInv, TypeInv, LocalTypes, Threads
  <2>2. /\ Len(got[t]) = sent[hist[idx[t]]]
        /\ \A k \in 1..sent[hist[idx[t]]] : got[t][k] = hist[idx[t]]
    BY <2>1 DEF LooksAt, Reading
  <2> QED
    BY <2>1, <2>2 DEF Payload
<1> QED
  BY <1>1, HistoryInvariant, PTL

\* The versions of a slot that has been published tell whether its payload is
\* that of one message, at every step of a writer and wherever it dies.
THEOREM VersionsAlwaysTell == Spec => []VersionsTell
<1>1. HistoryInv => VersionsTell
  BY DEF HistoryInv, SoundInv, TellsInv, Tells, VersionsTell
<1> QED
  BY <1>1, HistoryInvariant, PTL
=============================================================================
