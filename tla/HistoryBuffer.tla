--------------------------- MODULE HistoryBuffer ---------------------------
(***************************************************************************)
(* NamedHistoryBuffer: a ring of slots in shared memory, written under the *)
(* embedded mutex and read without it.  The mutex is the lock of module    *)
(* Lock, which Mutex implements, with the owner word that release() looks  *)
(* at; each thread is a process of its own.                                *)
(*                                                                         *)
(* The area behind the buffer's header is `mem', in units of one cache     *)
(* line: each slot has a unit for its SlotHeader and SlotUnits for the     *)
(* payload, which are copied one at a time; the last unit is the room that *)
(* create() makes for the metadata and does not use.  Messages are         *)
(* numbered as they are begun, and a payload unit is the number of the     *)
(* message it belongs to.                                                  *)
(*                                                                         *)
(* Every create() of the name has the same sizes; the segment itself is    *)
(* the matter of SharedMemory and is never unlinked here, as in the code   *)
(* (try_cleanup_on_exit=False).  Left out: get_latest(copy=False).         *)
(***************************************************************************)
EXTENDS Integers, Sequences

CONSTANTS
    Writers,      \* processes that call create() and publish()
    Readers,      \* processes that call get_latest()
    NumSlots,     \* num_slots
    SlotUnits,    \* slot_size
    Sizes,        \* sizes of the data given to publish()
    HasMeta,      \* create() is given metadata, of up to one unit
    MaxMsgs,      \* bound: messages begun in all
    MaxSpoilt,    \* bound: messages after which none is begun if it is spoilt
    MaxCreates    \* bound: calls of create()

ASSUME HistoryAssumption ==
    /\ Writers \cap Readers = {}
    /\ NumSlots \in Nat \ {0} /\ SlotUnits \in Nat
    /\ Sizes \subseteq Nat /\ HasMeta \in BOOLEAN
    /\ {MaxMsgs, MaxSpoilt, MaxCreates} \subseteq Nat

VARIABLES
    stored,       \* header fields: 0 none, 1 the magic number, 2 all
    mem,          \* the shared area
    msgIdx,       \* msg_idx of the header
    holds,        \* who holds the writers' mutex
    owner,        \* the owner word of the mutex
    pc,           \* where each thread is
    idx,          \* msg_idx as the thread loaded it
    size,         \* len(data) in publish(), slot_header.size in get_latest()
    pos,          \* units copied so far
    got,          \* what get_latest() copied out
    msg,          \* the number of the message a writer is at
    sent,         \* history: sizes of the messages begun, by number
    hist,         \* history: messages published since msg_idx was reset
    creates,      \* calls of create() so far
    health        \* history: "sound", "making" while a create() runs by
                  \* itself, "spoilt" once it ran beside another call or died

mutex  == <<holds, owner>>
shared == <<stored, mem, msgIdx, mutex>>
local  == <<pc, idx, size, pos, got, msg>>
ghost  == <<sent, hist, creates, health>>
vars   == <<shared, local, ghost>>

Threads == Writers \cup Readers

L == INSTANCE Lock WITH Threads <- Writers

\* calc_slot_offset(), from the end of the header.
SlotOffset(i) == i * (1 + SlotUnits)
PayloadOffset(i) == SlotOffset(i) + 1

\* calc_total_size(), less the header.
TotalUnits == SlotOffset(NumSlots) + 1

\* calc_meta_offset(), from the end of the header.
MetaOffset == 0

PublishSlot(m) == m % NumSlots

LatestSlotOffByOne(m) == m % NumSlots

LatestSlot(m) == (m - 1) % NumSlots

\* The SlotHeader of a slot not yet written.
EmptyHeader == [size |-> 0, start |-> 0, end |-> 0]

\* monotonic_ns() before and after message m is written: under the mutex each
\* reading is later than those before it.
StartTime(m) == 2 * m
EndTime(m) == 2 * m + 1

\* The bytes of the metadata, where a SlotHeader is read from them: as numbers
\* they are larger than any size and any time.
Meta == [size |-> TotalUnits, start |-> 2 * MaxMsgs + 2, end |-> 2 * MaxMsgs + 2]

\* No PID in the owner word.
NoOwner == "none"

Goto(t, label) == pc' = [pc EXCEPT ![t] = label]

\* Thread t is at work on the buffer: creating, writing or reading it.  One that
\* is killed elsewhere is a thread that takes no more steps.
Creating(t) == pc[t] \in {"fields", "index", "zero", "force", "meta"}
Inside(t) == pc[t] \notin {"out", "py", "acquire", "clear", "dead"}

\* The local variables of a call that is over.
Forget(t) ==
    /\ idx' = [idx EXCEPT ![t] = 0] /\ size' = [size EXCEPT ![t] = 0]
    /\ pos' = [pos EXCEPT ![t] = 0] /\ msg' = [msg EXCEPT ![t] = 0]

\* A call begins that a create() still running would spoil.
Meets == health' = IF \E u \in Threads : Creating(u) THEN "spoilt" ELSE health

\* The segment as ftruncate() leaves it.
Init ==
    /\ stored = 0
    /\ mem = [o \in 0..TotalUnits-1 |->
                IF o % (1 + SlotUnits) = 0 THEN EmptyHeader ELSE 0]
    /\ msgIdx = 0
    /\ L!Init /\ owner = NoOwner
    /\ pc = [t \in Threads |-> "out"]
    /\ idx = [t \in Threads |-> 0]
    /\ size = [t \in Threads |-> 0]
    /\ pos = [t \in Threads |-> 0]
    /\ got = [t \in Threads |-> <<>>]
    /\ msg = [t \in Threads |-> 0]
    /\ sent = <<>> /\ hist = <<>>
    /\ creates = 0 /\ health = "sound"

-----------------------------------------------------------------------------
(* create() and __init__() *)

\* create() of a name, whether there is such a buffer or not.  One that runs by
\* itself makes good what earlier ones have spoilt.
CreateMagic(t) ==
    /\ pc[t] \in {"out", "py"}
    /\ creates < MaxCreates
    /\ creates' = creates + 1
    /\ health' = IF \E u \in Threads \ {t} : Inside(u) THEN "spoilt" ELSE "making"
    /\ stored' = IF stored = 0 THEN 1 ELSE stored
    /\ Goto(t, "fields")
    /\ UNCHANGED <<mem, msgIdx, mutex, idx, size, pos, got, msg, sent, hist>>

\* meta_size, num_slots and slot_size.  They are one step: a publish() between
\* two of them runs beside a create(), and whatever it leaves in a slot is
\* written anew before that slot is published in a sound buffer.
CreateFields(t) ==
    /\ pc[t] = "fields"
    /\ stored' = 2
    /\ Goto(t, "index")
    /\ UNCHANGED <<mem, msgIdx, mutex, idx, size, pos, got, msg, ghost>>

CreateIndex(t) ==
    /\ pc[t] = "index"
    /\ msgIdx' = 0
    /\ hist' = <<>>
    /\ Goto(t, "zero")
    /\ UNCHANGED <<stored, mem, mutex, idx, size, pos, got, msg, sent, creates, health>>

\* 64 zero bytes over the mutex, then force_release().
CreateMutex(t) ==
    /\ \/ pc[t] = "zero" /\ Goto(t, "force")
       \/ pc[t] = "force" /\ Goto(t, "meta")
    /\ holds' = {} /\ owner' = NoOwner
    /\ UNCHANGED <<stored, mem, msgIdx, idx, size, pos, got, msg, ghost>>

CreateMeta(t) ==
    /\ pc[t] = "meta"
    /\ mem' = IF HasMeta THEN [mem EXCEPT ![MetaOffset] = Meta] ELSE mem
    /\ health' = IF health = "making" THEN "sound" ELSE health
    /\ Goto(t, "py")
    /\ UNCHANGED <<stored, msgIdx, mutex, idx, size, pos, got, msg, sent, hist, creates>>

\* NamedHistoryBuffer(name); it raises if the magic number is not there.
Attach(t) ==
    /\ pc[t] = "out"
    /\ stored >= 1
    /\ Goto(t, "py")
    /\ UNCHANGED <<shared, idx, size, pos, got, msg, ghost>>

\* The process is killed.  What it has stored stays, and so does its lock.
Die(t) ==
    /\ Inside(t)
    /\ Goto(t, "dead")
    /\ health' = IF Creating(t) THEN "spoilt" ELSE health
    /\ Forget(t)
    /\ UNCHANGED <<shared, got, sent, hist, creates>>

-----------------------------------------------------------------------------
(* publish() *)

\* Data larger than slot_size is refused with ValueError.
Publish(t) ==
    /\ pc[t] = "py"
    /\ \E n \in {s \in Sizes : s <= (IF stored = 2 THEN SlotUnits ELSE 0)} :
          size' = [size EXCEPT ![t] = n]
    /\ Goto(t, "acquire")
    /\ UNCHANGED <<shared, idx, pos, got, msg, ghost>>

\* msg_idx is loaded.  The division by num_slots fails if it is still 0.
EnterWith(t, locked) ==
    /\ pc[t] = "acquire"
    /\ Len(sent) < (IF health = "spoilt" THEN MaxSpoilt ELSE MaxMsgs)
    /\ locked /\ owner' = t
    /\ idx' = [idx EXCEPT ![t] = msgIdx]
    /\ \/ /\ stored = 2
          /\ msg' = [msg EXCEPT ![t] = Len(sent) + 1]
          /\ sent' = Append(sent, size[t])
          /\ Goto(t, "write_size")
       \/ /\ stored < 2
          /\ Goto(t, "release")
          /\ UNCHANGED <<msg, sent>>
    /\ Meets
    /\ UNCHANGED <<stored, mem, msgIdx, size, pos, got, hist, creates>>

AcquireUnlocked(t) == EnterWith(t, holds' = {t})

Acquire(t) == EnterWith(t, L!Acquire(t))

\* The SlotHeader of the slot being written.
WriteField(t, hdr) == mem' = [mem EXCEPT ![SlotOffset(PublishSlot(idx[t]))] = hdr]
Slot(t) == mem[SlotOffset(PublishSlot(idx[t]))]

WriteSize(t) ==
    /\ pc[t] = "write_size"
    /\ WriteField(t, [Slot(t) EXCEPT !.size = size[t]])
    /\ Goto(t, "write_start")
    /\ UNCHANGED <<stored, msgIdx, mutex, idx, size, pos, got, msg, ghost>>

WriteStartBoth(t) ==
    /\ pc[t] = "write_start"
    /\ WriteField(t, [Slot(t) EXCEPT !.start = StartTime(msg[t]), !.end = EndTime(msg[t])])
    /\ Goto(t, "write_data")
    /\ UNCHANGED <<stored, msgIdx, mutex, idx, size, pos, got, msg, ghost>>

WriteStart(t) ==
    /\ pc[t] = "write_start"
    /\ WriteField(t, [Slot(t) EXCEPT !.start = StartTime(msg[t])])
    /\ Goto(t, "write_data")
    /\ UNCHANGED <<stored, msgIdx, mutex, idx, size, pos, got, msg, ghost>>

WriteData(t) ==
    /\ pc[t] = "write_data"
    /\ pos[t] < size[t]
    /\ mem' = [mem EXCEPT ![PayloadOffset(PublishSlot(idx[t])) + pos[t]] = msg[t]]
    /\ pos' = [pos EXCEPT ![t] = @ + 1]
    /\ UNCHANGED <<stored, msgIdx, mutex, pc, idx, size, got, msg, ghost>>

WriteEnd(t) ==
    /\ pc[t] = "write_data"
    /\ pos[t] = size[t]
    /\ WriteField(t, [Slot(t) EXCEPT !.end = EndTime(msg[t])])
    /\ Goto(t, "advance")
    /\ UNCHANGED <<stored, msgIdx, mutex, idx, size, pos, got, msg, ghost>>

\* self._header.msg_idx += 1
Advance(t) ==
    /\ pc[t] = "advance"
    /\ msgIdx' = msgIdx + 1
    /\ hist' = Append(hist, msg[t])
    /\ Goto(t, "release")
    /\ UNCHANGED <<stored, mem, mutex, idx, size, pos, got, msg, sent, creates, health>>

\* release() raises if the owner word is not its own: a create() has taken the
\* mutex away, or the release() before has cleared the word late, and then the
\* mutex stays locked.
Release(t) ==
    /\ pc[t] = "release"
    /\ \/ owner = t /\ L!Release(t) /\ Goto(t, "clear")
       \/ owner # t /\ UNCHANGED holds /\ Goto(t, "py")
    /\ Forget(t)
    /\ UNCHANGED <<stored, mem, msgIdx, owner, got, ghost>>

\* The owner word is cleared after the mutex is free, whoever has it by then.
ClearOwner(t) ==
    /\ pc[t] = "clear"
    /\ owner' = NoOwner
    /\ Goto(t, "py")
    /\ UNCHANGED <<stored, mem, msgIdx, holds, idx, size, pos, got, msg, ghost>>

-----------------------------------------------------------------------------
(* get_latest(copy=True) *)

\* ValueError before the first message.
GetLatest(t) ==
    /\ pc[t] = "py"
    /\ msgIdx # 0
    /\ idx' = [idx EXCEPT ![t] = msgIdx]
    /\ Goto(t, "read_size")
    /\ Meets
    /\ UNCHANGED <<shared, size, pos, got, msg, sent, hist, creates>>

\* The slice ends with the buffer, whatever the size says.
ReadSize(t) ==
    /\ pc[t] = "read_size"
    /\ LET i == LatestSlot(idx[t])
           room == TotalUnits - PayloadOffset(i)
           n == mem[SlotOffset(i)].size
       IN  size' = [size EXCEPT ![t] = IF n < room THEN n ELSE room]
    /\ Goto(t, "read_data")
    /\ UNCHANGED <<shared, idx, pos, got, msg, ghost>>

ReadData(t) ==
    /\ pc[t] = "read_data"
    /\ pos[t] < size[t]
    /\ got' = [got EXCEPT ![t] =
                 Append(@, mem[PayloadOffset(LatestSlot(idx[t])) + pos[t]])]
    /\ pos' = [pos EXCEPT ![t] = @ + 1]
    /\ UNCHANGED <<shared, pc, idx, size, msg, ghost>>

\* tobytes() is complete.
ReadEnd(t) ==
    /\ pc[t] = "read_data"
    /\ pos[t] = size[t]
    /\ Goto(t, "returned")
    /\ UNCHANGED <<shared, idx, size, pos, got, msg, ghost>>

Return(t) ==
    /\ pc[t] = "returned"
    /\ got' = [got EXCEPT ![t] = <<>>]
    /\ Goto(t, "py")
    /\ Forget(t)
    /\ UNCHANGED <<shared, ghost>>

-----------------------------------------------------------------------------

WriterStep(t) ==
    \/ CreateMagic(t) \/ CreateFields(t) \/ CreateIndex(t) \/ CreateMutex(t)
    \/ CreateMeta(t) \/ Attach(t) \/ Die(t)
    \/ Publish(t) \/ Acquire(t) \/ WriteSize(t) \/ WriteStart(t) \/ WriteData(t)
    \/ WriteEnd(t) \/ Advance(t) \/ Release(t) \/ ClearOwner(t)

ReaderStep(t) ==
    \/ Attach(t)
    \/ GetLatest(t) \/ ReadSize(t) \/ ReadData(t) \/ ReadEnd(t) \/ Return(t)

Next == (\E t \in Writers : WriterStep(t)) \/ (\E t \in Readers : ReaderStep(t))

Spec == Init /\ [][Next]_vars

-----------------------------------------------------------------------------
(* Properties *)

\* What message m consists of.
Payload(m) == [i \in 1..sent[m] |-> m]

\* Message m is in slot i, whole, and its versions say so.
HoldsMessage(i, m) ==
    LET h == mem[SlotOffset(i)] IN
    /\ h.size = sent[m] /\ h.start = StartTime(m) /\ h.end = EndTime(m)
    /\ \A k \in 1..sent[m] : mem[SlotOffset(i) + k] = m

\* The oldest message is being replaced, or just has been and is counted still.
Replacing == holds # {}

\* The slots hold the last num_slots messages since the buffer was created,
\* one less while a writer is at work or has died there, each in the slot of
\* its number: concurrent publish() calls neither mix their payloads nor skip
\* or reuse a slot, unless a create() ran beside them.
HistoryIntact ==
    health = "sound" => \A m \in 0..msgIdx-1 :
        m + NumSlots >= msgIdx + (IF Replacing THEN 1 ELSE 0)
            => HoldsMessage(PublishSlot(m), hist[m + 1])

\* get_latest() returns the message that was the latest when it looked, unless
\* the writers have gone round the ring meanwhile or the buffer was created
\* anew under it.
LatestUnlessLapped ==
    health = "sound" => \A t \in Readers :
        pc[t] = "returned" /\ msgIdx < idx[t] - 1 + NumSlots
            => got[t] = Payload(hist[idx[t]])

\* A slot whose payload is not all of one message has a start_version newer
\* than its end_version: the versions would show a reader what it must not use.
\* The size is not covered, it is stored before start_version.  A slot counts
\* once it is published: the metadata reads as versions of slot 0.
VersionsTell ==
    health = "sound" => \A i \in 0..NumSlots-1 :
        LET h == mem[SlotOffset(i)] IN
        i < msgIdx /\ h.start < h.end =>
            \E m \in 1..Len(sent) :
                /\ h.end = EndTime(m)
                /\ \A k \in 1..sent[m] : mem[SlotOffset(i) + k] = m
=============================================================================
