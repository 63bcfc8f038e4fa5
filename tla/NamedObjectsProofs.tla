------------------------- MODULE NamedObjectsProofs -------------------------
(***************************************************************************)
(* Proofs about NamedObjects for any number of handles and processes.      *)
(***************************************************************************)
EXTENDS NamedObjects, SharedMemoryProofs, FiniteSetTheorems, TLAPS

\* `created' is never taken back.
LEMMA CreatedStays ==
    ASSUME NEW h \in Handles, Step(h)
    PROVE  created \subseteq created'
BY DEF Step, New, Open, Create, Truncate, Stat, Register, Detach, CallClose, CloseClean,
       CloseRemove, CloseCheck, CloseUnlink, CloseRmdir, CloseDetach

\* A handle that stores its header leaves the other segments and what has been
\* created alone.
LEMMA StoreKeeps ==
    ASSUME NEW h, NEW H, NEW label, Store(h, H, label)
    PROVE  /\ created' = created
           /\ tail' = [tail EXCEPT ![h] = label] /\ late' = late
           /\ \A s \in DOMAIN hdr : s # fd[h] => hdr'[s] = hdr[s]
           /\ \A s \in DOMAIN hdr : s = fd[h] => hdr'[s] = H
BY DEF Store, vars

-----------------------------------------------------------------------------
(* The segment under a named object *)

\* A constructor of a named object and a use of it do nothing to the segment
\* but store in it: each of their steps is a step of the segment, or none.
LEMMA NamedStepStutters ==
    ASSUME NEW h \in Handles, NamedStep(h)
    PROVE  UNCHANGED vars /\ UNCHANGED <<kind, late>>
BY DEF NamedStep, MutexForceRelease, MutexZero, SemaphoreInitial, EventClear, Attach,
       QueueExists, QueueMagic, QueueMode, Use, Store

\* So what is proved of the segment (OneCreatorAlways, NothingLeft,
\* OneSegmentAlways and UnlinkLast) holds under the named objects.
LEMMA NamedIsSegment == NamedSpec => CrashSpec
<1>1. NamedInit => Init
  BY DEF NamedInit
<1>2. [NamedNext]_allVars => [CrashNext]_vars
  <2> SUFFICES ASSUME [NamedNext]_allVars PROVE [CrashNext]_vars
    OBVIOUS
  <2>1. ASSUME NEW h \in Handles, SegmentStep(h) PROVE CrashNext
    BY <2>1 DEF SegmentStep, CrashNext, Next
  <2>2. ASSUME NEW h \in Handles, NamedStep(h) PROVE UNCHANGED vars
    BY <2>2, NamedStepStutters
  <2>3. ASSUME NEW p \in Pids, Crash(p) PROVE CrashNext
    BY <2>3 DEF CrashNext
  <2>4. CASE UNCHANGED allVars
    BY <2>4 DEF allVars
  <2> QED
    BY <2>1, <2>2, <2>3, <2>4 DEF NamedNext
<1> QED
  BY <1>1, <1>2, PTL DEF NamedSpec, CrashSpec

\* So a named object leaves nothing behind when all of its handles are closed,
\* and no two handles of a segment were told that they created it.
THEOREM NamedNothingLeft == NamedSpec => [](NoLeak /\ OneCreator)
BY NamedIsSegment, NothingLeft, OneCreatorAlways, PTL

\* And with one handle for each process all those in use share the segment that
\* has the name, and it is not unlinked while one of them uses it.
THEOREM NamedOneSegment ==
    ASSUME OnePerProcess
    PROVE  NamedSpec => []OneSegment /\ UnlinkInTurn
BY NamedIsSegment, OneSegmentAlways, UnlinkLast, PTL

-----------------------------------------------------------------------------
(* There is a header for every segment *)

\* The handles that may yet make a segment.
MayCreate == {h \in Handles : \/ pc[h] \in {"new", "open", "create"}
                              \/ pc[h] = "stat" /\ h \notin created}

\* A handle makes one segment at most.
RoomInv == made + Cardinality(MayCreate) <= Cardinality(Handles)

\* No handle comes to be among those that may make a segment, and one that
\* makes it leaves them.
LEMMA StepMayCreate ==
    ASSUME CreatorInv, NEW h \in Handles, Step(h)
    PROVE  /\ MayCreate' \subseteq MayCreate
           /\ \/ made' = made
              \/ made' = made + 1 /\ h \in MayCreate /\ h \notin MayCreate'
<1> USE DEF CreatorInv, MayCreate, Labels, Constructing, Closing, Goto
<1>1. CASE New(h) \/ Open(h)
  BY <1>1 DEF New, Open
<1>2. CASE Create(h)
  BY <1>2 DEF Create, Retry
<1>3. CASE Truncate(h)
  BY <1>3 DEF Truncate
<1>4. CASE Stat(h)
  BY <1>4 DEF Stat, Retry
<1>5. CASE Register(h) \/ Detach(h) \/ CallClose(h) \/ CloseClean(h)
  BY <1>5 DEF Register, Detach, CallClose, CloseClean
<1>6. CASE CloseRemove(h) \/ CloseCheck(h) \/ CloseUnlink(h) \/ CloseRmdir(h)
           \/ CloseDetach(h)
  BY <1>6 DEF CloseRemove, CloseCheck, CloseUnlink, CloseRmdir, CloseDetach
<1> QED
  BY <1>1, <1>2, <1>3, <1>4, <1>5, <1>6 DEF Step

\* So the room that is left for them stays enough.
LEMMA RoomKept ==
    ASSUME RoomInv, made \in Nat, MayCreate' \subseteq MayCreate,
           \/ made' = made
           \/ /\ made' = made + 1
              /\ \E h \in Handles : h \in MayCreate /\ h \notin MayCreate'
    PROVE  RoomInv'
<1>1. IsFiniteSet(MayCreate) /\ IsFiniteSet(Handles)
  BY FS_Subset, NamedAssumption DEF MayCreate
<1>2. /\ IsFiniteSet(MayCreate')
      /\ Cardinality(MayCreate') <= Cardinality(MayCreate)
      /\ Cardinality(MayCreate') = Cardinality(MayCreate) => MayCreate' = MayCreate
  BY <1>1, FS_Subset
<1>3. /\ Cardinality(MayCreate) \in Nat /\ Cardinality(MayCreate') \in Nat
      /\ Cardinality(Handles) \in Nat
  BY <1>1, <1>2, FS_CardinalityType
<1>4. CASE made' = made
  BY <1>2, <1>3, <1>4 DEF RoomInv
<1>5. CASE made' = made + 1 /\ MayCreate' # MayCreate
  BY <1>2, <1>3, <1>5 DEF RoomInv
<1> QED
  BY <1>4, <1>5

-----------------------------------------------------------------------------
(* NamedQueue.create() *)

\* The headers, and the constructors past the segment, of the right types.
NamedTypes ==
    /\ tail \in [Handles -> Tails]
    /\ DOMAIN hdr = 1..Cardinality(Handles)

\* Whoever has stored the magic number of a queue, or all of its header, has
\* created the segment, and finds in it what it stored.
QueueInv ==
    kind = "queue" => \A h \in Handles :
        /\ tail[h] \in {"mode", "open"} => h \in created
        /\ tail[h] = "mode" /\ fd[h] # 0 => hdr[fd[h]] = {"magic"}
        /\ tail[h] = "open" /\ fd[h] # 0 => hdr[fd[h]] = {"magic", "mode"}

\* The invariant of the queue's constructors.
NamedInv == CreatorInv /\ RoomInv /\ NamedTypes /\ QueueInv

\* Every segment that a handle has open has a header.
LEMMA HeaderThere ==
    ASSUME NamedInv
    PROVE  \A u \in Handles : fd[u] # 0 => fd[u] \in DOMAIN hdr
<1>1. IsFiniteSet(MayCreate) /\ IsFiniteSet(Handles)
  BY FS_Subset, NamedAssumption DEF MayCreate
<1>2. Cardinality(MayCreate) \in Nat /\ Cardinality(Handles) \in Nat
  BY <1>1, FS_CardinalityType
<1>3. /\ \A u \in Handles : fd[u] \in Nat /\ fd[u] <= made
      /\ made \in Nat /\ made <= Cardinality(Handles)
  BY <1>2 DEF NamedInv, CreatorInv, RoomInv
<1> QED
  BY <1>2, <1>3 DEF NamedInv, NamedTypes

\* A handle that has created its segment takes no other.
LEMMA StepKeepsSegment ==
    ASSUME CreatorInv, NEW h \in Handles, Step(h)
    PROVE  \A u \in created : fd'[u] = fd[u] \/ fd'[u] = 0
<1> USE DEF CreatorInv
<1>1. CASE New(h) \/ Open(h) \/ Create(h) \/ Truncate(h) \/ Stat(h) \/ Register(h)
  BY <1>1 DEF New, Open, Create, Truncate, Stat, Register
<1>2. CASE Detach(h) \/ CallClose(h) \/ CloseClean(h) \/ CloseRemove(h) \/ CloseCheck(h)
           \/ CloseUnlink(h) \/ CloseRmdir(h) \/ CloseDetach(h)
  BY <1>2 DEF Detach, CallClose, CloseClean, CloseRemove, CloseCheck, CloseUnlink,
              CloseRmdir, CloseDetach
<1> QED
  BY <1>1, <1>2 DEF Step

\* A step of the segment keeps the invariant.
LEMMA SegmentStepNamed ==
    ASSUME NamedInv, NEW h \in Handles, SegmentStep(h)
    PROVE  NamedInv'
<1>1. Step(h) /\ UNCHANGED <<kind, hdr, tail>>
  BY DEF SegmentStep
<1>2. CreatorInv'
  BY <1>1, StepCreator DEF NamedInv
<1>3. RoomInv'
  BY <1>1, StepMayCreate, RoomKept DEF NamedInv, CreatorInv
<1>4. QueueInv'
  <2>1. created \subseteq created' /\ created \subseteq Handles
    BY <1>1, CreatedStays DEF NamedInv, CreatorInv
  <2>2. \A u \in created : fd'[u] = fd[u] \/ fd'[u] = 0
    BY <1>1, StepKeepsSegment DEF NamedInv
  <2> QED
    BY <1>1, <2>1, <2>2 DEF NamedInv, QueueInv
<1> QED
  BY <1>1, <1>2, <1>3, <1>4 DEF NamedInv, NamedTypes

\* So does a step of a constructor: another one that stores in the segment has
\* not created it, and leaves what is there.
LEMMA NamedStepNamed ==
    ASSUME NamedInv, NEW h \in Handles, NamedStep(h)
    PROVE  NamedInv'
<1>1. UNCHANGED vars /\ UNCHANGED <<kind, late>>
  BY NamedStepStutters
<1>2. CreatorInv' /\ RoomInv'
  BY <1>1 DEF NamedInv, CreatorInv, Maker, RoomInv, MayCreate, vars
<1>3. PICK H, label : label \in Tails /\ Store(h, H, label)
  BY DEF NamedStep, MutexForceRelease, MutexZero, SemaphoreInitial, EventClear, Attach,
         QueueExists, QueueMagic, QueueMode, Use, Tails
<1>4. NamedTypes'
  BY <1>3 DEF NamedInv, NamedTypes, Store
<1>5. ASSUME kind = "queue" PROVE QueueInv'
  <2>2. \A u \in Handles : fd[u] # 0 => fd[u] \in DOMAIN hdr
    BY HeaderThere
  <2>3. \A u \in created : h \in created /\ fd[h] # 0 /\ fd[h] = fd[u] => h = u
    BY DEF NamedInv, CreatorInv, Maker
  <2>4. tail \in [Handles -> Tails]
    BY DEF NamedInv, NamedTypes
  <2> SUFFICES ASSUME NEW u \in Handles
               PROVE  /\ tail'[u] \in {"mode", "open"} => u \in created
                      /\ tail'[u] = "mode" /\ fd[u] # 0 => hdr'[fd[u]] = {"magic"}
                      /\ tail'[u] = "open" /\ fd[u] # 0
                            => hdr'[fd[u]] = {"magic", "mode"}
    BY <1>1 DEF QueueInv, vars
  <2>5. /\ tail[u] \in {"mode", "open"} => u \in created
        /\ tail[u] = "mode" /\ fd[u] # 0 => hdr[fd[u]] = {"magic"}
        /\ tail[u] = "open" /\ fd[u] # 0 => hdr[fd[u]] = {"magic", "mode"}
    BY <1>5 DEF NamedInv, QueueInv
  <2>6. CASE QueueExists(h)
    BY <2>2, <2>4, <2>5, <2>6, StoreKeeps DEF QueueExists
  <2>7. CASE QueueMagic(h)
    BY <2>2, <2>3, <2>4, <2>5, <2>7, StoreKeeps DEF QueueMagic, InTail, Initialises
  <2>8. CASE QueueMode(h)
    <3>1. h \in created /\ tail[h] = "mode" /\ (fd[h] # 0 => hdr[fd[h]] = {"magic"})
      BY <1>5, <2>8 DEF QueueMode, InTail, NamedInv, QueueInv
    <3>2. CASE Store(h, hdr[fd[h]], "raised")
      BY <2>2, <2>3, <2>4, <2>5, <3>1, <3>2, StoreKeeps
    <3>3. CASE Store(h, hdr[fd[h]] \cup {"mode"}, "open")
      BY <2>2, <2>3, <2>4, <2>5, <3>1, <3>3, StoreKeeps
    <3> QED
      BY <2>8, <3>2, <3>3 DEF QueueMode
  <2> QED
    BY <1>5, <2>6, <2>7, <2>8
    DEF NamedStep, MutexForceRelease, MutexZero, SemaphoreInitial, EventClear, Attach,
        Use, InTail
<1> QED
  BY <1>1, <1>2, <1>4, <1>5 DEF NamedInv, QueueInv

\* So the invariant always holds.
LEMMA NamedAlways == NamedSpec => []NamedInv
<1>1. NamedInit => NamedInv
  <2> SUFFICES ASSUME NamedInit PROVE NamedInv
    OBVIOUS
  <2>1. CreatorInv
    BY DEF NamedInit, Init, CreatorInv, Maker, Labels, Constructing, Closing
  <2>2. RoomInv
    <3>1. MayCreate = Handles /\ made = 0
      BY DEF NamedInit, Init, MayCreate
    <3> QED
      BY <3>1, FS_CardinalityType, NamedAssumption DEF RoomInv
  <2>3. NamedTypes /\ QueueInv
    BY DEF NamedInit, NamedTypes, QueueInv, Tails
  <2> QED
    BY <2>1, <2>2, <2>3 DEF NamedInv
<1>2. NamedInv /\ [NamedNext]_allVars => NamedInv'
  <2> SUFFICES ASSUME NamedInv, [NamedNext]_allVars PROVE NamedInv'
    OBVIOUS
  <2>1. ASSUME NEW h \in Handles, SegmentStep(h) PROVE NamedInv'
    BY <2>1, SegmentStepNamed
  <2>2. ASSUME NEW h \in Handles, NamedStep(h) PROVE NamedInv'
    BY <2>2, NamedStepNamed
  <2>3. ASSUME NEW p \in Pids, Crash(p), UNCHANGED namedVars PROVE NamedInv'
    <3>1. CreatorInv'
      BY <2>3, CrashCreator DEF NamedInv
    <3>2. MayCreate' \subseteq MayCreate /\ made' = made
      BY <2>3 DEF Crash, MayCreate, NamedInv, CreatorInv
    <3>3. RoomInv'
      BY <3>2, RoomKept DEF NamedInv, CreatorInv
    <3>4. NamedTypes' /\ QueueInv'
      BY <2>3 DEF Crash, namedVars, NamedInv, NamedTypes, QueueInv, CreatorInv
    <3> QED
      BY <3>1, <3>3, <3>4 DEF NamedInv
  <2>4. CASE UNCHANGED allVars
    BY <2>4 DEF allVars, vars, namedVars, NamedInv, CreatorInv, Maker, RoomInv, MayCreate,
                NamedTypes, QueueInv
  <2> QED
    BY <2>1, <2>2, <2>3, <2>4 DEF NamedNext
<1> QED
  BY <1>1, <1>2, PTL DEF NamedSpec

\* Of the processes that call NamedQueue.create() with one name at most one
\* returns for each segment, and with the whole header stored: for any number
\* of processes, whoever is killed and however they close.
THEOREM QueueCreatedOnce == NamedSpec => []QueueOnce
<1>1. NamedInv => QueueOnce
  BY DEF NamedInv, QueueInv, QueueOnce, CreatorInv, Maker
<1> QED
  BY <1>1, NamedAlways, PTL

-----------------------------------------------------------------------------
(* What users of a mutex, a semaphore or an event do *)

\* Where a handle is that has not got past GuardedSharedMemory().
BeforeTail == {"new"} \cup Constructing

\* A handle that is not past its segment has not begun to initialise it, only
\* the one that made a segment initialises it, and a handle that came to it
\* late has a segment that nobody will initialise any more.
LateInv ==
    /\ late \subseteq Handles
    /\ \A h \in Handles :
          /\ pc[h] \in BeforeTail => tail[h] = "shm"
          /\ pc[h] = "create" => h \notin late
          /\ tail[h] \in {"zero", "mode"} => h \in created
    /\ \A h \in late, u \in Handles :
          fd[h] # 0 /\ Initialising(u) => fd[u] # fd[h]

\* Where a step takes a handle: to a place in the constructor only from one,
\* and to shm_open() with O_EXCL only from a shm_open() that found no name.
\* Whoever is to initialise a segment after it was before, or has just made it,
\* with a new number.
LEMMA StepPlaces ==
    ASSUME NamedInv, NEW h \in Handles, Step(h), UNCHANGED tail
    PROVE  /\ \A u \in Handles \ {h} : pc'[u] = pc[u] /\ fd'[u] = fd[u]
           /\ pc'[h] \in BeforeTail => pc[h] \in BeforeTail
           /\ pc'[h] = "create" => (pc[h] = "open" /\ bound = 0) \/ pc[h] = "create"
           /\ pc[h] = "open" => fd'[h] = bound
           /\ pc[h] \notin {"open", "create"} => fd'[h] = fd[h] \/ fd'[h] = 0
           /\ created' \subseteq created \cup {u \in {h} : pc[u] = "trunc"}
           /\ \A u \in Handles : Initialising(u)' =>
                 (Initialising(u) /\ fd'[u] = fd[u]) \/ fd'[u] = made + 1
<1> USE DEF NamedInv, CreatorInv, Goto, BeforeTail, Constructing, Initialising
<1>1. CASE New(h) \/ Open(h)
  BY <1>1 DEF New, Open
<1>2. CASE Create(h)
  BY <1>2 DEF Create, Retry
<1>3. CASE Truncate(h)
  BY <1>3 DEF Truncate
<1>4. CASE Stat(h)
  BY <1>4 DEF Stat, Retry
<1>5. CASE Register(h) \/ Detach(h) \/ CallClose(h) \/ CloseClean(h)
  BY <1>5 DEF Register, Detach, CallClose, CloseClean
<1>6. CASE CloseRemove(h) \/ CloseCheck(h) \/ CloseUnlink(h) \/ CloseRmdir(h)
           \/ CloseDetach(h)
  BY <1>6 DEF CloseRemove, CloseCheck, CloseUnlink, CloseRmdir, CloseDetach
<1> QED
  BY <1>1, <1>2, <1>3, <1>4, <1>5, <1>6 DEF Step

\* A step of the segment keeps the invariant, and what users have done.
LEMMA SegmentStepLate ==
    ASSUME NamedInv, LateInv, LateUseKept, NEW h \in Handles, SegmentStep(h)
    PROVE  LateInv' /\ LateUseKept'
<1>1. Step(h) /\ UNCHANGED <<kind, hdr, tail>>
  BY DEF SegmentStep
<1>2. /\ \A u \in Handles \ {h} : u \in late' => u \in late
      /\ h \in late' => IF pc[h] = "open" THEN Settled ELSE h \in late
      /\ late' \subseteq Handles
  BY DEF SegmentStep, LateInv
<1>3. /\ \A u \in Handles \ {h} : pc'[u] = pc[u] /\ fd'[u] = fd[u]
      /\ pc'[h] \in BeforeTail => pc[h] \in BeforeTail
      /\ pc'[h] = "create" => (pc[h] = "open" /\ bound = 0) \/ pc[h] = "create"
      /\ pc[h] = "open" => fd'[h] = bound
      /\ pc[h] \notin {"open", "create"} => fd'[h] = fd[h] \/ fd'[h] = 0
      /\ created' \subseteq created \cup {u \in {h} : pc[u] = "trunc"}
      /\ \A u \in Handles : Initialising(u)' =>
            (Initialising(u) /\ fd'[u] = fd[u]) \/ fd'[u] = made + 1
  BY <1>1, StepPlaces
<1>4. /\ created \subseteq created' /\ created \subseteq Handles
      /\ \A u \in created : fd'[u] = fd[u] \/ fd'[u] = 0
  BY <1>1, CreatedStays, StepKeepsSegment DEF NamedInv, CreatorInv
<1>5. /\ \A u \in Handles : fd[u] \in Nat /\ fd[u] <= made
      /\ bound \in Nat /\ bound <= made /\ made \in Nat
  BY DEF NamedInv, CreatorInv
<1>6. ASSUME NEW v \in late', NEW u \in Handles, fd'[v] # 0, Initialising(u)'
      PROVE  fd'[u] # fd'[v]
  <2>1. CASE v = h /\ pc[h] = "open"
    BY <1>2, <1>3, <1>5, <1>6, <2>1 DEF Settled
  <2>2. CASE ~(v = h /\ pc[h] = "open")
    <3>1. v \in late /\ v \in Handles /\ fd'[v] = fd[v] /\ fd[v] # 0
      BY <1>2, <1>3, <1>6, <2>2 DEF LateInv
    <3> QED
      BY <1>3, <1>5, <1>6, <3>1 DEF LateInv
  <2> QED
    BY <2>1, <2>2
<1>7. ASSUME NEW u \in Handles
      PROVE  /\ pc'[u] \in BeforeTail => tail[u] = "shm"
             /\ pc'[u] = "create" => u \notin late'
             /\ tail[u] \in {"zero", "mode"} => u \in created'
  <2>1. CASE u # h
    BY <1>2, <1>3, <1>4, <2>1 DEF LateInv
  <2>2. CASE u = h
    BY <1>2, <1>3, <1>4, <2>2 DEF LateInv, Settled
  <2> QED
    BY <2>1, <2>2
<1>8. LateInv'
  BY <1>1, <1>2, <1>6, <1>7 DEF LateInv, BeforeTail
<1>9. LateUseKept'
  <2> SUFFICES ASSUME NEW u \in late' \cup created', tail[u] = "used", fd'[u] # 0
               PROVE  u \in hdr[fd'[u]]
    BY <1>1 DEF LateUseKept, Effective
  <2>1. u \in Handles /\ pc[u] \notin BeforeTail
    BY <1>2, <1>3, <1>4 DEF LateInv
  <2>2. u \in late \cup created
    BY <1>2, <1>3, <2>1 DEF BeforeTail, Constructing
  <2>3. fd'[u] = fd[u]
    BY <1>3, <2>1 DEF BeforeTail, Constructing
  <2> QED
    BY <2>2, <2>3 DEF LateUseKept, Effective
<1> QED
  BY <1>8, <1>9

\* So does a step of a constructor or a method: whoever overwrites a header is
\* the maker of the segment and still to initialise it, so that no other maker
\* and nobody who came late has that segment.
LEMMA NamedStepLate ==
    ASSUME NamedInv, LateInv, LateUseKept, NEW h \in Handles, NamedStep(h)
    PROVE  LateInv' /\ LateUseKept'
<1>1. UNCHANGED vars /\ UNCHANGED <<kind, late>>
  BY NamedStepStutters
<1>2. /\ tail \in [Handles -> Tails] /\ created \subseteq Handles
      /\ \A u \in Handles : fd[u] # 0 => fd[u] \in DOMAIN hdr
  BY HeaderThere DEF NamedInv, NamedTypes, CreatorInv
<1>3. PICK H, label :
        /\ Store(h, H, label) /\ pc[h] = "ready" /\ label \in Tails \ {"shm"}
        /\ \/ hdr[fd[h]] \subseteq H
           \/ Initialising(h) /\ h \in created
        /\ label = "used" => h \in H
        /\ label \in {"zero", "mode"} => Initialising(h) /\ h \in created
        /\ label = "used" \/ tail[h] # "used"
  <2> USE DEF InTail, Initialises, Initialising, Tails
  <2>1. CASE MutexForceRelease(h) \/ EventClear(h) \/ QueueMagic(h)
    BY <2>1 DEF MutexForceRelease, EventClear, QueueMagic
  <2>2. CASE MutexZero(h)
    BY <2>2 DEF MutexZero, LateInv
  <2>3. CASE SemaphoreInitial(h)
    BY <2>3 DEF SemaphoreInitial
  <2>4. CASE Attach(h) \/ QueueExists(h) \/ Use(h)
    BY <2>4 DEF Attach, QueueExists, Use
  <2>5. CASE QueueMode(h)
    BY <2>5 DEF QueueMode
  <2> QED
    BY <2>1, <2>2, <2>3, <2>4, <2>5 DEF NamedStep
<1>4. /\ tail' = [tail EXCEPT ![h] = label]
      /\ \A s \in DOMAIN hdr : s # fd[h] => hdr'[s] = hdr[s]
      /\ \A s \in DOMAIN hdr : s = fd[h] => hdr'[s] = H
  BY <1>3, StoreKeeps
<1>5. \A u \in Handles : Initialising(u)' => Initialising(u)
  BY <1>1, <1>2, <1>3, <1>4 DEF Initialising, Tails, vars
<1>6. LateInv'
  <2>1. \A u \in Handles : pc[u] \in BeforeTail => tail'[u] = "shm"
    BY <1>2, <1>3, <1>4 DEF LateInv, BeforeTail, Constructing
  <2>2. \A u \in Handles : tail'[u] \in {"zero", "mode"} => u \in created
    BY <1>2, <1>3, <1>4 DEF LateInv
  <2> QED
    BY <1>1, <1>5, <2>1, <2>2 DEF LateInv, vars, BeforeTail
<1>7. LateUseKept'
  <2> SUFFICES ASSUME NEW u \in late \cup created, tail'[u] = "used", fd[u] # 0
               PROVE  u \in hdr'[fd[u]]
    BY <1>1 DEF LateUseKept, Effective, vars
  <2>1. u \in Handles /\ fd[u] \in DOMAIN hdr
    BY <1>2 DEF LateInv
  <2>2. CASE u = h
    BY <1>2, <1>3, <1>4, <2>1, <2>2
  <2>3. CASE u # h
    <3>1. u \in hdr[fd[u]]
      BY <1>2, <1>4, <2>1, <2>3 DEF LateUseKept, Effective
    <3>2. CASE fd[u] # fd[h]
      BY <1>4, <2>1, <3>1, <3>2
    <3>3. CASE fd[u] = fd[h]
      <4>1. ~(Initialising(h) /\ h \in created)
        BY <2>1, <2>3, <3>3 DEF LateInv, NamedInv, CreatorInv, Maker
      <4> QED
        BY <1>3, <1>4, <2>1, <3>1, <3>3, <4>1
    <3> QED
      BY <3>2, <3>3
  <2> QED
    BY <2>2, <2>3
<1> QED
  BY <1>6, <1>7

\* What the process that created a mutex, a semaphore or an event does with it,
\* and what those do that opened it when nobody was still to initialise it,
\* is never undone by a constructor: for any number of processes that make,
\* use and close it, are killed, and meet in any order.
THEOREM LateUseAlwaysKept == NamedSpec => []LateUseKept
<1>1. NamedInit => LateInv /\ LateUseKept
  BY DEF NamedInit, Init, LateInv, LateUseKept, Effective
<1>2. NamedInv /\ LateInv /\ LateUseKept /\ [NamedNext]_allVars
        => LateInv' /\ LateUseKept'
  <2> SUFFICES ASSUME NamedInv, LateInv, LateUseKept, [NamedNext]_allVars
               PROVE  LateInv' /\ LateUseKept'
    OBVIOUS
  <2>1. ASSUME NEW h \in Handles, SegmentStep(h) PROVE LateInv' /\ LateUseKept'
    BY <2>1, SegmentStepLate
  <2>2. ASSUME NEW h \in Handles, NamedStep(h) PROVE LateInv' /\ LateUseKept'
    BY <2>2, NamedStepLate
  <2>3. ASSUME NEW p \in Pids, Crash(p), UNCHANGED namedVars
        PROVE  LateInv' /\ LateUseKept'
    BY <2>3 DEF Crash, namedVars, LateInv, LateUseKept, Effective, Initialising,
                BeforeTail, Constructing, NamedInv, CreatorInv
  <2>4. CASE UNCHANGED allVars
    BY <2>4 DEF allVars, vars, namedVars, LateInv, LateUseKept, Effective,
                Initialising, BeforeTail
  <2> QED
    BY <2>1, <2>2, <2>3, <2>4 DEF NamedNext
<1> QED
  BY <1>1, <1>2, NamedAlways, PTL DEF NamedSpec
=============================================================================
