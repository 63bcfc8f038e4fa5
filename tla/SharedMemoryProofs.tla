------------------------- MODULE SharedMemoryProofs -------------------------
(***************************************************************************)
(* Proofs about SharedMemory for any number of handles and processes:      *)
(* who is told to have created a segment, with closes and killed           *)
(* processes, and what processes that come up together end up with.        *)
(***************************************************************************)
EXTENDS SharedMemory, TLAPS

\* Nobody closes, no attach may fail, and a live creator is waited for.
ComingUp == Closers = {} /\ AttachOnly = {} /\ Patient

\* There is one segment at most; it is without its size only while its creator
\* is about to give it one.
CreateInv ==
    /\ pc \in [Handles -> {"new", "ready"} \cup Constructing]
    /\ fd \in [Handles -> {0, 1}]
    /\ bound \in {0, 1} /\ made = bound /\ overlap = FALSE
    /\ sized \in SUBSET {1} /\ created \in SUBSET Handles
    /\ bound = 0 =>
          /\ sized = {}
          /\ \A h \in Handles : pc[h] \in {"new", "open", "create"}
    /\ bound = 1 /\ sized = {} => \E h \in Handles : pc[h] = "trunc"
    /\ sized = {} => created = {}
    /\ sized = {1} => created # {}
    /\ \A h, u \in created : h = u
    /\ \A h, u \in Handles : pc[h] = "trunc" /\ pc[u] = "trunc" => h = u
    /\ \A h \in Handles :
          /\ pc[h] = "trunc" => fd[h] = 1 /\ sized = {}
          /\ pc[h] = "stat" => fd[h] = 1
          /\ pc[h] \in {"register", "ready"} => fd[h] = 1 /\ sized = {1}
          /\ pc[h] # "new" => dir

\* A step of a constructor keeps the invariant.
LEMMA StepCreate ==
    ASSUME ComingUp, CreateInv, NEW h \in Handles, Step(h)
    PROVE  CreateInv'
<1> USE DEF CreateInv, Constructing, Goto
<1>1. CASE New(h)
  <2>1. \A u \in Handles : pc[u] \notin Closing
    BY DEF Closing
  <2> QED
    BY <1>1, <2>1 DEF New
<1>2. CASE Open(h)
  BY <1>2 DEF Open, ComingUp
<1>3. CASE Create(h)
  <2>1. CASE bound = 0
    BY <1>3, <2>1 DEF Create
  <2>2. CASE bound # 0
    <3>1. ~Orphaned
      BY <2>2 DEF Orphaned
    <3> QED
      BY <1>3, <2>2, <3>1 DEF Create, Retry, ComingUp
  <2> QED
    BY <2>1, <2>2
<1>4. CASE Truncate(h)
  BY <1>4 DEF Truncate
<1>5. CASE Stat(h)
  <2>1. CASE fd[h] \in sized
    <3>1. sized = {1}
      BY <2>1
    <3> QED
      BY <1>5, <2>1, <3>1 DEF Stat
  <2>2. CASE fd[h] \notin sized
    <3>1. bound = 1 /\ sized = {}
      BY <1>5, <2>2 DEF Stat
    <3>2. ~Orphaned
      BY <3>1 DEF Orphaned
    <3>3. pc' = [pc EXCEPT ![h] = "open"] /\ fd' = [fd EXCEPT ![h] = 0]
      BY <1>5, <2>2, <3>2 DEF Stat, Retry, ComingUp
    <3>4. UNCHANGED <<bound, made, sized, dir, created, overlap>>
      BY <1>5 DEF Stat
    <3> QED
      BY <1>5, <3>1, <3>3, <3>4 DEF Stat
  <2> QED
    BY <2>1, <2>2
<1>6. CASE Register(h)
  BY <1>6 DEF Register
<1>7. CASE Detach(h) \/ CallClose(h) \/ CloseClean(h) \/ CloseRemove(h) \/ CloseCheck(h)
           \/ CloseUnlink(h) \/ CloseRmdir(h) \/ CloseDetach(h)
  BY <1>7
  DEF Detach, CallClose, CloseClean, CloseRemove, CloseCheck, CloseUnlink, CloseRmdir,
      CloseDetach, ComingUp
<1> QED
  BY <1>1, <1>2, <1>3, <1>4, <1>5, <1>6, <1>7 DEF Step

\* However many processes construct the handle at once and however their
\* system calls interleave, they end up with one segment that has its size,
\* and exactly one of them is told that it created it.
THEOREM CreateOneSegment ==
    ASSUME ComingUp
    PROVE  Spec => [](~overlap /\ OneSegment /\ OneCreator)
<1>1. Init => CreateInv
  BY DEF Init, CreateInv
<1>2. CreateInv /\ [Next]_vars => CreateInv'
  <2> SUFFICES ASSUME CreateInv, [Next]_vars PROVE CreateInv'
    OBVIOUS
  <2>1. CASE Next
    BY <2>1, ComingUp, StepCreate DEF Next
  <2>2. CASE UNCHANGED vars
    BY <2>2 DEF vars, CreateInv
  <2> QED
    BY <2>1, <2>2
<1>3. CreateInv => ~overlap /\ OneSegment /\ OneCreator
  BY DEF CreateInv, OneSegment, OneCreator
<1> QED
  BY <1>1, <1>2, <1>3, PTL DEF Spec

-----------------------------------------------------------------------------
(* The creator of a segment, whatever else happens *)

\* Handle h has made the segment it has open.
Maker(h) == h \in created \/ pc[h] = "trunc"

\* No two handles have made one segment: a number is used once, a handle that
\* has created a segment never looks for another, and a segment has its size
\* only by way of its creator.
CreatorInv ==
    /\ pc \in [Handles -> Labels] /\ fd \in [Handles -> Nat]
    /\ made \in Nat /\ bound \in Nat /\ bound <= made
    /\ created \subseteq Handles
    /\ \A h \in Handles : fd[h] <= made
    /\ \A h \in created : pc[h] \notin {"new", "open", "create", "trunc"}
    /\ \A h \in created : pc[h] = "stat" => fd[h] \in sized
    /\ \A h, u \in Handles :
          Maker(h) /\ Maker(u) /\ fd[h] # 0 /\ fd[h] = fd[u] => h = u
    /\ sized # {} => created # {}
    /\ \A h \in Handles : pc[h] \in {"register", "ready"} => created # {}

\* A step of a handle keeps the invariant.
LEMMA StepCreator ==
    ASSUME CreatorInv, NEW h \in Handles, Step(h)
    PROVE  CreatorInv'
<1> USE DEF CreatorInv, Maker, Labels, Constructing, Closing, Goto
<1>1. CASE New(h)
  BY <1>1 DEF New
<1>2. CASE Open(h)
  BY <1>2 DEF Open
<1>3. CASE Create(h)
  <2>1. CASE bound = 0
    BY <1>3, <2>1 DEF Create
  <2>2. CASE bound # 0
    BY <1>3, <2>2 DEF Create, Retry
  <2> QED
    BY <2>1, <2>2
<1>4. CASE Truncate(h)
  BY <1>4 DEF Truncate
<1>5. CASE Stat(h)
  BY <1>5 DEF Stat, Retry
<1>6. CASE Register(h)
  BY <1>6 DEF Register
<1>7. CASE Detach(h) \/ CallClose(h) \/ CloseClean(h) \/ CloseRemove(h) \/ CloseCheck(h)
           \/ CloseRmdir(h)
  BY <1>7 DEF Detach, CallClose, CloseClean, CloseRemove, CloseCheck, CloseRmdir
<1>8. CASE CloseUnlink(h)
  BY <1>8 DEF CloseUnlink
<1>9. CASE CloseDetach(h)
  BY <1>9 DEF CloseDetach
<1> QED
  BY <1>1, <1>2, <1>3, <1>4, <1>5, <1>6, <1>7, <1>8, <1>9 DEF Step

\* So does the death of a process.
LEMMA CrashCreator ==
    ASSUME CreatorInv, NEW p \in Pids, Crash(p)
    PROVE  CreatorInv'
BY DEF CreatorInv, Maker, Labels, Constructing, Closing, Crash

\* Of the handles that share a segment at most one was told that it created
\* it, and nobody has a segment before somebody was told, however many handles
\* are made and closed, in whatever order, and whoever is killed.
THEOREM OneCreatorAlways == CrashSpec => []OneCreator
<1>1. Init => CreatorInv
  BY DEF Init, CreatorInv, Maker, Labels, Constructing, Closing
<1>2. CreatorInv /\ [CrashNext]_vars => CreatorInv'
  <2> SUFFICES ASSUME CreatorInv, [CrashNext]_vars PROVE CreatorInv'
    OBVIOUS
  <2>1. CASE Next
    BY <2>1, StepCreator DEF Next
  <2>2. CASE \E p \in Pids : Crash(p)
    BY <2>2, CrashCreator
  <2>3. CASE UNCHANGED vars
    BY <2>3 DEF vars, CreatorInv, Maker
  <2> QED
    BY <2>1, <2>2, <2>3 DEF CrashNext
<1>3. CreatorInv => OneCreator
  BY DEF CreatorInv, Maker, OneCreator
<1> QED
  BY <1>1, <1>2, <1>3, PTL DEF CrashSpec

-----------------------------------------------------------------------------
(* Nothing is left behind *)

\* A step of a handle leaves the places of the others alone.
LEMMA StepLabels ==
    ASSUME pc \in [Handles -> Labels], NEW h \in Handles, Step(h)
    PROVE  /\ pc' \in [Handles -> Labels]
           /\ pc[h] # "dead"
           /\ \A u \in Handles : u # h => pc'[u] = pc[u]
BY DEF Step, New, Open, Create, Retry, Truncate, Stat, Register, Detach, CallClose,
       CloseClean, CloseRemove, CloseCheck, CloseUnlink, CloseRmdir, CloseDetach,
       Labels, Constructing, Closing, Goto

\* The places of a handle that has yet to come to the end of a close().
Pending == Constructing \cup {"ready", "detached", "failed", "broken",
                              "clean", "remove", "check", "unlink"}

\* While nobody has been killed, a PID file belongs to a handle that will
\* remove it, and a name or a directory is left to a handle that will look
\* whether it is the last: one that finds itself not to be so has seen the
\* file of another, which will look later.
LeakInv ==
    /\ pc \in [Handles -> Labels]
    /\ (\A h \in Handles : pc[h] # "dead") =>
          /\ \A p \in pids : \E h \in Handles :
                PidOf[h] = p /\ pc[h] \in {"ready", "detached", "clean", "remove"}
          /\ bound # 0 => \E h \in Handles : pc[h] \in Pending
          /\ dir => \E h \in Handles : pc[h] \in Pending \cup {"rmdir"}

\* A step of a handle keeps the invariant.
LEMMA StepLeak ==
    ASSUME LeakInv, NEW h \in Handles, Step(h)
    PROVE  LeakInv'
<1> USE SharedMemoryAssumption DEF LeakInv, Pending, Constructing, Goto
<1>1. /\ pc' \in [Handles -> Labels]
      /\ pc[h] # "dead" /\ \A u \in Handles : u # h => pc'[u] = pc[u]
  BY StepLabels
<1> SUFFICES ASSUME \A u \in Handles : pc'[u] # "dead",
                    \A u \in Handles : pc[u] # "dead"
             PROVE  LeakInv'
  BY <1>1
<1>2. CASE New(h) \/ Open(h) \/ Truncate(h)
  BY <1>1, <1>2 DEF New, Open, Truncate
<1>3. CASE Create(h) \/ Stat(h)
  BY <1>1, <1>3 DEF Create, Stat, Retry
<1>4. CASE Register(h) \/ Detach(h) \/ CallClose(h)
  BY <1>1, <1>4 DEF Register, Detach, CallClose
<1>5. CASE CloseClean(h)
  BY <1>1, <1>5 DEF CloseClean
<1>6. CASE CloseRemove(h)
  BY <1>1, <1>6 DEF CloseRemove
<1>7. CASE CloseCheck(h)
  BY <1>1, <1>7 DEF CloseCheck
<1>8. CASE CloseUnlink(h) \/ CloseDetach(h)
  BY <1>1, <1>8 DEF CloseUnlink, CloseDetach
<1>9. CASE CloseRmdir(h)
  <2>1. /\ pc[h] = "rmdir" /\ pc'[h] = "detach"
        /\ UNCHANGED <<bound, pids>>
    BY <1>9 DEF CloseRmdir
  <2>2. ASSUME dir' PROVE \E u \in Handles : pc'[u] \in Pending
    <3>1. dir' => pids # {}
      BY <1>9 DEF CloseRmdir
    <3>2. PICK p \in pids : TRUE
      BY <2>2, <3>1
    <3>3. PICK u \in Handles : pc[u] \in {"ready", "detached", "clean", "remove"}
      BY <3>2
    <3> QED
      BY <1>1, <2>1, <3>3
  <2> QED
    BY <1>1, <2>1, <2>2
<1> QED
  BY <1>2, <1>3, <1>4, <1>5, <1>6, <1>7, <1>8, <1>9 DEF Step

\* When all handles made have been closed, the name, the directory and the
\* files have gone: for any handles, several to a process among them, and
\* however their constructors and closes overlap.
THEOREM NothingLeft == CrashSpec => []NoLeak
<1>1. Init => LeakInv
  BY DEF Init, LeakInv, Labels
<1>2. LeakInv /\ [CrashNext]_vars => LeakInv'
  <2> SUFFICES ASSUME LeakInv, [CrashNext]_vars PROVE LeakInv'
    OBVIOUS
  <2>1. ASSUME NEW h \in Handles, Step(h) PROVE LeakInv'
    BY <2>1, StepLeak
  <2>2. ASSUME NEW p \in Pids, Crash(p) PROVE LeakInv'
    BY <2>2 DEF Crash, Labels, LeakInv
  <2>3. CASE UNCHANGED vars
    BY <2>3 DEF vars, LeakInv
  <2> QED
    BY <2>1, <2>2, <2>3 DEF CrashNext, Next
<1>3. LeakInv => NoLeak
  BY DEF LeakInv, NoLeak, Pending, Constructing
<1> QED
  BY <1>1, <1>2, <1>3, PTL DEF CrashSpec

-----------------------------------------------------------------------------
(* One segment, and no unlinking in use *)

\* A process has one handle of the name: the PID file stands for it alone.
OnePerProcess == \A h, u \in Handles : PidOf[h] = PidOf[u] => h = u

\* The places of a handle that has a segment open.
Holding == {"trunc", "stat", "register", "ready"}

\* As long as no constructor has met a close(), all who have a segment open
\* have the one that the name stands for, and who is about to unlink it has
\* seen that nobody uses it.  A handle in use is registered, whatever happens.
SegmentInv ==
    /\ pc \in [Handles -> Labels] /\ fd \in [Handles -> Nat]
    /\ bound \in Nat /\ made \in Nat
    /\ \A h \in Handles : pc[h] \in {"ready", "detached"} => PidOf[h] \in pids
    /\ ~overlap =>
          /\ \A h, u \in Handles : pc[h] \in Constructing => pc[u] \notin Closing
          /\ \A h \in Handles : pc[h] \in Holding => fd[h] = bound /\ bound # 0
          /\ \A h \in Handles : pc[h] \in {"register", "ready"} => bound \in sized
          /\ \A h, u \in Handles : pc[h] = "unlink" => pc[u] # "ready"

\* A step of a handle keeps the invariant.
LEMMA StepSegment ==
    ASSUME OnePerProcess, SegmentInv, NEW h \in Handles, Step(h)
    PROVE  SegmentInv'
<1> USE SharedMemoryAssumption
    DEF SegmentInv, Holding, Constructing, Closing, Labels, Goto
<1>1. CASE New(h)
  BY <1>1 DEF New
<1>2. CASE Open(h)
  BY <1>2 DEF Open
<1>3. CASE Create(h)
  BY <1>3 DEF Create, Retry
<1>4. CASE Truncate(h)
  BY <1>4 DEF Truncate
<1>5. CASE Stat(h)
  BY <1>5 DEF Stat, Retry
<1>6. CASE Register(h)
  BY <1>6 DEF Register
<1>7. CASE Detach(h) \/ CloseDetach(h)
  BY <1>7 DEF Detach, CloseDetach
<1>8. CASE CallClose(h) \/ CloseRmdir(h)
  BY <1>8 DEF CallClose, CloseRmdir
<1>9. CASE CloseClean(h)
  BY <1>9 DEF CloseClean, Alive, OnePerProcess
<1>10. CASE CloseRemove(h)
  BY <1>10 DEF CloseRemove, OnePerProcess
<1>11. CASE CloseCheck(h)
  BY <1>11 DEF CloseCheck, Alive, OnePerProcess
<1>12. CASE CloseUnlink(h)
  BY <1>12 DEF CloseUnlink
<1> QED
  BY <1>1, <1>2, <1>3, <1>4, <1>5, <1>6, <1>7, <1>8, <1>9, <1>10, <1>11, <1>12
  DEF Step

\* So it is always true where a process has one handle.
LEMMA SegmentInvariant ==
    ASSUME OnePerProcess
    PROVE  CrashSpec => []SegmentInv
<1>1. Init => SegmentInv
  BY DEF Init, SegmentInv, Holding, Constructing, Closing, Labels
<1>2. SegmentInv /\ [CrashNext]_vars => SegmentInv'
  <2> SUFFICES ASSUME SegmentInv, [CrashNext]_vars PROVE SegmentInv'
    OBVIOUS
  <2>1. ASSUME NEW h \in Handles, Step(h) PROVE SegmentInv'
    BY <2>1, StepSegment
  <2>2. ASSUME NEW p \in Pids, Crash(p) PROVE SegmentInv'
    BY <2>2 DEF Crash, SegmentInv, Holding, Constructing, Closing, Labels
  <2>3. CASE UNCHANGED vars
    BY <2>3 DEF vars, SegmentInv
  <2> QED
    BY <2>1, <2>2, <2>3 DEF CrashNext, Next
<1> QED
  BY <1>1, <1>2, PTL DEF CrashSpec

\* With one handle for each process, as long as no constructor has run beside a
\* close(), all handles in use have the segment that the name stands for, with
\* its size: for any number of processes, closed and killed in any order.
THEOREM OneSegmentAlways ==
    ASSUME OnePerProcess
    PROVE  CrashSpec => []OneSegment
<1>1. SegmentInv => OneSegment
  BY DEF SegmentInv, OneSegment, Holding
<1> QED
  BY <1>1, SegmentInvariant, PTL

\* Under the same conditions close() unlinks no segment that another handle has
\* mapped or is mapping.
THEOREM UnlinkLast ==
    ASSUME OnePerProcess
    PROVE  CrashSpec => UnlinkInTurn
<1>1. SegmentInv /\ [CrashNext]_vars
        => [bound # 0 /\ bound' = 0 /\ ~overlap => \A h \in Handles : ~InUse(h)]_vars
  <2> SUFFICES ASSUME SegmentInv, CrashNext, bound # 0, bound' = 0, ~overlap,
                      NEW u \in Handles
               PROVE  ~InUse(u)
    OBVIOUS
  <2>1. PICK h \in Handles : CloseUnlink(h)
    BY DEF CrashNext, Next, Step, New, Open, Create, Retry, Truncate, Stat, Register,
           Detach, CallClose, CloseClean, CloseRemove, CloseCheck, CloseRmdir,
           CloseDetach, Crash, SegmentInv
  <2> QED
    BY <2>1 DEF CloseUnlink, SegmentInv, InUse, Constructing, Closing
<1> QED
  BY <1>1, SegmentInvariant, PTL DEF CrashSpec, UnlinkInTurn
=============================================================================
