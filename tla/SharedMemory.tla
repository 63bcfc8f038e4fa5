---------------------------- MODULE SharedMemory ----------------------------
(***************************************************************************)
(* GuardedSharedMemory: a POSIX shared memory segment found by name, and a *)
(* directory with one file per process that uses it, so that the last one  *)
(* to close can unlink the segment.  Handles are objects of the class, one *)
(* thread each; every system call on the name, on a segment's size or on   *)
(* the directory is an action, since nothing locks them.                   *)
(*                                                                         *)
(* Left out: validation of the arguments, handles of unequal sizes, and    *)
(* failures of the system (no permission, no memory).  PIDs are not        *)
(* reused.                                                                 *)
(***************************************************************************)
EXTENDS Integers, FiniteSets

CONSTANTS
    Handles,      \* the objects made of the class
    Pids,         \* the processes
    PidOf,        \* the process of each handle
    AttachOnly,   \* handles made with attach_only=True
    Closers,      \* handles that are detached or closed
    Patient       \* max_attempts is enough for a live creator to ftruncate

ASSUME SharedMemoryAssumption ==
    /\ PidOf \in [Handles -> Pids]
    /\ AttachOnly \subseteq Handles /\ Closers \subseteq Handles
    /\ Patient \in BOOLEAN

VARIABLES
    bound,        \* the segment the name stands for, 0 when there is none
    made,         \* segments made so far; they are numbered from 1
    sized,        \* segments that have their size
    dir,          \* the PID directory exists
    pids,         \* the PID files in it
    pc,           \* where each handle is
    fd,           \* the segment each handle has open, 0 for none
    created,      \* handles whose `created' is True
    overlap       \* history: a constructor has run beside a close()

vars == <<bound, made, sized, dir, pids, pc, fd, created, overlap>>

Constructing == {"open", "create", "trunc", "stat", "register"}

Closing == {"clean", "remove", "check", "unlink", "rmdir", "detach"}

\* "failed": the constructor raised and the object is about to be finalised;
\* "broken": it raised after atexit had taken a reference to the object.
Labels == Constructing \cup Closing
            \cup {"new", "ready", "detached", "failed", "broken", "closed", "dead"}

\* os.kill(pid, 0) finds process p.
Alive(p) == \A h \in Handles : PidOf[h] = p => pc[h] # "dead"

Goto(h, label) == pc' = [pc EXCEPT ![h] = label]

Init ==
    /\ bound = 0 /\ made = 0 /\ sized = {}
    /\ dir = FALSE /\ pids = {}
    /\ pc = [h \in Handles |-> "new"]
    /\ fd = [h \in Handles |-> 0]
    /\ created = {} /\ overlap = FALSE

-----------------------------------------------------------------------------
(* __init__() *)

\* os.makedirs() of the PID directory.
New(h) ==
    /\ pc[h] = "new"
    /\ dir' = TRUE
    /\ overlap' = (overlap \/ \E u \in Handles : pc[u] \in Closing)
    /\ Goto(h, "open")
    /\ UNCHANGED <<bound, made, sized, pids, fd, created>>

\* shm_open() of an existing segment.
Open(h) ==
    /\ pc[h] = "open"
    /\ fd' = [fd EXCEPT ![h] = bound]
    /\ Goto(h, IF bound # 0 THEN "stat"
               ELSE IF h \in AttachOnly THEN "failed"
               ELSE "create")
    /\ UNCHANGED <<bound, made, sized, dir, pids, created, overlap>>

\* The segment is without a size and nobody is there to give it one.
Orphaned ==
    /\ bound # 0
    /\ bound \notin sized
    /\ \A u \in Handles : ~(pc[u] = "trunc" /\ fd[u] = bound)

\* The next attempt, or the RuntimeError after the last.
Retry(h) ==
    \/ Goto(h, "open")
    \/ (Patient => Orphaned) /\ Goto(h, "failed")

CreateNoExcl(h) ==
    /\ pc[h] = "create"
    /\ made' = IF bound = 0 THEN made + 1 ELSE made
    /\ bound' = made'
    /\ fd' = [fd EXCEPT ![h] = made']
    /\ Goto(h, "trunc")
    /\ UNCHANGED <<sized, dir, pids, created, overlap>>

\* shm_open() with O_CREAT | O_EXCL.
Create(h) ==
    /\ pc[h] = "create"
    /\ \/ /\ bound = 0
          /\ made' = made + 1
          /\ bound' = made + 1
          /\ fd' = [fd EXCEPT ![h] = made + 1]
          /\ Goto(h, "trunc")
       \/ /\ bound # 0
          /\ Retry(h)
          /\ UNCHANGED <<made, bound, fd>>
    /\ UNCHANGED <<sized, dir, pids, created, overlap>>

\* ftruncate() by the creator.
Truncate(h) ==
    /\ pc[h] = "trunc"
    /\ sized' = sized \cup {fd[h]}
    /\ created' = created \cup {h}
    /\ Goto(h, "stat")
    /\ UNCHANGED <<bound, made, dir, pids, fd, overlap>>

StatUnchecked(h) ==
    /\ pc[h] = "stat"
    /\ Goto(h, "register")
    /\ UNCHANGED <<bound, made, sized, dir, pids, fd, created, overlap>>

\* fstat(), and mmap() if the segment has its size; else close and retry.
Stat(h) ==
    /\ pc[h] = "stat"
    /\ \/ /\ fd[h] \in sized
          /\ Goto(h, "register")
          /\ UNCHANGED fd
       \/ /\ fd[h] \notin sized
          /\ fd' = [fd EXCEPT ![h] = 0]
          /\ Retry(h)
    /\ UNCHANGED <<bound, made, sized, dir, pids, created, overlap>>

\* Write the PID file; FileNotFoundError if the directory has gone.
Register(h) ==
    /\ pc[h] = "register"
    /\ Goto(h, IF dir THEN "ready" ELSE "broken")
    /\ pids' = IF dir THEN pids \cup {PidOf[h]} ELSE pids
    /\ UNCHANGED <<bound, made, sized, dir, fd, created, overlap>>

-----------------------------------------------------------------------------
(* close(), __exit__(), __del__() and the atexit hook *)

\* detach() called by itself, as NamedHistoryBuffer() does: the process stays
\* registered.
Detach(h) ==
    /\ pc[h] = "ready" /\ h \in Closers
    /\ fd' = [fd EXCEPT ![h] = 0]
    /\ Goto(h, "detached")
    /\ UNCHANGED <<bound, made, sized, dir, pids, created, overlap>>

\* A handle whose constructor raised is closed by __del__(), too.
CallClose(h) ==
    /\ \/ pc[h] \in {"ready", "detached", "broken"} /\ h \in Closers
       \/ pc[h] = "failed"
    /\ overlap' = (overlap \/ \E u \in Handles : pc[u] \in Constructing)
    /\ Goto(h, "clean")
    /\ UNCHANGED <<bound, made, sized, dir, pids, fd, created>>

\* _cleanup_dead_pids()
CloseClean(h) ==
    /\ pc[h] = "clean"
    /\ pids' = {p \in pids : Alive(p)}
    /\ Goto(h, "remove")
    /\ UNCHANGED <<bound, made, sized, dir, fd, created, overlap>>

CloseRemoveKeeps(h) ==
    /\ pc[h] = "remove"
    /\ Goto(h, "check")
    /\ UNCHANGED <<bound, made, sized, dir, pids, fd, created, overlap>>

\* _remove_pid_file()
CloseRemove(h) ==
    /\ pc[h] = "remove"
    /\ pids' = pids \ {PidOf[h]}
    /\ Goto(h, "check")
    /\ UNCHANGED <<bound, made, sized, dir, fd, created, overlap>>

CloseCheckNobody(h) ==
    /\ pc[h] = "check"
    /\ Goto(h, "unlink")
    /\ UNCHANGED <<bound, made, sized, dir, pids, fd, created, overlap>>

\* _has_other_alive_pids()
CloseCheck(h) ==
    /\ pc[h] = "check"
    /\ Goto(h, IF \E p \in pids : p # PidOf[h] /\ Alive(p)
               THEN "detach" ELSE "unlink")
    /\ UNCHANGED <<bound, made, sized, dir, pids, fd, created, overlap>>

\* shm_unlink(): whatever segment has the name by now.
CloseUnlink(h) ==
    /\ pc[h] = "unlink"
    /\ bound' = 0
    /\ Goto(h, "rmdir")
    /\ UNCHANGED <<made, sized, dir, pids, fd, created, overlap>>

\* os.rmdir(), which fails while there are files.
CloseRmdir(h) ==
    /\ pc[h] = "rmdir"
    /\ dir' = (dir /\ pids # {})
    /\ Goto(h, "detach")
    /\ UNCHANGED <<bound, made, sized, pids, fd, created, overlap>>

\* detach(): unmap and close.
CloseDetach(h) ==
    /\ pc[h] = "detach"
    /\ fd' = [fd EXCEPT ![h] = 0]
    /\ Goto(h, "closed")
    /\ UNCHANGED <<bound, made, sized, dir, pids, created, overlap>>

\* Process p is killed.  The name, the segments and the files stay.
Crash(p) ==
    /\ Alive(p)
    /\ pc' = [h \in Handles |-> IF PidOf[h] = p THEN "dead" ELSE pc[h]]
    /\ fd' = [h \in Handles |-> IF PidOf[h] = p THEN 0 ELSE fd[h]]
    /\ UNCHANGED <<bound, made, sized, dir, pids, created, overlap>>

-----------------------------------------------------------------------------
(* Specifications *)

Step(h) ==
    \/ New(h) \/ Open(h) \/ Create(h) \/ Truncate(h) \/ Stat(h) \/ Register(h)
    \/ Detach(h) \/ CallClose(h) \/ CloseClean(h) \/ CloseRemove(h) \/ CloseCheck(h)
    \/ CloseUnlink(h) \/ CloseRmdir(h) \/ CloseDetach(h)

Next == \E h \in Handles : Step(h)

CrashNext == Next \/ \E p \in Pids : Crash(p)

Spec == Init /\ [][Next]_vars

CrashSpec == Init /\ [][CrashNext]_vars

-----------------------------------------------------------------------------
(* Properties *)

\* As long as no constructor has run beside a close(), the handles in use all
\* have the segment that the name stands for, with its size, however their
\* constructors were interleaved and whoever was killed.
OneSegment ==
    ~overlap =>
        \A h \in Handles : pc[h] = "ready" => fd[h] = bound /\ bound \in sized

\* One of the processes that share a segment has been told that it created it,
\* and no more than one: the Named* classes initialise it on that.
OneCreator ==
    /\ \A h, u \in created : fd[h] # 0 /\ fd[h] = fd[u] => h = u
    /\ (\E h \in Handles : pc[h] = "ready") => created # {}

\* When every handle made has been closed nothing is left: of two that close
\* at the same time one at least finds itself the last.
NoLeak ==
    (\A h \in Handles : pc[h] \in {"new", "closed"})
        => bound = 0 /\ ~dir /\ pids = {}

InUse(h) == pc[h] \in {"trunc", "stat", "register", "ready"} /\ fd[h] = bound

\* "Unlink the shared memory segment if it is no longer in use": close()
\* unlinks no segment that another handle has mapped or is mapping.
UnlinkOnlyUnused ==
    [][bound # 0 /\ bound' = 0 => \A h \in Handles : ~InUse(h)]_vars

\* The same as long as no constructor has run beside a close(): of handles
\* that are closed at the same time, processes killed among them, only the
\* last one unlinks.
UnlinkInTurn ==
    [][bound # 0 /\ bound' = 0 /\ ~overlap => \A h \in Handles : ~InUse(h)]_vars
=============================================================================
