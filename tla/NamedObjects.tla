---------------------------- MODULE NamedObjects ----------------------------
(***************************************************************************)
(* The classes built on GuardedSharedMemory: what the constructors of      *)
(* NamedMutex, NamedSemaphore and NamedEvent and NamedQueue.create() do    *)
(* with a segment once they have it, and how that meets the use that other *)
(* processes make of it already.  All handles have one name, which is the  *)
(* name of an object of one kind; "raw" is a GuardedSharedMemory alone.    *)
(*                                                                         *)
(* The header of a segment is the set of the traces that are in it: the    *)
(* users that have left one (a lock taken, a token posted, an event set)   *)
(* or the fields of a queue that have been stored.                         *)
(*                                                                         *)
(* NamedQueue(name) is left out: it gives GuardedSharedMemory an argument  *)
(* that it does not have, and raises TypeError before it does anything.    *)
(***************************************************************************)
EXTENDS SharedMemory

CONSTANT Kinds    \* the kinds of object that are tried

ASSUME NamedAssumption ==
    /\ Kinds \subseteq {"raw", "mutex", "semaphore", "event", "queue"}
    /\ IsFiniteSet(Handles)

VARIABLES
    kind,         \* what the name is a name of
    hdr,          \* the header of each segment
    tail,         \* where each handle's constructor is after the segment
    late          \* history: handles of a named object whose segment nobody was
                  \* still to initialise when they opened it

namedVars == <<kind, hdr, tail, late>>

allVars == <<vars, namedVars>>

\* "shm": not yet past GuardedSharedMemory(); "open": the object is made;
\* "used": one of its methods has been called.
Tails == {"shm", "zero", "mode", "open", "used", "raised"}

NamedInit ==
    /\ Init
    /\ kind \in Kinds
    /\ hdr = [s \in 1..Cardinality(Handles) |-> {}]
    /\ tail = [h \in Handles |-> "shm"]
    /\ late = {}

\* Handle h goes on at `label' and leaves header H in its segment.
Store(h, H, label) ==
    /\ hdr' = [hdr EXCEPT ![fd[h]] = H]
    /\ tail' = [tail EXCEPT ![h] = label]
    /\ UNCHANGED <<vars, kind, late>>

InTail(h, k, label) == kind = k /\ pc[h] = "ready" /\ tail[h] = label

-----------------------------------------------------------------------------
(* The rest of the constructors *)

InitialisesAlways(h) == TRUE

\* getattr(self._shm, "created", ...)
Initialises(h) == h \in created

\* NamedMutex of a new segment: force_release(), then 64 zero bytes.
MutexForceRelease(h) ==
    /\ InTail(h, "mutex", "shm") /\ Initialises(h)
    /\ Store(h, {}, "zero")

MutexZero(h) ==
    /\ InTail(h, "mutex", "zero")
    /\ Store(h, {}, "open")

\* NamedSemaphore of a new segment stores `initial', if it was given one, and
\* raises OverflowError if that is not a uint32_t.
SemaphoreInitial(h) ==
    /\ InTail(h, "semaphore", "shm") /\ Initialises(h)
    /\ \/ \E H \in {{}, hdr[fd[h]]} : Store(h, H, "open")
       \/ Store(h, hdr[fd[h]], "raised")

\* NamedEvent of a new segment stores 0.
EventClear(h) ==
    /\ InTail(h, "event", "shm") /\ Initialises(h)
    /\ Store(h, {}, "open")

\* The three of a segment that was there leave it alone.
Attach(h) ==
    /\ \E k \in {"mutex", "semaphore", "event"} : InTail(h, k, "shm")
    /\ ~Initialises(h)
    /\ Store(h, hdr[fd[h]], "open")

\* NamedQueue.create(): FileExistsError.
QueueExists(h) ==
    /\ InTail(h, "queue", "shm") /\ ~Initialises(h)
    /\ Store(h, hdr[fd[h]], "raised")

\* The magic number and the sizes.
QueueMagic(h) ==
    /\ InTail(h, "queue", "shm") /\ Initialises(h)
    /\ Store(h, {"magic"}, "mode")

\* QueueMode.from_str() refuses an unknown mode; else the mode, head and tail.
QueueMode(h) ==
    /\ InTail(h, "queue", "mode")
    /\ \/ Store(h, hdr[fd[h]], "raised")
       \/ Store(h, hdr[fd[h]] \cup {"mode"}, "open")

\* A method of the object leaves its trace in the header.
Use(h) ==
    /\ kind # "queue" /\ pc[h] = "ready" /\ tail[h] \in {"open", "used"}
    /\ Store(h, hdr[fd[h]] \cup {h}, "used")

NamedStep(h) ==
    \/ MutexForceRelease(h) \/ MutexZero(h) \/ SemaphoreInitial(h)
    \/ EventClear(h) \/ Attach(h)
    \/ QueueExists(h) \/ QueueMagic(h) \/ QueueMode(h) \/ Use(h)

\* Handle h has made its segment and is still in its constructor.
Initialising(h) ==
    /\ tail[h] \in {"shm", "zero", "mode"}
    /\ \/ pc[h] = "trunc"
       \/ h \in created /\ pc[h] \in {"stat", "register", "ready"}

\* The name stands for a named object that nobody is still to initialise.
Settled ==
    /\ kind # "raw" /\ bound # 0
    /\ \A u \in Handles : fd[u] = bound => ~Initialising(u)

\* The segment's own steps.  Only a bare segment is attached to with
\* attach_only, or detached, and nothing closes it under a constructor.  atexit
\* keeps the handle of a constructor that raised until the process exits.
SegmentStep(h) ==
    /\ Step(h)
    /\ pc[h] = "new" /\ h \in AttachOnly => kind = "raw"
    /\ pc[h] = "ready" => kind = "raw" \/ tail[h] \in {"open", "used", "raised"}
    /\ pc'[h] = "detached" => kind = "raw"
    /\ late' = IF pc[h] = "open"
               THEN {u \in late \cup {h} : u = h => Settled}
               ELSE late
    /\ UNCHANGED <<kind, hdr, tail>>

NamedNext ==
    \/ \E h \in Handles : SegmentStep(h) \/ NamedStep(h)
    \/ \E p \in Pids : Crash(p) /\ UNCHANGED namedVars

NamedSpec == NamedInit /\ [][NamedNext]_allVars

-----------------------------------------------------------------------------
(* Properties *)

\* The effect of what handle h did is in the segment it has.
Effective(h) == tail[h] = "used" /\ fd[h] # 0 => h \in hdr[fd[h]]

\* Nothing that a user of the mutex, the semaphore or the event did is undone
\* by a constructor while it has the object: force_release() in NamedMutex() is
\* for crashed owners, and `initial' is a count to begin with.
UseKept == \A h \in Handles : Effective(h)

\* The same for the process that created the segment and for those that opened
\* it when that one had returned from its constructor, or had been killed in
\* it: whoever comes, closes or is killed later, and whatever segments take the
\* name in turn, nobody initialises a segment a second time.
LateUseKept == \A h \in late \cup created : Effective(h)

\* Of the processes that create a queue of one name at most one returns for
\* each segment, and with all of the header stored.
QueueOnce ==
    kind = "queue" => \A h, u \in Handles :
        tail[h] = "open" /\ fd[h] # 0 =>
            /\ hdr[fd[h]] = {"magic", "mode"}
            /\ tail[u] = "open" /\ fd[u] = fd[h] => h = u
=============================================================================
