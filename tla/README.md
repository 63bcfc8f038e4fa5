# A TLA+ verification of pyfastipc

pyfastipc gives Python processes synchronisation over POSIX shared memory: a
mutex, a counting semaphore and an event built on Linux futexes, a shared
memory segment that the last user removes, a ring buffer of messages, and a flat
layout for trees of arrays. Its
tests run each of these in one or two processes for a moment. What goes wrong in
such code goes wrong between two instructions of two processes, so this project
models the code one shared access at a time.

Paths below are those of the repository: `src/src/fastipc/...` for the package,
`_primitives.c` for `src/src/fastipc/_primitives/_primitives.c`.

## 1. The system

| Component | State | Operations | Who shares it |
|---|---|---|---|
| `Mutex` (`_primitives.c`), `NamedMutex` | 64 bytes: futex word (0 free, 1 locked, 2 contended), owner PID, diagnostics | `acquire`, `acquire_ns`, `try_acquire`, `__enter__`, `release`, `try_release`, `force_release`, `owner_pid` | threads of any process that maps the bytes; threads of one process also share the GIL, which is dropped around futex calls only |
| `Semaphore`, `NamedSemaphore` | 64 bytes: count (the futex word), diagnostics | `post`, `post1`, `wait`, `wait_ns`, `value` | as above |
| `FutexWord`, `NamedEvent` | one 4-byte word | `set`, `clear`, `wait`, `is_set` | as above |
| `GuardedSharedMemory` | the name of a segment, the segments, a directory with one file per PID | constructor (attach or create), `close`, `unlink`, `detach`, `__del__`, `atexit` hook | all processes that use the name; no lock anywhere |
| `NamedHistoryBuffer` | header with `msg_idx` and an embedded mutex; slots with size, two versions and payload; metadata | `create`, attach, `publish`, `get_latest`, `get_meta` | writers under the mutex, readers without it |
| Named\* constructors | the segment they have just made | the one with `created` initialises it | processes that attach do not wait for the initialisation |
| `AtomicU32`, `AtomicU64` | one word | load, store, exchange, add | not used inside the package |
| `nptree/schema.py` | the caller's buffer | layout, size, validation, serialisation and parsing of trees of arrays | views that parsing has handed out |
| `NamedQueue` | header of sizes, mode, head, tail, mutex | `create`; a constructor that always raises; no put or get | processes that create the same name |

How they interact: every Named\* class owns a `GuardedSharedMemory` and puts a
primitive on its buffer, using `created` to decide who initialises it. The
history buffer embeds a `Mutex` in its own segment.

What is hard, and what makes each part correct:

* **Mutex.** Two words are written in two steps (futex word, owner word), by
  threads of other processes that nothing serialises. A thread that sleeps has
  to be found by a later release. Processes die holding the mutex. Correct means:
  one holder; no sleeper forgotten; the owner word good enough for `release()`
  and for recovery.
* **Semaphore.** Load, compare-exchange, sleep and wake are separate; wake-ups
  are made only at the step from 0; arguments are cut to 64 and checked against
  32 bits. Correct means: it is a pool of tokens, and a waiter is served when
  there is a token.
* **Event.** `set()` stores, then wakes; `clear()` may come in between; the
  creator stores 0 when others are at work already.
* **Shared memory.** Create, size, map and register are four steps, close
  another six, any process may be between any two of them or be killed there.
  Correct means: those who come up together get one segment and one creator;
  no segment is removed in use; nothing is left behind.
* **Named\* constructors.** Whoever has `created` initialises the segment, and
  nobody waits for it. Correct means: one initialises, and nothing that users do
  is wiped out, at least not what its creator does or those who come when it has
  returned.
* **History buffer.** Readers take no lock; the ring may go round under them.
  `create()` does not ask whether the buffer exists and starts with the magic
  number. Writers die with a slot half written. Correct means: the slots hold
  the last messages, each in its place, and a reader that is not overtaken gets
  the latest.
* **nptree.** Offsets, sizes and alignment have to fit together for arrays of no
  bytes as well; a call may raise when half of the leaves are written; a slice
  assignment may resize the buffer. Correct means: what is serialised comes back,
  and nothing else is touched.

The hazards, each with its line and the properties that would catch it, are in
`PROJECT.json`.

## 2. The modules

| Module | Models | Notes |
|---|---|---|
| `Lock` | what a mutex promises | one set, `holds`; abstract |
| `Mutex` | `FutexMutex_*`, `NamedMutex` | refines `Lock` |
| `TokenPool` | what a semaphore promises | abstract |
| `Semaphore` | `FutexSemaphore_*`, `NamedSemaphore` | refines `TokenPool` |
| `Event` | `FutexWord_*` as `NamedEvent` uses it, and its constructor | |
| `SharedMemory` | `GuardedSharedMemory` | |
| `NamedObjects` | the constructors of `NamedMutex`, `NamedSemaphore`, `NamedEvent`, and `NamedQueue.create()` | extends `SharedMemory`: each of its steps is a step of the segment or of a constructor's own |
| `HistoryBuffer` | `NamedHistoryBuffer` | composed with `Lock` for its embedded mutex |
| `NpTree` | `nptree/schema.py` | the functions as operators, and a caller that uses one layout and one buffer for several calls |
| `MC*` | the instances for TLC | thread/process assignments, symmetry, argument sets |
| `*Proofs` | the theorems, one module for each of `Mutex`, `Semaphore`, `Event`, `SharedMemory`, `NamedObjects`, `HistoryBuffer` and `NpTree` | `NamedObjectsProofs` extends `SharedMemoryProofs` |

### Correspondence with the code

A thread's place in a call is `pc`. Each action is named for what it does to
shared state: in `Mutex`, `AcqCas`, `AcqSpin`, `AcqXchg` are the three ways the
word is taken, `FutexWait` the system call with its comparison, `AcqOwn` the
store of the PID; `RelCheck`, `RelXchg`, `RelOwner`, `RelWake` the four steps of
`release()`. `acquire`, `acquire_ns` (with a negative, zero or positive
timeout), `__enter__` and `try_acquire` are paths through these actions chosen
by `op`. The definitions before an action with a longer name (for instance
`RelCheckUnguarded`) are mistakes somebody could have made in its place; they
serve to show that a property depends on the line.

*GIL.* C code in the extension runs with the GIL, so a thread at one of
`GilLabels` excludes its siblings (`GilFree`); around the futex calls
(`Py_BEGIN_ALLOW_THREADS`) it does not. Threads of other processes run at any
time.

*Kernel.* FUTEX_WAIT compares and sleeps in one step; FUTEX_WAKE takes any
sleepers out of the queue, as many as asked for or all there are; a sleeper may
be interrupted (EINTR) or time out at any moment. These are modelled from how
the code uses them and are marked external, like the death of a process.

*Left out on purpose.* The diagnostics (`magic`, `last_acquired_ns`,
`last_pid`); the word accesses are sequentially consistent, while the code asks
for acquire and release orders (on one word they give the same order; the owner
word and the futex word are only read together by recovery code). Timeouts have
no length: they expire at any moment. `shared=False` differs in the kernel's
hash of the queue only.

*Assumptions of the callers.* `release()` is called by the thread that holds the
mutex, or by one of a process in which nobody does (that is `try_release()` by a
stranger). A thread that holds the mutex does not call `acquire_ns()` without a
timeout or `__enter__()` again. `force_release()` is called by one recoverer and
for an owner that is dead; the recoverer does not block for ever itself.

In `SharedMemory`, `Patient` says that the 128 attempts of the constructor are
enough for a live creator to get from `shm_open` to `ftruncate`. `Detach` is a
`detach()` on its own, which leaves the process registered. The history
variable `overlap` becomes true when a constructor and a `close()` run at the
same time; nothing prevents that, but what the code promises then is less, and
the properties say which of them need it false.

In `NamedObjects` the header of a segment is the set of traces left in it: the
users that have locked, posted or set, or the fields of a queue. A constructor
that initialises removes traces, a method adds one. That is all the properties
have to tell apart, and it makes one module of four classes. `tail` is where a
constructor is once it has its segment, and "used" once a method has been called.
The history variable `late` has the handles that opened a segment nobody was still
to initialise. A `NamedQueue.create()` that raises, or a `NamedSemaphore()` whose
`initial` is out of range, leaves its handle to the `atexit` hook.

In `HistoryBuffer` a slot is one unit for its header and `SlotUnits` units of
payload, copied one at a time; a unit holds the number of its message. A writer
is a process of its own (the mutex refuses siblings). The clock readings that
become `start_version` and `end_version` are strictly increasing. `create()` is
five actions, the magic number first; a process attaches once that is there, and
may then find `num_slots` 0, in which case `publish()` fails in its division and
releases the mutex. The metadata, read as a slot header, is a size and two
versions larger than any other. A writer may die in any call. The mutex is that of
`Lock` with its owner word, since `release()` looks at the word: it is cleared when
the mutex is free already (`ClearOwner`), perhaps under the next holder, whose
`release()` then raises and leaves the mutex locked. The three sizes that
`create()` stores are one action: who writes between two of them does so beside a
`create()`, and a slot is written anew before it is published in a sound buffer. The history
variable `health` is "spoilt" from the moment a `create()` runs beside another
call, or dies, until one has run by itself. While it is, the properties say
nothing, since such a `create()` resets `msg_idx` and frees the mutex under a
writer. All calls of `create()` have the same sizes.

In `NpTree` a tree is its structure and its leaves in the order `tree_map()`
visits them, an array its dtype and shape, and a byte says which call stored it,
for which leaf and at which index. A layout leaf is the parsed form of the
string: the dtype comes back through `np.dtype(dtype.str)` (`Restored`), which
turns a structured dtype into plain void. `memoryview.cast("B")` accepts native
formats only (`Castable`) and no empty array; `np.frombuffer()` makes no array of
object references (`Objects`) or of items of no bytes, not even an empty one
(`Readable`). A `bytearray` takes a slice of
another length and shifts what follows, unless an array of an earlier
`deserialize_nptree()` still views it (`held`).

In `Mutex`, a thread that dies when a sleeper depends on it (between freeing a
contended word and FUTEX_WAKE, or on its way from the queue back to the word) is
marked "killed", any other "dead".

## 3. The runs

Runs that must pass:

| Run | Instance | Shows |
|---|---|---|
| `mutex_safe` | 2 threads of a process and 1 of another, every method, any process killed at any step | refinement of `Lock` although ownership is per process (it is the GIL that keeps the siblings apart); no lost wake-up whoever is killed, unless it is the thread that owes one; the owner word never names a live process that has nothing to do with the mutex |
| `mutex_recovery` | 3 processes that may exit with the mutex, one recoverer, fair | nobody stays blocked beside a free mutex, or, thanks to `force_release()`, behind a holder that has exited; exclusion holds throughout |
| `semaphore_pool` | 3 threads in 2 processes, arguments at each boundary, killed at any step | refinement of `TokenPool`; the count stays in range |
| `semaphore_lone` | 2 threads post, 1 waits, fair | the only waiter is woken and its `wait()` returns |
| `event_wake` | 3 threads, fair | nobody is left asleep on a set event; `set()` and an immediate `clear()` wake those who slept |
| `shm_named` | 4 processes with a handle each, one `attach_only`, a bare segment, mutex, semaphore, event or queue, everything overlapping, killed at any step | one segment with its size for all and no unlinking in use as long as no constructor has met a `close()`; and in any case one creator, nothing left after the last `close()`, nothing wiped out that the creator did or one that came when it had returned or been killed, one `create()` of a queue that returns and a full header then |
| `history_ring` | 2 writers that create, attach, publish and die, 1 reader, 2 slots, 4 messages, 2 creates | slots hold the last messages; a reader that is not lapped gets the latest; the versions show a payload in pieces |
| `nptree` | all trees of 1 or 2 leaves over 10 arrays and a leaf that is none, 3 alignments, 3 calls with the tree or one that differs in a leaf or the structure | leaves aligned, disjoint and within the size; a tree that the layout fits comes back whatever the buffer has been through, unless an empty array in it has a dtype that cannot be read; no byte outside the leaves changes, even when a call raises half way |

Runs that must fail, each showing that the code does not do what its
documentation says (`PROJECT.json`, "findings", has the quotations):

| Run | What happens |
|---|---|
| `mutex_owner` | `release()` frees the word, another process takes it and stores its PID, the late store of 0 erases it; the new holder's `release()` raises and the mutex stays locked |
| `semaphore_delivery` | two sleepers, two posts: the second sees a count of 1 and wakes nobody; a thread sleeps on beside a token |
| `shm_overlap` | `close()` unlinks a segment that a process has mapped and not registered for yet |
| `named_wipe` | a process attaches to a named mutex that its creator has sized and not yet initialised, and acquires; the creator's `force_release()` takes the mutex from it (semaphores and events alike) |

### Bounds, and why they are enough

* *Threads.* Three is the least number with a holder, a sleeper and a third that
  comes at the wrong moment; the lost wake-ups and the erased owner need no more.
  The theorems have no bound on them.
* *Spin = 1.* A second iteration repeats the first; 0 is a case of its own
  (section 4).
* *Word sizes.* The semaphore runs with `UIntMax` 3, `IntMax` 2 and `UllMod` 8 in
  place of 2^32-1, 2^31-1 and 2^64. The order of the three is what the code
  depends on, and the arguments lie on both sides of each.
* *Calls.* No bound on the number of calls: the state spaces of `Mutex`,
  `Semaphore` and `Event` are finite without one. A handle of `SharedMemory` is
  made and closed once, as an object is, and each is in a process of its own.
  `HistoryBuffer` begins no message after `MaxMsgs` = 4, twice round a ring of
  two slots, or after `MaxSpoilt` = 2 when it is spoilt, where the properties say
  nothing until the next `create()`; there are `MaxCreates` = 2 of those, the
  first and one that finds a buffer, in use or not.
* *Trees.* Two leaves (`MaxLeaves`) are a leaf and what follows it. The arrays
  are a scalar, an empty one, sizes at, below and above the alignment, two shapes
  of the same bytes, dtypes that cannot be cast or restored, object arrays with and
  without elements and an array of items of no bytes; the alignments
  are 1, 4 and the invalid 3. Three calls (`MaxCalls`) are one that fails or
  resizes, one that parses and one that is checked.
* *Deadlock* is checked in the semaphore and event runs without death. It is not
  where the system may stop: all processes killed, all handles closed, the bound
  on messages reached.

### Fairness, and what justifies it

* A thread inside a call goes on (`WF` of `Inside`): the operating system
  schedules it.
* A thread back from a futex call gets the GIL (`SF` of `TakesGil`): CPython
  makes the running thread give it up on request, and here it is free again and
  again.
* A finite timeout expires (`WF`).
* A holder of the mutex releases it (`SF` of `Unlocks`): without that no lock is
  live; strong, because the call has to find the GIL free.
* A compare-exchange of the semaphore that can succeed again and again does (`SF`
  of `PostCas`, `WaitCas`): a thread may lose one race after another, but not for
  ever. Weak exchanges may fail for no reason, so weak fairness says nothing here.
* A recoverer that sees a dead owner again and again acts (`SF`), and its call
  goes on.
* Nothing is assumed of EINTR, of spurious failures, of calls being made, or of
  `set()`, `clear()` and `post()` being called at all.

## 4. Where the code and its documentation disagree

Four disagreements have a run (section 3). The following were met while
modelling; the models contain the behaviour, and the properties are stated so
that the exception shows.

* `acquire()` in a thread raises RuntimeError when a sibling thread holds the
  mutex (`_primitives.c:620` compares PIDs), where `named_mutex.py:41` says
  "blocking until it is available". In `Mutex`: `AcqCheck`.
* A process killed between the exchange and the wake of `release()`
  (`_primitives.c:551-560`) leaves sleepers, state 0 and its PID. A later
  `force_release()` exchanges 0 for 0 and wakes nobody, where
  `named_mutex.py:89` says "Use to recover from crashed holders; wakes one waiter
  if contended". Hence `NoLostWakeup` ends when such a thread is killed, and
  `Progress` is stated for processes that exit outside the extension.
* `wait(spin=0)` of the semaphore never takes a token, and with one present
  loops for ever, timeout or not (`_primitives.c:956`). `LoneWaiterServed` is
  checked with `spin` at 1.
* `wait()` on an event that is set already returns False (`_primitives.c:130`),
  where `named_event.py:43` says "True if the event was set, False if it timed
  out". In `Event`: `FutexWait`.
* The creator of a named object initialises it when others may have it already
  (run `named_wipe`): it stores 0 over a `set()` (`named_event.py:23`), takes the
  mutex from a holder (`named_mutex.py:34-35`), or overwrites posted tokens
  (`named_semaphore.py:35`). `UseKept` fails; `LateUseKept` is what remains of it,
  for the creator and for those who open the segment when it has returned. In
  `Event`: `InitStore`; in `NamedObjects`: `MutexForceRelease`, `MutexZero`,
  `SemaphoreInitial`, `EventClear`.
* `NamedSemaphore(name, initial=...)` with a value that is no `uint32_t` raises
  OverflowError (`_primitives.c:842-851`) when the segment exists, which others then
  find uninitialised. In `NamedObjects`: `SemaphoreInitial`.
* `NamedQueue.create()` is annotated to return a queue and returns None
  (`named_queue.py:129`, no return statement); `NamedQueue(name)` passes
  `try_create`, which `GuardedSharedMemory` does not have, and raises TypeError
  (`named_queue.py:106`). A `create()` with an unknown mode raises after it has
  made the segment (`named_queue.py:148`), so that the next one with a good mode
  raises FileExistsError until the first process exits. In `NamedObjects`:
  `QueueMode`.
* All handles of a process share one PID file, so that closing one of them
  unlinks the segment under the others (`guarded_shared_memory.py:323`);
  `shm_named` has one handle per process.
* A constructor with `attach_only` that fails is finalised by `close()`, which
  unlinks the name (`guarded_shared_memory.py:282`), perhaps that of a segment
  just made. In `SharedMemory`: the label "failed"; it counts as `overlap`.
* `get_latest()` that is lapped returns the size of one message with bytes of
  another: `LatestUnlessLapped` excepts it. The comment at
  `named_history_buffer.py:202` says that a check of the versions is needed.
* The metadata of a history buffer are lost with the first message:
  `calc_meta_offset()` returns the offset of slot 0 (`named_history_buffer.py:35`
  and `:38`), although `calc_total_size()` makes room for them behind the slots, so
  that `publish()` stores a slot header and a payload over them, where
  `named_history_buffer.py:140` says of `get_meta()` "Retrieve the metadata string
  stored in the history buffer". In `HistoryBuffer`: `MetaOffset`, `CreateMeta`.
  Until slot 0 has been written its versions are bytes of the metadata: hence
  `VersionsTell` counts a slot once it is published.
* `create()` of a history buffer that exists does not raise and does not look at
  `created`; it resets `msg_idx` and the mutex under the users
  (`named_history_buffer.py:111-122`), where line 97 says "Create a new
  NamedHistoryBuffer". The properties except one beside other calls.
* `serialize_nptree()` compares the structure only (`schema.py:106`), where
  `schema.py:104` says "ValueError if `nptree` does not match `layout`": a leaf of
  another size is accepted, resizes the `bytearray` and shifts what follows
  (`schema.py:121`), and one that is not an array raises AttributeError when the
  leaves before it are written. In `NpTree`: `SerializeLeaf`; `RoundTrip` and
  `OnlyLeavesWritten` are about trees that `validate_layout()` accepts.
* An empty array of an object dtype, or one whose items have no bytes, is laid out,
  validated and passed over by `serialize_nptree()` (`schema.py:117`), and
  `deserialize_nptree()` then raises (`schema.py:148`) although the buffer is large
  enough, where `schema.py:136` says "ValueError if buffer is too small". In
  `NpTree`: `Readable`; `RoundTrip` names the exception.
* An array of a structured dtype can be laid out, but neither validated (its
  dtype comes back as void) nor serialised.

## 5. The proofs

Proved by TLAPS for any number of threads and processes, any assignment of
threads to processes and any values of the other constants within the named
`ASSUME`s.

**Mutex** (`MutexProofs`). Except for recovery, these are theorems of
`CrashSpec`: every method, any process killed at any step. The inductive invariant `MutexInv` adds to exclusion
and `OwnerNeverWrong` what they rest on: only one thread of a process is inside
the extension (`GilExclusive`), the threads of a process die together
(`DeadTogether`), the word is not 0 while somebody holds the mutex and whoever is
between taking and giving back the word is a holder (`HolderInv`), and what the
caller of `release()` knew is still true when the owner word is looked at
(`ReleaseInv`). Exclusion alone is not inductive: `release()` looks at the owner
word and not at the holder, so one has to know that a live process found there
has a thread that holds the mutex, and that it is the caller. From `MutexInv`
follow `MutexExclusion`, `MutexOwner` and the refinement `MutexRefinesLock`. The
last adds little to exclusion, as `holds` is not a word of the code; it is stated
because `HistoryBuffer` uses the mutex through `Lock`.
`MutexWakeups` needs only the types: `SleepersCovered` is preserved by each step
of a thread (`StepCovered`); a process that dies takes nobody with it whom a
sleeper depends on, unless it leaves the mark "killed" (`CrashCovered`), and that
mark stays (`StepKeepsKilled`).
With recovery (`ExitSpec`: processes exit outside the extension, with or without
the mutex) exclusion needs one more fact, `RecoverInv`: while the owner word names
a dead process nobody has the mutex and the word is not 0, unless
`force_release()` has just set it free. `RecoveryExclusion` and
`RecoveryRefinesLock` state as their hypothesis that there is one recoverer
(`OneRecoverer`); with two, the second may have seen the dead owner that the first
has dealt with. `RecoveryWakeups` does not need it.

**Semaphore** (`SemaphoreProofs`). `SemaphoreInv` is the types and `CallInv`, which
bounds the expected value and the increment of an exchange about to be made
(`cur + add` fits, `cur > 0` for a waiter) and so keeps the count in range however
stale the loaded value is, since an exchange on a stale value fails. It also ties
the result recorded for a call to its place, so that every step is one of
`TokenPool` or changes nothing there (`SemaphoreRefinesPool`).
`SemaphoreLoneWaiter` rests on `LoneInv`: with a single waiter, a sleeper with
tokens beside it means that a post from 0 is on its way to wake. For two waiters
this is false, see `semaphore_delivery`.

**Event** (`EventProofs`). `EventWakes`, from the observation that every store of
1 is followed by a wake of all, and that nobody falls asleep on a 1.

**Shared memory** (`SharedMemoryProofs`). `CreateOneSegment`: with no `close()`
(`Closers` and `AttachOnly` empty, and `Patient`, which the theorem assumes), any
number of processes that construct the segment at once share one, and exactly one
of them is told that it created it. The invariant `CreateInv` says that there is
at most one segment, that only its creator is between creating and sizing it, and
that nobody else gets past `fstat` before.
`OneCreatorAlways` assumes none of that: for any handles, closes and kills, in any
overlap, no two users of a segment were told that they created it, and nobody has
a segment before somebody was. Its invariant `CreatorInv` extends uniqueness to
the handle that has created a segment and not yet sized it (`Maker`): the numbers
of segments grow, and a handle that has created one never opens another.
`NothingLeft` (`NoLeak`) assumes nothing either. Its invariant `LeakInv` says who
still has to tidy up while nobody has been killed: a PID file belongs to a handle
that will remove it, and a name or a directory is left to a handle that has yet to
look whether it is the last.
`OneSegmentAlways` and `UnlinkLast` are about one handle per process
(`OnePerProcess`), which each of them states as its hypothesis: the PID file is
named for the process, so with two handles it stands for neither (section 4). The
invariant `SegmentInv` says that, as long as no constructor has met a `close()`,
whoever has a segment open has the one of the name, and that nobody uses it when a
handle is about to unlink; a handle in use has its PID file there in any case.

**Named objects** (`NamedObjectsProofs`). `LateUseAlwaysKept`: whatever is closed,
killed and created anew, what the creator of an object does with it, or one that
opened it when the creator had returned or died, is in its segment as long as it has
that. Its invariant `LateInv` says that whoever is half way through an
initialisation is a creator (the second step of a constructor, `MutexZero` or
`QueueMode`, does not look at `created` again), and that nobody is still to
initialise the segment of a handle in `late`: a segment made later has a new number.
So a handle that initialises has nobody of `late` in its segment, and by
`CreatorInv` no other creator.
Each step of a constructor or a method is a step of `SharedMemory` or leaves its
variables alone, by the way the module is written (the lemma `NamedIsSegment`);
`NamedNothingLeft` and `NamedOneSegment` carry the theorems about the segment over.
`QueueCreatedOnce` (`QueueOnce`) needs `QueueInv`, which ties the fields stored in
the header to the place of the one creator of its segment, and `RoomInv`, that a
handle makes one segment at most, so that there is a header for each: the model has
as many as there are handles, hence the assumption that `Handles` is finite.

**History buffer** (`HistoryBufferProofs`). `HistoryAlwaysIntact`, `LatestIsWhole`
and `VersionsAlwaysTell`, for any writers, readers, slots, messages and creates,
with writers that die in any call. The invariant `HistoryInv` has the types, with
the places of memory a call may reach (`TypeInv`), what a `create()` under way
means for `health` (`MakingInv`), and, while the buffer is sound, `SoundInv`:
`RingInv`, that every slot but the one being replaced holds its message;
`TellsInv`, the versions of every published slot; `AtWork`, which says for each
place of a writer in `publish()` which fields and how many units of its slot are
stored; `LooksAt`, that what a reader has copied so far is
of the message it looked up, unless it has been lapped. `HistoryIntact` alone is
not inductive: that the slot of a message is whole when `msg_idx` moves on follows
only from the order in which `publish()` stores its parts.

**nptree** (`NpTreeProofs`). `LayoutAlwaysSound`, `AlwaysRoundTrip` and
`WritesOnlyLeaves`, for trees of any number of arrays, of any shapes and dtypes,
any alignment and any number of calls; the one exception, a tree with an array of no
bytes and a dtype that `np.frombuffer()` refuses, is part of `RoundTrip`. What they
need of the state is little
(`NpTreeInv`: the layout is the one built, the buffer is a byte array, and it holds
the bytes of the last call that returned, whose arrays have no bytes or a dtype that
could be cast, and so can be read). The rest is about the recursive
functions of the model: `Products`, `Offsets` and `SerializeLeaves`. Induction over
them is done with sets: `LeastNumber` takes the least number from the
well-foundedness of inclusion on finite sets, `CountUp` is induction up to a bound
with a set in place of a predicate, and `Recursion` that a recursive definition
over an interval has a solution. From these follow that offsets grow by at least
the size of the leaf before (`LaidInOrder`), that the size of the buffer is the
end of the last leaf and less than one alignment beyond the last byte
(`LaidSize`, `LaidTight`), what an assignment to a slice does (`SliceAssigned`), and
that after i leaves the buffer has its length, the bytes between the leaves and
those of the first i arrays (`LeavesStored`).

Only model-checked: liveness (`Progress`, `LoneWaiterServed`, `PulseWakes`), since
the prover does not handle fairness.

## 6. Not modelled

* `unlink()` called directly (the handle then never unlinks again, not even a
  later segment of the name, `guarded_shared_memory.py:268`), segments of
  different sizes under one name, reuse of PIDs, failures of permission or memory.
* Lengths of time: each turn of the semaphore's loop starts the whole timeout
  again, which needs a model of time.
* Use of a primitive after its segment has been closed: the C objects keep a
  bare pointer. That is undefined behaviour below the level of the models.
* `get_latest(copy=False)`, which hands out a view of the ring.
* Creates of one history buffer with different sizes.
* `NamedQueue(name)`, which raises before it does anything; `AtomicU32` and
  `AtomicU64`, single atomic accesses with nothing built on them; representations,
  type tables, packaging and re-exports, which have no behaviour.
* Several handles of one process on one name (section 4), and a `max_attempts` that
  runs out under a live creator (`Patient`).
* Two recoverers: `force_release()` takes the mutex from whoever has it, so the
  second may take it from a live holder. The docstring says as much ("regardless
  of owner").

## 7. Plan

Done: all components of section 1 except `AtomicU32` and `AtomicU64`, with their
runs; the theorems of section 5.

What is left: every safety property that a run checks has a theorem. Beyond them,
a model of time for the timeouts of the semaphore, and of several handles of one
process on a name, would reach the hazards that have no property yet.
