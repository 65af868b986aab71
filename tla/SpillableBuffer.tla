-------------------------- MODULE SpillableBuffer --------------------------
(***************************************************************************)
(* The spillable buffers of python/cudf/cudf/core/buffer, as threads of    *)
(* one process use them: the device <-> host move of a                     *)
(* SpillableBufferOwner, its RLock, the spill locks that pin it, permanent *)
(* exposure, and the SpillManager's sweep over all buffers, which runs     *)
(* when a buffer is added, when one is exposed, and inside a device        *)
(* allocation that ran out of memory (spill on demand).                    *)
(*                                                                         *)
(* The bytes of a copy are abstracted to whether they are the buffer's     *)
(* CURRENT contents or a STALE version, relative to the last write through *)
(* a device pointer.  Sizes are abstracted too: Capacity counts buffers,   *)
(* and a sweep visits its snapshot in any order and may have freed enough  *)
(* after any buffer it spilled (the sizes, the limit and the access-time   *)
(* order are the subject of module SpillManager).                          *)
(***************************************************************************)
EXTENDS Integers, FiniteSets

CONSTANTS
  Threads,      \* Python threads
  Owners,       \* SpillableBufferOwner objects
  Frames,       \* frames returned by SpillableBuffer.serialize
  None,         \* no thread, no buffer
  Capacity,     \* device memory, in buffers
  HasLimit,     \* is CUDF_SPILL_DEVICE_LIMIT set
  Calls,        \* the API calls the threads make
  MaxDepth      \* bound on nested acquire_spill_lock contexts

ASSUME CapacityAssumption == Capacity \in Nat
ASSUME LimitAssumption == HasLimit \in BOOLEAN
ASSUME CallsAssumption ==
  Calls \subseteq {"lock_ptr", "expose", "unspill", "spill", "memoryview", "serialize",
                   "create", "host", "copy", "sweep"}
ASSUME DepthAssumption == MaxDepth \in Nat \ {0}
ASSUME NoneAssumption == None \notin Threads \cup Owners \cup Frames
ASSUME FramesAssumption == Frames \cap Threads = {}

VARIABLES
  live,       \* owners that exist
  managed,    \* SpillManager._buffers
  loc,        \* _ptr_desc["type"]
  mv,         \* _ptr_desc["memoryview"]
  dev,        \* the allocation behind _ptr / _owner
  exposed,    \* BufferOwner._exposed
  spillLocks, \* _spill_locks: the threads' and frames' SpillLock objects
  rlock,      \* SpillableBufferOwner.lock
  ctx,        \* _thread_spill_locks: nesting depth of acquire_spill_lock
  held,       \* owners to which a thread has a device pointer in its context
  frame,      \* the owner a serialized frame points into
  th          \* the call each thread is executing

bufVars == <<live, managed, loc, mv, dev, exposed, spillLocks, rlock>>
vars == <<live, managed, loc, mv, dev, exposed, spillLocks, rlock, ctx, held, frame, th>>

----------------------------------------------------------------------------
Current == "current"
Stale   == "stale"
NoData  == "nodata"
Content == {Current, Stale, NoData}
SpillLocks == Threads \cup Frames

\* The calls of the buffer API.  "lock_ptr" and "expose" are get_ptr inside
\* and outside an acquire_spill_lock context; "copy" becomes "copy_host" or
\* "copy_dev" once it has looked at is_spilled.
AccessCalls == {"lock_ptr", "expose", "unspill", "spill", "memoryview", "serialize"}
UnspillOps == {"lock_ptr", "expose", "unspill", "copy_dev"}
SpillOps   == {"spill", "memoryview", "copy_host"}
Ops == UnspillOps \cup SpillOps \cup {"none", "create", "host", "serialize", "copy", "sweep"}
PCs == {"idle", "measure", "snapshot", "sweep", "sweep_dtoh", "acquire", "locked",
        "alloc", "pin", "return", "dtoh", "check", "alloc_new", "finalize", "pop"}

\* A call: op on buffer arg (creating dst), at pc; `carry` is the copy of the
\* data it has in hand.  The sweep it runs, if any: the buffers still to
\* visit, the one being spilled and its copy, whether it spilled any, the pc
\* to return to, and whether gc.collect() was already tried.
Idle == [pc |-> "idle", op |-> "none", arg |-> None, dst |-> None, carry |-> NoData,
         todo |-> {}, victim |-> None, vcarry |-> NoData, spilled |-> FALSE,
         ret |-> "idle", retried |-> FALSE]

Spilled(b) == loc[b] # "gpu"

\* Mutant: spillable forgets the spill locks.
SpillableUnlessExposed(b) == ~exposed[b]

Spillable(b) == ~exposed[b] /\ spillLocks[b] = {}

CallState ==
  [pc : PCs, op : Ops, arg : Owners \cup {None}, dst : Owners \cup {None},
   carry : Content, todo : SUBSET Owners, victim : Owners \cup {None},
   vcarry : Content, spilled : BOOLEAN, ret : PCs, retried : BOOLEAN]

\* threading.RLock: who holds it.  A re-entry (spill's `with self.lock` under
\* its caller's, a sweep that skips the buffer its own thread is unspilling)
\* is over within one action, so the depth is not kept.
CanAcquire(t, b) == rlock[b] \in {None, t}
Acquire(t, b) == rlock' = [rlock EXCEPT ![b] = t]
Release(b) == rlock' = [rlock EXCEPT ![b] = None]

\* Device memory in use, and the room left for one more buffer.
InUse == {b \in Owners : dev[b] # NoData}
Room  == Cardinality(InUse) < Capacity

\* Where a call goes once it is over: the `with acquire_spill_lock()` of a
\* device copy is left before the call returns.
After(t) == IF th[t].op = "copy_dev" THEN [Idle EXCEPT !.pc = "pop"] ELSE Idle

\* Where a sweep returns to.
Return(t) ==
  IF th[t].ret = "idle" THEN After(t)
                        ELSE [th[t] EXCEPT !.pc = th[t].ret, !.retried = FALSE]

\* Thread t goes on with call c.
Goto(t, c) == th' = [th EXCEPT ![t] = c]

----------------------------------------------------------------------------
\* The variables have their types: where each SpillableBufferOwner keeps its data,
\* who pins and locks it, and the step each thread is at.
TypeOK ==
  /\ live \subseteq Owners
  /\ managed \subseteq Owners
  /\ loc \in [Owners -> {"gpu", "cpu"}]
  /\ mv \in [Owners -> Content]
  /\ dev \in [Owners -> Content]
  /\ exposed \in [Owners -> BOOLEAN]
  /\ spillLocks \in [Owners -> SUBSET SpillLocks]
  /\ rlock \in [Owners -> Threads \cup {None}]
  /\ ctx \in [Threads -> Nat]
  /\ held \in [Threads -> SUBSET Owners]
  /\ frame \in [Frames -> Owners \cup {None}]
  /\ th \in [Threads -> CallState]

Init ==
  /\ live = {} /\ managed = {}
  /\ loc = [b \in Owners |-> "gpu"]
  /\ mv = [b \in Owners |-> NoData]
  /\ dev = [b \in Owners |-> NoData]
  /\ exposed = [b \in Owners |-> FALSE]
  /\ spillLocks = [b \in Owners |-> {}]
  /\ rlock = [b \in Owners |-> None]
  /\ ctx = [t \in Threads |-> 0]
  /\ held = [t \in Threads |-> {}]
  /\ frame = [f \in Frames |-> None]
  /\ th = [t \in Threads |-> Idle]

----------------------------------------------------------------------------
(* Calls a thread may start.                                               *)

\* `lock_ptr` is get_ptr in a context, `expose` get_ptr outside of one; the
\* latter first asks the manager to respect the device limit.
Start(t, o, b) ==
  /\ th[t].pc = "idle" /\ b \in live
  /\ o = "lock_ptr" => ctx[t] > 0
  /\ o = "expose" => ctx[t] = 0
  /\ Goto(t, [Idle EXCEPT !.op = o, !.arg = b, !.ret = "acquire",
                !.pc = IF o = "expose" THEN "measure" ELSE "acquire"])
  /\ UNCHANGED <<bufVars, ctx, held, frame>>

Fresh(b) == b \notin live /\ \A t \in Threads : th[t].dst # b

\* as_buffer of new device memory, or of host memory (an already spilled
\* buffer, no device allocation).
StartCreate(t, o, b) ==
  /\ th[t].pc = "idle" /\ Fresh(b)
  /\ Goto(t, [Idle EXCEPT !.op = o, !.dst = b, !.carry = Current,
                !.pc = IF o = "create" THEN "alloc_new" ELSE "finalize"])
  /\ UNCHANGED <<bufVars, ctx, held, frame>>

StartCopy(t, b, d) ==
  /\ th[t].pc = "idle" /\ b \in live /\ Fresh(d) /\ ctx[t] < MaxDepth
  /\ Goto(t, [Idle EXCEPT !.op = "copy", !.arg = b, !.dst = d, !.pc = "check"])
  /\ UNCHANGED <<bufVars, ctx, held, frame>>

\* A direct call of SpillManager.spill_device_memory.
StartSweep(t) ==
  /\ th[t].pc = "idle"
  /\ Goto(t, [Idle EXCEPT !.op = "sweep", !.pc = "snapshot"])
  /\ UNCHANGED <<bufVars, ctx, held, frame>>

\* acquire_spill_lock.__enter__ and __exit__.  Leaving the outermost context
\* drops the thread's SpillLock, which leaves every WeakSet it is in.
PushSpillLock(t) == ctx' = [ctx EXCEPT ![t] = @ + 1]
\* Mutant: the buffers keep strong references to the SpillLock.
PopSpillLockStrong(t) ==
  /\ ctx' = [ctx EXCEPT ![t] = @ - 1]
  /\ held' = [held EXCEPT ![t] = IF ctx[t] = 1 THEN {} ELSE @]
  /\ UNCHANGED spillLocks

PopSpillLock(t) ==
  /\ ctx' = [ctx EXCEPT ![t] = @ - 1]
  /\ IF ctx[t] = 1
     THEN /\ spillLocks' = [b \in Owners |-> spillLocks[b] \ {t}]
          /\ held' = [held EXCEPT ![t] = {}]
     ELSE UNCHANGED <<spillLocks, held>>

EnterContext(t) ==
  /\ th[t].pc = "idle" /\ ctx[t] < MaxDepth
  /\ PushSpillLock(t)
  /\ UNCHANGED <<bufVars, held, frame, th>>

\* Mutant: a context left that was never entered.
ExitContextUnguarded(t) ==
  /\ th[t].pc = "idle"
  /\ PopSpillLock(t)
  /\ UNCHANGED <<live, managed, loc, mv, dev, exposed, rlock, frame, th>>

ExitContext(t) ==
  /\ th[t].pc = "idle" /\ ctx[t] > 0
  /\ PopSpillLock(t)
  /\ UNCHANGED <<live, managed, loc, mv, dev, exposed, rlock, frame, th>>

----------------------------------------------------------------------------
(* SpillManager: spill_to_device_limit and spill_device_memory.            *)

\* spill_to_device_limit: without a limit nothing happens, else the excess is
\* swept.
Measure(t) ==
  /\ th[t].pc = "measure"
  /\ Goto(t, IF HasLimit THEN [th[t] EXCEPT !.pc = "snapshot"] ELSE Return(t))
  /\ UNCHANGED <<bufVars, ctx, held, frame>>

\* spill_device_memory takes a snapshot of the managed buffers ...
Snapshot(t) ==
  /\ th[t].pc = "snapshot"
  /\ Goto(t, [th[t] EXCEPT !.pc = "sweep", !.todo = managed, !.spilled = FALSE])
  /\ UNCHANGED <<bufVars, ctx, held, frame>>

\* Mutant: the sweep waits for the locks of the buffers.
MustSkipBlocking(t, b) == CanAcquire(t, b) /\ (Spilled(b) \/ ~Spillable(b))

\* `buf.lock.acquire(blocking=False)` and the test under the lock: what the
\* sweep does with a buffer.
MustSkip(t, b) == ~CanAcquire(t, b) \/ Spilled(b) \/ ~Spillable(b)
MaySpill(t, b) == CanAcquire(t, b) /\ ~Spilled(b) /\ Spillable(b)

\* ... skips a buffer that another thread has locked, or that is spilled or
\* unspillable ...
SweepSkip(t, b) ==
  /\ th[t].pc = "sweep" /\ b \in th[t].todo
  /\ MustSkip(t, b)
  /\ Goto(t, [th[t] EXCEPT !.todo = th[t].todo \ {b}])
  /\ UNCHANGED <<bufVars, ctx, held, frame>>

\* Mutant: the sweep spills an unspillable buffer.
SweepCopyUnchecked(t, b) ==
  /\ th[t].pc = "sweep" /\ b \in th[t].todo
  /\ CanAcquire(t, b) /\ ~Spilled(b)
  /\ Acquire(t, b)
  /\ Goto(t, [th[t] EXCEPT !.pc = "sweep_dtoh", !.victim = b, !.vcarry = dev[b]])
  /\ UNCHANGED <<live, managed, loc, mv, dev, exposed, spillLocks, ctx, held, frame>>

\* ... and spills one it can lock: the copy to host memory ...
SweepCopy(t, b) ==
  /\ th[t].pc = "sweep" /\ b \in th[t].todo
  /\ MaySpill(t, b)
  /\ Acquire(t, b)
  /\ Goto(t, [th[t] EXCEPT !.pc = "sweep_dtoh", !.victim = b, !.vcarry = dev[b]])
  /\ UNCHANGED <<live, managed, loc, mv, dev, exposed, spillLocks, ctx, held, frame>>

\* Mutant: the device memory is freed and the host copy is not kept.
SweepMoveUnsaved(t, enough) ==
  LET b == th[t].victim IN
  /\ th[t].pc = "sweep_dtoh"
  /\ dev' = [dev EXCEPT ![b] = NoData]
  /\ loc' = [loc EXCEPT ![b] = "cpu"]
  /\ Release(b)
  /\ Goto(t, [th[t] EXCEPT
       !.pc = "sweep", !.victim = None, !.vcarry = NoData, !.spilled = TRUE,
       !.todo = IF enough THEN {} ELSE th[t].todo \ {b}])
  /\ UNCHANGED <<live, managed, mv, exposed, spillLocks, ctx, held, frame>>

\* ... and the move; the sweep ends early once it has freed enough.
SweepMove(t, enough) ==
  LET b == th[t].victim IN
  /\ th[t].pc = "sweep_dtoh"
  /\ mv' = [mv EXCEPT ![b] = th[t].vcarry]
  /\ dev' = [dev EXCEPT ![b] = NoData]
  /\ loc' = [loc EXCEPT ![b] = "cpu"]
  /\ Release(b)
  /\ Goto(t, [th[t] EXCEPT
       !.pc = "sweep", !.victim = None, !.vcarry = NoData, !.spilled = TRUE,
       !.todo = IF enough THEN {} ELSE th[t].todo \ {b}])
  /\ UNCHANGED <<live, managed, exposed, spillLocks, ctx, held, frame>>

\* The sweep returns to its caller.  _out_of_memory_handle asks for a retry of
\* the allocation if anything was spilled, else sweeps once more after
\* gc.collect(), else gives up (see AllocFail).
OnDemand(t) == th[t].ret \in {"alloc", "alloc_new"}
SweepReturn(t) ==
  /\ th[t].pc = "sweep" /\ th[t].todo = {}
  /\ OnDemand(t) => th[t].spilled
  /\ Goto(t, Return(t))
  /\ UNCHANGED <<bufVars, ctx, held, frame>>

SweepRetry(t) ==
  /\ th[t].pc = "sweep" /\ th[t].todo = {}
  /\ OnDemand(t) /\ ~th[t].spilled /\ ~th[t].retried
  /\ Goto(t, [th[t] EXCEPT !.pc = "snapshot", !.retried = TRUE])
  /\ UNCHANGED <<bufVars, ctx, held, frame>>

\* A device allocation that does not fit calls the manager's
\* _out_of_memory_handle through RMM's FailureCallbackResourceAdaptor.
OutOfMemory(t) ==
  /\ th[t].pc \in {"alloc", "alloc_new"} /\ ~Room
  /\ Goto(t, [th[t] EXCEPT !.pc = "snapshot", !.ret = th[t].pc])
  /\ UNCHANGED <<bufVars, ctx, held, frame>>

\* Mutant: the MemoryError leaves the buffer locked.
AllocFailLocked(t) ==
  /\ th[t].pc = "sweep" /\ th[t].todo = {}
  /\ OnDemand(t) /\ ~th[t].spilled /\ th[t].retried
  /\ Goto(t, After(t))
  /\ UNCHANGED <<bufVars, ctx, held, frame>>

\* The MemoryError leaves the call; `with self.lock` releases the lock.
AllocFail(t) ==
  /\ th[t].pc = "sweep" /\ th[t].todo = {}
  /\ OnDemand(t) /\ ~th[t].spilled /\ th[t].retried
  /\ Goto(t, After(t))
  /\ IF th[t].ret = "alloc" THEN Release(th[t].arg) ELSE UNCHANGED rlock
  /\ UNCHANGED <<live, managed, loc, mv, dev, exposed, spillLocks, ctx, held, frame>>

----------------------------------------------------------------------------
(* SpillableBufferOwner: what a call does under the buffer's lock.         *)

LockBuffer(t) ==
  LET b == th[t].arg IN
  /\ th[t].pc = "acquire" /\ CanAcquire(t, b)
  /\ Acquire(t, b)
  /\ Goto(t, [th[t] EXCEPT !.pc = "locked"])
  /\ UNCHANGED <<live, managed, loc, mv, dev, exposed, spillLocks, ctx, held, frame>>

\* Mutant: a buffer is pinned wherever it is.
AlreadyOnDeviceUnchecked(t) ==
  /\ th[t].pc = "locked" /\ th[t].op \in UnspillOps
  /\ Goto(t, [th[t] EXCEPT !.pc = "pin"])
  /\ UNCHANGED <<bufVars, ctx, held, frame>>

\* spill(target="gpu"): nothing to do ...
AlreadyOnDevice(t) ==
  /\ th[t].pc = "locked" /\ th[t].op \in UnspillOps
  /\ ~Spilled(th[t].arg)
  /\ Goto(t, [th[t] EXCEPT !.pc = "pin"])
  /\ UNCHANGED <<bufVars, ctx, held, frame>>

\* ... or take the host copy out of _ptr_desc and allocate device memory ...
PopHostCopy(t) ==
  LET b == th[t].arg IN
  /\ th[t].pc = "locked" /\ th[t].op \in UnspillOps
  /\ Spilled(b) /\ Spillable(b) /\ mv[b] # NoData
  /\ mv' = [mv EXCEPT ![b] = NoData]
  /\ Goto(t, [th[t] EXCEPT !.pc = "alloc", !.carry = mv[b]])
  /\ UNCHANGED <<live, managed, loc, dev, exposed, spillLocks, rlock, ctx, held, frame>>

\* ... and move the data there.
Unspill(t) ==
  LET b == th[t].arg IN
  /\ th[t].pc = "alloc" /\ Room
  /\ dev' = [dev EXCEPT ![b] = th[t].carry]
  /\ loc' = [loc EXCEPT ![b] = "gpu"]
  /\ Goto(t, [th[t] EXCEPT !.pc = "pin", !.carry = NoData])
  /\ UNCHANGED <<live, managed, mv, exposed, spillLocks, rlock, ctx, held, frame>>

\* A call that raises under the lock: an unspillable buffer cannot be moved
\* (ValueError), and a host copy that is gone is a KeyError.
Raise(t) ==
  LET b == th[t].arg
      move == (th[t].op \in UnspillOps) = Spilled(b) IN
  /\ th[t].pc = "locked"
  /\ \/ th[t].op \in UnspillOps \cup {"spill"} /\ move /\ ~Spillable(b)
     \/ th[t].op # "spill" /\ Spilled(b) /\ mv[b] = NoData
  /\ Release(b)
  /\ Goto(t, After(t))
  /\ UNCHANGED <<live, managed, loc, mv, dev, exposed, spillLocks, ctx, held, frame>>

\* spill_lock adds the thread's SpillLock, mark_exposed sets the flag.
Pin(t) ==
  LET b == th[t].arg IN
  /\ th[t].pc = "pin"
  /\ spillLocks' = [spillLocks EXCEPT ![b] =
                      IF th[t].op \in {"lock_ptr", "copy_dev"} THEN @ \cup {t} ELSE @]
  /\ exposed' = [exposed EXCEPT ![b] = @ \/ th[t].op = "expose"]
  /\ Release(b)
  /\ Goto(t, [th[t] EXCEPT !.pc = "return"])
  /\ UNCHANGED <<live, managed, loc, mv, dev, ctx, held, frame>>

\* get_ptr reads _ptr after the lock was released.
ReturnPtr(t) ==
  LET b == th[t].arg IN
  /\ th[t].pc = "return"
  /\ held' = [held EXCEPT ![t] =
                IF th[t].op \in {"lock_ptr", "copy_dev"} THEN @ \cup {b} ELSE @]
  /\ Goto(t, IF th[t].op = "copy_dev" THEN [th[t] EXCEPT !.pc = "alloc_new"] ELSE Idle)
  /\ UNCHANGED <<bufVars, ctx, frame>>

\* spill(target="cpu") by spill, memoryview or a copy of a spilled buffer:
\* the copy to host memory ...
CopyToHost(t) ==
  LET b == th[t].arg IN
  /\ th[t].pc = "locked" /\ th[t].op \in SpillOps
  /\ ~Spilled(b) /\ Spillable(b)
  /\ Goto(t, [th[t] EXCEPT !.pc = "dtoh", !.carry = dev[b]])
  /\ UNCHANGED <<bufVars, ctx, held, frame>>

\* After memoryview has returned, copy builds a new owner on the host data.
LeaveWith(t, data) ==
  Goto(t, IF th[t].op = "copy_host" THEN [th[t] EXCEPT !.pc = "finalize", !.carry = data]
                                    ELSE Idle)

\* ... and the move.
MoveToHost(t) ==
  LET b == th[t].arg IN
  /\ th[t].pc = "dtoh"
  /\ mv' = [mv EXCEPT ![b] = th[t].carry]
  /\ dev' = [dev EXCEPT ![b] = NoData]
  /\ loc' = [loc EXCEPT ![b] = "cpu"]
  /\ Release(b)
  /\ LeaveWith(t, th[t].carry)
  /\ UNCHANGED <<live, managed, exposed, spillLocks, ctx, held, frame>>

\* The data is in host memory already, or memoryview copies the part of an
\* unspillable buffer to a new host allocation.
ReadHost(t) ==
  LET b == th[t].arg IN
  /\ th[t].pc = "locked" /\ th[t].op \in SpillOps
  /\ \/ Spilled(b) /\ (th[t].op = "spill" \/ mv[b] # NoData)
     \/ ~Spilled(b) /\ ~Spillable(b) /\ th[t].op # "spill"
  /\ Release(b)
  /\ LeaveWith(t, IF Spilled(b) THEN mv[b] ELSE dev[b])
  /\ UNCHANGED <<live, managed, loc, mv, dev, exposed, spillLocks, ctx, held, frame>>

\* serialize: a frame of a spilled buffer is its host copy; a frame of device
\* memory holds a SpillLock of its own.  f = None: the frame is dropped at once.
Serialize(t, f) ==
  LET b == th[t].arg IN
  /\ th[t].pc = "locked" /\ th[t].op = "serialize"
  /\ Spilled(b) => mv[b] # NoData
  /\ f # None => frame[f] = None
  /\ IF Spilled(b) \/ f = None
     THEN UNCHANGED <<spillLocks, frame>>
     ELSE /\ spillLocks' = [spillLocks EXCEPT ![b] = @ \cup {f}]
          /\ frame' = [frame EXCEPT ![f] = b]
  /\ Release(b)
  /\ Goto(t, Idle)
  /\ UNCHANGED <<live, managed, loc, mv, dev, exposed, ctx, held>>

DropFrame(f) ==
  /\ frame[f] # None
  /\ spillLocks' = [b \in Owners |-> spillLocks[b] \ {f}]
  /\ frame' = [frame EXCEPT ![f] = None]
  /\ UNCHANGED <<live, managed, loc, mv, dev, exposed, rlock, ctx, held, th>>

----------------------------------------------------------------------------
(* New buffers.                                                            *)

\* SpillableBuffer.copy(deep=True) looks at is_spilled without the lock.
CheckSpilled(t) ==
  /\ th[t].pc = "check"
  /\ IF Spilled(th[t].arg)
     THEN Goto(t, [th[t] EXCEPT !.pc = "acquire", !.op = "copy_host"]) /\ UNCHANGED ctx
     ELSE Goto(t, [th[t] EXCEPT !.pc = "acquire", !.op = "copy_dev"]) /\ PushSpillLock(t)
  /\ UNCHANGED <<bufVars, held, frame>>

\* rmm.DeviceBuffer: new memory with the caller's data, or a copy of arg.
AllocNew(t) ==
  /\ th[t].pc = "alloc_new" /\ Room
  /\ dev' = [dev EXCEPT ![th[t].dst] =
               IF th[t].op = "copy_dev" THEN dev[th[t].arg] ELSE th[t].carry]
  /\ Goto(t, [th[t] EXCEPT !.pc = "finalize"])
  /\ UNCHANGED <<live, managed, loc, mv, exposed, spillLocks, rlock, ctx, held, frame>>

\* from_device_memory / from_host_memory and _finalize_init: manager.add
\* registers the buffer unless it is exposed (x), then respects the limit.
FinalizeInit(t, x) ==
  LET b == th[t].dst
      onHost == th[t].op \in {"host", "copy_host"} IN
  /\ th[t].pc = "finalize"
  /\ x => th[t].op = "create"
  /\ live' = live \cup {b}
  /\ managed' = IF x THEN managed ELSE managed \cup {b}
  /\ exposed' = [exposed EXCEPT ![b] = x]
  /\ loc' = [loc EXCEPT ![b] = IF onHost THEN "cpu" ELSE "gpu"]
  /\ mv' = [mv EXCEPT ![b] = IF onHost THEN th[t].carry ELSE NoData]
  /\ Goto(t, [th[t] EXCEPT !.pc = "measure", !.arg = b, !.dst = None,
                            !.carry = NoData, !.ret = "idle"])
  /\ UNCHANGED <<dev, spillLocks, rlock, ctx, held, frame>>

LeaveCopy(t) ==
  /\ th[t].pc = "pop"
  /\ PopSpillLock(t)
  /\ Goto(t, Idle)
  /\ UNCHANGED <<live, managed, loc, mv, dev, exposed, rlock, frame>>

----------------------------------------------------------------------------
(* The memory's other users.                                               *)

\* A kernel writes through a pointer: a thread's within its context, or a
\* third party's to an exposed buffer.  Any other copy is then out of date.
Outdated(c) == IF c = NoData THEN NoData ELSE Stale
Write(b) ==
  /\ b \in live
  /\ exposed[b] \/ \E t \in Threads : b \in held[t] /\ th[t].pc = "idle"
  /\ mv' = [mv EXCEPT ![b] = Outdated(@)]
  /\ th' = [t \in Threads |-> [th[t] EXCEPT
       !.carry = IF th[t].arg = b /\ th[t].pc \in {"alloc", "dtoh"} THEN Outdated(@) ELSE @,
       !.vcarry = IF th[t].victim = b THEN Outdated(@) ELSE @]]
  /\ UNCHANGED <<live, managed, loc, dev, exposed, spillLocks, rlock, ctx, held, frame>>

\* The last reference to a buffer goes away.
Referenced(b) ==
  \/ \E t \in Threads : b \in {th[t].arg, th[t].victim} \cup th[t].todo \cup held[t]
  \/ \E f \in Frames : frame[f] = b
Collect(b) ==
  /\ b \in live /\ ~Referenced(b)
  /\ live' = live \ {b}
  /\ managed' = managed \ {b}
  /\ loc' = [loc EXCEPT ![b] = "gpu"]
  /\ mv' = [mv EXCEPT ![b] = NoData]
  /\ dev' = [dev EXCEPT ![b] = NoData]
  /\ exposed' = [exposed EXCEPT ![b] = FALSE]
  /\ spillLocks' = [spillLocks EXCEPT ![b] = {}]
  /\ UNCHANGED <<rlock, ctx, held, frame, th>>

----------------------------------------------------------------------------
Call(t) ==
  \/ \E b \in Owners :
       \/ \E o \in Calls \cap AccessCalls : Start(t, o, b)
       \/ \E o \in Calls \cap {"create", "host"} : StartCreate(t, o, b)
       \/ \E d \in Owners : "copy" \in Calls /\ StartCopy(t, b, d)
  \/ "sweep" \in Calls /\ StartSweep(t)

Sweep(t) ==
  \/ Measure(t) \/ Snapshot(t) \/ SweepReturn(t) \/ SweepRetry(t)
  \/ OutOfMemory(t) \/ AllocFail(t)
  \/ \E b \in Owners : SweepSkip(t, b) \/ SweepCopy(t, b)
  \/ \E enough \in BOOLEAN : SweepMove(t, enough)

Buffer(t) ==
  \/ LockBuffer(t) \/ AlreadyOnDevice(t) \/ PopHostCopy(t) \/ Unspill(t) \/ Raise(t)
  \/ Pin(t) \/ ReturnPtr(t) \/ CopyToHost(t) \/ MoveToHost(t) \/ ReadHost(t)
  \/ \E f \in Frames \cup {None} : Serialize(t, f)
  \/ CheckSpilled(t) \/ AllocNew(t) \/ LeaveCopy(t)
  \/ \E x \in BOOLEAN : FinalizeInit(t, x)

Next ==
  \/ \E t \in Threads :
       Call(t) \/ Sweep(t) \/ Buffer(t) \/ EnterContext(t) \/ ExitContext(t)
  \/ \E f \in Frames : DropFrame(f)
  \/ \E b \in Owners : Write(b) \/ Collect(b)

Spec == Init /\ [][Next]_vars

\* A thread that is inside a call keeps running.
FairSpec == Spec /\ \A t \in Threads : WF_vars(Sweep(t) \/ Buffer(t))

----------------------------------------------------------------------------
\* A device pointer that was handed out stays valid: the buffer of a thread's
\* pointer (within its context), of a serialized frame or of a permanently
\* exposed buffer is in device memory, whatever sweeps run.
PointerValid ==
  \A b \in Owners :
    (exposed[b] \/ (\E t \in Threads : b \in held[t]) \/ (\E f \in Frames : frame[f] = b))
      => loc[b] = "gpu" /\ dev[b] # NoData

\* No call ever sees another version of the data than the last one written:
\* where the buffer says its data is, the data is current, or it is gone and
\* the access raises.
NoStaleData ==
  \A b \in live : IF Spilled(b) THEN mv[b] # Stale ELSE dev[b] = Current

\* The thread has taken the host copy of b and is to move it to the device.
Moving(t, b) ==
  /\ th[t].arg = b
  /\ \/ th[t].pc = "alloc"
     \/ th[t].pc \in {"measure", "snapshot", "sweep", "sweep_dtoh"} /\ th[t].ret = "alloc"

\* The data of a live buffer is lost: it is neither in device memory nor in
\* host memory nor in the hands of a thread that is moving it.
Lost(b) ==
  /\ b \in live /\ dev[b] = NoData /\ mv[b] = NoData
  /\ \A t \in Threads : ~Moving(t, b)

\* Moving a buffer never loses its data, whatever sweeps, copies and writes
\* interleave with the move: only an unspill that runs out of memory does.
LossOnlyByFailure ==
  [][\A b \in Owners : ~Lost(b) /\ Lost(b)' => \E t \in Threads : AllocFail(t)]_vars

\* The data of a live buffer is never lost.
DataNotLost == \A b \in live : ~Lost(b)

\* A thread that has left the API, also by an exception, holds no buffer lock.
LocksReleased ==
  \A b \in Owners : rlock[b] # None => th[rlock[b]].pc # "idle"

\* A thread waits: for the lock of its buffer, or in a sweep that can neither
\* skip a buffer nor spill it.
Waiting(t) ==
  \/ th[t].pc = "acquire" /\ ~CanAcquire(t, th[t].arg)
  \/ /\ th[t].pc = "sweep" /\ th[t].todo # {}
     /\ \A b \in th[t].todo : ~MustSkip(t, b) /\ ~MaySpill(t, b)

\* Whoever holds a buffer lock never waits for another one, also when it runs out
\* of memory under its lock and sweeps: there is no circle of waiting threads.
HoldersRun ==
  \A b \in Owners : rlock[b] # None => ~Waiting(rlock[b])

\* Spill locks are scoped: a thread without an acquire_spill_lock context and
\* a frame that is gone pin no buffer, so it becomes spillable again.
SpillLocksScoped ==
  \A b \in Owners :
    /\ \A t \in Threads : t \in spillLocks[b] => ctx[t] > 0
    /\ \A f \in Frames : f \in spillLocks[b] => frame[f] = b

\* spill(target="gpu") and memoryview never raise because the buffer is in
\* host memory and cannot be moved: whoever pins a buffer unspills it first.
NeverUnmovable ==
  \A b \in Owners : Spilled(b) => Spillable(b)

\* If from some point on no call starts, every call under way returns: no
\* thread waits for a lock that another waiting thread holds, and an
\* allocation that runs out of memory gives up after a fruitless retry.
NoNewCall == \A t \in Threads : th[t].pc = "idle" => th'[t].pc = "idle"
CallsReturn == <>[][NoNewCall]_vars => <>[](\A t \in Threads : th[t].pc = "idle")
=============================================================================
