# A TLA+ development of hipDF's concurrent parts

hipDF is the AMD/HIP port of RAPIDS cuDF: a GPU DataFrame library. This
directory holds TLA+ models of the parts of it that keep state and that several
actors use at once, the TLC configurations that check them on small instances,
and TLAPS proofs of seven models' properties for every instance.

    cd tla
    tlc -config SpillSafety.cfg MCSpillableBuffer   # model-check one run
    tlapm SpillableBufferProofs.tla                 # check the proofs

`PROJECT.json` lists the components, the runs, the source lines each definition
stands for, the mutants that show each property can fail, the findings, the
hazards and the theorems.

## 1. Inventory

### The system

| part | source | state it keeps | operations |
|---|---|---|---|
| buffers | `python/cudf/cudf/core/buffer/buffer.py`, `utils.py` | `BufferOwner`: pointer, size, exposure flag, `_slices`; `Buffer`: owner, offset, size | create, slice, copy, get_ptr, serialize |
| copy-on-write | `exposure_tracked_buffer.py` | the `WeakSet` of slices of each owner | copy (shallow or deep), write access, exposure, `make_single_owner_inplace` |
| spillable buffers | `spillable_buffer.py` | where the data is (`_ptr_desc`), spill locks, exposure, one re-entrant lock per owner | spill, unspill, get_ptr, memoryview, serialize, copy, mark_exposed, spill_lock |
| spill manager | `spill_manager.py` | the managed buffers (weak), a device limit, statistics; a global instance | add, spill_device_memory, spill_to_device_limit, out-of-memory callback |
| spill lock contexts | `utils.py` | per thread: a lock and a nesting depth | `acquire_spill_lock` enter and exit |
| libcudf columns, tables and algorithms | `cpp/src/**` | immutable views, owning columns | pure functions on device memory, ordered by streams |
| streams and host memory | `cpp/src/utilities/stream_pool.cpp`, `host_memory.cpp` | pool per device, event per thread, pinned pool | fork_streams, join_streams, allocate, set resource |
| Snappy decompressor | `cpp/src/io/comp/unsnap.cu` | per block, in shared memory: a ring of prefetched bytes, a ring of symbol batches, an error | prefetch, decode, copy |
| text splitting | `cpp/src/io/text/**`, `cpp/src/io/utilities/output_builder.cuh` | tile states in a ring, output buffers, the reader's position and its two pinned buffers | multibyte_split: read, scan, advance, gather |
| other readers and writers | `cpp/src/io/**` | chunked readers and writers keep a position | read_chunk, write, close |
| JIT cache | `cpp/src/jit/cache.cpp` | programs by name | get |
| Java bindings | `java/src/main/**` | reference counts, cleaners, RMM handlers, pinned pool | incRefCount, close, slice, allocate, callbacks, shutdown |
| Kafka source | `cpp/libcudf_kafka`, `python/custreamz` | buffer of consumed messages, committed offsets | consume_to_buffer, host_read, commit, committed |
| cudf.pandas | `python/cudf/cudf/pandas` | proxies in a fast or a slow state, import hooks | attribute access, call with fallback |
| cudf-polars, dask-cudf, pylibcudf | `python/*` | query plans, task graphs, thin bindings | translate, execute |

### How the parts interact

A user's DataFrame operation asks its buffers for device pointers
(`get_ptr`), inside an `acquire_spill_lock` context, and calls libcudf with
them. libcudf allocates its results from RMM. With spill-on-demand, RMM calls
the spill manager back when an allocation fails, in the allocating thread and
in the middle of whatever that thread was doing; the manager moves other
buffers to host memory and RMM tries again. Unspilling a buffer is itself an
allocation, made while that buffer's lock is held. A pointer that leaves cuDF
through `__cuda_array_interface__` marks the owner as exposed: it can no longer
be moved, nor be shared by a shallow copy. On the Java side the same memory is
kept by reference counts, with a cleaner thread behind them and RMM callbacks
into Java. Inside libcudf, host threads queue work on streams and tie the streams
together with events; inside a kernel, blocks and warps pass data through device
and shared memory, with flags instead of locks.

### What is hard about it

* **Re-entrancy and lock order.** The out-of-memory callback runs under locks
  its own thread holds, and looks at buffers that other threads are busy with.
* **Validity of pointers.** A pointer is used long after the lock under which
  it was computed was released; only spill locks and exposure keep it valid.
* **Two copies of the data.** Host and device copies must never diverge, in any
  order of spills, unspills and writes by kernels.
* **Failure in the middle.** An allocation can fail at every step.
* **Weak references.** Managed buffers and slices vanish when Python collects
  them, between any two steps.
* **Third parties** write to memory they were given at any time.
* **Reference counts and leaks** (Java): explicit close, leaked objects and the
  cleaner thread race for the same memory.
* **Lock-free hand-over on the device.** Warps spin on each other's flags in a
  circle; blocks look back over predecessors that are still writing; a slot of a
  ring is used again while somebody may still read it.
* **Asynchrony of streams.** What the host has queued has not happened: buffers are
  freed and filled again, and events recorded again, before their last use has run.
* **Cuts.** A delimiter lies across threads, tiles, chunks and byte ranges.

## 2. What is modelled

### SpillableBuffer

Threads use spillable buffers, each at most one call at a time, and share the
device memory (`Capacity` buffers fit).

| in the model | in the code |
|---|---|
| `live`, `managed` | the `SpillableBufferOwner`s that exist, those in `SpillManager._buffers` |
| `loc`, `mv` | `_ptr_desc["type"]`, `_ptr_desc["memoryview"]` |
| `dev` | the contents of the device allocation |
| `exposed`, `spillLocks` | `_exposed`, `_spill_locks` (a `WeakSet`) |
| `rlock` | the holder of `lock`, a `threading.RLock` |
| `ctx`, `held`, `frame` | `_thread_spill_locks`, the buffers a context pinned, the frames of `serialize` |
| `th` | per thread: the call it is in, its program point and its locals |

Data is abstracted to *current*, *outdated* and *none*: a write by a kernel
makes every other copy outdated. The contents, sizes and access times are left
out, so a sweep visits buffers in any order and may stop after any buffer it
has spilled; this includes what the sizes and times of the code can do.

Each method is cut where another thread can run: at the acquisition of a lock,
at every copy between host and device and at every allocation. One action is
one such step: `LockBuffer`, `AlreadyOnDevice`, `PopHostCopy`, `Unspill`, `Pin`
and `ReturnPtr` are the steps of `get_ptr` on a spilled buffer. `OnDemand`,
`Snapshot`, `SweepSkip`, `SweepCopy`, `SweepMove`, `SweepRetry` and `AllocFail`
are those of `_out_of_memory_handle`, entered from any allocation; `Measure` starts
`spill_to_device_limit`, entered when a buffer was added.

### CopyOnWrite and ValueSemantics

`CopyOnWrite` is the option `copy_on_write`: slices of owners, `_slices`, the
exposure flag, memory of `Size` cells. A write or an exposure first gives the
slice an owner of its own if `_slices` has another member. `Spilling` selects
the owner class: only `SpillableBufferOwner.get_ptr` marks the owner exposed.
`ValueSemantics` is what the documentation promises: every buffer is a value,
and only buffers that were handed to a third party, and views of those, change
behind cuDF's back. `open` is a history variable with the buffers the user
handed out; without it a copy could not be told from a view of everything.

### RmmEvents

The device memory resources the Java bindings stack on RMM (`RmmJni.cpp`).
`size` is what the upstream resource has allocated, `app` the addresses the
application has, `total`, `maxTotal`, `scoped` and `scopedMax` the members of
`tracking_resource_adaptor`, and `call` the `allocate` or `deallocate` each
thread is in. The counters are atomics that are updated apart from the
allocation they count, so each access is an action: `TotalBefore`, `Upstream`,
`AddTotal`, `AddScoped`, `UpdateMax`, `UpdateScopedMax`, `TotalAfter` and the
threshold check are one allocation. `max_total_allocated_mutex` keeps other
updates of the maxima and resets out between `UpdateMax` and `UpdateScopedMax`, and
out of a reset, which is two stores (`ResetScoped`, `ResetScopedMax`); it does not keep out
the updates of the counters, which are made without it. The Java handler may ask for a
retry, give up or throw at each
callback; an allocation whose threshold callback throws goes through the release
again. `above`, `dropped`, `overlap` and `peak` are history: what the handler was told,
what the debug resource has left behind, whether two calls were ever under
way at a time, and the most memory the upstream resource had allocated at a time. One set
of thresholds serves allocation and deallocation.

### JavaMemory

Buffers of the pinned pool with their slices (`MemoryBuffer`, `HostMemoryBuffer`),
`MemoryCleaner` and `PinnedMemoryPool`.

| in the model | in the code |
|---|---|
| `refCount`, `closed` | the fields of `MemoryBuffer` |
| `parent`, `resource` | `SlicedBufferCleaner.parent`, and whether a cleaner is not yet clean |
| `all`, `collected` | `MemoryCleaner.all` and its reference queue |
| `singleton_`, `initFuture` | the static fields of `PinnedMemoryPool` |
| `pool` | the native pool behind each `PinnedMemoryPool`: pending, live, failed, released |
| `refs` | the references the application holds |
| `stack`, `ret`, `got` | per thread: the calls it is in, how the last one ended and what it returned |

Java monitors are re-entrant and tied to frames, so a thread is a stack of calls
and a monitor is taken if a frame of a synchronized method, past its entry, is
on the stack of another thread. Closing the last reference to a slice runs
`close`, `clean`, the parent's `close`, `clean`, `freeInternal` and
`getSingleton`, all on one stack, with an action for each step between which
others can run; an exception unwinds it frame by frame. `initFuture` is not
volatile: outside the class monitor a thread may read an old value. The pool that was
looked up for a free may be released before the native call is made: the call then gets a
handle that is stale or -1, and `Free` has both outcomes, that it works and that it throws. The
garbage collector (`Collect`) enqueues a buffer nobody refers to. The shutdown
hook interrupts the cleaner thread and waits for it for a second only; the thread takes what is
in its queue even then and ends when it would wait (`Interrupted`), so both may run.
The application is well behaved in one respect: it uses and closes only references
it holds. It may forget them.

### Unsnap and SnappyStream

The Snappy kernel (`unsnap.cu`): one block of three working warps. `prefetch_*`,
`batch_len`, `batch` and `buf` are `unsnap_queue_s`; `pos`, `cur`, `left`, `dbatch`,
`cbatch`, ... are the warps' registers. A compressed byte is its position in the
stream, so a slot of `buf` shows whether it holds the byte the decoder wants; a
symbol is its sizes in the stream and in the output, and how far back it
copies. When the bytes the decoder looks at are not those of the stream (they were
overwritten, not fetched, or lie past the end) it may read any symbol. Copies and short literals are
decoded by all lanes at once or by lane 0; both are `DecodeShort`, one symbol at
a time, since no other warp sees the difference. An accepted symbol is one
lane 0 accepts, the more generous of the two tests.

`Unsnap` ends where the copier has the symbols of a batch in its registers: `taken` is what it
has read so far. `SnappyStream` is the promise of this hand-over: the copier takes the symbols of the
stream in order, each once; success means that it has all of those of the output, and failure
that the stream has no such output. `Implements` is the refinement. It says nothing of
the bytes the copier writes.

### SnappyCopy

What the lanes of the copier make of a batch (`snappy_process_symbols`, lines 562-654), on top of
`Unsnap`: `Write` is `CopyBatch` with the output buffer `dst`. A byte of the output
is the position in the stream of the literal byte it came from. `Half` is the number of lanes the masks,
sums and shuffles of the code are made for (32), `Lanes` is `warp_size`.

| in the model | in the code |
|---|---|
| `PosFrom` | `WarpReducePos32`, a shuffle and a sum of every lane for each of its five levels |
| `Starts`, `Stops` | `start_mask`, a sum over all lanes cut to `Half` bits; `stop_mask`, the ballot cut to `Half` bits |
| `Round`, `Rounds` | the loop that combines small symbols and moves the others down |
| `Pair`, `CopyOne`, `LiteralOne` | the loop over what is left: two small symbols at once, a copy that may repeat its source, a literal in blocks |

The lanes of a warp go in step: what they load in a statement is loaded before any of them stores.
A shift by a lane's number beyond the width of the mask takes its low bits, as on the hardware.
`CopierExact` compares `dst` with `Output`, which writes the symbols one after the other and byte by byte.

### MultibyteSplit

What `multibyte_split` computes: the rows of a text that begin in a byte range.
The operators `TransitionInit`, `Transition`, `Joined`, `MaxTail` are the
multistate functions on sets of segments, `BlockScan` and `TilePrefix` the prefix
sums over threads and tiles, `KernelMatches` and `ByteMatches` the two kernels; `NewBuilder` ..
`Back` are `output_builder`. `Begin` is the code up to the loop, `ScanChunk`
one iteration, `Finish` the code after it, with and without
`strip_delimiters`. A copied character is its offset in the text, so a wrong
character is visible. Characters that a thread of the last tile has not
loaded are any (`pad`). The reference (`Ends`, `RowStarts`, `RowEnd`) is a search of
the whole text that knows nothing of chunks.

### SplitPipeline

How the same loop runs: the host thread (`Setup`, `ReadFirst`, `Launch`, `ReadAhead`,
`Advance`, `EndLoop`, `Return`), three streams with their queues of operations, and the
blocks of the scan kernel, which publish partial and inclusive prefixes in a ring and
look back (`SetPartial` .. `SetInclusiveStatus`; the value and its status are
separate steps). A prefix is the sequence of the tiles that went into it. CUDA
is external: a stream runs its operations in order; a wait is for the latest record
at the time it was queued; memory freed on a stream can be taken by a later allocation on that
stream; blocks are dispatched in the order of `blockIdx`, as many as fit
(`Resident`). The loop may also end early, as it does when the last row was found.

## 3. The runs

| run | bounds | shows |
|---|---|---|
| `spill_safety` | 2 threads, 2 buffers, room for 1, a device limit, 1 frame | `TypeOK`; `PointerValid`: a pointer that may be used points to device memory; `NoStaleData`: the place a buffer says it is in has the current data; `LocksReleased`: an idle thread holds no lock; `HoldersRun`: the holder of a lock never waits for another; `SpillLocksScoped`: spill locks belong to open contexts and live frames; `NeverUnmovable`: a pinned buffer is on the device; `LossOnlyByFailure`: only a failed allocation makes a buffer lose its data |
| `spill_liveness` | 2 fair threads, 3 buffers, room for 1, no device limit, no frames; calls to `host`, `lock_ptr` and `unspill`, contexts of depth 1 | `CallsReturn`: every call returns: no deadlock between threads that unspill and sweep |
| `spill_lost` | 1 thread, 2 buffers, room for 1, no device limit, no frames; calls to `host` and `lock_ptr`, contexts of depth 1 | violation: `DataNotLost` (finding 1) |
| `cow_refines` | 3 slices, 3 owners of 2 cells, 2 values, spilling | `TypeOK`; `SlicesTracked`; `ImplementsValues`: copy-on-write implements `ValueSemantics` |
| `cow_unspillable` | the same without spilling | violation: `ImplementsValues` (finding 2) |
| `rmm_concurrent` | 2 threads, 2 addresses, sizes 1 and 3 aligned to 2, room for 4, thresholds 2 and 4, 1 retry, a reset, debug mode | `TypeOK`; `NothingLeaks`: every allocated address has exactly one owner; `TotalExact`: the counters do not drift; `MaxCovers`: without overlapping calls the recorded maximum is the peak, with them no less than the present total; `ThresholdsSeen`: without overlapping calls the handler knows which thresholds are reached |
| `rmm_debug_leak` | the same | violation: `AllocationsOwned` (finding 3) |
| `java_memory` | 2 threads, 2 buffers, 2 pools, 2 references to a buffer, 5 calls | `TypeOK` (counts never negative); `FreedOnce`; `RefsKeepMemory`: no memory is freed under a reference; `LeaksTracked`: what is not clean is registered; `OnePool`; `NoCircle`: threads never wait for one another's monitors in a circle; `LeaksReclaimed`; `CallsReturn` |
| `unsnap` | a ring of 10 bytes, 2 batches of 4 symbols, warps of 4 lanes and masks of 4; all streams of up to 4 of 4 symbols, and of 9 symbols; declared sizes exact, one short, one long; every alignment | `TypeOK`; `RingIntact`: the bytes the decoder looks at are in the ring; `CopierExact`: what the copier has written is what the symbols say; `Implements`: the hand-over implements `SnappyStream`; `Terminates` |
| `unsnap_warp64` | a ring of 18 bytes, 2 batches of 8 symbols, warps of 8 lanes and masks of 4 | violation: `CopierExact` (finding 4) |
| `multibyte_rows` | texts over 2 characters of 0, 1, 2, 4, 5 and 9, delimiters of 1 to 3 and one of 4, ranges of 0 to 3 bytes everywhere and one beyond the text; threads of 2 characters, 2 threads to a tile, 1 tile to a chunk; 3 segments | `RowsExact`: the rows are the reference's; `DelimitersStripped`; `SegmentsFit`; `BuilderRoom` |
| `multibyte_pipeline` | 4 chunks of 2 tiles (the last of 1 or 2), 5 tile states, 3 resident blocks, 3 device buffers | `PrefixExact`; `OffsetsExact`: the host reads finished sums; `OutputExact`: no buffer is reused too early and the gather waits for both streams; `SpinsOnResident`: a block only spins on a resident block that is about to publish; `Finishes` |

*Why the bounds are enough.* Two buffers and room for one make every unspill
run out of memory and sweep the other buffer; two threads make each find the
other's lock taken. A context may nest to depth 2 (`MaxDepth`), the least at which
entering and leaving differ from a flag. For copy-on-write, three slices make a write leave
two sharing ones behind, and three owners let each have its own; two cells
make views that overlap, contain each other, or are disjoint. Slices, owners
and values are symmetric, and a view drops what is left of an owner that
Python has destroyed. For the RMM resources, sizes of 1 and 3 differ from their
rounded sizes and round to different ones; room for 4 lets two small or one large
allocation succeed and every other one fail, with a retry before or after
the other thread has freed. In `java_memory` one buffer and its slice, or two roots, can be
closed, leaked, collected and cleaned at the same time, and a second pool can be
made after a shutdown; five calls suffice to initialize, allocate, slice
and have two threads close, or shut down and initialize again. In `unsnap` the streams of nine symbols
go round both rings more than once, and 10 bytes are the least ring for the look-ahead of 8 and a chunk
of 2. The four symbols are a short literal, a copy that repeats its source and is too near to be combined, a
copy from farther back, and a long literal of more than two blocks of the copier: with four lanes every order of
them in a batch occurs, so that rounds are stopped by a copy that reads what they
write, by the width of the masks and by the end of the batch, and go on for a second time. The numbers of the code are
smaller here: masks of 4 stand for 32, 4 or 8 lanes for `warp_size` 32 or 64, a distance of 1 is too near for 8, and
a round of fewer than 2 symbols is the last for fewer than 4. `unsnap_warp64` needs no more than the streams of nine. In `multibyte_rows` the delimiters overlap themselves in every way three characters
can; 9 characters are two chunks and a part of a third; the output buffers
grow and are crossed. In `multibyte_pipeline` eight tiles go round the ring of
five states, so every state is used again while a later launch is queued.

*Fairness.* `spill_liveness` assumes weak fairness of each thread's next step
within a call: the operating system and the GIL run every thread that can
run, and a thread that waits for a lock is not disabled by anything but its
holder. Nothing is assumed about starting calls. `java_memory` assumes the same of
threads that are in a call, of the cleaner thread (an endless loop, as long as the JVM runs) and of the thread of
the future; nothing of the application, the garbage collector or the end of the JVM. `unsnap`
assumes that every warp of a resident block is scheduled while others spin, which
the hardware provides for busy-waits between the warps of a block and on which this kernel
relies. `multibyte_pipeline` assumes progress of the host thread, of each
stream and of each *resident* block; a block that was not dispatched yet gets no
fairness before there is room for it, which is why the order of dispatch matters.
`java_memory` runs without the deadlock check, because the application may stop at any time.

## 4. What is proved

TLC checks small instances; the theorems hold for every value of the constants that satisfies
the named `ASSUME`s of the model, which TLC evaluates in the runs. Each of the modules below
is checked by `tlapm <module>.tla`.

| module | theorems about the model's `Spec` |
|---|---|
| `SpillableBufferProofs` | `[]TypeOK`, `[]PointerValid`, `[]NoStaleData`, `[]LocksReleased`, `[]HoldersRun`, `[]NeverUnmovable`, `[]SpillLocksScoped`, and the action property `LossOnlyByFailure` |
| `CopyOnWriteProofs` | `[]TypeOK`, `[]SlicesTracked`; with spilling, `ImplementsValues`: every behaviour is one of `ValueSemantics` |
| `RmmEventsProofs` | `[]TypeOK`, `[]NothingLeaks`, `[]TotalExact`, `[]MaxCovers`, `[]ThresholdsSeen` |
| `UnsnapProofs` | `[]TypeOK`, `[]RingIntact`; `Implements`: the hand-over of the symbols implements `SnappyStream` |
| `JavaMemoryProofs` | `[]TypeOK`, `[]FreedOnce`, `[]RefsKeepMemory`, `[]LeaksTracked`, `[]OnePool`, `[]NoCircle` |
| `SplitPipelineProofs` | `[]PrefixExact`, `[]OffsetsExact`, `[]OutputExact`, `[]SpinsOnResident` |
| `MultibyteSplitProofs` | `[]SegmentsFit`, `[]BuilderRoom`, `[]RowsExact`, `[]DelimitersStripped` |
| `FoldTheorems` | the lemmas about induction, sums and remainders that the others rest on |

Besides the shape of the constants the assumptions say that slices, threads, addresses,
buffers and pools are finite sets, as they are in any run of the program: each is something
that was created. `None` is not a member of the sets it is compared with.

### SpillableBuffer

None of the properties is inductive. `IInv` is the conjunction of

* `TypeOK`;
* `LockInv`: a buffer's lock is held by `t` exactly when the call of `t` is
  between acquiring and releasing it, or its sweep is in the middle of that buffer;
* `RefInv`: a buffer a call, a context or a frame refers to is live, so it is
  not collected under it;
* `PcInv`: which calls reach which program points, with which locals;
* `PinInv`: spill locks are those of contexts and frames that hold the buffer,
  and a pinned buffer, or one whose call is about to return a pointer, is on the device;
* `DataInv`: the copy at the current place is current, and a copy a call or
  sweep has in hand is current as long as it still holds the lock and nobody can write.

There is one lemma per action that it preserves `IInv`; `NextIInv` combines them
and the theorems follow from `IInv` state by state. The crux is `SweepCopy`: a
sweep may copy a buffer because, under its lock, it has no spill locks and is
not exposed, so no kernel can hold its pointer, and nobody can pin it before
the lock is released. `HoldersRun` follows from `LockInv`: a holder is past its acquisition, so all it
meets are sweeps, which try each lock without blocking (`MustSkip`, `MaySpill`). That
is why threads that run out of memory under their locks do not wait in a circle; that each of
their calls also returns is a liveness property. `OnlyFailureLosesData` is an action property: from `IInv`, a
step that is not `AllocFail` leaves every buffer its data, because a step that clears
one copy has the other in hand (`Moving`) or puts it in place; there is one
lemma for each group of actions.

### CopyOnWrite

`IInv` adds to `TypeOK` and `SlicesTracked` that slices are not empty. For the
refinement it does not suffice: `ExternalOpen` says that memory a third party
can write to is marked as exposed and that all buffers that use it are open in
`ValueSemantics`. Without spilling that invariant is false, which is finding 2,
and so the theorem has `Spilling` as its hypothesis. The refinement has one lemma per
action: a copy, a view or a collection changes no other value; a write that does not copy has
an owner of its own (`SlicesTracked` makes the length of `_slices` the number of users) or one that
is exposed, and then every buffer it changes is open; a write by the third party changes only open ones.

### RmmEvents

A call changes the address table, the total and the maxima in separate steps, so
between them every property is off by what the calls under way still owe. `CallsOK`
reads off a call's program counter whether it has an address and its size;
`TotalCounts` says that the total is the sum over the addresses that were counted and
over the deallocations that are not yet subtracted; `MaxBehind`, that a maximum
behind its counter belongs to a thread that is about to raise it, and that as long as nothing has overlapped
the recorded maximum is the peak or is about to be; `OneCall`, what a call that nobody
overlaps has added since it read the total. The lemmas about sums over
finite sets (`SumUpdate`, `SumRemove`, ...) are in `FoldTheorems`: the community
modules define such a sum with a choice of the order, and that the order does not
matter has to be proved.

### Unsnap

The prefetcher and the decoder publish a position each, and each reads the other's
late. `RInv` adds to `TypeOK`: `RingHolds`, the ring has the last `PrefetchSize`
bytes that were copied, and the prefetcher is at most a ring ahead of the
*published* position of the decoder (with a chunk to spare while it copies);
`Behind`, published positions are not ahead of real ones; `LookAhead`, while a batch is
made, the bytes of all the symbols it has room for have been published; `Sizes`. The
only assumption on the sizes is the one the constants of the source satisfy, that the look-ahead of a
batch and a chunk fit in the ring together. `ModSame` (in `FoldTheorems`) is the fact that makes a ring of it: two
positions less than a ring apart have different slots.

`SInv` carries the refinement. The decoder settles the verdict while batches still wait to be
taken, so neither what was taken nor the verdict can be read off one warp. `Verdict` ties the error
flag to the stream. The rest is an account of the symbols: there are the sequence `m` of the
symbols decoded so far, the number `d` of batches handed over and the number `c` of batches given back
(none of them is a variable of the program) such that

* `Queue`: the slots hold exactly the batches `c` to `d - 1`, each where its number modulo
  `batch_count` says, the others are empty, and the mark of the end is in slot `d`;
* `Decoding`: `m` is valid (the stream's own symbols as far as the stream goes) and its sizes add up to what the header promised less what
  `bytes_left` says, and the decoder gives up only where the rest of the stream
  is not `Decodable`. This uses `RingIntact`: what the decoder looks at is the next symbol of the
  stream because the bytes in the ring are the right ones;
* `Copying`: what the copier has taken is the first part of `m`, batch by batch.

The total of a sequence of symbols is a recursive function; that it exists is proved with `NatSetInduction`.
There is one lemma per action, which gives the new account.

### JavaMemory

A thread that cleans a slice closes the parent, which may clean the parent, and so
on: the stacks have no bound, and neither has the depth of slices. `Inv` says that there is a rank of
the buffers that every slice lowers to its parent, such that

* `Shape`: what lies on what in a stack (`Above`, `Bottom`), and that along a
  stack the rank falls, so a buffer that is being cleaned is not met again;
* `Cleans`: one thread at a time cleans a buffer, and memory that went back is
  clean or about to be marked so;
* `Counts`: the reference count of a buffer is at least the application's references,
  the closes under way and the slices not yet cleaned, together, so that
  nobody frees what somebody still holds;
* `Monitor`: one thread is in the monitor of the class `PinnedMemoryPool`, and what it has
  read of the two static fields stays true until it leaves;
* `Owners`: a pool that somebody got is the singleton or released.

`NoCircle` follows from it. A thread in the monitor of the class is at a frame of the pool
and waits for nobody, so a circle would consist of threads that close or clean
buffers only. The buffers whose monitors a thread is in lie below the one it waits for in its
stack and have a higher rank (`HeldAbove`), so the thread of the circle with the least rank
(with a clean before a close of the same buffer) cannot be waiting for another of them.

The rank cannot be a variable of the model, since the program has none; `SliceStep` gives the
new one for a slice that is made.

### SplitPipeline

The host, three streams, two pinned buffers, the device buffers and the blocks of the kernel
run at the same time, for any number of chunks, tiles and buffers. What makes it provable is that nearly
all of the state is determined by where the host is. `IInv` says that there is a device buffer
`prev`, that of the chunk before the one in hand (the program keeps no variable for it), such that

* `HostInv`, `ChunksInv`: the counters of the host agree; the chunk in hand, and the one
  that was read ahead, are the next ones, in two different live buffers;
* `Queues`: what is left on each stream is an end (`Rest`) of a sequence
  (`MainOps`, `ScanOps`, `ReadOps(prev)`) that the host's variables say;
* `EventsInv`: a record that is still on a stream is not complete, and is
  there once. So a complete record says how far *another* stream has come
  (`FrontGone`), which is what a wait for an event is for;
* `WaitsInv`: which records are complete when a stream has gone past a wait;
* `DataInv`: the data of which chunk is in a buffer once the upload is off its queue, and
  that the copy of the characters of chunk `n - 1` still finds them there;
* `ScanInv`, `RingInv`, `BlockInv`: a tile's state is reset, then has its own aggregate, then
  the inclusive sum; a block that looks back has in its window the tiles between its predecessor
  and itself. The ring is longer than a chunk and its predecessor, so these tiles have different
  slots (`SlotApart`, by `ModSame` of `FoldTheorems`).

Of the length of the ring `SlotApart` uses only that it is longer than one chunk: that
suffices, because a launch waits for the one before.

`PopAll` covers every operation a stream can take next; there is one lemma for each step of the
host and of a block. `AdvanceKeeps` is where the streams change roles: what was the scan
stream's queue becomes the read stream's, and the new `prev` is the buffer of the chunk in hand.
`OffsetsExact` is a part of the induction as well, since the tile state that the host
has read is written again by a later chunk.

`SpinsOnResident` is what keeps the look-back from a deadlock, whatever `Resident` is. It has a small
invariant of its own on top of `IInv`: blocks are dispatched in their `Order`, and a running block
that has come as far as to look back is `Showing` something in its slot, which no reset of a
later chunk takes away (`PopShowing`).

### MultibyteSplit

The rows are exact for any text, delimiter and byte range, any numbers of characters to a
thread, threads to a tile and tiles to a chunk, and any characters in the items behind the end of the last
chunk. `CasesAssumption` is what the code needs of its arguments: a range is not negative, which
`byte_range_info.cpp` checks, and a delimiter has a character, which nothing checks. The argument
has four parts.

* *What a multistate knows.* `Known(w)` and `Through(w)` say without a recursion which
  matches a word `w` begins and which go through all of it; `Multi(w)` is both. `JoinedKnown` and
  `JoinedMulti` say that joining the states of two words is the state of their concatenation, so the
  prefix sums over threads and tiles, in any grouping, are the state of the text so
  far (`TilePrefixIs`, `KernelMatchesAre`). A tile's sum has few segments because a delimiter with
  more equal characters is refused: that is `SegmentsFit`.
* *Which ends are kept.* `Kept(c)` are the ends among the first `c` characters that the
  output has: those from the begin of the range up to the first at or behind its end. Scanning starts
  a delimiter's length before the range, so a delimiter that crosses its begin is found.
* *The builder.* `BuilderOK`: no buffer is overfull and only the last two have free
  space. Then a write that is split over two buffers appends to what `Gather` returns.
* *The loop.* `LoopOK` is the invariant of the loop: `ChunkOK`, where the scan is; `CarryOK`, what
  the multistate handed from chunk to chunk knows; `LastOK` and `FirstOK`, that the first and the last
  row are the right ones of `Kept(chunk_offset)`; `RowsOK` and `CharsOK`, that the buffers
  have these ends and the characters of these rows. After the loop the rows are
  cut between `Bounds`, and `RowsExact` follows by comparing two increasing sequences of the same numbers
  (`Ascending`).

`IInv` has more states than the runs reach at any size and says of the carried state that *some* word in
`Seq(Alphabet)` explains it, so TLC checks its consequences (`multibyte_rows`) and not `IInv` itself.

### Only model-checked

* Liveness (`CallsReturn`, `Terminates`, `Finishes`, `LeaksReclaimed`): it needs fairness
  and `ENABLED`, which are outside the prover's reach.
* `CopierExact` of `SnappyCopy`: the sums, the rounds and the reference are recursive.
* `DataNotLost`, `AllocationsOwned`, `ImplementsValues` without spilling, and `CopierExact` with
  warps wider than the masks: they are false (section 5).

Induction with an operator as its hypothesis is out of reach of the provers.
`NatSetInduction` and `SubsetInduction` of `FoldTheorems` say it with sets instead:
what is to be proved of every number, or every subset of a finite set, is that it belongs to a
given set. The sums, and the totals of the Snappy streams, are proved that way.

## 5. Findings

1. `spill(target="gpu")` takes the host copy out of `_ptr_desc` before the
   allocation that may fail. After a `MemoryError` the buffer has no data at all
   (`spillable_buffer.py:250`, run `spill_lost`). `LossOnlyByFailure` shows that this is the only way.
2. Without spilling nothing marks memory as exposed, so a shallow copy made
   after `__cuda_array_interface__` shares memory with the third party
   (`exposure_tracked_buffer.py:76`, run `cow_unspillable`).
3. When `onAllocated` throws, the debug resource keeps the memory and drops its
   address (`RmmJni.cpp:379`, run `rmm_debug_leak`).
4. In the default build a warp has 64 lanes and a batch 64 symbols, but the copier of the Snappy
   kernel combines small symbols with sums, masks and shuffles made for 32 lanes: of a batch of
   more than 32 symbols that it begins to combine, those beyond lane 31 are lost or counted once more
   (`unsnap.cu:573-590`, run `unsnap_warp64`). A build with `CUDF_USE_WARPSIZE_32` has batches of 32 and is
   right (`CopierExact` in run `unsnap`).

Smaller observations, not checked by a run of their own:

* `make_single_owner_inplace` does not leave the old owner's `_slices`, so the last slice
  of an owner can copy once more than needed (`exposure_tracked_buffer.py:105`).
* Overlapping allocations and frees can miss a threshold, since the total is read
  apart from the operation (`RmmJni.cpp:295`); `ThresholdsSeen` is stated for calls that do not overlap. It also
  leaves out a threshold of 0: `low < t` never holds of it, so the handler never
  hears of it (`RmmJni.cpp:269`).
* The recorded maximum is said to be "the maximum amount of RMM memory (Bytes) outstanding during the
  lifetime of the process" (`Rmm.java:324-325`). That is so as long as calls do not overlap. If they do, a
  peak is lost when another thread gives memory back between the count and the update of the maximum
  (`RmmJni.cpp:135-138`), and one that memory never reached is recorded when memory that is given
  back is allocated again before it is subtracted (`RmmJni.cpp:149`): `MaxCovers` has both cases.
* `freeInternal` uses the pool of the moment: after a shutdown and a new initialization a late
  close gives memory of the old pool to the new one (`PinnedMemoryPool.java:102`), although the
  doc of `shutdown` says "Any allocation or free that is in flight will fail after this."
  (`PinnedMemoryPool.java:153-154`). `JavaMemory` has this behaviour, so a property that says
  what the doc says would be violated. What is left of it is the lemma `MisplacedAfterRelease` of `JavaMemoryProofs`: memory
  that went to another pool than its own did so after its own was released.
* Each warp of the Snappy kernel tests `s->error` after the barrier (`unsnap.cu:731`), when the
  decoder may already have ended with an error (line 528): the copier then takes nothing, and the
  result still counts the decoded bytes (line 745), although its field is the "Number of bytes written to
  the output buffer" (`codec.hpp:54`). The status is `FAILURE` in both cases.
* With 64 lanes the copier's loop over the blocks of a literal (`unsnap.cu:639-647`) stores up to 32 bytes
  behind the block, which are the literal's next ones, or are written again by the next symbol.
* A pool whose initialization failed cannot be shut down: `getSingleton` throws in
  `shutdown` and in `initialize` as well (`PinnedMemoryPool.java:92`).
* The check of a copy's distance on lane 0 (`unsnap.cu:467`) counts the copy's own
  length, so it lets a copy begin up to its length before the output; `SnappyStream!Acceptable` states
  the code's bound.
* In `multibyte_split` the wait for the host-to-device copy of a ticket is never the
  one that blocks: `get_inclusive_prefix` has waited for that stream already.
* `MmapCleaner.cleanImpl` (`HostMemoryBuffer.java:103`) is not synchronized, unlike the cleaners of
  allocated memory, so a close and the shutdown hook could both unmap. Mapped files are outside `JavaMemory`.

## 6. Plan

1. `SpillManager`: sizes, access times, the device limit and what one sweep
   spills (a sweep with nothing to spill still moves one buffer); the global
   manager's three states and the spill-on-demand resource stack.
2. `KafkaSource`: what is read and committed when messages, errors and
   timeouts interleave, and a consumer restarts.

## 7. What is not modelled

* In the modelled parts: truncated Snappy streams promise nothing about the bytes after
  their end; volatile accesses to shared memory are taken as sequentially consistent; a copy of
  distance 0 is not among the symbols (lanes that decode together would accept it as a literal, lane 0
  rejects it). Device memory is
  sequentially consistent in `SplitPipeline`; the fence in `get_prefix` is what makes it so.
  An application that closes a Java buffer too often, or uses a closed one, is
  outside `JavaMemory`; so are columns, scalars and event handlers of buffers.
* The algorithms of libcudf (joins, sorting, strings, groupby, rolling, ...) are
  numeric code on immutable inputs: what they compute is out of TLC's reach and
  they keep no state between calls.
* The file formats and the other compression codecs: parsing and encoding
  of large inputs, little interaction.
* pylibcudf, cudf-polars and dask-cudf bind or translate; the state they keep
  belongs to the libraries they call.
* `cudf.pandas` proxies: one object, one thread; a candidate after the parts above.
* Spill statistics: counters and tracebacks for people.
