----------------------------- MODULE RmmEvents -----------------------------
(***************************************************************************)
(* The device memory resources that the Java bindings put on top of RMM    *)
(* (java/src/main/native/src/RmmJni.cpp): tracking_resource_adaptor counts *)
(* what is allocated; java_event_handler_memory_resource, on top of it,    *)
(* asks a Java handler what to do when an allocation fails and tells it    *)
(* when the total crosses a threshold; the debug variant also reports      *)
(* every allocation.                                                       *)
(*                                                                         *)
(* Threads allocate and free at the same time.  The counters are atomics,  *)
(* updated apart from the allocation they count: each access is a step.    *)
(* The thresholds for allocation and deallocation are the same set.        *)
(***************************************************************************)
EXTENDS Integers, FiniteSets, FiniteSetsExt

CONSTANTS
  Threads,     \* application threads
  Blocks,      \* addresses the upstream resource hands out
  Sizes,       \* sizes applications ask for
  Align,       \* size_alignment of the tracker
  Capacity,    \* device memory
  Thresholds,  \* RmmEventHandler.getAllocThresholds, getDeallocThresholds
  Debug,       \* is java_debug_event_handler_memory_resource used
  Resets,      \* initial values for resetScopedMaximumBytesAllocated
  MaxRetries,  \* bound on the retries of one allocation
  None         \* no address

ASSUME FiniteAssumption == IsFiniteSet(Threads) /\ IsFiniteSet(Blocks)
ASSUME SizesAssumption == Sizes \subseteq Nat \ {0} /\ Sizes # {}
ASSUME AlignAssumption == Align \in Nat \ {0}
ASSUME CapacityAssumption == Capacity \in Nat
ASSUME ThresholdsAssumption == Thresholds \subseteq Nat
ASSUME DebugAssumption == Debug \in BOOLEAN
ASSUME ResetsAssumption == Resets \subseteq Nat
ASSUME RetriesAssumption == MaxRetries \in Nat
ASSUME NoneAssumption == None \notin Blocks

VARIABLES
  size,       \* upstream: requested size of each allocated address, else 0
  app,        \* addresses the application has
  total,      \* total_allocated
  maxTotal,   \* max_total_allocated
  scoped,     \* scoped_allocated
  scopedMax,  \* scoped_max_total_allocated
  above,      \* history: the thresholds the handler was told are reached
  dropped,    \* history: addresses an exception of onAllocated has left behind
  overlap,    \* history: two allocations or deallocations were under way at a time
  peak,       \* history: the most memory that was allocated at a time
  call        \* the allocate, deallocate or reset each thread is in

history == <<dropped, overlap, peak>>
vars == <<size, app, total, maxTotal, scoped, scopedMax, above, history, call>>

Idle == [pc |-> "idle", op |-> "none", n |-> 0, b |-> None, before |-> 0, after |-> 0,
         retries |-> 0]

\* For the mutants: the size is not rounded up.
RoundDown(n) == (n \div Align) * Align

\* The size an allocation is counted with.
Round(n) == ((n + Align - 1) \div Align) * Align

Allocated == {b \in Blocks : size[b] # 0}
Used == SumFunction([b \in Blocks |-> Round(size[b])])

\* No allocation or deallocation is under way.
Outside == {"idle", "reset_max"}
Quiet == \A t \in Threads : call[t].pc \in Outside

MaxUnlocked == \A t \in Threads : call[t].pc \notin {"scoped_maximum", "reset_max"}

Goto(t, c) == call' = [call EXCEPT ![t] = c]
At(t, pc) == call[t].pc = pc
To(t, pc) == Goto(t, [call[t] EXCEPT !.pc = pc])

Init ==
  /\ size = [b \in Blocks |-> 0] /\ app = {}
  /\ total = 0 /\ maxTotal = 0 /\ scoped = 0 /\ scopedMax = 0
  /\ above = {} /\ dropped = {} /\ overlap = FALSE /\ peak = 0
  /\ call = [t \in Threads |-> Idle]

----------------------------------------------------------------------------
(* tracking_resource_adaptor *)

\* The upstream resource finds room, in an address nobody uses, ...
Upstream(t, b) ==
  /\ At(t, "allocate")
  /\ size[b] = 0 /\ Used + Round(call[t].n) <= Capacity
  /\ size' = [size EXCEPT ![b] = call[t].n]
  /\ peak' = Max({peak, Used'})
  /\ Goto(t, [call[t] EXCEPT !.pc = "add_total", !.b = b])
  /\ UNCHANGED <<app, total, maxTotal, scoped, scopedMax, above, dropped, overlap>>

\* ... or is out of memory.
UpstreamFails(t) ==
  /\ At(t, "allocate")
  /\ Used + Round(call[t].n) > Capacity
  /\ To(t, "failed")
  /\ UNCHANGED <<size, app, total, maxTotal, scoped, scopedMax, above, history>>

AddTotal(t) ==
  /\ At(t, "add_total")
  /\ total' = total + Round(call[t].n)
  /\ To(t, "add_scoped")
  /\ UNCHANGED <<size, app, maxTotal, scoped, scopedMax, above, history>>

AddScoped(t) ==
  /\ At(t, "add_scoped")
  /\ scoped' = scoped + Round(call[t].n)
  /\ To(t, "maximum")
  /\ UNCHANGED <<size, app, total, maxTotal, scopedMax, above, history>>

\* Mutant: the maximum is that of this allocation.
UpdateMaxUnread(t) ==
  /\ At(t, "maximum") /\ MaxUnlocked
  /\ maxTotal' = Max({maxTotal, call[t].before + Round(call[t].n)})
  /\ To(t, "scoped_maximum")
  /\ UNCHANGED <<size, app, total, scoped, scopedMax, above, history>>

\* max_total_allocated_mutex protects the maxima; the counters go on changing.
UpdateMax(t) ==
  /\ At(t, "maximum") /\ MaxUnlocked
  /\ maxTotal' = Max({maxTotal, total})
  /\ To(t, "scoped_maximum")
  /\ UNCHANGED <<size, app, total, scoped, scopedMax, above, history>>

UpdateScopedMax(t) ==
  /\ At(t, "scoped_maximum")
  /\ scopedMax' = Max({scopedMax, scoped})
  /\ To(t, "after")
  /\ UNCHANGED <<size, app, total, maxTotal, scoped, above, history>>

\* The address goes back to the upstream resource, ...
Release(t) ==
  /\ At(t, "release")
  /\ size' = [size EXCEPT ![call[t].b] = 0]
  /\ Goto(t, [call[t] EXCEPT !.pc = "sub_total", !.n = size[call[t].b]])
  /\ UNCHANGED <<app, total, maxTotal, scoped, scopedMax, above, history>>

\* Mutant: the size is not rounded up when memory is given back.
SubTotalUnrounded(t) ==
  /\ At(t, "sub_total")
  /\ total' = total - RoundDown(call[t].n)
  /\ To(t, "sub_scoped")
  /\ UNCHANGED <<size, app, maxTotal, scoped, scopedMax, above, history>>

\* ... and the counters follow.
SubTotal(t) ==
  /\ At(t, "sub_total")
  /\ total' = total - Round(call[t].n)
  /\ To(t, "sub_scoped")
  /\ UNCHANGED <<size, app, maxTotal, scoped, scopedMax, above, history>>

\* Mutant: the total is decreased instead of the scoped counter.
SubScopedTotal(t) ==
  /\ At(t, "sub_scoped")
  /\ total' = total - Round(call[t].n)
  /\ IF call[t].op = "allocate" THEN Goto(t, Idle) ELSE To(t, "after")
  /\ UNCHANGED <<size, app, scoped, maxTotal, scopedMax, above, history>>

\* After an allocation that is undone the exception goes on to the caller.
SubScoped(t) ==
  /\ At(t, "sub_scoped")
  /\ scoped' = scoped - Round(call[t].n)
  /\ IF call[t].op = "allocate" THEN Goto(t, Idle) ELSE To(t, "after")
  /\ UNCHANGED <<size, app, total, maxTotal, scopedMax, above, history>>

\* reset_scoped_max_total_allocated, under the same mutex: it sets the counter,
\* which other threads go on changing, ...
ResetScoped(t, v) ==
  /\ At(t, "idle") /\ MaxUnlocked
  /\ scoped' = v
  /\ Goto(t, [Idle EXCEPT !.pc = "reset_max", !.op = "reset", !.before = v])
  /\ UNCHANGED <<size, app, total, maxTotal, scopedMax, above, history>>

\* ... then its maximum.
ResetScopedMax(t) ==
  /\ At(t, "reset_max")
  /\ scopedMax' = call[t].before
  /\ Goto(t, Idle)
  /\ UNCHANGED <<size, app, total, maxTotal, scoped, above, history>>

----------------------------------------------------------------------------
(* java_event_handler_memory_resource *)

Allocate(t, n) ==
  /\ At(t, "idle")
  /\ Goto(t, [Idle EXCEPT !.pc = "before", !.op = "allocate", !.n = n])
  /\ overlap' = (overlap \/ ~Quiet)
  /\ UNCHANGED <<size, app, total, maxTotal, scoped, scopedMax, above, dropped, peak>>

Deallocate(t, b) ==
  /\ At(t, "idle") /\ b \in app
  /\ app' = app \ {b}
  /\ Goto(t, [Idle EXCEPT !.pc = "before", !.op = "deallocate", !.b = b])
  /\ overlap' = (overlap \/ ~Quiet)
  /\ UNCHANGED <<size, total, maxTotal, scoped, scopedMax, above, dropped, peak>>

TotalBefore(t) ==
  /\ At(t, "before")
  /\ Goto(t, [call[t] EXCEPT !.before = total,
                             !.pc = IF call[t].op = "allocate" THEN "allocate" ELSE "release"])
  /\ UNCHANGED <<size, app, total, maxTotal, scoped, scopedMax, above, history>>

\* onAllocFailure asks for a retry, ...
Retry(t) ==
  /\ At(t, "failed") /\ call[t].retries < MaxRetries
  /\ Goto(t, [call[t] EXCEPT !.pc = "before", !.retries = @ + 1])
  /\ UNCHANGED <<size, app, total, maxTotal, scoped, scopedMax, above, history>>

\* ... gives up, or throws: either way the caller gets an exception.
GiveUp(t) ==
  /\ At(t, "failed")
  /\ Goto(t, Idle)
  /\ UNCHANGED <<size, app, total, maxTotal, scoped, scopedMax, above, history>>

TotalAfter(t) ==
  /\ At(t, "after")
  /\ Goto(t, [call[t] EXCEPT !.after = total, !.pc = "check"])
  /\ UNCHANGED <<size, app, total, maxTotal, scoped, scopedMax, above, history>>

\* Mutant: a threshold that is just reached is not crossed.
CrossedStrictly(low, high) == \E x \in Thresholds : low < x /\ high > x

\* check_for_threshold_callback
Crossed(low, high) == \E x \in Thresholds : low < x /\ high >= x

Crossing(t) ==
  IF call[t].op = "allocate" THEN Crossed(call[t].before, call[t].after)
                             ELSE Crossed(call[t].after, call[t].before)

NotCrossed(t) ==
  /\ At(t, "check") /\ ~Crossing(t)
  /\ To(t, "return")
  /\ UNCHANGED <<size, app, total, maxTotal, scoped, scopedMax, above, history>>

\* onAllocThreshold or onDeallocThreshold returns ...
Callback(t) ==
  /\ At(t, "check") /\ Crossing(t)
  /\ above' = {x \in Thresholds : x <= call[t].after}
  /\ To(t, "return")
  /\ UNCHANGED <<size, app, total, maxTotal, scoped, scopedMax, history>>

\* Mutant: an allocation whose callback throws is kept.
CallbackThrowsKept(t) ==
  /\ At(t, "check") /\ Crossing(t) /\ call[t].op = "allocate"
  /\ Goto(t, Idle)
  /\ UNCHANGED <<size, app, total, maxTotal, scoped, scopedMax, above, history>>

\* ... or throws: an allocation is released before the exception goes on.
CallbackThrows(t) ==
  /\ At(t, "check") /\ Crossing(t) /\ call[t].op = "allocate"
  /\ To(t, "release")
  /\ UNCHANGED <<size, app, total, maxTotal, scoped, scopedMax, above, history>>

\* A deallocation whose callback throws has released its memory.
DeallocCallbackThrows(t) ==
  /\ At(t, "check") /\ Crossing(t) /\ call[t].op = "deallocate"
  /\ above' = {x \in Thresholds : x <= call[t].after}
  /\ Goto(t, Idle)
  /\ UNCHANGED <<size, app, total, maxTotal, scoped, scopedMax, history>>

\* The result goes to the application, after onAllocated in debug mode.
Return(t) ==
  /\ At(t, "return")
  /\ app' = IF call[t].op = "allocate" THEN app \cup {call[t].b} ELSE app
  /\ Goto(t, Idle)
  /\ UNCHANGED <<size, total, maxTotal, scoped, scopedMax, above, history>>

\* java_debug_event_handler_memory_resource: onAllocated throws.
DebugThrows(t) ==
  /\ At(t, "return") /\ Debug /\ call[t].op = "allocate"
  /\ dropped' = dropped \cup {call[t].b}
  /\ Goto(t, Idle)
  /\ UNCHANGED <<size, app, total, maxTotal, scoped, scopedMax, above, overlap, peak>>

Track(t) ==
  \/ \E b \in Blocks : Upstream(t, b)
  \/ UpstreamFails(t) \/ AddTotal(t) \/ AddScoped(t) \/ UpdateMax(t) \/ UpdateScopedMax(t)
  \/ Release(t) \/ SubTotal(t) \/ SubScoped(t)
  \/ \E v \in Resets : ResetScoped(t, v)
  \/ ResetScopedMax(t)

Handle(t) ==
  \/ TotalBefore(t) \/ Retry(t) \/ GiveUp(t) \/ TotalAfter(t)
  \/ NotCrossed(t) \/ Callback(t) \/ CallbackThrows(t) \/ DeallocCallbackThrows(t)
  \/ Return(t) \/ DebugThrows(t)

Next ==
  \E t \in Threads :
    \/ \E n \in Sizes : Allocate(t, n)
    \/ \E b \in Blocks : Deallocate(t, b)
    \/ Track(t) \/ Handle(t)

Spec == Init /\ [][Next]_vars

----------------------------------------------------------------------------
\* The calls a thread can be in, step by step.
Calls ==
  [pc : {"idle", "before", "allocate", "failed", "add_total", "add_scoped", "maximum",
         "scoped_maximum", "release", "sub_total", "sub_scoped", "after", "check", "return", "reset_max"},
   op : {"none", "allocate", "deallocate", "reset"}, n : Sizes \cup {0},
   b : Blocks \cup {None}, before : Nat, after : Nat, retries : 0..MaxRetries]

\* The variables have their types; in particular total_allocated, an unsigned
\* counter, never goes below zero.
TypeOK ==
  /\ size \in [Blocks -> Sizes \cup {0}] /\ app \subseteq Blocks
  /\ total \in Nat /\ maxTotal \in Nat /\ scoped \in Int /\ scopedMax \in Int
  /\ above \subseteq Thresholds /\ dropped \subseteq Blocks /\ overlap \in BOOLEAN /\ peak \in Nat
  /\ call \in [Threads -> Calls]

\* The address a thread has in hand: allocated and not yet returned, or on its
\* way back.
InHand(t) ==
  IF call[t].pc \in Outside \cup {"sub_total", "sub_scoped"} \/ (call[t].op = "deallocate"
                     /\ call[t].pc \in {"after", "check", "return"})
  THEN {} ELSE {call[t].b} \ {None}

\* Every allocated address is known to exactly one party, the application or
\* a thread in a call: an exception from a threshold callback leaks nothing,
\* and nothing is freed twice.  (What an exception of the debug resource's
\* onAllocated leaves behind is the subject of AllocationsOwned.)
NothingLeaks ==
  /\ Allocated = app \cup dropped \cup UNION {InHand(t) : t \in Threads}
  /\ app \cap dropped = {}
  /\ \A t \in Threads : InHand(t) \cap (app \cup dropped) = {}
  /\ \A t, u \in Threads : t # u => InHand(t) \cap InHand(u) = {}

\* The counters do not drift: when no call is under way the total is what is
\* allocated, whatever failed, was undone or interleaved before.
TotalExact == Quiet => total = Used

\* What the maxima tell when no allocation or deallocation is under way.  If no
\* two ever overlapped, max_total_allocated is the most memory that was
\* allocated at a time, and Rmm.getMaximumTotalBytesAllocated tells the truth.
\* If some did, it is no more than a bound on the present total: the counter
\* and the maximum change apart from each other and from the memory, so a peak
\* may be lost, or one recorded that memory never reached.  The scoped maximum
\* is such a bound as well, between the two stores of a reset excepted.
MaxCovers ==
  Quiet => /\ ~overlap => maxTotal = peak
           /\ maxTotal >= total
           /\ MaxUnlocked => scopedMax >= scoped

\* As long as calls did not overlap, the handler knows which thresholds are
\* reached: every callback of check_for_threshold_callback taken together, with
\* those whose allocation was undone by an exception, describes the total.
\* (Overlapping calls read the total apart from changing it, and may miss one.
\* A threshold of 0 is reached from the start and is never crossed.)
ThresholdsSeen ==
  Quiet /\ ~overlap => above \ {0} = {x \in Thresholds \ {0} : x <= total}

\* "Free the allocation as app will think the exception means the memory was
\* not allocated" (RmmJni.cpp, after a threshold callback that throws): no
\* exception leaves memory allocated that nobody owns.
AllocationsOwned == Allocated \subseteq app \cup UNION {InHand(t) : t \in Threads}
=============================================================================
