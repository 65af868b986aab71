----------------------- MODULE SpillableBufferProofs -----------------------
(***************************************************************************)
(* Proofs about SpillableBuffer, for any number of threads, buffers and    *)
(* frames, any device memory and any nesting of contexts.                  *)
(*                                                                         *)
(* The inductive invariant says, for every point at which a thread can be  *)
(* inside a call, which buffer lock it holds, where the buffer is, and     *)
(* that the copy it carries is current; and, for every buffer, that a pin  *)
(* (a spill lock or exposure) implies device memory.                       *)
(***************************************************************************)
EXTENDS SpillableBuffer, TLAPS

InSweep(t) == th[t].pc \in {"measure", "snapshot", "sweep", "sweep_dtoh"}

\* The thread is at p, or in a sweep from which it returns to p.
At(t, p) == th[t].pc = p \/ (InSweep(t) /\ th[t].ret = p)

CreateOps == {"create", "host", "copy", "copy_host", "copy_dev"}
PinOps    == {"lock_ptr", "copy_dev"}

\* The lock of b is held for the call itself, or for the victim of its sweep.
Holds(t, b) ==
  \/ th[t].arg = b /\ (th[t].pc \in {"locked", "pin", "dtoh"} \/ At(t, "alloc"))
  \/ th[t].victim = b /\ th[t].pc = "sweep_dtoh"

\* The lock is a mutual exclusion: its holder is at a point that holds it.
LockInv ==
  /\ \A t \in Threads : \A b \in Owners :
       Holds(t, b) => rlock[b] = t
  /\ \A b \in Owners : rlock[b] # None => Holds(rlock[b], b)

\* References are to live buffers; a buffer under construction is not live
\* and belongs to one thread.
RefInv ==
  /\ managed \subseteq live
  /\ \A t \in Threads :
       /\ th[t].arg \in live \cup {None}
       /\ th[t].victim \in live \cup {None}
       /\ th[t].todo \subseteq live
       /\ held[t] \subseteq live
       /\ th[t].dst \notin live
  /\ \A t, u \in Threads : th[t].dst = th[u].dst => t = u \/ th[t].dst = None
  /\ \A b \in Owners : exposed[b] \/ spillLocks[b] # {} => b \in live
  /\ \A f \in Frames : frame[f] \in live \cup {None}

\* Where each kind of call can be, and what it needs there.
PcInv ==
  \A t \in Threads :
    /\ InSweep(t) => th[t].ret \in {"idle", "acquire", "alloc", "alloc_new"}
    /\ th[t].pc \in {"locked", "pin", "return", "dtoh", "check"} \/ At(t, "acquire") \/ At(t, "alloc")
         => th[t].arg # None
    /\ th[t].pc \in {"pin", "return"} \/ At(t, "alloc") => th[t].op \in UnspillOps
    /\ th[t].pc = "dtoh" => th[t].op \in SpillOps
    /\ At(t, "alloc_new") => th[t].op \in {"create", "copy_dev"}
    /\ th[t].pc = "finalize" => th[t].op \in {"create", "copy_dev", "host", "copy_host"}
    /\ At(t, "acquire") => th[t].op \notin {"create", "host", "copy"}
    /\ th[t].pc = "locked" => th[t].op \notin {"create", "host", "copy"}
    /\ th[t].pc = "check" => th[t].op = "copy"
    /\ th[t].pc = "sweep_dtoh" <=> th[t].victim # None
    /\ th[t].op \in CreateOps /\ ~At(t, "idle") => th[t].dst # None
    /\ th[t].op \in PinOps \/ th[t].pc = "pop" => ctx[t] > 0
    /\ th[t].op = "none" <=> th[t].pc \in {"idle", "pop"}

\* A pinned buffer is in device memory, and pins are scoped.
PinInv ==
  /\ \A b \in Owners : exposed[b] \/ spillLocks[b] # {} => loc[b] = "gpu"
  /\ \A t \in Threads : \A b \in Owners :
       /\ b \in held[t] => t \in spillLocks[b]
       /\ t \in spillLocks[b] => ctx[t] > 0
  /\ \A f \in Frames : \A b \in Owners : f \in spillLocks[b] <=> frame[f] = b
  /\ \A t \in Threads :
       /\ At(t, "alloc") => Spilled(th[t].arg)
       /\ th[t].pc = "pin" => ~Spilled(th[t].arg)
       /\ th[t].pc = "dtoh" => ~Spilled(th[t].arg) /\ Spillable(th[t].arg)
       /\ th[t].pc = "sweep_dtoh" => ~Spilled(th[t].victim) /\ Spillable(th[t].victim)
       /\ th[t].pc = "return" /\ th[t].op \in PinOps => t \in spillLocks[th[t].arg]
       /\ At(t, "alloc_new") /\ th[t].op = "copy_dev" => th[t].arg \in held[t]

\* Every copy in use is current.
DataInv ==
  /\ \A b \in live : IF Spilled(b) THEN mv[b] # Stale ELSE dev[b] = Current
  /\ \A t \in Threads :
       /\ At(t, "alloc") \/ th[t].pc = "dtoh" => th[t].carry = Current
       /\ At(t, "alloc_new") /\ th[t].op = "create" => th[t].carry = Current
       /\ th[t].pc = "sweep_dtoh" => th[t].vcarry = Current
       /\ th[t].pc = "finalize" =>
            IF th[t].op \in {"host", "copy_host"} THEN th[t].carry = Current
                                                  ELSE dev[th[t].dst] = Current

IInv == TypeOK /\ LockInv /\ RefInv /\ PcInv /\ PinInv /\ DataInv

----------------------------------------------------------------------------
(* The records of a call have their type.                                  *)

\* The record of a thread outside the API is well formed.
LEMMA IdleType == Idle \in CallState
  BY DEF Idle, CallState, PCs, Ops, UnspillOps, SpillOps, Content, NoData

\* So is the record with which a call ends ...
LEMMA AfterType == \A t : After(t) \in CallState
<1>1. [Idle EXCEPT !.pc = "pop"] \in CallState
  BY IdleType DEF CallState, PCs
<1>. QED  BY <1>1, IdleType DEF After

\* ... and the one with which a sweep returns.
LEMMA ReturnType == \A t : th[t] \in CallState => Return(t) \in CallState
<1>1. ASSUME NEW t, th[t] \in CallState
      PROVE  [th[t] EXCEPT !.pc = th[t].ret, !.retried = FALSE] \in CallState
  BY <1>1 DEF CallState
<1>. QED  BY <1>1, AfterType DEF Return

----------------------------------------------------------------------------
(* Every action preserves the invariant.                                   *)

\* A call of get_ptr, spill, memoryview or serialize begins.
LEMMA StartStep ==
  ASSUME IInv, NEW t \in Threads, NEW b \in Owners, NEW o \in AccessCalls, Start(t, o, b)
  PROVE  IInv'
<1>1. TypeOK'
  <2>1. th[t] \in CallState
    BY DEF IInv, TypeOK
  <2>a. o \in Ops
    BY <2>1 DEF IInv, TypeOK, CallState, AccessCalls, Ops, UnspillOps, SpillOps
  <2>2. [Idle EXCEPT !.op = o, !.arg = b, !.ret = "acquire",
              !.pc = IF o = "expose" THEN "measure" ELSE "acquire"] \in CallState
    BY <2>a, IdleType DEF CallState, PCs
  <2>3. th' \in [Threads -> CallState]
    BY <2>2 DEF IInv, TypeOK, Start, Goto
  <2>. QED
    BY <2>3 DEF IInv, TypeOK, Start, bufVars
<1>2. LockInv'
  BY DEF IInv, Start, Goto, AccessCalls, TypeOK, LockInv, Holds, At, InSweep, bufVars
<1>3. RefInv'
  BY NoneAssumption DEF IInv, Start, Goto, AccessCalls, TypeOK, CallState, RefInv, PcInv,
      At, InSweep, Idle, bufVars
<1>4. PcInv'
  BY NoneAssumption DEF IInv, Start, Goto, AccessCalls, TypeOK, CallState, PcInv, At,
      InSweep, Idle, CreateOps, PinOps, UnspillOps, SpillOps, bufVars
<1>5. PinInv'
  BY DEF IInv, Start, Goto, AccessCalls, TypeOK, PinInv, At, InSweep, Spilled, Spillable,
      bufVars
<1>6. DataInv'
  BY DEF IInv, Start, Goto, AccessCalls, TypeOK, DataInv, At, InSweep, Spilled, bufVars
<1>. QED  BY <1>1, <1>2, <1>3, <1>4, <1>5, <1>6 DEF IInv

\* as_buffer begins.
LEMMA StartCreateStep ==
  ASSUME IInv, NEW t \in Threads, NEW b \in Owners, NEW o \in {"create", "host"}, StartCreate(t, o, b)
  PROVE  IInv'
<1>1. TypeOK'
  <2>1. th[t] \in CallState
    BY DEF IInv, TypeOK
  <2>2. [Idle EXCEPT !.op = o, !.dst = b, !.carry = Current,
              !.pc = IF o = "create" THEN "alloc_new" ELSE "finalize"] \in CallState
    BY IdleType, ZenonT(40) DEF CallState, PCs, Ops, Content, Current
  <2>3. th' \in [Threads -> CallState]
    BY <2>2 DEF IInv, TypeOK, StartCreate, Goto
  <2>. QED
    BY <2>3 DEF IInv, TypeOK, StartCreate, bufVars
<1>2. LockInv'
  BY DEF IInv, StartCreate, Goto, Fresh, TypeOK, LockInv, Holds, At, InSweep, bufVars
<1>3. RefInv'
  BY DEF IInv, StartCreate, Goto, Fresh, TypeOK, CallState, RefInv, Idle, bufVars
<1>4. PcInv'
  BY NoneAssumption DEF IInv, StartCreate, Goto, Fresh, TypeOK, CallState, PcInv, At,
      InSweep, Idle, CreateOps, PinOps, UnspillOps, SpillOps, bufVars
<1>5. PinInv'
  BY DEF IInv, StartCreate, Goto, Fresh, TypeOK, PinInv, At, InSweep, Spilled, Spillable,
      bufVars
<1>6. DataInv'
  BY DEF IInv, StartCreate, Goto, Fresh, TypeOK, DataInv, At, InSweep, Spilled, bufVars
<1>. QED  BY <1>1, <1>2, <1>3, <1>4, <1>5, <1>6 DEF IInv

\* copy(deep=True) begins.
LEMMA StartCopyStep ==
  ASSUME IInv, NEW t \in Threads, NEW b \in Owners, NEW d \in Owners, StartCopy(t, b, d)
  PROVE  IInv'
<1>1. TypeOK'
  <2>1. th[t] \in CallState
    BY DEF IInv, TypeOK
  <2>2. [Idle EXCEPT !.op = "copy", !.arg = b, !.dst = d, !.pc = "check"] \in CallState
    BY IdleType DEF CallState, PCs, Ops
  <2>3. th' \in [Threads -> CallState]
    BY <2>2 DEF IInv, TypeOK, StartCopy, Goto
  <2>. QED
    BY <2>3 DEF IInv, TypeOK, StartCopy, bufVars
<1>2. LockInv'
  BY DEF IInv, StartCopy, Goto, Fresh, TypeOK, LockInv, Holds, At, InSweep, bufVars
<1>3. RefInv'
  BY DEF IInv, StartCopy, Goto, Fresh, TypeOK, CallState, RefInv, Idle, bufVars
<1>4. PcInv'
  BY NoneAssumption DEF IInv, StartCopy, Goto, Fresh, TypeOK, CallState, PcInv, At, InSweep,
      Idle, CreateOps, PinOps, UnspillOps, SpillOps, bufVars
<1>5. PinInv'
  BY DEF IInv, StartCopy, Goto, Fresh, TypeOK, PinInv, At, InSweep, Spilled, Spillable, bufVars
<1>6. DataInv'
  BY DEF IInv, StartCopy, Goto, Fresh, TypeOK, DataInv, At, InSweep, Spilled, bufVars
<1>. QED  BY <1>1, <1>2, <1>3, <1>4, <1>5, <1>6 DEF IInv

\* A direct sweep begins.
LEMMA StartSweepStep ==
  ASSUME IInv, NEW t \in Threads, StartSweep(t)
  PROVE  IInv'
<1>1. TypeOK'
  <2>1. th[t] \in CallState
    BY DEF IInv, TypeOK
  <2>2. [Idle EXCEPT !.op = "sweep", !.pc = "snapshot"] \in CallState
    BY IdleType DEF CallState, PCs, Ops
  <2>3. th' \in [Threads -> CallState]
    BY <2>2 DEF IInv, TypeOK, StartSweep, Goto
  <2>. QED
    BY <2>3 DEF IInv, TypeOK, StartSweep, bufVars
<1>2. LockInv'
  BY DEF IInv, StartSweep, Goto, TypeOK, CallState, LockInv, PcInv, Holds, At, InSweep,
      Idle, bufVars
<1>3. RefInv'
  BY NoneAssumption DEF IInv, StartSweep, Goto, TypeOK, CallState, RefInv, PcInv, At,
      InSweep, Idle, bufVars
<1>4. PcInv'
  BY NoneAssumption DEF IInv, StartSweep, Goto, TypeOK, CallState, PcInv, At, InSweep, Idle,
      CreateOps, PinOps, UnspillOps, SpillOps, bufVars
<1>5. PinInv'
  BY DEF IInv, StartSweep, Goto, TypeOK, CallState, PinInv, PcInv, At, InSweep, Spilled,
      Spillable, Idle, PinOps, bufVars
<1>6. DataInv'
  BY DEF IInv, StartSweep, Goto, TypeOK, CallState, DataInv, PcInv, At, InSweep, Spilled,
      Idle, bufVars
<1>. QED  BY <1>1, <1>2, <1>3, <1>4, <1>5, <1>6 DEF IInv

\* Entering a context pins nothing.
LEMMA EnterContextStep ==
  ASSUME IInv, NEW t \in Threads, EnterContext(t)
  PROVE  IInv'
<1>1. TypeOK'
  BY DEF IInv, TypeOK, PcInv, SpillLocks, EnterContext, Goto, PushSpillLock, bufVars
<1>2. LockInv'
  BY DEF IInv, EnterContext, Goto, PushSpillLock, TypeOK, LockInv, Holds, At, InSweep, bufVars
<1>3. RefInv'
  BY DEF IInv, EnterContext, Goto, PushSpillLock, TypeOK, RefInv, bufVars
<1>4. PcInv'
  BY DEF IInv, EnterContext, Goto, PushSpillLock, TypeOK, PcInv, At, InSweep, bufVars
<1>5. PinInv'
  BY DEF IInv, EnterContext, Goto, PushSpillLock, TypeOK, PinInv, At, InSweep, Spilled,
      Spillable, bufVars
<1>6. DataInv'
  BY DEF IInv, EnterContext, Goto, PushSpillLock, TypeOK, DataInv, At, InSweep, Spilled, bufVars
<1>. QED  BY <1>1, <1>2, <1>3, <1>4, <1>5, <1>6 DEF IInv

\* Leaving a context drops the pins of the thread, and its pointers with them.
LEMMA ExitContextStep ==
  ASSUME IInv, NEW t \in Threads, ExitContext(t)
  PROVE  IInv'
<1>1. TypeOK'
  BY DEF IInv, TypeOK, PcInv, SpillLocks, ExitContext, Goto, PopSpillLock, bufVars
<1>2. LockInv'
  BY DEF IInv, ExitContext, Goto, PopSpillLock, TypeOK, LockInv, Holds, At, InSweep
<1>3. RefInv'
  BY DEF IInv, ExitContext, Goto, PopSpillLock, TypeOK, RefInv
<1>4. PcInv'
  BY NoneAssumption DEF IInv, ExitContext, Goto, PopSpillLock, TypeOK, CallState, PcInv, At,
      InSweep, Idle, CreateOps, PinOps, UnspillOps, SpillOps
<1>5. PinInv'
  BY NoneAssumption, FramesAssumption DEF IInv, ExitContext, Goto, PopSpillLock, TypeOK,
      CallState, Content, PCs, Ops, SpillLocks, bufVars, PinInv, PcInv, LockInv, RefInv,
      Holds, At, InSweep, Spilled, Spillable, Idle, PinOps, UnspillOps, SpillOps
<1>6. DataInv'
  BY DEF IInv, ExitContext, Goto, PopSpillLock, TypeOK, DataInv, At, InSweep, Spilled
<1>. QED  BY <1>1, <1>2, <1>3, <1>4, <1>5, <1>6 DEF IInv

\* spill_to_device_limit changes no buffer by itself.
LEMMA MeasureStep ==
  ASSUME IInv, NEW t \in Threads, Measure(t)
  PROVE  IInv'
<1>1. TypeOK'
  <2>1. th[t] \in CallState
    BY DEF IInv, TypeOK
  <2>2. (IF HasLimit THEN [th[t] EXCEPT !.pc = "snapshot"] ELSE Return(t)) \in CallState
    BY <2>1, ReturnType DEF CallState, PCs, Content, NoData
  <2>3. th' \in [Threads -> CallState]
    BY <2>2 DEF IInv, TypeOK, Measure, Goto
  <2>. QED
    BY <2>3 DEF IInv, TypeOK, Measure, bufVars
<1>2. LockInv'
  BY DEF IInv, Measure, Goto, Return, After, TypeOK, CallState, LockInv, PcInv, Holds, At,
      InSweep, Idle, bufVars
<1>3. RefInv'
  BY NoneAssumption DEF IInv, Measure, Goto, Return, After, TypeOK, CallState, RefInv,
      PcInv, At, InSweep, Idle, bufVars
<1>4. PcInv'
  BY NoneAssumption DEF IInv, Measure, Goto, Return, After, TypeOK, CallState, PcInv, At,
      InSweep, Idle, CreateOps, PinOps, UnspillOps, SpillOps, bufVars
<1>5. PinInv'
  BY DEF IInv, Measure, Goto, Return, After, TypeOK, CallState, PinInv, PcInv, At, InSweep,
      Spilled, Spillable, Idle, PinOps, bufVars
<1>6. DataInv'
  BY DEF IInv, Measure, Goto, Return, After, TypeOK, CallState, DataInv, PcInv, At, InSweep,
      Spilled, Idle, bufVars
<1>. QED  BY <1>1, <1>2, <1>3, <1>4, <1>5, <1>6 DEF IInv

\* The snapshot of the manager refers to live buffers.
LEMMA SnapshotStep ==
  ASSUME IInv, NEW t \in Threads, Snapshot(t)
  PROVE  IInv'
<1>1. TypeOK'
  <2>1. th[t] \in CallState
    BY DEF IInv, TypeOK
  <2>a. managed \in SUBSET Owners
    BY <2>1 DEF IInv, TypeOK, CallState
  <2>2. [th[t] EXCEPT !.pc = "sweep", !.todo = managed, !.spilled = FALSE] \in CallState
    BY <2>1, <2>a DEF CallState, PCs, Content, NoData
  <2>3. th' \in [Threads -> CallState]
    BY <2>2 DEF IInv, TypeOK, Snapshot, Goto
  <2>. QED
    BY <2>3 DEF IInv, TypeOK, Snapshot, bufVars
<1>2. LockInv'
  BY DEF IInv, Snapshot, Goto, TypeOK, LockInv, Holds, At, InSweep, bufVars
<1>3. RefInv'
  BY DEF IInv, Snapshot, Goto, TypeOK, RefInv, bufVars
<1>4. PcInv'
  BY DEF IInv, Snapshot, Goto, TypeOK, PcInv, At, InSweep, bufVars
<1>5. PinInv'
  BY DEF IInv, Snapshot, Goto, TypeOK, CallState, PinInv, PcInv, At, InSweep, Spilled,
      Spillable, Idle, PinOps, bufVars
<1>6. DataInv'
  BY DEF IInv, Snapshot, Goto, TypeOK, DataInv, At, InSweep, Spilled, bufVars
<1>. QED  BY <1>1, <1>2, <1>3, <1>4, <1>5, <1>6 DEF IInv

\* A skipped buffer is left alone.
LEMMA SweepSkipStep ==
  ASSUME IInv, NEW t \in Threads, NEW b \in Owners, SweepSkip(t, b)
  PROVE  IInv'
<1>1. TypeOK'
  <2>1. th[t] \in CallState
    BY DEF IInv, TypeOK
  <2>a. th[t].todo \ {b} \in SUBSET Owners
    BY <2>1 DEF IInv, TypeOK, CallState
  <2>2. [th[t] EXCEPT !.todo = th[t].todo \ {b}] \in CallState
    BY <2>1, <2>a DEF CallState
  <2>3. th' \in [Threads -> CallState]
    BY <2>2 DEF IInv, TypeOK, SweepSkip, Goto
  <2>. QED
    BY <2>3 DEF IInv, TypeOK, SweepSkip, bufVars
<1>2. LockInv'
  BY DEF IInv, SweepSkip, Goto, TypeOK, LockInv, Holds, At, InSweep, bufVars
<1>3. RefInv'
  BY DEF IInv, SweepSkip, Goto, TypeOK, RefInv, bufVars
<1>4. PcInv'
  BY DEF IInv, SweepSkip, Goto, TypeOK, PcInv, At, InSweep, bufVars
<1>5. PinInv'
  BY DEF IInv, SweepSkip, Goto, TypeOK, CallState, PinInv, PcInv, At, InSweep, Spilled,
      Spillable, Idle, PinOps, bufVars
<1>6. DataInv'
  BY DEF IInv, SweepSkip, Goto, TypeOK, DataInv, At, InSweep, Spilled, bufVars
<1>. QED  BY <1>1, <1>2, <1>3, <1>4, <1>5, <1>6 DEF IInv

\* A sweep locks a buffer nobody else holds, and copies current data.
LEMMA SweepCopyStep ==
  ASSUME IInv, NEW t \in Threads, NEW b \in Owners, SweepCopy(t, b)
  PROVE  IInv'
<1>1. TypeOK'
  <2>1. th[t] \in CallState
    BY DEF IInv, TypeOK
  <2>a. dev[b] \in Content
    BY <2>1 DEF IInv, TypeOK, CallState
  <2>2. [th[t] EXCEPT !.pc = "sweep_dtoh", !.victim = b, !.vcarry = dev[b]] \in CallState
    BY <2>1, <2>a DEF CallState, PCs, Content, NoData
  <2>3. th' \in [Threads -> CallState]
    BY <2>2 DEF IInv, TypeOK, SweepCopy, Goto
  <2>4. rlock' \in [Owners -> Threads \cup {None}]
    BY <2>1, <2>a DEF IInv, TypeOK, SweepCopy, Acquire
  <2>. QED
    BY <2>3, <2>4 DEF IInv, TypeOK, SweepCopy
<1>2. LockInv'
  BY NoneAssumption DEF IInv, SweepCopy, MaySpill, Goto, CanAcquire, Acquire, TypeOK, CallState,
      LockInv, PcInv, PinInv, RefInv, Holds, At, InSweep, Idle, Spilled
<1>3. RefInv'
  BY DEF IInv, SweepCopy, Goto, CanAcquire, Acquire, TypeOK, RefInv
<1>4. PcInv'
  BY NoneAssumption DEF IInv, SweepCopy, MaySpill, Goto, CanAcquire, Acquire, TypeOK, CallState,
      PcInv, At, InSweep, Idle, CreateOps, PinOps, UnspillOps, SpillOps
<1>5. PinInv'
  BY DEF IInv, SweepCopy, MaySpill, Goto, CanAcquire, Acquire, TypeOK, CallState, PinInv, PcInv, At,
      InSweep, Spilled, Spillable, Idle, PinOps
<1>6. DataInv'
  BY NoneAssumption DEF IInv, SweepCopy, MaySpill, Goto, CanAcquire, Acquire, TypeOK, CallState,
      DataInv, PcInv, RefInv, At, InSweep, Spilled, Idle, Current, Stale, NoData, Content
<1>. QED  BY <1>1, <1>2, <1>3, <1>4, <1>5, <1>6 DEF IInv

\* The sweep moves a buffer nobody has a pointer to.
LEMMA SweepMoveStep ==
  ASSUME IInv, NEW t \in Threads, NEW enough \in BOOLEAN, SweepMove(t, enough)
  PROVE  IInv'
<1>1. TypeOK'
  <2>1. th[t] \in CallState
    BY DEF IInv, TypeOK
  <2>a. th[t].todo \in SUBSET Owners
    BY <2>1 DEF IInv, TypeOK, CallState
  <2>2. [th[t] EXCEPT
          !.pc = "sweep", !.victim = None, !.vcarry = NoData, !.spilled = TRUE,
          !.todo = IF enough THEN {} ELSE th[t].todo \ {th[t].victim}] \in CallState
    BY <2>1, <2>a DEF CallState, PCs, Content, NoData
  <2>3. th' \in [Threads -> CallState]
    BY <2>2 DEF IInv, TypeOK, SweepMove, Goto
  <2>4. mv' \in [Owners -> Content] /\ dev' \in [Owners -> Content] /\ loc' \in [Owners -> {"gpu", "cpu"}]
    BY <2>1, <2>a DEF IInv, TypeOK, CallState, Content, NoData, SweepMove, Release
  <2>. QED
    BY <2>3, <2>4 DEF IInv, TypeOK, SweepMove, Goto, Release
<1>2. LockInv'
  BY NoneAssumption DEF IInv, SweepMove, Goto, Release, TypeOK, CallState, LockInv, PcInv,
      PinInv, RefInv, Holds, At, InSweep, Idle, Spilled
<1>3. RefInv'
  BY DEF IInv, SweepMove, Goto, Release, TypeOK, RefInv
<1>4. PcInv'
  BY DEF IInv, SweepMove, Goto, Release, TypeOK, PcInv, At, InSweep
<1>5. PinInv'
  BY NoneAssumption DEF IInv, SweepMove, Goto, Release, TypeOK, CallState, PinInv, PcInv,
      LockInv, Holds, At, InSweep, Spilled, Spillable, Idle, PinOps
<1>6. DataInv'
  BY NoneAssumption DEF IInv, SweepMove, Goto, Release, TypeOK, CallState, DataInv, PcInv,
      RefInv, At, InSweep, Spilled, Idle, Current, Stale, NoData, Content
<1>. QED  BY <1>1, <1>2, <1>3, <1>4, <1>5, <1>6 DEF IInv

\* The sweep gives back what it locked.
LEMMA SweepReturnStep ==
  ASSUME IInv, NEW t \in Threads, SweepReturn(t)
  PROVE  IInv'
<1>1. TypeOK'
  <2>1. th[t] \in CallState
    BY DEF IInv, TypeOK
  <2>2. Return(t) \in CallState
    BY <2>1, ReturnType DEF CallState, PCs, Content, NoData
  <2>3. th' \in [Threads -> CallState]
    BY <2>2 DEF IInv, TypeOK, SweepReturn, Goto
  <2>. QED
    BY <2>3 DEF IInv, TypeOK, SweepReturn, bufVars
<1>2. LockInv'
  BY DEF IInv, SweepReturn, Goto, OnDemand, Return, After, TypeOK, CallState, LockInv,
      PcInv, Holds, At, InSweep, Idle, bufVars
<1>3. RefInv'
  BY NoneAssumption DEF IInv, SweepReturn, Goto, OnDemand, Return, After, TypeOK, CallState,
      RefInv, PcInv, At, InSweep, Idle, bufVars
<1>4. PcInv'
  BY NoneAssumption DEF IInv, SweepReturn, Goto, OnDemand, Return, After, TypeOK, CallState,
      PcInv, At, InSweep, Idle, CreateOps, PinOps, UnspillOps, SpillOps, bufVars
<1>5. PinInv'
  BY DEF IInv, SweepReturn, Goto, OnDemand, Return, After, TypeOK, CallState, PinInv, PcInv,
      At, InSweep, Spilled, Spillable, Idle, PinOps, bufVars
<1>6. DataInv'
  BY DEF IInv, SweepReturn, Goto, OnDemand, Return, After, TypeOK, CallState, DataInv,
      PcInv, At, InSweep, Spilled, Idle, bufVars
<1>. QED  BY <1>1, <1>2, <1>3, <1>4, <1>5, <1>6 DEF IInv

\* The retry starts over.
LEMMA SweepRetryStep ==
  ASSUME IInv, NEW t \in Threads, SweepRetry(t)
  PROVE  IInv'
<1>1. TypeOK'
  <2>1. th[t] \in CallState
    BY DEF IInv, TypeOK
  <2>2. [th[t] EXCEPT !.pc = "snapshot", !.retried = TRUE] \in CallState
    BY <2>1 DEF CallState, PCs, Content, NoData
  <2>3. th' \in [Threads -> CallState]
    BY <2>2 DEF IInv, TypeOK, SweepRetry, Goto
  <2>. QED
    BY <2>3 DEF IInv, TypeOK, SweepRetry, bufVars
<1>2. LockInv'
  BY DEF IInv, SweepRetry, Goto, OnDemand, TypeOK, LockInv, Holds, At, InSweep, bufVars
<1>3. RefInv'
  BY DEF IInv, SweepRetry, Goto, OnDemand, TypeOK, RefInv, bufVars
<1>4. PcInv'
  BY DEF IInv, SweepRetry, Goto, OnDemand, TypeOK, PcInv, At, InSweep, bufVars
<1>5. PinInv'
  BY DEF IInv, SweepRetry, Goto, OnDemand, TypeOK, CallState, PinInv, PcInv, At, InSweep,
      Spilled, Spillable, Idle, PinOps, bufVars
<1>6. DataInv'
  BY DEF IInv, SweepRetry, Goto, OnDemand, TypeOK, DataInv, At, InSweep, Spilled, bufVars
<1>. QED  BY <1>1, <1>2, <1>3, <1>4, <1>5, <1>6 DEF IInv

\* The failure callback runs with the lock of the buffer held.
LEMMA OutOfMemoryStep ==
  ASSUME IInv, NEW t \in Threads, OutOfMemory(t)
  PROVE  IInv'
<1>1. TypeOK'
  <2>1. th[t] \in CallState
    BY DEF IInv, TypeOK
  <2>a. th[t].pc \in PCs
    BY <2>1 DEF IInv, TypeOK, CallState
  <2>2. [th[t] EXCEPT !.pc = "snapshot", !.ret = th[t].pc] \in CallState
    BY <2>1, <2>a DEF CallState, PCs
  <2>3. th' \in [Threads -> CallState]
    BY <2>2 DEF IInv, TypeOK, OutOfMemory, Goto
  <2>. QED
    BY <2>3 DEF IInv, TypeOK, OutOfMemory, bufVars
<1>2. LockInv'
  BY DEF IInv, OutOfMemory, Goto, TypeOK, LockInv, Holds, At, InSweep, bufVars
<1>3. RefInv'
  BY DEF IInv, OutOfMemory, Goto, TypeOK, RefInv, bufVars
<1>4. PcInv'
  BY DEF IInv, OutOfMemory, Goto, TypeOK, PcInv, At, InSweep, bufVars
<1>5. PinInv'
  BY DEF IInv, OutOfMemory, Goto, TypeOK, CallState, PinInv, PcInv, At, InSweep, Spilled,
      Spillable, Idle, PinOps, bufVars
<1>6. DataInv'
  BY DEF IInv, OutOfMemory, Goto, TypeOK, DataInv, At, InSweep, Spilled, bufVars
<1>. QED  BY <1>1, <1>2, <1>3, <1>4, <1>5, <1>6 DEF IInv

\* The exception releases the lock.
LEMMA AllocFailStep ==
  ASSUME IInv, NEW t \in Threads, AllocFail(t)
  PROVE  IInv'
<1>1. TypeOK'
  <2>1. th[t] \in CallState
    BY DEF IInv, TypeOK
  <2>2. After(t) \in CallState
    BY <2>1, AfterType DEF CallState, PCs, Content, NoData
  <2>3. th' \in [Threads -> CallState]
    BY <2>2 DEF IInv, TypeOK, AllocFail, Goto
  <2>4. rlock' \in [Owners -> Threads \cup {None}]
    BY <2>1 DEF IInv, TypeOK, AllocFail, Release
  <2>. QED
    BY <2>3, <2>4 DEF IInv, TypeOK, AllocFail
<1>2. LockInv'
  <2>1. \A b \in Owners : ~Holds(t, b)'
    BY DEF IInv, TypeOK, CallState, AllocFail, Goto, After, Idle, Holds, At, InSweep, PcInv,
        RefInv
  <2>2. \A u \in Threads : u # t => th'[u] = th[u]
    BY DEF AllocFail, Goto, IInv, TypeOK
  <2>3. \A u \in Threads, b \in Owners : u # t => (Holds(u, b)' <=> Holds(u, b))
    BY <2>2 DEF Holds, At, InSweep
  <2>4. \A b \in Owners : Holds(t, b) => th[t].ret = "alloc" /\ b = th[t].arg
    BY DEF AllocFail, Holds, At, InSweep
  <2>5. \A b \in Owners : rlock'[b] = IF Holds(t, b) THEN None ELSE rlock[b]
    BY <2>4 DEF AllocFail, Release, IInv, TypeOK, Holds, At, InSweep
  <2>. QED
    BY <1>1, <2>1, <2>3, <2>5 DEF IInv, TypeOK, LockInv
<1>3. RefInv'
  BY NoneAssumption DEF IInv, AllocFail, Goto, OnDemand, After, Release, TypeOK, CallState,
      RefInv, PcInv, At, InSweep, Idle
<1>4. PcInv'
  BY NoneAssumption DEF IInv, AllocFail, Goto, OnDemand, After, Release, TypeOK, CallState,
      PcInv, At, InSweep, Idle, CreateOps, PinOps, UnspillOps, SpillOps
<1>5. PinInv'
  BY DEF IInv, AllocFail, Goto, OnDemand, After, Release, TypeOK, CallState, PinInv, PcInv,
      At, InSweep, Spilled, Spillable, Idle, PinOps
<1>6. DataInv'
  BY DEF IInv, AllocFail, Goto, OnDemand, After, Release, TypeOK, CallState, DataInv, PcInv,
      At, InSweep, Spilled, Idle
<1>. QED  BY <1>1, <1>2, <1>3, <1>4, <1>5, <1>6 DEF IInv

\* A call locks its buffer.
LEMMA LockBufferStep ==
  ASSUME IInv, NEW t \in Threads, LockBuffer(t)
  PROVE  IInv'
<1>1. TypeOK'
  <2>1. th[t] \in CallState
    BY DEF IInv, TypeOK
  <2>2. [th[t] EXCEPT !.pc = "locked"] \in CallState
    BY <2>1 DEF CallState, PCs, Content, NoData
  <2>3. th' \in [Threads -> CallState]
    BY <2>2 DEF IInv, TypeOK, LockBuffer, Goto
  <2>4. rlock' \in [Owners -> Threads \cup {None}]
    BY <2>1 DEF IInv, TypeOK, LockBuffer, Acquire
  <2>. QED
    BY <2>3, <2>4 DEF IInv, TypeOK, LockBuffer
<1>2. LockInv'
  BY NoneAssumption DEF IInv, LockBuffer, Goto, CanAcquire, Acquire, TypeOK, CallState,
      LockInv, PcInv, PinInv, RefInv, Holds, At, InSweep, Idle, Spilled
<1>3. RefInv'
  BY DEF IInv, LockBuffer, Goto, CanAcquire, Acquire, TypeOK, RefInv
<1>4. PcInv'
  BY DEF IInv, LockBuffer, Goto, CanAcquire, Acquire, TypeOK, PcInv, At, InSweep
<1>5. PinInv'
  BY DEF IInv, LockBuffer, Goto, CanAcquire, Acquire, TypeOK, CallState, PinInv, PcInv, At,
      InSweep, Spilled, Spillable, Idle, PinOps
<1>6. DataInv'
  BY DEF IInv, LockBuffer, Goto, CanAcquire, Acquire, TypeOK, DataInv, At, InSweep, Spilled
<1>. QED  BY <1>1, <1>2, <1>3, <1>4, <1>5, <1>6 DEF IInv

\* A buffer in device memory may be pinned.
LEMMA AlreadyOnDeviceStep ==
  ASSUME IInv, NEW t \in Threads, AlreadyOnDevice(t)
  PROVE  IInv'
<1>1. TypeOK'
  <2>1. th[t] \in CallState
    BY DEF IInv, TypeOK
  <2>2. [th[t] EXCEPT !.pc = "pin"] \in CallState
    BY <2>1 DEF CallState, PCs, Content, NoData
  <2>3. th' \in [Threads -> CallState]
    BY <2>2 DEF IInv, TypeOK, AlreadyOnDevice, Goto
  <2>. QED
    BY <2>3 DEF IInv, TypeOK, AlreadyOnDevice, bufVars
<1>2. LockInv'
  BY DEF IInv, AlreadyOnDevice, Goto, TypeOK, LockInv, Holds, At, InSweep, bufVars
<1>3. RefInv'
  BY DEF IInv, AlreadyOnDevice, Goto, TypeOK, RefInv, bufVars
<1>4. PcInv'
  BY DEF IInv, AlreadyOnDevice, Goto, TypeOK, PcInv, At, InSweep, bufVars
<1>5. PinInv'
  BY DEF IInv, AlreadyOnDevice, Goto, TypeOK, CallState, PinInv, PcInv, At, InSweep,
      Spilled, Spillable, Idle, PinOps, bufVars
<1>6. DataInv'
  BY DEF IInv, AlreadyOnDevice, Goto, TypeOK, DataInv, At, InSweep, Spilled, bufVars
<1>. QED  BY <1>1, <1>2, <1>3, <1>4, <1>5, <1>6 DEF IInv

\* The thread carries the only, current copy.
LEMMA PopHostCopyStep ==
  ASSUME IInv, NEW t \in Threads, PopHostCopy(t)
  PROVE  IInv'
<1>1. TypeOK'
  <2>1. th[t] \in CallState
    BY DEF IInv, TypeOK
  <2>a. mv[th[t].arg] \in Content
    BY <2>1 DEF IInv, TypeOK, CallState, PcInv, At, InSweep, PopHostCopy
  <2>2. [th[t] EXCEPT !.pc = "alloc", !.carry = mv[th[t].arg]] \in CallState
    BY <2>1, <2>a DEF CallState, PCs
  <2>3. th' \in [Threads -> CallState]
    BY <2>2 DEF IInv, TypeOK, PopHostCopy, Goto
  <2>4. mv' \in [Owners -> Content]
    BY <2>1, <2>a DEF IInv, TypeOK, CallState, Content, NoData, PopHostCopy
  <2>. QED
    BY <2>3, <2>4 DEF IInv, TypeOK, PopHostCopy
<1>2. LockInv'
  BY DEF IInv, PopHostCopy, Goto, TypeOK, LockInv, Holds, At, InSweep
<1>3. RefInv'
  BY DEF IInv, PopHostCopy, Goto, TypeOK, RefInv
<1>4. PcInv'
  BY DEF IInv, PopHostCopy, Goto, TypeOK, PcInv, At, InSweep
<1>5. PinInv'
  BY DEF IInv, PopHostCopy, Goto, TypeOK, CallState, PinInv, PcInv, At, InSweep, Spilled,
      Spillable, Idle, PinOps
<1>6. DataInv'
  BY NoneAssumption DEF IInv, PopHostCopy, Goto, TypeOK, CallState, DataInv, PcInv, RefInv,
      At, InSweep, Spilled, Idle, Current, Stale, NoData, Content
<1>. QED  BY <1>1, <1>2, <1>3, <1>4, <1>5, <1>6 DEF IInv

\* The data arrives in device memory under the lock.
LEMMA UnspillStep ==
  ASSUME IInv, NEW t \in Threads, Unspill(t)
  PROVE  IInv'
<1>1. TypeOK'
  <2>1. th[t] \in CallState
    BY DEF IInv, TypeOK
  <2>2. [th[t] EXCEPT !.pc = "pin", !.carry = NoData] \in CallState
    BY <2>1 DEF CallState, PCs, Content, NoData
  <2>3. th' \in [Threads -> CallState]
    BY <2>2 DEF IInv, TypeOK, Unspill, Goto
  <2>4. dev' \in [Owners -> Content] /\ loc' \in [Owners -> {"gpu", "cpu"}]
    BY <2>1 DEF IInv, TypeOK, CallState, Content, NoData, Unspill
  <2>. QED
    BY <2>3, <2>4 DEF IInv, TypeOK, Unspill
<1>2. LockInv'
  BY DEF IInv, Unspill, Goto, TypeOK, LockInv, Holds, At, InSweep
<1>3. RefInv'
  BY DEF IInv, Unspill, Goto, TypeOK, RefInv
<1>4. PcInv'
  BY DEF IInv, Unspill, Goto, TypeOK, PcInv, At, InSweep
<1>5. PinInv'
  BY NoneAssumption DEF IInv, Unspill, Goto, TypeOK, CallState, PinInv, PcInv, LockInv,
      Holds, At, InSweep, Spilled, Spillable, Idle, PinOps
<1>6. DataInv'
  BY DEF IInv, Unspill, Goto, TypeOK, DataInv, At, InSweep, Spilled
<1>. QED  BY <1>1, <1>2, <1>3, <1>4, <1>5, <1>6 DEF IInv

\* A call that raises changes no buffer.
LEMMA RaiseStep ==
  ASSUME IInv, NEW t \in Threads, Raise(t)
  PROVE  IInv'
<1>1. TypeOK'
  <2>1. th[t] \in CallState
    BY DEF IInv, TypeOK
  <2>2. After(t) \in CallState
    BY <2>1, AfterType DEF CallState, PCs, Content, NoData
  <2>3. th' \in [Threads -> CallState]
    BY <2>2 DEF IInv, TypeOK, Raise, Goto
  <2>4. rlock' \in [Owners -> Threads \cup {None}]
    BY <2>1 DEF IInv, TypeOK, Raise, Release
  <2>. QED
    BY <2>3, <2>4 DEF IInv, TypeOK, Raise
<1>2. LockInv'
  BY DEF IInv, Raise, Goto, Release, After, TypeOK, CallState, LockInv, PcInv, Holds, At,
      InSweep, Idle
<1>3. RefInv'
  BY NoneAssumption DEF IInv, Raise, Goto, Release, After, TypeOK, CallState, RefInv, PcInv,
      At, InSweep, Idle
<1>4. PcInv'
  BY NoneAssumption DEF IInv, Raise, Goto, Release, After, TypeOK, CallState, PcInv, At,
      InSweep, Idle, CreateOps, PinOps, UnspillOps, SpillOps
<1>5. PinInv'
  BY DEF IInv, Raise, Goto, Release, After, TypeOK, CallState, PinInv, PcInv, At, InSweep,
      Spilled, Spillable, Idle, PinOps
<1>6. DataInv'
  BY DEF IInv, Raise, Goto, Release, After, TypeOK, CallState, DataInv, PcInv, At, InSweep,
      Spilled, Idle
<1>. QED  BY <1>1, <1>2, <1>3, <1>4, <1>5, <1>6 DEF IInv

\* Pinning happens under the lock, in device memory.
LEMMA PinStep ==
  ASSUME IInv, NEW t \in Threads, Pin(t)
  PROVE  IInv'
<1>1. TypeOK'
  <2>1. th[t] \in CallState
    BY DEF IInv, TypeOK
  <2>2. [th[t] EXCEPT !.pc = "return"] \in CallState
    BY <2>1 DEF CallState, PCs, Content, NoData
  <2>3. th' \in [Threads -> CallState]
    BY <2>2 DEF IInv, TypeOK, Pin, Goto
  <2>4. exposed' \in [Owners -> BOOLEAN] /\ spillLocks' \in [Owners -> SUBSET SpillLocks] /\ rlock' \in [Owners -> Threads \cup {None}]
    BY <2>1, <2>2 DEF IInv, TypeOK, CallState, SpillLocks, Content, Current, NoData, Pin,
        Release
  <2>. QED
    BY <2>3, <2>4 DEF IInv, TypeOK, Pin
<1>2. LockInv'
  BY DEF IInv, Pin, Goto, Release, TypeOK, LockInv, Holds, At, InSweep
<1>3. RefInv'
  BY NoneAssumption DEF IInv, Pin, Goto, Release, TypeOK, CallState, RefInv, PcInv, At,
      InSweep, Idle
<1>4. PcInv'
  BY DEF IInv, Pin, Goto, Release, TypeOK, PcInv, At, InSweep
<1>5. PinInv'
  BY NoneAssumption, FramesAssumption DEF IInv, Pin, Goto, Release, TypeOK, CallState,
      Content, PCs, Ops, SpillLocks, bufVars, PinInv, PcInv, LockInv, RefInv, Holds, At,
      InSweep, Spilled, Spillable, Idle, PinOps, UnspillOps, SpillOps
<1>6. DataInv'
  BY DEF IInv, Pin, Goto, Release, TypeOK, DataInv, At, InSweep, Spilled
<1>. QED  BY <1>1, <1>2, <1>3, <1>4, <1>5, <1>6 DEF IInv

\* The pointer handed out is pinned by its context.
LEMMA ReturnPtrStep ==
  ASSUME IInv, NEW t \in Threads, ReturnPtr(t)
  PROVE  IInv'
<1>1. TypeOK'
  <2>1. th[t] \in CallState
    BY DEF IInv, TypeOK
  <2>a. th[t].arg \in Owners
    BY <2>1 DEF IInv, TypeOK, CallState, PcInv, At, InSweep, ReturnPtr
  <2>2. (IF th[t].op = "copy_dev" THEN [th[t] EXCEPT !.pc = "alloc_new"] ELSE Idle) \in CallState
    BY <2>1, <2>a, IdleType DEF CallState, PCs, Content, NoData
  <2>3. th' \in [Threads -> CallState]
    BY <2>2 DEF IInv, TypeOK, ReturnPtr, Goto
  <2>4. held' \in [Threads -> SUBSET Owners]
    BY <2>1, <2>a DEF IInv, TypeOK, ReturnPtr
  <2>. QED
    BY <2>3, <2>4 DEF IInv, TypeOK, ReturnPtr, bufVars
<1>2. LockInv'
  BY DEF IInv, ReturnPtr, Goto, TypeOK, CallState, LockInv, PcInv, Holds, At, InSweep, Idle,
      bufVars
<1>3. RefInv'
  BY NoneAssumption DEF IInv, ReturnPtr, Goto, TypeOK, CallState, RefInv, PcInv, At,
      InSweep, Idle, bufVars
<1>4. PcInv'
  BY NoneAssumption DEF IInv, ReturnPtr, Goto, TypeOK, CallState, PcInv, At, InSweep, Idle,
      CreateOps, PinOps, UnspillOps, SpillOps, bufVars
<1>5. PinInv'
  BY DEF IInv, ReturnPtr, Goto, TypeOK, CallState, PinInv, PcInv, At, InSweep, Spilled,
      Spillable, Idle, PinOps, bufVars
<1>6. DataInv'
  BY DEF IInv, ReturnPtr, Goto, TypeOK, CallState, DataInv, PcInv, At, InSweep, Spilled,
      Idle, bufVars
<1>. QED  BY <1>1, <1>2, <1>3, <1>4, <1>5, <1>6 DEF IInv

\* The host copy is taken under the lock.
LEMMA CopyToHostStep ==
  ASSUME IInv, NEW t \in Threads, CopyToHost(t)
  PROVE  IInv'
<1>1. TypeOK'
  <2>1. th[t] \in CallState
    BY DEF IInv, TypeOK
  <2>a. dev[th[t].arg] \in Content
    BY <2>1 DEF IInv, TypeOK, CallState, PcInv, At, InSweep, CopyToHost
  <2>2. [th[t] EXCEPT !.pc = "dtoh", !.carry = dev[th[t].arg]] \in CallState
    BY <2>1, <2>a DEF CallState, PCs
  <2>3. th' \in [Threads -> CallState]
    BY <2>2 DEF IInv, TypeOK, CopyToHost, Goto
  <2>. QED
    BY <2>3 DEF IInv, TypeOK, CopyToHost, bufVars
<1>2. LockInv'
  BY DEF IInv, CopyToHost, Goto, TypeOK, LockInv, Holds, At, InSweep, bufVars
<1>3. RefInv'
  BY DEF IInv, CopyToHost, Goto, TypeOK, RefInv, bufVars
<1>4. PcInv'
  BY DEF IInv, CopyToHost, Goto, TypeOK, PcInv, At, InSweep, bufVars
<1>5. PinInv'
  BY DEF IInv, CopyToHost, Goto, TypeOK, CallState, PinInv, PcInv, At, InSweep, Spilled,
      Spillable, Idle, PinOps, bufVars
<1>6. DataInv'
  BY NoneAssumption DEF IInv, CopyToHost, Goto, TypeOK, CallState, DataInv, PcInv, RefInv,
      At, InSweep, Spilled, Idle, Current, Stale, NoData, Content, bufVars
<1>. QED  BY <1>1, <1>2, <1>3, <1>4, <1>5, <1>6 DEF IInv

\* spill(target="cpu") moves a buffer nobody has a pointer to.
LEMMA MoveToHostStep ==
  ASSUME IInv, NEW t \in Threads, MoveToHost(t)
  PROVE  IInv'
<1>1. TypeOK'
  <2>. DEFINE data == th[t].carry
  <2>1. th[t] \in CallState
    BY DEF IInv, TypeOK
  <2>2. data \in Content
    BY <2>1 DEF IInv, TypeOK, CallState, PcInv, MoveToHost
  <2>. HIDE DEF data
  <2>3. [th[t] EXCEPT !.pc = "finalize", !.carry = data] \in CallState
    BY <2>1, <2>2 DEF CallState, PCs
  <2>4. th' \in [Threads -> CallState]
    BY <2>3, IdleType DEF IInv, TypeOK, MoveToHost, LeaveWith, Goto, data
  <2>5. mv' \in [Owners -> Content] /\ dev' \in [Owners -> Content] /\ loc' \in [Owners -> {"gpu", "cpu"}] /\ rlock' \in [Owners -> Threads \cup {None}]
    BY <2>1, <2>2 DEF IInv, TypeOK, Content, NoData, MoveToHost, Release, data
  <2>. QED
    BY <2>4, <2>5 DEF IInv, TypeOK, MoveToHost
<1>2. LockInv'
  BY DEF IInv, MoveToHost, Goto, Release, LeaveWith, TypeOK, CallState, LockInv, PcInv,
      Holds, At, InSweep, Idle
<1>3. RefInv'
  BY NoneAssumption DEF IInv, MoveToHost, Goto, Release, LeaveWith, TypeOK, CallState,
      RefInv, PcInv, At, InSweep, Idle
<1>4. PcInv'
  BY NoneAssumption DEF IInv, MoveToHost, Goto, Release, LeaveWith, TypeOK, CallState,
      PcInv, At, InSweep, Idle, CreateOps, PinOps, UnspillOps, SpillOps
<1>5. PinInv'
  BY NoneAssumption DEF IInv, MoveToHost, Goto, Release, LeaveWith, TypeOK, CallState,
      PinInv, PcInv, LockInv, Holds, At, InSweep, Spilled, Spillable, Idle, PinOps
<1>6. DataInv'
  BY NoneAssumption DEF IInv, MoveToHost, Goto, Release, LeaveWith, TypeOK, CallState,
      DataInv, PcInv, RefInv, At, InSweep, Spilled, Idle, Current, Stale, NoData, Content
<1>. QED  BY <1>1, <1>2, <1>3, <1>4, <1>5, <1>6 DEF IInv

\* memoryview reads current data.
LEMMA ReadHostStep ==
  ASSUME IInv, NEW t \in Threads, ReadHost(t)
  PROVE  IInv'
<1>1. TypeOK'
  <2>. DEFINE data == (IF Spilled(th[t].arg) THEN mv[th[t].arg] ELSE dev[th[t].arg])
  <2>1. th[t] \in CallState
    BY DEF IInv, TypeOK
  <2>2. data \in Content
    BY <2>1 DEF IInv, TypeOK, CallState, PcInv, ReadHost
  <2>. HIDE DEF data
  <2>3. [th[t] EXCEPT !.pc = "finalize", !.carry = data] \in CallState
    BY <2>1, <2>2 DEF CallState, PCs
  <2>4. th' \in [Threads -> CallState]
    BY <2>3, IdleType DEF IInv, TypeOK, ReadHost, LeaveWith, Goto, data
  <2>5. rlock' \in [Owners -> Threads \cup {None}]
    BY <2>1, <2>2 DEF IInv, TypeOK, Content, NoData, ReadHost, Release, data
  <2>. QED
    BY <2>4, <2>5 DEF IInv, TypeOK, ReadHost
<1>2. LockInv'
  BY DEF IInv, ReadHost, Goto, Release, LeaveWith, TypeOK, CallState, LockInv, PcInv, Holds,
      At, InSweep, Idle
<1>3. RefInv'
  BY NoneAssumption DEF IInv, ReadHost, Goto, Release, LeaveWith, TypeOK, CallState, RefInv,
      PcInv, At, InSweep, Idle
<1>4. PcInv'
  BY NoneAssumption DEF IInv, ReadHost, Goto, Release, LeaveWith, TypeOK, CallState, PcInv,
      At, InSweep, Idle, CreateOps, PinOps, UnspillOps, SpillOps
<1>5. PinInv'
  BY DEF IInv, ReadHost, Goto, Release, LeaveWith, TypeOK, CallState, PinInv, PcInv, At,
      InSweep, Spilled, Spillable, Idle, PinOps
<1>6. DataInv'
  BY NoneAssumption DEF IInv, ReadHost, Goto, Release, LeaveWith, TypeOK, CallState,
      DataInv, PcInv, RefInv, At, InSweep, Spilled, Idle, Current, Stale, NoData, Content
<1>. QED  BY <1>1, <1>2, <1>3, <1>4, <1>5, <1>6 DEF IInv

\* A frame of device memory pins its buffer.
LEMMA SerializeStep ==
  ASSUME IInv, NEW t \in Threads, NEW f \in Frames \cup {None}, Serialize(t, f)
  PROVE  IInv'
<1>a. th[t] \in CallState /\ th[t].arg \in Owners /\ th[t].arg \in live
  BY NoneAssumption DEF IInv, TypeOK, CallState, PcInv, RefInv, Serialize
<1>b. th' = [th EXCEPT ![t] = Idle] /\ rlock' = [rlock EXCEPT ![th[t].arg] = None]
  BY DEF Serialize, Goto, Release
<1>c. \/ UNCHANGED <<spillLocks, frame>>
      \/ /\ f \in Frames /\ frame[f] = None /\ ~Spilled(th[t].arg)
         /\ spillLocks' = [spillLocks EXCEPT ![th[t].arg] = @ \cup {f}]
         /\ frame' = [frame EXCEPT ![f] = th[t].arg]
  BY DEF Serialize
<1>d. UNCHANGED <<live, managed, loc, mv, dev, exposed, ctx, held>>
  BY DEF Serialize
<1>e. th[t].pc = "locked" /\ th[t].op = "serialize"
  BY DEF Serialize
<1>1. TypeOK'
  <2>1. th' \in [Threads -> CallState]
    BY <1>b, IdleType DEF IInv, TypeOK
  <2>2. spillLocks' \in [Owners -> SUBSET SpillLocks] /\ frame' \in [Frames -> Owners \cup {None}]
    BY <1>a, <1>c DEF IInv, TypeOK, SpillLocks
  <2>. QED
    BY <1>b, <1>d, <2>1, <2>2 DEF IInv, TypeOK
<1>2. LockInv'
  BY <1>a, <1>b, <1>c, <1>d, <1>e DEF IInv, TypeOK, CallState, LockInv, PcInv, Holds, At,
      InSweep, Idle
<1>3. RefInv'
  <2>1. \A c \in Owners : exposed'[c] \/ spillLocks'[c] # {} => c \in live'
    BY <1>a, <1>c, <1>d DEF IInv, TypeOK, RefInv
  <2>2. \A g \in Frames : frame'[g] \in live' \cup {None}
    BY <1>a, <1>c, <1>d DEF IInv, TypeOK, RefInv
  <2>. QED
    BY <1>b, <1>d, <2>1, <2>2, NoneAssumption DEF IInv, TypeOK, RefInv, Idle
<1>4. PcInv'
  BY <1>a, <1>b, <1>c, <1>d, <1>e, NoneAssumption
  DEF IInv, TypeOK, CallState, PcInv, At, InSweep, Idle, CreateOps, PinOps, UnspillOps,
      SpillOps
<1>6. DataInv'
  BY <1>a, <1>b, <1>c, <1>d, <1>e DEF IInv, TypeOK, CallState, DataInv, PcInv, At, InSweep,
      Spilled, Idle
<1>5. PinInv'
  <2>1. \A c \in Owners : exposed'[c] \/ spillLocks'[c] # {} => loc'[c] = "gpu"
    BY <1>a, <1>c, <1>d DEF IInv, TypeOK, PinInv, Spilled
  <2>2. \A g \in Frames : \A c \in Owners : g \in spillLocks'[c] <=> frame'[g] = c
    BY <1>a, <1>c, NoneAssumption DEF IInv, TypeOK, PinInv
  <2>3. \A u \in Threads : \A c \in Owners : u \in spillLocks'[c] <=> u \in spillLocks[c]
    BY <1>a, <1>c, FramesAssumption DEF IInv, TypeOK
  <2>4. \A c \in Owners : c # th[t].arg => spillLocks'[c] = spillLocks[c]
    BY <1>c DEF IInv, TypeOK
  <2>5. \A u \in Threads : th[u].pc = "dtoh" \/ th[u].pc = "sweep_dtoh" => u # t
    BY <1>e
  <2>6. \A u \in Threads : /\ th[u].pc = "dtoh" => th[u].arg # th[t].arg
                           /\ th[u].pc = "sweep_dtoh" => th[u].victim # th[t].arg
    BY <1>a, <1>e, <2>5 DEF IInv, LockInv, Holds
  <2>. QED
    BY <1>a, <1>b, <1>d, <1>e, <2>1, <2>2, <2>3, <2>4, <2>6, NoneAssumption
    DEF IInv, TypeOK, CallState, PinInv, PcInv, RefInv, At, InSweep, Spilled, Spillable,
        Idle, PinOps
<1>. QED  BY <1>1, <1>2, <1>3, <1>4, <1>5, <1>6 DEF IInv

\* A dropped frame pins nothing.
LEMMA DropFrameStep ==
  ASSUME IInv, NEW f \in Frames, DropFrame(f)
  PROVE  IInv'
<1>1. TypeOK'
    BY DEF IInv, TypeOK, CallState, SpillLocks, Content, DropFrame, bufVars, Current,
        NoData, Stale
<1>2. LockInv'
  BY DEF IInv, DropFrame, TypeOK, LockInv, Holds, At, InSweep
<1>3. RefInv'
  BY DEF IInv, DropFrame, TypeOK, RefInv
<1>4. PcInv'
  BY DEF IInv, DropFrame, TypeOK, PcInv, At, InSweep
<1>5. PinInv'
  BY NoneAssumption, FramesAssumption DEF IInv, DropFrame, TypeOK, CallState, Content, PCs,
      Ops, SpillLocks, bufVars, PinInv, PcInv, LockInv, RefInv, Holds, At, InSweep, Spilled,
      Spillable, Idle, PinOps, UnspillOps, SpillOps
<1>6. DataInv'
  BY DEF IInv, DropFrame, TypeOK, DataInv, At, InSweep, Spilled
<1>. QED  BY <1>1, <1>2, <1>3, <1>4, <1>5, <1>6 DEF IInv

\* copy looks at is_spilled without the lock; nothing depends on it staying so.
LEMMA CheckSpilledStep ==
  ASSUME IInv, NEW t \in Threads, CheckSpilled(t)
  PROVE  IInv'
<1>a. th[t] \in CallState /\ th[t].pc = "check" /\ UNCHANGED <<bufVars, held, frame>>
  BY DEF IInv, TypeOK, CheckSpilled
<1>1. CASE Spilled(th[t].arg)
  <2>a. /\ th' = [th EXCEPT ![t] = [th[t] EXCEPT !.pc = "acquire", !.op = "copy_host"]]
        /\ ctx' = ctx
    BY <1>1 DEF CheckSpilled, Goto, PushSpillLock
  <2>1. TypeOK'
    <3>1. [th[t] EXCEPT !.pc = "acquire", !.op = "copy_host"] \in CallState
      BY <1>a DEF CallState, PCs, Ops, UnspillOps, SpillOps
    <3>. QED  BY <1>a, <2>a, <3>1 DEF IInv, TypeOK, bufVars
  <2>2. LockInv'
    BY <1>a, <2>a DEF IInv, TypeOK, LockInv, Holds, At, InSweep, bufVars
  <2>3. RefInv'
    BY <1>a, <2>a DEF IInv, TypeOK, RefInv, bufVars
  <2>4. PcInv'
    BY <1>a, <2>a, NoneAssumption DEF IInv, TypeOK, CallState, PcInv, At, InSweep, Idle,
        CreateOps, PinOps, UnspillOps, SpillOps, bufVars
  <2>5. PinInv'
    BY <1>a, <2>a DEF IInv, TypeOK, CallState, PinInv, PcInv, At, InSweep, Spilled,
        Spillable, Idle, PinOps, bufVars
  <2>6. DataInv'
    BY <1>a, <2>a DEF IInv, TypeOK, DataInv, At, InSweep, Spilled, bufVars
  <2>. QED  BY <2>1, <2>2, <2>3, <2>4, <2>5, <2>6 DEF IInv
<1>2. CASE ~Spilled(th[t].arg)
  <2>a. /\ th' = [th EXCEPT ![t] = [th[t] EXCEPT !.pc = "acquire", !.op = "copy_dev"]]
        /\ ctx' = [ctx EXCEPT ![t] = @ + 1]
    BY <1>2 DEF CheckSpilled, Goto, PushSpillLock
  <2>1. TypeOK'
    <3>1. [th[t] EXCEPT !.pc = "acquire", !.op = "copy_dev"] \in CallState
      BY <1>a DEF CallState, PCs, Ops, UnspillOps, SpillOps
    <3>. QED  BY <1>a, <2>a, <3>1 DEF IInv, TypeOK, bufVars
  <2>2. LockInv'
    BY <1>a, <2>a DEF IInv, TypeOK, LockInv, Holds, At, InSweep, bufVars
  <2>3. RefInv'
    BY <1>a, <2>a DEF IInv, TypeOK, RefInv, bufVars
  <2>4. PcInv'
    BY <1>a, <2>a, NoneAssumption DEF IInv, TypeOK, CallState, PcInv, At, InSweep, Idle,
        CreateOps, PinOps, UnspillOps, SpillOps, bufVars
  <2>5. PinInv'
    BY <1>a, <2>a DEF IInv, TypeOK, CallState, PinInv, PcInv, At, InSweep, Spilled,
        Spillable, Idle, PinOps, bufVars
  <2>6. DataInv'
    BY <1>a, <2>a DEF IInv, TypeOK, DataInv, At, InSweep, Spilled, bufVars
  <2>. QED  BY <2>1, <2>2, <2>3, <2>4, <2>5, <2>6 DEF IInv
<1>. QED  BY <1>1, <1>2

\* The new allocation holds current data.
LEMMA AllocNewStep ==
  ASSUME IInv, NEW t \in Threads, AllocNew(t)
  PROVE  IInv'
<1>a. th[t].dst \in Owners /\ th[t].dst \notin live
  BY NoneAssumption DEF IInv, TypeOK, CallState, RefInv, PcInv, At, InSweep, CreateOps, AllocNew
<1>b. (IF th[t].op = "copy_dev" THEN dev[th[t].arg] ELSE th[t].carry) = Current
  BY DEF IInv, TypeOK, CallState, RefInv, PcInv, PinInv, DataInv, At, InSweep, AllocNew, Spilled
<1>c. dev' = [dev EXCEPT ![th[t].dst] = Current]
  BY <1>b DEF AllocNew
<1>d. \A u \in Threads : u # t => th[u].dst # th[t].dst
  BY <1>a, NoneAssumption DEF IInv, RefInv
<1>1. TypeOK'
  <2>1. th[t] \in CallState
    BY DEF IInv, TypeOK
  <2>2. [th[t] EXCEPT !.pc = "finalize"] \in CallState
    BY <2>1 DEF CallState, PCs
  <2>. QED
    BY <1>c, <2>2 DEF IInv, TypeOK, Content, Current, AllocNew, Goto
<1>2. LockInv'
  BY <1>a DEF IInv, AllocNew, Goto, TypeOK, LockInv, Holds, At, InSweep
<1>3. RefInv'
  BY <1>a DEF IInv, AllocNew, Goto, TypeOK, RefInv
<1>4. PcInv'
  BY <1>a DEF IInv, AllocNew, Goto, TypeOK, PcInv, At, InSweep
<1>5. PinInv'
  BY <1>a DEF IInv, AllocNew, Goto, TypeOK, CallState, PinInv, PcInv, At, InSweep, Spilled,
      Spillable, Idle, PinOps
<1>6. DataInv'
  BY <1>a, <1>c, <1>d DEF IInv, TypeOK, CallState, DataInv, RefInv, PcInv, At, InSweep,
      Spilled, AllocNew, Goto
<1>. QED  BY <1>1, <1>2, <1>3, <1>4, <1>5, <1>6 DEF IInv

\* The new buffer is referred to by nobody else.
LEMMA FinalizeInitStep ==
  ASSUME IInv, NEW t \in Threads, NEW x \in BOOLEAN, FinalizeInit(t, x)
  PROVE  IInv'
<1>a. th[t].dst \in Owners /\ th[t].dst \notin live
  BY NoneAssumption DEF IInv, TypeOK, CallState, RefInv, PcInv, At, InSweep, CreateOps,
      FinalizeInit
<1>b. \A u \in Threads : u # t => th[u].dst # th[t].dst
  BY <1>a, NoneAssumption DEF IInv, RefInv
<1>c. \A u \in Threads : th[u].arg # th[t].dst /\ th[u].victim # th[t].dst /\ th[t].dst \notin held[u]
  BY <1>a, NoneAssumption DEF IInv, RefInv
<1>d. spillLocks[th[t].dst] = {}
  BY <1>a DEF IInv, RefInv
<1>1. TypeOK'
  <2>1. th[t] \in CallState
    BY DEF IInv, TypeOK
  <2>2. [th[t] EXCEPT !.pc = "measure", !.arg = th[t].dst, !.dst = None,
                         !.carry = NoData, !.ret = "idle"] \in CallState
    BY <1>a, <2>1 DEF CallState, PCs, Content, NoData
  <2>3. th' \in [Threads -> CallState]
    BY <2>2 DEF IInv, TypeOK, FinalizeInit, Goto
  <2>4. live' \subseteq Owners /\ managed' \subseteq Owners /\ loc' \in [Owners -> {"gpu", "cpu"}]
    BY <1>a DEF IInv, TypeOK, FinalizeInit
  <2>5. mv' \in [Owners -> Content]
    BY <2>1 DEF IInv, TypeOK, CallState, Content, NoData, FinalizeInit
  <2>. QED
    BY <2>3, <2>4, <2>5 DEF IInv, TypeOK, FinalizeInit
<1>2. LockInv'
  BY <1>a, <1>b, <1>c, <1>d DEF IInv, FinalizeInit, Goto, TypeOK, LockInv, Holds, At, InSweep
<1>3. RefInv'
  BY <1>a, <1>b, <1>c, <1>d, NoneAssumption
  DEF IInv, FinalizeInit, Goto, TypeOK, CallState, RefInv, PcInv, At, InSweep, Idle
<1>4. PcInv'
  BY <1>a, <1>b, <1>c, <1>d DEF IInv, FinalizeInit, Goto, TypeOK, PcInv, At, InSweep
<1>5. PinInv'
  BY <1>a, <1>b, <1>c, <1>d DEF IInv, FinalizeInit, Goto, TypeOK, CallState, PinInv, PcInv,
      At, InSweep, Spilled, Spillable, Idle, PinOps
<1>6. DataInv'
  BY <1>a, <1>b, <1>c, <1>d, NoneAssumption
  DEF IInv, FinalizeInit, Goto, TypeOK, CallState, DataInv, PcInv, RefInv, At, InSweep,
      Spilled, Idle, Current, Stale, NoData, Content
<1>. QED  BY <1>1, <1>2, <1>3, <1>4, <1>5, <1>6 DEF IInv

\* copy leaves its context.
LEMMA LeaveCopyStep ==
  ASSUME IInv, NEW t \in Threads, LeaveCopy(t)
  PROVE  IInv'
<1>1. TypeOK'
  <2>1. th' \in [Threads -> CallState]
    BY IdleType DEF IInv, TypeOK, LeaveCopy, Goto
  <2>2. ctx' \in [Threads -> Nat]
    BY DEF IInv, TypeOK, PcInv, LeaveCopy, PopSpillLock
  <2>3. spillLocks' \in [Owners -> SUBSET SpillLocks]
    BY DEF IInv, TypeOK, LeaveCopy, PopSpillLock
  <2>4. held' \in [Threads -> SUBSET Owners]
    BY DEF IInv, TypeOK, LeaveCopy, PopSpillLock
  <2>. QED
    BY <2>1, <2>2, <2>3, <2>4 DEF IInv, TypeOK, LeaveCopy
<1>2. LockInv'
  BY DEF IInv, LeaveCopy, Goto, PopSpillLock, TypeOK, CallState, LockInv, PcInv, Holds, At,
      InSweep, Idle
<1>3. RefInv'
  BY NoneAssumption DEF IInv, LeaveCopy, Goto, PopSpillLock, TypeOK, CallState, RefInv,
      PcInv, At, InSweep, Idle
<1>4. PcInv'
  BY NoneAssumption DEF IInv, LeaveCopy, Goto, PopSpillLock, TypeOK, CallState, PcInv, At,
      InSweep, Idle, CreateOps, PinOps, UnspillOps, SpillOps
<1>5. PinInv'
  BY NoneAssumption, FramesAssumption DEF IInv, LeaveCopy, Goto, PopSpillLock, TypeOK,
      CallState, Content, PCs, Ops, SpillLocks, bufVars, PinInv, PcInv, LockInv, RefInv,
      Holds, At, InSweep, Spilled, Spillable, Idle, PinOps, UnspillOps, SpillOps
<1>6. DataInv'
  BY DEF IInv, LeaveCopy, Goto, PopSpillLock, TypeOK, CallState, DataInv, PcInv, At,
      InSweep, Spilled, Idle
<1>. QED  BY <1>1, <1>2, <1>3, <1>4, <1>5, <1>6 DEF IInv

\* A write finds no thread with a copy of the buffer in its hands.
LEMMA WriteStep ==
  ASSUME IInv, NEW b \in Owners, Write(b)
  PROVE  IInv'
<1>1. ~Spilled(b) /\ ~Spillable(b)
  BY DEF IInv, TypeOK, PinInv, Write, Spilled, Spillable
<1>2. \A t \in Threads : th'[t] = th[t]
  <2>. SUFFICES ASSUME NEW t \in Threads PROVE th'[t] = th[t]
    OBVIOUS
  <2>1. th[t] \in CallState
    BY DEF IInv, TypeOK
  <2>2. ~(th[t].arg = b /\ th[t].pc \in {"alloc", "dtoh"}) /\ th[t].victim # b
    BY <1>1, NoneAssumption DEF IInv, PinInv, PcInv, At
  <2>3. th'[t] = [th[t] EXCEPT !.carry = th[t].carry, !.vcarry = th[t].vcarry]
    BY <2>2 DEF Write
  <2>. QED  BY <2>1, <2>3 DEF CallState
<1>3. th' = th
  BY <1>2 DEF Write, IInv, TypeOK
<1>4. TypeOK'
  <2>1. mv' \in [Owners -> Content]
    BY DEF IInv, TypeOK, Write, Outdated, Content, Stale, NoData
  <2>. QED  BY <1>3, <2>1 DEF IInv, TypeOK, Write
<1>5. LockInv' /\ PcInv'
  <2>1. UNCHANGED <<th, rlock, ctx>>
    BY <1>3 DEF Write
  <2>2. LockInv'
    BY <2>1 DEF IInv, LockInv, Holds, At, InSweep
  <2>3. PcInv'
    BY <2>1 DEF IInv, PcInv, At, InSweep
  <2>. QED  BY <2>2, <2>3
<1>6. RefInv'
  BY <1>3 DEF IInv, RefInv, Write
<1>7. PinInv'
  <2>1. UNCHANGED <<th, loc, exposed, spillLocks, held, ctx, frame>>
    BY <1>3 DEF Write
  <2>. QED  BY <2>1 DEF IInv, PinInv, At, InSweep, Spilled, Spillable
<1>8. DataInv'
  BY <1>1, <1>3, ZenonT(40) DEF IInv, TypeOK, DataInv, At, InSweep, Spilled, Write
<1>. QED  BY <1>4, <1>5, <1>6, <1>7, <1>8 DEF IInv

\* A buffer is collected when nothing refers to it.
LEMMA CollectStep ==
  ASSUME IInv, NEW b \in Owners, Collect(b)
  PROVE  IInv'
<1>1. TypeOK'
    BY DEF IInv, TypeOK, CallState, SpillLocks, Content, Collect, Referenced, bufVars,
        Current, NoData, Stale
<1>2. LockInv'
  BY DEF IInv, Collect, Referenced, TypeOK, LockInv, Holds, At, InSweep
<1>3. RefInv'
  BY DEF IInv, Collect, Referenced, TypeOK, RefInv
<1>4. PcInv'
  BY DEF IInv, Collect, Referenced, TypeOK, PcInv, At, InSweep
<1>5. PinInv'
  BY DEF IInv, Collect, Referenced, TypeOK, CallState, PinInv, PcInv, At, InSweep, Spilled,
      Spillable, Idle, PinOps
<1>6. DataInv'
  BY NoneAssumption DEF IInv, Collect, Referenced, TypeOK, CallState, DataInv, PcInv,
      RefInv, At, InSweep, Spilled, Idle, Current, Stale, NoData, Content
<1>. QED  BY <1>1, <1>2, <1>3, <1>4, <1>5, <1>6 DEF IInv

----------------------------------------------------------------------------
(* The theorems.                                                           *)

\* The invariant holds initially: there are no buffers and no calls.
LEMMA InitIInv == Init => IInv
<1>. SUFFICES ASSUME Init PROVE IInv
  OBVIOUS
<1>1. TypeOK
  BY IdleType DEF Init, TypeOK, Content, NoData, SpillLocks
<1>2. LockInv /\ RefInv /\ PcInv /\ PinInv /\ DataInv
  BY NoneAssumption DEF Init, LockInv, RefInv, PcInv, PinInv, DataInv, Holds, At, InSweep,
     Idle, CreateOps, PinOps
<1>. QED  BY <1>1, <1>2 DEF IInv

\* Every step preserves it.
LEMMA NextIInv == IInv /\ [Next]_vars => IInv'
<1>. SUFFICES ASSUME IInv, [Next]_vars PROVE IInv'
  OBVIOUS
<1>1. ASSUME NEW t \in Threads, Call(t) PROVE IInv'
  BY <1>1, StartStep, StartCreateStep, StartCopyStep, StartSweepStep DEF Call
<1>2. ASSUME NEW t \in Threads, Sweep(t) PROVE IInv'
  BY <1>2, MeasureStep, SnapshotStep, SweepReturnStep, SweepRetryStep, OutOfMemoryStep,
     AllocFailStep, SweepSkipStep, SweepCopyStep, SweepMoveStep DEF Sweep
<1>3. ASSUME NEW t \in Threads, Buffer(t) PROVE IInv'
  BY <1>3, LockBufferStep, AlreadyOnDeviceStep, PopHostCopyStep, UnspillStep, RaiseStep,
     PinStep, ReturnPtrStep, CopyToHostStep, MoveToHostStep, ReadHostStep, SerializeStep,
     CheckSpilledStep, AllocNewStep, LeaveCopyStep, FinalizeInitStep DEF Buffer
<1>4. ASSUME NEW t \in Threads, EnterContext(t) \/ ExitContext(t) PROVE IInv'
  BY <1>4, EnterContextStep, ExitContextStep
<1>5. ASSUME NEW f \in Frames, DropFrame(f) PROVE IInv'
  BY <1>5, DropFrameStep
<1>6. ASSUME NEW b \in Owners, Write(b) \/ Collect(b) PROVE IInv'
  BY <1>6, WriteStep, CollectStep
<1>7. ASSUME UNCHANGED vars PROVE IInv'
  <2>1. TypeOK' /\ RefInv'
    BY <1>7 DEF vars, IInv, TypeOK, RefInv
  <2>2. LockInv' /\ PcInv'
    BY <1>7 DEF vars, IInv, LockInv, PcInv, Holds, At, InSweep
  <2>3. PinInv'
    BY <1>7 DEF vars, IInv, PinInv, At, InSweep, Spilled, Spillable
  <2>4. DataInv'
    BY <1>7 DEF vars, IInv, DataInv, At, InSweep, Spilled
  <2>. QED  BY <2>1, <2>2, <2>3, <2>4 DEF IInv
<1>. QED  BY <1>1, <1>2, <1>3, <1>4, <1>5, <1>6, <1>7 DEF Next

\* The inductive invariant holds throughout, whatever the threads call and
\* however their steps interleave.
THEOREM SpecIInv == Spec => []IInv
  BY InitIInv, NextIInv, PTL DEF Spec

\* The state of buffers and threads keeps its type; in particular the nesting
\* depth of acquire_spill_lock contexts never becomes negative.
THEOREM TypeCorrect == Spec => []TypeOK
<1>1. IInv => TypeOK
  BY DEF IInv
<1>. QED  BY <1>1, SpecIInv, PTL

\* A device pointer handed out by get_ptr, by __cuda_array_interface__ or in a
\* serialized frame is never invalidated by spilling.
THEOREM PointerSafety == Spec => []PointerValid
<1>1. IInv => PointerValid
  <2>. SUFFICES ASSUME IInv, NEW b \in Owners,
                       \/ exposed[b]
                       \/ \E t \in Threads : b \in held[t]
                       \/ \E f \in Frames : frame[f] = b
                PROVE  loc[b] = "gpu" /\ dev[b] # NoData
    BY DEF PointerValid
  <2>1. exposed[b] \/ spillLocks[b] # {}
    BY DEF IInv, PinInv
  <2>2. loc[b] = "gpu" /\ b \in live
    BY <2>1 DEF IInv, PinInv, RefInv
  <2>. QED  BY <2>2 DEF IInv, DataInv, Spilled, Current, NoData
<1>. QED  BY <1>1, SpecIInv, PTL

\* Data read from where a buffer says it is, is the data last written.
THEOREM DataCurrent == Spec => []NoStaleData
<1>1. IInv => NoStaleData
  BY DEF IInv, DataInv, NoStaleData
<1>. QED  BY <1>1, SpecIInv, PTL

\* No exception path leaves a buffer locked.
THEOREM LocksGivenBack == Spec => []LocksReleased
<1>1. IInv => LocksReleased
  BY DEF IInv, TypeOK, LockInv, Holds, At, InSweep, LocksReleased
<1>. QED  BY <1>1, SpecIInv, PTL

\* Where a thread holds a buffer lock it either is under way with the call or sweeps,
\* and a sweep passes over every buffer that it cannot lock at once.
THEOREM LockHoldersRun == Spec => []HoldersRun
<1>1. IInv => HoldersRun
  <2>. SUFFICES ASSUME IInv, NEW b \in Owners, rlock[b] # None
                PROVE  ~Waiting(rlock[b])
    BY DEF HoldersRun
  <2>. DEFINE t == rlock[b]
  <2>1. t \in Threads /\ Holds(t, b)
    BY DEF IInv, TypeOK, LockInv
  <2>2. th[t].pc # "acquire"
    BY <2>1 DEF Holds, At, InSweep
  <2>3. \A c : MustSkip(t, c) \/ MaySpill(t, c)
    BY DEF MustSkip, MaySpill
  <2>. QED  BY <2>2, <2>3 DEF Waiting
<1>. QED  BY <1>1, SpecIInv, PTL

\* A pinned buffer is in device memory, so spill(target="gpu") and memoryview
\* never fail because the buffer is unspillable.
THEOREM PinnedOnDevice == Spec => []NeverUnmovable
<1>1. IInv => NeverUnmovable
  BY DEF IInv, PinInv, NeverUnmovable, Spilled, Spillable
<1>. QED  BY <1>1, SpecIInv, PTL

\* Spill locks end with their context or frame.
THEOREM PinsScoped == Spec => []SpillLocksScoped
<1>1. IInv => SpillLocksScoped
  BY DEF IInv, PinInv, SpillLocksScoped
<1>. QED  BY <1>1, SpecIInv, PTL

----------------------------------------------------------------------------
(* What loses data.                                                        *)

\* A step that frees no copy and interrupts no move loses nothing.
LEMMA KeepsData ==
  ASSUME NEW b, ~Lost(b), live' = live, dev' = dev, mv' = mv,
         \A t \in Threads : Moving(t, b) => Moving(t, b)'
  PROVE  ~Lost(b)'
  BY DEF Lost

\* Starting a call, and entering or leaving a context, loses nothing.
LEMMA CallKeepsData ==
  ASSUME IInv, NEW t \in Threads, Call(t) \/ EnterContext(t) \/ ExitContext(t),
         NEW b \in Owners, ~Lost(b)
  PROVE  ~Lost(b)'
<1>1. live' = live /\ dev' = dev /\ mv' = mv
  BY DEF Call, Start, StartCreate, StartCopy, StartSweep, EnterContext, ExitContext, bufVars
<1>2. \A u \in Threads : Moving(u, b) => Moving(u, b)'
  BY DEF Call, Start, StartCreate, StartCopy, StartSweep, EnterContext, ExitContext, Goto,
     Moving, IInv, TypeOK
<1>. QED  BY <1>1, <1>2, KeepsData

\* A sweep keeps the copy it makes, and only a fruitless one that ends an
\* unspill loses data.
LEMMA SweepKeepsData ==
  ASSUME IInv, NEW t \in Threads, Sweep(t), ~AllocFail(t), NEW b \in Owners, ~Lost(b)
  PROVE  ~Lost(b)'
<1>1. CASE \/ Measure(t) \/ Snapshot(t) \/ SweepReturn(t) \/ SweepRetry(t) \/ OutOfMemory(t)
           \/ \E c \in Owners : SweepSkip(t, c) \/ SweepCopy(t, c)
  <2>1. live' = live /\ dev' = dev /\ mv' = mv
    BY <1>1 DEF Measure, Snapshot, SweepReturn, SweepRetry, OutOfMemory, SweepSkip, SweepCopy,
       bufVars
  <2>2. \A u \in Threads \ {t} : th'[u] = th[u]
    BY <1>1 DEF Measure, Snapshot, SweepReturn, SweepRetry, OutOfMemory, SweepSkip, SweepCopy,
       Goto, IInv, TypeOK
  <2>3. Moving(t, b) => Moving(t, b)'
    <3>. SUFFICES ASSUME Moving(t, b) PROVE Moving(t, b)'
      OBVIOUS
    <3>0. th[t] \in CallState /\ th[t].arg = b
      BY DEF Moving, IInv, TypeOK
    <3>1. CASE Measure(t) \/ SweepReturn(t)
      <4>1. th[t].ret = "alloc"
        BY <3>1 DEF Measure, SweepReturn, Moving
      <4>2. \/ th'[t] = [th[t] EXCEPT !.pc = "snapshot"]
            \/ th'[t] = [th[t] EXCEPT !.pc = "alloc", !.retried = FALSE]
        BY <3>1, <4>1 DEF Measure, SweepReturn, Return, Goto, IInv, TypeOK
      <4>3. th'[t].arg = b /\ th'[t].ret = "alloc" /\ th'[t].pc \in {"snapshot", "alloc"}
        BY <3>0, <4>1, <4>2 DEF CallState
      <4>. QED  BY <4>3 DEF Moving
    <3>2. CASE Snapshot(t) \/ SweepRetry(t)
      <4>1. th[t].ret = "alloc"
        BY <3>2 DEF Snapshot, SweepRetry, Moving
      <4>2. \/ th'[t] = [th[t] EXCEPT !.pc = "sweep", !.todo = managed, !.spilled = FALSE]
            \/ th'[t] = [th[t] EXCEPT !.pc = "snapshot", !.retried = TRUE]
        BY <3>2 DEF Snapshot, SweepRetry, Goto, IInv, TypeOK
      <4>3. th'[t].arg = b /\ th'[t].ret = "alloc" /\ th'[t].pc \in {"snapshot", "sweep"}
        BY <3>0, <4>1, <4>2 DEF CallState
      <4>. QED  BY <4>3 DEF Moving
    <3>3. CASE OutOfMemory(t)
      BY <3>3 DEF OutOfMemory, Goto, Moving, IInv, TypeOK, CallState
    <3>4. ASSUME NEW d \in Owners, SweepSkip(t, d) \/ SweepCopy(t, d) PROVE Moving(t, b)'
      <4>1. th[t].ret = "alloc" /\ th[t].pc = "sweep"
        BY <3>4 DEF SweepSkip, SweepCopy, Moving
      <4>2. \/ th'[t] = [th[t] EXCEPT !.todo = th[t].todo \ {d}]
            \/ th'[t] = [th[t] EXCEPT !.pc = "sweep_dtoh", !.victim = d, !.vcarry = dev[d]]
        BY <3>4 DEF SweepSkip, SweepCopy, Goto, IInv, TypeOK
      <4>3. th'[t].arg = b /\ th'[t].ret = "alloc" /\ th'[t].pc \in {"sweep", "sweep_dtoh"}
        BY <3>0, <4>1, <4>2 DEF CallState
      <4>. QED  BY <4>3 DEF Moving
    <3>. QED  BY <1>1, <3>1, <3>2, <3>3, <3>4
  <2>4. \A u \in Threads : Moving(u, b) => Moving(u, b)'
    BY <2>2, <2>3 DEF Moving
  <2>. QED  BY <2>1, <2>4, KeepsData
<1>2. ASSUME NEW enough \in BOOLEAN, SweepMove(t, enough) PROVE ~Lost(b)'
  <2>1. th[t].victim \in Owners /\ th[t].vcarry = Current
    BY <1>2 DEF SweepMove, IInv, TypeOK, CallState, PcInv, DataInv
  <2>2. CASE b = th[t].victim
    BY <1>2, <2>1, <2>2 DEF SweepMove, Lost, IInv, TypeOK, Current, NoData
  <2>3. CASE b # th[t].victim
    <3>1. live' = live /\ dev'[b] = dev[b] /\ mv'[b] = mv[b]
      BY <1>2, <2>3 DEF SweepMove, IInv, TypeOK
    <3>2. \A u \in Threads : Moving(u, b) => Moving(u, b)'
      BY <1>2 DEF SweepMove, Goto, Moving, IInv, TypeOK, CallState
    <3>. QED  BY <3>1, <3>2 DEF Lost
  <2>. QED  BY <2>2, <2>3
<1>. QED  BY <1>1, <1>2 DEF Sweep

\* Moving a buffer to or from the device, reading, pinning, serializing and
\* creating one lose nothing.
LEMMA BufferKeepsData ==
  ASSUME IInv, NEW t \in Threads, Buffer(t), NEW b \in Owners, ~Lost(b)
  PROVE  ~Lost(b)'
<1>1. CASE \/ LockBuffer(t) \/ AlreadyOnDevice(t) \/ Raise(t) \/ Pin(t) \/ ReturnPtr(t)
           \/ CopyToHost(t) \/ ReadHost(t) \/ (\E f \in Frames \cup {None} : Serialize(t, f))
           \/ CheckSpilled(t) \/ LeaveCopy(t)
  <2>1. live' = live /\ dev' = dev /\ mv' = mv
    BY <1>1 DEF LockBuffer, AlreadyOnDevice, Raise, Pin, ReturnPtr, CopyToHost, ReadHost,
       Serialize, CheckSpilled, LeaveCopy, bufVars
  <2>2. \A u \in Threads \ {t} : th'[u] = th[u]
    BY <1>1 DEF LockBuffer, AlreadyOnDevice, Raise, Pin, ReturnPtr, CopyToHost, ReadHost,
       Serialize, CheckSpilled, LeaveCopy, LeaveWith, Goto, IInv, TypeOK
  <2>3. ~Moving(t, b)
    BY <1>1 DEF LockBuffer, AlreadyOnDevice, Raise, Pin, ReturnPtr, CopyToHost, ReadHost,
       Serialize, CheckSpilled, LeaveCopy, Moving
  <2>4. \A u \in Threads : Moving(u, b) => Moving(u, b)'
    BY <2>2, <2>3 DEF Moving
  <2>. QED  BY <2>1, <2>4, KeepsData
<1>2. CASE PopHostCopy(t)
  <2>1. CASE b = th[t].arg
    BY <1>2, <2>1 DEF PopHostCopy, Goto, Lost, Moving, IInv, TypeOK, CallState
  <2>2. CASE b # th[t].arg
    <3>1. live' = live /\ dev'[b] = dev[b] /\ mv'[b] = mv[b]
      BY <1>2, <2>2 DEF PopHostCopy, IInv, TypeOK
    <3>2. \A u \in Threads : Moving(u, b) => Moving(u, b)'
      BY <1>2, <2>2 DEF PopHostCopy, Goto, Moving, IInv, TypeOK, CallState
    <3>. QED  BY <3>1, <3>2 DEF Lost
  <2>. QED  BY <2>1, <2>2
<1>3. CASE Unspill(t)
  <2>1. th[t].carry = Current /\ th[t].arg \in Owners
    BY <1>3 DEF Unspill, IInv, TypeOK, CallState, PcInv, DataInv, At
  <2>2. CASE b = th[t].arg
    BY <1>3, <2>1, <2>2 DEF Unspill, Lost, IInv, TypeOK, Current, NoData
  <2>3. CASE b # th[t].arg
    <3>1. live' = live /\ dev'[b] = dev[b] /\ mv'[b] = mv[b]
      BY <1>3, <2>3 DEF Unspill, IInv, TypeOK
    <3>2. \A u \in Threads : Moving(u, b) => Moving(u, b)'
      BY <1>3, <2>3 DEF Unspill, Goto, Moving, IInv, TypeOK, CallState
    <3>. QED  BY <3>1, <3>2 DEF Lost
  <2>. QED  BY <2>2, <2>3
<1>4. CASE MoveToHost(t)
  <2>1. th[t].carry = Current /\ th[t].arg \in Owners
    BY <1>4 DEF MoveToHost, IInv, TypeOK, CallState, PcInv, DataInv
  <2>2. CASE b = th[t].arg
    BY <1>4, <2>1, <2>2 DEF MoveToHost, Lost, IInv, TypeOK, Current, NoData
  <2>3. CASE b # th[t].arg
    <3>1. live' = live /\ dev'[b] = dev[b] /\ mv'[b] = mv[b]
      BY <1>4, <2>3 DEF MoveToHost, IInv, TypeOK
    <3>2. \A u \in Threads : Moving(u, b) => Moving(u, b)'
      BY <1>4, <2>3 DEF MoveToHost, LeaveWith, Goto, Moving, IInv, TypeOK, CallState
    <3>. QED  BY <3>1, <3>2 DEF Lost
  <2>. QED  BY <2>2, <2>3
<1>5. CASE AllocNew(t)
  <2>1. th[t].dst \notin live /\ live' = live /\ mv' = mv
    BY <1>5 DEF AllocNew, IInv, RefInv
  <2>2. b \in live => dev'[b] = dev[b]
    BY <1>5, <2>1 DEF AllocNew, IInv, TypeOK
  <2>3. \A u \in Threads : Moving(u, b) => Moving(u, b)'
    BY <1>5 DEF AllocNew, Goto, Moving, IInv, TypeOK, CallState
  <2>. QED  BY <2>1, <2>2, <2>3 DEF Lost
<1>6. ASSUME NEW x \in BOOLEAN, FinalizeInit(t, x) PROVE ~Lost(b)'
  <2>1. th[t].dst \in Owners /\ th[t].dst \notin live
    BY <1>6 DEF FinalizeInit, IInv, TypeOK, CallState, PcInv, RefInv, CreateOps, At, InSweep
  <2>2. CASE b = th[t].dst
    BY <1>6, <2>1, <2>2 DEF FinalizeInit, Lost, IInv, TypeOK, DataInv, Current, NoData
  <2>3. CASE b # th[t].dst
    <3>1. (b \in live' => b \in live) /\ dev'[b] = dev[b] /\ mv'[b] = mv[b]
      BY <1>6, <2>3 DEF FinalizeInit, IInv, TypeOK
    <3>2. \A u \in Threads : Moving(u, b) => Moving(u, b)'
      BY <1>6, <2>3 DEF FinalizeInit, Goto, Moving, IInv, TypeOK, CallState
    <3>. QED  BY <3>1, <3>2 DEF Lost
  <2>. QED  BY <2>2, <2>3
<1>. QED  BY <1>1, <1>2, <1>3, <1>4, <1>5, <1>6 DEF Buffer

\* Writing through a pointer and collecting a buffer lose nothing.
LEMMA OthersKeepData ==
  ASSUME IInv, NEW b \in Owners, ~Lost(b),
         \/ \E c \in Owners : Write(c) \/ Collect(c)
         \/ \E f \in Frames : DropFrame(f)
         \/ UNCHANGED vars
  PROVE  ~Lost(b)'
<1>1. ASSUME NEW c \in Owners, Write(c) PROVE ~Lost(b)'
  <2>1. live' = live /\ dev' = dev /\ (mv'[b] = NoData => mv[b] = NoData)
    BY <1>1 DEF Write, Outdated, IInv, TypeOK, Stale, NoData
  <2>2. \A u \in Threads : Moving(u, b) => Moving(u, b)'
    BY <1>1, ZenonT(40) DEF Write, Moving, IInv, TypeOK, CallState
  <2>. QED  BY <2>1, <2>2 DEF Lost
<1>2. ASSUME NEW c \in Owners, Collect(c) PROVE ~Lost(b)'
  BY <1>2 DEF Collect, Lost, Moving, IInv, TypeOK
<1>3. ASSUME NEW f \in Frames, DropFrame(f) PROVE ~Lost(b)'
  BY <1>3 DEF DropFrame, Lost, Moving
<1>4. CASE UNCHANGED vars
  BY <1>4 DEF vars, Lost, Moving
<1>. QED  BY <1>1, <1>2, <1>3, <1>4

\* Only an unspill that runs out of device memory loses the data of a buffer.
THEOREM OnlyFailureLosesData == Spec => LossOnlyByFailure
<1>1. IInv /\ [Next]_vars
        => [\A b \in Owners : ~Lost(b) /\ Lost(b)' => \E t \in Threads : AllocFail(t)]_vars
  <2>. SUFFICES ASSUME IInv, [Next]_vars, NEW b \in Owners, ~Lost(b),
                       \A t \in Threads : ~AllocFail(t)
                PROVE  ~Lost(b)'
    OBVIOUS
  <2>1. ASSUME NEW t \in Threads, Call(t) \/ EnterContext(t) \/ ExitContext(t) PROVE ~Lost(b)'
    BY <2>1, CallKeepsData
  <2>2. ASSUME NEW t \in Threads, Sweep(t) PROVE ~Lost(b)'
    BY <2>2, SweepKeepsData
  <2>3. ASSUME NEW t \in Threads, Buffer(t) PROVE ~Lost(b)'
    BY <2>3, BufferKeepsData
  <2>. QED  BY <2>1, <2>2, <2>3, OthersKeepData DEF Next
<1>. QED  BY <1>1, SpecIInv, PTL DEF Spec, LossOnlyByFailure
=============================================================================
