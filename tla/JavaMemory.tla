----------------------------- MODULE JavaMemory -----------------------------
(***************************************************************************)
(* Off-heap memory of the Java API: reference-counted MemoryBuffers and    *)
(* their slices, the cleaner thread that reclaims what was leaked          *)
(* (MemoryCleaner), and the pinned memory pool the buffers come from.      *)
(*                                                                         *)
(* Every thread has a stack of the calls it is in.  A call that is         *)
(* synchronized holds its monitor as long as its frame is on the stack:    *)
(* "closing" b holds the buffer's, "cleaning" b the cleaner's, "locked",   *)
(* "initialize" and "shutdown" the class's.  The application closes each   *)
(* reference at most once and uses only the references it holds; it may    *)
(* forget one.                                                             *)
(***************************************************************************)
EXTENDS Integers, Sequences, FiniteSets

CONSTANTS Users,       \* threads of the application
          Buffers,     \* MemoryBuffer objects, each created at most once
          Pools,       \* PinnedMemoryPool objects, each created at most once
          MaxRefs,     \* bound on the references held to one buffer
          MaxCalls,    \* bound on the calls of the application
          None

ASSUME JavaAssumption ==
  /\ IsFiniteSet(Users) /\ IsFiniteSet(Buffers) /\ IsFiniteSet(Pools)
  /\ MaxRefs \in Nat \ {0} /\ MaxCalls \in Nat
  /\ None \notin Buffers \cup Pools
  /\ {"cleaner", "hook"} \cap Users = {}

Threads == Users \cup {"cleaner", "hook"}

VARIABLES
  parent,         \* the buffer a slice was made from, None for a root
  origin,         \* the pool a root was allocated in, None for a slice
  refCount,
  closed,
  resource,       \* cleaner: there is something to clean
  refs,           \* references the application holds
  all,            \* MemoryCleaner.all
  collected,      \* the reference queue
  singleton_, initFuture,
  pool,           \* the native pool of each object
  stack, ret, got,  \* calls of each thread, and what the last one returned
  jvm,            \* whether the shutdown hook was started
  visited,        \* what the hook has iterated over
  calls,          \* calls the application has made
  frees           \* history: the pools each root was given back to

bufferVars == <<parent, origin, refCount, closed, resource, refs, all, collected, frees>>
poolVars == <<singleton_, initFuture, pool>>
jvmVars == <<jvm, visited, calls>>
vars == <<bufferVars, poolVars, stack, ret, got, jvmVars>>


(* Objects that were not created yet are alike: the next one is any.       *)
Unused == {b \in Buffers : parent[b] = None /\ origin[b] = None}
Fresh == {b \in Unused : b = CHOOSE u \in Unused : TRUE}
FreshPool == LET unused == {p \in Pools : pool[p] = "none"}
             IN {p \in unused : p = CHOOSE u \in unused : TRUE}

Init ==
  /\ parent = [b \in Buffers |-> None] /\ origin = [b \in Buffers |-> None]
  /\ refCount = [b \in Buffers |-> 0] /\ closed = [b \in Buffers |-> FALSE]
  /\ resource = [b \in Buffers |-> FALSE] /\ refs = [b \in Buffers |-> 0]
  /\ all = {} /\ collected = {}
  /\ singleton_ = None /\ initFuture = None /\ pool = [p \in Pools |-> "none"]
  /\ stack = [t \in Threads |-> <<>>]
  /\ ret = [t \in Threads |-> "ok"] /\ got = [t \in Threads |-> None]
  /\ jvm = "running" /\ visited = {} /\ calls = 0
  /\ frees = [b \in Buffers |-> <<>>]

-----------------------------------------------------------------------------
(* Frames and monitors.                                                    *)

Frame(at, b) == [at |-> at, buf |-> b]
Top(t) == stack[t][Len(stack[t])]
At(t, at) == stack[t] # <<>> /\ Top(t).at = at
Below(t) == SubSeq(stack[t], 1, Len(stack[t]) - 1)

InFrame(t, at, b) == \E i \in DOMAIN stack[t] : stack[t][i] = Frame(at, b)

BufferFree(t, b) == \A u \in Threads \ {t} : ~InFrame(u, "closing", b)
CleanerFree(t, b) == \A u \in Threads \ {t} : ~InFrame(u, "cleaning", b)
InClass(t) == \E i \in DOMAIN stack[t] :
                stack[t][i].at \in {"locked", "initialize", "shutdown", "unset"}
ClassFree(t) == \A u \in Threads \ {t} : ~InClass(u)

Enter(t, f) == stack' = [stack EXCEPT ![t] = Append(@, f)] /\ UNCHANGED <<ret, got>>
Become(t, at) == stack' = [stack EXCEPT ![t] = Append(Below(t), Frame(at, Top(t).buf))]
                 /\ UNCHANGED <<ret, got>>
BecomeAndEnter(t, at, fs) ==
  /\ stack' = [stack EXCEPT ![t] = Append(Below(t), Frame(at, Top(t).buf)) \o fs]
  /\ UNCHANGED <<ret, got>>
(* What the application does with a result is its own affair.              *)
ReturnWith(t, r, p) ==
  /\ stack' = [stack EXCEPT ![t] = Below(t)]
  /\ ret' = [ret EXCEPT ![t] = IF t \in Users /\ Below(t) = <<>> THEN "ok" ELSE r]
  /\ got' = [got EXCEPT ![t] = p]
Return(t, r) == ReturnWith(t, r, None)

(* A call of the application.                                              *)
Call(t) == /\ t \in Users /\ stack[t] = <<>> /\ calls < MaxCalls
           /\ calls' = calls + 1 /\ UNCHANGED <<jvm, visited>>

-----------------------------------------------------------------------------
(* MemoryBuffer.                                                           *)

(* incRefCount, by a thread that holds a reference.                        *)
IncRefCount(t, b) ==
  /\ Call(t) /\ refs[b] \in 1 .. MaxRefs - 1 /\ BufferFree(t, b)
  /\ refCount' = [refCount EXCEPT ![b] = @ + 1]
  /\ refs' = [refs EXCEPT ![b] = @ + 1]
  /\ UNCHANGED <<parent, origin, closed, resource, all, collected, frees, poolVars, stack,
                 ret, got>>

(* Mutant: the slice does not count as a reference.                      *)
SliceUncounted(t, b, s) ==
  /\ Call(t) /\ refs[b] > 0 /\ s \in Fresh /\ BufferFree(t, b)
  /\ refCount' = [refCount EXCEPT ![s] = 1]
  /\ parent' = [parent EXCEPT ![s] = b]
  /\ resource' = [resource EXCEPT ![s] = TRUE]
  /\ refs' = [refs EXCEPT ![s] = 1]
  /\ all' = all \cup {s}
  /\ UNCHANGED <<origin, closed, collected, frees, poolVars, stack, ret, got>>

(* slice: the new buffer's cleaner holds a reference to this one.          *)
Slice(t, b, s) ==
  /\ Call(t) /\ refs[b] > 0 /\ s \in Fresh /\ BufferFree(t, b)
  /\ refCount' = [refCount EXCEPT ![b] = @ + 1, ![s] = 1]
  /\ parent' = [parent EXCEPT ![s] = b]
  /\ resource' = [resource EXCEPT ![s] = TRUE]
  /\ refs' = [refs EXCEPT ![s] = 1]
  /\ all' = all \cup {s}
  /\ UNCHANGED <<origin, closed, collected, frees, poolVars, stack, ret, got>>

CallClose(t, b) ==
  /\ Call(t) /\ refs[b] > 0
  /\ refs' = [refs EXCEPT ![b] = @ - 1]
  /\ Enter(t, Frame("close", b))
  /\ UNCHANGED <<parent, origin, refCount, closed, resource, all, collected, frees, poolVars>>

(* close: the last reference cleans; one too many is an error.             *)
Close(t) ==
  LET b == Top(t).buf IN
  /\ At(t, "close") /\ BufferFree(t, b)
  /\ refCount' = [refCount EXCEPT ![b] = @ - 1]
  /\ \/ refCount[b] > 1 /\ Return(t, "ok")
     \/ refCount[b] = 1 /\ BecomeAndEnter(t, "closing", <<Frame("clean", b)>>)
     \/ refCount[b] < 1 /\ Return(t, "throw")
  /\ UNCHANGED <<parent, origin, closed, resource, refs, all, collected, frees, poolVars,
                 jvmVars>>

Closing(t) ==
  /\ At(t, "closing")
  /\ closed' = [closed EXCEPT ![Top(t).buf] = @ \/ ret[t] # "throw"]
  /\ Return(t, IF ret[t] = "throw" THEN "throw" ELSE "ok")
  /\ UNCHANGED <<parent, origin, refCount, resource, refs, all, collected, frees, poolVars,
                 jvmVars>>

-----------------------------------------------------------------------------
(* Cleaners.                                                               *)

(* Mutant: a root's cleaner is not synchronized.                         *)
CleanRootUnlocked(t) ==
  LET b == Top(t).buf IN
  /\ At(t, "clean") /\ (parent[b] = None \/ CleanerFree(t, b))
  /\ \/ ~resource[b] /\ Return(t, "clean")
     \/ /\ resource[b] /\ parent[b] # None
        /\ BecomeAndEnter(t, "cleaning", <<Frame("close", parent[b])>>)
     \/ /\ resource[b] /\ parent[b] = None
        /\ BecomeAndEnter(t, "cleaning", <<Frame("free", b), Frame("single", None)>>)
  /\ UNCHANGED <<bufferVars, poolVars, jvmVars>>

(* Mutant: a slice's cleaner is not synchronized.                        *)
CleanSliceUnlocked(t) ==
  LET b == Top(t).buf IN
  /\ At(t, "clean") /\ (parent[b] # None \/ CleanerFree(t, b))
  /\ \/ ~resource[b] /\ Return(t, "clean")
     \/ /\ resource[b] /\ parent[b] # None
        /\ BecomeAndEnter(t, "cleaning", <<Frame("close", parent[b])>>)
     \/ /\ resource[b] /\ parent[b] = None
        /\ BecomeAndEnter(t, "cleaning", <<Frame("free", b), Frame("single", None)>>)
  /\ UNCHANGED <<bufferVars, poolVars, jvmVars>>

(* Cleaner.clean: a slice's closes its parent, a root's gives the memory   *)
(* back to the pool.                                                       *)
Clean(t) ==
  LET b == Top(t).buf IN
  /\ At(t, "clean") /\ CleanerFree(t, b)
  /\ \/ ~resource[b] /\ Return(t, "clean")
     \/ /\ resource[b] /\ parent[b] # None
        /\ BecomeAndEnter(t, "cleaning", <<Frame("close", parent[b])>>)
     \/ /\ resource[b] /\ parent[b] = None
        /\ BecomeAndEnter(t, "cleaning", <<Frame("free", b), Frame("single", None)>>)
  /\ UNCHANGED <<bufferVars, poolVars, jvmVars>>

(* Mutant: an exception leaves the resource to be cleaned again.         *)
CleaningUnmarked(t) ==
  LET b == Top(t).buf IN
  /\ At(t, "cleaning")
  /\ resource' = [resource EXCEPT ![b] = ret[t] = "throw"]
  /\ all' = IF ret[t] = "throw" THEN all ELSE all \ {b}
  /\ Return(t, ret[t])
  /\ UNCHANGED <<parent, origin, refCount, closed, refs, collected, frees, poolVars, jvmVars>>

(* Marked as clean even if an exception was thrown; unregistered only if   *)
(* none was.                                                               *)
Cleaning(t) ==
  LET b == Top(t).buf IN
  /\ At(t, "cleaning")
  /\ resource' = [resource EXCEPT ![b] = FALSE]
  /\ all' = IF ret[t] = "throw" THEN all ELSE all \ {b}
  /\ Return(t, ret[t])
  /\ UNCHANGED <<parent, origin, refCount, closed, refs, collected, frees, poolVars, jvmVars>>

(* The application forgets a reference.                                    *)
Forget(b) ==
  /\ refs[b] > 0
  /\ refs' = [refs EXCEPT ![b] = @ - 1]
  /\ UNCHANGED <<parent, origin, refCount, closed, resource, all, collected, frees, poolVars,
                 stack, ret, got, jvmVars>>

(* What a cleaner or a running call refers to is reachable.                *)
Reachable(b) ==
  \/ refs[b] > 0
  \/ \E t \in Threads : InFrame(t, "close", b) \/ InFrame(t, "closing", b)
  \/ \E s \in Buffers : parent[s] = b /\ resource[s]

(* The garbage collector clears the weak reference and enqueues it.        *)
Collect(b) ==
  /\ b \in all \ collected /\ ~Reachable(b)
  /\ collected' = collected \cup {b}
  /\ UNCHANGED <<parent, origin, refCount, closed, resource, refs, all, frees, poolVars,
                 stack, ret, got, jvmVars>>

(* Mutant: an exception ends the cleaner thread.                           *)
DequeueUncaught(b) ==
  /\ stack["cleaner"] = <<>> /\ b \in collected
  /\ ret["cleaner"] # "throw"
  /\ stack' = [stack EXCEPT !["cleaner"] = <<Frame("reclaim", b), Frame("clean", b)>>]
  /\ UNCHANGED <<bufferVars, poolVars, ret, got, jvmVars>>

(* The cleaner thread takes a reference from the queue, also once it was   *)
(* interrupted, which ends its wait for an empty queue only, ...           *)
Dequeue(b) ==
  /\ stack["cleaner"] = <<>> /\ b \in collected
  /\ stack' = [stack EXCEPT !["cleaner"] = <<Frame("reclaim", b), Frame("clean", b)>>]
  /\ UNCHANGED <<bufferVars, poolVars, ret, got, jvmVars>>

(* ... and forgets it whether or not it could be cleaned.                  *)
Reclaimed ==
  /\ At("cleaner", "reclaim")
  /\ all' = all \ {Top("cleaner").buf}
  /\ collected' = collected \ {Top("cleaner").buf}
  /\ Return("cleaner", IF ret["cleaner"] = "throw" THEN "throw" ELSE "ok")
  /\ UNCHANGED <<parent, origin, refCount, closed, resource, refs, frees, poolVars, jvmVars>>

(* The shutdown hook interrupts the cleaner thread and waits for it for at *)
(* most a second, so it may still be running ...                           *)
StartHook ==
  /\ jvm = "running" /\ jvm' = "exiting"
  /\ UNCHANGED <<bufferVars, poolVars, stack, ret, got, visited, calls>>

(* ... and cleans what is registered, until an exception ends it.          *)
HookClean(b) ==
  /\ jvm = "exiting" /\ stack["hook"] = <<>> /\ ret["hook"] # "throw"
  /\ b \in all \ visited
  /\ visited' = visited \cup {b}
  /\ Enter("hook", Frame("clean", b))
  /\ UNCHANGED <<bufferVars, poolVars, jvm, calls>>

-----------------------------------------------------------------------------
(* PinnedMemoryPool.getSingleton.                                          *)

(* The field is tested outside the lock ...                                *)
Single(t) ==
  /\ At(t, "single")
  /\ \/ singleton_ # None /\ ReturnWith(t, "ok", singleton_)
     \/ singleton_ = None /\ Become(t, "future")
  /\ UNCHANGED <<bufferVars, poolVars, jvmVars>>

(* Mutant: only the finished pool counts as initialized.                 *)
FutureIgnored(t) ==
  /\ At(t, "future")
  /\ Return(t, "ok")
  /\ UNCHANGED <<bufferVars, poolVars, jvmVars>>

(* ... and so is the future, which is not volatile: a thread that is not   *)
(* in the class's monitor may read an old value.                           *)
Future(t) ==
  /\ At(t, "future")
  /\ \/ (initFuture = None \/ ~InClass(t)) /\ Return(t, "ok")
     \/ initFuture # None /\ ClassFree(t) /\ Become(t, "locked")
     \/ ~InClass(t) /\ ClassFree(t) /\ (\E p \in Pools : pool[p] # "none") /\ Become(t, "locked")
  /\ UNCHANGED <<bufferVars, poolVars, jvmVars>>

(* The hook's interrupt ends the cleaner thread's wait for a future.       *)
Interrupted(t) == t = "cleaner" /\ jvm = "exiting"

(* Mutant: a future that failed never answers.                           *)
LockedUnfailed(t) ==
  /\ At(t, "locked")
  /\ \/ /\ singleton_ # None
        /\ Become(t, "final") /\ UNCHANGED poolVars
     \/ /\ singleton_ = None
        /\ IF initFuture = None THEN TRUE
           ELSE pool[initFuture] = "pending" /\ Interrupted(t)
        /\ Return(t, "throw") /\ UNCHANGED poolVars
     \/ /\ singleton_ = None /\ initFuture # None /\ pool[initFuture] = "live"
        /\ singleton_' = initFuture
        /\ BecomeAndEnter(t, "locked", <<Frame("reset", None)>>)
        /\ UNCHANGED <<initFuture, pool>>
  /\ UNCHANGED <<bufferVars, jvmVars>>

(* In the lock the field is tested again; the future may be null by now,   *)
(* not yet done, or have failed, or the wait for it is interrupted.        *)
Locked(t) ==
  /\ At(t, "locked")
  /\ \/ /\ singleton_ # None
        /\ Become(t, "final") /\ UNCHANGED poolVars
     \/ /\ singleton_ = None
        /\ IF initFuture = None THEN TRUE
           ELSE pool[initFuture] = "failed" \/ (pool[initFuture] = "pending" /\ Interrupted(t))
        /\ Return(t, "throw") /\ UNCHANGED poolVars
     \/ /\ singleton_ = None /\ initFuture # None /\ pool[initFuture] = "live"
        /\ singleton_' = initFuture
        /\ BecomeAndEnter(t, "locked", <<Frame("reset", None)>>)
        /\ UNCHANGED <<initFuture, pool>>
  /\ UNCHANGED <<bufferVars, jvmVars>>

(* The future is dropped while the lock is held.                           *)
ResetFuture(t) ==
  /\ At(t, "reset")
  /\ initFuture' = None
  /\ stack' = [stack EXCEPT ![t] = Append(SubSeq(@, 1, Len(@) - 2), Frame("final", None))]
  /\ UNCHANGED <<bufferVars, singleton_, pool, ret, got, jvmVars>>

(* The field is read once more to be returned.                             *)
Final(t) ==
  /\ At(t, "final")
  /\ ReturnWith(t, "ok", singleton_)
  /\ UNCHANGED <<bufferVars, poolVars, jvmVars>>

-----------------------------------------------------------------------------
(* PinnedMemoryPool's calls.                                               *)

(* tryAllocate: the singleton, then the native allocation.                 *)
CallAllocate(t) ==
  /\ Call(t) /\ Fresh # {}
  /\ stack' = [stack EXCEPT ![t] = <<Frame("allocate", None), Frame("single", None)>>]
  /\ UNCHANGED <<bufferVars, poolVars, ret, got>>

(* No pool, an exception, or no room: no buffer.                           *)
AllocateNothing(t) ==
  /\ At(t, "allocate") /\ Return(t, ret[t])
  /\ UNCHANGED <<bufferVars, poolVars, jvmVars>>

(* A pool that was released in the meantime may still answer.              *)
Allocate(t, b) ==
  /\ At(t, "allocate") /\ ret[t] = "ok" /\ got[t] # None /\ b \in Fresh
  /\ origin' = [origin EXCEPT ![b] = got[t]]
  /\ refCount' = [refCount EXCEPT ![b] = 1]
  /\ resource' = [resource EXCEPT ![b] = TRUE]
  /\ refs' = [refs EXCEPT ![b] = 1]
  /\ all' = all \cup {b}
  /\ Return(t, "ok")
  /\ UNCHANGED <<parent, closed, collected, frees, poolVars, jvmVars>>

(* freeInternal: gives the memory to the pool of the moment.  If that one  *)
(* was released since it was looked up, the native call gets a stale       *)
(* handle, or -1: it may still work, or not (a crash ends the behaviour).  *)
Free(t) ==
  LET b == Top(t).buf IN
  /\ At(t, "free")
  /\ \/ /\ ret[t] = "ok" /\ got[t] # None
        /\ frees' = [frees EXCEPT ![b] = Append(@, got[t])]
        /\ Return(t, "ok")
     \/ /\ ret[t] = "throw" \/ got[t] \notin {p \in Pools : pool[p] # "released"}
        /\ Return(t, "throw") /\ UNCHANGED frees
  /\ UNCHANGED <<parent, origin, refCount, closed, resource, refs, all, collected, poolVars,
                 jvmVars>>

(* initialize and shutdown hold the class's monitor throughout.            *)
CallInitialize(t) ==
  /\ Call(t) /\ ClassFree(t) /\ FreshPool # {}
  /\ stack' = [stack EXCEPT ![t] = <<Frame("initialize", None), Frame("single", None)>>]
  /\ UNCHANGED <<bufferVars, poolVars, ret, got>>

Initialize(t) ==
  /\ At(t, "initialize")
  /\ \/ /\ ret[t] = "ok" /\ got[t] = None
        /\ \E p \in FreshPool : /\ initFuture' = p
                                /\ pool' = [pool EXCEPT ![p] = "pending"]
        /\ Return(t, "ok")
     \/ /\ ret[t] = "throw" \/ got[t] # None
        /\ Return(t, "throw") /\ UNCHANGED <<initFuture, pool>>
  /\ UNCHANGED <<bufferVars, singleton_, jvmVars>>

(* The thread that runs the future: the native pool is made, or fails.     *)
PoolInit(p) ==
  /\ pool[p] = "pending"
  /\ \E r \in {"live", "failed"} : pool' = [pool EXCEPT ![p] = r]
  /\ UNCHANGED <<bufferVars, singleton_, initFuture, stack, ret, got, jvmVars>>

CallShutdown(t) ==
  /\ Call(t) /\ ClassFree(t)
  /\ stack' = [stack EXCEPT ![t] = <<Frame("shutdown", None), Frame("single", None)>>]
  /\ UNCHANGED <<bufferVars, poolVars, ret, got>>

(* Mutant: what is still allocated is cleaned before the pool is released. *)
ShutdownCleaning(t) ==
  /\ At(t, "shutdown")
  /\ \/ ret[t] = "throw" /\ Return(t, "throw") /\ UNCHANGED pool
     \/ \E b \in all : BecomeAndEnter(t, "shutdown", <<Frame("clean", b)>>) /\ UNCHANGED pool
     \/ /\ ret[t] # "throw"
        /\ pool' = [p \in Pools |-> IF p = got[t] THEN "released" ELSE pool[p]]
        /\ Become(t, "unset")
  /\ UNCHANGED <<bufferVars, singleton_, initFuture, jvmVars>>

(* close: the native pool is released ...                                  *)
Shutdown(t) ==
  /\ At(t, "shutdown")
  /\ \/ ret[t] = "throw" /\ Return(t, "throw") /\ UNCHANGED pool
     \/ /\ ret[t] = "ok"
        /\ pool' = [p \in Pools |-> IF p = got[t] THEN "released" ELSE pool[p]]
        /\ Become(t, "unset")
  /\ UNCHANGED <<bufferVars, singleton_, initFuture, jvmVars>>

(* ... and then the fields are unset.                                      *)
Unset(t) ==
  /\ At(t, "unset")
  /\ initFuture' = None /\ singleton_' = None
  /\ Return(t, "ok")
  /\ UNCHANGED <<bufferVars, pool, jvmVars>>

-----------------------------------------------------------------------------
Application(t) ==
  \/ \E b \in Buffers : IncRefCount(t, b) \/ CallClose(t, b)
  \/ \E b, s \in Buffers : Slice(t, b, s)
  \/ CallAllocate(t) \/ CallInitialize(t) \/ CallShutdown(t)

(* The next step of the calls a thread is in.                              *)
Step(t) ==
  \/ Close(t) \/ Closing(t) \/ Clean(t) \/ Cleaning(t)
  \/ Single(t) \/ Future(t) \/ Locked(t) \/ ResetFuture(t) \/ Final(t)
  \/ AllocateNothing(t) \/ (\E b \in Buffers : Allocate(t, b))
  \/ Free(t) \/ Initialize(t) \/ Shutdown(t) \/ Unset(t)

(* The cleaner thread need not go on to another buffer once the JVM ends.   *)
CleanerThread == \/ Step("cleaner") \/ Reclaimed
                 \/ jvm = "running" /\ \E b \in Buffers : Dequeue(b)

Next == \/ \E t \in Users : Application(t) \/ Step(t)
        \/ Step("cleaner") \/ Reclaimed \/ \E b \in Buffers : Dequeue(b)
        \/ Step("hook") \/ StartHook \/ \E b \in Buffers : HookClean(b)
        \/ \E b \in Buffers : Forget(b) \/ Collect(b)
        \/ \E p \in Pools : PoolInit(p)

(* Threads that are in a call, the cleaner thread and the thread of the    *)
(* future run on; nothing is assumed of the application, of the garbage    *)
(* collector or of the end of the JVM.                                     *)
Spec == /\ Init /\ [][Next]_vars
        /\ \A t \in Users \cup {"hook"} : WF_vars(Step(t))
        /\ WF_vars(CleanerThread)
        /\ \A p \in Pools : WF_vars(PoolInit(p))

-----------------------------------------------------------------------------
FrameAt == {"close", "closing", "clean", "cleaning", "reclaim", "single", "future", "locked",
            "reset", "final", "allocate", "free", "initialize", "shutdown", "unset"}

(* Types.  A count is never negative: an application that closes each      *)
(* reference once never sees "Close called too many times".                *)
TypeOK ==
  /\ parent \in [Buffers -> Buffers \cup {None}] /\ origin \in [Buffers -> Pools \cup {None}]
  /\ refCount \in [Buffers -> Nat] /\ closed \in [Buffers -> BOOLEAN]
  /\ resource \in [Buffers -> BOOLEAN] /\ refs \in [Buffers -> 0 .. MaxRefs]
  /\ all \subseteq Buffers /\ collected \subseteq Buffers
  /\ singleton_ \in Pools \cup {None} /\ initFuture \in Pools \cup {None}
  /\ pool \in [Pools -> {"none", "pending", "live", "failed", "released"}]
  /\ stack \in [Threads -> Seq([at : FrameAt, buf : Buffers \cup {None}])]
  /\ ret \in [Threads -> {"ok", "throw", "clean"}] /\ got \in [Threads -> Pools \cup {None}]
  /\ jvm \in {"running", "exiting"} /\ visited \subseteq Buffers /\ calls \in 0 .. MaxCalls

(* Memory is given back at most once, although an explicit close, the      *)
(* cleaner thread and the shutdown hook may all clean the same buffer, and *)
(* whatever exceptions end a clean half way.                               *)
FreedOnce == \A b \in Buffers : Len(frees[b]) <= 1

(* While the application holds a reference to a buffer, the buffer is open *)
(* and so is the buffer it is a slice of; until the JVM ends, the memory   *)
(* is not given back to the pool.                                          *)
Held(b) == refs[b] > 0 \/ \E s \in Buffers : parent[s] = b /\ refs[s] > 0
RefsKeepMemory ==
  jvm = "running" =>
    \A b \in Buffers : Held(b) => resource[b] /\ ~closed[b] /\ frees[b] = <<>>

(* What is not clean is registered: nothing can be leaked for good, even   *)
(* when a clean throws.                                                    *)
LeaksTracked == \A b \in Buffers : resource[b] => b \in all

(* No two pools exist at a time, whatever initialize, shutdown and the     *)
(* first users do at once.                                                 *)
OnePool == Cardinality({p \in Pools : pool[p] \in {"pending", "live"}}) <= 1

(* A leaked buffer that the garbage collector has found is cleaned, unless *)
(* the JVM ends; the calls being bounded, in the end none is left.         *)
LeaksReclaimed == <>[](jvm = "running" => \A b \in collected : ~resource[b])

(* Threads never wait in a circle, each for a monitor that another one of  *)
(* them is in: a close goes from a slice to its parent and from a root to  *)
(* the pool, and nothing that is done in the pool's monitor goes back.     *)
WaitsFor(t, u) ==
  /\ t # u
  /\ \/ At(t, "close") /\ InFrame(u, "closing", Top(t).buf)
     \/ At(t, "clean") /\ InFrame(u, "cleaning", Top(t).buf)
     \/ At(t, "future") /\ InClass(u)
NoCircle ==
  \A S \in (SUBSET Threads) \ {{}} : \E t \in S : \A u \in S : ~WaitsFor(t, u)

(* Every call returns: nobody waits for ever for a monitor, nor for the    *)
(* future.                                                                 *)
CallsReturn == <>[](\A t \in Threads : stack[t] = <<>>)
=============================================================================
